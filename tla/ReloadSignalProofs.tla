------------------------- MODULE ReloadSignalProofs -------------------------
(***************************************************************************)
(* LoadBalancer implements ReloadSignal, once for each instance.  A step   *)
(* of another instance, of Docker or of the event loop is a stutter of the *)
(* signal; setting the cache entry is a Request, the handler's decision is *)
(* a Merge or a Begin, and the end of an update an End.                    *)
(***************************************************************************)
EXTENDS LoadBalancerProofs

\* What the signal of instance n is made of.
Held(n) == <<alive[n], key[n], reaper[n], upd[n]>>

\* What leaves cache, reaper and stage alone is a stutter of the signal.
LEMMA StutterSignal ==
  ASSUME NEW n \in Nodes, UNCHANGED Held(n)
  PROVE  UNCHANGED Signal(n)!vars
BY DEF Held, Signal!vars, Tokens

\* A step of another instance leaves this one's signal alone.
LEMMA OtherInstance ==
  ASSUME TypeOK, NEW n \in Nodes, NEW m \in Nodes, m # n,
         \/ EventLoop(n) \/ Age(n) \/ Reaper(n) \/ Updater(n) \/ Crash(n) \/ Restart(n)
  PROVE  UNCHANGED Held(m)
<1>1. CASE EventLoop(n) \/ Age(n) \/ Reaper(n) \/ Crash(n) \/ Restart(n)
  BY <1>1 DEF EventLoop, HandleEvent, PollAgain, PollEnd, CacheSet, InspectFails,
     PollFails, LoopOnly, Age, Reaper, ReapExpired, ReapDelete, ReapSignal,
     ReaperOnly, Crash, Restart, update, Held, TypeOK, LoopTypeOK, UpdateTypeOK
<1>2. CASE Updater(n)
  BY <1>2, HandlerFrame DEF UpdaterOnly, Held
<1> QED
  BY <1>1, <1>2

\* Docker's own steps leave every signal alone.
LEMMA DockerHeld ==
  ASSUME Environment \/ \E a \in Apps : Settle(a), NEW n \in Nodes
  PROVE  UNCHANGED Held(n)
BY DEF Environment, StartApp, StopApp, KillApp, EndApp, RemoveApp, ConnectApp,
   DisconnectApp, StartProxy, Change, Settle, update, Held

\* Tokens(n) is 0 to 3.
LEMMA TokensType ==
  ASSUME NEW n \in Nodes
  PROVE  /\ One(key[n] # "none") \in {0, 1}
         /\ One(reaper[n] = "send") \in {0, 1}
         /\ One(upd[n] = "check") \in {0, 1}
         /\ Tokens(n) \in Nat
BY DEF One, Tokens

\* The event loop makes requests (CacheSet) and nothing else.
LEMMA LoopSignal ==
  ASSUME TypeOK, NEW n \in Nodes, EventLoop(n)
  PROVE  [Signal(n)!Next]_(Signal(n)!vars)
<1>1. CASE CacheSet(n)
  <2>1. /\ alive[n] /\ alive' = alive /\ upd' = upd /\ reaper' = reaper
        /\ key[n]' = "young"
    BY <1>1 DEF CacheSet, LoopOnly, update, TypeOK, LoopTypeOK
  <2>2. Tokens(n)' \in {Tokens(n), Tokens(n) + 1} /\ Tokens(n)' > 0
    BY <2>1 DEF Tokens, One
  <2>3. Signal(n)!Request
    BY <2>1, <2>2 DEF Signal!Request
  <2> QED
    BY <2>3 DEF Signal!Next
<1>2. CASE \/ HandleEvent(n) \/ PollAgain(n) \/ PollEnd(n) \/ InspectFails(n)
           \/ PollFails(n)
  <2>1. UNCHANGED Held(n)
    BY <1>2 DEF HandleEvent, PollAgain, PollEnd, InspectFails, PollFails, LoopOnly,
       update, Held
  <2> QED
    BY <2>1, StutterSignal
<1> QED
  BY <1>1, <1>2 DEF EventLoop

\* The reaper hands the request on and never gives it up.
LEMMA CacheSignal ==
  ASSUME TypeOK, NEW n \in Nodes, Age(n) \/ Reaper(n)
  PROVE  [Signal(n)!Next]_(Signal(n)!vars)
<1>1. alive[n] /\ alive' = alive
  BY DEF Age, Reaper, ReapExpired, ReapDelete, ReapSignal, ReaperOnly
<1>2. CASE Age(n) \/ ReapExpired(n) \/ ReapSignal(n)
  <2>1. Tokens(n)' = Tokens(n)
    BY <1>2 DEF Age, ReapExpired, ReapSignal, Tokens, One, TypeOK, LoopTypeOK,
       UpdateTypeOK
  <2>2. (upd[n] \notin {"idle", "check"})' = (upd[n] \notin {"idle", "check"})
    BY <1>2 DEF Age, ReapExpired, ReapSignal, TypeOK, UpdateTypeOK
  <2> QED
    BY <1>1, <2>1, <2>2 DEF Signal!vars
<1>3. CASE ReapDelete(n)
  <2>1. upd' = upd /\ reaper[n] = "delete" /\ reaper[n]' = "send" /\ key[n]' = "none"
    BY <1>3 DEF ReapDelete, TypeOK, LoopTypeOK
  <2>2. Tokens(n)' \in {Tokens(n), Tokens(n) + 1} /\ Tokens(n)' > 0
    BY <2>1 DEF Tokens, One
  <2>3. Signal(n)!Request
    BY <1>1, <2>1, <2>2 DEF Signal!Request
  <2> QED
    BY <2>3 DEF Signal!Next
<1> QED
  BY <1>2, <1>3 DEF Reaper

\* The handler merges a signal only when the cache holds another one.
LEMMA UpdaterSignal ==
  ASSUME TypeOK, NEW n \in Nodes, Updater(n)
  PROVE  [Signal(n)!Next]_(Signal(n)!vars)
<1>1. UpdateTypeOK /\ alive' = alive /\ key' = key /\ reaper' = reaper
  BY HandlerFrame DEF UpdaterOnly, TypeOK
<1>2. CASE UpdCheck(n) /\ key[n] # "none"
  <2>1. upd[n] = "check" /\ upd[n]' = "idle"
    BY <1>1, <1>2 DEF UpdCheck, Enter, UpdateTypeOK
  <2>2. Tokens(n) > 1 /\ Tokens(n)' = Tokens(n) - 1
    BY <1>1, <1>2, <2>1 DEF Tokens, One
  <2>3. Signal(n)!Merge
    BY <1>1, <2>1, <2>2 DEF Signal!Merge
  <2> QED
    BY <2>3 DEF Signal!Next
<1>3. CASE UpdCheck(n) /\ key[n] = "none"
  <2>1. upd[n] = "check" /\ upd[n]' = "list"
    BY <1>1, <1>3 DEF UpdCheck, Enter, UpdateTypeOK
  <2>2. Tokens(n) > 0 /\ Tokens(n)' = Tokens(n) - 1
    BY <1>1, <2>1 DEF Tokens, One
  <2>3. Signal(n)!Begin
    BY <1>1, <2>1, <2>2 DEF Signal!Begin
  <2> QED
    BY <2>3 DEF Signal!Next
<1>4. CASE ~UpdCheck(n)
  <2>1. upd[n] \notin {"idle", "check"} /\ upd[n]' # "check"
    <3>1. CASE \/ UpdList(n) \/ UpdProxies(n) \/ UpdSaved(n) \/ UpdNodes(n) \/ UpdDone(n)
               \/ UpdListFails(n) \/ \E m \in Nodes : UpdNodesFails(n, m)
      BY <1>1, <3>1 DEF UpdList, UpdProxies, UpdSaved, UpdNodes, UpdDone, UpdListFails,
         UpdNodesFails, Enter, UpdateTypeOK
    <3>2. CASE \E a \in Apps : \/ UpdInspect(n, a) \/ UpdInspectGone(n, a)
                               \/ UpdInspectFails(n, a)
      BY <1>1, <3>2 DEF UpdInspect, UpdInspectGone, UpdInspectFails, Item, Enter,
         UpdateTypeOK
    <3>3. CASE \E p \in Proxies : \/ UpdSave(n, p) \/ UpdConnect(n, p)
                                  \/ UpdReload(n, p) \/ UpdProxyFails(n, p)
      BY <1>1, <3>3 DEF UpdSave, UpdConnect, UpdReload, UpdProxyFails, Item
    <3> QED
      BY <1>4, <3>1, <3>2, <3>3 DEF Updater
  <2>2. Tokens(n)' = Tokens(n)
    BY <1>1, <2>1 DEF Tokens, One
  <2>3. CASE upd[n]' = "idle"
    <3>1. Signal(n)!End
      BY <1>1, <2>1, <2>2, <2>3 DEF Signal!End
    <3> QED
      BY <3>1 DEF Signal!Next
  <2>4. CASE upd[n]' # "idle"
    BY <1>1, <2>1, <2>2, <2>4 DEF Signal!vars
  <2> QED
    BY <2>3, <2>4
<1> QED
  BY <1>2, <1>3, <1>4

\* The end of a process is a Crash of its signal, the next one a Boot.
LEMMA ProcessSignal ==
  ASSUME TypeOK, NEW n \in Nodes, Crash(n) \/ Restart(n)
  PROVE  [Signal(n)!Next]_(Signal(n)!vars)
<1>1. CASE Crash(n)
  <2>1. /\ alive[n]' = FALSE /\ key[n]' = "none" /\ reaper[n]' = "idle"
        /\ upd[n]' = "idle"
    BY <1>1 DEF Crash, TypeOK, LoopTypeOK, UpdateTypeOK
  <2>2. Tokens(n)' = 0
    BY <2>1 DEF Tokens, One
  <2>3. Signal(n)!Crash
    BY <2>1, <2>2 DEF Signal!Crash
  <2> QED
    BY <2>3 DEF Signal!Next
<1>2. CASE Restart(n)
  <2>1. /\ ~alive[n] /\ alive[n]' = TRUE /\ key' = key /\ reaper' = reaper
        /\ upd' = upd
    BY <1>2 DEF Restart, update, TypeOK, LoopTypeOK
  <2>2. Tokens(n)' = Tokens(n)
    BY <2>1 DEF Tokens
  <2>3. Signal(n)!Boot
    BY <2>1, <2>2 DEF Signal!Boot
  <2> QED
    BY <2>3 DEF Signal!Next
<1> QED
  BY <1>1, <1>2

\* Every step is a step or a stutter of every instance's signal.
LEMMA NextSignal ==
  ASSUME TypeOK, [Next]_vars
  PROVE  \A n \in Nodes : [Signal(n)!Next]_(Signal(n)!vars)
<1> SUFFICES ASSUME NEW n \in Nodes PROVE [Signal(n)!Next]_(Signal(n)!vars)
  OBVIOUS
<1>1. CASE UNCHANGED vars
  <2>1. UNCHANGED Held(n)
    BY <1>1 DEF vars, update, Held
  <2> QED
    BY <2>1, StutterSignal
<1>2. CASE Environment \/ \E a \in Apps : Settle(a)
  <2>1. UNCHANGED Held(n)
    BY <1>2, DockerHeld
  <2> QED
    BY <2>1, StutterSignal
<1>3. ASSUME NEW m \in Nodes,
             \/ EventLoop(m) \/ Age(m) \/ Reaper(m) \/ Updater(m) \/ Crash(m)
             \/ Restart(m)
      PROVE  [Signal(n)!Next]_(Signal(n)!vars)
  <2>1. CASE m # n
    <3>1. UNCHANGED Held(n)
      BY <1>3, <2>1, OtherInstance
    <3> QED
      BY <3>1, StutterSignal
  <2>2. CASE m = n
    BY <1>3, <2>2, LoopSignal, CacheSignal, UpdaterSignal, ProcessSignal
  <2> QED
    BY <2>1, <2>2
<1> QED
  BY <1>1, <1>2, <1>3 DEF Next

\* Initially nothing is requested and no update runs.
LEMMA InitSignal == Init => \A n \in Nodes : Signal(n)!Init
BY DEF Init, Signal!Init, Tokens, One

\* The debouncing cache, its reaper and the lbUpdateChan handler implement the
\* coalescing signal of ReloadSignal in every instance: the request held last is
\* never dropped but starts an update, and updates never overlap.
THEOREM LoadBalancerImplementsSignal == Spec => ImplementsSignal
BY InitSignal, NextSignal, LoadBalancerTypeOK, PTL DEF Spec, ImplementsSignal
=============================================================================
