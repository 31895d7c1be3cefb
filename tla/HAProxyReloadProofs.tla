------------------------ MODULE HAProxyReloadProofs -------------------------
(***************************************************************************)
(* Proofs about one update of one instance: how the cache times it, for    *)
(* every ttl and every duration of an update, and that restarts happen     *)
(* behind DROP rules on every port.                                        *)
(***************************************************************************)
EXTENDS HAProxyReload, TLAPS

(***************************************************************************)
(* What the reaper and the handler rely on.  An entry carries the time of  *)
(* the last request, which is owed an update and is not older than the     *)
(* last one; a request that is owed is in the cache or on its way to the   *)
(* handler; the reaper deletes and signals only for a request that is owed *)
(* and a ttl after the last update began, although the entry it deletes    *)
(* may be younger; and the ticker's next tick is less than two ttls away   *)
(* from the entry, unless a tick is waiting or the entry is to be deleted. *)
(***************************************************************************)
CacheInv ==
  /\ CacheTypeOK
  /\ now <= due /\ due <= now + TTL
  /\ entry # Never => entry = lastSet /\ begun <= entry /\ owed
  /\ owed => lastSet # Never /\ (entry = lastSet \/ reaper \in {"delete", "send"})
  /\ reaper = "delete" => entry # Never
  /\ reaper \in {"delete", "send"} => owed /\ (begun = Never \/ now - begun >= TTL)
  /\ entry # Never /\ reaper # "delete" /\ ~ticked => due < entry + 2 * TTL
  /\ owed => begun <= lastSet

\* The cache starts empty.
LEMMA CacheInitInv == CacheInit => CacheInv
<1> SUFFICES ASSUME CacheInit PROVE CacheInv
  OBVIOUS
<1>1. ~ticked /\ ~owed /\ ticked \in BOOLEAN /\ owed \in BOOLEAN
  BY Zenon DEF CacheInit
<1> QED
  BY <1>1, DebounceAssumption DEF CacheInit, CacheInv, CacheTypeOK, Never

\* Every step of the cache, the reaper and the handler keeps the invariant.
LEMMA CacheStepInv == CacheInv /\ [CacheNext]_cacheVars => CacheInv'
<1> SUFFICES ASSUME CacheInv, [CacheNext]_cacheVars PROVE CacheInv'
  OBVIOUS
<1> USE DebounceAssumption DEF CacheInv, CacheTypeOK, Never
<1>1. CASE Elapse
  BY <1>1 DEF Elapse, Urgent
<1>2. CASE Set
  <2>1. owed' /\ owed' \in BOOLEAN
    BY <1>2, Zenon DEF Set
  <2> QED BY <1>2, <2>1 DEF Set
<1>3. CASE Ticker
  BY <1>3 DEF Ticker
<1>4. CASE ReapTest
  <2>1. ~ticked' /\ ticked' \in BOOLEAN
    BY <1>4, Zenon DEF ReapTest
  <2>2. CASE entry # Never /\ now - entry >= TTL
    <3>1. owed' /\ owed' \in BOOLEAN
      BY <1>4, <2>2, Zenon DEF ReapTest
    <3>2. /\ reaper' = "delete" /\ entry' = entry /\ now' = now /\ due' = due
          /\ handler' = handler /\ begun' = begun /\ lastSet' = lastSet
      BY <1>4, <2>2 DEF ReapTest
    <3> QED BY <2>1, <2>2, <3>1, <3>2
  <2>3. CASE ~(entry # Never /\ now - entry >= TTL)
    BY <1>4, <2>1, <2>3 DEF ReapTest
  <2> QED BY <2>2, <2>3
<1>9. CASE ReapDelete
  BY <1>9 DEF ReapDelete
<1>5. CASE Skip
  BY <1>5 DEF Skip
<1>6. CASE Begin
  <2>1. ~owed' /\ owed' \in BOOLEAN
    BY <1>6, Zenon DEF Begin
  <2> QED BY <1>6, <2>1 DEF Begin
<1>7. CASE End
  BY <1>7 DEF End
<1>8. CASE UNCHANGED cacheVars
  BY <1>8 DEF cacheVars
<1> QED
  BY <1>1, <1>2, <1>3, <1>4, <1>5, <1>6, <1>7, <1>8, <1>9 DEF CacheNext

\* The composition behaves towards the cache as Debounce says.
LEMMA ReloadStepIsCacheStep == [ReloadNext]_allVars => [CacheNext]_cacheVars
<1> SUFFICES ASSUME [ReloadNext]_allVars PROVE [CacheNext]_cacheVars
  OBVIOUS
<1>1. CASE Clock \/ Waiting(Set) \/ Waiting(Ticker) \/ Waiting(ReapTest)
         \/ Waiting(ReapDelete) \/ Waiting(Skip)
  BY <1>1 DEF Clock, Waiting, CacheNext
<1>2. CASE BeginUpdate \/ GiveUp \/ EndUpdate
  BY <1>2 DEF BeginUpdate, GiveUp, EndUpdate, CacheNext
<1>3. CASE Divide \/ StartReload \/ ReloadStep
  BY <1>3 DEF Divide, StartReload, ReloadStep
<1>4. CASE UNCHANGED allVars
  BY <1>4 DEF allVars
<1> QED
  BY <1>1, <1>2, <1>3, <1>4 DEF ReloadNext

\* The whole update refines the timed cache.
THEOREM ReloadImplementsCache == ReloadSpec => CacheSpec
<1>1. ReloadInit => CacheInit
  BY DEF ReloadInit
<1> QED
  BY <1>1, ReloadStepIsCacheStep, PTL DEF ReloadSpec, CacheSpec

\* The invariant holds throughout.
LEMMA ReloadCacheInv == ReloadSpec => []CacheInv
BY CacheInitInv, CacheStepInv, ReloadImplementsCache, PTL DEF CacheSpec

\* For every ttl, however requests, ticks, deletes and updates interleave:
\* an update begins only for a new request and a ttl after the last began.
THEOREM ReloadUpdatesSpaced == ReloadSpec => UpdatesSpaced
<1>1. CacheInv /\ [CacheNext]_cacheVars
        => [handler = "idle" /\ handler' = "update"
              => owed /\ (begun = Never \/ now - begun >= TTL)]_cacheVars
  BY DebounceAssumption
     DEF CacheInv, CacheTypeOK, CacheNext, cacheVars, Elapse, Set, Ticker, ReapTest,
         ReapDelete, Skip, Begin, End
<1> QED
  BY <1>1, ReloadCacheInv, ReloadImplementsCache, PTL DEF CacheSpec, UpdatesSpaced

\* For every ttl and every bound on the duration of updates: a request waits
\* for two ttls or longer only while an update runs that began before it.
THEOREM ReloadPrompt == ReloadSpec => Prompt
<1>1. CacheInv /\ [CacheNext]_cacheVars
        => [now' > now /\ owed /\ now' - lastSet >= 2 * TTL
              => handler = "update" /\ begun <= lastSet]_cacheVars
  <2> SUFFICES ASSUME CacheInv, CacheNext, now' > now, owed,
                      now' - lastSet >= 2 * TTL
               PROVE  handler = "update" /\ begun <= lastSet
    OBVIOUS
  <2> USE DebounceAssumption DEF CacheInv, CacheTypeOK, Never
  <2>1. Elapse
    <3>1. now' # now
      OBVIOUS
    <3> QED
      BY <3>1, Zenon DEF CacheNext, Set, Ticker, ReapTest, ReapDelete,
                          Skip, Begin, End
  <2>2. CASE handler = "idle"
    <3>1. entry = lastSet /\ entry # Never /\ ~ticked
      BY <2>1, <2>2 DEF Elapse, Urgent
    <3>2. now' <= due
      BY <2>1 DEF Elapse, Urgent
    <3>3. reaper # "delete" /\ now' = now + 1
      BY <2>1 DEF Elapse, Urgent
    <3>4. due < entry + 2 * TTL
      BY <3>1, <3>3
    <3> QED BY <3>1, <3>2, <3>3, <3>4
  <2>3. CASE handler = "update"
    BY <2>3
  <2> QED BY <2>2, <2>3
<1> QED
  BY <1>1, ReloadCacheInv, ReloadImplementsCache, PTL DEF CacheSpec, Prompt

-----------------------------------------------------------------------------
(***************************************************************************)
(* While the rules are being inserted the ports done so far have one, and  *)
(* during the restarts every port has, unless iptables failed.             *)
(***************************************************************************)
SynInv ==
  /\ syn \in {"idle", "drop", "restart", "resume"}
  /\ port \in 1 .. Ports
  /\ rules \in [1 .. Ports -> Nat]
  /\ failed \in BOOLEAN
  /\ syn = "drop" /\ ~failed => \A k \in 1 .. Ports : k < port => rules[k] > 0
  /\ syn = "restart" /\ ~failed => \A k \in 1 .. Ports : rules[k] > 0

\* One command of configIPTables, in either phase.
LEMMA ConfigIPTablesInv ==
  ASSUME SynInv, NEW s \in {"drop", "resume"}, Syn!ConfigIPTables(s, FALSE)
  PROVE  SynInv'
<1> USE PortsAssumption DEF SynInv
<1>1. /\ syn = s /\ failed' = failed
      /\ rules' = [rules EXCEPT ![port] = @ + 1]
      /\ syn' = IF port = Ports THEN Syn!After(s) ELSE s
      /\ port' = IF port = Ports THEN 1 ELSE port + 1
  BY DEF Syn!ConfigIPTables
<1>2. failed' \in BOOLEAN /\ (~failed' => ~failed)
  BY <1>1, Zenon
<1>3. /\ port' \in 1 .. Ports
      /\ rules' \in [1 .. Ports -> Nat]
      /\ \A k \in 1 .. Ports : rules'[k] >= rules[k]
      /\ rules'[port] > 0
  BY <1>1
<1>4. CASE port = Ports
  <2>1. CASE s = "drop"
    <3>1. syn = "drop" /\ syn' = "restart"
      BY <1>1, <1>4, <2>1 DEF Syn!After
    <3>2. ~failed' => \A k \in 1 .. Ports : rules'[k] > 0
      <4> SUFFICES ASSUME ~failed', NEW k \in 1 .. Ports PROVE rules'[k] > 0
        OBVIOUS
      <4>1. k < port => rules[k] > 0
        BY <1>2, <3>1
      <4> QED BY <4>1, <1>3, <1>4
    <3> QED BY <1>2, <1>3, <3>1, <3>2
  <2>2. CASE s = "resume"
    <3>1. syn' = "idle"
      BY <1>1, <1>4, <2>2 DEF Syn!After
    <3> QED BY <1>2, <1>3, <3>1
  <2> QED BY <2>1, <2>2
<1>5. CASE port # Ports
  <2>1. syn' = s /\ port' = port + 1
    BY <1>1, <1>5
  <2>2. syn' = "drop" /\ ~failed' => \A k \in 1 .. Ports : k < port' => rules'[k] > 0
    <3> SUFFICES ASSUME syn' = "drop", ~failed', NEW k \in 1 .. Ports, k < port'
                 PROVE  rules'[k] > 0
      OBVIOUS
    <3>1. k < port => rules[k] > 0
      BY <1>1, <1>2, <2>1
    <3> QED BY <3>1, <1>3, <2>1
  <2> QED BY <1>2, <1>3, <2>1, <2>2
<1> QED BY <1>4, <1>5

\* A command that fails ends its phase.
LEMMA IPTablesFailsInv ==
  ASSUME SynInv, NEW s \in {"drop", "resume"}, Syn!IPTablesFails(s)
  PROVE  SynInv'
<1>1. failed' /\ failed' \in BOOLEAN
  BY Zenon DEF Syn!IPTablesFails
<1> QED
  BY <1>1, PortsAssumption DEF SynInv, Syn!IPTablesFails, Syn!After

\* Every step keeps the invariant of the rules.
LEMMA SynStepInv == SynInv /\ [ReloadNext]_allVars => SynInv'
<1> SUFFICES ASSUME SynInv, [ReloadNext]_allVars PROVE SynInv'
  OBVIOUS
<1>1. CASE StartReload
  <2>1. ~failed' /\ failed' \in BOOLEAN
    BY <1>1, Zenon DEF StartReload, Syn!Reload
  <2> QED
    BY <1>1, <2>1, PortsAssumption DEF SynInv, StartReload, Syn!Reload
<1>2. CASE ReloadStep
  <2>1. CASE Syn!DropSYN
    BY <2>1, ConfigIPTablesInv, IPTablesFailsInv DEF Syn!DropSYN
  <2>2. CASE Syn!ResumeSYN
    BY <2>2, ConfigIPTablesInv, IPTablesFailsInv DEF Syn!ResumeSYN
  <2>3. CASE Syn!RestartProxy
    BY <2>3 DEF SynInv, Syn!RestartProxy
  <2>4. CASE Syn!Restarted
    BY <2>4 DEF SynInv, Syn!Restarted
  <2> QED
    BY <1>2, <2>1, <2>2, <2>3, <2>4 DEF ReloadStep, Syn!Step
<1>3. CASE UNCHANGED synVars
  BY <1>3 DEF SynInv, synVars
<1> QED
  BY <1>1, <1>2, <1>3
     DEF ReloadNext, allVars, Clock, Waiting, BeginUpdate, GiveUp, Divide, EndUpdate

\* For any number of ports and proxies, and across any sequence of reloads
\* and failing commands: a proxy is restarted only behind DROP rules on
\* every port, unless iptables failed in this reload.
THEOREM ReloadDropsDuringRestart == ReloadSpec => []DropsDuringRestart
<1>1. ReloadInit => SynInv
  <2> SUFFICES ASSUME ReloadInit PROVE SynInv
    OBVIOUS
  <2>1. failed \in BOOLEAN
    BY Zenon DEF ReloadInit, Syn!Init
  <2> QED
    BY <2>1, PortsAssumption DEF ReloadInit, Syn!Init, SynInv
<1>2. SynInv => DropsDuringRestart
  BY DEF SynInv, DropsDuringRestart, Syn!DropsDuringRestart
<1> QED
  BY <1>1, <1>2, SynStepInv, PTL DEF ReloadSpec
=============================================================================
