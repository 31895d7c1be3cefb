------------------------- MODULE LoadBalancerProofs -------------------------
(***************************************************************************)
(* Invariants of LoadBalancer, for every value of its constants: types,    *)
(* that no update is lost, and what the proxies have when Interlock rests. *)
(*                                                                         *)
(* NoLostUpdate is not inductive.  A container that joins its network      *)
(* becomes Serving with no event of its own, so the poll that waits for it *)
(* has to be there (Awaited); the network may only list a container        *)
(* that runs (NetRunning); haproxy may drop an update half way only if     *)
(* another one is due (AbortIsCovered); and a container that is inspected  *)
(* must not be in the configuration already (Uninspected).  IInv is the    *)
(* conjunction, with one part NodeInv(n) per instance, because a step of   *)
(* one instance does nothing to another but send it events.                *)
(*                                                                         *)
(* The invariants about rest follow a proxy's file from the update that    *)
(* generates it: SavedInv says which instance answers for the file,        *)
(* JoinInv which one will connect the proxy, and, for a single instance,   *)
(* ReachableInv and ReloadedInv how far the update has come.               *)
(***************************************************************************)
EXTENDS LoadBalancer, SequenceTheorems, TLAPS

-----------------------------------------------------------------------------
(* Types                                                                   *)

\* An event of a known kind about a known container is an Event.
LEMMA EventType ==
  ASSUME NEW k \in Kinds, NEW c \in Containers
  PROVE  Event(k, c) \in Events
BY DEF Event, Events

\* What Docker sends keeps the streams sequences of events.
LEMMA SendType ==
  ASSUME TypeOK, NEW evs \in Seq(Events), Send(evs)
  PROVE  stream' \in [Nodes -> Seq(Events)]
<1>1. \A n \in Nodes : stream[n] \in Seq(Events) /\ stream[n] \o evs \in Seq(Events)
  BY ConcatProperties DEF TypeOK
<1> QED
  BY <1>1 DEF Send

\* The initial states of NewLoadBalancer and Docker are well typed.
LEMMA InitTypeOK == Init => TypeOK
<1> SUFFICES ASSUME Init PROVE TypeOK
  OBVIOUS
<1>1. <<Event("interlock-start", NoContainer)>> \in Seq(Events)
  <2>1. Event("interlock-start", NoContainer) \in Events
    BY EventType DEF Kinds, Containers
  <2> QED
    BY <2>1
<1>2. stream \in [Nodes -> Seq(Events)]
  BY <1>1 DEF Init
<1>3. DockerTypeOK
  BY ListAssumption DEF Init, DockerTypeOK
<1>4. LoopTypeOK
  BY BoundAssumption DEF Init, LoopTypeOK, Containers
<1>5. UpdateTypeOK
  BY DEF Init, UpdateTypeOK, Stages
<1> QED
  BY <1>2, <1>3, <1>4, <1>5 DEF TypeOK

\* What an operation of a user leaves alone keeps its type.
LEMMA ChangeTypeOK ==
  ASSUME TypeOK, NEW op, Change(op)
  PROVE  /\ LoopTypeOK' /\ UpdateTypeOK'
         /\ file' \in [Proxies -> SUBSET Apps]
         /\ loaded' \in [Proxies -> SUBSET Apps]
         /\ joined' \subseteq Proxies
         /\ changes' \in Nat /\ faults' \in Nat /\ crashes' \in Nat
BY DEF TypeOK, DockerTypeOK, LoopTypeOK, UpdateTypeOK, Change, loop, update

\* Operations of users on containers keep the types.
LEMMA EnvironmentTypeOK ==
  ASSUME TypeOK, Environment
  PROVE  TypeOK'
<1>1. ASSUME NEW a \in Apps, StartApp(a) PROVE TypeOK'
  <2>1. <<Event("connect", a), Event("start", a)>> \in Seq(Events)
    <3>1. Event("connect", a) \in Events /\ Event("start", a) \in Events
      BY EventType DEF Kinds, Containers
    <3> QED
      BY <3>1
  <2>2. stream' \in [Nodes -> Seq(Events)]
    BY <1>1, <2>1, SendType DEF StartApp
  <2>3. DockerTypeOK'
    BY <1>1, ChangeTypeOK DEF StartApp, TypeOK, DockerTypeOK
  <2> QED
    BY <1>1, <2>2, <2>3, ChangeTypeOK DEF StartApp, TypeOK
<1>2. ASSUME NEW a \in Apps, NEW op, NEW first \in Seq(Events),
             NEW last \in Seq(Events), EndApp(a, op, first, last)
      PROVE  TypeOK'
  <2>1. (IF net[a] # "no" THEN <<Event("disconnect", a)>> ELSE <<>>) \in Seq(Events)
    <3>1. Event("disconnect", a) \in Events
      BY EventType DEF Kinds, Containers
    <3> QED
      BY <3>1
  <2>2. first \o (IF net[a] # "no" THEN <<Event("disconnect", a)>> ELSE <<>>) \o last
          \in Seq(Events)
    BY <2>1, ConcatProperties
  <2>3. stream' \in [Nodes -> Seq(Events)]
    BY <1>2, <2>2, SendType DEF EndApp
  <2>4. DockerTypeOK'
    BY <1>2, ChangeTypeOK DEF EndApp, TypeOK, DockerTypeOK
  <2> QED
    BY <1>2, <2>3, <2>4, ChangeTypeOK DEF EndApp, TypeOK
<1>3. ASSUME NEW a \in Apps, RemoveApp(a) PROVE TypeOK'
  <2>1. <<Event("destroy", a)>> \in Seq(Events)
    <3>1. Event("destroy", a) \in Events
      BY EventType DEF Kinds, Containers
    <3> QED
      BY <3>1
  <2>2. stream' \in [Nodes -> Seq(Events)]
    BY <1>3, <2>1, SendType DEF RemoveApp
  <2>3. DockerTypeOK'
    BY <1>3, ChangeTypeOK DEF RemoveApp, TypeOK, DockerTypeOK
  <2> QED
    BY <1>3, <2>2, <2>3, ChangeTypeOK DEF RemoveApp, TypeOK
<1>4. ASSUME NEW a \in Apps, ConnectApp(a) PROVE TypeOK'
  <2>1. <<Event("connect", a)>> \in Seq(Events)
    <3>1. Event("connect", a) \in Events
      BY EventType DEF Kinds, Containers
    <3> QED
      BY <3>1
  <2>2. stream' \in [Nodes -> Seq(Events)]
    BY <1>4, <2>1, SendType DEF ConnectApp
  <2>3. DockerTypeOK'
    BY <1>4, ChangeTypeOK DEF ConnectApp, TypeOK, DockerTypeOK
  <2> QED
    BY <1>4, <2>2, <2>3, ChangeTypeOK DEF ConnectApp, TypeOK
<1>5. ASSUME NEW a \in Apps, DisconnectApp(a) PROVE TypeOK'
  <2>1. <<Event("disconnect", a)>> \in Seq(Events)
    <3>1. Event("disconnect", a) \in Events
      BY EventType DEF Kinds, Containers
    <3> QED
      BY <3>1
  <2>2. stream' \in [Nodes -> Seq(Events)]
    BY <1>5, <2>1, SendType DEF DisconnectApp
  <2>3. DockerTypeOK'
    BY <1>5, ChangeTypeOK DEF DisconnectApp, TypeOK, DockerTypeOK
  <2> QED
    BY <1>5, <2>2, <2>3, ChangeTypeOK DEF DisconnectApp, TypeOK
<1>6. ASSUME NEW p \in Proxies, StartProxy(p) PROVE TypeOK'
  <2>1. <<Event("start", p)>> \in Seq(Events)
    <3>1. Event("start", p) \in Events
      BY EventType DEF Kinds, Containers
    <3> QED
      BY <3>1
  <2>2. stream' \in [Nodes -> Seq(Events)]
    BY <1>6, <2>1, SendType DEF StartProxy
  <2>3. DockerTypeOK'
    <3>1. present' \in Seq(Proxies)
      BY <1>6, ConcatProperties DEF StartProxy, TypeOK, DockerTypeOK
    <3> QED
      BY <1>6, <3>1, ChangeTypeOK DEF StartProxy, TypeOK, DockerTypeOK
  <2> QED
    BY <1>6, <2>2, <2>3, ChangeTypeOK DEF StartProxy, TypeOK
<1>7. ASSUME NEW a \in Apps, StopApp(a) \/ KillApp(a) PROVE TypeOK'
  <2>1. /\ <<Event("stop", a)>> \in Seq(Events) /\ <<Event("kill", a)>> \in Seq(Events)
        /\ <<>> \in Seq(Events)
    <3>1. Event("stop", a) \in Events /\ Event("kill", a) \in Events
      BY EventType DEF Kinds, Containers
    <3> QED
      BY <3>1
  <2> QED
    BY <1>2, <1>7, <2>1 DEF StopApp, KillApp
<1> QED
  BY <1>1, <1>3, <1>4, <1>5, <1>6, <1>7 DEF Environment

\* A container that appears in its network keeps the types.
LEMMA SettleTypeOK ==
  ASSUME TypeOK, NEW a \in Apps, Settle(a)
  PROVE  TypeOK'
<1>1. DockerTypeOK'
  BY DEF Settle, TypeOK, DockerTypeOK
<1> QED
  BY <1>1 DEF Settle, TypeOK, LoopTypeOK, UpdateTypeOK, loop, update

\* HandleEvent and its polls keep the types.
LEMMA EventLoopTypeOK ==
  ASSUME TypeOK, NEW n \in Nodes, EventLoop(n)
  PROVE  TypeOK'
<1>1. CASE HandleEvent(n)
  <2>1. stream[n] \in Seq(Events) /\ stream[n] # <<>>
    BY <1>1 DEF TypeOK, HandleEvent
  <2>2. Head(stream[n]) \in Events /\ Tail(stream[n]) \in Seq(Events)
    BY <2>1, HeadTailProperties
  <2>3. Head(stream[n]).id \in Containers
    BY <2>2 DEF Events
  <2>4. stream' \in [Nodes -> Seq(Events)]
    BY <1>1, <2>2 DEF TypeOK, HandleEvent
  <2>5. target' \in [Nodes -> Containers]
    BY <1>1, <2>3 DEF HandleEvent, TypeOK, LoopTypeOK, Containers
  <2>6. LoopTypeOK'
    BY <1>1, <2>5, BoundAssumption DEF HandleEvent, LoopOnly, TypeOK, LoopTypeOK
  <2> QED
    BY <1>1, <2>4, <2>6 DEF HandleEvent, LoopOnly, TypeOK, DockerTypeOK,
                            UpdateTypeOK, docker, update
<1>2. CASE PollAgain(n)
  <2>1. LoopTypeOK'
    BY <1>2, BoundAssumption DEF PollAgain, LoopOnly, TypeOK, LoopTypeOK
  <2> QED
    BY <1>2, <2>1 DEF PollAgain, LoopOnly, TypeOK, DockerTypeOK, UpdateTypeOK,
                      docker, update
<1>3. CASE PollEnd(n)
  <2>1. missed' \in [Nodes -> BOOLEAN]
    BY <1>3 DEF PollEnd, TypeOK, LoopTypeOK
  <2>2. LoopTypeOK'
    BY <1>3, <2>1, BoundAssumption DEF PollEnd, LoopOnly, TypeOK, LoopTypeOK, Containers
  <2> QED
    BY <1>3, <2>2 DEF PollEnd, LoopOnly, TypeOK, DockerTypeOK, UpdateTypeOK,
                      docker, update
<1>4. CASE CacheSet(n)
  <2>1. LoopTypeOK'
    BY <1>4 DEF CacheSet, LoopOnly, TypeOK, LoopTypeOK
  <2> QED
    BY <1>4, <2>1 DEF CacheSet, LoopOnly, TypeOK, DockerTypeOK, UpdateTypeOK,
                      docker, update
<1>5. CASE InspectFails(n)
  <2>1. stream[n] \in Seq(Events) /\ stream[n] # <<>>
    BY <1>5 DEF TypeOK, InspectFails
  <2>2. Tail(stream[n]) \in Seq(Events)
    BY <2>1, HeadTailProperties
  <2>3. stream' \in [Nodes -> Seq(Events)]
    BY <1>5, <2>2 DEF TypeOK, InspectFails
  <2>4. LoopTypeOK'
    BY <1>5 DEF InspectFails, Fails, TypeOK, LoopTypeOK, loop
  <2>5. DockerTypeOK'
    BY <1>5 DEF InspectFails, Fails, TypeOK, DockerTypeOK
  <2> QED
    BY <1>5, <2>3, <2>4, <2>5 DEF InspectFails, TypeOK, UpdateTypeOK, update
<1>6. CASE PollFails(n)
  <2>1. LoopTypeOK'
    BY <1>6, BoundAssumption DEF PollFails, Fails, TypeOK, LoopTypeOK, Containers
  <2>2. DockerTypeOK'
    BY <1>6 DEF PollFails, Fails, TypeOK, DockerTypeOK
  <2> QED
    BY <1>6, <2>1, <2>2 DEF PollFails, TypeOK, UpdateTypeOK, update
<1> QED
  BY <1>1, <1>2, <1>3, <1>4, <1>5, <1>6 DEF EventLoop

\* The cache and its reaper keep the types.
LEMMA CacheTypeOK ==
  ASSUME TypeOK, NEW n \in Nodes, Age(n) \/ Reaper(n)
  PROVE  TypeOK'
<1>1. LoopTypeOK'
  BY DEF Age, Reaper, ReapExpired, ReapDelete, ReapSignal, ReaperOnly, TypeOK,
         LoopTypeOK, loop
<1>2. UpdateTypeOK'
  BY DEF Age, Reaper, ReapExpired, ReapDelete, ReapSignal, ReaperOnly, TypeOK,
         UpdateTypeOK, Stages
<1> QED
  BY <1>1, <1>2 DEF Age, Reaper, ReapExpired, ReapDelete, ReapSignal, ReaperOnly,
                    TypeOK, DockerTypeOK, docker

\* The part of UpdateTypeOK that is about upd and todo.
WorkTypeOK ==
  /\ upd \in [Nodes -> Stages]
  /\ todo \in [Nodes -> SUBSET (Apps \cup Proxies)]
  /\ \A n \in Nodes :
       todo[n] \subseteq (IF upd[n] = "generate" THEN Apps ELSE Proxies)

\* A new stage with work that fits it is well typed.
LEMMA EnterType ==
  ASSUME TypeOK, NEW n \in Nodes, NEW s, NEW t \in Stages, NEW w,
         w \subseteq (IF t = "generate" THEN Apps ELSE Proxies),
         Enter(n, s, t, w)
  PROVE  WorkTypeOK'
BY DEF Enter, TypeOK, UpdateTypeOK, WorkTypeOK

\* A stage with one item less is well typed.
LEMMA ItemType ==
  ASSUME TypeOK, NEW n \in Nodes, NEW s, NEW x, Item(n, s, x), upd' = upd
  PROVE  WorkTypeOK'
BY DEF Item, TypeOK, UpdateTypeOK, WorkTypeOK

\* The update handler leaves the event loop's and the cache's types alone.
LEMMA UpdaterLoopType ==
  ASSUME TypeOK, UpdaterOnly, missed' \in [Nodes -> BOOLEAN]
  PROVE  LoopTypeOK'
BY DEF UpdaterOnly, TypeOK, LoopTypeOK, loop

\* A failing Docker call keeps Docker's types.
LEMMA FailsType ==
  ASSUME TypeOK, NEW n \in Nodes, Fails(n),
         UNCHANGED <<ctr, net, present, joined, file, loaded, changes, crashes>>
  PROVE  DockerTypeOK' /\ missed' \in [Nodes -> BOOLEAN]
BY DEF Fails, TypeOK, DockerTypeOK, LoopTypeOK

\* The members of a list come from the set it is a list over.
LEMMA MembersType ==
  ASSUME NEW S, NEW list \in Seq(S)
  PROVE  Members(list) \subseteq S
BY DEF Members

\* A share of proxyContainersToRestart is made of listed proxies.
LEMMA ShareType ==
  ASSUME NEW self, NEW nodes, NEW S, NEW proxies \in Seq(S)
  PROVE  ProxyContainersToRestart(self, nodes, proxies) \subseteq S
BY DEF ProxyContainersToRestart

\* The handler's moves from stage to stage keep the types.
LEMMA ControlStepType ==
  ASSUME TypeOK, NEW n \in Nodes,
         \/ UpdCheck(n) \/ UpdList(n) \/ UpdProxies(n) \/ UpdSaved(n)
         \/ UpdNodes(n) \/ UpdDone(n) \/ UpdListFails(n)
         \/ \E m \in Nodes : UpdNodesFails(n, m)
  PROVE  TypeOK'
<1>1. CASE UpdCheck(n)
  <2>1. WorkTypeOK'
    BY <1>1, EnterType DEF UpdCheck, Stages
  <2>2. LoopTypeOK'
    BY <1>1, UpdaterLoopType DEF UpdCheck, Enter, TypeOK, LoopTypeOK
  <2> QED
    BY <1>1, <2>1, <2>2 DEF UpdCheck, WorkTypeOK, TypeOK, DockerTypeOK,
                            UpdateTypeOK, docker
<1>2. CASE UpdList(n)
  <2>1. WorkTypeOK'
    BY <1>2, EnterType DEF UpdList, Stages
  <2>2. missed' \in [Nodes -> BOOLEAN]
    <3>1. Joining \in BOOLEAN
      BY DEF Joining
    <3> QED
      BY <1>2, <3>1, Zenon DEF UpdList, TypeOK, LoopTypeOK
  <2>3. LoopTypeOK'
    BY <1>2, <2>2, UpdaterLoopType DEF UpdList, Enter
  <2>4. cfg' \in [Nodes -> SUBSET Apps]
    BY <1>2 DEF UpdList, TypeOK, UpdateTypeOK
  <2> QED
    BY <1>2, <2>1, <2>3, <2>4 DEF UpdList, WorkTypeOK, TypeOK, DockerTypeOK,
                                  UpdateTypeOK, docker
<1>3. CASE UpdProxies(n)
  <2>1. present \in Seq(Proxies) /\ Members(present) \subseteq Proxies
    BY MembersType DEF TypeOK, DockerTypeOK
  <2>2. WorkTypeOK'
    BY <1>3, <2>1, EnterType DEF UpdProxies, Stages
  <2>3. LoopTypeOK'
    BY <1>3, UpdaterLoopType DEF UpdProxies, Enter, TypeOK, LoopTypeOK
  <2> QED
    BY <1>3, <2>1, <2>2, <2>3 DEF UpdProxies, WorkTypeOK, TypeOK, DockerTypeOK,
                                  UpdateTypeOK, docker
<1>4. CASE UpdSaved(n)
  <2>1. Members(seen[n]) \subseteq Proxies
    BY MembersType DEF TypeOK, UpdateTypeOK
  <2>2. WorkTypeOK'
    BY <1>4, <2>1, EnterType DEF UpdSaved, Stages
  <2>3. LoopTypeOK'
    BY <1>4, UpdaterLoopType DEF UpdSaved, Enter, TypeOK, LoopTypeOK
  <2> QED
    BY <1>4, <2>2, <2>3 DEF UpdSaved, WorkTypeOK, TypeOK, DockerTypeOK,
                            UpdateTypeOK, docker
<1>5. CASE UpdNodes(n)
  <2>1. ProxyContainersToRestart(n, NodeSeq, seen[n]) \subseteq Proxies
    BY ShareType DEF TypeOK, UpdateTypeOK
  <2>2. WorkTypeOK'
    BY <1>5, <2>1, EnterType DEF UpdNodes, Stages
  <2>3. LoopTypeOK'
    BY <1>5, UpdaterLoopType DEF UpdNodes, Enter, TypeOK, LoopTypeOK
  <2> QED
    BY <1>5, <2>2, <2>3 DEF UpdNodes, WorkTypeOK, TypeOK, DockerTypeOK,
                            UpdateTypeOK, docker
<1>6. CASE UpdDone(n)
  <2>1. WorkTypeOK'
    BY <1>6, EnterType DEF UpdDone, Stages
  <2>2. LoopTypeOK'
    BY <1>6, UpdaterLoopType DEF UpdDone, Enter, TypeOK, LoopTypeOK
  <2> QED
    BY <1>6, <2>1, <2>2 DEF UpdDone, WorkTypeOK, TypeOK, DockerTypeOK,
                            UpdateTypeOK, docker
<1>7. CASE UpdListFails(n)
  <2>1. WorkTypeOK'
    BY <1>7, EnterType DEF UpdListFails, Stages
  <2>2. DockerTypeOK' /\ missed' \in [Nodes -> BOOLEAN]
    BY <1>7, FailsType DEF UpdListFails
  <2>3. LoopTypeOK'
    BY <1>7, <2>2, UpdaterLoopType DEF UpdListFails, Enter
  <2> QED
    BY <1>7, <2>1, <2>2, <2>3 DEF UpdListFails, WorkTypeOK, TypeOK, UpdateTypeOK
<1>8. ASSUME NEW m \in Nodes, UpdNodesFails(n, m) PROVE TypeOK'
  <2>1. ProxyContainersToRestart(n, NodesWithout(m), seen[n]) \subseteq Proxies
    BY ShareType DEF TypeOK, UpdateTypeOK
  <2>2. WorkTypeOK'
    BY <1>8, <2>1, EnterType DEF UpdNodesFails, Stages
  <2>3. DockerTypeOK' /\ missed' \in [Nodes -> BOOLEAN]
    BY <1>8, FailsType DEF UpdNodesFails
  <2>4. LoopTypeOK'
    BY <1>8, <2>3, UpdaterLoopType DEF UpdNodesFails, Enter
  <2> QED
    BY <1>8, <2>2, <2>3, <2>4 DEF UpdNodesFails, WorkTypeOK, TypeOK, UpdateTypeOK
<1> QED
  BY <1>1, <1>2, <1>3, <1>4, <1>5, <1>6, <1>7, <1>8

\* The inspects of GenerateProxyConfig keep the types.
LEMMA InspectStepType ==
  ASSUME TypeOK, NEW n \in Nodes, NEW a \in Apps,
         UpdInspect(n, a) \/ UpdInspectGone(n, a) \/ UpdInspectFails(n, a)
  PROVE  TypeOK'
<1>1. CASE UpdInspect(n, a)
  <2>1. WorkTypeOK'
    BY <1>1, ItemType DEF UpdInspect
  <2>2. LoopTypeOK'
    BY <1>1, UpdaterLoopType DEF UpdInspect, Item, TypeOK, LoopTypeOK
  <2>3. cfg' \in [Nodes -> SUBSET Apps]
    BY <1>1 DEF UpdInspect, TypeOK, UpdateTypeOK
  <2> QED
    BY <1>1, <2>1, <2>2, <2>3 DEF UpdInspect, WorkTypeOK, TypeOK, DockerTypeOK,
                                  UpdateTypeOK, docker
<1>2. CASE UpdInspectGone(n, a)
  <2>1. WorkTypeOK'
    BY <1>2, ItemType, EnterType DEF UpdInspectGone, Stages
  <2>2. LoopTypeOK'
    BY <1>2, UpdaterLoopType DEF UpdInspectGone, Item, Enter, TypeOK, LoopTypeOK
  <2> QED
    BY <1>2, <2>1, <2>2 DEF UpdInspectGone, WorkTypeOK, TypeOK, DockerTypeOK,
                            UpdateTypeOK, docker
<1>3. CASE UpdInspectFails(n, a)
  <2>1. WorkTypeOK'
    BY <1>3, ItemType, EnterType DEF UpdInspectFails, Stages
  <2>2. DockerTypeOK' /\ missed' \in [Nodes -> BOOLEAN]
    BY <1>3, FailsType DEF UpdInspectFails
  <2>3. LoopTypeOK'
    BY <1>3, <2>2, UpdaterLoopType DEF UpdInspectFails, Item, Enter
  <2> QED
    BY <1>3, <2>1, <2>2, <2>3 DEF UpdInspectFails, WorkTypeOK, TypeOK, UpdateTypeOK
<1> QED
  BY <1>1, <1>2, <1>3

\* SaveConfig, the connects and the reloads keep the types.
LEMMA ProxyStepType ==
  ASSUME TypeOK, NEW n \in Nodes, NEW p \in Proxies,
         \/ UpdSave(n, p) \/ UpdConnect(n, p) \/ UpdReload(n, p)
         \/ UpdProxyFails(n, p)
  PROVE  TypeOK'
<1>1. CASE UpdSave(n, p)
  <2>1. WorkTypeOK'
    BY <1>1, ItemType DEF UpdSave
  <2>2. LoopTypeOK'
    BY <1>1, UpdaterLoopType DEF UpdSave, Item, TypeOK, LoopTypeOK
  <2>3. DockerTypeOK'
    BY <1>1 DEF UpdSave, TypeOK, DockerTypeOK, UpdateTypeOK
  <2> QED
    BY <1>1, <2>1, <2>2, <2>3 DEF UpdSave, WorkTypeOK, TypeOK, UpdateTypeOK
<1>2. CASE UpdConnect(n, p)
  <2>1. WorkTypeOK'
    BY <1>2, ItemType DEF UpdConnect
  <2>2. LoopTypeOK'
    BY <1>2, UpdaterLoopType DEF UpdConnect, Item, TypeOK, LoopTypeOK
  <2>3. DockerTypeOK'
    BY <1>2 DEF UpdConnect, TypeOK, DockerTypeOK
  <2>4. stream' \in [Nodes -> Seq(Events)]
    <3>1. Event("connect", p) \in Events
      BY EventType DEF Kinds, Containers
    <3>2. <<Event("connect", p)>> \in Seq(Events)
      BY <3>1
    <3> QED
      BY <1>2, <3>2, SendType DEF UpdConnect, TypeOK
  <2> QED
    BY <1>2, <2>1, <2>2, <2>3, <2>4 DEF UpdConnect, WorkTypeOK, TypeOK, UpdateTypeOK
<1>3. CASE UpdReload(n, p)
  <2>1. WorkTypeOK'
    BY <1>3, ItemType DEF UpdReload
  <2>2. LoopTypeOK'
    BY <1>3, UpdaterLoopType DEF UpdReload, Item, TypeOK, LoopTypeOK
  <2>3. DockerTypeOK'
    BY <1>3 DEF UpdReload, TypeOK, DockerTypeOK
  <2>4. stream' \in [Nodes -> Seq(Events)]
    <3>1. /\ Event("kill", p) \in Events
          /\ Event("stop", p) \in Events /\ Event("start", p) \in Events
      BY EventType DEF Kinds, Containers
    <3>2. (IF Backend = "nginx" THEN <<Event("kill", p)>>
           ELSE <<Event("stop", p), Event("start", p)>>) \in Seq(Events)
      BY <3>1
    <3> QED
      BY <1>3, <3>2, SendType DEF UpdReload
  <2> QED
    BY <1>3, <2>1, <2>2, <2>3, <2>4 DEF UpdReload, WorkTypeOK, TypeOK, UpdateTypeOK
<1>4. CASE UpdProxyFails(n, p)
  <2>1. WorkTypeOK'
    BY <1>4, ItemType DEF UpdProxyFails
  <2>2. DockerTypeOK' /\ missed' \in [Nodes -> BOOLEAN]
    BY <1>4, FailsType DEF UpdProxyFails
  <2>3. LoopTypeOK'
    BY <1>4, <2>2, UpdaterLoopType DEF UpdProxyFails, Item
  <2> QED
    BY <1>4, <2>1, <2>2, <2>3 DEF UpdProxyFails, WorkTypeOK, TypeOK, UpdateTypeOK
<1> QED
  BY <1>1, <1>2, <1>3, <1>4

\* All steps of the lbUpdateChan handler keep the types.
LEMMA UpdaterTypeOK ==
  ASSUME TypeOK, NEW n \in Nodes, Updater(n)
  PROVE  TypeOK'
BY ControlStepType, InspectStepType, ProxyStepType DEF Updater

\* The end and the restart of a process keep the types.
LEMMA ProcessTypeOK ==
  ASSUME TypeOK, NEW n \in Nodes, Crash(n) \/ Restart(n)
  PROVE  TypeOK'
<1>1. <<Event("interlock-start", NoContainer)>> \in Seq(Events)
  <2>1. Event("interlock-start", NoContainer) \in Events
    BY EventType DEF Kinds, Containers
  <2> QED
    BY <2>1
<1>2. CASE Crash(n)
  <2>1. stream' \in [Nodes -> Seq(Events)]
    BY <1>2 DEF Crash, TypeOK
  <2>2. LoopTypeOK'
    BY <1>2, BoundAssumption DEF Crash, TypeOK, LoopTypeOK, Containers
  <2>3. UpdateTypeOK'
    BY <1>2 DEF Crash, TypeOK, UpdateTypeOK, Stages
  <2>4. DockerTypeOK'
    BY <1>2 DEF Crash, TypeOK, DockerTypeOK
  <2> QED
    BY <2>1, <2>2, <2>3, <2>4 DEF TypeOK
<1>3. CASE Restart(n)
  <2>1. stream' \in [Nodes -> Seq(Events)]
    BY <1>1, <1>3 DEF Restart, TypeOK
  <2>2. missed' \in [Nodes -> BOOLEAN]
    BY <1>3 DEF Restart, TypeOK, LoopTypeOK
  <2>3. LoopTypeOK'
    BY <1>3, <2>2 DEF Restart, TypeOK, LoopTypeOK, loop
  <2> QED
    BY <1>3, <2>1, <2>3 DEF Restart, TypeOK, DockerTypeOK, UpdateTypeOK, docker,
                            update
<1> QED
  BY <1>2, <1>3

\* TypeOK is inductive.
LEMMA NextTypeOK == TypeOK /\ [Next]_vars => TypeOK'
<1>1. TypeOK /\ Next => TypeOK'
  BY EnvironmentTypeOK, SettleTypeOK, EventLoopTypeOK, CacheTypeOK,
     UpdaterTypeOK, ProcessTypeOK DEF Next
<1>2. TypeOK /\ UNCHANGED vars => TypeOK'
  BY DEF vars, docker, loop, update, TypeOK, DockerTypeOK, LoopTypeOK,
         UpdateTypeOK
<1> QED
  BY <1>1, <1>2

\* Every reachable state of the load balancer is well typed, for any number of
\* instances, containers and proxies and any operations, faults and crashes.
THEOREM LoadBalancerTypeOK == Spec => []TypeOK
BY InitTypeOK, NextTypeOK, PTL DEF Spec

-----------------------------------------------------------------------------
(* No lost update                                                          *)

\* A container that a network lists, or is about to list, runs; one that runs
\* is in the default network unless it is labelled with another.
NetRunning ==
  \A a \in Apps : /\ net[a] # "no" => ctr[a] = "running"
                  /\ ctr[a] = "running" /\ a \notin Overlay => net[a] # "no"

\* What is still to be inspected has not been generated.
Uninspected == \A n \in Nodes : upd[n] = "generate" => todo[n] \cap cfg[n] = {}

Pending(n, a) ==
  \/ Requested(n)
  \/ upd[n] \in {"check", "list"}
  \/ upd[n] = "generate" /\ a \in todo[n]

Awaited(n, a) ==
  \/ hnd[n] = "poll" /\ target[n] = a
  \/ Event("connect", a) \in Members(stream[n])

\* For one instance: the two invariants, and what they need, that the poll for
\* a container that is joining its network is still to come.
NodeInv(n) ==
  alive[n] /\ ~missed[n] =>
    /\ \A a \in Exposed : Stale(n, a) => Pending(n, a)
    /\ \A a \in Exposed : net[a] = "joining" => Awaited(n, a)
    /\ upd[n] = "generate" /\ (\E a \in todo[n] : ctr[a] = "removed") => Requested(n)

IInv ==
  /\ TypeOK
  /\ NetRunning
  /\ Uninspected
  /\ \A n \in Nodes : NodeInv(n)

\* The inductive invariant gives the two properties that the runs check.
LEMMA IInvImplies == IInv => NoLostUpdate /\ AbortIsCovered
BY DEF IInv, NodeInv, Pending, NoLostUpdate, AbortIsCovered

\* The members of a concatenation.
LEMMA MembersConcat ==
  ASSUME NEW S, NEW s \in Seq(S), NEW t \in Seq(S)
  PROVE  Members(s \o t) = Members(s) \cup Members(t)
<1>1. /\ s \o t \in Seq(S) /\ Len(s \o t) = Len(s) + Len(t)
      /\ \A i \in 1 .. Len(s) + Len(t) :
           (s \o t)[i] = IF i <= Len(s) THEN s[i] ELSE t[i - Len(s)]
  BY ConcatProperties
<1>2. Len(s) \in Nat /\ Len(t) \in Nat
  BY LenProperties
<1>3. ASSUME NEW x \in Members(s \o t) PROVE x \in Members(s) \cup Members(t)
  <2>1. PICK i \in 1 .. Len(s) + Len(t) : x = (s \o t)[i]
    BY <1>1, <1>3 DEF Members
  <2>2. CASE i <= Len(s)
    BY <1>1, <1>2, <2>1, <2>2 DEF Members
  <2>3. CASE i > Len(s)
    <3>1. i - Len(s) \in 1 .. Len(t) /\ x = t[i - Len(s)]
      BY <1>1, <1>2, <2>1, <2>3
    <3> QED
      BY <3>1 DEF Members
  <2> QED
    BY <1>2, <2>2, <2>3
<1>4. ASSUME NEW x \in Members(s) PROVE x \in Members(s \o t)
  <2>1. PICK i \in 1 .. Len(s) : x = s[i]
    BY <1>4 DEF Members
  <2>2. i \in 1 .. Len(s) + Len(t) /\ (s \o t)[i] = x
    BY <1>1, <1>2, <2>1
  <2> QED
    BY <1>1, <2>2 DEF Members
<1>5. ASSUME NEW x \in Members(t) PROVE x \in Members(s \o t)
  <2>1. PICK i \in 1 .. Len(t) : x = t[i]
    BY <1>5 DEF Members
  <2>2. Len(s) + i \in 1 .. Len(s) + Len(t) /\ (s \o t)[Len(s) + i] = x
    BY <1>1, <1>2, <2>1
  <2> QED
    BY <1>1, <2>2 DEF Members
<1> QED
  BY <1>3, <1>4, <1>5

\* A list is made of its head and the members of its tail.
LEMMA MembersTail ==
  ASSUME NEW S, NEW s \in Seq(S), s # <<>>
  PROVE  Members(s) = {Head(s)} \cup Members(Tail(s))
<1>1. /\ Head(s) \in S /\ Tail(s) \in Seq(S) /\ Len(s) \in Nat /\ Len(s) > 0
      /\ Len(Tail(s)) = Len(s) - 1
      /\ \A i \in 1 .. Len(Tail(s)) : Tail(s)[i] = s[i + 1]
      /\ Head(s) = s[1]
  BY HeadTailProperties, LenProperties, EmptySeq
<1>2. ASSUME NEW x \in Members(s) PROVE x \in {Head(s)} \cup Members(Tail(s))
  <2>1. PICK i \in 1 .. Len(s) : x = s[i]
    BY <1>2 DEF Members
  <2>2. CASE i = 1
    BY <1>1, <2>1, <2>2
  <2>3. CASE i # 1
    <3>1. i - 1 \in 1 .. Len(Tail(s)) /\ Tail(s)[i - 1] = x
      BY <1>1, <2>1, <2>3
    <3> QED
      BY <3>1 DEF Members
  <2> QED
    BY <2>2, <2>3
<1>3. ASSUME NEW x \in {Head(s)} \cup Members(Tail(s)) PROVE x \in Members(s)
  <2>1. CASE x = Head(s)
    BY <1>1, <2>1 DEF Members
  <2>2. CASE x \in Members(Tail(s))
    <3>1. PICK i \in 1 .. Len(Tail(s)) : x = Tail(s)[i]
      BY <2>2 DEF Members
    <3>2. i + 1 \in 1 .. Len(s) /\ s[i + 1] = x
      BY <1>1, <3>1
    <3> QED
      BY <3>2 DEF Members
  <2> QED
    BY <1>3, <2>1, <2>2
<1> QED
  BY <1>2, <1>3

\* An instance that runs receives what is sent, after what it had.
LEMMA SendMembers ==
  ASSUME TypeOK, NEW evs \in Seq(Events), Send(evs), NEW n \in Nodes, alive[n]
  PROVE  Members(stream[n])' = Members(stream[n]) \cup Members(evs)
<1>1. stream'[n] = stream[n] \o evs /\ stream[n] \in Seq(Events)
  BY DEF Send, TypeOK
<1>2. Members(stream'[n]) = Members(stream[n]) \cup Members(evs)
  BY <1>1, MembersConcat
<1> QED
  BY <1>2 DEF Members

\* A step that leaves an instance's update alone.
LEMMA PassiveStep ==
  ASSUME NEW n \in Nodes, NodeInv(n), TypeOK,
         alive[n]' /\ ~missed[n]' => alive[n] /\ ~missed[n],
         upd[n]' = upd[n], todo[n]' = todo[n], cfg[n]' = cfg[n],
         alive[n] /\ ~missed[n] =>
           /\ Requested(n) => Requested(n)'
           /\ \A b \in Exposed : (Serving(b) <=> Serving(b)') \/ Requested(n)'
           /\ \A b \in Exposed : net[b]' = "joining" =>
                (Awaited(n, b)' \/ (net[b] = "joining" /\ (Awaited(n, b) => Awaited(n, b)')))
           /\ \A b \in Apps : ctr[b]' = "removed" => ctr[b] = "removed" \/ Requested(n)'
  PROVE  NodeInv(n)'
<1> SUFFICES ASSUME alive[n]', ~missed[n]'
             PROVE  /\ \A a \in Exposed : Stale(n, a)' => Pending(n, a)'
                    /\ \A a \in Exposed : net[a]' = "joining" => Awaited(n, a)'
                    /\ (upd[n] = "generate" /\ (\E a \in todo[n] : ctr[a] = "removed"))'
                          => Requested(n)'
  BY DEF NodeInv
<1>1. \A a \in Exposed : Stale(n, a)' => Pending(n, a)'
  BY DEF NodeInv, Stale, Pending
<1>2. \A a \in Exposed : net[a]' = "joining" => Awaited(n, a)'
  BY DEF NodeInv
<1>3. (upd[n] = "generate" /\ (\E a \in todo[n] : ctr[a] = "removed"))' => Requested(n)'
  BY DEF NodeInv, TypeOK, UpdateTypeOK
<1> QED
  BY <1>1, <1>2, <1>3

\* A request stays when events are only added and no exposed container goes.
LEMMA RequestedStays ==
  ASSUME NEW n \in Nodes, TypeOK,
         \A c : IsExposedContainer(c) => IsExposedContainer(c)',
         Members(stream[n]) \subseteq Members(stream[n])',
         hnd[n]' = hnd[n], target[n]' = target[n], key[n]' = key[n],
         reaper[n]' = reaper[n]
  PROVE  Requested(n) => Requested(n)'
<1>1. \A e : Triggers(e) => Triggers(e)'
  BY DEF Triggers
<1> QED
  BY <1>1 DEF Requested

\* A step that does nothing to an instance but send it events.
LEMMA UntouchedNode ==
  ASSUME NEW n \in Nodes, NodeInv(n), TypeOK, UNCHANGED <<ctr, net>>,
         alive[n]' = alive[n], missed[n]' = missed[n],
         alive[n] => Members(stream[n]) \subseteq Members(stream[n])',
         hnd[n]' = hnd[n], target[n]' = target[n], key[n]' = key[n],
         reaper[n]' = reaper[n], upd[n]' = upd[n], todo[n]' = todo[n],
         cfg[n]' = cfg[n]
  PROVE  NodeInv(n)'
<1>1. \A c : IsExposedContainer(c) => IsExposedContainer(c)'
  BY DEF IsExposedContainer
<1>2. alive[n] => (Requested(n) => Requested(n)')
  BY <1>1, RequestedStays
<1>3. \A b \in Exposed : Serving(b) <=> Serving(b)'
  BY DEF Serving
<1>4. alive[n] => \A b \in Exposed : Awaited(n, b) => Awaited(n, b)'
  BY DEF Awaited, Event
<1> QED
  BY <1>2, <1>3, <1>4, PassiveStep

-----------------------------------------------------------------------------
(* Docker's steps                                                          *)

\* What all operations of users have in common.
LEMMA ChangeNodeInv ==
  ASSUME TypeOK, NEW op, Change(op), NEW evs \in Seq(Events), Send(evs),
         NEW n \in Nodes, NodeInv(n),
         \/ \E e \in Members(evs) : Triggers(e)'
         \/ /\ \A c : IsExposedContainer(c) => IsExposedContainer(c)'
            /\ \A b \in Exposed : Serving(b) <=> Serving(b)'
            /\ \A b \in Apps : ctr[b]' = "removed" => ctr[b] = "removed",
         \A b \in Exposed : net[b]' = "joining" =>
           net[b] = "joining" \/ Event("connect", b) \in Members(evs)
  PROVE  NodeInv(n)'
<1>1. /\ alive[n]' = alive[n] /\ missed[n]' = missed[n]
      /\ hnd[n]' = hnd[n] /\ target[n]' = target[n] /\ key[n]' = key[n]
      /\ reaper[n]' = reaper[n] /\ upd[n]' = upd[n] /\ todo[n]' = todo[n]
      /\ cfg[n]' = cfg[n]
  BY DEF Change, loop, update
<1>2. CASE ~alive[n]
  BY <1>1, <1>2 DEF NodeInv
<1>3. CASE alive[n]
  <2>1. Members(stream[n])' = Members(stream[n]) \cup Members(evs)
    BY <1>3, SendMembers
  <2>2. (\E e \in Members(evs) : Triggers(e)') => Requested(n)'
    BY <2>1 DEF Requested
  <2>3. (\A c : IsExposedContainer(c) => IsExposedContainer(c)')
           => (Requested(n) => Requested(n)')
    BY <1>1, <2>1, RequestedStays
  <2>4. \A b \in Exposed : Awaited(n, b) => Awaited(n, b)'
    BY <1>1, <2>1 DEF Awaited, Event
  <2>5. \A b \in Exposed : Event("connect", b) \in Members(evs) => Awaited(n, b)'
    BY <2>1 DEF Awaited, Event
  <2> QED
    BY <1>1, <2>2, <2>3, <2>4, <2>5, PassiveStep
<1> QED
  BY <1>2, <1>3

\* The members of short tuples.
LEMMA TupleMembers ==
  ASSUME NEW x, NEW y
  PROVE  x \in Members(<<x>>) /\ x \in Members(<<x, y>>) /\ y \in Members(<<x, y>>)
<1>1. 1 \in 1 .. Len(<<x>>) /\ <<x>>[1] = x
  OBVIOUS
<1>2. 1 \in 1 .. Len(<<x, y>>) /\ <<x, y>>[1] = x
  OBVIOUS
<1>3. 2 \in 1 .. Len(<<x, y>>) /\ <<x, y>>[2] = y
  OBVIOUS
<1> QED
  BY <1>1, <1>2, <1>3 DEF Members

\* docker start: the start event of an exposed container asks for a reload.
LEMMA StartAppIInv ==
  ASSUME IInv, NEW a \in Apps, StartApp(a), NEW n \in Nodes
  PROVE  NodeInv(n)'
<1>0. TypeOK /\ NodeInv(n) /\ Change("start") /\ NetRunning
  BY DEF IInv, StartApp
<1> DEFINE evs == <<Event("connect", a), Event("start", a)>>
<1>1. evs \in Seq(Events)
  <2>1. Event("connect", a) \in Events /\ Event("start", a) \in Events
    BY EventType DEF Kinds, Containers
  <2> QED
    BY <2>1
<1>2. Send(evs)
  BY DEF StartApp
<1>3. Event("start", a) \in Members(evs) /\ Event("connect", a) \in Members(evs)
  BY TupleMembers
<1>4. a \in Exposed => \E e \in Members(evs) : Triggers(e)'
  <2>1. a \in Exposed => Triggers(Event("start", a))'
    BY <1>0 DEF StartApp, Triggers, IsExposedContainer, Event, TypeOK, DockerTypeOK
  <2> QED
    BY <1>3, <2>1
<1>5. a \notin Exposed =>
        /\ \A c : IsExposedContainer(c) => IsExposedContainer(c)'
        /\ \A b \in Exposed : Serving(b) <=> Serving(b)'
        /\ \A b \in Apps : ctr[b]' = "removed" => ctr[b] = "removed"
  BY <1>0, ContainerAssumption DEF StartApp, IsExposedContainer, Serving, TypeOK, DockerTypeOK
<1>6. \A b \in Exposed : net[b]' = "joining" =>
           net[b] = "joining" \/ Event("connect", b) \in Members(evs)
  BY <1>0, <1>3, ContainerAssumption DEF StartApp, TypeOK, DockerTypeOK
<1> HIDE DEF evs
<1> QED
  BY <1>0, <1>1, <1>2, <1>4, <1>5, <1>6, ChangeNodeInv

\* A container ends: its disconnect event asks for a reload.
LEMMA EndAppIInv ==
  ASSUME IInv, NEW a \in Apps, NEW op, NEW first \in Seq(Events),
         NEW last \in Seq(Events), EndApp(a, op, first, last), NEW n \in Nodes
  PROVE  NodeInv(n)'
<1>2. TypeOK /\ NodeInv(n) /\ Change(op) /\ ctr[a] = "running" /\ NetRunning
  BY DEF IInv, EndApp
<1> DEFINE gone == IF net[a] # "no" THEN <<Event("disconnect", a)>> ELSE <<>>
           evs  == first \o gone \o last
<1>3. gone \in Seq(Events)
  <2>1. Event("disconnect", a) \in Events
    BY EventType DEF Kinds, Containers
  <2> QED
    BY <2>1
<1>4. first \o gone \in Seq(Events)
  BY <1>3, ConcatProperties
<1>5. evs \in Seq(Events)
  BY <1>4, ConcatProperties
<1>6. Send(evs)
  BY DEF EndApp
<1>7. Members(gone) \subseteq Members(evs)
  <2> HIDE DEF gone
  <2>1. ASSUME NEW s \in Seq(Events), NEW t \in Seq(Events)
        PROVE  Members(s \o t) = Members(s) \cup Members(t)
    BY MembersConcat
  <2>2. Members(first \o gone) = Members(first) \cup Members(gone)
    BY <1>3, <2>1
  <2>3. Members(evs) = Members(first \o gone) \cup Members(last)
    BY <1>4, <2>1
  <2> QED
    BY <2>2, <2>3
<1>8. a \in Exposed => Triggers(Event("disconnect", a))'
  BY <1>2 DEF EndApp, Triggers, IsExposedContainer, Event, TypeOK, DockerTypeOK
<1>9. net[a] # "no" => Event("disconnect", a) \in Members(evs)
  <2>1. net[a] # "no" => Event("disconnect", a) \in Members(gone)
    BY TupleMembers
  <2> QED
    BY <1>7, <2>1
<1>11. a \notin Exposed \/ net[a] = "no" =>
        /\ \A c : IsExposedContainer(c) => IsExposedContainer(c)'
        /\ \A b \in Exposed : Serving(b) <=> Serving(b)'
        /\ \A b \in Apps : ctr[b]' = "removed" => ctr[b] = "removed"
  BY <1>2, ContainerAssumption
     DEF EndApp, IsExposedContainer, Serving, NetRunning, TypeOK, DockerTypeOK
<1>12. \A b \in Exposed : net[b]' = "joining" => net[b] = "joining"
  BY <1>2, ContainerAssumption DEF EndApp, TypeOK, DockerTypeOK
<1>13. (\E e \in Members(evs) : Triggers(e)') \/ a \notin Exposed \/ net[a] = "no"
  BY <1>8, <1>9
<1> HIDE DEF evs
<1> QED
  BY <1>2, <1>5, <1>6, <1>11, <1>12, <1>13, ChangeNodeInv

\* docker stop and docker kill as cases of EndApp.
LEMMA StopKillIInv ==
  ASSUME IInv, NEW a \in Apps, StopApp(a) \/ KillApp(a), NEW n \in Nodes
  PROVE  NodeInv(n)'
<1>1. /\ <<Event("stop", a)>> \in Seq(Events) /\ <<Event("kill", a)>> \in Seq(Events)
      /\ <<>> \in Seq(Events)
  <2>1. Event("stop", a) \in Events /\ Event("kill", a) \in Events
    BY EventType DEF Kinds, Containers
  <2> QED
    BY <2>1
<1> QED
  BY <1>1, EndAppIInv DEF StopApp, KillApp

\* docker rm: destroy always asks for a reload.
LEMMA RemoveAppIInv ==
  ASSUME IInv, NEW a \in Apps, RemoveApp(a), NEW n \in Nodes
  PROVE  NodeInv(n)'
<1>1. TypeOK /\ NodeInv(n) /\ Change("remove")
  BY DEF IInv, RemoveApp
<1>2. <<Event("destroy", a)>> \in Seq(Events) /\ Send(<<Event("destroy", a)>>)
  <2>1. Event("destroy", a) \in Events
    BY EventType DEF Kinds, Containers
  <2> QED
    BY <2>1 DEF RemoveApp
<1>3. \E e \in Members(<<Event("destroy", a)>>) : Triggers(e)'
  <2>1. Triggers(Event("destroy", a))'
    BY DEF Triggers, Event
  <2> QED
    BY <2>1, TupleMembers
<1>4. \A b \in Exposed : net[b]' = "joining" => net[b] = "joining"
  BY DEF RemoveApp
<1> QED
  BY <1>1, <1>2, <1>3, <1>4, ChangeNodeInv

\* docker network connect: the join is awaited from the event on.
LEMMA ConnectAppIInv ==
  ASSUME IInv, NEW a \in Apps, ConnectApp(a), NEW n \in Nodes
  PROVE  NodeInv(n)'
<1>1. TypeOK /\ NodeInv(n) /\ Change("connect")
  BY DEF IInv, ConnectApp
<1>2. <<Event("connect", a)>> \in Seq(Events) /\ Send(<<Event("connect", a)>>)
  <2>1. Event("connect", a) \in Events
    BY EventType DEF Kinds, Containers
  <2> QED
    BY <2>1 DEF ConnectApp
<1>3. Event("connect", a) \in Members(<<Event("connect", a)>>)
  BY TupleMembers
<1>4. /\ \A c : IsExposedContainer(c) => IsExposedContainer(c)'
      /\ \A b \in Exposed : Serving(b) <=> Serving(b)'
      /\ \A b \in Apps : ctr[b]' = "removed" => ctr[b] = "removed"
  BY <1>1, ContainerAssumption
     DEF ConnectApp, IsExposedContainer, Serving, TypeOK, DockerTypeOK
<1>5. \A b \in Exposed : net[b]' = "joining" =>
        net[b] = "joining" \/ Event("connect", b) \in Members(<<Event("connect", a)>>)
  BY <1>1, <1>3, ContainerAssumption DEF ConnectApp, TypeOK, DockerTypeOK
<1> QED
  BY <1>1, <1>2, <1>4, <1>5, ChangeNodeInv

\* docker network disconnect of a container that runs asks for a reload.
LEMMA DisconnectAppIInv ==
  ASSUME IInv, NEW a \in Apps, DisconnectApp(a), NEW n \in Nodes
  PROVE  NodeInv(n)'
<1>1. TypeOK /\ NodeInv(n) /\ Change("disconnect") /\ ctr[a] = "running"
  BY DEF IInv, DisconnectApp, NetRunning
<1>2. <<Event("disconnect", a)>> \in Seq(Events) /\ Send(<<Event("disconnect", a)>>)
  <2>1. Event("disconnect", a) \in Events
    BY EventType DEF Kinds, Containers
  <2> QED
    BY <2>1 DEF DisconnectApp
<1>3. a \in Exposed => \E e \in Members(<<Event("disconnect", a)>>) : Triggers(e)'
  <2>1. a \in Exposed => Triggers(Event("disconnect", a))'
    BY <1>1 DEF DisconnectApp, Triggers, IsExposedContainer, Event
  <2> QED
    BY <2>1, TupleMembers
<1>4. a \notin Exposed =>
        /\ \A c : IsExposedContainer(c) => IsExposedContainer(c)'
        /\ \A b \in Exposed : Serving(b) <=> Serving(b)'
        /\ \A b \in Apps : ctr[b]' = "removed" => ctr[b] = "removed"
  BY <1>1, ContainerAssumption
     DEF DisconnectApp, IsExposedContainer, Serving, TypeOK, DockerTypeOK
<1>5. \A b \in Exposed : net[b]' = "joining" => net[b] = "joining"
  BY <1>1, ContainerAssumption DEF DisconnectApp, TypeOK, DockerTypeOK
<1> QED
  BY <1>1, <1>2, <1>3, <1>4, <1>5, ChangeNodeInv

\* A new proxy changes nothing that an update reads of applications.
LEMMA StartProxyIInv ==
  ASSUME IInv, NEW p \in Proxies, StartProxy(p), NEW n \in Nodes
  PROVE  NodeInv(n)'
<1>1. TypeOK /\ NodeInv(n) /\ Change("proxy")
  BY DEF IInv, StartProxy
<1>2. <<Event("start", p)>> \in Seq(Events) /\ Send(<<Event("start", p)>>)
  <2>1. Event("start", p) \in Events
    BY EventType DEF Kinds, Containers
  <2> QED
    BY <2>1 DEF StartProxy
<1>3. /\ \A c : IsExposedContainer(c) => IsExposedContainer(c)'
      /\ \A b \in Exposed : Serving(b) <=> Serving(b)'
      /\ \A b \in Apps : ctr[b]' = "removed" => ctr[b] = "removed"
      /\ \A b \in Exposed : net[b]' = "joining" => net[b] = "joining"
  BY DEF StartProxy, IsExposedContainer, Serving
<1> QED
  BY <1>1, <1>2, <1>3, ChangeNodeInv

\* A join completes: the poll that awaits it is a request.
LEMMA SettleIInv ==
  ASSUME IInv, NEW a \in Apps, Settle(a), NEW n \in Nodes
  PROVE  NodeInv(n)'
<1>1. TypeOK /\ NodeInv(n) /\ ctr[a] = "running"
  BY DEF IInv, Settle, NetRunning
<1>2. /\ alive[n]' = alive[n] /\ missed[n]' = missed[n] /\ stream[n]' = stream[n]
      /\ hnd[n]' = hnd[n] /\ target[n]' = target[n] /\ key[n]' = key[n]
      /\ reaper[n]' = reaper[n] /\ upd[n]' = upd[n] /\ todo[n]' = todo[n]
      /\ cfg[n]' = cfg[n] /\ ctr' = ctr
  BY DEF Settle, loop, update
<1>3. Members(stream[n])' = Members(stream[n])
  BY <1>2 DEF Members
<1>4. \A c : IsExposedContainer(c) <=> IsExposedContainer(c)'
  BY <1>2 DEF IsExposedContainer
<1>5. Requested(n) => Requested(n)'
  BY <1>1, <1>2, <1>3, <1>4, RequestedStays
<1>6. \A b \in Exposed : Awaited(n, b) => Awaited(n, b)'
  BY <1>2, <1>3 DEF Awaited, Event
<1>7. \A b \in Exposed : net[b]' = "joining" => net[b] = "joining"
  BY <1>1, ContainerAssumption DEF Settle, TypeOK, DockerTypeOK
<1>8. \A b \in Exposed : b # a => (Serving(b) <=> Serving(b)')
  BY <1>1, <1>2, ContainerAssumption DEF Settle, Serving, TypeOK, DockerTypeOK
<1>9. a \in Exposed /\ alive[n] /\ ~missed[n] => Requested(n)
  <2> SUFFICES ASSUME a \in Exposed, alive[n], ~missed[n] PROVE Requested(n)
    OBVIOUS
  <2>1. Awaited(n, a)
    BY <1>1 DEF NodeInv, Settle
  <2>2. Triggers(Event("connect", a)) /\ IsExposedContainer(a)
    BY <1>1 DEF Triggers, IsExposedContainer, Event
  <2> QED
    BY <2>1, <2>2 DEF Awaited, Requested
<1> QED
  BY <1>1, <1>2, <1>5, <1>6, <1>7, <1>8, <1>9, PassiveStep

-----------------------------------------------------------------------------
(* The event loop and the cache                                            *)

\* A step of one instance leaves the others as they are, but for events.
Untouched(m) ==
  /\ UNCHANGED <<ctr, net>>
  /\ alive[m]' = alive[m] /\ missed[m]' = missed[m]
  /\ hnd[m]' = hnd[m] /\ target[m]' = target[m] /\ key[m]' = key[m]
  /\ reaper[m]' = reaper[m] /\ upd[m]' = upd[m] /\ todo[m]' = todo[m]
  /\ cfg[m]' = cfg[m]

\* A step that only sends events to instance m keeps its invariant.
LEMMA UntouchedInv ==
  ASSUME IInv, NEW m \in Nodes, Untouched(m),
         stream[m]' = stream[m] \/ \E evs \in Seq(Events) : Send(evs)
  PROVE  NodeInv(m)'
<1>1. TypeOK /\ NodeInv(m)
  BY DEF IInv
<1>2. alive[m] => Members(stream[m]) \subseteq Members(stream[m])'
  <2>1. CASE stream[m]' = stream[m]
    BY <2>1 DEF Members
  <2>2. CASE \E evs \in Seq(Events) : Send(evs)
    BY <1>1, <2>2, SendMembers
  <2> QED
    BY <2>1, <2>2
<1> QED
  BY <1>1, <1>2, UntouchedNode DEF Untouched

\* HandleEvent takes an event off the stream only by turning it into a request.
LEMMA EventLoopIInv ==
  ASSUME IInv, NEW n \in Nodes, EventLoop(n), NEW m \in Nodes
  PROVE  NodeInv(m)'
<1>1. TypeOK /\ NodeInv(m) /\ DockerTypeOK /\ LoopTypeOK /\ UpdateTypeOK
      /\ stream \in [Nodes -> Seq(Events)]
  BY DEF IInv, TypeOK
<1>2. CASE m # n
  <2>1. Untouched(m) /\ stream[m]' = stream[m]
    BY <1>1, <1>2 DEF EventLoop, HandleEvent, PollAgain, PollEnd, CacheSet, InspectFails,
       PollFails, LoopOnly, Fails, Untouched, LoopTypeOK, docker, loop, update
  <2> QED
    BY <2>1, UntouchedInv
<1>3. CASE m = n /\ HandleEvent(n)
  <2> DEFINE e == Head(stream[n])
  <2>1. stream[n] \in Seq(Events) /\ stream[n] # <<>> /\ e \in Events
    BY <1>1, <1>3, HeadTailProperties DEF HandleEvent
  <2>2. stream[n]' = Tail(stream[n])
    BY <1>1, <1>3 DEF HandleEvent
  <2>3. Members(stream[n]) = {e} \cup Members(stream[n])'
    <3>1. Members(stream[n]) = {e} \cup Members(Tail(stream[n]))
      BY <2>1, MembersTail
    <3> QED
      BY <2>2, <3>1 DEF Members
  <2>4. /\ hnd[n] = "idle"
        /\ e.kind \in {"connect", "disconnect"} => hnd[n]' = "poll" /\ target[n]' = e.id
        /\ e.kind \notin {"connect", "disconnect"} /\ Requests(e) => hnd[n]' = "set"
    BY <1>1, <1>3 DEF HandleEvent, NetworkEvent, LoopTypeOK
  <2>5. /\ UNCHANGED <<ctr, net>> /\ alive[n]' = alive[n] /\ missed[n]' = missed[n]
        /\ key[n]' = key[n] /\ reaper[n]' = reaper[n] /\ upd[n]' = upd[n]
        /\ todo[n]' = todo[n] /\ cfg[n]' = cfg[n]
    BY <1>3 DEF HandleEvent, LoopOnly, docker, update
  <2>6. \A x : Triggers(x) <=> Triggers(x)'
    BY <2>5 DEF Triggers, IsExposedContainer
  <2>7. Triggers(e) => Requested(n)'
    <3>1. CASE e.kind \in {"connect", "disconnect"}
      BY <2>4, <2>5, <3>1 DEF Triggers, IsExposedContainer, Requested
    <3>2. CASE e.kind \notin {"connect", "disconnect"}
      <4>1. Triggers(e) => Requests(e)
        BY <3>2 DEF Triggers, Requests
      <4> QED
        BY <2>4, <3>2, <4>1 DEF Requested
    <3> QED
      BY <3>1, <3>2
  <2>8. Requested(n) => Requested(n)'
    BY <2>3, <2>4, <2>5, <2>6, <2>7 DEF Requested
  <2>9. \A b \in Exposed : Awaited(n, b) => Awaited(n, b)'
    <3> SUFFICES ASSUME NEW b \in Exposed, Awaited(n, b) PROVE Awaited(n, b)'
      OBVIOUS
    <3>1. Event("connect", b) \in Members(stream[n])
      BY <2>4 DEF Awaited
    <3>2. Event("connect", b).kind = "connect" /\ Event("connect", b).id = b
      BY DEF Event
    <3>3. CASE Event("connect", b) = e
      BY <2>4, <3>2, <3>3 DEF Awaited
    <3>4. CASE Event("connect", b) \in Members(stream[n])'
      BY <3>4 DEF Awaited, Event
    <3> QED
      BY <2>3, <3>1, <3>3, <3>4
  <2>10. \A b \in Exposed : Serving(b) <=> Serving(b)'
    BY <2>5 DEF Serving
  <2> HIDE DEF e
  <2> QED
    BY <1>1, <1>3, <2>5, <2>8, <2>9, <2>10, PassiveStep
<1>4. CASE m = n /\ PollAgain(n)
  <2>1. Untouched(m) /\ stream[m]' = stream[m]
    BY <1>4 DEF PollAgain, LoopOnly, Untouched, docker, update
  <2> QED
    BY <2>1, UntouchedInv
<1>5. CASE m = n /\ PollEnd(n) /\ Joins(target[n])
  <2>1. missed[n]'
    BY <1>1, <1>5 DEF PollEnd, LoopTypeOK
  <2> QED
    BY <1>5, <2>1 DEF NodeInv
<1>8. CASE m = n /\ PollEnd(n) /\ ~Joins(target[n])
  <2>1. /\ UNCHANGED <<ctr, net>> /\ alive[n]' = alive[n]
        /\ key[n]' = key[n] /\ reaper[n]' = reaper[n] /\ upd[n]' = upd[n]
        /\ todo[n]' = todo[n] /\ cfg[n]' = cfg[n] /\ stream' = stream
    BY <1>8 DEF PollEnd, LoopOnly, docker, update
  <2>9. missed[n]' = missed[n]
    BY <1>1, <1>8 DEF PollEnd, LoopTypeOK
  <2>2. /\ hnd[n] = "poll"
        /\ IsExposedContainer(target[n]) => hnd[n]' = "set"
    BY <1>1, <1>8 DEF PollEnd, LoopTypeOK
  <2>3. \A x : Triggers(x) <=> Triggers(x)'
    BY <2>1 DEF Triggers, IsExposedContainer
  <2>4. Members(stream[n])' = Members(stream[n])
    BY <2>1 DEF Members
  <2>5. Requested(n) => Requested(n)'
    BY <2>1, <2>2, <2>3, <2>4 DEF Requested
  <2>6. \A b \in Exposed : net[b] = "joining" => target[n] # b
    BY <1>8, ContainerAssumption DEF Joins
  <2>7. \A b \in Exposed : net[b] = "joining" => (Awaited(n, b) => Awaited(n, b)')
    BY <2>4, <2>6 DEF Awaited, Event
  <2>8. \A b \in Exposed : Serving(b) <=> Serving(b)'
    BY <2>1 DEF Serving
  <2> QED
    BY <1>1, <1>8, <2>1, <2>5, <2>7, <2>8, <2>9, PassiveStep
<1>6. CASE m = n /\ CacheSet(n)
  <2>1. /\ UNCHANGED <<ctr, net>> /\ alive[n]' = alive[n] /\ missed[n]' = missed[n]
        /\ upd[n]' = upd[n] /\ todo[n]' = todo[n] /\ cfg[n]' = cfg[n]
        /\ stream' = stream /\ hnd[n] = "set" /\ key[n]' = "young"
    BY <1>1, <1>6 DEF CacheSet, LoopOnly, LoopTypeOK, docker, update
  <2>2. Requested(n)'
    BY <2>1 DEF Requested
  <2>3. Members(stream[n])' = Members(stream[n])
    BY <2>1 DEF Members
  <2>4. \A b \in Exposed : Awaited(n, b) => Awaited(n, b)'
    BY <2>1, <2>3 DEF Awaited, Event
  <2> QED
    BY <1>1, <1>6, <2>1, <2>2, <2>4, PassiveStep
<1>7. CASE m = n /\ (InspectFails(n) \/ PollFails(n))
  <2>1. missed[n]'
    BY <1>1, <1>7 DEF InspectFails, PollFails, Fails, LoopTypeOK
  <2> QED
    BY <1>7, <2>1 DEF NodeInv
<1> QED
  BY <1>2, <1>3, <1>4, <1>5, <1>6, <1>7, <1>8 DEF EventLoop

\* The cache, its reaper and the signal pass the request on.
LEMMA CacheIInv ==
  ASSUME IInv, NEW n \in Nodes, Age(n) \/ Reaper(n), NEW m \in Nodes
  PROVE  NodeInv(m)'
<1>1. TypeOK /\ NodeInv(m) /\ LoopTypeOK /\ UpdateTypeOK
  BY DEF IInv, TypeOK
<1>2. /\ UNCHANGED <<ctr, net, stream, alive, missed, hnd, target, todo, cfg>>
  BY DEF Age, Reaper, ReapExpired, ReapDelete, ReapSignal, ReaperOnly, docker, loop
<1>3. CASE m # n
  <2>1. Untouched(m) /\ stream[m]' = stream[m]
    BY <1>1, <1>2, <1>3 DEF Age, Reaper, ReapExpired, ReapDelete, ReapSignal,
       Untouched, LoopTypeOK, UpdateTypeOK
  <2> QED
    BY <2>1, UntouchedInv
<1>4. \A b \in Exposed : Awaited(n, b) => Awaited(n, b)'
  BY <1>2 DEF Awaited, Event, Members
<1>5. CASE m = n /\ (Age(n) \/ ReapExpired(n) \/ ReapDelete(n))
  <2>1. upd' = upd /\ (key[n]' # "none" \/ reaper[n]' # "idle")
    BY <1>1, <1>5 DEF Age, ReapExpired, ReapDelete, LoopTypeOK
  <2>2. Requested(n)'
    BY <2>1 DEF Requested
  <2> QED
    BY <1>1, <1>2, <1>4, <1>5, <2>1, <2>2, PassiveStep
<1>6. CASE m = n /\ ReapSignal(n)
  <2>1. upd[n]' = "check"
    BY <1>1, <1>6 DEF ReapSignal, UpdateTypeOK
  <2> QED
    BY <1>1, <1>2, <1>4, <1>6, <2>1 DEF NodeInv, Pending
<1> QED
  BY <1>3, <1>5, <1>6 DEF Reaper

-----------------------------------------------------------------------------
(* The update handler                                                      *)

\* What a step of the handler leaves to the event loop and the cache.
LEMMA HandlerStep ==
  ASSUME TypeOK, NEW n \in Nodes, UpdaterOnly, UNCHANGED <<ctr, net>>,
         stream' = stream \/ \E evs \in Seq(Events) : Send(evs)
  PROVE  /\ alive[n] => (Requested(n) => Requested(n)')
         /\ alive[n] => \A b \in Exposed : Awaited(n, b) => Awaited(n, b)'
         /\ \A b \in Exposed : Serving(b) <=> Serving(b)'
<1>1. alive[n] => Members(stream[n]) \subseteq Members(stream[n])'
  <2>1. CASE stream' = stream
    BY <2>1 DEF Members
  <2>2. CASE \E evs \in Seq(Events) : Send(evs)
    BY <2>2, SendMembers
  <2> QED
    BY <2>1, <2>2
<1>2. \A c : IsExposedContainer(c) => IsExposedContainer(c)'
  BY DEF IsExposedContainer
<1>3. hnd' = hnd /\ target' = target /\ key' = key /\ reaper' = reaper
  BY DEF UpdaterOnly, loop
<1>4. alive[n] => (Requested(n) => Requested(n)')
  BY <1>1, <1>2, <1>3, RequestedStays
<1>5. alive[n] => \A b \in Exposed : Awaited(n, b) => Awaited(n, b)'
  BY <1>1, <1>3 DEF Awaited, Event
<1>6. \A b \in Exposed : Serving(b) <=> Serving(b)'
  BY DEF Serving
<1> QED
  BY <1>4, <1>5, <1>6

\* The events the handler causes.
LEMMA HandlerEvents ==
  ASSUME TypeOK, NEW n \in Nodes, Updater(n)
  PROVE  stream' = stream \/ \E evs \in Seq(Events) : Send(evs)
<1>1. ASSUME NEW p \in Proxies, UpdConnect(n, p) \/ UpdReload(n, p)
      PROVE  stream' = stream \/ \E evs \in Seq(Events) : Send(evs)
  <2>1. /\ Event("connect", p) \in Events /\ Event("kill", p) \in Events
        /\ Event("stop", p) \in Events /\ Event("start", p) \in Events
    BY EventType DEF Kinds, Containers
  <2>2. /\ <<Event("connect", p)>> \in Seq(Events)
        /\ <<Event("kill", p)>> \in Seq(Events)
        /\ <<Event("stop", p), Event("start", p)>> \in Seq(Events)
    BY <2>1
  <2> QED
    BY <1>1, <2>2 DEF UpdConnect, UpdReload
<1> QED
  BY <1>1 DEF Updater, UpdCheck, UpdList, UpdProxies, UpdSaved, UpdNodes, UpdDone,
     UpdListFails, UpdNodesFails, UpdInspect, UpdInspectGone, UpdInspectFails,
     UpdSave, UpdProxyFails

\* The frame of the handler's steps.
LEMMA HandlerFrame ==
  ASSUME TypeOK, NEW n \in Nodes, Updater(n)
  PROVE  /\ UpdaterOnly /\ UNCHANGED <<ctr, net>> /\ alive[n]
         /\ \A m \in Nodes \ {n} : /\ upd[m]' = upd[m] /\ todo[m]' = todo[m]
                                   /\ cfg[m]' = cfg[m] /\ missed[m]' = missed[m]
<1> USE DEF TypeOK, UpdateTypeOK, LoopTypeOK
<1>1. CASE UpdCheck(n) \/ UpdList(n) \/ UpdProxies(n) \/ UpdSaved(n) \/ UpdNodes(n)
             \/ UpdDone(n) \/ UpdListFails(n)
  BY <1>1 DEF UpdCheck, UpdList, UpdProxies, UpdSaved, UpdNodes, UpdDone, UpdListFails,
              Enter, Fails, docker
<1>2. CASE \E m \in Nodes : UpdNodesFails(n, m)
  BY <1>2 DEF UpdNodesFails, Enter, Fails
<1>3. CASE \E a \in Apps : UpdInspect(n, a) \/ UpdInspectGone(n, a) \/ UpdInspectFails(n, a)
  BY <1>3 DEF UpdInspect, UpdInspectGone, UpdInspectFails, Item, Enter, Fails, docker
<1>4. CASE \E p \in Proxies : \/ UpdSave(n, p) \/ UpdConnect(n, p)
                              \/ UpdReload(n, p) \/ UpdProxyFails(n, p)
  BY <1>4 DEF UpdSave, UpdConnect, UpdReload, UpdProxyFails, Item, Fails
<1> QED
  BY <1>1, <1>2, <1>3, <1>4 DEF Updater

\* A step of the handler keeps its own instance's invariant.
LEMMA UpdaterSelfInv ==
  ASSUME IInv, NEW n \in Nodes, Updater(n)
  PROVE  NodeInv(n)'
<1>1. TypeOK /\ NodeInv(n) /\ LoopTypeOK /\ UpdateTypeOK /\ DockerTypeOK
  BY DEF IInv, TypeOK
<1>2. /\ UpdaterOnly /\ UNCHANGED <<ctr, net>> /\ alive[n] /\ alive' = alive
      /\ \A k \in Nodes \ {n} : /\ upd[k]' = upd[k] /\ todo[k]' = todo[k]
                                /\ cfg[k]' = cfg[k] /\ missed[k]' = missed[k]
      /\ stream' = stream \/ \E evs \in Seq(Events) : Send(evs)
  BY <1>1, HandlerFrame, HandlerEvents DEF UpdaterOnly
<1>4. /\ Requested(n) => Requested(n)'
      /\ \A b \in Exposed : Awaited(n, b) => Awaited(n, b)'
      /\ \A b \in Exposed : Serving(b) <=> Serving(b)'
  BY <1>1, <1>2, HandlerStep
<1>5. missed[n]' => NodeInv(n)'
  BY DEF NodeInv
<1>6. CASE UpdCheck(n)
  <2>1. /\ missed' = missed /\ cfg' = cfg /\ upd[n] = "check" /\ todo[n]' = {}
        /\ upd[n]' = (IF key[n] # "none" THEN "idle" ELSE "list")
    BY <1>1, <1>6 DEF UpdCheck, Enter, UpdateTypeOK
  <2>2. Requested(n)' \/ upd[n]' = "list"
    BY <1>4, <2>1 DEF Requested
  <2> QED
    BY <1>1, <1>2, <1>4, <2>1, <2>2 DEF NodeInv, Pending
<1>7. CASE UpdList(n)
  <2>1. /\ cfg[n]' = {} /\ missed[n]' = (missed[n] /\ Joining) /\ upd[n]' = "generate"
        /\ todo[n]' = {a \in Apps : ctr[a] \in {"running", "stopped"}}
    BY <1>1, <1>7 DEF UpdList, Enter, UpdateTypeOK, LoopTypeOK
  <2>2. \A a \in Exposed : Stale(n, a)' => Pending(n, a)'
    BY <1>2, <2>1, ContainerAssumption DEF Stale, Serving, Pending
  <2>3. ~missed[n]' => \A a \in Exposed : net[a]' = "joining" => Awaited(n, a)'
    BY <1>1, <1>2, <1>4, <2>1, ContainerAssumption DEF NodeInv, Joining, Joins
  <2>4. ~ \E a \in todo[n]' : ctr[a]' = "removed"
    BY <1>2, <2>1
  <2> QED
    BY <2>2, <2>3, <2>4 DEF NodeInv
<1>8. ASSUME NEW a \in Apps, UpdInspect(n, a) PROVE NodeInv(n)'
  <2>1. /\ missed' = missed /\ upd[n] = "generate" /\ upd' = upd /\ a \in todo[n]
        /\ todo[n]' = todo[n] \ {a}
        /\ cfg[n]' = (IF Serving(a) THEN cfg[n] \cup {a} ELSE cfg[n])
    BY <1>1, <1>8 DEF UpdInspect, Item, UpdateTypeOK
  <2>2. a \notin cfg[n]
    BY <2>1 DEF IInv, Uninspected
  <2>3. ~missed[n] => \A b \in Exposed : Stale(n, b)' => Pending(n, b)'
    BY <1>1, <1>2, <1>4, <2>1, <2>2 DEF NodeInv, Stale, Pending
  <2> QED
    BY <1>1, <1>2, <1>4, <2>1, <2>3 DEF NodeInv
<1>9. ASSUME NEW a \in Apps, UpdInspectGone(n, a) PROVE NodeInv(n)'
  <2>1. /\ missed' = missed /\ cfg' = cfg /\ upd[n] = "generate" /\ a \in todo[n]
        /\ ctr[a] = "removed"
        /\ \/ upd' = upd /\ todo[n]' = todo[n] \ {a}
           \/ upd[n]' = "idle"
    BY <1>1, <1>9 DEF UpdInspectGone, Item, Enter, UpdateTypeOK
  <2>2. ~missed[n] => Requested(n)'
    BY <1>1, <1>2, <1>4, <2>1 DEF NodeInv
  <2> QED
    BY <1>1, <1>2, <1>4, <2>1, <2>2 DEF NodeInv, Pending
<1>10. CASE \/ UpdProxies(n) \/ UpdSaved(n) \/ UpdNodes(n) \/ UpdDone(n)
            \/ \E p \in Proxies : UpdSave(n, p) \/ UpdConnect(n, p) \/ UpdReload(n, p)
  <2>1. /\ missed' = missed /\ cfg' = cfg
        /\ upd[n] \in {"save", "connect", "reload"} \/ (upd[n] = "generate" /\ todo[n] = {})
        /\ upd[n]' \in {"idle", "save", "connect", "reload"}
    BY <1>1, <1>10 DEF UpdProxies, UpdSaved, UpdNodes, UpdDone, UpdSave, UpdConnect,
       UpdReload, Enter, Item, UpdateTypeOK
  <2>2. ~missed[n] => \A b \in Exposed : Stale(n, b)' => Pending(n, b)'
    BY <1>1, <1>2, <1>4, <2>1 DEF NodeInv, Stale, Pending
  <2> QED
    BY <1>1, <1>2, <1>4, <2>1, <2>2 DEF NodeInv
<1>11. CASE \/ UpdListFails(n)
            \/ \E k \in Nodes : UpdNodesFails(n, k)
            \/ \E a \in Apps : UpdInspectFails(n, a)
            \/ \E p \in Proxies : UpdProxyFails(n, p)
  <2>1. Fails(n)
    BY <1>11 DEF UpdListFails, UpdNodesFails, UpdInspectFails, UpdProxyFails
  <2> QED
    BY <1>1, <1>5, <2>1 DEF Fails, LoopTypeOK
<1> QED
  BY <1>6, <1>7, <1>8, <1>9, <1>10, <1>11 DEF Updater

\* A step of the handler keeps the invariant of every instance.
LEMMA UpdaterIInv ==
  ASSUME IInv, NEW n \in Nodes, Updater(n), NEW m \in Nodes
  PROVE  NodeInv(m)'
<1>1. TypeOK
  BY DEF IInv
<1>2. CASE m # n
  <2>1. Untouched(m)
    BY <1>1, <1>2, HandlerFrame DEF Untouched, UpdaterOnly, loop
  <2>2. stream[m]' = stream[m] \/ \E evs \in Seq(Events) : Send(evs)
    BY <1>1, HandlerEvents
  <2> QED
    BY <2>1, <2>2, UntouchedInv
<1>3. CASE m = n
  BY <1>3, UpdaterSelfInv
<1> QED
  BY <1>2, <1>3

-----------------------------------------------------------------------------
(* Crash and restart                                                       *)

\* A restarted instance begins with the request of interlock-start.
LEMMA ProcessIInv ==
  ASSUME IInv, NEW n \in Nodes, Crash(n) \/ Restart(n), NEW m \in Nodes
  PROVE  NodeInv(m)'
<1>1. TypeOK /\ NodeInv(m) /\ LoopTypeOK /\ UpdateTypeOK
      /\ stream \in [Nodes -> Seq(Events)]
  BY DEF IInv, TypeOK
<1>2. CASE m # n
  <2>1. Untouched(m) /\ stream[m]' = stream[m]
    BY <1>1, <1>2 DEF Crash, Restart, Untouched, LoopTypeOK, UpdateTypeOK, docker,
       loop, update
  <2> QED
    BY <2>1, UntouchedInv
<1>3. CASE m = n /\ Crash(n)
  BY <1>1, <1>3 DEF Crash, NodeInv, LoopTypeOK
<1>4. CASE m = n /\ Restart(n)
  <2>1. stream[n]' = <<Event("interlock-start", NoContainer)>> /\ net' = net
    BY <1>1, <1>4 DEF Restart, docker
  <2>2. Requested(n)'
    <3>1. Triggers(Event("interlock-start", NoContainer))'
      BY DEF Triggers, Event
    <3>2. Event("interlock-start", NoContainer)
            \in Members(<<Event("interlock-start", NoContainer)>>)
      BY TupleMembers
    <3>3. Event("interlock-start", NoContainer) \in Members(stream[n])'
      BY <2>1, <3>2 DEF Members
    <3>4. Event("interlock-start", NoContainer)' = Event("interlock-start", NoContainer)
      BY DEF Event, NoContainer
    <3> QED
      BY <3>1, <3>3, <3>4 DEF Requested
  <2>3. missed[n]' \/ \A a \in Exposed : net[a]' # "joining"
    <3>1. missed[n]' = (missed[n] \/ Joining)
      BY <1>1, <1>4 DEF Restart, LoopTypeOK
    <3> QED
      BY <2>1, <3>1, ContainerAssumption DEF Joining, Joins
  <2> QED
    BY <1>4, <2>2, <2>3 DEF NodeInv, Pending
<1> QED
  BY <1>2, <1>3, <1>4


-----------------------------------------------------------------------------
(* The invariant is inductive                                              *)

\* Networks list running containers only, whatever happens.
LEMMA NetRunningStep ==
  ASSUME TypeOK, NetRunning, Next
  PROVE  NetRunning'
<1>1. DockerTypeOK
  BY DEF TypeOK
<1>2. CASE Environment
  BY <1>1, <1>2, ZenonT(60) DEF Environment, StartApp, StopApp, KillApp, EndApp, RemoveApp,
     ConnectApp, DisconnectApp, StartProxy, NetRunning, DockerTypeOK
<1>3. CASE \E a \in Apps : Settle(a)
  BY <1>1, <1>3 DEF Settle, NetRunning, DockerTypeOK
<1>4. CASE \E n \in Nodes : EventLoop(n) \/ Age(n) \/ Reaper(n) \/ Crash(n) \/ Restart(n)
  <2>1. UNCHANGED <<ctr, net>>
    BY <1>4 DEF EventLoop, HandleEvent, PollAgain, PollEnd, CacheSet, InspectFails,
       PollFails, LoopOnly, Age, Reaper, ReapExpired, ReapDelete, ReapSignal,
       ReaperOnly, Crash, Restart, docker
  <2> QED
    BY <2>1 DEF NetRunning
<1>5. CASE \E n \in Nodes : Updater(n)
  <2>1. UNCHANGED <<ctr, net>>
    BY <1>5, HandlerFrame
  <2> QED
    BY <2>1 DEF NetRunning
<1> QED
  BY <1>2, <1>3, <1>4, <1>5 DEF Next

\* An inspected container is no longer in the handler's work.
LEMMA UninspectedUpdater ==
  ASSUME TypeOK, Uninspected, NEW n \in Nodes, Updater(n)
  PROVE  Uninspected'
<1>1. UpdateTypeOK
  BY DEF TypeOK
<1>2. \A m \in Nodes \ {n} : upd[m]' = upd[m] /\ todo[m]' = todo[m] /\ cfg[m]' = cfg[m]
  BY HandlerFrame
<1>3. upd[n]' = "generate" => todo[n]' \cap cfg[n]' = {}
  <2>1. CASE UpdList(n)
    BY <1>1, <2>1 DEF UpdList, UpdateTypeOK
  <2>2. CASE \E a \in Apps : \/ UpdInspect(n, a) \/ UpdInspectGone(n, a)
                             \/ UpdInspectFails(n, a)
    BY <1>1, <2>2 DEF UpdInspect, UpdInspectGone, UpdInspectFails, Item, Enter,
       UpdateTypeOK, Uninspected
  <2>3. CASE \/ UpdCheck(n) \/ UpdProxies(n) \/ UpdSaved(n) \/ UpdNodes(n) \/ UpdDone(n)
             \/ UpdListFails(n) \/ \E m \in Nodes : UpdNodesFails(n, m)
    BY <1>1, <2>3 DEF UpdCheck, UpdProxies, UpdSaved, UpdNodes, UpdDone, UpdListFails,
       UpdNodesFails, Enter, UpdateTypeOK
  <2>4. CASE \E p \in Proxies : \/ UpdSave(n, p) \/ UpdConnect(n, p)
                                \/ UpdReload(n, p) \/ UpdProxyFails(n, p)
    BY <1>1, <2>4 DEF UpdSave, UpdConnect, UpdReload, UpdProxyFails, Item, UpdateTypeOK
  <2> QED
    BY <2>1, <2>2, <2>3, <2>4 DEF Updater
<1> QED
  BY <1>2, <1>3 DEF Uninspected

\* No other step touches the work and the result of GenerateProxyConfig.
LEMMA UninspectedStep ==
  ASSUME TypeOK, Uninspected, Next
  PROVE  Uninspected'
<1>1. UpdateTypeOK
  BY DEF TypeOK
<1>2. CASE Environment
  BY <1>2 DEF Environment, StartApp, StopApp, KillApp, EndApp, RemoveApp, ConnectApp,
     DisconnectApp, StartProxy, Change, update, Uninspected
<1>3. CASE \E a \in Apps : Settle(a)
  BY <1>3 DEF Settle, update, Uninspected
<1>4. CASE \E n \in Nodes : EventLoop(n) \/ Restart(n)
  <2>1. UNCHANGED update
    BY <1>4 DEF EventLoop, HandleEvent, PollAgain, PollEnd, CacheSet, InspectFails,
       PollFails, LoopOnly, Restart
  <2> QED
    BY <2>1 DEF Uninspected, update
<1>5. CASE \E n \in Nodes : Age(n) \/ Reaper(n) \/ Crash(n)
  BY <1>1, <1>5 DEF Age, Reaper, ReapExpired, ReapDelete, ReapSignal, ReaperOnly,
     Crash, UpdateTypeOK, Uninspected
<1>6. CASE \E n \in Nodes : Updater(n)
  BY <1>6, UninspectedUpdater
<1> QED
  BY <1>2, <1>3, <1>4, <1>5, <1>6 DEF Next

\* The invariant holds at first: interlock-start is on every stream.
LEMMA InitIInv == Init => IInv
<1> SUFFICES ASSUME Init PROVE IInv
  OBVIOUS
<1>1. NetRunning /\ Uninspected
  BY DEF Init, NetRunning, Uninspected
<1>2. ASSUME NEW n \in Nodes PROVE NodeInv(n)
  <2>1. stream[n] = <<Event("interlock-start", NoContainer)>>
    BY DEF Init
  <2>2. Requested(n)
    <3>1. Triggers(Event("interlock-start", NoContainer))
      BY DEF Triggers, Event
    <3>2. Event("interlock-start", NoContainer) \in Members(stream[n])
      BY <2>1, TupleMembers
    <3> QED
      BY <3>1, <3>2 DEF Requested
  <2>3. \A a \in Exposed : net[a] # "joining"
    BY ContainerAssumption DEF Init
  <2> QED
    BY <2>2, <2>3 DEF NodeInv, Pending
<1> QED
  BY <1>1, <1>2, InitTypeOK DEF IInv

\* The invariant does not depend on anything but vars.
LEMMA StutterIInv == IInv /\ UNCHANGED vars => IInv'
<1> SUFFICES ASSUME IInv, UNCHANGED vars PROVE IInv'
  OBVIOUS
<1>1. ASSUME NEW m \in Nodes PROVE NodeInv(m)'
  <2>1. Untouched(m) /\ stream[m]' = stream[m]
    BY DEF vars, docker, loop, update, Untouched
  <2> QED
    BY <2>1, UntouchedInv
<1>2. NetRunning' /\ Uninspected'
  BY DEF IInv, NetRunning, Uninspected, vars, docker, update
<1> QED
  BY <1>1, <1>2, NextTypeOK DEF IInv

\* The invariant is inductive.
LEMMA NextIInv == IInv /\ [Next]_vars => IInv'
<1>1. ASSUME IInv, Next PROVE IInv'
  <2>1. TypeOK' /\ NetRunning' /\ Uninspected'
    BY <1>1, NextTypeOK, NetRunningStep, UninspectedStep DEF IInv
  <2>2. ASSUME NEW m \in Nodes PROVE NodeInv(m)'
    <3>1. CASE Environment
      BY <1>1, <3>1, StartAppIInv, StopKillIInv, RemoveAppIInv, ConnectAppIInv,
         DisconnectAppIInv, StartProxyIInv DEF Environment
    <3>2. CASE \E a \in Apps : Settle(a)
      BY <1>1, <3>2, SettleIInv
    <3>3. CASE \E n \in Nodes : \/ EventLoop(n) \/ Age(n) \/ Reaper(n) \/ Updater(n)
                                \/ Crash(n) \/ Restart(n)
      BY <1>1, <3>3, EventLoopIInv, CacheIInv, UpdaterIInv, ProcessIInv
    <3> QED
      BY <1>1, <3>1, <3>2, <3>3 DEF Next
  <2> QED
    BY <2>1, <2>2 DEF IInv
<1> QED
  BY <1>1, StutterIInv

\* No lost update, for any number of instances, containers, proxies, faults and
\* crashes and for both backends: what HandleEvent, the debouncing cache, its
\* reaper and the update handler do to a request never leaves a changed
\* container unread, unless a call failed or a container joined its network
\* after its polls had ended.
THEOREM LoadBalancerNoLostUpdate == Spec => []NoLostUpdate
<1>1. IInv => NoLostUpdate
  BY IInvImplies
<1> QED
  BY <1>1, InitIInv, NextIInv, PTL DEF Spec

\* Likewise: haproxy's GenerateProxyConfig gives up only when another reload
\* has been asked for.
THEOREM LoadBalancerAbortIsCovered == Spec => []AbortIsCovered
<1>1. IInv => AbortIsCovered
  BY IInvImplies
<1> QED
  BY <1>1, InitIInv, NextIInv, PTL DEF Spec

-----------------------------------------------------------------------------
(* What a step does to a request                                           *)

\* An operation of a user reaches the streams as a sequence of events.
LEMMA EnvironmentEvents ==
  ASSUME Environment
  PROVE  \E evs \in Seq(Events) : Send(evs)
<1>1. ASSUME NEW c \in Containers, NEW k \in Kinds, NEW l \in Kinds
      PROVE  /\ Event(k, c) \in Events
             /\ <<Event(k, c)>> \in Seq(Events)
             /\ <<Event(k, c), Event(l, c)>> \in Seq(Events)
             /\ <<>> \in Seq(Events)
  <2>1. Event(k, c) \in Events /\ Event(l, c) \in Events
    BY EventType
  <2> QED
    BY <2>1
<1>2. /\ \A a \in Apps : a \in Containers
      /\ \A p \in Proxies : p \in Containers
      /\ {"start", "stop", "kill", "destroy", "connect", "disconnect"} \subseteq Kinds
  BY DEF Containers, Kinds
<1>3. ASSUME NEW a \in Apps, StopApp(a) \/ KillApp(a)
      PROVE  \E evs \in Seq(Events) : Send(evs)
  <2> DEFINE gone == IF net[a] # "no" THEN <<Event("disconnect", a)>> ELSE <<>>
  <2>1. PICK first \in Seq(Events), last \in Seq(Events) : Send(first \o gone \o last)
    BY <1>1, <1>2, <1>3 DEF StopApp, KillApp, EndApp
  <2>2. gone \in Seq(Events)
    BY <1>1, <1>2
  <2> HIDE DEF gone
  <2>3. first \o gone \in Seq(Events)
    BY <2>2, ConcatProperties
  <2>4. first \o gone \o last \in Seq(Events)
    BY <2>3, ConcatProperties
  <2> QED
    BY <2>1, <2>4
<1>4. ASSUME NEW a \in Apps, StartApp(a)
      PROVE  \E evs \in Seq(Events) : Send(evs)
  BY <1>1, <1>2, <1>4 DEF StartApp
<1>5. ASSUME NEW a \in Apps, RemoveApp(a) \/ ConnectApp(a) \/ DisconnectApp(a)
      PROVE  \E evs \in Seq(Events) : Send(evs)
  BY <1>1, <1>2, <1>5 DEF RemoveApp, ConnectApp, DisconnectApp
<1>6. ASSUME NEW p \in Proxies, StartProxy(p)
      PROVE  \E evs \in Seq(Events) : Send(evs)
  BY <1>1, <1>2, <1>6 DEF StartProxy
<1> QED
  BY <1>3, <1>4, <1>5, <1>6 DEF Environment

\* Operations of users take no request away: an event about a container that
\* is removed no longer triggers, but destroy does.
LEMMA EnvironmentRequest ==
  ASSUME TypeOK, Environment, NEW m \in Nodes, alive[m], Requested(m)
  PROVE  Requested(m)'
<1>1. PICK evs \in Seq(Events) : Send(evs)
  BY EnvironmentEvents
<1>2. Members(stream[m]) \subseteq Members(stream[m])'
  BY <1>1, SendMembers
<1>3. UNCHANGED <<hnd, target, key, reaper>>
  BY DEF Environment, StartApp, StopApp, KillApp, EndApp, RemoveApp, ConnectApp,
     DisconnectApp, StartProxy, Change, loop
<1>4. CASE \E a \in Apps : RemoveApp(a)
  <2>1. PICK a \in Apps : RemoveApp(a)
    BY <1>4
  <2>2. <<Event("destroy", a)>> \in Seq(Events) /\ Send(<<Event("destroy", a)>>)
    <3>1. Event("destroy", a) \in Events
      BY EventType DEF Kinds, Containers
    <3> QED
      BY <2>1, <3>1 DEF RemoveApp
  <2>3. Event("destroy", a) \in Members(stream[m])'
    BY <2>2, SendMembers, TupleMembers
  <2>4. Triggers(Event("destroy", a))'
    BY DEF Triggers, Event
  <2>5. Event("destroy", a)' = Event("destroy", a)
    BY DEF Event
  <2> QED
    BY <2>3, <2>4, <2>5 DEF Requested
<1>5. CASE ~ \E a \in Apps : RemoveApp(a)
  <2>1. \A c : IsExposedContainer(c) => IsExposedContainer(c)'
    BY <1>5, ContainerAssumption DEF Environment, StartApp, StopApp, KillApp, EndApp,
       ConnectApp, DisconnectApp, StartProxy, IsExposedContainer, TypeOK, DockerTypeOK
  <2> QED
    BY <1>2, <1>3, <2>1, RequestedStays
<1> QED
  BY <1>4, <1>5

\* HandleEvent turns a request into another one, or a failed call drops it.
LEMMA EventLoopRequest ==
  ASSUME TypeOK, NEW m \in Nodes, EventLoop(m), Requested(m)
  PROVE  Requested(m)' \/ missed[m]'
<1>1. LoopTypeOK /\ stream \in [Nodes -> Seq(Events)]
  BY DEF TypeOK
<1>2. CASE HandleEvent(m)
  <2> DEFINE e == Head(stream[m])
  <2>1. stream[m] \in Seq(Events) /\ stream[m] # <<>>
    BY <1>1, <1>2 DEF HandleEvent
  <2>2. stream[m]' = Tail(stream[m])
    BY <1>1, <1>2 DEF HandleEvent
  <2>3. Members(stream[m]) = {e} \cup Members(stream[m])'
    <3>1. Members(stream[m]) = {e} \cup Members(Tail(stream[m]))
      BY <2>1, MembersTail
    <3> QED
      BY <2>2, <3>1 DEF Members
  <2>4. /\ hnd[m] = "idle"
        /\ e.kind \in {"connect", "disconnect"} => hnd[m]' = "poll" /\ target[m]' = e.id
        /\ e.kind \notin {"connect", "disconnect"} /\ Requests(e) => hnd[m]' = "set"
    BY <1>1, <1>2 DEF HandleEvent, NetworkEvent, LoopTypeOK
  <2>5. UNCHANGED <<ctr, key, reaper>>
    BY <1>2 DEF HandleEvent, LoopOnly, docker
  <2>6. \A x : Triggers(x) <=> Triggers(x)'
    BY <2>5 DEF Triggers, IsExposedContainer
  <2>7. Triggers(e) => Requested(m)'
    <3>1. CASE e.kind \in {"connect", "disconnect"}
      BY <2>4, <2>5, <3>1 DEF Triggers, IsExposedContainer, Requested
    <3>2. CASE e.kind \notin {"connect", "disconnect"}
      <4>1. Triggers(e) => Requests(e)
        BY <3>2 DEF Triggers, Requests
      <4> QED
        BY <2>4, <3>2, <4>1 DEF Requested
    <3> QED
      BY <3>1, <3>2
  <2> HIDE DEF e
  <2> QED
    BY <2>3, <2>4, <2>5, <2>6, <2>7 DEF Requested
<1>3. CASE PollAgain(m) \/ PollEnd(m)
  <2>1. UNCHANGED <<ctr, key, reaper, stream>> /\ hnd[m] = "poll"
    BY <1>3 DEF PollAgain, PollEnd, LoopOnly, docker
  <2>2. IsExposedContainer(target[m]) =>
          hnd[m]' = "set" \/ (hnd[m]' = "poll" /\ target[m]' = target[m])
    BY <1>1, <1>3, <2>1 DEF PollAgain, PollEnd, LoopTypeOK
  <2>3. \A x : Triggers(x) <=> Triggers(x)'
    BY <2>1 DEF Triggers, IsExposedContainer
  <2>4. Members(stream[m])' = Members(stream[m])
    BY <2>1 DEF Members
  <2> QED
    BY <2>1, <2>2, <2>3, <2>4 DEF Requested, IsExposedContainer
<1>4. CASE CacheSet(m)
  BY <1>1, <1>4 DEF CacheSet, LoopTypeOK, Requested
<1>5. CASE InspectFails(m) \/ PollFails(m)
  BY <1>1, <1>5 DEF InspectFails, PollFails, Fails, LoopTypeOK
<1> QED
  BY <1>2, <1>3, <1>4, <1>5 DEF EventLoop

\* A step of one instance leaves the requests of another one alone.
LEMMA OtherRequest ==
  ASSUME TypeOK, NEW n \in Nodes, NEW m \in Nodes, m # n, alive[m], Requested(m),
         \/ EventLoop(n) \/ Age(n) \/ Reaper(n) \/ Updater(n)
         \/ Crash(n) \/ Restart(n)
  PROVE  Requested(m)'
<1>1. LoopTypeOK /\ stream \in [Nodes -> Seq(Events)]
  BY DEF TypeOK
<1>2. ctr' = ctr /\ hnd[m]' = hnd[m] /\ target[m]' = target[m] /\ key[m]' = key[m]
      /\ reaper[m]' = reaper[m]
  <2>1. CASE EventLoop(n)
    BY <1>1, <2>1 DEF EventLoop, HandleEvent, PollAgain, PollEnd, CacheSet,
       InspectFails, PollFails, LoopOnly, LoopTypeOK, docker, loop
  <2>2. CASE Age(n) \/ Reaper(n)
    BY <1>1, <2>2 DEF Age, Reaper, ReapExpired, ReapDelete, ReapSignal, ReaperOnly,
       LoopTypeOK, docker, loop
  <2>3. CASE Updater(n)
    BY <2>3, HandlerFrame DEF UpdaterOnly, loop
  <2>4. CASE Crash(n) \/ Restart(n)
    BY <1>1, <2>4 DEF Crash, Restart, LoopTypeOK, docker, loop
  <2> QED
    BY <2>1, <2>2, <2>3, <2>4
<1>3. Members(stream[m]) \subseteq Members(stream[m])'
  <2>1. CASE stream[m]' = stream[m]
    BY <2>1 DEF Members
  <2>2. CASE \E evs \in Seq(Events) : Send(evs)
    BY <2>2, SendMembers
  <2>3. stream[m]' = stream[m] \/ \E evs \in Seq(Events) : Send(evs)
    <3>1. CASE Updater(n)
      BY <3>1, HandlerEvents
    <3>2. CASE ~Updater(n)
      BY <1>1, <3>2 DEF EventLoop, HandleEvent, PollAgain, PollEnd, CacheSet,
         InspectFails, PollFails, Age, Reaper, ReapExpired, ReapDelete, ReapSignal,
         ReaperOnly, Crash, Restart
    <3> QED
      BY <3>1, <3>2
  <2> QED
    BY <2>1, <2>2, <2>3
<1>4. \A c : IsExposedContainer(c) => IsExposedContainer(c)'
  BY <1>2 DEF IsExposedContainer
<1> QED
  BY <1>2, <1>3, <1>4, RequestedStays

\* A request of a running instance is never lost: it stays one, the handler has
\* taken its signal, the instance crashed or a call failed.
LEMMA RequestStep ==
  ASSUME TypeOK, Next, NEW m \in Nodes, alive[m], Requested(m)
  PROVE  Requested(m)' \/ ~alive[m]' \/ missed[m]' \/ upd[m]' = "check"
<1>1. LoopTypeOK /\ UpdateTypeOK
  BY DEF TypeOK
<1>2. CASE Environment
  BY <1>2, EnvironmentRequest
<1>3. CASE \E a \in Apps : Settle(a)
  <2>1. UNCHANGED <<ctr, stream, hnd, target, key, reaper>>
    BY <1>3 DEF Settle, loop
  <2>2. \A c : IsExposedContainer(c) => IsExposedContainer(c)'
    BY <2>1 DEF IsExposedContainer
  <2>3. Members(stream[m]) \subseteq Members(stream[m])'
    BY <2>1 DEF Members
  <2> QED
    BY <2>1, <2>2, <2>3, RequestedStays
<1>4. CASE EventLoop(m)
  BY <1>4, EventLoopRequest
<1>5. CASE Age(m) \/ ReapExpired(m) \/ ReapDelete(m)
  <2>1. key[m]' # "none" \/ reaper[m]' # "idle"
    BY <1>1, <1>5 DEF Age, ReapExpired, ReapDelete, LoopTypeOK
  <2> QED
    BY <2>1 DEF Requested
<1>6. CASE ReapSignal(m)
  BY <1>1, <1>6 DEF ReapSignal, UpdateTypeOK
<1>7. CASE Updater(m)
  BY <1>7, HandlerFrame, HandlerEvents, HandlerStep
<1>8. CASE Crash(m)
  BY <1>1, <1>8 DEF Crash, LoopTypeOK
<1>9. CASE Restart(m)
  BY <1>9 DEF Restart
<1>10. CASE \E n \in Nodes \ {m} : \/ EventLoop(n) \/ Age(n) \/ Reaper(n) \/ Updater(n)
                                   \/ Crash(n) \/ Restart(n)
  BY <1>10, OtherRequest
<1> QED
  BY <1>2, <1>3, <1>4, <1>5, <1>6, <1>7, <1>8, <1>9, <1>10 DEF Next, Reaper

\* Instance m has, or is bound to get, a reload that lists and copies afresh;
\* nothing is promised of an instance that is down or whose call failed.
Renews(m) ==
  \/ ~alive[m] \/ missed[m]
  \/ Requested(m)
  \/ upd[m] \in {"check", "list", "generate"}

\* A restarted instance has the request of interlock-start.
LEMMA RestartRequests ==
  ASSUME TypeOK, NEW n \in Nodes, Restart(n)
  PROVE  Requested(n)'
<1>1. stream[n]' = <<Event("interlock-start", NoContainer)>>
  BY DEF Restart, TypeOK
<1>2. Triggers(Event("interlock-start", NoContainer))'
  BY DEF Triggers, Event
<1>3. Event("interlock-start", NoContainer)
        \in Members(<<Event("interlock-start", NoContainer)>>)
  BY TupleMembers
<1>4. Event("interlock-start", NoContainer) \in Members(stream[n])'
  BY <1>1, <1>3 DEF Members
<1>5. Event("interlock-start", NoContainer)' = Event("interlock-start", NoContainer)
  BY DEF Event, NoContainer
<1> QED
  BY <1>2, <1>4, <1>5 DEF Requested

\* The steps that are not the handler's leave its work and its results alone.
LEMMA StepKinds ==
  ASSUME Next
  PROVE  \/ /\ UNCHANGED <<joined, file, loaded, update>>
            /\ present' = present \/ \E p \in Proxies : StartProxy(p)
         \/ \E k \in Nodes : ReapSignal(k) \/ Crash(k) \/ Updater(k)
<1>1. CASE Environment
  BY <1>1 DEF Environment, StartApp, StopApp, KillApp, EndApp, RemoveApp, ConnectApp,
     DisconnectApp, StartProxy, Change
<1>2. CASE \E a \in Apps : Settle(a)
  BY <1>2 DEF Settle
<1>3. CASE \E n \in Nodes : EventLoop(n) \/ Restart(n)
  BY <1>3 DEF EventLoop, HandleEvent, PollAgain, PollEnd, CacheSet, InspectFails,
     PollFails, LoopOnly, Restart, docker
<1>4. CASE \E n \in Nodes : Age(n) \/ ReapExpired(n) \/ ReapDelete(n)
  BY <1>4 DEF Age, ReapExpired, ReapDelete, ReaperOnly, docker, update
<1> QED
  BY <1>1, <1>2, <1>3, <1>4 DEF Next, Reaper

\* Only a new list forgets that a call failed, and only a restart brings an
\* instance back.
LEMMA HistoryStep ==
  ASSUME TypeOK, Next, NEW m \in Nodes
  PROVE  /\ missed[m] => missed[m]' \/ UpdList(m)
         /\ ~alive[m] => ~alive[m]' \/ Restart(m)
<1>1. LoopTypeOK
  BY DEF TypeOK
<1>2. CASE Environment \/ \E a \in Apps : Settle(a)
  <2>1. UNCHANGED <<missed, alive>>
    BY <1>2 DEF Environment, StartApp, StopApp, KillApp, EndApp, RemoveApp, ConnectApp,
       DisconnectApp, StartProxy, Change, Settle
  <2> QED
    BY <2>1
<1>3. CASE \E n \in Nodes : EventLoop(n) \/ Age(n) \/ Reaper(n) \/ Crash(n) \/ Restart(n)
  BY <1>1, <1>3 DEF EventLoop, HandleEvent, PollAgain, PollEnd, CacheSet, InspectFails,
     PollFails, LoopOnly, Fails, Age, Reaper, ReapExpired, ReapDelete, ReapSignal,
     ReaperOnly, Crash, Restart, LoopTypeOK
<1>4. ASSUME NEW n \in Nodes, Updater(n), n # m
      PROVE  missed[m]' = missed[m] /\ alive' = alive
  BY <1>4, HandlerFrame DEF UpdaterOnly
<1>5. CASE Updater(m)
  <2>1. alive' = alive
    BY <1>5, HandlerFrame DEF UpdaterOnly
  <2>2. UpdList(m) \/ missed' = missed \/ missed' = [missed EXCEPT ![m] = TRUE]
    BY <1>5 DEF Updater, UpdCheck, UpdProxies, UpdSaved, UpdNodes, UpdDone,
       UpdListFails, UpdNodesFails, UpdInspect, UpdInspectGone, UpdInspectFails,
       UpdSave, UpdConnect, UpdReload, UpdProxyFails, Fails
  <2> QED
    BY <1>1, <2>1, <2>2 DEF LoopTypeOK
<1> QED
  BY <1>2, <1>3, <1>4, <1>5 DEF Next

\* The stages before the copy end only in the copy, in a request or in a fault.
LEMMA FreshStep ==
  ASSUME IInv, NEW m \in Nodes, Updater(m), upd[m] \in {"check", "list", "generate"}
  PROVE  Renews(m)' \/ UpdProxies(m)
<1>1. TypeOK /\ NodeInv(m) /\ LoopTypeOK /\ UpdateTypeOK
  BY DEF IInv, TypeOK
<1>2. alive[m] /\ (Requested(m) => Requested(m)')
  BY <1>1, HandlerFrame, HandlerEvents, HandlerStep
<1>3. CASE UpdCheck(m)
  <2>1. key[m] # "none" \/ upd[m]' = "list"
    BY <1>1, <1>3 DEF UpdCheck, Enter, UpdateTypeOK
  <2> QED
    BY <1>2, <2>1 DEF Requested, Renews
<1>4. CASE UpdList(m)
  BY <1>1, <1>4 DEF UpdList, Enter, UpdateTypeOK, Renews
<1>5. ASSUME NEW a \in Apps, UpdInspect(m, a) PROVE Renews(m)'
  <2>1. upd[m]' = "generate"
    BY <1>5 DEF UpdInspect, Item
  <2> QED
    BY <2>1 DEF Renews
<1>6. ASSUME NEW a \in Apps, UpdInspectGone(m, a) PROVE Renews(m)'
  <2>1. upd[m] = "generate" /\ a \in todo[m] /\ ctr[a] = "removed" /\ missed' = missed
    BY <1>6 DEF UpdInspectGone, Item, Enter
  <2> QED
    BY <1>1, <1>2, <2>1 DEF NodeInv, Renews
<1>7. CASE \/ UpdListFails(m)
           \/ \E k \in Nodes : UpdNodesFails(m, k)
           \/ \E a \in Apps : UpdInspectFails(m, a)
           \/ \E p \in Proxies : UpdProxyFails(m, p)
  <2>1. Fails(m)
    BY <1>7 DEF UpdListFails, UpdNodesFails, UpdInspectFails, UpdProxyFails
  <2> QED
    BY <1>1, <2>1 DEF Fails, LoopTypeOK, Renews
<1>8. CASE \/ UpdSaved(m) \/ UpdNodes(m) \/ UpdDone(m)
           \/ \E p \in Proxies : UpdSave(m, p) \/ UpdConnect(m, p) \/ UpdReload(m, p)
  BY <1>8 DEF UpdSaved, UpdNodes, UpdDone, UpdSave, UpdConnect, UpdReload, Enter, Item
<1> QED
  BY <1>3, <1>4, <1>5, <1>6, <1>7, <1>8 DEF Updater

\* Whatever happens, a renewal comes to the point where the proxies are listed
\* and the copies begin.
LEMMA RenewsStep ==
  ASSUME IInv, Next, NEW m \in Nodes, Renews(m)
  PROVE  Renews(m)' \/ UpdProxies(m)
<1>1. TypeOK /\ UpdateTypeOK /\ LoopTypeOK
  BY DEF IInv, TypeOK
<1>2. CASE ~alive[m]
  BY <1>1, <1>2, HistoryStep, RestartRequests DEF Renews
<1>3. CASE missed[m]
  <2>1. UpdList(m) => upd[m]' = "generate"
    BY <1>1 DEF UpdList, Enter, UpdateTypeOK
  <2> QED
    BY <1>1, <1>3, <2>1, HistoryStep DEF Renews
<1>4. CASE alive[m] /\ Requested(m)
  BY <1>1, <1>4, RequestStep DEF Renews
<1>5. CASE upd[m] \in {"check", "list", "generate"}
  <2>1. CASE Updater(m)
    BY <1>5, <2>1, FreshStep
  <2>2. CASE Crash(m)
    BY <1>1, <2>2 DEF Crash, LoopTypeOK, Renews
  <2>3. CASE upd[m]' = upd[m] \/ ReapSignal(m)
    BY <1>1, <1>5, <2>3 DEF ReapSignal, UpdateTypeOK, Renews
  <2>4. ASSUME NEW n \in Nodes \ {m}, ReapSignal(n) \/ Crash(n) \/ Updater(n)
        PROVE  upd[m]' = upd[m]
    BY <1>1, <2>4, HandlerFrame DEF ReapSignal, Crash, UpdateTypeOK
  <2> QED
    BY <2>1, <2>2, <2>3, <2>4, StepKinds DEF update
<1> QED
  BY <1>2, <1>3, <1>4, <1>5 DEF Renews

-----------------------------------------------------------------------------
(* At rest every known proxy has the right file                            *)

\* The proxies an instance has listed exist: proxies are not removed.
SeenPresent == \A n \in Nodes : Members(seen[n]) \subseteq Members(present)

\* Instance m answers for the file of proxy p: it will write it, or what is in
\* it is what m generated last.
Covers(m, p) ==
  \/ Renews(m)
  \/ upd[m] = "save" /\ p \in todo[m]
  \/ file[p] = cfg[m]

\* Some instance answers for every proxy that any instance knows.  It need not
\* be the one that knows the proxy: the copies of two instances interleave, and
\* the one that writes last takes over.
SavedInv ==
  /\ SeenPresent
  /\ \A n \in Nodes : \A p \in Members(seen[n]) : \E m \in Nodes : Covers(m, p)

\* Proxies come and are not taken away.
LEMMA PresentGrows ==
  ASSUME TypeOK, Next
  PROVE  Members(present) \subseteq Members(present)'
<1>1. CASE present' = present
  BY <1>1 DEF Members
<1>2. ASSUME NEW p \in Proxies, StartProxy(p)
      PROVE  Members(present) \subseteq Members(present)'
  <2>1. present \in Seq(Proxies) /\ <<p>> \in Seq(Proxies) /\ present' = <<p>> \o present
    BY <1>2 DEF TypeOK, DockerTypeOK, StartProxy
  <2>2. Members(<<p>> \o present) = Members(<<p>>) \cup Members(present)
    BY <2>1, MembersConcat, ZenonT(60)
  <2> QED
    BY <2>1, <2>2 DEF Members
<1>3. (\E k \in Nodes : ReapSignal(k) \/ Crash(k) \/ Updater(k)) => present' = present
  BY ZenonT(60) DEF ReapSignal, ReaperOnly, Crash, Updater, UpdCheck, UpdList, UpdProxies, UpdSaved,
     UpdNodes, UpdDone, UpdListFails, UpdNodesFails, UpdInspect, UpdInspectGone,
     UpdInspectFails, UpdSave, UpdConnect, UpdReload, UpdProxyFails, docker
<1> QED
  BY <1>1, <1>2, <1>3, StepKinds

\* What the handler's steps do to the lists of proxies and to the files.
LEMMA HandlerResults ==
  ASSUME TypeOK, NEW n \in Nodes, Updater(n)
  PROVE  /\ seen' = seen \/ (UpdProxies(n) /\ seen' = [seen EXCEPT ![n] = present])
         /\ file' = file \/ \E p \in Proxies : UpdSave(n, p)
         /\ upd[n] \notin {"list", "generate"} => cfg' = cfg
<1>1. CASE UpdCheck(n) \/ UpdList(n) \/ UpdProxies(n) \/ UpdSaved(n) \/ UpdNodes(n)
             \/ UpdDone(n) \/ UpdListFails(n)
  BY <1>1 DEF UpdCheck, UpdList, UpdProxies, UpdSaved, UpdNodes, UpdDone, UpdListFails,
              Enter, docker
<1>2. CASE \E m \in Nodes : UpdNodesFails(n, m)
  BY <1>2 DEF UpdNodesFails
<1>3. CASE \E a \in Apps : UpdInspect(n, a) \/ UpdInspectGone(n, a) \/ UpdInspectFails(n, a)
  BY <1>3 DEF UpdInspect, UpdInspectGone, UpdInspectFails, Item, docker
<1>4. CASE \E p \in Proxies : \/ UpdSave(n, p) \/ UpdConnect(n, p)
                              \/ UpdReload(n, p) \/ UpdProxyFails(n, p)
  BY <1>4 DEF UpdSave, UpdConnect, UpdReload, UpdProxyFails
<1> QED
  BY <1>1, <1>2, <1>3, <1>4 DEF Updater

\* A configuration changes only while it is generated, and when its process dies.
LEMMA ConfigStep ==
  ASSUME TypeOK, Next, NEW m \in Nodes, ~Renews(m)
  PROVE  cfg[m]' = cfg[m] \/ Renews(m)'
<1>1. UpdateTypeOK /\ LoopTypeOK
  BY DEF TypeOK
<1>2. CASE Crash(m)
  BY <1>1, <1>2 DEF Crash, LoopTypeOK, Renews
<1>3. CASE Updater(m)
  BY <1>3, HandlerResults DEF Renews
<1>4. ASSUME NEW n \in Nodes \ {m}, Crash(n) \/ Updater(n) PROVE cfg[m]' = cfg[m]
  BY <1>1, <1>4, HandlerFrame DEF Crash, UpdateTypeOK
<1>5. ASSUME NEW n \in Nodes, ReapSignal(n) PROVE cfg[m]' = cfg[m]
  BY <1>5 DEF ReapSignal, ReaperOnly
<1> QED
  BY <1>2, <1>3, <1>4, <1>5, StepKinds DEF update

\* What is left to be copied to stays so until it is copied to.
LEMMA SaveStep ==
  ASSUME TypeOK, Next, NEW m \in Nodes, NEW p \in Proxies, ~Renews(m),
         upd[m] = "save", p \in todo[m]
  PROVE  Renews(m)' \/ UpdSave(m, p) \/ (upd[m]' = "save" /\ p \in todo[m]')
<1>1. UpdateTypeOK /\ LoopTypeOK
  BY DEF TypeOK
<1>2. CASE Updater(m)
  <2>1. CASE \E q \in Proxies : UpdSave(m, q)
    BY <1>1, <2>1, ZenonT(60) DEF UpdSave, Item, UpdateTypeOK
  <2>2. CASE \E q \in Proxies : UpdProxyFails(m, q)
    BY <1>1, <2>2 DEF UpdProxyFails, Fails, LoopTypeOK, Renews
  <2> QED
    BY <1>1, <1>2, <2>1, <2>2 DEF Updater, UpdCheck, UpdList, UpdProxies, UpdSaved, UpdNodes,
       UpdDone, UpdListFails, UpdNodesFails, UpdInspect, UpdInspectGone, UpdInspectFails,
       UpdConnect, UpdReload, Enter, Item
<1>3. CASE Crash(m)
  BY <1>1, <1>3 DEF Crash, LoopTypeOK, Renews
<1>4. CASE ReapSignal(m)
  BY <1>4 DEF ReapSignal
<1>5. ASSUME NEW n \in Nodes \ {m}, ReapSignal(n) \/ Crash(n) \/ Updater(n)
      PROVE  upd[m]' = upd[m] /\ todo[m]' = todo[m]
  BY <1>1, <1>5, HandlerFrame DEF ReapSignal, ReaperOnly, Crash, UpdateTypeOK
<1> QED
  BY <1>2, <1>3, <1>4, <1>5, StepKinds DEF update

\* Somebody goes on answering for a proxy that exists.
LEMMA CoversStep ==
  ASSUME IInv, Next, NEW m \in Nodes, NEW p \in Proxies, p \in Members(present),
         Covers(m, p)
  PROVE  \E k \in Nodes : Covers(k, p)'
<1>1. TypeOK /\ UpdateTypeOK /\ DockerTypeOK
  BY DEF IInv, TypeOK
<1>2. ASSUME NEW k \in Nodes, UpdSave(k, p) PROVE Covers(k, p)'
  BY <1>1, <1>2 DEF UpdSave, DockerTypeOK, Covers
<1>3. CASE Renews(m)
  <2>1. UpdProxies(m) => upd[m]' = "save" /\ todo[m]' = Members(present)
    BY <1>1 DEF UpdProxies, Enter, UpdateTypeOK
  <2> QED
    BY <1>3, <2>1, RenewsStep DEF Covers
<1>4. CASE ~Renews(m) /\ upd[m] = "save" /\ p \in todo[m]
  BY <1>1, <1>2, <1>4, SaveStep DEF Covers
<1>5. CASE ~Renews(m) /\ file[p] = cfg[m]
  <2>1. file[p]' = file[p] \/ \E k \in Nodes : UpdSave(k, p)
    <3>1. ASSUME NEW k \in Nodes, Updater(k)
          PROVE  file[p]' = file[p] \/ UpdSave(k, p)
      <4>1. CASE file' = file
        BY <4>1
      <4>2. ASSUME NEW q \in Proxies, UpdSave(k, q), q # p PROVE file[p]' = file[p]
        BY <1>1, <4>2 DEF UpdSave, DockerTypeOK
      <4> QED
        BY <1>1, <3>1, <4>1, <4>2, HandlerResults
    <3>2. ASSUME NEW k \in Nodes, ReapSignal(k) \/ Crash(k) PROVE file' = file
      BY <3>2 DEF ReapSignal, ReaperOnly, Crash, docker
    <3> QED
      BY <3>1, <3>2, StepKinds
  <2> QED
    BY <1>1, <1>2, <1>5, <2>1, ConfigStep DEF Covers
<1> QED
  BY <1>3, <1>4, <1>5 DEF Covers

\* The list an instance works from is empty, old, or just made.
LEMMA SeenStep ==
  ASSUME TypeOK, Next, NEW n \in Nodes
  PROVE  \/ seen[n]' = seen[n]
         \/ seen[n]' = <<>>
         \/ UpdProxies(n) /\ seen[n]' = present
<1>1. UpdateTypeOK
  BY DEF TypeOK
<1>2. ASSUME NEW k \in Nodes, Updater(k)
      PROVE  seen[n]' = seen[n] \/ (UpdProxies(n) /\ seen[n]' = present)
  BY <1>1, <1>2, HandlerResults DEF UpdateTypeOK
<1>3. ASSUME NEW k \in Nodes, ReapSignal(k) \/ Crash(k)
      PROVE  seen[n]' = seen[n] \/ seen[n]' = <<>>
  BY <1>1, <1>3 DEF ReapSignal, ReaperOnly, Crash, UpdateTypeOK
<1> QED
  BY <1>2, <1>3, StepKinds DEF update

\* SavedInv is inductive, given IInv.
LEMMA NextSavedInv == IInv /\ SavedInv /\ [Next]_vars => SavedInv'
<1>1. ASSUME IInv, SavedInv, Next PROVE SavedInv'
  <2>1. TypeOK /\ UpdateTypeOK /\ DockerTypeOK
    BY <1>1 DEF IInv, TypeOK
  <2>2. Members(present) \subseteq Members(present)' /\ Members(present) \subseteq Proxies
    BY <1>1, <2>1, PresentGrows, MembersType DEF DockerTypeOK
  <2>3. Members(<<>>) = {}
    BY DEF Members
  <2>4. ASSUME NEW n \in Nodes
        PROVE  /\ Members(seen[n])' \subseteq Members(present)
               /\ \A p \in Members(seen[n])' : \E k \in Nodes : Covers(k, p)'
    <3>1. CASE seen[n]' = seen[n]
      <4>1. Members(seen[n])' = Members(seen[n])
        BY <3>1 DEF Members
      <4> QED
        BY <1>1, <2>2, <4>1, CoversStep DEF SavedInv, SeenPresent
    <3>2. CASE seen[n]' = <<>>
      <4>1. Members(seen[n])' = {}
        BY <2>3, <3>2 DEF Members
      <4> QED
        BY <4>1
    <3>3. CASE UpdProxies(n) /\ seen[n]' = present
      <4>1. Members(seen[n])' = Members(present)
        BY <3>3 DEF Members
      <4>2. upd[n]' = "save" /\ todo[n]' = Members(present)
        BY <2>1, <3>3 DEF UpdProxies, Enter, UpdateTypeOK
      <4> QED
        BY <4>1, <4>2 DEF Covers
    <3> QED
      BY <1>1, <2>1, <3>1, <3>2, <3>3, SeenStep
  <2> QED
    BY <2>2, <2>4 DEF SavedInv, SeenPresent
<1>2. ASSUME SavedInv, UNCHANGED vars PROVE SavedInv'
  BY <1>2 DEF SavedInv, SeenPresent, Covers, Renews, Requested, Triggers,
     IsExposedContainer, Members, vars, docker, loop, update
<1> QED
  BY <1>1, <1>2

\* An instance at rest renews nothing, and what it generated last is what the
\* containers are now.
LEMMA QuietNode ==
  ASSUME IInv, NEW m \in Nodes, Quiet(m), ~missed[m]
  PROVE  ~Renews(m) /\ upd[m] = "idle" /\ cfg[m] \cap Exposed = Desired
<1>1. Members(stream[m]) = {}
  BY DEF Quiet, Members
<1>2. ~Requested(m) /\ upd[m] = "idle" /\ alive[m]
  BY <1>1 DEF Quiet, Requested
<1>3. NodeInv(m)
  BY DEF IInv
<1>4. \A a \in Exposed : ~Stale(m, a)
  BY <1>2, <1>3 DEF NodeInv, Pending
<1> QED
  BY <1>2, <1>4 DEF Renews, Desired, Stale

\* At rest and without failed calls every proxy that some instance knows has the
\* right file, for any number of instances that copy at the same time, crash and
\* restart: the copy that came last was made by an instance that had seen
\* everything.
THEOREM LoadBalancerQuietMeansSaved == Spec => []QuietMeansSaved
<1>1. Init => SavedInv
  <2> SUFFICES ASSUME Init PROVE SavedInv
    OBVIOUS
  <2>1. \A n \in Nodes : Members(seen[n]) = {}
    BY DEF Init, Members
  <2> QED
    BY <2>1 DEF SavedInv, SeenPresent
<1>2. IInv /\ SavedInv => QuietMeansSaved
  <2> SUFFICES ASSUME IInv, SavedInv, \A n \in Nodes : Quiet(n) /\ ~missed[n],
                      NEW n \in Nodes, NEW p \in Members(seen[n])
               PROVE  file[p] \cap Exposed = Desired
    BY DEF QuietMeansSaved
  <2>1. PICK m \in Nodes : Covers(m, p)
    BY DEF SavedInv
  <2> QED
    BY <2>1, QuietNode DEF Covers
<1> QED
  BY <1>1, <1>2, InitIInv, NextIInv, NextSavedInv, PTL DEF Spec

-----------------------------------------------------------------------------
(* Reachable upstreams                                                     *)

\* SaveConfig works on the listed proxies.
SaveScope == \A m \in Nodes : upd[m] = "save" => todo[m] \subseteq Members(seen[m])

\* Instance m, with an upstream of the overlay network, is on its way to
\* connect proxy p.
WillJoin(m, p) ==
  /\ cfg[m] \cap Overlay # {}
  /\ \/ upd[m] = "save" /\ p \in Members(seen[m])
     \/ upd[m] = "connect" /\ p \in todo[m]

\* Without faults and crashes, a proxy whose file or process has an upstream of
\* the overlay network is connected or about to be.
JoinInv ==
  faults = 0 /\ crashes = 0 =>
    \A p \in Proxies : (file[p] \cup loaded[p]) \cap Overlay # {} =>
      p \in joined \/ \E m \in Nodes : WillJoin(m, p)

\* Copies go to listed proxies only.
LEMMA NextSaveScope == TypeOK /\ SaveScope /\ [Next]_vars => SaveScope'
<1>1. ASSUME TypeOK, SaveScope, Next PROVE SaveScope'
  <2>1. UpdateTypeOK
    BY <1>1 DEF TypeOK
  <2>2. ASSUME NEW k \in Nodes, Updater(k), upd[k]' = "save"
        PROVE  todo[k]' \subseteq Members(seen[k])'
    <3>1. CASE UpdProxies(k)
      <4>1. todo[k]' = Members(present) /\ seen[k]' = present
        BY <2>1, <3>1 DEF UpdProxies, Enter, UpdateTypeOK
      <4> QED
        BY <4>1 DEF Members
    <3>2. CASE ~UpdProxies(k)
      <4>1. seen' = seen /\ upd[k] = "save" /\ todo[k]' \subseteq todo[k]
        BY <2>1, <2>2, <3>2 DEF Updater, UpdCheck, UpdList, UpdSaved, UpdNodes, UpdDone,
           UpdListFails, UpdNodesFails, UpdInspect, UpdInspectGone, UpdInspectFails,
           UpdSave, UpdConnect, UpdReload, UpdProxyFails, Enter, Item, UpdateTypeOK
      <4> QED
        BY <1>1, <4>1 DEF SaveScope, Members
    <3> QED
      BY <3>1, <3>2
  <2>3. ASSUME NEW k \in Nodes, Updater(k), NEW m \in Nodes \ {k}
        PROVE  upd[m]' = upd[m] /\ todo[m]' = todo[m] /\ seen[m]' = seen[m]
    BY <1>1, <2>1, <2>3, HandlerFrame, HandlerResults DEF UpdateTypeOK
  <2>4. ASSUME NEW k \in Nodes, Updater(k) PROVE SaveScope'
    BY <1>1, <2>2, <2>3, <2>4 DEF SaveScope, Members
  <2>5. ASSUME NEW k \in Nodes, ReapSignal(k) \/ Crash(k) PROVE SaveScope'
    <3>1. \A m \in Nodes : upd[m]' = "save" =>
            upd[m] = "save" /\ todo[m]' = todo[m] /\ seen[m]' = seen[m]
      BY <2>1, <2>5 DEF ReapSignal, ReaperOnly, Crash, UpdateTypeOK
    <3> QED
      BY <1>1, <3>1 DEF SaveScope, Members
  <2>6. CASE UNCHANGED update
    BY <1>1, <2>6 DEF SaveScope, Members, update
  <2> QED
    BY <1>1, <2>4, <2>5, <2>6, StepKinds
<1>2. ASSUME SaveScope, UNCHANGED vars PROVE SaveScope'
  BY <1>2 DEF SaveScope, Members, vars, update
<1> QED
  BY <1>1, <1>2

\* Faults and crashes are counted and never forgotten.
LEMMA CountersStep ==
  ASSUME TypeOK, Next
  PROVE  /\ faults' = 0 => faults = 0
         /\ crashes' = 0 => crashes = 0 /\ ~ \E k \in Nodes : Crash(k)
<1>1. faults \in Nat /\ crashes \in Nat
  BY DEF TypeOK, DockerTypeOK
<1>2. ASSUME Environment \/ \E a \in Apps : Settle(a)
      PROVE  faults' = faults /\ crashes' = crashes
  BY <1>2 DEF Environment, StartApp, StopApp, KillApp, EndApp, RemoveApp, ConnectApp,
     DisconnectApp, StartProxy, Change, Settle
<1>3. ASSUME NEW n \in Nodes, EventLoop(n) \/ Age(n) \/ Reaper(n) \/ Restart(n)
      PROVE  faults' \in {faults, faults + 1} /\ crashes' = crashes
  <2>1. CASE EventLoop(n)
    BY <2>1 DEF EventLoop, HandleEvent, PollAgain, PollEnd, CacheSet, InspectFails,
       PollFails, LoopOnly, Fails, docker
  <2>2. CASE Age(n) \/ Reaper(n) \/ Restart(n)
    BY <2>2 DEF Age, Reaper, ReapExpired, ReapDelete, ReapSignal, ReaperOnly, Restart,
       docker
  <2> QED
    BY <1>3, <2>1, <2>2
<1>4. ASSUME NEW n \in Nodes, Updater(n)
      PROVE  faults' \in {faults, faults + 1} /\ crashes' = crashes
  <2>1. CASE UpdCheck(n) \/ UpdList(n) \/ UpdProxies(n) \/ UpdSaved(n) \/ UpdNodes(n) \/ UpdDone(n)
    BY <2>1 DEF UpdCheck, UpdList, UpdProxies, UpdSaved, UpdNodes, UpdDone, docker
  <2>2. CASE UpdListFails(n) \/ \E k \in Nodes : UpdNodesFails(n, k)
    BY <2>2 DEF UpdListFails, UpdNodesFails, Fails
  <2>3. CASE \E a \in Apps : UpdInspect(n, a) \/ UpdInspectGone(n, a) \/ UpdInspectFails(n, a)
    BY <2>3 DEF UpdInspect, UpdInspectGone, UpdInspectFails, Fails, docker
  <2>4. CASE \E p \in Proxies : \/ UpdSave(n, p) \/ UpdConnect(n, p)
                                \/ UpdReload(n, p) \/ UpdProxyFails(n, p)
    BY <2>4 DEF UpdSave, UpdConnect, UpdReload, UpdProxyFails, Fails
  <2> QED
    BY <1>4, <2>1, <2>2, <2>3, <2>4 DEF Updater
<1>5. ASSUME NEW n \in Nodes, Crash(n)
      PROVE  faults' = faults /\ crashes' = crashes + 1
  BY <1>5 DEF Crash
<1>6. faults' \in {faults, faults + 1}
  BY <1>2, <1>3, <1>4, <1>5 DEF Next
<1>7. crashes' = crashes \/ \E k \in Nodes : Crash(k)
  BY <1>2, <1>3, <1>4 DEF Next
<1> QED
  BY <1>1, <1>5, <1>6, <1>7

\* A failing call is counted.
LEMMA FaultCounted ==
  ASSUME TypeOK, NEW n \in Nodes, NEW p \in Proxies, UpdProxyFails(n, p)
  PROVE  faults' # 0
BY DEF UpdProxyFails, Fails, TypeOK, DockerTypeOK

\* A proxy that is to be connected stays so until it is.
LEMMA WillJoinStep ==
  ASSUME TypeOK, Next, faults' = 0, crashes' = 0, NEW m \in Nodes, NEW p \in Proxies,
         WillJoin(m, p)
  PROVE  p \in joined' \/ WillJoin(m, p)'
<1>1. UpdateTypeOK
  BY DEF TypeOK
<1>2. ~Crash(m)
  BY CountersStep
<1>3. CASE Updater(m)
  <2>1. cfg' = cfg /\ seen' = seen
    BY <1>3, HandlerResults DEF WillJoin, UpdProxies, Enter
  <2>2. CASE UpdSaved(m)
    <3>1. upd[m]' = "connect" /\ todo[m]' = Members(seen[m])
      BY <1>1, <2>2 DEF UpdSaved, Enter, UpdateTypeOK
    <3> QED
      BY <2>1, <2>2, <3>1 DEF WillJoin, UpdSaved, Enter
  <2>3. ASSUME NEW q \in Proxies, UpdSave(m, q) PROVE WillJoin(m, p)'
    BY <2>1, <2>3 DEF UpdSave, Item, WillJoin, Members
  <2>4. ASSUME NEW q \in Proxies, UpdConnect(m, q) PROVE p \in joined' \/ WillJoin(m, p)'
    <3>1. /\ upd' = upd /\ upd[m] = "connect" /\ todo[m]' = todo[m] \ {q}
          /\ cfg[m] \cap Overlay # {} => q \in joined'
      BY <1>1, <2>4 DEF UpdConnect, Item, UpdateTypeOK
    <3> QED
      BY <2>1, <3>1 DEF WillJoin
  <2>5. ~ \E q \in Proxies : UpdProxyFails(m, q)
    BY FaultCounted
  <2> QED
    BY <1>3, <2>2, <2>3, <2>4, <2>5 DEF Updater, UpdCheck, UpdList, UpdProxies, UpdNodes,
       UpdDone, UpdListFails, UpdNodesFails, UpdInspect, UpdInspectGone, UpdInspectFails,
       UpdReload, Enter, Item, WillJoin
<1>4. CASE ReapSignal(m)
  BY <1>4 DEF ReapSignal, WillJoin
<1>5. ASSUME NEW k \in Nodes \ {m}, ReapSignal(k) \/ Crash(k) \/ Updater(k)
      PROVE  WillJoin(m, p)'
  <2>1. /\ upd[m]' = upd[m] /\ todo[m]' = todo[m] /\ seen[m]' = seen[m]
        /\ cfg[m]' = cfg[m]
    BY <1>1, <1>5, HandlerFrame, HandlerResults
       DEF ReapSignal, ReaperOnly, Crash, UpdateTypeOK
  <2> QED
    BY <2>1 DEF WillJoin, Members
<1>6. CASE UNCHANGED update
  BY <1>6 DEF update, WillJoin, Members
<1> QED
  BY <1>2, <1>3, <1>4, <1>5, <1>6, StepKinds

\* A proxy gets an upstream of the overlay network from the copy of an instance
\* that will connect it, or from its own file.
LEMMA ServedStep ==
  ASSUME TypeOK, SaveScope, Next, NEW p \in Proxies,
         (file[p] \cup loaded[p])' \cap Overlay # {}
  PROVE  \/ (file[p] \cup loaded[p]) \cap Overlay # {}
         \/ \E m \in Nodes : WillJoin(m, p)'
<1>1. DockerTypeOK /\ UpdateTypeOK
  BY DEF TypeOK
<1>2. ASSUME NEW k \in Nodes, UpdSave(k, p)
      PROVE  \/ (file[p] \cup loaded[p]) \cap Overlay # {}
             \/ WillJoin(k, p)'
  <2>1. /\ file[p]' = cfg[k] /\ loaded' = loaded /\ cfg' = cfg /\ seen' = seen
        /\ upd' = upd /\ upd[k] = "save" /\ p \in todo[k]
    BY <1>1, <1>2 DEF UpdSave, Item, DockerTypeOK
  <2>2. p \in Members(seen[k])
    BY <2>1 DEF SaveScope
  <2> QED
    BY <2>1, <2>2 DEF WillJoin, Members
<1>3. ASSUME ~ \E k \in Nodes : UpdSave(k, p)
      PROVE  file[p]' = file[p] /\ loaded[p]' \in {loaded[p], file[p]}
  <2>1. ASSUME NEW k \in Nodes, NEW q \in Proxies, UpdSave(k, q), q # p
        PROVE  file[p]' = file[p] /\ loaded' = loaded
    BY <1>1, <2>1 DEF UpdSave, DockerTypeOK
  <2>2. ASSUME NEW k \in Nodes, NEW q \in Proxies, UpdReload(k, q)
        PROVE  file' = file /\ loaded[p]' \in {loaded[p], file[p]}
    BY <1>1, <2>2 DEF UpdReload, DockerTypeOK
  <2>3. ASSUME NEW k \in Nodes, Updater(k),
               ~ \E q \in Proxies : UpdSave(k, q) \/ UpdReload(k, q)
        PROVE  file' = file /\ loaded' = loaded
    BY <2>3 DEF Updater, UpdCheck, UpdList, UpdProxies, UpdSaved, UpdNodes, UpdDone,
       UpdListFails, UpdNodesFails, UpdInspect, UpdInspectGone, UpdInspectFails,
       UpdConnect, UpdProxyFails, docker
  <2>4. ASSUME NEW k \in Nodes, ReapSignal(k) \/ Crash(k)
        PROVE  file' = file /\ loaded' = loaded
    BY <2>4 DEF ReapSignal, ReaperOnly, Crash, docker
  <2> QED
    BY <1>3, <2>1, <2>2, <2>3, <2>4, StepKinds
<1> QED
  BY <1>2, <1>3

\* A proxy is never disconnected by anything that happens here.
LEMMA JoinedGrows ==
  ASSUME Next
  PROVE  joined \subseteq joined'
<1>1. ASSUME NEW k \in Nodes, ReapSignal(k) \/ Crash(k) PROVE joined' = joined
  BY <1>1 DEF ReapSignal, ReaperOnly, Crash, docker
<1>2. ASSUME NEW k \in Nodes, Updater(k) PROVE joined \subseteq joined'
  BY <1>2 DEF Updater, UpdCheck, UpdList, UpdProxies, UpdSaved, UpdNodes, UpdDone,
     UpdListFails, UpdNodesFails, UpdInspect, UpdInspectGone, UpdInspectFails,
     UpdSave, UpdConnect, UpdReload, UpdProxyFails, docker
<1> QED
  BY <1>1, <1>2, StepKinds

\* JoinInv is inductive, given the scope of the copies.
LEMMA NextJoinInv == TypeOK /\ SaveScope /\ JoinInv /\ [Next]_vars => JoinInv'
<1>1. ASSUME TypeOK, SaveScope, JoinInv, Next PROVE JoinInv'
  <2> SUFFICES ASSUME faults' = 0, crashes' = 0, NEW p \in Proxies,
                      (file[p] \cup loaded[p])' \cap Overlay # {}
               PROVE  p \in joined' \/ \E m \in Nodes : WillJoin(m, p)'
    BY DEF JoinInv
  <2>1. faults = 0 /\ crashes = 0
    BY <1>1, CountersStep
  <2>2. CASE \E m \in Nodes : WillJoin(m, p)'
    BY <2>2
  <2>3. CASE (file[p] \cup loaded[p]) \cap Overlay # {}
    <3>1. p \in joined \/ \E m \in Nodes : WillJoin(m, p)
      BY <1>1, <2>1, <2>3 DEF JoinInv
    <3> QED
      BY <1>1, <3>1, WillJoinStep, JoinedGrows
  <2> QED
    BY <1>1, <2>2, <2>3, ServedStep
<1>2. ASSUME JoinInv, UNCHANGED vars PROVE JoinInv'
  BY <1>2 DEF JoinInv, WillJoin, Members, vars, docker, update
<1> QED
  BY <1>1, <1>2

\* For any number of instances, whichever of them reloads a proxy: at rest, if no
\* call failed and no instance died, the proxy is connected to the network of
\* every upstream it serves.
THEOREM LoadBalancerQuietMeansReachable == Spec => []QuietMeansReachable
<1>1. Init => TypeOK /\ SaveScope /\ JoinInv
  BY InitTypeOK DEF Init, SaveScope, JoinInv
<1>2. TypeOK /\ JoinInv => QuietMeansReachable
  BY DEF JoinInv, WillJoin, QuietMeansReachable, Quiet
<1> QED
  BY <1>1, <1>2, NextTypeOK, NextSaveScope, NextJoinInv, PTL DEF Spec

-----------------------------------------------------------------------------
(* One instance: what it reloads is what it has copied and connected       *)

\* How far the copies and the connects of the update have come.  The file of
\* a listed proxy is the configuration from its copy to the end of the update,
\* because nobody else writes it; its networks are connected from its connect
\* on; a reload touches listed proxies only.
Prepared(n) ==
  /\ upd[n] \in {"save", "reload"} => todo[n] \subseteq Members(seen[n])
  /\ upd[n] = "save" => \A p \in Members(seen[n]) \ todo[n] : file[p] = cfg[n]
  /\ upd[n] \in {"connect", "reload"} => \A p \in Members(seen[n]) : file[p] = cfg[n]
  /\ cfg[n] \cap Overlay # {} =>
       /\ upd[n] = "connect" => Members(seen[n]) \ todo[n] \subseteq joined
       /\ upd[n] = "reload" => Members(seen[n]) \subseteq joined

ReachableInv(n) == faults = 0 => Prepared(n) /\ ReachableUpstreams

\* The stages of one update, in the order in which loadBalancerReload runs them.
LEMMA PreparedUpdater ==
  ASSUME TypeOK, NEW n \in Nodes, Updater(n), faults' = 0, Prepared(n)
  PROVE  Prepared(n)'
<1>1. UpdateTypeOK /\ DockerTypeOK
  BY DEF TypeOK
<1>2. CASE \/ UpdCheck(n) \/ UpdList(n) \/ UpdDone(n)
           \/ \E a \in Apps : UpdInspect(n, a) \/ UpdInspectGone(n, a)
  <2>1. upd[n]' \notin {"save", "connect", "reload"}
    BY <1>1, <1>2 DEF UpdCheck, UpdList, UpdDone, UpdInspect, UpdInspectGone, Enter, Item,
       UpdateTypeOK
  <2> QED
    BY <2>1 DEF Prepared
<1>3. CASE \/ UpdListFails(n)
           \/ \E k \in Nodes : UpdNodesFails(n, k)
           \/ \E a \in Apps : UpdInspectFails(n, a)
           \/ \E p \in Proxies : UpdProxyFails(n, p)
  <2>1. Fails(n)
    BY <1>3 DEF UpdListFails, UpdNodesFails, UpdInspectFails, UpdProxyFails
  <2> QED
    BY <1>1, <2>1 DEF Fails, DockerTypeOK
<1>4. CASE UpdProxies(n)
  <2>1. upd[n]' = "save" /\ todo[n]' = Members(present) /\ seen[n]' = present
    BY <1>1, <1>4 DEF UpdProxies, Enter, UpdateTypeOK
  <2>2. Members(seen[n])' = todo[n]'
    BY <2>1 DEF Members
  <2> QED
    BY <2>1, <2>2 DEF Prepared
<1>5. ASSUME NEW p \in Proxies, UpdSave(n, p) PROVE Prepared(n)'
  <2>1. /\ upd' = upd /\ cfg' = cfg /\ seen' = seen /\ upd[n] = "save" /\ p \in todo[n]
        /\ todo[n]' = todo[n] \ {p} /\ file' = [file EXCEPT ![p] = cfg[n]]
    BY <1>1, <1>5 DEF UpdSave, Item, UpdateTypeOK
  <2>2. Members(seen[n])' = Members(seen[n]) /\ Members(seen[n]) \subseteq Proxies
    BY <1>1, <2>1, MembersType DEF Members, UpdateTypeOK
  <2>3. \A q \in Members(seen[n]) \ todo[n]' : file[q]' = cfg[n]
    BY <1>1, <2>1, <2>2 DEF Prepared, DockerTypeOK
  <2> QED
    BY <2>1, <2>2, <2>3 DEF Prepared
<1>6. CASE UpdSaved(n)
  <2>1. /\ upd[n] = "save" /\ todo[n] = {} /\ upd[n]' = "connect"
        /\ todo[n]' = Members(seen[n]) /\ UNCHANGED <<file, joined, cfg, seen>>
    BY <1>1, <1>6 DEF UpdSaved, Enter, UpdateTypeOK, docker
  <2>2. Members(seen[n])' = Members(seen[n])
    BY <2>1 DEF Members
  <2> QED
    BY <2>1, <2>2 DEF Prepared
<1>7. ASSUME NEW p \in Proxies, UpdConnect(n, p) PROVE Prepared(n)'
  <2>1. /\ upd' = upd /\ upd[n] = "connect" /\ todo[n]' = todo[n] \ {p}
        /\ UNCHANGED <<file, cfg, seen>> /\ joined \subseteq joined'
        /\ cfg[n] \cap Overlay # {} => p \in joined'
    BY <1>1, <1>7 DEF UpdConnect, Item, UpdateTypeOK
  <2>2. Members(seen[n])' = Members(seen[n])
    BY <2>1 DEF Members
  <2> QED
    BY <2>1, <2>2 DEF Prepared
<1>8. CASE UpdNodes(n)
  <2>1. /\ upd[n] = "connect" /\ todo[n] = {} /\ upd[n]' = "reload"
        /\ todo[n]' = ProxyContainersToRestart(n, NodeSeq, seen[n])
        /\ UNCHANGED <<file, joined, cfg, seen>>
    BY <1>1, <1>8 DEF UpdNodes, Enter, UpdateTypeOK, docker
  <2>2. Members(seen[n])' = Members(seen[n])
    BY <2>1 DEF Members
  <2>3. todo[n]' \subseteq Members(seen[n])
    BY <2>1 DEF ProxyContainersToRestart, Members
  <2> QED
    BY <2>1, <2>2, <2>3 DEF Prepared
<1>9. ASSUME NEW p \in Proxies, UpdReload(n, p) PROVE Prepared(n)'
  <2>1. /\ upd' = upd /\ upd[n] = "reload" /\ todo[n]' = todo[n] \ {p}
        /\ UNCHANGED <<file, joined, cfg, seen>>
    BY <1>1, <1>9 DEF UpdReload, Item, UpdateTypeOK
  <2>2. Members(seen[n])' = Members(seen[n])
    BY <2>1 DEF Members
  <2> QED
    BY <2>1, <2>2 DEF Prepared
<1> QED
  BY <1>2, <1>3, <1>4, <1>5, <1>6, <1>7, <1>8, <1>9 DEF Updater

\* Nobody but the handler of the only instance disturbs an update.
LEMMA PreparedStep ==
  ASSUME TypeOK, NEW n, Nodes = {n}, Next, faults' = 0, Prepared(n)
  PROVE  Prepared(n)'
<1>1. UpdateTypeOK
  BY DEF TypeOK
<1>2. CASE UNCHANGED <<joined, file, loaded, update>>
  BY <1>2 DEF Prepared, Members, update
<1>3. CASE ReapSignal(n) \/ Crash(n)
  <2>1. upd[n]' \notin {"save", "connect", "reload"}
    BY <1>1, <1>3 DEF ReapSignal, Crash, UpdateTypeOK
  <2> QED
    BY <2>1 DEF Prepared
<1>4. CASE Updater(n)
  BY <1>4, PreparedUpdater
<1> QED
  BY <1>2, <1>3, <1>4, StepKinds

\* With one instance, a proxy never serves an upstream in a network it is not
\* connected to, whatever the instance's crashes: the networks are connected
\* before the reload, and the file that is reloaded is the one just copied.
THEOREM LoadBalancerReachableUpstreams ==
  ASSUME NEW n, Nodes = {n}
  PROVE  Spec => []ReachableUpstreams
<1>1. Init => TypeOK /\ ReachableInv(n)
  BY InitTypeOK DEF Init, ReachableInv, Prepared, ReachableUpstreams
<1>2. TypeOK /\ ReachableInv(n) /\ [Next]_vars => ReachableInv(n)'
  <2>1. ASSUME TypeOK, ReachableInv(n), Next PROVE ReachableInv(n)'
    <3> SUFFICES ASSUME faults' = 0
                 PROVE  /\ Prepared(n)'
                        /\ \A p \in Proxies : loaded[p]' \cap Overlay # {} => p \in joined'
      BY DEF ReachableInv, ReachableUpstreams
    <3>1. faults = 0 /\ Prepared(n) /\ ReachableUpstreams /\ DockerTypeOK /\ UpdateTypeOK
      BY <2>1, CountersStep DEF ReachableInv, TypeOK
    <3>2. joined \subseteq joined'
      BY <2>1, JoinedGrows
    <3>3. ASSUME NEW q \in Proxies, UpdReload(n, q), NEW p \in Proxies,
                 loaded[p]' \cap Overlay # {}
          PROVE  p \in joined'
      <4>1. /\ loaded' = [loaded EXCEPT ![q] = file[q]] /\ joined' = joined
            /\ upd[n] = "reload" /\ q \in todo[n]
        BY <3>3 DEF UpdReload, Item
      <4>2. file[q] = cfg[n] /\ (cfg[n] \cap Overlay # {} => q \in joined)
        BY <3>1, <4>1 DEF Prepared
      <4>3. CASE p = q
        BY <3>1, <3>3, <4>1, <4>2, <4>3 DEF DockerTypeOK
      <4>4. CASE p # q
        BY <3>1, <3>3, <4>1, <4>4 DEF DockerTypeOK, ReachableUpstreams
      <4> QED
        BY <4>3, <4>4
    <3>4. loaded' = loaded \/ \E q \in Proxies : UpdReload(n, q)
      <4>1. CASE ReapSignal(n) \/ Crash(n)
        BY <4>1 DEF ReapSignal, ReaperOnly, Crash, docker
      <4>2. CASE Updater(n)
        BY <4>2 DEF Updater, UpdCheck, UpdList, UpdProxies, UpdSaved, UpdNodes, UpdDone,
           UpdListFails, UpdNodesFails, UpdInspect, UpdInspectGone, UpdInspectFails,
           UpdSave, UpdConnect, UpdProxyFails, docker
      <4> QED
        BY <2>1, <4>1, <4>2, StepKinds
    <3> QED
      BY <2>1, <3>1, <3>2, <3>3, <3>4, PreparedStep, Zenon DEF ReachableUpstreams
  <2>2. ASSUME ReachableInv(n), UNCHANGED vars PROVE ReachableInv(n)'
    BY <2>2 DEF ReachableInv, Prepared, ReachableUpstreams, Members, vars, docker, update
  <2> QED
    BY <2>1, <2>2
<1>3. TypeOK /\ ReachableInv(n) => ReachableUpstreams
  BY DEF ReachableInv, ReachableUpstreams
<1> QED
  BY <1>1, <1>2, <1>3, NextTypeOK, PTL DEF Spec

-----------------------------------------------------------------------------
(* One instance: at rest every proxy runs the file it has                  *)

\* A proxy whose file is newer than what it runs exists, and a reload of it is
\* due: in the update under way, or in one that begins with a new list.
ReloadDue(n, p) ==
  /\ p \in Members(present)
  /\ \/ Renews(n)
     \/ upd[n] \in {"save", "connect"} /\ p \in Members(seen[n])
     \/ upd[n] = "reload" /\ p \in todo[n]

ReloadedInv(n) ==
  /\ SeenPresent
  /\ SaveScope
  /\ \A p \in Proxies : loaded[p] = file[p] \/ ReloadDue(n, p)

\* An instance that lists itself alone, or finds no list, reloads every proxy.
LEMMA AloneTakesAll ==
  ASSUME NEW n, NEW proxies, Len(NodeSeq) <= 1
  PROVE  ProxyContainersToRestart(n, NodeSeq, proxies) = Members(proxies)
BY DEF ProxyContainersToRestart, Members

\* A due reload stays due until it is done.
LEMMA ReloadDueStep ==
  ASSUME IInv, NEW n, Nodes = {n}, Len(NodeSeq) <= 1, Next,
         NEW p \in Proxies, ReloadDue(n, p)
  PROVE  ReloadDue(n, p)' \/ loaded[p]' = file[p]'
<1>1. TypeOK /\ UpdateTypeOK /\ DockerTypeOK /\ LoopTypeOK /\ n \in Nodes
  BY DEF IInv, TypeOK
<1>2. p \in Members(present)'
  BY <1>1, PresentGrows DEF ReloadDue
<1>3. CASE Renews(n)
  <2>1. CASE UpdProxies(n)
    <3>1. upd[n]' = "save" /\ seen[n]' = present
      BY <1>1, <2>1 DEF UpdProxies, Enter, UpdateTypeOK
    <3>2. Members(seen[n])' = Members(present)
      BY <3>1 DEF Members
    <3> QED
      BY <1>2, <3>1, <3>2 DEF ReloadDue
  <2> QED
    BY <1>1, <1>2, <1>3, <2>1, RenewsStep DEF ReloadDue
<1>4. CASE ~Renews(n)
  <2>1. \/ upd[n] \in {"save", "connect"} /\ p \in Members(seen[n])
        \/ upd[n] = "reload" /\ p \in todo[n]
    BY <1>4 DEF ReloadDue
  <2>2. CASE UNCHANGED update
    <3>1. Members(seen[n])' = Members(seen[n]) /\ upd[n]' = upd[n] /\ todo[n]' = todo[n]
      BY <2>2 DEF Members, update
    <3> QED
      BY <1>2, <2>1, <3>1 DEF ReloadDue
  <2>3. CASE ReapSignal(n) \/ Crash(n)
    <3>1. Renews(n)'
      BY <1>1, <2>3 DEF ReapSignal, Crash, UpdateTypeOK, LoopTypeOK, Renews
    <3> QED
      BY <1>2, <3>1 DEF ReloadDue
  <2>4. ASSUME NEW q \in Proxies, UpdSave(n, q) \/ UpdConnect(n, q)
        PROVE  ReloadDue(n, p)'
    <3>1. upd' = upd /\ upd[n] \in {"save", "connect"} /\ seen' = seen
      BY <2>4 DEF UpdSave, UpdConnect, Item
    <3>2. Members(seen[n])' = Members(seen[n])
      BY <3>1 DEF Members
    <3> QED
      BY <1>2, <2>1, <3>1, <3>2 DEF ReloadDue
  <2>5. CASE UpdSaved(n)
    <3>1. upd[n] = "save" /\ upd[n]' = "connect" /\ seen' = seen
      BY <1>1, <2>5 DEF UpdSaved, Enter, UpdateTypeOK
    <3>2. Members(seen[n])' = Members(seen[n])
      BY <3>1 DEF Members
    <3> QED
      BY <1>2, <2>1, <3>1, <3>2 DEF ReloadDue
  <2>6. CASE UpdNodes(n)
    <3>1. /\ upd[n] = "connect" /\ upd[n]' = "reload"
          /\ todo[n]' = ProxyContainersToRestart(n, NodeSeq, seen[n])
      BY <1>1, <2>6 DEF UpdNodes, Enter, UpdateTypeOK
    <3>2. todo[n]' = Members(seen[n])
      BY <3>1, AloneTakesAll
    <3> QED
      BY <1>2, <2>1, <3>1, <3>2 DEF ReloadDue
  <2>7. ASSUME NEW q \in Proxies, UpdReload(n, q)
        PROVE  ReloadDue(n, p)' \/ loaded[p]' = file[p]'
    <3>1. /\ upd' = upd /\ upd[n] = "reload" /\ todo[n]' = todo[n] \ {q}
          /\ loaded[q]' = file[q] /\ file' = file
      BY <1>1, <2>7 DEF UpdReload, Item, UpdateTypeOK, DockerTypeOK
    <3> QED
      BY <1>2, <2>1, <3>1 DEF ReloadDue
  <2>8. CASE \E q \in Proxies : UpdProxyFails(n, q)
    <3>1. Renews(n)'
      BY <1>1, <2>8 DEF UpdProxyFails, Fails, LoopTypeOK, Renews
    <3> QED
      BY <1>2, <3>1 DEF ReloadDue
  <2>9. CASE UpdDone(n)
    BY <2>1, <2>9 DEF UpdDone, Enter
  <2>10. ~ \E k \in Nodes : UpdNodesFails(n, k)
    BY DEF UpdNodesFails
  <2>11. ~UpdCheck(n) /\ ~UpdList(n) /\ ~UpdProxies(n) /\ ~UpdListFails(n)
         /\ \A a \in Apps : /\ ~UpdInspect(n, a) /\ ~UpdInspectGone(n, a)
                            /\ ~UpdInspectFails(n, a)
    BY <2>1 DEF UpdCheck, UpdList, UpdProxies, UpdListFails, UpdInspect, UpdInspectGone,
       UpdInspectFails, Enter, Item
  <2>12. Updater(n) => ReloadDue(n, p)' \/ loaded[p]' = file[p]'
    BY <2>4, <2>5, <2>6, <2>7, <2>8, <2>9, <2>10, <2>11 DEF Updater
  <2> QED
    BY <2>2, <2>3, <2>12, StepKinds
<1> QED
  BY <1>3, <1>4

\* A proxy that runs its file gets a new one only from an update that will
\* reload it.
LEMMA SavedIsDue ==
  ASSUME IInv, SeenPresent, SaveScope, NEW n, Nodes = {n}, Next,
         NEW p \in Proxies, loaded[p] = file[p]
  PROVE  ReloadDue(n, p)' \/ loaded[p]' = file[p]'
<1>1. TypeOK /\ DockerTypeOK /\ UpdateTypeOK
  BY DEF IInv, TypeOK
<1>2. CASE UNCHANGED <<joined, file, loaded, update>>
  BY <1>2
<1>3. CASE ReapSignal(n) \/ Crash(n)
  BY <1>3 DEF ReapSignal, ReaperOnly, Crash, docker
<1>4. CASE UpdSave(n, p)
  <2>1. /\ upd' = upd /\ seen' = seen /\ present' = present /\ upd[n] = "save"
        /\ p \in todo[n]
    BY <1>4 DEF UpdSave, Item
  <2>2. p \in Members(seen[n]) /\ p \in Members(present)
    BY <2>1 DEF SaveScope, SeenPresent
  <2>3. Members(seen[n])' = Members(seen[n]) /\ Members(present)' = Members(present)
    BY <2>1 DEF Members
  <2> QED
    BY <2>1, <2>2, <2>3 DEF ReloadDue
<1>5. ASSUME NEW q \in Proxies, UpdSave(n, q), q # p
      PROVE  loaded[p]' = file[p]'
  BY <1>1, <1>5 DEF UpdSave, DockerTypeOK
<1>6. ASSUME NEW q \in Proxies, UpdReload(n, q)
      PROVE  loaded[p]' = file[p]'
  BY <1>1, <1>6 DEF UpdReload, DockerTypeOK
<1>7. CASE Updater(n) /\ ~ \E q \in Proxies : UpdSave(n, q) \/ UpdReload(n, q)
  BY <1>7 DEF Updater, UpdCheck, UpdList, UpdProxies, UpdSaved, UpdNodes, UpdDone,
     UpdListFails, UpdNodesFails, UpdInspect, UpdInspectGone, UpdInspectFails,
     UpdConnect, UpdProxyFails, docker
<1> QED
  BY <1>2, <1>3, <1>4, <1>5, <1>6, <1>7, StepKinds

\* ReloadedInv is inductive for a single instance.
LEMMA NextReloadedInv ==
  ASSUME NEW n, Nodes = {n}, Len(NodeSeq) <= 1
  PROVE  IInv /\ SavedInv /\ ReloadedInv(n) /\ [Next]_vars => ReloadedInv(n)'
<1>1. ASSUME IInv, SavedInv, ReloadedInv(n), Next PROVE ReloadedInv(n)'
  <2>1. SeenPresent'
    BY <1>1, NextSavedInv DEF SavedInv
  <2>2. SaveScope'
    BY <1>1, NextSaveScope DEF IInv, ReloadedInv
  <2>3. ASSUME NEW p \in Proxies PROVE loaded[p]' = file[p]' \/ ReloadDue(n, p)'
    BY <1>1, ReloadDueStep, SavedIsDue DEF ReloadedInv
  <2> QED
    BY <2>1, <2>2, <2>3 DEF ReloadedInv
<1>2. ASSUME ReloadedInv(n), UNCHANGED vars PROVE ReloadedInv(n)'
  BY <1>2, SMTT(30) DEF ReloadedInv, SeenPresent, SaveScope, ReloadDue, Renews, Requested,
     Triggers, IsExposedContainer, Members, vars, docker, loop, update
<1> QED
  BY <1>1, <1>2

\* The initial states: nothing has been listed, copied or reloaded.
LEMMA InitReloadedInv ==
  ASSUME NEW n, Nodes = {n}
  PROVE  Init => SavedInv /\ ReloadedInv(n)
<1> SUFFICES ASSUME Init PROVE SavedInv /\ ReloadedInv(n)
  OBVIOUS
<1>1. \A m \in Nodes : Members(seen[m]) = {}
  BY DEF Init, Members
<1> QED
  BY <1>1 DEF Init, SavedInv, ReloadedInv, SeenPresent, SaveScope

\* At rest the reloads have caught up with the copies.
LEMMA QuietReloaded ==
  ASSUME IInv, NEW n, Nodes = {n}, ReloadedInv(n), Quiet(n), ~missed[n],
         NEW p \in Proxies
  PROVE  loaded[p] = file[p]
BY QuietNode DEF ReloadedInv, ReloadDue

\* With one instance and without failed calls no proxy is left at rest with a
\* file it has not been told to load, whatever crashed or was merged in between.
\* (With two instances this is false: the run lb_two_instances.)
THEOREM LoadBalancerQuietMeansReloaded ==
  ASSUME NEW n, Nodes = {n}, Len(NodeSeq) <= 1
  PROVE  Spec => []QuietMeansReloaded
<1>1. IInv /\ ReloadedInv(n) => QuietMeansReloaded
  <2> SUFFICES ASSUME IInv, ReloadedInv(n), \A m \in Nodes : Quiet(m) /\ ~missed[m],
                      NEW p \in Members(present)
               PROVE  loaded[p] = file[p]
    BY DEF QuietMeansReloaded
  <2>1. p \in Proxies
    BY MembersType DEF IInv, TypeOK, DockerTypeOK
  <2> QED
    BY <2>1, QuietReloaded
<1> QED
  BY <1>1, InitIInv, NextIInv, NextSavedInv, InitReloadedInv, NextReloadedInv, PTL DEF Spec

\* The instance has listed every proxy or will list again.
ListedInv(n) == Renews(n) \/ seen[n] = present

\* Interlock keeps its promise: with one instance, no failed call at rest and the
\* proxies that were there when it started, every proxy serves exactly the
\* exposed containers that run and can be reached.  (A proxy started later is
\* ignored until the next change: its start event asks for nothing.)
THEOREM LoadBalancerQuietMeansCurrent ==
  ASSUME NEW n, Nodes = {n}, Len(NodeSeq) <= 1,
         "proxy" \notin Ops
  PROVE  Spec => []QuietMeansCurrent
<1>1. Init => ListedInv(n)
  <2> SUFFICES ASSUME Init PROVE Requested(n)
    BY DEF ListedInv, Renews
  <2>1. Triggers(Event("interlock-start", NoContainer))
    BY DEF Triggers, Event
  <2>2. stream[n] = <<Event("interlock-start", NoContainer)>>
    BY DEF Init
  <2>3. Event("interlock-start", NoContainer) \in Members(stream[n])
    BY <2>2, TupleMembers
  <2> QED
    BY <2>1, <2>3 DEF Requested
<1>2. IInv /\ ListedInv(n) /\ [Next]_vars => ListedInv(n)'
  <2>1. ASSUME IInv, ListedInv(n), Next PROVE ListedInv(n)'
    <3>1. TypeOK /\ UpdateTypeOK /\ LoopTypeOK /\ n \in Nodes
      BY <2>1 DEF IInv, TypeOK
    <3>2. present' = present
      <4>1. ~ \E p \in Proxies : StartProxy(p)
        BY DEF StartProxy, Change
      <4>2. ASSUME ReapSignal(n) \/ Crash(n) \/ Updater(n) PROVE present' = present
        BY <4>2 DEF ReapSignal, ReaperOnly, Crash, Updater, UpdCheck, UpdList, UpdProxies,
           UpdSaved, UpdNodes, UpdDone, UpdListFails, UpdNodesFails, UpdInspect,
           UpdInspectGone, UpdInspectFails, UpdSave, UpdConnect, UpdReload,
           UpdProxyFails, docker
      <4> QED
        BY <2>1, <4>1, <4>2, StepKinds
    <3>3. CASE Renews(n)
      <4>1. UpdProxies(n) => seen[n]' = present
        BY <3>1 DEF UpdProxies, UpdateTypeOK
      <4> QED
        BY <2>1, <3>1, <3>2, <3>3, <4>1, RenewsStep DEF ListedInv
    <3>4. CASE seen[n] = present
      <4>1. Crash(n) => Renews(n)'
        BY <3>1 DEF Crash, LoopTypeOK, Renews
      <4>2. Crash(n) \/ seen[n]' = seen[n] \/ seen[n]' = present
        <5>1. CASE ReapSignal(n) \/ Updater(n)
          BY <3>1, <5>1, HandlerResults DEF ReapSignal, ReaperOnly, UpdateTypeOK
        <5> QED
          BY <2>1, <5>1, StepKinds DEF update
      <4> QED
        BY <3>2, <3>4, <4>1, <4>2 DEF ListedInv
    <3> QED
      BY <2>1, <3>3, <3>4 DEF ListedInv
  <2>2. ASSUME ListedInv(n), UNCHANGED vars PROVE ListedInv(n)'
    BY <2>2 DEF ListedInv, Renews, Requested, Triggers, IsExposedContainer, Members,
       vars, docker, loop, update
  <2> QED
    BY <2>1, <2>2
<1>3. IInv /\ SavedInv /\ ReloadedInv(n) /\ ListedInv(n) => QuietMeansCurrent
  <2> SUFFICES ASSUME IInv, SavedInv, ReloadedInv(n), ListedInv(n), NEW p \in Members(present),
                      \A m \in Nodes : Quiet(m) /\ ~missed[m]
               PROVE  loaded[p] \cap Exposed = Desired
    BY DEF QuietMeansCurrent
  <2>1. p \in Proxies
    BY MembersType DEF IInv, TypeOK, DockerTypeOK
  <2>2. ~Renews(n) /\ upd[n] = "idle" /\ cfg[n] \cap Exposed = Desired
    BY QuietNode
  <2>3. p \in Members(seen[n])
    BY <2>2 DEF ListedInv
  <2>4. file[p] = cfg[n]
    BY <2>2, <2>3 DEF SavedInv, Covers
  <2>5. loaded[p] = file[p]
    BY <2>1, QuietReloaded
  <2> QED
    BY <2>2, <2>4, <2>5
<1> QED
  BY <1>1, <1>2, <1>3, InitIInv, NextIInv, NextSavedInv, InitReloadedInv, NextReloadedInv, PTL
     DEF Spec
=============================================================================
