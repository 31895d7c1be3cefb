---------------------------- MODULE BeaconProofs ----------------------------
(***************************************************************************)
(* Invariants of Beacon for every set of containers, rules and bounds: its *)
(* types, what the map of monitored containers is worth once the events    *)
(* are handled, and what resetStats leaves behind.                         *)
(***************************************************************************)
EXTENDS Beacon, SequenceTheorems, TLAPS

OwnKinds == {"interlock-start", "interlock-restart"}

Kinds == {"start", "kill", "die", "stop", "destroy"}

\* Events about a container, and those that the server makes up.
Events == [kind : Kinds, id : Containers] \cup [kind : OwnKinds]

\* The types, with those of the events that HandleEvent reads.
BeaconInv == TypeOK /\ stream \in Seq(Events)

\* The kinds that an operation of a user leads to make events.
LEMMA EventsOfChange ==
  ASSUME NEW c \in Containers, NEW kinds \in Seq(Kinds)
  PROVE  /\ [j \in 1 .. Len(kinds) |-> Event(kinds[j], c)] \in Seq(Events)
         /\ Len([j \in 1 .. Len(kinds) |-> Event(kinds[j], c)]) = Len(kinds)
<1>1. Len(kinds) \in Nat /\ \A j \in 1 .. Len(kinds) : kinds[j] \in Kinds
  BY LenProperties, ElementOfSeq
<1>2. \A j \in 1 .. Len(kinds) : Event(kinds[j], c) \in Events
  BY <1>1 DEF Event, Events
<1> QED
  BY <1>1, <1>2, IsASeq, LenProperties

\* The first event has a known kind, and a container if it is about one.
LEMMA HeadOfStream ==
  ASSUME stream \in Seq(Events), stream # <<>>
  PROVE  /\ Head(stream) \in Events /\ Tail(stream) \in Seq(Events)
         /\ Head(stream).kind \in Kinds \cup OwnKinds
         /\ Head(stream).kind \in Kinds => Head(stream).id \in Containers
<1>1. Head(stream) \in Events /\ Tail(stream) \in Seq(Events)
  BY HeadTailProperties
<1>2. CASE Head(stream) \in [kind : Kinds, id : Containers]
  BY <1>1, <1>2
<1>3. CASE Head(stream) \in [kind : OwnKinds]
  BY <1>1, <1>3 DEF OwnKinds, Kinds
<1> QED
  BY <1>1, <1>2, <1>3 DEF Events

\* The server's first event is one that HandleEvent knows.
LEMMA StreamOfStart == \A mode : InterlockStart(mode) \in Seq(Events)
<1>1. [kind |-> "interlock-start"] \in Events
  BY DEF Events, OwnKinds
<1> QED
  BY <1>1 DEF InterlockStart

\* The beacon starts with nothing but the server's first event.
LEMMA InitInv == Init => BeaconInv
<1> SUFFICES ASSUME Init PROVE BeaconInv
  OBVIOUS
<1>1. stream \in Seq(Events)
  BY StreamOfStart DEF Init
<1>2. db \in BOOLEAN /\ asked \in BOOLEAN
  BY Zenon DEF Init
<1>3. TypeOK
  BY <1>2 DEF Init, TypeOK, NoCollectors, Stages
<1> QED
  BY <1>1, <1>3 DEF BeaconInv

\* An operation of a user adds its events to the stream.
LEMMA ChangeInv ==
  ASSUME BeaconInv, NEW c \in Containers, NEW op, NEW from,
         NEW to \in {"new", "running", "stopped", "removed"}, NEW kinds \in Seq(Kinds),
         Change(c, op, from, to, kinds)
  PROVE  BeaconInv'
<1>1. stream' \in Seq(Events)
  <2>1. stream \o [j \in 1 .. Len(kinds) |-> Event(kinds[j], c)] \in Seq(Events)
    BY EventsOfChange, ConcatProperties DEF BeaconInv
  <2> QED
    BY <2>1 DEF Change, BeaconInv
<1>2. /\ ctr' \in [Containers -> {"new", "running", "stopped", "removed"}]
      /\ UNCHANGED <<db, monitored, setting, hashed, listing, shown, ticker, col, zero>>
  BY DEF Change, BeaconInv, TypeOK
<1> QED
  BY <1>1, <1>2 DEF BeaconInv, TypeOK, shown, listing

\* Each operation is a Change whose last event says how the container is left.
LEMMA UserStep ==
  ASSUME NEW c \in Containers, Start(c) \/ Stop(c) \/ Remove(c) \/ Signal(c)
  PROVE  \E op, from :
           \E to \in {"new", "running", "stopped", "removed"}, kinds \in Seq(Kinds) :
             /\ Change(c, op, from, to, kinds)
             /\ Len(kinds) > 0
             /\ to = "running" /\ op # "signal" => kinds[Len(kinds)] = "start"
             /\ to # "running" => kinds[Len(kinds)] \in Ends
<1>1. CASE Start(c)
  <2> DEFINE ks == <<"start">>
  <2>1. ks \in Seq(Kinds) /\ Len(ks) = 1 /\ ks[1] = "start"
    BY DEF Kinds, Ends
  <2>2. Change(c, "start", {"new", "stopped"}, "running", ks)
    BY <1>1 DEF Start
  <2> HIDE DEF ks
  <2>3. /\ Change(c, "start", {"new", "stopped"}, "running", ks)
        /\ Len(ks) > 0
        /\ "running" = "running" /\ "start" # "signal" => ks[Len(ks)] = "start"
        /\ "running" # "running" => ks[Len(ks)] \in Ends
    BY <2>1, <2>2
  <2> USE <2>1
  <2> WITNESS "start", {"new", "stopped"}
  <2> WITNESS "running" \in {"new", "running", "stopped", "removed"}, ks \in Seq(Kinds)
  <2> QED
    BY <2>3
<1>2. CASE Stop(c)
  <2> DEFINE ks == <<"kill", "die", "stop">>
  <2>1. ks \in Seq(Kinds) /\ Len(ks) = 3 /\ ks[3] \in Ends
    BY DEF Kinds, Ends
  <2>2. Change(c, "stop", {"running"}, "stopped", ks)
    BY <1>2 DEF Stop
  <2> HIDE DEF ks
  <2>3. /\ Change(c, "stop", {"running"}, "stopped", ks)
        /\ Len(ks) > 0
        /\ "stopped" = "running" /\ "stop" # "signal" => ks[Len(ks)] = "start"
        /\ "stopped" # "running" => ks[Len(ks)] \in Ends
    BY <2>1, <2>2
  <2> USE <2>1
  <2> WITNESS "stop", {"running"}
  <2> WITNESS "stopped" \in {"new", "running", "stopped", "removed"}, ks \in Seq(Kinds)
  <2> QED
    BY <2>3
<1>3. CASE Remove(c)
  <2> DEFINE ks == <<"destroy">>
  <2>1. ks \in Seq(Kinds) /\ Len(ks) = 1 /\ ks[1] \in Ends
    BY DEF Kinds, Ends
  <2>2. Change(c, "remove", {"stopped"}, "removed", ks)
    BY <1>3 DEF Remove
  <2> HIDE DEF ks
  <2>3. /\ Change(c, "remove", {"stopped"}, "removed", ks)
        /\ Len(ks) > 0
        /\ "removed" = "running" /\ "remove" # "signal" => ks[Len(ks)] = "start"
        /\ "removed" # "running" => ks[Len(ks)] \in Ends
    BY <2>1, <2>2
  <2> USE <2>1
  <2> WITNESS "remove", {"stopped"}
  <2> WITNESS "removed" \in {"new", "running", "stopped", "removed"}, ks \in Seq(Kinds)
  <2> QED
    BY <2>3
<1>4. CASE Signal(c)
  <2> DEFINE ks == <<"kill">>
  <2>1. ks \in Seq(Kinds) /\ Len(ks) = 1
    BY DEF Kinds, Ends
  <2>2. Change(c, "signal", {"running"}, "running", ks)
    BY <1>4 DEF Signal
  <2> HIDE DEF ks
  <2>3. /\ Change(c, "signal", {"running"}, "running", ks)
        /\ Len(ks) > 0
        /\ "running" = "running" /\ "signal" # "signal" => ks[Len(ks)] = "start"
        /\ "running" # "running" => ks[Len(ks)] \in Ends
    BY <2>1, <2>2
  <2> USE <2>1
  <2> WITNESS "signal", {"running"}
  <2> WITNESS "running" \in {"new", "running", "stopped", "removed"}, ks \in Seq(Kinds)
  <2> QED
    BY <2>3
<1> QED
  BY <1>1, <1>2, <1>3, <1>4

\* The event loop keeps to containers.
LEMMA HandlingInv ==
  ASSUME BeaconInv, DropDatabase \/ Poll \/ HandleEvent \/ ListFails \/ Resubscribe
  PROVE  BeaconInv'
<1>1. CASE DropDatabase
  <2>1. db' \in BOOLEAN
    BY <1>1, Zenon DEF DropDatabase
  <2> QED
    BY <1>1, <2>1 DEF DropDatabase, BeaconInv, TypeOK, proc, shown, listing
<1>2. CASE Poll
  <2>1. [kind |-> "interlock-restart"] \in Events
    BY DEF Events, OwnKinds
  <2>2. stream' \in Seq(Events) /\ hashed' \subseteq SUBSET Containers
    BY <1>2, <2>1 DEF Poll, Running
  <2> QED
    BY <1>2, <2>2 DEF Poll, BeaconInv, TypeOK, world, shown, listing
<1>3. CASE HandleEvent
  <2>1. stream \in Seq(Events) /\ stream # <<>>
    BY <1>3 DEF HandleEvent, BeaconInv
  <2>2. MonitoredAfter(Head(stream)) \subseteq Containers
    BY <2>1, HeadOfStream DEF MonitoredAfter, BeaconInv, TypeOK, Running, Kinds
  <2>3. stream' \in Seq(Events) /\ monitored' \subseteq Containers
    BY <1>3, <2>1, <2>2, HeadOfStream DEF HandleEvent
  <2>4. gauges' \subseteq Containers
    BY <1>3 DEF HandleEvent, ResetStats, BeaconInv, TypeOK
  <2>5. UNCHANGED <<world, setting, hashed, asked, pushed, recorded, ticker, col, zero>>
    BY <1>3 DEF HandleEvent
  <2>6. unlisted' \subseteq Containers
    BY <1>3 DEF HandleEvent, UnlistedAfter, BeaconInv, TypeOK
  <2> QED
    BY <2>3, <2>4, <2>5, <2>6 DEF BeaconInv, TypeOK, world
<1>4. CASE ListFails
  <2>1. asked' \in BOOLEAN
    BY <1>4, Zenon DEF ListFails, BeaconInv, TypeOK
  <2>2. stream' \in Seq(Events)
    BY <1>4, HeadOfStream DEF ListFails, BeaconInv
  <2> QED
    BY <1>4, <2>1, <2>2 DEF ListFails, BeaconInv, TypeOK, world, shown, Running
<1>5. CASE Resubscribe
  <2>1. asked' \in BOOLEAN
    BY <1>5, Zenon DEF Resubscribe
  <2>2. stream' \in Seq(Events)
    BY <1>5, StreamOfStart, ConcatProperties DEF Resubscribe, BeaconInv
  <2> QED
    BY <1>5, <2>1, <2>2 DEF Resubscribe, BeaconInv, TypeOK, world, shown
<1> QED
  BY <1>1, <1>2, <1>3, <1>4, <1>5

\* wg.Wait: collectors run only between Iterate and TickEnd.
LEMMA TickerInv ==
  ASSUME BeaconInv, Tick \/ Iterate \/ MapRace \/ TickEnd \/ Push \/ PushFails
  PROVE  BeaconInv'
<1> USE DEF BeaconInv, TypeOK, world, proc, listing, shown
<1>1. CASE Tick
  BY <1>1 DEF Tick
<1>2. CASE Iterate
  BY <1>2 DEF Iterate, Stages
<1>3. CASE MapRace
  <2>1. asked' \in BOOLEAN
    BY <1>3, Zenon DEF MapRace
  <2>2. stream' \in Seq(Events)
    BY <1>3, StreamOfStart DEF MapRace
  <2> QED
    BY <1>3, <2>1, <2>2 DEF MapRace, NoCollectors, Stages
<1>4. CASE TickEnd
  BY <1>4 DEF TickEnd
<1>5. CASE Push
  BY <1>5 DEF Push
<1>6. CASE PushFails
  BY <1>6 DEF PushFails
<1> QED
  BY <1>1, <1>2, <1>3, <1>4, <1>5, <1>6

\* A step of a collector is taken while the ticker waits, and leads to a stage.
LEMMA CollectorInv ==
  ASSUME BeaconInv, NEW c \in Containers, Collector(c) \/ CallFails(c)
  PROVE  BeaconInv'
<1>1. col[c] # "none"
  BY DEF Collector, Inspect, Stats, SendContainerStats, SendPrometheus, SendInfluxDB,
     NewInfluxDBClient, CreateDatabase, WriteTotals, WritePoints, CallFails
<1>2. ticker = "wait"
  BY <1>1 DEF BeaconInv, TypeOK, NoCollectors
<1>3. db' \in BOOLEAN
  <2>1. CASE CreateDatabase(c)
    BY <2>1, Zenon DEF CreateDatabase
  <2>2. CASE ~CreateDatabase(c)
    BY <2>2 DEF Collector, Inspect, Stats, SendContainerStats, SendPrometheus,
       SendInfluxDB, NewInfluxDBClient, WriteTotals, WritePoints, CallFails, world,
       BeaconInv, TypeOK
  <2> QED
    BY <2>1, <2>2
<1>4. setting.backend \in Stages
  BY BeaconAssumption DEF BeaconInv, TypeOK, Settings, Stages
<1> QED
  BY <1>2, <1>3, <1>4 DEF Collector, Inspect, Stats, SendContainerStats, SendPrometheus,
     SendInfluxDB, NewInfluxDBClient, CreateDatabase, WriteTotals, WritePoints, CallFails,
     Goto, BeaconInv, TypeOK, world, proc, listing, shown, Stages

\* The invariant is inductive.
LEMMA NextInv == BeaconInv /\ [Next]_vars => BeaconInv'
<1>1. ASSUME BeaconInv, NEW c \in Containers, Start(c) \/ Stop(c) \/ Remove(c) \/ Signal(c)
      PROVE  BeaconInv'
  BY <1>1, UserStep, ChangeInv
<1>2. ASSUME BeaconInv, Next PROVE BeaconInv'
  BY <1>1, <1>2, HandlingInv, TickerInv, CollectorInv DEF Next
<1>3. ASSUME BeaconInv, UNCHANGED vars PROVE BeaconInv'
  BY <1>3 DEF BeaconInv, TypeOK, vars, world, proc, listing, shown
<1> QED
  BY <1>2, <1>3

\* Every reachable state of the beacon is well typed; in particular no collector
\* outlives the tick that started it, because of wg.Wait.
THEOREM BeaconTypeOK == Spec => []TypeOK
<1>1. BeaconInv => TypeOK
  BY DEF BeaconInv
<1> QED
  BY <1>1, InitInv, NextInv, PTL DEF Spec

-----------------------------------------------------------------------------
(* What resetStats leaves behind                                           *)

(***************************************************************************)
(* A collector can only bring back the values of its own container, so it  *)
(* has to be known that a container under collection is monitored or was   *)
(* when its end was handled.                                               *)
(***************************************************************************)
InFlight == {c \in Containers : col[c] # "none"}

LeftoverInv ==
  /\ gauges \subseteq monitored \cup late
  /\ InFlight \subseteq monitored \cup late

\* Every step keeps the values accounted for.
LEMMA LeftoverStep ==
  ASSUME BeaconInv, LeftoverInv, [Next]_vars
  PROVE  LeftoverInv'
<1> USE DEF LeftoverInv, InFlight
<1>1. CASE UNCHANGED <<gauges, monitored, late, col>>
  BY <1>1
<1>2. ASSUME NEW c \in Containers, Start(c) \/ Stop(c) \/ Remove(c) \/ Signal(c)
      PROVE  LeftoverInv'
  BY <1>1, <1>2 DEF Start, Stop, Remove, Signal, Change, shown
<1>3. CASE \/ DropDatabase \/ Poll \/ ListFails \/ Resubscribe
           \/ Tick \/ TickEnd \/ Push \/ PushFails
  BY <1>1, <1>3 DEF DropDatabase, Poll, ListFails, Resubscribe, Tick, TickEnd, Push, PushFails, proc, shown
<1>4. CASE HandleEvent
  <2>1. stream # <<>> /\ stream \in Seq(Events)
    BY <1>4 DEF HandleEvent, BeaconInv
  <2> DEFINE e == Head(stream)
  <2>2. /\ e.kind \in Kinds \cup OwnKinds
        /\ e.kind \in Kinds => e.id \in Containers
    BY <2>1, HeadOfStream
  <2>3. /\ monitored' = MonitoredAfter(e)
        /\ gauges' = IF e.kind \in Ends THEN {} ELSE gauges
        /\ late' = IF e.kind \in Ends THEN {c \in late \cup {e.id} : col[c] # "none"}
                   ELSE late
        /\ col' = col
    BY <1>4 DEF HandleEvent, ResetStats
  <2> HIDE DEF e
  <2>4. CASE e.kind \in Ends
    BY <2>2, <2>3, <2>4 DEF MonitoredAfter, Ends, BeaconInv, TypeOK
  <2>5. CASE e.kind \notin Ends
    <3>1. monitored \subseteq monitored'
      BY <2>2, <2>3, <2>5 DEF MonitoredAfter, Kinds, OwnKinds
    <3> QED
      BY <2>3, <2>5, <3>1
  <2> QED
    BY <2>4, <2>5
<1>5. CASE Iterate
  BY <1>5 DEF Iterate, proc, shown
<1>6. CASE MapRace
  BY <1>6 DEF MapRace, NoCollectors
<1>7. ASSUME NEW c \in Containers, Collector(c) \/ CallFails(c) PROVE LeftoverInv'
  <2>1. /\ c \in InFlight
        /\ UNCHANGED <<monitored, late>>
        /\ gauges' \subseteq gauges \cup {c}
        /\ \E to : col' = [col EXCEPT ![c] = to]
    BY <1>7 DEF Collector, Inspect, Stats, SendContainerStats, SendPrometheus,
       SendInfluxDB, NewInfluxDBClient, CreateDatabase, WriteTotals, WritePoints,
       CallFails, Goto, proc, shown
  <2>2. InFlight' \subseteq InFlight
    BY <2>1 DEF BeaconInv, TypeOK
  <2> QED
    BY <2>1, <2>2
<1>8. CASE UNCHANGED vars
  BY <1>1, <1>8 DEF vars, proc, shown
<1> QED
  BY <1>2, <1>3, <1>4, <1>5, <1>6, <1>7, <1>8 DEF Next

\* resetStats leaves nothing behind for good: for any containers and rules, values
\* of a container that is not monitored were brought back by a collector that was
\* under way when the end of the container was handled.
THEOREM BeaconLeftoverWasInFlight == Spec => []LeftoverWasInFlight
<1>1. Init => LeftoverInv
  BY DEF Init, LeftoverInv, InFlight, NoCollectors
<1>2. BeaconInv /\ LeftoverInv /\ [Next]_vars => LeftoverInv'
  BY LeftoverStep
<1>3. LeftoverInv => LeftoverWasInFlight
  BY DEF LeftoverInv, LeftoverWasInFlight
<1> QED
  BY <1>1, <1>2, <1>3, InitInv, NextInv, PTL DEF Spec

-----------------------------------------------------------------------------
(* The map of monitored containers                                         *)

(***************************************************************************)
(* MonitorsRunning is about an empty stream.  The invariant says what a    *)
(* stream with events in it will lead to: the last event about a container *)
(* decides.  A container that no event is about is monitored only if it    *)
(* runs, and is monitored if it runs once no list is to come any more.     *)
(***************************************************************************)
About(e, c) == e.kind \in Kinds /\ e.id = c

Latest(j, c) ==
  About(stream[j], c) /\ \A m \in j + 1 .. Len(stream) : ~About(stream[m], c)

\* The kind of the last event about a container agrees with its state.
Decides(k, c) ==
  /\ ctr[c] = "running" /\ c \notin signalled => k = "start"
  /\ ctr[c] # "running" => k \in Ends

\* Nothing on the stream is about a container.
Untold(c) == \A j \in 1 .. Len(stream) : ~About(stream[j], c)

\* No list is to come.
Listed == \A j \in 1 .. Len(stream) : stream[j].kind # "interlock-start"

NotEnded(c) == c \in monitored => ctr[c] = "running"

Found(c) ==
  ctr[c] = "running" /\ c \notin signalled /\ c \notin unlisted => c \in monitored

StreamInv ==
  setting.mode = "stream" =>
    \A c \in Containers :
      /\ \A j \in 1 .. Len(stream) : Latest(j, c) => Decides(stream[j].kind, c)
      /\ Untold(c) => NotEnded(c)
      /\ Untold(c) /\ Listed => Found(c)

\* At first interlock-start is the only event, and nothing is monitored.
LEMMA StreamInvInit == Init => StreamInv
<1> SUFFICES ASSUME Init, setting.mode = "stream" PROVE StreamInv
  BY DEF StreamInv
<1>1. stream = <<[kind |-> "interlock-start"]>> /\ monitored = {}
  BY DEF Init, InterlockStart
<1>2. Len(stream) = 1 /\ stream[1].kind = "interlock-start"
  BY <1>1
<1>3. ~Listed /\ \A c : ~About(stream[1], c)
  BY <1>2 DEF Listed, About, Kinds
<1> QED
  BY <1>1, <1>2, <1>3 DEF StreamInv, Latest, NotEnded

\* An operation of a user adds events about one container, of which the last
\* agrees with what it has become.
LEMMA ChangeStreamInv ==
  ASSUME BeaconInv, StreamInv, NEW c \in Containers, NEW op, NEW from, NEW to,
         NEW kinds \in Seq(Kinds), Change(c, op, from, to, kinds),
         Len(kinds) > 0,
         to = "running" /\ op # "signal" => kinds[Len(kinds)] = "start",
         to # "running" => kinds[Len(kinds)] \in Ends
  PROVE  StreamInv'
<1> SUFFICES ASSUME setting.mode = "stream" PROVE StreamInv'
  BY DEF StreamInv, Change
<1> DEFINE new == [j \in 1 .. Len(kinds) |-> Event(kinds[j], c)]
<1>1. /\ stream \in Seq(Events) /\ Len(stream) \in Nat /\ Len(kinds) \in Nat
      /\ new \in Seq(Events) /\ Len(new) = Len(kinds)
  BY EventsOfChange, LenProperties DEF BeaconInv
<1>2. /\ \A j \in 1 .. Len(kinds) : new[j].kind = kinds[j] /\ About(new[j], c)
      /\ \A j \in 1 .. Len(kinds), d \in Containers : d # c => ~About(new[j], d)
  <2>1. \A j \in 1 .. Len(kinds) :
          kinds[j] \in Kinds /\ new[j].kind = kinds[j] /\ new[j].id = c
    BY ElementOfSeq DEF Event
  <2> HIDE DEF new
  <2> QED
    BY <2>1 DEF About, Kinds
<1>3. stream' = stream \o new /\ UNCHANGED <<monitored, unlisted>>
  BY DEF Change, listing
<1> HIDE DEF new
<1>4. /\ Len(stream') = Len(stream) + Len(new)
      /\ \A j \in 1 .. Len(stream) : stream'[j] = stream[j]
      /\ \A j \in Len(stream) + 1 .. Len(stream') : stream'[j] = new[j - Len(stream)]
  <2>1. /\ Len(stream \o new) = Len(stream) + Len(new)
        /\ \A j \in 1 .. Len(stream) + Len(new) :
             (stream \o new)[j] = IF j <= Len(stream) THEN stream[j] ELSE new[j - Len(stream)]
    BY <1>1, ConcatProperties, ZenonT(60)
  <2> QED
    BY <1>1, <1>3, <2>1
<1>5. \A j \in Len(stream) + 1 .. Len(stream') : j - Len(stream) \in 1 .. Len(kinds)
  BY <1>1, <1>4
<1>6. ASSUME NEW d \in Containers, d # c
      PROVE  /\ \A j \in 1 .. Len(stream') : Latest(j, d)' => Decides(stream[j].kind, d)'
             /\ Untold(d)' => NotEnded(d)'
             /\ Untold(d)' /\ Listed' => Found(d)'
  <2>1. ctr'[d] = ctr[d] /\ (d \in signalled' <=> d \in signalled)
    BY <1>6 DEF Change, BeaconInv, TypeOK
  <2>2. ASSUME NEW j \in 1 .. Len(stream'), Latest(j, d)' PROVE Decides(stream[j].kind, d)'
    <3>1. j \in 1 .. Len(stream)
      <4>1. About(stream'[j], d)
        BY <2>2 DEF Latest
      <4>2. ASSUME j \in Len(stream) + 1 .. Len(stream') PROVE FALSE
        <5>1. stream'[j] = new[j - Len(stream)] /\ j - Len(stream) \in 1 .. Len(kinds)
          BY <1>4, <1>5, <4>2
        <5>2. ~About(new[j - Len(stream)], d)
          BY <1>2, <1>6, <5>1
        <5> QED
          BY <4>1, <5>1, <5>2
      <4> QED
        BY <1>1, <1>4, <4>2
    <3>2. Latest(j, d)
      BY <1>1, <1>4, <2>2, <3>1 DEF Latest
    <3> QED
      BY <1>4, <2>1, <3>1, <3>2 DEF StreamInv, Decides
  <2>3. ASSUME Untold(d)' PROVE NotEnded(d)' /\ (Listed' => Found(d)')
    <3>1. Untold(d)
      BY <1>1, <1>4, <2>3 DEF Untold
    <3>2. Listed' => Listed
      BY <1>1, <1>4 DEF Listed
    <3> QED
      BY <1>3, <2>1, <3>1, <3>2 DEF StreamInv, NotEnded, Found
  <2> QED
    BY <2>2, <2>3
<1>7. /\ \A j \in 1 .. Len(stream') : Latest(j, c)' => Decides(stream[j].kind, c)'
      /\ ~Untold(c)'
  <2>1. Len(stream') \in Len(stream) + 1 .. Len(stream') /\ Len(stream') \in 1 .. Len(stream')
    BY <1>1, <1>4
  <2>2. About(stream'[Len(stream')], c) /\ stream'[Len(stream')].kind = kinds[Len(kinds)]
    BY <1>1, <1>2, <1>4, <1>5, <2>1
  <2>3. ~Untold(c)'
    BY <2>1, <2>2 DEF Untold
  <2>4. ctr'[c] = to /\ (op # "signal" \/ c \in signalled')
    BY DEF Change, BeaconInv, TypeOK
  <2>5. ASSUME NEW j \in 1 .. Len(stream'), Latest(j, c)' PROVE Decides(stream[j].kind, c)'
    <3>1. j = Len(stream')
      BY <1>1, <1>4, <2>1, <2>2, <2>5 DEF Latest
    <3> QED
      BY <2>2, <2>4, <3>1 DEF Decides
  <2> QED
    BY <2>3, <2>5
<1> QED
  BY <1>6, <1>7 DEF StreamInv

\* Taking the first event away leaves the last event about a container, unless it
\* was that event.
LEMMA TakeFirst ==
  ASSUME BeaconInv, StreamInv, setting.mode = "stream", stream # <<>>,
         stream' = Tail(stream), UNCHANGED <<ctr, signalled>>, NEW c \in Containers
  PROVE  /\ \A j \in 1 .. Len(stream') : Latest(j, c)' => Decides(stream[j].kind, c)'
         /\ Untold(c)' /\ ~About(Head(stream), c) => Untold(c)
         /\ Untold(c)' /\ About(Head(stream), c) => Decides(Head(stream).kind, c)
         /\ Listed' /\ Head(stream).kind # "interlock-start" => Listed
<1>1. /\ Len(stream) \in Nat /\ Len(stream) > 0 /\ Len(stream') = Len(stream) - 1
      /\ \A j \in 1 .. Len(stream') : stream'[j] = stream[j + 1]
      /\ Head(stream) = stream[1]
  BY HeadTailProperties, LenProperties, EmptySeq DEF BeaconInv
<1>2. ASSUME NEW m \in 2 .. Len(stream)
      PROVE  m - 1 \in 1 .. Len(stream') /\ stream'[m - 1] = stream[m]
  BY <1>1
<1>3. ASSUME NEW j \in 1 .. Len(stream'), Latest(j, c)' PROVE Decides(stream[j].kind, c)'
  <2>1. j + 1 \in 1 .. Len(stream)
    BY <1>1
  <2>2. ASSUME NEW m \in j + 2 .. Len(stream) PROVE ~About(stream[m], c)
    <3>1. m - 1 \in j + 1 .. Len(stream') /\ stream'[m - 1] = stream[m]
      BY <1>1, <1>2
    <3> QED
      BY <1>3, <3>1 DEF Latest
  <2>3. Latest(j + 1, c)
    BY <1>1, <1>3, <2>1, <2>2 DEF Latest
  <2> QED
    BY <1>1, <2>1, <2>3 DEF StreamInv, Decides
<1>4. ASSUME Untold(c)' PROVE \A m \in 2 .. Len(stream) : ~About(stream[m], c)
  BY <1>2, <1>4 DEF Untold
<1>5. ASSUME Untold(c)', ~About(Head(stream), c) PROVE Untold(c)
  BY <1>1, <1>4, <1>5 DEF Untold
<1>6. ASSUME Untold(c)', About(Head(stream), c) PROVE Decides(Head(stream).kind, c)
  <2>1. Latest(1, c) /\ 1 \in 1 .. Len(stream)
    BY <1>1, <1>4, <1>6 DEF Latest
  <2> QED
    BY <1>1, <2>1 DEF StreamInv
<1>7. ASSUME Listed', Head(stream).kind # "interlock-start" PROVE Listed
  <2>1. \A m \in 2 .. Len(stream) : stream[m].kind # "interlock-start"
    BY <1>2, <1>7 DEF Listed
  <2> QED
    BY <1>1, <1>7, <2>1 DEF Listed
<1> QED
  BY <1>3, <1>5, <1>6, <1>7

\* What HandleEvent does to the map, case by case.
LEMMA MonitoredCases ==
  ASSUME NEW e
  PROVE  /\ e.kind = "interlock-start" =>
              MonitoredAfter(e) = monitored \cup Running /\ UnlistedAfter(e) = {}
         /\ e.kind = "start" => /\ MonitoredAfter(e) = monitored \cup {e.id}
                                /\ UnlistedAfter(e) = unlisted \ {e.id}
         /\ e.kind \in Ends => /\ MonitoredAfter(e) = monitored \ {e.id}
                               /\ UnlistedAfter(e) = unlisted
         /\ e.kind = "interlock-restart" =>
              MonitoredAfter(e) = monitored /\ UnlistedAfter(e) = unlisted
BY DEF MonitoredAfter, UnlistedAfter, Ends

\* Handling the first event makes the map right about the containers that the
\* rest of the stream does not mention.
LEMMA HandleStreamInv ==
  ASSUME BeaconInv, StreamInv, HandleEvent
  PROVE  StreamInv'
<1> SUFFICES ASSUME setting.mode = "stream" PROVE StreamInv'
  BY DEF StreamInv, HandleEvent
<1> DEFINE e == Head(stream)
<1>1. /\ stream \in Seq(Events) /\ stream # <<>> /\ stream' = Tail(stream)
      /\ monitored' = MonitoredAfter(e) /\ unlisted' = UnlistedAfter(e)
      /\ UNCHANGED <<ctr, signalled>>
  BY DEF HandleEvent, BeaconInv, world
<1>2. e.kind \in Kinds \cup OwnKinds
  BY <1>1, HeadOfStream
<1>3. ASSUME NEW c \in Containers
      PROVE  /\ \A j \in 1 .. Len(stream') : Latest(j, c)' => Decides(stream[j].kind, c)'
             /\ Untold(c)' /\ ~About(e, c) => Untold(c)
             /\ Untold(c)' /\ About(e, c) => Decides(e.kind, c)
             /\ Listed' /\ e.kind # "interlock-start" => Listed
  BY <1>1, TakeFirst
<1> HIDE DEF e
<1>4. ASSUME NEW c \in Containers, Untold(c)'
      PROVE  NotEnded(c)' /\ (Listed' => Found(c)')
  <2>1. CASE e.kind = "interlock-start"
    <3>1. Untold(c)
      BY <1>3, <1>4, <2>1 DEF About, Kinds
    <3>2. monitored' = monitored \cup Running
      BY <1>1, <2>1, MonitoredCases
    <3> QED
      BY <1>1, <3>1, <3>2 DEF StreamInv, NotEnded, Found, Running
  <2>2. CASE About(e, c)
    <3>1. Decides(e.kind, c)
      BY <1>3, <1>4, <2>2
    <3>2. CASE e.kind = "start"
      <4>1. c \in monitored'
        BY <1>1, <2>2, <3>2, MonitoredCases DEF About
      <4> QED
        BY <1>1, <3>1, <3>2, <4>1 DEF NotEnded, Found, Decides, Ends
    <3>3. CASE e.kind \in Ends
      <4>1. c \notin monitored'
        BY <1>1, <2>2, <3>3, MonitoredCases DEF About
      <4> QED
        BY <1>1, <3>1, <3>3, <4>1 DEF NotEnded, Found, Decides, Ends
    <3> QED
      BY <2>2, <3>2, <3>3 DEF About, Kinds, Ends
  <2>3. CASE e.kind # "interlock-start" /\ ~About(e, c)
    <3>1. Untold(c) /\ (Listed' => Listed)
      BY <1>3, <1>4, <2>3
    <3>2. (c \in monitored' <=> c \in monitored) /\ (c \in unlisted' <=> c \in unlisted)
      BY <1>1, <1>2, <2>3, MonitoredCases DEF About, Kinds, OwnKinds, Ends
    <3> QED
      BY <1>1, <3>1, <3>2 DEF StreamInv, NotEnded, Found
  <2> QED
    BY <2>1, <2>2, <2>3
<1> QED
  BY <1>3, <1>4 DEF StreamInv

\* A list that fails leaves the map alone, and what it would have brought is
\* accounted for.
LEMMA ListFailsStreamInv ==
  ASSUME BeaconInv, StreamInv, ListFails
  PROVE  StreamInv'
<1> SUFFICES ASSUME setting.mode = "stream" PROVE StreamInv'
  BY DEF StreamInv, ListFails
<1>1. /\ stream # <<>> /\ stream' = Tail(stream) /\ UNCHANGED <<ctr, signalled, monitored>>
      /\ Head(stream).kind = "interlock-start"
      /\ unlisted' = unlisted \cup (Running \ monitored)
  BY DEF ListFails, world
<1>2. ASSUME NEW c \in Containers
      PROVE  /\ \A j \in 1 .. Len(stream') : Latest(j, c)' => Decides(stream[j].kind, c)'
             /\ Untold(c)' => Untold(c)
  BY <1>1, TakeFirst DEF About, Kinds
<1>3. ASSUME NEW c \in Containers PROVE Found(c)'
  BY <1>1 DEF Found, Running
<1> QED
  BY <1>1, <1>2, <1>3 DEF StreamInv, NotEnded

\* With a new stream there is a list to come.
LEMMA ResubscribeStreamInv ==
  ASSUME BeaconInv, StreamInv, Resubscribe
  PROVE  StreamInv'
<1> SUFFICES ASSUME setting.mode = "stream" PROVE StreamInv'
  BY DEF StreamInv, Resubscribe
<1> DEFINE own == <<[kind |-> "interlock-start"]>>
<1>1. own \in Seq(Events) /\ Len(own) = 1 /\ own[1].kind = "interlock-start"
  BY DEF Events, OwnKinds
<1>2. stream' = stream \o own /\ UNCHANGED <<ctr, signalled, monitored>>
  BY DEF Resubscribe, InterlockStart, world
<1> HIDE DEF own
<1>3. stream \in Seq(Events) /\ Len(stream) \in Nat
  BY LenProperties DEF BeaconInv
<1>4. /\ Len(stream') = Len(stream) + 1
      /\ \A j \in 1 .. Len(stream) : stream'[j] = stream[j]
      /\ stream'[Len(stream')].kind = "interlock-start"
  <2>1. /\ Len(stream \o own) = Len(stream) + Len(own)
        /\ \A j \in 1 .. Len(stream) + Len(own) :
             (stream \o own)[j] = IF j <= Len(stream) THEN stream[j] ELSE own[j - Len(stream)]
    BY <1>1, <1>3, ConcatProperties, ZenonT(60)
  <2> QED
    BY <1>1, <1>2, <1>3, <2>1
<1>5. ~Listed'
  BY <1>3, <1>4 DEF Listed
<1>6. ASSUME NEW c \in Containers
      PROVE  /\ \A j \in 1 .. Len(stream') : Latest(j, c)' => Decides(stream[j].kind, c)'
             /\ Untold(c)' => Untold(c)
  <2>1. Untold(c)' => Untold(c)
    BY <1>3, <1>4 DEF Untold
  <2>2. ASSUME NEW j \in 1 .. Len(stream'), Latest(j, c)' PROVE Decides(stream[j].kind, c)'
    <3>1. j \in 1 .. Len(stream)
      BY <1>3, <1>4, <2>2 DEF Latest, About, Kinds
    <3>2. Latest(j, c)
      BY <1>3, <1>4, <2>2, <3>1 DEF Latest
    <3> QED
      BY <1>2, <1>4, <3>1, <3>2 DEF StreamInv, Decides
  <2> QED
    BY <2>1, <2>2
<1> QED
  BY <1>2, <1>5, <1>6 DEF StreamInv, NotEnded

\* A new process starts again with interlock-start, and nothing else touches the
\* stream, the map or the containers.
LEMMA StreamInvStep ==
  ASSUME BeaconInv, StreamInv, [Next]_vars
  PROVE  StreamInv'
<1>1. CASE UNCHANGED <<setting, stream, monitored, unlisted, ctr, signalled>>
  BY <1>1 DEF StreamInv, Latest, Decides, Untold, Listed, NotEnded, Found
<1>2. ASSUME NEW c \in Containers, Start(c) \/ Stop(c) \/ Remove(c) \/ Signal(c)
      PROVE  StreamInv'
  BY <1>2, UserStep, ChangeStreamInv
<1>3. CASE MapRace
  <2> SUFFICES ASSUME setting.mode = "stream" PROVE StreamInv'
    BY <1>3 DEF StreamInv, MapRace
  <2>1. stream' = <<[kind |-> "interlock-start"]>> /\ monitored' = {}
    BY <1>3 DEF MapRace, InterlockStart
  <2>2. Len(stream') = 1 /\ stream'[1].kind = "interlock-start"
    BY <2>1
  <2>3. ~Listed' /\ \A c : ~About(stream'[1], c)
    BY <2>2 DEF Listed, About, Kinds
  <2> QED
    BY <2>1, <2>2, <2>3 DEF StreamInv, Latest, NotEnded
<1>4. CASE Poll
  BY <1>4 DEF Poll, StreamInv
<1>5. CASE DropDatabase \/ Tick \/ Iterate \/ TickEnd \/ Push \/ PushFails
  BY <1>1, <1>5 DEF DropDatabase, Tick, Iterate, TickEnd, Push, PushFails, world, proc,
     listing
<1>6. ASSUME NEW c \in Containers, Collector(c) \/ CallFails(c) PROVE StreamInv'
  BY <1>1, <1>6 DEF Collector, Inspect, Stats, SendContainerStats, SendPrometheus,
     SendInfluxDB, NewInfluxDBClient, CreateDatabase, WriteTotals, WritePoints,
     CallFails, world, proc, listing
<1>7. CASE UNCHANGED vars
  BY <1>1, <1>7 DEF vars, world, proc, listing
<1> QED
  BY <1>2, <1>3, <1>4, <1>5, <1>6, <1>7, HandleStreamInv, ListFailsStreamInv,
     ResubscribeStreamInv DEF Next

\* Once HandleEvent has worked off the stream the map holds the running containers
\* that were not signalled, and no ended one: for any containers and operations,
\* whichever process a fatal race on the map has left to do it, and except for the
\* containers that a failed list owes.
THEOREM BeaconMonitorsRunning == Spec => []MonitorsRunning
<1>1. BeaconInv /\ StreamInv => MonitorsRunning
  <2> SUFFICES ASSUME BeaconInv, StreamInv, setting.mode = "stream", stream = <<>>
               PROVE  /\ monitored \subseteq Running
                      /\ Running \ (signalled \cup unlisted) \subseteq monitored
    BY DEF MonitorsRunning
  <2>1. Len(stream) = 0
    OBVIOUS
  <2>2. Listed /\ \A c \in Containers : Untold(c)
    BY <2>1 DEF Listed, Untold
  <2>3. \A c \in Containers : NotEnded(c) /\ Found(c)
    BY <2>2 DEF StreamInv
  <2> QED
    BY <2>3 DEF NotEnded, Found, Running, BeaconInv, TypeOK
<1>2. BeaconInv /\ StreamInv /\ [Next]_vars => StreamInv'
  BY StreamInvStep
<1> QED
  BY <1>1, <1>2, StreamInvInit, InitInv, NextInv, PTL DEF Spec
=============================================================================
