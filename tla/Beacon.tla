------------------------------- MODULE Beacon -------------------------------
(***************************************************************************)
(* The beacon extension (ext/beacon): the event loop that keeps the map of *)
(* monitored containers, the stats ticker and the collector goroutines it  *)
(* starts, one per container, the Prometheus and InfluxDB backends they    *)
(* send to, and the push to a gateway after each tick.                     *)
(***************************************************************************)
EXTENDS Naturals, Sequences

CONSTANTS
  Containers,  \* container ids
  Image,       \* container -> image
  Rules,       \* records: a type, and the images its regex matches
  Backends,    \* StatsBackendType: "prometheus" or "influxdb"
  Modes,       \* "stream" or "poll": how the server learns of changes
  Ops,         \* operations that users apply
  MaxChanges,  \* bound on those operations
  MaxFaults    \* bound on fatal races on the map and calls that fail

ASSUME BeaconAssumption ==
  /\ Backends \subseteq {"prometheus", "influxdb"}
  /\ MaxChanges \in Nat /\ MaxFaults \in Nat

VARIABLES
  ctr,        \* container -> "new", "running", "stopped" or "removed"
  stream,     \* events not yet handled
  monitored,  \* the map's keys
  setting,    \* the mode, the backend, and whether there is a push gateway
  hashed,     \* the list of containers that the poller has hashed, if any
  gauges,     \* containers that have values on /metrics
  pushed,     \* containers that have values on the push gateway
  db,         \* the InfluxDB database exists
  recorded,   \* containers with points in it since the last tick
  ticker,     \* "idle", "iterate" (ranging over the map), "wait" or "push"
  col,        \* container -> the call its collector makes next, or "none"
  zero,       \* containers whose collector has read the stats of no process
  late,       \* history: being collected when their end was handled
  signalled,  \* history: containers signalled since they were started
  asked,      \* the server has been asked for another stream and list
  unlisted,   \* history: running and not in the map when the list failed
  changes, faults

world == <<ctr, db, signalled, changes>>
proc == <<stream, monitored, setting, hashed>>
shown == <<gauges, pushed, recorded, late>>
listing == <<asked, unlisted>>
vars == <<world, proc, listing, shown, ticker, col, zero, faults>>

Event(k, c) == [kind |-> k, id |-> c]

Settings == [mode : Modes, backend : Backends, gateway : BOOLEAN]

\* Only the event stream starts with an event; the poller finds its own.
InterlockStart(mode) ==
  IF mode = "stream" THEN <<[kind |-> "interlock-start"]>> ELSE <<>>

Running == {c \in Containers : ctr[c] = "running"}

\* Rules of type "label" and "name" are not implemented and match nothing.
RuleMatch(c) == \E r \in Rules : r.type = "image" /\ Image[c] \in r.images

NoCollectors == [c \in Containers |-> "none"]

Init ==
  /\ ctr \in [Containers -> {"new", "running"}]
  /\ setting \in Settings
  /\ stream = InterlockStart(setting.mode) /\ hashed = {}
  /\ monitored = {} /\ gauges = {} /\ pushed = {} /\ recorded = {}
  /\ db = FALSE
  /\ ticker = "idle" /\ col = NoCollectors /\ zero = {}
  /\ late = {} /\ signalled = {}
  /\ asked = FALSE /\ unlisted = {}
  /\ changes = 0 /\ faults = 0

-----------------------------------------------------------------------------
(* Docker, and the operator of InfluxDB                                    *)

Change(c, op, from, to, kinds) ==
  /\ op \in Ops /\ changes < MaxChanges
  /\ ctr[c] \in from
  /\ changes' = changes + 1
  /\ ctr' = [ctr EXCEPT ![c] = to]
  /\ stream' = IF setting.mode = "stream"
               THEN stream \o [j \in 1 .. Len(kinds) |-> Event(kinds[j], c)]
               ELSE stream
  /\ signalled' = CASE op = "signal" -> signalled \cup {c}
                    [] op = "start" -> signalled \ {c}
                    [] OTHER -> signalled
  /\ UNCHANGED <<db, monitored, setting, hashed, listing, shown, ticker, col,
                 zero, faults>>

Start(c) == Change(c, "start", {"new", "stopped"}, "running", <<"start">>)

Stop(c) == Change(c, "stop", {"running"}, "stopped", <<"kill", "die", "stop">>)

Remove(c) == Change(c, "remove", {"stopped"}, "removed", <<"destroy">>)

\* A signal that does not end the container, such as the HUP of a reload.
Signal(c) == Change(c, "signal", {"running"}, "running", <<"kill">>)

DropDatabase ==
  /\ "drop" \in Ops /\ changes < MaxChanges
  /\ db
  /\ changes' = changes + 1
  /\ db' = FALSE
  /\ UNCHANGED <<ctr, signalled, proc, listing, shown, ticker, col, zero,
                 faults>>

-----------------------------------------------------------------------------
(* The poller, and HandleEvent                                             *)

\* runPoller, which Server models in full: a change of the list of running
\* containers is one event, and the event loop takes one at a time.
Poll ==
  /\ setting.mode = "poll" /\ stream = <<>>
  /\ hashed # {Running}
  /\ hashed' = {Running}
  /\ stream' = <<[kind |-> "interlock-restart"]>>
  /\ UNCHANGED <<world, monitored, setting, listing, shown, ticker, col, zero,
                 faults>>

Ends == {"kill", "die", "stop", "destroy"}

\* MonitoredAfter that keeps the containers that end.
MonitoredAfterNoDelete(e) ==
  CASE e.kind = "interlock-start" -> monitored \cup Running
    [] e.kind = "start" -> monitored \cup {e.id}
    [] OTHER -> monitored

\* The map after an event.
MonitoredAfter(e) ==
  CASE e.kind = "interlock-start" -> monitored \cup Running
    [] e.kind = "start" -> monitored \cup {e.id}
    [] e.kind \in Ends -> monitored \ {e.id}
    [] OTHER -> monitored

\* resetStats that does nothing.
ResetStatsNever(e) == gauges' = gauges

\* resetStats resets every counter, whichever container the event is about.
ResetStats(e) == gauges' = IF e.kind \in Ends THEN {} ELSE gauges

\* Unlisted containers are made good for by a list, or by their own start.
UnlistedAfter(e) ==
  CASE e.kind = "interlock-start" -> {}
    [] e.kind = "start" -> unlisted \ {e.id}
    [] OTHER -> unlisted

HandleEvent ==
  /\ stream # <<>>
  /\ LET e == Head(stream)
     IN  /\ monitored' = MonitoredAfter(e)
         /\ unlisted' = UnlistedAfter(e)
         /\ ResetStats(e)
         /\ late' = IF e.kind \in Ends
                    THEN {c \in late \cup {e.id} : col[c] # "none"}
                    ELSE late
  /\ stream' = Tail(stream)
  /\ UNCHANGED <<world, setting, hashed, asked, pushed, recorded, ticker, col,
                 zero, faults>>

\* The list at interlock-start fails, and HandleEvent returns the error.  The
\* server asks for another stream if its text has a "500", and else goes on.
ListFails ==
  /\ stream # <<>> /\ Head(stream).kind = "interlock-start"
  /\ faults < MaxFaults
  /\ faults' = faults + 1
  /\ stream' = Tail(stream)
  /\ asked' \in {asked, TRUE}
  /\ unlisted' = unlisted \cup (Running \ monitored)
  /\ UNCHANGED <<world, monitored, setting, hashed, shown, ticker, col, zero>>

\* The server's second stream begins with an interlock-start.  (Its events
\* repeat those of the first stream and have the same last one.)
Resubscribe ==
  /\ asked
  /\ asked' = FALSE
  /\ stream' = stream \o InterlockStart(setting.mode)
  /\ UNCHANGED <<world, monitored, setting, hashed, unlisted, shown, ticker,
                 col, zero, faults>>

-----------------------------------------------------------------------------
(* The ticker, and collectStats                                            *)

Tick ==
  /\ ticker = "idle"
  /\ ticker' = "iterate"
  /\ recorded' = {}
  /\ UNCHANGED <<world, proc, listing, gauges, pushed, late, col, zero, faults>>

\* One goroutine is started for each monitored container.
Iterate ==
  /\ ticker = "iterate"
  /\ ticker' = "wait"
  /\ col' = [c \in Containers |-> IF c \in monitored THEN "inspect" ELSE "none"]
  /\ UNCHANGED <<world, proc, listing, shown, zero, faults>>

\* The map has no lock.  An event that changes it while the ticker ranges
\* over it may be seen or not, or may end the process: the Go runtime stops
\* on a map write during an iteration.  The container is restarted, and the
\* next process starts afresh.
MapRace ==
  /\ ticker = "iterate" /\ stream # <<>>
  /\ Head(stream).kind # "interlock-restart"
  /\ faults < MaxFaults
  /\ faults' = faults + 1
  /\ stream' = InterlockStart(setting.mode) /\ hashed' = {}
  /\ asked' = FALSE /\ unlisted' = {}
  /\ monitored' = {} /\ gauges' = {} /\ late' = {} /\ zero' = {}
  /\ ticker' = "idle"
  /\ col' = NoCollectors
  /\ UNCHANGED <<world, setting, pushed, recorded>>

\* TickEnd that does not wait for the collectors.
TickEndNoWait ==
  /\ ticker = "wait"
  /\ ticker' = IF setting.gateway THEN "push" ELSE "idle"
  /\ zero' = {}
  /\ UNCHANGED <<world, proc, listing, shown, col, faults>>

\* wg.Wait: the next tick is taken when every collector is done.
TickEnd ==
  /\ ticker = "wait" /\ col = NoCollectors
  /\ ticker' = IF setting.gateway THEN "push" ELSE "idle"
  /\ zero' = {}
  /\ UNCHANGED <<world, proc, listing, shown, col, faults>>

\* Push with prometheus.PushAdd, which keeps what was pushed before.
PushAdd ==
  /\ ticker = "push"
  /\ ticker' = "idle"
  /\ pushed' = pushed \cup gauges
  /\ UNCHANGED <<world, proc, listing, gauges, recorded, late, col, zero, faults>>

\* prometheus.Push replaces what was pushed before under the id of this
\* container, by the same process or by the one before it.
Push ==
  /\ ticker = "push"
  /\ ticker' = "idle"
  /\ pushed' = gauges
  /\ UNCHANGED <<world, proc, listing, gauges, recorded, late, col, zero, faults>>

PushFails ==
  /\ ticker = "push"
  /\ faults < MaxFaults
  /\ faults' = faults + 1
  /\ ticker' = "idle"
  /\ UNCHANGED <<world, proc, listing, shown, col, zero>>

-----------------------------------------------------------------------------
(* A collector.  Each step is one call; a call about a removed container   *)
(* fails, and so may any other.                                            *)

Exists(c) == ctr[c] # "removed"

Goto(c, to) == col' = [col EXCEPT ![c] = to]

\* A container that is gone, or that no rule matches, is left out.
Inspect(c) ==
  /\ col[c] = "inspect"
  /\ Goto(c, IF Exists(c) /\ RuleMatch(c) THEN "stats" ELSE "none")
  /\ UNCHANGED <<world, proc, listing, shown, ticker, zero, faults>>

\* The stats of a container that does not run are zero, its memory limit too.
Stats(c) ==
  /\ col[c] = "stats"
  /\ Goto(c, IF Exists(c) THEN "send" ELSE "none")
  /\ zero' = IF ctr[c] = "running" THEN zero \ {c} ELSE zero \cup {c}
  /\ UNCHANGED <<world, proc, listing, shown, ticker, faults>>

\* sendContainerStats inspects again; more calls follow before the values
\* are set.
SendContainerStats(c) ==
  /\ col[c] = "send"
  /\ Goto(c, IF Exists(c) THEN setting.backend ELSE "none")
  /\ UNCHANGED <<world, proc, listing, shown, ticker, zero, faults>>

SendPrometheus(c) ==
  /\ col[c] = "prometheus"
  /\ Goto(c, "none")
  /\ gauges' = gauges \cup {c}
  /\ UNCHANGED <<world, proc, listing, pushed, recorded, late, ticker, zero, faults>>

\* NewInfluxDBClient that does not create the database.
NewInfluxDBClientNoCreate(c) ==
  /\ col[c] = "influxdb"
  /\ Goto(c, IF db THEN "totals" ELSE "none")
  /\ UNCHANGED <<world, proc, listing, shown, ticker, zero, faults>>

\* A new client for every container; it looks for the database first.
NewInfluxDBClient(c) ==
  /\ col[c] = "influxdb"
  /\ Goto(c, IF db THEN "totals" ELSE "create")
  /\ UNCHANGED <<world, proc, listing, shown, ticker, zero, faults>>

CreateDatabase(c) ==
  /\ col[c] = "create"
  /\ Goto(c, "totals")
  /\ db' = TRUE
  /\ UNCHANGED <<ctr, signalled, changes, proc, listing, shown, ticker, zero, faults>>

\* The batch is written when it holds only the number of containers.
WriteTotals(c) ==
  /\ col[c] = "totals"
  /\ Goto(c, IF db THEN "points" ELSE "none")
  /\ UNCHANGED <<world, proc, listing, shown, ticker, zero, faults>>

\* The memory percentage of zero stats is 0/0, and NewPoint refuses NaN: the
\* points made so far are not written.
WritePoints(c) ==
  /\ col[c] = "points"
  /\ Goto(c, "none")
  /\ recorded' = IF db /\ c \notin zero THEN recorded \cup {c} ELSE recorded
  /\ UNCHANGED <<world, proc, listing, gauges, pushed, late, ticker, zero, faults>>

\* A call returns an error, which is logged; the collector gives up.
CallFails(c) ==
  /\ col[c] \notin {"none", "prometheus"}
  /\ faults < MaxFaults
  /\ faults' = faults + 1
  /\ Goto(c, "none")
  /\ UNCHANGED <<world, proc, listing, shown, ticker, zero>>

SendInfluxDB(c) ==
  NewInfluxDBClient(c) \/ CreateDatabase(c) \/ WriteTotals(c) \/ WritePoints(c)

Collector(c) ==
  \/ Inspect(c) \/ Stats(c) \/ SendContainerStats(c)
  \/ SendPrometheus(c) \/ SendInfluxDB(c)

Next ==
  \/ \E c \in Containers : Start(c) \/ Stop(c) \/ Remove(c) \/ Signal(c)
  \/ DropDatabase
  \/ Poll \/ HandleEvent \/ ListFails \/ Resubscribe
  \/ Tick \/ Iterate \/ MapRace \/ TickEnd \/ Push \/ PushFails
  \/ \E c \in Containers : Collector(c) \/ CallFails(c)

Spec == Init /\ [][Next]_vars

(***************************************************************************)
(* Go runs a goroutine that can run, and the ticker keeps ticking.  Users  *)
(* owe nothing, and neither a race nor a failure need happen.              *)
(***************************************************************************)
Fairness ==
  /\ WF_vars(Poll) /\ WF_vars(HandleEvent) /\ WF_vars(Resubscribe)
  /\ WF_vars(Tick \/ Iterate \/ TickEnd \/ Push)
  /\ \A c \in Containers : WF_vars(Collector(c))

FairSpec == Spec /\ Fairness

(***************************************************************************)
(* Properties                                                              *)
(***************************************************************************)

Stages == {"none", "inspect", "stats", "send", "prometheus", "influxdb",
           "create", "totals", "points"}

\* The state has its types, and wg.Wait keeps the collectors of one tick
\* from outliving it: none runs while the ticker is idle.
TypeOK ==
  /\ ctr \in [Containers -> {"new", "running", "stopped", "removed"}]
  /\ setting \in Settings
  /\ monitored \subseteq Containers /\ gauges \subseteq Containers
  /\ pushed \subseteq Containers /\ recorded \subseteq Containers
  /\ db \in BOOLEAN /\ hashed \subseteq SUBSET Containers
  /\ ticker \in {"idle", "iterate", "wait", "push"}
  /\ col \in [Containers -> Stages] /\ zero \subseteq Containers
  /\ ticker # "wait" => col = NoCollectors
  /\ asked \in BOOLEAN /\ unlisted \subseteq Containers

\* Once the events are handled, whatever users did, even when the list failed
\* or a fatal race made a new process take over, no ended container is
\* monitored and every running one is - except for those that were sent a
\* signal, which HandleEvent takes for their end, and those that a failed
\* list would have had and that no list or start has brought since.
MonitorsRunning ==
  setting.mode = "stream" /\ stream = <<>>
    => /\ monitored \subseteq Running
       /\ Running \ (signalled \cup unlisted) \subseteq monitored

\* resetStats leaves nothing behind but what a collector brings back: a
\* container that is not monitored and has values on /metrics was being
\* collected when its end was handled, and the next end of any container
\* removes them.
LeftoverWasInFlight == gauges \subseteq monitored \cup late

\* Container c is shown again and again if it goes on running.
Exposes(c) ==
  RuleMatch(c) /\ <>[](ctr[c] = "running" /\ c \notin signalled \cup unlisted)
    => []<>(c \in IF setting.backend = "prometheus" THEN gauges ELSE recorded)

\* "It exposes container metrics": with the event stream, a container that a
\* rule matches, that keeps running and is not sent a signal has values on
\* /metrics again and again although the events of other containers reset
\* all of them, or has points in InfluxDB again and again although calls
\* fail and the database is dropped under the collectors.  A failed list is
\* made good for when the server takes the error for an outage and lists
\* again; after any other error the container stays unlisted.
ExposesRunning == setting.mode = "stream" => \A c \in Containers : Exposes(c)

\* The same with polling, which docs/configuration.md offers as the other of
\* two methods.  The poller's interlock-restart is no case of HandleEvent,
\* so nothing is ever monitored.
ExposesPolled == setting.mode = "poll" => \A c \in Containers : Exposes(c)

\* The push gateway follows /metrics: values that are gone from there for
\* good go from the gateway too, across failed pushes and new processes.
GatewayFollows ==
  \A c \in Containers :
    setting.gateway /\ <>[](c \notin gauges) => <>[](c \notin pushed)
=============================================================================
