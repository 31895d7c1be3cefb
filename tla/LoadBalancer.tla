---------------------------- MODULE LoadBalancer ----------------------------
(***************************************************************************)
(* The load balancer extension (ext/lb/lb.go), its debouncing cache        *)
(* (vendor/github.com/ehazlett/ttlcache) and the two backends (ext/lb/nginx*)
(* and ext/lb/haproxy), in one or several Interlock instances against one  *)
(* Docker engine or Swarm.                                                 *)
(*                                                                         *)
(* Three goroutines of an instance matter here: the event loop that calls  *)
(* HandleEvent, the cache's reaper, and the lbUpdateChan handler.  Every   *)
(* call to Docker is a step of its own, so containers come and go between  *)
(* any two of them.                                                        *)
(***************************************************************************)
EXTENDS ProxyShare

CONSTANTS
  Nodes,          \* Interlock instances
  Apps,           \* application containers: an id is never used twice
  Proxies,        \* proxy containers, labelled interlock.ext.name
  NodeSeq,        \* the order in which Docker lists the instances
  Overlay,        \* apps labelled interlock.network
  Exposed,        \* apps whose image or run command exposes a port
  FirstProxies,   \* proxies that exist before Interlock starts, as listed
  Backend,        \* "nginx" or "haproxy"
  ConnectRetries, \* polls of a network event before HandleEvent goes on (5)
  Ops,            \* operations that users apply to containers
  MaxChanges,     \* bound on those operations
  MaxFaults,      \* bound on failing Docker calls
  MaxCrashes      \* bound on crashes of instances

ASSUME ListAssumption ==
  /\ NodeSeq \in Seq(Nodes)
  /\ FirstProxies \in Seq(Proxies)

ASSUME ContainerAssumption ==
  /\ Overlay \subseteq Apps
  /\ Exposed \subseteq Apps
  /\ Apps \cap Proxies = {}

ASSUME BoundAssumption ==
  /\ Backend \in {"nginx", "haproxy"}
  /\ ConnectRetries \in Nat
  /\ MaxChanges \in Nat
  /\ MaxFaults \in Nat
  /\ MaxCrashes \in Nat

VARIABLES
  \* Docker
  ctr,      \* app -> "new", "running", "stopped" or "removed"
  net,      \* app -> its network (overlay or the engine's default) lists it:
            \* "no", "joining" or "yes"
  present,  \* the proxies that exist, as Docker lists them
  joined,   \* the proxies connected to the overlay network
  file,     \* proxy -> upstreams in its configuration file
  loaded,   \* proxy -> upstreams it serves
  stream,   \* instance -> events sent to it and not yet handled
  changes,  \* operations so far
  faults,   \* failed calls so far
  crashes,  \* crashes so far
  \* an instance
  alive,    \* the process runs
  hnd,      \* event loop: "idle", "poll" (network event) or "set"
  target,   \* the container whose network event is being polled
  tries,    \* polls made
  key,      \* cache entry "reload": "none", "young" or "old" (ttl elapsed)
  reaper,   \* "idle", "delete" or "send" (blocked in the callback)
  upd,      \* lbUpdateChan handler: the stage it is in
  todo,     \* what the stage has left to do
  cfg,      \* upstreams generated so far
  seen,     \* the proxies listed for this update
  missed    \* history: since the instance's last list a call failed, or a
            \* container was still joining its network when its polls ended
            \* or when the instance came up

docker == <<ctr, net, present, joined, file, loaded, changes, faults, crashes>>
loop == <<hnd, target, tries>>
update == <<upd, todo, cfg, seen>>
vars == <<docker, stream, alive, loop, key, reaper, update, missed>>

Members(list) == {list[j] : j \in 1 .. Len(list)}

Event(k, c) == [kind |-> k, id |-> c]

NoContainer == "none"

Init ==
  /\ ctr \in [Apps -> {"new", "running", "stopped"}]
  /\ net = [a \in Apps |-> IF ctr[a] = "running" THEN "yes" ELSE "no"]
  /\ present = FirstProxies
  /\ joined = {}
  /\ file = [p \in Proxies |-> {}]
  /\ loaded = [p \in Proxies |-> {}]
  /\ stream = [n \in Nodes |-> <<Event("interlock-start", NoContainer)>>]
  /\ changes = 0 /\ faults = 0 /\ crashes = 0
  /\ alive = [n \in Nodes |-> TRUE]
  /\ hnd = [n \in Nodes |-> "idle"]
  /\ target = [n \in Nodes |-> NoContainer]
  /\ tries = [n \in Nodes |-> 0]
  /\ key = [n \in Nodes |-> "none"]
  /\ reaper = [n \in Nodes |-> "idle"]
  /\ upd = [n \in Nodes |-> "idle"]
  /\ todo = [n \in Nodes |-> {}]
  /\ cfg = [n \in Nodes |-> {}]
  /\ seen = [n \in Nodes |-> <<>>]
  /\ missed = [n \in Nodes |-> FALSE]

-----------------------------------------------------------------------------
(* Docker: what it answers, and the events it sends                        *)

\* Every connected instance receives every event, in the same order.  Events
\* that HandleEvent has no case for (create, die, kill and others) are left
\* out, but for the kill that is the only one of a killed container or of a
\* proxy sent a HUP.
Send(evs) == stream' = [n \in Nodes |-> IF alive[n] THEN stream[n] \o evs
                                                    ELSE stream[n]]

\* What an inspect would find: a container with published ports, or one
\* listed by the network it is labelled with.
Serving(a) == ctr[a] = "running" /\ (a \in Overlay => net[a] = "yes")

Joins(c) == c \in Apps /\ net[c] = "joining"

Joining == \E a \in Apps : Joins(a)

\* isContainerConnected: the container is listed by the network.
IsContainerConnected(c) == (c \in Apps /\ net[c] = "yes") \/ c \in joined

\* isExposedContainer: an inspectable container that is neither a proxy nor
\* Interlock itself, and that exposes a port.
IsExposedContainer(c) == c \in Exposed /\ ctr[c] # "removed"

Change(op) ==
  /\ op \in Ops
  /\ changes < MaxChanges
  /\ changes' = changes + 1
  /\ UNCHANGED <<file, loaded, joined, faults, crashes, alive, loop, key,
                 reaper, update, missed>>

StartApp(a) ==
  /\ ctr[a] \in {"new", "stopped"}
  /\ Change("start")
  /\ ctr' = [ctr EXCEPT ![a] = "running"]
  /\ net' = [net EXCEPT ![a] = IF a \in Overlay THEN "joining" ELSE "yes"]
  /\ Send(<<Event("connect", a), Event("start", a)>>)
  /\ UNCHANGED present

\* A container ends and leaves its network, the engine's default one too:
\* that event is all HandleEvent learns of a killed container.
EndApp(a, op, first, last) ==
  /\ ctr[a] = "running"
  /\ Change(op)
  /\ ctr' = [ctr EXCEPT ![a] = "stopped"]
  /\ net' = [net EXCEPT ![a] = "no"]
  /\ Send(first \o (IF net[a] # "no" THEN <<Event("disconnect", a)>> ELSE <<>>)
          \o last)
  /\ UNCHANGED present

StopApp(a) == EndApp(a, "stop", <<>>, <<Event("stop", a)>>)

KillApp(a) == EndApp(a, "kill", <<Event("kill", a)>>, <<>>)

RemoveApp(a) ==
  /\ ctr[a] = "stopped"
  /\ Change("remove")
  /\ ctr' = [ctr EXCEPT ![a] = "removed"]
  /\ Send(<<Event("destroy", a)>>)
  /\ UNCHANGED <<net, present>>

ConnectApp(a) ==
  /\ ctr[a] = "running" /\ a \in Overlay /\ net[a] = "no"
  /\ Change("connect")
  /\ net' = [net EXCEPT ![a] = "joining"]
  /\ Send(<<Event("connect", a)>>)
  /\ UNCHANGED <<ctr, present>>

DisconnectApp(a) ==
  /\ a \in Overlay /\ net[a] = "yes"
  /\ Change("disconnect")
  /\ net' = [net EXCEPT ![a] = "no"]
  /\ Send(<<Event("disconnect", a)>>)
  /\ UNCHANGED <<ctr, present>>

StartProxy(p) ==
  /\ p \notin Members(present)
  /\ Change("proxy")
  /\ present' = <<p>> \o present
  /\ Send(<<Event("start", p)>>)
  /\ UNCHANGED <<ctr, net>>

\* A container that was being connected now appears in the network.
Settle(a) ==
  /\ net[a] = "joining"
  /\ net' = [net EXCEPT ![a] = "yes"]
  /\ UNCHANGED <<ctr, present, joined, file, loaded, changes, faults, crashes,
                 stream, alive, loop, key, reaper, update, missed>>

Environment ==
  \/ \E a \in Apps : \/ StartApp(a) \/ StopApp(a) \/ KillApp(a) \/ RemoveApp(a)
                     \/ ConnectApp(a) \/ DisconnectApp(a)
  \/ \E p \in Proxies : StartProxy(p)

-----------------------------------------------------------------------------
(* The event loop: HandleEvent                                             *)

LoopOnly == UNCHANGED <<docker, alive, reaper, update>>

Fails(n) ==
  /\ faults < MaxFaults
  /\ faults' = faults + 1
  /\ missed' = [missed EXCEPT ![n] = TRUE]

\* Requests without the destroy case.
RequestsWithoutDestroy(e) ==
  \/ e.kind \in {"interlock-start"}
  \/ e.kind \in {"start", "stop"} /\ IsExposedContainer(e.id)

\* Requests with kill among the events that force a reload.
RequestsOnKill(e) ==
  \/ e.kind \in {"interlock-start", "destroy", "kill"}
  \/ e.kind \in {"start", "stop"} /\ IsExposedContainer(e.id)

\* Events that request a reload as soon as they are read.
Requests(e) ==
  \/ e.kind \in {"interlock-start", "destroy"}
  \/ e.kind \in {"start", "stop"} /\ IsExposedContainer(e.id)

\* NetworkEvent without the disconnect case.
NetworkEventConnect(e) == e.kind = "connect"

\* Events that are polled for.
NetworkEvent(e) == e.kind \in {"connect", "disconnect"}

HandleEvent(n) ==
  /\ alive[n] /\ hnd[n] = "idle" /\ stream[n] # <<>>
  /\ LET e == Head(stream[n])
     IN  /\ hnd' = [hnd EXCEPT ![n] = IF NetworkEvent(e) THEN "poll"
                                      ELSE IF Requests(e) THEN "set" ELSE "idle"]
         /\ target' = [target EXCEPT ![n] = IF NetworkEvent(e) THEN e.id
                                                             ELSE NoContainer]
         /\ tries' = [tries EXCEPT ![n] = 0]
  /\ stream' = [stream EXCEPT ![n] = Tail(@)]
  /\ UNCHANGED <<key, missed>>
  /\ LoopOnly

\* PollAgain with one poll too many.
PollAgainOnceMore(n) ==
  /\ alive[n] /\ hnd[n] = "poll"
  /\ ~IsContainerConnected(target[n])
  /\ tries[n] <= ConnectRetries
  /\ tries' = [tries EXCEPT ![n] = @ + 1]
  /\ UNCHANGED <<stream, hnd, target, key, missed>>
  /\ LoopOnly

\* Not listed yet: wait and ask again.
PollAgain(n) ==
  /\ alive[n] /\ hnd[n] = "poll"
  /\ ~IsContainerConnected(target[n])
  /\ tries[n] < ConnectRetries
  /\ tries' = [tries EXCEPT ![n] = @ + 1]
  /\ UNCHANGED <<stream, hnd, target, key, missed>>
  /\ LoopOnly

\* Listed, or out of polls: go on to isExposedContainer either way.
PollEnd(n) ==
  /\ alive[n] /\ hnd[n] = "poll"
  /\ IsContainerConnected(target[n]) \/ tries[n] = ConnectRetries
  /\ hnd' = [hnd EXCEPT ![n] = IF IsExposedContainer(target[n])
                               THEN "set" ELSE "idle"]
  /\ target' = [target EXCEPT ![n] = NoContainer]
  /\ tries' = [tries EXCEPT ![n] = 0]
  /\ missed' = [missed EXCEPT ![n] = @ \/ Joins(target[n])]
  /\ UNCHANGED <<stream, key>>
  /\ LoopOnly

\* CacheSet that drops the request while an update runs.
CacheSetWhenIdle(n) ==
  /\ alive[n] /\ hnd[n] = "set"
  /\ hnd' = [hnd EXCEPT ![n] = "idle"]
  /\ key' = [key EXCEPT ![n] = IF upd[n] = "idle" THEN "young" ELSE @]
  /\ UNCHANGED <<stream, target, tries, missed>>
  /\ LoopOnly

\* cache.Set("reload"): a new entry or a refreshed one.
CacheSet(n) ==
  /\ alive[n] /\ hnd[n] = "set"
  /\ hnd' = [hnd EXCEPT ![n] = "idle"]
  /\ key' = [key EXCEPT ![n] = "young"]
  /\ UNCHANGED <<stream, target, tries, missed>>
  /\ LoopOnly

\* The inspect of a start or stop event fails: isExposedContainer says no.
InspectFails(n) ==
  /\ alive[n] /\ hnd[n] = "idle" /\ stream[n] # <<>>
  /\ Head(stream[n]).kind \in {"start", "stop"}
  /\ stream' = [stream EXCEPT ![n] = Tail(@)]
  /\ Fails(n)
  /\ UNCHANGED <<ctr, net, present, joined, file, loaded, changes, crashes,
                 alive, loop, key, reaper, update>>

\* NetworkInspect fails and HandleEvent returns the error, or the inspect
\* after the polls fails.
PollFails(n) ==
  /\ alive[n] /\ hnd[n] = "poll"
  /\ hnd' = [hnd EXCEPT ![n] = "idle"]
  /\ target' = [target EXCEPT ![n] = NoContainer]
  /\ tries' = [tries EXCEPT ![n] = 0]
  /\ Fails(n)
  /\ UNCHANGED <<ctr, net, present, joined, file, loaded, changes, crashes,
                 stream, alive, key, reaper, update>>

EventLoop(n) ==
  \/ HandleEvent(n) \/ PollAgain(n) \/ PollEnd(n) \/ CacheSet(n)
  \/ InspectFails(n) \/ PollFails(n)

-----------------------------------------------------------------------------
(* The cache: ttlcache                                                     *)

ReaperOnly == UNCHANGED <<docker, stream, alive, loop, todo, cfg, seen, missed>>

\* The entry's ttl elapses.
Age(n) ==
  /\ alive[n] /\ key[n] = "young"
  /\ key' = [key EXCEPT ![n] = "old"]
  /\ UNCHANGED <<reaper, upd>>
  /\ ReaperOnly

\* A tick of the reaper finds the entry expired.
ReapExpired(n) ==
  /\ alive[n] /\ reaper[n] = "idle" /\ key[n] = "old"
  /\ reaper' = [reaper EXCEPT ![n] = "delete"]
  /\ UNCHANGED <<key, upd>>
  /\ ReaperOnly

\* It deletes the entry, even one that Set has refreshed since.
ReapDelete(n) ==
  /\ alive[n] /\ reaper[n] = "delete"
  /\ key' = [key EXCEPT ![n] = "none"]
  /\ reaper' = [reaper EXCEPT ![n] = "send"]
  /\ UNCHANGED upd
  /\ ReaperOnly

\* ReapSignal with a send that gives up when the handler is busy.
ReapSignalNoWait(n) ==
  /\ alive[n] /\ reaper[n] = "send"
  /\ reaper' = [reaper EXCEPT ![n] = "idle"]
  /\ upd' = [upd EXCEPT ![n] = IF @ = "idle" THEN "check" ELSE @]
  /\ UNCHANGED key
  /\ ReaperOnly

\* The callback sends on lbUpdateChan, which has no buffer: it waits until
\* the handler is back at its receive.
ReapSignal(n) ==
  /\ alive[n] /\ reaper[n] = "send" /\ upd[n] = "idle"
  /\ reaper' = [reaper EXCEPT ![n] = "idle"]
  /\ upd' = [upd EXCEPT ![n] = "check"]
  /\ UNCHANGED key
  /\ ReaperOnly

Reaper(n) == ReapExpired(n) \/ ReapDelete(n) \/ ReapSignal(n)

-----------------------------------------------------------------------------
(* The lbUpdateChan handler                                                *)

UpdaterOnly == UNCHANGED <<alive, loop, key, reaper>>

\* Leave stage s of instance n for stage t, with work w in front of it.
Enter(n, s, t, w) ==
  /\ alive[n] /\ upd[n] = s
  /\ upd' = [upd EXCEPT ![n] = t]
  /\ todo' = [todo EXCEPT ![n] = w]
  /\ UpdaterOnly

\* Do item x of stage s.
Item(n, s, x) ==
  /\ alive[n] /\ upd[n] = s /\ x \in todo[n]
  /\ todo' = [todo EXCEPT ![n] = @ \ {x}]
  /\ UpdaterOnly

\* "skipping reload: too many requests" when an entry is in the cache.
UpdCheck(n) ==
  /\ Enter(n, "check", IF key[n] # "none" THEN "idle" ELSE "list", {})
  /\ UNCHANGED <<docker, stream, cfg, seen, missed>>

UpdList(n) ==
  /\ Enter(n, "list", "generate",
           {a \in Apps : ctr[a] \in {"running", "stopped"}})
  /\ cfg' = [cfg EXCEPT ![n] = {}]
  /\ missed' = [missed EXCEPT ![n] = @ /\ Joining]
  /\ UNCHANGED <<docker, stream, seen>>

\* GenerateProxyConfig inspects a listed container.
UpdInspect(n, a) ==
  /\ Item(n, "generate", a)
  /\ ctr[a] # "removed"
  /\ cfg' = [cfg EXCEPT ![n] = IF Serving(a) THEN @ \cup {a} ELSE @]
  /\ UNCHANGED <<docker, stream, upd, seen, missed>>

\* A container gone since the list: nginx skips it, haproxy gives up.
UpdInspectGone(n, a) ==
  /\ ctr[a] = "removed"
  /\ \/ Backend = "nginx" /\ Item(n, "generate", a) /\ UNCHANGED upd
     \/ Backend = "haproxy" /\ a \in todo[n] /\ Enter(n, "generate", "idle", {})
  /\ UNCHANGED <<docker, stream, cfg, seen, missed>>

\* ProxyContainers lists again, and SaveConfig starts.
UpdProxies(n) ==
  /\ todo[n] = {}
  /\ Enter(n, "generate", "save", Members(present))
  /\ seen' = [seen EXCEPT ![n] = present]
  /\ UNCHANGED <<docker, stream, cfg, missed>>

UpdSave(n, p) ==
  /\ Item(n, "save", p)
  /\ file' = [file EXCEPT ![p] = cfg[n]]
  /\ UNCHANGED <<ctr, net, present, joined, loaded, changes, faults, crashes,
                 stream, upd, cfg, seen, missed>>

UpdSaved(n) ==
  /\ todo[n] = {}
  /\ Enter(n, "save", "connect", Members(seen[n]))
  /\ UNCHANGED <<docker, stream, cfg, seen, missed>>

\* UpdConnect with the membership test inverted.
UpdConnectInverted(n, p) ==
  /\ Item(n, "connect", p)
  /\ IF cfg[n] \cap Overlay # {} /\ p \in joined
     THEN joined' = joined \cup {p} /\ Send(<<Event("connect", p)>>)
     ELSE UNCHANGED <<joined, stream>>
  /\ UNCHANGED <<ctr, net, present, file, loaded, changes, faults, crashes,
                 upd, cfg, seen, missed>>

\* Connect a proxy to the network of the generated upstreams if needed.
\* (The code asks its list whether the proxy is connected; when another
\* instance has connected it since, the call fails, is logged and changes
\* nothing, as here.)
UpdConnect(n, p) ==
  /\ Item(n, "connect", p)
  /\ IF cfg[n] \cap Overlay # {} /\ p \notin joined
     THEN joined' = joined \cup {p} /\ Send(<<Event("connect", p)>>)
     ELSE UNCHANGED <<joined, stream>>
  /\ UNCHANGED <<ctr, net, present, file, loaded, changes, faults, crashes,
                 upd, cfg, seen, missed>>

\* UpdNodes that reloads nothing when there is no upstream.
UpdNodesUnlessEmpty(n) ==
  /\ todo[n] = {}
  /\ Enter(n, "connect", "reload",
           IF cfg[n] = {} THEN {} ELSE ProxyContainersToRestart(n, NodeSeq, seen[n]))
  /\ UNCHANGED <<docker, stream, cfg, seen, missed>>

\* Every instance's container is listed, running or not.
UpdNodes(n) ==
  /\ todo[n] = {}
  /\ Enter(n, "connect", "reload",
           ProxyContainersToRestart(n, NodeSeq, seen[n]))
  /\ UNCHANGED <<docker, stream, cfg, seen, missed>>

\* The listed instances except for m.
NodesWithout(m) == SelectSeq(NodeSeq, LAMBDA x : x # m)

\* The inspect of another instance's container fails: it is not counted.
UpdNodesFails(n, m) ==
  /\ m # n /\ todo[n] = {}
  /\ Enter(n, "connect", "reload",
           ProxyContainersToRestart(n, NodesWithout(m), seen[n]))
  /\ Fails(n)
  /\ UNCHANGED <<ctr, net, present, joined, file, loaded, changes, crashes,
                 stream, cfg, seen>>

\* Reload: nginx is sent a HUP, haproxy is restarted.  (The network events of
\* the restart are left out: whatever the polls say, a proxy is no exposed
\* container.)
UpdReload(n, p) ==
  /\ Item(n, "reload", p)
  /\ loaded' = [loaded EXCEPT ![p] = file[p]]
  /\ Send(IF Backend = "nginx" THEN <<Event("kill", p)>>
          ELSE <<Event("stop", p), Event("start", p)>>)
  /\ UNCHANGED <<ctr, net, present, joined, file, changes, faults, crashes,
                 upd, cfg, seen, missed>>

UpdDone(n) ==
  /\ todo[n] = {}
  /\ Enter(n, "reload", "idle", {})
  /\ UNCHANGED <<docker, stream, cfg, seen, missed>>

\* ContainerList or, in ProxyContainers, the second one fails: the update is
\* given up.
UpdListFails(n) ==
  /\ \/ Enter(n, "list", "idle", {})
     \/ todo[n] = {} /\ Enter(n, "generate", "idle", {})
  /\ Fails(n)
  /\ UNCHANGED <<ctr, net, present, joined, file, loaded, changes, crashes,
                 stream, cfg, seen>>

\* An inspect fails: haproxy gives up when it is that of a container; nginx
\* then leaves the container out, and so do both when it is that of a network.
UpdInspectFails(n, a) ==
  /\ \/ /\ Backend = "nginx" \/ a \in Overlay
        /\ Item(n, "generate", a) /\ UNCHANGED upd
     \/ Backend = "haproxy" /\ a \in todo[n] /\ Enter(n, "generate", "idle", {})
  /\ Fails(n)
  /\ UNCHANGED <<ctr, net, present, joined, file, loaded, changes, crashes,
                 stream, cfg, seen>>

\* A copy, a network connect or a reload of one proxy fails: it is logged,
\* and the loop goes on with the next proxy.
UpdProxyFails(n, p) ==
  /\ \E s \in {"save", "connect", "reload"} : Item(n, s, p)
  /\ Fails(n)
  /\ UNCHANGED <<ctr, net, present, joined, file, loaded, changes, crashes,
                 stream, upd, cfg, seen>>

Updater(n) ==
  \/ UpdCheck(n) \/ UpdList(n) \/ UpdProxies(n) \/ UpdSaved(n) \/ UpdNodes(n)
  \/ UpdDone(n) \/ UpdListFails(n)
  \/ \E m \in Nodes : UpdNodesFails(n, m)
  \/ \E a \in Apps : \/ UpdInspect(n, a) \/ UpdInspectGone(n, a)
                     \/ UpdInspectFails(n, a)
  \/ \E p \in Proxies : \/ UpdSave(n, p) \/ UpdConnect(n, p)
                        \/ UpdReload(n, p) \/ UpdProxyFails(n, p)

-----------------------------------------------------------------------------
(* Crash and restart of an instance                                        *)

Crash(n) ==
  /\ alive[n]
  /\ crashes < MaxCrashes
  /\ crashes' = crashes + 1
  /\ alive' = [alive EXCEPT ![n] = FALSE]
  /\ stream' = [stream EXCEPT ![n] = <<>>]
  /\ hnd' = [hnd EXCEPT ![n] = "idle"]
  /\ target' = [target EXCEPT ![n] = NoContainer]
  /\ tries' = [tries EXCEPT ![n] = 0]
  /\ key' = [key EXCEPT ![n] = "none"]
  /\ reaper' = [reaper EXCEPT ![n] = "idle"]
  /\ upd' = [upd EXCEPT ![n] = "idle"]
  /\ todo' = [todo EXCEPT ![n] = {}]
  /\ cfg' = [cfg EXCEPT ![n] = {}]
  /\ seen' = [seen EXCEPT ![n] = <<>>]
  /\ UNCHANGED <<ctr, net, present, joined, file, loaded, changes, faults,
                 missed>>

\* Restart without the initial interlock-start.
RestartSilently(n) ==
  /\ ~alive[n]
  /\ alive' = [alive EXCEPT ![n] = TRUE]
  /\ stream' = [stream EXCEPT ![n] = <<>>]
  /\ missed' = [missed EXCEPT ![n] = @ \/ Joining]
  /\ UNCHANGED <<docker, loop, key, reaper, update>>

\* The new process subscribes to the events and then sends itself
\* interlock-start (server.go); the connect event of a container that is
\* joining its network has gone by.
Restart(n) ==
  /\ ~alive[n]
  /\ alive' = [alive EXCEPT ![n] = TRUE]
  /\ stream' = [stream EXCEPT ![n] = <<Event("interlock-start", NoContainer)>>]
  /\ missed' = [missed EXCEPT ![n] = @ \/ Joining]
  /\ UNCHANGED <<docker, loop, key, reaper, update>>

Next ==
  \/ Environment
  \/ \E a \in Apps : Settle(a)
  \/ \E n \in Nodes : \/ EventLoop(n) \/ Age(n) \/ Reaper(n) \/ Updater(n)
                      \/ Crash(n) \/ Restart(n)

Spec == Init /\ [][Next]_vars

(***************************************************************************)
(* Go runs a goroutine that can run, time passes, the engine finishes      *)
(* connecting, and a crashed instance is restarted (restart: always in     *)
(* docs/examples/nginx-ucp/docker-compose.yml).  Users owe nothing.        *)
(***************************************************************************)
Fairness ==
  /\ \A a \in Apps : WF_vars(Settle(a))
  /\ \A n \in Nodes : /\ WF_vars(EventLoop(n))
                      /\ WF_vars(Age(n))
                      /\ WF_vars(Reaper(n))
                      /\ WF_vars(Updater(n))
                      /\ WF_vars(Restart(n))

FairSpec == Spec /\ Fairness

(***************************************************************************)
(* Properties                                                              *)
(***************************************************************************)

Containers == Apps \cup Proxies \cup {NoContainer}

Kinds == {"interlock-start", "start", "stop", "kill", "destroy",
          "connect", "disconnect"}

Events == [kind : Kinds, id : Containers]

Stages == {"idle", "check", "list", "generate", "save", "connect", "reload"}

DockerTypeOK ==
  /\ ctr \in [Apps -> {"new", "running", "stopped", "removed"}]
  /\ net \in [Apps -> {"no", "joining", "yes"}]
  /\ present \in Seq(Proxies)
  /\ joined \subseteq Proxies
  /\ file \in [Proxies -> SUBSET Apps]
  /\ loaded \in [Proxies -> SUBSET Apps]
  /\ changes \in Nat /\ faults \in Nat /\ crashes \in Nat

LoopTypeOK ==
  /\ alive \in [Nodes -> BOOLEAN]
  /\ hnd \in [Nodes -> {"idle", "poll", "set"}]
  /\ target \in [Nodes -> Containers]
  /\ tries \in [Nodes -> 0 .. ConnectRetries]
  /\ key \in [Nodes -> {"none", "young", "old"}]
  /\ reaper \in [Nodes -> {"idle", "delete", "send"}]
  /\ missed \in [Nodes -> BOOLEAN]

UpdateTypeOK ==
  /\ upd \in [Nodes -> Stages]
  /\ todo \in [Nodes -> SUBSET (Apps \cup Proxies)]
  /\ \A n \in Nodes :
       todo[n] \subseteq (IF upd[n] = "generate" THEN Apps ELSE Proxies)
  /\ cfg \in [Nodes -> SUBSET Apps]
  /\ seen \in [Nodes -> Seq(Proxies)]

\* The state has its types; in particular the work of a stage is made of
\* containers that stage handles, and a polled container is a known one.
TypeOK ==
  /\ DockerTypeOK
  /\ LoopTypeOK
  /\ UpdateTypeOK
  /\ stream \in [Nodes -> Seq(Events)]

\* An event that will request a reload when its turn comes.
Triggers(e) ==
  \/ e.kind \in {"interlock-start", "destroy"}
  \/ e.kind \in {"start", "stop", "connect", "disconnect"}
       /\ IsExposedContainer(e.id)

\* A reload is on its way that will begin with a fresh container list: the
\* event is queued or being handled, the cache entry waits for its ttl, or
\* the reaper is about to signal.
Requested(n) ==
  \/ \E e \in Members(stream[n]) : Triggers(e)
  \/ hnd[n] = "set"
  \/ hnd[n] = "poll" /\ IsExposedContainer(target[n])
  \/ key[n] # "none"
  \/ reaper[n] # "idle"

\* What instance n last read of app a is not what Docker says now.
Stale(n, a) == ~(a \in cfg[n] <=> Serving(a))

\* No lost update: when an exposed container has changed since the instance
\* read it, another read is on its way - although the cache merges requests,
\* the handler drops signals as "too many requests", a reload runs for
\* seconds, and haproxy gives up when a listed container is gone.  Lost is
\* only what a failed call or a late join hides from HandleEvent (missed).
NoLostUpdate ==
  \A n \in Nodes : alive[n] /\ ~missed[n] =>
    \A a \in Exposed : Stale(n, a) =>
      \/ Requested(n)
      \/ upd[n] \in {"check", "list"}
      \/ upd[n] = "generate" /\ a \in todo[n]

\* haproxy's GenerateProxyConfig gives up on a container that is gone; that
\* is safe because the container's destroy event asks for the next reload.
AbortIsCovered ==
  \A n \in Nodes :
    /\ alive[n] /\ ~missed[n]
    /\ upd[n] = "generate"
    /\ \E a \in todo[n] : ctr[a] = "removed"
    => Requested(n)

Quiet(n) ==
  /\ alive[n] /\ stream[n] = <<>> /\ hnd[n] = "idle"
  /\ key[n] = "none" /\ reaper[n] = "idle" /\ upd[n] = "idle"

Desired == {a \in Exposed : Serving(a)}

\* When nothing is left to do and nothing was missed, every proxy serves
\* exactly the running, reachable containers.
QuietMeansCurrent ==
  (\A n \in Nodes : Quiet(n) /\ ~missed[n]) =>
    \A p \in Members(present) : loaded[p] \cap Exposed = Desired

\* "Interlock will reload all containers with that label whenever the Nginx
\* config is updated": at rest, no proxy still runs an older file.
QuietMeansReloaded ==
  (\A n \in Nodes : Quiet(n) /\ ~missed[n]) =>
    \A p \in Members(present) : loaded[p] = file[p]

\* However the copies of several instances interleave, at rest every proxy
\* that an instance knows of has the right file - which instance signals the
\* proxy is another matter.  (A proxy that was started since the last update
\* is not known: its start event is ignored.)
QuietMeansSaved ==
  (\A n \in Nodes : Quiet(n) /\ ~missed[n]) =>
    \A n \in Nodes : \A p \in Members(seen[n]) : file[p] \cap Exposed = Desired

\* A proxy never serves an upstream in a network it is not connected to:
\* an instance connects the networks before it reloads (unless a call
\* failed).  Only with one instance: another one may reload the file between
\* this one's copy and its connect.
ReachableUpstreams ==
  faults = 0 =>
    \A p \in Proxies : loaded[p] \cap Overlay # {} => p \in joined

\* With several instances the gap closes: at rest, whoever reloaded it, a
\* proxy is connected to the network of every upstream it serves (unless a
\* call failed or an instance died between its copy and its connect: the
\* upstream may be gone by the time the connect is due again).
QuietMeansReachable ==
  faults = 0 /\ crashes = 0 /\ (\A n \in Nodes : Quiet(n)) =>
    \A p \in Proxies : loaded[p] \cap Overlay # {} => p \in joined

\* "Interlock will re-configure Nginx upon a container event (start, stop,
\* kill, remove, etc)": once users leave the containers alone, the proxies
\* come to serve exactly the running, reachable containers, and keep doing
\* so, unless a container joined its network after its polls had ended.
Converges ==
  <>[]((\A n \in Nodes : ~missed[n]) =>
         \A p \in Members(present) : loaded[p] \cap Exposed = Desired)

\* Interlock comes to rest: the events its own reloads cause (kill, stop,
\* start and connect of proxies) do not make it reload again.
ComesToRest == <>[](\A n \in Nodes : Quiet(n))

-----------------------------------------------------------------------------
(* Refinement                                                              *)

One(b) == IF b THEN 1 ELSE 0

\* The requests instance n holds: the cache entry, the reaper's blocked send
\* and a signal the handler has received but not yet acted upon.
Tokens(n) == One(key[n] # "none") + One(reaper[n] = "send")
               + One(upd[n] = "check")

Signal(n) == INSTANCE ReloadSignal
               WITH up <- alive[n], tokens <- Tokens(n),
                    running <- upd[n] \notin {"idle", "check"}

\* Cache, reaper and handler together implement the coalescing signal: the
\* last request held is never dropped, it starts an update.
ImplementsSignal ==
  /\ \A n \in Nodes : Signal(n)!Init
  /\ [][\A n \in Nodes : [Signal(n)!Next]_(Signal(n)!vars)]_vars
=============================================================================
