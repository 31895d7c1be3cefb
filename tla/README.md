# A formal model of Interlock

Interlock watches the events of a Docker engine or Swarm and keeps proxy
containers (nginx or haproxy) configured with the application containers that
run.  This directory holds TLA+ modules for the parts of Interlock that keep
state, the TLC configurations that check them, and proofs that TLAPS checks.
Source paths are relative to `src/`.

## The system

| Part | Source | State | Operations |
| --- | --- | --- | --- |
| Server | `server/server.go` | four unbuffered channels, the open event streams, the extensions | error handler, restart handler, one scanner per stream, event loop, `waitForSwarm`, poller |
| Load balancer | `ext/lb/lb.go` | the cache entry `reload`, the channel `lbUpdateChan` | `HandleEvent`, the `lbUpdateChan` handler, `ProxyContainers`, `SaveConfig`, `proxyContainersToRestart`, `isExposedContainer`, `isContainerConnected` |
| Debouncing cache | `vendor/github.com/ehazlett/ttlcache` | a map from key to time stamp | `Set`, `Get`, the ticking `reap` with its callback |
| nginx backend | `ext/lb/nginx` | none | `GenerateProxyConfig`, `Reload` (HUP) |
| haproxy backend | `ext/lb/haproxy` | the host's iptables rules | `GenerateProxyConfig`, `Reload` (restart, with SYN packets dropped around it) |
| Beacon | `ext/beacon` | the map of monitored containers, the Prometheus gauges; outside it an InfluxDB database and a push gateway | `HandleEvent`, the stats ticker, one collector goroutine per container, the push |
| Start-up | `cmd/interlock`, `config`, `client`, `loadExtensions` and `Run` of the server | the configuration, the package variable `lbUpdateChan` | `runAction`, `ParseConfig`, `SetConfigDefaults`, `GetDockerClient`, `NewLoadBalancer`, `NewBeacon`, `Run` |

How they interact: a scanner goroutine decodes the event stream and sends each
event on `eventChan`; the event loop passes it to every extension in turn.  The
load balancer's `HandleEvent` decides whether the event asks for a reload and, if
so, only sets the cache entry `reload`.  When the entry has not been refreshed for
two seconds the cache's reaper deletes it and its callback sends on
`lbUpdateChan`; the handler of that channel drops the signal if the cache already
holds a newer entry, and otherwise lists the containers, inspects them, writes the
configuration into every proxy, connects the proxies to the networks and reloads
the proxies of its share.  The reloads and network connects are themselves
container events that come back on the stream.  Errors travel on `errChan`; one
that mentions a Swarm failure makes the server wait for the Swarm and open another
stream, which begins with a synthetic `interlock-start` event.  With a
`PollInterval` there is no stream: the poller hashes the list of running
containers and sends `interlock-restart` when the hash changes.

What is hard: everything above is a chain of goroutines joined by unbuffered
channels, with Docker changing between any two calls; requests are merged by a
cache whose reaper works without regard to `Set` and `Get`; several instances
write the same files; nothing is retried and nothing is persisted, so every
recovery rests on a later event or on `interlock-start`.

What makes the parts correct:

* no container change is forgotten: while what an instance last read is out of
  date, another read is on its way (load balancer and cache);
* at rest the proxies serve exactly the running, reachable containers, and
  Interlock does come to rest;
* every proxy is in exactly one instance's share;
* updates are spaced by the ttl, and a request for a reload waits for that, for later
  requests and for nothing else;
* a host of a configuration has the upstreams, networks and options that the labels
  of the containers behind it ask for;
* the server handles what it receives, subscribes again after an outage and does
  an initial load after each subscription, and its goroutines do not wait for each
  other in a circle (they can: what holds is that nothing else stops them);
* what the poller reports is read;
* beacon monitors the running containers, keeps showing them, and forgets the others;
* the configuration comes from the source that ranks first, and every load balancer
  that is loaded has the defaults of its backend;
* SYN packets are dropped while haproxy restarts, and only then.

`PROJECT.json` lists the hazards, each at its line, with the properties aimed at
it.

## Modules

| Module | Models | Used by |
| --- | --- | --- |
| `LoadBalancer` | `HandleEvent`, the cache, the update handler, both backends, Docker around them | `MCLoadBalancer`, `LoadBalancerProofs` |
| `ReloadSignal` | abstract: a coalescing reload signal | refined by `LoadBalancer` |
| `ProxyShare` | the closed form of `proxyContainersToRestart` | `ReloadPartition`, `LoadBalancer` |
| `ReloadPartition` | the loop of `proxyContainersToRestart`, one step per slice | `HAProxyReload` |
| `Debounce` | the cache with a clock: how long a request waits | `HAProxyReload` |
| `SynFilter` | haproxy's `Reload` and its iptables rules | `HAProxyReload` |
| `HAProxyReload` | composition: a haproxy update from the request to the end of the reload | `HAProxyReloadProofs` |
| `ProxyConfig` | `GenerateProxyConfig` of both backends, the label helpers, the hosts given to the templates | `MCProxyConfig`, `ProxyConfigProofs` |
| `Server` | the goroutines and channels of `NewServer`, the poller | `ServerProofs` |
| `Beacon` | beacon with both stats backends and the push gateway | `MCBeacon`, `BeaconProofs` |
| `Startup` | from `runAction` to the listening server | `MCStartup`, `StartupProofs` |
| `ReloadPartitionProofs`, `ReloadSignalProofs` and the other `...Proofs` modules named above | theorems | |

A definition whose comment says what it does wrong ("without ...", "that does not
...") and that stands before the definition it varies is a mutant: replacing the
definition by it must break a property (`mutants` in `PROJECT.json`).

### LoadBalancer

The state of an instance is that of its three goroutines.  The event loop is
`hnd` (idle, polling a network event, or about to call `cache.Set`), with `target`
and `tries` for the poll; the cache is `key`, where time is reduced to whether the
ttl has elapsed (`Age`); the reaper is `reaper`, with expiry test, `delete` and
blocked callback as separate steps, because `Set` does not take the lock that
`reap` holds; the update handler is `upd` with the work of its stage in `todo`, the
upstreams generated so far in `cfg` and the listed proxies in `seen`.  Each Docker
call is a step: `UpdList` (the container list), `UpdInspect` (one container),
`UpdProxies` (the second list), `UpdSave` (one copy), `UpdConnect`, `UpdNodes`,
`UpdReload`.  A stage does its items in any order; the code does them in the order
of a list whose order does not matter here.

Docker is `ctr`, `net`, the proxies' `file` and `loaded`, and one event `stream` per
instance.  Every container is in a network, an overlay network or the engine's default
one; an overlay network lists a container some time after the connect event.  A
container that ends leaves its network, and the engine sends a disconnect event whatever
ended it (`vendor/github.com/docker/docker/daemon/container_operations.go:735-768`,
called from `daemon/monitor.go`): `HandleEvent` has no case for kill and die, and the
disconnect event is how a killed container leaves the configuration.  `Exposed` says
which applications pass `isExposedContainer`; only for those can the properties hold,
since events of the others are ignored.  All applications are taken to carry a host
label.  A proxy is never removed.  The image-name test for Interlock's own containers
(`strings.Index(...) > 0`) is taken to succeed.  `UpdConnect` asks whether the proxy is
connected now, where the code asks its list: if another instance has connected it since,
the code's call fails, is logged and changes nothing.  The network events of a haproxy
that is restarted are left out: their polls end, and a proxy is no exposed container.

Failures: any Docker call may fail (`MaxFaults`), with the code's reaction: logged
and skipped, or the update given up.  `missed` records that a failed call lost
something since the last list, or that a container was still joining its network when
its polls ran out or when a restarted instance came up: it becomes reachable without
another event, and nothing in the code notices.  The properties speak about `~missed`
states.  A crash (`MaxCrashes`) loses everything an instance holds, and `Restart`
begins with `interlock-start`.  A crash may be the Go runtime's reaction to the unlocked map
accesses of `Set` and `Get`.

`ReloadSignal` is what cache, reaper and handler promise together: requests are
tokens that may be merged, but the last token is consumed only by starting an
update.  `ImplementsSignal` is the refinement.

### Debounce and HAProxyReload

`Debounce` is the same cache and handler with a clock.  `entry` is the time stamp of the
key, `due` and `ticked` are the reaper's ticker with its channel of capacity one (a tick
that finds it full is dropped, as `time.Ticker` does), and the test and the delete of
`reap` are two steps, since `Set` takes no lock and may fall between them: the refreshed
entry is then deleted with the expired one, and the update begins at once.  So an update
need not follow a quiet ttl; what holds is that a ttl lies between the beginnings of two
updates (`UpdatesSpaced`).  An update takes any time up to `MaxWork`; every other
goroutine is taken to run before the clock moves, since its delay is small against the
ttl of two seconds.  `lastSet` and `owed` are history.

`HAProxyReload` runs the update that `Begin` starts: it divides the proxies
(`ReloadPartition`, whose `Next` are its steps), reloads the share of this instance
(`SynFilter`) and ends; or it gives up before that (`GiveUp`, the early returns of the
handler).  The clock stands still while the shares are computed.

### SynFilter

`configIPTables(drop)` inserts rules when `drop` is false and deletes them when it
is true; `dropSYN` and `resumeSYN` both pass false.  Any command may fail, which
ends the call and not the reload.

### ProxyConfig

One step per listed container, in the order of the list; what a container does to the
maps keyed by host depends on how far `GenerateProxyConfig` gets with it (`Gone`,
`Unnamed`, `SkipBadInterval`, `SkipUnreachable`, `Panics`, `AddUpstream`).  Both
backends are one module, with a conditional where they differ: server names and
certificates (nginx), health checks, backend options and aliases as hosts of their own
(haproxy).  Names are sequences of tokens, so that `hostname.domain` and the replacement
of `/` and `.` by `_` are what they are in the code: the context roots `/a/b` and `/a_b`
share a key.  Ports are keyed by number and protocol and have bindings of an IP address
and a port of the host.  `BackendAddress` takes them from a Go map, so the address is
any of `Addresses`: the IP address is that of some published port, the host port that of
a labelled one, over TCP or UDP, if the container has it.  Whether it leads to the
container is not stated; see the list of what was seen below.  `Hosts` is what the
second loop builds, and `Redirects` the one conditional of the templates a property is
about.  Health checks, certificates and backend options stick, so a host may have the
certificate of one container with the key of another.

### Server

One control variable per goroutine (`main`, `eh`, `rs`, `scan[k]`, `loop`, `pl`).  The
channels are unbuffered, so a send is one step of sender and receiver and is
enabled only when the receiver is at its receive.  A restart opens another stream
and never closes the old one, as in the code (the `defer` in the loop never runs),
so later events arrive twice.  `blind` is a history variable: an event was
published while no stream was open, and no initial load has begun since.  A call may
fail with a text that has a "500" or with another one (`FailKinds`); only the first makes
the error handler wait for the Swarm and ask for another stream.  `Circle` says that the
error handler waits for the restart handler and that one for the error handler, directly
or through the event loop: `OnlyCirclesBlock` says that this is the only way in which
error handling stops for good, and `EventsDrain` and `OutageResubscribes` that nothing
else keeps events from the extensions or an outage from being followed by another stream,
except a stream that cannot be opened for a reason without a "500".

With polling, `world` says which container runs with which public port and `Hash` is
what `runPoller` makes of it: the sorted ids and, separately, the sorted ports, so
two containers that swap ports have the same hash.  `due` is a read that an extension
will make after the event, `applied` the hash of what it read.  A change between the
poll's list and that read sets `missed`: if it is undone before the next poll, the
extensions keep what they read, because the stored hash fits again.

### Beacon

The map of monitored containers is shared by event loop and ticker without a lock.
`Iterate` takes the map as it is at some moment; `MapRace` is the outcome in which
the Go runtime ends the process.  `gauges` is the set of containers with values on
`/metrics`; `resetStats` resets all of them, whichever container ended.  Each
collector makes its calls one by one (`col`), and any of them may fail.  `db` is
InfluxDB's database, which a new client creates if it is missing and which an
operator may drop; `recorded` the containers with points since the last tick.  The
stats of a stopped container are zeros, its memory percentage is 0/0, and a point
with that value is refused, so the batch is given up after its first write.
The list at `interlock-start` may fail (`ListFails`); if the text of the error has a "500"
the server opens another stream, which begins with another `interlock-start`
(`Resubscribe`), and otherwise the containers it would have had are `unlisted` until they
are started again.  `pushed` is what the gateway holds under the id of this container.
`late`, `signalled` and `unlisted` are history variables.

### Startup

The steps of `runAction` over every combination of environment, key-value store and
file; `cfg` after `ParseConfig`, with each option reduced to whether it is set; then
`GetDockerClient`, one step per extension, and `Run`.  The handler goroutine of a load
balancer evaluates `range lbUpdateChan` at some later moment (`HandlerBegins`), and
the restart handler reads `PollInterval` at any time while `Run` may change it
(`ChooseMode`).  `ToLower` is a constant operator of which only is assumed that the names
the code knows are in lower case; the run gives it the names of its configurations.
`ParseConfig` also gives every extension the global rules; that is
data no property here looks at.

## Runs

Passing runs:

* `reload` (`HAProxyReload`): up to 4 instances and 6 proxies, which includes fewer
  proxies than instances and every remainder, two ports, a ttl of 2, updates of up to
  5 and a clock of 8: an update may outlast two ticks, and requests may come before,
  during and after it.  Shows `UpdatesSpaced` and `Prompt` (an update begins only for a
  new request, a ttl or more after the one before, and within two of the last request
  unless one was already running),
  `EachProxyExactlyOnce`, `ComputesShare`, that no slice is out of range, and
  `DropsDuringRestart`.
* `lb_nginx`: one instance, one nginx proxy, one container with published ports and one
  in an overlay network, each new, running or stopped at first, two operations and one
  crash.  Two operations are what it takes for a change to fall between the list and the
  inspect of an update that another change caused; the crash may fall anywhere.  The
  operations are all there are but the start of a proxy, which the code ignores.  Shows
  `NoLostUpdate`, the two "at rest" invariants, `ReachableUpstreams`, the refinement
  `ImplementsSignal`, and under fairness `Converges` and `ComesToRest`.
* `lb_ha`: two instances, haproxy, an overlay container, a proxy that may be added, one
  operation (kill, remove or a new proxy) and one failing Docker call.  One operation
  is enough for the two instances to generate different configurations and interleave
  their copies, connects and restarts.  A removal exercises haproxy's abort
  (`AbortIsCovered`).  `QuietMeansSaved`: at rest every proxy an
  instance knows has the right file.  `QuietMeansReachable`: at rest it is connected
  to what it serves, if no call failed and no instance died (one that dies between its
  copy and its connect leaves the file to another, which may find the upstream gone and
  nothing to connect); before that, one instance may reload the file of the other
  before the other has connected the proxy, so `ReachableUpstreams` only holds for one
  instance.
* `server`: an extension, two published lines (events, blank events, garbage) or three
  changes of two polled containers with two ports, two failing calls with either kind of
  text, an outage and one stream that ends.  Two failing calls are enough for the circle
  of sends, so the properties are checked where it happens.
* `beacon`: two containers (one matched by a rule), either backend, with and without a
  gateway, with the stream and with polling, three operations, one fatal race or
  failing call (the initial list, a collector's calls, the push).
* `proxy_config`: every list of up to three of a set of containers that share hosts,
  aliases, networks and context roots, some with several ports bound to different
  addresses, for both backends.  Three are needed for one
  container to be overwritten by a second while a third gives the host its upstream.
* `startup`: ten configuration texts with up to four extensions (several load balancers,
  "HAProxy" and "NGINX", beacons with every kind of interval) in each of the three
  sources, every failure of a source, and every environment of the Docker client.

`ConnectRetries` is 1 where the code has 5: the number only matters relative to how long
a container takes to appear in its network, and it may take shorter or longer than the
polls.  Every cfg disables
deadlock checking: users may stop acting and Interlock then rests, the clock of
`reload` has a bound, `GenerateProxyConfig` returns, and a start that failed is over.

A disagreement between the code and what the repository says is a finding in
`PROJECT.json`.  One that only some behaviours show is the subject of a violating run,
which checks what the repository says; one that every behaviour shows is what a passing
property states of the code, and the finding quotes the other side:

* `ServesSource` (run `startup`): `INTERLOCK_CONFIG` outranks a file given with
  `--config`, where `docs/configuration.md:60-61` says "If you pass command flags they
  will override the environment data";
* `OutageResubscribes` (run `server`): a stream that cannot be opened for a reason
  without a "500" is never tried again, where `docs/configuration.md:48-49` says
  "Interlock has the ability to reconnect if there is a failure".

Violating runs:

* `lb_two_instances`: every instance writes every proxy's file but signals only its
  share, so a proxy can be left running an older file than the one it has.
* `server_errors`: event loop, error handler and restart handler wait for each
  other for ever after two failing events (`Circle`).
* `syn_resume`: `resumeSYN` inserts the DROP rules again.
* `beacon_polling`: with polling beacon monitors nothing, because `interlock-restart`
  is no case of its `HandleEvent`.
* `proxy_options`: a stopped container that is listed last decides whether a host
  redirects to SSL.

Seen in the models but without a run of their own:

* a container that appears in its overlay network after the five polls of its connect
  event, or whose connect event was sent while Interlock was down and that appears only
  after the update at `interlock-start`, is not served until another event (dropping
  `missed` from `NoLostUpdate` shows it in `lb_nginx`);
* an event stream that ends is not replaced, since nothing sends to `eventErrChan`;
  `docs/configuration.md:49-50` concedes that "you can get stuck";
* an instance that is down still gets a share; a proxy started after the applications
  is not configured until one of them changes;
* beacon takes every signal for the end of a container; label and name rules are not
  implemented; a rule whose regular expression is wrong panics;
* a failed list at `interlock-start` leaves the running containers out of beacon's map,
  unless the text of the error has a "500"; a "Beacon" with a `StatsInterval` is loaded
  without the default of `StatsInfluxDBPrecision`; a container of Interlock that is
  replaced by another leaves its group on the push gateway;
* a network event whose container never shows up reloads anyway, where the comment in
  `HandleEvent` says "log and bail" (which is what makes disconnects work);
* `BackendAddress` panics when the labelled port is exposed and not published (the step
  `Panics`), combines the IP address of one published port with the host port of
  another, and passes over a label that names no port of the container, where
  `docs/interlock_data.md:31-35` says that the proxy will use the labelled one; aliases
  are hosts of their own in haproxy, and get no options; a websocket endpoint that two
  containers of a host name makes two equal locations in nginx;
* of several load balancer entries only the last is heard, and one that fails to load
  (named "Nginx", say) silences those before it.

### Fairness

Weak fairness of each goroutine's steps: Go's scheduler runs a goroutine that can
run, and a send on an unbuffered channel that stays possible is made.  `Age`: time
passes.  `Settle`: the engine finishes connecting.  `Restart`: deployments use
`restart: always` (`docs/examples/nginx-ucp/docker-compose.yml`).
`SetHealth(TRUE)`: a Swarm that is away comes back, which is what `waitForSwarm`
waits for.  Users, failing calls, crashes and races owe nothing.  In `LoadBalancer`
the operations are bounded, so the liveness properties are about what happens once
users leave the containers alone.  That an unending series of events, each within a
ttl of the one before, postpones a reload for ever is what `Prompt` leaves open: it
bounds the wait from the last request.  In `Server` the poller's ticks are fair, and in
`Beacon` the stats ticker's.

## Proofs

TLAPS checks all proofs to the last leaf.  The theorems hold for every value of the
constants that satisfies the named assumptions of the modules (`ListAssumption`:
the listed instances and proxies are sequences of them; `ContainerAssumption`:
overlay and exposed containers are applications, and applications are not proxies;
`BoundAssumption`, `BoundsAssumption`: the bounds are numbers; `DebounceAssumption`: the
ttl is a positive number and an update takes a number of time units;
`PortsAssumption`: at least one port; in `Startup`, `MeaningAssumption`: a text that
decodes is a configuration, and `ToLowerAssumption`: "haproxy", "nginx" and "beacon" are
in lower case; in `ProxyConfig`, that aliases are a list of names and ports have lists of
bindings).  A theorem that needs more says so in its ASSUME.

### What is proved

* `ReloadPartitionProofs`: `PartitionTypeOK` (no slice of the loop is out of range),
  `PartitionExact` (every proxy is in exactly one share) and
  `PartitionComputesShare` (the loop computes the closed form of `ProxyShare`), for
  lists of any length.  The inductive invariant says that after k nodes the loop has
  dealt out the slices of the nodes 1 to k and keeps the front of the list; the rest
  is arithmetic on `p \div n`.
* `LoadBalancerProofs`: `LoadBalancerTypeOK`, `LoadBalancerNoLostUpdate` and
  `LoadBalancerAbortIsCovered`, for any number of instances, containers, proxies,
  operations, failing calls and crashes, and for both backends.  The invariants about
  rest: `LoadBalancerQuietMeansSaved` and `LoadBalancerQuietMeansReachable` for any
  number of instances; and, for one instance, `LoadBalancerReachableUpstreams`,
  `LoadBalancerQuietMeansReloaded` and `LoadBalancerQuietMeansCurrent`.  That there is
  one instance (`Nodes = {n}`, which lists itself alone or finds no list) is needed:
  `lb_two_instances` is the counterexample for two.  `LoadBalancerQuietMeansCurrent`
  also needs that no proxy is added (`"proxy" \notin Ops`), because the start of a proxy
  asks for no reload.
* `ReloadSignalProofs`: `LoadBalancerImplementsSignal`, the refinement
  `Spec => ImplementsSignal`.  Each instance's steps
  are a `Request` (setting the entry, or the reaper's delete), a `Merge` (the signal
  dropped as "too many requests", which is safe because the cache holds an entry),
  a `Begin`, an `End`, a `Crash`, a `Boot` or a stutter.
* `HAProxyReloadProofs`: `ReloadImplementsCache`, the refinement
  `ReloadSpec => CacheSpec` (dividing and reloading take no step of the cache but
  `Begin` and `End`), and from it `ReloadUpdatesSpaced` and `ReloadPrompt`, for every ttl
  and every duration of updates; and `ReloadDropsDuringRestart` for any number of ports.
* `ServerProofs`: `ServerTypeOK`, `ServerOneStreamPerError` (each stream but the first was
  asked for by an error of its own), `ServerNoBlindSpot` and `ServerPolledIsRead`, for any
  number of extensions, streams, errors, containers and ports.
* `BeaconProofs`: `BeaconTypeOK`, `BeaconLeftoverWasInFlight` and
  `BeaconMonitorsRunning`, for any containers, rules and operations, through fatal races
  and failing calls, the initial list included.
* `StartupProofs`: all five invariants of `Startup`, for all texts, flags, environments
  and configurations with any number of extensions.
* `ProxyConfigProofs`: all five invariants of `ProxyConfig`, for any containers with any
  labels, listed in any number and order, and for both backends.

### The inductive invariants

The invariant behind `ReloadPrompt` and `ReloadUpdatesSpaced` is `CacheInv`.  An entry
carries the time of the last request.  A request that is owed is in the cache or on its
way to the handler; and once the reaper has found an expired entry, a ttl has passed
since the last update began, because the entry was set after that.  The ticker's next
tick is less than two ttls after the entry unless a tick is already waiting in its
channel: this is why the ticks lost while the reaper is blocked do no harm.
`ReloadDropsDuringRestart` needs that within `dropSYN` the ports before the current one
have a rule.

The invariant behind `LoadBalancerNoLostUpdate` is
`IInv == TypeOK /\ NetRunning /\ Uninspected /\ \A n \in Nodes : NodeInv(n)`, where
`NodeInv(n)` joins three facts about one instance that has missed nothing.  They need
each other.  A container that has joined its network becomes reachable without an
event, so an update can only be due if the poll of its connect event has not ended
(`Awaited`); haproxy's abort throws away what was still to be inspected, so a
request must be there already (`AbortIsCovered`).  `NetRunning` (a network lists
running containers only) gives the exposure of a container whose disconnect event
arrives; `Uninspected` (what is still to be inspected has not been generated) makes
an inspect leave its container up to date.  `UpdList` starts from nothing and clears
`missed`, and a step of one instance changes nothing in another but its stream.

The invariants about rest are stronger than what they conclude, because several
instances write the same files.  `SavedInv` says that some instance answers for the file
of every proxy that any instance knows: it is about to generate afresh (`Renews`), it has
the copy still to make, or the file is what it generated last.  It need not be the
instance that knows the proxy; the one that copies last takes over.  At rest only the
third case is left, and `NoLostUpdate` makes that configuration the right one.  `JoinInv`
is the same idea for networks: a proxy whose file or process has an overlay upstream is
connected, or some instance is between its copy and its connect.  With one instance,
`Prepared` says how far the copies and connects of the update have come, and
`ReloadedInv` that a proxy whose file is newer than what it runs has a reload before it.
These rest on `RequestStep`, a request is never lost except by the update it starts.

`ServerInv` adds to the types that there is one stream per error, which bounds the
streams, and that a scanner with something to send has it in its queue.  `NoBlindSpot` is
then inductive.  `PollInv` says what `stored` is while the read is still to come
(the hash of the containers as they are) and afterwards (what was read).

`StreamInv` of beacon: of the events still in the stream, the last one about a container
agrees with what the container has become; a container of which the stream says nothing
more is not in the map if it has ended; and if no list is to come either, it is in the
map if it runs, but for the signalled and the unlisted ones.  `LeftoverInv` accounts for
the collectors that are under way as well as for the gauges.

`StartupInv`: the configuration after `ParseConfig` has the defaults of its extensions;
the text is that of the source that ranks first so far; the channel in `hears` of the last
load balancer is the current one; and the two readers of `PollInterval` agree on whether
there is one, although `Run` replaces a short one in between.

In `ProxyConfigProofs` the properties hold of every host that has upstreams, and the
invariants (`UpInv`, `RootsInv`, `MapsInv`, `OptionsInv`) of every key of the maps, or of
every name: a host may get its settings from a container that is skipped, long before
another gives it an upstream.  `AddEachProperties` is the lemma about Go's maps of slices
that they share.

### Only model-checked

Every liveness property (`Converges`, `ComesToRest`, `OnlyCirclesBlock`, `EventsDrain`,
`OutageResubscribes`, `PollKeepsUp`, `ExposesRunning`, `GatewayFollows`), since fairness
and ENABLED are outside the prover; and what the violating runs show.  Every invariant,
every safety property of steps and the refinement of the passing runs has a theorem.

## Not modelled

The text of the templates, apart from the redirect to SSL; the values of stats and of
options, where only their presence decides something; the network cleanup goroutine,
to which nothing sends; `parseSwarmNodes`, which has no caller; metrics counters,
version, and the reading of the container's id, whose success is an input of `Startup`.

## Plan

1. Done: `ReloadPartition`, `LoadBalancer` with its refinement, `Server`, `Beacon` and
   `SynFilter`; then `Debounce` and its composition in `HAProxyReload`, the poller,
   `ProxyConfig`, `Startup`, and beacon's other backend and gateway.
2. Done: theorems for every invariant that the passing runs check.
3. Left: what can be said of several instances at rest in place of `QuietMeansReloaded`,
   which is false for them, and of proxies that are added, in place of `QuietMeansCurrent`.
