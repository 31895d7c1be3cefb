----------------------------- MODULE ProxyConfig ----------------------------
(***************************************************************************)
(* GenerateProxyConfig of the two backends (ext/lb/nginx/generate.go,      *)
(* ext/lb/haproxy/generate.go) with the label helpers of ext/lb/utils: one *)
(* step per listed container, each of which adds to maps keyed by host.    *)
(*                                                                         *)
(* A name, a host or a path is a sequence of tokens, so that joining names *)
(* and replacing "/" and "." by "_" are what they are in the code.  The    *)
(* labels of a container are a function on the labels it has; labels that  *)
(* may be repeated are sequences, in the order Go's map yields them.       *)
(***************************************************************************)
EXTENDS Integers, Sequences, FiniteSets

CONSTANTS
  Containers,      \* inspected containers: records, see ContainerAssumption
  MaxListed,       \* bound on the containers that Docker lists
  Backends,        \* subset of {"nginx", "haproxy"}
  OverrideAddress  \* BackendOverrideAddress of the configuration, or ""

Fields == {"gone", "hostname", "domainname", "labels", "aliases",
           "websockets", "options", "ports", "joined"}

ASSUME ContainerAssumption ==
  /\ \A c \in Containers :
       /\ DOMAIN c = Fields
       /\ c.gone \in BOOLEAN       \* removed since the list: inspect fails
       /\ c.aliases \in Seq(Seq(STRING))
       /\ \A p \in DOMAIN c.ports :
            /\ p \in [num : Nat, proto : {"tcp", "udp"}]
            /\ c.ports[p] \in Seq([ip : STRING, port : Nat])  \* its bindings
  /\ MaxListed \in Nat
  /\ Backends \subseteq {"nginx", "haproxy"}

VARIABLES
  backend,   \* the backend that runs
  list,      \* the containers, as listed
  i,         \* the container whose turn it is
  pc,        \* "loop", "done", "abort" (an error is returned) or "panic"
  up,        \* host -> its upstreams: container and address
  names,     \* host -> server names                      (nginx)
  roots,     \* host -> context root: its name and path
  opts,      \* host -> the options that every container overwrites
  cert,      \* host -> certificate                       (nginx)
  certKey,   \* host -> key of the certificate            (nginx)
  check,     \* host -> health check                      (haproxy)
  bopts,     \* host -> backend options                   (haproxy)
  ws,        \* host -> websocket endpoints               (nginx)
  networks   \* the networks the proxies have to join

maps == <<up, names, roots, opts, cert, certKey, check, bopts, ws, networks>>
vars == <<backend, list, i, pc, maps>>

-----------------------------------------------------------------------------
(* Go's maps and strings                                                   *)

Members(s) == {s[j] : j \in 1 .. Len(s)}

Put(f, k, v) == [x \in DOMAIN f \cup {k} |-> IF x = k THEN v ELSE f[x]]

\* What reading a missing key gives is the zero value of the type.
Get(f, k, zero) == IF k \in DOMAIN f THEN f[k] ELSE zero

Add(f, k, s) == Put(f, k, Get(f, k, <<>>) \o s)

\* The same value for, or one more element at, each key of a sequence.
PutEach(f, ks, v) ==
  [x \in DOMAIN f \cup Members(ks) |-> IF x \in Members(ks) THEN v ELSE f[x]]

AddEach(f, ks, e) ==
  LET times(x) == Cardinality({j \in 1 .. Len(ks) : ks[j] = x})
  IN  [x \in DOMAIN f \cup Members(ks) |->
         Get(f, x, <<>>) \o [j \in 1 .. times(x) |-> e]]

Replace(s, a, b) == [j \in 1 .. Len(s) |-> IF s[j] = a THEN b ELSE s[j]]

-----------------------------------------------------------------------------
(* The label helpers                                                       *)

Has(c, l) == l \in DOMAIN c.labels

Label(c, l, default) == IF Has(c, l) THEN c.labels[l] ELSE default

Hostname(c) == Label(c, "hostname", c.hostname)

Domain(c) == Label(c, "domain", c.domainname)

ContextRoot(c) == Label(c, "context_root", <<>>)

ContextRootRewrite(c) == Has(c, "context_root_rewrite")

ContextRootName(c) == Replace(ContextRoot(c), "/", "_")

SSLEnabled(c) == Has(c, "ssl")

SSLOnly(c) == Has(c, "ssl_only")

SSLBackend(c) == Has(c, "ssl_backend")

SSLBackendTLSVerify(c) == Label(c, "ssl_backend_tls_verify", "none")

SSLCertName(c) == Label(c, "ssl_cert", "")

SSLCertKey(c) == Label(c, "ssl_cert_key", "")

IPHash(c) == Has(c, "ip_hash")

BalanceAlgorithm(c) == Label(c, "balance_algorithm", "roundrobin")

HealthCheck(c) == Label(c, "health_check", "")

NotANumber == -1

\* An empty interval and 0 both stand for the default.
HealthCheckInterval(c) ==
  LET v == Label(c, "health_check_interval", 0)
  IN  IF v = 0 THEN 5000 ELSE v

AliasDomains(c) == c.aliases

BackendOptions(c) == c.options

WebsocketEndpoints(c) == c.websockets

-----------------------------------------------------------------------------
(* Where a container is found                                              *)

OverlayEnabled(c) == Has(c, "network")

Published(c) == {p \in DOMAIN c.ports : c.ports[p] # <<>>}

NoPort == 0

\* BackendOverlayAddress finds the container in its network, and takes any
\* port it exposes; BackendAddress needs a published port.
Reachable(c) ==
  IF OverlayEnabled(c) THEN c.labels.network \in c.joined
                       ELSE Published(c) # {}

OverlayPorts(c) ==
  IF Has(c, "port") THEN {c.labels.port}
  ELSE IF DOMAIN c.ports = {} THEN {NoPort}
  ELSE {p.num : p \in DOMAIN c.ports}

\* The ports with the labelled number, over TCP or UDP.
LabelledPorts(c) ==
  {p \in DOMAIN c.ports : Has(c, "port") /\ p.num = c.labels.port}

\* The host port of published port p, or that of the labelled one if the
\* container has it.
HostPorts(c, p) ==
  IF LabelledPorts(c) = {} THEN {c.ports[p][1].port}
  ELSE {c.ports[q][1].port : q \in LabelledPorts(c) \cap Published(c)}

Address(ip, port) == [ip |-> ip, port |-> port]

\* Ranging over a map has no order: the IP address is that of any published
\* port, also when the host port is that of another one.
BackendAddresses(c) ==
  UNION {{Address(IF OverrideAddress # "" THEN OverrideAddress
                  ELSE c.ports[p][1].ip, q) : q \in HostPorts(c, p)} :
           p \in Published(c)}

\* In an overlay network, the network stands for the address in it.
Addresses(c) ==
  IF OverlayEnabled(c)
  THEN {Address(c.labels.network, p) : p \in OverlayPorts(c)}
  ELSE BackendAddresses(c)

\* BackendAddress indexes the bindings of the labelled port without looking
\* whether it is published.
IndexesUnpublished(c) ==
  ~OverlayEnabled(c) /\ ~(LabelledPorts(c) \subseteq Published(c))

-----------------------------------------------------------------------------
(* The loop over the containers                                            *)

Init ==
  /\ backend \in Backends
  /\ list \in UNION {[1 .. n -> Containers] : n \in 0 .. MaxListed}
  /\ i = 1 /\ pc = "loop"
  /\ up = << >> /\ names = << >> /\ roots = << >> /\ opts = << >>
  /\ cert = << >> /\ certKey = << >>
  /\ check = << >> /\ bopts = << >> /\ ws = << >>
  /\ networks = {}

Named(c) == Domain(c) # <<>> \/ ContextRoot(c) # <<>>

\* The key under which a container's settings are kept.
HostOf(c) ==
  IF ContextRoot(c) # <<>> THEN ContextRootName(c)
  ELSE IF Hostname(c) \notin {Domain(c), <<>>}
  THEN Hostname(c) \o <<".">> \o Domain(c) ELSE Domain(c)

RootOf(c) == [name |-> ContextRootName(c), path |-> ContextRoot(c)]

NoOptions ==
  IF backend = "nginx"
  THEN [rewrite |-> FALSE, ssl |-> FALSE, sslOnly |-> FALSE,
        sslBackend |-> FALSE, ipHash |-> FALSE]
  ELSE [rewrite |-> FALSE, balance |-> "", sslOnly |-> FALSE,
        sslBackend |-> FALSE, tlsVerify |-> ""]

Options(c) ==
  IF backend = "nginx"
  THEN [rewrite |-> ContextRootRewrite(c), ssl |-> SSLEnabled(c),
        sslOnly |-> SSLOnly(c), sslBackend |-> SSLBackend(c),
        ipHash |-> IPHash(c)]
  ELSE [rewrite |-> ContextRootRewrite(c), balance |-> BalanceAlgorithm(c),
        sslOnly |-> SSLOnly(c), sslBackend |-> SSLBackend(c),
        tlsVerify |-> SSLBackendTLSVerify(c)]

\* haproxy leaves a container out whose check interval is not a number.
BadInterval(c) ==
  backend = "haproxy" /\ HealthCheckInterval(c) = NotANumber

PutUnless(f, k, v, zero) == IF v = zero THEN f ELSE Put(f, k, v)

\* Settings that a later container of the host does not always replace: the
\* first health check stays, and so does what a later one does not specify.
Sticky(c, k) ==
  IF backend = "nginx"
  THEN /\ cert' = PutUnless(cert, k, SSLCertName(c), "")
       /\ certKey' = PutUnless(certKey, k, SSLCertKey(c), "")
       /\ UNCHANGED <<check, bopts>>
  ELSE /\ check' = IF k \in DOMAIN check THEN check
                   ELSE PutUnless(check, k, HealthCheck(c), "")
       /\ bopts' = PutUnless(bopts, k, BackendOptions(c), <<>>)
       /\ UNCHANGED <<cert, certKey>>

\* Labelled that keeps the options a host already has.
LabelledOnce(c, aliases) ==
  LET k == HostOf(c)
  IN  /\ roots' = PutEach(roots, Append(aliases, k), RootOf(c))
      /\ opts' = Put(opts, k, Get(opts, k, Options(c)))
      /\ names' = IF backend = "nginx"
                  THEN Put(names, k, Get(names, k, <<k>>) \o aliases) ELSE names
      /\ Sticky(c, k)

\* Labelled that forgets the context root of the aliases.
LabelledNoAlias(c, aliases) ==
  LET k == HostOf(c)
  IN  /\ roots' = Put(roots, k, RootOf(c))
      /\ opts' = Put(opts, k, Options(c))
      /\ names' = IF backend = "nginx"
                  THEN Put(names, k, Get(names, k, <<k>>) \o aliases) ELSE names
      /\ Sticky(c, k)

\* Labelled that starts the server names with the first alias.
LabelledNoName(c, aliases) ==
  LET k == HostOf(c)
  IN  /\ roots' = PutEach(roots, Append(aliases, k), RootOf(c))
      /\ opts' = Put(opts, k, Options(c))
      /\ names' = IF backend = "nginx"
                  THEN Put(names, k, Get(names, k, <<>>) \o aliases) ELSE names
      /\ Sticky(c, k)

\* The settings of a container, and its aliases if it gets that far.
Labelled(c, aliases) ==
  LET k == HostOf(c)
  IN  /\ roots' = PutEach(roots, Append(aliases, k), RootOf(c))
      /\ opts' = Put(opts, k, Options(c))
      /\ names' = IF backend = "nginx"
                  THEN Put(names, k, Get(names, k, <<k>>) \o aliases) ELSE names
      /\ Sticky(c, k)

\* The container whose turn it is.
Turn(c) == pc = "loop" /\ i <= Len(list) /\ c = list[i]

Advance == i' = i + 1 /\ UNCHANGED <<backend, list, pc>>

\* nginx goes on without a container that is gone, haproxy gives up.
Gone(c) ==
  /\ Turn(c) /\ c.gone
  /\ IF backend = "nginx" THEN Advance
     ELSE pc' = "abort" /\ UNCHANGED <<backend, list, i>>
  /\ UNCHANGED maps

Unnamed(c) ==
  /\ Turn(c) /\ ~c.gone /\ ~Named(c)
  /\ Advance
  /\ UNCHANGED maps

\* Only the context root has been noted by then.
SkipBadInterval(c) ==
  /\ Turn(c) /\ ~c.gone /\ Named(c) /\ BadInterval(c)
  /\ LET k == HostOf(c)
     IN  /\ roots' = Put(roots, k, RootOf(c))
         /\ opts' = Put(opts, k, [Get(opts, k, NoOptions) EXCEPT
                                    !.rewrite = ContextRootRewrite(c)])
  /\ Advance
  /\ UNCHANGED <<up, names, cert, certKey, check, bopts, ws, networks>>

\* The code gets as far as the container's address.
Valid(c) == ~c.gone /\ Named(c) /\ ~BadInterval(c)

\* SkipUnreachable that has already noted the network.
SkipUnreachableJoined(c) ==
  /\ Turn(c) /\ Valid(c) /\ ~Reachable(c)
  /\ Labelled(c, <<>>)
  /\ networks' = IF OverlayEnabled(c) THEN networks \cup {c.labels.network}
                 ELSE networks
  /\ Advance
  /\ UNCHANGED <<up, ws>>

\* Not in its network, the network cannot be inspected, or no published port.
SkipUnreachable(c) ==
  /\ Turn(c) /\ Valid(c) /\ ~Reachable(c)
  /\ Labelled(c, <<>>)
  /\ Advance
  /\ UNCHANGED <<up, ws, networks>>

\* Index out of range, in the goroutine of the update handler.
Panics(c) ==
  /\ Turn(c) /\ Valid(c) /\ Reachable(c) /\ IndexesUnpublished(c)
  /\ Labelled(c, <<>>)
  /\ pc' = "panic"
  /\ UNCHANGED <<backend, list, i, up, ws, networks>>

\* UpstreamHosts that forgets the host when there are aliases.
UpstreamHostsAliased(c) ==
  IF backend = "nginx" \/ AliasDomains(c) = <<>> THEN <<HostOf(c)>>
                                                 ELSE AliasDomains(c)

\* nginx serves the aliases as further names of the host, haproxy as hosts of
\* their own.
UpstreamHosts(c) ==
  IF backend = "nginx" THEN <<HostOf(c)>>
                       ELSE Append(AliasDomains(c), HostOf(c))

AddUpstream(c) ==
  /\ Turn(c) /\ Valid(c) /\ Reachable(c)
  /\ Labelled(c, AliasDomains(c))
  /\ \E addr \in Addresses(c) :
       up' = AddEach(up, UpstreamHosts(c), [id |-> i, addr |-> addr])
  /\ ws' = IF backend = "nginx" /\ WebsocketEndpoints(c) # <<>>
           THEN Add(ws, HostOf(c), WebsocketEndpoints(c)) ELSE ws
  /\ networks' = IF OverlayEnabled(c) THEN networks \cup {c.labels.network}
                 ELSE networks
  /\ Advance

\* The second loop makes one host of every entry of up: see Hosts.
Build ==
  /\ pc = "loop" /\ i > Len(list)
  /\ pc' = "done"
  /\ UNCHANGED <<backend, list, i, maps>>

Next ==
  \/ \E c \in Containers :
       \/ Gone(c) \/ Unnamed(c) \/ SkipBadInterval(c) \/ SkipUnreachable(c)
       \/ Panics(c) \/ AddUpstream(c)
  \/ Build

Spec == Init /\ [][Next]_vars

-----------------------------------------------------------------------------
(* What the templates are given                                            *)

\* One host of the configuration.  haproxy calls it by its key with "."
\* replaced, or after its context root.
Host(k) ==
  [key |-> k,
   name |-> IF roots[k].path # <<>> THEN <<"ctx">> \o roots[k].name
            ELSE IF backend = "nginx" THEN k ELSE Replace(k, ".", "_"),
   servers |-> Get(names, k, <<>>),
   root |-> roots[k].path,
   upstreams |-> up[k],
   options |-> Get(opts, k, NoOptions),
   cert |-> <<Get(cert, k, ""), Get(certKey, k, "")>>,
   check |-> Get(check, k, ""),
   backendOptions |-> Get(bopts, k, <<>>),
   websockets |-> Get(ws, k, <<>>)]

Hosts == {Host(k) : k \in DOMAIN up}

\* The templates redirect to the SSL service; nginx renders a host with a
\* context root as a location of the default server, without the redirect.
Redirects(h) == h.options.sslOnly /\ (backend = "nginx" => h.root = <<>>)

(***************************************************************************)
(* Properties                                                              *)
(***************************************************************************)

\* The containers that have left their settings in the maps.
Handled == 1 .. (IF pc = "panic" THEN i ELSE i - 1)

Upstreams == UNION {Members(up[k]) : k \in DOMAIN up}

\* The state has its types, every host of nginx is known by its own name
\* first, and each backend fills its own maps only.
TypeOK ==
  /\ backend \in Backends
  /\ pc \in {"loop", "done", "abort", "panic"}
  /\ i \in 1 .. (Len(list) + 1)
  /\ \A k \in DOMAIN up : up[k] # <<>> /\ \A u \in Members(up[k]) : u.id < i
  /\ backend = "nginx" =>
       /\ DOMAIN up \subseteq DOMAIN names
       /\ \A k \in DOMAIN names : names[k] # <<>> /\ names[k][1] = k
       /\ DOMAIN check = {} /\ DOMAIN bopts = {}
  /\ backend = "haproxy" =>
       DOMAIN names = {} /\ DOMAIN cert = {} /\ DOMAIN ws = {}

\* Container j is to be an upstream of host k.
Serves(j, k) ==
  LET c == list[j]
  IN  /\ Valid(c) /\ Reachable(c)
      /\ \/ k = HostOf(c)
         \/ backend = "haproxy" /\ k \in Members(AliasDomains(c))

\* Whatever containers are skipped on the way, GenerateProxyConfig makes a
\* container an upstream of every host it names and of no other one.  (That
\* the address leads to it is not stated: see BackendAddresses.)
UpstreamsExact ==
  /\ \A k \in DOMAIN up :
       {u.id : u \in Members(up[k])} = {j \in 1 .. (i - 1) : Serves(j, k)}
  /\ \A j \in 1 .. (i - 1) :
       \A k \in {HostOf(list[j])} \cup Members(AliasDomains(list[j])) :
         Serves(j, k) => k \in DOMAIN up

\* The networks the update handler connects the proxies to are exactly those
\* of the upstreams: every upstream can be reached, and a container that is
\* skipped makes the proxies join nothing.
NetworksExact ==
  networks = {list[u.id].labels.network :
                u \in {x \in Upstreams : OverlayEnabled(list[x.id])}}

\* No template reads a missing context root (it would be a nil pointer, and
\* the whole file would not be written), and the context root that decides
\* how a host is rendered is that of a container which names the host.
HostsRender ==
  \A k \in DOMAIN up :
    /\ k \in DOMAIN roots
    /\ \E j \in Handled :
         /\ k \in {HostOf(list[j])} \cup Members(AliasDomains(list[j]))
         /\ roots[k] = RootOf(list[j])

LastOf(S) == CHOOSE j \in S : \A m \in S : m <= j

\* The options of a host are those of the last listed container that names
\* it - reachable or not - and not a mixture of several containers' labels,
\* except that haproxy takes the rewrite flag of a container which it then
\* skips; a haproxy host that is only an alias has no options at all.
OptionsOfLastListed ==
  \A k \in DOMAIN up :
    LET naming == {j \in Handled : /\ ~list[j].gone /\ Named(list[j])
                                   /\ HostOf(list[j]) = k}
        valid == {j \in naming : ~BadInterval(list[j])}
        from == IF valid = {} THEN NoOptions ELSE Options(list[LastOf(valid)])
    IN  Get(opts, k, NoOptions) =
          IF naming = {} THEN NoOptions
          ELSE [from EXCEPT !.rewrite = ContextRootRewrite(list[LastOf(naming)])]

\* "interlock.ssl_only: add a redirect to the ssl service": a host redirects
\* when all the containers it is served by ask for it.
SSLOnlyHonoured ==
  pc = "done" =>
    \A h \in Hosts :
      /\ h.root = <<>>
      /\ \A u \in Members(h.upstreams) : SSLOnly(list[u.id])
      => Redirects(h)
=============================================================================
