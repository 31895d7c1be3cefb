------------------------------ MODULE Startup -------------------------------
(***************************************************************************)
(* `interlock run` up to the listening server: runAction's three sources   *)
(* of configuration, ParseConfig with the defaults, the Docker client,     *)
(* loadExtensions with the constructors of the extensions, and Run.        *)
(*                                                                         *)
(* A text of a configuration is an element of Texts; what toml.Decode      *)
(* makes of it is Meaning.  An option is kept as whether it has a value    *)
(* other than the zero of its type, all that the defaults look at.         *)
(***************************************************************************)
EXTENDS Integers, Sequences

CONSTANTS
  Texts,    \* texts of configurations, defaultConfig among them
  Default,  \* defaultConfig
  Broken,   \* those that toml.Decode refuses
  Meaning,  \* text -> configuration, for the others
  ToLower(_)  \* strings.ToLower

\* What the flags and the machine hold where runAction looks.
Empty == ""

None == "none"             \* the flag is not given

KVStores == Texts \cup {None, Empty, "missing key", "bad certificate",
                        "bad address", "unreachable"}

Files == Texts \cup {None, Empty, "missing", "unreadable"}

\* Lengths of PollInterval and StatsInterval in milliseconds (0 for those that
\* are not positive); no text, and a text that is no duration.
NoInterval == -1

BadInterval == -2

Intervals == Nat \cup {NoInterval, BadInterval}

\* The options of an extension that the constructors or the defaults look at.
Options == {"ConfigPath", "PidPath", "TemplatePath", "MaxConn", "Port",
            "ConnectTimeout", "ServerTimeout", "ClientTimeout", "AdminUser",
            "SSLDefaultDHParam", "SSLServerVerify", "User", "WorkerProcesses",
            "RLimitNoFile", "ProxyConnectTimeout", "ProxySendTimeout",
            "ProxyReadTimeout", "SendTimeout", "SSLCiphers", "SSLProtocols",
            "StatsInterval", "StatsInfluxDBPrecision"}

\* An entry of Extensions: which options it gives, whether the template it
\* names can be read, and StatsInterval.
ExtensionConfigs == [name : STRING, options : SUBSET Options, template : BOOLEAN,
                     interval : Intervals]

Configs == [exts : Seq(ExtensionConfigs), url : {"good", "bad", Empty},
            certs : SUBSET {"ca", "cert", "key"}, metrics : BOOLEAN,
            poll : Intervals]

ASSUME StartupAssumption ==
  /\ Default \in Texts \ Broken /\ Broken \subseteq Texts
  /\ Texts \cap {None, Empty, "missing key", "bad certificate", "bad address",
                 "unreachable", "missing", "unreadable"} = {}

\* The names that loadExtensions knows are in lower case.
ASSUME ToLowerAssumption ==
  \A name \in {"haproxy", "nginx", "beacon"} : ToLower(name) = name

\* What a text decodes to is a configuration.
ASSUME MeaningAssumption == \A t \in Texts \ Broken : Meaning[t] \in Configs

VARIABLES
  at,        \* the step of runAction, "serving" at last, or "fatal"
  env,       \* INTERLOCK_CONFIG
  kv,        \* what --discovery leads to
  file,      \* what --config leads to
  host,      \* DOCKER_HOST, DOCKER_CERT_PATH with DOCKER_TLS_VERIFY, cgroup
  data,      \* the text to parse
  cfg,       \* the parsed configuration: {} or a singleton
  next,      \* the extension to load next
  loaded,    \* indices of the extensions in s.extensions
  chan,      \* lbUpdateChan: the number of channels made so far
  hears,     \* loaded load balancer -> the channel its handler ranges over,
             \* or 0 while its goroutine has not begun
  mode,      \* the restart handler's choice: "stream", "poll" or None
  poller     \* interval of the poller, or NoInterval

inputs == <<env, kv, file, host>>
vars == <<at, inputs, data, cfg, next, loaded, chan, hears, mode, poller>>

Init ==
  /\ env \in Texts \cup {Empty} /\ kv \in KVStores /\ file \in Files
  /\ host \in [url : BOOLEAN, certs : BOOLEAN, container : BOOLEAN]
  /\ at = "env" /\ data = Empty /\ cfg = {}
  /\ next = 1 /\ loaded = {} /\ chan = 0 /\ hears = [i \in {} |-> 0]
  /\ mode = None /\ poller = NoInterval

Config == CHOOSE c \in cfg : TRUE

\* log.Fatal, or a panic.
Fatal == at' = "fatal"

-----------------------------------------------------------------------------
(* runAction: the text of the configuration                                *)

ReadEnv ==
  /\ at = "env"
  /\ data' = env
  /\ at' = "kv"
  /\ UNCHANGED <<inputs, cfg, next, loaded, chan, hears, mode, poller>>

\* ReadKV that passes over a store it cannot reach.
ReadKVLenient ==
  /\ at = "kv"
  /\ at' = "file"
  /\ \/ kv \in {Empty, "missing key"} /\ data' = Default
     \/ kv \in Texts /\ data' = kv
     \/ kv \notin Texts \cup {Empty, "missing key"} /\ data' = data
  /\ UNCHANGED <<inputs, cfg, next, loaded, chan, hears, mode, poller>>

\* A missing key and an empty value stand for defaultConfig.
ReadKV ==
  /\ at = "kv"
  /\ \/ kv = None /\ at' = "file" /\ data' = data
     \/ kv \in {Empty, "missing key"} /\ at' = "file" /\ data' = Default
     \/ kv \in Texts /\ at' = "file" /\ data' = kv
     \/ kv \in KVStores \ (Texts \cup {None, Empty, "missing key"})
        /\ Fatal /\ data' = data
  /\ UNCHANGED <<inputs, cfg, next, loaded, chan, hears, mode, poller>>

\* The file is looked at only when there is no other text.
ReadFile ==
  /\ at = "file"
  /\ LET wanted == file # None /\ data = Empty
     IN  \/ ~wanted /\ at' = "parse" /\ data' = data
         \/ wanted /\ file \in Texts \cup {Empty} /\ at' = "parse" /\ data' = file
         \/ wanted /\ file \in {"missing", "unreadable"} /\ Fatal /\ data' = data
  /\ UNCHANGED <<inputs, cfg, next, loaded, chan, hears, mode, poller>>

-----------------------------------------------------------------------------
(* ParseConfig                                                             *)

HAProxyDefaults == {"ConnectTimeout", "ServerTimeout", "ClientTimeout",
                    "AdminUser", "SSLDefaultDHParam", "SSLServerVerify"}

NginxDefaults == {"User", "WorkerProcesses", "RLimitNoFile",
                  "ProxyConnectTimeout", "ProxySendTimeout",
                  "ProxyReadTimeout", "SendTimeout", "SSLCiphers",
                  "SSLProtocols"}

BeaconDefaults == {"StatsInterval", "StatsInfluxDBPrecision"}

\* The options that SetConfigDefaults fills in, by the name as it is written.
DefaultsOf(name) ==
  {"MaxConn", "Port"} \cup
    CASE name = "haproxy" -> HAProxyDefaults
      [] name = "nginx" -> NginxDefaults
      [] name = "beacon" -> BeaconDefaults
      [] OTHER -> {}

SetConfigDefaults(x) ==
  [name |-> x.name,
   options |-> x.options \cup DefaultsOf(x.name),
   template |-> x.template,
   interval |-> IF x.name = "beacon" /\ "StatsInterval" \notin x.options
                THEN 30000 ELSE x.interval]

WithDefaults(c) ==
  [c EXCEPT !.exts = [i \in DOMAIN c.exts |-> SetConfigDefaults(c.exts[i])]]

\* ParseConfig that goes on with a text it cannot decode.
ParseConfigLenient ==
  /\ at = "parse"
  /\ at' = IF data = Empty THEN "fatal" ELSE "client"
  /\ cfg' = IF data = Empty \/ data \in Broken THEN {}
            ELSE {WithDefaults(Meaning[data])}
  /\ UNCHANGED <<inputs, data, next, loaded, chan, hears, mode, poller>>

ParseConfig ==
  /\ at = "parse"
  /\ at' = IF data = Empty \/ data \in Broken THEN "fatal" ELSE "client"
  /\ cfg' = IF data = Empty \/ data \in Broken THEN {}
            ELSE {WithDefaults(Meaning[data])}
  /\ UNCHANGED <<inputs, data, next, loaded, chan, hears, mode, poller>>

\* What `interlock spec` prints.
SpecAction ==
  [exts |-> <<SetConfigDefaults([name |-> "nginx",
                options |-> {"ConfigPath", "PidPath", "TemplatePath"},
                template |-> TRUE, interval |-> NoInterval])>>,
   url |-> "good", certs |-> {}, metrics |-> TRUE, poll |-> NoInterval]

-----------------------------------------------------------------------------
(* NewServer                                                               *)

\* The environment fills in an address that is not configured, and all three
\* files when no CA certificate is.  The files are read only if all three
\* are named; a file that cannot be used is fatal.
GetDockerClient ==
  /\ at = "client"
  /\ LET c == Config
         url == CASE c.url # Empty -> c.url
                  [] c.url = Empty /\ host.url -> "good"
                  [] OTHER -> "bad"
         certs == IF "ca" \notin c.certs /\ host.certs
                  THEN {"ca", "cert", "key"} ELSE c.certs
     IN  \/ url = "good" /\ at' = "load"
         \/ (url = "bad" \/ certs = {"ca", "cert", "key"}) /\ Fatal
  /\ UNCHANGED <<inputs, data, cfg, next, loaded, chan, hears, mode, poller>>

LoadBalancers == {"haproxy", "nginx"}

Exts == IF cfg = {} THEN <<>> ELSE Config.exts

Loading(i) ==
  /\ at = "load" /\ i = next /\ i \in DOMAIN Exts
  /\ next' = next + 1
  /\ UNCHANGED <<inputs, data, cfg, mode, poller>>

\* The handler of load balancer i is started, and hears channel c.
Starts(i, c) ==
  hears' = [k \in DOMAIN hears \cup {i} |-> IF k = i THEN c ELSE hears[k]]

\* NewLoadBalancer that chooses the backend by the lower-case name.
NewLoadBalancerAnyCase(i) ==
  /\ Loading(i) /\ ToLower(Exts[i].name) \in LoadBalancers
  /\ chan' = chan + 1
  /\ at' = at
  /\ \/ host.container
        /\ loaded' = loaded \cup {i} /\ Starts(i, 0)
     \/ ~host.container /\ UNCHANGED <<loaded, hears>>

\* NewLoadBalancer that makes the channel after it has started the handler.
NewLoadBalancerLateChannel(i) ==
  /\ Loading(i) /\ ToLower(Exts[i].name) \in LoadBalancers
  /\ chan' = chan + 1
  /\ at' = at
  /\ IF host.container /\ Exts[i].name \in LoadBalancers
     THEN loaded' = loaded \cup {i} /\ Starts(i, chan)
     ELSE UNCHANGED <<loaded, hears>>

\* A missing template is fatal.  Otherwise the package's lbUpdateChan is
\* replaced, and only then may the constructor give up: outside a container,
\* or because of the case of the name.
NewLoadBalancer(i) ==
  /\ Loading(i) /\ ToLower(Exts[i].name) \in LoadBalancers
  /\ \/ /\ "TemplatePath" \in Exts[i].options /\ ~Exts[i].template
        /\ Fatal
        /\ UNCHANGED <<loaded, chan, hears>>
     \/ /\ ~("TemplatePath" \in Exts[i].options /\ ~Exts[i].template)
        /\ at' = at
        /\ chan' = chan + 1
        /\ IF host.container /\ Exts[i].name \in LoadBalancers
           THEN loaded' = loaded \cup {i} /\ Starts(i, 0)
           ELSE UNCHANGED <<loaded, hears>>

\* An interval that cannot be parsed is an error; one of zero makes
\* time.NewTicker panic.
NewBeacon(i) ==
  /\ Loading(i) /\ ToLower(Exts[i].name) = "beacon"
  /\ LET tried == Config.metrics /\ host.container
         interval == Exts[i].interval
     IN  /\ at' = IF tried /\ interval = 0 THEN "fatal" ELSE at
         /\ loaded' = IF tried /\ interval > 0 THEN loaded \cup {i} ELSE loaded
  /\ UNCHANGED <<chan, hears>>

Unsupported(i) ==
  /\ Loading(i) /\ ToLower(Exts[i].name) \notin LoadBalancers \cup {"beacon"}
  /\ UNCHANGED <<at, loaded, chan, hears>>

\* The goroutine of a load balancer begins: it evaluates `range lbUpdateChan`.
HandlerBegins(i) ==
  /\ at # "fatal"
  /\ hears[i] = 0
  /\ hears' = [hears EXCEPT ![i] = chan]
  /\ UNCHANGED <<at, inputs, data, cfg, next, loaded, chan, mode, poller>>

\* restartChan <- true ends NewServer.
EndNewServer ==
  /\ at = "load" /\ next \notin DOMAIN Exts
  /\ at' = "run"
  /\ UNCHANGED <<inputs, data, cfg, next, loaded, chan, hears, mode, poller>>

\* The restart handler looks at PollInterval at any time after that.
ChooseMode ==
  /\ at \in {"run", "listen", "serving"} /\ mode = None
  /\ mode' = IF Config.poll = NoInterval THEN "stream" ELSE "poll"
  /\ UNCHANGED <<at, inputs, data, cfg, next, loaded, chan, hears, poller>>

-----------------------------------------------------------------------------
(* Run                                                                     *)

DefaultPollInterval == 2000

\* StartPoller that takes every interval.
StartPollerUnbounded ==
  /\ at = "run"
  /\ IF Config.poll = BadInterval
     THEN Fatal /\ UNCHANGED <<cfg, poller>>
     ELSE at' = "listen" /\ poller' = Config.poll /\ cfg' = cfg
  /\ UNCHANGED <<inputs, data, next, loaded, chan, hears, mode>>

\* An interval that is too short is replaced, in the configuration too.
StartPoller ==
  /\ at = "run"
  /\ LET d == Config.poll
         used == IF d < DefaultPollInterval THEN DefaultPollInterval ELSE d
     IN  \/ d = NoInterval /\ at' = "listen" /\ UNCHANGED <<cfg, poller>>
         \/ d = BadInterval /\ Fatal /\ UNCHANGED <<cfg, poller>>
         \/ /\ d >= 0
            /\ at' = "listen" /\ poller' = used
            /\ cfg' = {[Config EXCEPT !.poll = used]}
  /\ UNCHANGED <<inputs, data, next, loaded, chan, hears, mode>>

\* ListenAndServe returns only with an error.
Listen ==
  /\ at = "listen"
  /\ at' = "serving" \/ Fatal
  /\ UNCHANGED <<inputs, data, cfg, next, loaded, chan, hears, mode, poller>>

Next ==
  \/ ReadEnv \/ ReadKV \/ ReadFile \/ ParseConfig \/ GetDockerClient
  \/ \E i \in DOMAIN Exts : NewLoadBalancer(i) \/ NewBeacon(i) \/ Unsupported(i)
  \/ \E i \in DOMAIN hears : HandlerBegins(i)
  \/ EndNewServer \/ ChooseMode \/ StartPoller \/ Listen

Spec == Init /\ [][Next]_vars

(***************************************************************************)
(* Properties                                                              *)
(***************************************************************************)

Steps == {"env", "kv", "file", "parse", "client", "load", "run", "listen",
          "serving", "fatal"}

\* The variables have their types, and a configuration that ParseConfig
\* refused never reaches the server.
TypeOK ==
  /\ at \in Steps /\ data \in Texts \cup {Empty}
  /\ loaded \subseteq DOMAIN Exts /\ next \in 1 .. Len(Exts) + 1
  /\ chan \in 0 .. Len(Exts) /\ hears \in [DOMAIN hears -> 0 .. chan]
  /\ DOMAIN hears \subseteq loaded
  /\ mode \in {None, "stream", "poll"}
  /\ poller \in Nat \cup {NoInterval}
  /\ at \in {"client", "load", "run", "listen", "serving"} => cfg # {}

\* Where runAction takes the configuration from: the key-value store before
\* the environment, and the file when there is neither.  defaultConfig is
\* used only for a store that holds none.
Source == CASE kv \in Texts -> kv
            [] kv # None /\ kv \notin Texts -> Default
            [] kv = None /\ env # Empty -> env
            [] OTHER -> file

\* A server works with the text of the first of these sources, and one that
\* cannot be read is never passed over for the next.  In particular a file
\* given by --config never outranks INTERLOCK_CONFIG, although according to
\* docs/configuration.md "If you pass command flags they will override the
\* environment data": runAction does so for --discovery only.
ServesSource == at \in {"client", "load", "run", "listen", "serving"} => data = Source

\* SetConfigDefaults, loadExtensions and NewLoadBalancer each compare names
\* in their own way (exactly, in lower case, exactly).  Still, a load
\* balancer that is loaded has every default of the backend that serves it.
BalancersConfigured ==
  \A i \in DOMAIN hears : DefaultsOf(ToLower(Exts[i].name)) \subseteq Exts[i].options

\* Every load balancer replaces lbUpdateChan, the ones that then fail to
\* load too, and the handlers begin at any time: the last one, if it is
\* loaded, receives what the callbacks of the caches send.
LastBalancerIsHeard ==
  \A i \in DOMAIN hears :
    (\A k \in i + 1 .. next - 1 : ToLower(Exts[k].name) \notin LoadBalancers)
      => hears[i] \in {0, chan}

\* NewServer's restart handler and Run decide on the mode separately, one
\* while the other changes the interval: a server that is up has the event
\* stream or a poller, never both or neither, and a poller that leaves
\* Docker two seconds.
OneTrigger ==
  at = "serving" /\ mode # None
    => /\ mode = "stream" <=> poller = NoInterval
       /\ mode = "poll" => poller >= DefaultPollInterval
=============================================================================
