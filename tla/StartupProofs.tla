--------------------------- MODULE StartupProofs ----------------------------
(***************************************************************************)
(* Invariants of Startup, for every set of texts and whatever they mean.   *)
(*                                                                         *)
(* Everything after ParseConfig rests on what is known of the one          *)
(* configuration in cfg (Sound): it is well typed, and every entry has the *)
(* defaults of its name.  The other parts of the induction follow          *)
(* runAction: which text is held at which step (DataInv), which entries    *)
(* have been loaded (LoadInv) and what the two readers of PollInterval     *)
(* have decided (TriggerInv).                                              *)
(***************************************************************************)
EXTENDS Startup, SequenceTheorems, TLAPS

Begun == {"client", "load", "run", "listen", "serving"}

\* What ParseConfig guarantees of a configuration.
Sound(c) ==
  /\ c \in Configs
  /\ \A i \in DOMAIN c.exts :
       DefaultsOf(c.exts[i].name) \subseteq c.exts[i].options

\* There is no configuration before ParseConfig and a sound one after it.
ConfigInv ==
  /\ at \in Steps
  /\ at \in Begun => \E c : cfg = {c} /\ Sound(c)
  /\ at \in {"env", "kv", "file", "parse"} => cfg = {}
  /\ at = "fatal" => cfg = {} \/ \E c : cfg = {c} /\ Sound(c)

-----------------------------------------------------------------------------
(* Configurations                                                          *)

\* CHOOSE of a singleton.
LEMMA ConfigIs ==
  ASSUME NEW c
  PROVE  (CHOOSE x \in {c} : TRUE) = c
OBVIOUS

\* The defaults of the four kinds of names are names of options.
LEMMA DefaultsType ==
  ASSUME NEW name
  PROVE  DefaultsOf(name) \subseteq Options
<1>1. CASE name = "haproxy"
  BY <1>1 DEF DefaultsOf, HAProxyDefaults, Options
<1>2. CASE name = "nginx"
  BY <1>2 DEF DefaultsOf, NginxDefaults, Options
<1>3. CASE name = "beacon"
  BY <1>3 DEF DefaultsOf, BeaconDefaults, Options
<1>4. CASE name \notin {"haproxy", "nginx", "beacon"}
  BY <1>4 DEF DefaultsOf, Options
<1> QED
  BY <1>1, <1>2, <1>3, <1>4

\* SetConfigDefaults keeps the name and adds the defaults.
LEMMA SetConfigDefaultsSound ==
  ASSUME NEW x \in ExtensionConfigs
  PROVE  LET y == SetConfigDefaults(x)
         IN  y \in ExtensionConfigs /\ DefaultsOf(y.name) \subseteq y.options
<1> DEFINE y == SetConfigDefaults(x)
           d == DefaultsOf(x.name)
<1>1. d \subseteq Options
  BY DefaultsType
<1>2. y.name = x.name /\ y.options = x.options \cup d
  <2> HIDE DEF d
  <2> QED
    BY DEF SetConfigDefaults, ExtensionConfigs, d
<1>3. y \in ExtensionConfigs
  <2>1. 30000 \in Intervals
    BY DEF Intervals
  <2> HIDE DEF d
  <2> QED
    BY <1>1, <2>1 DEF SetConfigDefaults, ExtensionConfigs, d
<1> HIDE DEF y, d
<1>4. DefaultsOf(y.name) \subseteq y.options
  BY <1>2 DEF d
<1> QED
  BY <1>3, <1>4 DEF y

\* ParseConfig makes a sound configuration of every text it can decode.
LEMMA ParsedIsSound ==
  ASSUME NEW t \in Texts \ Broken
  PROVE  Sound(WithDefaults(Meaning[t]))
<1> DEFINE m == Meaning[t]
           e == [i \in DOMAIN m.exts |-> SetConfigDefaults(m.exts[i])]
           c == WithDefaults(m)
<1>1. m \in Configs
  BY MeaningAssumption
<1>2. m.exts \in Seq(ExtensionConfigs) /\ DOMAIN m.exts = 1 .. Len(m.exts)
      /\ Len(m.exts) \in Nat
  <2>1. m.exts \in Seq(ExtensionConfigs)
    BY <1>1 DEF Configs
  <2> QED
    BY <2>1, LenProperties
<1>3. \A i \in DOMAIN m.exts : m.exts[i] \in ExtensionConfigs
  BY <1>2
<1>4. \A i \in DOMAIN m.exts :
        /\ e[i] \in ExtensionConfigs
        /\ DefaultsOf(e[i].name) \subseteq e[i].options
  BY <1>1, <1>3, SetConfigDefaultsSound
<1>5. e \in Seq(ExtensionConfigs) /\ DOMAIN e = DOMAIN m.exts
  <2>1. e \in [1 .. Len(m.exts) -> ExtensionConfigs]
    BY <1>2, <1>4
  <2> HIDE DEF e
  <2> QED
    BY <1>2, <2>1
<1>6. /\ c.exts = e /\ c.url = m.url /\ c.certs = m.certs /\ c.metrics = m.metrics
      /\ c.poll = m.poll
      /\ c = [exts |-> c.exts, url |-> c.url, certs |-> c.certs,
              metrics |-> c.metrics, poll |-> c.poll]
  <2> HIDE DEF m
  <2> QED
    BY <1>1 DEF WithDefaults, Configs
<1> HIDE DEF c, e, m
<1>7. c \in Configs
  BY <1>1, <1>5, <1>6 DEF Configs
<1>8. Sound(c)
  BY <1>4, <1>5, <1>6, <1>7 DEF Sound
<1> QED
  BY <1>8 DEF c, m

-----------------------------------------------------------------------------
(* The configuration, step by step                                         *)

\* The one configuration there is.
LEMMA ConfigOfSingleton ==
  /\ \A c : cfg = {c} => Config = c /\ Exts = c.exts
  /\ \A c : cfg' = {c} => Config' = c /\ Exts' = c.exts
<1>1. ASSUME NEW c, cfg = {c} PROVE Config = c /\ Exts = c.exts
  BY <1>1, ConfigIs DEF Config, Exts
<1>2. ASSUME NEW c, cfg' = {c} PROVE Config' = c /\ Exts' = c.exts
  BY <1>2, ConfigIs DEF Config, Exts
<1> QED
  BY <1>1, <1>2

\* Replacing PollInterval keeps a configuration sound.
LEMMA NewPollSound ==
  ASSUME NEW c, Sound(c), NEW d \in Nat
  PROVE  LET k == [c EXCEPT !.poll = d]
         IN  Sound(k) /\ k.exts = c.exts /\ k.poll = d
<1> DEFINE k == [c EXCEPT !.poll = d]
<1>1. c \in Configs /\ d \in Intervals
  BY DEF Sound, Intervals
<1>2. k \in Configs /\ k.exts = c.exts /\ k.poll = d
  BY <1>1 DEF Configs
<1> HIDE DEF k
<1>3. Sound(k)
  BY <1>2 DEF Sound
<1> QED
  BY <1>2, <1>3 DEF k

\* What the extensions are known to be in every state.
ExtsSound ==
  /\ Exts \in Seq(ExtensionConfigs)
  /\ Len(Exts) \in Nat
  /\ DOMAIN Exts = 1 .. Len(Exts)
  /\ \A i \in DOMAIN Exts :
       DefaultsOf(Exts[i].name) \subseteq Exts[i].options

\* Every state has sound extensions, none before ParseConfig.
LEMMA ExtsAreSound == ConfigInv => ExtsSound
<1> SUFFICES ASSUME ConfigInv PROVE ExtsSound
  OBVIOUS
<1>1. CASE cfg = {}
  <2>1. Exts = <<>>
    BY <1>1 DEF Exts
  <2> QED
    BY <2>1 DEF ExtsSound
<1>2. ASSUME NEW c, cfg = {c}, Sound(c) PROVE ExtsSound
  <2>1. Exts = c.exts
    BY <1>2, ConfigOfSingleton
  <2>2. c.exts \in Seq(ExtensionConfigs)
    BY <1>2 DEF Sound, Configs
  <2>3. Len(c.exts) \in Nat /\ DOMAIN c.exts = 1 .. Len(c.exts)
    BY <2>2, LenProperties
  <2> QED
    BY <1>2, <2>1, <2>2, <2>3 DEF ExtsSound, Sound
<1> QED
  BY <1>1, <1>2 DEF ConfigInv, Steps, Begun

\* A step of loadExtensions moves on or is fatal.
LEMMA LoadStep ==
  ASSUME NEW i, NewLoadBalancer(i) \/ NewBeacon(i) \/ Unsupported(i)
  PROVE  /\ at = "load" /\ at' \in {"load", "fatal"} /\ i = next /\ i \in DOMAIN Exts
         /\ next' = next + 1
         /\ UNCHANGED <<inputs, data, cfg, mode, poller>>
BY DEF NewLoadBalancer, NewBeacon, Unsupported, Loading, Fatal

\* The step that replaces PollInterval.
LEMMA StartPollerStep ==
  ASSUME ConfigInv, StartPoller
  PROVE  \E c : /\ cfg = {c} /\ Sound(c) /\ Config = c
                /\ \/ /\ c.poll = NoInterval /\ at' = "listen"
                      /\ UNCHANGED <<cfg, poller>>
                   \/ at' = "fatal" /\ UNCHANGED <<cfg, poller>>
                   \/ \E d \in Nat : /\ d >= DefaultPollInterval /\ poller' = d
                                     /\ at' = "listen" /\ c.poll # NoInterval
                                     /\ cfg' = {[c EXCEPT !.poll = d]}
<1>1. PICK c : cfg = {c} /\ Sound(c)
  BY DEF ConfigInv, StartPoller, Begun
<1>2. Config = c
  BY <1>1, ConfigOfSingleton
<1>3. c.poll \in Intervals
  BY <1>1 DEF Sound, Configs
<1> DEFINE used == IF c.poll < DefaultPollInterval THEN DefaultPollInterval ELSE c.poll
<1>4. c.poll >= 0 => used \in Nat /\ used >= DefaultPollInterval
  BY <1>3 DEF Intervals, DefaultPollInterval, NoInterval, BadInterval
<1>5. c.poll >= 0 => c.poll # NoInterval
  BY <1>3 DEF NoInterval
<1>6. \/ c.poll = NoInterval /\ at' = "listen" /\ UNCHANGED <<cfg, poller>>
      \/ at' = "fatal" /\ UNCHANGED <<cfg, poller>>
      \/ /\ c.poll >= 0 /\ at' = "listen" /\ poller' = used
         /\ cfg' = {[c EXCEPT !.poll = used]}
  BY <1>2 DEF StartPoller, Fatal
<1> HIDE DEF used
<1>7. \/ c.poll = NoInterval /\ at' = "listen" /\ UNCHANGED <<cfg, poller>>
      \/ at' = "fatal" /\ UNCHANGED <<cfg, poller>>
      \/ \E d \in Nat : /\ d >= DefaultPollInterval /\ poller' = d
                        /\ at' = "listen" /\ c.poll # NoInterval
                        /\ cfg' = {[c EXCEPT !.poll = d]}
  BY <1>4, <1>5, <1>6
<1> QED
  BY <1>1, <1>2, <1>7

\* Every step leaves a sound configuration or none.
LEMMA NextConfigInv == ConfigInv /\ data \in Texts \cup {Empty} /\ [Next]_vars => ConfigInv'
<1> SUFFICES ASSUME ConfigInv, data \in Texts \cup {Empty}, [Next]_vars PROVE ConfigInv'
  OBVIOUS
<1>1. CASE ReadEnv \/ ReadKV \/ ReadFile
  BY <1>1 DEF ReadEnv, ReadKV, ReadFile, Fatal, ConfigInv, Steps, Begun
<1>2. CASE ParseConfig
  <2>1. CASE data = Empty \/ data \in Broken
    BY <1>2, <2>1 DEF ParseConfig, ConfigInv, Steps, Begun
  <2>2. CASE ~(data = Empty \/ data \in Broken)
    <3>1. Sound(WithDefaults(Meaning[data]))
      BY <2>2, ParsedIsSound
    <3>2. cfg' = {WithDefaults(Meaning[data])} /\ at' = "client"
      BY <1>2, <2>2 DEF ParseConfig
    <3> QED
      BY <3>1, <3>2 DEF ConfigInv, Steps, Begun
  <2> QED
    BY <2>1, <2>2
<1>3. CASE GetDockerClient
  <2>1. at = "client" /\ at' \in {"load", "fatal"} /\ cfg' = cfg
    BY <1>3 DEF GetDockerClient, Fatal
  <2> QED
    BY <2>1 DEF ConfigInv, Steps, Begun
<1>4. CASE \E i \in DOMAIN Exts : NewLoadBalancer(i) \/ NewBeacon(i) \/ Unsupported(i)
  <2>1. at = "load" /\ at' \in {"load", "fatal"} /\ cfg' = cfg
    BY <1>4, LoadStep
  <2> QED
    BY <2>1 DEF ConfigInv, Steps, Begun
<1>5. CASE \/ \E i \in DOMAIN hears : HandlerBegins(i)
           \/ ChooseMode
  <2>1. at' = at /\ cfg' = cfg
    BY <1>5 DEF HandlerBegins, ChooseMode
  <2> QED
    BY <2>1 DEF ConfigInv
<1>6. CASE EndNewServer \/ Listen
  <2>1. at \in {"load", "listen"} /\ at' \in {"run", "serving", "fatal"} /\ cfg' = cfg
    BY <1>6 DEF EndNewServer, Listen, Fatal
  <2> QED
    BY <2>1 DEF ConfigInv, Steps, Begun
<1>7. CASE StartPoller
  BY <1>7, StartPollerStep, NewPollSound, ZenonT(60) DEF ConfigInv, Steps, Begun
<1>8. CASE UNCHANGED vars
  BY <1>8 DEF vars, ConfigInv
<1> QED
  BY <1>1, <1>2, <1>3, <1>4, <1>5, <1>6, <1>7, <1>8 DEF Next

-----------------------------------------------------------------------------
(* The text                                                                *)

\* The text at hand after each of the three sources has been looked at.
DataInv ==
  /\ env \in Texts \cup {Empty} /\ kv \in KVStores /\ file \in Files
  /\ data \in Texts \cup {Empty}
  /\ at = "kv" => data = env
  /\ at = "file" => \/ kv = None /\ data = env
                    \/ kv \in Texts /\ data = kv
                    \/ kv \notin Texts \cup {None} /\ data = Default
  /\ at = "parse" => data \in {Source, Empty}
  /\ at \in Begun => data = Source

\* The ranking of the sources, case by case.
LEMMA SourceCases ==
  /\ kv \in Texts => Source = kv
  /\ kv \notin Texts \cup {None} => Source = Default
  /\ kv = None /\ env # Empty => Source = env
  /\ kv = None /\ env = Empty => Source = file
<1>1. None \notin Texts
  BY StartupAssumption
<1>2. CASE kv \in Texts
  BY <1>1, <1>2 DEF Source
<1>3. CASE kv \notin Texts \cup {None}
  BY <1>3 DEF Source
<1>4. CASE kv = None /\ env # Empty
  BY <1>1, <1>4 DEF Source
<1>5. CASE kv = None /\ env = Empty
  BY <1>1, <1>5 DEF Source
<1> QED
  BY <1>1, <1>2, <1>3, <1>4, <1>5

\* runAction goes through its sources in the order of Source.
LEMMA NextDataInv == DataInv /\ [Next]_vars => DataInv'
<1> SUFFICES ASSUME DataInv, [Next]_vars PROVE DataInv'
  OBVIOUS
<1>1. Empty \notin Texts /\ None \notin Texts /\ Default \in Texts /\ None # Empty
  BY StartupAssumption DEF None, Empty
<1>2. Next => UNCHANGED inputs
  BY DEF Next, ReadEnv, ReadKV, ReadFile, ParseConfig, GetDockerClient, NewLoadBalancer,
     NewBeacon, Unsupported, Loading, HandlerBegins, EndNewServer, ChooseMode,
     StartPoller, Listen
<1>3. UNCHANGED <<env, kv, file>> /\ Source' = Source
  BY <1>2 DEF inputs, vars, Source
<1>4. CASE ReadEnv
  BY <1>3, <1>4 DEF ReadEnv, DataInv, Begun
<1>5. CASE ReadKV
  <2>1. "missing key" \notin Texts
    BY StartupAssumption
  <2>2. \/ kv = None /\ at' = "file" /\ data' = data
        \/ kv \notin Texts \cup {None} /\ at' = "file" /\ data' = Default
        \/ kv \in Texts /\ at' = "file" /\ data' = kv
        \/ at' = "fatal" /\ data' = data
    BY <1>1, <1>5, <2>1 DEF ReadKV, Fatal, None, Empty
  <2>3. at = "kv"
    BY <1>5 DEF ReadKV
  <2> QED
    BY <1>1, <1>3, <2>2, <2>3 DEF DataInv, Begun
<1>6. CASE ReadFile
  <2>1. /\ at = "file"
        /\ \/ ~(file # None /\ data = Empty) /\ at' = "parse" /\ data' = data
           \/ file # None /\ data = Empty /\ at' = "parse" /\ data' = file
              /\ file \in Texts \cup {Empty}
           \/ at' = "fatal" /\ data' = data
    BY <1>6 DEF ReadFile, Fatal
  <2>2. data \in {Source, Empty} /\ (data = Empty => Source = file)
    BY <1>1, <2>1, SourceCases DEF DataInv
  <2> QED
    BY <1>3, <2>1, <2>2 DEF DataInv, Begun
<1>7. CASE ParseConfig
  <2>1. at = "parse" /\ data' = data /\ at' \in {"client", "fatal"}
        /\ (at' = "client" => data # Empty)
    BY <1>7 DEF ParseConfig
  <2> QED
    BY <1>3, <2>1 DEF DataInv, Begun
<1>8. CASE at' \in Begun \cup {"fatal"} /\ (at' \in Begun => at \in Begun) /\ data' = data
  BY <1>3, <1>8 DEF DataInv, Begun
<1>9. CASE at' = at /\ data' = data
  BY <1>3, <1>9 DEF DataInv
<1>10. CASE \E i \in DOMAIN Exts : NewLoadBalancer(i) \/ NewBeacon(i) \/ Unsupported(i)
  BY <1>8, <1>10, LoadStep DEF Begun
<1>11. CASE GetDockerClient \/ EndNewServer \/ StartPoller \/ Listen
  BY <1>8, <1>11 DEF GetDockerClient, EndNewServer, StartPoller, Listen, Fatal, Begun
<1>12. CASE ChooseMode \/ (\E i \in DOMAIN hears : HandlerBegins(i)) \/ UNCHANGED vars
  BY <1>9, <1>12 DEF ChooseMode, HandlerBegins, vars
<1> QED
  BY <1>4, <1>5, <1>6, <1>7, <1>10, <1>11, <1>12 DEF Next

-----------------------------------------------------------------------------
(* The extensions that are loaded                                          *)

\* Only entries that loadExtensions has passed are loaded; a load balancer has
\* its exact name, and every entry makes at most one channel.
LoadInv ==
  /\ next \in 1 .. Len(Exts) + 1
  /\ at \in {"env", "kv", "file", "parse", "client"} => next = 1
  /\ loaded \subseteq 1 .. next - 1
  /\ chan \in 0 .. next - 1
  /\ hears \in [DOMAIN hears -> 0 .. chan]
  /\ DOMAIN hears \subseteq loaded
  /\ \A i \in DOMAIN hears : Exts[i].name \in LoadBalancers
  /\ LastBalancerIsHeard

\* The entries change only when a text is parsed, which is before any is loaded.
LEMMA ExtsStep ==
  ASSUME ConfigInv, Next, ~ParseConfig
  PROVE  Exts' = Exts
<1>1. CASE StartPoller
  <2>1. PICK c : /\ cfg = {c} /\ Sound(c)
                 /\ \/ cfg' = cfg
                    \/ \E d \in Nat : cfg' = {[c EXCEPT !.poll = d]}
    BY <1>1, StartPollerStep
  <2>2. CASE cfg' = cfg
    BY <2>2 DEF Exts, Config
  <2>3. ASSUME NEW d \in Nat, cfg' = {[c EXCEPT !.poll = d]} PROVE Exts' = Exts
    <3>1. [c EXCEPT !.poll = d].exts = c.exts
      BY <2>1, NewPollSound
    <3>2. Exts = c.exts
      BY <2>1, ConfigOfSingleton
    <3>3. Exts' = [c EXCEPT !.poll = d].exts
      BY <2>3, ConfigOfSingleton
    <3> QED
      BY <3>1, <3>2, <3>3
  <2> QED
    BY <2>1, <2>2, <2>3
<1>2. CASE ~StartPoller
  <2>1. cfg' = cfg
    <3>1. CASE GetDockerClient
      BY <3>1 DEF GetDockerClient
    <3>2. CASE \E i \in DOMAIN Exts : NewLoadBalancer(i) \/ NewBeacon(i) \/ Unsupported(i)
      BY <3>2, LoadStep
    <3>3. CASE \/ ReadEnv \/ ReadKV \/ ReadFile \/ EndNewServer \/ ChooseMode \/ Listen
               \/ \E i \in DOMAIN hears : HandlerBegins(i)
      BY <3>3 DEF ReadEnv, ReadKV, ReadFile, HandlerBegins, EndNewServer, ChooseMode, Listen
    <3> QED
      BY <1>2, <3>1, <3>2, <3>3 DEF Next
  <2> QED
    BY <2>1 DEF Exts, Config
<1> QED
  BY <1>1, <1>2

\* A load balancer is added, with the goroutine of its handler.
LEMMA NewLoadBalancerLoads ==
  ASSUME ConfigInv, LoadInv, NEW i, NewLoadBalancer(i)
  PROVE  LoadInv'
<1>1. /\ at = "load" /\ at' \in {"load", "fatal"} /\ i = next /\ i \in DOMAIN Exts
      /\ next' = next + 1 /\ cfg' = cfg /\ Exts' = Exts
  <2>1. cfg' = cfg
    BY LoadStep
  <2>2. Exts' = Exts
    BY <2>1 DEF Exts, Config
  <2> QED
    BY <2>2, LoadStep
<1>2. ExtsSound
  BY ExtsAreSound
<1>3. next \in Nat /\ next >= 1 /\ next <= Len(Exts) /\ Len(Exts) \in Nat
  BY <1>1, <1>2 DEF ExtsSound
<1>4. CASE UNCHANGED <<loaded, chan, hears>>
  <2>1. LastBalancerIsHeard'
    BY <1>1, <1>3, <1>4 DEF LoadInv, LastBalancerIsHeard
  <2> QED
    BY <1>1, <1>3, <1>4, <2>1 DEF LoadInv
<1>5. CASE chan' = chan + 1 /\ UNCHANGED <<loaded, hears>>
  <2>1. ToLower(Exts[i].name) \in LoadBalancers
    BY DEF NewLoadBalancer
  <2>2. \A k \in DOMAIN hears : i \in k + 1 .. next' - 1
    BY <1>1, <1>3 DEF LoadInv
  <2>3. LastBalancerIsHeard'
    BY <1>1, <1>5, <2>1, <2>2 DEF LastBalancerIsHeard
  <2>4. hears' \in [DOMAIN hears' -> 0 .. chan'] /\ chan' \in 0 .. next' - 1
    BY <1>1, <1>3, <1>5 DEF LoadInv
  <2> QED
    BY <1>1, <1>3, <1>5, <2>3, <2>4 DEF LoadInv
<1>6. CASE /\ chan' = chan + 1 /\ loaded' = loaded \cup {i} /\ Starts(i, 0)
           /\ Exts[i].name \in LoadBalancers
  <2>1. ToLower(Exts[i].name) \in LoadBalancers
    BY DEF NewLoadBalancer
  <2>2. \A k \in DOMAIN hears : k # i /\ i \in k + 1 .. next' - 1
    BY <1>1, <1>3 DEF LoadInv
  <2>3. /\ DOMAIN hears' = DOMAIN hears \cup {i}
        /\ hears'[i] = 0
        /\ \A k \in DOMAIN hears : hears'[k] = hears[k]
        /\ hears' = [k \in DOMAIN hears' |-> hears'[k]]
    BY <1>6, <2>2 DEF Starts
  <2>4. LastBalancerIsHeard'
    <3> SUFFICES ASSUME NEW k \in DOMAIN hears', k # i
                 PROVE  i \in k + 1 .. next' - 1
      BY <1>1, <2>1, <2>3 DEF LastBalancerIsHeard
    <3> QED
      BY <2>2, <2>3
  <2>5. chan' \in 0 .. next' - 1 /\ \A k \in DOMAIN hears' : hears'[k] \in 0 .. chan'
    BY <1>1, <1>3, <1>6, <2>3 DEF LoadInv
  <2>6. hears' \in [DOMAIN hears' -> 0 .. chan']
    BY <2>3, <2>5
  <2> QED
    BY <1>1, <1>3, <1>6, <2>3, <2>4, <2>5, <2>6 DEF LoadInv
<1> QED
  BY <1>4, <1>5, <1>6 DEF NewLoadBalancer

\* A beacon that is loaded, and an entry that is not, leave the channel alone.
LEMMA NewBeaconLoads ==
  ASSUME ConfigInv, LoadInv, NEW i, NewBeacon(i) \/ Unsupported(i)
  PROVE  LoadInv'
<1>1. /\ at = "load" /\ at' \in {"load", "fatal"} /\ i = next /\ i \in DOMAIN Exts
      /\ next' = next + 1 /\ cfg' = cfg /\ Exts' = Exts
  <2>1. cfg' = cfg
    BY LoadStep
  <2>2. Exts' = Exts
    BY <2>1 DEF Exts, Config
  <2> QED
    BY <2>2, LoadStep
<1>2. ExtsSound
  BY ExtsAreSound
<1>3. next \in Nat /\ next >= 1 /\ next <= Len(Exts) /\ Len(Exts) \in Nat
  BY <1>1, <1>2 DEF ExtsSound
<1>4. UNCHANGED <<chan, hears>>
  BY DEF NewBeacon, Unsupported
<1>5. loaded' = loaded \/ loaded' = loaded \cup {i}
  BY DEF NewBeacon, Unsupported
<1>6. LastBalancerIsHeard'
  BY <1>1, <1>3, <1>4 DEF LoadInv, LastBalancerIsHeard
<1> QED
  BY <1>1, <1>3, <1>4, <1>5, <1>6 DEF LoadInv

\* The steps of loading keep LoadInv; the handlers begin whenever they like.
LEMMA NextLoadInv == ConfigInv /\ ExtsSound' /\ LoadInv /\ [Next]_vars => LoadInv'
<1> SUFFICES ASSUME ConfigInv, ExtsSound', LoadInv, [Next]_vars PROVE LoadInv'
  OBVIOUS
<1> DEFINE Early == {"env", "kv", "file", "parse", "client"}
<1>1. CASE \E i \in DOMAIN Exts : NewLoadBalancer(i) \/ NewBeacon(i) \/ Unsupported(i)
  BY <1>1, NewLoadBalancerLoads, NewBeaconLoads
<1>2. ASSUME NEW i \in DOMAIN hears, HandlerBegins(i) PROVE LoadInv'
  <2>1. UNCHANGED <<at, cfg, next, loaded, chan>> /\ hears' = [hears EXCEPT ![i] = chan]
    BY <1>2 DEF HandlerBegins
  <2>2. Exts' = Exts
    BY <2>1 DEF Exts, Config
  <2>3. /\ DOMAIN hears' = DOMAIN hears /\ hears'[i] = chan
        /\ \A k \in DOMAIN hears \ {i} : hears'[k] = hears[k]
        /\ hears' \in [DOMAIN hears' -> 0 .. chan]
    <3>1. chan \in 0 .. chan /\ hears \in [DOMAIN hears -> 0 .. chan]
      BY ExtsAreSound DEF LoadInv, ExtsSound
    <3> QED
      BY <2>1, <3>1
  <2>4. LastBalancerIsHeard'
    BY <2>1, <2>2, <2>3 DEF LoadInv, LastBalancerIsHeard
  <2> QED
    BY <2>1, <2>2, <2>3, <2>4 DEF LoadInv
<1>3. CASE ParseConfig
  <2>1. /\ at = "parse" /\ at' \in {"client", "fatal"}
        /\ UNCHANGED <<next, loaded, chan, hears>>
    BY <1>3 DEF ParseConfig
  <2>2. next = 1 /\ loaded = {} /\ DOMAIN hears = {} /\ chan \in 0 .. 0
    BY <2>1 DEF LoadInv
  <2>3. Len(Exts') \in Nat
    BY DEF ExtsSound
  <2> QED
    BY <2>1, <2>2, <2>3 DEF LoadInv, LastBalancerIsHeard
<1>4. ASSUME UNCHANGED <<next, loaded, chan, hears>>, Exts' = Exts,
             at' \in Early => at \in Early
      PROVE  LoadInv'
  BY <1>4 DEF LoadInv, LastBalancerIsHeard
<1>5. CASE ReadEnv \/ ReadKV \/ ReadFile \/ GetDockerClient
  <2>1. UNCHANGED <<next, loaded, chan, hears, cfg>> /\ at \in Early
    BY <1>5 DEF ReadEnv, ReadKV, ReadFile, GetDockerClient
  <2>2. Exts' = Exts
    BY <2>1 DEF Exts, Config
  <2> QED
    BY <1>4, <2>1, <2>2
<1>6. CASE EndNewServer \/ ChooseMode \/ StartPoller \/ Listen
  <2>1. UNCHANGED <<next, loaded, chan, hears>> /\ at \notin Early /\ at' \notin Early
    BY <1>6 DEF EndNewServer, ChooseMode, StartPoller, Listen, Fatal
  <2>2. ~ParseConfig /\ Next
    BY <1>6, <2>1 DEF ParseConfig, Next
  <2>3. Exts' = Exts
    BY <2>2, ExtsStep
  <2> QED
    BY <1>4, <2>1, <2>3
<1>7. CASE UNCHANGED vars
  <2>1. Exts' = Exts
    BY <1>7 DEF vars, Exts, Config
  <2> QED
    BY <1>4, <1>7, <2>1 DEF vars
<1> QED
  BY <1>1, <1>2, <1>3, <1>5, <1>6, <1>7 DEF Next

-----------------------------------------------------------------------------
(* The trigger                                                             *)

\* Both readers of PollInterval see whether there is one, although Run replaces
\* it in between.
TriggerInv ==
  /\ mode \in {None, "stream", "poll"}
  /\ poller \in Nat \cup {NoInterval}
  /\ mode # None /\ at \in Begun => (mode = "stream" <=> Config.poll = NoInterval)
  /\ at \notin {"run", "listen", "serving", "fatal"} => mode = None
  /\ at \notin {"listen", "serving", "fatal"} => poller = NoInterval
  /\ at \in {"listen", "serving"} =>
       /\ poller = NoInterval <=> Config.poll = NoInterval
       /\ poller # NoInterval => poller >= DefaultPollInterval

\* The restart handler may choose before, while or after Run looks.
LEMMA NextTriggerInv == ConfigInv /\ TriggerInv /\ [Next]_vars => TriggerInv'
<1> SUFFICES ASSUME ConfigInv, TriggerInv, [Next]_vars PROVE TriggerInv'
  OBVIOUS
<1>1. CASE StartPoller
  <2>1. PICK c : /\ cfg = {c} /\ Sound(c) /\ Config = c
                 /\ \/ /\ c.poll = NoInterval /\ at' = "listen"
                       /\ UNCHANGED <<cfg, poller>>
                    \/ at' = "fatal" /\ UNCHANGED <<cfg, poller>>
                    \/ \E d \in Nat : /\ d >= DefaultPollInterval /\ poller' = d
                                      /\ at' = "listen" /\ c.poll # NoInterval
                                      /\ cfg' = {[c EXCEPT !.poll = d]}
    BY <1>1, StartPollerStep
  <2>2. at = "run" /\ mode' = mode
    BY <1>1 DEF StartPoller
  <2>3. CASE c.poll = NoInterval /\ at' = "listen" /\ UNCHANGED <<cfg, poller>>
    <3>1. Config' = Config
      BY <2>3 DEF Config
    <3> QED
      BY <2>1, <2>2, <2>3, <3>1 DEF TriggerInv, Begun
  <2>4. CASE at' = "fatal" /\ UNCHANGED <<cfg, poller>>
    BY <2>2, <2>4 DEF TriggerInv, Begun
  <2>5. ASSUME NEW d \in Nat, d >= DefaultPollInterval, poller' = d, at' = "listen",
               c.poll # NoInterval, cfg' = {[c EXCEPT !.poll = d]}
        PROVE  TriggerInv'
    <3>1. Config' = [c EXCEPT !.poll = d]
      BY <2>5, ConfigOfSingleton
    <3>2. Config'.poll = d /\ d # NoInterval
      BY <2>1, <3>1, NewPollSound DEF NoInterval
    <3> QED
      BY <2>1, <2>2, <2>5, <3>2 DEF TriggerInv, Begun
  <2> QED
    BY <2>1, <2>3, <2>4, <2>5
<1>2. CASE ChooseMode
  <2>1. /\ at \in {"run", "listen", "serving"} /\ mode = None
        /\ mode' = (IF Config.poll = NoInterval THEN "stream" ELSE "poll")
        /\ UNCHANGED <<at, cfg, poller>>
    BY <1>2 DEF ChooseMode
  <2>2. Config' = Config
    BY <2>1 DEF Config
  <2> QED
    BY <2>1, <2>2 DEF TriggerInv, Begun
<1>3. ASSUME UNCHANGED <<mode, poller, cfg>>,
             at' \notin {"listen", "serving"} \/ at \in {"listen", "serving"},
             at' \in Begun => at \in Begun \/ mode = None,
             at' \in {"run", "listen", "serving", "fatal"} \/ at \notin {"run", "listen", "serving", "fatal"},
             at' \in {"listen", "serving", "fatal"} \/ at \notin {"listen", "serving", "fatal"}
      PROVE  TriggerInv'
  <2>1. Config' = Config
    BY <1>3 DEF Config
  <2> QED
    BY <1>3, <2>1 DEF TriggerInv
<1>4. CASE \E i \in DOMAIN Exts : NewLoadBalancer(i) \/ NewBeacon(i) \/ Unsupported(i)
  BY <1>3, <1>4, LoadStep DEF Begun
<1>5. CASE \/ ReadEnv \/ ReadKV \/ ReadFile \/ GetDockerClient \/ EndNewServer \/ Listen
  BY <1>3, <1>5 DEF ReadEnv, ReadKV, ReadFile, GetDockerClient, EndNewServer, Listen,
     Fatal, Begun, TriggerInv
<1>6. CASE ParseConfig
  BY <1>6 DEF ParseConfig, TriggerInv
<1>7. CASE UNCHANGED vars \/ \E i \in DOMAIN hears : HandlerBegins(i)
  BY <1>3, <1>7 DEF HandlerBegins, vars
<1> QED
  BY <1>1, <1>2, <1>4, <1>5, <1>6, <1>7 DEF Next

-----------------------------------------------------------------------------
(* The theorems                                                            *)

StartupInv == ConfigInv /\ DataInv /\ LoadInv /\ TriggerInv

\* runAction begins with nothing read and nothing loaded.
LEMMA InitStartupInv == Init => StartupInv
<1> SUFFICES ASSUME Init PROVE StartupInv
  OBVIOUS
<1>1. ConfigInv /\ DataInv /\ TriggerInv
  BY DEF Init, ConfigInv, DataInv, TriggerInv, Steps, Begun
<1>2. Exts = <<>> /\ DOMAIN hears = {}
  BY DEF Init, Exts
<1>3. LoadInv
  BY <1>2 DEF Init, LoadInv, LastBalancerIsHeard
<1> QED
  BY <1>1, <1>3 DEF StartupInv

\* The invariant is inductive.
LEMMA NextStartupInv == StartupInv /\ [Next]_vars => StartupInv'
<1>1. StartupInv /\ [Next]_vars => ConfigInv' /\ DataInv' /\ TriggerInv'
  BY NextConfigInv, NextDataInv, NextTriggerInv DEF StartupInv, DataInv
<1>2. ConfigInv' => ExtsSound'
  BY ExtsAreSound, PTL
<1> QED
  BY <1>1, <1>2, NextLoadInv DEF StartupInv

\* What runAction builds is well typed, for all texts, flags and environments: no
\* server starts without a configuration, and no more channels are made than
\* there are extensions.
THEOREM StartupTypeOK == Spec => []TypeOK
<1>1. StartupInv => TypeOK
  <2> SUFFICES ASSUME StartupInv PROVE TypeOK
    OBVIOUS
  <2>1. ExtsSound
    BY ExtsAreSound DEF StartupInv
  <2>2. /\ loaded \subseteq DOMAIN Exts /\ next \in 1 .. Len(Exts) + 1
        /\ chan \in 0 .. Len(Exts)
    BY <2>1 DEF StartupInv, LoadInv, ExtsSound
  <2>3. at \in Begun => cfg # {}
    BY DEF StartupInv, ConfigInv
  <2> QED
    BY <2>2, <2>3 DEF StartupInv, ConfigInv, DataInv, LoadInv, TriggerInv, TypeOK, Begun
<1> QED
  BY <1>1, InitStartupInv, NextStartupInv, PTL DEF Spec

\* A server that gets to work has the text that the first of runAction's sources
\* holds, for all texts and every state of the three sources.
THEOREM StartupServesSource == Spec => []ServesSource
<1>1. StartupInv => ServesSource
  BY DEF StartupInv, DataInv, ServesSource, Begun
<1> QED
  BY <1>1, InitStartupInv, NextStartupInv, PTL DEF Spec

\* Whatever names, in whatever case, and options a configuration gives its
\* extensions, a load balancer that loadExtensions loads has the defaults of its
\* backend.
THEOREM StartupBalancersConfigured == Spec => []BalancersConfigured
<1>1. StartupInv => BalancersConfigured
  <2> SUFFICES ASSUME StartupInv, NEW i \in DOMAIN hears
               PROVE  DefaultsOf(ToLower(Exts[i].name)) \subseteq Exts[i].options
    BY DEF BalancersConfigured
  <2>1. ExtsSound /\ i \in DOMAIN Exts
    BY ExtsAreSound DEF StartupInv, LoadInv, ExtsSound
  <2>2. Exts[i].name \in {"haproxy", "nginx"}
    BY DEF StartupInv, LoadInv, LoadBalancers
  <2>3. ToLower(Exts[i].name) = Exts[i].name
    BY <2>2, ToLowerAssumption
  <2> QED
    BY <2>1, <2>3 DEF ExtsSound
<1> QED
  BY <1>1, InitStartupInv, NextStartupInv, PTL DEF Spec

\* For any number of load balancer entries, loaded or given up, and whenever the
\* goroutines begin: the last one that is loaded and not followed by another
\* entry listens on the channel that the callbacks send on.
THEOREM StartupLastBalancerIsHeard == Spec => []LastBalancerIsHeard
<1>1. StartupInv => LastBalancerIsHeard
  BY DEF StartupInv, LoadInv
<1> QED
  BY <1>1, InitStartupInv, NextStartupInv, PTL DEF Spec

\* For every PollInterval and every moment at which the restart handler reads it:
\* a server that is up has the event stream or a poller of at least two seconds.
THEOREM StartupOneTrigger == Spec => []OneTrigger
<1>1. StartupInv => OneTrigger
  BY DEF StartupInv, TriggerInv, OneTrigger, Begun
<1> QED
  BY <1>1, InitStartupInv, NextStartupInv, PTL DEF Spec
=============================================================================
