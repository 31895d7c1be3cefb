-------------------------- MODULE ProxyConfigProofs -------------------------
(***************************************************************************)
(* Theorems about ProxyConfig: what GenerateProxyConfig of either backend  *)
(* makes of any list of containers with any labels.                        *)
(***************************************************************************)
EXTENDS ProxyConfig, SequenceTheorems, FiniteSetTheorems, TLAPS

-----------------------------------------------------------------------------
(* Go's maps of slices                                                     *)

\* The elements of a slice to which another one is appended.
LEMMA MembersConcat ==
  ASSUME NEW S, NEW s \in Seq(S), NEW t \in Seq(S)
  PROVE  /\ s \o t \in Seq(S)
         /\ Members(s \o t) = Members(s) \cup Members(t)
<1>1. /\ s \o t \in Seq(S)
      /\ Len(s \o t) = Len(s) + Len(t)
      /\ \A j \in 1 .. Len(s) + Len(t) :
           (s \o t)[j] = IF j <= Len(s) THEN s[j] ELSE t[j - Len(s)]
  BY ConcatProperties
<1>2. Len(s) \in Nat /\ Len(t) \in Nat
  OBVIOUS
<1>3. ASSUME NEW x \in Members(s \o t)
      PROVE  x \in Members(s) \cup Members(t)
  <2>1. PICK j \in 1 .. Len(s) + Len(t) : x = (s \o t)[j]
    BY <1>1, <1>3 DEF Members
  <2>2. CASE j <= Len(s)
    BY <2>1, <2>2, <1>1, <1>2 DEF Members
  <2>3. CASE ~(j <= Len(s))
    <3>1. j - Len(s) \in 1 .. Len(t) /\ x = t[j - Len(s)]
      BY <2>1, <2>3, <1>1, <1>2
    <3> QED
      BY <3>1 DEF Members
  <2> QED
    BY <2>2, <2>3
<1>4. ASSUME NEW x \in Members(s)
      PROVE  x \in Members(s \o t)
  <2>1. PICK j \in 1 .. Len(s) : x = s[j]
    BY <1>4 DEF Members
  <2>2. j \in 1 .. Len(s) + Len(t) /\ x = (s \o t)[j]
    BY <2>1, <1>1, <1>2
  <2> QED
    BY <2>2, <1>1 DEF Members
<1>5. ASSUME NEW x \in Members(t)
      PROVE  x \in Members(s \o t)
  <2>1. PICK j \in 1 .. Len(t) : x = t[j]
    BY <1>5 DEF Members
  <2>2. j + Len(s) \in 1 .. Len(s) + Len(t) /\ x = (s \o t)[j + Len(s)]
    BY <2>1, <1>1, <1>2
  <2> QED
    BY <2>2, <1>1 DEF Members
<1> QED
  BY <1>1, <1>3, <1>4, <1>5

\* The elements of a slice to which one element is appended.
LEMMA MembersAppend ==
  ASSUME NEW S, NEW s \in Seq(S), NEW x
  PROVE  /\ Append(s, x) \in Seq(S \cup {x})
         /\ Members(Append(s, x)) = Members(s) \cup {x}
<1>1. s \in Seq(S \cup {x}) /\ Len(s) \in Nat
  OBVIOUS
<1>2. /\ Append(s, x) \in Seq(S \cup {x})
      /\ Len(Append(s, x)) = Len(s) + 1
      /\ \A j \in 1 .. Len(s) : Append(s, x)[j] = s[j]
      /\ Append(s, x)[Len(s) + 1] = x
  BY <1>1, AppendProperties
<1>3. 1 .. Len(s) + 1 = (1 .. Len(s)) \cup {Len(s) + 1}
  BY <1>1
<1> QED
  BY <1>2, <1>3 DEF Members

\* A slice of equal elements.
LEMMA MembersConstant ==
  ASSUME NEW S, NEW e \in S, NEW n \in Nat
  PROVE  /\ [j \in 1 .. n |-> e] \in Seq(S)
         /\ Len([j \in 1 .. n |-> e]) = n
         /\ n > 0 => Members([j \in 1 .. n |-> e]) = {e}
         /\ n = 0 => [j \in 1 .. n |-> e] = <<>>
<1> DEFINE s == [j \in 1 .. n |-> e]
<1>1. s \in Seq(S) /\ Len(s) = n
  OBVIOUS
<1>2. n > 0 => Members(s) = {e}
  <2>1. \A x : x \in Members(s) => x = e
    BY <1>1 DEF Members
  <2>2. n > 0 => s[1] = e /\ 1 \in 1 .. Len(s)
    BY <1>1
  <2> QED
    BY <2>1, <2>2 DEF Members
<1>3. n = 0 => s = <<>>
  BY <1>1
<1> QED
  BY <1>1, <1>2, <1>3

\* AddEach adds an element, once or more, at each of the keys and leaves the
\* rest of the map alone.
LEMMA AddEachProperties ==
  ASSUME NEW f, NEW E, \A x \in DOMAIN f : f[x] \in Seq(E),
         NEW N, NEW ks \in Seq(N), NEW e \in E
  PROVE  /\ DOMAIN AddEach(f, ks, e) = DOMAIN f \cup Members(ks)
         /\ \A x \in DOMAIN f \cup Members(ks) :
              /\ AddEach(f, ks, e)[x] \in Seq(E)
              /\ x \in Members(ks) =>
                   /\ AddEach(f, ks, e)[x] # <<>>
                   /\ Members(AddEach(f, ks, e)[x])
                        = Members(Get(f, x, <<>>)) \cup {e}
              /\ x \notin Members(ks) => AddEach(f, ks, e)[x] = f[x]
<1> DEFINE at(x) == {j \in 1 .. Len(ks) : ks[j] = x}
           tail(x) == [j \in 1 .. Cardinality(at(x)) |-> e]
<1>1. AddEach(f, ks, e) = [x \in DOMAIN f \cup Members(ks) |->
                             Get(f, x, <<>>) \o tail(x)]
  BY DEF AddEach
<1>2. ASSUME NEW x
      PROVE  /\ IsFiniteSet(at(x)) /\ Cardinality(at(x)) \in Nat
             /\ x \in Members(ks) => Cardinality(at(x)) > 0
             /\ x \notin Members(ks) => Cardinality(at(x)) = 0
  <2>1. Len(ks) \in Nat
    OBVIOUS
  <2>2. IsFiniteSet(1 .. Len(ks))
    BY <2>1, FS_Interval
  <2>3. at(x) \subseteq 1 .. Len(ks)
    OBVIOUS
  <2>4. IsFiniteSet(at(x))
    BY <2>2, <2>3, FS_Subset
  <2>5. Cardinality(at(x)) \in Nat
    BY <2>4, FS_CardinalityType
  <2>6. Cardinality(at(x)) = 0 <=> at(x) = {}
    BY <2>4, FS_EmptySet
  <2>7. x \in Members(ks) <=> at(x) # {}
    BY DEF Members
  <2> HIDE DEF at
  <2> QED
    BY <2>4, <2>5, <2>6, <2>7
<1>3. ASSUME NEW x \in DOMAIN f \cup Members(ks)
      PROVE  /\ AddEach(f, ks, e)[x] \in Seq(E)
             /\ x \in Members(ks) =>
                  /\ AddEach(f, ks, e)[x] # <<>>
                  /\ Members(AddEach(f, ks, e)[x])
                       = Members(Get(f, x, <<>>)) \cup {e}
             /\ x \notin Members(ks) => AddEach(f, ks, e)[x] = f[x]
  <2> DEFINE old == Get(f, x, <<>>)
  <2>1. old \in Seq(E)
    BY DEF Get
  <2>2. AddEach(f, ks, e)[x] = old \o tail(x)
    BY <1>1
  <2>3. /\ tail(x) \in Seq(E)
        /\ Cardinality(at(x)) > 0 => Members(tail(x)) = {e}
        /\ Cardinality(at(x)) = 0 => tail(x) = <<>>
    <3> HIDE DEF at
    <3> QED
      BY <1>2, MembersConstant
  <2> HIDE DEF old, tail, at
  <2>4. /\ old \o tail(x) \in Seq(E)
        /\ Members(old \o tail(x)) = Members(old) \cup Members(tail(x))
    BY <2>1, <2>3, MembersConcat
  <2>5. Members(<<>>) = {}
    BY DEF Members
  <2>6. x \in Members(ks) => Members(old \o tail(x)) = Members(old) \cup {e}
    BY <2>3, <2>4, <1>2
  <2>7. x \in Members(ks) => old \o tail(x) # <<>>
    BY <2>6, <2>5
  <2>8. x \notin Members(ks) => old \o tail(x) = f[x]
    <3> SUFFICES ASSUME x \notin Members(ks)
                 PROVE  old \o tail(x) = f[x]
      OBVIOUS
    <3>1. tail(x) = <<>>
      BY <1>2, <2>3
    <3>2. old = f[x]
      BY DEF old, Get
    <3> QED
      BY <3>1, <3>2, <2>1
  <2> QED
    BY <2>2, <2>4, <2>6, <2>7, <2>8 DEF old
<1> HIDE DEF tail
<1>4. DOMAIN AddEach(f, ks, e) = DOMAIN f \cup Members(ks)
  BY <1>1
<1> QED
  BY <1>3, <1>4

-----------------------------------------------------------------------------
(* The frame                                                               *)

\* What every state has: a list of containers, and a turn within it.
LoopInv ==
  /\ backend \in Backends
  /\ list \in Seq(Containers)
  /\ pc \in {"loop", "done", "abort", "panic"}
  /\ i \in 1 .. (Len(list) + 1)
  /\ pc = "panic" => i <= Len(list)

\* Where the code may be after the turn of a container.
Turned ==
  /\ pc = "loop" /\ i <= Len(list)
  /\ backend' = backend /\ list' = list
  /\ \/ pc' = "loop" /\ i' = i + 1
     \/ pc' = "panic" /\ i' = i

\* The loop ends: at the end of the list, or with haproxy's error.
Ended ==
  /\ pc = "loop" /\ backend' = backend /\ list' = list /\ i' = i
  /\ pc' \in {"done", "abort"}

\* Every step ends the loop or is the turn of a container, and a container
\* that is passed over leaves the maps alone.
LEMMA Steps ==
  ASSUME LoopInv, Next
  PROVE  \/ Ended /\ UNCHANGED maps
         \/ /\ Turned
            /\ \/ /\ list[i].gone \/ ~Named(list[i])
                  /\ i' = i + 1
                  /\ UNCHANGED maps
               \/ SkipBadInterval(list[i]) \/ SkipUnreachable(list[i])
               \/ Panics(list[i]) \/ AddUpstream(list[i])
<1>1. CASE Build
  BY <1>1 DEF Build, Ended
<1>2. ASSUME NEW c \in Containers, Gone(c)
      PROVE  \/ Ended /\ UNCHANGED maps
             \/ Turned /\ list[i].gone /\ i' = i + 1 /\ UNCHANGED maps
  BY <1>2 DEF Gone, Turn, Advance, Ended, Turned
<1>3. ASSUME NEW c \in Containers, Unnamed(c)
      PROVE  Turned /\ ~Named(list[i]) /\ i' = i + 1 /\ UNCHANGED maps
  BY <1>3 DEF Unnamed, Turn, Advance, Turned
<1>4. ASSUME NEW c \in Containers, SkipBadInterval(c)
      PROVE  Turned /\ SkipBadInterval(list[i])
  BY <1>4 DEF SkipBadInterval, Turn, Advance, Turned
<1>5. ASSUME NEW c \in Containers, SkipUnreachable(c)
      PROVE  Turned /\ SkipUnreachable(list[i])
  BY <1>5 DEF SkipUnreachable, Turn, Advance, Turned
<1>6. ASSUME NEW c \in Containers, Panics(c)
      PROVE  Turned /\ Panics(list[i])
  BY <1>6 DEF Panics, Turn, Turned
<1>7. ASSUME NEW c \in Containers, AddUpstream(c)
      PROVE  Turned /\ AddUpstream(list[i])
  BY <1>7 DEF AddUpstream, Turn, Advance, Turned
<1> QED
  BY <1>1, <1>2, <1>3, <1>4, <1>5, <1>6, <1>7 DEF Next

\* The loop stays within the list.
LEMMA LoopStep ==
  ASSUME LoopInv, [Next]_vars
  PROVE  LoopInv'
<1>1. CASE UNCHANGED vars
  BY <1>1 DEF vars, LoopInv
<1>2. CASE Ended
  BY <1>2 DEF Ended, LoopInv
<1>3. CASE Turned
  BY <1>3 DEF Turned, LoopInv
<1> QED
  BY <1>1, <1>2, <1>3, Steps

\* The loop starts within the list.
LEMMA LoopInit ==
  ASSUME Init
  PROVE  LoopInv
<1>1. list \in Seq(Containers)
  BY DEF Init
<1> QED
  BY <1>1 DEF Init, LoopInv

-----------------------------------------------------------------------------
(* The upstreams                                                           *)

\* What the map of upstreams holds.
Entry ==
  {[id |-> j, addr |-> a] : j \in Nat, a \in UNION {Addresses(c) : c \in Containers}}

\* The set of these is a constant.
LEMMA EntryFrame == Entry' = Entry
BY DEF Entry, Addresses, OverlayEnabled, OverlayPorts, BackendAddresses, HostPorts,
   LabelledPorts, Published, Has

\* The upstreams of a host, as UpstreamsExact has them.
UpInv ==
  /\ \A k \in DOMAIN up : up[k] \in Seq(Entry) /\ up[k] # <<>>
  /\ \A k \in DOMAIN up :
       {u.id : u \in Members(up[k])} = {j \in 1 .. (i - 1) : Serves(j, k)}
  /\ \A j \in 1 .. (i - 1) : \A k : Serves(j, k) => k \in DOMAIN up

\* Whom a container serves depends on the list only.
LEMMA ServesFrame ==
  ASSUME list' = list, backend' = backend
  PROVE  \A j, k : Serves(j, k)' <=> Serves(j, k)
<1>1. \A c : Valid(c)' <=> Valid(c)
  BY DEF Valid, BadInterval
<1> QED
  BY <1>1 DEF Serves

\* A container that becomes an upstream becomes one of the hosts it serves.
LEMMA ServedHosts ==
  ASSUME LoopInv, i <= Len(list), Valid(list[i]), Reachable(list[i])
  PROVE  /\ \A k : Serves(i, k) <=> k \in Members(UpstreamHosts(list[i]))
         /\ HostOf(list[i]) \in Members(UpstreamHosts(list[i]))
         /\ \E N : UpstreamHosts(list[i]) \in Seq(N)
<1> DEFINE c == list[i]
<1>1. c \in Containers
  BY DEF LoopInv
<1>2. c.aliases \in Seq(Seq(STRING))
  BY <1>1, ContainerAssumption
<1>3. \A k : Serves(i, k) <=> \/ k = HostOf(c)
                              \/ backend = "haproxy" /\ k \in Members(c.aliases)
  BY DEF Serves, AliasDomains
<1> HIDE DEF c
<1>4. CASE backend = "nginx"
  <2>1. UpstreamHosts(c) = <<HostOf(c)>>
    BY <1>4 DEF UpstreamHosts
  <2>2. Members(<<HostOf(c)>>) = {HostOf(c)} /\ <<HostOf(c)>> \in Seq({HostOf(c)})
    BY DEF Members
  <2> QED
    BY <1>3, <1>4, <2>1, <2>2 DEF c
<1>5. CASE backend # "nginx"
  <2>1. backend = "haproxy"
    BY <1>5, ContainerAssumption DEF LoopInv
  <2>2. UpstreamHosts(c) = Append(c.aliases, HostOf(c))
    BY <1>5 DEF UpstreamHosts, AliasDomains
  <2>3. /\ Append(c.aliases, HostOf(c)) \in Seq(Seq(STRING) \cup {HostOf(c)})
        /\ Members(Append(c.aliases, HostOf(c)))
             = Members(c.aliases) \cup {HostOf(c)}
    BY <1>2, MembersAppend
  <2> QED
    BY <1>3, <2>1, <2>2, <2>3 DEF c
<1> QED
  BY <1>4, <1>5

\* A turn that adds no upstream is that of a container which serves no host,
\* or panics.
LEMMA UpFrame ==
  ASSUME LoopInv, UpInv, list' = list, backend' = backend, up' = up,
         i' = i \/ (i' = i + 1 /\ \A k : ~Serves(i, k))
  PROVE  UpInv'
<1>1. i \in Nat /\ i >= 1
  BY DEF LoopInv
<1>2. \A j \in 1 .. (i' - 1) : j \in 1 .. (i - 1) \/ j = i
  BY <1>1
<1>3. \A j \in 1 .. (i - 1) : j \in 1 .. (i' - 1)
  BY <1>1
<1>4. \A k : {j \in 1 .. (i' - 1) : Serves(j, k)} = {j \in 1 .. (i - 1) : Serves(j, k)}
  <2> SUFFICES ASSUME NEW k, NEW j
               PROVE  (j \in 1 .. (i' - 1) /\ Serves(j, k))
                        <=> (j \in 1 .. (i - 1) /\ Serves(j, k))
    OBVIOUS
  <2> QED
    BY <1>2, <1>3, <1>1
<1>5. \A k : {j \in 1 .. (i' - 1) : Serves(j, k)'} = {j \in 1 .. (i - 1) : Serves(j, k)}
  BY <1>4, ServesFrame
<1>6. Entry' = Entry
  BY EntryFrame
<1>7. \A j \in 1 .. (i' - 1) : \A k : Serves(j, k)' => k \in DOMAIN up
  <2> SUFFICES ASSUME NEW j \in 1 .. (i' - 1), NEW k, Serves(j, k)
               PROVE  k \in DOMAIN up
    BY ServesFrame
  <2>1. j \in 1 .. (i - 1)
    BY <1>1, <1>2
  <2> QED
    BY <2>1 DEF UpInv
<1> QED
  BY <1>5, <1>6, <1>7 DEF UpInv, Members

\* AddUpstream adds one entry to the hosts that the container serves.
LEMMA AddedUpstream ==
  ASSUME LoopInv, UpInv, Turned, AddUpstream(list[i])
  PROVE  \E e \in Entry :
           /\ e.id = i
           /\ DOMAIN up' = DOMAIN up \cup Members(UpstreamHosts(list[i]))
           /\ \A k \in DOMAIN up' :
                /\ up'[k] \in Seq(Entry)
                /\ k \in Members(UpstreamHosts(list[i])) =>
                     /\ up'[k] # <<>>
                     /\ Members(up'[k]) = Members(Get(up, k, <<>>)) \cup {e}
                /\ k \notin Members(UpstreamHosts(list[i])) => up'[k] = up[k]
<1> DEFINE c == list[i]
           ks == UpstreamHosts(c)
<1>1. i \in Nat /\ i >= 1 /\ i <= Len(list) /\ i' = i + 1
  BY DEF LoopInv, Turned, AddUpstream, Advance
<1>2. c \in Containers
  BY <1>1 DEF LoopInv
<1>3. PICK addr \in Addresses(c) : up' = AddEach(up, ks, [id |-> i, addr |-> addr])
  BY DEF AddUpstream
<1> DEFINE e == [id |-> i, addr |-> addr]
<1>4. e \in Entry /\ e.id = i
  BY <1>1, <1>2, <1>3 DEF Entry
<1>5. \E N : ks \in Seq(N)
  BY <1>1, ServedHosts DEF AddUpstream
<1>6. PICK N : ks \in Seq(N)
  BY <1>5
<1>7. \A k \in DOMAIN up : up[k] \in Seq(Entry)
  BY DEF UpInv
<1> DEFINE g == AddEach(up, ks, e)
<1>8. up' = g
  BY <1>3
<1> HIDE DEF ks, e, g
<1>9. /\ DOMAIN g = DOMAIN up \cup Members(ks)
      /\ \A k \in DOMAIN up \cup Members(ks) :
           /\ g[k] \in Seq(Entry)
           /\ k \in Members(ks) =>
                /\ g[k] # <<>>
                /\ Members(g[k]) = Members(Get(up, k, <<>>)) \cup {e}
           /\ k \notin Members(ks) => g[k] = up[k]
  BY <1>4, <1>6, <1>7, AddEachProperties, Zenon DEF g
<1>10. /\ DOMAIN up' = DOMAIN up \cup Members(ks)
       /\ \A k \in DOMAIN up' :
            /\ up'[k] \in Seq(Entry)
            /\ k \in Members(ks) =>
                 /\ up'[k] # <<>>
                 /\ Members(up'[k]) = Members(Get(up, k, <<>>)) \cup {e}
            /\ k \notin Members(ks) => up'[k] = up[k]
  BY <1>8, <1>9, Zenon
<1> QED
  BY <1>4, <1>10, Zenon DEF ks

\* AddUpstream adds the container to the hosts it serves.
LEMMA UpAdd ==
  ASSUME LoopInv, UpInv, Turned, AddUpstream(list[i])
  PROVE  UpInv'
<1> DEFINE c == list[i]
           ks == UpstreamHosts(c)
<1>1. i \in Nat /\ i >= 1 /\ i <= Len(list) /\ i' = i + 1
  BY DEF LoopInv, Turned, AddUpstream, Advance
<1>2. \A k : Serves(i, k) <=> k \in Members(ks)
  BY <1>1, ServedHosts DEF AddUpstream
<1>3. PICK e \in Entry :
        /\ e.id = i
        /\ DOMAIN up' = DOMAIN up \cup Members(ks)
        /\ \A k \in DOMAIN up' :
             /\ up'[k] \in Seq(Entry)
             /\ k \in Members(ks) =>
                  /\ up'[k] # <<>>
                  /\ Members(up'[k]) = Members(Get(up, k, <<>>)) \cup {e}
             /\ k \notin Members(ks) => up'[k] = up[k]
  BY AddedUpstream
<1> HIDE DEF ks
<1>4. \A j, k : Serves(j, k)' <=> Serves(j, k)
  BY ServesFrame DEF Turned
<1>5. Entry' = Entry /\ list' = list /\ Members(<<>>) = {}
  <2>1. Entry' = Entry
    BY EntryFrame
  <2>2. Members(<<>>) = {}
    BY DEF Members
  <2> QED
    BY <2>1, <2>2 DEF Turned
<1>6. ASSUME NEW k
       PROVE  {u.id : u \in Members(Get(up, k, <<>>))}
                = {j \in 1 .. (i - 1) : Serves(j, k)}
  <2>1. CASE k \in DOMAIN up
    BY <2>1 DEF Get, UpInv
  <2>2. CASE k \notin DOMAIN up
    <3>1. {j \in 1 .. (i - 1) : Serves(j, k)} = {}
      BY <2>2 DEF UpInv
    <3>2. Members(Get(up, k, <<>>)) = {}
      BY <2>2, <1>5 DEF Get
    <3> QED
      BY <3>1, <3>2
  <2> QED
    BY <2>1, <2>2
<1>7. ASSUME NEW k \in DOMAIN up'
       PROVE  {u.id : u \in Members(up'[k])} = {j \in 1 .. i : Serves(j, k)}
  <2>1. CASE k \in Members(ks)
    <3>1. {u.id : u \in Members(up'[k])}
            = {u.id : u \in Members(Get(up, k, <<>>))} \cup {i}
      <4>1. Members(up'[k]) = Members(Get(up, k, <<>>)) \cup {e}
        BY <2>1, <1>3
      <4> QED
        BY <4>1, <1>3
    <3>2. {j \in 1 .. i : Serves(j, k)} = {j \in 1 .. (i - 1) : Serves(j, k)} \cup {i}
      <4>1. Serves(i, k)
        BY <2>1, <1>2
      <4>2. 1 .. i = (1 .. (i - 1)) \cup {i}
        BY <1>1
      <4> QED
        BY <4>1, <4>2
    <3> QED
      BY <3>1, <3>2, <1>6
  <2>2. CASE k \notin Members(ks)
    <3>1. k \in DOMAIN up /\ up'[k] = up[k]
      BY <2>2, <1>3
    <3>2. {j \in 1 .. i : Serves(j, k)} = {j \in 1 .. (i - 1) : Serves(j, k)}
      BY <2>2, <1>2, <1>1
    <3> QED
      BY <3>1, <3>2 DEF UpInv
  <2> QED
    BY <2>1, <2>2
<1>8. \A j \in 1 .. i : \A k : Serves(j, k)' => k \in DOMAIN up'
  <2> SUFFICES ASSUME NEW j \in 1 .. i, NEW k, Serves(j, k)
               PROVE  k \in DOMAIN up'
    BY <1>4
  <2>1. j \in 1 .. (i - 1) \/ j = i
    BY <1>1
  <2> QED
    BY <2>1, <1>2, <1>3 DEF UpInv
<1>9. \A k \in DOMAIN up' : up'[k] \in Seq(Entry)' /\ up'[k] # <<>>
  BY <1>3, <1>5 DEF UpInv
<1>10. i' - 1 = i
  BY <1>1
<1>11. \A k \in DOMAIN up' :
         {u.id : u \in Members(up'[k])} = {j \in 1 .. i : Serves(j, k)'}
  BY <1>7, <1>4
<1> QED
  BY <1>8, <1>9, <1>10, <1>11 DEF UpInv, Members

\* The upstreams stay as they should be.
LEMMA UpStep ==
  ASSUME LoopInv, UpInv, [Next]_vars
  PROVE  UpInv'
<1>1. CASE UNCHANGED vars
  BY <1>1, UpFrame DEF vars, maps
<1>2. CASE Ended /\ UNCHANGED maps
  BY <1>2, UpFrame DEF Ended, maps
<1>3. CASE Turned /\ (list[i].gone \/ ~Named(list[i])) /\ i' = i + 1 /\ UNCHANGED maps
  <2>1. \A k : ~Serves(i, k)
    BY <1>3 DEF Serves, Valid
  <2> QED
    BY <1>3, <2>1, UpFrame DEF Turned, maps
<1>4. CASE Turned /\ SkipBadInterval(list[i])
  <2>1. \A k : ~Serves(i, k)
    BY <1>4 DEF Serves, Valid, SkipBadInterval
  <2> QED
    BY <1>4, <2>1, UpFrame DEF Turned, SkipBadInterval, Advance
<1>5. CASE Turned /\ SkipUnreachable(list[i])
  <2>1. \A k : ~Serves(i, k)
    BY <1>5 DEF Serves, SkipUnreachable
  <2> QED
    BY <1>5, <2>1, UpFrame DEF Turned, SkipUnreachable, Advance
<1>6. CASE Turned /\ Panics(list[i])
  BY <1>6, UpFrame DEF Turned, Panics
<1>7. CASE Turned /\ AddUpstream(list[i])
  BY <1>7, UpAdd
<1> QED
  BY <1>1, <1>2, <1>3, <1>4, <1>5, <1>6, <1>7, Steps

\* At first there are no upstreams.
LEMMA UpInit ==
  ASSUME Init
  PROVE  UpInv
<1>1. DOMAIN up = {} /\ i = 1
  BY DEF Init
<1> QED
  BY <1>1 DEF UpInv

\* The invariant says what UpstreamsExact says.
LEMMA UpExact ==
  ASSUME UpInv
  PROVE  UpstreamsExact
BY DEF UpInv, UpstreamsExact

\* For any containers, labels and lists, and for both backends,
\* GenerateProxyConfig makes a container an upstream of every host it names
\* and of no other one.
THEOREM ProxyConfigUpstreamsExact == Spec => []UpstreamsExact
<1>1. Init => LoopInv /\ UpInv
  BY LoopInit, UpInit
<1>2. LoopInv /\ UpInv /\ [Next]_vars => (LoopInv /\ UpInv)'
  BY LoopStep, UpStep
<1>3. LoopInv /\ UpInv => UpstreamsExact
  BY UpExact
<1> QED
  BY <1>1, <1>2, <1>3, PTL DEF Spec

-----------------------------------------------------------------------------
(* The networks                                                            *)

\* Nothing is joined, and no upstream added.
LEMMA NetworksFrame ==
  ASSUME NetworksExact, list' = list, up' = up, networks' = networks
  PROVE  NetworksExact'
BY DEF NetworksExact, Upstreams, Members, OverlayEnabled, Has

\* AddUpstream joins the network of what it adds.
LEMMA NetworksAdd ==
  ASSUME LoopInv, UpInv, NetworksExact, Turned, AddUpstream(list[i])
  PROVE  NetworksExact'
<1> DEFINE ks == UpstreamHosts(list[i])
<1>1. i <= Len(list) /\ list' = list
  BY DEF Turned
<1>2. HostOf(list[i]) \in Members(ks)
  BY <1>1, ServedHosts DEF AddUpstream
<1>3. PICK e \in Entry :
        /\ e.id = i
        /\ DOMAIN up' = DOMAIN up \cup Members(ks)
        /\ \A k \in DOMAIN up' :
             /\ k \in Members(ks) =>
                  Members(up'[k]) = Members(Get(up, k, <<>>)) \cup {e}
             /\ k \notin Members(ks) => up'[k] = up[k]
  BY AddedUpstream
<1> HIDE DEF ks
<1>4. Members(<<>>) = {}
  BY DEF Members
<1>5. Upstreams' = UNION {Members(up'[k]) : k \in DOMAIN up'}
  BY DEF Upstreams, Members
<1>6. Upstreams' = Upstreams \cup {e}
  <2>1. ASSUME NEW u \in Upstreams'
        PROVE  u \in Upstreams \cup {e}
    <3>1. PICK k \in DOMAIN up' : u \in Members(up'[k])
      BY <2>1, <1>5
    <3>2. CASE k \in Members(ks) /\ k \in DOMAIN up
      BY <3>1, <3>2, <1>3 DEF Get, Upstreams
    <3>3. CASE k \in Members(ks) /\ k \notin DOMAIN up
      BY <3>1, <3>3, <1>3, <1>4 DEF Get
    <3>4. CASE k \notin Members(ks)
      BY <3>1, <3>4, <1>3 DEF Upstreams
    <3> QED
      BY <3>2, <3>3, <3>4
  <2>2. ASSUME NEW u \in Upstreams
        PROVE  u \in Upstreams'
    <3>1. PICK k \in DOMAIN up : u \in Members(up[k])
      BY <2>2 DEF Upstreams
    <3>2. k \in DOMAIN up' /\ u \in Members(up'[k])
      BY <3>1, <1>3 DEF Get
    <3> QED
      BY <3>2, <1>5
  <2>3. e \in Upstreams'
    BY <1>2, <1>3, <1>5
  <2> QED
    BY <2>1, <2>2, <2>3
<1>7. networks' = IF OverlayEnabled(list[i])
                  THEN networks \cup {list[i].labels.network} ELSE networks
  BY DEF AddUpstream
<1> DEFINE net(u) == list[u.id].labels.network
           over(S) == {x \in S : OverlayEnabled(list[x.id])}
<1>8. networks = {net(u) : u \in over(Upstreams)}
  BY DEF NetworksExact
<1>9. networks' = {net(u) : u \in over(Upstreams \cup {e})}
  <2>1. CASE OverlayEnabled(list[i])
    <3>1. over(Upstreams \cup {e}) = over(Upstreams) \cup {e}
      BY <2>1, <1>3
    <3>2. net(e) = list[i].labels.network
      BY <1>3
    <3> HIDE DEF over, net
    <3> QED
      BY <2>1, <3>1, <3>2, <1>7, <1>8
  <2>2. CASE ~OverlayEnabled(list[i])
    <3>1. over(Upstreams \cup {e}) = over(Upstreams)
      BY <2>2, <1>3
    <3> QED
      BY <2>2, <3>1, <1>7, <1>8
  <2> QED
    BY <2>1, <2>2
<1>10. \A c : OverlayEnabled(c)' <=> OverlayEnabled(c)
  BY DEF OverlayEnabled, Has
<1> QED
  BY <1>1, <1>6, <1>9, <1>10 DEF NetworksExact

\* The networks stay those of the upstreams.
LEMMA NetworksStep ==
  ASSUME LoopInv, UpInv, NetworksExact, [Next]_vars
  PROVE  NetworksExact'
<1>1. CASE UNCHANGED vars
  BY <1>1, NetworksFrame DEF vars, maps
<1>2. CASE (Ended \/ Turned) /\ UNCHANGED maps
  BY <1>2, NetworksFrame DEF Ended, Turned, maps
<1>3. CASE Turned /\ SkipBadInterval(list[i])
  BY <1>3, NetworksFrame DEF Turned, SkipBadInterval
<1>4. CASE Turned /\ SkipUnreachable(list[i])
  BY <1>4, NetworksFrame DEF Turned, SkipUnreachable
<1>5. CASE Turned /\ Panics(list[i])
  BY <1>5, NetworksFrame DEF Turned, Panics
<1>6. CASE Turned /\ AddUpstream(list[i])
  BY <1>6, NetworksAdd
<1> QED
  BY <1>1, <1>2, <1>3, <1>4, <1>5, <1>6, Steps

\* At first there are neither networks nor upstreams.
LEMMA NetworksInit ==
  ASSUME Init
  PROVE  NetworksExact
<1>1. DOMAIN up = {} /\ networks = {}
  BY DEF Init
<1>2. Upstreams = {}
  BY <1>1 DEF Upstreams
<1> QED
  BY <1>1, <1>2 DEF NetworksExact

\* For any list of containers the networks that the update handler connects
\* the proxies to are exactly those of the upstreams in overlay networks.
THEOREM ProxyConfigNetworksExact == Spec => []NetworksExact
<1>1. Init => LoopInv /\ UpInv /\ NetworksExact
  BY LoopInit, UpInit, NetworksInit
<1>2. LoopInv /\ UpInv /\ NetworksExact /\ [Next]_vars
        => (LoopInv /\ UpInv /\ NetworksExact)'
  BY LoopStep, UpStep, NetworksStep
<1> QED
  BY <1>1, <1>2, PTL DEF Spec

-----------------------------------------------------------------------------
(* The context roots                                                       *)

\* The hosts that a container names.
NamesOf(c) == {HostOf(c)} \cup Members(AliasDomains(c))

\* Every host that has a context root has that of a container which names it.
RootsInv ==
  /\ DOMAIN up \subseteq DOMAIN roots
  /\ \A k \in DOMAIN roots :
       \E j \in Handled : k \in NamesOf(list[j]) /\ roots[k] = RootOf(list[j])

\* The containers that have been handled, and the last of them.
LEMMA HandledStep ==
  ASSUME LoopInv
  PROVE  /\ Turned => Handled' = Handled \cup {i}
         /\ Turned => \A j \in Handled : j < i
         /\ Ended => Handled' = Handled
<1>1. i \in Nat /\ i >= 1
  BY DEF LoopInv
<1>2. ASSUME Turned
      PROVE  Handled = 1 .. (i - 1) /\ Handled' = 1 .. i
  BY <1>1, <1>2 DEF Turned, Handled
<1>3. 1 .. i = (1 .. (i - 1)) \cup {i} /\ \A j \in 1 .. (i - 1) : j < i
  BY <1>1
<1>4. ASSUME Ended
      PROVE  Handled' = Handled
  BY <1>4 DEF Ended, Handled
<1> QED
  BY <1>2, <1>3, <1>4

\* What a container is named does not change.
LEMMA NamesFrame ==
  ASSUME list' = list
  PROVE  \A j : /\ NamesOf(list[j])' = NamesOf(list[j])
                /\ RootOf(list[j])' = RootOf(list[j])
<1>1. \A j : HostOf(list[j])' = HostOf(list[j])
  BY DEF HostOf, ContextRoot, ContextRootName, Hostname, Domain, Label, Has, Replace
<1>2. \A j : Members(AliasDomains(list[j]))' = Members(AliasDomains(list[j]))
  BY DEF Members, AliasDomains
<1>3. \A j : RootOf(list[j])' = RootOf(list[j])
  BY DEF RootOf, ContextRoot, ContextRootName, Label, Has, Replace
<1> QED
  BY <1>1, <1>2, <1>3 DEF NamesOf

\* A turn that notes the context root of the container under its names.
LEMMA RootsTurn ==
  ASSUME LoopInv, RootsInv, Turned, NEW A, A \subseteq NamesOf(list[i]),
         DOMAIN roots' = DOMAIN roots \cup A,
         \A k \in DOMAIN roots' :
           roots'[k] = IF k \in A THEN RootOf(list[i]) ELSE roots[k],
         DOMAIN up' \subseteq DOMAIN roots'
  PROVE  RootsInv'
<1>1. Handled' = Handled \cup {i}
  BY HandledStep
<1>2. ASSUME NEW k \in DOMAIN roots'
      PROVE  \E j \in Handled' : /\ k \in NamesOf(list[j])
                                 /\ roots'[k] = RootOf(list[j])
  <2>1. CASE k \in A
    BY <2>1, <1>1
  <2>2. CASE k \notin A
    <3>1. k \in DOMAIN roots /\ roots'[k] = roots[k]
      BY <2>2
    <3>2. PICK j \in Handled : k \in NamesOf(list[j]) /\ roots[k] = RootOf(list[j])
      BY <3>1 DEF RootsInv
    <3> QED
      BY <3>1, <3>2, <1>1
  <2> QED
    BY <2>1, <2>2
<1>3. \A j : /\ NamesOf(list[j])' = NamesOf(list[j])
             /\ RootOf(list[j])' = RootOf(list[j])
  BY NamesFrame DEF Turned
<1>4. ASSUME NEW k \in DOMAIN roots'
      PROVE  \E j \in Handled' : /\ k \in NamesOf(list[j])'
                                 /\ roots'[k] = RootOf(list[j])'
  BY <1>2, <1>3
<1> QED
  BY <1>4 DEF RootsInv

\* A turn or an end that leaves the maps alone.
LEMMA RootsFrame ==
  ASSUME RootsInv, list' = list, up' = up, roots' = roots, Handled \subseteq Handled'
  PROVE  RootsInv'
<1>1. \A j : /\ NamesOf(list[j])' = NamesOf(list[j])
             /\ RootOf(list[j])' = RootOf(list[j])
  BY NamesFrame
<1>2. \A k \in DOMAIN roots :
        \E j \in Handled' : k \in NamesOf(list[j]) /\ roots[k] = RootOf(list[j])
  BY DEF RootsInv
<1> QED
  BY <1>1, <1>2 DEF RootsInv

\* Labelled notes the context root under the host and the aliases.
LEMMA LabelledRoots ==
  ASSUME NEW c, NEW N, NEW aliases \in Seq(N), Labelled(c, aliases)
  PROVE  /\ DOMAIN roots' = DOMAIN roots \cup (Members(aliases) \cup {HostOf(c)})
         /\ \A k \in DOMAIN roots' :
              roots'[k] = IF k \in Members(aliases) \cup {HostOf(c)}
                          THEN RootOf(c) ELSE roots[k]
<1>1. Members(Append(aliases, HostOf(c))) = Members(aliases) \cup {HostOf(c)}
  BY MembersAppend
<1>2. roots' = PutEach(roots, Append(aliases, HostOf(c)), RootOf(c))
  BY DEF Labelled
<1> QED
  BY <1>1, <1>2 DEF PutEach

\* The context roots stay as they should be.
LEMMA RootsStep ==
  ASSUME LoopInv, UpInv, RootsInv, [Next]_vars
  PROVE  RootsInv'
<1> DEFINE c == list[i]
<1>1. CASE UNCHANGED vars
  <2>1. Handled' = Handled
    BY <1>1 DEF vars, Handled
  <2> QED
    BY <1>1, <2>1, RootsFrame DEF vars, maps
<1>2. CASE (Ended \/ Turned) /\ UNCHANGED maps
  BY <1>2, RootsFrame, HandledStep DEF Ended, Turned, maps
<1>3. CASE Turned /\ SkipBadInterval(c)
  <2>1. roots' = Put(roots, HostOf(c), RootOf(c)) /\ up' = up
    BY <1>3 DEF SkipBadInterval
  <2>2. /\ DOMAIN roots' = DOMAIN roots \cup {HostOf(c)}
        /\ \A k \in DOMAIN roots' :
             roots'[k] = IF k \in {HostOf(c)} THEN RootOf(c) ELSE roots[k]
    BY <2>1 DEF Put
  <2>3. DOMAIN up' \subseteq DOMAIN roots'
    BY <2>1, <2>2 DEF RootsInv
  <2>4. {HostOf(c)} \subseteq NamesOf(c)
    BY DEF NamesOf
  <2> QED
    BY <1>3, <2>2, <2>3, <2>4, RootsTurn
<1>4. ASSUME Turned, Labelled(c, <<>>), up' = up
      PROVE  RootsInv'
  <2>1. <<>> \in Seq(Nat) /\ Members(<<>>) = {}
    BY DEF Members
  <2>2. /\ DOMAIN roots' = DOMAIN roots \cup {HostOf(c)}
        /\ \A k \in DOMAIN roots' :
             roots'[k] = IF k \in {HostOf(c)} THEN RootOf(c) ELSE roots[k]
    <3>1. /\ DOMAIN roots' = DOMAIN roots \cup (Members(<<>>) \cup {HostOf(c)})
          /\ \A k \in DOMAIN roots' :
               roots'[k] = IF k \in Members(<<>>) \cup {HostOf(c)}
                           THEN RootOf(c) ELSE roots[k]
      BY <1>4, <2>1, LabelledRoots
    <3> QED
      BY <2>1, <3>1
  <2>3. DOMAIN up' \subseteq DOMAIN roots'
    BY <1>4, <2>2 DEF RootsInv
  <2>4. {HostOf(c)} \subseteq NamesOf(c)
    BY DEF NamesOf
  <2> QED
    BY <1>4, <2>2, <2>3, <2>4, RootsTurn
<1>5. CASE Turned /\ SkipUnreachable(c)
  BY <1>5, <1>4 DEF SkipUnreachable
<1>6. CASE Turned /\ Panics(c)
  BY <1>6, <1>4 DEF Panics
<1>7. CASE Turned /\ AddUpstream(c)
  <2>1. c \in Containers
    BY <1>7 DEF LoopInv, Turned
  <2>2. AliasDomains(c) \in Seq(Seq(STRING))
    BY <2>1, ContainerAssumption DEF AliasDomains
  <2>3. Labelled(c, AliasDomains(c))
    BY <1>7 DEF AddUpstream
  <2>4. /\ DOMAIN roots' = DOMAIN roots \cup NamesOf(c)
        /\ \A k \in DOMAIN roots' :
             roots'[k] = IF k \in NamesOf(c) THEN RootOf(c) ELSE roots[k]
    <3>1. NamesOf(c) = Members(AliasDomains(c)) \cup {HostOf(c)}
      BY DEF NamesOf
    <3> QED
      BY <3>1, <2>2, <2>3, LabelledRoots
  <2>5. DOMAIN up' = DOMAIN up \cup Members(UpstreamHosts(c))
    BY <1>7, AddedUpstream
  <2>6. \A k : Serves(i, k) <=> k \in Members(UpstreamHosts(c))
    BY <1>7, ServedHosts DEF AddUpstream, Turned
  <2>7. \A k : Serves(i, k) => k \in NamesOf(c)
    BY DEF Serves, NamesOf
  <2>8. DOMAIN up' \subseteq DOMAIN roots'
    BY <2>4, <2>5, <2>6, <2>7 DEF RootsInv
  <2> QED
    BY <1>7, <2>4, <2>8, RootsTurn
<1> QED
  BY <1>1, <1>2, <1>3, <1>5, <1>6, <1>7, Steps

\* For any list of containers every host that is rendered has a context
\* root, and it is that of a container which names the host.
THEOREM ProxyConfigHostsRender == Spec => []HostsRender
<1>1. ASSUME Init
      PROVE  RootsInv
  <2>1. DOMAIN up = {} /\ DOMAIN roots = {}
    BY <1>1 DEF Init
  <2> QED
    BY <2>1 DEF RootsInv
<1>2. Init => LoopInv /\ UpInv /\ RootsInv
  BY <1>1, LoopInit, UpInit
<1>3. LoopInv /\ UpInv /\ RootsInv /\ [Next]_vars => (LoopInv /\ UpInv /\ RootsInv)'
  BY LoopStep, UpStep, RootsStep
<1>4. RootsInv => HostsRender
  BY DEF RootsInv, HostsRender, NamesOf
<1> QED
  BY <1>2, <1>3, <1>4, PTL DEF Spec

-----------------------------------------------------------------------------
(* The server names, and which backend fills which map                     *)

\* A name of a host.
Name == Seq(STRING) \cup {HostOf(c) : c \in Containers}

\* Every entry of nginx's server names begins with the host itself.
ServerNames ==
  \A k \in DOMAIN names :
    names[k] \in Seq(Name) /\ names[k] # <<>> /\ names[k][1] = k

\* The part of TypeOK that is about the maps.
MapsInv ==
  /\ ServerNames
  /\ backend = "nginx" =>
       /\ DOMAIN up \subseteq DOMAIN names
       /\ DOMAIN check = {} /\ DOMAIN bopts = {}
  /\ backend = "haproxy" =>
       DOMAIN names = {} /\ DOMAIN cert = {} /\ DOMAIN ws = {}

\* The set of names is a constant.
LEMMA NameFrame == Name' = Name
BY DEF Name, HostOf, ContextRoot, ContextRootName, Hostname, Domain, Label, Has, Replace

\* Appending the aliases keeps the host's own name first.
LEMMA NamesPut ==
  ASSUME ServerNames, NEW c \in Containers, NEW aliases \in Seq(Name),
         names' = Put(names, HostOf(c),
                      Get(names, HostOf(c), <<HostOf(c)>>) \o aliases)
  PROVE  /\ DOMAIN names' = DOMAIN names \cup {HostOf(c)}
         /\ ServerNames'
<1> DEFINE h == HostOf(c)
           old == Get(names, h, <<h>>)
<1>1. h \in Name
  BY DEF Name
<1>2. old \in Seq(Name) /\ old # <<>> /\ old[1] = h
  <2> HIDE DEF h
  <2>1. CASE h \in DOMAIN names
    BY <2>1 DEF Get, ServerNames
  <2>2. CASE h \notin DOMAIN names
    BY <2>2, <1>1 DEF Get
  <2> QED
    BY <2>1, <2>2
<1>3. names' = Put(names, h, old \o aliases)
  OBVIOUS
<1> HIDE DEF h, old
<1>4. Len(old) \in Nat /\ Len(old) >= 1 /\ Len(aliases) \in Nat
  BY <1>2
<1>5. /\ old \o aliases \in Seq(Name)
      /\ Len(old \o aliases) = Len(old) + Len(aliases)
      /\ \A j \in 1 .. Len(old) + Len(aliases) :
           (old \o aliases)[j] = IF j <= Len(old) THEN old[j] ELSE aliases[j - Len(old)]
  BY <1>2, ConcatProperties
<1>6. (old \o aliases)[1] = h
  <2>1. 1 \in 1 .. Len(old) + Len(aliases) /\ 1 <= Len(old)
    BY <1>4
  <2> QED
    BY <2>1, <1>5, <1>2
<1>7. old \o aliases # <<>>
  BY <1>4, <1>5
<1>8. /\ DOMAIN names' = DOMAIN names \cup {h}
      /\ \A k \in DOMAIN names' : names'[k] = IF k = h THEN old \o aliases ELSE names[k]
  BY <1>3 DEF Put
<1>9. \A k \in DOMAIN names' :
        names'[k] \in Seq(Name) /\ names'[k] # <<>> /\ names'[k][1] = k
  BY <1>5, <1>6, <1>7, <1>8 DEF ServerNames
<1> QED
  BY <1>8, <1>9, NameFrame DEF ServerNames, h

\* Nothing but the turn changes.
LEMMA MapsFrame ==
  ASSUME MapsInv, backend' = backend, up' = up, names' = names, cert' = cert,
         check' = check, bopts' = bopts, ws' = ws
  PROVE  MapsInv'
BY NameFrame DEF MapsInv, ServerNames

\* Labelled, with what becomes of the upstreams and the websockets.
LEMMA MapsLabelled ==
  ASSUME LoopInv, MapsInv, Turned, NEW aliases \in Seq(Name),
         Labelled(list[i], aliases),
         backend = "nginx" => DOMAIN up' \subseteq DOMAIN up \cup {HostOf(list[i])},
         backend = "haproxy" => ws' = ws
  PROVE  MapsInv'
<1> DEFINE c == list[i]
<1>1. c \in Containers /\ backend' = backend
  BY DEF LoopInv, Turned
<1>2. CASE backend = "nginx"
  <2>1. names' = Put(names, HostOf(c), Get(names, HostOf(c), <<HostOf(c)>>) \o aliases)
    BY <1>2 DEF Labelled
  <2>2. check' = check /\ bopts' = bopts
    BY <1>2 DEF Labelled, Sticky
  <2>3. DOMAIN names' = DOMAIN names \cup {HostOf(c)} /\ ServerNames'
    BY <1>1, <2>1, NamesPut DEF MapsInv
  <2> QED
    BY <1>1, <1>2, <2>2, <2>3 DEF MapsInv
<1>3. CASE backend # "nginx"
  <2>1. names' = names
    BY <1>3 DEF Labelled
  <2>2. cert' = cert
    BY <1>3 DEF Labelled, Sticky
  <2>3. backend = "haproxy"
    BY <1>3, ContainerAssumption DEF LoopInv
  <2>4. ServerNames'
    BY <2>1, NameFrame DEF MapsInv, ServerNames
  <2> QED
    BY <1>1, <1>3, <2>1, <2>2, <2>3, <2>4 DEF MapsInv
<1> QED
  BY <1>2, <1>3

\* The maps stay as they should be.
LEMMA MapsStep ==
  ASSUME LoopInv, UpInv, MapsInv, [Next]_vars
  PROVE  MapsInv'
<1> DEFINE c == list[i]
<1>1. CASE UNCHANGED vars
  BY <1>1, MapsFrame DEF vars, maps
<1>2. CASE (Ended \/ Turned) /\ UNCHANGED maps
  BY <1>2, MapsFrame DEF Ended, Turned, maps
<1>3. CASE Turned /\ SkipBadInterval(c)
  BY <1>3, MapsFrame DEF SkipBadInterval, Turned
<1>4. <<>> \in Seq(Name)
  OBVIOUS
<1>5. CASE Turned /\ SkipUnreachable(c)
  BY <1>4, <1>5, MapsLabelled DEF SkipUnreachable
<1>6. CASE Turned /\ Panics(c)
  BY <1>4, <1>6, MapsLabelled DEF Panics
<1>7. CASE Turned /\ AddUpstream(c)
  <2>1. c \in Containers
    BY <1>7 DEF LoopInv, Turned
  <2>2. AliasDomains(c) \in Seq(Name)
    <3>1. AliasDomains(c) \in Seq(Seq(STRING))
      BY <2>1, ContainerAssumption DEF AliasDomains
    <3> QED
      BY <3>1 DEF Name
  <2>3. Labelled(c, AliasDomains(c)) /\ (backend = "haproxy" => ws' = ws)
    BY <1>7 DEF AddUpstream
  <2>4. DOMAIN up' = DOMAIN up \cup Members(UpstreamHosts(c))
    BY <1>7, AddedUpstream
  <2>5. backend = "nginx" => Members(UpstreamHosts(c)) = {HostOf(c)}
    BY DEF UpstreamHosts, Members
  <2>6. backend = "nginx" => DOMAIN up' \subseteq DOMAIN up \cup {HostOf(c)}
    BY <2>4, <2>5
  <2> QED
    BY <1>7, <2>2, <2>3, <2>6, MapsLabelled
<1> QED
  BY <1>1, <1>2, <1>3, <1>5, <1>6, <1>7, Steps

\* At first the maps are empty.
LEMMA MapsInit ==
  ASSUME Init
  PROVE  MapsInv
<1>1. /\ DOMAIN up = {} /\ DOMAIN names = {} /\ DOMAIN check = {}
      /\ DOMAIN bopts = {} /\ DOMAIN cert = {} /\ DOMAIN ws = {}
  BY DEF Init
<1> QED
  BY <1>1 DEF MapsInv, ServerNames

\* For any list of containers the turn stays within the list, every host has
\* upstreams, each of which has had its turn, every host of nginx is known by
\* its own name first, and each backend fills its own maps only.
THEOREM ProxyConfigTypeOK == Spec => []TypeOK
<1>1. Init => LoopInv /\ UpInv /\ MapsInv
  BY LoopInit, UpInit, MapsInit
<1>2. LoopInv /\ UpInv /\ MapsInv /\ [Next]_vars => (LoopInv /\ UpInv /\ MapsInv)'
  BY LoopStep, UpStep, MapsStep
<1>3. ASSUME LoopInv, UpInv, MapsInv
      PROVE  TypeOK
  <2>1. i \in Nat
    BY <1>3 DEF LoopInv
  <2>2. ASSUME NEW k \in DOMAIN up, NEW u \in Members(up[k])
        PROVE  u.id < i
    <3>1. u.id \in 1 .. (i - 1)
      BY <1>3 DEF UpInv
    <3> QED
      BY <2>1, <3>1
  <2>3. \A k \in DOMAIN up : up[k] # <<>>
    BY <1>3 DEF UpInv
  <2> QED
    BY <1>3, <2>2, <2>3 DEF LoopInv, MapsInv, ServerNames, TypeOK
<1> QED
  BY <1>1, <1>2, <1>3, PTL DEF Spec

-----------------------------------------------------------------------------
(* The options                                                             *)

\* The containers so far whose host is k, and those not skipped for their
\* check interval.
Naming(k) ==
  {j \in Handled : ~list[j].gone /\ Named(list[j]) /\ HostOf(list[j]) = k}

ValidNaming(k) == {j \in Naming(k) : ~BadInterval(list[j])}

From(k) ==
  IF ValidNaming(k) = {} THEN NoOptions ELSE Options(list[LastOf(ValidNaming(k))])

\* The options that k is due, as OptionsOfLastListed has them.
Due(k) ==
  IF Naming(k) = {} THEN NoOptions
  ELSE [From(k) EXCEPT !.rewrite = ContextRootRewrite(list[LastOf(Naming(k))])]

\* Stated for every name, so that a host may get its upstreams later.
OptionsInv == \A k : Get(opts, k, NoOptions) = Due(k)

\* The greatest element is the last one.
LEMMA LastOfGreatest ==
  ASSUME NEW S, S \subseteq Nat, NEW n \in S, \A m \in S : m <= n
  PROVE  LastOf(S) = n
<1>1. \A j \in S : (\A m \in S : m <= j) => j = n
  OBVIOUS
<1> QED
  BY <1>1 DEF LastOf

\* Writing a field twice.
LEMMA RewriteTwice ==
  ASSUME NEW r, NEW x, NEW y
  PROVE  [[r EXCEPT !.rewrite = x] EXCEPT !.rewrite = y] = [r EXCEPT !.rewrite = y]
OBVIOUS

\* Options of a container already have its own rewrite flag.
LEMMA OptionsRewrite ==
  ASSUME NEW c
  PROVE  [Options(c) EXCEPT !.rewrite = ContextRootRewrite(c)] = Options(c)
<1>1. CASE backend = "nginx"
  BY <1>1 DEF Options
<1>2. CASE backend # "nginx"
  BY <1>2 DEF Options
<1> QED
  BY <1>1, <1>2

\* What the labels of a listed container say does not change.
LEMMA LabelsFrame ==
  ASSUME list' = list, backend' = backend
  PROVE  /\ NoOptions' = NoOptions
         /\ \A j : /\ Options(list[j])' = Options(list[j])
                   /\ ContextRootRewrite(list[j])' = ContextRootRewrite(list[j])
                   /\ BadInterval(list[j])' <=> BadInterval(list[j])
                   /\ Named(list[j])' <=> Named(list[j])
                   /\ HostOf(list[j])' = HostOf(list[j])
<1>1. NoOptions' = NoOptions
  BY DEF NoOptions
<1>2. \A j : Options(list[j])' = Options(list[j])
  BY DEF Options
<1>3. \A j : ContextRootRewrite(list[j])' = ContextRootRewrite(list[j])
  BY DEF ContextRootRewrite
<1>4. \A j : BadInterval(list[j])' <=> BadInterval(list[j])
  BY DEF BadInterval
<1>5. \A j : Named(list[j])' <=> Named(list[j])
  BY DEF Named
<1>6. \A j : HostOf(list[j])' = HostOf(list[j])
  BY DEF HostOf
<1> QED
  BY <1>1, <1>2, <1>3, <1>4, <1>5, <1>6

\* What a host is due changes with the containers that name it only.
LEMMA DueFrame ==
  ASSUME list' = list, backend' = backend, NEW k,
         Naming(k)' = Naming(k), ValidNaming(k)' = ValidNaming(k)
  PROVE  Due(k)' = Due(k)
<1>1. LastOf(Naming(k))' = LastOf(Naming(k))
  BY DEF LastOf
<1>2. LastOf(ValidNaming(k))' = LastOf(ValidNaming(k))
  BY DEF LastOf
<1>3. From(k)' = From(k)
  BY <1>2, LabelsFrame DEF From
<1>4. ContextRootRewrite(list[LastOf(Naming(k))])' = ContextRootRewrite(list[LastOf(Naming(k))])
  BY <1>1 DEF ContextRootRewrite, Has
<1> QED
  BY <1>3, <1>4, LabelsFrame DEF Due

\* A container whose host is not k names k no more than before.
LEMMA NamingOther ==
  ASSUME LoopInv, list' = list, backend' = backend, NEW k,
         \/ Handled' = Handled
         \/ /\ Handled' = Handled \cup {i}
            /\ list[i].gone \/ ~Named(list[i]) \/ HostOf(list[i]) # k
  PROVE  Due(k)' = Due(k)
<1>1. Naming(k)' = {j \in Handled' : /\ ~list[j].gone /\ Named(list[j])
                                     /\ HostOf(list[j]) = k}
  BY LabelsFrame DEF Naming
<1>2. Naming(k)' = Naming(k)
  BY <1>1 DEF Naming
<1>3. ValidNaming(k)' = {j \in Naming(k)' : ~BadInterval(list[j])}
  BY LabelsFrame DEF ValidNaming
<1>4. ValidNaming(k)' = ValidNaming(k)
  BY <1>2, <1>3 DEF ValidNaming
<1> QED
  BY <1>2, <1>4, DueFrame

\* A container whose host is k becomes the last one to name it.
LEMMA NamingThis ==
  ASSUME LoopInv, Turned, ~list[i].gone, Named(list[i]),
         NEW k, k = HostOf(list[i])
  PROVE  /\ Naming(k)' = Naming(k) \cup {i}
         /\ LastOf(Naming(k)') = i
         /\ BadInterval(list[i]) => ValidNaming(k)' = ValidNaming(k)
         /\ ~BadInterval(list[i]) => /\ ValidNaming(k)' = ValidNaming(k) \cup {i}
                                     /\ LastOf(ValidNaming(k)') = i
<1>1. i \in Nat /\ list' = list /\ backend' = backend
  BY DEF LoopInv, Turned
<1>2. Handled' = Handled \cup {i} /\ \A j \in Handled : j < i
  BY HandledStep
<1>3. Handled \subseteq Nat
  BY <1>1 DEF Handled
<1> DEFINE UpTo(S) == \A m \in S : m \in Nat /\ m <= i
<1>0. UpTo(Handled)
  BY <1>1, <1>2, <1>3
<1>4. Naming(k)' = {j \in Handled' : /\ ~list[j].gone /\ Named(list[j])
                                     /\ HostOf(list[j]) = k}
  BY <1>1, LabelsFrame DEF Naming
<1>5. Naming(k)' = Naming(k) \cup {i} /\ Naming(k) \subseteq Handled
  BY <1>2, <1>4 DEF Naming
<1>6. LastOf(Naming(k)') = i
  <2> DEFINE S == Naming(k)'
  <2>1. S \subseteq Nat /\ i \in S /\ \A m \in S : m <= i
    <3>1. S = Naming(k) \cup {i} /\ Naming(k) \subseteq Handled
      BY <1>5
    <3> HIDE DEF S
    <3>2. \A m \in S : m \in Handled \/ m = i
      BY <3>1
    <3> QED
      BY <1>0, <1>1, <3>1, <3>2
  <2> HIDE DEF S
  <2>2. LastOf(S) = i
    BY <2>1, LastOfGreatest
  <2> QED
    BY <2>2 DEF S
<1>7. ValidNaming(k)' = {j \in Naming(k)' : ~BadInterval(list[j])}
  BY <1>1, LabelsFrame DEF ValidNaming
<1>8. CASE BadInterval(list[i])
  BY <1>5, <1>6, <1>7, <1>8 DEF ValidNaming
<1>9. CASE ~BadInterval(list[i])
  <2> DEFINE S == ValidNaming(k)'
  <2>1. S = ValidNaming(k) \cup {i}
    BY <1>5, <1>7, <1>9 DEF ValidNaming
  <2>2. S \subseteq Nat /\ i \in S /\ \A m \in S : m <= i
    <3>1. ValidNaming(k) \subseteq Handled
      BY <1>5 DEF ValidNaming
    <3> HIDE DEF S
    <3>2. \A m \in S : m \in Handled \/ m = i
      BY <2>1, <3>1
    <3> QED
      BY <1>0, <1>1, <2>1, <3>2
  <2> HIDE DEF S
  <2>3. LastOf(S) = i
    BY <2>2, LastOfGreatest
  <2> QED
    BY <1>5, <1>6, <1>9, <2>1, <2>3 DEF S
<1> QED
  BY <1>8, <1>9

\* Due, with the last containers that name the host.
LEMMA DueThis ==
  ASSUME LoopInv, Turned, ~list[i].gone, Named(list[i]),
         NEW k, k = HostOf(list[i])
  PROVE  /\ ~BadInterval(list[i]) => Due(k)' = Options(list[i])
         /\ BadInterval(list[i]) =>
              Due(k)' = [Due(k) EXCEPT !.rewrite = ContextRootRewrite(list[i])]
<1>1. list' = list /\ backend' = backend
  BY DEF Turned
<1>2. LastOf(Naming(k))' = LastOf(Naming(k)') /\ Naming(k)' # {} /\ LastOf(Naming(k)') = i
  <2>1. LastOf(Naming(k))' = LastOf(Naming(k)')
    BY DEF LastOf
  <2> QED
    BY <2>1, NamingThis
<1>3. Due(k)' = [From(k)' EXCEPT !.rewrite = ContextRootRewrite(list[i])]
  <2>1. ContextRootRewrite(list[LastOf(Naming(k))])' = ContextRootRewrite(list[i])
    BY <1>1, <1>2 DEF ContextRootRewrite, Has
  <2> QED
    BY <1>2, <2>1 DEF Due
<1>4. CASE ~BadInterval(list[i])
  <2>1. LastOf(ValidNaming(k))' = i /\ ValidNaming(k)' # {}
    <3>1. LastOf(ValidNaming(k))' = LastOf(ValidNaming(k)')
      BY DEF LastOf
    <3> QED
      BY <3>1, <1>4, NamingThis
  <2>2. From(k)' = Options(list[LastOf(ValidNaming(k))])'
    BY <2>1 DEF From
  <2>3. Options(list[LastOf(ValidNaming(k))])' = Options(list[i])
    BY <1>1, <2>1 DEF Options
  <2> QED
    BY <1>3, <1>4, <2>2, <2>3, OptionsRewrite
<1>5. CASE BadInterval(list[i])
  <2>1. ValidNaming(k)' = ValidNaming(k)
    BY <1>5, NamingThis
  <2>2. From(k)' = From(k)
    <3>1. LastOf(ValidNaming(k))' = LastOf(ValidNaming(k))
      BY <2>1 DEF LastOf
    <3> QED
      BY <1>1, <2>1, <3>1, LabelsFrame DEF From
  <2>3. CASE Naming(k) = {}
    <3>1. From(k) = NoOptions /\ Due(k) = NoOptions
      BY <2>3 DEF From, Due, ValidNaming
    <3> QED
      BY <1>3, <1>5, <2>2, <3>1
  <2>4. CASE Naming(k) # {}
    <3>1. Due(k) = [From(k) EXCEPT !.rewrite = ContextRootRewrite(list[LastOf(Naming(k))])]
      BY <2>4 DEF Due
    <3> DEFINE r == From(k)
               x == ContextRootRewrite(list[LastOf(Naming(k))])
               y == ContextRootRewrite(list[i])
    <3>2. Due(k)' = [r EXCEPT !.rewrite = y]
      BY <1>3, <2>2
    <3>3. Due(k) = [r EXCEPT !.rewrite = x]
      BY <3>1
    <3> HIDE DEF r, x, y
    <3>4. [[r EXCEPT !.rewrite = x] EXCEPT !.rewrite = y] = [r EXCEPT !.rewrite = y]
      BY RewriteTwice
    <3>5. Due(k)' = [Due(k) EXCEPT !.rewrite = y]
      BY <3>2, <3>3, <3>4
    <3> QED
      BY <1>5, <3>5 DEF y
  <2> QED
    BY <2>3, <2>4
<1> QED
  BY <1>4, <1>5

\* A turn or an end after which no host has other options.
LEMMA OptionsFrame ==
  ASSUME LoopInv, OptionsInv, list' = list, backend' = backend, opts' = opts,
         \/ Handled' = Handled
         \/ Handled' = Handled \cup {i} /\ (list[i].gone \/ ~Named(list[i]))
  PROVE  OptionsInv'
<1> SUFFICES ASSUME NEW k
             PROVE  Get(opts, k, NoOptions)' = Due(k)'
  BY DEF OptionsInv
<1>1. Due(k)' = Due(k)
  BY NamingOther
<1>2. Get(opts, k, NoOptions)' = Get(opts, k, NoOptions)
  BY LabelsFrame DEF Get
<1> QED
  BY <1>1, <1>2 DEF OptionsInv

\* A turn that gives a host new options.
LEMMA OptionsTurn ==
  ASSUME LoopInv, OptionsInv, Turned, ~list[i].gone, Named(list[i]), NEW v,
         opts' = Put(opts, HostOf(list[i]), v),
         ~BadInterval(list[i]) => v = Options(list[i]),
         BadInterval(list[i]) =>
           v = [Get(opts, HostOf(list[i]), NoOptions)
                  EXCEPT !.rewrite = ContextRootRewrite(list[i])]
  PROVE  OptionsInv'
<1> SUFFICES ASSUME NEW k
             PROVE  Get(opts, k, NoOptions)' = Due(k)'
  BY DEF OptionsInv
<1>1. list' = list /\ backend' = backend /\ NoOptions' = NoOptions
  BY LabelsFrame DEF Turned
<1>2. Get(opts, k, NoOptions) = Due(k)
  BY DEF OptionsInv
<1>3. CASE k = HostOf(list[i])
  <2>1. Get(opts, k, NoOptions)' = v
    BY <1>3 DEF Get, Put
  <2>2. CASE ~BadInterval(list[i])
    BY <1>3, <2>1, <2>2, DueThis
  <2>3. CASE BadInterval(list[i])
    <3>1. Due(k)' = [Due(k) EXCEPT !.rewrite = ContextRootRewrite(list[i])]
      BY <1>3, <2>3, DueThis
    <3>2. v = [Due(k) EXCEPT !.rewrite = ContextRootRewrite(list[i])]
      BY <1>2, <1>3, <2>3
    <3> QED
      BY <2>1, <3>1, <3>2
  <2> QED
    BY <2>2, <2>3
<1>4. CASE k # HostOf(list[i])
  <2>1. Get(opts, k, NoOptions)' = Get(opts, k, NoOptions)
    BY <1>1, <1>4 DEF Get, Put
  <2>2. Due(k)' = Due(k)
    BY <1>1, <1>4, HandledStep, NamingOther
  <2> QED
    BY <1>2, <2>1, <2>2
<1> QED
  BY <1>3, <1>4

\* Every host keeps the options it is due.
LEMMA OptionsStep ==
  ASSUME LoopInv, OptionsInv, [Next]_vars
  PROVE  OptionsInv'
<1> DEFINE c == list[i]
<1>1. CASE UNCHANGED vars
  <2>1. Handled' = Handled
    BY <1>1 DEF vars, Handled
  <2> QED
    BY <1>1, <2>1, OptionsFrame DEF vars, maps
<1>2. CASE Ended /\ UNCHANGED maps
  BY <1>2, OptionsFrame, HandledStep DEF Ended, maps
<1>3. CASE Turned /\ (c.gone \/ ~Named(c)) /\ UNCHANGED maps
  BY <1>3, OptionsFrame, HandledStep DEF Turned, maps
<1>4. CASE Turned /\ SkipBadInterval(c)
  <2>1. /\ ~c.gone /\ Named(c) /\ BadInterval(c)
        /\ opts' = Put(opts, HostOf(c), [Get(opts, HostOf(c), NoOptions) EXCEPT
                                           !.rewrite = ContextRootRewrite(c)])
    BY <1>4 DEF SkipBadInterval
  <2> QED
    BY <1>4, <2>1, OptionsTurn
<1>5. ASSUME Turned, Valid(c), NEW aliases, Labelled(c, aliases)
      PROVE  OptionsInv'
  <2>1. /\ ~c.gone /\ Named(c) /\ ~BadInterval(c)
        /\ opts' = Put(opts, HostOf(c), Options(c))
    BY <1>5 DEF Valid, Labelled
  <2> QED
    BY <1>5, <2>1, OptionsTurn
<1>6. CASE Turned /\ SkipUnreachable(c)
  BY <1>5, <1>6 DEF SkipUnreachable
<1>7. CASE Turned /\ Panics(c)
  BY <1>5, <1>7 DEF Panics
<1>8. CASE Turned /\ AddUpstream(c)
  BY <1>5, <1>8 DEF AddUpstream
<1> QED
  BY <1>1, <1>2, <1>3, <1>4, <1>6, <1>7, <1>8, Steps

\* At first nothing has been named.
LEMMA OptionsInit ==
  ASSUME Init
  PROVE  OptionsInv
<1>1. DOMAIN opts = {} /\ i = 1 /\ pc = "loop"
  BY DEF Init
<1>2. Handled = {}
  BY <1>1 DEF Handled
<1> QED
  BY <1>1, <1>2 DEF OptionsInv, Due, Naming, Get

\* For any list of containers the options of a host are those of the last
\* listed container that names it, reachable or not, except that haproxy
\* takes the rewrite flag of a container which it then skips.
THEOREM ProxyConfigOptionsOfLastListed == Spec => []OptionsOfLastListed
<1>1. Init => LoopInv /\ OptionsInv
  BY LoopInit, OptionsInit
<1>2. LoopInv /\ OptionsInv /\ [Next]_vars => (LoopInv /\ OptionsInv)'
  BY LoopStep, OptionsStep
<1>3. OptionsInv => OptionsOfLastListed
  BY DEF OptionsInv, OptionsOfLastListed, Due, From, Naming, ValidNaming
<1> QED
  BY <1>1, <1>2, <1>3, PTL DEF Spec
=============================================================================
