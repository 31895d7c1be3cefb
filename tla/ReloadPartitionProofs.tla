----------------------- MODULE ReloadPartitionProofs ------------------------
(***************************************************************************)
(* Proofs about ReloadPartition, for any number of instances and proxies.  *)
(***************************************************************************)
EXTENDS ReloadPartition, TLAPS

(***************************************************************************)
(* The inductive invariant: after i slices the unassigned prefix has       *)
(* numProxies - i * Sub proxies, and the nodes served hold their closed    *)
(* form shares.                                                            *)
(***************************************************************************)
LoopInv ==
  pc = "loop" =>
    /\ numNodes > 1
    /\ i <= numNodes - 1
    /\ rest = numProxies - i * Sub
    /\ \A k \in 1 .. i : work[k] = SliceOf(k, numNodes, numProxies)

DoneInv ==
  pc = "done" =>
    /\ numNodes = 1 => work[1] = All
    /\ ComputesShare

IInv ==
  /\ TypeOK
  /\ pc = "start" => i = 0 /\ rest = numProxies
  /\ LoopInv
  /\ DoneInv

-----------------------------------------------------------------------------
(* Arithmetic                                                              *)

\* What integer division gives the slices of proxyContainersToRestart.
LEMMA DivBounds ==
  ASSUME NEW n \in Nat, n > 0, NEW p \in Nat
  PROVE  p \div n \in Nat /\ n * (p \div n) <= p
  OBVIOUS

\* k slices of size s fit when n do.
LEMMA MultMono ==
  ASSUME NEW s \in Nat, NEW n \in Nat, NEW k \in Nat, k <= n
  PROVE  k * s \in Nat /\ k * s <= n * s
<1>1. PICK d \in Nat : n = k + d
  <2>1. n - k \in Nat /\ n = k + (n - k)
    OBVIOUS
  <2> QED BY <2>1
<1>2. n * s = k * s + d * s
  BY <1>1
<1>3. d * s >= 0 /\ d * s \in Int
  BY <1>1
<1>4. k * s \in Nat
  OBVIOUS
<1> QED BY <1>2, <1>3, <1>4

\* k slices of size p \div n never exceed the list they are cut from.
LEMMA SlicesFit ==
  ASSUME NEW n \in Nat, n > 0, NEW p \in Nat, NEW k \in Nat, k <= n
  PROVE  k * (p \div n) \in Nat /\ k * (p \div n) <= p
<1> DEFINE s == p \div n
<1>1. s \in Nat /\ n * s <= p
  BY DivBounds
<1>2. k * s \in Nat /\ k * s <= n * s
  BY <1>1, MultMono
<1>3. n * s \in Nat
  BY <1>1
<1> HIDE DEF s
<1>4. k * s <= p
  BY <1>1, <1>2, <1>3
<1> QED BY <1>2, <1>4 DEF s

\* Where the k-th slice starts and ends.
LEMMA SliceBounds ==
  ASSUME NEW n \in Nat, n > 1, NEW p \in Nat, NEW k \in 1 .. n
  PROVE  /\ (k - 1) * (p \div n) \in 0 .. p
         /\ k * (p \div n) \in 0 .. p
         /\ k * (p \div n) = (k - 1) * (p \div n) + (p \div n)
         /\ SliceOf(k, n, p) \subseteq 1 .. p
<1> DEFINE s == p \div n
<1>1. s \in Nat
  BY DivBounds
<1>2. k * s \in Nat /\ k * s <= p
  BY SlicesFit
<1>3. (k - 1) * s \in Nat /\ (k - 1) * s <= p
  BY SlicesFit
<1>4. k * s = (k - 1) * s + s
  <2> HIDE DEF s
  <2>1. PICK j \in Nat : k = j + 1
    <3>1. k - 1 \in Nat /\ k = (k - 1) + 1
      OBVIOUS
    <3> QED BY <3>1
  <2> QED BY <1>1, <2>1
<1>5. (n - 1) * s \in Nat /\ (n - 1) * s <= p
  BY SlicesFit
<1>6. SliceOf(k, n, p) \subseteq 1 .. p
  <2>1. CASE k < n
    <3>1. SliceOf(k, n, p) = (p - k * s + 1) .. (p - (k - 1) * s)
      BY <2>1 DEF SliceOf
    <3> HIDE DEF s
    <3> QED BY <3>1, <1>2, <1>3
  <2>2. CASE ~(k < n)
    <3>1. SliceOf(k, n, p) = 1 .. (p - (n - 1) * s)
      BY <2>2 DEF SliceOf
    <3> HIDE DEF s
    <3> QED BY <3>1, <1>5
  <2> QED BY <2>1, <2>2
<1> QED BY <1>2, <1>3, <1>4, <1>6

\* Slices of different nodes are disjoint: a node's slice ends before the
\* slice of an earlier node begins.
LEMMA SlicesDisjoint ==
  ASSUME NEW n \in Nat, n > 1, NEW p \in Nat,
         NEW k \in 1 .. n, NEW m \in 1 .. n, k < m,
         NEW x \in SliceOf(k, n, p), NEW y \in SliceOf(m, n, p)
  PROVE  y < x
<1> DEFINE s == p \div n
<1>1. s \in Nat
  BY DivBounds
<1>2. k * s \in Nat /\ (m - 1) * s \in Nat /\ k * s <= (m - 1) * s
  BY <1>1, MultMono
<1>3. x > p - k * s /\ x \in Int
  <2>1. SliceOf(k, n, p) = (p - k * s + 1) .. (p - (k - 1) * s)
    BY DEF SliceOf
  <2>2. (k - 1) * s \in Nat
    BY <1>1, MultMono
  <2> HIDE DEF s
  <2> QED BY <2>1, <2>2, <1>2
<1>4. y <= p - (m - 1) * s /\ y \in Int
  <2>1. CASE m < n
    <3>1. SliceOf(m, n, p) = (p - m * s + 1) .. (p - (m - 1) * s)
      BY <2>1 DEF SliceOf
    <3>2. m * s \in Nat
      BY <1>1, MultMono
    <3> HIDE DEF s
    <3> QED BY <3>1, <3>2, <1>2
  <2>2. CASE m = n
    <3>1. SliceOf(m, n, p) = 1 .. (p - (m - 1) * s)
      BY <2>2 DEF SliceOf
    <3> HIDE DEF s
    <3> QED BY <3>1, <1>2
  <2> QED BY <2>1, <2>2
<1> HIDE DEF s
<1> QED BY <1>2, <1>3, <1>4

\* Every position of the list is in some slice: the one after the last slice
\* boundary above it, or the remainder.
LEMMA SlicesCover ==
  ASSUME NEW n \in Nat, n > 1, NEW p \in Nat, NEW x \in 1 .. p
  PROVE  \E k \in 1 .. n : x \in SliceOf(k, n, p)
<1> DEFINE s == p \div n
<1>1. s \in Nat
  BY DivBounds
<1>2. (n - 1) * s \in Nat /\ (n - 1) * s <= p
  BY SlicesFit
<1>3. CASE x <= p - (n - 1) * s
  <2>1. SliceOf(n, n, p) = 1 .. (p - (n - 1) * s)
    BY DEF SliceOf
  <2> HIDE DEF s
  <2>2. x \in 1 .. (p - (n - 1) * s)
    BY <1>2, <1>3
  <2>3. n \in 1 .. n
    OBVIOUS
  <2> QED BY <2>1, <2>2, <2>3
<1>4. CASE x > p - (n - 1) * s
  <2> DEFINE y == p - x
             q == y \div s
  <2>1. s > 0
    <3> SUFFICES ASSUME s = 0 PROVE FALSE
      BY <1>1
    <3>1. (n - 1) * s = 0
      BY <1>1
    <3> HIDE DEF s
    <3> QED BY <3>1, <1>4
  <2>2. y \in Nat /\ y < (n - 1) * s
    <3> HIDE DEF s
    <3> QED BY <1>2, <1>4
  <2> HIDE DEF s, y
  <2>3. q \in Nat /\ q * s <= y /\ y < (q + 1) * s
    BY <2>1, <2>2, <1>1
  <2> HIDE DEF q
  <2>4. q < n - 1
    <3> SUFFICES ASSUME q >= n - 1 PROVE FALSE
      BY <2>3
    <3>1. (n - 1) * s <= q * s /\ q * s \in Nat
      BY <1>1, <2>3, MultMono
    <3> QED BY <3>1, <2>2, <2>3, <1>2
  <2>5. q + 1 \in 1 .. n /\ q + 1 < n
    BY <2>3, <2>4
  <2>6. SliceOf(q + 1, n, p) = (p - (q + 1) * s + 1) .. (p - q * s)
    <3>1. (q + 1) - 1 = q
      BY <2>3
    <3> QED BY <3>1, <2>5 DEF SliceOf, s
  <2>7. (q + 1) * s \in Nat /\ q * s \in Nat
    BY <1>1, <2>3, MultMono
  <2>8. x \in (p - (q + 1) * s + 1) .. (p - q * s)
    BY <2>7, <2>3, <2>2 DEF y
  <2> QED BY <2>5, <2>6, <2>8
<1> QED
  <2> HIDE DEF s
  <2> QED BY <1>2, <1>3, <1>4

-----------------------------------------------------------------------------
(* The invariant is inductive                                              *)

LEMMA InitIInv == Init => IInv
<1> SUFFICES ASSUME Init PROVE IInv
  OBVIOUS
<1>1. TypeOK
  BY BoundsAssumption DEF Init, TypeOK, All
<1> QED BY <1>1 DEF Init, IInv, LoopInv, DoneInv, ComputesShare

LEMMA NextIInv == IInv /\ [Next]_vars => IInv'
<1> SUFFICES ASSUME IInv, [Next]_vars PROVE IInv'
  OBVIOUS
<1> USE BoundsAssumption
<1>0. /\ numNodes \in Nat /\ numProxies \in Nat /\ i \in Nat /\ rest \in Nat
      /\ work \in [1 .. numNodes -> SUBSET (1 .. numProxies)]
  BY DEF IInv, TypeOK, All
<1>1. CASE ReturnAll
  <2>1. TypeOK'
    BY <1>0, <1>1 DEF ReturnAll, IInv, TypeOK, All
  <2>2. DoneInv'
    BY <1>0, <1>1 DEF ReturnAll, DoneInv, ComputesShare, All
  <2> QED BY <2>1, <2>2, <1>1 DEF ReturnAll, IInv, LoopInv
<1>2. CASE EnterLoop
  <2>1. TypeOK' /\ pc' = "loop"
    BY <1>2 DEF EnterLoop, IInv, TypeOK, All
  <2>2. LoopInv'
    <3>1. i = 0 /\ rest = numProxies
      BY <1>2 DEF EnterLoop, IInv
    <3>2. numNodes > 1 /\ Sub' = Sub /\ Sub \in Nat
      BY <1>0, <1>2, DivBounds DEF EnterLoop, Sub
    <3>3. rest = numProxies - i * Sub
      BY <3>1, <3>2, <1>0
    <3>4. 1 .. i = {}
      BY <3>1
    <3> QED BY <1>0, <1>2, <3>1, <3>2, <3>3, <3>4 DEF EnterLoop, LoopInv
  <2> QED BY <2>1, <2>2 DEF IInv, DoneInv, ComputesShare
<1>3. CASE Slice
  <2>1. /\ numNodes > 1 /\ i + 1 <= numNodes - 1 /\ i + 1 \in 1 .. numNodes
        /\ rest = numProxies - i * Sub
        /\ \A k \in 1 .. i : work[k] = SliceOf(k, numNodes, numProxies)
    BY <1>0, <1>3 DEF Slice, IInv, LoopInv
  <2>2. /\ Sub \in Nat /\ i * Sub \in Nat /\ (i + 1) * Sub \in Nat
        /\ (i + 1) * Sub <= numProxies /\ (i + 1) * Sub = i * Sub + Sub
    <3>1. Sub \in Nat
      BY <1>0, <2>1, DivBounds DEF Sub
    <3>2. i * Sub \in Nat
      BY <1>0, <3>1, MultMono
    <3>3. (i + 1) * Sub \in Nat /\ (i + 1) * Sub <= numProxies
      BY <1>0, <2>1, SlicesFit DEF Sub
    <3>4. (i + 1) * Sub = i * Sub + Sub
      BY <1>0, <3>1
    <3> QED BY <3>1, <3>2, <3>3, <3>4
  <2>3. /\ numNodes' = numNodes /\ numProxies' = numProxies /\ pc' = "loop"
        /\ i' = i + 1 /\ rest' = rest - Sub /\ Sub' = Sub
        /\ work' = [work EXCEPT ![i + 1] = (rest - Sub + 1) .. rest]
    BY <1>3 DEF Slice, Sub
  <2>4. SliceOf(i + 1, numNodes, numProxies) = (rest - Sub + 1) .. rest
    <3>1. i + 1 < numNodes /\ (i + 1) - 1 = i
      BY <1>0, <2>1
    <3>2. SliceOf(i + 1, numNodes, numProxies)
            = (numProxies - (i + 1) * Sub + 1) .. (numProxies - i * Sub)
      BY <3>1 DEF SliceOf, Sub
    <3>3. rest - Sub + 1 = numProxies - (i + 1) * Sub + 1
      BY <1>0, <2>1, <2>2
    <3> QED BY <2>1, <3>2, <3>3
  <2>5. rest' = numProxies - i' * Sub /\ rest' \in 0 .. numProxies
    BY <1>0, <2>1, <2>2, <2>3
  <2>6. (rest - Sub + 1) .. rest \subseteq 1 .. numProxies
    BY <1>0, <2>2, <2>3, <2>5
  <2>7. work' \in [1 .. numNodes -> SUBSET (1 .. numProxies)]
    BY <1>0, <2>1, <2>3, <2>6
  <2>8. \A k \in 1 .. i' : work'[k] = SliceOf(k, numNodes, numProxies)
    <3> SUFFICES ASSUME NEW k \in 1 .. (i + 1)
                 PROVE  work'[k] = SliceOf(k, numNodes, numProxies)
      BY <2>3
    <3>1. CASE k = i + 1
      BY <1>0, <2>1, <2>3, <2>4, <3>1
    <3>2. CASE k # i + 1
      <4>1. k \in 1 .. i /\ k \in 1 .. numNodes
        BY <1>0, <2>1, <3>2
      <4> QED BY <1>0, <2>1, <2>3, <3>2, <4>1
    <3> QED BY <3>1, <3>2
  <2>9. TypeOK'
    BY <1>0, <2>1, <2>3, <2>5, <2>7 DEF IInv, TypeOK, All
  <2>10. LoopInv'
    BY <1>0, <2>1, <2>3, <2>5, <2>8 DEF LoopInv
  <2> QED BY <2>3, <2>9, <2>10 DEF IInv, DoneInv, ComputesShare
<1>4. CASE Remainder
  <2>1. /\ numNodes > 1 /\ i = numNodes - 1
        /\ rest = numProxies - i * Sub
        /\ \A k \in 1 .. i : work[k] = SliceOf(k, numNodes, numProxies)
    BY <1>0, <1>4 DEF Remainder, IInv, LoopInv
  <2>2. /\ numNodes' = numNodes /\ numProxies' = numProxies /\ pc' = "done"
        /\ work' = [work EXCEPT ![numNodes] = 1 .. rest]
        /\ i' = i /\ rest' = rest
    BY <1>4 DEF Remainder
  <2>3. 1 .. rest \subseteq 1 .. numProxies
    BY <1>0 DEF IInv, TypeOK
  <2>4. TypeOK'
    <3>1. work' \in [1 .. numNodes -> SUBSET (1 .. numProxies)]
      BY <1>0, <2>2, <2>3
    <3> QED BY <1>0, <2>2, <3>1 DEF IInv, TypeOK, All
  <2>5. \A k \in 1 .. numNodes :
          work'[k] = SliceOf(k, numNodes, numProxies)
    <3> SUFFICES ASSUME NEW k \in 1 .. numNodes
                 PROVE  work'[k] = SliceOf(k, numNodes, numProxies)
      OBVIOUS
    <3>1. CASE k = numNodes
      <4>1. SliceOf(k, numNodes, numProxies)
              = 1 .. (numProxies - (numNodes - 1) * Sub)
        BY <3>1, <1>0 DEF SliceOf, Sub
      <4> QED BY <1>0, <2>1, <2>2, <3>1, <4>1
    <3>2. CASE k # numNodes
      <4>1. k \in 1 .. i
        BY <1>0, <2>1, <3>2
      <4> QED BY <1>0, <2>1, <2>2, <3>2, <4>1
    <3> QED BY <3>1, <3>2
  <2>6. DoneInv'
    BY <2>1, <2>2, <2>5 DEF DoneInv, ComputesShare
  <2> QED BY <2>2, <2>4, <2>6 DEF IInv, LoopInv
<1>5. CASE UNCHANGED vars
  BY <1>5 DEF vars, IInv, TypeOK, LoopInv, DoneInv, ComputesShare, All, Sub
<1> QED BY <1>1, <1>2, <1>3, <1>4, <1>5 DEF Next

\* The invariant gives the partition.
LEMMA IInvPartition == IInv => EachProxyExactlyOnce
<1> SUFFICES ASSUME IInv, pc = "done", numNodes > 0, NEW x \in All
             PROVE  \E k \in 1 .. numNodes : x \in work[k]
                      /\ \A m \in 1 .. numNodes : x \in work[m] => m = k
  BY DEF EachProxyExactlyOnce
<1>0. numNodes \in Nat /\ numProxies \in Nat
  BY BoundsAssumption DEF IInv, TypeOK
<1>1. CASE numNodes = 1
  <2>1. work[1] = All /\ 1 \in 1 .. 1
    BY <1>1 DEF IInv, DoneInv
  <2> QED BY <2>1, <1>1
<1>2. CASE numNodes > 1
  <2>1. \A k \in 1 .. numNodes :
          work[k] = SliceOf(k, numNodes, numProxies)
    BY <1>2 DEF IInv, DoneInv, ComputesShare
  <2>2. PICK k \in 1 .. numNodes : x \in SliceOf(k, numNodes, numProxies)
    BY <1>0, <1>2, SlicesCover DEF All
  <2>3. ASSUME NEW m \in 1 .. numNodes, x \in work[m]
        PROVE  m = k
    <3>1. x \in SliceOf(m, numNodes, numProxies)
      BY <2>1, <2>3
    <3>2. ~(m < k)
      <4> SUFFICES ASSUME m < k PROVE FALSE
        OBVIOUS
      <4>1. x < x
        BY <1>0, <1>2, <2>2, <3>1, SlicesDisjoint
      <4> QED BY <4>1 DEF All
    <3>3. ~(k < m)
      <4> SUFFICES ASSUME k < m PROVE FALSE
        OBVIOUS
      <4>1. x < x
        BY <1>0, <1>2, <2>2, <3>1, SlicesDisjoint
      <4> QED BY <4>1 DEF All
    <3> QED BY <1>0, <3>2, <3>3
  <2> QED BY <2>1, <2>2, <2>3
<1> QED BY <1>0, <1>1, <1>2

-----------------------------------------------------------------------------
(* Theorems                                                                *)

\* proxyContainersToRestart never slices out of range, for lists of any
\* length, and its variables keep their types.
THEOREM PartitionTypeOK == Spec => []TypeOK
<1>1. IInv => TypeOK
  BY DEF IInv
<1> QED BY InitIInv, NextIInv, <1>1, PTL DEF Spec

\* For any number of instances and proxies, the loop of
\* proxyContainersToRestart puts every proxy into exactly one share.
THEOREM PartitionExact == Spec => []EachProxyExactlyOnce
  BY InitIInv, NextIInv, IInvPartition, PTL DEF Spec

\* The loop computes the closed form ProxyShare states for it.
THEOREM PartitionComputesShare == Spec => []ComputesShare
<1>1. IInv => ComputesShare
  BY DEF IInv, DoneInv, ComputesShare
<1> QED BY InitIInv, NextIInv, <1>1, PTL DEF Spec
=============================================================================
