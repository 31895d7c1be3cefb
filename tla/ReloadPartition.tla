-------------------------- MODULE ReloadPartition ---------------------------
(***************************************************************************)
(* The loop of proxyContainersToRestart (ext/lb/lb.go) that deals the      *)
(* proxy containers out to the Interlock instances: one step per slice.    *)
(* Nodes and proxies are named by their position in the two lists.         *)
(***************************************************************************)
EXTENDS ProxyShare

CONSTANTS MaxNodes,   \* the longest list of instances
          MaxProxies  \* the longest list of proxy containers

ASSUME BoundsAssumption == MaxNodes \in Nat /\ MaxProxies \in Nat

VARIABLES numNodes,   \* len(nodes)
          numProxies, \* len(proxyContainers) on entry
          i,          \* loop counter: slices dealt so far
          rest,       \* len(proxyContainers) as the loop shortens it
          work,       \* node position -> positions of its proxies
          pc          \* "start", "loop" or "done"

vars == <<numNodes, numProxies, i, rest, work, pc>>

All == 1 .. numProxies

Init ==
  /\ numNodes \in 0 .. MaxNodes
  /\ numProxies \in 0 .. MaxProxies
  /\ i = 0
  /\ rest = numProxies
  /\ work = [k \in 1 .. numNodes |-> {}]
  /\ pc = "start"

\* No instance or one instance: every proxy is returned, whoever asks.
ReturnAll ==
  /\ pc = "start"
  /\ numNodes <= 1
  /\ work' = [k \in 1 .. numNodes |-> All]
  /\ pc' = "done"
  /\ UNCHANGED <<numNodes, numProxies, i, rest>>

EnterLoop ==
  /\ pc = "start"
  /\ numNodes > 1
  /\ pc' = "loop"
  /\ UNCHANGED <<numNodes, numProxies, i, rest, work>>

Sub == numProxies \div numNodes

\* Slice that does not shorten the list.
SliceIgnoringRest ==
  /\ pc = "loop"
  /\ i < numNodes - 1
  /\ work' = [work EXCEPT ![i + 1] = (rest - Sub + 1) .. rest]
  /\ i' = i + 1
  /\ UNCHANGED <<numNodes, numProxies, rest, pc>>

\* Slice with the size rounded up.
SliceRoundedUp ==
  /\ pc = "loop"
  /\ i < numNodes - 1
  /\ rest' = rest - (Sub + 1)
  /\ work' = [work EXCEPT ![i + 1] = (rest - Sub) .. rest]
  /\ i' = i + 1
  /\ UNCHANGED <<numNodes, numProxies, pc>>

\* One iteration: the last Sub proxies of what is left go to nodes[i].
Slice ==
  /\ pc = "loop"
  /\ i < numNodes - 1
  /\ rest' = rest - Sub
  /\ work' = [work EXCEPT ![i + 1] = (rest - Sub + 1) .. rest]
  /\ i' = i + 1
  /\ UNCHANGED <<numNodes, numProxies, pc>>

\* After the loop the last node gets the remainder.
Remainder ==
  /\ pc = "loop"
  /\ i = numNodes - 1
  /\ work' = [work EXCEPT ![numNodes] = 1 .. rest]
  /\ pc' = "done"
  /\ UNCHANGED <<numNodes, numProxies, i, rest>>

Next == ReturnAll \/ EnterLoop \/ Slice \/ Remainder

Spec == Init /\ [][Next]_vars

(***************************************************************************)
(* Properties                                                              *)
(***************************************************************************)

\* The state has its types; rest never leaves 0..numProxies, so the slice
\* expressions of the loop never index out of range (Go would panic).
TypeOK ==
  /\ numNodes \in 0 .. MaxNodes
  /\ numProxies \in 0 .. MaxProxies
  /\ i \in 0 .. numNodes
  /\ rest \in 0 .. numProxies
  /\ work \in [1 .. numNodes -> SUBSET All]
  /\ pc \in {"start", "loop", "done"}

\* When proxyContainersToRestart is evaluated by instances that list the same
\* nodes and the same proxies, every proxy is in the share of exactly one
\* of them: none is left out of a reload, none is reloaded twice.
EachProxyExactlyOnce ==
  (pc = "done" /\ numNodes > 0) =>
    \A p \in All :
      \E k \in 1 .. numNodes :
        p \in work[k] /\ \A m \in 1 .. numNodes : p \in work[m] => m = k

\* The loop computes the closed form that the load balancer's model uses.
ComputesShare ==
  (pc = "done" /\ numNodes > 1) =>
    \A k \in 1 .. numNodes : work[k] = SliceOf(k, numNodes, numProxies)
=============================================================================
