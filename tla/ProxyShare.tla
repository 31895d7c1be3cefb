----------------------------- MODULE ProxyShare -----------------------------
(***************************************************************************)
(* Which proxy containers an Interlock instance reloads when several       *)
(* instances run: the closed form of proxyContainersToRestart              *)
(* (ext/lb/lb.go).  ReloadPartition models the loop that computes it.      *)
(***************************************************************************)
EXTENDS Integers, Sequences

(***************************************************************************)
(* Positions 1..p of the proxy list are dealt out from its end, p \div n   *)
(* at a time; the last node keeps whatever is left at the front.           *)
(***************************************************************************)
SliceOf(k, n, p) ==
  LET sub == p \div n
  IN  IF k < n THEN (p - k * sub + 1) .. (p - (k - 1) * sub)
               ELSE 1 .. (p - (n - 1) * sub)

(***************************************************************************)
(* The proxies instance self reloads, given the instances it lists and the *)
(* proxies it lists.  With no or one listed instance it takes them all;    *)
(* an instance that is not on a longer list finds no entry and takes none. *)
(***************************************************************************)
ProxyContainersToRestart(self, nodes, proxies) ==
  LET mine(j) == \E k \in 1 .. Len(nodes) :
                   nodes[k] = self /\ j \in SliceOf(k, Len(nodes), Len(proxies))
  IN  { proxies[j] : j \in { i \in 1 .. Len(proxies) : Len(nodes) <= 1 \/ mine(i) } }
=============================================================================
