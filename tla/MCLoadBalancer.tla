--------------------------- MODULE MCLoadBalancer ---------------------------
(***************************************************************************)
(* LoadBalancer for TLC.                                                   *)
(***************************************************************************)
EXTENDS LoadBalancer

CONSTANTS n1, n2, p1, p2, a1, a2

\* Docker lists the newest container first.
OneNode == <<n1>>
TwoNodes == <<n2, n1>>
OneProxy == <<p1>>
TwoProxies == <<p2, p1>>
NoProxy == << >>
=============================================================================
