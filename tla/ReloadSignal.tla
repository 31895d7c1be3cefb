---------------------------- MODULE ReloadSignal ----------------------------
(***************************************************************************)
(* What the load balancer promises about reload requests: a signal that    *)
(* merges requests and may hold several of them, whose last one is only    *)
(* given up by starting an update (or by the end of the process), and      *)
(* updates that never overlap.                                             *)
(***************************************************************************)
EXTENDS Naturals

VARIABLES up,       \* the process runs
          tokens,   \* requests held, after merging
          running   \* an update is in progress

vars == <<up, tokens, running>>

Init == up /\ tokens = 0 /\ ~running

\* A request is added, or merged with one that is held.
Request ==
  /\ up
  /\ tokens' \in {tokens, tokens + 1} /\ tokens' > 0
  /\ UNCHANGED <<up, running>>

\* Two held requests become one.
Merge ==
  /\ tokens > 1
  /\ tokens' = tokens - 1
  /\ UNCHANGED <<up, running>>

\* An update starts: it reads the containers after this moment.
Begin ==
  /\ tokens > 0 /\ ~running
  /\ tokens' = tokens - 1
  /\ running' = TRUE
  /\ UNCHANGED up

\* An update ends, complete or given up.
End ==
  /\ running
  /\ running' = FALSE
  /\ UNCHANGED <<up, tokens>>

Crash == up' = FALSE /\ tokens' = 0 /\ running' = FALSE

Boot == ~up /\ up' = TRUE /\ UNCHANGED <<tokens, running>>

Next == Request \/ Merge \/ Begin \/ End \/ Crash \/ Boot

Spec == Init /\ [][Next]_vars
=============================================================================
