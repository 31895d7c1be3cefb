----------------------------- MODULE SynFilter ------------------------------
(***************************************************************************)
(* Reload of the haproxy backend (ext/lb/haproxy/haproxy.go, iptables.go): *)
(* it drops SYN packets with iptables rules while it restarts the proxies. *)
(***************************************************************************)
EXTENDS Integers

CONSTANTS
  Ports    \* how many ports are configured: 1, or 2 with an SSL port

VARIABLES
  syn,       \* "idle", "drop", "restart" or "resume"
  port,      \* the next port of configIPTables
  rules,     \* port -> how many DROP rules the host has for it
  failed,    \* iptables has failed in this reload (missing, not privileged)
  todo       \* the share: positions of the proxies still to restart

Init ==
  /\ syn = "idle" /\ port = 1
  /\ rules = [k \in 1 .. Ports |-> 0]
  /\ failed = FALSE
  /\ todo = {}

Reload(share) ==
  /\ syn = "idle"
  /\ syn' = "drop" /\ port' = 1 /\ failed' = FALSE
  /\ todo' = share
  /\ UNCHANGED rules

\* The phase that follows phase s.
After(s) == CASE s = "drop" -> "restart" [] s = "resume" -> "idle"

\* ConfigIPTables that stops after the first port.
ConfigIPTablesOnePort(s, drop) ==
  /\ syn = s
  /\ drop => rules[port] > 0
  /\ rules' = [rules EXCEPT ![port] = IF drop THEN @ - 1 ELSE @ + 1]
  /\ syn' = After(s) /\ port' = 1
  /\ UNCHANGED <<failed, todo>>

\* One iptables command of configIPTables(drop): -D if drop, -I if not.
\* Deleting a rule that is not there is an error.
ConfigIPTables(s, drop) ==
  /\ syn = s /\ port <= Ports
  /\ drop => rules[port] > 0
  /\ rules' = [rules EXCEPT ![port] = IF drop THEN @ - 1 ELSE @ + 1]
  /\ syn' = IF port = Ports THEN After(s) ELSE s
  /\ port' = IF port = Ports THEN 1 ELSE port + 1
  /\ UNCHANGED <<failed, todo>>

\* A command fails: configIPTables returns at once, and Reload goes on.
IPTablesFails(s) ==
  /\ syn = s
  /\ syn' = After(s) /\ port' = 1
  /\ failed' = TRUE
  /\ UNCHANGED <<rules, todo>>

DropSYN == ConfigIPTables("drop", FALSE) \/ IPTablesFails("drop")

\* The next proxy of the list is restarted, or that fails and is logged.
RestartProxy ==
  /\ syn = "restart"
  /\ \E p \in todo : /\ \A q \in todo : p <= q
                     /\ todo' = todo \ {p}
  /\ UNCHANGED <<syn, port, rules, failed>>

Restarted ==
  /\ syn = "restart" /\ todo = {}
  /\ syn' = "resume"
  /\ UNCHANGED <<port, rules, failed, todo>>

\* resumeSYN makes the same call as dropSYN.
ResumeSYN == ConfigIPTables("resume", FALSE) \/ IPTablesFails("resume")

Step == DropSYN \/ RestartProxy \/ Restarted \/ ResumeSYN

(***************************************************************************)
(* Properties                                                              *)
(***************************************************************************)

\* "Interlock will attempt to drop SYN packets upon reload": while a proxy is
\* being restarted SYN packets are dropped on every port, unless iptables
\* failed.
DropsDuringRestart ==
  syn = "restart" /\ ~failed => \A k \in 1 .. Ports : rules[k] > 0

\* "resuming SYN packets": when a reload in which iptables worked is over,
\* the port accepts connections again.
ResumesAfterReload ==
  syn = "idle" /\ ~failed => \A k \in 1 .. Ports : rules[k] = 0
=============================================================================
