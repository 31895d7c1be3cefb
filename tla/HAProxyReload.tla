--------------------------- MODULE HAProxyReload ----------------------------
(***************************************************************************)
(* A haproxy update of one instance from the request to the end of the     *)
(* reload: the cache decides when it begins (Debounce), the proxies are    *)
(* divided among the instances (ReloadPartition), and the instance's share *)
(* is restarted behind iptables rules (SynFilter).                         *)
(***************************************************************************)
EXTENDS ReloadPartition, Debounce

CONSTANTS Ports

VARIABLES
  self,    \* position of this instance in the list of instances
  stage,   \* of an update: "none", "divide" or "reload"
  syn, port, rules, failed, todo

Syn == INSTANCE SynFilter

synVars == <<syn, port, rules, failed, todo>>
allVars == <<vars, cacheVars, synVars, self, stage>>

ASSUME PortsAssumption == Ports \in Nat \ {0}

ReloadInit ==
  /\ Init /\ CacheInit /\ Syn!Init
  /\ self \in 1 .. (IF numNodes = 0 THEN 1 ELSE numNodes)
  /\ stage = "none"

-----------------------------------------------------------------------------
(* The cache.  The clock stands still while the shares are computed.       *)

Waiting(A) == A /\ UNCHANGED <<vars, synVars, self, stage>>

Clock == stage # "divide" /\ Waiting(Elapse)

\* A new update lists the containers again, divides them and reloads.
BeginUpdate ==
  /\ Begin
  /\ stage' = "divide"
  /\ i' = 0 /\ rest' = numProxies
  /\ work' = [k \in 1 .. numNodes |-> {}]
  /\ pc' = "start"
  /\ UNCHANGED <<numNodes, numProxies, self, synVars>>

-----------------------------------------------------------------------------
(* The update                                                              *)

\* Update returns early when its configuration cannot be generated, its
\* template rendered or its instances and proxies listed.
GiveUp ==
  /\ stage = "divide" /\ pc = "start"
  /\ End
  /\ stage' = "none"
  /\ UNCHANGED <<vars, synVars, self>>

Divide ==
  /\ stage = "divide"
  /\ Next
  /\ UNCHANGED <<cacheVars, synVars, self, stage>>

\* With at most one instance listed every proxy is returned.
Share == IF numNodes <= 1 THEN All ELSE work[self]

StartReload ==
  /\ stage = "divide" /\ pc = "done"
  /\ Syn!Reload(Share)
  /\ stage' = "reload"
  /\ UNCHANGED <<vars, cacheVars, self>>

ReloadStep ==
  /\ stage = "reload"
  /\ Syn!Step
  /\ UNCHANGED <<vars, cacheVars, self, stage>>

EndUpdate ==
  /\ stage = "reload" /\ syn = "idle"
  /\ End
  /\ stage' = "none"
  /\ UNCHANGED <<vars, synVars, self>>

ReloadNext ==
  \/ Clock \/ Waiting(Set) \/ Waiting(Ticker) \/ Waiting(ReapTest)
  \/ Waiting(ReapDelete) \/ Waiting(Skip)
  \/ BeginUpdate \/ GiveUp \/ Divide \/ StartReload \/ ReloadStep \/ EndUpdate

ReloadSpec == ReloadInit /\ [][ReloadNext]_allVars

(***************************************************************************)
(* Properties                                                              *)
(***************************************************************************)

\* "Interlock will attempt to drop SYN packets upon reload": while a proxy
\* is being restarted SYN packets are dropped on every port, unless
\* iptables failed.
DropsDuringRestart == Syn!DropsDuringRestart

\* "resuming SYN packets": when a reload in which iptables worked is over,
\* the ports accept connections again.
ResumesAfterReload == Syn!ResumesAfterReload
=============================================================================
