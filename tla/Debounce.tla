------------------------------ MODULE Debounce ------------------------------
(***************************************************************************)
(* The time between a container event and the update it asks for: the      *)
(* ttlcache (Set, Get, reap and its ticker) and the lbUpdateChan handler,  *)
(* with a clock.  LoadBalancer models the same steps without time; here    *)
(* the question is how long a request waits and how soon updates follow    *)
(* each other.                                                             *)
(*                                                                         *)
(* A goroutine that can run does so before the clock moves: its delay is   *)
(* small against the ttl of two seconds.  Only an update takes time, up to *)
(* MaxWork.                                                                *)
(***************************************************************************)
EXTENDS Integers

CONSTANTS
  TTL,      \* ReloadThreshold
  MaxWork,  \* how long an update may take
  MaxTime   \* bound on the clock

ASSUME DebounceAssumption == TTL \in Nat \ {0} /\ MaxWork \in Nat /\ MaxTime \in Nat

VARIABLES
  now,      \* the clock
  entry,    \* when the entry "reload" was set, or Never
  due,      \* when the ticker fires next
  ticked,   \* the ticker's channel, of capacity one, holds a tick
  reaper,   \* "wait", "delete": found an expired entry, or "send": blocked
            \* on lbUpdateChan
  handler,  \* "idle" or "update"
  begun,    \* when the last update began
  lastSet,  \* history: the last request
  owed      \* history: no update has begun since

cacheVars == <<now, entry, due, ticked, reaper, handler, begun, lastSet, owed>>

Never == -1

CacheInit ==
  /\ now = 0 /\ due = TTL /\ ticked = FALSE
  /\ entry = Never /\ lastSet = Never /\ owed = FALSE
  /\ reaper = "wait" /\ handler = "idle" /\ begun = Never

-----------------------------------------------------------------------------

\* Something is to be done at this instant.
Urgent ==
  \/ now = due
  \/ ticked /\ reaper = "wait"
  \/ reaper = "delete"
  \/ reaper = "send" /\ handler = "idle"
  \/ handler = "update" /\ now - begun >= MaxWork

Elapse ==
  /\ ~Urgent /\ now < MaxTime
  /\ now' = now + 1
  /\ UNCHANGED <<entry, due, ticked, reaper, handler, begun, lastSet, owed>>

\* HandleEvent ends with a Set, which refreshes an entry that is there.
Set ==
  /\ entry' = now
  /\ lastSet' = now /\ owed' = TRUE
  /\ UNCHANGED <<now, due, ticked, reaper, handler, begun>>

\* A tick that finds the channel full is dropped.
Ticker ==
  /\ now = due
  /\ due' = due + TTL
  /\ ticked' = TRUE
  /\ UNCHANGED <<now, entry, reaper, handler, begun, lastSet, owed>>

\* ReapTest that finds an entry expired at any age.
ReapAny ==
  /\ ticked /\ reaper = "wait"
  /\ ticked' = FALSE
  /\ reaper' = IF entry # Never THEN "delete" ELSE "wait"
  /\ UNCHANGED <<now, entry, due, handler, begun, lastSet, owed>>

\* ReapTest that finds an entry expired only after another ttl.
ReapLate ==
  /\ ticked /\ reaper = "wait"
  /\ ticked' = FALSE
  /\ reaper' = IF entry # Never /\ now - entry >= 2 * TTL THEN "delete" ELSE "wait"
  /\ UNCHANGED <<now, entry, due, handler, begun, lastSet, owed>>

\* reap, on a tick, compares the age of the entry with the ttl ...
ReapTest ==
  /\ ticked /\ reaper = "wait"
  /\ ticked' = FALSE
  /\ reaper' = IF entry # Never /\ now - entry >= TTL THEN "delete" ELSE "wait"
  /\ UNCHANGED <<now, entry, due, handler, begun, lastSet, owed>>

\* ... and deletes it, refreshed though it may be: Set takes no lock.  The
\* callback then sends a signal.
ReapDelete ==
  /\ reaper = "delete"
  /\ entry' = Never /\ reaper' = "send"
  /\ UNCHANGED <<now, due, ticked, handler, begun, lastSet, owed>>

\* The handler takes a signal and finds a new entry: "too many requests".
Skip ==
  /\ reaper = "send" /\ handler = "idle" /\ entry # Never
  /\ reaper' = "wait"
  /\ UNCHANGED <<now, entry, due, ticked, handler, begun, lastSet, owed>>

Begin ==
  /\ reaper = "send" /\ handler = "idle" /\ entry = Never
  /\ reaper' = "wait"
  /\ handler' = "update" /\ begun' = now /\ owed' = FALSE
  /\ UNCHANGED <<now, entry, due, ticked, lastSet>>

End ==
  /\ handler = "update"
  /\ handler' = "idle"
  /\ UNCHANGED <<now, entry, due, ticked, reaper, begun, lastSet, owed>>

CacheNext ==
  \/ Elapse \/ Set \/ Ticker \/ ReapTest \/ ReapDelete \/ Skip \/ Begin \/ End

CacheSpec == CacheInit /\ [][CacheNext]_cacheVars

(***************************************************************************)
(* Properties                                                              *)
(***************************************************************************)

\* The variables have their types, and times are not in the future.
CacheTypeOK ==
  /\ now \in Nat /\ due \in Nat
  /\ entry \in Nat \cup {Never} /\ lastSet \in Nat \cup {Never}
  /\ begun \in Nat \cup {Never}
  /\ ticked \in BOOLEAN /\ owed \in BOOLEAN
  /\ reaper \in {"wait", "delete", "send"} /\ handler \in {"idle", "update"}
  /\ entry <= now /\ lastSet <= now /\ begun <= now

\* "too many requests": an update begins only for a request that came after
\* the last one began, and a ttl or more after it.  (Not a ttl after the
\* last request: one that comes between reap's test and its delete is
\* deleted with the expired entry, and the update begins at once.)
UpdatesSpaced ==
  [][handler = "idle" /\ handler' = "update"
       => owed /\ (begun = Never \/ now - begun >= TTL)]_cacheVars

\* Only requests and an update under way postpone an update: it begins
\* within two ttls of the last request, or when the update ends that had
\* begun before it, although ticks are lost while the reaper is blocked.
\* (Requests that keep coming within a ttl postpone it without end.)
Prompt ==
  [][now' > now /\ owed /\ now' - lastSet >= 2 * TTL
       => handler = "update" /\ begun <= lastSet]_cacheVars
=============================================================================
