------------------------------- MODULE Server -------------------------------
(***************************************************************************)
(* The server (server/server.go): the goroutines that NewServer and Run    *)
(* start and the unbuffered channels between them.  A goroutine that sends *)
(* is blocked until the receiver is back at its receive, so every send is  *)
(* one step of both.                                                       *)
(*                                                                         *)
(*   scanner k --eventChan--> event loop --errChan--> error handler        *)
(*   restart handler --eventChan--> event loop                             *)
(*   restart handler, scanner k --errChan--> error handler                 *)
(*   error handler, NewServer --restartChan--> restart handler             *)
(*   poller --eventChan--> event loop                                      *)
(*                                                                         *)
(* eventErrChan has a handler too, but nothing sends to it.  With a        *)
(* PollInterval there is no scanner, without one there is no poller.       *)
(***************************************************************************)
EXTENDS Integers, Sequences, FiniteSets

CONSTANTS
  Modes,       \* subset of {"stream", "poll"}: is PollInterval set?
  Polled,      \* containers that the poller may find running
  PublicPorts, \* ports they may publish
  Extensions,  \* how many extensions are loaded
  FailKinds,   \* how Docker calls fail: "500" is the text the server looks for
  MaxItems,    \* bound on the lines Docker publishes
  MaxChanges,  \* bound on the changes of containers when they are polled
  MaxErrors,   \* bound on errors returned by extensions
  MaxFlaps,    \* bound on changes of the Swarm's health
  MaxBreaks    \* bound on event streams that end

ASSUME ServerAssumption ==
  /\ Modes \subseteq {"stream", "poll"}
  /\ PublicPorts \subseteq Nat \ {0}
  /\ Extensions \in Nat
  /\ FailKinds \subseteq {"500", "other"}
  /\ MaxItems \in Nat /\ MaxChanges \in Nat /\ MaxErrors \in Nat
  /\ MaxFlaps \in Nat /\ MaxBreaks \in Nat

\* The first stream, and one for each error of an extension: an error at
\* opening a stream only repeats the request for it.
Streams == 1 .. (1 + MaxErrors)

\* A container event, an event without id and type, a line that is not JSON.
Items == {"event", "blank", "garbage"}

VARIABLES
  main,      \* NewServer: "start" (about to send on restartChan) or "done"
  eh,        \* error handler: "recv", "wait" (waitForSwarm) or "restart"
  rs,        \* restart handler: "recv", "open", "err" or "start"
  rsErr,     \* the error it is sending, or "none"
  scan,      \* stream -> its scanner: "none", "read", "send", "err" or "ended"
  queue,     \* stream -> lines not yet read
  broken,    \* streams the other side has ended
  loop,      \* event loop: "recv", "handle" or "err"
  loopErr,   \* the error it is sending, or "none"
  left,      \* extensions that have still to see the event
  opened,    \* streams opened so far
  healthy,   \* the Swarm answers
  blind,     \* something was published while no stream was open, and no
             \* initial load has begun since
  items, errors, flaps, breaks,
  \* polling
  mode,      \* "stream" or "poll", from the configuration
  pl,        \* poller: "tick" (waits for its ticker) or "send"
  stored,    \* s.containerHash
  world,     \* container -> the public port it runs with, or Down
  due,       \* an extension has been told to read the containers again
  applied,   \* hash of what the extensions read last
  missed     \* history: the containers changed between the poll that stored
             \* its hash and the read it caused, or that read failed

poller == <<mode, pl, stored, world, due, applied, missed>>

vars == <<main, eh, rs, rsErr, scan, queue, broken, loop, loopErr, left,
          opened, healthy, blind, items, errors, flaps, breaks, poller>>

Live(k) == scan[k] \in {"read", "send", "err"} /\ k \notin broken

Subscribed == \E k \in Streams : Live(k)

Down == 0

\* runPoller hashes the sorted ids of the running containers and, separately,
\* their sorted public ports: which container has which port is lost.
Hash(w) ==
  LET ids == {c \in Polled : w[c] # Down}
  IN  <<ids, [p \in PublicPorts |-> Cardinality({c \in ids : w[c] = p})]>>

NoHash == <<{}, << >>>>

Init ==
  /\ main = "start"
  /\ eh = "recv"
  /\ rs = "recv" /\ rsErr = "none"
  /\ scan = [k \in Streams |-> "none"]
  /\ queue = [k \in Streams |-> <<>>]
  /\ broken = {}
  /\ loop = "recv" /\ loopErr = "none" /\ left = 0
  /\ opened = 0
  /\ healthy \in BOOLEAN
  /\ blind = FALSE
  /\ items = 0 /\ errors = 0 /\ flaps = 0 /\ breaks = 0
  /\ mode \in Modes
  /\ pl = "tick" /\ stored = NoHash
  /\ world = [c \in Polled |-> Down]
  /\ due = FALSE /\ applied = NoHash /\ missed = FALSE

-----------------------------------------------------------------------------
(* Docker                                                                  *)

Publish(x) ==
  /\ mode = "stream"
  /\ items < MaxItems
  /\ items' = items + 1
  /\ queue' = [k \in Streams |-> IF Live(k) THEN Append(queue[k], x)
                                            ELSE queue[k]]
  /\ blind' = (blind \/ ~Subscribed)
  /\ UNCHANGED <<main, eh, rs, rsErr, scan, broken, loop, loopErr, left,
                 opened, healthy, errors, flaps, breaks, poller>>

SetHealth(h) ==
  /\ healthy # h
  /\ h \/ flaps < MaxFlaps
  /\ healthy' = h
  /\ flaps' = IF h THEN flaps ELSE flaps + 1
  /\ UNCHANGED <<main, eh, rs, rsErr, scan, queue, broken, loop, loopErr,
                 left, opened, blind, items, errors, breaks, poller>>

BreakStream(k) ==
  /\ Live(k)
  /\ breaks < MaxBreaks
  /\ breaks' = breaks + 1
  /\ broken' = broken \cup {k}
  /\ UNCHANGED <<main, eh, rs, rsErr, scan, queue, loop, loopErr, left,
                 opened, healthy, blind, items, errors, flaps, poller>>

-----------------------------------------------------------------------------
(* NewServer and the restart handler                                       *)

\* The first restartChan <- true.
StartHandling ==
  /\ main = "start" /\ rs = "recv"
  /\ main' = "done"
  /\ rs' = "open"
  /\ UNCHANGED <<eh, rsErr, scan, queue, broken, loop, loopErr, left,
                 opened, healthy, blind, items, errors, flaps, breaks,
                 poller>>

\* OpenStream without the initial load.
OpenStreamNoLoad ==
  /\ rs = "open" /\ mode = "stream" /\ healthy
  /\ opened' = opened + 1
  /\ scan' = [scan EXCEPT ![opened + 1] = "read"]
  /\ rs' = "recv"
  /\ UNCHANGED <<main, eh, rsErr, queue, broken, loop, loopErr, left,
                 healthy, blind, items, errors, flaps, breaks, poller>>

\* OpenStream that starts no scanner.
OpenStreamNoScanner ==
  /\ rs = "open" /\ mode = "stream" /\ healthy
  /\ opened' = opened + 1
  /\ rs' = "start"
  /\ UNCHANGED <<main, eh, rsErr, scan, queue, broken, loop, loopErr, left,
                 healthy, blind, items, errors, flaps, breaks, poller>>

\* Events succeeds: its scanner starts, and the initial load is next.
OpenStream ==
  /\ rs = "open" /\ mode = "stream" /\ healthy
  /\ opened' = opened + 1
  /\ scan' = [scan EXCEPT ![opened + 1] = "read"]
  /\ rs' = "start"
  /\ UNCHANGED <<main, eh, rsErr, queue, broken, loop, loopErr, left,
                 healthy, blind, items, errors, flaps, breaks, poller>>

OpenFails(f) ==
  /\ rs = "open" /\ mode = "stream" /\ ~healthy
  /\ rs' = "err" /\ rsErr' = f
  /\ UNCHANGED <<main, eh, scan, queue, broken, loop, loopErr, left, opened,
                 healthy, blind, items, errors, flaps, breaks, poller>>

\* eventChan <- interlock-start
SendStart ==
  /\ rs = "start" /\ loop = "recv"
  /\ rs' = "recv"
  /\ loop' = "handle" /\ left' = Extensions
  /\ blind' = FALSE
  /\ UNCHANGED <<main, eh, rsErr, scan, queue, broken, loopErr, opened,
                 healthy, items, errors, flaps, breaks, poller>>

\* The error handler receives error f.
Receive(f) ==
  /\ eh = "recv"
  /\ eh' = IF f = "500" THEN "wait" ELSE "recv"

SendOpenError ==
  /\ rs = "err"
  /\ Receive(rsErr)
  /\ rs' = "recv" /\ rsErr' = "none"
  /\ UNCHANGED <<main, scan, queue, broken, loop, loopErr, left, opened,
                 healthy, blind, items, errors, flaps, breaks, poller>>

\* With a PollInterval a restart is only logged.
UsePolling ==
  /\ rs = "open" /\ mode = "poll"
  /\ rs' = "recv"
  /\ UNCHANGED <<main, eh, rsErr, scan, queue, broken, loop, loopErr, left,
                 opened, healthy, blind, items, errors, flaps, breaks,
                 poller>>

RestartHandler ==
  \/ UsePolling \/ OpenStream \/ SendStart \/ SendOpenError
  \/ \E f \in FailKinds : OpenFails(f)

-----------------------------------------------------------------------------
(* The error handler                                                       *)

\* SwarmBack with the test of the error inverted.
SwarmBackInverted ==
  /\ eh = "wait" /\ ~healthy
  /\ eh' = "restart"
  /\ UNCHANGED <<main, rs, rsErr, scan, queue, broken, loop, loopErr, left,
                 opened, healthy, blind, items, errors, flaps, breaks,
                 poller>>

\* waitForSwarm returns once a ContainerList succeeds.
SwarmBack ==
  /\ eh = "wait" /\ healthy
  /\ eh' = "restart"
  /\ UNCHANGED <<main, rs, rsErr, scan, queue, broken, loop, loopErr, left,
                 opened, healthy, blind, items, errors, flaps, breaks,
                 poller>>

\* RequestRestart to a restart handler that does nothing with it.
RequestRestartIgnored ==
  /\ eh = "restart" /\ rs = "recv"
  /\ eh' = "recv"
  /\ UNCHANGED <<main, rs, rsErr, scan, queue, broken, loop, loopErr, left,
                 opened, healthy, blind, items, errors, flaps, breaks,
                 poller>>

\* restartChan <- true
RequestRestart ==
  /\ eh = "restart" /\ rs = "recv"
  /\ eh' = "recv" /\ rs' = "open"
  /\ UNCHANGED <<main, rsErr, scan, queue, broken, loop, loopErr, left,
                 opened, healthy, blind, items, errors, flaps, breaks,
                 poller>>

ErrorHandler == SwarmBack \/ RequestRestart

-----------------------------------------------------------------------------
(* The scanners                                                            *)

Read(k) ==
  /\ scan[k] = "read" /\ queue[k] # <<>>
  /\ scan' = [scan EXCEPT ![k] = IF Head(queue[k]) = "garbage"
                                 THEN "err" ELSE "send"]
  /\ UNCHANGED <<main, eh, rs, rsErr, queue, broken, loop, loopErr, left,
                 opened, healthy, blind, items, errors, flaps, breaks,
                 poller>>

\* A line that is not JSON: its error goes to errChan.
SendScanError(k) ==
  /\ scan[k] = "err"
  /\ Receive("other")
  /\ scan' = [scan EXCEPT ![k] = "read"]
  /\ queue' = [queue EXCEPT ![k] = Tail(@)]
  /\ UNCHANGED <<main, rs, rsErr, broken, loop, loopErr, left, opened,
                 healthy, blind, items, errors, flaps, breaks, poller>>

\* SendEvent that leaves the line in place.
SendEventAgain(k) ==
  /\ scan[k] = "send" /\ loop = "recv"
  /\ scan' = [scan EXCEPT ![k] = "read"]
  /\ loop' = IF Head(queue[k]) = "blank" THEN "recv" ELSE "handle"
  /\ left' = Extensions
  /\ UNCHANGED <<main, eh, rs, rsErr, queue, broken, loopErr, opened,
                 healthy, blind, items, errors, flaps, breaks, poller>>

\* The loop receives an event, and drops one without id and type.
SendEvent(k) ==
  /\ scan[k] = "send" /\ loop = "recv"
  /\ scan' = [scan EXCEPT ![k] = "read"]
  /\ queue' = [queue EXCEPT ![k] = Tail(@)]
  /\ loop' = IF Head(queue[k]) = "blank" THEN "recv" ELSE "handle"
  /\ left' = IF Head(queue[k]) = "blank" THEN 0 ELSE Extensions
  /\ UNCHANGED <<main, eh, rs, rsErr, broken, loopErr, opened, healthy,
                 blind, items, errors, flaps, breaks, poller>>

\* Scan returns false at the end of the stream, and the goroutine is done.
ScanEnds(k) ==
  /\ scan[k] = "read" /\ queue[k] = <<>> /\ k \in broken
  /\ scan' = [scan EXCEPT ![k] = "ended"]
  /\ UNCHANGED <<main, eh, rs, rsErr, queue, broken, loop, loopErr, left,
                 opened, healthy, blind, items, errors, flaps, breaks,
                 poller>>

Scanner(k) == Read(k) \/ SendScanError(k) \/ SendEvent(k) \/ ScanEnds(k)

-----------------------------------------------------------------------------
(* The event loop                                                          *)

\* An extension handles the event, or none is left and the loop goes on.
Handled ==
  /\ loop = "handle"
  /\ IF left = 0 THEN loop' = "recv" /\ left' = left
                 ELSE loop' = "handle" /\ left' = left - 1
  /\ due' = (due \/ (mode = "poll" /\ left > 0))
  /\ UNCHANGED <<main, eh, rs, rsErr, scan, queue, broken, loopErr, opened,
                 healthy, blind, items, errors, flaps, breaks,
                 mode, pl, stored, world, applied, missed>>

\* Extensions return errors for container events only: the load balancer when
\* it cannot inspect a network, the beacon when it cannot list.
HandleFails(f) ==
  /\ loop = "handle" /\ left > 0 /\ mode = "stream"
  /\ errors < MaxErrors
  /\ errors' = errors + 1
  /\ loop' = "err" /\ loopErr' = f /\ left' = left - 1
  /\ UNCHANGED <<main, eh, rs, rsErr, scan, queue, broken, opened, healthy,
                 blind, items, flaps, breaks, poller>>

SendLoopError ==
  /\ loop = "err"
  /\ Receive(loopErr)
  /\ loop' = "handle" /\ loopErr' = "none"
  /\ UNCHANGED <<main, rs, rsErr, scan, queue, broken, left, opened, healthy,
                 blind, items, errors, flaps, breaks, poller>>

EventLoop == Handled \/ SendLoopError \/ \E f \in FailKinds : HandleFails(f)

-----------------------------------------------------------------------------
(* The poller                                                              *)

server == <<main, eh, rs, rsErr, scan, queue, broken, loopErr, opened,
            healthy, blind, errors, flaps, breaks, mode>>

\* A read that the stored hash stands for is still to come.
Unread == pl = "send" \/ loop # "recv" \/ due

\* A container stops, or starts with a port.
ChangeWorld(c, p) ==
  /\ mode = "poll" /\ world[c] # p
  /\ items < MaxChanges
  /\ items' = items + 1
  /\ world' = [world EXCEPT ![c] = p]
  /\ missed' = (missed \/ Unread)
  /\ UNCHANGED <<server, loop, left, pl, stored, due, applied>>

\* PollList that compares with the first hash only.
PollListOnce ==
  /\ mode = "poll" /\ main = "done" /\ pl = "tick" /\ healthy
  /\ stored = NoHash
  /\ stored' = Hash(world)
  /\ pl' = "send"
  /\ missed' = FALSE
  /\ UNCHANGED <<server, items, loop, left, world, due, applied>>

\* A tick finds another hash and stores it, before anyone has acted on it.
\* (Nothing happens when the hash is the same or the list fails.)
PollList ==
  /\ mode = "poll" /\ main = "done" /\ pl = "tick" /\ healthy
  /\ Hash(world) # stored
  /\ stored' = Hash(world)
  /\ pl' = "send"
  /\ missed' = FALSE
  /\ UNCHANGED <<server, items, loop, left, world, due, applied>>

\* PollSend that does not wait for the loop.
PollSendNoWait ==
  /\ pl = "send"
  /\ pl' = "tick"
  /\ IF loop = "recv" THEN loop' = "handle" /\ left' = Extensions
                      ELSE UNCHANGED <<loop, left>>
  /\ UNCHANGED <<server, items, stored, world, due, applied, missed>>

\* eventChan <- interlock-restart
PollSend ==
  /\ pl = "send" /\ loop = "recv"
  /\ pl' = "tick"
  /\ loop' = "handle" /\ left' = Extensions
  /\ UNCHANGED <<server, items, stored, world, due, applied, missed>>

Poller == PollList \/ PollSend

\* An extension lists the containers, which it does some time later.
ReadContainers ==
  /\ due
  /\ due' = FALSE
  /\ IF healthy THEN applied' = Hash(world) /\ missed' = missed
                ELSE applied' = applied /\ missed' = TRUE
  /\ UNCHANGED <<server, items, loop, left, pl, stored, world>>

-----------------------------------------------------------------------------

Next ==
  \/ \E c \in Polled, p \in PublicPorts \cup {Down} : ChangeWorld(c, p)
  \/ Poller \/ ReadContainers
  \/ \E x \in Items : Publish(x)
  \/ \E h \in BOOLEAN : SetHealth(h)
  \/ \E k \in Streams : BreakStream(k) \/ Scanner(k)
  \/ StartHandling \/ RestartHandler \/ ErrorHandler \/ EventLoop

Spec == Init /\ [][Next]_vars

(***************************************************************************)
(* Go runs a goroutine that can run, and an unavailable Swarm comes back;  *)
(* nothing else is owed by Docker.                                         *)
(***************************************************************************)
Fairness ==
  /\ WF_vars(SetHealth(TRUE))
  /\ WF_vars(StartHandling)
  /\ WF_vars(RestartHandler)
  /\ WF_vars(ErrorHandler)
  /\ WF_vars(EventLoop)
  /\ WF_vars(Poller)
  /\ WF_vars(ReadContainers)
  /\ \A k \in Streams : WF_vars(Scanner(k))

FairSpec == Spec /\ Fairness

(***************************************************************************)
(* Properties                                                              *)
(***************************************************************************)

\* The state has its types; no more streams are opened than failed calls
\* can ask for, and the scanners are those of the opened streams.
TypeOK ==
  /\ main \in {"start", "done"}
  /\ eh \in {"recv", "wait", "restart"}
  /\ rs \in {"recv", "open", "err", "start"}
  /\ rsErr \in IF rs = "err" THEN FailKinds ELSE {"none"}
  /\ loopErr \in IF loop = "err" THEN FailKinds ELSE {"none"}
  /\ scan \in [Streams -> {"none", "read", "send", "err", "ended"}]
  /\ \A k \in Streams : scan[k] = "none" <=> k > opened
  /\ queue \in [Streams -> Seq(Items)]
  /\ broken \subseteq Streams
  /\ loop \in {"recv", "handle", "err"}
  /\ left \in 0 .. Extensions
  /\ opened \in 0 .. (1 + MaxErrors)
  /\ healthy \in BOOLEAN /\ blind \in BOOLEAN
  /\ items \in Nat /\ errors \in Nat /\ flaps \in Nat /\ breaks \in Nat
  /\ mode \in Modes /\ pl \in {"tick", "send"}
  /\ world \in [Polled -> PublicPorts \cup {Down}]
  /\ due \in BOOLEAN /\ missed \in BOOLEAN
  /\ mode = "poll" => opened = 0 /\ rs \in {"recv", "open"}
  /\ mode = "stream" => pl = "tick" /\ ~due

\* The restart handler subscribes before it triggers the initial load, so a
\* container event published while nobody listened is always followed by a
\* load: once a stream is open, either nothing was missed or the load is
\* about to be sent.
NoBlindSpot == blind /\ Subscribed => rs = "start"

\* An error is never the end of error handling: the errChan handler comes
\* back to its receive (its comment: "this is a general error handling
\* channel").
ErrorHandlerReturns == []<>(eh = "recv")

\* The error handler sends on restartChan, and the restart handler waits for
\* the error handler, or for an event loop that waits for the error handler.
Circle ==
  /\ eh = "restart"
  /\ rs = "err" \/ (rs = "start" /\ loop = "err")

\* ErrorHandlerReturns, as far as it is true: the circle of sends on the
\* unbuffered channels is the one way in which the error handler is stopped
\* for good, however many calls fail, with whatever text, while streams open
\* and end.
OnlyCirclesBlock == []<>(eh = "recv") \/ <>[]Circle

\* What an open stream delivers reaches the extensions, or the goroutines are
\* stopped in that circle.
EventsDrain ==
  \A k \in Streams : (queue[k] # <<>>) ~> (queue[k] = <<>> \/ Circle)

\* "Interlock has the ability to reconnect if there is a failure": a failed
\* call that the error handler takes for an outage of the Swarm is answered
\* by one more event stream - unless the goroutines stop in the circle, or
\* the call that opens the stream fails with an error that is not taken for
\* an outage, after which nobody opens a stream again.
OutageResubscribes ==
  \A j \in 0 .. MaxErrors :
    (eh = "wait" /\ opened = j)
      ~> (opened > j \/ Circle \/ (rs = "err" /\ rsErr = "other"))

\* The poller stores a hash before anyone has acted on it, and the extensions
\* read the containers some time after its event.  Still, at rest they have
\* read what the hash stands for - unless the containers changed in between,
\* when a change that is undone before the next poll is never read again.
PolledIsRead ==
  /\ mode = "poll" /\ Extensions > 0
  /\ ~Unread /\ ~missed
  => applied = stored

\* "If changes are detected, Interlock will trigger an update": however the
\* poller, the loop and the reads interleave, in the end the hash is that of
\* the running containers and, with the same exception, they have been read.
PollKeepsUp ==
  mode = "poll" =>
    <>[](stored = Hash(world) /\ (missed \/ Extensions = 0 \/ applied = stored))
=============================================================================
