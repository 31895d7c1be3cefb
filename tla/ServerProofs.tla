---------------------------- MODULE ServerProofs ----------------------------
(***************************************************************************)
(* Invariants of Server for every value of its constants: its types, with  *)
(* the bound on the streams that are ever open, that nothing published     *)
(* between two streams is overlooked, and that what was polled is read.    *)
(***************************************************************************)
EXTENDS Server, SequenceTheorems, TLAPS

One(b) == IF b THEN 1 ELSE 0

\* The requests for a stream that are under way: NewServer's, the one the
\* restart handler works on, the one of the error handler, and an error that
\* the event loop has still to report.
Asked == One(main = "start") + One(rs \in {"open", "err"})
           + One(eh \in {"wait", "restart"}) + One(loop = "err")

\* Failing to open a stream passes its request on and makes no second one.
OneStreamPerError == opened + Asked <= 1 + errors

(***************************************************************************)
(* The inductive invariant for the types: a bound on streams needs to know *)
(* what is still asked for, and a scanner that is about to send has read a *)
(* line.  Extensions report errors only when events are streamed.          *)
(***************************************************************************)
ServerInv ==
  /\ TypeOK
  /\ errors <= MaxErrors
  /\ OneStreamPerError
  /\ \A k \in Streams : scan[k] \in {"send", "err"} => queue[k] # <<>>
  /\ mode = "poll" => loop # "err"

\* NewServer starts with one request and no stream.
LEMMA InitInv == Init => ServerInv
<1> SUFFICES ASSUME Init PROVE ServerInv
  OBVIOUS
<1>1. TypeOK
  <2>1. /\ blind \in BOOLEAN /\ due \in BOOLEAN /\ missed \in BOOLEAN /\ ~due
        /\ healthy \in BOOLEAN
    BY Zenon DEF Init
  <2>2. queue \in [Streams -> Seq(Items)]
    BY DEF Init
  <2> QED
    BY <2>1, <2>2, ServerAssumption DEF Init, TypeOK, Streams, Down
<1>2. errors <= MaxErrors /\ OneStreamPerError
  BY ServerAssumption DEF Init, OneStreamPerError, Asked, One
<1>3. \A k \in Streams : scan[k] \in {"send", "err"} => queue[k] # <<>>
  BY DEF Init
<1>4. mode = "poll" => loop # "err"
  BY DEF Init
<1> QED
  BY <1>1, <1>2, <1>3, <1>4 DEF ServerInv

\* What Docker does to the server's streams and calls.
LEMMA DockerInv ==
  ASSUME ServerInv,
         \/ \E x \in Items : Publish(x)
         \/ \E h \in BOOLEAN : SetHealth(h)
         \/ \E k \in Streams : BreakStream(k)
  PROVE  ServerInv'
<1> USE ServerAssumption DEF ServerInv, TypeOK, poller, OneStreamPerError, Asked, One
<1>1. ASSUME NEW x \in Items, Publish(x) PROVE ServerInv'
  <2>1. ASSUME NEW k \in Streams
        PROVE  /\ queue'[k] \in Seq(Items)
               /\ queue[k] # <<>> => queue'[k] # <<>>
    <3>1. Append(queue[k], x) \in Seq(Items) /\ Append(queue[k], x) # <<>>
      BY <1>1, AppendProperties
    <3> QED
      BY <1>1, <3>1 DEF Publish
  <2>2. queue' \in [Streams -> Seq(Items)]
    BY <1>1, <2>1 DEF Publish
  <2>3. blind' \in BOOLEAN
    BY <1>1, Zenon DEF Publish, Subscribed
  <2>4. /\ UNCHANGED <<main, eh, rs, rsErr, scan, broken, loop, loopErr, left, opened,
                       healthy, errors, flaps, breaks, poller>>
        /\ items' = items + 1
    BY <1>1 DEF Publish
  <2> QED
    BY <2>1, <2>2, <2>3, <2>4
<1>2. ASSUME NEW h \in BOOLEAN, SetHealth(h) PROVE ServerInv'
  BY <1>2 DEF SetHealth
<1>3. ASSUME NEW k \in Streams, BreakStream(k) PROVE ServerInv'
  BY <1>3 DEF BreakStream
<1> QED
  BY <1>1, <1>2, <1>3

\* The restart handler and the error handler pass one request around.
LEMMA RestartInv ==
  ASSUME ServerInv, StartHandling \/ RestartHandler \/ ErrorHandler
  PROVE  ServerInv'
<1> USE ServerAssumption DEF ServerInv, TypeOK, poller, OneStreamPerError, Asked, One
<1>1. CASE StartHandling
  BY <1>1 DEF StartHandling
<1>2. CASE UsePolling
  BY <1>2 DEF UsePolling
<1>3. CASE OpenStream
  BY <1>3 DEF OpenStream, Streams
<1>4. CASE SendStart
  <2>1. blind' \in BOOLEAN
    BY <1>4, Zenon DEF SendStart
  <2> QED
    BY <1>4, <2>1 DEF SendStart
<1>5. CASE SendOpenError
  BY <1>5 DEF SendOpenError, Receive
<1>6. ASSUME NEW f \in FailKinds, OpenFails(f) PROVE ServerInv'
  BY <1>6 DEF OpenFails
<1>7. CASE SwarmBack
  BY <1>7 DEF SwarmBack
<1>8. CASE RequestRestart
  BY <1>8 DEF RequestRestart
<1> QED
  BY <1>1, <1>2, <1>3, <1>4, <1>5, <1>6, <1>7, <1>8 DEF RestartHandler, ErrorHandler

\* The scanners read one line at a time.
LEMMA ScannerInv ==
  ASSUME ServerInv, NEW k \in Streams, Scanner(k)
  PROVE  ServerInv'
<1> USE ServerAssumption DEF ServerInv, TypeOK, poller, OneStreamPerError, Asked, One
<1>1. queue[k] # <<>> => Head(queue[k]) \in Items /\ Tail(queue[k]) \in Seq(Items)
  BY HeadTailProperties
<1>2. CASE Read(k)
  BY <1>2 DEF Read
<1>3. CASE SendScanError(k)
  BY <1>1, <1>3 DEF SendScanError, Receive
<1>4. CASE SendEvent(k)
  BY <1>1, <1>4 DEF SendEvent
<1>5. CASE ScanEnds(k)
  BY <1>5 DEF ScanEnds
<1> QED
  BY <1>2, <1>3, <1>4, <1>5 DEF Scanner

\* The event loop counts down the extensions; an error of one of them is
\* one more request.
LEMMA EventLoopInv ==
  ASSUME ServerInv, EventLoop
  PROVE  ServerInv'
<1> USE ServerAssumption DEF ServerInv, TypeOK, poller, OneStreamPerError, Asked, One
<1>1. CASE Handled
  <2>1. due' \in BOOLEAN
    BY <1>1, Zenon DEF Handled
  <2>2. mode = "stream" => ~due'
    BY <1>1, Zenon DEF Handled
  <2> QED
    BY <1>1, <2>1, <2>2 DEF Handled
<1>2. CASE SendLoopError
  BY <1>2 DEF SendLoopError, Receive
<1>3. ASSUME NEW f \in FailKinds, HandleFails(f) PROVE ServerInv'
  BY <1>3 DEF HandleFails
<1> QED
  BY <1>1, <1>2, <1>3 DEF EventLoop

\* Polling opens no stream.
LEMMA PollingInv ==
  ASSUME ServerInv,
         \/ \E c \in Polled, p \in PublicPorts \cup {Down} : ChangeWorld(c, p)
         \/ Poller \/ ReadContainers
  PROVE  ServerInv'
<1> USE ServerAssumption DEF ServerInv, TypeOK, server, OneStreamPerError, Asked, One
<1>1. ASSUME NEW c \in Polled, NEW p \in PublicPorts \cup {Down}, ChangeWorld(c, p)
      PROVE  ServerInv'
  <2>1. missed' \in BOOLEAN
    BY <1>1, Zenon DEF ChangeWorld, Unread
  <2> QED
    BY <1>1, <2>1 DEF ChangeWorld
<1>2. CASE PollList
  <2>1. missed' \in BOOLEAN
    BY <1>2, Zenon DEF PollList
  <2> QED
    BY <1>2, <2>1 DEF PollList
<1>3. CASE PollSend
  BY <1>3 DEF PollSend
<1>4. CASE ReadContainers
  <2>1. missed' \in BOOLEAN /\ due' \in BOOLEAN /\ ~due'
    BY <1>4, Zenon DEF ReadContainers
  <2> QED
    BY <1>4, <2>1 DEF ReadContainers
<1> QED
  BY <1>1, <1>2, <1>3, <1>4 DEF Poller

\* The invariant is inductive.
LEMMA NextInv == ServerInv /\ [Next]_vars => ServerInv'
<1>1. ASSUME ServerInv, Next PROVE ServerInv'
  BY <1>1, DockerInv, RestartInv, ScannerInv, EventLoopInv, PollingInv DEF Next
<1>2. ASSUME ServerInv, UNCHANGED vars PROVE ServerInv'
  BY <1>2 DEF vars, poller, ServerInv, TypeOK, OneStreamPerError, Asked, One
<1> QED
  BY <1>1, <1>2

\* Every reachable state of the server's goroutines and channels is well typed;
\* in particular the streams that are ever opened fit the bound on failed calls.
THEOREM ServerTypeOK == Spec => []TypeOK
<1>1. ServerInv => TypeOK
  BY DEF ServerInv
<1> QED
  BY <1>1, InitInv, NextInv, PTL DEF Spec

\* However often opening a stream fails and is retried, each stream but the
\* first was asked for by an error of its own: restarts do not multiply.
THEOREM ServerOneStreamPerError == Spec => []OneStreamPerError
<1>1. ServerInv => OneStreamPerError
  BY DEF ServerInv
<1> QED
  BY <1>1, InitInv, NextInv, PTL DEF Spec

-----------------------------------------------------------------------------
(* No blind spot                                                           *)

\* Only OpenStream makes a stream live.
LEMMA LiveStays ==
  ASSUME ServerInv, Next, ~OpenStream, NEW k \in Streams, Live(k)'
  PROVE  Live(k)
<1> USE DEF Live
<1>1. CASE UNCHANGED <<scan, broken>>
  BY <1>1
<1>2. ASSUME NEW j \in Streams, BreakStream(j) PROVE Live(k)
  BY <1>2 DEF BreakStream
<1>3. ASSUME NEW j \in Streams, Scanner(j) PROVE Live(k)
  BY <1>3 DEF Scanner, Read, SendScanError, SendEvent, ScanEnds, ServerInv, TypeOK
<1>4. CASE \/ \E c \in Polled, p \in PublicPorts \cup {Down} : ChangeWorld(c, p)
           \/ Poller \/ ReadContainers
  BY <1>1, <1>4 DEF ChangeWorld, Poller, PollList, PollSend, ReadContainers, server
<1>5. CASE \/ \E x \in Items : Publish(x)
           \/ \E h \in BOOLEAN : SetHealth(h)
           \/ StartHandling \/ RestartHandler \/ ErrorHandler \/ EventLoop
  BY <1>1, <1>5 DEF Publish, SetHealth, StartHandling, RestartHandler, UsePolling,
     SendStart, SendOpenError, OpenFails, ErrorHandler, SwarmBack, RequestRestart,
     EventLoop, Handled, SendLoopError, HandleFails
<1> QED
  BY <1>2, <1>3, <1>4, <1>5 DEF Next

\* A stream is opened before the initial load is asked for, and only the load
\* ends the wait for it.
LEMMA NoBlindSpotStep ==
  ASSUME ServerInv, NoBlindSpot, [Next]_vars
  PROVE  NoBlindSpot'
<1> SUFFICES ASSUME blind', Subscribed' PROVE rs' = "start"
  BY DEF NoBlindSpot
<1>1. CASE OpenStream
  BY <1>1 DEF OpenStream
<1>2. CASE UNCHANGED vars
  BY <1>2 DEF vars, NoBlindSpot, Subscribed, Live
<1>3. CASE Next /\ ~OpenStream
  <2>1. Subscribed
    BY <1>3, LiveStays DEF Subscribed
  <2>2. ~SendStart
    BY Zenon DEF SendStart
  <2>3. CASE \E x \in Items : Publish(x)
    <3>1. blind /\ rs' = rs
      BY <2>1, <2>3, Zenon DEF Publish
    <3> QED
      BY <2>1, <3>1 DEF NoBlindSpot
  <2>4. CASE ~(\E x \in Items : Publish(x))
    <3>1. blind' = blind
      BY <1>3, <2>2, <2>4 DEF Next, ChangeWorld, Poller, PollList, PollSend,
         ReadContainers, server, SetHealth, BreakStream, Scanner, Read, SendScanError,
         SendEvent, ScanEnds, StartHandling, RestartHandler, UsePolling, SendOpenError,
         OpenFails, ErrorHandler, SwarmBack, RequestRestart, EventLoop, Handled,
         SendLoopError, HandleFails
    <3>2. rs = "start"
      BY <2>1, <3>1 DEF NoBlindSpot
    <3> QED
      BY <1>3, <2>2, <2>4, <3>2 DEF Next, ChangeWorld, Poller, PollList, PollSend,
         ReadContainers, server, SetHealth, BreakStream, Scanner, Read, SendScanError,
         SendEvent, ScanEnds, StartHandling, RestartHandler, UsePolling, SendOpenError,
         OpenFails, ErrorHandler, SwarmBack, RequestRestart, EventLoop, Handled,
         SendLoopError, HandleFails
  <2> QED
    BY <2>3, <2>4
<1> QED
  BY <1>1, <1>2, <1>3

\* Nothing that Docker publishes between two event streams is overlooked: the
\* restart handler subscribes first and has the containers loaded after that,
\* whichever goroutines run in between.
THEOREM ServerNoBlindSpot == Spec => []NoBlindSpot
<1>1. Init => NoBlindSpot
  BY DEF Init, NoBlindSpot, Subscribed, Live
<1>2. ServerInv /\ NoBlindSpot /\ [Next]_vars => NoBlindSpot'
  BY NoBlindSpotStep
<1> QED
  BY <1>1, <1>2, InitInv, NextInv, PTL DEF Spec

-----------------------------------------------------------------------------
(* Polling                                                                 *)

(***************************************************************************)
(* PolledIsRead is not inductive: while a read is still to come the stored *)
(* hash has to be that of the containers, and an event that a first        *)
(* extension has seen either waits to be read or has been.                 *)
(***************************************************************************)
PollInv ==
  mode = "poll" /\ Extensions > 0 /\ ~missed =>
    /\ Unread => stored = Hash(world)
    /\ ~Unread => applied = stored
    /\ loop = "handle" /\ left < Extensions /\ ~due /\ pl = "tick"
         => applied = stored

\* In poll mode no stream has a scanner.
LEMMA PollHasNoStream ==
  ASSUME ServerInv, mode = "poll", NEW k \in Streams
  PROVE  scan[k] = "none"
BY ServerAssumption DEF ServerInv, TypeOK, Streams

\* Nothing but the poller, the loop and the reads matters to the invariant.
LEMMA PollInvStep ==
  ASSUME ServerInv, PollInv, [Next]_vars
  PROVE  PollInv'
<1> SUFFICES ASSUME mode' = "poll", Extensions > 0, ~missed'
             PROVE  /\ Unread' => stored' = Hash(world)'
                    /\ ~Unread' => applied' = stored'
                    /\ (loop = "handle" /\ left < Extensions /\ ~due /\ pl = "tick")'
                          => applied' = stored'
  BY DEF PollInv
<1> USE ServerAssumption
<1>1. mode = "poll"
  BY DEF Next, vars, poller, server, ChangeWorld, Poller, PollList, PollSend,
     ReadContainers, Publish, SetHealth, BreakStream, Scanner, Read, SendScanError,
     SendEvent, ScanEnds, StartHandling, RestartHandler, UsePolling, OpenStream,
     SendStart, SendOpenError, OpenFails, ErrorHandler, SwarmBack, RequestRestart,
     EventLoop, Handled, SendLoopError, HandleFails
<1>2. CASE UNCHANGED <<loop, left, poller>>
  BY <1>1, <1>2 DEF PollInv, Unread, Hash, poller
<1>3. ASSUME NEW c \in Polled, NEW p \in PublicPorts \cup {Down}, ChangeWorld(c, p)
      PROVE  PollInv'
  <2>1. ~missed /\ ~Unread
    BY <1>3, Zenon DEF ChangeWorld
  <2>2. UNCHANGED <<loop, left, pl, stored, due, applied>>
    BY <1>3 DEF ChangeWorld
  <2> QED
    BY <1>1, <2>1, <2>2 DEF PollInv, Unread
<1>4. CASE PollList
  <2>1. stored' = Hash(world)' /\ pl' = "send"
    BY <1>4 DEF PollList, Hash
  <2> QED
    BY <2>1 DEF Unread
<1>5. CASE PollSend
  BY <1>1, <1>5 DEF PollSend, PollInv, Unread, Hash
<1>6. CASE ReadContainers
  <2>1. /\ due /\ ~due' /\ ~missed /\ applied' = Hash(world)
        /\ UNCHANGED <<loop, left, pl, stored, world>>
    BY <1>6, Zenon DEF ReadContainers
  <2>2. stored = Hash(world) /\ Hash(world)' = Hash(world)
    BY <1>1, <2>1 DEF PollInv, Unread, Hash
  <2> QED
    BY <2>1, <2>2
<1>7. CASE Handled
  <2>1. /\ UNCHANGED <<pl, stored, world, applied, missed>>
        /\ loop = "handle"
        /\ left = 0 => loop' = "recv" /\ left' = left
        /\ left # 0 => loop' = "handle" /\ left' = left - 1
    BY <1>7 DEF Handled
  <2>2. left > 0 => due'
    BY <1>1, <1>7, Zenon DEF Handled
  <2>3. left = 0 => (due' <=> due)
    <3>1. left = 0 => ~(left > 0)
      OBVIOUS
    <3> QED
      BY <1>7, <3>1, Zenon DEF Handled
  <2>4. left \in Nat /\ Hash(world)' = Hash(world)
    BY <2>1 DEF ServerInv, TypeOK, Hash
  <2> QED
    BY <1>1, <2>1, <2>2, <2>3, <2>4 DEF PollInv, Unread, ServerInv, TypeOK
<1>8. CASE \/ \E x \in Items : Publish(x)
           \/ \E h \in BOOLEAN : SetHealth(h)
           \/ \E k \in Streams : BreakStream(k)
           \/ StartHandling \/ RestartHandler \/ ErrorHandler
  <2>1. ~SendStart
    BY <1>1 DEF SendStart, ServerInv, TypeOK
  <2> QED
    BY <1>2, <1>8, <2>1 DEF Publish, SetHealth, BreakStream, StartHandling,
       RestartHandler, UsePolling, OpenStream, SendOpenError, OpenFails, ErrorHandler,
       SwarmBack, RequestRestart
<1>9. ASSUME NEW k \in Streams, Scanner(k) PROVE FALSE
  BY <1>1, <1>9, PollHasNoStream DEF Scanner, Read, SendScanError, SendEvent, ScanEnds
<1>10. CASE SendLoopError \/ \E f \in FailKinds : HandleFails(f)
  BY <1>1, <1>10 DEF SendLoopError, HandleFails, ServerInv
<1>11. CASE UNCHANGED vars
  BY <1>2, <1>11 DEF vars
<1> QED
  BY <1>3, <1>4, <1>5, <1>6, <1>7, <1>8, <1>9, <1>10, <1>11
     DEF Next, Poller, EventLoop, PollInv

\* What the poller has stored is what the extensions have read, once they are
\* at rest: for any containers, ports and number of extensions, although the
\* hash is stored before anyone acts on it and the reads come some time later.
\* The exception is a change between the poll and the read.
THEOREM ServerPolledIsRead == Spec => []PolledIsRead
<1>1. Init => PollInv
  BY DEF Init, PollInv, Unread
<1>2. ServerInv /\ PollInv /\ [Next]_vars => PollInv'
  BY PollInvStep
<1>3. PollInv => PolledIsRead
  BY DEF PollInv, PolledIsRead
<1> QED
  BY <1>1, <1>2, <1>3, InitInv, NextInv, PTL DEF Spec
=============================================================================
