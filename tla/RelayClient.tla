---------------------------- MODULE RelayClient ----------------------------
(***************************************************************************)
(* One connection of a client: crates/client/src/relay.rs.                 *)
(*                                                                         *)
(* The handshake seats the connection.  From then on the caller's threads, *)
(* the clock task and the socket task share a session behind one lock, and *)
(* a queue of frames that the socket task drains.  A thread changes the    *)
(* session and pushes what it published under the lock, and emits its      *)
(* events after it.                                                        *)
(*                                                                         *)
(* The session (PeerSession) is reduced to the numbers it seals frames     *)
(* under and to whether it has ended.  The names, paths and texts that the *)
(* events carry, and the first fault that is kept, are left out.           *)
(***************************************************************************)
EXTENDS Integers, Sequences

CONSTANTS
    Callers,    \* threads of the caller's
    Opener,     \* the one that called host or join
    MaxFrames,  \* bound: frames sealed by this connection
    MaxRenames, \* bound: requests to rename
    MaxCloses   \* bound: calls of disconnect, each rename taking the place of one

ASSUME RelayAssumption ==
    /\ Opener \in Callers
    /\ MaxFrames \in Nat /\ MaxRenames \in Nat /\ MaxCloses \in Nat

Clock == "clock"
Socket == "socket"
Free == "free"
ASSUME ThreadAssumption == Callers \cap {Clock, Socket, Free} = {}

Threads == Callers \cup {Clock, Socket}

VARIABLES
    phase,      \* the handshake
    session,    \* PeerSession: number, frames not drained, ending
    ending,     \* RelayState.ending
    destroyed,  \* RelayState.destroyed
    lock,       \* the holder of RelayState's lock
    pc,         \* what each thread is about to do
    pend,       \* frames that each thread has drained and not pushed
    ends,       \* threads with an Ended event to emit
    queue,      \* outgoing
    sink,       \* what the socket task is sending
    sent,       \* the number of the last frame that left
    renames,    \* RelayState.request_id, past the hello's
    closes,     \* calls of disconnect, so far
    aborted,    \* tasks that were aborted
    grace,      \* end_within_the_close_grace was spawned
    stalled,    \* the other end has stopped reading
    told,       \* history: the Ended events emitted
    broken      \* history: the socket failed, or the grace ran out

shared == <<session, ending, destroyed, queue>>
outside == <<sent, stalled, broken>>
asked == <<renames, closes>>
vars == <<phase, shared, lock, pc, pend, ends, sink, aborted, grace, told, outside,
          asked>>

None == "none"
Close == [kind |-> "close", number |-> 0, by |-> Socket]
Text(c) == [kind |-> "text", number |-> 0, by |-> c]
Binary(n, t) == [kind |-> "binary", number |-> n, by |-> t]

Init ==
    /\ phase = "new"
    /\ session = [number |-> 0, out |-> <<>>, ending |-> FALSE]
    /\ ending = None /\ destroyed = FALSE
    /\ lock = Free
    /\ pc = [t \in Threads |-> "off"]
    /\ pend = [t \in Threads |-> <<>>] /\ ends = {}
    /\ queue = <<>> /\ sink = Close /\ sent = 0 /\ renames = 0 /\ closes = 0
    /\ aborted = {} /\ grace = FALSE
    /\ stalled = FALSE /\ told = <<>> /\ broken = FALSE

----------------------------------------------------------------------------
(* host and join.                                                           *)

\* The address is read, refuse_tls, connect_async, and the hello; or not.
Dial ==
    /\ phase = "new"
    /\ phase' \in {"waiting", "refused"}
    /\ UNCHANGED <<asked, shared, lock, pc, pend, ends, sink, aborted, grace, told, outside>>

\* seating: frames that are not the reply are passed over; an error, a refusal,
\* the end of the socket or, for a join, another room than the invite's refuses.
\* So does HANDSHAKE_TIMEOUT, whatever was heard.
Refuse ==
    /\ phase = "waiting"
    /\ phase' = "refused"
    /\ UNCHANGED <<asked, shared, lock, pc, pend, ends, sink, aborted, grace, told, outside>>

\* start: both tasks run, and the thread that called ticks before it returns.
\* A host's first state is in the session's queue by then.
Seat ==
    /\ phase = "waiting"
    /\ phase' = "starting"
    /\ \E n \in {0, 1} \cap 0 .. MaxFrames :
          session' = [session EXCEPT !.number = n,
                                     !.out = [i \in 1 .. n |-> Binary(i, Opener)]]
    /\ pc' = [t \in Threads |-> IF t = Opener THEN "starting" ELSE "idle"]
    /\ UNCHANGED <<asked, ending, destroyed, queue, lock, pend, ends, sink, aborted,
                   grace, told, outside>>

----------------------------------------------------------------------------
(* What every mutation does.                                                *)

\* Mutant of Acquire: what was drained is pushed after the lock was released.
AcquireBriefly(t) == lock = Free /\ UNCHANGED lock

Acquire(t) == lock = Free /\ lock' = t
Release(t) == lock' = Free

\* Frames sealed under the numbers after high, behind others.
Sealed(o, high, n, t) == o \o [i \in 1 .. n |-> Binary(high + i, t)]

\* What a change may do to the session: seal frames under the next numbers, or
\* end it, with or without a last frame.  An ended session seals nothing.
Changes(t) ==
    {s \in {[number |-> session.number + n,
             out |-> Sealed(session.out, session.number, n, t),
             ending |-> e] :
            n \in IF session.ending THEN {0} ELSE 0 .. 2, e \in BOOLEAN} :
        /\ s.number <= MaxFrames
        /\ session.ending => s.ending
        /\ s # [session EXCEPT !.out = <<>>]}

\* moved, ticked, delivered and heard: the change and drain, under the lock.
Change(t) ==
    /\ Acquire(t)
    /\ \E s \in Changes(t) :
          /\ session' = [s EXCEPT !.out = <<>>]
          /\ pend' = [pend EXCEPT ![t] = s.out]
    /\ pc' = [pc EXCEPT ![t] = "pushing"]

\* queue and push: one frame, refused when the socket task has gone, and the
\* rest of them with it.
Push(t) ==
    /\ pc[t] = "pushing" /\ pend[t] # <<>>
    /\ IF pc[Socket] = "ended"
       THEN pend' = [pend EXCEPT ![t] = <<>>] /\ UNCHANGED queue
       ELSE /\ queue' = Append(queue, Head(pend[t]))
            /\ pend' = [pend EXCEPT ![t] = Tail(@)]
    /\ UNCHANGED <<asked, phase, session, ending, destroyed, lock, pc, ends, sink,
                   aborted, grace, told, outside>>

\* Mutant of Reports: an ending met after the disconnect is not told.
ReportsConnected == ending = None /\ session.ending /\ ~destroyed

\* report: the session's own ending, once.
Reports == ending = None /\ session.ending

After(t) == IF t = Clock THEN "checking" ELSE "idle"

\* report and the release of the lock.
Report(t) ==
    /\ pc[t] = "pushing" /\ pend[t] = <<>>
    /\ ending' = IF Reports THEN "own" ELSE ending
    /\ ends' = IF Reports THEN ends \cup {t} ELSE ends
    /\ Release(t)
    /\ pc' = [pc EXCEPT ![t] = IF Reports THEN "emitting" ELSE After(t)]
    /\ phase' = IF t \in Callers /\ ~Reports THEN "running" ELSE phase
    /\ UNCHANGED <<asked, session, destroyed, queue, pend, sink, aborted, grace,
                   told, outside>>

\* emit: the lock is not held.
Emit(t) ==
    /\ pc[t] = "emitting"
    /\ told' = IF t \in ends THEN Append(told, ending) ELSE told
    /\ ends' = ends \ {t}
    /\ pc' = [pc EXCEPT ![t] = After(t)]
    /\ phase' = IF t \in Callers THEN "running" ELSE phase
    /\ UNCHANGED <<asked, shared, lock, pend, sink, aborted, grace, outside>>

----------------------------------------------------------------------------
(* The caller's threads.                                                    *)

\* A thread has the session once start has returned.
Calls(c) == phase = "running" /\ pc[c] = "idle"

\* open, release, insert, listing_changed, close_room, and start's tick.
Call(c) ==
    /\ Calls(c) \/ pc[c] = "starting"
    /\ ~destroyed
    /\ Change(c)
    /\ UNCHANGED <<asked, phase, ending, destroyed, queue, ends, sink, aborted, grace,
                   told, outside>>

\* A first tick that publishes nothing.
StartReturns(c) ==
    /\ pc[c] = "starting" /\ lock = Free /\ session.out = <<>>
    /\ pc' = [pc EXCEPT ![c] = "idle"]
    /\ phase' = "running"
    /\ UNCHANGED <<asked, shared, lock, pend, ends, sink, aborted, grace, told,
                   outside>>

\* rename: the request is numbered under the lock and queued after it.
Rename(c) ==
    /\ Calls(c) /\ ~destroyed /\ lock = Free
    /\ renames < MaxRenames /\ renames' = renames + 1
    /\ pc' = [pc EXCEPT ![c] = "renaming"]
    /\ UNCHANGED <<closes, phase, shared, lock, pend, ends, sink, aborted, grace, told,
                   outside>>

SendText(c) ==
    /\ pc[c] = "renaming"
    /\ queue' = IF pc[Socket] = "ended" THEN queue ELSE Append(queue, Text(c))
    /\ pc' = [pc EXCEPT ![c] = "idle"]
    /\ UNCHANGED <<asked, phase, session, ending, destroyed, lock, pend, ends, sink,
                   aborted, grace, told, outside>>

\* disconnect, under the lock; it may be called again, and by two at once.
Disconnect(c) ==
    /\ Calls(c) /\ lock = Free
    /\ renames + closes < MaxCloses /\ closes' = closes + 1
    /\ destroyed' = TRUE
    /\ pc' = [pc EXCEPT ![c] = "closing"]
    /\ UNCHANGED <<renames, phase, session, ending, queue, lock, pend, ends, sink,
                   aborted, grace, told, outside>>

\* Mutant of CloseQueue: the socket task is aborted where it stands.
CloseAborting(c) ==
    /\ pc[c] = "closing"
    /\ aborted' = aborted \cup {Clock, Socket}
    /\ grace' = TRUE
    /\ pc' = [pc EXCEPT ![c] = "idle"]
    /\ UNCHANGED <<asked, phase, session, ending, destroyed, queue, lock, pend, ends,
                   sink, told, outside>>

\* The rest of disconnect: the clock is aborted, a Close queued and, by the first
\* that is here, the drain bounded; outside a runtime, the socket task is aborted.
CloseQueue(c) ==
    /\ pc[c] = "closing"
    /\ queue' = IF pc[Socket] = "ended" THEN queue ELSE Append(queue, Close)
    /\ LET first == ~grace /\ Socket \notin aborted
       IN  \/ first /\ aborted' = aborted \cup {Clock} /\ grace' = TRUE /\ UNCHANGED broken
           \/ first /\ aborted' = aborted \cup {Clock, Socket} /\ broken' = TRUE /\ UNCHANGED grace
           \/ ~first /\ UNCHANGED <<aborted, grace, broken>>
    /\ pc' = [pc EXCEPT ![c] = "idle"]
    /\ UNCHANGED <<asked, phase, session, ending, destroyed, lock, pend, ends, sink,
                   told, sent, stalled>>

----------------------------------------------------------------------------
(* The clock task.                                                          *)

\* tick_once; a tick of a session that is over is not one.
ClockTicks ==
    /\ pc[Clock] = "idle" /\ Clock \notin aborted
    /\ IF destroyed \/ ending # None
       THEN /\ lock = Free
            /\ pc' = [pc EXCEPT ![Clock] = "checking"]
            /\ UNCHANGED <<session, lock, pend>>
       ELSE Change(Clock)
    /\ UNCHANGED <<asked, phase, ending, destroyed, queue, ends, sink, aborted, grace,
                   told, outside>>

\* A queue that is gone refused a frame, or would.
ClockOver == destroyed \/ ending # None

ClockChecks ==
    /\ pc[Clock] = "checking" /\ lock = Free
    /\ \/ ClockOver /\ pc' = [pc EXCEPT ![Clock] = "ended"]
       \/ ~ClockOver /\ pc' = [pc EXCEPT ![Clock] = "idle"]
    /\ UNCHANGED <<asked, phase, shared, lock, pend, ends, sink, aborted, grace, told,
                   outside>>

\* An abort takes a task at an await; the other steps run to the next one.
AbortTask(t) ==
    /\ t \in aborted
    /\ pc[t] \in {"idle", "sending"}
    /\ pc' = [pc EXCEPT ![t] = "ended"]
    /\ queue' = IF t = Socket THEN <<>> ELSE queue
    /\ UNCHANGED <<asked, phase, session, ending, destroyed, lock, pend, ends, sink,
                   aborted, grace, told, outside>>

----------------------------------------------------------------------------
(* The socket task.                                                         *)

\* deliver and hear, which look at neither destroyed nor ending.
Receive ==
    /\ pc[Socket] = "idle" /\ Socket \notin aborted
    /\ Change(Socket)
    /\ UNCHANGED <<asked, phase, ending, destroyed, queue, ends, sink, aborted, grace,
                   told, outside>>

\* hear: room.gone.  After another ending it changes nothing.
HearGone ==
    /\ pc[Socket] = "idle" /\ Socket \notin aborted /\ ending = None
    /\ Acquire(Socket)
    /\ session' = [session EXCEPT !.out = <<>>]
    /\ pend' = [pend EXCEPT ![Socket] = session.out]
    /\ pc' = [pc EXCEPT ![Socket] = "pushing"]
    /\ ending' = "gone"
    /\ UNCHANGED <<asked, phase, destroyed, queue, ends, sink, aborted, grace,
                   told, outside>>

\* incoming.recv: a frame on its way out.
TakeFrame ==
    /\ pc[Socket] = "idle" /\ Socket \notin aborted /\ queue # <<>>
    /\ sink' = Head(queue) /\ queue' = Tail(queue)
    /\ pc' = [pc EXCEPT ![Socket] = IF Head(queue) = Close THEN "closed" ELSE "sending"]
    /\ UNCHANGED <<asked, phase, session, ending, destroyed, lock, pend, ends, aborted,
                   grace, told, outside>>

SendFrame ==
    /\ pc[Socket] = "sending" /\ ~stalled
    /\ sent' = IF sink.kind = "binary" THEN sink.number ELSE sent
    /\ pc' = [pc EXCEPT ![Socket] = "idle"]
    /\ UNCHANGED <<asked, phase, shared, lock, pend, ends, sink, aborted, grace, told,
                   stalled, broken>>

\* The stream ends or errs, or a send fails.
SocketFails ==
    /\ pc[Socket] \in {"idle", "sending"} /\ Socket \notin aborted
    /\ broken' = TRUE
    /\ pc' = [pc EXCEPT ![Socket] = "closed"]
    /\ UNCHANGED <<asked, phase, shared, lock, pend, ends, sink, aborted, grace, told,
                   sent, stalled>>

\* Mutant of SocketEnds: the room is what ended it, whatever has before.
SocketEndsAnyway ==
    /\ pc[Socket] = "closed" /\ lock = Free
    /\ ending' = IF destroyed THEN ending ELSE "gone"
    /\ pc' = [pc EXCEPT ![Socket] = "ended"]
    /\ queue' = <<>>
    /\ UNCHANGED <<asked, phase, session, destroyed, lock, pend, ends, sink, aborted,
                   grace, told, outside>>
\* closed, then the end of the task: unless the caller asked for it, the room is
\* what ended the session.  report finds an ending and tells none.
SocketEnds ==
    /\ pc[Socket] = "closed" /\ lock = Free
    /\ ending' = IF destroyed \/ ending # None THEN ending ELSE "gone"
    /\ pc' = [pc EXCEPT ![Socket] = "ended"]
    /\ queue' = <<>>
    /\ UNCHANGED <<asked, phase, session, destroyed, lock, pend, ends, sink, aborted,
                   grace, told, outside>>

Stall ==
    /\ pc[Socket] = "sending" /\ ~stalled
    /\ stalled' = TRUE
    /\ UNCHANGED <<asked, phase, shared, lock, pc, pend, ends, sink, aborted, grace, told,
                   sent, broken>>

\* Mutant of GraceEnds: the drain is not bounded.
NoGrace == FALSE

\* end_within_the_close_grace: a drain that is not over in CLOSE_GRACE, which one
\* that the other end reads is.
GraceEnds ==
    /\ grace /\ stalled /\ pc[Socket] # "ended" /\ Socket \notin aborted
    /\ aborted' = aborted \cup {Socket}
    /\ broken' = TRUE
    /\ UNCHANGED <<asked, phase, shared, lock, pc, pend, ends, sink, grace, told, sent,
                   stalled>>

----------------------------------------------------------------------------
\* The steps that a thread takes once it has begun something.
Proceed ==
    \/ \E t \in Threads : Push(t) \/ Report(t) \/ Emit(t)
    \/ \E c \in Callers : SendText(c) \/ CloseQueue(c)
    \/ ClockChecks
    \/ AbortTask(Clock) \/ AbortTask(Socket)
    \/ SocketEnds

Next ==
    \/ Dial \/ Refuse \/ Seat
    \/ \E c \in Callers :
          Call(c) \/ StartReturns(c) \/ Rename(c) \/ Disconnect(c)
    \/ Proceed
    \/ ClockTicks
    \/ Receive \/ HearGone \/ TakeFrame \/ SendFrame \/ SocketFails \/ Stall
    \/ GraceEnds

Spec == Init /\ [][Next]_vars

\* Threads and tasks are scheduled, timers fire, and a select takes the branch of
\* a queue that is never empty.
Fairness ==
    /\ WF_vars(Refuse)
    /\ WF_vars(Proceed)
    /\ WF_vars(ClockTicks /\ ClockOver)
    /\ SF_vars(TakeFrame)
    /\ WF_vars(SendFrame)
    /\ WF_vars(GraceEnds)

FairSpec == Spec /\ Fairness

----------------------------------------------------------------------------
IsBinary(f) == f.kind = "binary"
Sending == IF pc[Socket] = "sending" THEN <<sink>> ELSE <<>>
Leaving == Sending \o queue

\* Frames leave in the order of their numbers, whichever threads sealed them: a
\* receiver refuses a number at or below its mark (Relay::queue).
NumbersLeaveInOrder ==
    \A j \in DOMAIN Leaving : IsBinary(Leaving[j]) =>
        /\ sent < Leaving[j].number
        /\ \A i \in 1 .. j - 1 : IsBinary(Leaving[i]) => Leaving[i].number < Leaving[j].number

\* What was queued before the Close is sent, a closing in one breath with the
\* disconnect among it, unless the socket breaks or stalls (disconnect, socket_loop).
QueuedFramesAreSent ==
    \A n \in 1 .. MaxFrames :
        LET Ahead == \E i \in DOMAIN queue :
                        /\ queue[i].number = n /\ pc[Socket] # "closed"
                        /\ \A j \in 1 .. i : queue[j] # Close
        IN  Ahead ~> broken \/ stalled \/ sent >= n

\* The handshake and a session do not outlive their end: a dial is refused or
\* seated, the clock ends with the session, and both tasks with a disconnect,
\* although the other end may have stopped reading.
TasksEnd ==
    /\ phase = "waiting" ~> phase # "waiting"
    /\ ending # None ~> pc[Clock] = "ended"
    /\ destroyed ~> pc[Clock] = "ended" /\ pc[Socket] = "ended"

\* The session's own ending is told, once, whichever thread met it and however
\* the disconnect fell, unless the room's was there before (report).
EndingsAreTold == session.ending ~> told = <<"own">> \/ ending = "gone"

\* A session ends in order: a disconnect ends both tasks, and not before what was
\* queued ahead of it has left, and the session's own ending reaches the caller
\* (disconnect, socket_loop, clock, dial, report).
EndsInOrder == QueuedFramesAreSent /\ TasksEnd /\ EndingsAreTold

\* Until it is told, the session's own ending has a thread that will: the one that
\* still holds the lock, then the one that reported it and has let the lock go.  It
\* is told by that one alone, and an ending that came otherwise is not told as the
\* session's (report, emit).
EndingsHaveATeller ==
    /\ session.ending => ending # None \/ \E t \in Threads : pc[t] = "pushing"
    /\ ending = "own" => /\ session.ending
                         /\ \/ told = <<"own">> /\ ends = {}
                            \/ told = <<>> /\ \E t \in Threads : ends = {t} /\ pc[t] = "emitting"
    /\ ending # "own" => told = <<>> /\ ends = {}

\* relay.rs, RelayEvent::Ended: "The session ended, by section 13.10's rule or the
\* relay's."
EndedIsTold == ending # None ~> told # <<>>
=============================================================================
