----------------------------- MODULE Connection -----------------------------
(***************************************************************************)
(* The life of the server's connections (selvaged/src/net/mod.rs): the     *)
(* request head, the shared count of slots, the handshake, the turn loop   *)
(* with its pings, the writer task that drains the queue, and the end.     *)
(*                                                                         *)
(* What a session does with its frames is the business of Selvaged; here   *)
(* an inbound frame is answered, is a Pong, is past the budget (see        *)
(* InboundBudget) or ends the stream, and the room is an environment that  *)
(* queues frames for the connection and ejects it when one does not fit.   *)
(***************************************************************************)
EXTENDS Integers, Sequences, FiniteSets

CONSTANTS
    Conns,           \* sockets the listener accepted
    MaxConnections,  \* --max-connections
    MaxMissedPings,  \* MAX_MISSED_PINGS
    MaxQueueFrames,  \* what fits in a queue: MAX_QUEUE_FRAMES, or its bytes
    Serves,          \* bound: what a connection may ask for, of Requests
    MaxPongs         \* bound: answers under way; a client may skip older pings

\* A plain answer small enough for a socket's buffer, a page, or an upgrade.
Requests == {"status", "page", "session"}

ASSUME ConnectionAssumption ==
    /\ IsFiniteSet(Conns)
    /\ MaxConnections \in Nat
    /\ MaxMissedPings \in Nat
    /\ MaxQueueFrames \in Nat \ {0}
    /\ Serves \subseteq Requests
    /\ MaxPongs \in Nat \ {0}

VARIABLES
    count,      \* Shared.connections
    stage,      \* where the connection's task is, see Stages
    queue,      \* the receiver of Queue::channel: frames queued, not taken
    writer,     \* write_outbound, see Writers
    sending,    \* the frame it is writing
    senders,    \* who still holds a Sender of that channel
    taken,      \* the turn loop has polled the writer's JoinHandle to its end
    missed,     \* Live.missed_pings
    poisoned,   \* the registry dropped its poison sender
    alive,      \* the client is there: it reads, and answers the pings it reads
    pongs       \* answers under way

connection == <<count, stage>>
transport == <<queue, writer, sending, senders, taken>>
pinging == <<missed, pongs>>
vars == <<connection, transport, pinging, poisoned, alive>>

\* head: reading the request.  over: the count said full, not given back yet.
\* routed: admitted.  status, page: answering plain HTTP.  hello: handshake.
\* pump: the turn loop.  leaving: out of it.  joining: join_writer.  turned,
\* done: the task is over.
Stages == {"head", "over", "routed", "status", "page", "hello", "pump", "leaving",
           "joining", "turned", "done"}
Writers == {"none", "idle", "sending", "finished", "aborted"}

\* Those with a Slot, and those the counter counts without one.
Holders == {c \in Conns : stage[c] \notin {"head", "over", "turned", "done"}}
Passing == {c \in Conns : stage[c] = "over"}

Enter(c, s) == stage' = [stage EXCEPT ![c] = s]

----------------------------------------------------------------------------
(* The head, and the slots *)

\* The head timed out, was too large, or the client went away: no slot yet.
HeadFails(c) ==
    /\ stage[c] = "head"
    /\ Enter(c, "done")
    /\ UNCHANGED <<count, transport, pinging, poisoned, alive>>

\* Mutant of Admit: the cap itself is admitted too.
AdmitOneMore(c) ==
    /\ stage[c] = "head"
    /\ count' = count + 1
    /\ Enter(c, IF count > MaxConnections THEN "over" ELSE "routed")
    /\ UNCHANGED <<transport, pinging, poisoned, alive>>

\* fetch_add, and what the count was before it.
Admit(c) ==
    /\ stage[c] = "head"
    /\ count' = count + 1
    /\ Enter(c, IF count >= MaxConnections THEN "over" ELSE "routed")
    /\ UNCHANGED <<transport, pinging, poisoned, alive>>

\* Past the cap the count is given back and refuse_full answers, holding nothing.
RefuseFull(c) ==
    /\ stage[c] = "over"
    /\ count' = count - 1
    /\ Enter(c, "turned")
    /\ UNCHANGED <<transport, pinging, poisoned, alive>>

\* Mutant of Release: the slot is forgotten on the way out.
ReleaseForgets(c) == Enter(c, "done") /\ UNCHANGED count

\* Slot::drop, wherever the connection's task returns from.
Release(c) ==
    /\ count' = count - 1
    /\ Enter(c, "done")

\* Anything but a session is answered on the socket and done with; only a page
\* is large enough to wait for its reader.  An upgrade that fails is silence.
AnswerPlain(c) ==
    /\ stage[c] = "routed"
    /\ \E s \in Serves \cap {"status", "page"} : Enter(c, s)
    /\ UNCHANGED <<count, transport, pinging, poisoned, alive>>

PlainAnswered(c) ==
    /\ stage[c] \in {"status", "page"}
    /\ stage[c] = "page" => alive[c]
    /\ Release(c)
    /\ UNCHANGED <<transport, pinging, poisoned, alive>>

----------------------------------------------------------------------------
(* The queue and its writer *)

\* write_outbound has returned or was aborted: nothing more can be queued.
Gone(c) == writer[c] \in {"finished", "aborted"}

Fits(c, q) == ~Gone(c) /\ Len(q) < MaxQueueFrames

\* try_queue: the queue with f behind it, or as it was.
Offer(c, q, f) == IF Fits(c, q) THEN Append(q, f) ELSE q

\* rx.recv() returns a frame.
Take(c) ==
    /\ writer[c] = "idle"
    /\ queue[c] # <<>>
    /\ writer' = [writer EXCEPT ![c] = "sending"]
    /\ sending' = [sending EXCEPT ![c] = Head(queue[c])]
    /\ queue' = [queue EXCEPT ![c] = Tail(@)]
    /\ UNCHANGED <<connection, senders, taken, pinging, poisoned, alive>>

\* The send completes.  A close ends the writer; a ping that a client reads is
\* answered.  A dead client's kernel may still take a frame, or not.
Sent(c) ==
    /\ writer[c] = "sending"
    /\ writer' = [writer EXCEPT ![c] =
                    IF sending[c] = "close" THEN "finished" ELSE "idle"]
    /\ queue' = IF sending[c] = "close" THEN [queue EXCEPT ![c] = <<>>] ELSE queue
    /\ sending' = [sending EXCEPT ![c] = "nothing"]
    /\ pongs' = [pongs EXCEPT ![c] =
                   IF sending[c] = "ping" /\ alive[c] /\ @ < MaxPongs
                   THEN @ + 1 ELSE @]
    /\ UNCHANGED <<connection, senders, taken, missed, poisoned, alive>>

\* The send fails, once the client is gone.
SendFails(c) ==
    /\ writer[c] = "sending"
    /\ ~alive[c]
    /\ writer' = [writer EXCEPT ![c] = "finished"]
    /\ sending' = [sending EXCEPT ![c] = "nothing"]
    /\ queue' = [queue EXCEPT ![c] = <<>>]
    /\ UNCHANGED <<connection, senders, taken, pinging, poisoned, alive>>

\* rx.recv() is None: drained, and the last sender gone.
Drained(c) ==
    /\ writer[c] = "idle"
    /\ queue[c] = <<>> /\ senders[c] = {}
    /\ writer' = [writer EXCEPT ![c] = "finished"]
    /\ UNCHANGED <<connection, queue, sending, senders, taken, pinging,
                   poisoned, alive>>

----------------------------------------------------------------------------
(* The handshake *)

\* The upgrade is answered and Wire::new starts the writer.
Upgrade(c) ==
    /\ stage[c] = "routed"
    /\ "session" \in Serves
    /\ Enter(c, "hello")
    /\ writer' = [writer EXCEPT ![c] = "idle"]
    /\ senders' = [senders EXCEPT ![c] = {"wire"}]
    /\ UNCHANGED <<count, queue, sending, taken, pinging, poisoned, alive>>

\* refuse, for whatever handshake or seat made of the hello, the hello that
\* never came included: the error and a close are queued, the queue dropped.
Refuse(c) ==
    /\ stage[c] = "hello"
    /\ queue' = [queue EXCEPT ![c] = Offer(c, Offer(c, @, "text"), "close")]
    /\ senders' = [senders EXCEPT ![c] = {}]
    /\ Enter(c, "joining")
    /\ UNCHANGED <<count, writer, sending, taken, pinging, poisoned, alive>>

\* Seated: the reply is queued; the registry and the session hold senders too.
Seat(c) ==
    /\ stage[c] = "hello"
    /\ alive[c]
    /\ queue' = [queue EXCEPT ![c] = Offer(c, @, "text")]
    /\ senders' = [senders EXCEPT ![c] = {"wire", "registry", "session"}]
    /\ Enter(c, "pump")
    /\ UNCHANGED <<count, writer, sending, taken, pinging, poisoned, alive>>

----------------------------------------------------------------------------
(* The turn loop *)

\* pump breaks, whichever branch said so.
Break(c) == Enter(c, "leaving")

\* Mutant of Heartbeat: a peer is never given up.
HeartbeatOnly(c) ==
    /\ stage[c] = "pump"
    /\ missed[c] <= MaxMissedPings
    /\ missed' = [missed EXCEPT ![c] = @ + 1]
    /\ queue' = [queue EXCEPT ![c] = Offer(c, @, "ping")]
    /\ UNCHANGED <<stage, count, writer, sending, senders, taken, pongs,
                   poisoned, alive>>

\* ping.tick(): Live::heartbeat.
Heartbeat(c) ==
    /\ stage[c] = "pump"
    /\ missed' = [missed EXCEPT ![c] = @ + 1]
    /\ \/ /\ missed[c] + 1 > MaxMissedPings
          /\ Break(c)
          /\ UNCHANGED queue
       \/ /\ missed[c] + 1 <= MaxMissedPings
          /\ queue' = [queue EXCEPT ![c] = Offer(c, @, "ping")]
          /\ UNCHANGED stage
    /\ UNCHANGED <<count, writer, sending, senders, taken, pongs, poisoned,
                   alive>>

\* select!'s branch on the writer: its output is taken.
WriterEnds(c) ==
    /\ stage[c] = "pump"
    /\ writer[c] = "finished"
    /\ taken' = [taken EXCEPT ![c] = TRUE]
    /\ Break(c)
    /\ UNCHANGED <<count, queue, writer, sending, senders, pinging, poisoned,
                   alive>>

\* select!'s branch on the poison channel.
Poisoned(c) ==
    /\ stage[c] = "pump"
    /\ poisoned[c]
    /\ Break(c)
    /\ UNCHANGED <<count, transport, pinging, poisoned, alive>>

\* Live::handle on a Pong.
Pong(c) ==
    /\ stage[c] = "pump"
    /\ pongs[c] > 0
    /\ pongs' = [pongs EXCEPT ![c] = @ - 1]
    /\ missed' = [missed EXCEPT ![c] = 0]
    /\ UNCHANGED <<connection, transport, poisoned, alive>>

\* Live::handle on a request: it is answered.  An answer that does not fit has
\* the session removed from its room, see Selvaged's Request.
Answer(c) ==
    /\ stage[c] = "pump"
    /\ alive[c]
    /\ queue' = [queue EXCEPT ![c] = Offer(c, @, "text")]
    /\ poisoned' = [poisoned EXCEPT ![c] = @ \/ ~Fits(c, queue[c])]
    /\ senders' = [senders EXCEPT ![c] =
                     IF Fits(c, queue[c]) THEN @ ELSE @ \ {"registry"}]
    /\ UNCHANGED <<connection, writer, sending, taken, pinging, alive>>

\* Live::handle past the budget: over_budget queues the error and the close.
OverBudget(c) ==
    /\ stage[c] = "pump"
    /\ alive[c]
    /\ queue' = [queue EXCEPT ![c] = Offer(c, Offer(c, @, "text"), "close")]
    /\ Break(c)
    /\ UNCHANGED <<count, writer, sending, senders, taken, pinging, poisoned,
                   alive>>

\* Live::handle on the end of the stream, or an error of it.
StreamEnds(c) ==
    /\ stage[c] = "pump"
    /\ Break(c)
    /\ UNCHANGED <<count, transport, pinging, poisoned, alive>>

\* Another task of the room snapshots this peer's queue under the lock ...
RoomSnapshots(c) ==
    /\ "registry" \in senders[c]
    /\ senders' = [senders EXCEPT ![c] = @ \cup {"room"}]
    /\ UNCHANGED <<connection, queue, writer, sending, taken, pinging,
                   poisoned, alive>>

\* ... and sends through it, whatever has become of the peer meanwhile.  One
\* whose queue does not take the frame is ejected, if it still has its seat.
RoomSends(c) ==
    /\ "room" \in senders[c]
    /\ queue' = [queue EXCEPT ![c] = Offer(c, @, "text")]
    /\ LET ejected == ~Fits(c, queue[c]) /\ "registry" \in senders[c] IN
       /\ poisoned' = [poisoned EXCEPT ![c] = @ \/ ejected]
       /\ senders' = [senders EXCEPT ![c] =
                        @ \ IF ejected THEN {"room", "registry"} ELSE {"room"}]
    /\ UNCHANGED <<connection, writer, sending, taken, pinging, alive>>

----------------------------------------------------------------------------
(* The end *)

\* `leave` has the registry let go of the queue, drive drops the wire's; the
\* session, and the sender in it, lives until drive returns.
Leave(c) ==
    /\ stage[c] = "leaving"
    /\ senders' = [senders EXCEPT ![c] = @ \ {"registry", "wire"}]
    /\ Enter(c, "joining")
    /\ UNCHANGED <<count, queue, writer, sending, taken, pinging, poisoned,
                   alive>>

\* Mutant of Polls: join_writer does not ask whether the writer is finished.
PollsAnyway(c) == stage[c] = "joining"

\* join_writer has to wait: it polls the JoinHandle.
Polls(c) == stage[c] = "joining" /\ writer[c] # "finished"

\* join_writer returns at once, or its wait ends with the writer.
Joined(c) ==
    /\ stage[c] = "joining"
    /\ writer[c] = "finished"
    /\ senders' = [senders EXCEPT ![c] = @ \ {"session"}]
    /\ Release(c)
    /\ UNCHANGED <<queue, writer, sending, taken, pinging, poisoned, alive>>

\* WRITER_GRACE passes first: the writer is aborted, the socket goes with it.
GraceOver(c) ==
    /\ Polls(c)
    /\ writer' = [writer EXCEPT ![c] = "aborted"]
    /\ sending' = [sending EXCEPT ![c] = "nothing"]
    /\ queue' = [queue EXCEPT ![c] = <<>>]
    /\ senders' = [senders EXCEPT ![c] = @ \ {"session"}]
    /\ Release(c)
    /\ UNCHANGED <<taken, pinging, poisoned, alive>>

\* The client goes away without a word, or stops reading for good.
Dies(c) ==
    /\ alive[c]
    /\ alive' = [alive EXCEPT ![c] = FALSE]
    /\ UNCHANGED <<connection, transport, pinging, poisoned>>

----------------------------------------------------------------------------
Init ==
    /\ count = 0
    /\ stage = [c \in Conns |-> "head"]
    /\ queue = [c \in Conns |-> <<>>]
    /\ writer = [c \in Conns |-> "none"]
    /\ sending = [c \in Conns |-> "nothing"]
    /\ senders = [c \in Conns |-> {}]
    /\ taken = [c \in Conns |-> FALSE]
    /\ missed = [c \in Conns |-> 0]
    /\ poisoned = [c \in Conns |-> FALSE]
    /\ alive = [c \in Conns |-> TRUE]
    /\ pongs = [c \in Conns |-> 0]

\* What the connection's task does by itself, with the timers it runs on.
TaskStep(c) ==
    \/ Admit(c) \/ RefuseFull(c) \/ AnswerPlain(c) \/ PlainAnswered(c) \/ Upgrade(c)
    \/ Refuse(c) \/ WriterEnds(c) \/ Poisoned(c)
    \/ Leave(c) \/ Joined(c) \/ GraceOver(c)

WriterStep(c) == Take(c) \/ Drained(c)

Next ==
    \E c \in Conns :
        \/ HeadFails(c) \/ TaskStep(c) \/ WriterStep(c) \/ Sent(c) \/ SendFails(c)
        \/ Heartbeat(c) \/ Pong(c) \/ Answer(c) \/ OverBudget(c) \/ StreamEnds(c)
        \/ Seat(c) \/ RoomSnapshots(c) \/ RoomSends(c) \/ Dies(c)

Spec == Init /\ [][Next]_vars

\* Ready tasks are polled; hello_timeout, WRITER_GRACE and the ping interval
\* pass.  Nothing is promised of a client, nor of the kernel under it.
Fairness ==
    \A c \in Conns :
        WF_vars(TaskStep(c)) /\ WF_vars(WriterStep(c)) /\ WF_vars(Heartbeat(c))

FairSpec == Spec /\ Fairness

----------------------------------------------------------------------------
TypeOK ==
    /\ count \in Nat
    /\ stage \in [Conns -> Stages]
    /\ queue \in [Conns -> Seq({"text", "ping", "close"})]
    /\ writer \in [Conns -> Writers]
    /\ sending \in [Conns -> {"nothing", "text", "ping", "close"}]
    /\ senders \in [Conns -> SUBSET {"wire", "registry", "session", "room"}]
    /\ taken \in [Conns -> BOOLEAN]
    /\ missed \in [Conns -> Nat]
    /\ poisoned \in [Conns -> BOOLEAN]
    /\ alive \in [Conns -> BOOLEAN]
    /\ pongs \in [Conns -> Nat]

\* --max-connections holds: however heads arrive and connections end, no more
\* than the cap is ever past its head, though the count itself may overshoot.
SlotsBounded == Cardinality(Holders) <= MaxConnections

\* Every slot is given back exactly once, on whichever path a connection ends:
\* the count is the slots held and the refusals that have not taken theirs back.
CountIsHeld == count = Cardinality(Holders) + Cardinality(Passing)

\* The JoinHandle is never polled again once the turn loop took its output,
\* which would panic (join_writer's first test).
NeverPolledTwice == \A c \in Conns : Polls(c) => ~taken[c]

\* A client that is gone does not keep its session: pings, the hello timeout and
\* WRITER_GRACE see to it, whatever its socket and the room do meanwhile.
DeadSessionsEnd ==
    \A c \in Conns :
        stage[c] \in {"hello", "pump", "leaving", "joining"} /\ ~alive[c]
            ~> stage[c] = "done"
=============================================================================
