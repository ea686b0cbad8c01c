--------------------------- MODULE OutboundQueue ---------------------------
(***************************************************************************)
(* One peer's outbound queue (Queue of selvaged/src/room.rs) at the grain  *)
(* of its atomic operations: any number of tasks queue frames through it   *)
(* with no lock held, the writer (write_outbound of net/mod.rs) drains it. *)
(* The byte count and the channel are two separate shared objects, so a    *)
(* frame is reserved, sent and given back in steps others interleave with. *)
(* The rest of the project treats try_queue as one step.                   *)
(*                                                                         *)
(* A frame is its payload length; that of a ping is 0.                     *)
(***************************************************************************)
EXTENDS Integers, Sequences, FiniteSets

CONSTANTS
    Tasks,      \* who queues: the rooms' deliveries, the peer's own task
    Lens,       \* payload lengths
    MaxBytes,   \* --outbound-queue-bytes
    MaxQueued,  \* MAX_QUEUE_FRAMES
    MaxTries    \* bound: frames one task queues

ASSUME QueueAssumption ==
    /\ Lens \subseteq Nat
    /\ MaxBytes \in Nat
    /\ MaxQueued \in Nat \ {0}
    /\ MaxTries \in Nat

VARIABLES
    queued,   \* Queue.queued
    chan,     \* the bounded channel
    writer,   \* "recv", "send" or "gone"
    writing,  \* the length of the frame being sent, 0 when there is none
    at,       \* task -> where in try_queue it is
    len,      \* task -> the frame it is queueing
    tries,    \* task -> frames it has tried
    spilled   \* history: bytes that were queued or being sent as the writer went

queueVars == <<queued, chan, writer, writing, at, len, tries, spilled>>

\* out: not in try_queue.  reserved: fetch_update succeeded.  refused: try_send
\* failed, the reservation is still counted.  slow: try_queue said false.
QueuePlaces == {"out", "reserved", "refused", "slow"}

\* The bytes of a family of frames: the b-th of the i-th frame.
BytesOf(frames) == UNION {{i} \X (1 .. frames[i]) : i \in DOMAIN frames}

\* What the channel holds, and what tasks hold between the two objects.
InChannel == Cardinality(BytesOf(chan))
Hand == [t \in {u \in Tasks : at[u] \in {"reserved", "refused"}} |-> len[t]]
InHand == Cardinality(BytesOf(Hand))

----------------------------------------------------------------------------

\* fetch_update: all or nothing.
Reserve(t, n) ==
    /\ at[t] = "out" /\ tries[t] < MaxTries
    /\ tries' = [tries EXCEPT ![t] = @ + 1]
    /\ len' = [len EXCEPT ![t] = n]
    /\ \/ /\ queued + n <= MaxBytes
          /\ queued' = queued + n
          /\ at' = [at EXCEPT ![t] = "reserved"]
       \/ /\ queued + n > MaxBytes
          /\ at' = [at EXCEPT ![t] = "slow"]
          /\ UNCHANGED queued
    /\ UNCHANGED <<chan, writer, writing, spilled>>

\* Mutant of TrySend: the reservation outlives the frame the channel refused.
TrySendKeeps(t) ==
    /\ at[t] = "reserved"
    /\ \/ /\ writer # "gone" /\ Len(chan) < MaxQueued
          /\ chan' = Append(chan, len[t])
          /\ at' = [at EXCEPT ![t] = "out"]
       \/ /\ ~(writer # "gone" /\ Len(chan) < MaxQueued)
          /\ at' = [at EXCEPT ![t] = "slow"]
          /\ UNCHANGED chan
    /\ UNCHANGED <<queued, writer, writing, len, tries, spilled>>

\* tx.try_send: the channel takes the frame, or is full, or closed.
TrySend(t) ==
    /\ at[t] = "reserved"
    /\ \/ /\ writer # "gone" /\ Len(chan) < MaxQueued
          /\ chan' = Append(chan, len[t])
          /\ at' = [at EXCEPT ![t] = "out"]
       \/ /\ ~(writer # "gone" /\ Len(chan) < MaxQueued)
          /\ at' = [at EXCEPT ![t] = "refused"]
          /\ UNCHANGED chan
    /\ UNCHANGED <<queued, writer, writing, len, tries, spilled>>

\* The reservation of a frame the channel refused is given back.
GiveBack(t) ==
    /\ at[t] = "refused"
    /\ queued' = queued - len[t]
    /\ at' = [at EXCEPT ![t] = "slow"]
    /\ UNCHANGED <<chan, writer, writing, len, tries, spilled>>

\* The caller has seen the verdict and moves on; what it does with a slow peer
\* is Selvaged's Eject.
MoveOn(t) ==
    /\ at[t] = "slow"
    /\ at' = [at EXCEPT ![t] = "out"]
    /\ UNCHANGED <<queued, chan, writer, writing, len, tries, spilled>>

----------------------------------------------------------------------------
\* rx.recv().
Recv ==
    /\ writer = "recv" /\ chan # <<>>
    /\ writer' = "send"
    /\ writing' = Head(chan)
    /\ chan' = Tail(chan)
    /\ UNCHANGED <<queued, at, len, tries, spilled>>

\* sink.send completed: the frame's bytes are given back.
Sent ==
    /\ writer = "send"
    /\ writer' = "recv"
    /\ writing' = 0
    /\ queued' = queued - writing
    /\ UNCHANGED <<chan, at, len, tries, spilled>>

\* The send failed, or it was the close: this frame's bytes are given back, and
\* the frames behind it go with the receiver, counted for ever.
Ends ==
    /\ writer = "send"
    /\ writer' = "gone"
    /\ queued' = queued - writing
    /\ spilled' = InChannel
    /\ writing' = 0
    /\ chan' = <<>>
    /\ UNCHANGED <<at, len, tries>>

\* join_writer aborts it, in its send or waiting for a frame.
Aborted ==
    /\ writer # "gone"
    /\ writer' = "gone"
    /\ spilled' = InChannel + writing
    /\ writing' = 0
    /\ chan' = <<>>
    /\ UNCHANGED <<queued, at, len, tries>>

QueueInit ==
    /\ queued = 0
    /\ chan = <<>>
    /\ writer = "recv"
    /\ writing = 0
    /\ at = [t \in Tasks |-> "out"]
    /\ len = [t \in Tasks |-> 0]
    /\ tries = [t \in Tasks |-> 0]
    /\ spilled = 0

QueueNext ==
    \/ \E t \in Tasks, n \in Lens : Reserve(t, n)
    \/ \E t \in Tasks : TrySend(t) \/ GiveBack(t) \/ MoveOn(t)
    \/ Recv \/ Sent \/ Ends \/ Aborted

QueueSpec == QueueInit /\ [][QueueNext]_queueVars

----------------------------------------------------------------------------

\* "the byte count tracks what is still held for the peer" (write_outbound) and is
\* "never above the cap" (queued_bytes): between any two atomic operations the
\* counter is exactly what is in the channel, being written, in a task's hand, or
\* was lost with the writer.  So it can neither wrap below zero nor creep up to
\* the cap of a peer that reads.
CountIsHeld ==
    /\ queued = InChannel + writing + InHand + spilled
    /\ queued <= MaxBytes

=============================================================================
