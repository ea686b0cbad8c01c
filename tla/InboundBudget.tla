--------------------------- MODULE InboundBudget ---------------------------
(***************************************************************************)
(* One connection's inbound budget (selvaged/src/budget.rs) and the two    *)
(* places that charge it: the handshake loop `next_text` of                *)
(* net/session.rs and the turn loop's `Live::handle` of net/mod.rs.        *)
(*                                                                         *)
(* Time is measured in the code's own unit, the nanosecond.  The budget    *)
(* looks at the clock only when a frame arrives, so a step is "a frame     *)
(* arrives dt nanoseconds after the one before it".  The widths (u64, and  *)
(* u128 for the product) cannot be reached by any real clock and rate, so  *)
(* the arithmetic is over Nat; its two truncating divisions are kept.      *)
(***************************************************************************)
EXTENDS Integers

CONSTANTS
    NanosPerSec,  \* NANOS_PER_SEC
    FrameCost,    \* FRAME_COST_BYTES: the least a frame is charged
    RatePerSec,   \* --inbound-bytes-per-sec; 0 never refills
    Capacity,     \* --inbound-burst-bytes
    Payloads,     \* the payload lengths a frame may have
    MaxGap,       \* bound: the longest silence between two frames
    MaxFrames     \* bound: the frames one connection sends

ASSUME BudgetAssumption ==
    /\ NanosPerSec \in Nat \ {0}
    /\ FrameCost \in Nat
    /\ RatePerSec \in Nat
    /\ Capacity \in Nat
    /\ Payloads \subseteq Nat
    /\ MaxGap \in Nat
    /\ MaxFrames \in Nat

VARIABLES
    tokens,   \* InboundBudget.tokens
    carry,    \* InboundBudget.carry_nanos
    phase,    \* where the connection is, see Phases
    ending,   \* why it is over, see Endings
    over,     \* [kind, cost] of the frame the budget refused, or NoFrame
    clock,    \* history: nanoseconds since the connection began
    frames,   \* history: frames read, each of which refilled once
    spent,    \* history: everything charged
    full      \* history: what has happened since the bucket was last full:
              \*   [at |-> clock, spent |-> charged, frames |-> read]

vars == <<tokens, carry, phase, ending, over, clock, frames, spent, full>>

Kinds == {"text", "binary", "ping", "pong", "close"}

\* "hello": next_text is waiting for session.hello.  "seated": pump is running.
\* "closing": a close frame was read, the next read finds the stream at its end.
Phases == {"hello", "seated", "closing", "ended"}
Endings == {"none", "rate_limited", "bad_message", "refused", "closed"}
NoFrame == [kind |-> "none", cost |-> 0]

Least(a, b) == IF a <= b THEN a ELSE b
Greatest(a, b) == IF a >= b THEN a ELSE b

----------------------------------------------------------------------------
(* The arithmetic of budget.rs *)

\* What refill buys with the time it has.
Bought(nanos) == (nanos * RatePerSec) \div NanosPerSec

\* The time a purchase uses up.
TimeOf(bytes) == (bytes * NanosPerSec) \div RatePerSec

\* Mutants of Refill: no reset at the ceiling; no carry at all.
RefillKeepsTime(t, c, dt) ==
    [tokens |-> Least(t + Bought(dt + c), Capacity),
     carry  |-> dt + c - TimeOf(Bought(dt + c))]
RefillDropsCarry(t, c, dt) ==
    [tokens |-> Least(t + Bought(dt), Capacity), carry |-> 0]

\* InboundBudget::refill after dt nanoseconds, from t tokens and c carried.
Refill(t, c, dt) ==
    IF RatePerSec = 0
    THEN [tokens |-> t, carry |-> c]
    ELSE LET nanos  == dt + c
             bought == Bought(nanos)
             filled == Least(t + bought, Capacity)
         IN  [tokens |-> filled,
              carry  |-> IF filled >= Capacity
                         THEN 0
                         ELSE nanos - TimeOf(bought)]

\* payload_len: a close carries nothing, whatever its reason.
PayloadLen(kind, len) == IF kind = "close" THEN 0 ELSE len

\* What try_take_at charges.
Cost(kind, len) == Greatest(PayloadLen(kind, len), FrameCost)

----------------------------------------------------------------------------
Init ==
    /\ tokens = Capacity
    /\ carry = 0
    /\ phase = "hello"
    /\ ending = "none"
    /\ over = NoFrame
    /\ clock = 0
    /\ frames = 0
    /\ spent = 0
    /\ full = [at |-> 0, spent |-> 0, frames |-> 0]

\* The history of a refill at clock + dt that left b, and of a charge of cost.
Witness(b, dt, cost) ==
    /\ clock' = clock + dt
    /\ frames' = frames + 1
    /\ spent' = spent + cost
    /\ full' = IF b.tokens >= Capacity
               THEN [at |-> clock + dt, spent |-> cost, frames |-> 0]
               ELSE [at |-> full.at, spent |-> full.spent + cost,
                     frames |-> full.frames + 1]

\* try_take_at affords the frame.
Afford(kind, len, dt) ==
    LET b == Refill(tokens, carry, dt) IN
    /\ Cost(kind, len) <= b.tokens
    /\ tokens' = b.tokens - Cost(kind, len)
    /\ carry' = b.carry
    /\ over' = over
    /\ Witness(b, dt, Cost(kind, len))

\* try_take_at refuses it: refilled, nothing charged.
Refuse(kind, len, dt) ==
    LET b == Refill(tokens, carry, dt) IN
    /\ Cost(kind, len) > b.tokens
    /\ tokens' = b.tokens
    /\ carry' = b.carry
    /\ over' = [kind |-> kind, cost |-> Cost(kind, len)]
    /\ Witness(b, dt, 0)

\* next_text and what handshake makes of it.  A text frame is the hello: it is
\* either seated or refused for a reason that is not the budget's.
HelloFrame(kind, len, dt) ==
    /\ phase = "hello"
    /\ frames < MaxFrames
    /\ \/ /\ Refuse(kind, len, dt)
          /\ phase' = "ended"
          /\ ending' = "rate_limited"
       \/ /\ Afford(kind, len, dt)
          /\ \/ /\ kind = "text"
                /\ \/ phase' = "seated" /\ ending' = ending
                   \/ phase' = "ended" /\ ending' = "refused"
             \/ /\ kind \in {"binary", "close"}
                /\ phase' = "ended"
                /\ ending' = "bad_message"
             \/ /\ kind \in {"ping", "pong"}
                /\ UNCHANGED <<phase, ending>>

\* Live::handle on a frame: charged first, whatever it is; past the budget the
\* session is told x.rate_limited and the turn loop stops.
SeatedFrame(kind, len, dt) ==
    /\ phase = "seated"
    /\ frames < MaxFrames
    /\ \/ /\ Refuse(kind, len, dt)
          /\ phase' = "ended"
          /\ ending' = "rate_limited"
       \/ /\ Afford(kind, len, dt)
          /\ phase' = IF kind = "close" THEN "closing" ELSE "seated"
          /\ ending' = ending

\* stream.next() is None or an error: nothing is charged, the session ends.
StreamEnds ==
    /\ phase # "ended"
    /\ phase' = "ended"
    /\ ending' = IF phase = "hello" THEN "bad_message" ELSE "closed"
    /\ UNCHANGED <<tokens, carry, over, clock, frames, spent, full>>

\* hello_timeout passes before a text frame: hello_required, and a close.
HelloTimeout ==
    /\ phase = "hello"
    /\ phase' = "ended"
    /\ ending' = "refused"
    /\ UNCHANGED <<tokens, carry, over, clock, frames, spent, full>>

Next ==
    \/ \E kind \in Kinds, len \in Payloads, dt \in 0..MaxGap :
          HelloFrame(kind, len, dt) \/ SeatedFrame(kind, len, dt)
    \/ StreamEnds
    \/ HelloTimeout

Spec == Init /\ [][Next]_vars

----------------------------------------------------------------------------
TypeOK ==
    /\ tokens \in 0..Capacity
    /\ carry \in Nat
    /\ phase \in Phases
    /\ ending \in Endings
    /\ over \in [kind : Kinds \cup {"none"}, cost : Nat]
    /\ clock \in Nat
    /\ frames \in Nat
    /\ spent \in Nat
    /\ full \in [at : Nat, spent : Nat, frames : Nat]

\* The long-run ceiling.  Over its whole life a connection is charged at most
\* its burst and what the rate earned, both sides in bytes * nanoseconds.  The
\* two truncating divisions of `refill` round in the connection's favour by
\* less than one nanosecond a frame, which is the term in `frames`; what is
\* still in hand (tokens, carried time) has been earned but not charged.
RateCeiling ==
    NanosPerSec * (spent + tokens) + RatePerSec * carry
        <= NanosPerSec * Capacity + RatePerSec * (clock + frames)

\* The burst ceiling: the same bound measured from the last moment the bucket
\* was full, so silence never saves up more than the burst ("a full bucket
\* saves no time", refill's last branch).
BurstCeiling ==
    NanosPerSec * (full.spent + tokens) + RatePerSec * carry
        <= NanosPerSec * Capacity + RatePerSec * (clock - full.at + full.frames)

\* The floor: no earned time is lost between two full buckets, and what is
\* carried is always less than the next byte's price (and one nanosecond).
NothingLost ==
    /\ NanosPerSec * (full.spent + tokens) + RatePerSec * carry
         >= NanosPerSec * Capacity + RatePerSec * (clock - full.at)
    /\ RatePerSec * carry < NanosPerSec + RatePerSec

\* try_take's promise to a connection: it is refused only when what it sent
\* since the bucket was full, with the refused frame, really is past the burst
\* and the rate (to within the one nanosecond `refill` rounds).
RefusalIsEarned ==
    over # NoFrame =>
        NanosPerSec * (full.spent + over.cost) + RatePerSec
            > NanosPerSec * Capacity + RatePerSec * (clock - full.at)
=============================================================================
