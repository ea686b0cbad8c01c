--------------------------- MODULE AccountsProofs ---------------------------
(***************************************************************************)
(* The counts that bound a room, for every value of their constants.       *)
(*                                                                         *)
(* The inbound budget's ceilings and floor, for every rate, burst, frame   *)
(* price and clock.  Everything rests on one lemma about `refill`, and     *)
(* that on the two inequalities that define a truncating division.         *)
(*                                                                         *)
(* The count of the frames sealed under a room's key, for every rate,      *)
(* renewal and absence that the charge covers.  Its invariant bounds what  *)
(* a death would lose at each moment of a host's life, and what has been   *)
(* sealed since at each moment of an absence.                              *)
(*                                                                         *)
(* The byte count of a peer's outbound queue, for any number of tasks.     *)
(* What is held is the set of the bytes held, whose size changes by a      *)
(* frame's length when a frame comes or goes.                              *)
(***************************************************************************)
EXTENDS InboundBudget, FrameBudget, OutboundQueue, FiniteSetTheorems, TLAPS

\* A truncating division is the largest multiple that fits.
LEMMA DivBounds ==
    ASSUME NEW a \in Nat, NEW b \in Nat \ {0}
    PROVE  /\ a \div b \in Nat
           /\ b * (a \div b) <= a
           /\ a < b * (a \div b) + b
  BY SMT

\* `refill` keeps tokens within the ceiling, earns at most one nanosecond more
\* than the time it was given and, below the ceiling, loses nothing and carries
\* less than the price of a byte.
LEMMA RefillBounds ==
    ASSUME NEW t \in 0..Capacity, NEW c \in Nat, NEW dt \in Nat
    PROVE  LET b == Refill(t, c, dt) IN
           /\ b.tokens \in 0..Capacity
           /\ b.carry \in Nat
           /\ NanosPerSec * b.tokens + RatePerSec * b.carry
                <= NanosPerSec * t + RatePerSec * c + RatePerSec * dt
                     + RatePerSec
           /\ b.tokens < Capacity =>
                NanosPerSec * b.tokens + RatePerSec * b.carry
                  >= NanosPerSec * t + RatePerSec * c + RatePerSec * dt
           /\ RatePerSec * b.carry < NanosPerSec + RatePerSec
           /\ b.tokens >= Capacity => RatePerSec * b.carry = 0
<1> USE BudgetAssumption
<1>1. CASE RatePerSec = 0
  <2>1. /\ Refill(t, c, dt) = [tokens |-> t, carry |-> c]
        /\ RatePerSec * c = 0
        /\ RatePerSec * dt = 0
    BY <1>1 DEF Refill
  <2> QED
    BY <1>1, <2>1
<1>2. CASE RatePerSec # 0
  <2> DEFINE nanos == dt + c
             bought == Bought(nanos)
             used == TimeOf(bought)
             filled == Least(t + bought, Capacity)
  <2>1. /\ nanos \in Nat
        /\ nanos * RatePerSec \in Nat
    OBVIOUS
  <2>2. /\ bought \in Nat
        /\ NanosPerSec * bought <= nanos * RatePerSec
        /\ nanos * RatePerSec < NanosPerSec * bought + NanosPerSec
    BY <2>1, DivBounds DEF Bought
  <2> HIDE DEF bought
  <2>3. /\ used \in Nat
        /\ RatePerSec * used <= bought * NanosPerSec
        /\ bought * NanosPerSec < RatePerSec * used + RatePerSec
    <3>1. /\ bought * NanosPerSec \in Nat
          /\ RatePerSec \in Nat \ {0}
      BY <1>2, <2>2
    <3> QED
      BY <3>1, DivBounds DEF TimeOf
  <2>4. /\ filled \in 0..Capacity
        /\ filled <= t + bought
        /\ filled < Capacity => filled = t + bought
    BY <2>2 DEF Least
  <2>5. Refill(t, c, dt) = [tokens |-> filled,
                            carry |-> IF filled >= Capacity THEN 0
                                      ELSE nanos - used]
    BY <1>2 DEF Refill, bought
  <2> HIDE DEF used, filled
  <2>6. /\ nanos - used \in Nat
        /\ RatePerSec * (nanos - used) = RatePerSec * nanos - RatePerSec * used
        /\ RatePerSec * nanos = RatePerSec * c + RatePerSec * dt
    <3>1. RatePerSec * used <= RatePerSec * nanos
      BY <2>1, <2>2, <2>3
    <3>2. used <= nanos
      BY <3>1, <1>2, <2>1, <2>3
    <3> QED
      BY <3>2, <2>1, <2>3
  <2>7. CASE filled >= Capacity
    <3>1. /\ Refill(t, c, dt).tokens = filled
          /\ Refill(t, c, dt).carry = 0
          /\ RatePerSec * 0 = 0
      BY <2>5, <2>7
    <3>2. NanosPerSec * filled <= NanosPerSec * t + NanosPerSec * bought
      BY <2>4, <2>2
    <3> QED
      BY <3>1, <3>2, <2>2, <2>4, <2>6, <2>7, <2>1
  <2>8. CASE ~(filled >= Capacity)
    <3>1. /\ Refill(t, c, dt).tokens = filled
          /\ Refill(t, c, dt).carry = nanos - used
      BY <2>5, <2>8
    <3>2. /\ filled < Capacity
          /\ NanosPerSec * filled = NanosPerSec * t + NanosPerSec * bought
      BY <2>4, <2>2, <2>8
    <3> QED
      BY <3>1, <3>2, <2>1, <2>2, <2>3, <2>4, <2>6
  <2> QED
    BY <2>7, <2>8
<1> QED
  BY <1>1, <1>2

----------------------------------------------------------------------------
\* The inductive invariant: the four bounds, and what ties a refusal to them:
\* the budget refuses once, and the connection is over with it.
BudgetInv ==
    /\ TypeOK
    /\ RateCeiling
    /\ BurstCeiling
    /\ NothingLost
    /\ RefusalIsEarned
    /\ full.at <= clock
    /\ over # NoFrame => phase = "ended"

\* The part of the invariant that is arithmetic on the budget and its history.
Numbers ==
    /\ tokens \in 0..Capacity
    /\ carry \in Nat
    /\ clock \in Nat
    /\ frames \in Nat
    /\ spent \in Nat
    /\ full \in [at : Nat, spent : Nat, frames : Nat]
    /\ full.at <= clock
    /\ RateCeiling
    /\ BurstCeiling
    /\ NothingLost

LEMMA CostType ==
    ASSUME NEW kind \in Kinds, NEW payload \in Payloads
    PROVE  Cost(kind, payload) \in Nat
  BY BudgetAssumption DEF Cost, PayloadLen, Greatest

\* A refill followed by a charge it can afford keeps the numbers: Afford charges
\* the frame's cost, Refuse charges nothing.
LEMMA ChargeKeepsNumbers ==
    ASSUME Numbers, NEW dt \in Nat, NEW cost \in Nat,
           cost <= Refill(tokens, carry, dt).tokens,
           tokens' = Refill(tokens, carry, dt).tokens - cost,
           carry' = Refill(tokens, carry, dt).carry,
           Witness(Refill(tokens, carry, dt), dt, cost)
    PROVE  Numbers'
<1> DEFINE bt == Refill(tokens, carry, dt).tokens
           bc == Refill(tokens, carry, dt).carry
<1> USE BudgetAssumption
<1>1. /\ bt \in 0..Capacity
      /\ bc \in Nat
      /\ NanosPerSec * bt + RatePerSec * bc
           <= NanosPerSec * tokens + RatePerSec * carry + RatePerSec * dt
                + RatePerSec
      /\ bt < Capacity =>
           NanosPerSec * bt + RatePerSec * bc
             >= NanosPerSec * tokens + RatePerSec * carry + RatePerSec * dt
      /\ RatePerSec * bc < NanosPerSec + RatePerSec
      /\ bt >= Capacity => RatePerSec * bc = 0
  BY RefillBounds DEF Numbers
<1>2. /\ tokens' = bt - cost
      /\ carry' = bc
      /\ cost <= bt
      /\ clock' = clock + dt
      /\ frames' = frames + 1
      /\ spent' = spent + cost
      /\ full' = IF bt >= Capacity
                 THEN [at |-> clock + dt, spent |-> cost, frames |-> 0]
                 ELSE [at |-> full.at, spent |-> full.spent + cost,
                       frames |-> full.frames + 1]
  BY DEF Witness
<1> HIDE DEF bt, bc
<1>3. /\ tokens' \in 0..Capacity
      /\ carry' \in Nat
      /\ clock' \in Nat
      /\ frames' \in Nat
      /\ spent' \in Nat
  BY <1>1, <1>2 DEF Numbers
<1>4. RateCeiling'
  <2>1. NanosPerSec * (spent + tokens) + RatePerSec * carry
          <= NanosPerSec * Capacity + RatePerSec * (clock + frames)
    BY DEF Numbers, RateCeiling
  <2>2. spent' + tokens' = spent + bt
    BY <1>1, <1>2 DEF Numbers
  <2>3. NanosPerSec * (spent + bt) + RatePerSec * bc
          <= NanosPerSec * Capacity + RatePerSec * (clock + dt + frames + 1)
    BY <2>1, <1>1 DEF Numbers
  <2> QED
    BY <2>2, <2>3, <1>2, <1>3 DEF RateCeiling, Numbers
<1>5. CASE bt >= Capacity
  <2>1. /\ full' = [at |-> clock + dt, spent |-> cost, frames |-> 0]
        /\ bt = Capacity
    BY <1>1, <1>2, <1>5
  <2>2. /\ full' \in [at : Nat, spent : Nat, frames : Nat]
        /\ full'.at <= clock'
    BY <2>1, <1>2 DEF Numbers
  <2>3. /\ full'.spent + tokens' = Capacity
        /\ RatePerSec * carry' = 0
        /\ clock' - full'.at + full'.frames = 0
        /\ clock' - full'.at = 0
    BY <2>1, <1>1, <1>2, <1>5 DEF Numbers
  <2>4. BurstCeiling' /\ NothingLost'
    <3>1. RatePerSec * 0 = 0
      OBVIOUS
    <3> QED
      BY <2>3, <3>1 DEF BurstCeiling, NothingLost
  <2> QED
    BY <1>3, <1>4, <2>2, <2>4 DEF Numbers
<1>6. CASE ~(bt >= Capacity)
  <2>1. /\ full' \in [at : Nat, spent : Nat, frames : Nat]
        /\ full'.at = full.at
        /\ full'.spent = full.spent + cost
        /\ full'.frames = full.frames + 1
    BY <1>2, <1>6 DEF Numbers
  <2>2. full'.spent + tokens' = full.spent + bt
    BY <2>1, <1>1, <1>2 DEF Numbers
  <2>3. BurstCeiling'
    <3>1. NanosPerSec * (full.spent + tokens) + RatePerSec * carry
            <= NanosPerSec * Capacity
                 + RatePerSec * (clock - full.at + full.frames)
      BY DEF Numbers, BurstCeiling
    <3>2. NanosPerSec * (full.spent + bt) + RatePerSec * bc
            <= NanosPerSec * Capacity
                 + RatePerSec * (clock + dt - full.at + full.frames + 1)
      BY <3>1, <1>1 DEF Numbers
    <3> QED
      BY <3>2, <2>1, <2>2, <1>2 DEF BurstCeiling, Numbers
  <2>4. NothingLost'
    <3>1. NanosPerSec * (full.spent + tokens) + RatePerSec * carry
            >= NanosPerSec * Capacity + RatePerSec * (clock - full.at)
      BY DEF Numbers, NothingLost
    <3>2. NanosPerSec * (full.spent + bt) + RatePerSec * bc
            >= NanosPerSec * Capacity + RatePerSec * (clock + dt - full.at)
      BY <3>1, <1>1, <1>6 DEF Numbers
    <3> QED
      BY <3>2, <2>1, <2>2, <1>1, <1>2 DEF NothingLost, Numbers
  <2> QED
    BY <1>2, <1>3, <1>4, <2>1, <2>3, <2>4 DEF Numbers
<1> QED
  BY <1>5, <1>6

\* Affording a frame keeps the numbers.
LEMMA AffordKeepsNumbers ==
    ASSUME Numbers, NEW kind \in Kinds, NEW payload \in Payloads,
           NEW dt \in 0..MaxGap, Afford(kind, payload, dt)
    PROVE  Numbers'
  BY CostType, ChargeKeepsNumbers, BudgetAssumption DEF Afford

\* The arithmetic of a refusal: with less than one byte and one nanosecond of
\* credit carried, a cost above the tokens is a cost above what was earned.
LEMMA EarnedArithmetic ==
    ASSUME NEW n \in Nat, NEW r \in Nat, NEW cap \in Nat, NEW s \in Nat,
           NEW t \in Nat, NEW k \in Nat, NEW d \in Int, NEW cost \in Nat,
           n * (s + t) + r * k >= n * cap + r * d,
           r * k < n + r,
           cost >= t + 1
    PROVE  n * (s + cost) + r > n * cap + r * d
<1>1. n * (s + cost) >= n * (s + t) + n
  <2>1. n * (s + cost) = n * s + n * cost
    OBVIOUS
  <2>2. n * cost >= n * (t + 1)
    OBVIOUS
  <2>3. n * (t + 1) = n * t + n /\ n * (s + t) = n * s + n * t
    OBVIOUS
  <2> QED
    BY <2>1, <2>2, <2>3
<1> QED
  BY <1>1

\* Refusing a frame keeps the numbers, and the refusal is an earned one: the
\* bucket was below the frame's cost after everything earned was credited.
LEMMA RefuseKeepsNumbers ==
    ASSUME Numbers, NEW kind \in Kinds, NEW payload \in Payloads,
           NEW dt \in 0..MaxGap, Refuse(kind, payload, dt)
    PROVE  /\ Numbers'
           /\ RefusalIsEarned'
           /\ over' \in [kind : Kinds \cup {"none"}, cost : Nat]
<1> USE BudgetAssumption
<1>1. /\ Refill(tokens, carry, dt).tokens \in 0..Capacity
      /\ dt \in Nat
  BY RefillBounds DEF Numbers
<1>2. Numbers'
  BY <1>1, ChargeKeepsNumbers DEF Refuse
<1>3. /\ over'.cost = Cost(kind, payload)
      /\ over'.cost \in Nat
      /\ over'.cost >= tokens' + 1
      /\ over' \in [kind : Kinds \cup {"none"}, cost : Nat]
  BY <1>1, CostType DEF Refuse
<1>4. /\ full' \in [at : Nat, spent : Nat, frames : Nat]
      /\ tokens' \in Nat
      /\ carry' \in Nat
      /\ clock' \in Nat
      /\ NothingLost'
  BY <1>2 DEF Numbers
<1>5. /\ NanosPerSec * (full'.spent + tokens') + RatePerSec * carry'
           >= NanosPerSec * Capacity + RatePerSec * (clock' - full'.at)
      /\ RatePerSec * carry' < NanosPerSec + RatePerSec
  BY <1>4 DEF NothingLost
<1>6. full'.spent \in Nat /\ clock' - full'.at \in Int
  BY <1>4
<1>7. NanosPerSec * (full'.spent + over'.cost) + RatePerSec
        > NanosPerSec * Capacity + RatePerSec * (clock' - full'.at)
  BY <1>3, <1>4, <1>5, <1>6, EarnedArithmetic
<1> QED
  BY <1>2, <1>3, <1>7 DEF RefusalIsEarned

LEMMA BudgetInit == Init => BudgetInv
<1> SUFFICES ASSUME Init PROVE BudgetInv
  OBVIOUS
<1> USE BudgetAssumption DEF Init
<1>1. TypeOK /\ full.at <= clock /\ over = NoFrame
  BY DEF TypeOK, Phases, Endings, NoFrame, Kinds
<1>2. RateCeiling /\ BurstCeiling /\ NothingLost
  BY DEF RateCeiling, BurstCeiling, NothingLost
<1> QED
  BY <1>1, <1>2 DEF BudgetInv, RefusalIsEarned

LEMMA BudgetStep == BudgetInv /\ [Next]_vars => BudgetInv'
<1> SUFFICES ASSUME BudgetInv, [Next]_vars PROVE BudgetInv'
  OBVIOUS
<1>1. Numbers
  BY DEF BudgetInv, TypeOK, Numbers
<1>2. ASSUME NEW kind \in Kinds, NEW payload \in Payloads, NEW dt \in 0..MaxGap,
             phase \in {"hello", "seated"},
             Refuse(kind, payload, dt), phase' = "ended", ending' = "rate_limited"
      PROVE  BudgetInv'
  BY <1>1, <1>2, RefuseKeepsNumbers
  DEF BudgetInv, Numbers, TypeOK, Phases, Endings
<1>3. ASSUME NEW kind \in Kinds, NEW payload \in Payloads, NEW dt \in 0..MaxGap,
             phase \in {"hello", "seated"},
             Afford(kind, payload, dt), phase' \in Phases, ending' \in Endings
      PROVE  BudgetInv'
  <2>1. Numbers'
    BY <1>1, <1>3, AffordKeepsNumbers
  <2>2. over = NoFrame /\ over' = NoFrame
    BY <1>3 DEF BudgetInv, Afford
  <2> QED
    BY <2>1, <2>2, <1>3 DEF BudgetInv, Numbers, TypeOK, RefusalIsEarned
<1>4. ASSUME NEW kind \in Kinds, NEW payload \in Payloads, NEW dt \in 0..MaxGap,
             HelloFrame(kind, payload, dt)
      PROVE  BudgetInv'
  <2>1. ending \in Endings
    BY DEF BudgetInv, TypeOK
  <2> QED
    BY <1>2, <1>3, <1>4, <2>1 DEF HelloFrame, Phases, Endings
<1>5. ASSUME NEW kind \in Kinds, NEW payload \in Payloads, NEW dt \in 0..MaxGap,
             SeatedFrame(kind, payload, dt)
      PROVE  BudgetInv'
  <2>1. ending \in Endings
    BY DEF BudgetInv, TypeOK
  <2> QED
    BY <1>2, <1>3, <1>5, <2>1 DEF SeatedFrame, Phases, Endings
<1>6. CASE StreamEnds \/ HelloTimeout
  <2>1. UNCHANGED <<tokens, carry, over, clock, frames, spent, full>>
    BY <1>6 DEF StreamEnds, HelloTimeout
  <2>2. phase' = "ended" /\ ending' \in Endings
    BY <1>6 DEF StreamEnds, HelloTimeout, Endings
  <2> QED
    BY <2>1, <2>2 DEF BudgetInv, TypeOK, Phases, RateCeiling, BurstCeiling,
                      NothingLost, RefusalIsEarned
<1>7. CASE UNCHANGED vars
  BY <1>7 DEF vars, BudgetInv, TypeOK, RateCeiling, BurstCeiling,
              NothingLost, RefusalIsEarned
<1> QED
  BY <1>4, <1>5, <1>6, <1>7 DEF Next

\* Every behaviour of a connection keeps its budget's invariant.
THEOREM BudgetInvariant == Spec => []BudgetInv
  BY BudgetInit, BudgetStep, PTL DEF Spec

\* budget.rs: over its life, no connection is charged past its burst and what
\* its rate earned, for any rate, burst and spacing of frames.
THEOREM RateCeilingHolds == Spec => []RateCeiling
<1>1. BudgetInv => RateCeiling
  BY DEF BudgetInv
<1> QED
  BY <1>1, BudgetInvariant, PTL

\* budget.rs, refill's last branch: measured from the last full bucket, silence
\* never buys a burst above the configured one.
THEOREM BurstCeilingHolds == Spec => []BurstCeiling
<1>1. BudgetInv => BurstCeiling
  BY DEF BudgetInv
<1> QED
  BY <1>1, BudgetInvariant, PTL

\* try_take_at: a connection is rate limited only for a frame that really is
\* past its burst and rate.
THEOREM RefusalIsEarnedHolds == Spec => []RefusalIsEarned
<1>1. BudgetInv => RefusalIsEarned
  BY DEF BudgetInv
<1> QED
  BY <1>1, BudgetInvariant, PTL

----------------------------------------------------------------------------
ProducerType ==
    [up : BOOLEAN, ended : BOOLEAN, frames : Nat, savedFrames : Nat \cup {NoCount},
     savedAge : Unsaved .. SaveEvery]

\* The variables that the count depends on, and what a record holds of them: the
\* store is what a host that is up believes it saved, never above its count.
FrameTypeOK ==
    /\ producer \in ProducerType
    /\ store \in Nat \cup {NoCount}
    /\ sealed \in Nat /\ missed \in Nat /\ burst \in 0 .. Rate
    /\ sinceFlush \in 0 .. SaveEvery /\ hostless \in 0 .. HostlessFor
    /\ producer.up => store = producer.savedFrames /\ store <= producer.frames
    /\ producer.up /\ producer.ended => store = producer.frames
    /\ producer.up /\ store = NoCount => producer.frames >= FrameLimit

\* A return from this store would leave budget.
Owing == store # NoCount /\ store + Charge < FrameLimit

\* The frames that were sealed, but those that no host was handed.
Heard == sealed - missed

\* What can be counted, or sealed without a host, in n units of time.
Units(n) == Rate * n

\* What a host that dies now would lose: at most what was counted since its save,
\* and that is less than two renewals ago, the last tick having seen it.
Unsafe == producer.frames - producer.savedFrames
SaveInv ==
    producer.up /\ Owing =>
        /\ producer.savedAge # Unsaved
        /\ producer.savedAge < SaveEvery => Unsafe <= Units(producer.savedAge) + burst
        /\ Unsafe <= Units(SaveEvery + sinceFlush) - Rate + burst

\* What was heard, or sealed in the absence, and is not in the store of a host
\* that is down: what it lost, and what the others sealed since.
AbsenceInv ==
    ~producer.up /\ Owing =>
        /\ Heard <= store + Units(2 * SaveEvery + hostless)
        /\ hostless < HostlessFor =>
             Heard <= store + Units(2 * SaveEvery + hostless) - Rate + burst

CountInv ==
    producer.up /\ (producer.frames < FrameLimit \/ Owing) => Heard <= producer.frames

FrameInv == FrameTypeOK /\ SaveInv /\ AbsenceInv /\ CountInv

LEMMA UnitsFacts ==
    /\ \A n \in Nat : Units(n) \in Nat
    /\ \A n \in Nat : Units(n + 1) = Units(n) + Rate
    /\ \A m, n \in Nat : m <= n => Units(m) <= Units(n)
<1>1. Rate \in Nat
  BY FrameAssumption
<1>2. \A n \in Nat : Units(n) \in Nat /\ Units(n + 1) = Units(n) + Rate
  BY <1>1 DEF Units
<1>3. ASSUME NEW m \in Nat, NEW n \in Nat, m <= n PROVE Units(m) <= Units(n)
  <2>1. PICK d \in Nat : n = m + d
    BY <1>3
  <2>2. Rate * d \in Nat /\ Rate * n = Rate * m + Rate * d
    BY <1>1, <2>1
  <2> QED
    BY <1>1, <2>2 DEF Units
<1> QED
  BY <1>2, <1>3

LEMMA Constants ==
    /\ FrameLimit \in Nat /\ SaveEvery \in Nat /\ Rate \in Nat
    /\ FrameLimit >= 1 /\ SaveEvery >= 1 /\ Rate >= 1
    /\ HostlessFor \in Nat /\ Charge \in Nat
    /\ Units(2 * SaveEvery + HostlessFor) <= Charge
  BY FrameAssumption DEF Units

LEMMA RenewalUnits ==
    ASSUME NEW n \in 0 .. SaveEvery
    PROVE  Units(SaveEvery + n) \in Nat /\ Rate <= Units(SaveEvery + n)
<1>1. SaveEvery + n \in Nat /\ 1 <= SaveEvery + n
  BY Constants
<1>2. Units(1) = Rate
  BY Constants DEF Units
<1> QED
  BY <1>1, <1>2, UnitsFacts

\* What the operations on a producer change of it.
LEMMA SavedFields ==
    ASSUME NEW h \in ProducerType, NEW age \in Unsaved .. SaveEvery
    PROVE  /\ Saved(h, age) \in ProducerType
           /\ Saved(h, age).up = h.up /\ Saved(h, age).ended = h.ended
           /\ Saved(h, age).frames = h.frames /\ Saved(h, age).savedFrames = h.frames
           /\ Saved(h, age).savedAge = age
<1>1. h.frames \in Nat \cup {NoCount}
  BY DEF ProducerType
<1> QED
  BY <1>1 DEF ProducerType, Saved

LEMMA CountedFields ==
    ASSUME NEW h \in ProducerType
    PROVE  /\ CountFrame(h) \in ProducerType
           /\ CountFrame(h).up = h.up /\ CountFrame(h).ended = h.ended
           /\ CountFrame(h).frames = h.frames + 1
           /\ CountFrame(h).savedFrames = h.savedFrames
           /\ CountFrame(h).savedAge = h.savedAge
  BY DEF ProducerType, CountFrame

LEMMA EndedFields ==
    ASSUME NEW h \in ProducerType
    PROVE  LET e == [h EXCEPT !.ended = TRUE] IN
           /\ e \in ProducerType /\ e.up = h.up /\ e.frames = h.frames
           /\ e.savedFrames = h.savedFrames /\ e.savedAge = h.savedAge
  BY DEF ProducerType

LEMMA SaveFramesFields ==
    ASSUME NEW h \in ProducerType
    PROVE  /\ SaveFrames(h) \in ProducerType
           /\ SaveFrames(h).up = h.up
           /\ SaveFrames(h).frames = h.frames /\ SaveFrames(h).savedFrames = h.frames
           /\ SaveFrames(h).savedAge = h.savedAge
<1>1. h.savedAge \in Unsaved .. SaveEvery
  BY DEF ProducerType
<1> QED
  BY <1>1, SavedFields DEF SaveFrames

----------------------------------------------------------------------------
\* While a host is up its store is what it saved.
LEMMA KeptStore ==
    ASSUME FrameTypeOK, producer.up, Kept
    PROVE  store' = producer'.savedFrames
  BY DEF FrameTypeOK, Kept

\* A frame is counted and nothing saved.
LEMMA CountedKeepsInv ==
    ASSUME FrameInv, Serving, burst < Rate, burst' = burst + 1,
           sealed' \in Nat, missed' \in Nat, Heard' \in {Heard, Heard + 1},
           producer' = CountFrame(producer), Kept, UNCHANGED <<sinceFlush, hostless>>
    PROVE  FrameInv'
<1>1. /\ producer \in ProducerType /\ producer.up /\ ~producer.ended
      /\ Heard \in Int /\ burst \in 0 .. Rate
  BY DEF FrameInv, FrameTypeOK, Serving, Heard
<1>2. /\ producer' \in ProducerType /\ producer'.up /\ ~producer'.ended
      /\ producer'.frames = producer.frames + 1
      /\ producer'.savedFrames = producer.savedFrames
      /\ producer'.savedAge = producer.savedAge
  BY <1>1 DEF CountFrame, ProducerType
<1>3. store' = store
  BY <1>1, <1>2, KeptStore DEF FrameInv, FrameTypeOK
<1>4. FrameTypeOK'
  BY <1>1, <1>2, <1>3, Constants DEF FrameInv, FrameTypeOK, ProducerType
<1>5. SaveInv'
  <2> SUFFICES ASSUME Owing
               PROVE  /\ producer'.savedAge # Unsaved
                      /\ producer'.savedAge < SaveEvery =>
                           Unsafe' <= Units(producer'.savedAge) + burst'
                      /\ Unsafe' <= Units(SaveEvery + sinceFlush') - Rate + burst'
    BY <1>3 DEF SaveInv, Owing, Units
  <2>1. Unsafe' = Unsafe + 1 /\ Unsafe \in Int
    BY <1>1, <1>2 DEF Unsafe, ProducerType, NoCount
  <2>2. producer.savedAge # Unsaved /\ producer.savedAge \in Nat
    BY <1>1 DEF FrameInv, SaveInv, ProducerType, Unsaved
  <2>3. Units(producer.savedAge) \in Nat /\ Units(SaveEvery + sinceFlush) \in Nat
    <3>1. SaveEvery + sinceFlush \in Nat
      BY Constants DEF FrameInv, FrameTypeOK
    <3> QED
      BY <2>2, <3>1, UnitsFacts
  <2>4. /\ producer.savedAge < SaveEvery => Unsafe <= Units(producer.savedAge) + burst
        /\ Unsafe <= Units(SaveEvery + sinceFlush) - Rate + burst
    BY <1>1 DEF FrameInv, SaveInv
  <2>5. Units(SaveEvery + sinceFlush') = Units(SaveEvery + sinceFlush)
    OBVIOUS
  <2> QED
    BY <1>1, <1>2, <2>1, <2>2, <2>3, <2>4, <2>5, Constants
<1>6. AbsenceInv' /\ CountInv'
  BY <1>1, <1>2, <1>3, Constants
  DEF FrameInv, AbsenceInv, CountInv, Owing, ProducerType
<1> QED
  BY <1>4, <1>5, <1>6 DEF FrameInv

\* A step that leaves the store with all of the count, or with all but the frame
\* that it seals: nothing that a death could lose is left.
LEMMA SavedKeepsInv ==
    ASSUME FrameInv, Serving, NEW d \in {0, 1}, Kept,
           producer' \in ProducerType, producer'.up,
           producer'.frames = producer.frames + d,
           producer'.savedFrames \in {producer.frames, producer'.frames},
           producer'.ended => producer'.savedFrames = producer'.frames,
           producer'.savedAge \in {0, producer.savedAge},
           sealed' = sealed + d, missed' = missed, burst' = burst + d, burst' <= Rate,
           sinceFlush' \in 0 .. SaveEvery, hostless' = hostless
    PROVE  FrameInv'
<1>1. /\ producer \in ProducerType /\ producer.up
      /\ sealed \in Nat /\ missed \in Nat
      /\ burst \in 0 .. Rate /\ hostless \in 0 .. HostlessFor
      /\ store = producer.savedFrames /\ store <= producer.frames
      /\ store \in Nat \cup {NoCount}
      /\ store = NoCount => producer.frames >= FrameLimit
  BY DEF FrameInv, FrameTypeOK, Serving
<1>2. store' = producer'.savedFrames
  BY <1>1, KeptStore DEF FrameInv
<1>3. producer.frames \in Nat /\ producer'.frames \in Nat /\ producer'.savedFrames \in Nat
  BY <1>1 DEF ProducerType
<1>4. FrameTypeOK'
  BY <1>1, <1>2, <1>3, Constants DEF FrameTypeOK, NoCount
<1>5. Owing' => /\ producer.frames < FrameLimit
                /\ Owing
  BY <1>1, <1>2, <1>3, Constants DEF Owing, NoCount
<1>6. Unsafe' \in {0, d}
  BY <1>3 DEF Unsafe
<1>7. SaveInv'
  <2> SUFFICES ASSUME Owing'
               PROVE  /\ producer'.savedAge # Unsaved
                      /\ producer'.savedAge < SaveEvery =>
                           Unsafe' <= Units(producer'.savedAge) + burst'
                      /\ Unsafe' <= Units(SaveEvery + sinceFlush') - Rate + burst'
    BY DEF SaveInv, Units
  <2>1. producer'.savedAge # Unsaved /\ producer'.savedAge \in Nat
    BY <1>1, <1>5 DEF FrameInv, SaveInv, Unsaved, ProducerType
  <2>2. Units(producer'.savedAge) \in Nat
    BY <2>1, UnitsFacts
  <2>3. Units(SaveEvery + sinceFlush') \in Nat /\ Rate <= Units(SaveEvery + sinceFlush')
    BY RenewalUnits
  <2> QED
    BY <1>1, <1>6, <2>1, <2>2, <2>3, Constants
<1>8. AbsenceInv' /\ CountInv'
  <2>1. AbsenceInv'
    BY DEF AbsenceInv
  <2>2. ASSUME producer'.frames < FrameLimit \/ Owing' PROVE Heard' <= producer'.frames
    <3>1. Heard' = Heard + d /\ Heard \in Int
      BY <1>1 DEF Heard
    <3> QED
      BY <1>1, <1>3, <1>5, <2>2, <3>1, Constants DEF FrameInv, CountInv
  <2> QED
    BY <2>1, <2>2 DEF CountInv
<1> QED
  BY <1>4, <1>7, <1>8 DEF FrameInv

LEMMA StatesKeepsInv ==
    ASSUME FrameInv, HostStates PROVE FrameInv'
<1>1. /\ Serving /\ Seal /\ Kept /\ UNCHANGED <<missed, sinceFlush, hostless>>
      /\ producer' = CountFrame(Saved(producer, 0)) /\ producer \in ProducerType
      /\ sealed' = sealed + 1 /\ burst' = burst + 1 /\ burst < Rate
      /\ burst \in 0 .. Rate /\ sinceFlush \in 0 .. SaveEvery
  BY DEF HostStates, FrameInv, FrameTypeOK, Seal
<1>2. /\ producer' \in ProducerType /\ producer'.up /\ ~producer'.ended
      /\ producer'.frames = producer.frames + 1
      /\ producer'.savedFrames = producer.frames /\ producer'.savedAge = 0
  <2>1. 0 \in Unsaved .. SaveEvery
    BY Constants DEF Unsaved
  <2>2. Saved(producer, 0) \in ProducerType
    BY <1>1, <2>1, SavedFields
  <2> QED
    BY <1>1, <2>1, <2>2, SavedFields, CountedFields DEF Serving
<1>3. burst' <= Rate /\ sinceFlush' \in 0 .. SaveEvery /\ hostless' = hostless
  BY <1>1, Constants
<1> QED
  BY <1>1, <1>2, <1>3, SavedKeepsInv

\* The closing frame is in the store when it is sealed.
LEMMA ClosedFields ==
    ASSUME NEW h \in ProducerType, h.up
    PROVE  LET c == [Closed(h) EXCEPT !.ended = TRUE] IN
           /\ c \in ProducerType /\ c.up /\ c.frames = h.frames + 1
           /\ c.savedFrames = c.frames /\ c.savedAge = h.savedAge
<1> DEFINE s == Saved(h, h.savedAge)
<1>1. h.savedAge \in Unsaved .. SaveEvery
  BY DEF ProducerType
<1>2. /\ s \in ProducerType /\ s.up /\ s.frames = h.frames /\ s.savedAge = h.savedAge
  BY <1>1, SavedFields
<1>3. /\ CountFrame(s) \in ProducerType /\ CountFrame(s).up
      /\ CountFrame(s).frames = h.frames + 1 /\ CountFrame(s).savedAge = h.savedAge
  BY <1>2, CountedFields
<1>4. /\ Closed(h) \in ProducerType /\ Closed(h).up
      /\ Closed(h).frames = h.frames + 1 /\ Closed(h).savedFrames = h.frames + 1
      /\ Closed(h).savedAge = h.savedAge
  BY <1>3, SaveFramesFields DEF Closed
<1> HIDE DEF s
<1> QED
  BY <1>4, EndedFields

LEMMA CloseKeepsInv ==
    ASSUME FrameInv, CloseRoom PROVE FrameInv'
<1>1. /\ Serving /\ Seal /\ Kept /\ UNCHANGED <<missed, sinceFlush, hostless>>
      /\ producer' = [Closed(producer) EXCEPT !.ended = TRUE]
      /\ producer \in ProducerType /\ producer.up
      /\ sealed' = sealed + 1 /\ burst' = burst + 1 /\ burst < Rate
      /\ burst \in 0 .. Rate /\ sinceFlush \in 0 .. SaveEvery
  BY DEF CloseRoom, FrameInv, FrameTypeOK, Seal, Serving
<1>2. /\ producer' \in ProducerType /\ producer'.up
      /\ producer'.frames = producer.frames + 1
      /\ producer'.savedFrames = producer'.frames
      /\ producer'.savedAge = producer.savedAge
  BY <1>1, ClosedFields
<1>3. burst' <= Rate /\ sinceFlush' \in 0 .. SaveEvery /\ hostless' = hostless
  BY <1>1, Constants
<1> QED
  BY <1>1, <1>2, <1>3, SavedKeepsInv

\* A tick that finds a save young enough leaves the count as it is: the next
\* tick is a renewal away, and the save was less than a renewal ago.
LEMMA YoungKeepsInv ==
    ASSUME FrameInv, Serving, Kept, producer' = producer,
           producer.savedAge \in 0 .. SaveEvery - 1,
           sinceFlush' = 0, UNCHANGED <<sealed, missed, burst, hostless>>
    PROVE  FrameInv'
<1>1. /\ producer \in ProducerType /\ producer.up /\ burst \in 0 .. Rate
      /\ store \in Nat \cup {NoCount} /\ store = producer.savedFrames
  BY DEF FrameInv, FrameTypeOK, Serving
<1>2. store' = store
  BY <1>1, KeptStore DEF FrameInv
<1>3. FrameTypeOK'
  BY <1>2, Constants DEF FrameInv, FrameTypeOK
<1>4. SaveInv'
  <2> SUFFICES ASSUME Owing
               PROVE  /\ producer'.savedAge # Unsaved
                      /\ producer'.savedAge < SaveEvery =>
                           Unsafe' <= Units(producer'.savedAge) + burst'
                      /\ Unsafe' <= Units(SaveEvery + sinceFlush') - Rate + burst'
    BY <1>2 DEF SaveInv, Owing, Units
  <2>1. producer.savedAge # Unsaved /\ producer.savedAge \in Nat /\ producer.savedAge < SaveEvery
    BY Constants DEF Unsaved
  <2>6. Unsafe <= Units(producer.savedAge) + burst
    BY <1>1, <2>1 DEF FrameInv, SaveInv
  <2>2. Unsafe' = Unsafe /\ Unsafe \in Int /\ Units(producer'.savedAge) = Units(producer.savedAge)
    BY <1>1 DEF Unsafe, ProducerType, NoCount
  <2>3. producer.savedAge + 1 \in Nat /\ producer.savedAge + 1 <= SaveEvery /\ SaveEvery \in Nat
    BY <2>1, Constants
  <2>4. /\ Units(producer.savedAge) \in Nat /\ Units(SaveEvery) \in Nat
        /\ Units(producer.savedAge) + Rate <= Units(SaveEvery)
    BY <2>1, <2>3, UnitsFacts
  <2>5. Units(SaveEvery + sinceFlush') = Units(SaveEvery)
    BY Constants DEF Units
  <2> QED
    BY <1>1, <2>1, <2>2, <2>4, <2>5, <2>6, Constants
<1>5. AbsenceInv' /\ CountInv'
  BY <1>1, <1>2 DEF FrameInv, AbsenceInv, CountInv, Owing, Heard
<1> QED
  BY <1>3, <1>4, <1>5 DEF FrameInv

LEMMA FlushedFields ==
    ASSUME NEW h \in ProducerType, h.up, ~h.ended
    PROVE  LET f == FlushFrames(h) IN
           /\ f \in ProducerType /\ f.up /\ ~f.ended /\ f.frames = h.frames
           /\ f.savedAge \in {0, h.savedAge}
           /\ \/ f.savedFrames = h.frames
              \/ f = h /\ h.savedAge \in 0 .. SaveEvery - 1
<1>1. 0 \in Unsaved .. SaveEvery
  BY Constants DEF Unsaved
<1>2. CASE h.frames = h.savedFrames \/ h.savedAge \in 0 .. SaveEvery - 1
  BY <1>2 DEF FlushFrames
<1>3. CASE ~(h.frames = h.savedFrames \/ h.savedAge \in 0 .. SaveEvery - 1)
  BY <1>1, <1>3, SavedFields DEF FlushFrames
<1> QED
  BY <1>2, <1>3

LEMMA TickKeepsInv ==
    ASSUME FrameInv, FrameTick PROVE FrameInv'
<1> DEFINE f == FlushFrames(producer)
<1>1. /\ Serving /\ Kept /\ hostless' = hostless /\ missed' = missed /\ sinceFlush' = 0
      /\ producer \in ProducerType /\ producer.up /\ ~producer.ended
      /\ sealed \in Nat /\ burst \in 0 .. Rate
  BY DEF FrameTick, FrameInv, FrameTypeOK, Serving
<1>2. /\ f \in ProducerType /\ f.up /\ ~f.ended /\ f.frames = producer.frames
      /\ f.savedAge \in {0, producer.savedAge}
      /\ \/ f.savedFrames = producer.frames
         \/ f = producer /\ producer.savedAge \in 0 .. SaveEvery - 1
  BY <1>1, FlushedFields
<1>3. sinceFlush' \in 0 .. SaveEvery /\ 0 \in {0, 1} /\ 1 \in {0, 1}
  BY <1>1, Constants
<1>4. CASE producer' = f /\ UNCHANGED <<sealed, burst>>
  <2>1. CASE f.savedFrames = producer.frames
    <3>1. /\ producer'.frames = producer.frames + 0 /\ sealed' = sealed + 0
          /\ burst' = burst + 0 /\ burst' <= Rate
      BY <1>1, <1>2, <1>4, Constants DEF ProducerType
    <3> QED
      BY <1>1, <1>2, <1>3, <1>4, <2>1, <3>1, SavedKeepsInv
  <2>2. CASE f = producer /\ producer.savedAge \in 0 .. SaveEvery - 1
    BY <1>1, <1>4, <2>2, YoungKeepsInv
  <2> QED
    BY <1>2, <2>1, <2>2
<1>5. CASE Seal /\ producer' = [Closed(f) EXCEPT !.ended = TRUE]
  <2>1. /\ producer' \in ProducerType /\ producer'.up /\ producer'.frames = f.frames + 1
        /\ producer'.savedFrames = producer'.frames /\ producer'.savedAge = f.savedAge
    BY <1>2, <1>5, ClosedFields
  <2>2. sealed' = sealed + 1 /\ burst' = burst + 1 /\ burst' <= Rate
    BY <1>1, <1>5, Constants DEF Seal
  <2> QED
    BY <1>1, <1>2, <1>3, <2>1, <2>2, SavedKeepsInv
<1>6. CASE producer' = [SaveFrames(f) EXCEPT !.ended = TRUE] /\ UNCHANGED <<sealed, burst>>
  <2>1. /\ producer' \in ProducerType /\ producer'.up /\ producer'.frames = f.frames
        /\ producer'.savedFrames = producer'.frames /\ producer'.savedAge = f.savedAge
    BY <1>2, <1>6, SaveFramesFields, EndedFields
  <2>2. /\ producer'.frames = producer.frames + 0 /\ sealed' = sealed + 0
        /\ burst' = burst + 0 /\ burst' <= Rate
    BY <1>1, <1>2, <1>6, <2>1, Constants DEF ProducerType
  <2> QED
    BY <1>1, <1>2, <1>3, <2>1, <2>2, SavedKeepsInv
<1> QED
  BY <1>4, <1>5, <1>6 DEF FrameTick

\* A frame that a host has not been handed.
LEMMA MissedKeepsInv ==
    ASSUME FrameInv, producer.up, sealed' = sealed + 1, missed' = missed + 1,
           UNCHANGED <<producer, store, burst, lag, sinceFlush, hostless>>
    PROVE  FrameInv'
<1>1. sealed \in Nat /\ missed \in Nat
  BY DEF FrameInv, FrameTypeOK
<1>2. Heard' = Heard
  BY <1>1 DEF Heard
<1>3. FrameTypeOK'
  BY <1>1 DEF FrameInv, FrameTypeOK
<1>4. SaveInv' /\ AbsenceInv' /\ CountInv'
  BY <1>2 DEF FrameInv, SaveInv, AbsenceInv, CountInv, Owing, Unsafe, Units
<1> QED
  BY <1>3, <1>4 DEF FrameInv

\* The others seal on for a while after the host is gone.
LEMMA HostlessKeepsInv ==
    ASSUME FrameInv, Seal, ~producer.up, hostless < HostlessFor,
           UNCHANGED <<producer, store, missed, lag, sinceFlush, hostless>>
    PROVE  FrameInv'
<1>1. /\ sealed \in Nat /\ missed \in Nat /\ burst \in 0 .. Rate /\ burst < Rate
      /\ sealed' = sealed + 1 /\ burst' = burst + 1
      /\ hostless \in Nat /\ store \in Nat \cup {NoCount}
  BY Constants DEF FrameInv, FrameTypeOK, Seal
<1>2. FrameTypeOK'
  BY <1>1, Constants DEF FrameInv, FrameTypeOK
<1>3. SaveInv' /\ CountInv'
  BY DEF SaveInv, CountInv
<1>4. AbsenceInv'
  <2> DEFINE u == Units(2 * SaveEvery + hostless)
  <2>1. 2 * SaveEvery + hostless \in Nat
    BY <1>1, Constants
  <2>2. u \in Nat
    BY <2>1, UnitsFacts
  <2>6. Heard \in Int /\ Heard' = Heard + 1
    BY <1>1 DEF Heard
  <2>3. Owing => Heard <= store + u - Rate + burst
    BY DEF FrameInv, AbsenceInv
  <2>4. Owing => Heard' <= store + u /\ Heard' <= store + u - Rate + burst'
    BY <1>1, <2>2, <2>3, <2>6, Constants DEF Owing
  <2>5. Owing' = Owing /\ u' = u
    BY DEF Owing, Units
  <2> QED
    BY <2>4, <2>5 DEF AbsenceInv
<1> QED
  BY <1>2, <1>3, <1>4 DEF FrameInv

\* A death loses what was not saved.
LEMMA DeathKeepsInv ==
    ASSUME FrameInv, HostDies PROVE FrameInv'
<1>1. /\ producer \in ProducerType /\ producer.up /\ sealed \in Nat /\ missed \in Nat /\ burst \in 0 .. Rate
      /\ store = producer.savedFrames /\ store \in Nat \cup {NoCount}
      /\ sinceFlush \in 0 .. SaveEvery
      /\ producer' = [producer EXCEPT !.up = FALSE] /\ hostless' = 0
      /\ UNCHANGED <<store, sealed, missed, burst, sinceFlush>>
  BY DEF FrameInv, FrameTypeOK, HostDies
<1>2. producer' \in ProducerType /\ ~producer'.up
  BY <1>1 DEF ProducerType
<1>3. FrameTypeOK'
  BY <1>1, <1>2, Constants DEF FrameTypeOK, NoCount
<1>4. SaveInv' /\ CountInv'
  BY <1>2 DEF SaveInv, CountInv
<1>5. AbsenceInv'
  <2>1. /\ SaveEvery + sinceFlush \in Nat /\ 2 * SaveEvery \in Nat
        /\ SaveEvery + sinceFlush <= 2 * SaveEvery
    BY <1>1, Constants
  <2>2. /\ Units(SaveEvery + sinceFlush) \in Nat /\ Units(2 * SaveEvery) \in Nat
        /\ Units(SaveEvery + sinceFlush) <= Units(2 * SaveEvery)
    BY <2>1, UnitsFacts
  <2>3. Units(2 * SaveEvery + hostless') = Units(2 * SaveEvery)
    BY <1>1, Constants DEF Units
  <2>4. Owing => /\ producer.frames - store <= Units(SaveEvery + sinceFlush) - Rate + burst
                 /\ Heard <= producer.frames
    BY <1>1 DEF FrameInv, SaveInv, CountInv, Unsafe
  <2>5. Owing => /\ Heard <= store + Units(2 * SaveEvery) - Rate + burst
                 /\ Heard <= store + Units(2 * SaveEvery)
    <3>1. producer.frames \in Nat /\ Heard \in Int
      BY <1>1 DEF ProducerType, Heard
    <3> QED
      BY <1>1, <2>2, <2>4, <3>1, Constants DEF Owing
  <2>6. Owing' = Owing
    BY <1>1 DEF Owing
  <2>7. Units(2 * SaveEvery + hostless)' = Units(2 * SaveEvery)
    BY <2>3 DEF Units
  <2>8. Heard' = Heard
    BY <1>1 DEF Heard
  <2> QED
    BY <1>1, <2>5, <2>6, <2>7, <2>8 DEF AbsenceInv
<1> QED
  BY <1>3, <1>4, <1>5 DEF FrameInv

\* A return is charged more than an absence can have cost.
LEMMA ReturnKeepsInv ==
    ASSUME FrameInv, HostReturns PROVE FrameInv'
<1>1. /\ ~producer.up /\ store < FrameLimit /\ producer' = Reloaded
      /\ store' = producer'.savedFrames /\ sinceFlush' = SaveEvery /\ hostless' = hostless
      /\ missed \in Nat /\ missed' = missed /\ sealed \in Nat /\ burst \in 0 .. Rate /\ hostless \in 0 .. HostlessFor
      /\ store \in Nat \cup {NoCount}
  BY DEF FrameInv, FrameTypeOK, HostReturns
<1>2. CASE ResumedFrames(store) >= FrameLimit
  <2>1. /\ producer' = [up |-> TRUE, ended |-> FALSE, savedAge |-> Unsaved,
                        frames |-> ResumedFrames(store), savedFrames |-> store]
        /\ UNCHANGED <<sealed, burst>>
    BY <1>1, <1>2 DEF Reloaded, HostReturns
  <2>2. ResumedFrames(store) \in Nat /\ store <= ResumedFrames(store) /\ ~Owing
    BY <1>1, <1>2, Constants DEF ResumedFrames, Owing, NoCount
  <2>3. /\ producer' \in ProducerType /\ producer'.up /\ ~producer'.ended /\ store' = store
        /\ producer'.frames = ResumedFrames(store)
    BY <1>1, <2>1, <2>2, Constants DEF ProducerType, Unsaved
  <2>4. FrameTypeOK'
    <3>1. producer'.frames >= FrameLimit /\ store' = producer'.savedFrames
      BY <1>1, <1>2, <2>3
    <3>2. store' <= producer'.frames /\ store' \in Nat \cup {NoCount}
      BY <1>1, <2>2, <2>3
    <3>3. sealed' \in Nat /\ missed' \in Nat /\ burst' \in 0 .. Rate /\ sinceFlush' \in 0 .. SaveEvery
          /\ hostless' \in 0 .. HostlessFor
      BY <1>1, <2>1, Constants
    <3> QED
      BY <2>3, <3>1, <3>2, <3>3 DEF FrameTypeOK
  <2>5. ~Owing' /\ ~(producer'.frames < FrameLimit)
    BY <1>2, <2>2, <2>3, Constants DEF Owing
  <2> QED
    BY <2>3, <2>4, <2>5 DEF FrameInv, SaveInv, AbsenceInv, CountInv
<1>3. CASE ~(ResumedFrames(store) >= FrameLimit)
  <2>1. store \in Nat /\ ResumedFrames(store) = store + Charge /\ Owing
    BY <1>1, <1>3, Constants DEF ResumedFrames, Owing, NoCount
  <2>2. /\ sealed' = sealed + 1 /\ burst' = burst + 1 /\ burst' \in 0 .. Rate
        /\ sealed' \in Nat
    BY <1>1, <1>3, Constants DEF HostReturns, Seal
  <2>3. /\ producer' \in ProducerType /\ producer'.up /\ ~producer'.ended
        /\ producer'.frames = store + Charge + 1
        /\ producer'.savedFrames = store + Charge /\ producer'.savedAge = 0
    <3> DEFINE loaded == [up |-> TRUE, ended |-> FALSE, savedAge |-> Unsaved,
                          frames |-> ResumedFrames(store), savedFrames |-> store]
    <3>1. 0 \in Unsaved .. SaveEvery /\ Unsaved \in Unsaved .. SaveEvery
      BY Constants DEF Unsaved
    <3>2. loaded \in ProducerType
      BY <2>1, <3>1, Constants DEF ProducerType
    <3>3. loaded.frames = store + Charge /\ loaded.up /\ ~loaded.ended
      BY <2>1
    <3>4. producer' = CountFrame(Saved(loaded, 0))
      BY <1>1, <1>3 DEF Reloaded
    <3> HIDE DEF loaded
    <3>5. LET s == Saved(loaded, 0) IN
          /\ s \in ProducerType /\ s.up /\ ~s.ended /\ s.frames = store + Charge
          /\ s.savedFrames = store + Charge /\ s.savedAge = 0
      BY <3>1, <3>2, <3>3, SavedFields
    <3> QED
      BY <3>4, <3>5, CountedFields
  <2>4. FrameTypeOK'
    BY <1>1, <2>1, <2>2, <2>3, Constants DEF FrameTypeOK, NoCount
  <2>5. Heard' <= producer'.frames
    <3>1. /\ 2 * SaveEvery + hostless \in Nat /\ 2 * SaveEvery + HostlessFor \in Nat
          /\ 2 * SaveEvery + hostless <= 2 * SaveEvery + HostlessFor
      BY <1>1, Constants
    <3>2. /\ Units(2 * SaveEvery + hostless) \in Nat
          /\ Units(2 * SaveEvery + hostless) <= Units(2 * SaveEvery + HostlessFor)
          /\ Units(2 * SaveEvery + HostlessFor) \in Nat
      BY <3>1, UnitsFacts
    <3>4. Heard \in Int /\ Heard' = Heard + 1
      BY <1>1, <2>2 DEF Heard
    <3>3. Heard <= store + Units(2 * SaveEvery + hostless)
      BY <1>1, <2>1 DEF FrameInv, AbsenceInv
    <3> QED
      BY <1>1, <2>1, <2>2, <2>3, <3>2, <3>3, <3>4, Constants
  <2>6. SaveInv'
    <3>1. Unsafe' = 1 /\ producer'.savedAge = 0 /\ producer'.savedAge # Unsaved
      BY <2>1, <2>3, Constants DEF Unsafe, Unsaved
    <3>2. Units(producer'.savedAge) = 0 /\ Units(1) = Rate
      BY <3>1, Constants DEF Units
    <3>3. sinceFlush' \in 0 .. SaveEvery
      BY <1>1, Constants
    <3>4. Units(SaveEvery + sinceFlush') \in Nat /\ Rate <= Units(SaveEvery + sinceFlush')
      BY <3>3, RenewalUnits
    <3>5. /\ Unsafe' <= Units(producer'.savedAge) + burst'
          /\ Unsafe' <= Units(SaveEvery + sinceFlush') - Rate + burst'
      BY <1>1, <2>2, <3>1, <3>2, <3>4, Constants
    <3> QED
      BY <3>1, <3>5 DEF SaveInv, Units
  <2> QED
    BY <2>3, <2>4, <2>5, <2>6 DEF FrameInv, AbsenceInv, CountInv
<1> QED
  BY <1>2, <1>3

\* Time passes: the bounds move with it.
LEMMA PassKeepsInv ==
    ASSUME FrameInv, FramesPass PROVE FrameInv'
<1>1. /\ producer \in ProducerType /\ sealed \in Nat /\ missed \in Nat /\ burst \in 0 .. Rate
      /\ hostless \in 0 .. HostlessFor /\ sinceFlush \in 0 .. SaveEvery
      /\ store \in Nat \cup {NoCount}
      /\ burst' = 0 /\ UNCHANGED <<store, sealed, missed>>
  BY DEF FrameInv, FrameTypeOK, FramesPass
<1>2. /\ producer' \in ProducerType
      /\ producer'.up = producer.up /\ producer'.ended = producer.ended
      /\ producer'.frames = producer.frames /\ producer'.savedFrames = producer.savedFrames
      /\ producer'.savedAge = IF producer.savedAge \in {Unsaved, SaveEvery}
                              THEN producer.savedAge ELSE producer.savedAge + 1
  BY <1>1, Constants DEF FramesPass, ProducerType, Unsaved
<1>3. FrameTypeOK'
  <2>1. sinceFlush' \in 0 .. SaveEvery /\ hostless' \in 0 .. HostlessFor
    BY <1>1, Constants DEF FramesPass
  <2> QED
    BY <1>1, <1>2, <2>1, Constants DEF FrameInv, FrameTypeOK
<1>4. Owing' = Owing /\ Unsafe' = Unsafe /\ Heard' = Heard /\ Heard \in Int
  BY <1>1, <1>2 DEF Owing, Unsafe, Heard
<1>5. SaveInv'
  <2> SUFFICES ASSUME producer.up, Owing
               PROVE  /\ producer'.savedAge # Unsaved
                      /\ producer'.savedAge < SaveEvery => Unsafe <= Units(producer'.savedAge)
                      /\ Unsafe <= Units(SaveEvery + sinceFlush') - Rate
    <3>1. \A u \in Nat : u + burst' = u
      BY <1>1
    <3>2. producer'.savedAge # Unsaved => producer'.savedAge \in Nat
      BY <1>2 DEF ProducerType, Unsaved
    <3>3. sinceFlush' \in 0 .. SaveEvery
      BY <1>3 DEF FrameTypeOK
    <3>4. Units(SaveEvery + sinceFlush') \in Nat
      BY <3>3, RenewalUnits
    <3>5. producer'.savedAge # Unsaved => Units(producer'.savedAge) \in Nat
      BY <3>2, UnitsFacts
    <3>6. Units(SaveEvery + sinceFlush') - Rate + burst' = Units(SaveEvery + sinceFlush') - Rate
      BY <1>1, <3>4, Constants
    <3>7. producer'.savedAge # Unsaved => Units(producer'.savedAge) + burst' = Units(producer'.savedAge)
      BY <1>1, <3>5
    <3> QED
      BY <1>2, <1>4, <3>6, <3>7 DEF SaveInv, Units
  <2>1. /\ producer.savedAge # Unsaved /\ producer.savedAge \in 0 .. SaveEvery
        /\ producer.savedAge < SaveEvery => Unsafe <= Units(producer.savedAge) + burst
        /\ Unsafe <= Units(SaveEvery + sinceFlush) - Rate + burst
    BY <1>1, Constants DEF FrameInv, SaveInv, ProducerType, Unsaved
  <2>2. Unsafe \in Int
    BY <1>1 DEF Unsafe, ProducerType, NoCount
  <2>3. producer'.savedAge # Unsaved
    BY <1>2, <2>1, Constants DEF Unsaved
  <2>4. ASSUME producer'.savedAge < SaveEvery PROVE Unsafe <= Units(producer'.savedAge)
    <3>1. /\ producer.savedAge < SaveEvery /\ producer.savedAge \in Nat
          /\ producer'.savedAge = producer.savedAge + 1
      BY <1>2, <2>1, <2>4, Constants
    <3>2. Units(producer.savedAge) \in Nat /\ Units(producer.savedAge + 1) = Units(producer.savedAge) + Rate
      BY <3>1, UnitsFacts
    <3>3. Units(producer'.savedAge) = Units(producer.savedAge + 1)
      BY <3>1
    <3> QED
      BY <1>1, <2>1, <2>2, <3>1, <3>2, <3>3, Constants
  <2>5. Unsafe <= Units(SaveEvery + sinceFlush') - Rate
    <3>1. CASE producer.ended
      <4>1. store = producer.frames /\ store = producer.savedFrames
        BY <3>1 DEF FrameInv, FrameTypeOK
      <4>2. Unsafe = 0
        BY <1>1, <4>1 DEF Unsafe, ProducerType
      <4>3. sinceFlush' \in 0 .. SaveEvery
        BY <1>3 DEF FrameTypeOK
      <4>4. Units(SaveEvery + sinceFlush') \in Nat /\ Rate <= Units(SaveEvery + sinceFlush')
        BY <4>3, RenewalUnits
      <4> QED
        BY <4>2, <4>4, Constants
    <3>2. CASE ~producer.ended
      <4>1. SaveEvery + sinceFlush \in Nat
        BY <1>1, Constants
      <4>2. /\ Units(SaveEvery + sinceFlush) \in Nat
            /\ Units(SaveEvery + sinceFlush + 1) = Units(SaveEvery + sinceFlush) + Rate
        BY <4>1, UnitsFacts
      <4>3. SaveEvery + sinceFlush' = SaveEvery + sinceFlush + 1
        BY <1>1, <3>2, Constants DEF FramesPass, Serving
      <4>4. Units(SaveEvery + sinceFlush') = Units(SaveEvery + sinceFlush) + Rate
        BY <4>2, <4>3
      <4> QED
        BY <1>1, <2>1, <2>2, <4>2, <4>4, Constants
    <3> QED
      BY <3>1, <3>2
  <2> QED
    BY <2>3, <2>4, <2>5
<1>6. AbsenceInv'
  <2> DEFINE u == Units(2 * SaveEvery + hostless)
  <2> SUFFICES ASSUME ~producer.up, Owing
               PROVE  /\ Heard <= store + Units(2 * SaveEvery + hostless')
                      /\ hostless' < HostlessFor =>
                           Heard <= store + Units(2 * SaveEvery + hostless') - Rate + burst'
    BY <1>1, <1>2, <1>4 DEF AbsenceInv, Units
  <2>1. 2 * SaveEvery + hostless \in Nat
    BY <1>1, Constants
  <2>2. u \in Nat /\ Units(2 * SaveEvery + hostless + 1) = u + Rate
    BY <2>1, UnitsFacts
  <2>3. /\ Heard <= store + u
        /\ hostless < HostlessFor => Heard <= store + u - Rate + burst
    BY DEF FrameInv, AbsenceInv
  <2>4. CASE hostless = HostlessFor
    BY <1>1, <1>4, <2>3, <2>4 DEF FramesPass
  <2>5. CASE hostless # HostlessFor
    <3>1. 2 * SaveEvery + hostless' = 2 * SaveEvery + hostless + 1
      BY <1>1, <2>5, Constants DEF FramesPass
    <3>2. Units(2 * SaveEvery + hostless') = u + Rate
      BY <2>2, <3>1
    <3>3. hostless < HostlessFor /\ store \in Nat
      BY <1>1, <2>5, Constants DEF Owing
    <3> QED
      BY <1>1, <1>4, <2>2, <2>3, <3>2, <3>3, Constants
  <2> QED
    BY <2>4, <2>5
<1>7. CountInv'
  BY <1>1, <1>2, <1>4 DEF FrameInv, CountInv
<1> QED
  BY <1>3, <1>5, <1>6, <1>7 DEF FrameInv

LEMMA FrameStep == FrameInv /\ [FrameNext]_frameVars => FrameInv'
<1> SUFFICES ASSUME FrameInv, [FrameNext]_frameVars PROVE FrameInv'
  OBVIOUS
<1>1. CASE PeerSeals
  <2>1. CASE producer.up
    BY <1>1, <2>1, MissedKeepsInv DEF PeerSeals
  <2>2. CASE ~producer.up
    BY <1>1, <2>2, HostlessKeepsInv DEF PeerSeals
  <2> QED
    BY <2>1, <2>2
<1>2. CASE HostSeals \/ Delivers
  <2>1. sealed \in Nat /\ missed \in Nat
    BY DEF FrameInv, FrameTypeOK
  <2>2. /\ burst < Rate /\ burst' = burst + 1 /\ sealed' \in Nat /\ missed' \in Nat
        /\ Heard' \in {Heard, Heard + 1}
    BY <1>2, <2>1 DEF HostSeals, Delivers, Seal, Heard
  <2> QED
    BY <1>2, <2>2, CountedKeepsInv DEF HostSeals, Delivers
<1>3. CASE UNCHANGED frameVars
  <2>1. FrameTypeOK' /\ CountInv'
    BY <1>3 DEF frameVars, FrameInv, FrameTypeOK, CountInv, Owing, Heard
  <2>2. SaveInv' /\ AbsenceInv'
    BY <1>3 DEF frameVars, FrameInv, SaveInv, AbsenceInv, Owing, Unsafe, Units, Heard
  <2> QED
    BY <2>1, <2>2 DEF FrameInv
<1> QED
  BY <1>1, <1>2, <1>3, StatesKeepsInv, CloseKeepsInv, TickKeepsInv, DeathKeepsInv,
     ReturnKeepsInv, PassKeepsInv
  DEF FrameNext

LEMMA FrameStart == FrameInit => FrameInv
<1>1. ASSUME producer = [up |-> TRUE, ended |-> FALSE, frames |-> 1,
                         savedFrames |-> 0, savedAge |-> 0],
             store = 0, sealed = 1, missed = 0, burst = 1, sinceFlush = SaveEvery, hostless = 0
      PROVE  FrameInv
  <2>1. FrameTypeOK
    BY <1>1, Constants DEF FrameTypeOK, ProducerType, Unsaved, NoCount
  <2>2. SaveInv
    <3>1. Unsafe = 1 /\ producer.savedAge = 0 /\ producer.savedAge # Unsaved
      BY <1>1 DEF Unsafe, Unsaved
    <3>2. Units(0) = 0 /\ Units(1) = Rate
      BY Constants DEF Units
    <3>3. sinceFlush \in 0 .. SaveEvery
      BY <1>1, Constants
    <3>4. Units(SaveEvery + sinceFlush) \in Nat /\ Rate <= Units(SaveEvery + sinceFlush)
      BY <3>3, RenewalUnits
    <3>5. Unsafe <= Units(producer.savedAge) + burst
      BY <1>1, <3>1, <3>2
    <3>6. Unsafe <= Units(SaveEvery + sinceFlush) - Rate + burst
      BY <1>1, <3>1, <3>4, Constants
    <3> QED
      BY <3>1, <3>5, <3>6 DEF SaveInv
  <2>3. AbsenceInv /\ CountInv
    BY <1>1 DEF AbsenceInv, CountInv, Heard
  <2> QED
    BY <2>1, <2>2, <2>3 DEF FrameInv
<1>2. ASSUME producer = [up |-> FALSE, ended |-> FALSE, frames |-> 0,
                         savedFrames |-> 0, savedAge |-> Unsaved],
             store = NoCount, sealed \in 0 .. FrameLimit, missed = 0, burst = 0,
             sinceFlush = 0, hostless = HostlessFor
      PROVE  FrameInv
  <2>1. FrameTypeOK
    <3>1. producer \in ProducerType /\ ~producer.up
      BY <1>2, Constants DEF ProducerType, Unsaved
    <3> QED
      BY <1>2, <3>1, Constants DEF FrameTypeOK
  <2> QED
    BY <1>2, <2>1 DEF FrameInv, SaveInv, AbsenceInv, CountInv, Owing
<1> QED
  BY <1>1, <1>2 DEF FrameInit

\* A host with budget left has counted every frame that its room sealed, but those
\* that the relay has under way or dropped while a host was there: what a death can lose of the count (flush_frames writes it once a renewal, and the
\* clock finds that out a renewal late at most) and what the others seal before
\* the room gives its host up is never more than resumed_frames charges.
THEOREM CountHolds == FrameSpec => []CountNeverBehind
<1>1. FrameInv => CountNeverBehind
  <2> SUFFICES ASSUME FrameInv, producer.up, producer.frames < FrameLimit
               PROVE  sealed <= producer.frames + missed
    BY DEF CountNeverBehind
  <2>1. sealed \in Nat /\ missed \in Nat /\ producer.frames \in Nat
    BY DEF FrameInv, FrameTypeOK, ProducerType
  <2>2. sealed - missed <= producer.frames
    BY DEF FrameInv, CountInv, Heard
  <2> QED
    BY <2>1, <2>2
<1> QED
  BY <1>1, FrameStart, FrameStep, PTL DEF FrameSpec

----------------------------------------------------------------------------
\* The outbound queue.

LEMMA BytesDef ==
    ASSUME NEW f, NEW x
    PROVE  x \in BytesOf(f) <=> \E i \in DOMAIN f : x \in {i} \X (1 .. f[i])
  BY Zenon DEF BytesOf

\* A frame more is its bytes more.
LEMMA OneFrameMore ==
    ASSUME NEW f, NEW g, NEW i, NEW n \in Nat, i \notin DOMAIN f, DOMAIN g = DOMAIN f \cup {i},
           \A j \in DOMAIN f : g[j] = f[j], g[i] = n,
           IsFiniteSet(BytesOf(f)) \/ IsFiniteSet(BytesOf(g))
    PROVE  /\ IsFiniteSet(BytesOf(f)) /\ IsFiniteSet(BytesOf(g))
           /\ Cardinality(BytesOf(g)) = Cardinality(BytesOf(f)) + n
<1> DEFINE A == BytesOf(f)
           B == {i} \X (1 .. n)
<1>1. BytesOf(g) = A \cup B
  <2>1. ASSUME NEW x PROVE x \in BytesOf(g) <=> x \in A \/ x \in B
    BY BytesDef
  <2> QED
    BY <2>1
<1>2. A \cap B = {}
  <2> SUFFICES ASSUME NEW x \in A, x \in B PROVE FALSE
    OBVIOUS
  <2>1. PICK j \in DOMAIN f : x \in {j} \X (1 .. f[j])
    BY BytesDef
  <2> QED
    BY <2>1
<1>3. IsFiniteSet(B) /\ Cardinality(B) = n
  <2>1. IsFiniteSet(1 .. n) /\ Cardinality(1 .. n) = n
    BY FS_Interval
  <2>2. IsFiniteSet({i}) /\ Cardinality({i}) = 1
    BY FS_Singleton
  <2>3. IsFiniteSet(B) /\ Cardinality(B) = Cardinality({i}) * Cardinality(1 .. n)
    BY <2>1, <2>2, FS_Product
  <2> QED
    BY <2>1, <2>2, <2>3
<1> HIDE DEF A, B
<1>4. IsFiniteSet(A)
  <2>1. A \subseteq BytesOf(g)
    BY <1>1
  <2>2. CASE IsFiniteSet(BytesOf(g))
    BY <2>1, <2>2, FS_Subset
  <2> QED
    BY <2>2 DEF A
<1>5. /\ IsFiniteSet(A \cup B)
      /\ Cardinality(A \cup B) = Cardinality(A) + Cardinality(B) - Cardinality(A \cap B)
  BY <1>3, <1>4, FS_Union
<1>6. Cardinality(A \cap B) = 0 /\ Cardinality(A) \in Nat
  BY <1>2, <1>4, FS_EmptySet, FS_CardinalityType
<1> QED
  BY <1>1, <1>3, <1>4, <1>5, <1>6 DEF A

\* Behind the first frame of a channel the bytes only move up.
LEMMA MovedUp ==
    ASSUME NEW f, NEW g, NEW m \in Nat, DOMAIN f = 1 .. m, DOMAIN g = 2 .. m + 1,
           \A i \in 1 .. m : g[i + 1] = f[i], IsFiniteSet(BytesOf(g))
    PROVE  IsFiniteSet(BytesOf(f)) /\ Cardinality(BytesOf(f)) = Cardinality(BytesOf(g))
<1> DEFINE S == BytesOf(g)
           T == BytesOf(f)
           b == [x \in S |-> <<x[1] - 1, x[2]>>]
<1>1. ASSUME NEW x \in S
      PROVE  /\ x[1] \in 2 .. m + 1 /\ x[2] \in 1 .. g[x[1]] /\ x = <<x[1], x[2]>>
             /\ b[x] = <<x[1] - 1, x[2]>>
  <2>1. PICK i \in DOMAIN g : x \in {i} \X (1 .. g[i])
    BY BytesDef
  <2> QED
    BY <2>1
<1> HIDE DEF b, S, T
<1>2. ASSUME NEW x \in S PROVE b[x] \in T
  <2> DEFINE k == x[1] - 1
  <2>1. k \in 1 .. m /\ k + 1 = x[1]
    BY <1>1
  <2>2. f[k] = g[x[1]]
    BY <2>1
  <2>3. b[x] = <<k, x[2]>> /\ x[2] \in 1 .. f[k]
    BY <1>1, <2>2
  <2> HIDE DEF k
  <2>4. b[x] \in {k} \X (1 .. f[k])
    BY <2>3
  <2> QED
    BY <2>1, <2>4, BytesDef DEF T
<1>3. ASSUME NEW x \in S, NEW y \in S, b[x] = b[y] PROVE x = y
  <2>1. x[1] - 1 = y[1] - 1 /\ x[2] = y[2]
    BY <1>1, <1>3
  <2>2. x[1] \in Int /\ y[1] \in Int
    BY <1>1
  <2>3. x[1] = y[1]
    BY <2>1, <2>2
  <2> QED
    BY <1>1, <2>1, <2>3
<1>4. ASSUME NEW y \in T PROVE \E x \in S : b[x] = y
  <2>1. PICK i \in DOMAIN f : y \in {i} \X (1 .. f[i])
    BY BytesDef DEF T
  <2> DEFINE x == <<i + 1, y[2]>>
  <2>2. i + 1 \in DOMAIN g /\ g[i + 1] = f[i] /\ y = <<i, y[2]>>
    BY <2>1
  <2>3. x \in {i + 1} \X (1 .. g[i + 1])
    BY <2>1, <2>2
  <2>4. x \in S
    BY <2>2, <2>3, BytesDef DEF S
  <2>5. b[x] = <<(i + 1) - 1, y[2]>>
    BY <2>4 DEF b
  <2>6. (i + 1) - 1 = i
    BY <2>1
  <2> QED
    BY <2>2, <2>4, <2>5, <2>6
<1>5. b \in Bijection(S, T)
  <2>1. b \in [S -> T]
    BY <1>2 DEF b
  <2> QED
    BY <1>3, <1>4, <2>1 DEF Bijection, Injection, Surjection, IsInjective
<1>6. ExistsBijection(S, T)
  BY <1>5, Zenon DEF ExistsBijection
<1>7. IsFiniteSet(T) /\ Cardinality(T) = Cardinality(S)
  BY <1>6, FS_Bijection DEF S
<1> QED
  BY <1>7 DEF S, T

LEMMA OneQueued ==
    ASSUME NEW s \in Seq(Nat), NEW n \in Nat, IsFiniteSet(BytesOf(s))
    PROVE  /\ IsFiniteSet(BytesOf(Append(s, n)))
           /\ Cardinality(BytesOf(Append(s, n))) = Cardinality(BytesOf(s)) + n
<1> DEFINE a == Append(s, n)
           k == Len(s) + 1
<1>1. /\ DOMAIN a = DOMAIN s \cup {k} /\ k \notin DOMAIN s
      /\ \A j \in DOMAIN s : a[j] = s[j]
      /\ a[k] = n
  OBVIOUS
<1> HIDE DEF a, k
<1>2. /\ IsFiniteSet(BytesOf(a))
      /\ Cardinality(BytesOf(a)) = Cardinality(BytesOf(s)) + n
  BY <1>1, OneFrameMore
<1> QED
  BY <1>2 DEF a

LEMMA OneReceived ==
    ASSUME NEW s \in Seq(Nat), s # <<>>, IsFiniteSet(BytesOf(s))
    PROVE  /\ IsFiniteSet(BytesOf(Tail(s)))
           /\ Cardinality(BytesOf(s)) = Cardinality(BytesOf(Tail(s))) + Head(s)
<1> DEFINE t == Tail(s)
           m == Len(s) - 1
           g == [i \in 2 .. m + 1 |-> s[i]]
<1>1. /\ m \in Nat /\ DOMAIN t = 1 .. m /\ DOMAIN s = 1 .. m + 1
      /\ Head(s) \in Nat /\ s[1] = Head(s)
      /\ \A i \in 1 .. m : t[i] = s[i + 1]
  OBVIOUS
<1> HIDE DEF t, m
<1>2. /\ DOMAIN g = 2 .. m + 1 /\ 1 \notin DOMAIN g /\ DOMAIN s = DOMAIN g \cup {1}
      /\ \A i \in DOMAIN g : s[i] = g[i]
  BY <1>1
<1>3. \A i \in 1 .. m : g[i + 1] = t[i]
  BY <1>1
<1> HIDE DEF g
<1>4. /\ IsFiniteSet(BytesOf(g))
      /\ Cardinality(BytesOf(s)) = Cardinality(BytesOf(g)) + Head(s)
  BY <1>1, <1>2, OneFrameMore
<1>5. IsFiniteSet(BytesOf(t)) /\ Cardinality(BytesOf(t)) = Cardinality(BytesOf(g))
  BY <1>1, <1>2, <1>3, <1>4, MovedUp
<1> QED
  BY <1>4, <1>5 DEF t

LEMMA NoneQueued == IsFiniteSet(BytesOf(<<>>)) /\ Cardinality(BytesOf(<<>>)) = 0
<1>1. ASSUME NEW x PROVE x \notin BytesOf(<<>>)
  <2>1. DOMAIN <<>> = {}
    OBVIOUS
  <2> QED
    BY <2>1, BytesDef
<1>2. BytesOf(<<>>) = {}
  BY <1>1
<1> QED
  BY <1>2, FS_EmptySet

\* What is counted is there, and what the writer has in hand is nothing unless
\* it is sending.
QueueInv ==
    /\ queued \in Int /\ chan \in Seq(Nat) /\ writing \in Nat /\ spilled \in Nat
    /\ writer \in {"recv", "send", "gone"}
    /\ at \in [Tasks -> QueuePlaces] /\ len \in [Tasks -> Nat]
    /\ writer # "send" => writing = 0
    /\ writer # "gone" => spilled = 0
    /\ IsFiniteSet(BytesOf(chan)) /\ IsFiniteSet(BytesOf(Hand))
    /\ CountIsHeld

LEMMA QueueNumbers ==
    ASSUME QueueInv PROVE InChannel \in Nat /\ InHand \in Nat
  BY FS_CardinalityType DEF QueueInv, InChannel, InHand

LEMMA QueueSum ==
    ASSUME QueueInv
    PROVE  /\ queued \in Int /\ writing \in Nat /\ spilled \in Nat
           /\ queued = InChannel + writing + InHand + spilled /\ queued <= MaxBytes
           /\ MaxBytes \in Nat
  BY QueueAssumption DEF QueueInv, CountIsHeld

LEMMA QueueStart == QueueInit => QueueInv
<1> SUFFICES ASSUME QueueInit PROVE QueueInv
  OBVIOUS
<1>1. BytesOf(Hand) = {}
  <2>1. DOMAIN Hand = {}
    BY DEF QueueInit, Hand
  <2>2. \A x : x \notin BytesOf(Hand)
    BY <2>1, BytesDef
  <2> QED
    BY <2>2
<1>2. /\ IsFiniteSet(BytesOf(Hand)) /\ InHand = 0
      /\ IsFiniteSet(BytesOf(chan)) /\ InChannel = 0
  BY <1>1, FS_EmptySet, NoneQueued DEF InHand, InChannel, QueueInit
<1>3. CountIsHeld
  BY <1>2, QueueAssumption DEF CountIsHeld, QueueInit
<1> QED
  BY <1>2, <1>3 DEF QueueInit, QueueInv, QueuePlaces

\* What the tasks hold, when one of them takes a frame up, puts it down, or none does.
LEMMA HandMore ==
    ASSUME QueueInv, NEW t \in Tasks, at[t] \notin {"reserved", "refused"},
           NEW n \in Nat, len' = [len EXCEPT ![t] = n], at' = [at EXCEPT ![t] = "reserved"]
    PROVE  IsFiniteSet(BytesOf(Hand)') /\ InHand' = InHand + n
<1> DEFINE h == Hand
           g == Hand'
<1>1. /\ DOMAIN g = DOMAIN h \cup {t} /\ t \notin DOMAIN h
      /\ \A j \in DOMAIN h : g[j] = h[j]
      /\ g[t] = n
  BY DEF Hand, QueueInv
<1>2. IsFiniteSet(BytesOf(h))
  BY DEF QueueInv
<1>3. BytesOf(Hand)' = BytesOf(g)
  BY DEF BytesOf
<1> HIDE DEF h, g
<1>4. IsFiniteSet(BytesOf(g)) /\ Cardinality(BytesOf(g)) = Cardinality(BytesOf(h)) + n
  BY <1>1, <1>2, OneFrameMore
<1> QED
  BY <1>3, <1>4 DEF InHand, h

LEMMA HandLess ==
    ASSUME QueueInv, NEW t \in Tasks, at[t] \in {"reserved", "refused"},
           len' = len, NEW place, place \notin {"reserved", "refused"},
           at' = [at EXCEPT ![t] = place]
    PROVE  IsFiniteSet(BytesOf(Hand)') /\ InHand = InHand' + len[t]
<1> DEFINE h == Hand'
           g == Hand
<1>1. /\ DOMAIN g = DOMAIN h \cup {t} /\ t \notin DOMAIN h
      /\ \A j \in DOMAIN h : g[j] = h[j]
      /\ g[t] = len[t] /\ len[t] \in Nat
  BY DEF Hand, QueueInv
<1>2. IsFiniteSet(BytesOf(g))
  BY DEF QueueInv
<1>3. BytesOf(Hand)' = BytesOf(h)
  BY DEF BytesOf
<1> HIDE DEF h, g
<1>4. IsFiniteSet(BytesOf(h)) /\ Cardinality(BytesOf(g)) = Cardinality(BytesOf(h)) + len[t]
  BY <1>1, <1>2, OneFrameMore
<1> QED
  BY <1>3, <1>4 DEF InHand, g

LEMMA HandSame ==
    ASSUME QueueInv,
           \A u \in Tasks : /\ at'[u] \in {"reserved", "refused"} <=> at[u] \in {"reserved", "refused"}
                            /\ at[u] \in {"reserved", "refused"} => len'[u] = len[u]
    PROVE  IsFiniteSet(BytesOf(Hand)') /\ InHand' = InHand
<1>1. Hand' = Hand
  BY DEF Hand
<1> QED
  BY <1>1 DEF QueueInv, InHand, BytesOf

LEMMA ReserveQueue ==
    ASSUME QueueInv, NEW t \in Tasks, NEW n \in Lens, Reserve(t, n) PROVE QueueInv'
<1>1. n \in Nat
  BY QueueAssumption
<1>2. /\ UNCHANGED <<chan, writer, writing, spilled>> /\ at[t] = "out"
      /\ len' = [len EXCEPT ![t] = n]
  BY DEF Reserve
<1>3. InChannel' = InChannel /\ IsFiniteSet(BytesOf(chan))'
  BY <1>2 DEF InChannel, QueueInv
<1>4. InChannel \in Nat /\ InHand \in Nat
  BY QueueNumbers
<1>5. CASE /\ queued + n <= MaxBytes /\ queued' = queued + n
           /\ at' = [at EXCEPT ![t] = "reserved"]
  <2>1. IsFiniteSet(BytesOf(Hand)') /\ InHand' = InHand + n
    BY <1>1, <1>2, <1>5, HandMore
  <2>2. CountIsHeld'
    BY <1>1, <1>2, <1>3, <1>4, <1>5, <2>1, QueueSum DEF CountIsHeld
  <2> QED
    BY <1>1, <1>2, <1>3, <1>5, <2>1, <2>2 DEF QueueInv, QueuePlaces
<1>6. CASE queued' = queued /\ at' = [at EXCEPT ![t] = "slow"]
  <2>1. IsFiniteSet(BytesOf(Hand)') /\ InHand' = InHand
    BY <1>2, <1>6, HandSame DEF QueueInv
  <2>2. CountIsHeld'
    BY <1>2, <1>3, <1>6, <2>1 DEF QueueInv, CountIsHeld
  <2> QED
    BY <1>1, <1>2, <1>3, <1>6, <2>1, <2>2 DEF QueueInv, QueuePlaces
<1> QED
  BY <1>5, <1>6 DEF Reserve

LEMMA TrySendQueue ==
    ASSUME QueueInv, NEW t \in Tasks, TrySend(t) PROVE QueueInv'
<1>1. /\ UNCHANGED <<queued, writer, writing, len, spilled>> /\ at[t] = "reserved"
      /\ len[t] \in Nat
  BY DEF TrySend, QueueInv
<1>2. InChannel \in Nat /\ InHand \in Nat
  BY QueueNumbers
<1>3. CASE chan' = Append(chan, len[t]) /\ at' = [at EXCEPT ![t] = "out"]
  <2>1. IsFiniteSet(BytesOf(Hand)') /\ InHand = InHand' + len[t]
    BY <1>1, <1>3, HandLess
  <2>2. IsFiniteSet(BytesOf(chan)') /\ InChannel' = InChannel + len[t]
    BY <1>1, <1>3, OneQueued DEF QueueInv, InChannel
  <2>3. InHand' \in Nat
    BY <2>1, FS_CardinalityType DEF InHand
  <2>4. CountIsHeld'
    BY <1>1, <1>2, <2>1, <2>2, <2>3, QueueSum DEF CountIsHeld
  <2>5. chan' \in Seq(Nat)
    BY <1>1, <1>3 DEF QueueInv
  <2> QED
    BY <1>1, <1>3, <2>1, <2>2, <2>4, <2>5 DEF QueueInv, QueuePlaces
<1>4. CASE chan' = chan /\ at' = [at EXCEPT ![t] = "refused"]
  <2>1. IsFiniteSet(BytesOf(Hand)') /\ InHand' = InHand
    BY <1>1, <1>4, HandSame DEF QueueInv
  <2>2. InChannel' = InChannel /\ IsFiniteSet(BytesOf(chan))'
    BY <1>4 DEF InChannel, QueueInv
  <2>3. CountIsHeld'
    BY <1>1, <2>1, <2>2 DEF QueueInv, CountIsHeld
  <2> QED
    BY <1>1, <1>4, <2>1, <2>2, <2>3 DEF QueueInv, QueuePlaces
<1> QED
  BY <1>3, <1>4 DEF TrySend

LEMMA LetGoQueue ==
    ASSUME QueueInv, NEW t \in Tasks, GiveBack(t) \/ MoveOn(t) PROVE QueueInv'
<1>1. UNCHANGED <<chan, writer, writing, len, spilled>>
  BY DEF GiveBack, MoveOn
<1>2. InChannel' = InChannel /\ IsFiniteSet(BytesOf(chan))'
  BY <1>1 DEF InChannel, QueueInv
<1>3. InChannel \in Nat /\ InHand \in Nat /\ len[t] \in Nat
  BY QueueNumbers DEF QueueInv
<1>4. CASE GiveBack(t)
  <2>1. IsFiniteSet(BytesOf(Hand)') /\ InHand = InHand' + len[t]
    BY <1>4, HandLess DEF GiveBack
  <2>2. InHand' \in Nat
    BY <2>1, FS_CardinalityType DEF InHand
  <2>3. CountIsHeld'
    BY <1>1, <1>2, <1>3, <1>4, <2>1, <2>2, QueueSum DEF CountIsHeld, GiveBack
  <2> QED
    BY <1>1, <1>2, <1>3, <1>4, <2>1, <2>3 DEF QueueInv, QueuePlaces, GiveBack
<1>5. CASE MoveOn(t)
  <2>1. IsFiniteSet(BytesOf(Hand)') /\ InHand' = InHand
    BY <1>5, HandSame DEF QueueInv, MoveOn
  <2>2. CountIsHeld'
    BY <1>1, <1>2, <1>5, <2>1 DEF QueueInv, CountIsHeld, MoveOn
  <2> QED
    BY <1>1, <1>2, <1>5, <2>1, <2>2 DEF QueueInv, QueuePlaces, MoveOn
<1> QED
  BY <1>4, <1>5

LEMMA WriterQueue ==
    ASSUME QueueInv, Recv \/ Sent \/ Ends \/ Aborted PROVE QueueInv'
<1>1. UNCHANGED <<at, len>>
  BY DEF Recv, Sent, Ends, Aborted
<1>2. IsFiniteSet(BytesOf(Hand)') /\ InHand' = InHand
  BY <1>1, HandSame
<1>3. InChannel \in Nat /\ InHand \in Nat
  BY QueueNumbers
<1>4. CASE Recv
  <2>1. /\ IsFiniteSet(BytesOf(chan)') /\ InChannel = InChannel' + Head(chan)
        /\ chan' \in Seq(Nat) /\ Head(chan) \in Nat
    BY <1>4, OneReceived DEF QueueInv, InChannel, Recv
  <2>2. InChannel' \in Nat
    BY <2>1, FS_CardinalityType DEF InChannel
  <2>3. CountIsHeld'
    BY <1>2, <1>3, <1>4, <2>1, <2>2 DEF QueueInv, CountIsHeld, Recv
  <2> QED
    BY <1>1, <1>2, <1>4, <2>1, <2>3 DEF QueueInv, Recv
<1>5. CASE Sent
  <2>1. InChannel' = InChannel /\ IsFiniteSet(BytesOf(chan))'
    BY <1>5 DEF InChannel, QueueInv, Sent
  <2>2. CountIsHeld'
    BY <1>2, <1>3, <1>5, <2>1, QueueSum DEF CountIsHeld, Sent
  <2> QED
    BY <1>1, <1>2, <1>5, <2>1, <2>2 DEF QueueInv, Sent
<1>6. CASE Ends \/ Aborted
  <2>1. chan' = <<>> /\ writer # "gone" /\ writer' = "gone" /\ writing' = 0
    BY <1>6 DEF Ends, Aborted
  <2>2. chan' \in Seq(Nat)
    BY <2>1
  <2>3. BytesOf(chan)' = BytesOf(<<>>)
    BY <2>1 DEF BytesOf
  <2>4. InChannel' = 0 /\ IsFiniteSet(BytesOf(chan))'
    BY <2>3, NoneQueued DEF InChannel
  <2>5. /\ queued' \in Int /\ spilled' \in Nat /\ queued' = InHand + spilled'
        /\ queued' <= MaxBytes
    <3>1. spilled = 0
      BY <2>1 DEF QueueInv
    <3>2. CASE queued' = queued - writing /\ spilled' = InChannel
      BY <1>3, <3>1, <3>2, QueueSum
    <3>3. CASE queued' = queued /\ spilled' = InChannel + writing
      BY <1>3, <3>1, <3>3, QueueSum
    <3> QED
      BY <1>6, <3>2, <3>3 DEF Ends, Aborted
  <2>6. CountIsHeld'
    BY <1>2, <1>3, <2>1, <2>4, <2>5 DEF CountIsHeld
  <2> QED
    BY <1>1, <1>2, <2>1, <2>2, <2>4, <2>5, <2>6 DEF QueueInv
<1> QED
  BY <1>4, <1>5, <1>6

\* The byte count of a peer's queue is exactly what is held for it, and within the
\* cap, between any two atomic operations of any number of tasks and the writer.
THEOREM QueueCounted == QueueSpec => []CountIsHeld
<1>1. QueueInv /\ [QueueNext]_queueVars => QueueInv'
  <2>1. ASSUME QueueInv, UNCHANGED queueVars PROVE QueueInv'
    BY <2>1 DEF QueueInv, queueVars, CountIsHeld, InChannel, InHand, Hand
  <2> QED
    BY <2>1, ReserveQueue, TrySendQueue, LetGoQueue, WriterQueue DEF QueueNext
<1>2. QueueInv => CountIsHeld
  BY DEF QueueInv
<1> QED
  BY <1>1, <1>2, QueueStart, PTL DEF QueueSpec
=============================================================================
