--------------------------- MODULE PeerAwareness ---------------------------
(***************************************************************************)
(* The awareness states one session keeps of the others: who is present,   *)
(* by awareness client id (crates/client/src/peer: apply_awareness,        *)
(* stamp_awareness, expire_awareness, forget_awareness and the inventory   *)
(* carried by discard_speculative; relay.rs: departed_claim and the roster *)
(* it reads).                                                              *)
(*                                                                         *)
(* An id has the clock of the newest entry applied, and a state or the     *)
(* tombstone of one.  The yrs Awareness is external: an entry applies if   *)
(* its clock is above, or removes the state at its own clock; removing a   *)
(* state steps the clock.  What a state says is left out.                  *)
(***************************************************************************)
EXTENDS Integers

CONSTANTS
    Ids,            \* awareness client ids
    OwnId,          \* the one this connection announced
    Seats,          \* the other seats
    MaxClock,       \* u32::MAX
    StateRenew,     \* awareness_renew_ms
    StateExpire     \* awareness_expire_ms

ASSUME AwarenessAssumption ==
    /\ OwnId \in Ids
    /\ MaxClock \in Nat \ {0}
    /\ StateRenew \in Nat \ {0} /\ StateExpire \in Nat \ {0}

VARIABLES
    known,      \* the Awareness: the clock of each id and whether it has a state
    seen,       \* awareness_seen: how long ago an entry of each id applied
    claims,     \* the roster: the id each seat claims
    untilTick,  \* how long ago the driver ticked
    buried,     \* history: the clock of the last state of each id that went
    quiet       \* history: how long ago each id's last entry applied

awarenessVars == <<known, seen, claims, untilTick, buried, quiet>>

Unseen == -1
NoId == "none"
Vacant == [clock |-> -1, live |-> FALSE]
Aged(age) == IF age \in {Unseen, StateExpire + StateRenew} THEN age ELSE age + 1

----------------------------------------------------------------------------
\* External: Awareness::apply_update for one id.
Applies(held, entry) ==
    \/ held.clock < entry.clock
    \/ held.clock = entry.clock /\ held.live /\ ~entry.live

ApplyEntry(held, id, entry) ==
    IF ~Applies(held, entry) THEN held
    ELSE IF ~entry.live /\ id = OwnId /\ held.live
    THEN [clock |-> entry.clock + 1, live |-> TRUE]
    ELSE entry

\* External: Awareness::remove_state.
RemoveState(held) == [clock |-> held.clock + 1, live |-> FALSE]

\* Mutant of Readable: every clock.
ReadAny(entry) == TRUE

\* apply_awareness: an entry whose clock cannot be stepped is not read.
Readable(entry) == entry.clock # MaxClock

\* Mutant of Stamped: an entry that was ignored renews as well.
StampedAny(id, entry) ==
    IF id = OwnId THEN seen[id] ELSE IF entry.live THEN 0 ELSE Unseen

\* stamp_awareness: an id whose entry applied is seen now, and a removed one is
\* not looked at again; this connection's own is never stamped.
Stamped(id, entry) ==
    IF ~Applies(known[id], entry) THEN seen[id]
    ELSE IF ~entry.live THEN Unseen
    ELSE IF id = OwnId THEN seen[id] ELSE 0

\* Mutant of Adopted: the removed ids are not carried.
AdoptedLive ==
    [id \in Ids |-> IF known[id].live THEN known[id] ELSE Vacant]

\* The inventory, tombstones included, applied to the Awareness of the replica
\* that takes the place of this one.
Adopted ==
    [id \in Ids |-> IF known[id] = Vacant THEN Vacant
                    ELSE ApplyEntry(Vacant, id, known[id])]

Bury(ids) ==
    [id \in Ids |-> IF id \in ids /\ known[id].live THEN known[id].clock
                    ELSE buried[id]]

----------------------------------------------------------------------------
AwarenessInit ==
    /\ known = [id \in Ids |-> Vacant]
    /\ seen = [id \in Ids |-> Unseen]
    /\ claims = [s \in Seats |-> NoId]
    /\ untilTick = 0
    /\ buried = [id \in Ids |-> -1]
    /\ quiet = [id \in Ids |-> Unseen]

\* One entry of an awareness message, new or an old copy, from anyone.
HearEntry(id, entry) ==
    /\ Readable(entry)
    /\ known' = [known EXCEPT ![id] = ApplyEntry(@, id, entry)]
    /\ seen' = [seen EXCEPT ![id] = Stamped(id, entry)]
    /\ quiet' = [quiet EXCEPT ![id] = IF Applies(known[id], entry) THEN 0 ELSE @]
    /\ buried' = IF known[id].live /\ ~known'[id].live THEN Bury({id}) ELSE buried
    /\ UNCHANGED <<claims, untilTick>>

\* hear_joined: the record of a seat is replaced whole.
ClaimId(s, id) ==
    /\ claims' = [claims EXCEPT ![s] = id]
    /\ UNCHANGED <<known, seen, untilTick, buried, quiet>>

\* departed_claim: the id the seat claimed, unless another seat claims it.
DepartedClaim(s) ==
    {id \in Ids : claims[s] = id /\ \A t \in Seats \ {s} : claims[t] # id}

\* hear_left, and forget_awareness of the id that goes with the seat.
SeatGoes(s) ==
    LET going == {id \in DepartedClaim(s) : known[id].live /\ id # OwnId}
    IN  /\ claims[s] # NoId
        /\ claims' = [claims EXCEPT ![s] = NoId]
        /\ seen' = [id \in Ids |-> IF id \in DepartedClaim(s) THEN Unseen
                                   ELSE seen[id]]
        /\ known' = [id \in Ids |-> IF id \in going THEN RemoveState(known[id])
                                    ELSE known[id]]
        /\ buried' = Bury(going)
        /\ UNCHANGED <<untilTick, quiet>>

\* expire_awareness, on the tick.
ExpireStates ==
    LET lapsed == {id \in Ids : seen[id] >= StateExpire}
    IN  /\ seen' = [id \in Ids |-> IF id \in lapsed THEN Unseen ELSE seen[id]]
        /\ known' = [id \in Ids |-> IF id \in lapsed THEN RemoveState(known[id])
                                    ELSE known[id]]
        /\ buried' = Bury(lapsed)
        /\ untilTick' = 0
        /\ UNCHANGED <<claims, quiet>>

\* discard_speculative, as far as awareness goes.
AdoptReplica ==
    /\ known' = Adopted
    /\ UNCHANGED <<seen, claims, untilTick, buried, quiet>>

PassTime ==
    /\ untilTick < StateRenew
    /\ untilTick' = untilTick + 1
    /\ seen' = [id \in Ids |-> Aged(seen[id])]
    /\ quiet' = [id \in Ids |-> Aged(quiet[id])]
    /\ UNCHANGED <<known, claims, buried>>

AwarenessNext ==
    \/ \E id \in Ids, clock \in 0 .. MaxClock, live \in BOOLEAN :
          HearEntry(id, [clock |-> clock, live |-> live])
    \/ \E s \in Seats : SeatGoes(s) \/ \E id \in Ids : ClaimId(s, id)
    \/ ExpireStates
    \/ AdoptReplica
    \/ PassTime

AwarenessSpec == AwarenessInit /\ [][AwarenessNext]_awarenessVars

----------------------------------------------------------------------------
\* Who is shown is there.  A copy of a state that went, whether it was removed,
\* expired, left with its seat or the replica was replaced since, does not bring
\* it back; another's state is kept only while entries of it apply, however many
\* old copies keep arriving; and a clock stays a u32 although removing a state
\* steps it and peers choose it (apply_awareness, stamp_awareness,
\* expire_awareness).
PresenceIsCurrent ==
    \A id \in Ids :
        /\ known[id].clock \in -1 .. MaxClock
        /\ known[id].live =>
            /\ known[id].clock > buried[id]
            /\ id # OwnId => quiet[id] \in 0 .. StateExpire + StateRenew - 1
=============================================================================
