-------------------------- MODULE PeerSessionProofs --------------------------
(***************************************************************************)
(* A guest's session, for every set of peers, states, paths and edits and  *)
(* every window: the rollback is exact, nothing open or a viewer's leaves, *)
(* no local edit is lost or sent twice, holds end with leases and seats,   *)
(* requests are neither forgotten nor hurried, and an ending is earned.    *)
(*                                                                         *)
(* SessionInv is the inductive invariant, in six parts.  An operation on a *)
(* session is described once, by the fields that it changes (the lemmas    *)
(* ...Fields), and an action's lemma (...Step) takes the parts one by one. *)
(* The awareness of a session comes first and is by itself.                *)
(***************************************************************************)
EXTENDS PeerSession, PeerAwareness, SequenceTheorems, FiniteSetTheorems,
        WellFoundedInduction, TLAPS

Entries == [clock : -1 .. MaxClock, live : BOOLEAN]
Ages == Unseen .. StateExpire + StateRenew

AwarenessTypeOK ==
    /\ known \in [Ids -> Entries]
    /\ seen \in [Ids -> Ages] /\ quiet \in [Ids -> Ages]
    /\ buried \in [Ids -> -1 .. MaxClock]
    /\ untilTick \in 0 .. StateRenew

\* What the presence of one id rests on.  The clock never goes back, and the
\* state that went was not above it.  Another's state is there exactly while its
\* last entry is looked at, and the looks come a renewal apart; its clock can
\* still be stepped.
PresentInv(id) ==
    /\ buried[id] <= known[id].clock
    /\ known[id].live => known[id].clock > buried[id]
    /\ seen[id] # Unseen <=> known[id].live /\ id # OwnId
    /\ known[id].live /\ id # OwnId =>
         /\ seen[id] = quiet[id]
         /\ seen[id] <= StateExpire - 1 + untilTick
         /\ known[id].clock < MaxClock

AwarenessInv == AwarenessTypeOK /\ \A id \in Ids : PresentInv(id)

LEMMA AwarenessConstants ==
    /\ MaxClock \in Nat /\ MaxClock >= 1
    /\ StateRenew \in Nat /\ StateRenew >= 1
    /\ StateExpire \in Nat /\ StateExpire >= 1
  BY AwarenessAssumption

\* The inventory carries every id as it is.
LEMMA AdoptedIsKnown ==
    ASSUME AwarenessInv PROVE Adopted = known
<1>1. ASSUME NEW id \in Ids
      PROVE  (IF known[id] = Vacant THEN Vacant ELSE ApplyEntry(Vacant, id, known[id]))
             = known[id]
  <2>1. known[id] \in Entries /\ buried[id] \in -1 .. MaxClock /\ PresentInv(id)
    BY DEF AwarenessInv, AwarenessTypeOK
  <2>2. known[id] # Vacant => known[id].clock # -1
    <3>1. known[id] = [clock |-> known[id].clock, live |-> known[id].live]
          /\ known[id].live \in BOOLEAN
      BY <2>1 DEF Entries
    <3>2. known[id].clock = -1 => ~known[id].live
      BY <2>1, AwarenessConstants DEF PresentInv
    <3>3. known[id].clock = -1 => known[id].live = FALSE
      BY <3>1, <3>2
    <3> QED
      BY <3>1, <3>3 DEF Vacant
  <2>3. ~Vacant.live /\ Vacant.clock = -1
    BY DEF Vacant
  <2>4. known[id] # Vacant => Applies(Vacant, known[id])
    BY <2>1, <2>2, <2>3, AwarenessConstants DEF Applies, Entries
  <2> QED
    BY <2>3, <2>4 DEF ApplyEntry
<1> QED
  BY <1>1 DEF Adopted, AwarenessInv, AwarenessTypeOK

LEMMA HearEntryPresent ==
    ASSUME AwarenessInv, NEW id \in Ids,
           NEW clock \in 0 .. MaxClock, NEW live \in BOOLEAN,
           HearEntry(id, [clock |-> clock, live |-> live])
    PROVE  AwarenessInv'
<1> DEFINE entry == [clock |-> clock, live |-> live]
           applies == Applies(known[id], entry)
<1>1. /\ known[id] \in Entries /\ buried[id] \in -1 .. MaxClock /\ seen[id] \in Ages
      /\ quiet[id] \in Ages /\ PresentInv(id)
      /\ entry.clock = clock /\ entry.live = live /\ entry \in Entries /\ clock < MaxClock
  BY AwarenessConstants DEF AwarenessInv, AwarenessTypeOK, HearEntry, Readable, Entries
<1>2. /\ known' = [known EXCEPT ![id] = ApplyEntry(known[id], id, entry)]
      /\ seen' = [seen EXCEPT ![id] = Stamped(id, entry)]
      /\ quiet' = [quiet EXCEPT ![id] = IF applies THEN 0 ELSE quiet[id]]
      /\ buried' = IF known[id].live /\ ~known'[id].live THEN Bury({id}) ELSE buried
      /\ untilTick' = untilTick
  BY DEF HearEntry
<1>3. /\ known'[id] = ApplyEntry(known[id], id, entry)
      /\ seen'[id] = Stamped(id, entry)
      /\ quiet'[id] = IF applies THEN 0 ELSE quiet[id]
      /\ \A i \in Ids \ {id} : known'[i] = known[i] /\ seen'[i] = seen[i] /\ quiet'[i] = quiet[i]
  BY <1>2 DEF AwarenessInv, AwarenessTypeOK
<1>4. /\ \A i \in Ids \ {id} : buried'[i] = buried[i]
      /\ buried'[id] = IF known[id].live /\ ~known'[id].live THEN known[id].clock
                       ELSE buried[id]
  BY <1>2 DEF Bury, AwarenessInv, AwarenessTypeOK
<1>5. ~applies => known'[id] = known[id] /\ seen'[id] = seen[id] /\ quiet'[id] = quiet[id]
  BY <1>3 DEF ApplyEntry, Stamped
<1>6. applies => /\ known[id].clock <= clock
                 /\ live => known[id].clock < clock
                 /\ known[id].live \/ known[id].clock < clock
  BY <1>1, AwarenessConstants DEF Applies, Entries
<1> HIDE DEF applies
<1>7. known'[id] \in Entries /\ seen'[id] \in Ages /\ quiet'[id] \in Ages
      /\ buried'[id] \in -1 .. MaxClock
  <2>1. [clock |-> clock + 1, live |-> TRUE] \in Entries
    BY <1>1, AwarenessConstants DEF Entries
  <2>2. ApplyEntry(known[id], id, entry) \in Entries
    BY <1>1, <2>1 DEF ApplyEntry
  <2>3. Unseen \in Ages /\ 0 \in Ages
    BY AwarenessConstants DEF Ages, Unseen
  <2>4. Stamped(id, entry) \in Ages
    BY <1>1, <2>3 DEF Stamped
  <2>5. known[id].clock \in -1 .. MaxClock
    BY <1>1 DEF Entries
  <2> QED
    BY <1>1, <1>3, <1>4, <2>2, <2>3, <2>4, <2>5
<1>8. AwarenessTypeOK'
  <2>1. known' \in [Ids -> Entries] /\ seen' \in [Ids -> Ages] /\ quiet' \in [Ids -> Ages]
    BY <1>2, <1>3, <1>7 DEF AwarenessInv, AwarenessTypeOK
  <2>2. buried' \in [Ids -> -1 .. MaxClock]
    <3>1. buried' = [i \in Ids |-> buried'[i]]
      BY <1>2 DEF AwarenessInv, AwarenessTypeOK, Bury
    <3>2. \A i \in Ids : buried'[i] \in -1 .. MaxClock
      BY <1>4, <1>7 DEF AwarenessInv, AwarenessTypeOK
    <3> QED
      BY <3>1, <3>2
  <2> QED
    BY <1>2, <2>1, <2>2 DEF AwarenessInv, AwarenessTypeOK
<1>9. ASSUME NEW i \in Ids PROVE PresentInv(i)'
  <2>1. CASE i # id
    BY <1>2, <1>3, <1>4, <2>1 DEF AwarenessInv, PresentInv
  <2>2. CASE i = id /\ ~applies
    <3>1. buried'[id] = buried[id]
      BY <1>4, <1>5, <2>2
    <3> QED
      BY <1>1, <1>2, <1>5, <2>2, <3>1 DEF PresentInv
  <2>3. CASE i = id /\ applies /\ ~live /\ id = OwnId /\ known[id].live
    <3>1. known'[id] = [clock |-> clock + 1, live |-> TRUE]
      BY <1>1, <1>3, <2>3 DEF ApplyEntry, applies
    <3>2. known'[id].live /\ known'[id].clock = clock + 1 /\ buried'[id] = buried[id]
          /\ seen'[id] = Unseen
      BY <1>1, <1>3, <1>4, <2>3, <3>1 DEF Stamped, applies
    <3> QED
      BY <1>1, <1>2, <1>6, <2>3, <3>2, AwarenessConstants DEF PresentInv, Entries
  <2>4. CASE i = id /\ applies /\ ~(~live /\ id = OwnId /\ known[id].live)
    <3>1. known'[id].live = live /\ known'[id].clock = clock
      BY <1>1, <1>3, <2>4 DEF ApplyEntry, applies
    <3>2. seen'[id] = IF ~live THEN Unseen ELSE IF id = OwnId THEN seen[id] ELSE 0
      BY <1>1, <1>3, <2>4 DEF Stamped, applies
    <3>3. quiet'[id] = 0
      BY <1>3, <2>4
    <3>4. /\ buried'[id] <= clock
          /\ live => buried'[id] < clock
      BY <1>1, <1>4, <1>6, <2>4, <3>1, AwarenessConstants DEF PresentInv, Entries
    <3>5. untilTick \in 0 .. StateRenew /\ Unseen # 0
      BY DEF AwarenessInv, AwarenessTypeOK, Unseen
    <3>6. 0 <= StateExpire - 1 + untilTick'
      BY <1>2, <3>5, AwarenessConstants
    <3>7. buried'[id] <= known'[id].clock /\ (known'[id].live => known'[id].clock > buried'[id])
      BY <1>1, <1>7, <3>1, <3>4
    <3>8. seen'[id] # Unseen <=> known'[id].live /\ id # OwnId
      BY <1>1, <3>1, <3>2, <3>5 DEF PresentInv
    <3>9. known'[id].live /\ id # OwnId => seen'[id] = 0 /\ quiet'[id] = 0 /\ known'[id].clock < MaxClock
      BY <1>1, <3>1, <3>2, <3>3
    <3> QED
      BY <2>4, <3>6, <3>7, <3>8, <3>9 DEF PresentInv
  <2> QED
    BY <2>1, <2>2, <2>3, <2>4
<1> QED
  BY <1>8, <1>9 DEF AwarenessInv

\* Some states are removed together, each of another's.
LEMMA RemovedPresent ==
    ASSUME AwarenessInv, NEW ids \in SUBSET Ids, NEW unlooked \in SUBSET Ids,
           \A id \in ids : known[id].live /\ id # OwnId,
           ids \subseteq unlooked,
           \A id \in unlooked \ ids : id = OwnId \/ ~known[id].live,
           known' = [id \in Ids |-> IF id \in ids THEN RemoveState(known[id]) ELSE known[id]],
           seen' = [id \in Ids |-> IF id \in unlooked THEN Unseen ELSE seen[id]],
           buried' = Bury(ids), quiet' = quiet,
           untilTick' \in 0 .. StateRenew,
           \A id \in Ids \ unlooked : seen[id] <= StateExpire - 1 + untilTick'
    PROVE  AwarenessInv'
<1>1. ASSUME NEW id \in Ids, id \in ids
      PROVE  /\ known'[id] \in Entries /\ buried'[id] \in -1 .. MaxClock /\ seen'[id] \in Ages
             /\ PresentInv(id)'
  <2>1. known[id] \in Entries /\ buried[id] \in -1 .. MaxClock /\ PresentInv(id) /\ known[id].live
        /\ id # OwnId
    BY <1>1 DEF AwarenessInv, AwarenessTypeOK
  <2>2. known[id].clock \in -1 .. MaxClock - 1
    BY <2>1, AwarenessConstants DEF PresentInv, Entries
  <2>3. known'[id] = [clock |-> known[id].clock + 1, live |-> FALSE]
    BY <1>1 DEF RemoveState
  <2>4. buried'[id] = known[id].clock /\ seen'[id] = Unseen
    BY <1>1, <2>1 DEF Bury
  <2>5. known'[id] \in Entries
    <3>1. known[id].clock + 1 \in -1 .. MaxClock
      BY <2>2, AwarenessConstants
    <3>2. \A n \in -1 .. MaxClock : [clock |-> n, live |-> FALSE] \in Entries
      BY DEF Entries
    <3> QED
      BY ONLY <2>3, <3>1, <3>2
  <2>6. Unseen \in Ages
    BY AwarenessConstants DEF Ages, Unseen
  <2>7. ~known'[id].live /\ known'[id].clock = known[id].clock + 1
    BY <2>3
  <2>8. known[id].clock \in Int /\ known[id].clock \in -1 .. MaxClock
    BY <2>2, AwarenessConstants
  <2>9. buried'[id] <= known'[id].clock
    BY <2>4, <2>7, <2>8
  <2> QED
    <3>1. PresentInv(id)'
      BY <2>4, <2>7, <2>9 DEF PresentInv
    <3> QED
      BY <2>4, <2>5, <2>6, <2>8, <3>1
<1>2. ASSUME NEW id \in Ids, id \notin ids
      PROVE  /\ known'[id] \in Entries /\ buried'[id] \in -1 .. MaxClock /\ seen'[id] \in Ages
             /\ PresentInv(id)'
  <2>1. known[id] \in Entries /\ buried[id] \in -1 .. MaxClock /\ PresentInv(id) /\ seen[id] \in Ages
    BY DEF AwarenessInv, AwarenessTypeOK
  <2>2. known'[id] = known[id] /\ buried'[id] = buried[id] /\ quiet'[id] = quiet[id]
    BY <1>2 DEF Bury
  <2>3. Unseen \in Ages
    BY AwarenessConstants DEF Ages, Unseen
  <2>4. CASE id \in unlooked
    <3>1. seen'[id] = Unseen /\ ~(known[id].live /\ id # OwnId)
      BY <1>2, <2>4
    <3> QED
      BY <2>1, <2>2, <2>3, <3>1 DEF PresentInv
  <2>5. CASE id \notin unlooked
    <3>1. seen'[id] = seen[id] /\ seen[id] <= StateExpire - 1 + untilTick'
      BY <2>5
    <3> QED
      BY <2>1, <2>2, <3>1 DEF PresentInv
  <2> QED
    BY <2>4, <2>5
<1>3. /\ \A id \in Ids : /\ known'[id] \in Entries /\ buried'[id] \in -1 .. MaxClock
                         /\ seen'[id] \in Ages /\ PresentInv(id)'
  BY <1>1, <1>2
<1>4. /\ known' \in [Ids -> Entries] /\ seen' \in [Ids -> Ages]
      /\ buried' \in [Ids -> -1 .. MaxClock]
  BY <1>3 DEF Bury
<1> QED
  BY <1>3, <1>4 DEF AwarenessInv, AwarenessTypeOK

LEMMA AwarenessStep == AwarenessInv /\ [AwarenessNext]_awarenessVars => AwarenessInv'
<1> SUFFICES ASSUME AwarenessInv, [AwarenessNext]_awarenessVars PROVE AwarenessInv'
  OBVIOUS
<1>1. ASSUME NEW s \in Seats, SeatGoes(s) PROVE AwarenessInv'
  <2> DEFINE going == {id \in DepartedClaim(s) : known[id].live /\ id # OwnId}
  <2>1. /\ seen' = [id \in Ids |-> IF id \in DepartedClaim(s) THEN Unseen ELSE seen[id]]
        /\ known' = [id \in Ids |-> IF id \in going THEN RemoveState(known[id]) ELSE known[id]]
        /\ buried' = Bury(going) /\ quiet' = quiet /\ untilTick' = untilTick
    BY <1>1 DEF SeatGoes
  <2>2. DepartedClaim(s) \in SUBSET Ids /\ going \in SUBSET Ids /\ going \subseteq DepartedClaim(s)
    BY DEF DepartedClaim
  <2>3. untilTick' \in 0 .. StateRenew
    BY <2>1 DEF AwarenessInv, AwarenessTypeOK
  <2>4. \A id \in Ids : seen[id] <= StateExpire - 1 + untilTick'
    <3> SUFFICES ASSUME NEW id \in Ids PROVE seen[id] <= StateExpire - 1 + untilTick
      BY <2>1
    <3>1. CASE seen[id] = Unseen
      BY <3>1, AwarenessConstants DEF AwarenessInv, AwarenessTypeOK, Unseen
    <3>2. CASE seen[id] # Unseen
      BY <3>2 DEF AwarenessInv, PresentInv
    <3> QED
      BY <3>1, <3>2
  <2>5. \A id \in DepartedClaim(s) \ going : id = OwnId \/ ~known[id].live
    OBVIOUS
  <2>6. \A id \in going : known[id].live /\ id # OwnId
    OBVIOUS
  <2> HIDE DEF going
  <2> QED
    BY <2>1, <2>2, <2>3, <2>4, <2>5, <2>6, RemovedPresent
<1>2. ASSUME NEW s \in Seats, NEW id \in Ids, ClaimId(s, id) PROVE AwarenessInv'
  BY <1>2 DEF ClaimId, AwarenessInv, AwarenessTypeOK, PresentInv
<1>3. ASSUME ExpireStates PROVE AwarenessInv'
  <2> DEFINE lapsed == {id \in Ids : seen[id] >= StateExpire}
  <2>1. /\ seen' = [id \in Ids |-> IF id \in lapsed THEN Unseen ELSE seen[id]]
        /\ known' = [id \in Ids |-> IF id \in lapsed THEN RemoveState(known[id]) ELSE known[id]]
        /\ buried' = Bury(lapsed) /\ quiet' = quiet /\ untilTick' = 0
    BY <1>3 DEF ExpireStates
  <2>2. lapsed \in SUBSET Ids /\ untilTick' \in 0 .. StateRenew
    BY <2>1, AwarenessConstants
  <2>3. \A id \in lapsed : known[id].live /\ id # OwnId
    BY AwarenessConstants DEF AwarenessInv, PresentInv, Unseen
  <2>4. \A id \in Ids \ lapsed : seen[id] <= StateExpire - 1 + untilTick'
    BY <2>1, AwarenessConstants DEF AwarenessInv, AwarenessTypeOK, Ages, Unseen
  <2> HIDE DEF lapsed
  <2> QED
    BY <2>1, <2>2, <2>3, <2>4, RemovedPresent
<1>4. ASSUME AdoptReplica PROVE AwarenessInv'
  <2>1. known' = known
    BY <1>4, AdoptedIsKnown DEF AdoptReplica
  <2> QED
    BY <1>4, <2>1 DEF AdoptReplica, AwarenessInv, AwarenessTypeOK, PresentInv
<1>5. ASSUME PassTime PROVE AwarenessInv'
  <2>1. /\ untilTick' = untilTick + 1 /\ untilTick < StateRenew
        /\ seen' = [id \in Ids |-> Aged(seen[id])]
        /\ quiet' = [id \in Ids |-> Aged(quiet[id])]
        /\ known' = known /\ buried' = buried
    BY <1>5 DEF PassTime
  <2>2. untilTick \in 0 .. StateRenew /\ untilTick' \in 0 .. StateRenew
    BY <2>1, AwarenessConstants DEF AwarenessInv, AwarenessTypeOK
  <2>3. ASSUME NEW age \in Ages
        PROVE  /\ Aged(age) \in Ages /\ (Aged(age) = Unseen <=> age = Unseen)
               /\ Aged(age) <= age + 1
    BY AwarenessConstants DEF Ages, Aged, Unseen
  <2>4. AwarenessTypeOK'
    BY <2>1, <2>2, <2>3 DEF AwarenessInv, AwarenessTypeOK
  <2>5. ASSUME NEW id \in Ids PROVE PresentInv(id)'
    <3>1. /\ seen[id] \in Ages /\ PresentInv(id) /\ seen'[id] = Aged(seen[id])
          /\ quiet'[id] = Aged(quiet[id])
      BY <2>1 DEF AwarenessInv, AwarenessTypeOK
    <3>2. seen'[id] # Unseen <=> seen[id] # Unseen
      BY <2>3, <3>1
    <3>3. seen[id] <= StateExpire - 1 + untilTick => seen'[id] <= StateExpire - 1 + untilTick'
      <4>1. Aged(seen[id]) \in Ages /\ Aged(seen[id]) <= seen[id] + 1
        BY <2>3, <3>1
      <4> QED
        BY <2>1, <2>2, <3>1, <4>1, AwarenessConstants DEF Ages, Unseen
    <3> QED
      BY <2>1, <3>1, <3>2, <3>3 DEF PresentInv
  <2> QED
    BY <2>4, <2>5 DEF AwarenessInv
<1>6. CASE UNCHANGED awarenessVars
  BY <1>6 DEF awarenessVars, AwarenessInv, AwarenessTypeOK, PresentInv
<1> QED
  BY <1>1, <1>2, <1>3, <1>4, <1>5, <1>6, HearEntryPresent DEF AwarenessNext

\* Who is shown is there, for every set of ids and seats and every window: no
\* copy of a state that went brings it back (apply_awareness applies by clock,
\* the tombstones are carried to a new replica), no copy renews what it does not
\* change (stamp_awareness), and no clock leaves the u32 it is kept in.
THEOREM PresenceHolds == AwarenessSpec => []PresenceIsCurrent
<1>1. AwarenessInit => AwarenessInv
  <2> SUFFICES ASSUME AwarenessInit PROVE AwarenessInv
    OBVIOUS
  <2>1. Vacant \in Entries /\ Unseen \in Ages /\ -1 \in -1 .. MaxClock /\ 0 \in 0 .. StateRenew
    BY AwarenessConstants DEF Vacant, Entries, Ages, Unseen
  <2>2. AwarenessTypeOK
    BY <2>1 DEF AwarenessInit, AwarenessTypeOK
  <2>3. \A id \in Ids : known[id] = Vacant /\ seen[id] = Unseen /\ buried[id] = -1
    BY DEF AwarenessInit
  <2>4. ~Vacant.live /\ Vacant.clock = -1
    BY DEF Vacant
  <2> QED
    BY <2>2, <2>3, <2>4 DEF AwarenessInv, PresentInv
<1>2. AwarenessInv => PresenceIsCurrent
  <2> SUFFICES ASSUME AwarenessInv, NEW id \in Ids
               PROVE  /\ known[id].clock \in -1 .. MaxClock
                      /\ known[id].live =>
                          /\ known[id].clock > buried[id]
                          /\ id # OwnId => quiet[id] \in 0 .. StateExpire + StateRenew - 1
    BY DEF PresenceIsCurrent
  <2>1. known[id] \in Entries /\ seen[id] \in Ages /\ PresentInv(id) /\ untilTick \in 0 .. StateRenew
    BY DEF AwarenessInv, AwarenessTypeOK
  <2> QED
    BY <2>1, AwarenessConstants DEF PresentInv, Entries, Ages, Unseen
<1> QED
  BY <1>1, <1>2, AwarenessStep, PTL DEF AwarenessSpec
----------------------------------------------------------------------------
(* The session.                                                             *)

Fields ==
    {"state", "ending", "roster", "departed", "doc", "baseline", "speculating",
     "unsent", "speculated", "served", "pending", "readiness", "resync",
     "handshaken", "announced", "held", "holdsSent", "holdsAnnounced", "holds",
     "leases", "hostAway", "clock", "out", "fault"}
Kinds == {"update", "step2", "step1", "announcement", "holds", "state"}
Frames == [kind : Kinds, what : SUBSET (Edits \cup Remote \cup Paths)]

IsSession(s) == DOMAIN s = Fields

\* t is s but for the fields in F.
SameBut(s, t, F) == IsSession(t) /\ \A f \in Fields \ F : t[f] = s[f]

SeatInv ==
    /\ IsSession(peer)
    /\ peer.state \in States \cup {NoState}
    /\ peer.roster \subseteq Connections /\ peer.departed \subseteq Connections
    /\ peer.held \subseteq Paths /\ peer.pending \subseteq Peers
    /\ sinceTick \in 0 .. Renew

\* The session's clock of an absent host runs while its seat is away, and is not
\* ahead of the time that it is.
AwayInv ==
    /\ HostAbsent(peer) <=> peer.hostAway # Never
    /\ peer.hostAway \in Never .. Expire /\ gone \in Never .. Expire
    /\ peer.hostAway <= gone

\* A key holds something while its lease is kept, and the tick looks at leases.
\* What a key says after its seat left is kept until the seats are looked at again.
LeaseInv ==
    /\ peer.leases \in [Peers -> Never .. Expire + Renew]
    /\ peer.holds \subseteq Peers
    /\ \A k \in Peers : peer.leases[k] # Never <=> k \in peer.holds
    /\ \A k \in peer.holds :
          /\ peer.leases[k] <= Expire - 1 + sinceTick
          /\ Departed(peer, k) => k \in spoke

Fates == {"unmade", "open", "room", "viewer"}

\* There is a clean replica while a local edit's role is open, and then no state
\* gives this key one.
ReplicaInv ==
    /\ fate \in [Edits -> Fates] /\ received \subseteq Remote
    /\ RolledBack
    /\ ~peer.speculating => Fated("open") = {}
    /\ Role(peer) # "none" => ~peer.speculating

Distinct(list) == \A i, j \in DOMAIN list : list[i] = list[j] => i = j
Within(e, list) == \E i \in DOMAIN list : list[i] = e

\* What is held back is marked by the role of its edits.
SentInv ==
    /\ sent \in [Edits -> Nat]
    /\ peer.out \in Seq(Frames)
    /\ peer.unsent \in Seq(Edits) /\ peer.speculated \in Seq(Edits)
    /\ \A e \in Edits : /\ Within(e, peer.unsent) => fate[e] = "room"
                        /\ Within(e, peer.speculated) => fate[e] = "open"
    /\ OnlyTheRoomsHistoryLeaves

\* An edit is in one place.
OnceInv ==
    /\ faults \in Nat
    /\ Distinct(peer.unsent) /\ Distinct(peer.speculated)
    /\ \A e \in Edits : sent[e] <= 1 /\ (Within(e, peer.unsent) => sent[e] = 0)
    /\ peer.ending = "live" =>
        /\ \A e \in Fated("room") : sent[e] = 1 \/ Within(e, peer.unsent)
        /\ \A e \in Fated("open") : Within(e, peer.speculated)
        /\ faults = 0 => peer.unsent = <<>>

SessionInv == SeatInv /\ AwayInv /\ LeaseInv /\ ReplicaInv /\ SentInv /\ OnceInv

LEMMA PeerConstants ==
    /\ Me \notin Peers /\ Seated \subseteq Connections
    /\ \A st \in States \cup {NoState} : st[Me].role \in Roles
    /\ Renew \in Nat /\ Renew >= 1 /\ Expire \in Nat /\ Expire >= 1
    /\ MaxEdits \in Nat /\ Remote \cap Edits = {}
  BY PeerAssumption DEF NoState, NoEntry, Entry, Keys, Roles, Edits

LEMMA SameTrans ==
    ASSUME NEW s, NEW t, NEW u, NEW F, NEW G, SameBut(s, t, F), SameBut(t, u, G)
    PROVE  SameBut(s, u, F \cup G)
  BY DEF SameBut

----------------------------------------------------------------------------
(* What leaves in a call, as far as the properties look.                    *)

Counted == {"update", "step1", "step2"}
\* p is o, with frames added that are not looked at.
Silent(o, p) ==
    /\ DOMAIN o \subseteq DOMAIN p
    /\ \A i \in DOMAIN o : p[i] = o[i]
    /\ \A i \in DOMAIN p \ DOMAIN o : p[i].kind \notin Counted
Requests(o) == \E i \in DOMAIN o : o[i].kind = "step1"
\* The updates in o are the edits of a list, once each.
Carries(o, list) ==
    \A e \in Edits : IF Within(e, list) THEN \E i : Updates(o, e) = {i}
                     ELSE Updates(o, e) = {}
Unanswered(o) == \A i \in DOMAIN o : o[i].kind # "step2"

LEMMA SilentAppend ==
    ASSUME NEW o \in Seq(Frames), NEW f \in Frames, f.kind \notin Counted
    PROVE  Append(o, f) \in Seq(Frames) /\ Silent(o, Append(o, f))
<1>1. Append(o, f) \in Seq(Frames) /\ DOMAIN Append(o, f) = DOMAIN o \cup {Len(o) + 1}
      /\ Len(o) + 1 \notin DOMAIN o
  OBVIOUS
<1>2. \A i \in DOMAIN o : Append(o, f)[i] = o[i]
  OBVIOUS
<1>3. Append(o, f)[Len(o) + 1] = f
  OBVIOUS
<1> QED
  BY <1>1, <1>2, <1>3 DEF Silent

LEMMA SilentTrans ==
    ASSUME NEW o, NEW p, NEW q, Silent(o, p), Silent(p, q) PROVE Silent(o, q)
  BY DEF Silent

LEMMA SilentFacts ==
    ASSUME NEW o, NEW p, Silent(o, p)
    PROVE  /\ Requests(p) <=> Requests(o)
           /\ \A list : Carries(o, list) => Carries(p, list)
           /\ Unanswered(o) => Unanswered(p)
           /\ \A i \in DOMAIN p : p[i].kind = "step2" => i \in DOMAIN o /\ p[i] = o[i]
<1>1. ASSUME NEW e PROVE Updates(p, e) = Updates(o, e)
  BY DEF Silent, Updates, Counted
<1>2. /\ Requests(p) <=> Requests(o)
      /\ Unanswered(o) => Unanswered(p)
      /\ \A i \in DOMAIN p : p[i].kind = "step2" => i \in DOMAIN o /\ p[i] = o[i]
  BY DEF Silent, Counted, Requests, Unanswered
<1> QED
  BY <1>1, <1>2 DEF Carries

----------------------------------------------------------------------------
(* What each operation changes.                                             *)

LEMMA CallFields ==
    ASSUME IsSession(peer), NEW s \in Calls
    PROVE  SameBut(peer, s, {"out", "fault"}) /\ s.out = <<>> /\ IsSession(s)
  BY DEF IsSession, SameBut, Fields, Calls

LEMMA PublishFields ==
    ASSUME NEW s, IsSession(s), NEW f
    PROVE  /\ SameBut(s, Publish(s, f), {"out"})
           /\ Publish(s, f).out = IF Seals(s, f) THEN Append(s.out, f) ELSE s.out
  BY DEF IsSession, SameBut, Fields, Publish

LEMMA SyncFields ==
    ASSUME NEW s, IsSession(s)
    PROVE  LET t == SyncStep1(s) IN
           \/ t = s
           \/ /\ SameBut(s, t, {"out", "handshaken", "resync", "pending", "readiness"})
              /\ t.out = Append(s.out, Frame("step1", {}))
              /\ t.handshaken = 0 /\ t.pending = {} /\ t.resync = FALSE
              /\ t.readiness = FALSE
  BY DEF IsSession, SameBut, Fields, Publish, SyncStep1

LEMMA AnnounceFields ==
    ASSUME NEW s, IsSession(s), s.out \in Seq(Frames)
    PROVE  LET t == Announce(s) IN
           /\ SameBut(s, t, {"out", "announced"})
           /\ t.out \in Seq(Frames) /\ Silent(s.out, t.out)
<1>1. Frame("announcement", {}) \in Frames /\ Frame("announcement", {}).kind \notin Counted
  BY DEF Frame, Frames, Kinds, Counted
<1>2. /\ SameBut(s, Announce(s), {"out", "announced"})
      /\ Announce(s).out \in {s.out, Append(s.out, Frame("announcement", {}))}
  BY DEF IsSession, SameBut, Fields, Publish, Announce
<1>3. Silent(s.out, s.out)
  BY DEF Silent
<1> QED
  BY <1>1, <1>2, <1>3, SilentAppend

LEMMA ReannounceFields ==
    ASSUME NEW s, IsSession(s), s.out \in Seq(Frames)
    PROVE  LET t == Reannounce(s) IN
           /\ SameBut(s, t, {"out", "announced"})
           /\ t.out \in Seq(Frames) /\ Silent(s.out, t.out)
<1>1. SameBut(s, s, {"out", "announced"}) /\ Silent(s.out, s.out)
  BY DEF SameBut, Silent
<1> QED
  BY <1>1, AnnounceFields DEF Reannounce

LEMMA AnnounceHoldsFields ==
    ASSUME NEW s, IsSession(s), s.out \in Seq(Frames), s.held \subseteq Paths
    PROVE  LET t == AnnounceHolds(s) IN
           /\ SameBut(s, t, {"out", "holdsSent", "holdsAnnounced"})
           /\ t.out \in Seq(Frames) /\ Silent(s.out, t.out)
<1>1. Frame("holds", s.held) \in Frames /\ Frame("holds", s.held).kind \notin Counted
  BY DEF Frame, Frames, Kinds, Counted
<1>2. /\ SameBut(s, AnnounceHolds(s), {"out", "holdsSent", "holdsAnnounced"})
      /\ AnnounceHolds(s).out \in {s.out, Append(s.out, Frame("holds", s.held))}
  BY DEF IsSession, SameBut, Fields, Publish, AnnounceHolds
<1>3. Silent(s.out, s.out)
  BY DEF Silent
<1> QED
  BY <1>1, <1>2, <1>3, SilentAppend

LEMMA ForgetFields ==
    ASSUME NEW s, IsSession(s), NEW ks
    PROVE  /\ SameBut(s, Forget(s, ks), {"holds", "leases"})
           /\ Forget(s, ks).holds = s.holds \ ks
           /\ Forget(s, ks).leases = [k \in Peers |-> IF k \in ks THEN Never ELSE s.leases[k]]
  BY DEF IsSession, SameBut, Fields, Forget

LEMMA RefreshFields ==
    ASSUME NEW s, IsSession(s), NEW restart
    PROVE  LET t == RefreshHostAway(s, restart) IN
           /\ SameBut(s, t, {"hostAway"})
           /\ t.hostAway = IF ~HostAbsent(s) THEN Never
                           ELSE IF restart \/ s.hostAway = Never THEN 0 ELSE s.hostAway
  BY DEF IsSession, SameBut, Fields, RefreshHostAway

LEMMA AcceptFields ==
    ASSUME NEW s, IsSession(s)
    PROVE  LET t == AcceptSpeculation(s) IN
           /\ SameBut(s, t, {"speculating", "baseline", "unsent", "speculated"})
           /\ t.speculating = FALSE /\ t.baseline = {}
           /\ t.unsent = s.unsent \o s.speculated /\ t.speculated = <<>>
  BY DEF IsSession, SameBut, Fields, AcceptSpeculation

LEMMA DiscardFields ==
    ASSUME NEW s, IsSession(s)
    PROVE  LET t == DiscardSpeculative(s) IN
           /\ SameBut(s, t, {"speculating", "baseline", "doc", "speculated"})
           /\ t.speculating = FALSE /\ t.baseline = {}
           /\ t.doc = PublicationDoc(s) /\ t.speculated = <<>>
  BY DEF IsSession, SameBut, Fields, DiscardSpeculative

LEMMA BeginFields ==
    ASSUME NEW s, IsSession(s)
    PROVE  LET t == BeginSpeculation(s) IN
           /\ SameBut(s, t, {"speculating", "baseline"})
           /\ s.speculating => t = s
           /\ ~s.speculating => t.speculating = TRUE /\ t.baseline = s.doc
  BY DEF IsSession, SameBut, Fields, BeginSpeculation

LEMMA PruneFields ==
    ASSUME NEW s, IsSession(s)
    PROVE  LET t == PruneReciprocal(s) IN
           /\ SameBut(s, t, {"served", "pending"})
           /\ t.pending = s.pending \cap {k \in Peers : IsWriterKey(s, k)}
  BY DEF IsSession, SameBut, Fields, PruneReciprocal

LEMMA NoteFields ==
    ASSUME NEW s, IsSession(s), NEW seat
    PROVE  LET t == NoteLocalEligibility(s, seat) IN
           /\ SameBut(s, t, {"readiness"})
           /\ s.readiness /\ IsWriter(s) => t.readiness
  BY DEF IsSession, SameBut, Fields, NoteLocalEligibility

LEMMA ArmFields ==
    ASSUME NEW s, IsSession(s), NEW k
    PROVE  LET t == ArmReciprocal(s, k) IN
           /\ SameBut(s, t, {"served", "pending"})
           /\ s.pending \subseteq t.pending /\ t.pending \subseteq s.pending \cup {k}
  BY DEF IsSession, SameBut, Fields, ArmReciprocal

LEMMA WindowFields ==
    ASSUME NEW s, IsSession(s)
    PROVE  LET t == WindowPassed(s) IN
           /\ SameBut(s, t, {"ending"})
           /\ t.ending = "hostAway" /\ s.ending # "hostAway" => s.hostAway >= Expire
           /\ t.ending = "live" => s.ending = "live"
  BY DEF IsSession, SameBut, Fields, WindowPassed

LEMMA HandshakeFields ==
    ASSUME NEW s, IsSession(s)
    PROVE  LET t == HandshakeOnce(s) IN
           \/ t = s
           \/ /\ SameBut(s, t, {"out", "handshaken", "resync", "pending", "readiness"})
              /\ t.out = Append(s.out, Frame("step1", {}))
              /\ s.handshaken = Never /\ t.pending = {}
  BY SyncFields DEF HandshakeOnce

LEMMA ResyncFields ==
    ASSUME NEW s, IsSession(s)
    PROVE  LET t == Resync(s) IN
           \/ t = s
           \/ /\ SameBut(s, t, {"out", "handshaken", "resync", "pending", "readiness"})
              /\ t.out = Append(s.out, Frame("step1", {}))
              /\ Due(s.handshaken) /\ t.pending = {}
  BY SyncFields DEF Resync, Due

LEMMA ResolveFields ==
    ASSUME NEW s, IsSession(s)
    PROVE  LET t == ResolveSpeculation(s) IN
           /\ SameBut(s, t, {"speculating", "baseline", "doc", "unsent", "speculated"})
           /\ Role(s) = "viewer" =>
                /\ t.doc = PublicationDoc(s) /\ t.speculating = FALSE
                /\ t.unsent = s.unsent /\ t.speculated = <<>>
           /\ IsWriter(s) =>
                /\ t.doc = s.doc /\ t.speculating = FALSE
                /\ t.unsent = s.unsent \o s.speculated /\ t.speculated = <<>>
<1>1. CASE Role(s) = "viewer"
  <2>1. ~IsWriter(s) /\ ResolveSpeculation(s) = DiscardSpeculative(s)
    BY <1>1 DEF IsWriter, IsWriterKey, Role, ResolveSpeculation
  <2> QED
    BY <1>1, <2>1, DiscardFields DEF SameBut, Fields
<1>2. CASE Role(s) # "viewer" /\ IsWriter(s)
  BY <1>2, AcceptFields DEF SameBut, Fields, ResolveSpeculation
<1>3. CASE Role(s) # "viewer" /\ ~IsWriter(s)
  BY <1>3 DEF SameBut, ResolveSpeculation
<1> QED
  BY <1>1, <1>2, <1>3

\* A writer has a state.
LEMMA WritersAreCommitted ==
    ASSUME NEW s, IsWriter(s) PROVE CommitsOurs(s) /\ StateHeld(s) /\ Role(s) # "viewer"
  BY DEF IsWriter, IsWriterKey, CommitsOurs, Role, StateHeld, NoState, NoEntry, Entry, Keys

LEMMA RequestAppended ==
    ASSUME NEW o \in Seq(Frames)
    PROVE  LET p == Append(o, Frame("step1", {})) IN
           /\ p \in Seq(Frames) /\ Requests(p)
           /\ Unanswered(o) => Unanswered(p)
           /\ \A list : Carries(o, list) => Carries(p, list)
<1> DEFINE f == Frame("step1", {})
           p == Append(o, f)
<1>1. f \in Frames /\ f.kind = "step1"
  BY DEF Frame, Frames, Kinds
<1> HIDE DEF f
<1>2. /\ p \in Seq(Frames) /\ DOMAIN p = DOMAIN o \cup {Len(o) + 1} /\ Len(o) + 1 \notin DOMAIN o
      /\ p[Len(o) + 1] = f /\ \A i \in DOMAIN o : p[i] = o[i]
  BY <1>1
<1> HIDE DEF p
<1>3. ASSUME NEW e PROVE Updates(p, e) = Updates(o, e)
  BY <1>1, <1>2 DEF Updates
<1> QED
  BY <1>1, <1>2, <1>3 DEF Requests, Unanswered, Carries, p, f

LEMMA ConcatFacts ==
    ASSUME NEW S, NEW s1 \in Seq(S), NEW s2 \in Seq(S)
    PROVE  /\ s1 \o s2 \in Seq(S) /\ Len(s1 \o s2) = Len(s1) + Len(s2)
           /\ DOMAIN (s1 \o s2) = 1 .. Len(s1) + Len(s2)
           /\ \A i \in 1 .. Len(s1) : (s1 \o s2)[i] = s1[i]
           /\ \A i \in 1 .. Len(s2) : (s1 \o s2)[Len(s1) + i] = s2[i]
  BY ConcatProperties

\* A block of updates, behind what left before it.
LEMMA BlockCarries ==
    ASSUME NEW o \in Seq(Frames), Carries(o, <<>>), NEW all \in Seq(Edits), Distinct(all),
           NEW b \in Seq(Frames), Len(b) = Len(all),
           \A i \in 1 .. Len(all) : b[i].kind = "update" /\ b[i].what = {all[i]}
    PROVE  /\ o \o b \in Seq(Frames) /\ Carries(o \o b, all)
           /\ Unanswered(o) => Unanswered(o \o b)
           /\ Requests(o \o b) <=> Requests(o)
<1> DEFINE p == o \o b
<1>1. /\ DOMAIN o = 1 .. Len(o) /\ Len(o) \in Nat /\ DOMAIN all = 1 .. Len(all)
      /\ Len(all) \in Nat
  OBVIOUS
<1>2. /\ p \in Seq(Frames) /\ DOMAIN p = 1 .. Len(o) + Len(all)
      /\ \A i \in 1 .. Len(o) : p[i] = o[i]
      /\ \A i \in 1 .. Len(all) : p[Len(o) + i] = b[i]
  <2>1. /\ p \in Seq(Frames) /\ DOMAIN p = 1 .. Len(o) + Len(b)
        /\ \A i \in 1 .. Len(o) : p[i] = o[i]
        /\ \A i \in 1 .. Len(b) : p[Len(o) + i] = b[i]
    BY ONLY o \in Seq(Frames), b \in Seq(Frames), ConcatFacts
  <2> QED
    BY <2>1, Zenon
<1>3. \A i \in 1 .. Len(o) + Len(all) :
         i \in 1 .. Len(o) \/ (i - Len(o) \in 1 .. Len(all) /\ Len(o) + (i - Len(o)) = i)
  BY <1>1
<1> HIDE DEF p
<1>4. /\ \A i \in DOMAIN o : p[i] = o[i] /\ i \in DOMAIN p
      /\ \A i \in DOMAIN all : p[Len(o) + i] = b[i] /\ Len(o) + i \in DOMAIN p
      /\ \A i \in DOMAIN p : i \in DOMAIN o \/ (i - Len(o) \in DOMAIN all /\ p[i] = b[i - Len(o)])
  BY <1>1, <1>2, <1>3
<1>5. ASSUME NEW e \in Edits
      PROVE  IF Within(e, all) THEN \E i : Updates(p, e) = {i} ELSE Updates(p, e) = {}
  <2>1. Updates(o, e) = {}
    <3>1. ~Within(e, <<>>)
      BY DEF Within
    <3> QED
      BY <3>1 DEF Carries
  <2>2. \A i \in DOMAIN o : i \notin Updates(p, e)
    BY <1>4, <2>1 DEF Updates
  <2>3. \A j \in DOMAIN all : Len(o) + j \in Updates(p, e) <=> all[j] = e
    <3> SUFFICES ASSUME NEW j \in DOMAIN all
                 PROVE  Len(o) + j \in Updates(p, e) <=> all[j] = e
      OBVIOUS
    <3>1. /\ Len(o) + j \in DOMAIN p /\ p[Len(o) + j] = b[j]
          /\ b[j].kind = "update" /\ b[j].what = {all[j]}
      BY <1>1, <1>4
    <3>2. {all[j]} = {e} <=> all[j] = e
      OBVIOUS
    <3> QED
      BY <3>1, <3>2 DEF Updates
  <2>4. \A i \in Updates(p, e) : i - Len(o) \in DOMAIN all /\ all[i - Len(o)] = e
    BY <1>1, <1>4, <2>2 DEF Updates
  <2>5. ASSUME NEW j \in DOMAIN all, all[j] = e PROVE Updates(p, e) = {Len(o) + j}
    <3>1. Len(o) + j \in Updates(p, e)
      BY <2>3, <2>5
    <3>2. ASSUME NEW i \in Updates(p, e) PROVE i = Len(o) + j
      <4>1. i - Len(o) = j
        BY <2>4, <2>5 DEF Distinct
      <4>2. i \in Int /\ j \in Int
        BY <1>1, <1>2 DEF Updates
      <4> QED
        BY <1>1, <4>1, <4>2
    <3> QED
      BY <3>1, <3>2
  <2> QED
    BY <2>4, <2>5 DEF Within
<1>6. Carries(p, all)
  BY <1>5 DEF Carries
<1>7. Unanswered(o) => Unanswered(p)
  BY <1>1, <1>4 DEF Unanswered
<1>8. Requests(p) <=> Requests(o)
  BY <1>1, <1>4 DEF Requests
<1> QED
  BY <1>2, <1>6, <1>7, <1>8 DEF p

\* The updates that a flush adds to what left before it.
LEMMA BlockAppended ==
    ASSUME NEW o \in Seq(Frames), Carries(o, <<>>), NEW all \in Seq(Edits), Distinct(all)
    PROVE  LET p == o \o AsUpdates(all) IN
           /\ p \in Seq(Frames) /\ Carries(p, all)
           /\ Unanswered(o) => Unanswered(p)
           /\ Requests(p) <=> Requests(o)
<1>1. /\ AsUpdates(all) \in Seq(Frames) /\ Len(AsUpdates(all)) = Len(all)
      /\ \A i \in 1 .. Len(all) : /\ AsUpdates(all)[i].kind = "update"
                                  /\ AsUpdates(all)[i].what = {all[i]}
  <2>1. \A i \in DOMAIN all : Frame("update", {all[i]}) \in Frames
    BY DEF Frame, Frames, Kinds
  <2>2. \A i \in DOMAIN all : Frame("update", {all[i]}).kind = "update"
                              /\ Frame("update", {all[i]}).what = {all[i]}
    BY DEF Frame
  <2>3. DOMAIN all = 1 .. Len(all) /\ Len(all) \in Nat
    OBVIOUS
  <2>4. AsUpdates(all) = [i \in 1 .. Len(all) |-> Frame("update", {all[i]})]
    BY <2>3 DEF AsUpdates
  <2>5. \A i \in 1 .. Len(all) : Frame("update", {all[i]}) \in Frames
    BY <2>1, <2>3
  <2>6. [i \in 1 .. Len(all) |-> Frame("update", {all[i]})] \in Seq(Frames)
    BY <2>3, <2>5, IsASeq
  <2>7. Len(AsUpdates(all)) = Len(all)
    BY <2>3, <2>4, <2>6
  <2> QED
    BY <2>2, <2>3, <2>4, <2>6, <2>7
<1> QED
  BY <1>1, BlockCarries

LEMMA AppendWithin ==
    ASSUME NEW S, NEW list \in Seq(S), NEW e \in S
    PROVE  /\ Append(list, e) \in Seq(S)
           /\ \A x : Within(x, Append(list, e)) <=> x = e \/ Within(x, list)
           /\ Distinct(list) /\ ~Within(e, list) => Distinct(Append(list, e))
<1> DEFINE p == Append(list, e)
<1>1. /\ p \in Seq(S) /\ DOMAIN p = DOMAIN list \cup {Len(list) + 1}
      /\ Len(list) + 1 \notin DOMAIN list
      /\ p[Len(list) + 1] = e /\ \A i \in DOMAIN list : p[i] = list[i]
  OBVIOUS
<1> HIDE DEF p
<1>2. \A x : Within(x, p) <=> x = e \/ Within(x, list)
  BY <1>1 DEF Within
<1>3. Distinct(list) /\ ~Within(e, list) => Distinct(p)
  BY <1>1 DEF Distinct, Within
<1> QED
  BY <1>1, <1>2, <1>3 DEF p

LEMMA LeastNumber ==
    ASSUME NEW T, T \subseteq Nat, T # {}
    PROVE  \E x \in T : \A y \in T : x <= y
<1> DEFINE R == OpToRel(<, Nat)
<1>1. IsWellFoundedOn(R, Nat)
  BY NatLessThanWellFounded
<1>2. \E x \in T : \A y \in T : ~(<<y, x>> \in R)
  <2> HIDE DEF R
  <2> QED
    BY <1>1, WFMin
<1>3. PICK x \in T : \A y \in T : ~(<<y, x>> \in R)
  BY <1>2
<1>4. ASSUME NEW y \in T PROVE x <= y
  <2>1. <<y, x>> \notin R
    BY <1>3
  <2>2. ~(y < x)
    BY <2>1 DEF OpToRel
  <2> QED
    BY <2>2
<1> QED
  BY <1>4

\* A set of the numbers up to m that is closed under the next one.
LEMMA UpTo ==
    ASSUME NEW m \in Nat, NEW T, 0 \in T, \A n \in 0 .. m - 1 : n \in T => n + 1 \in T
    PROVE  0 .. m \subseteq T
<1> SUFFICES ASSUME (0 .. m) \ T # {} PROVE FALSE
  OBVIOUS
<1>0. (0 .. m) \ T \subseteq Nat
  OBVIOUS
<1>1. PICK x \in (0 .. m) \ T : \A y \in (0 .. m) \ T : x <= y
  BY <1>0, LeastNumber
<1>2. x # 0 /\ x - 1 \in 0 .. m - 1
  BY <1>1
<1>3. x - 1 \in T
  BY <1>1, <1>2
<1>4. x - 1 + 1 \in T
  BY <1>2, <1>3
<1> QED
  BY <1>1, <1>4

\* some is the ones in S of the first n edits of a list.
Filters(list, n, S, some) ==
    /\ some \in Seq(Edits)
    /\ \A e : Within(e, some) <=> e \in S /\ \E i \in 1 .. n : list[i] = e
    /\ Distinct(list) => Distinct(some)

LEMMA FilterStep ==
    ASSUME NEW list \in Seq(Edits), NEW S, NEW n \in 0 .. Len(list) - 1, NEW some,
           Filters(list, n, S, some)
    PROVE  Filters(list, n + 1, S,
                   IF list[n + 1] \in S THEN Append(some, list[n + 1]) ELSE some)
<1> DEFINE e0 == list[n + 1]
<1>1. e0 \in Edits /\ n \in Nat /\ DOMAIN list = 1 .. Len(list) /\ n + 1 \in DOMAIN list
  OBVIOUS
<1>2. \A e : (\E i \in 1 .. n + 1 : list[i] = e) <=> e = e0 \/ \E i \in 1 .. n : list[i] = e
  <2>1. 1 .. n + 1 = (1 .. n) \cup {n + 1}
    BY <1>1
  <2> QED
    BY <2>1
<1>3. Distinct(list) => ~ \E i \in 1 .. n : list[i] = e0
  <2>1. \A i \in 1 .. n : i \in DOMAIN list /\ i # n + 1
    BY <1>1
  <2> QED
    BY <1>1, <2>1 DEF Distinct
<1> HIDE DEF e0
<1>4. CASE e0 \notin S
  <2>1. \A e : Within(e, some) <=> e \in S /\ \E i \in 1 .. n + 1 : list[i] = e
    BY <1>2, <1>4 DEF Filters
  <2> QED
    BY <1>4, <2>1 DEF Filters, e0
<1>5. CASE e0 \in S
  <2>1. /\ Append(some, e0) \in Seq(Edits)
        /\ \A e : Within(e, Append(some, e0)) <=> e = e0 \/ Within(e, some)
        /\ Distinct(some) /\ ~Within(e0, some) => Distinct(Append(some, e0))
    BY <1>1, AppendWithin DEF Filters
  <2>2. \A e : Within(e, Append(some, e0)) <=> e \in S /\ \E i \in 1 .. n + 1 : list[i] = e
    BY <1>2, <1>5, <2>1 DEF Filters
  <2>3. Distinct(list) => Distinct(Append(some, e0))
    BY <1>3, <2>1 DEF Filters
  <2> QED
    BY <1>5, <2>1, <2>2, <2>3 DEF Filters, e0
<1> QED
  BY <1>4, <1>5

LEMMA FilterExists ==
    ASSUME NEW list \in Seq(Edits), NEW S
    PROVE  \E f : f = [i \in 0 .. Len(list) |->
                          IF i = 0 THEN <<>>
                          ELSE IF list[i] \in S THEN Append(f[i - 1], list[i]) ELSE f[i - 1]]
<1> DEFINE Good(f, k) ==
               f = [i \in 0 .. k |->
                       IF i = 0 THEN <<>>
                       ELSE IF list[i] \in S THEN Append(f[i - 1], list[i]) ELSE f[i - 1]]
           T == {k \in 0 .. Len(list) : \E f : Good(f, k)}
<1>1. Len(list) \in Nat
  OBVIOUS
<1>2. 0 \in T
  <2>1. Good([i \in 0 .. 0 |-> <<>>], 0)
    OBVIOUS
  <2>2. 0 \in 0 .. Len(list)
    BY <1>1
  <2> HIDE DEF Good
  <2> QED
    BY <2>1, <2>2
<1>3. ASSUME NEW k \in 0 .. Len(list) - 1, k \in T PROVE k + 1 \in T
  <2>1. PICK f : Good(f, k)
    BY <1>3
  <2> DEFINE g == [i \in 0 .. k + 1 |->
                      IF i = k + 1
                      THEN IF list[i] \in S THEN Append(f[k], list[i]) ELSE f[k]
                      ELSE f[i]]
  <2>2. ASSUME NEW i \in 0 .. k + 1
        PROVE  g[i] = IF i = 0 THEN <<>>
                      ELSE IF list[i] \in S THEN Append(g[i - 1], list[i]) ELSE g[i - 1]
    <3>1. CASE i = 0
      BY <1>1, <2>1, <3>1
    <3>2. CASE i = k + 1
      <4>1. i # 0 /\ i - 1 = k /\ k \in 0 .. k + 1 /\ k # k + 1
        BY <1>1, <3>2
      <4>2. g[i - 1] = f[k]
        BY <4>1
      <4> QED
        BY <3>2, <4>1, <4>2
    <3>3. CASE i # 0 /\ i # k + 1
      <4>1. i \in 0 .. k /\ i - 1 \in 0 .. k + 1 /\ i - 1 # k + 1
        BY <1>1, <3>3
      <4>2. f[i] = IF list[i] \in S THEN Append(f[i - 1], list[i]) ELSE f[i - 1]
        BY <2>1, <3>3, <4>1
      <4>3. g[i] = f[i] /\ g[i - 1] = f[i - 1]
        BY <3>3, <4>1
      <4> QED
        BY <3>3, <4>2, <4>3
    <3> QED
      BY <3>1, <3>2, <3>3
  <2>3. Good(g, k + 1)
    BY <2>2
  <2>4. k + 1 \in 0 .. Len(list)
    BY <1>1
  <2>5. \E h : Good(h, k + 1)
    <3> HIDE DEF g
    <3> QED
      BY <2>3
  <2> QED
    BY <2>4, <2>5
<1>4. 0 .. Len(list) \subseteq T
  <2> HIDE DEF T
  <2> QED
    BY <1>1, <1>2, <1>3, UpTo
<1>5. \E f : Good(f, Len(list))
  BY <1>1, <1>4
<1> QED
  BY <1>5

LEMMA AmongFacts ==
    ASSUME NEW list \in Seq(Edits), NEW S
    PROVE  /\ Among(list, S) \in Seq(Edits)
           /\ \A e : Within(e, Among(list, S)) <=> Within(e, list) /\ e \in S
           /\ Distinct(list) => Distinct(Among(list, S))
<1> DEFINE upto[i \in 0 .. Len(list)] ==
               IF i = 0 THEN <<>>
               ELSE IF list[i] \in S THEN Append(upto[i - 1], list[i]) ELSE upto[i - 1]
           T == {n \in 0 .. Len(list) : Filters(list, n, S, upto[n])}
<1>1. Len(list) \in Nat /\ DOMAIN list = 1 .. Len(list)
  OBVIOUS
<1>2. upto = [i \in 0 .. Len(list) |->
                 IF i = 0 THEN <<>>
                 ELSE IF list[i] \in S THEN Append(upto[i - 1], list[i]) ELSE upto[i - 1]]
  BY FilterExists
<1>3. Among(list, S) = upto[Len(list)]
  BY DEF Among
<1> HIDE DEF upto
<1>4. 0 \in T
  <2>1. upto[0] = <<>> /\ 0 \in 0 .. Len(list)
    BY <1>1, <1>2
  <2>2. Filters(list, 0, S, <<>>)
    BY DEF Filters, Within, Distinct
  <2> QED
    BY <2>1, <2>2
<1>5. ASSUME NEW n \in 0 .. Len(list) - 1, n \in T PROVE n + 1 \in T
  <2>1. n + 1 \in 0 .. Len(list) /\ n + 1 # 0 /\ n + 1 - 1 = n
    BY <1>1
  <2>2. upto[n + 1] = IF list[n + 1] \in S THEN Append(upto[n], list[n + 1]) ELSE upto[n]
    <3>1. \A i \in 0 .. Len(list) : i # 0 =>
             upto[i] = IF list[i] \in S THEN Append(upto[i - 1], list[i]) ELSE upto[i - 1]
      BY <1>2
    <3>2. upto[n + 1] = IF list[n + 1] \in S THEN Append(upto[n + 1 - 1], list[n + 1])
                        ELSE upto[n + 1 - 1]
      BY ONLY <2>1, <3>1
    <3> QED
      BY ONLY <2>1, <3>2, Zenon
  <2>3. Filters(list, n + 1, S, IF list[n + 1] \in S THEN Append(upto[n], list[n + 1]) ELSE upto[n])
    BY <1>5, FilterStep
  <2> QED
    BY <2>1, <2>2, <2>3
<1>6. 0 .. Len(list) \subseteq T
  <2> HIDE DEF T
  <2> QED
    BY <1>1, <1>4, <1>5, UpTo
<1>7. Filters(list, Len(list), S, Among(list, S))
  BY <1>1, <1>3, <1>6
<1> QED
  BY <1>1, <1>7 DEF Filters, Within

\* all is parted into what is kept and what goes.
Splits(all, kept, went) ==
    /\ kept \in Seq(Edits) /\ Distinct(kept)
    /\ \A e \in Edits : /\ Within(e, all) <=> Within(e, kept) \/ Within(e, went)
                        /\ ~(Within(e, kept) /\ Within(e, went))

LEMMA AmongSplits ==
    ASSUME NEW all \in Seq(Edits), Distinct(all), NEW S
    PROVE  /\ Splits(all, Among(all, S), Among(all, Edits \ S))
           /\ Among(all, Edits \ S) \in Seq(Edits) /\ Distinct(Among(all, Edits \ S))
           /\ S = {} => Among(all, S) = <<>>
<1> DEFINE kept == Among(all, S)
           went == Among(all, Edits \ S)
<1>1. /\ kept \in Seq(Edits) /\ Distinct(kept)
      /\ \A e : Within(e, kept) <=> Within(e, all) /\ e \in S
  BY AmongFacts
<1>2. /\ went \in Seq(Edits) /\ Distinct(went)
      /\ \A e : Within(e, went) <=> Within(e, all) /\ e \in Edits \ S
  BY AmongFacts
<1> HIDE DEF kept, went
<1>3. Splits(all, kept, went)
  BY <1>1, <1>2 DEF Splits
<1>4. S = {} => kept = <<>>
  <2> SUFFICES ASSUME S = {} PROVE kept = <<>>
    OBVIOUS
  <2>1. DOMAIN kept = {}
    BY <1>1 DEF Within
  <2>2. Len(kept) \in Nat \ {0} => 1 \in DOMAIN kept
    BY <1>1
  <2> QED
    BY <1>1, <2>1, <2>2, EmptySeq
<1> QED
  BY <1>2, <1>3, <1>4 DEF kept, went

LEMMA FlushFields ==
    ASSUME NEW s, IsSession(s), s.unsent \in Seq(Edits), s.speculated \in Seq(Edits)
    PROVE  LET t == FlushHeldBack(s)
               all == s.unsent \o s.speculated
           IN  /\ SameBut(s, t, {"speculating", "baseline", "unsent", "speculated", "out"})
               /\ ~s.speculating => ~t.speculating
               /\ s.ending # "live" =>
                    t.unsent = <<>> /\ t.speculated = <<>> /\ t.out = s.out
               /\ s.ending = "live" /\ ~IsWriter(s) => t = s
               /\ s.ending = "live" /\ IsWriter(s) =>
                    /\ t.speculated = <<>>
                    /\ \/ all = <<>> /\ t.unsent = <<>> /\ t.out = s.out
                       \/ \E T : /\ t.unsent = Among(all, T)
                                 /\ t.out = s.out \o AsUpdates(Among(all, Edits \ T))
                                 /\ s.fault = NoFault => T = {}
<1> DEFINE all == s.unsent \o s.speculated
           room == AcceptSpeculation(s)
           sealed == {e \in Edits : Seals(room, Frame("update", {e}))}
<1>1. CASE s.ending # "live"
  BY <1>1 DEF FlushHeldBack, IsSession, SameBut, Fields
<1>2. CASE s.ending = "live" /\ ~IsWriter(s)
  BY <1>2 DEF FlushHeldBack, SameBut
<1>3. CASE s.ending = "live" /\ IsWriter(s) /\ all = <<>>
  <2>1. FlushHeldBack(s) = s
    BY <1>3 DEF FlushHeldBack
  <2>2. s.unsent = <<>> /\ s.speculated = <<>>
    BY ONLY <1>3, s.unsent \in Seq(Edits), s.speculated \in Seq(Edits), ConcatEqualIffEmpty
  <2> QED
    BY <1>3, <2>1, <2>2 DEF SameBut
<1>4. CASE s.ending = "live" /\ IsWriter(s) /\ all # <<>>
  <2>1. /\ SameBut(s, room, {"speculating", "baseline", "unsent", "speculated"})
        /\ room.unsent = all /\ room.speculated = <<>> /\ room.speculating = FALSE
    BY AcceptFields
  <2>2. /\ room.ending = "live" /\ room.fault = s.fault /\ room.out = s.out
        /\ MayPublish(room) /\ IsWriter(room)
    <3>1. room.ending = "live" /\ room.fault = s.fault /\ room.out = s.out
          /\ room.state = s.state
      BY <1>4, <2>1 DEF SameBut, Fields
    <3> QED
      BY <1>4, <3>1, WritersAreCommitted
         DEF MayPublish, StateHeld, CommitsOurs, Role, IsWriter, IsWriterKey
  <2>3. FlushHeldBack(s) = [room EXCEPT !.unsent = Among(@, Edits \ sealed),
                                        !.out = @ \o AsUpdates(Among(room.unsent, sealed))]
    BY <1>4, <2>2 DEF FlushHeldBack
  <2>4. s.fault = NoFault => Edits \ sealed = {}
    <3>1. NoFault.kinds = {} /\ NoFault.edits = {}
      BY DEF NoFault, Fault
    <3>2. ASSUME s.fault = NoFault, NEW e \in Edits PROVE Seals(room, Frame("update", {e}))
      BY <2>2, <3>1, <3>2 DEF Seals
    <3> QED
      BY <3>2
  <2>5. Edits \ (Edits \ sealed) = sealed
    OBVIOUS
  <2> HIDE DEF room, all, sealed
  <2>6. LET t == FlushHeldBack(s) IN
        /\ SameBut(s, t, {"speculating", "baseline", "unsent", "speculated", "out"})
        /\ ~t.speculating /\ t.speculated = <<>> /\ t.unsent = Among(all, Edits \ sealed)
        /\ t.out = s.out \o AsUpdates(Among(all, sealed))
    BY <2>1, <2>2, <2>3 DEF SameBut, Fields, IsSession
  <2>7. \E T : /\ FlushHeldBack(s).unsent = Among(all, T)
               /\ FlushHeldBack(s).out = s.out \o AsUpdates(Among(all, Edits \ T))
               /\ s.fault = NoFault => T = {}
    BY <2>4, <2>5, <2>6
  <2> QED
    BY <1>4, <2>6, <2>7 DEF all
<1> QED
  BY <1>1, <1>2, <1>3, <1>4

\* after_state, up to what the role decides.
Noted(s, st) ==
    NoteLocalEligibility(
        PruneReciprocal(DropDepartedHolds(RefreshHostAway([s EXCEPT !.state = st], TRUE))),
        Role(s))

Outdated(s, st) ==
    {k \in Peers : st[k].role # "none" /\ st[k].seat \in s.departed}

LEMMA NotedFields ==
    ASSUME NEW s, IsSession(s), NEW st
    PROVE  LET t == Noted(s, st) IN
           /\ SameBut(s, t, {"state", "hostAway", "holds", "leases", "served", "pending",
                             "readiness"})
           /\ t.state = st
           /\ t.hostAway = IF HostAbsent(t) THEN 0 ELSE Never
           /\ t.holds = s.holds \ Outdated(s, st)
           /\ t.leases = [k \in Peers |-> IF k \in Outdated(s, st) THEN Never ELSE s.leases[k]]
           /\ t.pending = s.pending \cap {k \in Peers : IsWriterKey(t, k)}
           /\ s.readiness /\ IsWriter(t) => t.readiness
<1> DEFINE a == [s EXCEPT !.state = st]
           b == RefreshHostAway(a, TRUE)
           c == DropDepartedHolds(b)
           d == PruneReciprocal(c)
           t == NoteLocalEligibility(d, Role(s))
<1>1. IsSession(a) /\ SameBut(s, a, {"state"}) /\ a.state = st
  BY DEF IsSession, SameBut, Fields
<1> HIDE DEF a
<1>2. SameBut(a, b, {"hostAway"}) /\ b.hostAway = IF HostAbsent(a) THEN 0 ELSE Never
  BY <1>1, RefreshFields
<1> HIDE DEF b
<1>3. b.departed = s.departed /\ b.state = st /\ b.holds = s.holds /\ b.leases = s.leases
      /\ IsSession(b)
  BY <1>1, <1>2 DEF SameBut, Fields
<1>4. c = Forget(b, Outdated(s, st))
  BY <1>3 DEF DropDepartedHolds, Departed, Outdated
<1>5. /\ SameBut(b, c, {"holds", "leases"}) /\ IsSession(c)
      /\ c.holds = s.holds \ Outdated(s, st)
      /\ c.leases = [k \in Peers |-> IF k \in Outdated(s, st) THEN Never ELSE s.leases[k]]
  BY <1>3, <1>4, ForgetFields DEF SameBut
<1> HIDE DEF c
<1>6. /\ SameBut(c, d, {"served", "pending"}) /\ IsSession(d)
      /\ d.pending = c.pending \cap {k \in Peers : IsWriterKey(c, k)}
  BY <1>5, PruneFields DEF SameBut
<1> HIDE DEF d
<1>7. /\ SameBut(d, t, {"readiness"})
      /\ d.readiness /\ IsWriter(d) => t.readiness
  BY <1>6, NoteFields
<1>8. t = Noted(s, st)
  BY DEF t, d, c, b, a, Noted
<1> HIDE DEF t
<1>9. /\ t.state = st /\ a.state = st /\ c.state = st /\ d.state = st
      /\ t.roster = a.roster /\ c.pending = s.pending /\ d.readiness = s.readiness
      /\ t.hostAway = b.hostAway /\ t.holds = c.holds /\ t.leases = c.leases
      /\ t.pending = d.pending
  BY <1>1, <1>2, <1>3, <1>5, <1>6, <1>7 DEF SameBut, Fields
<1>10. SameBut(s, t, {"state", "hostAway", "holds", "leases", "served", "pending", "readiness"})
  BY <1>1, <1>2, <1>5, <1>6, <1>7 DEF SameBut, Fields
<1>11. HostAbsent(t) <=> HostAbsent(a)
  BY <1>9 DEF HostAbsent, HostSeats
<1>12. /\ \A k : IsWriterKey(t, k) <=> IsWriterKey(c, k)
       /\ IsWriter(t) <=> IsWriter(d)
  BY <1>9 DEF IsWriterKey, IsWriter
<1>13. {k \in Peers : IsWriterKey(t, k)} = {k \in Peers : IsWriterKey(c, k)}
  BY <1>12
<1> QED
  BY <1>2, <1>5, <1>6, <1>7, <1>8, <1>9, <1>10, <1>11, <1>12, <1>13

LEMMA NothingLeft == <<>> \in Seq(Frames) /\ Carries(<<>>, <<>>) /\ Unanswered(<<>>) /\ ~Requests(<<>>)
<1>1. DOMAIN <<>> = {} /\ <<>> \in Seq(Frames)
  OBVIOUS
<1>2. ~ \E e : Within(e, <<>>)
  BY <1>1 DEF Within
<1> QED
  BY <1>1, <1>2 DEF Carries, Updates, Unanswered, Requests

\* Edits are kept only when something cannot be sealed.
Parted(s, all, kept, went) ==
    Splits(all, kept, went) /\ (s.fault = NoFault => kept = <<>>)

\* What the replica and the edits held back become with a role.
Settles(s, t, role) ==
    LET all == s.unsent \o s.speculated IN
    /\ role = "none" =>
         /\ t.doc = s.doc /\ t.baseline = s.baseline /\ t.speculating = s.speculating
         /\ t.unsent = s.unsent /\ t.speculated = s.speculated
         /\ Carries(t.out, <<>>)
    /\ role = "viewer" =>
         /\ t.doc = PublicationDoc(s) /\ ~t.speculating
         /\ t.speculated = <<>> /\ t.unsent \in {s.unsent, <<>>}
         /\ s.ending = "live" => t.unsent = s.unsent
         /\ Carries(t.out, <<>>)
    /\ role \in {"host", "guest"} =>
         /\ t.doc = s.doc /\ ~t.speculating /\ t.speculated = <<>>
         /\ \E went : /\ Carries(t.out, went)
                       /\ IF s.ending = "live"
                          THEN Parted(s, all, t.unsent, went)
                          ELSE went = <<>> /\ t.unsent = <<>>

LEMMA AfterStateFields ==
    ASSUME NEW s, IsSession(s), s.out = <<>>, s.held \subseteq Paths,
           s.unsent \in Seq(Edits), s.speculated \in Seq(Edits),
           Distinct(s.unsent \o s.speculated), NEW st
    PROVE  LET n == Noted(s, st)
               t == AfterState(s, st)
           IN  /\ SameBut(n, t, {"out", "announced", "holdsSent", "holdsAnnounced",
                                 "handshaken", "resync", "pending", "readiness",
                                 "speculating", "baseline", "doc", "unsent", "speculated"})
               /\ t.out \in Seq(Frames) /\ Unanswered(t.out)
               /\ Requests(t.out) => s.handshaken = Never
               /\ ~Requests(t.out) =>
                    t.resync = n.resync /\ t.pending = n.pending /\ t.readiness = n.readiness
               /\ t.pending \subseteq n.pending
               /\ Settles(s, t, st[Me].role)
<1> DEFINE n == Noted(s, st)
           t == AfterState(s, st)
           all == s.unsent \o s.speculated
<1>1. /\ IsSession(n) /\ n.state = st /\ n.out = <<>> /\ n.held = s.held /\ n.fault = s.fault
      /\ n.unsent = s.unsent /\ n.speculated = s.speculated /\ n.ending = s.ending
      /\ n.doc = s.doc /\ n.baseline = s.baseline /\ n.speculating = s.speculating
      /\ n.handshaken = s.handshaken
  <2>1. /\ SameBut(s, n, {"state", "hostAway", "holds", "leases", "served", "pending",
                          "readiness"})
        /\ n.state = st
    BY ONLY IsSession(s), NotedFields
  <2> HIDE DEF n
  <2> QED
    BY <2>1 DEF SameBut, Fields
<1>2. /\ Role(n) = st[Me].role /\ (IsWriter(n) <=> st[Me].role \in {"host", "guest"})
      /\ (CommitsOurs(n) <=> st[Me].role # "none") /\ PublicationDoc(n) = PublicationDoc(s)
  BY <1>1 DEF Role, IsWriter, IsWriterKey, CommitsOurs, PublicationDoc
<1>3. t = AnnounceHolds(IF CommitsOurs(n)
                        THEN FlushHeldBack(HandshakeOnce(ResolveSpeculation(n)))
                        ELSE Announce(n))
  BY DEF AfterState, Noted
<1> HIDE DEF n, t
<1>4. CASE ~CommitsOurs(n)
  <2> DEFINE a == Announce(n)
  <2>1. SameBut(n, a, {"out", "announced"}) /\ a.out \in Seq(Frames) /\ Silent(<<>>, a.out)
    BY <1>1, AnnounceFields, NothingLeft
  <2> HIDE DEF a
  <2>2. IsSession(a) /\ a.held \subseteq Paths
    BY <1>1, <2>1 DEF SameBut, Fields
  <2>3. t = AnnounceHolds(a)
    BY <1>3, <1>4 DEF a
  <2>4. /\ SameBut(a, t, {"out", "holdsSent", "holdsAnnounced"})
        /\ t.out \in Seq(Frames) /\ Silent(a.out, t.out)
    BY <2>1, <2>2, <2>3, AnnounceHoldsFields
  <2>5. Silent(<<>>, t.out)
    BY <2>1, <2>4, SilentTrans
  <2>6. ~Requests(t.out) /\ Unanswered(t.out) /\ Carries(t.out, <<>>)
    BY <2>5, SilentFacts, NothingLeft
  <2>7. /\ SameBut(n, t, {"out", "announced", "holdsSent", "holdsAnnounced"})
    BY <2>1, <2>4 DEF SameBut, Fields
  <2>8. Settles(s, t, st[Me].role)
    BY <1>1, <1>2, <1>4, <2>6, <2>7 DEF Settles, SameBut, Fields
  <2> QED
    BY <2>4, <2>6, <2>7, <2>8 DEF n, t, SameBut, Fields
<1>5. CASE CommitsOurs(n)
  <2> DEFINE r == ResolveSpeculation(n)
             h == HandshakeOnce(r)
             f == FlushHeldBack(h)
  <2>1. /\ SameBut(n, r, {"speculating", "baseline", "doc", "unsent", "speculated"})
        /\ Role(n) = "viewer" =>
             /\ r.doc = PublicationDoc(s) /\ r.speculating = FALSE
             /\ r.unsent = s.unsent /\ r.speculated = <<>>
        /\ IsWriter(n) =>
             /\ r.doc = s.doc /\ r.speculating = FALSE
             /\ r.unsent = all /\ r.speculated = <<>>
        /\ ~IsWriter(n) /\ Role(n) # "viewer" => r = n
    <3>1. ~IsWriter(n) /\ Role(n) # "viewer" => r = n
      BY DEF ResolveSpeculation
    <3> QED
      BY <1>1, <1>2, <3>1, ResolveFields
  <2> HIDE DEF r
  <2>2. IsSession(r) /\ r.out = <<>> /\ r.handshaken = s.handshaken /\ r.state = st
        /\ r.ending = s.ending /\ r.fault = s.fault /\ r.held = s.held
    BY <1>1, <2>1 DEF SameBut, Fields
  <2>3. /\ SameBut(r, h, {"out", "handshaken", "resync", "pending", "readiness"})
        /\ h.out \in Seq(Frames) /\ Carries(h.out, <<>>) /\ Unanswered(h.out)
        /\ Requests(h.out) => s.handshaken = Never
        /\ ~Requests(h.out) => h = r
        /\ h.pending \subseteq r.pending
    <3>1. CASE h = r
      BY <2>2, <3>1, NothingLeft DEF SameBut
    <3>2. CASE /\ SameBut(r, h, {"out", "handshaken", "resync", "pending", "readiness"})
               /\ h.out = Append(r.out, Frame("step1", {}))
               /\ r.handshaken = Never /\ h.pending = {}
      <4>1. h.out = Append(<<>>, Frame("step1", {}))
        BY <2>2, <3>2
      <4>2. /\ h.out \in Seq(Frames) /\ Carries(h.out, <<>>) /\ Unanswered(h.out)
            /\ Requests(h.out)
        BY <4>1, NothingLeft, RequestAppended
      <4> QED
        BY <2>2, <3>2, <4>2
    <3> QED
      BY <2>2, <3>1, <3>2, HandshakeFields
  <2> HIDE DEF h
  <2>4. /\ IsSession(h) /\ h.state = st /\ h.ending = s.ending /\ h.fault = s.fault
        /\ h.held = s.held
        /\ h.unsent = r.unsent /\ h.speculated = r.speculated /\ h.doc = r.doc
        /\ h.speculating = r.speculating
    BY <2>2, <2>3 DEF SameBut, Fields
  <2>5. all \in Seq(Edits) /\ <<>> \in Seq(Edits) /\ all \o <<>> = all
        /\ Distinct(all)
    BY ConcatFacts, ConcatEmptySeq
  <2>6. Role(n) = "viewer" \/ IsWriter(n) => h.unsent \in Seq(Edits) /\ h.speculated \in Seq(Edits)
    BY <2>1, <2>4, <2>5
  <2>7. ~(Role(n) = "viewer" \/ IsWriter(n)) => h.unsent \in Seq(Edits) /\ h.speculated \in Seq(Edits)
    BY <1>1, <2>1, <2>4
  <2>8. IsWriter(h) <=> IsWriter(n)
    BY <1>1, <2>4 DEF IsWriter, IsWriterKey
  <2>9. /\ SameBut(h, f, {"speculating", "baseline", "unsent", "speculated", "out"})
        /\ ~h.speculating => ~f.speculating
        /\ s.ending # "live" => f.unsent = <<>> /\ f.speculated = <<>> /\ f.out = h.out
        /\ s.ending = "live" /\ ~IsWriter(n) => f = h
        /\ s.ending = "live" /\ IsWriter(n) =>
             /\ f.speculated = <<>>
             /\ \/ all = <<>> /\ f.unsent = <<>> /\ f.out = h.out
                \/ \E T : /\ f.unsent = Among(all, T)
                          /\ f.out = h.out \o AsUpdates(Among(all, Edits \ T))
                          /\ s.fault = NoFault => T = {}
    <3>1. IsWriter(n) => h.unsent \o h.speculated = all
      BY <2>1, <2>4, <2>5
    <3> QED
      BY <2>4, <2>6, <2>7, <2>8, <3>1, FlushFields
  <2> HIDE DEF f
  <2>10. PICK went : /\ f.out \in Seq(Frames) /\ Unanswered(f.out)
                     /\ Requests(f.out) <=> Requests(h.out)
                     /\ Carries(f.out, went)
                     /\ IF s.ending = "live" /\ IsWriter(n)
                        THEN Parted(s, all, f.unsent, went)
                        ELSE went = <<>>
    <3>1. CASE ~(s.ending = "live" /\ IsWriter(n))
      <4>1. f.out = h.out
        BY <2>9, <3>1
      <4> QED
        BY <2>3, <3>1, <4>1
    <3>2. CASE s.ending = "live" /\ IsWriter(n) /\ all = <<>> /\ f.unsent = <<>> /\ f.out = h.out
      <4>1. Parted(s, all, f.unsent, <<>>)
        BY <3>2 DEF Parted, Splits, Within, Distinct
      <4> QED
        BY <2>3, <3>2, <4>1
    <3>3. CASE /\ s.ending = "live" /\ IsWriter(n)
               /\ \E T : /\ f.unsent = Among(all, T)
                         /\ f.out = h.out \o AsUpdates(Among(all, Edits \ T))
                         /\ s.fault = NoFault => T = {}
      <4>1. PICK T : /\ f.unsent = Among(all, T)
                     /\ f.out = h.out \o AsUpdates(Among(all, Edits \ T))
                     /\ s.fault = NoFault => T = {}
        BY <3>3
      <4> DEFINE those == Among(all, Edits \ T)
      <4>2. /\ Splits(all, f.unsent, those) /\ those \in Seq(Edits) /\ Distinct(those)
            /\ T = {} => f.unsent = <<>>
        BY <2>5, <4>1, AmongSplits
      <4>3. f.out = h.out \o AsUpdates(those)
        BY <4>1
      <4> HIDE DEF those
      <4>4. LET p == h.out \o AsUpdates(those) IN
            /\ p \in Seq(Frames) /\ Carries(p, those)
            /\ Unanswered(h.out) => Unanswered(p)
            /\ Requests(p) <=> Requests(h.out)
        BY ONLY <2>3, <4>2, BlockAppended
      <4>5. Parted(s, all, f.unsent, those)
        BY <4>1, <4>2 DEF Parted
      <4> QED
        BY <2>3, <3>3, <4>3, <4>4, <4>5
    <3> QED
      BY <2>9, <3>1, <3>2, <3>3
  <2>11. IsSession(f) /\ f.held \subseteq Paths
    BY <2>4, <2>9 DEF SameBut, Fields
  <2>12. t = AnnounceHolds(f)
    BY <1>3, <1>5 DEF f, h, r
  <2>13. /\ SameBut(f, t, {"out", "holdsSent", "holdsAnnounced"})
         /\ t.out \in Seq(Frames) /\ Silent(f.out, t.out)
    BY <2>10, <2>11, <2>12, AnnounceHoldsFields
  <2>14. /\ Requests(t.out) <=> Requests(h.out)
         /\ Unanswered(t.out)
         /\ \A list : Carries(f.out, list) => Carries(t.out, list)
    BY <2>10, <2>13, SilentFacts
  <2>15. SameBut(n, t, {"out", "announced", "holdsSent", "holdsAnnounced",
                        "handshaken", "resync", "pending", "readiness",
                        "speculating", "baseline", "doc", "unsent", "speculated"})
    BY <2>1, <2>3, <2>9, <2>13 DEF SameBut, Fields
  <2>16. ~Requests(t.out) =>
            t.resync = n.resync /\ t.pending = n.pending /\ t.readiness = n.readiness
    BY <2>1, <2>3, <2>9, <2>13, <2>14 DEF SameBut, Fields
  <2>19. t.pending \subseteq n.pending
    BY <2>1, <2>3, <2>9, <2>13 DEF SameBut, Fields
  <2>17. t.doc = r.doc /\ (~r.speculating => ~t.speculating)
         /\ t.unsent = f.unsent /\ t.speculated = f.speculated
    BY <2>4, <2>9, <2>13 DEF SameBut, Fields
  <2>18. Settles(s, t, st[Me].role)
    <3>1. CASE st[Me].role = "viewer"
      <4>1. ~IsWriter(n) /\ Role(n) = "viewer"
        BY <1>2, <3>1
      <4>2. t.doc = PublicationDoc(s) /\ ~t.speculating
        BY <2>1, <2>17, <4>1
      <4>3. Carries(t.out, <<>>)
        BY <2>10, <2>14, <4>1
      <4>4. t.speculated = <<>> /\ t.unsent \in {s.unsent, <<>>}
            /\ (s.ending = "live" => t.unsent = s.unsent)
        BY <2>1, <2>4, <2>9, <2>17, <4>1
      <4> QED
        BY <3>1, <4>2, <4>3, <4>4 DEF Settles
    <3>2. CASE st[Me].role \in {"host", "guest"}
      <4>1. IsWriter(n)
        BY <1>2, <3>2
      <4>2. t.doc = s.doc /\ ~t.speculating
        BY <2>1, <2>17, <4>1
      <4>3. Carries(t.out, went)
        BY <2>10, <2>14
      <4>4. t.speculated = <<>> /\ t.unsent = f.unsent
        BY <2>9, <2>17, <4>1
      <4>5. CASE s.ending # "live"
        <5>1. went = <<>> /\ t.unsent = <<>>
          BY <2>9, <2>10, <4>4, <4>5
        <5> QED
          BY <3>2, <4>2, <4>3, <4>4, <4>5, <5>1 DEF Settles
      <4>6. CASE s.ending = "live"
        <5>1. Parted(s, all, t.unsent, went)
          BY <2>10, <4>1, <4>4, <4>6
        <5> QED
          BY <3>2, <4>2, <4>3, <4>4, <4>6, <5>1 DEF Settles
      <4> QED
        BY <4>5, <4>6
    <3>3. CASE st[Me].role \notin {"host", "guest", "viewer"}
      BY <1>2, <1>5, <3>3 DEF Settles
    <3> QED
      BY <3>1, <3>2, <3>3
  <2> QED
    BY <2>13, <2>14, <2>15, <2>16, <2>18, <2>19, <2>3 DEF n, t
<1> QED
  BY <1>4, <1>5

With(doc, edits) == doc \cup edits
IsText(doc) == doc \subseteq Edits \cup Remote

LEMMA ContentFields ==
    ASSUME NEW s, IsSession(s), s.out = <<>>, NEW k, NEW edits, NEW asks,
           IsText(With(s.doc, edits)), s.speculating => IsText(With(s.baseline, edits))
    PROVE  LET t == ApplyContent(s, k, edits, asks)
               clean == IF s.speculating THEN With(s.baseline, edits) ELSE With(s.doc, edits)
           IN  /\ SameBut(s, t, {"doc", "baseline", "served", "pending", "out"})
               /\ t.doc = With(s.doc, edits)
               /\ s.speculating => t.baseline = With(s.baseline, edits)
               /\ s.pending \subseteq t.pending /\ t.pending \subseteq s.pending \cup {k}
               /\ t.out \in Seq(Frames) /\ ~Requests(t.out) /\ Carries(t.out, <<>>)
               /\ \A i \in DOMAIN t.out : t.out[i].kind = "step2" => t.out[i].what = clean
<1> DEFINE read == [s EXCEPT !.doc = @ \cup edits,
                             !.baseline = IF s.speculating THEN @ \cup edits ELSE @]
           armed == IF asks THEN ArmReciprocal(read, k) ELSE read
           f == Frame("step2", PublicationDoc(read))
           t == ApplyContent(s, k, edits, asks)
           clean == IF s.speculating THEN s.baseline \cup edits ELSE s.doc \cup edits
<1>1. /\ SameBut(s, read, {"doc", "baseline"}) /\ read.doc = s.doc \cup edits
      /\ s.speculating => read.baseline = s.baseline \cup edits
      /\ read.pending = s.pending /\ IsSession(read)
  BY DEF IsSession, SameBut, Fields
<1>2. t \in {armed, Publish(armed, f)}
  BY DEF ApplyContent
<1> HIDE DEF read
<1>3. SameBut(read, armed, {"served", "pending"}) /\ s.pending \subseteq armed.pending
      /\ armed.pending \subseteq s.pending \cup {k}
      /\ IsSession(armed)
  <2>1. CASE asks
    BY <1>1, <2>1, ArmFields DEF SameBut
  <2>2. CASE ~asks
    BY <1>1, <2>2 DEF SameBut
  <2> QED
    BY <2>1, <2>2
<1> HIDE DEF armed
<1>4. armed.out = <<>> /\ PublicationDoc(read) = clean /\ clean \subseteq Edits \cup Remote
  BY <1>1, <1>3 DEF SameBut, Fields, PublicationDoc, IsText, With
<1>5. f \in Frames /\ f.kind = "step2" /\ f.what = clean
  BY <1>4 DEF f, Frame, Frames, Kinds
<1> HIDE DEF f, clean, t
<1>6. SameBut(armed, t, {"out"}) /\ t.out \in {<<>>, Append(<<>>, f)}
  <2>1. CASE t = armed
    BY <1>3, <1>4, <2>1 DEF SameBut
  <2>2. CASE t = Publish(armed, f)
    BY <1>3, <1>4, <2>2, PublishFields
  <2> QED
    BY <1>2, <2>1, <2>2
<1>7. /\ t.out \in Seq(Frames) /\ ~Requests(t.out) /\ Carries(t.out, <<>>)
      /\ \A i \in DOMAIN t.out : t.out[i].kind = "step2" => t.out[i].what = clean
  <2>1. CASE t.out = <<>>
    BY <2>1, NothingLeft
  <2>2. CASE t.out = Append(<<>>, f)
    <3>1. t.out \in Seq(Frames) /\ DOMAIN t.out = {1} /\ t.out[1] = f
      BY <1>5, <2>2
    <3>2. \A e : Updates(t.out, e) = {}
      BY <1>5, <3>1 DEF Updates
    <3>3. ~ \E e : Within(e, <<>>)
      BY DEF Within
    <3> QED
      BY <1>5, <3>1, <3>2, <3>3 DEF Requests, Carries
  <2> QED
    BY <1>6, <2>1, <2>2
<1>8. SameBut(s, t, {"doc", "baseline", "served", "pending", "out"})
  BY <1>1, <1>3, <1>6 DEF SameBut, Fields
<1>9. t.doc = read.doc /\ t.baseline = read.baseline /\ t.pending = armed.pending
  BY <1>3, <1>6 DEF SameBut, Fields
<1> QED
  BY <1>1, <1>3, <1>7, <1>8, <1>9 DEF t, clean, With

LEMMA JoinedFields ==
    ASSUME NEW s, IsSession(s), s.out = <<>>, s.held \subseteq Paths, NEW seat
    PROVE  LET t == SeatJoinedAt(s, seat) IN
           /\ SameBut(s, t, {"departed", "roster", "holdsSent", "holdsAnnounced", "out"})
           /\ t.departed = s.departed \ {seat} /\ t.roster = s.roster \cup {seat}
           /\ t.out \in Seq(Frames) /\ Silent(<<>>, t.out)
<1> DEFINE shown == [s EXCEPT !.departed = @ \ {seat}, !.roster = @ \cup {seat},
                              !.holdsAnnounced = Never]
           f == Frame("state", {})
           t == SeatJoinedAt(s, seat)
<1>1. PICK a \in {shown, [shown EXCEPT !.out = Append(@, f)]} : t = AnnounceHolds(a)
  BY DEF SeatJoinedAt
<1>2. /\ SameBut(s, a, {"departed", "roster", "holdsAnnounced", "out"})
      /\ a.departed = s.departed \ {seat} /\ a.roster = s.roster \cup {seat}
      /\ a.out \in {<<>>, Append(<<>>, f)} /\ a.held = s.held
  BY DEF IsSession, SameBut, Fields
<1>3. f \in Frames /\ f.kind \notin Counted
  BY DEF Frame, Frames, Kinds, Counted
<1>4. <<>> \in Seq(Frames) /\ Silent(<<>>, <<>>)
  BY DEF Silent
<1> HIDE DEF f, shown, t
<1>5. a.out \in Seq(Frames) /\ Silent(<<>>, a.out) /\ IsSession(a)
  <2>1. IsSession(a)
    BY ONLY <1>2 DEF SameBut
  <2>2. Append(<<>>, f) \in Seq(Frames) /\ Silent(<<>>, Append(<<>>, f))
    BY ONLY <1>3, <1>4, SilentAppend
  <2> QED
    BY ONLY <1>2, <1>4, <2>1, <2>2
<1>6. /\ SameBut(a, t, {"out", "holdsSent", "holdsAnnounced"})
      /\ t.out \in Seq(Frames) /\ Silent(a.out, t.out)
  BY <1>1, <1>2, <1>5, AnnounceHoldsFields
<1>7. Silent(<<>>, t.out)
  BY <1>5, <1>6, SilentTrans
<1>8. /\ SameBut(s, t, {"departed", "roster", "holdsSent", "holdsAnnounced", "out"})
      /\ t.departed = a.departed /\ t.roster = a.roster
  BY <1>2, <1>6 DEF SameBut, Fields
<1> QED
  BY <1>2, <1>6, <1>7, <1>8 DEF t

LEMMA LeftFields ==
    ASSUME NEW s, IsSession(s), NEW seat
    PROVE  LET t == SeatLeftAt(s, seat)
               left == {j \in Peers : /\ s.state[j].role # "none"
                                       /\ s.state[j].seat \in s.departed \cup {seat}}
           IN  /\ SameBut(s, t, {"roster", "departed", "holds", "leases", "hostAway"})
               /\ t.roster = s.roster \ {seat} /\ t.departed = s.departed \cup {seat}
               /\ t.holds = s.holds \ left
               /\ t.leases = [j \in Peers |-> IF j \in left THEN Never ELSE s.leases[j]]
               /\ t.hostAway = IF ~HostAbsent(t) THEN Never
                               ELSE IF s.hostAway = Never THEN 0 ELSE s.hostAway
<1> DEFINE a == [s EXCEPT !.roster = @ \ {seat}, !.departed = @ \cup {seat}]
           b == DropDepartedHolds(a)
           t == SeatLeftAt(s, seat)
           left == {j \in Peers : /\ s.state[j].role # "none"
                                       /\ s.state[j].seat \in s.departed \cup {seat}}
<1>1. /\ SameBut(s, a, {"roster", "departed"}) /\ IsSession(a)
      /\ a.roster = s.roster \ {seat} /\ a.departed = s.departed \cup {seat}
      /\ a.state = s.state /\ a.holds = s.holds /\ a.leases = s.leases
  BY DEF IsSession, SameBut, Fields
<1>2. t = RefreshHostAway(b, FALSE)
  BY DEF SeatLeftAt
<1> HIDE DEF a, t
<1>3. b = Forget(a, left)
  BY <1>1 DEF DropDepartedHolds, Departed
<1> HIDE DEF b, left
<1>4. /\ SameBut(a, b, {"holds", "leases"}) /\ IsSession(b)
      /\ b.holds = s.holds \ left
      /\ b.leases = [j \in Peers |-> IF j \in left THEN Never ELSE s.leases[j]]
  BY <1>1, <1>3, ForgetFields DEF SameBut
<1>5. /\ SameBut(b, t, {"hostAway"})
      /\ t.hostAway = IF ~HostAbsent(b) THEN Never
                      ELSE IF b.hostAway = Never THEN 0 ELSE b.hostAway
  BY <1>2, <1>4, RefreshFields
<1>6. /\ SameBut(s, t, {"roster", "departed", "holds", "leases", "hostAway"})
      /\ t.roster = a.roster /\ t.departed = a.departed /\ t.holds = b.holds
      /\ t.leases = b.leases /\ b.hostAway = s.hostAway
      /\ t.state = b.state /\ t.roster = b.roster
  BY <1>1, <1>4, <1>5 DEF SameBut, Fields
<1>7. HostAbsent(t) <=> HostAbsent(b)
  BY <1>6 DEF HostAbsent, HostSeats
<1> QED
  BY <1>1, <1>4, <1>5, <1>6, <1>7 DEF t, left

LEMMA TickFields ==
    ASSUME NEW s, IsSession(s), s.out = <<>>, s.held \subseteq Paths
    PROVE  LET t == Ticked(s)
               lapsed == {k \in Peers : s.leases[k] >= Expire}
           IN  /\ SameBut(s, t, {"holds", "leases", "hostAway", "ending", "out", "announced",
                                 "handshaken", "resync", "pending", "readiness",
                                 "holdsSent", "holdsAnnounced"})
               /\ t.holds = s.holds \ lapsed
               /\ t.leases = [k \in Peers |-> IF k \in lapsed THEN Never ELSE s.leases[k]]
               /\ t.hostAway = IF ~HostAbsent(t) THEN Never
                               ELSE IF s.hostAway = Never THEN 0 ELSE s.hostAway
               /\ t.ending = "hostAway" /\ s.ending # "hostAway" => t.hostAway >= Expire
               /\ t.ending = "live" => s.ending = "live"
               /\ t.out \in Seq(Frames) /\ Unanswered(t.out) /\ Carries(t.out, <<>>)
               /\ Requests(t.out) => Due(s.handshaken)
               /\ t.pending \subseteq s.pending
               /\ ~Requests(t.out) =>
                    t.resync = s.resync /\ t.pending = s.pending /\ t.readiness = s.readiness
<1> DEFINE lapsed == {k \in Peers : s.leases[k] >= Expire}
           a == ExpireLeases(s)
           b == RefreshHostAway(a, FALSE)
           w == WindowPassed(b)
           t == Ticked(s)
<1>1. /\ SameBut(s, a, {"holds", "leases"}) /\ IsSession(a)
      /\ a.holds = s.holds \ lapsed
      /\ a.leases = [k \in Peers |-> IF k \in lapsed THEN Never ELSE s.leases[k]]
  BY ForgetFields DEF ExpireLeases, SameBut
<1>2. t = IF b.ending # "live" THEN b ELSE IF w.ending # "live" THEN w
          ELSE AnnounceHolds(Resync(Reannounce(w)))
  BY DEF Ticked
<1> HIDE DEF a, lapsed, t
<1>3. /\ SameBut(a, b, {"hostAway"}) /\ IsSession(b)
      /\ b.hostAway = IF ~HostAbsent(a) THEN Never
                      ELSE IF a.hostAway = Never THEN 0 ELSE a.hostAway
  <2>1. /\ SameBut(a, b, {"hostAway"})
        /\ b.hostAway = IF ~HostAbsent(a) THEN Never
                        ELSE IF FALSE \/ a.hostAway = Never THEN 0 ELSE a.hostAway
    BY ONLY <1>1, RefreshFields
  <2> QED
    BY ONLY <2>1 DEF SameBut
<1> HIDE DEF b
<1>4. /\ SameBut(b, w, {"ending"}) /\ IsSession(w)
      /\ w.ending = "hostAway" /\ b.ending # "hostAway" => b.hostAway >= Expire
      /\ w.ending = "live" => b.ending = "live"
  BY <1>3, WindowFields DEF SameBut
<1> HIDE DEF w
<1>5. /\ b.ending = s.ending /\ b.out = <<>> /\ w.out = <<>> /\ w.held = s.held
      /\ w.handshaken = s.handshaken /\ w.resync = s.resync /\ w.pending = s.pending
      /\ w.readiness = s.readiness /\ a.hostAway = s.hostAway /\ w.hostAway = b.hostAway
      /\ b.resync = s.resync /\ b.pending = s.pending /\ b.readiness = s.readiness
  BY <1>1, <1>3, <1>4 DEF SameBut, Fields
<1> DEFINE Late == {"out", "announced", "handshaken", "resync", "pending", "readiness",
                    "holdsSent", "holdsAnnounced"}
<1>6. /\ SameBut(b, t, Late \cup {"ending"})
      /\ t.ending \in {b.ending, w.ending} /\ (t.ending = "live" => b.ending = "live")
      /\ t.out \in Seq(Frames) /\ Unanswered(t.out) /\ Carries(t.out, <<>>)
      /\ Requests(t.out) => Due(s.handshaken)
      /\ t.pending \subseteq s.pending
      /\ ~Requests(t.out) =>
           t.resync = s.resync /\ t.pending = s.pending /\ t.readiness = s.readiness
  <2>1. CASE b.ending # "live"
    <3>1. t = b
      BY <1>2, <2>1
    <3> QED
      BY <1>3, <1>5, <3>1, NothingLeft DEF SameBut
  <2>2. CASE b.ending = "live" /\ w.ending # "live"
    <3>1. t = w
      BY <1>2, <2>2
    <3>2. SameBut(b, w, Late \cup {"ending"})
      BY <1>4 DEF SameBut
    <3> QED
      BY <1>5, <2>2, <3>1, <3>2, NothingLeft
  <2>3. CASE b.ending = "live" /\ w.ending = "live"
    <3> DEFINE c == Reannounce(w)
               d == Resync(c)
    <3>1. /\ SameBut(w, c, {"out", "announced"}) /\ IsSession(c)
          /\ c.out \in Seq(Frames) /\ Silent(<<>>, c.out)
      <4>1. w.out \in Seq(Frames)
        BY <1>5, NothingLeft
      <4> QED
        BY <1>4, <1>5, <4>1, ReannounceFields DEF SameBut
    <3>2. ~Requests(c.out) /\ Unanswered(c.out) /\ Carries(c.out, <<>>)
      BY <3>1, SilentFacts, NothingLeft
    <3> HIDE DEF c
    <3>3. c.handshaken = s.handshaken
      BY <1>5, <3>1 DEF SameBut, Fields
    <3>4. /\ SameBut(c, d, {"out", "handshaken", "resync", "pending", "readiness"})
          /\ d.out \in Seq(Frames) /\ Unanswered(d.out) /\ Carries(d.out, <<>>)
          /\ Requests(d.out) => Due(s.handshaken)
          /\ ~Requests(d.out) => d = c
          /\ d.pending \subseteq c.pending
      <4>1. CASE d = c
        BY <3>1, <3>2, <4>1 DEF SameBut
      <4>2. CASE /\ SameBut(c, d, {"out", "handshaken", "resync", "pending", "readiness"})
                 /\ d.out = Append(c.out, Frame("step1", {}))
                 /\ Due(c.handshaken) /\ d.pending = {}
        <5>1. /\ d.out \in Seq(Frames) /\ Unanswered(d.out) /\ Carries(d.out, <<>>)
              /\ Requests(d.out)
          BY <3>1, <3>2, <4>2, RequestAppended
        <5> QED
          BY <3>3, <4>2, <5>1
      <4> QED
        BY <3>1, <4>1, <4>2, ResyncFields
    <3> HIDE DEF d
    <3>5. IsSession(d) /\ d.held \subseteq Paths
      BY <1>5, <3>1, <3>4 DEF SameBut, Fields
    <3>6. t = AnnounceHolds(d)
      BY <1>2, <2>3 DEF d, c
    <3>7. /\ SameBut(d, t, {"out", "holdsSent", "holdsAnnounced"})
          /\ t.out \in Seq(Frames) /\ Silent(d.out, t.out)
      BY <3>4, <3>5, <3>6, AnnounceHoldsFields
    <3>8. /\ Requests(t.out) <=> Requests(d.out)
          /\ Unanswered(t.out) /\ Carries(t.out, <<>>)
      BY <3>4, <3>7, SilentFacts
    <3>9. SameBut(b, t, Late \cup {"ending"}) /\ t.ending = w.ending
      BY <1>4, <3>1, <3>4, <3>7 DEF SameBut, Fields
    <3>10. ~Requests(t.out) =>
              t.resync = s.resync /\ t.pending = s.pending /\ t.readiness = s.readiness
      BY <1>5, <3>1, <3>4, <3>7, <3>8 DEF SameBut, Fields
    <3>11. t.pending \subseteq s.pending
      BY <1>5, <3>1, <3>4, <3>7 DEF SameBut, Fields
    <3> QED
      BY <2>3, <3>4, <3>7, <3>8, <3>9, <3>10, <3>11
  <2> QED
    BY <2>1, <2>2, <2>3
<1>7. /\ SameBut(s, t, Late \cup {"holds", "leases", "hostAway", "ending"})
      /\ t.holds = a.holds /\ t.leases = a.leases /\ t.hostAway = b.hostAway
      /\ t.state = a.state /\ t.roster = a.roster
  BY <1>1, <1>3, <1>6 DEF SameBut, Fields
<1>8. HostAbsent(t) <=> HostAbsent(a)
  BY <1>7 DEF HostAbsent, HostSeats
<1>9. SameBut(s, t, {"holds", "leases", "hostAway", "ending", "out", "announced", "handshaken",
                     "resync", "pending", "readiness", "holdsSent", "holdsAnnounced"})
  BY <1>7 DEF SameBut
<1>10. t.ending = "hostAway" /\ s.ending # "hostAway" => t.hostAway >= Expire
  BY <1>4, <1>5, <1>6, <1>7
<1>11. t.hostAway = IF ~HostAbsent(t) THEN Never
                    ELSE IF s.hostAway = Never THEN 0 ELSE s.hostAway
  BY <1>3, <1>5, <1>7, <1>8
<1> QED
  BY <1>1, <1>5, <1>6, <1>7, <1>9, <1>10, <1>11 DEF t, lapsed

\* What an edit changes, for a writer and for another.
Typed(s, t, e) ==
    LET all == s.unsent \o s.speculated IN
    /\ SameBut(s, t, {"doc", "speculating", "baseline", "unsent", "speculated", "out"})
    /\ t.doc = s.doc \cup {e}
    /\ ~IsWriter(s) =>
         /\ t.speculating /\ t.baseline = IF s.speculating THEN s.baseline ELSE s.doc
         /\ t.unsent = s.unsent /\ t.out = <<>>
         /\ t.speculated = IF s.ending = "live" THEN Append(s.speculated, e)
                           ELSE s.speculated
    /\ IsWriter(s) /\ s.ending # "live" => SameBut(s, t, {"doc"})
    /\ IsWriter(s) /\ s.ending = "live" =>
         /\ ~t.speculating /\ t.speculated = <<>>
         /\ \/ t.unsent = all /\ t.out = Append(<<>>, Frame("update", {e}))
            \/ t.unsent = Append(all, e) /\ t.out = <<>> /\ s.fault # NoFault

LEMMA InsertedFields ==
    ASSUME NEW s, IsSession(s), s.out = <<>>, NEW e \in Edits, Role(s) # "viewer"
    PROVE  Typed(s, Inserted(s, e), e)
<1> DEFINE t == Inserted(s, e)
           all == s.unsent \o s.speculated
           update == Frame("update", {e})
<1>1. CASE ~IsWriter(s)
  <2> DEFINE b == BeginSpeculation(s)
             typed == [b EXCEPT !.doc = @ \cup {e}]
  <2>1. /\ SameBut(s, b, {"speculating", "baseline"})
        /\ b.speculating /\ b.baseline = IF s.speculating THEN s.baseline ELSE s.doc
    BY BeginFields
  <2>2. t = IF ~MayPublish(typed) \/ ~IsWriter(typed) THEN HoldBack(typed, e, TRUE)
            ELSE t
    BY <1>1 DEF Inserted
  <2> HIDE DEF b
  <2>3. /\ SameBut(s, typed, {"speculating", "baseline", "doc"}) /\ typed.doc = s.doc \cup {e}
        /\ typed.speculating = b.speculating /\ typed.baseline = b.baseline
    BY <2>1 DEF SameBut, Fields, IsSession
  <2> HIDE DEF typed, t
  <2>4. typed.state = s.state /\ typed.ending = s.ending /\ typed.unsent = s.unsent
        /\ typed.out = <<>> /\ typed.speculated = s.speculated
    BY <2>3 DEF SameBut, Fields
  <2>5. ~IsWriter(typed) /\ Role(typed) # "viewer"
    BY <1>1, <2>4 DEF IsWriter, IsWriterKey, Role
  <2>6. t = IF s.ending # "live" THEN typed ELSE [typed EXCEPT !.speculated = Append(@, e)]
    BY <2>2, <2>4, <2>5 DEF HoldBack
  <2>7. /\ SameBut(typed, t, {"speculated"})
        /\ t.speculated = IF s.ending = "live" THEN Append(s.speculated, e) ELSE s.speculated
    BY <2>3, <2>4, <2>6 DEF SameBut, Fields, IsSession
  <2>8. /\ SameBut(s, t, {"doc", "speculating", "baseline", "unsent", "speculated", "out"})
        /\ t.doc = typed.doc /\ t.speculating = typed.speculating
        /\ t.baseline = typed.baseline /\ t.unsent = s.unsent /\ t.out = <<>>
    BY <2>3, <2>4, <2>7 DEF SameBut, Fields
  <2> QED
    BY <1>1, <2>1, <2>3, <2>7, <2>8 DEF t, Typed
<1>2. CASE IsWriter(s)
  <2> DEFINE typed == [s EXCEPT !.doc = @ \cup {e}]
             room == AcceptSpeculation(typed)
  <2>1. t = IF ~MayPublish(typed) \/ ~IsWriter(typed) THEN HoldBack(typed, e, FALSE)
            ELSE IF Seals(room, update) THEN Publish(room, update)
            ELSE HoldBack(room, e, FALSE)
    BY <1>2 DEF Inserted
  <2>2. SameBut(s, typed, {"doc"}) /\ typed.doc = s.doc \cup {e} /\ IsSession(typed)
    BY DEF SameBut, Fields, IsSession
  <2> HIDE DEF typed, t
  <2>3. typed.state = s.state /\ typed.ending = s.ending /\ typed.unsent = s.unsent
        /\ typed.out = <<>> /\ typed.speculated = s.speculated /\ typed.fault = s.fault
    BY <2>2 DEF SameBut, Fields
  <2>4. /\ IsWriter(typed) /\ Role(typed) # "viewer"
        /\ MayPublish(typed) <=> s.ending = "live"
    BY <1>2, <2>3, WritersAreCommitted
       DEF IsWriter, IsWriterKey, Role, MayPublish, StateHeld, CommitsOurs
  <2>5. CASE s.ending # "live"
    <3>1. t = typed
      BY <2>1, <2>3, <2>4, <2>5 DEF HoldBack
    <3> QED
      BY <1>2, <2>2, <2>5, <3>1 DEF SameBut, t, Typed
  <2>6. CASE s.ending = "live"
    <3>1. /\ SameBut(typed, room, {"speculating", "baseline", "unsent", "speculated"})
          /\ IsSession(room) /\ ~room.speculating /\ room.unsent = all /\ room.speculated = <<>>
      BY <2>2, <2>3, AcceptFields DEF SameBut
    <3> HIDE DEF room
    <3>2. room.state = s.state /\ room.ending = "live" /\ room.fault = s.fault /\ room.out = <<>>
          /\ room.doc = typed.doc
      BY <2>3, <2>6, <3>1 DEF SameBut, Fields
    <3>3. IsWriter(room) /\ MayPublish(room) /\ Role(room) # "viewer"
      BY <1>2, <3>2, WritersAreCommitted
         DEF IsWriter, IsWriterKey, Role, MayPublish, StateHeld, CommitsOurs
    <3>4. s.fault = NoFault => Seals(room, update)
      <4>1. NoFault.kinds = {} /\ NoFault.edits = {}
        BY DEF NoFault, Fault
      <4> QED
        BY <3>2, <3>3, <4>1 DEF Seals
    <3>5. SameBut(s, room, {"doc", "speculating", "baseline", "unsent", "speculated", "out"})
      BY <2>2, <3>1 DEF SameBut, Fields
    <3> HIDE DEF all, update
    <3>6. CASE Seals(room, update)
      <4>1. t = Publish(room, update)
        BY <2>1, <2>4, <2>6, <3>4, <3>6
      <4>2. SameBut(room, t, {"out"}) /\ t.out = Append(<<>>, update)
        BY <3>1, <3>2, <3>4, <3>6, <4>1, PublishFields
      <4>3. /\ SameBut(s, t, {"doc", "speculating", "baseline", "unsent", "speculated", "out"})
            /\ t.doc = room.doc /\ t.speculating = room.speculating
            /\ t.unsent = room.unsent /\ t.speculated = room.speculated
        BY <3>5, <4>2 DEF SameBut, Fields
      <4> QED
        BY <1>2, <2>2, <2>6, <3>1, <3>2, <4>2, <4>3 DEF t, all, update, Typed
    <3>7. CASE ~Seals(room, update)
      <4>1. t = [room EXCEPT !.unsent = Append(@, e)]
        BY <2>1, <2>4, <2>6, <3>2, <3>3, <3>4, <3>7 DEF HoldBack
      <4>2. SameBut(room, t, {"unsent"}) /\ t.unsent = Append(all, e)
        BY <3>1, <4>1 DEF SameBut, Fields, IsSession
      <4>3. /\ SameBut(s, t, {"doc", "speculating", "baseline", "unsent", "speculated", "out"})
            /\ t.doc = room.doc /\ t.speculating = room.speculating
            /\ t.out = room.out /\ t.speculated = room.speculated
        BY <3>5, <4>2 DEF SameBut, Fields
      <4> QED
        BY <1>2, <2>2, <2>6, <3>1, <3>2, <3>4, <3>7, <4>2, <4>3 DEF t, all, update, Typed
    <3> QED
      BY <3>6, <3>7
  <2> QED
    BY <2>5, <2>6
<1> QED
  BY <1>1, <1>2

----------------------------------------------------------------------------
(* The parts of the invariant that an action does not disturb.              *)

LEMMA SeatKept ==
    ASSUME SeatInv, IsSession(peer'), peer'.state = peer.state, peer'.roster = peer.roster,
           peer'.departed = peer.departed, peer'.held = peer.held,
           peer'.pending \subseteq Peers, sinceTick' \in 0 .. Renew
    PROVE  SeatInv'
  BY DEF SeatInv, IsSession, HostSeats

LEMMA AwayKept ==
    ASSUME AwayInv, peer'.state = peer.state, peer'.roster = peer.roster,
           peer'.hostAway = peer.hostAway, gone' = gone
    PROVE  AwayInv'
  BY DEF AwayInv, HostAbsent, HostSeats

LEMMA LeaseKept ==
    ASSUME LeaseInv, peer'.state = peer.state, peer'.departed = peer.departed,
           peer'.holds = peer.holds, peer'.leases = peer.leases, sinceTick' = sinceTick,
           spoke' = spoke
    PROVE  LeaseInv'
  BY DEF LeaseInv, Departed

LEMMA ReplicaKept ==
    ASSUME ReplicaInv, peer'.state = peer.state, peer'.doc = peer.doc,
           peer'.baseline = peer.baseline, peer'.speculating = peer.speculating,
           fate' = fate, received' = received
    PROVE  ReplicaInv'
  BY DEF ReplicaInv, RolledBack, Fated, Role

LEMMA SentKept ==
    ASSUME SentInv, peer'.unsent = peer.unsent, peer'.speculated = peer.speculated,
           fate' = fate, \A e \in Edits : sent'[e] = sent[e], sent' \in [Edits -> Nat],
           peer'.out \in Seq(Frames), Unanswered(peer'.out)
    PROVE  SentInv'
  BY DEF SentInv, OnlyTheRoomsHistoryLeaves, Unanswered

LEMMA OnceKept ==
    ASSUME OnceInv, peer'.unsent = peer.unsent, peer'.speculated = peer.speculated,
           fate' = fate, \A e \in Edits : sent'[e] = sent[e],
           faults' \in Nat, faults' = 0 => faults = 0,
           peer'.ending = "live" => peer.ending = "live"
    PROVE  OnceInv'
  BY DEF OnceInv, Fated

\* What the call that returns leaves behind.
LEMMA ReturnFields ==
    ASSUME NEW s \in Calls, NEW after, IsSession(after), Return(s, after),
           sent \in [Edits -> Nat], faults \in Nat, NEW list, Carries(after.out, list)
    PROVE  /\ SameBut(after, peer', {"fault"})
           /\ sent' \in [Edits -> Nat]
           /\ \A e \in Edits : sent'[e] = IF Within(e, list) THEN sent[e] + 1 ELSE sent[e]
           /\ faults' \in Nat /\ (faults' = 0 => faults = 0 /\ s.fault = NoFault)
<1>1. SameBut(after, peer', {"fault"})
  BY DEF Return, SameBut, IsSession, Fields
<1>2. ASSUME NEW e \in Edits
      PROVE  /\ sent[e] + Cardinality(Updates(after.out, e)) \in Nat
             /\ sent[e] + Cardinality(Updates(after.out, e))
                = IF Within(e, list) THEN sent[e] + 1 ELSE sent[e]
  <2>1. CASE Within(e, list)
    <3>1. PICK i : Updates(after.out, e) = {i}
      BY <2>1 DEF Carries
    <3>2. Cardinality(Updates(after.out, e)) = 1
      BY <3>1, FS_Singleton
    <3> QED
      BY <2>1, <3>2
  <2>2. CASE ~Within(e, list)
    <3>1. Updates(after.out, e) = {}
      BY <2>2 DEF Carries
    <3>2. Cardinality(Updates(after.out, e)) = 0
      BY <3>1, FS_EmptySet
    <3> QED
      BY <2>2, <3>2
  <2> QED
    BY <2>1, <2>2
<1>3. sent' = [e \in Edits |-> sent[e] + Cardinality(Updates(after.out, e))]
  BY DEF Return
<1>4. faults' \in Nat /\ (faults' = 0 => faults = 0 /\ s.fault = NoFault)
  BY DEF Return
<1> QED
  BY <1>1, <1>2, <1>3, <1>4

\* The edits that are held back, in both parts.
LEMMA HeldBackFacts ==
    ASSUME SentInv, OnceInv
    PROVE  LET all == peer.unsent \o peer.speculated IN
           /\ all \in Seq(Edits) /\ Distinct(all)
           /\ \A e : Within(e, all) <=> Within(e, peer.unsent) \/ Within(e, peer.speculated)
           /\ \A e \in Edits : Within(e, all) => sent[e] = 0 /\ fate[e] \in {"room", "open"}
<1> DEFINE u == peer.unsent
           w == peer.speculated
           all == u \o w
<1>1. u \in Seq(Edits) /\ w \in Seq(Edits) /\ Distinct(u) /\ Distinct(w)
  BY DEF SentInv, OnceInv
<1>2. \A e \in Edits : /\ Within(e, u) => fate[e] = "room" /\ sent[e] = 0
                       /\ Within(e, w) => fate[e] = "open" /\ sent[e] = 0
  <2>1. ASSUME NEW e \in Edits, fate[e] = "open" PROVE sent[e] = 0
    BY <2>1 DEF SentInv, OnlyTheRoomsHistoryLeaves
  <2> QED
    BY <2>1 DEF SentInv, OnceInv
<1> HIDE DEF u, w
<1>3. /\ all \in Seq(Edits) /\ DOMAIN all = 1 .. Len(u) + Len(w)
      /\ \A i \in 1 .. Len(u) : all[i] = u[i]
      /\ \A i \in 1 .. Len(w) : all[Len(u) + i] = w[i]
  BY ONLY <1>1, ConcatFacts
<1>4. DOMAIN u = 1 .. Len(u) /\ DOMAIN w = 1 .. Len(w) /\ Len(u) \in Nat /\ Len(w) \in Nat
  BY <1>1
<1> HIDE DEF all
<1>5. \A i \in DOMAIN all : \/ i \in DOMAIN u /\ all[i] = u[i]
                            \/ i - Len(u) \in DOMAIN w /\ all[i] = w[i - Len(u)] /\ i \in Int
  <2> SUFFICES ASSUME NEW i \in DOMAIN all, i \notin DOMAIN u
               PROVE  i - Len(u) \in DOMAIN w /\ all[i] = w[i - Len(u)] /\ i \in Int
    BY <1>3, <1>4
  <2>1. i \in Int /\ i - Len(u) \in 1 .. Len(w) /\ Len(u) + (i - Len(u)) = i
    BY <1>3, <1>4
  <2> QED
    BY <1>3, <1>4, <2>1
<1>6. /\ \A i \in DOMAIN u : i \in DOMAIN all /\ all[i] = u[i]
      /\ \A i \in DOMAIN w : Len(u) + i \in DOMAIN all /\ all[Len(u) + i] = w[i]
  BY <1>3, <1>4
<1>7. \A e : Within(e, all) <=> Within(e, u) \/ Within(e, w)
  BY <1>5, <1>6 DEF Within
<1>8. Distinct(all)
  <2> SUFFICES ASSUME NEW i \in DOMAIN all, NEW j \in DOMAIN all, all[i] = all[j]
               PROVE  i = j
    BY DEF Distinct
  <2>1. all[i] \in Edits
    BY <1>3
  <2>2. ~(Within(all[i], u) /\ Within(all[i], w))
    BY <1>2, <2>1
  <2>3. CASE i \in DOMAIN u /\ all[i] = u[i] /\ j \in DOMAIN u /\ all[j] = u[j]
    BY <1>1, <2>3 DEF Distinct
  <2>4. CASE /\ i - Len(u) \in DOMAIN w /\ all[i] = w[i - Len(u)] /\ i \in Int
             /\ j - Len(u) \in DOMAIN w /\ all[j] = w[j - Len(u)] /\ j \in Int
    <3>1. i - Len(u) = j - Len(u)
      BY <1>1, <2>4 DEF Distinct
    <3> QED
      BY <1>4, <2>4, <3>1
  <2> QED
    BY <1>5, <2>2, <2>3, <2>4 DEF Within
<1>9. \A e \in Edits : Within(e, all) => sent[e] = 0 /\ fate[e] \in {"room", "open"}
  BY <1>2, <1>7
<1> QED
  BY <1>3, <1>7, <1>8, <1>9 DEF all, u, w

\* A client that has a role holds back no edit whose role is open.
LEMMA NothingSpeculated ==
    ASSUME ReplicaInv, SentInv, Role(peer) # "none"
    PROVE  /\ peer.speculated = <<>> /\ peer.unsent \o peer.speculated = peer.unsent
           /\ Fated("open") = {} /\ ~peer.speculating
<1>1. Fated("open") = {} /\ ~peer.speculating
  BY DEF ReplicaInv
<1>2. \A e \in Edits : ~Within(e, peer.speculated)
  BY <1>1 DEF SentInv, Fated
<1>3. peer.speculated \in Seq(Edits) /\ peer.unsent \in Seq(Edits)
  BY DEF SentInv
<1>4. peer.speculated = <<>>
  <2>1. \A i \in DOMAIN peer.speculated : peer.speculated[i] \in Edits
    BY <1>3
  <2>2. DOMAIN peer.speculated = {}
    BY <1>2, <2>1 DEF Within
  <2>3. Len(peer.speculated) \in Nat \ {0} => 1 \in DOMAIN peer.speculated
    BY <1>3
  <2> QED
    BY <1>3, <2>2, <2>3, EmptySeq
<1> QED
  BY <1>1, <1>3, <1>4, ConcatEmptySeq

----------------------------------------------------------------------------
(* One step of each action.                                                 *)

\* The step formulas of ObligationsAreKept and of HostAwayIsEarned.
Obliged ==
    /\ Requests(peer'.out) => Due(peer.handshaken)
    /\ \/ Requests(peer'.out)
       \/ /\ peer.resync => peer'.resync
          /\ \A k \in peer.pending : IsWriterKey(peer', k) => k \in peer'.pending
          /\ peer.readiness /\ IsWriter(peer') => peer'.readiness
Earned == peer'.ending = "hostAway" /\ peer.ending # "hostAway" => gone >= Expire

\* Nothing left, and nothing owed was settled.
LEMMA ObligedSilently ==
    ASSUME ~Requests(peer'.out), peer'.resync = peer.resync, peer.pending \subseteq peer'.pending,
           peer'.readiness = peer.readiness
    PROVE  Obliged
  BY DEF Obliged

LEMMA OlderFacts ==
    ASSUME NEW w \in Nat, NEW age \in Never .. w
    PROVE  /\ Older(age, w) \in Never .. w /\ (Older(age, w) = Never <=> age = Never)
           /\ Older(age, w) <= age + 1
           /\ \A more \in Never .. w : age <= more => Older(age, w) <= Older(more, w)
  BY DEF Older, Never

LEMMA RefuseStep == ASSUME SessionInv, RefuseContent PROVE SessionInv' /\ Obliged /\ Earned
<1>1. /\ SameBut(peer, peer', {"out", "resync"}) /\ peer'.out = <<>> /\ peer'.resync = TRUE
  BY DEF SessionInv, SeatInv, IsSession, SameBut, Fields, RefuseContent
<1>2. /\ sinceTick' = sinceTick /\ fate' = fate /\ sent' = sent /\ gone' = gone
      /\ received' = received /\ faults' = faults /\ spoke' = spoke
  BY DEF RefuseContent, history
<1>3. /\ IsSession(peer') /\ peer'.state = peer.state /\ peer'.roster = peer.roster
      /\ peer'.departed = peer.departed /\ peer'.held = peer.held
      /\ peer'.hostAway = peer.hostAway /\ peer'.holds = peer.holds
      /\ peer'.leases = peer.leases /\ peer'.doc = peer.doc
      /\ peer'.baseline = peer.baseline /\ peer'.speculating = peer.speculating
      /\ peer'.unsent = peer.unsent /\ peer'.speculated = peer.speculated
      /\ peer'.ending = peer.ending /\ peer'.pending = peer.pending
      /\ peer'.readiness = peer.readiness
  BY <1>1 DEF SameBut, Fields
<1>4. sinceTick \in 0 .. Renew /\ peer.pending \subseteq Peers /\ sent \in [Edits -> Nat] /\ faults \in Nat
  BY DEF SessionInv, SeatInv, SentInv, OnceInv
<1>5. SeatInv' /\ AwayInv' /\ LeaseInv'
  BY <1>2, <1>3, <1>4, SeatKept, AwayKept, LeaseKept DEF SessionInv
<1>6. ReplicaInv' /\ SentInv' /\ OnceInv'
  BY <1>1, <1>2, <1>3, <1>4, NothingLeft, ReplicaKept, SentKept, OnceKept DEF SessionInv
<1>7. Obliged /\ Earned
  BY <1>1, <1>3, NothingLeft DEF Obliged, Earned
<1> QED
  BY <1>5, <1>6, <1>7 DEF SessionInv

LEMMA HearClosingStep == ASSUME SessionInv, HearClosing PROVE SessionInv' /\ Obliged /\ Earned
<1>1. SameBut(peer, peer', {"out", "ending"}) /\ peer'.out = <<>> /\ peer'.ending = "closing"
  BY DEF SessionInv, SeatInv, IsSession, SameBut, Fields, HearClosing
<1>2. /\ sinceTick' = sinceTick /\ fate' = fate /\ sent' = sent /\ gone' = gone
      /\ received' = received /\ faults' = faults /\ spoke' = spoke
  BY DEF HearClosing, history
<1>3. /\ IsSession(peer') /\ peer'.state = peer.state /\ peer'.roster = peer.roster
      /\ peer'.departed = peer.departed /\ peer'.held = peer.held
      /\ peer'.hostAway = peer.hostAway /\ peer'.holds = peer.holds
      /\ peer'.leases = peer.leases /\ peer'.doc = peer.doc
      /\ peer'.baseline = peer.baseline /\ peer'.speculating = peer.speculating
      /\ peer'.unsent = peer.unsent /\ peer'.speculated = peer.speculated
      /\ peer'.pending = peer.pending /\ peer'.resync = peer.resync
      /\ peer'.readiness = peer.readiness
  BY <1>1 DEF SameBut, Fields
<1>4. sinceTick \in 0 .. Renew /\ peer.pending \subseteq Peers /\ sent \in [Edits -> Nat] /\ faults \in Nat
  BY DEF SessionInv, SeatInv, SentInv, OnceInv
<1>5. SeatInv' /\ AwayInv' /\ LeaseInv'
  BY <1>2, <1>3, <1>4, SeatKept, AwayKept, LeaseKept DEF SessionInv
<1>6. ReplicaInv' /\ SentInv' /\ OnceInv'
  BY <1>1, <1>2, <1>3, <1>4, NothingLeft, ReplicaKept, SentKept, OnceKept DEF SessionInv
<1>7. Obliged /\ Earned
  BY <1>1, <1>3, NothingLeft DEF Obliged, Earned
<1> QED
  BY <1>5, <1>6, <1>7 DEF SessionInv

LEMMA HearHoldsStep ==
    ASSUME SessionInv, NEW k \in Peers, HearHolds(k) PROVE SessionInv' /\ Obliged /\ Earned
<1>1. /\ SameBut(peer, peer', {"out", "holds", "leases"}) /\ peer'.out = <<>>
      /\ peer'.holds = peer.holds \cup {k} /\ peer'.leases = [peer.leases EXCEPT ![k] = 0]
  BY DEF SessionInv, SeatInv, IsSession, SameBut, Fields, HearHolds
<1>2. /\ sinceTick' = sinceTick /\ fate' = fate /\ sent' = sent /\ gone' = gone
      /\ received' = received /\ faults' = faults /\ spoke' = spoke \cup {k}
  BY DEF HearHolds, history
<1>3. /\ IsSession(peer') /\ peer'.state = peer.state /\ peer'.roster = peer.roster
      /\ peer'.departed = peer.departed /\ peer'.held = peer.held
      /\ peer'.hostAway = peer.hostAway /\ peer'.doc = peer.doc
      /\ peer'.baseline = peer.baseline /\ peer'.speculating = peer.speculating
      /\ peer'.unsent = peer.unsent /\ peer'.speculated = peer.speculated
      /\ peer'.ending = peer.ending /\ peer'.pending = peer.pending
      /\ peer'.resync = peer.resync /\ peer'.readiness = peer.readiness
  BY <1>1 DEF SameBut, Fields
<1>4. sinceTick \in 0 .. Renew /\ peer.pending \subseteq Peers /\ sent \in [Edits -> Nat] /\ faults \in Nat
  BY DEF SessionInv, SeatInv, SentInv, OnceInv
<1>5. SeatInv' /\ AwayInv'
  BY <1>2, <1>3, <1>4, SeatKept, AwayKept DEF SessionInv
<1>6. LeaseInv'
  <2>2. /\ peer.leases \in [Peers -> Never .. Expire + Renew] /\ peer.holds \subseteq Peers
        /\ \A j \in Peers : peer.leases[j] # Never <=> j \in peer.holds
        /\ \A j \in peer.holds :
             peer.leases[j] <= Expire - 1 + sinceTick
             /\ (Departed(peer, j) => j \in spoke)
    BY DEF SessionInv, LeaseInv
  <2>3. 0 \in Never .. Expire + Renew /\ 0 # Never /\ 0 <= Expire - 1 + sinceTick
    BY <1>4, PeerConstants DEF Never
  <2>4. peer'.leases[k] = 0 /\ \A j \in Peers \ {k} : peer'.leases[j] = peer.leases[j]
    BY <1>1, <2>2
  <2>5. peer'.leases \in [Peers -> Never .. Expire + Renew]
    BY <1>1, <2>2, <2>3
  <2> QED
    BY <1>1, <1>2, <1>3, <2>2, <2>3, <2>4, <2>5 DEF LeaseInv, Departed
<1>7. ReplicaInv' /\ SentInv' /\ OnceInv'
  BY <1>1, <1>2, <1>3, <1>4, NothingLeft, ReplicaKept, SentKept, OnceKept DEF SessionInv
<1>8. Obliged /\ Earned
  BY <1>1, <1>3, NothingLeft DEF Obliged, Earned
<1> QED
  BY <1>5, <1>6, <1>7, <1>8 DEF SessionInv

LEMMA PastTheEndStep == ASSUME SessionInv, InsertPastTheEnd PROVE SessionInv' /\ Obliged /\ Earned
<1> DEFINE s == [peer EXCEPT !.out = <<>>]
<1>1. SameBut(peer, s, {"out"}) /\ s.out = <<>> /\ IsSession(s)
  BY DEF SessionInv, SeatInv, IsSession, SameBut, Fields
<1>2. peer' = BeginSpeculation(s)
  BY DEF InsertPastTheEnd
<1> HIDE DEF s
<1>3. /\ SameBut(s, peer', {"speculating", "baseline"})
      /\ s.speculating => peer' = s
      /\ ~s.speculating => peer'.speculating = TRUE /\ peer'.baseline = s.doc
  BY <1>1, <1>2, BeginFields
<1>4. /\ sinceTick' = sinceTick /\ fate' = fate /\ sent' = sent /\ gone' = gone
      /\ received' = received /\ faults' = faults /\ spoke' = spoke
      /\ ~IsWriter(peer) /\ Role(peer) # "viewer"
  BY DEF InsertPastTheEnd, history
<1>5. /\ IsSession(peer') /\ peer'.state = peer.state /\ peer'.roster = peer.roster
      /\ peer'.departed = peer.departed /\ peer'.held = peer.held
      /\ peer'.hostAway = peer.hostAway /\ peer'.doc = peer.doc
      /\ peer'.holds = peer.holds /\ peer'.leases = peer.leases
      /\ peer'.unsent = peer.unsent /\ peer'.speculated = peer.speculated
      /\ peer'.ending = peer.ending /\ peer'.pending = peer.pending
      /\ peer'.resync = peer.resync /\ peer'.readiness = peer.readiness
      /\ s.doc = peer.doc /\ s.speculating = peer.speculating /\ s.baseline = peer.baseline
      /\ peer'.out = <<>>
  BY <1>1, <1>3 DEF SameBut, Fields
<1>6. sinceTick \in 0 .. Renew /\ peer.pending \subseteq Peers /\ sent \in [Edits -> Nat] /\ faults \in Nat
  BY DEF SessionInv, SeatInv, SentInv, OnceInv
<1>7. SeatInv' /\ AwayInv' /\ LeaseInv'
  BY <1>4, <1>5, <1>6, SeatKept, AwayKept, LeaseKept DEF SessionInv
<1>8. ReplicaInv'
  <2>1. CASE peer.speculating
    BY <1>3, <1>4, <1>5, <2>1, ReplicaKept DEF SessionInv
  <2>2. CASE ~peer.speculating
    <3>1. peer'.speculating /\ peer'.baseline = peer.doc
      BY <1>3, <1>5, <2>2
    <3>2. Role(peer) = "none"
      <4>1. Role(peer) \in Roles
        BY PeerConstants DEF SessionInv, SeatInv, Role, Keys
      <4> QED
        BY <1>4, <4>1 DEF Roles, IsWriter, IsWriterKey, Role
    <3> QED
      BY <1>4, <1>5, <2>2, <3>1, <3>2 DEF SessionInv, ReplicaInv, RolledBack, Fated, Role
  <2> QED
    BY <2>1, <2>2
<1>9. SentInv' /\ OnceInv'
  BY <1>4, <1>5, <1>6, NothingLeft, SentKept, OnceKept DEF SessionInv
<1>10. Obliged /\ Earned
  BY <1>5, NothingLeft DEF Obliged, Earned
<1> QED
  BY <1>7, <1>8, <1>9, <1>10 DEF SessionInv

LEMMA PassStep == ASSUME SessionInv, Pass PROVE SessionInv' /\ Obliged /\ Earned
<1>1. /\ SameBut(peer, peer', {"out", "handshaken", "announced", "holdsAnnounced", "hostAway",
                               "clock", "leases"})
      /\ peer'.out = <<>> /\ peer'.hostAway = Older(peer.hostAway, Expire)
      /\ peer'.leases = [k \in Peers |-> Older(peer.leases[k], Expire + Renew)]
  BY DEF SessionInv, SeatInv, IsSession, SameBut, Fields, Pass
<1>2. /\ sinceTick < Renew /\ sinceTick' = sinceTick + 1 /\ fate' = fate /\ sent' = sent
      /\ received' = received /\ faults' = faults /\ gone' = Older(gone, Expire)
      /\ spoke' = spoke
  BY DEF Pass
<1>3. /\ IsSession(peer') /\ peer'.state = peer.state /\ peer'.roster = peer.roster
      /\ peer'.departed = peer.departed /\ peer'.held = peer.held
      /\ peer'.holds = peer.holds /\ peer'.doc = peer.doc
      /\ peer'.baseline = peer.baseline /\ peer'.speculating = peer.speculating
      /\ peer'.unsent = peer.unsent /\ peer'.speculated = peer.speculated
      /\ peer'.ending = peer.ending /\ peer'.pending = peer.pending
      /\ peer'.resync = peer.resync /\ peer'.readiness = peer.readiness
  BY <1>1 DEF SameBut, Fields
<1>4. sinceTick \in 0 .. Renew /\ peer.pending \subseteq Peers /\ sent \in [Edits -> Nat] /\ faults \in Nat
  BY DEF SessionInv, SeatInv, SentInv, OnceInv
<1>5. sinceTick' \in 0 .. Renew
  BY <1>2, <1>4, PeerConstants
<1>6. SeatInv'
  BY <1>3, <1>4, <1>5, SeatKept DEF SessionInv
<1>7. AwayInv'
  <2>1. /\ peer.hostAway \in Never .. Expire /\ gone \in Never .. Expire
        /\ peer.hostAway <= gone /\ (HostAbsent(peer) <=> peer.hostAway # Never)
    BY DEF SessionInv, AwayInv
  <2>2. Expire \in Nat
    BY PeerConstants
  <2>3. /\ peer'.hostAway \in Never .. Expire /\ (peer'.hostAway = Never <=> peer.hostAway = Never)
        /\ peer'.hostAway <= gone'
    <3>1. \A more \in Never .. Expire :
            peer.hostAway <= more => Older(peer.hostAway, Expire) <= Older(more, Expire)
      BY ONLY <2>1, <2>2, OlderFacts
    <3>2. /\ Older(peer.hostAway, Expire) \in Never .. Expire
          /\ Older(peer.hostAway, Expire) = Never <=> peer.hostAway = Never
      BY ONLY <2>1, <2>2, OlderFacts
    <3> QED
      BY ONLY <1>1, <1>2, <2>1, <3>1, <3>2
  <2>4. gone' \in Never .. Expire
    BY ONLY <1>2, <2>1, <2>2, OlderFacts
  <2>5. HostAbsent(peer)' <=> HostAbsent(peer)
    BY <1>3 DEF HostAbsent, HostSeats
  <2> QED
    BY <2>1, <2>3, <2>4, <2>5 DEF AwayInv
<1>8. LeaseInv'
  <2>1. /\ peer.leases \in [Peers -> Never .. Expire + Renew] /\ peer.holds \subseteq Peers
        /\ \A j \in Peers : peer.leases[j] # Never <=> j \in peer.holds
        /\ \A j \in peer.holds :
             peer.leases[j] <= Expire - 1 + sinceTick
             /\ (Departed(peer, j) => j \in spoke)
    BY DEF SessionInv, LeaseInv
  <2>2. Expire + Renew \in Nat /\ Expire \in Nat
    BY PeerConstants
  <2>3. ASSUME NEW k \in Peers
        PROVE  /\ peer'.leases[k] \in Never .. Expire + Renew
               /\ peer'.leases[k] = Never <=> peer.leases[k] = Never
               /\ peer'.leases[k] <= peer.leases[k] + 1
    <3>1. peer.leases[k] \in Never .. Expire + Renew
      BY <2>1
    <3>2. peer'.leases[k] = Older(peer.leases[k], Expire + Renew)
      BY <1>1
    <3> QED
      BY ONLY <2>2, <3>1, <3>2, OlderFacts
  <2>4. ASSUME NEW k \in peer.holds PROVE peer'.leases[k] <= Expire - 1 + sinceTick'
    <3>1. /\ peer.leases[k] \in Int /\ peer'.leases[k] \in Int
          /\ peer.leases[k] <= Expire - 1 + sinceTick /\ peer'.leases[k] <= peer.leases[k] + 1
      BY <2>1, <2>2, <2>3 DEF Never
    <3>2. \A a, b \in Int : a <= Expire - 1 + sinceTick /\ b <= a + 1
                              => b <= Expire - 1 + (sinceTick + 1)
      BY <1>4, <2>2
    <3> QED
      BY <1>2, <3>1, <3>2
  <2>5. peer'.leases \in [Peers -> Never .. Expire + Renew]
    BY <1>1, <2>3
  <2> QED
    BY <1>2, <1>3, <2>1, <2>3, <2>4, <2>5 DEF LeaseInv, Departed
<1>9. ReplicaInv' /\ SentInv' /\ OnceInv'
  BY <1>1, <1>2, <1>3, <1>4, NothingLeft, ReplicaKept, SentKept, OnceKept DEF SessionInv
<1>10. Obliged /\ Earned
  BY <1>1, <1>3, NothingLeft DEF Obliged, Earned
<1> QED
  BY <1>6, <1>7, <1>8, <1>9, <1>10 DEF SessionInv

\* A host's seat that leaves was in the roster, so its clock did not run.
LEMMA SeatLeftStep ==
    ASSUME SessionInv, NEW seat \in Connections, SeatLeft(seat) PROVE SessionInv' /\ Obliged /\ Earned
<1> DEFINE s == [peer EXCEPT !.out = <<>>]
           left == {j \in Peers : /\ peer.state[j].role # "none"
                                  /\ peer.state[j].seat \in peer.departed \cup {seat}}
<1>1. SameBut(peer, s, {"out"}) /\ s.out = <<>> /\ IsSession(s)
  BY DEF SessionInv, SeatInv, IsSession, SameBut, Fields
<1>2. /\ peer' = SeatLeftAt(s, seat) /\ seat \in peer.roster
      /\ gone' = IF seat \in HostSeats(peer) THEN 0 ELSE gone
      /\ sinceTick' = sinceTick /\ fate' = fate /\ sent' = sent
      /\ received' = received /\ faults' = faults
  BY DEF SeatLeft
<1> HIDE DEF s
<1>3. /\ s.departed = peer.departed /\ s.state = peer.state /\ s.roster = peer.roster
      /\ s.holds = peer.holds /\ s.leases = peer.leases /\ s.hostAway = peer.hostAway
  BY <1>1 DEF SameBut, Fields
<1>4. /\ SameBut(s, peer', {"roster", "departed", "holds", "leases", "hostAway"})
      /\ peer'.roster = peer.roster \ {seat} /\ peer'.departed = peer.departed \cup {seat}
      /\ peer'.holds = peer.holds \ left
      /\ peer'.leases = [j \in Peers |-> IF j \in left THEN Never ELSE peer.leases[j]]
      /\ peer'.hostAway = IF ~HostAbsent(peer') THEN Never
                          ELSE IF peer.hostAway = Never THEN 0 ELSE peer.hostAway
  BY <1>1, <1>2, <1>3, LeftFields
<1> HIDE DEF left
<1>5. /\ IsSession(peer') /\ peer'.state = peer.state /\ peer'.held = peer.held
      /\ peer'.doc = peer.doc /\ peer'.out = <<>>
      /\ peer'.baseline = peer.baseline /\ peer'.speculating = peer.speculating
      /\ peer'.unsent = peer.unsent /\ peer'.speculated = peer.speculated
      /\ peer'.ending = peer.ending /\ peer'.pending = peer.pending
      /\ peer'.resync = peer.resync /\ peer'.readiness = peer.readiness
  BY <1>1, <1>4 DEF SameBut, Fields
<1>6. sinceTick \in 0 .. Renew /\ sent \in [Edits -> Nat] /\ faults \in Nat
  BY DEF SessionInv, SeatInv, SentInv, OnceInv
<1>7. SeatInv'
  BY <1>2, <1>4, <1>5 DEF SessionInv, SeatInv, HostSeats
<1>8. AwayInv'
  <2>1. /\ peer.hostAway \in Never .. Expire /\ gone \in Never .. Expire
        /\ peer.hostAway <= gone /\ (HostAbsent(peer) <=> peer.hostAway # Never)
    BY DEF SessionInv, AwayInv
  <2>2. Expire \in Nat /\ Never = -1
    BY PeerConstants DEF Never
  <2>3. seat \in HostSeats(peer) => peer.hostAway = Never
    BY <1>2, <2>1 DEF HostAbsent, HostSeats
  <2>4. seat \notin HostSeats(peer) /\ HostAbsent(peer') => HostAbsent(peer)
    <3>1. HostSeats(peer') = HostSeats(peer)
      BY <1>5 DEF HostSeats
    <3> QED
      BY <1>4, <3>1 DEF HostAbsent
  <2>5. HostAbsent(peer)' <=> HostAbsent(peer')
    BY DEF HostAbsent, HostSeats
  <2>6. CASE ~HostAbsent(peer')
    <3>1. peer'.hostAway = Never /\ gone' \in Never .. Expire
      BY <1>2, <1>4, <2>1, <2>2, <2>6
    <3>2. Never <= gone' /\ Never \in Never .. Expire
      BY <2>2, <3>1
    <3> QED
      BY <2>5, <2>6, <3>1, <3>2 DEF AwayInv
  <2>7. CASE HostAbsent(peer') /\ seat \in HostSeats(peer)
    <3>1. peer'.hostAway = 0 /\ gone' = 0
      BY <1>2, <1>4, <2>3, <2>7
    <3>2. 0 \in Never .. Expire /\ 0 # Never /\ 0 <= 0
      BY <2>2
    <3> QED
      BY <2>5, <2>7, <3>1, <3>2 DEF AwayInv
  <2>8. CASE HostAbsent(peer') /\ seat \notin HostSeats(peer)
    <3>1. peer'.hostAway = peer.hostAway /\ gone' = gone /\ peer.hostAway # Never
      BY <1>2, <1>4, <2>1, <2>4, <2>8
    <3> QED
      BY <2>1, <2>5, <2>8, <3>1 DEF AwayInv
  <2> QED
    BY <2>6, <2>7, <2>8
<1>9. LeaseInv'
  <2>1. /\ peer.leases \in [Peers -> Never .. Expire + Renew] /\ peer.holds \subseteq Peers
        /\ \A j \in Peers : peer.leases[j] # Never <=> j \in peer.holds
        /\ \A j \in peer.holds :
             peer.leases[j] <= Expire - 1 + sinceTick
             /\ (Departed(peer, j) => j \in spoke)
    BY DEF SessionInv, LeaseInv
  <2>2. Never \in Never .. Expire + Renew
    BY PeerConstants DEF Never
  <2>3. \A j \in Peers : peer'.leases[j] = IF j \in left THEN Never ELSE peer.leases[j]
    BY <1>4
  <2>4. peer'.leases \in [Peers -> Never .. Expire + Renew]
    BY <1>4, <2>1, <2>2
  <2>5. \A j \in peer'.holds : ~Departed(peer', j)
    BY <1>4, <1>5, <2>1 DEF left, Departed
  <2>6. peer'.holds \subseteq Peers
    BY <1>4, <2>1
  <2>7. \A j \in Peers : peer'.leases[j] # Never <=> j \in peer'.holds
    BY <1>4, <2>1, <2>3
  <2>8. \A j \in peer'.holds : peer'.leases[j] <= Expire - 1 + sinceTick'
    BY <1>2, <1>4, <2>1, <2>3
  <2> QED
    BY <2>4, <2>5, <2>6, <2>7, <2>8 DEF LeaseInv, Departed
<1>10. ReplicaInv' /\ SentInv' /\ OnceInv'
  BY <1>2, <1>5, <1>6, NothingLeft, ReplicaKept, SentKept, OnceKept DEF SessionInv
<1>11. Obliged /\ Earned
  BY <1>5, NothingLeft DEF Obliged, Earned
<1> QED
  BY <1>7, <1>8, <1>9, <1>10, <1>11 DEF SessionInv

\* A call that sends no edit and answers nobody.
LEMMA QuietReturn ==
    ASSUME SessionInv, NEW s \in Calls, NEW after, IsSession(after), Return(s, after),
           after.out \in Seq(Frames), Unanswered(after.out), Carries(after.out, <<>>),
           fate' = fate, after.unsent = peer.unsent, after.speculated = peer.speculated,
           after.ending = "live" => peer.ending = "live"
    PROVE  SameBut(after, peer', {"fault"}) /\ SentInv' /\ OnceInv'
<1>1. sent \in [Edits -> Nat] /\ faults \in Nat
  BY DEF SessionInv, SentInv, OnceInv
<1>2. ~ \E e : Within(e, <<>>)
  BY DEF Within
<1>3. /\ SameBut(after, peer', {"fault"}) /\ sent' \in [Edits -> Nat]
      /\ \A e \in Edits : sent'[e] = IF Within(e, <<>>) THEN sent[e] + 1 ELSE sent[e]
      /\ faults' \in Nat /\ (faults' = 0 => faults = 0 /\ s.fault = NoFault)
  BY <1>1, ReturnFields
<1>4. \A e \in Edits : sent'[e] = sent[e]
  BY <1>2, <1>3
<1>5. peer'.unsent = peer.unsent /\ peer'.speculated = peer.speculated
      /\ peer'.ending = after.ending /\ peer'.out = after.out
  BY <1>3 DEF SameBut, Fields
<1> QED
  BY <1>3, <1>4, <1>5, SentKept, OnceKept DEF SessionInv

LEMMA HoldStep ==
    ASSUME SessionInv, NEW paths \in SUBSET Paths, Hold(paths)
    PROVE  SessionInv' /\ Obliged /\ Earned
<1>1. PICK s \in Calls : Return(s, AnnounceHolds([s EXCEPT !.held = paths]))
  BY DEF Hold
<1>2. SameBut(peer, s, {"out", "fault"}) /\ s.out = <<>> /\ IsSession(s)
  BY CallFields DEF SessionInv, SeatInv
<1> DEFINE a == [s EXCEPT !.held = paths]
           t == AnnounceHolds(a)
<1>3. SameBut(s, a, {"held"}) /\ a.held = paths /\ a.out = <<>> /\ IsSession(a)
  BY <1>2 DEF IsSession, SameBut, Fields
<1> HIDE DEF a
<1>4. /\ SameBut(a, t, {"out", "holdsSent", "holdsAnnounced"})
      /\ t.out \in Seq(Frames) /\ Silent(<<>>, t.out)
  BY <1>3, NothingLeft, AnnounceHoldsFields
<1>5. Return(s, t)
  BY <1>1 DEF t, a
<1> HIDE DEF t
<1>6. ~Requests(t.out) /\ Unanswered(t.out) /\ Carries(t.out, <<>>)
  BY <1>4, SilentFacts, NothingLeft
<1>7. /\ IsSession(t) /\ t.unsent = peer.unsent /\ t.speculated = peer.speculated
      /\ t.ending = peer.ending
  BY <1>2, <1>3, <1>4 DEF SameBut, Fields
<1>8. /\ sinceTick' = sinceTick /\ fate' = fate /\ gone' = gone /\ spoke' = spoke /\ received' = received
      /\ sinceTick \in 0 .. Renew
  BY DEF Hold, SessionInv, SeatInv
<1>9. SameBut(t, peer', {"fault"}) /\ SentInv' /\ OnceInv'
  BY <1>4, <1>5, <1>6, <1>7, <1>8, QuietReturn
<1>10. /\ IsSession(peer') /\ peer'.state = peer.state /\ peer'.roster = peer.roster
       /\ peer'.departed = peer.departed /\ peer'.held = paths
       /\ peer'.hostAway = peer.hostAway /\ peer'.holds = peer.holds
       /\ peer'.leases = peer.leases /\ peer'.doc = peer.doc
       /\ peer'.baseline = peer.baseline /\ peer'.speculating = peer.speculating
       /\ peer'.ending = peer.ending /\ peer'.pending = peer.pending
       /\ peer'.resync = peer.resync /\ peer'.readiness = peer.readiness
       /\ peer'.out = t.out
  BY <1>2, <1>3, <1>4, <1>9 DEF SameBut, Fields
<1>11. SeatInv'
  BY <1>8, <1>10 DEF SessionInv, SeatInv, HostSeats, IsSession
<1>12. AwayInv' /\ LeaseInv' /\ ReplicaInv'
  BY <1>8, <1>10, AwayKept, LeaseKept, ReplicaKept DEF SessionInv
<1>13. Obliged /\ Earned
  BY <1>6, <1>10, ObligedSilently DEF Earned
<1> QED
  BY <1>9, <1>11, <1>12, <1>13 DEF SessionInv

\* A seat that joins is not the host's of the state that is held: that one was
\* shown before the state was heard, or never will be.
LEMMA SeatJoinedStep ==
    ASSUME SessionInv, NEW seat \in Connections, SeatJoined(seat) PROVE SessionInv' /\ Obliged /\ Earned
<1>1. PICK s \in Calls : Return(s, SeatJoinedAt(s, seat))
  BY DEF SeatJoined
<1>2. SameBut(peer, s, {"out", "fault"}) /\ s.out = <<>> /\ IsSession(s)
  BY CallFields DEF SessionInv, SeatInv
<1> DEFINE t == SeatJoinedAt(s, seat)
<1>3. /\ s.held \subseteq Paths /\ s.roster = peer.roster /\ s.departed = peer.departed
  BY <1>2 DEF SessionInv, SeatInv, SameBut, Fields
<1>4. /\ SameBut(s, t, {"departed", "roster", "holdsSent", "holdsAnnounced", "out"})
      /\ t.departed = peer.departed \ {seat} /\ t.roster = peer.roster \cup {seat}
      /\ t.out \in Seq(Frames) /\ Silent(<<>>, t.out)
  BY <1>2, <1>3, JoinedFields
<1>5. Return(s, t)
  BY <1>1
<1> HIDE DEF t
<1>6. ~Requests(t.out) /\ Unanswered(t.out) /\ Carries(t.out, <<>>)
  BY <1>4, SilentFacts, NothingLeft
<1>7. /\ IsSession(t) /\ t.unsent = peer.unsent /\ t.speculated = peer.speculated
      /\ t.ending = peer.ending
  BY <1>2, <1>4 DEF SameBut, Fields
<1>8. seat \notin HostSeats(peer) /\ seat \notin peer.roster /\ seat \notin peer.departed
  BY DEF SeatJoined, SessionInv, SeatInv
<1>9. /\ sinceTick' = sinceTick /\ fate' = fate /\ gone' = gone /\ spoke' = spoke /\ received' = received
      /\ sinceTick \in 0 .. Renew
  BY <1>8 DEF SeatJoined, SessionInv, SeatInv, HostSeats
<1>10. SameBut(t, peer', {"fault"}) /\ SentInv' /\ OnceInv'
  BY <1>4, <1>5, <1>6, <1>7, <1>9, QuietReturn
<1>11. /\ IsSession(peer') /\ peer'.state = peer.state /\ peer'.held = peer.held
       /\ peer'.roster = peer.roster \cup {seat} /\ peer'.departed = peer.departed
       /\ peer'.hostAway = peer.hostAway /\ peer'.holds = peer.holds
       /\ peer'.leases = peer.leases /\ peer'.doc = peer.doc
       /\ peer'.baseline = peer.baseline /\ peer'.speculating = peer.speculating
       /\ peer'.ending = peer.ending /\ peer'.pending = peer.pending
       /\ peer'.resync = peer.resync /\ peer'.readiness = peer.readiness
       /\ peer'.out = t.out
  <2>1. peer.departed \ {seat} = peer.departed
    BY <1>8
  <2> QED
    BY <1>2, <1>4, <1>10, <2>1 DEF SameBut, Fields
<1>12. SeatInv'
  BY <1>8, <1>9, <1>11 DEF SessionInv, SeatInv, HostSeats, IsSession
<1>13. AwayInv'
  <2>1. HostSeats(peer)' = HostSeats(peer)
    BY <1>11 DEF HostSeats
  <2>2. HostAbsent(peer)' <=> HostAbsent(peer)
    BY <1>8, <1>11, <2>1 DEF HostAbsent
  <2> QED
    BY <1>9, <1>11, <2>2 DEF SessionInv, AwayInv
<1>14. LeaseInv' /\ ReplicaInv'
  BY <1>9, <1>11, LeaseKept, ReplicaKept DEF SessionInv
<1>15. Obliged /\ Earned
  BY <1>6, <1>11, ObligedSilently DEF Earned
<1> QED
  BY <1>10, <1>12, <1>13, <1>14, <1>15 DEF SessionInv

LEMMA TickStep == ASSUME SessionInv, Tick PROVE SessionInv' /\ Obliged /\ Earned
<1>1. PICK s \in Calls : Return(s, Ticked(s))
  BY DEF Tick
<1>2. SameBut(peer, s, {"out", "fault"}) /\ s.out = <<>> /\ IsSession(s)
  BY CallFields DEF SessionInv, SeatInv
<1> DEFINE t == Ticked(s)
           lapsed == {k \in Peers : peer.leases[k] >= Expire}
<1>3. /\ s.held \subseteq Paths /\ s.leases = peer.leases /\ s.holds = peer.holds
      /\ s.hostAway = peer.hostAway /\ s.ending = peer.ending
      /\ s.handshaken = peer.handshaken /\ s.resync = peer.resync
      /\ s.pending = peer.pending /\ s.readiness = peer.readiness
  BY <1>2 DEF SessionInv, SeatInv, SameBut, Fields
<1>4. /\ SameBut(s, t, {"holds", "leases", "hostAway", "ending", "out", "announced",
                        "handshaken", "resync", "pending", "readiness",
                        "holdsSent", "holdsAnnounced"})
      /\ t.holds = peer.holds \ lapsed
      /\ t.leases = [k \in Peers |-> IF k \in lapsed THEN Never ELSE peer.leases[k]]
      /\ t.hostAway = IF ~HostAbsent(t) THEN Never
                      ELSE IF peer.hostAway = Never THEN 0 ELSE peer.hostAway
      /\ t.ending = "hostAway" /\ peer.ending # "hostAway" => t.hostAway >= Expire
      /\ t.ending = "live" => peer.ending = "live"
      /\ t.out \in Seq(Frames) /\ Unanswered(t.out) /\ Carries(t.out, <<>>)
      /\ t.pending \subseteq peer.pending
      /\ Requests(t.out) => Due(peer.handshaken)
      /\ ~Requests(t.out) =>
           t.resync = peer.resync /\ t.pending = peer.pending /\ t.readiness = peer.readiness
  BY <1>2, <1>3, TickFields
<1>5. Return(s, t)
  BY <1>1
<1> HIDE DEF t, lapsed
<1>6. /\ IsSession(t) /\ t.unsent = peer.unsent /\ t.speculated = peer.speculated
      /\ t.state = peer.state /\ t.roster = peer.roster
  BY <1>2, <1>4 DEF SameBut, Fields
<1>7. /\ sinceTick' = 0 /\ fate' = fate /\ gone' = gone /\ spoke' = spoke /\ received' = received
      /\ sinceTick' \in 0 .. Renew /\ sinceTick \in 0 .. Renew /\ peer.pending \subseteq Peers
  BY PeerConstants DEF Tick, SessionInv, SeatInv
<1>8. SameBut(t, peer', {"fault"}) /\ SentInv' /\ OnceInv'
  BY <1>4, <1>5, <1>6, <1>7, QuietReturn
<1>9. /\ IsSession(peer') /\ peer'.state = peer.state /\ peer'.held = peer.held
      /\ peer'.roster = peer.roster /\ peer'.departed = peer.departed
      /\ peer'.hostAway = t.hostAway /\ peer'.holds = t.holds
      /\ peer'.leases = t.leases /\ peer'.doc = peer.doc
      /\ peer'.baseline = peer.baseline /\ peer'.speculating = peer.speculating
      /\ peer'.ending = t.ending /\ peer'.pending = t.pending
      /\ peer'.resync = t.resync /\ peer'.readiness = t.readiness /\ peer'.out = t.out
  BY <1>2, <1>4, <1>8 DEF SameBut, Fields
<1>10. SeatInv'
  BY <1>4, <1>7, <1>9, SeatKept DEF SessionInv
<1>11. t.hostAway = peer.hostAway
  <2>1. HostAbsent(t) <=> HostAbsent(peer)
    BY <1>6 DEF HostAbsent, HostSeats
  <2>2. HostAbsent(peer) <=> peer.hostAway # Never
    BY DEF SessionInv, AwayInv
  <2> QED
    BY <1>4, <2>1, <2>2
<1>12. AwayInv'
  BY <1>7, <1>9, <1>11, AwayKept DEF SessionInv
<1>13. LeaseInv'
  <2>1. /\ peer.leases \in [Peers -> Never .. Expire + Renew] /\ peer.holds \subseteq Peers
        /\ \A j \in Peers : peer.leases[j] # Never <=> j \in peer.holds
        /\ \A j \in peer.holds : Departed(peer, j) => j \in spoke
    BY DEF SessionInv, LeaseInv
  <2>2. Expire \in Nat /\ Renew \in Nat /\ Expire >= 1 /\ Never = -1
    BY PeerConstants DEF Never
  <2>3. \A j \in Peers : peer'.leases[j] = IF j \in lapsed THEN Never ELSE peer.leases[j]
    BY <1>4, <1>9
  <2>4. peer'.leases \in [Peers -> Never .. Expire + Renew]
    BY <1>4, <1>9, <2>1, <2>2
  <2>5. peer'.holds = peer.holds \ lapsed /\ peer'.holds \subseteq Peers
    BY <1>4, <1>9, <2>1
  <2>6. \A j \in Peers : peer'.leases[j] # Never <=> j \in peer'.holds
    BY <2>1, <2>3, <2>5
  <2>7. ASSUME NEW j \in peer'.holds PROVE peer'.leases[j] <= Expire - 1 + sinceTick'
    <3>1. peer'.leases[j] = peer.leases[j] /\ ~(peer.leases[j] >= Expire)
      BY <2>1, <2>3, <2>5 DEF lapsed
    <3>2. peer.leases[j] \in Int
      BY <2>1, <2>2, <2>5
    <3> QED
      BY <1>7, <2>2, <3>1, <3>2
  <2> QED
    BY <1>7, <1>9, <2>1, <2>4, <2>5, <2>6, <2>7 DEF LeaseInv, Departed
<1>14. ReplicaInv'
  BY <1>7, <1>9, ReplicaKept DEF SessionInv
<1>15. Obliged
  BY <1>4, <1>9 DEF Obliged
<1>16. Earned
  <2>1. /\ peer.hostAway \in Never .. Expire /\ gone \in Never .. Expire
        /\ peer.hostAway <= gone
    BY DEF SessionInv, AwayInv
  <2>2. Expire \in Nat /\ Never = -1
    BY PeerConstants DEF Never
  <2> QED
    BY <1>4, <1>9, <1>11, <2>1, <2>2 DEF Earned
<1> QED
  BY <1>8, <1>10, <1>12, <1>13, <1>14, <1>15, <1>16 DEF SessionInv

LEMMA HearContentStep ==
    ASSUME SessionInv, NEW k \in Peers, NEW edits \in SUBSET Remote, NEW asks,
           HearContent(k, edits, asks)
    PROVE  SessionInv' /\ Obliged /\ Earned
<1>1. PICK s \in Calls : Return(s, ApplyContent(s, k, edits, asks))
  BY DEF HearContent
<1>2. SameBut(peer, s, {"out", "fault"}) /\ s.out = <<>> /\ IsSession(s)
  BY CallFields DEF SessionInv, SeatInv
<1> DEFINE t == ApplyContent(s, k, edits, asks)
           clean == IF peer.speculating THEN peer.baseline \cup edits ELSE peer.doc \cup edits
<1>3. /\ s.doc = peer.doc /\ s.baseline = peer.baseline /\ s.speculating = peer.speculating
      /\ s.pending = peer.pending
  BY <1>2 DEF SameBut, Fields
<1>4. /\ peer.doc = received \cup Fated("open") \cup Fated("room") /\ received \subseteq Remote
      /\ peer.speculating => peer.baseline = received \cup Fated("room")
      /\ ~peer.speculating => Fated("open") = {}
      /\ Fated("room") \subseteq Edits /\ Fated("open") \subseteq Edits
  BY DEF SessionInv, ReplicaInv, RolledBack, Fated
<1>5. /\ SameBut(s, t, {"doc", "baseline", "served", "pending", "out"})
      /\ t.doc = peer.doc \cup edits
      /\ peer.speculating => t.baseline = peer.baseline \cup edits
      /\ peer.pending \subseteq t.pending /\ t.pending \subseteq peer.pending \cup {k}
      /\ t.out \in Seq(Frames) /\ ~Requests(t.out) /\ Carries(t.out, <<>>)
      /\ \A i \in DOMAIN t.out : t.out[i].kind = "step2" => t.out[i].what = clean
  <2>1. IsText(With(s.doc, edits)) /\ (s.speculating => IsText(With(s.baseline, edits)))
    BY <1>3, <1>4 DEF IsText, With
  <2> HIDE DEF t, With
  <2> DEFINE u == ApplyContent(s, k, edits, asks)
             full == IF s.speculating THEN With(s.baseline, edits) ELSE With(s.doc, edits)
  <2>2. /\ SameBut(s, u, {"doc", "baseline", "served", "pending", "out"})
        /\ u.doc = With(s.doc, edits)
        /\ s.speculating => u.baseline = With(s.baseline, edits)
        /\ s.pending \subseteq u.pending /\ u.pending \subseteq s.pending \cup {k}
        /\ u.out \in Seq(Frames) /\ ~Requests(u.out) /\ Carries(u.out, <<>>)
    BY <1>2, <2>1, ContentFields
  <2>3. \A i \in DOMAIN u.out : u.out[i].kind = "step2" => u.out[i].what = full
    BY <1>2, <2>1, ContentFields
  <2> QED
    BY <1>3, <2>2, <2>3 DEF t, With
<1>6. Return(s, t)
  BY <1>1
<1> HIDE DEF t
<1>7. sent \in [Edits -> Nat] /\ faults \in Nat /\ IsSession(t) /\ ~ \E e : Within(e, <<>>)
  BY <1>5 DEF SessionInv, SentInv, OnceInv, SameBut, Within
<1>8. /\ SameBut(t, peer', {"fault"}) /\ sent' \in [Edits -> Nat]
      /\ \A e \in Edits : sent'[e] = IF Within(e, <<>>) THEN sent[e] + 1 ELSE sent[e]
      /\ faults' \in Nat /\ (faults' = 0 => faults = 0 /\ s.fault = NoFault)
  BY <1>5, <1>6, <1>7, ReturnFields
<1>9. \A e \in Edits : sent'[e] = sent[e]
  BY <1>7, <1>8
<1>10. /\ sinceTick' = sinceTick /\ fate' = fate /\ gone' = gone /\ received' = received \cup edits
       /\ spoke' = spoke
       /\ sinceTick \in 0 .. Renew /\ peer.pending \subseteq Peers
  BY DEF HearContent, SessionInv, SeatInv
<1>11. /\ IsSession(peer') /\ peer'.state = peer.state /\ peer'.held = peer.held
       /\ peer'.roster = peer.roster /\ peer'.departed = peer.departed
       /\ peer'.hostAway = peer.hostAway /\ peer'.holds = peer.holds
       /\ peer'.leases = peer.leases /\ peer'.doc = t.doc
       /\ peer'.baseline = t.baseline /\ peer'.speculating = peer.speculating
       /\ peer'.unsent = peer.unsent /\ peer'.speculated = peer.speculated
       /\ peer'.ending = peer.ending /\ peer'.pending = t.pending
       /\ peer'.resync = peer.resync /\ peer'.readiness = peer.readiness
       /\ peer'.out = t.out
  BY <1>2, <1>5, <1>8 DEF SameBut, Fields
<1>12. SeatInv' /\ AwayInv' /\ LeaseInv'
  BY <1>5, <1>10, <1>11, SeatKept, AwayKept, LeaseKept DEF SessionInv
<1>13. Fated("room")' = Fated("room") /\ Fated("open")' = Fated("open")
  BY <1>10 DEF Fated
<1>14. ReplicaInv'
  <2>1. RolledBack'
    BY <1>4, <1>5, <1>10, <1>11, <1>13 DEF RolledBack
  <2> QED
    BY <1>10, <1>11, <1>13, <2>1 DEF SessionInv, ReplicaInv, Role
<1>15. clean \cap Edits \subseteq Fated("room")
  BY <1>4, PeerConstants
<1>16. SentInv'
  <2>1. \A i \in DOMAIN peer'.out :
           peer'.out[i].kind = "step2" => peer'.out[i].what \cap Edits \subseteq Fated("room")'
    BY <1>5, <1>11, <1>13, <1>15
  <2>2. \A e \in Edits : sent'[e] > 0 => fate'[e] = "room"
    BY <1>9, <1>10 DEF SessionInv, SentInv, OnlyTheRoomsHistoryLeaves
  <2>3. OnlyTheRoomsHistoryLeaves'
    BY <2>1, <2>2 DEF OnlyTheRoomsHistoryLeaves
  <2> QED
    BY <1>5, <1>8, <1>10, <1>11, <2>3 DEF SessionInv, SentInv
<1>17. OnceInv'
  BY <1>8, <1>9, <1>10, <1>11, OnceKept DEF SessionInv
<1>18. Obliged /\ Earned
  BY <1>5, <1>11, ObligedSilently DEF Earned
<1> QED
  BY <1>12, <1>14, <1>16, <1>17, <1>18 DEF SessionInv

\* An edit that is made before is in no list and was not sent.
LEMMA UnmadeIsNowhere ==
    ASSUME SessionInv, NEW e \in Edits, fate[e] = "unmade"
    PROVE  sent[e] = 0 /\ ~Within(e, peer.unsent) /\ ~Within(e, peer.speculated)
  BY DEF SessionInv, SentInv, OnlyTheRoomsHistoryLeaves

LEMMA OneUpdate ==
    ASSUME NEW e \in Edits
    PROVE  LET o == Append(<<>>, Frame("update", {e})) IN
           /\ o \in Seq(Frames) /\ Unanswered(o) /\ ~Requests(o)
           /\ Carries(o, Append(<<>>, e)) /\ \A x : Within(x, Append(<<>>, e)) <=> x = e
<1> DEFINE f == Frame("update", {e})
           o == Append(<<>>, f)
           l == Append(<<>>, e)
<1>1. f \in Frames /\ f.kind = "update" /\ f.what = {e}
  BY DEF Frame, Frames, Kinds
<1> HIDE DEF f
<1>2. o \in Seq(Frames) /\ DOMAIN o = {1} /\ o[1] = f
  BY <1>1
<1>3. DOMAIN l = {1} /\ l[1] = e
  OBVIOUS
<1> HIDE DEF o, l
<1>4. \A x : Within(x, l) <=> x = e
  BY <1>3 DEF Within
<1>5. ASSUME NEW x \in Edits PROVE IF x = e THEN Updates(o, x) = {1} ELSE Updates(o, x) = {}
  <2>1. {e} = {x} <=> x = e
    OBVIOUS
  <2> QED
    BY <1>1, <1>2, <2>1 DEF Updates
<1>6. Carries(o, l)
  BY <1>4, <1>5 DEF Carries
<1>7. Unanswered(o) /\ ~Requests(o)
  BY <1>1, <1>2 DEF Unanswered, Requests
<1> QED
  BY <1>2, <1>4, <1>6, <1>7 DEF o, l, f

LEMMA InsertStep ==
    ASSUME SessionInv, NEW e \in Edits, Insert(e) PROVE SessionInv' /\ Obliged /\ Earned
<1>1. PICK s \in Calls : Return(s, Inserted(s, e))
  BY DEF Insert
<1>2. SameBut(peer, s, {"out", "fault"}) /\ s.out = <<>> /\ IsSession(s)
  BY CallFields DEF SessionInv, SeatInv, Calls, IsSession, Fields
<1> DEFINE t == Inserted(s, e)
           all == peer.unsent \o peer.speculated
           update == Frame("update", {e})
<1>3. /\ s.state = peer.state /\ s.ending = peer.ending /\ s.doc = peer.doc
      /\ s.baseline = peer.baseline /\ s.speculating = peer.speculating
      /\ s.unsent = peer.unsent /\ s.speculated = peer.speculated
  BY <1>2 DEF SameBut, Fields
<1>4. /\ fate[e] = "unmade" /\ Role(peer) # "viewer" /\ sinceTick' = sinceTick
      /\ fate' = [fate EXCEPT ![e] = IF IsWriter(peer) THEN "room" ELSE "open"]
      /\ gone' = gone /\ spoke' = spoke /\ received' = received
      /\ sinceTick \in 0 .. Renew /\ peer.pending \subseteq Peers
  BY DEF Insert, SessionInv, SeatInv
<1>5. (IsWriter(s) <=> IsWriter(peer)) /\ Role(s) # "viewer"
  BY <1>3, <1>4 DEF IsWriter, IsWriterKey, Role
<1>6. /\ SameBut(s, t, {"doc", "speculating", "baseline", "unsent", "speculated", "out"})
      /\ t.doc = peer.doc \cup {e}
      /\ ~IsWriter(peer) =>
           /\ t.speculating /\ t.baseline = IF peer.speculating THEN peer.baseline ELSE peer.doc
           /\ t.unsent = peer.unsent /\ t.out = <<>>
           /\ t.speculated = IF peer.ending = "live" THEN Append(peer.speculated, e)
                             ELSE peer.speculated
      /\ IsWriter(peer) /\ peer.ending # "live" => SameBut(s, t, {"doc"})
      /\ IsWriter(peer) /\ peer.ending = "live" =>
           /\ ~t.speculating /\ t.speculated = <<>>
           /\ \/ t.unsent = all /\ t.out = Append(<<>>, update)
              \/ t.unsent = Append(all, e) /\ t.out = <<>> /\ s.fault # NoFault
  <2>1. Typed(s, Inserted(s, e), e)
    BY <1>2, <1>5, InsertedFields
  <2> HIDE DEF t
  <2> QED
    BY <1>3, <1>5, <2>1 DEF t, Typed
<1>7. Return(s, t)
  BY <1>1
<1> HIDE DEF t, all, update
<1>8. /\ sent \in [Edits -> Nat] /\ faults \in Nat /\ fate \in [Edits -> Fates]
      /\ peer.unsent \in Seq(Edits) /\ peer.speculated \in Seq(Edits)
      /\ \A x \in Edits : /\ Within(x, peer.unsent) => fate[x] = "room" /\ sent[x] = 0
                          /\ Within(x, peer.speculated) => fate[x] = "open"
                          /\ sent[x] > 0 => fate[x] = "room"
                          /\ sent[x] <= 1
      /\ Distinct(peer.unsent) /\ Distinct(peer.speculated)
  BY DEF SessionInv, SentInv, OnceInv, ReplicaInv, OnlyTheRoomsHistoryLeaves
<1>9. sent[e] = 0 /\ ~Within(e, peer.unsent) /\ ~Within(e, peer.speculated)
  BY <1>4, UnmadeIsNowhere
<1>10. /\ peer.doc = received \cup Fated("open") \cup Fated("room")
       /\ peer.speculating => peer.baseline = received \cup Fated("room")
       /\ ~peer.speculating => Fated("open") = {}
  BY DEF SessionInv, ReplicaInv, RolledBack
<1>11. /\ peer.ending = "live" =>
            /\ \A x \in Fated("room") : sent[x] = 1 \/ Within(x, peer.unsent)
            /\ \A x \in Fated("open") : Within(x, peer.speculated)
            /\ faults = 0 => peer.unsent = <<>>
  BY DEF SessionInv, OnceInv
\* What every case keeps.
<1>12. ASSUME SameBut(t, peer', {"fault"})
       PROVE  /\ IsSession(peer') /\ peer'.state = peer.state /\ peer'.ending = peer.ending
              /\ peer'.doc = t.doc /\ peer'.baseline = t.baseline
              /\ peer'.speculating = t.speculating /\ peer'.unsent = t.unsent
              /\ peer'.speculated = t.speculated /\ peer'.out = t.out
              /\ peer'.resync = peer.resync /\ peer'.pending = peer.pending
              /\ peer'.readiness = peer.readiness
              /\ SeatInv' /\ AwayInv' /\ LeaseInv'
  <2>1. /\ IsSession(peer') /\ peer'.state = peer.state /\ peer'.ending = peer.ending
        /\ peer'.doc = t.doc /\ peer'.baseline = t.baseline
        /\ peer'.speculating = t.speculating /\ peer'.unsent = t.unsent
        /\ peer'.speculated = t.speculated /\ peer'.out = t.out
        /\ peer'.resync = peer.resync /\ peer'.pending = peer.pending
        /\ peer'.readiness = peer.readiness
        /\ peer'.held = peer.held /\ peer'.roster = peer.roster
        /\ peer'.departed = peer.departed /\ peer'.hostAway = peer.hostAway
        /\ peer'.holds = peer.holds /\ peer'.leases = peer.leases
    BY <1>2, <1>6, <1>12 DEF SameBut, Fields
  <2> QED
    BY <1>4, <2>1, SeatKept, AwayKept, LeaseKept DEF SessionInv
<1>13. IsSession(t)
  BY <1>6 DEF SameBut
<1>14. ASSUME NEW list, Carries(t.out, list)
       PROVE  /\ SameBut(t, peer', {"fault"}) /\ sent' \in [Edits -> Nat]
              /\ \A x \in Edits : sent'[x] = IF Within(x, list) THEN sent[x] + 1 ELSE sent[x]
              /\ faults' \in Nat /\ (faults' = 0 => faults = 0 /\ s.fault = NoFault)
  BY <1>7, <1>8, <1>13, <1>14, ReturnFields
<1>15. ~ \E x : Within(x, <<>>)
  BY DEF Within
<1>16. CASE ~IsWriter(peer)
  <2>1. Role(peer) = "none"
    <3>1. Role(peer) \in Roles
      BY PeerConstants DEF SessionInv, SeatInv, Role, Keys
    <3> QED
      BY <1>4, <1>16, <3>1 DEF Roles, IsWriter, IsWriterKey, Role
  <2>2. /\ SameBut(t, peer', {"fault"}) /\ sent' \in [Edits -> Nat]
        /\ \A x \in Edits : sent'[x] = sent[x]
        /\ faults' \in Nat /\ (faults' = 0 => faults = 0)
    BY <1>6, <1>14, <1>15, <1>16, NothingLeft
  <2>3. /\ fate' \in [Edits -> Fates] /\ fate'[e] = "open"
        /\ \A x \in Edits \ {e} : fate'[x] = fate[x]
    BY <1>4, <1>8, <1>16 DEF Fates
  <2>4. Fated("open")' = Fated("open") \cup {e} /\ Fated("room")' = Fated("room")
    BY <1>4, <2>3 DEF Fated
  <2>5. /\ peer'.doc = peer.doc \cup {e} /\ peer'.speculating
        /\ peer'.baseline = IF peer.speculating THEN peer.baseline ELSE peer.doc
        /\ peer'.unsent = peer.unsent /\ peer'.out = <<>> /\ peer'.ending = peer.ending
        /\ peer'.speculated = IF peer.ending = "live" THEN Append(peer.speculated, e)
                              ELSE peer.speculated
        /\ peer'.state = peer.state
    BY <1>6, <1>12, <1>16, <2>2
  <2>6. /\ Append(peer.speculated, e) \in Seq(Edits)
        /\ \A x : Within(x, Append(peer.speculated, e)) <=> x = e \/ Within(x, peer.speculated)
        /\ Distinct(Append(peer.speculated, e))
    BY <1>8, <1>9, AppendWithin
  <2>7. ReplicaInv'
    <3>1. RolledBack'
      BY <1>4, <1>10, <2>4, <2>5 DEF RolledBack
    <3>2. Role(peer)' = "none" /\ received' \subseteq Remote
      BY <1>4, <2>1, <2>5 DEF Role, SessionInv, ReplicaInv
    <3> QED
      BY <2>3, <2>5, <3>1, <3>2 DEF ReplicaInv
  <2>8. SentInv'
    <3>1. OnlyTheRoomsHistoryLeaves'
      BY <1>8, <1>9, <2>2, <2>3, <2>5, NothingLeft DEF OnlyTheRoomsHistoryLeaves
    <3>2. peer'.speculated \in Seq(Edits)
          /\ \A x \in Edits : Within(x, peer'.speculated) => fate'[x] = "open"
      BY <1>8, <2>3, <2>5, <2>6
    <3>3. \A x \in Edits : Within(x, peer'.unsent) => fate'[x] = "room"
      BY <1>8, <1>9, <2>3, <2>5
    <3> QED
      BY <1>8, <2>2, <2>5, <3>1, <3>2, <3>3, NothingLeft DEF SentInv
  <2>9. OnceInv'
    <3>1. Distinct(peer'.unsent) /\ Distinct(peer'.speculated)
      BY <1>8, <2>5, <2>6
    <3>2. \A x \in Edits : sent'[x] <= 1 /\ (Within(x, peer'.unsent) => sent'[x] = 0)
      BY <1>8, <2>2, <2>5
    <3>3. peer'.ending = "live" =>
            /\ \A x \in Fated("room")' : sent'[x] = 1 \/ Within(x, peer'.unsent)
            /\ \A x \in Fated("open")' : Within(x, peer'.speculated)
            /\ faults' = 0 => peer'.unsent = <<>>
      <4>1. Fated("room") \subseteq Edits
        BY DEF Fated
      <4> QED
        BY <1>11, <2>2, <2>4, <2>5, <2>6, <4>1
    <3> QED
      BY <2>2, <3>1, <3>2, <3>3 DEF OnceInv
  <2>10. Obliged /\ Earned
    BY <1>12, <2>2, <2>5, NothingLeft, ObligedSilently DEF Earned
  <2> QED
    BY <1>12, <2>2, <2>7, <2>8, <2>9, <2>10 DEF SessionInv
<1>17. CASE IsWriter(peer)
  <2>1. /\ peer.speculated = <<>> /\ all = peer.unsent /\ Fated("open") = {}
        /\ ~peer.speculating /\ Role(peer) # "none"
    <3>1. Role(peer) # "none"
      BY <1>17 DEF IsWriter, IsWriterKey, Role
    <3> QED
      BY <3>1, NothingSpeculated DEF SessionInv, all
  <2>2. /\ fate' \in [Edits -> Fates] /\ fate'[e] = "room"
        /\ \A x \in Edits \ {e} : fate'[x] = fate[x]
    BY <1>4, <1>8, <1>17 DEF Fates
  <2>3. Fated("open")' = {} /\ Fated("room")' = Fated("room") \cup {e}
    BY <1>4, <2>1, <2>2 DEF Fated
  <2>4. t.doc = peer.doc \cup {e} /\ ~t.speculating /\ t.speculated = <<>>
    BY <1>3, <1>6, <1>17, <2>1 DEF SameBut, Fields
  <2>5. ASSUME SameBut(t, peer', {"fault"}) PROVE ReplicaInv'
    <3>1. RolledBack'
      BY <1>4, <1>10, <1>12, <2>1, <2>3, <2>4, <2>5 DEF RolledBack
    <3>2. received' \subseteq Remote /\ peer'.speculating = t.speculating
      BY <1>4, <1>12, <2>5 DEF SessionInv, ReplicaInv
    <3> QED
      BY <2>2, <2>3, <2>4, <3>1, <3>2 DEF ReplicaInv
  \* Whether it is sent, held back, or made in a session that has ended.
  <2>6. ASSUME SameBut(t, peer', {"fault"}), sent' \in [Edits -> Nat], faults' \in Nat,
               \A x \in Edits \ {e} : sent'[x] = sent[x],
               t.unsent \in Seq(Edits), Distinct(t.unsent), sent'[e] <= 1,
               \A x \in Edits : Within(x, t.unsent) =>
                                  (Within(x, peer.unsent) /\ x # e) \/ (x = e /\ sent'[e] = 0),
               \A x \in Edits : Within(x, peer.unsent) => Within(x, t.unsent),
               peer.ending = "live" =>
                 /\ sent'[e] = 1 \/ Within(e, t.unsent)
                 /\ faults' = 0 => t.unsent = <<>>,
               t.out \in Seq(Frames), Unanswered(t.out), ~Requests(t.out)
        PROVE  SessionInv' /\ Obliged /\ Earned
    <3>1. /\ peer'.unsent = t.unsent /\ peer'.speculated = <<>> /\ peer'.out = t.out
          /\ peer'.ending = peer.ending
      BY <1>12, <2>4, <2>6
    <3>2. OnlyTheRoomsHistoryLeaves'
      BY <1>8, <2>2, <2>6, <3>1 DEF OnlyTheRoomsHistoryLeaves, Unanswered
    <3>3. <<>> \in Seq(Edits) /\ Distinct(<<>>)
      BY DEF Distinct
    <3>4. SentInv'
      BY <1>8, <1>15, <2>2, <2>6, <3>1, <3>2, <3>3 DEF SentInv
    <3>5. \A x \in Edits : sent'[x] <= 1 /\ (Within(x, peer'.unsent) => sent'[x] = 0)
      BY <1>8, <2>6, <3>1
    <3>6. peer'.ending = "live" =>
            /\ \A x \in Fated("room")' : sent'[x] = 1 \/ Within(x, peer'.unsent)
            /\ \A x \in Fated("open")' : Within(x, peer'.speculated)
            /\ faults' = 0 => peer'.unsent = <<>>
      <4>1. Fated("room") \subseteq Edits
        BY DEF Fated
      <4> QED
        BY <1>11, <2>3, <2>6, <3>1, <4>1
    <3>7. OnceInv'
      BY <2>6, <3>1, <3>3, <3>5, <3>6 DEF OnceInv
    <3>8. Obliged /\ Earned
      BY <1>12, <2>6, <3>1, ObligedSilently DEF Earned
    <3> QED
      BY <1>12, <2>5, <2>6, <3>4, <3>7, <3>8 DEF SessionInv
  <2>7. CASE peer.ending # "live"
    <3>1. t.out = <<>> /\ t.unsent = peer.unsent
      BY <1>2, <1>3, <1>6, <1>17, <2>7 DEF SameBut, Fields
    <3>2. /\ SameBut(t, peer', {"fault"}) /\ sent' \in [Edits -> Nat]
          /\ \A x \in Edits : sent'[x] = sent[x]
          /\ faults' \in Nat
      BY <1>14, <1>15, <3>1, NothingLeft
    <3> QED
      BY <1>8, <1>9, <2>6, <2>7, <3>1, <3>2, NothingLeft
  <2>8. CASE peer.ending = "live" /\ t.unsent = all /\ t.out = Append(<<>>, update)
    <3>1. /\ t.out \in Seq(Frames) /\ Unanswered(t.out) /\ ~Requests(t.out)
          /\ Carries(t.out, Append(<<>>, e)) /\ \A x : Within(x, Append(<<>>, e)) <=> x = e
      BY <2>8, OneUpdate DEF update
    <3>2. /\ SameBut(t, peer', {"fault"}) /\ sent' \in [Edits -> Nat]
          /\ \A x \in Edits \ {e} : sent'[x] = sent[x]
          /\ sent'[e] = 1
          /\ faults' \in Nat /\ (faults' = 0 => faults = 0)
      BY <1>9, <1>14, <3>1
    <3>3. faults' = 0 => t.unsent = <<>>
      BY <1>11, <2>1, <2>8, <3>2
    <3> QED
      <4>1. /\ t.unsent = peer.unsent /\ t.unsent \in Seq(Edits) /\ Distinct(t.unsent)
            /\ ~Within(e, t.unsent) /\ sent'[e] <= 1
        BY <1>8, <1>9, <2>1, <2>8, <3>2
      <4>2. \A x \in Edits : Within(x, t.unsent) =>
                               (Within(x, peer.unsent) /\ x # e) \/ (x = e /\ sent'[e] = 0)
        BY <4>1
      <4>3. \A x \in Edits : Within(x, peer.unsent) => Within(x, t.unsent)
        BY <4>1
      <4>4. peer.ending = "live" =>
              /\ sent'[e] = 1 \/ Within(e, t.unsent)
              /\ faults' = 0 => t.unsent = <<>>
        BY <3>2, <3>3
      <4> HIDE DEF Within
      <4> QED
        BY <2>6, <3>1, <3>2, <4>1, <4>2, <4>3, <4>4, Zenon
  <2>9. CASE peer.ending = "live" /\ t.unsent = Append(all, e) /\ t.out = <<>> /\ s.fault # NoFault
    <3>1. /\ SameBut(t, peer', {"fault"}) /\ sent' \in [Edits -> Nat]
          /\ \A x \in Edits : sent'[x] = sent[x]
          /\ faults' \in Nat /\ faults' # 0
      BY <1>14, <1>15, <2>9, NothingLeft
    <3>2. /\ t.unsent \in Seq(Edits) /\ Distinct(t.unsent)
          /\ \A x : Within(x, t.unsent) <=> x = e \/ Within(x, peer.unsent)
      BY <1>8, <1>9, <2>1, <2>9, AppendWithin
    <3> QED
      BY <1>9, <2>6, <2>9, <3>1, <3>2, NothingLeft
  <2> QED
    BY <1>6, <1>17, <2>7, <2>8, <2>9
<1> QED
  BY <1>16, <1>17

LEMMA HearStateStep ==
    ASSUME SessionInv, NEW st \in States, HearState(st) PROVE SessionInv' /\ Obliged /\ Earned
<1>1. PICK s \in Calls : Return(s, AfterState(s, st))
  BY DEF HearState
<1>2. SameBut(peer, s, {"out", "fault"}) /\ s.out = <<>> /\ IsSession(s)
  BY CallFields DEF SessionInv, SeatInv, Calls, IsSession, Fields
<1> DEFINE t == AfterState(s, st)
           n == Noted(s, st)
           all == peer.unsent \o peer.speculated
           gap == Outdated(peer, st)
<1>3. /\ s.departed = peer.departed /\ s.ending = peer.ending /\ s.doc = peer.doc
      /\ s.baseline = peer.baseline /\ s.speculating = peer.speculating
      /\ s.unsent = peer.unsent /\ s.speculated = peer.speculated /\ s.holds = peer.holds
      /\ s.leases = peer.leases /\ s.pending = peer.pending /\ s.readiness = peer.readiness
      /\ s.resync = peer.resync /\ s.handshaken = peer.handshaken /\ s.held = peer.held
      /\ s.roster = peer.roster
  BY <1>2 DEF SameBut, Fields
<1>4. /\ fate' = Resolved(st)
      /\ gone' = IF HostAbsent([peer EXCEPT !.state = st]) THEN 0 ELSE Never
      /\ sinceTick' = sinceTick /\ received' = received /\ sinceTick \in 0 .. Renew
      /\ peer.pending \subseteq Peers
  BY DEF HearState, SessionInv, SeatInv
<1>5. /\ all \in Seq(Edits) /\ Distinct(all)
      /\ \A e : Within(e, all) <=> Within(e, peer.unsent) \/ Within(e, peer.speculated)
      /\ \A e \in Edits : Within(e, all) => sent[e] = 0 /\ fate[e] \in {"room", "open"}
  BY HeldBackFacts DEF SessionInv
<1>6. /\ peer.unsent \in Seq(Edits) /\ peer.speculated \in Seq(Edits) /\ peer.held \subseteq Paths
      /\ sent \in [Edits -> Nat] /\ faults \in Nat /\ fate \in [Edits -> Fates]
      /\ Distinct(peer.unsent) /\ Distinct(peer.speculated)
      /\ \A e \in Edits : /\ Within(e, peer.unsent) => fate[e] = "room" /\ sent[e] = 0
                          /\ Within(e, peer.speculated) => fate[e] = "open"
                          /\ sent[e] > 0 => fate[e] = "room"
                          /\ sent[e] <= 1
  BY DEF SessionInv, SentInv, OnceInv, SeatInv, ReplicaInv, OnlyTheRoomsHistoryLeaves
<1> HIDE DEF all
<1>7. /\ SameBut(s, n, {"state", "hostAway", "holds", "leases", "served", "pending",
                        "readiness"})
      /\ n.state = st
      /\ n.hostAway = IF HostAbsent(n) THEN 0 ELSE Never
      /\ n.holds = peer.holds \ gap
      /\ n.leases = [k \in Peers |-> IF k \in gap THEN Never ELSE peer.leases[k]]
      /\ n.pending = peer.pending \cap {k \in Peers : IsWriterKey(n, k)}
      /\ peer.readiness /\ IsWriter(n) => n.readiness
  <2>1. Outdated(s, st) = gap
    BY <1>3 DEF Outdated
  <2> HIDE DEF gap, n
  <2> QED
    BY <1>2, <1>3, <2>1, NotedFields DEF n
<1>8. /\ SameBut(n, t, {"out", "announced", "holdsSent", "holdsAnnounced",
                        "handshaken", "resync", "pending", "readiness",
                        "speculating", "baseline", "doc", "unsent", "speculated"})
      /\ t.out \in Seq(Frames) /\ Unanswered(t.out)
      /\ Requests(t.out) => peer.handshaken = Never
      /\ t.pending \subseteq n.pending
      /\ ~Requests(t.out) =>
           t.resync = n.resync /\ t.pending = n.pending /\ t.readiness = n.readiness
      /\ Settles(s, t, st[Me].role)
  <2>1. Distinct(s.unsent \o s.speculated)
    BY <1>3, <1>5 DEF all
  <2>2. s.unsent \in Seq(Edits) /\ s.speculated \in Seq(Edits) /\ s.held \subseteq Paths
    BY <1>3, <1>6
  <2> HIDE DEF t, n
  <2> QED
    BY <1>2, <1>3, <2>1, <2>2, AfterStateFields DEF t, n
<1>9. Return(s, t)
  BY <1>1
<1> HIDE DEF t, n, gap
<1>10. /\ IsSession(t) /\ t.state = st /\ t.roster = peer.roster /\ t.departed = peer.departed
       /\ t.held = peer.held /\ t.ending = peer.ending /\ t.holds = n.holds
       /\ t.leases = n.leases /\ t.hostAway = n.hostAway /\ n.resync = peer.resync
       /\ n.roster = peer.roster
  BY <1>3, <1>7, <1>8 DEF SameBut, Fields
<1>11. ASSUME NEW list, Carries(t.out, list)
       PROVE  /\ SameBut(t, peer', {"fault"}) /\ sent' \in [Edits -> Nat]
              /\ \A e \in Edits : sent'[e] = IF Within(e, list) THEN sent[e] + 1 ELSE sent[e]
              /\ faults' \in Nat /\ (faults' = 0 => faults = 0 /\ s.fault = NoFault)
  BY <1>6, <1>9, <1>10, <1>11, ReturnFields
<1>12. st[Me].role \in {"none", "viewer", "host", "guest"}
  BY PeerConstants DEF Roles
<1>13. \E list : Carries(t.out, list)
  BY <1>3, <1>8, <1>12 DEF Settles, all
<1>14. /\ IsSession(peer') /\ peer'.state = st /\ peer'.roster = peer.roster
       /\ peer'.departed = peer.departed /\ peer'.held = peer.held
       /\ peer'.ending = peer.ending /\ peer'.holds = n.holds /\ peer'.leases = n.leases
       /\ peer'.hostAway = n.hostAway /\ peer'.out = t.out /\ peer'.doc = t.doc
       /\ peer'.baseline = t.baseline /\ peer'.speculating = t.speculating
       /\ peer'.unsent = t.unsent /\ peer'.speculated = t.speculated
       /\ peer'.pending = t.pending /\ peer'.resync = t.resync
       /\ peer'.readiness = t.readiness
  <2>1. SameBut(t, peer', {"fault"})
    BY <1>11, <1>13
  <2> QED
    BY <1>10, <2>1 DEF SameBut, Fields
<1>15. SeatInv'
  BY <1>4, <1>7, <1>8, <1>14 DEF SessionInv, SeatInv, IsSession
<1>16. AwayInv'
  <2>1. HostAbsent(peer)' <=> HostAbsent(n)
    BY <1>7, <1>10, <1>14 DEF HostAbsent, HostSeats
  <2>2. Expire \in Nat /\ Never = -1
    BY PeerConstants DEF Never
  <2>3. HostAbsent(n) => gone' = 0
    <3> DEFINE heard == [peer EXCEPT !.state = st]
    <3>1. heard.state = st /\ heard.roster = peer.roster
      BY DEF SessionInv, SeatInv, IsSession, Fields
    <3> HIDE DEF heard
    <3>2. HostAbsent(n) <=> HostAbsent(heard)
      BY <1>7, <1>10, <3>1 DEF HostAbsent, HostSeats
    <3> QED
      BY <1>4, <3>2 DEF heard
  <2>4. gone' \in {0, Never} /\ peer'.hostAway = IF HostAbsent(n) THEN 0 ELSE Never
    BY <1>4, <1>7, <1>14
  <2>5. 0 \in Never .. Expire /\ Never \in Never .. Expire /\ 0 # Never /\ Never <= 0
        /\ 0 <= 0 /\ Never <= Never
    BY <2>2
  <2> QED
    BY <2>1, <2>3, <2>4, <2>5 DEF AwayInv
<1>17. LeaseInv'
  <2>1. /\ peer.leases \in [Peers -> Never .. Expire + Renew] /\ peer.holds \subseteq Peers
        /\ \A j \in Peers : peer.leases[j] # Never <=> j \in peer.holds
        /\ \A j \in peer.holds : peer.leases[j] <= Expire - 1 + sinceTick
    BY DEF SessionInv, LeaseInv
  <2>2. Never \in Never .. Expire + Renew
    BY PeerConstants DEF Never
  <2>3. \A j \in Peers : peer'.leases[j] = IF j \in gap THEN Never ELSE peer.leases[j]
    BY <1>7, <1>14
  <2>4. peer'.leases \in [Peers -> Never .. Expire + Renew]
    BY <1>7, <1>14, <2>1, <2>2
  <2>5. peer'.holds = peer.holds \ gap
    BY <1>7, <1>14
  <2>6. \A j \in peer'.holds : ~Departed(peer', j)
    BY <1>14, <2>1, <2>5 DEF gap, Outdated, Departed
  <2>7. \A j \in Peers : peer'.leases[j] # Never <=> j \in peer'.holds
    BY <2>1, <2>3, <2>5
  <2>8. \A j \in peer'.holds : peer'.leases[j] <= Expire - 1 + sinceTick'
    BY <1>4, <2>1, <2>3, <2>5
  <2>9. peer'.holds \subseteq Peers
    BY <2>1, <2>5
  <2> QED
    BY <2>4, <2>6, <2>7, <2>8, <2>9 DEF LeaseInv, Departed
<1>18. Obliged
  <2>1. \A k : IsWriterKey(peer', k) <=> IsWriterKey(n, k)
    BY <1>7, <1>14 DEF IsWriterKey
  <2>2. IsWriter(peer') <=> IsWriter(n)
    BY <2>1 DEF IsWriter
  <2>3. peer'.out = t.out /\ (Requests(t.out) => Due(peer.handshaken))
    BY <1>8, <1>14 DEF Due
  <2>4. ~Requests(t.out) =>
          /\ peer.resync => peer'.resync
          /\ \A k \in peer.pending : IsWriterKey(peer', k) => k \in peer'.pending
          /\ peer.readiness /\ IsWriter(peer') => peer'.readiness
    BY <1>4, <1>7, <1>8, <1>10, <1>14, <2>1, <2>2
  <2> QED
    BY <2>3, <2>4 DEF Obliged
<1>19. Earned
  BY <1>14 DEF Earned
<1>20. /\ peer.doc = received \cup Fated("open") \cup Fated("room") /\ received \subseteq Remote
       /\ peer.speculating => peer.baseline = received \cup Fated("room")
       /\ ~peer.speculating => Fated("open") = {}
       /\ peer.ending = "live" =>
            /\ \A e \in Fated("room") : sent[e] = 1 \/ Within(e, peer.unsent)
            /\ \A e \in Fated("open") : Within(e, peer.speculated)
            /\ faults = 0 => peer.unsent = <<>>
       /\ Fated("open") \subseteq Edits /\ Fated("room") \subseteq Edits
  BY DEF SessionInv, ReplicaInv, RolledBack, OnceInv, Fated
<1>21. ~(\E e : Within(e, <<>>)) /\ <<>> \in Seq(Edits) /\ Distinct(<<>>)
  BY DEF Within, Distinct
<1>22. Role(peer)' = st[Me].role
  BY <1>14 DEF Role
\* A key without a role: nothing is decided, and nothing leaves.
<1>23. CASE st[Me].role = "none"
  <2>1. /\ t.doc = peer.doc /\ t.baseline = peer.baseline /\ t.speculating = peer.speculating
        /\ t.unsent = peer.unsent /\ t.speculated = peer.speculated
        /\ Carries(t.out, <<>>)
    BY <1>3, <1>8, <1>23 DEF Settles
  <2>2. fate' = fate
    <3>1. \A e \in Edits : Resolved(st)[e] = fate[e]
      BY <1>23 DEF Resolved
    <3> QED
      BY <1>4, <1>6, <3>1 DEF Resolved
  <2>3. /\ sent' \in [Edits -> Nat] /\ \A e \in Edits : sent'[e] = sent[e]
        /\ faults' \in Nat /\ (faults' = 0 => faults = 0)
    BY <1>11, <1>21, <2>1
  <2>4. ReplicaInv'
    <3>1. Fated("open")' = Fated("open") /\ Fated("room")' = Fated("room")
      BY <2>2 DEF Fated
    <3>2. RolledBack'
      BY <1>4, <1>14, <1>20, <2>1, <3>1 DEF RolledBack
    <3> QED
      BY <1>4, <1>6, <1>14, <1>20, <1>22, <1>23, <2>1, <2>2, <3>1, <3>2 DEF ReplicaInv
  <2>5. SentInv' /\ OnceInv'
    BY <1>8, <1>14, <2>1, <2>2, <2>3, SentKept, OnceKept DEF SessionInv
  <2> QED
    BY <1>15, <1>16, <1>17, <1>18, <1>19, <2>4, <2>5 DEF SessionInv
\* A viewer's: the open edits are rolled back, and none of them leaves.
<1>24. CASE st[Me].role = "viewer"
  <2>1. /\ t.doc = PublicationDoc(s) /\ ~t.speculating /\ t.speculated = <<>>
        /\ t.unsent \in {peer.unsent, <<>>}
        /\ peer.ending = "live" => t.unsent = peer.unsent
        /\ Carries(t.out, <<>>)
    BY <1>3, <1>8, <1>24 DEF Settles
  <2>2. /\ \A e \in Edits : fate'[e] = IF fate[e] = "open" THEN "viewer" ELSE fate[e]
        /\ fate' \in [Edits -> Fates]
    <3>1. \A e \in Edits : Resolved(st)[e] = IF fate[e] = "open" THEN "viewer" ELSE fate[e]
      BY <1>24 DEF Resolved
    <3> QED
      BY <1>4, <1>6, <3>1 DEF Resolved, Fates
  <2>3. Fated("open")' = {} /\ Fated("room")' = Fated("room")
    BY <2>2 DEF Fated
  <2>4. /\ sent' \in [Edits -> Nat] /\ \A e \in Edits : sent'[e] = sent[e]
        /\ faults' \in Nat /\ (faults' = 0 => faults = 0)
    BY <1>11, <1>21, <2>1
  <2>5. PublicationDoc(s) = received \cup Fated("room")
    BY <1>3, <1>20 DEF PublicationDoc
  <2>6. ReplicaInv'
    <3>1. RolledBack'
      BY <1>4, <1>14, <2>1, <2>3, <2>5 DEF RolledBack
    <3> QED
      BY <1>4, <1>14, <1>20, <2>1, <2>2, <2>3, <3>1 DEF ReplicaInv
  <2>7. SentInv'
    <3>1. OnlyTheRoomsHistoryLeaves'
      BY <1>6, <1>8, <1>14, <2>2, <2>4 DEF OnlyTheRoomsHistoryLeaves, Unanswered
    <3>2. peer'.unsent \in Seq(Edits) /\ peer'.speculated = <<>>
          /\ \A e \in Edits : Within(e, peer'.unsent) => Within(e, peer.unsent)
      BY <1>6, <1>14, <1>21, <2>1
    <3>3. \A e \in Edits : Within(e, peer'.unsent) => fate'[e] = "room"
      BY <1>6, <2>2, <3>2
    <3> QED
      BY <1>8, <1>14, <1>21, <2>4, <3>1, <3>2, <3>3 DEF SentInv
  <2>8. OnceInv'
    <3>1. /\ Distinct(peer'.unsent) /\ Distinct(peer'.speculated)
          /\ \A e \in Edits : sent'[e] <= 1 /\ (Within(e, peer'.unsent) => sent'[e] = 0)
      BY <1>6, <1>14, <1>21, <2>1, <2>4
    <3>2. peer'.ending = "live" =>
            /\ \A e \in Fated("room")' : sent'[e] = 1 \/ Within(e, peer'.unsent)
            /\ \A e \in Fated("open")' : Within(e, peer'.speculated)
            /\ faults' = 0 => peer'.unsent = <<>>
      BY <1>14, <1>20, <2>1, <2>3, <2>4
    <3> QED
      BY <2>4, <3>1, <3>2 DEF OnceInv
  <2> QED
    BY <1>15, <1>16, <1>17, <1>18, <1>19, <2>6, <2>7, <2>8 DEF SessionInv
\* A writer's: the open edits become the room's, and all that can be sealed leave.
<1>25. CASE st[Me].role \in {"host", "guest"}
  <2>1. /\ t.doc = peer.doc /\ ~t.speculating /\ t.speculated = <<>>
        /\ \E went : /\ Carries(t.out, went)
                      /\ IF peer.ending = "live"
                         THEN Parted(s, all, t.unsent, went)
                         ELSE went = <<>> /\ t.unsent = <<>>
    BY <1>3, <1>8, <1>25 DEF Settles, all
  <2>2. /\ \A e \in Edits : fate'[e] = IF fate[e] = "open" THEN "room" ELSE fate[e]
        /\ fate' \in [Edits -> Fates]
    <3>1. \A e \in Edits : Resolved(st)[e] = IF fate[e] = "open" THEN "room" ELSE fate[e]
      BY <1>25 DEF Resolved
    <3> QED
      BY <1>4, <1>6, <3>1 DEF Resolved, Fates
  <2>3. Fated("open")' = {} /\ Fated("room")' = Fated("room") \cup Fated("open")
    BY <2>2 DEF Fated
  <2>4. ReplicaInv'
    <3>1. RolledBack'
      BY <1>4, <1>14, <1>20, <2>1, <2>3 DEF RolledBack
    <3> QED
      BY <1>4, <1>14, <1>20, <2>1, <2>2, <2>3, <3>1 DEF ReplicaInv
  <2>5. ASSUME NEW went, Carries(t.out, went),
               IF peer.ending = "live" THEN Parted(s, all, t.unsent, went)
               ELSE went = <<>> /\ t.unsent = <<>>
        PROVE  SentInv' /\ OnceInv'
    <3>1. /\ sent' \in [Edits -> Nat] /\ faults' \in Nat
          /\ \A e \in Edits : sent'[e] = IF Within(e, went) THEN sent[e] + 1 ELSE sent[e]
          /\ faults' = 0 => faults = 0 /\ s.fault = NoFault
      BY <1>11, <2>5
    <3>2. \A e \in Edits : Within(e, went) => Within(e, all) /\ ~Within(e, t.unsent)
      BY <1>21, <2>5 DEF Parted, Splits
    <3>3. \A e \in Edits : Within(e, t.unsent) => Within(e, all)
      BY <1>21, <2>5 DEF Parted, Splits
    <3>4. \A e \in Edits : sent'[e] > 0 => fate'[e] = "room"
      BY <1>5, <1>6, <2>2, <3>1, <3>2
    <3>5. OnlyTheRoomsHistoryLeaves'
      BY <1>8, <1>14, <3>4 DEF OnlyTheRoomsHistoryLeaves, Unanswered
    <3>6. \A e \in Edits : Within(e, t.unsent) => fate'[e] = "room" /\ sent'[e] = 0
      BY <1>5, <2>2, <3>1, <3>2, <3>3
    <3>7. ASSUME NEW e \in Edits PROVE sent'[e] <= 1
      <4>1. CASE Within(e, went)
        <5>1. sent[e] = 0 /\ sent'[e] = sent[e] + 1
          BY <1>5, <3>1, <3>2, <4>1
        <5> QED
          BY <5>1
      <4>2. CASE ~Within(e, went)
        BY <1>6, <3>1, <4>2
      <4> QED
        BY <4>1, <4>2
    <3>8. t.unsent \in Seq(Edits) /\ Distinct(t.unsent)
      BY <1>21, <2>5 DEF Parted, Splits
    <3>9. SentInv'
      BY <1>8, <1>14, <1>21, <2>1, <3>1, <3>5, <3>6, <3>8 DEF SentInv
    <3>10. peer'.ending = "live" =>
            /\ \A e \in Fated("room")' : sent'[e] = 1 \/ Within(e, peer'.unsent)
            /\ \A e \in Fated("open")' : Within(e, peer'.speculated)
            /\ faults' = 0 => peer'.unsent = <<>>
      <4> SUFFICES ASSUME peer.ending = "live"
                   PROVE  /\ \A e \in Fated("room")' : sent'[e] = 1 \/ Within(e, t.unsent)
                          /\ faults' = 0 => t.unsent = <<>>
        BY <1>14, <2>3
      <4>1. ASSUME NEW e \in Edits, e \in Fated("room") \cup Fated("open")
            PROVE  sent'[e] = 1 \/ Within(e, t.unsent)
        <5>1. CASE Within(e, all)
          <6>1. sent[e] = 0
            BY <1>5, <5>1
          <6>2. Within(e, t.unsent) \/ Within(e, went)
            BY <2>5, <5>1 DEF Parted, Splits
          <6> QED
            BY <3>1, <6>1, <6>2
        <5>2. CASE ~Within(e, all)
          <6>1. sent[e] = 1
            BY <1>5, <1>20, <4>1, <5>2
          <6> QED
            BY <3>1, <3>2, <5>2, <6>1
        <5> QED
          BY <5>1, <5>2
      <4>2. faults' = 0 => t.unsent = <<>>
        BY <2>5, <3>1 DEF Parted
      <4> QED
        BY <1>20, <2>3, <4>1, <4>2
    <3>11. OnceInv'
      BY <1>14, <1>21, <2>1, <3>1, <3>6, <3>7, <3>8, <3>10 DEF OnceInv
    <3> QED
      BY <3>9, <3>11
  <2>6. SentInv' /\ OnceInv'
    BY <2>1, <2>5
  <2> QED
    BY <1>15, <1>16, <1>17, <1>18, <1>19, <2>4, <2>6 DEF SessionInv
<1> QED
  BY <1>12, <1>23, <1>24, <1>25

----------------------------------------------------------------------------
(* The theorems.                                                            *)

LEMMA SessionStart == Init => SessionInv
<1> SUFFICES ASSUME Init PROVE SessionInv
  OBVIOUS
<1>1. /\ IsSession(peer) /\ peer.state = NoState /\ peer.ending = "live" /\ peer.roster = Seated
      /\ peer.departed = {} /\ peer.doc = {} /\ peer.baseline = {} /\ peer.speculating = FALSE
      /\ peer.unsent = <<>> /\ peer.speculated = <<>> /\ peer.held = {} /\ peer.holds = {}
      /\ peer.leases = [k \in Peers |-> Never] /\ peer.hostAway = Never /\ peer.out = <<>>
      /\ peer.pending = {}
  BY DEF Init, IsSession, Fields
<1>2. /\ sinceTick = 0 /\ fate = [e \in Edits |-> "unmade"] /\ sent = [e \in Edits |-> 0]
      /\ gone = Never /\ received = {} /\ faults = 0
  BY DEF Init
<1>3. HostSeats(peer) = {} /\ ~HostAbsent(peer) /\ Role(peer) = "none"
  BY <1>1, PeerConstants DEF HostSeats, HostAbsent, NoState, NoEntry, Entry, Keys, Role
<1>4. SeatInv
  BY <1>1, <1>2, <1>3, PeerConstants DEF SeatInv
<1>5. AwayInv
  BY <1>1, <1>2, <1>3, PeerConstants DEF AwayInv, Never
<1>6. LeaseInv
  BY <1>1, PeerConstants DEF LeaseInv, Never
<1>7. Fated("open") = {} /\ Fated("room") = {} /\ fate \in [Edits -> Fates]
  BY <1>2 DEF Fated, Fates
<1>8. ReplicaInv
  BY <1>1, <1>2, <1>3, <1>7 DEF ReplicaInv, RolledBack
<1>9. ~(\E e : Within(e, <<>>)) /\ <<>> \in Seq(Edits) /\ Distinct(<<>>)
  BY DEF Within, Distinct
<1>10. sent \in [Edits -> Nat] /\ \A e \in Edits : sent[e] = 0
  BY <1>2
<1>11. SentInv
  BY <1>1, <1>9, <1>10, NothingLeft DEF SentInv, OnlyTheRoomsHistoryLeaves
<1>12. OnceInv
  BY <1>1, <1>2, <1>7, <1>9, <1>10 DEF OnceInv
<1> QED
  BY <1>4, <1>5, <1>6, <1>8, <1>11, <1>12 DEF SessionInv

LEMMA SessionNext == ASSUME SessionInv, Next PROVE SessionInv' /\ Obliged /\ Earned
<1>1. CASE \E st \in States : HearState(st)
  BY <1>1, HearStateStep
<1>2. CASE \E k \in Peers, edits \in SUBSET Remote, asks \in BOOLEAN : HearContent(k, edits, asks)
  BY <1>2, HearContentStep
<1>3. CASE \E k \in Peers : HearHolds(k)
  BY <1>3, HearHoldsStep
<1>6. CASE \E seat \in Connections : SeatJoined(seat) \/ SeatLeft(seat)
  BY <1>6, SeatJoinedStep, SeatLeftStep
<1>4. CASE \E e \in Edits : Insert(e)
  BY <1>4, InsertStep
<1>5. CASE \E paths \in SUBSET Paths : Hold(paths)
  BY <1>5, HoldStep
<1> QED
  BY <1>1, <1>2, <1>3, <1>4, <1>5, <1>6, RefuseStep, HearClosingStep, PastTheEndStep, TickStep,
     PassStep DEF Next

LEMMA SessionStep == SessionInv /\ [Next]_vars => SessionInv'
<1> SUFFICES ASSUME SessionInv, [Next]_vars PROVE SessionInv'
  OBVIOUS
<1>1. CASE Next
  BY <1>1, SessionNext
<1>2. CASE UNCHANGED vars
  <2>1. /\ peer' = peer /\ sinceTick' = sinceTick /\ fate' = fate /\ sent' = sent /\ gone' = gone
        /\ received' = received /\ faults' = faults /\ spoke' = spoke
    BY <1>2 DEF vars, history
  <2>2. SeatInv' /\ AwayInv' /\ LeaseInv' /\ ReplicaInv'
    BY <2>1, SeatKept, AwayKept, LeaseKept, ReplicaKept DEF SessionInv, SeatInv
  <2>3. SentInv'
    BY <2>1 DEF SessionInv, SentInv, OnlyTheRoomsHistoryLeaves, Fated
  <2>4. OnceInv'
    BY <2>1 DEF SessionInv, OnceInv, Fated
  <2> QED
    BY <2>2, <2>3, <2>4 DEF SessionInv
<1> QED
  BY <1>1, <1>2


LEMMA HeldOnce ==
    ASSUME NEW S, NEW list \in Seq(S), Distinct(list), NEW e
    PROVE  Cardinality({i \in DOMAIN list : list[i] = e}) = IF Within(e, list) THEN 1 ELSE 0
<1>1. CASE Within(e, list)
  <2>1. PICK j \in DOMAIN list : list[j] = e
    BY <1>1 DEF Within
  <2>2. {i \in DOMAIN list : list[i] = e} = {j}
    BY <2>1 DEF Distinct
  <2> QED
    BY <1>1, <2>2, FS_Singleton
<1>2. CASE ~Within(e, list)
  <2>1. {i \in DOMAIN list : list[i] = e} = {}
    BY <1>2 DEF Within
  <2> QED
    BY <1>2, <2>1, FS_EmptySet
<1> QED
  BY <1>1, <1>2

\* The rollback is exact, for every set of peers, states and edits and whatever
\* calls fail to seal: after any order of states, content and local edits the
\* replica is what the others wrote and the local edits that are the room's or
\* still open, and the clean one beside it lacks the open ones and nothing else
\* (begin_speculation, discard_speculative, apply_content).
THEOREM RollbackHolds == Spec => []RolledBack
<1>1. SessionInv => RolledBack
  BY DEF SessionInv, ReplicaInv
<1> QED
  BY <1>1, SessionStart, SessionStep, PTL DEF Spec

\* No edit whose role is open, or was a viewer's, ever leaves this client, as an
\* update or inside an answer (publication_doc, resolve_speculation, flush_held_back).
THEOREM HistoryHolds == Spec => []OnlyTheRoomsHistoryLeaves
<1>1. SessionInv => OnlyTheRoomsHistoryLeaves
  BY DEF SessionInv, SentInv
<1> QED
  BY <1>1, SessionStart, SessionStep, PTL DEF Spec

\* No local edit is lost or sent twice while the session lives, however the state,
\* the failures to seal and the edits interleave (insert, hold_back,
\* flush_held_back).
THEOREM OnceHolds == Spec => []EditsGoOutOnce
<1>1. ASSUME SessionInv PROVE EditsGoOutOnce
  <2> SUFFICES ASSUME peer.ending = "live", NEW e \in Edits
               PROVE  /\ sent[e] + (Cardinality({i \in DOMAIN peer.unsent : peer.unsent[i] = e})
                                    + Cardinality({i \in DOMAIN peer.speculated :
                                                       peer.speculated[i] = e}))
                         = IF fate[e] \in {"open", "room"} THEN 1 ELSE 0
                      /\ fate[e] = "open" => sent[e] = 0
                      /\ fate[e] = "room" /\ faults = 0 => sent[e] = 1
    BY DEF EditsGoOutOnce
  <2>1. /\ peer.unsent \in Seq(Edits) /\ peer.speculated \in Seq(Edits)
        /\ Distinct(peer.unsent) /\ Distinct(peer.speculated)
        /\ sent[e] \in Nat /\ sent[e] <= 1 /\ (sent[e] > 0 => fate[e] = "room")
        /\ Within(e, peer.unsent) => fate[e] = "room" /\ sent[e] = 0
        /\ Within(e, peer.speculated) => fate[e] = "open"
        /\ fate[e] = "room" => sent[e] = 1 \/ Within(e, peer.unsent)
        /\ fate[e] = "open" => Within(e, peer.speculated)
        /\ faults = 0 => peer.unsent = <<>>
    BY <1>1 DEF SessionInv, SentInv, OnceInv, OnlyTheRoomsHistoryLeaves, Fated
  <2>2. ~Within(e, <<>>)
    BY DEF Within
  <2> DEFINE u == Cardinality({i \in DOMAIN peer.unsent : peer.unsent[i] = e})
             w == Cardinality({i \in DOMAIN peer.speculated : peer.speculated[i] = e})
  <2>3. /\ u = IF Within(e, peer.unsent) THEN 1 ELSE 0
        /\ w = IF Within(e, peer.speculated) THEN 1 ELSE 0
    BY <2>1, HeldOnce
  <2>4. faults = 0 => ~Within(e, peer.unsent)
    BY <2>1, <2>2
  <2> HIDE DEF u, w
  <2>5. sent[e] + (u + w) = IF fate[e] \in {"open", "room"} THEN 1 ELSE 0
    BY <2>1, <2>3
  <2> QED
    BY <2>1, <2>4, <2>5 DEF u, w
<1> QED
  BY <1>1, SessionStart, SessionStep, PTL DEF Spec

\* A key's hold ends with its lease, and what it held before a state or a leaving
\* shows that its seat has left is dropped, in every order of states, seats, ticks
\* and late frames and whatever seats the states name (expire_leases,
\* drop_departed_holds).
THEOREM LeasesHold == Spec => []HoldsAreLeased
<1>1. ASSUME SessionInv PROVE HoldsAreLeased
  <2> SUFFICES ASSUME NEW k \in peer.holds
               PROVE  /\ peer.leases[k] \in 0 .. Expire + Renew - 1
                      /\ Departed(peer, k) => k \in spoke
    BY DEF HoldsAreLeased
  <2>1. /\ k \in Peers /\ peer.leases[k] \in Never .. Expire + Renew /\ peer.leases[k] # Never
        /\ peer.leases[k] <= Expire - 1 + sinceTick
        /\ Departed(peer, k) => k \in spoke
        /\ sinceTick \in 0 .. Renew
    BY <1>1 DEF SessionInv, LeaseInv, SeatInv
  <2> QED
    BY <2>1, PeerConstants DEF Never
<1> QED
  BY <1>1, SessionStart, SessionStep, PTL DEF Spec

\* A session ends because its host is away only after the whole window of the
\* newest state, for every window and every order of states and seats
\* (refresh_host_away, window_passed).
THEOREM AwayHolds == Spec => HostAwayIsEarned
<1>1. SessionInv /\ [Next]_vars
        => [peer'.ending = "hostAway" /\ peer.ending # "hostAway" => gone >= Expire]_vars
  BY SessionNext DEF Earned
<1> QED
  BY <1>1, SessionStart, SessionStep, PTL DEF Spec, HostAwayIsEarned

\* What is owed a request is settled by a request that was queued, and no two
\* requests leave within a renewal, for every order of frames, failures to seal
\* and ticks (sync_step1, prune_reciprocal, note_local_eligibility, resync).
THEOREM ObligationsHold == Spec => ObligationsAreKept
<1>1. SessionInv /\ [Next]_vars
        => [/\ Asked(peer') => Due(peer.handshaken)
            /\ \/ Asked(peer')
               \/ /\ peer.resync => peer'.resync
                  /\ \A k \in peer.pending : IsWriterKey(peer', k) => k \in peer'.pending
                  /\ peer.readiness /\ IsWriter(peer') => peer'.readiness]_vars
  <2>1. Asked(peer') <=> Requests(peer'.out)
    BY DEF Asked, Requests
  <2> QED
    BY <2>1, SessionNext DEF Obliged
<1> QED
  BY <1>1, SessionStart, SessionStep, PTL DEF Spec, ObligationsAreKept
=============================================================================
