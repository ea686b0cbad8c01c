---------------------------- MODULE PeerSession ----------------------------
(***************************************************************************)
(* One guest's session of a sealed room: crates/client/src/peer, with      *)
(* everything a driver calls on a PeerSession that holds no host key.      *)
(*                                                                         *)
(* A session records the clock at the events it sees and compares it with  *)
(* its windows on a tick.  The model keeps how long ago each was, up to    *)
(* the window it is compared with, so that time is not bounded.            *)
(*                                                                         *)
(* A remote connection has a session key, which its frames are signed      *)
(* with, and a seat, which the server announces; nothing ties the one to   *)
(* the other but the label in a state's entry, which is the host's guess.  *)
(* The server may relay a frame of a connection after it announced that    *)
(* the connection left.                                                    *)
(*                                                                         *)
(* A document is the set of edits in it, a state is the entry it has for   *)
(* each key, a hold message is heard or not.  The edits held back are in   *)
(* two parts: unsent and, behind it, speculated, the ones marked           *)
(* speculative, which are the last of them as no writer's edit is held     *)
(* back before they are accepted.  The frames of a call are in peer.out,   *)
(* which the relay drains when the call returns.  Reading a frame is       *)
(* SealedReader's, awareness is PeerAwareness's, the frame budget is       *)
(* FrameBudget's and the host's half is SealedRoom's.                      *)
(***************************************************************************)
EXTENDS Integers, Sequences, FiniteSets

CONSTANTS
    Me,         \* this connection's session key
    Peers,      \* the session keys of the others
    Connections, \* the seats of the others
    Seated,     \* those the handshake showed
    States,     \* the room states the host may publish
    Paths,      \* paths this client may open
    MaxEdits,   \* bound: local edits
    Remote,     \* the edits of the others
    Renew,      \* awareness_renew_ms
    Expire,     \* awareness_expire_ms
    Faults,     \* what may be impossible to seal in a call
    MaxFaults   \* bound: calls in which something is

Roles == {"none", "viewer", "guest", "host"}
Keys == Peers \cup {Me}

\* PeerEntry: the role of a committed key, and the seat it is believed to have.
Entry(role, seat) == [role |-> role, seat |-> seat]
NoEntry == Entry("none", "none")
NoState == [k \in Keys |-> NoEntry]

\* The kinds of frames, and the edits whose updates, that cannot be sealed.
Fault(kinds, edits) == [kinds |-> kinds, edits |-> edits]
NoFault == Fault({}, {})

ASSUME PeerAssumption ==
    /\ Me \notin Peers
    /\ Seated \subseteq Connections
    /\ NoState \notin States
    /\ \A st \in States : DOMAIN st = Keys /\ \A k \in Keys : st[k].role \in Roles
    /\ \A st \in States : st[Me].role # "host"
    /\ \A st \in States, j, k \in Peers :
          st[j].role = "host" /\ st[k].role = "host" => j = k
    /\ MaxEdits \in Nat /\ MaxFaults \in Nat
    /\ Remote \cap 1 .. MaxEdits = {}
    /\ Renew \in Nat \ {0} /\ Expire \in Nat \ {0}

VARIABLES
    peer,       \* the PeerSession
    sinceTick,  \* how long ago the driver called tick
    fate,       \* history: what became of each local edit
    sent,       \* history: how often each local edit was published
    gone,       \* history: how long the host of the last state is away
    spoke,      \* history: whose holds were heard since a state came or a seat left
    received,   \* history: the edits of the others in content accepted
    faults      \* calls in which something could not be sealed, so far

history == <<fate, sent, gone, spoke, received>>
vars == <<peer, sinceTick, history, faults>>

Edits == 1 .. MaxEdits
Never == -1
\* An age is exact up to the window it is compared with.
Older(age, window) == IF age \in {Never, window} THEN age ELSE age + 1
Due(age) == age = Never \/ age >= Renew

----------------------------------------------------------------------------
(* Roles: operators on a session s.                                         *)

Role(s) == s.state[Me].role
IsWriterKey(s, k) == s.state[k].role \in {"host", "guest"}
IsWriter(s) == IsWriterKey(s, Me)
CommitsOurs(s) == Role(s) # "none"
StateHeld(s) == s.state # NoState
MayPublish(s) == s.ending = "live" /\ StateHeld(s) /\ CommitsOurs(s)
HostSeats(s) == {s.state[k].seat : k \in {j \in Peers : s.state[j].role = "host"}}
HostAbsent(s) == HostSeats(s) # {} /\ HostSeats(s) \cap s.roster = {}

\* arm_reciprocal: one request for the first a committed writer makes.
ArmReciprocal(s, k) ==
    IF ~IsWriterKey(s, k) \/ k \in s.served THEN s
    ELSE [s EXCEPT !.served = @ \cup {k}, !.pending = @ \cup {k}]

\* prune_reciprocal: the accounting of a key goes with its eligibility.
PruneReciprocal(s) ==
    LET Writers == {k \in Peers : IsWriterKey(s, k)}
    IN  [s EXCEPT !.served = @ \cap Writers, !.pending = @ \cap Writers]

\* note_local_eligibility: a key that may write again owes one request.
\* role_seen is the role that the state before gave this key.
NoteLocalEligibility(s, seen) ==
    IF ~IsWriter(s) THEN [s EXCEPT !.readiness = FALSE]
    ELSE IF s.handshaken # Never /\ seen \notin {"host", "guest"}
         THEN [s EXCEPT !.readiness = TRUE]
         ELSE s

----------------------------------------------------------------------------
(* What leaves a session.                                                   *)

Frame(kind, what) == [kind |-> kind, what |-> what]
IsContent(f) == f.kind \in {"update", "step2"}

\* may_queue, and the seal: s.fault is what cannot be sealed in this call.
Seals(s, f) ==
    /\ f.kind \notin s.fault.kinds
    /\ f.kind = "update" => f.what \cap s.fault.edits = {}
    /\ s.ending = "live"
    /\ \/ f.kind = "announcement"
       \/ MayPublish(s) /\ (IsContent(f) => IsWriter(s))

Publish(s, f) == IF Seals(s, f) THEN [s EXCEPT !.out = Append(@, f)] ELSE s

\* Mutant of SyncStep1: what is owed is settled by an attempt.
SyncStep1Attempt(s) ==
    [Publish(s, Frame("step1", {})) EXCEPT
        !.handshaken = 0, !.resync = FALSE, !.pending = {}, !.readiness = FALSE]

\* sync_step1: only a request that was queued settles what is owed.
SyncStep1(s) ==
    LET f == Frame("step1", {})
    IN  IF ~Seals(s, f) THEN s
        ELSE [Publish(s, f) EXCEPT !.handshaken = 0, !.resync = FALSE,
                                   !.pending = {}, !.readiness = FALSE]

HandshakeOnce(s) == IF s.handshaken = Never THEN SyncStep1(s) ELSE s

Owes(s) == s.resync \/ s.pending # {} \/ s.readiness

\* Mutant of Resync: a readiness request alone is not a reason.
ResyncRefusals(s) ==
    IF MayPublish(s) /\ (s.resync \/ s.pending # {}) /\ Due(s.handshaken)
    THEN SyncStep1(s)
    ELSE s

\* Mutant of Resync: as soon as something is owed.
ResyncAtOnce(s) == IF MayPublish(s) /\ Owes(s) THEN SyncStep1(s) ELSE s

\* resync: one request for each renewal, whoever is owed it.
Resync(s) ==
    IF /\ MayPublish(s)
       /\ s.handshaken = Never \/ (Owes(s) /\ Due(s.handshaken))
    THEN SyncStep1(s)
    ELSE s

\* announce: the clock moves whether or not the frame was sealed.
Announce(s) ==
    [Publish(s, Frame("announcement", {})) EXCEPT !.announced = 0]

Reannounce(s) ==
    IF ~CommitsOurs(s) /\ Due(s.announced) THEN Announce(s) ELSE s

\* announce_holds: at once when the set changed, and on the renewal clock.
AnnounceHolds(s) ==
    LET Silent == s.held = {} /\ s.holdsSent = {} /\ s.holdsAnnounced = Never
    IN  IF MayPublish(s) /\ ~Silent
           /\ (s.held # s.holdsSent \/ Due(s.holdsAnnounced))
        THEN [Publish(s, Frame("holds", s.held)) EXCEPT
                 !.holdsSent = s.held, !.holdsAnnounced = 0]
        ELSE s

----------------------------------------------------------------------------
(* Speculation: edits made before a state gives this key a role.            *)

PublicationDoc(s) == IF s.speculating THEN s.baseline ELSE s.doc

\* begin_speculation: a clean replica, before the first such edit.
BeginSpeculation(s) ==
    IF s.speculating THEN s
    ELSE [s EXCEPT !.speculating = TRUE, !.baseline = s.doc]

AcceptSpeculation(s) ==
    [s EXCEPT !.speculating = FALSE, !.baseline = {},
              !.unsent = @ \o s.speculated, !.speculated = <<>>]

\* Mutant of DiscardSpeculative: the edits are not sent but stay in the replica.
DiscardUnsent(s) ==
    [s EXCEPT !.speculated = <<>>, !.speculating = FALSE, !.baseline = {}]

\* discard_speculative: the clean replica takes the place of the other.
DiscardSpeculative(s) ==
    [s EXCEPT !.speculated = <<>>, !.doc = PublicationDoc(s),
              !.speculating = FALSE, !.baseline = {}]

\* Mutant of ResolveSpeculation: any role makes the edits the room's.
ResolveAccepting(s) == AcceptSpeculation(s)

\* resolve_speculation
ResolveSpeculation(s) ==
    IF Role(s) = "viewer" THEN DiscardSpeculative(s)
    ELSE IF IsWriter(s) THEN AcceptSpeculation(s)
    ELSE s

HoldBack(s, e, speculative) ==
    IF Role(s) = "viewer" \/ s.ending # "live" THEN s
    ELSE IF speculative THEN [s EXCEPT !.speculated = Append(@, e)]
    ELSE [s EXCEPT !.unsent = Append(@, e)]

\* insert, once the role and the index are known to be good.
Inserted(s, e) ==
    LET speculative == ~IsWriter(s)
        clean == IF speculative THEN BeginSpeculation(s) ELSE s
        typed == [clean EXCEPT !.doc = @ \cup {e}]
        update == Frame("update", {e})
        room == AcceptSpeculation(typed)
    IN  IF ~MayPublish(typed) \/ ~IsWriter(typed)
        THEN HoldBack(typed, e, speculative)
        ELSE IF Seals(room, update) THEN Publish(room, update)
        ELSE HoldBack(room, e, FALSE)

AsUpdates(edits) == [i \in DOMAIN edits |-> Frame("update", {edits[i]})]

\* The edits of a list that are in S, in their order.
Among(list, S) ==
    LET upto[i \in 0 .. Len(list)] ==
            IF i = 0 THEN <<>>
            ELSE IF list[i] \in S THEN Append(upto[i - 1], list[i]) ELSE upto[i - 1]
    IN  upto[Len(list)]

\* Mutant of FlushHeldBack: what was sent is also kept.
FlushAndKeep(s) ==
    IF ~IsWriter(s) \/ ~MayPublish(s) THEN s
    ELSE LET room == AcceptSpeculation(s)
             sealed == {e \in Edits : Seals(room, Frame("update", {e}))}
         IN  [room EXCEPT !.out = @ \o AsUpdates(Among(room.unsent, sealed))]

\* flush_held_back: in the order they were made, and the ones whose own seal
\* failed are kept; an ended session drops them.
FlushHeldBack(s) ==
    IF s.ending # "live" THEN [s EXCEPT !.unsent = <<>>, !.speculated = <<>>]
    ELSE IF s.unsent \o s.speculated = <<>> \/ ~IsWriter(s) THEN s
    ELSE LET room == AcceptSpeculation(s)
             sealed == {e \in Edits : Seals(room, Frame("update", {e}))}
         IN  IF ~MayPublish(room) THEN room
             ELSE [room EXCEPT !.unsent = Among(@, Edits \ sealed),
                               !.out = @ \o AsUpdates(Among(room.unsent, sealed))]

----------------------------------------------------------------------------
(* Leases and windows.                                                      *)

Forget(s, ks) ==
    [s EXCEPT !.holds = @ \ ks,
              !.leases = [k \in Peers |-> IF k \in ks THEN Never ELSE @[k]]]

ExpireLeases(s) == Forget(s, {k \in Peers : s.leases[k] >= Expire})

\* A committed key whose entry names a seat that has left.
Departed(s, k) == s.state[k].role # "none" /\ s.state[k].seat \in s.departed

DropDepartedHolds(s) == Forget(s, {k \in Peers : Departed(s, k)})

\* Mutant of RefreshHostAway: a new state does not restart a running clock.
RefreshKeeping(s, restart) ==
    IF ~HostAbsent(s) THEN [s EXCEPT !.hostAway = Never]
    ELSE IF s.hostAway = Never THEN [s EXCEPT !.hostAway = 0]
    ELSE s

\* Mutant of RefreshHostAway: every look restarts the clock.
RefreshAlways(s, restart) ==
    [s EXCEPT !.hostAway = IF HostAbsent(s) THEN 0 ELSE Never]

\* refresh_host_away
RefreshHostAway(s, restart) ==
    IF ~HostAbsent(s) THEN [s EXCEPT !.hostAway = Never]
    ELSE IF restart \/ s.hostAway = Never THEN [s EXCEPT !.hostAway = 0]
    ELSE s

\* window_passed: the host-away window, then the no-state window.
WindowPassed(s) ==
    IF s.hostAway >= Expire THEN [s EXCEPT !.ending = "hostAway"]
    ELSE IF ~StateHeld(s) /\ s.clock >= Expire
         THEN [s EXCEPT !.ending = "noState"]
    ELSE s

----------------------------------------------------------------------------
(* One frame in, and the driver's calls.                                    *)

\* Mutant of AfterState: the holds of seats that left are not looked at.
AfterStateHolding(s, st) ==
    LET seen == Role(s)
        held == PruneReciprocal(RefreshHostAway([s EXCEPT !.state = st], TRUE))
        noted == NoteLocalEligibility(held, seen)
    IN  AnnounceHolds(
            IF CommitsOurs(noted)
            THEN FlushHeldBack(HandshakeOnce(ResolveSpeculation(noted)))
            ELSE Announce(noted))

\* after_state, with Reader::apply_state before it.
AfterState(s, st) ==
    LET seen == Role(s)
        away == RefreshHostAway([s EXCEPT !.state = st], TRUE)
        held == PruneReciprocal(DropDepartedHolds(away))
        noted == NoteLocalEligibility(held, seen)
    IN  AnnounceHolds(
            IF CommitsOurs(noted)
            THEN FlushHeldBack(HandshakeOnce(ResolveSpeculation(noted)))
            ELSE Announce(noted))

\* apply_content: both replicas are kept current; a request is answered, once
\* for the frame, by a writer, and recorded by anyone.
ApplyContent(s, k, edits, asks) ==
    LET read == [s EXCEPT !.doc = @ \cup edits,
                          !.baseline = IF s.speculating THEN @ \cup edits ELSE @]
        armed == IF asks THEN ArmReciprocal(read, k) ELSE read
    IN  IF asks /\ MayPublish(s) /\ IsWriter(s)
        THEN Publish(armed, Frame("step2", PublicationDoc(read)))
        ELSE armed

\* seat_joined: a peer that holds a state re-sends it while the host is away.
SeatJoinedAt(s, seat) ==
    LET shown == [s EXCEPT !.departed = @ \ {seat}, !.roster = @ \cup {seat},
                           !.holdsAnnounced = Never]
        away == HostSeats(shown) \cap shown.roster = {}
    IN  AnnounceHolds(
            IF away /\ StateHeld(shown) /\ shown.ending = "live"
            THEN [shown EXCEPT !.out = Append(@, Frame("state", {}))]
            ELSE shown)

\* seat_left
SeatLeftAt(s, seat) ==
    RefreshHostAway(
        DropDepartedHolds([s EXCEPT !.roster = @ \ {seat}, !.departed = @ \cup {seat}]),
        FALSE)

\* tick
Ticked(s) ==
    LET passed == RefreshHostAway(ExpireLeases(s), FALSE)
        windows == WindowPassed(passed)
    IN  IF passed.ending # "live" THEN passed
        ELSE IF windows.ending # "live" THEN windows
        ELSE AnnounceHolds(Resync(Reannounce(windows)))

----------------------------------------------------------------------------
Init ==
    /\ peer = [state |-> NoState, ending |-> "live", roster |-> Seated,
               departed |-> {}, doc |-> {}, baseline |-> {},
               speculating |-> FALSE, unsent |-> <<>>, speculated |-> <<>>,
               served |-> {}, pending |-> {}, readiness |-> FALSE, resync |-> FALSE,
               handshaken |-> Never, announced |-> Never, held |-> {},
               holdsSent |-> {}, holdsAnnounced |-> Never, holds |-> {},
               leases |-> [k \in Peers |-> Never], hostAway |-> Never,
               clock |-> 0, out |-> <<>>, fault |-> NoFault]
    /\ sinceTick = 0
    /\ fate = [e \in Edits |-> "unmade"]
    /\ sent = [e \in Edits |-> 0] /\ gone = Never
    /\ spoke = {} /\ received = {}
    /\ faults = 0

\* A call finds peer.out drained; the CSPRNG may fail at any of its frames.
Calls ==
    {[peer EXCEPT !.out = <<>>, !.fault = fault] :
        fault \in {NoFault} \cup IF faults < MaxFaults THEN Faults ELSE {}}

\* The frames of a call that carry an edit.
Updates(out, e) == {i \in DOMAIN out : out[i].kind = "update" /\ out[i].what = {e}}

Return(s, after) ==
    /\ peer' = [after EXCEPT !.fault = NoFault]
    /\ sent' = [e \in Edits |-> sent[e] + Cardinality(Updates(after.out, e))]
    /\ faults' = IF s.fault = NoFault THEN faults ELSE faults + 1

Resolved(st) ==
    [e \in Edits |->
        IF fate[e] # "open" \/ st[Me].role = "none" THEN fate[e]
        ELSE IF st[Me].role = "viewer" THEN "viewer" ELSE "room"]

\* A newer state, the host's own or one that a peer sends again, whose host may
\* have left before this client came.
HearState(st) ==
    /\ \E s \in Calls : Return(s, AfterState(s, st))
    /\ fate' = Resolved(st)
    /\ gone' = IF HostAbsent([peer EXCEPT !.state = st]) THEN 0 ELSE Never
    /\ spoke' = {}
    /\ UNCHANGED <<sinceTick, received>>

\* Content of a committed key that is not a viewer's edit.
HearContent(k, edits, asks) ==
    /\ peer.state[k].role # "none"
    /\ edits # {} => peer.state[k].role # "viewer"
    /\ \E s \in Calls : Return(s, ApplyContent(s, k, edits, asks))
    /\ received' = received \cup edits
    /\ UNCHANGED <<sinceTick, fate, gone, spoke>>

\* note_refusal: a content frame that is refused, whatever the reason.
RefuseContent ==
    /\ peer' = [peer EXCEPT !.out = <<>>, !.resync = TRUE]
    /\ UNCHANGED <<sinceTick, history, faults>>

\* A holds message, which alone renews the lease of its sender.  Neither the
\* reader nor the session looks for its seat.
HearHolds(k) ==
    /\ peer.state[k].role # "none"
    /\ peer' = [peer EXCEPT !.out = <<>>, !.holds = @ \cup {k},
                            !.leases[k] = 0]
    /\ spoke' = spoke \cup {k}
    /\ UNCHANGED <<sinceTick, fate, sent, gone, received, faults>>

\* A closing, which is ignored without a state below it.
HearClosing ==
    /\ StateHeld(peer)
    /\ peer' = [peer EXCEPT !.out = <<>>, !.ending = "closing"]
    /\ UNCHANGED <<sinceTick, history, faults>>

\* insert: an edit, or an index past the end, which is seen only after the
\* baseline was taken.  A viewer's is refused before that.
Insert(e) ==
    /\ fate[e] = "unmade" /\ \A d \in 1 .. e - 1 : fate[d] # "unmade"
    /\ Role(peer) # "viewer"
    /\ \E s \in Calls : Return(s, Inserted(s, e))
    /\ fate' = [fate EXCEPT ![e] = IF IsWriter(peer) THEN "room" ELSE "open"]
    /\ UNCHANGED <<sinceTick, gone, spoke, received>>

InsertPastTheEnd ==
    /\ ~IsWriter(peer) /\ Role(peer) # "viewer"
    /\ peer' = BeginSpeculation([peer EXCEPT !.out = <<>>])
    /\ UNCHANGED <<sinceTick, history, faults>>

\* open, release and hold_only: each says the change that it made.
Hold(paths) ==
    /\ paths # peer.held
    /\ \E s \in Calls : Return(s, AnnounceHolds([s EXCEPT !.held = paths]))
    /\ UNCHANGED <<sinceTick, fate, gone, spoke, received>>

\* Seats are new.  A host's was shown before its state was heard, or left before
\* this client came: a connection is announced before its frames are relayed.
SeatJoined(seat) ==
    /\ seat \notin peer.roster \cup peer.departed \cup HostSeats(peer)
    /\ \E s \in Calls : Return(s, SeatJoinedAt(s, seat))
    /\ UNCHANGED <<sinceTick, fate, gone, spoke, received>>

SeatLeft(seat) ==
    /\ seat \in peer.roster
    /\ peer' = SeatLeftAt([peer EXCEPT !.out = <<>>], seat)
    /\ gone' = IF seat \in HostSeats(peer) THEN 0 ELSE gone
    /\ spoke' = {}
    /\ UNCHANGED <<sinceTick, fate, sent, received, faults>>

Tick ==
    /\ \E s \in Calls : Return(s, Ticked(s))
    /\ sinceTick' = 0
    /\ UNCHANGED <<fate, gone, spoke, received>>

\* Time goes by; the driver ticks once a renewal at least.
Pass ==
    /\ sinceTick < Renew
    /\ sinceTick' = sinceTick + 1
    /\ peer' = [peer EXCEPT !.out = <<>>, !.handshaken = Older(@, Renew),
                   !.announced = Older(@, Renew),
                   !.holdsAnnounced = Older(@, Renew),
                   !.hostAway = Older(@, Expire), !.clock = Older(@, Expire),
                   !.leases = [k \in Peers |-> Older(@[k], Expire + Renew)]]
    /\ gone' = Older(gone, Expire)
    /\ UNCHANGED <<fate, sent, spoke, received, faults>>

Next ==
    \/ \E st \in States : HearState(st)
    \/ \E k \in Peers, edits \in SUBSET Remote, asks \in BOOLEAN :
          HearContent(k, edits, asks)
    \/ RefuseContent
    \/ \E k \in Peers : HearHolds(k)
    \/ \E seat \in Connections : SeatJoined(seat) \/ SeatLeft(seat)
    \/ HearClosing
    \/ \E e \in Edits : Insert(e)
    \/ InsertPastTheEnd
    \/ \E paths \in SUBSET Paths : Hold(paths)
    \/ Tick
    \/ Pass

Spec == Init /\ [][Next]_vars

\* The relay's clock task ticks while the session lives, and time passes.
Fairness == WF_vars(Pass) /\ []<>(sinceTick = 0)
FairSpec == Spec /\ Fairness

----------------------------------------------------------------------------
\* The parts of a session have the types of PeerSession's fields, and ages stay
\* within their windows.
TypeOK ==
    /\ peer.state \in States \cup {NoState}
    /\ peer.ending \in {"live", "closing", "hostAway", "noState"}
    /\ peer.roster \subseteq Connections /\ peer.departed \subseteq Connections
    /\ peer.doc \subseteq Edits \cup Remote
    /\ peer.baseline \subseteq Edits \cup Remote
    /\ peer.unsent \in Seq(Edits) /\ peer.speculated \in Seq(Edits)
    /\ peer.pending \subseteq peer.served /\ peer.served \subseteq Peers
    /\ {peer.handshaken, peer.announced, peer.holdsAnnounced}
          \subseteq Never .. Renew
    /\ peer.held \subseteq Paths /\ peer.holdsSent \subseteq Paths
    /\ peer.holds \subseteq Peers
    /\ peer.leases \in [Peers -> Never .. Expire + Renew]
    /\ peer.hostAway \in Never .. Expire /\ peer.clock \in 0 .. Expire
    /\ sinceTick \in 0 .. Renew

Fated(f) == {e \in Edits : fate[e] = f}

\* The replica holds what the others wrote and every local edit but those made
\* before a state that turned out to make this key a viewer's, and the clean
\* replica beside it lacks just the edits whose role is open (speculation.rs).
RolledBack ==
    /\ peer.doc = received \cup Fated("open") \cup Fated("room")
    /\ peer.speculating => peer.baseline = received \cup Fated("room")

\* No frame ever carries an edit whose role is open, or was resolved to a
\* viewer's: not as an update, nor in the answer to a request, even when the key
\* is made a writer later (speculation.rs, apply_content).
OnlyTheRoomsHistoryLeaves ==
    /\ \A e \in Edits : sent[e] > 0 => fate[e] = "room"
    /\ \A i \in DOMAIN peer.out :
          peer.out[i].kind = "step2" => peer.out[i].what \cap Edits \subseteq Fated("room")

\* While the session lives each local edit is sent once or held back once; a
\* writer's is held back only if it could not be sealed (insert, hold_back and
\* flush_held_back).
EditsGoOutOnce ==
    LET Held(e, list) == Cardinality({i \in DOMAIN list : list[i] = e})
        Kept(e) == Held(e, peer.unsent) + Held(e, peer.speculated)
    IN  peer.ending = "live" =>
        \A e \in Edits :
            /\ sent[e] + Kept(e) = IF fate[e] \in {"open", "room"} THEN 1 ELSE 0
            /\ fate[e] = "open" => sent[e] = 0
            /\ fate[e] = "room" /\ faults = 0 => sent[e] = 1

\* A key is forgotten within a renewal of its lease's end.  One that is committed
\* to a seat which has left holds only what it said since the last state or leaving
\* was heard: whatever it said before is dropped, in whatever order the state, the
\* label and the leaving came, and whatever the label was before (expire_leases,
\* drop_departed_holds).
HoldsAreLeased ==
    \A k \in peer.holds :
        /\ peer.leases[k] \in 0 .. Expire + Renew - 1
        /\ Departed(peer, k) => k \in spoke

Asked(s) == \E i \in DOMAIN s.out : s.out[i].kind = "step1"

\* What this client owes a request for is settled by a request that was queued,
\* or by the end of the eligibility it was owed for: never by an attempt, and
\* never forgotten; and refusals, others' requests and regained roles share one
\* clock, so no request leaves within a renewal of the last (sync_step1,
\* prune_reciprocal, note_local_eligibility, resync).
ObligationsAreKept ==
    [][/\ Asked(peer') => Due(peer.handshaken)
       /\ \/ Asked(peer')
          \/ /\ peer.resync => peer'.resync
             /\ \A k \in peer.pending : IsWriterKey(peer', k) => k \in peer'.pending
             /\ peer.readiness /\ IsWriter(peer') => peer'.readiness]_vars

\* A committed client that owes a request makes it.
OwedRequestsGoOut ==
    Owes(peer) /\ MayPublish(peer) ~> ~Owes(peer) \/ ~MayPublish(peer)

\* A host-away ending comes only when the seat that the newest state names as the
\* host's was away for the whole window since that state (refresh_host_away).
HostAwayIsEarned ==
    [][peer'.ending = "hostAway" /\ peer.ending # "hostAway" => gone >= Expire]_vars

\* Nobody waits for ever: a session without a state, or whose host is away, ends
\* unless a state or the host comes (window_passed).
WaitingEnds ==
    LET Waiting == peer.ending = "live" /\ (~StateHeld(peer) \/ gone > 0)
    IN  Waiting ~> ~Waiting
=============================================================================
