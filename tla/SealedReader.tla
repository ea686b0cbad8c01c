---------------------------- MODULE SealedReader ----------------------------
(***************************************************************************)
(* What one client accepts of the sealed frames it is handed: the Reader   *)
(* of client/src/sealed.rs (the order of its read steps, its counters'     *)
(* marks and their eviction, the editions of the room state) under         *)
(* PeerSession::deliver of client/src/peer/deliver.rs, which takes back a  *)
(* closing that finds no state.  What a session does with a frame it has   *)
(* accepted (handshakes, holds, leases, replicas) is not modelled here.    *)
(*                                                                         *)
(* Frames reach the client in any order, any number of times or never: the *)
(* server may eject and reseat it, peers re-send the state they hold.  A   *)
(* key's frames are its Stream, the counter is the place in it.  Its key   *)
(* id is an index, which two keys may share.  Bytes, encodings and         *)
(* cryptography are abstracted to the one thing that may be wrong with a   *)
(* frame, its flaw.                                                        *)
(***************************************************************************)
EXTENDS Integers, Sequences, FiniteSets

CONSTANTS
    Keys,              \* session keys
    Ids,               \* key ids
    IdOf,              \* the id of a key
    Stream,            \* what each key seals, in the order it does
    Published,         \* the states and closings the host key signed
    UncommittedMarks,  \* UNCOMMITTED_MARKS
    Hosting,           \* this client holds the host key
    MaxCounter         \* bound: counters of frames that are not what they say

Kinds == {"content", "sync", "holds", "announce"}
Roles == {"host", "guest", "viewer"}
Peers == [Keys -> Roles \cup {"none"}]

\* What can be wrong with a frame that parses: it carries the id of a key it is
\* not about, its key did not sign it, it does not open under the room's key, or
\* it opens to no payload.
Flaws == {"id", "signature", "aead", "payload"}

ASSUME ReaderAssumption ==
    /\ IdOf \in [Keys -> Ids]
    /\ Stream \in [Keys -> Seq(Kinds)]
    /\ Published \subseteq
         [kind : {"state", "closing"}, issued : Nat, peers : Peers]
    /\ UncommittedMarks \in Nat
    /\ Hosting \in BOOLEAN
    /\ MaxCounter \in Nat

VARIABLES
    committed,  \* Reader.committed: the role of each key, or "none"
    marks,      \* Reader.marks: id -> highest counter read, 0 for no mark
    order,      \* the marked ids, least recently moved first (Mark.seen)
    issued,     \* Reader.issued
    ended,      \* Reader.ended
    stateHeld,  \* PeerSession.state_issued is some
    \* history
    read,       \* <<key, counter>> accepted and, by the cap, not given up since
    once,       \* <<key, counter>> accepted at any time
    arrived     \* the genuine states handed to this client

counters == <<marks, order, read, once>>
room == <<committed, issued, ended, stateHeld, arrived>>
vars == <<counters, room>>

CommittedIds == {IdOf[k] : k \in {k \in Keys : committed[k] # "none"}}

\* Reader::by_key_id: the keys a frame's id can stand for.
Candidates(id) == {k \in Keys : committed[k] # "none" /\ IdOf[k] = id}

----------------------------------------------------------------------------
(* The verdict on a frame of a session key *)

Frame(kind, k, n, flaw) == [kind |-> kind, key |-> k, n |-> n, flaw |-> flaw]

\* The frames key k sealed, and those that only claim to be its.
Sealed(k) == {Frame(Stream[k][n], k, n, "none") : n \in 1..Len(Stream[k])}
Broken(k) == {Frame(kind, k, n, flaw) :
                kind \in Kinds, n \in 0..MaxCounter, flaw \in Flaws}

\* Mutant of Replayed: the mark itself passes.
ReplayedBelow(id, n) == n < marks[id]

Replayed(id, n) == n <= marks[id]

\* read_announcement: its signer is in the plaintext, so the mark comes last.
AnnouncementVerdict(f) ==
    CASE f.flaw = "aead" -> "bad_aead"
      [] f.flaw = "payload" -> "bad_payload"
      [] f.flaw = "id" -> "uncommitted_key"
      [] f.flaw = "signature" -> "bad_signature"
      [] f.flaw = "none" ->
           IF Replayed(IdOf[f.key], f.n) THEN "replayed_counter" ELSE "ok"

\* read_ordinary for kinds 0 and 3.  A frame whose signer is not among the keys
\* its id names fails the signature of every one of them.
OrdinaryVerdict(f) ==
    LET id == IdOf[f.key] IN
    IF Candidates(id) = {} THEN "uncommitted_key"
    ELSE IF Replayed(id, f.n) THEN "replayed_counter"
    ELSE IF f.flaw \in {"id", "signature"} \/ f.key \notin Candidates(id)
         THEN "bad_signature"
    ELSE IF f.flaw = "aead" THEN "bad_aead"
    ELSE IF f.flaw = "payload" THEN "bad_payload"
    ELSE IF f.kind = "content" /\ committed[f.key] = "viewer"
         THEN "unauthorised_content"
    ELSE "ok"

Verdict(f) ==
    IF f.kind = "announce" THEN AnnouncementVerdict(f) ELSE OrdinaryVerdict(f)

----------------------------------------------------------------------------
(* Marks *)

\* The ids whose mark moved after i's did.
After(o, i) ==
    {o[m] : m \in {m \in 1..Len(o) : \E l \in 1..(m - 1) : o[l] = i}}

\* cap_marks: of the ids no state commits, all but the most recently moved.
Evicted(m, o) ==
    LET loose == {i \in Ids : m[i] > 0} \ CommittedIds IN
    {i \in loose : Cardinality(After(o, i) \cap loose) >= UncommittedMarks}

\* Mark.seen takes the latest stamp.
Touched(id) == Append(SelectSeq(order, LAMBDA i : i # id), id)

\* Reader::mark, its cap included.
Mark(k, n) ==
    LET id    == IdOf[k]
        moved == [marks EXCEPT ![id] = IF @ < n THEN n ELSE @]
        gone  == Evicted(moved, Touched(id))
    IN  /\ marks' = [i \in Ids |-> IF i \in gone THEN 0 ELSE moved[i]]
        /\ order' = SelectSeq(Touched(id), LAMBDA i : i \notin gone)
        /\ read' = {r \in read \cup {<<k, n>>} :
                      IdOf[r[1]] \notin gone \ CommittedIds}
        /\ once' = once \cup {<<k, n>>}

----------------------------------------------------------------------------
(* One frame handed to the client *)

\* A session key's frame is accepted and moves its mark.
Accept(f) ==
    /\ Verdict(f) = "ok"
    /\ Mark(f.key, f.n)
    /\ UNCHANGED room

\* Mutant of Refuse: the counter is noted before the signature is checked.
RefuseMarks(f) ==
    /\ Verdict(f) # "ok"
    /\ IF f.kind # "announce" /\ Verdict(f) = "bad_signature"
       THEN /\ marks' = [marks EXCEPT ![IdOf[f.key]] = f.n]
            /\ order' = Touched(IdOf[f.key])
       ELSE UNCHANGED <<marks, order>>
    /\ UNCHANGED <<read, once, room>>

\* A refused frame moves nothing, whatever step refused it.
Refuse(f) ==
    /\ Verdict(f) # "ok"
    /\ UNCHANGED vars

\* A state above the edition held replaces keys and roles whole (apply_state).
ApplyState(e) ==
    /\ e.kind = "state"
    /\ e.issued > issued
    /\ committed' = e.peers
    /\ issued' = e.issued
    /\ stateHeld' = TRUE
    /\ arrived' = arrived \cup {e}
    /\ UNCHANGED <<counters, ended>>

\* stale_issued, for a state at the edition held (a conflict) or below it.
StaleState(e) ==
    /\ e.kind = "state"
    /\ e.issued <= issued
    /\ arrived' = arrived \cup {e}
    /\ UNCHANGED <<counters, committed, issued, ended, stateHeld>>

\* A closing above the edition held ends the room for a client that has a state.
ApplyClosing(e) ==
    /\ e.kind = "closing"
    /\ e.issued > issued
    /\ stateHeld
    /\ issued' = e.issued
    /\ ended' = TRUE
    /\ UNCHANGED <<counters, committed, stateHeld, arrived>>

\* Mutant of IgnoreClosing: what the closing moved is not put back.
IgnoreClosingKeeps(e) ==
    /\ e.kind = "closing"
    /\ e.issued > issued
    /\ ~stateHeld
    /\ issued' = e.issued
    /\ UNCHANGED <<counters, committed, ended, stateHeld, arrived>>

\* ... and is ignored by one that has none: what reading it moved is put back.
IgnoreClosing(e) ==
    /\ e.kind = "closing"
    /\ e.issued > issued
    /\ ~stateHeld
    /\ UNCHANGED vars

StaleClosing(e) ==
    /\ e.kind = "closing"
    /\ e.issued <= issued
    /\ UNCHANGED vars

\* apply_own: a host folds in the state it has just published, whose edition is
\* above every one it has published or verified (HostProducer::next_issued).
ApplyOwn(e) ==
    /\ Hosting
    /\ ApplyState(e)

----------------------------------------------------------------------------
Init ==
    /\ committed = [k \in Keys |-> "none"]
    /\ marks = [i \in Ids |-> 0]
    /\ order = <<>>
    /\ issued = 0
    /\ ended = FALSE
    /\ stateHeld = FALSE
    /\ read = {}
    /\ once = {}
    /\ arrived = {}

Next ==
    \/ \E k \in Keys : \E f \in Sealed(k) \cup Broken(k) : Accept(f) \/ Refuse(f)
    \/ \E e \in Published :
         \/ ApplyState(e) \/ StaleState(e) \/ ApplyOwn(e)
         \/ ApplyClosing(e) \/ IgnoreClosing(e) \/ StaleClosing(e)

Spec == Init /\ [][Next]_vars

----------------------------------------------------------------------------
TypeOK ==
    /\ committed \in Peers
    /\ marks \in [Ids -> Nat]
    /\ {order[m] : m \in 1..Len(order)} = {i \in Ids : marks[i] > 0}
    /\ Len(order) = Cardinality({i \in Ids : marks[i] > 0})
    /\ issued \in Nat
    /\ ended \in BOOLEAN
    /\ stateHeld \in BOOLEAN
    /\ read \subseteq once
    /\ once \subseteq Keys \X Nat
    /\ arrived \subseteq Published

\* Nothing is read twice: a frame this client accepted is refused when it comes
\* again, announcements and content alike, until the cap gave up its key's mark
\* while no state committed the key.  States that drop the key and commit it
\* again in between change nothing (`mark`, `cap_marks`).
NothingReadTwice ==
    \A k \in Keys : \A f \in Sealed(k) :
        <<k, f.n>> \in read => Verdict(f) # "ok"

\* The other side of it: a frame that comes after everything read of its key is
\* accepted, whatever was forged, refused, evicted or replaced before.  Only a
\* viewer's content is not, and only keys that share an id disturb each other.
InOrderIsRead ==
    \A k \in Keys : \A f \in Sealed(k) :
        /\ committed[k] # "none"
        /\ \A j \in Keys : IdOf[j] = IdOf[k] => j = k
        /\ \A r \in once : r[1] = k => r[2] < f.n
        /\ ~(f.kind = "content" /\ committed[k] = "viewer")
        => Verdict(f) = "ok"

\* In whatever order states, re-sent states and closings come, a client in a
\* room that is not over holds the newest state it was handed, whole: two clients
\* handed the same states of a host agree on keys and roles.  A closing read
\* before any state does not get in the way of the first (deliver's restore).
NewestStateHeld ==
    ~ended =>
        /\ stateHeld <=> \E e \in arrived : e.issued > 0
        /\ \A e \in arrived : e.issued <= issued
        /\ stateHeld => \E e \in arrived :
                           e.issued = issued /\ e.peers = committed

=============================================================================
