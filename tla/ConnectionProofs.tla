-------------------------- MODULE ConnectionProofs --------------------------
(***************************************************************************)
(* The connections of a server, for any number of them and any bounds.     *)
(*                                                                         *)
(* The count: every slot is given back exactly once and the cap is never   *)
(* passed, although the counter is raised before it is compared.  The end: *)
(* the writer's JoinHandle is not polled once its output was taken.  The   *)
(* front of a connection: a page answer is a file that lay inside the page *)
(* root, and no byte behind a request's head is lost, doubled or moved on  *)
(* its way to the frame parser.  The invites: the link that brings a guest *)
(* to a connection seats it in the room the host opened, for every room    *)
(* name and every token.                                                   *)
(***************************************************************************)
EXTENDS Connection, Front, Invites, FiniteSetTheorems, WellFoundedInduction, SequenceTheorems, TLAPS

Outside == {"head", "over", "turned", "done"}

\* The inductive invariant: the two properties need each other, since a
\* connection is admitted by the count and not by the slots.
SlotInv ==
    /\ stage \in [Conns -> Stages]
    /\ CountIsHeld
    /\ SlotsBounded

\* The connections at some of the stages.
LEMMA Finite ==
    /\ IsFiniteSet(Holders) /\ IsFiniteSet(Passing)
    /\ Cardinality(Holders) \in Nat /\ Cardinality(Passing) \in Nat
<1>1. Holders \subseteq Conns /\ Passing \subseteq Conns
  BY DEF Holders, Passing
<1>2. IsFiniteSet(Conns)
  BY ConnectionAssumption
<1>3. IsFiniteSet(Holders) /\ IsFiniteSet(Passing)
  BY <1>1, <1>2, FS_Subset
<1> QED
  BY <1>3, FS_CardinalityType

\* A step that keeps a connection on its side of the door.
LEMMA SameSide ==
    ASSUME SlotInv, NEW c \in Conns, NEW s \in Stages \ Outside,
           stage[c] \notin Outside, Enter(c, s), count' = count
    PROVE  SlotInv'
<1>1. stage' = [stage EXCEPT ![c] = s]
  BY DEF Enter
<1>2. stage' \in [Conns -> Stages]
  BY <1>1 DEF SlotInv
<1>3. Holders' = Holders
  BY <1>1 DEF Holders, SlotInv, Outside
<1>4. Passing' = Passing
  BY <1>1 DEF Passing, SlotInv, Outside
<1> QED
  BY <1>2, <1>3, <1>4 DEF SlotInv, CountIsHeld, SlotsBounded

LEMMA Unmoved ==
    ASSUME SlotInv, stage' = stage, count' = count
    PROVE  SlotInv'
  BY DEF SlotInv, CountIsHeld, SlotsBounded, Holders, Passing

LEMMA ReleaseKeeps ==
    ASSUME SlotInv, NEW c \in Conns, stage[c] \notin Outside, Release(c)
    PROVE  SlotInv'
<1>1. stage' = [stage EXCEPT ![c] = "done"] /\ count' = count - 1
  BY DEF Release, Enter
<1>2. stage' \in [Conns -> Stages]
  BY <1>1 DEF SlotInv, Stages
<1>3. c \in Holders /\ Holders' = Holders \ {c}
  BY <1>1 DEF Holders, SlotInv, Outside
<1>4. Passing' = Passing
  BY <1>1 DEF Passing, SlotInv, Outside
<1>5. Cardinality(Holders') = Cardinality(Holders) - 1
  BY <1>3, Finite, FS_RemoveElement
<1> QED
  BY <1>1, <1>2, <1>4, <1>5, Finite, ConnectionAssumption
  DEF SlotInv, CountIsHeld, SlotsBounded

LEMMA AdmitKeeps ==
    ASSUME SlotInv, NEW c \in Conns, Admit(c)
    PROVE  SlotInv'
<1>1. stage[c] = "head" /\ count' = count + 1
  BY DEF Admit
<1>2. CASE count >= MaxConnections
  <2>1. stage' = [stage EXCEPT ![c] = "over"]
    BY <1>2 DEF Admit, Enter
  <2>2. stage' \in [Conns -> Stages]
    BY <2>1 DEF SlotInv, Stages
  <2>3. Holders' = Holders
    BY <1>1, <2>1 DEF Holders, SlotInv
  <2>4. c \notin Passing /\ Passing' = Passing \cup {c}
    BY <1>1, <2>1 DEF Passing, SlotInv
  <2>5. Cardinality(Passing') = Cardinality(Passing) + 1
    BY <2>4, Finite, FS_AddElement
  <2> QED
    BY <1>1, <2>2, <2>3, <2>5, Finite DEF SlotInv, CountIsHeld, SlotsBounded
<1>3. CASE ~(count >= MaxConnections)
  <2>1. stage' = [stage EXCEPT ![c] = "routed"]
    BY <1>3 DEF Admit, Enter
  <2>2. stage' \in [Conns -> Stages]
    BY <2>1 DEF SlotInv, Stages
  <2>3. c \notin Holders /\ Holders' = Holders \cup {c}
    BY <1>1, <2>1 DEF Holders, SlotInv
  <2>4. Passing' = Passing
    BY <1>1, <2>1 DEF Passing, SlotInv
  <2>5. Cardinality(Holders') = Cardinality(Holders) + 1
    BY <2>3, Finite, FS_AddElement
  <2> QED
    BY <1>1, <1>3, <2>2, <2>4, <2>5, Finite, ConnectionAssumption
    DEF SlotInv, CountIsHeld, SlotsBounded
<1> QED
  BY <1>2, <1>3

LEMMA RefuseFullKeeps ==
    ASSUME SlotInv, NEW c \in Conns, RefuseFull(c)
    PROVE  SlotInv'
<1>1. /\ stage[c] = "over" /\ count' = count - 1
      /\ stage' = [stage EXCEPT ![c] = "turned"]
  BY DEF RefuseFull, Enter
<1>2. stage' \in [Conns -> Stages]
  BY <1>1 DEF SlotInv, Stages
<1>3. Holders' = Holders
  BY <1>1 DEF Holders, SlotInv
<1>4. c \in Passing /\ Passing' = Passing \ {c}
  BY <1>1 DEF Passing, SlotInv
<1>5. Cardinality(Passing') = Cardinality(Passing) - 1
  BY <1>4, Finite, FS_RemoveElement
<1> QED
  BY <1>1, <1>2, <1>3, <1>5, Finite DEF SlotInv, CountIsHeld, SlotsBounded

LEMMA HeadFailsKeeps ==
    ASSUME SlotInv, NEW c \in Conns, HeadFails(c)
    PROVE  SlotInv'
<1>1. stage[c] = "head" /\ stage' = [stage EXCEPT ![c] = "done"] /\ count' = count
  BY DEF HeadFails, Enter
<1>2. stage' \in [Conns -> Stages]
  BY <1>1 DEF SlotInv, Stages
<1>3. Holders' = Holders /\ Passing' = Passing
  BY <1>1 DEF Holders, Passing, SlotInv
<1> QED
  BY <1>1, <1>2, <1>3 DEF SlotInv, CountIsHeld, SlotsBounded

LEMMA SlotStep == SlotInv /\ [Next]_vars => SlotInv'
<1> SUFFICES ASSUME SlotInv, [Next]_vars PROVE SlotInv'
  OBVIOUS
<1>1. ASSUME NEW c \in Conns,
             \/ AnswerPlain(c) \/ Upgrade(c) \/ Refuse(c) \/ Seat(c) \/ Leave(c)
             \/ WriterEnds(c) \/ Poisoned(c) \/ OverBudget(c) \/ StreamEnds(c)
      PROVE  SlotInv'
  <2>1. \E s \in Stages \ Outside : Enter(c, s)
    BY <1>1 DEF AnswerPlain, Upgrade, Refuse, Seat, Leave, WriterEnds, Poisoned,
                OverBudget, StreamEnds, Break, Stages, Outside
  <2>2. stage[c] \notin Outside /\ count' = count
    BY <1>1 DEF AnswerPlain, Upgrade, Refuse, Seat, Leave, WriterEnds, Poisoned,
                OverBudget, StreamEnds, Outside
  <2> QED
    BY <2>1, <2>2, SameSide
<1>2. ASSUME NEW c \in Conns, Heartbeat(c) PROVE SlotInv'
  <2>1. /\ stage[c] \notin Outside /\ count' = count
        /\ stage' = stage \/ Enter(c, "leaving")
    BY <1>2 DEF Heartbeat, Break, Outside
  <2>2. "leaving" \in Stages \ Outside
    BY DEF Stages, Outside
  <2> QED
    BY <2>1, <2>2, SameSide, Unmoved
<1>3. ASSUME NEW c \in Conns, PlainAnswered(c) \/ Joined(c) \/ GraceOver(c)
      PROVE  SlotInv'
  <2>1. stage[c] \notin Outside /\ Release(c)
    BY <1>3 DEF PlainAnswered, Joined, GraceOver, Polls, Outside
  <2> QED
    BY <2>1, ReleaseKeeps
<1>4. ASSUME NEW c \in Conns,
             \/ Take(c) \/ Drained(c) \/ Sent(c) \/ SendFails(c) \/ Pong(c)
             \/ Answer(c) \/ RoomSnapshots(c) \/ RoomSends(c) \/ Dies(c)
      PROVE  SlotInv'
  <2>1. stage' = stage /\ count' = count
    BY <1>4 DEF Take, Drained, Sent, SendFails, Pong, Answer, RoomSnapshots,
                RoomSends, Dies, connection
  <2> QED
    BY <2>1, Unmoved
<1>5. CASE UNCHANGED vars
  BY <1>5, Unmoved DEF vars, connection
<1> QED
  BY <1>1, <1>2, <1>3, <1>4, <1>5, AdmitKeeps, RefuseFullKeeps, HeadFailsKeeps
  DEF Next, TaskStep, WriterStep

LEMMA SlotInit == Init => SlotInv
<1> SUFFICES ASSUME Init PROVE SlotInv
  OBVIOUS
<1>1. stage \in [Conns -> Stages]
  BY DEF Init, Stages
<1>2. Holders = {} /\ Passing = {}
  BY DEF Init, Holders, Passing
<1> QED
  BY <1>1, <1>2, FS_EmptySet, ConnectionAssumption
  DEF Init, SlotInv, CountIsHeld, SlotsBounded

\* net/mod.rs accept and Slot: the cap holds for every interleaving of
\* connections coming and going.
THEOREM CapHolds == Spec => []SlotsBounded
<1>1. SlotInv => SlotsBounded
  BY DEF SlotInv
<1> QED
  BY <1>1, SlotInit, SlotStep, PTL DEF Spec

\* net/mod.rs accept and Slot: every slot is given back exactly once.
THEOREM SlotsAreGivenBack == Spec => []CountIsHeld
<1>1. SlotInv => CountIsHeld
  BY DEF SlotInv
<1> QED
  BY <1>1, SlotInit, SlotStep, PTL DEF Spec

----------------------------------------------------------------------------
\* The turn loop takes the writer's output only when there is one, on its way out,
\* and a writer that is finished stays so.
PollInv ==
    /\ stage \in [Conns -> Stages] /\ writer \in [Conns -> Writers]
    /\ taken \in [Conns -> BOOLEAN]
    /\ \A c \in Conns : taken[c] => /\ writer[c] = "finished"
                                    /\ stage[c] \in {"leaving", "joining", "done"}

LEMMA PollInit == Init => PollInv
  BY DEF Init, PollInv, Stages, Writers

LEMMA PollMoves ==
    ASSUME PollInv, NEW c \in Conns, NEW s \in Stages, NEW w \in Writers, NEW b \in BOOLEAN,
           stage' = [stage EXCEPT ![c] = s], writer' = [writer EXCEPT ![c] = w],
           taken' = [taken EXCEPT ![c] = b],
           b => w = "finished" /\ s \in {"leaving", "joining", "done"}
    PROVE  PollInv'
  BY DEF PollInv

LEMMA PollStep == PollInv /\ [Next]_vars => PollInv'
<1> SUFFICES ASSUME PollInv, [Next]_vars PROVE PollInv'
  OBVIOUS
<1>1. CASE UNCHANGED vars
  BY <1>1 DEF PollInv, vars, connection, transport
<1>2. ASSUME NEW c \in Conns,
             \/ Pong(c) \/ Answer(c) \/ RoomSnapshots(c) \/ RoomSends(c) \/ Dies(c)
      PROVE  PollInv'
  BY <1>2 DEF PollInv, Pong, Answer, RoomSnapshots, RoomSends, Dies, connection, transport
<1>3. ASSUME NEW c \in Conns,
             \/ HeadFails(c) \/ Admit(c) \/ RefuseFull(c) \/ AnswerPlain(c)
             \/ PlainAnswered(c) \/ Refuse(c) \/ Poisoned(c) \/ Leave(c) \/ Joined(c)
             \/ Seat(c) \/ OverBudget(c) \/ StreamEnds(c) \/ Heartbeat(c)
      PROVE  PollInv'
  <2>1. /\ UNCHANGED <<writer, taken>>
        /\ \E s \in Stages : /\ stage' = [stage EXCEPT ![c] = s]
                             /\ taken[c] => s \in {"leaving", "joining", "done"}
    <3>1. stage = [stage EXCEPT ![c] = stage[c]] /\ stage[c] \in Stages
      BY DEF PollInv
    <3>2. CASE Heartbeat(c)
      BY <3>1, <3>2 DEF Heartbeat, Break, Enter, PollInv, Stages
    <3>3. CASE HeadFails(c) \/ Admit(c) \/ RefuseFull(c) \/ AnswerPlain(c) \/ PlainAnswered(c)
      BY <3>3 DEF PollInv, HeadFails, Admit, RefuseFull, AnswerPlain, PlainAnswered, Release,
                  Enter, transport, Stages
    <3>4. CASE \/ Refuse(c) \/ Poisoned(c) \/ Leave(c) \/ Joined(c)
               \/ Seat(c) \/ OverBudget(c) \/ StreamEnds(c)
      BY <3>4 DEF PollInv, Refuse, Poisoned, Leave, Joined, Seat, OverBudget, StreamEnds,
                  Release, Break, Enter, transport, Stages
    <3>5. QED
      BY <1>3, <3>2, <3>3, <3>4
  <2>2. PICK s \in Stages : /\ stage' = [stage EXCEPT ![c] = s]
                            /\ taken[c] => s \in {"leaving", "joining", "done"}
    BY <2>1
  <2>3. writer' = [writer EXCEPT ![c] = writer[c]] /\ taken' = [taken EXCEPT ![c] = taken[c]]
    BY <2>1 DEF PollInv
  <2> QED
    BY <2>2, <2>3, PollMoves DEF PollInv
<1>4. ASSUME NEW c \in Conns, Take(c) \/ Drained(c) \/ Sent(c) \/ SendFails(c)
      PROVE  PollInv'
  <2>1. /\ UNCHANGED <<stage, taken>> /\ writer[c] # "finished"
        /\ \E w \in Writers : writer' = [writer EXCEPT ![c] = w]
    BY <1>4 DEF Take, Drained, Sent, SendFails, connection, Writers
  <2>2. stage' = [stage EXCEPT ![c] = stage[c]] /\ taken' = [taken EXCEPT ![c] = taken[c]]
    BY <2>1 DEF PollInv
  <2> QED
    BY <2>1, <2>2, PollMoves DEF PollInv
<1>5. ASSUME NEW c \in Conns, Upgrade(c) \/ WriterEnds(c) \/ GraceOver(c)
      PROVE  PollInv'
  <2>1. CASE Upgrade(c)
    BY <2>1 DEF Upgrade, Enter, PollInv, Stages, Writers
  <2>2. CASE WriterEnds(c)
    BY <2>2 DEF WriterEnds, Break, Enter, PollInv, Stages
  <2>3. CASE GraceOver(c)
    BY <2>3 DEF GraceOver, Polls, Release, Enter, PollInv, Stages, Writers
  <2> QED
    BY <1>5, <2>1, <2>2, <2>3
<1> QED
  BY <1>1, <1>2, <1>3, <1>4, <1>5 DEF Next, TaskStep, WriterStep

\* net/mod.rs join_writer: however a connection's turn loop, its writer and the
\* grace interleave, the JoinHandle is not polled after its output was taken.
THEOREM PolledOnce == Spec => []NeverPolledTwice
<1>1. PollInv => NeverPolledTwice
  BY DEF PollInv, NeverPolledTwice, Polls
<1> QED
  BY <1>1, PollInit, PollStep, PTL DEF Spec

----------------------------------------------------------------------------
\* A page.  What a file's place is compared with is the root the request resolved,
\* which may not be the root any more: the history has both.
PageInv ==
    /\ disk.name \in Files
    /\ disk \in [root : {"site", "next"}, name : Files, file : [Files -> Entries], changes : Nat]
    /\ DOMAIN page = {"root", "fd", "body"} /\ page.body \in Nat
    /\ page.root \in {"none", "site", "next"}
    /\ \A f \in Files : disk.file[f].place \in {disk.root, page.root} => f \in seen
    /\ step \in {"check", "size", "body"} => page.fd \in Files
    /\ step \in {"size", "body"} => page.fd \in seen
    /\ answer = "file" => step = "done" /\ page.fd \in seen /\ page.body <= MaxPageBytes

LEMMA PageInit == FrontInit => PageInv
<1> SUFFICES ASSUME FrontInit PROVE PageInv
  OBVIOUS
<1>1. /\ disk \in [root : {"site", "next"}, name : Files, file : [Files -> Entries], changes : Nat]
      /\ disk.name \in Files
  BY FrontAssumption DEF FrontInit, Disks
<1>2. \A f \in Files : disk.file[f].place \in Directories
  BY <1>1 DEF Entries
<1>3. \A f \in Files : disk.file[f].place = disk.root => f \in seen
  BY DEF FrontInit, Inside
<1>4. /\ DOMAIN page = {"root", "fd", "body"} /\ page.body = 0 /\ page.root = "none"
      /\ answer = "none" /\ step = "head"
  BY DEF FrontInit, NoPage
<1> QED
  BY <1>1, <1>2, <1>3, <1>4 DEF PageInv, Directories

\* A step that answers no page and leaves the disk and the page as they are.
LEMMA OffPage ==
    ASSUME PageInv, UNCHANGED <<page, disk, seen>>, step' \notin {"check", "size", "body"},
           \/ answer' = answer /\ step' = step
           \/ answer' = answer /\ step # "done"
           \/ answer' # "file"
    PROVE  PageInv'
  BY DEF PageInv

LEMMA DiskKeeps ==
    ASSUME PageInv, DiskChanges
    PROVE  PageInv'
<1> DEFINE T == [root : {"site", "next"}, name : Files, file : [Files -> Entries], changes : Nat]
<1>1. disk \in T /\ disk.changes + 1 \in Nat
  BY DEF PageInv
<1>2. PICK d \in DiskEdits : disk' = [d EXCEPT !.changes = disk.changes + 1]
  BY DEF DiskChanges
<1>3. d \in T
  <2>1. ASSUME NEW r \in {"site", "next"} PROVE [disk EXCEPT !.root = r] \in T
    BY <1>1
  <2>2. ASSUME NEW f \in Files PROVE [disk EXCEPT !.name = f] \in T
    BY <1>1
  <2>3. ASSUME NEW f \in Files, NEW p \in Directories
        PROVE  [disk EXCEPT !.file[f].place = p] \in T
    <3>1. disk.file \in [Files -> Entries] /\ [disk.file[f] EXCEPT !.place = p] \in Entries
      BY <1>1 DEF Entries
    <3> QED
      BY <1>1, <3>1
  <2>4. ASSUME NEW f \in Files, NEW s \in 0..(MaxPageBytes + 2)
        PROVE  [disk EXCEPT !.file[f].size = s] \in T
    <3>1. disk.file \in [Files -> Entries] /\ [disk.file[f] EXCEPT !.size = s] \in Entries
      BY <1>1 DEF Entries
    <3> QED
      BY <1>1, <3>1
  <2> HIDE DEF T
  <2> QED
    BY <2>1, <2>2, <2>3, <2>4 DEF DiskEdits
<1>4. disk' \in T /\ disk'.name \in Files
  BY <1>1, <1>2, <1>3
<1>5. /\ seen' = seen \cup {f \in Files : disk'.file[f].place \in {disk'.root, page.root}}
      /\ UNCHANGED <<page, step, answer>>
  BY DEF DiskChanges
<1> QED
  BY <1>4, <1>5 DEF PageInv

LEMMA PageStepKeeps == PageInv /\ [FrontNext]_frontVars => PageInv'
<1> SUFFICES ASSUME PageInv, [FrontNext]_frontVars PROVE PageInv'
  OBVIOUS
<1>1. CASE UNCHANGED frontVars
  BY <1>1 DEF frontVars, PageInv
<1>2. CASE DiskChanges
  BY <1>2, DiskKeeps
<1>3. CASE ReadHead
  <2>1. /\ UNCHANGED <<page, disk, seen>> /\ step = "head"
        /\ step' \in {"head", "route", "done"} /\ answer' \in {answer, "431"}
    BY <1>3 DEF ReadHead, HeadVerdict
  <2> QED
    BY <2>1, OffPage
<1>4. CASE HeadGone \/ HandshakeReads \/ HandshakeFails \/ FramesRead
  BY <1>4, OffPage DEF HeadGone, HandshakeReads, HandshakeFails, FramesRead
<1>5. CASE Respond
  <2>1. /\ UNCHANGED <<page, disk, seen>> /\ step = "route"
        /\ step' \in {"upgrade", "root", "done"} /\ (answer' = answer \/ answer' # "file")
    BY <1>5 DEF Respond
  <2> QED
    BY <2>1, OffPage
<1>6. CASE Upgraded
  <2>1. /\ UNCHANGED <<page, disk, seen>> /\ step = "upgrade"
        /\ step' \in {"session", "done"} /\ (answer' = answer \/ answer' # "file")
    BY <1>6 DEF Upgraded
  <2> QED
    BY <2>1, OffPage
<1>7. CASE CanonicalRoot
  BY <1>7 DEF CanonicalRoot, PageStep, PageRest, PageInv
<1>8. CASE OpenFile
  BY <1>8 DEF OpenFile, PageStep, PageRest, PageInv
<1>9. CASE CheckWithin \/ CheckSize \/ PageFails
  BY <1>9 DEF CheckWithin, CheckSize, PageFails, NotFoundPage, PageRest, PageInv, Lives
<1>10. CASE ReadBody
  <2>1. /\ step = "body" /\ UNCHANGED <<disk, seen>> /\ page.body \in Nat
        /\ page.fd \in seen /\ page.fd \in Files /\ MaxPageBytes \in Nat
    BY <1>10, FrontAssumption DEF ReadBody, PageRest, PageInv
  <2>2. CASE page' = [page EXCEPT !.body = page.body + 1] /\ UNCHANGED <<step, answer>>
    BY <2>1, <2>2 DEF PageInv
  <2>3. CASE NotFoundPage
    BY <2>1, <2>3 DEF NotFoundPage, PageInv
  <2>4. CASE ~(page.body > MaxPageBytes) /\ step' = "done" /\ answer' = "file" /\ page' = page
    BY <2>1, <2>4 DEF PageInv
  <2> QED
    BY <1>10, <2>2, <2>3, <2>4 DEF ReadBody
<1> QED
  BY <1>1, <1>2, <1>3, <1>4, <1>5, <1>6, <1>7, <1>8, <1>9, <1>10 DEF FrontNext

\* page.rs open_within and net/mod.rs respond_page: what is sent is a file that lay
\* inside the page root during the request, and no more of it than MAX_PAGE_BYTES,
\* however often the root, the links in it and the files change meanwhile.
THEOREM PageHolds == FrontSpec => []PageStaysInside
<1>1. PageInv => PageStaysInside
  BY DEF PageInv, PageStaysInside
<1> QED
  BY <1>1, PageInit, PageStepKeeps, PTL DEF FrontSpec

----------------------------------------------------------------------------
\* The bytes of a request.  Cutting a sequence and putting it together again.

LEMMA Joined2 ==
    ASSUME NEW a \in Seq(Nat), NEW b \in Seq(Nat)
    PROVE  /\ a \o b \in Seq(Nat) /\ Len(a) \in Nat /\ Len(b) \in Nat
           /\ Len(a \o b) = Len(a) + Len(b)
           /\ \A i \in 1 .. Len(a) + Len(b) :
                 (a \o b)[i] = IF i <= Len(a) THEN a[i] ELSE b[i - Len(a)]
  BY ConcatProperties, LenProperties

\* Concatenation, for the provers to take as it is.
Cat(a, b) == a \o b

LEMMA Joined3 ==
    ASSUME NEW a \in Seq(Nat), NEW b \in Seq(Nat), NEW c \in Seq(Nat)
    PROVE  Cat(Cat(a, b), c) = Cat(a, Cat(b, c)) /\ Cat(a, b) \in Seq(Nat)
<1> DEFINE ab == a \o b
           bc == b \o c
           x == ab \o c
           y == a \o bc
           k == Len(a)
           l == Len(b)
           m == Len(c)
<1>1. /\ ab \in Seq(Nat) /\ k \in Nat /\ l \in Nat /\ Len(ab) = k + l
      /\ \A i \in 1 .. k + l : ab[i] = IF i <= k THEN a[i] ELSE b[i - k]
  BY Joined2
<1>2. /\ bc \in Seq(Nat) /\ m \in Nat /\ Len(bc) = l + m
      /\ \A i \in 1 .. l + m : bc[i] = IF i <= l THEN b[i] ELSE c[i - l]
  BY Joined2
<1> HIDE DEF ab, bc
<1>3. /\ x \in Seq(Nat) /\ Len(x) = Len(ab) + m
      /\ \A i \in 1 .. Len(ab) + m : x[i] = IF i <= Len(ab) THEN ab[i] ELSE c[i - Len(ab)]
  BY <1>1, Joined2
<1>4. /\ y \in Seq(Nat) /\ Len(y) = k + Len(bc)
      /\ \A i \in 1 .. k + Len(bc) : y[i] = IF i <= k THEN a[i] ELSE bc[i - k]
  BY <1>2, Joined2
<1> HIDE DEF x, y, k, l, m
<1>5. k \in Nat /\ l \in Nat /\ m \in Nat
  BY <1>1, <1>2
<1>6. /\ Len(x) = k + l + m
      /\ \A i \in 1 .. k + l + m : x[i] = IF i <= k + l THEN ab[i] ELSE c[i - (k + l)]
  BY <1>1, <1>3
<1>7. /\ Len(y) = k + (l + m)
      /\ \A i \in 1 .. k + (l + m) : y[i] = IF i <= k THEN a[i] ELSE bc[i - k]
  BY <1>2, <1>4
<1>8. k + (l + m) = k + l + m
  BY <1>5
<1>9. ASSUME NEW i \in 1 .. k + l + m PROVE x[i] = y[i]
  <2>1. /\ i \in Nat /\ i \in 1 .. k + (l + m)
        /\ i <= k => i <= k + l /\ i \in 1 .. k + l
        /\ ~(i <= k) => i - k \in 1 .. l + m /\ (i <= k + l <=> i - k <= l)
        /\ i <= k + l => i \in 1 .. k + l
        /\ (i - k) - l = i - (k + l)
    BY <1>5, <1>8
  <2>2. x[i] = IF i <= k + l THEN ab[i] ELSE c[i - (k + l)]
    BY <1>6
  <2>3. y[i] = IF i <= k THEN a[i] ELSE bc[i - k]
    BY <2>1, <1>7
  <2>4. CASE i <= k
    BY <2>1, <2>2, <2>3, <2>4, <1>1
  <2>5. CASE ~(i <= k)
    <3>1. i <= k + l => ab[i] = b[i - k]
      BY <2>1, <2>5, <1>1
    <3>2. bc[i - k] = IF i - k <= l THEN b[i - k] ELSE c[(i - k) - l]
      BY <2>1, <2>5, <1>2
    <3> QED
      BY <2>1, <2>2, <2>3, <2>5, <3>1, <3>2
  <2> QED
    BY <2>4, <2>5
<1>10. x = y
  BY <1>3, <1>4, <1>6, <1>7, <1>8, <1>9, SeqEqual
<1> QED
  BY <1>1, <1>10 DEF x, y, ab, bc, Cat

LEMMA Cut ==
    ASSUME NEW s \in Seq(Nat), NEW n \in 0 .. Len(s)
    PROVE  /\ SubSeq(s, 1, n) \in Seq(Nat) /\ SubSeq(s, n + 1, Len(s)) \in Seq(Nat)
           /\ Len(SubSeq(s, 1, n)) = n /\ Len(SubSeq(s, n + 1, Len(s))) = Len(s) - n
           /\ SubSeq(s, 1, n) \o SubSeq(s, n + 1, Len(s)) = s
           /\ \A i \in 1 .. n : SubSeq(s, 1, n)[i] = s[i]
           /\ \A i \in 1 .. Len(s) - n : SubSeq(s, n + 1, Len(s))[i] = s[n + i]
<1> DEFINE a == SubSeq(s, 1, n)
           b == SubSeq(s, n + 1, Len(s))
<1>1. Len(s) \in Nat /\ n \in Nat /\ n <= Len(s) /\ \A i \in 1 .. Len(s) : s[i] \in Nat
  BY LenProperties, ElementOfSeq
<1>2. /\ a \in Seq(Nat) /\ Len(a) = IF 1 <= n THEN n - 1 + 1 ELSE 0
      /\ \A i \in 1 .. n - 1 + 1 : a[i] = s[1 + i - 1]
  <2>1. \A i \in 1 .. n : s[i] \in Nat
    BY <1>1
  <2> QED
    BY <1>1, <2>1, SubSeqProperties
<1>3. /\ b \in Seq(Nat) /\ Len(b) = IF n + 1 <= Len(s) THEN Len(s) - (n + 1) + 1 ELSE 0
      /\ \A i \in 1 .. Len(s) - (n + 1) + 1 : b[i] = s[n + 1 + i - 1]
  <2>1. (\A i \in n + 1 .. Len(s) : s[i] \in Nat) /\ n + 1 \in Int /\ Len(s) \in Int
    BY <1>1
  <2> QED
    BY <2>1, SubSeqProperties
<1> HIDE DEF a, b
<1>4. Len(a) = n /\ \A i \in 1 .. n : a[i] = s[i]
  BY <1>1, <1>2
<1>5. Len(b) = Len(s) - n /\ \A i \in 1 .. Len(s) - n : b[i] = s[n + i]
  BY <1>1, <1>3
<1>6. a \o b = s
  <2>1. /\ a \o b \in Seq(Nat) /\ Len(a \o b) = Len(s)
        /\ \A i \in 1 .. Len(s) : (a \o b)[i] = IF i <= n THEN a[i] ELSE b[i - n]
    <3>1. /\ a \o b \in Seq(Nat) /\ Len(a \o b) = Len(a) + Len(b)
          /\ \A i \in 1 .. Len(a) + Len(b) : (a \o b)[i] = IF i <= Len(a) THEN a[i] ELSE b[i - Len(a)]
      BY <1>2, <1>3, ConcatProperties
    <3>2. Len(a) = n /\ Len(a) + Len(b) = Len(s)
      BY <1>1, <1>4, <1>5
    <3> QED
      BY <3>1, <3>2
  <2>2. \A i \in 1 .. Len(s) : (a \o b)[i] = s[i]
    BY <2>1, <1>1, <1>4, <1>5
  <2> QED
    BY <2>1, <2>2, SeqEqual
<1> QED
  BY <1>2, <1>3, <1>4, <1>5, <1>6 DEF a, b

\* What is ahead of a place, and what is behind it, are known by the length.
LEMMA Apart ==
    ASSUME NEW a \in Seq(Nat), NEW b \in Seq(Nat)
    PROVE  /\ Len(a) \in 0 .. Len(a \o b)
           /\ a = SubSeq(a \o b, 1, Len(a))
           /\ b = SubSeq(a \o b, Len(a) + 1, Len(a \o b))
<1> DEFINE s == a \o b
<1>0. s \in Seq(Nat)
  BY ConcatProperties
<1>1. /\ Len(a) \in Nat /\ Len(b) \in Nat /\ Len(s) = Len(a) + Len(b)
      /\ \A i \in 1 .. Len(a) + Len(b) : s[i] = IF i <= Len(a) THEN a[i] ELSE b[i - Len(a)]
  BY LenProperties, ConcatProperties
<1> HIDE DEF s
<1>2. Len(a) \in 0 .. Len(s) /\ Len(s) - Len(a) = Len(b)
  BY <1>1
<1> DEFINE x == SubSeq(s, 1, Len(a))
           y == SubSeq(s, Len(a) + 1, Len(s))
<1>3. /\ x \in Seq(Nat) /\ y \in Seq(Nat) /\ Len(x) = Len(a) /\ Len(y) = Len(b)
      /\ \A i \in 1 .. Len(a) : x[i] = s[i]
      /\ \A i \in 1 .. Len(b) : y[i] = s[Len(a) + i]
  <2> DEFINE m == Len(a)
  <2>1. m \in 0 .. Len(s) /\ Len(s) - m = Len(b)
    BY <1>2
  <2> HIDE DEF m
  <2>2. /\ SubSeq(s, 1, m) \in Seq(Nat) /\ SubSeq(s, m + 1, Len(s)) \in Seq(Nat)
        /\ Len(SubSeq(s, 1, m)) = m /\ Len(SubSeq(s, m + 1, Len(s))) = Len(s) - m
        /\ \A i \in 1 .. m : SubSeq(s, 1, m)[i] = s[i]
        /\ \A i \in 1 .. Len(s) - m : SubSeq(s, m + 1, Len(s))[i] = s[m + i]
    BY <1>0, <2>1, Cut
  <2> QED
    BY <2>1, <2>2 DEF m
<1> HIDE DEF x, y
<1>4. \A i \in 1 .. Len(a) : x[i] = a[i]
  BY <1>1, <1>3
<1>5. \A i \in 1 .. Len(b) : y[i] = b[i]
  <2> SUFFICES ASSUME NEW i \in 1 .. Len(b) PROVE y[i] = b[i]
    OBVIOUS
  <2> DEFINE m == Len(a)
             n == Len(b)
  <2>1. m \in Nat /\ n \in Nat /\ i \in 1 .. n
    BY <1>1
  <2> HIDE DEF m, n
  <2>2. m + i \in 1 .. m + n /\ ~(m + i <= m) /\ (m + i) - m = i
    BY <2>1
  <2>3. s[m + i] = b[i]
    BY <2>2, <1>1 DEF m, n
  <2> QED
    BY <2>3, <1>3 DEF m
<1>6. x = a /\ y = b
  BY <1>3, <1>4, <1>5, SeqEqual
<1> QED
  BY <1>2, <1>6 DEF x, y, s

LEMMA BytesFacts ==
    ASSUME NEW a \in Nat, NEW n \in Nat
    PROVE  /\ Bytes(a + 1, a + n) \in Seq(Nat) /\ Len(Bytes(a + 1, a + n)) = n
           /\ \A i \in 1 .. n : Bytes(a + 1, a + n)[i] = a + i
<1> DEFINE f == [i \in 1 .. n |-> a + i]
<1>1. Bytes(a + 1, a + n) = f
  <2>1. (IF a + n < a + 1 THEN 0 ELSE (a + n) - (a + 1) + 1) = n
    OBVIOUS
  <2>2. Bytes(a + 1, a + n) = [i \in 1 .. n |-> (a + 1) + i - 1]
    BY <2>1 DEF Bytes
  <2>3. \A i \in 1 .. n : (a + 1) + i - 1 = a + i
    OBVIOUS
  <2> QED
    BY <2>2, <2>3
<1>2. f \in [1 .. n -> Nat] /\ \A i \in 1 .. n : f[i] = a + i
  OBVIOUS
<1> HIDE DEF f
<1>3. f \in Seq(Nat) /\ DOMAIN f = 1 .. n
  BY <1>2
<1>4. Len(f) = n
  BY <1>3, LenProperties
<1> QED
  BY <1>1, <1>2, <1>3, <1>4

LEMMA FromOne ==
    ASSUME NEW n \in Nat
    PROVE  /\ Bytes(1, n) \in Seq(Nat) /\ Len(Bytes(1, n)) = n
           /\ \A i \in 1 .. n : Bytes(1, n)[i] = i
<1>1. 0 + 1 = 1 /\ 0 + n = n /\ \A i \in 1 .. n : 0 + i = i
  OBVIOUS
<1>2. /\ Bytes(0 + 1, 0 + n) \in Seq(Nat) /\ Len(Bytes(0 + 1, 0 + n)) = n
      /\ \A i \in 1 .. n : Bytes(0 + 1, 0 + n)[i] = 0 + i
  BY BytesFacts
<1> QED
  BY <1>1, <1>2

\* A head of end bytes, with what is behind it.
LEMMA HeadApart ==
    ASSUME NEW end \in Nat \ {0}, NEW behind \in Nat, NEW a \in Seq(Nat), NEW b \in Seq(Nat),
           Len(a) = end, a \o b = Bytes(1, end + behind)
    PROVE  a = Bytes(1, end) /\ b = Bytes(end + 1, end + behind)
<1> DEFINE n == end + behind
           s == Bytes(1, n)
           x == Bytes(1, end)
           y == Bytes(end + 1, end + behind)
<1>1. n \in Nat /\ end \in 0 .. n /\ n - end = behind
  OBVIOUS
<1>2. a \o b = s
  OBVIOUS
<1> HIDE DEF n
<1>3. s \in Seq(Nat) /\ Len(s) = n /\ \A i \in 1 .. n : s[i] = i
  BY <1>1, FromOne
<1>4. x \in Seq(Nat) /\ Len(x) = end /\ \A i \in 1 .. end : x[i] = i
  BY FromOne
<1>5. y \in Seq(Nat) /\ Len(y) = behind /\ \A i \in 1 .. behind : y[i] = end + i
  BY BytesFacts
<1> HIDE DEF s, x, y
<1>6. a = SubSeq(s, 1, end) /\ b = SubSeq(s, end + 1, Len(s))
  <2>1. a = SubSeq(s, 1, Len(a)) /\ b = SubSeq(s, Len(a) + 1, Len(s))
    BY <1>2, Apart
  <2> QED
    BY <2>1
<1>7. /\ Len(b) = behind /\ \A i \in 1 .. end : a[i] = s[i]
      /\ \A i \in 1 .. behind : b[i] = s[end + i]
  BY <1>1, <1>3, <1>6, Cut
<1>8. \A i \in 1 .. end : i \in 1 .. n
  BY <1>1
<1>9. \A i \in 1 .. behind : end + i \in 1 .. n
  BY <1>1
<1>10. a = x
  BY <1>3, <1>4, <1>7, <1>8, SeqEqual
<1>11. b = y
  <2>1. \A i \in 1 .. behind : b[i] = y[i]
    BY <1>3, <1>5, <1>7, <1>9
  <2> QED
    BY <2>1, <1>5, <1>7, SeqEqual
<1> QED
  BY <1>10, <1>11 DEF x, y

\* The second cut of a sequence, counted from the first.
LEMMA CutTwice ==
    ASSUME NEW s \in Seq(Nat), NEW p \in 0 .. Len(s), NEW n \in 0 .. Len(s) - p
    PROVE  /\ p + n \in 0 .. Len(s)
           /\ SubSeq(SubSeq(s, p + 1, Len(s)), 1, n) \in Seq(Nat)
           /\ SubSeq(SubSeq(s, p + 1, Len(s)), 1, n) \o SubSeq(s, p + n + 1, Len(s))
                = SubSeq(s, p + 1, Len(s))
<1> DEFINE k == Len(s)
           l == SubSeq(s, p + 1, k)
           r == SubSeq(l, n + 1, Len(l))
           t == SubSeq(s, p + n + 1, k)
<1>1. k \in Nat /\ p \in Nat /\ n \in Nat /\ p + n \in 0 .. k /\ k - p \in Nat
  BY LenProperties
<1>2. /\ l \in Seq(Nat) /\ Len(l) = k - p /\ \A i \in 1 .. k - p : l[i] = s[p + i]
  BY Cut
<1>3. t \in Seq(Nat) /\ Len(t) = k - (p + n) /\ \A i \in 1 .. k - (p + n) : t[i] = s[p + n + i]
  BY <1>1, Cut
<1> HIDE DEF l, t, k
<1>4. n \in 0 .. Len(l)
  BY <1>2 DEF k
<1>5. /\ SubSeq(l, 1, n) \in Seq(Nat) /\ SubSeq(l, 1, n) \o r = l
      /\ r \in Seq(Nat) /\ Len(r) = Len(l) - n /\ \A i \in 1 .. Len(l) - n : r[i] = l[n + i]
  BY <1>2, <1>4, Cut
<1> HIDE DEF r
<1>6. Len(r) = Len(t) /\ \A i \in 1 .. Len(r) : r[i] = t[i]
  <2>1. Len(l) - n = k - (p + n)
    BY <1>1, <1>2
  <2> SUFFICES ASSUME NEW i \in 1 .. k - (p + n) PROVE r[i] = t[i]
    BY <2>1, <1>3, <1>5
  <2>2. n + i \in 1 .. k - p /\ p + (n + i) = p + n + i
    BY <1>1
  <2>3. r[i] = l[n + i] /\ l[n + i] = s[p + (n + i)] /\ t[i] = s[p + n + i]
    BY <2>1, <2>2, <1>2, <1>3, <1>5
  <2> QED
    BY <2>2, <2>3
<1>7. r = t
  BY <1>3, <1>5, <1>6, SeqEqual
<1> QED
  BY <1>1, <1>5, <1>7 DEF l, t, k

\* Where the bytes of a request are, at each step.
ByteInv ==
    /\ request.end \in Nat /\ request.behind \in Nat
    /\ unread \in Seq(Nat) /\ buf \in Seq(Nat) /\ tail \in Seq(Nat)
    /\ consumed \in Seq(Nat) /\ parsed \in Seq(Nat)
    /\ stream \in [prefix : Seq(Nat), pos : Nat] /\ stream.pos <= Len(stream.prefix)
    /\ answer = "431" => request.end \notin 1 .. MaxHeadBytes
    /\ step \notin {"head", "done"} => request.end \in 1 .. MaxHeadBytes
    /\ step = "head" => buf \o unread = Sends(request.end, request.behind)
    /\ step \in {"head", "route"} => consumed = <<>>
    /\ step \in {"head", "route", "upgrade"} => parsed = <<>>
    /\ step = "route" => buf = Bytes(1, request.end)
    /\ step \in {"route", "upgrade"} => tail \o unread = Behind
    /\ step = "upgrade" => consumed \o Left = Bytes(1, request.end)
    /\ step = "session" => /\ consumed = Bytes(1, request.end)
                           /\ parsed \o Left \o unread = Behind

\* What is left of the prefix.
LEMMA LeftIs ==
    ASSUME NEW s \in [prefix : Seq(Nat), pos : Nat], s.pos <= Len(s.prefix)
    PROVE  /\ s.prefix \in Seq(Nat) /\ Len(s.prefix) \in Nat /\ s.pos \in 0 .. Len(s.prefix)
           /\ SubSeq(s.prefix, s.pos + 1, Len(s.prefix)) \in Seq(Nat)
           /\ Len(SubSeq(s.prefix, s.pos + 1, Len(s.prefix))) = Len(s.prefix) - s.pos
<1>1. s.prefix \in Seq(Nat) /\ s.pos \in Nat
  OBVIOUS
<1>2. Len(s.prefix) \in Nat /\ s.pos \in 0 .. Len(s.prefix)
  BY <1>1, LenProperties
<1> QED
  BY <1>1, <1>2, Cut

\* A read of the prefixed stream neither loses a byte nor moves one.
LEMMA PolledKeeps ==
    ASSUME ByteInv, NEW most \in Nat, NEW n \in Pieces(most)
    PROVE  /\ Polled(n).bytes \in Seq(Nat) /\ Polled(n).unread \in Seq(Nat)
           /\ Polled(n).stream \in [prefix : Seq(Nat), pos : Nat]
           /\ Polled(n).stream.pos <= Len(Polled(n).stream.prefix)
           /\ LET left == SubSeq(Polled(n).stream.prefix, Polled(n).stream.pos + 1,
                                 Len(Polled(n).stream.prefix))
              IN  /\ Left # NoByte => /\ Polled(n).bytes \o left = Left
                                      /\ Polled(n).unread = unread
                  /\ Left = NoByte => /\ left = NoByte
                                      /\ Polled(n).bytes \o Polled(n).unread = unread
<1>1. /\ stream \in [prefix : Seq(Nat), pos : Nat] /\ stream.pos <= Len(stream.prefix)
      /\ unread \in Seq(Nat)
  BY DEF ByteInv
<1>2. /\ stream.prefix \in Seq(Nat) /\ Len(stream.prefix) \in Nat
      /\ stream.pos \in 0 .. Len(stream.prefix)
      /\ Left \in Seq(Nat) /\ Len(Left) = Len(stream.prefix) - stream.pos
  BY <1>1, LeftIs DEF Left
<1>3. CASE Left # NoByte
  <2>1. n \in 1 .. Len(Left) /\ n \in 0 .. Len(stream.prefix) - stream.pos
    BY <1>2, <1>3 DEF Pieces, Source
  <2>2. /\ Polled(n).bytes = SubSeq(Left, 1, n) /\ Polled(n).unread = unread
        /\ Polled(n).stream = [stream EXCEPT !.pos = stream.pos + n]
    BY <1>3 DEF Polled, Source
  <2>3. /\ Polled(n).stream.prefix = stream.prefix /\ Polled(n).stream.pos = stream.pos + n
        /\ Polled(n).stream = [prefix |-> stream.prefix, pos |-> stream.pos + n]
    BY <1>1, <2>2
  <2> DEFINE s == stream.prefix
             p == stream.pos
  <2>4. s \in Seq(Nat) /\ p \in 0 .. Len(s) /\ n \in 0 .. Len(s) - p
    BY <1>2, <2>1
  <2> HIDE DEF s, p
  <2>5. /\ p + n \in 0 .. Len(s)
        /\ SubSeq(SubSeq(s, p + 1, Len(s)), 1, n) \in Seq(Nat)
        /\ SubSeq(SubSeq(s, p + 1, Len(s)), 1, n) \o SubSeq(s, p + n + 1, Len(s))
                = SubSeq(s, p + 1, Len(s))
    BY <2>4, CutTwice
  <2>6. /\ p + n \in Nat /\ p + n <= Len(s)
        /\ SubSeq(Left, 1, n) \in Seq(Nat)
        /\ SubSeq(Left, 1, n) \o SubSeq(s, p + n + 1, Len(s)) = Left
    <3>1. Left = SubSeq(s, p + 1, Len(s))
      BY DEF Left, s, p
    <3>2. p + n \in Nat /\ p + n <= Len(s)
      BY <2>5, <2>4, LenProperties
    <3> QED
      BY <3>1, <3>2, <2>5
  <2>7. [prefix |-> s, pos |-> p + n] \in [prefix : Seq(Nat), pos : Nat]
    BY <2>4, <2>6
  <2> QED
    BY <1>1, <1>3, <2>2, <2>3, <2>6, <2>7 DEF s, p
<1>4. CASE Left = NoByte
  <2>1. n \in 0 .. Len(unread)
    <3>1. Len(unread) \in Nat /\ Source = unread
      BY <1>1, <1>4, LenProperties DEF Source
    <3> QED
      BY <3>1 DEF Pieces
  <2>2. /\ Polled(n).bytes = SubSeq(unread, 1, n)
        /\ Polled(n).unread = SubSeq(unread, n + 1, Len(unread))
        /\ Polled(n).stream = [stream EXCEPT !.pos = stream.pos]
    BY <1>4 DEF Polled, Source
  <2>3. Polled(n).stream = stream
    BY <1>1, <2>2
  <2>4. /\ SubSeq(unread, 1, n) \in Seq(Nat) /\ SubSeq(unread, n + 1, Len(unread)) \in Seq(Nat)
        /\ SubSeq(unread, 1, n) \o SubSeq(unread, n + 1, Len(unread)) = unread
    BY <1>1, <2>1, Cut
  <2> QED
    BY <1>1, <1>4, <2>2, <2>3, <2>4 DEF Left
<1> QED
  BY <1>3, <1>4

LEMMA ByteInit == FrontInit => ByteInv
<1> SUFFICES ASSUME FrontInit PROVE ByteInv
  OBVIOUS
<1> DEFINE end == request.end
           behind == request.behind
           n == IF end = NoEnd THEN MaxHeadBytes + behind ELSE end + behind
<1>1. end \in Nat /\ behind \in Nat
  BY FrontAssumption DEF FrontInit, HeadsSent
<1>2. n \in Nat
  BY <1>1, FrontAssumption
<1>3. unread = Bytes(1, n) /\ unread = Sends(end, behind)
  BY DEF FrontInit, Sends
<1> HIDE DEF n, end, behind
<1>4. unread \in Seq(Nat)
  BY <1>2, <1>3, FromOne
<1>5. <<>> \in Seq(Nat) /\ <<>> \o unread = unread
  BY <1>4, ConcatEmptySeq
<1>6. stream \in [prefix : Seq(Nat), pos : Nat] /\ stream.pos <= Len(stream.prefix)
  <2>1. stream = [prefix |-> <<>>, pos |-> 0] /\ Len(<<>>) = 0
    BY DEF FrontInit, NoStream, NoByte
  <2> QED
    BY <2>1, <1>5
<1> QED
  BY <1>1, <1>3, <1>4, <1>5, <1>6 DEF FrontInit, ByteInv, NoByte, end, behind

\* A piece of the head, whether it is the last of it, too much or more is to come.
LEMMA ReadHeadKeeps ==
    ASSUME ByteInv, ReadHead
    PROVE  ByteInv'
<1>1. PICK n \in 1 .. ChunkBytes :
        /\ n <= Len(unread)
        /\ LET all == buf \o SubSeq(unread, 1, n)
               v == HeadVerdict(all)
           IN /\ unread' = SubSeq(unread, n + 1, Len(unread))
              /\ buf' = IF v = "ready" THEN SubSeq(all, 1, request.end) ELSE all
              /\ tail' = IF v = "ready" THEN SubSeq(all, request.end + 1, Len(all)) ELSE NoByte
              /\ step' = CASE v = "more" -> "head" [] v = "ready" -> "route" [] OTHER -> "done"
              /\ answer' = IF v = "large" THEN "431" ELSE answer
  BY DEF ReadHead
<1> DEFINE all == buf \o SubSeq(unread, 1, n)
           v == HeadVerdict(all)
           end == request.end
<1>2. /\ step = "head" /\ UNCHANGED <<request, stream, consumed, parsed>>
  BY DEF ReadHead
<1>3. /\ end \in Nat /\ unread \in Seq(Nat) /\ buf \in Seq(Nat) /\ request.behind \in Nat
      /\ buf \o unread = Sends(end, request.behind) /\ consumed = <<>> /\ parsed = <<>>
  BY <1>2 DEF ByteInv
<1>4. n \in 0 .. Len(unread)
  BY <1>1, <1>3, LenProperties, FrontAssumption
<1>5. /\ SubSeq(unread, 1, n) \in Seq(Nat) /\ unread' \in Seq(Nat)
      /\ SubSeq(unread, 1, n) \o unread' = unread
  BY <1>1, <1>3, <1>4, Cut
<1>6. /\ all \in Seq(Nat) /\ Len(all) \in Nat
      /\ all \o unread' = Sends(end, request.behind)
  <2>1. Cat(Cat(buf, SubSeq(unread, 1, n)), unread') = Cat(buf, Cat(SubSeq(unread, 1, n), unread'))
    BY <1>3, <1>5, Joined3
  <2>2. Cat(buf, SubSeq(unread, 1, n)) \in Seq(Nat)
    BY <1>3, <1>5, Joined3
  <2>3. all \in Seq(Nat) /\ all \o unread' = buf \o (SubSeq(unread, 1, n) \o unread')
    BY <2>1, <2>2 DEF Cat
  <2> QED
    BY <2>3, <1>3, <1>5, LenProperties
<1>7. /\ buf' = IF v = "ready" THEN SubSeq(all, 1, end) ELSE all
      /\ tail' = IF v = "ready" THEN SubSeq(all, end + 1, Len(all)) ELSE NoByte
      /\ step' = CASE v = "more" -> "head" [] v = "ready" -> "route" [] OTHER -> "done"
      /\ answer' = IF v = "large" THEN "431" ELSE answer
  BY <1>1
<1> HIDE DEF all
<1>8. /\ v \in {"ready", "large", "more"}
      /\ v = "ready" => end \in 1 .. MaxHeadBytes /\ end \in 0 .. Len(all)
      /\ v = "large" => end \notin 1 .. MaxHeadBytes
  <2>1. Len(all) \in Nat /\ end \in Nat /\ MaxHeadBytes \in Nat
    BY <1>3, <1>6, FrontAssumption
  <2>2. v = IF end # 0 /\ Len(all) >= end
            THEN IF end > MaxHeadBytes THEN "large" ELSE "ready"
            ELSE IF Len(all) > MaxHeadBytes THEN "large" ELSE "more"
    BY DEF HeadVerdict, NoEnd
  <2> HIDE DEF v, end
  <2> QED
    BY <2>1, <2>2
<1> HIDE DEF v
<1>9. CASE v = "ready"
  <2>1. /\ buf' = SubSeq(all, 1, end) /\ tail' = SubSeq(all, end + 1, Len(all))
        /\ step' = "route" /\ answer' = answer
    BY <1>7, <1>9
  <2>2. /\ buf' \in Seq(Nat) /\ tail' \in Seq(Nat) /\ Len(buf') = end /\ buf' \o tail' = all
    BY <1>6, <1>8, <1>9, <2>1, Cut
  <2>3. tail' \o unread' \in Seq(Nat) /\ buf' \o (tail' \o unread') = Bytes(1, end + request.behind)
    <3>1. Sends(end, request.behind) = Bytes(1, end + request.behind)
      BY <1>8, <1>9 DEF Sends, NoEnd
    <3>2. Cat(Cat(buf', tail'), unread') = Cat(buf', Cat(tail', unread')) /\ Cat(tail', unread') \in Seq(Nat)
      BY <1>5, <2>2, Joined3
    <3>3. /\ (buf' \o tail') \o unread' = buf' \o (tail' \o unread')
          /\ tail' \o unread' \in Seq(Nat)
      BY <3>2 DEF Cat
    <3> QED
      BY <1>6, <2>2, <3>1, <3>3
  <2>4. end \in Nat \ {0}
    BY <1>3, <1>8, <1>9
  <2>5. buf' = Bytes(1, end) /\ tail' \o unread' = Bytes(end + 1, end + request.behind)
    BY <1>3, <2>2, <2>3, <2>4, HeadApart
  <2>6. (tail \o unread = Behind)'
    BY <1>2, <2>5 DEF Behind
  <2> QED
    BY <1>2, <1>3, <1>5, <1>8, <1>9, <2>1, <2>2, <2>5, <2>6 DEF ByteInv
<1>10. CASE v \in {"more", "large"}
  <2>1. /\ buf' = all /\ tail' = <<>> /\ <<>> \in Seq(Nat)
        /\ v = "more" => step' = "head" /\ answer' = answer
        /\ v = "large" => step' = "done" /\ answer' = "431"
    BY <1>7, <1>10 DEF NoByte
  <2> QED
    BY <1>2, <1>3, <1>5, <1>6, <1>8, <1>10, <2>1 DEF ByteInv
<1> QED
  BY <1>8, <1>9, <1>10

LEMMA ReadKeeps ==
    ASSUME ByteInv, HandshakeReads \/ FramesRead
    PROVE  ByteInv'
<1>1. PICK n \in Pieces(ParserBytes) :
         /\ stream' = Polled(n).stream /\ unread' = Polled(n).unread
         /\ HandshakeReads => consumed' = consumed \o Polled(n).bytes
         /\ FramesRead => parsed' = parsed \o Polled(n).bytes
  BY DEF HandshakeReads, FramesRead
<1> DEFINE piece == Polled(n).bytes
<1>2. /\ piece \in Seq(Nat) /\ unread' \in Seq(Nat)
      /\ stream' \in [prefix : Seq(Nat), pos : Nat]
      /\ stream'.pos <= Len(stream'.prefix)
      /\ Left # NoByte => piece \o Left' = Left /\ unread' = unread
      /\ Left = NoByte => Left' = NoByte /\ piece \o unread' = unread
  BY <1>1, PolledKeeps, FrontAssumption DEF Left
<1>3. Left' \in Seq(Nat)
  BY <1>2, LeftIs DEF Left
<1>4. /\ stream \in [prefix : Seq(Nat), pos : Nat] /\ stream.pos <= Len(stream.prefix)
      /\ unread \in Seq(Nat) /\ consumed \in Seq(Nat) /\ parsed \in Seq(Nat)
      /\ request.end \in Nat
  BY DEF ByteInv
<1>5. Left \in Seq(Nat)
  BY <1>4, LeftIs DEF Left
<1> HIDE DEF piece
<1>6. CASE HandshakeReads
  <2>1. /\ step = "upgrade" /\ Len(consumed) < request.end /\ consumed' = consumed \o piece
        /\ UNCHANGED <<request, step, buf, tail, parsed, answer>>
    BY <1>1, <1>6 DEF HandshakeReads, piece
  <2>2. consumed \o Left = Bytes(1, request.end)
    BY <2>1 DEF ByteInv
  <2>3. Left # NoByte
    <3> SUFFICES ASSUME Left = <<>> PROVE FALSE
      BY DEF NoByte
    <3>1. consumed = Bytes(1, request.end)
      BY <2>2, <1>4, ConcatEmptySeq
    <3>2. Len(consumed) = request.end
      BY <3>1, <1>4, FromOne
    <3> QED
      BY <3>2, <2>1, <1>4
  <2>4. /\ (consumed \o piece) \o Left' = consumed \o (piece \o Left')
        /\ consumed \o piece \in Seq(Nat)
    <3>1. /\ Cat(Cat(consumed, piece), Left') = Cat(consumed, Cat(piece, Left'))
          /\ Cat(consumed, piece) \in Seq(Nat)
      BY <1>2, <1>3, <1>4, Joined3
    <3> QED
      BY <3>1 DEF Cat
  <2>5. consumed' \o Left' = Bytes(1, request.end) /\ consumed' \in Seq(Nat)
    BY <2>1, <2>2, <2>3, <2>4, <1>2
  <2>6. UNCHANGED unread
    BY <1>2, <2>3
  <2> QED
    BY <1>2, <2>1, <2>5, <2>6 DEF ByteInv, Behind
<1>7. CASE FramesRead
  <2>1. /\ step = "session" /\ parsed' = parsed \o piece
        /\ UNCHANGED <<request, step, buf, tail, consumed, answer>>
    BY <1>1, <1>7 DEF FramesRead, piece
  <2>2. (parsed \o Left) \o unread = Behind
    BY <2>1 DEF ByteInv
  <2>3. parsed \o piece \in Seq(Nat)
    BY <1>2, <1>4, ConcatProperties
  <2>4. ((parsed \o piece) \o Left') \o unread' = (parsed \o Left) \o unread
    <3>1. CASE Left # NoByte
      <4>1. (parsed \o piece) \o Left' = parsed \o (piece \o Left')
        <5>1. Cat(Cat(parsed, piece), Left') = Cat(parsed, Cat(piece, Left'))
          BY <1>2, <1>3, <1>4, Joined3
        <5> QED
          BY <5>1 DEF Cat
      <4> QED
        BY <3>1, <4>1, <1>2
    <3>2. CASE Left = NoByte
      <4>1. (parsed \o piece) \o <<>> = parsed \o piece /\ parsed \o <<>> = parsed
        BY <2>3, <1>4, ConcatEmptySeq
      <4>2. (parsed \o piece) \o unread' = parsed \o (piece \o unread')
        <5>1. Cat(Cat(parsed, piece), unread') = Cat(parsed, Cat(piece, unread'))
          BY <1>2, <1>4, Joined3
        <5> QED
          BY <5>1 DEF Cat
      <4> QED
        BY <3>2, <4>1, <4>2, <1>2 DEF NoByte
    <3> QED
      BY <3>1, <3>2
  <2>5. (parsed \o Left \o unread = Behind)'
    BY <2>1, <2>2, <2>4 DEF Behind
  <2> QED
    BY <1>2, <2>1, <2>3, <2>5 DEF ByteInv
<1> QED
  BY <1>6, <1>7

LEMMA RespondKeeps ==
    ASSUME ByteInv, Respond
    PROVE  ByteInv'
<1>1. /\ step = "route" /\ UNCHANGED <<request, unread, buf, tail, consumed, parsed>>
      /\ \/ /\ step' = "upgrade" /\ answer' = answer /\ stream' = [prefix |-> buf, pos |-> 0]
         \/ step' = "root" /\ UNCHANGED <<answer, stream>>
         \/ step' = "done" /\ answer' # "431" /\ UNCHANGED stream
  <2>1. Route \in {"upgrade", "503", "404", "405", "200", "file"}
    BY DEF Route
  <2> QED
    BY <2>1 DEF Respond
<1>2. /\ buf \in Seq(Nat) /\ buf = Bytes(1, request.end) /\ consumed = <<>>
  BY <1>1 DEF ByteInv
<1>3. CASE step' = "upgrade" /\ answer' = answer /\ stream' = [prefix |-> buf, pos |-> 0]
  <2>1. /\ stream'.prefix = buf /\ stream'.pos = 0
        /\ stream' \in [prefix : Seq(Nat), pos : Nat] /\ stream'.pos <= Len(stream'.prefix)
    BY <1>2, <1>3, LenProperties
  <2>2. Left' = SubSeq(buf, 1, Len(buf))
    BY <2>1 DEF Left
  <2>3. SubSeq(buf, 1, Len(buf)) = buf
    BY <1>2, SubSeqFull
  <2>4. consumed' \o Left' = Bytes(1, request.end)
    BY <1>1, <1>2, <2>2, <2>3, ConcatEmptySeq
  <2>5. Behind' = Behind
    BY <1>1 DEF Behind
  <2> QED
    BY <1>1, <1>3, <2>1, <2>4, <2>5 DEF ByteInv
<1>4. CASE step' \in {"root", "done"} /\ UNCHANGED stream /\ (answer' = answer \/ answer' # "431")
  BY <1>1, <1>4 DEF ByteInv
<1> QED
  BY <1>1, <1>3, <1>4

\* push_back and drop_head: what is left of the prefix is what came with the head.
LEMMA UpgradedKeeps ==
    ASSUME ByteInv, Upgraded
    PROVE  ByteInv'
<1>1. /\ step = "upgrade" /\ UNCHANGED <<request, unread, buf, consumed, parsed>>
      /\ Len(consumed) >= request.end
      /\ \/ Len(consumed) > request.end /\ step' = "done" /\ UNCHANGED <<tail, stream, answer>>
         \/ /\ Len(consumed) = request.end /\ tail' = <<>>
            /\ \/ step' = "done" /\ answer' = "1013" /\ stream' = PushedBack
               \/ step' = "session" /\ answer' = "101" /\ stream' = Dropped(PushedBack)
  <2>1. Len(consumed) \in Nat /\ request.end \in Nat
    BY LenProperties DEF ByteInv
  <2> QED
    BY <2>1 DEF Upgraded, NoByte
<1>2. /\ consumed \in Seq(Nat) /\ tail \in Seq(Nat) /\ unread \in Seq(Nat) /\ request.end \in Nat
      /\ stream \in [prefix : Seq(Nat), pos : Nat] /\ stream.pos <= Len(stream.prefix)
      /\ consumed \o Left = Bytes(1, request.end) /\ tail \o unread = Behind /\ parsed = <<>>
      /\ request.end \in 1 .. MaxHeadBytes
  BY <1>1 DEF ByteInv
<1>3. CASE step' = "done" /\ UNCHANGED <<tail, stream, answer>>
  BY <1>1, <1>3 DEF ByteInv
<1>4. CASE /\ Len(consumed) = request.end /\ tail' = <<>>
           /\ \/ step' = "done" /\ answer' = "1013" /\ stream' = PushedBack
              \/ step' = "session" /\ answer' = "101" /\ stream' = Dropped(PushedBack)
  <2>1. /\ stream.prefix \in Seq(Nat) /\ Len(stream.prefix) \in Nat /\ stream.pos \in Nat
        /\ Left \in Seq(Nat) /\ Len(Left) = Len(stream.prefix) - stream.pos
    BY <1>2, LeftIs DEF Left
  <2>2. Len(Left) = 0
    <3>1. Len(consumed \o Left) = Len(consumed) + Len(Left) /\ Len(Left) \in Nat
      BY <1>2, <2>1, Joined2
    <3>2. Len(Bytes(1, request.end)) = request.end
      BY <1>2, FromOne
    <3> QED
      BY <1>2, <1>4, <3>1, <3>2
  <2>3. stream.pos = Len(stream.prefix)
    BY <2>1, <2>2
  <2>4. consumed = Bytes(1, request.end)
    <3>1. Left = <<>>
      BY <2>1, <2>2, EmptySeq
    <3> QED
      BY <3>1, <1>2, ConcatEmptySeq
  <2> DEFINE q == stream.prefix \o tail
             k == Len(stream.prefix)
  <2>5. /\ q \in Seq(Nat) /\ Len(q) \in Nat /\ k \in 0 .. Len(q)
        /\ SubSeq(q, k + 1, Len(q)) = tail
    BY <1>2, <2>1, Apart, Joined2, LenProperties
  <2>6. PushedBack = [prefix |-> q, pos |-> k]
    <3>1. PushedBack = [stream EXCEPT !.prefix = q] /\ stream.pos = k
      BY <2>3 DEF PushedBack
    <3> HIDE DEF q, k
    <3> QED
      BY <3>1, <1>2
  <2>7. Dropped(PushedBack) = [prefix |-> tail, pos |-> 0]
    <3> HIDE DEF q, k
    <3> QED
      BY <2>5, <2>6 DEF Dropped
  <2>8. <<>> \in Seq(Nat)
    OBVIOUS
  <2>9. CASE step' = "done" /\ answer' = "1013" /\ stream' = PushedBack
    <3> HIDE DEF q, k
    <3>1. stream' \in [prefix : Seq(Nat), pos : Nat] /\ stream'.pos <= Len(stream'.prefix)
      BY <2>5, <2>6, <2>9
    <3> QED
      BY <1>1, <1>4, <2>8, <2>9, <3>1 DEF ByteInv
  <2>10. CASE step' = "session" /\ answer' = "101" /\ stream' = Dropped(PushedBack)
    <3>1. /\ stream'.prefix = tail /\ stream'.pos = 0
          /\ stream' \in [prefix : Seq(Nat), pos : Nat] /\ stream'.pos <= Len(stream'.prefix)
      BY <1>2, <2>7, <2>10, LenProperties
    <3>2. Left' = SubSeq(tail, 1, Len(tail))
      BY <3>1 DEF Left
    <3>3. Left' = tail
      BY <3>2, <1>2, SubSeqFull
    <3>4. parsed' \o Left' = tail
      BY <3>3, <1>1, <1>2, ConcatEmptySeq
    <3>5. (parsed' \o Left') \o unread' = Behind'
      BY <3>4, <1>1, <1>2 DEF Behind
    <3> QED
      BY <1>1, <1>2, <1>4, <2>4, <2>8, <2>10, <3>1, <3>5 DEF ByteInv
  <2> QED
    BY <1>4, <2>9, <2>10
<1> QED
  BY <1>1, <1>3, <1>4

LEMMA ByteStep == ByteInv /\ [FrontNext]_frontVars => ByteInv'
<1> SUFFICES ASSUME ByteInv, [FrontNext]_frontVars PROVE ByteInv'
  OBVIOUS
<1>1. CASE UNCHANGED frontVars \/ DiskChanges
  BY <1>1 DEF frontVars, DiskChanges, ByteInv, Left, Behind
<1>2. CASE HeadGone \/ HandshakeFails
  BY <1>2 DEF HeadGone, HandshakeFails, ByteInv
<1>3. CASE \/ CanonicalRoot \/ OpenFile \/ CheckWithin \/ CheckSize \/ ReadBody \/ PageFails
  <2>1. /\ step \in {"root", "open", "check", "size", "body"}
        /\ step' \in {"open", "check", "size", "body", "done"}
        /\ answer' \in {answer, "404", "file"}
        /\ UNCHANGED <<request, unread, buf, tail, stream, consumed, parsed>>
    <3> USE DEF PageRest, NotFoundPage, PageStep
    <3>1. CASE CanonicalRoot \/ OpenFile
      BY <3>1 DEF CanonicalRoot, OpenFile
    <3>2. CASE CheckWithin \/ CheckSize
      BY <3>2 DEF CheckWithin, CheckSize
    <3>3. CASE ReadBody
      BY <3>3 DEF ReadBody
    <3>4. CASE PageFails
      BY <3>4 DEF PageFails
    <3> QED
      BY <1>3, <3>1, <3>2, <3>3, <3>4
  <2> QED
    BY <2>1 DEF ByteInv
<1> QED
  BY <1>1, <1>2, <1>3, ReadHeadKeeps, ReadKeeps, RespondKeeps, UpgradedKeeps DEF FrontNext

\* net/mod.rs read_http_head, PrefixedStream, and Shared::accept's push_back and
\* drop_head: in whatever pieces a request comes and is read, its head is taken or
\* refused by its length alone, and the frame parser gets what came behind it, every
\* byte once and in order.
THEOREM BytesHold == FrontSpec => []FramesArriveOnce
<1>1. ByteInv => FramesArriveOnce
  BY DEF ByteInv, FramesArriveOnce
<1> QED
  BY <1>1, ByteInit, ByteStep, PTL DEF FrontSpec
----------------------------------------------------------------------------
(* The invites.  A link is text put together by Cat, and each reader takes *)
(* apart again what the host put together.                                 *)

\* Every token of the model.
Tok == {"a", "2", "3", "5", "6", "%", "&", "#", "?", "=", "/", ":", "h", "k", "p",
        "room", "token", "session", "ws", "wss", "http", "https", "A", "B", "C", "D", "E", "F", "G", "H"}
Text == Seq(Tok)
Free(s, c) == \A i \in 1..Len(s) : s[i] # c

LEMMA CatText ==
    ASSUME NEW s \in Text, NEW t \in Text
    PROVE  /\ Cat(s, t) \in Text
           /\ Len(s) \in Nat /\ Len(t) \in Nat /\ Len(Cat(s, t)) = Len(s) + Len(t)
           /\ \A i \in 1..Len(s) : Cat(s, t)[i] = s[i]
           /\ \A i \in 1..Len(t) : Cat(s, t)[Len(s) + i] = t[i]
<1>1. Len(s) \in Nat /\ Len(t) \in Nat
    BY DEF Text
<1>2. Cat(s, t) \in Text /\ Len(Cat(s, t)) = Len(s) + Len(t)
    BY ConcatProperties DEF Cat, Text
<1>3. \A i \in 1..Len(s) : Cat(s, t)[i] = s[i]
    BY <1>1, ConcatProperties DEF Cat, Text
<1>4. \A i \in 1..Len(t) : Cat(s, t)[Len(s) + i] = t[i]
    BY <1>1, ConcatProperties DEF Cat, Text
<1> QED  BY <1>1, <1>2, <1>3, <1>4

LEMMA CatTextAssociates ==
    ASSUME NEW s \in Text, NEW t \in Text, NEW u \in Text
    PROVE  Cat(Cat(s, t), u) = Cat(s, Cat(t, u))
  BY SMT, ConcatAssociative DEF Cat, Text

LEMMA FreeCat ==
    ASSUME NEW s \in Text, NEW t \in Text, NEW c, Free(s, c), Free(t, c)
    PROVE  Free(Cat(s, t), c)
<1> SUFFICES ASSUME NEW i \in 1..Len(Cat(s, t))  PROVE Cat(s, t)[i] # c
    BY DEF Free
<1>0. /\ Len(s) \in Nat /\ Len(t) \in Nat /\ Len(Cat(s, t)) = Len(s) + Len(t)
      /\ \A j \in 1..Len(s) : Cat(s, t)[j] = s[j]
      /\ \A j \in 1..Len(t) : Cat(s, t)[Len(s) + j] = t[j]
    BY CatText
<1>1. CASE i <= Len(s)
  <2>1. i \in 1..Len(s)
      BY <1>0, <1>1
  <2> QED  BY <1>0, <2>1 DEF Free
<1>2. CASE ~(i <= Len(s))
  <2> DEFINE j == i - Len(s)
  <2>1. j \in 1..Len(t) /\ i = Len(s) + j
      BY <1>0, <1>2
  <2>2. Cat(s, t)[Len(s) + j] = t[j]
      BY <1>0, <2>1
  <2> QED  BY <2>1, <2>2 DEF Free
<1> QED  BY <1>1, <1>2

\* The first of some tokens.
LEMMA FirstOfIs ==
    ASSUME NEW s \in Text, NEW cs, NEW i \in 1..Len(s), s[i] \in cs,
           \A j \in 1..Len(s) : j < i => s[j] \notin cs
    PROVE  FirstOf(s, cs) = i
<1> DEFINE places == {j \in DOMAIN s : s[j] \in cs}
<1>1. DOMAIN s = 1..Len(s) /\ Len(s) \in Nat
    BY DEF Text
<1>2. i \in places /\ places \subseteq Nat
    BY <1>1
<1>3. \A j \in places : i <= j
    BY <1>1
<1>4. \A k \in places : (\A j \in places : k <= j) => k = i
    BY <1>2, <1>3
<1> HIDE DEF places
<1>5. (CHOOSE k \in places : \A j \in places : k <= j) = i
    BY <1>2, <1>3, <1>4
<1> QED  BY <1>2, <1>5 DEF FirstOf, places

LEMMA NotAt ==
    ASSUME NEW s \in Text, NEW c, Free(s, c)
    PROVE  At(s, c) = 0 /\ Before(s, c) = s /\ After(s, c) = <<>>
<1>1. DOMAIN s = 1..Len(s)
    BY DEF Text
<1>2. {i \in DOMAIN s : s[i] \in {c}} = {}
    BY <1>1 DEF Free
<1>3. At(s, c) = 0
    BY <1>2 DEF At, FirstOf
<1> QED  BY <1>3 DEF Before, After

LEMMA OneToken ==
    ASSUME NEW S, NEW c \in S
    PROVE  <<c>> \in Seq(S)
  OBVIOUS

(* split_once takes apart what a separator joined. *)
LEMMA SplitsOnce ==
    ASSUME NEW s \in Text, NEW t \in Text, NEW c \in Tok, Free(s, c)
    PROVE  LET u == Cat(s, Cat(<<c>>, t))
           IN u \in Text /\ At(u, c) = Len(s) + 1 /\ Before(u, c) = s /\ After(u, c) = t
<1> DEFINE o == <<c>>
           v == Cat(o, t)
           u == Cat(s, v)
           n == Len(s)
<1>1. o \in Text /\ Len(o) = 1 /\ o[1] = c
  <2>1. o \in Text
      BY OneToken DEF Text
  <2>2. Len(o) = 1 /\ o[1] = c
      OBVIOUS
  <2> QED  BY <2>1, <2>2
<1> HIDE DEF o
<1>2. v \in Text /\ Len(t) \in Nat /\ Len(v) = 1 + Len(t) /\ v[1] = c
      /\ \A i \in 1..Len(t) : v[1 + i] = t[i]
  <2>1. /\ v \in Text /\ Len(t) \in Nat /\ Len(v) = Len(o) + Len(t)
        /\ \A i \in 1..Len(o) : v[i] = o[i]
        /\ \A i \in 1..Len(t) : v[Len(o) + i] = t[i]
      BY <1>1, CatText
  <2>2. 1 \in 1..Len(o)
      BY <1>1
  <2> QED  BY <1>1, <2>1, <2>2
<1> HIDE DEF v
<1>3. /\ u \in Text /\ n \in Nat /\ Len(t) \in Nat /\ Len(u) = n + Len(v)
      /\ \A i \in 1..n : u[i] = s[i]
      /\ \A i \in 1..Len(v) : u[n + i] = v[i]
    BY <1>2, CatText
<1> HIDE DEF u
<1>0. \A i \in 1..n : s[i] # c
    BY DEF Free
<1> HIDE DEF n
<1>4. Len(u) = n + 1 + Len(t) /\ u[n + 1] = c /\ n + 1 \in 1..Len(u)
  <2>1. 1 \in 1..Len(v)
      BY <1>2
  <2>2. u[n + 1] = v[1]
      BY <1>3, <2>1
  <2>3. Len(u) = n + 1 + Len(t) /\ n + 1 \in 1..Len(u)
      BY <1>2, <1>3
  <2> QED  BY <1>2, <2>2, <2>3
<1>5. ASSUME NEW j \in 1..Len(u), j < n + 1  PROVE u[j] \notin {c}
  <2>1. j \in 1..n
      BY <1>3, <1>5
  <2> QED  BY <1>0, <1>3, <2>1
<1>6. At(u, c) = n + 1
    BY <1>3, <1>4, <1>5, FirstOfIs DEF At
<1>7. SubSeq(u, 1, n) = s
  <2>1. SubSeq(u, 1, n) \in Seq(Tok) /\ Len(SubSeq(u, 1, n)) = n
        /\ \A i \in 1..n : SubSeq(u, 1, n)[i] = u[i]
      BY <1>3, <1>4 DEF Text
  <2> QED  BY <1>3, <2>1, SeqEqual DEF Text, n
<1>8. SubSeq(u, n + 1 + 1, Len(u)) = t
  <2> DEFINE w == SubSeq(u, n + 2, Len(u))
  <2>1. w \in Seq(Tok) /\ Len(w) = Len(t) /\ \A i \in 1..Len(t) : w[i] = u[n + 1 + i]
      BY <1>3, <1>4 DEF Text
  <2>2. \A i \in 1..Len(t) : u[n + 1 + i] = v[1 + i]
    <3> TAKE i \in 1..Len(t)
    <3>1. 1 + i \in 1..Len(v) /\ n + (1 + i) = n + 1 + i
        BY <1>2, <1>3
    <3> QED  BY <1>3, <3>1
  <2>3. \A i \in 1..Len(t) : w[i] = t[i]
      BY <1>2, <2>1, <2>2
  <2>4. w = t
      BY <2>1, <2>3, SeqEqual DEF Text
  <2>5. n + 1 + 1 = n + 2
      BY <1>3
  <2> QED  BY <2>4, <2>5
<1>9. At(u, c) # 0 /\ At(u, c) - 1 = n /\ At(u, c) + 1 = n + 1 + 1
    BY <1>3, <1>6
<1>10. Before(u, c) = s
    BY <1>7, <1>9 DEF Before
<1>11. After(u, c) = t
    BY <1>8, <1>9 DEF After
<1> QED  BY <1>3, <1>6, <1>10, <1>11 DEF u, v, o, n

----------------------------------------------------------------------------
(* Percent escapes: what percent_encode writes percent_decode reads back,  *)
(* and it holds none of the characters that separate.                      *)

LEMMA LeastOf ==
    ASSUME NEW T, T \subseteq Nat, T # {}
    PROVE  \E x \in T : \A y \in T : x <= y
<1> DEFINE R == OpToRel(<, Nat)
<1>1. IsWellFoundedOn(R, Nat)
    BY NatLessThanWellFounded
<1>2. \E x \in T : \A y \in T : ~(<<y, x>> \in R)
  <2> HIDE DEF R
  <2> QED  BY <1>1, WFMin
<1>3. PICK x \in T : \A y \in T : ~(<<y, x>> \in R)
    BY <1>2
<1>4. ASSUME NEW y \in T  PROVE x <= y
  <2>1. <<y, x>> \notin R
      BY <1>3
  <2>2. ~(y < x)
      BY <2>1 DEF OpToRel
  <2> QED  BY <2>2
<1> QED  BY <1>4

\* Induction from the end of a text to its beginning.
LEMMA Backward ==
    ASSUME NEW n \in Nat, NEW T, n + 1 \in T,
           \A i \in 1..n : (\A j \in (i + 1)..(n + 1) : j \in T) => i \in T
    PROVE  \A i \in 1..(n + 1) : i \in T
<1> DEFINE F == {m \in Nat : \E i \in 1..(n + 1) : i \notin T /\ m = n + 1 - i}
<1> SUFFICES ASSUME NEW k \in 1..(n + 1), k \notin T  PROVE FALSE
    OBVIOUS
<1>1. n + 1 - k \in F
    OBVIOUS
<1>2. PICK m \in F : \A y \in F : m <= y
    BY <1>1, LeastOf
<1>3. PICK i \in 1..(n + 1) : i \notin T /\ m = n + 1 - i
    BY <1>2
<1>4. i \in 1..n
    BY <1>3
<1>5. ASSUME NEW j \in (i + 1)..(n + 1)  PROVE j \in T
  <2>1. j \in 1..(n + 1) /\ n + 1 - j \in Nat /\ ~(m <= n + 1 - j)
      BY <1>3
  <2> QED  BY <1>2, <2>1
<1> QED  BY <1>3, <1>4, <1>5

\* A function that looks only further on exists.
HasChain(n, piece, next) ==
    \E f : f = [i \in 1..(n + 1) |-> IF i > n THEN <<>> ELSE Cat(piece[i], f[next[i]])]

LEMMA ChainExists ==
    ASSUME NEW n \in Nat, NEW piece, NEW next,
           \A i \in 1..n : next[i] \in (i + 1)..(n + 1)
    PROVE  HasChain(n, piece, next)
<1> DEFINE top == n + 1
           value(f, i) == IF i > n THEN <<>> ELSE Cat(piece[i], f[next[i]])
           T == {m \in 1..top : \E f : f = [i \in 1..top |-> f[i]]
                                       /\ \A i \in m..top : f[i] = value(f, i)}
<1>1. n + 1 \in T
  <2> DEFINE f == [i \in 1..top |-> <<>>]
  <2>1. f = [i \in 1..top |-> f[i]]
      OBVIOUS
  <2>2. \A i \in top..top : f[i] = value(f, i)
      OBVIOUS
  <2> QED  BY <2>1, <2>2
<1>2. ASSUME NEW m \in 1..n, \A j \in (m + 1)..top : j \in T  PROVE m \in T
  <2>1. m + 1 \in T
      BY <1>2
  <2>2. PICK f : f = [i \in 1..top |-> f[i]] /\ \A i \in (m + 1)..top : f[i] = value(f, i)
      BY <2>1
  <2> DEFINE g == [i \in 1..top |-> IF i = m THEN Cat(piece[m], f[next[m]]) ELSE f[i]]
  <2>3. g = [i \in 1..top |-> g[i]]
      OBVIOUS
  <2>4. ASSUME NEW i \in m..top  PROVE g[i] = value(g, i)
    <3>1. CASE i = m
      <4>1. i <= n /\ next[m] \in 1..top /\ next[m] # m
          BY <3>1
      <4>2. g[next[m]] = f[next[m]] /\ g[i] = Cat(piece[m], f[next[m]])
          BY <3>1, <4>1
      <4> HIDE DEF g
      <4>3. ~(i > n)
          BY <4>1
      <4> QED  BY <3>1, <4>2, <4>3
    <3>2. CASE i # m
      <4>1. i \in (m + 1)..top
          BY <3>2
      <4>2. f[i] = value(f, i) /\ g[i] = f[i]
          BY <2>2, <3>2, <4>1
      <4>3. ~(i > n) => next[i] \in 1..top /\ next[i] # m
        <5> HAVE ~(i > n)
        <5>1. i \in 1..n
            OBVIOUS
        <5>2. next[i] \in (i + 1)..(n + 1)
            BY <5>1
        <5> QED  BY <5>1, <5>2
      <4>4. ~(i > n) => g[next[i]] = f[next[i]]
          BY <4>3
      <4> HIDE DEF g
      <4> QED  BY <4>2, <4>4
    <3> QED  BY <3>1, <3>2
  <2> HIDE DEF g
  <2>5. \E h : h = [i \in 1..top |-> h[i]] /\ \A i \in m..top : h[i] = value(h, i)
      BY <2>3, <2>4, Zenon
  <2>6. m \in 1..top
      OBVIOUS
  <2> QED  BY <2>5, <2>6, Zenon
<1> HIDE DEF T
<1>3. 1 \in T
  <2>1. \A i \in 1..n : (\A j \in (i + 1)..(n + 1) : j \in T) => i \in T
      BY <1>2
  <2>2. \A i \in 1..(n + 1) : i \in T
      BY <1>1, <2>1, Backward
  <2> QED  BY <2>2
<1>4. PICK f : f = [i \in 1..top |-> f[i]] /\ \A i \in 1..top : f[i] = value(f, i)
    BY <1>3 DEF T
<1>5. f = [i \in 1..top |-> value(f, i)]
    BY <1>4, Zenon
<1> QED  BY <1>5 DEF HasChain

LEMMA EncodeUnfolds ==
    ASSUME NEW s \in Text
    PROVE  \E f : /\ f[Len(s) + 1] = <<>> /\ f[1] = PercentEncode(s)
                  /\ \A i \in 1..Len(s) : f[i] = Cat(Spelled(s[i]), f[i + 1])
<1> DEFINE n == Len(s)
           whole(f) == [i \in 1..(n + 1) |->
                           IF i > n THEN <<>> ELSE Cat(Spelled(s[i]), f[i + 1])]
           W == CHOOSE f : f = whole(f)
           piece == [i \in 1..n |-> Spelled(s[i])]
           next == [i \in 1..n |-> i + 1]
<1>0. n \in Nat
    BY DEF Text
<1>1. PercentEncode(s) = W[1]
    BY DEF PercentEncode, Cat
<1> HIDE DEF n
<1>2. \A i \in 1..n : next[i] \in (i + 1)..(n + 1)
    BY <1>0
<1>3. \E f : f = [i \in 1..(n + 1) |-> IF i > n THEN <<>> ELSE Cat(piece[i], f[next[i]])]
  <2> HIDE DEF piece, next
  <2>1. HasChain(n, piece, next)
      BY <1>0, <1>2, ChainExists
  <2> QED  BY <2>1 DEF HasChain
<1>4. \A f : [i \in 1..(n + 1) |-> IF i > n THEN <<>> ELSE Cat(piece[i], f[next[i]])] = whole(f)
  <2> TAKE f
  <2>1. ASSUME NEW i \in 1..(n + 1), ~(i > n)
        PROVE  Cat(piece[i], f[next[i]]) = Cat(Spelled(s[i]), f[i + 1])
    <3>1. i \in 1..n
        BY <1>0, <2>1
    <3> QED  BY <3>1
  <2> HIDE DEF piece, next
  <2> QED  BY <2>1, Zenon
<1>5. \E f : f = whole(f)
  <2> HIDE DEF piece, next, whole
  <2> QED  BY <1>3, <1>4
<1>6. W = whole(W)
  <2> HIDE DEF whole
  <2> QED  BY <1>5
<1> HIDE DEF W
<1>7. W[n + 1] = <<>>
  <2>1. n + 1 \in 1..(n + 1) /\ n + 1 > n
      BY <1>0
  <2> QED  BY <1>6, <2>1
<1>8. ASSUME NEW i \in 1..n  PROVE W[i] = Cat(Spelled(s[i]), W[i + 1])
  <2>1. i \in 1..(n + 1) /\ ~(i > n)
      BY <1>0
  <2> QED  BY <1>6, <2>1
<1> QED  BY <1>1, <1>7, <1>8 DEF n

LEMMA DecodeUnfolds ==
    ASSUME NEW s \in Text
    PROVE  \E f : /\ f[Len(s) + 1] = <<>> /\ f[1] = PercentDecode(s)
                  /\ \A i \in 1..Len(s) :
                        f[i] = IF Escaped(s, i)
                               THEN Cat(<<ByteOf(<<s[i + 1], s[i + 2]>>)>>, f[i + 3])
                               ELSE Cat(<<s[i]>>, f[i + 1])
<1> DEFINE n == Len(s)
           value(f, i) == IF Escaped(s, i)
                          THEN Cat(<<ByteOf(<<s[i + 1], s[i + 2]>>)>>, f[i + 3])
                          ELSE Cat(<<s[i]>>, f[i + 1])
           whole(f) == [i \in 1..(n + 1) |-> IF i > n THEN <<>> ELSE value(f, i)]
           W == CHOOSE f : f = whole(f)
           piece == [i \in 1..n |-> IF Escaped(s, i)
                                    THEN <<ByteOf(<<s[i + 1], s[i + 2]>>)>> ELSE <<s[i]>>]
           next == [i \in 1..n |-> IF Escaped(s, i) THEN i + 3 ELSE i + 1]
<1>0. n \in Nat
    BY DEF Text
<1>1. PercentDecode(s) = W[1]
    BY DEF PercentDecode, Cat
<1>2. \A i \in 1..n : next[i] \in (i + 1)..(n + 1)
  <2> TAKE i \in 1..n
  <2>1. Escaped(s, i) => i + 3 \in (i + 1)..(n + 1)
      BY <1>0 DEF Escaped
  <2>2. i + 1 \in (i + 1)..(n + 1)
      BY <1>0
  <2>3. next[i] = IF Escaped(s, i) THEN i + 3 ELSE i + 1
      OBVIOUS
  <2> HIDE DEF next
  <2> QED  BY <2>1, <2>2, <2>3
<1> HIDE DEF n
<1>3. \E f : f = [i \in 1..(n + 1) |-> IF i > n THEN <<>> ELSE Cat(piece[i], f[next[i]])]
  <2> HIDE DEF piece, next
  <2>1. HasChain(n, piece, next)
      BY <1>0, <1>2, ChainExists
  <2> QED  BY <2>1 DEF HasChain
<1>4. \A f : [i \in 1..(n + 1) |-> IF i > n THEN <<>> ELSE Cat(piece[i], f[next[i]])] = whole(f)
  <2> TAKE f
  <2>1. ASSUME NEW i \in 1..(n + 1), ~(i > n)
        PROVE  Cat(piece[i], f[next[i]]) = value(f, i)
    <3>1. i \in 1..n
        BY <1>0, <2>1
    <3>2. /\ piece[i] = IF Escaped(s, i) THEN <<ByteOf(<<s[i + 1], s[i + 2]>>)>> ELSE <<s[i]>>
          /\ next[i] = IF Escaped(s, i) THEN i + 3 ELSE i + 1
        BY <3>1
    <3> HIDE DEF piece, next
    <3> QED  BY <3>2, Zenon
  <2> HIDE DEF piece, next, value
  <2> QED  BY <2>1, Zenon
<1>5. \E f : f = whole(f)
  <2> HIDE DEF piece, next, whole
  <2> QED  BY <1>3, <1>4
<1>6. W = whole(W)
  <2> HIDE DEF whole
  <2> QED  BY <1>5
<1> HIDE DEF W, value
<1>7. W[n + 1] = <<>>
  <2>1. n + 1 \in 1..(n + 1) /\ n + 1 > n
      BY <1>0
  <2> QED  BY <1>6, <2>1
<1>8. ASSUME NEW i \in 1..n  PROVE W[i] = value(W, i)
  <2>1. i \in 1..(n + 1) /\ ~(i > n)
      BY <1>0
  <2> QED  BY <1>6, <2>1
<1> QED  BY <1>1, <1>7, <1>8, Zenon DEF n, value

Wire == Hex \cup {"%"}

LEMMA ThreeTokens ==
    ASSUME NEW S, NEW a \in S, NEW b \in S, NEW c \in S
    PROVE  <<a>> \o <<b, c>> \in Seq(S) /\ <<a>> \o <<b, c>> = <<a, b, c>>
<1>1. <<a>> \in Seq(S) /\ <<b, c>> \in Seq(S)
    OBVIOUS
<1>2. <<a>> \o <<b, c>> \in Seq(S)
    BY <1>1, ConcatProperties
<1>3. <<a>> \o <<b, c>> = <<a, b, c>>
  <2> DEFINE l == <<a>> \o <<b, c>>
             r == <<a, b, c>>
  <2>1. l \in Seq(S) /\ r \in Seq(S) /\ Len(l) = 3 /\ Len(r) = 3
      BY <1>2
  <2>2. l[1] = r[1] /\ l[2] = r[2] /\ l[3] = r[3]
      OBVIOUS
  <2> HIDE DEF l, r
  <2>3. \A i \in 1..Len(l) : l[i] = r[i]
      BY <2>1, <2>2
  <2> QED  BY <2>1, <2>3, SeqEqual DEF l, r
<1> QED  BY <1>2, <1>3

LEMMA EscapesAre ==
    /\ DOMAIN Escapes = {"%", "&", "#"}
    /\ Escapes["%"] = <<"2", "5">> /\ Escapes["&"] = <<"2", "6">> /\ Escapes["#"] = <<"2", "3">>
  BY DEF Escapes

LEMMA ByteOfEscape ==
    ASSUME NEW c \in DOMAIN Escapes
    PROVE  ByteOf(Escapes[c]) = c
<1>1. \A d \in DOMAIN Escapes : Escapes[d] = Escapes[c] => d = c
  <2> SUFFICES ASSUME NEW d \in DOMAIN Escapes, d # c  PROVE Escapes[d][2] # Escapes[c][2]
      OBVIOUS
  <2> QED  BY EscapesAre
<1>2. (CHOOSE d \in DOMAIN Escapes : Escapes[d] = Escapes[c]) = c
    BY <1>1
<1> QED  BY <1>2 DEF ByteOf

LEMMA SpelledIs ==
    ASSUME NEW c \in Characters
    PROVE  /\ Spelled(c) \in Seq(Wire)
           /\ \/ Len(Spelled(c)) = 1 /\ Spelled(c)[1] = c /\ c # "%"
              \/ /\ Len(Spelled(c)) = 3 /\ Spelled(c)[1] = "%"
                 /\ Spelled(c)[2] \in Hex /\ Spelled(c)[3] \in Hex
                 /\ ByteOf(<<Spelled(c)[2], Spelled(c)[3]>>) = c
<1>1. CASE c \in Unreserved
  <2>1. Spelled(c) = <<c>> /\ c \in Wire /\ c # "%"
      BY <1>1 DEF Spelled, Unreserved, Wire, Hex
  <2>2. <<c>> \in Seq(Wire) /\ Len(<<c>>) = 1 /\ <<c>>[1] = c
      BY <2>1, OneToken
  <2> QED  BY <2>1, <2>2
<1>2. CASE c \notin Unreserved
  <2>1. c \in DOMAIN Escapes
      BY <1>2 DEF Characters
  <2>2. PICK x \in Hex, y \in Hex : Escapes[c] = <<x, y>>
      BY <2>1, EscapesAre DEF Hex
  <2>3. Spelled(c) = <<"%">> \o <<x, y>>
      BY <1>2, <2>2 DEF Spelled
  <2>4. "%" \in Wire /\ x \in Wire /\ y \in Wire
      BY DEF Wire
  <2>5. Spelled(c) \in Seq(Wire) /\ Spelled(c) = <<"%", x, y>>
      BY <2>3, <2>4, ThreeTokens
  <2>6. ByteOf(<<x, y>>) = c
      BY <2>1, <2>2, ByteOfEscape
  <2>7. Len(Spelled(c)) = 3 /\ Spelled(c)[1] = "%" /\ Spelled(c)[2] = x /\ Spelled(c)[3] = y
      BY <2>5
  <2> QED  BY <2>5, <2>6, <2>7
<1> QED  BY <1>1, <1>2

LEMMA CatSeq ==
    ASSUME NEW S, NEW s \in Seq(S), NEW t \in Seq(S)
    PROVE  /\ Cat(s, t) \in Seq(S)
           /\ Len(s) \in Nat /\ Len(t) \in Nat /\ Len(Cat(s, t)) = Len(s) + Len(t)
           /\ \A i \in 1..Len(s) : Cat(s, t)[i] = s[i]
           /\ \A i \in 1..Len(t) : Cat(s, t)[Len(s) + i] = t[i]
<1>1. Len(s) \in Nat /\ Len(t) \in Nat
    OBVIOUS
<1>2. Cat(s, t) \in Seq(S) /\ Len(Cat(s, t)) = Len(s) + Len(t)
    BY ConcatProperties DEF Cat
<1>3. \A i \in 1..Len(s) : Cat(s, t)[i] = s[i]
    BY <1>1, ConcatProperties DEF Cat
<1>4. \A i \in 1..Len(t) : Cat(s, t)[Len(s) + i] = t[i]
    BY <1>1, ConcatProperties DEF Cat
<1> QED  BY <1>1, <1>2, <1>3, <1>4

CatSpans(s, t) ==
    /\ Len(s) \in Nat /\ Len(t) \in Nat /\ Len(Cat(s, t)) = Len(s) + Len(t)
    /\ \A i \in 1..Len(s) : Cat(s, t)[i] = s[i]
    /\ \A i \in 1..Len(t) : Cat(s, t)[Len(s) + i] = t[i]

LEMMA CatJoins ==
    ASSUME NEW S, NEW s \in Seq(S), NEW t \in Seq(S)
    PROVE  CatSpans(s, t)
<1>1. Len(s) \in Nat /\ Len(t) \in Nat
    OBVIOUS
<1>2. Len(Cat(s, t)) = Len(s) + Len(t)
    BY CatSeq
<1>3. \A i \in 1..Len(s) : Cat(s, t)[i] = s[i]
    BY CatSeq
<1>4. \A i \in 1..Len(t) : Cat(s, t)[Len(s) + i] = t[i]
    BY CatSeq
<1> QED  BY <1>1, <1>2, <1>3, <1>4 DEF CatSpans

\* What stands behind a piece of a text.
Rest(e, p) == SubSeq(e, p, Len(e))

LEMMA RestIs ==
    ASSUME NEW S, NEW e \in Seq(S), NEW p \in 1..(Len(e) + 1)
    PROVE  /\ Rest(e, p) \in Seq(S) /\ Len(e) \in Nat /\ Len(Rest(e, p)) = Len(e) - p + 1
           /\ \A i \in 1..(Len(e) - p + 1) : Rest(e, p)[i] = e[p + i - 1]
<1>1. Rest(e, p) \in Seq(S) /\ Len(e) \in Nat
    BY DEF Rest
<1>2. Len(Rest(e, p)) = Len(e) - p + 1
    BY DEF Rest
<1>3. \A i \in 1..(Len(e) - p + 1) : Rest(e, p)[i] = e[p + i - 1]
    BY DEF Rest
<1> QED  BY <1>1, <1>2, <1>3

LEMMA RestBehind ==
    ASSUME NEW S, NEW e \in Seq(S), NEW p \in 1..(Len(e) + 1),
           NEW u \in Seq(S), NEW v \in Seq(S), Rest(e, p) = Cat(u, v)
    PROVE  /\ p + Len(u) \in 1..(Len(e) + 1)
           /\ Rest(e, p + Len(u)) = v
           /\ \A k \in 1..Len(u) : e[p + k - 1] = u[k]
           /\ Len(e) + 1 = p + Len(u) + Len(v)
<1> DEFINE w == Rest(e, p)
           x == Rest(e, p + Len(u))
<1>1. /\ Len(u) \in Nat /\ Len(v) \in Nat /\ Len(Cat(u, v)) = Len(u) + Len(v)
      /\ \A i \in 1..Len(u) : Cat(u, v)[i] = u[i]
      /\ \A i \in 1..Len(v) : Cat(u, v)[Len(u) + i] = v[i]
  <2>1. Len(u) \in Nat /\ Len(v) \in Nat
      OBVIOUS
  <2>2. Len(Cat(u, v)) = Len(u) + Len(v)
      BY CatSeq
  <2>3. \A i \in 1..Len(u) : Cat(u, v)[i] = u[i]
      BY CatSeq
  <2>4. \A i \in 1..Len(v) : Cat(u, v)[Len(u) + i] = v[i]
      BY CatSeq
  <2> QED  BY <2>1, <2>2, <2>3, <2>4
<1>2. Len(e) \in Nat /\ p \in Nat
    OBVIOUS
<1>3. Len(w) = Len(e) - p + 1 /\ \A i \in 1..(Len(e) - p + 1) : w[i] = e[p + i - 1]
    BY RestIs
<1>4. w = Cat(u, v)
    OBVIOUS
<1> HIDE DEF w
<1>5. Len(e) + 1 = p + Len(u) + Len(v) /\ p + Len(u) \in 1..(Len(e) + 1)
  <2>1. Len(e) - p + 1 = Len(u) + Len(v)
      BY <1>1, <1>3, <1>4, Zenon
  <2> QED  BY <1>1, <1>2, <2>1
<1>6. ASSUME NEW k \in 1..Len(u)  PROVE e[p + k - 1] = u[k]
  <2>1. k \in 1..(Len(e) - p + 1)
      BY <1>1, <1>2, <1>5
  <2> QED  BY <1>1, <1>3, <1>4, <2>1
<1>7. /\ x \in Seq(S) /\ Len(x) = Len(v)
      /\ \A i \in 1..Len(v) : x[i] = e[p + Len(u) + i - 1]
  <2> DEFINE q == p + Len(u)
  <2>1. q \in 1..(Len(e) + 1) /\ Len(e) - q + 1 = Len(v)
      BY <1>1, <1>2, <1>5
  <2> HIDE DEF q
  <2>2. /\ Rest(e, q) \in Seq(S) /\ Len(Rest(e, q)) = Len(e) - q + 1
        /\ \A i \in 1..(Len(e) - q + 1) : Rest(e, q)[i] = e[q + i - 1]
      BY <2>1, RestIs
  <2> QED  BY <2>1, <2>2 DEF q
<1> HIDE DEF x
<1>8. ASSUME NEW i \in 1..Len(v)  PROVE x[i] = v[i]
  <2> DEFINE j == Len(u) + i
  <2>1. j \in 1..(Len(e) - p + 1) /\ p + j - 1 = p + Len(u) + i - 1
      BY <1>1, <1>2, <1>5
  <2>2. w[j] = e[p + j - 1]
      BY <1>3, <2>1
  <2>3. w[j] = v[i]
      BY <1>1, <1>4
  <2>4. x[i] = e[p + Len(u) + i - 1]
      BY <1>7
  <2> QED  BY <2>1, <2>2, <2>3, <2>4
<1>9. x = v
    BY <1>7, <1>8, SeqEqual
<1> QED  BY <1>5, <1>6, <1>9 DEF x

\* What is encoded is digits and percent signs, and nothing is lost on the way.
LEMMA EncodedIsWire ==
    ASSUME NEW s \in Seq(Characters), NEW f, f[Len(s) + 1] = <<>>,
           \A i \in 1..Len(s) : f[i] = Cat(Spelled(s[i]), f[i + 1])
    PROVE  \A i \in 1..(Len(s) + 1) : f[i] \in Seq(Wire)
<1> DEFINE n == Len(s)
           T == {i \in 1..(n + 1) : f[i] \in Seq(Wire)}
<1>0. n \in Nat /\ \A i \in 1..n : s[i] \in Characters
    OBVIOUS
<1>1. n + 1 \in T
  <2>1. <<>> \in Seq(Wire)
      OBVIOUS
  <2>2. f[n + 1] = <<>> /\ n + 1 \in 1..(n + 1)
      BY <1>0
  <2>3. f[n + 1] \in Seq(Wire)
      BY <2>1, <2>2, Zenon
  <2> QED  BY <2>2, <2>3
<1>2. ASSUME NEW i \in 1..n, \A j \in (i + 1)..(n + 1) : j \in T  PROVE i \in T
  <2>1. i + 1 \in T
      BY <1>0, <1>2
  <2>2. f[i + 1] \in Seq(Wire)
      BY <2>1
  <2>3. Spelled(s[i]) \in Seq(Wire)
      BY <1>0, SpelledIs
  <2>4. Cat(Spelled(s[i]), f[i + 1]) \in Seq(Wire)
      BY <2>2, <2>3, CatSeq
  <2>5. f[i] \in Seq(Wire)
      BY <2>4
  <2>6. i \in 1..(n + 1)
      BY <1>0
  <2> QED  BY <2>5, <2>6
<1> HIDE DEF T
<1>3. \A i \in 1..(n + 1) : i \in T
    BY <1>0, <1>1, <1>2, Backward
<1> QED  BY <1>3 DEF T

LEMMA RestStep ==
    ASSUME NEW S, NEW s \in Seq(S), NEW i \in 1..Len(s)
    PROVE  Rest(s, i) = Cat(<<s[i]>>, Rest(s, i + 1))
<1> DEFINE l == Rest(s, i)
           h == <<s[i]>>
           t == Rest(s, i + 1)
           r == Cat(h, t)
<1>0. Len(s) \in Nat /\ s[i] \in S
    OBVIOUS
<1>1. i \in 1..(Len(s) + 1) /\ i + 1 \in 1..(Len(s) + 1)
    BY <1>0
<1>2. l \in Seq(S) /\ Len(l) = Len(s) - i + 1 /\ \A k \in 1..(Len(s) - i + 1) : l[k] = s[i + k - 1]
    BY <1>1, RestIs
<1>3. t \in Seq(S) /\ Len(t) = Len(s) - (i + 1) + 1
      /\ \A k \in 1..(Len(s) - (i + 1) + 1) : t[k] = s[i + 1 + k - 1]
    BY <1>1, RestIs
<1>4. h \in Seq(S) /\ Len(h) = 1 /\ h[1] = s[i]
    BY <1>0, OneToken
<1> HIDE DEF l, h, t
<1>5. /\ r \in Seq(S) /\ Len(r) = Len(h) + Len(t)
      /\ \A k \in 1..Len(h) : r[k] = h[k]
      /\ \A k \in 1..Len(t) : r[Len(h) + k] = t[k]
  <2>1. r \in Seq(S)
      BY <1>3, <1>4, CatSeq
  <2>2. CatSpans(h, t)
      BY <1>3, <1>4, CatJoins
  <2> QED  BY <2>1, <2>2 DEF CatSpans
<1> HIDE DEF r
<1>6. Len(r) = Len(l)
    BY <1>0, <1>2, <1>3, <1>4, <1>5
<1>7. ASSUME NEW k \in 1..Len(l)  PROVE l[k] = r[k]
  <2>1. CASE k = 1
    <3>1. k \in 1..Len(h) /\ k \in 1..(Len(s) - i + 1) /\ i + k - 1 = i
        BY <1>0, <1>2, <1>4, <2>1
    <3> QED  BY <1>2, <1>4, <1>5, <2>1, <3>1
  <2>2. CASE k # 1
    <3> DEFINE m == k - 1
    <3>1. /\ m \in 1..Len(t) /\ k = Len(h) + m /\ k \in 1..(Len(s) - i + 1)
          /\ m \in 1..(Len(s) - (i + 1) + 1) /\ i + 1 + m - 1 = i + k - 1
      <4>1. Len(h) = 1 /\ Len(l) = Len(s) - i + 1 /\ Len(t) = Len(s) - (i + 1) + 1
          BY <1>2, <1>3, <1>4
      <4> QED  BY <1>0, <2>2, <4>1
    <3>2. r[k] = t[m]
        BY <1>5, <3>1
    <3>3. t[m] = s[i + k - 1]
        BY <1>3, <3>1
    <3>4. l[k] = s[i + k - 1]
        BY <1>2, <3>1
    <3> QED  BY <3>2, <3>3, <3>4
  <2> QED  BY <2>1, <2>2
<1>8. l = r
    BY <1>2, <1>5, <1>6, <1>7, SeqEqual
<1> QED  BY <1>8 DEF l, r, h, t

LEMMA RestAll ==
    ASSUME NEW S, NEW s \in Seq(S)
    PROVE  Rest(s, 1) = s /\ Rest(s, Len(s) + 1) = <<>>
<1>0. Len(s) \in Nat
    OBVIOUS
<1>1. 1 \in 1..(Len(s) + 1) /\ Len(s) + 1 \in 1..(Len(s) + 1)
    BY <1>0
<1>2. Rest(s, 1) \in Seq(S) /\ Len(Rest(s, 1)) = Len(s) - 1 + 1
      /\ \A i \in 1..(Len(s) - 1 + 1) : Rest(s, 1)[i] = s[1 + i - 1]
    BY <1>1, RestIs
<1>3. \A i \in 1..Len(s) : Rest(s, 1)[i] = s[i]
  <2> TAKE i \in 1..Len(s)
  <2>1. i \in 1..(Len(s) - 1 + 1) /\ 1 + i - 1 = i
      BY <1>0
  <2> QED  BY <1>2, <2>1
<1>4. Len(Rest(s, 1)) = Len(s)
    BY <1>0, <1>2
<1>5. Rest(s, 1) = s
    BY <1>2, <1>3, <1>4, SeqEqual
<1>6. Rest(s, Len(s) + 1) = <<>>
  <2>1. Rest(s, Len(s) + 1) \in Seq(S) /\ Len(Rest(s, Len(s) + 1)) = Len(s) - (Len(s) + 1) + 1
      BY <1>1, RestIs
  <2>2. Len(s) - (Len(s) + 1) + 1 = 0
      BY <1>0
  <2> QED  BY <2>1, <2>2, EmptySeq
<1> QED  BY <1>5, <1>6

LEMMA SeqWider ==
    ASSUME NEW S, NEW R, S \subseteq R, NEW s \in Seq(S)
    PROVE  s \in Seq(R)
  BY SeqDef

LEMMA ModelText ==
    /\ \A s \in Seq(Characters) : s \in Text
    /\ \A s \in Seq(Wire) : s \in Text
<1>1. Characters \subseteq Tok
    BY EscapesAre DEF Characters, Unreserved, Tok
<1>2. Wire \subseteq Tok
    BY DEF Wire, Hex, Tok
<1> QED  BY <1>1, <1>2, SeqWider DEF Text

(* percent_decode undoes percent_encode. *)
LEMMA DecodesBack ==
    ASSUME NEW s \in Seq(Characters)
    PROVE  PercentEncode(s) \in Seq(Wire) /\ PercentDecode(PercentEncode(s)) = s
<1> DEFINE n == Len(s)
           e == PercentEncode(s)
<1>0. n \in Nat /\ s \in Text /\ \A i \in 1..n : s[i] \in Characters
    BY ModelText
<1>1. PICK f : /\ f[n + 1] = <<>> /\ f[1] = e
               /\ \A i \in 1..n : f[i] = Cat(Spelled(s[i]), f[i + 1])
    BY <1>0, EncodeUnfolds
<1>2. \A i \in 1..(n + 1) : f[i] \in Seq(Wire)
    BY <1>1, EncodedIsWire
<1>3. e \in Seq(Wire) /\ e \in Text /\ Len(e) \in Nat
  <2>1. f[1] \in Seq(Wire)
      BY <1>0, <1>2
  <2>2. e \in Seq(Wire)
      BY <1>1, <2>1
  <2> QED  BY <2>2, ModelText
<1> HIDE DEF e
<1>4. PICK g : /\ g[Len(e) + 1] = <<>> /\ g[1] = PercentDecode(e)
               /\ \A i \in 1..Len(e) :
                     g[i] = IF Escaped(e, i)
                            THEN Cat(<<ByteOf(<<e[i + 1], e[i + 2]>>)>>, g[i + 3])
                            ELSE Cat(<<e[i]>>, g[i + 1])
    BY <1>3, DecodeUnfolds
<1> DEFINE T == {i \in 1..(n + 1) :
                    \A p \in 1..(Len(e) + 1) : Rest(e, p) = f[i] => g[p] = Rest(s, i)}
<1>5. n + 1 \in T
  <2>1. ASSUME NEW p \in 1..(Len(e) + 1), Rest(e, p) = f[n + 1]  PROVE g[p] = Rest(s, n + 1)
    <3>1. Len(Rest(e, p)) = Len(e) - p + 1
        BY <1>3, RestIs
    <3>2. Len(Rest(e, p)) = 0
        BY <1>1, <2>1
    <3>3. p = Len(e) + 1
        BY <1>3, <3>1, <3>2
    <3>4. g[p] = <<>>
        BY <1>4, <3>3
    <3>5. Rest(s, n + 1) = <<>>
        BY RestAll
    <3> QED  BY <3>4, <3>5
  <2>2. n + 1 \in 1..(n + 1)
      BY <1>0
  <2> QED  BY <2>1, <2>2
<1>6. ASSUME NEW i \in 1..n, \A j \in (i + 1)..(n + 1) : j \in T  PROVE i \in T
  <2>1. i + 1 \in T /\ i + 1 \in 1..(n + 1) /\ i \in 1..(n + 1)
      BY <1>0, <1>6
  <2>2. ASSUME NEW p \in 1..(Len(e) + 1), Rest(e, p) = f[i]  PROVE g[p] = Rest(s, i)
    <3> DEFINE u == Spelled(s[i])
               v == f[i + 1]
    <3>1. Rest(e, p) = Cat(u, v)
        BY <1>1, <2>2
    <3>2. u \in Seq(Wire) /\ v \in Seq(Wire)
        BY <1>0, <1>2, <2>1, SpelledIs
    <3>3. \/ Len(u) = 1 /\ u[1] = s[i] /\ s[i] # "%"
          \/ /\ Len(u) = 3 /\ u[1] = "%" /\ u[2] \in Hex /\ u[3] \in Hex
             /\ ByteOf(<<u[2], u[3]>>) = s[i]
        BY <1>0, SpelledIs
    <3> HIDE DEF u, v
    <3>4. /\ p + Len(u) \in 1..(Len(e) + 1) /\ Rest(e, p + Len(u)) = v
          /\ \A k \in 1..Len(u) : e[p + k - 1] = u[k]
        BY <1>3, <3>1, <3>2, RestBehind
    <3>5. g[p + Len(u)] = Rest(s, i + 1)
        BY <2>1, <3>4 DEF v
    <3>6. g[p] = Cat(<<s[i]>>, g[p + Len(u)])
      <4>1. CASE Len(u) = 1 /\ u[1] = s[i] /\ s[i] # "%"
        <5>1. p \in 1..Len(e) /\ 1 \in 1..Len(u) /\ p + 1 - 1 = p
            BY <1>3, <3>4, <4>1
        <5>2. e[p] = s[i]
            BY <3>4, <4>1, <5>1
        <5>3. ~Escaped(e, p)
            BY <4>1, <5>2 DEF Escaped
        <5> QED  BY <1>4, <4>1, <5>1, <5>2, <5>3
      <4>2. CASE /\ Len(u) = 3 /\ u[1] = "%" /\ u[2] \in Hex /\ u[3] \in Hex
                 /\ ByteOf(<<u[2], u[3]>>) = s[i]
        <5>1. /\ p \in 1..Len(e) /\ p + 2 <= Len(e)
              /\ 1 \in 1..Len(u) /\ 2 \in 1..Len(u) /\ 3 \in 1..Len(u)
              /\ p + 1 - 1 = p /\ p + 2 - 1 = p + 1 /\ p + 3 - 1 = p + 2
            BY <1>3, <3>4, <4>2
        <5>2. e[p] = u[1] /\ e[p + 1] = u[2] /\ e[p + 2] = u[3]
            BY <3>4, <5>1
        <5>3. Escaped(e, p)
            BY <4>2, <5>1, <5>2 DEF Escaped
        <5>4. g[p] = Cat(<<ByteOf(<<e[p + 1], e[p + 2]>>)>>, g[p + 3])
            BY <1>4, <5>1, <5>3
        <5> QED  BY <4>2, <5>2, <5>4
      <4> QED  BY <3>3, <4>1, <4>2
    <3>7. Rest(s, i) = Cat(<<s[i]>>, Rest(s, i + 1))
        BY RestStep
    <3> QED  BY <3>5, <3>6, <3>7
  <2> QED  BY <2>1, <2>2
<1>7. 1 \in T
  <2> HIDE DEF T
  <2>1. \A i \in 1..(n + 1) : i \in T
      BY <1>0, <1>5, <1>6, Backward
  <2> QED  BY <1>0, <2>1
<1>8. 1 \in 1..(Len(e) + 1) /\ Rest(e, 1) = f[1]
  <2>1. Rest(e, 1) = e
      BY <1>3, RestAll
  <2> QED  BY <1>1, <1>3, <2>1
<1>9. g[1] = Rest(s, 1)
    BY <1>7, <1>8
<1>10. Rest(s, 1) = s
    BY RestAll
<1>11. PercentDecode(e) = s
    BY <1>4, <1>9, <1>10
<1> QED  BY <1>3, <1>11 DEF e

\* A text without percent signs is read as it stands.
LEMMA DecodesPlain ==
    ASSUME NEW s \in Text, Free(s, "%")
    PROVE  PercentDecode(s) = s
<1> DEFINE n == Len(s)
<1>0. n \in Nat /\ s \in Seq(Tok)
    BY DEF Text
<1>1. PICK g : /\ g[n + 1] = <<>> /\ g[1] = PercentDecode(s)
               /\ \A i \in 1..n :
                     g[i] = IF Escaped(s, i)
                            THEN Cat(<<ByteOf(<<s[i + 1], s[i + 2]>>)>>, g[i + 3])
                            ELSE Cat(<<s[i]>>, g[i + 1])
    BY DecodeUnfolds
<1> DEFINE T == {i \in 1..(n + 1) : g[i] = Rest(s, i)}
<1>2. n + 1 \in T
  <2>1. Rest(s, n + 1) = <<>>
      BY <1>0, RestAll
  <2> QED  BY <1>0, <1>1, <2>1
<1>3. ASSUME NEW i \in 1..n, \A j \in (i + 1)..(n + 1) : j \in T  PROVE i \in T
  <2>1. i + 1 \in T /\ i \in 1..(n + 1)
      BY <1>0, <1>3
  <2>2. ~Escaped(s, i)
      BY DEF Escaped, Free
  <2>3. g[i] = Cat(<<s[i]>>, g[i + 1])
      BY <1>1, <2>2
  <2>4. Rest(s, i) = Cat(<<s[i]>>, Rest(s, i + 1))
      BY <1>0, RestStep
  <2> QED  BY <2>1, <2>3, <2>4
<1> HIDE DEF T
<1>4. \A i \in 1..(n + 1) : i \in T
    BY <1>0, <1>2, <1>3, Backward
<1>5. g[1] = Rest(s, 1)
    BY <1>0, <1>4 DEF T
<1>6. Rest(s, 1) = s
    BY <1>0, RestAll
<1> QED  BY <1>1, <1>5, <1>6

----------------------------------------------------------------------------
(* Parameters: a list of pairs is read pair by pair. *)

Pair(k, v) == Cat(<<k>>, Cat(<<"=">>, v))
AndThen(p, q) == Cat(p, Cat(<<"&">>, q))
Names == {"room", "token", "k", "h", "a"}
\* What is read of a list: the value of the only pair of a name, or none.
Reads(q, k, x) == Named(q, k) # {} /\ ~Twice(q, k) /\ Value(q, k) = x
Lacks(q, k) == Named(q, k) = {}

LEMMA FreeOne ==
    ASSUME NEW t \in Tok, NEW c, t # c
    PROVE  <<t>> \in Text /\ Free(<<t>>, c)
<1>1. <<t>> \in Text
    BY OneToken DEF Text
<1>2. Len(<<t>>) = 1 /\ <<t>>[1] = t
    OBVIOUS
<1> QED  BY <1>1, <1>2 DEF Free

LEMMA TokensAre ==
    /\ "&" \in Tok /\ "=" \in Tok /\ "#" \in Tok /\ "?" \in Tok /\ "/" \in Tok /\ "%" \in Tok
    /\ \A k \in Names : k \in Tok /\ k \notin {"&", "=", "#", "?", "/", "%"}
  BY DEF Tok, Names

LEMMA PairIs ==
    ASSUME NEW k \in Names, NEW v \in Text, Free(v, "&")
    PROVE  /\ Pair(k, v) \in Text /\ Free(Pair(k, v), "&")
           /\ Before(Pair(k, v), "=") = <<k>> /\ After(Pair(k, v), "=") = v
<1>1. /\ k \in Tok /\ "=" \in Tok /\ k # "&" /\ k # "=" /\ "=" # "&"
    BY TokensAre
<1>2. <<k>> \in Text /\ Free(<<k>>, "&") /\ Free(<<k>>, "=")
    BY <1>1, FreeOne
<1>3. <<"=">> \in Text /\ Free(<<"=">>, "&")
    BY <1>1, FreeOne
<1>4. Cat(<<"=">>, v) \in Text /\ Free(Cat(<<"=">>, v), "&")
    BY <1>3, CatText, FreeCat
<1>5. Pair(k, v) \in Text /\ Free(Pair(k, v), "&")
    BY <1>2, <1>4, CatText, FreeCat DEF Pair
<1>6. Before(Pair(k, v), "=") = <<k>> /\ After(Pair(k, v), "=") = v
    BY <1>1, <1>2, SplitsOnce DEF Pair
<1> QED  BY <1>5, <1>6

LEMMA RestShift ==
    ASSUME NEW s \in Text, NEW t \in Text, NEW i \in 1..(Len(t) + 1)
    PROVE  Rest(Cat(s, t), Len(s) + i) = Rest(t, i)
<1> DEFINE u == Cat(s, t)
           m == Len(s) + i
           l == Rest(u, m)
           r == Rest(t, i)
<1>0. Text = Seq(Tok)
    BY DEF Text
<1>1. u \in Seq(Tok) /\ CatSpans(s, t)
    BY <1>0, CatSeq, CatJoins
<1>2. /\ Len(s) \in Nat /\ Len(t) \in Nat /\ Len(u) = Len(s) + Len(t)
      /\ \A j \in 1..Len(t) : u[Len(s) + j] = t[j]
    BY <1>1 DEF CatSpans
<1> HIDE DEF u
<1>3. m \in 1..(Len(u) + 1) /\ Len(u) - m + 1 = Len(t) - i + 1
    BY <1>2
<1>4. l \in Seq(Tok) /\ Len(l) = Len(u) - m + 1 /\ \A j \in 1..(Len(u) - m + 1) : l[j] = u[m + j - 1]
  <2> HIDE DEF m
  <2> QED  BY <1>1, <1>3, RestIs
<1>5. r \in Seq(Tok) /\ Len(r) = Len(t) - i + 1 /\ \A j \in 1..(Len(t) - i + 1) : r[j] = t[i + j - 1]
    BY <1>0, RestIs
<1>6. Len(l) = Len(r)
    BY <1>3, <1>4, <1>5
<1> HIDE DEF l, r
<1>7. ASSUME NEW j \in 1..Len(l)  PROVE l[j] = r[j]
  <2> DEFINE k == i + j - 1
  <2>1. j \in 1..(Len(t) - i + 1) /\ j \in 1..(Len(u) - m + 1)
      BY <1>5, <1>4, <1>6
  <2>2. k \in 1..Len(t) /\ m + j - 1 = Len(s) + k
      BY <1>2, <2>1
  <2>3. l[j] = u[Len(s) + k]
      BY <1>4, <2>1, <2>2
  <2>4. r[j] = t[k]
      BY <1>5, <2>1
  <2> QED  BY <1>2, <2>2, <2>3, <2>4
<1>8. l = r
    BY <1>4, <1>5, <1>6, <1>7, SeqEqual
<1> QED  BY <1>8 DEF l, r, u

LEMMA AndThenIs ==
    ASSUME NEW p \in Text, NEW q \in Text, Free(p, "&")
    PROVE  /\ AndThen(p, q) \in Text /\ Before(AndThen(p, q), "&") = p
           /\ Len(p) \in Nat /\ Len(q) \in Nat /\ Len(AndThen(p, q)) = Len(p) + 1 + Len(q)
           /\ \A j \in 1..Len(p) : AndThen(p, q)[j] = p[j]
           /\ AndThen(p, q)[Len(p) + 1] = "&"
           /\ \A j \in 1..Len(q) : AndThen(p, q)[Len(p) + 1 + j] = q[j]
           /\ \A i \in 1..(Len(q) + 1) : Rest(AndThen(p, q), Len(p) + 1 + i) = Rest(q, i)
<1> DEFINE o == <<"&">>
           s == Cat(p, o)
           u == Cat(s, q)
<1>0. Text = Seq(Tok)
    BY DEF Text
<1>1. o \in Text /\ Len(o) = 1 /\ o[1] = "&"
  <2>1. "&" \in Tok
      BY TokensAre
  <2>2. o \in Text
      BY <2>1, OneToken DEF Text
  <2> QED  BY <2>2
<1> HIDE DEF o
<1>2. s \in Text /\ CatSpans(p, o)
    BY <1>0, <1>1, CatSeq, CatJoins
<1>3. AndThen(p, q) = u
    BY <1>1, CatTextAssociates DEF AndThen, o
<1>4. /\ Len(p) \in Nat /\ Len(s) = Len(p) + 1
      /\ \A j \in 1..Len(p) : s[j] = p[j]
      /\ s[Len(p) + 1] = "&"
  <2>1. 1 \in 1..Len(o)
      BY <1>1
  <2> QED  BY <1>1, <1>2, <2>1 DEF CatSpans
<1> HIDE DEF s
<1>5. u \in Text /\ CatSpans(s, q)
    BY <1>0, <1>2, CatSeq, CatJoins
<1>6. /\ Len(q) \in Nat /\ Len(u) = Len(p) + 1 + Len(q)
      /\ \A j \in 1..(Len(p) + 1) : u[j] = s[j]
      /\ \A j \in 1..Len(q) : u[Len(p) + 1 + j] = q[j]
    BY <1>4, <1>5 DEF CatSpans
<1>7. /\ \A j \in 1..Len(p) : u[j] = p[j]
      /\ u[Len(p) + 1] = "&"
  <2>1. Len(p) + 1 \in 1..(Len(p) + 1) /\ \A j \in 1..Len(p) : j \in 1..(Len(p) + 1)
      BY <1>4
  <2> QED  BY <1>4, <1>6, <2>1
<1>8. \A i \in 1..(Len(q) + 1) : Rest(u, Len(p) + 1 + i) = Rest(q, i)
  <2> TAKE i \in 1..(Len(q) + 1)
  <2>1. Rest(u, Len(s) + i) = Rest(q, i)
      BY <1>2, RestShift
  <2> QED  BY <1>4, <2>1
<1>9. Before(AndThen(p, q), "&") = p
    BY TokensAre, SplitsOnce DEF AndThen
<1> HIDE DEF u
<1> QED  BY <1>3, <1>4, <1>5, <1>6, <1>7, <1>8, <1>9

LEMMA StartsRange ==
    ASSUME NEW q \in Text
    PROVE  \A i \in Starts(q) : i \in 1..(Len(q) + 1)
<1>1. DOMAIN q = 1..Len(q) /\ Len(q) \in Nat
    BY DEF Text
<1> QED  BY <1>1 DEF Starts

LEMMA PairsThen ==
    ASSUME NEW p \in Text, NEW q \in Text, Free(p, "&")
    PROVE  /\ PairAt(AndThen(p, q), 1) = p
           /\ \A i \in Starts(q) : PairAt(AndThen(p, q), Len(p) + 1 + i) = PairAt(q, i)
<1> DEFINE u == AndThen(p, q)
<1>1. /\ u \in Text /\ Before(u, "&") = p
      /\ \A i \in 1..(Len(q) + 1) : Rest(u, Len(p) + 1 + i) = Rest(q, i)
    BY AndThenIs
<1> HIDE DEF u
<1>2. PairAt(u, 1) = p
  <2>1. Rest(u, 1) = u
      BY <1>1, RestAll DEF Text
  <2> QED  BY <1>1, <2>1 DEF PairAt, Rest
<1>3. \A i \in Starts(q) : PairAt(u, Len(p) + 1 + i) = PairAt(q, i)
  <2> TAKE i \in Starts(q)
  <2>1. i \in 1..(Len(q) + 1)
      BY StartsRange
  <2>2. Rest(u, Len(p) + 1 + i) = Rest(q, i)
      BY <1>1, <2>1
  <2> QED  BY <2>2 DEF PairAt, Rest
<1> QED  BY <1>2, <1>3 DEF u

\* The pairs of a list: its first one, and those of the list behind it.
LEMMA NamedThen ==
    ASSUME NEW p \in Text, NEW q \in Text, Free(p, "&"), NEW k
    PROVE  \A m : m \in Named(AndThen(p, q), k) <=>
                     \/ m = 1 /\ Before(p, "=") = <<k>>
                     \/ \E i \in Named(q, k) : m = Len(p) + 1 + i
<1> DEFINE u == AndThen(p, q)
           n == Len(p)
<1>1. /\ u \in Text /\ Before(u, "&") = p
      /\ n \in Nat /\ Len(q) \in Nat /\ Len(u) = n + 1 + Len(q)
      /\ \A j \in 1..n : u[j] = p[j]
      /\ u[n + 1] = "&"
      /\ \A j \in 1..Len(q) : u[n + 1 + j] = q[j]
      /\ \A i \in 1..(Len(q) + 1) : Rest(u, n + 1 + i) = Rest(q, i)
    BY AndThenIs
<1>2. \A j \in 1..n : p[j] # "&"
    BY DEF Free
<1>3. DOMAIN u = 1..Len(u) /\ DOMAIN q = 1..Len(q)
    BY <1>1 DEF Text
<1> HIDE DEF u, n
<1>4. \A m : m \in Starts(u) <=> m = 1 \/ \E i \in Starts(q) : m = n + 1 + i
  <2> TAKE m
  <2>1. ASSUME NEW i \in Starts(q), m = n + 1 + i  PROVE m \in Starts(u)
    <3>1. CASE i = 1
      <4>1. n + 1 \in DOMAIN u /\ u[n + 1] = "&" /\ m = n + 1 + 1
          BY <1>1, <1>3, <2>1, <3>1
      <4> QED  BY <4>1 DEF Starts
    <3>2. CASE i # 1
      <4>1. PICK j \in DOMAIN q : q[j] = "&" /\ i = j + 1
          BY <3>2 DEF Starts
      <4>2. n + 1 + j \in DOMAIN u /\ m = n + 1 + j + 1
          BY <1>1, <1>3, <2>1, <4>1
      <4>3. u[n + 1 + j] = "&"
          BY <1>1, <1>3, <4>1
      <4> QED  BY <4>2, <4>3 DEF Starts
    <3> QED  BY <3>1, <3>2
  <2>2. ASSUME m \in Starts(u), m # 1  PROVE \E i \in Starts(q) : m = n + 1 + i
    <3>1. PICK j \in 1..Len(u) : u[j] = "&" /\ m = j + 1
        BY <1>3, <2>2 DEF Starts
    <3>2. ~(j <= n)
      <4> SUFFICES ASSUME j <= n  PROVE FALSE
          OBVIOUS
      <4>1. j \in 1..n
          BY <1>1
      <4> QED  BY <1>1, <1>2, <3>1, <4>1
    <3>3. CASE j = n + 1
      <4>1. m = n + 1 + 1 /\ 1 \in Starts(q)
          BY <1>1, <3>1, <3>3 DEF Starts
      <4> QED  BY <4>1
    <3>4. CASE j # n + 1
      <4> DEFINE i == j - n - 1
      <4>1. i \in 1..Len(q) /\ j = n + 1 + i
          BY <1>1, <3>2, <3>4
      <4>2. q[i] = "&"
          BY <1>1, <3>1, <4>1
      <4>3. i + 1 \in Starts(q)
          BY <1>3, <4>1, <4>2 DEF Starts
      <4>4. m = n + 1 + (i + 1)
          BY <1>1, <3>1, <4>1
      <4> QED  BY <4>3, <4>4
    <3> QED  BY <3>3, <3>4
  <2>3. 1 \in Starts(u)
      BY DEF Starts
  <2> QED  BY <2>1, <2>2, <2>3
<1>5. PairAt(u, 1) = p /\ \A i \in Starts(q) : PairAt(u, n + 1 + i) = PairAt(q, i)
    BY PairsThen DEF u, n
<1>7. ASSUME NEW m
      PROVE  m \in Named(u, k) <=> \/ m = 1 /\ Before(p, "=") = <<k>>
                                   \/ \E i \in Named(q, k) : m = n + 1 + i
  <2>0. \A i \in Starts(q) : n + 1 + i # 1
      BY <1>1, StartsRange
  <2>1. m \in Named(u, k) <=> m \in Starts(u) /\ Before(PairAt(u, m), "=") = <<k>>
      BY DEF Named
  <2>2. \A i : i \in Named(q, k) <=> i \in Starts(q) /\ Before(PairAt(q, i), "=") = <<k>>
      BY DEF Named
  <2>3. CASE m = 1
      BY <1>4, <1>5, <2>0, <2>1, <2>2, <2>3
  <2>4. CASE m # 1
    <3>1. m \in Starts(u) <=> \E i \in Starts(q) : m = n + 1 + i
        BY <1>4, <2>4
    <3>2. ASSUME NEW i \in Starts(q), m = n + 1 + i
          PROVE  m \in Named(u, k) <=> i \in Named(q, k)
        BY <1>5, <2>1, <2>2, <3>1, <3>2
    <3>3. ASSUME m \in Named(u, k)  PROVE \E i \in Named(q, k) : m = n + 1 + i
        BY <2>1, <3>1, <3>2, <3>3
    <3>4. ASSUME NEW i \in Named(q, k), m = n + 1 + i  PROVE m \in Named(u, k)
        BY <2>2, <3>2, <3>4
    <3> QED  BY <2>4, <3>3, <3>4
  <2> QED  BY <2>3, <2>4
<1> QED  BY <1>7 DEF u, n

LEMMA NamedInts ==
    ASSUME NEW q \in Text, NEW k
    PROVE  Named(q, k) \subseteq Nat
<1>1. Len(q) \in Nat
    BY DEF Text
<1> QED  BY <1>1, StartsRange DEF Named

LEMMA FirstIs ==
    ASSUME NEW T, T \subseteq Nat, NEW i \in T, \A j \in T : i <= j
    PROVE  (CHOOSE x \in T : \A j \in T : x <= j) = i
<1>1. \A x \in T : (\A j \in T : x <= j) => x = i
    OBVIOUS
<1> QED  BY <1>1

\* The value of the least of the pairs of a name.
LEMMA ValueIs ==
    ASSUME NEW q \in Text, NEW k, NEW i \in Named(q, k), \A j \in Named(q, k) : i <= j
    PROVE  Value(q, k) = PercentDecode(After(PairAt(q, i), "="))
<1>1. (CHOOSE x \in Named(q, k) : \A j \in Named(q, k) : x <= j) = i
    BY NamedInts, FirstIs
<1> QED  BY <1>1 DEF Value

(* One pair. *)
LEMMA ReadsOne ==
    ASSUME NEW k \in Names, NEW v \in Text, Free(v, "&")
    PROVE  /\ Reads(Pair(k, v), k, PercentDecode(v))
           /\ \A j \in Names : j # k => Lacks(Pair(k, v), j)
<1> DEFINE q == Pair(k, v)
<1>1. /\ q \in Text /\ Free(q, "&") /\ Before(q, "=") = <<k>> /\ After(q, "=") = v
    BY PairIs
<1> HIDE DEF q
<1>2. DOMAIN q = 1..Len(q)
    BY <1>1 DEF Text
<1>3. Starts(q) = {1}
    BY <1>1, <1>2 DEF Starts, Free
<1>4. PairAt(q, 1) = q
  <2>1. Rest(q, 1) = q
      BY <1>1, RestAll DEF Text
  <2>2. Before(q, "&") = q
      BY <1>1, NotAt
  <2> QED  BY <2>1, <2>2 DEF PairAt, Rest
<1>5. Named(q, k) = {1}
    BY <1>1, <1>3, <1>4 DEF Named
<1>6. ASSUME NEW j \in Names, j # k  PROVE Named(q, j) = {}
  <2>1. <<j>> # <<k>>
      BY <1>6
  <2> QED  BY <1>1, <1>3, <1>4, <2>1 DEF Named
<1>7. ~Twice(q, k)
    BY <1>5 DEF Twice
<1>8. Value(q, k) = PercentDecode(v)
  <2>1. 1 \in Named(q, k) /\ \A j \in Named(q, k) : 1 <= j
      BY <1>5
  <2>2. Value(q, k) = PercentDecode(After(PairAt(q, 1), "="))
      BY <1>1, <2>1, ValueIs
  <2> QED  BY <1>1, <1>4, <2>2
<1> QED  BY <1>5, <1>6, <1>7, <1>8 DEF q, Reads, Lacks

(* A pair before others. *)
LEMMA ReadsFirst ==
    ASSUME NEW k \in Names, NEW v \in Text, Free(v, "&"), NEW q \in Text
    PROVE  LET u == AndThen(Pair(k, v), q)
           IN /\ u \in Text
              /\ Lacks(q, k) => Reads(u, k, PercentDecode(v))
              /\ ~Lacks(q, k) => Twice(u, k)
<1> DEFINE p == Pair(k, v)
           u == AndThen(p, q)
<1>1. /\ p \in Text /\ Free(p, "&") /\ Before(p, "=") = <<k>> /\ After(p, "=") = v
    BY PairIs
<1> HIDE DEF p
<1>2. u \in Text /\ Len(p) \in Nat
    BY <1>1, AndThenIs
<1>3. \A m : m \in Named(u, k) <=> m = 1 \/ \E i \in Named(q, k) : m = Len(p) + 1 + i
    BY <1>1, NamedThen
<1>4. PairAt(u, 1) = p
    BY <1>1, PairsThen
<1> HIDE DEF u
<1>5. Value(u, k) = PercentDecode(v)
  <2>1. \A j \in Named(u, k) : 1 <= j
    <3> TAKE j \in Named(u, k)
    <3>1. j = 1 \/ \E i \in Named(q, k) : j = Len(p) + 1 + i
        BY <1>3
    <3>2. Named(q, k) \subseteq Nat
        BY NamedInts
    <3> QED  BY <1>2, <3>1, <3>2
  <2>2. 1 \in Named(u, k)
      BY <1>3
  <2>3. Value(u, k) = PercentDecode(After(PairAt(u, 1), "="))
      BY <1>2, <2>1, <2>2, ValueIs
  <2> QED  BY <1>1, <1>4, <2>3
<1>6. ASSUME Lacks(q, k)  PROVE Reads(u, k, PercentDecode(v))
  <2>1. Named(u, k) = {1}
      BY <1>3, <1>6 DEF Lacks
  <2> QED  BY <1>5, <2>1 DEF Reads, Twice
<1>7. ASSUME ~Lacks(q, k)  PROVE Twice(u, k)
  <2>1. PICK i : i \in Named(q, k)
      BY <1>7 DEF Lacks
  <2>2. i \in Nat
      BY <2>1, NamedInts
  <2>3. 1 # Len(p) + 1 + i
    <3>1. i # 0
        BY <2>1, StartsRange DEF Named
    <3> QED  BY <1>2, <2>2, <3>1
  <2>4. 1 \in Named(u, k) /\ Len(p) + 1 + i \in Named(u, k)
      BY <1>3, <2>1
  <2> QED  BY <2>3, <2>4 DEF Twice
<1> QED  BY <1>2, <1>6, <1>7 DEF u, p

LEMMA ReadsBehind ==
    ASSUME NEW k \in Names, NEW v \in Text, Free(v, "&"), NEW q \in Text, NEW j \in Names, j # k
    PROVE  LET u == AndThen(Pair(k, v), q)
           IN /\ \A x : Reads(q, j, x) => Reads(u, j, x)
              /\ Lacks(q, j) => Lacks(u, j)
              /\ Twice(q, j) => Twice(u, j)
<1> DEFINE p == Pair(k, v)
           u == AndThen(p, q)
           n == Len(p) + 1
<1>1. /\ p \in Text /\ Free(p, "&") /\ Before(p, "=") = <<k>>
    BY PairIs
<1> HIDE DEF p
<1>2. u \in Text /\ n \in Nat
    BY <1>1, AndThenIs
<1>3. \A m : m \in Named(u, j) <=> \E i \in Named(q, j) : m = n + i
  <2>1. <<j>> # <<k>>
      OBVIOUS
  <2> QED  BY <1>1, <2>1, NamedThen
<1>4. \A i \in Starts(q) : PairAt(u, n + i) = PairAt(q, i)
    BY <1>1, PairsThen
<1>5. Named(q, j) \subseteq Nat
    BY NamedInts
<1> HIDE DEF u, n
<1>6. Lacks(q, j) => Lacks(u, j)
    BY <1>3 DEF Lacks
<1>7. Twice(q, j) <=> Twice(u, j)
  <2>1. ASSUME Twice(q, j)  PROVE Twice(u, j)
    <3>1. PICK i \in Named(q, j), m \in Named(q, j) : i # m
        BY <2>1 DEF Twice
    <3>2. n + i # n + m
        BY <1>2, <1>5, <3>1
    <3>3. n + i \in Named(u, j) /\ n + m \in Named(u, j)
        BY <1>3
    <3> QED  BY <3>2, <3>3 DEF Twice
  <2>2. ASSUME Twice(u, j)  PROVE Twice(q, j)
    <3>1. PICK a \in Named(u, j), b \in Named(u, j) : a # b
        BY <2>2 DEF Twice
    <3>2. PICK i \in Named(q, j), m \in Named(q, j) : a = n + i /\ b = n + m
        BY <1>3
    <3>3. i # m
        BY <3>1, <3>2
    <3> QED  BY <3>3 DEF Twice
  <2> QED  BY <2>1, <2>2
<1>8. ASSUME NEW x, Reads(q, j, x)  PROVE Reads(u, j, x)
  <2>1. PICK i : i \in Named(q, j) /\ \A m \in Named(q, j) : m = i
      BY <1>8 DEF Reads, Twice
  <2>2. i \in Nat /\ i \in Starts(q)
      BY <1>5, <2>1 DEF Named
  <2>3. Value(q, j) = PercentDecode(After(PairAt(q, i), "="))
    <3>1. \A m \in Named(q, j) : i <= m
        BY <2>1, <2>2
    <3> QED  BY <2>1, <3>1, ValueIs
  <2>4. Value(u, j) = PercentDecode(After(PairAt(u, n + i), "="))
    <3>1. n + i \in Named(u, j) /\ \A m \in Named(u, j) : n + i <= m
        BY <1>2, <1>3, <2>1, <2>2
    <3> QED  BY <1>2, <3>1, ValueIs
  <2>5. Value(u, j) = x
      BY <1>4, <1>8, <2>2, <2>3, <2>4 DEF Reads
  <2>6. Named(u, j) # {}
      BY <1>3, <2>1
  <2> QED  BY <1>7, <1>8, <2>5, <2>6 DEF Reads
<1> QED  BY <1>6, <1>7, <1>8 DEF u, p

----------------------------------------------------------------------------
(* Keys: a key is read back from its spelling, and no other spelling of    *)
(* its last digit is a key.                                                *)

KeyTokens == {"A", "B", "C", "D", "E", "F", "G", "H"}

LEMMA DigitsAre ==
    /\ Digits \in Text /\ Len(Digits) = 8
    /\ Digits[1] = "A" /\ Digits[2] = "B" /\ Digits[3] = "C" /\ Digits[4] = "D"
    /\ Digits[5] = "E" /\ Digits[6] = "F" /\ Digits[7] = "G" /\ Digits[8] = "H"
<1>1. Len(Digits) = 8
    BY DEF Digits
<1>2. /\ Digits[1] = "A" /\ Digits[2] = "B" /\ Digits[3] = "C" /\ Digits[4] = "D"
      /\ Digits[5] = "E" /\ Digits[6] = "F" /\ Digits[7] = "G" /\ Digits[8] = "H"
    BY DEF Digits
<1>3. Digits \in Text
  <2>1. /\ "A" \in Tok /\ "B" \in Tok /\ "C" \in Tok /\ "D" \in Tok
        /\ "E" \in Tok /\ "F" \in Tok /\ "G" \in Tok /\ "H" \in Tok
      BY DEF Tok
  <2> QED  BY <2>1 DEF Digits, Text
<1> QED  BY <1>1, <1>2, <1>3

LEMMA DigitsDiffer ==
    ASSUME NEW i \in 1..8, NEW j \in 1..8, Digits[i] = Digits[j]
    PROVE  i = j
  BY DigitsAre

LEMMA DigitOfDigit ==
    ASSUME NEW x \in 0..7
    PROVE  DigitOf(Digits[x + 1]) = x /\ Digits[x + 1] \in KeyTokens
<1> DEFINE i == x + 1
<1>1. i \in 1..8 /\ i - 1 = x
    OBVIOUS
<1> HIDE DEF i
<1>2. Digits \in Text /\ Len(Digits) = 8
    BY DigitsAre
<1>3. \A j \in 1..Len(Digits) : j < i => Digits[j] \notin {Digits[i]}
    BY <1>1, <1>2, DigitsDiffer
<1>4. FirstOf(Digits, {Digits[i]}) = i
    BY <1>1, <1>2, <1>3, FirstOfIs
<1>5. DigitOf(Digits[i]) = x
    BY <1>1, <1>4 DEF DigitOf, At
<1>6. Digits[i] \in KeyTokens
    BY <1>1, DigitsAre DEF KeyTokens
<1> QED  BY <1>5, <1>6 DEF i

SpelledKey(x, y, z) == <<Digits[x + 1], Digits[y + 1], Digits[z + 1]>>

LEMMA KeyBits ==
    ASSUME NEW b \in 0..15, NEW c \in 0..15
    PROVE  /\ ((b * 256 + c * 16) \div 512) % 8 = b \div 2
           /\ ((b * 256 + c * 16) \div 64) % 8 = 4 * (b % 2) + (c \div 4)
           /\ ((b * 256 + c * 16) \div 8) % 8 = 2 * (c % 4)
<1>1. (b * 256 + c * 16) \div 512 = b \div 2 /\ (b \div 2) % 8 = b \div 2
    OBVIOUS
<1>2. (b * 256 + c * 16) \div 64 = b * 4 + (c \div 4)
    OBVIOUS
<1>3. (b * 4 + (c \div 4)) % 8 = 4 * (b % 2) + (c \div 4)
    OBVIOUS
<1>4. (b * 256 + c * 16) \div 8 = b * 32 + c * 2
    OBVIOUS
<1>5. (b * 32 + c * 2) % 8 = 2 * (c % 4)
    OBVIOUS
<1> QED  BY <1>1, <1>2, <1>3, <1>4, <1>5

LEMMA KeySum ==
    ASSUME NEW b \in 0..15, NEW c \in 0..15
    PROVE  /\ b \div 2 \in 0..7 /\ 4 * (b % 2) + (c \div 4) \in 0..7 /\ 2 * (c % 4) \in 0..7
           /\ (2 * (c % 4)) % 2 = 0 /\ 2 * (c % 4) < 7
           /\ (b \div 2) * 64 + (4 * (b % 2) + (c \div 4)) * 8 + 2 * (c % 4) = b * 32 + c * 2
<1>1. b \div 2 \in 0..7 /\ b % 2 \in 0..1 /\ b = 2 * (b \div 2) + (b % 2)
    OBVIOUS
<1>2. c \div 4 \in 0..3 /\ c % 4 \in 0..3 /\ c = 4 * (c \div 4) + (c % 4)
    OBVIOUS
<1>3. \A r \in 0..3 : (2 * r) % 2 = 0
    OBVIOUS
<1> QED  BY <1>1, <1>2, <1>3

LEMMA EncodeKeyIs ==
    ASSUME NEW key \in Keys
    PROVE  \E hi \in 0..7, mid \in 0..7, lo \in 0..7 :
              /\ EncodeKey(key) = SpelledKey(hi, mid, lo) /\ lo % 2 = 0 /\ lo < 7
              /\ hi * 64 + mid * 8 + lo = key[1] * 32 + key[2] * 2
<1>1. key[1] \in 0..15 /\ key[2] \in 0..15
    BY DEF Keys, KeyBytes
<1> DEFINE triple == key[1] * 256 + key[2] * 16
           hi == (triple \div 512) % 8
           mid == (triple \div 64) % 8
           lo == (triple \div 8) % 8
<1>2. EncodeKey(key) = SpelledKey(hi, mid, lo)
    BY DEF EncodeKey, SpelledKey
<1>3. PICK b \in 0..15, c \in 0..15 : b = key[1] /\ c = key[2]
    BY <1>1
<1>6. triple = b * 256 + c * 16
    BY <1>3
<1> HIDE DEF triple
<1>4. hi = b \div 2 /\ mid = 4 * (b % 2) + (c \div 4) /\ lo = 2 * (c % 4)
    BY <1>6, KeyBits
<1> HIDE DEF hi, mid, lo
<1>5. /\ hi \in 0..7 /\ mid \in 0..7 /\ lo \in 0..7 /\ lo % 2 = 0 /\ lo < 7
      /\ hi * 64 + mid * 8 + lo = b * 32 + c * 2
    BY <1>4, KeySum
<1> QED  BY <1>2, <1>3, <1>5

Spells(t, u, v, w) ==
    /\ t \in Seq(KeyTokens) /\ t \in Text /\ Len(t) = 3
    /\ DigitOf(t[1]) = u /\ DigitOf(t[2]) = v /\ DigitOf(t[3]) = w

LEMMA SpelledKeyText ==
    ASSUME NEW u \in 0..7, NEW v \in 0..7, NEW w \in 0..7
    PROVE  Spells(SpelledKey(u, v, w), u, v, w)
<1> DEFINE t == SpelledKey(u, v, w)
<1>1. Digits[u + 1] \in KeyTokens /\ Digits[v + 1] \in KeyTokens /\ Digits[w + 1] \in KeyTokens
    BY DigitOfDigit
<1>2. t \in Seq(KeyTokens)
    BY <1>1 DEF SpelledKey
<1>3. KeyTokens \subseteq Tok
    BY DEF KeyTokens, Tok
<1>4. t \in Text
    BY <1>2, <1>3, SeqWider DEF Text
<1>5. /\ Len(t) = 3 /\ t[1] = Digits[u + 1] /\ t[2] = Digits[v + 1] /\ t[3] = Digits[w + 1]
    BY DEF SpelledKey
<1> HIDE DEF t
<1>6. DigitOf(t[1]) = u /\ DigitOf(t[2]) = v /\ DigitOf(t[3]) = w
    BY <1>5, DigitOfDigit
<1> QED  BY <1>2, <1>4, <1>5, <1>6 DEF t, Spells

LEMMA DecodeSpelled ==
    ASSUME NEW t, NEW u \in 0..7, NEW v \in 0..7, NEW w \in 0..7, Spells(t, u, v, w)
    PROVE  /\ w % 2 # 0 => DecodeKey(t) = NoKey
           /\ \A n : w % 2 = 0 /\ n = u * 64 + v * 8 + w
                  => DecodeKey(t) = <<(n \div 32) % 16, (n \div 2) % 16>>
<1>1. t \in Text /\ Len(t) = 3 /\ DigitOf(t[1]) = u /\ DigitOf(t[2]) = v /\ DigitOf(t[3]) = w
    BY DEF Spells
<1>2. DOMAIN t = 1..3
    BY <1>1 DEF Text
<1>3. \A i \in DOMAIN t : ~(DigitOf(t[i]) < 0)
    BY <1>1, <1>2
<1>4. Len(t) = KeyDigits /\ DigitOf(t[KeyDigits]) = w
    BY <1>1 DEF KeyDigits
<1> QED  BY <1>1, <1>3, <1>4 DEF DecodeKey

(* decode_key undoes encode_key, and the bit no byte uses must be clear. *)
LEMMA KeyDecodesBack ==
    ASSUME NEW key \in Keys
    PROVE  \E u \in 0..7, v \in 0..7, w \in 0..6 :
              /\ EncodeKey(key) = SpelledKey(u, v, w)
              /\ DecodeKey(SpelledKey(u, v, w)) = key /\ key # NoKey
              /\ DecodeKey(SpelledKey(u, v, w + 1)) = NoKey
<1>1. key[1] \in 0..15 /\ key[2] \in 0..15 /\ key = <<key[1], key[2]>>
    BY DEF Keys, KeyBytes
<1> DEFINE n == key[1] * 32 + key[2] * 2
<1>2. PICK u \in 0..7, v \in 0..7, w \in 0..7 :
              /\ EncodeKey(key) = SpelledKey(u, v, w) /\ w % 2 = 0 /\ w < 7
              /\ u * 64 + v * 8 + w = n
    BY EncodeKeyIs
<1> HIDE DEF n
<1>3. w \in 0..6 /\ w + 1 \in 0..7 /\ (w + 1) % 2 # 0
    BY <1>2
<1>4. Spells(SpelledKey(u, v, w), u, v, w) /\ Spells(SpelledKey(u, v, w + 1), u, v, w + 1)
    BY <1>3, SpelledKeyText
<1>5. DecodeKey(SpelledKey(u, v, w)) = <<(n \div 32) % 16, (n \div 2) % 16>>
    BY <1>2, <1>4, DecodeSpelled
<1>6. DecodeKey(SpelledKey(u, v, w + 1)) = NoKey
  <2> DEFINE z == w + 1
  <2>1. z \in 0..7 /\ z % 2 # 0 /\ Spells(SpelledKey(u, v, z), u, v, z)
      BY <1>3, <1>4
  <2> HIDE DEF z
  <2>2. DecodeKey(SpelledKey(u, v, z)) = NoKey
      BY <2>1, DecodeSpelled
  <2> QED  BY <2>2 DEF z
<1>7. (n \div 32) % 16 = key[1] /\ (n \div 2) % 16 = key[2]
  <2>1. PICK b \in 0..15, c \in 0..15 : b = key[1] /\ c = key[2]
      BY <1>1
  <2>2. ((b * 32 + c * 2) \div 32) % 16 = b /\ ((b * 32 + c * 2) \div 2) % 16 = c
      OBVIOUS
  <2> QED  BY <2>1, <2>2 DEF n
<1>8. key # NoKey
    BY <1>1 DEF NoKey
<1>9. DecodeKey(SpelledKey(u, v, w)) = key
    BY <1>1, <1>5, <1>7
<1> QED  BY <1>2, <1>3, <1>6, <1>8, <1>9

----------------------------------------------------------------------------
(* Links: what each of them is made of. *)

Clean(s) == \A i \in 1..Len(s) : s[i] \notin {"#"} \cup KeyTokens

LEMMA Two ==
    ASSUME NEW a \in Tok, NEW b \in Tok
    PROVE  <<a, b>> \in Text /\ <<a>> \in Text /\ <<b>> \in Text /\ <<a, b>> = Cat(<<a>>, <<b>>)
<1> DEFINE l == <<a, b>>
           r == Cat(<<a>>, <<b>>)
<1>1. <<a>> \in Seq(Tok) /\ <<b>> \in Seq(Tok) /\ l \in Seq(Tok)
    OBVIOUS
<1>2. r \in Seq(Tok)
    BY <1>1, CatSeq
<1>3. Len(l) = 2 /\ Len(r) = 2 /\ l[1] = r[1] /\ l[2] = r[2]
    BY DEF Cat
<1> HIDE DEF l, r
<1>4. \A i \in 1..Len(l) : l[i] = r[i]
    BY <1>3
<1>5. l = r
    BY <1>1, <1>2, <1>3, <1>4, SeqEqual
<1> QED  BY <1>1, <1>5 DEF l, r, Text

LEMMA Three ==
    ASSUME NEW a \in Tok, NEW b \in Tok, NEW c \in Tok
    PROVE  /\ <<a, b, c>> \in Text /\ <<a>> \in Text /\ <<b>> \in Text /\ <<c>> \in Text
           /\ Cat(<<b>>, <<c>>) \in Text /\ <<a, b, c>> = Cat(<<a>>, Cat(<<b>>, <<c>>))
<1>1. <<b, c>> \in Text /\ <<b>> \in Text /\ <<c>> \in Text /\ <<b, c>> = Cat(<<b>>, <<c>>)
    BY Two
<1>2. <<a>> \in Text
    BY OneToken DEF Text
<1>3. <<a>> \o <<b, c>> \in Seq(Tok) /\ <<a>> \o <<b, c>> = <<a, b, c>>
    BY ThreeTokens
<1>4. Cat(<<a>>, <<b, c>>) = <<a, b, c>>
    BY <1>3 DEF Cat
<1>5. <<a, b, c>> \in Text
    BY <1>3 DEF Text
<1> QED  BY <1>1, <1>2, <1>4, <1>5

\* A pair as it is written, alone and behind a separator.
LEMMA PairWritten ==
    ASSUME NEW k \in Names, NEW v \in Text, NEW c \in Tok
    PROVE  /\ Pair(k, v) \in Text
           /\ Cat(<<k, "=">>, v) = Pair(k, v)
           /\ Cat(<<c, k, "=">>, v) = Cat(<<c>>, Pair(k, v))
<1>1. k \in Tok /\ "=" \in Tok
    BY TokensAre
<1>2. <<k, "=">> \in Text /\ <<k>> \in Text /\ <<"=">> \in Text /\ <<k, "=">> = Cat(<<k>>, <<"=">>)
    BY <1>1, Two
<1>3. Cat(<<k, "=">>, v) = Pair(k, v)
    BY <1>2, CatTextAssociates DEF Pair
<1>4. Cat(<<"=">>, v) \in Text
    BY <1>2, CatText
<1>5. Pair(k, v) \in Text
    BY <1>2, <1>4, CatText DEF Pair
<1>6. Cat(<<c, k, "=">>, v) = Cat(<<c>>, Pair(k, v))
  <2>1. /\ <<c>> \in Text /\ Cat(<<k>>, <<"=">>) \in Text
        /\ <<c, k, "=">> = Cat(<<c>>, Cat(<<k>>, <<"=">>))
      BY <1>1, Three
  <2>2. Cat(Cat(<<c>>, <<k, "=">>), v) = Cat(<<c>>, Cat(<<k, "=">>, v))
      BY <1>2, <2>1, CatTextAssociates
  <2> QED  BY <1>2, <1>3, <2>1, <2>2
<1> QED  BY <1>3, <1>5, <1>6

LEMMA CleanCat ==
    ASSUME NEW s \in Text, NEW t \in Text, Clean(s), Clean(t)
    PROVE  Clean(Cat(s, t))
<1>1. \A c \in {"#"} \cup KeyTokens : Free(s, c) /\ Free(t, c)
    BY DEF Clean, Free
<1>2. \A c \in {"#"} \cup KeyTokens : Free(Cat(s, t), c)
    BY <1>1, FreeCat
<1> QED  BY <1>2 DEF Clean, Free

LEMMA CleanFree == \A s : Clean(s) => Free(s, "#")
  BY DEF Clean, Free

LEMMA CleanOne ==
    ASSUME NEW c \in Tok, c \notin {"#"} \cup KeyTokens
    PROVE  <<c>> \in Text /\ Clean(<<c>>)
<1>1. <<c>> \in Text
    BY OneToken DEF Text
<1>2. Len(<<c>>) = 1 /\ <<c>>[1] = c
    OBVIOUS
<1> QED  BY <1>1, <1>2 DEF Clean

LEMMA PairClean ==
    ASSUME NEW k \in Names, NEW v \in Text, Clean(v)
    PROVE  Clean(Pair(k, v))
<1>1. k \in Tok /\ k \notin {"#"} \cup KeyTokens /\ "=" \in Tok /\ "=" \notin {"#"} \cup KeyTokens
    BY TokensAre DEF Names, KeyTokens
<1>2. <<k>> \in Text /\ Clean(<<k>>) /\ <<"=">> \in Text /\ Clean(<<"=">>)
    BY <1>1, CleanOne
<1>3. Cat(<<"=">>, v) \in Text /\ Clean(Cat(<<"=">>, v))
    BY <1>2, CatText, CleanCat
<1> QED  BY <1>2, <1>3, CleanCat DEF Pair

LEMMA AndThenClean ==
    ASSUME NEW p \in Text, NEW q \in Text, Clean(p), Clean(q)
    PROVE  AndThen(p, q) \in Text /\ Clean(AndThen(p, q))
<1>1. <<"&">> \in Text /\ Clean(<<"&">>)
  <2>1. "&" \in Tok /\ "&" \notin {"#"} \cup KeyTokens
      BY TokensAre DEF KeyTokens
  <2> QED  BY <2>1, CleanOne
<1>2. Cat(<<"&">>, q) \in Text /\ Clean(Cat(<<"&">>, q))
    BY <1>1, CatText, CleanCat
<1> QED  BY <1>2, CatText, CleanCat DEF AndThen

LEMMA AndThenAssociates ==
    ASSUME NEW p \in Text, NEW q \in Text, NEW u \in Text
    PROVE  AndThen(AndThen(p, q), u) = AndThen(p, AndThen(q, u))
<1> DEFINE o == <<"&">>
           a == Cat(o, q)
           b == Cat(o, u)
<1>1. o \in Text
    BY TokensAre, OneToken DEF Text
<1>2. a \in Text /\ b \in Text
    BY <1>1, CatText
<1>3. Cat(Cat(p, a), b) = Cat(p, Cat(a, b))
    BY <1>2, CatTextAssociates
<1>4. Cat(a, b) = Cat(o, Cat(q, b))
    BY <1>1, <1>2, CatTextAssociates
<1> QED  BY <1>3, <1>4 DEF AndThen

LEMMA EncodedText ==
    ASSUME NEW s \in Seq(Characters)
    PROVE  /\ PercentEncode(s) \in Text /\ Clean(PercentEncode(s)) /\ Free(PercentEncode(s), "&")
           /\ PercentDecode(PercentEncode(s)) = s
<1> DEFINE e == PercentEncode(s)
<1>1. e \in Seq(Wire) /\ PercentDecode(e) = s
    BY DecodesBack
<1>2. e \in Text
    BY <1>1, ModelText
<1>3. \A i \in 1..Len(e) : e[i] \in Wire
    BY <1>1
<1>4. \A c \in Wire : c \notin {"#"} \cup KeyTokens /\ c # "&"
    BY DEF Wire, Hex, KeyTokens
<1> HIDE DEF e
<1>5. Clean(e) /\ Free(e, "&")
    BY <1>3, <1>4 DEF Clean, Free
<1> QED  BY <1>1, <1>2, <1>5 DEF e

Query(r, t) == AndThen(Pair("room", PercentEncode(r)), Pair("token", PercentEncode(t)))
Sound(q, r, t) == q \in Text /\ Clean(q) /\ Reads(q, "room", r) /\ Reads(q, "token", t)

LEMMA NamesAre == "room" \in Names /\ "token" \in Names /\ "k" \in Names /\ "h" \in Names /\ "a" \in Names
  BY DEF Names

LEMMA PlainTwo == <<"2">> \in Text /\ Clean(<<"2">>) /\ Free(<<"2">>, "&")
<1>1. "2" \in Tok /\ "2" \notin {"#"} \cup KeyTokens /\ "2" # "&"
    BY DEF Tok, KeyTokens
<1> QED  BY <1>1, CleanOne, FreeOne

(* What a query says of the room and the token, alone, with a parameter    *)
(* nobody knows, and with a second token.                                  *)
LEMMA QuerySays ==
    ASSUME NEW r \in Seq(Characters), NEW t \in Seq(Characters)
    PROVE  /\ Sound(Query(r, t), r, t)
           /\ Sound(AndThen(Query(r, t), Pair("a", <<"2">>)), r, t)
           /\ LET q == AndThen(Query(r, t), Pair("token", <<"2">>))
              IN q \in Text /\ Clean(q) /\ Twice(q, "token")
<1> DEFINE er == PercentEncode(r)
           et == PercentEncode(t)
           pr == Pair("room", er)
           pt == Pair("token", et)
           xa == Pair("a", <<"2">>)
           xt == Pair("token", <<"2">>)
<1>1. /\ er \in Text /\ Clean(er) /\ Free(er, "&") /\ PercentDecode(er) = r
      /\ et \in Text /\ Clean(et) /\ Free(et, "&") /\ PercentDecode(et) = t
    BY EncodedText
<1> HIDE DEF er, et
<1>2. /\ pr \in Text /\ Clean(pr) /\ Free(pr, "&") /\ pt \in Text /\ Clean(pt) /\ Free(pt, "&")
      /\ xa \in Text /\ Clean(xa) /\ xt \in Text /\ Clean(xt)
    BY <1>1, NamesAre, PlainTwo, PairIs, PairClean
<1>3. Reads(pt, "token", t) /\ Lacks(pt, "room")
  <2>1. "token" # "room"
      OBVIOUS
  <2> QED  BY <1>1, <2>1, NamesAre, ReadsOne
<1>4. Lacks(xa, "room") /\ Lacks(xa, "token") /\ ~Lacks(xt, "token")
  <2>1. "a" # "room" /\ "a" # "token"
      OBVIOUS
  <2>2. Lacks(xa, "room") /\ Lacks(xa, "token")
      BY <2>1, NamesAre, PlainTwo, ReadsOne
  <2>3. Reads(xt, "token", PercentDecode(<<"2">>))
      BY NamesAre, PlainTwo, ReadsOne
  <2> QED  BY <2>2, <2>3 DEF Reads, Lacks
<1>5. AndThen(pt, xa) \in Text /\ Clean(AndThen(pt, xa)) /\ AndThen(pt, xt) \in Text /\ Clean(AndThen(pt, xt))
    BY <1>2, AndThenClean
<1>6. Reads(AndThen(pt, xa), "token", t) /\ Lacks(AndThen(pt, xa), "room")
  <2>1. "room" # "token"
      OBVIOUS
  <2>2. Reads(AndThen(pt, xa), "token", PercentDecode(et))
      BY <1>1, <1>2, <1>4, NamesAre, ReadsFirst
  <2>3. Lacks(AndThen(pt, xa), "room")
      BY <1>1, <1>2, <1>4, <2>1, NamesAre, ReadsBehind
  <2> QED  BY <1>1, <2>2, <2>3
<1>7. Twice(AndThen(pt, xt), "token")
    BY <1>1, <1>2, <1>4, NamesAre, ReadsFirst
<1> HIDE DEF pt, xa, xt
<1>8. ASSUME NEW q \in Text, Clean(q), Reads(q, "token", t), Lacks(q, "room")
      PROVE  Sound(AndThen(pr, q), r, t)
  <2>1. AndThen(pr, q) \in Text /\ Clean(AndThen(pr, q))
      BY <1>2, <1>8, AndThenClean
  <2>2. Reads(AndThen(pr, q), "room", PercentDecode(er))
      BY <1>1, <1>8, NamesAre, ReadsFirst
  <2>3. Reads(AndThen(pr, q), "token", t)
    <3>1. "room" # "token"
        OBVIOUS
    <3> QED  BY <1>1, <1>8, <3>1, NamesAre, ReadsBehind
  <2> QED  BY <1>1, <2>1, <2>2, <2>3 DEF Sound
<1>9. Twice(AndThen(pr, AndThen(pt, xt)), "token")
  <2>1. "room" # "token"
      OBVIOUS
  <2> QED  BY <1>1, <1>5, <1>7, <2>1, NamesAre, ReadsBehind
<1>10. AndThen(pr, AndThen(pt, xt)) \in Text /\ Clean(AndThen(pr, AndThen(pt, xt)))
    BY <1>2, <1>5, AndThenClean
<1>11. Sound(AndThen(pr, pt), r, t) /\ Sound(AndThen(pr, AndThen(pt, xa)), r, t)
    BY <1>2, <1>3, <1>5, <1>6, <1>8
<1>12. /\ AndThen(AndThen(pr, pt), xa) = AndThen(pr, AndThen(pt, xa))
       /\ AndThen(AndThen(pr, pt), xt) = AndThen(pr, AndThen(pt, xt))
    BY <1>2, AndThenAssociates
<1>13. Query(r, t) = AndThen(pr, pt)
    BY DEF Query, pr, pt, er, et
<1> HIDE DEF pr
<1> QED  BY <1>9, <1>10, <1>11, <1>12, <1>13 DEF xa, xt

KeyOf(f, k) == IF Named(f, k) = {} \/ Twice(f, k) THEN NoKey ELSE DecodeKey(Value(f, k))

LEMMA FragmentKeysAre ==
    ASSUME NEW f
    PROVE  /\ FragmentKeys(f).ok = (NoKey \notin {KeyOf(f, "k"), KeyOf(f, "h")})
           /\ FragmentKeys(f) = [ok |-> NoKey \notin {KeyOf(f, "k"), KeyOf(f, "h")},
                                 k |-> KeyOf(f, "k"), h |-> KeyOf(f, "h")]
  BY DEF FragmentKeys, KeyOf

LEMMA KeyRead ==
    ASSUME NEW f, NEW k, NEW x, Reads(f, k, x)
    PROVE  KeyOf(f, k) = DecodeKey(x)
  BY DEF Reads, KeyOf

\* The spelling of a key as the value of a parameter.
LEMMA SpelledValue ==
    ASSUME NEW u \in 0..7, NEW v \in 0..7, NEW w \in 0..7
    PROVE  /\ SpelledKey(u, v, w) \in Text /\ Free(SpelledKey(u, v, w), "&")
           /\ PercentDecode(SpelledKey(u, v, w)) = SpelledKey(u, v, w)
<1> DEFINE t == SpelledKey(u, v, w)
<1>1. Spells(t, u, v, w)
    BY SpelledKeyText
<1> HIDE DEF t
<1>2. t \in Text /\ t \in Seq(KeyTokens)
    BY <1>1 DEF Spells
<1>3. \A i \in 1..Len(t) : t[i] \in KeyTokens
    BY <1>2
<1>4. Free(t, "&") /\ Free(t, "%")
    BY <1>3 DEF Free, KeyTokens
<1>5. PercentDecode(t) = t
    BY <1>2, <1>4, DecodesPlain
<1> QED  BY <1>2, <1>4, <1>5 DEF t

Keyed(f) == f \in Text /\ FragmentKeys(f) = [ok |-> TRUE, k |-> RoomKey, h |-> HostKey]
FragmentOf(e, g) == AndThen(Pair("k", e), Pair("h", g))

(* What a fragment says of the keys, as the host writes it, with a second  *)
(* room key, and with a second spelling of the host's key.                 *)
LEMMA FragmentSays ==
    \E e \in Text, u \in 0..7, v \in 0..7, w \in 0..6 :
        /\ e = EncodeKey(RoomKey) /\ SpelledKey(u, v, w) = EncodeKey(HostKey)
        /\ SpelledKey(u, v, w) \in Text /\ SpelledKey(u, v, w + 1) \in Text
        /\ Keyed(FragmentOf(e, SpelledKey(u, v, w)))
        /\ LET f == AndThen(FragmentOf(e, SpelledKey(u, v, w)), Pair("k", e))
           IN f \in Text /\ ~FragmentKeys(f).ok
        /\ LET f == FragmentOf(e, SpelledKey(u, v, w + 1))
           IN f \in Text /\ ~FragmentKeys(f).ok
<1>1. PICK a \in 0..7, b \in 0..7, c \in 0..6 :
              /\ EncodeKey(RoomKey) = SpelledKey(a, b, c)
              /\ DecodeKey(SpelledKey(a, b, c)) = RoomKey /\ RoomKey # NoKey
    BY InvitesAssumption, KeyDecodesBack
<1>2. PICK u \in 0..7, v \in 0..7, w \in 0..6 :
              /\ EncodeKey(HostKey) = SpelledKey(u, v, w)
              /\ DecodeKey(SpelledKey(u, v, w)) = HostKey /\ HostKey # NoKey
              /\ DecodeKey(SpelledKey(u, v, w + 1)) = NoKey
    BY InvitesAssumption, KeyDecodesBack
<1> DEFINE e == SpelledKey(a, b, c)
           g == SpelledKey(u, v, w)
           bad == SpelledKey(u, v, w + 1)
           pk == Pair("k", e)
<1>3. e \in Text /\ Free(e, "&") /\ PercentDecode(e) = e
  <2>1. c \in 0..7
      OBVIOUS
  <2> QED  BY <2>1, SpelledValue
<1>4. g \in Text /\ Free(g, "&") /\ PercentDecode(g) = g
  <2>1. w \in 0..7
      OBVIOUS
  <2> QED  BY <2>1, SpelledValue
<1>5. bad \in Text /\ Free(bad, "&") /\ PercentDecode(bad) = bad
  <2> DEFINE z == w + 1
  <2>1. z \in 0..7
      OBVIOUS
  <2> HIDE DEF z
  <2>2. SpelledKey(u, v, z) \in Text /\ Free(SpelledKey(u, v, z), "&")
        /\ PercentDecode(SpelledKey(u, v, z)) = SpelledKey(u, v, z)
      BY <2>1, SpelledValue
  <2> QED  BY <2>2 DEF z
<1>6. DecodeKey(e) = RoomKey /\ DecodeKey(g) = HostKey /\ DecodeKey(bad) = NoKey
    BY <1>1, <1>2
<1> HIDE DEF e, g, bad
<1>7. "h" # "k" /\ "k" # "h"
    OBVIOUS
<1>8. pk \in Text /\ Free(pk, "&") /\ Reads(pk, "k", e) /\ Lacks(pk, "h")
    BY <1>3, <1>7, NamesAre, PairIs, ReadsOne
<1>9. ASSUME NEW x \in Text, Free(x, "&"), PercentDecode(x) = x
      PROVE  /\ FragmentOf(e, x) \in Text
             /\ KeyOf(FragmentOf(e, x), "k") = RoomKey /\ KeyOf(FragmentOf(e, x), "h") = DecodeKey(x)
  <2> DEFINE ph == Pair("h", x)
             f == FragmentOf(e, x)
  <2>1. ph \in Text /\ Reads(ph, "h", x) /\ Lacks(ph, "k")
      BY <1>7, <1>9, NamesAre, PairIs, ReadsOne
  <2> HIDE DEF ph
  <2>2. f = AndThen(pk, ph)
      BY DEF FragmentOf, ph
  <2>3. f \in Text /\ Reads(f, "k", PercentDecode(e))
      BY <1>3, <2>1, <2>2, NamesAre, ReadsFirst
  <2>4. Reads(f, "h", x)
      BY <1>3, <1>7, <2>1, <2>2, NamesAre, ReadsBehind
  <2>5. KeyOf(f, "k") = DecodeKey(e)
      BY <1>3, <2>3, KeyRead
  <2>6. KeyOf(f, "h") = DecodeKey(x)
      BY <2>4, KeyRead
  <2> QED  BY <1>6, <2>3, <2>5, <2>6
<1>10. Keyed(FragmentOf(e, g))
  <2> DEFINE f == FragmentOf(e, g)
  <2>1. f \in Text /\ KeyOf(f, "k") = RoomKey /\ KeyOf(f, "h") = HostKey
      BY <1>4, <1>6, <1>9
  <2>2. (NoKey \notin {RoomKey, HostKey}) = TRUE
      BY <1>1, <1>2
  <2> HIDE DEF f
  <2> QED  BY <2>1, <2>2, FragmentKeysAre DEF Keyed, f
<1>11. FragmentOf(e, bad) \in Text /\ ~FragmentKeys(FragmentOf(e, bad)).ok
  <2>1. FragmentOf(e, bad) \in Text /\ KeyOf(FragmentOf(e, bad), "h") = NoKey
      BY <1>5, <1>6, <1>9
  <2> QED  BY <2>1, FragmentKeysAre
<1>12. LET f == AndThen(FragmentOf(e, g), pk) IN f \in Text /\ ~FragmentKeys(f).ok
  <2> DEFINE ph == Pair("h", g)
             f == AndThen(pk, AndThen(ph, pk))
  <2>1. ph \in Text /\ Free(ph, "&")
      BY <1>4, NamesAre, PairIs
  <2>2. AndThen(FragmentOf(e, g), pk) = f
      BY <1>8, <2>1, AndThenAssociates DEF FragmentOf
  <2>3. AndThen(ph, pk) \in Text
      BY <1>8, <2>1, AndThenIs
  <2>4. Reads(AndThen(ph, pk), "k", e)
      BY <1>4, <1>7, <1>8, NamesAre, ReadsBehind
  <2>5. ~Lacks(AndThen(ph, pk), "k")
      BY <2>4 DEF Reads, Lacks
  <2>6. f \in Text /\ Twice(f, "k")
      BY <1>3, <2>3, <2>5, NamesAre, ReadsFirst
  <2>7. KeyOf(f, "k") = NoKey
      BY <2>6 DEF KeyOf
  <2> HIDE DEF f
  <2> QED  BY <2>2, <2>6, <2>7, FragmentKeysAre
<1> QED  BY <1>1, <1>2, <1>3, <1>4, <1>5, <1>10, <1>11, <1>12 DEF e, g, bad

----------------------------------------------------------------------------
(* Addresses. *)

LEMMA FirstPart ==
    ASSUME NEW s \in Text, NEW t \in Text
    PROVE  SubSeq(Cat(s, t), 1, Len(s)) = s
<1> DEFINE u == Cat(s, t)
           l == SubSeq(u, 1, Len(s))
<1>1. /\ u \in Text /\ Len(s) \in Nat /\ Len(t) \in Nat /\ Len(u) = Len(s) + Len(t)
      /\ \A i \in 1..Len(s) : u[i] = s[i]
    BY CatText
<1> HIDE DEF u
<1>2. l \in Seq(Tok) /\ Len(l) = Len(s) /\ \A i \in 1..Len(s) : l[i] = u[i]
    BY <1>1 DEF Text
<1> HIDE DEF l
<1>3. l = s
    BY <1>1, <1>2, SeqEqual DEF Text
<1> QED  BY <1>3 DEF l, u

\* trim_end_matches takes off a slash behind what does not end with one.
LEMMA TrimmedIs ==
    ASSUME NEW s \in Text, Len(s) > 0, s[Len(s)] # "/"
    PROVE  Trimmed(s) = s /\ Trimmed(Cat(s, <<"/">>)) = s
<1>1. ASSUME NEW t \in Text, \A j \in 1..Len(t) : t[j] = "/"
      PROVE  Trimmed(Cat(s, t)) = s
  <2> DEFINE u == Cat(s, t)
             n == Len(s)
             kept == {i \in 1..Len(u) : u[i] # "/"}
  <2>1. /\ u \in Text /\ n \in Nat /\ Len(t) \in Nat /\ Len(u) = n + Len(t)
        /\ \A i \in 1..n : u[i] = s[i]
        /\ \A i \in 1..Len(t) : u[n + i] = t[i]
      BY CatText
  <2>2. SubSeq(u, 1, n) = s
      BY <1>1, FirstPart
  <2>3. s[n] # "/" /\ n > 0
      OBVIOUS
  <2> HIDE DEF u, n
  <2>4. n \in 1..Len(u) /\ u[n] = s[n] /\ n \in kept
      BY <2>1, <2>3
  <2>5. \A j \in kept : j <= n
    <3> SUFFICES ASSUME NEW j \in kept, ~(j <= n)  PROVE FALSE
        OBVIOUS
    <3> DEFINE m == j - n
    <3>1. m \in 1..Len(t) /\ j = n + m
        BY <2>1
    <3>2. u[j] = "/"
        BY <1>1, <2>1, <3>1
    <3> QED  BY <3>2
  <2>6. \A i \in kept : (\A j \in kept : j <= i) => i = n
      BY <2>1, <2>4, <2>5
  <2>7. kept # {}
      BY <2>4
  <2> HIDE DEF kept
  <2>8. (CHOOSE i \in kept : \A j \in kept : j <= i) = n
      BY <2>4, <2>5, <2>6
  <2>9. Trimmed(u) = SubSeq(u, 1, n)
      BY <2>7, <2>8 DEF Trimmed, kept
  <2> QED  BY <2>2, <2>9 DEF u
<1>2. <<"/">> \in Text /\ \A j \in 1..Len(<<"/">>) : <<"/">>[j] = "/"
  <2>1. <<"/">> \in Text
      BY TokensAre, OneToken DEF Text
  <2>2. Len(<<"/">>) = 1 /\ <<"/">>[1] = "/"
      OBVIOUS
  <2> QED  BY <2>1, <2>2
<1>3. <<>> \in Text /\ \A j \in 1..Len(<<>>) : <<>>[j] = "/"
  <2>1. <<>> \in Text
      BY DEF Text
  <2>2. Len(<<>>) = 0
      OBVIOUS
  <2> QED  BY <2>1, <2>2
<1>4. Cat(s, <<>>) = s
  <2>1. s \in Seq(Tok)
      BY DEF Text
  <2> QED  BY <2>1, ConcatEmptySeq DEF Cat
<1>5. Trimmed(Cat(s, <<"/">>)) = s
    BY <1>1, <1>2, Zenon
<1>6. Trimmed(Cat(s, <<>>)) = s
    BY <1>1, <1>3, Zenon
<1> QED  BY <1>4, <1>5, <1>6

LEMMA EndpointText == Endpoint \in Text /\ Len(Endpoint) = 2 /\ Endpoint[1] = "/" /\ Endpoint[2] = "session"
<1>1. "/" \in Tok /\ "session" \in Tok
    BY DEF Tok
<1>2. Endpoint \in Text
    BY <1>1, Two DEF Endpoint
<1> QED  BY <1>2 DEF Endpoint

LEMMA EndpointFound ==
    ASSUME NEW s \in Text
    PROVE  HasEndpoint(Cat(s, Endpoint)) /\ Stripped(Cat(s, Endpoint)) = s
<1> DEFINE u == Cat(s, Endpoint)
<1>1. u \in Text /\ Len(s) \in Nat /\ Len(u) = Len(s) + 2
  <2>1. u \in Text /\ Len(s) \in Nat /\ Len(u) = Len(s) + Len(Endpoint)
      BY EndpointText, CatText
  <2> QED  BY <2>1, EndpointText
<1>2. SubSeq(u, 1, Len(s)) = s
    BY EndpointText, FirstPart
<1>3. Rest(u, Len(s) + 1) = Endpoint
  <2>1. 1 \in 1..(Len(Endpoint) + 1)
      BY EndpointText
  <2>2. Rest(u, Len(s) + 1) = Rest(Endpoint, 1)
      BY <2>1, EndpointText, RestShift
  <2> QED  BY <2>2, EndpointText, RestAll DEF Text
<1> HIDE DEF u
<1>4. Len(u) - 1 = Len(s) + 1 /\ Len(u) - 2 = Len(s) /\ Len(u) >= 2
    BY <1>1
<1> QED  BY <1>2, <1>3, <1>4 DEF HasEndpoint, Stripped, Rest, u

LEMMA EndpointMissing ==
    ASSUME NEW s \in Text, Len(s) >= 2, s[Len(s)] # "session"
    PROVE  ~HasEndpoint(s)
<1>1. Len(s) \in Nat /\ Len(s) - 1 \in 1..(Len(s) + 1)
    BY DEF Text
<1>2. Rest(s, Len(s) - 1)[2] = s[Len(s)]
  <2> DEFINE p == Len(s) - 1
  <2>1. p \in 1..(Len(s) + 1) /\ 2 \in 1..(Len(s) - p + 1) /\ p + 2 - 1 = Len(s)
      BY <1>1
  <2> HIDE DEF p
  <2>2. \A i \in 1..(Len(s) - p + 1) : Rest(s, p)[i] = s[p + i - 1]
      BY <2>1, RestIs DEF Text
  <2> QED  BY <2>1, <2>2 DEF p
<1>3. Rest(s, Len(s) - 1) # Endpoint
    BY <1>2, EndpointText
<1> QED  BY <1>3 DEF HasEndpoint, Rest

LEMMA HeadOfCat ==
    ASSUME NEW s \in Text, Len(s) > 0, NEW t \in Text
    PROVE  Cat(s, t) \in Text /\ Cat(s, t)[1] = s[1] /\ Len(Cat(s, t)) > 0
<1>1. /\ Cat(s, t) \in Text /\ Len(s) \in Nat /\ Len(t) \in Nat /\ Len(Cat(s, t)) = Len(s) + Len(t)
      /\ \A i \in 1..Len(s) : Cat(s, t)[i] = s[i]
    BY CatText
<1>2. 1 \in 1..Len(s)
    BY <1>1
<1> QED  BY <1>1, <1>2

LEMMA TailOfCat ==
    ASSUME NEW c \in Tok, NEW t \in Text
    PROVE  Tail(Cat(<<c>>, t)) = t
<1> DEFINE o == <<c>>
           u == Cat(o, t)
<1>1. o \in Text /\ Len(o) = 1
  <2>1. o \in Text
      BY OneToken DEF Text
  <2> QED  BY <2>1
<1> HIDE DEF o
<1>2. u \in Text /\ Len(t) \in Nat /\ Len(u) = 1 + Len(t)
  <2>1. u \in Text /\ Len(t) \in Nat /\ Len(u) = Len(o) + Len(t)
      BY <1>1, CatText
  <2> QED  BY <1>1, <2>1
<1>3. Rest(u, Len(o) + 1) = Rest(t, 1)
  <2>1. 1 \in 1..(Len(t) + 1)
      BY <1>2
  <2> QED  BY <1>1, <2>1, RestShift
<1>4. Rest(t, 1) = t
    BY RestAll DEF Text
<1> HIDE DEF u
<1>5. Rest(u, 2) = t
    BY <1>1, <1>3, <1>4
<1>6. Tail(u) = SubSeq(u, 2, Len(u))
    BY <1>2 DEF Text
<1> QED  BY <1>5, <1>6 DEF Rest, u, o

Base(c) == Cat(Authority, c)

LEMMA AuthorityIs ==
    /\ Authority \in Text /\ Len(Authority) = 5 /\ Clean(Authority) /\ Free(Authority, "?")
    /\ Authority[1] = "ws" /\ Authority[5] = "h"
<1>1. "ws" \in Tok /\ ":" \in Tok /\ "/" \in Tok /\ "h" \in Tok
    BY DEF Tok
<1>2. Authority \in Text
    BY <1>1 DEF Authority, Text
<1>3. /\ Len(Authority) = 5 /\ Authority[1] = "ws" /\ Authority[2] = ":"
      /\ Authority[3] = "/" /\ Authority[4] = "/" /\ Authority[5] = "h"
    BY DEF Authority
<1>4. Clean(Authority) /\ Free(Authority, "?")
    BY <1>3 DEF Clean, Free, KeyTokens
<1> QED  BY <1>2, <1>3, <1>4

LEMMA MountsAre ==
    ASSUME NEW c \in Mounts
    PROVE  /\ c \in Text /\ Clean(c) /\ Free(c, "?")
           /\ Len(c) > 0 => c[1] = "/" /\ c[Len(c)] = "p"
<1>1. <<>> \in Text /\ Len(<<>>) = 0
    BY DEF Text
<1>2. <<"/", "p">> \in Text
  <2>1. "/" \in Tok /\ "p" \in Tok
      BY DEF Tok
  <2> QED  BY <2>1, Two
<1>3. Len(<<"/", "p">>) = 2 /\ <<"/", "p">>[1] = "/" /\ <<"/", "p">>[2] = "p"
    OBVIOUS
<1>4. CASE c = <<>>
    BY <1>1, <1>4 DEF Clean, Free
<1>5. CASE c = <<"/", "p">>
  <2>1. Len(c) = 2 /\ c[1] = "/" /\ c[2] = "p"
      BY <1>3, <1>5
  <2> QED  BY <1>2, <1>5, <2>1 DEF Clean, Free, KeyTokens
<1> QED  BY <1>4, <1>5 DEF Mounts

LEMMA BaseIs ==
    ASSUME NEW c \in Mounts
    PROVE  /\ Base(c) \in Text /\ Clean(Base(c)) /\ Free(Base(c), "?")
           /\ Len(Base(c)) \in Nat /\ Len(Base(c)) >= 5 /\ Base(c)[1] = "ws"
           /\ Base(c)[Len(Base(c))] \in {"h", "p"}
<1> DEFINE b == Base(c)
<1>1. c \in Text /\ Clean(c) /\ Free(c, "?") /\ (Len(c) > 0 => c[Len(c)] = "p")
    BY MountsAre
<1>2. b \in Text /\ Clean(b) /\ Free(b, "?")
    BY <1>1, AuthorityIs, CatText, CleanCat, FreeCat DEF Base
<1>3. /\ Len(c) \in Nat /\ Len(b) = Len(Authority) + Len(c)
      /\ \A i \in 1..Len(Authority) : b[i] = Authority[i]
      /\ \A i \in 1..Len(c) : b[Len(Authority) + i] = c[i]
    BY <1>1, AuthorityIs, CatText DEF Base
<1> HIDE DEF b
<1>4. /\ Len(b) = 5 + Len(c) /\ \A i \in 1..5 : b[i] = Authority[i]
      /\ \A i \in 1..Len(c) : b[5 + i] = c[i]
    BY <1>3, AuthorityIs
<1>5. b[1] = "ws" /\ b[5] = "h"
    BY <1>4, AuthorityIs
<1>6. b[Len(b)] \in {"h", "p"}
  <2>1. CASE Len(c) = 0
      BY <1>4, <1>5, <2>1
  <2>2. CASE Len(c) > 0
    <3>1. Len(c) \in 1..Len(c)
        BY <1>3, <2>2
    <3> QED  BY <1>1, <1>4, <2>2, <3>1
  <2> QED  BY <1>3, <2>1, <2>2
<1> QED  BY <1>2, <1>3, <1>4, <1>5, <1>6 DEF b

LEMMA NothingBehind ==
    ASSUME NEW s \in Text
    PROVE  Cat(s, <<>>) = s
<1>1. s \in Seq(Tok)
    BY DEF Text
<1> QED  BY <1>1, ConcatEmptySeq DEF Cat

\* Of an address without a query, the base that the link is written on.
LEMMA BaseOfAddress ==
    ASSUME NEW url \in Text, NEW a \in Text, Before(url, "?") = a, Free(a, "#"),
           NEW b \in Text, Len(b) \in Nat, Len(b) >= 5, b[Len(b)] \in {"h", "p"}
    PROVE  /\ a \in {b, Cat(b, <<"/">>), Cat(b, Endpoint)} =>
                SessionBase(url) # <<>> /\ Trimmed(SessionBase(url)) = b
           /\ a = Cat(Cat(b, Endpoint), <<"/">>) =>
                SessionBase(url) # <<>> /\ Trimmed(SessionBase(url)) = Cat(b, Endpoint)
<1>1. b \in Text /\ Len(b) \in Nat /\ Len(b) >= 5 /\ b[Len(b)] \in {"h", "p"}
    OBVIOUS
<1>2. At(a, "#") = 0
    BY NotAt
<1>3. SessionBase(url) = IF HasEndpoint(a) THEN Stripped(a) ELSE a
    BY <1>2 DEF SessionBase
<1>4. Trimmed(b) = b /\ Trimmed(Cat(b, <<"/">>)) = b
    BY <1>1, TrimmedIs
<1>5. ASSUME NEW n \in Text, Len(n) \in Nat, Len(n) >= 5
      PROVE  n # <<>> /\ Cat(n, <<"/">>) # <<>> /\ ~HasEndpoint(Cat(n, <<"/">>))
  <2> DEFINE o == <<"/">>
             u == Cat(n, o)
  <2>1. o \in Text /\ Len(o) = 1 /\ o[1] = "/"
    <3>1. o \in Text
        BY TokensAre, OneToken DEF Text
    <3> QED  BY <3>1
  <2> HIDE DEF o
  <2>2. u \in Text /\ Len(u) = Len(n) + Len(o) /\ \A i \in 1..Len(o) : u[Len(n) + i] = o[i]
      BY <1>5, <2>1, CatText
  <2> HIDE DEF u
  <2>3. Len(u) = Len(n) + 1 /\ u[Len(u)] = "/"
    <3>1. 1 \in 1..Len(o)
        BY <2>1
    <3> QED  BY <2>1, <2>2, <3>1
  <2>4. ~HasEndpoint(u)
      BY <1>5, <2>2, <2>3, EndpointMissing
  <2>5. u # <<>> /\ n # <<>>
      BY <1>5, <2>3
  <2> QED  BY <2>4, <2>5 DEF u, o
<1>6. ~HasEndpoint(b)
    BY <1>1, EndpointMissing
<1>7. HasEndpoint(Cat(b, Endpoint)) /\ Stripped(Cat(b, Endpoint)) = b
    BY <1>1, EndpointFound
<1>8. ASSUME a = b
      PROVE  SessionBase(url) # <<>> /\ Trimmed(SessionBase(url)) = b
    BY <1>1, <1>3, <1>4, <1>5, <1>6, <1>8
<1>9. ASSUME a = Cat(b, <<"/">>)
      PROVE  SessionBase(url) # <<>> /\ Trimmed(SessionBase(url)) = b
    BY <1>1, <1>3, <1>4, <1>5, <1>9
<1>10. ASSUME a = Cat(b, Endpoint)
       PROVE  SessionBase(url) # <<>> /\ Trimmed(SessionBase(url)) = b
    BY <1>1, <1>3, <1>4, <1>5, <1>7, <1>10
<1> DEFINE n == Cat(b, Endpoint)
<1>11. n \in Text /\ Len(n) \in Nat /\ Len(n) >= 5 /\ n[Len(n)] # "/"
  <2>1. /\ n \in Text /\ Len(n) = Len(b) + Len(Endpoint)
        /\ \A i \in 1..Len(Endpoint) : n[Len(b) + i] = Endpoint[i]
      BY <1>1, EndpointText, CatText
  <2> HIDE DEF n
  <2>2. 2 \in 1..Len(Endpoint) /\ Len(n) = Len(b) + 2
      BY <1>1, <2>1, EndpointText
  <2>3. n[Len(b) + 2] = "session"
      BY <2>1, <2>2, EndpointText
  <2> QED  BY <1>1, <2>1, <2>2, <2>3
<1> HIDE DEF n
<1>12. /\ Trimmed(Cat(n, <<"/">>)) = n /\ Cat(n, <<"/">>) # <<>>
       /\ ~HasEndpoint(Cat(n, <<"/">>))
  <2>1. Trimmed(Cat(n, <<"/">>)) = n
      BY <1>11, TrimmedIs
  <2> QED  BY <1>5, <1>11, <2>1
<1>13. ASSUME a = Cat(n, <<"/">>)
       PROVE  SessionBase(url) # <<>> /\ Trimmed(SessionBase(url)) = n
    BY <1>3, <1>12, <1>13
<1> QED  BY <1>8, <1>9, <1>10, <1>13 DEF n

LEMMA OldQuery ==
    /\ <<"?", "room", "=", "a">> = Cat(<<"?">>, <<"room", "=", "a">>)
    /\ <<"room", "=", "a">> \in Text
<1> DEFINE x == <<"room", "=", "a">>
           o == <<"?">>
           y == Cat(o, x)
           l == <<"?", "room", "=", "a">>
<1>1. "room" \in Tok /\ "=" \in Tok /\ "a" \in Tok /\ "?" \in Tok
    BY DEF Tok
<1>2. x \in Text /\ o \in Text /\ l \in Seq(Tok)
    BY <1>1, Three, OneToken DEF Text
<1>3. Len(x) = 3 /\ x[1] = "room" /\ x[2] = "=" /\ x[3] = "a" /\ Len(o) = 1 /\ o[1] = "?"
    OBVIOUS
<1>4. Len(l) = 4 /\ l[1] = "?" /\ l[2] = "room" /\ l[3] = "=" /\ l[4] = "a"
    OBVIOUS
<1> HIDE DEF x, l, o
<1>5. /\ y \in Text /\ Len(y) = Len(o) + Len(x)
      /\ \A i \in 1..Len(o) : y[i] = o[i]
      /\ \A i \in 1..Len(x) : y[Len(o) + i] = x[i]
    BY <1>2, CatText
<1> HIDE DEF y
<1>6. Len(y) = 4 /\ y[1] = "?" /\ y[2] = "room" /\ y[3] = "=" /\ y[4] = "a"
  <2>1. 1 \in 1..Len(o) /\ 1 \in 1..Len(x) /\ 2 \in 1..Len(x) /\ 3 \in 1..Len(x)
      BY <1>3
  <2>2. y[1] = o[1] /\ y[1 + 1] = x[1] /\ y[1 + 2] = x[2] /\ y[1 + 3] = x[3]
      BY <1>3, <1>5, <2>1
  <2> QED  BY <1>3, <1>5, <2>2
<1>7. \A i \in 1..Len(l) : l[i] = y[i]
    BY <1>4, <1>6
<1>8. l = y
    BY <1>2, <1>4, <1>5, <1>6, <1>7, SeqEqual DEF Text
<1> QED  BY <1>2, <1>8 DEF l, x, y, o

LEMMA Marks ==
    /\ <<"?">> \in Text /\ Clean(<<"?">>) /\ <<"#">> \in Text /\ <<"&">> \in Text
    /\ <<"/">> \in Text /\ Clean(<<"/">>) /\ Free(<<"/">>, "?")
    /\ <<"=">> \in Text
<1>1. /\ "?" \in Tok /\ "?" \notin {"#"} \cup KeyTokens /\ "#" \in Tok /\ "&" \in Tok
      /\ "/" \in Tok /\ "/" \notin {"#"} \cup KeyTokens /\ "/" # "?" /\ "=" \in Tok
    BY DEF Tok, KeyTokens
<1>2. <<"?">> \in Text /\ Clean(<<"?">>) /\ <<"/">> \in Text /\ Clean(<<"/">>)
    BY <1>1, CleanOne
<1>3. Free(<<"/">>, "?")
    BY <1>1, FreeOne
<1>4. <<"#">> \in Text /\ <<"&">> \in Text /\ <<"=">> \in Text
    BY <1>1, OneToken DEF Text
<1> QED  BY <1>2, <1>3, <1>4

(* The same address over another scheme. *)
Sockets == {"ws", "wss"}
PageOf(s) == IF s = "wss" THEN "https" ELSE "http"
SBase(s, c) == Cat(<<s>>, Rest(Base(c), 2))
Web(s, c) == Cat(<<PageOf(s)>>, Rest(Base(c), 2))
Schemed(b, t) ==
    /\ b \in Text /\ Clean(b) /\ Free(b, "?") /\ Len(b) \in Nat /\ Len(b) >= 5
    /\ b[1] = t /\ b[Len(b)] \in {"h", "p"}

LEMMA RestFree ==
    ASSUME NEW s \in Text, NEW p \in 1..(Len(s) + 1)
    PROVE  /\ Rest(s, p) \in Text /\ (Clean(s) => Clean(Rest(s, p)))
           /\ Free(s, "?") => Free(Rest(s, p), "?")
<1>1. /\ Rest(s, p) \in Text /\ Len(s) \in Nat /\ Len(Rest(s, p)) = Len(s) - p + 1
      /\ \A i \in 1..(Len(s) - p + 1) : Rest(s, p)[i] = s[p + i - 1]
    BY RestIs DEF Text
<1>2. ASSUME NEW i \in 1..Len(Rest(s, p))  PROVE p + i - 1 \in 1..Len(s) /\ Rest(s, p)[i] = s[p + i - 1]
  <2>1. i \in 1..(Len(s) - p + 1)
      BY <1>1
  <2>2. p + i - 1 \in 1..Len(s)
      BY <1>1, <2>1
  <2> QED  BY <1>1, <2>1, <2>2
<1> QED  BY <1>1, <1>2 DEF Clean, Free

LEMMA SchemeTokens ==
    ASSUME NEW t \in {"ws", "wss", "http", "https"}
    PROVE  /\ t \in Tok /\ <<t>> \in Text /\ Len(<<t>>) = 1 /\ <<t>>[1] = t
           /\ Clean(<<t>>) /\ Free(<<t>>, "?")
<1>1. t \in Tok /\ t \notin {"#"} \cup KeyTokens /\ t # "?"
    BY DEF Tok, KeyTokens
<1>2. <<t>> \in Text /\ Clean(<<t>>)
    BY <1>1, CleanOne
<1>3. Free(<<t>>, "?")
    BY <1>1, FreeOne
<1> QED  BY <1>1, <1>2, <1>3

LEMMA OverScheme ==
    ASSUME NEW c \in Mounts, NEW t \in {"ws", "wss", "http", "https"}
    PROVE  Schemed(Cat(<<t>>, Rest(Base(c), 2)), t)
<1> DEFINE b == Base(c)
           e == Rest(b, 2)
           o == <<t>>
           u == Cat(o, e)
<1>1. /\ b \in Text /\ Clean(b) /\ Free(b, "?") /\ Len(b) \in Nat /\ Len(b) >= 5
      /\ b[Len(b)] \in {"h", "p"}
    BY BaseIs
<1> HIDE DEF b
<1>2. 2 \in 1..(Len(b) + 1)
    BY <1>1
<1>3. e \in Text /\ Clean(e) /\ Free(e, "?")
    BY <1>1, <1>2, RestFree
<1>4. Len(e) = Len(b) - 2 + 1 /\ \A i \in 1..(Len(b) - 2 + 1) : e[i] = b[2 + i - 1]
    BY <1>1, <1>2, RestIs DEF Text
<1> HIDE DEF e
<1>5. o \in Text /\ Len(o) = 1 /\ o[1] = t /\ Clean(o) /\ Free(o, "?")
    BY SchemeTokens
<1> HIDE DEF o
<1>6. u \in Text /\ Clean(u) /\ Free(u, "?")
    BY <1>3, <1>5, CatText, CleanCat, FreeCat
<1>7. /\ Len(u) = Len(o) + Len(e) /\ \A i \in 1..Len(o) : u[i] = o[i]
      /\ \A i \in 1..Len(e) : u[Len(o) + i] = e[i]
    BY <1>3, <1>5, CatText
<1> HIDE DEF u
<1>8. Len(u) = Len(b) /\ u[1] = t
  <2>1. 1 \in 1..Len(o)
      BY <1>5
  <2> QED  BY <1>1, <1>4, <1>5, <1>7, <2>1
<1>9. u[Len(u)] = b[Len(b)]
  <2> DEFINE n == Len(b) - 1
  <2>1. n \in 1..Len(e) /\ n \in 1..(Len(b) - 2 + 1) /\ 1 + n = Len(b) /\ 2 + n - 1 = Len(b)
      BY <1>1, <1>4
  <2> HIDE DEF n
  <2>2. u[1 + n] = e[n] /\ e[n] = b[2 + n - 1]
      BY <1>4, <1>5, <1>7, <2>1
  <2> QED  BY <1>8, <2>1, <2>2
<1>10. Schemed(u, t)
    BY <1>1, <1>6, <1>8, <1>9 DEF Schemed
<1> QED  BY <1>10 DEF u, o, e, b

LEMMA SchemedIs ==
    ASSUME NEW c \in Mounts
    PROVE  /\ \A s \in Sockets : Schemed(SBase(s, c), s) /\ Schemed(Web(s, c), PageOf(s))
           /\ Rest(Base(c), 2) \in Text /\ SBase("ws", c) = Base(c)
<1>1. ASSUME NEW s \in Sockets  PROVE Schemed(SBase(s, c), s) /\ Schemed(Web(s, c), PageOf(s))
  <2>1. s \in {"ws", "wss", "http", "https"} /\ PageOf(s) \in {"ws", "wss", "http", "https"}
      BY DEF Sockets, PageOf
  <2> QED  BY <2>1, OverScheme DEF SBase, Web
<1> DEFINE b == Base(c)
<1>2. b \in Text /\ Len(b) \in Nat /\ Len(b) >= 5 /\ b[1] = "ws"
    BY BaseIs
<1> HIDE DEF b
<1>3. 2 \in 1..(Len(b) + 1) /\ 1 \in 1..Len(b) /\ 1 + 1 = 2
    BY <1>2
<1>4. Rest(b, 2) \in Text
    BY <1>2, <1>3, RestFree
<1>5. Rest(b, 1) = Cat(<<b[1]>>, Rest(b, 1 + 1)) /\ Rest(b, 1) = b
    BY <1>2, <1>3, RestStep, RestAll DEF Text
<1>6. Cat(<<"ws">>, Rest(b, 2)) = b
    BY <1>2, <1>3, <1>5
<1> QED  BY <1>1, <1>4, <1>6 DEF b, SBase

\* The addresses a host is given are as the lemmas on bases need them.
LEMMA GivenAddresses ==
    ASSUME NEW m \in Mounts
    PROVE  /\ Addresses(m) = {Cat(Base(m), <<>>), Cat(Base(m), <<"/">>), Cat(Base(m), Endpoint),
                              Cat(Base(m), Cat(Endpoint, Cat(<<"?">>, <<"room", "=", "a">>)))}
           /\ Unseatable(m) = {Cat(Base(m), <<"#", "a">>), SBase("wss", m),
                               Cat(Cat(Base(m), Endpoint), <<"/">>)}
<1>1. Addresses(m) = {Cat(Base(m), <<>>), Cat(Base(m), <<"/">>), Cat(Base(m), Endpoint),
                      Cat(Base(m), Cat(Endpoint, <<"?", "room", "=", "a">>))}
    BY Zenon DEF Addresses, Cat, Base
<1>2. Unseatable(m) = {Cat(Base(m), <<"#", "a">>), Cat(Cat(<<"wss">>, Tail(Authority)), m),
                       Cat(Cat(Base(m), Endpoint), <<"/">>)}
    BY Zenon DEF Unseatable, Cat, Base
<1>3. Cat(Cat(<<"wss">>, Tail(Authority)), m) = SBase("wss", m)
  <2> DEFINE a == Authority
             e == Rest(a, 2)
  <2>1. a \in Text /\ Len(a) = 5 /\ a[1] = "ws"
      BY AuthorityIs
  <2> HIDE DEF a
  <2>3. 2 \in 1..(Len(a) + 1) /\ 1 \in 1..Len(a) /\ 1 + 1 = 2
      BY <2>1
  <2>4. e \in Text
      BY <2>1, <2>3, RestFree
  <2>5. Rest(a, 1) = Cat(<<a[1]>>, Rest(a, 1 + 1)) /\ Rest(a, 1) = a
      BY <2>1, <2>3, RestStep, RestAll DEF Text
  <2>6. a = Cat(<<"ws">>, e)
      BY <2>1, <2>3, <2>5
  <2> HIDE DEF e
  <2>7. m \in Text /\ <<"ws">> \in Text /\ <<"wss">> \in Text /\ "ws" \in Tok
      BY MountsAre, SchemeTokens
  <2>2. Tail(a) = e
      BY <2>4, <2>6, <2>7, TailOfCat
  <2>8. Cat(a, m) = Cat(<<"ws">>, Cat(e, m)) /\ Cat(Cat(<<"wss">>, e), m) = Cat(<<"wss">>, Cat(e, m))
      BY <2>4, <2>6, <2>7, CatTextAssociates
  <2>9. Cat(e, m) \in Text
      BY <2>4, <2>7, CatText
  <2>10. Base(m) = Cat(<<"ws">>, Cat(e, m))
      BY <2>8 DEF Base, a
  <2>11. Base(m) \in Text /\ Len(Base(m)) \in Nat /\ Len(Base(m)) >= 5
      BY BaseIs
  <2>12. Tail(Base(m)) = Cat(e, m)
      BY <2>7, <2>9, <2>10, TailOfCat
  <2>13. Tail(Base(m)) = Rest(Base(m), 2)
      BY <2>11 DEF Rest, Text
  <2> QED  BY <2>2, <2>8, <2>12, <2>13 DEF SBase, a
<1> QED  BY <1>1, <1>2, <1>3, OldQuery

(* The base that a link is written on, from each address a host is given. *)
LEMMA ServersGiveABase ==
    ASSUME NEW m \in Mounts, NEW url \in Servers(m)
    PROVE  /\ url \in Addresses(m) => SessionBase(url) # <<>> /\ Trimmed(SessionBase(url)) = Base(m)
           /\ url \in Unseatable(m) =>
                \/ SessionBase(url) = <<>>
                \/ Trimmed(SessionBase(url)) \in {SBase("wss", m), Cat(Base(m), Endpoint)}
<1> DEFINE b == Base(m)
           o == <<"/">>
           w == SBase("wss", m)
           n == Cat(b, Endpoint)
<1>1. /\ b \in Text /\ Clean(b) /\ Free(b, "?") /\ Len(b) \in Nat /\ Len(b) >= 5
      /\ b[Len(b)] \in {"h", "p"}
    BY BaseIs
<1>2. /\ w \in Text /\ Clean(w) /\ Free(w, "?") /\ Len(w) \in Nat /\ Len(w) >= 5
      /\ w[Len(w)] \in {"h", "p"}
    BY SchemedIs DEF Schemed, Sockets
<1>3. o \in Text /\ Clean(o) /\ Free(o, "?")
    BY Marks
<1>4. Endpoint \in Text /\ Clean(Endpoint) /\ Free(Endpoint, "?")
    BY EndpointText DEF Clean, Free, KeyTokens
<1>5. /\ Addresses(m) = {Cat(b, <<>>), Cat(b, o), n,
                         Cat(b, Cat(Endpoint, Cat(<<"?">>, <<"room", "=", "a">>)))}
      /\ Unseatable(m) = {Cat(b, <<"#", "a">>), w, Cat(n, o)}
    BY GivenAddresses
<1>6. Cat(b, <<>>) = b
    BY <1>1, NothingBehind
<1> HIDE DEF b, w
<1>7. n \in Text /\ Clean(n) /\ Free(n, "?")
    BY <1>1, <1>4, CatText, CleanCat, FreeCat
<1> HIDE DEF o
<1>8. ASSUME NEW s \in {b, Cat(b, o), n, w, Cat(n, o)}
      PROVE  s \in Text /\ Free(s, "#") /\ Before(s, "?") = s
  <2>1. s \in Text /\ Clean(s) /\ Free(s, "?")
    <3>1. Cat(b, o) \in Text /\ Clean(Cat(b, o)) /\ Free(Cat(b, o), "?")
        BY <1>1, <1>3, CatText, CleanCat, FreeCat
    <3>2. Cat(n, o) \in Text /\ Clean(Cat(n, o)) /\ Free(Cat(n, o), "?")
        BY <1>3, <1>7, CatText, CleanCat, FreeCat
    <3> QED  BY <1>1, <1>2, <1>7, <3>1, <3>2
  <2> QED  BY <2>1, CleanFree, NotAt
<1>9. ASSUME url \in Addresses(m)
      PROVE  SessionBase(url) # <<>> /\ Trimmed(SessionBase(url)) = b
  <2>1. CASE url \in {b, Cat(b, o), n}
    <3>1. url \in Text /\ Free(url, "#") /\ Before(url, "?") = url
        BY <1>8, <2>1
    <3> QED  BY <1>1, <2>1, <3>1, BaseOfAddress DEF o, n
  <2>2. CASE url = Cat(b, Cat(Endpoint, Cat(<<"?">>, <<"room", "=", "a">>)))
    <3> DEFINE x == <<"room", "=", "a">>
               y == Cat(<<"?">>, x)
    <3>1. x \in Text
        BY OldQuery
    <3> HIDE DEF x
    <3>2. y \in Text
        BY <3>1, Marks, CatText
    <3>3. url = Cat(n, y)
        BY <1>1, <1>4, <2>2, <3>2, CatTextAssociates DEF x
    <3>4. url \in Text /\ Before(url, "?") = n
        BY <1>7, <3>1, <3>3, TokensAre, SplitsOnce
    <3>5. Free(n, "#")
        BY <1>8
    <3> QED  BY <1>1, <1>7, <3>4, <3>5, BaseOfAddress DEF n
  <2> QED  BY <1>5, <1>6, <1>9, <2>1, <2>2
<1>10. ASSUME url \in Unseatable(m)
       PROVE  \/ SessionBase(url) = <<>>
              \/ Trimmed(SessionBase(url)) \in {w, n}
  <2>1. CASE url = Cat(b, <<"#", "a">>)
    <3>1. /\ <<"#", "a">> = Cat(<<"#">>, <<"a">>) /\ <<"a">> \in Text /\ <<"#", "a">> \in Text
          /\ Free(<<"#", "a">>, "?")
      <4>1. "#" \in Tok /\ "a" \in Tok
          BY DEF Tok
      <4>2. Free(<<"#", "a">>, "?")
          BY DEF Free
      <4> QED  BY <4>1, <4>2, Two
    <3>2. Free(b, "#")
        BY <1>8
    <3>3. At(url, "#") = Len(b) + 1
        BY <1>1, <2>1, <3>1, <3>2, TokensAre, SplitsOnce
    <3>4. url \in Text /\ Free(url, "?")
        BY <1>1, <2>1, <3>1, CatText, FreeCat
    <3>5. Before(url, "?") = url
        BY <3>4, NotAt
    <3> QED  BY <1>1, <3>3, <3>5 DEF SessionBase
  <2>2. CASE url = w
    <3>1. url \in Text /\ Free(url, "#") /\ Before(url, "?") = url
        BY <1>8, <2>2
    <3> QED  BY <1>2, <2>2, <3>1, BaseOfAddress
  <2>3. CASE url = Cat(n, o)
    <3>1. url \in Text /\ Free(url, "#") /\ Before(url, "?") = url
        BY <1>8, <2>3
    <3> QED  BY <1>1, <2>3, <3>1, BaseOfAddress DEF o, n
  <2> QED  BY <1>5, <1>10, <2>1, <2>2, <2>3
<1> QED  BY <1>9, <1>10 DEF b, w, n

Address(b, q) == Cat(Cat(b, Endpoint), Cat(<<"?">>, q))
PageAddress(s, c, q) == Cat(Cat(Web(s, c), <<"/">>), Cat(<<"?">>, q))
LinkOf(a, f) == Cat(a, Cat(<<"#">>, f))

LEMMA EndpointClean == Endpoint \in Text /\ Clean(Endpoint) /\ Free(Endpoint, "?")
  BY EndpointText DEF Clean, Free, KeyTokens

LEMMA AddressIs ==
    ASSUME NEW s \in Text, Clean(s), Free(s, "?"), NEW q \in Text, Clean(q)
    PROVE  LET a == Cat(s, Cat(<<"?">>, q))
           IN a \in Text /\ Clean(a) /\ Before(a, "?") = s /\ After(a, "?") = q /\ At(a, "?") # 0
<1> DEFINE y == Cat(<<"?">>, q)
           a == Cat(s, y)
<1>1. y \in Text /\ Clean(y)
    BY Marks, CatText, CleanCat
<1>2. a \in Text /\ Clean(a)
    BY <1>1, CatText, CleanCat
<1>3. At(a, "?") = Len(s) + 1 /\ Before(a, "?") = s /\ After(a, "?") = q
    BY TokensAre, SplitsOnce
<1>4. Len(s) + 1 # 0
    BY DEF Text
<1> QED  BY <1>2, <1>3, <1>4

LEMMA LinkIs ==
    ASSUME NEW a \in Text, Clean(a), NEW f \in Text
    PROVE  /\ LinkOf(a, f) \in Text /\ At(LinkOf(a, f), "#") # 0
           /\ Before(LinkOf(a, f), "#") = a /\ After(LinkOf(a, f), "#") = f
<1>1. Free(a, "#")
    BY CleanFree
<1>2. /\ LinkOf(a, f) \in Text /\ At(LinkOf(a, f), "#") = Len(a) + 1
      /\ Before(LinkOf(a, f), "#") = a /\ After(LinkOf(a, f), "#") = f
    BY <1>1, TokensAre, SplitsOnce DEF LinkOf
<1>3. Len(a) + 1 # 0
    BY DEF Text
<1> QED  BY <1>2, <1>3

(* The two addresses of a link, and the wire address each stands for. *)
LEMMA AddressesAre ==
    ASSUME NEW s \in Sockets, NEW c \in Mounts, NEW q \in Text, Clean(q)
    PROVE  /\ Address(SBase(s, c), q) \in Text /\ Clean(Address(SBase(s, c), q))
           /\ Before(Address(SBase(s, c), q), "?") = Cat(SBase(s, c), Endpoint)
           /\ After(Address(SBase(s, c), q), "?") = q
           /\ PageAddress(s, c, q) \in Text /\ Clean(PageAddress(s, c, q))
           /\ Before(PageAddress(s, c, q), "?") = Cat(Web(s, c), <<"/">>)
           /\ After(PageAddress(s, c, q), "?") = q /\ At(PageAddress(s, c, q), "?") # 0
<1>1. /\ SBase(s, c) \in Text /\ Clean(SBase(s, c)) /\ Free(SBase(s, c), "?")
      /\ Web(s, c) \in Text /\ Clean(Web(s, c)) /\ Free(Web(s, c), "?")
    BY SchemedIs DEF Schemed
<1>2. Cat(SBase(s, c), Endpoint) \in Text /\ Clean(Cat(SBase(s, c), Endpoint)) /\ Free(Cat(SBase(s, c), Endpoint), "?")
    BY <1>1, EndpointClean, CatText, CleanCat, FreeCat
<1>3. /\ Cat(Web(s, c), <<"/">>) \in Text /\ Clean(Cat(Web(s, c), <<"/">>))
      /\ Free(Cat(Web(s, c), <<"/">>), "?")
    BY <1>1, Marks, CatText, CleanCat, FreeCat
<1>4. /\ Address(SBase(s, c), q) \in Text /\ Clean(Address(SBase(s, c), q))
      /\ Before(Address(SBase(s, c), q), "?") = Cat(SBase(s, c), Endpoint)
      /\ After(Address(SBase(s, c), q), "?") = q
    BY <1>2, AddressIs DEF Address
<1>5. /\ PageAddress(s, c, q) \in Text /\ Clean(PageAddress(s, c, q))
      /\ Before(PageAddress(s, c, q), "?") = Cat(Web(s, c), <<"/">>)
      /\ After(PageAddress(s, c, q), "?") = q /\ At(PageAddress(s, c, q), "?") # 0
    BY <1>3, AddressIs DEF PageAddress
<1> QED  BY <1>4, <1>5

LEMMA NoNameIsNone ==
    ASSUME NEW s \in Seq(Characters)
    PROVE  s # None
<1>1. "none" \notin Characters
    BY EscapesAre DEF Characters, Unreserved
<1>2. Len(s) = 1 => s[1] \in Characters
    OBVIOUS
<1>3. Len(None) = 1 /\ None[1] = "none"
    BY DEF None
<1> QED  BY <1>1, <1>2, <1>3

(* The link the host writes. *)
LEMMA MintedIs ==
    ASSUME NEW c \in Mounts, NEW base, Trimmed(base) = Base(c),
           NEW r \in Seq(Characters), NEW t \in Seq(Characters)
    PROVE  SessionUrl(base, r, t) = Address(Base(c), Query(r, t))
<1> DEFINE er == PercentEncode(r)
           et == PercentEncode(t)
           pr == Pair("room", er)
           pt == Pair("token", et)
           a == Cat(Base(c), Endpoint)
           x == Cat(<<"?">>, pr)
           y == Cat(<<"&">>, pt)
<1>1. r # None /\ t # None
    BY NoNameIsNone
<1>2. er \in Text /\ et \in Text
    BY EncodedText
<1>3. SessionUrl(base, r, t) =
        ((Base(c) \o Endpoint) \o (<<"?", "room", "=">> \o er)) \o (<<"&", "token", "=">> \o et)
    BY <1>1 DEF SessionUrl
<1>4. SessionUrl(base, r, t) =
        Cat(Cat(Cat(Base(c), Endpoint), Cat(<<"?", "room", "=">>, er)), Cat(<<"&", "token", "=">>, et))
    BY <1>3, Zenon DEF Cat
<1> HIDE DEF er, et
<1>5. Cat(<<"?", "room", "=">>, er) = x /\ Cat(<<"&", "token", "=">>, et) = y
      /\ pr \in Text /\ pt \in Text
    BY <1>2, NamesAre, TokensAre, PairWritten
<1>6. a \in Text
    BY BaseIs, EndpointText, CatText
<1>7. x \in Text /\ y \in Text
    BY <1>5, Marks, CatText
<1> HIDE DEF a, pr, pt
<1>8. Cat(Cat(a, x), y) = Cat(a, Cat(x, y))
    BY <1>6, <1>7, CatTextAssociates
<1>9. Cat(x, y) = Cat(<<"?">>, Cat(pr, y))
    BY <1>5, <1>7, Marks, CatTextAssociates
<1>10. Query(r, t) = Cat(pr, y)
    BY DEF Query, AndThen, pr, pt, er, et
<1>11. SessionUrl(base, r, t) = Cat(Cat(a, x), y)
    BY <1>4, <1>5 DEF a
<1> QED  BY <1>8, <1>9, <1>10, <1>11 DEF Address, a

LEMMA FragmentIs ==
    ASSUME EncodeKey(RoomKey) \in Text, EncodeKey(HostKey) \in Text
    PROVE  Fragment = FragmentOf(EncodeKey(RoomKey), EncodeKey(HostKey))
<1> DEFINE e == EncodeKey(RoomKey)
           g == EncodeKey(HostKey)
           p == Pair("k", e)
           x == <<"&", "h", "=">>
<1>1. Fragment = ((<<"k", "=">> \o e) \o x) \o g
    BY DEF Fragment
<1>2. Fragment = Cat(Cat(Cat(<<"k", "=">>, e), x), g)
    BY <1>1, Zenon DEF Cat
<1>3. e \in Text /\ g \in Text
    OBVIOUS
<1> HIDE DEF e, g
<1>4. Cat(<<"k", "=">>, e) = p /\ p \in Text /\ Cat(x, g) = Cat(<<"&">>, Pair("h", g))
    BY <1>3, NamesAre, TokensAre, PairWritten
<1>5. x \in Text
  <2>1. "&" \in Tok /\ "h" \in Tok /\ "=" \in Tok
      BY DEF Tok
  <2> QED  BY <2>1, Three
<1> HIDE DEF x, p
<1>6. Cat(Cat(p, x), g) = Cat(p, Cat(x, g))
    BY <1>3, <1>4, <1>5, CatTextAssociates
<1> QED  BY <1>2, <1>4, <1>6 DEF FragmentOf, AndThen, e, g, p

\* Text behind a link lands in its fragment.
LEMMA LinkMore ==
    ASSUME NEW a \in Text, NEW f \in Text, NEW s \in Text
    PROVE  Cat(LinkOf(a, f), s) = LinkOf(a, Cat(f, s))
<1> DEFINE x == Cat(<<"#">>, f)
<1>1. x \in Text
    BY Marks, CatText
<1>2. Cat(Cat(a, x), s) = Cat(a, Cat(x, s))
    BY <1>1, CatTextAssociates
<1>3. Cat(x, s) = Cat(<<"#">>, Cat(f, s))
    BY Marks, CatTextAssociates
<1> QED  BY <1>2, <1>3 DEF LinkOf

(* The links that are carried on. *)
LEMMA PageFormIs ==
    ASSUME NEW c \in Mounts, NEW q \in Text, Clean(q), NEW f \in Text,
           link = LinkOf(Address(Base(c), q), f), NEW z \in Sockets
    PROVE  PageForm(PageOf(z)) = LinkOf(PageAddress(z, c, q), f)
<1> DEFINE b == Base(c)
           a == Address(b, q)
           web == Rest(b, 2)
           p == PageOf(z)
<1> HIDE DEF p
<1>1. a \in Text /\ Clean(a) /\ Before(a, "?") = Cat(b, Endpoint) /\ After(a, "?") = q
    BY AddressesAre, SchemedIs DEF Sockets
<1>2. Before(link, "#") = a /\ After(link, "#") = f
    BY <1>1, LinkIs
<1>3. Stripped(Cat(b, Endpoint)) = b
    BY BaseIs, EndpointFound
<1>4. PageForm(p) = ((((<<p>> \o web) \o <<"/", "?">>) \o q) \o <<"#">>) \o f
    BY <1>1, <1>2, <1>3 DEF PageForm, Rest
<1>5. PageForm(p) = Cat(Cat(Cat(Cat(Cat(<<p>>, web), <<"/", "?">>), q), <<"#">>), f)
    BY <1>4, Zenon DEF Cat
<1>6. web \in Text /\ Web(z, c) \in Text
    BY SchemedIs DEF Schemed
<1>7. <<"/", "?">> = Cat(<<"/">>, <<"?">>) /\ <<"/", "?">> \in Text
    BY TokensAre, Two
<1> DEFINE w == Web(z, c)
           s == Cat(w, <<"/">>)
<1>8. PageForm(p) = Cat(Cat(Cat(Cat(w, <<"/", "?">>), q), <<"#">>), f)
    BY <1>5 DEF Web, p
<1> HIDE DEF w
<1>9. w \in Text /\ s \in Text
    BY <1>6, Marks, CatText DEF w
<1>10. Cat(w, <<"/", "?">>) = Cat(s, <<"?">>)
    BY <1>7, <1>9, Marks, CatTextAssociates
<1> HIDE DEF s
<1>11. Cat(Cat(s, <<"?">>), q) = Cat(s, Cat(<<"?">>, q))
    BY <1>9, Marks, CatTextAssociates
<1> DEFINE d == Cat(s, Cat(<<"?">>, q))
<1>12. d \in Text
  <2>1. Cat(<<"?">>, q) \in Text
      BY Marks, CatText
  <2> QED  BY <1>9, <2>1, CatText
<1>13. PageForm(p) = Cat(Cat(d, <<"#">>), f)
    BY <1>8, <1>10, <1>11
<1>14. d = PageAddress(z, c, q)
    BY DEF PageAddress, s, w
<1> HIDE DEF d
<1>15. Cat(Cat(d, <<"#">>), f) = Cat(d, Cat(<<"#">>, f))
    BY <1>12, Marks, CatTextAssociates
<1> QED  BY <1>13, <1>14, <1>15 DEF LinkOf, p

LEMMA WithPairIs ==
    ASSUME NEW z \in Sockets, NEW c \in Mounts, NEW q \in Text, Clean(q), NEW f \in Text, NEW pair \in Text
    PROVE  WithPair(LinkOf(PageAddress(z, c, q), f), pair)
              = LinkOf(PageAddress(z, c, AndThen(q, pair)), f)
<1> DEFINE s == Cat(Web(z, c), <<"/">>)
           a == PageAddress(z, c, q)
           l == LinkOf(a, f)
<1>1. a \in Text /\ Clean(a)
    BY AddressesAre
<1>2. Before(l, "#") = a /\ After(l, "#") = f /\ At(l, "#") # 0
    BY <1>1, LinkIs
<1>3. WithPair(l, pair) = ((a \o <<"&">>) \o pair) \o (<<"#">> \o f)
    BY <1>2 DEF WithPair
<1>4. WithPair(l, pair) = Cat(Cat(Cat(a, <<"&">>), pair), Cat(<<"#">>, f))
    BY <1>3, Zenon DEF Cat
<1> DEFINE y == Cat(<<"&">>, pair)
           x == Cat(<<"?">>, q)
<1>5. y \in Text /\ x \in Text /\ s \in Text
    BY SchemedIs, Marks, CatText DEF Schemed
<1>6. a = Cat(s, x)
    BY DEF PageAddress
<1> HIDE DEF a, s
<1>7. Cat(Cat(a, <<"&">>), pair) = Cat(a, y)
    BY <1>1, Marks, CatTextAssociates
<1>8. Cat(Cat(s, x), y) = Cat(s, Cat(x, y))
    BY <1>5, CatTextAssociates
<1>9. Cat(x, y) = Cat(<<"?">>, Cat(q, y))
    BY <1>5, Marks, CatTextAssociates
<1>10. Cat(a, y) = Cat(s, Cat(<<"?">>, AndThen(q, pair)))
    BY <1>6, <1>8, <1>9 DEF AndThen
<1> QED  BY <1>4, <1>7, <1>10 DEF LinkOf, PageAddress, s, a

LEMMA FragmentTail ==
    ASSUME NEW e \in Text
    PROVE  \E p \in Text : \A g \in Text : FragmentOf(e, g) = Cat(p, g)
<1> DEFINE pk == Pair("k", e)
           x == <<"&", "h", "=">>
           p == Cat(pk, x)
<1>1. pk \in Text
    BY NamesAre, TokensAre, PairWritten
<1>2. x \in Text
  <2>1. "&" \in Tok /\ "h" \in Tok /\ "=" \in Tok
      BY DEF Tok
  <2> QED  BY <2>1, Three
<1>3. p \in Text
    BY <1>1, <1>2, CatText
<1> HIDE DEF pk
<1>4. ASSUME NEW g \in Text  PROVE FragmentOf(e, g) = Cat(p, g)
  <2>1. Cat(x, g) = Cat(<<"&">>, Pair("h", g))
      BY NamesAre, TokensAre, PairWritten
  <2> HIDE DEF x
  <2>2. Cat(Cat(pk, x), g) = Cat(pk, Cat(x, g))
      BY <1>1, <1>2, CatTextAssociates
  <2> QED  BY <2>1, <2>2 DEF FragmentOf, AndThen, pk
<1> QED  BY <1>3, <1>4

LEMMA LastDigit ==
    ASSUME NEW s \in Text, NEW u \in 0..7, NEW v \in 0..7, NEW w \in 0..6,
           link = Cat(s, SpelledKey(u, v, w))
    PROVE  Respelled = Cat(s, SpelledKey(u, v, w + 1))
<1> DEFINE g == SpelledKey(u, v, w)
           z == w + 1
           n == Len(s)
           d == SpelledKey(u, v, z)
           r == Cat(s, d)
<1>0. z \in 0..7 /\ w \in 0..7 /\ z + 1 = w + 2
    OBVIOUS
<1>1. Spells(g, u, v, w) /\ Len(g) = 3 /\ g[1] = Digits[u + 1] /\ g[2] = Digits[v + 1]
  <2>1. Spells(g, u, v, w)
      BY <1>0, SpelledKeyText
  <2> QED  BY <2>1 DEF SpelledKey
<1>2. Spells(d, u, v, z) /\ Len(d) = 3 /\ d[1] = Digits[u + 1] /\ d[2] = Digits[v + 1]
      /\ d[3] = Digits[w + 2]
  <2> HIDE DEF z
  <2>1. Spells(d, u, v, z)
      BY <1>0, SpelledKeyText
  <2>2. Len(d) = 3 /\ d[1] = Digits[u + 1] /\ d[2] = Digits[v + 1] /\ d[3] = Digits[z + 1]
      BY DEF SpelledKey
  <2> QED  BY <1>0, <2>1, <2>2
<1> HIDE DEF g, d
<1>3. /\ link \in Text /\ n \in Nat /\ Len(link) = n + 3
      /\ \A i \in 1..n : link[i] = s[i]
      /\ \A i \in 1..3 : link[n + i] = g[i]
  <2>1. g \in Text
      BY <1>1 DEF Spells
  <2>2. link = Cat(s, g)
      BY DEF g
  <2>3. /\ Cat(s, g) \in Text /\ n \in Nat /\ Len(Cat(s, g)) = n + Len(g)
        /\ \A i \in 1..n : Cat(s, g)[i] = s[i]
        /\ \A i \in 1..Len(g) : Cat(s, g)[n + i] = g[i]
      BY <2>1, CatText
  <2> QED  BY <1>1, <2>2, <2>3
<1>4. /\ r \in Text /\ Len(r) = n + 3
      /\ \A i \in 1..n : r[i] = s[i]
      /\ \A i \in 1..3 : r[n + i] = d[i]
  <2>1. d \in Text
      BY <1>2 DEF Spells
  <2>2. /\ r \in Text /\ Len(r) = n + Len(d)
        /\ \A i \in 1..n : r[i] = s[i]
        /\ \A i \in 1..Len(d) : r[n + i] = d[i]
      BY <2>1, CatText
  <2> QED  BY <1>2, <2>2
<1>5. link[n + 3] = g[3] /\ DigitOf(g[3]) = w
    BY <1>1, <1>3 DEF Spells
<1>6. Respelled = [link EXCEPT ![n + 3] = Digits[w + 2]]
    BY <1>3, <1>5 DEF Respelled
<1> HIDE DEF r, n
<1>7. \A i \in 1..(n + 3) : Respelled[i] = IF i = n + 3 THEN Digits[w + 2] ELSE link[i]
    BY <1>3, <1>6 DEF Text
<1>8. ASSUME NEW i \in 1..(n + 3)  PROVE Respelled[i] = r[i]
  <2>1. CASE i <= n
    <3>1. i \in 1..n /\ i # n + 3
        BY <1>3, <2>1
    <3> QED  BY <1>3, <1>4, <1>7, <3>1
  <2>2. CASE i = n + 1 \/ i = n + 2
    <3> DEFINE j == i - n
    <3>1. (j = 1 \/ j = 2) /\ i = n + j /\ j \in 1..3 /\ i # n + 3
        BY <1>3, <2>2
    <3>2. link[i] = g[j] /\ r[i] = d[j]
        BY <1>3, <1>4, <3>1
    <3>3. g[j] = d[j]
        BY <1>1, <1>2, <3>1
    <3> QED  BY <1>7, <3>1, <3>2, <3>3
  <2>3. CASE i = n + 3
    <3>1. r[i] = d[3]
        BY <1>4, <2>3
    <3> QED  BY <1>2, <1>7, <2>3, <3>1
  <2> QED  BY <1>3, <2>1, <2>2, <2>3
<1>9. Respelled \in Seq(Tok) /\ Len(Respelled) = n + 3
  <2>1. Digits[w + 2] \in Tok
    <3>1. Digits[z + 1] \in KeyTokens
        BY <1>0, DigitOfDigit
    <3>2. KeyTokens \subseteq Tok
        BY DEF KeyTokens, Tok
    <3> QED  BY <1>0, <3>1, <3>2
  <2>2. link \in Seq(Tok) /\ n + 3 \in 1..Len(link)
      BY <1>3 DEF Text
  <2> QED  BY <1>3, <1>6, <2>1, <2>2, ExceptSeq
<1>10. r \in Seq(Tok)
    BY <1>4 DEF Text
<1>11. Respelled = r
    BY <1>4, <1>8, <1>9, <1>10, SeqEqual
<1> QED  BY <1>11 DEF r, d, z

(* Either form of a link is read as the same wire address. *)
LEMMA WireAddressIs ==
    ASSUME NEW z \in Sockets, NEW c \in Mounts, NEW q \in Text, Clean(q), NEW f \in Text
    PROVE  /\ WireAddress(LinkOf(Address(SBase(z, c), q), f)) = Address(SBase(z, c), q)
           /\ WireAddress(LinkOf(PageAddress(z, c, q), f)) = Address(SBase(z, c), q)
           /\ Head(Address(SBase(z, c), q)) = z
<1> DEFINE b == SBase(z, c)
           a == Address(b, q)
           p == PageAddress(z, c, q)
           h == PageOf(z)
           w == Web(z, c)
           r == Rest(Base(c), 2)
           s == Cat(w, <<"/">>)
<1>1. /\ a \in Text /\ Clean(a) /\ p \in Text /\ Clean(p)
      /\ Before(p, "?") = s /\ After(p, "?") = q /\ At(p, "?") # 0
    BY AddressesAre
<1>2. Before(LinkOf(a, f), "#") = a /\ Before(LinkOf(p, f), "#") = p
    BY <1>1, LinkIs
<1>3. b \in Text /\ Len(b) > 0 /\ b[1] = z /\ b[Len(b)] # "/"
    BY SchemedIs DEF Schemed
<1>4. w \in Text /\ r \in Text /\ b = Cat(<<z>>, r) /\ w = Cat(<<h>>, r) /\ w[1] = h /\ Len(w) > 0
  <2>1. Schemed(w, h) /\ r \in Text
      BY SchemedIs
  <2>2. w \in Text /\ w[1] = h /\ Len(w) > 0
      BY <2>1 DEF Schemed
  <2>3. b = Cat(<<z>>, r) /\ w = Cat(<<h>>, r)
      BY DEF SBase, Web
  <2> QED  BY <2>1, <2>2, <2>3
<1>5. Cat(<<"?">>, q) \in Text
    BY Marks, CatText
<1>6. a[1] = z /\ Len(a) > 0
  <2>1. /\ Cat(b, Endpoint) \in Text /\ Cat(b, Endpoint)[1] = z /\ Len(Cat(b, Endpoint)) > 0
      BY <1>3, EndpointText, HeadOfCat
  <2> QED  BY <1>5, <2>1, HeadOfCat DEF Address
<1>7. p[1] = h /\ Len(p) > 0
  <2>1. s \in Text /\ s[1] = h /\ Len(s) > 0
      BY <1>4, Marks, HeadOfCat
  <2>2. p = Cat(s, Cat(<<"?">>, q))
      BY DEF PageAddress
  <2> HIDE DEF s, p
  <2> QED  BY <1>5, <2>1, <2>2, HeadOfCat
<1>8. Head(a) = z /\ Head(p) = h
    BY <1>1, <1>6, <1>7 DEF Text
<1>9. /\ z \notin {"http", "https"} /\ h \in {"http", "https"} /\ SocketOf(h) = z
      /\ h \in Tok /\ <<h>> \in Text /\ <<z>> \in Text
  <2>1. z \in {"ws", "wss"} /\ h \in {"http", "https"} /\ SocketOf(h) = z
      BY DEF Sockets, PageOf, SocketOf
  <2>2. z \in {"ws", "wss", "http", "https"} /\ h \in {"ws", "wss", "http", "https"}
      BY <2>1
  <2> HIDE DEF h
  <2> QED  BY <2>1, <2>2, SchemeTokens
<1>10. WireAddress(LinkOf(a, f)) = a
    BY <1>2, <1>8, <1>9 DEF WireAddress
<1>11. PageToEndpoint(p) = a
  <2> HIDE DEF h
  <2>1. s = Cat(<<h>>, Cat(r, <<"/">>)) /\ Cat(r, <<"/">>) \in Text
    <3>1. Cat(r, <<"/">>) \in Text
        BY <1>4, Marks, CatText
    <3>2. Cat(Cat(<<h>>, r), <<"/">>) = Cat(<<h>>, Cat(r, <<"/">>))
        BY <1>4, <1>9, Marks, CatTextAssociates
    <3> QED  BY <1>4, <3>1, <3>2
  <2>2. Tail(s) = Cat(r, <<"/">>)
      BY <1>9, <2>1, TailOfCat
  <2>3. Cat(<<z>>, Tail(s)) = Cat(b, <<"/">>)
    <3>1. Cat(Cat(<<z>>, r), <<"/">>) = Cat(<<z>>, Cat(r, <<"/">>))
        BY <1>4, <1>9, Marks, CatTextAssociates
    <3> QED  BY <1>4, <2>2, <3>1
  <2>4. Trimmed(Cat(<<z>>, Tail(s))) = b
      BY <1>3, <2>3, TrimmedIs
  <2> HIDE DEF s, p, b
  <2>5. PageToEndpoint(p) = (Trimmed(<<z>> \o Tail(s)) \o Endpoint) \o (<<"?">> \o q)
      BY <1>1, <1>8, <1>9 DEF PageToEndpoint
  <2>6. PageToEndpoint(p) = Cat(Cat(Trimmed(Cat(<<z>>, Tail(s))), Endpoint), Cat(<<"?">>, q))
      BY <2>5, Zenon DEF Cat
  <2> QED  BY <2>4, <2>6 DEF Address
<1>12. WireAddress(LinkOf(p, f)) = a
    BY <1>2, <1>8, <1>9, <1>11 DEF WireAddress
<1> QED  BY <1>8, <1>10, <1>12

\* What the guest reads of either form.
LEMMA ParsedIs ==
    ASSUME NEW z \in Sockets, NEW c \in Mounts, NEW q \in Text, Clean(q), NEW f \in Text,
           link \in {LinkOf(Address(SBase(z, c), q), f), LinkOf(PageAddress(z, c, q), f)}
    PROVE  /\ Parsed.ok <=> /\ ~Twice(q, "room") /\ ~Twice(q, "token")
                            /\ Value(q, "room") # None /\ Value(q, "token") # None
                            /\ FragmentKeys(f).ok
           /\ Parsed.invite = [socket |-> Address(SBase(z, c), q),
                               room |-> Value(q, "room"), token |-> Value(q, "token"),
                               k |-> FragmentKeys(f).k, h |-> FragmentKeys(f).h]
<1> DEFINE a == Address(SBase(z, c), q)
           p == PageAddress(z, c, q)
<1>1. /\ a \in Text /\ Clean(a) /\ p \in Text /\ Clean(p)
      /\ Before(a, "?") = Cat(SBase(z, c), Endpoint) /\ After(a, "?") = q
    BY AddressesAre
<1>2. At(link, "#") # 0 /\ After(link, "#") = f
    BY <1>1, LinkIs
<1>3. WireAddress(link) = a
    BY WireAddressIs
<1>4. HasEndpoint(Before(a, "?"))
    BY <1>1, SchemedIs, EndpointFound DEF Schemed
<1> HIDE DEF a
<1>5. /\ ParseSessionUrl(a).ok <=> ~Twice(q, "room") /\ ~Twice(q, "token")
      /\ ParseSessionUrl(a).room = Value(q, "room") /\ ParseSessionUrl(a).token = Value(q, "token")
    BY <1>1, <1>4 DEF ParseSessionUrl, ParseJoinQuery
<1>6. /\ Parsed.ok <=> At(link, "#") # 0 /\ ParseSessionUrl(a).ok /\ ParseSessionUrl(a).room # None
                       /\ ParseSessionUrl(a).token # None /\ FragmentKeys(f).ok
      /\ Parsed.invite = [socket |-> a, room |-> ParseSessionUrl(a).room,
                          token |-> ParseSessionUrl(a).token,
                          k |-> FragmentKeys(f).k, h |-> FragmentKeys(f).h]
    BY <1>2, <1>3 DEF Parsed
<1>7. Parsed.ok <=> /\ ~Twice(q, "room") /\ ~Twice(q, "token")
                    /\ Value(q, "room") # None /\ Value(q, "token") # None
                    /\ FragmentKeys(f).ok
    BY <1>2, <1>5, <1>6
<1> QED  BY <1>5, <1>6, <1>7 DEF a

(* The server reads the path and the query out of either form of the       *)
(* request target.                                                         *)
LEMMA OriginIs ==
    ASSUME NEW x \in Text, Len(x) > 0, x[1] = "/", NEW target \in Targets(Cat(Authority, x))
    PROVE  OriginForm(target) = x
<1> DEFINE url == Cat(Authority, x)
<1> HIDE DEF url
<1>4. x \in Text
    OBVIOUS
<1>6. url = Cat(Authority, x)
    BY DEF url
<1>8. x[1] = "/" /\ Len(x) > 0
    OBVIOUS
<1>9. Len(x) \in Nat /\ 1 \in 1..(Len(x) + 1) /\ Rest(x, 1) = x
  <2>1. Len(x) \in Nat /\ 1 \in 1..(Len(x) + 1)
      BY <1>4 DEF Text
  <2> QED  BY <1>4, <2>1, RestAll DEF Text
<1>10. Rest(url, 6) = x
  <2>1. Rest(url, Len(Authority) + 1) = Rest(x, 1)
      BY <1>4, <1>6, <1>9, AuthorityIs, RestShift
  <2>2. Len(Authority) + 1 = 6
      BY AuthorityIs
  <2> QED  BY <1>9, <2>1, <2>2
<1>11. url \in Text /\ Len(url) = 5 + Len(x) /\ url[5] = "h" /\ url[1] = "ws"
  <2>1. /\ url \in Text /\ Len(url) = Len(Authority) + Len(x)
        /\ \A i \in 1..Len(Authority) : url[i] = Authority[i]
      BY <1>4, <1>6, AuthorityIs, CatText
  <2>2. 5 \in 1..Len(Authority) /\ 1 \in 1..Len(Authority)
      BY AuthorityIs
  <2> QED  BY <2>1, <2>2, AuthorityIs
<1> DEFINE after == Cat(<<"h">>, x)
<1>12. Rest(url, 5) = after
  <2>1. 5 \in 1..Len(url) /\ 5 + 1 = 6
      BY <1>9, <1>11
  <2>2. Rest(url, 5) = Cat(<<url[5]>>, Rest(url, 5 + 1))
      BY <1>11, <2>1, RestStep DEF Text
  <2> QED  BY <1>10, <1>11, <2>1, <2>2
<1>13. after \in Text /\ Len(after) = 1 + Len(x) /\ after[1] = "h" /\ after[2] = "/" /\ Rest(after, 2) = x
  <2> DEFINE o == <<"h">>
  <2>1. o \in Text /\ Len(o) = 1 /\ o[1] = "h"
    <3>1. "h" \in Tok
        BY DEF Tok
    <3> QED  BY <3>1, OneToken DEF Text
  <2> HIDE DEF o
  <2>2. /\ Cat(o, x) \in Text /\ Len(Cat(o, x)) = Len(o) + Len(x)
        /\ \A i \in 1..Len(o) : Cat(o, x)[i] = o[i]
        /\ \A i \in 1..Len(x) : Cat(o, x)[Len(o) + i] = x[i]
      BY <1>4, <2>1, CatText
  <2>3. 1 \in 1..Len(o) /\ 1 \in 1..Len(x) /\ Len(o) + 1 = 2
      BY <1>8, <1>9, <2>1
  <2>4. Rest(Cat(o, x), Len(o) + 1) = Rest(x, 1)
      BY <1>4, <1>9, <2>1, RestShift
  <2> QED  BY <1>8, <1>9, <2>1, <2>2, <2>3, <2>4 DEF o
<1> HIDE DEF after
<1>14. FirstOf(after, {"/", "?"}) = 2
  <2>1. 2 \in 1..Len(after)
      BY <1>8, <1>9, <1>13
  <2>2. \A j \in 1..Len(after) : j < 2 => after[j] \notin {"/", "?"}
      BY <1>13
  <2> QED  BY <1>13, <2>1, <2>2, FirstOfIs
<1>15. target = url \/ target = x
  <2>1. Len(Authority) + 1 = 6
      BY AuthorityIs
  <2> QED  BY <1>10, <2>1 DEF Targets, Rest, url
<1>16. OriginForm(target) = x
  <2>1. CASE target = x
    <3>1. Head(x) = "/"
        BY <1>4, <1>8 DEF Text
    <3> QED  BY <2>1, <3>1 DEF OriginForm
  <2>2. CASE target = url
    <3>1. Head(url) # "/"
        BY <1>9, <1>11 DEF Text
    <3>2. SubSeq(url, 5, Len(url)) = after /\ SubSeq(after, 2, Len(after)) = x
        BY <1>12, <1>13 DEF Rest
    <3>3. FirstOf(SubSeq(url, 5, Len(url)), {"/", "?"}) = 2
        BY <1>14, <3>2
    <3>4. OriginForm(url) = SubSeq(SubSeq(url, 5, Len(url)), 2, Len(SubSeq(url, 5, Len(url))))
        BY <3>1, <3>3 DEF OriginForm
    <3> QED  BY <2>2, <3>2, <3>4
  <2> QED  BY <1>15, <2>1, <2>2
<1> QED  BY <1>16

LEMMA PathIs ==
    ASSUME NEW c \in Mounts
    PROVE  LET d == Cat(c, Endpoint)
           IN /\ d \in Text /\ Clean(d) /\ Free(d, "?") /\ d[1] = "/" /\ Len(d) > 0
              /\ Len(c) \in Nat /\ Len(d) = Len(c) + 2
<1> DEFINE d == Cat(c, Endpoint)
<1>1. c \in Text /\ Clean(c) /\ Free(c, "?") /\ (Len(c) > 0 => c[1] = "/")
    BY MountsAre
<1>2. d \in Text /\ Clean(d) /\ Free(d, "?")
    BY <1>1, EndpointClean, CatText, CleanCat, FreeCat
<1>3. /\ Len(c) \in Nat /\ Len(d) = Len(c) + Len(Endpoint)
      /\ \A i \in 1..Len(Endpoint) : d[Len(c) + i] = Endpoint[i]
    BY <1>1, EndpointText, CatText
<1>4. d[1] = "/" /\ Len(d) > 0
  <2>1. CASE Len(c) > 0
      BY <1>1, <2>1, EndpointText, HeadOfCat
  <2>2. CASE Len(c) = 0
    <3>1. Len(d) = 2 /\ d[0 + 1] = Endpoint[1]
        BY <1>3, <2>2, EndpointText
    <3> QED  BY <3>1, EndpointText
  <2> QED  BY <1>3, <2>1, <2>2
<1> QED  BY <1>2, <1>3, <1>4, EndpointText

\* What the server makes of the guest's address.
LEMMA GuestIsUpgraded ==
    ASSUME mount \in Mounts, NEW q \in Text, Clean(q),
           NEW target \in Targets(Address(Base(mount), q))
    PROVE  Upgrades(target) /\ After(OriginForm(target), "?") = q
<1> DEFINE c == mount
           d == Cat(c, Endpoint)
           y == Cat(<<"?">>, q)
           x == Cat(d, y)
<1>1. c \in Text /\ d \in Text /\ Clean(d) /\ Free(d, "?") /\ d[1] = "/" /\ Len(d) > 0
    BY MountsAre, PathIs
<1>2. y \in Text
    BY Marks, CatText
<1>3. x \in Text /\ Before(x, "?") = d /\ After(x, "?") = q
    BY <1>1, AddressIs
<1>4. Address(Base(c), q) = Cat(Authority, x)
  <2>1. Cat(Base(c), Endpoint) = Cat(Authority, d)
      BY <1>1, AuthorityIs, EndpointText, CatTextAssociates DEF Base
  <2>2. Cat(Cat(Authority, d), y) = Cat(Authority, x)
      BY <1>1, <1>2, AuthorityIs, CatTextAssociates
  <2> QED  BY <2>1, <2>2 DEF Address
<1>5. x[1] = "/" /\ Len(x) > 0
    BY <1>1, <1>2, HeadOfCat
<1> HIDE DEF x
<1>6. OriginForm(target) = x
    BY <1>3, <1>4, <1>5, OriginIs
<1> QED  BY <1>3, <1>6 DEF Upgrades, Cat

\* And of the host's own, written on the base or on one that ends with the
\* endpoint already.
LEMMA HostIsReached ==
    ASSUME mount \in Mounts, NEW base, NEW target \in Targets(SessionUrl(base, None, None))
    PROVE  LET url == SessionUrl(base, None, None)
           IN /\ Trimmed(base) = Base(mount) => Reached(url, target)
              /\ Trimmed(base) \in {SBase("wss", mount), Cat(Base(mount), Endpoint)} =>
                    ~Reached(url, target)
<1> DEFINE url == SessionUrl(base, None, None)
           c == mount
           d == Cat(c, Endpoint)
           v == Trimmed(base)
<1>1. /\ c \in Text /\ d \in Text /\ Clean(d) /\ Free(d, "?") /\ d[1] = "/" /\ Len(d) > 0
      /\ Len(c) \in Nat /\ Len(d) = Len(c) + 2
    BY MountsAre, PathIs
<1>2. ASSUME v \in Text  PROVE url = Cat(v, Endpoint)
  <2>1. url = (((v \o Endpoint) \o <<>>) \o <<>>)
      BY DEF SessionUrl
  <2>2. url = Cat(Cat(Cat(v, Endpoint), <<>>), <<>>)
      BY <2>1, Zenon DEF Cat
  <2>3. Cat(v, Endpoint) \in Text
      BY <1>2, EndpointText, CatText
  <2> HIDE DEF v
  <2> QED  BY <2>2, <2>3, NothingBehind
<1>3. ASSUME NEW x \in Text, Len(x) > 0, x[1] = "/", Free(x, "?"), url = Cat(Authority, x)
      PROVE  Head(url) = "ws" /\ (Upgrades(target) <=> x = d)
  <2>1. OriginForm(target) = x
      BY <1>3, OriginIs
  <2>2. Before(x, "?") = x
      BY <1>3, NotAt
  <2>3. url \in Text /\ url[1] = "ws" /\ Len(url) > 0
      BY <1>3, AuthorityIs, HeadOfCat
  <2> HIDE DEF url
  <2>4. Head(url) = "ws"
      BY <2>3 DEF Text
  <2> QED  BY <2>1, <2>2, <2>4 DEF Upgrades, Cat
<1>4. Base(c) \in Text /\ Cat(Base(c), Endpoint) = Cat(Authority, d)
    BY <1>1, BaseIs, AuthorityIs, EndpointText, CatTextAssociates DEF Base
<1>5. CASE v = Base(c)
  <2>1. url = Cat(Authority, d)
      BY <1>2, <1>4, <1>5
  <2>2. Head(url) = "ws" /\ Upgrades(target)
      BY <1>1, <1>3, <2>1
  <2>3. Reached(url, target)
      BY <2>2 DEF Reached, RefuseTls
  <2>4. v \notin {SBase("wss", c), Cat(Base(c), Endpoint)}
    <3>1. SBase("wss", c)[1] = "wss" /\ Base(c)[1] = "ws"
        BY BaseIs, SchemedIs DEF Schemed, Sockets
    <3>2. Len(Cat(Base(c), Endpoint)) = Len(Base(c)) + 2 /\ Len(Base(c)) \in Nat
      <4>1. Len(Cat(Base(c), Endpoint)) = Len(Base(c)) + Len(Endpoint) /\ Len(Base(c)) \in Nat
          BY <1>4, EndpointText, CatText
      <4> QED  BY <4>1, EndpointText
    <3> HIDE DEF v
    <3> QED  BY <1>5, <3>1, <3>2
  <2> HIDE DEF url, v
  <2> QED  BY <1>5, <2>3, <2>4 DEF url, v
<1>6. CASE v = SBase("wss", c)
  <2>1. v \in Text /\ v[1] = "wss" /\ Len(v) > 0
      BY <1>6, SchemedIs DEF Schemed, Sockets
  <2>2. url = Cat(v, Endpoint)
      BY <1>2, <2>1
  <2> HIDE DEF v
  <2>3. url \in Text /\ url[1] = "wss" /\ Len(url) > 0
      BY <2>1, <2>2, EndpointText, HeadOfCat
  <2> HIDE DEF url
  <2>4. Head(url) = "wss"
      BY <2>3 DEF Text
  <2>5. ~Reached(url, target)
      BY <2>4 DEF Reached, RefuseTls
  <2>6. v # Base(c)
      BY <2>1, BaseIs
  <2> QED  BY <2>5, <2>6 DEF url, v
<1>7. CASE v = Cat(Base(c), Endpoint)
  <2> DEFINE x == Cat(d, Endpoint)
  <2>1. /\ x \in Text /\ Free(x, "?") /\ x[1] = "/" /\ Len(x) > 0
      BY <1>1, EndpointText, EndpointClean, HeadOfCat, FreeCat
  <2>2. Len(x) = Len(d) + 2
    <3>1. Len(x) = Len(d) + Len(Endpoint)
        BY <1>1, EndpointText, CatText
    <3> QED  BY <3>1, EndpointText
  <2>3. v \in Text
      BY <1>4, <1>7, EndpointText, CatText
  <2>4. url = Cat(v, Endpoint)
      BY <1>2, <2>3
  <2>5. url = Cat(Authority, x)
      BY <1>1, <1>4, <1>7, <2>4, AuthorityIs, EndpointText, CatTextAssociates
  <2>6. x # d
    <3> HIDE DEF x, d
    <3> QED  BY <1>1, <2>2
  <2> HIDE DEF x
  <2>7. ~Upgrades(target)
      BY <1>3, <2>1, <2>5, <2>6
  <2>8. v # Base(c)
    <3> HIDE DEF v
    <3>1. Len(v) = Len(Base(c)) + Len(Endpoint) /\ Len(Base(c)) \in Nat
        BY <1>4, <1>7, EndpointText, CatText
    <3> QED  BY <3>1, EndpointText
  <2> HIDE DEF url, v
  <2> QED  BY <2>7, <2>8 DEF Reached, url, v
<1> HIDE DEF url, v
<1> QED  BY <1>5, <1>6, <1>7 DEF url, v

(* The invariant: at each leg, how the text that is carried was put        *)
(* together.                                                               *)
Forms(z, c, q, f) == {LinkOf(Address(SBase(z, c), q), f), LinkOf(PageAddress(z, c, q), f)}
\* A link that says the room, the token and both keys, in either form.
Whole(l, z, m, r, t) ==
    \E q \in Text, f \in Text : Sound(q, r, t) /\ Keyed(f) /\ l \in Forms(z, m, q, f)
\* A link without its fragment, or one the guest has a reason to refuse.
Spoilt(l) ==
    \/ \E c \in Mounts, q \in Text : Clean(q) /\ l = Address(Base(c), q)
    \/ \E c \in Mounts, q \in Text, f \in Text :
          Clean(q) /\ l \in Forms("ws", c, q, f) /\ (Twice(q, "token") \/ ~FragmentKeys(f).ok)
\* What the guest dials with.
Dials(v, z, m, r, t) ==
    \E q \in Text :
        Sound(q, r, t) /\ v = [socket |-> Address(SBase(z, m), q), room |-> r, token |-> t,
                               k |-> RoomKey, h |-> HostKey]
\* The socket's scheme behind the form that a carrier gives the link.
SocketFor(how) == IF how = "secured" THEN "wss" ELSE "ws"

InviteInv ==
    /\ leg \in {"host", "unhosted", "minted", "carried", "read", "dialled", "seated", "refused"}
    /\ mount \in Mounts /\ server \in Servers(mount)
    /\ room \in Seq(Characters) /\ token \in Seq(Characters)
    /\ carrier \in Carriers
    /\ leg = "unhosted" => server \in Unseatable(mount)
    /\ leg = "minted" => link = LinkOf(Address(Base(mount), Query(room, token)), Fragment)
    /\ leg = "carried" => IF carrier \in Refusable THEN Spoilt(link)
                          ELSE Whole(link, SocketFor(carrier), mount, room, token)
    /\ leg \in {"read", "dialled", "seated"} =>
        carrier \notin Refusable /\ Dials(invite, SocketFor(carrier), mount, room, token)
    /\ leg \in {"dialled", "seated"} =>
        carrier # "secured" /\ join = [ok |-> TRUE, room |-> room, token |-> token]
    /\ leg = "refused" => carrier \in Refusable \cup {"secured"}

LEMMA MintSteps ==
    ASSUME InviteInv, Mint
    PROVE  InviteInv'
<1> DEFINE base == SessionBase(server)
           url == SessionUrl(base, None, None)
<1>1. /\ server \in Addresses(mount) => base # <<>> /\ Trimmed(base) = Base(mount)
      /\ server \in Unseatable(mount) =>
            base = <<>> \/ Trimmed(base) \in {SBase("wss", mount), Cat(Base(mount), Endpoint)}
      /\ server \in Addresses(mount) \/ server \in Unseatable(mount)
    BY ServersGiveABase DEF InviteInv, Servers
<1>2. mount \in Mounts
    BY DEF InviteInv
<1>3. \/ leg' = "unhosted" /\ (base = <<>> \/ \E target \in Targets(url) : ~Reached(url, target))
      \/ /\ leg' = "minted" /\ base # <<>> /\ \E target \in Targets(url) : Reached(url, target)
         /\ link' = (SessionUrl(base, room, token) \o <<"#">>) \o Fragment
    BY DEF Mint
<1>4. \A target \in Targets(url) :
        /\ Trimmed(base) = Base(mount) => Reached(url, target)
        /\ Trimmed(base) \in {SBase("wss", mount), Cat(Base(mount), Endpoint)} => ~Reached(url, target)
    BY <1>2, HostIsReached
<1> HIDE DEF base, url
<1>5. CASE leg' = "unhosted"
  <2>1. server \in Unseatable(mount)
      BY <1>1, <1>3, <1>4, <1>5
  <2>2. leg' = "unhosted" /\ server' \in Unseatable(mount')
      BY <1>5, <2>1 DEF Mint
  <2>3. (leg = "unhosted" => server \in Unseatable(mount))'
      BY <2>2 DEF Unseatable
  <2> QED  BY <1>5, <2>3 DEF InviteInv, Mint, Servers, Addresses, Unseatable
<1>6. CASE leg' = "minted"
  <2>1. /\ Trimmed(base) = Base(mount)
        /\ link' = (SessionUrl(base, room, token) \o <<"#">>) \o Fragment
      BY <1>1, <1>3, <1>4, <1>6
  <2>2. SessionUrl(base, room, token) = Address(Base(mount), Query(room, token))
      BY <1>2, <2>1, MintedIs DEF InviteInv
  <2> DEFINE a == Address(Base(mount), Query(room, token))
  <2>3. link' = Cat(Cat(a, <<"#">>), Fragment)
      BY <2>1, <2>2, Zenon DEF Cat
  <2>4. Query(room, token) \in Text /\ Clean(Query(room, token))
      BY QuerySays DEF InviteInv, Sound
  <2>5. a \in Text
      BY <1>2, <2>4, AddressesAre, SchemedIs DEF Sockets
  <2>6. Fragment \in Text
    <3>1. PICK e \in Text, u \in 0..7, v \in 0..7, w \in 0..6 :
                /\ e = EncodeKey(RoomKey) /\ SpelledKey(u, v, w) = EncodeKey(HostKey)
                /\ SpelledKey(u, v, w) \in Text
                /\ Keyed(FragmentOf(e, SpelledKey(u, v, w)))
        BY FragmentSays
    <3> QED  BY <3>1, FragmentIs DEF Keyed
  <2> HIDE DEF a
  <2>7. Cat(Cat(a, <<"#">>), Fragment) = LinkOf(a, Fragment)
      BY <2>5, <2>6, Marks, CatTextAssociates DEF LinkOf
  <2>8. link' = LinkOf(Address(Base(mount'), Query(room', token')), Fragment)
      BY <2>3, <2>7 DEF Mint, a
  <2>9. (leg = "minted" => link = LinkOf(Address(Base(mount), Query(room, token)), Fragment))'
      BY <2>8
  <2> QED  BY <1>6, <2>9 DEF InviteInv, Mint, Servers, Addresses, Unseatable
<1> QED  BY <1>3, <1>5, <1>6

(* Each carrier leaves the link whole or spoils it. *)
LEMMA CarriedIs ==
    ASSUME room \in Seq(Characters), token \in Seq(Characters), NEW c \in Mounts,
           link = LinkOf(Address(Base(c), Query(room, token)), Fragment)
    PROVE  /\ Whole(link, "ws", c, room, token) /\ Whole(PageForm("http"), "ws", c, room, token)
           /\ Whole(PageForm("https"), "wss", c, room, token)
           /\ Whole(WithPair(PageForm("http"), <<"a", "=", "2">>), "ws", c, room, token)
           /\ Spoilt(WithPair(PageForm("http"), <<"token", "=", "2">>))
           /\ Spoilt((link \o <<"&", "k", "=">>) \o EncodeKey(RoomKey))
           /\ Spoilt(Respelled) /\ Spoilt(Before(link, "#"))
<1> DEFINE q == Query(room, token)
           qa == AndThen(q, Pair("a", <<"2">>))
           qt == AndThen(q, Pair("token", <<"2">>))
<1>1. /\ Sound(q, room, token) /\ q \in Text /\ Clean(q)
      /\ Sound(qa, room, token) /\ qa \in Text
      /\ qt \in Text /\ Clean(qt) /\ Twice(qt, "token")
  <2>1. Sound(q, room, token) /\ Sound(qa, room, token)
        /\ qt \in Text /\ Clean(qt) /\ Twice(qt, "token")
      BY QuerySays
  <2> HIDE DEF q, qa, qt
  <2> QED  BY <2>1 DEF Sound
<1>2. PICK e \in Text, u \in 0..7, v \in 0..7, w \in 0..6 :
            /\ e = EncodeKey(RoomKey) /\ SpelledKey(u, v, w) = EncodeKey(HostKey)
            /\ SpelledKey(u, v, w) \in Text /\ SpelledKey(u, v, w + 1) \in Text
            /\ Keyed(FragmentOf(e, SpelledKey(u, v, w)))
            /\ LET f == AndThen(FragmentOf(e, SpelledKey(u, v, w)), Pair("k", e))
               IN f \in Text /\ ~FragmentKeys(f).ok
            /\ LET f == FragmentOf(e, SpelledKey(u, v, w + 1))
               IN f \in Text /\ ~FragmentKeys(f).ok
    BY FragmentSays
<1> DEFINE g == SpelledKey(u, v, w)
           bad == SpelledKey(u, v, w + 1)
           f == FragmentOf(e, g)
           ft == AndThen(f, Pair("k", e))
           fb == FragmentOf(e, bad)
           a == Address(Base(c), q)
<1>3. /\ g \in Text /\ bad \in Text /\ Keyed(f) /\ f \in Text
      /\ ft \in Text /\ ~FragmentKeys(ft).ok /\ fb \in Text /\ ~FragmentKeys(fb).ok
    BY <1>2 DEF Keyed
<1>4. Fragment = f
    BY <1>2, FragmentIs
<1>5. link = LinkOf(a, f)
    BY <1>4
<1> HIDE DEF q, qa, qt, f, ft, fb, g, bad
<1>0. "ws" \in Sockets /\ "wss" \in Sockets /\ SBase("ws", c) = Base(c)
    BY SchemedIs DEF Sockets
<1>6. a \in Text /\ Clean(a)
    BY <1>0, <1>1, AddressesAre
<1>7. /\ PageForm("http") = LinkOf(PageAddress("ws", c, q), f)
      /\ PageForm("https") = LinkOf(PageAddress("wss", c, q), f)
  <2>1. PageOf("ws") = "http" /\ PageOf("wss") = "https"
      BY DEF PageOf
  <2> QED  BY <1>0, <1>1, <1>3, <1>5, <2>1, PageFormIs
<1>8. /\ <<"a", "=", "2">> = Pair("a", <<"2">>) /\ Pair("a", <<"2">>) \in Text
      /\ <<"token", "=", "2">> = Pair("token", <<"2">>) /\ Pair("token", <<"2">>) \in Text
  <2>1. "a" \in Tok /\ "token" \in Tok /\ "=" \in Tok /\ "2" \in Tok
      BY DEF Tok
  <2>2. <<"a", "=", "2">> \in Text /\ <<"a", "=", "2">> = Cat(<<"a">>, Cat(<<"=">>, <<"2">>))
      BY <2>1, Three
  <2>3. <<"token", "=", "2">> \in Text /\ <<"token", "=", "2">> = Cat(<<"token">>, Cat(<<"=">>, <<"2">>))
      BY <2>1, Three
  <2> QED  BY <2>2, <2>3 DEF Pair
<1>9. /\ Whole(link, "ws", c, room, token) /\ Whole(PageForm("http"), "ws", c, room, token)
      /\ Whole(PageForm("https"), "wss", c, room, token)
  <2>1. /\ link \in Forms("ws", c, q, f) /\ PageForm("http") \in Forms("ws", c, q, f)
        /\ PageForm("https") \in Forms("wss", c, q, f)
      BY <1>0, <1>5, <1>7 DEF Forms
  <2> QED  BY <1>1, <1>3, <2>1 DEF Whole
<1>10. Whole(WithPair(PageForm("http"), <<"a", "=", "2">>), "ws", c, room, token)
  <2>1. WithPair(PageForm("http"), Pair("a", <<"2">>)) = LinkOf(PageAddress("ws", c, qa), f)
      BY <1>0, <1>1, <1>3, <1>7, <1>8, WithPairIs DEF qa
  <2>2. WithPair(PageForm("http"), <<"a", "=", "2">>) \in Forms("ws", c, qa, f)
      BY <1>8, <2>1 DEF Forms
  <2> QED  BY <1>1, <1>3, <2>2 DEF Whole
<1>11. Spoilt(WithPair(PageForm("http"), <<"token", "=", "2">>))
  <2>1. WithPair(PageForm("http"), Pair("token", <<"2">>)) = LinkOf(PageAddress("ws", c, qt), f)
      BY <1>0, <1>1, <1>3, <1>7, <1>8, WithPairIs DEF qt
  <2>2. WithPair(PageForm("http"), <<"token", "=", "2">>) \in Forms("ws", c, qt, f)
      BY <1>8, <2>1 DEF Forms
  <2> QED  BY <1>1, <1>3, <2>2 DEF Spoilt
<1>12. Spoilt((link \o <<"&", "k", "=">>) \o EncodeKey(RoomKey))
  <2> DEFINE x == <<"&", "k", "=">>
             l == (link \o x) \o EncodeKey(RoomKey)
  <2>1. l = Cat(Cat(link, x), e)
      BY <1>2, Zenon DEF Cat
  <2>2. x \in Text
    <3>1. "&" \in Tok /\ "k" \in Tok /\ "=" \in Tok
        BY DEF Tok
    <3> QED  BY <3>1, Three
  <2>3. Cat(x, e) = Cat(<<"&">>, Pair("k", e)) /\ Pair("k", e) \in Text
      BY NamesAre, TokensAre, PairWritten
  <2> HIDE DEF x, l
  <2>4. link \in Text
      BY <1>3, <1>5, <1>6, LinkIs
  <2>5. Cat(Cat(link, x), e) = Cat(link, Cat(x, e))
      BY <2>2, <2>4, CatTextAssociates
  <2>6. Cat(<<"&">>, Pair("k", e)) \in Text
      BY <2>3, Marks, CatText
  <2>7. Cat(LinkOf(a, f), Cat(<<"&">>, Pair("k", e))) = LinkOf(a, ft)
      BY <1>3, <1>6, <2>6, LinkMore DEF ft, AndThen
  <2>8. l \in Forms("ws", c, q, ft)
      BY <1>0, <1>5, <2>1, <2>3, <2>5, <2>7 DEF Forms
  <2>9. Spoilt(l)
      BY <1>1, <1>3, <2>8 DEF Spoilt
  <2> QED  BY <2>9 DEF l, x
<1>13. Spoilt(Respelled)
  <2>1. PICK p \in Text : \A x \in Text : FragmentOf(e, x) = Cat(p, x)
      BY FragmentTail
  <2>2. f = Cat(p, g) /\ fb = Cat(p, bad)
      BY <1>3, <2>1 DEF f, fb
  <2>3. LinkOf(a, p) \in Text
      BY <1>6, LinkIs
  <2>4. LinkOf(a, f) = Cat(LinkOf(a, p), g) /\ LinkOf(a, fb) = Cat(LinkOf(a, p), bad)
      BY <1>3, <1>6, <2>2, LinkMore
  <2>5. link = Cat(LinkOf(a, p), SpelledKey(u, v, w))
      BY <1>5, <2>4 DEF g
  <2>6. Respelled = Cat(LinkOf(a, p), SpelledKey(u, v, w + 1))
      BY <2>3, <2>5, LastDigit
  <2>7. Respelled \in Forms("ws", c, q, fb)
      BY <1>0, <2>4, <2>6 DEF Forms, bad
  <2> QED  BY <1>1, <1>3, <2>7 DEF Spoilt
<1>14. Spoilt(Before(link, "#"))
  <2>1. Before(link, "#") = Address(Base(c), q)
      BY <1>3, <1>5, <1>6, LinkIs
  <2> QED  BY <1>1, <2>1 DEF Spoilt
<1> QED  BY <1>9, <1>10, <1>11, <1>12, <1>13, <1>14

LEMMA CarrySteps ==
    ASSUME InviteInv, Carry
    PROVE  InviteInv'
<1>1. link = LinkOf(Address(Base(mount), Query(room, token)), Fragment) /\ mount \in Mounts
    BY DEF InviteInv, Carry
<1>2. /\ Whole(link, "ws", mount, room, token) /\ Whole(PageForm("http"), "ws", mount, room, token)
      /\ Whole(PageForm("https"), "wss", mount, room, token)
      /\ Whole(WithPair(PageForm("http"), <<"a", "=", "2">>), "ws", mount, room, token)
      /\ Spoilt(WithPair(PageForm("http"), <<"token", "=", "2">>))
      /\ Spoilt((link \o <<"&", "k", "=">>) \o EncodeKey(RoomKey))
      /\ Spoilt(Respelled) /\ Spoilt(Before(link, "#"))
    BY <1>1, CarriedIs DEF InviteInv
<1>3. /\ carrier = "page" => link' = PageForm("http")
      /\ carrier = "secured" => link' = PageForm("https")
      /\ carrier = "tagged" => link' = WithPair(PageForm("http"), <<"a", "=", "2">>)
      /\ carrier = "named twice" => link' = WithPair(PageForm("http"), <<"token", "=", "2">>)
      /\ carrier = "key twice" => link' = (link \o <<"&", "k", "=">>) \o EncodeKey(RoomKey)
      /\ carrier = "respelled" => link' = Respelled
      /\ carrier = "cut" => link' = Before(link, "#")
      /\ carrier = "as it is" => link' = link
    BY DEF Carry
<1>4. carrier \in {"as it is", "page", "tagged", "secured", "named twice", "key twice",
                   "respelled", "cut"}
    BY DEF InviteInv, Carriers, Refusable
<1>5. IF carrier \in Refusable THEN Spoilt(link')
      ELSE Whole(link', SocketFor(carrier), mount, room, token)
    BY <1>2, <1>3, <1>4 DEF Refusable, SocketFor
<1>6. (leg = "carried" => IF carrier \in Refusable THEN Spoilt(link)
                          ELSE Whole(link, SocketFor(carrier), mount, room, token))'
  <2>1. UNCHANGED <<mount, carrier, room, token>>
      BY DEF Carry
  <2> QED  BY <1>5, <2>1
<1> QED  BY <1>6 DEF InviteInv, Carry, Servers, Addresses, Unseatable

(* The guest reads a whole link and refuses a spoilt one. *)
LEMMA WholeIsRead ==
    ASSUME room \in Seq(Characters), token \in Seq(Characters),
           NEW z \in Sockets, NEW c \in Mounts, Whole(link, z, c, room, token)
    PROVE  Parsed.ok /\ Dials(Parsed.invite, z, c, room, token)
<1>1. PICK q \in Text, f \in Text :
            Sound(q, room, token) /\ Keyed(f) /\ link \in Forms(z, c, q, f)
    BY DEF Whole
<1>2. /\ Clean(q) /\ ~Twice(q, "room") /\ ~Twice(q, "token")
      /\ Value(q, "room") = room /\ Value(q, "token") = token
    BY <1>1 DEF Sound, Reads
<1>3. room # None /\ token # None
    BY NoNameIsNone
<1>4. FragmentKeys(f).ok /\ FragmentKeys(f).k = RoomKey /\ FragmentKeys(f).h = HostKey
    BY <1>1 DEF Keyed
<1>5. /\ Parsed.ok <=> /\ ~Twice(q, "room") /\ ~Twice(q, "token")
                        /\ Value(q, "room") # None /\ Value(q, "token") # None
                        /\ FragmentKeys(f).ok
      /\ Parsed.invite = [socket |-> Address(SBase(z, c), q),
                           room |-> Value(q, "room"), token |-> Value(q, "token"),
                           k |-> FragmentKeys(f).k, h |-> FragmentKeys(f).h]
    BY <1>1, <1>2, ParsedIs DEF Forms
<1>6. Parsed.ok
    BY <1>2, <1>3, <1>4, <1>5
<1>7. Parsed.invite = [socket |-> Address(SBase(z, c), q), room |-> room, token |-> token,
                       k |-> RoomKey, h |-> HostKey]
    BY <1>2, <1>4, <1>5
<1> QED  BY <1>1, <1>6, <1>7 DEF Dials

LEMMA SpoiltIsRefused ==
    ASSUME Spoilt(link)
    PROVE  ~Parsed.ok
<1>1. CASE \E c \in Mounts, q \in Text : Clean(q) /\ link = Address(Base(c), q)
  <2>1. PICK c \in Mounts, q \in Text : Clean(q) /\ link = Address(Base(c), q)
      BY <1>1
  <2>2. link \in Text /\ Clean(link)
      BY <2>1, AddressesAre, SchemedIs DEF Sockets
  <2>3. At(link, "#") = 0
      BY <2>2, CleanFree, NotAt
  <2> QED  BY <2>3 DEF Parsed
<1>2. CASE \E c \in Mounts, q \in Text, f \in Text :
              Clean(q) /\ link \in Forms("ws", c, q, f) /\ (Twice(q, "token") \/ ~FragmentKeys(f).ok)
  <2>1. PICK c \in Mounts, q \in Text, f \in Text :
              Clean(q) /\ link \in Forms("ws", c, q, f) /\ (Twice(q, "token") \/ ~FragmentKeys(f).ok)
      BY <1>2
  <2>2. Parsed.ok => ~Twice(q, "token") /\ FragmentKeys(f).ok
      BY <2>1, ParsedIs DEF Forms, Sockets
  <2> QED  BY <2>1, <2>2
<1> QED  BY <1>1, <1>2 DEF Spoilt

LEMMA ParseSteps ==
    ASSUME InviteInv, Parse
    PROVE  InviteInv'
<1>1. CASE carrier \in Refusable
  <2>1. ~Parsed.ok
      BY <1>1, SpoiltIsRefused DEF InviteInv, Parse
  <2>2. leg' = "refused" /\ carrier' \in Refusable
      BY <1>1, <2>1 DEF Parse
  <2> QED  BY <2>2 DEF InviteInv, Parse, Servers, Addresses, Unseatable
<1>2. CASE carrier \notin Refusable
  <2>1. SocketFor(carrier) \in Sockets
      BY DEF SocketFor, Sockets
  <2>2. Parsed.ok /\ Dials(Parsed.invite, SocketFor(carrier), mount, room, token)
      BY <1>2, <2>1, WholeIsRead DEF InviteInv, Parse
  <2>3. leg' = "read" /\ invite' = Parsed.invite /\ carrier' \notin Refusable
      BY <1>2, <2>2 DEF Parse
  <2>4. UNCHANGED <<mount, carrier, room, token>>
      BY DEF Parse
  <2>5. Dials(invite, SocketFor(carrier), mount, room, token)'
      BY <2>2, <2>3, <2>4
  <2> QED  BY <2>3, <2>5 DEF InviteInv, Parse, Servers, Addresses, Unseatable
<1> QED  BY <1>1, <1>2

LEMMA DialSteps ==
    ASSUME InviteInv, Dial
    PROVE  InviteInv'
<1>1. /\ carrier \notin Refusable /\ Dials(invite, SocketFor(carrier), mount, room, token)
      /\ mount \in Mounts /\ SocketFor(carrier) \in Sockets
    BY DEF InviteInv, Dial, SocketFor, Sockets
<1>2. PICK q \in Text :
            Sound(q, room, token) /\ invite.socket = Address(SBase(SocketFor(carrier), mount), q)
    BY <1>1 DEF Dials
<1>3. Clean(q) /\ ParseJoinQuery(q) = [ok |-> TRUE, room |-> room, token |-> token]
    BY <1>2 DEF Sound, Reads, ParseJoinQuery
<1>4. PICK target \in Targets(invite.socket) :
            IF Reached(invite.socket, target)
            THEN join' = ParseJoinQuery(After(OriginForm(target), "?")) /\ leg' = "dialled"
            ELSE leg' = "refused" /\ UNCHANGED join
    BY DEF Dial
<1>5. UNCHANGED <<mount, carrier, room, token, invite>>
    BY DEF Dial
<1>6. Dials(invite, SocketFor(carrier), mount, room, token)'
    BY <1>1, <1>5
<1>7. Head(invite.socket) = SocketFor(carrier)
  <2>1. <<>> \in Text
      BY DEF Text
  <2> QED  BY <1>1, <1>2, <1>3, <2>1, WireAddressIs
<1>8. CASE carrier = "secured"
  <2>1. ~Reached(invite.socket, target)
      BY <1>7, <1>8 DEF Reached, RefuseTls, SocketFor
  <2>2. leg' = "refused" /\ carrier' = "secured"
      BY <1>4, <1>5, <1>8, <2>1
  <2> QED  BY <2>2 DEF InviteInv, Dial, Servers, Addresses, Unseatable
<1>9. CASE carrier # "secured"
  <2>1. SocketFor(carrier) = "ws" /\ invite.socket = Address(Base(mount), q)
      BY <1>1, <1>2, <1>9, SchemedIs DEF SocketFor
  <2>2. Upgrades(target) /\ After(OriginForm(target), "?") = q
      BY <1>1, <1>3, <1>4, <2>1, GuestIsUpgraded
  <2>3. Reached(invite.socket, target)
      BY <1>7, <2>1, <2>2 DEF Reached, RefuseTls
  <2>4. leg' = "dialled" /\ join' = [ok |-> TRUE, room |-> room', token |-> token']
      BY <1>3, <1>4, <1>5, <2>2, <2>3
  <2> QED  BY <1>1, <1>5, <1>6, <1>9, <2>4 DEF InviteInv, Dial, Servers, Addresses, Unseatable
<1> QED  BY <1>8, <1>9

LEMMA JoinsSteps ==
    ASSUME InviteInv, Joins
    PROVE  InviteInv'
<1>1. /\ Dials(invite, SocketFor(carrier), mount, room, token) /\ carrier # "secured"
      /\ carrier \notin Refusable /\ join = [ok |-> TRUE, room |-> room, token |-> token]
    BY DEF InviteInv, Joins
<1>2. invite.room = room
    BY <1>1 DEF Dials
<1>3. leg' = "seated"
    BY <1>1, <1>2 DEF Joins
<1>4. UNCHANGED <<mount, carrier, room, token, invite, join>>
    BY DEF Joins
<1>5. Dials(invite, SocketFor(carrier), mount, room, token)'
    BY <1>1, <1>4
<1> QED  BY <1>1, <1>3, <1>4, <1>5 DEF InviteInv, Joins, Servers, Addresses, Unseatable

LEMMA InviteInvHolds ==
    /\ InviteInit => InviteInv
    /\ InviteInv /\ [InviteNext]_inviteVars => InviteInv'
    /\ InviteInv => InvitesReachTheirRoom
<1>1. InviteInit => InviteInv
  <2> SUFFICES ASSUME InviteInit  PROVE InviteInv
      OBVIOUS
  <2>1. room \in Seq(Characters)
    <3>1. PICK n \in NameLengths : room \in [1..n -> {"2", "6", "%", "&", "#"}]
        BY DEF InviteInit, RoomNames
    <3>2. n \in Nat
        BY InvitesAssumption
    <3>3. {"2", "6", "%", "&", "#"} \subseteq Characters
        BY EscapesAre DEF Characters, Unreserved
    <3>4. room \in [1..n -> Characters]
        BY <3>1, <3>3
    <3> QED  BY <3>2, <3>4, SeqDef
  <2>2. token \in Seq(Characters)
      BY InvitesAssumption DEF InviteInit
  <2> QED  BY <2>1, <2>2 DEF InviteInit, InviteInv
<1>2. ASSUME InviteInv, [InviteNext]_inviteVars  PROVE InviteInv'
  <2>1. CASE UNCHANGED inviteVars
    <3>1. Dials(invite, SocketFor(carrier), mount, room, token)' <=>
            Dials(invite, SocketFor(carrier), mount, room, token)
        BY <2>1 DEF inviteVars
    <3>2. Whole(link, SocketFor(carrier), mount, room, token)' <=>
            Whole(link, SocketFor(carrier), mount, room, token)
        BY <2>1 DEF inviteVars
    <3>3. Spoilt(link)' <=> Spoilt(link)
        BY <2>1 DEF inviteVars
    <3> QED  BY <1>2, <2>1, <3>1, <3>2, <3>3
             DEF InviteInv, inviteVars, Servers, Addresses, Unseatable
  <2> QED  BY <1>2, <2>1, MintSteps, CarrySteps, ParseSteps, DialSteps, JoinsSteps DEF InviteNext
<1>3. ASSUME InviteInv  PROVE InvitesReachTheirRoom
  <2>1. ASSUME leg \in {"read", "dialled", "seated"}
        PROVE  /\ invite.k = RoomKey /\ invite.h = HostKey
               /\ \A i \in DOMAIN invite.socket :
                     invite.socket[i] \notin {"#"} \cup {Digits[d] : d \in 1..8}
    <3> DEFINE z == SocketFor(carrier)
    <3>0. z \in Sockets /\ mount \in Mounts
        BY <1>3 DEF SocketFor, Sockets, InviteInv
    <3>1. PICK q \in Text :
              Sound(q, room, token) /\ invite = [socket |-> Address(SBase(z, mount), q), room |-> room,
                                                token |-> token, k |-> RoomKey, h |-> HostKey]
        BY <1>3, <2>1 DEF InviteInv, Dials
    <3> HIDE DEF z
    <3> DEFINE a == Address(SBase(z, mount), q)
    <3>2. a \in Text /\ Clean(a)
        BY <3>0, <3>1, AddressesAre DEF Sound
    <3>3. invite.socket = a /\ invite.k = RoomKey /\ invite.h = HostKey
        BY <3>1
    <3> HIDE DEF a
    <3>4. {Digits[d] : d \in 1..8} = KeyTokens
        BY DEF Digits, KeyTokens
    <3>5. DOMAIN a = 1..Len(a)
        BY <3>2 DEF Text
    <3> QED  BY <3>2, <3>3, <3>4, <3>5 DEF Clean
  <2>2. leg = "seated" => join.room = room /\ join.token = token
      BY <1>3 DEF InviteInv
  <2> QED  BY <1>3, <2>1, <2>2 DEF InviteInv, InvitesReachTheirRoom
<1> QED  BY <1>1, <1>2, <1>3

(* Whatever the room and its token are called, a host is seated at every   *)
(* address but a link, a wss one and one with a slash behind the endpoint, *)
(* and the link that it mints seats its reader in that room with the       *)
(* host's two keys unless it is turned into an https page, which is not    *)
(* dialled, or spoilt on its way, and then it is not even read: what       *)
(* session_url, percent_encode and the key encoding put together,          *)
(* PeerInvite::parse, the server's path and parse_join_query take apart.   *)
THEOREM InvitesHold == InviteSpec => []InvitesReachTheirRoom
<1>1. InviteInit => InviteInv
    BY InviteInvHolds
<1>2. InviteInv /\ [InviteNext]_inviteVars => InviteInv'
    BY InviteInvHolds
<1>3. InviteInv => InvitesReachTheirRoom
    BY InviteInvHolds
<1> QED  BY <1>1, <1>2, <1>3, PTL DEF InviteSpec
=============================================================================
