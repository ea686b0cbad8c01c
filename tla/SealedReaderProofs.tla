------------------------- MODULE SealedReaderProofs -------------------------
(***************************************************************************)
(* What a client has read stays read, what comes in order is not refused,  *)
(* and the newest state wins: for every set of keys, with or without       *)
(* shared ids, every stream, every series of states and every cap.  And a  *)
(* signature is good for one frame in one room, whatever is done to the    *)
(* bytes in front of it.  And of a stream nothing is applied that was not  *)
(* judged, however its values nest.                                        *)
(***************************************************************************)
EXTENDS SealedReader, Envelope, Streams, WellFoundedInduction, SequenceTheorems, TLAPS

Types ==
    /\ committed \in Peers
    /\ marks \in [Ids -> Nat]
    /\ issued \in Nat
    /\ ended \in BOOLEAN
    /\ stateHeld \in BOOLEAN
    /\ read \subseteq once
    /\ once \subseteq Keys \X Nat
    /\ arrived \subseteq Published

\* A mark stands at or above every counter read under it and not given up.
MarksCover == \A r \in read : r[2] <= marks[IdOf[r[1]]]

\* A mark stands at a counter that was read: nothing refused has moved it.
MarksEarned ==
    \A i \in Ids : marks[i] > 0 =>
        \E r \in once : IdOf[r[1]] = i /\ r[2] = marks[i]

\* An edition is held from a state on, never from a closing alone.
EditionsNeedAState == ~stateHeld => issued = 0 /\ ~ended

ReaderInv ==
    /\ Types
    /\ MarksCover
    /\ MarksEarned
    /\ EditionsNeedAState
    /\ NewestStateHeld

----------------------------------------------------------------------------
\* The cap never gives up the mark of a key the applied state commits
\* (`cap_marks` filters on the committed ids before it evicts).
LEMMA CommittedMarksStay ==
    ASSUME NEW m, NEW o
    PROVE  Evicted(m, o) \cap CommittedIds = {}
  BY DEF Evicted

\* What a moved mark leaves: it keeps or raises every mark but the evicted ones,
\* and forgets exactly what was read under those.
LEMMA MarkMoves ==
    ASSUME Types, MarksCover, MarksEarned, ReaderAssumption,
           NEW k \in Keys, NEW n \in Nat, Mark(k, n)
    PROVE  /\ marks' \in [Ids -> Nat]
           /\ read' \subseteq once'
           /\ once' \subseteq Keys \X Nat
           /\ MarksCover'
           /\ MarksEarned'
  <1> DEFINE id    == IdOf[k]
             moved == [marks EXCEPT ![id] = IF @ < n THEN n ELSE @]
             gone  == Evicted(moved, Touched(id))
  <1>1. id \in Ids
    BY DEF ReaderAssumption
  <1>2. /\ moved \in [Ids -> Nat]
        /\ n <= moved[id]
        /\ moved[id] = n \/ moved[id] = marks[id]
        /\ \A i \in Ids : marks[i] <= moved[i]
        /\ \A i \in Ids \ {id} : moved[i] = marks[i]
    BY <1>1 DEF Types
  <1>3. /\ marks' = [i \in Ids |-> IF i \in gone THEN 0 ELSE moved[i]]
        /\ read' = {r \in read \cup {<<k, n>>} :
                      IdOf[r[1]] \notin gone \ CommittedIds}
        /\ once' = once \cup {<<k, n>>}
    BY DEF Mark
  <1>4. gone \cap CommittedIds = {}
    BY CommittedMarksStay
  <1> HIDE DEF moved, gone
  <1>5. /\ marks' \in [Ids -> Nat]
        /\ read' \subseteq once'
        /\ once' \subseteq Keys \X Nat
    BY <1>2, <1>3 DEF Types
  <1>6. MarksCover'
    <2> SUFFICES ASSUME NEW r \in read'
                 PROVE  r[2] <= marks'[IdOf[r[1]]]
      BY DEF MarksCover
    <2>1. /\ r \in Keys \X Nat
          /\ IdOf[r[1]] \in Ids
          /\ IdOf[r[1]] \notin gone
      BY <1>3, <1>4, <1>5 DEF ReaderAssumption
    <2>2. marks'[IdOf[r[1]]] = moved[IdOf[r[1]]]
      BY <1>3, <2>1
    <2>3. CASE r \in read
      <3>1. r[2] <= marks[IdOf[r[1]]]
        BY <2>3 DEF MarksCover
      <3>2. marks[IdOf[r[1]]] <= moved[IdOf[r[1]]]
        BY <1>2, <2>1
      <3>3. /\ r[2] \in Nat
            /\ marks[IdOf[r[1]]] \in Nat
            /\ moved[IdOf[r[1]]] \in Nat
        BY <1>2, <2>1 DEF Types
      <3> QED
        BY <2>2, <3>1, <3>2, <3>3
    <2>4. CASE r = <<k, n>>
      BY <1>2, <2>2, <2>4
    <2> QED
      BY <1>3, <2>3, <2>4
  <1>7. MarksEarned'
    <2> SUFFICES ASSUME NEW i \in Ids, marks'[i] > 0
                 PROVE  \E r \in once' : IdOf[r[1]] = i /\ r[2] = marks'[i]
      BY DEF MarksEarned
    <2>1. marks'[i] = moved[i]
      BY <1>3
    <2>2. CASE i = id /\ moved[i] = n
      <3>1. <<k, n>> \in once' /\ IdOf[<<k, n>>[1]] = i /\ <<k, n>>[2] = marks'[i]
        BY <1>3, <2>1, <2>2
      <3> QED
        BY <3>1
    <2>3. CASE moved[i] = marks[i]
      <3>1. \E r \in once : IdOf[r[1]] = i /\ r[2] = marks[i]
        BY <2>1, <2>3 DEF MarksEarned
      <3> QED
        BY <1>3, <2>1, <2>3, <3>1
    <2> QED
      BY <1>2, <2>2, <2>3
  <1> QED
    BY <1>5, <1>6, <1>7

----------------------------------------------------------------------------
LEMMA FramesAreNumbered ==
    ASSUME ReaderAssumption, NEW k \in Keys, NEW f \in Sealed(k) \cup Broken(k)
    PROVE  f.key = k /\ f.n \in Nat
  <1>1. CASE f \in Sealed(k)
    BY <1>1 DEF Sealed, Frame, ReaderAssumption
  <1>2. CASE f \in Broken(k)
    BY <1>2 DEF Broken, Frame, ReaderAssumption
  <1> QED
    BY <1>1, <1>2

\* Every step keeps the invariant: marks move with accepted frames only, states
\* and closings move the edition only.
LEMMA ReaderStep ==
    ASSUME ReaderInv, ReaderAssumption, [Next]_vars
    PROVE  ReaderInv'
  <1> USE DEF ReaderInv
  <1>1. ASSUME NEW k \in Keys, NEW f \in Sealed(k) \cup Broken(k), Accept(f)
        PROVE  ReaderInv'
    <2>1. f.key \in Keys /\ f.n \in Nat
      BY FramesAreNumbered
    <2>2. Mark(f.key, f.n) /\ UNCHANGED room
      BY <1>1 DEF Accept
    <2>3. /\ marks' \in [Ids -> Nat]
          /\ read' \subseteq once'
          /\ once' \subseteq Keys \X Nat
          /\ MarksCover'
          /\ MarksEarned'
      BY <2>1, <2>2, MarkMoves
    <2> QED
      BY <2>2, <2>3 DEF room, Types, EditionsNeedAState, NewestStateHeld
  <1>2. ASSUME NEW e \in Published, ApplyState(e)
        PROVE  ReaderInv'
    <2>1. /\ e.issued \in Nat
          /\ e.peers \in Peers
          /\ e.issued > issued
          /\ committed' = e.peers
          /\ issued' = e.issued
          /\ stateHeld' = TRUE
          /\ arrived' = arrived \cup {e}
          /\ UNCHANGED <<marks, order, read, once, ended>>
      BY <1>2 DEF ApplyState, ReaderAssumption, counters
    <2>2. Types' /\ MarksCover' /\ MarksEarned' /\ EditionsNeedAState'
      BY <2>1 DEF Types, MarksCover, MarksEarned, EditionsNeedAState
    <2>3. ASSUME ~ended'
          PROVE  \A d \in arrived' : d.issued <= issued'
      <3>1. \A d \in arrived : d.issued <= issued /\ d.issued \in Nat
        BY <2>1, <2>3 DEF NewestStateHeld, Types, ReaderAssumption
      <3> QED
        BY <2>1, <3>1 DEF Types
    <2>4. \E d \in arrived' : d.issued > 0
      BY <2>1 DEF Types
    <2>5. \E d \in arrived' : d.issued = issued' /\ d.peers = committed'
      BY <2>1
    <2> QED
      BY <2>1, <2>2, <2>3, <2>4, <2>5 DEF NewestStateHeld
  <1>3. ASSUME NEW e \in Published, StaleState(e)
        PROVE  ReaderInv'
    <2>1. /\ e.issued \in Nat
          /\ e.issued <= issued
          /\ arrived' = arrived \cup {e}
          /\ UNCHANGED <<marks, order, read, once, committed, issued, ended, stateHeld>>
      BY <1>3 DEF StaleState, ReaderAssumption, counters
    <2>2. Types' /\ MarksCover' /\ MarksEarned' /\ EditionsNeedAState'
      BY <2>1 DEF Types, MarksCover, MarksEarned, EditionsNeedAState
    <2>3. e.issued > 0 => stateHeld
      BY <2>1 DEF EditionsNeedAState
    <2> QED
      BY <2>1, <2>2, <2>3 DEF NewestStateHeld
  <1>4. ASSUME NEW e \in Published, ApplyClosing(e)
        PROVE  ReaderInv'
    <2>1. /\ e.issued \in Nat
          /\ stateHeld
          /\ issued' = e.issued
          /\ ended' = TRUE
          /\ UNCHANGED <<marks, order, read, once, committed, stateHeld, arrived>>
      BY <1>4 DEF ApplyClosing, ReaderAssumption, counters
    <2> QED
      BY <2>1 DEF Types, MarksCover, MarksEarned, EditionsNeedAState,
                  NewestStateHeld
  <1>5. ASSUME UNCHANGED vars
        PROVE  ReaderInv'
    BY <1>5 DEF vars, counters, room, Types, MarksCover, MarksEarned,
                EditionsNeedAState, NewestStateHeld
  <1> QED
    BY <1>1, <1>2, <1>3, <1>4, <1>5
       DEF Next, Refuse, ApplyOwn, IgnoreClosing, StaleClosing

LEMMA ReaderStart ==
    ASSUME ReaderAssumption, Init
    PROVE  ReaderInv
  <1>1. committed \in Peers
    BY DEF Init, Peers
  <1>2. Types
    BY <1>1 DEF Init, Types
  <1>3. MarksCover /\ MarksEarned
    BY DEF Init, MarksCover, MarksEarned
  <1>4. EditionsNeedAState /\ NewestStateHeld
    BY DEF Init, EditionsNeedAState, NewestStateHeld
  <1> QED
    BY <1>2, <1>3, <1>4 DEF ReaderInv

LEMMA ReaderInvariant == Spec => []ReaderInv
  <1>1. Init => ReaderInv
    BY ReaderStart, ReaderAssumption
  <1>2. ReaderInv /\ [Next]_vars => ReaderInv'
    BY ReaderStep, ReaderAssumption
  <1> QED
    BY <1>1, <1>2, PTL DEF Spec

----------------------------------------------------------------------------
\* What sealed frames are: numbered from 1, with nothing wrong.
LEMMA SealedFrames ==
    ASSUME ReaderAssumption, NEW k \in Keys, NEW f \in Sealed(k)
    PROVE  f.key = k /\ f.flaw = "none" /\ f.n \in Nat /\ f.n > 0
  BY DEF Sealed, Frame, ReaderAssumption

\* A frame this client accepted is refused when it comes again, whatever states
\* replaced the committed keys in between, as long as `cap_marks` has not given
\* up the mark of its key.
THEOREM NothingIsReadTwice == Spec => []NothingReadTwice
  <1>1. ReaderInv => NothingReadTwice
    <2> SUFFICES ASSUME ReaderInv, NEW k \in Keys, NEW f \in Sealed(k),
                        <<k, f.n>> \in read
                 PROVE  Verdict(f) # "ok"
      BY DEF NothingReadTwice
    <2>1. f.key = k /\ f.flaw = "none"
      BY SealedFrames, ReaderAssumption
    <2>2. Replayed(IdOf[f.key], f.n)
      BY <2>1 DEF ReaderInv, MarksCover, Replayed
    <2>3. AnnouncementVerdict(f) = "replayed_counter"
      BY <2>1, <2>2 DEF AnnouncementVerdict
    <2>4. OrdinaryVerdict(f) \in {"uncommitted_key", "replayed_counter"}
      BY <2>2 DEF OrdinaryVerdict
    <2> QED
      BY <2>3, <2>4 DEF Verdict
  <1> QED
    BY <1>1, ReaderInvariant, PTL

\* A frame that comes after everything read of its key is accepted: no forged,
\* refused or evicted frame stands in the way of a committed key's next one.
THEOREM InOrderIsAlwaysRead == Spec => []InOrderIsRead
  <1>1. ReaderInv => InOrderIsRead
    <2> SUFFICES ASSUME ReaderInv, NEW k \in Keys, NEW f \in Sealed(k),
                        committed[k] # "none",
                        \A j \in Keys : IdOf[j] = IdOf[k] => j = k,
                        \A r \in once : r[1] = k => r[2] < f.n,
                        ~(f.kind = "content" /\ committed[k] = "viewer")
                 PROVE  Verdict(f) = "ok"
      BY DEF InOrderIsRead
    <2>1. f.key = k /\ f.flaw = "none" /\ f.n \in Nat /\ f.n > 0
      BY SealedFrames, ReaderAssumption
    <2>2. IdOf[k] \in Ids /\ marks[IdOf[k]] \in Nat
      BY ReaderAssumption DEF ReaderInv, Types, ReaderAssumption
    <2>3. marks[IdOf[k]] > 0 => marks[IdOf[k]] < f.n
      <3> SUFFICES ASSUME marks[IdOf[k]] > 0
                   PROVE  marks[IdOf[k]] < f.n
        OBVIOUS
      <3>1. PICK r \in once : IdOf[r[1]] = IdOf[k] /\ r[2] = marks[IdOf[k]]
        BY <2>2 DEF ReaderInv, MarksEarned
      <3>2. r[1] = k
        BY <3>1 DEF ReaderInv, Types
      <3> QED
        BY <3>1, <3>2
    <2>4. ~Replayed(IdOf[f.key], f.n)
      BY <2>1, <2>2, <2>3 DEF Replayed
    <2>5. k \in Candidates(IdOf[f.key])
      BY <2>1 DEF Candidates
    <2>6. AnnouncementVerdict(f) = "ok"
      BY <2>1, <2>4 DEF AnnouncementVerdict
    <2>7. OrdinaryVerdict(f) = "ok"
      BY <2>1, <2>4, <2>5 DEF OrdinaryVerdict
    <2> QED
      BY <2>6, <2>7 DEF Verdict
  <1> QED
    BY <1>1, ReaderInvariant, PTL

\* Whatever the order in which states and closings arrive, a client whose room
\* is not over holds the newest state it was handed (`read_ordinary`'s ninth
\* step, `apply_state` and deliver's restore).
THEOREM NewestStateIsHeld == Spec => []NewestStateHeld
  <1>1. ReaderInv => NewestStateHeld
    BY DEF ReaderInv
  <1> QED
    BY <1>1, ReaderInvariant, PTL
-----------------------------------------------------------------------------
(***************************************************************************)
(* The bytes of a frame (Envelope).                                        *)
(*                                                                         *)
(* What varuint writes and read_varuint reads is a number's groups, so the *)
(* argument starts from division with remainder: a value is given by its   *)
(* groups (SameDigits), and every choice of groups is a value's            *)
(* (ValueOfDigits).  Hence read_varuint reads back what varuint wrote      *)
(* (ReadsBack), no varint is the beginning of another (VarUintPeels), and  *)
(* the signing input can be taken apart in one way only                    *)
(* (SigningInputSays).  Induction over the groups is over a set of         *)
(* numbers, from the least element of its complement.                      *)
(***************************************************************************)

LEMMA LeastOfNat ==
    ASSUME NEW T, T \subseteq Nat, T # {}
    PROVE  \E x \in T : \A y \in T : x <= y
<1> DEFINE R == OpToRel(<, Nat)
<1>1. IsWellFoundedOn(R, Nat)
    BY NatLessThanWellFounded
<1>2. \E x \in T : \A y \in T : ~(<<y, x>> \in R)
  <2> HIDE DEF R
  <2> QED  BY <1>1, WFMin
<1>3. PICK x \in T : \A y \in T : ~(<<y, x>> \in R)
    BY <1>2
<1>4. ASSUME NEW y \in T  PROVE x <= y
  <2>1. <<y, x>> \notin R
      BY <1>3
  <2>2. ~(y < x)
      BY <2>1 DEF OpToRel
  <2> QED  BY <2>2
<1> QED  BY <1>4

LEMMA Induction ==
    ASSUME NEW T, 0 \in T, \A n \in Nat : n \in T => n + 1 \in T
    PROVE  Nat \subseteq T
<1> SUFFICES ASSUME Nat \ T # {}  PROVE FALSE
    OBVIOUS
<1>1. PICK x \in Nat \ T : \A y \in Nat \ T : x <= y
    BY LeastOfNat
<1>2. x # 0 /\ x - 1 \in Nat
    BY <1>1
<1>3. x - 1 \in T
    BY <1>1, <1>2
<1>4. x - 1 + 1 \in T
    BY <1>2, <1>3
<1> QED  BY <1>1, <1>4

LEMMA DivMod ==
    ASSUME NEW v \in Nat, NEW d \in Nat \ {0}
    PROVE  /\ v \div d \in Nat
           /\ v % d \in 0..(d - 1)
           /\ v = d * (v \div d) + (v % d)
  OBVIOUS
LEMMA DivModUnique ==
    ASSUME NEW v \in Nat, NEW d \in Nat \ {0}, NEW q \in Nat, NEW r \in 0..(d - 1), v = d * q + r
    PROVE  v \div d = q /\ v % d = r
<1>1. v \div d \in Nat /\ v % d \in 0..(d - 1) /\ v = d * (v \div d) + (v % d)
    BY DivMod
<1> DEFINE p == v \div d
           m == v % d
<1>2. p \in Nat /\ m \in 0..(d-1) /\ v = d * p + m
    BY <1>1
<1> HIDE DEF p, m
<1>3. ~(p < q)
  <2> SUFFICES ASSUME p < q PROVE FALSE
     OBVIOUS
  <2>1. q >= p + 1 BY <1>2
  <2>2. d * q >= d * (p + 1) BY <1>2, <2>1
  <2>3. d * (p + 1) = d * p + d BY <1>2
  <2> QED BY <1>2, <2>2, <2>3
<1>4. ~(q < p)
  <2> SUFFICES ASSUME q < p PROVE FALSE
     OBVIOUS
  <2>1. p >= q + 1 BY <1>2
  <2>2. d * p >= d * (q + 1) BY <1>2, <2>1
  <2>3. d * (q + 1) = d * q + d BY <1>2
  <2> QED BY <1>2, <2>2, <2>3
<1>5. p = q  BY <1>2, <1>3, <1>4
<1>6. m = r  BY <1>2, <1>5
<1> QED  BY <1>5, <1>6 DEF p, m

LEMMA WeightsExist ==
    ASSUME NEW m \in Nat
    PROVE  \E f \in [0..m -> Nat] : f = [n \in 0..m |-> IF n = 0 THEN 1 ELSE Group * f[n - 1]]
<1> DEFINE T == {k \in Nat : \E f \in [0..k -> Nat] :
                    f = [n \in 0..k |-> IF n = 0 THEN 1 ELSE Group * f[n - 1]]}
<1>1. 0 \in T
  <2> DEFINE f == [n \in 0..0 |-> 1]
  <2>1. f \in [0..0 -> Nat]
      OBVIOUS
  <2>2. f = [n \in 0..0 |-> IF n = 0 THEN 1 ELSE Group * f[n - 1]]
      OBVIOUS
  <2> QED  BY <2>1, <2>2
<1>2. ASSUME NEW k \in Nat, k \in T  PROVE k + 1 \in T
  <2>1. PICK f \in [0..k -> Nat] : f = [n \in 0..k |-> IF n = 0 THEN 1 ELSE Group * f[n - 1]]
      BY <1>2
  <2> DEFINE g == [n \in 0..(k + 1) |-> IF n = k + 1 THEN Group * f[k] ELSE f[n]]
  <2>2. g \in [0..(k + 1) -> Nat]
      BY WidthAssumption
  <2>3. ASSUME NEW n \in 0..(k + 1)
        PROVE  g[n] = IF n = 0 THEN 1 ELSE Group * g[n - 1]
    <3>1. CASE n = 0
        BY <2>1, <3>1
    <3>2. CASE n = k + 1
        BY <3>2
    <3>3. CASE n # 0 /\ n # k + 1
      <4>1. n \in 0..k /\ n - 1 \in 0..k
          BY <3>3
      <4>2. f[n] = Group * f[n - 1]
          BY <2>1, <3>3, <4>1
      <4>3. g[n] = f[n] /\ g[n - 1] = f[n - 1]
          BY <3>3, <4>1
      <4> QED  BY <3>3, <4>2, <4>3
    <3> QED  BY <3>1, <3>2, <3>3
  <2>4. g = [n \in 0..(k + 1) |-> IF n = 0 THEN 1 ELSE Group * g[n - 1]]
      BY <2>3
  <2>5. \E h \in [0..(k + 1) -> Nat] :
            h = [n \in 0..(k + 1) |-> IF n = 0 THEN 1 ELSE Group * h[n - 1]]
    <3> HIDE DEF g
    <3> QED  BY <2>2, <2>4
  <2>6. k + 1 \in Nat
      OBVIOUS
  <2> QED  BY <2>5, <2>6
<1>3. Nat \subseteq T
  <2> HIDE DEF T
  <2> QED  BY <1>1, <1>2, Induction
<1> QED  BY <1>3

LEMMA WeightUnfolds ==
    /\ Weight \in [0..Full -> Nat]
    /\ Weight[0] = 1
    /\ \A n \in 1..Full : Weight[n] = Group * Weight[n - 1]
<1>1. \E f : f = [n \in 0..Full |-> IF n = 0 THEN 1 ELSE Group * f[n - 1]] /\ f \in [0..Full -> Nat]
    BY WidthAssumption, WeightsExist
<1>2. Weight = [n \in 0..Full |-> IF n = 0 THEN 1 ELSE Group * Weight[n - 1]]
    BY <1>1 DEF Weight
<1>3. DOMAIN Weight = 0..Full
    BY <1>2
<1>4. Weight[0] = 1
    BY <1>2, WidthAssumption
<1>5. \A n \in 1..Full : Weight[n] = Group * Weight[n - 1]
  <2> SUFFICES ASSUME NEW n \in 1..Full  PROVE Weight[n] = Group * Weight[n - 1]
      OBVIOUS
  <2>1. n \in 0..Full /\ n # 0
      BY WidthAssumption
  <2> QED  BY <1>2, <2>1
<1>6. \A n \in 0..Full : Weight[n] \in Nat
  <2> DEFINE T == {n \in Nat : n \in 0..Full => Weight[n] \in Nat}
  <2>1. 0 \in T
      BY <1>4
  <2>2. ASSUME NEW n \in Nat, n \in T  PROVE n + 1 \in T
    <3> SUFFICES ASSUME n + 1 \in 0..Full  PROVE Weight[n + 1] \in Nat
        OBVIOUS
    <3>1. n \in 0..Full /\ n + 1 \in 1..Full
        BY WidthAssumption
    <3>2. Weight[n] \in Nat
        BY <2>2, <3>1
    <3>3. Weight[n + 1] = Group * Weight[n]
        BY <1>5, <3>1
    <3> QED  BY <3>2, <3>3, WidthAssumption
  <2>3. Nat \subseteq T
    <3> HIDE DEF T
    <3> QED  BY <2>1, <2>2, Induction
  <2> QED  BY <2>3, WidthAssumption
<1> QED  BY <1>2, <1>3, <1>4, <1>5, <1>6

LEMMA WeightPositive == \A n \in 0..Full : Weight[n] \in Nat \ {0}
<1> DEFINE T == {n \in Nat : n \in 0..Full => Weight[n] \in Nat \ {0}}
<1>1. 0 \in T
    BY WeightUnfolds
<1>2. ASSUME NEW n \in Nat, n \in T  PROVE n + 1 \in T
  <2> SUFFICES ASSUME n + 1 \in 0..Full  PROVE Weight[n + 1] \in Nat \ {0}
      OBVIOUS
  <2>1. n \in 0..Full /\ n + 1 \in 1..Full
      BY WidthAssumption
  <2>2. Weight[n] \in Nat \ {0}
      BY <1>2, <2>1
  <2>3. Weight[n + 1] = Group * Weight[n]
      BY <2>1, WeightUnfolds
  <2> QED  BY <2>2, <2>3, WidthAssumption
<1>3. Nat \subseteq T
  <2> HIDE DEF T
  <2> QED  BY <1>1, <1>2, Induction
<1> QED  BY <1>3, WidthAssumption

LEMMA LimitPositive == Limit \in Nat /\ Limit >= 4 /\ Limit = 2 * Weight[Full] /\ Weight[Full] \in Nat \ {0}
<1>1. Full \in 1..Full /\ Full \in 0..Full /\ Full - 1 \in 0..Full
    BY WidthAssumption
<1>2. Weight[Full] = Group * Weight[Full - 1]
    BY <1>1, WeightUnfolds
<1>3. Weight[Full] \in Nat \ {0} /\ Weight[Full - 1] \in Nat \ {0}
    BY <1>1, WeightPositive
<1>4. Group * Weight[Full - 1] >= 2
    BY <1>3, WidthAssumption
<1> QED  BY <1>2, <1>3, <1>4 DEF Limit

(* The heavier of two weights is a multiple of the lighter, and of a group more. *)
LEMMA WeightDivides ==
    ASSUME NEW m \in 0..Full, NEW j \in 0..Full, j < m
    PROVE  \E k \in Nat : Weight[m] = Weight[j] * (Group * k)
<1> DEFINE T == {n \in Nat : j + 1 + n \in 0..Full =>
                    \E k \in Nat : Weight[j + 1 + n] = Weight[j] * (Group * k)}
<1>0. Weight[j] \in Nat
    BY WeightUnfolds
<1>1. 0 \in T
  <2> SUFFICES ASSUME j + 1 \in 0..Full
               PROVE  \E k \in Nat : Weight[j + 1] = Weight[j] * (Group * k)
      OBVIOUS
  <2>1. Weight[j + 1] = Group * Weight[j]
      BY WeightUnfolds
  <2>2. Weight[j + 1] = Weight[j] * (Group * 1)
      BY <2>1, <1>0, WidthAssumption
  <2> QED  BY <2>2
<1>2. ASSUME NEW n \in Nat, n \in T  PROVE n + 1 \in T
  <2> SUFFICES ASSUME j + 1 + (n + 1) \in 0..Full
               PROVE  \E k \in Nat : Weight[j + 1 + (n + 1)] = Weight[j] * (Group * k)
      OBVIOUS
  <2>1. j + 1 + n \in 0..Full /\ j + 1 + (n + 1) \in 1..Full /\ (j + 1 + (n + 1)) - 1 = j + 1 + n
      BY WidthAssumption
  <2>2. PICK k \in Nat : Weight[j + 1 + n] = Weight[j] * (Group * k)
      BY <1>2, <2>1
  <2>3. Weight[j + 1 + (n + 1)] = Group * Weight[j + 1 + n]
      BY <2>1, WeightUnfolds
  <2>4. Weight[j + 1 + (n + 1)] = Group * (Weight[j] * (Group * k))
      BY <2>2, <2>3
  <2>5. Group * (Weight[j] * (Group * k)) = Weight[j] * (Group * (Group * k))
      BY <1>0, WidthAssumption
  <2>6. Group * k \in Nat
      BY WidthAssumption
  <2> QED  BY <2>4, <2>5, <2>6
<1>3. Nat \subseteq T
  <2> HIDE DEF T
  <2> QED  BY <1>1, <1>2, Induction
<1>4. m - j - 1 \in Nat /\ j + 1 + (m - j - 1) = m
    OBVIOUS
<1>5. m - j - 1 \in T
    BY <1>3, <1>4
<1> QED  BY <1>4, <1>5
LEMMA WeightGrows ==
    ASSUME NEW m \in 0..Full, NEW j \in 0..m
    PROVE  Weight[j] <= Weight[m]
<1>1. j \in 0..Full /\ Weight[m] \in Nat \ {0} /\ Weight[j] \in Nat \ {0}
    BY WeightPositive, WidthAssumption
<1>2. CASE j = m
    BY <1>1, <1>2
<1>3. CASE j < m
  <2>1. PICK k \in Nat : Weight[m] = Weight[j] * (Group * k)
      BY <1>1, <1>3, WeightDivides
  <2>2. k # 0
      BY <1>1, <2>1, WidthAssumption
  <2>3. Group * k >= 1 /\ Group * k \in Nat
      BY <2>2, WidthAssumption
  <2>4. Weight[j] * (Group * k) >= Weight[j]
      BY <1>1, <2>3
  <2> QED  BY <2>1, <2>4
<1> QED  BY <1>1, <1>2, <1>3

LEMMA RemainderSplits ==
    ASSUME NEW v \in Nat, NEW p \in Nat \ {0}
    PROVE  v % (Group * p) = (v % p) + p * ((v \div p) % Group)
<1> DEFINE q == v \div p
           r == v % p
           c == q \div Group
           d == q % Group
<1>1. q \in Nat /\ r \in 0..(p - 1) /\ v = p * q + r
    BY DivMod
<1>2. c \in Nat /\ d \in 0..(Group - 1) /\ q = Group * c + d
  <2> HIDE DEF q
  <2>1. Group \in Nat \ {0}
      BY WidthAssumption
  <2> QED  BY <1>1, <2>1, DivMod
<1> HIDE DEF q, r, c, d
<1>3. v = (Group * p) * c + (p * d + r)
  <2>1. p * q = p * (Group * c) + p * d
      BY <1>1, <1>2, WidthAssumption
  <2>2. p * (Group * c) = (Group * p) * c
      BY <1>2, WidthAssumption
  <2>3. p * (Group * c) \in Nat /\ p * d \in Nat
      BY <1>2, WidthAssumption
  <2>4. p * q + r = p * (Group * c) + (p * d + r)
      BY <1>1, <2>1, <2>3
  <2> QED  BY <1>1, <2>2, <2>4
<1>4. p * d + r \in 0..(Group * p - 1)
  <2> DEFINE x == p * d
             y == Group * p
  <2>1. x <= p * (Group - 1)
      BY <1>2, WidthAssumption
  <2>2. p * (Group - 1) = y - p
      BY WidthAssumption
  <2>3. x \in Nat /\ y \in Nat
      BY <1>2, WidthAssumption
  <2>4. x <= y - p
      BY <2>1, <2>2
  <2> HIDE DEF x, y
  <2>5. x + r \in 0..(y - 1)
      BY <1>1, <2>3, <2>4
  <2> QED  BY <2>5 DEF x, y
<1>5. Group * p \in Nat \ {0}
    BY WidthAssumption
<1>6. v % (Group * p) = p * d + r
  <2> DEFINE g == Group * p
             z == p * d + r
  <2>1. g \in Nat \ {0} /\ z \in 0..(g - 1) /\ v = g * c + z
      BY <1>3, <1>4, <1>5
  <2> HIDE DEF g, z
  <2>2. v % g = z
      BY <1>2, <2>1, DivModUnique
  <2> QED  BY <2>2 DEF g, z
<1> QED  BY <1>1, <1>2, <1>6 DEF q, r, d

LEMMA DigitType ==
    ASSUME NEW v \in Nat, NEW j \in 0..Full
    PROVE  Digit(v, j) \in 0..(Group - 1)
<1> DEFINE q == v \div Weight[j]
<1>1. q \in Nat
    BY WeightPositive, DivMod
<1>2. q % Group \in 0..(Group - 1)
  <2> HIDE DEF q
  <2> QED  BY <1>1, DivMod, WidthAssumption
<1> QED  BY <1>2 DEF Digit

LEMMA TopDigit ==
    ASSUME NEW v \in Value
    PROVE  /\ Digit(v, Full) < 2
           /\ v \in Nat
           /\ v = (v % Weight[Full]) + Weight[Full] * Digit(v, Full)
<1> DEFINE w == Weight[Full]
<1>1. w \in Nat \ {0} /\ v \in Nat /\ v < 2 * w
    BY LimitPositive DEF Value
<1> HIDE DEF w
<1>2. v \div w \in Nat /\ v % w \in 0..(w - 1) /\ v = w * (v \div w) + (v % w)
    BY <1>1, DivMod
<1> DEFINE q == v \div w
           r == v % w
<1>3. q \in Nat /\ r \in 0..(w - 1) /\ v = w * q + r
    BY <1>2
<1> HIDE DEF q, r
<1>4. q < 2
  <2> SUFFICES ASSUME q >= 2  PROVE FALSE
      BY <1>3
  <2>1. w * q >= w * 2
      BY <1>1, <1>3
  <2> QED  BY <1>1, <1>3, <2>1
<1>5. q % Group = q
    BY <1>3, <1>4, WidthAssumption
<1>6. Digit(v, Full) = q
    BY <1>5 DEF Digit, q, w
<1> QED  BY <1>1, <1>3, <1>4, <1>6 DEF r, w

LEMMA SameDigits ==
    ASSUME NEW v \in Value, NEW w \in Value,
           \A j \in 0..Full : Digit(v, j) = Digit(w, j)
    PROVE  v = w
<1> DEFINE T == {n \in Nat : n \in 0..Full => v % Weight[n] = w % Weight[n]}
<1>0. v \in Nat /\ w \in Nat
    BY TopDigit
<1>1. 0 \in T
  <2>1. v % 1 = 0 /\ w % 1 = 0
      BY <1>0
  <2> QED  BY <2>1, WeightUnfolds
<1>2. ASSUME NEW n \in Nat, n \in T  PROVE n + 1 \in T
  <2> SUFFICES ASSUME n + 1 \in 0..Full  PROVE v % Weight[n + 1] = w % Weight[n + 1]
      OBVIOUS
  <2>1. n \in 0..Full /\ n + 1 \in 1..Full /\ Weight[n] \in Nat \ {0}
      BY WeightPositive, WidthAssumption
  <2>2. Weight[n + 1] = Group * Weight[n]
      BY <2>1, WeightUnfolds
  <2>3. v % (Group * Weight[n]) = (v % Weight[n]) + Weight[n] * Digit(v, n)
      BY <1>0, <2>1, RemainderSplits DEF Digit
  <2>4. w % (Group * Weight[n]) = (w % Weight[n]) + Weight[n] * Digit(w, n)
      BY <1>0, <2>1, RemainderSplits DEF Digit
  <2>5. v % Weight[n] = w % Weight[n] /\ Digit(v, n) = Digit(w, n)
      BY <1>2, <2>1
  <2> QED  BY <2>2, <2>3, <2>4, <2>5
<1>3. Nat \subseteq T
  <2> HIDE DEF T
  <2> QED  BY <1>1, <1>2, Induction
<1>4. v % Weight[Full] = w % Weight[Full]
    BY <1>3, WidthAssumption
<1> QED  BY <1>4, TopDigit, WidthAssumption

LEMMA NothingAbove ==
    ASSUME NEW v \in Nat, NEW j \in 0..Full, v < Weight[j]
    PROVE  Digit(v, j) = 0
<1>1. Weight[j] \in Nat \ {0}
    BY WeightPositive
<1>2. v \div Weight[j] = 0
  <2> DEFINE w == Weight[j]
  <2>1. w \in Nat \ {0} /\ v \in 0..(w - 1) /\ v = w * 0 + v
      BY <1>1
  <2> HIDE DEF w
  <2>2. v \div w = 0
      BY <2>1, DivModUnique
  <2> QED  BY <2>2 DEF w
<1>3. 0 % Group = 0
    BY WidthAssumption
<1> QED  BY <1>2, <1>3 DEF Digit

LEMMA RemainderSkips ==
    ASSUME NEW q \in Nat, NEW x \in Nat, NEW g \in Nat \ {0}
    PROVE  (q + g * x) % g = q % g
<1> DEFINE c == q \div g
           r == q % g
           u == q + g * x
<1>1. c \in Nat /\ r \in 0..(g - 1) /\ q = g * c + r
    BY DivMod
<1> HIDE DEF c, r
<1>2. g * (c + x) = g * c + g * x /\ g * c \in Nat /\ g * x \in Nat
    BY <1>1
<1>3. u \in Nat /\ c + x \in Nat /\ u = g * (c + x) + r
    BY <1>1, <1>2
<1> HIDE DEF u
<1>4. u % g = r
    BY <1>1, <1>3, DivModUnique
<1> QED  BY <1>4 DEF r, u

(* A group put in above the bits of v leaves the groups below it as they are. *)
LEMMA PutIn ==
    ASSUME NEW m \in 0..Full, NEW v \in Nat, v < Weight[m], NEW c \in 0..(Group - 1),
           NEW u, u = v + Weight[m] * c
    PROVE  /\ u \in Nat
           /\ Digit(u, m) = c
           /\ \A j \in 0..(m - 1) : Digit(u, j) = Digit(v, j)
           /\ u <= Group * Weight[m] - 1
<1> DEFINE w == Weight[m]
<1>1. w \in Nat \ {0} /\ v \in 0..(w - 1) /\ u = w * c + v /\ u \in Nat
  <2>1. w \in Nat \ {0}
      BY WeightPositive
  <2>2. w * c \in Nat
      BY <2>1, WidthAssumption
  <2> QED  BY <2>1, <2>2
<1>2. u \div w = c
  <2> HIDE DEF w
  <2> QED  BY <1>1, DivModUnique, WidthAssumption
<1>3. Digit(u, m) = c
  <2>1. c % Group = c
      BY WidthAssumption
  <2> QED  BY <1>2, <2>1 DEF Digit
<1>4. u <= Group * w - 1
  <2> HIDE DEF w
  <2>1. w * c <= w * (Group - 1)
      BY <1>1, WidthAssumption
  <2>2. w * (Group - 1) = Group * w - w
      BY <1>1, WidthAssumption
  <2>3. w * c \in Nat /\ Group * w \in Nat
      BY <1>1, WidthAssumption
  <2> QED  BY <1>1, <2>1, <2>2, <2>3
<1>5. ASSUME NEW j \in 0..(m - 1)
      PROVE  Digit(u, j) = Digit(v, j)
  <2>1. j \in 0..Full /\ j < m
      BY WidthAssumption
  <2>2. PICK k \in Nat : w = Weight[j] * (Group * k)
      BY <2>1, WeightDivides
  <2> DEFINE p == Weight[j]
             q == v \div p
             r == v % p
             x == k * c
  <2>3. p \in Nat \ {0}
      BY <2>1, WeightPositive
  <2>4. q \in Nat /\ r \in 0..(p - 1) /\ v = p * q + r
    <3> HIDE DEF p
    <3> QED  BY <2>3, DivMod
  <2>5. x \in Nat
      OBVIOUS
  <2>6. w * c = p * (Group * x)
      BY <2>2, <2>3, WidthAssumption
  <2> HIDE DEF q, r, p, w, x
  <2>7. p * (q + Group * x) = p * q + p * (Group * x) /\ Group * x \in Nat
      BY <2>3, <2>4, <2>5, WidthAssumption
  <2>8. p * q \in Nat /\ p * (Group * x) \in Nat
      BY <2>3, <2>4, <2>7
  <2>9. q + Group * x \in Nat /\ u = p * (q + Group * x) + r
      BY <1>1, <2>4, <2>6, <2>7, <2>8
  <2>10. u \div p = q + Group * x
    <3> DEFINE z == q + Group * x
    <3>1. z \in Nat /\ u = p * z + r
        BY <2>9
    <3> HIDE DEF z
    <3>2. u \div p = z
        BY <1>1, <2>3, <2>4, <3>1, DivModUnique
    <3> QED  BY <3>2 DEF z
  <2>11. (q + Group * x) % Group = q % Group
    <3>1. Group \in Nat \ {0}
        BY WidthAssumption
    <3> QED  BY <2>4, <2>5, <3>1, RemainderSkips
  <2> QED  BY <2>10, <2>11 DEF Digit, p, q
<1> QED  BY <1>1, <1>3, <1>4, <1>5

(* Every choice of groups is a value's. *)
LEMMA ValueOfDigits ==
    ASSUME NEW d \in [0..Full -> 0..(Group - 1)], d[Full] < 2
    PROVE  \E v \in Value : \A j \in 0..Full : Digit(v, j) = d[j]
<1> DEFINE T == {n \in Nat : n \in 0..Full =>
                    \E v \in Nat : v < Weight[n] /\ \A j \in 0..(n - 1) : Digit(v, j) = d[j]}
<1>1. 0 \in T
  <2>1. 0 < Weight[0] /\ 0..(0 - 1) = {}
      BY WeightUnfolds
  <2> QED  BY <2>1
<1>2. ASSUME NEW n \in Nat, n \in T  PROVE n + 1 \in T
  <2> SUFFICES ASSUME n + 1 \in 0..Full
               PROVE  \E v \in Nat : /\ v < Weight[n + 1]
                                     /\ \A j \in 0..(n + 1 - 1) : Digit(v, j) = d[j]
      OBVIOUS
  <2>1. n \in 0..Full /\ n + 1 \in 1..Full /\ n + 1 - 1 = n
      BY WidthAssumption
  <2>2. PICK v \in Nat : v < Weight[n] /\ \A j \in 0..(n - 1) : Digit(v, j) = d[j]
      BY <1>2, <2>1
  <2>3. PICK u : u = v + Weight[n] * d[n]
      OBVIOUS
  <2>4. d[n] \in 0..(Group - 1)
      BY <2>1
  <2>5. /\ u \in Nat
        /\ Digit(u, n) = d[n]
        /\ \A j \in 0..(n - 1) : Digit(u, j) = Digit(v, j)
        /\ u <= Group * Weight[n] - 1
      BY <2>1, <2>2, <2>3, <2>4, PutIn
  <2>6. Weight[n + 1] = Group * Weight[n] /\ Weight[n + 1] \in Nat
      BY <2>1, WeightUnfolds
  <2>7. u < Weight[n + 1]
      BY <2>5, <2>6
  <2>8. ASSUME NEW j \in 0..(n + 1 - 1)  PROVE Digit(u, j) = d[j]
    <3>1. CASE j = n
        BY <2>5, <3>1
    <3>2. CASE j # n
      <4>1. j \in 0..(n - 1)
          BY <3>2
      <4> QED  BY <2>2, <2>5, <4>1
    <3> QED  BY <3>1, <3>2
  <2> QED  BY <2>5, <2>7, <2>8
<1>3. Nat \subseteq T
  <2> HIDE DEF T
  <2> QED  BY <1>1, <1>2, Induction
<1>4. PICK v \in Nat : v < Weight[Full] /\ \A j \in 0..(Full - 1) : Digit(v, j) = d[j]
    BY <1>3, WidthAssumption
<1>5. Full \in 0..Full /\ d[Full] \in 0..(Group - 1)
    BY WidthAssumption
<1>6. PICK u : u = v + Weight[Full] * d[Full]
    OBVIOUS
<1>7. /\ u \in Nat
      /\ Digit(u, Full) = d[Full]
      /\ \A j \in 0..(Full - 1) : Digit(u, j) = Digit(v, j)
    BY <1>4, <1>5, <1>6, PutIn
<1>8. u \in Value
  <2> DEFINE w == Weight[Full]
  <2>1. w \in Nat \ {0} /\ Limit = 2 * w
      BY LimitPositive
  <2>2. w * d[Full] <= w
      BY <1>5, <2>1
  <2>3. u = v + w * d[Full] /\ v < w
      BY <1>4, <1>6
  <2>4. w * d[Full] \in Nat
      BY <1>5, <2>1
  <2> HIDE DEF w
  <2>5. u < 2 * w
      BY <2>1, <2>2, <2>3, <2>4
  <2> QED  BY <1>7, <2>1, <2>5 DEF Value
<1>9. ASSUME NEW j \in 0..Full  PROVE Digit(u, j) = d[j]
  <2>1. CASE j = Full
      BY <1>7, <2>1
  <2>2. CASE j # Full
    <3>1. j \in 0..(Full - 1)
        BY <2>2, WidthAssumption
    <3> QED  BY <1>4, <1>7, <3>1
  <2> QED  BY <2>1, <2>2
<1> QED  BY <1>8, <1>9

(* varuint stops at the last group that is not zero. *)
LEMMA SizeOf ==
    ASSUME NEW v \in Value
    PROVE  /\ Size(v) \in 1..(Full + 1)
           /\ \A j \in 0..Full : j >= Size(v) => Digit(v, j) = 0
<1> DEFINE P(n) == (n > 1 => v >= Weight[n - 1]) /\ (n <= Full => v < Weight[n])
           T == {n \in 1..(Full + 1) : n <= Full => v < Weight[n]}
<1>0. v \in Nat /\ 1 \in 1..(Full + 1)
    BY TopDigit, WidthAssumption
<1>1. Full + 1 \in T /\ T \subseteq Nat
    BY WidthAssumption
<1>2. PICK n \in T : \A k \in T : n <= k
  <2> HIDE DEF T
  <2> QED  BY <1>1, LeastOfNat
<1>3. n \in 1..(Full + 1) /\ P(n)
  <2>1. n > 1 => v >= Weight[n - 1]
    <3> SUFFICES ASSUME n > 1, v < Weight[n - 1]  PROVE FALSE
      <4>1. n > 1 => n - 1 \in 0..Full
          BY <1>2, WidthAssumption
      <4> QED  BY <1>0, <4>1, WeightPositive
    <3>1. n - 1 \in T
        BY <1>2, WidthAssumption
    <3>2. n <= n - 1
        BY <1>2, <3>1
    <3> QED  BY <1>2, <3>2, WidthAssumption
  <2> QED  BY <1>2, <2>1
<1>4. Size(v) \in 1..(Full + 1) /\ P(Size(v))
  <2>1. Size(v) = CHOOSE m \in 1..(Full + 1) : P(m)
      BY DEF Size
  <2> HIDE DEF P
  <2> QED  BY <1>3, <2>1
<1>5. ASSUME NEW j \in 0..Full, j >= Size(v)
      PROVE  Digit(v, j) = 0
  <2>1. Size(v) \in 0..Full /\ Size(v) \in 0..j
      BY <1>4, <1>5, WidthAssumption
  <2>2. v < Weight[Size(v)]
      BY <1>4, <2>1
  <2>3. Weight[Size(v)] <= Weight[j]
      BY <2>1, WeightGrows
  <2>4. v < Weight[j]
      BY <1>0, <2>1, <2>2, <2>3, WeightPositive
  <2> QED  BY <1>0, <2>4, NothingAbove
<1> QED  BY <1>4, <1>5

LEMMA VarUintBytes ==
    ASSUME NEW v \in Value
    PROVE  /\ VarUint(v) \in Seq(Byte)
           /\ Len(VarUint(v)) = Size(v)
           /\ \A i \in 1..Size(v) : /\ Low(VarUint(v)[i]) = Digit(v, i - 1)
                                    /\ More(VarUint(v)[i]) <=> i < Size(v)
<1>1. Size(v) \in Nat /\ Size(v) \in 1..(Full + 1) /\ v \in Nat
    BY SizeOf, TopDigit, WidthAssumption
<1>2. ASSUME NEW i \in 1..Size(v)
      PROVE  /\ VarUint(v)[i] \in Byte
             /\ Low(VarUint(v)[i]) = Digit(v, i - 1)
             /\ More(VarUint(v)[i]) <=> i < Size(v)
  <2>1. i - 1 \in 0..Full
      BY <1>1, WidthAssumption
  <2> DEFINE c == Digit(v, i - 1)
  <2>2. c \in 0..(Group - 1)
      BY <1>1, <2>1, DigitType
  <2>3. VarUint(v)[i] = c + (IF i < Size(v) THEN Group ELSE 0)
      BY DEF VarUint
  <2> HIDE DEF c
  <2>4. CASE i < Size(v)
    <3>1. VarUint(v)[i] = c + Group * 1
        BY <2>2, <2>3, <2>4, WidthAssumption
    <3>2. (c + Group * 1) % Group = c % Group
      <4>1. c \in Nat /\ 1 \in Nat /\ Group \in Nat \ {0}
          BY <2>2, WidthAssumption
      <4> QED  BY <4>1, RemainderSkips
    <3>3. c % Group = c
        BY <2>2, WidthAssumption
    <3> QED  BY <2>2, <2>4, <3>1, <3>2, <3>3, WidthAssumption DEF Byte, Low, More, c
  <2>5. CASE ~(i < Size(v))
    <3>1. VarUint(v)[i] = c
        BY <2>2, <2>3, <2>5
    <3>2. c % Group = c
        BY <2>2, WidthAssumption
    <3> QED  BY <2>2, <2>5, <3>1, <3>2, WidthAssumption DEF Byte, Low, More, c
  <2> QED  BY <2>4, <2>5
<1>3. VarUint(v) \in [1..Size(v) -> Byte]
  <2>1. DOMAIN VarUint(v) = 1..Size(v) /\ VarUint(v) = [i \in 1..Size(v) |-> VarUint(v)[i]]
      BY DEF VarUint
  <2> QED  BY <1>2, <2>1
<1>4. VarUint(v) \in Seq(Byte) /\ Len(VarUint(v)) = Size(v)
    BY <1>1, <1>3
<1> QED  BY <1>2, <1>4

LEMMA LowType == ASSUME NEW b \in Byte  PROVE Low(b) \in 0..(Group - 1)
  BY WidthAssumption DEF Low, Byte

(* Whatever bytes are read, what they make is a value, and more bytes are read than none. *)
LEMMA ReadType ==
    ASSUME NEW data \in Seq(Byte), NEW from \in Nat \ {0}, ReadVarUint(data, from).ok
    PROVE  /\ ReadVarUint(data, from).value \in Value
           /\ ReadVarUint(data, from).next \in (from + 1)..(Len(data) + 1)
<1> DEFINE n == CHOOSE m \in 1..(Full + 1) : Spans(data, from, m)
           D(v) == \A i \in 0..Full : Digit(v, i) = IF i < n THEN Low(data[from + i]) ELSE 0
<1>1. \E m \in 1..(Full + 1) : Spans(data, from, m)
    BY DEF ReadVarUint, Fail
<1>2. n \in 1..(Full + 1) /\ Spans(data, from, n)
    BY <1>1
<1>3. ReadVarUint(data, from) = [ok |-> TRUE, next |-> from + n, value |-> CHOOSE v \in Value : D(v)]
    BY <1>1 DEF ReadVarUint
<1> HIDE DEF n
<1>4. n \in Nat /\ n >= 1 /\ n <= Full + 1 /\ from + n - 1 <= Len(data) /\ Len(data) \in Nat
    BY <1>2, WidthAssumption DEF Spans
<1>5. \E v \in Value : D(v)
  <2> DEFINE d == [i \in 0..Full |-> IF i < n THEN Low(data[from + i]) ELSE 0]
  <2>1. d \in [0..Full -> 0..(Group - 1)]
    <3> SUFFICES ASSUME NEW i \in 0..Full, i < n  PROVE Low(data[from + i]) \in 0..(Group - 1)
        BY WidthAssumption
    <3>1. from + i \in 1..Len(data)
        BY <1>4
    <3>2. data[from + i] \in Byte
        BY <3>1
    <3> QED  BY <3>2, LowType
  <2>2. d[Full] < 2
    <3>1. CASE Full < n
      <4>1. n = Full + 1 /\ from + n - 1 = from + Full
          BY <1>4, <3>1, WidthAssumption
      <4>2. Low(data[from + n - 1]) < 2
          BY <1>2, <4>1 DEF Spans
      <4> QED  BY <3>1, <4>1, <4>2, WidthAssumption
    <3>2. CASE ~(Full < n)
        BY <3>2, WidthAssumption
    <3> QED  BY <3>1, <3>2
  <2>3. \A i \in 0..Full : d[i] = IF i < n THEN Low(data[from + i]) ELSE 0
      OBVIOUS
  <2> HIDE DEF d
  <2>4. PICK v \in Value : \A i \in 0..Full : Digit(v, i) = d[i]
      BY <2>1, <2>2, ValueOfDigits
  <2> QED  BY <2>3, <2>4
<1>6. (CHOOSE v \in Value : D(v)) \in Value
  <2> HIDE DEF D
  <2> QED  BY <1>5
<1> QED  BY <1>3, <1>4, <1>6

(* What varuint writes, read_varuint reads, wherever it lies. *)
LEMMA ReadsBack ==
    ASSUME NEW data \in Seq(Byte), NEW from \in Nat \ {0}, NEW v \in Value,
           from + Size(v) - 1 <= Len(data),
           \A i \in 1..Size(v) : data[from + i - 1] = VarUint(v)[i]
    PROVE  ReadVarUint(data, from) = [ok |-> TRUE, next |-> from + Size(v), value |-> v]
<1> DEFINE n == CHOOSE m \in 1..(Full + 1) : Spans(data, from, m)
           D(u) == \A i \in 0..Full : Digit(u, i) = IF i < n THEN Low(data[from + i]) ELSE 0
<1>1. Size(v) \in Nat /\ Size(v) \in 1..(Full + 1) /\ v \in Nat
    BY SizeOf, TopDigit, WidthAssumption
<1>2. ASSUME NEW i \in 0..(Size(v) - 1)
      PROVE  /\ Low(data[from + i]) = Digit(v, i)
             /\ More(data[from + i]) <=> i + 1 < Size(v)
  <2>1. i + 1 \in 1..Size(v) /\ from + (i + 1) - 1 = from + i /\ i + 1 - 1 = i
      BY <1>1
  <2>2. data[from + i] = VarUint(v)[i + 1]
      BY <2>1
  <2> QED  BY <2>1, <2>2, VarUintBytes
<1>3. Spans(data, from, Size(v))
  <2>1. \A i \in 0..(Size(v) - 2) : More(data[from + i])
    <3> SUFFICES ASSUME NEW i \in 0..(Size(v) - 2)  PROVE More(data[from + i])
        OBVIOUS
    <3>1. i \in 0..(Size(v) - 1) /\ i + 1 < Size(v)
        BY <1>1
    <3> QED  BY <1>2, <3>1
  <2>2. Size(v) - 1 \in 0..(Size(v) - 1) /\ from + (Size(v) - 1) = from + Size(v) - 1
      BY <1>1
  <2>3. ~More(data[from + Size(v) - 1])
      BY <1>1, <1>2, <2>2
  <2>4. Size(v) = Full + 1 => Low(data[from + Size(v) - 1]) < 2
    <3>1. Low(data[from + Size(v) - 1]) = Digit(v, Size(v) - 1)
        BY <1>2, <2>2
    <3>2. Size(v) = Full + 1 => Size(v) - 1 = Full
        BY WidthAssumption
    <3> QED  BY <3>1, <3>2, TopDigit
  <2> QED  BY <2>1, <2>3, <2>4 DEF Spans
<1>4. ASSUME NEW m \in 1..(Full + 1), Spans(data, from, m)
      PROVE  m = Size(v)
  <2>0. m \in Nat /\ m >= 1
      BY WidthAssumption
  <2>1. ~(m < Size(v))
    <3> SUFFICES ASSUME m < Size(v)  PROVE FALSE
        OBVIOUS
    <3>1. m - 1 \in 0..(Size(v) - 1) /\ (m - 1) + 1 < Size(v) /\ from + (m - 1) = from + m - 1
        BY <1>1, <2>0
    <3>2. More(data[from + m - 1])
        BY <1>2, <3>1
    <3> QED  BY <1>4, <3>2 DEF Spans
  <2>2. ~(Size(v) < m)
    <3> SUFFICES ASSUME Size(v) < m  PROVE FALSE
        OBVIOUS
    <3>1. Size(v) - 1 \in 0..(m - 2) /\ Size(v) - 1 \in 0..(Size(v) - 1)
          /\ ~((Size(v) - 1) + 1 < Size(v))
        BY <1>1, <2>0
    <3>2. More(data[from + (Size(v) - 1)])
        BY <1>4, <3>1 DEF Spans
    <3> QED  BY <1>2, <3>1, <3>2
  <2> QED  BY <1>1, <2>0, <2>1, <2>2
<1>5. n = Size(v)
    BY <1>1, <1>3, <1>4
<1>6. ReadVarUint(data, from) = [ok |-> TRUE, next |-> from + n, value |-> CHOOSE u \in Value : D(u)]
    BY <1>1, <1>3 DEF ReadVarUint
<1> HIDE DEF n
<1>7. D(v)
  <2> SUFFICES ASSUME NEW i \in 0..Full
               PROVE  Digit(v, i) = IF i < n THEN Low(data[from + i]) ELSE 0
      OBVIOUS
  <2>1. CASE i < Size(v)
    <3>1. i \in 0..(Size(v) - 1)
        BY <1>1, <2>1
    <3> QED  BY <1>2, <1>5, <2>1, <3>1
  <2>2. CASE ~(i < Size(v))
    <3>1. i >= Size(v)
        BY <1>1, <2>2
    <3> QED  BY <1>5, <2>2, <3>1, SizeOf
  <2> QED  BY <2>1, <2>2
<1>8. ASSUME NEW u \in Value, D(u)  PROVE u = v
  <2>1. \A i \in 0..Full : Digit(u, i) = Digit(v, i)
      BY <1>7, <1>8
  <2> QED  BY <2>1, SameDigits
<1>9. (CHOOSE u \in Value : D(u)) = v
  <2> HIDE DEF D
  <2> QED  BY <1>7, <1>8
<1> QED  BY <1>5, <1>6, <1>9

\* Concatenation, for the provers to take as it is.
Cat(s, t) == s \o t

LEMMA CatBytes ==
    ASSUME NEW s \in Seq(Byte), NEW t \in Seq(Byte)
    PROVE  Cat(s, t) \in Seq(Byte)
  BY ConcatProperties DEF Cat

LEMMA CatAssociates ==
    ASSUME NEW s \in Seq(Byte), NEW t \in Seq(Byte), NEW u \in Seq(Byte)
    PROVE  Cat(Cat(s, t), u) = Cat(s, Cat(t, u))
  BY SMT, ConcatAssociative DEF Cat

LEMMA Cancels ==
    ASSUME NEW S, NEW s \in Seq(S), NEW t \in Seq(S), NEW x \in Seq(S), NEW y \in Seq(S),
           s \o x = t \o y, Len(s) = Len(t)
    PROVE  s = t /\ x = y
<1>1. Len(s \o x) = Len(s) + Len(x) /\ Len(t \o y) = Len(t) + Len(y)
      /\ Len(s) \in Nat /\ Len(x) \in Nat /\ Len(y) \in Nat
    OBVIOUS
<1>2. Len(x) = Len(y)
    BY <1>1
<1>3. \A i \in 1..Len(s) : s[i] = t[i]
  <2> SUFFICES ASSUME NEW i \in 1..Len(s)  PROVE s[i] = t[i]
      OBVIOUS
  <2>1. (s \o x)[i] = s[i] /\ (t \o y)[i] = t[i]
      BY <1>1
  <2> QED  BY <2>1
<1>4. \A i \in 1..Len(x) : x[i] = y[i]
  <2> SUFFICES ASSUME NEW i \in 1..Len(x)  PROVE x[i] = y[i]
      OBVIOUS
  <2>1. (s \o x)[Len(s) + i] = x[i]
      BY <1>1
  <2>2. i \in 1..Len(y)
      BY <1>2
  <2>3. (t \o y)[Len(t) + i] = y[i]
      BY <1>1, <2>2
  <2> QED  BY <2>1, <2>3
<1>5. s = t
    BY <1>3, SeqEqual
<1>6. x = y
    BY <1>2, <1>4, SeqEqual
<1> QED  BY <1>5, <1>6

(* No varint is the beginning of another. *)
LEMMA VarUintPeels ==
    ASSUME NEW v \in Value, NEW w \in Value, NEW s \in Seq(Byte), NEW t \in Seq(Byte),
           Cat(VarUint(v), s) = Cat(VarUint(w), t)
    PROVE  v = w /\ s = t
<1> DEFINE x == VarUint(v)
           y == VarUint(w)
<1>1. /\ x \in Seq(Byte) /\ Len(x) = Size(v) /\ Size(v) \in Nat /\ Size(v) >= 1
      /\ y \in Seq(Byte) /\ Len(y) = Size(w) /\ Size(w) \in Nat /\ Size(w) >= 1
    BY VarUintBytes, SizeOf, WidthAssumption
<1> HIDE DEF x, y
<1>2. x \o s = y \o t
    BY DEF x, y, Cat
<1>3. \A i \in 1..Size(v) : (x \o s)[i] = x[i]
    BY <1>1
<1>4. \A i \in 1..Size(w) : (y \o t)[i] = y[i]
    BY <1>1
<1>5. ~(Size(v) < Size(w))
  <2> SUFFICES ASSUME Size(v) < Size(w)  PROVE FALSE
      OBVIOUS
  <2>1. Size(v) \in 1..Size(v) /\ Size(v) \in 1..Size(w) /\ ~(Size(v) < Size(v))
      BY <1>1
  <2>2. x[Size(v)] = y[Size(v)]
      BY <1>2, <1>3, <1>4, <2>1
  <2>3. ~More(x[Size(v)]) /\ More(y[Size(v)])
      BY <2>1, VarUintBytes DEF x, y
  <2> QED  BY <2>2, <2>3
<1>6. ~(Size(w) < Size(v))
  <2> SUFFICES ASSUME Size(w) < Size(v)  PROVE FALSE
      OBVIOUS
  <2>1. Size(w) \in 1..Size(w) /\ Size(w) \in 1..Size(v) /\ ~(Size(w) < Size(w))
      BY <1>1
  <2>2. x[Size(w)] = y[Size(w)]
      BY <1>2, <1>3, <1>4, <2>1
  <2>3. ~More(y[Size(w)]) /\ More(x[Size(w)])
      BY <2>1, VarUintBytes DEF x, y
  <2> QED  BY <2>2, <2>3
<1>7. Len(x) = Len(y) /\ Size(v) = Size(w)
    BY <1>1, <1>5, <1>6
<1>8. x = y /\ s = t
    BY <1>1, <1>2, <1>7, Cancels
<1>9. ASSUME NEW j \in 0..Full  PROVE Digit(v, j) = Digit(w, j)
  <2>1. CASE j < Size(v)
    <3>1. j + 1 \in 1..Size(v) /\ j + 1 - 1 = j
        BY <1>1, <2>1
    <3>2. Low(x[j + 1]) = Digit(v, j) /\ Low(y[j + 1]) = Digit(w, j)
        BY <1>7, <3>1, VarUintBytes DEF x, y
    <3> QED  BY <1>8, <3>2
  <2>2. CASE ~(j < Size(v))
    <3>1. j >= Size(v) /\ j >= Size(w)
        BY <1>1, <1>7, <2>2
    <3> QED  BY <3>1, SizeOf
  <2> QED  BY <2>1, <2>2
<1> QED  BY <1>8, <1>9, SameDigits

LEMMA CatCancels ==
    ASSUME NEW s \in Seq(Byte), NEW t \in Seq(Byte), NEW x \in Seq(Byte), NEW y \in Seq(Byte),
           Cat(s, x) = Cat(t, y), Len(s) = Len(t)
    PROVE  s = t /\ x = y
  BY Cancels DEF Cat

LEMMA ArrayBytes ==
    ASSUME NEW x \in Seq(Byte), Len(x) \in Value
    PROVE  /\ VarUint8Array(x) = Cat(VarUint(Len(x)), x)
           /\ VarUint8Array(x) \in Seq(Byte)
<1>1. VarUint8Array(x) = Cat(VarUint(Len(x)), x)
    BY DEF VarUint8Array, Cat
<1>2. VarUint(Len(x)) \in Seq(Byte)
    BY VarUintBytes
<1> QED  BY <1>1, <1>2, CatBytes

LEMMA ArrayPeels ==
    ASSUME NEW x \in Seq(Byte), NEW y \in Seq(Byte), Len(x) \in Value, Len(y) \in Value,
           NEW s \in Seq(Byte), NEW t \in Seq(Byte),
           Cat(VarUint8Array(x), s) = Cat(VarUint8Array(y), t)
    PROVE  x = y /\ s = t
<1>1. VarUint(Len(x)) \in Seq(Byte) /\ VarUint(Len(y)) \in Seq(Byte)
    BY VarUintBytes
<1>2. Cat(Cat(VarUint(Len(x)), x), s) = Cat(Cat(VarUint(Len(y)), y), t)
    BY ArrayBytes
<1>3. Cat(VarUint(Len(x)), Cat(x, s)) = Cat(VarUint(Len(y)), Cat(y, t))
    BY <1>1, <1>2, CatAssociates
<1>4. Cat(x, s) \in Seq(Byte) /\ Cat(y, t) \in Seq(Byte)
    BY CatBytes
<1>5. Len(x) = Len(y) /\ Cat(x, s) = Cat(y, t)
    BY <1>3, <1>4, VarUintPeels
<1> QED  BY <1>5, CatCancels

\* The fields of an envelope are of their widths.
Typed(e) ==
    /\ e.key_id \in Byte /\ e.kind \in Value /\ e.epoch \in Value /\ e.counter \in Value
    /\ e.nonce \in Byte /\ e.ciphertext \in Seq(Byte) /\ Len(e.ciphertext) \in Value

LEMMA OneByte ==
    ASSUME NEW c \in Byte
    PROVE  <<c>> \in Seq(Byte) /\ Len(<<c>>) \in Value /\ <<c>>[1] = c
<1>1. 1 \in Value
    BY LimitPositive DEF Value
<1> QED  BY <1>1

LEMMA VersionBytes == <<1, 2>> \in Seq(Byte) /\ Len(<<1, 2>>) \in Value
<1>1. 1 \in Byte /\ 2 \in Byte
    BY WidthAssumption DEF Byte
<1>2. 2 \in Value
    BY LimitPositive DEF Value
<1> QED  BY <1>1, <1>2

\* The signing input, field by field.
Parts(r0, e) ==
    Cat(VarUint8Array(<<1, 2>>), Cat(VarUint8Array(r0), Cat(VarUint(e.kind), Cat(VarUint(e.epoch),
        Cat(VarUint8Array(<<e.key_id>>), Cat(VarUint(e.counter),
            Cat(VarUint8Array(<<e.nonce>>), VarUint8Array(e.ciphertext))))))))

LEMMA SignedBytes ==
    ASSUME NEW r0 \in Seq(Byte), Len(r0) \in Value, NEW e, Typed(e)
    PROVE  /\ VarUint8Array(<<1, 2>>) \in Seq(Byte)
           /\ VarUint8Array(r0) \in Seq(Byte)
           /\ VarUint(e.kind) \in Seq(Byte)
           /\ VarUint(e.epoch) \in Seq(Byte)
           /\ VarUint8Array(<<e.key_id>>) \in Seq(Byte)
           /\ VarUint(e.counter) \in Seq(Byte)
           /\ VarUint8Array(<<e.nonce>>) \in Seq(Byte)
           /\ VarUint8Array(e.ciphertext) \in Seq(Byte)
<1>1. <<e.key_id>> \in Seq(Byte) /\ Len(<<e.key_id>>) \in Value
    BY OneByte DEF Typed
<1>2. <<e.nonce>> \in Seq(Byte) /\ Len(<<e.nonce>>) \in Value
    BY OneByte DEF Typed
<1>3. VarUint8Array(<<1, 2>>) \in Seq(Byte)
    BY VersionBytes, ArrayBytes
<1>4. VarUint8Array(<<e.key_id>>) \in Seq(Byte)
    BY <1>1, ArrayBytes
<1>5. VarUint8Array(<<e.nonce>>) \in Seq(Byte)
    BY <1>2, ArrayBytes
<1>6. VarUint8Array(r0) \in Seq(Byte) /\ VarUint8Array(e.ciphertext) \in Seq(Byte)
    BY ArrayBytes DEF Typed
<1>7. VarUint(e.kind) \in Seq(Byte) /\ VarUint(e.epoch) \in Seq(Byte) /\ VarUint(e.counter) \in Seq(Byte)
    BY VarUintBytes DEF Typed
<1> QED  BY <1>3, <1>4, <1>5, <1>6, <1>7

LEMMA SigningInputParts ==
    ASSUME NEW r0 \in Seq(Byte), Len(r0) \in Value, NEW e, Typed(e)
    PROVE  SigningInput(r0, e) = Parts(r0, e)
<1>1. SigningInput(r0, e) =
        Cat(Cat(Cat(Cat(Cat(Cat(Cat(VarUint8Array(<<1, 2>>), VarUint8Array(r0)), VarUint(e.kind)),
            VarUint(e.epoch)), VarUint8Array(<<e.key_id>>)), VarUint(e.counter)),
            VarUint8Array(<<e.nonce>>)), VarUint8Array(e.ciphertext))
    BY Zenon DEF SigningInput, AssociatedData, Cat
<1> DEFINE s1 == VarUint8Array(<<1, 2>>)
           s2 == VarUint8Array(r0)
           s3 == VarUint(e.kind)
           s4 == VarUint(e.epoch)
           s5 == VarUint8Array(<<e.key_id>>)
           s6 == VarUint(e.counter)
           s7 == VarUint8Array(<<e.nonce>>)
           s8 == VarUint8Array(e.ciphertext)
<1>2. /\ s1 \in Seq(Byte) /\ s2 \in Seq(Byte) /\ s3 \in Seq(Byte) /\ s4 \in Seq(Byte)
      /\ s5 \in Seq(Byte) /\ s6 \in Seq(Byte) /\ s7 \in Seq(Byte) /\ s8 \in Seq(Byte)
    BY SignedBytes
<1>3. Parts(r0, e) = Cat(s1, Cat(s2, Cat(s3, Cat(s4, Cat(s5, Cat(s6, Cat(s7, s8)))))))
    BY DEF Parts
<1>4. SigningInput(r0, e) = Cat(Cat(Cat(Cat(Cat(Cat(Cat(s1, s2), s3), s4), s5), s6), s7), s8)
    BY <1>1
<1> HIDE DEF s1, s2, s3, s4, s5, s6, s7, s8
<1> DEFINE p2 == Cat(s1, s2)
           p3 == Cat(p2, s3)
           p4 == Cat(p3, s4)
           p5 == Cat(p4, s5)
           p6 == Cat(p5, s6)
           q7 == Cat(s7, s8)
           q6 == Cat(s6, q7)
           q5 == Cat(s5, q6)
           q4 == Cat(s4, q5)
           q3 == Cat(s3, q4)
<1>5. p2 \in Seq(Byte)  BY <1>2, CatBytes
<1>6. p3 \in Seq(Byte)  BY <1>2, <1>5, CatBytes
<1>7. p4 \in Seq(Byte)  BY <1>2, <1>6, CatBytes
<1>8. p5 \in Seq(Byte)  BY <1>2, <1>7, CatBytes
<1>9. p6 \in Seq(Byte)  BY <1>2, <1>8, CatBytes
<1>10. q7 \in Seq(Byte)  BY <1>2, CatBytes
<1>11. q6 \in Seq(Byte)  BY <1>2, <1>10, CatBytes
<1>12. q5 \in Seq(Byte)  BY <1>2, <1>11, CatBytes
<1>13. q4 \in Seq(Byte)  BY <1>2, <1>12, CatBytes
<1>14. q3 \in Seq(Byte)  BY <1>2, <1>13, CatBytes
<1>15. Cat(Cat(p6, s7), s8) = Cat(p6, q7)  BY <1>2, <1>9, CatAssociates
<1>16. Cat(p6, q7) = Cat(p5, q6)  BY <1>2, <1>8, <1>10, CatAssociates
<1>17. Cat(p5, q6) = Cat(p4, q5)  BY <1>2, <1>7, <1>11, CatAssociates
<1>18. Cat(p4, q5) = Cat(p3, q4)  BY <1>2, <1>6, <1>12, CatAssociates
<1>19. Cat(p3, q4) = Cat(p2, q3)  BY <1>2, <1>5, <1>13, CatAssociates
<1>20. Cat(p2, q3) = Cat(s1, Cat(s2, q3))  BY <1>2, <1>14, CatAssociates
<1> QED  BY <1>3, <1>4, <1>15, <1>16, <1>17, <1>18, <1>19, <1>20

(* The signing input says everything that it covers, and nothing twice. *)
LEMMA SigningInputSays ==
    ASSUME NEW r1 \in Seq(Byte), Len(r1) \in Value, NEW e1, Typed(e1),
           NEW r2 \in Seq(Byte), Len(r2) \in Value, NEW e2, Typed(e2),
           SigningInput(r1, e1) = SigningInput(r2, e2)
    PROVE  /\ r1 = r2
           /\ e1.key_id = e2.key_id /\ e1.kind = e2.kind /\ e1.epoch = e2.epoch
           /\ e1.counter = e2.counter /\ e1.nonce = e2.nonce /\ e1.ciphertext = e2.ciphertext
<1> DEFINE a1 == VarUint8Array(<<1, 2>>)
           a8 == VarUint8Array(e1.ciphertext)
           a7 == Cat(VarUint8Array(<<e1.nonce>>), a8)
           a6 == Cat(VarUint(e1.counter), a7)
           a5 == Cat(VarUint8Array(<<e1.key_id>>), a6)
           a4 == Cat(VarUint(e1.epoch), a5)
           a3 == Cat(VarUint(e1.kind), a4)
           a2 == Cat(VarUint8Array(r1), a3)
           b8 == VarUint8Array(e2.ciphertext)
           b7 == Cat(VarUint8Array(<<e2.nonce>>), b8)
           b6 == Cat(VarUint(e2.counter), b7)
           b5 == Cat(VarUint8Array(<<e2.key_id>>), b6)
           b4 == Cat(VarUint(e2.epoch), b5)
           b3 == Cat(VarUint(e2.kind), b4)
           b2 == Cat(VarUint8Array(r2), b3)
<1>1. a8 \in Seq(Byte) /\ b8 \in Seq(Byte) /\ a1 \in Seq(Byte)
    BY SignedBytes
<1>2. a7 \in Seq(Byte) /\ b7 \in Seq(Byte)
    BY <1>1, SignedBytes, CatBytes
<1>3. a6 \in Seq(Byte) /\ b6 \in Seq(Byte)
  <2> HIDE DEF a7, b7
  <2> QED  BY <1>2, SignedBytes, CatBytes
<1>4. a5 \in Seq(Byte) /\ b5 \in Seq(Byte)
  <2> HIDE DEF a6, b6
  <2> QED  BY <1>3, SignedBytes, CatBytes
<1>5. a4 \in Seq(Byte) /\ b4 \in Seq(Byte)
  <2> HIDE DEF a5, b5
  <2> QED  BY <1>4, SignedBytes, CatBytes
<1>6. a3 \in Seq(Byte) /\ b3 \in Seq(Byte)
  <2> HIDE DEF a4, b4
  <2> QED  BY <1>5, SignedBytes, CatBytes
<1>7. a2 \in Seq(Byte) /\ b2 \in Seq(Byte)
  <2> HIDE DEF a3, b3
  <2> QED  BY <1>6, SignedBytes, CatBytes
<1>8. Cat(a1, a2) = Cat(a1, b2)
  <2>1. Parts(r1, e1) = Parts(r2, e2)
      BY SigningInputParts
  <2> QED  BY <2>1 DEF Parts
<1>9. a2 = b2
  <2> HIDE DEF a1, a2, b2
  <2> QED  BY <1>1, <1>7, <1>8, CatCancels
<1>10. r1 = r2 /\ a3 = b3
  <2> HIDE DEF a3, b3
  <2> QED  BY <1>6, <1>9, ArrayPeels
<1>11. e1.kind = e2.kind /\ a4 = b4
  <2> HIDE DEF a4, b4
  <2> QED  BY <1>5, <1>10, VarUintPeels DEF Typed
<1>12. e1.epoch = e2.epoch /\ a5 = b5
  <2> HIDE DEF a5, b5
  <2> QED  BY <1>4, <1>11, VarUintPeels DEF Typed
<1>13. <<e1.key_id>> = <<e2.key_id>> /\ a6 = b6
  <2> HIDE DEF a6, b6
  <2> DEFINE x == <<e1.key_id>>
             y == <<e2.key_id>>
  <2>1. x \in Seq(Byte) /\ Len(x) \in Value /\ y \in Seq(Byte) /\ Len(y) \in Value
      BY OneByte DEF Typed
  <2>2. Cat(VarUint8Array(x), a6) = Cat(VarUint8Array(y), b6)
      BY <1>3, <1>12
  <2> HIDE DEF x, y
  <2>3. x = y /\ a6 = b6
      BY <1>3, <2>1, <2>2, ArrayPeels
  <2> QED  BY <2>3 DEF x, y
<1>14. e1.counter = e2.counter /\ a7 = b7
  <2> HIDE DEF a7, b7
  <2> QED  BY <1>2, <1>13, VarUintPeels DEF Typed
<1>15. <<e1.nonce>> = <<e2.nonce>> /\ a8 = b8
  <2> HIDE DEF a8, b8
  <2> DEFINE x == <<e1.nonce>>
             y == <<e2.nonce>>
  <2>1. x \in Seq(Byte) /\ Len(x) \in Value /\ y \in Seq(Byte) /\ Len(y) \in Value
      BY OneByte DEF Typed
  <2>2. Cat(VarUint8Array(x), a8) = Cat(VarUint8Array(y), b8)
      BY <1>1, <1>14
  <2> HIDE DEF x, y
  <2>3. x = y /\ a8 = b8
      BY <1>1, <2>1, <2>2, ArrayPeels
  <2> QED  BY <2>3 DEF x, y
<1>16. e1.ciphertext = e2.ciphertext
  <2> DEFINE c1 == e1.ciphertext
             c2 == e2.ciphertext
  <2>1. /\ c1 \in Seq(Byte) /\ Len(c1) \in Value
        /\ c2 \in Seq(Byte) /\ Len(c2) \in Value
      BY DEF Typed
  <2>2. VarUint8Array(c1) = VarUint8Array(c2)
      BY <1>15
  <2> HIDE DEF c1, c2
  <2>3. Cat(VarUint(Len(c1)), c1) = Cat(VarUint(Len(c2)), c2)
      BY <2>1, <2>2, ArrayBytes
  <2>4. c1 = c2
      BY <2>1, <2>3, VarUintPeels
  <2> QED  BY <2>4 DEF c1, c2
<1>17. e1.key_id = e2.key_id /\ e1.nonce = e2.nonce
  <2>1. <<e1.key_id>>[1] = <<e2.key_id>>[1] /\ <<e1.nonce>>[1] = <<e2.nonce>>[1]
      BY <1>13, <1>15
  <2> QED  BY <2>1
<1> QED  BY <1>10, <1>11, <1>12, <1>14, <1>16, <1>17

LEMMA CatAt ==
    ASSUME NEW s \in Seq(Byte), NEW t \in Seq(Byte)
    PROVE  /\ Len(s) \in Nat /\ Len(t) \in Nat /\ Len(Cat(s, t)) = Len(s) + Len(t)
           /\ \A i \in 1..Len(s) : Cat(s, t)[i] = s[i]
           /\ \A i \in 1..Len(t) : Cat(s, t)[Len(s) + i] = t[i]
<1>1. Len(s) \in Nat /\ Len(t) \in Nat
    OBVIOUS
<1>2. Len(Cat(s, t)) = Len(s) + Len(t)
    BY ConcatProperties DEF Cat
<1>3. \A i \in 1..Len(s) : Cat(s, t)[i] = s[i]
    BY <1>1 DEF Cat
<1>4. \A i \in 1..Len(t) : Cat(s, t)[Len(s) + i] = t[i]
    BY <1>1 DEF Cat
<1> QED  BY <1>1, <1>2, <1>3, <1>4

\* Where each field of a frame lies.
LaidOut(e, a, b, c, z) ==
    /\ a \in Nat \ {0} /\ b \in Nat \ {0} /\ c \in Nat \ {0} /\ z \in Nat \ {0}
    /\ Bytes(e) \in Seq(Byte)
    /\ Len(Bytes(e)) = 2 + a + b + c + z + Len(e.ciphertext)
    /\ Bytes(e)[1] = e.key_id
    /\ \A i \in 1..a : Bytes(e)[1 + i] = VarUint(e.kind)[i]
    /\ \A i \in 1..b : Bytes(e)[1 + a + i] = VarUint(e.epoch)[i]
    /\ \A i \in 1..c : Bytes(e)[1 + a + b + i] = VarUint(e.counter)[i]
    /\ Bytes(e)[2 + a + b + c] = e.nonce
    /\ \A i \in 1..z : Bytes(e)[2 + a + b + c + i] = VarUint(Len(e.ciphertext))[i]
    /\ \A i \in 1..Len(e.ciphertext) : Bytes(e)[2 + a + b + c + z + i] = e.ciphertext[i]

LEMMA Layout ==
    ASSUME NEW e, Typed(e),
           NEW a, a = Size(e.kind), NEW b, b = Size(e.epoch), NEW c, c = Size(e.counter),
           NEW z, z = Size(Len(e.ciphertext))
    PROVE  LaidOut(e, a, b, c, z)
<1> DEFINE k == <<e.key_id>>
           n == <<e.nonce>>
           v == VarUint(e.kind)
           w == VarUint(e.epoch)
           x == VarUint(e.counter)
           l == VarUint(Len(e.ciphertext))
           t == e.ciphertext
           p1 == Cat(k, v)
           p2 == Cat(p1, w)
           p3 == Cat(p2, x)
           p4 == Cat(p3, n)
           lt == Cat(l, t)
           raw == Cat(p4, lt)
<1>1. Bytes(e) = raw
    BY Zenon DEF Bytes, VarUint8Array, Cat
<1>2. /\ k \in Seq(Byte) /\ Len(k) = 1 /\ k[1] = e.key_id
      /\ n \in Seq(Byte) /\ Len(n) = 1 /\ n[1] = e.nonce
    BY OneByte DEF Typed
<1>3. v \in Seq(Byte) /\ w \in Seq(Byte) /\ x \in Seq(Byte) /\ l \in Seq(Byte) /\ t \in Seq(Byte)
    BY VarUintBytes DEF Typed
<1>4. Len(v) = a /\ Len(w) = b /\ Len(x) = c /\ Len(l) = z
    BY VarUintBytes DEF Typed
<1>5. a \in Nat \ {0} /\ b \in Nat \ {0} /\ c \in Nat \ {0} /\ z \in Nat \ {0} /\ Len(t) \in Nat
  <2>1. ASSUME NEW u \in Value  PROVE Size(u) \in Nat \ {0}
      BY SizeOf, WidthAssumption
  <2>2. Len(t) \in Nat
      BY <1>3
  <2> QED  BY <2>1, <2>2 DEF Typed
<1> HIDE DEF k, n, v, w, x, l, t
<1>6. p1 \in Seq(Byte) /\ lt \in Seq(Byte)
    BY <1>2, <1>3, CatBytes
<1>7. p2 \in Seq(Byte)
  <2> HIDE DEF p1
  <2> QED  BY <1>3, <1>6, CatBytes
<1>8. p3 \in Seq(Byte)
  <2> HIDE DEF p2
  <2> QED  BY <1>3, <1>7, CatBytes
<1>9. p4 \in Seq(Byte)
  <2> HIDE DEF p3
  <2> QED  BY <1>2, <1>8, CatBytes
<1>10. raw \in Seq(Byte)
  <2> HIDE DEF p4, lt
  <2> QED  BY <1>6, <1>9, CatBytes
<1>11. /\ Len(p1) = 1 + a /\ \A i \in 1..1 : p1[i] = k[i]
       /\ \A i \in 1..a : p1[1 + i] = v[i]
  <2>1. /\ Len(Cat(k, v)) = Len(k) + Len(v)
        /\ \A i \in 1..Len(k) : Cat(k, v)[i] = k[i]
        /\ \A i \in 1..Len(v) : Cat(k, v)[Len(k) + i] = v[i]
      BY <1>2, <1>3, CatAt
  <2> QED  BY <1>2, <1>4, <2>1
<1>12. /\ Len(lt) = z + Len(t) /\ \A i \in 1..z : lt[i] = l[i]
       /\ \A i \in 1..Len(t) : lt[z + i] = t[i]
  <2>1. /\ Len(Cat(l, t)) = Len(l) + Len(t)
        /\ \A i \in 1..Len(l) : Cat(l, t)[i] = l[i]
        /\ \A i \in 1..Len(t) : Cat(l, t)[Len(l) + i] = t[i]
      BY <1>3, CatAt
  <2> QED  BY <1>4, <2>1
<1> HIDE DEF lt
<1>13. /\ Len(p2) = 1 + a + b /\ \A i \in 1..(1 + a) : p2[i] = p1[i]
       /\ \A i \in 1..b : p2[1 + a + i] = w[i]
  <2> HIDE DEF p1
  <2>1. /\ Len(Cat(p1, w)) = Len(p1) + Len(w)
        /\ \A i \in 1..Len(p1) : Cat(p1, w)[i] = p1[i]
        /\ \A i \in 1..Len(w) : Cat(p1, w)[Len(p1) + i] = w[i]
      BY <1>3, <1>6, CatAt
  <2> QED  BY <1>4, <1>11, <2>1
<1> HIDE DEF p1
<1>14. /\ Len(p3) = 1 + a + b + c /\ \A i \in 1..(1 + a + b) : p3[i] = p2[i]
       /\ \A i \in 1..c : p3[1 + a + b + i] = x[i]
  <2> HIDE DEF p2
  <2>1. /\ Len(Cat(p2, x)) = Len(p2) + Len(x)
        /\ \A i \in 1..Len(p2) : Cat(p2, x)[i] = p2[i]
        /\ \A i \in 1..Len(x) : Cat(p2, x)[Len(p2) + i] = x[i]
      BY <1>3, <1>7, CatAt
  <2> QED  BY <1>4, <1>13, <2>1
<1> HIDE DEF p2
<1>15. /\ Len(p4) = 1 + a + b + c + 1 /\ \A i \in 1..(1 + a + b + c) : p4[i] = p3[i]
       /\ \A i \in 1..1 : p4[1 + a + b + c + i] = n[i]
  <2> HIDE DEF p3
  <2>1. /\ Len(Cat(p3, n)) = Len(p3) + Len(n)
        /\ \A i \in 1..Len(p3) : Cat(p3, n)[i] = p3[i]
        /\ \A i \in 1..Len(n) : Cat(p3, n)[Len(p3) + i] = n[i]
      BY <1>2, <1>8, CatAt
  <2> QED  BY <1>2, <1>14, <2>1
<1> HIDE DEF p3
<1> DEFINE q == 2 + a + b + c
<1>16. /\ Len(raw) = q + (z + Len(t)) /\ \A i \in 1..q : raw[i] = p4[i]
       /\ \A i \in 1..(z + Len(t)) : raw[q + i] = lt[i]
  <2>1. Len(p4) = q
      BY <1>5, <1>15
  <2> HIDE DEF p4, q
  <2>2. /\ Len(Cat(p4, lt)) = Len(p4) + Len(lt)
        /\ \A i \in 1..Len(p4) : Cat(p4, lt)[i] = p4[i]
        /\ \A i \in 1..Len(lt) : Cat(p4, lt)[Len(p4) + i] = lt[i]
      BY <1>6, <1>9, CatAt
  <2> QED  BY <1>12, <2>1, <2>2
<1> HIDE DEF p4, raw
<1>17. raw[1] = e.key_id
  <2>1. 1 \in 1..q /\ 1 \in 1..(1 + a + b + c) /\ 1 \in 1..(1 + a + b) /\ 1 \in 1..(1 + a) /\ 1 \in 1..1
      BY <1>5
  <2> QED  BY <1>2, <1>11, <1>13, <1>14, <1>15, <1>16, <2>1
<1>18. ASSUME NEW i \in 1..a  PROVE raw[1 + i] = v[i]
  <2>1. 1 + i \in 1..q /\ 1 + i \in 1..(1 + a + b + c) /\ 1 + i \in 1..(1 + a + b) /\ 1 + i \in 1..(1 + a)
      BY <1>5
  <2> QED  BY <1>11, <1>13, <1>14, <1>15, <1>16, <2>1
<1>19. ASSUME NEW i \in 1..b  PROVE raw[1 + a + i] = w[i]
  <2>1. 1 + a + i \in 1..q /\ 1 + a + i \in 1..(1 + a + b + c) /\ 1 + a + i \in 1..(1 + a + b)
      BY <1>5
  <2> QED  BY <1>13, <1>14, <1>15, <1>16, <2>1
<1>20. ASSUME NEW i \in 1..c  PROVE raw[1 + a + b + i] = x[i]
  <2>1. 1 + a + b + i \in 1..q /\ 1 + a + b + i \in 1..(1 + a + b + c)
      BY <1>5
  <2> QED  BY <1>14, <1>15, <1>16, <2>1
<1>21. raw[2 + a + b + c] = e.nonce
  <2>1. 2 + a + b + c \in 1..q /\ 2 + a + b + c = 1 + a + b + c + 1 /\ 1 \in 1..1
      BY <1>5
  <2> QED  BY <1>2, <1>15, <1>16, <2>1
<1>22. ASSUME NEW i \in 1..z  PROVE raw[q + i] = l[i]
  <2>1. i \in 1..(z + Len(t))
      BY <1>5
  <2> HIDE DEF q
  <2> QED  BY <1>12, <1>16, <2>1
<1>23. ASSUME NEW i \in 1..Len(t)  PROVE raw[q + z + i] = t[i]
  <2>1. z + i \in 1..(z + Len(t)) /\ q + z + i = q + (z + i)
      BY <1>5
  <2> HIDE DEF q
  <2> QED  BY <1>12, <1>16, <2>1
<1>24. Len(raw) = 2 + a + b + c + z + Len(t)
  <2> DEFINE y == Len(t)
  <2>1. y \in Nat /\ Len(raw) = q + (z + y)
      BY <1>5, <1>16
  <2> HIDE DEF y
  <2>2. a \in Nat /\ b \in Nat /\ c \in Nat /\ z \in Nat
      BY <1>5
  <2>3. q + (z + y) = q + z + y
    <3>1. q \in Nat
        BY <2>2
    <3> HIDE DEF q
    <3> QED  BY <2>1, <2>2, <3>1
  <2> QED  BY <2>1, <2>3 DEF y
<1>25. /\ \A i \in 1..a : raw[1 + i] = v[i]
       /\ \A i \in 1..b : raw[1 + a + i] = w[i]
       /\ \A i \in 1..c : raw[1 + a + b + i] = x[i]
       /\ \A i \in 1..z : raw[2 + a + b + c + i] = l[i]
       /\ \A i \in 1..Len(t) : raw[2 + a + b + c + z + i] = t[i]
    BY <1>18, <1>19, <1>20, <1>22, <1>23
<1> QED  BY <1>1, <1>5, <1>10, <1>17, <1>21, <1>24, <1>25 DEF LaidOut, v, w, x, l, t

LEMMA ParseUnfolds ==
    ASSUME NEW raw, NEW kind, kind = ReadVarUint(raw, 2),
           NEW epoch, epoch = ReadVarUint(raw, kind.next),
           NEW counter, counter = ReadVarUint(raw, epoch.next),
           NEW size, size = ReadVarUint(raw, counter.next + 1),
           NEW end, end = size.next + size.value
    PROVE  ParseEnvelope(raw) =
             IF raw = <<>> THEN Unread
             ELSE IF ~kind.ok THEN Unread
             ELSE IF ~epoch.ok THEN Unread
             ELSE IF ~counter.ok \/ counter.next > Len(raw) THEN Unread
             ELSE IF ~size.ok \/ end # Len(raw) + 1 THEN Unread
             ELSE [ok |-> TRUE, key_id |-> raw[1], kind |-> kind.value, epoch |-> epoch.value,
                   counter |-> counter.value, nonce |-> raw[counter.next],
                   ciphertext |-> SubSeq(raw, size.next, end - 1)]
  BY Zenon DEF ParseEnvelope

(* A frame that nobody touched is read as it was written. *)
LEMMA ParsesBack ==
    ASSUME NEW e, Typed(e)
    PROVE  ParseEnvelope(Bytes(e)) =
             [ok |-> TRUE, key_id |-> e.key_id, kind |-> e.kind, epoch |-> e.epoch,
              counter |-> e.counter, nonce |-> e.nonce, ciphertext |-> e.ciphertext]
<1>1. PICK a, b, c, z : /\ a = Size(e.kind) /\ b = Size(e.epoch) /\ c = Size(e.counter)
                        /\ z = Size(Len(e.ciphertext))
    OBVIOUS
<1>0. LaidOut(e, a, b, c, z)
    BY <1>1, Layout
<1> DEFINE raw == Bytes(e)
           t == e.ciphertext
           y == Len(t)
<1>2. /\ a \in Nat \ {0} /\ b \in Nat \ {0} /\ c \in Nat \ {0} /\ z \in Nat \ {0}
      /\ raw \in Seq(Byte)
      /\ Len(raw) = 2 + a + b + c + z + y
      /\ raw[1] = e.key_id
      /\ raw[2 + a + b + c] = e.nonce
    BY <1>0 DEF LaidOut
<1>3. /\ \A i \in 1..a : raw[1 + i] = VarUint(e.kind)[i]
      /\ \A i \in 1..b : raw[1 + a + i] = VarUint(e.epoch)[i]
      /\ \A i \in 1..c : raw[1 + a + b + i] = VarUint(e.counter)[i]
      /\ \A i \in 1..z : raw[2 + a + b + c + i] = VarUint(y)[i]
      /\ \A i \in 1..y : raw[2 + a + b + c + z + i] = t[i]
    BY <1>0 DEF LaidOut
<1>4. t \in Seq(Byte) /\ y \in Nat /\ y \in Value
    BY DEF Typed
<1>5. e.kind \in Value /\ e.epoch \in Value /\ e.counter \in Value
    BY DEF Typed
<1> HIDE DEF raw, t, y
<1>6. a \in Nat /\ a >= 1 /\ b \in Nat /\ b >= 1 /\ c \in Nat /\ c >= 1 /\ z \in Nat /\ z >= 1
    BY <1>2
<1> DEFINE q == 2 + a + b + c
<1>7. ReadVarUint(raw, 2) = [ok |-> TRUE, next |-> 2 + a, value |-> e.kind]
  <2>1. 2 + a - 1 <= Len(raw)
      BY <1>2, <1>4, <1>6
  <2>2. \A i \in 1..a : raw[2 + i - 1] = VarUint(e.kind)[i]
    <3> SUFFICES ASSUME NEW i \in 1..a  PROVE raw[2 + i - 1] = VarUint(e.kind)[i]
        OBVIOUS
    <3>1. 2 + i - 1 = 1 + i
        BY <1>6
    <3> QED  BY <1>3, <3>1
  <2>3. 2 \in Nat \ {0}
      OBVIOUS
  <2> QED  BY <1>1, <1>2, <1>5, <2>1, <2>2, <2>3, ReadsBack
<1>8. ReadVarUint(raw, 2 + a) = [ok |-> TRUE, next |-> 2 + a + b, value |-> e.epoch]
  <2>1. 2 + a + b - 1 <= Len(raw)
      BY <1>2, <1>4, <1>6
  <2>2. \A i \in 1..b : raw[2 + a + i - 1] = VarUint(e.epoch)[i]
    <3> SUFFICES ASSUME NEW i \in 1..b  PROVE raw[2 + a + i - 1] = VarUint(e.epoch)[i]
        OBVIOUS
    <3>1. 2 + a + i - 1 = 1 + a + i
        BY <1>6
    <3> QED  BY <1>3, <3>1
  <2>3. 2 + a \in Nat \ {0}
      BY <1>6
  <2> QED  BY <1>1, <1>2, <1>5, <2>1, <2>2, <2>3, ReadsBack
<1>9. ReadVarUint(raw, 2 + a + b) = [ok |-> TRUE, next |-> q, value |-> e.counter]
  <2>1. 2 + a + b + c - 1 <= Len(raw)
      BY <1>2, <1>4, <1>6
  <2>2. \A i \in 1..c : raw[2 + a + b + i - 1] = VarUint(e.counter)[i]
    <3> SUFFICES ASSUME NEW i \in 1..c  PROVE raw[2 + a + b + i - 1] = VarUint(e.counter)[i]
        OBVIOUS
    <3>1. 2 + a + b + i - 1 = 1 + a + b + i
        BY <1>6
    <3> QED  BY <1>3, <3>1
  <2>3. 2 + a + b \in Nat \ {0}
      BY <1>6
  <2> QED  BY <1>1, <1>2, <1>5, <2>1, <2>2, <2>3, ReadsBack
<1>10. q \in Nat /\ q >= 2 /\ Len(raw) = q + z + y /\ raw[q] = e.nonce
    BY <1>2, <1>6
<1>11. /\ \A i \in 1..z : raw[q + i] = VarUint(y)[i]
       /\ \A i \in 1..y : raw[q + z + i] = t[i]
    BY <1>3
<1>12. z = Size(y)
    BY <1>1 DEF y, t
<1> HIDE DEF q
<1>13. ReadVarUint(raw, q + 1) = [ok |-> TRUE, next |-> q + 1 + z, value |-> y]
  <2>1. q + 1 + z - 1 <= Len(raw)
      BY <1>4, <1>6, <1>10
  <2>2. \A i \in 1..z : raw[q + 1 + i - 1] = VarUint(y)[i]
    <3> SUFFICES ASSUME NEW i \in 1..z  PROVE raw[q + 1 + i - 1] = VarUint(y)[i]
        OBVIOUS
    <3>1. q + 1 + i - 1 = q + i
        BY <1>6, <1>10
    <3> QED  BY <1>11, <3>1
  <2>3. q + 1 \in Nat \ {0}
      BY <1>10
  <2> QED  BY <1>2, <1>4, <1>12, <2>1, <2>2, <2>3, ReadsBack
<1>14. SubSeq(raw, q + 1 + z, q + 1 + z + y - 1) = t
  <2> DEFINE m == q + 1 + z
             n == q + 1 + z + y - 1
             u == SubSeq(raw, m, n)
  <2>1. m \in Int /\ n \in Int /\ n - m + 1 = y /\ (m <= n \/ y = 0)
      BY <1>4, <1>6, <1>10
  <2>2. \A i \in m..n : raw[i] \in Byte
    <3> SUFFICES ASSUME NEW i \in m..n  PROVE raw[i] \in Byte
        OBVIOUS
    <3>1. i \in 1..Len(raw)
        BY <1>4, <1>6, <1>10
    <3> QED  BY <1>2, <3>1
  <2>3. \A i \in 1..y : m + i - 1 = q + z + i
      BY <1>4, <1>6, <1>10
  <2> HIDE DEF m, n
  <2>4. /\ u \in Seq(Byte)
        /\ Len(u) = IF m <= n THEN n - m + 1 ELSE 0
        /\ \A i \in 1..(n - m + 1) : u[i] = raw[m + i - 1]
      BY <2>1, <2>2, SubSeqProperties
  <2>5. Len(u) = y
      BY <1>4, <2>1, <2>4
  <2>6. \A i \in 1..y : u[i] = t[i]
      BY <1>11, <2>1, <2>3, <2>4
  <2> HIDE DEF u
  <2>7. u = t
      BY <1>4, <2>4, <2>5, <2>6, SeqEqual DEF y
  <2> QED  BY <2>7 DEF u, m, n
<1>15. raw # <<>> /\ q <= Len(raw) /\ q + 1 + z + y = Len(raw) + 1
  <2>1. q <= Len(raw) /\ q + 1 + z + y = Len(raw) + 1 /\ Len(raw) # 0
      BY <1>4, <1>6, <1>10
  <2> QED  BY <2>1
<1>16. ParseEnvelope(raw) =
         [ok |-> TRUE, key_id |-> raw[1], kind |-> e.kind, epoch |-> e.epoch,
          counter |-> e.counter, nonce |-> raw[q],
          ciphertext |-> SubSeq(raw, q + 1 + z, q + 1 + z + y - 1)]
  <2>1. PICK kind, epoch, counter, size, end :
          /\ kind = [ok |-> TRUE, next |-> 2 + a, value |-> e.kind]
          /\ epoch = [ok |-> TRUE, next |-> 2 + a + b, value |-> e.epoch]
          /\ counter = [ok |-> TRUE, next |-> q, value |-> e.counter]
          /\ size = [ok |-> TRUE, next |-> q + 1 + z, value |-> y]
          /\ end = q + 1 + z + y
      OBVIOUS
  <2>2. /\ kind.ok /\ epoch.ok /\ counter.ok /\ size.ok
        /\ kind.next = 2 + a /\ epoch.next = 2 + a + b /\ counter.next = q /\ size.next = q + 1 + z
        /\ kind.value = e.kind /\ epoch.value = e.epoch /\ counter.value = e.counter /\ size.value = y
      BY <2>1
  <2>3. /\ kind = ReadVarUint(raw, 2) /\ epoch = ReadVarUint(raw, kind.next)
        /\ counter = ReadVarUint(raw, epoch.next) /\ size = ReadVarUint(raw, counter.next + 1)
        /\ end = size.next + size.value
      BY <1>7, <1>8, <1>9, <1>13, <2>1, <2>2
  <2>4. ~(counter.next > Len(raw)) /\ end = Len(raw) + 1
      BY <1>2, <1>10, <1>15, <2>1, <2>2
  <2>5. ParseEnvelope(raw) =
          [ok |-> TRUE, key_id |-> raw[1], kind |-> kind.value, epoch |-> epoch.value,
           counter |-> counter.value, nonce |-> raw[counter.next],
           ciphertext |-> SubSeq(raw, size.next, end - 1)]
    <3>1. ParseEnvelope(raw) =
            IF raw = <<>> THEN Unread
            ELSE IF ~kind.ok THEN Unread
            ELSE IF ~epoch.ok THEN Unread
            ELSE IF ~counter.ok \/ counter.next > Len(raw) THEN Unread
            ELSE IF ~size.ok \/ end # Len(raw) + 1 THEN Unread
            ELSE [ok |-> TRUE, key_id |-> raw[1], kind |-> kind.value, epoch |-> epoch.value,
                  counter |-> counter.value, nonce |-> raw[counter.next],
                  ciphertext |-> SubSeq(raw, size.next, end - 1)]
        BY <2>3, ParseUnfolds
    <3> QED  BY Zenon, <1>15, <2>2, <2>4, <3>1
  <2>6. end = q + 1 + z + y
      BY <2>1
  <2> DEFINE E(k, v, w, x, n, u) ==
               [ok |-> TRUE, key_id |-> k, kind |-> v, epoch |-> w, counter |-> x,
                nonce |-> n, ciphertext |-> u]
  <2>7. ParseEnvelope(raw) = E(raw[1], kind.value, epoch.value, counter.value,
                               raw[counter.next], SubSeq(raw, size.next, end - 1))
      BY <2>5
  <2>8. ParseEnvelope(raw) = E(raw[1], e.kind, e.epoch, e.counter, raw[q],
                               SubSeq(raw, q + 1 + z, q + 1 + z + y - 1))
    <3> HIDE DEF E
    <3>1. /\ kind.value = e.kind /\ epoch.value = e.epoch /\ counter.value = e.counter
          /\ counter.next = q /\ size.next = q + 1 + z
        BY <2>2
    <3>2. SubSeq(raw, size.next, end - 1) = SubSeq(raw, q + 1 + z, q + 1 + z + y - 1)
      <4>1. end - 1 = q + 1 + z + y - 1
          BY <1>4, <1>6, <1>10, <2>6
      <4> DEFINE m == size.next
                 k == end - 1
                 i == q + 1 + z
                 j == q + 1 + z + y - 1
      <4>2. m = i /\ k = j
          BY <3>1, <4>1
      <4> HIDE DEF m, k, i, j
      <4>3. SubSeq(raw, m, k) = SubSeq(raw, i, j)
          BY Zenon, <4>2
      <4> QED  BY <4>3 DEF m, k, i, j
    <3>3. raw[counter.next] = raw[q]
        BY <3>1
    <3> QED  BY Zenon, <2>7, <3>1, <3>2, <3>3
  <2> QED  BY <2>8
<1> QED  BY <1>2, <1>10, <1>14, <1>16 DEF raw, t

(* Whatever bytes are parsed, the fields that come out are of their widths. *)
LEMMA ParseType ==
    ASSUME NEW raw \in Seq(Byte), ParseEnvelope(raw).ok
    PROVE  Typed(ParseEnvelope(raw))
<1> DEFINE kind == ReadVarUint(raw, 2)
           epoch == ReadVarUint(raw, kind.next)
           counter == ReadVarUint(raw, epoch.next)
           size == ReadVarUint(raw, counter.next + 1)
           end == size.next + size.value
           e == [ok |-> TRUE, key_id |-> raw[1], kind |-> kind.value, epoch |-> epoch.value,
                 counter |-> counter.value, nonce |-> raw[counter.next],
                 ciphertext |-> SubSeq(raw, size.next, end - 1)]
<1>1. /\ raw # <<>> /\ kind.ok /\ epoch.ok /\ counter.ok /\ ~(counter.next > Len(raw))
      /\ size.ok /\ end = Len(raw) + 1
      /\ ParseEnvelope(raw) = e
  <2>1. ParseEnvelope(raw) # Unread
      BY DEF Unread
  <2>2. ParseEnvelope(raw) =
          IF raw = <<>> THEN Unread
          ELSE IF ~kind.ok THEN Unread
          ELSE IF ~epoch.ok THEN Unread
          ELSE IF ~counter.ok \/ counter.next > Len(raw) THEN Unread
          ELSE IF ~size.ok \/ end # Len(raw) + 1 THEN Unread
          ELSE e
      BY Zenon, ParseUnfolds
  <2> HIDE DEF kind, epoch, counter, size, end, e
  <2>3. /\ raw # <<>> /\ kind.ok /\ epoch.ok /\ counter.ok /\ ~(counter.next > Len(raw))
        /\ size.ok /\ end = Len(raw) + 1
        /\ ParseEnvelope(raw) = e
      BY Zenon, <2>1, <2>2
  <2> QED  BY <2>3
<1>2. kind.value \in Value /\ kind.next \in (2 + 1)..(Len(raw) + 1) /\ kind.next \in Nat \ {0}
  <2>1. kind.value \in Value /\ kind.next \in (2 + 1)..(Len(raw) + 1)
    <3>1. 2 \in Nat \ {0} /\ kind.ok
        BY <1>1
    <3> QED  BY <3>1, ReadType
  <2> QED  BY <2>1
<1>3. epoch.value \in Value /\ epoch.next \in Nat \ {0}
  <2>1. epoch.ok /\ kind.next \in Nat \ {0}
      BY <1>1, <1>2
  <2> DEFINE k == kind.next
  <2>2. epoch = ReadVarUint(raw, k)
      OBVIOUS
  <2> HIDE DEF k, kind, epoch
  <2>3. epoch.value \in Value /\ epoch.next \in (k + 1)..(Len(raw) + 1)
      BY <2>1, <2>2, ReadType DEF k
  <2> QED  BY <2>1, <2>3 DEF k
<1>4. counter.value \in Value /\ counter.next \in Nat \ {0}
  <2>1. counter.ok /\ epoch.next \in Nat \ {0}
      BY <1>1, <1>3
  <2> DEFINE k == epoch.next
  <2>2. counter = ReadVarUint(raw, k)
      OBVIOUS
  <2> HIDE DEF k, epoch, counter
  <2>3. counter.value \in Value /\ counter.next \in (k + 1)..(Len(raw) + 1)
      BY <2>1, <2>2, ReadType DEF k
  <2> QED  BY <2>1, <2>3 DEF k
<1>5. size.value \in Value /\ size.next \in Nat \ {0}
  <2> DEFINE k == counter.next + 1
  <2>0. size.ok
      BY <1>1
  <2>1. size.ok /\ k \in Nat \ {0}
    <3> DEFINE m == counter.next
    <3>1. m \in Nat \ {0}
        BY <1>4
    <3> HIDE DEF m
    <3>2. m + 1 \in Nat \ {0}
        BY <3>1
    <3> QED  BY <2>0, <3>2 DEF m
  <2>2. size = ReadVarUint(raw, k)
      OBVIOUS
  <2> HIDE DEF k, size
  <2>3. size.value \in Value /\ size.next \in (k + 1)..(Len(raw) + 1)
      BY <2>1, <2>2, ReadType
  <2> QED  BY <2>1, <2>3
<1>6. raw[1] \in Byte
    BY <1>1
<1>7. raw[counter.next] \in Byte
  <2> HIDE DEF counter
  <2> QED  BY <1>1, <1>4
<1>8. SubSeq(raw, size.next, end - 1) \in Seq(Byte) /\ Len(SubSeq(raw, size.next, end - 1)) \in Value
  <2> DEFINE m == size.next
             n == size.value
             k == end - 1
  <2>1. m \in Nat \ {0} /\ n \in Nat /\ n \in Value /\ end = m + n /\ end = Len(raw) + 1
      BY <1>1, <1>5, TopDigit
  <2>2. k = end - 1
      OBVIOUS
  <2> HIDE DEF m, n, k, end
  <2>3. m \in Int /\ k \in Int /\ k - m + 1 = n /\ (m <= k \/ n = 0)
      BY <2>1, <2>2
  <2>4. \A i \in m..k : raw[i] \in Byte
    <3> SUFFICES ASSUME NEW i \in m..k  PROVE raw[i] \in Byte
        OBVIOUS
    <3>1. i \in 1..Len(raw)
        BY <2>1, <2>2
    <3> QED  BY <3>1
  <2>5. /\ SubSeq(raw, m, k) \in Seq(Byte)
        /\ Len(SubSeq(raw, m, k)) = IF m <= k THEN k - m + 1 ELSE 0
      BY <2>3, <2>4, SubSeqProperties
  <2>6. Len(SubSeq(raw, m, k)) = n
      BY <2>1, <2>3, <2>5
  <2> QED  BY <2>1, <2>5, <2>6 DEF m, k
<1> HIDE DEF kind, epoch, counter, size, end
<1>9. Typed(e)
    BY <1>2, <1>3, <1>4, <1>6, <1>7, <1>8 DEF Typed
<1> QED  BY <1>1, <1>9

-----------------------------------------------------------------------------
\* What holds of a frame on its way, whatever is done to its bytes.
EnvelopeInv ==
    /\ home \in Rooms /\ reader \in Rooms /\ sealed \in Recipes
    /\ wire \in Seq(Byte) /\ rewrites \in Nat
    /\ rewrites = 0 => wire = Bytes(sealed)
    /\ OneSignatureOneFrame

LEMMA RecipeTyped ==
    ASSUME NEW e \in Recipes
    PROVE  Typed(e) /\ DOMAIN e = {"key_id", "kind", "epoch", "counter", "nonce", "ciphertext"}
<1>1. e \in [key_id : Byte, kind : Value, epoch : Value, counter : Value,
             nonce : Byte, ciphertext : Seq(Byte)]
    BY FramesAssumption
<1>2. Len(e.ciphertext) \in Value
    BY FramesAssumption
<1>3. DOMAIN e = {"key_id", "kind", "epoch", "counter", "nonce", "ciphertext"}
    BY <1>1
<1>4. /\ e.key_id \in Byte /\ e.kind \in Value /\ e.epoch \in Value /\ e.counter \in Value
      /\ e.nonce \in Byte /\ e.ciphertext \in Seq(Byte)
    BY <1>1
<1> QED  BY <1>2, <1>3, <1>4 DEF Typed

LEMMA RewriteBytes ==
    ASSUME NEW s \in Seq(Byte), NEW i \in 1..Len(s), NEW b \in Byte
    PROVE  /\ ReplaceAt(s, i, b) \in Seq(Byte)
           /\ InsertAt(s, i, b) \in Seq(Byte)
           /\ RemoveAt(s, i) \in Seq(Byte)
<1>0. Len(s) \in Nat /\ i \in Nat
    OBVIOUS
<1> DEFINE p == SubSeq(s, 1, i - 1)
           q == SubSeq(s, i, Len(s))
           r == SubSeq(s, i + 1, Len(s))
<1>1. p \in Seq(Byte) /\ q \in Seq(Byte) /\ r \in Seq(Byte)
  <2>1. ASSUME NEW j \in Int, NEW k \in Int, j >= 1, k <= Len(s)
        PROVE  SubSeq(s, j, k) \in Seq(Byte)
    <3>1. \A x \in j..k : s[x] \in Byte
      <4> SUFFICES ASSUME NEW x \in j..k  PROVE s[x] \in Byte
          OBVIOUS
      <4>1. x \in 1..Len(s)
          BY <1>0, <2>1
      <4> QED  BY <4>1
    <3> QED  BY <3>1, SubSeqProperties
  <2> QED  BY <1>0, <2>1
<1>2. <<b>> \in Seq(Byte)
    BY OneByte
<1>3. ReplaceAt(s, i, b) \in Seq(Byte)
    BY ExceptSeq DEF ReplaceAt
<1>4. InsertAt(s, i, b) = Cat(Cat(p, <<b>>), q)
    BY Zenon DEF InsertAt, Cat
<1>5. RemoveAt(s, i) = Cat(p, r)
    BY Zenon DEF RemoveAt, Cat
<1> HIDE DEF p, q, r
<1>6. Cat(p, <<b>>) \in Seq(Byte) /\ Cat(p, r) \in Seq(Byte)
    BY <1>1, <1>2, CatBytes
<1>7. Cat(Cat(p, <<b>>), q) \in Seq(Byte)
    BY <1>1, <1>6, CatBytes
<1> QED  BY <1>3, <1>4, <1>5, <1>6, <1>7

LEMMA EnvelopeStart == EnvelopeInit => EnvelopeInv
<1> SUFFICES ASSUME EnvelopeInit  PROVE EnvelopeInv
    OBVIOUS
<1>1. home \in Rooms /\ reader \in Rooms /\ sealed \in Recipes /\ rewrites = 0 /\ wire = Bytes(sealed)
    BY DEF EnvelopeInit, Seal
<1>2. wire \in Seq(Byte)
    BY <1>1, RecipeTyped, Layout DEF LaidOut
<1>3. OneSignatureOneFrame
    BY DEF EnvelopeInit, Seal, NotRead, OneSignatureOneFrame
<1> QED  BY <1>1, <1>2, <1>3 DEF EnvelopeInv

LEMMA RewriteKeeps ==
    ASSUME EnvelopeInv, Rewrite
    PROVE  EnvelopeInv'
<1>1. PICK i \in 1..Len(wire), b \in Byte :
        wire' \in {ReplaceAt(wire, i, b), InsertAt(wire, i, b), RemoveAt(wire, i)}
    BY DEF Rewrite
<1>2. wire \in Seq(Byte) /\ rewrites \in Nat
    BY DEF EnvelopeInv
<1>3. wire' \in Seq(Byte)
    BY <1>1, <1>2, RewriteBytes
<1>4. rewrites' \in Nat /\ rewrites' # 0
    BY <1>2 DEF Rewrite
<1>5. UNCHANGED <<home, sealed, reader, opened>> /\ opened = NotRead
    BY DEF Rewrite
<1>6. OneSignatureOneFrame'
    BY <1>5 DEF OneSignatureOneFrame, NotRead
<1> QED  BY <1>3, <1>4, <1>5, <1>6 DEF EnvelopeInv

LEMMA OpenKeeps ==
    ASSUME EnvelopeInv, Open
    PROVE  EnvelopeInv'
<1> DEFINE e == ParseEnvelope(wire)
<1>1. /\ home \in Rooms /\ reader \in Rooms /\ sealed \in Recipes
      /\ wire \in Seq(Byte) /\ rewrites \in Nat
      /\ rewrites = 0 => wire = Bytes(sealed)
    BY DEF EnvelopeInv
<1>2. UNCHANGED <<home, sealed, wire, rewrites, reader>>
    BY DEF Open
<1>3. opened' = IF ~e.ok THEN [verdict |-> "bad_envelope"]
                ELSE IF SigningInput(reader, e) # SigningInput(home, sealed)
                THEN [verdict |-> "bad_signature"]
                ELSE [verdict |-> "opened", envelope |-> e]
    BY DEF Open
<1>4. Typed(sealed) /\ DOMAIN sealed = {"key_id", "kind", "epoch", "counter", "nonce", "ciphertext"}
    BY <1>1, RecipeTyped
<1>5. home \in Seq(Byte) /\ Len(home) \in Value /\ reader \in Seq(Byte) /\ Len(reader) \in Value
    BY <1>1, FramesAssumption
<1>6. e.ok => Typed(e)
    BY <1>1, ParseType
<1>7. ASSUME rewrites = 0, reader = home
      PROVE  e.ok /\ SigningInput(reader, e) = SigningInput(home, sealed)
  <2>1. e = [ok |-> TRUE, key_id |-> sealed.key_id, kind |-> sealed.kind, epoch |-> sealed.epoch,
             counter |-> sealed.counter, nonce |-> sealed.nonce, ciphertext |-> sealed.ciphertext]
      BY <1>1, <1>4, <1>7, ParsesBack
  <2> HIDE DEF e
  <2>2. /\ e.ok /\ e.key_id = sealed.key_id /\ e.kind = sealed.kind /\ e.epoch = sealed.epoch
        /\ e.counter = sealed.counter /\ e.nonce = sealed.nonce /\ e.ciphertext = sealed.ciphertext
      BY <2>1
  <2>3. SigningInput(reader, e) = SigningInput(home, sealed)
      BY Zenon, <1>7, <2>2 DEF SigningInput, AssociatedData
  <2> QED  BY <2>2, <2>3
<1> HIDE DEF e
<1>8. CASE ~e.ok
  <2>1. opened' = [verdict |-> "bad_envelope"]
      BY <1>3, <1>8
  <2>2. rewrites > 0 \/ reader # home
      BY <1>1, <1>7, <1>8
  <2>3. OneSignatureOneFrame'
      BY <1>2, <2>1, <2>2 DEF OneSignatureOneFrame
  <2> QED  BY <1>1, <1>2, <2>3 DEF EnvelopeInv
<1>9. CASE e.ok /\ SigningInput(reader, e) # SigningInput(home, sealed)
  <2>1. opened' = [verdict |-> "bad_signature"]
      BY <1>3, <1>9
  <2>2. rewrites > 0 \/ reader # home
      BY <1>1, <1>7, <1>9
  <2>3. OneSignatureOneFrame'
      BY <1>2, <2>1, <2>2 DEF OneSignatureOneFrame
  <2> QED  BY <1>1, <1>2, <2>3 DEF EnvelopeInv
<1>10. CASE e.ok /\ SigningInput(reader, e) = SigningInput(home, sealed)
  <2>1. opened' = [verdict |-> "opened", envelope |-> e]
      BY <1>3, <1>10
  <2>2. /\ reader = home
        /\ e.key_id = sealed.key_id /\ e.kind = sealed.kind /\ e.epoch = sealed.epoch
        /\ e.counter = sealed.counter /\ e.nonce = sealed.nonce /\ e.ciphertext = sealed.ciphertext
      BY <1>4, <1>5, <1>6, <1>10, SigningInputSays
  <2>3. \A f \in DOMAIN sealed : e[f] = sealed[f]
      BY <1>4, <2>2
  <2>4. opened'.verdict = "opened" /\ opened'.envelope = e
      BY <2>1
  <2>5. OneSignatureOneFrame'
    <3>1. opened'.verdict \notin {"bad_envelope", "bad_signature"}
        BY <2>4
    <3>2. \A f \in DOMAIN sealed' : opened'.envelope[f] = sealed'[f]
        BY <1>2, <2>3, <2>4
    <3>3. reader' = home'
        BY <1>2, <2>2
    <3> QED  BY <3>1, <3>2, <3>3 DEF OneSignatureOneFrame
  <2> QED  BY <1>1, <1>2, <2>5 DEF EnvelopeInv
<1> QED  BY <1>8, <1>9, <1>10

(* A signature is good for one frame in one room, for every width of a value, *)
(* every room and recipe, and however often the bytes are rewritten           *)
(* (Envelope::parse, read_varuint, signing_input): varints have no prefix     *)
(* among themselves, so the signing input can be taken apart in one way only. *)
THEOREM SignatureIsForOneFrame == EnvelopeSpec => []OneSignatureOneFrame
<1>1. EnvelopeInv /\ [EnvelopeNext]_envelopeVars => EnvelopeInv'
  <2>1. CASE UNCHANGED envelopeVars
      BY <2>1 DEF envelopeVars, EnvelopeInv, OneSignatureOneFrame
  <2> QED  BY <2>1, RewriteKeeps, OpenKeeps DEF EnvelopeNext
<1>2. EnvelopeInv => OneSignatureOneFrame
    BY DEF EnvelopeInv
<1> QED  BY <1>1, <1>2, EnvelopeStart, PTL DEF EnvelopeSpec

----------------------------------------------------------------------------
(* Streams *)

\* An outcome of a read that began at cur.
Good(any, cur, r) ==
    r.ok \in BOOLEAN /\ r.cur \in cur..(Len(any) + 1) /\ r.height \in Nat

Calls == Nat \X BOOLEAN

\* f has the outcomes of the calls past cur.
Past(any, cur, f) ==
    \A k \in (cur + 1)..(Len(any) + 1) : \A c \in Calls : Good(any, k, f[k][c])

LEMMA CameIs ==
    ASSUME NEW ok, NEW cur, NEW height
    PROVE  Came(ok, cur, height).ok = ok /\ Came(ok, cur, height).cur = cur
           /\ Came(ok, cur, height).height = height
  BY DEF Came

LEMMA CameFails ==
    ASSUME NEW cur, NEW height
    PROVE  ~Came(FALSE, cur, height).ok
  BY DEF Came

LEMMA GoodCame ==
    ASSUME NEW any, NEW cur, NEW ok \in BOOLEAN, NEW k \in cur..(Len(any) + 1), NEW h \in Nat
    PROVE  Good(any, cur, Came(ok, k, h))
<1>1. Came(ok, k, h).ok \in BOOLEAN
    BY CameIs
<1>2. Came(ok, k, h).cur \in cur..(Len(any) + 1) /\ Came(ok, k, h).height \in Nat
    BY CameIs
<1> QED  BY <1>1, <1>2 DEF Good

LEMMA DecodedType ==
    ASSUME NEW any \in Seq(AnyTokens), NEW cur \in 1..(Len(any) + 1), NEW f, Past(any, cur, f)
    PROVE  /\ Good(any, cur, Decoded(any, f, cur))
           /\ Decoded(any, f, cur).ok => Decoded(any, f, cur).cur > cur
<1> DEFINE r == Decoded(any, f, cur)
<1>0. Len(any) \in Nat /\ cur \in Nat
    OBVIOUS
<1>1. CASE cur > Len(any)
  <2>1. r = Came(FALSE, cur, 0)
      BY <1>1 DEF Decoded
  <2>2. cur \in cur..(Len(any) + 1)
      BY <1>0, <1>1
  <2>3. Good(any, cur, Came(FALSE, cur, 0))
      BY <2>2, GoodCame
  <2>4. ~r.ok
    <3> HIDE DEF r
    <3> QED  BY <2>1, CameFails
  <2> QED  BY <2>1, <2>3, <2>4
<1>2. CASE ~(cur > Len(any)) /\ any[cur] = "null"
  <2>1. r = Came(TRUE, cur + 1, 0)
      BY <1>2 DEF Decoded
  <2>2. cur + 1 \in cur..(Len(any) + 1)
      BY <1>0, <1>2
  <2>3. Good(any, cur, Came(TRUE, cur + 1, 0))
      BY <2>2, GoodCame
  <2>4. r.cur > cur
    <3> HIDE DEF r
    <3>1. Came(TRUE, cur + 1, 0).cur = cur + 1
        BY DEF Came
    <3>2. r.cur = cur + 1
        BY <2>1, <3>1
    <3> QED  BY <1>0, <3>2
  <2> QED  BY <2>1, <2>3, <2>4
<1>3. CASE ~(cur > Len(any)) /\ any[cur] # "null" /\ any[cur] \notin {"arr", "map"}
  <2>1. r = Came(FALSE, cur, 0)
      BY <1>3 DEF Decoded
  <2>2. cur \in cur..(Len(any) + 1)
      BY <1>0, <1>3
  <2>3. Good(any, cur, Came(FALSE, cur, 0))
      BY <2>2, GoodCame
  <2>4. ~r.ok
    <3> HIDE DEF r
    <3> QED  BY <2>1, CameFails
  <2> QED  BY <2>1, <2>3, <2>4
<1>4. CASE /\ ~(cur > Len(any)) /\ any[cur] \in {"arr", "map"}
           /\ cur = Len(any) \/ any[cur + 1] \notin DOMAIN Lengths
  <2>1. r = Came(FALSE, cur, 1)
      BY <1>4 DEF Decoded
  <2>2. cur \in cur..(Len(any) + 1)
      BY <1>0, <1>4
  <2>3. Good(any, cur, Came(FALSE, cur, 1))
      BY <2>2, GoodCame
  <2>4. ~r.ok
    <3> HIDE DEF r
    <3> QED  BY <2>1, CameFails
  <2> QED  BY <2>1, <2>3, <2>4
<1>5. CASE /\ ~(cur > Len(any)) /\ any[cur] \in {"arr", "map"}
           /\ cur # Len(any) /\ any[cur + 1] \in DOMAIN Lengths
  <2> DEFINE c == <<Lengths[any[cur + 1]], any[cur] = "map">>
             i == f[cur + 2][c]
  <2>1. c \in Calls
      BY <1>5, StreamsAssumption DEF Calls
  <2>2. cur + 2 \in (cur + 1)..(Len(any) + 1)
      BY <1>0, <1>5
  <2>3. r = Came(i.ok, i.cur, i.height + 1)
      BY <1>5 DEF Decoded
  <2> HIDE DEF c, r
  <2>4. Good(any, cur + 2, i)
      BY <2>1, <2>2 DEF Past
  <2> HIDE DEF i
  <2>5. r.ok = i.ok /\ r.cur = i.cur /\ r.height = i.height + 1
      BY <2>3, CameIs
  <2>6. i.ok \in BOOLEAN /\ i.cur \in (cur + 2)..(Len(any) + 1) /\ i.height \in Nat
      BY <2>4 DEF Good
  <2>7. r.ok \in BOOLEAN
      BY <2>5, <2>6
  <2>8. r.cur \in cur..(Len(any) + 1) /\ r.height \in Nat /\ r.cur > cur
      BY <1>0, <2>5, <2>6
  <2> QED  BY <2>7, <2>8 DEF Good, r
<1> QED  BY <1>1, <1>2, <1>3, <1>4, <1>5

LEMMA ElementsType ==
    ASSUME NEW any \in Seq(AnyTokens), NEW cur \in 1..(Len(any) + 1), NEW f, Past(any, cur, f),
           NEW left \in Nat, NEW map \in BOOLEAN
    PROVE  Good(any, cur, TheElements(any, f, cur, left, map))
<1> DEFINE r == TheElements(any, f, cur, left, map)
<1>0. Len(any) \in Nat /\ cur \in Nat
    OBVIOUS
<1>1. CASE left = 0
  <2>1. r = Came(TRUE, cur, 0)
      BY <1>1 DEF TheElements
  <2>2. cur \in cur..(Len(any) + 1)
      BY <1>0, <1>1
  <2>3. Good(any, cur, Came(TRUE, cur, 0))
      BY <2>2, GoodCame
  <2> QED  BY <2>1, <2>3
<1>2. CASE left # 0 /\ map /\ (cur > Len(any) \/ any[cur] # "s")
  <2>1. r = Came(FALSE, cur, 0)
      BY <1>2 DEF TheElements
  <2>2. cur \in cur..(Len(any) + 1)
      BY <1>0, <1>2
  <2>3. Good(any, cur, Came(FALSE, cur, 0))
      BY <2>2, GoodCame
  <2>4. ~r.ok
    <3> HIDE DEF r
    <3> QED  BY <2>1, CameFails
  <2> QED  BY <2>1, <2>3, <2>4
<1>3. CASE left # 0 /\ ~(map /\ (cur > Len(any) \/ any[cur] # "s"))
  <2> DEFINE k == IF map THEN cur + 1 ELSE cur
             v == Decoded(any, f, k)
             o == f[v.cur][<<left - 1, map>>]
  <2>1. k \in 1..(Len(any) + 1) /\ k >= cur
      BY <1>0, <1>3
  <2>2. Past(any, k, f)
    <3> SUFFICES ASSUME NEW j \in (k + 1)..(Len(any) + 1), NEW c \in Calls
                 PROVE  Good(any, j, f[j][c])
        BY DEF Past
    <3>1. j \in (cur + 1)..(Len(any) + 1)
        BY <1>0, <2>1
    <3> QED  BY <3>1 DEF Past
  <2> HIDE DEF k
  <2>3. Good(any, k, v) /\ (v.ok => v.cur > k)
      BY <2>1, <2>2, DecodedType
  <2>4. CASE ~v.ok
    <3>1. r = v
        BY <1>3, <2>4 DEF TheElements, k
    <3> HIDE DEF r, v
    <3>2. v.ok \in BOOLEAN /\ v.cur \in k..(Len(any) + 1) /\ v.height \in Nat
        BY <2>3 DEF Good
    <3>3. v.cur \in cur..(Len(any) + 1)
        BY <1>0, <2>1, <3>2
    <3> QED  BY <3>1, <3>2, <3>3 DEF Good, r
  <2>5. CASE v.ok
    <3>1. r = Came(o.ok, o.cur, IF v.height > o.height THEN v.height ELSE o.height)
        BY <1>3, <2>5 DEF TheElements, k
    <3> HIDE DEF r, v
    <3>2. v.ok \in BOOLEAN /\ v.cur \in k..(Len(any) + 1) /\ v.height \in Nat
        BY <2>3 DEF Good
    <3>3. v.cur \in (cur + 1)..(Len(any) + 1)
        BY <1>0, <2>1, <2>3, <2>5, <3>2
    <3>4. <<left - 1, map>> \in Calls
        BY <1>3 DEF Calls
    <3>5. Good(any, v.cur, o)
        BY <3>3, <3>4 DEF Past
    <3> HIDE DEF o
    <3>6. o.ok \in BOOLEAN /\ o.cur \in v.cur..(Len(any) + 1) /\ o.height \in Nat
        BY <3>5 DEF Good
    <3>7. /\ r.ok = o.ok /\ r.cur = o.cur
          /\ r.height = IF v.height > o.height THEN v.height ELSE o.height
        BY <3>1, CameIs
    <3>8. r.cur \in cur..(Len(any) + 1)
        BY <1>0, <3>3, <3>6, <3>7
    <3>9. r.ok \in BOOLEAN /\ r.height \in Nat
        BY <3>2, <3>6, <3>7
    <3> QED  BY <3>8, <3>9 DEF Good, r
  <2> QED  BY <2>4, <2>5
<1> QED  BY <1>1, <1>2, <1>3
Row(any, f, cur) == [c \in Calls |-> TheElements(any, f, cur, c[1], c[2])]

\* The outcomes f has past cur are the ones the definition asks of it.
Filled(any, cur, f) == \A k \in (cur + 1)..(Len(any) + 1) : f[k] = Row(any, f, k)

Agree(any, cur, f, g) == \A k \in (cur + 1)..(Len(any) + 1) : f[k] = g[k]

LEMMA DecodedAgrees ==
    ASSUME NEW any \in Seq(AnyTokens), NEW cur \in 1..(Len(any) + 1), NEW f, NEW g,
           Agree(any, cur, f, g)
    PROVE  Decoded(any, f, cur) = Decoded(any, g, cur)
<1>0. Len(any) \in Nat /\ cur \in Nat
    OBVIOUS
<1>1. CASE cur > Len(any) \/ cur = Len(any)
    BY <1>0, <1>1 DEF Decoded
<1>2. CASE ~(cur > Len(any) \/ cur = Len(any))
  <2>1. cur + 2 \in (cur + 1)..(Len(any) + 1)
      BY <1>0, <1>2
  <2>2. f[cur + 2] = g[cur + 2]
      BY <2>1 DEF Agree
  <2> QED  BY <2>2 DEF Decoded
<1> QED  BY <1>1, <1>2

LEMMA ElementsAgree ==
    ASSUME NEW any \in Seq(AnyTokens), NEW cur \in 1..(Len(any) + 1), NEW f, NEW g,
           Past(any, cur, f), Agree(any, cur, f, g), NEW left, NEW map \in BOOLEAN
    PROVE  TheElements(any, f, cur, left, map) = TheElements(any, g, cur, left, map)
<1>0. Len(any) \in Nat /\ cur \in Nat
    OBVIOUS
<1>1. CASE left = 0 \/ (map /\ (cur > Len(any) \/ any[cur] # "s"))
    BY <1>1 DEF TheElements
<1>2. CASE left # 0 /\ ~(map /\ (cur > Len(any) \/ any[cur] # "s"))
  <2> DEFINE k == IF map THEN cur + 1 ELSE cur
             v == Decoded(any, f, k)
             w == Decoded(any, g, k)
  <2>1. k \in 1..(Len(any) + 1) /\ k >= cur
      BY <1>0, <1>2
  <2>2. Past(any, k, f)
    <3> SUFFICES ASSUME NEW j \in (k + 1)..(Len(any) + 1), NEW c \in Calls
                 PROVE  Good(any, j, f[j][c])
        BY DEF Past
    <3>1. j \in (cur + 1)..(Len(any) + 1)
        BY <1>0, <2>1
    <3> QED  BY <3>1 DEF Past
  <2>3. Agree(any, k, f, g)
    <3> SUFFICES ASSUME NEW j \in (k + 1)..(Len(any) + 1)
                 PROVE  f[j] = g[j]
        BY DEF Agree
    <3>1. j \in (cur + 1)..(Len(any) + 1)
        BY <1>0, <2>1
    <3> QED  BY <3>1 DEF Agree
  <2> HIDE DEF k
  <2>4. Good(any, k, v) /\ (v.ok => v.cur > k)
      BY <2>1, <2>2, DecodedType
  <2>5. v = w
      BY <2>1, <2>3, DecodedAgrees
  <2>6. CASE ~v.ok
      BY <1>2, <2>5, <2>6 DEF TheElements, k
  <2>7. CASE v.ok
    <3>1. v.cur \in k..(Len(any) + 1)
        BY <2>4 DEF Good
    <3>2. v.cur > k
        BY <2>4, <2>7
    <3> HIDE DEF v
    <3>3. v.cur \in (cur + 1)..(Len(any) + 1)
        BY <1>0, <2>1, <3>1, <3>2
    <3>4. f[v.cur] = g[v.cur]
        BY <3>3 DEF Agree
    <3> HIDE DEF w
    <3> DEFINE o(h) == h[v.cur][<<left - 1, map>>]
               both(h) == Came(o(h).ok, o(h).cur, IF v.height > o(h).height THEN v.height ELSE o(h).height)
    <3>5. TheElements(any, f, cur, left, map) = both(f)
        BY <1>2, <2>7 DEF TheElements, k, v
    <3>6. TheElements(any, g, cur, left, map) = both(g)
        BY <1>2, <2>5, <2>7 DEF TheElements, k, w
    <3> QED  BY <3>4, <3>5, <3>6
  <2> QED  BY <2>6, <2>7
<1> QED  BY <1>1, <1>2

LEMMA RowAgrees ==
    ASSUME NEW any \in Seq(AnyTokens), NEW cur \in 1..(Len(any) + 1), NEW f, NEW g,
           Past(any, cur, f), Agree(any, cur, f, g)
    PROVE  Row(any, f, cur) = Row(any, g, cur)
<1>1. \A c \in Calls : TheElements(any, f, cur, c[1], c[2]) = TheElements(any, g, cur, c[1], c[2])
  <2> TAKE c \in Calls
  <2>1. c[2] \in BOOLEAN
      BY DEF Calls
  <2> QED  BY <2>1, ElementsAgree
<1> QED  BY <1>1 DEF Row

LEMMA RowType ==
    ASSUME NEW any \in Seq(AnyTokens), NEW cur \in 1..(Len(any) + 1), NEW f, Past(any, cur, f),
           NEW c \in Calls
    PROVE  Good(any, cur, Row(any, f, cur)[c])
<1>1. c[1] \in Nat /\ c[2] \in BOOLEAN
    BY DEF Calls
<1>2. Good(any, cur, TheElements(any, f, cur, c[1], c[2]))
    BY <1>1, ElementsType
<1>3. Row(any, f, cur)[c] = TheElements(any, f, cur, c[1], c[2])
    BY DEF Row
<1> QED  BY <1>2, <1>3
LEMMA FilledType ==
    ASSUME NEW any \in Seq(AnyTokens), NEW f, NEW low \in 0..(Len(any) + 1), Filled(any, low, f)
    PROVE  Past(any, low, f)
<1> DEFINE top == Len(any) + 1
           T == {m \in Nat : m <= top - low => Past(any, top - m, f)}
<1>0. top \in Nat /\ Len(any) \in Nat /\ low \in Nat /\ low <= top
    OBVIOUS
<1>1. 0 \in T
  <2>1. Past(any, top - 0, f)
      BY <1>0 DEF Past
  <2> QED  BY <2>1
<1>2. ASSUME NEW m \in Nat, m \in T  PROVE m + 1 \in T
  <2> SUFFICES ASSUME m + 1 <= top - low  PROVE Past(any, top - (m + 1), f)
      OBVIOUS
  <2> DEFINE p == top - m
  <2>1. p \in 1..top /\ p \in (low + 1)..top /\ top - (m + 1) = p - 1 /\ m <= top - low
      BY <1>0
  <2>2. Past(any, p, f)
      BY <1>2, <2>1
  <2>3. f[p] = Row(any, f, p)
      BY <2>1 DEF Filled
  <2> SUFFICES ASSUME NEW k \in (p - 1 + 1)..top, NEW c \in Calls  PROVE Good(any, k, f[k][c])
      BY <2>1 DEF Past
  <2> HIDE DEF p
  <2>4. CASE k = p
    <3>1. Good(any, p, Row(any, f, p)[c])
        BY <2>1, <2>2, RowType
    <3> QED  BY <2>3, <2>4, <3>1
  <2>5. CASE k # p
    <3>1. k \in (p + 1)..(Len(any) + 1)
        BY <1>0, <2>1, <2>5
    <3> QED  BY <2>2, <3>1 DEF Past
  <2> QED  BY <2>4, <2>5
<1> HIDE DEF T
<1>3. Nat \subseteq T
    BY <1>1, <1>2, Induction
<1>4. top - low \in T
    BY <1>0, <1>3
<1>5. top - (top - low) = low
    BY <1>0
<1> QED  BY <1>0, <1>4, <1>5 DEF T

LEMMA ElementsExist ==
    ASSUME NEW any \in Seq(AnyTokens)
    PROVE  \E f : f = [cur \in 1..(Len(any) + 1) |-> Row(any, f, cur)]
<1> DEFINE top == Len(any) + 1
           T == {m \in Nat : m <= top => \E f : f = [cur \in 1..top |-> f[cur]] /\ Filled(any, top - m, f)}
<1>0. top \in Nat /\ Len(any) \in Nat
    OBVIOUS
<1>1. 0 \in T
  <2> DEFINE f == [cur \in 1..top |-> 0]
  <2>1. f = [cur \in 1..top |-> f[cur]] /\ Filled(any, top - 0, f)
      BY <1>0 DEF Filled
  <2> QED  BY <2>1
<1>2. ASSUME NEW m \in Nat, m \in T  PROVE m + 1 \in T
  <2> SUFFICES ASSUME m + 1 <= top
               PROVE  \E f : f = [cur \in 1..top |-> f[cur]] /\ Filled(any, top - (m + 1), f)
      OBVIOUS
  <2> DEFINE p == top - m
  <2>1. p \in 1..top /\ top - (m + 1) = p - 1 /\ p \in 0..(Len(any) + 1)
      BY <1>0
  <2>2. PICK f : f = [cur \in 1..top |-> f[cur]] /\ Filled(any, p, f)
      BY <1>0, <1>2
  <2> HIDE DEF p
  <2>3. Past(any, p, f)
      BY <2>1, <2>2, FilledType
  <2> DEFINE g == [cur \in 1..top |-> IF cur = p THEN Row(any, f, p) ELSE f[cur]]
  <2>4. \A k \in (p + 1)..top : g[k] = f[k]
      BY <1>0, <2>1
  <2>5. g[p] = Row(any, f, p)
      BY <2>1
  <2>6. g = [cur \in 1..top |-> g[cur]]
      OBVIOUS
  <2> HIDE DEF g
  <2>7. ASSUME NEW k \in p..top
        PROVE  Past(any, k, f) /\ Agree(any, k, f, g)
    <3>1. \A j \in (k + 1)..(Len(any) + 1) : j \in (p + 1)..top
        BY <1>0, <2>1
    <3>2. Past(any, k, f)
        BY <2>3, <3>1 DEF Past
    <3>3. Agree(any, k, f, g)
        BY <2>4, <3>1 DEF Agree
    <3> QED  BY <3>2, <3>3
  <2>8. Filled(any, p - 1, g)
    <3> SUFFICES ASSUME NEW k \in (p - 1 + 1)..(Len(any) + 1)  PROVE g[k] = Row(any, g, k)
        BY DEF Filled
    <3>1. k \in p..top /\ k \in 1..(Len(any) + 1)
        BY <1>0, <2>1
    <3>2. Row(any, f, k) = Row(any, g, k)
        BY <2>7, <3>1, RowAgrees
    <3>3. CASE k = p
        BY <2>5, <3>2, <3>3
    <3>4. CASE k # p
      <4>1. k \in (p + 1)..top
          BY <1>0, <2>1, <3>1, <3>4
      <4>2. f[k] = Row(any, f, k)
          BY <2>2, <4>1 DEF Filled
      <4> QED  BY <2>4, <3>2, <4>1, <4>2
    <3> QED  BY <3>3, <3>4
  <2> QED  BY <2>1, <2>6, <2>8
<1> HIDE DEF T
<1>3. Nat \subseteq T
    BY <1>1, <1>2, Induction
<1>4. top \in T
    BY <1>0, <1>3
<1>5. PICK f : f = [cur \in 1..top |-> f[cur]] /\ Filled(any, top - top, f)
    BY <1>0, <1>4 DEF T
<1>6. \A k \in 1..top : f[k] = Row(any, f, k)
    BY <1>0, <1>5 DEF Filled
<1>7. f = [cur \in 1..top |-> Row(any, f, cur)]
    BY <1>5, <1>6, Zenon
<1> QED  BY <1>7

LEMMA ElementsUnfold ==
    ASSUME NEW any \in Seq(AnyTokens)
    PROVE  /\ \A cur \in 1..(Len(any) + 1) : Elements(any)[cur] = Row(any, Elements(any), cur)
           /\ Past(any, 0, Elements(any))
<1> DEFINE E == CHOOSE f : f = [cur \in 1..(Len(any) + 1) |-> Row(any, f, cur)]
<1>1. Elements(any) = E
    BY DEF Elements, Row, Calls
<1>2. E = [cur \in 1..(Len(any) + 1) |-> Row(any, E, cur)]
    BY ElementsExist
<1> HIDE DEF E
<1>3. \A cur \in 1..(Len(any) + 1) : E[cur] = Row(any, E, cur)
    BY <1>2
<1>4. Filled(any, 0, E)
    BY <1>3 DEF Filled
<1>5. 0 \in 0..(Len(any) + 1)
    OBVIOUS
<1>6. Past(any, 0, E)
    BY <1>4, <1>5, FilledType
<1> QED  BY <1>1, <1>3, <1>6
Level == [left : Nat, map : BOOLEAN]

LEMMA WalkExists ==
    ASSUME NEW any \in Seq(AnyTokens)
    PROVE  \E f : f = [n \in 0..(Len(any) + 1) |->
                          IF n = 0 THEN At(1, <<>>) ELSE Turn(any, f[n - 1])]
<1> DEFINE top == Len(any) + 1
           step(f, n) == IF n = 0 THEN At(1, <<>>) ELSE Turn(any, f[n - 1])
           T == {m \in Nat : \E f : f = [n \in 0..top |-> f[n]]
                                    /\ \A n \in 0..top : n <= m => f[n] = step(f, n)}
<1>0. top \in Nat
    OBVIOUS
<1>1. 0 \in T
  <2> DEFINE f == [n \in 0..top |-> At(1, <<>>)]
  <2>1. f = [n \in 0..top |-> f[n]]
      OBVIOUS
  <2>2. \A n \in 0..top : n <= 0 => f[n] = step(f, n)
      BY <1>0
  <2> QED  BY <2>1, <2>2
<1>2. ASSUME NEW m \in Nat, m \in T  PROVE m + 1 \in T
  <2>1. PICK f : f = [n \in 0..top |-> f[n]]
                 /\ \A n \in 0..top : n <= m => f[n] = step(f, n)
      BY <1>2
  <2> DEFINE g == [n \in 0..top |-> IF n = m + 1 THEN Turn(any, f[m]) ELSE f[n]]
  <2>2. g = [n \in 0..top |-> g[n]]
      OBVIOUS
  <2>3. ASSUME NEW n \in 0..top, n <= m + 1  PROVE g[n] = step(g, n)
    <3>1. CASE n = m + 1
      <4>1. n - 1 = m /\ m \in 0..top /\ m # m + 1 /\ n # 0
          BY <1>0, <2>3, <3>1
      <4>2. g[m] = f[m] /\ g[n] = Turn(any, f[m])
          BY <3>1, <4>1
      <4> HIDE DEF g
      <4> QED  BY <4>1, <4>2
    <3>2. CASE n # m + 1
      <4>1. n <= m /\ (n # 0 => n - 1 \in 0..top /\ n - 1 # m + 1)
          BY <1>0, <2>3, <3>2
      <4>2. g[n] = f[n] /\ (n # 0 => g[n - 1] = f[n - 1])
          BY <3>2, <4>1
      <4>3. f[n] = step(f, n)
          BY <2>1, <4>1
      <4> HIDE DEF g
      <4> QED  BY <4>2, <4>3
    <3> QED  BY <3>1, <3>2
  <2> HIDE DEF g
  <2>4. \A n \in 0..top : n <= m + 1 => g[n] = step(g, n)
      BY <2>3, Zenon
  <2>5. \E h : h = [n \in 0..top |-> h[n]] /\ \A n \in 0..top : n <= m + 1 => h[n] = step(h, n)
      BY <2>2, <2>4, Zenon
  <2>6. m + 1 \in Nat
      OBVIOUS
  <2> QED  BY <2>5, <2>6, Zenon
<1> HIDE DEF T
<1>3. Nat \subseteq T
    BY <1>1, <1>2, Induction
<1>4. top \in T
    BY <1>0, <1>3
<1>5. PICK f : f = [n \in 0..top |-> f[n]] /\ \A n \in 0..top : n <= top => f[n] = step(f, n)
    BY <1>4 DEF T
<1>6. \A n \in 0..top : f[n] = step(f, n)
    BY <1>0, <1>5
<1>7. f = [n \in 0..top |-> step(f, n)]
    BY <1>5, <1>6, Zenon
<1> QED  BY <1>7

LEMMA WalkUnfolds ==
    ASSUME NEW any \in Seq(AnyTokens)
    PROVE  /\ Walk(any)[0] = At(1, <<>>)
           /\ \A n \in 1..(Len(any) + 1) : Walk(any)[n] = Turn(any, Walk(any)[n - 1])
<1> DEFINE W == CHOOSE f : f = [n \in 0..(Len(any) + 1) |->
                                   IF n = 0 THEN At(1, <<>>) ELSE Turn(any, f[n - 1])]
<1>1. Walk(any) = W
    BY DEF Walk
<1>2. W = [n \in 0..(Len(any) + 1) |-> IF n = 0 THEN At(1, <<>>) ELSE Turn(any, W[n - 1])]
    BY WalkExists
<1> HIDE DEF W
<1>3. \A n \in 0..(Len(any) + 1) : W[n] = IF n = 0 THEN At(1, <<>>) ELSE Turn(any, W[n - 1])
    BY <1>2
<1>4. 0 \in 0..(Len(any) + 1)
    OBVIOUS
<1>5. W[0] = At(1, <<>>)
    BY <1>3, <1>4
<1>6. ASSUME NEW n \in 1..(Len(any) + 1)  PROVE W[n] = Turn(any, W[n - 1])
  <2>1. n \in 0..(Len(any) + 1) /\ n # 0
      OBVIOUS
  <2> QED  BY <1>3, <2>1
<1> QED  BY <1>1, <1>5, <1>6

----------------------------------------------------------------------------
\* The innermost container with a value left, and nothing left inside it.
LEMMA InnermostIs ==
    ASSUME NEW open \in Seq(Level)
    PROVE  /\ Innermost(open) \in 0..Len(open)
           /\ Innermost(open) # 0 => open[Innermost(open)].left > 0
           /\ \A j \in 1..Len(open) : j > Innermost(open) => open[j].left = 0
<1> DEFINE some == {i \in Nat : i \in 0..(Len(open) - 1) /\ open[Len(open) - i].left > 0}
           Is(i) == open[i].left > 0 /\ \A j \in (i + 1)..Len(open) : open[j].left = 0
<1>0. Len(open) \in Nat /\ \A i \in 1..Len(open) : open[i].left \in Nat
  <2>1. \A i \in 1..Len(open) : open[i] \in Level
      BY ElementOfSeq
  <2> QED  BY <2>1 DEF Level
<1>1. CASE \A i \in 1..Len(open) : open[i].left = 0
    BY <1>0, <1>1 DEF Innermost
<1>2. CASE ~\A i \in 1..Len(open) : open[i].left = 0
  <2>1. PICK i \in 1..Len(open) : open[i].left # 0
      BY <1>2
  <2>2. Len(open) - i \in some
    <3>1. Len(open) - (Len(open) - i) = i /\ Len(open) - i \in 0..(Len(open) - 1)
        BY <1>0
    <3>2. open[i].left > 0
        BY <1>0, <2>1
    <3> QED  BY <3>1, <3>2
  <2>3. PICK x \in some : \A y \in some : x <= y
      BY <2>2, LeastOfNat
  <2> DEFINE h == Len(open) - x
  <2>4. h \in 1..Len(open) /\ open[h].left > 0
      BY <1>0, <2>3
  <2>5. ASSUME NEW j \in (h + 1)..Len(open)  PROVE open[j].left = 0
    <3>1. j \in 1..Len(open)
        BY <1>0, <2>4
    <3>2. SUFFICES ASSUME open[j].left > 0  PROVE FALSE
        BY <1>0, <3>1
    <3>3. Len(open) - j \in some
      <4>1. Len(open) - (Len(open) - j) = j /\ Len(open) - j \in 0..(Len(open) - 1)
          BY <1>0, <3>1
      <4> QED  BY <3>2, <4>1
    <3>4. x <= Len(open) - j
        BY <2>3, <3>3
    <3> QED  BY <1>0, <2>3, <3>1, <3>4
  <2>6. \E i2 \in 1..Len(open) : Is(i2)
    <3> HIDE DEF h
    <3> QED  BY <2>4, <2>5
  <2>7. Innermost(open) = CHOOSE i2 \in 1..Len(open) : Is(i2)
      BY <1>2 DEF Innermost
  <2>8. Innermost(open) \in 1..Len(open) /\ Is(Innermost(open))
      BY <2>6, <2>7
  <2>9. open[Innermost(open)].left > 0
      BY <2>8
  <2>10. ASSUME NEW j \in 1..Len(open), j > Innermost(open)  PROVE open[j].left = 0
    <3>1. j \in (Innermost(open) + 1)..Len(open)
        BY <1>0, <2>8, <2>10
    <3> QED  BY <2>8, <3>1
  <2>11. Innermost(open) \in 0..Len(open)
      BY <1>0, <2>8
  <2> QED  BY <2>9, <2>10, <2>11
<1> QED  BY <1>1, <1>2

\* It is the only one.
LEMMA InnermostOnly ==
    ASSUME NEW open \in Seq(Level), NEW i \in 0..Len(open), i # 0 => open[i].left > 0,
           \A j \in 1..Len(open) : j > i => open[j].left = 0
    PROVE  Innermost(open) = i
<1> DEFINE t == Innermost(open)
<1>1. /\ t \in 0..Len(open)
      /\ t # 0 => open[t].left > 0
      /\ \A j \in 1..Len(open) : j > t => open[j].left = 0
    BY InnermostIs
<1> HIDE DEF t
<1>2. CASE t > i
  <2>1. t \in 1..Len(open) /\ t # 0
      BY <1>1, <1>2
  <2> QED  BY <1>1, <1>2, <2>1
<1>3. CASE i > t
  <2>1. i \in 1..Len(open) /\ i # 0
      BY <1>1, <1>3
  <2> QED  BY <1>1, <1>3, <2>1
<1>4. CASE t = i
    BY <1>4 DEF t
<1> QED  BY <1>1, <1>2, <1>3, <1>4
\* What is left open once the innermost has given its next value.
Left(open) == [SubSeq(open, 1, Innermost(open)) EXCEPT ![Innermost(open)].left = @ - 1]

LEMMA LeftType ==
    ASSUME NEW open \in Seq(Level), Innermost(open) # 0
    PROVE  Left(open) \in Seq(Level)
<1> DEFINE t == Innermost(open)
           s == SubSeq(open, 1, t)
<1>1. t \in 1..Len(open) /\ open[t].left > 0
    BY InnermostIs
<1> HIDE DEF t
<1>2. s \in Seq(Level) /\ Len(s) = t /\ \A i \in 1..t : s[i] = open[i]
  <2>1. Len(open) \in Nat /\ t \in Nat
      BY <1>1
  <2>2. s = [i \in 1..t |-> open[i]]
      BY <1>1, <2>1
  <2>3. \A i \in 1..t : open[i] \in Level
      BY <1>1, <2>1, ElementOfSeq
  <2> HIDE DEF s
  <2>4. s \in [1..t -> Level]
      BY <2>2, <2>3
  <2> QED  BY <2>1, <2>2, <2>4, IsASeq
<1>3. open[t] \in Level /\ s[t] = open[t] /\ t \in 1..t
    BY <1>1, <1>2, ElementOfSeq
<1> HIDE DEF s
<1>4. [s[t] EXCEPT !.left = @ - 1] \in Level
    BY <1>1, <1>3 DEF Level
<1>5. Left(open) = [s EXCEPT ![t] = [s[t] EXCEPT !.left = @ - 1]]
    BY DEF Left, s, t
<1>6. [s EXCEPT ![t] = [s[t] EXCEPT !.left = @ - 1]] \in Seq(Level)
    BY <1>2, <1>3, <1>4, ExceptSeq
<1> QED  BY <1>5, <1>6

\* The step of the walk after a value, by the innermost container.
LEMMA NextValueIs ==
    ASSUME NEW any, NEW cur, NEW open
    PROVE  NextValue(any, At(cur, open)) =
             IF Innermost(open) = 0 THEN Halt("done")
             ELSE IF ~open[Innermost(open)].map THEN At(cur, Left(open))
             ELSE IF cur > Len(any) THEN Halt("error")
             ELSE IF any[cur] # "s" THEN Halt("error")
             ELSE At(cur + 1, Left(open))
<1>1. At(cur, open).cur = cur /\ At(cur, open).open = open
    BY DEF At
<1> QED  BY <1>1, Zenon DEF NextValue, Left
LEMMA AtIs ==
    ASSUME NEW cur, NEW open
    PROVE  At(cur, open).cur = cur /\ At(cur, open).open = open /\ At(cur, open).end = "no"
  BY DEF At

LEMMA HaltIs ==
    ASSUME NEW how
    PROVE  Halt(how).end = how
  BY DEF Halt

\* The walk stands at a token it has not read, or at the end of the bytes.
Stands(any, low, w) == \E cur \in low..(Len(any) + 1), open \in Seq(Level) : w = At(cur, open)
Ended(w) == \E how \in {"done", "error", "deeper"} : w = Halt(how)

LEMMA StandsOrEnded ==
    ASSUME NEW any, NEW low, NEW w
    PROVE  /\ Stands(any, low, w) => w.end = "no"
           /\ Ended(w) => w.end # "no"
<1>1. ASSUME Stands(any, low, w)  PROVE w.end = "no"
  <2>1. PICK cur \in low..(Len(any) + 1), open \in Seq(Level) : w = At(cur, open)
      BY <1>1, Zenon DEF Stands
  <2> QED  BY <2>1, AtIs
<1>2. ASSUME Ended(w)  PROVE w.end # "no"
    BY <1>2, HaltIs DEF Ended
<1> QED  BY <1>1, <1>2

LEMMA NextValueType ==
    ASSUME NEW any \in Seq(AnyTokens), NEW cur \in 1..(Len(any) + 1), NEW open \in Seq(Level)
    PROVE  Stands(any, cur, NextValue(any, At(cur, open))) \/ Ended(NextValue(any, At(cur, open)))
<1> DEFINE w == NextValue(any, At(cur, open))
<1>0. Len(any) \in Nat /\ cur \in Nat /\ cur \in cur..(Len(any) + 1)
    OBVIOUS
<1>1. CASE Innermost(open) = 0
  <2>1. w = Halt("done")
      BY <1>1, NextValueIs, Zenon
  <2> QED  BY <2>1 DEF Ended
<1>2. CASE Innermost(open) # 0
  <2>1. Left(open) \in Seq(Level)
      BY <1>2, LeftType
  <2>2. CASE w = At(cur, Left(open))
      BY <1>0, <2>1, <2>2 DEF Stands
  <2>3. CASE w = Halt("error")
      BY <2>3 DEF Ended
  <2>4. CASE ~(cur > Len(any)) /\ w = At(cur + 1, Left(open))
    <3>1. cur + 1 \in cur..(Len(any) + 1)
        BY <1>0, <2>4
    <3> QED  BY <2>1, <2>4, <3>1 DEF Stands
  <2>5. w = At(cur, Left(open)) \/ w = Halt("error") \/ (~(cur > Len(any)) /\ w = At(cur + 1, Left(open)))
      BY <1>2, NextValueIs, Zenon
  <2> QED  BY <2>2, <2>3, <2>4, <2>5
<1> QED  BY <1>1, <1>2

\* read_one at a token, by the token.
LEMMA ReadOneIs ==
    ASSUME NEW any, NEW cur, NEW open
    PROVE  ReadOne(any, At(cur, open)) =
             IF cur > Len(any) THEN Halt("error")
             ELSE IF any[cur] = "null" THEN At(cur + 1, open)
             ELSE IF any[cur] \notin {"arr", "map"} THEN Halt("error")
             ELSE IF Len(open) >= MaxAnyDepth THEN Halt("deeper")
             ELSE IF cur = Len(any) THEN Halt("error")
             ELSE IF any[cur + 1] \notin DOMAIN Lengths THEN Halt("error")
             ELSE At(cur + 2,
                     Append(open, [left |-> Lengths[any[cur + 1]], map |-> any[cur] = "map"]))
<1>1. At(cur, open).cur = cur /\ At(cur, open).open = open
    BY AtIs
<1> QED  BY <1>1, Zenon DEF ReadOne

LEMMA ReadOneType ==
    ASSUME NEW any \in Seq(AnyTokens), NEW cur \in 1..(Len(any) + 1), NEW open \in Seq(Level),
           NEW w, w = ReadOne(any, At(cur, open))
    PROVE  Stands(any, cur + 1, w) \/ Ended(w)
<1>0. Len(any) \in Nat /\ cur \in Nat
    OBVIOUS
<1>1. CASE w = Halt("error") \/ w = Halt("deeper")
    BY <1>1 DEF Ended
<1>2. CASE w = At(cur + 1, open) /\ ~(cur > Len(any))
  <2>1. cur + 1 \in (cur + 1)..(Len(any) + 1)
      BY <1>0, <1>2
  <2> QED  BY <1>2, <2>1 DEF Stands
<1> DEFINE more == Append(open, [left |-> Lengths[any[cur + 1]], map |-> any[cur] = "map"])
<1>3. CASE /\ w = At(cur + 2, more)
           /\ ~(cur > Len(any)) /\ cur # Len(any) /\ any[cur + 1] \in DOMAIN Lengths
  <2>1. cur + 2 \in (cur + 1)..(Len(any) + 1)
      BY <1>0, <1>3
  <2>2. [left |-> Lengths[any[cur + 1]], map |-> any[cur] = "map"] \in Level
      BY <1>3, StreamsAssumption DEF Level
  <2>3. more \in Seq(Level)
      BY <2>2, AppendProperties
  <2> HIDE DEF more
  <2> QED  BY <1>3, <2>1, <2>3 DEF Stands
<1> HIDE DEF more
<1>5. \/ w = Halt("error") \/ w = Halt("deeper")
      \/ (w = At(cur + 1, open) /\ ~(cur > Len(any)))
      \/ /\ w = At(cur + 2, more)
         /\ ~(cur > Len(any)) /\ cur # Len(any) /\ any[cur + 1] \in DOMAIN Lengths
  <2>1. w = IF cur > Len(any) THEN Halt("error")
            ELSE IF any[cur] = "null" THEN At(cur + 1, open)
            ELSE IF any[cur] \notin {"arr", "map"} THEN Halt("error")
            ELSE IF Len(open) >= MaxAnyDepth THEN Halt("deeper")
            ELSE IF cur = Len(any) THEN Halt("error")
            ELSE IF any[cur + 1] \notin DOMAIN Lengths THEN Halt("error")
            ELSE At(cur + 2, more)
      BY ReadOneIs, Zenon DEF more
  <2> DEFINE good == ~(cur > Len(any)) /\ cur # Len(any) /\ any[cur + 1] \in DOMAIN Lengths
  <2>2. CASE cur > Len(any)
      BY <2>1, <2>2, Zenon
  <2>3. CASE ~(cur > Len(any)) /\ any[cur] = "null"
      BY <2>1, <2>3, Zenon
  <2>4. CASE ~good /\ ~(cur > Len(any)) /\ any[cur] # "null"
      BY <2>1, <2>4, Zenon
  <2>5. CASE good /\ any[cur] # "null"
      BY <2>1, <2>5, Zenon
  <2> QED  BY <2>2, <2>3, <2>4, <2>5
<1> QED  BY <1>1, <1>2, <1>3, <1>5

\* A turn reads a token or ends the walk.
LEMMA TurnType ==
    ASSUME NEW any \in Seq(AnyTokens), NEW low \in 1..(Len(any) + 1), NEW w,
           Stands(any, low, w) \/ Ended(w)
    PROVE  Stands(any, low + 1, Turn(any, w)) \/ Ended(Turn(any, w))
<1>0. Len(any) \in Nat /\ low \in Nat
    OBVIOUS
<1>1. CASE Ended(w)
  <2>1. Turn(any, w) = w
      BY <1>1, StandsOrEnded DEF Turn
  <2> QED  BY <1>1, <2>1
<1>2. CASE Stands(any, low, w)
  <2>1. PICK cur \in low..(Len(any) + 1), open \in Seq(Level) : w = At(cur, open)
      BY <1>2 DEF Stands
  <2> DEFINE one == ReadOne(any, w)
  <2>2. cur \in 1..(Len(any) + 1)
      BY <1>0
  <2>3. Stands(any, cur + 1, one) \/ Ended(one)
      BY <2>1, <2>2, ReadOneType
  <2>4. w.end = "no"
      BY <2>1, AtIs
  <2>5. CASE Ended(one)
    <3>1. one.end # "no"
        BY <2>5, StandsOrEnded
    <3>2. Turn(any, w) = one
        BY <2>4, <3>1 DEF Turn
    <3> QED  BY <2>5, <3>2
  <2>6. CASE Stands(any, cur + 1, one)
    <3>1. one.end = "no"
        BY <2>6, StandsOrEnded
    <3>2. Turn(any, w) = NextValue(any, one)
        BY <2>4, <3>1 DEF Turn
    <3>3. PICK c2 \in (cur + 1)..(Len(any) + 1), o2 \in Seq(Level) : one = At(c2, o2)
        BY <2>6 DEF Stands
    <3>4. c2 \in 1..(Len(any) + 1)
        BY <1>0
    <3> HIDE DEF one
    <3>5. Stands(any, c2, Turn(any, w)) \/ Ended(Turn(any, w))
        BY <3>2, <3>3, <3>4, NextValueType
    <3>6. ASSUME Stands(any, c2, Turn(any, w))  PROVE Stands(any, low + 1, Turn(any, w))
      <4>1. \A c3 \in c2..(Len(any) + 1) : c3 \in (low + 1)..(Len(any) + 1)
          BY <1>0
      <4> QED  BY <3>6, <4>1 DEF Stands
    <3> QED  BY <3>5, <3>6
  <2> QED  BY <2>3, <2>5, <2>6
<1> QED  BY <1>1, <1>2
LEMMA WalkMoves ==
    ASSUME NEW any \in Seq(AnyTokens), NEW n \in 0..(Len(any) + 1)
    PROVE  Stands(any, n + 1, Walk(any)[n]) \/ Ended(Walk(any)[n])
<1> DEFINE top == Len(any) + 1
           walk == Walk(any)
           T == {m \in Nat : m <= top => Stands(any, m + 1, walk[m]) \/ Ended(walk[m])}
<1>0. top \in Nat /\ Len(any) \in Nat
    OBVIOUS
<1>1. walk[0] = At(1, <<>>) /\ \A m \in 1..top : walk[m] = Turn(any, walk[m - 1])
    BY WalkUnfolds
<1> HIDE DEF walk
<1>2. 0 \in T
  <2>1. 1 \in (0 + 1)..(Len(any) + 1) /\ <<>> \in Seq(Level)
      BY <1>0
  <2>2. Stands(any, 0 + 1, walk[0])
      BY <1>1, <2>1, Zenon DEF Stands
  <2> QED  BY <2>2
<1>3. ASSUME NEW m \in Nat, m \in T  PROVE m + 1 \in T
  <2> SUFFICES ASSUME m + 1 <= top
               PROVE  Stands(any, m + 1 + 1, walk[m + 1]) \/ Ended(walk[m + 1])
      OBVIOUS
  <2>1. Stands(any, m + 1, walk[m]) \/ Ended(walk[m])
      BY <1>0, <1>3
  <2>2. m + 1 \in 1..top /\ m + 1 \in 1..(Len(any) + 1)
      BY <1>0
  <2>3. m + 1 - 1 = m
      OBVIOUS
  <2>4. walk[m + 1] = Turn(any, walk[m])
      BY <1>1, <2>2, <2>3
  <2>5. Stands(any, m + 1 + 1, Turn(any, walk[m])) \/ Ended(Turn(any, walk[m]))
      BY <2>1, <2>2, TurnType
  <2> QED  BY <2>4, <2>5
<1> HIDE DEF T
<1>4. Nat \subseteq T
    BY <1>2, <1>3, Induction
<1>5. n \in T
    BY <1>0, <1>4
<1> QED  BY <1>0, <1>5 DEF T, walk

\* The walk has ended after its last turn, and an ended walk stays where it ended.
LEMMA WalkEnds ==
    ASSUME NEW any \in Seq(AnyTokens)
    PROVE  Ended(Walk(any)[Len(any) + 1])
<1> DEFINE n == Len(any) + 1
<1>1. n \in 0..(Len(any) + 1) /\ (n + 1)..(Len(any) + 1) = {}
    OBVIOUS
<1> HIDE DEF n
<1>2. Stands(any, n + 1, Walk(any)[n]) \/ Ended(Walk(any)[n])
    BY <1>1, WalkMoves
<1>3. ~Stands(any, n + 1, Walk(any)[n])
    BY <1>1, Zenon DEF Stands
<1> QED  BY <1>2, <1>3 DEF n

LEMMA WalkStays ==
    ASSUME NEW any \in Seq(AnyTokens), NEW n \in 0..(Len(any) + 1), Walk(any)[n].end # "no"
    PROVE  Walk(any)[Len(any) + 1] = Walk(any)[n]
<1> DEFINE top == Len(any) + 1
           walk == Walk(any)
           T == {m \in Nat : n + m <= top => walk[n + m] = walk[n]}
<1>0. top \in Nat /\ n \in Nat /\ n <= top
    OBVIOUS
<1>1. \A m \in 1..top : walk[m] = Turn(any, walk[m - 1])
    BY WalkUnfolds
<1>2. walk[n].end # "no"
    OBVIOUS
<1> HIDE DEF walk
<1>3. 0 \in T
  <2>1. n + 0 = n
      BY <1>0
  <2> QED  BY <2>1
<1>4. ASSUME NEW m \in Nat, m \in T  PROVE m + 1 \in T
  <2> SUFFICES ASSUME n + (m + 1) <= top  PROVE walk[n + (m + 1)] = walk[n]
      OBVIOUS
  <2>1. walk[n + m] = walk[n]
      BY <1>0, <1>4
  <2>2. n + (m + 1) \in 1..top /\ n + (m + 1) - 1 = n + m
      BY <1>0
  <2>3. walk[n + (m + 1)] = Turn(any, walk[n + m])
      BY <1>1, <2>2
  <2>4. Turn(any, walk[n]) = walk[n]
      BY <1>2 DEF Turn
  <2> QED  BY <2>1, <2>3, <2>4
<1> HIDE DEF T
<1>5. Nat \subseteq T
    BY <1>3, <1>4, Induction
<1>6. top - n \in T /\ n + (top - n) = top
    BY <1>0, <1>5
<1> QED  BY <1>0, <1>6 DEF T, walk

\* The states the walk goes through.
Passes(any, w) == \E n \in 0..(Len(any) + 1) : Walk(any)[n] = w

LEMMA PassesOn ==
    ASSUME NEW any \in Seq(AnyTokens), NEW w, Passes(any, w), w.end = "no"
    PROVE  Passes(any, Turn(any, w))
<1>1. PICK n \in 0..(Len(any) + 1) : Walk(any)[n] = w
    BY DEF Passes
<1>2. Ended(Walk(any)[Len(any) + 1])
    BY WalkEnds
<1>3. n # Len(any) + 1
    BY <1>1, <1>2, StandsOrEnded
<1>4. n + 1 \in 1..(Len(any) + 1) /\ n + 1 \in 0..(Len(any) + 1) /\ n + 1 - 1 = n
    BY <1>3
<1>5. Walk(any)[n + 1] = Turn(any, w)
    BY <1>1, <1>4, WalkUnfolds
<1> QED  BY <1>4, <1>5 DEF Passes

LEMMA PassesLast ==
    ASSUME NEW any \in Seq(AnyTokens), NEW how, how # "no", Passes(any, Halt(how))
    PROVE  Walk(any)[Len(any) + 1].end = how
<1>1. PICK n \in 0..(Len(any) + 1) : Walk(any)[n] = Halt(how)
    BY DEF Passes
<1>2. Walk(any)[n].end = how
    BY <1>1, HaltIs
<1>3. Walk(any)[Len(any) + 1] = Walk(any)[n]
    BY <1>2, WalkStays
<1> QED  BY <1>2, <1>3

----------------------------------------------------------------------------
\* A container with nothing left is passed by.
LEMMA NextValuePops ==
    ASSUME NEW any, NEW cur, NEW open \in Seq(Level), NEW map \in BOOLEAN
    PROVE  NextValue(any, At(cur, Append(open, [left |-> 0, map |-> map])))
             = NextValue(any, At(cur, open))
<1> DEFINE x == [left |-> 0, map |-> map]
           more == Append(open, x)
           t == Innermost(open)
<1>1. x \in Level /\ x.left = 0
    BY DEF Level
<1> HIDE DEF x
<1>2. /\ more \in Seq(Level) /\ Len(more) = Len(open) + 1 /\ Len(open) \in Nat
      /\ \A i \in 1..Len(open) : more[i] = open[i]
      /\ more[Len(open) + 1] = x
    BY <1>1, AppendProperties
<1>3. /\ t \in 0..Len(open)
      /\ t # 0 => open[t].left > 0
      /\ \A j \in 1..Len(open) : j > t => open[j].left = 0
    BY InnermostIs
<1> HIDE DEF more, t
<1>4. t \in 0..Len(more) /\ (t # 0 => more[t].left > 0)
    BY <1>2, <1>3
<1>5. \A j \in 1..Len(more) : j > t => more[j].left = 0
  <2> TAKE j \in 1..Len(more)
  <2>1. CASE j = Len(open) + 1
      BY <1>1, <1>2, <2>1
  <2>2. CASE j # Len(open) + 1
    <3>1. j \in 1..Len(open)
        BY <1>2, <2>2
    <3> QED  BY <1>2, <1>3, <3>1
  <2> QED  BY <2>1, <2>2
<1>6. Innermost(more) = t
    BY <1>2, <1>4, <1>5, InnermostOnly
<1>7. CASE t = 0
    BY <1>6, <1>7, NextValueIs DEF t, more, x
<1>8. CASE t # 0
  <2>1. t \in 1..Len(open) /\ t \in Nat
      BY <1>2, <1>3, <1>8
  <2>2. more[t] = open[t]
      BY <1>2, <2>1
  <2>3. SubSeq(more, 1, t) = SubSeq(open, 1, t)
    <3>1. \A i \in 1..t : more[i] = open[i]
        BY <1>2, <2>1
    <3> QED  BY <1>2, <2>1, <3>1
  <2>4. Left(more) = Left(open)
      BY <1>6, <2>3, Zenon DEF Left, t
  <2> DEFINE after(o, l) ==
               IF Innermost(o) = 0 THEN Halt("done")
               ELSE IF ~o[Innermost(o)].map THEN At(cur, Left(o))
               ELSE IF cur > Len(any) THEN Halt("error")
               ELSE IF any[cur] # "s" THEN Halt("error")
               ELSE At(cur + 1, Left(o))
  <2>5. NextValue(any, At(cur, more)) = after(more, 0) /\ NextValue(any, At(cur, open)) = after(open, 0)
      BY NextValueIs, Zenon
  <2>6. after(more, 0) = after(open, 0)
      BY <1>6, <2>2, <2>4, Zenon DEF t
  <2> HIDE DEF after
  <2> QED  BY <2>5, <2>6, Zenon DEF more, x
<1> QED  BY <1>7, <1>8

\* A container with a value left gives it, behind its key in a map.
Takes(any, cur, open, left, map) ==
    IF ~map THEN At(cur, Append(open, [left |-> left - 1, map |-> map]))
    ELSE IF cur > Len(any) THEN Halt("error")
    ELSE IF any[cur] # "s" THEN Halt("error")
    ELSE At(cur + 1, Append(open, [left |-> left - 1, map |-> map]))

LEMMA NextValueTakes ==
    ASSUME NEW any, NEW cur, NEW open \in Seq(Level), NEW map \in BOOLEAN, NEW left \in Nat, left # 0
    PROVE  NextValue(any, At(cur, Append(open, [left |-> left, map |-> map])))
             = Takes(any, cur, open, left, map)
<1> DEFINE x == [left |-> left, map |-> map]
           y == [left |-> left - 1, map |-> map]
           more == Append(open, x)
           t == Len(open) + 1
<1>1. x \in Level /\ x.left = left /\ x.map = map /\ y \in Level /\ y = [x EXCEPT !.left = @ - 1]
    BY DEF Level
<1> HIDE DEF x, y
<1>2. /\ more \in Seq(Level) /\ Len(more) = Len(open) + 1 /\ Len(open) \in Nat
      /\ \A i \in 1..Len(open) : more[i] = open[i]
      /\ more[Len(open) + 1] = x
    BY <1>1, AppendProperties
<1> HIDE DEF more
<1>3. Innermost(more) = t
  <2>1. t \in 0..Len(more) /\ more[t].left > 0 /\ \A j \in 1..Len(more) : j > t => more[j].left = 0
      BY <1>1, <1>2
  <2> HIDE DEF t
  <2> QED  BY <1>2, <2>1, InnermostOnly
<1>4. Left(more) = Append(open, y)
  <2>1. SubSeq(more, 1, t) = more
      BY <1>2, SubSeqFull
  <2>2. Left(more) = [more EXCEPT ![t] = [more[t] EXCEPT !.left = @ - 1]]
    <3> HIDE DEF t
    <3> QED  BY <1>3, <2>1 DEF Left
  <2>3. Left(more) = [more EXCEPT ![t] = y]
      BY <1>1, <1>2, <2>2
  <2>4. t \in 1..Len(more)
      BY <1>2
  <2>5. /\ [more EXCEPT ![t] = y] \in Seq(Level)
        /\ Len([more EXCEPT ![t] = y]) = Len(more)
        /\ \A j \in 1 .. Len(more) : [more EXCEPT ![t] = y][j] = IF j = t THEN y ELSE more[j]
      BY <1>1, <1>2, <2>4, ExceptSeq
  <2>6. /\ Append(open, y) \in Seq(Level) /\ Len(Append(open, y)) = Len(open) + 1
        /\ \A i \in 1..Len(open) : Append(open, y)[i] = open[i]
        /\ Append(open, y)[Len(open) + 1] = y
      BY <1>1, AppendProperties
  <2>7. \A j \in 1..Len(more) : [more EXCEPT ![t] = y][j] = Append(open, y)[j]
      BY <1>2, <2>5, <2>6
  <2>8. [more EXCEPT ![t] = y] = Append(open, y)
      BY <1>2, <2>5, <2>6, <2>7, SeqEqual
  <2> QED  BY <2>3, <2>8
<1>5. t # 0 /\ more[t].map = map
    BY <1>1, <1>2
<1> HIDE DEF t
<1>6. NextValue(any, At(cur, more)) =
        IF Innermost(more) = 0 THEN Halt("done")
        ELSE IF ~more[Innermost(more)].map THEN At(cur, Left(more))
        ELSE IF cur > Len(any) THEN Halt("error")
        ELSE IF any[cur] # "s" THEN Halt("error")
        ELSE At(cur + 1, Left(more))
    BY NextValueIs, Zenon
<1>7. NextValue(any, At(cur, more)) =
        IF ~map THEN At(cur, Append(open, y))
        ELSE IF cur > Len(any) THEN Halt("error")
        ELSE IF any[cur] # "s" THEN Halt("error")
        ELSE At(cur + 1, Append(open, y))
    BY <1>3, <1>4, <1>5, <1>6
<1> QED  BY <1>7, Zenon DEF more, x, y, Takes
----------------------------------------------------------------------------
\* What the walk comes to when yrs's read r of a value, or of the values of a
\* container, begins with depth containers open and returns to the ones in open.
Follows(any, r, open, depth) ==
    /\ r.height + depth > MaxAnyDepth => Passes(any, Halt("deeper"))
    /\ r.height + depth <= MaxAnyDepth /\ ~r.ok => Passes(any, Halt("error"))
    /\ r.height + depth <= MaxAnyDepth /\ r.ok => Passes(any, NextValue(any, At(r.cur, open)))

FollowsValue(any, cur) ==
    \A open \in Seq(Level) :
        Len(open) <= MaxAnyDepth /\ Passes(any, At(cur, open)) =>
            Follows(any, Decoded(any, Elements(any), cur), open, Len(open))

FollowsElements(any, cur) ==
    \A open \in Seq(Level), left \in Nat, map \in BOOLEAN :
        /\ Len(open) + 1 <= MaxAnyDepth
        /\ Passes(any, NextValue(any, At(cur, Append(open, [left |-> left, map |-> map]))))
        => Follows(any, Elements(any)[cur][<<left, map>>], open, Len(open) + 1)

LEMMA FollowsEnd ==
    ASSUME NEW any, NEW cur, NEW height \in Nat, NEW open, NEW depth \in Nat,
           IF height + depth > MaxAnyDepth THEN Passes(any, Halt("deeper"))
                                           ELSE Passes(any, Halt("error"))
    PROVE  Follows(any, Came(FALSE, cur, height), open, depth)
<1> DEFINE r == Came(FALSE, cur, height)
<1>1. r.height = height
    BY DEF Came
<1>2. ~r.ok
    BY CameFails
<1> HIDE DEF r
<1>3. MaxAnyDepth \in Nat
    BY StreamsAssumption
<1>4. ASSUME r.height + depth > MaxAnyDepth  PROVE Passes(any, Halt("deeper"))
    BY <1>1, <1>4
<1>5. ASSUME r.height + depth <= MaxAnyDepth  PROVE Passes(any, Halt("error"))
  <2>1. ~(height + depth > MaxAnyDepth)
      BY <1>1, <1>3, <1>5
  <2> QED  BY <2>1
<1>6. Follows(any, r, open, depth)
    BY <1>2, <1>4, <1>5, Zenon DEF Follows
<1> QED  BY <1>6 DEF r

LEMMA FollowsOn ==
    ASSUME NEW any, NEW cur, NEW height \in Nat, NEW open, NEW depth \in Nat,
           height + depth <= MaxAnyDepth, Passes(any, NextValue(any, At(cur, open)))
    PROVE  Follows(any, Came(TRUE, cur, height), open, depth)
<1> DEFINE r == Came(TRUE, cur, height)
<1>1. r.height = height /\ r.cur = cur
    BY DEF Came
<1>2. r.ok
    BY DEF Came
<1> HIDE DEF r
<1>3. MaxAnyDepth \in Nat
    BY StreamsAssumption
<1>4. ~(r.height + depth > MaxAnyDepth)
    BY <1>1, <1>3
<1>5. Passes(any, NextValue(any, At(r.cur, open)))
    BY <1>1
<1>6. Follows(any, r, open, depth)
    BY <1>2, <1>4, <1>5, Zenon DEF Follows
<1> QED  BY <1>6 DEF r

\* The walk where a value begins, by the token.
LEMMA PassesToken ==
    ASSUME NEW any \in Seq(AnyTokens), NEW cur, NEW open, Passes(any, At(cur, open)),
           NEW one, one = ReadOne(any, At(cur, open))
    PROVE  Passes(any, IF one.end # "no" THEN one ELSE NextValue(any, one))
<1>1. At(cur, open).end = "no"
    BY AtIs
<1>2. Passes(any, Turn(any, At(cur, open)))
    BY <1>1, PassesOn
<1>3. Turn(any, At(cur, open)) = IF one.end # "no" THEN one ELSE NextValue(any, one)
    BY <1>1, Zenon DEF Turn
<1> QED  BY <1>2, <1>3

LEMMA ValueFollows ==
    ASSUME NEW any \in Seq(AnyTokens), NEW cur \in 1..(Len(any) + 1),
           \A k \in (cur + 1)..(Len(any) + 1) : FollowsElements(any, k)
    PROVE  FollowsValue(any, cur)
<1> SUFFICES ASSUME NEW open \in Seq(Level), Len(open) <= MaxAnyDepth, Passes(any, At(cur, open))
             PROVE  Follows(any, Decoded(any, Elements(any), cur), open, Len(open))
    BY DEF FollowsValue
<1> DEFINE depth == Len(open)
           one == ReadOne(any, At(cur, open))
           r == Decoded(any, Elements(any), cur)
<1>0. Len(any) \in Nat /\ cur \in Nat /\ depth \in Nat /\ MaxAnyDepth \in Nat /\ depth <= MaxAnyDepth
    BY StreamsAssumption
<1>1. Passes(any, IF one.end # "no" THEN one ELSE NextValue(any, one))
    BY PassesToken
<1>2. one = IF cur > Len(any) THEN Halt("error")
            ELSE IF any[cur] = "null" THEN At(cur + 1, open)
            ELSE IF any[cur] \notin {"arr", "map"} THEN Halt("error")
            ELSE IF depth >= MaxAnyDepth THEN Halt("deeper")
            ELSE IF cur = Len(any) THEN Halt("error")
            ELSE IF any[cur + 1] \notin DOMAIN Lengths THEN Halt("error")
            ELSE At(cur + 2,
                    Append(open, [left |-> Lengths[any[cur + 1]], map |-> any[cur] = "map"]))
    BY ReadOneIs, Zenon
<1> HIDE DEF one, depth
<1>3. ASSUME NEW how, how # "no", one = Halt(how)  PROVE Passes(any, Halt(how))
  <2>1. one.end # "no"
      BY <1>3, HaltIs
  <2> QED  BY <1>1, <1>3, <2>1
<1>4. ASSUME NEW c, NEW o, one = At(c, o)  PROVE Passes(any, NextValue(any, At(c, o)))
  <2>1. one.end = "no"
      BY <1>4, AtIs
  <2> QED  BY <1>1, <1>4, <2>1
<1>5. CASE cur > Len(any) \/ (any[cur] # "null" /\ any[cur] \notin {"arr", "map"})
  <2>1. r = Came(FALSE, cur, 0)
      BY <1>5 DEF Decoded
  <2>2. one = Halt("error")
      BY <1>2, <1>5
  <2>3. Passes(any, Halt("error"))
      BY <1>3, <2>2
  <2>4. ~(0 + depth > MaxAnyDepth)
      BY <1>0
  <2>5. Follows(any, Came(FALSE, cur, 0), open, depth)
      BY <1>0, <2>3, <2>4, FollowsEnd
  <2> QED  BY <2>1, <2>5 DEF depth
<1>6. CASE ~(cur > Len(any)) /\ any[cur] = "null"
  <2>1. r = Came(TRUE, cur + 1, 0)
      BY <1>6 DEF Decoded
  <2>2. one = At(cur + 1, open)
      BY <1>2, <1>6
  <2>3. Passes(any, NextValue(any, At(cur + 1, open)))
      BY <1>4, <2>2
  <2>4. 0 + depth <= MaxAnyDepth
      BY <1>0
  <2>5. Follows(any, Came(TRUE, cur + 1, 0), open, depth)
      BY <1>0, <2>3, <2>4, FollowsOn
  <2> QED  BY <2>1, <2>5 DEF depth
<1>7. CASE /\ ~(cur > Len(any)) /\ any[cur] \in {"arr", "map"}
           /\ cur = Len(any) \/ any[cur + 1] \notin DOMAIN Lengths
  <2>1. r = Came(FALSE, cur, 1)
      BY <1>7 DEF Decoded
  <2>2. one = IF depth >= MaxAnyDepth THEN Halt("deeper") ELSE Halt("error")
      BY <1>2, <1>7
  <2>3. IF 1 + depth > MaxAnyDepth THEN Passes(any, Halt("deeper")) ELSE Passes(any, Halt("error"))
    <3>1. CASE depth >= MaxAnyDepth
      <4>1. Passes(any, Halt("deeper"))
          BY <1>3, <2>2, <3>1
      <4>2. 1 + depth > MaxAnyDepth
          BY <1>0, <3>1
      <4> QED  BY <4>1, <4>2
    <3>2. CASE ~(depth >= MaxAnyDepth)
      <4>1. Passes(any, Halt("error"))
          BY <1>3, <2>2, <3>2
      <4>2. ~(1 + depth > MaxAnyDepth)
          BY <1>0, <3>2
      <4> QED  BY <4>1, <4>2
    <3> QED  BY <3>1, <3>2
  <2>4. Follows(any, Came(FALSE, cur, 1), open, depth)
      BY <1>0, <2>3, FollowsEnd
  <2> QED  BY <2>1, <2>4 DEF depth
<1>8. CASE /\ ~(cur > Len(any)) /\ any[cur] \in {"arr", "map"}
           /\ cur # Len(any) /\ any[cur + 1] \in DOMAIN Lengths
  <2> DEFINE left == Lengths[any[cur + 1]]
             map == any[cur] = "map"
             e == Elements(any)[cur + 2][<<left, map>>]
  <2>1. r = Came(e.ok, e.cur, e.height + 1)
      BY <1>8 DEF Decoded
  <2>2. left \in Nat /\ map \in BOOLEAN
      BY <1>8, StreamsAssumption
  <2>3. one = IF depth >= MaxAnyDepth THEN Halt("deeper")
              ELSE At(cur + 2, Append(open, [left |-> left, map |-> map]))
      BY <1>2, <1>8
  <2>4. cur + 2 \in (cur + 1)..(Len(any) + 1) /\ cur + 2 \in (0 + 1)..(Len(any) + 1)
      BY <1>0, <1>8
  <2> HIDE DEF left, map
  <2>5. <<left, map>> \in Calls
      BY <2>2 DEF Calls
  <2>6. Past(any, 0, Elements(any))
      BY ElementsUnfold
  <2>7. Good(any, cur + 2, e)
      BY <2>4, <2>5, <2>6 DEF Past
  <2>8. FollowsElements(any, cur + 2)
      BY <2>4
  <2> DEFINE w == NextValue(any, At(cur + 2, Append(open, [left |-> left, map |-> map])))
  <2>9. ASSUME depth + 1 <= MaxAnyDepth, Passes(any, w)
        PROVE  Follows(any, e, open, depth + 1)
      BY <2>2, <2>8, <2>9 DEF FollowsElements, depth
  <2> HIDE DEF e, r
  <2>10. r.height = e.height + 1 /\ r.cur = e.cur /\ r.ok = e.ok
      BY <2>1, CameIs
  <2>11. e.height \in Nat
      BY <2>7 DEF Good
  <2>12. CASE depth >= MaxAnyDepth
    <3>1. Passes(any, Halt("deeper"))
        BY <1>3, <2>3, <2>12
    <3>2. ~(r.height + depth <= MaxAnyDepth)
        BY <1>0, <2>10, <2>11, <2>12
    <3>3. Follows(any, r, open, depth)
        BY <3>1, <3>2, Zenon DEF Follows
    <3> QED  BY <3>3 DEF r, depth
  <2>13. CASE ~(depth >= MaxAnyDepth)
    <3>1. Passes(any, w)
        BY <1>4, <2>3, <2>13
    <3>2. depth + 1 <= MaxAnyDepth
        BY <1>0, <2>13
    <3>3. Follows(any, e, open, depth + 1)
        BY <2>9, <3>1, <3>2
    <3>4. e.height + (depth + 1) = r.height + depth
        BY <1>0, <2>10, <2>11
    <3>5. Follows(any, r, open, depth)
        BY <2>10, <3>3, <3>4, Zenon DEF Follows
    <3> QED  BY <3>5 DEF r, depth
  <2> QED  BY <2>12, <2>13
<1> QED  BY <1>5, <1>6, <1>7, <1>8
LEMMA ElementsFollow ==
    ASSUME NEW any \in Seq(AnyTokens), NEW cur \in 1..(Len(any) + 1),
           \A k \in (cur + 1)..(Len(any) + 1) : FollowsElements(any, k)
    PROVE  FollowsElements(any, cur)
<1> DEFINE all == Elements(any)
           next(left, map, open) == NextValue(any, At(cur, Append(open, [left |-> left, map |-> map])))
<1> SUFFICES ASSUME NEW open \in Seq(Level), NEW left \in Nat, NEW map \in BOOLEAN,
                    Len(open) + 1 <= MaxAnyDepth, Passes(any, next(left, map, open))
             PROVE  Follows(any, all[cur][<<left, map>>], open, Len(open) + 1)
    BY DEF FollowsElements
<1> DEFINE depth == Len(open) + 1
           e == all[cur][<<left, map>>]
<1>0. Len(any) \in Nat /\ cur \in Nat /\ depth \in Nat /\ MaxAnyDepth \in Nat /\ depth <= MaxAnyDepth
    BY StreamsAssumption
<1>1. e = TheElements(any, all, cur, left, map)
  <2>1. <<left, map>> \in Calls
      BY DEF Calls
  <2>2. all[cur] = Row(any, all, cur)
      BY ElementsUnfold
  <2> HIDE DEF all
  <2> QED  BY <2>1, <2>2 DEF Row
<1>2. Past(any, 0, all)
    BY ElementsUnfold
<1> HIDE DEF all, e
<1>3. CASE left = 0
  <2>1. e = Came(TRUE, cur, 0)
      BY <1>1, <1>3 DEF TheElements
  <2>2. Passes(any, NextValue(any, At(cur, open)))
      BY <1>3, NextValuePops
  <2>3. 0 + depth <= MaxAnyDepth
      BY <1>0
  <2> HIDE DEF depth
  <2>4. Follows(any, Came(TRUE, cur, 0), open, depth)
      BY <1>0, <2>2, <2>3, FollowsOn
  <2> QED  BY <2>1, <2>4 DEF e, depth
<1>4. CASE left # 0
  <2> DEFINE more == Append(open, [left |-> left - 1, map |-> map])
  <2>1. next(left, map, open) = Takes(any, cur, open, left, map)
      BY <1>4, NextValueTakes
  <2>1a. next(left, map, open) =
             IF ~map THEN At(cur, more)
             ELSE IF cur > Len(any) THEN Halt("error")
             ELSE IF any[cur] # "s" THEN Halt("error")
             ELSE At(cur + 1, more)
      BY <2>1, Zenon DEF Takes
  <2>2. Passes(any, next(left, map, open))
      OBVIOUS
  <2> HIDE DEF next
  <2>3. [left |-> left - 1, map |-> map] \in Level
      BY <1>4 DEF Level
  <2>4. more \in Seq(Level) /\ Len(more) = depth
      BY <2>3, AppendProperties
  <2>5. CASE map /\ (cur > Len(any) \/ any[cur] # "s")
    <3>1. e = Came(FALSE, cur, 0)
        BY <1>1, <1>4, <2>5 DEF TheElements
    <3>2. Passes(any, Halt("error"))
        BY <2>1a, <2>2, <2>5
    <3>3. ~(0 + depth > MaxAnyDepth)
        BY <1>0
    <3> HIDE DEF depth
    <3>4. Follows(any, Came(FALSE, cur, 0), open, depth)
        BY <1>0, <3>2, <3>3, FollowsEnd
    <3> QED  BY <3>1, <3>4 DEF e, depth
  <2>6. CASE ~(map /\ (cur > Len(any) \/ any[cur] # "s"))
    <3> DEFINE q == IF map THEN cur + 1 ELSE cur
               v == Decoded(any, all, q)
    <3>1. q \in 1..(Len(any) + 1) /\ q >= cur
        BY <1>0, <2>6
    <3>2. Passes(any, At(q, more))
        BY <2>1a, <2>2, <2>6
    <3>3. \A k \in (q + 1)..(Len(any) + 1) : FollowsElements(any, k)
      <4>1. \A k \in (q + 1)..(Len(any) + 1) : k \in (cur + 1)..(Len(any) + 1)
          BY <1>0, <3>1
      <4> QED  BY <4>1
    <3>4. Past(any, q, all)
      <4>1. \A k \in (q + 1)..(Len(any) + 1) : k \in (0 + 1)..(Len(any) + 1)
          BY <1>0, <3>1
      <4> QED  BY <1>2, <4>1 DEF Past
    <3>5. /\ e = IF ~v.ok THEN v
                 ELSE LET others == all[v.cur][<<left - 1, map>>]
                      IN Came(others.ok, others.cur,
                              IF v.height > others.height THEN v.height ELSE others.height)
        BY <1>1, <1>4, <2>6 DEF TheElements
    <3> HIDE DEF q, more
    <3>6. Good(any, q, v) /\ (v.ok => v.cur > q)
        BY <3>1, <3>4, DecodedType
    <3>7. FollowsValue(any, q)
        BY <3>1, <3>3, ValueFollows
    <3>8. Follows(any, v, more, depth)
        BY <1>0, <2>4, <3>2, <3>7 DEF FollowsValue, all
    <3> HIDE DEF v, depth
    <3>9. v.height \in Nat /\ v.cur \in q..(Len(any) + 1)
        BY <3>6 DEF Good
    <3>10. CASE ~v.ok
      <4>1. e = v
          BY <3>5, <3>10
      <4>2. Follows(any, v, open, depth)
          BY <3>8, <3>10, Zenon DEF Follows
      <4> QED  BY <4>1, <4>2 DEF e, depth
    <3>11. CASE v.ok
      <4> DEFINE o == all[v.cur][<<left - 1, map>>]
      <4>1. e = Came(o.ok, o.cur, IF v.height > o.height THEN v.height ELSE o.height)
          BY <3>5, <3>11
      <4>2. v.cur \in (cur + 1)..(Len(any) + 1) /\ v.cur \in (0 + 1)..(Len(any) + 1)
          BY <1>0, <3>1, <3>6, <3>9, <3>11
      <4>3. left - 1 \in Nat /\ <<left - 1, map>> \in Calls
          BY <1>4 DEF Calls
      <4>4. Good(any, v.cur, o)
          BY <1>2, <4>2, <4>3 DEF Past
      <4>5. FollowsElements(any, v.cur)
          BY <4>2
      <4>6. ASSUME Passes(any, NextValue(any, At(v.cur, more)))  PROVE Follows(any, o, open, depth)
        <5>1. Passes(any, NextValue(any, At(v.cur, Append(open, [left |-> left - 1, map |-> map]))))
            BY <4>6 DEF more
        <5> QED  BY <4>3, <4>5, <5>1 DEF FollowsElements, all, depth
      <4> HIDE DEF o
      <4>7. o.height \in Nat
          BY <4>4 DEF Good
      <4>8. /\ e.ok = o.ok /\ e.cur = o.cur
            /\ e.height = IF v.height > o.height THEN v.height ELSE o.height
          BY <4>1, CameIs
      <4>9. CASE v.height + depth > MaxAnyDepth
        <5>1. Passes(any, Halt("deeper"))
            BY <3>8, <4>9 DEF Follows
        <5>2. ~(e.height + depth <= MaxAnyDepth)
            BY <1>0, <3>9, <4>7, <4>8, <4>9
        <5>3. Follows(any, e, open, depth)
            BY <5>1, <5>2, Zenon DEF Follows
        <5> QED  BY <5>3 DEF e, depth
      <4>10. CASE ~(v.height + depth > MaxAnyDepth)
        <5>1. v.height + depth <= MaxAnyDepth
            BY <1>0, <3>9, <4>10
        <5>2. Passes(any, NextValue(any, At(v.cur, more)))
            BY <3>8, <3>11, <5>1, Zenon DEF Follows
        <5>3. Follows(any, o, open, depth)
            BY <4>6, <5>2
        <5>4. /\ e.height + depth > MaxAnyDepth <=> o.height + depth > MaxAnyDepth
              /\ e.height + depth <= MaxAnyDepth <=> o.height + depth <= MaxAnyDepth
            BY <1>0, <3>9, <4>7, <4>8, <5>1
        <5>5. Follows(any, e, open, depth)
            BY <4>8, <5>3, <5>4, Zenon DEF Follows
        <5> QED  BY <5>5 DEF e, depth
      <4> QED  BY <4>9, <4>10
    <3> QED  BY <3>10, <3>11
  <2> QED  BY <2>5, <2>6
<1> QED  BY <1>3, <1>4

LEMMA WalkFollows ==
    ASSUME NEW any \in Seq(AnyTokens)
    PROVE  FollowsValue(any, 1)
<1> DEFINE top == Len(any) + 1
           T == {m \in Nat : m <= top => \A k \in (top - m + 1)..top : FollowsElements(any, k)}
<1>0. top \in Nat /\ Len(any) \in Nat
    OBVIOUS
<1>1. 0 \in T
    BY <1>0
<1>2. ASSUME NEW m \in Nat, m \in T  PROVE m + 1 \in T
  <2> SUFFICES ASSUME m + 1 <= top, NEW k \in (top - (m + 1) + 1)..top  PROVE FollowsElements(any, k)
      OBVIOUS
  <2>1. \A j \in (top - m + 1)..top : FollowsElements(any, j)
      BY <1>0, <1>2
  <2>2. CASE k \in (top - m + 1)..top
      BY <2>1, <2>2
  <2>3. CASE k \notin (top - m + 1)..top
    <3>1. k \in 1..(Len(any) + 1) /\ k = top - m
        BY <1>0, <2>3
    <3>2. \A j \in (k + 1)..(Len(any) + 1) : FollowsElements(any, j)
        BY <2>1, <3>1
    <3> QED  BY <3>1, <3>2, ElementsFollow
  <2> QED  BY <2>2, <2>3
<1> HIDE DEF T
<1>3. Nat \subseteq T
    BY <1>1, <1>2, Induction
<1>4. top \in T
    BY <1>0, <1>3
<1>5. \A k \in (top - top + 1)..top : FollowsElements(any, k)
    BY <1>0, <1>4 DEF T
<1>6. \A k \in (1 + 1)..(Len(any) + 1) : FollowsElements(any, k)
  <2>1. \A k \in (1 + 1)..(Len(any) + 1) : k \in (top - top + 1)..top
      BY <1>0
  <2> QED  BY <1>5, <2>1
<1>7. 1 \in 1..(Len(any) + 1)
    BY <1>0
<1> QED  BY <1>6, <1>7, ValueFollows

LEMMA HeightType ==
    ASSUME NEW any \in Seq(AnyTokens)
    PROVE  Recursed(any).height \in Nat
<1>1. Past(any, 0, Elements(any)) /\ 1 \in 1..(Len(any) + 1)
    BY ElementsUnfold
<1>2. \A k \in (1 + 1)..(Len(any) + 1) : k \in (0 + 1)..(Len(any) + 1)
    OBVIOUS
<1>3. Past(any, 1, Elements(any))
    BY <1>1, <1>2 DEF Past
<1>4. Good(any, 1, Decoded(any, Elements(any), 1))
    BY <1>1, <1>3, DecodedType
<1> QED  BY <1>4 DEF Good, Recursed

\* The walk says deeper of exactly the bytes in which yrs would go past the bound.
LEMMA WalkIsExact ==
    ASSUME NEW any \in Seq(AnyTokens)
    PROVE  DeeperThanBound(any) <=> Recursed(any).height > MaxAnyDepth
<1> DEFINE r == Recursed(any)
           last == Walk(any)[Len(any) + 1].end
<1>1. Passes(any, At(1, <<>>))
  <2>1. 0 \in 0..(Len(any) + 1)
      OBVIOUS
  <2> QED  BY <2>1, WalkUnfolds DEF Passes
<1>2. <<>> \in Seq(Level) /\ Len(<<>>) = 0 /\ MaxAnyDepth \in Nat
    BY StreamsAssumption
<1>3. Follows(any, r, <<>>, 0)
  <2>1. FollowsValue(any, 1)
      BY WalkFollows
  <2>2. Len(<<>>) <= MaxAnyDepth
      BY <1>2
  <2>3. Follows(any, Decoded(any, Elements(any), 1), <<>>, Len(<<>>))
      BY <1>1, <1>2, <2>1, <2>2 DEF FollowsValue
  <2> QED  BY <1>2, <2>3 DEF Recursed
<1>4. r.height \in Nat
    BY HeightType
<1> HIDE DEF r
<1>5. CASE r.height > MaxAnyDepth
  <2>1. r.height + 0 > MaxAnyDepth
      BY <1>4, <1>5
  <2>2. Passes(any, Halt("deeper"))
      BY <1>3, <2>1 DEF Follows
  <2>3. last = "deeper"
      BY <2>2, PassesLast
  <2> QED  BY <1>5, <2>3 DEF DeeperThanBound, r
<1>6. CASE ~(r.height > MaxAnyDepth)
  <2>1. r.height + 0 <= MaxAnyDepth
      BY <1>2, <1>4, <1>6
  <2>2. CASE ~r.ok
    <3>1. Passes(any, Halt("error"))
        BY <1>3, <2>1, <2>2 DEF Follows
    <3>2. last = "error"
        BY <3>1, PassesLast
    <3> QED  BY <1>6, <3>2 DEF DeeperThanBound, r
  <2>3. CASE r.ok
    <3>1. Passes(any, NextValue(any, At(r.cur, <<>>)))
        BY <1>3, <2>1, <2>3 DEF Follows
    <3>2. Innermost(<<>>) = 0
        BY <1>2 DEF Innermost
    <3>3. NextValue(any, At(r.cur, <<>>)) = Halt("done")
        BY <3>2, NextValueIs, Zenon
    <3>4. Passes(any, Halt("done"))
        BY <3>1, <3>3
    <3>5. last = "done"
        BY <3>4, PassesLast
    <3> QED  BY <1>6, <3>5 DEF DeeperThanBound, r
  <2> QED  BY <2>2, <2>3
<1> QED  BY <1>5, <1>6
----------------------------------------------------------------------------
StreamTypes ==
    /\ Len(messages) \in Nat
    /\ \A i \in 1..Len(messages) : messages[i].any \in Seq(AnyTokens)
    /\ at \in Nat /\ applied \in Nat
    /\ deepest \in Nat /\ deepest <= MaxAnyDepth

\* The applier reads what was accepted, and is behind no bytes the judges stopped at.
AppliesWhatWasSeen ==
    at > 0 => verdict = "accepted" /\ \A j \in 1..Len(messages) : j < at => messages[j].kind # "unread"

AcceptedIsJudged == verdict = "accepted" /\ sender = "viewer" => ~IsContent(messages)

ViewersApplyNothing == sender = "viewer" => applied = 0

RefusedForDepth ==
    verdict = "bad_payload" =>
        \E i \in 1..Len(messages) : messages[i].kind = "update" /\ DeeperThanBound(messages[i].any)

StreamInv ==
    StreamTypes /\ AppliesWhatWasSeen /\ AcceptedIsJudged /\ ViewersApplyNothing /\ RefusedForDepth

LEMMA SomeMessagesType ==
    ASSUME NEW m \in SomeMessages
    PROVE  m.any \in Seq(AnyTokens)
<1>1. One \in AnyTokens /\ {"arr", "null", "s"} \subseteq AnyTokens
    BY StreamsAssumption DEF One, AnyTokens, Tags
<1>2. Flat \in Seq(AnyTokens)
    BY <1>1 DEF Flat
<1>3. Torn \in Seq(AnyTokens)
    BY <1>1 DEF Torn
<1>4. Nested(MaxAnyDepth + 1) \in Seq(AnyTokens)
  <2> DEFINE n == 2 * (MaxAnyDepth + 1) + 1
             e(i) == IF i = n THEN "null" ELSE IF i % 2 = 1 THEN "arr" ELSE One
  <2>1. n \in Nat
      BY StreamsAssumption
  <2>2. Nested(MaxAnyDepth + 1) = [i \in 1..n |-> e(i)]
      BY DEF Nested
  <2>3. \A i \in 1..n : e(i) \in AnyTokens
    <3> HIDE DEF n
    <3> QED  BY <1>1
  <2>4. [i \in 1..n |-> e(i)] \in [1..n -> AnyTokens]
    <3> HIDE DEF n, e
    <3> QED  BY <2>3
  <2> HIDE DEF n, e
  <2> QED  BY <2>1, <2>2, <2>4, SeqDef
<1>5. ASSUME NEW a  PROVE Update(a).any = a
    BY DEF Update
<1>6. ASSUME NEW k  PROVE Other(k).any = <<>>
    BY DEF Other
<1>7. CASE m \in {Update(Flat), Update(Torn), Update(Nested(MaxAnyDepth + 1))}
    BY <1>2, <1>3, <1>4, <1>5, <1>7
<1>8. CASE m \in {Other(k) : k \in {"step1", "awareness", "stale", "auth", "query", "custom", "unread"}}
  <2>1. m.any = <<>>
      BY <1>6, <1>8
  <2> QED  BY <2>1
<1> QED  BY <1>7, <1>8 DEF SomeMessages

LEMMA StreamStarts ==
    ASSUME StreamInit
    PROVE  StreamInv
<1>1. Len(messages) \in Nat /\ \A i \in 1..Len(messages) : messages[i].any \in Seq(AnyTokens)
  <2>1. CASE messages \in UNION {[1..n -> SomeMessages] : n \in 1..MaxMessages}
    <3>1. PICK n \in 1..MaxMessages : messages \in [1..n -> SomeMessages]
        BY <2>1
    <3>2. n \in Nat
        BY StreamsAssumption
    <3>3. messages \in Seq(SomeMessages)
        BY <3>1, <3>2, SeqDef
    <3>4. Len(messages) \in Nat /\ \A i \in 1..Len(messages) : messages[i] \in SomeMessages
        BY <3>3, ElementOfSeq
    <3> QED  BY <3>4, SomeMessagesType
  <2>2. CASE messages \in {<<Update(any)>> : any \in AnyBytes}
    <3>1. PICK any \in AnyBytes : messages = <<Update(any)>>
        BY <2>2
    <3>2. PICK n \in 1..MaxAnyBytes : any \in [1..n -> AnyTokens]
        BY DEF AnyBytes
    <3>3. n \in Nat
        BY StreamsAssumption
    <3>4. any \in Seq(AnyTokens)
        BY <3>2, <3>3, SeqDef
    <3>5. Update(any).any = any
        BY DEF Update
    <3>6. Len(messages) = 1 /\ messages[1] = Update(any)
        BY <3>1
    <3> QED  BY <3>4, <3>5, <3>6
  <2> DEFINE A == UNION {[1..n -> SomeMessages] : n \in 1..MaxMessages}
             B == {<<Update(any)>> : any \in AnyBytes}
  <2>3. messages \in A \cup B
      BY Zenon DEF StreamInit
  <2> HIDE DEF A, B
  <2>4. messages \in A \/ messages \in B
      BY <2>3
  <2> QED  BY <2>1, <2>2, <2>4, Zenon DEF A, B
<1>2. StreamTypes
    BY <1>1, StreamsAssumption DEF StreamInit, StreamTypes
<1>3. AppliesWhatWasSeen /\ AcceptedIsJudged /\ ViewersApplyNothing /\ RefusedForDepth
    BY DEF StreamInit, AppliesWhatWasSeen, AcceptedIsJudged, ViewersApplyNothing, RefusedForDepth
<1> QED  BY <1>2, <1>3 DEF StreamInv

LEMMA JudgeKeeps ==
    ASSUME StreamInv, Judge
    PROVE  StreamInv'
<1>0. /\ verdict = "none" /\ messages' = messages /\ sender' = sender
      /\ applied' = applied /\ deepest' = deepest
      /\ at' = IF verdict' = "accepted" THEN 1 ELSE 0
      /\ verdict' = IF NestsTooDeep(messages) THEN "bad_payload"
                    ELSE IF IsContent(messages) /\ sender = "viewer" THEN "unauthorised_content"
                    ELSE "accepted"
    BY DEF Judge
<1>1. StreamTypes'
    BY <1>0 DEF StreamInv, StreamTypes
<1>2. AppliesWhatWasSeen'
  <2> SUFFICES ASSUME at' > 0
               PROVE  verdict' = "accepted" /\ \A j \in 1..Len(messages) : j < at' => messages[j].kind # "unread"
      BY <1>0 DEF AppliesWhatWasSeen
  <2>1. verdict' = "accepted" /\ at' = 1
      BY <1>0
  <2> QED  BY <2>1
<1>3. AcceptedIsJudged'
  <2> SUFFICES ASSUME verdict' = "accepted", sender = "viewer"  PROVE ~IsContent(messages)
    <3>1. IsContent(messages)' <=> IsContent(messages)
        BY <1>0 DEF IsContent, Seen
    <3> QED  BY <1>0, <3>1 DEF AcceptedIsJudged
  <2> QED  BY <1>0
<1>4. ViewersApplyNothing'
    BY <1>0 DEF StreamInv, ViewersApplyNothing
<1>5. RefusedForDepth'
  <2> SUFFICES ASSUME verdict' = "bad_payload"
               PROVE  \E i \in 1..Len(messages) : messages[i].kind = "update" /\ DeeperThanBound(messages[i].any)
    <3>1. (\E i \in 1..Len(messages) : messages[i].kind = "update" /\ DeeperThanBound(messages[i].any))'
            <=> \E i \in 1..Len(messages) : messages[i].kind = "update" /\ DeeperThanBound(messages[i].any)
        BY <1>0
    <3> QED  BY <3>1 DEF RefusedForDepth
  <2>1. NestsTooDeep(messages)
      BY <1>0
  <2>2. PICK i \in Seen(messages, {"custom", "unread"}) :
            messages[i].kind = "update" /\ DecodeUpdate(messages[i].any) = "TooDeep"
      BY <2>1 DEF NestsTooDeep
  <2>3. i \in 1..Len(messages)
      BY DEF Seen
  <2>4. DeeperThanBound(messages[i].any)
      BY <2>2 DEF DecodeUpdate
  <2> QED  BY <2>2, <2>3, <2>4
<1> QED  BY <1>1, <1>2, <1>3, <1>4, <1>5 DEF StreamInv

LEMMA ReadMessageKeeps ==
    ASSUME StreamInv, ReadMessage
    PROVE  StreamInv'
<1>0. /\ at \in 1..Len(messages) /\ messages' = messages /\ sender' = sender /\ verdict' = verdict
      /\ deepest' = LET d == IF Message.kind = "update" /\ DecodeUpdate(Message.any) # "TooDeep"
                             THEN Recursed(Message.any).height ELSE 0
                    IN IF d > deepest THEN d ELSE deepest
    BY DEF ReadMessage
<1>1. PICK on \in GoesOn :
        /\ at' = IF on THEN at + 1 ELSE 0
        /\ applied' = applied + IF Message.kind = "update" /\ on THEN 1 ELSE 0
    BY DEF ReadMessage
<1>2. /\ Len(messages) \in Nat /\ at \in Nat /\ at > 0 /\ applied \in Nat /\ MaxAnyDepth \in Nat
      /\ Message.any \in Seq(AnyTokens) /\ deepest \in Nat /\ deepest <= MaxAnyDepth
      /\ \A i \in 1..Len(messages) : messages[i].any \in Seq(AnyTokens)
    BY <1>0, StreamsAssumption DEF StreamInv, StreamTypes, Message
<1>3. verdict = "accepted" /\ \A j \in 1..Len(messages) : j < at => messages[j].kind # "unread"
    BY <1>2 DEF StreamInv, AppliesWhatWasSeen
<1>4. deepest' \in Nat /\ deepest' <= MaxAnyDepth
  <2> DEFINE h == Recursed(Message.any).height
  <2>1. CASE ~(Message.kind = "update" /\ DecodeUpdate(Message.any) # "TooDeep")
      BY <1>0, <1>2, <2>1
  <2>2. CASE Message.kind = "update" /\ DecodeUpdate(Message.any) # "TooDeep"
    <3>1. ~DeeperThanBound(Message.any)
        BY <2>2 DEF DecodeUpdate
    <3>2. ~(h > MaxAnyDepth) /\ h \in Nat
        BY <1>2, <3>1, WalkIsExact, HeightType
    <3>3. deepest' = IF h > deepest THEN h ELSE deepest
        BY <1>0, <2>2
    <3> HIDE DEF h
    <3> QED  BY <1>2, <3>2, <3>3
  <2> QED  BY <2>1, <2>2
<1>5. StreamTypes'
  <2>1. at' \in Nat /\ applied' \in Nat
      BY <1>1, <1>2
  <2> QED  BY <1>0, <1>2, <1>4, <2>1 DEF StreamTypes
<1>6. AppliesWhatWasSeen'
  <2> SUFFICES ASSUME at' > 0
               PROVE  verdict = "accepted" /\ \A j \in 1..Len(messages) : j < at' => messages[j].kind # "unread"
      BY <1>0 DEF AppliesWhatWasSeen
  <2>1. on /\ at' = at + 1
      BY <1>1
  <2>2. Message.kind # "unread"
    <3> SUFFICES ASSUME Message.kind = "unread"  PROVE FALSE
        OBVIOUS
    <3>1. GoesOn = {FALSE}
        BY DEF GoesOn
    <3> QED  BY <2>1, <3>1
  <2>3. ASSUME NEW j \in 1..Len(messages), j < at'  PROVE messages[j].kind # "unread"
    <3>1. j < at \/ j = at
        BY <1>2, <2>1, <2>3
    <3> QED  BY <1>3, <2>2, <3>1 DEF Message
  <2> QED  BY <1>3, <2>3
<1>7. AcceptedIsJudged'
  <2>1. IsContent(messages)' <=> IsContent(messages)
      BY <1>0 DEF IsContent, Seen
  <2> QED  BY <1>0, <2>1 DEF StreamInv, AcceptedIsJudged
<1>8. ViewersApplyNothing'
  <2> SUFFICES ASSUME sender = "viewer"  PROVE applied' = 0
      BY <1>0 DEF ViewersApplyNothing
  <2>1. applied = 0 /\ ~IsContent(messages)
      BY <1>3 DEF StreamInv, ViewersApplyNothing, AcceptedIsJudged
  <2>2. Message.kind # "update"
    <3> SUFFICES ASSUME Message.kind = "update"  PROVE IsContent(messages)
        BY <2>1
    <3>1. \A j \in 1..at : messages[j].kind \notin {"unread"}
      <4> TAKE j \in 1..at
      <4>1. CASE j = at
          BY <4>1 DEF Message
      <4>2. CASE j # at
        <5>1. j \in 1..Len(messages) /\ j < at
            BY <1>0, <1>2, <4>2
        <5> QED  BY <1>3, <5>1
      <4> QED  BY <4>1, <4>2
    <3>2. at \in Seen(messages, {"unread"})
        BY <1>0, <3>1 DEF Seen
    <3> QED  BY <3>2 DEF IsContent, Message
  <2> QED  BY <1>1, <2>1, <2>2
<1>9. RefusedForDepth'
    BY <1>0 DEF StreamInv, RefusedForDepth
<1> QED  BY <1>5, <1>6, <1>7, <1>8, <1>9 DEF StreamInv

LEMMA StreamInvHolds == StreamSpec => []StreamInv
<1>1. StreamInit => StreamInv
    BY StreamStarts
<1>2. StreamInv /\ [StreamNext]_streamVars => StreamInv'
  <2> SUFFICES ASSUME StreamInv, [StreamNext]_streamVars  PROVE StreamInv'
      OBVIOUS
  <2>1. CASE Judge
      BY <2>1, JudgeKeeps
  <2>2. CASE ReadMessage
      BY <2>2, ReadMessageKeeps
  <2>3. CASE UNCHANGED streamVars
    <3>1. /\ messages' = messages /\ sender' = sender /\ verdict' = verdict
          /\ at' = at /\ applied' = applied /\ deepest' = deepest
        BY <2>3 DEF streamVars
    <3>2. IsContent(messages)' <=> IsContent(messages)
        BY <3>1 DEF IsContent, Seen
    <3> QED  BY <3>1, <3>2 DEF StreamInv, StreamTypes, AppliesWhatWasSeen, AcceptedIsJudged,
                             ViewersApplyNothing, RefusedForDepth
  <2> QED  BY <2>1, <2>2, <2>3 DEF StreamNext
<1> QED  BY <1>1, <1>2, PTL DEF StreamSpec

\* What a client applies was judged first: for every bound on the nesting, every
\* number of messages and every sequence of tokens in an update, yrs recurses no
\* deeper than deeper_than_bound's walk allowed, a viewer's stream changes no
\* document, and a stream refused for its depth holds an update in which yrs
\* would have gone past the bound.
THEOREM AppliedOnlyAsJudged == StreamSpec => []JudgedBeforeApplied
<1>1. StreamInv => JudgedBeforeApplied
  <2> SUFFICES ASSUME StreamInv  PROVE JudgedBeforeApplied
      OBVIOUS
  <2>1. ASSUME NEW i \in 1..Len(messages)
        PROVE  DeeperThanBound(messages[i].any) <=> Recursed(messages[i].any).height > MaxAnyDepth
    <3>1. messages[i].any \in Seq(AnyTokens)
        BY DEF StreamInv, StreamTypes
    <3> QED  BY <3>1, WalkIsExact
  <2> QED  BY <2>1, Zenon DEF StreamInv, StreamTypes, ViewersApplyNothing, RefusedForDepth, JudgedBeforeApplied
<1> QED  BY <1>1, StreamInvHolds, PTL

=============================================================================
