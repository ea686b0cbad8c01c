-------------------------- MODULE RelayClientProofs --------------------------
(***************************************************************************)
(* The frames of a connection leave in the order of the numbers they were  *)
(* sealed under, for every set of caller's threads and any number of       *)
(* frames.                                                                 *)
(*                                                                         *)
(* The numbers rise along one line: what has left, what the socket task is *)
(* sending, the queue, what a thread has drained and not pushed, what the  *)
(* session has sealed and nobody drained.  Threads meet on the line only   *)
(* through the lock: a thread that has drained frames holds it until the   *)
(* last of them is in the queue.                                           *)
(***************************************************************************)
EXTENDS RelayClient, SequenceTheorems, TLAPS

RelayFrames == [kind : {"binary", "text", "close"}, number : Nat, by : Threads]
Places == {"off", "starting", "idle", "pushing", "emitting", "renaming", "closing",
           "checking", "sending", "closed", "ended"}

RelayTypeOK ==
    /\ pc \in [Threads -> Places]
    /\ session \in [number : Nat, out : Seq(RelayFrames), ending : BOOLEAN]
    /\ pend \in [Threads -> Seq(RelayFrames)]
    /\ queue \in Seq(RelayFrames) /\ sink \in RelayFrames /\ sent \in Nat

\* A thread that pushes holds the lock, and no other thread has frames to push.
LockInv ==
    \A t \in Threads : /\ pc[t] = "pushing" <=> lock = t
                       /\ pc[t] # "pushing" => pend[t] = <<>>

InTheSink == pc[Socket] = "sending" /\ IsBinary(sink)

\* Before the seat there is nothing, and what was sealed by then is drained before
\* anything is queued.
FreshInv ==
    /\ phase \in {"new", "waiting", "refused"} =>
         /\ \A t \in Threads : pc[t] = "off"
         /\ session = [number |-> 0, out |-> <<>>, ending |-> FALSE]
    /\ session.number = 0 => session.out = <<>>
    /\ session.number = 0 \/ session.out # <<>> =>
         /\ sent = 0 /\ ~InTheSink
         /\ \A i \in DOMAIN queue : ~IsBinary(queue[i])
         /\ \A t \in Threads : pend[t] = <<>>

Rising(s) ==
    \A i, j \in DOMAIN s : i < j /\ IsBinary(s[i]) /\ IsBinary(s[j]) => s[i].number < s[j].number
Between(low, s, high) ==
    \A i \in DOMAIN s : IsBinary(s[i]) => low < s[i].number /\ s[i].number <= high
Ahead(s, r) ==
    \A i \in DOMAIN s, j \in DOMAIN r :
        IsBinary(s[i]) /\ IsBinary(r[j]) => s[i].number < r[j].number

Left == IF InTheSink THEN sink.number ELSE sent

\* The line.
LineInv ==
    /\ InTheSink => sent < sink.number
    /\ Left <= session.number
    /\ Rising(queue) /\ Between(Left, queue, session.number)
    /\ Rising(session.out) /\ Between(Left, session.out, session.number)
    /\ \A t \in Threads : /\ Rising(pend[t]) /\ Between(Left, pend[t], session.number)
                          /\ Ahead(queue, pend[t])

RelayInv == RelayTypeOK /\ LockInv /\ FreshInv /\ LineInv

----------------------------------------------------------------------------
\* What a frame at the end, at the front or behind another line does to a line.

LEMMA ThreadsApart ==
    /\ Clock \in Threads /\ Socket \in Threads /\ Callers \subseteq Threads
    /\ Free \notin Threads /\ Socket \notin Callers /\ Clock \notin Callers
    /\ Clock # Socket
  BY ThreadAssumption DEF Threads, Clock, Socket, Free

LEMMA NoneBetween ==
    ASSUME NEW low, NEW high
    PROVE  Rising(<<>>) /\ Between(low, <<>>, high)
  BY DEF Rising, Between

LEMMA NoneAhead ==
    ASSUME NEW s PROVE Ahead(s, <<>>) /\ Ahead(<<>>, s)
  BY DEF Ahead

LEMMA AppendPlain ==
    ASSUME NEW s \in Seq(RelayFrames), NEW f \in RelayFrames, ~IsBinary(f),
           NEW low, NEW high, NEW r \in Seq(RelayFrames)
    PROVE  /\ Append(s, f) \in Seq(RelayFrames)
           /\ Rising(s) => Rising(Append(s, f))
           /\ Between(low, s, high) => Between(low, Append(s, f), high)
           /\ Ahead(s, r) => Ahead(Append(s, f), r)
           /\ (\A i \in DOMAIN s : ~IsBinary(s[i])) =>
                \A i \in DOMAIN Append(s, f) : ~IsBinary(Append(s, f)[i])
  <1> DEFINE a == Append(s, f)
  <1>1. /\ a \in Seq(RelayFrames) /\ Len(a) = Len(s) + 1 /\ a[Len(a)] = f
        /\ \A i \in 1 .. Len(s) : a[i] = s[i]
    BY AppendProperties
  <1>2. /\ DOMAIN a = 1 .. Len(s) + 1 /\ DOMAIN s = 1 .. Len(s) /\ Len(s) \in Nat
    BY <1>1
  <1>3. \A i \in DOMAIN a : IsBinary(a[i]) => i \in DOMAIN s /\ a[i] = s[i]
    BY <1>1, <1>2
  <1> HIDE DEF a
  <1>4. QED
    BY <1>1, <1>3 DEF Rising, Between, Ahead, a

LEMMA Widened ==
    ASSUME NEW s \in Seq(RelayFrames), NEW low \in Nat, NEW high \in Nat,
           NEW lower \in Nat, NEW higher \in Nat, lower <= low, high <= higher,
           Between(low, s, high)
    PROVE  Between(lower, s, higher)
  <1>1. \A i \in DOMAIN s : s[i] \in RelayFrames
    BY ElementOfSeq
  <1>2. QED
    BY <1>1 DEF Between, RelayFrames

\* The first frame of one line goes to the end of the line ahead of it.
LEMMA HeadMoves ==
    ASSUME NEW q \in Seq(RelayFrames), NEW p \in Seq(RelayFrames), p # <<>>,
           NEW low \in Nat, NEW high \in Nat, Rising(q), Rising(p), Ahead(q, p),
           Between(low, q, high), Between(low, p, high)
    PROVE  /\ Append(q, Head(p)) \in Seq(RelayFrames) /\ Tail(p) \in Seq(RelayFrames)
           /\ Rising(Append(q, Head(p))) /\ Rising(Tail(p))
           /\ Ahead(Append(q, Head(p)), Tail(p))
           /\ Between(low, Append(q, Head(p)), high) /\ Between(low, Tail(p), high)
  <1> DEFINE a == Append(q, Head(p))
             r == Tail(p)
  <1>1. /\ p[1] \in RelayFrames /\ Head(p) = p[1] /\ Len(p) \in Nat \ {0}
        /\ DOMAIN p = 1 .. Len(p)
    BY EmptySeq, LenProperties, ElementOfSeq
  <1>2. /\ r \in Seq(RelayFrames) /\ Len(r) = Len(p) - 1 /\ DOMAIN r = 1 .. Len(r)
        /\ \A i \in 1 .. Len(r) : r[i] = p[i + 1]
    BY HeadTailProperties, LenProperties, <1>1
  <1>3. /\ a \in Seq(RelayFrames) /\ DOMAIN a = 1 .. Len(q) + 1 /\ a[Len(q) + 1] = p[1]
        /\ \A i \in 1 .. Len(q) : a[i] = q[i]
    BY <1>1, AppendProperties, LenProperties
  <1>4. DOMAIN q = 1 .. Len(q) /\ Len(q) \in Nat
    BY LenProperties
  <1>5. \A i \in DOMAIN r : i + 1 \in DOMAIN p /\ 1 < i + 1 /\ r[i] = p[i + 1]
    BY <1>1, <1>2
  <1>6. \A i \in DOMAIN a : (i \in DOMAIN q /\ a[i] = q[i]) \/ (i = Len(q) + 1 /\ a[i] = p[1])
    BY <1>3, <1>4
  <1>7. 1 \in DOMAIN p /\ \A i \in DOMAIN q : i < Len(q) + 1
    BY <1>1, <1>4
  <1> HIDE DEF a, r
  <1>8. Rising(r)
    <2> SUFFICES ASSUME NEW i \in DOMAIN r, NEW j \in DOMAIN r, i < j,
                        IsBinary(r[i]), IsBinary(r[j])
                 PROVE  r[i].number < r[j].number
      BY DEF Rising
    <2>1. i \in Nat /\ j \in Nat /\ i + 1 < j + 1
      BY <1>1, <1>2
    <2>2. QED
      BY <2>1, <1>5 DEF Rising
  <1>9. Between(low, r, high) /\ Between(low, a, high)
    BY <1>5, <1>6, <1>7 DEF Between
  <1>10. Rising(a)
    <2> SUFFICES ASSUME NEW i \in DOMAIN a, NEW j \in DOMAIN a, i < j,
                        IsBinary(a[i]), IsBinary(a[j])
                 PROVE  a[i].number < a[j].number
      BY DEF Rising
    <2>1. i \in Nat /\ j \in Nat
      BY <1>3, <1>4
    <2>2. i \in DOMAIN q /\ a[i] = q[i]
      BY <2>1, <1>6, <1>4
    <2>3. QED
      BY <2>2, <1>6, <1>7 DEF Rising, Ahead
  <1>11. Ahead(a, r)
    <2> SUFFICES ASSUME NEW i \in DOMAIN a, NEW j \in DOMAIN r,
                        IsBinary(a[i]), IsBinary(r[j])
                 PROVE  a[i].number < r[j].number
      BY DEF Ahead
    <2>1. CASE i \in DOMAIN q /\ a[i] = q[i]
      BY <2>1, <1>5 DEF Ahead
    <2>2. CASE a[i] = p[1]
      BY <2>2, <1>5, <1>7 DEF Rising
    <2>3. QED
      BY <2>1, <2>2, <1>6
  <1>12. QED
    BY <1>2, <1>3, <1>8, <1>9, <1>10, <1>11 DEF a, r

----------------------------------------------------------------------------
\* The steps, by what they do to the line.

LEMMA LeftFacts ==
    ASSUME RelayInv
    PROVE  /\ Left \in Nat /\ sent <= Left /\ sent \in Nat /\ session.number \in Nat
           /\ pc[Socket] # "sending" => ~InTheSink /\ Left = sent
           /\ \A t \in Threads : pc[t] \in Places /\ pend[t] \in Seq(RelayFrames)
  <1>1. sink.number \in Nat /\ sent \in Nat /\ session.number \in Nat
    BY DEF RelayInv, RelayTypeOK, RelayFrames
  <1>2. Left \in Nat /\ sent <= Left /\ (pc[Socket] # "sending" => ~InTheSink /\ Left = sent)
    BY <1>1 DEF RelayInv, LineInv, Left, InTheSink
  <1>3. QED
    BY <1>1, <1>2 DEF RelayInv, RelayTypeOK

LEMMA FreshStart == Init => RelayInv
  <1> SUFFICES ASSUME Init PROVE RelayInv
    OBVIOUS
  <1>1. RelayTypeOK
    <2>1. sink \in RelayFrames
      BY ThreadsApart DEF Init, RelayFrames, Close
    <2>2. <<>> \in Seq(RelayFrames)
      OBVIOUS
    <2>3. QED
      BY <2>1, <2>2 DEF Init, RelayTypeOK, Places
  <1>2. LockInv /\ FreshInv
    BY ThreadsApart DEF Init, LockInv, FreshInv, InTheSink
  <1>3. LineInv
    BY ThreadsApart, NoneAhead, NoneBetween DEF Init, LineInv, Left, InTheSink
  <1>4. QED
    BY <1>1, <1>2, <1>3 DEF RelayInv

\* A step that neither seals, drains nor sends: a thread goes on, the queue gets a
\* frame without a number, or is dropped.
Plain(t) ==
    /\ pc[t] \notin {"pushing", "off"}
    /\ \E v \in Places \ {"pushing", "sending", "off"} : pc' = [pc EXCEPT ![t] = v]
    /\ UNCHANGED <<session, pend, lock, sink, sent>>
    /\ phase' \in {phase, "running"}
    /\ \/ queue' \in {queue, <<>>}
       \/ \E f \in RelayFrames : ~IsBinary(f) /\ queue' = Append(queue, f)

LEMMA PlainQueue ==
    ASSUME RelayInv, NEW t \in Threads, Plain(t)
    PROVE  /\ queue' \in Seq(RelayFrames)
           /\ Rising(queue') /\ Between(Left, queue', session.number)
           /\ \A u \in Threads : Ahead(queue', pend[u])
           /\ (\A i \in DOMAIN queue : ~IsBinary(queue[i])) =>
                \A i \in DOMAIN queue' : ~IsBinary(queue'[i])
  <1>1. /\ queue \in Seq(RelayFrames) /\ Rising(queue)
        /\ Between(Left, queue, session.number)
        /\ \A u \in Threads : Ahead(queue, pend[u]) /\ pend[u] \in Seq(RelayFrames)
    BY DEF RelayInv, RelayTypeOK, LineInv
  <1>2. CASE queue' = queue
    BY <1>1, <1>2
  <1>3. CASE queue' = <<>>
    BY <1>3, NoneAhead, NoneBetween
  <1>4. ASSUME NEW f \in RelayFrames, ~IsBinary(f), queue' = Append(queue, f)
        PROVE  /\ queue' \in Seq(RelayFrames)
               /\ Rising(queue') /\ Between(Left, queue', session.number)
               /\ \A u \in Threads : Ahead(queue', pend[u])
               /\ (\A i \in DOMAIN queue : ~IsBinary(queue[i])) =>
                    \A i \in DOMAIN queue' : ~IsBinary(queue'[i])
    BY <1>1, <1>4, AppendPlain
  <1>5. QED
    BY <1>2, <1>3, <1>4 DEF Plain

LEMMA PlainStep ==
    ASSUME RelayInv, NEW t \in Threads, Plain(t)
    PROVE  RelayInv'
  <1>1. PICK v \in Places \ {"pushing", "sending", "off"} : pc' = [pc EXCEPT ![t] = v]
    BY DEF Plain
  <1>2. /\ pc' \in [Threads -> Places] /\ pc'[t] = v
        /\ \A u \in Threads : u # t => pc'[u] = pc[u]
    BY <1>1 DEF RelayInv, RelayTypeOK
  <1>3. RelayTypeOK'
    BY <1>2, PlainQueue DEF RelayInv, RelayTypeOK, Plain
  <1>4. LockInv'
    <2> SUFFICES ASSUME NEW u \in Threads
                 PROVE  (pc'[u] = "pushing" <=> lock = u) /\ (pc'[u] # "pushing" => pend[u] = <<>>)
      BY DEF LockInv, Plain
    <2>1. QED
      BY <1>2 DEF RelayInv, LockInv, Plain
  <1>5. (InTheSink' => InTheSink) /\ Left' \in Nat /\ Left' <= Left /\ UNCHANGED <<session, pend, sent, sink>>
    BY <1>2, ThreadsApart, LeftFacts DEF InTheSink, Left, Plain, RelayInv, LineInv
  <1>6. FreshInv'
    <2>1. phase' \notin {"new", "waiting", "refused"}
      BY DEF RelayInv, FreshInv, Plain
    <2>2. QED
      BY <1>5, <2>1, PlainQueue DEF RelayInv, FreshInv
  <1>7. LineInv'
    <2>1. (InTheSink => sent < sink.number)' /\ (Left <= session.number)'
      BY <1>5, LeftFacts DEF RelayInv, LineInv
    <2>2. \A s \in Seq(RelayFrames) :
             Between(Left, s, session.number) => Between(Left', s, session.number)
      BY <1>5, LeftFacts, Widened
    <2>3. session.out \in Seq(RelayFrames) /\ \A u \in Threads : pend[u] \in Seq(RelayFrames)
      BY DEF RelayInv, RelayTypeOK
    <2>4. QED
      BY <1>5, <2>1, <2>2, <2>3, PlainQueue DEF RelayInv, LineInv
  <1>8. QED
    BY <1>3, <1>4, <1>6, <1>7 DEF RelayInv

\* Nothing that the invariant is about.
LEMMA OutsideStep ==
    ASSUME RelayInv, UNCHANGED <<session, pend, lock, sink, sent, pc, queue>>,
           phase' \in {"new", "waiting", "refused"} => phase \in {"new", "waiting", "refused"}
    PROVE  RelayInv'
  BY DEF RelayInv, RelayTypeOK, LockInv, FreshInv, LineInv, Left, InTheSink

\* Whoever takes the lock finds every line of drained frames empty.
LEMMA NothingDrained ==
    ASSUME RelayInv, lock = Free
    PROVE  \A t \in Threads : pc[t] # "pushing" /\ pend[t] = <<>>
  BY ThreadsApart DEF RelayInv, LockInv

\* A drain, after n frames were sealed: t takes what the session had and the new.
Drain(t, n) ==
    /\ pc[t] \in {"idle", "starting"} /\ lock = Free /\ lock' = t
    /\ session' \in [number : {session.number + n}, out : {<<>>}, ending : BOOLEAN]
    /\ pend' = [pend EXCEPT ![t] = Sealed(session.out, session.number, n, t)]
    /\ pc' = [pc EXCEPT ![t] = "pushing"]
    /\ UNCHANGED <<phase, queue, sink, sent>>

LEMMA FrameNumbers ==
    ASSUME NEW s \in Seq(RelayFrames)
    PROVE  \A i \in DOMAIN s : s[i].number \in Nat
  <1>1. \A i \in DOMAIN s : s[i] \in RelayFrames
    BY ElementOfSeq
  <1>2. QED
    BY <1>1 DEF RelayFrames

LEMMA SealedBehind ==
    ASSUME NEW o \in Seq(RelayFrames), NEW q \in Seq(RelayFrames), NEW t \in Threads,
           NEW low \in Nat, NEW high \in Nat, low <= high, NEW n \in Nat,
           Rising(o), Between(low, o, high), Between(low, q, high),
           o = <<>> \/ \A i \in DOMAIN q : ~IsBinary(q[i])
    PROVE  /\ Sealed(o, high, n, t) \in Seq(RelayFrames)
           /\ Rising(Sealed(o, high, n, t)) /\ Ahead(q, Sealed(o, high, n, t))
           /\ Between(low, Sealed(o, high, n, t), high + n)
           /\ n = 0 => Sealed(o, high, n, t) = o
  <1> DEFINE new == [i \in 1 .. n |-> Binary(high + i, t)]
             all == o \o new
             late(i) == all[i].number = high + (i - Len(o)) /\ i > Len(o)
  <1>1. /\ \A i \in 1 .. n : new[i] \in RelayFrames /\ new[i].number = high + i
        /\ new \in Seq(RelayFrames) /\ Len(new) = n
    <2>1. \A i \in 1 .. n : Binary(high + i, t) \in RelayFrames /\ Binary(high + i, t).number = high + i
      BY DEF Binary, RelayFrames
    <2>2. new \in [1 .. n -> RelayFrames] /\ \A i \in 1 .. n : new[i] = Binary(high + i, t)
      BY <2>1
    <2> HIDE DEF new
    <2>3. new \in Seq(RelayFrames) /\ DOMAIN new = 1 .. n
      BY <2>2
    <2>4. Len(new) = n
      BY <2>3, LenProperties
    <2>5. QED
      BY <2>1, <2>2, <2>3, <2>4
  <1>2. Len(o) \in Nat /\ DOMAIN o = 1 .. Len(o)
    BY LenProperties
  <1> HIDE DEF new
  <1>3. /\ all \in Seq(RelayFrames) /\ Len(all) = Len(o) + n
        /\ \A i \in 1 .. Len(o) + n :
              all[i] = IF i <= Len(o) THEN o[i] ELSE new[i - Len(o)]
    BY <1>1, ConcatProperties
  <1> HIDE DEF all
  <1>4. DOMAIN all = 1 .. Len(o) + n /\ DOMAIN all \subseteq Nat
    BY <1>2, <1>3, LenProperties
  <1>5. \A i \in DOMAIN all : (i \in DOMAIN o /\ all[i] = o[i]) \/ late(i)
    <2> SUFFICES ASSUME NEW i \in DOMAIN all, ~(i <= Len(o))
                 PROVE  late(i)
      <3>1. \A i \in DOMAIN all : i <= Len(o) => i \in DOMAIN o /\ all[i] = o[i]
        BY <1>2, <1>3, <1>4
      <3>2. QED
        BY <3>1
    <2>1. i - Len(o) \in 1 .. n /\ i \in 1 .. Len(o) + n /\ i > Len(o)
      BY <1>2, <1>4
    <2>2. all[i] = new[i - Len(o)]
      BY <2>1, <1>3
    <2>3. QED
      BY <2>1, <2>2, <1>1
  <1>6. \A i \in DOMAIN o : o[i].number \in Nat
    BY FrameNumbers
  <1>7. \A i \in DOMAIN q : q[i].number \in Nat
    BY FrameNumbers
  <1>8. \A i \in DOMAIN all : i \in Nat /\ i <= Len(o) + n
    BY <1>2, <1>4
  <1>9. n = 0 => all = o
    <2> SUFFICES ASSUME n = 0 PROVE all = o
      OBVIOUS
    <2>1. Len(all) = Len(o) /\ \A i \in 1 .. Len(o) : all[i] = o[i]
      BY <1>2, <1>3
    <2>2. QED
      BY <2>1, <1>3, SeqEqual
  <1>10. Between(low, all, high + n)
    <2> SUFFICES ASSUME NEW i \in DOMAIN all, IsBinary(all[i])
                 PROVE  low < all[i].number /\ all[i].number <= high + n
      BY DEF Between
    <2>1. CASE i \in DOMAIN o /\ all[i] = o[i]
      BY <2>1, <1>6 DEF Between
    <2>2. CASE late(i)
      BY <2>2, <1>2, <1>8
    <2>3. QED
      BY <2>1, <2>2, <1>5
  <1>11. Rising(all)
    <2> SUFFICES ASSUME NEW i \in DOMAIN all, NEW j \in DOMAIN all, i < j,
                        IsBinary(all[i]), IsBinary(all[j])
                 PROVE  all[i].number < all[j].number
      BY DEF Rising
    <2>1. CASE i \in DOMAIN o /\ all[i] = o[i]
      <3>1. CASE j \in DOMAIN o /\ all[j] = o[j]
        BY <2>1, <3>1 DEF Rising
      <3>2. CASE late(j)
        <4>1. all[i].number <= high /\ all[i].number \in Nat
          BY <2>1, <1>6 DEF Between
        <4>2. QED
          BY <4>1, <3>2, <1>2, <1>8
      <3>3. QED
        BY <3>1, <3>2, <1>5
    <2>2. CASE late(i)
      <3>1. j \notin DOMAIN o
        BY <2>2, <1>2, <1>8
      <3>2. QED
        BY <2>2, <3>1, <1>2, <1>5, <1>8
    <2>3. QED
      BY <2>1, <2>2, <1>5
  <1>12. Ahead(q, all)
    <2> SUFFICES ASSUME NEW i \in DOMAIN q, NEW j \in DOMAIN all,
                        IsBinary(q[i]), IsBinary(all[j])
                 PROVE  q[i].number < all[j].number
      BY DEF Ahead
    <2>1. late(j)
      BY <1>5
    <2>2. q[i].number <= high /\ q[i].number \in Nat
      BY <1>7 DEF Between
    <2>3. j \in Nat /\ Len(o) \in Nat /\ j > Len(o)
      BY <2>1, <1>2, <1>8
    <2>4. q[i].number < high + (j - Len(o))
      BY <2>2, <2>3
    <2>5. QED
      BY <2>1, <2>4
  <1>13. QED
    BY <1>3, <1>9, <1>10, <1>11, <1>12 DEF all, new, Sealed

LEMMA DrainStep ==
    ASSUME RelayInv, NEW t \in Threads, NEW n \in Nat, Drain(t, n)
    PROVE  RelayInv'
  <1> DEFINE o == session.out
             high == session.number
             all == Sealed(o, high, n, t)
  <1>1. /\ o \in Seq(RelayFrames) /\ queue \in Seq(RelayFrames) /\ Left \in Nat
        /\ high \in Nat /\ Left <= high /\ Rising(o) /\ Between(Left, o, high)
        /\ Rising(queue) /\ Between(Left, queue, high)
        /\ o = <<>> \/ \A i \in DOMAIN queue : ~IsBinary(queue[i])
    BY LeftFacts DEF RelayInv, RelayTypeOK, LineInv, FreshInv
  <1> HIDE DEF o, high
  <1>2. /\ all \in Seq(RelayFrames) /\ Rising(all) /\ Between(Left, all, high + n)
        /\ Ahead(queue, all) /\ (n = 0 => all = o)
    BY <1>1, SealedBehind
  <1> HIDE DEF all
  <1>3. /\ session' \in [number : {high + n}, out : {<<>>}, ending : BOOLEAN]
        /\ pend' = [pend EXCEPT ![t] = all]
    BY DEF Drain, all, o, high
  <1>4. /\ session'.number = high + n /\ session'.out = <<>>
        /\ session' \in [number : Nat, out : Seq(RelayFrames), ending : BOOLEAN]
    <2>1. high + n \in Nat /\ <<>> \in Seq(RelayFrames)
      BY <1>1
    <2>2. QED
      BY <2>1, <1>3
  <1>5. \A u \in Threads : pc[u] # "pushing" /\ pend[u] = <<>>
    BY NothingDrained DEF Drain
  <1>6. /\ pc' \in [Threads -> Places] /\ pend' \in [Threads -> Seq(RelayFrames)]
        /\ pc'[t] = "pushing" /\ pend'[t] = all
        /\ \A u \in Threads : u # t => pc'[u] = pc[u] /\ pend'[u] = <<>>
    BY <1>2, <1>3, <1>5 DEF Drain, RelayInv, RelayTypeOK, Places
  <1>7. RelayTypeOK'
    BY <1>4, <1>6 DEF RelayTypeOK, RelayInv, Drain
  <1>8. LockInv'
    BY <1>5, <1>6 DEF LockInv, Drain
  <1>9. InTheSink' = InTheSink /\ Left' = Left
    <2>1. pc'[Socket] = "sending" <=> pc[Socket] = "sending"
      BY <1>6, ThreadsApart DEF Drain
    <2>2. QED
      BY <2>1 DEF InTheSink, Left, Drain
  <1>10. FreshInv'
    <2>1. phase' \notin {"new", "waiting", "refused"}
      BY DEF RelayInv, FreshInv, Drain
    <2>2. ASSUME session'.number = 0
          PROVE  high = 0 /\ all = <<>>
      <3>1. high = 0 /\ n = 0
        BY <2>2, <1>1, <1>4
      <3>2. o = <<>>
        BY <3>1 DEF RelayInv, FreshInv, o, high
      <3>3. QED
        BY <3>1, <3>2, <1>2
    <2>3. ASSUME session'.number = 0
          PROVE  /\ sent' = 0 /\ ~InTheSink'
                 /\ \A i \in DOMAIN queue' : ~IsBinary(queue'[i])
                 /\ \A u \in Threads : pend'[u] = <<>>
      BY <2>2, <2>3, <1>6, <1>9 DEF RelayInv, FreshInv, Drain, high
    <2>4. QED
      BY <2>1, <2>3, <1>4 DEF FreshInv
  <1>11. LineInv'
    <2>1. Left <= high + n /\ high + n \in Nat /\ high <= high + n
      BY <1>1
    <2>2. Between(Left, queue, high + n)
      BY <1>1, <2>1, Widened
    <2>3. \A u \in Threads : Rising(pend'[u]) /\ Between(Left, pend'[u], high + n) /\ Ahead(queue, pend'[u])
      BY <1>2, <1>6, NoneAhead, NoneBetween
    <2>4. (InTheSink => sent < sink.number)'
      BY <1>9 DEF RelayInv, LineInv, Drain
    <2>5. queue' = queue
      BY DEF Drain
    <2>6. QED
      BY <1>1, <1>4, <1>9, <2>1, <2>2, <2>3, <2>4, <2>5, NoneBetween DEF LineInv
  <1>12. QED
    BY <1>7, <1>8, <1>10, <1>11 DEF RelayInv

LEMMA PushStep ==
    ASSUME RelayInv, NEW t \in Threads, Push(t)
    PROVE  RelayInv'
  <1>1. /\ pend[t] \in Seq(RelayFrames) /\ pend[t] # <<>> /\ pc[t] = "pushing" /\ lock = t
        /\ \A u \in Threads : u # t => pend[u] = <<>>
    BY LeftFacts DEF RelayInv, LockInv, Push
  <1>2. UNCHANGED <<pc, lock, session, sink, sent, phase>>
    BY DEF Push, outside
  <1>3. InTheSink' = InTheSink /\ Left' = Left
    BY <1>2 DEF InTheSink, Left
  <1>4. /\ queue \in Seq(RelayFrames) /\ Left \in Nat /\ session.number \in Nat
        /\ Rising(queue) /\ Between(Left, queue, session.number)
        /\ Rising(pend[t]) /\ Between(Left, pend[t], session.number) /\ Ahead(queue, pend[t])
    BY LeftFacts DEF RelayInv, RelayTypeOK, LineInv
  <1>5. /\ queue' \in Seq(RelayFrames) /\ pend'[t] \in Seq(RelayFrames)
        /\ Rising(queue') /\ Between(Left, queue', session.number)
        /\ Rising(pend'[t]) /\ Between(Left, pend'[t], session.number) /\ Ahead(queue', pend'[t])
        /\ \E s \in Seq(RelayFrames) : pend' = [pend EXCEPT ![t] = s]
    <2>1. CASE pc[Socket] = "ended"
      <3>1. pend' = [pend EXCEPT ![t] = <<>>] /\ queue' = queue /\ <<>> \in Seq(RelayFrames)
        BY <2>1 DEF Push
      <3>2. pend'[t] = <<>>
        BY <3>1 DEF RelayInv, RelayTypeOK
      <3>3. QED
        BY <3>1, <3>2, <1>4, NoneAhead, NoneBetween
    <2>2. CASE pc[Socket] # "ended"
      <3>1. queue' = Append(queue, Head(pend[t])) /\ pend' = [pend EXCEPT ![t] = Tail(pend[t])]
        BY <2>2 DEF Push
      <3>2. pend'[t] = Tail(pend[t])
        BY <3>1 DEF RelayInv, RelayTypeOK
      <3>3. /\ Append(queue, Head(pend[t])) \in Seq(RelayFrames)
            /\ Tail(pend[t]) \in Seq(RelayFrames)
            /\ Rising(Append(queue, Head(pend[t]))) /\ Rising(Tail(pend[t]))
            /\ Ahead(Append(queue, Head(pend[t])), Tail(pend[t]))
            /\ Between(Left, Append(queue, Head(pend[t])), session.number)
            /\ Between(Left, Tail(pend[t]), session.number)
        BY <1>1, <1>4, HeadMoves
      <3>4. QED
        BY <3>1, <3>2, <3>3
    <2>3. QED
      BY <2>1, <2>2
  <1>6. /\ pend' \in [Threads -> Seq(RelayFrames)]
        /\ \A u \in Threads : u # t => pend'[u] = <<>>
    BY <1>1, <1>5 DEF RelayInv, RelayTypeOK
  <1>7. RelayTypeOK'
    BY <1>2, <1>5, <1>6 DEF RelayInv, RelayTypeOK
  <1>8. LockInv'
    BY <1>1, <1>2, <1>6 DEF RelayInv, LockInv
  <1>9. FreshInv'
    BY <1>1, <1>2 DEF RelayInv, FreshInv
  <1>10. LineInv'
    <2>1. \A u \in Threads : /\ Rising(pend'[u]) /\ Between(Left, pend'[u], session.number)
                             /\ Ahead(queue', pend'[u])
      BY <1>5, <1>6, NoneAhead, NoneBetween
    <2>2. QED
      BY <1>2, <1>3, <1>5, <2>1 DEF RelayInv, LineInv
  <1>11. QED
    BY <1>7, <1>8, <1>9, <1>10 DEF RelayInv

LEMMA ReportStep ==
    ASSUME RelayInv, NEW t \in Threads, Report(t)
    PROVE  RelayInv'
  <1> DEFINE v == IF Reports THEN "emitting" ELSE After(t)
  <1>1. /\ pc[t] = "pushing" /\ pend[t] = <<>> /\ lock = t /\ lock' = Free
        /\ pc' = [pc EXCEPT ![t] = v] /\ v \in Places \ {"pushing", "sending", "off"}
        /\ UNCHANGED <<session, queue, pend, sink, sent>> /\ phase' \in {phase, "running"}
    BY DEF Report, Release, RelayInv, LockInv, outside, After, Places
  <1>2. /\ pc' \in [Threads -> Places] /\ pc'[t] = v
        /\ \A u \in Threads : u # t => pc'[u] = pc[u]
    BY <1>1 DEF RelayInv, RelayTypeOK
  <1> HIDE DEF v
  <1>3. RelayTypeOK'
    BY <1>1, <1>2 DEF RelayInv, RelayTypeOK
  <1>4. LockInv'
    BY <1>1, <1>2, ThreadsApart DEF RelayInv, LockInv
  <1>5. InTheSink' = InTheSink /\ Left' = Left
    <2>1. pc'[Socket] = "sending" <=> pc[Socket] = "sending"
      BY <1>1, <1>2, ThreadsApart
    <2>2. QED
      BY <2>1, <1>1 DEF InTheSink, Left
  <1>6. FreshInv'
    <2>1. phase' \notin {"new", "waiting", "refused"}
      BY <1>1 DEF RelayInv, FreshInv
    <2>2. QED
      BY <1>1, <1>5, <2>1 DEF RelayInv, FreshInv
  <1>7. LineInv'
    BY <1>1, <1>5 DEF RelayInv, LineInv
  <1>8. QED
    BY <1>3, <1>4, <1>6, <1>7 DEF RelayInv

LEMMA SeatStep ==
    ASSUME RelayInv, Seat
    PROVE  RelayInv'
  <1>1. PICK n \in {0, 1} \cap 0 .. MaxFrames :
           session' = [session EXCEPT !.number = n,
                                      !.out = [i \in 1 .. n |-> Binary(i, Opener)]]
    BY Zenon DEF Seat
  <1>2. /\ session = [number |-> 0, out |-> <<>>, ending |-> FALSE]
        /\ session.number = 0 /\ session.out = <<>>
        /\ sent = 0 /\ ~InTheSink /\ \A i \in DOMAIN queue : ~IsBinary(queue[i])
        /\ \A t \in Threads : pend[t] = <<>> /\ pc[t] = "off"
    BY DEF RelayInv, FreshInv, Seat
  <1>3. UNCHANGED <<queue, lock, pend, sink, sent>> /\ phase' = "starting"
    BY DEF Seat, outside
  <1> DEFINE o == [i \in 1 .. n |-> Binary(i, Opener)]
  <1>4. Opener \in Threads /\ Opener # Socket
    BY ThreadsApart, RelayAssumption
  <1>5. n \in Nat /\ n <= 1
    OBVIOUS
  <1>6. o \in Seq(RelayFrames) /\ DOMAIN o = 1 .. n /\ \A i \in 1 .. n : o[i].number = i
    <2>1. \A i \in 1 .. n : Binary(i, Opener) \in RelayFrames /\ Binary(i, Opener).number = i
      BY <1>4, <1>5 DEF Binary, RelayFrames
    <2>2. o \in [1 .. n -> RelayFrames]
      BY <2>1
    <2>3. QED
      BY <2>1, <2>2, <1>5
  <1> HIDE DEF o
  <1>7. session' = [number |-> n, out |-> o, ending |-> FALSE]
    <2>1. session' = [session EXCEPT !.number = n, !.out = o]
      BY <1>1 DEF o
    <2>2. QED
      BY <2>1, <1>2
  <1>8. /\ session'.number = n /\ session'.out = o
        /\ session' \in [number : Nat, out : Seq(RelayFrames), ending : BOOLEAN]
    BY <1>5, <1>6, <1>7
  <1>9. /\ pc' \in [Threads -> Places]
        /\ \A t \in Threads : pc'[t] \in {"starting", "idle"}
    BY DEF Seat, Places
  <1>10. RelayTypeOK'
    BY <1>3, <1>8, <1>9 DEF RelayInv, RelayTypeOK
  <1>11. LockInv'
    BY <1>2, <1>3, <1>9 DEF RelayInv, LockInv
  <1>12. ~InTheSink' /\ Left' = 0
    BY <1>2, <1>3, <1>9, ThreadsApart DEF InTheSink, Left
  <1>13. FreshInv'
    <2>1. n = 0 => o = <<>>
      BY <1>6, EmptySeq
    <2>2. QED
      BY <2>1, <1>2, <1>3, <1>8, <1>12 DEF FreshInv
  <1>14. LineInv'
    <2>1. Rising(queue) /\ Between(0, queue, n)
      BY <1>2 DEF Rising, Between
    <2>2. Rising(o) /\ Between(0, o, n)
      BY <1>5, <1>6 DEF Rising, Between
    <2>3. \A t \in Threads : Rising(pend[t]) /\ Between(0, pend[t], n) /\ Ahead(queue, pend[t])
      BY <1>2, NoneAhead, NoneBetween
    <2>4. QED
      BY <2>1, <2>2, <2>3, <1>3, <1>5, <1>8, <1>12 DEF LineInv
  <1>15. QED
    BY <1>10, <1>11, <1>13, <1>14 DEF RelayInv

\* The first frame of the queue is in the sink.
LEMMA TakeFrameStep ==
    ASSUME RelayInv, TakeFrame
    PROVE  RelayInv'
  <1> DEFINE v == IF Head(queue) = Close THEN "closed" ELSE "sending"
             h == Head(queue)
             r == Tail(queue)
  <1>1. /\ queue \in Seq(RelayFrames) /\ queue # <<>> /\ pc[Socket] = "idle"
        /\ Rising(queue) /\ Between(sent, queue, session.number)
        /\ sent \in Nat /\ session.number \in Nat
    BY LeftFacts DEF RelayInv, RelayTypeOK, LineInv, TakeFrame
  <1>2. /\ sink' = h /\ queue' = r /\ pc' = [pc EXCEPT ![Socket] = v]
        /\ UNCHANGED <<phase, session, lock, pend, sent>>
    BY DEF TakeFrame, outside
  <1>3. /\ pc' \in [Threads -> Places] /\ pc'[Socket] = v /\ v \in {"closed", "sending"}
        /\ \A u \in Threads : u # Socket => pc'[u] = pc[u]
    BY <1>2, ThreadsApart DEF RelayInv, RelayTypeOK, Places
  <1>4. /\ 1 \in DOMAIN queue /\ h = queue[1] /\ h \in RelayFrames /\ h.number \in Nat
        /\ r \in Seq(RelayFrames)
        /\ \A i \in DOMAIN r : i + 1 \in DOMAIN queue /\ 1 < i + 1 /\ r[i] = queue[i + 1]
    <2>1. /\ Len(queue) \in Nat \ {0} /\ DOMAIN queue = 1 .. Len(queue) /\ h = queue[1]
      BY <1>1, EmptySeq, LenProperties
    <2>2. /\ r \in Seq(RelayFrames) /\ Len(r) = Len(queue) - 1 /\ DOMAIN r = 1 .. Len(r)
          /\ \A i \in 1 .. Len(r) : r[i] = queue[i + 1]
      BY <1>1, <2>1, HeadTailProperties, LenProperties
    <2>3. 1 \in DOMAIN queue
      BY <2>1
    <2>4. h \in RelayFrames
      BY <2>1, <2>3, <1>1, ElementOfSeq
    <2>5. QED
      BY <2>1, <2>2, <2>3, <2>4 DEF RelayFrames
  <1>5. v = "closed" => ~IsBinary(h)
    BY DEF Close, IsBinary
  <1> HIDE DEF v, h, r
  <1>6. /\ IsBinary(h) => sent < h.number /\ h.number <= session.number
        /\ \A i \in DOMAIN r : IsBinary(r[i]) =>
              /\ sent < r[i].number /\ r[i].number <= session.number
              /\ IsBinary(h) => h.number < r[i].number
    BY <1>1, <1>4 DEF Between, Rising
  <1>7. /\ InTheSink' <=> IsBinary(h)
        /\ Left' = IF IsBinary(h) THEN h.number ELSE sent
    <2>1. InTheSink' <=> IsBinary(h)
      BY <1>2, <1>3, <1>5 DEF InTheSink
    <2>2. QED
      BY <2>1, <1>2 DEF Left
  <1>8. Rising(r)
    <2> SUFFICES ASSUME NEW i \in DOMAIN r, NEW j \in DOMAIN r, i < j,
                        IsBinary(r[i]), IsBinary(r[j])
                 PROVE  r[i].number < r[j].number
      BY DEF Rising
    <2>1. i \in Nat /\ j \in Nat /\ i + 1 < j + 1
      BY <1>4, LenProperties
    <2>2. QED
      BY <2>1, <1>1, <1>4 DEF Rising
  <1>9. Between(Left', r, session.number)
    BY <1>6, <1>7 DEF Between
  <1>10. \A t \in Threads : Ahead(r, pend[t]) /\ Between(Left', pend[t], session.number)
    <2> SUFFICES ASSUME NEW t \in Threads
                 PROVE  Ahead(r, pend[t]) /\ Between(Left', pend[t], session.number)
      OBVIOUS
    <2>1. Ahead(queue, pend[t]) /\ Between(sent, pend[t], session.number)
      BY <1>1, LeftFacts DEF RelayInv, LineInv
    <2>2. QED
      BY <2>1, <1>4, <1>7 DEF Ahead, Between
  <1>11. Between(Left', session.out, session.number)
    <2>1. session.out = <<>> \/ ~IsBinary(h)
      BY <1>4 DEF RelayInv, FreshInv
    <2>2. Between(sent, session.out, session.number)
      BY <1>1, LeftFacts DEF RelayInv, LineInv
    <2>3. QED
      BY <2>1, <2>2, <1>7, NoneBetween
  <1>12. RelayTypeOK'
    BY <1>2, <1>3, <1>4 DEF RelayInv, RelayTypeOK
  <1>13. LockInv'
    BY <1>1, <1>2, <1>3, ThreadsApart DEF RelayInv, LockInv
  <1>14. FreshInv'
    <2>1. phase' \notin {"new", "waiting", "refused"}
      BY <1>1, <1>2, ThreadsApart DEF RelayInv, FreshInv
    <2>2. (\A i \in DOMAIN queue : ~IsBinary(queue[i])) =>
             ~IsBinary(h) /\ \A i \in DOMAIN r : ~IsBinary(r[i])
      BY <1>4
    <2>3. QED
      BY <2>1, <2>2, <1>2, <1>7 DEF RelayInv, FreshInv
  <1>15. LineInv'
    <2>1. Left' <= session.number
      BY <1>6, <1>7, LeftFacts, <1>1 DEF RelayInv, LineInv
    <2>2. (InTheSink => sent < sink.number)'
      BY <1>2, <1>6, <1>7
    <2>3. QED
      BY <2>1, <2>2, <1>2, <1>8, <1>9, <1>10, <1>11 DEF RelayInv, LineInv
  <1>16. QED
    BY <1>12, <1>13, <1>14, <1>15 DEF RelayInv

\* What was in the sink has left.
LEMMA SendFrameStep ==
    ASSUME RelayInv, SendFrame
    PROVE  RelayInv'
  <1>1. /\ pc[Socket] = "sending" /\ sent' = IF IsBinary(sink) THEN sink.number ELSE sent
        /\ pc' = [pc EXCEPT ![Socket] = "idle"]
        /\ UNCHANGED <<phase, session, queue, lock, pend, sink>>
    BY DEF SendFrame, shared, IsBinary
  <1>2. /\ pc' \in [Threads -> Places] /\ pc'[Socket] = "idle"
        /\ \A u \in Threads : u # Socket => pc'[u] = pc[u]
    BY <1>1, ThreadsApart DEF RelayInv, RelayTypeOK, Places
  <1>3. ~InTheSink' /\ Left' = Left /\ sent' = Left /\ Left \in Nat
    BY <1>1, <1>2, LeftFacts DEF InTheSink, Left
  <1>4. RelayTypeOK'
    BY <1>1, <1>2, <1>3 DEF RelayInv, RelayTypeOK
  <1>5. LockInv'
    BY <1>1, <1>2, ThreadsApart DEF RelayInv, LockInv
  <1>6. FreshInv'
    <2>1. phase' \notin {"new", "waiting", "refused"}
      BY <1>1, ThreadsApart DEF RelayInv, FreshInv
    <2>2. ~InTheSink => Left = sent
      BY DEF Left
    <2>3. QED
      BY <2>1, <2>2, <1>1, <1>3 DEF RelayInv, FreshInv
  <1>7. LineInv'
    BY <1>1, <1>3 DEF RelayInv, LineInv
  <1>8. QED
    BY <1>4, <1>5, <1>6, <1>7 DEF RelayInv

LEMMA ChangeDrains ==
    ASSUME RelayInv, NEW t \in Threads, Change(t), pc[t] \in {"idle", "starting"},
           UNCHANGED <<phase, queue, sink, sent>>
    PROVE  \E n \in Nat : Drain(t, n)
  <1>1. PICK s \in Changes(t) : /\ session' = [s EXCEPT !.out = <<>>]
                                /\ pend' = [pend EXCEPT ![t] = s.out]
    BY DEF Change
  <1> DEFINE all(n) == Sealed(session.out, session.number, n, t)
  <1> HIDE DEF all
  <1>2. PICK n \in 0 .. 2, e \in BOOLEAN :
           s = [number |-> session.number + n, out |-> all(n), ending |-> e]
    BY DEF Changes, all
  <1>3. n \in Nat
    OBVIOUS
  <1>4. /\ session' = [number |-> session.number + n, out |-> <<>>, ending |-> e]
        /\ pend' = [pend EXCEPT ![t] = all(n)]
    BY <1>1, <1>2
  <1>5. Drain(t, n)
    BY <1>4 DEF Drain, Change, Acquire, all
  <1>6. QED
    BY <1>3, <1>5

LEMMA HearGoneDrains ==
    ASSUME RelayInv, HearGone
    PROVE  Drain(Socket, 0)
  <1>1. /\ session.out \in Seq(RelayFrames) /\ queue \in Seq(RelayFrames) /\ Left \in Nat
        /\ session.number \in Nat /\ Left <= session.number
        /\ Rising(session.out) /\ Between(Left, session.out, session.number)
        /\ Between(Left, queue, session.number)
        /\ session.out = <<>> \/ \A i \in DOMAIN queue : ~IsBinary(queue[i])
    BY LeftFacts DEF RelayInv, RelayTypeOK, LineInv, FreshInv
  <1>2. Sealed(session.out, session.number, 0, Socket) = session.out
    <2> DEFINE o == session.out
               high == session.number
    <2>1. /\ o \in Seq(RelayFrames) /\ high \in Nat /\ Left <= high /\ Rising(o)
          /\ Between(Left, o, high) /\ Between(Left, queue, high)
          /\ o = <<>> \/ \A i \in DOMAIN queue : ~IsBinary(queue[i])
      BY <1>1
    <2> HIDE DEF o, high
    <2>2. Sealed(o, high, 0, Socket) = o
      BY <2>1, <1>1, SealedBehind, ThreadsApart
    <2>3. QED
      BY <2>2 DEF o, high
  <1>3. session' \in [number : {session.number + 0}, out : {<<>>}, ending : BOOLEAN]
    <2>1. session \in [number : Nat, out : Seq(RelayFrames), ending : BOOLEAN]
      BY DEF RelayInv, RelayTypeOK
    <2>2. session' = [session EXCEPT !.out = <<>>]
      BY DEF HearGone
    <2>3. session.number + 0 = session.number
      BY <1>1
    <2>4. QED
      BY <2>1, <2>2, <2>3
  <1>4. QED
    BY <1>2, <1>3 DEF HearGone, Acquire, Drain, outside

LEMMA PlainSteps ==
    ASSUME RelayInv, NEW t \in Threads,
           \/ Emit(t)
           \/ t \in Callers /\ (StartReturns(t) \/ Rename(t) \/ SendText(t))
           \/ t \in Callers /\ (Disconnect(t) \/ CloseQueue(t))
           \/ t = Clock /\ (ClockChecks \/ (ClockTicks /\ (destroyed \/ ending # None)))
           \/ t \in {Clock, Socket} /\ AbortTask(t)
           \/ t = Socket /\ (SocketFails \/ SocketEnds)
    PROVE  Plain(t)
  <1> USE ThreadsApart DEF shared, outside, Places
  <1>1. CASE Emit(t)
    BY <1>1 DEF Emit, Plain, After
  <1>2. CASE StartReturns(t) \/ Rename(t) \/ Disconnect(t)
    BY <1>2 DEF StartReturns, Rename, Disconnect, Calls, Plain
  <1>3. CASE t \in Callers /\ SendText(t)
    <2>1. Text(t) \in RelayFrames /\ ~IsBinary(Text(t))
      BY <1>3 DEF Text, RelayFrames, IsBinary
    <2>2. QED
      BY <1>3, <2>1 DEF SendText, Plain
  <1>4. CASE CloseQueue(t)
    <2>1. Close \in RelayFrames /\ ~IsBinary(Close)
      BY DEF Close, RelayFrames, IsBinary
    <2>2. QED
      BY <1>4, <2>1 DEF CloseQueue, Plain
  <1>5. CASE t = Clock /\ (ClockChecks \/ (ClockTicks /\ (destroyed \/ ending # None)))
    BY <1>5 DEF ClockChecks, ClockTicks, Plain
  <1>6. CASE AbortTask(t)
    BY <1>6 DEF AbortTask, Plain
  <1>7. CASE t = Socket /\ (SocketFails \/ SocketEnds)
    BY <1>7 DEF SocketFails, SocketEnds, Plain
  <1>8. QED
    BY <1>1, <1>2, <1>3, <1>4, <1>5, <1>6, <1>7

LEMMA NextStep ==
    ASSUME RelayInv, [Next]_vars
    PROVE  RelayInv'
  <1> USE ThreadsApart
  <1>1. CASE UNCHANGED vars \/ Dial \/ Refuse \/ Stall \/ GraceEnds
    BY <1>1, OutsideStep DEF vars, shared, outside, Dial, Refuse, Stall, GraceEnds
  <1>2. CASE Seat
    BY <1>2, SeatStep
  <1>3. ASSUME NEW t \in Threads, Push(t) \/ Report(t) \/ Emit(t)
        PROVE  RelayInv'
    BY <1>3, PushStep, ReportStep, PlainSteps, PlainStep
  <1>4. ASSUME NEW c \in Callers,
               StartReturns(c) \/ Rename(c) \/ Disconnect(c) \/ SendText(c) \/ CloseQueue(c)
        PROVE  RelayInv'
    <2>1. c \in Threads
      OBVIOUS
    <2>2. QED
      BY <2>1, <1>4, PlainSteps, PlainStep
  <1>5. ASSUME NEW c \in Callers, Call(c)
        PROVE  RelayInv'
    <2>1. c \in Threads /\ Change(c) /\ pc[c] \in {"idle", "starting"} /\ UNCHANGED <<phase, queue, sink, sent>>
      BY <1>5 DEF Call, Calls, outside
    <2>2. QED
      BY <2>1, ChangeDrains, DrainStep
  <1>6. CASE ClockChecks \/ AbortTask(Clock) \/ AbortTask(Socket) \/ SocketEnds \/ SocketFails
    BY <1>6, PlainSteps, PlainStep
  <1>7. CASE ClockTicks
    <2>1. CASE destroyed \/ ending # None
      BY <1>7, <2>1, PlainSteps, PlainStep
    <2>2. CASE ~(destroyed \/ ending # None)
      <3>1. Change(Clock) /\ pc[Clock] = "idle" /\ UNCHANGED <<phase, queue, sink, sent>>
        BY <1>7, <2>2 DEF ClockTicks, outside
      <3>2. QED
        BY <3>1, ChangeDrains, DrainStep
    <2>3. QED
      BY <2>1, <2>2
  <1>8. CASE Receive
    <2>1. Change(Socket) /\ pc[Socket] = "idle" /\ UNCHANGED <<phase, queue, sink, sent>>
      BY <1>8 DEF Receive, outside
    <2>2. QED
      BY <2>1, ChangeDrains, DrainStep
  <1>9. CASE HearGone
    BY <1>9, HearGoneDrains, DrainStep
  <1>10. CASE TakeFrame \/ SendFrame
    BY <1>10, TakeFrameStep, SendFrameStep
  <1>11. QED
    BY <1>1, <1>2, <1>3, <1>4, <1>5, <1>6, <1>7, <1>8, <1>9, <1>10 DEF Next, Proceed

----------------------------------------------------------------------------
LEMMA LineIsOrder == RelayInv => NumbersLeaveInOrder
  <1> SUFFICES ASSUME RelayInv PROVE NumbersLeaveInOrder
    OBVIOUS
  <1>1. /\ queue \in Seq(RelayFrames) /\ Rising(queue) /\ Between(Left, queue, session.number)
        /\ InTheSink => sent < sink.number
        /\ sink \in RelayFrames /\ sent \in Nat /\ sink.number \in Nat /\ session.number \in Nat
    BY LeftFacts DEF RelayInv, RelayTypeOK, LineInv, RelayFrames
  <1>2. DOMAIN queue = 1 .. Len(queue) /\ Len(queue) \in Nat /\ \A i \in DOMAIN queue : queue[i].number \in Nat
    BY <1>1, LenProperties, FrameNumbers
  <1>3. CASE pc[Socket] # "sending"
    <2>1. Leaving = queue
      BY <1>1, <1>3, ConcatEmptySeq DEF Leaving, Sending
    <2>2. Between(sent, queue, session.number)
      BY <1>1, <1>3, LeftFacts
    <2>3. \A j \in DOMAIN queue : \A i \in 1 .. j - 1 : i \in DOMAIN queue /\ i < j
      BY <1>2
    <2>4. QED
      BY <2>1, <2>2, <2>3, <1>1 DEF NumbersLeaveInOrder, Rising, Between
  <1>4. CASE pc[Socket] = "sending"
    <2> DEFINE l == <<sink>> \o queue
    <2>1. Leaving = l
      BY <1>4 DEF Leaving, Sending
    <2>2. /\ l \in Seq(RelayFrames) /\ Len(l) = Len(queue) + 1
          /\ \A i \in 1 .. Len(queue) + 1 : l[i] = IF i <= 1 THEN sink ELSE queue[i - 1]
      <3>1. <<sink>> \in Seq(RelayFrames) /\ Len(<<sink>>) = 1 /\ <<sink>>[1] = sink
        BY <1>1
      <3>2. /\ l \in Seq(RelayFrames) /\ Len(l) = 1 + Len(queue)
            /\ \A i \in 1 .. 1 + Len(queue) : l[i] = IF i <= 1 THEN <<sink>>[i] ELSE queue[i - 1]
        BY <3>1, <1>1, ConcatProperties
      <3>3. QED
        BY <3>1, <3>2, <1>2
    <2> HIDE DEF l
    <2>3. DOMAIN l = 1 .. Len(queue) + 1
      BY <2>2, <1>2, LenProperties
    <2>4. \A j \in DOMAIN l : \/ j = 1 /\ l[j] = sink
                              \/ j - 1 \in DOMAIN queue /\ l[j] = queue[j - 1]
      BY <2>2, <2>3, <1>2
    <2>5. Left = IF IsBinary(sink) THEN sink.number ELSE sent
      BY <1>4 DEF Left, InTheSink
    <2> SUFFICES ASSUME NEW j \in DOMAIN l, IsBinary(l[j])
                 PROVE  /\ sent < l[j].number
                        /\ \A i \in 1 .. j - 1 : IsBinary(l[i]) => l[i].number < l[j].number
      BY <2>1 DEF NumbersLeaveInOrder
    <2>6. CASE j = 1 /\ l[j] = sink
      BY <2>6, <1>1, <1>4 DEF InTheSink
    <2>7. CASE j - 1 \in DOMAIN queue /\ l[j] = queue[j - 1]
      <3>1. Left < l[j].number /\ sent <= Left /\ Left \in Nat /\ l[j].number \in Nat
        BY <2>7, <1>1, <1>2, LeftFacts DEF Between
      <3>2. sent < l[j].number
        BY <3>1, <1>1
      <3>3. ASSUME NEW i \in 1 .. j - 1, IsBinary(l[i])
            PROVE  l[i].number < l[j].number
        <4>1. i \in DOMAIN l /\ i \in Nat /\ j \in Nat /\ i < j
          BY <2>3, <1>2
        <4>2. CASE i = 1 /\ l[i] = sink
          BY <4>2, <3>3, <3>1, <2>5
        <4>3. CASE i - 1 \in DOMAIN queue /\ l[i] = queue[i - 1]
          <5>1. i - 1 < j - 1
            BY <4>1
          <5>2. QED
            BY <5>1, <4>3, <3>3, <2>7, <1>1 DEF Rising
        <4>4. QED
          BY <4>1, <4>2, <4>3, <2>4
      <3>4. QED
        BY <3>2, <3>3
    <2>8. QED
      BY <2>4, <2>6, <2>7
  <1>5. QED
    BY <1>3, <1>4

\* Whatever threads change a session, frames leave in the order of the numbers they
\* were sealed under, and none at or below one that has left (Relay::queue and
\* push, under the lock that sealed them).
THEOREM OrderHolds == Spec => []NumbersLeaveInOrder
  <1>1. Init => RelayInv
    BY FreshStart
  <1>2. RelayInv /\ [Next]_vars => RelayInv'
    BY NextStep
  <1>3. RelayInv => NumbersLeaveInOrder
    BY LineIsOrder
  <1>4. QED
    BY <1>1, <1>2, <1>3, PTL DEF Spec

----------------------------------------------------------------------------
\* What a step that keeps the session, its ending and the telling leaves of them,
\* when the thread it moves neither pushes nor emits.
LEMMA TellerStays ==
    ASSUME EndingsHaveATeller, NEW t, pc[t] \notin {"pushing", "emitting"}, NEW place,
           pc \in [Threads -> Places],
           pc' = pc \/ pc' = [pc EXCEPT ![t] = place],
           session'.ending = session.ending, ending' = ending, told' = told, ends' = ends
    PROVE  EndingsHaveATeller'
  <1>1. \A u \in Threads : pc[u] \in {"pushing", "emitting"} => pc'[u] = pc[u]
    OBVIOUS
  <1>2. ASSUME session'.ending
        PROVE  ending' # None \/ \E u \in Threads : pc'[u] = "pushing"
    BY <1>1, <1>2 DEF EndingsHaveATeller
  <1>3. ASSUME ending' = "own"
        PROVE  /\ session'.ending
               /\ \/ told' = <<"own">> /\ ends' = {}
                  \/ told' = <<>> /\ \E u \in Threads : ends' = {u} /\ pc'[u] = "emitting"
    BY <1>1, <1>3 DEF EndingsHaveATeller
  <1>4. ending' # "own" => told' = <<>> /\ ends' = {}
    BY DEF EndingsHaveATeller
  <1>5. QED
    BY <1>2, <1>3, <1>4, Zenon DEF EndingsHaveATeller

\* A thread that changes the session holds the lock until it has reported.
LEMMA TellerChanges ==
    ASSUME RelayInv, EndingsHaveATeller, NEW t \in Threads, Change(t),
           pc[t] \notin {"pushing", "emitting"}, ending' = ending, told' = told, ends' = ends
    PROVE  EndingsHaveATeller'
  <1>1. pc \in [Threads -> Places] /\ session \in [number : Nat, out : Seq(RelayFrames), ending : BOOLEAN]
    BY DEF RelayInv, RelayTypeOK
  <1>2. PICK s \in Changes(t) : session' = [s EXCEPT !.out = <<>>]
    BY DEF Change
  <1>3. pc' = [pc EXCEPT ![t] = "pushing"]
    BY DEF Change
  <1>4. session.ending => s.ending
    BY DEF Changes
  <1>5. PICK n \in (IF session.ending THEN {0} ELSE 0 .. 2), e \in BOOLEAN :
          s = [number |-> session.number + n,
               out |-> Sealed(session.out, session.number, n, t), ending |-> e]
    BY DEF Changes
  <1>6. session'.ending = s.ending
    BY <1>2, <1>5
  <1>7. \E u \in Threads : pc'[u] = "pushing"
    BY <1>1, <1>3
  <1>8. \A u \in Threads : pc[u] = "emitting" => pc'[u] = "emitting"
    BY <1>1, <1>3
  <1>9. ASSUME ending' = "own"
        PROVE  /\ session'.ending
               /\ \/ told' = <<"own">> /\ ends' = {}
                  \/ told' = <<>> /\ \E u \in Threads : ends' = {u} /\ pc'[u] = "emitting"
    <2>1. session.ending
      BY <1>9 DEF EndingsHaveATeller
    <2>2. session'.ending
      BY <1>4, <1>6, <2>1
    <2>3. \/ told' = <<"own">> /\ ends' = {}
          \/ told' = <<>> /\ \E u \in Threads : ends' = {u} /\ pc'[u] = "emitting"
      BY <1>8, <1>9 DEF EndingsHaveATeller
    <2>4. QED
      BY <2>2, <2>3
  <1>10. ending' # "own" => told' = <<>> /\ ends' = {}
    BY DEF EndingsHaveATeller
  <1>11. QED
    BY <1>7, <1>9, <1>10, Zenon DEF EndingsHaveATeller

LEMMA TellerReports ==
    ASSUME RelayInv, EndingsHaveATeller, NEW t \in Threads, Report(t)
    PROVE  EndingsHaveATeller'
  <1>0. pc \in [Threads -> Places] /\ pc[t] = "pushing" /\ session' = session /\ told' = told
    BY DEF RelayInv, RelayTypeOK, Report
  <1>1. CASE Reports
    <2>1. /\ ending' = "own" /\ ends' = ends \cup {t} /\ pc' = [pc EXCEPT ![t] = "emitting"]
          /\ session.ending /\ ending = None
      BY <1>1 DEF Report, Reports
    <2>2. told = <<>> /\ ends = {}
      BY <2>1 DEF EndingsHaveATeller, None
    <2>3. ends' = {t} /\ pc'[t] = "emitting"
      BY <1>0, <2>1, <2>2
    <2>4. ending' # None
      BY <2>1 DEF None
    <2>5. \E u \in Threads : ends' = {u} /\ pc'[u] = "emitting"
      BY <2>3
    <2>6. session'.ending /\ told' = <<>>
      BY <1>0, <2>1, <2>2
    <2>7. QED
      BY <2>1, <2>4, <2>5, <2>6, Zenon DEF EndingsHaveATeller
  <1>2. CASE ~Reports
    <2>1. ending' = ending /\ ends' = ends /\ pc' = [pc EXCEPT ![t] = After(t)]
      BY <1>2 DEF Report
    <2>2. session.ending => ending # None
      BY <1>2 DEF Reports
    <2>3. \A u \in Threads : pc[u] = "emitting" => pc'[u] = "emitting"
      BY <1>0, <2>1
    <2>4. ASSUME ending' = "own"
          PROVE  /\ session'.ending
                 /\ \/ told' = <<"own">> /\ ends' = {}
                    \/ told' = <<>> /\ \E u \in Threads : ends' = {u} /\ pc'[u] = "emitting"
      BY <1>0, <2>1, <2>3, <2>4 DEF EndingsHaveATeller
    <2>5. ending' # "own" => told' = <<>> /\ ends' = {}
      BY <1>0, <2>1 DEF EndingsHaveATeller
    <2>6. session'.ending => ending' # None
      BY <1>0, <2>1, <2>2
    <2>7. QED
      BY <2>4, <2>5, <2>6, Zenon DEF EndingsHaveATeller
  <1>3. QED
    BY <1>1, <1>2

LEMMA TellerTells ==
    ASSUME RelayInv, EndingsHaveATeller, NEW t \in Threads, Emit(t)
    PROVE  EndingsHaveATeller'
  <1>0. /\ pc \in [Threads -> Places] /\ pc[t] = "emitting" /\ session' = session /\ ending' = ending
        /\ told' = (IF t \in ends THEN Append(told, ending) ELSE told)
        /\ ends' = ends \ {t} /\ pc' = [pc EXCEPT ![t] = After(t)]
    BY DEF RelayInv, RelayTypeOK, Emit, shared
  <1>1. \A u \in Threads : u # t => pc'[u] = pc[u]
    BY <1>0
  <1>2. session'.ending => ending' # None \/ \E u \in Threads : pc'[u] = "pushing"
    BY <1>0, <1>1 DEF EndingsHaveATeller
  <1>3. ending' # "own" => told' = <<>> /\ ends' = {}
    BY <1>0 DEF EndingsHaveATeller
  <1>4. ASSUME ending' = "own"
        PROVE  /\ session'.ending
               /\ \/ told' = <<"own">> /\ ends' = {}
                  \/ told' = <<>> /\ \E u \in Threads : ends' = {u} /\ pc'[u] = "emitting"
    <2>1. session'.ending /\ ending = "own"
      BY <1>0, <1>4 DEF EndingsHaveATeller
    <2>2. CASE told = <<"own">> /\ ends = {}
      BY <1>0, <2>1, <2>2
    <2>3. CASE told = <<>> /\ \E u \in Threads : ends = {u} /\ pc[u] = "emitting"
      <3>1. PICK u \in Threads : ends = {u} /\ pc[u] = "emitting"
        BY <2>3
      <3>2. CASE u = t
        <4>1. told' = Append(<<>>, "own") /\ ends' = {}
          BY <1>0, <2>1, <2>3, <3>1, <3>2
        <4>2. Append(<<>>, "own") = <<"own">>
          OBVIOUS
        <4>3. QED
          BY <2>1, <4>1, <4>2
      <3>3. CASE u # t
        <4>1. told' = <<>> /\ ends' = {u} /\ pc'[u] = "emitting"
          BY <1>0, <1>1, <2>3, <3>1, <3>3
        <4>2. QED
          BY <2>1, <4>1
      <3>4. QED
        BY <3>2, <3>3
    <2>4. QED
      BY <1>4, <2>1, <2>2, <2>3 DEF EndingsHaveATeller
  <1>5. QED
    BY <1>2, <1>3, <1>4, Zenon DEF EndingsHaveATeller

LEMMA TellerStep ==
    ASSUME RelayInv, EndingsHaveATeller, [Next]_vars
    PROVE  EndingsHaveATeller'
  <1>0. pc \in [Threads -> Places]
    BY DEF RelayInv, RelayTypeOK
  <1> USE ThreadsApart DEF shared, outside
  <1>1. CASE UNCHANGED vars \/ Dial \/ Refuse \/ Stall \/ GraceEnds
    BY <1>1 DEF vars, Dial, Refuse, Stall, GraceEnds, EndingsHaveATeller
  <1>2. CASE Seat
    <2>1. phase = "waiting" /\ ending' = ending /\ told' = told /\ ends' = ends
      BY <1>2 DEF Seat
    <2>2. session = [number |-> 0, out |-> <<>>, ending |-> FALSE]
      BY <2>1 DEF RelayInv, FreshInv
    <2>3. session'.ending = FALSE /\ session.ending = FALSE
      BY <1>2, <2>2 DEF Seat
    <2>4. ending # "own"
      BY <2>3 DEF EndingsHaveATeller
    <2>5. QED
      BY <2>1, <2>3, <2>4 DEF EndingsHaveATeller
  <1>3. ASSUME NEW t \in Threads, Push(t)
        PROVE  EndingsHaveATeller'
    BY <1>3 DEF Push, EndingsHaveATeller
  <1>4. ASSUME NEW t \in Threads, Report(t) \/ Emit(t)
        PROVE  EndingsHaveATeller'
    BY <1>4, TellerReports, TellerTells
  <1>5. ASSUME NEW c \in Callers,
               StartReturns(c) \/ Rename(c) \/ Disconnect(c) \/ SendText(c) \/ CloseQueue(c)
        PROVE  EndingsHaveATeller'
    <2>1. /\ pc[c] \in {"starting", "idle", "renaming", "closing"}
          /\ \E place \in Places : pc' = [pc EXCEPT ![c] = place]
          /\ session' = session /\ ending' = ending /\ told' = told /\ ends' = ends
      BY <1>5 DEF StartReturns, Rename, Disconnect, SendText, CloseQueue, Calls, Places
    <2>2. QED
      BY <1>0, <2>1, TellerStays
  <1>6. ASSUME NEW c \in Callers, Call(c)
        PROVE  EndingsHaveATeller'
    <2>1. /\ c \in Threads /\ Change(c) /\ pc[c] \in {"idle", "starting"}
          /\ ending' = ending /\ told' = told /\ ends' = ends
      BY <1>6 DEF Call, Calls
    <2>2. QED
      BY <2>1, TellerChanges
  <1>7. CASE ClockChecks \/ AbortTask(Clock) \/ AbortTask(Socket) \/ SocketFails \/ TakeFrame \/ SendFrame
    <2>1. PICK t \in {Clock, Socket} :
             /\ pc[t] \in {"checking", "idle", "sending"}
             /\ \E place \in Places : pc' = [pc EXCEPT ![t] = place]
             /\ session' = session /\ ending' = ending /\ told' = told /\ ends' = ends
      <3>1. CASE ClockChecks
        BY <3>1 DEF ClockChecks, Places
      <3>2. CASE AbortTask(Clock) \/ AbortTask(Socket)
        BY <3>2 DEF AbortTask, Places
      <3>3. CASE SocketFails \/ TakeFrame \/ SendFrame
        BY <3>3 DEF SocketFails, TakeFrame, SendFrame, Places
      <3>4. QED
        BY <1>7, <3>1, <3>2, <3>3
    <2>2. QED
      BY <1>0, <2>1, TellerStays
  <1>8. CASE ClockTicks
    <2>1. CASE destroyed \/ ending # None
      <3>1. /\ pc[Clock] = "idle" /\ pc' = [pc EXCEPT ![Clock] = "checking"]
            /\ session' = session /\ ending' = ending /\ told' = told /\ ends' = ends
        BY <1>8, <2>1 DEF ClockTicks
      <3>2. QED
        BY <1>0, <3>1, TellerStays
    <2>2. CASE ~(destroyed \/ ending # None)
      <3>1. Change(Clock) /\ pc[Clock] = "idle" /\ ending' = ending /\ told' = told /\ ends' = ends
        BY <1>8, <2>2 DEF ClockTicks
      <3>2. QED
        BY <3>1, TellerChanges
    <2>3. QED
      BY <2>1, <2>2
  <1>9. CASE Receive
    <2>1. Change(Socket) /\ pc[Socket] = "idle" /\ ending' = ending /\ told' = told /\ ends' = ends
      BY <1>9 DEF Receive
    <2>2. QED
      BY <2>1, TellerChanges
  <1>10. CASE HearGone \/ SocketEnds
    <2>1. CASE ending' = ending
      <3>1. SocketEnds
        BY <1>10, <2>1 DEF HearGone, None
      <3>2. /\ pc[Socket] = "closed" /\ pc' = [pc EXCEPT ![Socket] = "ended"]
            /\ session' = session /\ told' = told /\ ends' = ends
        BY <3>1 DEF SocketEnds
      <3>3. QED
        BY <1>0, <2>1, <3>2, TellerStays
    <2>2. CASE ending' # ending
      <3>1. ending = None /\ ending' = "gone" /\ told' = told /\ ends' = ends
        BY <1>10, <2>2 DEF HearGone, SocketEnds
      <3>2. told = <<>> /\ ends = {}
        BY <3>1 DEF EndingsHaveATeller, None
      <3>3. QED
        BY <3>1, <3>2 DEF EndingsHaveATeller, None
    <2>3. QED
      BY <2>1, <2>2
  <1>11. QED
    BY <1>1, <1>2, <1>3, <1>4, <1>5, <1>6, <1>7, <1>8, <1>9, <1>10 DEF Next, Proceed

\* No ending of a session's own is lost or told twice, whichever threads met it and
\* however the disconnect, an abort or the loss of the socket fell among their steps
\* (report under the lock, emit after it).
THEOREM EndingsHold == Spec => []EndingsHaveATeller
  <1>1. Init => RelayInv /\ EndingsHaveATeller
    <2>1. Init => EndingsHaveATeller
      BY DEF Init, EndingsHaveATeller, None
    <2>2. QED
      BY <2>1, FreshStart
  <1>2. RelayInv /\ EndingsHaveATeller /\ [Next]_vars => RelayInv' /\ EndingsHaveATeller'
    BY NextStep, TellerStep
  <1>3. QED
    BY <1>1, <1>2, PTL DEF Spec
=============================================================================
