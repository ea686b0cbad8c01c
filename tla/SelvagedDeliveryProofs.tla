----------------------- MODULE SelvagedDeliveryProofs -----------------------
(***************************************************************************)
(* What `deliver` promises about the frames it puts into queues, for any    *)
(* number of connections, queues of any length and clients that read when   *)
(* they please: the reply comes first, a departure is told once, a relayed  *)
(* stream has no holes and nobody is missing from a client's roster.  Five  *)
(* invariants carry the argument, one about deliver's locals and one for    *)
(* each promise; the steps that matter to them are first brought into a few *)
(* shapes (Deliveries).                                                     *)
(***************************************************************************)
EXTENDS SelvagedProofs

\* A sequence of something.
Proper(q) == q \in Seq({q[i] : i \in DOMAIN q})

\* What a job is at each place of `deliver`: a task that takes the next pending
\* frame has one, one that ejects has offered its frame to everybody, and one
\* that is not delivering has none.
JobAt(j, place) ==
    /\ Proper(j.pending) /\ j.targets \subseteq Peers
    /\ place = "pop" => j.pending # <<>>
    /\ place = "eject" => j.targets = {}
    /\ place \notin {"send", "eject"} => j.targets = {} /\ j.slow = {} /\ j.out = NoFrame
    /\ place \notin Delivering => j.pending = <<>>
JobInv == DOMAIN job = Peers /\ \A p \in Peers : JobAt(job[p], at[p])

\* The reply is in the queue before anything else can be: a frame is for who was
\* seated, and a queue that is closed takes none.
Welcomed(q) == q # <<>> /\ q[1].kind = "reply"
WelcomeFor(p) ==
    /\ Proper(queue[p])
    /\ at[p] = "apply" => /\ p \notin closed /\ queue[p] = <<>>
                          /\ \A x \in Peers : p \notin job[x].targets
    /\ p \in closed => queue[p] = <<>>
    /\ at[p] # "apply" /\ p \notin closed => view[p].seated \/ Welcomed(queue[p])
WelcomeInv ==
    /\ DOMAIN queue = Peers /\ DOMAIN view = Peers
    /\ \A p \in Peers : WelcomeFor(p)

\* A departure is one frame, made when the peer left its seat: in one place of
\* one delivery, ahead of everybody or in hand, and then behind who was told.
IsLeft(f, q) == f.kind = "left" /\ f.peer = q
Waiting(x, q) == \E i \in DOMAIN job[x].pending : IsLeft(job[x].pending[i].out, q)
InHand(x, q) == IsLeft(job[x].out, q)
Departed(q) == at[q] # "apply" /\ \A r \in Rooms : q \notin seats[r]
Names(f) == f.kind = "left" => f.peer \in Peers
OnePlace(q) ==
    \A x, y \in Peers :
      /\ \A i \in DOMAIN job[x].pending, j \in DOMAIN job[y].pending :
           IsLeft(job[x].pending[i].out, q) /\ IsLeft(job[y].pending[j].out, q)
             => x = y /\ i = j
      /\ ~(Waiting(x, q) /\ InHand(y, q))
      /\ InHand(x, q) /\ InHand(y, q) => x = y
ToldFor(q) ==
    /\ OnePlace(q)
    /\ \A x \in Peers : Waiting(x, q) \/ InHand(x, q) => Departed(q)
    /\ \A p \in Peers : q \in told[p] =>
         /\ Departed(q)
         /\ \A x \in Peers : ~Waiting(x, q) /\ (InHand(x, q) => p \notin job[x].targets)
ToldInv ==
    /\ DOMAIN told = Peers
    /\ \A x \in Peers :
         Names(job[x].out) /\ \A i \in DOMAIN job[x].pending : Names(job[x].pending[i].out)
    /\ \A q \in Peers : ToldFor(q)

\* A sender's payloads go out one at a time, by its own task.  Whoever sits with it
\* has had the last one or none, is being offered it, or is about to be ejected.
IsData(f) == f.kind = "data"
Unsent(x) == \E i \in DOMAIN job[x].pending : IsData(job[x].pending[i].out)
Together(p, x) == \E r \in roomOf[x] : p \in seats[r]
StreamTask(x) ==
    /\ \A i \in DOMAIN job[x].pending : IsData(job[x].pending[i].out) =>
         /\ at[x] = "pop" /\ Len(job[x].pending) = 1
         /\ job[x].pending[i].skip = {x}
         /\ job[x].pending[i].out.peer = x /\ job[x].pending[i].out.n = sent[x]
    /\ IsData(job[x].out) =>
         job[x].out.peer = x /\ job[x].out.n = sent[x] /\ x \notin job[x].targets
    /\ at[x] = "apply" => sent[x] = 0
StreamPair(p, x) ==
    /\ at[x] = "apply" \/ at[p] = "apply" => got[p][x] = 0
    /\ IsData(job[x].out) /\ p \in job[x].targets => got[p][x] \in {0, sent[x] - 1}
    /\ p # x /\ Together(p, x) =>
         \/ Unsent(x) /\ got[p][x] \in {0, sent[x] - 1}
         \/ ~Unsent(x) /\ IsData(job[x].out) /\ p \in job[x].targets \cup job[x].slow
         \/ ~Unsent(x) /\ got[p][x] \in {0, sent[x]}
StreamInv ==
    /\ sent \in [Peers -> Nat] /\ got \in [Peers -> [Peers -> Nat]]
    /\ \A x \in Peers : StreamTask(x)
    /\ \A p, x \in Peers : StreamPair(p, x)

\* What a frame says of q: that it is there, or that it has another name.
Introduces(f, q) ==
    (f.kind = "reply" /\ q \in DOMAIN f.peers) \/ (f.kind = "joined" /\ f.peer = q)
IsRename(f, q) == f.kind = "renamed" /\ f.peer = q
About(f, q) == Introduces(f, q) \/ IsRename(f, q)
NameIn(f, q) == IF f.kind = "reply" THEN f.peers[q] ELSE f.name

\* What a client with roster v will know of q when it has read s: that it is
\* there, the name that the last frame about it gives, and never a new name
\* of somebody it has not heard of, which it would pass over.
Heard(v, s, q) == q \in DOMAIN v.peers \/ \E i \in DOMAIN s : Introduces(s[i], q)
Latest(v, s, q, n) ==
    \/ \E i \in DOMAIN s : /\ About(s[i], q) /\ NameIn(s[i], q) = n
                           /\ \A j \in DOMAIN s : j > i => ~About(s[j], q)
    \/ (\A i \in DOMAIN s : ~About(s[i], q)) /\ q \in DOMAIN v.peers /\ v.peers[q] = n
Ordered(v, s, q) ==
    \A i \in DOMAIN s : IsRename(s[i], q) =>
        q \in DOMAIN v.peers \/ \E j \in DOMAIN s : j < i /\ Introduces(s[j], q)

\* A task announces nobody but itself, by the name it bears, in the one frame that
\* it was set going with.
Tells(f) == f.kind \in {"joined", "renamed"}
Own(f, x) == f.kind # "reply" /\ (Tells(f) => f.peer = x /\ f.name = names[x])
WordTask(x) ==
    /\ Own(job[x].out, x)
    /\ \A i \in DOMAIN job[x].pending :
         /\ Own(job[x].pending[i].out, x)
         /\ Tells(job[x].pending[i].out) =>
              at[x] = "pop" /\ Len(job[x].pending) = 1 /\ job[x].pending[i].skip \subseteq {x}

\* A queue: a reply only in front, no departure of who has a seat, and nothing about
\* who has never had one.
QueueOK(p) ==
    /\ view[p] = NoView \/ view[p].seated
    /\ at[p] = "apply" => view[p] = NoView
    /\ \A i \in DOMAIN queue[p] :
         /\ queue[p][i].kind = "reply" => i = 1 /\ ~view[p].seated
         /\ \A q \in Peers : /\ IsLeft(queue[p][i], q) => Departed(q)
                             /\ About(queue[p][i], q) => at[q] # "apply"

\* Whoever sits with q knows it, or will by what is in its queue, or q's task is
\* still on its way to it, to tell it or to eject it.
Mates(p, q) == p # q /\ \E r \in Rooms : p \in seats[r] /\ q \in seats[r]
Coming(p, q, kinds) ==
    \/ \E i \in DOMAIN job[q].pending : job[q].pending[i].out.kind \in kinds
    \/ job[q].out.kind \in kinds /\ p \in job[q].targets \cup job[q].slow
WordFor(p, q) ==
    Mates(p, q) /\ p \notin closed =>
      /\ Coming(p, q, {"joined"}) \/ Heard(view[p], queue[p], q)
      /\ Coming(p, q, {"joined", "renamed"}) \/ Latest(view[p], queue[p], q, names[q])
      /\ Ordered(view[p], queue[p], q)
WordInv ==
    /\ \A x \in Peers : WordTask(x) /\ QueueOK(x)
    /\ \A p, q \in Peers : WordFor(p, q)

----------------------------------------------------------------------------
\* Sequences.

LEMMA EmptyProper == Proper(<<>>)
  BY DEF Proper

LEMMA OneProper == ASSUME NEW f PROVE Proper(<<f>>) /\ <<f>> # <<>> /\ <<f>>[1] = f
                                      /\ Len(<<f>>) = 1 /\ DOMAIN <<f>> = {1}
  BY DEF Proper

LEMMA ProperLength ==
    ASSUME NEW q, Proper(q)
    PROVE  Len(q) \in Nat /\ DOMAIN q = 1 .. Len(q) /\ (q # <<>> <=> Len(q) > 0)
  BY DEF Proper

LEMMA AppendProper ==
    ASSUME NEW q, Proper(q), NEW f
    PROVE  /\ Proper(Append(q, f)) /\ Append(q, f) # <<>>
           /\ Len(Append(q, f)) = Len(q) + 1
           /\ DOMAIN Append(q, f) = 1 .. Len(q) + 1
           /\ \A i \in DOMAIN q : Append(q, f)[i] = q[i]
           /\ Append(q, f)[Len(q) + 1] = f
<1> DEFINE S == {q[i] : i \in DOMAIN q} \cup {f}
           a == Append(q, f)
<1>1. q \in Seq(S) /\ f \in S
  <2>1. q \in Seq({q[i] : i \in DOMAIN q}) /\ {q[i] : i \in DOMAIN q} \subseteq S
    BY DEF Proper
  <2>2. f \in S
    OBVIOUS
  <2> DEFINE R == {q[i] : i \in DOMAIN q}
  <2> HIDE DEF S, R
  <2> QED
    BY <2>1, <2>2 DEF R
<1> HIDE DEF S
<1>2. /\ a \in Seq(S) /\ Len(a) = Len(q) + 1 /\ DOMAIN a = 1 .. Len(q) + 1
      /\ \A i \in DOMAIN q : a[i] = q[i]
      /\ a[Len(q) + 1] = f
      /\ Len(q) \in Nat
  BY <1>1
<1> HIDE DEF a
<1>3. a \in [1 .. Len(a) -> {a[i] : i \in DOMAIN a}] /\ Len(a) \in Nat
  BY <1>2
<1>4. Proper(a)
  BY <1>3 DEF Proper
<1>5. a # <<>>
  BY <1>2
<1> QED
  BY <1>2, <1>4, <1>5 DEF a

LEMMA FrontProper ==
    ASSUME NEW q, Proper(q), q # <<>>
    PROVE  LET s == SubSeq(q, 1, Len(q) - 1) IN
           /\ Proper(s) /\ Len(s) = Len(q) - 1 /\ DOMAIN s = 1 .. Len(q) - 1
           /\ \A i \in DOMAIN s : s[i] = q[i]
           /\ Len(q) \in DOMAIN q
<1> DEFINE S == {q[i] : i \in DOMAIN q}
           s == SubSeq(q, 1, Len(q) - 1)
<1>1. q \in Seq(S)
  BY DEF Proper
<1> HIDE DEF S
<1>2. Len(q) \in Nat /\ Len(q) > 0 /\ DOMAIN q = 1 .. Len(q)
  BY <1>1
<1>3. /\ s \in Seq(S) /\ Len(s) = Len(q) - 1 /\ DOMAIN s = 1 .. Len(q) - 1
      /\ \A i \in DOMAIN s : s[i] = q[i]
  BY <1>1, <1>2
<1> HIDE DEF s
<1>4. s \in [1 .. Len(s) -> {s[i] : i \in DOMAIN s}] /\ Len(s) \in Nat
  BY <1>2, <1>3
<1>5. Proper(s)
  BY <1>4 DEF Proper
<1> QED
  BY <1>2, <1>3, <1>5 DEF s

LEMMA TailProper ==
    ASSUME NEW q, Proper(q), q # <<>>
    PROVE  Proper(Tail(q)) /\ Head(q) = q[1] /\ 1 \in DOMAIN q
<1> DEFINE S == {q[i] : i \in DOMAIN q}
           s == Tail(q)
<1>1. q \in Seq(S)
  BY DEF Proper
<1> HIDE DEF S
<1>2. s \in Seq(S) /\ Head(q) = q[1] /\ 1 \in DOMAIN q
  BY <1>1
<1> HIDE DEF s
<1>3. s \in [1 .. Len(s) -> {s[i] : i \in DOMAIN s}] /\ Len(s) \in Nat
  BY <1>2
<1>4. Proper(s)
  BY <1>3 DEF Proper
<1> QED
  BY <1>2, <1>4 DEF s

----------------------------------------------------------------------------
\* Jobs.

\* The job a task goes on with: j, without the frame when nobody is left for it.
GoesOn(p, j) ==
    /\ DOMAIN job' = Peers
    /\ \A x \in Peers : x # p => job'[x] = job[x]
    /\ job'[p].pending = j.pending /\ job'[p].targets = j.targets /\ job'[p].slow = j.slow
    /\ \/ job'[p].out = j.out
       \/ j.targets = {} /\ j.slow = {} /\ job'[p].out = NoFrame

LEMMA JobFields ==
    ASSUME NEW pending, NEW out, NEW targets, NEW slow
    PROVE  LET j == Job(pending, out, targets, slow) IN
           j.pending = pending /\ j.out = out /\ j.targets = targets /\ j.slow = slow
  BY DEF Job

LEMMA ProceedJob ==
    ASSUME SeatInv, DOMAIN job = Peers, NEW p \in Peers, NEW j, Proceed(p, j),
           Proper(j.pending), j.targets \subseteq Peers
    PROVE  GoesOn(p, j) /\ JobAt(job'[p], at'[p])
<1>1. /\ at \in [Peers -> Places] /\ after[p] \in Returns
  BY DEF SeatInv, TypeOK, Returns
<1>2. CASE j.targets # {}
  <2>1. at' = [at EXCEPT ![p] = "send"] /\ job' = [job EXCEPT ![p] = j]
    BY <1>2 DEF Proceed
  <2> QED
    BY <1>1, <2>1 DEF GoesOn, JobAt, Delivering
<1>3. CASE j.targets = {} /\ j.slow # {}
  <2>1. at' = [at EXCEPT ![p] = "eject"] /\ job' = [job EXCEPT ![p] = j]
    BY <1>3 DEF Proceed
  <2> QED
    BY <1>1, <1>3, <2>1 DEF GoesOn, JobAt, Delivering
<1>4. CASE j.targets = {} /\ j.slow = {} /\ j.pending # <<>>
  <2> DEFINE k == Job(j.pending, NoFrame, {}, {})
  <2>1. at' = [at EXCEPT ![p] = "pop"] /\ job' = [job EXCEPT ![p] = k]
    BY <1>4 DEF Proceed
  <2>2. k.pending = j.pending /\ k.targets = {} /\ k.slow = {} /\ k.out = NoFrame
    BY JobFields
  <2> HIDE DEF k
  <2> QED
    BY <1>1, <1>4, <2>1, <2>2 DEF GoesOn, JobAt, Delivering
<1>5. CASE j.targets = {} /\ j.slow = {} /\ j.pending = <<>>
  <2>1. at' = [at EXCEPT ![p] = after[p]] /\ job' = [job EXCEPT ![p] = NoJob]
    BY <1>5 DEF Proceed
  <2>2. NoJob.pending = <<>> /\ NoJob.targets = {} /\ NoJob.slow = {} /\ NoJob.out = NoFrame
    BY JobFields DEF NoJob
  <2> QED
    BY <1>1, <1>5, <2>1, <2>2, EmptyProper DEF GoesOn, JobAt, Delivering, Returns
<1> QED
  BY <1>2, <1>3, <1>4, <1>5

\* The steps of a delivery, and what they leave of the job.
Rest(p) == SubSeq(job[p].pending, 1, Len(job[p].pending) - 1)
Top(p) == job[p].pending[Len(job[p].pending)]

LEMMA PopJob ==
    ASSUME SeatInv, JobInv, NEW p \in Peers, Pop(p)
    PROVE  /\ GoesOn(p, Job(Rest(p), Top(p).out, Snapshot(p, Top(p).skip), {}))
           /\ JobInv'
           /\ at[p] = "pop" /\ job[p].pending # <<>> /\ Proper(Rest(p))
           /\ Snapshot(p, Top(p).skip) \subseteq Peers
<1> DEFINE j == Job(Rest(p), Top(p).out, Snapshot(p, Top(p).skip), {})
<1>1. at[p] = "pop" /\ Proceed(p, j)
  BY Zenon DEF Pop, Rest, Top
<1>2. DOMAIN job = Peers /\ JobAt(job[p], "pop")
  BY <1>1 DEF JobInv
<1>3. job[p].pending # <<>> /\ Proper(Rest(p))
  BY <1>2, FrontProper DEF JobAt, Rest
<1>4. Snapshot(p, Top(p).skip) \subseteq Peers
  BY DEF Snapshot, SeatInv, TypeOK
<1>5. Proper(j.pending) /\ j.targets \subseteq Peers
  BY <1>3, <1>4, JobFields
<1>6. GoesOn(p, j) /\ JobAt(job'[p], at'[p])
  <2> HIDE DEF j
  <2> QED
    BY <1>1, <1>2, <1>5, ProceedJob
<1>7. \A x \in Peers : x # p => at'[x] = at[x]
  <2> HIDE DEF j
  <2> QED
    BY <1>1, ProceedPlaces DEF SeatInv, TypeOK
<1>8. JobInv'
  BY <1>6, <1>7 DEF JobInv, GoesOn
<1> QED
  BY <1>1, <1>3, <1>4, <1>6, <1>8

LEMMA SendJob ==
    ASSUME SeatInv, JobInv, NEW p \in Peers, Send(p)
    PROVE  \E t \in job[p].targets :
             /\ \/ /\ Fits(t)
                   /\ queue' = [queue EXCEPT ![t] = Append(@, job[p].out)]
                   /\ Note(t, job[p].out)
                \/ ~Fits(t) /\ UNCHANGED <<queue, history>>
             /\ GoesOn(p, Offered(p, t)) /\ JobInv' /\ t \in Peers
<1>1. PICK t \in job[p].targets :
        /\ \/ /\ Fits(t)
              /\ queue' = [queue EXCEPT ![t] = Append(@, job[p].out)]
              /\ Note(t, job[p].out)
           \/ ~Fits(t) /\ UNCHANGED <<queue, history>>
        /\ Proceed(p, Offered(p, t))
  BY Zenon DEF Send
<1>2. DOMAIN job = Peers /\ Proper(job[p].pending) /\ job[p].targets \subseteq Peers
  BY DEF JobInv, JobAt
<1> DEFINE j == Offered(p, t)
<1>3. Proper(j.pending) /\ j.targets \subseteq Peers
  BY <1>2, JobFields DEF Offered
<1> HIDE DEF j
<1>4. GoesOn(p, j) /\ JobAt(job'[p], at'[p])
  BY <1>1, <1>2, <1>3, ProceedJob DEF j
<1>5. \A x \in Peers : x # p => at'[x] = at[x]
  BY <1>1, ProceedPlaces DEF SeatInv, TypeOK
<1>6. JobInv'
  BY <1>4, <1>5 DEF JobInv, GoesOn
<1> QED
  BY <1>1, <1>2, <1>4, <1>6 DEF j

\* One slow peer q less, and its departure pending if it was this task that saw to it.
Pending1(p, q) == Append(job[p].pending, Pending({}, Left(q)))
LEMMA EjectJob ==
    ASSUME SeatInv, JobInv, NEW p \in Peers, Eject(p)
    PROVE  \E q \in job[p].slow, r \in roomOf[p] :
             /\ \/ /\ r \in live /\ q \in seats[r] /\ Detach(r, q)
                   /\ GoesOn(p, Job(Pending1(p, q), job[p].out, {}, job[p].slow \ {q}))
                \/ /\ ~(r \in live /\ q \in seats[r]) /\ UNCHANGED registry
                   /\ GoesOn(p, Job(job[p].pending, job[p].out, {}, job[p].slow \ {q}))
             /\ UNCHANGED <<queue, closed, sent, got, told, view, roomOf, after>>
             /\ JobInv' /\ Proper(job[p].pending) /\ at[p] = "eject"
<1>1. PICK q \in job[p].slow, r \in roomOf[p] :
        /\ \/ /\ r \in live /\ q \in seats[r] /\ Detach(r, q)
              /\ Proceed(p, Job(Pending1(p, q), job[p].out, {}, job[p].slow \ {q}))
           \/ /\ ~(r \in live /\ q \in seats[r]) /\ UNCHANGED registry
              /\ Proceed(p, Job(job[p].pending, job[p].out, {}, job[p].slow \ {q}))
        /\ UNCHANGED <<queue, closed, sent, got, told, view, roomOf, after>>
        /\ at[p] = "eject"
  BY DEF Eject, Ejected, AlreadyGone, Pending1, wires, history
<1>2. DOMAIN job = Peers /\ Proper(job[p].pending)
  BY DEF JobInv, JobAt
<1>3. Proper(Pending1(p, q))
  BY <1>2, AppendProper DEF Pending1
<1>4. ASSUME NEW j, Proceed(p, j), Proper(j.pending), j.targets \subseteq Peers
      PROVE  GoesOn(p, j) /\ JobInv'
  <2>1. GoesOn(p, j) /\ JobAt(job'[p], at'[p])
    BY <1>2, <1>4, ProceedJob
  <2>2. \A x \in Peers : x # p => at'[x] = at[x]
    BY <1>4, ProceedPlaces DEF SeatInv, TypeOK
  <2> QED
    BY <2>1, <2>2 DEF JobInv, GoesOn
<1> DEFINE j1 == Job(Pending1(p, q), job[p].out, {}, job[p].slow \ {q})
           j2 == Job(job[p].pending, job[p].out, {}, job[p].slow \ {q})
<1>5. /\ j1.pending = Pending1(p, q) /\ j1.targets = {}
      /\ j2.pending = job[p].pending /\ j2.targets = {}
  BY JobFields
<1>6. CASE r \in live /\ q \in seats[r]
  <2>1. Detach(r, q) /\ Proceed(p, j1)
    BY <1>1, <1>6
  <2> HIDE DEF j1
  <2>2. GoesOn(p, j1) /\ JobInv'
    BY <1>3, <1>4, <1>5, <2>1
  <2> QED
    BY <1>1, <1>2, <1>6, <2>1, <2>2 DEF j1
<1>7. CASE ~(r \in live /\ q \in seats[r])
  <2>1. UNCHANGED registry /\ Proceed(p, j2)
    BY <1>1, <1>7
  <2> HIDE DEF j2
  <2>2. GoesOn(p, j2) /\ JobInv'
    BY <1>2, <1>4, <1>5, <2>1
  <2> QED
    BY <1>1, <1>2, <1>7, <2>1, <2>2 DEF j2
<1> QED
  BY <1>6, <1>7

\* The other steps, as far as queues, jobs and seats go.
Starts(p, skip, f) == \E then \in Returns : Deliver(p, skip, f, then)
Enters(p, r) ==
    /\ at[p] = "apply" /\ r \in Rooms
    /\ seats' = [seats EXCEPT ![r] = seats[r] \cup {p}]
    /\ roomOf' = [roomOf EXCEPT ![p] = {r}]
    /\ \E f : /\ f.kind = "reply" /\ queue' = [queue EXCEPT ![p] = <<f>>]
              /\ DOMAIN f.peers = seats[r] \ {p}
              /\ \A x \in seats[r] \ {p} : f.peers[x] = names[x]
    /\ \/ job' = job /\ at' = [at EXCEPT ![p] = "pump"] /\ seats[r] = {}
       \/ Starts(p, {p}, Joined(p, names[p]))
    /\ UNCHANGED <<names, closed, view, sent, got, told>>
Departs(p, r) ==
    /\ at[p] \in {"remove", "leave"} /\ r \in live /\ p \in seats[r] /\ Detach(r, p)
    /\ Starts(p, {}, Left(p))
    /\ UNCHANGED <<roomOf, queue, closed, view, sent, got, told>>
Finishes(p) ==
    /\ at[p] \notin Delivering /\ Over(p)
    /\ UNCHANGED <<names, seats, job, sent>>
Renames(p) ==
    /\ at[p] = "pump" /\ queue' = Queued(p, Answer)
    /\ \E name \in Nat : /\ names' = [names EXCEPT ![p] = name]
                         /\ Starts(p, {}, Renamed(p, name))
    /\ UNCHANGED <<seats, roomOf, closed, view, sent, got, told>>
Moves(p) ==
    /\ at[p] \notin Delivering /\ at[p] # "apply"
    /\ \E a \in {"pump", "remove", "leave"} : at' = [at EXCEPT ![p] = a]
    /\ queue' = queue \/ queue' = Queued(p, Answer)
    /\ UNCHANGED <<names, seats, roomOf, job, closed, view, sent, got, told>>
Rests == UNCHANGED <<names, seats, roomOf, job, at, queue, closed, view, sent, got, told>>

LEMMA Deliveries ==
    ASSUME SeatInv, [Next]_vars
    PROVE  \/ Rests
           \/ \E p \in Peers :
                \/ Pop(p) \/ Send(p) \/ Eject(p) \/ Relay(p) \/ Read(p) \/ WriterFails(p)
                \/ (\E r \in Rooms : Enters(p, r) \/ Departs(p, r))
                \/ Finishes(p) \/ Renames(p) \/ Moves(p)
<1>1. ASSUME NEW p \in Peers, Mint(p) PROVE \E r \in Rooms : Enters(p, r)
  <2>1. PICK r \in Rooms : Seat(p, r) /\ r \notin minted
    BY <1>1 DEF Mint
  <2>2. seats[r] = {}
    BY <2>1 DEF SeatInv, TypeOK
  <2> DEFINE f == Reply(<<>>)
  <2>3. f.kind = "reply" /\ DOMAIN f.peers = {}
    BY DEF Reply
  <2>4. queue' = [queue EXCEPT ![p] = <<f>>]
    BY <1>1 DEF Mint
  <2> HIDE DEF f
  <2>5. /\ at[p] = "apply" /\ job' = job /\ at' = [at EXCEPT ![p] = "pump"]
        /\ UNCHANGED <<names, closed, view, sent, got, told>>
    BY <1>1 DEF Mint, history
  <2> QED
    BY <2>1, <2>2, <2>3, <2>4, <2>5 DEF Enters, Seat
<1>2. ASSUME NEW p \in Peers, NEW r \in Rooms, Join(p, r) PROVE Enters(p, r)
  <2> DEFINE f == Reply(Roster(r, p))
  <2>1. /\ f.kind = "reply" /\ DOMAIN f.peers = seats[r] \ {p}
        /\ \A x \in seats[r] \ {p} : f.peers[x] = names[x]
    BY DEF Reply, Roster
  <2>2. queue' = [queue EXCEPT ![p] = <<f>>]
    BY <1>2 DEF Join, Welcome
  <2> HIDE DEF f
  <2>3. Starts(p, {p}, Joined(p, names[p]))
    BY <1>2 DEF Join, Starts, Returns
  <2> QED
    BY <1>2, <2>1, <2>2, <2>3 DEF Join, Enters, Seat, history
<1>3. ASSUME NEW p \in Peers, NEW r \in Rooms, NEW ok \in BOOLEAN,
             JoinUnfit(p, r) \/ RefuseJoin(p, r, ok)
      PROVE  Finishes(p)
  BY <1>3 DEF JoinUnfit, RefuseJoin, Finishes, registry, Delivering
<1>10. ASSUME NEW p \in Peers, RefuseMint(p) PROVE Finishes(p)
  BY <1>10 DEF RefuseMint, Finishes, registry, Delivering
<1>4. ASSUME NEW p \in Peers, Settle(p) PROVE Finishes(p) \/ Moves(p)
  BY <1>4 DEF Settle, Finishes, Moves, registry, Delivering
<1>5. ASSUME NEW p \in Peers, RemovePeer(p)
      PROVE  (\E r \in Rooms : Departs(p, r)) \/ Finishes(p) \/ Moves(p)
  <2>1. at[p] \in {"remove", "leave"} /\ sent' = sent /\ roomOf[p] \subseteq Rooms
    BY <1>5 DEF RemovePeer, SeatInv, TypeOK
  <2>2. PICK r \in roomOf[p] :
         \/ /\ r \in live /\ p \in seats[r]
            /\ Detach(r, p)
            /\ Deliver(p, {}, Left(p), IF at[p] = "leave" THEN "left" ELSE "removed")
            /\ UNCHANGED <<roomOf, wires, view, got, told>>
         \/ /\ \/ Over(p)
               \/ /\ at' = [at EXCEPT ![p] = "pump"]
                  /\ UNCHANGED <<roomOf, wires, view, got, told>>
            /\ UNCHANGED <<registry, after, job, due>>
    BY <1>5 DEF RemovePeer
  <2>3. CASE /\ r \in live /\ p \in seats[r]
             /\ Detach(r, p)
             /\ Deliver(p, {}, Left(p), IF at[p] = "leave" THEN "left" ELSE "removed")
             /\ UNCHANGED <<roomOf, wires, view, got, told>>
    <3>1. Starts(p, {}, Left(p))
      BY <2>3 DEF Starts, Returns
    <3> QED
      BY <2>1, <2>3, <3>1 DEF Departs, wires
  <2>4. CASE /\ \/ Over(p)
                \/ /\ at' = [at EXCEPT ![p] = "pump"]
                   /\ UNCHANGED <<roomOf, wires, view, got, told>>
             /\ UNCHANGED <<registry, after, job, due>>
    BY <2>1, <2>4 DEF Finishes, Moves, registry, wires, Delivering
  <2> QED
    BY <2>2, <2>3, <2>4
<1>6. ASSUME NEW p \in Peers, Rename(p) PROVE Renames(p) \/ Moves(p)
  <2>1. /\ at[p] = "pump" /\ queue' = Queued(p, Answer)
        /\ UNCHANGED <<seats, roomOf, closed, view, sent, got, told>>
    BY <1>6 DEF Rename, history
  <2>2. PICK then \in {"pump", "remove"} :
         \/ /\ Deliver(p, {}, Renamed(p, names[p] + 1), then)
            /\ names' = [names EXCEPT ![p] = names[p] + 1]
         \/ at' = [at EXCEPT ![p] = then] /\ UNCHANGED <<names, after, job>>
    BY <1>6 DEF Rename
  <2>3. CASE /\ Deliver(p, {}, Renamed(p, names[p] + 1), then)
             /\ names' = [names EXCEPT ![p] = names[p] + 1]
    <3>1. names[p] + 1 \in Nat
      BY DEF SeatInv, TypeOK
    <3> QED
      BY <2>1, <2>3, <3>1 DEF Renames, Starts, Returns
  <2>4. CASE at' = [at EXCEPT ![p] = then] /\ UNCHANGED <<names, after, job>>
    BY <2>1, <2>4 DEF Moves, Delivering
  <2> QED
    BY <2>2, <2>3, <2>4
<1>7. ASSUME NEW p \in Peers, Request(p) PROVE Moves(p)
  BY <1>7 DEF Request, Moves, registry, history, Delivering
<1>8. ASSUME NEW p \in Peers, Stop(p) \/ Disconnect(p) PROVE Moves(p)
  BY <1>8 DEF Stop, Disconnect, Moves, registry, wires, history, Delivering
<1>9. ASSUME TimerFires \/ UNCHANGED vars PROVE Rests
  BY <1>9 DEF TimerFires, Rests, vars, registry, running, wires, history
<1> QED
  BY <1>1, <1>2, <1>3, <1>4, <1>5, <1>6, <1>7, <1>8, <1>9, <1>10 DEF Next, TaskStep, Apply

\* A task that is set going has one frame to deliver, and nothing in hand.
SetGoing(p, skip, f) ==
    /\ DOMAIN job' = Peers
    /\ \A x \in Peers : x # p => job'[x] = job[x]
    /\ job'[p].pending = <<Pending(skip, f)>> /\ job'[p].out = NoFrame
    /\ job'[p].targets = {} /\ job'[p].slow = {}

LEMMA StartsJob ==
    ASSUME SeatInv, JobInv, NEW p \in Peers, NEW skip, NEW f, Starts(p, skip, f)
    PROVE  SetGoing(p, skip, f) /\ JobInv' /\ at' = [at EXCEPT ![p] = "pop"]
<1> DEFINE j == Job(<<Pending(skip, f)>>, NoFrame, {}, {})
<1>1. job' = [job EXCEPT ![p] = j] /\ at' = [at EXCEPT ![p] = "pop"]
  BY DEF Starts, Deliver
<1>2. j.pending = <<Pending(skip, f)>> /\ j.out = NoFrame /\ j.targets = {} /\ j.slow = {}
  BY JobFields
<1>3. Proper(<<Pending(skip, f)>>) /\ <<Pending(skip, f)>> # <<>>
  BY OneProper
<1> HIDE DEF j
<1>4. SetGoing(p, skip, f)
  BY <1>1, <1>2 DEF JobInv, SetGoing
<1>5. at'[p] = "pop" /\ \A x \in Peers : x # p => at'[x] = at[x]
  BY <1>1 DEF SeatInv, TypeOK
<1>6. JobAt(job'[p], "pop")
  BY <1>3, <1>4 DEF SetGoing, JobAt, Delivering
<1>7. JobInv'
  BY <1>4, <1>5, <1>6 DEF JobInv, SetGoing
<1> QED
  BY <1>1, <1>4, <1>7

\* A step that leaves the jobs alone, and a task that had none at a place without one.
LEMMA JobsKept ==
    ASSUME SeatInv, JobInv, job' = job, NEW p \in Peers,
           at' = at \/ (at[p] \notin Delivering
                        /\ \E a : a \notin Delivering /\ at' = [at EXCEPT ![p] = a])
    PROVE  JobInv'
<1>1. CASE at' = at
  BY <1>1 DEF JobInv
<1>2. CASE at[p] \notin Delivering /\ \E a : a \notin Delivering /\ at' = [at EXCEPT ![p] = a]
  <2>1. at'[p] \notin Delivering /\ \A x \in Peers : x # p => at'[x] = at[x]
    BY <1>2 DEF SeatInv, TypeOK
  <2>2. JobAt(job[p], at'[p])
    BY <1>2, <2>1 DEF JobInv, JobAt, Delivering
  <2> QED
    BY <2>1, <2>2 DEF JobInv
<1> QED
  BY <1>1, <1>2

LEMMA JobInit == Init => JobInv
<1> SUFFICES ASSUME Init PROVE JobInv
  OBVIOUS
<1>1. NoJob.pending = <<>> /\ NoJob.targets = {} /\ NoJob.slow = {} /\ NoJob.out = NoFrame
  BY JobFields DEF NoJob
<1>2. job = [p \in Peers |-> NoJob] /\ at = [p \in Peers |-> "apply"]
  BY DEF Init
<1>3. JobAt(NoJob, "apply")
  BY <1>1, EmptyProper DEF JobAt, Delivering
<1> QED
  BY <1>2, <1>3 DEF JobInv

LEMMA JobStep ==
    ASSUME SeatInv, JobInv, [Next]_vars PROVE JobInv'
<1>1. CASE Rests
  BY <1>1 DEF Rests, JobInv
<1>2. ASSUME NEW p \in Peers, Pop(p) \/ Send(p) \/ Eject(p) PROVE JobInv'
  BY <1>2, PopJob, SendJob, EjectJob
<1>3. ASSUME NEW p \in Peers, Relay(p) PROVE JobInv'
  BY <1>3, StartsJob DEF Relay, Starts, Returns
<1>4. ASSUME NEW p \in Peers, Read(p) \/ WriterFails(p) PROVE JobInv'
  BY <1>4, JobsKept DEF Read, WriterFails, running
<1>5. ASSUME NEW p \in Peers, NEW r \in Rooms, Enters(p, r) PROVE JobInv'
  <2>1. at[p] \notin Delivering /\ "pump" \notin Delivering
    BY <1>5 DEF Enters, Delivering
  <2>2. CASE job' = job /\ at' = [at EXCEPT ![p] = "pump"]
    BY <2>1, <2>2, JobsKept
  <2>3. CASE \E name : Starts(p, {p}, Joined(p, name))
    BY <2>3, StartsJob
  <2> QED
    BY <1>5, <2>2, <2>3 DEF Enters
<1>6. ASSUME NEW p \in Peers, NEW r \in Rooms, Departs(p, r) PROVE JobInv'
  BY <1>6, StartsJob DEF Departs
<1>7. ASSUME NEW p \in Peers, Renames(p) PROVE JobInv'
  BY <1>7, StartsJob DEF Renames
<1>8. ASSUME NEW p \in Peers, Finishes(p) \/ Moves(p) PROVE JobInv'
  <2>1. at[p] \notin Delivering /\ job' = job
    BY <1>8 DEF Finishes, Moves
  <2>2. \E a : a \notin Delivering /\ at' = [at EXCEPT ![p] = a]
    BY <1>8 DEF Finishes, Moves, Over, Delivering
  <2> QED
    BY <2>1, <2>2, JobsKept
<1> QED
  BY <1>1, <1>2, <1>3, <1>4, <1>5, <1>6, <1>7, <1>8, Deliveries

----------------------------------------------------------------------------
\* The reply comes first.

\* A step of a delivery moves its own task, and never back to where it applied.
LEMMA StaysSeated ==
    ASSUME SeatInv, NEW p \in Peers, Pop(p) \/ Send(p) \/ Eject(p)
    PROVE  /\ at[p] # "apply" /\ at'[p] # "apply"
           /\ \A x \in Peers : x # p => at'[x] = at[x]
<1>1. at[p] \in Delivering /\ \E j : Proceed(p, j)
  <2>1. CASE Pop(p)
    BY <2>1, Zenon DEF Pop, Delivering
  <2>2. CASE Send(p)
    BY <2>2, Zenon DEF Send, Delivering
  <2>3. CASE Eject(p)
    BY <2>3, Zenon DEF Eject, Delivering
  <2> QED
    BY <2>1, <2>2, <2>3
<1>2. PICK x \in {"send", "eject", "pop", after[p]} : at' = [at EXCEPT ![p] = x]
  BY <1>1, ProceedPlaces
<1>3. x # "apply"
  BY DEF SeatInv, TypeOK
<1> QED
  BY <1>1, <1>2, <1>3 DEF SeatInv, TypeOK, Delivering

\* What is appended to a queue does not come first in it.
LEMMA AppendWelcomed ==
    ASSUME NEW q, Proper(q), Welcomed(q), NEW f PROVE Welcomed(Append(q, f))
<1>1. 1 \in DOMAIN q
  BY ProperLength DEF Welcomed
<1> QED
  BY <1>1, AppendProper DEF Welcomed

\* A client that is seated stays so, and its reply seats it.
LEMMA HearSeated ==
    ASSUME NEW v, NEW f, v.seated \/ f.kind = "reply" PROVE Hear(v, f).seated
  BY DEF Hear

LEMMA PopWelcome ==
    ASSUME SeatInv, JobInv, WelcomeInv, NEW p \in Peers, Pop(p)
    PROVE  WelcomeInv'
<1> DEFINE targets == Snapshot(p, Top(p).skip)
<1>1. UNCHANGED <<queue, closed, view>>
  BY DEF Pop, wires
<1>2. \A x \in Peers : x # p => job'[x] = job[x] /\ at'[x] = at[x]
  BY PopJob, StaysSeated DEF GoesOn
<1>3. job'[p].targets = targets
  BY PopJob, JobFields DEF GoesOn
<1>4. \A q \in Peers : at[q] = "apply" => q \notin targets
  BY Unseated DEF Snapshot, SeatInv, TypeOK
<1>5. at[p] # "apply" /\ at'[p] # "apply"
  BY StaysSeated
<1> HIDE DEF targets
<1>6. ASSUME NEW q \in Peers PROVE WelcomeFor(q)'
  BY <1>1, <1>2, <1>3, <1>4, <1>5 DEF WelcomeInv, WelcomeFor
<1> QED
  BY <1>1, <1>6 DEF WelcomeInv

LEMMA SendWelcome ==
    ASSUME SeatInv, JobInv, WelcomeInv, NEW p \in Peers, Send(p)
    PROVE  WelcomeInv'
<1>1. UNCHANGED <<closed, view>>
  BY DEF Send
<1>2. PICK t \in job[p].targets :
        /\ \/ Fits(t) /\ queue' = [queue EXCEPT ![t] = Append(@, job[p].out)]
           \/ queue' = queue
        /\ GoesOn(p, Offered(p, t)) /\ t \in Peers
  BY SendJob
<1>3. \A x \in Peers : x # p => job'[x] = job[x] /\ at'[x] = at[x]
  BY <1>2, StaysSeated DEF GoesOn
<1>4. job'[p].targets \subseteq job[p].targets
  BY <1>2, JobFields DEF GoesOn, Offered
<1>5. at[p] # "apply" /\ at'[p] # "apply"
  BY StaysSeated
<1>6. ASSUME NEW q \in Peers, queue'[q] = queue[q] PROVE WelcomeFor(q)'
  BY <1>1, <1>3, <1>4, <1>5, <1>6 DEF WelcomeInv, WelcomeFor
<1>7. CASE queue' = queue
  BY <1>1, <1>6, <1>7 DEF WelcomeInv
<1>8. CASE Fits(t) /\ queue' = [queue EXCEPT ![t] = Append(@, job[p].out)]
  <2> DEFINE a == Append(queue[t], job[p].out)
  <2>1. queue'[t] = a /\ (\A q \in Peers : q # t => queue'[q] = queue[q]) /\ DOMAIN queue' = Peers
    BY <1>2, <1>8 DEF WelcomeInv
  <2>2. t \notin closed /\ Proper(queue[t]) /\ at[t] # "apply"
    BY <1>2, <1>8 DEF Fits, WelcomeInv, WelcomeFor
  <2>3. Proper(a) /\ (Welcomed(queue[t]) => Welcomed(a))
    BY <2>2, AppendProper, AppendWelcomed
  <2> HIDE DEF a
  <2>4. at'[t] # "apply" /\ (view[t].seated \/ Welcomed(queue[t]))
    BY <1>2, <1>3, <1>5, <2>2 DEF WelcomeInv, WelcomeFor
  <2>5. WelcomeFor(t)'
    BY <1>1, <2>1, <2>2, <2>3, <2>4 DEF WelcomeFor
  <2> QED
    BY <1>1, <1>6, <2>1, <2>5 DEF WelcomeInv
<1> QED
  BY <1>2, <1>7, <1>8

\* An answer on one's own queue, which was not the first frame either.
LEMMA AnswerWelcome ==
    ASSUME SeatInv, WelcomeInv, NEW p \in Peers, at[p] # "apply",
           queue' = queue \/ queue' = Queued(p, Answer),
           UNCHANGED <<closed, view>>,
           NEW a \in Places \ {"apply"}, at' = [at EXCEPT ![p] = a],
           \A x, q \in Peers : q \in job'[x].targets => q \in job[x].targets
    PROVE  WelcomeInv'
<1>1. at'[p] # "apply" /\ \A x \in Peers : x # p => at'[x] = at[x]
  BY DEF SeatInv, TypeOK
<1>2. ASSUME NEW q \in Peers, queue'[q] = queue[q] PROVE WelcomeFor(q)'
  BY <1>1, <1>2 DEF WelcomeInv, WelcomeFor
<1>3. CASE queue' = queue
  BY <1>2, <1>3 DEF WelcomeInv
<1>4. CASE Fits(p) /\ queue' = [queue EXCEPT ![p] = Append(@, Answer)]
  <2> DEFINE s == Append(queue[p], Answer)
  <2>1. queue'[p] = s /\ (\A q \in Peers : q # p => queue'[q] = queue[q]) /\ DOMAIN queue' = Peers
    BY <1>4 DEF WelcomeInv
  <2>2. p \notin closed /\ Proper(queue[p])
    BY <1>4 DEF Fits, WelcomeInv, WelcomeFor
  <2>3. Proper(s) /\ (Welcomed(queue[p]) => Welcomed(s))
    BY <2>2, AppendProper, AppendWelcomed
  <2> HIDE DEF s
  <2>4. WelcomeFor(p)'
    BY <1>1, <2>1, <2>2, <2>3 DEF WelcomeFor, WelcomeInv
  <2> QED
    BY <1>2, <2>1, <2>4 DEF WelcomeInv
<1> QED
  BY <1>3, <1>4 DEF Queued

\* Reading the first frame: it was the reply, or the client had read it before.
LEMMA ReadWelcome ==
    ASSUME SeatInv, WelcomeInv, NEW p \in Peers, Read(p)
    PROVE  WelcomeInv'
<1> DEFINE v == Hear(view[p], Head(queue[p]))
           s == Tail(queue[p])
<1>1. /\ view' = [view EXCEPT ![p] = v] /\ queue' = [queue EXCEPT ![p] = s]
      /\ queue[p] # <<>> /\ UNCHANGED <<closed, at, job>>
  BY DEF Read, running
<1>2. Proper(queue[p]) /\ at[p] # "apply" /\ p \notin closed
  BY <1>1 DEF WelcomeInv, WelcomeFor
<1>3. Proper(s) /\ Head(queue[p]) = queue[p][1]
  BY <1>1, <1>2, TailProper
<1>4. v.seated
  BY <1>1, <1>2, <1>3, HearSeated DEF WelcomeInv, WelcomeFor, Welcomed
<1> HIDE DEF v, s
<1>5. WelcomeFor(p)'
  BY <1>1, <1>2, <1>3, <1>4 DEF WelcomeInv, WelcomeFor
<1>6. ASSUME NEW q \in Peers, q # p PROVE WelcomeFor(q)'
  BY <1>1, <1>6 DEF WelcomeInv, WelcomeFor
<1> QED
  BY <1>1, <1>5, <1>6 DEF WelcomeInv

\* A queue that is closed, by its writer or with its task.
LEMMA UnplugWelcome ==
    ASSUME SeatInv, WelcomeInv, NEW p \in Peers, Unplug(p), job' = job,
           at'[p] # "apply", \A x \in Peers : x # p => at'[x] = at[x]
    PROVE  WelcomeInv'
<1>1. /\ queue' = [queue EXCEPT ![p] = <<>>] /\ closed' = closed \cup {p}
      /\ view' = [view EXCEPT ![p] = NoView]
  BY DEF Unplug
<1>2. WelcomeFor(p)'
  BY <1>1, EmptyProper DEF WelcomeInv, WelcomeFor
<1>3. ASSUME NEW q \in Peers, q # p PROVE WelcomeFor(q)'
  BY <1>1, <1>3 DEF WelcomeInv, WelcomeFor
<1> QED
  BY <1>1, <1>2, <1>3 DEF WelcomeInv

LEMMA EntersWelcome ==
    ASSUME SeatInv, JobInv, WelcomeInv, NEW p \in Peers, NEW r \in Rooms, Enters(p, r)
    PROVE  WelcomeInv'
<1>1. at[p] = "apply" /\ UNCHANGED <<closed, view>> /\ p \notin closed
  BY DEF Enters, WelcomeInv, WelcomeFor
<1>2. PICK f : f.kind = "reply" /\ queue' = [queue EXCEPT ![p] = <<f>>]
  BY DEF Enters
<1>3. /\ at'[p] # "apply" /\ \A x \in Peers : x # p => at'[x] = at[x]
      /\ \A x, q \in Peers : q \in job'[x].targets => q \in job[x].targets
  <2>1. CASE job' = job /\ at' = [at EXCEPT ![p] = "pump"]
    BY <2>1 DEF SeatInv, TypeOK
  <2>2. CASE \E name : Starts(p, {p}, Joined(p, name))
    <3>1. PICK name : Starts(p, {p}, Joined(p, name))
      BY <2>2
    <3>2. SetGoing(p, {p}, Joined(p, name)) /\ at' = [at EXCEPT ![p] = "pop"]
      BY <3>1, StartsJob
    <3> QED
      BY <3>2 DEF SetGoing, SeatInv, TypeOK
  <2> QED
    BY <2>1, <2>2 DEF Enters
<1>4. Proper(<<f>>) /\ Welcomed(<<f>>)
  BY <1>2, OneProper DEF Welcomed
<1> DEFINE s == <<f>>
<1>5. queue'[p] = s /\ (\A q \in Peers : q # p => queue'[q] = queue[q]) /\ DOMAIN queue' = Peers
  BY <1>2 DEF WelcomeInv
<1>6. Proper(s) /\ Welcomed(s)
  BY <1>4
<1> HIDE DEF s
<1>7. WelcomeFor(p)'
  BY <1>1, <1>3, <1>5, <1>6 DEF WelcomeFor
<1>8. ASSUME NEW q \in Peers, q # p PROVE WelcomeFor(q)'
  BY <1>1, <1>3, <1>5, <1>8 DEF WelcomeInv, WelcomeFor
<1> QED
  BY <1>1, <1>5, <1>7, <1>8 DEF WelcomeInv

LEMMA WelcomeInit == Init => WelcomeInv
  BY EmptyProper, JobFields DEF Init, WelcomeInv, WelcomeFor, NoJob

LEMMA WelcomeStep ==
    ASSUME SeatInv, JobInv, WelcomeInv, [Next]_vars PROVE WelcomeInv'
<1>1. CASE Rests
  BY <1>1 DEF Rests, WelcomeInv, WelcomeFor
<1>2. ASSUME NEW p \in Peers, Pop(p) \/ Send(p) PROVE WelcomeInv'
  BY <1>2, PopWelcome, SendWelcome
<1>3. ASSUME NEW p \in Peers, Eject(p) PROVE WelcomeInv'
  <2>1. UNCHANGED <<queue, closed, view>>
    BY <1>3 DEF Eject, wires
  <2>2. /\ \A x \in Peers : x # p => job'[x] = job[x]
        /\ job'[p].targets = {}
    <3>1. PICK q \in job[p].slow, r \in roomOf[p] :
            \/ GoesOn(p, Job(Pending1(p, q), job[p].out, {}, job[p].slow \ {q}))
            \/ GoesOn(p, Job(job[p].pending, job[p].out, {}, job[p].slow \ {q}))
      BY <1>3, EjectJob
    <3> QED
      BY <3>1, JobFields DEF GoesOn
  <2>3. \A x \in Peers : x # p => at'[x] = at[x]
    BY <1>3, StaysSeated
  <2>4. at[p] # "apply" /\ at'[p] # "apply"
    BY <1>3, StaysSeated
  <2>5. ASSUME NEW q \in Peers PROVE WelcomeFor(q)'
    BY <2>1, <2>2, <2>3, <2>4 DEF WelcomeInv, WelcomeFor
  <2> QED
    BY <2>1, <2>5 DEF WelcomeInv
<1>4. ASSUME NEW p \in Peers, NEW skip, NEW f, Starts(p, skip, f), at[p] # "apply",
             queue' = queue \/ queue' = Queued(p, Answer), UNCHANGED <<closed, view>>
      PROVE  WelcomeInv'
  <2>1. SetGoing(p, skip, f) /\ at' = [at EXCEPT ![p] = "pop"]
    BY <1>4, StartsJob
  <2>2. \A x, q \in Peers : q \in job'[x].targets => q \in job[x].targets
    BY <2>1 DEF SetGoing
  <2>3. "pop" \in Places \ {"apply"}
    BY DEF Places
  <2> QED
    BY <1>4, <2>1, <2>2, <2>3, AnswerWelcome
<1>5. ASSUME NEW p \in Peers, Relay(p) PROVE WelcomeInv'
  BY <1>4, <1>5 DEF Relay, Starts, Returns, wires
<1>6. ASSUME NEW p \in Peers, NEW r \in Rooms, Departs(p, r) PROVE WelcomeInv'
  BY <1>4, <1>6 DEF Departs
<1>7. ASSUME NEW p \in Peers, Renames(p) PROVE WelcomeInv'
  BY <1>4, <1>7 DEF Renames
<1>8. ASSUME NEW p \in Peers, Read(p) PROVE WelcomeInv'
  BY <1>8, ReadWelcome
<1>9. ASSUME NEW p \in Peers, WriterFails(p) PROVE WelcomeInv'
  <2>1. Unplug(p) /\ UNCHANGED <<at, job>> /\ at[p] # "apply"
    BY <1>9 DEF WriterFails, running, WelcomeInv, WelcomeFor
  <2> QED
    BY <2>1, UnplugWelcome
<1>10. ASSUME NEW p \in Peers, NEW r \in Rooms, Enters(p, r) PROVE WelcomeInv'
  BY <1>10, EntersWelcome
<1>11. ASSUME NEW p \in Peers, Finishes(p) PROVE WelcomeInv'
  <2>1. Unplug(p) /\ job' = job /\ at' = [at EXCEPT ![p] = "done"]
    BY <1>11 DEF Finishes, Over
  <2> QED
    BY <2>1, UnplugWelcome DEF SeatInv, TypeOK
<1>12. ASSUME NEW p \in Peers, Moves(p) PROVE WelcomeInv'
  <2>1. PICK a \in {"pump", "remove", "leave"} : at' = [at EXCEPT ![p] = a]
    BY <1>12 DEF Moves
  <2>2. a \in Places \ {"apply"}
    BY DEF Places
  <2> QED
    BY <1>12, <2>1, <2>2, AnswerWelcome DEF Moves
<1> QED
  BY <1>1, <1>2, <1>3, <1>5, <1>6, <1>7, <1>8, <1>9, <1>10, <1>11, <1>12, Deliveries

\* The first frame a connection is given is the reply that seats it, whoever is
\* publishing into the room meanwhile: no frame is sent to a peer that has not
\* been seated, and the reply is queued under the lock that seats it.
THEOREM ReplyFirst == Spec => []ReplyComesFirst
<1>1. Init => SeatInv /\ JobInv /\ WelcomeInv
  BY SeatInit, JobInit, WelcomeInit
<1>2. SeatInv /\ JobInv /\ WelcomeInv /\ [Next]_vars => (SeatInv /\ JobInv /\ WelcomeInv)'
  BY SeatStep, JobStep, WelcomeStep
<1>3. WelcomeInv => ReplyComesFirst
  BY DEF WelcomeInv, WelcomeFor, Welcomed, ReplyComesFirst
<1> QED
  BY <1>1, <1>2, <1>3, PTL DEF Spec

----------------------------------------------------------------------------
\* A departure is told once.

\* A step that makes no departure of q's and tells nobody of it.
LEMMA ToldKept ==
    ASSUME NEW q \in Peers, ToldFor(q),
           \A x \in Peers : \A i \in DOMAIN job'[x].pending :
             IsLeft(job'[x].pending[i].out, q) =>
               i \in DOMAIN job[x].pending /\ IsLeft(job[x].pending[i].out, q),
           \A x \in Peers : InHand(x, q)' =>
             InHand(x, q) /\ job'[x].targets \subseteq job[x].targets,
           Departed(q) => Departed(q)',
           \A p \in Peers : q \in told'[p] => q \in told[p]
    PROVE  ToldFor(q)'
<1>1. \A x \in Peers : Waiting(x, q)' => Waiting(x, q)
  BY DEF Waiting
<1>2. OnePlace(q)'
  <2>1. OnePlace(q)
    BY DEF ToldFor
  <2>2. ASSUME NEW x \in Peers, NEW y \in Peers,
               NEW i \in DOMAIN job'[x].pending, NEW j \in DOMAIN job'[y].pending,
               IsLeft(job'[x].pending[i].out, q), IsLeft(job'[y].pending[j].out, q)
        PROVE  x = y /\ i = j
    <3>1. /\ i \in DOMAIN job[x].pending /\ IsLeft(job[x].pending[i].out, q)
          /\ j \in DOMAIN job[y].pending /\ IsLeft(job[y].pending[j].out, q)
      BY <2>2
    <3> QED
      BY <2>1, <3>1 DEF OnePlace
  <2>3. ASSUME NEW x \in Peers, NEW y \in Peers
        PROVE  /\ ~(Waiting(x, q) /\ InHand(y, q))'
               /\ (InHand(x, q) /\ InHand(y, q))' => x = y
    BY <1>1, <2>1 DEF OnePlace
  <2> QED
    BY <2>2, <2>3 DEF OnePlace
<1>3. \A x \in Peers : Waiting(x, q)' \/ InHand(x, q)' => Departed(q)'
  BY <1>1 DEF ToldFor
<1>4. ASSUME NEW p \in Peers, q \in told'[p]
      PROVE  /\ Departed(q)'
             /\ \A x \in Peers : ~Waiting(x, q)' /\ (InHand(x, q)' => p \notin job'[x].targets)
  BY <1>1, <1>4 DEF ToldFor
<1> QED
  BY <1>2, <1>3, <1>4 DEF ToldFor

\* The step that makes q's departure, for p to tell: q had a seat until now.
LEMMA ToldMade ==
    ASSUME NEW q \in Peers, ToldFor(q), ~Departed(q), Departed(q)',
           NEW p \in Peers, NEW k,
           \A x \in Peers : \A i \in DOMAIN job'[x].pending :
             \/ x = p /\ i = k
             \/ i \in DOMAIN job[x].pending
                  /\ job'[x].pending[i] = job[x].pending[i],
           \A x \in Peers : InHand(x, q)' => InHand(x, q),
           told' = told
    PROVE  ToldFor(q)'
<1>1. \A x \in Peers : ~Waiting(x, q) /\ ~InHand(x, q) /\ q \notin told[x]
  BY DEF ToldFor
<1>2. \A x \in Peers : ~InHand(x, q)' /\ q \notin told'[x]
  BY <1>1
<1>3. \A x \in Peers : \A i \in DOMAIN job'[x].pending :
        IsLeft(job'[x].pending[i].out, q) => x = p /\ i = k
  BY <1>1 DEF Waiting
<1>4. OnePlace(q)'
  BY <1>2, <1>3 DEF OnePlace
<1> QED
  BY <1>2, <1>4 DEF ToldFor

\* Who has left stays so, whoever else is seated or detached.
LEMMA StaysAway ==
    ASSUME SeatInv, NEW q \in Peers, Departed(q), at'[q] # "apply",
           seats' = seats
    PROVE  Departed(q)'
  BY DEF Departed, SeatInv, TypeOK

\* Frames that are not departures name nobody.
LEMMA OtherFrames ==
    ASSUME NEW q, NEW p, NEW name
    PROVE  /\ ~IsLeft(NoFrame, q) /\ ~IsLeft(Data(p, name), q)
           /\ ~IsLeft(Joined(p, name), q) /\ ~IsLeft(Renamed(p, name), q)
           /\ IsLeft(Left(p), q) <=> p = q
           /\ Names(NoFrame) /\ Names(Data(p, name)) /\ Names(Joined(p, name))
           /\ Names(Renamed(p, name)) /\ (p \in Peers => Names(Left(p)))
  BY DEF IsLeft, Names, NoFrame, Data, Joined, Renamed, Left

\* One frame, pending.
LEMMA OnePending ==
    ASSUME NEW skip, NEW f
    PROVE  /\ DOMAIN <<Pending(skip, f)>> = {1}
           /\ <<Pending(skip, f)>>[1].out = f /\ <<Pending(skip, f)>>[1].skip = skip
           /\ Len(<<Pending(skip, f)>>) = 1
<1>1. Pending(skip, f).out = f /\ Pending(skip, f).skip = skip
  BY DEF Pending
<1> QED
  BY <1>1, OneProper

\* Taking the next frame: if it is q's departure, it was the only one.
LEMMA PopTold ==
    ASSUME SeatInv, JobInv, ToldInv, NEW p \in Peers, Pop(p)
    PROVE  ToldInv'
<1> DEFINE n == Len(job[p].pending)
           f == Top(p).out
<1>1. told' = told /\ seats' = seats
  BY DEF Pop, history, registry
<1>2. \A x \in Peers : x # p => job'[x] = job[x] /\ at'[x] = at[x]
  BY PopJob, StaysSeated DEF GoesOn
<1>3. job'[p].pending = Rest(p) /\ (job'[p].out = f \/ job'[p].out = NoFrame)
  BY PopJob, JobFields DEF GoesOn
<1>4. /\ n \in DOMAIN job[p].pending /\ n \in Nat
      /\ DOMAIN Rest(p) = 1 .. n - 1 /\ DOMAIN job[p].pending = 1 .. n
      /\ \A i \in DOMAIN Rest(p) : Rest(p)[i] = job[p].pending[i]
  BY PopJob, FrontProper, ProperLength DEF JobInv, JobAt, Rest
<1>5. job[p].out = NoFrame /\ f = job[p].pending[n].out
  BY PopJob DEF JobInv, JobAt, Top
<1>6. at'[p] # "apply" /\ at[p] # "apply"
  BY StaysSeated
<1> HIDE DEF n, f
<1>7. \A i \in DOMAIN Rest(p) : i \in DOMAIN job[p].pending /\ i # n
  BY <1>4
<1>8. ASSUME NEW q \in Peers PROVE ToldFor(q)'
  <2>1. ToldFor(q) /\ OnePlace(q)
    BY DEF ToldInv, ToldFor
  <2>2. Departed(q) => Departed(q)'
    BY <1>1, <1>2, <1>6, StaysAway DEF Departed
  <2>3. CASE ~IsLeft(f, q)
    <3>1. ASSUME NEW x \in Peers, NEW i \in DOMAIN job'[x].pending,
                 IsLeft(job'[x].pending[i].out, q)
          PROVE  i \in DOMAIN job[x].pending /\ IsLeft(job[x].pending[i].out, q)
      BY <1>2, <1>3, <1>4, <1>7, <3>1
    <3>2. ASSUME NEW x \in Peers, InHand(x, q)'
          PROVE  InHand(x, q) /\ job'[x].targets \subseteq job[x].targets
      BY <1>2, <1>3, <2>3, <3>2, OtherFrames DEF InHand
    <3> QED
      BY <1>1, <2>1, <2>2, <3>1, <3>2, ToldKept
  <2>4. CASE IsLeft(f, q)
    <3>1. Waiting(p, q)
      BY <1>4, <1>5, <2>4 DEF Waiting
    <3>2. Departed(q)' /\ \A x \in Peers : ~InHand(x, q) /\ q \notin told[x]
      BY <2>1, <2>2, <3>1 DEF ToldFor, OnePlace
    <3>3. ASSUME NEW x \in Peers, NEW i \in DOMAIN job'[x].pending
          PROVE  ~IsLeft(job'[x].pending[i].out, q)
      <4>1. CASE x = p
        BY <1>3, <1>4, <1>5, <1>7, <2>1, <2>4, <3>3, <4>1 DEF OnePlace
      <4>2. CASE x # p
        BY <1>2, <1>4, <1>5, <2>1, <2>4, <3>3, <4>2 DEF OnePlace
      <4> QED
        BY <4>1, <4>2
    <3>4. \A x \in Peers : ~Waiting(x, q)'
      BY <3>3 DEF Waiting
    <3>5. \A x \in Peers : x # p => ~InHand(x, q)'
      BY <1>2, <3>2 DEF InHand
    <3>6. OnePlace(q)'
      BY <3>3, <3>4, <3>5 DEF OnePlace
    <3> QED
      BY <1>1, <3>2, <3>4, <3>6 DEF ToldFor
  <2> QED
    BY <2>3, <2>4
<1>9. ASSUME NEW x \in Peers
      PROVE  Names(job'[x].out) /\ \A i \in DOMAIN job'[x].pending : Names(job'[x].pending[i].out)
  <2>1. CASE x # p
    BY <1>2, <2>1 DEF ToldInv
  <2>2. CASE x = p
    <3>1. Names(f) /\ Names(NoFrame)
      BY <1>4, <1>5, OtherFrames DEF ToldInv
    <3> QED
      BY <1>3, <1>4, <1>7, <2>2, <3>1 DEF ToldInv
  <2> QED
    BY <2>1, <2>2
<1> QED
  BY <1>1, <1>8, <1>9 DEF ToldInv

\* Telling t: it is no longer a target of the one task that tells.
LEMMA SendTold ==
    ASSUME SeatInv, JobInv, ToldInv, NEW p \in Peers, Send(p)
    PROVE  ToldInv'
<1> DEFINE f == job[p].out
<1>1. seats' = seats
  BY DEF Send, registry
<1>2. PICK t \in job[p].targets :
        /\ \/ Note(t, job[p].out)
           \/ UNCHANGED history
        /\ GoesOn(p, Offered(p, t)) /\ t \in Peers
  BY SendJob
<1>3. \A x \in Peers : x # p => job'[x] = job[x] /\ at'[x] = at[x]
  BY <1>2, StaysSeated DEF GoesOn
<1>4. /\ job'[p].pending = job[p].pending /\ job'[p].targets = job[p].targets \ {t}
      /\ job'[p].out = f \/ job'[p].out = NoFrame
  BY <1>2, JobFields DEF GoesOn, Offered
<1>5. at'[p] # "apply" /\ at[p] # "apply"
  BY StaysSeated
<1>6. /\ DOMAIN told' = Peers
      /\ \A x \in Peers : x # t => told'[x] = told[x]
      /\ \/ told'[t] = told[t]
         \/ f.kind = "left" /\ told'[t] = told[t] \cup {f.peer}
  BY <1>2 DEF Note, history, ToldInv
<1> HIDE DEF f
<1>7. ASSUME NEW q \in Peers PROVE ToldFor(q)'
  <2>1. ToldFor(q) /\ OnePlace(q)
    BY DEF ToldInv, ToldFor
  <2>2. Departed(q) => Departed(q)'
    BY <1>1, <1>3, <1>5, StaysAway DEF Departed
  <2>3. ASSUME NEW x \in Peers, NEW i \in DOMAIN job'[x].pending,
               IsLeft(job'[x].pending[i].out, q)
        PROVE  i \in DOMAIN job[x].pending /\ IsLeft(job[x].pending[i].out, q)
    BY <1>3, <1>4, <2>3
  <2>4. ASSUME NEW x \in Peers, InHand(x, q)'
        PROVE  InHand(x, q) /\ job'[x].targets \subseteq job[x].targets
    BY <1>3, <1>4, <2>4, OtherFrames DEF InHand, f
  <2>5. CASE ~IsLeft(f, q)
    <3>1. \A x \in Peers : q \in told'[x] => q \in told[x]
      BY <1>6, <2>5 DEF IsLeft
    <3> QED
      BY <2>1, <2>2, <2>3, <2>4, <3>1, ToldKept
  <2>6. CASE IsLeft(f, q)
    <3>1. InHand(p, q)
      BY <2>6 DEF InHand, f
    <3>2. /\ Departed(q)'
          /\ \A x \in Peers : ~Waiting(x, q) /\ (InHand(x, q) => x = p)
      BY <2>1, <2>2, <3>1 DEF ToldFor, OnePlace
    <3>3. \A x \in Peers : ~Waiting(x, q)'
      BY <2>3, <3>2 DEF Waiting
    <3>4. \A x \in Peers : InHand(x, q)' => x = p
      BY <2>4, <3>2
    <3>5. OnePlace(q)'
      BY <3>3, <3>4 DEF OnePlace, Waiting
    <3>6. ASSUME NEW y \in Peers, q \in told'[y] PROVE y \notin job'[p].targets
      <4>1. CASE y = t
        BY <1>4, <4>1
      <4>2. CASE y # t
        BY <1>4, <1>6, <2>1, <3>1, <3>6, <4>2 DEF ToldFor
      <4> QED
        BY <4>1, <4>2
    <3> QED
      BY <3>2, <3>3, <3>4, <3>5, <3>6 DEF ToldFor
  <2> QED
    BY <2>5, <2>6
<1>8. ASSUME NEW x \in Peers
      PROVE  Names(job'[x].out) /\ \A i \in DOMAIN job'[x].pending : Names(job'[x].pending[i].out)
  BY <1>3, <1>4, OtherFrames DEF ToldInv, f
<1> QED
  BY <1>6, <1>7, <1>8 DEF ToldInv

\* A detached peer has departed: it sat nowhere else.
LEMMA DetachedAway ==
    ASSUME SeatInv, NEW r \in live, NEW q \in seats[r], Detach(r, q)
    PROVE  /\ r \in Rooms /\ q \in Peers /\ at[q] # "apply"
           /\ ~Departed(q) /\ (at'[q] # "apply" => Departed(q)')
           /\ \A x \in Peers : Departed(x) /\ at'[x] # "apply" => Departed(x)'
<1>1. r \in Rooms /\ q \in Peers /\ seats' = [seats EXCEPT ![r] = seats[r] \ {q}]
  BY DetachSeats
<1>2. at[q] # "apply" /\ \A x \in Rooms : x # r => q \notin seats[x]
  BY <1>1 DEF SeatInv, SeatsAreServed, TypeOK
<1> QED
  BY <1>1, <1>2 DEF Departed, SeatInv, TypeOK

LEMMA EjectTold ==
    ASSUME SeatInv, JobInv, ToldInv, NEW p \in Peers, Eject(p)
    PROVE  ToldInv'
<1>1. PICK q \in job[p].slow, r \in roomOf[p] :
        /\ \/ /\ r \in live /\ q \in seats[r] /\ Detach(r, q)
              /\ GoesOn(p, Job(Pending1(p, q), job[p].out, {}, job[p].slow \ {q}))
           \/ /\ UNCHANGED registry
              /\ GoesOn(p, Job(job[p].pending, job[p].out, {}, job[p].slow \ {q}))
        /\ told' = told /\ Proper(job[p].pending)
  BY EjectJob
<1>2. \A x \in Peers : x # p => job'[x] = job[x]
  BY <1>1 DEF GoesOn
<1>3. \A x \in Peers : at[x] # "apply" => at'[x] # "apply"
  BY StaysSeated
<1>4. job'[p].targets = {} /\ (job'[p].out = job[p].out \/ job'[p].out = NoFrame)
  BY <1>1, JobFields DEF GoesOn
<1>5. \A z, x \in Peers : InHand(x, z)' => InHand(x, z) /\ job'[x].targets \subseteq job[x].targets
  BY <1>2, <1>4, OtherFrames DEF InHand
<1>6. CASE /\ r \in live /\ q \in seats[r] /\ Detach(r, q)
           /\ GoesOn(p, Job(Pending1(p, q), job[p].out, {}, job[p].slow \ {q}))
  <2> DEFINE k == Len(job[p].pending) + 1
             s == Pending1(p, q)
  <2>1. job'[p].pending = s
    BY <1>6, JobFields DEF GoesOn
  <2>2. /\ DOMAIN s = 1 .. k /\ DOMAIN job[p].pending = 1 .. k - 1 /\ k \in Nat
        /\ \A i \in DOMAIN job[p].pending : s[i] = job[p].pending[i]
        /\ s[k] = Pending({}, Left(q))
    BY <1>1, AppendProper, ProperLength DEF Pending1
  <2>3. s[k].out = Left(q)
    BY <2>2 DEF Pending
  <2>4. \A i \in DOMAIN s : i = k \/ i \in DOMAIN job[p].pending
    BY <2>2
  <2>5. q \in Peers
    BY <1>6, DetachedAway
  <2> HIDE DEF k, s
  <2>6. ASSUME NEW x \in Peers, NEW i \in DOMAIN job'[x].pending
        PROVE  \/ x = p /\ i = k
               \/ i \in DOMAIN job[x].pending /\ job'[x].pending[i] = job[x].pending[i]
    BY <1>2, <2>1, <2>2, <2>4
  <2>7. ToldFor(q)'
    <3>1. ToldFor(q) /\ ~Departed(q) /\ Departed(q)'
      BY <1>3, <1>6, <2>5, DetachedAway DEF ToldInv
    <3> QED
      BY <1>1, <1>5, <2>5, <2>6, <3>1, ToldMade
  <2>8. ASSUME NEW z \in Peers, z # q PROVE ToldFor(z)'
    <3>1. ToldFor(z) /\ (Departed(z) => Departed(z)')
      BY <1>3, <1>6, DetachedAway DEF ToldInv, Departed
    <3>2. ~IsLeft(s[k].out, z)
      BY <2>3, <2>8, OtherFrames
    <3>3. ASSUME NEW x \in Peers, NEW i \in DOMAIN job'[x].pending,
                 IsLeft(job'[x].pending[i].out, z)
          PROVE  i \in DOMAIN job[x].pending /\ IsLeft(job[x].pending[i].out, z)
      BY <2>1, <2>6, <3>2, <3>3
    <3> QED
      BY <1>1, <1>5, <3>1, <3>3, ToldKept
  <2>9. ASSUME NEW x \in Peers
        PROVE  Names(job'[x].out) /\ \A i \in DOMAIN job'[x].pending : Names(job'[x].pending[i].out)
    <3>1. Names(s[k].out) /\ Names(NoFrame)
      BY <2>3, <2>5, OtherFrames
    <3> QED
      BY <1>2, <1>4, <2>1, <2>6, <3>1 DEF ToldInv
  <2> QED
    BY <1>1, <2>7, <2>8, <2>9 DEF ToldInv
<1>7. CASE /\ UNCHANGED registry
           /\ GoesOn(p, Job(job[p].pending, job[p].out, {}, job[p].slow \ {q}))
  <2>1. job'[p].pending = job[p].pending /\ seats' = seats
    BY <1>7, JobFields DEF GoesOn, registry
  <2>2. ASSUME NEW z \in Peers PROVE ToldFor(z)'
    <3>1. ToldFor(z) /\ (Departed(z) => Departed(z)')
      BY <1>3, <2>1, StaysAway DEF ToldInv, Departed
    <3> QED
      BY <1>1, <1>2, <1>5, <2>1, <3>1, ToldKept
  <2>3. ASSUME NEW x \in Peers
        PROVE  Names(job'[x].out) /\ \A i \in DOMAIN job'[x].pending : Names(job'[x].pending[i].out)
    BY <1>2, <1>4, <2>1, OtherFrames DEF ToldInv
  <2> QED
    BY <1>1, <2>2, <2>3 DEF ToldInv
<1> QED
  BY <1>1, <1>6, <1>7

\* A task that is set going with frame f, which is a departure or not.
LEMMA StartsTold ==
    ASSUME ToldInv, NEW p \in Peers, NEW skip, NEW f, SetGoing(p, skip, f),
           told' = told, Names(f),
           \A q \in Peers : Departed(q) => Departed(q)',
           \A q \in Peers : IsLeft(f, q) => ~Departed(q) /\ Departed(q)'
    PROVE  ToldInv'
<1>1. \A x \in Peers : x # p => job'[x] = job[x]
  BY DEF SetGoing
<1>2. /\ DOMAIN job'[p].pending = {1} /\ job'[p].pending[1].out = f
      /\ job'[p].out = NoFrame /\ job'[p].targets = {}
  BY OnePending DEF SetGoing
<1>3. \A q, x \in Peers : InHand(x, q)' => InHand(x, q) /\ job'[x].targets \subseteq job[x].targets
  BY <1>1, <1>2, OtherFrames DEF InHand
<1>4. ASSUME NEW q \in Peers PROVE ToldFor(q)'
  <2>1. ToldFor(q)
    BY DEF ToldInv
  <2>2. CASE IsLeft(f, q)
    <3>1. ASSUME NEW x \in Peers, NEW i \in DOMAIN job'[x].pending
          PROVE  \/ x = p /\ i = 1
                 \/ i \in DOMAIN job[x].pending /\ job'[x].pending[i] = job[x].pending[i]
      BY <1>1, <1>2
    <3> QED
      BY <1>3, <2>1, <2>2, <3>1, ToldMade
  <2>3. CASE ~IsLeft(f, q)
    <3>1. ASSUME NEW x \in Peers, NEW i \in DOMAIN job'[x].pending,
                 IsLeft(job'[x].pending[i].out, q)
          PROVE  i \in DOMAIN job[x].pending /\ IsLeft(job[x].pending[i].out, q)
      BY <1>1, <1>2, <2>3, <3>1
    <3> QED
      BY <1>3, <2>1, <3>1, ToldKept
  <2> QED
    BY <2>2, <2>3
<1>5. ASSUME NEW x \in Peers
      PROVE  Names(job'[x].out) /\ \A i \in DOMAIN job'[x].pending : Names(job'[x].pending[i].out)
  BY <1>1, <1>2, OtherFrames DEF ToldInv
<1> QED
  BY <1>4, <1>5 DEF ToldInv

\* A step that leaves the jobs alone.
LEMMA QuietTold ==
    ASSUME ToldInv, job' = job, DOMAIN told' = Peers,
           \A x \in Peers : told'[x] \subseteq told[x],
           \A q \in Peers : Departed(q) => Departed(q)'
    PROVE  ToldInv'
<1>1. ASSUME NEW q \in Peers PROVE ToldFor(q)'
  <2>1. /\ ToldFor(q) /\ \A x \in Peers : InHand(x, q)' => InHand(x, q)
        /\ \A x \in Peers : q \in told'[x] => q \in told[x]
    BY DEF ToldInv, InHand
  <2> QED
    BY <2>1, ToldKept
<1> QED
  BY <1>1 DEF ToldInv

LEMMA ToldInit == Init => ToldInv
<1> SUFFICES ASSUME Init PROVE ToldInv
  OBVIOUS
<1>1. NoJob.pending = <<>> /\ NoJob.out = NoFrame /\ DOMAIN <<>> = {}
  BY JobFields DEF NoJob
<1>2. \A x \in Peers : job[x] = NoJob /\ told[x] = {}
  BY DEF Init
<1>3. DOMAIN told = Peers
  BY DEF Init
<1>4. ASSUME NEW q \in Peers, NEW x \in Peers
      PROVE  ~Waiting(x, q) /\ ~InHand(x, q) /\ q \notin told[x]
  BY <1>1, <1>2, OtherFrames DEF Waiting, InHand
<1>5. ASSUME NEW q \in Peers PROVE ToldFor(q)
  BY <1>1, <1>2, <1>4 DEF ToldFor, OnePlace
<1>6. Names(NoFrame)
  BY OtherFrames
<1> QED
  BY <1>1, <1>2, <1>3, <1>5, <1>6 DEF ToldInv

LEMMA ToldStep ==
    ASSUME SeatInv, JobInv, ToldInv, [Next]_vars PROVE ToldInv'
<1>1. ASSUME job' = job, told' = told, seats' = seats, at' = at PROVE ToldInv'
  BY <1>1, QuietTold DEF ToldInv, Departed
<1>2. CASE Rests
  BY <1>1, <1>2 DEF Rests
<1>3. ASSUME NEW p \in Peers, Pop(p) \/ Send(p) \/ Eject(p) PROVE ToldInv'
  BY <1>3, PopTold, SendTold, EjectTold
<1>4. ASSUME NEW p \in Peers, NEW skip, NEW f, Starts(p, skip, f), told' = told, Names(f),
             \A q \in Peers : ~IsLeft(f, q), at[p] # "apply", seats' = seats
      PROVE  ToldInv'
  <2>1. SetGoing(p, skip, f) /\ at' = [at EXCEPT ![p] = "pop"]
    BY <1>4, StartsJob
  <2>2. \A q \in Peers : at[q] # "apply" => at'[q] # "apply"
    BY <2>1 DEF SeatInv, TypeOK
  <2>3. \A q \in Peers : Departed(q) => Departed(q)'
    BY <1>4, <2>2 DEF Departed
  <2> QED
    BY <1>4, <2>1, <2>3, StartsTold
<1>5. ASSUME NEW p \in Peers, Relay(p) PROVE ToldInv'
  <2>1. Starts(p, {p}, Data(p, sent[p] + 1)) /\ told' = told /\ seats' = seats /\ at[p] # "apply"
    BY <1>5 DEF Relay, Starts, Returns, registry
  <2> QED
    BY <1>4, <2>1, OtherFrames
<1>6. ASSUME NEW p \in Peers, Renames(p) PROVE ToldInv'
  <2>1. PICK name : Starts(p, {}, Renamed(p, name))
    BY <1>6 DEF Renames
  <2> QED
    BY <1>4, <1>6, <2>1, OtherFrames DEF Renames
<1>7. ASSUME NEW p \in Peers, NEW r \in Rooms, Departs(p, r) PROVE ToldInv'
  <2>1. /\ r \in live /\ p \in seats[r] /\ Detach(r, p)
        /\ Starts(p, {}, Left(p)) /\ told' = told
    BY <1>7 DEF Departs
  <2>2. SetGoing(p, {}, Left(p)) /\ at' = [at EXCEPT ![p] = "pop"]
    BY <2>1, StartsJob
  <2>3. \A q \in Peers : at[q] # "apply" => at'[q] # "apply"
    BY <2>2 DEF SeatInv, TypeOK
  <2>4. /\ ~Departed(p) /\ Departed(p)'
        /\ \A q \in Peers : Departed(q) => Departed(q)'
    BY <2>1, <2>3, DetachedAway DEF Departed
  <2>5. Names(Left(p)) /\ \A q \in Peers : IsLeft(Left(p), q) => q = p
    BY OtherFrames
  <2> DEFINE f == Left(p)
  <2>6. SetGoing(p, {}, f) /\ Names(f) /\ \A q \in Peers : IsLeft(f, q) => ~Departed(q) /\ Departed(q)'
    BY <2>2, <2>4, <2>5
  <2> HIDE DEF f
  <2> QED
    BY <2>1, <2>4, <2>6, StartsTold
<1>8. ASSUME NEW p \in Peers, Read(p) PROVE ToldInv'
  BY <1>1, <1>8 DEF Read, running, registry, history
<1>9. ASSUME NEW p \in Peers, told' = [told EXCEPT ![p] = {}], job' = job, seats' = seats,
             \A q \in Peers : at[q] # "apply" => at'[q] # "apply"
      PROVE  ToldInv'
  <2>1. DOMAIN told' = Peers /\ \A x \in Peers : told'[x] \subseteq told[x]
    BY <1>9 DEF ToldInv
  <2>2. \A q \in Peers : Departed(q) => Departed(q)'
    BY <1>9 DEF Departed
  <2> QED
    BY <1>9, <2>1, <2>2, QuietTold
<1>10. ASSUME NEW p \in Peers, WriterFails(p) PROVE ToldInv'
  BY <1>9, <1>10 DEF WriterFails, Unplug, running, registry
<1>11. ASSUME NEW p \in Peers, Finishes(p) PROVE ToldInv'
  <2>1. \A q \in Peers : at[q] # "apply" => at'[q] # "apply"
    BY <1>11 DEF Finishes, Over, SeatInv, TypeOK
  <2> QED
    BY <1>9, <1>11, <2>1 DEF Finishes, Over, Unplug
<1>12. ASSUME NEW p \in Peers, Moves(p) PROVE ToldInv'
  <2>1. /\ job' = job /\ told' = told /\ seats' = seats
        /\ \E a \in {"pump", "remove", "leave"} : at' = [at EXCEPT ![p] = a]
    BY <1>12 DEF Moves
  <2>2. \A q \in Peers : Departed(q) => Departed(q)'
    BY <2>1 DEF Departed, SeatInv, TypeOK
  <2> QED
    BY <2>1, <2>2, QuietTold DEF ToldInv
<1>13. ASSUME NEW p \in Peers, NEW r \in Rooms, Enters(p, r) PROVE ToldInv'
  <2>1. /\ at[p] = "apply" /\ told' = told
        /\ seats' = [seats EXCEPT ![r] = seats[r] \cup {p}]
    BY <1>13 DEF Enters
  <2>2. ASSUME at'[p] # "apply", \A x \in Peers : x # p => at'[x] = at[x]
        PROVE  \A q \in Peers : Departed(q) => Departed(q)'
    BY <2>1, <2>2 DEF Departed, SeatInv, TypeOK
  <2>3. CASE job' = job /\ at' = [at EXCEPT ![p] = "pump"]
    <3>1. \A q \in Peers : Departed(q) => Departed(q)'
      BY <2>2, <2>3 DEF SeatInv, TypeOK
    <3> QED
      BY <2>1, <2>3, <3>1, QuietTold DEF ToldInv
  <2>4. CASE \E name : Starts(p, {p}, Joined(p, name))
    <3>1. PICK name : Starts(p, {p}, Joined(p, name))
      BY <2>4
    <3>2. SetGoing(p, {p}, Joined(p, name)) /\ at' = [at EXCEPT ![p] = "pop"]
      BY <3>1, StartsJob
    <3>3. \A q \in Peers : Departed(q) => Departed(q)'
      BY <2>2, <3>2 DEF SeatInv, TypeOK
    <3>4. Names(Joined(p, name)) /\ \A q \in Peers : ~IsLeft(Joined(p, name), q)
      BY OtherFrames
    <3> QED
      BY <2>1, <3>2, <3>3, <3>4, StartsTold
  <2> QED
    BY <1>13, <2>3, <2>4 DEF Enters
<1> QED
  BY <1>2, <1>3, <1>5, <1>6, <1>7, <1>8, <1>10, <1>11, <1>12, <1>13, Deliveries

\* Departures and payloads reach a queue in one way: a task sends the frame it has
\* in hand to one of its targets.
LEMMA NewFrames ==
    ASSUME SeatInv, JobInv, WelcomeInv, [Next]_vars, NEW p \in Peers,
           NewFrame(p).kind \in {"left", "data"}
    PROVE  \E x \in Peers : p \in job[x].targets /\ NewFrame(p) = job[x].out
<1>1. NoFrame.kind = "none" /\ Answer.kind = "answer"
  BY DEF NoFrame, Answer
<1>2. Len(queue'[p]) > Len(queue[p]) /\ NewFrame(p) = queue'[p][Len(queue'[p])]
  BY <1>1 DEF NewFrame
<1>3. Proper(queue[p]) /\ Len(queue[p]) \in Nat
  BY ProperLength DEF WelcomeInv, WelcomeFor
<1>4. queue'[p] # queue[p] /\ queue'[p] # <<>>
  BY <1>2, <1>3
<1>5. ASSUME NEW f, queue'[p] = Append(queue[p], f) PROVE NewFrame(p) = f
  <2> DEFINE s == Append(queue[p], f)
  <2>1. Len(s) = Len(queue[p]) + 1 /\ s[Len(queue[p]) + 1] = f
    BY <1>3, AppendProper
  <2> HIDE DEF s
  <2> QED
    BY <1>2, <1>5, <2>1 DEF s
<1>6. ASSUME NEW x \in Peers, queue' = queue \/ queue' = Queued(x, Answer) PROVE FALSE
  <2>1. x = p /\ queue'[p] = Append(queue[p], Answer)
    BY <1>4, <1>6 DEF Queued, WelcomeInv
  <2> QED
    BY <1>1, <1>5, <2>1
<1>7. ASSUME NEW x \in Peers, Unplug(x) PROVE FALSE
  BY <1>4, <1>7 DEF Unplug, WelcomeInv
<1>8. ASSUME NEW x \in Peers, Read(x) PROVE FALSE
  <2>1. x = p /\ queue'[p] = Tail(queue[p]) /\ queue[p] # <<>>
    BY <1>4, <1>8 DEF Read, WelcomeInv
  <2>2. queue[p] \in Seq({queue[p][i] : i \in DOMAIN queue[p]})
    BY <1>3 DEF Proper
  <2> DEFINE S == {queue[p][i] : i \in DOMAIN queue[p]}
             s == queue[p]
  <2>3. s \in Seq(S) /\ s # <<>>
    BY <2>1, <2>2
  <2> HIDE DEF S, s
  <2>4. Len(Tail(s)) = Len(s) - 1 /\ Len(s) \in Nat
    BY <2>3
  <2> QED
    BY <1>2, <2>1, <2>4 DEF s
<1>9. ASSUME NEW x \in Peers, NEW r \in Rooms, Enters(x, r) PROVE FALSE
  <2>1. PICK f : f.kind = "reply" /\ queue' = [queue EXCEPT ![x] = <<f>>]
    BY <1>9 DEF Enters
  <2>2. x = p /\ queue'[p] = <<f>>
    BY <1>4, <2>1 DEF WelcomeInv
  <2>3. Len(<<f>>) = 1 /\ <<f>>[1] = f
    BY OneProper
  <2> QED
    BY <1>2, <2>1, <2>2, <2>3
<1>10. ASSUME NEW x \in Peers, Send(x)
       PROVE  p \in job[x].targets /\ NewFrame(p) = job[x].out
  <2>1. PICK t \in job[x].targets :
          \/ queue' = [queue EXCEPT ![t] = Append(@, job[x].out)]
          \/ queue' = queue
    BY <1>10, SendJob
  <2>2. t = p /\ queue'[p] = Append(queue[p], job[x].out)
    BY <1>4, <2>1 DEF WelcomeInv
  <2> QED
    BY <1>5, <2>1, <2>2
<1>11. ASSUME queue' = queue PROVE FALSE
  BY <1>4, <1>11
<1>12. ASSUME NEW x \in Peers, Pop(x) \/ Eject(x) \/ Relay(x) PROVE FALSE
  BY <1>11, <1>12 DEF Pop, Eject, Relay, wires
<1> QED
  BY <1>6, <1>7, <1>8, <1>9, <1>10, <1>11, <1>12, Deliveries
     DEF WriterFails, Finishes, Over, Departs, Renames, Moves, Rests

\* A peer is told of a departure once, whichever of several tasks found the peer
\* slow and whether or not it was leaving by itself: the departure is made where
\* the seat is given up, and a seat is given up once.
THEOREM ToldOnce == Spec => LeftIsToldOnce
<1> DEFINE Inv == SeatInv /\ JobInv /\ WelcomeInv /\ ToldInv
           Once == \A p \in Peers : NewFrame(p).kind = "left" => NewFrame(p).peer \notin told[p]
<1>1. Init => Inv
  BY SeatInit, JobInit, WelcomeInit, ToldInit
<1>2. Inv /\ [Next]_vars => Inv'
  BY SeatStep, JobStep, WelcomeStep, ToldStep
<1>3. Inv /\ [Next]_vars => Once
  <2> SUFFICES ASSUME Inv, [Next]_vars, NEW p \in Peers, NewFrame(p).kind = "left"
               PROVE  NewFrame(p).peer \notin told[p]
    OBVIOUS
  <2>1. PICK x \in Peers : p \in job[x].targets /\ NewFrame(p) = job[x].out
    BY NewFrames
  <2> DEFINE q == job[x].out.peer
  <2>2. q \in Peers /\ InHand(x, q)
    BY <2>1 DEF ToldInv, Names, InHand, IsLeft
  <2>3. q \notin told[p]
    BY <2>1, <2>2 DEF ToldInv, ToldFor
  <2> QED
    BY <2>1, <2>3
<1>4. LeftIsToldOnce <=> [][Once]_vars
  BY DEF LeftIsToldOnce
<1> QED
  BY <1>1, <1>2, <1>3, <1>4, PTL DEF Spec

----------------------------------------------------------------------------
\* A stream has no holes.

\* What a step that is none of x's leaves of x's stream, and of p's part in it.
Since(p, x) ==
    /\ at'[x] = "apply" => at[x] = "apply"
    /\ at'[p] = "apply" => at[p] = "apply"
    /\ sent'[x] = sent[x]
    /\ got'[p][x] = got[p][x] \/ got'[p][x] = 0
    /\ Together(p, x)' => Together(p, x) \/ got'[p][x] = 0

LEMMA PairKept ==
    ASSUME NEW p \in Peers, NEW x \in Peers, StreamPair(p, x), Since(p, x), job'[x] = job[x]
    PROVE  StreamPair(p, x)'
  BY DEF StreamPair, Since, Unsent

\* A task that has no payload to send, before and after.
Silent(x) == ~Unsent(x) /\ ~IsData(job[x].out)
LEMMA PairSilent ==
    ASSUME NEW p \in Peers, NEW x \in Peers, StreamPair(p, x), Since(p, x),
           Silent(x), Silent(x)'
    PROVE  StreamPair(p, x)'
  BY DEF StreamPair, Since, Silent

LEMMA TaskSilent ==
    ASSUME NEW x \in Peers, StreamTask(x), Silent(x)', sent'[x] = sent[x],
           at'[x] = "apply" => at[x] = "apply"
    PROVE  StreamTask(x)'
  BY DEF StreamTask, Silent, Unsent

\* Frames that are not payloads.
LEMMA NotData ==
    ASSUME NEW p, NEW name
    PROVE  /\ ~IsData(NoFrame) /\ ~IsData(Left(p)) /\ ~IsData(Joined(p, name))
           /\ ~IsData(Renamed(p, name)) /\ IsData(Data(p, name))
           /\ Data(p, name).peer = p /\ Data(p, name).n = name
  BY DEF IsData, NoFrame, Data, Joined, Renamed, Left

\* Only a task about to take its next frame has a payload pending, and one that is
\* not delivering has none at all.
LEMMA SilentAt ==
    ASSUME JobInv, StreamInv, NEW x \in Peers
    PROVE  /\ at[x] # "pop" => ~Unsent(x)
           /\ at[x] \notin {"send", "eject"} => ~IsData(job[x].out)
           /\ at[x] \notin Delivering => Silent(x)
<1>1. JobAt(job[x], at[x]) /\ StreamTask(x) /\ ~IsData(NoFrame)
  BY NotData DEF StreamInv, JobInv
<1>2. at[x] # "pop" => ~Unsent(x)
  BY <1>1 DEF StreamTask, Unsent
<1>3. at[x] \notin {"send", "eject"} => ~IsData(job[x].out)
  BY <1>1 DEF JobAt
<1> QED
  BY <1>2, <1>3 DEF Silent, Delivering

LEMMA PopStream ==
    ASSUME SeatInv, JobInv, StreamInv, NEW p \in Peers, Pop(p)
    PROVE  StreamInv'
<1> DEFINE n == Len(job[p].pending)
           top == Top(p)
           targets == Snapshot(p, top.skip)
<1>1. UNCHANGED <<sent, got, roomOf, seats>>
  BY DEF Pop, history, registry
<1>2. \A x \in Peers : x # p => job'[x] = job[x] /\ at'[x] = at[x]
  BY PopJob, StaysSeated DEF GoesOn
<1>3. /\ job'[p].pending = Rest(p) /\ job'[p].targets = targets /\ job'[p].slow = {}
      /\ \/ job'[p].out = top.out
         \/ targets = {} /\ job'[p].out = NoFrame
  BY PopJob, JobFields DEF GoesOn
<1>4. /\ n \in DOMAIN job[p].pending /\ n \in Nat
      /\ DOMAIN Rest(p) = 1 .. n - 1 /\ DOMAIN job[p].pending = 1 .. n
      /\ \A i \in DOMAIN Rest(p) : Rest(p)[i] = job[p].pending[i]
  BY PopJob, FrontProper, ProperLength DEF JobInv, JobAt, Rest
<1>5. ~IsData(job[p].out) /\ top = job[p].pending[n] /\ at[p] = "pop"
  BY PopJob, SilentAt DEF Top
<1>6. at'[p] # "apply" /\ at[p] # "apply"
  BY StaysSeated
<1>7. \A y \in Peers : y \in targets <=> Together(y, p) /\ y \notin top.skip
  BY DEF Snapshot, Together, SeatInv, TypeOK
<1>8. \A x, y \in Peers : Since(y, x)
  BY <1>1, <1>2, <1>6 DEF Since, Together
<1>9. ~Unsent(p)'
  <2> SUFFICES ASSUME NEW i \in DOMAIN Rest(p), IsData(Rest(p)[i].out) PROVE FALSE
    BY <1>3 DEF Unsent
  <2>1. i \in DOMAIN job[p].pending /\ IsData(job[p].pending[i].out)
    BY <1>4
  <2>2. n = 1
    BY <2>1 DEF StreamInv, StreamTask
  <2> QED
    BY <1>4, <2>2
<1> HIDE DEF n, top, targets
<1>10. ASSUME NEW x \in Peers, x # p PROVE StreamTask(x)' /\ \A y \in Peers : StreamPair(y, x)'
  BY <1>1, <1>2, <1>8, <1>10, PairKept DEF StreamInv, StreamTask
<1>11. StreamTask(p)' /\ \A y \in Peers : StreamPair(y, p)'
  <2>1. CASE ~IsData(top.out)
    <3>1. ~Unsent(p)
      <4> SUFFICES ASSUME NEW i \in DOMAIN job[p].pending, IsData(job[p].pending[i].out)
                   PROVE  FALSE
        BY DEF Unsent
      <4>1. n = 1
        BY DEF StreamInv, StreamTask, n
      <4> QED
        BY <1>4, <1>5, <2>1, <4>1
    <3>2. Silent(p) /\ Silent(p)'
      BY <1>3, <1>5, <1>9, <2>1, <3>1, NotData DEF Silent
    <3> QED
      BY <1>1, <1>6, <1>8, <3>2, PairSilent, TaskSilent DEF StreamInv
  <2>2. CASE IsData(top.out)
    <3>1. top.skip = {p} /\ top.out.peer = p /\ top.out.n = sent[p] /\ Unsent(p)
      <4>1. StreamTask(p) /\ n \in DOMAIN job[p].pending /\ IsData(job[p].pending[n].out)
        BY <1>4, <1>5, <2>2 DEF StreamInv
      <4> QED
        BY <1>5, <4>1 DEF StreamTask, Unsent
    <3>2. \A i \in DOMAIN job'[p].pending : ~IsData(job'[p].pending[i].out)
      BY <1>9 DEF Unsent
    <3>3. p \notin job'[p].targets
      BY <1>3, <1>7, <3>1
    <3>4. StreamTask(p)'
      BY <1>1, <1>3, <1>6, <3>1, <3>2, <3>3, NotData DEF StreamTask
    <3>5. ASSUME NEW y \in Peers PROVE StreamPair(y, p)'
      <4>1. StreamPair(y, p)
        BY DEF StreamInv
      <4>2. Together(y, p)' <=> Together(y, p)
        BY <1>1 DEF Together
      <4>3. y \in targets => Together(y, p) /\ y # p
        BY <1>7, <3>1
      <4>4. y # p /\ Together(y, p) => y \in targets /\ job'[p].out = top.out
        BY <1>3, <1>7, <3>1
      <4>5. y \in targets => got[y][p] \in {0, sent[p] - 1}
        BY <3>1, <4>1, <4>3 DEF StreamPair
      <4>6. at'[y] = "apply" => at[y] = "apply"
        BY <1>2, <1>6
      <4> QED
        BY <1>1, <1>3, <1>6, <1>9, <2>2, <4>1, <4>2, <4>4, <4>5, <4>6 DEF StreamPair
    <3> QED
      BY <3>4, <3>5
  <2> QED
    BY <2>1, <2>2
<1>12. sent' \in [Peers -> Nat] /\ got' \in [Peers -> [Peers -> Nat]]
  BY <1>1 DEF StreamInv
<1> QED
  BY <1>10, <1>11, <1>12 DEF StreamInv

LEMMA SendStream ==
    ASSUME SeatInv, JobInv, WelcomeInv, StreamInv, NEW p \in Peers, Send(p)
    PROVE  StreamInv'
<1> DEFINE f == job[p].out
<1>1. UNCHANGED <<roomOf, seats>> /\ at[p] = "send"
  BY DEF Send, registry
<1>2. PICK t \in job[p].targets :
        /\ \/ Fits(t) /\ Note(t, job[p].out)
           \/ ~Fits(t) /\ UNCHANGED history
        /\ GoesOn(p, Offered(p, t)) /\ t \in Peers
  BY SendJob
<1>3. \A x \in Peers : x # p => job'[x] = job[x] /\ at'[x] = at[x]
  BY <1>2, StaysSeated DEF GoesOn
<1>4. /\ job'[p].pending = job[p].pending /\ job'[p].targets = job[p].targets \ {t}
      /\ job'[p].slow = IF Fits(t) THEN job[p].slow ELSE job[p].slow \cup {t}
      /\ \/ job'[p].out = f
         \/ job'[p].targets = {} /\ job'[p].slow = {} /\ job'[p].out = NoFrame
  BY <1>2, JobFields DEF GoesOn, Offered
<1>5. at'[p] # "apply" /\ at[p] # "apply" /\ at[t] # "apply"
  BY <1>2, StaysSeated DEF WelcomeInv, WelcomeFor
<1>6. /\ IsData(f) \/ got' = got
      /\ IsData(f) /\ Fits(t) => got' = [got EXCEPT ![t][f.peer] = f.n]
      /\ ~Fits(t) => got' = got
  BY <1>2 DEF Note, history, IsData
<1> HIDE DEF f
<1>7. sent' = sent
  BY <1>2 DEF Note, history
<1>8. ~Unsent(p) /\ ~Unsent(p)'
  <2>1. ~Unsent(p)
    BY <1>1, SilentAt
  <2> QED
    BY <1>4, <2>1 DEF Unsent
<1>9. \A x, y \in Peers : Together(y, x)' <=> Together(y, x)
  BY <1>1 DEF Together
<1>10. \A x \in Peers : at'[x] = "apply" => at[x] = "apply"
  BY <1>3, <1>5
<1>11. CASE ~IsData(f)
  <2>1. got' = got
    BY <1>6, <1>11
  <2>2. \A x, y \in Peers : Since(y, x)
    BY <1>7, <1>9, <1>10, <2>1 DEF Since
  <2>3. Silent(p) /\ Silent(p)'
    BY <1>4, <1>8, <1>11, NotData DEF Silent, f
  <2>4. ASSUME NEW x \in Peers, x # p PROVE StreamTask(x)' /\ \A y \in Peers : StreamPair(y, x)'
    BY <1>3, <1>7, <2>2, <2>4, PairKept DEF StreamInv, StreamTask
  <2>5. StreamTask(p)' /\ \A y \in Peers : StreamPair(y, p)'
    BY <1>7, <1>10, <2>2, <2>3, PairSilent, TaskSilent DEF StreamInv
  <2>6. sent' \in [Peers -> Nat] /\ got' \in [Peers -> [Peers -> Nat]]
    BY <1>7, <2>1 DEF StreamInv
  <2> QED
    BY <2>4, <2>5, <2>6 DEF StreamInv
<1>12. CASE IsData(f)
  <2>1. f.peer = p /\ f.n = sent[p] /\ sent[p] \in Nat /\ p \notin job[p].targets
    BY <1>12 DEF StreamInv, StreamTask, f
  <2>2. /\ got' \in [Peers -> [Peers -> Nat]]
        /\ \A y, x \in Peers : y # t \/ x # p => got'[y][x] = got[y][x]
        /\ Fits(t) => got'[t][p] = sent[p]
        /\ ~Fits(t) => got' = got
    <3>1. CASE Fits(t)
      <4>1. got' = [got EXCEPT ![t][p] = sent[p]]
        BY <1>6, <1>12, <2>1, <3>1
      <4> QED
        BY <1>2, <2>1, <3>1, <4>1 DEF StreamInv
    <3>2. CASE ~Fits(t)
      BY <1>6, <3>2 DEF StreamInv
    <3> QED
      BY <3>1, <3>2
  <2>3. ASSUME NEW x \in Peers, x # p PROVE StreamTask(x)' /\ \A y \in Peers : StreamPair(y, x)'
    <3>1. \A y \in Peers : Since(y, x)
      BY <1>7, <1>9, <1>10, <2>2, <2>3 DEF Since
    <3> QED
      BY <1>3, <1>7, <2>3, <3>1, PairKept DEF StreamInv, StreamTask
  <2>4. StreamTask(p)'
    <3>1. \A i \in DOMAIN job'[p].pending : ~IsData(job'[p].pending[i].out)
      BY <1>8 DEF Unsent
    <3> QED
      BY <1>4, <1>5, <1>7, <2>1, <3>1, NotData DEF StreamTask
  <2>5. ASSUME NEW y \in Peers PROVE StreamPair(y, p)'
    <3>1. StreamPair(y, p)
      BY DEF StreamInv
    <3>2. CASE y # t
      <4>1. got'[y][p] = got[y][p]
        BY <2>2, <3>2
      <4>2. y \in job'[p].targets => y \in job[p].targets
        BY <1>4
      <4>3. y \in job[p].targets \cup job[p].slow =>
              y \in job'[p].targets \cup job'[p].slow /\ job'[p].out = f
        BY <1>4, <3>2
      <4> QED
        BY <1>4, <1>5, <1>7, <1>8, <1>9, <1>10, <1>12, <3>1, <4>1, <4>2, <4>3, NotData
           DEF StreamPair, f
    <3>3. CASE y = t /\ Fits(t)
      BY <1>4, <1>5, <1>7, <1>8, <1>10, <2>2, <3>3 DEF StreamPair
    <3>4. CASE y = t /\ ~Fits(t)
      <4>1. y \in job'[p].slow /\ job'[p].out = f /\ y \notin job'[p].targets
        BY <1>4, <3>4
      <4> QED
        BY <1>5, <1>8, <1>10, <1>12, <3>4, <4>1 DEF StreamPair
    <3> QED
      BY <3>2, <3>3, <3>4
  <2>6. sent' \in [Peers -> Nat]
    BY <1>7 DEF StreamInv
  <2> QED
    BY <2>2, <2>3, <2>4, <2>5, <2>6 DEF StreamInv
<1> QED
  BY <1>11, <1>12

LEMMA EjectStream ==
    ASSUME SeatInv, JobInv, StreamInv, NEW p \in Peers, Eject(p)
    PROVE  StreamInv'
<1>1. PICK q \in job[p].slow, r \in roomOf[p] :
        /\ \/ /\ r \in live /\ q \in seats[r] /\ Detach(r, q)
              /\ GoesOn(p, Job(Pending1(p, q), job[p].out, {}, job[p].slow \ {q}))
           \/ /\ ~(r \in live /\ q \in seats[r]) /\ UNCHANGED registry
              /\ GoesOn(p, Job(job[p].pending, job[p].out, {}, job[p].slow \ {q}))
        /\ UNCHANGED <<sent, got, roomOf>> /\ Proper(job[p].pending) /\ at[p] = "eject"
  BY EjectJob
<1>2. \A x \in Peers : x # p => job'[x] = job[x]
  BY <1>1 DEF GoesOn
<1>3. \A x \in Peers : at'[x] = "apply" => at[x] = "apply"
  BY StaysSeated
<1>4. /\ job'[p].targets = {} /\ job'[p].slow = job[p].slow \ {q}
      /\ job'[p].out = job[p].out \/ (job'[p].slow = {} /\ job'[p].out = NoFrame)
  BY <1>1, JobFields DEF GoesOn
<1>5. job[p].targets = {} /\ ~Unsent(p)
  BY <1>1, SilentAt DEF JobInv, JobAt
<1>6. /\ \A x, y \in Peers : Together(y, x)' => Together(y, x)
      /\ ~Together(q, p)'
      /\ ~Unsent(p)'
  <2>1. r \in Rooms /\ roomOf[p] = {r}
    BY <1>1 DEF SeatInv, TypeOK
  <2>2. CASE /\ r \in live /\ q \in seats[r] /\ Detach(r, q)
             /\ GoesOn(p, Job(Pending1(p, q), job[p].out, {}, job[p].slow \ {q}))
    <3>1. \A z \in Rooms : q \notin seats'[z] /\ seats'[z] \subseteq seats[z]
      BY <2>2, DetachSeats
    <3>2. \A x, y \in Peers : Together(y, x)' => Together(y, x)
      BY <1>1, <3>1 DEF Together, SeatInv, TypeOK
    <3>3. ~Together(q, p)'
      BY <1>1, <2>1, <3>1 DEF Together
    <3> DEFINE k == Len(job[p].pending) + 1
               s == Pending1(p, q)
    <3>4. job'[p].pending = s
      BY <2>2, JobFields DEF GoesOn
    <3>5. /\ DOMAIN s = 1 .. k /\ DOMAIN job[p].pending = 1 .. k - 1 /\ k \in Nat
          /\ \A i \in DOMAIN job[p].pending : s[i] = job[p].pending[i]
          /\ s[k] = Pending({}, Left(q))
      BY <1>1, AppendProper, ProperLength DEF Pending1
    <3>6. s[k].out = Left(q)
      BY <3>5 DEF Pending
    <3>7. \A i \in DOMAIN s : i = k \/ i \in DOMAIN job[p].pending
      BY <3>5
    <3> HIDE DEF k, s
    <3>8. ~Unsent(p)'
      BY <1>5, <3>4, <3>5, <3>6, <3>7, NotData DEF Unsent
    <3> QED
      BY <3>2, <3>3, <3>8
  <2>3. CASE /\ ~(r \in live /\ q \in seats[r]) /\ UNCHANGED registry
             /\ GoesOn(p, Job(job[p].pending, job[p].out, {}, job[p].slow \ {q}))
    <3>1. seats' = seats /\ q \notin seats[r]
      BY <2>1, <2>3 DEF registry, SeatInv
    <3>2. job'[p].pending = job[p].pending
      BY <2>3, JobFields DEF GoesOn
    <3> QED
      BY <1>1, <1>5, <2>1, <3>1, <3>2 DEF Together, Unsent
  <2> QED
    BY <1>1, <2>2, <2>3
<1>7. \A x, y \in Peers : Since(y, x)
  BY <1>1, <1>3, <1>6 DEF Since
<1>8. ASSUME NEW x \in Peers, x # p PROVE StreamTask(x)' /\ \A y \in Peers : StreamPair(y, x)'
  <2>1. at'[x] = at[x]
    BY <1>8, StaysSeated
  <2> QED
    BY <1>1, <1>2, <1>7, <1>8, <2>1, PairKept DEF StreamInv, StreamTask
<1>9. StreamTask(p)'
  <2>1. \A i \in DOMAIN job'[p].pending : ~IsData(job'[p].pending[i].out)
    BY <1>6 DEF Unsent
  <2>2. StreamTask(p)
    BY DEF StreamInv
  <2> QED
    BY <1>1, <1>3, <1>4, <2>1, <2>2, NotData DEF StreamTask
<1>10. ASSUME NEW y \in Peers PROVE StreamPair(y, p)'
  <2>1. StreamPair(y, p) /\ ~IsData(NoFrame)
    BY NotData DEF StreamInv
  <2>2. y # q /\ y \in job[p].slow => y \in job'[p].slow /\ job'[p].out = job[p].out
    BY <1>4
  <2>3. Together(y, p)' => Together(y, p) /\ y # q
    BY <1>6
  <2> QED
    BY <1>1, <1>3, <1>4, <1>5, <1>6, <2>1, <2>2, <2>3 DEF StreamPair
<1>11. sent' \in [Peers -> Nat] /\ got' \in [Peers -> [Peers -> Nat]]
  BY <1>1 DEF StreamInv
<1> QED
  BY <1>8, <1>9, <1>10, <1>11 DEF StreamInv

\* A step of p's that sends no payload and makes none.
LEMMA SilentStream ==
    ASSUME StreamInv, NEW p \in Peers, Silent(p), Silent(p)', sent' = sent,
           got' \in [Peers -> [Peers -> Nat]],
           \A x \in Peers : x # p => job'[x] = job[x] /\ at'[x] = at[x],
           \A x, y \in Peers : Since(y, x)
    PROVE  StreamInv'
<1>1. ASSUME NEW x \in Peers, x # p PROVE StreamTask(x)' /\ \A y \in Peers : StreamPair(y, x)'
  BY <1>1, PairKept DEF StreamInv, StreamTask
<1>2. at'[p] = "apply" => at[p] = "apply"
  BY DEF Since
<1>3. StreamTask(p)' /\ \A y \in Peers : StreamPair(y, p)'
  BY <1>2, PairSilent, TaskSilent DEF StreamInv
<1> QED
  BY <1>1, <1>3 DEF StreamInv

\* A task that is set going with a frame that is not a payload.
LEMMA StartsSilent ==
    ASSUME NEW p \in Peers, NEW skip, NEW f, SetGoing(p, skip, f), ~IsData(f)
    PROVE  Silent(p)'
  BY OnePending, NotData DEF SetGoing, Silent, Unsent

\* A step of p's at a place without a job.
LEMMA RestingSilent ==
    ASSUME JobInv, StreamInv, NEW p \in Peers, at[p] \notin Delivering, job' = job
    PROVE  Silent(p) /\ Silent(p)'
  BY SilentAt DEF Silent, Unsent

LEMMA RelayStream ==
    ASSUME SeatInv, JobInv, StreamInv, NEW p \in Peers, Relay(p)
    PROVE  StreamInv'
<1> DEFINE f == Data(p, sent[p] + 1)
<1>1. /\ Starts(p, {p}, f) /\ at[p] = "pump" /\ sent' = [sent EXCEPT ![p] = sent[p] + 1]
      /\ UNCHANGED <<got, roomOf, seats>>
  BY DEF Relay, Starts, Returns, registry
<1>2. f.peer = p /\ f.n = sent[p] + 1 /\ IsData(f)
  BY NotData
<1> HIDE DEF f
<1>3. SetGoing(p, {p}, f) /\ at' = [at EXCEPT ![p] = "pop"]
  BY <1>1, StartsJob
<1>4. /\ DOMAIN job'[p].pending = {1} /\ job'[p].pending[1].out = f
      /\ job'[p].pending[1].skip = {p} /\ Len(job'[p].pending) = 1
      /\ job'[p].out = NoFrame /\ job'[p].targets = {}
  BY <1>3, OnePending DEF SetGoing
<1>5. at'[p] = "pop" /\ \A x \in Peers : x # p => at'[x] = at[x] /\ job'[x] = job[x]
  BY <1>3 DEF SetGoing, SeatInv, TypeOK
<1>6. /\ sent' \in [Peers -> Nat] /\ sent[p] \in Nat /\ sent'[p] = sent[p] + 1
      /\ \A x \in Peers : x # p => sent'[x] = sent[x]
  BY <1>1 DEF StreamInv
<1>7. \A x, y \in Peers : Together(y, x)' <=> Together(y, x)
  BY <1>1 DEF Together
<1>8. \A y \in Peers : at'[y] = "apply" => at[y] = "apply"
  BY <1>5
<1>9. ASSUME NEW x \in Peers, x # p PROVE StreamTask(x)' /\ \A y \in Peers : StreamPair(y, x)'
  <2>1. \A y \in Peers : Since(y, x)
    BY <1>1, <1>6, <1>7, <1>8, <1>9 DEF Since
  <2> QED
    BY <1>5, <1>6, <1>9, <2>1, PairKept DEF StreamInv, StreamTask
<1>10. StreamTask(p)'
  BY <1>2, <1>4, <1>5, <1>6, NotData DEF StreamTask
<1>11. Silent(p)
  BY <1>1, SilentAt DEF Delivering
<1>12. Unsent(p)'
  BY <1>2, <1>4 DEF Unsent
<1>13. ASSUME NEW y \in Peers PROVE StreamPair(y, p)'
  <2>1. StreamPair(y, p) /\ sent'[p] - 1 = sent[p]
    BY <1>6 DEF StreamInv
  <2>2. y # p /\ Together(y, p) => got[y][p] \in {0, sent[p]}
    BY <1>11, <2>1 DEF StreamPair, Silent
  <2> QED
    BY <1>1, <1>4, <1>5, <1>7, <1>8, <1>12, <2>1, <2>2 DEF StreamPair
<1> QED
  BY <1>1, <1>6, <1>9, <1>10, <1>13 DEF StreamInv

\* A newcomer starts from nothing, as a sender and for every sender.
LEMMA EntersStream ==
    ASSUME SeatInv, JobInv, StreamInv, NEW p \in Peers, NEW r \in Rooms, Enters(p, r)
    PROVE  StreamInv'
<1>1. /\ at[p] = "apply" /\ UNCHANGED <<sent, got>>
      /\ seats' = [seats EXCEPT ![r] = seats[r] \cup {p}]
      /\ roomOf' = [roomOf EXCEPT ![p] = {r}]
  BY DEF Enters
<1>2. Silent(p)
  BY <1>1, SilentAt DEF Delivering
<1>3. /\ Silent(p)' /\ at'[p] # "apply"
      /\ \A x \in Peers : x # p => job'[x] = job[x] /\ at'[x] = at[x]
  <2>1. CASE job' = job /\ at' = [at EXCEPT ![p] = "pump"]
    BY <1>2, <2>1 DEF Silent, Unsent, SeatInv, TypeOK
  <2>2. CASE \E name : Starts(p, {p}, Joined(p, name))
    <3>1. PICK name : Starts(p, {p}, Joined(p, name))
      BY <2>2
    <3>2. SetGoing(p, {p}, Joined(p, name)) /\ at' = [at EXCEPT ![p] = "pop"]
      BY <3>1, StartsJob
    <3>3. Silent(p)'
      BY <3>2, StartsSilent, NotData
    <3> QED
      BY <3>2, <3>3 DEF SetGoing, SeatInv, TypeOK
  <2> QED
    BY <2>1, <2>2 DEF Enters
<1>4. ASSUME NEW x \in Peers, NEW y \in Peers PROVE Since(y, x)
  <2>1. x = p \/ y = p => got'[y][x] = 0
    BY <1>1 DEF StreamInv, StreamPair
  <2>2. x # p /\ y # p /\ Together(y, x)' => Together(y, x)
    BY <1>1 DEF Together, SeatInv, TypeOK
  <2> QED
    BY <1>1, <1>3, <2>1, <2>2 DEF Since
<1>5. got' \in [Peers -> [Peers -> Nat]]
  BY <1>1 DEF StreamInv
<1> QED
  BY <1>1, <1>2, <1>3, <1>4, <1>5, SilentStream

\* A connection that is unplugged starts over, and nobody is seated by it.
LEMMA UnplugStream ==
    ASSUME SeatInv, StreamInv, NEW p \in Peers, Unplug(p),
           UNCHANGED <<job, sent, seats>>,
           roomOf' = roomOf \/ roomOf' = [roomOf EXCEPT ![p] = {}],
           Silent(p) \/ at'[p] = at[p],
           at'[p] # "apply", \A x \in Peers : x # p => at'[x] = at[x]
    PROVE  StreamInv'
<1>1. got' = [got EXCEPT ![p] = [s \in Peers |-> 0]]
  BY DEF Unplug
<1>2. /\ got' \in [Peers -> [Peers -> Nat]]
      /\ \A x, y \in Peers : got'[y][x] = got[y][x] \/ got'[y][x] = 0
  BY <1>1 DEF StreamInv
<1>3. \A x, y \in Peers : Together(y, x)' => Together(y, x)
  BY DEF Together, SeatInv, TypeOK
<1>4. \A x, y \in Peers : Since(y, x)
  BY <1>2, <1>3 DEF Since
<1>5. \A x, y \in Peers : StreamPair(y, x)'
  BY <1>4, PairKept DEF StreamInv
<1>6. ASSUME NEW x \in Peers, at'[x] = at[x] PROVE StreamTask(x)'
  BY <1>6 DEF StreamInv, StreamTask
<1>7. Silent(p) => StreamTask(p)'
  <2>1. Silent(p) => Silent(p)'
    BY DEF Silent, Unsent
  <2> QED
    BY <2>1, TaskSilent DEF StreamInv
<1> QED
  BY <1>2, <1>5, <1>6, <1>7 DEF StreamInv

LEMMA StreamInit == Init => StreamInv
<1> SUFFICES ASSUME Init PROVE StreamInv
  OBVIOUS
<1>1. NoJob.pending = <<>> /\ NoJob.out = NoFrame /\ DOMAIN <<>> = {} /\ ~IsData(NoFrame)
  BY JobFields, NotData DEF NoJob
<1>2. /\ \A x \in Peers : job[x] = NoJob /\ sent[x] = 0 /\ roomOf[x] = {}
      /\ \A x, y \in Peers : got[y][x] = 0
  BY DEF Init
<1>3. sent \in [Peers -> Nat] /\ got \in [Peers -> [Peers -> Nat]]
  BY DEF Init
<1>4. \A x \in Peers : StreamTask(x)
  BY <1>1, <1>2 DEF StreamTask
<1>5. \A x, y \in Peers : StreamPair(y, x)
  BY <1>1, <1>2 DEF StreamPair, Together
<1> QED
  BY <1>3, <1>4, <1>5 DEF StreamInv

LEMMA StreamStep ==
    ASSUME SeatInv, JobInv, WelcomeInv, StreamInv, [Next]_vars PROVE StreamInv'
<1>1. ASSUME UNCHANGED <<job, at, sent, got, seats, roomOf>> PROVE StreamInv'
  BY <1>1 DEF StreamInv, StreamTask, StreamPair, Unsent, Together
<1>2. CASE Rests
  BY <1>1, <1>2 DEF Rests
<1>3. ASSUME NEW p \in Peers, Pop(p) \/ Send(p) \/ Eject(p) \/ Relay(p) PROVE StreamInv'
  BY <1>3, PopStream, SendStream, EjectStream, RelayStream
<1>4. ASSUME NEW p \in Peers, NEW r \in Rooms, Enters(p, r) PROVE StreamInv'
  BY <1>4, EntersStream
<1>5. ASSUME NEW p \in Peers, NEW skip, NEW f, Starts(p, skip, f), ~IsData(f),
             at[p] \notin Delivering, UNCHANGED <<sent, got, roomOf>>,
             \A z \in Rooms : seats'[z] \subseteq seats[z]
      PROVE  StreamInv'
  <2>1. SetGoing(p, skip, f) /\ at' = [at EXCEPT ![p] = "pop"]
    BY <1>5, StartsJob
  <2>2. Silent(p) /\ Silent(p)'
    BY <1>5, <2>1, StartsSilent, SilentAt
  <2>3. at'[p] # "apply" /\ \A x \in Peers : x # p => job'[x] = job[x] /\ at'[x] = at[x]
    BY <2>1 DEF SetGoing, SeatInv, TypeOK
  <2>4. \A x, y \in Peers : Together(y, x)' => Together(y, x)
    BY <1>5 DEF Together, SeatInv, TypeOK
  <2>5. \A x, y \in Peers : Since(y, x)
    BY <1>5, <2>3, <2>4 DEF Since
  <2>6. got' \in [Peers -> [Peers -> Nat]]
    BY <1>5 DEF StreamInv
  <2> QED
    BY <1>5, <2>2, <2>3, <2>5, <2>6, SilentStream
<1>6. ASSUME NEW p \in Peers, NEW r \in Rooms, Departs(p, r) PROVE StreamInv'
  <2>1. \A z \in Rooms : seats'[z] \subseteq seats[z]
    BY <1>6, DetachSeats DEF Departs
  <2> QED
    BY <1>5, <1>6, <2>1, NotData DEF Departs, Delivering
<1>7. ASSUME NEW p \in Peers, Renames(p) PROVE StreamInv'
  <2>1. PICK name : Starts(p, {}, Renamed(p, name))
    BY <1>7 DEF Renames
  <2> QED
    BY <1>5, <1>7, <2>1, NotData DEF Renames, Delivering
<1>8. ASSUME NEW p \in Peers, Read(p) PROVE StreamInv'
  BY <1>1, <1>8 DEF Read, running, registry, history
<1>9. ASSUME NEW p \in Peers, WriterFails(p) PROVE StreamInv'
  <2>1. Unplug(p) /\ UNCHANGED <<job, sent, seats, at, roomOf>> /\ at[p] # "apply"
    BY <1>9 DEF WriterFails, running, registry, WelcomeInv, WelcomeFor
  <2> QED
    BY <2>1, UnplugStream
<1>10. ASSUME NEW p \in Peers, Finishes(p) PROVE StreamInv'
  <2>1. /\ Unplug(p) /\ UNCHANGED <<job, sent, seats>> /\ at[p] \notin Delivering
        /\ at' = [at EXCEPT ![p] = "done"] /\ roomOf' = [roomOf EXCEPT ![p] = {}]
    BY <1>10 DEF Finishes, Over
  <2>2. Silent(p)
    BY <2>1, SilentAt
  <2>3. at'[p] # "apply" /\ \A x \in Peers : x # p => at'[x] = at[x]
    BY <2>1 DEF SeatInv, TypeOK
  <2> QED
    BY <2>1, <2>2, <2>3, UnplugStream
<1>11. ASSUME NEW p \in Peers, Moves(p) PROVE StreamInv'
  <2>1. /\ UNCHANGED <<job, sent, got, seats, roomOf>> /\ at[p] \notin Delivering
        /\ \E a \in {"pump", "remove", "leave"} : at' = [at EXCEPT ![p] = a]
    BY <1>11 DEF Moves
  <2>2. Silent(p) /\ Silent(p)'
    BY <2>1, RestingSilent
  <2>3. at'[p] # "apply" /\ \A x \in Peers : x # p => at'[x] = at[x]
    BY <2>1 DEF SeatInv, TypeOK
  <2>4. \A x, y \in Peers : Since(y, x)
    BY <2>1, <2>3 DEF Since, Together
  <2>5. got' \in [Peers -> [Peers -> Nat]]
    BY <2>1 DEF StreamInv
  <2> QED
    BY <2>1, <2>2, <2>3, <2>4, <2>5, SilentStream
<1> QED
  BY <1>2, <1>3, <1>4, <1>6, <1>7, <1>8, <1>9, <1>10, <1>11, Deliveries

\* Whoever is sent a payload of some sender has had that sender's last one, or none:
\* a peer that missed one was ejected before the sender could go on to the next.
THEOREM NoHoles == Spec => StreamsHaveNoHoles
<1> DEFINE Inv == SeatInv /\ JobInv /\ WelcomeInv /\ StreamInv
           InOrder == \A p \in Peers : LET f == NewFrame(p) IN
                        f.kind = "data" => got[p][f.peer] \in {0, f.n - 1}
<1>1. Init => Inv
  BY SeatInit, JobInit, WelcomeInit, StreamInit
<1>2. Inv /\ [Next]_vars => Inv'
  BY SeatStep, JobStep, WelcomeStep, StreamStep
<1>3. Inv /\ [Next]_vars => InOrder
  <2> SUFFICES ASSUME Inv, [Next]_vars, NEW p \in Peers, NewFrame(p).kind = "data"
               PROVE  got[p][NewFrame(p).peer] \in {0, NewFrame(p).n - 1}
    OBVIOUS
  <2>1. PICK x \in Peers : p \in job[x].targets /\ NewFrame(p) = job[x].out
    BY NewFrames
  <2>2. IsData(job[x].out)
    BY <2>1 DEF IsData
  <2>3. job[x].out.peer = x /\ job[x].out.n = sent[x] /\ got[p][x] \in {0, sent[x] - 1}
    BY <2>1, <2>2 DEF StreamInv, StreamTask, StreamPair
  <2> QED
    BY <2>1, <2>3
<1> QED
  BY <1>1, <1>2, <1>3, PTL DEF Spec, StreamsHaveNoHoles

----------------------------------------------------------------------------
\* Nobody is missing from a roster.

\* A frame that is not about q.
LEMMA AppendOther ==
    ASSUME NEW v, NEW s, Proper(s), NEW f, NEW q, ~About(f, q), NEW n
    PROVE  /\ Heard(v, s, q) => Heard(v, Append(s, f), q)
           /\ Latest(v, s, q, n) => Latest(v, Append(s, f), q, n)
           /\ Ordered(v, s, q) => Ordered(v, Append(s, f), q)
<1> DEFINE a == Append(s, f)
           k == Len(s) + 1
<1>1. /\ DOMAIN a = 1 .. k /\ DOMAIN s = 1 .. k - 1 /\ k \in Nat
      /\ \A i \in DOMAIN s : a[i] = s[i]
      /\ a[k] = f
  BY AppendProper, ProperLength
<1>2. /\ \A i \in DOMAIN a : i = k \/ i \in DOMAIN s
      /\ \A i \in DOMAIN s : i \in DOMAIN a
  BY <1>1
<1> HIDE DEF a, k
<1>3. /\ \A i \in DOMAIN a : About(a[i], q) => i \in DOMAIN s /\ a[i] = s[i]
      /\ \A i \in DOMAIN a : IsRename(a[i], q) => i \in DOMAIN s /\ a[i] = s[i]
  BY <1>1, <1>2 DEF About
<1>4. Heard(v, s, q) => Heard(v, a, q)
  BY <1>1, <1>2 DEF Heard
<1>5. Latest(v, s, q, n) => Latest(v, a, q, n)
  BY <1>1, <1>2, <1>3 DEF Latest
<1>6. Ordered(v, s, q) => Ordered(v, a, q)
  BY <1>1, <1>2, <1>3 DEF Ordered
<1> QED
  BY <1>4, <1>5, <1>6 DEF a

\* q's own word, which introduces it or comes after what did.
LEMMA AppendWord ==
    ASSUME NEW v, NEW s, Proper(s), NEW f, NEW q, NEW n,
           Tells(f), f.peer = q, f.name = n,
           f.kind = "joined" \/ Heard(v, s, q), Ordered(v, s, q)
    PROVE  /\ Heard(v, Append(s, f), q)
           /\ Latest(v, Append(s, f), q, n)
           /\ Ordered(v, Append(s, f), q)
<1> DEFINE a == Append(s, f)
           k == Len(s) + 1
<1>1. /\ DOMAIN a = 1 .. k /\ DOMAIN s = 1 .. k - 1 /\ k \in Nat
      /\ \A i \in DOMAIN s : a[i] = s[i]
      /\ a[k] = f
  BY AppendProper, ProperLength
<1>2. /\ \A i \in DOMAIN a : i = k \/ i \in DOMAIN s
      /\ \A i \in DOMAIN s : i \in DOMAIN a /\ i < k
      /\ k \in DOMAIN a /\ \A i \in DOMAIN a : ~(i > k)
  BY <1>1
<1>3. About(f, q) /\ NameIn(f, q) = n /\ (f.kind = "joined" => Introduces(f, q) /\ ~IsRename(f, q))
  BY DEF Tells, About, Introduces, IsRename, NameIn
<1> HIDE DEF a, k
<1>4. Heard(v, a, q)
  BY <1>1, <1>2, <1>3 DEF Heard
<1>5. Latest(v, a, q, n)
  BY <1>1, <1>2, <1>3 DEF Latest
<1>6. Ordered(v, a, q)
  <2> SUFFICES ASSUME NEW i \in DOMAIN a, IsRename(a[i], q)
               PROVE  q \in DOMAIN v.peers \/ \E j \in DOMAIN a : j < i /\ Introduces(a[j], q)
    BY DEF Ordered
  <2>1. CASE i = k
    BY <1>1, <1>2, <1>3, <2>1 DEF Heard
  <2>2. CASE i \in DOMAIN s
    BY <1>1, <1>2, <2>2 DEF Ordered
  <2> QED
    BY <1>2, <2>1, <2>2
<1> QED
  BY <1>4, <1>5, <1>6 DEF a

\* The roster in a newcomer's reply.
LEMMA ReplyWord ==
    ASSUME NEW v, NEW f, NEW q, NEW n, f.kind = "reply", q \in DOMAIN f.peers, f.peers[q] = n
    PROVE  Heard(v, <<f>>, q) /\ Latest(v, <<f>>, q, n) /\ Ordered(v, <<f>>, q)
<1> DEFINE s == <<f>>
<1>1. DOMAIN s = {1} /\ s[1] = f
  BY OneProper
<1>2. Introduces(f, q) /\ About(f, q) /\ NameIn(f, q) = n /\ ~IsRename(f, q)
  BY DEF Introduces, About, NameIn, IsRename
<1>3. ~(1 > 1)
  OBVIOUS
<1> HIDE DEF s
<1> QED
  BY <1>1, <1>2, <1>3 DEF Heard, Latest, Ordered, s

LEMMA TailFields ==
    ASSUME NEW s, Proper(s), s # <<>>
    PROVE  /\ Len(s) \in Nat /\ DOMAIN s = 1 .. Len(s)
           /\ DOMAIN Tail(s) = 1 .. Len(s) - 1
           /\ \A i \in DOMAIN Tail(s) : Tail(s)[i] = s[i + 1]
<1> DEFINE S == {s[i] : i \in DOMAIN s}
<1>1. s \in Seq(S)
  BY DEF Proper
<1> HIDE DEF S
<1> QED
  BY <1>1

\* What hearing f does to what is known of q, when f does not say that q left.
LEMMA HearWord ==
    ASSUME NEW v, NEW f, NEW q, v = NoView \/ v.seated,
           v.seated \/ f.kind = "reply", f.kind = "reply" => ~v.seated, ~IsLeft(f, q)
    PROVE  LET w == Hear(v, f) IN
           /\ w.seated /\ (q \in DOMAIN v.peers => q \in DOMAIN w.peers)
           /\ Introduces(f, q) => q \in DOMAIN w.peers
           /\ Introduces(f, q) \/ (IsRename(f, q) /\ q \in DOMAIN v.peers) =>
                q \in DOMAIN w.peers /\ w.peers[q] = NameIn(f, q)
           /\ ~About(f, q) /\ q \in DOMAIN v.peers => w.peers[q] = v.peers[q]
<1> DEFINE w == Hear(v, f)
<1>1. CASE ~v.seated
  <2>1. f.kind = "reply" /\ v = NoView
    BY <1>1
  <2>2. w = [seated |-> TRUE, peers |-> f.peers]
    BY <1>1, <2>1 DEF Hear
  <2>3. DOMAIN v.peers = {}
    BY <2>1 DEF NoView
  <2>4. w.seated /\ w.peers = f.peers
    BY <2>2
  <2> HIDE DEF w
  <2> QED
    BY <2>1, <2>3, <2>4 DEF Introduces, IsRename, NameIn, w
<1>2. CASE v.seated /\ f.kind = "joined"
  <2>1. w = [seated |-> TRUE, peers |-> With(v.peers, f.peer, f.name)]
    BY <1>2 DEF Hear
  <2>2. w.seated /\ w.peers = With(v.peers, f.peer, f.name)
    BY <2>1
  <2> HIDE DEF w
  <2> QED
    BY <1>2, <2>2 DEF With, Introduces, IsRename, About, NameIn, w
<1>3. CASE v.seated /\ f.kind = "left"
  <2>1. w = [seated |-> TRUE, peers |-> Without(v.peers, f.peer)]
    BY <1>3 DEF Hear
  <2>2. w.seated /\ w.peers = Without(v.peers, f.peer)
    BY <2>1
  <2>3. q # f.peer
    BY <1>3 DEF IsLeft
  <2> HIDE DEF w
  <2> QED
    BY <1>3, <2>2, <2>3 DEF Without, Introduces, IsRename, About, w
<1>4. CASE v.seated /\ f.kind = "renamed" /\ f.peer \in DOMAIN v.peers
  <2>1. w = [seated |-> TRUE, peers |-> With(v.peers, f.peer, f.name)]
    BY <1>4 DEF Hear
  <2>2. w.seated /\ w.peers = With(v.peers, f.peer, f.name)
    BY <2>1
  <2> HIDE DEF w
  <2> QED
    BY <1>4, <2>2 DEF With, Introduces, IsRename, About, NameIn, w
<1>5. CASE v.seated /\ f.kind \notin {"joined", "left"}
           /\ ~(f.kind = "renamed" /\ f.peer \in DOMAIN v.peers)
  <2>1. w = v /\ f.kind # "reply"
    BY <1>5 DEF Hear
  <2> HIDE DEF w
  <2> QED
    BY <1>5, <2>1 DEF Introduces, IsRename, w
<1> QED
  BY <1>1, <1>2, <1>3, <1>4, <1>5

\* Reading the first frame moves what was to be known of q towards what is.
LEMMA ReadWord ==
    ASSUME NEW v, NEW s, Proper(s), s # <<>>, NEW q, NEW n, v = NoView \/ v.seated,
           v.seated \/ s[1].kind = "reply", s[1].kind = "reply" => ~v.seated,
           ~IsLeft(s[1], q), Ordered(v, s, q)
    PROVE  /\ Heard(v, s, q) => Heard(Hear(v, s[1]), Tail(s), q)
           /\ Latest(v, s, q, n) => Latest(Hear(v, s[1]), Tail(s), q, n)
           /\ Ordered(Hear(v, s[1]), Tail(s), q)
<1> DEFINE f == s[1]
           w == Hear(v, f)
           t == Tail(s)
           m == Len(s)
<1>1. /\ m \in Nat /\ DOMAIN s = 1 .. m /\ DOMAIN t = 1 .. m - 1
      /\ \A i \in DOMAIN t : t[i] = s[i + 1]
      /\ 1 \in DOMAIN s
  BY TailFields, TailProper
<1>2. /\ q \in DOMAIN v.peers => q \in DOMAIN w.peers
      /\ Introduces(f, q) => q \in DOMAIN w.peers
      /\ Introduces(f, q) \/ (IsRename(f, q) /\ q \in DOMAIN v.peers) =>
           q \in DOMAIN w.peers /\ w.peers[q] = NameIn(f, q)
      /\ ~About(f, q) /\ q \in DOMAIN v.peers => w.peers[q] = v.peers[q]
  BY HearWord
<1>3. /\ \A i \in DOMAIN s : i = 1 \/ (i - 1 \in DOMAIN t /\ t[i - 1] = s[i])
      /\ \A i \in DOMAIN t : i + 1 \in DOMAIN s /\ i + 1 > 1
      /\ \A i \in DOMAIN s : i # 1 => i > 1
  BY <1>1
<1>4. IsRename(f, q) => q \in DOMAIN v.peers
  <2>1. \A j \in DOMAIN s : ~(j < 1)
    BY <1>1
  <2> QED
    BY <1>1, <2>1 DEF Ordered
<1> HIDE DEF f, w, t, m
<1>5. Heard(v, s, q) => Heard(w, t, q)
  BY <1>2, <1>3 DEF Heard, f
<1>6. Ordered(w, t, q)
  <2> SUFFICES ASSUME NEW i \in DOMAIN t, IsRename(t[i], q), q \notin DOMAIN w.peers
               PROVE  \E j \in DOMAIN t : j < i /\ Introduces(t[j], q)
    BY DEF Ordered
  <2>1. i + 1 \in DOMAIN s /\ IsRename(s[i + 1], q) /\ q \notin DOMAIN v.peers
    BY <1>1, <1>2, <1>3
  <2>2. PICK j \in DOMAIN s : j < i + 1 /\ Introduces(s[j], q)
    BY <2>1 DEF Ordered
  <2>3. j # 1
    BY <1>2, <2>2 DEF f
  <2>4. j - 1 \in DOMAIN t /\ t[j - 1] = s[j] /\ j - 1 < i
    BY <1>1, <1>3, <2>2, <2>3
  <2> QED
    BY <2>2, <2>4
<1>7. Latest(v, s, q, n) => Latest(w, t, q, n)
  <2> SUFFICES ASSUME Latest(v, s, q, n) PROVE Latest(w, t, q, n)
    OBVIOUS
  <2>1. CASE (\A i \in DOMAIN s : ~About(s[i], q)) /\ q \in DOMAIN v.peers /\ v.peers[q] = n
    BY <1>1, <1>2, <1>3, <2>1 DEF Latest, f
  <2>2. ASSUME NEW i \in DOMAIN s, About(s[i], q), NameIn(s[i], q) = n,
               \A j \in DOMAIN s : j > i => ~About(s[j], q)
        PROVE  Latest(w, t, q, n)
    <3>1. CASE i = 1
      <4>1. \A j \in DOMAIN t : ~About(t[j], q)
        BY <1>1, <1>3, <2>2, <3>1
      <4>2. q \in DOMAIN w.peers /\ w.peers[q] = n
        BY <1>2, <1>4, <2>2, <3>1 DEF About, f
      <4> QED
        BY <4>1, <4>2 DEF Latest
    <3>2. CASE i # 1
      <4>1. i - 1 \in DOMAIN t /\ t[i - 1] = s[i]
        BY <1>3, <3>2
      <4>2. ASSUME NEW j \in DOMAIN t, j > i - 1 PROVE ~About(t[j], q)
        <5>1. j + 1 \in DOMAIN s /\ j + 1 > i /\ t[j] = s[j + 1]
          BY <1>1, <1>3, <4>2
        <5> QED
          BY <2>2, <5>1
      <4> QED
        BY <2>2, <4>1, <4>2 DEF Latest
    <3> QED
      BY <3>1, <3>2
  <2> QED
    BY <2>1, <2>2 DEF Latest
<1> QED
  BY <1>5, <1>6, <1>7 DEF f, w, t

----------------------------------------------------------------------------
\* The steps, one by one.

\* Nobody applies again, and who has left does not come back.
LEMMA StaysGone ==
    ASSUME SeatInv, JobInv, [Next]_vars
    PROVE  \A q \in Peers : /\ at[q] # "apply" => at'[q] # "apply"
                            /\ Departed(q) => Departed(q)'
<1>1. ASSUME seats' = seats, \A q \in Peers : at[q] # "apply" => at'[q] # "apply"
      PROVE  \A q \in Peers : /\ at[q] # "apply" => at'[q] # "apply"
                              /\ Departed(q) => Departed(q)'
  BY <1>1 DEF Departed
<1>2. CASE Rests
  BY <1>1, <1>2 DEF Rests
<1>3. ASSUME NEW p \in Peers, Pop(p) \/ Send(p)
      PROVE  \A q \in Peers : /\ at[q] # "apply" => at'[q] # "apply"
                              /\ Departed(q) => Departed(q)'
  BY <1>1, <1>3, StaysSeated DEF Pop, Send, registry
<1>4. ASSUME NEW p \in Peers, Eject(p)
      PROVE  \A q \in Peers : /\ at[q] # "apply" => at'[q] # "apply"
                              /\ Departed(q) => Departed(q)'
  <2>1. \A q \in Peers : at[q] # "apply" => at'[q] # "apply"
    BY <1>4, StaysSeated
  <2>2. PICK q \in job[p].slow, r \in roomOf[p] :
          \/ r \in live /\ q \in seats[r] /\ Detach(r, q)
          \/ UNCHANGED registry
    BY <1>4, EjectJob
  <2>3. CASE r \in live /\ q \in seats[r] /\ Detach(r, q)
    BY <2>1, <2>3, DetachedAway DEF Departed
  <2>4. CASE UNCHANGED registry
    BY <1>1, <2>1, <2>4 DEF registry
  <2> QED
    BY <2>2, <2>3, <2>4
<1>5. ASSUME NEW p \in Peers, NEW a, a # "apply", at' = [at EXCEPT ![p] = a]
      PROVE  \A q \in Peers : at[q] # "apply" => at'[q] # "apply"
  BY <1>5 DEF SeatInv, TypeOK
<1>6. ASSUME NEW p \in Peers, Relay(p) \/ Read(p) \/ WriterFails(p) \/ Finishes(p)
                              \/ Renames(p) \/ Moves(p)
      PROVE  \A q \in Peers : /\ at[q] # "apply" => at'[q] # "apply"
                              /\ Departed(q) => Departed(q)'
  <2>1. seats' = seats
    BY <1>6 DEF Relay, Read, WriterFails, Finishes, Renames, Moves, registry
  <2>2. at' = at \/ \E a : a # "apply" /\ at' = [at EXCEPT ![p] = a]
    BY <1>6 DEF Relay, Read, WriterFails, Finishes, Over, Renames, Moves, Starts, Deliver, running
  <2> QED
    BY <1>1, <1>5, <2>1, <2>2
<1>7. ASSUME NEW p \in Peers, NEW r \in Rooms, Departs(p, r)
      PROVE  \A q \in Peers : /\ at[q] # "apply" => at'[q] # "apply"
                              /\ Departed(q) => Departed(q)'
  <2>1. /\ r \in live /\ p \in seats[r] /\ Detach(r, p)
        /\ at' = [at EXCEPT ![p] = "pop"]
    BY <1>7 DEF Departs, Starts, Deliver
  <2>2. \A q \in Peers : at[q] # "apply" => at'[q] # "apply"
    BY <1>5, <2>1
  <2> QED
    BY <2>1, <2>2, DetachedAway DEF Departed
<1>8. ASSUME NEW p \in Peers, NEW r \in Rooms, Enters(p, r)
      PROVE  \A q \in Peers : /\ at[q] # "apply" => at'[q] # "apply"
                              /\ Departed(q) => Departed(q)'
  <2>1. /\ at[p] = "apply" /\ seats' = [seats EXCEPT ![r] = seats[r] \cup {p}]
        /\ at' = [at EXCEPT ![p] = "pop"] \/ at' = [at EXCEPT ![p] = "pump"]
    BY <1>8 DEF Enters, Starts, Deliver
  <2>2. \A q \in Peers : at[q] # "apply" => at'[q] # "apply"
    BY <1>5, <2>1
  <2> QED
    BY <2>1, <2>2 DEF Departed, SeatInv, TypeOK
<1> QED
  BY <1>2, <1>3, <1>4, <1>6, <1>7, <1>8, Deliveries

\* A step that says nothing of q to p.
Kinds == SUBSET {"joined", "renamed"}
LEMMA WordsKept ==
    ASSUME NEW p \in Peers, NEW q \in Peers, WordFor(p, q), Proper(queue[p]),
           NEW f, queue'[p] = queue[p] \/ (queue'[p] = Append(queue[p], f) /\ ~About(f, q)),
           view'[p] = view[p], names'[q] = names[q],
           p \notin closed' => p \notin closed,
           Mates(p, q)' => Mates(p, q),
           \A K \in Kinds : Coming(p, q, K) /\ Mates(p, q)' => Coming(p, q, K)'
    PROVE  WordFor(p, q)'
<1> SUFFICES ASSUME Mates(p, q)', p \notin closed'
             PROVE  /\ Coming(p, q, {"joined"})' \/ Heard(view'[p], queue'[p], q)
                    /\ Coming(p, q, {"joined", "renamed"})'
                         \/ Latest(view'[p], queue'[p], q, names'[q])
                    /\ Ordered(view'[p], queue'[p], q)
  BY DEF WordFor
<1>1. /\ Coming(p, q, {"joined"}) \/ Heard(view[p], queue[p], q)
      /\ Coming(p, q, {"joined", "renamed"}) \/ Latest(view[p], queue[p], q, names[q])
      /\ Ordered(view[p], queue[p], q)
  BY DEF WordFor
<1>2. {"joined"} \in Kinds /\ {"joined", "renamed"} \in Kinds
  BY DEF Kinds
<1>3. /\ Coming(p, q, {"joined"}) => Coming(p, q, {"joined"})'
      /\ Coming(p, q, {"joined", "renamed"}) => Coming(p, q, {"joined", "renamed"})'
  BY <1>2
<1>4. /\ Heard(view[p], queue[p], q) => Heard(view'[p], queue'[p], q)
      /\ Latest(view[p], queue[p], q, names[q]) => Latest(view'[p], queue'[p], q, names'[q])
      /\ Ordered(view'[p], queue'[p], q)
  BY <1>1, AppendOther
<1> QED
  BY <1>1, <1>3, <1>4

LEMMA QueueKept ==
    ASSUME NEW p \in Peers, QueueOK(p), Proper(queue[p]),
           NEW f, queue'[p] = queue[p] \/ queue'[p] = Append(queue[p], f),
           queue'[p] = queue[p] \/ f.kind # "reply",
           \A q \in Peers : queue'[p] = queue[p] \/ (/\ IsLeft(f, q) => Departed(q)
                                                     /\ About(f, q) => at[q] # "apply"),
           view'[p] = view[p],
           \A q \in Peers : /\ at[q] # "apply" => at'[q] # "apply"
                            /\ Departed(q) => Departed(q)'
    PROVE  QueueOK(p)'
<1>1. CASE queue'[p] = queue[p]
  BY <1>1 DEF QueueOK
<1>2. CASE queue'[p] # queue[p]
  <2> DEFINE s == queue[p]
             a == Append(s, f)
             k == Len(s) + 1
  <2>1. /\ DOMAIN a = 1 .. k /\ DOMAIN s = 1 .. k - 1 /\ k \in Nat
        /\ \A i \in DOMAIN s : a[i] = s[i]
        /\ a[k] = f
    BY AppendProper, ProperLength
  <2>2. \A i \in DOMAIN a : i = k \/ i \in DOMAIN s
    BY <2>1
  <2>3. queue'[p] = a
    BY <1>2
  <2>4. /\ f.kind # "reply"
        /\ \A q \in Peers : (IsLeft(f, q) => Departed(q)) /\ (About(f, q) => at[q] # "apply")
    BY <1>2
  <2> HIDE DEF a, k
  <2>5. ASSUME NEW i \in DOMAIN a
        PROVE  /\ a[i].kind = "reply" => i = 1 /\ ~view'[p].seated
               /\ \A q \in Peers : /\ IsLeft(a[i], q) => Departed(q)'
                                   /\ About(a[i], q) => at'[q] # "apply"
    <3>1. CASE i = k
      BY <2>1, <2>4, <3>1
    <3>2. CASE i \in DOMAIN s
      BY <2>1, <3>2 DEF QueueOK
    <3> QED
      BY <2>2, <3>1, <3>2
  <2> QED
    BY <2>3, <2>5 DEF QueueOK
<1> QED
  BY <1>1, <1>2

\* Frames that announce nobody.
LEMMA NotWords ==
    ASSUME NEW q, NEW x, NEW n
    PROVE  /\ ~Tells(NoFrame) /\ Own(NoFrame, x) /\ ~About(NoFrame, q)
           /\ ~Tells(Left(q)) /\ Own(Left(q), x) /\ ~Tells(Data(q, n)) /\ Own(Data(q, n), x)
           /\ ~About(Answer, q) /\ ~IsLeft(Answer, q) /\ Answer.kind # "reply"
           /\ Joined(x, n).kind = "joined" /\ Joined(x, n).peer = x /\ Joined(x, n).name = n
           /\ Renamed(x, n).kind = "renamed" /\ Renamed(x, n).peer = x /\ Renamed(x, n).name = n
  BY DEF Tells, Own, About, Introduces, IsRename, IsLeft, NoFrame, Left, Data, Answer, Joined, Renamed

\* A task's own frame is about nobody else.
LEMMA OwnAbout ==
    ASSUME NEW f, NEW x, Own(f, x), NEW q, About(f, q) PROVE q = x /\ Tells(f)
  BY DEF Own, About, Introduces, IsRename, Tells

\* A task that is not delivering has no word on its way, and none that has taken its
\* frame has one pending.
LEMMA NothingComing ==
    ASSUME JobInv, WordInv, NEW q \in Peers
    PROVE  /\ at[q] \notin Delivering => \A p : \A K \in Kinds : ~Coming(p, q, K)
           /\ at[q] # "pop" => \A i \in DOMAIN job[q].pending : ~Tells(job[q].pending[i].out)
<1>1. WordTask(q) /\ JobAt(job[q], at[q])
  BY DEF WordInv, JobInv
<1>2. at[q] # "pop" => \A i \in DOMAIN job[q].pending : ~Tells(job[q].pending[i].out)
  BY <1>1 DEF WordTask
<1>3. ASSUME at[q] \notin Delivering, NEW p, NEW K \in Kinds PROVE ~Coming(p, q, K)
  <2>1. job[q].pending = <<>> /\ job[q].targets = {} /\ job[q].slow = {}
    BY <1>1, <1>3 DEF JobAt, Delivering
  <2> QED
    BY <2>1 DEF Coming
<1> QED
  BY <1>2, <1>3

LEMMA PopWord ==
    ASSUME SeatInv, JobInv, WelcomeInv, WordInv, NEW p \in Peers, Pop(p),
           \A q \in Peers : /\ at[q] # "apply" => at'[q] # "apply"
                            /\ Departed(q) => Departed(q)'
    PROVE  WordInv'
<1> DEFINE n == Len(job[p].pending)
           top == Top(p)
           targets == Snapshot(p, top.skip)
<1>1. UNCHANGED <<names, seats, queue, closed, view>>
  BY DEF Pop, wires, registry
<1>2. \A x \in Peers : x # p => job'[x] = job[x] /\ at'[x] = at[x]
  BY PopJob, StaysSeated DEF GoesOn
<1>3. /\ job'[p].pending = Rest(p) /\ job'[p].targets = targets
      /\ \/ job'[p].out = top.out
         \/ targets = {} /\ job'[p].out = NoFrame
  BY PopJob, JobFields DEF GoesOn
<1>4. /\ n \in DOMAIN job[p].pending /\ n \in Nat
      /\ DOMAIN Rest(p) = 1 .. n - 1 /\ DOMAIN job[p].pending = 1 .. n
      /\ \A i \in DOMAIN Rest(p) : Rest(p)[i] = job[p].pending[i]
  BY PopJob, FrontProper, ProperLength DEF JobInv, JobAt, Rest
<1>5. job[p].targets = {} /\ job[p].slow = {} /\ top = job[p].pending[n] /\ at[p] = "pop"
  BY PopJob DEF Top, JobInv, JobAt
<1>6. ASSUME NEW y \in Peers, Mates(y, p), top.skip \subseteq {p} PROVE y \in targets
  <2>1. PICK r \in Rooms : y \in seats[r] /\ p \in seats[r]
    BY <1>6 DEF Mates
  <2>2. r \in live /\ roomOf[p] = {r} /\ y # p
    BY <1>6, <2>1 DEF SeatInv, SeatsAreServed, Mates
  <2> QED
    BY <1>6, <2>1, <2>2 DEF Snapshot
<1>7. WordTask(p)
  BY DEF WordInv
<1>8. \A i \in DOMAIN job[p].pending : Tells(job[p].pending[i].out) =>
        n = 1 /\ i = n /\ top.skip \subseteq {p}
  <2> SUFFICES ASSUME NEW i \in DOMAIN job[p].pending, Tells(job[p].pending[i].out)
               PROVE  n = 1 /\ i = n /\ top.skip \subseteq {p}
    OBVIOUS
  <2>1. n = 1 /\ job[p].pending[i].skip \subseteq {p}
    BY <1>7 DEF WordTask
  <2>2. i = n
    BY <1>4, <2>1
  <2> QED
    BY <1>5, <2>1, <2>2
<1> HIDE DEF n, top, targets
<1>9. WordTask(p)'
  <2>1. Own(top.out, p) /\ Own(NoFrame, p)
    BY <1>4, <1>5, <1>7, NotWords DEF WordTask
  <2>2. ASSUME NEW i \in DOMAIN Rest(p)
        PROVE  Own(Rest(p)[i].out, p) /\ ~Tells(Rest(p)[i].out)
    <3>1. i \in DOMAIN job[p].pending /\ i # n /\ Rest(p)[i] = job[p].pending[i]
      BY <1>4
    <3> QED
      BY <1>7, <1>8, <3>1 DEF WordTask
  <2>3. Own(job'[p].out, p)
    BY <1>3, <2>1
  <2> QED
    BY <1>1, <1>3, <2>2, <2>3 DEF WordTask, Own
<1>10. ASSUME NEW x \in Peers, x # p PROVE WordTask(x)'
  BY <1>1, <1>2, <1>10 DEF WordInv, WordTask, Own
<1>11. ASSUME NEW x \in Peers PROVE QueueOK(x)'
  <2>1. QueueOK(x) /\ Proper(queue[x]) /\ queue'[x] = queue[x] /\ view'[x] = view[x]
    BY <1>1 DEF WordInv, WelcomeInv, WelcomeFor
  <2> QED
    BY <2>1, QueueKept
<1>12. ASSUME NEW y \in Peers, NEW q \in Peers PROVE WordFor(y, q)'
  <2>1. /\ WordFor(y, q) /\ Proper(queue[y]) /\ (Mates(y, q)' <=> Mates(y, q))
        /\ queue'[y] = queue[y] /\ view'[y] = view[y] /\ names'[q] = names[q]
        /\ (y \notin closed' => y \notin closed)
    BY <1>1 DEF WordInv, WelcomeInv, WelcomeFor, Mates
  <2>2. ASSUME NEW K \in Kinds, Coming(y, q, K), Mates(y, q) PROVE Coming(y, q, K)'
    <3>1. CASE q # p
      BY <1>2, <2>2, <3>1 DEF Coming
    <3>2. CASE q = p
      <4>1. PICK i \in DOMAIN job[p].pending : job[p].pending[i].out.kind \in K
        BY <1>5, <2>2, <3>2 DEF Coming
      <4>2. Tells(job[p].pending[i].out)
        BY <4>1 DEF Tells, Kinds
      <4>3. top.out.kind \in K /\ y \in targets
        BY <1>5, <1>6, <1>8, <2>2, <3>2, <4>1, <4>2
      <4>4. job'[p].out = top.out /\ y \in job'[p].targets
        BY <1>3, <4>3
      <4> QED
        BY <3>2, <4>3, <4>4 DEF Coming
    <3> QED
      BY <3>1, <3>2
  <2> QED
    BY <2>1, <2>2, WordsKept
<1> QED
  BY <1>9, <1>10, <1>11, <1>12 DEF WordInv

LEMMA SendWord ==
    ASSUME SeatInv, JobInv, WelcomeInv, ToldInv, WordInv, NEW p \in Peers, Send(p),
           \A q \in Peers : /\ at[q] # "apply" => at'[q] # "apply"
                            /\ Departed(q) => Departed(q)'
    PROVE  WordInv'
<1> DEFINE f == job[p].out
<1>1. UNCHANGED <<names, seats, closed, view>> /\ at[p] = "send"
  BY DEF Send, registry
<1>2. PICK t \in job[p].targets :
        /\ \/ Fits(t) /\ queue' = [queue EXCEPT ![t] = Append(@, job[p].out)]
           \/ ~Fits(t) /\ queue' = queue
        /\ GoesOn(p, Offered(p, t)) /\ t \in Peers
  BY SendJob
<1>3. \A x \in Peers : x # p => job'[x] = job[x] /\ at'[x] = at[x]
  BY <1>2, StaysSeated DEF GoesOn
<1>4. /\ job'[p].pending = job[p].pending /\ job'[p].targets = job[p].targets \ {t}
      /\ job'[p].slow = IF Fits(t) THEN job[p].slow ELSE job[p].slow \cup {t}
      /\ \/ job'[p].out = f
         \/ job'[p].targets = {} /\ job'[p].slow = {} /\ job'[p].out = NoFrame
  BY <1>2, JobFields DEF GoesOn, Offered
<1>5. /\ \A x \in Peers : x # t => queue'[x] = queue[x]
      /\ Fits(t) => queue'[t] = Append(queue[t], f)
      /\ ~Fits(t) => queue'[t] = queue[t]
  BY <1>2 DEF WelcomeInv
<1>6. WordTask(p) /\ Own(f, p) /\ at[p] # "apply"
  BY <1>1 DEF WordInv, WordTask
<1>7. \A q \in Peers : IsLeft(f, q) => Departed(q)
  BY DEF ToldInv, ToldFor, InHand
<1>8. \A i \in DOMAIN job[p].pending : ~Tells(job[p].pending[i].out)
  BY <1>1, NothingComing
<1> HIDE DEF f
<1>9. WordTask(p)'
  <2>1. Own(job'[p].out, p)
    BY <1>4, <1>6, NotWords
  <2> QED
    BY <1>1, <1>4, <1>6, <1>8, <2>1 DEF WordTask, Own
<1>10. ASSUME NEW x \in Peers, x # p PROVE WordTask(x)'
  BY <1>1, <1>3, <1>10 DEF WordInv, WordTask, Own
<1>11. ASSUME NEW x \in Peers PROVE QueueOK(x)'
  <2>1. /\ QueueOK(x) /\ Proper(queue[x]) /\ view'[x] = view[x]
        /\ queue'[x] = queue[x] \/ queue'[x] = Append(queue[x], f)
    BY <1>1, <1>5 DEF WordInv, WelcomeInv, WelcomeFor
  <2>2. /\ f.kind # "reply"
        /\ \A q \in Peers : (IsLeft(f, q) => Departed(q)) /\ (About(f, q) => at[q] # "apply")
    BY <1>6, <1>7, OwnAbout DEF Own
  <2> QED
    BY <2>1, <2>2, QueueKept
<1>12. ASSUME NEW y \in Peers, NEW q \in Peers PROVE WordFor(y, q)'
  <2>1. /\ WordFor(y, q) /\ Proper(queue[y]) /\ (Mates(y, q)' <=> Mates(y, q))
        /\ view'[y] = view[y] /\ names'[q] = names[q]
        /\ (y \notin closed' => y \notin closed)
    BY <1>1 DEF WordInv, WelcomeInv, WelcomeFor, Mates
  <2>2. CASE q # p
    <3>1. ~About(f, q) /\ (queue'[y] = queue[y] \/ queue'[y] = Append(queue[y], f))
      BY <1>5, <1>6, <2>2, OwnAbout
    <3>2. \A K \in Kinds : Coming(y, q, K) => Coming(y, q, K)'
      BY <1>3, <2>2 DEF Coming
    <3> QED
      BY <2>1, <3>1, <3>2, WordsKept
  <2>3. ASSUME NEW K \in Kinds, Coming(y, p, K) PROVE f.kind \in K /\ y \in job[p].targets \cup job[p].slow
    BY <1>8, <2>3 DEF Coming, Kinds, Tells, f
  <2>4. CASE q = p /\ (y # t \/ ~Fits(t))
    <3>1. queue'[y] = queue[y]
      BY <1>5, <2>4
    <3>2. ASSUME NEW K \in Kinds, Coming(y, p, K) PROVE Coming(y, p, K)'
      <4>1. y \in job'[p].targets \cup job'[p].slow
        BY <1>4, <2>3, <2>4, <3>2
      <4>2. job'[p].out = f
        BY <1>4, <4>1
      <4> QED
        BY <2>3, <3>2, <4>1, <4>2 DEF Coming
    <3> QED
      BY <2>1, <2>4, <3>1, <3>2, WordsKept
  <2>5. CASE q = p /\ y = t /\ Fits(t) /\ ~Tells(f)
    <3>1. queue'[y] = Append(queue[y], f) /\ ~About(f, q)
      BY <1>5, <1>6, <2>5, OwnAbout
    <3>2. \A K \in Kinds : ~Coming(y, q, K)
      BY <2>3, <2>5 DEF Tells, Kinds
    <3> QED
      BY <2>1, <3>1, <3>2, WordsKept
  <2>6. CASE q = p /\ y = t /\ Fits(t) /\ Tells(f)
    <3> SUFFICES ASSUME Mates(y, q), y \notin closed
                 PROVE  /\ Heard(view'[y], queue'[y], q)
                        /\ Latest(view'[y], queue'[y], q, names'[q])
                        /\ Ordered(view'[y], queue'[y], q)
      BY <2>1 DEF WordFor
    <3>1. /\ Coming(y, q, {"joined"}) \/ Heard(view[y], queue[y], q)
          /\ Ordered(view[y], queue[y], q)
      BY <2>1 DEF WordFor
    <3>2. Coming(y, q, {"joined"}) => f.kind = "joined"
      BY <2>3, <2>6 DEF Kinds
    <3>3. f.peer = q /\ f.name = names[q] /\ queue'[y] = Append(queue[y], f)
      BY <1>5, <1>6, <2>6 DEF Own
    <3> QED
      BY <2>1, <2>6, <3>1, <3>2, <3>3, AppendWord
  <2> QED
    BY <2>2, <2>4, <2>5, <2>6
<1> QED
  BY <1>9, <1>10, <1>11, <1>12 DEF WordInv

LEMMA EjectWord ==
    ASSUME SeatInv, JobInv, WelcomeInv, WordInv, NEW p \in Peers, Eject(p),
           \A q \in Peers : /\ at[q] # "apply" => at'[q] # "apply"
                            /\ Departed(q) => Departed(q)'
    PROVE  WordInv'
<1>1. PICK z \in job[p].slow, r \in roomOf[p] :
        /\ \/ /\ r \in live /\ z \in seats[r] /\ Detach(r, z)
              /\ GoesOn(p, Job(Pending1(p, z), job[p].out, {}, job[p].slow \ {z}))
           \/ /\ ~(r \in live /\ z \in seats[r]) /\ UNCHANGED registry
              /\ GoesOn(p, Job(job[p].pending, job[p].out, {}, job[p].slow \ {z}))
        /\ UNCHANGED <<queue, closed, view>> /\ Proper(job[p].pending) /\ at[p] = "eject"
  BY EjectJob
<1>2. \A x \in Peers : x # p => job'[x] = job[x] /\ at'[x] = at[x]
  BY <1>1, StaysSeated DEF GoesOn
<1>3. /\ job'[p].slow = job[p].slow \ {z}
      /\ job'[p].out = job[p].out \/ (job'[p].slow = {} /\ job'[p].out = NoFrame)
  BY <1>1, JobFields DEF GoesOn
<1>4. job[p].targets = {} /\ \A i \in DOMAIN job[p].pending : ~Tells(job[p].pending[i].out)
  BY <1>1, NothingComing DEF JobInv, JobAt
<1>5. WordTask(p)
  BY DEF WordInv
<1>6. /\ names' = names
      /\ \A x, y \in Peers : Mates(y, x)' => Mates(y, x)
      /\ ~Mates(z, p)'
      /\ \A i \in DOMAIN job'[p].pending :
           Own(job'[p].pending[i].out, p) /\ ~Tells(job'[p].pending[i].out)
  <2>1. r \in Rooms /\ roomOf[p] = {r}
    BY <1>1 DEF SeatInv, TypeOK
  <2>2. CASE /\ r \in live /\ z \in seats[r] /\ Detach(r, z)
             /\ GoesOn(p, Job(Pending1(p, z), job[p].out, {}, job[p].slow \ {z}))
    <3>1. names' = names /\ \A x \in Rooms : z \notin seats'[x] /\ seats'[x] \subseteq seats[x]
      BY <2>2, DetachSeats
    <3>2. ~Mates(z, p)' /\ \A x, y \in Peers : Mates(y, x)' => Mates(y, x)
      BY <3>1 DEF Mates
    <3> DEFINE k == Len(job[p].pending) + 1
               s == Pending1(p, z)
    <3>3. job'[p].pending = s
      BY <2>2, JobFields DEF GoesOn
    <3>4. /\ DOMAIN s = 1 .. k /\ DOMAIN job[p].pending = 1 .. k - 1 /\ k \in Nat
          /\ \A i \in DOMAIN job[p].pending : s[i] = job[p].pending[i]
          /\ s[k] = Pending({}, Left(z))
      BY <1>1, AppendProper, ProperLength DEF Pending1
    <3>5. s[k].out = Left(z)
      BY <3>4 DEF Pending
    <3>6. \A i \in DOMAIN s : i = k \/ i \in DOMAIN job[p].pending
      BY <3>4
    <3>7. Own(Left(z), p) /\ ~Tells(Left(z))
      BY NotWords
    <3> HIDE DEF k, s
    <3>8. \A i \in DOMAIN s : Own(s[i].out, p) /\ ~Tells(s[i].out)
      BY <1>4, <1>5, <3>4, <3>5, <3>6, <3>7 DEF WordTask
    <3> QED
      BY <3>1, <3>2, <3>3, <3>8
  <2>3. CASE /\ ~(r \in live /\ z \in seats[r]) /\ UNCHANGED registry
             /\ GoesOn(p, Job(job[p].pending, job[p].out, {}, job[p].slow \ {z}))
    <3>1. seats' = seats /\ names' = names /\ z \notin seats[r]
      BY <2>1, <2>3 DEF registry, SeatInv
    <3>2. job'[p].pending = job[p].pending
      BY <2>3, JobFields DEF GoesOn
    <3>3. ~Mates(z, p)
      <4> SUFFICES ASSUME NEW x \in Rooms, z \in seats[x], p \in seats[x] PROVE FALSE
        BY DEF Mates
      <4>1. roomOf[p] = {x}
        BY DEF SeatInv, SeatsAreServed
      <4> QED
        BY <2>1, <3>1, <4>1
    <3>4. \A x, y : Mates(y, x)' <=> Mates(y, x)
      BY <3>1 DEF Mates
    <3> QED
      BY <1>4, <1>5, <3>1, <3>2, <3>3, <3>4 DEF WordTask
  <2> QED
    BY <1>1, <2>2, <2>3
<1>7. WordTask(p)'
  <2>1. Own(job'[p].out, p)
    BY <1>3, <1>5, NotWords DEF WordTask
  <2> QED
    BY <1>6, <2>1 DEF WordTask, Own
<1>8. ASSUME NEW x \in Peers, x # p PROVE WordTask(x)'
  BY <1>2, <1>6, <1>8 DEF WordInv, WordTask, Own
<1>9. ASSUME NEW x \in Peers PROVE QueueOK(x)'
  <2>1. QueueOK(x) /\ Proper(queue[x]) /\ queue'[x] = queue[x] /\ view'[x] = view[x]
    BY <1>1 DEF WordInv, WelcomeInv, WelcomeFor
  <2> QED
    BY <2>1, QueueKept
<1>10. ASSUME NEW y \in Peers, NEW q \in Peers PROVE WordFor(y, q)'
  <2>1. /\ WordFor(y, q) /\ Proper(queue[y]) /\ (Mates(y, q)' => Mates(y, q))
        /\ queue'[y] = queue[y] /\ view'[y] = view[y] /\ names'[q] = names[q]
        /\ (y \notin closed' => y \notin closed)
    BY <1>1, <1>6 DEF WordInv, WelcomeInv, WelcomeFor
  <2>2. ASSUME NEW K \in Kinds, Coming(y, q, K), Mates(y, q)' PROVE Coming(y, q, K)'
    <3>1. CASE q # p
      BY <1>2, <2>2, <3>1 DEF Coming
    <3>2. CASE q = p
      <4>1. job[p].out.kind \in K /\ y \in job[p].slow /\ y # z
        BY <1>4, <1>6, <2>2, <3>2 DEF Coming, Tells, Kinds
      <4>2. y \in job'[p].slow /\ job'[p].out = job[p].out
        BY <1>3, <4>1
      <4> QED
        BY <3>2, <4>1, <4>2 DEF Coming
    <3> QED
      BY <3>1, <3>2
  <2> QED
    BY <2>1, <2>2, WordsKept
<1> QED
  BY <1>7, <1>8, <1>9, <1>10 DEF WordInv

\* A task at a place without a job is set going, with a frame of its own; it may
\* have queued an answer for itself.
LEMMA StartsWord ==
    ASSUME SeatInv, JobInv, WelcomeInv, WordInv, NEW p \in Peers, NEW skip, NEW f,
           SetGoing(p, skip, f), at' = [at EXCEPT ![p] = "pop"], at[p] \notin Delivering,
           Own(f, p)', Tells(f) => skip \subseteq {p} /\ f.kind = "renamed",
           \A x \in Peers : x # p => names'[x] = names[x],
           Tells(f) \/ names' = names,
           queue' = queue \/ queue' = Queued(p, Answer),
           UNCHANGED <<view, closed>>, \A x \in Rooms : seats'[x] \subseteq seats[x],
           \A q \in Peers : /\ at[q] # "apply" => at'[q] # "apply"
                            /\ Departed(q) => Departed(q)'
    PROVE  WordInv'
<1>1. \A x \in Peers : x # p => job'[x] = job[x]
  BY DEF SetGoing
<1>2. /\ DOMAIN job'[p].pending = {1} /\ job'[p].pending[1].out = f
      /\ job'[p].pending[1].skip = skip /\ Len(job'[p].pending) = 1
      /\ job'[p].out = NoFrame
  BY OnePending DEF SetGoing
<1>3. at'[p] = "pop" /\ \A x \in Peers : x # p => at'[x] = at[x]
  BY DEF SeatInv, TypeOK
<1>4. ASSUME NEW y \in Peers
      PROVE  /\ queue'[y] = queue[y] \/ queue'[y] = Append(queue[y], Answer)
             /\ y # p => queue'[y] = queue[y]
             /\ Proper(queue[y])
  BY DEF Queued, WelcomeInv, WelcomeFor
<1>5. WordTask(p)'
  <2>1. Own(NoFrame, p)'
    BY DEF Own, Tells, NoFrame
  <2> QED
    BY <1>2, <1>3, <2>1 DEF WordTask
<1>6. ASSUME NEW x \in Peers, x # p PROVE WordTask(x)'
  BY <1>1, <1>3, <1>6 DEF WordInv, WordTask, Own
<1>7. ASSUME NEW x \in Peers PROVE QueueOK(x)'
  <2>1. QueueOK(x) /\ view'[x] = view[x]
    BY DEF WordInv
  <2>2. Answer.kind # "reply" /\ \A q : ~IsLeft(Answer, q) /\ ~About(Answer, q)
    BY NotWords
  <2> QED
    BY <1>4, <2>1, <2>2, QueueKept
<1>8. ASSUME NEW y \in Peers, NEW q \in Peers PROVE WordFor(y, q)'
  <2>1. /\ WordFor(y, q) /\ view'[y] = view[y] /\ (y \notin closed' => y \notin closed)
        /\ (Mates(y, q)' => Mates(y, q)) /\ ~About(Answer, q)
    BY NotWords DEF WordInv, Mates
  <2>2. CASE q # p
    <3>1. \A K \in Kinds : Coming(y, q, K) => Coming(y, q, K)'
      BY <1>1, <2>2 DEF Coming
    <3> QED
      BY <1>4, <2>1, <2>2, <3>1, WordsKept
  <2>3. \A K \in Kinds : ~Coming(y, p, K)
    BY NothingComing
  <2>4. CASE q = p /\ names' = names
    BY <1>4, <2>1, <2>3, <2>4, WordsKept
  <2>5. CASE q = p /\ Tells(f)
    <3> SUFFICES ASSUME Mates(y, q)', y \notin closed'
                 PROVE  /\ Heard(view'[y], queue'[y], q)
                        /\ Coming(y, q, {"joined", "renamed"})'
                        /\ Ordered(view'[y], queue'[y], q)
      BY DEF WordFor
    <3>1. Mates(y, q) /\ y \notin closed /\ y # p
      BY <2>1, <2>5 DEF Mates
    <3>2. {"joined"} \in Kinds
      BY DEF Kinds
    <3>3. Heard(view[y], queue[y], q) /\ Ordered(view[y], queue[y], q)
      BY <2>1, <2>3, <2>5, <3>1, <3>2 DEF WordFor
    <3>4. Coming(y, q, {"joined", "renamed"})'
      BY <1>2, <2>5 DEF Coming, Tells
    <3> QED
      BY <1>4, <2>1, <3>1, <3>3, <3>4
  <2> QED
    BY <2>2, <2>4, <2>5
<1> QED
  BY <1>5, <1>6, <1>7, <1>8 DEF WordInv

\* A task at a place without a job stays without, or nobody's task moves at all.
LEMMA MovesWord ==
    ASSUME SeatInv, JobInv, WelcomeInv, WordInv, NEW p \in Peers,
           UNCHANGED <<job, names, view, closed, seats>>,
           at' = at \/ (at[p] \notin Delivering /\ \E a : at' = [at EXCEPT ![p] = a]),
           queue' = queue \/ queue' = Queued(p, Answer),
           \A q \in Peers : /\ at[q] # "apply" => at'[q] # "apply"
                            /\ Departed(q) => Departed(q)'
    PROVE  WordInv'
<1>1. ASSUME NEW y \in Peers
      PROVE  /\ queue'[y] = queue[y] \/ queue'[y] = Append(queue[y], Answer)
             /\ Proper(queue[y])
  BY DEF Queued, WelcomeInv, WelcomeFor
<1>2. ASSUME NEW x \in Peers PROVE WordTask(x)'
  <2>1. CASE at'[x] = at[x]
    BY <2>1 DEF WordInv, WordTask, Own
  <2>2. CASE at'[x] # at[x]
    <3>1. at[x] \notin Delivering
      BY <2>2 DEF SeatInv, TypeOK
    <3>2. job[x].pending = <<>> /\ WordTask(x)
      BY <3>1 DEF JobInv, JobAt, WordInv
    <3> QED
      BY <3>2 DEF WordTask, Own
  <2> QED
    BY <2>1, <2>2
<1>3. ASSUME NEW x \in Peers PROVE QueueOK(x)'
  <2>1. QueueOK(x) /\ view'[x] = view[x]
    BY DEF WordInv
  <2>2. Answer.kind # "reply" /\ \A q : ~IsLeft(Answer, q) /\ ~About(Answer, q)
    BY NotWords
  <2> QED
    BY <1>1, <2>1, <2>2, QueueKept
<1>4. ASSUME NEW y \in Peers, NEW q \in Peers PROVE WordFor(y, q)'
  <2>1. /\ WordFor(y, q) /\ view'[y] = view[y] /\ (y \notin closed' => y \notin closed)
        /\ (Mates(y, q)' => Mates(y, q)) /\ ~About(Answer, q) /\ names'[q] = names[q]
        /\ \A K \in Kinds : Coming(y, q, K) => Coming(y, q, K)'
    BY NotWords DEF WordInv, Mates, Coming
  <2> QED
    BY <1>1, <2>1, WordsKept
<1> QED
  BY <1>2, <1>3, <1>4 DEF WordInv

\* A connection that is unplugged has nothing to read, and need not know anybody.
LEMMA UnplugWord ==
    ASSUME SeatInv, JobInv, WelcomeInv, WordInv, NEW p \in Peers, Unplug(p),
           UNCHANGED <<job, names, seats>>,
           at' = at \/ (at[p] \notin Delivering /\ \E a : at' = [at EXCEPT ![p] = a]),
           \A q \in Peers : /\ at[q] # "apply" => at'[q] # "apply"
                            /\ Departed(q) => Departed(q)'
    PROVE  WordInv'
<1>1. /\ queue' = [queue EXCEPT ![p] = <<>>] /\ closed' = closed \cup {p}
      /\ view' = [view EXCEPT ![p] = NoView]
  BY DEF Unplug
<1>2. /\ queue'[p] = <<>> /\ view'[p] = NoView
      /\ \A x \in Peers : x # p => queue'[x] = queue[x] /\ view'[x] = view[x]
  BY <1>1 DEF WelcomeInv
<1>3. ASSUME NEW x \in Peers PROVE WordTask(x)'
  <2>1. CASE at'[x] = at[x]
    BY <2>1 DEF WordInv, WordTask, Own
  <2>2. CASE at'[x] # at[x]
    <3>1. at[x] \notin Delivering
      BY <2>2 DEF SeatInv, TypeOK
    <3>2. job[x].pending = <<>> /\ WordTask(x)
      BY <3>1 DEF JobInv, JobAt, WordInv
    <3> QED
      BY <3>2 DEF WordTask, Own
  <2> QED
    BY <2>1, <2>2
<1>4. ASSUME NEW x \in Peers, x # p PROVE QueueOK(x)'
  <2>1. QueueOK(x) /\ Proper(queue[x])
    BY DEF WordInv, WelcomeInv, WelcomeFor
  <2> QED
    BY <1>2, <1>4, <2>1, QueueKept
<1>5. QueueOK(p)'
  BY <1>2 DEF QueueOK
<1>6. ASSUME NEW y \in Peers, NEW q \in Peers PROVE WordFor(y, q)'
  <2>1. CASE y = p
    BY <1>1, <2>1 DEF WordFor
  <2>2. CASE y # p
    <3>1. /\ WordFor(y, q) /\ Proper(queue[y]) /\ (y \notin closed' => y \notin closed)
          /\ (Mates(y, q)' => Mates(y, q)) /\ names'[q] = names[q]
          /\ \A K \in Kinds : Coming(y, q, K) => Coming(y, q, K)'
      BY <1>1 DEF WordInv, WelcomeInv, WelcomeFor, Mates, Coming
    <3> QED
      BY <1>2, <2>2, <3>1, WordsKept
  <2> QED
    BY <2>1, <2>2
<1> QED
  BY <1>3, <1>4, <1>5, <1>6 DEF WordInv

LEMMA ReadsWord ==
    ASSUME SeatInv, WelcomeInv, WordInv, NEW p \in Peers, Read(p)
    PROVE  WordInv'
<1> DEFINE s == queue[p]
           v == view[p]
           w == Hear(v, s[1])
           t == Tail(s)
<1>1. /\ view' = [view EXCEPT ![p] = Hear(v, Head(s))] /\ queue' = [queue EXCEPT ![p] = t]
      /\ s # <<>> /\ UNCHANGED <<job, at, names, seats, closed>>
  BY DEF Read, running, registry
<1>2. /\ Proper(s) /\ at[p] # "apply" /\ p \notin closed
      /\ v.seated \/ s[1].kind = "reply"
  BY <1>1 DEF WelcomeInv, WelcomeFor, Welcomed
<1>3. Head(s) = s[1] /\ 1 \in DOMAIN s
  BY <1>1, <1>2, TailProper
<1>4. QueueOK(p)
  BY DEF WordInv
<1>5. /\ queue'[p] = t /\ view'[p] = w
      /\ \A x \in Peers : x # p => queue'[x] = queue[x] /\ view'[x] = view[x]
  BY <1>1, <1>3 DEF WelcomeInv
<1>6. w.seated
  BY <1>2, HearSeated
<1>7. /\ v = NoView \/ v.seated
      /\ s[1].kind = "reply" => ~v.seated
      /\ \A q \in Peers : IsLeft(s[1], q) => Departed(q)
  BY <1>3, <1>4 DEF QueueOK
<1>8. \A i \in DOMAIN t : i + 1 \in DOMAIN s /\ i + 1 # 1 /\ t[i] = s[i + 1]
  <2>1. /\ Len(s) \in Nat /\ DOMAIN s = 1 .. Len(s) /\ DOMAIN t = 1 .. Len(s) - 1
        /\ \A i \in DOMAIN t : t[i] = s[i + 1]
    BY <1>1, <1>2, TailFields
  <2> QED
    BY <2>1
<1> HIDE DEF s, v, w, t
<1>9. \A q \in Peers : Departed(q)' <=> Departed(q)
  BY <1>1 DEF Departed
<1>10. QueueOK(p)'
  <2>1. ASSUME NEW i \in DOMAIN t
        PROVE  /\ t[i].kind # "reply"
               /\ \A q \in Peers : /\ IsLeft(t[i], q) => Departed(q)
                                   /\ About(t[i], q) => at[q] # "apply"
    BY <1>4, <1>8 DEF QueueOK, s
  <2> QED
    BY <1>1, <1>2, <1>5, <1>6, <1>9, <2>1 DEF QueueOK
<1>11. ASSUME NEW x \in Peers PROVE WordTask(x)'
  BY <1>1 DEF WordInv, WordTask, Own
<1>12. ASSUME NEW x \in Peers, x # p PROVE QueueOK(x)'
  BY <1>1, <1>5, <1>9, <1>12 DEF WordInv, QueueOK
<1>13. ASSUME NEW y \in Peers, NEW q \in Peers PROVE WordFor(y, q)'
  <2>1. /\ WordFor(y, q) /\ (Mates(y, q)' <=> Mates(y, q))
        /\ \A K : Coming(y, q, K)' <=> Coming(y, q, K)
    BY <1>1 DEF WordInv, Mates, Coming
  <2>2. CASE y # p
    BY <1>1, <1>5, <2>1, <2>2 DEF WordFor
  <2>3. CASE y = p
    <3> SUFFICES ASSUME Mates(p, q)
                 PROVE  /\ Coming(p, q, {"joined"}) \/ Heard(w, t, q)
                        /\ Coming(p, q, {"joined", "renamed"}) \/ Latest(w, t, q, names[q])
                        /\ Ordered(w, t, q)
      BY <1>1, <1>5, <2>1, <2>3 DEF WordFor
    <3>1. ~Departed(q)
      BY DEF Mates, Departed
    <3>2. /\ Coming(p, q, {"joined"}) \/ Heard(v, s, q)
          /\ Coming(p, q, {"joined", "renamed"}) \/ Latest(v, s, q, names[q])
          /\ Ordered(v, s, q)
      BY <1>2, <2>1, <2>3 DEF WordFor, v, s
    <3>3. /\ Heard(v, s, q) => Heard(w, t, q)
          /\ Latest(v, s, q, names[q]) => Latest(w, t, q, names[q])
          /\ Ordered(w, t, q)
      BY <1>1, <1>2, <1>7, <3>1, <3>2, ReadWord DEF w, t
    <3> QED
      BY <3>2, <3>3
  <2> QED
    BY <2>2, <2>3
<1> QED
  BY <1>10, <1>11, <1>12, <1>13 DEF WordInv

\* A newcomer knows whom its reply lists, and is yet to be announced to them.
LEMMA EntersWord ==
    ASSUME SeatInv, JobInv, WelcomeInv, WordInv, NEW p \in Peers, NEW r \in Rooms, Enters(p, r),
           \A q \in Peers : /\ at[q] # "apply" => at'[q] # "apply"
                            /\ Departed(q) => Departed(q)'
    PROVE  WordInv'
<1>1. /\ at[p] = "apply" /\ seats' = [seats EXCEPT ![r] = seats[r] \cup {p}]
      /\ UNCHANGED <<names, closed, view>>
  BY DEF Enters
<1>2. PICK f : /\ f.kind = "reply" /\ queue' = [queue EXCEPT ![p] = <<f>>]
               /\ DOMAIN f.peers = seats[r] \ {p}
               /\ \A x \in seats[r] \ {p} : f.peers[x] = names[x]
  BY DEF Enters
<1>3. queue'[p] = <<f>> /\ \A x \in Peers : x # p => queue'[x] = queue[x]
  BY <1>2 DEF WelcomeInv
<1>4. \A x \in Rooms : p \notin seats[x]
  BY <1>1, Unseated
<1>5. /\ WordTask(p)'
      /\ \A x \in Peers : x # p => job'[x] = job[x] /\ at'[x] = at[x]
      /\ seats[r] = {} \/ /\ DOMAIN job'[p].pending = {1}
                          /\ job'[p].pending[1].out.kind = "joined"
  <2>1. CASE job' = job /\ at' = [at EXCEPT ![p] = "pump"] /\ seats[r] = {}
    <3>1. job[p].pending = <<>> /\ WordTask(p)
      BY <1>1 DEF JobInv, JobAt, WordInv, Delivering
    <3>2. WordTask(p)'
      BY <1>1, <2>1, <3>1 DEF WordTask, Own
    <3> QED
      BY <2>1, <3>2 DEF SeatInv, TypeOK
  <2>2. CASE Starts(p, {p}, Joined(p, names[p]))
    <3> DEFINE g == Joined(p, names[p])
    <3>1. SetGoing(p, {p}, g) /\ at' = [at EXCEPT ![p] = "pop"]
      BY <2>2, StartsJob
    <3>2. g.kind = "joined" /\ g.peer = p /\ g.name = names[p]
      BY NotWords
    <3> HIDE DEF g
    <3>3. /\ DOMAIN job'[p].pending = {1} /\ job'[p].pending[1].out = g
          /\ job'[p].pending[1].skip = {p} /\ Len(job'[p].pending) = 1
          /\ job'[p].out = NoFrame
      BY <3>1, OnePending DEF SetGoing
    <3>4. at'[p] = "pop" /\ \A x \in Peers : x # p => at'[x] = at[x] /\ job'[x] = job[x]
      BY <3>1 DEF SetGoing, SeatInv, TypeOK
    <3>5. Own(NoFrame, p)'
      BY DEF Own, Tells, NoFrame
    <3>6. g.kind # "reply" /\ g.peer = p /\ g.name = names'[p]
      BY <1>1, <3>2
    <3>7. WordTask(p)'
      BY <3>3, <3>4, <3>5, <3>6 DEF WordTask, Own
    <3> QED
      BY <3>2, <3>3, <3>4, <3>7
  <2> QED
    BY <2>1, <2>2 DEF Enters
<1>6. ASSUME NEW x \in Peers, x # p PROVE WordTask(x)'
  BY <1>1, <1>5, <1>6 DEF WordInv, WordTask, Own
<1>7. QueueOK(p)'
  <2>1. view'[p] = NoView /\ ~NoView.seated
    BY <1>1 DEF WordInv, QueueOK, NoView
  <2>2. ASSUME NEW q \in Peers PROVE ~IsLeft(f, q) /\ (About(f, q) => at'[q] # "apply")
    <3>1. About(f, q) => q \in seats[r]
      BY <1>2 DEF About, Introduces, IsRename
    <3>2. q \in seats[r] => at[q] # "apply"
      BY Unseated
    <3> QED
      BY <1>2, <3>1, <3>2 DEF IsLeft
  <2> DEFINE s == <<f>>
  <2>3. DOMAIN s = {1} /\ s[1] = f /\ queue'[p] = s
    BY <1>3, OneProper
  <2> HIDE DEF s
  <2> QED
    BY <2>1, <2>2, <2>3 DEF QueueOK
<1>8. ASSUME NEW x \in Peers, x # p PROVE QueueOK(x)'
  <2>1. QueueOK(x) /\ Proper(queue[x]) /\ view'[x] = view[x]
    BY <1>1 DEF WordInv, WelcomeInv, WelcomeFor
  <2> QED
    BY <1>3, <1>8, <2>1, QueueKept
<1>9. \A x \in Rooms : seats'[x] = IF x = r THEN seats[r] \cup {p} ELSE seats[x]
  BY <1>1 DEF SeatInv, TypeOK
<1>10. ASSUME NEW y \in Peers, NEW q \in Peers PROVE WordFor(y, q)'
  <2>1. WordFor(y, q) /\ Proper(queue[y])
    BY DEF WordInv, WelcomeInv, WelcomeFor
  <2>2. CASE y # p /\ q # p
    <3>1. /\ Mates(y, q)' => Mates(y, q)
          /\ \A K \in Kinds : Coming(y, q, K) => Coming(y, q, K)'
      BY <1>5, <1>9, <2>2 DEF Mates, Coming
    <3> QED
      BY <1>1, <1>3, <2>1, <2>2, <3>1, WordsKept
  <2>3. CASE y = p
    <3> SUFFICES ASSUME Mates(p, q)'
                 PROVE  /\ Heard(view[p], <<f>>, q) /\ Latest(view[p], <<f>>, q, names[q])
                        /\ Ordered(view[p], <<f>>, q)
      BY <1>1, <1>3, <2>3 DEF WordFor
    <3>1. q \in seats[r] \ {p}
      BY <1>4, <1>9 DEF Mates
    <3> QED
      BY <1>2, <3>1, ReplyWord
  <2>4. CASE q = p /\ y # p
    <3> SUFFICES ASSUME Mates(y, p)'
                 PROVE  /\ \A K \in Kinds : "joined" \in K => Coming(y, p, K)'
                        /\ Ordered(view[y], queue[y], p)
      <4>1. /\ {"joined"} \in Kinds /\ "joined" \in {"joined"}
            /\ {"joined", "renamed"} \in Kinds /\ "joined" \in {"joined", "renamed"}
        BY DEF Kinds
      <4> QED
        BY <1>1, <1>3, <2>4, <4>1 DEF WordFor
    <3>1. y \in seats[r]
      BY <1>4, <1>9 DEF Mates
    <3>2. \A K \in Kinds : "joined" \in K => Coming(y, p, K)'
      BY <1>5, <3>1 DEF Coming
    <3>3. \A i \in DOMAIN queue[y] : ~IsRename(queue[y][i], p)
      BY <1>1 DEF WordInv, QueueOK, About
    <3> QED
      BY <3>2, <3>3 DEF Ordered
  <2> QED
    BY <2>2, <2>3, <2>4
<1> QED
  BY <1>5, <1>6, <1>7, <1>8, <1>10 DEF WordInv

LEMMA WordInit == Init => WordInv
<1> SUFFICES ASSUME Init PROVE WordInv
  OBVIOUS
<1>1. NoJob.pending = <<>> /\ NoJob.out = NoFrame /\ DOMAIN <<>> = {}
  BY JobFields DEF NoJob
<1>2. /\ \A x \in Peers : job[x] = NoJob /\ queue[x] = <<>> /\ view[x] = NoView
      /\ \A r \in Rooms : seats[r] = {}
  BY DEF Init
<1>3. ASSUME NEW x \in Peers PROVE WordTask(x)
  <2>1. Own(NoFrame, x)
    BY NotWords
  <2> QED
    BY <1>1, <1>2, <2>1 DEF WordTask
<1>4. ASSUME NEW x \in Peers PROVE QueueOK(x)
  BY <1>1, <1>2 DEF QueueOK
<1>5. ASSUME NEW p \in Peers, NEW q \in Peers PROVE WordFor(p, q)
  BY <1>2 DEF WordFor, Mates
<1> QED
  BY <1>3, <1>4, <1>5 DEF WordInv

LEMMA WordStep ==
    ASSUME SeatInv, JobInv, WelcomeInv, ToldInv, WordInv, [Next]_vars PROVE WordInv'
<1>1. \A q \in Peers : /\ at[q] # "apply" => at'[q] # "apply"
                       /\ Departed(q) => Departed(q)'
  BY StaysGone
<1>2. CASE Rests
  <2>1. UNCHANGED <<job, names, view, closed, seats, at, queue>>
    BY <1>2 DEF Rests
  <2>2. \A p \in Peers : WordInv'
    BY <1>1, <2>1, MovesWord
  <2>3. CASE Peers = {}
    BY <2>3 DEF WordInv
  <2> QED
    BY <2>2, <2>3
<1>3. ASSUME NEW p \in Peers, Pop(p) \/ Send(p) \/ Eject(p) PROVE WordInv'
  BY <1>1, <1>3, PopWord, SendWord, EjectWord
<1>4. ASSUME NEW p \in Peers, NEW r \in Rooms, Enters(p, r) PROVE WordInv'
  BY <1>1, <1>4, EntersWord
<1>5. ASSUME NEW p \in Peers, Relay(p) PROVE WordInv'
  <2> DEFINE f == Data(p, sent[p] + 1)
  <2>1. /\ Starts(p, {p}, f) /\ at[p] = "pump"
        /\ UNCHANGED <<names, queue, view, closed, seats>>
    BY <1>5 DEF Relay, Starts, Returns, registry, wires
  <2>2. ~Tells(f) /\ f.kind # "reply"
    BY NotWords DEF Own
  <2> HIDE DEF f
  <2>3. SetGoing(p, {p}, f) /\ at' = [at EXCEPT ![p] = "pop"]
    BY <2>1, StartsJob
  <2> QED
    BY <1>1, <2>1, <2>2, <2>3, StartsWord DEF Own, Delivering
<1>6. ASSUME NEW p \in Peers, NEW r \in Rooms, Departs(p, r) PROVE WordInv'
  <2> DEFINE f == Left(p)
  <2>1. /\ Starts(p, {}, f) /\ at[p] \notin Delivering /\ r \in live /\ p \in seats[r]
        /\ Detach(r, p) /\ UNCHANGED <<queue, view, closed>>
    BY <1>6 DEF Departs, Delivering
  <2>2. ~Tells(f) /\ f.kind # "reply"
    BY NotWords DEF Own
  <2> HIDE DEF f
  <2>3. names' = names /\ \A x \in Rooms : seats'[x] \subseteq seats[x]
    BY <2>1, DetachSeats
  <2>4. SetGoing(p, {}, f) /\ at' = [at EXCEPT ![p] = "pop"]
    BY <2>1, StartsJob
  <2> QED
    BY <1>1, <2>1, <2>2, <2>3, <2>4, StartsWord DEF Own
<1>7. ASSUME NEW p \in Peers, Renames(p) PROVE WordInv'
  <2>1. PICK name \in Nat : /\ names' = [names EXCEPT ![p] = name]
                            /\ Starts(p, {}, Renamed(p, name))
    BY <1>7 DEF Renames
  <2> DEFINE f == Renamed(p, name)
  <2>2. f.kind = "renamed" /\ f.peer = p /\ f.name = name
    BY NotWords
  <2>3. Starts(p, {}, f)
    BY <2>1
  <2> HIDE DEF f
  <2>4. SetGoing(p, {}, f) /\ at' = [at EXCEPT ![p] = "pop"]
    BY <2>3, StartsJob
  <2>5. /\ at[p] \notin Delivering /\ queue' = Queued(p, Answer)
        /\ UNCHANGED <<seats, closed, view>>
    BY <1>7 DEF Renames, Delivering
  <2>6. names'[p] = name /\ \A x \in Peers : x # p => names'[x] = names[x]
    BY <2>1 DEF SeatInv, TypeOK
  <2>7. Tells(f) /\ \A x \in Rooms : seats'[x] \subseteq seats[x]
    BY <2>2, <2>5 DEF Tells
  <2> QED
    BY <1>1, <2>2, <2>4, <2>5, <2>6, <2>7, StartsWord DEF Own
<1>8. ASSUME NEW p \in Peers, Read(p) PROVE WordInv'
  BY <1>8, ReadsWord
<1>9. ASSUME NEW p \in Peers, WriterFails(p) PROVE WordInv'
  <2>1. Unplug(p) /\ UNCHANGED <<job, names, seats, at>>
    BY <1>9 DEF WriterFails, running, registry
  <2> QED
    BY <1>1, <2>1, UnplugWord
<1>10. ASSUME NEW p \in Peers, Finishes(p) PROVE WordInv'
  <2>1. /\ Unplug(p) /\ UNCHANGED <<job, names, seats>> /\ at[p] \notin Delivering
        /\ at' = [at EXCEPT ![p] = "done"]
    BY <1>10 DEF Finishes, Over
  <2> QED
    BY <1>1, <2>1, UnplugWord
<1>11. ASSUME NEW p \in Peers, Moves(p) PROVE WordInv'
  BY <1>1, <1>11, MovesWord DEF Moves
<1> QED
  BY <1>2, <1>3, <1>4, <1>5, <1>6, <1>7, <1>8, <1>9, <1>10, <1>11, Deliveries

\* A client that has read what it was sent knows everyone who is seated with it
\* and is not still announcing itself, by the name they bear now: whichever way the
\* newcomers' and the renamed peers' deliveries were interleaved, and whatever was
\* in the queue when they began.
THEOREM RosterHolds == Spec => []RosterIsComplete
<1> DEFINE Inv == SeatInv /\ JobInv /\ WelcomeInv /\ ToldInv /\ WordInv
<1>1. Init => Inv
  BY SeatInit, JobInit, WelcomeInit, ToldInit, WordInit
<1>2. Inv /\ [Next]_vars => Inv'
  BY SeatStep, JobStep, WelcomeStep, ToldStep, WordStep
<1>3. Inv => RosterIsComplete
  <2> SUFFICES ASSUME Inv, NEW p \in Peers, NEW q \in Peers, Acquainted(p, q)
               PROVE  q \in DOMAIN view[p].peers /\ view[p].peers[q] = names[q]
    BY DEF RosterIsComplete
  <2>1. Mates(p, q) /\ p \notin closed
    BY DEF Acquainted, Mates, SeatInv, TypeOK
  <2>2. ~Coming(p, q, {"joined", "renamed"})
    <3>1. {"joined", "renamed"} \in Kinds /\ at[q] \notin Delivering
      BY DEF Kinds, Acquainted, Delivering
    <3> QED
      BY <3>1, NothingComing
  <2>3. Latest(view[p], <<>>, q, names[q])
    BY <2>1, <2>2 DEF WordInv, WordFor, Acquainted
  <2> QED
    BY <2>3 DEF Latest
<1> QED
  BY <1>1, <1>2, <1>3, PTL DEF Spec
=============================================================================
