-------------------------- MODULE SealedRoomProofs --------------------------
(***************************************************************************)
(* One edition, one state, for any number of guests, reloads, leaves and   *)
(* changes of the listing.                                                 *)
(*                                                                         *)
(* A state is published again as it was, or under a number above every     *)
(* number in the store; and the store has the number before the frame is   *)
(* on its way, so that it is above everything the host's earlier processes *)
(* sent, whatever was lost with them.                                      *)
(***************************************************************************)
EXTENDS SealedRoom, SequenceTheorems, TLAPS

HostFields == {"own", "roster", "seats", "owed", "spent", "issued", "verified", "last",
               "standing"}

\* A sequence of something.
Proper(q) == q \in Seq(Range(q))

\* Every frame of the host, and the state of who holds none.
Ever == Known \cup {NoState}

Upto(K, n) == \A f \in K : IsState(f) => f.issued \in Nat /\ f.issued <= n
OneEach(K) == \A s, t \in K : IsState(s) /\ IsState(t) /\ s.issued = t.issued => s = t
Above(K) == \A s, c \in K : IsState(s) /\ ~IsState(c) => s.issued < c.closing

\* A producer whose series the store has: live, it has closed nothing, and the
\* state it would send again is its newest.
Series(h, n, K) ==
    /\ DOMAIN h = HostFields
    /\ h.issued = n /\ h.verified \in Nat /\ h.verified <= n
    /\ IsState(h.last) /\ h.last \in K
    /\ h.standing = "live" =>
         /\ \A f \in K : IsState(f)
         /\ h.last # NoState => h.last.issued = n

EditionInv ==
    /\ stored \in Nat
    /\ Series(host, stored, Ever)
    /\ Upto(Ever, stored) /\ OneEach(Ever) /\ Above(Ever)
    /\ Proper(outbox)
    /\ DOMAIN held = Guests /\ DOMAIN inbox = Guests
    /\ \A p \in Guests : Proper(inbox[p])

----------------------------------------------------------------------------
\* The elements of a sequence that grows, shrinks or is put behind another.

LEMMA NoElements == Proper(<<>>) /\ Range(<<>>) = {}
  BY DEF Proper, Range

LEMMA AppendElements ==
    ASSUME NEW q, Proper(q), NEW f
    PROVE  Proper(Append(q, f)) /\ Range(Append(q, f)) = Range(q) \cup {f}
  <1> DEFINE S == Range(q) \cup {f}
             a == Append(q, f)
  <1>1. q \in Seq(S) /\ f \in S
    <2>1. q \in Seq(Range(q)) /\ Range(q) \subseteq S
      BY DEF Proper
    <2> HIDE DEF S
    <2>2. q \in Seq(S)
      BY <2>1
    <2> QED
      BY <2>2 DEF S
  <1>2. /\ a \in Seq(S) /\ Len(a) = Len(q) + 1 /\ Len(q) \in Nat
        /\ \A i \in 1 .. Len(q) : a[i] = q[i]
        /\ a[Len(q) + 1] = f
    <2> HIDE DEF S
    <2> QED
      BY <1>1, AppendProperties, LenProperties
  <1> HIDE DEF a
  <1>3. DOMAIN a = 1 .. Len(q) + 1 /\ DOMAIN q = 1 .. Len(q)
    <2> HIDE DEF S
    <2> QED
      BY <1>1, <1>2, LenProperties
  <1>4. Range(a) = S
    <2>1. \A i \in DOMAIN a : a[i] \in S
      <3>1. \A i \in DOMAIN a : i \in 1 .. Len(q) \/ i = Len(q) + 1
        BY <1>2, <1>3
      <3> QED
        BY <3>1, <1>2, <1>3 DEF Range
    <2>2. \A i \in DOMAIN q : i \in DOMAIN a /\ a[i] = q[i]
      BY <1>2, <1>3
    <2>3. Len(q) + 1 \in DOMAIN a
      BY <1>2, <1>3
    <2> QED
      BY <2>1, <2>2, <2>3, <1>2 DEF Range
  <1>5. QED
    BY <1>2, <1>4 DEF Proper, a

LEMMA TailElements ==
    ASSUME NEW q, Proper(q), q # <<>>
    PROVE  Proper(Tail(q)) /\ Range(Tail(q)) \subseteq Range(q) /\ Head(q) \in Range(q)
  <1> DEFINE r == Tail(q)
  <1>1. q \in Seq(Range(q))
    BY DEF Proper
  <1>2. /\ r \in Seq(Range(q)) /\ Head(q) \in Range(q)
    BY <1>1, HeadTailProperties
  <1> HIDE DEF r
  <1>3. \A i \in DOMAIN r : r[i] \in Range(q)
    BY <1>2, ElementOfSeq
  <1>4. Range(r) \subseteq Range(q)
    BY <1>3 DEF Range
  <1>5. \A i \in DOMAIN r : r[i] \in Range(r)
    BY DEF Range
  <1>6. DOMAIN r = 1 .. Len(r) /\ Len(r) \in Nat
    BY <1>2, LenProperties
  <1>7. r \in [1 .. Len(r) -> Range(r)]
    BY <1>2, <1>5, <1>6
  <1>8. r \in Seq(Range(r))
    BY <1>6, <1>7
  <1>9. QED
    BY <1>2, <1>4, <1>8 DEF Proper, r

LEMMA JoinElements ==
    ASSUME NEW q, Proper(q), NEW r, Proper(r)
    PROVE  Proper(q \o r) /\ Range(q \o r) = Range(q) \cup Range(r)
  <1> DEFINE S == Range(q) \cup Range(r)
             a == q \o r
  <1>1. q \in Seq(S) /\ r \in Seq(S)
    <2>1. /\ q \in Seq(Range(q)) /\ Range(q) \subseteq S
          /\ r \in Seq(Range(r)) /\ Range(r) \subseteq S
      BY DEF Proper
    <2> HIDE DEF S
    <2> QED
      BY <2>1
  <1>2. /\ a \in Seq(S) /\ Len(a) = Len(q) + Len(r) /\ Len(q) \in Nat /\ Len(r) \in Nat
        /\ \A i \in 1 .. Len(q) + Len(r) : a[i] = IF i <= Len(q) THEN q[i] ELSE r[i - Len(q)]
    <2> HIDE DEF S
    <2> QED
      BY <1>1, ConcatProperties, LenProperties
  <1>3. /\ DOMAIN a = 1 .. Len(q) + Len(r) /\ DOMAIN q = 1 .. Len(q) /\ DOMAIN r = 1 .. Len(r)
    <2> HIDE DEF S, a
    <2> QED
      BY <1>1, <1>2, LenProperties
  <1> HIDE DEF a
  <1>4. \A i \in DOMAIN a : a[i] \in S
    <2> HIDE DEF S
    <2> QED
      BY <1>2, ElementOfSeq
  <1>5. \A i \in DOMAIN q : i \in DOMAIN a /\ a[i] = q[i]
    BY <1>2, <1>3
  <1>6. \A i \in DOMAIN r : i + Len(q) \in DOMAIN a /\ a[i + Len(q)] = r[i]
    <2> SUFFICES ASSUME NEW i \in DOMAIN r
                 PROVE  i + Len(q) \in DOMAIN a /\ a[i + Len(q)] = r[i]
      OBVIOUS
    <2>1. /\ i + Len(q) \in 1 .. Len(q) + Len(r) /\ ~(i + Len(q) <= Len(q))
          /\ (i + Len(q)) - Len(q) = i
      BY <1>2, <1>3
    <2> QED
      BY <2>1, <1>2, <1>3
  <1>7. Range(a) = S
    BY <1>4, <1>5, <1>6 DEF Range
  <1>8. QED
    BY <1>2, <1>7 DEF Proper, a

----------------------------------------------------------------------------
\* What the editions of a set of frames are worth when frames go or one comes.

LEMMA FewerFrames ==
    ASSUME NEW K, NEW L, L \subseteq K, NEW n \in Nat, Upto(K, n), OneEach(K), Above(K)
    PROVE  Upto(L, n) /\ OneEach(L) /\ Above(L)
  BY DEF Upto, OneEach, Above

\* A state that is there, or the first above all of them.
LEMMA OneMoreState ==
    ASSUME NEW K, NEW n \in Nat, Upto(K, n), OneEach(K), Above(K), \A g \in K : IsState(g),
           NEW f, IsState(f), f.issued \in Nat, f \in K \/ n < f.issued, NEW m \in Nat,
           n <= m, f.issued <= m, NEW L, L \subseteq K \cup {f}
    PROVE  Upto(L, m) /\ OneEach(L) /\ Above(L) /\ \A g \in L : IsState(g)
  <1>1. \A g \in L : (g \in K \/ g = f) /\ IsState(g)
    OBVIOUS
  <1>2. Upto(L, m)
    <2> SUFFICES ASSUME NEW g \in L PROVE g.issued \in Nat /\ g.issued <= m
      BY DEF Upto
    <2>1. CASE g \in K
      BY <2>1 DEF Upto
    <2> QED
      BY <1>1, <2>1
  <1>3. \A g \in K : f \notin K => g.issued # f.issued
    BY DEF Upto
  <1>4. OneEach(L)
    BY <1>1, <1>3 DEF OneEach
  <1>5. Above(L)
    BY <1>1 DEF Above
  <1>6. QED
    BY <1>1, <1>2, <1>4, <1>5

\* A closing above them all.
LEMMA OneMoreClosing ==
    ASSUME NEW K, NEW n \in Nat, Upto(K, n), OneEach(K), \A g \in K : IsState(g),
           NEW c, ~IsState(c), c.closing \in Nat, n < c.closing, NEW L, L \subseteq K \cup {c}
    PROVE  Upto(L, c.closing) /\ OneEach(L) /\ Above(L)
  <1>1. \A g \in L : g \in K \/ g = c
    OBVIOUS
  <1>2. Upto(L, c.closing)
    <2> SUFFICES ASSUME NEW g \in L, IsState(g) PROVE g.issued \in Nat /\ g.issued <= c.closing
      BY DEF Upto
    <2>1. g \in K
      BY <1>1
    <2> QED
      BY <2>1 DEF Upto
  <1>3. OneEach(L)
    BY <1>1 DEF OneEach
  <1>4. Above(L)
    <2> SUFFICES ASSUME NEW s \in L, NEW d \in L, IsState(s), ~IsState(d)
                 PROVE  s.issued < d.closing
      BY DEF Above
    <2>1. s \in K /\ d = c
      BY <1>1
    <2> QED
      BY <2>1 DEF Upto
  <1>5. QED
    BY <1>2, <1>3, <1>4

----------------------------------------------------------------------------
\* The producer.

\* The operators on it leave the series alone.
SameSeries(h, g) ==
    /\ DOMAIN g = HostFields
    /\ g.issued = h.issued /\ g.verified = h.verified /\ g.last = h.last
    /\ g.standing = h.standing

LEMMA SeriesKept ==
    ASSUME NEW h, DOMAIN h = HostFields, NEW k
    PROVE  /\ SameSeries(h, SeatJoined(h, k)) /\ SameSeries(h, SeatLeft(h, k))
           /\ SameSeries(h, Announced(h, k)) /\ SameSeries(h, h)
  <1>1. \A x : SameSeries(h, [h EXCEPT !.roster = x]) /\ SameSeries(h, [h EXCEPT !.seats = x])
    BY DEF SameSeries, HostFields
  <1>2. SameSeries(h, h)
    BY DEF SameSeries
  <1>3. SameSeries(h, SeatJoined(h, k))
    BY <1>1, <1>2 DEF SeatJoined
  <1>4. SameSeries(h, SeatLeft(h, k))
    <2> DEFINE x == SelectSeq(h.roster, LAMBDA held_seat : held_seat # k)
               y == SelectSeq(h.seats, LAMBDA e : e.seat # k)
    <2>1. SeatLeft(h, k) = [h EXCEPT !.roster = x, !.seats = y]
      BY Zenon DEF SeatLeft
    <2> HIDE DEF x, y
    <2>2. SameSeries(h, [h EXCEPT !.roster = x, !.seats = y])
      BY DEF SameSeries, HostFields
    <2> QED
      BY <2>1, <2>2, Zenon
  <1>5. SameSeries(h, Commit(h, k))
    <2> DEFINE x == Append(SelectSeq(h.seats, LAMBDA e : e.seat # Label(h) \/ Label(h) = h.own),
                           [key |-> k, seat |-> Label(h)])
    <2>1. Commit(h, k) = [h EXCEPT !.seats = x]
      BY Zenon DEF Commit
    <2> HIDE DEF x
    <2> QED
      BY <2>1, <1>1
  <1>6. SameSeries(h, Announced(h, k))
    <2>1. ASSUME NEW g, SameSeries(h, g) PROVE SameSeries(h, [g EXCEPT !.owed = TRUE])
      BY <2>1 DEF SameSeries, HostFields
    <2> DEFINE known == \E e \in Range(h.seats) : e.key = k
               kept == IF known THEN h ELSE Commit(h, k)
    <2>2. Announced(h, k) = [kept EXCEPT !.owed = TRUE]
      BY Zenon DEF Announced
    <2>3. SameSeries(h, kept)
      BY <1>2, <1>5
    <2> HIDE DEF kept
    <2> QED
      BY <2>1, <2>2, <2>3
  <1>7. QED
    BY <1>2, <1>3, <1>4, <1>6

LEMMA NextAbove ==
    ASSUME NEW h, NEW n \in Nat, h.issued = n, h.verified \in Nat, h.verified <= n
    PROVE  NextIssued(h) = n + 1
  BY DEF NextIssued

LEMMA OwedState ==
    ASSUME NEW h, NEW n \in Nat, h.issued = n, h.verified \in Nat, h.verified <= n,
           IsState(h.last), NEW names
    PROVE  /\ IsState(Owed(h, names))
           /\ \/ Owed(h, names) = h.last /\ h.last # NoState
              \/ Owed(h, names).issued = n + 1
  <1>1. NextIssued(h) = n + 1
    BY NextAbove
  <1> DEFINE fresh == [issued |-> n + 1, peers |-> PeerEntries(h), listing |-> names]
  <1>2. IsState(fresh) /\ fresh.issued = n + 1
    BY DEF IsState
  <1>3. \/ Owed(h, names) = h.last /\ h.last # NoState
        \/ Owed(h, names) = fresh
    BY <1>1, Zenon DEF Owed
  <1>4. QED
    BY <1>2, <1>3

\* What publish makes of a producer that goes on from the store.
LEMMA PublishKeeps ==
    ASSUME stored \in Nat, NEW K, Upto(K, stored), OneEach(K), Above(K), NEW h,
           Series(h, stored, K), NEW queue, Proper(queue), Range(queue) \subseteq K,
           NEW reason, NEW names, Publish(h, reason, names, queue), NEW L,
           L \subseteq K \cup Range(outbox') \cup {host'.last}, host'.last \in L
    PROVE  /\ stored' \in Nat /\ Series(host', stored', L) /\ Proper(outbox')
           /\ Upto(L, stored') /\ OneEach(L) /\ Above(L)
  <1>1. CASE ~Due(h, reason)
    <2>1. host' = h /\ outbox' = queue /\ stored' = stored
      BY <1>1, Zenon DEF Publish
    <2>2. L \subseteq K
      BY <2>1 DEF Series
    <2>3. Upto(L, stored) /\ OneEach(L) /\ Above(L)
      BY <2>2, FewerFrames
    <2>4. Series(h, stored, L)
      BY <2>1, <2>2 DEF Series
    <2> QED
      BY <2>1, <2>3, <2>4
  <1>2. CASE Due(h, reason)
    <2> DEFINE state == Owed(h, names)
               g == [h EXCEPT !.owed = FALSE, !.spent = @ \/ reason = "announcement",
                              !.issued = state.issued, !.verified = state.issued,
                              !.last = state]
    <2>1. host' = g /\ outbox' = Append(queue, state) /\ stored' = state.issued
      BY <1>2, Zenon DEF Publish, Save
    <2>2. IsState(state) /\ ((state = h.last /\ h.last # NoState) \/ state.issued = stored + 1)
      BY OwedState DEF Series
    <2> HIDE DEF state
    <2>3. /\ DOMAIN g = HostFields /\ g.issued = state.issued /\ g.verified = state.issued
          /\ g.last = state
      BY DEF Series, HostFields
    <2>4. \A f \in K : IsState(f)
      BY <1>2 DEF Series, Due
    <2>5. Proper(outbox') /\ Range(outbox') = Range(queue) \cup {state}
      BY <2>1, AppendElements
    <2> HIDE DEF g
    <2>6. L \subseteq K \cup {state}
      BY <2>1, <2>3, <2>5
    <2>7. \/ state \in K /\ state.issued = stored
          \/ state.issued = stored + 1
      BY <1>2, <2>2 DEF Series, Due
    <2>8. state.issued \in Nat /\ stored <= state.issued
      BY <2>7
    <2>9. state \in K \/ stored < state.issued
      BY <2>7
    <2>10. /\ Upto(L, state.issued) /\ OneEach(L) /\ Above(L)
           /\ \A f \in L : IsState(f)
      BY <2>2, <2>4, <2>6, <2>8, <2>9, OneMoreState
    <2>11. Series(host', stored', L)
      BY <2>1, <2>2, <2>3, <2>8, <2>10 DEF Series
    <2> QED
      BY <2>1, <2>5, <2>8, <2>10, <2>11
  <1>3. QED
    BY <1>1, <1>2

----------------------------------------------------------------------------
\* The steps.

\* Nothing is published: the frames there are were there.
LEMMA QuietKeeps ==
    ASSUME EditionInv, stored' = stored, Series(host', stored, Ever), Ever' \subseteq Ever,
           host'.last \in Ever'
    PROVE  /\ stored' \in Nat /\ Series(host', stored', Ever')
           /\ Upto(Ever', stored') /\ OneEach(Ever') /\ Above(Ever')
  <1>1. Upto(Ever, stored) /\ OneEach(Ever) /\ Above(Ever) /\ stored \in Nat
    BY DEF EditionInv
  <1>2. Upto(Ever', stored) /\ OneEach(Ever') /\ Above(Ever')
    BY <1>1, FewerFrames
  <1>3. Series(host', stored, Ever')
    BY DEF Series
  <1>4. QED
    BY <1>1, <1>2, <1>3

\* Where a frame is.
LEMMA WhereItIs ==
    \A f : f \in Ever <=>
        \/ f \in Range(outbox)
        \/ \E p \in Guests : f \in Range(inbox[p])
        \/ \E p \in Guests : f = held[p]
        \/ f = host.last
        \/ f = NoState
  BY Zenon DEF Ever, Known

LEMMA WhereItWillBe ==
    \A f : f \in Ever' <=>
        \/ f \in Range(outbox')
        \/ \E p \in Guests : f \in Range(inbox'[p])
        \/ \E p \in Guests : f = held'[p]
        \/ f = host'.last
        \/ f = NoState
  BY Zenon DEF Ever, Known

\* The frames of a step that sends none: only the queue and the producer change.
LEMMA NothingSent ==
    ASSUME UNCHANGED <<held, inbox>>
    PROVE  Ever' \subseteq Ever \cup Range(outbox') \cup {host'.last} /\ host'.last \in Ever'
  BY WhereItIs, WhereItWillBe

\* A step that publishes and sends nothing.
LEMMA PublishStep ==
    ASSUME EditionInv, UNCHANGED <<held, inbox>>, NEW h, Series(h, stored, Ever),
           NEW queue, Proper(queue), Range(queue) \subseteq Ever,
           NEW reason, NEW names, Publish(h, reason, names, queue)
    PROVE  EditionInv'
  <1>1. Ever' \subseteq Ever \cup Range(outbox') \cup {host'.last} /\ host'.last \in Ever'
    BY NothingSent
  <1>2. /\ stored' \in Nat /\ Series(host', stored', Ever') /\ Proper(outbox')
        /\ Upto(Ever', stored') /\ OneEach(Ever') /\ Above(Ever')
    <2>1. stored \in Nat /\ Upto(Ever, stored) /\ OneEach(Ever) /\ Above(Ever)
      BY DEF EditionInv
    <2> QED
      BY <1>1, <2>1, PublishKeeps
  <1>3. /\ DOMAIN held' = Guests /\ DOMAIN inbox' = Guests
        /\ \A p \in Guests : Proper(inbox'[p])
    BY DEF EditionInv
  <1>4. QED
    BY <1>2, <1>3 DEF EditionInv

\* The queue is the host's own.
LEMMA QueueIsKnown == EditionInv => Proper(outbox) /\ Range(outbox) \subseteq Ever
  BY DEF EditionInv, Ever, Known

LEMMA SameSeriesStands ==
    ASSUME NEW h, NEW g, NEW n, NEW K, Series(h, n, K), SameSeries(h, g)
    PROVE  Series(g, n, K)
  BY DEF Series, SameSeries

LEMMA HearKeeps == EditionInv /\ Hear => EditionInv'
  <1> SUFFICES ASSUME EditionInv, Hear PROVE EditionInv'
    OBVIOUS
  <1> DEFINE heard == Head(toHost)
  <1>1. UNCHANGED <<held, inbox>>
    BY DEF Hear, peers
  <1>2. \/ HearJoined(heard.peer) \/ HearLeft(heard.peer) \/ HearAnnouncement(heard.peer)
    BY Zenon DEF Hear
  <1> DEFINE p == heard.peer
  <1>3. \E h, reason : SameSeries(host, h) /\ Publish(h, reason, listing, outbox)
    <2>1. /\ SameSeries(host, SeatJoined(host, p)) /\ SameSeries(host, SeatLeft(host, p))
          /\ SameSeries(host, Announced(host, p))
      BY SeriesKept DEF EditionInv, Series
    <2> HIDE DEF p
    <2> QED
      BY <1>2, <2>1, Zenon DEF HearJoined, HearLeft, HearAnnouncement, p
  <1>4. PICK h, reason : SameSeries(host, h) /\ Publish(h, reason, listing, outbox)
    BY <1>3
  <1>5. Series(h, stored, Ever)
    BY <1>4, SameSeriesStands DEF EditionInv
  <1>6. QED
    BY <1>1, <1>4, <1>5, QueueIsKnown, PublishStep

LEMMA HostTickKeeps == EditionInv /\ HostTick => EditionInv'
  <1> SUFFICES ASSUME EditionInv, HostTick PROVE EditionInv'
    OBVIOUS
  <1>1. UNCHANGED <<held, inbox>> /\ Publish(host, "announcement", listing, outbox)
    BY DEF HostTick, peers
  <1>2. Series(host, stored, Ever)
    BY DEF EditionInv
  <1>3. QED
    BY <1>1, <1>2, QueueIsKnown, PublishStep

LEMMA ListingKeeps == EditionInv /\ ListingChanges => EditionInv'
  <1> SUFFICES ASSUME EditionInv, ListingChanges PROVE EditionInv'
    OBVIOUS
  <1>1. UNCHANGED <<held, inbox>> /\ Publish(host, "listing", listing', outbox)
    BY DEF ListingChanges, peers
  <1>2. Series(host, stored, Ever)
    BY DEF EditionInv
  <1>3. QED
    BY <1>1, <1>2, QueueIsKnown, PublishStep

LEMMA WindowKeeps == EditionInv /\ WindowPasses => EditionInv'
  <1> SUFFICES ASSUME EditionInv, WindowPasses PROVE EditionInv'
    OBVIOUS
  <1>1. host' = [host EXCEPT !.spent = FALSE] /\ UNCHANGED <<stored, outbox, held, inbox>>
    BY DEF WindowPasses, peers
  <1>2. SameSeries(host, host')
    BY <1>1 DEF EditionInv, Series, SameSeries, HostFields
  <1>3. Series(host', stored, Ever)
    BY <1>2, SameSeriesStands DEF EditionInv
  <1>4. Ever' \subseteq Ever /\ host'.last \in Ever'
    BY <1>1, <1>2, WhereItIs, WhereItWillBe DEF SameSeries
  <1>5. QED
    BY <1>1, <1>3, <1>4, QuietKeeps DEF EditionInv

LEMMA CloseKeeps == EditionInv /\ CloseRoom => EditionInv'
  <1> SUFFICES ASSUME EditionInv, CloseRoom PROVE EditionInv'
    OBVIOUS
  <1>1. /\ stored \in Nat /\ Series(host, stored, Ever)
        /\ Upto(Ever, stored) /\ OneEach(Ever) /\ Above(Ever)
    BY DEF EditionInv
  <1>2. NextIssued(host) = stored + 1
    BY <1>1, NextAbove DEF Series
  <1> DEFINE c == [closing |-> stored + 1]
  <1>3. /\ host.standing = "live"
        /\ host' = [host EXCEPT !.standing = "closed", !.issued = stored + 1]
        /\ stored' = stored + 1 /\ outbox' = Append(outbox, c)
        /\ UNCHANGED <<held, inbox>>
    BY <1>2 DEF CloseRoom, peers
  <1>4. ~IsState(c) /\ c.closing = stored + 1
    BY DEF IsState
  <1> HIDE DEF c
  <1>5. \A f \in Ever : IsState(f)
    BY <1>1, <1>3 DEF Series
  <1>6. /\ DOMAIN host' = HostFields /\ host'.issued = stored + 1 /\ host'.last = host.last
        /\ host'.verified = host.verified /\ host'.standing = "closed"
    BY <1>1, <1>3 DEF Series, HostFields
  <1>7. Proper(outbox') /\ Range(outbox') = Range(outbox) \cup {c}
    BY <1>3, AppendElements DEF EditionInv
  <1>8. Ever' \subseteq Ever \cup {c} /\ host'.last \in Ever'
    BY <1>3, <1>6, <1>7, WhereItIs, WhereItWillBe
  <1>9. Upto(Ever', stored') /\ OneEach(Ever') /\ Above(Ever')
    <2>1. c.closing \in Nat /\ stored < c.closing
      BY <1>1, <1>4
    <2>2. Upto(Ever', c.closing) /\ OneEach(Ever') /\ Above(Ever')
      BY <1>1, <1>4, <1>5, <1>8, <2>1, OneMoreClosing
    <2> QED
      BY <1>3, <1>4, <2>2
  <1>10. Series(host', stored', Ever')
    BY <1>1, <1>3, <1>6, <1>8 DEF Series
  <1>11. QED
    BY <1>1, <1>3, <1>7, <1>9, <1>10 DEF EditionInv

LEMMA ReloadKeeps == EditionInv /\ Reload => EditionInv'
  <1> SUFFICES ASSUME EditionInv, Reload PROVE EditionInv'
    OBVIOUS
  <1>1. UNCHANGED <<held, inbox>> /\ host.standing = "live"
    BY DEF Reload
  <1>2. PICK own : Publish(Producer(own, stored), "mint", listing, <<>>)
    BY Zenon DEF Reload
  <1> DEFINE h == Producer(own, stored)
  <1>3. /\ DOMAIN h = HostFields /\ h.issued = stored /\ h.verified = 0
        /\ h.last = NoState
    BY DEF Producer, HostFields
  <1> HIDE DEF h
  <1>4. IsState(NoState) /\ NoState \in Ever
    BY DEF IsState, NoState, Ever
  <1>5. Series(h, stored, Ever)
    BY <1>1, <1>3, <1>4 DEF EditionInv, Series
  <1>6. Range(<<>>) \subseteq Ever
    BY NoElements
  <1>7. QED
    BY <1>1, <1>2, <1>5, <1>6, NoElements, PublishStep DEF h

LEMMA TransmitKeeps == EditionInv /\ Transmit => EditionInv'
  <1> SUFFICES ASSUME EditionInv, Transmit PROVE EditionInv'
    OBVIOUS
  <1>1. /\ outbox' = <<>> /\ UNCHANGED <<host, stored, held>>
        /\ DOMAIN inbox' = Guests
        /\ \A p \in Guests : inbox'[p] = inbox[p] \o outbox \/ inbox'[p] = inbox[p]
    BY DEF Transmit
  <1>2. \A p \in Guests :
          /\ Proper(inbox'[p])
          /\ \A f \in Range(inbox'[p]) : f \in Range(inbox[p]) \/ f \in Range(outbox)
    <2> SUFFICES ASSUME NEW p \in Guests
                 PROVE  /\ Proper(inbox'[p])
                        /\ Range(inbox'[p]) \subseteq Range(inbox[p]) \cup Range(outbox)
      OBVIOUS
    <2>1. Proper(inbox[p]) /\ Proper(outbox)
      BY DEF EditionInv
    <2>2. Proper(inbox[p] \o outbox)
          /\ Range(inbox[p] \o outbox) = Range(inbox[p]) \cup Range(outbox)
      BY <2>1, JoinElements
    <2> QED
      BY <1>1, <2>1, <2>2
  <1>3. Ever' \subseteq Ever /\ host'.last \in Ever'
    BY <1>1, <1>2, NoElements, WhereItIs, WhereItWillBe
  <1>4. QED
    BY <1>1, <1>2, <1>3, NoElements, QuietKeeps DEF EditionInv

LEMMA LeaveKeeps == ASSUME NEW p \in Guests PROVE EditionInv /\ Leave(p) => EditionInv'
  <1> SUFFICES ASSUME EditionInv, Leave(p) PROVE EditionInv'
    OBVIOUS
  <1>1. /\ UNCHANGED <<host, stored, outbox>>
        /\ inbox' = [inbox EXCEPT ![p] = <<>>] /\ held' = [held EXCEPT ![p] = NoState]
    BY DEF Leave, producer
  <1>2. DOMAIN held = Guests /\ DOMAIN inbox = Guests
    BY DEF EditionInv
  <1>3. /\ DOMAIN held' = Guests /\ DOMAIN inbox' = Guests
        /\ \A q \in Guests : /\ held'[q] = held[q] \/ held'[q] = NoState
                             /\ inbox'[q] = inbox[q] \/ inbox'[q] = <<>>
    BY <1>1, <1>2
  <1>4. Ever' \subseteq Ever /\ host'.last \in Ever'
    BY <1>1, <1>3, NoElements, WhereItIs, WhereItWillBe
  <1>5. \A q \in Guests : Proper(inbox'[q])
    BY <1>3, NoElements DEF EditionInv
  <1>6. QED
    BY <1>1, <1>3, <1>4, <1>5, QuietKeeps DEF EditionInv

LEMMA ReadKeeps == ASSUME NEW p \in Guests PROVE EditionInv /\ Read(p) => EditionInv'
  <1> SUFFICES ASSUME EditionInv, Read(p) PROVE EditionInv'
    OBVIOUS
  <1> DEFINE f == Head(inbox[p])
  <1>1. /\ UNCHANGED <<host, stored, outbox>>
        /\ inbox[p] # <<>> /\ inbox' = [inbox EXCEPT ![p] = Tail(inbox[p])]
    BY DEF Read, producer
  <1>2. held' = held \/ held' = [held EXCEPT ![p] = f]
    BY Zenon DEF Read, ApplyState, ApplyClosing, Ignored
  <1>3. DOMAIN held = Guests /\ DOMAIN inbox = Guests /\ Proper(inbox[p])
    BY DEF EditionInv
  <1>4. /\ Proper(Tail(inbox[p])) /\ Range(Tail(inbox[p])) \subseteq Range(inbox[p])
        /\ f \in Range(inbox[p])
    BY <1>1, <1>3, TailElements
  <1> HIDE DEF f
  <1>5. /\ DOMAIN held' = Guests /\ DOMAIN inbox' = Guests
        /\ \A q \in Guests : q # p => inbox'[q] = inbox[q]
        /\ inbox'[p] = Tail(inbox[p])
        /\ \A q \in Guests : held'[q] = held[q] \/ held'[q] = f
    BY <1>1, <1>2, <1>3
  <1>6. \A q \in Guests : Range(inbox'[q]) \subseteq Range(inbox[q]) /\ Proper(inbox'[q])
    BY <1>4, <1>5 DEF EditionInv
  <1>7. Ever' \subseteq Ever /\ host'.last \in Ever'
    BY <1>1, <1>4, <1>5, <1>6, WhereItIs, WhereItWillBe
  <1>8. QED
    BY <1>1, <1>5, <1>6, <1>7, QuietKeeps DEF EditionInv

LEMMA ResendKeeps == ASSUME NEW p \in Guests PROVE EditionInv /\ Resend(p) => EditionInv'
  <1> SUFFICES ASSUME EditionInv, Resend(p) PROVE EditionInv'
    OBVIOUS
  <1>1. /\ UNCHANGED <<host, stored, outbox, held>> /\ DOMAIN inbox' = Guests
        /\ \A q \in Guests : inbox'[q] = inbox[q] \/ inbox'[q] = Append(inbox[q], held[p])
    BY DEF Resend, producer
  <1>2. \A q \in Guests :
          /\ Proper(inbox'[q])
          /\ \A f \in Range(inbox'[q]) : f \in Range(inbox[q]) \/ f = held[p]
    <2> SUFFICES ASSUME NEW q \in Guests
                 PROVE  /\ Proper(inbox'[q])
                        /\ Range(inbox'[q]) \subseteq Range(inbox[q]) \cup {held[p]}
      OBVIOUS
    <2>1. Proper(inbox[q])
      BY DEF EditionInv
    <2>2. /\ Proper(Append(inbox[q], held[p]))
          /\ Range(Append(inbox[q], held[p])) = Range(inbox[q]) \cup {held[p]}
      BY <2>1, AppendElements
    <2> QED
      BY <1>1, <2>1, <2>2
  <1>3. Ever' \subseteq Ever /\ host'.last \in Ever'
    BY <1>1, <1>2, WhereItIs, WhereItWillBe
  <1>4. QED
    BY <1>1, <1>2, <1>3, QuietKeeps DEF EditionInv

\* What arrives at the host and who is seated say nothing of the editions.
LEMMA ElsewhereKeeps ==
    EditionInv /\ UNCHANGED <<host, stored, outbox, held, inbox>> => EditionInv'
  <1> SUFFICES ASSUME EditionInv, UNCHANGED <<host, stored, outbox, held, inbox>>
               PROVE  EditionInv'
    OBVIOUS
  <1>1. Ever' = Ever
    BY WhereItIs, WhereItWillBe
  <1>2. QED
    BY <1>1 DEF EditionInv

LEMMA StartsInOrder == Init => EditionInv
  <1> SUFFICES ASSUME Init PROVE EditionInv
    OBVIOUS
  <1> DEFINE h == Producer(Hosts[1], 0)
             s == Owed(h, 0)
  <1>1. /\ host = [h EXCEPT !.issued = 1, !.verified = 1, !.last = s]
        /\ stored = 1 /\ outbox = <<s>>
        /\ held = [p \in Guests |-> NoState] /\ inbox = [p \in Guests |-> <<>>]
    BY Zenon DEF Init
  <1>2. /\ DOMAIN h = HostFields /\ h.issued = 0 /\ h.verified = 0 /\ h.last = NoState
        /\ h.standing = "live"
    BY DEF Producer, HostFields
  <1>3. IsState(NoState) /\ NoState.issued = 0
    BY DEF IsState, NoState
  <1> HIDE DEF h
  <1>4. IsState(s) /\ s.issued = 1
    <2>1. IsState(s) /\ ((s = h.last /\ h.last # NoState) \/ s.issued = 0 + 1)
      BY <1>2, <1>3, OwedState
    <2> HIDE DEF s
    <2> QED
      BY <1>2, <2>1
  <1> HIDE DEF s
  <1>5. /\ DOMAIN host = HostFields /\ host.issued = 1 /\ host.verified = 1 /\ host.last = s
    BY <1>1, <1>2 DEF HostFields
  <1>6. Proper(<<s>>) /\ Range(<<s>>) = {s}
    BY DEF Proper, Range
  <1>7. Ever = {s, NoState}
    BY <1>1, <1>5, <1>6, NoElements, WhereItIs
  <1>8. Upto(Ever, 1) /\ OneEach(Ever) /\ Above(Ever)
    BY <1>3, <1>4, <1>7 DEF Upto, OneEach, Above
  <1>9. Series(host, 1, Ever)
    BY <1>3, <1>4, <1>5, <1>7 DEF Series
  <1>10. QED
    BY <1>1, <1>6, <1>8, <1>9, NoElements DEF EditionInv

\* HostProducer::publish, closing and save: one edition, one state, and the
\* closing above them all, for any number of guests, reloads and upsets.
THEOREM EditionsHold == Spec => []EditionsAgree
  <1>1. Init => EditionInv
    BY StartsInOrder
  <1>2. EditionInv /\ [Next]_vars => EditionInv'
    <2> SUFFICES ASSUME EditionInv, [Next]_vars PROVE EditionInv'
      OBVIOUS
    <2>1. ASSUME NEW p \in Guests, Join(p) \/ Reannounce(p) PROVE EditionInv'
      BY <2>1, ElsewhereKeeps DEF Join, Reannounce, producer, peers
    <2>2. CASE UNCHANGED vars
      BY <2>2, ElsewhereKeeps DEF vars, producer, peers
    <2> QED
      BY <2>1, <2>2, HearKeeps, WindowKeeps, HostTickKeeps, TransmitKeeps, ListingKeeps,
         CloseKeeps, ReloadKeeps, LeaveKeeps, ReadKeeps, ResendKeeps DEF Next
  <1>3. EditionInv => EditionsAgree
    <2> SUFFICES ASSUME EditionInv PROVE EditionsAgree
      OBVIOUS
    <2>1. OneEach(Ever) /\ Above(Ever) /\ Known \subseteq Ever
      BY DEF EditionInv, Ever
    <2> QED
      BY <2>1 DEF EditionsAgree, OneEach, Above
  <1>4. QED
    BY <1>1, <1>2, <1>3, PTL DEF Spec
=============================================================================
