----------------------------- MODULE SealedRoom -----------------------------
(***************************************************************************)
(* Who a sealed room's host commits, and what its peers learn of it: the   *)
(* HostProducer of crates/client/src/host.rs driven by its session (the    *)
(* host's half of peer/events.rs, publish.rs, deliver.rs and clocks.rs),   *)
(* and the peers' half of the same files as far as states, closings and    *)
(* announcements go.  The relay carries frames in order and loses none.    *)
(*                                                                         *)
(* A connection mints one session key and is given one seat, so its name   *)
(* stands for both; but nothing tells the host which seat an announced key *)
(* sits in, and it labels keys with the seats it believes.  A listing is   *)
(* the number of times it changed, and a renewal window is spent or not.   *)
(* Left out: roles, bytes, the frame budget, a host without a store, a     *)
(* host told that its own seat left, and the peers' no-state and host-away *)
(* windows.                                                                *)
(***************************************************************************)
EXTENDS Integers, Sequences, Functions

CONSTANTS
    Arrivals,     \* connections of peers, in the order they are seated in
    Hosts,        \* the host's connections: the first, and one for each reload
    MaxUpsets,    \* bound: leaves, listing changes, reloads and closings
    MaxInFlight   \* bound: frames under way when a renewal goes by

ASSUME RoomAssumption ==
    /\ Hosts \in Seq(Range(Hosts)) /\ Hosts # <<>> /\ IsInjective(Hosts)
    /\ Arrivals \in Seq(Range(Arrivals)) /\ IsInjective(Arrivals)
    /\ Range(Hosts) \cap Range(Arrivals) = {}
    /\ MaxUpsets \in Nat
    /\ MaxInFlight \in Nat \ {0}

VARIABLES
    host,     \* the HostProducer
    stored,   \* PersistedHost.issued in its HostStore
    listing,  \* what the ListingSource enumerates
    outbox,   \* frames the host published and its socket has not sent
    toHost,   \* what the relay has for the host, in order
    where,    \* guests: "new", "seated" or "gone"
    held,     \* guests: the state applied
    ended,    \* guests: a closing was applied
    inbox,    \* guests: what the relay has for them, in order
    upsets,   \* leaves, listing changes, reloads and closings so far
    joined    \* guests: the peer.joined of a reloaded host is still to be heard

producer == <<host, stored, outbox>>
peers == <<held, ended, inbox, joined>>
vars == <<producer, listing, toHost, where, peers, upsets>>

Guests == Range(Arrivals)
Connections == Guests \cup Range(Hosts)
Entry == [key : Connections, seat : Connections]
NoState == [issued |-> 0, peers |-> {}, listing |-> 0]
States == [issued : Nat, peers : SUBSET Entry, listing : Nat]
Closings == [closing : Nat]

IsState(f) == "issued" \in DOMAIN f
Commits(s, k) == \E e \in s.peers : e.key = k
\* One more of what MaxUpsets bounds.
Upset == upsets < MaxUpsets /\ upsets' = upsets + 1

Seated == {p \in Guests : where[p] = "seated"}

----------------------------------------------------------------------------
(* HostProducer: operators on its value h.                                  *)

\* new, with the series the store left behind: it knows its own seat only.
Producer(own, saved) ==
    [own |-> own, roster |-> <<own>>, seats |-> <<>>, owed |-> FALSE,
     spent |-> FALSE, issued |-> saved, verified |-> 0, last |-> NoState,
     standing |-> "live"]

Labels(h) == {e.seat : e \in Range(h.seats)}

\* fallback_seat: the seat of the key held longest.  seats is kept in the order
\* the keys were committed in.
FallbackSeat(h) ==
    LET Other(e) == e.seat \in Range(h.roster) \ {h.own}
        others == SelectSeq(h.seats, Other)
    IN  IF others = <<>> THEN h.own ELSE Head(others).seat

\* label: the first seat of the roster that carries no key.
Label(h) ==
    LET free == SelectSeq(h.roster, LAMBDA s : s \notin Labels(h) \cup {h.own})
    IN  IF free = <<>> THEN FallbackSeat(h) ELSE Head(free)

\* Mutant of Commit: a key is committed only while a seat is free.
CommitIfFree(h, k) ==
    IF Label(h) \in Labels(h) THEN h
    ELSE [h EXCEPT !.seats = Append(@, [key |-> k, seat |-> Label(h)])]

\* commit: a seat other than the host's own carries one key.
Commit(h, k) ==
    LET seat == Label(h)
        kept == SelectSeq(h.seats, LAMBDA e : e.seat # seat \/ seat = h.own)
    IN  [h EXCEPT !.seats = Append(kept, [key |-> k, seat |-> seat])]

\* announcement: a key that is committed is only owed the state again.
Announced(h, k) ==
    LET known == \E e \in Range(h.seats) : e.key = k
        kept  == IF known THEN h ELSE Commit(h, k)
    IN  [kept EXCEPT !.owed = TRUE]

\* seat_joined: the roster keeps the order the relay showed the seats in.
SeatJoined(h, s) ==
    IF s \in Range(h.roster) THEN h ELSE [h EXCEPT !.roster = Append(@, s)]

\* seat_left: the keys labelled with the seat go with it.
SeatLeft(h, s) ==
    LET roster == SelectSeq(h.roster, LAMBDA held_seat : held_seat # s)
        seats  == SelectSeq(h.seats, LAMBDA e : e.seat # s)
    IN  [h EXCEPT !.roster = roster, !.seats = seats]

\* peer_entries: the keys of the seats the roster has, and the host's own.
PeerEntries(h) ==
    {e \in Range(h.seats) : e.seat \in Range(h.roster)}
        \cup {[key |-> h.own, seat |-> h.own]}

\* next_issued: above what it published and what it verified.
NextIssued(h) == (IF h.issued < h.verified THEN h.verified ELSE h.issued) + 1

\* publish's early returns: a closed host, nothing owed, a window spent.
Due(h, reason) ==
    /\ h.standing = "live"
    /\ reason = "announcement" => h.owed /\ ~h.spent

\* The state owed: the last one again if nothing changed, or the next edition.
Owed(h, names) ==
    IF /\ h.last # NoState
       /\ h.last.issued >= h.verified
       /\ h.last.listing = names
       /\ h.last.peers = PeerEntries(h)
    THEN h.last
    ELSE [issued |-> NextIssued(h), peers |-> PeerEntries(h), listing |-> names]

\* Mutant of Save: the series is written for closings only.
SaveNothing(n) == UNCHANGED stored

\* commit_series: the edition is in the store before the frame is on its way.
Save(n) == stored' = n

\* publish_state: what the producer publishes is saved, queued and folded into
\* the session's own reader, which is the verified edition (after_state).
Publish(h, reason, names, queue) ==
    IF Due(h, reason)
    THEN LET state == Owed(h, names) IN
         /\ host' = [h EXCEPT !.owed = FALSE,
                              !.spent = @ \/ reason = "announcement",
                              !.issued = state.issued,
                              !.verified = state.issued,
                              !.last = state]
         /\ Save(state.issued)
         /\ outbox' = Append(queue, state)
    ELSE /\ host' = h
         /\ outbox' = queue
         /\ UNCHANGED stored

----------------------------------------------------------------------------
(* The host's session.                                                      *)

\* hear_joined: the producer's roster gains the seat, and a state goes out.
HearJoined(p) == Publish(SeatJoined(host, p), "roster", listing, outbox)

\* hear_left: the seat goes with its keys, and a state goes out.
HearLeft(p) == Publish(SeatLeft(host, p), "roster", listing, outbox)

\* hear_announcement: answered at once, or at the end of the window.
HearAnnouncement(p) ==
    Publish(Announced(host, p), "announcement", listing, outbox)

\* The session takes what the relay has for it, in order.
Hear ==
    /\ toHost # <<>>
    /\ LET heard == Head(toHost) IN
         \/ heard.what = "joined" /\ HearJoined(heard.peer)
         \/ heard.what = "left" /\ HearLeft(heard.peer)
         \/ heard.what = "announcement" /\ HearAnnouncement(heard.peer)
    /\ toHost' = Tail(toHost)
    /\ UNCHANGED <<listing, where, peers, upsets>>

\* The bound on what is under way.
Calm ==
    /\ Len(outbox) < MaxInFlight
    /\ \A p \in Guests : Len(inbox[p]) < MaxInFlight

\* A renewal has gone by since the window began.
WindowPasses ==
    /\ host.spent
    /\ Calm
    /\ host' = [host EXCEPT !.spent = FALSE]
    /\ UNCHANGED <<stored, outbox, listing, toHost, where, peers, upsets>>

\* A tick: what is owed goes out if the window has passed.
HostTick ==
    /\ Due(host, "announcement")
    /\ Publish(host, "announcement", listing, outbox)
    /\ UNCHANGED <<listing, toHost, where, peers, upsets>>

\* listing_changed: a state at once, whatever the window.
ListingChanges ==
    /\ Upset
    /\ listing' = listing + 1
    /\ Publish(host, "listing", listing', outbox)
    /\ UNCHANGED <<toHost, where, peers>>

\* close_room: one frame above every state, and nothing after it.
CloseRoom ==
    /\ Upset
    /\ host.standing = "live"
    /\ host' = [host EXCEPT !.standing = "closed", !.issued = NextIssued(host)]
    /\ stored' = NextIssued(host)
    /\ outbox' = Append(outbox, [closing |-> NextIssued(host)])
    /\ UNCHANGED <<listing, toHost, where, peers>>

\* The socket sends what is queued; the server relays it to who is seated.
Transmit ==
    /\ outbox # <<>>
    /\ outbox' = <<>>
    /\ inbox' = [p \in Guests |->
                   IF p \in Seated THEN inbox[p] \o outbox ELSE inbox[p]]
    /\ UNCHANGED <<host, stored, listing, toHost, where, held, ended, joined,
                   upsets>>

\* The host's process dies with what it had queued and had not read, and comes
\* back in a connection of its own with what its store holds.  A session built
\* for a host publishes a state at once.
Reload ==
    /\ Upset
    /\ host.standing = "live"
    /\ \E n \in 1..(Len(Hosts) - 1) :
         /\ Hosts[n] = host.own
         /\ Publish(Producer(Hosts[n + 1], stored), "mint", listing, <<>>)
    /\ toHost' = <<>>
    /\ joined' = [p \in Guests |-> joined[p] \/ p \in Seated]
    /\ UNCHANGED <<listing, where, held, ended, inbox>>

----------------------------------------------------------------------------
(* The peers' sessions.                                                     *)

Told(what, p) == [what |-> what, peer |-> p]

\* The server seats p and announces it to the room.  The host is seated, so the
\* other peers leave the answer to it.
Join(p) ==
    /\ \E n \in DOMAIN Arrivals :
         /\ Arrivals[n] = p
         /\ \A m \in DOMAIN Arrivals : where[Arrivals[m]] = "new" <=> m >= n
    /\ host.own = Hosts[1]  \* bound: guests come before a reload
    /\ where' = [where EXCEPT ![p] = "seated"]
    /\ toHost' = Append(toHost, Told("joined", p))
    /\ UNCHANGED <<producer, listing, peers, upsets>>

\* The server drops p's seat and tells the room.
Leave(p) ==
    /\ Upset
    /\ p \in Seated
    /\ where' = [where EXCEPT ![p] = "gone"]
    /\ toHost' = Append(toHost, Told("left", p))
    /\ inbox' = [inbox EXCEPT ![p] = <<>>]
    /\ held' = [held EXCEPT ![p] = NoState]
    /\ ended' = [ended EXCEPT ![p] = FALSE]
    /\ joined' = [joined EXCEPT ![p] = FALSE]
    /\ UNCHANGED <<producer, listing>>

Announcing(p) == \E m \in DOMAIN toHost : toHost[m] = Told("announcement", p)

\* reannounce, on the renewal clock: the first announcement included.  A tick
\* while one is still on its way adds nothing to the model.
Reannounce(p) ==
    /\ p \in Seated
    /\ ~ended[p]
    /\ ~Commits(held[p], p)
    /\ Calm
    /\ ~Announcing(p)
    /\ toHost' = Append(toHost, Told("announcement", p))
    /\ UNCHANGED <<producer, listing, where, peers, upsets>>

\* A state above the one held replaces it; a peer it does not commit announces
\* itself at once (after_state).
ApplyState(p, s) ==
    /\ s.issued > held[p].issued
    /\ held' = [held EXCEPT ![p] = s]
    /\ toHost' = IF Commits(s, p) \/ ended[p] \/ Announcing(p) THEN toHost
                 ELSE Append(toHost, Told("announcement", p))
    /\ UNCHANGED ended

\* A closing ends the session of a peer that holds a state below it.
ApplyClosing(p, c) ==
    /\ held[p] # NoState
    /\ c.closing > held[p].issued
    /\ ended' = [ended EXCEPT ![p] = TRUE]
    /\ UNCHANGED <<held, toHost>>

\* stale_issued, or a closing that finds no state.
Ignored(p, f) ==
    /\ IF IsState(f) THEN f.issued <= held[p].issued
       ELSE held[p] = NoState \/ f.closing <= held[p].issued
    /\ UNCHANGED <<held, ended, toHost>>

Read(p) ==
    /\ inbox[p] # <<>>
    /\ LET f == Head(inbox[p]) IN
         \/ IsState(f) /\ ApplyState(p, f)
         \/ ~IsState(f) /\ ApplyClosing(p, f)
         \/ Ignored(p, f)
    /\ inbox' = [inbox EXCEPT ![p] = Tail(@)]
    /\ UNCHANGED <<producer, listing, where, joined, upsets>>

\* The host entry of the state p holds labels a seat the room has not.
HostAway(p) == [key |-> host.own, seat |-> host.own] \notin held[p].peers

\* seat_joined at a peer: with the host away it sends the state it holds to the
\* others, unchanged.  (The host's series is above it: it would be refused.)
Resend(p) ==
    /\ joined[p]
    /\ joined' = [joined EXCEPT ![p] = FALSE]
    /\ inbox' = [q \in Guests |->
                   IF /\ q \in Seated \ {p}
                      /\ held[p] # NoState
                      /\ HostAway(p)
                      /\ ~ended[p]
                   THEN Append(inbox[q], held[p]) ELSE inbox[q]]
    /\ UNCHANGED <<producer, listing, toHost, where, held, ended, upsets>>

----------------------------------------------------------------------------
\* The room is minted: the host's session publishes its first state.
Init ==
    LET h == Producer(Hosts[1], 0)
        s == Owed(h, 0)
    IN  /\ host = [h EXCEPT !.issued = 1, !.verified = 1, !.last = s]
        /\ stored = 1
        /\ listing = 0
        /\ outbox = <<s>>
        /\ toHost = <<>>
        /\ where = [p \in Guests |-> "new"]
        /\ held = [p \in Guests |-> NoState]
        /\ ended = [p \in Guests |-> FALSE]
        /\ inbox = [p \in Guests |-> <<>>]
        /\ upsets = 0
        /\ joined = [p \in Guests |-> FALSE]

Next ==
    \/ Hear \/ WindowPasses \/ HostTick \/ Transmit
    \/ ListingChanges \/ CloseRoom \/ Reload
    \/ \E p \in Guests :
         Join(p) \/ Leave(p) \/ Reannounce(p) \/ Read(p) \/ Resend(p)

Spec == Init /\ [][Next]_vars

\* Clocks tick, sockets and sessions that have something to do do it.
Fairness ==
    /\ WF_vars(Hear) /\ WF_vars(WindowPasses) /\ WF_vars(HostTick)
    /\ WF_vars(Transmit)
    /\ \A p \in Guests :
         WF_vars(Reannounce(p)) /\ WF_vars(Read(p)) /\ WF_vars(Resend(p))

FairSpec == Spec /\ Fairness

----------------------------------------------------------------------------
Frames == States \cup Closings

\* Every variable has its type, and every key the producer has committed is
\* labelled with a seat of its roster (seat_left takes the keys with the seat),
\* so that peer_entries leaves none of them out.
TypeOK ==
    /\ host \in [own : Range(Hosts), roster : Seq(Connections),
                 seats : Seq(Entry), owed : BOOLEAN, spent : BOOLEAN,
                 issued : Nat, verified : Nat, last : States, standing : {"live", "closed"}]
    /\ \A e \in Range(host.seats) : e.seat \in Range(host.roster)
    /\ stored \in Nat
    /\ upsets \in 0..MaxUpsets
    /\ listing \in Nat
    /\ outbox \in Seq(Frames)
    /\ toHost \in Seq([what : {"joined", "left", "announcement"},
                       peer : Guests])
    /\ where \in [Guests -> {"new", "seated", "gone"}]
    /\ held \in [Guests -> States]
    /\ ended \in [Guests -> BOOLEAN]
    /\ inbox \in [Guests -> Seq(Frames)]
    /\ joined \in [Guests -> BOOLEAN]

\* Every frame of the host that is held or on its way.
Known ==
    Range(outbox) \cup (UNION {Range(inbox[p]) : p \in Guests})
        \cup {held[p] : p \in Guests} \cup {host.last}

\* HostProducer::publish, closing and save.  One edition, one state, whatever
\* was published, re-sent or lost with the host's process, and the closing is
\* above them all: peers that hold the same edition agree on the room, and none
\* refuses a reloaded host's state as stale.
EditionsAgree ==
    /\ \A s, t \in {f \in Known : IsState(f)} : s.issued = t.issued => s = t
    /\ \A s, c \in Known : IsState(s) /\ ~IsState(c) => s.issued < c.closing

\* HostProducer::label against after_state and reannounce.  A room that is left
\* alone settles: every peer that is seated holds a state
\* that commits its key.  A key can lose its seat to another whose label was
\* wrong; its peer announces itself again and takes the seat of the key held
\* longest, until the keys nobody sits behind are gone.
EveryoneIsCommitted ==
    <>[](host.standing = "live" =>
           \A p \in Seated : Commits(held[p], p))
=============================================================================
