------------------------------ MODULE Selvaged ------------------------------
(***************************************************************************)
(* The session server's core: the registry of rooms (selvaged/src/room.rs) *)
(* behind one lock, and the connection tasks that share it                 *)
(* (selvaged/src/net/session.rs).  A critical section of the code is one   *)
(* step here; everything a task does between two of them interleaves with  *)
(* the other tasks, the grace timers and the clients that read their       *)
(* queues.                                                                 *)
(*                                                                         *)
(* A peer is a connection: the server mints a fresh peer id for each, so   *)
(* a reconnect is another peer.  Room ids are fresh too (48 random bits);  *)
(* `create` only checks the live ones.  A display name is abstracted to    *)
(* the number of renames behind it, a relayed payload to its sender and    *)
(* its place in that sender's stream.                                      *)
(***************************************************************************)
EXTENDS Integers, Sequences, FiniteSets

CONSTANTS
    Peers,            \* connections that said hello
    Rooms,            \* room ids
    MaxRooms,         \* --max-rooms
    MaxPeersPerRoom,  \* --max-peers-per-room
    MaxQueueFrames,   \* MAX_QUEUE_FRAMES; stands for the byte cap as well
    ReplyMayNotFit,   \* the queue was configured below the largest reply
    Acts,             \* bound: what each client is up to, see Deeds
    MaxSent,          \* bound: payloads a client relays
    MaxRenames        \* bound: how often a client renames itself

\* What a client may do: create a room, join one, read what it is sent, relay a
\* payload, rename itself, send a request that is refused, leave, and lose its
\* socket while the server writes to it.
Deeds == {"mint", "join", "read", "relay", "rename", "ask", "quit", "break"}

ASSUME SelvagedAssumption ==
    /\ Acts \in [Peers -> SUBSET Deeds]
    /\ MaxRooms \in Nat
    /\ MaxPeersPerRoom \in Nat
    /\ MaxQueueFrames \in Nat \ {0}
    /\ ReplyMayNotFit \in BOOLEAN
    /\ MaxSent \in Nat
    /\ MaxRenames \in Nat

VARIABLES
    \* Registry, all of it behind `shared.registry`
    live,      \* the ids in Registry.rooms
    seats,     \* room -> Room.peers
    names,     \* peer -> PeerInfo.display_name
    gen,       \* room -> Room.generation
    arrivals,  \* room -> Room.arrivals
    tasks,     \* the peers in Registry.tasks
    minted,    \* history: every id ever minted
    \* one connection each
    roomOf,    \* Session.room_id, the set of at most one room
    queue,     \* Queue: frames queued and not yet written
    closed,    \* peers whose writer is gone: nothing can be queued for them
    poisoned,  \* peers whose poison sender was dropped
    at,        \* where the task is, see Places
    after,     \* where `deliver` returns to
    job,       \* `deliver`'s locals, see Job
    due,       \* the grace timer remove_peer arms once its delivery is done
    \* the rest of the world
    timers,    \* reap_later_empty tasks still asleep
    view,      \* the client's roster (client/src/relay.rs)
    \* history of what was queued for whom
    sent,      \* payloads a peer has handed to the server
    got,       \* got[p][s]: number of s's last payload queued for p
    told       \* told[p]: the peers p was told have left

registry == <<live, seats, names, gen, arrivals, tasks, minted>>
running == <<roomOf, at, after, job, due>>
wires == <<queue, closed, poisoned>>
history == <<sent, got, told>>
vars == <<registry, running, wires, timers, view, history>>

\* apply: said hello, not seated.  pump: waiting in select!.  pop, send, eject:
\* inside `deliver`.  remove, leave: about to detach itself, from handle_text or
\* from drive.  removed, left: that delivery is done.  done: the task is over.
Places == {"apply", "pump", "pop", "send", "eject", "remove", "leave",
           "removed", "left", "done"}
Delivering == {"pop", "send", "eject"}

\* The peers a room would be announced to, and those seated anywhere.
Seated == UNION {seats[r] : r \in live}

----------------------------------------------------------------------------
(* Frames, and what a client makes of them *)

Reply(roster) == [kind |-> "reply", peers |-> roster]
Joined(p, name) == [kind |-> "joined", peer |-> p, name |-> name]
Left(p) == [kind |-> "left", peer |-> p]
Renamed(p, name) == [kind |-> "renamed", peer |-> p, name |-> name]
Data(p, n) == [kind |-> "data", peer |-> p, n |-> n]
Answer == [kind |-> "answer"]

NoFrame == [kind |-> "none"]

NoView == [seated |-> FALSE, peers |-> <<>>]

\* The roster with one record replaced whole, and with one record dropped.
With(roster, p, name) ==
    [x \in DOMAIN roster \cup {p} |-> IF x = p THEN name ELSE roster[x]]
Without(roster, p) == [x \in DOMAIN roster \ {p} |-> roster[x]]

\* `seating` before the reply, then RelayState::hear_joined, hear_left and
\* hear_renamed.
Hear(v, f) ==
    IF ~v.seated
    THEN IF f.kind = "reply" THEN [seated |-> TRUE, peers |-> f.peers] ELSE v
    ELSE CASE f.kind = "joined" ->
                [seated |-> TRUE, peers |-> With(v.peers, f.peer, f.name)]
           [] f.kind = "left" ->
                [seated |-> TRUE, peers |-> Without(v.peers, f.peer)]
           [] f.kind = "renamed" /\ f.peer \in DOMAIN v.peers ->
                [seated |-> TRUE, peers |-> With(v.peers, f.peer, f.name)]
           [] OTHER -> v

----------------------------------------------------------------------------
(* Queueing *)

\* Queue::try_queue takes the frame: the writer is there and both caps hold.
Fits(p) == p \notin closed /\ Len(queue[p]) < MaxQueueFrames

\* try_queue on p's own queue, for an answer; a frame that does not fit is lost.
Queued(p, f) ==
    IF Fits(p) THEN [queue EXCEPT ![p] = Append(@, f)] ELSE queue

----------------------------------------------------------------------------
(* deliver *)

\* One entry of `pending`: whom to skip, and the frame.
Pending(skip, f) == [skip |-> skip, out |-> f]

\* deliver's locals: what is still to send (a stack), the frame in hand, the
\* snapshot of queues it has not been offered to, and those that were full.
Job(pending, out, targets, slow) ==
    [pending |-> pending, out |-> out, targets |-> targets, slow |-> slow]
NoJob == Job(<<>>, NoFrame, {}, {})

\* Task p calls deliver with one frame and goes on at `then` when it returns.
Deliver(p, skip, f, then) ==
    /\ job' = [job EXCEPT ![p] = Job(<<Pending(skip, f)>>, NoFrame, {}, {})]
    /\ at' = [at EXCEPT ![p] = "pop"]
    /\ after' = [after EXCEPT ![p] = then]

\* The loop of deliver as it stands with job j: on to the next target, the next
\* slow peer, the next pending frame, or back to the caller.
Proceed(p, j) ==
    IF j.targets # {} THEN
        /\ at' = [at EXCEPT ![p] = "send"]
        /\ job' = [job EXCEPT ![p] = j]
    ELSE IF j.slow # {} THEN
        /\ at' = [at EXCEPT ![p] = "eject"]
        /\ job' = [job EXCEPT ![p] = j]
    ELSE IF j.pending # <<>> THEN
        /\ at' = [at EXCEPT ![p] = "pop"]
        /\ job' = [job EXCEPT ![p] = Job(j.pending, NoFrame, {}, {})]
    ELSE
        /\ at' = [at EXCEPT ![p] = after[p]]
        /\ job' = [job EXCEPT ![p] = NoJob]

\* Whom Room::queues snapshots for task p; a room that is gone has nobody.
Snapshot(p, skip) == (UNION {seats[r] : r \in roomOf[p] \cap live}) \ skip

\* pending.pop() and the snapshot, under the lock.
Pop(p) ==
    /\ at[p] = "pop"
    /\ LET rest == SubSeq(job[p].pending, 1, Len(job[p].pending) - 1)
           top  == job[p].pending[Len(job[p].pending)]
       IN  Proceed(p, Job(rest, top.out, Snapshot(p, top.skip), {}))
    /\ UNCHANGED <<registry, roomOf, after, due, wires, timers, view, history>>

\* What the history remembers of f having been queued for t.
Note(t, f) ==
    /\ got' = IF f.kind = "data" THEN [got EXCEPT ![t][f.peer] = f.n] ELSE got
    /\ told' = IF f.kind = "left"
               THEN [told EXCEPT ![t] = @ \cup {f.peer}] ELSE told
    /\ UNCHANGED <<sent>>

\* Mutant of Offered: a frame that does not fit is dropped, the peer kept.
OfferedOrDropped(p, t) ==
    Job(job[p].pending, job[p].out, job[p].targets \ {t}, job[p].slow)

\* The loop after t was offered the frame: a queue that was full is a slow peer.
Offered(p, t) ==
    Job(job[p].pending, job[p].out, job[p].targets \ {t},
        IF Fits(t) THEN job[p].slow ELSE job[p].slow \cup {t})

\* send_all's loop body: one snapshotted queue, no lock held.
Send(p) ==
    /\ at[p] = "send"
    /\ \E t \in job[p].targets :
         /\ \/ /\ Fits(t)
               /\ queue' = [queue EXCEPT ![t] = Append(@, job[p].out)]
               /\ Note(t, job[p].out)
            \/ /\ ~Fits(t)
               /\ UNCHANGED <<queue, history>>
         /\ Proceed(p, Offered(p, t))
    /\ UNCHANGED <<registry, roomOf, after, due, closed, poisoned, timers, view>>

----------------------------------------------------------------------------
(* Leaving a room *)

\* A grace timer for room r as it stands when `detach` left it empty; `arr` is
\* not in the code, it remembers how many peers had ever been seated by then.
Timer(r, g) == [room |-> r, gen |-> g, arr |-> arrivals[r]]

\* Mutant of Owed: the generation is read before `detach` advances it.
OwedAtOldGeneration(r, q) ==
    IF seats[r] = {q} THEN {Timer(r, gen[r])} ELSE {}

\* What is owed once q has left r: the timer of the leave that emptied it.
Owed(r, q) == IF seats[r] = {q} THEN {Timer(r, gen[r] + 1)} ELSE {}

\* Mutants of Detach: the poison sender is left behind; the generation is taken
\* back to that of an earlier window.
DetachKeepsTask(r, q) ==
    /\ seats' = [seats EXCEPT ![r] = @ \ {q}]
    /\ gen' = [gen EXCEPT ![r] = @ + 1]
    /\ UNCHANGED <<tasks, live, names, arrivals, minted>>
DetachRewinds(r, q) ==
    /\ seats' = [seats EXCEPT ![r] = @ \ {q}]
    /\ gen' = [gen EXCEPT ![r] = @ - 1]
    /\ tasks' = tasks \ {q}
    /\ UNCHANGED <<live, names, arrivals, minted>>

\* Registry::detach and take_task for a seated peer q of room r.
Detach(r, q) ==
    /\ seats' = [seats EXCEPT ![r] = @ \ {q}]
    /\ gen' = [gen EXCEPT ![r] = @ + 1]
    /\ tasks' = tasks \ {q}
    /\ UNCHANGED <<live, names, arrivals, minted>>

\* Mutant of AlreadyGone: a departure is announced by every task that found the
\* peer slow.
AnnouncedAgain(p, q) ==
    Job(Append(job[p].pending, Pending({}, Left(q))), job[p].out, {},
        job[p].slow \ {q})

\* deliver's loop once slow peer q was detached: its peer.left is pending too.
Ejected(p, q) ==
    Job(Append(job[p].pending, Pending({}, Left(q))), job[p].out, {},
        job[p].slow \ {q})

\* ... and when another task had detached it before.
AlreadyGone(p, q) ==
    Job(job[p].pending, job[p].out, {}, job[p].slow \ {q})

\* eject_into for one slow peer.  The timer, the peer.left and the poison follow
\* the lock at once, with nothing in between that could wait.
Eject(p) ==
    /\ at[p] = "eject"
    /\ \E q \in job[p].slow, r \in roomOf[p] :
         \/ /\ r \in live /\ q \in seats[r]
            /\ Detach(r, q)
            /\ timers' = timers \cup Owed(r, q)
            /\ poisoned' = poisoned \cup {q}
            /\ Proceed(p, Ejected(p, q))
            /\ UNCHANGED <<queue, closed, sent, got, told>>
         \/ /\ ~(r \in live /\ q \in seats[r])
            /\ Proceed(p, AlreadyGone(p, q))
            /\ UNCHANGED <<registry, wires, timers, history>>
    /\ UNCHANGED <<roomOf, after, due, view>>

\* The writer is gone, with the queue it drained and the client that read it.
Unplug(p) ==
    /\ queue' = [queue EXCEPT ![p] = <<>>]
    /\ closed' = closed \cup {p}
    /\ view' = [view EXCEPT ![p] = NoView]
    /\ got' = [got EXCEPT ![p] = [s \in Peers |-> 0]]
    /\ told' = [told EXCEPT ![p] = {}]

\* The task is over, and nothing is left of its two channels.
Over(p) ==
    /\ at' = [at EXCEPT ![p] = "done"]
    /\ roomOf' = [roomOf EXCEPT ![p] = {}]
    /\ poisoned' = poisoned \cup {p}
    /\ Unplug(p)

\* remove_peer up to its delivery: the detach under the lock.  From handle_text
\* a second detach goes back to the turn loop, from drive it ends the task.
RemovePeer(p) ==
    /\ at[p] \in {"remove", "leave"}
    /\ \E r \in roomOf[p] :
         \/ /\ r \in live /\ p \in seats[r]
            /\ Detach(r, p)
            /\ due' = [due EXCEPT ![p] = Owed(r, p)]
            /\ Deliver(p, {}, Left(p), IF at[p] = "leave" THEN "left" ELSE "removed")
            /\ UNCHANGED <<roomOf, wires, view, got, told>>
         \/ /\ ~(r \in live /\ p \in seats[r])
            /\ \/ /\ at[p] = "leave"
                  /\ Over(p)
               \/ /\ at[p] = "remove"
                  /\ at' = [at EXCEPT ![p] = "pump"]
                  /\ UNCHANGED <<roomOf, wires, view, got, told>>
            /\ UNCHANGED <<registry, after, job, due>>
    /\ UNCHANGED <<timers, sent>>

\* Mutant of Settle: the timer is never armed.
SettleUnarmed(p) ==
    /\ at[p] \in {"removed", "left"}
    /\ UNCHANGED <<timers, due>>
    /\ \/ at[p] = "left" /\ Over(p)
       \/ /\ at[p] = "removed"
          /\ at' = [at EXCEPT ![p] = "pump"]
          /\ poisoned' = poisoned \cup {p}
          /\ UNCHANGED <<roomOf, queue, closed, view, got, told>>
    /\ UNCHANGED <<registry, after, job, sent>>

\* The rest of remove_peer: the timer is armed, then the poison dropped.
Settle(p) ==
    /\ at[p] \in {"removed", "left"}
    /\ timers' = timers \cup due[p]
    /\ due' = [due EXCEPT ![p] = {}]
    /\ \/ at[p] = "left" /\ Over(p)
       \/ /\ at[p] = "removed"
          /\ at' = [at EXCEPT ![p] = "pump"]
          /\ poisoned' = poisoned \cup {p}
          /\ UNCHANGED <<roomOf, queue, closed, view, got, told>>
    /\ UNCHANGED <<registry, after, job, sent>>

----------------------------------------------------------------------------
(* Seating *)

\* Room::seat and set_task.
Seat(p, r) ==
    /\ seats' = [seats EXCEPT ![r] = @ \cup {p}]
    /\ arrivals' = [arrivals EXCEPT ![r] = @ + 1]
    /\ tasks' = tasks \cup {p}
    /\ roomOf' = [roomOf EXCEPT ![p] = {r}]

\* Applicant::seat with no room named: a room is minted and its reply queued.
Mint(p) ==
    /\ at[p] = "apply" /\ "mint" \in Acts[p]
    /\ Cardinality(live) < MaxRooms
    /\ \E r \in Rooms \ minted :
         /\ live' = live \cup {r}
         /\ minted' = minted \cup {r}
         /\ Seat(p, r)
    /\ queue' = [queue EXCEPT ![p] = <<Reply(<<>>)>>]
    /\ at' = [at EXCEPT ![p] = "pump"]
    /\ UNCHANGED <<names, gen, after, job, due, closed, poisoned, timers, view,
                   history>>

\* Mutant of Roster: the names peers said hello with.
RosterOfHellos(r, p) == [x \in seats[r] \ {p} |-> 0]

\* peers_except, as the reply carries it.
Roster(r, p) == [x \in seats[r] \ {p} |-> names[x]]

\* Mutant of Welcome: seated without the reply that says so.
WelcomeLost(r, p) == <<>>

\* The queue of a newcomer: its reply, put there under the lock that seated it.
Welcome(r, p) == <<Reply(Roster(r, p))>>

\* Applicant::seat naming a room, with its token: seated and answered under the
\* lock, then announced to everybody else.
Join(p, r) ==
    /\ at[p] = "apply" /\ "join" \in Acts[p]
    /\ r \in live
    /\ Cardinality(seats[r]) < MaxPeersPerRoom
    /\ Seat(p, r)
    /\ queue' = [queue EXCEPT ![p] = Welcome(r, p)]
    /\ Deliver(p, {p}, Joined(p, names[p]), "pump")
    /\ UNCHANGED <<live, names, gen, minted, due, closed, poisoned, timers, view,
                   history>>

\* The same when the reply does not fit: `unseat` detaches the newcomer again
\* and drops what `detach` said of the room.
JoinUnfit(p, r) ==
    /\ ReplyMayNotFit
    /\ at[p] = "apply" /\ "join" \in Acts[p]
    /\ r \in live
    /\ Cardinality(seats[r]) < MaxPeersPerRoom
    /\ arrivals' = [arrivals EXCEPT ![r] = @ + 1]
    /\ gen' = [gen EXCEPT ![r] = @ + 1]
    /\ Over(p)
    /\ UNCHANGED <<live, seats, names, tasks, minted, after, job, due, timers,
                   sent>>

\* x.server_full, for the cap or for a mint whose reply does not fit: `unseat`
\* takes the room out again, and nobody knew its id.
RefuseMint(p) ==
    /\ at[p] = "apply" /\ "mint" \in Acts[p]
    /\ Cardinality(live) >= MaxRooms \/ ReplyMayNotFit
    /\ Over(p)
    /\ UNCHANGED <<registry, after, job, due, timers, sent>>

\* room_unknown, token_invalid or x.room_full: nothing was seated.
RefuseJoin(p, r, tokenMatches) ==
    /\ at[p] = "apply" /\ "join" \in Acts[p]
    /\ \/ r \notin live
       \/ ~tokenMatches
       \/ Cardinality(seats[r]) >= MaxPeersPerRoom
    /\ Over(p)
    /\ UNCHANGED <<registry, after, job, due, timers, sent>>

----------------------------------------------------------------------------
(* The turn loop *)

\* Session::relay.
Relay(p) ==
    /\ at[p] = "pump"
    /\ "relay" \in Acts[p] /\ sent[p] < MaxSent
    /\ sent' = [sent EXCEPT ![p] = @ + 1]
    /\ Deliver(p, {p}, Data(p, sent[p] + 1), "pump")
    /\ UNCHANGED <<registry, roomOf, due, wires, timers, view, got, told>>

\* handle_text with session.rename: the name under the lock, the response to
\* the queue, the event to everybody.  A response that does not fit marks the
\* session, which handle_text ends once the announcement is out.
Rename(p) ==
    /\ at[p] = "pump"
    /\ "rename" \in Acts[p] /\ names[p] < MaxRenames
    /\ queue' = Queued(p, Answer)
    /\ LET then == IF Fits(p) THEN "pump" ELSE "remove" IN
       \/ /\ p \in Snapshot(p, {})
          /\ names' = [names EXCEPT ![p] = @ + 1]
          /\ Deliver(p, {}, Renamed(p, names[p] + 1), then)
       \/ /\ p \notin Snapshot(p, {})
          /\ names' = names
          /\ at' = [at EXCEPT ![p] = then]
          /\ UNCHANGED <<after, job>>
    /\ UNCHANGED <<live, seats, gen, arrivals, tasks, minted, roomOf, due, closed,
                   poisoned, timers, view, history>>

\* handle_text with anything else: one error for the sender.
Request(p) ==
    /\ at[p] = "pump"
    /\ "ask" \in Acts[p]
    /\ queue' = Queued(p, Answer)
    /\ at' = [at EXCEPT ![p] = IF Fits(p) THEN "pump" ELSE "remove"]
    /\ UNCHANGED <<registry, roomOf, after, job, due, closed, poisoned, timers,
                   view, history>>

\* Mutant of Stop: the turn loop does not look at the poison channel.
StopIgnoresPoison(p) ==
    /\ at[p] = "pump"
    /\ p \in closed
    /\ at' = [at EXCEPT ![p] = "leave"]
    /\ UNCHANGED <<registry, roomOf, after, job, due, wires, timers, view, history>>

\* pump's other branches.  Stop: the poison channel completed or the writer is
\* gone.  Disconnect: the stream ended, the budget was spent, pings went
\* unanswered.  Either way drive goes on to `leave`.
Stop(p) ==
    /\ at[p] = "pump"
    /\ p \in poisoned \cup closed
    /\ at' = [at EXCEPT ![p] = "leave"]
    /\ UNCHANGED <<registry, roomOf, after, job, due, wires, timers, view, history>>

Disconnect(p) ==
    /\ at[p] = "pump"
    /\ "quit" \in Acts[p]
    /\ at' = [at EXCEPT ![p] = "leave"]
    /\ UNCHANGED <<registry, roomOf, after, job, due, wires, timers, view, history>>

----------------------------------------------------------------------------
(* The wire, and the timers *)

\* write_outbound takes a frame and the client reads it.
Read(p) ==
    /\ "read" \in Acts[p]
    /\ queue[p] # <<>>
    /\ view' = [view EXCEPT ![p] = Hear(@, Head(queue[p]))]
    /\ queue' = [queue EXCEPT ![p] = Tail(@)]
    /\ UNCHANGED <<registry, running, closed, poisoned, timers, history>>

\* The writer's send fails: it returns, and the queue's receiver with it.
WriterFails(p) ==
    /\ "break" \in Acts[p]
    /\ queue[p] # <<>>
    /\ Unplug(p)
    /\ UNCHANGED <<registry, running, poisoned, timers, sent>>

\* Mutant of Reaps: any timer takes down a room that happens to be empty.
ReapsAnyGeneration(t) == t.room \in live /\ seats[t.room] = {}

\* reap_if_empty's test.
Reaps(t) == t.room \in live /\ gen[t.room] = t.gen /\ seats[t.room] = {}

\* reap_later_empty wakes up.
TimerFires ==
    \E t \in timers :
        /\ timers' = timers \ {t}
        /\ live' = IF Reaps(t) THEN live \ {t.room} ELSE live
        /\ UNCHANGED <<seats, names, gen, arrivals, tasks, minted, running, wires,
                       view, history>>

----------------------------------------------------------------------------
Init ==
    /\ live = {}
    /\ seats = [r \in Rooms |-> {}]
    /\ names = [p \in Peers |-> 0]
    /\ gen = [r \in Rooms |-> 0]
    /\ arrivals = [r \in Rooms |-> 0]
    /\ tasks = {}
    /\ minted = {}
    /\ roomOf = [p \in Peers |-> {}]
    /\ queue = [p \in Peers |-> <<>>]
    /\ closed = {}
    /\ poisoned = {}
    /\ at = [p \in Peers |-> "apply"]
    /\ after = [p \in Peers |-> "pump"]
    /\ job = [p \in Peers |-> NoJob]
    /\ due = [p \in Peers |-> {}]
    /\ timers = {}
    /\ view = [p \in Peers |-> NoView]
    /\ sent = [p \in Peers |-> 0]
    /\ got = [p \in Peers |-> [s \in Peers |-> 0]]
    /\ told = [p \in Peers |-> {}]

\* What a task does by itself once it has been set going.
TaskStep(p) ==
    Pop(p) \/ Send(p) \/ Eject(p) \/ RemovePeer(p) \/ Settle(p) \/ Stop(p)

Apply(p) ==
    \/ Mint(p) \/ RefuseMint(p)
    \/ \E r \in Rooms : Join(p, r) \/ JoinUnfit(p, r)
    \/ \E r \in Rooms, ok \in BOOLEAN : RefuseJoin(p, r, ok)

Next ==
    \/ \E p \in Peers :
         \/ TaskStep(p) \/ Apply(p)
         \/ Relay(p) \/ Rename(p) \/ Request(p) \/ Disconnect(p)
         \/ Read(p) \/ WriterFails(p)
    \/ TimerFires

Spec == Init /\ [][Next]_vars

\* The runtime polls every ready task and fires every timer, and `select!` tries
\* its ready branches in random order, so a client that keeps sending cannot keep
\* the poison branch from being taken.  Clients promise nothing: whether one
\* reads, sends or leaves is up to it.
Fairness ==
    /\ \A p \in Peers : WF_vars(TaskStep(p)) /\ SF_vars(Stop(p))
    /\ WF_vars(TimerFires)

FairSpec == Spec /\ Fairness

----------------------------------------------------------------------------
(* Properties *)

\* The registry and the tasks' control; frames and clients are typed by use.
TypeOK ==
    /\ live \subseteq minted
    /\ minted \subseteq Rooms
    /\ seats \in [Rooms -> SUBSET Peers]
    /\ names \in [Peers -> Nat]
    /\ gen \in [Rooms -> Nat]
    /\ arrivals \in [Rooms -> Nat]
    /\ tasks \subseteq Peers
    /\ roomOf \in [Peers -> SUBSET Rooms]
    /\ \A p \in Peers : roomOf[p] = {} \/ \E r \in Rooms : roomOf[p] = {r}
    /\ closed \subseteq Peers
    /\ poisoned \subseteq Peers
    /\ at \in [Peers -> Places]
    /\ after \in [Peers -> {"pump", "remove", "removed", "left"}]
    /\ due \in [Peers -> SUBSET [room : Rooms, gen : Nat, arr : Nat]]
    /\ timers \subseteq [room : Rooms, gen : Nat, arr : Nat]

\* A seat is always served: whoever is in a room has a task that is still
\* running for that very room, can still be ended (its poison sender is in the
\* registry) and has not been told to end.  And nobody else's sender is kept.
\* A seat outliving its task would hold the room open with nobody behind it.
SeatsAreServed ==
    /\ tasks = Seated
    /\ \A r \in live : \A p \in seats[r] :
         /\ roomOf[p] = {r}
         /\ p \notin poisoned
         /\ at[p] \notin {"apply", "removed", "left", "done"}
         /\ at[p] \in Delivering => after[p] \notin {"removed", "left"}

\* What will wake up: timers asleep, and those a departing task is about to arm.
Pledged == timers \cup UNION {due[p] : p \in Peers}

\* No room leaks: a room that holds nobody has a grace timer at its present
\* generation, asleep or about to be armed by the task that emptied it.
EmptyRoomHasTimer ==
    \A r \in live : seats[r] = {} =>
        \E t \in Pledged : t.room = r /\ t.gen = gen[r]

\* The grace period is honoured: a room is only ever taken down empty, by a
\* timer armed when it emptied, with nobody seated in it since.  A timer of an
\* earlier empty window never cuts a later one short (Room.generation).
GraceHonoured ==
    [][\A r \in live \ live' :
         /\ seats[r] = {}
         /\ \E t \in timers \ timers' : t.room = r /\ t.arr = arrivals[r]]_vars

\* The frame a step put at the end of p's queue, if it did.
NewFrame(p) ==
    IF Len(queue'[p]) > Len(queue[p]) THEN queue'[p][Len(queue'[p])] ELSE NoFrame

\* A relayed stream has no holes: the payloads of one sender reach a peer in the
\* order they were sent, each once, from the first one it is given.  A payload
\* that does not fit costs the peer its seat, never just the payload.
StreamsHaveNoHoles ==
    [][\A p \in Peers : LET f == NewFrame(p) IN
         f.kind = "data" => got[p][f.peer] \in {0, f.n - 1}]_vars

\* A departure is announced once to each peer, whichever of several tasks found
\* the peer slow and whether or not it was leaving by itself.
LeftIsToldOnce ==
    [][\A p \in Peers : LET f == NewFrame(p) IN
         f.kind = "left" => f.peer \notin told[p]]_vars

\* PROTOCOL 6.3 as Applicant::seat has it: the reply is a connection's first
\* frame, whoever publishes into the room meanwhile.
ReplyComesFirst ==
    \A p \in Peers : ~view[p].seated /\ queue[p] # <<>> =>
        queue[p][1].kind = "reply"

\* Two peers seated together, q idle and p with nothing left to read.
Acquainted(p, q) ==
    /\ p # q
    /\ \E r \in live : {p, q} \subseteq seats[r]
    /\ at[q] = "pump"
    /\ queue[p] = <<>>
    /\ p \notin closed

\* Nobody is missing: a client that has read what it was sent knows everyone
\* who is seated with it and has been announced, by the name they bear now.
RosterIsComplete ==
    \A p, q \in Peers : Acquainted(p, q) =>
        /\ q \in DOMAIN view[p].peers
        /\ view[p].peers[q] = names[q]

\* A seated client that has read everything, in a room with nothing under way.
Quiet(p, r) ==
    /\ r \in live /\ p \in seats[r]
    /\ queue[p] = <<>> /\ p \notin closed
    /\ \A q \in Peers : roomOf[q] = {r} =>
         at[q] \notin Delivering \cup {"removed", "left"}

\* net/session.rs:333-335: of a peer that is removed, "the room is told
\* `peer.left`", on which client/src/host.rs:357 has "the roster loses a seat".
\* Judged once no task is left that could still tell the room anything.
NoStrangers ==
    \A p \in Peers, r \in Rooms :
        Quiet(p, r) /\ (\A q \in Peers : roomOf[q] = {r} => q \in seats[r]) =>
            DOMAIN view[p].peers \subseteq seats[r]

\* Dropping a task's poison sender ends it: a removed peer's connection is
\* always over in the end, with nobody reading on the other side.
PoisonEndsTheTask ==
    \A p \in Peers : p \in poisoned ~> at[p] = "done"
=============================================================================
