# A TLA+ verification of the Selvage reference server

This directory models the session server `selvaged` and the client library beside it in TLA+.
TLC checks the models on small instances; TLAPS proves the results that matter most for every
value of the constants. Paths below are relative to the repository; line numbers are in
`PROJECT.json` (`map` ties every definition to the code it translates, `hazards` lists what this
code is exposed to).

## The system

A client opens a WebSocket to the server, says `session.hello`, and either mints a room or
joins one with its id and token, both of which an invite link carries. From then on everything it
sends is relayed, unread, to the others in the room; the server itself speaks only to announce who
joined, left or renamed itself. The clients seal what they relay; the server holds no keys and
nothing on disk.

| Part | State it keeps | Operations | Interacts by |
|---|---|---|---|
| Inbound budget (`selvaged/src/budget.rs`) | tokens, carried nanoseconds, last refill | `try_take`, `refill` | called for each frame a connection reads |
| Outbound queue (`Queue` in `selvaged/src/room.rs`) | an atomic byte count, a bounded channel | `try_queue`; the writer drains it | any task of the room queues with no lock held; one writer task receives |
| Connections (`selvaged/src/net/mod.rs`) | shared slot count; per connection its head, prefix, stage, writer task, missed pings | read the head, route, admit, refuse, answer plain HTTP, serve, ping, leave, join the writer | task per socket, task per writer, timers, poison channel |
| Registry and sessions (`room.rs`, `net/session.rs`) | rooms, seats, names, generations, poison senders, sleeping grace timers | mint, join, refuse, relay, rename, eject, leave, reap | one mutex, released between the steps of a delivery |
| Configuration, command line (`lib.rs`, `main.rs`) | none after start | parse, validate | gives the constants below their values |
| Static page (`page.rs`) | none; it reads a directory others change | resolve a path, open, check, read a file | answers plain HTTP |
| Protocol (`protocol/src/lib.rs`) | none | envelope types, join queries, session addresses, percent encoding | both sides |
| Client invites (`client/src/peer/invite.rs`) | none | take a link apart, decode its keys | the host's link, the server's query |
| Client relay (`client/src/relay.rs`) | roster, send queue, two tasks, one lock | dial, seat, call, tick, receive, disconnect | the caller's threads, a clock task and a socket task |
| Client sealed channel (`client/src/sealed.rs`, `nesting.rs`) | replay marks by key id, the committed keys, the edition held | seal, parse, verify, read, judge a stream, evict marks | called by the peer for each frame |
| Client host (`client/src/host.rs`) | the seats it knows, the keys it has labelled with them, the edition, the announcement window, the frame count, a stored series | commit, publish, count, close, save, reload | called by the peer's session |
| Client peer (`client/src/peer/*`) | replica, clean baseline, held-back edits, obligations, holds, leases, presence, windows | edit, hold, deliver, tick, resolve | driven by the relay and the application |
| Harness (`harness/`) | none | drives conformance tests | not part of the system |

What is hard here, and what makes each part correct:

* **Deliveries interleave.** `deliver` snapshots the room's queues under the lock and sends
  with the lock released; a peer that cannot take a frame is ejected, which is itself
  announced by the same loop. Several tasks may find the same peer slow while it is leaving by
  itself. Correct means: a departure is told once, a stream has no holes, a seat always has a
  task behind it, a settled client's roster is its room.
* **Timers outlive their reason.** A room is removed when its grace period ends with nobody in
  it. Timers are never cancelled, only outdated by the room's generation. Correct means: no room
  is taken down early, and none is forgotten.
* **Tasks end in many ways.** A turn loop ends by stream end, budget, pings, poison or its writer;
  the writer by a close, a failed send, the channel's end or abort. Correct means: every slot is
  given back exactly once, the cap holds, nothing is polled twice, a dead client's session ends.
* **Bytes come in pieces.** A head and the frames pipelined behind it are read before anyone
  knows that there is a session. Correct means: no byte is lost, doubled or reordered.
* **A directory changes under a reader.** Correct means: what is served was inside the root.
* **Two shared objects stand for one queue.** Bytes are reserved in an atomic, the frame goes to
  a channel. Correct means: the count is what is held.
* **Integer arithmetic stands for a rate.** `refill` truncates twice. Correct means: the ceilings
  hold to the nanosecond, and a refusal is earned.
* **One text is read by four parsers.** Correct means: an invite leads where its host meant it to.
* **The relay is not trusted and frames come again.** A client keeps a mark per key id, bounded for
  keys no state commits, and one edition; a frame's bytes may be rewritten in front of its
  signature; a stream is read three times by readers that stop at different places. Correct means:
  nothing is read twice, a forged frame shuts no genuine one out, the newest state is the one held,
  a signature is good for one frame, and nothing is applied that was not judged.
* **A host guesses, and dies.** Nothing ties a key to a seat, so the host labels keys with seats it
  believes; it may die between saving and sending, and it saves its frame count only now and then.
  Correct means: an edition means one state, whoever stays is committed in the end, and the frame
  budget is never longer for a death.
* **A guest does not know its role yet.** It edits before a state commits its key, and may turn out a
  viewer. Correct means: an edit is sent once or undone, never both, and nothing undone leaves.
* **Obligations share a clock.** Requests owed for refusals, to other writers and for a role regained
  go out as one a renewal, and sealing may fail. Correct means: none is forgotten, none is early.
* **Four threads share a session.** Correct means: frames leave in the order of their numbers,
  a disconnect sends what was queued and ends both tasks, an ending is told once.

## Modules

The server:

* `InboundBudget` - `refill` and `try_take_at` with their truncating divisions, and the two loops
  that charge (the handshake's `next_text`, the turn loop's `Live::handle`). A step is "a frame
  arrives dt nanoseconds after the last". `spent`, `clock`, `frames` and `full` are history.
* `OutboundQueue` - `try_queue` split at its atomic operations (`Reserve`, `TrySend`, `GiveBack`),
  the writer (`Recv`, `Sent`, `Ends`), and its abort. The other modules use `try_queue` as one
  step, which this module justifies: a frame is either queued and counted or neither.
* `Connection` - `Shared::accept` to the drop of its `Slot`: `Admit`/`RefuseFull` are the two
  halves of the counter's protocol, `Upgrade`..`Seat` the handshake, `Heartbeat`, `Pong`, `Answer`,
  `OverBudget`, `StreamEnds`, `Poisoned`, `WriterEnds` the branches of `select!`, `Leave`, `Joined`,
  `GraceOver` the end. `senders` keeps who still holds the channel's sender, since the writer ends
  only when the last is dropped. The room is an environment (`RoomSnapshots`, `RoomSends`).
* `Front` - what `Connection` takes as "the head was read" and "plain HTTP was answered": `ReadHead` in
  pieces, `Route`, the `PrefixedStream` (`Polled`, `PushedBack`, `Dropped`), and a page request's steps
  (`CanonicalRoot`, `OpenFile`, `CheckWithin`, `CheckSize`, `ReadBody`) with `DiskChanges` between them.
  A byte is its position in what the client sends.
* `Selvaged` - the registry and the sessions' tasks. A critical section of the code is one step.
  `Pop`/`Send`/`Eject` are the loop of `deliver`, with its locals in `job`; `RemovePeer`/`Settle`
  are `remove_peer` before and after its delivery; `Mint`, `Join`, `JoinUnfit`, `RefuseMint`,
  `RefuseJoin` are `Applicant::seat`; `Relay`, `Rename`, `Request` are `handle_frame`; `Stop` and
  `Disconnect` end the turn loop; `TimerFires` is `reap_later_empty`. `Read` and `Hear` are the
  client's roster (`client/src/relay.rs`), which is what the announcements are for. A name is the
  number of renames behind it, a payload its sender and its place in the sender's stream. `sent`,
  `got`, `told`, `minted` and a timer's `arr` are history.
* `RoomPromise` - the abstract rooms: mint, enter, leave, take down after a grace period, and no
  locks, queues, generations or timers. `SelvagedRefinement` instantiates it over `Selvaged`: the open
  rooms are `live`, the members `seats`, and a grace period runs while a timer of the room's present
  generation is asleep or owed.

The client:

* `Invites` - `RelaySession::host`'s link (`SessionBase`, `SessionUrl`, `EncodeKey`), what may happen to
  it on its way, `PeerInvite::parse` (`WireAddress`, `ParseSessionUrl`, `FragmentKeys`, `DecodeKey`), and
  the server's reading of the dialled address (`OriginForm`, `Upgrades`, `ParseJoinQuery`). Both ends dial
  (`Reached`): `refuse_tls` turns a `wss` address away, and the server compares the whole path with the
  endpoint, under `mount` when a proxy serves it below a path. The host's own dial is in `Mint`: an
  address at which it is not seated mints nothing. Text is a sequence of tokens; the base64 has narrower
  bytes and digits of the same kind.
* `Envelope` - varints (`VarUint`, `ReadVarUint`, `Spans`), the envelope (`Bytes`, `ParseEnvelope`) and
  `SigningInput`, with `Rewrite` changing bytes in front of a signature. Signatures are ideal: a
  signature is what it signs.
* `Streams` - `nests_too_deep` (with the walk of `deeper_than_bound`), `is_content` and `read_stream` over
  one plaintext, with yrs's recursive reader as an external (`Recursed`).
* `SealedReader` - `Reader::read` under `PeerSession::deliver`: `Verdict` is the order of the checks
  (candidates by key id, replay, signature, AEAD, payload, role), `Accept` and `Refuse` what they
  leave behind, `Evicted` is `cap_marks`, `ApplyState`/`ApplyClosing`/`IgnoreClosing` the host's frames.
  Bytes and cryptography are abstracted to the one `flaw` a frame may have. Marks keep their order of
  use, which decides evictions. `read` (accepted, mark not given up since), `once` (accepted ever) and
  `arrived` (genuine states handed over) are history.
* `SealedRoom` - `HostProducer` driven by its session, and the peers that announce themselves to it.
  `Label`, `FallbackSeat`, `Commit`, `PeerEntries`, `Owed` are operators on the producer's value, `Publish`
  is `publish_state` with all it saves, queues and folds in. `Hear`, `HostTick`, `ListingChanges`,
  `CloseRoom`, `Reload` are the host's steps; `Read`, `Reannounce`, `Resend` a peer's; `Join`, `Leave`,
  `Transmit` the server's. `outbox` is what a dying host loses. The frames between them are the accepted
  ones: what `SealedReader` refuses does not appear here.
* `FrameBudget` - the count of the frames sealed under a room's key: in memory, in a store written
  once a renewal (`FlushFrames`) and with every state (`Saved`), behind by what was sealed without a host,
  and charged for it at a return (`ResumedFrames`). Sealing at another peer (`PeerSeals`) and counting at the
  host (`Delivers`, the first thing `deliver` does) are two steps: `missed` are the frames between them, under
  way or dropped by the relay, of which a host may be handed any and need be handed none. `deliver`
  counts before it reads, so a frame that comes again or belongs to no one is counted too. `lag` is history.
* `PeerSession` - one guest's session as a record that operators named after the code's methods
  transform, one action per call a driver makes: `HearState`, `HearContent`, `RefuseContent`,
  `HearHolds`, `HearClosing`, `Insert`, `Hold`, `SeatJoined`, `SeatLeft`, `Tick`. Clock readings are kept
  as ages up to the window they are compared with, so that time itself needs no bound. A remote
  connection has a key, which signs its frames, and a seat, which the server announces; the two meet only
  in the `Entry` a state has for a key, whose seat may be any (`host.rs` guesses it). A key's frames are
  heard whether its seat is there or not, and a state may name a host that left before this client came.
  In a call some frames may be impossible to seal (`peer.fault`), all of a kind or the update of one edit;
  `FlushHeldBack` keeps just the edits whose own update was not sealed. The edits held back are in two
  lists, `unsent` (the room's, not sealed yet) and `speculated` (of a role still open). `fate`, `sent` (how
  often an edit went out), `gone`, `spoke` (whose holds were heard since a state came or a seat left),
  `received` are history.
* `PeerAwareness` - presence in that session: entries read by their clocks (`Readable`), stamped with
  local time (`Stamped`), expired, dropped with a seat unless another claims the id, and carried over
  when the replica is swapped for its baseline (`Adopted`).
* `RelayClient` - the handshake, then the callers' threads, the clock task and the socket task. A thread
  takes the lock (`Acquire`), changes the session and pushes what it published (`Change`, `Push`),
  collects events (`Report`) and emits them after the release (`Emit`). The session is reduced to the
  number it seals under and whether it ended; `PeerSession` has the rest. `Disconnect` may be called again, and
  by two threads at once: only the first to take the socket's handle bounds the drain (`CloseQueue`).

`MC*` are instances for TLC. `MCAccounts`, `MCConnection`, `MCPeerSession` and `MCSealedReader` each hold
several small machines side by side and run one of them at a time: the machines share no state in the
code either. `*Proofs` hold the theorems.

How they fit: `InboundBudget`, `OutboundQueue` and `Front` detail what `Connection` and `Selvaged` take as one
step; `Connection` takes the room as an environment, and `Selvaged` a connection's end as `Disconnect`,
`WriterFails` and `Over`; `Selvaged` implements `RoomPromise`. `Envelope` and `Streams` detail what `SealedReader`
takes as a flaw of a frame; `SealedReader` what `SealedRoom` and `PeerSession` take as a frame accepted or
refused; `FrameBudget` what `SealedRoom` leaves out; `PeerSession` what `RelayClient` takes as a session.

## Runs

| Run | Instance | Shows |
|---|---|---|
| `accounts` | budget: 3 bytes per 10 ns, burst 5, frame cost 2, up to 5 frames, gaps up to 8 ns; queue: 3 tasks, 2 frames each, 2 slots, 3 bytes; frames: limit 8, a renewal of 2 units, charge 5 | `BurstCeiling`, `RefusalIsEarned`, `CountIsHeld` (of the queue), `CountNeverBehind` |
| `connections` | 2 connections, cap 1, queue of one frame, 1 missed ping, fair; heads of up to 5 bytes against a bound of 4 in pieces of up to 4 with 3 bytes behind; 2 files and 2 changes; room names of up to 3 characters, 7 server addresses at the root and below a path, 8 carriers | `SlotsBounded`, `CountIsHeld` (of the slots), `NeverPolledTwice`, `DeadSessionsEnd`, `FramesArriveOnce`, `PageStaysInside`, `InvitesReachTheirRoom` |
| `rooms_slow` | 3 peers, queues of one frame, 3 payloads | `SeatsAreServed`, `StreamsHaveNoHoles`, `LeftIsToldOnce` |
| `rooms_pair` | 2 peers that may do anything, queues of one frame, replies that may not fit | `ReplyComesFirst`, `RosterIsComplete`, `GraceHonoured` |
| `rooms_live` | 3 peers, nobody reads, fair | `EmptyRoomHasTimer`, `KeepsThePromise`, `EmptyRoomsGo`, `PoisonEndsTheTask` |
| `sealed_reader` | 4 keys, two of one id, a cap of one mark, editions 1 to 3 with two states at 2, closings at 2 and 4; two rooms, varints of 2 bits a byte and 3 in all, 2 rewrites; Any values of up to 6 tokens against a depth of 2, streams of up to 3 messages | `NothingReadTwice`, `InOrderIsRead`, `NewestStateHeld`, `OneSignatureOneFrame`, `JudgedBeforeApplied` |
| `sealed_room` | 2 guests, a host that may reload once, one upset, fair | `EditionsAgree`, `EveryoneIsCommitted` |
| `peer_session` | a session with the keys of a peer, a host and a reloaded host and their three seats, in 7 states; 2 local edits and 1 remote, renewal 1, expiry 2, 1 call with faults; presence of 2 ids and 2 seats, fair | `RolledBack`, `OnlyTheRoomsHistoryLeaves`, `EditsGoOutOnce`, `HoldsAreLeased`, `PresenceIsCurrent`, `ObligationsAreKept`, `HostAwayIsEarned`, `OwedRequestsGoOut`, `WaitingEnds` |
| `relay_client` | 2 callers, 2 frames, 2 requests of which 1 a rename and up to 2 disconnects, fair | `NumbersLeaveInOrder`, `EndingsHaveATeller`, `EndsInOrder` (`QueuedFramesAreSent`, `TasksEnd`, `EndingsAreTold`) |

Three further runs (`rooms_stranger`, `relay_gone`, `frames_late`) each show a disagreement between
the code and what a comment says of it; see Findings.

**Refinement.** `KeepsThePromise` is `Promise!Spec`: each step of a task, a timer or a client is a step of
the abstract rooms or changes nothing of them. It is proved as well as checked. `EmptyRoomsGo` is
`Promise!Fairness`, that an empty room's `TakeDown` is fair, and rests on TLC alone. Both are stated with replies that fit (`ReplyMayNotFit = FALSE`): a join taken back by
`unseat` outdates the timer of an empty room without arming another, which the abstract rooms do not do
(see Findings). The mapping hangs on the generation: a timer of an earlier emptiness is not a running
grace period, so its waking must stutter.

**Bounds.** The budget's rate does not divide its nanosecond, so that both truncations round; five
frames pass through full, partial and empty buckets. Three tasks are the fewest with two racing
the writer and one behind them. The frame count's units are chosen so that a renewal has an inside: a
state can be published between two ticks. Three peers are the fewest in which two tasks find a third
slow while it leaves by itself, and queues of one frame put every queue at its limit at once; with three
payloads a hole can open behind a frame that was delivered. A connection's queue of one is the case
in which a close does not fit behind the error before it, the only one in which the writer sees its
channel end. Heads end before, at and past their bound, in every division into pieces, and a tail fits
the same read; two changes are what it takes to swap a link and swap it back. Names of up to three
characters hold a delimiter, an escape, and text that looks like an escape; of the seven addresses
(`Servers`) four seat the host and three do not: a link, a `wss` one, and the endpoint with a slash behind
it, to which the endpoint is added once more. `Acts` gives each client of
`Selvaged` its part: what a client never does in a run it does in another, and between the runs every
action is taken. The reader's instance has a key evicted and committed again, a key id that is
ambiguous, a conflict of two states and a closing both above and below a state. Two rewrites suffice
to lengthen a varint and shorten what follows it; six tokens hold a container that is closed and one that
is opened after it, at the bound. In `sealed_room` two guests are the fewest whose labels can cross, so
that one's leave costs the other its key and the departed key must be displaced; `MaxUpsets` is one
leave, listing change, reload or closing, at any moment. Guests are seated before a reload: a reloaded
producer knows no seat but its own, guests seated after it would make keys displace each other for
ever, and the editions that go with it have no bound. In `peer_session` the states change this key's role
in every direction, drop a peer and commit it again, label it with its own seat and with the host's, and
name another host; two edits are the fewest of which one is open and one the room's, and of which one
can be sealed in a call that fails for the other. The fault falls in the surroundings that edit: those
in which seats come and go run without one, as no lease depends on a seal. `relay_client` has one caller that opened the session and
another that may race it. A rename takes the place of a disconnect in `MaxCloses`: with a rename beside
two disconnects the run would be twice as long.

Bounds that do not exist in the code: `MaxGap`, `MaxFrames` (budget and relay), `MaxTries`, `MaxSealed`,
`MaxPongs`, `Serves`, `MaxBehind`, `ParserBytes`, `MaxChanges`, `NameLengths`, `MaxSent`, `MaxRenames`, `MaxCloses`, `Acts`, `MaxCounter`,
`MaxRewrites`, `MaxAnyBytes`, `MaxMessages`, `MaxEdits`, `MaxFaults`, `MaxClock`, `MaxUpsets`, `MaxInFlight` (a renewal goes by, and a
peer announces itself again, only with at most that many frames under way) and `Arrivals` (an order of
joins, without loss: guests are interchangeable). `FrameBudget` assumes of `Rate` and `HostlessFor` that the charge
covers what is counted between a save and a death and sealed in the absence behind it; the code's charge
is a constant and its rate the network's, so this is the assumption under which the charge is meant to
suffice. `Rate` bounds the frames a host counts in a unit, and those sealed without one; what the others
seal under a host is not bounded by it. Deadlock is not
checked: when every client is gone and every timer has fired the system has nothing to do, and the
bounds stop the clients before that.

**Fairness.** The tokio runtime polls every task that is ready and fires every timer: weak fairness
of a task's own steps, of the writer's, of the ping interval, of grace timers. `Stop` is strongly fair:
`select!` picks at random among ready branches, so a poison that is ready again and again is taken. In
`sealed_room` the sessions' clocks tick, and a socket that is up carries what is queued. In `peer_session`
time passes and the relay's clock task ticks once a renewal; nothing is assumed of the host, the
peers or the application. In `relay_client` a thread that has begun a change finishes it (the lock is
never held across an await), `HANDSHAKE_TIMEOUT` and `CLOSE_GRACE` fire, the clock ticks, and the socket
task's `select!` takes its queue's branch when that is ready again and again; a send completes unless
the other end has stopped reading (`Stall`), which it may at any moment. Nothing is assumed of a client of
the server or of the kernel: reading, sending, a `send` that completes or fails are never fair there.

## Proofs

Each theorem is for every value of the constants that the named assumption of its module allows.

Eight modules hold theorems, about the specifications the runs check; none uses their fairness.

* `AccountsProofs`. `BudgetInv` has the type, in which the carried time is worth less than one byte,
  both ceilings, and that no time is lost. They are inductive together: a refill moves time into tokens at no gain but the
  nanosecond it rounds by, a charge moves tokens into `spent`, a full bucket resets both sides.
  `RateCeilingHolds`, `BurstCeilingHolds`, `RefusalIsEarnedHolds` follow from one lemma about `refill`, and that
  from the two inequalities that define `\div`. The frame count's `FrameInv` is `FrameTypeOK`, `SaveInv`
  (what a death would lose now: one renewal's frames since a save, almost two at a tick that a state made
  skip), `AbsenceInv` (what was sealed while the host is down) and `CountInv`, all of them about `Heard`, the
  frames sealed that are not `missed`; `CountHolds` follows, and
  needs all four, because a return is charged for what the moment of the death and the length of the
  absence left uncounted. The outbound queue's `QueueInv` is its type and `CountIsHeld`; what is held is stated
  as the set of the bytes held, so that a frame that comes or goes changes its size by the frame's length
  (`OneFrameMore`) and a receive only moves the others up (`MovedUp`), without an induction over the channel
  (`QueueCounted`).
* `ConnectionProofs`. `SlotInv` says the count is the holders and the refusals in passing; no stage
  change breaks it, because each one that leaves `Holders` takes the count down. `CapHolds` needs more than
  that: admission compares the count, which is at least the holders. `PollInv` ties the handle's output
  to a writer that has finished and to the stages behind the turn loop (`PolledOnce`). `PageInv` keeps, of
  every file under the root that is or under the root the request resolved, which may differ by
  then, that the history has it as inside (`PageHolds`). `ByteInv` says where the bytes
  are: read, waiting, in the prefix, with the parser, always the request's in one order (`BytesHold`).
  For the invites, `InviteInv` says at each leg how the link was put together: over which scheme, below which
  path, a query that
  says the room and the token once each (`Sound`), and a fragment that says both keys (`Keyed`); or, of a
  link that was spoilt, which of these is missing. Lemmas carry it: `split_once` takes apart what a
  separator joined (`SplitsOnce`), `percent_decode` undoes `percent_encode` (`DecodesBack`) and its output holds
  no delimiter, a pair added behind a query changes what is read of its own name only (`ReadsFirst`,
  `ReadsBehind`), `decode_key` undoes `encode_key` and refuses the neighbouring spelling (`KeyDecodesBack`),
  both forms of a link, and both forms of a request target, stand for one address (`WireAddressIs`,
  `OriginIs`), and the host is reached at the addresses that give such a base and at no other
  (`ServersGiveABase`, `HostIsReached`). `InvitesHold` follows for names and tokens of any length.
* `SelvagedProofs`. `SeatInv` strengthens `SeatsAreServed` with what the tasks are between two
  critical sections: a room not live has no seats, an applicant is not poisoned. `TypeCorrect` and
  `SeatsAlwaysServed` follow. Every step does one of five things to the rooms (lemma `Steps`). `GraceInv` says
  of every timer pledged (asleep, or owed by a task between its detach and its `Settle`) that its
  generation is at most the room's, and if it is the room's and the room is empty, that nobody has been
  seated since it was due. `GracePeriodHonoured` and, with replies that always fit, `NoRoomLeaks` follow. The
  refinement, `PromiseKept`, needs two facts more (`PromiseInv`): no pledge is in two hands (`Apart`), and a
  pledge level with an empty room is a live room's (`Level`). Then a timer that wakes late stutters, and one
  that wakes in time is a `TakeDown`; seats, departures and joins taken back are mapped kind by kind.
* `SelvagedDeliveryProofs`. `deliver` holds no lock between its steps, so each promise is an invariant about
  frames on their way. `Deliveries` first brings the steps of `Next` into a few shapes; `JobInv` is what
  deliver's locals are at each place. `WelcomeInv`: a frame is only for who was seated, and the reply was
  queued with the seat (`ReplyFirst`). `ToldInv`: a departure is one frame in one place of one delivery,
  pending or in hand, and who has been told is no target of it any more (`ToldOnce`). `StreamInv`: whoever
  sits with a sender has had its last payload or none of them, is being offered it, or is about to be
  ejected (`NoHoles`). `WordInv`: whoever sits with q knows it by its present name, or will when it has read
  its queue, or q's own task is still on its way, to tell it or to eject it; for that a queue must hold its
  reply in front, no departure of who is seated, and no new name ahead of an introduction
  (`RosterHolds`). A stranger on a roster (Findings, 1) contradicts none of this: `RosterHolds` is that nobody
  is missing.
* `SealedReaderProofs`. `ReaderInv` relates the history to the state: `MarksCover` (every frame in `read`
  is at or below its id's mark), `MarksEarned` (a mark is the counter of a frame that was accepted, so
  forgeries move none), `EditionsNeedAState`, and the newest state. Each is needed by another: a refusal
  is right because marks cover, an acceptance because marks are earned. `NothingIsReadTwice`,
  `InOrderIsAlwaysRead` and `NewestStateIsHeld` follow for any keys, streams, states and cap. Of `Envelope`:
  what `varuint` writes is read back wherever it lies (`ReadsBack`) and no varint is the beginning of
  another (`VarUintPeels`), so a signing input determines every field it was written from
  (`SigningInputSays`), and `SignatureIsForOneFrame` follows for any width of integers and any number of
  rewrites. Of `Streams`: the walk of `deeper_than_bound` follows the recursive reader, value by value
  and element by element, as long as the reader stays within the bound (`ValueFollows`,
  `WalkFollows`), so it refuses exactly what the reader would nest too deep on (`WalkIsExact`);
  `AppliedOnlyAsJudged` follows for any stream and any depth.
* `SealedRoomProofs`. `EditionInv`: the store has the producer's number, every state ever sent is at or
  below it, no two share one, a closing is above them all, and what a live producer would send again is
  its newest. The store is written before a frame is queued, so this survives a `Reload` that loses the
  outbox. `EditionsHold` follows for any number of guests, reloads and leaves.
* `PeerSessionProofs`. Presence first: `PresentInv` ties each shown id to a clock above the one that was
  buried and to an age the next tick will look at (`PresenceHolds`). The session's `SessionInv` has six parts:
  `SeatInv` (roster and departed seats), `AwayInv` (the host-away clock runs exactly while no host is
  seated), `LeaseInv` (a key holds something just while it has a lease, no older than the next tick allows;
  if its label's seat has left, it spoke since: both a state and a leaving drop the others), `ReplicaInv` (replica and baseline against the fate of every edit), `SentInv` and
  `OnceInv` (an edit waits in one list, once, until it is sent; a flush parts a list into what went and what
  stays, by `AmongSplits`). `RollbackHolds`, `HistoryHolds`, `OnceHolds`,
  `LeasesHold` follow, and the action properties `AwayHolds` and `ObligationsHold` from the same steps.
* `RelayClientProofs`. `RelayInv` is `RelayTypeOK`, `LockInv` (a thread that has drained frames holds the lock),
  `FreshInv` (nothing is queued before the seat) and `LineInv`: numbers rise along one line, from what has
  left over the sink, the queue and what a thread has drained to what the session has sealed. Threads
  meet on the line only through the lock; `OrderHolds` follows for any number of threads. `EndingsHold` is the
  safety half of `EndingsAreTold`: from the moment the session has its own ending until the subscriber is
  told, exactly one thread has it to tell, and nobody has it afterwards.

The assumptions are those the modules name (`BudgetAssumption`, `SelvagedAssumption`, ...): sizes are naturals,
windows are positive, sets of names do not overlap, lengths fit the width of an integer
(`FramesAssumption`), a room's token is over the model's characters and a key has two bytes
(`InvitesAssumption`), and for `FrameBudget` that the charge covers the rate. `NoRoomLeaks` and `PromiseKept`
have `ReplyMayNotFit = FALSE` as a hypothesis, which the command line enforces.

Where a proof needs an induction over data (the bytes of a varint, the tokens of a stream, the characters
of a name), it is written out over the set of the places it holds at: the library's theorems take
an operator as a parameter, which the provers cannot instantiate. The recursive definitions it is
about are functions, whose equations are proved first (`EncodeUnfolds`, `DecodeUnfolds` and their like).

Only model-checked: everything that rests on fairness (`PoisonEndsTheTask`, `DeadSessionsEnd`, `EmptyRoomsGo`,
`EveryoneIsCommitted`, `OwedRequestsGoOut`, `WaitingEnds`, `EndsInOrder`), which is out of the
prover's reach. Every invariant and every action property of the passing runs is a theorem.

## Findings

1. `rooms_stranger` - a newcomer ejected before its own `peer.joined` went out is announced after it
   was announced as left, and stays on rosters.
2. `relay_gone` - `RelayEvent::Ended` is said to tell an ending "by §13.10's rule or the relay's", but the
   relay's sets `RelayState::ending` before `report` looks, which then emits nothing. `EndingsAreTold` shows
   that the session's own endings are told.
3. `frames_late` - the frame count is said to be written at least once a renewal while it moves; a
   state published in mid-window makes the tick at its end skip, and the store is then behind for
   almost two. `CountNeverBehind` shows what is left of the promise: with a charge for two renewals and
   the hostless window, no return makes the budget longer. It is about the frames a host was handed: a
   frame under way, or one that the relay dropped, is in nobody's count, which the budget's margin is for
   (`peer/options.rs:67-70`: a client "that missed frames the relay dropped still stops well short of it").

Met while modelling, without a run of their own.

In the server:

* After a leave `drive` expects the writer to finish by itself (`net/mod.rs:368`, "this is the last one"),
  but the session still holds a sender: an idle writer is aborted after the two seconds of grace.
* A join whose reply does not fit advances the generation of an empty room and so outdates its timer,
  and `unseat` (`session.rs:309`) arms no other: the room stays for good. The command line refuses a queue that
  small; a `ServerConfig` built in code does not.
* A close frame is charged to the budget though a comment says it is not; a connection can be refused
  while a slot is free, between another refusal's `fetch_add` and its `fetch_sub`; a ping counts as missed
  from when it is queued; `select!` may serve one more frame of a peer that was removed.
* `page.rs` speaks of the seven characters of a content hash that has six.

In the client:

* A key that a state drops, whose mark the cap evicts, and that is committed again can have any of its
  frames read a second time; the comment (`sealed.rs:899`) bounds the cost to a replayed announcement.
* Varints longer than they need to be are accepted, so the bytes of a frame can be respelled without
  breaking its signature; what is read is the same envelope.
* A base given as `.../session/`, with a slash behind it, becomes `.../session/session`, which the server
  answers with a 404: the host is not seated, and no link is minted. An invite in the form of an `https`
  page is read as a `wss` address, which this client refuses to dial, saying why (`refuse_tls`).
* `renew_lease` and the reader do not look at the roster, so a frame that was relayed after its sender's
  `peer.left`, or one of a key labelled with another's seat, brings a hold back until the lease ends or
  another state or leaving is heard. `HoldsAreLeased` says so: what a departed key holds it said since.
* `RelaySession::host` and `join` say that `GET /meta` is read first (`relay.rs:256`, `:327`); nothing reads it.
* `delivered` does not look at `destroyed`, so an answer may be queued behind the Close of a disconnect, and a
  rename's text may be, with `Ok` for its caller: both are dropped with the queue.
* Events are emitted after the lock is released, so two threads' events may come in the other order.
* A closing overwrites an ending the session had before. `seat_joined` leaves the host-away clock armed
  until the next tick. A release of a path whose frame could not be sealed is not announced if a seat's
  joining has the held set announced next (`holds.rs:41`).
* A host that returns with its store starts from its own seat only, although its session was given the
  roster (`peer/options.rs`), so that its labels fall on its own seat, or on the few seats it sees join,
  where keys take turns. One whose first state cannot be sealed, again and again, saves nothing, and
  is charged once for all those returns.

## Not modelled

The configuration and command line (parsed once before anything runs; the constants are its values),
the JSON of messages and payloads and its limits (nesting, duplicate members, the length of a name), TLS and
the WebSocket framing, the accept loop's back-off, how a page's path is taken apart and the headers of
its answer, logging, and the harness. The widths of the budget's integers (u64, u128) are out of reach
of a real clock and rate. Display names' contents and tokens are abstracted to what the server compares. Of
the client: key derivation and the ciphers, the CRDT itself (a document is the set of its edits), declared
roles, a host told that its own seat left, and, in `PeerSession`, a seat announced as left before it is
announced as joined (Findings, 1; `Selvaged` has it).

## Plan

Done: the server (budget, queue, connections and their front, rooms and what they promise), and the
client (invites, frames and streams, the reader, the host's producer and its frame budget, a guest's
session, the relay around it).

Done, proofs: every invariant and action property of the passing runs, and the refinement of `RoomPromise`.

Next: `NoStrangers` with the one newcomer excepted that Findings describes: rosters hold nobody else who has
left, from `ToldInv` and `WordInv`.
