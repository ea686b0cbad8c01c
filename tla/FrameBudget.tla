---------------------------- MODULE FrameBudget ----------------------------
(***************************************************************************)
(* The count of the frames sealed under a room's frame key, which the host *)
(* keeps for the life of the room (crates/client/src/host.rs:              *)
(* resumed_frames, count_frames, save_frames, flush_frames, commit_series; *)
(* peer/publish.rs: count_frame, budget_spent, close_room).                *)
(*                                                                         *)
(* The count is in memory, in a store that is written once a renewal, and  *)
(* behind by whatever was sealed while there was no host.  A return is     *)
(* charged a fixed number for that.  The host counts its own frames and    *)
(* those that it is handed: what the others sealed and the relay has not   *)
(* delivered, or has dropped, is in no count, and the budget leaves a      *)
(* margin for it (FRAME_BUDGET).  In a unit of time a host counts Rate     *)
(* frames at most, and without one the others seal Rate at most, for       *)
(* HostlessFor units, the peers' host-away window.                         *)
(***************************************************************************)
EXTENDS Integers

CONSTANTS
    FrameLimit,     \* frame_budget
    Charge,         \* ABSENCE_CHARGE
    SaveEvery,      \* renew: the window of a save, and the clock's period
    Rate,           \* frames counted, or sealed without a host, in a unit
    HostlessFor,    \* units for which the others seal on without a host
    MaxSealed       \* bound: frames sealed

ASSUME FrameAssumption ==
    /\ {FrameLimit, SaveEvery, Rate} \subseteq Nat \ {0}
    /\ {HostlessFor, MaxSealed} \subseteq Nat
    \* A charge covers what is sealed between a save and a return.
    /\ Charge \in Nat /\ Charge >= Rate * (2 * SaveEvery + HostlessFor)

VARIABLES
    producer,   \* the host's HostProducer and the end of its session
    store,      \* the PersistedHost's frames; NoCount in an old record
    sealed,     \* frames sealed under the frame key since the mint
    missed,     \* of which sealed under a host and not handed to one (yet)
    burst,      \* frames counted, or sealed without a host, in this unit
    sinceFlush, \* units since the driver ticked
    hostless,   \* units for which there was no host
    lag         \* history: units for which the store has been behind

frameVars ==
    <<producer, store, sealed, missed, burst, sinceFlush, hostless, lag>>

NoCount == -1
Unsaved == -1       \* saved_at: None
Current == -1       \* the store is not behind

\* Mutant of ResumedFrames: a return is not charged.
ResumedBare(saved) == IF saved = NoCount THEN FrameLimit ELSE saved

\* resumed_frames
ResumedFrames(saved) == IF saved = NoCount THEN FrameLimit ELSE saved + Charge

CountFrame(h) == [h EXCEPT !.frames = @ + 1]

\* save, at age: the store and the producer, written together.
Saved(h, age) == [h EXCEPT !.savedFrames = h.frames, !.savedAge = age]

\* save_frames
SaveFrames(h) == IF h.frames = h.savedFrames THEN h ELSE Saved(h, h.savedAge)

\* flush_frames
FlushFrames(h) ==
    IF h.frames = h.savedFrames \/ h.savedAge \in 0 .. SaveEvery - 1 THEN h
    ELSE Saved(h, 0)

\* closing, then what close_room and budget_spent do: the series is committed
\* before the frame is counted, so the count is saved after it.
Closed(h) == SaveFrames(CountFrame(Saved(h, h.savedAge)))

\* PeerSession::new over the record of a host that was here before, with the
\* state that it publishes at once unless the budget is spent.
Reloaded ==
    LET loaded == [up |-> TRUE, ended |-> FALSE, savedAge |-> Unsaved,
                   frames |-> ResumedFrames(store), savedFrames |-> store]
    IN  IF loaded.frames >= FrameLimit THEN loaded
        ELSE CountFrame(Saved(loaded, 0))

FrameInit ==
  /\ missed = 0
  /\ \/ \* A mint: the first state was committed at no frames and then sealed.
          /\ producer = [up |-> TRUE, ended |-> FALSE, frames |-> 1,
                         savedFrames |-> 0, savedAge |-> 0]
          /\ store = 0 /\ sealed = 1 /\ burst = 1
          /\ sinceFlush = SaveEvery /\ hostless = 0 /\ lag = 0
       \/ \* A host whose record says nothing of the count is about to return.
          /\ producer = [up |-> FALSE, ended |-> FALSE, frames |-> 0,
                         savedFrames |-> 0, savedAge |-> Unsaved]
          /\ store = NoCount /\ sealed \in 0 .. FrameLimit /\ burst = 0
          /\ sinceFlush = 0 /\ hostless = HostlessFor /\ lag = Current

\* The store, and how long it has been behind, after a step of the producer.
Kept ==
    /\ store' = IF producer'.savedFrames = producer.savedFrames THEN store
                ELSE producer'.savedFrames
    /\ lag' = IF producer'.frames = producer'.savedFrames THEN Current
              ELSE IF lag = Current \/ store' # store THEN 0 ELSE lag

Seal == /\ sealed < MaxSealed /\ burst < Rate
        /\ sealed' = sealed + 1 /\ burst' = burst + 1
Serving == producer.up /\ ~producer.ended

\* Another connection seals a frame.  Under a host it is under way, or dropped,
\* until a host is handed it; without one it is what a return is charged for.
PeerSeals ==
    /\ \/ /\ producer.up /\ sealed < MaxSealed
          /\ sealed' = sealed + 1 /\ missed' = missed + 1
          /\ UNCHANGED burst
       \/ /\ ~producer.up /\ hostless < HostlessFor
          /\ Seal /\ UNCHANGED missed
    /\ UNCHANGED <<producer, store, lag, sinceFlush, hostless>>

\* deliver counts a frame before it is read: one that was missed so far, or one
\* that was sealed in an absence, comes again or was never sealed in this room
\* (bound: of these, none once the budget is spent).
Delivers ==
    /\ Serving /\ burst < Rate
    /\ \/ missed > 0 /\ missed' = missed - 1
       \/ producer.frames < FrameLimit /\ UNCHANGED missed
    /\ burst' = burst + 1
    /\ producer' = CountFrame(producer) /\ Kept
    /\ UNCHANGED <<sealed, sinceFlush, hostless>>

\* publish: the session's own frames, while the budget lasts.
HostSeals ==
    /\ Serving /\ producer.frames < FrameLimit /\ Seal
    /\ producer' = CountFrame(producer) /\ Kept
    /\ UNCHANGED <<missed, sinceFlush, hostless>>

\* publish_state: a fresh state is committed to the store, and then counted.
HostStates ==
    /\ Serving /\ producer.frames < FrameLimit /\ Seal
    /\ producer' = CountFrame(Saved(producer, 0)) /\ Kept
    /\ UNCHANGED <<missed, sinceFlush, hostless>>

\* close_room
CloseRoom ==
    /\ Serving /\ Seal
    /\ producer' = [Closed(producer) EXCEPT !.ended = TRUE] /\ Kept
    /\ UNCHANGED <<missed, sinceFlush, hostless>>

\* tick, at the seating and then once a renewal: flush_frames, then budget_spent,
\* whose closing may not be sealed.
FrameTick ==
    /\ Serving /\ sinceFlush = SaveEvery
    /\ LET flushed == FlushFrames(producer)
       IN  \/ /\ flushed.frames < FrameLimit
              /\ producer' = flushed
              /\ UNCHANGED <<sealed, burst>>
           \/ /\ flushed.frames >= FrameLimit
              /\ \/ Seal /\ producer' = [Closed(flushed) EXCEPT !.ended = TRUE]
                 \/ /\ producer' = [SaveFrames(flushed) EXCEPT !.ended = TRUE]
                    /\ UNCHANGED <<sealed, burst>>
    /\ Kept
    /\ sinceFlush' = 0
    /\ UNCHANGED <<missed, hostless>>

\* The host's process dies, whatever it was doing.
HostDies ==
    /\ producer.up
    /\ producer' = [producer EXCEPT !.up = FALSE]
    /\ hostless' = 0
    /\ UNCHANGED <<store, sealed, missed, burst, sinceFlush, lag>>

\* A reload; a room whose count was spent is over.
HostReturns ==
    /\ ~producer.up /\ store < FrameLimit
    /\ producer' = Reloaded
    /\ IF ResumedFrames(store) >= FrameLimit THEN UNCHANGED <<sealed, burst>>
       ELSE Seal
    /\ store' = producer'.savedFrames
    /\ sinceFlush' = SaveEvery
    /\ lag' = 0
    /\ UNCHANGED <<missed, hostless>>

\* A unit of time.  The clock ticks once a renewal while a session lives.
FramesPass ==
    /\ Serving => sinceFlush < SaveEvery
    /\ burst' = 0
    /\ sinceFlush' = IF Serving THEN sinceFlush + 1 ELSE 0
    /\ hostless' = IF producer.up \/ hostless = HostlessFor THEN hostless
                   ELSE hostless + 1
    /\ producer' = [producer EXCEPT
          !.savedAge = IF @ \in {Unsaved, SaveEvery} THEN @ ELSE @ + 1]
    /\ lag' = IF lag = Current \/ ~Serving \/ lag > SaveEvery THEN lag
              ELSE lag + 1
    /\ UNCHANGED <<store, sealed, missed>>

FrameNext ==
    \/ PeerSeals \/ Delivers \/ HostSeals \/ HostStates \/ CloseRoom \/ FrameTick
    \/ HostDies \/ HostReturns \/ FramesPass

FrameSpec == FrameInit /\ [][FrameNext]_frameVars

----------------------------------------------------------------------------
\* A host that has budget left has counted every frame that the room sealed,
\* but those that the relay has under way or dropped while a host was there:
\* whatever deaths lost of the count, however often, and whatever was sealed in
\* an absence is in it, so no return makes the budget longer (flush_frames,
\* resumed_frames, and the state that a return commits before anything else).
CountNeverBehind ==
    producer.up /\ producer.frames < FrameLimit =>
        sealed <= producer.frames + missed

\* host.rs, flush_frames: "the count is written at least once every
\* awareness_renew_ms while it moves, so a host that dies loses at most one
\* renewal interval of it."
LosesOneRenewal == Serving => lag <= SaveEvery
=============================================================================
