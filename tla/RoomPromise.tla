---------------------------- MODULE RoomPromise ----------------------------
(***************************************************************************)
(* What the server promises of its rooms (docs/the-server.md), without     *)
(* locks, queues, generations or timers: a room is minted by its first     *)
(* member, members come and go up to the two caps, and a room that its     *)
(* last member left is taken down after a grace period with nobody in it.  *)
(* Whoever enters meanwhile keeps the room, and the next time it empties a *)
(* grace period begins anew.                                               *)
(***************************************************************************)
EXTENDS Integers, FiniteSets

CONSTANTS Peers, Rooms, MaxRooms, MaxPeersPerRoom

VARIABLES
    open,       \* the rooms that can be joined
    used,       \* the room ids ever minted
    members,    \* room -> who is in it
    grace       \* the empty rooms whose grace period runs

vars == <<open, used, members, grace>>

Init ==
    /\ open = {} /\ used = {} /\ grace = {}
    /\ members = [r \in Rooms |-> {}]

InNoRoom(p) == \A r \in Rooms : p \notin members[r]

Mint(p, r) ==
    /\ InNoRoom(p) /\ r \notin used /\ Cardinality(open) < MaxRooms
    /\ open' = open \cup {r} /\ used' = used \cup {r}
    /\ members' = [members EXCEPT ![r] = {p}]
    /\ UNCHANGED grace

Enter(p, r) ==
    /\ InNoRoom(p) /\ r \in open /\ Cardinality(members[r]) < MaxPeersPerRoom
    /\ members' = [members EXCEPT ![r] = @ \cup {p}]
    /\ grace' = grace \ {r}
    /\ UNCHANGED <<open, used>>

Leave(p, r) ==
    /\ r \in open /\ p \in members[r]
    /\ members' = [members EXCEPT ![r] = @ \ {p}]
    /\ grace' = IF members[r] = {p} THEN grace \cup {r} ELSE grace
    /\ UNCHANGED <<open, used>>

\* The grace period of this very emptiness has passed.
TakeDown(r) ==
    /\ r \in open \cap grace
    /\ open' = open \ {r} /\ grace' = grace \ {r}
    /\ UNCHANGED <<used, members>>

Next ==
    \E r \in Rooms :
        TakeDown(r) \/ \E p \in Peers : Mint(p, r) \/ Enter(p, r) \/ Leave(p, r)

Spec == Init /\ [][Next]_vars

\* A grace period that nobody interrupts ends.
Fairness == \A r \in Rooms : WF_vars(TakeDown(r))
=============================================================================
