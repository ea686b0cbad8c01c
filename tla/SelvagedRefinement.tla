------------------------- MODULE SelvagedRefinement -------------------------
(* The server keeps the promise it makes of its rooms. *)
EXTENDS Selvaged

\* The grace period of an empty room runs while the timer of the generation that
\* it is at is pledged: asleep, or owed by the task that emptied the room.
Running ==
    {r \in Rooms : seats[r] = {}
                   /\ \E t \in Pledged : t.room = r /\ t.gen = gen[r]}

Promise == INSTANCE RoomPromise
           WITH open <- live, used <- minted, members <- seats, grace <- Running

\* Every step of a task, a timer or a client is a step of the abstract rooms or
\* changes nothing of them: a timer of an earlier emptiness never takes a room
\* down, and an emptiness never begins or ends unnoticed (detach,
\* reap_later_empty, reap_if_empty).
KeepsThePromise == Promise!Spec

\* A room left empty for a grace period is taken down: whatever sequence of
\* leaves, ejections and joins emptied it, its timer is not lost
\* (reap_later_empty).
EmptyRoomsGo == Promise!Fairness
=============================================================================
