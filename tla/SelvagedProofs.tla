--------------------------- MODULE SelvagedProofs ---------------------------
(***************************************************************************)
(* What the registry promises about seats and grace periods, for any       *)
(* number of rooms and connections, any caps and any behaviour of the      *)
(* clients.  The argument never looks inside a frame, a queue or a         *)
(* delivery in progress: only where a task is and what it returns to.      *)
(*                                                                         *)
(* First the seats: whoever sits in a room is served.  Then the grace      *)
(* period: a room is only taken down by a timer armed when it emptied with *)
(* nobody seated since, and as long as every reply fits its queue a room   *)
(* that holds nobody always has such a timer, with which the server        *)
(* implements the abstract rooms of RoomPromise.                           *)
(***************************************************************************)
EXTENDS SelvagedRefinement, TLAPS

\* Where `deliver` may return to.
Returns == {"pump", "remove", "removed", "left"}

\* The inductive invariant for seats: besides the property itself, a room that
\* is not in the registry seats nobody and a newcomer has not been poisoned.
SeatInv ==
    /\ TypeOK
    /\ SeatsAreServed
    /\ \A r \in Rooms \ live : seats[r] = {}
    /\ \A p \in Peers : at[p] = "apply" => p \notin poisoned

LEMMA SeatedDef ==
    ASSUME NEW x PROVE x \in Seated <=> \E r \in live : x \in seats[r]
  BY DEF Seated

\* A peer that is waiting to be seated, has been removed or is done sits nowhere.
LEMMA Unseated ==
    ASSUME SeatInv, NEW p \in Peers,
           \/ at[p] \in {"apply", "removed", "left", "done"}
           \/ at[p] \in Delivering /\ after[p] \in {"removed", "left"}
    PROVE  \A r \in Rooms : p \notin seats[r]
  BY DEF SeatInv, SeatsAreServed, TypeOK

\* A peer sits only in the room its session names.
LEMMA SitsInItsRoom ==
    ASSUME SeatInv, NEW p \in Peers, NEW r \in roomOf[p],
           ~(r \in live /\ p \in seats[r])
    PROVE  \A x \in Rooms : p \notin seats[x]
  BY DEF SeatInv, SeatsAreServed, TypeOK

\* Every step of `deliver` leaves its task at one of four places.
LEMMA ProceedPlaces ==
    ASSUME NEW p \in Peers, NEW j, Proceed(p, j)
    PROVE  \E x \in {"send", "eject", "pop", after[p]} :
             at' = [at EXCEPT ![p] = x]
  BY DEF Proceed

\* A step that only moves task p along: the registry, its room and its poison
\* stay as they are.
LEMMA MovesKeepSeats ==
    ASSUME SeatInv, NEW p \in Peers, NEW x \in Places \ {"apply"},
           NEW y \in Returns,
           UNCHANGED <<live, seats, gen, arrivals, tasks, minted, roomOf,
                       poisoned, due, timers>>,
           names' \in [Peers -> Nat], closed' \subseteq Peers,
           at' = [at EXCEPT ![p] = x], after' = [after EXCEPT ![p] = y],
           (\A r \in Rooms : p \notin seats[r])
             \/ /\ x \notin {"removed", "left", "done"}
                /\ x \in Delivering => y \notin {"removed", "left"}
    PROVE  SeatInv'
<1>1. TypeOK'
  BY DEF SeatInv, TypeOK, Returns
<1>2. SeatsAreServed'
  BY <1>1 DEF SeatInv, SeatsAreServed, Seated, TypeOK, Delivering
<1> QED
  BY <1>1, <1>2 DEF SeatInv, TypeOK

\* A step that leaves all of that alone.
LEMMA IdleKeepsSeats ==
    ASSUME SeatInv,
           UNCHANGED <<live, seats, names, gen, arrivals, tasks, minted, roomOf,
                       at, after, due, poisoned, timers>>,
           closed' \subseteq Peers
    PROVE  SeatInv'
<1>1. TypeOK'
  BY DEF SeatInv, TypeOK
<1>2. Seated' = Seated
  BY DEF Seated
<1> QED
  BY <1>1, <1>2 DEF SeatInv, SeatsAreServed

\* A step of `deliver` that touches nothing but its own locals and queues.
LEMMA ProceedKeepsSeats ==
    ASSUME SeatInv, NEW p \in Peers, NEW j, at[p] \in Delivering, Proceed(p, j),
           UNCHANGED <<registry, roomOf, after, due, closed, poisoned, timers>>
    PROVE  SeatInv'
<1>1. PICK x \in {"send", "eject", "pop", after[p]} : at' = [at EXCEPT ![p] = x]
  BY ProceedPlaces
<1>2. after[p] \in Returns /\ names' \in [Peers -> Nat] /\ closed' \subseteq Peers
  BY DEF SeatInv, TypeOK, Returns, registry
<1>3. x \in Places \ {"apply"}
  BY <1>2 DEF Places, Returns
<1>4. after' = [after EXCEPT ![p] = after[p]]
  BY DEF SeatInv, TypeOK
<1>5. (\A r \in Rooms : p \notin seats[r])
        \/ /\ x \notin {"removed", "left", "done"}
           /\ x \in Delivering => after[p] \notin {"removed", "left"}
  BY <1>1, <1>2, Unseated DEF Returns, Delivering
<1>6. UNCHANGED <<live, seats, gen, arrivals, tasks, minted, roomOf,
                  poisoned, due, timers>>
  BY DEF registry
<1> QED
  BY <1>1, <1>2, <1>3, <1>4, <1>5, <1>6, MovesKeepSeats

\* A task at the turn loop that starts handling a frame, or stops.
LEMMA PumpKeepsSeats ==
    ASSUME SeatInv, NEW p \in Peers, at[p] = "pump",
           NEW x \in {"pump", "pop", "remove", "leave"},
           NEW y \in {"pump", "remove"},
           UNCHANGED <<live, seats, gen, arrivals, tasks, minted, roomOf,
                       poisoned, due, timers>>,
           names' \in [Peers -> Nat], closed' \subseteq Peers,
           at' = [at EXCEPT ![p] = x],
           after' = [after EXCEPT ![p] = y] \/ (after' = after /\ x # "pop")
    PROVE  SeatInv'
<1>1. x \in Places \ {"apply"} /\ x \notin {"removed", "left", "done"}
  BY DEF Places
<1>2. CASE after' = [after EXCEPT ![p] = y]
  BY <1>1, <1>2, MovesKeepSeats DEF Returns
<1>3. CASE after' = after /\ x # "pop"
  <2>1. after' = [after EXCEPT ![p] = after[p]] /\ after[p] \in Returns
    BY <1>3 DEF SeatInv, TypeOK, Returns
  <2>2. x \notin Delivering
    BY <1>3 DEF Delivering
  <2> QED
    BY <1>1, <2>1, <2>2, MovesKeepSeats
<1> QED
  BY <1>2, <1>3

----------------------------------------------------------------------------
\* What detaching a seated peer q does to the seats, whoever does it: nobody
\* else is affected, and q's poison sender is out of the registry.
LEMMA DetachSeats ==
    ASSUME SeatInv, NEW r \in live, NEW q \in seats[r], Detach(r, q)
    PROVE  /\ r \in Rooms /\ q \in Peers
           /\ live' = live /\ names' = names
           /\ minted' = minted /\ arrivals' = arrivals
           /\ seats' = [seats EXCEPT ![r] = seats[r] \ {q}]
           /\ gen' = [gen EXCEPT ![r] = gen[r] + 1]
           /\ seats' \in [Rooms -> SUBSET Peers]
           /\ gen' \in [Rooms -> Nat]
           /\ \A x \in Rooms : q \notin seats'[x] /\ seats'[x] \subseteq seats[x]
           /\ \A z \in Seated' : z \in Seated /\ z # q
           /\ tasks' = Seated'
           /\ \A x \in Rooms \ live : seats'[x] = {}
<1>1. r \in Rooms /\ q \in Peers
  BY DEF SeatInv, TypeOK
<1>2. /\ live' = live /\ names' = names
      /\ minted' = minted /\ arrivals' = arrivals
      /\ seats' = [seats EXCEPT ![r] = seats[r] \ {q}]
      /\ gen' = [gen EXCEPT ![r] = gen[r] + 1]
      /\ tasks' = tasks \ {q}
  BY DEF Detach
<1>3. seats' \in [Rooms -> SUBSET Peers] /\ gen' \in [Rooms -> Nat]
  BY <1>1, <1>2 DEF SeatInv, TypeOK
<1>4. \A x \in Rooms : seats'[x] = IF x = r THEN seats[r] \ {q} ELSE seats[x]
  BY <1>1, <1>2 DEF SeatInv, TypeOK
<1>5. \A x \in Rooms : x # r => q \notin seats[x]
  <2> SUFFICES ASSUME NEW x \in Rooms, x # r, q \in seats[x] PROVE FALSE
    OBVIOUS
  <2>1. x \in live
    BY DEF SeatInv
  <2>2. roomOf[q] = {x} /\ roomOf[q] = {r}
    BY <2>1 DEF SeatInv, SeatsAreServed
  <2> QED
    BY <2>2
<1>6. \A x \in Rooms : q \notin seats'[x] /\ seats'[x] \subseteq seats[x]
  BY <1>4, <1>5
<1>7. live \subseteq Rooms
  BY DEF SeatInv, TypeOK
<1>8. \A z : z \in Seated' <=> z \in Seated /\ z # q
  <2> TAKE z
  <2>1. z \in Seated <=> \E x \in live : z \in seats[x]
    BY SeatedDef
  <2>2. z \in Seated' <=> \E x \in live : z \in seats'[x]
    BY <1>2 DEF Seated
  <2> QED
    BY <2>1, <2>2, <1>4, <1>5, <1>7
<1>9. tasks' = Seated'
  BY <1>2, <1>8 DEF SeatInv, SeatsAreServed
<1>10. \A x \in Rooms \ live : seats'[x] = {}
  BY <1>6 DEF SeatInv
<1> QED
  BY <1>1, <1>2, <1>3, <1>6, <1>8, <1>9, <1>10

LEMMA EjectKeepsSeats ==
    ASSUME SeatInv, NEW p \in Peers, Eject(p)
    PROVE  SeatInv'
<1>1. PICK q \in job[p].slow, r \in roomOf[p] :
        \/ /\ r \in live /\ q \in seats[r]
           /\ Detach(r, q)
           /\ timers' = timers \cup Owed(r, q)
           /\ poisoned' = poisoned \cup {q}
           /\ Proceed(p, Ejected(p, q))
           /\ closed' = closed
        \/ /\ Proceed(p, AlreadyGone(p, q))
           /\ UNCHANGED <<registry, wires, timers>>
  BY DEF Eject
<1>2. at[p] = "eject" /\ UNCHANGED <<roomOf, after, due>>
  BY DEF Eject
<1>3. CASE /\ Proceed(p, AlreadyGone(p, q))
           /\ UNCHANGED <<registry, wires, timers>>
  BY <1>2, <1>3, ProceedKeepsSeats DEF wires, Delivering
<1>4. CASE /\ r \in live /\ q \in seats[r]
           /\ Detach(r, q)
           /\ timers' = timers \cup Owed(r, q)
           /\ poisoned' = poisoned \cup {q}
           /\ Proceed(p, Ejected(p, q))
           /\ closed' = closed
  <2>1. /\ r \in Rooms /\ q \in Peers
        /\ live' = live /\ names' = names
        /\ minted' = minted /\ arrivals' = arrivals
        /\ seats' \in [Rooms -> SUBSET Peers]
        /\ gen' \in [Rooms -> Nat]
        /\ \A x \in Rooms : q \notin seats'[x] /\ seats'[x] \subseteq seats[x]
        /\ tasks' = Seated'
        /\ \A x \in Rooms \ live : seats'[x] = {}
    BY <1>4, DetachSeats
  <2>2. PICK x \in {"send", "eject", "pop", after[p]} :
          at' = [at EXCEPT ![p] = x]
    BY <1>4, ProceedPlaces
  <2>3. after[p] \in Returns /\ x \in Places \ {"apply", "done"}
    BY DEF SeatInv, TypeOK, Returns, Places
  <2>4. Owed(r, q) \subseteq [room : Rooms, gen : Nat, arr : Nat]
    BY <2>1 DEF Owed, Timer, SeatInv, TypeOK
  <2>5. tasks' \subseteq Peers
    BY <2>1 DEF Seated, SeatInv, TypeOK
  <2>6. TypeOK'
    BY <1>2, <1>4, <2>1, <2>2, <2>3, <2>4, <2>5 DEF SeatInv, TypeOK
  <2>7. ASSUME NEW y \in live', NEW z \in seats'[y]
        PROVE  /\ roomOf'[z] = {y}
               /\ z \notin poisoned'
               /\ at'[z] \notin {"apply", "removed", "left", "done"}
               /\ at'[z] \in Delivering => after'[z] \notin {"removed", "left"}
    <3>1. y \in live /\ y \in Rooms /\ z \in seats[y] /\ z # q /\ z \in Peers
      BY <2>1, <2>7 DEF SeatInv, TypeOK
    <3>2. /\ roomOf[z] = {y}
          /\ z \notin poisoned
          /\ at[z] \notin {"apply", "removed", "left", "done"}
          /\ at[z] \in Delivering => after[z] \notin {"removed", "left"}
      BY <3>1 DEF SeatInv, SeatsAreServed
    <3>3. CASE z = p
      <4>1. after[p] \notin {"removed", "left"}
        BY <3>2, <3>3, <1>2 DEF Delivering
      <4>2. at'[p] = x
        BY <2>2 DEF SeatInv, TypeOK
      <4> QED
        BY <3>1, <3>2, <3>3, <4>1, <4>2, <1>2, <1>4, <2>2, <2>3
        DEF Returns
    <3>4. CASE z # p
      BY <3>1, <3>2, <3>4, <1>2, <1>4, <2>2 DEF SeatInv, TypeOK
    <3> QED
      BY <3>3, <3>4
  <2>8. SeatsAreServed'
    BY <2>1, <2>7 DEF SeatsAreServed
  <2>9. \A z \in Peers : at'[z] = "apply" => z \notin poisoned'
    <3> SUFFICES ASSUME NEW z \in Peers, at'[z] = "apply" PROVE z \notin poisoned'
      OBVIOUS
    <3>1. at[z] = "apply" /\ z \notin poisoned
      BY <2>2, <2>3 DEF SeatInv, TypeOK
    <3>2. z # q
      BY <3>1, <1>4 DEF SeatInv, SeatsAreServed
    <3> QED
      BY <3>1, <3>2, <1>4
  <2> QED
    BY <2>1, <2>6, <2>8, <2>9 DEF SeatInv
<1> QED
  BY <1>1, <1>3, <1>4

\* A task that ends sits nowhere, so nothing the property speaks of changes.
LEMMA OverKeepsSeats ==
    ASSUME SeatInv, NEW p \in Peers, Over(p),
           \A r \in Rooms : p \notin seats[r],
           UNCHANGED <<live, seats, names, tasks, minted, after>>,
           gen' \in [Rooms -> Nat], arrivals' \in [Rooms -> Nat],
           due' \in [Peers -> SUBSET [room : Rooms, gen : Nat, arr : Nat]],
           timers' \subseteq [room : Rooms, gen : Nat, arr : Nat]
    PROVE  SeatInv'
<1>1. /\ at' = [at EXCEPT ![p] = "done"]
      /\ roomOf' = [roomOf EXCEPT ![p] = {}]
      /\ poisoned' = poisoned \cup {p}
      /\ closed' = closed \cup {p}
  BY DEF Over, Unplug
<1>2. TypeOK'
  <2>1. at' \in [Peers -> Places]
    BY <1>1 DEF SeatInv, TypeOK, Places
  <2>2. /\ roomOf' \in [Peers -> SUBSET Rooms]
        /\ \A z \in Peers : roomOf'[z] = {} \/ \E r \in Rooms : roomOf'[z] = {r}
    BY <1>1 DEF SeatInv, TypeOK
  <2> QED
    BY <1>1, <2>1, <2>2 DEF SeatInv, TypeOK
<1>3. SeatsAreServed'
  <2>1. tasks' = Seated'
    BY DEF SeatInv, SeatsAreServed, Seated
  <2>2. ASSUME NEW y \in live', NEW z \in seats'[y]
        PROVE  /\ roomOf'[z] = {y}
               /\ z \notin poisoned'
               /\ at'[z] \notin {"apply", "removed", "left", "done"}
               /\ at'[z] \in Delivering => after'[z] \notin {"removed", "left"}
    <3>1. y \in live /\ y \in Rooms /\ z \in seats[y] /\ z # p /\ z \in Peers
      BY <2>2 DEF SeatInv, TypeOK
    <3> QED
      BY <3>1, <1>1 DEF SeatInv, SeatsAreServed, TypeOK
  <2> QED
    BY <2>1, <2>2 DEF SeatsAreServed
<1>4. \A z \in Peers : at'[z] = "apply" => z \notin poisoned'
  BY <1>1 DEF SeatInv, TypeOK
<1> QED
  BY <1>2, <1>3, <1>4 DEF SeatInv

LEMMA RemovePeerKeepsSeats ==
    ASSUME SeatInv, NEW p \in Peers, RemovePeer(p)
    PROVE  SeatInv'
<1>1. at[p] \in {"remove", "leave"} /\ timers' = timers
  BY DEF RemovePeer
<1>2. PICK r \in roomOf[p] :
        \/ /\ r \in live /\ p \in seats[r]
           /\ Detach(r, p)
           /\ due' = [due EXCEPT ![p] = Owed(r, p)]
           /\ Deliver(p, {}, Left(p),
                      IF at[p] = "leave" THEN "left" ELSE "removed")
           /\ UNCHANGED <<roomOf, wires>>
        \/ /\ ~(r \in live /\ p \in seats[r])
           /\ \/ Over(p)
              \/ /\ at[p] = "remove"
                 /\ at' = [at EXCEPT ![p] = "pump"]
                 /\ UNCHANGED <<roomOf, wires>>
           /\ UNCHANGED <<registry, after, job, due>>
  BY DEF RemovePeer
<1>3. CASE /\ ~(r \in live /\ p \in seats[r])
           /\ \/ Over(p)
              \/ /\ at[p] = "remove"
                 /\ at' = [at EXCEPT ![p] = "pump"]
                 /\ UNCHANGED <<roomOf, wires>>
           /\ UNCHANGED <<registry, after, job, due>>
  <2>1. \A x \in Rooms : p \notin seats[x]
    BY <1>3, SitsInItsRoom
  <2>2. CASE Over(p)
    BY <1>1, <1>3, <2>1, <2>2, OverKeepsSeats DEF registry, SeatInv, TypeOK
  <2>3. CASE /\ at' = [at EXCEPT ![p] = "pump"]
             /\ UNCHANGED <<roomOf, wires>>
    <3>1. "pump" \in Places \ {"apply"} /\ after[p] \in Returns
      BY DEF Places, SeatInv, TypeOK, Returns
    <3>2. after' = [after EXCEPT ![p] = after[p]]
      BY <1>3 DEF SeatInv, TypeOK
    <3> QED
      BY <1>1, <1>3, <2>1, <2>3, <3>1, <3>2, MovesKeepSeats
      DEF registry, wires, SeatInv, TypeOK
  <2> QED
    BY <1>3, <2>2, <2>3
<1>4. CASE /\ r \in live /\ p \in seats[r]
           /\ Detach(r, p)
           /\ due' = [due EXCEPT ![p] = Owed(r, p)]
           /\ Deliver(p, {}, Left(p),
                      IF at[p] = "leave" THEN "left" ELSE "removed")
           /\ UNCHANGED <<roomOf, wires>>
  <2>1. /\ r \in Rooms
        /\ live' = live /\ names' = names
        /\ minted' = minted /\ arrivals' = arrivals
        /\ seats' \in [Rooms -> SUBSET Peers]
        /\ gen' \in [Rooms -> Nat]
        /\ \A x \in Rooms : p \notin seats'[x] /\ seats'[x] \subseteq seats[x]
        /\ tasks' = Seated'
        /\ \A x \in Rooms \ live : seats'[x] = {}
    BY <1>4, DetachSeats
  <2>2. PICK y \in {"left", "removed"} :
          at' = [at EXCEPT ![p] = "pop"] /\ after' = [after EXCEPT ![p] = y]
    BY <1>4 DEF Deliver
  <2>3. Owed(r, p) \subseteq [room : Rooms, gen : Nat, arr : Nat]
    BY <2>1 DEF Owed, Timer, SeatInv, TypeOK
  <2>4. closed' = closed /\ poisoned' = poisoned /\ roomOf' = roomOf
    BY <1>4 DEF wires
  <2>5. tasks' \subseteq Peers
    BY <2>1 DEF Seated, SeatInv, TypeOK
  <2>6. /\ at' \in [Peers -> Places]
        /\ after' \in [Peers -> {"pump", "remove", "removed", "left"}]
        /\ due' \in [Peers -> SUBSET [room : Rooms, gen : Nat, arr : Nat]]
    BY <1>4, <2>2, <2>3 DEF SeatInv, TypeOK, Places
  <2>7. TypeOK'
    BY <1>1, <2>1, <2>4, <2>5, <2>6 DEF SeatInv, TypeOK
  <2>8. SeatsAreServed'
    BY <2>1, <2>2, <2>4 DEF SeatInv, SeatsAreServed, TypeOK
  <2> QED
    BY <2>1, <2>2, <2>4, <2>7, <2>8 DEF SeatInv, TypeOK
<1> QED
  BY <1>2, <1>3, <1>4

LEMMA SettleKeepsSeats ==
    ASSUME SeatInv, NEW p \in Peers, Settle(p)
    PROVE  SeatInv'
<1>1. /\ at[p] \in {"removed", "left"}
      /\ timers' = timers \cup due[p]
      /\ due' = [due EXCEPT ![p] = {}]
      /\ UNCHANGED <<registry, after>>
  BY DEF Settle
<1>2. \A r \in Rooms : p \notin seats[r]
  BY <1>1, Unseated
<1>3. /\ timers' \subseteq [room : Rooms, gen : Nat, arr : Nat]
      /\ due' \in [Peers -> SUBSET [room : Rooms, gen : Nat, arr : Nat]]
  BY <1>1 DEF SeatInv, TypeOK
<1>4. CASE Over(p)
  BY <1>1, <1>2, <1>3, <1>4, OverKeepsSeats DEF registry, SeatInv, TypeOK
<1>5. CASE /\ at' = [at EXCEPT ![p] = "pump"]
           /\ poisoned' = poisoned \cup {p}
           /\ UNCHANGED <<roomOf, closed>>
  <2>1. TypeOK'
    BY <1>1, <1>3, <1>5 DEF registry, SeatInv, TypeOK, Places
  <2>2. SeatsAreServed'
    BY <1>1, <1>2, <1>5 DEF registry, SeatInv, SeatsAreServed, Seated, TypeOK,
                            Delivering
  <2> QED
    BY <1>1, <1>5, <2>1, <2>2 DEF registry, SeatInv, TypeOK
<1> QED
  BY <1>4, <1>5 DEF Settle

----------------------------------------------------------------------------
\* Seating a newcomer in a room that is in the registry once it is seated.
LEMMA SeatKeepsSeats ==
    ASSUME SeatInv, NEW p \in Peers, NEW r \in Rooms, at[p] = "apply", Seat(p, r),
           live' = live \cup {r}, minted' = minted \cup {r},
           NEW x \in {"pump", "pop"},
           at' = [at EXCEPT ![p] = x],
           after' = after \/ after' = [after EXCEPT ![p] = "pump"],
           x = "pop" => after' = [after EXCEPT ![p] = "pump"],
           UNCHANGED <<names, gen, due, closed, poisoned, timers>>
    PROVE  SeatInv'
<1>1. /\ seats' = [seats EXCEPT ![r] = seats[r] \cup {p}]
      /\ arrivals' = [arrivals EXCEPT ![r] = arrivals[r] + 1]
      /\ tasks' = tasks \cup {p}
      /\ roomOf' = [roomOf EXCEPT ![p] = {r}]
  BY DEF Seat
<1>2. \A y \in Rooms : p \notin seats[y]
  BY Unseated
<1>3. p \notin poisoned
  BY DEF SeatInv
<1>4. TypeOK'
  <2>1. /\ at' \in [Peers -> Places]
        /\ after' \in [Peers -> {"pump", "remove", "removed", "left"}]
        /\ seats' \in [Rooms -> SUBSET Peers]
        /\ arrivals' \in [Rooms -> Nat]
    BY <1>1 DEF SeatInv, TypeOK, Places
  <2>2. /\ roomOf' \in [Peers -> SUBSET Rooms]
        /\ \A z \in Peers : roomOf'[z] = {} \/ \E y \in Rooms : roomOf'[z] = {y}
    BY <1>1 DEF SeatInv, TypeOK
  <2> QED
    BY <1>1, <2>1, <2>2 DEF SeatInv, TypeOK
<1>5. live \subseteq Rooms /\ \A y \in Rooms \ live : seats[y] = {}
  BY DEF SeatInv, TypeOK
<1>6. \A y \in Rooms : seats'[y] = IF y = r THEN seats[r] \cup {p} ELSE seats[y]
  BY <1>1 DEF SeatInv, TypeOK
<1>7. tasks' = Seated'
  <2>1. \A z : z \in Seated' <=> z \in Seated \/ z = p
    <3> TAKE z
    <3>1. z \in Seated <=> \E y \in live : z \in seats[y]
      BY SeatedDef
    <3>2. z \in Seated' <=> \E y \in live \cup {r} : z \in seats'[y]
      BY DEF Seated
    <3> QED
      BY <3>1, <3>2, <1>5, <1>6
  <2> QED
    BY <2>1, <1>1 DEF SeatInv, SeatsAreServed
<1>8. ASSUME NEW y \in live', NEW z \in seats'[y]
      PROVE  /\ roomOf'[z] = {y}
             /\ z \notin poisoned'
             /\ at'[z] \notin {"apply", "removed", "left", "done"}
             /\ at'[z] \in Delivering => after'[z] \notin {"removed", "left"}
  <2>1. y \in Rooms
    BY <1>5
  <2>2. CASE z = p
    <3>1. y = r
      BY <2>1, <2>2, <1>2, <1>6, <1>8
    <3>2. roomOf'[p] = {r} /\ at'[p] = x
      BY <1>1 DEF SeatInv, TypeOK
    <3>3. x \in Delivering => after'[p] = "pump"
      BY DEF SeatInv, TypeOK, Delivering
    <3> QED
      BY <2>2, <3>1, <3>2, <3>3, <1>3
  <2>3. CASE z # p
    <3>1. z \in seats[y] /\ y \in live /\ z \in Peers
      BY <2>1, <2>3, <1>5, <1>6, <1>8 DEF SeatInv, TypeOK
    <3>2. roomOf'[z] = roomOf[z] /\ at'[z] = at[z] /\ after'[z] = after[z]
      BY <1>1, <2>3, <3>1 DEF SeatInv, TypeOK
    <3> QED
      BY <3>1, <3>2 DEF SeatInv, SeatsAreServed
  <2> QED
    BY <2>2, <2>3
<1>9. SeatsAreServed'
  BY <1>7, <1>8 DEF SeatsAreServed
<1>10. \A y \in Rooms \ live' : seats'[y] = {}
  BY <1>5, <1>6
<1>11. \A z \in Peers : at'[z] = "apply" => z \notin poisoned'
  BY DEF SeatInv, TypeOK
<1> QED
  BY <1>4, <1>9, <1>10, <1>11 DEF SeatInv

LEMMA ApplyKeepsSeats ==
    ASSUME SeatInv, NEW p \in Peers, Apply(p)
    PROVE  SeatInv'
<1>1. CASE Mint(p)
  <2>1. PICK r \in Rooms : /\ live' = live \cup {r}
                           /\ minted' = minted \cup {r}
                           /\ Seat(p, r)
    BY <1>1 DEF Mint
  <2> QED
    BY <1>1, <2>1, SeatKeepsSeats DEF Mint
<1>2. ASSUME NEW r \in Rooms, Join(p, r) PROVE SeatInv'
  <2>1. live' = live \cup {r} /\ minted' = minted \cup {r}
    BY <1>2 DEF Join, SeatInv, TypeOK
  <2> QED
    BY <1>2, <2>1, SeatKeepsSeats DEF Join, Deliver
<1>3. ASSUME at[p] = "apply", Over(p), UNCHANGED <<registry, after, due, timers>>
      PROVE  SeatInv'
  BY <1>3, Unseated, OverKeepsSeats DEF registry, SeatInv, TypeOK
<1>4. ASSUME NEW r \in Rooms, JoinUnfit(p, r) PROVE SeatInv'
  <2>1. at[p] = "apply" /\ Over(p)
    BY <1>4 DEF JoinUnfit
  <2>2. gen' \in [Rooms -> Nat] /\ arrivals' \in [Rooms -> Nat]
    BY <1>4 DEF JoinUnfit, SeatInv, TypeOK
  <2> QED
    BY <1>4, <2>1, <2>2, Unseated, OverKeepsSeats DEF JoinUnfit, SeatInv, TypeOK
<1> QED
  BY <1>1, <1>2, <1>3, <1>4 DEF Apply, RefuseMint, RefuseJoin

LEMMA TimerKeepsSeats ==
    ASSUME SeatInv, TimerFires
    PROVE  SeatInv'
<1>1. PICK t \in timers :
        /\ timers' = timers \ {t}
        /\ live' = IF Reaps(t) THEN live \ {t.room} ELSE live
        /\ UNCHANGED <<seats, names, gen, arrivals, tasks, minted, running, wires>>
  BY DEF TimerFires
<1>2. /\ live' \subseteq live
      /\ \A r \in live \ live' : seats[r] = {}
      /\ seats' = seats
  BY <1>1 DEF Reaps
<1>3. TypeOK'
  BY <1>1, <1>2 DEF SeatInv, TypeOK, running, wires
<1>4. Seated' = Seated
  BY <1>2 DEF Seated
<1>5. SeatsAreServed'
  BY <1>1, <1>2, <1>4 DEF SeatInv, SeatsAreServed, running, wires
<1> QED
  BY <1>1, <1>2, <1>3, <1>5 DEF SeatInv, running, wires

LEMMA SeatStep == SeatInv /\ [Next]_vars => SeatInv'
<1> SUFFICES ASSUME SeatInv, [Next]_vars PROVE SeatInv'
  OBVIOUS
<1>1. ASSUME NEW p \in Peers, Pop(p) PROVE SeatInv'
  BY <1>1, ProceedKeepsSeats DEF Pop, Delivering, wires
<1>2. ASSUME NEW p \in Peers, Send(p) PROVE SeatInv'
  <2>1. at[p] = "send" /\ at[p] \in Delivering
    BY <1>2 DEF Send, Delivering
  <2>2. UNCHANGED <<registry, roomOf, after, due, closed, poisoned, timers>>
    BY <1>2 DEF Send
  <2>3. PICK t \in job[p].targets : Proceed(p, Offered(p, t))
    BY <1>2 DEF Send
  <2> QED
    BY <2>1, <2>2, <2>3, ProceedKeepsSeats
<1>3. ASSUME NEW p \in Peers, Relay(p) PROVE SeatInv'
  <2>1. /\ at[p] = "pump"
        /\ at' = [at EXCEPT ![p] = "pop"]
        /\ after' = [after EXCEPT ![p] = "pump"]
        /\ UNCHANGED <<live, seats, gen, arrivals, tasks, minted, roomOf,
                       poisoned, due, timers, names, closed>>
    BY <1>3 DEF Relay, Deliver, registry, wires
  <2>2. names' \in [Peers -> Nat] /\ closed' \subseteq Peers
    BY <2>1 DEF SeatInv, TypeOK
  <2> QED
    BY <2>1, <2>2, PumpKeepsSeats
<1>4. ASSUME NEW p \in Peers, Rename(p) PROVE SeatInv'
  <2>1. /\ at[p] = "pump"
        /\ names' \in [Peers -> Nat]
        /\ UNCHANGED <<live, seats, gen, arrivals, tasks, minted, roomOf, due,
                       closed, poisoned, timers>>
    BY <1>4 DEF Rename, SeatInv, TypeOK
  <2>2. PICK y \in {"pump", "remove"} :
          \/ /\ at' = [at EXCEPT ![p] = "pop"]
             /\ after' = [after EXCEPT ![p] = y]
          \/ /\ at' = [at EXCEPT ![p] = y]
             /\ after' = after
    BY <1>4 DEF Rename, Deliver
  <2>3. closed' \subseteq Peers
    BY <2>1 DEF SeatInv, TypeOK
  <2>4. CASE at' = [at EXCEPT ![p] = "pop"] /\ after' = [after EXCEPT ![p] = y]
    BY <2>1, <2>3, <2>4, PumpKeepsSeats
  <2>5. CASE at' = [at EXCEPT ![p] = y] /\ after' = after
    BY <2>1, <2>3, <2>5, PumpKeepsSeats
  <2> QED
    BY <2>2, <2>4, <2>5
<1>5. ASSUME NEW p \in Peers, Request(p) PROVE SeatInv'
  <2>1. PICK x \in {"pump", "remove"} : at' = [at EXCEPT ![p] = x]
    BY <1>5 DEF Request
  <2> QED
    BY <1>5, <2>1, PumpKeepsSeats DEF Request, registry, SeatInv, TypeOK
<1>6. ASSUME NEW p \in Peers, Stop(p) \/ Disconnect(p) PROVE SeatInv'
  BY <1>6, PumpKeepsSeats DEF Stop, Disconnect, registry, wires, SeatInv, TypeOK
<1>7. ASSUME NEW p \in Peers, Read(p) PROVE SeatInv'
  <2>1. UNCHANGED <<registry, running, closed, poisoned, timers>>
    BY <1>7 DEF Read
  <2> QED
    BY <2>1, IdleKeepsSeats DEF registry, running, SeatInv, TypeOK
<1>8. ASSUME NEW p \in Peers, WriterFails(p) PROVE SeatInv'
  <2>1. UNCHANGED <<registry, running, poisoned, timers>>
    BY <1>8 DEF WriterFails
  <2>2. closed' = closed \cup {p}
    BY <1>8 DEF WriterFails, Unplug
  <2> QED
    BY <2>1, <2>2, IdleKeepsSeats DEF registry, running, SeatInv, TypeOK
<1>9. CASE UNCHANGED vars
  BY <1>9, IdleKeepsSeats DEF vars, registry, running, wires, SeatInv, TypeOK
<1> QED
  BY <1>1, <1>2, <1>3, <1>4, <1>5, <1>6, <1>7, <1>8, <1>9, EjectKeepsSeats,
     RemovePeerKeepsSeats, SettleKeepsSeats, ApplyKeepsSeats, TimerKeepsSeats
  DEF Next, TaskStep

LEMMA SeatInit == Init => SeatInv
  BY DEF Init, SeatInv, TypeOK, SeatsAreServed, Seated, Places

\* Every behaviour of the server keeps its seats' invariant.
THEOREM SeatInvariant == Spec => []SeatInv
  BY SeatInit, SeatStep, PTL DEF Spec

\* room.rs, session.rs: the registry and the tasks' control stay well formed.
THEOREM TypeCorrect == Spec => []TypeOK
<1>1. SeatInv => TypeOK
  BY DEF SeatInv
<1> QED
  BY <1>1, SeatInvariant, PTL

\* session.rs, room.rs: whoever is seated has a running task for that room that
\* the registry can still end, and the registry keeps no other task's handle.
THEOREM SeatsAlwaysServed == Spec => []SeatsAreServed
<1>1. SeatInv => SeatsAreServed
  BY DEF SeatInv
<1> QED
  BY <1>1, SeatInvariant, PTL

----------------------------------------------------------------------------
(* The grace period, in two layers.  Steps sorts every step of the server   *)
(* into one of five things that can happen to the rooms and the timers      *)
(* pledged for them; the invariants are then kept by each of the five.      *)

\* Only a task that has detached itself and not settled yet owes a timer.
Owing(p) ==
    \/ at[p] \in {"removed", "left"}
    \/ at[p] \in Delivering /\ after[p] \in {"removed", "left"}

DueInv == SeatInv /\ \A p \in Peers : due[p] # {} => Owing(p)

LEMMA PledgedDef ==
    ASSUME NEW t
    PROVE  t \in Pledged <=> t \in timers \/ \E p \in Peers : t \in due[p]
  BY DEF Pledged

\* The five things that can happen to the rooms and to the timers pledged.
Nothing ==
    /\ UNCHANGED <<live, seats, gen, arrivals>>
    /\ Pledged' = Pledged
Leaves(r, q) ==
    /\ UNCHANGED <<live, arrivals>>
    /\ seats' = [seats EXCEPT ![r] = seats[r] \ {q}]
    /\ gen' = [gen EXCEPT ![r] = gen[r] + 1]
    /\ Pledged' = Pledged \cup Owed(r, q)
Arrives(r, p) ==
    /\ live' = live \cup {r}
    /\ seats' = [seats EXCEPT ![r] = seats[r] \cup {p}]
    /\ arrivals' = [arrivals EXCEPT ![r] = arrivals[r] + 1]
    /\ gen' = gen
    /\ Pledged' = Pledged
TurnedAway(r) ==
    /\ ReplyMayNotFit
    /\ UNCHANGED <<live, seats>>
    /\ gen' = [gen EXCEPT ![r] = gen[r] + 1]
    /\ arrivals' = [arrivals EXCEPT ![r] = arrivals[r] + 1]
    /\ Pledged' = Pledged
WakesUp(t) ==
    /\ UNCHANGED <<seats, gen, arrivals>>
    /\ timers' = timers \ {t}
    /\ live' = IF Reaps(t) THEN live \ {t.room} ELSE live
    /\ Pledged' \subseteq Pledged
    /\ Pledged \ {t} \subseteq Pledged'

RoomStep ==
    \/ Nothing
    \/ \E r \in live : \E q \in seats[r] : Leaves(r, q)
    \/ \E r \in Rooms, p \in Peers : Arrives(r, p)
    \/ \E r \in live : TurnedAway(r)
    \/ \E t \in timers : WakesUp(t)

LEMMA Idle ==
    ASSUME UNCHANGED <<live, seats, gen, arrivals, due, timers>>
    PROVE  RoomStep
  BY DEF RoomStep, Nothing, Pledged

\* The steps that neither owe nor arm anything.
LEMMA MovesKeepDue ==
    ASSUME DueInv, SeatInv', NEW p \in Peers, due' = due,
           \E x : at' = [at EXCEPT ![p] = x],
           \A z \in Peers \ {p} : after'[z] = after[z],
           due[p] = {} \/ Owing(p)'
    PROVE  DueInv'
  BY DEF DueInv, Owing, SeatInv, TypeOK

LEMMA DeliveryKeepsDue ==
    ASSUME DueInv, SeatInv', NEW p \in Peers, NEW j, at[p] \in Delivering,
           Proceed(p, j), UNCHANGED <<after, due>>
    PROVE  DueInv'
<1>1. PICK x \in {"send", "eject", "pop", after[p]} : at' = [at EXCEPT ![p] = x]
  BY ProceedPlaces
<1>2. at'[p] = x /\ after'[p] = after[p]
  BY <1>1 DEF DueInv, SeatInv, TypeOK
<1>3. due[p] = {} \/ Owing(p)'
  BY <1>2 DEF DueInv, Owing, Delivering
<1> QED
  BY <1>1, <1>3, MovesKeepDue

\* A task that is over, at its turn loop or not yet seated owes nothing.
LEMMA OwesNothing ==
    ASSUME DueInv, NEW p \in Peers,
           at[p] \in {"apply", "pump", "remove", "leave", "done"}
    PROVE  due[p] = {}
  BY DEF DueInv, Owing, Delivering

----------------------------------------------------------------------------
LEMMA EjectStep ==
    ASSUME DueInv, SeatInv', NEW p \in Peers, Eject(p)
    PROVE  DueInv' /\ RoomStep
<1>1. at[p] \in Delivering /\ UNCHANGED <<after, due>>
  BY DEF Eject, Delivering
<1>2. PICK q \in job[p].slow, r \in roomOf[p] :
        \/ /\ r \in live /\ q \in seats[r]
           /\ Detach(r, q)
           /\ timers' = timers \cup Owed(r, q)
           /\ poisoned' = poisoned \cup {q}
           /\ Proceed(p, Ejected(p, q))
        \/ /\ Proceed(p, AlreadyGone(p, q))
           /\ UNCHANGED <<registry, wires, timers>>
  BY DEF Eject
<1>3. DueInv'
  BY <1>1, <1>2, DeliveryKeepsDue
<1>4. CASE UNCHANGED <<registry, timers>>
  BY <1>1, <1>3, <1>4, Idle DEF registry
<1>5. CASE /\ r \in live /\ q \in seats[r]
           /\ Detach(r, q)
           /\ timers' = timers \cup Owed(r, q)
  <2>1. \A t : t \in Pledged' <=> t \in Pledged \cup Owed(r, q)
    <3> TAKE t
    <3>1. t \in Pledged <=> t \in timers \/ \E z \in Peers : t \in due[z]
      BY PledgedDef
    <3>2. t \in Pledged' <=> t \in timers' \/ \E z \in Peers : t \in due[z]
      BY <1>1 DEF Pledged
    <3> QED
      BY <1>5, <3>1, <3>2
  <2>2. Leaves(r, q)
    BY <1>5, <2>1 DEF Leaves, Detach
  <2> QED
    BY <1>3, <1>5, <2>2 DEF RoomStep
<1> QED
  BY <1>2, <1>3, <1>4, <1>5 DEF DueInv

LEMMA RemovePeerStep ==
    ASSUME DueInv, SeatInv', NEW p \in Peers, RemovePeer(p)
    PROVE  DueInv' /\ RoomStep
<1>1. at[p] \in {"remove", "leave"} /\ timers' = timers
  BY DEF RemovePeer
<1>2. due[p] = {}
  BY <1>1, OwesNothing
<1>3. PICK r \in roomOf[p] :
        \/ /\ r \in live /\ p \in seats[r]
           /\ Detach(r, p)
           /\ due' = [due EXCEPT ![p] = Owed(r, p)]
           /\ Deliver(p, {}, Left(p),
                      IF at[p] = "leave" THEN "left" ELSE "removed")
        \/ /\ \/ Over(p)
              \/ at' = [at EXCEPT ![p] = "pump"]
           /\ UNCHANGED <<registry, after, due>>
  BY DEF RemovePeer
<1>4. CASE /\ \/ Over(p)
              \/ at' = [at EXCEPT ![p] = "pump"]
           /\ UNCHANGED <<registry, after, due>>
  <2>1. \E x : at' = [at EXCEPT ![p] = x]
    BY <1>4 DEF Over
  <2>2. DueInv'
    BY <1>2, <1>4, <2>1, MovesKeepDue
  <2> QED
    BY <1>1, <1>4, <2>2, Idle DEF registry
<1>5. CASE /\ r \in live /\ p \in seats[r]
           /\ Detach(r, p)
           /\ due' = [due EXCEPT ![p] = Owed(r, p)]
           /\ Deliver(p, {}, Left(p),
                      IF at[p] = "leave" THEN "left" ELSE "removed")
  <2>1. PICK y \in {"left", "removed"} :
          at' = [at EXCEPT ![p] = "pop"] /\ after' = [after EXCEPT ![p] = y]
    BY <1>5 DEF Deliver
  <2>2. \A z \in Peers : due'[z] = IF z = p THEN Owed(r, p) ELSE due[z]
    BY <1>5 DEF DueInv, SeatInv, TypeOK
  <2>3. Owing(p)'
    BY <2>1 DEF Owing, Delivering, DueInv, SeatInv, TypeOK
  <2>4. \A z \in Peers \ {p} : at'[z] = at[z] /\ after'[z] = after[z]
    BY <2>1 DEF DueInv, SeatInv, TypeOK
  <2>5. DueInv'
    BY <2>2, <2>3, <2>4 DEF DueInv, Owing
  <2>6. \A t : t \in Pledged' <=> t \in Pledged \cup Owed(r, p)
    <3> TAKE t
    <3>1. t \in Pledged <=> t \in timers \/ \E z \in Peers : t \in due[z]
      BY PledgedDef
    <3>2. t \in Pledged' <=> t \in timers \/ \E z \in Peers : t \in due'[z]
      BY <1>1 DEF Pledged
    <3> QED
      BY <1>2, <2>2, <3>1, <3>2
  <2>7. Leaves(r, p)
    BY <1>5, <2>6 DEF Leaves, Detach
  <2> QED
    BY <1>5, <2>5, <2>7 DEF RoomStep
<1> QED
  BY <1>3, <1>4, <1>5

LEMMA SettleStep ==
    ASSUME DueInv, SeatInv', NEW p \in Peers, Settle(p)
    PROVE  DueInv' /\ RoomStep
<1>1. /\ timers' = timers \cup due[p]
      /\ due' = [due EXCEPT ![p] = {}]
      /\ UNCHANGED <<registry, after>>
  BY DEF Settle
<1>2. \E x : at' = [at EXCEPT ![p] = x]
  BY DEF Settle, Over
<1>3. \A z \in Peers : due'[z] = IF z = p THEN {} ELSE due[z]
  BY <1>1 DEF DueInv, SeatInv, TypeOK
<1>4. \A z \in Peers \ {p} : at'[z] = at[z] /\ after'[z] = after[z]
  BY <1>1, <1>2 DEF DueInv, SeatInv, TypeOK
<1>5. DueInv'
  BY <1>3, <1>4 DEF DueInv, Owing
<1>6. \A t : t \in Pledged' <=> t \in Pledged
  <2> TAKE t
  <2>1. t \in Pledged <=> t \in timers \/ \E z \in Peers : t \in due[z]
    BY PledgedDef
  <2>2. t \in Pledged' <=> t \in timers' \/ \E z \in Peers : t \in due'[z]
    BY DEF Pledged
  <2> QED
    BY <1>1, <1>3, <2>1, <2>2
<1> QED
  BY <1>1, <1>5, <1>6 DEF RoomStep, Nothing, registry

LEMMA ApplyStep ==
    ASSUME DueInv, SeatInv', NEW p \in Peers, Apply(p)
    PROVE  DueInv' /\ RoomStep
<1>1. at[p] = "apply" /\ due' = due /\ timers' = timers
  BY DEF Apply, Mint, RefuseMint, Join, JoinUnfit, RefuseJoin
<1>2. due[p] = {} /\ Pledged' = Pledged
  BY <1>1, OwesNothing DEF Pledged
<1>3. /\ \E x : at' = [at EXCEPT ![p] = x]
      /\ after' = after \/ \E y : after' = [after EXCEPT ![p] = y]
  BY DEF Apply, Mint, RefuseMint, Join, JoinUnfit, RefuseJoin, Over, Deliver
<1>4. \A z \in Peers \ {p} : after'[z] = after[z]
  BY <1>3 DEF DueInv, SeatInv, TypeOK
<1>5. DueInv'
  BY <1>1, <1>2, <1>3, <1>4, MovesKeepDue
<1>6. CASE Mint(p)
  BY <1>2, <1>5, <1>6 DEF Mint, Seat, Arrives, RoomStep
<1>7. ASSUME NEW r \in Rooms, Join(p, r) PROVE RoomStep
  <2>1. live' = live \cup {r}
    BY <1>7 DEF Join
  <2>2. Arrives(r, p)
    BY <1>2, <1>7, <2>1 DEF Join, Seat, Arrives
  <2> QED
    BY <2>2 DEF RoomStep
<1>8. ASSUME NEW r \in Rooms, JoinUnfit(p, r) PROVE RoomStep
  <2>1. r \in live /\ TurnedAway(r)
    BY <1>2, <1>8 DEF JoinUnfit, TurnedAway
  <2> QED
    BY <2>1 DEF RoomStep
<1>9. CASE UNCHANGED registry
  BY <1>1, <1>5, <1>9, Idle DEF registry
<1> QED
  BY <1>5, <1>6, <1>7, <1>8, <1>9 DEF Apply, RefuseMint, RefuseJoin

LEMMA TimerStep ==
    ASSUME DueInv, SeatInv', TimerFires
    PROVE  DueInv' /\ RoomStep
<1>1. PICK t \in timers :
        /\ timers' = timers \ {t}
        /\ live' = IF Reaps(t) THEN live \ {t.room} ELSE live
        /\ UNCHANGED <<seats, gen, arrivals, running>>
  BY DEF TimerFires
<1>2. DueInv'
  BY <1>1 DEF DueInv, Owing, running
<1>3. Pledged' \subseteq Pledged /\ Pledged \ {t} \subseteq Pledged'
  BY <1>1 DEF Pledged, running
<1> QED
  BY <1>1, <1>2, <1>3 DEF RoomStep, WakesUp

\* Tasks at the turn loop.
LEMMA PumpStep ==
    ASSUME DueInv, SeatInv', NEW p \in Peers, at[p] = "pump",
           UNCHANGED <<live, seats, gen, arrivals, due, timers>>,
           \E x : at' = [at EXCEPT ![p] = x],
           after' = after \/ \E y : after' = [after EXCEPT ![p] = y]
    PROVE  DueInv' /\ RoomStep
<1>1. due[p] = {}
  BY OwesNothing
<1>2. \A z \in Peers \ {p} : after'[z] = after[z]
  BY DEF DueInv, SeatInv, TypeOK
<1> QED
  BY <1>1, <1>2, MovesKeepDue, Idle

LEMMA Steps == DueInv /\ SeatInv' /\ [Next]_vars => DueInv' /\ RoomStep
<1> SUFFICES ASSUME DueInv, SeatInv', [Next]_vars PROVE DueInv' /\ RoomStep
  OBVIOUS
<1>1. ASSUME NEW p \in Peers, Pop(p) PROVE DueInv' /\ RoomStep
  <2>1. /\ at[p] \in Delivering
        /\ UNCHANGED <<live, seats, gen, arrivals, due, timers, after>>
        /\ \E j : Proceed(p, j)
    BY <1>1 DEF Pop, Delivering, registry
  <2> QED
    BY <2>1, DeliveryKeepsDue, Idle
<1>2. ASSUME NEW p \in Peers, Send(p) PROVE DueInv' /\ RoomStep
  <2>1. /\ at[p] \in Delivering
        /\ UNCHANGED <<live, seats, gen, arrivals, due, timers, after>>
    BY <1>2 DEF Send, Delivering, registry
  <2>2. \E j : Proceed(p, j)
    BY <1>2 DEF Send
  <2> QED
    BY <2>1, <2>2, DeliveryKeepsDue, Idle
<1>3. ASSUME NEW p \in Peers, Relay(p) \/ Rename(p) PROVE DueInv' /\ RoomStep
  <2>1. /\ at[p] = "pump"
        /\ UNCHANGED <<live, seats, gen, arrivals, due, timers>>
    BY <1>3 DEF Relay, Rename, registry
  <2>2. /\ \E x : at' = [at EXCEPT ![p] = x]
        /\ after' = after \/ \E y : after' = [after EXCEPT ![p] = y]
    BY <1>3 DEF Relay, Rename, Deliver
  <2> QED
    BY <2>1, <2>2, PumpStep
<1>4. ASSUME NEW p \in Peers, Request(p) \/ Stop(p) \/ Disconnect(p)
      PROVE  DueInv' /\ RoomStep
  <2>1. /\ at[p] = "pump"
        /\ UNCHANGED <<live, seats, gen, arrivals, due, timers, after>>
    BY <1>4 DEF Request, Stop, Disconnect, registry
  <2>2. \E x : at' = [at EXCEPT ![p] = x]
    BY <1>4 DEF Request, Stop, Disconnect
  <2> QED
    BY <2>1, <2>2, PumpStep
<1>5. ASSUME NEW p \in Peers, Read(p) \/ WriterFails(p) PROVE DueInv' /\ RoomStep
  <2>1. UNCHANGED <<live, seats, gen, arrivals, due, timers, at, after>>
    BY <1>5 DEF Read, WriterFails, registry, running
  <2> QED
    BY <2>1, Idle DEF DueInv, Owing
<1>6. CASE UNCHANGED vars
  <2>1. UNCHANGED <<live, seats, gen, arrivals, due, timers, at, after>>
    BY <1>6 DEF vars, registry, running
  <2> QED
    BY <2>1, Idle DEF DueInv, Owing
<1> QED
  BY <1>1, <1>2, <1>3, <1>4, <1>5, <1>6, EjectStep, RemovePeerStep, SettleStep,
     ApplyStep, TimerStep
  DEF Next, TaskStep

----------------------------------------------------------------------------
\* Why a generation stands for an empty window: a pledged timer is never ahead
\* of its room, and one that is level with an empty room saw its last arrival.
GraceInv ==
    /\ DueInv
    /\ \A t \in Pledged :
         /\ t.gen <= gen[t.room]
         /\ t.gen = gen[t.room] /\ seats[t.room] = {} => t.arr = arrivals[t.room]

LEMMA PledgedType ==
    ASSUME TypeOK, NEW t \in Pledged
    PROVE  t.room \in Rooms /\ t.gen \in Nat /\ t.arr \in Nat
<1>1. t \in [room : Rooms, gen : Nat, arr : Nat]
  BY PledgedDef DEF TypeOK
<1> QED
  BY <1>1

LEMMA GraceStep == GraceInv /\ [Next]_vars => GraceInv'
<1> SUFFICES ASSUME GraceInv, [Next]_vars PROVE GraceInv'
  OBVIOUS
<1>1. SeatInv /\ TypeOK
  BY DEF GraceInv, DueInv, SeatInv
<1>2. DueInv' /\ RoomStep
  BY <1>1, SeatStep, Steps DEF GraceInv
<1>3. ASSUME NEW t \in Pledged'
      PROVE  /\ t.gen <= gen'[t.room]
             /\ t.gen = gen'[t.room] /\ seats'[t.room] = {}
                  => t.arr = arrivals'[t.room]
  <2>1. ASSUME t \in Pledged
        PROVE  /\ t.room \in Rooms /\ t.gen \in Nat
               /\ t.gen <= gen[t.room]
               /\ t.gen = gen[t.room] /\ seats[t.room] = {}
                    => t.arr = arrivals[t.room]
    BY <1>1, <2>1, PledgedType DEF GraceInv
  <2>2. CASE Nothing
    BY <1>3, <2>1, <2>2 DEF Nothing
  <2>3. ASSUME NEW r \in live, NEW q \in seats[r], Leaves(r, q)
        PROVE  /\ t.gen <= gen'[t.room]
               /\ t.gen = gen'[t.room] /\ seats'[t.room] = {}
                    => t.arr = arrivals'[t.room]
    <3>1. r \in Rooms /\ gen[r] \in Nat
      BY <1>1 DEF TypeOK
    <3>2. \A x \in Rooms : /\ gen'[x] = IF x = r THEN gen[r] + 1 ELSE gen[x]
                           /\ seats'[x] = IF x = r THEN seats[r] \ {q} ELSE seats[x]
                           /\ arrivals'[x] = arrivals[x]
      BY <1>1, <2>3, <3>1 DEF Leaves, TypeOK
    <3>3. CASE t \in Pledged
      BY <2>1, <3>1, <3>2, <3>3
    <3>4. CASE t \in Owed(r, q)
      <4>1. t = Timer(r, gen[r] + 1)
        BY <3>4 DEF Owed
      <4>2. t.room = r /\ t.gen = gen[r] + 1 /\ t.arr = arrivals[r]
        BY <4>1 DEF Timer
      <4> QED
        BY <3>1, <3>2, <4>2
    <3> QED
      BY <1>3, <2>3, <3>3, <3>4 DEF Leaves
  <2>4. ASSUME NEW r \in Rooms, NEW p \in Peers, Arrives(r, p)
        PROVE  /\ t.gen <= gen'[t.room]
               /\ t.gen = gen'[t.room] /\ seats'[t.room] = {}
                    => t.arr = arrivals'[t.room]
    <3>1. t \in Pledged /\ gen' = gen
      BY <1>3, <2>4 DEF Arrives
    <3>2. \A x \in Rooms : x # r => seats'[x] = seats[x] /\ arrivals'[x] = arrivals[x]
      BY <1>1, <2>4 DEF Arrives, TypeOK
    <3>3. seats'[r] # {}
      BY <1>1, <2>4 DEF Arrives, TypeOK
    <3> QED
      BY <2>1, <3>1, <3>2, <3>3
  <2>5. ASSUME NEW r \in live, TurnedAway(r)
        PROVE  /\ t.gen <= gen'[t.room]
               /\ t.gen = gen'[t.room] /\ seats'[t.room] = {}
                    => t.arr = arrivals'[t.room]
    <3>1. t \in Pledged /\ seats' = seats /\ r \in Rooms /\ gen[r] \in Nat
      BY <1>1, <1>3, <2>5 DEF TurnedAway, TypeOK
    <3>2. \A x \in Rooms : /\ gen'[x] = IF x = r THEN gen[r] + 1 ELSE gen[x]
                           /\ x # r => arrivals'[x] = arrivals[x]
      BY <1>1, <2>5, <3>1 DEF TurnedAway, TypeOK
    <3> QED
      BY <2>1, <3>1, <3>2
  <2>6. ASSUME NEW u \in timers, WakesUp(u)
        PROVE  /\ t.gen <= gen'[t.room]
               /\ t.gen = gen'[t.room] /\ seats'[t.room] = {}
                    => t.arr = arrivals'[t.room]
    BY <1>3, <2>1, <2>6 DEF WakesUp
  <2> QED
    BY <1>2, <2>2, <2>3, <2>4, <2>5, <2>6 DEF RoomStep
<1> QED
  BY <1>2, <1>3 DEF GraceInv

LEMMA DueInit == Init => DueInv
<1> SUFFICES ASSUME Init PROVE DueInv
  OBVIOUS
<1>1. \A p \in Peers : due[p] = {}
  BY DEF Init
<1> QED
  BY <1>1, SeatInit DEF DueInv

LEMMA NothingPledgedFirst == Init => Pledged = {}
  BY DEF Init, Pledged

LEMMA GraceInit == Init => GraceInv
  BY DueInit, NothingPledgedFirst DEF GraceInv

THEOREM GraceInvariant == Spec => []GraceInv
  BY GraceInit, GraceStep, PTL DEF Spec

\* room.rs reap_if_empty, net/session.rs reap_later_empty: a room is only taken
\* down empty, by a timer armed when it emptied, with nobody seated since.
THEOREM GracePeriodHonoured == Spec => GraceHonoured
<1>1. GraceInv /\ [Next]_vars =>
        [\A r \in live \ live' :
           /\ seats[r] = {}
           /\ \E t \in timers \ timers' : t.room = r /\ t.arr = arrivals[r]]_vars
  <2> SUFFICES ASSUME GraceInv, [Next]_vars, NEW r \in live \ live'
               PROVE  /\ seats[r] = {}
                      /\ \E t \in timers \ timers' : t.room = r /\ t.arr = arrivals[r]
    OBVIOUS
  <2>1. SeatInv /\ RoomStep
    BY SeatStep, Steps DEF GraceInv, DueInv
  <2>2. PICK t \in timers : WakesUp(t)
    BY <2>1 DEF RoomStep, Nothing, Leaves, Arrives, TurnedAway
  <2>3. Reaps(t) /\ t.room = r /\ t \in timers \ timers'
    BY <2>2 DEF WakesUp
  <2>4. t \in Pledged
    BY PledgedDef
  <2>5. seats[r] = {} /\ t.arr = arrivals[r]
    BY <2>3, <2>4 DEF Reaps, GraceInv
  <2> QED
    BY <2>3, <2>5
<1> QED
  BY <1>1, GraceInvariant, PTL DEF Spec, GraceHonoured

----------------------------------------------------------------------------
\* The leak of `unseat` apart, no empty room is forgotten.
EmptyInv == DueInv /\ EmptyRoomHasTimer

LEMMA EmptyStep ==
    ASSUME ~ReplyMayNotFit
    PROVE  EmptyInv /\ [Next]_vars => EmptyInv'
<1> SUFFICES ASSUME EmptyInv, [Next]_vars PROVE EmptyInv'
  OBVIOUS
<1>1. SeatInv /\ TypeOK
  BY DEF EmptyInv, DueInv, SeatInv
<1>2. DueInv' /\ RoomStep
  BY <1>1, SeatStep, Steps DEF EmptyInv
<1>3. ASSUME NEW r \in live', seats'[r] = {}
      PROVE  \E t \in Pledged' : t.room = r /\ t.gen = gen'[r]
  <2>1. ASSUME r \in live, seats[r] = {}
        PROVE  \E t \in Pledged : t.room = r /\ t.gen = gen[r]
    BY <2>1 DEF EmptyInv, EmptyRoomHasTimer
  <2>2. CASE Nothing
    BY <1>3, <2>1, <2>2 DEF Nothing
  <2>3. ASSUME NEW x \in live, NEW q \in seats[x], Leaves(x, q)
        PROVE  \E t \in Pledged' : t.room = r /\ t.gen = gen'[r]
    <3>1. /\ r \in live /\ r \in Rooms /\ x \in Rooms
          /\ Pledged' = Pledged \cup Owed(x, q)
      BY <1>1, <2>3 DEF Leaves, TypeOK
    <3>2. CASE r # x
      <4>1. seats'[r] = seats[r] /\ gen'[r] = gen[r]
        BY <1>1, <2>3, <3>1, <3>2 DEF Leaves, TypeOK
      <4> QED
        BY <1>3, <2>1, <3>1, <4>1
    <3>3. CASE r = x
      <4>1. seats'[r] = seats[r] \ {q} /\ gen'[r] = gen[r] + 1
        BY <1>1, <2>3, <3>1, <3>3 DEF Leaves, TypeOK
      <4>2. seats[r] = {q}
        BY <1>3, <2>3, <3>3, <4>1
      <4>3. Timer(r, gen[r] + 1) \in Pledged'
        BY <3>1, <3>3, <4>2 DEF Owed
      <4> QED
        BY <4>1, <4>3 DEF Timer
    <3> QED
      BY <3>2, <3>3
  <2>4. ASSUME NEW x \in Rooms, NEW p \in Peers, Arrives(x, p)
        PROVE  \E t \in Pledged' : t.room = r /\ t.gen = gen'[r]
    <3>1. r # x
      BY <1>1, <1>3, <2>4 DEF Arrives, TypeOK
    <3>2. r \in live /\ seats[r] = {} /\ gen' = gen /\ Pledged' = Pledged
      BY <1>1, <1>3, <2>4, <3>1 DEF Arrives, TypeOK
    <3> QED
      BY <2>1, <3>2
  <2>5. ASSUME NEW u \in timers, WakesUp(u)
        PROVE  \E t \in Pledged' : t.room = r /\ t.gen = gen'[r]
    <3>1. r \in live /\ seats[r] = {} /\ gen' = gen
      BY <1>3, <2>5 DEF WakesUp
    <3>2. PICK t \in Pledged : t.room = r /\ t.gen = gen[r]
      BY <2>1, <3>1
    <3>3. t # u
      BY <1>3, <2>5, <3>1, <3>2 DEF WakesUp, Reaps
    <3> QED
      BY <2>5, <3>1, <3>2, <3>3 DEF WakesUp
  <2> QED
    BY <1>2, <2>2, <2>3, <2>4, <2>5 DEF RoomStep, TurnedAway
<1> QED
  BY <1>2, <1>3 DEF EmptyInv, EmptyRoomHasTimer

\* room.rs detach, net/session.rs remove_peer and eject_into: when every reply
\* fits its queue, a live room that holds nobody has a timer at its generation.
THEOREM NoRoomLeaks ==
    ASSUME ~ReplyMayNotFit
    PROVE  Spec => []EmptyRoomHasTimer
<1>1. Init => EmptyInv
  <2> SUFFICES ASSUME Init PROVE EmptyInv
    OBVIOUS
  <2>1. live = {}
    BY DEF Init
  <2> QED
    BY <2>1, DueInit DEF EmptyInv, EmptyRoomHasTimer
<1>2. EmptyInv /\ [Next]_vars => EmptyInv'
  BY EmptyStep
<1>3. EmptyInv => EmptyRoomHasTimer
  BY DEF EmptyInv
<1> QED
  BY <1>1, <1>2, <1>3, PTL DEF Spec

----------------------------------------------------------------------------
(* The promise: every step of the server is one of the abstract rooms'.      *)

\* A timer that is owed now was pledged by nobody before: its generation is new.
LEMMA OwedIsNew ==
    ASSUME GraceInv, NEW r \in Rooms, NEW q, NEW t \in Owed(r, q)
    PROVE  t \notin Pledged /\ t.room = r /\ t.gen = gen[r] + 1
<1>1. t = Timer(r, gen[r] + 1)
  BY DEF Owed
<1>2. t.room = r /\ t.gen = gen[r] + 1
  BY <1>1 DEF Timer
<1>3. gen[r] \in Nat
  BY DEF GraceInv, DueInv, SeatInv, TypeOK
<1> QED
  BY <1>2, <1>3 DEF GraceInv

\* Two pledges of the emptiness a room is in are one.
LEMMA OnePledge ==
    ASSUME GraceInv, NEW t \in Pledged, NEW u \in Pledged, t.room = u.room,
           t.gen = gen[t.room], u.gen = gen[u.room], seats[t.room] = {}
    PROVE  t = u
<1>1. t.arr = u.arr
  BY DEF GraceInv
<1>2. t \in [room : Rooms, gen : Nat, arr : Nat] /\ u \in [room : Rooms, gen : Nat, arr : Nat]
  BY PledgedDef DEF GraceInv, DueInv, SeatInv, TypeOK
<1> QED
  BY <1>1, <1>2

\* Pledges stay apart, whoever makes, hands over or redeems one.
Apart ==
    /\ \A p \in Peers : due[p] \cap timers = {}
    /\ \A p, q \in Peers : p # q => due[p] \cap due[q] = {}

LEMMA IdleApart ==
    ASSUME Apart, UNCHANGED due, timers' \subseteq timers
    PROVE  Apart'
  BY DEF Apart

LEMMA EjectApart ==
    ASSUME GraceInv, Apart, NEW p \in Peers, Eject(p)
    PROVE  Apart'
<1>1. PICK q \in job[p].slow, r \in roomOf[p] :
        \/ timers' = timers \cup Owed(r, q)
        \/ timers' = timers
  BY DEF Eject
<1>2. r \in Rooms /\ due' = due
  BY DEF Eject, GraceInv, DueInv, SeatInv, TypeOK
<1>3. \A t \in Owed(r, q) : \A z \in Peers : t \notin due[z]
  BY <1>2, OwedIsNew, PledgedDef
<1> QED
  BY <1>1, <1>2, <1>3 DEF Apart

LEMMA RemovePeerApart ==
    ASSUME GraceInv, Apart, NEW p \in Peers, RemovePeer(p)
    PROVE  Apart'
<1>1. PICK r \in roomOf[p] :
        \/ due' = [due EXCEPT ![p] = Owed(r, p)]
        \/ due' = due
  BY DEF RemovePeer
<1>2. r \in Rooms /\ timers' = timers
  BY DEF RemovePeer, GraceInv, DueInv, SeatInv, TypeOK
<1>3. \A t \in Owed(r, p) : t \notin timers /\ \A z \in Peers : t \notin due[z]
  BY <1>2, OwedIsNew, PledgedDef
<1>4. CASE due' = due
  BY <1>2, <1>4, IdleApart
<1>5. CASE due' = [due EXCEPT ![p] = Owed(r, p)]
  <2>1. \A z \in Peers : due'[z] = IF z = p THEN Owed(r, p) ELSE due[z]
    BY <1>5 DEF GraceInv, DueInv, SeatInv, TypeOK
  <2> QED
    BY <1>2, <1>3, <2>1 DEF Apart
<1> QED
  BY <1>1, <1>4, <1>5

LEMMA SettleApart ==
    ASSUME GraceInv, Apart, NEW p \in Peers, Settle(p)
    PROVE  Apart'
<1>1. timers' = timers \cup due[p] /\ due' = [due EXCEPT ![p] = {}]
  BY DEF Settle
<1>2. \A z \in Peers : due'[z] = IF z = p THEN {} ELSE due[z]
  BY <1>1 DEF GraceInv, DueInv, SeatInv, TypeOK
<1> QED
  BY <1>1, <1>2 DEF Apart

LEMMA ApartStep == GraceInv /\ Apart /\ [Next]_vars => Apart'
<1> SUFFICES ASSUME GraceInv, Apart, [Next]_vars PROVE Apart'
  OBVIOUS
<1>1. ASSUME NEW p \in Peers,
             Pop(p) \/ Send(p) \/ Stop(p) \/ Relay(p) \/ Rename(p) \/ Request(p)
             \/ Disconnect(p) \/ Read(p) \/ WriterFails(p)
      PROVE  Apart'
  <2>1. UNCHANGED <<due, timers>>
    BY <1>1 DEF Pop, Send, Stop, Relay, Rename, Request, Disconnect, Read,
                WriterFails, running
  <2> QED
    BY <2>1, IdleApart
<1>2. ASSUME NEW p \in Peers, Apply(p) PROVE Apart'
  <2>1. UNCHANGED <<due, timers>>
    BY <1>2 DEF Apply, Mint, RefuseMint, Join, JoinUnfit, RefuseJoin
  <2> QED
    BY <2>1, IdleApart
<1>3. CASE TimerFires
  <2>1. due' = due /\ timers' \subseteq timers
    BY <1>3 DEF TimerFires, running
  <2> QED
    BY <2>1, IdleApart
<1>4. CASE UNCHANGED vars
  <2>1. UNCHANGED <<due, timers>>
    BY <1>4 DEF vars, running
  <2> QED
    BY <2>1, IdleApart
<1> QED
  BY <1>1, <1>2, <1>3, <1>4, EjectApart, RemovePeerApart, SettleApart
  DEF Next, TaskStep

\* A pledge that is level with an empty room is a live room's: once a room is
\* taken down no timer of it is left that could do it again.
Level ==
    \A t \in Pledged : t.gen = gen[t.room] /\ seats[t.room] = {} => t.room \in live

PromiseInv == GraceInv /\ Apart /\ Level

\* The timer that wakes up is not pledged any more.
LEMMA Redeemed ==
    ASSUME Apart, NEW t \in timers, timers' = timers \ {t}, due' = due
    PROVE  \A u : u \in Pledged' <=> u \in Pledged /\ u # t
<1> TAKE u
<1>1. u \in Pledged <=> u \in timers \/ \E p \in Peers : u \in due[p]
  BY PledgedDef
<1>2. u \in Pledged' <=> u \in timers' \/ \E p \in Peers : u \in due[p]
  BY DEF Pledged
<1> QED
  BY <1>1, <1>2 DEF Apart

\* Only an applicant mints or enters, and only a timer takes a room down.
LEMMA RoomsStay ==
    ASSUME [Next]_vars
    PROVE  \/ UNCHANGED <<live, arrivals, minted>> /\ timers \subseteq timers'
           \/ \E p \in Peers : Apply(p)
           \/ TimerFires
<1>1. ASSUME NEW p \in Peers,
             Pop(p) \/ Send(p) \/ Settle(p) \/ Stop(p) \/ Relay(p) \/ Rename(p)
             \/ Request(p) \/ Disconnect(p) \/ Read(p) \/ WriterFails(p)
      PROVE  UNCHANGED <<live, arrivals, minted>> /\ timers \subseteq timers'
  BY <1>1 DEF Pop, Send, Settle, Stop, Relay, Rename, Request, Disconnect, Read,
              WriterFails, registry
<1>2. ASSUME NEW p \in Peers, Eject(p) 
      PROVE  UNCHANGED <<live, arrivals, minted>> /\ timers \subseteq timers'
  BY <1>2 DEF Eject, Detach, registry
<1>3. ASSUME NEW p \in Peers, RemovePeer(p) 
      PROVE  UNCHANGED <<live, arrivals, minted>> /\ timers \subseteq timers'
  BY <1>3 DEF RemovePeer, Detach, registry
<1>4. CASE UNCHANGED vars
  BY <1>4 DEF vars, registry
<1> QED
  BY <1>1, <1>2, <1>3, <1>4 DEF Next, TaskStep

LEMMA NewcomersKeepRooms ==
    ASSUME NEW p \in Peers, Apply(p)
    PROVE  live \subseteq live'
  BY DEF Apply, Mint, RefuseMint, Join, JoinUnfit, RefuseJoin, registry

LEMMA LevelStep == PromiseInv /\ [Next]_vars => Level'
<1> SUFFICES ASSUME PromiseInv, [Next]_vars, NEW t \in Pledged',
                    t.gen = gen'[t.room], seats'[t.room] = {}
             PROVE  t.room \in live'
  BY DEF Level
<1>1. GraceInv /\ SeatInv /\ TypeOK /\ RoomStep
  BY SeatStep, Steps DEF PromiseInv, GraceInv, DueInv, SeatInv
<1>2. ASSUME t \in Pledged
      PROVE  /\ t.room \in Rooms /\ t.gen \in Nat /\ t.gen <= gen[t.room]
             /\ t.gen = gen[t.room] /\ seats[t.room] = {} => t.room \in live
  BY <1>1, <1>2, PledgedType DEF PromiseInv, GraceInv, Level
<1>3. CASE Nothing
  BY <1>2, <1>3 DEF Nothing
<1>4. ASSUME NEW r \in live, NEW q \in seats[r], Leaves(r, q) PROVE t.room \in live'
  <2>1. r \in Rooms /\ gen[r] \in Nat /\ live' = live
    BY <1>1, <1>4 DEF TypeOK, Leaves
  <2>2. CASE t.room = r
    BY <2>1, <2>2
  <2>3. CASE t.room # r
    <3>1. t \notin Owed(r, q)
      BY <1>1, <2>1, <2>3, OwedIsNew
    <3>2. t \in Pledged
      BY <1>4, <3>1 DEF Leaves
    <3>3. gen'[t.room] = gen[t.room] /\ seats'[t.room] = seats[t.room]
      BY <1>1, <1>2, <1>4, <2>1, <2>3, <3>2 DEF Leaves, TypeOK
    <3> QED
      BY <1>2, <2>1, <3>2, <3>3
  <2> QED
    BY <2>2, <2>3
<1>5. ASSUME NEW r \in Rooms, NEW p \in Peers, Arrives(r, p) PROVE t.room \in live'
  <2>1. t \in Pledged /\ gen' = gen /\ live' = live \cup {r}
    BY <1>5 DEF Arrives
  <2>2. t.room # r => seats'[t.room] = seats[t.room]
    BY <1>1, <1>2, <1>5, <2>1 DEF Arrives, TypeOK
  <2> QED
    BY <1>2, <2>1, <2>2
<1>6. ASSUME NEW r \in live, TurnedAway(r) PROVE t.room \in live'
  <2>1. t \in Pledged /\ r \in Rooms /\ gen[r] \in Nat /\ seats' = seats /\ live' = live
    BY <1>1, <1>6 DEF TurnedAway, TypeOK
  <2>2. gen'[t.room] = IF t.room = r THEN gen[r] + 1 ELSE gen[t.room]
    BY <1>1, <1>2, <1>6, <2>1 DEF TurnedAway, TypeOK
  <2> QED
    BY <1>2, <2>1, <2>2
<1>7. ASSUME NEW u \in timers, WakesUp(u), TimerFires PROVE t.room \in live'
  <2>1. due' = due
    BY <1>7 DEF TimerFires, running
  <2>2. t \in Pledged /\ t # u /\ u \in Pledged
    BY <1>7, <2>1, Redeemed, PledgedDef DEF PromiseInv, WakesUp
  <2>3. gen' = gen /\ seats' = seats
    BY <1>7 DEF WakesUp
  <2>4. ~(Reaps(u) /\ u.room = t.room)
    BY <1>1, <2>2, <2>3, OnePledge DEF Reaps
  <2> QED
    BY <1>2, <1>7, <2>2, <2>3, <2>4 DEF WakesUp
<1>8. CASE TimerFires
  <2>1. PICK u \in timers :
          /\ timers' = timers \ {u}
          /\ live' = IF Reaps(u) THEN live \ {u.room} ELSE live
          /\ UNCHANGED <<seats, gen, arrivals, running>>
    BY <1>8 DEF TimerFires
  <2>2. Pledged' \subseteq Pledged /\ Pledged \ {u} \subseteq Pledged'
    BY <2>1 DEF Pledged, running
  <2> QED
    BY <1>7, <1>8, <2>1, <2>2 DEF WakesUp
<1>9. CASE ~TimerFires
  <2>1. live \subseteq live'
    BY <1>9, RoomsStay, NewcomersKeepRooms DEF Next, TaskStep
  <2>2. ASSUME NEW u \in timers, WakesUp(u) PROVE t.room \in live'
    <3>1. t \in Pledged /\ gen' = gen /\ seats' = seats
      BY <2>2 DEF WakesUp
    <3> QED
      BY <1>2, <2>1, <3>1
  <2> QED
    BY <1>1, <1>3, <1>4, <1>5, <1>6, <2>2 DEF RoomStep
<1> QED
  BY <1>8, <1>9

LEMMA PromiseInvStep == PromiseInv /\ [Next]_vars => PromiseInv'
  BY GraceStep, ApartStep, LevelStep DEF PromiseInv

LEMMA PromiseInvInit == Init => PromiseInv
<1> SUFFICES ASSUME Init PROVE PromiseInv
  OBVIOUS
<1>1. GraceInv /\ Pledged = {}
  BY GraceInit, NothingPledgedFirst
<1>2. Apart
  BY DEF Init, Apart
<1> QED
  BY <1>1, <1>2 DEF PromiseInv, Level

LEMMA RunningDef ==
    ASSUME NEW r
    PROVE  r \in Running <=>
             /\ r \in Rooms /\ seats[r] = {}
             /\ \E t \in Pledged : t.room = r /\ t.gen = gen[r]
  BY DEF Running

\* Somebody who was seated leaves.
LEMMA LeavePromised ==
    ASSUME PromiseInv, NEW r \in live, NEW q \in seats[r], Leaves(r, q),
           minted' = minted
    PROVE  Promise!Leave(q, r)
<1>1. GraceInv /\ TypeOK /\ r \in Rooms /\ gen[r] \in Nat
  BY DEF PromiseInv, GraceInv, DueInv, SeatInv, TypeOK
<1>2. /\ live' = live /\ seats' = [seats EXCEPT ![r] = seats[r] \ {q}]
      /\ Pledged' = Pledged \cup Owed(r, q)
  BY DEF Leaves
<1>3. \A x \in Rooms : /\ gen'[x] = IF x = r THEN gen[r] + 1 ELSE gen[x]
                       /\ seats'[x] = IF x = r THEN seats[r] \ {q} ELSE seats[x]
  BY <1>1 DEF Leaves, TypeOK
<1>4. Running' = IF seats[r] = {q} THEN Running \cup {r} ELSE Running
  <2>1. ASSUME NEW x \in Rooms, x # r PROVE x \in Running' <=> x \in Running
    <3>1. \A t \in Owed(r, q) : t.room # x
      BY <1>1, <2>1, OwedIsNew
    <3>2. (\E t \in Pledged' : t.room = x /\ t.gen = gen'[x])
            <=> \E t \in Pledged : t.room = x /\ t.gen = gen[x]
      BY <1>2, <1>3, <2>1, <3>1
    <3>3. seats'[x] = seats[x]
      BY <1>3, <2>1
    <3> QED
      BY <3>2, <3>3 DEF Running
  <2>2. r \notin Running
    BY DEF Running
  <2>3. CASE seats[r] = {q}
    <3>1. Timer(r, gen[r] + 1) \in Pledged'
      BY <1>2, <2>3 DEF Owed
    <3>2. seats'[r] = {} /\ gen'[r] = gen[r] + 1
      BY <1>1, <1>3, <2>3
    <3>3. r \in Running'
      BY <1>1, <3>1, <3>2 DEF Running, Timer
    <3> QED
      BY <2>1, <2>3, <3>3 DEF Running
  <2>4. CASE seats[r] # {q}
    <3>1. seats'[r] # {}
      BY <1>1, <1>3, <2>4
    <3>2. r \notin Running'
      BY <3>1 DEF Running
    <3> QED
      BY <2>1, <2>2, <2>4, <3>2 DEF Running
  <2> QED
    BY <2>3, <2>4
<1> QED
  BY <1>2, <1>4 DEF Promise!Leave

\* The abstract rooms count as the registry does.
LEMMA SameCount == \A S : Promise!Cardinality(S) = Cardinality(S)
  BY DEF Cardinality, Promise!Cardinality

\* A room is minted under an id that nobody has a timer for.
LEMMA MintPromised ==
    ASSUME PromiseInv, NEW p \in Peers, Mint(p)
    PROVE  \E r \in Rooms : Promise!Mint(p, r)
<1>1. SeatInv /\ TypeOK
  BY DEF PromiseInv, GraceInv, DueInv, SeatInv
<1>2. /\ at[p] = "apply" /\ Cardinality(live) < MaxRooms
      /\ UNCHANGED <<gen, due, timers>>
  BY DEF Mint
<1>3. PICK r \in Rooms \ minted :
        live' = live \cup {r} /\ minted' = minted \cup {r} /\ Seat(p, r)
  BY DEF Mint
<1>4. \A x \in Rooms : p \notin seats[x]
  BY <1>1, <1>2, Unseated
<1>5. r \notin live /\ seats[r] = {}
  BY <1>1, <1>3 DEF SeatInv, TypeOK
<1>6. seats' = [seats EXCEPT ![r] = {p}]
  BY <1>3, <1>5 DEF Seat
<1>7. \A x \in Rooms : seats'[x] = IF x = r THEN {p} ELSE seats[x]
  BY <1>1, <1>6 DEF TypeOK
<1>8. Pledged' = Pledged
  BY <1>2 DEF Pledged
<1>9. Running' = Running
  <2>1. r \notin Running
    BY <1>3, <1>5 DEF Running, PromiseInv, Level
  <2>2. \A x \in Rooms : x \in Running' <=> x \in Running
    BY <1>2, <1>7, <1>8, <2>1 DEF Running
  <2> QED
    BY <2>2 DEF Running
<1> QED
  BY <1>2, <1>3, <1>4, <1>6, <1>9, SameCount DEF Promise!Mint, Promise!InNoRoom

\* Whoever enters ends the grace period that was running.
LEMMA EnterPromised ==
    ASSUME PromiseInv, NEW p \in Peers, NEW r \in Rooms, Join(p, r)
    PROVE  Promise!Enter(p, r)
<1>1. SeatInv /\ TypeOK
  BY DEF PromiseInv, GraceInv, DueInv, SeatInv
<1>2. /\ at[p] = "apply" /\ Cardinality(seats[r]) < MaxPeersPerRoom /\ r \in live
      /\ UNCHANGED <<live, minted, gen, due, timers>>
      /\ seats' = [seats EXCEPT ![r] = seats[r] \cup {p}]
  BY DEF Join, Seat
<1>3. \A x \in Rooms : p \notin seats[x]
  BY <1>1, <1>2, Unseated
<1>4. \A x \in Rooms : seats'[x] = IF x = r THEN seats[r] \cup {p} ELSE seats[x]
  BY <1>1, <1>2 DEF TypeOK
<1>5. Pledged' = Pledged
  BY <1>2 DEF Pledged
<1>6. Running' = Running \ {r}
  <2>1. \A x \in Rooms : x \in Running' <=> x \in Running /\ x # r
    BY <1>2, <1>4, <1>5 DEF Running
  <2> QED
    BY <2>1 DEF Running
<1> QED
  BY <1>2, <1>3, <1>6, SameCount DEF Promise!Enter, Promise!InNoRoom

\* A timer takes down the room whose emptiness it was armed for, or nothing.
LEMMA TakeDownPromised ==
    ASSUME PromiseInv, TimerFires
    PROVE  (\E r \in Rooms : Promise!TakeDown(r)) \/ UNCHANGED Promise!vars
<1>1. PICK t \in timers :
        /\ timers' = timers \ {t}
        /\ live' = IF Reaps(t) THEN live \ {t.room} ELSE live
        /\ UNCHANGED <<seats, gen, arrivals, minted, running>>
  BY DEF TimerFires
<1>2. GraceInv /\ t \in Pledged /\ t.room \in Rooms
  BY PledgedDef, PledgedType DEF PromiseInv, GraceInv, DueInv, SeatInv
<1>3. \A u : u \in Pledged' <=> u \in Pledged /\ u # t
  BY <1>1, Redeemed DEF running, PromiseInv
<1>4. CASE Reaps(t)
  <2>1. t.room \in live /\ seats[t.room] = {} /\ gen[t.room] = t.gen
    BY <1>4 DEF Reaps
  <2>2. t.room \in Running
    BY <1>2, <2>1 DEF Running
  <2>3. \A x \in Rooms : x \in Running' <=> x \in Running /\ x # t.room
    BY <1>1, <1>2, <1>3, <2>1, OnePledge DEF Running
  <2>4. Running' = Running \ {t.room}
    BY <2>3 DEF Running
  <2> QED
    BY <1>1, <1>2, <1>4, <2>1, <2>2, <2>4 DEF Promise!TakeDown
<1>5. CASE ~Reaps(t)
  <2>1. ~(t.gen = gen[t.room] /\ seats[t.room] = {})
    BY <1>2, <1>5 DEF Reaps, PromiseInv, Level
  <2>2. \A x \in Rooms : x \in Running' <=> x \in Running
    BY <1>1, <1>3, <2>1 DEF Running
  <2>3. Running' = Running
    BY <2>2 DEF Running
  <2> QED
    BY <1>1, <1>5, <2>3 DEF Promise!vars
<1> QED
  BY <1>4, <1>5

LEMMA IdlePromised ==
    ASSUME UNCHANGED <<live, minted, seats, gen>>, Pledged' = Pledged
    PROVE  UNCHANGED Promise!vars
<1>1. Running' = Running
  BY DEF Running
<1> QED
  BY <1>1 DEF Promise!vars

LEMMA PromiseStep ==
    ASSUME ~ReplyMayNotFit, PromiseInv, [Next]_vars
    PROVE  [Promise!Next]_(Promise!vars)
<1>1. SeatInv /\ TypeOK /\ RoomStep
  BY SeatStep, Steps DEF PromiseInv, GraceInv, DueInv, SeatInv
<1>2. ASSUME NEW p \in Peers, Apply(p) PROVE [Promise!Next]_(Promise!vars)
  <2>1. CASE UNCHANGED <<registry, due, timers>>
    BY <2>1, IdlePromised DEF registry, Pledged
  <2>2. CASE ~UNCHANGED <<registry, due, timers>>
    <3>1. Mint(p) \/ \E r \in Rooms : Join(p, r)
      BY <1>2, <2>2 DEF Apply, RefuseMint, JoinUnfit, RefuseJoin
    <3> QED
      BY <3>1, MintPromised, EnterPromised DEF Promise!Next
  <2> QED
    BY <2>1, <2>2
<1>3. CASE TimerFires
  BY <1>3, TakeDownPromised DEF Promise!Next
<1>4. CASE UNCHANGED <<live, arrivals, minted>> /\ timers \subseteq timers'
  <2>1. ASSUME NEW r \in Rooms, NEW p \in Peers, Arrives(r, p) PROVE FALSE
    BY <1>1, <1>4, <2>1 DEF Arrives, TypeOK
  <2>2. CASE Nothing
    BY <1>4, <2>2, IdlePromised DEF Nothing
  <2>3. ASSUME NEW r \in live, NEW q \in seats[r], Leaves(r, q)
        PROVE  Promise!Next
    <3>1. Promise!Leave(q, r) /\ r \in Rooms /\ q \in Peers
      BY <1>1, <1>4, <2>3, LeavePromised DEF TypeOK
    <3> QED
      BY <3>1 DEF Promise!Next
  <2>4. ASSUME NEW t \in timers, WakesUp(t) PROVE FALSE
    BY <1>4, <2>4 DEF WakesUp
  <2> QED
    BY <1>1, <1>3, <2>1, <2>2, <2>3, <2>4 DEF RoomStep, TurnedAway
<1> QED
  BY <1>2, <1>3, <1>4, RoomsStay

\* room.rs and net/session.rs against docs/the-server.md: when every reply fits its
\* queue, every behaviour of the server is one of the abstract rooms'.
THEOREM PromiseKept ==
    ASSUME ~ReplyMayNotFit
    PROVE  Spec => KeepsThePromise
<1>1. Init => Promise!Init
  <2> SUFFICES ASSUME Init PROVE Promise!Init
    OBVIOUS
  <2>1. Running = {}
    BY NothingPledgedFirst DEF Running
  <2> QED
    BY <2>1 DEF Init, Promise!Init
<1>2. PromiseInv /\ [Next]_vars => [Promise!Next]_(Promise!vars)
  BY PromiseStep
<1> QED
  BY <1>1, <1>2, PromiseInvInit, PromiseInvStep, PTL
  DEF Spec, KeepsThePromise, Promise!Spec
=============================================================================
