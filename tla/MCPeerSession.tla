--------------------------- MODULE MCPeerSession ---------------------------
(* One session in three surroundings: a room in which roles change while    *)
(* documents are edited and sealing may fail, one whose peers hold paths,   *)
(* leave and return, and one whose peers show themselves.                   *)
EXTENDS PeerSession, PeerAwareness, TLC

\* Keys: mine, a peer's, the host's and the one it has after a reload; the seats
\* of the last three.
CONSTANTS me, p, h, g, sp, sh, sg, r, a
VARIABLE around

MCState(mine, theirs, host) ==
    [k \in {me, p, h, g} |->
        CASE k = me -> mine [] k = p -> theirs [] k = host.key -> Entry("host", host.seat)
          [] OTHER -> NoEntry]
Mine(role) == Entry(role, sp)
Hosts == [key |-> h, seat |-> sh]
MCEditing == {MCState(NoEntry, Entry("guest", sp), Hosts),
              MCState(Mine("guest"), Entry("guest", sp), Hosts),
              MCState(Mine("viewer"), Entry("guest", sp), Hosts),
              MCState(Mine("guest"), Entry("viewer", sp), Hosts)}
\* The peer is labelled with its own seat, or with the host's before its own was
\* known, or not at all; and g is the host after a reload.
MCMoving == {MCState(NoEntry, Entry("guest", sp), Hosts),
             MCState(Mine("guest"), Entry("guest", sp), Hosts),
             MCState(Mine("guest"), Entry("guest", sh), Hosts),
             MCState(Mine("guest"), NoEntry, Hosts),
             MCState(Mine("guest"), Entry("guest", sp), [key |-> g, seat |-> sg])}
MCStates == MCEditing \cup MCMoving

\* Nothing is sealed, or the first edit alone is not.
MCFaults == {Fault({"update", "step1", "step2", "announcement", "holds"}, {}), Fault({}, {1})}

MCInit == Init /\ AwarenessInit /\ around \in {"editing", "moving", "present"}

MCEdited ==
    \/ \E st \in MCEditing : HearState(st)
    \/ \E edits \in SUBSET Remote, asks \in BOOLEAN :
          (edits # {} \/ asks) /\ HearContent(p, edits, asks)
    \/ RefuseContent
    \/ \E e \in Edits : Insert(e)
    \/ InsertPastTheEnd
    \/ HearClosing

MCMoved ==
    \/ \E st \in MCMoving : HearState(st)
    \/ HearHolds(p)
    \/ \E seat \in Connections : SeatJoined(seat) \/ SeatLeft(seat)
    \/ HearClosing
    \/ \E paths \in SUBSET Paths : Hold(paths)

MCNext ==
    /\ UNCHANGED around
    /\ \/ /\ \/ around = "editing" /\ MCEdited
             \/ around = "moving" /\ MCMoved
             \/ around # "present" /\ (Tick \/ Pass)
          /\ around = "moving" => faults' = 0
          /\ UNCHANGED awarenessVars
       \/ around = "present" /\ AwarenessNext /\ UNCHANGED vars

MCSpec == MCInit /\ [][MCNext]_<<vars, awarenessVars, around>> /\ Fairness
=============================================================================
