---------------------------- MODULE MCConnection ----------------------------
(***************************************************************************)
(* Instances of the connections for TLC: either the server's connections   *)
(* over their life, or the front of one of them before a session owns it,  *)
(* or an invite on its way to a connection.                                *)
(***************************************************************************)
EXTENDS Connection, Front, Invites

CONSTANTS c1, c2, f1, f2

MCTwo == {c1, c2}

VARIABLE part
mcVars == <<vars, frontVars, inviteVars, part>>

MCRoomKey == <<10, 7>>
MCHostKey == <<15, 3>>
MCTokens == {<<>>, <<"a">>, <<"%", "2", "6">>, <<"&", "#">>}

NoRequest == [end |-> NoEnd, behind |-> 0, method |-> "GET", path |-> "meta",
              upgrade |-> FALSE, full |-> FALSE, pages |-> FALSE]
SomeDisk == [root |-> "site", name |-> f1, changes |-> MaxChanges,
             file |-> [f \in Files |-> [size |-> 0, place |-> "outside", isFile |-> FALSE]]]

FrontIdle ==
    /\ request = NoRequest /\ unread = NoByte /\ step = "done" /\ buf = NoByte
    /\ tail = NoByte /\ stream = NoStream /\ consumed = NoByte /\ parsed = NoByte
    /\ answer = "none" /\ page = NoPage /\ disk = SomeDisk /\ seen = {}

\* A request is either about a page, and then its bytes come at once, or about
\* bytes, and then no page is there to change.
MCFrontInit ==
    /\ FrontInit
    /\ IF request.pages
       THEN /\ request.end = 1 /\ request.behind = 0 /\ request.path = "page"
            /\ request.method = "GET" /\ ~request.upgrade /\ ~request.full
            /\ disk.root = "site" /\ disk.file[f2].isFile
       ELSE disk.file = SomeDisk.file /\ disk.name = f1 /\ disk.root = "site"

InviteIdle ==
    /\ leg = "seated" /\ mount = <<>> /\ server = <<>> /\ room = <<>> /\ token = <<>> /\ carrier = "page"
    /\ link = <<>> /\ invite = [NoInvite EXCEPT !.k = RoomKey, !.h = HostKey]
    /\ join = [NoJoin EXCEPT !.room = <<>>, !.token = <<>>]

MCInit ==
    \/ part = "connections" /\ Init /\ FrontIdle /\ InviteIdle
    \/ part = "front" /\ Init /\ MCFrontInit /\ InviteIdle
    \/ part = "invite" /\ Init /\ FrontIdle /\ InviteInit

MCNext ==
    /\ part' = part
    /\ \/ part = "connections" /\ Next /\ UNCHANGED <<frontVars, inviteVars>>
       \/ part = "front" /\ FrontNext /\ UNCHANGED <<vars, inviteVars>>
       \/ part = "invite" /\ InviteNext /\ UNCHANGED <<vars, frontVars>>

MCFairness ==
    \A c \in Conns :
        /\ WF_vars(part = "connections" /\ TaskStep(c))
        /\ WF_vars(part = "connections" /\ WriterStep(c))
        /\ WF_vars(part = "connections" /\ Heartbeat(c))

MCSpec == MCInit /\ [][MCNext]_mcVars /\ MCFairness
=============================================================================
