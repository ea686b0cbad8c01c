----------------------------- MODULE MCSelvaged -----------------------------
(***************************************************************************)
(* Instances of the server for TLC.  Each gives the three clients their    *)
(* parts; peers are model values and interchangeable where they have the   *)
(* same part.                                                              *)
(***************************************************************************)
EXTENDS SelvagedRefinement, TLC

CONSTANTS p1, p2, p3

MCPeers == {p1, p2, p3}
MCPair == {p1, p2}
MCPairAlike == Permutations(MCPair)

\* A host that talks and does not read, one guest that reads and one that does
\* not.
MCSlow == (p1 :> {"mint", "relay"}) @@ (p2 :> {"join", "read"})
            @@ (p3 :> {"join"})

\* A host that leaves, a guest that leaves and one that only listens,
\* none of them reading.
MCLive == (p1 :> {"mint", "quit"}) @@ (p2 :> {"join", "quit"})
            @@ (p3 :> {"join"})

\* A host that talks, a guest whose socket fails; both ends drain their queues.
MCBreak == (p1 :> {"mint", "relay", "read"}) @@ (p2 :> {"join", "read", "break"})

\* Two clients that may do anything.
MCAnything == [p \in MCPair |-> Deeds]
=============================================================================
