----------------------------- MODULE MCAccounts -----------------------------
(***************************************************************************)
(* The counts that bound a room, each by itself: a connection's inbound    *)
(* budget on a small clock, ten ticks to the second and a rate that        *)
(* divides neither way, so that both divisions of refill truncate; its     *)
(* outbound queue; and the frames sealed under a room's key.               *)
(***************************************************************************)
EXTENDS InboundBudget, OutboundQueue, FrameBudget

VARIABLE account

MCPayloads == {0, 1, 4}

MCInit ==
    /\ Init /\ QueueInit /\ FrameInit
    /\ account \in {"in", "out", "frames"}
    /\ account # "frames" => producer.up
MCNext ==
    /\ UNCHANGED account
    /\ \/ account = "in" /\ Next /\ UNCHANGED <<queueVars, frameVars>>
       \/ account = "out" /\ QueueNext /\ UNCHANGED <<vars, frameVars>>
       \/ account = "frames" /\ FrameNext /\ UNCHANGED <<vars, queueVars>>
MCSpec == MCInit /\ [][MCNext]_<<vars, queueVars, frameVars, account>>
=============================================================================
