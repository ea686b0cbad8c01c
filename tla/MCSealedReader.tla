--------------------------- MODULE MCSealedReader ---------------------------
(* Instances of SealedReader.  k3 and k4 share an id; k2 is demoted, dropped  *)
(* and committed again; two states carry edition 2, and so does a closing.    *)
(* Beside it, one frame's bytes on their way and one frame's stream, each by  *)
(* itself.                                                                    *)
EXTENDS SealedReader, Envelope, Streams, TLC

CONSTANTS k1, k2, k3, k4, a, b, c

MCIdOf == k1 :> a @@ k2 :> b @@ k3 :> c @@ k4 :> c
MCStream == k1 :> <<"content">>
         @@ k2 :> <<"announce", "content", "holds">>
         @@ k3 :> <<"announce", "content">>
         @@ k4 :> <<"announce", "sync">>

Room(r2, r3) == k1 :> "host" @@ k2 :> r2 @@ k3 :> r3 @@ k4 :> "none"
State(n, r2, r3) == [kind |-> "state", issued |-> n, peers |-> Room(r2, r3)]
Closing(n) == [kind |-> "closing", issued |-> n, peers |-> [k \in Keys |-> "none"]]
MCPublished == {State(1, "viewer", "none"), State(2, "none", "none"),
                State(2, "guest", "none"), State(3, "guest", "guest"),
                Closing(2), Closing(4)}

MCLengths == "n0" :> 0 @@ "n1" :> 1 @@ "n2" :> 2

MCRooms == {<<>>, <<5>>}
MCRecipes == [key_id : {3}, kind : {0, 3}, epoch : {6}, counter : {1, 7}, nonce : {2},
              ciphertext : {<<>>, <<1, 6>>}]

VARIABLE part

EnvelopeIdle ==
    /\ home = <<>> /\ wire = <<>> /\ rewrites = 0 /\ reader = <<>>
    /\ sealed = CHOOSE e \in Recipes : TRUE
    /\ opened = NotRead
StreamIdle ==
    /\ sender = "guest" /\ messages = <<>> /\ verdict = "none"
    /\ at = 0 /\ applied = 0 /\ deepest = 0

MCInit ==
    /\ Init
    /\ \/ part = "reader" /\ EnvelopeIdle /\ StreamIdle
       \/ part = "bytes" /\ EnvelopeInit /\ StreamIdle
       \/ part = "stream" /\ EnvelopeIdle /\ StreamInit
MCNext ==
    /\ part' = part
    /\ \/ part = "reader" /\ Next /\ UNCHANGED <<envelopeVars, streamVars>>
       \/ part = "bytes" /\ EnvelopeNext /\ UNCHANGED <<vars, streamVars>>
       \/ part = "stream" /\ StreamNext /\ UNCHANGED <<vars, envelopeVars>>
MCSpec == MCInit /\ [][MCNext]_<<vars, envelopeVars, streamVars, part>>
=============================================================================
