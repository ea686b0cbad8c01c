------------------------------ MODULE Streams ------------------------------
(***************************************************************************)
(* The three readings of a kind 0 plaintext, a stream of y-protocols       *)
(* messages: nests_too_deep and is_content judge it before it is accepted  *)
(* (nesting.rs, sealed.rs), and read_stream applies it (peer/deliver.rs).  *)
(* Each stops where it stops, and yrs's own reader of an Any recurses with *)
(* no bound: what the judges did not see must not be applied.              *)
(*                                                                         *)
(* The bytes of an Any are tokens: "arr" and "map" open a container and    *)
(* are followed by its length, "s" is a map's key, "null" any scalar.      *)
(***************************************************************************)
EXTENDS Integers, Sequences

CONSTANTS
    Lengths,      \* the numbers that length tokens stand for
    MaxAnyDepth,  \* MAX_ANY_DEPTH
    MaxAnyBytes,  \* bound: the tokens of one Any
    MaxMessages   \* bound: the messages of one stream

Tags == {"arr", "map", "s", "null"}

ASSUME StreamsAssumption ==
    /\ MaxAnyDepth \in Nat /\ MaxAnyBytes \in Nat /\ MaxMessages \in Nat
    /\ DOMAIN Lengths \cap Tags = {}
    /\ \A t \in DOMAIN Lengths : Lengths[t] \in Nat
    /\ \E t \in DOMAIN Lengths : Lengths[t] = 1

VARIABLES
    sender,    \* the role of the key that signed the frame
    messages,  \* the stream
    verdict,   \* none, bad_payload, unauthorised_content, accepted
    at,        \* the next message the applier reads, 0 once it stopped
    applied,   \* the updates it applied
    deepest    \* the containers yrs had open at once, at most

streamVars == <<sender, messages, verdict, at, applied, deepest>>

AnyTokens == Tags \cup DOMAIN Lengths
AnyBytes == UNION {[1..n -> AnyTokens] : n \in 1..MaxAnyBytes}

Update(any) == [kind |-> "update", any |-> any]
Other(kind) == [kind |-> kind, any |-> <<>>]
One == CHOOSE t \in DOMAIN Lengths : Lengths[t] = 1
Flat == <<"arr", One, "null">>
Torn == <<"s">>
\* Arrays of one inside one another, as the tests build them.
Nested(n) ==
    [i \in 1..(2 * n + 1) |-> IF i = 2 * n + 1 THEN "null" ELSE IF i % 2 = 1 THEN "arr" ELSE One]
\* stale: an awareness message yrs refuses.  unread: bytes its reader refuses.
SomeMessages ==
    {Update(Flat), Update(Torn), Update(Nested(MaxAnyDepth + 1))}
        \cup {Other(k) : k \in {"step1", "awareness", "stale", "auth", "query", "custom", "unread"}}

-----------------------------------------------------------------------------
(* yrs, outside the repository *)

\* What a read comes to: whether it went well, the cursor it left, and how many
\* containers were open inside one another, at most, beyond those around it.
Came(ok, cur, height) == [ok |-> ok, cur |-> cur, height |-> height]

\* Any::decode at the cursor, which calls itself for the values of a container.
Decoded(any, elements, cur) ==
    IF cur > Len(any) THEN Came(FALSE, cur, 0)
    ELSE IF any[cur] = "null" THEN Came(TRUE, cur + 1, 0)
    ELSE IF any[cur] \notin {"arr", "map"} THEN Came(FALSE, cur, 0)
    ELSE IF cur = Len(any) THEN Came(FALSE, cur, 1)
    ELSE IF any[cur + 1] \notin DOMAIN Lengths THEN Came(FALSE, cur, 1)
    ELSE LET inside == elements[cur + 2][<<Lengths[any[cur + 1]], any[cur] = "map">>]
         IN Came(inside.ok, inside.cur, inside.height + 1)

\* The values a container still has, each behind its key in a map.
TheElements(any, elements, cur, left, map) ==
    IF left = 0 THEN Came(TRUE, cur, 0)
    ELSE IF map /\ (cur > Len(any) \/ any[cur] # "s") THEN Came(FALSE, cur, 0)
    ELSE LET first == Decoded(any, elements, IF map THEN cur + 1 ELSE cur)
         IN IF ~first.ok THEN first
            ELSE LET others == elements[first.cur][<<left - 1, map>>]
                 IN Came(others.ok, others.cur,
                         IF first.height > others.height THEN first.height ELSE others.height)
Elements(any) ==
    LET elements[cur \in 1..(Len(any) + 1)] ==
            [c \in Nat \X BOOLEAN |-> TheElements(any, elements, cur, c[1], c[2])]
    IN elements

Recursed(any) == Decoded(any, Elements(any), 1)

-----------------------------------------------------------------------------
(* nesting.rs *)

At(cur, open) == [cur |-> cur, open |-> open, end |-> "no"]
Halt(how) == [cur |-> 0, open |-> <<>>, end |-> how]

\* read_one: a scalar is read, a container opened unless the bound is reached.
ReadOne(any, w) ==
    IF w.cur > Len(any) THEN Halt("error")
    ELSE IF any[w.cur] = "null" THEN At(w.cur + 1, w.open)
    ELSE IF any[w.cur] \notin {"arr", "map"} THEN Halt("error")
    ELSE IF Len(w.open) >= MaxAnyDepth THEN Halt("deeper")
    ELSE IF w.cur = Len(any) THEN Halt("error")
    ELSE IF any[w.cur + 1] \notin DOMAIN Lengths THEN Halt("error")
    ELSE At(w.cur + 2,
            Append(w.open, [left |-> Lengths[any[w.cur + 1]], map |-> any[w.cur] = "map"]))

\* The innermost container with a value left.
Innermost(open) ==
    IF \A i \in 1..Len(open) : open[i].left = 0 THEN 0
    ELSE CHOOSE i \in 1..Len(open) :
            open[i].left > 0 /\ \A j \in (i + 1)..Len(open) : open[j].left = 0

\* Mutant of NextValue: a container whose last value was read stays open.
NextValueKeeps(any, w) ==
    LET top == Innermost(w.open)
    IN IF top = 0 THEN Halt("done")
       ELSE IF ~w.open[top].map THEN At(w.cur, [w.open EXCEPT ![top].left = @ - 1])
       ELSE IF w.cur > Len(any) THEN Halt("error")
       ELSE IF any[w.cur] # "s" THEN Halt("error")
       ELSE At(w.cur + 1, [w.open EXCEPT ![top].left = @ - 1])
\* next_value: the finished containers close, and the innermost other has its next.
NextValue(any, w) ==
    LET top == Innermost(w.open)
        open == [SubSeq(w.open, 1, top) EXCEPT ![top].left = @ - 1]
    IN IF top = 0 THEN Halt("done")
       ELSE IF ~w.open[top].map THEN At(w.cur, open)
       ELSE IF w.cur > Len(any) THEN Halt("error")
       ELSE IF any[w.cur] # "s" THEN Halt("error")
       ELSE At(w.cur + 1, open)

\* One turn of deeper_than_bound's loop.
Turn(any, w) ==
    IF w.end # "no" THEN w
    ELSE LET one == ReadOne(any, w) IN IF one.end # "no" THEN one ELSE NextValue(any, one)

\* A turn reads a token or ends the loop.
Walk(any) ==
    LET walk[n \in 0..(Len(any) + 1)] == IF n = 0 THEN At(1, <<>>) ELSE Turn(any, walk[n - 1])
    IN walk

DeeperThanBound(any) == Walk(any)[Len(any) + 1].end = "deeper"

\* decode_update: every Any is walked before yrs reads it.
DecodeUpdate(any) ==
    IF DeeperThanBound(any) THEN "TooDeep" ELSE IF Recursed(any).ok THEN "Ok" ELSE "Malformed"

\* The messages a reading sees that stops at messages of these kinds.
Seen(s, kinds) == {i \in 1..Len(s) : \A j \in 1..i : s[j].kind \notin kinds}

NestsTooDeep(s) ==
    \E i \in Seen(s, {"custom", "unread"}) :
        s[i].kind = "update" /\ DecodeUpdate(s[i].any) = "TooDeep"

\* sealed.rs: the walk is the applier's decoder, and goes on past a custom message.
IsContent(s) == \E i \in Seen(s, {"unread"}) : s[i].kind = "update"

-----------------------------------------------------------------------------
(* Step 8 and step 10 of the reader, then the applier *)

Judge ==
    /\ verdict = "none"
    /\ verdict' = IF NestsTooDeep(messages) THEN "bad_payload"
                  ELSE IF IsContent(messages) /\ sender = "viewer" THEN "unauthorised_content"
                  ELSE "accepted"
    /\ at' = IF verdict' = "accepted" THEN 1 ELSE 0
    /\ UNCHANGED <<sender, messages, applied, deepest>>

\* What read_message may say of going on: an update that was decoded is applied
\* or, by yrs, refused.
Message == messages[at]
GoesOn ==
    IF Message.kind \in {"step1", "awareness", "auth", "query"} THEN {TRUE}
    ELSE IF Message.kind = "update" /\ DecodeUpdate(Message.any) = "Ok" THEN BOOLEAN
    ELSE {FALSE}

ReadMessage ==
    /\ at \in 1..Len(messages)
    /\ \E on \in GoesOn :
        /\ at' = IF on THEN at + 1 ELSE 0
        /\ applied' = applied + IF Message.kind = "update" /\ on THEN 1 ELSE 0
    /\ deepest' = LET d == IF Message.kind = "update" /\ DecodeUpdate(Message.any) # "TooDeep"
                           THEN Recursed(Message.any).height ELSE 0
                  IN IF d > deepest THEN d ELSE deepest
    /\ UNCHANGED <<sender, messages, verdict>>

StreamInit ==
    /\ sender \in {"guest", "viewer"}
    /\ messages \in (UNION {[1..n -> SomeMessages] : n \in 1..MaxMessages})
                        \cup {<<Update(any)>> : any \in AnyBytes}
    /\ verdict = "none" /\ at = 0 /\ applied = 0 /\ deepest = 0

StreamNext == Judge \/ ReadMessage
StreamSpec == StreamInit /\ [][StreamNext]_streamVars

(* What is applied was judged.  yrs never recurses past MAX_ANY_DEPTH on a     *)
(* stream any client sends, a viewer's frame changes no document wherever in   *)
(* the stream its update stands, and a stream is refused for its depth only    *)
(* when yrs would have gone past the bound in it (nests_too_deep, is_content   *)
(* and read_stream agree about one stream).                                    *)
JudgedBeforeApplied ==
    /\ deepest <= MaxAnyDepth
    /\ sender = "viewer" => applied = 0
    /\ verdict = "bad_payload" =>
        \E i \in 1..Len(messages) : messages[i].kind = "update"
                                    /\ Recursed(messages[i].any).height > MaxAnyDepth
    /\ \A i \in 1..Len(messages) :
        messages[i].kind = "update" =>
            (DeeperThanBound(messages[i].any) <=> Recursed(messages[i].any).height > MaxAnyDepth)
=============================================================================
