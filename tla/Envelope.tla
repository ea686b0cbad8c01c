------------------------------ MODULE Envelope ------------------------------
(***************************************************************************)
(* The bytes of a sealed frame (client/src/sealed.rs): varints, the        *)
(* envelope's layout and the input its signature covers.  A relay, or      *)
(* whatever lies between two clients, may rewrite the bytes in front of a  *)
(* signature it cannot make.                                               *)
(*                                                                         *)
(* The integers keep the shape of the code's at a smaller width: a byte of *)
(* a varint carries a group of bits, and a value is Full groups and one bit *)
(* for the last byte (groups of 7 bits, 9 of them, for 64 bits there).      *)
(* Fixed-width fields are one byte.                                         *)
(* A signature is what it signs, an AEAD's output its input: nobody        *)
(* without the keys makes either.                                          *)
(***************************************************************************)
EXTENDS Integers, Sequences, SequencesExt

CONSTANTS
    Group,       \* the values a group of bits takes: 128 in the code
    Full,        \* the groups that are whole: 9 in the code
    Rooms,       \* room ids, as bytes
    Recipes,     \* the frames that are sealed
    MaxRewrites  \* bound: bytes changed, put in or taken out

ASSUME WidthAssumption == Group \in Nat /\ Group >= 2 /\ Full \in Nat \ {0}

Byte == 0..(2 * Group - 1)
Low(b) == b % Group
More(b) == b >= Group

\* What the lowest bit of a group is worth: 1 << shift.
Weight[n \in 0..Full] == IF n = 0 THEN 1 ELSE Group * Weight[n - 1]
Limit == 2 * Weight[Full]
Value == 0..(Limit - 1)

\* No length is past the width of a value, as a usize is not.
ASSUME FramesAssumption ==
    /\ \A r \in Rooms : r \in Seq(Byte) /\ Len(r) \in Value
    /\ Recipes \subseteq [key_id : Byte, kind : Value, epoch : Value, counter : Value,
                         nonce : Byte, ciphertext : Seq(Byte)]
    /\ \A e \in Recipes : Len(e.ciphertext) \in Value

VARIABLES
    home,      \* the room the frame was sealed for
    sealed,    \* the envelope its sender made
    wire,      \* the bytes in front of the signature
    rewrites,
    reader,    \* the room of the client it reaches
    opened     \* what that client made of it

envelopeVars == <<home, sealed, wire, rewrites, reader, opened>>

-----------------------------------------------------------------------------
(* varints *)

Digit(value, shift) == (value \div Weight[shift]) % Group

\* The loop of varuint ends when the groups that are left are all zero.
Size(value) ==
    CHOOSE n \in 1..(Full + 1) :
        (n > 1 => value >= Weight[n - 1]) /\ (n <= Full => value < Weight[n])

\* One byte for each group of bits, the last one without the mark.
VarUint(value) ==
    [i \in 1..Size(value) |-> Digit(value, i - 1) + (IF i < Size(value) THEN Group ELSE 0)]
VarUint8Array(raw) == VarUint(Len(raw)) \o raw

Fail == [ok |-> FALSE, value |-> 0, next |-> 0]

\* n bytes that make a value: all but the last are marked, and a byte read at
\* the last shift may set its lowest bit only.
Spans(data, at, n) ==
    /\ at + n - 1 <= Len(data)
    /\ \A i \in 0..(n - 2) : More(data[at + i])
    /\ ~More(data[at + n - 1])
    /\ n = Full + 1 => Low(data[at + n - 1]) < 2

\* What the loop of read_varuint leaves: the number whose groups are the
\* bytes' low bits, each put in at its shift.
ReadVarUint(data, at) ==
    IF \A n \in 1..(Full + 1) : ~Spans(data, at, n) THEN Fail
    ELSE LET n == CHOOSE n \in 1..(Full + 1) : Spans(data, at, n)
         IN [ok |-> TRUE, next |-> at + n,
             value |-> CHOOSE v \in Value :
                 \A i \in 0..Full : Digit(v, i) = IF i < n THEN Low(data[at + i]) ELSE 0]

-----------------------------------------------------------------------------
(* The envelope *)

Bytes(e) ==
    <<e.key_id>> \o VarUint(e.kind) \o VarUint(e.epoch) \o VarUint(e.counter)
        \o <<e.nonce>> \o VarUint8Array(e.ciphertext)

Unread == [ok |-> FALSE]

\* Every field in its place, and nothing between the ciphertext and the signature.
ParseEnvelope(raw) ==
    IF raw = <<>> THEN Unread
    ELSE LET kind == ReadVarUint(raw, 2)
             epoch == ReadVarUint(raw, kind.next)
             counter == ReadVarUint(raw, epoch.next)
             size == ReadVarUint(raw, counter.next + 1)
             end == size.next + size.value
         IN IF ~kind.ok THEN Unread
            ELSE IF ~epoch.ok THEN Unread
            ELSE IF ~counter.ok \/ counter.next > Len(raw) THEN Unread
            ELSE IF ~size.ok \/ end # Len(raw) + 1 THEN Unread
            ELSE [ok |-> TRUE, key_id |-> raw[1], kind |-> kind.value, epoch |-> epoch.value,
                  counter |-> counter.value, nonce |-> raw[counter.next],
                  ciphertext |-> SubSeq(raw, size.next, end - 1)]

AssociatedData(room, e) ==
    VarUint8Array(<<1, 2>>) \o VarUint8Array(room) \o VarUint(e.kind) \o VarUint(e.epoch)
        \o VarUint8Array(<<e.key_id>>)

\* Mutant of SigningInput: the counter is left out.
SigningInputUncounted(room, e) ==
    AssociatedData(room, e) \o VarUint8Array(<<e.nonce>>) \o VarUint8Array(e.ciphertext)
SigningInput(room, e) ==
    AssociatedData(room, e) \o VarUint(e.counter) \o VarUint8Array(<<e.nonce>>)
        \o VarUint8Array(e.ciphertext)

-----------------------------------------------------------------------------
NotRead == [verdict |-> "none"]

\* seal: the envelope's fields, and the signature over them for the sender's room.
Seal ==
    /\ home \in Rooms /\ sealed \in Recipes
    /\ wire = Bytes(sealed)
    /\ rewrites = 0 /\ reader \in Rooms /\ opened = NotRead

Rewrite ==
    /\ opened = NotRead
    /\ rewrites < MaxRewrites
    /\ rewrites' = rewrites + 1
    /\ \E i \in 1..Len(wire), b \in Byte :
        wire' \in {ReplaceAt(wire, i, b), InsertAt(wire, i, b), RemoveAt(wire, i)}
    /\ UNCHANGED <<home, sealed, reader, opened>>

\* The layout, then the signature, over what was read and the reader's own room.
Open ==
    /\ opened = NotRead
    /\ LET e == ParseEnvelope(wire)
       IN opened' = IF ~e.ok THEN [verdict |-> "bad_envelope"]
                  ELSE IF SigningInput(reader, e) # SigningInput(home, sealed)
                  THEN [verdict |-> "bad_signature"]
                  ELSE [verdict |-> "opened", envelope |-> e]
    /\ UNCHANGED <<home, sealed, wire, rewrites, reader>>

EnvelopeInit == Seal
EnvelopeNext == Rewrite \/ Open
EnvelopeSpec == EnvelopeInit /\ [][EnvelopeNext]_envelopeVars

(* A signature is good for one frame in one room: however the bytes in front   *)
(* of it are rewritten, a client that opens the frame has the sender's room,   *)
(* kind, epoch, counter, key and ciphertext, and a frame that nobody rewrote   *)
(* is opened in its room (Envelope::parse, read_varuint and signing_input; a   *)
(* varint may be written longer than it needs to be, and still read as itself).*)
OneSignatureOneFrame ==
    /\ opened.verdict = "opened" =>
        /\ reader = home
        /\ \A f \in DOMAIN sealed : opened.envelope[f] = sealed[f]
    /\ opened.verdict \in {"bad_envelope", "bad_signature"} => rewrites > 0 \/ reader # home
=============================================================================
