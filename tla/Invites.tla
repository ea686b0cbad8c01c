------------------------------ MODULE Invites ------------------------------
(***************************************************************************)
(* An invite's way from the host that mints it to the room the guest is    *)
(* seated in: RelaySession::host dials the server and writes the link      *)
(* (relay.rs, the protocol crate's session_url), whatever carries it may   *)
(* turn it into the page form or add to it, PeerInvite::parse takes it     *)
(* apart (peer/invite.rs), and the server reads the address that is        *)
(* dialled (net/mod.rs, parse_join_query), under a path of a proxy's       *)
(* perhaps.  Neither end dials a wss address: the client has no TLS.       *)
(*                                                                         *)
(* Text is a sequence of tokens: the delimiters, and the characters that   *)
(* room names and tokens are made of, a scheme and a parameter's name      *)
(* being one token.  Names are RFC 3986 data, so they may hold delimiters  *)
(* and what looks like an escape.  Keys keep the shape of the code's       *)
(* base64url at a smaller width: a byte has 4 bits and a digit 3 (8 and 6  *)
(* there), a key two bytes, and the last digit a bit no byte uses.         *)
(***************************************************************************)
EXTENDS Integers, Sequences

CONSTANTS
    NameLengths,  \* bound: the lengths of the room's name
    Tokens,       \* the tokens tried with each room
    RoomKey,      \* the two keys of the fragment, as bytes
    HostKey

VARIABLES
    leg,        \* who has the link: host, minted, carried, read, dialled, seated,
                \* refused; unhosted when the host itself was not seated
    mount,      \* the path that the server is reached under
    server,     \* the address the host was given
    room, token,
    carrier,    \* what happens to the link on its way
    link,       \* the link
    invite,     \* what PeerInvite::parse made of it
    join        \* what the server read

inviteVars == <<leg, mount, server, room, token, carrier, link, invite, join>>

Endpoint == <<"/", "session">>
\* is_unreserved, on the characters of the model.
Unreserved == {"a", "2", "6"}
Escapes == [c \in {"%", "&", "#"} |->
                CASE c = "%" -> <<"2", "5">> [] c = "&" -> <<"2", "6">> [] OTHER -> <<"2", "3">>]
Characters == Unreserved \cup DOMAIN Escapes
Hex == {"a", "2", "3", "5", "6"}
RoomNames == UNION {[1..n -> {"2", "6", "%", "&", "#"}] : n \in NameLengths}

KeyBytes == 2
KeyDigits == 3
Keys == [1..KeyBytes -> 0..15]

ASSUME InvitesAssumption ==
    /\ NameLengths \subseteq Nat
    /\ Tokens \subseteq Seq(Characters)
    /\ RoomKey \in Keys /\ HostKey \in Keys

-----------------------------------------------------------------------------
(* Text *)

\* The place of the first token of s that is one of cs, 0 when none is.
FirstOf(s, cs) ==
    LET places == {i \in DOMAIN s : s[i] \in cs}
    IN IF places = {} THEN 0 ELSE CHOOSE i \in places : \A j \in places : i <= j
At(s, c) == FirstOf(s, {c})
\* split_once: before and after the first c, or everything and nothing.
Before(s, c) == IF At(s, c) = 0 THEN s ELSE SubSeq(s, 1, At(s, c) - 1)
After(s, c) == IF At(s, c) = 0 THEN <<>> ELSE SubSeq(s, At(s, c) + 1, Len(s))
\* trim_end_matches('/')
Trimmed(s) ==
    LET kept == {i \in 1..Len(s) : s[i] # "/"}
    IN SubSeq(s, 1, IF kept = {} THEN 0 ELSE CHOOSE i \in kept : \A j \in kept : j <= i)
HasEndpoint(s) == Len(s) >= 2 /\ SubSeq(s, Len(s) - 1, Len(s)) = Endpoint
Stripped(s) == SubSeq(s, 1, Len(s) - 2)

\* percent_encode from the i-th character on, and percent_decode likewise.
Spelled(c) == IF c \in Unreserved THEN <<c>> ELSE <<"%">> \o Escapes[c]
PercentEncode(s) ==
    LET from[i \in 1..(Len(s) + 1)] ==
            IF i > Len(s) THEN <<>> ELSE Spelled(s[i]) \o from[i + 1]
    IN from[1]

\* A pair of digits that names none of the model's characters is some other one.
ByteOf(pair) ==
    IF \E c \in DOMAIN Escapes : Escapes[c] = pair
    THEN CHOOSE c \in DOMAIN Escapes : Escapes[c] = pair
    ELSE "other"

\* A "%" without two digits behind it stands for itself.
Escaped(s, i) == s[i] = "%" /\ i + 2 <= Len(s) /\ {s[i + 1], s[i + 2]} \subseteq Hex
PercentDecode(s) ==
    LET from[i \in 1..(Len(s) + 1)] ==
            IF i > Len(s) THEN <<>>
            ELSE IF Escaped(s, i) THEN <<ByteOf(<<s[i + 1], s[i + 2]>>)>> \o from[i + 3]
            ELSE <<s[i]>> \o from[i + 1]
    IN from[1]

-----------------------------------------------------------------------------
(* Keys *)

Digits == <<"A", "B", "C", "D", "E", "F", "G", "H">>

\* encode_chunk, the missing byte of the last chunk as zero, and the truncation.
EncodeKey(key) ==
    LET triple == key[1] * 256 + key[2] * 16
    IN <<Digits[((triple \div 512) % 8) + 1], Digits[((triple \div 64) % 8) + 1],
         Digits[((triple \div 8) % 8) + 1]>>

\* decode_key: the length, the last digit's unused bit, then the bytes, the
\* loop that writes them out being unrolled at this width.
NoKey == <<>>
DigitOf(d) == At(Digits, d) - 1
DecodeKey(text) ==
    LET value == DigitOf(text[1]) * 64 + DigitOf(text[2]) * 8 + DigitOf(text[3])
    IN IF Len(text) # KeyDigits \/ \E i \in DOMAIN text : DigitOf(text[i]) < 0 THEN NoKey
       ELSE IF DigitOf(text[KeyDigits]) % 2 # 0 THEN NoKey
       ELSE <<(value \div 32) % 16, (value \div 2) % 16>>

-----------------------------------------------------------------------------
(* The protocol crate *)

None == <<"none">>

\* room and token in this order, each with its separator.
SessionUrl(base, r, t) ==
    Trimmed(base) \o Endpoint
        \o (IF r = None THEN <<>> ELSE <<"?", "room", "=">> \o PercentEncode(r))
        \o (IF t = None THEN <<>>
            ELSE <<IF r = None THEN "?" ELSE "&", "token", "=">> \o PercentEncode(t))

\* The pairs of a query, by the places they start at, and those named k.
Starts(query) == {1} \cup {i + 1 : i \in {j \in DOMAIN query : query[j] = "&"}}
PairAt(query, i) == Before(SubSeq(query, i, Len(query)), "&")
Named(query, k) == {i \in Starts(query) : Before(PairAt(query, i), "=") = <<k>>}
Twice(query, k) == \E i, j \in Named(query, k) : i # j
Value(query, k) ==
    IF Named(query, k) = {} THEN None
    ELSE LET first == CHOOSE i \in Named(query, k) : \A j \in Named(query, k) : i <= j
         IN PercentDecode(After(PairAt(query, first), "="))

\* Mutant of ParseJoinQuery: the query is decoded before it is taken apart.
ParseJoinQueryDecoded(query) ==
    LET q == PercentDecode(query)
    IN [ok |-> ~Twice(q, "room") /\ ~Twice(q, "token"),
        room |-> Value(q, "room"), token |-> Value(q, "token")]
\* A name given twice is refused; an unknown one is passed over.
ParseJoinQuery(query) ==
    [ok |-> ~Twice(query, "room") /\ ~Twice(query, "token"),
     room |-> Value(query, "room"), token |-> Value(query, "token")]

ParseSessionUrl(url) ==
    LET j == ParseJoinQuery(After(url, "?"))
    IN [ok |-> j.ok /\ HasEndpoint(Before(url, "?")), room |-> j.room, token |-> j.token]

-----------------------------------------------------------------------------
(* The host *)

\* session_base: no base when the address has a fragment.
SessionBase(url) ==
    LET address == Before(url, "?")
    IN IF At(address, "#") # 0 THEN <<>>
       ELSE IF HasEndpoint(address) THEN Stripped(address) ELSE address

Authority == <<"ws", ":", "/", "/", "h">>
Mounts == {<<>>, <<"/", "p">>}

\* The address host was given: with or without the endpoint, a slash or an old
\* query behind it.  These it cannot be seated at: a link, the scheme that needs
\* TLS, and the endpoint with a slash, behind which it is written once more.
Addresses(m) ==
    {Authority \o m \o s : s \in {<<>>, <<"/">>, Endpoint, Endpoint \o <<"?", "room", "=", "a">>}}
Unseatable(m) ==
    {Authority \o m \o <<"#", "a">>, <<"wss">> \o Tail(Authority) \o m,
     Authority \o m \o Endpoint \o <<"/">>}
Servers(m) == Addresses(m) \cup Unseatable(m)

\* refuse_tls
RefuseTls(url) == Head(url) = "wss"

\* The request target of a dialled address: what follows the authority, or all
\* of it when a proxy sends the absolute form, which origin_form strips.
OriginForm(target) ==
    IF Head(target) = "/" THEN target
    ELSE LET after == SubSeq(target, 5, Len(target))
             i == FirstOf(after, {"/", "?"})
         IN IF i = 0 THEN <<"/">> ELSE SubSeq(after, i, Len(after))
Targets(url) == {url, SubSeq(url, Len(Authority) + 1, Len(url))}

\* What serves under mount takes it off, and the path that is left is compared
\* with the endpoint as a whole.
Upgrades(target) == Before(OriginForm(target), "?") = mount \o Endpoint
Reached(url, target) == ~RefuseTls(url) /\ Upgrades(target)

Fragment == <<"k", "=">> \o EncodeKey(RoomKey) \o <<"&", "h", "=">> \o EncodeKey(HostKey)

\* host: the base, its own dial without a room, then the link to the room.
Mint ==
    /\ leg = "host"
    /\ LET base == SessionBase(server)
           url == SessionUrl(base, None, None)
       IN IF base = <<>> THEN leg' = "unhosted" /\ UNCHANGED link
          ELSE \E target \in Targets(url) :
                 IF Reached(url, target)
                 THEN /\ link' = SessionUrl(base, room, token) \o <<"#">> \o Fragment
                      /\ leg' = "minted"
                 ELSE leg' = "unhosted" /\ UNCHANGED link
    /\ UNCHANGED <<mount, server, room, token, carrier, invite, join>>

-----------------------------------------------------------------------------
(* On its way: outside the repository *)

\* The page writes the same room, token and fragment over the browser's scheme.
PageForm(scheme) ==
    LET address == Before(Before(link, "#"), "?")
        shown == Stripped(address)
    IN <<scheme>> \o SubSeq(shown, 2, Len(shown)) \o <<"/", "?">>
          \o After(Before(link, "#"), "?") \o <<"#">> \o After(link, "#")

WithPair(l, pair) ==
    Before(l, "#") \o <<"&">> \o pair \o (IF At(l, "#") = 0 THEN <<>> ELSE <<"#">> \o After(l, "#"))

\* The last digit with the bit no byte uses.
Respelled == [link EXCEPT ![Len(link)] = Digits[DigitOf(@) + 2]]

Refusable == {"named twice", "key twice", "respelled", "cut"}
Carriers == {"as it is", "page", "tagged", "secured"} \cup Refusable

Carry ==
    /\ leg = "minted"
    /\ link' = CASE carrier = "page" -> PageForm("http")
                 [] carrier = "secured" -> PageForm("https")
                 [] carrier = "tagged" -> WithPair(PageForm("http"), <<"a", "=", "2">>)
                 [] carrier = "named twice" -> WithPair(PageForm("http"), <<"token", "=", "2">>)
                 [] carrier = "key twice" -> link \o <<"&", "k", "=">> \o EncodeKey(RoomKey)
                 [] carrier = "respelled" -> Respelled
                 [] carrier = "cut" -> Before(link, "#")
                 [] OTHER -> link
    /\ leg' = "carried"
    /\ UNCHANGED <<mount, server, room, token, carrier, invite, join>>

-----------------------------------------------------------------------------
(* The guest *)

\* page_to_endpoint: the scheme read back and the endpoint put behind the path.
SocketOf(scheme) == IF scheme = "https" THEN "wss" ELSE "ws"
PageToEndpoint(address) ==
    Trimmed(<<SocketOf(Head(address))>> \o Tail(Before(address, "?"))) \o Endpoint
        \o (IF At(address, "?") = 0 THEN <<>> ELSE <<"?">> \o After(address, "?"))
WireAddress(l) ==
    LET address == Before(l, "#")
    IN IF Head(address) \in {"http", "https"} THEN PageToEndpoint(address) ELSE address

\* set_once, for k and h: the keys, and whether each is there once and is a key.
FragmentKeys(fragment) ==
    LET key(k) == IF Named(fragment, k) = {} \/ Twice(fragment, k) THEN NoKey
                  ELSE DecodeKey(Value(fragment, k))
    IN [ok |-> NoKey \notin {key("k"), key("h")}, k |-> key("k"), h |-> key("h")]

NoInvite == [socket |-> <<>>, room |-> None, token |-> None, k |-> NoKey, h |-> NoKey]
NoJoin == [ok |-> FALSE, room |-> None, token |-> None]

Parsed ==
    LET socket == WireAddress(link)
        url == ParseSessionUrl(socket)
        keys == FragmentKeys(After(link, "#"))
    IN [ok |-> At(link, "#") # 0 /\ url.ok /\ url.room # None /\ url.token # None /\ keys.ok,
        invite |-> [socket |-> socket, room |-> url.room, token |-> url.token,
                    k |-> keys.k, h |-> keys.h]]

Parse ==
    /\ leg = "carried"
    /\ IF Parsed.ok
       THEN invite' = Parsed.invite /\ leg' = "read"
       ELSE leg' = "refused" /\ UNCHANGED invite
    /\ UNCHANGED <<mount, server, room, token, carrier, link, join>>

-----------------------------------------------------------------------------
(* The guest at the server *)

Dial ==
    /\ leg = "read"
    /\ \E target \in Targets(invite.socket) :
        IF Reached(invite.socket, target)
        THEN /\ join' = ParseJoinQuery(After(OriginForm(target), "?"))
             /\ leg' = "dialled"
        ELSE leg' = "refused" /\ UNCHANGED join
    /\ UNCHANGED <<mount, server, room, token, carrier, link, invite>>

\* The server seats the connection in the room it read; the guest compares.
Joins ==
    /\ leg = "dialled"
    /\ leg' = IF join.ok /\ join.room = room /\ join.token = token /\ join.room = invite.room
              THEN "seated" ELSE "refused"
    /\ UNCHANGED <<mount, server, room, token, carrier, link, invite, join>>

-----------------------------------------------------------------------------
InviteInit ==
    /\ leg = "host"
    /\ mount \in Mounts /\ server \in Servers(mount)
    /\ room \in RoomNames /\ token \in Tokens /\ carrier \in Carriers
    /\ link = <<>> /\ invite = NoInvite /\ join = NoJoin

InviteNext == Mint \/ Carry \/ Parse \/ Dial \/ Joins

InviteSpec == InviteInit /\ [][InviteNext]_inviteVars

(* Whatever the room and its token are called, a host is seated at every       *)
(* address but a link, a wss one, and one with a slash behind the endpoint.    *)
(* The link that it mints, as it is or as an http page and with parameters no  *)
(* one knows, seats its reader in that room with the host's two keys, and the  *)
(* address that is dialled carries no key.  As an https page it is read and    *)
(* not dialled; a link that names a parameter or a key twice, spells a key in  *)
(* a second way or has lost its fragment is not even read (session_url,        *)
(* PeerInvite::parse, decode_key, refuse_tls, origin_form and parse_join_query *)
(* agree).                                                                     *)
InvitesReachTheirRoom ==
    /\ leg = "unhosted" => server \in Unseatable(mount)
    /\ leg = "refused" => carrier \in Refusable \cup {"secured"}
    /\ carrier \in Refusable => leg \notin {"read", "dialled", "seated"}
    /\ carrier = "secured" => leg \notin {"dialled", "seated"}
    /\ leg \in {"read", "dialled", "seated"} =>
        /\ invite.k = RoomKey /\ invite.h = HostKey
        /\ \A i \in DOMAIN invite.socket : invite.socket[i] \notin {"#"} \cup {Digits[d] : d \in 1..8}
    /\ leg = "seated" => join.room = room /\ join.token = token
=============================================================================
