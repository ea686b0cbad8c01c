------------------------------- MODULE Front -------------------------------
(***************************************************************************)
(* What selvaged does with a connection before a session owns it           *)
(* (net/mod.rs): the request head read in whatever pieces the socket hands *)
(* over, the route it takes, the bytes that came behind it on their way to *)
(* the frame parser, and a page file opened while the page root is being   *)
(* rebuilt (page.rs).                                                      *)
(*                                                                         *)
(* A byte is its position in what the client sends, so a byte lost, doubled*)
(* or out of its place shows.  Connection.tla has the count of slots; here *)
(* a connection finds the server full or not.                              *)
(***************************************************************************)
EXTENDS Integers, Sequences

CONSTANTS
    MaxHeadBytes,  \* MAX_HEAD_BYTES
    ChunkBytes,    \* the buffer one read of the head fills
    MaxBehind,     \* bound: bytes the client sends behind its head
    ParserBytes,   \* bound: what the WebSocket layer asks for at once
    MaxPageBytes,  \* page::MAX_PAGE_BYTES
    Files,         \* what a page name may lead to
    MaxChanges     \* bound: changes to the page root during a request

ASSUME FrontAssumption ==
    /\ MaxHeadBytes \in Nat \ {0} /\ ChunkBytes \in Nat \ {0}
    /\ ParserBytes \in Nat \ {0} /\ MaxBehind \in Nat /\ MaxPageBytes \in Nat
    /\ MaxChanges \in Nat

VARIABLES
    request,   \* what the client sends: where the head ends and what it asks
    step,     \* how far Shared::accept is
    unread,    \* the bytes still in the socket
    buf,       \* read_http_head's buffer, then Head::request
    tail,      \* Head::tail
    stream,    \* the PrefixedStream's prefix and pos
    consumed,  \* the bytes the upgrade read
    parsed,    \* the bytes the frame parser read
    answer,    \* the status the client gets
    page,      \* respond_page's locals: canonical root, descriptor, body
    disk,      \* the page root: where it leads, what its name opens, each file
    seen       \* history: the files that were inside the root since the request

frontVars == <<request, step, unread, buf, tail, stream, consumed, parsed,
               answer, page, disk, seen>>

NoByte == <<>>
NoPage == [root |-> "none", fd |-> "none", body |-> 0]
NoStream == [prefix |-> NoByte, pos |-> 0]

(* No blank line is a head that ends nowhere. *)
NoEnd == 0
Bytes(a, b) == [i \in 1..(IF b < a THEN 0 ELSE b - a + 1) |-> a + i - 1]
Sends(end, behind) == Bytes(1, IF end = NoEnd THEN MaxHeadBytes + behind ELSE end + behind)
Behind == Bytes(request.end + 1, request.end + request.behind)

Methods == {"GET", "HEAD", "POST"}
\* page: a name page::resolve takes; climbing: one with a part it refuses.
Paths == {"session", "meta", "page", "climbing"}
HeadsSent ==
    [end : 0..(MaxHeadBytes + 1), behind : 0..MaxBehind, method : Methods,
     path : Paths, upgrade : BOOLEAN, full : BOOLEAN, pages : BOOLEAN]

Directories == {"site", "next", "outside"}
Entries == [size : 0..(MaxPageBytes + 2), place : Directories, isFile : BOOLEAN]
Disks == [root : {"site", "next"}, name : Files, file : [Files -> Entries], changes : 0..MaxChanges]
Inside(d) == {f \in Files : d.file[f].place = d.root}

FrontInit ==
    /\ request \in HeadsSent
    /\ unread = Sends(request.end, request.behind)
    /\ step = "head" /\ buf = NoByte /\ tail = NoByte /\ stream = NoStream
    /\ consumed = NoByte /\ parsed = NoByte /\ answer = "none" /\ page = NoPage
    /\ disk \in {d \in Disks : d.changes = 0 /\ \A f \in Files : d.file[f].size <= MaxPageBytes}
    /\ seen = Inside(disk)

-----------------------------------------------------------------------------
(* The head *)

\* The blank line is looked for in the whole buffer, before the bound.
HeadVerdict(b) ==
    IF request.end # NoEnd /\ Len(b) >= request.end
    THEN IF request.end > MaxHeadBytes THEN "large" ELSE "ready"
    ELSE IF Len(b) > MaxHeadBytes THEN "large" ELSE "more"

ReadHead ==
    /\ step = "head"
    /\ \E n \in 1..ChunkBytes :
        /\ n <= Len(unread)
        /\ LET all == buf \o SubSeq(unread, 1, n)
               v == HeadVerdict(all)
           IN /\ unread' = SubSeq(unread, n + 1, Len(unread))
              /\ buf' = IF v = "ready" THEN SubSeq(all, 1, request.end) ELSE all
              /\ tail' = IF v = "ready" THEN SubSeq(all, request.end + 1, Len(all)) ELSE NoByte
              /\ step' = CASE v = "more" -> "head" [] v = "ready" -> "route" [] OTHER -> "done"
              /\ answer' = IF v = "large" THEN "431" ELSE answer
    /\ UNCHANGED <<request, stream, consumed, parsed, page, disk, seen>>

\* The head times out, or the client goes away before its end: no answer.
HeadGone ==
    /\ step = "head"
    /\ step' = "done"
    /\ UNCHANGED <<request, unread, buf, tail, stream, consumed, parsed, answer, page, disk, seen>>

-----------------------------------------------------------------------------
(* The route *)

WantsSocket == request.upgrade /\ request.method = "GET"
WantsSession == WantsSocket /\ request.path = "session"

\* What accept, refuse_full and respond_plain answer in place.  "file" goes on
\* to the page root, "upgrade" to the handshake.
Route ==
    IF request.full THEN IF WantsSession THEN "upgrade" ELSE "503"
    ELSE IF WantsSocket THEN IF request.path = "session" THEN "upgrade" ELSE "404"
    ELSE IF request.method \notin {"GET", "HEAD"} THEN "405"
    ELSE IF request.path = "meta" THEN "200"
    ELSE IF request.pages /\ request.path = "page" THEN "file"
    ELSE "404"

Respond ==
    /\ step = "route"
    /\ CASE Route = "upgrade" ->
              /\ step' = "upgrade"
              /\ stream' = [prefix |-> buf, pos |-> 0]
              /\ answer' = answer
         [] Route = "file" -> step' = "root" /\ UNCHANGED <<answer, stream>>
         [] OTHER -> step' = "done" /\ answer' = Route /\ UNCHANGED stream
    /\ UNCHANGED <<request, unread, buf, tail, consumed, parsed, page, disk, seen>>

-----------------------------------------------------------------------------
(* The prefixed stream *)

\* poll_read: what is queued first, and never the queue and the socket in one read.
Left == SubSeq(stream.prefix, stream.pos + 1, Len(stream.prefix))
Source == IF Left # NoByte THEN Left ELSE unread
Polled(n) ==
    [bytes |-> SubSeq(Source, 1, n),
     stream |-> [stream EXCEPT !.pos = IF Left # NoByte THEN @ + n ELSE @],
     unread |-> IF Left # NoByte THEN unread ELSE SubSeq(unread, n + 1, Len(unread))]
\* A read hands over what is there, up to what was asked for.
Pieces(most) == 1..(IF Len(Source) < most THEN Len(Source) ELSE most)

\* The library's handshake asks until it has a whole request.
HandshakeReads ==
    /\ step = "upgrade"
    /\ Len(consumed) < request.end
    /\ \E n \in Pieces(ParserBytes) :
        LET p == Polled(n)
        IN /\ consumed' = consumed \o p.bytes
           /\ stream' = p.stream
           /\ unread' = p.unread
    /\ UNCHANGED <<request, step, buf, tail, parsed, answer, page, disk, seen>>

\* push_back, then drop_head: the queue keeps what the upgrade did not read.
PushedBack == [stream EXCEPT !.prefix = @ \o tail]
\* Mutant of Dropped: the head goes and the place reading had reached is kept.
DroppedKeepsPlace(s) == [prefix |-> SubSeq(s.prefix, s.pos + 1, Len(s.prefix)), pos |-> s.pos]
Dropped(s) == [prefix |-> SubSeq(s.prefix, s.pos + 1, Len(s.prefix)), pos |-> 0]

\* It refuses a request with anything behind it.  A full server answers and closes.
Upgraded ==
    /\ step = "upgrade"
    /\ Len(consumed) >= request.end
    /\ IF Len(consumed) > request.end
       THEN step' = "done" /\ UNCHANGED <<tail, stream, answer>>
       ELSE /\ tail' = NoByte
            /\ IF request.full
               THEN step' = "done" /\ answer' = "1013" /\ stream' = PushedBack
               ELSE step' = "session" /\ answer' = "101" /\ stream' = Dropped(PushedBack)
    /\ UNCHANGED <<request, unread, buf, consumed, parsed, page, disk, seen>>

HandshakeFails ==
    /\ step = "upgrade"
    /\ step' = "done"
    /\ UNCHANGED <<request, unread, buf, tail, stream, consumed, parsed, answer, page, disk, seen>>

FramesRead ==
    /\ step = "session"
    /\ \E n \in Pieces(ParserBytes) :
        LET p == Polled(n)
        IN /\ parsed' = parsed \o p.bytes
           /\ stream' = p.stream
           /\ unread' = p.unread
    /\ UNCHANGED <<request, step, buf, tail, consumed, answer, page, disk, seen>>

-----------------------------------------------------------------------------
(* The page *)

PageStep(here, next) == step = here /\ step' = next
PageRest == UNCHANGED <<request, unread, buf, tail, stream, consumed, parsed, disk, seen>>

NotFoundPage == step' = "done" /\ answer' = "404" /\ UNCHANGED page

\* open_within: the root is resolved, then the name opened, then the descriptor
\* asked where its file is.  The disk may change between any two of them.
CanonicalRoot ==
    /\ PageStep("root", "open")
    /\ page' = [page EXCEPT !.root = disk.root]
    /\ UNCHANGED answer /\ PageRest

OpenFile ==
    /\ PageStep("open", "check")
    /\ page' = [page EXCEPT !.fd = disk.name]
    /\ UNCHANGED answer /\ PageRest

\* Mutant of Lives: the path is looked at again, and not the descriptor.
LivesByPath == disk.file[disk.name].place
Lives == disk.file[page.fd].place

CheckWithin ==
    /\ step = "check"
    /\ IF Lives = page.root
       THEN step' = "size" /\ UNCHANGED <<page, answer>>
       ELSE NotFoundPage
    /\ PageRest

CheckSize ==
    /\ step = "size"
    /\ LET f == disk.file[page.fd]
       IN IF f.isFile /\ f.size <= MaxPageBytes
          THEN step' = "body" /\ UNCHANGED <<page, answer>>
          ELSE NotFoundPage
    /\ PageRest

\* take(MAX_PAGE_BYTES + 1): one more byte, or the end of the file or the bound.
ReadBody ==
    /\ step = "body"
    /\ LET more == page.body < disk.file[page.fd].size /\ page.body <= MaxPageBytes
       IN IF more
          THEN page' = [page EXCEPT !.body = @ + 1] /\ UNCHANGED <<step, answer>>
          ELSE IF page.body > MaxPageBytes THEN NotFoundPage
          ELSE step' = "done" /\ answer' = "file" /\ UNCHANGED page
    /\ PageRest

\* The file cannot be opened, its path not read, or the read fails.
PageFails ==
    /\ step \in {"root", "open", "check", "size", "body"}
    /\ NotFoundPage /\ PageRest

\* A build is synced into the page root: the root or the name leads elsewhere, a
\* file is moved, or one grows.
DiskEdits ==
    {[disk EXCEPT !.root = r] : r \in {"site", "next"}}
        \cup {[disk EXCEPT !.name = f] : f \in Files}
        \cup {[disk EXCEPT !.file[f].place = p] : f \in Files, p \in Directories}
        \cup {[disk EXCEPT !.file[f].size = s] : f \in Files, s \in 0..(MaxPageBytes + 2)}

DiskChanges ==
    /\ step \in {"root", "open", "check", "size", "body"}
    /\ disk.changes < MaxChanges
    /\ \E d \in DiskEdits :
        /\ d # disk
        /\ disk' = [d EXCEPT !.changes = disk.changes + 1]
    /\ seen' = seen \cup {f \in Files : disk'.file[f].place \in {disk'.root, page.root}}
    /\ UNCHANGED <<request, step, unread, buf, tail, stream, consumed, parsed, answer, page>>

FrontNext ==
    \/ ReadHead \/ HeadGone \/ Respond
    \/ HandshakeReads \/ Upgraded \/ HandshakeFails \/ FramesRead
    \/ CanonicalRoot \/ OpenFile \/ CheckWithin \/ CheckSize \/ ReadBody \/ PageFails
    \/ DiskChanges

FrontSpec == FrontInit /\ [][FrontNext]_frontVars

-----------------------------------------------------------------------------
(* Whether a head is taken depends on where it ends and not on the pieces it   *)
(* came in, and once it is, every byte behind it is read by the frame parser   *)
(* once and in order, whether it came with the head or after it                *)
(* (read_http_head, PrefixedStream, and the push_back and drop_head of         *)
(* Shared::accept).                                                            *)
FramesArriveOnce ==
    /\ answer = "431" => request.end \notin 1..MaxHeadBytes
    /\ step \notin {"head", "done"} => request.end \in 1..MaxHeadBytes
    /\ step = "session" =>
        /\ consumed = Bytes(1, request.end)
        /\ parsed \o Left \o unread = Behind

(* A page answer is at most MAX_PAGE_BYTES of a file that lay inside the page  *)
(* root at some moment of the request, however links are swapped and files     *)
(* moved or grown between open_within's and respond_page's steps.              *)
PageStaysInside ==
    answer = "file" => page.fd \in seen /\ page.body <= MaxPageBytes
=============================================================================
