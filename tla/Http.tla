-------------------------------- MODULE Http --------------------------------
(***************************************************************************)
(* One HTTP message read off a stream (clove-core/src/http.rs): a          *)
(* tracker's response, under the deadline announce_over puts on the whole  *)
(* exchange (tracker.rs), or a request to the daemon's control socket.     *)
(*                                                                         *)
(* A header line is one symbol, [name, value].  After the head the stream  *)
(* is a sequence of small numbers: digits (which are bytes of the body as  *)
(* well), Semi and Crlf, each one read.  The connection may be closed      *)
(* anywhere, and every read may take up to IoTimeout ticks.                *)
(***************************************************************************)
EXTENDS Naturals, Sequences, SequencesExt

CONSTANTS Bodies,         \* what an honest sender may mean to send
          StrangeHeads,   \* header lines of a stranger
          StrangeBytes,   \* what a stranger sends after them
          Semi, Crlf,     \* symbols above every digit
          Digits,         \* hexadecimal digits, numbers
          Numerals,       \* how a sender may write a size
          MaxChunks,      \* bound: chunks of a message
          MaxHead,        \* MAX_HEADER_BYTES
          MaxLine,        \* MAX_CHUNK_LINE
          MaxTrailer,     \* MAX_TRAILER_BYTES
          MaxBody,        \* max_body
          HttpDeadline,   \* ANNOUNCE_DEADLINE, in ticks
          IoTimeout       \* ANNOUNCE_IO_TIMEOUT

\* A header line, by what the readers make of its name.
HeaderLine == [name : {"content-length", "transfer-encoding", "malformed", "other"}, value : Nat]

ASSUME HttpAssumption ==
    /\ Digits \subseteq 0 .. 15
    /\ Semi \in Nat /\ Crlf \in Nat /\ Semi > 15 /\ Crlf > 15 /\ Semi # Crlf
    /\ Numerals \subseteq Seq(Digits) \ {<<>>} /\ MaxChunks \in Nat
    /\ Bodies \subseteq Seq(Nat) /\ StrangeBytes \subseteq Seq(Nat)
    /\ StrangeHeads \subseteq Seq(HeaderLine)
    /\ {MaxHead, MaxLine, MaxTrailer, MaxBody, HttpDeadline, IoTimeout} \subseteq Nat
    /\ MaxHead > 1 /\ MaxLine > 0 /\ MaxTrailer > 0 /\ HttpDeadline > 0

VARIABLES
    role,       \* "response" (read_response) or "request" (read_request)
    genuine,    \* the sender frames `intended` as the code or a tracker would
    intended,   \* the body meant
    framing,    \* "length", "chunked", "close", or "none" of a GET without a body
    lines,      \* the header lines sent
    wire,       \* what follows the blank line
    reach,      \* symbols that arrive, head included, before the close
    at,         \* where the reader is
    got,        \* symbols read
    need,       \* of read_exact: symbols still to come
    line,       \* of read_line: what it has
    trailers,   \* trailer_bytes
    body,       \* what the caller will get
    elapsed,    \* ticks since the exchange began
    silent      \* a read ran into its timeout

messageVars == <<role, genuine, intended, framing, lines, wire, reach>>
readerVars == <<at, got, need, line, trailers, body, elapsed, silent>>
httpVars == <<messageVars, readerVars>>

-----------------------------------------------------------------------------
(* The sender *)

LengthLine(n) == [name |-> "content-length", value |-> n]
ChunkedLine == [name |-> "transfer-encoding", value |-> 1]

\* Request::encode, Response::encode: the length is that of the body, and a
\* GET that has none declares none.
FramedHead(b, how) ==
    CASE how = "length"  -> <<LengthLine(Len(b))>>
      [] how = "chunked" -> <<ChunkedLine>>
      [] OTHER           -> <<>>

\* What a hexadecimal numeral stands for.
Value(l) == LET v[i \in 0 .. Len(l)] == IF i = 0 THEN 0 ELSE 16 * v[i - 1] + l[i] IN v[Len(l)]

\* A size as a tracker writes it, with an extension or without.
SizeLines(n) ==
    {p[1] \o p[2] : p \in {q \in Numerals \X {<<>>, <<Semi>>} :
                                Value(q[1]) = n /\ Len(q[1]) + Len(q[2]) <= MaxLine}}

\* A chunk: the size line, the data and its own line end.
Chunk(l, c) == l \o <<Crlf>> \o c \o <<Crlf>>

\* What has been sent of b, and one chunk more.
OneMore(b, s) ==
    UNION {{[wire |-> s.wire \o Chunk(l, SubSeq(b, s.held + 1, s.held + n)), held |-> s.held + n] :
                l \in SizeLines(n)} : n \in 1 .. Len(b) - s.held}

SentChunks(b) ==
    LET sent[j \in 0 .. MaxChunks] ==
            IF j = 0 THEN {[wire |-> <<>>, held |-> 0]}
            ELSE sent[j - 1] \cup UNION {OneMore(b, s) : s \in sent[j - 1]}
    IN  sent[MaxChunks]

\* Size 0, a trailer or none, and the blank line.
Endings ==
    {z \o <<Crlf, Crlf>> : z \in SizeLines(0)} \cup {z \o <<Crlf, 1, Crlf, Crlf>> : z \in SizeLines(0)}

\* All of b in chunks, and an ending.
ChunkedForms(b) ==
    UNION {{s.wire \o z : z \in Endings} : s \in {u \in SentChunks(b) : u.held = Len(b)}}

\* The status or request line, the header lines and the blank line.
HeadSize == Len(lines) + 2

HttpInit ==
    /\ role \in {"response", "request"} /\ genuine \in BOOLEAN
    /\ \/ /\ genuine
          /\ intended \in Bodies
          /\ framing \in IF role = "response" THEN {"length", "chunked", "close"}
                         ELSE IF intended = <<>> THEN {"length", "none"} ELSE {"length"}
          /\ lines = FramedHead(intended, framing)
          /\ wire \in IF framing = "chunked" THEN ChunkedForms(intended) ELSE {intended}
          /\ reach \in 0 .. HeadSize + Len(wire)
       \/ /\ ~genuine
          /\ intended = <<>> /\ framing = "close"
          /\ lines \in StrangeHeads /\ wire \in StrangeBytes
          /\ reach = HeadSize + Len(wire)
    /\ at = "head" /\ got = 0 /\ need = 0 /\ line = <<>> /\ trailers = 0 /\ body = <<>>
    /\ elapsed = 0 /\ silent = FALSE

-----------------------------------------------------------------------------
(* The reader *)

Over == {"ok", "error"}

\* Deadline::check, before every read; the control socket has none.
InTime == role = "response" => elapsed < HttpDeadline

\* One read returns: the sender takes its time.
Reads ==
    /\ InTime /\ got < reach
    /\ got' = got + 1
    /\ IF role = "response" THEN \E d \in 0 .. IoTimeout : elapsed' = elapsed + d ELSE elapsed' = elapsed
    /\ UNCHANGED <<messageVars, silent>>

\* The symbol that read returns, after the head.
Symbol == wire[got + 1 - HeadSize]

Refused == at' = "error" /\ UNCHANGED <<messageVars, got, need, line, trailers, body, elapsed, silent>>

\* The lengths declared, and whether the last coding is chunked.  A length
\* that is not all digits is a malformed line (decimal).
DeclaredLengths(ls) == {ls[i].value : i \in {j \in DOMAIN ls : ls[j].name = "content-length"}}
Codings(ls) == {i \in DOMAIN ls : ls[i].name = "transfer-encoding"}
IsChunked(ls) == \E i \in Codings(ls) : ls[i].value = 1

\* What is refused on the strength of the head: a malformed line, a length
\* over the cap; in a response two lengths that differ, in a request a second
\* length or any transfer coding.
BadHead(ls) ==
    \/ \E i \in DOMAIN ls : ls[i].name = "malformed"
    \/ \E n \in DeclaredLengths(ls) : n > MaxBody
    \/ IF role = "response" THEN \E n, m \in DeclaredLengths(ls) : n # m
       ELSE \/ \E i, j \in DOMAIN ls : i # j /\ ls[i].name = "content-length" /\ ls[j].name = "content-length"
            \/ Codings(ls) # {}

\* read_head, one read at a time up to the blank line.
ReadHead ==
    /\ at = "head" /\ got + 1 < HeadSize
    /\ got <= MaxHead
    /\ Reads
    /\ UNCHANGED <<at, need, line, trailers, body>>

\* The last length of the head, as the readers keep it.
Declared == LET c == {i \in DOMAIN lines : lines[i].name = "content-length"}
            IN  lines[CHOOSE i \in c : \A j \in c : j <= i].value

\* The blank line is there: the lines are parsed and say how the body ends.
ParseHead ==
    /\ at = "head" /\ got + 1 = HeadSize
    /\ got <= MaxHead
    /\ Reads
    /\ at' = IF BadHead(lines) THEN "error"
             ELSE IF role = "response" /\ IsChunked(lines) THEN "size"
             ELSE IF DeclaredLengths(lines) # {} THEN (IF Declared = 0 THEN "ok" ELSE "exact")
             ELSE IF role = "request" THEN "ok" ELSE "rest"
    /\ need' = IF at' = "exact" THEN Declared ELSE 0
    /\ UNCHANGED <<line, trailers, body>>

HeadTooLarge == at = "head" /\ got > MaxHead /\ Refused

\* read_exact of a declared length.
ReadExact ==
    /\ at = "exact"
    /\ Reads
    /\ body' = Append(body, Symbol)
    /\ need' = need - 1
    /\ at' = IF need = 1 THEN "ok" ELSE "exact"
    /\ UNCHANGED <<line, trailers>>

\* read_body without a length: to the close, never past the cap.
ReadRest ==
    /\ at = "rest"
    /\ Reads
    /\ IF Len(body) + 1 > MaxBody THEN at' = "error" /\ UNCHANGED body
       ELSE at' = "rest" /\ body' = Append(body, Symbol)
    /\ UNCHANGED <<need, line, trailers>>

ClosedRest ==
    /\ at = "rest" /\ got = reach /\ InTime
    /\ at' = "ok"
    /\ UNCHANGED <<messageVars, got, need, line, trailers, body, elapsed, silent>>

\* hex, of what is before the first semicolon: digits and nothing else.
FirstSemi(l) == SelectInSeq(l, LAMBDA c : c = Semi)
BeforeSemi(l) == IF FirstSemi(l) = 0 THEN l ELSE SubSeq(l, 1, FirstSemi(l) - 1)
BadSize(l) == BeforeSemi(l) = <<>> \/ \E i \in DOMAIN BeforeSemi(l) : BeforeSemi(l)[i] \notin Digits
SizeOf(l) == Value(BeforeSemi(l))

\* The decoded total is capped before a chunk is read.
ChunkFits(size) == Len(body) + size <= MaxBody

\* Where a whole line takes read_chunked_body.
AfterLine(l) ==
    CASE at = "size"    -> IF BadSize(l) THEN "error" ELSE IF SizeOf(l) = 0 THEN "trailer"
                           ELSE IF ChunkFits(SizeOf(l)) THEN "chunk" ELSE "error"
      [] at = "chunkEnd" -> IF l = <<>> THEN "size" ELSE "error"
      [] OTHER           -> IF l = <<>> THEN "ok" ELSE IF trailers + Len(l) > MaxTrailer THEN "error" ELSE "trailer"

\* read_line, one symbol at a time: it must not read past the line's end.
ReadLine ==
    /\ at \in {"size", "chunkEnd", "trailer"}
    /\ Len(line) <= MaxLine
    /\ Reads
    /\ IF Symbol # Crlf
       THEN line' = Append(line, Symbol) /\ UNCHANGED <<at, need, trailers>>
       ELSE /\ line' = <<>>
            /\ at' = AfterLine(line)
            /\ need' = IF at' = "chunk" THEN SizeOf(line) ELSE 0
            /\ trailers' = IF at = "trailer" THEN trailers + Len(line) ELSE trailers
    /\ UNCHANGED body

LineTooLong == at \in {"size", "chunkEnd", "trailer"} /\ Len(line) > MaxLine /\ Refused

ReadChunk ==
    /\ at = "chunk"
    /\ Reads
    /\ body' = Append(body, Symbol)
    /\ need' = need - 1
    /\ at' = IF need = 1 THEN "chunkEnd" ELSE "chunk"
    /\ UNCHANGED <<line, trailers>>

\* Mutant: a close in the middle of a body ends it.
Closed_Short ==
    /\ at \notin Over \cup {"rest"} /\ got = reach /\ InTime
    /\ at' = IF at \in {"exact", "chunk"} THEN "ok" ELSE "error"
    /\ UNCHANGED <<messageVars, got, need, line, trailers, body, elapsed, silent>>

\* The stream ends before the message does.
Closed ==
    /\ at \notin Over \cup {"rest"} /\ got = reach /\ InTime
    /\ Refused

\* The deadline has passed, or one read waits longer than the socket allows.
Late ==
    /\ at \notin Over
    /\ \/ ~InTime /\ UNCHANGED <<elapsed, silent>>
       \/ InTime /\ silent' = TRUE /\ elapsed' = IF role = "response" THEN elapsed + IoTimeout ELSE elapsed
    /\ at' = "error"
    /\ UNCHANGED <<messageVars, got, need, line, trailers, body>>

HttpNext ==
    \/ ReadHead \/ ParseHead \/ HeadTooLarge \/ ReadExact \/ ReadRest \/ ClosedRest
    \/ ReadLine \/ LineTooLong \/ ReadChunk \/ Closed \/ Late

HttpSpec == HttpInit /\ [][HttpNext]_httpVars

-----------------------------------------------------------------------------
(* Properties *)

\* The caps hold at every read, whatever sizes a sender announces: what is
\* buffered is bounded by our own constants (read_head, read_line,
\* read_chunked_body, read_body).
HttpTypeOK ==
    /\ at \in Over \cup {"head", "exact", "rest", "size", "chunk", "chunkEnd", "trailer"}
    /\ got \in 0 .. reach
    /\ Len(body) + need <= MaxBody
    /\ Len(line) <= MaxLine + 1
    /\ trailers <= MaxTrailer + MaxLine

\* A message that is accepted is the one that was sent, chunks, trailers and
\* all, and a connection that broke off never passes for one, but for a body
\* that only the close delimits; a genuine one that is within the cap and
\* arrives whole and in time is never refused.  What is accepted of a stranger tells one story: every
\* length it declares is that of the body, unless chunks override them.
FramingHonest ==
    /\ genuine /\ at = "ok" =>
          IF framing = "close" THEN IsPrefix(body, intended)
          ELSE body = intended /\ got = HeadSize + Len(wire)
    /\ genuine /\ at = "error" =>
          reach < HeadSize + Len(wire) \/ silent \/ ~InTime \/ Len(intended) > MaxBody
    /\ at = "ok" /\ ~(role = "response" /\ IsChunked(lines)) => DeclaredLengths(lines) \subseteq {Len(body)}

\* A tracker that trickles does not keep the announce loop: the exchange is
\* over by the deadline and one read's timeout (announce_over, Deadline).
TrickleBounded == elapsed < HttpDeadline + IoTimeout

\* A message is taken as it was sent or refused, within the caps and in time,
\* wherever the stream breaks off (read_response, read_body, Deadline).
MessageHonest == HttpTypeOK /\ FramingHonest /\ TrickleBounded
=============================================================================
