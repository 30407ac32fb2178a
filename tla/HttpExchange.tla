----------------------------- MODULE HttpExchange -----------------------------
(***************************************************************************)
(* Http::exchange (src/http): the request is sent, the response read in    *)
(* pieces of any size, its header parsed and its body framed by            *)
(* Content-Length or by chunks.  The stream is a sequence of symbols: "H"  *)
(* a byte of the header, "D" a byte of body data, "S" a byte of a chunk's  *)
(* framing, "E" the last byte of the last chunk, "X" a byte that no chunk  *)
(* can have there.  After the last symbol the peer closes.                 *)
(***************************************************************************)
EXTENDS Integers, Sequences, FiniteSets

CONSTANTS Servers,        \* the responses to consider
          InitialBufSize, \* INITIAL_BUF_SIZE
          MaxHeaderSize,  \* MAX_HEADER_SIZE
          MaxBodySize,    \* MAX_BODY_SIZE
          ReadSize        \* the size of read_body's read_buf

(***************************************************************************)
(* A response: the length of its header, its framing and the payload.      *)
(* length is the value of Content-Length; well_formed says whether the     *)
(* header is one.                                                          *)
(***************************************************************************)
ServerSet ==
    [header : Nat, well_formed : BOOLEAN, framing : {"length", "chunked", "none"},
     length : Nat, payload : Seq({"D", "S", "E", "X"})]

ASSUME HttpAssumption ==
    /\ Servers \subseteq ServerSet
    /\ InitialBufSize \in Nat \ {0}
    /\ MaxHeaderSize \in Nat \ {0}
    /\ MaxBodySize \in Nat
    /\ ReadSize \in Nat \ {0}

VARIABLES
    server,      \* the response this server gives
    pc,          \* "send", "headers", "exact", "chunks", "done"
    buf_size,    \* buf.size() of read_response
    total_read,  \* bytes of the stream read so far
    decoded,     \* bytes of the stream the chunk decoder has seen
    body,        \* the positions in the payload of the bytes of the body
    result,      \* "pending", "OK" or an Http::Error
    fault        \* history: the transport failed

vars == <<server, pc, buf_size, total_read, decoded, body, result, fault>>

Min2(a, b) == IF a <= b THEN a ELSE b

IoErrors == {"TIMEOUT", "CANCELLED", "CONNECTION_FAILED"}

\* The elements of S that have k of S up to themselves, and S in ascending order.
Ranked(S, k) == {x \in S : Cardinality({y \in S : y <= x}) = k}
Ascending(S) == [k \in 1 .. Cardinality(S) |-> CHOOSE x \in Ranked(S, k) : TRUE]

StreamLen == server.header + Len(server.payload)

Start(servers) ==
    /\ server \in servers
    /\ pc = "send"
    /\ buf_size = Min2(InitialBufSize, MaxHeaderSize)
    /\ total_read = 0
    /\ decoded = 0
    /\ body = <<>>
    /\ result = "pending"
    /\ fault = FALSE

Init == Start(Servers)

Ends(outcome) ==
    /\ pc' = "done"
    /\ result' = outcome
    /\ UNCHANGED <<server, buf_size, total_read, decoded>>

Send ==
    /\ pc = "send"
    /\ pc' = "headers"
    /\ UNCHANGED <<server, buf_size, total_read, decoded, body, result, fault>>

\* send_all, read_some or read_exact fails.
IoFails ==
    /\ pc # "done"
    /\ \E error \in IoErrors : Ends(error)
    /\ fault' = TRUE
    /\ UNCHANGED body

-----------------------------------------------------------------------------
(* read_response and parse_response *)

Incomplete == total_read < server.header

\* Mutant: the limit is checked one byte late.
HeadersTooLargeLate == total_read > MaxHeaderSize

HeadersTooLarge == total_read >= MaxHeaderSize

\* The buffer doubles when it is full.
Grown == IF total_read = buf_size THEN Min2(buf_size * 2, MaxHeaderSize) ELSE buf_size

\* More of the header is needed.  A read into an empty span looks like the end
\* of the stream.
ReadHeaders ==
    /\ pc = "headers"
    /\ Incomplete
    /\ ~HeadersTooLarge
    /\ \/ \E n \in 1 .. Min2(Grown - total_read, StreamLen - total_read) :
             /\ total_read' = total_read + n
             /\ buf_size' = Grown
             /\ UNCHANGED <<server, pc, decoded, body, result, fault>>
       \/ /\ Min2(Grown - total_read, StreamLen - total_read) = 0
          /\ Ends("CONNECTION_FAILED")
          /\ UNCHANGED <<body, fault>>

\* The parser may notice a malformed header before all of it is there.
RejectHeaders ==
    /\ pc = "headers"
    /\ \/ Incomplete /\ HeadersTooLarge /\ Ends("HEADERS_TOO_LARGE")
       \/ total_read > 0 /\ ~server.well_formed /\ Ends("HEADER_PARSE_FAILED")
       \/ /\ ~Incomplete /\ server.well_formed
          /\ server.framing = "length" /\ server.length > MaxBodySize
          /\ Ends("BODY_TOO_LARGE")
    /\ UNCHANGED <<body, fault>>

-----------------------------------------------------------------------------
(* read_body *)

body_buffered == total_read - server.header

copy_size == Min2(body_buffered, server.length)

\* The header is complete; what came with it is the start of the body.
StartBody ==
    /\ pc = "headers"
    /\ ~Incomplete
    /\ server.well_formed
    /\ \/ /\ server.framing = "none"
          /\ Ends("OK")
          /\ UNCHANGED <<body, fault>>
       \/ /\ server.framing = "length"
          /\ server.length <= MaxBodySize
          /\ body' = [i \in 1 .. copy_size |-> i]
          /\ pc' = "exact"
          /\ UNCHANGED <<server, buf_size, total_read, decoded, result, fault>>
       \/ /\ server.framing = "chunked"
          /\ pc' = "chunks"
          /\ UNCHANGED <<server, buf_size, total_read, decoded, body, result, fault>>

\* read_exact of what is missing, and the end of a body with Content-Length.
ReadExact ==
    /\ pc = "exact"
    /\ \/ /\ body_buffered >= server.length
          /\ Ends("OK")
          /\ UNCHANGED body
       \/ /\ body_buffered < server.length
          /\ server.length <= Len(server.payload)
          /\ Ends("OK")
          /\ body' = body \o [i \in 1 .. (server.length - body_buffered) |-> body_buffered + i]
       \/ /\ body_buffered < server.length
          /\ server.length > Len(server.payload)
          /\ Ends("CONNECTION_FAILED")
          /\ UNCHANGED body
    /\ UNCHANGED fault

(***************************************************************************)
(* phr_decode_chunked on the bytes between decoded and total_read: it      *)
(* stops at the end of the last chunk or at a malformed byte, and leaves   *)
(* the data of the chunks.                                                 *)
(***************************************************************************)
Input == (decoded + 1) .. body_buffered

Stops(i) == server.payload[i] \in {"E", "X"}

Seen == {i \in Input : \A j \in decoded + 1 .. i - 1 : ~Stops(j)}

Data == Ascending({i \in Seen : server.payload[i] = "D"})

DecodeEnd == IF \E i \in Seen : server.payload[i] = "X" THEN "malformed"
             ELSE IF \E i \in Seen : server.payload[i] = "E" THEN "complete"
             ELSE "incomplete"

TooLarge == Data # <<>> /\ Len(body) + Len(Data) > MaxBodySize

Decode ==
    /\ pc = "chunks"
    /\ decoded < body_buffered
    /\ \/ /\ DecodeEnd = "malformed"
          /\ Ends("CHUNK_PARSE_FAILED")
          /\ UNCHANGED body
       \/ /\ DecodeEnd # "malformed"
          /\ TooLarge
          /\ Ends("BODY_TOO_LARGE")
          /\ UNCHANGED body
       \/ /\ DecodeEnd = "complete"
          /\ ~TooLarge
          /\ body' = body \o Data
          /\ Ends("OK")
       \/ /\ DecodeEnd = "incomplete"
          /\ ~TooLarge
          /\ body' = body \o Data
          /\ decoded' = body_buffered
          /\ UNCHANGED <<server, pc, buf_size, total_read, result>>
    /\ UNCHANGED fault

\* Mutant: the end of the stream counts as a read of nothing.
ReadChunkEofIgnored ==
    /\ pc = "chunks"
    /\ decoded = body_buffered
    /\ \E n \in 0 .. Min2(ReadSize, StreamLen - total_read) :
          total_read' = total_read + n
    /\ UNCHANGED <<server, pc, buf_size, decoded, body, result, fault>>

\* Everything is decoded and the last chunk has not come: read_some.
ReadChunk ==
    /\ pc = "chunks"
    /\ decoded = body_buffered
    /\ \/ \E n \in 1 .. Min2(ReadSize, StreamLen - total_read) :
             /\ total_read' = total_read + n
             /\ UNCHANGED <<server, pc, buf_size, decoded, body, result>>
       \/ /\ total_read = StreamLen
          /\ Ends("CONNECTION_FAILED")
          /\ UNCHANGED body
    /\ UNCHANGED fault

-----------------------------------------------------------------------------
Step == Send \/ ReadHeaders \/ RejectHeaders \/ StartBody \/ ReadExact \/ Decode \/ ReadChunk

Next == Step \/ IoFails

Spec == Init /\ [][Next]_vars

-----------------------------------------------------------------------------
(***************************************************************************)
(* What a response comes to, seen as a whole: the reference for what       *)
(* exchange() makes of it piece by piece.                                  *)
(***************************************************************************)
InChunks(s) == {i \in 1 .. Len(s.payload) : \A j \in 1 .. i - 1 : s.payload[j] \notin {"E", "X"}}

ChunkData(s) == Ascending({i \in InChunks(s) : s.payload[i] = "D"})

ChunksEnd(s, symbol) == \E i \in InChunks(s) : s.payload[i] = symbol

WholeBody(s) ==
    CASE s.framing = "none"    -> <<>>
      [] s.framing = "length"  -> [i \in 1 .. s.length |-> i]
      [] s.framing = "chunked" -> ChunkData(s)

WholeOutcomes(s) ==
    IF ~s.well_formed
    THEN {"HEADER_PARSE_FAILED"} \cup (IF s.header > MaxHeaderSize THEN {"HEADERS_TOO_LARGE"} ELSE {})
    ELSE IF s.header > MaxHeaderSize THEN {"HEADERS_TOO_LARGE"}
    ELSE CASE s.framing = "none" -> {"OK"}
           [] s.framing = "length" ->
                IF s.length > MaxBodySize THEN {"BODY_TOO_LARGE"}
                ELSE IF s.length > Len(s.payload) THEN {"CONNECTION_FAILED"} ELSE {"OK"}
           [] s.framing = "chunked" ->
                LET large == Len(ChunkData(s)) > MaxBodySize IN
                IF ChunksEnd(s, "X")
                THEN {"CHUNK_PARSE_FAILED"} \cup (IF large THEN {"BODY_TOO_LARGE"} ELSE {})
                ELSE IF large THEN {"BODY_TOO_LARGE"}
                ELSE IF ChunksEnd(s, "E") THEN {"OK"} ELSE {"CONNECTION_FAILED"}

\* Unless the transport fails, the outcome depends on the response alone: the
\* same bytes give the same result and the same body however the network cuts
\* them, at the edges of the buffers and the limits too.
SplitIndependent ==
    pc = "done" /\ ~fault =>
        /\ result \in WholeOutcomes(server)
        /\ result = "OK" => body = WholeBody(server)
=============================================================================
