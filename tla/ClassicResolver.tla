--------------------------- MODULE ClassicResolver ---------------------------
(***************************************************************************)
(* One query of the classic resolver (src/dns/resolver/classic_native.cpp): *)
(* a UDP exchange, and a TCP exchange when the answer is truncated, each   *)
(* on a socket of its own.  The network may lose, duplicate and forge      *)
(* datagrams, and deliver the TCP stream in pieces of any size; the        *)
(* query may be cancelled at any moment through its token.  poll() returns *)
(* as soon as something is ready, so that time passes only in waits.       *)
(***************************************************************************)
EXTENDS Integers, Sequences, DnsError

CONSTANTS Timeout,    \* UDP_TIMEOUT_SEC, TCP_CONNECT_TIMEOUT_SEC
          MaxPacket,  \* MAX_DNS_PACKET_SIZE
          MaxLength   \* bound: the largest length prefix a server sends

\* A message: does it answer this query, and is its TC bit set?
Messages == [own : BOOLEAN, tc : BOOLEAN]
NoMessage == [own |-> FALSE]

Prefix == 2  \* bytes of the length prefix

VARIABLES
    query_pc,   \* where query() is
    datagram,   \* the first datagram in the UDP socket's buffer
    message,    \* what the server sends over TCP
    length,     \* the length prefix it sends
    arrived,    \* bytes of the TCP stream that have arrived,
    total,      \* bytes of the current part that have been read,
    buffer,     \* and the positions in the stream they come from
    peer,       \* "silent", "open" (connected), "closed" or "refused"
    has_token,  \* the caller gave a cancellation token
    cancelled,  \* the token's pipe is readable
    waited,     \* time spent in the current wait
    late,       \* time spent since the cancellation
    query_result, \* what query() returns
    response    \* the message it returns with "OK"

netVars  == <<datagram, message, length, arrived, peer, has_token, cancelled>>
readVars == <<total, buffer>>
vars == <<query_pc, netVars, readVars, waited, late, query_result, response>>

Start(messages, lengths) ==
    /\ query_pc = "udp_send"
    /\ datagram = NoMessage
    /\ message \in messages
    /\ length \in lengths
    /\ arrived = 0
    /\ total = 0
    /\ buffer = <<>>
    /\ peer = "silent"
    /\ has_token \in BOOLEAN
    /\ cancelled = FALSE
    /\ waited = 0
    /\ late = 0
    /\ query_result = "pending"
    /\ response = NoMessage

Init == Start(Messages, 0 .. MaxLength)

-----------------------------------------------------------------------------
(* The network and the caller *)

\* A datagram arrives: an answer, a late one to another query, or a forged one.
Deliver ==
    /\ query_pc = "udp_wait"
    /\ datagram = NoMessage
    /\ datagram' \in Messages
    /\ UNCHANGED <<query_pc, message, length, arrived, peer, has_token, cancelled, readVars, waited, late,
                   query_result, response>>

Accept ==
    /\ query_pc = "tcp_connect"
    /\ peer = "silent"
    /\ peer' \in {"open", "refused"}
    /\ UNCHANGED <<query_pc, datagram, message, length, arrived, has_token, cancelled, readVars, waited, late,
                   query_result, response>>

\* More bytes of the stream, also beyond the message.
Arrive ==
    /\ query_pc \in {"tcp_length", "tcp_body"}
    /\ peer = "open"
    /\ arrived' \in (arrived + 1) .. (Prefix + length + 1)
    /\ UNCHANGED <<query_pc, datagram, message, length, peer, has_token, cancelled, readVars, waited, late,
                   query_result, response>>

PeerCloses ==
    /\ query_pc \in {"tcp_length", "tcp_body"}
    /\ peer = "open"
    /\ peer' = "closed"
    /\ UNCHANGED <<query_pc, datagram, message, length, arrived, has_token, cancelled, readVars, waited, late,
                   query_result, response>>

Cancel ==
    /\ query_pc # "done"
    /\ has_token
    /\ ~cancelled
    /\ cancelled' = TRUE
    /\ UNCHANGED <<query_pc, datagram, message, length, arrived, peer, has_token, readVars, waited, late,
                   query_result, response>>

-----------------------------------------------------------------------------
(* Socket::wait_for and Socket::connect *)

\* The bytes of the stream that have been consumed.
Consumed == IF query_pc = "tcp_body" THEN Prefix + total ELSE total

Readable ==
    \/ query_pc = "udp_wait" /\ datagram # NoMessage
    \/ query_pc \in {"tcp_length", "tcp_body"} /\ (arrived > Consumed \/ peer = "closed")

Waiting == query_pc \in {"udp_wait", "tcp_length", "tcp_body"}

\* Mutant: readiness hides a cancellation.
WakesLate ==
    IF query_pc = "tcp_connect" THEN peer # "silent" ELSE Readable

\* poll() has something to report; connect() does not poll the token.
Wakes ==
    IF query_pc = "tcp_connect" THEN peer # "silent" ELSE Readable \/ cancelled

Tick ==
    /\ Waiting \/ query_pc = "tcp_connect"
    /\ ~Wakes
    /\ waited < Timeout
    /\ waited' = waited + 1
    /\ late' = IF cancelled THEN late + 1 ELSE late
    /\ UNCHANGED <<query_pc, netVars, readVars, query_result, response>>

Return(error) ==
    /\ query_pc' = "done"
    /\ query_result' = error
    /\ UNCHANGED <<netVars, readVars, waited, late, response>>

\* The cancellation is looked at before the data.
WaitCancelled ==
    /\ Waiting
    /\ Wakes
    /\ cancelled
    /\ Return("CANCELLED")

\* poll() returns 0; a timeout is worth a retry.
WaitTimesOut ==
    /\ Waiting \/ query_pc = "tcp_connect"
    /\ ~Wakes
    /\ waited = Timeout
    /\ Return("RETRY")

\* socket(), poll(), send() or recv() fails.
SystemFails ==
    /\ query_pc # "done"
    /\ Return("CONNECTION")

\* DNS::build_query throws: the name does not fit into a packet.
BuildFails ==
    /\ query_pc = "udp_send"
    /\ Return("PARSE")

\* set_option(TCP_NODELAY).value() throws.
OptionFails ==
    /\ query_pc = "tcp_connect"
    /\ peer = "open"
    /\ Return("UNKNOWN")

\* Data, and no cancellation: the wait is over.
Ready == Waiting /\ Wakes /\ ~cancelled

-----------------------------------------------------------------------------
(* query_udp and query_tcp *)

SendUdp ==
    /\ query_pc = "udp_send"
    /\ query_pc' = "udp_wait"
    /\ UNCHANGED <<netVars, readVars, waited, late, query_result, response>>

\* DNS::Validator::validate_response
validate_response(m) == m.own

\* Mutant: a truncated answer is returned as it is.
is_truncated_ignored(m) == FALSE

is_truncated(m) == m.tc

\* recv_from, the validation, and the fallback to TCP.
ReceiveUdp ==
    /\ query_pc = "udp_wait"
    /\ Ready
    /\ \/ /\ ~validate_response(datagram)
          /\ Return("PARSE")
       \/ /\ validate_response(datagram)
          /\ is_truncated(datagram)
          /\ query_pc' = "tcp_connect"
          /\ waited' = 0
          /\ UNCHANGED <<netVars, readVars, late, query_result, response>>
       \/ /\ validate_response(datagram)
          /\ ~is_truncated(datagram)
          /\ query_pc' = "done"
          /\ query_result' = "OK"
          /\ response' = datagram
          /\ UNCHANGED <<netVars, readVars, waited, late>>

\* The connection is there and the query is sent, or it was refused.
Connected ==
    /\ query_pc = "tcp_connect"
    /\ \/ /\ peer = "refused"
          /\ Return("CONNECTION")
       \/ /\ peer = "open"
          /\ query_pc' = "tcp_length"
          /\ waited' = 0
          /\ UNCHANGED <<netVars, readVars, late, query_result, response>>

\* How many bytes the part being read has.
PartLength == IF query_pc = "tcp_length" THEN Prefix ELSE length

\* recv_with_timeout into buf.subspan(total); the next wait starts anew.
ReceiveTcp ==
    /\ query_pc \in {"tcp_length", "tcp_body"}
    /\ Ready
    /\ total < PartLength
    /\ arrived > Consumed
    /\ \E n \in 1 .. (PartLength - total) :
          /\ n <= arrived - Consumed
          /\ total' = total + n
          /\ buffer' = buffer \o [i \in 1 .. n |-> Consumed + i]
    /\ waited' = 0
    /\ UNCHANGED <<query_pc, netVars, late, query_result, response>>

\* Mutant: the end of the stream counts as a read of nothing.
PeerClosedIgnored ==
    /\ query_pc \in {"tcp_length", "tcp_body"}
    /\ Ready
    /\ total < PartLength
    /\ arrived = Consumed
    /\ peer = "closed"
    /\ UNCHANGED vars

\* recv() returns 0.
PeerClosed ==
    /\ query_pc \in {"tcp_length", "tcp_body"}
    /\ Ready
    /\ total < PartLength
    /\ arrived = Consumed
    /\ peer = "closed"
    /\ Return("CONNECTION")

\* The prefix is complete: the length is checked, and the body comes next.
LengthRead ==
    /\ query_pc = "tcp_length"
    /\ total = PartLength
    /\ \/ /\ length = 0 \/ length > MaxPacket
          /\ Return("PARSE")
       \/ /\ length \in 1 .. MaxPacket
          /\ query_pc' = "tcp_body"
          /\ total' = 0
          /\ buffer' = <<>>
          /\ waited' = 0
          /\ UNCHANGED <<netVars, late, query_result, response>>

\* Mutant: the first piece of the body is taken for all of it.
BodyReadShort ==
    /\ query_pc = "tcp_body"
    /\ total > 0
    /\ validate_response(message)
    /\ query_pc' = "done"
    /\ query_result' = "OK"
    /\ response' = message
    /\ UNCHANGED <<netVars, readVars, waited, late>>

\* The body is complete and is validated.
BodyRead ==
    /\ query_pc = "tcp_body"
    /\ total = PartLength
    /\ \/ /\ ~validate_response(message)
          /\ Return("PARSE")
       \/ /\ validate_response(message)
          /\ query_pc' = "done"
          /\ query_result' = "OK"
          /\ response' = message
          /\ UNCHANGED <<netVars, readVars, waited, late>>

-----------------------------------------------------------------------------
query ==
    \/ SendUdp \/ ReceiveUdp \/ Connected \/ ReceiveTcp \/ PeerClosed \/ LengthRead \/ BodyRead
    \/ WaitCancelled \/ WaitTimesOut

Failure == SystemFails \/ BuildFails \/ OptionFails

Network == Deliver \/ Accept \/ Arrive \/ PeerCloses

-----------------------------------------------------------------------------
\* What the query returns answers it, whatever else arrived first, and a
\* truncated message is returned only if it came over TCP.
AnswerIsOwn ==
    query_result = "OK" => response.own /\ (response.tc => total > 0)

\* A message received over TCP is put together from the bytes that follow the
\* prefix, all of them and in order, however the stream was cut into pieces.
MessageIsWhole ==
    query_result = "OK" /\ total > 0 =>
        /\ Len(buffer) = length
        /\ \A i \in 1 .. length : buffer[i] = Prefix + i

\* A cancelled query ends before it has waited longer than a connection
\* attempt takes, the only wait that does not watch the token: the threads of
\* a batch are joined without a timeout of their own.
CancelIsPrompt == late <= Timeout
=============================================================================
