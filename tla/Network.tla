-------------------------------- MODULE Network --------------------------------
(***************************************************************************)
(* The parts of the program that face the network, below the resolvers and *)
(* the IP sources: a query of the classic resolver, an HTTP exchange, the  *)
(* parser of DNS messages and the builder of queries, sockets, the mDNS    *)
(* source, and URIs.  They share no state; a behaviour is of one of them.  *)
(* A query that was built is read by the same parser as a server's message *)
(* is.                                                                     *)
(***************************************************************************)
EXTENDS HttpExchange, QueryBuilder, Uri

CONSTANTS Timeout, MaxPacket, MaxLength,      \* of ClassicResolver
          Sockets, Fds, Length, MaxCalls,     \* of Socket
          MdnsSources, Links, IfNames, MdnsDatagrams, MdnsTimeout,  \* of Mdns
          Queries                             \* what QueryBuilder is asked to build

ASSUME NetworkAssumption ==
    /\ Timeout \in Nat \ {0} /\ MaxPacket \in Nat \ {0} /\ MaxLength \in Nat
    /\ Fds \subseteq Nat /\ Length \in Nat \ {0} /\ MaxCalls \in Nat
    /\ MdnsTimeout \in Nat \ {0}

ASSUME QueryAssumption == \A m \in Queries : IsQuery(m)

VARIABLES
    part,                                                           \* whose behaviour this is
    query_pc, datagram, message, length, arrived, total, buffer, peer, has_token,
    cancelled, waited, late, query_result, response,                \* of ClassicResolver
    fd, stream, owner, nonblocking, call, moved, calls,             \* of Socket
    source, link, at, open, bound_to, if_index, mreq, membership, inbox, elapsed,
    results, ended                                                  \* of Mdns

Classic   == INSTANCE ClassicResolver
Posix     == INSTANCE Socket
Multicast == INSTANCE Mdns

classicVars == <<query_pc, datagram, message, length, arrived, total, buffer, peer, has_token,
                 cancelled, waited, late, query_result, response>>
socketVars  == <<fd, stream, owner, nonblocking, call, moved, calls>>
mdnsVars    == <<source, link, at, open, bound_to, if_index, mreq, membership, inbox, elapsed,
                 results, ended>>
networkVars == <<part, vars, messageVars, classicVars, socketVars, mdnsVars, query, uri>>

Parts == {"http", "message", "query", "classic", "socket", "mdns", "uri"}

One(S) == {CHOOSE x \in S : TRUE}

Packet == build(query)

NetworkInit ==
    /\ part \in Parts
    /\ Start(IF part = "http" THEN Servers ELSE One(Servers))
    /\ IF part = "classic" THEN Classic!Init ELSE Classic!Start(One(Classic!Messages), {0}) /\ ~has_token
    /\ Posix!SocketInit
    /\ Multicast!MdnsStart(IF part = "mdns" THEN MdnsSources ELSE One(MdnsSources),
                      IF part = "mdns" THEN Links ELSE One(Links))
    /\ query \in (IF part = "query" THEN Queries ELSE {Defaults})
    /\ CASE part = "message" -> MessageInit
         [] part = "query" /\ Packet # Refuse -> MessageStart({Body(Packet)}, {QueryLayout(query)})
         [] OTHER -> MessageStart({<<>>}, {<<>>})
    /\ uri \in (IF part = "uri" THEN Uris ELSE {<<>>})

\* Part p takes a step; the others keep still.
Only(p) ==
    /\ part = p
    /\ part' = part
    /\ p # "http" => UNCHANGED vars
    /\ p \notin {"message", "query"} => UNCHANGED messageVars
    /\ p # "classic" => UNCHANGED classicVars
    /\ p # "socket" => UNCHANGED socketVars
    /\ p # "mdns" => UNCHANGED mdnsVars
    /\ p # "uri" => UNCHANGED uri
    /\ UNCHANGED query

exchange       == Step /\ Only("http")
exchange_fails == IoFails /\ Only("http")
parse_untrusted == parse_message /\ Only("message")
parse_own      == parse_message /\ Only("query")
classic_query  == Classic!query /\ Only("classic")
classic_tick   == Classic!Tick /\ Only("classic")
classic_world  == (Classic!Failure \/ Classic!Network \/ Classic!Cancel) /\ Only("classic")
socket_step    == Posix!SocketStep /\ Only("socket")
socket_world   == (Posix!SocketCalls \/ Posix!SocketWorld) /\ Only("socket")
mdns_step      == Multicast!resolve_mdns /\ Only("mdns")
mdns_world     == (Multicast!Datagrams \/ Multicast!LinkChanges) /\ Only("mdns")
reopen         == Reopen /\ Only("uri")

NetworkNext ==
    \/ exchange \/ exchange_fails \/ parse_untrusted \/ parse_own
    \/ classic_query \/ classic_tick \/ classic_world
    \/ socket_step \/ socket_world
    \/ mdns_step \/ mdns_world
    \/ reopen

NetworkSpec == NetworkInit /\ [][NetworkNext]_networkVars

(***************************************************************************)
(* The threads run and time passes: every read of a transport returns, and *)
(* every system call of a socket does, interrupted or not.  The network    *)
(* owes nothing, nor need anything fail.                                   *)
(***************************************************************************)
FairNetworkSpec ==
    /\ NetworkSpec
    /\ WF_networkVars(exchange)
    /\ WF_networkVars(parse_untrusted) /\ WF_networkVars(parse_own)
    /\ WF_networkVars(classic_query) /\ WF_networkVars(classic_tick)
    /\ WF_networkVars(socket_step)
    /\ WF_networkVars(mdns_step)

-----------------------------------------------------------------------------
\* Whatever the network sends, or does not send, what was begun comes to its
\* end: an exchange whose stream stops, a message whose pointers go in a
\* circle, a query to a server that trickles or never comes, a call of a
\* socket, and an mDNS query that nobody answers.
NetworkEnds ==
    []<>(CASE part = "http"    -> pc = "done"
           [] part \in {"message", "query"} -> parser \notin {"name", "fixed"}
           [] part = "classic" -> query_pc = "done"
           [] part = "socket"  -> call.step = "return"
           [] part = "mdns"    -> at = "done"
           [] part = "uri"     -> TRUE)

\* What a query of the classic resolver returns answers it and is put together
\* from all of its bytes; a cancelled one ends in time, see ClassicResolver.
AnswerIsOwn    == Classic!AnswerIsOwn /\ Classic!MessageIsWhole
CancelIsPrompt == Classic!CancelIsPrompt

\* A Socket uses no descriptor but its own, and its calls succeed only when
\* their work is done, see Socket.
DescriptorsAreOwn == Posix!DescriptorsAreOwn
SuccessIsWhole    == Posix!SuccessIsWhole

\* The mDNS source leaves its group and returns fitting addresses, see Mdns.
MulticastIsClean == Multicast!MembershipIsLeft /\ Multicast!MdnsFits

(***************************************************************************)
(* A query says what it was built from.  The parser reads from it the      *)
(* header and the name that the builder was given, entry by entry to the   *)
(* last byte, and the validator takes the echo of exactly the queries that *)
(* ask the same under the same id.  Names with an empty label are left     *)
(* out: the builder lets them pass, and the name ends there.               *)
(***************************************************************************)
QueryIsRead ==
    part = "query" /\ Expressible(query) =>
        LET header == parse_header(Packet) IN
        /\ parser \in {"name", "fixed", "end"}
        /\ parser = "fixed" /\ Head(left).kind = "question" =>
              text = NameBack(query.questions[Len(query.questions) - Len(left) + Len(query.edns) + 1].qname)
        /\ parser = "end" => offset = size
        /\ header = [f \in DOMAIN header |->
                        CASE f = "qdcount" -> Len(query.questions)
                          [] f = "arcount" -> Len(query.edns)
                          [] f \in {"opcode", "rcode"} -> query[f] % 16
                          [] OTHER -> query[f]]
        /\ \A other \in {q \in Queries : Expressible(q)} :
              Len(query.questions) = 1 =>
                  (validate_message(Packet, Echo(build(other))) <=> SameQuestion(query, other))
=============================================================================
