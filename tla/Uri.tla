---------------------------------- MODULE Uri ----------------------------------
(***************************************************************************)
(* Uri (src/network/uri.cpp).  A URI is a sequence of tokens: the          *)
(* delimiters that parse looks for (":", "/", "?", "#", "[", "]", and "."  *)
(* at the beginning; "://" where it occurs first and something is before   *)
(* it, and otherwise ":", "/" and "/"), and words between them.            *)
(***************************************************************************)
EXTENDS Integers, SequencesExt

CONSTANTS Uris,     \* the URIs to consider
          Numbers,  \* what from_chars reads from a word; other words are not numbers
          Lower,    \* the lower-case form of words that are not in it
          Ipv6Words \* the sequences that Inet6Address::parse accepts

Delimiters == {":", "://", "/", "?", "#", "[", "]", "."}

Places(s, token) == {i \in 1 .. Len(s) : s[i] = token}

\* The first and the last place of a token, behind the end if there is none.
Find(s, token) ==
    LET places == Places(s, token)
    IN  IF places = {} THEN Len(s) + 1 ELSE CHOOSE i \in places : \A j \in places : i <= j

FindLast(s, token) ==
    LET places == Places(s, token)
    IN  IF places = {} THEN Len(s) + 1 ELSE CHOOSE i \in places : \A j \in places : j <= i

Tokenized(u) == \A i, j \in Places(u, "://") : i = j /\ i > 1

ASSUME UriAssumption ==
    /\ \A u \in Uris : u \in Seq(STRING) /\ Tokenized(u)
    /\ \A w \in DOMAIN Numbers : w \in STRING \ Delimiters
    /\ \A n \in {0, 80, 443, 853} : \E w \in DOMAIN Numbers : Numbers[w] = n
    /\ \A w \in DOMAIN Lower : w \notin Delimiters /\ Lower[w] \in STRING \ (Delimiters \cup DOMAIN Lower)
    /\ \A w \in Ipv6Words : Places(w, "]") = {} /\ \E i, j \in Places(w, ":") : i # j

lowercase_range(s) == [i \in DOMAIN s |-> IF s[i] \in DOMAIN Lower THEN Lower[s[i]] ELSE s[i]]

Before(s, i) == SubSeq(s, 1, i - 1)
After(s, i)  == SubSeq(s, i + 1, Len(s))

NoPort == <<>>
KNOWN_PORTS == [http |-> 80, https |-> 443, tls |-> 853]

IsKnown(schema) == Len(schema) = 1 /\ schema[1] \in DOMAIN KNOWN_PORTS

default_port_for(schema) == IF IsKnown(schema) THEN KNOWN_PORTS[schema[1]] ELSE 0

\* Any int, also one that is not a port, and digits before other characters.
from_chars(s) == IF s # <<>> /\ s[1] \in DOMAIN Numbers THEN <<Numbers[s[1]]>> ELSE NoPort

Throws == [throws |-> TRUE]

Authority(host, port, is_ipv6) == [host |-> lowercase_range(host), port |-> port, is_ipv6 |-> is_ipv6]

parse_authority(auth) ==
    LET closing == Find(auth, "]")
        colon   == FindLast(auth, ":")
    IN  IF auth = <<>> THEN Authority(<<>>, NoPort, FALSE)
        ELSE IF auth[1] = "[" THEN
            IF closing > Len(auth) THEN Throws
            ELSE Authority(SubSeq(auth, 2, closing - 1),
                           IF closing < Len(auth) /\ auth[closing + 1] = ":"
                           THEN from_chars(After(auth, closing + 1)) ELSE NoPort,
                           TRUE)
        ELSE IF auth \in Ipv6Words THEN Authority(auth, NoPort, TRUE)
        ELSE Authority(Before(auth, colon), from_chars(After(auth, colon)), FALSE)

\* No host, and the port stays unset.
PathOnly(path) ==
    [schema |-> <<>>, host |-> <<>>, port |-> NoPort, is_ipv6 |-> FALSE, path |-> path, query |-> <<>>]

parse(uri) ==
    LET u          == Before(uri, Find(uri, "#"))
        hier_delim == Find(u, "://")
        has_scheme == hier_delim <= Len(u) /\ hier_delim > 1
        schema     == IF has_scheme THEN lowercase_range(Before(u, hier_delim)) ELSE <<>>
        body       == IF has_scheme THEN After(u, hier_delim) ELSE u
        query_pos  == Find(body, "?")
        path_pos   == Find(body, "/")
        auth       == parse_authority(Before(body, IF path_pos < query_pos THEN path_pos ELSE query_pos))
    IN  IF uri = <<>> THEN PathOnly(<<>>)
        ELSE IF ~has_scheme /\ u # <<>> /\ u[1] \in {"/", "."} THEN PathOnly(u)
        ELSE IF auth = Throws THEN Throws
        ELSE [schema |-> schema, host |-> auth.host, is_ipv6 |-> auth.is_ipv6,
              port |-> IF auth.port # NoPort THEN auth.port ELSE <<default_port_for(schema)>>,
              path |-> IF path_pos < query_pos THEN SubSeq(body, path_pos, query_pos - 1) ELSE <<>>,
              query |-> After(body, query_pos)]

get_host_literal(p) == IF p.is_ipv6 THEN <<"[">> \o p.host \o <<"]">> ELSE p.host

\* std::to_string, as the word that reads as the number.
PortWord(n) == CHOOSE w \in DOMAIN Numbers : Numbers[w] = n

\* Mutant: the port of a known scheme is always taken for the default one.
ShowsPortRarely(p) == IF p.schema = <<>> THEN p.port[1] # 0 ELSE ~IsKnown(p.schema)

ShowsPort(p) ==
    IF p.schema = <<>> THEN p.port[1] # 0
    ELSE ~(IsKnown(p.schema) /\ KNOWN_PORTS[p.schema[1]] = p.port[1])

get_origin(p) ==
    (IF p.schema = <<>> THEN <<>> ELSE p.schema \o <<"://">>)
        \o get_host_literal(p)
        \o (IF ShowsPort(p) THEN <<":", PortWord(p.port[1])>> ELSE <<>>)

\* build_base_url of the HTTP client: the host without brackets.
build_base_url(p) == p.schema \o <<"://">> \o p.host \o <<":", PortWord(p.port[1])>>

-----------------------------------------------------------------------------
VARIABLE uri

\* parse does not throw and finds a scheme or a host, and what it takes for
\* the host has no colon, unless it is an IPv6 address.
HasOrigin(u) == /\ parse(u) # Throws
                /\ parse(u).port # NoPort
                /\ parse(u).schema # <<>> \/ parse(u).host # <<>>
                /\ ~parse(u).is_ipv6 => ~Contains(parse(u).host, ":")

\* A URI is written out, as a resolver's name or for the HTTP client, and read.
Reopen ==
    /\ HasOrigin(uri)
    /\ \/ uri' = get_origin(parse(uri))
       \/ parse(uri).schema # <<>> /\ ~parse(uri).is_ipv6 /\ uri' = build_base_url(parse(uri))

\* The HTTP client connects to the scheme, host and port that the URI names,
\* and a resolver's name identifies its server: they survive being written out
\* and parsed again, default ports, brackets and upper case included.  Left out
\* is the HTTP client for an IPv6 literal, whose base URL lacks the brackets.
OriginIsStable ==
    [][LET p == parse(uri)
           q == parse(uri')
       IN  <<q.schema, q.host, q.port, q.is_ipv6>> = <<p.schema, p.host, p.port, p.is_ipv6>>]_uri
=============================================================================
