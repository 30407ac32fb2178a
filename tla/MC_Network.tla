------------------------------ MODULE MC_Network ------------------------------
(***************************************************************************)
(* Headers and bodies around limits of four and three bytes, with initial  *)
(* and read buffers of two: every size below, at and above each limit.     *)
(* All DNS messages of up to six bytes that are a length, a position or a  *)
(* pointer, read as a question or as two records (whose fixed parts are    *)
(* one and two bytes here, four and ten in the queries), with two pointers *)
(* allowed and three possible.  TCP messages of up to three bytes, under   *)
(* prefixes that announce none to four, and timeouts of two ticks.  Two    *)
(* socket objects, three descriptors, transfers of two bytes and three     *)
(* calls in a row.  Queries with names at each limit of the encoding.      *)
(***************************************************************************)
EXTENDS Network

Plain(framing, lengths, payloads) ==
    [header : 1 .. 5, well_formed : {TRUE}, framing : {framing}, length : lengths,
     payload : payloads]

DataOnly == {<<>>, <<"D">>, <<"D", "D">>, <<"D", "D", "D">>, <<"D", "D", "D", "D">>}

Chunked ==
    {<<"S", "D", "D", "S", "E">>, <<"S", "D", "S", "D", "D", "S", "E">>,
     <<"S", "D", "D", "S", "D", "D", "S", "E">>, <<"S", "D", "D", "D", "D", "X">>,
     <<"S", "D", "X", "E">>, <<"S", "D", "D", "S">>, <<"E">>, <<"E", "D">>, <<>>}

MCServers ==
    Plain("length", 0 .. 4, DataOnly)
        \cup Plain("chunked", {0}, Chunked)
        \cup Plain("none", {0}, {<<>>, <<"D">>})
        \cup [header : 1 .. 5, well_formed : {FALSE}, framing : {"none"}, length : {0}, payload : {<<>>}]

MCWires == UNION {[1 .. n -> {0, 1, 2, 4, 192}] : n \in 0 .. 6}
               \cup [1 .. 4 -> {0, 1, 63, 64, 191, 192, 193}]

MCLayouts == {<<Question(1)>>, <<Record(2), Record(2)>>}

-----------------------------------------------------------------------------
Letters(n) == [i \in 1 .. n |-> 97]
Labels(n, m) == FlattenSeq([i \in 1 .. n |-> Letters(m) \o <<Dot>>])

\* No label, one, two; with and without the dot at the end; an empty label;
\* labels of 63 and 64 bytes, and names of 255 and 256.
MCNames ==
    {<<>>, <<Dot>>, Letters(1), Letters(1) \o <<Dot>>, Letters(1) \o <<Dot>> \o Letters(2),
     Letters(1) \o <<Dot, Dot>> \o Letters(1), Letters(63), Letters(64),
     Labels(3, 63) \o Letters(61), Labels(3, 63) \o Letters(62), Labels(3, 63) \o Letters(61) \o <<Dot>>}

Asked(m, name) == add_question(m, name, 1, 1)
Short == Letters(1)

MCQueries ==
    {Asked(Defaults, n) : n \in MCNames}
        \cup {Defaults, [Asked(Defaults, Short) EXCEPT !.id = 258, !.rd = FALSE],
              [Asked(Defaults, Short) EXCEPT !.opcode = 5, !.aa = TRUE, !.tc = TRUE, !.ra = TRUE, !.rcode = 3],
              add_question(Defaults, Short, 28, 1), add_question(Defaults, Short, 1, 32769),
              add_question(Asked(Defaults, Short), Letters(2), 28, 1)}
        \cup {add_edns(Asked(Defaults, Short), s, v, TRUE, <<[code |-> 10, data |-> <<1, 2>>]>>) :
                 s \in {511, 512, 4096}, v \in {0, 1}}

-----------------------------------------------------------------------------
MCNumbers == ("0" :> 0) @@ ("80" :> 80) @@ ("443" :> 443) @@ ("853" :> 853) @@ ("70000" :> 70000) @@ ("53" :> 53)
MCLower == ("HTTPS" :> "https") @@ ("Host" :> "host")
MCIpv6 == {<<":", ":", "1">>}

MCHosts == {<<>>, <<"host">>, <<"Host">>, <<"[", ":", ":", "1", "]">>, <<":", ":", "1">>, <<"[", ":">>,
            <<"a", ":", "b">>}
Written ==
    {s \o h \o p \o r : s \in {<<>>} \cup {<<n, "://">> : n \in {"http", "HTTPS", "tls", "ftp"}},
                        h \in MCHosts,
                        p \in {<<>>, <<":">>, <<":", "x">>} \cup {<<":", w>> : w \in {"0", "443", "70000"}} \cup {<<":", "53", "x">>},
                        r \in {<<>>, <<"/", "p", "?", "q">>, <<"?", "q", "/">>, <<"#", "://", "f">>,
                              <<"#", ":", "/", "/", "f">>}}
        \cup {<<".", "/", "p">>, <<"host", "/", "p", "?", "x", "://", "host">>}

MCUris == {u \in Written : Tokenized(u)}

-----------------------------------------------------------------------------
Entry(name, family, address) ==
    [name |-> name, flags |-> {"up"},
     addr |-> [family |-> family, class |-> "global", text |-> address, scope |-> 0]]

MCLinks == {<<Entry("eth0", "IPV4", "192.0.2.1"), Entry("wlan0", "IPV6", "2001:db8::1")>>,
            <<Entry("eth0", "IPV4", "192.0.2.2"), Entry("eth0", "IPV6", "2001:db8::2")>>}
MCIfNames == <<"eth0", "wlan0">>
MCSources == [type : {"A", "AAAA"}, interface : {"", "eth0", "gone"}]
Rr(type) == [type |-> type]
MCDatagrams ==
    [well_formed : {TRUE}, records : {<<>>, <<Rr("A")>>, <<Rr("TXT"), Rr("AAAA"), Rr("A")>>}]
        \cup [well_formed : {FALSE}, records : {<<>>}]
=============================================================================
