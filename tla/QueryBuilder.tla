----------------------------- MODULE QueryBuilder -----------------------------
(***************************************************************************)
(* The queries the program sends: the builder of DNS messages              *)
(* (src/dns/wire/builder.cpp), byte by byte, and the header fields that    *)
(* parse_message reads back.  A name is a sequence of character codes.     *)
(***************************************************************************)
EXTENDS DnsMessage

MaxLabel == 63
MaxName  == 255

Dot    == 46
Refuse == <<-1>>  \* a DnsPacketException

Uint16 == {v \in Nat : v < 65536}

\* A static_cast<uint16_t>.
Low16(v) == v % 65536

write_uint16(v) == <<v \div 256, v % 256>>

write_uint32(v) == write_uint16(v \div 65536) \o write_uint16(v % 65536)

-----------------------------------------------------------------------------
(* Names *)

\* name.find('.', pos), behind the end if there is none.
NextDot(name, pos) ==
    LET dots == {i \in pos .. Len(name) : name[i] = Dot}
    IN  IF dots = {} THEN Len(name) + 1 ELSE CHOOSE i \in dots : \A j \in dots : i <= j

\* Where the labels begin; a dot at the end is followed by none.
LabelStarts(name) == {pos \in 1 .. Len(name) : pos = 1 \/ name[pos - 1] = Dot}

\* A label's length takes the place of the dot before it, so that there are two
\* more bytes than characters, or one with a dot at the end.
encode_name(name) ==
    LET encoded == Len(name) + IF Last(name) = Dot THEN 1 ELSE 2
    IN  IF name \in {<<>>, <<Dot>>} THEN <<0>>
        ELSE IF encoded > MaxName \/ \E pos \in LabelStarts(name) : NextDot(name, pos) - pos > MaxLabel
        THEN Refuse
        ELSE [i \in 1 .. encoded |-> IF i = encoded THEN 0
                                    ELSE IF i \in LabelStarts(name) THEN NextDot(name, i) - i
                                    ELSE name[i - 1]]

-----------------------------------------------------------------------------
(* QueryBuilder::build *)

Bit(b, weight) == IF b THEN weight ELSE 0

build_flags(m) ==
    Bit(m.qr, 32768) + (m.opcode % 16) * 2048 + Bit(m.aa, 1024) + Bit(m.tc, 512)
        + Bit(m.rd, 256) + Bit(m.ra, 128) + (m.rcode % 16)

\* The constructor, but for the random id.
Defaults ==
    [id |-> 0, qr |-> FALSE, opcode |-> 0, aa |-> FALSE, tc |-> FALSE, rd |-> TRUE, ra |-> FALSE,
     rcode |-> 0, questions |-> <<>>, edns |-> <<>>]

\* The types of its fields.
IsQuery(m) ==
    /\ {m.id, m.opcode, m.rcode} \subseteq Uint16
    /\ {m.qr, m.aa, m.tc, m.rd, m.ra} \subseteq BOOLEAN
    /\ m.questions \in Seq([qname : Seq(Byte), qtype : Uint16, qclass : Uint16])
    /\ m.edns \in Seq([size : Uint16, version : Byte, dnssec_ok : BOOLEAN,
                        options : Seq([code : Uint16, data : Seq(Byte)])])
    /\ Len(m.edns) <= 1

\* add_question and add_question_raw_qclass.
add_question(m, qname, qtype, qclass) ==
    [m EXCEPT !.questions = Append(@, [qname |-> qname, qtype |-> qtype, qclass |-> qclass])]

add_edns(m, payload_size, version, dnssec_ok, options) ==
    [m EXCEPT !.edns = <<[size |-> payload_size, version |-> version, dnssec_ok |-> dnssec_ok,
                          options |-> options]>>]

header_of(m) ==
    write_uint16(m.id) \o write_uint16(build_flags(m)) \o write_uint16(Low16(Len(m.questions)))
        \o write_uint16(0) \o write_uint16(0) \o write_uint16(Len(m.edns))

question_of(q) == encode_name(q.qname) \o write_uint16(q.qtype) \o write_uint16(q.qclass)

option_of(o) == write_uint16(o.code) \o write_uint16(Low16(Len(o.data))) \o o.data

OPT_RR_TYPE == 41

rdata_of(e) == FlattenSeq([i \in DOMAIN e.options |-> option_of(e.options[i])])

opt_record(e) ==
    encode_name(<<>>) \o write_uint16(OPT_RR_TYPE) \o write_uint16(e.size)
        \o write_uint32(e.version * 65536 + Bit(e.dnssec_ok, 32768))
        \o write_uint16(Low16(Len(rdata_of(e)))) \o rdata_of(e)

build(m) ==
    IF \/ m.questions = <<>>
       \/ \E i \in DOMAIN m.questions : encode_name(m.questions[i].qname) = Refuse
       \/ m.edns # <<>> /\ (m.edns[1].version # 0 \/ m.edns[1].size < 512)
    THEN Refuse
    ELSE header_of(m)
            \o FlattenSeq([i \in DOMAIN m.questions |-> question_of(m.questions[i])])
            \o FlattenSeq([i \in DOMAIN m.edns |-> opt_record(m.edns[i])])

\* What follows the header, and the entries it has: the questions and, with
\* EDNS, one record.
Body(packet) == SubSeq(packet, HEADER_SIZE + 1, Len(packet))

QueryLayout(m) ==
    [i \in DOMAIN m.questions |-> Question(QUESTION_FIXED_SIZE)]
        \o [i \in DOMAIN m.edns |-> Record(RR_FIXED_SIZE)]

-----------------------------------------------------------------------------
(* What parse_message reads from the header *)

parse_header(data) ==
    [id |-> read_u16_be(data, 0), qr |-> Has(data[3], 128), opcode |-> (data[3] \div 8) % 16,
     aa |-> Has(data[3], 4), tc |-> Has(data[3], 2), rd |-> Has(data[3], 1), ra |-> Has(data[4], 128),
     rcode |-> data[4] % 16, qdcount |-> read_u16_be(data, 4), arcount |-> read_u16_be(data, 10)]

-----------------------------------------------------------------------------
VARIABLE query  \* the QueryBuilder

\* The names that are a list of labels; an empty label would end the name.
Regular(name) == name \in {<<>>, <<Dot>>} \/ \A pos \in LabelStarts(name) : name[pos] # Dot

\* The counts and lengths of such a query fit in their fields.
Expressible(m) ==
    /\ build(m) # Refuse
    /\ \A i \in DOMAIN m.questions : Regular(m.questions[i].qname)
    /\ Len(m.questions) < 65536
    /\ \A i \in DOMAIN m.edns : Len(rdata_of(m.edns[i])) < 65536

\* What decompress_name gives back, 46 between the labels.
NameBack(name) == IF name # <<>> /\ Last(name) = Dot THEN Front(name) ELSE name

\* A server's response that repeats the questions of a query.
Echo(packet) == [packet EXCEPT ![3] = IF @ >= 128 THEN @ ELSE @ + 128]

SameQuestion(m, n) ==
    /\ m.id = n.id
    /\ Len(n.questions) = 1
    /\ NameBack(m.questions[1].qname) = NameBack(n.questions[1].qname)
    /\ m.questions[1].qtype = n.questions[1].qtype
    /\ m.questions[1].qclass = n.questions[1].qclass
=============================================================================
