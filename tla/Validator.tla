------------------------------- MODULE Validator -------------------------------
(***************************************************************************)
(* What the program demands of a response: the checks of the validator     *)
(* (src/dns/validator.cpp), which compare it with the query.  Positions    *)
(* count from 0 as in the code.                                            *)
(***************************************************************************)
EXTENDS Integers, SequencesExt

Byte == 0 .. 255

HEADER_SIZE == 12

read_u16_be(data, p) == data[p + 1] * 256 + data[p + 2]

Has(byte, weight) == (byte \div weight) % 2 = 1

\* The end of the name at offset, 0 if the message ends before.
skip_name(msg, offset) ==
    LET skip[p \in Nat] == IF p >= Len(msg) THEN 0
                           ELSE IF msg[p + 1] = 0 THEN p + 1
                           ELSE IF msg[p + 1] >= 192 THEN p + 2
                           ELSE skip[p + 1 + msg[p + 1]]
    IN  skip[offset]

question_section_end(msg) ==
    LET off == skip_name(msg, HEADER_SIZE)
    IN  IF Len(msg) < HEADER_SIZE \/ read_u16_be(msg, 4) = 0 \/ off = 0 \/ off + 4 > Len(msg)
        THEN 0 ELSE off + 4

check_qr_bit(response) == Has(response[3], 128)

check_txid(request, response) == SubSeq(response, 1, 2) = SubSeq(request, 1, 2)

check_qdcount(response) == read_u16_be(response, 4) = 1

\* Mutant: as much of the response as the query's question is long.
check_question_echo_prefix(request, response) ==
    LET req == skip_name(request, HEADER_SIZE)
    IN  SubSeq(response, HEADER_SIZE + 1, req) = SubSeq(request, HEADER_SIZE + 1, req)

check_question_echo(request, response) ==
    LET req == question_section_end(request)
        rsp == question_section_end(response)
    IN  /\ req # 0 /\ rsp # 0
        /\ SubSeq(response, HEADER_SIZE + 1, rsp) = SubSeq(request, HEADER_SIZE + 1, req)

validate_message(request, response) ==
    /\ Len(response) >= HEADER_SIZE
    /\ check_qr_bit(response)
    /\ check_txid(request, response)
    /\ check_qdcount(response)
    /\ check_question_echo(request, response)
=============================================================================
