----------------------------- MODULE DnsMessage -----------------------------
(***************************************************************************)
(* The walk over a DNS message: parse_message with decompress_name, which  *)
(* reads a name that may continue anywhere else in the message, and the    *)
(* validator's skip_name, which only looks for the name's end.  Positions  *)
(* count from 0 as in the code; the header, whose counts the layout stands *)
(* for, is left out.                                                       *)
(***************************************************************************)
EXTENDS FiniteSets, Validator

CONSTANTS Wires,              \* the messages to consider, sequences of bytes
          Layouts,            \* the entries they claim to have, in order
          MAX_POINTER_DEPTH

\* An entry, with the number of bytes after its name; the last two of a record's
\* are RDLENGTH.
Question(fixed) == [kind |-> "question", fixed |-> fixed]
Record(fixed)   == [kind |-> "record", fixed |-> fixed]

Entries ==
    [kind : {"question"}, fixed : Nat] \cup [kind : {"record"}, fixed : Nat \ {0, 1}]

\* The sizes of the protocol.
QUESTION_FIXED_SIZE == 4
RR_FIXED_SIZE       == 10

ASSUME MessageAssumption ==
    /\ Wires \subseteq Seq(Byte)
    /\ Layouts \subseteq Seq(Entries)
    /\ MAX_POINTER_DEPTH \in Nat

VARIABLES
    wire,
    left,     \* entries still to be read
    parser,   \* "name", "fixed", "end", or why it threw; "undefined" if it
              \* wrote outside the array visited
    start,    \* where the current entry starts
    offset,
    current,
    jumped,
    visited,  \* targets of the pointers followed
    text      \* result of decompress_name, with 46 for the dots

nameVars    == <<start, current, jumped, visited, text>>
messageVars == <<wire, left, parser, offset, nameVars>>

At(p) == wire[p + 1]
size  == Len(wire)

\* The next entry starts at p.
BeginName(p) ==
    /\ start' = p
    /\ current' = p
    /\ jumped' = FALSE
    /\ visited' = <<>>
    /\ text' = <<>>

MessageStart(wires, layouts) ==
    /\ wire \in wires
    /\ left \in layouts
    /\ parser = IF left = <<>> THEN "end" ELSE "name"
    /\ start = 0 /\ offset = 0 /\ current = 0
    /\ jumped = FALSE /\ visited = <<>> /\ text = <<>>

MessageInit == MessageStart(Wires, Layouts)

Stop(why) ==
    /\ parser' = why
    /\ UNCHANGED <<wire, left, offset, nameVars>>

-----------------------------------------------------------------------------
(* decompress_name *)

Reading == parser = "name" /\ current < size

IsPointer == At(current) >= 192
Target    == (At(current) - 192) * 256 + At(current + 1)

\* Mutant: one pointer too many is followed.
TooManyLate == Len(visited) > MAX_POINTER_DEPTH

TooMany == Len(visited) >= MAX_POINTER_DEPTH

RejectName ==
    /\ parser = "name"
    /\ \/ current >= size
       \/ current < size /\ IsPointer /\ current + 2 > size
       \/ current + 2 <= size /\ IsPointer /\ (TooMany \/ Contains(visited, Target))
       \/ current < size /\ At(current) \in 64 .. 191
       \/ current < size /\ At(current) \in 1 .. 63 /\ current + 1 + At(current) > size
    /\ Stop("bad_name")

\* The entry ends behind its first pointer.
EntryEnd == IF jumped THEN offset ELSE current + 2

FollowPointer ==
    /\ Reading
    /\ IsPointer
    /\ current + 2 <= size
    /\ ~TooMany
    /\ ~Contains(visited, Target)
    /\ IF Len(visited) < MAX_POINTER_DEPTH
       THEN /\ visited' = Append(visited, Target)
            /\ offset' = EntryEnd
            /\ jumped' = TRUE
            /\ current' = Target
            /\ UNCHANGED <<wire, left, parser, start, text>>
       ELSE Stop("undefined")

ReadLabel ==
    LET len == At(current)
        dot == IF text = <<>> THEN <<>> ELSE <<46>>
    IN  /\ Reading
        /\ len \in 1 .. 63
        /\ current + 1 + len <= size
        /\ text' = text \o dot \o SubSeq(wire, current + 2, current + 1 + len)
        /\ current' = current + 1 + len
        /\ UNCHANGED <<wire, left, parser, start, offset, jumped, visited>>

ReadRoot ==
    /\ Reading
    /\ At(current) = 0
    /\ offset' = IF jumped THEN offset ELSE current + 1
    /\ parser' = "fixed"
    /\ UNCHANGED <<wire, left, nameVars>>

decompress_name == RejectName \/ FollowPointer \/ ReadLabel \/ ReadRoot

-----------------------------------------------------------------------------
(* parse_message *)

fixed_size == Head(left).fixed

\* RDLENGTH, read once the fixed part is known to be there.
rd_length ==
    IF Head(left).kind = "question" \/ offset + fixed_size > size THEN 0
    ELSE At(offset + fixed_size - 2) * 256 + At(offset + fixed_size - 1)

Truncated == offset + fixed_size + rd_length > size

ReadFixed ==
    LET next == offset + fixed_size + rd_length
    IN  /\ parser = "fixed"
        /\ ~Truncated
        /\ offset' = next
        /\ left' = Tail(left)
        /\ IF Len(left) = 1
           THEN parser' = "end" /\ UNCHANGED nameVars
           ELSE parser' = "name" /\ BeginName(next)
        /\ UNCHANGED wire

RejectEntry == parser = "fixed" /\ Truncated /\ Stop("truncated")

parse_message == decompress_name \/ ReadFixed \/ RejectEntry

-----------------------------------------------------------------------------
(***************************************************************************)
(* The reference: the name at a position, seen as the path of its items.   *)
(* A path that comes to a root has fewer items than the message has bytes, *)
(* since it would otherwise pass a position twice and so for ever.         *)
(***************************************************************************)
Kind(p) ==
    IF p >= size THEN "bad"
    ELSE IF At(p) = 0 THEN "root"
    ELSE IF At(p) >= 192 THEN IF p + 1 < size THEN "pointer" ELSE "bad"
    ELSE IF At(p) <= 63 /\ p + At(p) < size THEN "label" ELSE "bad"

Successor(p) ==
    CASE Kind(p) = "label"   -> p + 1 + At(p)
      [] Kind(p) = "pointer" -> (At(p) - 192) * 256 + At(p + 1)
      [] OTHER               -> p

PathFrom(p) == LET pos[i \in Nat] == IF i = 0 THEN p ELSE Successor(pos[i - 1]) IN pos

IsName(p) == \E i \in 0 .. size : Kind(PathFrom(p)[i]) = "root"

\* The pointers of the name.
Pointers(p) == {i \in 0 .. size : Kind(PathFrom(p)[i]) = "pointer"}

LabelAt(p) == SubSeq(wire, p + 2, p + 1 + At(p))

\* A name with the item at p behind it.
Extended(t, p) ==
    IF Kind(p) # "label" THEN t
    ELSE IF t = <<>> THEN LabelAt(p) ELSE t \o <<46>> \o LabelAt(p)

\* The text of the first items of the name.
TextFrom(p) ==
    LET pos == PathFrom(p)
        upto[i \in Nat] == IF i = 0 THEN <<>> ELSE Extended(upto[i - 1], pos[i - 1])
    IN  upto

NameText(p) == TextFrom(p)[size]

\* The name's first item that is not a label ends it in place.
LabelsEnd(p) == {j \in 0 .. size : /\ Kind(PathFrom(p)[j]) # "label"
                                  /\ \A k \in 0 .. j - 1 : Kind(PathFrom(p)[k]) = "label"}

NameEnd(p) ==
    LET last == PathFrom(p)[CHOOSE j \in LabelsEnd(p) : TRUE]
    IN  IF Kind(last) = "pointer" THEN last + 2 ELSE last + 1

(***************************************************************************)
(* decompress_name returns the name that is there, leaves the offset       *)
(* behind it and never writes outside its array; it refuses nothing but a  *)
(* name that is malformed or endless, or that takes more than              *)
(* MAX_POINTER_DEPTH pointers.  And the validator finds the name's end at  *)
(* the same place: what it compares as the question is what is read as it. *)
(***************************************************************************)
NameIsReference ==
    /\ parser # "undefined"
    /\ parser = "fixed" => /\ IsName(start)
                           /\ text = NameText(start)
                           /\ offset = NameEnd(start)
                           /\ skip_name(wire, start) = offset
    /\ parser = "bad_name" => ~IsName(start) \/ Cardinality(Pointers(start)) > MAX_POINTER_DEPTH
=============================================================================
