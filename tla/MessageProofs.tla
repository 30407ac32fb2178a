---------------------------- MODULE MessageProofs ----------------------------
(***************************************************************************)
(* Proofs about DNS messages: the parser reads names as the reference does *)
(* (the path of a name and the text along it), the builder writes queries  *)
(* that the parser reads, and the validator compares what it should, for   *)
(* any messages, any layouts and any limit on pointers.                    *)
(***************************************************************************)
EXTENDS QueryBuilder, FiniteSetTheorems, SequenceTheorems, WellFoundedInduction, TLAPS

\* A set of numbers has a least one.
LEMMA LeastElement ==
    ASSUME NEW T, T \subseteq Nat, T # {}
    PROVE  \E n \in T : \A j \in T : n <= j
  <1>1. PICK n \in T : \A j \in T : ~ (<<j, n>> \in OpToRel(<, Nat))
    BY WFMin, NatLessThanWellFounded
  <1>2. ASSUME NEW j \in T PROVE n <= j
    <2>1. n \in Nat /\ j \in Nat
      OBVIOUS
    <2>2. ~(j < n)
      <3> SUFFICES ASSUME j < n PROVE <<j, n>> \in OpToRel(<, Nat)
        BY <1>1, Zenon
      <3> QED
        BY <2>1 DEF OpToRel
    <2> QED
      BY <2>1, <2>2
  <1> QED
    BY <1>2

\* Induction over a set of numbers.
LEMMA Induction ==
    ASSUME NEW T \in SUBSET Nat, 0 \in T, \A n \in T : n + 1 \in T
    PROVE  \A n \in Nat : n \in T
  <1> SUFFICES ASSUME NEW m \in Nat, m \notin T PROVE FALSE
    OBVIOUS
  <1> DEFINE F == Nat \ T
  <1>1. F \subseteq Nat /\ F # {}
    OBVIOUS
  <1>2. PICK n \in F : \A j \in F : n <= j
    BY <1>1, LeastElement
  <1>3. n # 0 /\ n - 1 \in Nat /\ ~(n <= n - 1)
    BY <1>1
  <1>4. n - 1 \in T
    BY <1>2, <1>3
  <1>5. (n - 1) + 1 \in T
    BY <1>4
  <1>6. (n - 1) + 1 = n
    BY <1>1
  <1> QED
    BY <1>5, <1>6, <1>2

\* f starts with v, and each value and its place give the next one.
IsRun(f, V, v, G) == f \in [Nat -> V] /\ f[0] = v /\ \A n \in Nat : f[n + 1] = G[<<f[n], n>>]

\* A sequence of values is determined by its first one and a function from
\* each of them and its place to the next one.
LEMMA Recursion ==
    ASSUME NEW V, NEW v \in V, NEW G \in [V \X Nat -> V]
    PROVE  \E f : IsRun(f, V, v, G)
  <1> DEFINE Good(f, n) == f[0] = v /\ \A i \in 0 .. n - 1 : f[i + 1] = G[<<f[i], i>>]
             T == {n \in Nat : \E f \in [0 .. n -> V] : Good(f, n)}
  <1>1. \A n \in Nat : n \in T
    <2>1. 0 \in T
      <3> DEFINE f == [i \in 0 .. 0 |-> v]
      <3>1. f \in [0 .. 0 -> V] /\ Good(f, 0)
        OBVIOUS
      <3> QED
        BY <3>1
    <2>2. ASSUME NEW n \in T PROVE n + 1 \in T
      <3>1. PICK f \in [0 .. n -> V] : Good(f, n)
        BY <2>2
      <3> DEFINE w == G[<<f[n], n>>]
                 g == [i \in 0 .. n + 1 |-> IF i = n + 1 THEN w ELSE f[i]]
      <3>2. w \in V
        OBVIOUS
      <3> HIDE DEF w
      <3>3. g \in [0 .. n + 1 -> V]
        BY <3>2
      <3>4. g[0] = v /\ g[n + 1] = w /\ g[n] = f[n]
        BY <3>1
      <3>5. \A i \in 0 .. n - 1 : g[i + 1] = G[<<g[i], i>>]
        <4> TAKE i \in 0 .. n - 1
        <4>1. i \in 0 .. n /\ i + 1 \in 0 .. n /\ i # n + 1 /\ i + 1 # n + 1
              /\ i \in 0 .. n + 1 /\ i + 1 \in 0 .. n + 1
          OBVIOUS
        <4>2. g[i + 1] = f[i + 1] /\ g[i] = f[i]
          BY <4>1
        <4>3. f[i + 1] = G[<<f[i], i>>]
          BY <3>1
        <4> QED
          BY <4>2, <4>3
      <3> HIDE DEF g
      <3>6. \A i \in 0 .. n : g[i + 1] = G[<<g[i], i>>]
        <4> TAKE i \in 0 .. n
        <4>1. CASE i = n
          BY <4>1, <3>4 DEF w
        <4>2. CASE i # n
          BY <4>2, <3>5
        <4> QED
          BY <4>1, <4>2
      <3> QED
        BY <3>3, <3>4, <3>6
    <2> HIDE DEF T
    <2>3. T \in SUBSET Nat
      BY DEF T
    <2> QED
      BY <2>1, <2>2, <2>3, Induction
  <1>2. ASSUME NEW m \in Nat, NEW n \in Nat, m <= n, NEW f \in [0 .. m -> V], NEW g \in [0 .. n -> V],
               Good(f, m), Good(g, n)
        PROVE  \A i \in 0 .. m : f[i] = g[i]
    <2> DEFINE E == {i \in Nat : i <= m => f[i] = g[i]}
    <2>1. 0 \in E
      BY <1>2
    <2>2. ASSUME NEW i \in E PROVE i + 1 \in E
      <3> SUFFICES ASSUME i + 1 <= m PROVE f[i + 1] = g[i + 1]
        OBVIOUS
      <3>1. i \in 0 .. m - 1 /\ i \in 0 .. n - 1 /\ f[i] = g[i]
        BY <1>2
      <3>2. f[i + 1] = G[<<f[i], i>>] /\ g[i + 1] = G[<<g[i], i>>]
        BY <1>2, <3>1
      <3> QED
        BY <3>1, <3>2
    <2> HIDE DEF E
    <2>3. E \in SUBSET Nat
      BY DEF E
    <2>4. \A i \in Nat : i \in E
      BY <2>1, <2>2, <2>3, Induction
    <2> QED
      BY <2>4 DEF E
  <1> DEFINE c(n) == CHOOSE f \in [0 .. n -> V] : Good(f, n)
             h == [n \in Nat |-> c(n)[n]]
  <1>3. \A n \in Nat : c(n) \in [0 .. n -> V] /\ Good(c(n), n)
    <2> TAKE n \in Nat
    <2>1. \E f \in [0 .. n -> V] : Good(f, n)
      BY <1>1
    <2> HIDE DEF Good
    <2> QED
      BY <2>1
  <1> HIDE DEF c, Good
  <1>4. h \in [Nat -> V]
    BY <1>3
  <1>5. h[0] = v
    BY <1>3 DEF Good
  <1>6. \A n \in Nat : h[n + 1] = G[<<h[n], n>>]
    <2> TAKE n \in Nat
    <2>1. \A i \in 0 .. n : c(n)[i] = c(n + 1)[i]
      <3> DEFINE a == c(n)
                 b == c(n + 1)
      <3>1. /\ n <= n + 1 /\ n + 1 \in Nat
            /\ a \in [0 .. n -> V] /\ b \in [0 .. n + 1 -> V] /\ Good(a, n) /\ Good(b, n + 1)
        BY <1>3
      <3> HIDE DEF a, b
      <3>2. \A i \in 0 .. n : a[i] = b[i]
        BY <1>2, <3>1
      <3> QED
        BY <3>2 DEF a, b
    <2>2. c(n + 1)[n + 1] = G[<<c(n + 1)[n], n>>]
      BY <1>3 DEF Good
    <2>3. c(n)[n] = c(n + 1)[n]
      BY <2>1
    <2> QED
      BY <2>2, <2>3
  <1>7. IsRun(h, V, v, G)
    BY <1>4, <1>5, <1>6 DEF IsRun
  <1> QED
    BY <1>7

\* A sequence of bytes; named, for the provers do better without the set.
IsBytes(msg) == msg \in Seq(Byte)

IsWire == IsBytes(wire)

\* The length and the elements of a sequence of bytes.
LEMMA BytesTyped ==
    ASSUME NEW msg, IsBytes(msg)
    PROVE  /\ Len(msg) \in Nat
           /\ \A p \in Nat : p < Len(msg) => msg[p + 1] \in 0 .. 255
  <1>1. Len(msg) \in Nat /\ \A i \in 1 .. Len(msg) : msg[i] \in 0 .. 255
    <2>1. Len(msg) \in Nat /\ \A i \in 1 .. Len(msg) : msg[i] \in Byte
      BY LenProperties, ElementOfSeq DEF IsBytes
    <2> QED
      BY <2>1 DEF Byte
  <1>2. ASSUME NEW p \in Nat, p < Len(msg) PROVE msg[p + 1] \in 0 .. 255
    <2>1. p + 1 \in 1 .. Len(msg)
      BY <1>1, <1>2
    <2> QED
      BY <1>1, <2>1
  <1> QED
    BY <1>1, <1>2

\* Sequences of bytes joined, cut and compared.
LEMMA Joined ==
    ASSUME NEW a, NEW b, IsBytes(a), IsBytes(b)
    PROVE  /\ IsBytes(a \o b) /\ Len(a \o b) = Len(a) + Len(b)
           /\ \A i \in 1 .. Len(a) : (a \o b)[i] = a[i]
           /\ \A i \in 1 .. Len(b) : (a \o b)[Len(a) + i] = b[i]
  <1>1. a \in Seq(Byte) /\ b \in Seq(Byte)
    BY DEF IsBytes
  <1>2. /\ a \o b \in Seq(Byte) /\ Len(a \o b) = Len(a) + Len(b)
        /\ \A i \in 1 .. Len(a) + Len(b) : (a \o b)[i] = IF i <= Len(a) THEN a[i] ELSE b[i - Len(a)]
    BY <1>1, ConcatProperties
  <1> DEFINE m == Len(a)
             n == Len(b)
             c == a \o b
  <1>3. /\ m \in Nat /\ n \in Nat
        /\ \A i \in 1 .. m + n : c[i] = IF i <= m THEN a[i] ELSE b[i - m]
    BY <1>2, BytesTyped
  <1> HIDE DEF m, n, c
  <1>4. \A i \in 1 .. m : c[i] = a[i]
    BY <1>3
  <1>5. ASSUME NEW i \in 1 .. n PROVE c[m + i] = b[i]
    <2>1. m + i \in 1 .. m + n /\ ~(m + i <= m) /\ (m + i) - m = i
      BY <1>3
    <2> QED
      BY <1>3, <2>1
  <1> QED
    BY <1>2, <1>4, <1>5 DEF m, n, c, IsBytes

\* A part of a sequence of bytes.
LEMMA Cut ==
    ASSUME NEW a, IsBytes(a), NEW i \in Int, NEW j \in Int, 1 <= i, i <= j + 1, j <= Len(a)
    PROVE  /\ IsBytes(SubSeq(a, i, j)) /\ Len(SubSeq(a, i, j)) = j - i + 1
           /\ \A k \in 1 .. j - i + 1 : SubSeq(a, i, j)[k] = a[i + k - 1]
  <1>1. Len(a) \in Nat /\ \A k \in i .. j : a[k] \in Byte
    <2>1. Len(a) \in Nat
      BY BytesTyped
    <2>2. ASSUME NEW k \in i .. j PROVE k \in 1 .. Len(a)
      BY <2>1
    <2> QED
      BY <2>1, <2>2, ElementOfSeq DEF IsBytes
  <1>2. /\ SubSeq(a, i, j) \in Seq(Byte)
        /\ Len(SubSeq(a, i, j)) = IF i <= j THEN j - i + 1 ELSE 0
        /\ \A k \in 1 .. j - i + 1 : SubSeq(a, i, j)[k] = a[i + k - 1]
    BY <1>1, SubSeqProperties
  <1>3. (IF i <= j THEN j - i + 1 ELSE 0) = j - i + 1
    OBVIOUS
  <1> QED
    BY <1>2, <1>3 DEF IsBytes

\* Equal byte by byte.
LEMMA SameBytes ==
    ASSUME NEW a, NEW b, IsBytes(a), IsBytes(b), Len(a) = Len(b), \A i \in 1 .. Len(a) : a[i] = b[i]
    PROVE  a = b
  BY SeqEqual DEF IsBytes

LEMMA ByteTyped ==
    ASSUME IsWire
    PROVE  /\ size \in Nat
           /\ \A p \in Nat : p < size => At(p) \in 0 .. 255
  BY BytesTyped DEF IsWire, size, At

\* Where a name goes on is a position again.
LEMMA SuccessorTyped ==
    ASSUME IsWire, NEW p \in Nat
    PROVE  /\ Successor(p) \in Nat
           /\ Kind(p) \in {"bad", "root", "pointer", "label"}
           /\ Kind(p) # "bad" => p < size
           /\ Kind(p) \in {"bad", "root"} => Successor(p) = p
  <1>1. /\ size \in Nat
        /\ p < size => At(p) \in 0 .. 255
        /\ p + 1 < size => At(p + 1) \in 0 .. 255
    BY ByteTyped
  <1>2. Kind(p) \in {"bad", "root", "pointer", "label"} /\ (Kind(p) # "bad" => p < size)
    BY <1>1 DEF Kind
  <1>3. Kind(p) = "label" => Successor(p) \in Nat
    <2>1. Kind(p) = "label" => Successor(p) = p + 1 + At(p)
      BY DEF Successor
    <2> QED
      BY <1>1, <1>2, <2>1
  <1>4. Kind(p) = "pointer" => Successor(p) \in Nat
    <2> SUFFICES ASSUME Kind(p) = "pointer" PROVE Successor(p) \in Nat
      OBVIOUS
    <2>1. p < size /\ At(p) >= 192 /\ p + 1 < size
      BY <1>1 DEF Kind
    <2>2. Successor(p) = (At(p) - 192) * 256 + At(p + 1)
      BY DEF Successor
    <2> QED
      <3> DEFINE a == At(p)
                 b == At(p + 1)
      <3>1. a \in 192 .. 255 /\ b \in 0 .. 255
        BY <2>1, <1>1
      <3>2. Successor(p) = (a - 192) * 256 + b
        BY <2>2
      <3> HIDE DEF a, b
      <3> QED
        BY <3>1, <3>2
  <1>5. Kind(p) \in {"bad", "root"} => Successor(p) = p
    BY DEF Successor
  <1> QED
    BY <1>2, <1>3, <1>4, <1>5

\* PathFrom satisfies its recursion.
LEMMA PathEquation ==
    ASSUME IsWire, NEW p \in Nat
    PROVE  /\ PathFrom(p) \in [Nat -> Nat]
           /\ PathFrom(p)[0] = p
           /\ \A i \in Nat : PathFrom(p)[i + 1] = Successor(PathFrom(p)[i])
  <1> DEFINE G == [x \in Nat \X Nat |-> Successor(x[1])]
             Def(f) == [i \in Nat |-> IF i = 0 THEN p ELSE Successor(f[i - 1])]
             pos == CHOOSE f : f = Def(f)
  <1>1. PathFrom(p) = pos
    BY DEF PathFrom
  <1>2. G \in [Nat \X Nat -> Nat]
    BY SuccessorTyped
  <1>3. PICK f : IsRun(f, Nat, p, G)
    <2> HIDE DEF G
    <2> QED
      BY <1>2, Recursion
  <1>4. f \in [Nat -> Nat] /\ f[0] = p /\ \A n \in Nat : f[n + 1] = Successor(f[n])
    BY <1>3 DEF IsRun
  <1>5. f = Def(f)
    <2>1. \A i \in Nat : f[i] = Def(f)[i]
      <3> TAKE i \in Nat
      <3>1. CASE i = 0
        BY <3>1, <1>4
      <3>2. CASE i # 0
        <4>1. i - 1 \in Nat /\ (i - 1) + 1 = i
          BY <3>2
        <4>2. f[i] = Successor(f[i - 1])
          BY <4>1, <1>4
        <4> QED
          BY <3>2, <4>2
      <3> QED
        BY <3>1, <3>2
    <2> QED
      BY <2>1, <1>4
  <1>6. pos = Def(pos)
    <2> HIDE DEF Def
    <2> QED
      BY <1>5
  <1> HIDE DEF pos
  <1>7. pos[0] = p /\ \A i \in Nat : pos[i + 1] = Successor(pos[i])
    <2>1. ASSUME NEW i \in Nat PROVE pos[i + 1] = Successor(pos[i])
      <3>1. i + 1 \in Nat /\ i + 1 # 0 /\ (i + 1) - 1 = i
        OBVIOUS
      <3>2. pos[i + 1] = Def(pos)[i + 1]
        BY <1>6
      <3>3. Def(pos)[i + 1] = Successor(pos[(i + 1) - 1])
        BY <3>1
      <3> QED
        BY <3>1, <3>2, <3>3
    <2>2. pos[0] = Def(pos)[0]
      BY <1>6
    <2> QED
      BY <2>1, <2>2
  <1>8. \A n \in Nat : pos[n] \in Nat
    <2> DEFINE T == {n \in Nat : pos[n] \in Nat}
    <2>1. 0 \in T
      BY <1>7
    <2>4. ASSUME NEW n \in T PROVE n + 1 \in T
      <3>1. n \in Nat /\ pos[n] \in Nat
        OBVIOUS
      <3>2. Successor(pos[n]) \in Nat
        BY <3>1, SuccessorTyped
      <3> QED
        BY <1>7, <3>1, <3>2
    <2> HIDE DEF T
    <2>2. T \in SUBSET Nat
      BY DEF T
    <2>3. \A n \in Nat : n \in T
      BY <2>1, <2>2, <2>4, Induction
    <2> QED
      BY <2>3 DEF T
  <1>9. pos \in [Nat -> Nat]
    BY <1>6, <1>8
  <1> QED
    BY <1>1, <1>7, <1>9

\* A label lies in the message.
LEMMA LabelTyped ==
    ASSUME IsWire, NEW p \in Nat, Kind(p) = "label"
    PROVE  /\ LabelAt(p) \in Seq(Byte)
           /\ Len(LabelAt(p)) = At(p)
           /\ At(p) \in 1 .. 63
  <1>1. size \in Nat /\ p < size /\ At(p) \in 1 .. 63 /\ p + At(p) < size
    <2>1. size \in Nat /\ p < size
      BY SuccessorTyped, ByteTyped
    <2>2. At(p) \in 0 .. 255
      BY <2>1, ByteTyped
    <2>3. At(p) # 0 /\ At(p) <= 63 /\ p + At(p) < size
      BY <2>1, <2>2 DEF Kind
    <2> QED
      BY <2>1, <2>2, <2>3
  <1>2. \A i \in p + 2 .. p + 1 + At(p) : wire[i] \in Byte
    <2> TAKE i \in p + 2 .. p + 1 + At(p)
    <2>1. i \in 1 .. size
      BY <1>1
    <2> QED
      BY <2>1, ElementOfSeq DEF size, IsWire, IsBytes
  <1>3. p + 2 \in Int /\ p + 1 + At(p) \in Int
    BY <1>1
  <1>4. LabelAt(p) \in Seq(Byte)
    BY <1>2, <1>3, SubSeqProperties DEF LabelAt
  <1>5. Len(LabelAt(p)) = IF p + 2 <= p + 1 + At(p) THEN (p + 1 + At(p)) - (p + 2) + 1 ELSE 0
    BY <1>2, <1>3, SubSeqProperties DEF LabelAt
  <1>6. Len(LabelAt(p)) = At(p)
    <2> DEFINE a == At(p)
               n == Len(LabelAt(p))
    <2>1. a \in 1 .. 63 /\ n = IF p + 2 <= p + 1 + a THEN (p + 1 + a) - (p + 2) + 1 ELSE 0
      BY <1>1, <1>5
    <2> HIDE DEF a, n
    <2>2. n = a
      BY <2>1
    <2> QED
      BY <2>2 DEF a, n
  <1> QED
    BY <1>1, <1>4, <1>6

LEMMA ExtendedTyped ==
    ASSUME IsWire, NEW t \in Seq(Byte), NEW p \in Nat
    PROVE  Extended(t, p) \in Seq(Byte)
  <1>1. Kind(p) = "label" => LabelAt(p) \in Seq(Byte)
    BY LabelTyped
  <1>2. <<46>> \in Seq(Byte)
    BY DEF Byte
  <1> DEFINE l == LabelAt(p)
  <1> HIDE DEF l
  <1>3. CASE Kind(p) = "label" /\ t # <<>>
    <2>1. Extended(t, p) = t \o <<46>> \o l /\ l \in Seq(Byte)
      BY <1>1, <1>3 DEF Extended, l
    <2> QED
      BY <2>1, <1>2, ConcatProperties
  <1> QED
    BY <1>1, <1>3 DEF Extended

\* TextFrom satisfies its recursion.
LEMMA TextEquation ==
    ASSUME IsWire, NEW p \in Nat
    PROVE  /\ TextFrom(p) \in [Nat -> Seq(Byte)]
           /\ TextFrom(p)[0] = <<>>
           /\ \A i \in Nat : TextFrom(p)[i + 1] = Extended(TextFrom(p)[i], PathFrom(p)[i])
  <1> DEFINE path == PathFrom(p)
             S == Seq(Byte)
             G == [x \in S \X Nat |-> Extended(x[1], path[x[2]])]
             Def(f) == [i \in Nat |-> IF i = 0 THEN <<>> ELSE Extended(f[i - 1], path[i - 1])]
             upto == CHOOSE f : f = Def(f)
  <1>1. TextFrom(p) = upto
    BY DEF TextFrom
  <1>a. path \in [Nat -> Nat]
    BY PathEquation
  <1> HIDE DEF path
  <1>b. \A t \in S, i \in Nat : Extended(t, path[i]) \in S
    BY <1>a, ExtendedTyped
  <1>c. <<>> \in S
    OBVIOUS
  <1> HIDE DEF S
  <1>2. G \in [S \X Nat -> S]
    BY <1>b
  <1>3. PICK f : IsRun(f, S, <<>>, G)
    <2> HIDE DEF G
    <2> QED
      BY <1>2, <1>c, Recursion
  <1>4. f \in [Nat -> S] /\ f[0] = <<>> /\ \A n \in Nat : f[n + 1] = Extended(f[n], path[n])
    BY <1>3 DEF IsRun
  <1>5. f = Def(f)
    <2>1. \A i \in Nat : f[i] = Def(f)[i]
      <3> TAKE i \in Nat
      <3>1. CASE i = 0
        BY <3>1, <1>4
      <3>2. CASE i # 0
        <4>1. i - 1 \in Nat /\ (i - 1) + 1 = i
          BY <3>2
        <4>2. f[i] = Extended(f[i - 1], path[i - 1])
          BY <4>1, <1>4
        <4> QED
          BY <3>2, <4>2
      <3> QED
        BY <3>1, <3>2
    <2> QED
      BY <2>1, <1>4
  <1>6. upto = Def(upto)
    <2> HIDE DEF Def
    <2> QED
      BY <1>5
  <1> HIDE DEF upto
  <1>7. upto[0] = <<>> /\ \A i \in Nat : upto[i + 1] = Extended(upto[i], path[i])
    <2>1. ASSUME NEW i \in Nat PROVE upto[i + 1] = Extended(upto[i], path[i])
      <3>1. i + 1 \in Nat /\ i + 1 # 0 /\ (i + 1) - 1 = i
        OBVIOUS
      <3>2. upto[i + 1] = Def(upto)[i + 1]
        BY <1>6
      <3>3. Def(upto)[i + 1] = Extended(upto[(i + 1) - 1], path[(i + 1) - 1])
        BY <3>1
      <3> QED
        BY <3>1, <3>2, <3>3
    <2>2. upto[0] = Def(upto)[0]
      BY <1>6
    <2> QED
      BY <2>1, <2>2
  <1>8. \A n \in Nat : upto[n] \in S
    <2> DEFINE T == {n \in Nat : upto[n] \in S}
    <2>1. 0 \in T
      BY <1>7, <1>c
    <2>4. ASSUME NEW n \in T PROVE n + 1 \in T
      <3>1. n \in Nat /\ upto[n] \in S
        OBVIOUS
      <3>2. Extended(upto[n], path[n]) \in S
        BY <3>1, <1>b
      <3> QED
        BY <1>7, <3>1, <3>2
    <2> HIDE DEF T
    <2>2. T \in SUBSET Nat
      BY DEF T
    <2>3. \A n \in Nat : n \in T
      BY <2>1, <2>2, <2>4, Induction
    <2> QED
      BY <2>3 DEF T
  <1>9. upto \in [Nat -> S]
    BY <1>6, <1>8
  <1> QED
    BY <1>1, <1>7, <1>9 DEF S, path

\* The loop of skip_name, step by step.
LEMMA SkipEquation ==
    ASSUME NEW msg, IsBytes(msg), NEW p \in Nat
    PROVE  skip_name(msg, p) = IF p >= Len(msg) THEN 0
                          ELSE IF msg[p + 1] = 0 THEN p + 1
                          ELSE IF msg[p + 1] >= 192 THEN p + 2
                          ELSE skip_name(msg, p + 1 + msg[p + 1])
  <1> DEFINE end == Len(msg)
             b(q) == msg[q + 1]
             Val(f, q) == IF q >= end THEN 0
                          ELSE IF b(q) = 0 THEN q + 1
                          ELSE IF b(q) >= 192 THEN q + 2
                          ELSE f[q + 1 + b(q)]
             Def(f) == [q \in Nat |-> Val(f, q)]
             skip == CHOOSE f : f = Def(f)
  <1>1. \A q \in Nat : skip_name(msg, q) = skip[q]
    BY DEF skip_name
  <1>2. end \in Nat /\ \A q \in Nat : q < end => b(q) \in 0 .. 255
    BY BytesTyped
  <1> HIDE DEF end, b
  <1> DEFINE Good(f, n) == \A q \in Nat : q + n >= end => f[q] = Val(f, q)
             T == {n \in Nat : n <= end => \E f \in [Nat -> Int] : Good(f, n)}
  <1>3. 0 \in T
    <2> DEFINE f == [q \in Nat |-> 0]
    <2>1. f \in [Nat -> Int] /\ Good(f, 0)
      BY <1>2
    <2> QED
      BY <2>1
  <1>4. ASSUME NEW n \in T PROVE n + 1 \in T
    <2> SUFFICES ASSUME n + 1 <= end PROVE \E f \in [Nat -> Int] : Good(f, n + 1)
      OBVIOUS
    <2>1. PICK f \in [Nat -> Int] : Good(f, n)
      BY <1>2
    <2> DEFINE r == end - (n + 1)
               w == Val(f, r)
               g == [f EXCEPT ![r] = w]
    <2>2. r \in Nat /\ r < end /\ b(r) \in 0 .. 255
      BY <1>2
    <2>3. w \in Int
      <3>1. r + 1 + b(r) \in Nat
        BY <2>2
      <3>2. f[r + 1 + b(r)] \in Int
        BY <3>1
      <3> HIDE DEF r
      <3> QED
        BY <2>2, <3>2
    <2>4. ASSUME NEW q \in Nat, q >= r PROVE Val(g, q) = Val(f, q)
      <3>1. q < end => b(q) \in 0 .. 255 /\ q + 1 + b(q) # r /\ q + 1 + b(q) \in Nat
        BY <1>2, <2>2, <2>4, SMTT(30)
      <3>2. q < end => g[q + 1 + b(q)] = f[q + 1 + b(q)]
        BY <3>1
      <3> HIDE DEF g, r
      <3> QED
        BY <3>2, <1>2
    <2>5. ASSUME NEW q \in Nat, q + (n + 1) >= end PROVE g[q] = Val(g, q)
      <3>1. q >= r
        BY <2>5, <1>2
      <3>2. CASE q = r
        <4>1. g[r] = w
          BY <2>2
        <4> HIDE DEF g, r, Val
        <4> QED
          BY <3>1, <3>2, <2>4, <4>1
      <3>3. CASE q # r
        <4>1. g[q] = f[q] /\ q + n >= end
          BY <3>1, <3>3, <1>2
        <4> HIDE DEF g, Val
        <4> QED
          BY <2>1, <2>4, <3>1, <4>1
      <3> QED
        BY <3>2, <3>3
    <2>6. g \in [Nat -> Int]
      BY <2>3
    <2>7. Good(g, n + 1)
      <3> HIDE DEF g, r, Val
      <3> QED
        BY <2>5
    <2> HIDE DEF g, Good
    <2> QED
      BY <2>6, <2>7
  <1>5. \A n \in Nat : n \in T
    <2> HIDE DEF T
    <2>1. T \in SUBSET Nat
      BY DEF T
    <2> QED
      BY <1>3, <1>4, <2>1, Induction
  <1>6. PICK f \in [Nat -> Int] : Good(f, end)
    BY <1>2, <1>5
  <1>7. f = Def(f)
    <2>1. \A q \in Nat : f[q] = Val(f, q)
      BY <1>2, <1>6
    <2> HIDE DEF Val
    <2> QED
      BY <2>1
  <1>8. skip = Def(skip)
    <2> HIDE DEF Def
    <2> QED
      BY <1>7
  <1> HIDE DEF skip
  <1>9. skip[p] = Val(skip, p)
    <2> HIDE DEF Val
    <2> QED
      BY <1>8
  <1>10. skip_name(msg, p) = IF p >= end THEN 0
                             ELSE IF b(p) = 0 THEN p + 1
                             ELSE IF b(p) >= 192 THEN p + 2
                             ELSE skip_name(msg, p + 1 + b(p))
    BY <1>1, <1>2, <1>9
  <1> QED
    BY <1>10 DEF end, b

\* skip_name, one label at a time.
LEMMA SkipsInWire ==
    ASSUME IsWire, NEW p \in Nat
    PROVE  skip_name(wire, p) = IF p >= size THEN 0
                                ELSE IF At(p) = 0 THEN p + 1
                                ELSE IF At(p) >= 192 THEN p + 2
                                ELSE skip_name(wire, p + 1 + At(p))
  BY SkipEquation DEF IsWire, size, At

Item == {"label", "pointer"}

\* The first n items of the name at p.
ItemsUpTo(p, n) == \A i \in 0 .. n - 1 : Kind(PathFrom(p)[i]) \in Item

\* A path stays where it ends.
LEMMA PathStays ==
    ASSUME IsWire, NEW p \in Nat, NEW k \in Nat, Kind(PathFrom(p)[k]) \notin Item
    PROVE  \A n \in Nat : n >= k => PathFrom(p)[n] = PathFrom(p)[k]
  <1> DEFINE P == PathFrom(p)
             T == {t \in Nat : P[k + t] = P[k]}
  <1>1. P \in [Nat -> Nat] /\ \A i \in Nat : P[i + 1] = Successor(P[i])
    BY PathEquation
  <1>2. Successor(P[k]) = P[k]
    BY <1>1, SuccessorTyped DEF Item
  <1> HIDE DEF P
  <1>3. 0 \in T
    BY <1>1
  <1>4. ASSUME NEW t \in T PROVE t + 1 \in T
    <2>1. k + t \in Nat /\ (k + t) + 1 = k + (t + 1) /\ P[k + t] = P[k]
      OBVIOUS
    <2>2. P[(k + t) + 1] = Successor(P[k + t])
      BY <1>1, <2>1
    <2> QED
      BY <1>2, <2>1, <2>2
  <1>5. \A t \in Nat : t \in T
    <2> HIDE DEF T
    <2>1. T \in SUBSET Nat
      BY DEF T
    <2> QED
      BY <1>3, <1>4, <2>1, Induction
  <1>6. ASSUME NEW n \in Nat, n >= k PROVE P[n] = P[k]
    <2>1. n - k \in T /\ k + (n - k) = n
      BY <1>5, <1>6
    <2> QED
      BY <2>1
  <1> QED
    BY <1>6 DEF P

\* From the same position on a path goes the same way.
LEMMA PathRepeats ==
    ASSUME IsWire, NEW p \in Nat, NEW a \in Nat, NEW b \in Nat, PathFrom(p)[a] = PathFrom(p)[b]
    PROVE  \A t \in Nat : PathFrom(p)[a + t] = PathFrom(p)[b + t]
  <1> DEFINE P == PathFrom(p)
             T == {t \in Nat : P[a + t] = P[b + t]}
  <1>1. \A i \in Nat : P[i + 1] = Successor(P[i])
    BY PathEquation
  <1>2. P[a] = P[b]
    OBVIOUS
  <1> HIDE DEF P
  <1>3. 0 \in T
    BY <1>2
  <1>4. ASSUME NEW t \in T PROVE t + 1 \in T
    <2>1. /\ a + t \in Nat /\ (a + t) + 1 = a + (t + 1)
          /\ b + t \in Nat /\ (b + t) + 1 = b + (t + 1)
          /\ P[a + t] = P[b + t]
      OBVIOUS
    <2>2. P[(a + t) + 1] = Successor(P[a + t]) /\ P[(b + t) + 1] = Successor(P[b + t])
      BY <1>1, <2>1
    <2> QED
      BY <2>1, <2>2
  <1>5. \A t \in Nat : t \in T
    <2> HIDE DEF T
    <2>1. T \in SUBSET Nat
      BY DEF T
    <2> QED
      BY <1>3, <1>4, <2>1, Induction
  <1> QED
    BY <1>5 DEF P

\* A path that comes to a root does not pass a position twice.
LEMMA PathIsSimple ==
    ASSUME IsWire, NEW p \in Nat, NEW r \in Nat, Kind(PathFrom(p)[r]) = "root", ItemsUpTo(p, r),
           NEW a \in 0 .. r, NEW b \in 0 .. r, a < b
    PROVE  PathFrom(p)[a] # PathFrom(p)[b]
  <1> SUFFICES ASSUME PathFrom(p)[a] = PathFrom(p)[b] PROVE FALSE
    OBVIOUS
  <1>1. PathFrom(p)[a + (r - b)] = PathFrom(p)[b + (r - b)]
    <2>1. r - b \in Nat /\ a \in Nat /\ b \in Nat
      OBVIOUS
    <2>2. \A t \in Nat : PathFrom(p)[a + t] = PathFrom(p)[b + t]
      BY <2>1, PathRepeats
    <2> QED
      BY <2>1, <2>2
  <1>2. b + (r - b) = r /\ a + (r - b) \in 0 .. r - 1
    OBVIOUS
  <1>3. Kind(PathFrom(p)[a + (r - b)]) \in Item
    BY <1>2 DEF ItemsUpTo
  <1> QED
    BY <1>1, <1>2, <1>3 DEF Item

\* It has fewer items than the message has bytes.
LEMMA PathIsShort ==
    ASSUME IsWire, NEW p \in Nat, NEW r \in Nat, Kind(PathFrom(p)[r]) = "root", ItemsUpTo(p, r)
    PROVE  r < size
  <1> DEFINE P == PathFrom(p)
             f == [i \in 0 .. r |-> P[i]]
  <1>1. P \in [Nat -> Nat]
    BY PathEquation
  <1>2. size \in Nat
    BY ByteTyped
  <1>3. \A i \in 0 .. r : P[i] \in 0 .. size - 1
    <2> TAKE i \in 0 .. r
    <2>1. Kind(P[i]) # "bad"
      BY DEF ItemsUpTo, Item
    <2>2. P[i] \in Nat
      BY <1>1
    <2>3. P[i] < size
      BY <2>1, <2>2, SuccessorTyped
    <2> QED
      BY <1>2, <2>2, <2>3
  <1>4. \A a, b \in 0 .. r : a # b => P[a] # P[b]
    <2> TAKE a, b \in 0 .. r
    <2>1. a < b => P[a] # P[b]
      BY PathIsSimple
    <2>2. b < a => P[a] # P[b]
      BY PathIsSimple
    <2> QED
      BY <2>1, <2>2
  <1> HIDE DEF P
  <1>5. f \in [0 .. r -> 0 .. size - 1]
    BY <1>3
  <1>6. IsFiniteSet(0 .. r) /\ Cardinality(0 .. r) = r + 1
    BY FS_Interval
  <1>7. IsFiniteSet(0 .. size - 1) /\ Cardinality(0 .. size - 1) = size
    BY <1>2, FS_Interval
  <1> SUFFICES ASSUME ~(r < size) PROVE FALSE
    OBVIOUS
  <1>8. Cardinality(0 .. size - 1) < Cardinality(0 .. r)
    BY <1>2, <1>6, <1>7
  <1> HIDE DEF f
  <1>9. \E x, y \in 0 .. r : x # y /\ f[x] = f[y]
    BY <1>5, <1>6, <1>7, <1>8, FS_PigeonHole
  <1> QED
    BY <1>4, <1>9 DEF f

\* A name that has begun with items ends with a root behind them.
LEMMA NameHasRoot ==
    ASSUME IsWire, NEW p \in Nat, IsName(p), NEW k \in Nat, ItemsUpTo(p, k)
    PROVE  \E r \in Nat : r >= k /\ r < size /\ Kind(PathFrom(p)[r]) = "root" /\ ItemsUpTo(p, r)
  <1> DEFINE P == PathFrom(p)
             R == {i \in Nat : Kind(P[i]) = "root"}
  <1>1. P \in [Nat -> Nat]
    BY PathEquation
  <1>2. R \subseteq Nat /\ R # {}
    BY ByteTyped DEF IsName
  <1>3. PICK r \in R : \A j \in R : r <= j
    BY <1>2, LeastElement
  <1>4. r \in Nat /\ Kind(P[r]) = "root"
    BY <1>3
  <1>5. ItemsUpTo(p, r)
    <2> SUFFICES ASSUME NEW i \in 0 .. r - 1 PROVE Kind(P[i]) \in Item
      BY DEF ItemsUpTo
    <2>1. i \in Nat /\ r >= i /\ ~(r <= i)
      BY <1>4
    <2>2. Kind(P[i]) # "root"
      BY <1>3, <2>1
    <2>3. Kind(P[i]) \notin Item => P[r] = P[i]
      BY <2>1, <1>4, PathStays
    <2> QED
      BY <1>4, <2>2, <2>3
  <1>6. r >= k
    <2> SUFFICES ASSUME ~(r >= k) PROVE FALSE
      OBVIOUS
    <2>1. r \in 0 .. k - 1
      BY <1>4
    <2>2. Kind(P[r]) \in Item
      BY <2>1 DEF ItemsUpTo
    <2> QED
      BY <1>4, <2>2 DEF Item
  <1>7. r < size
    BY <1>4, <1>5, PathIsShort
  <1> QED
    BY <1>4, <1>5, <1>6, <1>7

\* Behind the root nothing is added to the text.
LEMMA TextStays ==
    ASSUME IsWire, NEW p \in Nat, NEW k \in Nat, Kind(PathFrom(p)[k]) = "root"
    PROVE  \A n \in Nat : n >= k => TextFrom(p)[n] = TextFrom(p)[k]
  <1> DEFINE X == TextFrom(p)
             T == {t \in Nat : X[k + t] = X[k]}
  <1>1. \A i \in Nat : X[i + 1] = Extended(X[i], PathFrom(p)[i])
    BY TextEquation
  <1>2. \A n \in Nat : n >= k => PathFrom(p)[n] = PathFrom(p)[k]
    BY PathStays DEF Item
  <1> HIDE DEF X
  <1>3. 0 \in T
    OBVIOUS
  <1>4. ASSUME NEW t \in T PROVE t + 1 \in T
    <2>1. k + t \in Nat /\ k + t >= k /\ (k + t) + 1 = k + (t + 1) /\ X[k + t] = X[k]
      OBVIOUS
    <2>2. X[(k + t) + 1] = Extended(X[k + t], PathFrom(p)[k + t])
      BY <1>1, <2>1
    <2>3. Kind(PathFrom(p)[k + t]) = "root"
      BY <1>2, <2>1
    <2> QED
      BY <2>1, <2>2, <2>3 DEF Extended
  <1>5. \A t \in Nat : t \in T
    <2> HIDE DEF T
    <2>1. T \in SUBSET Nat
      BY DEF T
    <2> QED
      BY <1>3, <1>4, <2>1, Induction
  <1>6. ASSUME NEW n \in Nat, n >= k PROVE X[n] = X[k]
    <2>1. n - k \in T /\ k + (n - k) = n
      BY <1>5, <1>6
    <2> QED
      BY <2>1
  <1> QED
    BY <1>6 DEF X

\* The labels up to the first item that is none lead to the name's end, and
\* skip_name follows them.
LEMMA EndOfLabels ==
    ASSUME IsWire, NEW p \in Nat, NEW k \in Nat, k <= size,
           \A i \in 0 .. k - 1 : Kind(PathFrom(p)[i]) = "label",
           Kind(PathFrom(p)[k]) \in {"root", "pointer"}
    PROVE  /\ NameEnd(p) = PathFrom(p)[k] + (IF Kind(PathFrom(p)[k]) = "pointer" THEN 2 ELSE 1)
           /\ skip_name(wire, p) = NameEnd(p)
  <1> DEFINE P == PathFrom(p)
             First(j) == /\ Kind(P[j]) # "label"
                         /\ \A i \in 0 .. j - 1 : Kind(P[i]) = "label"
             c == CHOOSE j \in LabelsEnd(p) : TRUE
  <1>1. /\ P \in [Nat -> Nat] /\ P[0] = p
        /\ \A i \in Nat : P[i + 1] = Successor(P[i])
    BY PathEquation
  <1>a. \A i \in 0 .. k - 1 : Kind(P[i]) = "label"
    OBVIOUS
  <1>b. Kind(P[k]) \in {"root", "pointer"}
    OBVIOUS
  <1>d. NameEnd(p) = IF Kind(P[c]) = "pointer" THEN P[c] + 2 ELSE P[c] + 1
    BY DEF NameEnd
  <1>e. \A j : j \in LabelsEnd(p) <=> j \in 0 .. size /\ First(j)
    BY DEF LabelsEnd
  <1> HIDE DEF P
  <1>2. size \in Nat /\ k \in 0 .. size
    BY ByteTyped
  <1>3. First(k)
    BY <1>a, <1>b
  <1>4. c \in 0 .. size /\ First(c)
    <2> HIDE DEF First
    <2>1. k \in LabelsEnd(p)
      BY <1>2, <1>3, <1>e
    <2> QED
      BY <2>1, <1>e
  <1> HIDE DEF c
  <1>5. c = k
    <2>1. c < k => Kind(P[c]) = "label"
      BY <1>2, <1>4, <1>3
    <2>2. k < c => Kind(P[k]) = "label"
      BY <1>2, <1>4
    <2> QED
      BY <1>2, <1>3, <1>4, <2>1, <2>2
  <1>6. NameEnd(p) = P[k] + (IF Kind(P[k]) = "pointer" THEN 2 ELSE 1)
    BY <1>5, <1>d, <1>1
  <1> DEFINE T == {i \in Nat : i <= k => skip_name(wire, P[i]) = skip_name(wire, p)}
  <1>7. 0 \in T
    BY <1>1
  <1>8. ASSUME NEW i \in T PROVE i + 1 \in T
    <2> SUFFICES ASSUME i + 1 <= k PROVE skip_name(wire, P[i + 1]) = skip_name(wire, p)
      OBVIOUS
    <2>1. i \in 0 .. k - 1 /\ skip_name(wire, P[i]) = skip_name(wire, p)
      BY <1>8
    <2> DEFINE q == P[i]
    <2>2. q \in Nat /\ Kind(q) = "label" /\ P[i + 1] = Successor(q)
      BY <1>1, <1>a, <2>1
    <2> HIDE DEF q
    <2>3. q < size /\ At(q) \in 1 .. 63 /\ Successor(q) = q + 1 + At(q)
      BY <2>2, SuccessorTyped, LabelTyped DEF Successor
    <2>4. skip_name(wire, q) = skip_name(wire, q + 1 + At(q))
      BY <1>2, <2>2, <2>3, SkipsInWire
    <2> QED
      BY <2>1, <2>2, <2>3, <2>4 DEF q
  <1>9. \A i \in Nat : i \in T
    <2> HIDE DEF T
    <2>1. T \in SUBSET Nat
      BY DEF T
    <2> QED
      BY <1>7, <1>8, <2>1, Induction
  <1>10. skip_name(wire, P[k]) = skip_name(wire, p)
    BY <1>9
  <1>11. skip_name(wire, P[k]) = P[k] + (IF Kind(P[k]) = "pointer" THEN 2 ELSE 1)
    <2> DEFINE q == P[k]
    <2>1. q \in Nat /\ Kind(q) \in {"root", "pointer"}
      BY <1>1, <1>b
    <2> HIDE DEF q
    <2>2. q < size /\ At(q) \in 0 .. 255
      BY <2>1, SuccessorTyped, ByteTyped
    <2>3. Kind(q) = "root" => At(q) = 0
      BY <1>2, <2>1, <2>2 DEF Kind
    <2>4. Kind(q) = "pointer" => At(q) >= 192
      BY <1>2, <2>1, <2>2 DEF Kind
    <2>5. skip_name(wire, q) = IF At(q) = 0 THEN q + 1 ELSE IF At(q) >= 192 THEN q + 2
                         ELSE skip_name(wire, q + 1 + At(q))
      BY <1>2, <2>1, <2>2, SkipsInWire
    <2>6. skip_name(wire, q) = q + (IF Kind(q) = "pointer" THEN 2 ELSE 1)
      BY <2>1, <2>2, <2>3, <2>4, <2>5
    <2> QED
      BY <2>6 DEF q
  <1> QED
    BY <1>6, <1>10, <1>11 DEF P

-----------------------------------------------------------------------------
(* The inductive invariant *)

MessageType ==
    /\ IsWire
    /\ left \in Seq(Entries)
    /\ parser \in {"name", "fixed"} => left # <<>>
    /\ parser \in {"name", "fixed", "end", "bad_name", "truncated"}
    /\ start \in Nat /\ offset \in Nat /\ current \in Nat
    /\ jumped \in BOOLEAN

\* The pointers among the first n items.
PointersUpTo(p, n) == {i \in 0 .. n - 1 : Kind(PathFrom(p)[i]) = "pointer"}

\* visited holds the targets of the pointers.
VisitedAre(p, n) ==
    /\ visited \in Seq(Nat)
    /\ Len(visited) = Cardinality(PointersUpTo(p, n))
    /\ \A j \in 1 .. Len(visited) : \E i \in PointersUpTo(p, n) : visited[j] = PathFrom(p)[i + 1]

\* After a jump the offset is behind the first pointer.
JumpedAt(p, n) ==
    IF jumped
    THEN \E i \in PointersUpTo(p, n) :
             /\ \A h \in 0 .. i - 1 : Kind(PathFrom(p)[h]) = "label"
             /\ offset = PathFrom(p)[i] + 2
    ELSE PointersUpTo(p, n) = {}

\* The loop has read n items of the name.
Walked(p, n) ==
    /\ PathFrom(p)[n] = current
    /\ ItemsUpTo(p, n)
    /\ text = TextFrom(p)[n]
    /\ VisitedAre(p, n)
    /\ JumpedAt(p, n)

MessageInv ==
    /\ MessageType
    /\ parser = "name" => \E n \in Nat : Walked(start, n)
    /\ NameIsReference

-----------------------------------------------------------------------------
\* The reference depends on the message only.
LEMMA Framed ==
    ASSUME wire' = wire, NEW p \in Nat, start' = p
    PROVE  /\ PathFrom(start)' = PathFrom(p) /\ TextFrom(start)' = TextFrom(p)
           /\ IsName(start)' = IsName(p) /\ NameText(start)' = NameText(p)
           /\ NameEnd(start)' = NameEnd(p) /\ skip_name(wire, start)' = skip_name(wire, p)
           /\ Pointers(start)' = Pointers(p)
           /\ \A n : PointersUpTo(start, n)' = PointersUpTo(p, n) /\ ItemsUpTo(start, n)' = ItemsUpTo(p, n)
  <1>1. size' = size /\ \A q : At(q)' = At(q)
    BY DEF size, At
  <1>2. \A q : Kind(q)' = Kind(q)
    BY <1>1 DEF Kind
  <1>3. \A q : Successor(q)' = Successor(q)
    BY <1>1, <1>2 DEF Successor
  <1>4. PathFrom(start)' = PathFrom(p)
    BY <1>3 DEF PathFrom
  <1>5. TextFrom(start)' = TextFrom(p)
    <2>1. \A q : LabelAt(q)' = LabelAt(q)
      BY <1>1 DEF LabelAt
    <2>2. \A t, q : Extended(t, q)' = Extended(t, q)
      BY <1>2, <2>1 DEF Extended
    <2> QED
      BY <1>4, <2>2 DEF TextFrom
  <1>6. IsName(start)' = IsName(p) /\ Pointers(start)' = Pointers(p) /\ NameText(start)' = NameText(p)
    BY <1>1, <1>2, <1>4, <1>5 DEF IsName, Pointers, NameText
  <1>7. NameEnd(start)' = NameEnd(p)
    <2>1. LabelsEnd(start)' = LabelsEnd(p)
      BY <1>1, <1>2, <1>4 DEF LabelsEnd
    <2> QED
      BY <1>2, <1>4, <2>1 DEF NameEnd
  <1>8. skip_name(wire, start)' = skip_name(wire, p)
    BY <1>1 DEF skip_name
  <1>9. ASSUME NEW n PROVE PointersUpTo(start, n)' = PointersUpTo(p, n) /\ ItemsUpTo(start, n)' = ItemsUpTo(p, n)
    BY <1>2, <1>4 DEF PointersUpTo, ItemsUpTo
  <1> QED
    BY <1>4, <1>5, <1>6, <1>7, <1>8, <1>9

\* What the guards of the loop say about the item at hand.
LEMMA GuardsAreKinds ==
    ASSUME IsWire, current \in Nat
    PROVE  /\ current < size /\ IsPointer /\ current + 2 <= size =>
                  Kind(current) = "pointer" /\ Successor(current) = Target
           /\ current < size /\ At(current) \in 1 .. 63 /\ current + 1 + At(current) <= size =>
                  Kind(current) = "label" /\ Successor(current) = current + 1 + At(current)
           /\ current < size /\ At(current) = 0 => Kind(current) = "root"
           /\ \/ current >= size
              \/ current < size /\ IsPointer /\ current + 2 > size
              \/ current < size /\ At(current) \in 64 .. 191
              \/ current < size /\ At(current) \in 1 .. 63 /\ current + 1 + At(current) > size
              => Kind(current) = "bad"
  <1> DEFINE a == At(current)
  <1>1. size \in Nat /\ (current < size => a \in 0 .. 255)
    BY ByteTyped
  <1>2. Kind(current) = IF current >= size THEN "bad"
                        ELSE IF a = 0 THEN "root"
                        ELSE IF a >= 192 THEN IF current + 1 < size THEN "pointer" ELSE "bad"
                        ELSE IF a <= 63 /\ current + a < size THEN "label" ELSE "bad"
    BY DEF Kind
  <1>3. IsPointer <=> a >= 192
    BY DEF IsPointer
  <1>4. /\ Kind(current) = "label" => Successor(current) = current + 1 + a
        /\ Kind(current) = "pointer" => Successor(current) = Target
    BY DEF Successor, Target
  <1> HIDE DEF a
  <1>5. current < size /\ IsPointer /\ current + 2 <= size => Kind(current) = "pointer"
    BY <1>1, <1>2, <1>3
  <1>6. current < size /\ a \in 1 .. 63 /\ current + 1 + a <= size => Kind(current) = "label"
    BY <1>1, <1>2
  <1>7. current < size /\ a = 0 => Kind(current) = "root"
    BY <1>1, <1>2
  <1>8. \/ current >= size
        \/ current < size /\ IsPointer /\ current + 2 > size
        \/ current < size /\ a \in 64 .. 191
        \/ current < size /\ a \in 1 .. 63 /\ current + 1 + a > size
        => Kind(current) = "bad"
    BY <1>1, <1>2, <1>3
  <1> QED
    BY <1>4, <1>5, <1>6, <1>7, <1>8 DEF a

\* A name that is begun has no items yet.
LEMMA NothingWalked ==
    ASSUME IsWire, NEW p \in Nat
    PROVE  /\ PathFrom(p)[0] = p /\ TextFrom(p)[0] = <<>>
           /\ ItemsUpTo(p, 0) /\ PointersUpTo(p, 0) = {} /\ Cardinality({}) = 0
           /\ <<>> \in Seq(Nat) /\ Len(<<>>) = 0
  <1>1. ItemsUpTo(p, 0) /\ PointersUpTo(p, 0) = {}
    BY DEF ItemsUpTo, PointersUpTo
  <1> QED
    BY <1>1, PathEquation, TextEquation, FS_EmptySet

\* A name that has just begun is walked zero steps.
LEMMA BeginNameKeeps ==
    ASSUME IsWire, wire' = wire, NEW p \in Nat, BeginName(p)
    PROVE  Walked(start, 0)'
  <1>1. start' = p /\ current' = p /\ jumped' = FALSE /\ visited' = <<>> /\ text' = <<>>
    BY DEF BeginName
  <1>2. /\ PathFrom(start)' = PathFrom(p) /\ TextFrom(start)' = TextFrom(p)
        /\ PointersUpTo(start, 0)' = PointersUpTo(p, 0) /\ ItemsUpTo(start, 0)' = ItemsUpTo(p, 0)
    BY <1>1, Framed
  <1>3. VisitedAre(start, 0)'
    <2>1. Len(visited') = 0 /\ visited' \in Seq(Nat) /\ Cardinality(PointersUpTo(start, 0)') = 0
      BY <1>1, <1>2, NothingWalked
    <2>2. \A j \in 1 .. Len(visited') : FALSE
      BY <2>1
    <2> QED
      BY <2>1, <2>2 DEF VisitedAre
  <1>4. JumpedAt(start, 0)'
    BY <1>1, <1>2, NothingWalked DEF JumpedAt
  <1> QED
    BY <1>1, <1>2, <1>3, <1>4, NothingWalked DEF Walked

\* A name is rejected only if its path leaves the message or has too many pointers.
LEMMA RejectedIsNoName ==
    ASSUME IsWire, start \in Nat, current \in Nat, MAX_POINTER_DEPTH \in Nat,
           NEW n \in Nat, Walked(start, n), RejectName
    PROVE  ~IsName(start) \/ Cardinality(Pointers(start)) > MAX_POINTER_DEPTH
  <1> SUFFICES ASSUME IsName(start) PROVE Cardinality(Pointers(start)) > MAX_POINTER_DEPTH
    OBVIOUS
  <1> DEFINE P == PathFrom(start)
  <1>1. P \in [Nat -> Nat] /\ P[n + 1] = Successor(P[n]) /\ size \in Nat
    BY PathEquation, ByteTyped
  <1>2. P[n] = current /\ ItemsUpTo(start, n) /\ VisitedAre(start, n)
    BY DEF Walked
  <1>3. PICK r \in Nat : r >= n /\ r < size /\ Kind(P[r]) = "root" /\ ItemsUpTo(start, r)
    BY <1>2, NameHasRoot
  <1>4. Kind(current) # "bad"
    <2>1. r = n => Kind(current) = "root"
      BY <1>2, <1>3
    <2>2. r > n => Kind(current) \in Item
      BY <1>2, <1>3 DEF ItemsUpTo
    <2> QED
      BY <1>3, <2>1, <2>2 DEF Item
  <1>5. current < size /\ IsPointer /\ current + 2 <= size /\ (TooMany \/ Contains(visited, Target))
    BY <1>1, <1>4, GuardsAreKinds DEF RejectName
  <1>6. Kind(P[n]) = "pointer" /\ Successor(P[n]) = Target
    BY <1>2, <1>5, GuardsAreKinds
  <1>7. r > n
    BY <1>3, <1>6
  <1>8. ~Contains(visited, Target)
    <2> SUFFICES ASSUME NEW j \in 1 .. Len(visited), visited[j] = Target PROVE FALSE
      BY DEF Contains
    <2>1. PICK i \in PointersUpTo(start, n) : visited[j] = P[i + 1]
      BY <1>2 DEF VisitedAre
    <2>2. i \in 0 .. n - 1
      BY DEF PointersUpTo
    <2>3. i + 1 \in 0 .. r /\ n + 1 \in 0 .. r /\ i + 1 < n + 1
      BY <1>3, <1>7, <2>2
    <2>4. P[i + 1] # P[n + 1]
      BY <1>3, <2>3, PathIsSimple
    <2> QED
      BY <1>1, <1>6, <2>1, <2>4
  <1>9. Len(visited) >= MAX_POINTER_DEPTH
    BY <1>5, <1>8 DEF TooMany
  <1> DEFINE A == PointersUpTo(start, n)
             B == A \cup {n}
  <1>10. B \subseteq Pointers(start)
    <2>1. \A i \in 0 .. n : i \in 0 .. size
      BY <1>1, <1>3, <1>7
    <2> QED
      BY <1>6, <2>1 DEF PointersUpTo, Pointers
  <1>11. IsFiniteSet(A) /\ n \notin A
    <2>1. IsFiniteSet(0 .. n - 1) /\ A \subseteq 0 .. n - 1
      BY FS_Interval DEF PointersUpTo
    <2> QED
      BY <2>1, FS_Subset
  <1>12. IsFiniteSet(Pointers(start))
    <2>1. IsFiniteSet(0 .. size)
      BY <1>1, FS_Interval
    <2>2. Pointers(start) \subseteq 0 .. size
      BY DEF Pointers
    <2> QED
      BY <2>1, <2>2, FS_Subset
  <1>13. Cardinality(A) = Len(visited)
    BY <1>2 DEF VisitedAre
  <1> HIDE DEF A
  <1>14. Cardinality(B) = Cardinality(A) + 1 /\ Cardinality(A) \in Nat
    BY <1>11, FS_AddElement, FS_CardinalityType
  <1> HIDE DEF B
  <1>15. Cardinality(B) <= Cardinality(Pointers(start)) /\ Cardinality(Pointers(start)) \in Nat
    BY <1>10, <1>12, FS_Subset, FS_CardinalityType
  <1> QED
    BY <1>9, <1>13, <1>14, <1>15

\* Every step of the parser preserves the invariant.
LEMMA RejectNameKeeps == ASSUME MessageInv, RejectName PROVE MessageInv'
  <1>1. parser = "name" /\ parser' = "bad_name" /\ UNCHANGED <<wire, left, offset, nameVars>>
    BY DEF RejectName, Stop
  <1>2. PICK n \in Nat : Walked(start, n)
    BY <1>1 DEF MessageInv
  <1>3. IsWire /\ start \in Nat /\ current \in Nat
    BY DEF MessageInv, MessageType
  <1>4. ~IsName(start) \/ Cardinality(Pointers(start)) > MAX_POINTER_DEPTH
    BY <1>2, <1>3, RejectedIsNoName, MessageAssumption
  <1>5. start' = start /\ wire' = wire
    BY <1>1 DEF nameVars
  <1>6. IsName(start)' = IsName(start) /\ Pointers(start)' = Pointers(start)
    BY <1>3, <1>5, Framed
  <1>7. NameIsReference'
    BY <1>1, <1>4, <1>6 DEF NameIsReference
  <1>8. MessageType'
    BY <1>1 DEF MessageInv, MessageType, nameVars, IsWire
  <1> QED
    BY <1>1, <1>7, <1>8 DEF MessageInv

\* One more item.
LEMMA PointersGrow ==
    ASSUME IsWire, NEW p \in Nat, NEW n \in Nat, ItemsUpTo(p, n), Kind(PathFrom(p)[n]) \in Item
    PROVE  /\ ItemsUpTo(p, n + 1)
           /\ IsFiniteSet(PointersUpTo(p, n)) /\ n \notin PointersUpTo(p, n)
           /\ PointersUpTo(p, n + 1) = IF Kind(PathFrom(p)[n]) = "pointer"
                                       THEN PointersUpTo(p, n) \cup {n} ELSE PointersUpTo(p, n)
  <1>1. \A i : i \in 0 .. (n + 1) - 1 <=> i \in 0 .. n - 1 \/ i = n
    OBVIOUS
  <1>2. ItemsUpTo(p, n + 1)
    BY <1>1 DEF ItemsUpTo
  <1>3. IsFiniteSet(0 .. n - 1) /\ PointersUpTo(p, n) \subseteq 0 .. n - 1 /\ n \notin 0 .. n - 1
    BY FS_Interval DEF PointersUpTo
  <1>4. IsFiniteSet(PointersUpTo(p, n)) /\ n \notin PointersUpTo(p, n)
    BY <1>3, FS_Subset
  <1>5. PointersUpTo(p, n + 1) = IF Kind(PathFrom(p)[n]) = "pointer"
                                 THEN PointersUpTo(p, n) \cup {n} ELSE PointersUpTo(p, n)
    BY <1>1 DEF PointersUpTo
  <1> QED
    BY <1>2, <1>4, <1>5

LEMMA FollowPointerKeeps == ASSUME MessageInv, FollowPointer PROVE MessageInv'
  <1>1. /\ parser = "name" /\ current < size /\ IsPointer /\ current + 2 <= size /\ ~TooMany
        /\ Len(visited) < MAX_POINTER_DEPTH
    <2>1. PICK n \in Nat : Walked(start, n)
      BY DEF MessageInv, FollowPointer, Reading
    <2>2. Len(visited) \in Nat
      BY <2>1, LenProperties DEF Walked, VisitedAre
    <2> QED
      BY <2>2, MessageAssumption DEF FollowPointer, Reading, TooMany
  <1>2. /\ visited' = Append(visited, Target) /\ offset' = EntryEnd /\ jumped' = TRUE
        /\ current' = Target /\ UNCHANGED <<wire, left, parser, start, text>>
    BY <1>1 DEF FollowPointer
  <1>3. IsWire /\ start \in Nat /\ current \in Nat /\ offset \in Nat /\ jumped \in BOOLEAN
    BY DEF MessageInv, MessageType
  <1>4. PICK n \in Nat : Walked(start, n)
    BY <1>1 DEF MessageInv
  <1> DEFINE P == PathFrom(start)
             A == PointersUpTo(start, n)
             B == PointersUpTo(start, n + 1)
  <1>5. P \in [Nat -> Nat] /\ P[n + 1] = Successor(P[n])
    BY <1>3, PathEquation
  <1>6. P[n] = current /\ ItemsUpTo(start, n) /\ VisitedAre(start, n) /\ JumpedAt(start, n)
        /\ text = TextFrom(start)[n]
    BY <1>4 DEF Walked
  <1>7. Kind(P[n]) = "pointer" /\ P[n + 1] = Target /\ Target \in Nat
    <2>1. Kind(current) = "pointer" /\ Successor(current) = Target
      BY <1>1, <1>3, GuardsAreKinds
    <2>2. P[n + 1] \in Nat
      BY <1>5
    <2> QED
      BY <1>5, <1>6, <2>1, <2>2
  <1>8. ItemsUpTo(start, n + 1) /\ B = A \cup {n} /\ IsFiniteSet(A) /\ n \notin A
    BY <1>3, <1>6, <1>7, PointersGrow DEF Item
  <1>9. TextFrom(start)[n + 1] = text
    BY <1>3, <1>6, <1>7, TextEquation DEF Extended
  <1>10. /\ PathFrom(start)' = P /\ TextFrom(start)' = TextFrom(start)
         /\ PointersUpTo(start, n + 1)' = B /\ ItemsUpTo(start, n + 1)' = ItemsUpTo(start, n + 1)
    BY <1>2, <1>3, Framed
  <1>11. VisitedAre(start, n + 1)'
    <2>1. visited \in Seq(Nat) /\ Len(visited) = Cardinality(A)
          /\ \A j \in 1 .. Len(visited) : \E i \in A : visited[j] = P[i + 1]
      BY <1>6 DEF VisitedAre
    <2> HIDE DEF P, A, B
    <2>2. /\ visited' \in Seq(Nat) /\ Len(visited') = Len(visited) + 1 /\ Len(visited) \in Nat
          /\ \A j \in 1 .. Len(visited) : visited'[j] = visited[j]
          /\ visited'[Len(visited) + 1] = Target
      BY <1>2, <1>7, <2>1, AppendProperties, LenProperties
    <2>3. Cardinality(B) = Cardinality(A) + 1
      BY <1>8, FS_AddElement
    <2>4. \A j \in 1 .. Len(visited') : \E i \in B : visited'[j] = P[i + 1]
      <3> TAKE j \in 1 .. Len(visited')
      <3>1. CASE j = Len(visited) + 1
        BY <3>1, <2>2, <1>7, <1>8
      <3>2. CASE j # Len(visited) + 1
        <4>1. j \in 1 .. Len(visited)
          BY <3>2, <2>2
        <4> QED
          BY <4>1, <2>1, <2>2, <1>8
      <3> QED
        BY <3>1, <3>2
    <2>5. Len(visited') = Cardinality(B)
      BY <2>1, <2>2, <2>3
    <2> QED
      BY <2>2, <2>4, <2>5, <1>10 DEF VisitedAre
  <1>12. JumpedAt(start, n + 1)'
    <2>1. \E i \in B : (\A h \in 0 .. i - 1 : Kind(P[h]) = "label") /\ offset' = P[i] + 2
      <3>1. CASE jumped
        <4>1. PICK i \in A : (\A h \in 0 .. i - 1 : Kind(P[h]) = "label") /\ offset = P[i] + 2
          BY <1>6, <3>1 DEF JumpedAt
        <4> QED
          BY <4>1, <1>2, <1>8, <3>1 DEF EntryEnd
      <3>2. CASE ~jumped
        <4>1. \A h \in 0 .. n - 1 : Kind(P[h]) \in Item /\ Kind(P[h]) # "pointer"
          BY <1>6, <3>2 DEF JumpedAt, ItemsUpTo, PointersUpTo
        <4>2. offset' = P[n] + 2
          BY <1>2, <1>6, <3>2 DEF EntryEnd
        <4> QED
          BY <4>1, <4>2, <1>8 DEF Item
      <3> QED
        BY <3>1, <3>2
    <2>2. \A q : Kind(q)' = Kind(q)
      BY <1>2 DEF Kind, size, At
    <2> QED
      BY <1>2, <1>10, <2>1, <2>2 DEF JumpedAt
  <1>13. Walked(start, n + 1)'
    BY <1>2, <1>7, <1>8, <1>9, <1>10, <1>11, <1>12 DEF Walked
  <1>14. EntryEnd \in Nat
    BY <1>3 DEF EntryEnd
  <1>15. MessageType'
    BY <1>2, <1>7, <1>14 DEF MessageInv, MessageType, IsWire
  <1>16. NameIsReference'
    BY <1>1, <1>2 DEF NameIsReference
  <1> QED
    BY <1>13, <1>15, <1>16 DEF MessageInv

LEMMA ReadLabelKeeps == ASSUME MessageInv, ReadLabel PROVE MessageInv'
  <1>1. /\ parser = "name" /\ current < size /\ At(current) \in 1 .. 63
        /\ current + 1 + At(current) <= size
        /\ text' = text \o (IF text = <<>> THEN <<>> ELSE <<46>>) \o LabelAt(current)
        /\ current' = current + 1 + At(current)
        /\ UNCHANGED <<wire, left, parser, start, offset, jumped, visited>>
    BY DEF ReadLabel, Reading, LabelAt
  <1>2. IsWire /\ start \in Nat /\ current \in Nat
    BY DEF MessageInv, MessageType
  <1>3. PICK n \in Nat : Walked(start, n)
    BY <1>1 DEF MessageInv
  <1> DEFINE P == PathFrom(start)
             X == TextFrom(start)
  <1>4. P \in [Nat -> Nat] /\ P[n + 1] = Successor(P[n])
    BY <1>2, PathEquation
  <1>5. X \in [Nat -> Seq(Byte)] /\ X[n + 1] = Extended(X[n], P[n])
    BY <1>2, TextEquation
  <1>6. P[n] = current /\ ItemsUpTo(start, n) /\ VisitedAre(start, n) /\ JumpedAt(start, n) /\ text = X[n]
    BY <1>3 DEF Walked
  <1>7. Kind(P[n]) = "label" /\ P[n + 1] = current'
    <2>1. Kind(current) = "label" /\ Successor(current) = current + 1 + At(current)
      BY <1>1, <1>2, GuardsAreKinds
    <2> QED
      BY <1>1, <1>4, <1>6, <2>1
  <1>8. X[n + 1] = text'
    <2>1. text \in Seq(Byte) /\ LabelAt(current) \in Seq(Byte)
      BY <1>2, <1>5, <1>6, <1>7, LabelTyped
    <2>2. X[n + 1] = IF text = <<>> THEN LabelAt(current) ELSE text \o <<46>> \o LabelAt(current)
      BY <1>5, <1>6, <1>7 DEF Extended
    <2>3. CASE text = <<>>
      <3>1. text' = (<<>> \o <<>>) \o LabelAt(current)
        BY <1>1, <2>3
      <3>2. text' = LabelAt(current)
        BY <3>1, <2>1, ConcatEmptySeq
      <3> QED
        BY <3>2, <2>2, <2>3
    <2>4. CASE text # <<>>
      BY <1>1, <2>2, <2>4
    <2> QED
      BY <2>3, <2>4
  <1>9. ItemsUpTo(start, n + 1) /\ PointersUpTo(start, n + 1) = PointersUpTo(start, n)
    BY <1>2, <1>6, <1>7, PointersGrow DEF Item
  <1>10. /\ PathFrom(start)' = P /\ TextFrom(start)' = X
         /\ PointersUpTo(start, n + 1)' = PointersUpTo(start, n)
         /\ ItemsUpTo(start, n + 1)' = ItemsUpTo(start, n + 1)
    BY <1>1, <1>2, <1>9, Framed
  <1>11. VisitedAre(start, n + 1)'
    BY <1>1, <1>6, <1>10 DEF VisitedAre
  <1>12. JumpedAt(start, n + 1)'
    <2>1. \A q : Kind(q)' = Kind(q)
      BY <1>1 DEF Kind, size, At
    <2> QED
      BY <1>1, <1>6, <1>10, <2>1 DEF JumpedAt
  <1>13. Walked(start, n + 1)'
    BY <1>7, <1>8, <1>9, <1>10, <1>11, <1>12 DEF Walked
  <1>14. current' \in Nat
    <2>1. current' = current + 1 + At(current) /\ At(current) \in 1 .. 63 /\ current \in Nat
      BY <1>1, <1>2
    <2> QED
      BY <2>1
  <1>15. MessageType'
    BY <1>1, <1>14 DEF MessageInv, MessageType, IsWire
  <1>16. NameIsReference'
    BY <1>1 DEF NameIsReference
  <1> QED
    BY <1>13, <1>15, <1>16 DEF MessageInv

LEMMA ReadRootKeeps == ASSUME MessageInv, ReadRoot PROVE MessageInv'
  <1>1. /\ parser = "name" /\ current < size /\ At(current) = 0
        /\ offset' = IF jumped THEN offset ELSE current + 1
        /\ parser' = "fixed"
        /\ UNCHANGED <<wire, left, nameVars>>
    BY DEF ReadRoot, Reading
  <1>2. IsWire /\ start \in Nat /\ current \in Nat /\ offset \in Nat /\ size \in Nat
    BY ByteTyped DEF MessageInv, MessageType
  <1>3. PICK n \in Nat : Walked(start, n)
    BY <1>1 DEF MessageInv
  <1> DEFINE P == PathFrom(start)
  <1>4. P \in [Nat -> Nat]
    BY <1>2, PathEquation
  <1>5. P[n] = current /\ ItemsUpTo(start, n) /\ JumpedAt(start, n) /\ text = TextFrom(start)[n]
    BY <1>3 DEF Walked
  <1>6. Kind(P[n]) = "root"
    BY <1>1, <1>2, <1>5, GuardsAreKinds
  <1>7. n < size
    BY <1>2, <1>5, <1>6, PathIsShort
  <1>8. IsName(start)
    <2>1. n \in 0 .. size
      BY <1>2, <1>7
    <2> QED
      BY <1>6, <2>1 DEF IsName
  <1>9. NameText(start) = text
    <2>1. TextFrom(start)[size] = TextFrom(start)[n]
      BY <1>2, <1>6, <1>7, TextStays
    <2> QED
      BY <1>5, <2>1 DEF NameText
  <1>10. NameEnd(start) = offset' /\ skip_name(wire, start) = offset'
    <2>1. CASE jumped
      <3>1. PICK i \in PointersUpTo(start, n) :
                (\A h \in 0 .. i - 1 : Kind(P[h]) = "label") /\ offset = P[i] + 2
        BY <1>5, <2>1 DEF JumpedAt
      <3>2. i \in 0 .. n - 1 /\ Kind(P[i]) = "pointer"
        BY DEF PointersUpTo
      <3>3. i \in Nat /\ i <= size
        BY <1>2, <1>7, <3>2
      <3>4. NameEnd(start) = P[i] + 2 /\ skip_name(wire, start) = NameEnd(start)
        BY <1>2, <3>1, <3>2, <3>3, EndOfLabels
      <3> QED
        BY <1>1, <2>1, <3>1, <3>4
    <2>2. CASE ~jumped
      <3>1. \A h \in 0 .. n - 1 : Kind(P[h]) = "label"
        BY <1>5, <2>2 DEF JumpedAt, ItemsUpTo, PointersUpTo, Item
      <3>2. NameEnd(start) = P[n] + 1 /\ skip_name(wire, start) = NameEnd(start)
        BY <1>2, <1>6, <1>7, <3>1, EndOfLabels
      <3> QED
        BY <1>1, <1>5, <2>2, <3>2
    <2> QED
      BY <2>1, <2>2
  <1>11. start' = start /\ wire' = wire /\ text' = text
    BY <1>1 DEF nameVars
  <1>12. /\ IsName(start)' = IsName(start) /\ NameText(start)' = NameText(start)
         /\ NameEnd(start)' = NameEnd(start) /\ skip_name(wire, start)' = skip_name(wire, start)
    BY <1>2, <1>11, Framed
  <1>13. NameIsReference'
    BY <1>1, <1>8, <1>9, <1>10, <1>11, <1>12 DEF NameIsReference
  <1>14. offset' \in Nat
    BY <1>1, <1>2
  <1>15. MessageType'
    BY <1>1, <1>14 DEF MessageInv, MessageType, nameVars, IsWire
  <1> QED
    BY <1>1, <1>13, <1>15 DEF MessageInv

LEMMA ReadFixedKeeps == ASSUME MessageInv, ReadFixed PROVE MessageInv'
  <1> DEFINE next == offset + fixed_size + rd_length
  <1>1. /\ parser = "fixed" /\ ~Truncated /\ offset' = next /\ left' = Tail(left) /\ wire' = wire
        /\ \/ Len(left) = 1 /\ parser' = "end" /\ UNCHANGED nameVars
           \/ Len(left) # 1 /\ parser' = "name" /\ BeginName(next)
    BY DEF ReadFixed
  <1>2. IsWire /\ offset \in Nat /\ size \in Nat /\ left \in Seq(Entries) /\ left # <<>>
    BY <1>1, ByteTyped DEF MessageInv, MessageType
  <1>3. next \in Nat
    <2>1. /\ fixed_size \in Nat
          /\ Head(left).kind # "question" => fixed_size >= 2
      <3>1. Head(left) \in Entries
        BY <1>2, HeadTailProperties
      <3> QED
        BY <3>1 DEF Entries, Question, Record, fixed_size
    <2>2. rd_length \in Nat
      <3>1. CASE Head(left).kind = "question" \/ offset + fixed_size > size
        BY <3>1 DEF rd_length
      <3>2. CASE ~(Head(left).kind = "question" \/ offset + fixed_size > size)
        <4> DEFINE a == At(offset + fixed_size - 2)
                   b == At(offset + fixed_size - 1)
        <4>1. offset \in Nat /\ size \in Nat /\ fixed_size \in Nat /\ fixed_size >= 2
              /\ offset + fixed_size <= size
          BY <1>2, <2>1, <3>2
        <4>2. /\ offset + fixed_size - 2 \in Nat /\ offset + fixed_size - 1 \in Nat
              /\ offset + fixed_size - 2 < size /\ offset + fixed_size - 1 < size
          BY <4>1
        <4>3. a \in 0 .. 255 /\ b \in 0 .. 255
          BY <1>2, <4>2, ByteTyped
        <4>4. rd_length = a * 256 + b
          BY <3>2 DEF rd_length
        <4> HIDE DEF a, b
        <4> QED
          BY <4>3, <4>4
      <3> QED
        BY <3>1, <3>2
    <2> QED
      BY <1>2, <2>1, <2>2
  <1>4. Tail(left) \in Seq(Entries) /\ (Len(left) # 1 => Tail(left) # <<>>)
    <2>1. /\ Tail(left) \in Seq(Entries) /\ Len(Tail(left)) = Len(left) - 1
          /\ Len(left) \in Nat
      BY <1>2, HeadTailProperties, LenProperties
    <2>2. Tail(left) = <<>> => Len(Tail(left)) = 0
      BY EmptySeq
    <2> QED
      BY <2>1, <2>2
  <1> HIDE DEF next
  <1>5. CASE Len(left) = 1 /\ parser' = "end" /\ UNCHANGED nameVars
    <2>1. MessageType'
      BY <1>1, <1>3, <1>4, <1>5 DEF MessageInv, MessageType, nameVars, IsWire
    <2> QED
      BY <1>5, <2>1 DEF MessageInv, NameIsReference
  <1>6. CASE Len(left) # 1 /\ parser' = "name" /\ BeginName(next)
    <2>1. Walked(start, 0)'
      BY <1>1, <1>2, <1>3, <1>6, BeginNameKeeps
    <2>2. MessageType'
      BY <1>1, <1>3, <1>4, <1>6 DEF MessageInv, MessageType, BeginName, IsWire
    <2> QED
      BY <1>6, <2>1, <2>2 DEF MessageInv, NameIsReference
  <1> QED
    BY <1>1, <1>5, <1>6

LEMMA MessageStep == ASSUME MessageInv, parse_message PROVE MessageInv'
  <1>1. ASSUME RejectEntry PROVE MessageInv'
    <2>1. parser' = "truncated" /\ UNCHANGED <<wire, left, offset, nameVars>>
      BY <1>1 DEF RejectEntry, Stop
    <2>2. MessageType'
      BY <2>1 DEF MessageInv, MessageType, nameVars, IsWire
    <2> QED
      BY <2>1, <2>2 DEF MessageInv, NameIsReference
  <1> QED
    BY <1>1, RejectNameKeeps, FollowPointerKeeps, ReadLabelKeeps, ReadRootKeeps, ReadFixedKeeps
       DEF parse_message, decompress_name

\* The invariant holds before the first byte is read.
LEMMA MessageInitial ==
    ASSUME NEW wires, wires \subseteq Seq(Byte), NEW layouts, layouts \subseteq Seq(Entries),
           MessageStart(wires, layouts)
    PROVE  MessageInv
  <1>1. /\ IsWire /\ left \in Seq(Entries) /\ parser = IF left = <<>> THEN "end" ELSE "name"
        /\ start = 0 /\ offset = 0 /\ current = 0
        /\ jumped = FALSE /\ visited = <<>> /\ text = <<>>
    BY DEF MessageStart, IsWire, IsBytes
  <1>2. MessageType
    BY <1>1 DEF MessageType
  <1>a. /\ PathFrom(start)[0] = start /\ TextFrom(start)[0] = <<>>
        /\ ItemsUpTo(start, 0) /\ PointersUpTo(start, 0) = {} /\ Cardinality({}) = 0
        /\ <<>> \in Seq(Nat) /\ Len(<<>>) = 0
    <2>1. start \in Nat /\ IsWire
      BY <1>1
    <2> QED
      BY <2>1, NothingWalked
  <1>3. VisitedAre(start, 0) /\ JumpedAt(start, 0)
    <2>1. JumpedAt(start, 0)
      BY <1>1, <1>a DEF JumpedAt
    <2>2. \A j \in 1 .. Len(visited) : FALSE
      BY <1>1, <1>a
    <2> QED
      BY <1>1, <1>a, <2>1, <2>2 DEF VisitedAre
  <1>4. Walked(start, 0)
    BY <1>1, <1>3, <1>a DEF Walked
  <1> QED
    BY <1>1, <1>2, <1>4 DEF MessageInv, NameIsReference

LEMMA MessageStutters == ASSUME MessageInv, UNCHANGED messageVars PROVE MessageInv'
  <1>1. UNCHANGED <<wire, left, parser, offset, start, current, jumped, visited, text>>
    BY DEF messageVars, nameVars
  <1>2. start \in Nat
    BY DEF MessageInv, MessageType
  <1>3. MessageType'
    BY <1>1 DEF MessageInv, MessageType, IsWire
  <1>4. /\ PathFrom(start)' = PathFrom(start) /\ TextFrom(start)' = TextFrom(start)
        /\ IsName(start)' = IsName(start) /\ NameText(start)' = NameText(start)
        /\ NameEnd(start)' = NameEnd(start) /\ skip_name(wire, start)' = skip_name(wire, start)
        /\ Pointers(start)' = Pointers(start)
        /\ \A n : PointersUpTo(start, n)' = PointersUpTo(start, n)
                  /\ ItemsUpTo(start, n)' = ItemsUpTo(start, n)
    BY <1>1, <1>2, Framed
  <1>5. NameIsReference'
    BY <1>1, <1>4 DEF MessageInv, NameIsReference
  <1>6. \A q : Kind(q)' = Kind(q)
    BY <1>1 DEF Kind, size, At
  <1>7. ASSUME NEW n \in Nat, Walked(start, n) PROVE Walked(start, n)'
    <2>1. VisitedAre(start, n)' /\ JumpedAt(start, n)'
      BY <1>1, <1>4, <1>6, <1>7 DEF Walked, VisitedAre, JumpedAt
    <2> QED
      BY <1>1, <1>4, <1>7, <2>1 DEF Walked
  <1> QED
    BY <1>1, <1>3, <1>5, <1>7 DEF MessageInv

-----------------------------------------------------------------------------
(* Names, as the builder writes them *)

\* A name's length and its characters.
LEMMA NextDotIs ==
    ASSUME NEW name, IsBytes(name), NEW pos \in 1 .. Len(name)
    PROVE  /\ NextDot(name, pos) \in pos .. Len(name) + 1
           /\ \A i \in pos .. NextDot(name, pos) - 1 : name[i] # Dot
           /\ NextDot(name, pos) <= Len(name) => name[NextDot(name, pos)] = Dot
  <1> DEFINE n == Len(name)
             dots == {i \in pos .. n : name[i] = Dot}
             d == NextDot(name, pos)
  <1>1. n \in Nat
    BY BytesTyped
  <1>2. d = IF dots = {} THEN n + 1 ELSE CHOOSE i \in dots : \A j \in dots : i <= j
    BY DEF NextDot
  <1> HIDE DEF n, d
  <1>3. CASE dots = {}
    BY <1>1, <1>2, <1>3 DEF n, d
  <1>4. CASE dots # {}
    <2>1. dots \subseteq Nat
      BY <1>1 DEF n
    <2>2. \E i \in dots : \A j \in dots : i <= j
      BY <1>4, <2>1, LeastElement
    <2> DEFINE least == CHOOSE i \in dots : \A j \in dots : i <= j
    <2>3. least \in dots /\ \A j \in dots : least <= j
      BY <2>2
    <2>4. d = least
      BY <1>2, <1>4
    <2> HIDE DEF least
    <2>5. d \in pos .. n /\ name[d] = Dot /\ \A j \in pos .. n : name[j] = Dot => d <= j
      BY <2>3, <2>4
    <2> QED
      BY <1>1, <2>5 DEF d, n
  <1> QED
    BY <1>3, <1>4

\* A list of labels: none is empty or too long, and none follows the last dot.
IsText(t) ==
    /\ IsBytes(t)
    /\ t # <<>> => t[Len(t)] # Dot
    /\ \A pos \in LabelStarts(t) : t[pos] # Dot /\ NextDot(t, pos) - pos <= 63
    /\ Len(t) <= 253

\* The bytes of such a name, one by one.
LEMMA EncodedText ==
    ASSUME NEW t, IsText(t), t # <<>>
    PROVE  /\ Len(t) \in Nat \ {0} /\ Len(encode_name(t)) = Len(t) + 2
           /\ encode_name(t)[Len(t) + 2] = 0
           /\ \A i \in 1 .. Len(t) + 1 : encode_name(t)[i] = IF i \in LabelStarts(t) THEN NextDot(t, i) - i
                                                            ELSE t[i - 1]
  <1> DEFINE n == Len(t)
  <1>1. n \in Nat \ {0} /\ t \in Seq(Byte) /\ n <= 253
    BY BytesTyped, EmptySeq DEF IsText, IsBytes
  <1>2. t # <<Dot>> /\ Last(t) # Dot
    <2>1. t[Len(t)] # Dot
      BY DEF IsText
    <2>2. Last(t) = t[Len(t)]
      BY DEF Last
    <2>3. t = <<Dot>> => Len(t) = 1 /\ t[1] = Dot
      OBVIOUS
    <2> QED
      BY <2>1, <2>2, <2>3
  <1>3. ~\E pos \in LabelStarts(t) : NextDot(t, pos) - pos > MaxLabel
    <2> SUFFICES ASSUME NEW pos \in LabelStarts(t) PROVE ~(NextDot(t, pos) - pos > 63)
      BY DEF MaxLabel
    <2>1. NextDot(t, pos) \in Int /\ pos \in Int
      BY <1>1, NextDotIs DEF LabelStarts, IsText
    <2>2. NextDot(t, pos) - pos <= 63
      BY DEF IsText
    <2> QED
      BY <2>1, <2>2
  <1> DEFINE b(i) == IF i = n + 2 THEN 0 ELSE IF i \in LabelStarts(t) THEN NextDot(t, i) - i ELSE t[i - 1]
  <1>4. encode_name(t) = [i \in 1 .. n + 2 |-> b(i)]
    <2>1. ~(n + 2 > MaxName)
      BY <1>1 DEF MaxName
    <2> QED
      BY <1>2, <1>3, <2>1 DEF encode_name
  <1> HIDE DEF b, n
  <1>5. Len(encode_name(t)) = n + 2 /\ \A i \in 1 .. n + 2 : encode_name(t)[i] = b(i)
    BY <1>1, <1>4
  <1> QED
    BY <1>1, <1>5 DEF b, n

\* What encode_name accepts, but for the root.
LEMMA Accepted ==
    ASSUME NEW name, IsBytes(name), name \notin {<<>>, <<Dot>>}, encode_name(name) # Refuse
    PROVE  LET encoded == Len(name) + IF Last(name) = Dot THEN 1 ELSE 2
           IN  /\ encoded <= 255
               /\ \A pos \in LabelStarts(name) : NextDot(name, pos) - pos <= 63
               /\ encode_name(name) = [i \in 1 .. encoded |-> IF i = encoded THEN 0
                                                             ELSE IF i \in LabelStarts(name) THEN NextDot(name, i) - i
                                                             ELSE name[i - 1]]
  <1> DEFINE encoded == Len(name) + IF Last(name) = Dot THEN 1 ELSE 2
             b == [i \in 1 .. encoded |-> IF i = encoded THEN 0
                                          ELSE IF i \in LabelStarts(name) THEN NextDot(name, i) - i
                                          ELSE name[i - 1]]
             long == \E pos \in LabelStarts(name) : NextDot(name, pos) - pos > 63
  <1>1. Len(name) \in Nat
    BY BytesTyped
  <1>2. encoded \in Nat
    BY <1>1
  <1>3. encode_name(name) = IF encoded > 255 \/ long THEN Refuse ELSE b
    BY DEF encode_name, MaxName, MaxLabel
  <1>4. ~(encoded > 255) /\ ~long /\ encode_name(name) = b
    <2> HIDE DEF b, long, encoded
    <2> QED
      BY <1>3
  <1>5. ASSUME NEW pos \in LabelStarts(name) PROVE NextDot(name, pos) - pos <= 63
    <2>1. NextDot(name, pos) \in Int /\ pos \in Int
      BY <1>1, NextDotIs DEF LabelStarts
    <2> QED
      BY <1>4, <2>1
  <1> QED
    BY <1>2, <1>4, <1>5

\* The dot at the end of a name leaves no trace.
LEMMA FinalDot ==
    ASSUME NEW name, IsBytes(name), NEW n \in Nat, n >= 2, Len(name) = n, name[n] = Dot,
           \A pos \in LabelStarts(name) : name[pos] # Dot
    PROVE  LET t == Front(name)
           IN  /\ IsBytes(t) /\ Len(t) = n - 1 /\ t # <<>>
               /\ \A i \in 1 .. n - 1 : t[i] = name[i]
               /\ t[n - 1] # Dot
               /\ LabelStarts(t) = LabelStarts(name)
               /\ \A pos \in LabelStarts(t) : NextDot(t, pos) = NextDot(name, pos)
  <1> DEFINE t == Front(name)
  <1>1. IsBytes(t) /\ Len(t) = n - 1 /\ \A i \in 1 .. n - 1 : t[i] = name[i]
    BY DEF IsBytes, Front
  <1> HIDE DEF t
  <1>2. t # <<>>
    BY <1>1
  <1>3. n \notin LabelStarts(name)
    OBVIOUS
  <1>4. name[n - 1] # Dot
    BY <1>3 DEF LabelStarts
  <1>5. LabelStarts(t) = LabelStarts(name)
    <2>1. ASSUME NEW i \in 1 .. n PROVE i \in LabelStarts(t) <=> i \in LabelStarts(name)
      <3>1. CASE i = n
        BY <1>1, <1>3, <3>1 DEF LabelStarts
      <3>2. CASE i # n /\ i # 1
        <4>1. i \in 1 .. n - 1 /\ i - 1 \in 1 .. n - 1
          BY <3>2
        <4> QED
          BY <1>1, <3>2, <4>1 DEF LabelStarts
      <3>3. CASE i = 1
        BY <1>1, <3>3 DEF LabelStarts
      <3> QED
        BY <3>1, <3>2, <3>3
    <2>2. \A i : i \in LabelStarts(t) \/ i \in LabelStarts(name) => i \in 1 .. n
      BY <1>1 DEF LabelStarts
    <2> QED
      BY <2>1, <2>2
  <1>6. ASSUME NEW pos \in LabelStarts(t) PROVE NextDot(t, pos) = NextDot(name, pos)
    <2> DEFINE d == NextDot(t, pos)
               e == NextDot(name, pos)
    <2>1. pos \in 1 .. n - 1
      BY <1>1 DEF LabelStarts
    <2>2. d \in pos .. n /\ (\A i \in pos .. d - 1 : t[i] # Dot) /\ (d <= n - 1 => t[d] = Dot)
      BY <1>1, <2>1, NextDotIs
    <2>3. e \in pos .. n + 1 /\ (\A i \in pos .. e - 1 : name[i] # Dot) /\ (e <= n => name[e] = Dot)
      BY <2>1, NextDotIs
    <2> HIDE DEF d, e
    <2>4. name[d] = Dot
      BY <1>1, <2>1, <2>2
    <2>5. ~(d < e)
      BY <2>1, <2>2, <2>3, <2>4
    <2>6. ~(e < d)
      <3> SUFFICES ASSUME e < d PROVE FALSE
        OBVIOUS
      <3>1. e \in pos .. d - 1 /\ e \in 1 .. n - 1
        BY <2>1, <2>2, <2>3
      <3> QED
        BY <1>1, <2>2, <2>3, <3>1
    <2> QED
      BY <2>2, <2>3, <2>5, <2>6 DEF d, e
  <1> QED
    BY <1>1, <1>2, <1>4, <1>5, <1>6 DEF t

\* A name that is accepted and has no empty label is written as the list of
\* labels that it is.
LEMMA NameIsWritten ==
    ASSUME NEW name, IsBytes(name), Regular(name), encode_name(name) # Refuse
    PROVE  IsText(NameBack(name)) /\ encode_name(name) = encode_name(NameBack(name))
  <1> DEFINE t == NameBack(name)
             n == Len(name)
  <1>1. n \in Nat /\ name \in Seq(Byte)
    BY BytesTyped DEF IsBytes
  <1>2. IsText(<<>>)
    <2>1. Len(<<>>) = 0 /\ IsBytes(<<>>)
      BY DEF IsBytes
    <2>2. LabelStarts(<<>>) = {}
      BY DEF LabelStarts
    <2> QED
      BY <2>1, <2>2 DEF IsText
  <1>3. CASE name \in {<<>>, <<Dot>>}
    <2>1. t = <<>>
      <3>1. CASE name = <<>>
        BY <3>1 DEF NameBack
      <3>2. CASE name = <<Dot>>
        <4>1. Last(name) = Dot /\ name # <<>> /\ Front(name) = <<>>
          BY <3>2 DEF Last, Front
        <4> QED
          BY <4>1 DEF NameBack
      <3> QED
        BY <1>3, <3>1, <3>2
    <2>2. encode_name(name) = <<0>> /\ encode_name(<<>>) = <<0>>
      BY <1>3 DEF encode_name
    <2> QED
      BY <1>2, <2>1, <2>2
  <1>4. CASE name \notin {<<>>, <<Dot>>}
    <2> DEFINE encoded == n + IF Last(name) = Dot THEN 1 ELSE 2
    <2>1. /\ encoded <= 255
          /\ \A pos \in LabelStarts(name) : NextDot(name, pos) - pos <= 63
          /\ encode_name(name) = [i \in 1 .. encoded |-> IF i = encoded THEN 0
                                                        ELSE IF i \in LabelStarts(name) THEN NextDot(name, i) - i
                                                        ELSE name[i - 1]]
      BY <1>4, Accepted
    <2>2. \A pos \in LabelStarts(name) : name[pos] # Dot
      BY <1>4 DEF Regular
    <2>3. n # 0
      BY <1>1, <1>4, EmptySeq
    <2>4. CASE Last(name) # Dot
      <3>1. t = name
        BY <2>4 DEF NameBack
      <3>2. name[n] # Dot
        BY <2>4 DEF Last
      <3>3. n <= 253
        BY <1>1, <2>1, <2>4
      <3> QED
        BY <2>1, <2>2, <3>1, <3>2, <3>3 DEF IsText
    <2>5. CASE Last(name) = Dot
      <3>1. t = Front(name)
        BY <1>4, <2>5 DEF NameBack
      <3>2. name[n] = Dot
        BY <2>5 DEF Last
      <3>3. n >= 2
        <4>1. n = 1 => name = <<Dot>>
          BY <1>1, <3>2
        <4>2. n \in Nat
          BY <1>1
        <4>3. n # 1
          BY <1>4, <4>1
        <4> HIDE DEF n
        <4> QED
          BY <2>3, <4>2, <4>3
      <3>4. /\ IsBytes(t) /\ Len(t) = n - 1 /\ t # <<>>
            /\ \A i \in 1 .. n - 1 : t[i] = name[i]
            /\ t[n - 1] # Dot
            /\ LabelStarts(t) = LabelStarts(name)
            /\ \A pos \in LabelStarts(t) : NextDot(t, pos) = NextDot(name, pos)
        BY <1>1, <2>2, <3>1, <3>2, <3>3, FinalDot
      <3>5. n <= 254
        BY <1>1, <2>1, <2>5
      <3> HIDE DEF t
      <3>6. IsText(t)
        <4>1. \A pos \in LabelStarts(t) : t[pos] # Dot
          BY <2>2, <3>4 DEF LabelStarts
        <4> QED
          BY <1>1, <2>1, <3>4, <3>5, <4>1 DEF IsText
      <3> DEFINE b(i) == IF i = n + 1 THEN 0 ELSE IF i \in LabelStarts(name) THEN NextDot(name, i) - i
                         ELSE name[i - 1]
      <3>7. encode_name(name) = [i \in 1 .. n + 1 |-> b(i)]
        BY <2>1, <2>5
      <3>8. \A i \in 1 .. n + 1 : encode_name(t)[i] = b(i)
        <4> SUFFICES ASSUME NEW i \in 1 .. n + 1 PROVE encode_name(t)[i] = b(i)
          OBVIOUS
        <4>1. CASE i = n + 1
          BY <1>1, <3>4, <3>6, <4>1, EncodedText
        <4>2. CASE i # n + 1
          <5>1. i \in 1 .. Len(t) + 1
            BY <1>1, <3>4, <4>2
          <5>2. encode_name(t)[i] = IF i \in LabelStarts(t) THEN NextDot(t, i) - i ELSE t[i - 1]
            BY <3>4, <3>6, <5>1, EncodedText
          <5>3. i \notin LabelStarts(t) => i - 1 \in 1 .. n - 1
            BY <1>1, <3>3, <3>4, <4>2 DEF LabelStarts
          <5> QED
            BY <3>4, <4>2, <5>2, <5>3
        <4> QED
          BY <4>1, <4>2
      <3>9. encode_name(t) = [i \in 1 .. n + 1 |-> encode_name(t)[i]]
        <4>1. t \notin {<<>>, <<Dot>>} /\ encode_name(t) # Refuse /\ Last(t) # Dot
          <5>1. t # <<Dot>>
            BY <3>4
          <5>2. Last(t) # Dot
            BY <1>1, <3>4 DEF Last
          <5>3. Len(encode_name(t)) # Len(Refuse)
            BY <3>4, <3>6, EncodedText DEF Refuse
          <5> QED
            BY <3>4, <5>1, <5>2, <5>3
        <4> DEFINE c(i) == IF i = Len(t) + 2 THEN 0 ELSE IF i \in LabelStarts(t) THEN NextDot(t, i) - i
                           ELSE t[i - 1]
        <4>2. encode_name(t) = [i \in 1 .. Len(t) + 2 |-> c(i)]
          BY <3>4, <4>1, Accepted
        <4>3. Len(t) + 2 = n + 1
          BY <1>1, <3>4
        <4> HIDE DEF c
        <4> QED
          BY <4>2, <4>3
      <3> HIDE DEF b
      <3> QED
        BY <3>6, <3>7, <3>8, <3>9 DEF t
    <2> QED
      BY <2>4, <2>5
  <1> QED
    BY <1>3, <1>4

\* encode_name writes bytes.
LEMMA EncodedTyped ==
    ASSUME NEW name, IsBytes(name), encode_name(name) # Refuse
    PROVE  IsBytes(encode_name(name))
  <1> DEFINE n == Len(name)
  <1>1. n \in Nat /\ \A p \in Nat : p < n => name[p + 1] \in 0 .. 255
    BY BytesTyped
  <1>2. CASE name \in {<<>>, <<Dot>>}
    <2>1. encode_name(name) = <<0>>
      BY <1>2 DEF encode_name
    <2> QED
      BY <2>1 DEF IsBytes, Byte
  <1>3. CASE name \notin {<<>>, <<Dot>>}
    <2> DEFINE encoded == n + IF Last(name) = Dot THEN 1 ELSE 2
               b(i) == IF i = encoded THEN 0 ELSE IF i \in LabelStarts(name) THEN NextDot(name, i) - i
                       ELSE name[i - 1]
    <2>1. /\ \A pos \in LabelStarts(name) : NextDot(name, pos) - pos <= 63
          /\ encode_name(name) = [i \in 1 .. encoded |-> b(i)]
      BY <1>3, Accepted
    <2>2. encoded \in Nat /\ encoded <= n + 2
      BY <1>1
    <2>3. ASSUME NEW i \in 1 .. encoded PROVE b(i) \in 0 .. 255
      <3>1. CASE i = encoded
        BY <3>1
      <3>2. CASE i # encoded /\ i \in LabelStarts(name)
        <4>1. i \in 1 .. n
          BY <3>2 DEF LabelStarts
        <4>2. NextDot(name, i) \in i .. n + 1 /\ NextDot(name, i) - i <= 63
          BY <2>1, <3>2, <4>1, NextDotIs
        <4>3. NextDot(name, i) - i \in 0 .. 255
          <5> DEFINE d == NextDot(name, i)
          <5>1. n \in Nat /\ i \in 1 .. n /\ d \in i .. n + 1 /\ d - i <= 63
            BY <1>1, <4>1, <4>2
          <5> HIDE DEF d, n, encoded
          <5>2. d - i \in 0 .. 255
            BY <5>1
          <5> QED
            BY <5>2 DEF d
        <4> QED
          BY <3>2, <4>3
      <3>3. CASE i # encoded /\ i \notin LabelStarts(name)
        <4>1. n # 0
          BY <1>3, EmptySeq DEF IsBytes
        <4> HIDE DEF encoded
        <4>2. i # 1
          BY <1>1, <3>3, <4>1 DEF LabelStarts
        <4>3. i - 2 \in Nat /\ i - 2 < n /\ (i - 2) + 1 = i - 1
          BY <1>1, <2>2, <2>3, <3>3, <4>2
        <4>4. name[i - 1] \in 0 .. 255
          BY <1>1, <4>3
        <4> QED
          BY <3>3, <4>4
      <3> QED
        BY <3>1, <3>2, <3>3
    <2> HIDE DEF b, encoded
    <2>4. [i \in 1 .. encoded |-> b(i)] \in Seq(0 .. 255)
      BY <2>2, <2>3
    <2> QED
      BY <2>1, <2>4 DEF IsBytes, Byte
  <1> QED
    BY <1>2, <1>3

\* The message holds the encoding of t from position o on.
Spelled(msg, o, t) ==
    /\ o + Len(encode_name(t)) <= Len(msg)
    /\ \A i \in 1 .. Len(encode_name(t)) : msg[o + i] = encode_name(t)[i]

\* Where something of the encoding of t begins: a label, or the root.
Marks(t) == LabelStarts(t) \cup {Len(t) + 2}

\* What is found at a label, and what follows it.
LEMMA LabelIsFound ==
    ASSUME NEW msg, IsBytes(msg), NEW o \in Nat, NEW t, IsText(t), t # <<>>, Spelled(msg, o, t),
           NEW q \in LabelStarts(t)
    PROVE  LET len == NextDot(t, q) - q
           IN  /\ q \in 1 .. Len(t) /\ len \in 1 .. 63
               /\ q + len <= Len(t) + 1 /\ o + q + len < Len(msg)
               /\ msg[o + q] = len
               /\ \A j \in 1 .. len : msg[o + q + j] = t[q + j - 1]
               /\ q + len + 1 \in Marks(t)
               /\ q + len <= Len(t) => t[q + len] = Dot
  <1> DEFINE n == Len(t)
             e == encode_name(t)
             d == NextDot(t, q)
             len == d - q
  <1>1. /\ n \in Nat \ {0} /\ Len(e) = n + 2
        /\ e[n + 2] = 0
        /\ \A i \in 1 .. n + 1 : e[i] = IF i \in LabelStarts(t) THEN NextDot(t, i) - i ELSE t[i - 1]
    BY EncodedText
  <1>2. Len(msg) \in Nat /\ o + (n + 2) <= Len(msg) /\ \A i \in 1 .. n + 2 : msg[o + i] = e[i]
    BY <1>1, BytesTyped DEF Spelled
  <1>3. q \in 1 .. n
    BY DEF LabelStarts
  <1>4. /\ d \in q .. n + 1
        /\ \A i \in q .. d - 1 : t[i] # Dot
        /\ d <= n => t[d] = Dot
    BY <1>3, NextDotIs DEF IsText
  <1>5. t[q] # Dot /\ len <= 63 /\ t[n] # Dot
    BY DEF IsText
  <1> HIDE DEF n, e, d
  <1>6. d # q
    BY <1>1, <1>3, <1>4, <1>5
  <1>7. len = d - q /\ len \in 1 .. 63
    BY <1>1, <1>3, <1>4, <1>5, <1>6
  <1>8. msg[o + q] = len
    <2>1. e[q] = len
      BY <1>1, <1>3 DEF d
    <2> QED
      BY <1>1, <1>2, <1>3, <2>1
  <1> HIDE DEF len
  <1>9. ASSUME NEW j \in 1 .. len PROVE msg[o + q + j] = t[q + j - 1]
    <2>1. q + j \in 1 .. n + 1 /\ q + j - 1 \in q .. d - 1 /\ q + j # 1
      BY <1>1, <1>3, <1>4, <1>7
    <2>2. q + j \notin LabelStarts(t)
      BY <1>4, <2>1 DEF LabelStarts
    <2>3. e[q + j] = t[q + j - 1]
      <3>1. \A i \in 1 .. n + 1 : i \notin LabelStarts(t) => e[i] = t[i - 1]
        BY <1>1
      <3>2. q \in Int /\ j \in Int /\ n \in Int
        BY <1>1, <1>3, <1>7
      <3> QED
        BY <2>1, <2>2, <3>1, <3>2
    <2>4. msg[o + (q + j)] = e[q + j] /\ o + (q + j) = o + q + j
      BY <1>1, <1>2, <1>3, <1>7, <2>1
    <2> QED
      BY <2>3, <2>4
  <1>10. q + len + 1 = d + 1 /\ q + len = d
    BY <1>1, <1>3, <1>4, <1>7
  <1>11. d + 1 \in Marks(t)
    <2>1. CASE d = n + 1
      BY <1>1, <2>1 DEF Marks, n
    <2>2. CASE d # n + 1
      <3>1. d \in 1 .. n /\ t[d] = Dot /\ d # n
        BY <1>1, <1>3, <1>4, <1>5, <2>2
      <3>2. d + 1 \in 1 .. n /\ (d + 1) - 1 = d
        BY <1>1, <3>1
      <3> QED
        BY <3>1, <3>2 DEF Marks, LabelStarts, n
    <2> QED
      BY <2>1, <2>2
  <1>12. q + len <= n + 1 /\ o + q + len < Len(msg)
    BY <1>1, <1>2, <1>3, <1>4, <1>7, <1>10
  <1> QED
    BY <1>3, <1>4, <1>7, <1>8, <1>9, <1>10, <1>11, <1>12 DEF len, n, d

\* The root behind the labels, and where the first of them is.
LEMMA RootIsFound ==
    ASSUME NEW msg, IsBytes(msg), NEW o \in Nat, NEW t, IsText(t), t # <<>>, Spelled(msg, o, t)
    PROVE  /\ Len(t) \in Nat \ {0} /\ Len(encode_name(t)) = Len(t) + 2
           /\ o + Len(t) + 1 < Len(msg) /\ Len(msg) \in Nat
           /\ msg[o + Len(t) + 2] = 0
           /\ 1 \in LabelStarts(t)
           /\ \A q \in Marks(t) : q \in 1 .. Len(t) + 2
  <1> DEFINE n == Len(t)
             e == encode_name(t)
  <1>1. n \in Nat \ {0} /\ Len(e) = n + 2 /\ e[n + 2] = 0
    BY EncodedText
  <1>2. Len(msg) \in Nat /\ o + (n + 2) <= Len(msg) /\ \A i \in 1 .. n + 2 : msg[o + i] = e[i]
    BY <1>1, BytesTyped DEF Spelled
  <1> HIDE DEF n, e
  <1>3. msg[o + n + 2] = 0 /\ o + n + 1 < Len(msg)
    <2>1. msg[o + (n + 2)] = 0 /\ o + (n + 2) = o + n + 2
      BY <1>1, <1>2
    <2> QED
      BY <1>1, <1>2, <2>1
  <1>4. 1 \in LabelStarts(t) /\ \A q \in Marks(t) : q \in 1 .. n + 2
    BY <1>1 DEF LabelStarts, Marks, n
  <1> QED
    BY <1>1, <1>2, <1>3, <1>4 DEF n, e

\* The validator finds the end of a name that the builder wrote.
LEMMA SkipsSpelled ==
    ASSUME NEW msg, IsBytes(msg), NEW o \in Nat, NEW t, IsText(t), Spelled(msg, o, t)
    PROVE  skip_name(msg, o) = o + Len(encode_name(t))
  <1>1. CASE t = <<>>
    <2>1. encode_name(t) = <<0>>
      BY <1>1 DEF encode_name
    <2>2. Len(msg) \in Nat /\ o + 1 <= Len(msg) /\ msg[o + 1] = 0
      BY <2>1, BytesTyped DEF Spelled
    <2>3. skip_name(msg, o) = o + 1
      BY <2>2, SkipEquation
    <2> QED
      BY <2>1, <2>3
  <1>2. CASE t # <<>>
    <2> DEFINE n == Len(t)
               m == Len(msg)
               b(p) == msg[p + 1]
               T == {k \in Nat : \A q \in Marks(t) : q + k >= n + 2 => skip_name(msg, o + q - 1) = o + n + 2}
    <2>1. /\ n \in Nat \ {0} /\ Len(encode_name(t)) = n + 2
          /\ o + n + 1 < m /\ m \in Nat /\ msg[o + n + 2] = 0
          /\ 1 \in Marks(t) /\ \A q \in Marks(t) : q \in 1 .. n + 2
      BY <1>2, RootIsFound DEF Marks
    <2>2. \A p \in Nat : skip_name(msg, p) = IF p >= m THEN 0
                                            ELSE IF b(p) = 0 THEN p + 1
                                            ELSE IF b(p) >= 192 THEN p + 2
                                            ELSE skip_name(msg, p + 1 + b(p))
      BY SkipEquation
    <2>3. ASSUME NEW q \in Marks(t)
          PROVE  \/ q = n + 2
                 \/ \E len \in 1 .. 63 : /\ b(o + q - 1) = len /\ o + q - 1 < m
                                         /\ q + len + 1 \in Marks(t)
      <3> SUFFICES ASSUME q \in LabelStarts(t)
                   PROVE  \E len \in 1 .. 63 : /\ b(o + q - 1) = len /\ o + q - 1 < m
                                               /\ q + len + 1 \in Marks(t)
        BY DEF Marks
      <3> DEFINE len == NextDot(t, q) - q
      <3>1. q \in 1 .. n /\ len \in 1 .. 63 /\ q + len + 1 \in Marks(t) /\ msg[o + q] = len
        BY <1>2, LabelIsFound
      <3>2. (o + q - 1) + 1 = o + q /\ o + q - 1 < m
        BY <2>1, <3>1
      <3>3. b(o + q - 1) = len
        BY <3>1, <3>2
      <3> HIDE DEF len, b
      <3> QED
        BY <3>1, <3>2, <3>3
    <2>4. b(o + n + 1) = 0
      <3>1. (o + n + 1) + 1 = o + n + 2
        BY <2>1
      <3> QED
        BY <2>1, <3>1
    <2> HIDE DEF n, m, b
    <2>5. ASSUME NEW q \in Marks(t), q = n + 2 PROVE skip_name(msg, o + q - 1) = o + n + 2
      <3>1. o + q - 1 = o + n + 1 /\ o + n + 1 \in Nat
        BY <2>1, <2>5
      <3>2. skip_name(msg, o + n + 1) = (o + n + 1) + 1
        BY <2>1, <2>2, <2>4, <3>1
      <3> QED
        BY <2>1, <3>1, <3>2
    <2>6. 0 \in T
      <3> SUFFICES ASSUME NEW q \in Marks(t), q + 0 >= n + 2 PROVE skip_name(msg, o + q - 1) = o + n + 2
        OBVIOUS
      <3>1. q = n + 2
        BY <2>1
      <3> QED
        BY <2>5, <3>1
    <2>7. ASSUME NEW k \in T PROVE k + 1 \in T
      <3> SUFFICES ASSUME NEW q \in Marks(t), q + (k + 1) >= n + 2, q # n + 2
                   PROVE  skip_name(msg, o + q - 1) = o + n + 2
        BY <2>5
      <3>1. PICK len \in 1 .. 63 : b(o + q - 1) = len /\ o + q - 1 < m /\ q + len + 1 \in Marks(t)
        BY <2>3
      <3> DEFINE p == o + q - 1
                 r == q + len + 1
      <3>a. q \in 1 .. n + 2 /\ k \in Nat /\ n \in Nat
        BY <2>1, <2>7
      <3>2. p \in Nat /\ p + 1 + len = o + r - 1 /\ r \in Marks(t) /\ r + k >= n + 2
        BY <3>1, <3>a
      <3>3. skip_name(msg, p) = skip_name(msg, p + 1 + len)
        <4>1. b(p) = len /\ p < m /\ m \in Nat /\ p \in Nat
          BY <2>1, <3>1, <3>2
        <4> HIDE DEF p, r
        <4> QED
          BY <2>2, <4>1
      <3> HIDE DEF p, r
      <3>4. skip_name(msg, o + r - 1) = o + n + 2
        BY <2>7, <3>2
      <3> QED
        BY <3>2, <3>3, <3>4 DEF p
    <2>8. \A k \in Nat : k \in T
      <3> HIDE DEF T
      <3>1. T \in SUBSET Nat
        BY DEF T
      <3> QED
        BY <2>6, <2>7, <3>1, Induction
    <2>9. skip_name(msg, o + 1 - 1) = o + n + 2
      <3>1. n + 2 \in T /\ 1 + (n + 2) >= n + 2
        BY <2>1, <2>8
      <3> QED
        BY <2>1, <3>1
    <2>10. o + 1 - 1 = o /\ o + (n + 2) = o + n + 2
      BY <2>1
    <2> QED
      BY <2>1, <2>9, <2>10
  <1> QED
    BY <1>1, <1>2

\* A label behind the text before it.
LEMMA LabelAdded ==
    ASSUME NEW t, IsBytes(t), NEW q \in 1 .. Len(t), NEW len \in 1 .. 63, q + len <= Len(t) + 1,
           NEW label, IsBytes(label), Len(label) = len, \A j \in 1 .. len : label[j] = t[q + j - 1],
           q = 1 \/ (q > 2 /\ t[q - 1] = 46)
    PROVE  LET u == SubSeq(t, 1, q - 2)
           IN  (IF u = <<>> THEN label ELSE u \o <<46>> \o label) = SubSeq(t, 1, q + len - 1)
  <1> DEFINE n == Len(t)
             u == SubSeq(t, 1, q - 2)
             w == SubSeq(t, 1, q + len - 1)
  <1>0. n \in Nat /\ q \in 1 .. n /\ q + len <= n + 1
    BY BytesTyped
  <1>1. IsBytes(w) /\ Len(w) = q + len - 1 /\ \A i \in 1 .. q + len - 1 : w[i] = t[i]
    <2>1. /\ IsBytes(w) /\ Len(w) = (q + len - 1) - 1 + 1
          /\ \A k \in 1 .. (q + len - 1) - 1 + 1 : w[k] = t[1 + k - 1]
      BY <1>0, Cut
    <2> HIDE DEF w
    <2> QED
      BY <1>0, <2>1
  <1>2. CASE q = 1
    <2>1. u = <<>>
      BY <1>2 DEF IsBytes
    <2>2. label = w
      <3> HIDE DEF w
      <3>1. Len(label) = Len(w) /\ \A i \in 1 .. Len(label) : label[i] = w[i]
        BY <1>0, <1>1, <1>2
      <3> QED
        BY <1>1, <3>1, SameBytes
    <2> QED
      BY <2>1, <2>2
  <1>3. CASE q # 1
    <2>1. q > 2 /\ t[q - 1] = 46
      BY <1>3
    <2>2. IsBytes(u) /\ Len(u) = q - 2 /\ \A i \in 1 .. q - 2 : u[i] = t[i]
      <3>1. /\ IsBytes(u) /\ Len(u) = (q - 2) - 1 + 1
            /\ \A k \in 1 .. (q - 2) - 1 + 1 : u[k] = t[1 + k - 1]
        BY <1>0, <2>1, Cut
      <3> HIDE DEF u
      <3> QED
        BY <1>0, <2>1, <3>1
    <2>3. u # <<>>
      BY <1>0, <2>1, <2>2
    <2> DEFINE v == u \o <<46>>
               x == v \o label
    <2> HIDE DEF u, w, n
    <2>4. IsBytes(<<46>>) /\ Len(<<46>>) = 1 /\ <<46>>[1] = 46
      BY DEF Byte, IsBytes
    <2>5. IsBytes(v) /\ Len(v) = q - 1 /\ \A i \in 1 .. q - 1 : v[i] = t[i]
      <3>1. /\ IsBytes(v) /\ Len(v) = (q - 2) + 1 /\ \A i \in 1 .. q - 2 : v[i] = u[i]
            /\ \A i \in 1 .. 1 : v[(q - 2) + i] = <<46>>[i]
        BY <2>2, <2>4, Joined
      <3>2. v[(q - 2) + 1] = 46
        BY <2>4, <3>1
      <3> HIDE DEF v
      <3> QED
        BY <1>0, <2>1, <2>2, <3>1, <3>2
    <2> HIDE DEF v
    <2>6. /\ IsBytes(x) /\ Len(x) = (q - 1) + len /\ \A i \in 1 .. q - 1 : x[i] = v[i]
          /\ \A i \in 1 .. len : x[(q - 1) + i] = label[i]
      BY <2>5, Joined
    <2> HIDE DEF x
    <2>7. ASSUME NEW i \in 1 .. q + len - 1 PROVE x[i] = w[i]
      <3>1. CASE i <= q - 1
        BY <1>0, <1>1, <2>5, <2>6, <3>1
      <3>2. CASE i > q - 1
        <4> DEFINE j == i - (q - 1)
        <4>1. j \in 1 .. len /\ q + j - 1 = i /\ (q - 1) + j = i
          BY <1>0, <3>2
        <4> HIDE DEF j
        <4>2. x[i] = label[j]
          BY <2>6, <4>1
        <4> QED
          BY SMTT(30), <1>1, <4>1, <4>2
      <3> QED
        BY <1>0, <3>1, <3>2
    <2>8. x = w
      <3>1. Len(x) = q + len - 1
        BY <1>0, <2>6
      <3> QED
        BY <1>1, <2>6, <2>7, <3>1, SameBytes
    <2> QED
      BY <2>3, <2>8 DEF u, v, w, x
  <1> QED
    BY <1>2, <1>3

\* The parser at a label of a name that the builder wrote.
LEMMA LabelIsRead ==
    ASSUME IsWire, NEW o \in Nat, NEW t, IsText(t), t # <<>>, Spelled(wire, o, t), NEW q \in LabelStarts(t)
    PROVE  LET p == o + q - 1
           IN  /\ p \in Nat /\ Kind(p) = "label"
               /\ \E r \in Marks(t) : /\ r > q /\ Successor(p) = o + r - 1
                                      /\ Extended(SubSeq(t, 1, q - 2), p) = SubSeq(t, 1, r - 2)
  <1> DEFINE p == o + q - 1
             n == Len(t)
             len == NextDot(t, q) - q
             r == q + len + 1
             u == SubSeq(t, 1, q - 2)
             label == LabelAt(p)
  <1>1. /\ q \in 1 .. n /\ len \in 1 .. 63 /\ q + len <= n + 1 /\ o + q + len < size
        /\ wire[o + q] = len /\ (\A j \in 1 .. len : wire[o + q + j] = t[q + j - 1])
        /\ r \in Marks(t)
    BY LabelIsFound DEF IsWire, size
  <1>2. n \in Nat /\ IsBytes(t) /\ size \in Nat
    BY BytesTyped, ByteTyped DEF IsText
  <1>a. u = SubSeq(t, 1, q - 2) /\ label = LabelAt(p)
    OBVIOUS
  <1> HIDE DEF len, n, u, label
  <1>3. p \in Nat /\ p + 1 = o + q /\ r > q /\ p + len < size /\ p + 1 + len = o + r - 1 /\ r - 2 = q + len - 1
    BY <1>1, <1>2
  <1>4. At(p) = len
    BY <1>1, <1>3 DEF At
  <1>6. Kind(p) = "label"
    BY <1>1, <1>3, <1>4, <1>2 DEF Kind
  <1>7. Successor(p) = o + r - 1
    BY <1>3, <1>4, <1>6 DEF Successor
  <1>8. IsBytes(label) /\ Len(label) = len
    BY <1>3, <1>4, <1>6, LabelTyped DEF label, IsBytes
  <1>9. ASSUME NEW j \in 1 .. len PROVE label[j] = t[q + j - 1]
    <2>1. label = SubSeq(wire, p + 2, p + 1 + len)
      BY <1>4 DEF label, LabelAt
    <2>2. /\ 1 <= p + 2 /\ p + 2 <= (p + 1 + len) + 1 /\ p + 1 + len <= Len(wire)
          /\ j \in 1 .. (p + 1 + len) - (p + 2) + 1
      BY <1>1, <1>2, <1>3 DEF size
    <2>3. label[j] = wire[p + 2 + j - 1]
      BY <1>1, <1>3, <2>1, <2>2, Cut DEF IsWire
    <2>4. p + 2 + j - 1 = o + q + j
      BY <1>1, <1>3, <1>9
    <2> QED
      BY <1>1, <2>3, <2>4
  <1>10. q = 1 \/ (q > 2 /\ t[q - 1] = 46)
    <2>1. q # 1 => t[q - 1] = 46
      BY DEF LabelStarts, Dot
    <2>2. 1 \in LabelStarts(t)
      BY <1>1, <1>2 DEF LabelStarts, n
    <2>3. t[1] # 46
      BY <2>2 DEF IsText, Dot
    <2>4. q # 2
      BY <2>1, <2>3
    <2> QED
      BY <1>1, <2>1, <2>4
  <1>11. (IF u = <<>> THEN label ELSE u \o <<46>> \o label) = SubSeq(t, 1, q + len - 1)
    <2>1. q \in 1 .. Len(t) /\ len \in 1 .. 63 /\ q + len <= Len(t) + 1
      BY <1>1 DEF n
    <2> QED
      BY <1>2, <1>8, <1>9, <1>10, <2>1, LabelAdded DEF u
  <1>12. Extended(u, p) = SubSeq(t, 1, r - 2)
    BY <1>3, <1>6, <1>11, <1>a DEF Extended
  <1> QED
    BY <1>1, <1>3, <1>6, <1>7, <1>12 DEF u

\* The parser is at a label or at the root, and has read the text before it.
AtMark(o, t, k) ==
    \E q \in Marks(t) : PathFrom(o)[k] = o + q - 1 /\ TextFrom(o)[k] = SubSeq(t, 1, q - 2)

\* Reading a name that was written visits the marks of its labels, in order.
LEMMA MarksAreRead ==
    ASSUME IsWire, NEW o \in Nat, NEW t, IsText(t), t # <<>>, Spelled(wire, o, t)
    PROVE  \A k \in Nat : /\ AtMark(o, t, k)
                          /\ PathFrom(o)[k] >= k \/ Kind(PathFrom(o)[k]) = "root"
  <1> DEFINE P == PathFrom(o)
             X == TextFrom(o)
             T == {k \in Nat : AtMark(o, t, k) /\ (P[k] >= k \/ Kind(P[k]) = "root")}
  <1>1. P \in [Nat -> Nat] /\ P[0] = o /\ \A i \in Nat : P[i + 1] = Successor(P[i])
    BY PathEquation
  <1>2. X[0] = <<>> /\ \A i \in Nat : X[i + 1] = Extended(X[i], P[i])
    BY TextEquation
  <1>a. \A k : AtMark(o, t, k) <=> \E q \in Marks(t) : P[k] = o + q - 1 /\ X[k] = SubSeq(t, 1, q - 2)
    BY DEF AtMark
  <1> HIDE DEF P, X
  <1>3. /\ Len(t) \in Nat /\ 1 \in Marks(t) /\ \A q \in Marks(t) : q \in 1 .. Len(t) + 2
        /\ o + Len(t) + 1 < size /\ size \in Nat /\ wire[o + Len(t) + 2] = 0
    BY RootIsFound DEF Marks, IsWire, size
  <1>4. 0 \in T
    <2>1. SubSeq(t, 1, 1 - 2) = <<>> /\ o + 1 - 1 = o
      BY DEF IsText, IsBytes
    <2>2. AtMark(o, t, 0)
      BY <1>1, <1>2, <1>3, <1>a, <2>1
    <2> QED
      BY <1>1, <2>2
  <1>5. ASSUME NEW k \in T PROVE k + 1 \in T
    <2>1. PICK q \in Marks(t) : P[k] = o + q - 1 /\ X[k] = SubSeq(t, 1, q - 2)
      BY <1>5, <1>a
    <2> DEFINE p == o + q - 1
    <2>2. P[k + 1] = Successor(p) /\ X[k + 1] = Extended(SubSeq(t, 1, q - 2), p)
      BY <1>1, <1>2, <1>5, <2>1
    <2>3. CASE q \in LabelStarts(t)
      <3>1. /\ p \in Nat /\ Kind(p) = "label"
            /\ \E r \in Marks(t) : /\ r > q /\ Successor(p) = o + r - 1
                                   /\ Extended(SubSeq(t, 1, q - 2), p) = SubSeq(t, 1, r - 2)
        BY <2>3, LabelIsRead
      <3>2. PICK r \in Marks(t) : /\ r > q /\ Successor(p) = o + r - 1
                                  /\ Extended(SubSeq(t, 1, q - 2), p) = SubSeq(t, 1, r - 2)
        BY <3>1
      <3>3. AtMark(o, t, k + 1)
        BY <1>a, <2>2, <3>2
      <3>4. P[k] >= k
        <4>1. Kind(P[k]) # "root"
          BY <2>1, <3>1
        <4> QED
          BY <1>5, <4>1
      <3>5. P[k + 1] >= k + 1
        <4>1. q \in Nat /\ r \in Nat /\ k \in Nat
          BY <1>3, <1>5
        <4>2. P[k + 1] = o + r - 1 /\ P[k] = o + q - 1
          BY <2>1, <2>2, <3>2
        <4> QED
          BY <3>2, <3>4, <4>1, <4>2
      <3> QED
        BY <1>5, <3>3, <3>5
    <2>4. CASE q = Len(t) + 2
      <3>1. p \in Nat /\ p < size /\ p + 1 = o + Len(t) + 2
        BY <1>3, <2>4
      <3>2. Kind(p) = "root"
        BY <1>3, <3>1, SMTT(30) DEF Kind, At
      <3> HIDE DEF p
      <3>3. Successor(p) = p /\ \A u : Extended(u, p) = u
        BY <3>1, <3>2, SuccessorTyped DEF Extended
      <3>4. AtMark(o, t, k + 1)
        BY <1>a, <2>1, <2>2, <3>3 DEF p
      <3> QED
        BY <1>5, <2>2, <3>2, <3>3, <3>4
    <2> QED
      BY <2>3, <2>4 DEF Marks
  <1>6. \A k \in Nat : k \in T
    <2> HIDE DEF T
    <2>1. T \in SUBSET Nat
      BY DEF T
    <2> QED
      BY <1>4, <1>5, <2>1, Induction
  <1> QED
    BY <1>6 DEF P, X

\* The parser reads what the builder wrote.
LEMMA SpelledIsRead ==
    ASSUME IsWire, NEW o \in Nat, NEW t, IsText(t), Spelled(wire, o, t)
    PROVE  /\ IsName(o) /\ NameText(o) = t /\ NameEnd(o) = o + Len(encode_name(t))
           /\ Pointers(o) = {}
  <1> DEFINE P == PathFrom(o)
             X == TextFrom(o)
  <1>1. P \in [Nat -> Nat] /\ P[0] = o /\ \A i \in Nat : P[i + 1] = Successor(P[i])
    BY PathEquation
  <1>2. X[0] = <<>>
    BY TextEquation
  <1>3. size \in Nat
    BY ByteTyped
  <1>4. CASE t = <<>>
    <2>1. encode_name(t) = <<0>>
      BY <1>4 DEF encode_name
    <2>2. o + 1 <= size /\ At(o) = 0
      BY <2>1 DEF Spelled, size, At
    <2>3. Kind(o) = "root"
      BY <1>3, <2>2 DEF Kind
    <2>4. IsName(o)
      BY <1>1, <1>3, <2>3 DEF IsName
    <2>5. \A i \in Nat : P[i] = o
      <3>1. 0 \in Nat /\ Kind(P[0]) \notin Item
        BY <1>1, <2>3 DEF Item
      <3>2. \A i \in Nat : i >= 0 => P[i] = P[0]
        BY <3>1, PathStays
      <3> QED
        BY <1>1, <3>2
    <2>6. Pointers(o) = {}
      BY <1>3, <2>3, <2>5 DEF Pointers
    <2>7. NameText(o) = t
      <3>1. 0 \in Nat /\ Kind(P[0]) = "root"
        BY <1>1, <2>3
      <3>2. \A i \in Nat : i >= 0 => X[i] = X[0]
        BY <3>1, TextStays
      <3> QED
        BY <1>2, <1>3, <1>4, <3>2 DEF NameText
    <2>8. NameEnd(o) = o + 1
      <3>1. 0 \in Nat /\ 0 <= size /\ (\A i \in 0 .. 0 - 1 : Kind(P[i]) = "label") /\ Kind(P[0]) = "root"
        BY <1>1, <1>3, <2>3
      <3> QED
        BY <1>1, <3>1, EndOfLabels
    <2> QED
      BY <2>1, <2>4, <2>6, <2>7, <2>8
  <1>5. CASE t # <<>>
    <2>1. \A k \in Nat : AtMark(o, t, k) /\ (P[k] >= k \/ Kind(P[k]) = "root")
      BY <1>5, MarksAreRead
    <2>2. /\ Len(t) \in Nat /\ \A q \in Marks(t) : q \in 1 .. Len(t) + 2
          /\ o + Len(t) + 1 < size /\ wire[o + Len(t) + 2] = 0
          /\ Len(encode_name(t)) = Len(t) + 2
      BY <1>5, RootIsFound DEF IsWire, size
    <2> HIDE DEF P, X
    <2>3. ASSUME NEW k \in Nat
          PROVE  \/ Kind(P[k]) = "label"
                 \/ Kind(P[k]) = "root" /\ P[k] = o + Len(t) + 1 /\ X[k] = t
      <3>1. PICK q \in Marks(t) : P[k] = o + q - 1 /\ X[k] = SubSeq(t, 1, q - 2)
        BY <2>1 DEF AtMark, P, X
      <3>2. CASE q \in LabelStarts(t)
        BY <1>5, <3>1, <3>2, LabelIsRead
      <3>3. CASE q = Len(t) + 2
        <4>1. P[k] = o + Len(t) + 1 /\ (o + Len(t) + 1) + 1 = o + Len(t) + 2 /\ q - 2 = Len(t)
          BY <2>2, <3>1, <3>3
        <4>2. Kind(P[k]) = "root"
          BY <1>1, <1>3, <2>2, <4>1 DEF Kind, At
        <4>3. SubSeq(t, 1, Len(t)) = t
          BY DEF IsText, IsBytes
        <4> QED
          BY <3>1, <4>1, <4>2, <4>3
      <3> QED
        BY <3>2, <3>3 DEF Marks
    <2>4. Kind(P[size]) = "root"
      <3>1. P[size] >= size => Kind(P[size]) = "bad"
        BY DEF Kind
      <3> QED
        BY <1>3, <2>1, <2>3, <3>1
    <2>5. IsName(o)
      BY <1>3, <2>4 DEF IsName, P
    <2>6. Pointers(o) = {}
      BY <1>3, <2>3 DEF Pointers, P
    <2>7. NameText(o) = t
      BY <1>3, <2>3, <2>4 DEF NameText, X
    <2>8. PICK r \in Nat : r < size /\ Kind(P[r]) = "root" /\ ItemsUpTo(o, r)
      <3>1. 0 \in Nat /\ ItemsUpTo(o, 0)
        BY DEF ItemsUpTo
      <3> QED
        BY <2>5, <3>1, NameHasRoot DEF P
    <2>9. \A i \in 0 .. r - 1 : Kind(P[i]) = "label"
      <3> SUFFICES ASSUME NEW i \in 0 .. r - 1 PROVE Kind(P[i]) = "label"
        OBVIOUS
      <3>1. i \in Nat /\ Kind(P[i]) # "root"
        BY <2>8 DEF ItemsUpTo, Item, P
      <3> QED
        BY <2>3, <3>1
    <2>10. NameEnd(o) = P[r] + 1
      <3>1. r <= size
        BY <1>3, <2>8
      <3> QED
        BY <2>8, <2>9, <3>1, EndOfLabels DEF P
    <2>11. P[r] = o + Len(t) + 1
      BY <2>3, <2>8
    <2>12. (o + Len(t) + 1) + 1 = o + (Len(t) + 2)
      BY <2>2
    <2> QED
      BY <2>2, <2>5, <2>6, <2>7, <2>10, <2>11, <2>12
  <1> QED
    BY <1>4, <1>5

-----------------------------------------------------------------------------
(* Queries, as the builder puts them together *)

\* w is made of the first n pieces of A, which end at f[1], ..., f[n].
IsMadeOf(w, A, n, f) ==
    /\ IsBytes(w)
    /\ f \in [0 .. n -> Nat] /\ f[0] = 0 /\ f[n] = Len(w)
    /\ \A k \in 1 .. n : /\ f[k] = f[k - 1] + Len(A[k]) /\ f[k] <= Len(w)
                         /\ \A i \in 1 .. Len(A[k]) : w[f[k - 1] + i] = A[k][i]

\* A sequence made of parts, part by part.
LEMMA MadeOfNothing ==
    ASSUME NEW A
    PROVE  \E f : IsMadeOf(<<>>, A, 0, f)
  <1> DEFINE f == [i \in 0 .. 0 |-> 0]
  <1>1. IsBytes(<<>>) /\ Len(<<>>) = 0
    BY DEF IsBytes
  <1>2. f \in [0 .. 0 -> Nat] /\ f[0] = 0
    OBVIOUS
  <1> HIDE DEF f
  <1>3. IsMadeOf(<<>>, A, 0, f)
    BY <1>1, <1>2 DEF IsMadeOf
  <1> QED
    BY <1>3

LEMMA OneMore ==
    ASSUME NEW A, NEW n \in Nat, NEW w, NEW f, IsMadeOf(w, A, n, f), IsBytes(A[n + 1])
    PROVE  \E g : IsMadeOf(w \o A[n + 1], A, n + 1, g)
  <1> DEFINE b == A[n + 1]
             v == w \o b
             m == Len(w)
             l == Len(b)
             g == [k \in 0 .. n + 1 |-> IF k = n + 1 THEN m + l ELSE f[k]]
  <1>1. /\ IsBytes(w) /\ f \in [0 .. n -> Nat] /\ f[0] = 0 /\ f[n] = m
        /\ \A k \in 1 .. n : f[k] = f[k - 1] + Len(A[k]) /\ f[k] <= m
        /\ \A k \in 1 .. n : \A i \in 1 .. Len(A[k]) : w[f[k - 1] + i] = A[k][i]
    BY DEF IsMadeOf
  <1>2. m \in Nat /\ l \in Nat /\ IsBytes(b)
    BY <1>1, BytesTyped
  <1>3. /\ IsBytes(v) /\ Len(v) = m + l
        /\ \A i \in 1 .. m : v[i] = w[i]
        /\ \A i \in 1 .. l : v[m + i] = b[i]
    BY <1>1, <1>2, Joined
  <1> HIDE DEF v, m, l, b
  <1>4. g \in [0 .. n + 1 -> Nat] /\ g[0] = 0 /\ g[n + 1] = m + l /\ \A k \in 0 .. n : g[k] = f[k]
    BY <1>1, <1>2
  <1> HIDE DEF g
  <1>5. ASSUME NEW k \in 1 .. n + 1
        PROVE  /\ g[k] = g[k - 1] + Len(A[k]) /\ g[k] <= m + l
               /\ \A i \in 1 .. Len(A[k]) : v[g[k - 1] + i] = A[k][i]
    <2>1. CASE k = n + 1
      <3>1. k - 1 = n /\ g[k - 1] = m /\ A[k] = b
        BY <1>1, <1>4, <2>1 DEF b
      <3> QED
        BY <1>2, <1>3, <1>4, <2>1, <3>1 DEF l
    <2>2. CASE k # n + 1
      <3>1. k \in 1 .. n /\ k - 1 \in 0 .. n /\ k \in 0 .. n
        BY <2>2
      <3>2. g[k] = f[k] /\ g[k - 1] = f[k - 1] /\ f[k] \in Nat /\ f[k - 1] \in Nat
        BY <1>1, <1>4, <3>1
      <3>3. f[k] = f[k - 1] + Len(A[k]) /\ f[k] <= m
        BY <1>1, <3>1
      <3>4. g[k] = g[k - 1] + Len(A[k]) /\ g[k] <= m + l
        BY <1>2, <3>2, <3>3
      <3>5. ASSUME NEW i \in 1 .. Len(A[k]) PROVE v[g[k - 1] + i] = A[k][i]
        <4> DEFINE x == Len(A[k])
        <4>1. w[f[k - 1] + i] = A[k][i]
          BY <1>1, <3>1
        <4>2. i \in 1 .. x /\ f[k] = f[k - 1] + x
          BY <3>3
        <4> HIDE DEF x
        <4>3. f[k - 1] + i \in 1 .. m
          BY <1>2, <3>2, <3>3, <4>2, SMTT(30)
        <4> QED
          BY <1>3, <3>2, <4>1, <4>3
      <3> QED
        BY <3>4, <3>5
    <2> QED
      BY <2>1, <2>2
  <1>6. IsMadeOf(v, A, n + 1, g)
    BY <1>3, <1>4, <1>5 DEF IsMadeOf
  <1> QED
    BY <1>6 DEF v, b

\* FlattenSeq, piece by piece.
LEMMA FlattenEquation ==
    ASSUME NEW A, NEW n \in Nat, Len(A) = n, n # 0, \A k \in 1 .. n : IsBytes(A[k])
    PROVE  \E F : /\ F[1] = A[1] /\ FlattenSeq(A) = F[n]
                  /\ \A k \in 2 .. n : F[k] = F[k - 1] \o A[k]
  <1> DEFINE Def(f) == [i \in 1 .. n |-> IF i = 1 THEN A[i] ELSE f[i - 1] \o A[i]]
             flat == CHOOSE f : f = Def(f)
  <1>1. FlattenSeq(A) = flat[n]
    BY DEF FlattenSeq
  <1> DEFINE V == Seq(Byte)
             Piece(k) == IF k \in 1 .. n THEN A[k] ELSE <<>>
             G == [x \in V \X Nat |-> x[1] \o Piece(x[2] + 1)]
  <1>2. \A k \in Nat : Piece(k) \in V
    BY DEF IsBytes
  <1>3. G \in [V \X Nat -> V]
    <2> SUFFICES ASSUME NEW x \in V \X Nat PROVE x[1] \o Piece(x[2] + 1) \in V
      OBVIOUS
    <2>1. x[1] \in V /\ x[2] + 1 \in Nat
      OBVIOUS
    <2>2. Piece(x[2] + 1) \in V
      BY <1>2, <2>1
    <2> HIDE DEF Piece
    <2> QED
      BY <2>1, <2>2
  <1>4. <<>> \in V
    OBVIOUS
  <1>5. PICK h : IsRun(h, V, <<>>, G)
    <2> HIDE DEF G, V
    <2> QED
      BY <1>3, <1>4, Recursion
  <1>6. h \in [Nat -> V] /\ h[0] = <<>> /\ \A k \in Nat : h[k + 1] = G[<<h[k], k>>]
    BY <1>5 DEF IsRun
  <1>7. \A k \in Nat : h[k + 1] = h[k] \o Piece(k + 1)
    <2> SUFFICES ASSUME NEW k \in Nat PROVE h[k + 1] = h[k] \o Piece(k + 1)
      OBVIOUS
    <2>1. <<h[k], k>> \in V \X Nat
      BY <1>6
    <2> HIDE DEF Piece, V
    <2> QED
      BY <1>6, <2>1
  <1> DEFINE g == [i \in 1 .. n |-> h[i]]
  <1>8. g = Def(g)
    <2> SUFFICES ASSUME NEW i \in 1 .. n PROVE h[i] = IF i = 1 THEN A[i] ELSE g[i - 1] \o A[i]
      OBVIOUS
    <2>1. i - 1 \in Nat /\ (i - 1) + 1 = i
      OBVIOUS
    <2>2. h[i] = h[i - 1] \o A[i]
      BY <1>7, <2>1
    <2>3. i = 1 => h[i - 1] = <<>> /\ <<>> \o A[i] = A[i]
      BY <1>6, ConcatEmptySeq DEF IsBytes
    <2>4. i # 1 => g[i - 1] = h[i - 1]
      OBVIOUS
    <2> HIDE DEF g
    <2> QED
      BY <2>2, <2>3, <2>4
  <1>9. flat = Def(flat)
    <2> HIDE DEF Def, g
    <2> QED
      BY <1>8
  <1> HIDE DEF flat
  <1>10. \A i \in 1 .. n : flat[i] = IF i = 1 THEN A[i] ELSE flat[i - 1] \o A[i]
    BY <1>9
  <1>11. flat[1] = A[1] /\ \A k \in 2 .. n : flat[k] = flat[k - 1] \o A[k]
    <2>1. 1 \in 1 .. n
      OBVIOUS
    <2>2. flat[1] = A[1]
      BY <1>10, <2>1
    <2>3. ASSUME NEW k \in 2 .. n PROVE flat[k] = flat[k - 1] \o A[k]
      <3>1. k \in 1 .. n /\ k # 1
        OBVIOUS
      <3> QED
        BY <1>10, <3>1
    <2> QED
      BY <2>2, <2>3
  <1> QED
    BY <1>1, <1>11

\* What FlattenSeq returns is made of its pieces.
LEMMA FlattenIsMadeOf ==
    ASSUME NEW A, NEW n \in Nat, Len(A) = n, A = <<>> \/ n # 0, \A k \in 1 .. n : IsBytes(A[k])
    PROVE  \E f : IsMadeOf(FlattenSeq(A), A, n, f)
  <1>1. CASE n = 0
    <2>1. FlattenSeq(A) = <<>>
      BY <1>1 DEF FlattenSeq
    <2> QED
      BY <1>1, <2>1, MadeOfNothing
  <1>2. CASE n # 0
    <2>1. PICK F : /\ F[1] = A[1] /\ FlattenSeq(A) = F[n]
                   /\ \A k \in 2 .. n : F[k] = F[k - 1] \o A[k]
      BY <1>2, FlattenEquation
    <2> DEFINE T == {k \in Nat : k + 1 <= n => \E f : IsMadeOf(F[k + 1], A, k + 1, f)}
    <2>2. 0 \in T
      <3>1. PICK f : IsMadeOf(<<>>, A, 0, f)
        BY MadeOfNothing
      <3>2. <<>> \o A[0 + 1] = F[0 + 1] /\ IsBytes(A[0 + 1])
        BY <1>2, <2>1, ConcatEmptySeq DEF IsBytes
      <3>3. \E g : IsMadeOf(<<>> \o A[0 + 1], A, 0 + 1, g)
        BY <3>1, <3>2, OneMore
      <3> QED
        BY <3>2, <3>3
    <2>3. ASSUME NEW k \in T PROVE k + 1 \in T
      <3> SUFFICES ASSUME (k + 1) + 1 <= n PROVE \E f : IsMadeOf(F[(k + 1) + 1], A, (k + 1) + 1, f)
        OBVIOUS
      <3>1. k \in Nat /\ k + 1 \in Nat /\ (k + 1) + 1 \in 2 .. n /\ ((k + 1) + 1) - 1 = k + 1
        OBVIOUS
      <3>2. PICK f : IsMadeOf(F[k + 1], A, k + 1, f)
        BY <2>3, <3>1
      <3>3. F[(k + 1) + 1] = F[k + 1] \o A[(k + 1) + 1] /\ IsBytes(A[(k + 1) + 1])
        <4> DEFINE j == (k + 1) + 1
        <4>1. j \in 2 .. n /\ j \in 1 .. n /\ j - 1 = k + 1
          BY <3>1
        <4> HIDE DEF j
        <4>2. F[j] = F[k + 1] \o A[j] /\ IsBytes(A[j])
          BY <2>1, <4>1
        <4> QED
          BY <4>2 DEF j
      <3>4. \E g : IsMadeOf(F[k + 1] \o A[(k + 1) + 1], A, (k + 1) + 1, g)
        BY <3>1, <3>2, <3>3, OneMore
      <3> QED
        BY <3>3, <3>4
    <2>4. \A k \in Nat : k \in T
      <3> HIDE DEF T
      <3>1. T \in SUBSET Nat
        BY DEF T
      <3> QED
        BY <2>2, <2>3, <3>1, Induction
    <2>5. n - 1 \in Nat /\ (n - 1) + 1 = n
      BY <1>2
    <2>6. n - 1 \in T
      BY <2>4, <2>5
    <2>7. \E f : IsMadeOf(F[(n - 1) + 1], A, (n - 1) + 1, f)
      BY <2>5, <2>6
    <2> QED
      BY <2>1, <2>5, <2>7
  <1> QED
    BY <1>1, <1>2

\* Sixteen bits in two bytes.
LEMMA WrittenIs ==
    ASSUME NEW v \in Uint16
    PROVE  /\ IsBytes(write_uint16(v)) /\ Len(write_uint16(v)) = 2
           /\ write_uint16(v)[1] = v \div 256 /\ write_uint16(v)[2] = v % 256
           /\ (v \div 256) * 256 + (v % 256) = v
  <1>1. v \in Nat /\ v < 65536
    BY DEF Uint16
  <1>2. v \div 256 \in Nat /\ v \div 256 < 256
    BY <1>1
  <1>3. v % 256 \in Nat /\ v % 256 < 256
    BY <1>1
  <1>4. (v \div 256) * 256 + (v % 256) = v
    BY <1>1
  <1>5. \A x \in Nat : x < 256 => x \in 0 .. 255
    OBVIOUS
  <1>6. v \div 256 \in Byte /\ v % 256 \in Byte
    BY <1>2, <1>3, <1>5 DEF Byte
  <1> QED
    BY <1>4, <1>6 DEF write_uint16, IsBytes

\* A cast to sixteen bits keeps what fits.
LEMMA LowTyped ==
    ASSUME NEW k \in Nat
    PROVE  Low16(k) \in Uint16 /\ (k < 65536 => Low16(k) = k)
  BY DEF Low16, Uint16

\* b is a, which has n bytes, with v behind it.
Extends16(b, a, n, v) ==
    /\ IsBytes(b) /\ Len(b) = n + 2
    /\ \A i \in 1 .. n : b[i] = a[i]
    /\ b[n + 1] = v \div 256 /\ b[n + 2] = v % 256
    /\ b[n + 1] * 256 + b[n + 2] = v

\* Two bytes of a 16-bit number at the end.
LEMMA TwoMore ==
    ASSUME NEW a, NEW n \in Nat, IsBytes(a), Len(a) = n, NEW v \in Uint16
    PROVE  Extends16(a \o write_uint16(v), a, n, v)
  <1> DEFINE w == write_uint16(v)
             b == a \o w
  <1>1. (v \div 256) * 256 + (v % 256) = v
    BY WrittenIs
  <1>2. IsBytes(w) /\ Len(w) = 2 /\ w[1] = v \div 256 /\ w[2] = v % 256
    BY WrittenIs
  <1> HIDE DEF w
  <1>3. /\ IsBytes(b) /\ Len(b) = Len(a) + Len(w)
        /\ \A i \in 1 .. Len(a) : b[i] = a[i]
        /\ \A i \in 1 .. Len(w) : b[Len(a) + i] = w[i]
    <2>1. IsBytes(w)
      BY <1>2
    <2> QED
      BY <2>1, Joined
  <1> HIDE DEF b
  <1>4. Len(b) = n + 2 /\ (\A i \in 1 .. n : b[i] = a[i]) /\ b[n + 1] = w[1] /\ b[n + 2] = w[2]
    BY <1>2, <1>3
  <1> QED
    BY <1>1, <1>2, <1>3, <1>4 DEF b, w, Extends16

\* The bytes of the header.
HeaderHolds(h, m) ==
    /\ IsBytes(h) /\ Len(h) >= 12
    /\ h[1] = m.id \div 256 /\ h[2] = m.id % 256
    /\ h[3] = build_flags(m) \div 256 /\ h[4] = build_flags(m) % 256
    /\ h[5] * 256 + h[6] = Low16(Len(m.questions))
    /\ h[11] * 256 + h[12] = Len(m.edns)

\* The types of the fields, one by one.
LEMMA QueryTyped ==
    ASSUME NEW m, IsQuery(m)
    PROVE  /\ m.id \in Uint16 /\ m.opcode \in Uint16 /\ m.rcode \in Uint16
           /\ m.qr \in BOOLEAN /\ m.aa \in BOOLEAN /\ m.tc \in BOOLEAN
           /\ m.rd \in BOOLEAN /\ m.ra \in BOOLEAN
           /\ Len(m.questions) \in Nat /\ DOMAIN m.questions = 1 .. Len(m.questions)
           /\ m.questions # <<>> => Len(m.questions) # 0
           /\ Len(m.edns) \in {0, 1} /\ DOMAIN m.edns = 1 .. Len(m.edns)
           /\ m.edns # <<>> => Len(m.edns) # 0
           /\ build_flags(m) \in Uint16
  <1>1. m.id \in Uint16 /\ m.opcode \in Uint16 /\ m.rcode \in Uint16
    BY DEF IsQuery
  <1>2. /\ m.qr \in BOOLEAN /\ m.aa \in BOOLEAN /\ m.tc \in BOOLEAN
        /\ m.rd \in BOOLEAN /\ m.ra \in BOOLEAN
    BY DEF IsQuery
  <1>3. /\ Len(m.questions) \in Nat /\ DOMAIN m.questions = 1 .. Len(m.questions)
        /\ m.questions # <<>> => Len(m.questions) # 0
    BY LenProperties, EmptySeq DEF IsQuery
  <1>4. /\ Len(m.edns) \in Nat /\ DOMAIN m.edns = 1 .. Len(m.edns)
        /\ m.edns # <<>> => Len(m.edns) # 0
    BY LenProperties, EmptySeq DEF IsQuery
  <1>5. Len(m.edns) \in {0, 1}
    <2>1. Len(m.edns) <= 1
      BY DEF IsQuery
    <2> DEFINE n == Len(m.edns)
    <2>2. n \in Nat /\ n <= 1
      BY <1>4, <2>1
    <2> HIDE DEF n
    <2>3. n \in {0, 1}
      BY <2>2
    <2> QED
      BY <2>3 DEF n
  <1>6. build_flags(m) \in Uint16
    BY <1>1, <1>2 DEF build_flags, Bit, Uint16
  <1> QED
    BY <1>1, <1>2, <1>3, <1>4, <1>5, <1>6

\* The header that header_of writes.
LEMMA HeaderIs ==
    ASSUME NEW m, IsQuery(m)
    PROVE  HeaderHolds(header_of(m), m) /\ Len(header_of(m)) = 12
  <1> DEFINE f == build_flags(m)
             c == Low16(Len(m.questions))
             e == Len(m.edns)
             b2 == write_uint16(m.id)
             b4 == b2 \o write_uint16(f)
             b6 == b4 \o write_uint16(c)
             b8 == b6 \o write_uint16(0)
             b10 == b8 \o write_uint16(0)
             b12 == b10 \o write_uint16(e)
  <1>1. f \in Uint16 /\ m.id \in Uint16
    BY QueryTyped
  <1>2. c \in Uint16
    BY QueryTyped, LowTyped
  <1>3. e \in Uint16 /\ 0 \in Uint16
    <2>1. e \in {0, 1}
      BY QueryTyped
    <2>2. 0 \in Uint16 /\ 1 \in Uint16
      BY DEF Uint16
    <2> HIDE DEF e
    <2> QED
      BY <2>1, <2>2
  <1>4. header_of(m) = b12
    BY DEF header_of
  <1>5. IsBytes(b2) /\ Len(b2) = 2 /\ b2[1] = m.id \div 256 /\ b2[2] = m.id % 256
    BY <1>1, WrittenIs
  <1> HIDE DEF b2, f, c, e
  <1>6. IsBytes(b2) /\ Len(b2) = 2
    BY <1>5
  <1>7. Extends16(b4, b2, 2, f)
    BY <1>1, <1>6, TwoMore
  <1> HIDE DEF b4
  <1>8. IsBytes(b4) /\ Len(b4) = 4
    BY <1>7 DEF Extends16
  <1>9. Extends16(b6, b4, 4, c)
    BY <1>2, <1>8, TwoMore
  <1> HIDE DEF b6
  <1>10. IsBytes(b6) /\ Len(b6) = 6
    BY <1>9 DEF Extends16
  <1>11. Extends16(b8, b6, 6, 0)
    BY <1>3, <1>10, TwoMore
  <1> HIDE DEF b8
  <1>12. IsBytes(b8) /\ Len(b8) = 8
    BY <1>11 DEF Extends16
  <1>13. Extends16(b10, b8, 8, 0)
    BY <1>3, <1>12, TwoMore
  <1> HIDE DEF b10
  <1>14. IsBytes(b10) /\ Len(b10) = 10
    BY <1>13 DEF Extends16
  <1>15. Extends16(b12, b10, 10, e)
    BY <1>3, <1>14, TwoMore
  <1> HIDE DEF b12
  <1>16. IsBytes(b12) /\ Len(b12) = 12 /\ b12[11] * 256 + b12[12] = e /\ Len(b12) >= 12
    BY <1>15 DEF Extends16
  <1>17. \A i \in 1 .. 6 : b12[i] = b6[i]
    BY <1>11, <1>13, <1>15 DEF Extends16
  <1>18. b12[5] * 256 + b12[6] = c /\ \A i \in 1 .. 4 : b12[i] = b4[i]
    BY <1>9, <1>17 DEF Extends16
  <1>19. b12[3] = f \div 256 /\ b12[4] = f % 256 /\ \A i \in 1 .. 2 : b12[i] = b2[i]
    BY <1>7, <1>18 DEF Extends16
  <1>20. b12[1] = m.id \div 256 /\ b12[2] = m.id % 256
    BY <1>5, <1>19
  <1>21. HeaderHolds(b12, m)
    BY <1>16, <1>18, <1>19, <1>20, Zenon DEF HeaderHolds, f, c, e
  <1> QED
    BY <1>4, <1>16, <1>21

\* A question, an option and a record of EDNS, their types apart from the
\* sequences that they are in.
IsQuestion(q) == IsBytes(q.qname) /\ q.qtype \in Uint16 /\ q.qclass \in Uint16

IsOption(o) == o.code \in Uint16 /\ IsBytes(o.data)

IsEdns(e) ==
    /\ e.size \in Uint16 /\ e.version \in Byte /\ e.dnssec_ok \in BOOLEAN
    /\ Len(e.options) \in Nat /\ DOMAIN e.options = 1 .. Len(e.options)
    /\ e.options = <<>> \/ Len(e.options) # 0
    /\ \A i \in 1 .. Len(e.options) : IsOption(e.options[i])

\* The questions and records of a query are well-typed.
LEMMA EntriesTyped ==
    ASSUME NEW m, IsQuery(m)
    PROVE  /\ \A i \in 1 .. Len(m.questions) : IsQuestion(m.questions[i])
           /\ \A i \in 1 .. Len(m.edns) : IsEdns(m.edns[i])
  <1> DEFINE Q == [qname : Seq(Byte), qtype : Uint16, qclass : Uint16]
             O == [code : Uint16, data : Seq(Byte)]
             E == [size : Uint16, version : Byte, dnssec_ok : BOOLEAN, options : Seq(O)]
  <1>1. m.questions \in Seq(Q) /\ m.edns \in Seq(E)
    BY DEF IsQuery
  <1>2. \A q \in Q : IsQuestion(q)
    BY DEF IsQuestion, IsBytes
  <1>3. \A o \in O : IsOption(o)
    BY DEF IsOption, IsBytes
  <1>4. \A e \in E : IsEdns(e)
    <2> SUFFICES ASSUME NEW e \in E PROVE IsEdns(e)
      OBVIOUS
    <2>1. e.size \in Uint16 /\ e.version \in Byte /\ e.dnssec_ok \in BOOLEAN /\ e.options \in Seq(O)
      OBVIOUS
    <2> HIDE DEF E, O
    <2>2. /\ Len(e.options) \in Nat /\ DOMAIN e.options = 1 .. Len(e.options)
          /\ e.options = <<>> \/ Len(e.options) # 0
      BY <2>1, LenProperties, EmptySeq
    <2>3. \A i \in 1 .. Len(e.options) : e.options[i] \in O
      BY <2>1, ElementOfSeq
    <2> QED
      BY <2>1, <2>2, <2>3, <1>3 DEF IsEdns
  <1> HIDE DEF Q, E
  <1>5. \A i \in 1 .. Len(m.questions) : m.questions[i] \in Q
    BY <1>1, ElementOfSeq
  <1>6. \A i \in 1 .. Len(m.edns) : m.edns[i] \in E
    BY <1>1, ElementOfSeq
  <1> QED
    BY <1>2, <1>4, <1>5, <1>6

\* The bytes of a question.
QuestionHolds(b, q) ==
    LET n == Len(encode_name(q.qname))
    IN  /\ IsBytes(b) /\ n \in Nat /\ Len(b) = n + 4
        /\ \A i \in 1 .. n : b[i] = encode_name(q.qname)[i]
        /\ b[n + 1] * 256 + b[n + 2] = q.qtype
        /\ b[n + 3] * 256 + b[n + 4] = q.qclass
        /\ b[n + 1] = q.qtype \div 256 /\ b[n + 2] = q.qtype % 256
        /\ b[n + 3] = q.qclass \div 256 /\ b[n + 4] = q.qclass % 256

\* The question, and the record, that the builder writes.
LEMMA QuestionIs ==
    ASSUME NEW q, IsQuestion(q), encode_name(q.qname) # Refuse
    PROVE  QuestionHolds(question_of(q), q)
  <1> DEFINE name == encode_name(q.qname)
             n == Len(name)
             t == q.qtype
             c == q.qclass
             a == name \o write_uint16(t)
             b == a \o write_uint16(c)
  <1>1. IsBytes(name) /\ t \in Uint16 /\ c \in Uint16
    BY EncodedTyped DEF IsQuestion
  <1>2. question_of(q) = b
    BY DEF question_of
  <1> HIDE DEF name, t, c
  <1>3. n \in Nat
    BY <1>1, BytesTyped
  <1> HIDE DEF n
  <1>4. Extends16(a, name, n, t)
    BY <1>1, <1>3, TwoMore DEF n
  <1> HIDE DEF a
  <1>5. IsBytes(a) /\ Len(a) = n + 2 /\ n + 2 \in Nat
    BY <1>3, <1>4 DEF Extends16
  <1>6. Extends16(b, a, n + 2, c)
    BY <1>1, <1>5, TwoMore
  <1> HIDE DEF b
  <1>7. /\ IsBytes(b) /\ Len(b) = n + 4
        /\ b[n + 3] * 256 + b[n + 4] = c /\ b[n + 3] = c \div 256 /\ b[n + 4] = c % 256
        /\ \A i \in 1 .. n + 2 : b[i] = a[i]
    BY <1>3, <1>6 DEF Extends16
  <1>8. \A i \in 1 .. n : b[i] = name[i]
    BY <1>3, <1>4, <1>7 DEF Extends16
  <1>9. b[n + 1] = a[n + 1] /\ b[n + 2] = a[n + 2]
    BY <1>3, <1>7
  <1>10. b[n + 1] * 256 + b[n + 2] = t /\ b[n + 1] = t \div 256 /\ b[n + 2] = t % 256
    BY <1>4, <1>9 DEF Extends16
  <1> QED
    BY <1>2, <1>3, <1>7, <1>8, <1>10 DEF QuestionHolds, n, name, t, c

LEMMA OptionTyped ==
    ASSUME NEW o, IsOption(o)
    PROVE  IsBytes(option_of(o))
  <1> DEFINE a == write_uint16(o.code)
             k == Len(o.data)
             b == write_uint16(Low16(k))
  <1>1. IsBytes(a)
    BY WrittenIs DEF IsOption
  <1>2. k \in Nat /\ IsBytes(o.data)
    BY BytesTyped DEF IsOption
  <1>3. option_of(o) = (a \o b) \o o.data
    BY DEF option_of
  <1>4. IsBytes(b)
    BY <1>2, LowTyped, WrittenIs
  <1> HIDE DEF a, b
  <1>5. IsBytes(a \o b)
    BY <1>1, <1>4, Joined
  <1> QED
    BY <1>2, <1>3, <1>5, Joined

LEMMA DataTyped ==
    ASSUME NEW e, IsEdns(e)
    PROVE  IsBytes(rdata_of(e)) /\ Len(rdata_of(e)) \in Nat
  <1> DEFINE n == Len(e.options)
             A == [i \in 1 .. n |-> option_of(e.options[i])]
  <1>1. n \in Nat /\ (e.options = <<>> \/ n # 0)
    BY DEF IsEdns
  <1>2. rdata_of(e) = FlattenSeq(A)
    BY DEF rdata_of, IsEdns
  <1>3. \A k \in 1 .. n : IsBytes(A[k])
    BY OptionTyped DEF IsEdns
  <1>4. Len(A) = n /\ (A = <<>> \/ n # 0)
    BY <1>1
  <1> HIDE DEF A, n
  <1>5. PICK f : IsMadeOf(FlattenSeq(A), A, n, f)
    BY <1>1, <1>3, <1>4, FlattenIsMadeOf
  <1>6. IsBytes(rdata_of(e))
    BY <1>2, <1>5 DEF IsMadeOf
  <1> QED
    BY <1>6, BytesTyped

\* The bytes of the record that EDNS adds.
RecordHolds(b, e) ==
    /\ IsBytes(b) /\ Len(b) = 11 + Len(rdata_of(e)) /\ Len(rdata_of(e)) \in Nat
    /\ b[1] = 0 /\ b[10] * 256 + b[11] = Low16(Len(rdata_of(e)))

LEMMA RecordIs ==
    ASSUME NEW e, IsEdns(e), e.version = 0
    PROVE  RecordHolds(opt_record(e), e)
  <1> DEFINE ttl == e.version * 65536 + Bit(e.dnssec_ok, 32768)
             data == rdata_of(e)
             len == Low16(Len(data))
             s == e.size
             b1 == encode_name(<<>>)
             b3 == b1 \o write_uint16(OPT_RR_TYPE)
             b5 == b3 \o write_uint16(s)
             hi == ttl \div 65536
             lo == ttl % 65536
             t2 == write_uint16(hi)
             t4 == t2 \o write_uint16(lo)
             b9 == b5 \o t4
             b11 == b9 \o write_uint16(len)
             b == b11 \o data
  <1>1. opt_record(e) = b
    BY DEF opt_record, write_uint32
  <1>2. b1 = <<0>>
    BY DEF encode_name
  <1>3. IsBytes(b1) /\ Len(b1) = 1 /\ b1[1] = 0
    <2>1. 0 \in Byte
      BY DEF Byte
    <2>2. <<0>> \in Seq(Byte) /\ Len(<<0>>) = 1 /\ <<0>>[1] = 0
      BY <2>1
    <2> QED
      BY <1>2, <2>2 DEF IsBytes
  <1>4. hi \in Uint16 /\ lo \in Uint16
    <2>1. ttl \in {0, 32768}
      BY DEF Bit, IsEdns
    <2> HIDE DEF ttl
    <2> QED
      BY <2>1 DEF Uint16
  <1>5. OPT_RR_TYPE \in Uint16 /\ s \in Uint16
    BY DEF OPT_RR_TYPE, Uint16, IsEdns
  <1>6. IsBytes(data) /\ Len(data) \in Nat
    BY DataTyped
  <1>7. len \in Uint16
    BY <1>6, LowTyped
  <1> HIDE DEF b1, ttl, hi, lo, data, len, s
  <1>8. IsBytes(t2) /\ Len(t2) = 2
    BY <1>4, WrittenIs
  <1> HIDE DEF t2
  <1>9. Extends16(t4, t2, 2, lo)
    BY <1>4, <1>8, TwoMore
  <1> HIDE DEF t4
  <1>10. IsBytes(t4) /\ Len(t4) = 4
    BY <1>9 DEF Extends16
  <1>11. Extends16(b3, b1, 1, OPT_RR_TYPE)
    BY <1>3, <1>5, TwoMore
  <1> HIDE DEF b3
  <1>12. IsBytes(b3) /\ Len(b3) = 3
    BY <1>11 DEF Extends16
  <1>13. Extends16(b5, b3, 3, s)
    BY <1>5, <1>12, TwoMore
  <1> HIDE DEF b5
  <1>14. IsBytes(b5) /\ Len(b5) = 5
    BY <1>13 DEF Extends16
  <1>15. IsBytes(b9) /\ Len(b9) = 9 /\ \A i \in 1 .. 5 : b9[i] = b5[i]
    <2>0. IsBytes(b5) /\ IsBytes(t4)
      BY <1>10, <1>14
    <2>1. IsBytes(b9) /\ Len(b9) = Len(b5) + Len(t4) /\ \A i \in 1 .. Len(b5) : b9[i] = b5[i]
      BY <2>0, Joined
    <2> HIDE DEF b9
    <2> QED
      BY <1>10, <1>14, <2>1
  <1> HIDE DEF b9
  <1>16. Extends16(b11, b9, 9, len)
    BY <1>7, <1>15, TwoMore
  <1> HIDE DEF b11
  <1>17. IsBytes(b11) /\ Len(b11) = 11
    BY <1>16 DEF Extends16
  <1>18. IsBytes(b) /\ Len(b) = 11 + Len(data) /\ \A i \in 1 .. 11 : b[i] = b11[i]
    <2>0. IsBytes(b11) /\ IsBytes(data)
      BY <1>6, <1>17
    <2>1. IsBytes(b) /\ Len(b) = Len(b11) + Len(data) /\ \A i \in 1 .. Len(b11) : b[i] = b11[i]
      BY <2>0, Joined
    <2> HIDE DEF b
    <2> QED
      BY <1>6, <1>17, <2>1
  <1> HIDE DEF b
  <1>19. b[10] * 256 + b[11] = len /\ \A i \in 1 .. 9 : b[i] = b9[i]
    BY <1>16, <1>18 DEF Extends16
  <1>20. \A i \in 1 .. 3 : b[i] = b3[i]
    BY <1>13, <1>15, <1>19 DEF Extends16
  <1>21. b[1] = 0
    BY <1>3, <1>11, <1>20 DEF Extends16
  <1> QED
    BY <1>1, <1>6, <1>18, <1>19, <1>21 DEF RecordHolds, len, data

\* What the body of a query is made of.
Sections(m) ==
    [k \in 1 .. Len(m.questions) + Len(m.edns) |->
        IF k <= Len(m.questions) THEN question_of(m.questions[k]) ELSE opt_record(m.edns[1])]

\* What build accepts.
LEMMA BuildIs ==
    ASSUME NEW m, IsQuery(m), build(m) # Refuse
    PROVE  /\ Len(m.questions) # 0
           /\ \A i \in 1 .. Len(m.questions) : encode_name(m.questions[i].qname) # Refuse
           /\ Len(m.edns) = 1 => m.edns[1].version = 0
           /\ build(m) = (header_of(m)
                 \o FlattenSeq([i \in 1 .. Len(m.questions) |-> question_of(m.questions[i])]))
                 \o FlattenSeq([i \in 1 .. Len(m.edns) |-> opt_record(m.edns[i])])
  <1>1. /\ Len(m.questions) \in Nat /\ DOMAIN m.questions = 1 .. Len(m.questions)
        /\ m.questions # <<>> => Len(m.questions) # 0
        /\ Len(m.edns) \in {0, 1} /\ DOMAIN m.edns = 1 .. Len(m.edns)
        /\ m.edns = <<>> \/ m.edns # <<>>
    BY QueryTyped
  <1>2. /\ m.questions # <<>>
        /\ \A i \in DOMAIN m.questions : encode_name(m.questions[i].qname) # Refuse
        /\ m.edns # <<>> => m.edns[1].version = 0
        /\ build(m) = (header_of(m)
                 \o FlattenSeq([i \in DOMAIN m.questions |-> question_of(m.questions[i])]))
                 \o FlattenSeq([i \in DOMAIN m.edns |-> opt_record(m.edns[i])])
    BY DEF build
  <1>3. Len(m.edns) = 1 => m.edns # <<>>
    OBVIOUS
  <1> QED
    BY <1>1, <1>2, <1>3

\* The pieces are sequences of bytes.
LEMMA SectionsTyped ==
    ASSUME NEW m, IsQuery(m), build(m) # Refuse
    PROVE  /\ \A k \in 1 .. Len(m.questions) : /\ IsBytes(question_of(m.questions[k]))
                                               /\ QuestionHolds(question_of(m.questions[k]), m.questions[k])
           /\ \A k \in 1 .. Len(m.edns) : /\ IsBytes(opt_record(m.edns[k]))
                                          /\ RecordHolds(opt_record(m.edns[k]), m.edns[k])
  <1>1. \A k \in 1 .. Len(m.questions) : QuestionHolds(question_of(m.questions[k]), m.questions[k])
    BY EntriesTyped, BuildIs, QuestionIs
  <1>2. \A k \in 1 .. Len(m.edns) : RecordHolds(opt_record(m.edns[k]), m.edns[k])
    <2> SUFFICES ASSUME NEW k \in 1 .. Len(m.edns) PROVE RecordHolds(opt_record(m.edns[k]), m.edns[k])
      OBVIOUS
    <2>1. Len(m.edns) \in {0, 1} /\ (Len(m.edns) = 1 => m.edns[1].version = 0)
      BY QueryTyped, BuildIs
    <2>2. k = 1 /\ Len(m.edns) = 1
      <3> DEFINE n == Len(m.edns)
      <3>1. n \in {0, 1} /\ k \in 1 .. n
        BY <2>1
      <3> HIDE DEF n
      <3>2. k = 1 /\ n = 1
        BY <3>1
      <3> QED
        BY <3>2 DEF n
    <2>3. m.edns[k].version = 0
      BY <2>1, <2>2
    <2>4. IsEdns(m.edns[k])
      BY EntriesTyped
    <2> QED
      BY <2>3, <2>4, RecordIs
  <1> QED
    BY <1>1, <1>2 DEF QuestionHolds, RecordHolds

\* The questions, and the record behind them.
LEMMA BodyIsMade ==
    ASSUME NEW m, IsQuery(m), build(m) # Refuse
    PROVE  \E w : \E f : /\ IsMadeOf(w, Sections(m), Len(m.questions) + Len(m.edns), f)
                         /\ IsBytes(w)
                         /\ build(m) = header_of(m) \o w
  <1> DEFINE q == Len(m.questions)
             e == Len(m.edns)
             P == Sections(m)
             A == [i \in 1 .. q |-> question_of(m.questions[i])]
             B == [i \in 1 .. e |-> opt_record(m.edns[i])]
             F == FlattenSeq(A)
             G == FlattenSeq(B)
             h == header_of(m)
  <1>1. q \in Nat /\ e \in {0, 1} /\ q # 0
    BY QueryTyped, BuildIs
  <1>2. build(m) = (h \o F) \o G
    BY BuildIs
  <1>3. \A k \in 1 .. q : IsBytes(A[k]) /\ A[k] = question_of(m.questions[k])
    BY SectionsTyped
  <1>4. \A k \in 1 .. e : IsBytes(B[k]) /\ B[k] = opt_record(m.edns[k])
    BY SectionsTyped
  <1>5. Len(A) = q /\ Len(B) = e /\ (B = <<>> \/ e # 0)
    BY <1>1
  <1>6. \A k \in 1 .. q : P[k] = question_of(m.questions[k])
    <2> SUFFICES ASSUME NEW k \in 1 .. q PROVE P[k] = question_of(m.questions[k])
      OBVIOUS
    <2>1. k \in 1 .. Len(m.questions) + Len(m.edns) /\ k <= Len(m.questions)
      <3> HIDE DEF q, e
      <3>1. k \in 1 .. q + e /\ k <= q
        BY <1>1
      <3> QED
        BY <3>1 DEF q, e
    <2> QED
      BY <2>1 DEF Sections
  <1>7. e = 1 => P[q + 1] = opt_record(m.edns[1])
    <2> SUFFICES ASSUME e = 1 PROVE P[q + 1] = opt_record(m.edns[1])
      OBVIOUS
    <2>1. q + 1 \in 1 .. Len(m.questions) + Len(m.edns) /\ ~(q + 1 <= Len(m.questions))
      BY <1>1
    <2> QED
      BY <2>1 DEF Sections
  <1>8. IsBytes(h)
    BY HeaderIs DEF HeaderHolds
  <1> HIDE DEF A, B, P, q, e, h
  <1>9. PICK f : IsMadeOf(F, A, q, f)
    BY <1>1, <1>3, <1>5, FlattenIsMadeOf
  <1>10. PICK g : IsMadeOf(G, B, e, g)
    <2>1. e \in Nat
      BY <1>1
    <2> QED
      BY <2>1, <1>4, <1>5, FlattenIsMadeOf
  <1> HIDE DEF F, G
  <1>11. IsBytes(F) /\ IsBytes(G)
    BY <1>9, <1>10 DEF IsMadeOf
  <1>12. IsMadeOf(F, P, q, f)
    BY <1>3, <1>6, <1>9 DEF IsMadeOf
  <1>13. build(m) = h \o (F \o G) /\ IsBytes(F \o G)
    <2>1. (h \o F) \o G = h \o (F \o G)
      BY <1>8, <1>11, ConcatAssociative DEF IsBytes
    <2> QED
      BY <1>2, <1>11, <2>1, Joined
  <1>14. \E x : IsMadeOf(F \o G, P, q + e, x)
    <2>1. CASE e = 0
      <3>1. Len(G) = 0
        BY <1>10, <2>1 DEF IsMadeOf
      <3>2. F \o G = F
        BY <1>11, <3>1, EmptySeq, ConcatEmptySeq DEF IsBytes
      <3>3. q + e = q
        BY <1>1, <2>1
      <3> QED
        BY <1>12, <3>2, <3>3
    <2>2. CASE e = 1
      <3>1. IsBytes(P[q + 1]) /\ P[q + 1] = B[1]
        BY <1>4, <1>7, <2>2
      <3>2. \E x : IsMadeOf(F \o P[q + 1], P, q + 1, x)
        BY <1>1, <1>12, <3>1, OneMore
      <3>3. Len(G) = Len(B[1]) /\ \A i \in 1 .. Len(B[1]) : G[i] = B[1][i]
        <4>1. g[0] = 0 /\ g[1] = g[0] + Len(B[1]) /\ g[1] = Len(G)
          BY <1>10, <2>2 DEF IsMadeOf
        <4>2. \A i \in 1 .. Len(B[1]) : G[g[0] + i] = B[1][i]
          BY <1>10, <2>2 DEF IsMadeOf
        <4>3. Len(B[1]) \in Nat
          BY <3>1, BytesTyped
        <4>4. Len(G) = Len(B[1])
          BY <4>1, <4>3
        <4>5. \A i \in 1 .. Len(B[1]) : G[i] = B[1][i]
          BY <4>1, <4>2, <4>3
        <4> QED
          BY <4>4, <4>5
      <3>4. G = B[1]
        BY <1>11, <3>1, <3>3, SameBytes
      <3> QED
        BY <2>2, <3>1, <3>2, <3>4
    <2> QED
      BY <1>1, <2>1, <2>2
  <1> QED
    BY <1>13, <1>14 DEF P, q, e, h

\* The packet p of the query m, and where the pieces of its body end.
IsPacket(p, m, f) ==
    /\ HeaderHolds(p, m)
    /\ IsBytes(Body(p)) /\ Len(p) = 12 + Len(Body(p))
    /\ \A i \in 1 .. Len(Body(p)) : p[12 + i] = Body(p)[i]
    /\ IsMadeOf(Body(p), Sections(m), Len(m.questions) + Len(m.edns), f)

\* build makes the header and then every section, in order.
LEMMA PacketIs ==
    ASSUME NEW m, IsQuery(m), build(m) # Refuse
    PROVE  \E f : IsPacket(build(m), m, f)
  <1> DEFINE h == header_of(m)
             p == build(m)
             N == Len(m.questions) + Len(m.edns)
             P == Sections(m)
  <1>1. PICK w, f : IsMadeOf(w, P, N, f) /\ IsBytes(w) /\ p = h \o w
    BY BodyIsMade
  <1>2. HeaderHolds(h, m) /\ Len(h) = 12
    BY HeaderIs
  <1> HIDE DEF h, N, P, p
  <1>3. IsBytes(h) /\ IsBytes(w) /\ Len(w) \in Nat
    BY <1>1, <1>2, BytesTyped DEF HeaderHolds
  <1>4. /\ IsBytes(p) /\ Len(p) = Len(h) + Len(w)
        /\ \A i \in 1 .. Len(h) : p[i] = h[i]
        /\ \A i \in 1 .. Len(w) : p[Len(h) + i] = w[i]
    <2>1. IsBytes(h) /\ IsBytes(w)
      BY <1>3
    <2>2. p = h \o w
      BY <1>1
    <2> QED
      BY <2>1, <2>2, Joined
  <1>5. Len(p) = 12 + Len(w) /\ (\A i \in 1 .. 12 : p[i] = h[i]) /\ \A i \in 1 .. Len(w) : p[12 + i] = w[i]
    BY <1>2, <1>4
  <1>6. HeaderHolds(p, m)
    <2>1. Len(p) >= 12
      BY <1>3, <1>5
    <2>2. /\ p[1] = h[1] /\ p[2] = h[2] /\ p[3] = h[3] /\ p[4] = h[4] /\ p[5] = h[5] /\ p[6] = h[6]
          /\ p[11] = h[11] /\ p[12] = h[12]
      BY <1>5
    <2> QED
      BY <1>2, <1>4, <2>1, <2>2 DEF HeaderHolds
  <1>7. Body(p) = w
    <2> DEFINE n == Len(w)
               L == Len(p)
               b == SubSeq(p, 13, L)
    <2>1. n \in Nat /\ L = 12 + n /\ L \in Int
      BY <1>3, <1>5
    <2>2. IsBytes(b) /\ Len(b) = L - 13 + 1 /\ \A k \in 1 .. L - 13 + 1 : b[k] = p[13 + k - 1]
      <3>0. 13 \in Int /\ 1 <= 13 /\ 13 <= L + 1 /\ L <= Len(p)
        BY <2>1
      <3>1. IsBytes(p)
        BY <1>4
      <3> HIDE DEF L
      <3> QED
        BY <2>1, <3>0, <3>1, Cut
    <2> HIDE DEF b
    <2>3. Len(b) = n /\ \A k \in 1 .. n : b[k] = w[k]
      <3> HIDE DEF L
      <3>1. Len(b) = n /\ \A k \in 1 .. n : b[k] = p[12 + k]
        BY <2>1, <2>2
      <3>2. \A k \in 1 .. n : p[12 + k] = w[k]
        BY <1>5
      <3> QED
        BY <3>1, <3>2
    <2>4. b = w
      BY <1>3, <2>2, <2>3, SameBytes
    <2> QED
      BY <2>4 DEF b, Body, HEADER_SIZE
  <1>8. IsPacket(p, m, f)
    BY <1>1, <1>3, <1>5, <1>6, <1>7 DEF IsPacket, N, P
  <1> QED
    BY <1>8 DEF p

\* The entries of a query.
LEMMA LayoutIs ==
    ASSUME NEW m, IsQuery(m)
    PROVE  /\ QueryLayout(m) \in Seq(Entries) /\ Len(QueryLayout(m)) = Len(m.questions) + Len(m.edns)
           /\ \A k \in 1 .. Len(m.questions) + Len(m.edns) :
                 QueryLayout(m)[k] = IF k <= Len(m.questions) THEN Question(QUESTION_FIXED_SIZE)
                                     ELSE Record(RR_FIXED_SIZE)
  <1> DEFINE q == Len(m.questions)
             e == Len(m.edns)
             Q == Question(QUESTION_FIXED_SIZE)
             R == Record(RR_FIXED_SIZE)
             a == [i \in 1 .. q |-> Q]
             b == [i \in 1 .. e |-> R]
  <1>1. /\ q \in Nat /\ e \in {0, 1}
        /\ DOMAIN m.questions = 1 .. q /\ DOMAIN m.edns = 1 .. e
    BY QueryTyped
  <1>2. QueryLayout(m) = a \o b
    BY <1>1 DEF QueryLayout
  <1>3. Q \in Entries /\ R \in Entries
    BY DEF Question, Record, Entries, QUESTION_FIXED_SIZE, RR_FIXED_SIZE
  <1> HIDE DEF q, e, Q, R
  <1>4. e \in Nat
    BY <1>1
  <1>5. /\ a \in Seq(Entries) /\ Len(a) = q /\ \A i \in 1 .. q : a[i] = Q
        /\ b \in Seq(Entries) /\ Len(b) = e /\ \A i \in 1 .. e : b[i] = R
    BY <1>1, <1>3, <1>4
  <1> HIDE DEF a, b
  <1>6. /\ a \o b \in Seq(Entries) /\ Len(a \o b) = Len(a) + Len(b)
        /\ \A i \in 1 .. Len(a) + Len(b) : (a \o b)[i] = IF i <= Len(a) THEN a[i] ELSE b[i - Len(a)]
    BY <1>5, ConcatProperties
  <1>7. \A k \in 1 .. q + e : (a \o b)[k] = IF k <= q THEN Q ELSE R
    BY <1>1, <1>4, <1>5, <1>6
  <1> QED
    BY <1>2, <1>5, <1>6, <1>7 DEF q, e, Q, R

-----------------------------------------------------------------------------
(* A query, as the parser reads it *)

\* What the parser finds at the k-th entry: a name without pointers, the one
\* that was asked for, and behind it what the next entry starts after.
QuestionAt(o, end, name) ==
    /\ IsName(o) /\ Pointers(o) = {} /\ NameText(o) = NameBack(name)
    /\ NameEnd(o) \in Nat /\ end = NameEnd(o) + 4

RecordAt(o, end) ==
    /\ IsName(o) /\ Pointers(o) = {}
    /\ NameEnd(o) \in Nat /\ NameEnd(o) + 10 <= size
    /\ end = NameEnd(o) + 10 + (At(NameEnd(o) + 8) * 256 + At(NameEnd(o) + 9))

\* Where the bytes of a question lie, the parser finds its name and its end.
LEMMA QuestionIsFound ==
    ASSUME IsWire, NEW o \in Nat, NEW end \in Nat, NEW q, NEW b, IsQuestion(q), Regular(q.qname),
           encode_name(q.qname) # Refuse, QuestionHolds(b, q),
           end = o + Len(b), end <= Len(wire), \A i \in 1 .. Len(b) : wire[o + i] = b[i]
    PROVE  QuestionAt(o, end, q.qname)
  <1> DEFINE t == NameBack(q.qname)
             enc == encode_name(q.qname)
             n == Len(enc)
  <1>1. IsText(t) /\ encode_name(t) = enc
    BY NameIsWritten DEF IsQuestion
  <1>2. n \in Nat /\ Len(b) = n + 4 /\ \A i \in 1 .. n : b[i] = enc[i]
    BY DEF QuestionHolds
  <1>3. Len(wire) \in Nat
    BY BytesTyped DEF IsWire
  <1> HIDE DEF n, enc, t
  <1>4. o + n <= Len(wire) /\ \A i \in 1 .. n : wire[o + i] = enc[i]
    BY <1>2, <1>3
  <1>5. Spelled(wire, o, t)
    BY <1>1, <1>4 DEF Spelled, n
  <1>6. IsName(o) /\ NameText(o) = t /\ NameEnd(o) = o + Len(encode_name(t)) /\ Pointers(o) = {}
    BY <1>1, <1>5, SpelledIsRead
  <1>7. NameEnd(o) = o + n
    BY <1>1, <1>6 DEF n
  <1>8. NameEnd(o) \in Nat /\ end = NameEnd(o) + 4
    BY <1>2, <1>7
  <1> QED
    BY <1>6, <1>8 DEF QuestionAt, t

\* The root as a name.
LEMMA RootIsText == IsText(<<>>) /\ encode_name(<<>>) = <<0>>
  <1>1. IsBytes(<<>>) /\ Len(<<>>) = 0
    BY DEF IsBytes
  <1>2. LabelStarts(<<>>) = {}
    BY DEF LabelStarts
  <1> QED
    BY <1>1, <1>2 DEF IsText, encode_name

\* Likewise for a record.
LEMMA RecordIsFound ==
    ASSUME IsWire, NEW o \in Nat, NEW end \in Nat, NEW e, NEW b, RecordHolds(b, e),
           Len(rdata_of(e)) < 65536,
           end = o + Len(b), end <= Len(wire), \A i \in 1 .. Len(b) : wire[o + i] = b[i]
    PROVE  RecordAt(o, end)
  <1> DEFINE d == Len(rdata_of(e))
             hi == b[10]
             lo == b[11]
  <1>1. d \in Nat /\ d < 65536 /\ Len(b) = 11 + d /\ b[1] = 0 /\ hi * 256 + lo = Low16(d)
    BY DEF RecordHolds
  <1>2. Len(wire) \in Nat
    BY BytesTyped DEF IsWire
  <1>3. Low16(d) = d
    BY <1>1, LowTyped
  <1> HIDE DEF d
  <1>4. 1 \in 1 .. Len(b) /\ 10 \in 1 .. Len(b) /\ 11 \in 1 .. Len(b)
    BY <1>1
  <1>5. wire[o + 1] = 0 /\ wire[o + 10] = hi /\ wire[o + 11] = lo
    BY <1>1, <1>4
  <1>6. o + 1 <= Len(wire) /\ o + 11 <= Len(wire) /\ end = o + 11 + d
    BY <1>1, <1>2
  <1> DEFINE r == encode_name(<<>>)
  <1>7. Len(r) = 1 /\ r[1] = 0 /\ IsText(<<>>)
    BY RootIsText
  <1>8. Spelled(wire, o, <<>>) => IsName(o) /\ NameEnd(o) = o + Len(r) /\ Pointers(o) = {}
    BY <1>7, SpelledIsRead
  <1> HIDE DEF r
  <1>9. Spelled(wire, o, <<>>)
    <2>1. o + Len(r) <= Len(wire) /\ \A i \in 1 .. Len(r) : wire[o + i] = r[i]
      BY <1>5, <1>6, <1>7
    <2> QED
      BY <2>1 DEF Spelled, r
  <1>10. IsName(o) /\ NameEnd(o) = o + 1 /\ Pointers(o) = {}
    BY <1>7, <1>8, <1>9
  <1>11. At(NameEnd(o) + 8) = hi /\ At(NameEnd(o) + 9) = lo
    <2>1. NameEnd(o) + 8 + 1 = o + 10 /\ NameEnd(o) + 9 + 1 = o + 11
      BY <1>10
    <2> QED
      BY <1>5, <2>1 DEF At
  <1> HIDE DEF hi, lo
  <1>12. hi * 256 + lo = d
    BY <1>1, <1>3
  <1>13. NameEnd(o) \in Nat /\ NameEnd(o) + 10 <= size /\ end = NameEnd(o) + 10 + d
    BY <1>1, <1>2, <1>6, <1>10 DEF size
  <1> QED
    BY <1>11, <1>12, <1>13, <1>10 DEF RecordAt

\* b lies in w between o and end.
LiesIn(w, b, o, end) ==
    /\ o \in Nat /\ end \in Nat /\ end = o + Len(b) /\ end <= Len(w)
    /\ \A i \in 1 .. Len(b) : w[o + i] = b[i]

\* A section of what is made of several.
LEMMA OneSection ==
    ASSUME NEW w, NEW A, NEW n \in Nat, NEW f, IsMadeOf(w, A, n, f), NEW k \in 1 .. n
    PROVE  LiesIn(w, A[k], f[k - 1], f[k])
  <1>1. k - 1 \in 0 .. n /\ k \in 0 .. n
    OBVIOUS
  <1> QED
    BY <1>1 DEF IsMadeOf, LiesIn

\* How many entries a query has.
Entered(m) == Len(m.questions) + Len(m.edns)

\* All entries of a query.
LEMMA EntriesAreFound ==
    ASSUME IsWire, NEW m, IsQuery(m), Expressible(m), NEW f, IsMadeOf(wire, Sections(m), Entered(m), f),
           NEW k \in 1 .. Entered(m)
    PROVE  /\ k <= Len(m.questions) => QuestionAt(f[k - 1], f[k], m.questions[k].qname)
           /\ ~(k <= Len(m.questions)) => RecordAt(f[k - 1], f[k])
           /\ f[k] <= size /\ f[k] \in Nat /\ f[k - 1] \in Nat
  <1> DEFINE S == Sections(m)
             q == Len(m.questions)
             e == Len(m.edns)
             o == f[k - 1]
             end == f[k]
             b == S[k]
  <1>1. /\ q \in Nat /\ e \in {0, 1}
        /\ DOMAIN m.questions = 1 .. q /\ DOMAIN m.edns = 1 .. e
    BY QueryTyped
  <1>2. build(m) # Refuse
    BY DEF Expressible
  <1>3. Entered(m) \in Nat /\ Entered(m) = q + e
    <2> HIDE DEF q, e
    <2>1. q + e \in Nat
      BY <1>1
    <2> QED
      BY <2>1 DEF Entered, q, e
  <1>4. /\ o \in Nat /\ end \in Nat /\ end = o + Len(b) /\ end <= Len(wire)
        /\ \A i \in 1 .. Len(b) : wire[o + i] = b[i]
    <2>1. LiesIn(wire, S[k], f[k - 1], f[k])
      <3> DEFINE N == Entered(m)
      <3>1. N \in Nat /\ k \in 1 .. N /\ IsMadeOf(wire, S, N, f)
        BY <1>3
      <3> HIDE DEF N, S
      <3> QED
        BY <3>1, OneSection
    <2> QED
      BY <2>1 DEF LiesIn
  <1>5. b = IF k <= q THEN question_of(m.questions[k]) ELSE opt_record(m.edns[1])
    <2>1. k \in 1 .. Len(m.questions) + Len(m.edns)
      BY DEF Entered
    <2> QED
      BY <2>1 DEF Sections
  <1>6. ASSUME k <= q PROVE QuestionAt(o, end, m.questions[k].qname)
    <2>1. k \in 1 .. q
      <3> HIDE DEF q
      <3> QED
        BY <1>1, <1>3, <1>6
    <2>2. IsQuestion(m.questions[k]) /\ QuestionHolds(b, m.questions[k])
      BY <1>2, <1>5, <1>6, <2>1, EntriesTyped, SectionsTyped
    <2>3. Regular(m.questions[k].qname) /\ encode_name(m.questions[k].qname) # Refuse
      <3>1. Regular(m.questions[k].qname)
        BY <1>1, <2>1 DEF Expressible
      <3> QED
        BY <1>2, <2>1, <3>1, BuildIs
    <2> HIDE DEF o, end, b
    <2> QED
      BY <1>4, <2>2, <2>3, QuestionIsFound
  <1>7. ASSUME ~(k <= q) PROVE RecordAt(o, end)
    <2>1. e = 1
      <3> HIDE DEF q, e
      <3> QED
        BY <1>1, <1>3, <1>7
    <2>2. 1 \in 1 .. Len(m.edns)
      <3> HIDE DEF e
      <3>1. 1 \in 1 .. e
        BY <2>1
      <3> QED
        BY <3>1 DEF e
    <2>3. RecordHolds(b, m.edns[1]) /\ Len(rdata_of(m.edns[1])) < 65536
      <3>1. RecordHolds(opt_record(m.edns[1]), m.edns[1])
        BY <1>2, <2>2, SectionsTyped
      <3>2. Len(rdata_of(m.edns[1])) < 65536
        BY <1>1, <2>2 DEF Expressible
      <3>3. b = opt_record(m.edns[1])
        BY <1>5, <1>7
      <3> QED
        BY <3>1, <3>2, <3>3
    <2> DEFINE r == m.edns[1]
    <2>4. RecordHolds(b, r) /\ Len(rdata_of(r)) < 65536
      BY <2>3
    <2> HIDE DEF o, end, b, r
    <2> QED
      BY <1>4, <2>4, RecordIsFound
  <1> QED
    BY <1>4, <1>6, <1>7 DEF size

\* The entries that are left are the last ones of the query, the current one
\* starts where the one before it ends, and the last one ends the message.
QueryRead(m, f) ==
    /\ IsMadeOf(wire, Sections(m), Entered(m), f)
    /\ Len(left) <= Entered(m)
    /\ \A j \in 1 .. Len(left) : left[j] = QueryLayout(m)[Entered(m) - Len(left) + j]
    /\ parser \in {"name", "fixed", "end"}
    /\ parser # "end" => start = f[Entered(m) - Len(left)]
    /\ parser = "end" => offset = size

\* The current entry.
Now(m) == Entered(m) - Len(left) + 1

\* The entries that are left.
LEMMA LeftTyped ==
    ASSUME MessageType
    PROVE  /\ Len(left) \in Nat
           /\ parser \in {"name", "fixed"} =>
                 /\ Len(left) >= 1 /\ Head(left) = left[1] /\ Len(Tail(left)) = Len(left) - 1
                 /\ \A i \in 1 .. Len(left) - 1 : Tail(left)[i] = left[i + 1]
  <1>1. left \in Seq(Entries) /\ (parser \in {"name", "fixed"} => left # <<>>)
    BY DEF MessageType
  <1>2. Len(left) \in Nat
    BY <1>1, LenProperties
  <1>3. ASSUME left # <<>>
        PROVE  /\ Len(left) >= 1 /\ Head(left) = left[1] /\ Len(Tail(left)) = Len(left) - 1
               /\ \A i \in 1 .. Len(left) - 1 : Tail(left)[i] = left[i + 1]
    <2>1. Len(Tail(left)) = Len(left) - 1 /\ \A i \in 1 .. Len(Tail(left)) : Tail(left)[i] = left[i + 1]
      BY <1>1, <1>3, HeadTailProperties
    <2>2. Len(left) # 0
      BY <1>1, <1>3, EmptySeq
    <2>3. Head(left) = left[1]
      OBVIOUS
    <2> QED
      BY <1>2, <2>1, <2>2, <2>3
  <1> QED
    BY <1>1, <1>2, <1>3

\* The entry that is read, and where it starts.
LEMMA NowIs ==
    ASSUME NEW m, IsQuery(m), NEW f, MessageInv, QueryRead(m, f), parser \in {"name", "fixed"}
    PROVE  /\ Now(m) \in 1 .. Entered(m) /\ start = f[Now(m) - 1]
           /\ Entered(m) \in Nat
           /\ Head(left) = QueryLayout(m)[Now(m)]
  <1> DEFINE N == Entered(m)
             n == Len(left)
  <1>1. N \in Nat
    <2> DEFINE q == Len(m.questions)
               e == Len(m.edns)
    <2>1. q \in Nat /\ e \in {0, 1}
      BY QueryTyped
    <2> HIDE DEF q, e
    <2>2. q + e \in Nat
      BY <2>1
    <2> QED
      BY <2>2 DEF q, e, Entered
  <1>2. n \in Nat /\ n >= 1 /\ Head(left) = left[1]
    BY LeftTyped DEF MessageInv
  <1>3. n <= N /\ left[1] = QueryLayout(m)[N - n + 1] /\ start = f[N - n]
    BY <1>2 DEF QueryRead
  <1> HIDE DEF N, n
  <1>4. N - n + 1 \in 1 .. N /\ (N - n + 1) - 1 = N - n
    BY <1>1, <1>2, <1>3
  <1> QED
    BY <1>1, <1>2, <1>3, <1>4 DEF Now, N, n

\* The layout of a query: its questions, and then its records.
LEMMA LayoutAt ==
    ASSUME NEW m, IsQuery(m), NEW k \in 1 .. Entered(m)
    PROVE  /\ k <= Len(m.questions) => QueryLayout(m)[k] = Question(4)
           /\ ~(k <= Len(m.questions)) => QueryLayout(m)[k] = Record(10)
  BY LayoutIs DEF Entered, QUESTION_FIXED_SIZE, RR_FIXED_SIZE

\* The fixed part of an entry ends where the next entry starts.
LEMMA FixedIsRead ==
    ASSUME NEW m, IsQuery(m), Expressible(m), NEW f, MessageInv, QueryRead(m, f), parser = "fixed"
    PROVE  /\ offset + fixed_size + rd_length = f[Now(m)]
           /\ f[Now(m)] <= size
           /\ Head(left).kind = "question" =>
                 Now(m) <= Len(m.questions) /\ text = NameBack(m.questions[Now(m)].qname)
  <1> DEFINE k == Now(m)
  <1>1. /\ k \in 1 .. Entered(m) /\ start = f[k - 1] /\ Head(left) = QueryLayout(m)[k]
    BY NowIs
  <1>2. IsWire /\ offset \in Nat /\ size \in Nat /\ text = NameText(start) /\ offset = NameEnd(start)
    BY ByteTyped DEF MessageInv, MessageType, NameIsReference
  <1>3. IsMadeOf(wire, Sections(m), Entered(m), f)
    BY DEF QueryRead
  <1> HIDE DEF k
  <1>4. /\ k <= Len(m.questions) => QuestionAt(f[k - 1], f[k], m.questions[k].qname)
        /\ ~(k <= Len(m.questions)) => RecordAt(f[k - 1], f[k])
        /\ f[k] <= size
    BY <1>1, <1>2, <1>3, EntriesAreFound
  <1>5. CASE k <= Len(m.questions)
    <2>1. Head(left) = Question(4)
      BY <1>1, <1>5, LayoutAt
    <2>2. fixed_size = 4 /\ rd_length = 0
      BY <2>1 DEF Question, fixed_size, rd_length
    <2>3. QuestionAt(start, f[k], m.questions[k].qname)
      BY <1>1, <1>4, <1>5
    <2>4. offset + fixed_size + rd_length = f[k]
      BY <1>2, <2>2, <2>3 DEF QuestionAt
    <2>5. text = NameBack(m.questions[k].qname)
      BY <1>2, <2>3 DEF QuestionAt
    <2> QED
      BY <1>4, <1>5, <2>4, <2>5 DEF k
  <1>6. CASE ~(k <= Len(m.questions))
    <2>1. Head(left) = Record(10)
      BY <1>1, <1>6, LayoutAt
    <2>2. fixed_size = 10 /\ Head(left).kind # "question"
      BY <2>1 DEF Record, fixed_size
    <2>3. RecordAt(start, f[k])
      BY <1>1, <1>4, <1>6
    <2> DEFINE hi == At(offset + 8)
               lo == At(offset + 9)
    <2>4. offset + 10 <= size /\ f[k] = offset + 10 + (hi * 256 + lo)
      BY <1>2, <2>3 DEF RecordAt
    <2>5. rd_length = hi * 256 + lo
      <3>1. ~(offset + 10 > size) /\ offset + 10 - 2 = offset + 8 /\ offset + 10 - 1 = offset + 9
        BY <1>2, <2>4
      <3> QED
        BY <2>2, <3>1 DEF rd_length
    <2> HIDE DEF hi, lo
    <2>6. offset + fixed_size + rd_length = f[k]
      BY <2>2, <2>4, <2>5
    <2> QED
      BY <1>4, <2>2, <2>6 DEF k
  <1> QED
    BY <1>5, <1>6

\* The builder's names are not refused.
LEMMA NoneIsRejected ==
    ASSUME NEW m, IsQuery(m), Expressible(m), NEW f, MessageInv, QueryRead(m, f), RejectName
    PROVE  FALSE
  <1> DEFINE k == Now(m)
  <1>1. parser = "name" /\ parser' = "bad_name" /\ wire' = wire /\ start' = start
    BY DEF RejectName, Stop, nameVars
  <1>2. k \in 1 .. Entered(m) /\ start = f[k - 1]
    BY <1>1, NowIs
  <1>3. IsWire /\ start \in Nat
    BY DEF MessageInv, MessageType
  <1>4. IsMadeOf(wire, Sections(m), Entered(m), f)
    BY DEF QueryRead
  <1> HIDE DEF k
  <1>5. /\ k <= Len(m.questions) => QuestionAt(f[k - 1], f[k], m.questions[k].qname)
        /\ ~(k <= Len(m.questions)) => RecordAt(f[k - 1], f[k])
    BY <1>2, <1>3, <1>4, EntriesAreFound
  <1>6. IsName(start) /\ Pointers(start) = {}
    BY <1>2, <1>5 DEF QuestionAt, RecordAt
  <1>7. IsName(start)' = IsName(start) /\ Pointers(start)' = Pointers(start)
    BY <1>1, <1>3, Framed
  <1>8. MessageInv'
    BY RejectNameKeeps
  <1>9. Cardinality(Pointers(start)') > MAX_POINTER_DEPTH
    BY <1>1, <1>6, <1>7, <1>8 DEF MessageInv, NameIsReference
  <1>10. Cardinality(Pointers(start)') = 0
    BY <1>6, <1>7, FS_EmptySet
  <1> QED
    BY <1>9, <1>10, MessageAssumption

\* What is read of an entry leaves the entries as they are.
LEMMA EntryGoesOn ==
    ASSUME NEW m, NEW f, QueryRead(m, f), UNCHANGED <<wire, left, start>>,
           parser # "end", parser' \in {"name", "fixed"}
    PROVE  QueryRead(m, f)'
  BY DEF QueryRead

\* Behind an entry the parser goes on with the next one.
LEMMA ReadFixedGoesOn ==
    ASSUME NEW m, IsQuery(m), Expressible(m), NEW f, MessageInv, QueryRead(m, f), ReadFixed
    PROVE  QueryRead(m, f)'
  <1> DEFINE N == Entered(m)
             n == Len(left)
             k == Now(m)
             next == offset + fixed_size + rd_length
  <1>1. /\ parser = "fixed" /\ offset' = next /\ left' = Tail(left) /\ wire' = wire
        /\ \/ n = 1 /\ parser' = "end"
           \/ n # 1 /\ parser' = "name" /\ start' = next
    BY DEF ReadFixed, BeginName
  <1>2. next = f[k] /\ f[k] <= size
    BY <1>1, FixedIsRead
  <1>3. /\ n \in Nat /\ n >= 1 /\ Len(Tail(left)) = n - 1
        /\ \A i \in 1 .. n - 1 : Tail(left)[i] = left[i + 1]
    BY <1>1, LeftTyped DEF MessageInv
  <1>4. N \in Nat /\ k = N - n + 1
    BY <1>1, NowIs DEF Now
  <1>5. n <= N /\ (\A j \in 1 .. n : left[j] = QueryLayout(m)[N - n + j]) /\ IsMadeOf(wire, Sections(m), N, f)
    BY DEF QueryRead
  <1>6. f[N] = Len(wire)
    BY <1>5 DEF IsMadeOf
  <1>7. size' = size /\ size = Len(wire)
    BY <1>1 DEF size
  <1> HIDE DEF n, N, k, next
  <1>8. Len(left') = n - 1
    BY <1>1, <1>3
  <1>9. n - 1 <= N
    BY <1>3, <1>4, <1>5
  <1>10. \A j \in 1 .. n - 1 : left'[j] = QueryLayout(m)[N - (n - 1) + j]
    <2> SUFFICES ASSUME NEW j \in 1 .. n - 1 PROVE left'[j] = QueryLayout(m)[N - (n - 1) + j]
      OBVIOUS
    <2>1. j + 1 \in 1 .. n /\ N - n + (j + 1) = N - (n - 1) + j
      BY <1>3, <1>4
    <2>2. left'[j] = left[j + 1]
      BY <1>1, <1>3
    <2>3. left[j + 1] = QueryLayout(m)[N - n + (j + 1)]
      BY <1>5, <2>1
    <2> QED
      BY <2>1, <2>2, <2>3
  <1>11. k = N - (n - 1) /\ (n = 1 => k = N)
    BY <1>3, <1>4
  <1>12. parser' # "end" => start' = f[N - (n - 1)]
    BY <1>1, <1>2, <1>11
  <1>13. parser' = "end" => offset' = size'
    BY <1>1, <1>2, <1>6, <1>7, <1>11
  <1>14. parser' \in {"name", "fixed", "end"}
    BY <1>1
  <1>15. IsMadeOf(wire', Sections(m), N, f)
    BY <1>1, <1>5
  <1> QED
    BY <1>8, <1>9, <1>10, <1>12, <1>13, <1>14, <1>15 DEF QueryRead, N

\* The parser reads a query of the program's own entry by entry to its end.
LEMMA QueryStep ==
    ASSUME NEW m, IsQuery(m), Expressible(m), NEW f, MessageInv, QueryRead(m, f), parse_message
    PROVE  QueryRead(m, f)'
  <1>1. CASE RejectName
    BY <1>1, NoneIsRejected
  <1>2. CASE FollowPointer
    <2>1. MessageInv'
      BY <1>2, FollowPointerKeeps
    <2>2. parser = "name" /\ parser' # "undefined"
      BY <1>2, <2>1 DEF FollowPointer, Reading, MessageInv, NameIsReference
    <2>3. UNCHANGED <<wire, left, start, parser>>
      BY <1>2, <2>2 DEF FollowPointer, Stop
    <2> QED
      BY <2>2, <2>3, EntryGoesOn
  <1>3. CASE ReadLabel
    <2>1. parser = "name" /\ UNCHANGED <<wire, left, start, parser>>
      BY <1>3 DEF ReadLabel, Reading
    <2> QED
      BY <2>1, EntryGoesOn
  <1>4. CASE ReadRoot
    <2>1. parser = "name" /\ parser' = "fixed" /\ UNCHANGED <<wire, left, start>>
      BY <1>4 DEF ReadRoot, Reading, nameVars
    <2> QED
      BY <2>1, EntryGoesOn
  <1>5. CASE ReadFixed
    BY <1>5, ReadFixedGoesOn
  <1>6. CASE RejectEntry
    <2>1. parser = "fixed" /\ offset + fixed_size + rd_length > size
      BY <1>6 DEF RejectEntry, Truncated
    <2>2. offset + fixed_size + rd_length <= size
      BY <2>1, FixedIsRead
    <2> DEFINE next == offset + fixed_size + rd_length
    <2>3. next \in Nat /\ size \in Nat
      <3>1. IsWire /\ IsMadeOf(wire, Sections(m), Entered(m), f)
        BY DEF MessageInv, MessageType, QueryRead
      <3>2. Now(m) \in 1 .. Entered(m)
        BY <2>1, NowIs
      <3>3. f[Now(m)] \in Nat
        BY <3>1, <3>2, EntriesAreFound
      <3> QED
        BY <2>1, <3>1, <3>3, FixedIsRead, ByteTyped
    <2> HIDE DEF next
    <2>4. next > size /\ next <= size
      BY <2>1, <2>2 DEF next
    <2> QED
      BY <2>3, <2>4
  <1> QED
    BY <1>1, <1>2, <1>3, <1>4, <1>5, <1>6 DEF parse_message, decompress_name

\* Booleans are equal when they agree.
LEMMA SameBoolean == \A x, y \in BOOLEAN : (x <=> y) => x = y
  OBVIOUS

One01(b) == IF b THEN 1 ELSE 0

\* The header that the parser reads is the one that was built.
FieldsAreRead(h, m) ==
    /\ read_u16_be(h, 0) = m.id
    /\ Has(h[3], 128) = m.qr /\ (h[3] \div 8) % 16 = m.opcode % 16
    /\ Has(h[3], 4) = m.aa /\ Has(h[3], 2) = m.tc /\ Has(h[3], 1) = m.rd /\ Has(h[4], 128) = m.ra
    /\ h[4] % 16 = m.rcode % 16
    /\ read_u16_be(h, 4) = Len(m.questions) /\ read_u16_be(h, 10) = Len(m.edns)

\* parse_header reads what header_of wrote.
LEMMA HeaderComesBack ==
    ASSUME NEW m, IsQuery(m), Len(m.questions) < 65536, NEW h, HeaderHolds(h, m)
    PROVE  FieldsAreRead(h, m)
  <1> DEFINE q == One01(m.qr)
             o == m.opcode % 16
             a == One01(m.aa)
             t == One01(m.tc)
             r == One01(m.rd)
             v == One01(m.ra)
             c == m.rcode % 16
             flags == build_flags(m)
             hi == h[3]
             lo == h[4]
  <1>1. /\ m.qr \in BOOLEAN /\ m.aa \in BOOLEAN /\ m.tc \in BOOLEAN
        /\ m.rd \in BOOLEAN /\ m.ra \in BOOLEAN
    BY QueryTyped
  <1>2. q \in {0, 1} /\ a \in {0, 1} /\ t \in {0, 1} /\ r \in {0, 1} /\ v \in {0, 1}
    BY DEF One01
  <1>3. o \in Nat /\ o < 16 /\ c \in Nat /\ c < 16
    <2>1. m.opcode \in Nat /\ m.rcode \in Nat
      BY QueryTyped DEF Uint16
    <2> QED
      BY <2>1
  <1>4. flags = q * 32768 + o * 2048 + a * 1024 + t * 512 + r * 256 + v * 128 + c
    <2>1. /\ Bit(m.qr, 32768) = q * 32768 /\ Bit(m.aa, 1024) = a * 1024 /\ Bit(m.tc, 512) = t * 512
          /\ Bit(m.rd, 256) = r * 256 /\ Bit(m.ra, 128) = v * 128
      BY DEF Bit, One01
    <2>2. flags = Bit(m.qr, 32768) + o * 2048 + Bit(m.aa, 1024) + Bit(m.tc, 512)
                    + Bit(m.rd, 256) + Bit(m.ra, 128) + c
      BY DEF build_flags
    <2> HIDE DEF flags, q, o, a, t, r, v, c
    <2> QED
      BY <2>1, <2>2
  <1>5. hi = flags \div 256 /\ lo = flags % 256
    BY DEF HeaderHolds
  <1>6. m.id \in Uint16 /\ h[1] = m.id \div 256 /\ h[2] = m.id % 256
    BY QueryTyped DEF HeaderHolds
  <1>7. h[5] * 256 + h[6] = Len(m.questions) /\ h[11] * 256 + h[12] = Len(m.edns)
    BY QueryTyped, LowTyped DEF HeaderHolds
  <1> HIDE DEF flags, q, o, a, t, r, v, c, hi, lo
  <1>8. hi = q * 128 + o * 8 + a * 4 + t * 2 + r /\ lo = v * 128 + c
    BY <1>2, <1>3, <1>4, <1>5
  <1>9. /\ (hi \div 128) % 2 = q /\ (hi \div 8) % 16 = o /\ (hi \div 4) % 2 = a
        /\ (hi \div 2) % 2 = t /\ (hi \div 1) % 2 = r
        /\ (lo \div 128) % 2 = v /\ lo % 16 = c
    <2>1. (hi \div 128) % 2 = q
      BY <1>2, <1>3, <1>8
    <2>2. (hi \div 8) % 16 = o
      BY <1>2, <1>3, <1>8
    <2>3. (hi \div 4) % 2 = a
      BY <1>2, <1>3, <1>8
    <2>4. (hi \div 2) % 2 = t
      BY <1>2, <1>3, <1>8
    <2>5. (hi \div 1) % 2 = r
      BY <1>2, <1>3, <1>8
    <2>6. (lo \div 128) % 2 = v /\ lo % 16 = c
      BY <1>2, <1>3, <1>8
    <2> QED
      BY <2>1, <2>2, <2>3, <2>4, <2>5, <2>6
  <1>10. /\ Has(hi, 128) <=> q = 1
         /\ Has(hi, 4) <=> a = 1
         /\ Has(hi, 2) <=> t = 1
         /\ Has(hi, 1) <=> r = 1
         /\ Has(lo, 128) <=> v = 1
    BY <1>9 DEF Has
  <1>11. /\ (q = 1 <=> m.qr) /\ (a = 1 <=> m.aa) /\ (t = 1 <=> m.tc)
         /\ (r = 1 <=> m.rd) /\ (v = 1 <=> m.ra)
    BY DEF One01, q, a, t, r, v
  <1>12. /\ Has(hi, 128) \in BOOLEAN /\ Has(hi, 4) \in BOOLEAN /\ Has(hi, 2) \in BOOLEAN
         /\ Has(hi, 1) \in BOOLEAN /\ Has(lo, 128) \in BOOLEAN
    BY DEF Has
  <1>13. /\ Has(hi, 128) = m.qr /\ Has(hi, 4) = m.aa /\ Has(hi, 2) = m.tc
         /\ Has(hi, 1) = m.rd /\ Has(lo, 128) = m.ra
    <2>1. Has(hi, 128) = m.qr
      BY <1>1, <1>10, <1>11, <1>12, SameBoolean
    <2>2. Has(hi, 4) = m.aa
      BY <1>1, <1>10, <1>11, <1>12, SameBoolean
    <2>3. Has(hi, 2) = m.tc
      BY <1>1, <1>10, <1>11, <1>12, SameBoolean
    <2>4. Has(hi, 1) = m.rd
      BY <1>1, <1>10, <1>11, <1>12, SameBoolean
    <2>5. Has(lo, 128) = m.ra
      BY <1>1, <1>10, <1>11, <1>12, SameBoolean
    <2> QED
      BY <2>1, <2>2, <2>3, <2>4, <2>5
  <1>14. read_u16_be(h, 0) = m.id
    <2>1. h[1] * 256 + h[2] = m.id
      BY <1>6, WrittenIs
    <2> QED
      BY <2>1 DEF read_u16_be
  <1>15. read_u16_be(h, 4) = Len(m.questions) /\ read_u16_be(h, 10) = Len(m.edns)
    BY <1>7 DEF read_u16_be
  <1>16. (h[3] \div 8) % 16 = m.opcode % 16 /\ h[4] % 16 = m.rcode % 16
    BY <1>9 DEF hi, lo, o, c
  <1> QED
    BY <1>13, <1>14, <1>15, <1>16 DEF FieldsAreRead, hi, lo

LEMMA HeaderRecord ==
    ASSUME NEW m, NEW h, FieldsAreRead(h, m)
    PROVE  parse_header(h) = [f \in DOMAIN parse_header(h) |->
                                CASE f = "qdcount" -> Len(m.questions)
                                  [] f = "arcount" -> Len(m.edns)
                                  [] f \in {"opcode", "rcode"} -> m[f] % 16
                                  [] OTHER -> m[f]]
  <1> DEFINE p == parse_header(h)
             E(f) == CASE f = "qdcount" -> Len(m.questions)
                       [] f = "arcount" -> Len(m.edns)
                       [] f \in {"opcode", "rcode"} -> m[f] % 16
                       [] OTHER -> m[f]
             F == {"id", "qr", "opcode", "aa", "tc", "rd", "ra", "rcode", "qdcount", "arcount"}
  <1>1. DOMAIN p = F
    BY DEF parse_header
  <1>2. p = [f \in F |-> p[f]]
    BY DEF parse_header
  <1>3. /\ p["id"] = m.id /\ p["qr"] = m.qr /\ p["aa"] = m.aa /\ p["tc"] = m.tc
        /\ p["rd"] = m.rd /\ p["ra"] = m.ra
        /\ p["opcode"] = m.opcode % 16 /\ p["rcode"] = m.rcode % 16
        /\ p["qdcount"] = Len(m.questions) /\ p["arcount"] = Len(m.edns)
    BY DEF parse_header, FieldsAreRead
  <1>4. /\ E("id") = m["id"] /\ E("qr") = m["qr"] /\ E("aa") = m["aa"] /\ E("tc") = m["tc"]
        /\ E("rd") = m["rd"] /\ E("ra") = m["ra"]
        /\ E("opcode") = m["opcode"] % 16 /\ E("rcode") = m["rcode"] % 16
        /\ E("qdcount") = Len(m.questions) /\ E("arcount") = Len(m.edns)
    OBVIOUS
  <1> HIDE DEF p, E
  <1>5. \A f \in F : p[f] = E(f)
    BY <1>3, <1>4
  <1>6. p = [f \in F |-> E(f)]
    BY <1>2, <1>5
  <1> QED
    BY <1>1, <1>6 DEF p, E

-----------------------------------------------------------------------------
(* A query, as the validator compares it *)

\* s is p but for its third byte.
Agree(s, p) ==
    /\ IsBytes(s) /\ Len(s) = Len(p)
    /\ \A i \in 1 .. Len(p) : i # 3 => s[i] = p[i]

\* An answer that echoes the query and sets the QR bit.
LEMMA EchoIs ==
    ASSUME NEW p, IsBytes(p), Len(p) >= 12
    PROVE  Agree(Echo(p), p) /\ check_qr_bit(Echo(p))
  <1> DEFINE b == p[3]
             c == IF b >= 128 THEN b ELSE b + 128
             s == Echo(p)
  <1>1. Len(p) \in Nat /\ b \in 0 .. 255
    <2>1. Len(p) \in Nat /\ 2 < Len(p) /\ \A i \in Nat : i < Len(p) => p[i + 1] \in 0 .. 255
      BY BytesTyped
    <2>2. 2 \in Nat /\ 2 < Len(p)
      BY <2>1
    <2>3. p[2 + 1] \in 0 .. 255
      BY <2>1, <2>2
    <2> QED
      BY <2>1, <2>3
  <1>2. c \in 0 .. 255 /\ c >= 128
    <2> HIDE DEF b
    <2> QED
      BY <1>1
  <1>3. s = [p EXCEPT ![3] = c]
    BY DEF Echo
  <1>4. c \in Byte
    BY <1>2 DEF Byte
  <1>5. 3 \in 1 .. Len(p)
    BY <1>1
  <1>6. p \in Seq(Byte)
    BY DEF IsBytes
  <1> HIDE DEF c, s
  <1>7. s \in Seq(Byte) /\ Len(s) = Len(p) /\ \A i \in 1 .. Len(p) : s[i] = IF i = 3 THEN c ELSE p[i]
    BY <1>3, <1>4, <1>5, <1>6, ExceptSeq
  <1>8. s[3] = c
    BY <1>5, <1>7
  <1>9. (c \div 128) % 2 = 1
    BY <1>2
  <1> QED
    BY <1>7, <1>8, <1>9 DEF s, Agree, IsBytes, check_qr_bit, Has

\* The first question of a query lies at the start of its body.
LEMMA FirstQuestion ==
    ASSUME NEW m, IsQuery(m), build(m) # Refuse, NEW w, NEW f, IsMadeOf(w, Sections(m), Entered(m), f)
    PROVE  LET q == m.questions[1] IN
           /\ IsQuestion(q) /\ encode_name(q.qname) # Refuse /\ QuestionHolds(question_of(q), q)
           /\ LiesIn(w, question_of(q), 0, f[1])
  <1> DEFINE q == m.questions[1]
             N == Entered(m)
             S == Sections(m)
             n == Len(m.questions)
             e == Len(m.edns)
  <1>1. n \in Nat /\ n # 0 /\ e \in {0, 1} /\ N = n + e
    BY QueryTyped, BuildIs DEF Entered
  <1>2. 1 \in 1 .. n /\ N \in Nat /\ 1 \in 1 .. N /\ 1 \in 1 .. n + e
    <2> HIDE DEF n, e, N
    <2> QED
      BY <1>1
  <1>3. S[1] = question_of(q)
    <2>1. 1 \in 1 .. Len(m.questions) + Len(m.edns) /\ 1 <= Len(m.questions)
      <3> HIDE DEF n, e
      <3>1. 1 \in 1 .. n + e /\ 1 <= n
        BY <1>1, <1>2
      <3> QED
        BY <3>1 DEF n, e
    <2> QED
      BY <2>1 DEF Sections
  <1>4. LiesIn(w, S[1], f[1 - 1], f[1])
    <2>1. N \in Nat /\ 1 \in 1 .. N /\ IsMadeOf(w, S, N, f)
      BY <1>2
    <2> HIDE DEF N, S
    <2> QED
      BY <2>1, OneSection
  <1>5. f[1 - 1] = 0
    BY DEF IsMadeOf
  <1>6. IsQuestion(q) /\ encode_name(q.qname) # Refuse /\ QuestionHolds(question_of(q), q)
    BY <1>2, EntriesTyped, SectionsTyped, BuildIs
  <1> QED
    BY <1>3, <1>4, <1>5, <1>6

\* What the validator takes for the question section of a query with one
\* question, or of what agrees with it.
Sectioned(p, b) ==
    /\ question_section_end(p) = 12 + Len(b) /\ Len(b) \in Nat /\ 12 + Len(b) <= Len(p)
    /\ \A i \in 1 .. Len(b) : p[12 + i] = b[i]

\* The validator finds the end of the question section.
LEMMA QuestionsEnd ==
    ASSUME NEW m, IsQuery(m), Expressible(m), NEW p, Agree(p, build(m))
    PROVE  /\ Sectioned(p, question_of(m.questions[1]))
           /\ read_u16_be(p, 4) = Len(m.questions)
           /\ p[1] = m.id \div 256 /\ p[2] = m.id % 256 /\ Len(p) >= 12
  <1> DEFINE B == build(m)
             w == Body(B)
             q == m.questions[1]
             b == question_of(q)
             enc == encode_name(q.qname)
             t == NameBack(q.qname)
             n == Len(enc)
  <1>0. Len(m.questions) # 0
    <2>1. build(m) # Refuse
      BY DEF Expressible
    <2> QED
      BY <2>1, BuildIs
  <1>1. B # Refuse /\ Len(m.questions) < 65536
    BY DEF Expressible
  <1>2. PICK f : IsPacket(B, m, f)
    BY <1>1, PacketIs
  <1>3. HeaderHolds(B, m) /\ IsBytes(w) /\ Len(B) = 12 + Len(w) /\ (\A i \in 1 .. Len(w) : B[12 + i] = w[i])
    BY <1>2 DEF IsPacket
  <1>4. IsMadeOf(w, Sections(m), Entered(m), f)
    BY <1>2 DEF IsPacket, Entered
  <1>5. IsQuestion(q) /\ enc # Refuse /\ QuestionHolds(b, q) /\ LiesIn(w, b, 0, f[1])
    BY <1>1, <1>4, FirstQuestion
  <1>6. Regular(q.qname)
    <2>1. 1 \in DOMAIN m.questions
      <3> DEFINE k == Len(m.questions)
      <3>1. k \in Nat /\ k # 0 /\ DOMAIN m.questions = 1 .. k
        BY <1>0, QueryTyped
      <3> HIDE DEF k
      <3> QED
        BY <3>1
    <2> QED
      BY <2>1 DEF Expressible
  <1>7. IsText(t) /\ encode_name(t) = enc
    BY <1>5, <1>6, NameIsWritten DEF IsQuestion
  <1>8. IsBytes(p) /\ Len(p) = Len(B) /\ \A i \in 1 .. Len(B) : i # 3 => p[i] = B[i]
    BY DEF Agree
  <1>9. Len(w) \in Nat
    BY <1>3, BytesTyped
  <1>10. n \in Nat /\ Len(b) = n + 4 /\ \A i \in 1 .. n : b[i] = enc[i]
    BY <1>5 DEF QuestionHolds
  <1>11. Len(b) <= Len(w) /\ \A i \in 1 .. Len(b) : w[i] = b[i]
    <2>1. f[1] = 0 + Len(b) /\ f[1] <= Len(w) /\ \A i \in 1 .. Len(b) : w[0 + i] = b[i]
      BY <1>5 DEF LiesIn
    <2> HIDE DEF b, w, n
    <2> QED
      BY <1>9, <1>10, <2>1
  <1>12. FieldsAreRead(B, m)
    BY <1>1, <1>3, HeaderComesBack
  <1>13. B[1] = m.id \div 256 /\ B[2] = m.id % 256 /\ B[5] * 256 + B[6] = Len(m.questions)
    <2>1. read_u16_be(B, 4) = Len(m.questions)
      BY <1>12 DEF FieldsAreRead
    <2> HIDE DEF B
    <2> QED
      BY <1>3, <2>1 DEF HeaderHolds, read_u16_be
  <1> HIDE DEF B, w, b, enc, t, n
  <1>14. p[1] = B[1] /\ p[2] = B[2] /\ p[5] = B[5] /\ p[6] = B[6] /\ Len(p) >= 12
    BY <1>3, <1>8, <1>9
  <1>15. \A i \in 1 .. Len(b) : p[12 + i] = b[i]
    <2> SUFFICES ASSUME NEW i \in 1 .. n + 4 PROVE p[12 + i] = b[i]
      BY <1>10
    <2>1. i \in 1 .. Len(b) /\ i \in 1 .. Len(w) /\ 12 + i \in 1 .. Len(B) /\ 12 + i # 3
      BY <1>3, <1>9, <1>10, <1>11
    <2> QED
      BY <1>3, <1>8, <1>11, <2>1
  <1>16. Spelled(p, 12, t)
    <2>1. 12 + n <= Len(p) /\ \A i \in 1 .. n : p[12 + i] = enc[i]
      BY <1>3, <1>8, <1>9, <1>10, <1>11, <1>15
    <2> QED
      BY <1>7, <2>1 DEF Spelled, n
  <1>17. skip_name(p, 12) = 12 + n
    <2>1. skip_name(p, 12) = 12 + Len(encode_name(t))
      BY <1>7, <1>8, <1>16, SkipsSpelled
    <2> QED
      BY <1>7, <2>1 DEF n
  <1>18. p[5] * 256 + p[6] = Len(m.questions)
    BY <1>13, <1>14
  <1>20. question_section_end(p) = 12 + Len(b)
    <2> DEFINE off == skip_name(p, 12)
               cnt == p[5] * 256 + p[6]
    <2>1. question_section_end(p) = IF Len(p) < 12 \/ cnt = 0 \/ off = 0 \/ off + 4 > Len(p) THEN 0 ELSE off + 4
      BY DEF question_section_end, read_u16_be, HEADER_SIZE
    <2>2. cnt # 0
      BY <1>0, <1>18
    <2>3. off = 12 + n
      BY <1>17
    <2> HIDE DEF cnt, off
    <2>4. ~(Len(p) < 12) /\ off # 0 /\ ~(off + 4 > Len(p)) /\ off + 4 = 12 + Len(b)
      BY <1>3, <1>8, <1>9, <1>10, <1>11, <2>3
    <2> QED
      BY <2>1, <2>2, <2>4
  <1>21. Len(b) \in Nat /\ 12 + Len(b) <= Len(p)
    BY <1>3, <1>8, <1>9, <1>10, <1>11
  <1>22. Sectioned(p, b)
    BY <1>15, <1>20, <1>21 DEF Sectioned
  <1> QED
    BY <1>13, <1>14, <1>18, <1>22 DEF b, read_u16_be

\* The question section that the validator compares.
LEMMA SectionIs ==
    ASSUME NEW p, NEW b, IsBytes(p), IsBytes(b), Sectioned(p, b)
    PROVE  SubSeq(p, 13, 12 + Len(b)) = b
  <1> DEFINE n == Len(b)
             j == 12 + n
             s == SubSeq(p, 13, j)
  <1>1. n \in Nat /\ 12 + n <= Len(p) /\ \A i \in 1 .. n : p[12 + i] = b[i]
    BY DEF Sectioned
  <1> HIDE DEF n
  <1>2. 13 \in Int /\ j \in Int /\ 1 <= 13 /\ 13 <= j + 1 /\ j <= Len(p)
    BY <1>1
  <1>3. j - 13 + 1 = n
    BY <1>1
  <1> HIDE DEF j
  <1>4. /\ IsBytes(s) /\ Len(s) = j - 13 + 1
        /\ \A k \in 1 .. j - 13 + 1 : s[k] = p[13 + k - 1]
    BY <1>2, Cut
  <1> HIDE DEF s
  <1>5. \A k \in 1 .. n : s[k] = b[k]
    <2> SUFFICES ASSUME NEW k \in 1 .. n PROVE s[k] = b[k]
      OBVIOUS
    <2>1. 13 + k - 1 = 12 + k
      BY <1>1
    <2> QED
      BY <1>1, <1>3, <1>4, <2>1
  <1>6. IsBytes(s) /\ Len(s) = Len(b) /\ \A k \in 1 .. Len(s) : s[k] = b[k]
    BY <1>3, <1>4, <1>5 DEF n
  <1>7. s = b
    BY <1>6, SameBytes
  <1> QED
    BY <1>7 DEF s, j, n

\* check_question_echo compares the questions.
LEMMA EchoCompares ==
    ASSUME NEW p, NEW s, NEW a, NEW b, IsBytes(p), IsBytes(s), IsBytes(a), IsBytes(b),
           Sectioned(p, a), Sectioned(s, b)
    PROVE  check_question_echo(p, s) <=> a = b
  <1>1. SubSeq(p, 13, 12 + Len(a)) = a /\ SubSeq(s, 13, 12 + Len(b)) = b
    BY SectionIs
  <1>2. question_section_end(p) = 12 + Len(a) /\ question_section_end(s) = 12 + Len(b)
    BY DEF Sectioned
  <1>3. Len(a) \in Nat /\ Len(b) \in Nat
    BY BytesTyped
  <1>4. question_section_end(p) # 0 /\ question_section_end(s) # 0
    BY <1>2, <1>3
  <1>5. SubSeq(s, 13, question_section_end(s)) = b /\ SubSeq(p, 13, question_section_end(p)) = a
    BY <1>1, <1>2
  <1>6. HEADER_SIZE + 1 = 13
    BY DEF HEADER_SIZE
  <1> QED
    BY <1>4, <1>5, <1>6 DEF check_question_echo

\* check_txid compares the identifiers.
LEMMA TxidCompares ==
    ASSUME NEW p, NEW s, IsBytes(p), IsBytes(s), Len(p) >= 12, Len(s) >= 12
    PROVE  check_txid(p, s) <=> p[1] = s[1] /\ p[2] = s[2]
  <1> DEFINE a == SubSeq(p, 1, 2)
             b == SubSeq(s, 1, 2)
  <1>0. Len(p) \in Nat /\ Len(s) \in Nat
    BY BytesTyped
  <1>1. 1 \in Int /\ 2 \in Int /\ 1 <= 1 /\ 1 <= 2 + 1 /\ 2 <= Len(p) /\ 2 <= Len(s)
    BY <1>0
  <1>2. IsBytes(a) /\ Len(a) = 2 - 1 + 1 /\ \A k \in 1 .. 2 - 1 + 1 : a[k] = p[1 + k - 1]
    BY <1>1, Cut
  <1>3. IsBytes(b) /\ Len(b) = 2 - 1 + 1 /\ \A k \in 1 .. 2 - 1 + 1 : b[k] = s[1 + k - 1]
    BY <1>1, Cut
  <1> HIDE DEF a, b
  <1>4. Len(a) = 2 /\ Len(b) = 2 /\ a[1] = p[1] /\ a[2] = p[2] /\ b[1] = s[1] /\ b[2] = s[2]
    BY <1>2, <1>3
  <1>5. a = b => p[1] = s[1] /\ p[2] = s[2]
    BY <1>4
  <1>6. ASSUME p[1] = s[1], p[2] = s[2] PROVE b = a
    <2>1. Len(b) = Len(a) /\ \A k \in 1 .. Len(b) : b[k] = a[k]
      BY <1>4, <1>6
    <2>2. IsBytes(a) /\ IsBytes(b)
      BY <1>2, <1>3
    <2> QED
      BY <2>1, <2>2, SameBytes
  <1> QED
    BY <1>5, <1>6 DEF check_txid, a, b

\* Two questions are written alike only if they are the same.
LEMMA QuestionsCompare ==
    ASSUME IsWire, NEW q, NEW r, IsQuestion(q), IsQuestion(r), Regular(q.qname), Regular(r.qname),
           encode_name(q.qname) # Refuse, encode_name(r.qname) # Refuse,
           NEW end, LiesIn(wire, question_of(q), 0, end)
    PROVE  question_of(q) = question_of(r) <=>
              /\ NameBack(q.qname) = NameBack(r.qname)
              /\ q.qtype = r.qtype /\ q.qclass = r.qclass
  <1>1. QuestionHolds(question_of(q), q) /\ QuestionHolds(question_of(r), r)
    BY QuestionIs
  <1>2. ASSUME NameBack(q.qname) = NameBack(r.qname), q.qtype = r.qtype, q.qclass = r.qclass
        PROVE  question_of(q) = question_of(r)
    <2>1. encode_name(q.qname) = encode_name(NameBack(q.qname))
      BY NameIsWritten DEF IsQuestion
    <2>2. encode_name(r.qname) = encode_name(NameBack(r.qname))
      BY NameIsWritten DEF IsQuestion
    <2>3. encode_name(q.qname) = encode_name(r.qname)
      BY <1>2, <2>1, <2>2
    <2> QED
      BY <1>2, <2>3 DEF question_of
  <1>3. ASSUME question_of(q) = question_of(r)
        PROVE  NameBack(q.qname) = NameBack(r.qname) /\ q.qtype = r.qtype /\ q.qclass = r.qclass
    <2>1. 0 \in Nat /\ end \in Nat
      BY DEF LiesIn
    <2>2. \A x : LiesIn(wire, x, 0, end) => /\ end = 0 + Len(x) /\ end <= Len(wire)
                                            /\ \A i \in 1 .. Len(x) : wire[0 + i] = x[i]
      BY DEF LiesIn
    <2>3. QuestionAt(0, end, q.qname)
      BY <1>1, <2>1, <2>2, QuestionIsFound
    <2>4. LiesIn(wire, question_of(r), 0, end)
      BY <1>3
    <2>5. QuestionAt(0, end, r.qname)
      BY <1>1, <2>1, <2>2, <2>4, QuestionIsFound
    <2>6. NameBack(q.qname) = NameBack(r.qname)
      BY <2>3, <2>5 DEF QuestionAt
    <2>7. encode_name(q.qname) = encode_name(r.qname)
      <3>1. encode_name(q.qname) = encode_name(NameBack(q.qname))
        BY NameIsWritten DEF IsQuestion
      <3>2. encode_name(r.qname) = encode_name(NameBack(r.qname))
        BY NameIsWritten DEF IsQuestion
      <3> QED
        BY <2>6, <3>1, <3>2
    <2>8. q.qtype = r.qtype /\ q.qclass = r.qclass
      BY <1>1, <1>3, <2>7 DEF QuestionHolds
    <2> QED
      BY <2>6, <2>8
  <1> QED
    BY <1>2, <1>3

\* The validator takes the echo of a query exactly if it asks the same.
LEMMA ValidatorCompares ==
    ASSUME NEW m, NEW n, IsQuery(m), IsQuery(n), Expressible(m), Expressible(n), wire = Body(build(m))
    PROVE  validate_message(build(m), Echo(build(n))) <=> SameQuestion(m, n)
  <1> DEFINE p == build(m)
             s == Echo(build(n))
             q == m.questions[1]
             r == n.questions[1]
             a == question_of(q)
             b == question_of(r)
  <1>1. build(m) # Refuse /\ build(n) # Refuse
    BY DEF Expressible
  <1>2. PICK f : IsPacket(p, m, f)
    BY <1>1, PacketIs
  <1>3. PICK g : IsPacket(build(n), n, g)
    BY <1>1, PacketIs
  <1>4. IsBytes(p) /\ IsBytes(build(n)) /\ Len(p) >= 12 /\ Len(build(n)) >= 12
    BY <1>2, <1>3 DEF IsPacket, HeaderHolds
  <1>5. Agree(s, build(n)) /\ check_qr_bit(s) /\ Agree(p, p)
    <2>1. Agree(s, build(n)) /\ check_qr_bit(s)
      BY <1>4, EchoIs
    <2>2. Agree(p, p)
      BY <1>4 DEF Agree
    <2> QED
      BY <2>1, <2>2
  <1>6. IsBytes(s)
    BY <1>5 DEF Agree
  <1>7. Sectioned(p, a) /\ p[1] = m.id \div 256 /\ p[2] = m.id % 256
    BY <1>5, QuestionsEnd
  <1>8. /\ Sectioned(s, b) /\ s[1] = n.id \div 256 /\ s[2] = n.id % 256
        /\ Len(s) >= 12 /\ read_u16_be(s, 4) = Len(n.questions)
    BY <1>5, QuestionsEnd
  <1>9. IsWire /\ IsMadeOf(wire, Sections(m), Entered(m), f) /\ IsMadeOf(Body(build(n)), Sections(n), Entered(n), g)
    BY <1>2, <1>3 DEF IsPacket, IsWire, Entered
  <1>10. /\ IsQuestion(q) /\ encode_name(q.qname) # Refuse /\ QuestionHolds(a, q)
         /\ LiesIn(wire, a, 0, f[1])
    BY <1>1, <1>9, FirstQuestion
  <1>11. IsQuestion(r) /\ encode_name(r.qname) # Refuse /\ QuestionHolds(b, r)
    BY <1>1, <1>9, FirstQuestion
  <1>12. ASSUME NEW x, IsQuery(x), Expressible(x) PROVE Regular(x.questions[1].qname)
    <2>1. 1 \in DOMAIN x.questions
      <3> DEFINE k == Len(x.questions)
      <3>1. build(x) # Refuse
        BY <1>12 DEF Expressible
      <3>2. k # 0
        BY <1>12, <3>1, BuildIs
      <3>3. k \in Nat /\ DOMAIN x.questions = 1 .. k
        BY <1>12, QueryTyped
      <3> HIDE DEF k
      <3> QED
        BY <3>2, <3>3
    <2> QED
      BY <1>12, <2>1 DEF Expressible
  <1>13. Regular(q.qname) /\ Regular(r.qname)
    BY <1>12
  <1>14. IsBytes(a) /\ IsBytes(b)
    BY <1>10, <1>11 DEF QuestionHolds
  <1>15. check_question_echo(p, s) <=> a = b
    <2> HIDE DEF p, s, a, b
    <2>1. IsBytes(p) /\ IsBytes(s) /\ IsBytes(a) /\ IsBytes(b) /\ Sectioned(p, a) /\ Sectioned(s, b)
      BY <1>4, <1>6, <1>7, <1>8, <1>14
    <2> QED
      BY <2>1, EchoCompares
  <1>16. a = b <=> /\ NameBack(q.qname) = NameBack(r.qname)
                   /\ q.qtype = r.qtype /\ q.qclass = r.qclass
    <2> HIDE DEF q, r
    <2> QED
      BY <1>9, <1>10, <1>11, <1>13, QuestionsCompare
  <1>17. check_txid(p, s) <=> m.id = n.id
    <2> DEFINE i == m.id
               j == n.id
    <2>1. i \in Nat /\ i < 65536 /\ j \in Nat /\ j < 65536
      BY QueryTyped DEF Uint16
    <2>2. check_txid(p, s) <=> p[1] = s[1] /\ p[2] = s[2]
      <3> HIDE DEF p, s
      <3>1. IsBytes(p) /\ IsBytes(s) /\ Len(p) >= 12 /\ Len(s) >= 12
        BY <1>4, <1>6, <1>8
      <3> QED
        BY <3>1, TxidCompares
    <2>3. p[1] = i \div 256 /\ p[2] = i % 256 /\ s[1] = j \div 256 /\ s[2] = j % 256
      BY <1>7, <1>8
    <2> HIDE DEF i, j, p, s
    <2>4. (i \div 256 = j \div 256 /\ i % 256 = j % 256) <=> i = j
      BY <2>1
    <2>5. check_txid(p, s) <=> i = j
      BY <2>2, <2>3, <2>4
    <2> QED
      BY <2>5 DEF i, j
  <1>18. check_qdcount(s) <=> Len(n.questions) = 1
    BY <1>8 DEF check_qdcount
  <1>19. Len(s) >= HEADER_SIZE
    BY <1>8 DEF HEADER_SIZE
  <1> HIDE DEF p, s, a, b, q, r
  <1>20. validate_message(p, s) <=> m.id = n.id /\ Len(n.questions) = 1 /\ a = b
    BY <1>5, <1>15, <1>17, <1>18, <1>19 DEF validate_message
  <1> QED
    BY <1>16, <1>20 DEF SameQuestion, p, s, q, r
=============================================================================
