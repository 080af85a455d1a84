------------------------------ MODULE AxdrProofs ------------------------------
(***************************************************************************)
(* Proofs about Axdr: for any values, lists of any length and nesting, any *)
(* buffer and any bytes cut off.                                           *)
(***************************************************************************)
EXTENDS Axdr, SequenceTheorems, WellFoundedInduction, TLAPS

\* data begins with p, or ends within it.
Agrees(data, p) == \A i \in 1 .. Len(p) : i <= Len(data) => data[i] = p[i]

------------------------------------------------------------------------------
(* Induction over the natural numbers in a form that can be cited: with the *)
(* set of the numbers that have a property.                                *)

\* A set of numbers has a least one.
LEMMA Smallest ==
    ASSUME NEW S, S \subseteq Nat, S # {}
    PROVE  \E x \in S : \A y \in S : x <= y
<1> DEFINE R == {p \in Nat \X Nat : p[1] < p[2]}
<1>1. IsWellFoundedOn(R, Nat)
    BY NatLessThanWellFounded DEF OpToRel
<1>2. \A x, y \in Nat : y < x => <<y, x>> \in R
    OBVIOUS
<1> HIDE DEF R
<1>3. PICK x \in S : \A y \in S : ~(<<y, x>> \in R)
    BY <1>1, WFMin
<1>4. \A y \in S : ~(y < x)
    BY <1>2, <1>3
<1>5. QED
    BY <1>3, <1>4

\* Induction: a set with 0 that has with each number the next has all numbers.
LEMMA AllNumbers ==
    ASSUME NEW S, S \subseteq Nat, 0 \in S, \A n \in S : n + 1 \in S
    PROVE  S = Nat
<1>1. SUFFICES ASSUME Nat \ S # {} PROVE FALSE
    OBVIOUS
<1>2. PICK x \in Nat \ S : \A y \in Nat \ S : x <= y
    BY <1>1, Smallest
<1>3. x # 0 /\ x - 1 \in Nat /\ ~(x <= x - 1)
    BY <1>2
<1>4. x - 1 \in S
    BY <1>2, <1>3
<1>5. (x - 1) + 1 \in S
    BY <1>4
<1>6. QED
    BY <1>2, <1>5

------------------------------------------------------------------------------
(* Sequences. *)

LEMMA Dropped ==
    ASSUME NEW data \in Seq(U8), NEW n \in 0 .. Len(data)
    PROVE  /\ Drop(data, n) \in Seq(U8)
           /\ Len(Drop(data, n)) = Len(data) - n
           /\ \A i \in 1 .. Len(data) - n : Drop(data, n)[i] = data[n + i]
<1>1. Len(data) \in Nat /\ \A i \in n + 1 .. Len(data) : data[i] \in U8
    BY LenProperties
<1>2. n \in Int /\ n + 1 \in Int /\ Len(data) \in Int
    BY <1>1
<1>3. /\ SubSeq(data, n + 1, Len(data)) \in Seq(U8)
      /\ Len(SubSeq(data, n + 1, Len(data))) = IF n + 1 <= Len(data) THEN Len(data) - (n + 1) + 1 ELSE 0
      /\ \A i \in 1 .. Len(data) - (n + 1) + 1 : SubSeq(data, n + 1, Len(data))[i] = data[(n + 1) + i - 1]
    BY <1>1, <1>2, SubSeqProperties
<1>4. QED
    BY <1>1, <1>3 DEF Drop

LEMMA Part ==
    ASSUME NEW data \in Seq(U8), NEW m \in 1 .. Len(data) + 1, NEW n \in m - 1 .. Len(data)
    PROVE  /\ SubSeq(data, m, n) \in Seq(U8)
           /\ Len(SubSeq(data, m, n)) = n - m + 1
           /\ \A i \in 1 .. n - m + 1 : SubSeq(data, m, n)[i] = data[m + i - 1]
<1>1. Len(data) \in Nat /\ \A i \in m .. n : data[i] \in U8
    BY LenProperties
<1>2. m \in Int /\ n \in Int
    BY <1>1
<1>3. /\ SubSeq(data, m, n) \in Seq(U8)
      /\ Len(SubSeq(data, m, n)) = IF m <= n THEN n - m + 1 ELSE 0
      /\ \A i \in 1 .. n - m + 1 : SubSeq(data, m, n)[i] = data[m + i - 1]
    BY <1>1, <1>2, SubSeqProperties
<1>4. QED
    BY <1>1, <1>2, <1>3

\* One sequence behind another.
LEMMA Joined ==
    ASSUME NEW s \in Seq(U8), NEW t \in Seq(U8), NEW u, u = s \o t
    PROVE  /\ u \in Seq(U8) /\ Len(u) = Len(s) + Len(t)
           /\ \A i \in 1 .. Len(s) : u[i] = s[i]
           /\ \A i \in 1 .. Len(t) : u[Len(s) + i] = t[i]
<1>1. Len(s) \in Nat /\ Len(t) \in Nat
    BY LenProperties
<1>2. /\ u \in Seq(U8) /\ Len(u) = Len(s) + Len(t)
      /\ \A i \in 1 .. Len(s) + Len(t) : u[i] = IF i <= Len(s) THEN s[i] ELSE t[i - Len(s)]
    BY ConcatProperties
<1>3. QED
    BY <1>1, <1>2

------------------------------------------------------------------------------
(* Lengths. *)

\* The bounds of U16.
LEMMA InU16 == \A w : w \in U16 <=> w \in Nat /\ w < 65536
<1>1. PICK k \in Nat : k = 65535
    OBVIOUS
<1>2. U16 = 0 .. k
    BY <1>1 DEF U16
<1>3. \A w : w \in U16 <=> w \in Nat /\ w <= k
    BY <1>2
<1>4. QED
    BY <1>1, <1>3

LEMMA HalvesOf ==
    ASSUME NEW len \in U16
    PROVE  Hi(len) \in U8 /\ Lo(len) \in U8 /\ Word(Hi(len), Lo(len)) = len /\ len \in Nat
<1>1. len \in Nat /\ len <= 65535
    BY InU16
<1>2. \A w \in Nat : /\ w \div 256 \in Nat /\ w % 256 \in 0 .. 255
                     /\ w % 256 = w - 256 * (w \div 256)
    BY SMT
<1>3. \A w \in Nat : w <= 65535 => w \div 256 <= 255
    BY SMT
<1>4. PICK q \in Nat, r \in 0 .. 255 : q = len \div 256 /\ r = len % 256
    BY <1>1, <1>2
<1>5. q <= 255 /\ 256 * q + r = len
    BY <1>1, <1>2, <1>3, <1>4, SMT
<1>6. q % 256 = q
    BY <1>5, SMT
<1>7. Hi(len) = q /\ Lo(len) = r
    BY <1>4, <1>6, SMT DEF Hi, Lo
<1>8. QED
    BY <1>1, <1>5, <1>7, SMT DEF Word, U8

LEMMA LengthBytes ==
    ASSUME NEW len \in U16
    PROVE  /\ encode_length_prefix(len) \in Seq(U8)
           /\ \/ len <= 127 /\ encode_length_prefix(len) = <<len>>
              \/ len \in 128 .. 255 /\ encode_length_prefix(len) = <<130, len>>
              \/ len > 255 /\ encode_length_prefix(len) = <<132, Hi(len), Lo(len)>>
<1>1. Hi(len) \in U8 /\ Lo(len) \in U8 /\ len \in Nat
    BY HalvesOf
<1>2. 130 \in U8 /\ 132 \in U8 /\ \A n \in Nat : n <= 255 => n \in U8
    BY SMT DEF U8
<1>3. CASE len <= 127
    BY <1>1, <1>2, <1>3, SMT DEF encode_length_prefix
<1>4. CASE len \in 128 .. 255
    BY <1>1, <1>2, <1>4, SMT DEF encode_length_prefix
<1>5. CASE len > 255
    BY <1>1, <1>2, <1>5, SMT DEF encode_length_prefix
<1>6. QED
    BY <1>1, <1>3, <1>4, <1>5, SMT

\* A length is read back, whatever follows it, and is missed when a byte of it is.
LEMMA LengthDecoded ==
    ASSUME NEW len \in U16, NEW data \in Seq(U8),
           NEW p, p = encode_length_prefix(len), Agrees(data, p)
    PROVE  /\ Len(p) <= Len(data) =>
                 decode_length_prefix(data) = [code |-> "OK", len |-> len, consumed |-> Len(p)]
           /\ Len(p) > Len(data) => decode_length_prefix(data).code # "OK"
<1>1. Len(data) \in Nat /\ (data = <<>> <=> Len(data) = 0) /\ len \in Nat
    BY LenProperties, EmptySeq, HalvesOf
<1>2. CASE data = <<>>
  <2>1. Len(p) > 0
      BY LengthBytes, SMT
  <2>2. decode_length_prefix(data).code = "BUFFER"
      BY <1>2, SMT DEF decode_length_prefix, Error
  <2>3. QED
      BY <1>1, <1>2, <2>1, <2>2, SMT
<1>3. CASE data # <<>> /\ len <= 127
  <2>1. p = <<len>> /\ Len(p) = 1 /\ p[1] = len
      BY <1>1, <1>3, LengthBytes, SMT
  <2>2. data[1] = len
      BY <1>1, <1>3, <2>1, SMT DEF Agrees
  <2>3. QED
      BY <1>1, <1>3, <2>1, <2>2, SMT DEF decode_length_prefix
<1>4. CASE data # <<>> /\ len \in 128 .. 255
  <2>1. p = <<130, len>> /\ Len(p) = 2 /\ p[1] = 130 /\ p[2] = len
      BY <1>1, <1>4, LengthBytes, SMT
  <2>2. data[1] = 130 /\ (Len(data) >= 2 => data[2] = len)
      BY <1>1, <1>4, <2>1, SMT DEF Agrees
  <2>3. QED
      BY <1>1, <1>4, <2>1, <2>2, SMT DEF decode_length_prefix, Error
<1>5. CASE data # <<>> /\ len > 255
  <2>1. p = <<132, Hi(len), Lo(len)>> /\ Len(p) = 3 /\ p[1] = 132 /\ p[2] = Hi(len) /\ p[3] = Lo(len)
      BY <1>1, <1>5, LengthBytes, SMT
  <2>2. data[1] = 132 /\ (Len(data) >= 3 => data[2] = Hi(len) /\ data[3] = Lo(len))
      BY <1>1, <1>5, <2>1, SMT DEF Agrees
  <2>3. QED
      BY <1>1, <1>5, <2>1, <2>2, HalvesOf, SMT DEF decode_length_prefix, Error
<1>6. QED
    BY <1>1, <1>2, <1>3, <1>4, <1>5, SMT

------------------------------------------------------------------------------
(* The bytes of a node. *)

\* One byte and what follows it.
LEMMA Tagged ==
    ASSUME NEW t \in U8, NEW s \in Seq(U8)
    PROVE  /\ <<t>> \o s \in Seq(U8)
           /\ Len(<<t>> \o s) = 1 + Len(s)
           /\ (<<t>> \o s)[1] = t
           /\ \A i \in 1 .. Len(s) : (<<t>> \o s)[1 + i] = s[i]
<1>1. <<t>> \in Seq(U8) /\ Len(<<t>>) = 1 /\ <<t>>[1] = t /\ Len(s) \in Nat
    BY LenProperties
<1>2. /\ <<t>> \o s \in Seq(U8)
      /\ Len(<<t>> \o s) = 1 + Len(s)
      /\ \A i \in 1 .. 1 + Len(s) : (<<t>> \o s)[i] = IF i <= 1 THEN t ELSE s[i - 1]
    BY <1>1, ConcatProperties
<1>3. QED
    BY <1>1, <1>2

\* A length and what it is the length of.
LEMMA Prefixed ==
    ASSUME NEW s \in Seq(U8), Len(s) \in U16, NEW p, p = encode_length_prefix(Len(s))
    PROVE  /\ p \o s \in Seq(U8)
           /\ Len(p) \in 1 .. 3 /\ Len(p \o s) = Len(p) + Len(s)
           /\ \A i \in 1 .. Len(p) : (p \o s)[i] = p[i]
           /\ \A i \in 1 .. Len(s) : (p \o s)[Len(p) + i] = s[i]
<1>1. p \in Seq(U8) /\ Len(p) \in 1 .. 3
    BY LengthBytes
<1>2. QED
    BY <1>1, Joined

\* What the clock of a datetime becomes: a day of the week after the fourth byte.
Weekday(data) == SubSeq(data, 1, 4) \o <<0>> \o SubSeq(data, 5, 11)

LEMMA WeekdayBytes ==
    ASSUME NEW data \in Seq(U8), Len(data) = 11
    PROVE  /\ Weekday(data) \in Seq(U8)
           /\ Len(Weekday(data)) = 12
           /\ \A i \in 1 .. 4 : Weekday(data)[i] = data[i]
           /\ \A i \in 6 .. 12 : Weekday(data)[i] = data[i - 1]
<1>1. /\ 1 \in 1 .. Len(data) + 1 /\ 4 \in 1 - 1 .. Len(data)
      /\ 5 \in 1 .. Len(data) + 1 /\ 11 \in 5 - 1 .. Len(data)
    BY SMT
<1>2. PICK a : a = SubSeq(data, 1, 4)
    OBVIOUS
<1>3. PICK b : b = SubSeq(data, 5, 11)
    OBVIOUS
<1>4. a \in Seq(U8) /\ Len(a) = 4 - 1 + 1 /\ \A i \in 1 .. 4 - 1 + 1 : a[i] = data[1 + i - 1]
    BY <1>1, <1>2, Part
<1>5. b \in Seq(U8) /\ Len(b) = 11 - 5 + 1 /\ \A i \in 1 .. 11 - 5 + 1 : b[i] = data[5 + i - 1]
    BY <1>1, <1>3, Part
<1>6. Len(a) = 4 /\ \A i \in 1 .. 4 : a[i] = data[i]
    BY <1>4, SMT
<1>7. Len(b) = 7 /\ \A i \in 1 .. 7 : b[i] = data[i + 4]
    BY <1>5, SMT
<1>8. <<0>> \in Seq(U8) /\ Len(<<0>>) = 1
    BY SMT DEF U8
<1>9. PICK c : c = a \o <<0>>
    OBVIOUS
<1>10. c \in Seq(U8) /\ Len(c) = Len(a) + 1 /\ \A i \in 1 .. Len(a) : c[i] = a[i]
  <2>1. /\ c \in Seq(U8) /\ Len(c) = Len(a) + Len(<<0>>)
        /\ \A i \in 1 .. Len(a) + Len(<<0>>) : c[i] = IF i <= Len(a) THEN a[i] ELSE <<0>>[i - Len(a)]
      BY <1>4, <1>8, <1>9, ConcatProperties
  <2>2. QED
      BY <1>6, <1>8, <2>1, SMT
<1>11. /\ Weekday(data) \in Seq(U8)
       /\ Len(Weekday(data)) = Len(c) + Len(b)
       /\ \A i \in 1 .. Len(c) + Len(b) :
              Weekday(data)[i] = IF i <= Len(c) THEN c[i] ELSE b[i - Len(c)]
    BY <1>2, <1>3, <1>5, <1>9, <1>10, ConcatProperties DEF Weekday
<1>12. QED
    BY <1>6, <1>7, <1>10, <1>11, SMT

\* What follows the tag.
Contents(n) ==
    CASE n.type \in Empty -> <<>>
      [] n.type = DATETIME -> Weekday(n.data)
      [] n.type \in FixedTypes \ {DATETIME} -> n.data
      [] n.type \in Strings \cup {COMPACT_ARRAY} -> encode_length_prefix(Len(n.data)) \o n.data
      [] n.type \in Containers -> encode_length_prefix(n.count)

\* A node that can be sent and read back.
Plain(n) ==
    dlms_value_t(n) /\ Supported(n.type) /\ ~(n.type = COMPACT_ARRAY /\ n.data = <<>>)

LEMMA Types ==
    /\ BOOL \in FixedTypes /\ DATETIME \in FixedTypes /\ BOOL # DATETIME
    /\ \A t \in Empty : t \notin FixedTypes \cup Strings \cup Containers \cup {COMPACT_ARRAY, BCD}
    /\ \A t \in FixedTypes : t \notin Strings \cup Containers \cup {COMPACT_ARRAY, BCD}
    /\ \A t \in Strings \cup {COMPACT_ARRAY, BCD} : t \notin Containers
    /\ COMPACT_ARRAY \notin Strings
BY DEF Empty, BOOL, DATETIME, FixedTypes, Strings, Containers, COMPACT_ARRAY, BCD

LEMMA ContentsTyped ==
    ASSUME NEW n, Plain(n)
    PROVE  Contents(n) \in Seq(U8) /\ NodeBytes(n) = <<n.type>> \o Contents(n)
<1>1. n.data \in Seq(U8) /\ Len(n.data) \in U16 /\ n.count \in U16 /\ n.type \in U8
    BY LenProperties DEF Plain, dlms_value_t, U8
<1>2. CASE n.type \in Empty
    BY <1>2, Types, EmptySeq DEF Contents, NodeBytes
<1>3. CASE n.type = DATETIME
  <2>1. Len(n.data) = 11
      BY <1>3 DEF Plain, dlms_value_t, FixedTypes, DATETIME
  <2>2. Contents(n) = Weekday(n.data)
      BY <1>3, Types DEF Contents
  <2>3. NodeBytes(n) = <<n.type>> \o Weekday(n.data)
      BY <1>3, Types DEF NodeBytes, Weekday
  <2>4. QED
      BY <1>1, <2>1, <2>2, <2>3, WeekdayBytes
<1>4. CASE n.type = BOOL
  <2>1. Len(n.data) = 1 /\ n.data[1] \in {0, 1}
      BY <1>4 DEF Plain, dlms_value_t, FixedTypes, BOOL, DATETIME, Width
  <2>2. n.data = <<n.data[1]>>
      BY <1>1, <2>1, SeqEqual
  <2>3. n.data = <<IF n.data[1] # 0 THEN 1 ELSE 0>>
      BY <2>1, <2>2
  <2>4. NodeBytes(n) = <<n.type>> \o <<IF n.data[1] # 0 THEN 1 ELSE 0>>
      BY <1>4, Types DEF NodeBytes
  <2>5. Contents(n) = n.data
      BY <1>4, Types DEF Contents
  <2>6. QED
      BY <1>1, <2>3, <2>4, <2>5
<1>5. CASE n.type \in FixedTypes \ {BOOL, DATETIME}
    BY <1>1, <1>5, Types DEF Contents, NodeBytes
<1>6. CASE n.type \in Strings \cup {COMPACT_ARRAY}
  <2>1. Contents(n) = encode_length_prefix(Len(n.data)) \o n.data
      BY <1>6, Types DEF Contents
  <2>2. NodeBytes(n) = <<n.type>> \o (encode_length_prefix(Len(n.data)) \o n.data)
      BY <1>6, Types DEF Plain, NodeBytes
  <2>3. QED
      BY <1>1, <2>1, <2>2, Prefixed
<1>7. CASE n.type \in Containers
  <2>1. Contents(n) = encode_length_prefix(n.count)
      BY <1>7, Types DEF Contents
  <2>2. NodeBytes(n) = <<n.type>> \o encode_length_prefix(n.count)
      BY <1>7, Types DEF NodeBytes
  <2>3. QED
      BY <1>1, <2>1, <2>2, LengthBytes
<1>8. QED
    BY <1>2, <1>3, <1>4, <1>5, <1>6, <1>7 DEF Plain, Supported

------------------------------------------------------------------------------
(* What the decoder makes of them. *)

\* A part of a sequence that is, byte by byte, another sequence.
LEMMA PartIs ==
    ASSUME NEW data \in Seq(U8), NEW s \in Seq(U8), NEW k \in Nat, k + Len(s) <= Len(data),
           \A i \in 1 .. Len(s) : data[k + i] = s[i]
    PROVE  SubSeq(data, k + 1, k + Len(s)) = s
<1>1. Len(s) \in Nat /\ Len(data) \in Nat
    BY LenProperties
<1>2. k + 1 \in 1 .. Len(data) + 1 /\ k + Len(s) \in (k + 1) - 1 .. Len(data)
    BY <1>1, SMT
<1>3. PICK t : t = SubSeq(data, k + 1, k + Len(s))
    OBVIOUS
<1>4. /\ t \in Seq(U8) /\ Len(t) = (k + Len(s)) - (k + 1) + 1
      /\ \A i \in 1 .. (k + Len(s)) - (k + 1) + 1 : t[i] = data[(k + 1) + i - 1]
    BY <1>2, <1>3, Part
<1>5. Len(t) = Len(s) /\ \A i \in 1 .. Len(s) : t[i] = s[i]
    BY <1>1, <1>4, SMT
<1>6. t = s
    BY <1>4, <1>5, SeqEqual
<1>7. QED
    BY <1>3, <1>6

\* A string and its length.
Counted(s) == encode_length_prefix(Len(s)) \o s

LEMMA StringDecoded ==
    ASSUME NEW s \in Seq(U8), Len(s) \in U16, NEW rest \in Seq(U8), Agrees(rest, Counted(s)), NEW t
    PROVE  /\ Len(Counted(s)) <= Len(rest) =>
                 StringNode(t, rest) = Decoded(t, s, 0, 1 + Len(Counted(s)))
           /\ Len(Counted(s)) > Len(rest) => StringNode(t, rest).code # "OK"
<1>a. SUFFICES
          ASSUME NEW c, c = Counted(s)
          PROVE  /\ Len(c) <= Len(rest) => StringNode(t, rest) = Decoded(t, s, 0, 1 + Len(c))
                 /\ Len(c) > Len(rest) => StringNode(t, rest).code # "OK"
    OBVIOUS
<1>1. PICK p : p = encode_length_prefix(Len(s)) /\ c = p \o s
    BY <1>a DEF Counted
<1>2. /\ Len(p) \in 1 .. 3 /\ Len(c) = Len(p) + Len(s)
      /\ \A i \in 1 .. Len(p) : c[i] = p[i]
      /\ \A i \in 1 .. Len(s) : c[Len(p) + i] = s[i]
    BY <1>1, Prefixed
<1>3. Len(s) \in Nat /\ Len(rest) \in Nat
    BY LenProperties
<1>4. Agrees(rest, p)
    BY <1>a, <1>2, <1>3, SMT DEF Agrees
<1>5. /\ Len(p) <= Len(rest) =>
             decode_length_prefix(rest) = [code |-> "OK", len |-> Len(s), consumed |-> Len(p)]
      /\ Len(p) > Len(rest) => decode_length_prefix(rest).code # "OK"
    BY <1>1, <1>4, LengthDecoded
<1>6. CASE Len(p) > Len(rest)
  <2>1. StringNode(t, rest).code # "OK"
      BY <1>5, <1>6, SMT DEF StringNode
  <2>2. QED
      BY <1>2, <1>3, <1>6, <2>1, SMT
<1>7. CASE Len(p) <= Len(rest) /\ Len(p) + Len(s) > Len(rest)
  <2>1. StringNode(t, rest).code # "OK"
      BY <1>5, <1>7, SMT DEF StringNode, Error
  <2>2. QED
      BY <1>2, <1>3, <1>7, <2>1, SMT
<1>8. CASE Len(p) + Len(s) <= Len(rest)
  <2>1. \A i \in 1 .. Len(s) : rest[Len(p) + i] = s[i]
      BY <1>a, <1>2, <1>3, <1>8, SMT DEF Agrees
  <2>2. SubSeq(rest, Len(p) + 1, Len(p) + Len(s)) = s
      BY <1>2, <1>8, <2>1, PartIs
  <2>3. decode_length_prefix(rest) = [code |-> "OK", len |-> Len(s), consumed |-> Len(p)]
      BY <1>2, <1>3, <1>5, <1>8, SMT
  <2>4. StringNode(t, rest) = Decoded(t, s, 0, 1 + Len(p) + Len(s))
    <3>1. StringNode(t, rest) =
              IF Len(p) + Len(s) > Len(rest) THEN Error("BUFFER")
              ELSE Decoded(t, SubSeq(rest, Len(p) + 1, Len(p) + Len(s)), 0, 1 + Len(p) + Len(s))
        BY <2>3 DEF StringNode
    <3>2. ~(Len(p) + Len(s) > Len(rest))
        BY <1>2, <1>3, <1>8, SMT
    <3>3. QED
        BY <2>2, <3>1, <3>2
  <2>5. 1 + Len(p) + Len(s) = 1 + Len(c)
      BY <1>2, <1>3, SMT
  <2>6. QED
      BY <1>2, <1>3, <1>8, <2>4, <2>5, SMT
<1>9. QED
    BY <1>2, <1>3, <1>6, <1>7, <1>8, SMT

LEMMA ContainerDecoded ==
    ASSUME NEW count \in U16, NEW p, p = encode_length_prefix(count),
           NEW rest \in Seq(U8), Agrees(rest, p), NEW t
    PROVE  /\ Len(p) <= Len(rest) => ContainerNode(t, rest) = Decoded(t, <<>>, count, 1 + Len(p))
           /\ Len(p) > Len(rest) => ContainerNode(t, rest).code # "OK"
<1>1. /\ Len(p) <= Len(rest) =>
             decode_length_prefix(rest) = [code |-> "OK", len |-> count, consumed |-> Len(p)]
      /\ Len(p) > Len(rest) => decode_length_prefix(rest).code # "OK"
    BY LengthDecoded
<1>2. QED
    BY <1>1, SMT DEF ContainerNode

\* A value of fixed length, without its tag.
LEMMA FixedDecoded ==
    ASSUME NEW n, Plain(n), n.type \in FixedTypes, NEW rest \in Seq(U8), Agrees(rest, Contents(n))
    PROVE  /\ Len(Contents(n)) = Width(n.type) /\ Width(n.type) \in Nat
           /\ Width(n.type) <= Len(rest) =>
                 Fields(n.type, SubSeq(rest, 1, Width(n.type))) = n.data
<1>1. /\ n.data \in Seq(U8) /\ Contents(n) \in Seq(U8)
      /\ Len(n.data) = IF n.type = DATETIME THEN 11 ELSE Width(n.type)
      /\ n.type = BOOL => n.data[1] \in {0, 1}
    BY ContentsTyped DEF Plain, dlms_value_t
<1>2. Len(Contents(n)) = Width(n.type) /\ Width(n.type) \in Nat
  <2>1. CASE n.type = DATETIME
    <3>1. Contents(n) = Weekday(n.data) /\ Width(n.type) = 12
        BY <2>1, Types DEF Contents, Width, DATETIME
    <3>2. QED
        BY <1>1, <2>1, <3>1, WeekdayBytes
  <2>2. CASE n.type # DATETIME
    <3>1. Contents(n) = n.data
        BY <2>2, Types DEF Contents
    <3>2. QED
        BY <1>1, <2>2, <3>1, LenProperties
  <2>3. QED
      BY <2>1, <2>2
<1>3. ASSUME Width(n.type) <= Len(rest)
      PROVE  SubSeq(rest, 1, Width(n.type)) = Contents(n)
  <2>1. \A i \in 1 .. Len(Contents(n)) : rest[i] = Contents(n)[i]
      BY <1>2, <1>3, LenProperties, SMT DEF Agrees
  <2>2. PICK c \in Seq(U8) : c = Contents(n)
      BY <1>1
  <2>3. 0 \in Nat /\ 0 + Len(c) <= Len(rest) /\ \A i \in 1 .. Len(c) : rest[0 + i] = c[i]
      BY <1>2, <1>3, <2>1, <2>2, SMT
  <2>4. SubSeq(rest, 0 + 1, 0 + Len(c)) = c
      BY <2>3, PartIs
  <2>5. QED
      BY <1>2, <2>2, <2>4, SMT
<1>4. Fields(n.type, Contents(n)) = n.data
  <2>1. CASE n.type = DATETIME
    <3>1. PICK b \in Seq(U8) : b = Contents(n)
        BY <1>1
    <3>2. Contents(n) = Weekday(n.data) /\ Len(n.data) = 11
        BY <1>1, <2>1, Types DEF Contents
    <3>3. /\ Len(b) = 12
          /\ \A i \in 1 .. 4 : b[i] = n.data[i]
          /\ \A i \in 6 .. 12 : b[i] = n.data[i - 1]
      <4>1. PICK d \in Seq(U8) : d = n.data
          BY <1>1
      <4>2. Len(d) = 11 /\ b = Weekday(d)
          BY <3>1, <3>2, <4>1
      <4>3. /\ Len(b) = 12
            /\ \A i \in 1 .. 4 : b[i] = d[i]
            /\ \A i \in 6 .. 12 : b[i] = d[i - 1]
          BY <4>2, WeekdayBytes
      <4>4. QED
          BY <4>1, <4>3
    <3>4. 1 \in 1 .. Len(b) + 1 /\ 4 \in 1 - 1 .. Len(b) /\ 6 \in 1 .. Len(b) + 1 /\ 12 \in 6 - 1 .. Len(b)
        BY <3>3, SMT
    <3>5. PICK x : x = SubSeq(b, 1, 4)
        OBVIOUS
    <3>6. PICK y : y = SubSeq(b, 6, 12)
        OBVIOUS
    <3>7. x \in Seq(U8) /\ Len(x) = 4 - 1 + 1 /\ \A i \in 1 .. 4 - 1 + 1 : x[i] = b[1 + i - 1]
        BY <3>4, <3>5, Part
    <3>8. y \in Seq(U8) /\ Len(y) = 12 - 6 + 1 /\ \A i \in 1 .. 12 - 6 + 1 : y[i] = b[6 + i - 1]
        BY <3>4, <3>6, Part
    <3>9. Len(x) = 4 /\ \A i \in 1 .. 4 : x[i] = n.data[i]
        BY <3>3, <3>7, SMT
    <3>10. Len(y) = 7 /\ \A i \in 1 .. 7 : y[i] = n.data[i + 4]
        BY <3>3, <3>8, SMT
    <3>11. PICK z : z = x \o y
        OBVIOUS
    <3>12. /\ z \in Seq(U8) /\ Len(z) = Len(x) + Len(y)
           /\ \A i \in 1 .. Len(x) + Len(y) : z[i] = IF i <= Len(x) THEN x[i] ELSE y[i - Len(x)]
        BY <3>7, <3>8, <3>11, ConcatProperties
    <3>13. Len(z) = Len(n.data) /\ \A i \in 1 .. Len(z) : z[i] = n.data[i]
        BY <3>2, <3>9, <3>10, <3>12, SMT
    <3>14. z = n.data
        BY <1>1, <3>12, <3>13, SeqEqual
    <3>15. Fields(n.type, b) = z
        BY <2>1, <3>5, <3>6, <3>11, Types DEF Fields
    <3>16. QED
        BY <3>1, <3>14, <3>15
  <2>2. CASE n.type = BOOL
    <3>1. Len(n.data) = 1 /\ Contents(n) = n.data
        BY <1>1, <2>2, Types DEF Contents, Width, BOOL
    <3>2. n.data = <<n.data[1]>>
        BY <1>1, <3>1, SeqEqual
    <3>3. Fields(n.type, n.data) = <<IF n.data[1] # 0 THEN 1 ELSE 0>>
      <4>1. PICK d : d = n.data
          OBVIOUS
      <4>2. Fields(BOOL, d) = <<IF d[1] # 0 THEN 1 ELSE 0>>
          BY Types DEF Fields
      <4>3. QED
          BY <2>2, <4>1, <4>2
    <3>4. QED
        BY <1>1, <2>2, <3>1, <3>2, <3>3
  <2>3. CASE n.type \notin {BOOL, DATETIME}
      BY <2>3, Types DEF Contents, Fields
  <2>4. QED
      BY <2>1, <2>2, <2>3
<1>5. QED
    BY <1>2, <1>3, <1>4

\* A value is read back, whatever follows it, and is missed when a byte of it is.
THEOREM NodeDecoded ==
    ASSUME NEW n, Plain(n), NEW data \in Seq(U8), Agrees(data, NodeBytes(n))
    PROVE  /\ Len(NodeBytes(n)) <= Len(data) =>
                 axdr_decode(data) = Decoded(n.type, n.data, n.count, Len(NodeBytes(n)))
           /\ Len(NodeBytes(n)) > Len(data) => axdr_decode(data).code # "OK"
<1>1. PICK c \in Seq(U8) : c = Contents(n) /\ NodeBytes(n) = <<n.type>> \o c
    BY ContentsTyped
<1>2. /\ n.data \in Seq(U8) /\ Len(n.data) \in U16 /\ n.count \in U16 /\ n.type \in U8
      /\ n.type \in Empty \cup Containers => n.data = <<>>
      /\ n.type \notin Containers => n.count = 0
    BY DEF Plain, dlms_value_t
<1>3. /\ Len(NodeBytes(n)) = 1 + Len(c)
      /\ NodeBytes(n)[1] = n.type
      /\ \A i \in 1 .. Len(c) : NodeBytes(n)[1 + i] = c[i]
    BY <1>1, <1>2, Tagged
<1>4. Len(c) \in Nat /\ Len(data) \in Nat /\ (data = <<>> <=> Len(data) = 0)
    BY LenProperties, EmptySeq
<1>5. CASE data = <<>>
  <2>1. axdr_decode(data).code = "INVALID"
      BY <1>5, SMT DEF axdr_decode, Error
  <2>2. QED
      BY <1>3, <1>4, <1>5, <2>1, SMT
<1>6. CASE data # <<>>
  <2>1. data[1] = n.type
      BY <1>3, <1>4, <1>6, SMT DEF Agrees
  <2>2. 1 \in 0 .. Len(data)
      BY <1>4, <1>6, SMT
  <2>3. PICK rest \in Seq(U8) : /\ rest = Drop(data, 1) /\ Len(rest) = Len(data) - 1
                                /\ \A i \in 1 .. Len(data) - 1 : rest[i] = data[1 + i]
      BY <2>2, Dropped
  <2>4. Agrees(rest, c)
      BY <1>3, <1>4, <2>3, SMTT(20) DEF Agrees
  <2>5. CASE n.type \in Empty
    <3>1. c = <<>> /\ axdr_decode(data) = Decoded(n.type, <<>>, 0, 1)
        BY <1>1, <1>6, <2>1, <2>5, Types DEF axdr_decode, Contents
    <3>2. Len(NodeBytes(n)) = 1 /\ n.data = <<>> /\ n.count = 0
        BY <1>2, <1>3, <2>5, <3>1, Types
    <3>3. QED
        BY <1>4, <1>6, <3>1, <3>2, SMT
  <2>6. CASE n.type \in FixedTypes
    <3>1. /\ axdr_decode(data) =
                IF Len(rest) < Width(n.type) THEN Error("BUFFER")
                ELSE Decoded(n.type, Fields(n.type, SubSeq(rest, 1, Width(n.type))), 0, 1 + Width(n.type))
          /\ n.count = 0
        BY <1>2, <1>6, <2>1, <2>3, <2>6, Types DEF axdr_decode
    <3>2. /\ Len(c) = Width(n.type)
          /\ Width(n.type) <= Len(rest) => Fields(n.type, SubSeq(rest, 1, Width(n.type))) = n.data
        BY <1>1, <2>4, <2>6, FixedDecoded
    <3>3. QED
        BY <1>3, <1>4, <2>3, <3>1, <3>2, SMT DEF Error
  <2>7. CASE n.type \in Strings \cup {COMPACT_ARRAY}
    <3>1. axdr_decode(data) = StringNode(n.type, rest) /\ n.count = 0
        BY <1>2, <1>6, <2>1, <2>3, <2>7, Types DEF axdr_decode
    <3>2. PICK p : p = encode_length_prefix(Len(n.data))
        OBVIOUS
    <3>3. c = p \o n.data
        BY <1>1, <2>7, <3>2, Types DEF Contents
    <3>4. /\ Len(c) <= Len(rest) => StringNode(n.type, rest) = Decoded(n.type, n.data, 0, 1 + Len(c))
          /\ Len(c) > Len(rest) => StringNode(n.type, rest).code # "OK"
      <4>1. PICK d \in Seq(U8) : d = n.data
          BY <1>2
      <4>2. Len(d) \in U16
          BY <1>2, <4>1, Zenon
      <4>3. c = Counted(d)
          BY <3>2, <3>3, <4>1, Zenon DEF Counted
      <4>4. Agrees(rest, Counted(d))
          BY <2>4, <4>3
      <4>5. /\ Len(Counted(d)) <= Len(rest) =>
                   StringNode(n.type, rest) = Decoded(n.type, d, 0, 1 + Len(Counted(d)))
            /\ Len(Counted(d)) > Len(rest) => StringNode(n.type, rest).code # "OK"
          BY <4>2, <4>4, StringDecoded
      <4>6. QED
          BY <4>1, <4>3, <4>5
    <3>5. QED
        BY <1>3, <1>4, <2>3, <3>1, <3>4, SMT
  <2>8. CASE n.type \in Containers
    <3>1. axdr_decode(data) = ContainerNode(n.type, rest) /\ n.data = <<>>
        BY <1>2, <1>6, <2>1, <2>3, <2>8, Types DEF axdr_decode
    <3>2. c = encode_length_prefix(n.count)
        BY <1>1, <2>8, Types DEF Contents
    <3>3. /\ Len(c) <= Len(rest) => ContainerNode(n.type, rest) = Decoded(n.type, <<>>, n.count, 1 + Len(c))
          /\ Len(c) > Len(rest) => ContainerNode(n.type, rest).code # "OK"
        BY <1>2, <2>4, <3>2, ContainerDecoded
    <3>4. QED
        BY <1>3, <1>4, <2>3, <3>1, <3>3, SMT
  <2>9. QED
      BY <2>5, <2>6, <2>7, <2>8 DEF Plain, Supported
<1>7. QED
    BY <1>5, <1>6

------------------------------------------------------------------------------
(* Lists of values. *)

\* Node i begins after the byte at[i - 1] and ends with at[i], and its bytes are
\* those of dst, as far as dst has them; left[i] nodes are to come after it.
Placed(at, left, i) ==
    /\ Plain(nodes[i])
    /\ at[i] = at[i - 1] + Len(NodeBytes(nodes[i])) /\ at[i] <= at[Len(nodes)]
    /\ left[i - 1] > 0 /\ left[i] = left[i - 1] - 1 + nodes[i].count
    /\ \A k \in 1 .. Len(NodeBytes(nodes[i])) :
           at[i - 1] + k <= Len(dst) => dst[at[i - 1] + k] = NodeBytes(nodes[i])[k]

\* What was encoded lies in dst without gaps, but for the end that was cut off.
Layout(at, left) ==
    /\ at \in [0 .. Len(nodes) -> Nat] /\ left \in [0 .. Len(nodes) -> Nat]
    /\ at[0] = 0 /\ left[Len(nodes)] = todo
    /\ \A i \in 1 .. Len(nodes) : Placed(at, left, i)
    /\ IF cut THEN Len(dst) < at[Len(nodes)] ELSE Len(dst) = at[Len(nodes)]

\* The decoder stands between two nodes, and expects as many as the encoder did
\* there.
Progress(at, left) ==
    /\ Len(read) <= Len(nodes) /\ \A i \in 1 .. Len(read) : read[i] = nodes[i]
    /\ pos = at[Len(read)] /\ pos <= Len(dst)
    /\ due = left[Len(read)]

Flow ==
    /\ dst \in Seq(U8) /\ read \in Seq(Nodes) /\ cut \in BOOLEAN
    /\ code = "none" => todo > 0 /\ ~cut
    /\ code = "OK" => todo = 0
    /\ outcome = "none" => due > 0
    /\ outcome = "OK" => due = 0
    /\ outcome \notin {"none", "OK"} => cut

IInv ==
    /\ kind = "list" => nodes \in Seq(Nodes)
    /\ Expressible => Flow /\ \E at, left : Layout(at, left) /\ Progress(at, left)

LEMMA NodeSized ==
    ASSUME NEW n, Plain(n)
    PROVE  /\ NodeBytes(n) \in Seq(U8) /\ Len(NodeBytes(n)) \in Nat \ {0}
           /\ n.count \in Nat /\ n = Node(n.type, n.data, n.count)
<1>1. n \in [type : U8, data : Seq(U8), count : U16]
    BY DEF Plain, dlms_value_t
<1>2. n = Node(n.type, n.data, n.count)
    BY <1>1, SMT DEF Node
<1>3. n.count \in Nat
    BY <1>1, HalvesOf
<1>4. PICK c \in Seq(U8) : NodeBytes(n) = <<n.type>> \o c
    BY ContentsTyped
<1>5. NodeBytes(n) \in Seq(U8) /\ Len(NodeBytes(n)) = 1 + Len(c)
    BY <1>1, <1>4, Tagged
<1>6. Len(c) \in Nat
    BY LenProperties
<1>7. QED
    BY <1>2, <1>3, <1>5, <1>6, SMT

LEMMA Begins == Init => IInv
<1> SUFFICES ASSUME Init PROVE IInv
    OBVIOUS
<1>1. /\ todo \in Nat \ {0} /\ nodes = <<>> /\ dst = <<>> /\ code = "none" /\ cut = FALSE
      /\ due = todo /\ read = <<>> /\ pos = 0 /\ outcome = "none"
    BY AxdrAssumption DEF Init
<1>2. /\ <<>> \in Seq(Nodes) /\ <<>> \in Seq(U8) /\ Len(<<>>) = 0
    BY EmptySeq
<1>3. Flow
  <2>1. todo > 0
      BY <1>1
  <2>2. QED
      BY <1>1, <1>2, <2>1, Zenon DEF Flow
<1>4. PICK at : at = [i \in 0 .. 0 |-> 0]
    OBVIOUS
<1>5. PICK left : left = [i \in 0 .. 0 |-> todo]
    OBVIOUS
<1>6. Layout(at, left) /\ Progress(at, left)
    BY <1>1, <1>2, <1>4, <1>5 DEF Layout, Progress
<1>7. QED
    BY <1>1, <1>2, <1>3, <1>6 DEF IInv

LEMMA Implied == IInv => ReadBack /\ CutNoticed
<1> SUFFICES ASSUME IInv, Expressible
             PROVE  /\ IsPrefix(read, nodes)
                    /\ ~cut => outcome \in {"none", "OK"}
                    /\ outcome = "OK" => read = nodes /\ pos = Len(dst) /\ ~cut
    BY DEF ReadBack, CutNoticed
<1>1. nodes \in Seq(Nodes) /\ Flow
    BY DEF IInv, Expressible
<1>2. PICK at, left : Layout(at, left) /\ Progress(at, left)
    BY DEF IInv
<1>3. Len(nodes) \in Nat /\ Len(read) \in Nat /\ Len(dst) \in Nat /\ Len(read) <= Len(nodes)
    BY <1>1, <1>2, LenProperties DEF Flow, Progress
<1>4. /\ SubSeq(read, 1, Len(read)) = read
      /\ SubSeq(nodes, 1, Len(read)) = read
  <2>1. PICK a : a = SubSeq(read, 1, Len(read))
      OBVIOUS
  <2>2. PICK b : b = SubSeq(nodes, 1, Len(read))
      OBVIOUS
  <2>3. read \in Seq(Nodes)
      BY <1>1 DEF Flow
  <2>4. /\ \A i \in 1 .. Len(read) : read[i] \in Nodes /\ nodes[i] \in Nodes
        /\ 1 \in Int /\ Len(read) \in Int
      BY <1>1, <1>3, <2>3, ElementOfSeq
  <2>5. /\ a \in Seq(Nodes) /\ Len(a) = (IF 1 <= Len(read) THEN Len(read) - 1 + 1 ELSE 0)
        /\ \A i \in 1 .. Len(read) - 1 + 1 : a[i] = read[1 + i - 1]
      BY <2>1, <2>3, <2>4, SubSeqProperties
  <2>6. /\ b \in Seq(Nodes) /\ Len(b) = (IF 1 <= Len(read) THEN Len(read) - 1 + 1 ELSE 0)
        /\ \A i \in 1 .. Len(read) - 1 + 1 : b[i] = nodes[1 + i - 1]
      BY <1>1, <2>2, <2>4, SubSeqProperties
  <2>7. Len(a) = Len(read) /\ \A i \in 1 .. Len(read) : a[i] = read[i]
    <3>1. Len(a) = Len(read)
        BY <1>3, <2>5, SMT
    <3>2. \A i \in 1 .. Len(read) : i \in 1 .. Len(read) - 1 + 1 /\ 1 + i - 1 = i
        BY <1>3, SMT
    <3>3. QED
        BY <2>5, <3>1, <3>2
  <2>8. Len(b) = Len(read) /\ \A i \in 1 .. Len(read) : b[i] = read[i]
    <3>1. \A i \in 1 .. Len(read) : read[i] = nodes[i]
        BY <1>2 DEF Progress
    <3>2. QED
        BY <1>3, <2>6, <3>1, SMT
  <2>9. a = read /\ b = read
      BY <2>3, <2>5, <2>6, <2>7, <2>8, SeqEqual
  <2>10. QED
      BY <2>1, <2>2, <2>9
<1>5. IsPrefix(read, nodes)
    BY <1>3, <1>4 DEF IsPrefix
<1>6. ~cut => outcome \in {"none", "OK"}
    BY <1>1 DEF Flow
<1>7. ASSUME outcome = "OK"
      PROVE  read = nodes /\ pos = Len(dst) /\ ~cut
  <2>1. due = 0 /\ due = left[Len(read)]
      BY <1>1, <1>2, <1>7 DEF Flow, Progress
  <2>2. ASSUME Len(read) < Len(nodes)
        PROVE  FALSE
    <3>1. PICK i \in 1 .. Len(nodes) : i = Len(read) + 1
        BY <1>3, <2>2, SMT
    <3>2. left[i - 1] > 0
        BY <1>2, <3>1 DEF Layout, Placed
    <3>3. i - 1 = Len(read)
        BY <1>3, <3>1, SMT
    <3>4. left[Len(read)] > 0
        BY <3>2, <3>3
    <3>5. QED
        BY <2>1, <3>4, SMT
  <2>3. Len(read) = Len(nodes)
      BY <1>3, <2>2, SMT
  <2>4. read = nodes
    <3>1. read \in Seq(Nodes) /\ \A i \in 1 .. Len(read) : read[i] = nodes[i]
        BY <1>1, <1>2 DEF Flow, Progress
    <3>2. QED
        BY <1>1, <2>3, <3>1, SeqEqual
  <2>5. pos = at[Len(nodes)] /\ pos <= Len(dst)
      BY <1>2, <2>3 DEF Progress
  <2>6. IF cut THEN Len(dst) < at[Len(nodes)] ELSE Len(dst) = at[Len(nodes)]
      BY <1>2 DEF Layout
  <2>7. at[Len(nodes)] \in Nat
      BY <1>2, <1>3 DEF Layout
  <2>8. ~cut /\ pos = Len(dst)
      BY <1>3, <2>5, <2>6, <2>7, SMT
  <2>9. QED
      BY <2>4, <2>8
<1>8. QED
    BY <1>5, <1>6, <1>7

\* A node that fits goes behind the others.
LEMMA Encoded ==
    ASSUME IInv, Expressible', kind = "list", code = "none", NEW n \in Nodes, Supported(n.type),
           dst' = dst \o NodeBytes(n), nodes' = Append(nodes, n), todo' = todo - 1 + n.count,
           code' = IF todo' = 0 THEN "OK" ELSE "none", UNCHANGED <<kind, cut, decoderVars>>
    PROVE  IInv'
<1>1. nodes \in Seq(Nodes) /\ Len(nodes) \in Nat
    BY LenProperties DEF IInv
<1>2. /\ nodes' \in Seq(Nodes) /\ Len(nodes') = Len(nodes) + 1
      /\ \A i \in 1 .. Len(nodes) : nodes'[i] = nodes[i]
      /\ nodes'[Len(nodes) + 1] = n
    BY <1>1, AppendProperties
<1>3. Expressible
  <2>1. DOMAIN nodes = 1 .. Len(nodes) /\ DOMAIN nodes' = 1 .. Len(nodes')
      BY <1>1, <1>2, LenProperties
  <2>2. \A i \in DOMAIN nodes : i \in DOMAIN nodes' /\ nodes'[i] = nodes[i]
      BY <1>1, <1>2, <2>1, SMT
  <2>3. QED
      BY <2>2 DEF Expressible
<1>4. Plain(n)
  <2>1. dlms_value_t(n)
      BY AxdrAssumption
  <2>2. Len(nodes) + 1 \in DOMAIN nodes'
      BY <1>1, <1>2, LenProperties
  <2>3. ~(n.type = COMPACT_ARRAY /\ n.data = <<>>)
      BY <1>2, <2>2 DEF Expressible
  <2>4. QED
      BY <2>1, <2>3 DEF Plain
<1>5. PICK p \in Seq(U8) : p = NodeBytes(n) /\ Len(p) \in Nat \ {0} /\ n.count \in Nat
    BY <1>4, NodeSized
<1>6. PICK at, left : Layout(at, left) /\ Progress(at, left)
    BY <1>3 DEF IInv
<1>7. Flow /\ ~cut /\ Len(dst) \in Nat /\ Len(dst) = at[Len(nodes)]
    BY <1>3, <1>6, LenProperties DEF IInv, Flow, Layout
<1>8. todo \in Nat \ {0} /\ todo' \in Nat
  <2>1. todo = left[Len(nodes)] /\ left[Len(nodes)] \in Nat
      BY <1>1, <1>6 DEF Layout
  <2>2. todo > 0
      BY <1>7 DEF Flow
  <2>3. QED
      BY <1>5, <2>1, <2>2, SMTT(20)
<1>9. /\ dst' \in Seq(U8) /\ Len(dst') = Len(dst) + Len(p)
      /\ \A k \in 1 .. Len(dst) : dst'[k] = dst[k]
      /\ \A k \in 1 .. Len(p) : dst'[Len(dst) + k] = p[k]
  <2>1. dst \in Seq(U8) /\ dst' = dst \o p
      BY <1>5, <1>7 DEF Flow
  <2>2. QED
      BY <2>1, Joined
<1>10. PICK at2 : at2 = [i \in 0 .. Len(nodes) + 1 |->
                           IF i <= Len(nodes) THEN at[i] ELSE Len(dst) + Len(p)]
    OBVIOUS
<1>11. PICK left2 : left2 = [i \in 0 .. Len(nodes) + 1 |->
                               IF i <= Len(nodes) THEN left[i] ELSE todo']
    OBVIOUS
<1>12. at \in [0 .. Len(nodes) -> Nat] /\ left \in [0 .. Len(nodes) -> Nat]
    BY <1>6 DEF Layout
<1>13. /\ at2 \in [0 .. Len(nodes) + 1 -> Nat] /\ left2 \in [0 .. Len(nodes) + 1 -> Nat]
       /\ \A i \in 0 .. Len(nodes) : at2[i] = at[i] /\ left2[i] = left[i]
       /\ at2[Len(nodes) + 1] = Len(dst) + Len(p) /\ left2[Len(nodes) + 1] = todo'
  <2>1. /\ at2 \in [0 .. Len(nodes) + 1 -> Nat] /\ \A i \in 0 .. Len(nodes) : at2[i] = at[i]
        /\ at2[Len(nodes) + 1] = Len(dst) + Len(p)
      BY <1>1, <1>5, <1>7, <1>10, <1>12, SMT
  <2>2. /\ left2 \in [0 .. Len(nodes) + 1 -> Nat] /\ \A i \in 0 .. Len(nodes) : left2[i] = left[i]
        /\ left2[Len(nodes) + 1] = todo'
      BY <1>1, <1>8, <1>11, <1>12, SMT
  <2>3. QED
      BY <2>1, <2>2
<1>14. ASSUME NEW i \in 1 .. Len(nodes)
       PROVE  Placed(at2, left2, i)'
  <2>1. Placed(at, left, i)
      BY <1>6 DEF Layout
  <2>2. /\ i \in 0 .. Len(nodes) /\ i - 1 \in 0 .. Len(nodes) /\ Len(nodes) \in 0 .. Len(nodes)
      BY <1>1, SMT
  <2>3. nodes'[i] = nodes[i] /\ Plain(nodes[i])
      BY <1>2, <2>1 DEF Placed
  <2>4. /\ at2[i] = at[i] /\ at2[i - 1] = at[i - 1] /\ left2[i] = left[i] /\ left2[i - 1] = left[i - 1]
        /\ at[i] \in Nat /\ at[i - 1] \in Nat
      BY <1>12, <1>13, <2>2
  <2>5. PICK q \in Seq(U8) : q = NodeBytes(nodes[i]) /\ Len(q) \in Nat
      BY <2>3, NodeSized
  <2>6. /\ at[i] = at[i - 1] + Len(q) /\ at[i] <= Len(dst)
        /\ \A k \in 1 .. Len(q) : at[i - 1] + k <= Len(dst) => dst[at[i - 1] + k] = q[k]
      BY <1>7, <2>1, <2>5 DEF Placed
  <2>7. at2[i] <= at2[Len(nodes')]
      BY <1>2, <1>5, <1>7, <1>13, <2>4, <2>6, SMT
  <2>8. \A k \in 1 .. Len(q) : dst'[at[i - 1] + k] = q[k]
    <3>1. PICK x \in Nat : x = at[i - 1]
        BY <2>4
    <3>2. x + Len(q) <= Len(dst)
        BY <2>6, <3>1
    <3>3. \A k \in 1 .. Len(q) : x + k \in 1 .. Len(dst) /\ x + k <= Len(dst)
        BY <1>7, <2>5, <3>2, SMT
    <3>4. QED
        BY <1>9, <2>6, <3>1, <3>3, Zenon
  <2>9. left[i - 1] > 0 /\ left[i] = left[i - 1] - 1 + nodes[i].count
      BY <2>1 DEF Placed
  <2>10. QED
      BY <2>3, <2>4, <2>5, <2>6, <2>7, <2>8, <2>9 DEF Placed
<1>15. PICK j : j = Len(nodes) + 1
    OBVIOUS
<1>16. Placed(at2, left2, j)'
  <2>1. Len(nodes) + 1 - 1 = Len(nodes) /\ Len(nodes) \in 0 .. Len(nodes)
      BY <1>1, SMT
  <2>2. at2[Len(nodes)] = Len(dst) /\ left2[Len(nodes)] = todo
      BY <1>6, <1>7, <1>13, <2>1 DEF Layout
  <2>3. /\ at2[Len(nodes) + 1] = at2[Len(nodes)] + Len(p) /\ at2[Len(nodes) + 1] <= at2[Len(nodes')]
        /\ left2[Len(nodes)] > 0 /\ left2[Len(nodes) + 1] = left2[Len(nodes)] - 1 + n.count
      BY <1>2, <1>5, <1>7, <1>8, <1>13, <2>2, SMT
  <2>4. \A k \in 1 .. Len(p) : dst'[at2[Len(nodes)] + k] = p[k]
      BY <1>9, <2>2
  <2>5. nodes'[j] = n /\ j - 1 = Len(nodes)
      BY <1>2, <1>15, <2>1
  <2>6. /\ at2[j] = at2[j - 1] + Len(p) /\ at2[j] <= at2[Len(nodes')]
        /\ left2[j - 1] > 0 /\ left2[j] = left2[j - 1] - 1 + n.count
        /\ \A k \in 1 .. Len(p) : dst'[at2[j - 1] + k] = p[k]
      BY <1>15, <2>3, <2>4, <2>5, Zenon
  <2>7. QED
      BY <1>4, <1>5, <2>5, <2>6 DEF Placed
<1>17. Layout(at2, left2)'
  <2>1. at2[0] = 0 /\ left2[Len(nodes')] = todo' /\ at2[Len(nodes')] = Len(dst') /\ ~cut'
      BY <1>1, <1>2, <1>6, <1>7, <1>9, <1>13 DEF Layout
  <2>2. \A i \in 1 .. Len(nodes') : i \in 1 .. Len(nodes) \/ i = j
      BY <1>1, <1>2, <1>15, SMT
  <2>3. \A i \in 1 .. Len(nodes') : Placed(at2, left2, i)'
      BY <1>14, <1>16, <2>2
  <2>4. QED
      BY <1>2, <1>13, <2>1, <2>3 DEF Layout
<1>18. Progress(at2, left2)'
  <2>1. Len(read) \in 0 .. Len(nodes) /\ read' = read /\ pos' = pos /\ due' = due
      BY <1>1, <1>6, <1>7, LenProperties DEF Progress, Flow, decoderVars
  <2>2. at2[Len(read)] = at[Len(read)] /\ left2[Len(read)] = left[Len(read)] /\ at[Len(read)] \in Nat
      BY <1>12, <1>13, <2>1
  <2>3. /\ \A i \in 1 .. Len(read) : read[i] = nodes'[i]
        /\ Len(read) <= Len(nodes')
      BY <1>1, <1>2, <1>6, <2>1 DEF Progress
  <2>4. pos = at[Len(read)] /\ due = left[Len(read)] /\ pos <= Len(dst)
      BY <1>6 DEF Progress
  <2>5. pos <= Len(dst')
      BY <1>5, <1>7, <1>9, <2>2, <2>4, SMT
  <2>6. QED
      BY <2>1, <2>2, <2>3, <2>4, <2>5 DEF Progress
<1>19. Flow'
  <2>1. todo' # 0 => todo' > 0
      BY <1>8, SMT
  <2>2. QED
      BY <1>7, <1>9, <2>1, Zenon DEF Flow, decoderVars
<1>20. QED
    BY <1>2, <1>17, <1>18, <1>19 DEF IInv

\* Cutting off the end leaves the rest where it was.
LEMMA Shortened ==
    ASSUME IInv, Cut
    PROVE  IInv'
<1>1. /\ kind' = kind /\ nodes' = nodes /\ todo' = todo /\ code' = code
      /\ due' = due /\ read' = read /\ pos' = pos /\ outcome' = outcome
      /\ cut' = TRUE /\ ~cut /\ code = "OK" /\ pos = 0 /\ outcome = "none"
    BY DEF Cut, decoderVars
<1>2. SUFFICES ASSUME Expressible
               PROVE  Flow' /\ \E at, left : Layout(at, left)' /\ Progress(at, left)'
    BY <1>1 DEF IInv, Expressible
<1>3. PICK at, left : Layout(at, left) /\ Progress(at, left)
    BY <1>2 DEF IInv
<1>4. Flow /\ dst \in Seq(U8) /\ Len(dst) \in Nat /\ Len(dst) = at[Len(nodes)]
    BY <1>1, <1>2, <1>3, LenProperties DEF IInv, Flow, Layout
<1>5. PICK m \in Cuts : m <= Len(dst) /\ dst' = SubSeq(dst, 1, Len(dst) - m)
    BY DEF Cut
<1>6. PICK n : n = Len(dst) - m
    OBVIOUS
<1>7. /\ m \in Nat \ {0} /\ 1 \in 1 .. Len(dst) + 1 /\ n \in 1 - 1 .. Len(dst)
      /\ n - 1 + 1 = n /\ n < Len(dst) /\ n \in Nat
  <2>1. m \in Nat \ {0}
      BY AxdrAssumption
  <2>2. QED
      BY <1>4, <1>5, <1>6, <2>1, SMT
<1>8. /\ dst' \in Seq(U8) /\ Len(dst') = n
      /\ \A i \in 1 .. n : dst'[i] = dst[i]
  <2>1. dst' = SubSeq(dst, 1, n)
      BY <1>5, <1>6
  <2>2. /\ dst' \in Seq(U8) /\ Len(dst') = n - 1 + 1
        /\ \A i \in 1 .. n - 1 + 1 : dst'[i] = dst[1 + i - 1]
      BY <1>4, <1>7, <2>1, Part
  <2>3. \A i \in 1 .. n : 1 + i - 1 = i
      BY <1>7, SMT
  <2>4. QED
      BY <1>7, <2>2, <2>3, Zenon
<1>9. Flow'
    BY <1>1, <1>4, <1>8, Zenon DEF Flow
<1>10. ASSUME NEW i \in 1 .. Len(nodes)
      PROVE  Placed(at, left, i)'
  <2>1. Placed(at, left, i)
      BY <1>3 DEF Layout
  <2>2. Len(nodes) \in Nat /\ nodes \in Seq(Nodes)
      BY <1>2, LenProperties DEF IInv, Expressible
  <2>3. at[i - 1] \in Nat
    <3>1. i - 1 \in 0 .. Len(nodes)
        BY <2>2, SMT
    <3>2. QED
        BY <1>3, <3>1 DEF Layout
  <2>4. PICK q \in Seq(U8) : q = NodeBytes(nodes[i]) /\ Len(q) \in Nat
      BY <2>1, NodeSized DEF Placed
  <2>5. \A k \in 1 .. Len(q) : at[i - 1] + k <= Len(dst) => dst[at[i - 1] + k] = q[k]
      BY <2>1, <2>4 DEF Placed
  <2>6. \A k \in 1 .. Len(q) : at[i - 1] + k <= n =>
               at[i - 1] + k <= Len(dst) /\ at[i - 1] + k \in 1 .. n
    <3>1. PICK x \in Nat : x = at[i - 1]
        BY <2>3
    <3>2. \A k \in 1 .. Len(q) : x + k <= n => x + k <= Len(dst) /\ x + k \in 1 .. n
        BY <1>4, <1>7, <2>4, SMT
    <3>3. QED
        BY <3>1, <3>2
  <2>7. \A k \in 1 .. Len(q) : at[i - 1] + k <= Len(dst') => dst'[at[i - 1] + k] = q[k]
      BY <1>8, <2>5, <2>6, Zenon
  <2>8. QED
      BY <1>1, <2>1, <2>4, <2>7 DEF Placed
<1>11. Layout(at, left)'
  <2>1. Len(dst') < at[Len(nodes)]
      BY <1>4, <1>7, <1>8, SMT
  <2>2. QED
      BY <1>1, <1>3, <1>10, <2>1 DEF Layout
<1>12. Progress(at, left)'
  <2>1. pos <= Len(dst')
      BY <1>1, <1>4, <1>7, <1>8, SMT
  <2>2. QED
      BY <1>1, <1>3, <2>1 DEF Progress
<1>13. QED
    BY <1>9, <1>11, <1>12

\* The decoder takes the next node apart, or finds that it is not all there.
LEMMA NextDecoded ==
    ASSUME IInv, DecodeNode, Expressible
    PROVE  Flow' /\ \E at, left : Layout(at, left)' /\ Progress(at, left)'
<1>1. /\ kind' = kind /\ nodes' = nodes /\ todo' = todo /\ code' = code /\ dst' = dst /\ cut' = cut
      /\ code = "OK" /\ outcome = "none" /\ kind = "list"
    BY DEF DecodeNode, encoderVars, Expressible
<1>2. PICK got : /\ got = axdr_decode(Drop(dst, pos))
                 /\ IF got.code # "OK"
                    THEN outcome' = got.code /\ UNCHANGED <<due, read, pos>>
                    ELSE /\ read' = Append(read, got.node)
                         /\ pos' = pos + got.consumed
                         /\ due' = due - 1 + got.node.count
                         /\ outcome' = IF due' = 0 THEN "OK" ELSE "none"
    BY <1>1 DEF DecodeNode
<1>3. PICK at, left : Layout(at, left) /\ Progress(at, left)
    BY DEF IInv
<1>4. PICK r : r = Len(read)
    OBVIOUS
<1>5. /\ Flow /\ nodes \in Seq(Nodes) /\ read \in Seq(Nodes) /\ dst \in Seq(U8)
      /\ Len(nodes) \in Nat /\ r \in Nat /\ Len(dst) \in Nat /\ r <= Len(nodes)
    BY <1>3, <1>4, LenProperties DEF IInv, Expressible, Flow, Progress
<1>6. /\ at \in [0 .. Len(nodes) -> Nat] /\ left \in [0 .. Len(nodes) -> Nat]
      /\ pos = at[r] /\ pos <= Len(dst) /\ due = left[r] /\ due > 0 /\ left[Len(nodes)] = 0
    BY <1>1, <1>3, <1>4, <1>5 DEF Layout, Progress, Flow
<1>7. PICK i \in 1 .. Len(nodes) : i = r + 1
  <2>1. r # Len(nodes)
      BY <1>5, <1>6, SMT
  <2>2. r + 1 \in 1 .. Len(nodes)
      BY <1>5, <2>1, SMT
  <2>3. QED
      BY <2>2
<1>8. i - 1 = r /\ i \in 0 .. Len(nodes) /\ r \in 0 .. Len(nodes) /\ Len(nodes) \in 0 .. Len(nodes)
    BY <1>5, <1>7, SMT
<1>9. PICK n \in Nodes : n = nodes[i] /\ Plain(n)
    BY <1>3, <1>5, ElementOfSeq DEF Layout, Placed
<1>10. PICK q \in Seq(U8) : /\ q = NodeBytes(n) /\ Len(q) \in Nat \ {0}
                            /\ n.count \in Nat /\ n = Node(n.type, n.data, n.count)
    BY <1>9, NodeSized
<1>11. Placed(at, left, i)
    BY <1>3 DEF Layout
<1>12. /\ at[i] = pos + Len(q) /\ at[i] <= at[Len(nodes)] /\ left[i] = due - 1 + n.count
       /\ \A k \in 1 .. Len(q) : pos + k <= Len(dst) => dst[pos + k] = q[k]
    BY <1>6, <1>8, <1>9, <1>10, <1>11 DEF Placed
<1>13. pos \in Nat /\ due \in Nat /\ at[i] \in Nat /\ left[i] \in Nat /\ at[Len(nodes)] \in Nat
    BY <1>6, <1>8
<1>14. PICK data \in Seq(U8) : /\ data = Drop(dst, pos) /\ Len(data) = Len(dst) - pos
                               /\ \A k \in 1 .. Len(dst) - pos : data[k] = dst[pos + k]
  <2>1. pos \in 0 .. Len(dst)
      BY <1>5, <1>6, <1>13, SMT
  <2>2. QED
      BY <1>5, <2>1, Dropped
<1>15. Agrees(data, q)
  <2>1. SUFFICES ASSUME NEW k \in 1 .. Len(q), k <= Len(data)
                 PROVE  data[k] = q[k]
      BY DEF Agrees
  <2>2. k \in 1 .. Len(dst) - pos /\ pos + k <= Len(dst)
      BY <1>5, <1>10, <1>13, <1>14, <2>1, SMT
  <2>3. QED
      BY <1>12, <1>14, <2>2, Zenon
<1>16. /\ Len(q) <= Len(data) => got = Decoded(n.type, n.data, n.count, Len(q))
       /\ Len(q) > Len(data) => got.code # "OK"
    BY <1>2, <1>9, <1>10, <1>14, <1>15, NodeDecoded
<1>17. Layout(at, left)'
    BY <1>1, <1>3 DEF Layout, Placed
<1>18. CASE Len(q) <= Len(data)
  <2>1. got.code = "OK" /\ got.node = n /\ got.consumed = Len(q)
      BY <1>10, <1>16, <1>18 DEF Decoded
  <2>2. /\ read' = Append(read, n) /\ pos' = at[i] /\ due' = left[i]
        /\ outcome' = IF due' = 0 THEN "OK" ELSE "none"
      BY <1>2, <1>12, <2>1
  <2>3. /\ read' \in Seq(Nodes) /\ Len(read') = i
        /\ \A j \in 1 .. r : read'[j] = read[j]
        /\ read'[i] = n
      BY <1>4, <1>5, <1>7, <1>9, <2>2, AppendProperties
  <2>4. \A j \in 1 .. i : read'[j] = nodes[j]
    <3>1. \A j \in 1 .. i : j \in 1 .. r \/ j = i
        BY <1>5, <1>7, SMT
    <3>2. \A j \in 1 .. r : read[j] = nodes[j]
        BY <1>3, <1>4 DEF Progress
    <3>3. QED
        BY <1>9, <2>3, <3>1, <3>2, Zenon
  <2>5. pos' <= Len(dst) /\ i <= Len(nodes)
      BY <1>5, <1>7, <1>12, <1>13, <1>14, <1>18, <2>2, SMT
  <2>6. Progress(at, left)'
      BY <1>1, <2>2, <2>3, <2>4, <2>5 DEF Progress
  <2>7. due' # 0 => due' > 0
      BY <1>13, <2>2, SMT
  <2>8. Flow'
      BY <1>1, <1>5, <2>2, <2>3, <2>7, Zenon DEF Flow
  <2>9. QED
      BY <1>17, <2>6, <2>8
<1>19. CASE Len(q) > Len(data)
  <2>1. due' = due /\ read' = read /\ pos' = pos /\ outcome' # "OK"
      BY <1>2, <1>16, <1>19
  <2>2. cut
    <3>1. SUFFICES ASSUME ~cut PROVE FALSE
        OBVIOUS
    <3>2. Len(dst) = at[Len(nodes)]
        BY <1>3, <3>1 DEF Layout
    <3>3. QED
        BY <1>5, <1>10, <1>12, <1>13, <1>14, <1>19, <3>2, SMT
  <2>3. Progress(at, left)'
      BY <1>1, <1>3, <2>1 DEF Progress
  <2>4. Flow'
      BY <1>1, <1>5, <1>6, <2>1, <2>2, Zenon DEF Flow
  <2>5. QED
      BY <1>17, <2>3, <2>4
<1>20. Len(data) \in Nat
    BY LenProperties
<1>21. QED
    BY <1>10, <1>18, <1>19, <1>20, SMT

LEMMA Keeps == IInv /\ [Next]_vars => IInv'
<1> SUFFICES ASSUME IInv, [Next]_vars PROVE IInv'
    OBVIOUS
<1>1. CASE EncodeNode
  <2>1. PICK n \in Nodes :
            \/ UNCHANGED <<todo, nodes, dst>> /\ code' \in {"NOT_SUPPORTED", "BUFFER"}
            \/ /\ Supported(n.type) /\ dst' = dst \o NodeBytes(n) /\ nodes' = Append(nodes, n)
               /\ todo' = todo - 1 + n.count /\ code' = IF todo' = 0 THEN "OK" ELSE "none"
      BY <1>1 DEF EncodeNode
  <2>2. kind = "list" /\ code = "none" /\ UNCHANGED <<kind, cut, decoderVars>>
      BY <1>1 DEF EncodeNode
  <2>3. CASE UNCHANGED <<todo, nodes, dst>> /\ code' \in {"NOT_SUPPORTED", "BUFFER"}
    <3>1. Expressible' = Expressible
        BY <2>2, <2>3 DEF Expressible
    <3>2. Flow => Flow'
        BY <2>2, <2>3 DEF Flow, decoderVars
    <3>3. \A at, left : Layout(at, left) /\ Progress(at, left) => Layout(at, left)' /\ Progress(at, left)'
        BY <2>2, <2>3 DEF Layout, Progress, Placed, decoderVars
    <3>4. QED
        BY <2>2, <2>3, <3>1, <3>2, <3>3 DEF IInv
  <2>4. CASE /\ Supported(n.type) /\ dst' = dst \o NodeBytes(n) /\ nodes' = Append(nodes, n)
             /\ todo' = todo - 1 + n.count /\ code' = IF todo' = 0 THEN "OK" ELSE "none"
    <3>1. CASE Expressible'
        BY <2>2, <2>4, <3>1, Encoded
    <3>2. CASE ~Expressible'
        BY <2>2, <2>4, <3>2, AppendProperties DEF IInv
    <3>3. QED
        BY <3>1, <3>2
  <2>5. QED
      BY <2>1, <2>3, <2>4
<1>2. CASE EncodeCompact
    BY <1>2 DEF EncodeCompact, IInv, Expressible
<1>3. CASE Cut
    BY <1>3, Shortened
<1>4. CASE DecodeHeader
    BY <1>4 DEF DecodeHeader, encoderVars, IInv, Expressible
<1>5. CASE DecodeNode
  <2>1. kind' = kind /\ nodes' = nodes
      BY <1>5 DEF DecodeNode, encoderVars
  <2>2. Expressible' = Expressible
      BY <2>1 DEF Expressible
  <2>3. QED
      BY <1>5, <2>1, <2>2, NextDecoded DEF IInv
<1>6. CASE UNCHANGED vars
  <2>1. /\ Expressible' = Expressible /\ Flow' = Flow /\ kind' = kind /\ nodes' = nodes
        /\ \A at, left : Layout(at, left) /\ Progress(at, left) => Layout(at, left)' /\ Progress(at, left)'
      BY <1>6 DEF vars, encoderVars, decoderVars, Expressible, Flow, Layout, Placed, Progress
  <2>2. QED
      BY <2>1 DEF IInv
<1>7. QED
    BY <1>1, <1>2, <1>3, <1>4, <1>5, <1>6 DEF Next

\* What a list of values is encoded to is read back as that list, node by node
\* and to the last byte, for every list of values the library can encode.
THEOREM ListsReadBack == Spec => []ReadBack
<1>1. IInv => ReadBack
    BY Implied
<1>2. QED
    BY Begins, Keeps, <1>1, PTL DEF Spec

\* A list whose end is missing never passes for a whole one, however much of it
\* is missing.
THEOREM CutsNoticed == Spec => []CutNoticed
<1>1. IInv => CutNoticed
    BY Implied
<1>2. QED
    BY Begins, Keeps, <1>1, PTL DEF Spec

------------------------------------------------------------------------------
(* Types. *)

LEMMA NodeTyped ==
    ASSUME NEW n \in Nodes, Supported(n.type)
    PROVE  NodeBytes(n) \in Seq(U8)
<1>1. dlms_value_t(n)
    BY AxdrAssumption
<1>2. CASE Plain(n)
    BY <1>2, NodeSized
<1>3. CASE ~Plain(n)
  <2>1. n.type = COMPACT_ARRAY /\ n.data = <<>>
      BY <1>1, <1>3 DEF Plain
  <2>2. NodeBytes(n) = <<n.type>> \o <<>>
      BY <2>1, Types DEF NodeBytes
  <2>3. <<n.type>> \in Seq(U8)
      BY <1>1 DEF dlms_value_t
  <2>4. QED
      BY <2>2, <2>3, EmptySeq, ConcatProperties
<1>4. QED
    BY <1>2, <1>3

\* f has the first sequences of s, one behind the other.
FlatTo(n, s, f) == f = [i \in 1 .. n |-> IF i = 1 THEN s[i] ELSE f[i - 1] \o s[i]]

LEMMA FlatExists ==
    ASSUME NEW s
    PROVE  \A n \in Nat : \E f : FlatTo(n, s, f)
<1> DEFINE S == {n \in Nat : \E f : FlatTo(n, s, f)}
<1>1. 0 \in S
  <2>1. FlatTo(0, s, <<>>)
      BY DEF FlatTo
  <2>2. QED
      BY <2>1
<1>2. ASSUME NEW n \in S PROVE n + 1 \in S
  <2>1. PICK f : FlatTo(n, s, f)
      OBVIOUS
  <2> DEFINE g == [i \in 1 .. n + 1 |->
                      IF i = n + 1 THEN (IF i = 1 THEN s[i] ELSE f[i - 1] \o s[i]) ELSE f[i]]
  <2>2. \A i \in 1 .. n : g[i] = f[i]
      OBVIOUS
  <2>3. ASSUME NEW i \in 1 .. n + 1
        PROVE  g[i] = IF i = 1 THEN s[i] ELSE g[i - 1] \o s[i]
    <3>1. i = 1 \/ i - 1 \in 1 .. n
        OBVIOUS
    <3>2. CASE i = n + 1
        BY <2>2, <3>1, <3>2
    <3>3. CASE i \in 1 .. n
      <4>1. f[i] = IF i = 1 THEN s[i] ELSE f[i - 1] \o s[i]
          BY <2>1, <3>3 DEF FlatTo
      <4>2. QED
          BY <2>2, <3>1, <3>3, <4>1
    <3>4. QED
        BY <3>2, <3>3
  <2>4. FlatTo(n + 1, s, g)
      BY <2>3 DEF FlatTo
  <2>5. QED
      BY <2>4
<1>3. S = Nat
  <2> HIDE DEF S
  <2>1. S \subseteq Nat
      BY DEF S
  <2>2. QED
      BY <1>1, <1>2, <2>1, AllNumbers
<1>4. QED
    BY <1>3

\* Sequences of bytes are a sequence of bytes, one behind the other.
LEMMA FlattenedTyped ==
    ASSUME NEW n \in Nat, NEW s \in [1 .. n -> Seq(U8)]
    PROVE  FlattenSeq(s) \in Seq(U8)
<1>1. s \in Seq(Seq(U8)) /\ Len(s) = n
    BY LenProperties
<1>2. CASE n = 0
    BY <1>1, <1>2, EmptySeq DEF FlattenSeq
<1>3. CASE n # 0
  <2>1. \E f : FlatTo(Len(s), s, f)
      BY <1>1, FlatExists
  <2>2. PICK f : FlatTo(Len(s), s, f) /\ FlattenSeq(s) = f[Len(s)]
      BY <1>1, <1>3, <2>1 DEF FlatTo, FlattenSeq
  <2>3. \A i \in 1 .. n : f[i] = IF i = 1 THEN s[i] ELSE f[i - 1] \o s[i]
      BY <1>1, <2>2 DEF FlatTo
  <2> DEFINE S == {k \in Nat : k + 1 <= n => f[k + 1] \in Seq(U8)}
  <2>4. 0 \in S
      BY <1>3, <2>3
  <2>5. ASSUME NEW k \in S PROVE k + 1 \in S
    <3>1. SUFFICES ASSUME (k + 1) + 1 <= n PROVE f[(k + 1) + 1] \in Seq(U8)
        OBVIOUS
    <3>2. PICK i \in 1 .. n : i = (k + 1) + 1 /\ i # 1 /\ i - 1 = k + 1
        BY <3>1
    <3>3. f[i - 1] \in Seq(U8) /\ s[i] \in Seq(U8)
        BY <3>1, <3>2
    <3>4. f[i - 1] \o s[i] \in Seq(U8)
        BY <3>3, ConcatProperties
    <3>5. QED
        BY <2>3, <3>2, <3>4
  <2>6. S = Nat
    <3> HIDE DEF S
    <3>1. S \subseteq Nat
        BY DEF S
    <3>2. QED
        BY <2>4, <2>5, <3>1, AllNumbers
  <2>7. PICK k \in Nat : k + 1 = n
    <3>1. n - 1 \in Nat /\ (n - 1) + 1 = n
        BY <1>3
    <3>2. QED
        BY <3>1
  <2>8. k \in S
      BY <2>6
  <2>9. f[k + 1] \in Seq(U8)
      BY <2>7, <2>8
  <2>10. FlattenSeq(s) = f[k + 1]
      BY <1>1, <2>2, <2>7
  <2>11. QED
      BY <2>9, <2>10
<1>4. QED
    BY <1>2, <1>3

LEMMA CompactTyped ==
    ASSUME NEW a \in CompactArrays, NEW n \in 0 .. Len(a.items),
           \A i \in 1 .. n : Supported(a.items[i].type)
    PROVE  compact_array_bytes(a, n) \in Seq(U8)
<1> DEFINE items == FlattenSeq([i \in 1 .. n |-> NodeBytes(a.items[i])])
           l == encode_length_prefix(Len(a.types))
           c == encode_length_prefix(Len(a.items))
<1>1. /\ a.items \in Seq(Nodes) /\ a.types \in Seq(U8)
      /\ Len(a.types) \in U16 /\ Len(a.items) \in U16 /\ Len(a.items) \in Nat
  <2>1. /\ a.items \in Seq(Nodes) /\ Len(a.items) \in U16
        /\ a.types \in Seq(U8) /\ Len(a.types) \in U8
      BY AxdrAssumption
  <2>2. \A x \in U8 : x \in U16
      BY InU16 DEF U8
  <2>3. Len(a.items) \in Nat
      BY <2>1, LenProperties
  <2>4. QED
      BY <2>1, <2>2, <2>3
<1>2. \A i \in 1 .. n : NodeBytes(a.items[i]) \in Seq(U8)
  <2>1. \A i \in 1 .. n : a.items[i] \in Nodes
      BY <1>1, ElementOfSeq
  <2>2. QED
      BY <2>1, NodeTyped
<1>3. items \in Seq(U8)
  <2>1. n \in Nat /\ [i \in 1 .. n |-> NodeBytes(a.items[i])] \in [1 .. n -> Seq(U8)]
      BY <1>1, <1>2
  <2>2. QED
      BY <2>1, FlattenedTyped
<1>4. l \in Seq(U8) /\ c \in Seq(U8)
    BY <1>1, LengthBytes
<1>5. <<COMPACT_ARRAY, 0>> \in Seq(U8) /\ <<1>> \in Seq(U8)
    BY DEF COMPACT_ARRAY, U8
<1>6. compact_array_bytes(a, n) =
          <<COMPACT_ARRAY, 0>> \o l \o a.types \o <<1>> \o c \o items
    BY DEF compact_array_bytes
<1> HIDE DEF items, l, c
<1>7. \A u, v \in Seq(U8) : u \o v \in Seq(U8)
    BY ConcatProperties
<1>8. QED
    BY <1>1, <1>3, <1>4, <1>5, <1>6, <1>7

\* What the decoders of lengths return, whatever the data.
LEMMA LengthTyped ==
    ASSUME NEW data \in Seq(U8)
    PROVE  LET l == decode_length_prefix(data)
           IN  /\ l.code \in Codes
               /\ l.code = "OK" => l.len \in Nat /\ l.consumed \in 1 .. Len(data)
<1>1. Len(data) \in Nat /\ (data = <<>> <=> Len(data) = 0)
    BY LenProperties, EmptySeq
<1>2. \A i \in 1 .. Len(data) : data[i] \in Nat /\ data[i] <= 255
  <2>1. \A i \in 1 .. Len(data) : data[i] \in U8
      BY ElementOfSeq
  <2>2. \A x \in U8 : x \in Nat /\ x <= 255
      BY DEF U8
  <2>3. QED
      BY <2>1, <2>2
<1>3. CASE data = <<>>
    BY <1>3 DEF decode_length_prefix, Error, Codes
<1>4. CASE data # <<>>
  <2>1. data[1] \in Nat
      BY <1>1, <1>2, <1>4
  <2>2. Len(data) >= 2 => data[2] \in Nat
      BY <1>1, <1>2
  <2>3. Len(data) >= 3 => Word(data[2], data[3]) \in Nat
      BY <1>1, <1>2 DEF Word
  <2>4. CASE data[1] < 128
      BY <1>1, <1>4, <2>1, <2>4 DEF decode_length_prefix, Codes
  <2>5. CASE ~(data[1] < 128) /\ data[1] = 130 /\ Len(data) >= 2
      BY <1>1, <1>4, <2>2, <2>5 DEF decode_length_prefix, Codes
  <2>6. CASE ~(data[1] < 128) /\ ~(data[1] = 130 /\ Len(data) >= 2) /\ data[1] = 132 /\ Len(data) >= 3
      BY <1>1, <1>4, <2>3, <2>6 DEF decode_length_prefix, Codes
  <2>7. CASE /\ ~(data[1] < 128) /\ ~(data[1] = 130 /\ Len(data) >= 2)
             /\ ~(data[1] = 132 /\ Len(data) >= 3)
      BY <1>4, <2>7 DEF decode_length_prefix, Error, Codes
  <2>8. QED
      BY <2>4, <2>5, <2>6, <2>7
<1>5. QED
    BY <1>3, <1>4

LEMMA TaggedTyped ==
    ASSUME NEW tag, NEW data \in Seq(U8)
    PROVE  LET l == TaggedLength(tag, data)
           IN  /\ l.code \in Codes
               /\ l.code = "OK" => l.len \in Nat /\ l.consumed \in Nat /\ 1 + l.consumed <= Len(data)
<1>1. Len(data) \in Nat /\ (data = <<>> <=> Len(data) = 0)
    BY LenProperties, EmptySeq
<1>2. CASE ~StartsWith(data, tag)
    BY <1>2 DEF TaggedLength, Error, Codes
<1>3. CASE StartsWith(data, tag)
  <2>1. 1 \in 0 .. Len(data)
      BY <1>1, <1>3 DEF StartsWith
  <2>2. Drop(data, 1) \in Seq(U8) /\ Len(Drop(data, 1)) = Len(data) - 1
      BY <2>1, Dropped
  <2>3. TaggedLength(tag, data) = decode_length_prefix(Drop(data, 1))
      BY <1>3 DEF TaggedLength
  <2>4. QED
      BY <1>1, <2>2, <2>3, LengthTyped
<1>4. QED
    BY <1>2, <1>3

LEMMA HeaderTyped ==
    ASSUME NEW data \in Seq(U8)
    PROVE  LET h == compact_array_header(data)
           IN  h.code \in Codes /\ (h.code = "OK" => h.count \in Nat /\ h.at \in 0 .. Len(data))
<1> DEFINE total == TaggedLength(COMPACT_ARRAY, data)
           desc == Drop(data, 1 + total.consumed)
           types == TaggedLength(0, desc)
           content == Drop(desc, 1 + types.consumed + types.len)
           items == TaggedLength(1, content)
           h == compact_array_header(data)
<1>1. Len(data) \in Nat
    BY LenProperties
<1>2. /\ total.code \in Codes
      /\ total.code = "OK" => total.consumed \in Nat /\ 1 + total.consumed <= Len(data)
    BY TaggedTyped
<1>3. CASE total.code # "OK"
  <2>1. h = total
      BY <1>3 DEF compact_array_header
  <2>2. QED
      BY <1>2, <1>3, <2>1
<1>4. CASE total.code = "OK"
  <2>1. desc \in Seq(U8) /\ Len(desc) = Len(data) - (1 + total.consumed)
    <3> HIDE DEF total
    <3>1. 1 + total.consumed \in 0 .. Len(data)
        BY <1>1, <1>2, <1>4
    <3>2. QED
        BY <3>1, Dropped
  <2> HIDE DEF total, desc
  <2>2. /\ types.code \in Codes
        /\ types.code = "OK" =>
              types.len \in Nat /\ types.consumed \in Nat /\ 1 + types.consumed <= Len(desc)
      BY <2>1, TaggedTyped
  <2>3. CASE types.code # "OK"
    <3>1. h = types
        BY <1>4, <2>3 DEF compact_array_header, total, desc
    <3>2. QED
        BY <2>2, <2>3, <3>1
  <2>4. CASE types.code = "OK" /\ Len(desc) < 1 + types.consumed + types.len
    <3>1. h = Error("BUFFER")
        BY <1>4, <2>4 DEF compact_array_header, total, desc
    <3>2. QED
        BY <3>1 DEF Error, Codes
  <2>5. CASE types.code = "OK" /\ ~(Len(desc) < 1 + types.consumed + types.len)
    <3>1. Len(desc) \in Nat
        BY <2>1, LenProperties
    <3>2. content \in Seq(U8) /\ Len(content) = Len(desc) - (1 + types.consumed + types.len)
      <4> HIDE DEF types
      <4>1. 1 + types.consumed + types.len \in 0 .. Len(desc)
          BY <2>2, <2>5, <3>1
      <4>2. QED
          BY <2>1, <4>1, Dropped
    <3> HIDE DEF types, content
    <3>3. /\ items.code \in Codes
          /\ items.code = "OK" =>
                items.len \in Nat /\ items.consumed \in Nat /\ 1 + items.consumed <= Len(content)
        BY <3>2, TaggedTyped
    <3>4. h = IF items.code # "OK" THEN items
              ELSE [code |-> "OK", count |-> items.len,
                    at |-> Len(data) - Len(content) + 1 + items.consumed]
        BY <1>4, <2>5 DEF compact_array_header, total, desc, types, content
    <3> HIDE DEF items, h
    <3>5. Len(content) \in Nat /\ Len(content) <= Len(data)
        BY <1>1, <1>2, <1>4, <2>1, <2>2, <2>5, <3>1, <3>2, SMTT(20)
    <3>6. CASE items.code = "OK"
      <4>1. /\ h.code = "OK" /\ h.count = items.len
            /\ h.at = Len(data) - Len(content) + 1 + items.consumed
          BY <3>4, <3>6
      <4>2. QED
          BY <1>1, <3>3, <3>5, <3>6, <4>1 DEF Codes, h
    <3>7. CASE items.code # "OK"
        BY <3>3, <3>4, <3>7 DEF h
    <3>8. QED
        BY <3>6, <3>7
  <2>6. QED
      BY <2>3, <2>4, <2>5
<1>5. QED
    BY <1>3, <1>4

LEMMA Widths == \A t \in FixedTypes : Width(t) \in 1 .. 12
    BY DEF FixedTypes, Width, DATETIME

\* A node that was decoded has bytes of the data, and a number of items.
LEMMA DecodedTyped ==
    ASSUME NEW data \in Seq(U8)
    PROVE  LET got == axdr_decode(data)
           IN  /\ got.code \in Codes
               /\ got.code = "OK" => got.node.count \in Nat /\ got.consumed \in 1 .. Len(data)
<1> DEFINE got == axdr_decode(data)
           type == data[1]
           rest == Drop(data, 1)
           l == decode_length_prefix(rest)
<1>1. Len(data) \in Nat /\ (data = <<>> <=> Len(data) = 0)
    BY LenProperties, EmptySeq
<1>2. CASE data = <<>>
    BY <1>2 DEF axdr_decode, Error, Codes
<1>3. CASE data # <<>>
  <2>1. Len(data) >= 1 /\ rest \in Seq(U8) /\ Len(rest) = Len(data) - 1
      BY <1>1, <1>3, Dropped
  <2>2. l.code \in Codes /\ (l.code = "OK" => l.len \in Nat /\ l.consumed \in 1 .. Len(rest))
    <3> HIDE DEF rest
    <3>1. QED
        BY <2>1, LengthTyped
  <2>3. \A t, d, c, n : /\ Decoded(t, d, c, n).code = "OK" /\ Decoded(t, d, c, n).node.count = c
                        /\ Decoded(t, d, c, n).consumed = n
      BY DEF Decoded, Node
  <2>4. "OK" \in Codes /\ \A c \in {"BUFFER", "NOT_SUPPORTED"} : Error(c).code \in Codes \ {"OK"}
      BY DEF Codes, Error
  <2>5. CASE type \in Empty
    <3>1. got = Decoded(type, <<>>, 0, 1)
        BY <1>3, <2>5, Types DEF axdr_decode
    <3>2. QED
        BY <1>1, <2>1, <2>3, <2>4, <3>1
  <2>6. CASE type \in FixedTypes
    <3>1. got = IF Len(rest) < Width(type) THEN Error("BUFFER")
                ELSE Decoded(type, Fields(type, SubSeq(rest, 1, Width(type))), 0, 1 + Width(type))
        BY <1>3, <2>6, Types DEF axdr_decode
    <3>2. Width(type) \in 1 .. 12
        BY <2>6, Widths
    <3> HIDE DEF got, rest, type
    <3>3. CASE Len(rest) < Width(type)
        BY <2>4, <3>1, <3>3 DEF got
    <3>4. CASE ~(Len(rest) < Width(type))
      <4>1. got.code = "OK" /\ got.node.count = 0 /\ got.consumed = 1 + Width(type)
          BY <2>3, <3>1, <3>4
      <4>2. QED
          BY <1>1, <2>1, <2>4, <3>2, <3>4, <4>1 DEF got
    <3>5. QED
        BY <3>3, <3>4
  <2>7. CASE type \in Strings \cup {BCD, COMPACT_ARRAY}
    <3>1. got = StringNode(type, rest)
        BY <1>3, <2>7, Types DEF axdr_decode
    <3>2. got = IF l.code # "OK" THEN l
                ELSE IF l.consumed + l.len > Len(rest) THEN Error("BUFFER")
                ELSE Decoded(type, SubSeq(rest, l.consumed + 1, l.consumed + l.len), 0,
                             1 + l.consumed + l.len)
        BY <3>1 DEF StringNode
    <3> HIDE DEF got, rest, l, type
    <3>3. CASE l.code # "OK"
        BY <2>2, <3>2, <3>3 DEF got
    <3>4. CASE l.code = "OK" /\ l.consumed + l.len > Len(rest)
        BY <2>4, <3>2, <3>4 DEF got
    <3>5. CASE l.code = "OK" /\ ~(l.consumed + l.len > Len(rest))
      <4>1. got.code = "OK" /\ got.node.count = 0 /\ got.consumed = 1 + l.consumed + l.len
          BY <2>3, <3>2, <3>5
      <4>2. QED
          BY <1>1, <2>1, <2>2, <2>4, <3>5, <4>1 DEF got
    <3>6. QED
        BY <3>3, <3>4, <3>5
  <2>8. CASE type \in Containers
    <3>1. got = ContainerNode(type, rest)
        BY <1>3, <2>8, Types DEF axdr_decode
    <3>2. got = IF l.code # "OK" THEN l ELSE Decoded(type, <<>>, l.len, 1 + l.consumed)
        BY <3>1 DEF ContainerNode
    <3> HIDE DEF got, rest, l, type
    <3>3. CASE l.code # "OK"
        BY <2>2, <3>2, <3>3 DEF got
    <3>4. CASE l.code = "OK"
      <4>1. got.code = "OK" /\ got.node.count = l.len /\ got.consumed = 1 + l.consumed
          BY <2>3, <3>2, <3>4
      <4>2. QED
          BY <1>1, <2>1, <2>2, <2>4, <3>4, <4>1 DEF got
    <3>5. QED
        BY <3>3, <3>4
  <2>9. CASE type \notin Empty \cup FixedTypes \cup Strings \cup {BCD, COMPACT_ARRAY} \cup Containers
    <3>1. got = Error("NOT_SUPPORTED")
        BY <1>3, <2>9 DEF axdr_decode
    <3>2. QED
        BY <2>4, <3>1
  <2>10. QED
      BY <2>5, <2>6, <2>7, <2>8, <2>9
<1>4. QED
    BY <1>2, <1>3

\* A call that has not ended has nodes before it, and a decoder begins at the front.
AxdrInv ==
    /\ TypeOK
    /\ code = "none" => todo # 0 /\ pos = 0
    /\ outcome = "none" => due # 0

LEMMA AxdrStep == AxdrInv /\ [Next]_vars => AxdrInv'
<1> SUFFICES ASSUME AxdrInv, [Next]_vars PROVE AxdrInv'
    OBVIOUS
<1>1. Len(dst) \in Nat /\ DstSize \in Nat /\ dst \in Seq(U8)
    BY AxdrAssumption, LenProperties DEF AxdrInv, TypeOK
<1>2. CASE EncodeNode
  <2>1. UNCHANGED <<kind, cut, due, read, pos, outcome>> /\ code = "none" /\ pos = 0
      BY <1>2 DEF EncodeNode, decoderVars, AxdrInv
  <2>2. CASE code' \in {"NOT_SUPPORTED", "BUFFER"} /\ UNCHANGED <<todo, nodes, dst>>
      BY <2>1, <2>2 DEF AxdrInv, TypeOK, Codes
  <2>3. ASSUME NEW n \in Nodes, Supported(n.type), Fits(n, DstSize - Len(dst)),
               dst' = dst \o NodeBytes(n), nodes' = Append(nodes, n),
               todo' = todo - 1 + n.count, code' = IF todo' = 0 THEN "OK" ELSE "none"
        PROVE  AxdrInv'
    <3>1. NodeBytes(n) \in Seq(U8) /\ Len(NodeBytes(n)) \in Nat
        BY <2>3, NodeTyped, LenProperties
    <3>2. dst' \in Seq(U8) /\ Len(dst') = Len(dst) + Len(NodeBytes(n))
        BY <1>1, <2>3, <3>1, ConcatProperties
    <3>3. Len(dst') <= DstSize /\ Len(dst') \in Nat
        BY <1>1, <2>3, <3>1, <3>2 DEF Fits
    <3>4. nodes' \in Seq(Nodes)
        BY <2>3, AppendProperties DEF AxdrInv, TypeOK
    <3>5. n.count \in Nat
      <4>1. dlms_value_t(n)
          BY AxdrAssumption
      <4>2. n \in [type : U8, data : Seq(U8), count : U16]
          BY <4>1 DEF dlms_value_t
      <4>3. n.count \in U16
          BY <4>2
      <4>4. \A x \in U16 : x \in Nat
          BY InU16
      <4>5. QED
          BY <4>3, <4>4
    <3>6. todo \in Nat /\ todo # 0
        BY <2>1 DEF AxdrInv, TypeOK
    <3>7. todo' \in Nat
        BY <2>3, <3>5, <3>6
    <3>8. QED
        BY <2>1, <2>3, <3>2, <3>3, <3>4, <3>7 DEF AxdrInv, TypeOK, Codes
  <2>4. QED
      BY <1>2, <2>2, <2>3 DEF EncodeNode
<1>3. CASE EncodeCompact
  <2>1. /\ UNCHANGED <<cut, due, read, pos, outcome>> /\ pos = 0
        /\ kind' = "compact" /\ todo' = 0
      BY <1>3 DEF EncodeCompact, decoderVars, AxdrInv
  <2>2. CASE code' \in {"NOT_SUPPORTED", "BUFFER"} /\ UNCHANGED <<nodes, dst>>
      BY <2>1, <2>2 DEF AxdrInv, TypeOK, Codes
  <2>3. ASSUME NEW a \in CompactArrays, NEW n \in 0 .. Len(a.items),
               \A i \in 1 .. n : Supported(a.items[i].type),
               Len(compact_array_bytes(a, n)) <= DstSize,
               code' = "OK", nodes' = a.items, dst' = compact_array_bytes(a, n)
        PROVE  AxdrInv'
    <3>1. dst' \in Seq(U8) /\ Len(dst') \in Nat /\ Len(dst') <= DstSize
        BY <2>3, CompactTyped, LenProperties
    <3>2. nodes' \in Seq(Nodes)
        BY <2>3, AxdrAssumption
    <3>3. QED
        BY <2>1, <2>3, <3>1, <3>2 DEF AxdrInv, TypeOK, Codes
  <2>4. QED
      BY <1>3, <2>2, <2>3 DEF EncodeCompact
<1>4. CASE Cut
  <2>1. /\ UNCHANGED <<kind, todo, nodes, code, due, read, pos, outcome>> /\ cut' = TRUE /\ pos = 0
      BY <1>4 DEF Cut, decoderVars
  <2>2. PICK n \in Cuts : n <= Len(dst) /\ dst' = SubSeq(dst, 1, Len(dst) - n)
      BY <1>4 DEF Cut
  <2>3. n \in Nat /\ 1 \in 1 .. Len(dst) + 1 /\ Len(dst) - n \in 1 - 1 .. Len(dst)
      BY <1>1, <2>2, AxdrAssumption
  <2>4. dst' \in Seq(U8) /\ Len(dst') = (Len(dst) - n) - 1 + 1
      BY <1>1, <2>2, <2>3, Part
  <2>5. Len(dst') \in Nat /\ Len(dst') <= Len(dst)
      BY <1>1, <2>2, <2>3, <2>4
  <2>6. QED
      BY <1>1, <2>1, <2>4, <2>5 DEF AxdrInv, TypeOK
<1>5. CASE DecodeHeader
  <2> DEFINE h == compact_array_header(dst)
  <2>1. UNCHANGED <<kind, todo, nodes, dst, code, cut>> /\ code = "OK"
      BY <1>5 DEF DecodeHeader, encoderVars
  <2>2. h.code \in Codes /\ (h.code = "OK" => h.count \in Nat /\ h.at \in 0 .. Len(dst))
      BY <1>1, HeaderTyped
  <2>3. IF h.code # "OK" THEN outcome' = h.code /\ UNCHANGED <<due, pos>>
        ELSE due' = h.count /\ pos' = h.at /\ outcome' = IF h.count = 0 THEN "OK" ELSE "none"
      BY <1>5 DEF DecodeHeader
  <2> HIDE DEF h
  <2>4. "none" \notin Codes /\ "OK" \in Codes
      BY DEF Codes
  <2>5. QED
      BY <1>1, <2>1, <2>2, <2>3, <2>4 DEF AxdrInv, TypeOK
<1>6. CASE DecodeNode
  <2> DEFINE data == Drop(dst, pos)
             got == axdr_decode(data)
  <2>1. UNCHANGED <<kind, todo, nodes, dst, code, cut>> /\ code = "OK" /\ outcome = "none"
      BY <1>6 DEF DecodeNode, encoderVars
  <2>2. pos \in 0 .. Len(dst) /\ due \in Nat /\ due # 0
      BY <2>1 DEF AxdrInv, TypeOK
  <2>3. data \in Seq(U8) /\ Len(data) = Len(dst) - pos
      BY <1>1, <2>2, Dropped
  <2>4. IF got.code # "OK" THEN outcome' = got.code /\ UNCHANGED <<due, pos>>
        ELSE /\ pos' = pos + got.consumed
             /\ due' = due - 1 + (IF kind = "list" THEN got.node.count ELSE 0)
             /\ outcome' = IF due' = 0 THEN "OK" ELSE "none"
      BY <1>6 DEF DecodeNode
  <2>5. /\ got.code \in Codes
        /\ got.code = "OK" => got.node.count \in Nat /\ got.consumed \in 1 .. Len(data)
    <3> HIDE DEF data
    <3>1. QED
        BY <2>3, DecodedTyped
  <2> HIDE DEF got, data
  <2>6. "none" \notin Codes /\ "OK" \in Codes
      BY DEF Codes
  <2>7. CASE got.code # "OK"
      BY <2>1, <2>4, <2>5, <2>6, <2>7 DEF AxdrInv, TypeOK
  <2>8. CASE got.code = "OK"
    <3>1. pos' \in 0 .. Len(dst)
      <4>1. PICK c : c = got.consumed
          OBVIOUS
      <4>2. c \in 1 .. Len(dst) - pos /\ pos' = pos + c
          BY <2>3, <2>4, <2>5, <2>8, <4>1
      <4>3. QED
          BY <1>1, <2>2, <4>2
    <3>2. due' \in Nat
        BY <2>2, <2>4, <2>5, <2>8
    <3>3. QED
        BY <2>1, <2>4, <2>6, <2>8, <3>1, <3>2 DEF AxdrInv, TypeOK
  <2>9. QED
      BY <2>7, <2>8
<1>7. CASE UNCHANGED vars
    BY <1>7 DEF vars, encoderVars, decoderVars, AxdrInv, TypeOK
<1>8. QED
    BY <1>2, <1>3, <1>4, <1>5, <1>6, <1>7 DEF Next

\* The encoder never writes beyond its buffer, the decoder never reads beyond its
\* data, whatever is in them, and no call is left with nodes to come.
THEOREM AxdrTypeCorrect == Spec => []TypeOK
<1>1. Init => AxdrInv
  <2>1. SUFFICES ASSUME Init PROVE AxdrInv
      OBVIOUS
  <2>2. todo \in Nat /\ todo # 0 /\ DstSize \in Nat
      BY <2>1, AxdrAssumption DEF Init
  <2>3. <<>> \in Seq(U8) /\ <<>> \in Seq(Nodes) /\ Len(<<>>) = 0
      BY EmptySeq
  <2>4. Len(dst) = 0 /\ pos = 0 /\ due = todo /\ dst = <<>> /\ nodes = <<>>
      BY <2>1, <2>3 DEF Init
  <2>5. /\ kind \in {"list", "compact"} /\ code \in Codes \cup {"none"} /\ cut \in BOOLEAN
        /\ outcome \in Codes \cup {"none"}
      BY <2>1 DEF Init
  <2>6. Len(dst) <= DstSize /\ pos \in 0 .. Len(dst)
      BY <2>2, <2>4
  <2>7. TypeOK
      BY <2>2, <2>3, <2>4, <2>5, <2>6 DEF TypeOK
  <2>8. QED
      BY <2>2, <2>4, <2>7 DEF AxdrInv
<1>2. AxdrInv /\ [Next]_vars => AxdrInv'
    BY AxdrStep
<1>3. AxdrInv => TypeOK
    BY DEF AxdrInv
<1>4. QED
    BY <1>1, <1>2, <1>3, PTL DEF Spec

==============================================================================
