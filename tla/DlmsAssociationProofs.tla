------------------------- MODULE DlmsAssociationProofs -------------------------
(***************************************************************************)
(* The association APDUs arrive as they were sent: proofs about DlmsAsn1   *)
(* and DlmsAssociation, for any password, any AARE that the encoding can   *)
(* express and any first segment of one.                                   *)
(***************************************************************************)
EXTENDS DlmsAssociation, HdlcCodecProofs

------------------------------------------------------------------------------
(* Parts of a sequence that was put together. *)

\* The part behind the first m bytes and before those behind the n-th.
LEMMA Between ==
    ASSUME NEW s \in Seq(U8), NEW m \in Nat, NEW n \in Nat, m <= n, n <= Len(s),
           NEW t \in Seq(U8), Len(t) = n - m, \A i \in 1 .. n - m : t[i] = s[m + i]
    PROVE  SubSeq(s, m + 1, n) = t
<1>1. PICK a \in Int : a = m + 1
    OBVIOUS
<1>2. \A i \in a .. n : s[i] \in U8
  <2>1. PICK l \in Nat : l = Len(s)
      BY LenProperties
  <2>2. \A i \in a .. n : i \in 1 .. l
      BY <1>1, <2>1
  <2>3. QED
      BY <2>1, <2>2, ElementOfSeq
<1>3. PICK u : u = SubSeq(s, a, n)
    OBVIOUS
<1>4. /\ u \in Seq(U8) /\ Len(u) = IF a <= n THEN n - a + 1 ELSE 0
      /\ \A i \in 1 .. n - a + 1 : u[i] = s[a + i - 1]
    BY <1>2, <1>3, SubSeqProperties
<1>5. PICK d \in Nat : d = n - m /\ n - a + 1 = d
    BY <1>1
<1>6. Len(u) = d
    BY <1>1, <1>4, <1>5
<1>7. \A i \in 1 .. d : u[i] = t[i]
  <2>1. \A i \in 1 .. d : a + i - 1 = m + i
      BY <1>1
  <2>2. QED
      BY <1>4, <1>5, <2>1
<1>8. u = t
    BY <1>4, <1>5, <1>6, <1>7, SeqEqual
<1>9. QED
    BY <1>1, <1>3, <1>8

\* x is the m bytes of s and then the n bytes of r.
Glued(x, s, m, r, n) ==
    /\ Sized(s, m) /\ Sized(r, n) /\ Sized(x, m + n)
    /\ x = s \o r

LEMMA Glue ==
    ASSUME NEW s, NEW m, NEW r, NEW n, Sized(s, m), Sized(r, n)
    PROVE  Glued(s \o r, s, m, r, n)
BY Concat DEF Glued

\* Either part is found where it was put.
LEMMA GluedParts ==
    ASSUME NEW x, NEW s, NEW m, NEW r, NEW n, Glued(x, s, m, r, n)
    PROVE  /\ \A i \in 1 .. m : x[i] = s[i]
           /\ \A i \in 1 .. n : x[m + i] = r[i]
           /\ SubSeq(x, 1, m) = s
           /\ Drop(x, m) = r
<1>1. /\ Sized(s, m) /\ Sized(r, n) /\ x = s \o r /\ Sized(x, m + n)
    BY DEF Glued
<1>2. Joins(x, s, m, r, n)
    BY <1>1, Concat
<1>3. m \in Nat /\ n \in Nat
    BY <1>1 DEF Sized
<1>4. PICK k \in Nat : k = m + n
    BY <1>3
<1>5. /\ x \in Seq(U8) /\ Len(x) = k
      /\ \A i \in 1 .. m : x[i] = s[i]
      /\ \A i \in 1 .. n : x[m + i] = r[i]
    BY <1>2, <1>4 DEF Joins
<1>6. SubSeq(x, 1, m) = s
  <2>1. PICK z \in Nat : z = 0 /\ z + 1 = 1 /\ m - z = m /\ z <= m /\ m <= k
      BY <1>3, <1>4
  <2>2. \A i \in 1 .. m - z : s[i] = x[z + i]
    <3>1. \A i \in 1 .. m : z + i = i
        BY <2>1
    <3>2. QED
        BY <1>5, <2>1, <3>1
  <2>3. SubSeq(x, z + 1, m) = s
      BY <1>1, <1>3, <1>5, <2>1, <2>2, Between DEF Sized
  <2>4. QED
      BY <2>1, <2>3
<1>7. SubSeq(x, m + 1, k) = r
  <2>1. k - m = n /\ m <= k
      BY <1>3, <1>4
  <2>2. QED
      BY <1>1, <1>3, <1>5, <2>1, Between DEF Sized
<1>8. QED
    BY <1>5, <1>6, <1>7 DEF Drop

\* One by one.
LEMMA GluedFirst ==
    ASSUME NEW x, NEW s, NEW m, NEW r, NEW n, Glued(x, s, m, r, n)
    PROVE  \A i \in 1 .. m : x[i] = s[i]
BY GluedParts

LEMMA GluedNext ==
    ASSUME NEW x, NEW s, NEW m, NEW r, NEW n, Glued(x, s, m, r, n)
    PROVE  \A i \in 1 .. n : x[m + i] = r[i]
BY GluedParts

LEMMA GluedFront ==
    ASSUME NEW x, NEW s, NEW m, NEW r, NEW n, Glued(x, s, m, r, n)
    PROVE  SubSeq(x, 1, m) = s
BY GluedParts

LEMMA GluedRest ==
    ASSUME NEW x, NEW s, NEW m, NEW r, NEW n, Glued(x, s, m, r, n)
    PROVE  Drop(x, m) = r
BY GluedParts

\* What comes behind the first of two parts of the first part.
LEMMA GluedTwice ==
    ASSUME NEW x, NEW st, NEW k, NEW u, NEW n, Glued(x, st, k, u, n),
           NEW s, NEW l, NEW t, NEW m, Glued(st, s, l, t, m)
    PROVE  Glued(x, s, l, t \o u, m + n) /\ Glued(t \o u, t, m, u, n)
<1>1. /\ Sized(u, n) /\ x = st \o u
      /\ Sized(s, l) /\ Sized(t, m) /\ st = s \o t
    BY DEF Glued
<1>2. s \in Seq(U8) /\ t \in Seq(U8) /\ u \in Seq(U8)
    BY <1>1 DEF Sized
<1>3. (s \o t) \o u = s \o (t \o u)
    BY <1>2, ConcatAssociative
<1>4. Glued(t \o u, t, m, u, n)
    BY <1>1, Glue
<1>5. Sized(t \o u, m + n)
    BY <1>4 DEF Glued
<1>6. Glued(s \o (t \o u), s, l, t \o u, m + n)
    BY <1>1, <1>5, Glue
<1>7. QED
    BY <1>1, <1>3, <1>4, <1>6

------------------------------------------------------------------------------
(* BER. *)

\* s begins as e does, if not with the whole of it.
Starts(s, e) == \A i \in 1 .. Len(s) : i <= Len(e) => s[i] = e[i]

LengthSteps == [val \in Nat |-> [b \in U8 |-> Word(val, b)]]

LEMMA LengthTyped == Steps(LengthSteps, Nat)
<1>1. ASSUME NEW val \in Nat, NEW b \in U8 PROVE Word(val, b) \in Nat
    BY DEF Word, U8
<1>2. \A val \in Nat : [b \in U8 |-> Word(val, b)] \in [U8 -> Nat]
    BY <1>1
<1>3. QED
    BY <1>2 DEF Steps, LengthSteps

\* The form of a length.
LengthForm(n, e) ==
    \/ n <= 127 /\ e = <<n>>
    \/ n \in 128 .. 255 /\ e = <<129, n>>
    \/ n > 255 /\ e = <<130, Hi(n), Lo(n)>>

LEMMA LengthEncoded ==
    ASSUME NEW n \in U16, NEW e, e = dlms_ber_encode_length(n)
    PROVE  LengthForm(n, e) /\ e \in Seq(U8) /\ Len(e) \in 1 .. 3
<1>1. n \in Nat /\ n < 65536
    BY InU16
<1>2. CASE n <= 127
  <2>1. e = <<n>> /\ n \in U8
      BY <1>1, <1>2 DEF dlms_ber_encode_length, U8
  <2>2. e \in Seq(U8) /\ Len(e) = 1
      BY <2>1
  <2>3. QED
      BY <1>2, <2>1, <2>2 DEF LengthForm
<1>3. CASE n \in 128 .. 255
  <2>1. e = <<129, n>> /\ n \in U8 /\ 129 \in U8
      BY <1>1, <1>3 DEF dlms_ber_encode_length, U8
  <2>2. e \in Seq(U8) /\ Len(e) = 2
      BY <2>1
  <2>3. QED
      BY <1>3, <2>1, <2>2 DEF LengthForm
<1>4. CASE n > 255
  <2>1. e = <<130, Hi(n), Lo(n)>> /\ 130 \in U8
      BY <1>1, <1>4 DEF dlms_ber_encode_length, U8
  <2>2. Hi(n) \in U8 /\ Lo(n) \in U8
      BY Halves
  <2>3. e \in Seq(U8) /\ Len(e) = 3
      BY <2>1, <2>2
  <2>4. QED
      BY <1>4, <2>1, <2>3 DEF LengthForm
<1>5. QED
    BY <1>1, <1>2, <1>3, <1>4

\* The bytes of a length as a number.
LEMMA OneByte ==
    ASSUME NEW s \in Seq(U8), Len(s) = 1, s[1] \in U8
    PROVE  Run(Nat, LengthSteps, 0, s) = s[1]
<1>1. Run(Nat, LengthSteps, 0, s) = LengthSteps[0][s[1]]
    BY LengthTyped, RunByte
<1>2. LengthSteps[0][s[1]] = Word(0, s[1])
    BY DEF LengthSteps
<1>3. Word(0, s[1]) = s[1]
  <2>1. PICK b \in Nat : b = s[1]
      BY DEF U8
  <2>2. QED
      BY <2>1 DEF Word
<1>4. QED
    BY <1>1, <1>2, <1>3

LEMMA TwoBytes ==
    ASSUME NEW hi \in U8, NEW lo \in U8
    PROVE  Run(Nat, LengthSteps, 0, <<hi, lo>>) = Word(hi, lo)
<1>1. PICK h, l : h = <<hi>> /\ l = <<lo>>
    OBVIOUS
<1>2. /\ h \in Seq(U8) /\ Len(h) = 1 /\ h[1] = hi
      /\ l \in Seq(U8) /\ Len(l) = 1 /\ l[1] = lo
      /\ <<hi, lo>> = h \o l
  <2>1. Sized(h, 1) /\ h[1] = hi /\ Sized(l, 1) /\ l[1] = lo
      BY <1>1, Small
  <2>2. Sized(h \o l, 1 + 1) /\ Joins(h \o l, h, 1, l, 1)
      BY <2>1, Concat
  <2>3. PICK p : p = <<hi, lo>> /\ Sized(p, 2) /\ p[1] = hi /\ p[2] = lo
    <3>1. Sized(<<hi, lo>>, 2) /\ <<hi, lo>>[1] = hi /\ <<hi, lo>>[2] = lo
        BY Pair
    <3>2. QED
        BY <3>1
  <2>4. PICK q : q = h \o l /\ q \in Seq(U8) /\ Len(q) = 2 /\ q[1] = hi /\ q[2] = lo
    <3>1. PICK q : q = h \o l
        OBVIOUS
    <3>2. Joins(q, h, 1, l, 1)
        BY <2>2, <3>1
    <3>3. 1 \in 1 .. 1 /\ 1 + 1 = 2
        OBVIOUS
    <3>4. q[1] = h[1] /\ q[2] = l[1] /\ q \in Seq(U8) /\ Len(q) = 2
        BY <3>2, <3>3 DEF Joins
    <3>5. QED
        BY <2>1, <3>1, <3>4
  <2>5. \A i \in 1 .. 2 : p[i] = q[i]
    <3>1. \A i \in 1 .. 2 : i = 1 \/ i = 2
        OBVIOUS
    <3>2. QED
        BY <3>1, <2>3, <2>4
  <2>6. p = q
      BY <2>3, <2>4, <2>5, SeqEqual DEF Sized
  <2>7. QED
      BY <2>1, <2>3, <2>4, <2>6 DEF Sized
<1>3. Run(Nat, LengthSteps, 0, h) = hi
    BY <1>2, OneByte
<1>4. hi \in Nat
    BY DEF U8
<1>5. Run(Nat, LengthSteps, 0, h \o l) = Run(Nat, LengthSteps, hi, l)
    BY <1>2, <1>3, LengthTyped, RunJoined
<1>6. Run(Nat, LengthSteps, hi, l) = LengthSteps[hi][lo]
    BY <1>2, <1>4, LengthTyped, RunByte
<1>7. LengthSteps[hi][lo] = Word(hi, lo)
    BY <1>4 DEF LengthSteps
<1>8. QED
    BY <1>2, <1>5, <1>6, <1>7

\* What s begins with, seen from s.
LEMMA StartsShort ==
    ASSUME NEW n \in U16, n <= 127, NEW s \in Seq(U8), Len(s) >= 1, s[1] = n
    PROVE  dlms_ber_decode_length(s) = [code |-> "OK", length |-> n, consumed |-> 1]
<1>1. s # <<>> /\ s[1] < 128
    BY EmptySeq, InU16
<1>2. QED
    BY <1>1 DEF dlms_ber_decode_length

LEMMA StartsLong ==
    ASSUME NEW c \in {1, 2}, NEW s \in Seq(U8), Len(s) >= 1, s[1] = 128 + c
    PROVE  dlms_ber_decode_length(s) =
               IF Len(s) < 1 + c THEN Error("PARSE")
               ELSE [code |-> "OK", consumed |-> 1 + c,
                     length |-> Run(Nat, LengthSteps, 0, SubSeq(s, 2, 1 + c))]
<1>1. PICK k \in Nat : k = Len(s)
    BY LenProperties
<1>2. s # <<>>
    BY EmptySeq
<1>3. PICK d \in Nat : d = c /\ d # 0 /\ (1 + d > k <=> k < 1 + d)
    BY <1>1
<1>4. ~(s[1] < 128) /\ s[1] - 128 = d
    BY <1>3
<1>5. QED
    BY <1>1, <1>2, <1>3, <1>4 DEF dlms_ber_decode_length, LengthSteps

\* A length is read from behind what it was written as, or not at all.
LEMMA LengthRead ==
    ASSUME NEW n \in U16, NEW e, e = dlms_ber_encode_length(n),
           NEW s \in Seq(U8), Len(s) >= 1, Starts(s, e)
    PROVE  dlms_ber_decode_length(s) =
               IF Len(s) < Len(e) THEN Error("PARSE")
               ELSE [code |-> "OK", length |-> n, consumed |-> Len(e)]
<1>1. LengthForm(n, e)
    BY LengthEncoded
<1>2. PICK k \in Nat : k = Len(s) /\ 1 <= k
    BY LenProperties
<1>3. 1 \in 1 .. k
    BY <1>2
<1>7. n \in Nat
    BY InU16
<1>4. CASE n <= 127
  <2>1. e = <<n>>
      BY <1>1, <1>4, <1>7 DEF LengthForm
  <2>2. Len(e) = 1 /\ e[1] = n
      BY <2>1
  <2>3. s[1] = n
      BY <1>2, <1>3, <2>2 DEF Starts
  <2>4. dlms_ber_decode_length(s) = [code |-> "OK", length |-> n, consumed |-> 1]
      BY <1>4, <2>3, StartsShort
  <2>5. ~(k < 1)
      BY <1>2
  <2>6. QED
      BY <1>2, <2>2, <2>4, <2>5
<1>5. CASE n \in 128 .. 255
  <2>1. e = <<129, n>>
      BY <1>1, <1>5 DEF LengthForm
  <2>2. Len(e) = 2 /\ e[1] = 129 /\ e[2] = n
      BY <2>1
  <2>3. s[1] = 128 + 1
      BY <1>2, <1>3, <2>2 DEF Starts
  <2>4. CASE k < 2
      BY <1>2, <2>2, <2>3, <2>4, StartsLong
  <2>5. CASE ~(k < 2)
    <3>1. 2 \in 1 .. k
        BY <1>2, <2>5
    <3>2. s[2] = n
        BY <1>2, <2>2, <3>1 DEF Starts
    <3>3. n \in U8
        BY <1>5 DEF U8
    <3>4. PICK b : b = <<n>> /\ Sized(b, 1) /\ b[1] = n
        BY <3>3, Small
    <3>5. SubSeq(s, 1 + 1, 2) = b
      <4>1. b \in Seq(U8) /\ Len(b) = 2 - 1
          BY <3>4 DEF Sized
      <4>2. \A i \in 1 .. 2 - 1 : b[i] = s[1 + i]
        <5>1. \A i \in 1 .. 2 - 1 : i = 1 /\ 1 + i = 2
            OBVIOUS
        <5>2. QED
            BY <3>2, <3>4, <5>1
      <4>3. QED
          BY <1>2, <2>5, <4>1, <4>2, Between
    <3>6. Run(Nat, LengthSteps, 0, b) = n
        BY <3>3, <3>4, OneByte DEF Sized
    <3>7. PICK c \in {1, 2} : c = 1 /\ 1 + c = 2
        OBVIOUS
    <3>8. dlms_ber_decode_length(s) =
              IF k < 1 + c THEN Error("PARSE")
              ELSE [code |-> "OK", consumed |-> 1 + c,
                    length |-> Run(Nat, LengthSteps, 0, SubSeq(s, 2, 1 + c))]
        BY <1>2, <2>3, <3>7, StartsLong
    <3>9. dlms_ber_decode_length(s) = [code |-> "OK", consumed |-> 2, length |-> n]
        BY <2>5, <3>5, <3>6, <3>7, <3>8
    <3>10. QED
        BY <1>2, <2>2, <2>5, <3>9
  <2>6. QED
      BY <2>4, <2>5
<1>6. CASE n > 255
  <2>1. e = <<130, Hi(n), Lo(n)>>
      BY <1>1, <1>6, <1>7 DEF LengthForm
  <2>2. Len(e) = 3 /\ e[1] = 130 /\ e[2] = Hi(n) /\ e[3] = Lo(n)
      BY <2>1
  <2>3. s[1] = 128 + 2
      BY <1>2, <1>3, <2>2 DEF Starts
  <2>4. CASE k < 3
      BY <1>2, <2>2, <2>3, <2>4, StartsLong
  <2>5. CASE ~(k < 3)
    <3>1. 2 \in 1 .. k /\ 3 \in 1 .. k
        BY <1>2, <2>5
    <3>2. s[2] = Hi(n) /\ s[3] = Lo(n)
        BY <1>2, <2>2, <3>1 DEF Starts
    <3>3. Hi(n) \in U8 /\ Lo(n) \in U8 /\ Word(Hi(n), Lo(n)) = n
        BY Halves
    <3>4. PICK b : b = <<Hi(n), Lo(n)>> /\ Sized(b, 2) /\ b[1] = Hi(n) /\ b[2] = Lo(n)
      <4>1. PICK x \in U8, y \in U8 : x = Hi(n) /\ y = Lo(n)
          BY <3>3
      <4>2. Sized(<<x, y>>, 2) /\ <<x, y>>[1] = x /\ <<x, y>>[2] = y
          BY Pair
      <4>3. QED
          BY <4>1, <4>2
    <3>5. SubSeq(s, 1 + 1, 3) = b
      <4>1. b \in Seq(U8) /\ Len(b) = 3 - 1
          BY <3>4 DEF Sized
      <4>2. \A i \in 1 .. 3 - 1 : b[i] = s[1 + i]
        <5>1. \A i \in 1 .. 3 - 1 : (i = 1 /\ 1 + i = 2) \/ (i = 2 /\ 1 + i = 3)
            OBVIOUS
        <5>2. QED
            BY <3>2, <3>4, <5>1
      <4>3. QED
          BY <1>2, <2>5, <4>1, <4>2, Between
    <3>6. Run(Nat, LengthSteps, 0, b) = n
        BY <3>3, <3>4, TwoBytes
    <3>7. PICK c \in {1, 2} : c = 2 /\ 1 + c = 3
        OBVIOUS
    <3>8. dlms_ber_decode_length(s) =
              IF k < 1 + c THEN Error("PARSE")
              ELSE [code |-> "OK", consumed |-> 1 + c,
                    length |-> Run(Nat, LengthSteps, 0, SubSeq(s, 2, 1 + c))]
        BY <1>2, <2>3, <3>7, StartsLong
    <3>9. dlms_ber_decode_length(s) = [code |-> "OK", consumed |-> 3, length |-> n]
      <4>1. SubSeq(s, 2, 1 + c) = b
          BY <3>5, <3>7
      <4>2. ~(k < 1 + c)
          BY <2>5, <3>7
      <4>3. dlms_ber_decode_length(s) =
                [code |-> "OK", consumed |-> 1 + c, length |-> Run(Nat, LengthSteps, 0, b)]
          BY <3>8, <4>1, <4>2
      <4>4. Run(Nat, LengthSteps, 0, b) = n
          BY <3>3, <3>6
      <4>5. QED
          BY <3>7, <4>3, <4>4
    <3>10. QED
        BY <1>2, <2>2, <2>5, <3>9
  <2>6. QED
      BY <2>4, <2>5
<1>8. QED
    BY <1>4, <1>5, <1>6, <1>7

\* The tag and the length are read from any s that has them.
LEMMA TagRead ==
    ASSUME NEW n \in U16, NEW e, e = dlms_ber_encode_length(n),
           NEW s \in Seq(U8), Len(s) >= 2, Starts(Tail(s), e)
    PROVE  dlms_ber_decode_tag(s) =
               IF Len(s) < 1 + Len(e) THEN Error("PARSE")
               ELSE [code |-> "OK", length |-> n, consumed |-> 1 + Len(e)]
<1>1. PICK k \in Nat : k = Len(s) /\ 2 <= k
    BY LenProperties
<1>2. s # <<>>
    BY EmptySeq
<1>3. PICK t \in Seq(U8) : t = Tail(s) /\ Len(t) = k - 1
    BY <1>1, <1>2, HeadTailProperties
<1>4. PICK m \in Nat : m = Len(e)
    BY LengthEncoded
<1>5. PICK l : l = dlms_ber_decode_length(t)
    OBVIOUS
<1>6. dlms_ber_decode_tag(s) = IF l.code # "OK" THEN l ELSE [l EXCEPT !.consumed = @ + 1]
    BY <1>3, <1>5 DEF dlms_ber_decode_tag
<1>7. Len(t) >= 1 /\ Starts(t, e)
    BY <1>1, <1>3
<1>8. l = IF Len(t) < Len(e) THEN Error("PARSE")
          ELSE [code |-> "OK", length |-> n, consumed |-> Len(e)]
    BY <1>3, <1>5, <1>7, LengthRead
<1>9. CASE k < 1 + m
  <2>1. k - 1 < m
      BY <1>1, <1>9
  <2>2. l = Error("PARSE")
      BY <1>3, <1>4, <1>8, <2>1
  <2>3. l.code = "PARSE"
      BY <2>2 DEF Error
  <2>4. QED
      BY <1>1, <1>4, <1>6, <1>9, <2>2, <2>3
<1>10. CASE ~(k < 1 + m)
  <2>1. ~(k - 1 < m) /\ m + 1 = 1 + m
      BY <1>1, <1>10
  <2>2. l = [code |-> "OK", length |-> n, consumed |-> m]
      BY <1>3, <1>4, <1>8, <2>1
  <2>3. [l EXCEPT !.consumed = @ + 1] = [code |-> "OK", length |-> n, consumed |-> m + 1]
      BY <2>2
  <2>4. QED
      BY <1>1, <1>4, <1>6, <1>10, <2>1, <2>2, <2>3
<1>11. QED
    BY <1>9, <1>10

\* An element that s begins with: k bytes of tag and length, the m bytes of its
\* contents c and the n bytes that follow.
Element(s, tag, c, m, rest, n, k) ==
    /\ Sized(c, m) /\ Sized(rest, n) /\ Sized(s, k + (m + n)) /\ k \in 2 .. 4
    /\ StartsWith(s, tag)
    /\ dlms_ber_decode_tag(s) = [code |-> "OK", length |-> m, consumed |-> k]
    /\ SubSeq(s, k + 1, k + m) = c
    /\ Drop(s, k) = c \o rest
    /\ Drop(s, k + m) = rest

\* Tag and length together.
Header(tag, m) == <<tag>> \o dlms_ber_encode_length(m)

LEMMA HeaderTyped ==
    ASSUME NEW tag \in U8, NEW m \in U16
    PROVE  \E l \in 1 .. 3 :
               /\ Sized(dlms_ber_encode_length(m), l)
               /\ Glued(Header(tag, m), <<tag>>, 1, dlms_ber_encode_length(m), l)
<1>1. PICK e \in Seq(U8) : e = dlms_ber_encode_length(m) /\ Len(e) \in 1 .. 3
    BY LengthEncoded
<1>2. PICK l \in 1 .. 3 : Sized(e, l)
    BY <1>1 DEF Sized
<1>3. Sized(<<tag>>, 1)
    BY Small
<1>4. Glued(<<tag>> \o e, <<tag>>, 1, e, l)
    BY <1>2, <1>3, Glue
<1>5. QED
    BY <1>1, <1>2, <1>4 DEF Header

\* A part between two others.
LEMMA PieceRead ==
    ASSUME NEW s, NEW h, NEW k, NEW y, NEW p, Glued(s, h, k, y, p),
           NEW c, NEW m, NEW rest, NEW n, Glued(y, c, m, rest, n)
    PROVE  SubSeq(s, k + 1, k + m) = c /\ Drop(s, k + m) = rest /\ Sized(s, k + (m + n))
<1>1. Sized(s, k + p) /\ Sized(y, p) /\ Sized(y, m + n) /\ Sized(h, k)
    BY DEF Glued
<1>2. Sized(c, m) /\ Sized(rest, n)
    BY DEF Glued
<1>3. m \in Nat /\ n \in Nat /\ k \in Nat /\ p = m + n
    BY <1>1, <1>2 DEF Sized
<1>4. PICK q \in Nat, e \in Nat : q = k + (m + n) /\ e = k + m
    BY <1>3
<1>5. s \in Seq(U8) /\ Len(s) = q /\ c \in Seq(U8) /\ Len(c) = m
    BY <1>1, <1>2, <1>3, <1>4 DEF Sized
<1>6. \A i \in 1 .. p : s[k + i] = y[i]
    BY GluedNext
<1>7. \A i \in 1 .. m : y[i] = c[i]
    BY GluedFirst
<1>8. SubSeq(s, k + 1, e) = c
  <2>1. k <= e /\ e <= q /\ e - k = m
      BY <1>3, <1>4
  <2>2. \A i \in 1 .. m : i \in 1 .. p
      BY <1>3
  <2>3. \A i \in 1 .. e - k : c[i] = s[k + i]
      BY <1>6, <1>7, <2>1, <2>2
  <2>4. Len(c) = e - k
      BY <1>5, <2>1
  <2>5. e <= Len(s)
      BY <1>5, <2>1
  <2>6. QED
      BY <1>3, <1>5, <2>1, <2>3, <2>4, <2>5, Between
<1>9. Drop(s, e) = rest
  <2>1. k + m <= q
      BY <1>3, <1>4
  <2>2. Drop(Drop(s, k), m) = Drop(s, k + m)
      BY <1>3, <1>5, <2>1, DroppedTwice
  <2>3. Drop(s, k) = y
      BY GluedRest
  <2>4. Drop(y, m) = rest
      BY GluedRest
  <2>5. QED
      BY <1>4, <2>2, <2>3, <2>4
<1>10. QED
    BY <1>1, <1>3, <1>4, <1>8, <1>9

LEMMA TaggedTyped ==
    ASSUME NEW tag \in U8, NEW m \in U16, NEW c, Sized(c, m)
    PROVE  \E k \in 2 .. 4 : /\ Sized(Header(tag, m), k)
                             /\ Glued(Tagged(tag, c), Header(tag, m), k, c, m)
<1>1. PICK l \in 1 .. 3 : Glued(Header(tag, m), <<tag>>, 1, dlms_ber_encode_length(m), l)
    BY HeaderTyped
<1>2. Sized(Header(tag, m), 1 + l)
    BY <1>1 DEF Glued
<1>3. PICK k \in 2 .. 4 : k = 1 + l
    OBVIOUS
<1>4. Glued(Header(tag, m) \o c, Header(tag, m), k, c, m)
    BY <1>2, <1>3, Glue
<1>5. Tagged(tag, c) = Header(tag, m) \o c
    BY DEF Tagged, Header, Sized
<1>6. QED
    BY <1>2, <1>3, <1>4, <1>5

\* The tag and the length of s are read when s has them.
LEMMA HeaderRead ==
    ASSUME NEW tag \in U8, NEW m \in U16, NEW s, NEW k, NEW r, NEW n,
           Glued(s, Header(tag, m), k, r, n)
    PROVE  /\ StartsWith(s, tag)
           /\ dlms_ber_decode_tag(s) = [code |-> "OK", length |-> m, consumed |-> k]
<1>1. PICK h : h = Header(tag, m)
    OBVIOUS
<1>2. PICK e : e = dlms_ber_encode_length(m)
    OBVIOUS
<1>3. PICK l \in 1 .. 3 : Sized(e, l) /\ Glued(h, <<tag>>, 1, e, l)
    BY <1>1, <1>2, HeaderTyped
<1>4. Sized(h, k) /\ Sized(h, 1 + l)
    BY <1>1, <1>3 DEF Glued
<1>5. k \in Nat /\ k = 1 + l
    BY <1>4 DEF Sized
<1>6. Glued(s, h, k, r, n)
    BY <1>1
<1>7. h[1] = tag /\ \A i \in 1 .. l : h[1 + i] = e[i]
  <2>1. PICK b : b = <<tag>> /\ Sized(b, 1) /\ b[1] = tag
      BY Small
  <2>2. Glued(h, b, 1, e, l)
      BY <1>3, <2>1
  <2>3. \A i \in 1 .. 1 : h[i] = b[i]
      BY <2>2, GluedFirst
  <2>4. \A i \in 1 .. l : h[1 + i] = e[i]
      BY <2>2, GluedNext
  <2>5. h[1] = tag
      BY <2>1, <2>3
  <2>6. QED
      BY <2>4, <2>5
<1>8. \A i \in 1 .. k : s[i] = h[i]
    BY <1>6, GluedParts
<1>9. Sized(s, k + n) /\ n \in Nat
    BY <1>6 DEF Glued, Sized
<1>10. PICK q \in Nat : q = k + n
    BY <1>5, <1>9
<1>11. s \in Seq(U8) /\ Len(s) = q
    BY <1>9, <1>10 DEF Sized
<1>12. q >= 2 /\ ~(q < 1 + l) /\ q # 0
    BY <1>5, <1>9, <1>10
<1>13. s # <<>>
    BY <1>11, <1>12, EmptySeq
<1>14. s[1] = tag
  <2>1. 1 \in 1 .. k
      BY <1>5
  <2>2. QED
      BY <1>7, <1>8, <2>1
<1>15. Starts(Tail(s), e)
  <2>1. PICK t \in Seq(U8) : t = Tail(s) /\ \A i \in 1 .. Len(t) : t[i] = s[i + 1]
      BY <1>11, <1>13, HeadTailProperties
  <2>2. ASSUME NEW i \in 1 .. Len(t), i <= l PROVE t[i] = e[i]
    <3>1. Len(t) \in Nat
        BY LenProperties
    <3>2. i \in 1 .. l /\ 1 + i \in 1 .. k /\ i + 1 = 1 + i
        BY <1>5, <2>2, <3>1
    <3>3. t[i] = s[1 + i] /\ s[1 + i] = h[1 + i] /\ h[1 + i] = e[i]
        BY <1>7, <1>8, <2>1, <3>2
    <3>4. QED
        BY <3>3
  <2>3. Len(e) = l
      BY <1>3 DEF Sized
  <2>4. QED
      BY <2>1, <2>2, <2>3 DEF Starts
<1>16. dlms_ber_decode_tag(s) = IF q < 1 + l THEN Error("PARSE")
                                ELSE [code |-> "OK", length |-> m, consumed |-> 1 + l]
  <2>1. Len(e) = l
      BY <1>3 DEF Sized
  <2>2. QED
      BY <1>2, <1>11, <1>12, <1>15, <2>1, TagRead
<1>17. QED
    BY <1>5, <1>12, <1>13, <1>14, <1>16 DEF StartsWith

\* A tagged element is read as it was written, whatever follows it.
LEMMA TaggedRead ==
    ASSUME NEW tag \in U8, NEW m \in U16, NEW c, Sized(c, m), NEW j, NEW rest, NEW n, NEW s,
           Glued(s, Tagged(tag, c), j, rest, n)
    PROVE  \E k \in 2 .. 4 : Element(s, tag, c, m, rest, n, k) /\ j = k + m
<1>1. PICK h : h = Header(tag, m)
    OBVIOUS
<1>2. PICK k \in 2 .. 4 : Sized(h, k) /\ Glued(Tagged(tag, c), h, k, c, m)
    BY <1>1, TaggedTyped
<1>3. PICK y : y = c \o rest /\ Glued(s, h, k, y, m + n) /\ Glued(y, c, m, rest, n)
    BY <1>2, GluedTwice
<1>4. StartsWith(s, tag) /\ dlms_ber_decode_tag(s) = [code |-> "OK", length |-> m, consumed |-> k]
    BY <1>1, <1>3, HeaderRead
<1>5. Drop(s, k) = y
  <2>1. Glued(s, h, k, y, m + n)
      BY <1>3
  <2>2. QED
      BY <2>1, GluedRest
<1>6. SubSeq(s, k + 1, k + m) = c /\ Drop(s, k + m) = rest /\ Sized(s, k + (m + n))
  <2>1. Glued(s, h, k, y, m + n) /\ Glued(y, c, m, rest, n)
      BY <1>3
  <2>2. QED
      BY <2>1, PieceRead
<1>7. Sized(c, m) /\ Sized(rest, n)
    BY <1>3 DEF Glued
<1>13. Element(s, tag, c, m, rest, n, k)
    BY <1>3, <1>4, <1>5, <1>6, <1>7 DEF Element
<1>14. j = k + m
  <2>1. Sized(Tagged(tag, c), k + m) /\ Sized(Tagged(tag, c), j)
      BY <1>2 DEF Glued
  <2>2. QED
      BY <2>1 DEF Sized
<1>15. QED
    BY <1>13, <1>14

\* Nothing follows.
LEMMA GluedNothing ==
    ASSUME NEW s, NEW n, Sized(s, n)
    PROVE  Glued(s, s, n, <<>>, 0)
<1>1. s \in Seq(U8) /\ n \in Nat
    BY DEF Sized
<1>2. s \o <<>> = s
    BY <1>1, ConcatEmptySeq
<1>3. Sized(<<>>, 0)
    BY EmptySeq DEF Sized
<1>4. Glued(s \o <<>>, s, n, <<>>, 0)
    BY <1>3, Glue
<1>5. QED
    BY <1>2, <1>4

LEMMA NothingGlued ==
    ASSUME NEW s, NEW n, Sized(s, n)
    PROVE  Glued(s, <<>>, 0, s, n)
<1>1. s \in Seq(U8) /\ n \in Nat
    BY DEF Sized
<1>2. <<>> \o s = s
    BY <1>1, ConcatEmptySeq
<1>3. Sized(<<>>, 0)
    BY EmptySeq DEF Sized
<1>4. Glued(<<>> \o s, <<>>, 0, s, n)
    BY <1>3, Glue
<1>5. QED
    BY <1>2, <1>4

------------------------------------------------------------------------------
(* The elements before the user information. *)

\* The context name is an element of seven bytes.
ContextName == <<96, 133, 116, 5, 8, 1, 1>>

LEMMA ContextTyped ==
    Sized(ContextName, 7) /\ Sized(app_ctx, 9) /\ app_ctx = Tagged(6, ContextName)
<1>1. Sized(ContextName, 7) /\ Sized(app_ctx, 9)
    BY DEF Sized, ContextName, app_ctx, U8
<1>2. dlms_ber_encode_length(Len(ContextName)) = <<7>>
    BY <1>1 DEF Sized, dlms_ber_encode_length
<1>3. PICK a, b : a = <<6>> /\ b = <<7>> /\ Sized(a, 1) /\ a[1] = 6 /\ Sized(b, 1) /\ b[1] = 7
  <2>1. PICK x \in U8, y \in U8 : x = 6 /\ y = 7
      BY DEF U8
  <2>2. Sized(<<x>>, 1) /\ <<x>>[1] = x /\ Sized(<<y>>, 1) /\ <<y>>[1] = y
      BY Small
  <2>3. QED
      BY <2>1, <2>2
<1>4. PICK h : Glued(h, a, 1, b, 1) /\ h = a \o b
    BY <1>3, Glue
<1>5. Sized(h, 2) /\ h[1] = 6 /\ h[2] = 7
  <2>1. Sized(h, 1 + 1)
      BY <1>4 DEF Glued
  <2>2. Glued(h, a, 1, b, 1)
      BY <1>4
  <2>3. \A i \in 1 .. 1 : h[i] = a[i]
      BY <2>2, GluedFirst
  <2>4. \A i \in 1 .. 1 : h[1 + i] = b[i]
      BY <2>2, GluedNext
  <2>5. 1 \in 1 .. 1 /\ 1 + 1 = 2
      OBVIOUS
  <2>6. QED
      BY <1>3, <2>1, <2>3, <2>4, <2>5
<1>6. PICK t : Glued(t, h, 2, ContextName, 7) /\ t = h \o ContextName
    BY <1>1, <1>5, Glue
<1>7. t = Tagged(6, ContextName)
    BY <1>2, <1>3, <1>4, <1>6 DEF Tagged
<1>8. t \in Seq(U8) /\ Len(t) = 9
    BY <1>6 DEF Glued, Sized
<1>9. \A i \in 1 .. 9 : t[i] = app_ctx[i]
  <2>6. Glued(t, h, 2, ContextName, 7)
      BY <1>6
  <2>7. \A i \in 1 .. 2 : t[i] = h[i]
      BY <2>6, GluedFirst
  <2>1. \A i \in 1 .. 7 : t[2 + i] = ContextName[i]
      BY <2>6, GluedNext
  <2>2. /\ t[1] = 6 /\ t[2] = 7
        /\ t[2 + 1] = 96 /\ t[2 + 2] = 133 /\ t[2 + 3] = 116 /\ t[2 + 4] = 5
        /\ t[2 + 5] = 8 /\ t[2 + 6] = 1 /\ t[2 + 7] = 1
      BY <1>5, <2>1, <2>7 DEF ContextName
  <2>3. /\ app_ctx[1] = 6 /\ app_ctx[2] = 7
        /\ app_ctx[3] = 96 /\ app_ctx[4] = 133 /\ app_ctx[5] = 116 /\ app_ctx[6] = 5
        /\ app_ctx[7] = 8 /\ app_ctx[8] = 1 /\ app_ctx[9] = 1
      BY DEF app_ctx
  <2>4. \A i \in 1 .. 9 : \/ i = 1 \/ i = 2 \/ i = 3 \/ i = 4 \/ i = 5
                          \/ i = 6 \/ i = 7 \/ i = 8 \/ i = 9
      OBVIOUS
  <2>5. QED
      BY <2>2, <2>3, <2>4
<1>10. t = app_ctx
  <2>1. app_ctx \in Seq(U8) /\ Len(app_ctx) = 9
      BY <1>1 DEF Sized
  <2>2. QED
      BY <1>8, <1>9, <2>1, SeqEqual
<1>11. QED
    BY <1>1, <1>7, <1>10

\* The decoder goes on behind it.
LEMMA ContextRead ==
    ASSUME NEW s, NEW rest, NEW n, Glued(s, app_ctx, 9, rest, n)
    PROVE  AfterContext(s) = [code |-> "OK", rest |-> rest]
<1>1. 6 \in U8 /\ 7 \in U16
    BY InU16 DEF U8
<1>2. Glued(s, Tagged(6, ContextName), 9, rest, n)
    BY ContextTyped
<1>3. PICK k \in 2 .. 4 : Element(s, 6, ContextName, 7, rest, n, k) /\ 9 = k + 7
    BY <1>1, <1>2, ContextTyped, TaggedRead
<1>4. /\ StartsWith(s, 6) /\ Drop(s, k + 7) = rest
      /\ dlms_ber_decode_tag(s) = [code |-> "OK", length |-> 7, consumed |-> k]
    BY <1>3 DEF Element
<1>5. QED
    BY <1>4 DEF AfterContext

------------------------------------------------------------------------------
(* The fields of the user information. *)

\* The rounds over the bytes of the element, from the first state on.
Rounds(after, l, first) ==
    after = [n \in 0 .. l |-> IF n = 0 THEN first ELSE NextField(after[n - 1])]

LastState(l, first) == (CHOOSE after : Rounds(after, l, first))[l]

\* If a state that a round leaves as it is has been reached in time, it is the last.
LEMMA LastRound ==
    ASSUME NEW l \in Nat, NEW first, NEW d \in Nat, d <= l, NEW g, g[0] = first,
           \A m \in 1 .. d : g[m] = NextField(g[m - 1]), NextField(g[d]) = g[d]
    PROVE  LastState(l, first) = g[d]
<1>1. PICK w : w = [m \in 0 .. l |-> g[IF m <= d THEN m ELSE d]]
    OBVIOUS
<1>2. w[0] = first
    BY <1>1
<1>3. ASSUME NEW m \in 0 .. l, m # 0 PROVE w[m] = NextField(w[m - 1])
  <2>1. PICK k \in 0 .. l : k = m - 1 /\ k + 1 = m
      BY <1>3
  <2>2. CASE m <= d
    <3>1. m \in 1 .. d /\ k <= d
        BY <1>3, <2>1, <2>2
    <3>2. w[m] = g[m] /\ w[k] = g[k]
        BY <1>1, <2>2, <3>1
    <3>3. QED
        BY <2>1, <3>1, <3>2
  <2>3. CASE ~(m <= d)
    <3>1. (IF k <= d THEN k ELSE d) = d
        BY <2>1, <2>3
    <3>2. w[m] = g[d] /\ w[k] = g[d]
        BY <1>1, <2>3, <3>1
    <3>3. QED
        BY <2>1, <3>2
  <2>4. QED
      BY <2>2, <2>3
<1>4. Rounds(w, l, first)
  <2>1. PICK v : v = [m \in 0 .. l |-> IF m = 0 THEN first ELSE NextField(w[m - 1])]
      OBVIOUS
  <2>2. \A m \in 0 .. l : w[m] = v[m]
      BY <1>2, <1>3, <2>1
  <2>3. w = v
      BY <1>1, <2>1, <2>2
  <2>4. QED
      BY <2>1, <2>3 DEF Rounds
<1>5. PICK a : a = CHOOSE after : Rounds(after, l, first)
    OBVIOUS
<1>6. Rounds(a, l, first)
    BY <1>4, <1>5
<1>7. a[0] = first /\ \A m \in 0 .. l : m # 0 => a[m] = NextField(a[m - 1])
    BY <1>6 DEF Rounds
<1> DEFINE D == {m \in Nat : m <= l => a[m] = w[m]}
<1>8. 0 \in D
    BY <1>2, <1>7
<1>9. ASSUME NEW m \in D PROVE m + 1 \in D
  <2>1. SUFFICES ASSUME m + 1 <= l PROVE a[m + 1] = w[m + 1]
      OBVIOUS
  <2>2. PICK i \in 0 .. l : i = m + 1 /\ i # 0 /\ i - 1 = m
      BY <2>1
  <2>3. a[m] = w[m]
      BY <2>1
  <2>4. QED
      BY <1>3, <1>7, <2>2, <2>3
<1>10. D = Nat
  <2> HIDE DEF D
  <2>1. D \subseteq Nat
      BY DEF D
  <2>2. QED
      BY <1>8, <1>9, <2>1, AllNumbers
<1>11. a[l] = w[l]
  <2>1. l \in D
      BY <1>10
  <2>2. QED
      BY <2>1
<1>12. w[l] = g[d]
  <2>1. (IF l <= d THEN l ELSE d) = d /\ l \in 0 .. l
      OBVIOUS
  <2>2. QED
      BY <1>1, <2>1
<1>13. QED
    BY <1>5, <1>11, <1>12 DEF LastState

\* An element without user information has no fields.
LEMMA NoFields ==
    ASSUME NEW s, ~StartsWith(s, 190)
    PROVE  UserFields(s) = [rest |-> <<>>, auth_value |-> <<>>, initiates |-> <<>>]
<1>1. PICK first : first = [rest |-> <<>>, auth_value |-> <<>>, initiates |-> <<>>]
    OBVIOUS
<1>2. PICK l \in Nat : l = 0
    OBVIOUS
<1>3. UserFields(s) = LastState(l, first)
  <2>1. PICK e : e = <<>>
      OBVIOUS
  <2>2. Len(e) \div 2 = l
      BY <1>2, <2>1
  <2>3. (IF StartsWith(s, 190) /\ dlms_ber_decode_tag(s).code = "OK"
         THEN SubSeq(s, 1 + dlms_ber_decode_tag(s).consumed,
                     dlms_ber_decode_tag(s).consumed + dlms_ber_decode_tag(s).length)
         ELSE <<>>) = e
      BY <2>1
  <2>4. first = [rest |-> e, auth_value |-> <<>>, initiates |-> <<>>]
      BY <1>1, <2>1
  <2>5. QED
      BY <2>2, <2>3, <2>4 DEF UserFields, Rounds, LastState
<1>4. NextField(first) = first
  <2>1. \A b : ~StartsWith(first.rest, b)
      BY <1>1 DEF StartsWith
  <2>2. QED
      BY <2>1 DEF NextField
<1>5. PICK g : g = [m \in 0 .. 0 |-> first]
    OBVIOUS
<1>6. g[0] = first
    BY <1>5
<1>7. LastState(l, first) = g[l]
  <2>1. NextField(g[l]) = g[l] /\ \A m \in 1 .. l : g[m] = NextField(g[m - 1])
      BY <1>2, <1>4, <1>6
  <2>2. QED
      BY <1>6, <2>1, LastRound
<1>8. QED
    BY <1>1, <1>2, <1>3, <1>6, <1>7

Fields(r, a, i) == [rest |-> r, auth_value |-> a, initiates |-> i]

LEMMA RoundDone ==
    ASSUME NEW a, NEW i
    PROVE  NextField(Fields(<<>>, a, i)) = Fields(<<>>, a, i)
BY DEF NextField, StartsWith, Fields

\* An authentication value and its length.
LEMMA RoundAuth ==
    ASSUME NEW l \in U8, NEW x, NEW y, NEW p, Glued(x, <<128, l>>, 2, y, p),
           NEW v, NEW r, NEW q, Glued(y, v, l, r, q), NEW a, NEW i
    PROVE  NextField(Fields(x, a, i)) = Fields(r, v, i)
<1>1. PICK b : b = <<128, l>> /\ b[1] = 128 /\ b[2] = l
    OBVIOUS
<1>2. Glued(x, b, 2, y, p)
    BY <1>1
<1>3. \A j \in 1 .. 2 : x[j] = b[j]
    BY <1>2, GluedFirst
<1>4. x[1] = 128 /\ x[2] = l
    BY <1>1, <1>3
<1>5. SubSeq(x, 2 + 1, 2 + l) = v /\ Drop(x, 2 + l) = r /\ Sized(x, 2 + (l + q))
    BY <1>2, PieceRead
<1>6. q \in Nat /\ l \in Nat
    BY DEF Glued, Sized, U8
<1>7. PICK n \in Nat : n = 2 + (l + q) /\ n > 1 /\ n # 0
    BY <1>6
<1>8. x \in Seq(U8) /\ Len(x) = n
    BY <1>5, <1>7 DEF Sized
<1>9. x # <<>>
    BY <1>7, <1>8, EmptySeq
<1>10. StartsWith(x, 128) /\ Len(x) > 1
    BY <1>4, <1>7, <1>8, <1>9 DEF StartsWith
<1>11. SubSeq(x, 3, 2 + x[2]) = v /\ Drop(x, 2 + x[2]) = r
    BY <1>4, <1>5
<1>12. PICK u : u = Fields(x, a, i)
    OBVIOUS
<1>13. u.rest = x /\ u.initiates = i
    BY <1>12 DEF Fields
<1>14. NextField(u) = Fields(r, v, i)
    BY <1>10, <1>11, <1>13 DEF NextField, Fields
<1>15. QED
    BY <1>12, <1>14

\* An initiate request or response.
LEMMA RoundInitiate ==
    ASSUME NEW x, NEW c, NEW m, NEW r, NEW n, NEW k, Element(x, 129, c, m, r, n, k), NEW a
    PROVE  NextField(Fields(x, a, <<>>)) = Fields(r, a, <<c>>)
<1>1. /\ Sized(c, m) /\ Sized(r, n) /\ Sized(x, k + (m + n)) /\ k \in 2 .. 4
      /\ StartsWith(x, 129)
      /\ dlms_ber_decode_tag(x) = [code |-> "OK", length |-> m, consumed |-> k]
      /\ SubSeq(x, k + 1, k + m) = c
      /\ Drop(x, k + m) = r
    BY DEF Element
<1>2. m \in Nat /\ n \in Nat /\ k \in Nat
    BY <1>1 DEF Sized
<1>3. PICK q \in Nat : q = k + (m + n) /\ k + m <= q
    BY <1>2
<1>4. Len(x) = q
    BY <1>1, <1>3 DEF Sized
<1>5. ~StartsWith(x, 128)
    BY <1>1 DEF StartsWith
<1>6. PICK l : l = dlms_ber_decode_tag(x)
    OBVIOUS
<1>7. l.code = "OK" /\ l.consumed = k /\ l.length = m
    BY <1>1, <1>6
<1>8. k + m <= Len(x) /\ SubSeq(x, 1 + k, k + m) = c
  <2>1. 1 + k = k + 1
      BY <1>2
  <2>2. QED
      BY <1>1, <1>3, <1>4, <2>1
<1>9. PICK u : u = Fields(x, a, <<>>)
    OBVIOUS
<1>10. u.rest = x /\ u.initiates = <<>> /\ u.auth_value = a
    BY <1>9 DEF Fields
<1>11. Append(<<>>, c) = <<c>>
    OBVIOUS
<1>12. NextField(u) = Fields(r, a, <<c>>)
  <2>1. StartsWith(x, 129) /\ Drop(x, k + m) = r
      BY <1>1
  <2>2. PICK z : z = k + m
      OBVIOUS
  <2>3. l.consumed + l.length = z /\ 1 + l.consumed = 1 + k
      BY <1>7, <2>2
  <2>4. z <= Len(x) /\ SubSeq(x, 1 + k, z) = c /\ Drop(x, z) = r
      BY <1>8, <2>1, <2>2
  <2>5. NextField(u) =
            IF StartsWith(x, 129) /\ l.code = "OK" /\ z <= Len(x)
            THEN [rest |-> Drop(x, z), auth_value |-> a,
                  initiates |-> Append(<<>>, SubSeq(x, 1 + k, z))]
            ELSE u
      BY <1>5, <1>6, <1>10, <2>3, Zenon DEF NextField
  <2>6. NextField(u) = [rest |-> r, auth_value |-> a, initiates |-> <<c>>]
      BY <1>7, <1>11, <2>1, <2>4, <2>5
  <2>7. QED
      BY <2>6 DEF Fields
<1>13. QED
    BY <1>9, <1>12

\* The bytes w of the authentication value v, or of none.
AuthField(w, j, v, l) ==
    \/ w = <<>> /\ v = <<>> /\ j = 0
    \/ Glued(w, <<128, l>>, 2, v, l) /\ l \in U8 /\ j = 2 + l

\* Of user information the fields are read as they were written.
LEMMA FieldsRead ==
    ASSUME NEW w, NEW j, NEW v, NEW l, AuthField(w, j, v, l), Sized(w, j),
           NEW init, NEW p \in U16, Sized(init, p),
           NEW info, NEW q, Glued(info, w, j, Tagged(129, init), q),
           NEW m \in U16, Sized(info, m)
    PROVE  UserFields(Tagged(190, info)) = Fields(<<>>, v, <<init>>)
<1>1. 190 \in U8 /\ 129 \in U8
    BY DEF U8
<1>2. PICK t : t = Tagged(129, init)
    OBVIOUS
<1>3. Sized(t, q) /\ Glued(info, w, j, t, q)
    BY <1>2 DEF Glued
<1>4. Glued(t, Tagged(129, init), q, <<>>, 0)
    BY <1>2, <1>3, GluedNothing
<1>5. PICK k \in 2 .. 4 : Element(t, 129, init, p, <<>>, 0, k) /\ q = k + p
    BY <1>1, <1>4, TaggedRead
<1>6. PICK s : s = Tagged(190, info)
    OBVIOUS
<1>7. \E e : Sized(s, e)
  <2>1. PICK i \in 2 .. 4 : Glued(Tagged(190, info), Header(190, m), i, info, m)
      BY <1>1, TaggedTyped
  <2>2. Sized(s, i + m)
      BY <1>6, <2>1 DEF Glued
  <2>3. QED
      BY <2>2
<1>8. PICK e : Sized(s, e)
    BY <1>7
<1>9. Glued(s, Tagged(190, info), e, <<>>, 0)
    BY <1>6, <1>8, GluedNothing
<1>10. PICK i \in 2 .. 4 : Element(s, 190, info, m, <<>>, 0, i) /\ e = i + m
    BY <1>1, <1>9, TaggedRead
<1>11. /\ StartsWith(s, 190)
       /\ dlms_ber_decode_tag(s) = [code |-> "OK", length |-> m, consumed |-> i]
       /\ SubSeq(s, i + 1, i + m) = info
    BY <1>10 DEF Element
<1>12. PICK first : first = Fields(info, <<>>, <<>>)
    OBVIOUS
<1>13. PICK h \in Nat : h = m \div 2 /\ (m >= 2 => h >= 1) /\ (m >= 4 => h >= 2)
  <2>1. m \in Nat
      BY DEF Sized
  <2>2. QED
      BY <2>1
<1>14. UserFields(s) = LastState(h, first)
  <2>1. 1 + i = i + 1
      OBVIOUS
  <2>2. PICK el : el = IF StartsWith(s, 190) /\ dlms_ber_decode_tag(s).code = "OK"
                      THEN SubSeq(s, 1 + dlms_ber_decode_tag(s).consumed,
                                  dlms_ber_decode_tag(s).consumed
                                      + dlms_ber_decode_tag(s).length)
                      ELSE <<>>
      OBVIOUS
  <2>3. UserFields(s) = LastState(Len(el) \div 2, Fields(el, <<>>, <<>>))
      BY <2>2 DEF UserFields, LastState, Rounds, Fields
  <2>4. PICK lt : lt = dlms_ber_decode_tag(s)
      OBVIOUS
  <2>5. lt.code = "OK" /\ lt.consumed = i /\ lt.length = m
      BY <1>11, <2>4
  <2>6. SubSeq(s, 1 + lt.consumed, lt.consumed + lt.length) = info
      BY <1>11, <2>1, <2>5
  <2>7. el = info
      BY <1>11, <2>2, <2>4, <2>5, <2>6
  <2>8. Len(info) \div 2 = h
      BY <1>13 DEF Sized
  <2>9. QED
      BY <1>12, <2>3, <2>7, <2>8
<1>15. info \in Seq(U8) /\ m \in Nat /\ m = Len(info)
    BY DEF Sized
<1>16. j \in Nat /\ p \in Nat /\ m = j + q
  <2>1. Sized(w, j) /\ Sized(info, j + q)
      BY DEF Glued
  <2>2. QED
      BY <2>1 DEF Sized
<1>17. PICK end : end = Fields(<<>>, v, <<init>>)
    OBVIOUS
<1>18. NextField(end) = end
    BY <1>17, RoundDone
<1>19. CASE w = <<>> /\ v = <<>> /\ j = 0
  <2>1. info = t
    <3>1. info = w \o t /\ t \in Seq(U8)
        BY <1>3 DEF Glued, Sized
    <3>2. <<>> \o t = t
        BY <3>1, ConcatEmptySeq
    <3>3. QED
        BY <1>19, <3>1, <3>2
  <2>2. NextField(first) = end
      BY <1>5, <1>12, <1>17, <1>19, <2>1, RoundInitiate
  <2>3. PICK g : g = [x \in 0 .. 1 |-> IF x = 0 THEN first ELSE end]
      OBVIOUS
  <2>4. g[0] = first /\ g[1] = end
      BY <2>3
  <2>5. PICK d \in Nat : d = 1
      OBVIOUS
  <2>6. \A x \in 1 .. d : g[x] = NextField(g[x - 1])
    <3>1. \A x \in 1 .. d : x = 1 /\ x - 1 = 0
        BY <2>5
    <3>2. QED
        BY <2>2, <2>4, <3>1
  <2>7. NextField(g[d]) = g[d] /\ g[d] = end
      BY <1>18, <2>4, <2>5
  <2>8. d <= h
    <3>1. m >= 2
        BY <1>5, <1>16, <1>19
    <3>2. QED
        BY <1>13, <2>5, <3>1
  <2>9. LastState(h, first) = g[d]
      BY <2>4, <2>6, <2>7, <2>8, LastRound
  <2>10. QED
      BY <1>6, <1>14, <1>17, <2>7, <2>9
<1>20. CASE Glued(w, <<128, l>>, 2, v, l) /\ l \in U8 /\ j = 2 + l
  <2>1. PICK y : Glued(info, <<128, l>>, 2, y, l + q) /\ Glued(y, v, l, t, q)
    <3>1. Glued(info, w, j, t, q) /\ Glued(w, <<128, l>>, 2, v, l)
        BY <1>3, <1>20
    <3>2. QED
        BY <3>1, GluedTwice
  <2>2. PICK mid : mid = Fields(t, v, <<>>)
      OBVIOUS
  <2>3. NextField(first) = mid
      BY <1>12, <1>20, <2>1, <2>2, RoundAuth
  <2>4. NextField(mid) = end
      BY <1>5, <1>17, <2>2, RoundInitiate
  <2>5. PICK g : g = [x \in 0 .. 2 |-> IF x = 0 THEN first ELSE IF x = 1 THEN mid ELSE end]
      OBVIOUS
  <2>6. g[0] = first /\ g[1] = mid /\ g[2] = end
      BY <2>5
  <2>7. PICK d \in Nat : d = 2
      OBVIOUS
  <2>8. \A x \in 1 .. d : g[x] = NextField(g[x - 1])
    <3>1. \A x \in 1 .. d : (x = 1 /\ x - 1 = 0) \/ (x = 2 /\ x - 1 = 1)
        BY <2>7
    <3>2. QED
        BY <2>3, <2>4, <2>6, <3>1
  <2>9. NextField(g[d]) = g[d] /\ g[d] = end
      BY <1>18, <2>6, <2>7
  <2>10. d <= h
    <3>1. l \in Nat
        BY <1>20 DEF U8
    <3>2. m >= 4
        BY <1>5, <1>16, <1>20, <3>1
    <3>3. QED
        BY <1>13, <2>7, <3>2
  <2>11. LastState(h, first) = g[d]
      BY <2>6, <2>8, <2>9, <2>10, LastRound
  <2>12. QED
      BY <1>6, <1>14, <1>17, <2>9, <2>11
<1>21. QED
    BY <1>19, <1>20 DEF AuthField

------------------------------------------------------------------------------
(* The AARQ. *)

LEMMA TailDrops ==
    ASSUME NEW s \in Seq(U8), s # <<>>
    PROVE  Tail(s) = Drop(s, 1)
<1>1. Tail(s) = SubSeq(s, 2, Len(s))
    BY TailIsSubSeq
<1>2. 1 + 1 = 2
    OBVIOUS
<1>3. QED
    BY <1>1, <1>2 DEF Drop

\* s is x without the first k of its n bytes, and has bytes left.
Left(s, x, n, k) ==
    /\ x \in Seq(U8) /\ n \in Nat /\ Len(x) = n /\ k \in Nat /\ k < n
    /\ s = Drop(x, k)

LEMMA LeftFacts ==
    ASSUME NEW s, NEW x, NEW n, NEW k, Left(s, x, n, k)
    PROVE  /\ s \in Seq(U8) /\ s # <<>> /\ Len(s) = n - k /\ s[1] = x[k + 1]
           /\ k + 1 < n => s[2] = x[k + 2]
<1>1. x \in Seq(U8) /\ n \in Nat /\ Len(x) = n /\ k \in Nat /\ k < n /\ s = Drop(x, k)
    BY DEF Left
<1>2. s \in Seq(U8) /\ Len(s) = n - k /\ \A i \in 1 .. n - k : s[i] = x[k + i]
  <2>1. k <= Len(x)
      BY <1>1
  <2>2. /\ Drop(x, k) \in Seq(U8) /\ Len(Drop(x, k)) = Len(x) - k
        /\ \A i \in 1 .. Len(x) - k : Drop(x, k)[i] = x[k + i]
      BY <1>1, <2>1, Dropped
  <2>3. QED
      BY <1>1, <2>2
<1>3. n - k # 0 /\ 1 \in 1 .. n - k /\ (k + 1 < n => 2 \in 1 .. n - k)
    BY <1>1
<1>4. s # <<>>
    BY <1>2, <1>3, EmptySeq
<1>5. QED
    BY <1>2, <1>3, <1>4

\* Going on by j bytes.
LEMMA LeftOn ==
    ASSUME NEW s, NEW x, NEW n, NEW k, Left(s, x, n, k), NEW j \in Nat, k + j < n
    PROVE  Left(Drop(s, j), x, n, k + j)
<1>1. x \in Seq(U8) /\ n \in Nat /\ Len(x) = n /\ k \in Nat /\ s = Drop(x, k)
    BY DEF Left
<1>2. k + j <= Len(x)
    BY <1>1
<1>3. Drop(Drop(x, k), j) = Drop(x, k + j)
    BY <1>1, <1>2, DroppedTwice
<1>4. k + j \in Nat
    BY <1>1
<1>5. QED
    BY <1>1, <1>3, <1>4 DEF Left

\* Version and mechanism are found behind the two defaults.
LEMMA InitiateRead ==
    ASSUME NEW x \in Seq(U8), NEW n \in Nat, Len(x) = n, n > 6, NEW v, NEW m,
           x[1] = 0, x[2] = 0, x[3] = 1, x[4] = v, x[5] = 1, x[6] = m
    PROVE  InitiateRequest(x) = [dlms_version |-> v, auth_mech |-> m]
<1>1. x # <<>>
    BY EmptySeq
<1>2. PICK s1 : s1 = Tail(x)
    OBVIOUS
<1>3. Left(s1, x, n, 1)
    BY <1>1, <1>2, TailDrops DEF Left
<1>4. s1 \in Seq(U8) /\ s1 # <<>> /\ s1[1] = 0
  <2>1. 1 + 1 = 2
      OBVIOUS
  <2>2. s1 \in Seq(U8) /\ s1 # <<>> /\ s1[1] = x[1 + 1]
      BY <1>3, LeftFacts
  <2>3. QED
      BY <2>1, <2>2
<1>5. PICK s2 : s2 = Tail(s1)
    OBVIOUS
<1>6. Left(s2, x, n, 2)
  <2>1. s2 = Drop(s1, 1)
      BY <1>4, <1>5, TailDrops
  <2>2. Left(Drop(s1, 1), x, n, 1 + 1)
      BY <1>3, LeftOn
  <2>3. 1 + 1 = 2
      OBVIOUS
  <2>4. QED
      BY <2>1, <2>2, <2>3
<1>7. s2 # <<>> /\ Len(s2) > 1 /\ s2[1] = 1 /\ s2[2] = v
  <2>1. s2 # <<>> /\ Len(s2) = n - 2 /\ s2[1] = x[2 + 1] /\ (2 + 1 < n => s2[2] = x[2 + 2])
      BY <1>6, LeftFacts
  <2>2. n - 2 > 1 /\ 2 + 1 < n /\ 2 + 1 = 3 /\ 2 + 2 = 4
      OBVIOUS
  <2>3. QED
      BY <2>1, <2>2
<1>8. PICK s3 : s3 = Drop(s2, 2)
    OBVIOUS
<1>9. Left(s3, x, n, 4)
  <2>1. Left(Drop(s2, 2), x, n, 2 + 2)
      BY <1>6, LeftOn
  <2>2. 2 + 2 = 4
      OBVIOUS
  <2>3. QED
      BY <1>8, <2>1, <2>2
<1>10. s3 # <<>> /\ Len(s3) > 1 /\ s3[1] = 1 /\ s3[2] = m
  <2>1. s3 # <<>> /\ Len(s3) = n - 4 /\ s3[1] = x[4 + 1] /\ (4 + 1 < n => s3[2] = x[4 + 2])
      BY <1>9, LeftFacts
  <2>2. n - 4 > 1 /\ 4 + 1 < n /\ 4 + 1 = 5 /\ 4 + 2 = 6
      OBVIOUS
  <2>3. QED
      BY <2>1, <2>2
<1>11. DefaultField(s2) = [value |-> v, rest |-> s3]
    BY <1>7, <1>8 DEF DefaultField, StartsWith
<1>12. DefaultField(s3).value = m
    BY <1>10 DEF DefaultField, StartsWith
<1>13. (IF StartsWith(x, 0) THEN Tail(x) ELSE x) = s1
    BY <1>1, <1>2 DEF StartsWith
<1>14. (IF StartsWith(s1, 0) THEN Tail(s1)
        ELSE IF StartsWith(s1, 1) THEN Drop(s1, 5) ELSE s1) = s2
    BY <1>4, <1>5 DEF StartsWith
<1>15. PICK version : version = DefaultField(s2)
    OBVIOUS
<1>16. version.value = v /\ version.rest = s3
    BY <1>11, <1>15
<1>17. InitiateRequest(x) = [dlms_version |-> version.value,
                             auth_mech |-> DefaultField(version.rest).value]
    BY <1>13, <1>14, <1>15 DEF InitiateRequest
<1>18. QED
    BY <1>12, <1>16, <1>17

RequestBytes(v, m, ch) == <<0, 0, 1, v, 1, m>> \o ch \o <<0>>

\* The first bytes of an initiate request.
LEMMA RequestLaidOut ==
    ASSUME NEW v \in U8, NEW m \in U8, NEW ch, NEW l, Sized(ch, l),
           NEW ir, ir = RequestBytes(v, m, ch)
    PROVE  /\ Sized(ir, 6 + l + 1)
           /\ ir[1] = 0 /\ ir[2] = 0 /\ ir[3] = 1 /\ ir[4] = v /\ ir[5] = 1 /\ ir[6] = m
<1>1. PICK b : b = <<0, 0, 1, v, 1, m>>
    OBVIOUS
<1>2. /\ Sized(b, 6)
      /\ b[1] = 0 /\ b[2] = 0 /\ b[3] = 1 /\ b[4] = v /\ b[5] = 1 /\ b[6] = m
  <2>1. 0 \in U8 /\ 1 \in U8
      BY DEF U8
  <2>2. b \in Seq(U8) /\ Len(b) = 6
      BY <1>1, <2>1
  <2>3. /\ b[1] = 0 /\ b[2] = 0 /\ b[3] = 1 /\ b[4] = v /\ b[5] = 1 /\ b[6] = m
      BY <1>1
  <2>4. QED
      BY <2>2, <2>3 DEF Sized
<1>3. PICK c : c = b \o ch
    OBVIOUS
<1>4. Glued(c, b, 6, ch, l)
    BY <1>2, <1>3, Glue
<1>5. PICK z : z = <<0>> /\ Sized(z, 1)
  <2>1. 0 \in U8
      BY DEF U8
  <2>2. Sized(<<0>>, 1)
      BY <2>1, Small
  <2>3. QED
      BY <2>2
<1>6. Sized(c, 6 + l)
    BY <1>4 DEF Glued
<1>7. Glued(ir, c, 6 + l, z, 1)
  <2>1. Glued(c \o z, c, 6 + l, z, 1)
      BY <1>5, <1>6, Glue
  <2>2. ir = c \o z
      BY <1>1, <1>3, <1>5 DEF RequestBytes
  <2>3. QED
      BY <2>1, <2>2
<1>8. Sized(ir, 6 + l + 1) /\ l \in Nat
    BY <1>7 DEF Glued, Sized
<1>9. \A i \in 1 .. 6 : ir[i] = b[i]
  <2>1. \A i \in 1 .. 6 : c[i] = b[i]
      BY <1>4, GluedFirst
  <2>2. \A i \in 1 .. 6 + l : ir[i] = c[i]
      BY <1>7, GluedFirst
  <2>3. \A i \in 1 .. 6 : i \in 1 .. 6 + l
      BY <1>8
  <2>4. QED
      BY <2>1, <2>2, <2>3
<1>10. QED
    BY <1>2, <1>8, <1>9

\* A password that fits, and its length in a byte.
LEMMA LowByte ==
    ASSUME NEW n \in Nat, n <= 255
    PROVE  Lo(n) = n /\ n \in U8
BY DEF Lo, U8

LEMMA LowTyped ==
    ASSUME NEW n \in Nat
    PROVE  Lo(n) \in U8
BY DEF Lo, U8

Asked == [dlms_version : U8, auth_mech : 0 .. 7, auth_value : Seq(U8)]

LEMMA InitiateEncoded ==
    ASSUME NEW a \in Asked, NEW e, e = dlms_initiate_request_encode(a), e.code = "OK",
           NEW n, n = Len(a.auth_value)
    PROVE  /\ n \in 0 .. 119
           /\ \E p \in 8 .. 128 : Sized(e.bytes, p)
           /\ InitiateRequest(e.bytes)
                  = [dlms_version |-> a.dlms_version, auth_mech |-> a.auth_mech]
<1>1. a.dlms_version \in U8 /\ a.auth_mech \in 0 .. 7 /\ a.auth_value \in Seq(U8)
    BY DEF Asked
<1>2. a.auth_mech \in U8 /\ n \in Nat
  <2>1. PICK m \in 0 .. 7 : m = a.auth_mech
      BY <1>1
  <2>2. m \in U8
      BY DEF U8
  <2>3. QED
      BY <1>1, <2>1, <2>2, LenProperties
<1>3. PICK ch : ch = IF a.auth_value = <<>> THEN <<0>> ELSE <<1, Lo(n)>> \o a.auth_value
    OBVIOUS
<1>4. PICK ir : ir = <<0, 0, 1, a.dlms_version, 1, a.auth_mech>> \o ch \o <<0>>
    OBVIOUS
<1>5. e = IF Len(ir) > 128 THEN Error("BUFFER") ELSE [code |-> "OK", bytes |-> ir]
    BY <1>3, <1>4, Zenon DEF dlms_initiate_request_encode, InitReqSize
<1>6. ~(Len(ir) > 128) /\ e.bytes = ir
  <2>1. Error("BUFFER").code # "OK"
      BY DEF Error
  <2>2. ~(Len(ir) > 128)
      BY <1>5, <2>1
  <2>3. QED
      BY <1>5, <2>2
<1>7. PICK l \in Nat : Sized(ch, l) /\ l >= 1 /\ (a.auth_value = <<>> \/ l = 2 + n)
  <2>1. CASE a.auth_value = <<>>
    <3>1. Sized(<<0>>, 1)
        BY Small DEF U8
    <3>2. QED
        BY <1>3, <2>1, <3>1
  <2>2. CASE a.auth_value # <<>>
    <3>1. Lo(n) \in U8 /\ 1 \in U8
      <4>1. 1 \in U8
          BY DEF U8
      <4>2. QED
          BY <1>2, <4>1, LowTyped
    <3>2. Sized(<<1, Lo(n)>>, 2)
        BY <3>1, Pair
    <3>3. Sized(a.auth_value, n)
        BY <1>1, <1>2 DEF Sized
    <3>4. Sized(<<1, Lo(n)>> \o a.auth_value, 2 + n)
        BY <3>2, <3>3, Concat
    <3>5. 2 + n \in Nat /\ 2 + n >= 1
        BY <1>2
    <3>6. QED
        BY <1>3, <2>2, <3>4, <3>5
  <2>3. QED
      BY <2>1, <2>2
<1>8. /\ Sized(ir, 6 + l + 1)
      /\ ir[1] = 0 /\ ir[2] = 0 /\ ir[3] = 1 /\ ir[4] = a.dlms_version
      /\ ir[5] = 1 /\ ir[6] = a.auth_mech
  <2>1. PICK v \in U8, m \in U8 : v = a.dlms_version /\ m = a.auth_mech
      BY <1>1, <1>2
  <2>2. ir = RequestBytes(v, m, ch) /\ Sized(ch, l)
      BY <1>4, <1>7, <2>1 DEF RequestBytes
  <2>3. /\ Sized(ir, 6 + l + 1)
        /\ ir[1] = 0 /\ ir[2] = 0 /\ ir[3] = 1 /\ ir[4] = v /\ ir[5] = 1 /\ ir[6] = m
      BY <2>2, RequestLaidOut
  <2>4. QED
      BY <2>1, <2>3
<1>9. PICK p \in Nat : p = 6 + l + 1
    BY <1>7
<1>10. ir \in Seq(U8) /\ Len(ir) = p
    BY <1>8, <1>9 DEF Sized
<1>11. p \in 8 .. 128 /\ p > 6
  <2>1. ~(p > 128)
      BY <1>6, <1>10
  <2>2. QED
      BY <1>7, <1>9, <2>1
<1>12. n \in 0 .. 119
  <2>1. CASE a.auth_value = <<>>
      BY <2>1, EmptySeq
  <2>2. CASE l = 2 + n
    <3>1. PICK k \in Nat : k = n
        BY <1>2
    <3>2. l = 2 + k
        BY <2>2, <3>1
    <3>3. k \in 0 .. 119
        BY <1>9, <1>11, <3>2
    <3>4. QED
        BY <3>1, <3>3
  <2>3. QED
      BY <1>7, <2>1, <2>2
<1>13. InitiateRequest(ir) = [dlms_version |-> a.dlms_version, auth_mech |-> a.auth_mech]
    BY <1>8, <1>10, <1>11, InitiateRead
<1>14. Sized(ir, p)
    BY <1>8, <1>9
<1>15. QED
    BY <1>6, <1>11, <1>12, <1>13, <1>14

\* Length of tagged bytes, and that they are the whole of themselves.
LEMMA TaggedSized ==
    ASSUME NEW tag \in U8, NEW m \in U16, NEW c, Sized(c, m)
    PROVE  \E k \in 2 .. 4 : /\ Sized(Tagged(tag, c), k + m)
                             /\ Element(Tagged(tag, c), tag, c, m, <<>>, 0, k)
<1>1. PICK i \in 2 .. 4 : Glued(Tagged(tag, c), Header(tag, m), i, c, m)
    BY TaggedTyped
<1>2. Sized(Tagged(tag, c), i + m)
    BY <1>1 DEF Glued
<1>3. PICK j : j = i + m
    OBVIOUS
<1>4. Glued(Tagged(tag, c), Tagged(tag, c), j, <<>>, 0)
    BY <1>2, <1>3, GluedNothing
<1>5. PICK k \in 2 .. 4 : Element(Tagged(tag, c), tag, c, m, <<>>, 0, k) /\ j = k + m
    BY <1>4, TaggedRead
<1>6. QED
    BY <1>2, <1>3, <1>5

\* The user information as it is written, and as its fields are read.
UserBytes(w, init) == Tagged(190, w \o Tagged(129, init))

\* u is read as user information with an authentication value, or none, and an
\* initiate request or response.
FieldsFound(u, v, init) ==
    /\ \E q \in 0 .. 700 : Sized(u, q)
    /\ StartsWith(u, 190)
    /\ dlms_ber_decode_tag(u).code = "OK"
    /\ UserFields(u) = Fields(<<>>, v, <<init>>)

LEMMA UserRead ==
    ASSUME NEW w, NEW j \in 0 .. 300, NEW v, NEW l, AuthField(w, j, v, l), Sized(w, j),
           NEW init, NEW p \in 0 .. 300, Sized(init, p)
    PROVE  FieldsFound(UserBytes(w, init), v, init)
<1>1. 190 \in U8 /\ 129 \in U8 /\ p \in U16
    BY InU16 DEF U8
<1>2. PICK t : t = Tagged(129, init)
    OBVIOUS
<1>3. PICK k \in 2 .. 4 : Sized(t, k + p)
    BY <1>1, <1>2, TaggedSized
<1>4. PICK info : info = w \o t
    OBVIOUS
<1>5. PICK q \in Nat : q = k + p /\ q <= 304
    OBVIOUS
<1>6. Glued(info, w, j, t, q)
    BY <1>3, <1>4, <1>5, Glue
<1>7. Sized(info, j + q)
    BY <1>6 DEF Glued
<1>8. PICK m \in Nat : m = j + q
    BY <1>5
<1>9. m \in U16 /\ m <= 604
  <2>1. m <= 604 /\ m < 65536
      BY <1>5, <1>8
  <2>2. QED
      BY <2>1, Wide
<1>10. UserFields(Tagged(190, info)) = Fields(<<>>, v, <<init>>)
    BY <1>1, <1>2, <1>6, <1>7, <1>8, <1>9, FieldsRead
<1>11. PICK i \in 2 .. 4 : /\ Sized(Tagged(190, info), i + m)
                           /\ Element(Tagged(190, info), 190, info, m, <<>>, 0, i)
    BY <1>1, <1>7, <1>8, <1>9, TaggedSized
<1>12. /\ StartsWith(Tagged(190, info), 190)
       /\ dlms_ber_decode_tag(Tagged(190, info)) = [code |-> "OK", length |-> m, consumed |-> i]
    BY <1>11 DEF Element
<1>13. i + m \in 0 .. 700
    BY <1>8, <1>9
<1>14. UserBytes(w, init) = Tagged(190, info)
    BY <1>2, <1>4 DEF UserBytes
<1>15. dlms_ber_decode_tag(Tagged(190, info)).code = "OK"
    BY <1>12
<1>16. \E y \in 0 .. 700 : Sized(Tagged(190, info), y)
    BY <1>11, <1>13
<1>17. FieldsFound(Tagged(190, info), v, init)
    BY <1>10, <1>12, <1>15, <1>16, Zenon DEF FieldsFound
<1>18. QED
    BY <1>14, <1>17

\* What dlms_aarq_decode makes of an AARQ around the user information u.
LEMMA AarqRead ==
    ASSUME NEW u, NEW n \in 0 .. 700, Sized(u, n), StartsWith(u, 190),
           dlms_ber_decode_tag(u).code = "OK",
           NEW x, x = Tagged(TAG_AARQ, app_ctx \o u)
    PROVE  /\ \E j \in Nat : Sized(x, j)
           /\ dlms_aarq_decode(x) = DecodedAarq(Len(x), AarqFields(u))
<1>1. PICK c : c = app_ctx \o u
    OBVIOUS
<1>2. Glued(c, app_ctx, 9, u, n)
    BY <1>1, ContextTyped, Glue
<1>3. PICK m \in Nat : m = 9 + n
    OBVIOUS
<1>4. Sized(c, m)
    BY <1>2, <1>3 DEF Glued
<1>5. m \in U16 /\ 96 \in U8
  <2>1. m < 65536
      BY <1>3
  <2>2. 96 \in U8
      BY DEF U8
  <2>3. QED
      BY <2>1, <2>2, Wide
<1>6. x = Tagged(96, c)
    BY <1>1 DEF TAG_AARQ
<1>7. PICK k \in 2 .. 4 : Sized(x, k + m) /\ Element(x, 96, c, m, <<>>, 0, k)
    BY <1>4, <1>5, <1>6, TaggedSized
<1>8. /\ StartsWith(x, 96)
      /\ dlms_ber_decode_tag(x) = [code |-> "OK", length |-> m, consumed |-> k]
      /\ Drop(x, k) = c \o <<>>
    BY <1>7 DEF Element
<1>9. Drop(x, k) = c
  <2>1. c \in Seq(U8)
      BY <1>4 DEF Sized
  <2>2. c \o <<>> = c
      BY <2>1, ConcatEmptySeq
  <2>3. QED
      BY <1>8, <2>2
<1>10. AfterContext(c) = [code |-> "OK", rest |-> u]
    BY <1>2, ContextRead
<1>11. PICK j \in Nat : j = k + m
    OBVIOUS
<1>12. Len(x) = j
    BY <1>7, <1>11 DEF Sized
<1>13. ~(j < 2) /\ ~(j > j)
    BY <1>3, <1>11
<1>14. x[1] = 96
    BY <1>8 DEF StartsWith
<1>15. PICK header : header = dlms_ber_decode_tag(x)
    OBVIOUS
<1>16. header.code = "OK" /\ header.consumed = k /\ header.consumed + header.length = j
    BY <1>8, <1>11, <1>15
<1>17. PICK context : context = AfterContext(Drop(x, header.consumed))
    OBVIOUS
<1>18. context.code = "OK" /\ context.rest = u
    BY <1>9, <1>10, <1>16, <1>17
<1>19. PICK f : f = AarqFields(u)
    OBVIOUS
<1>20. dlms_aarq_decode(x) = DecodedAarq(j, f)
    BY <1>12, <1>13, <1>14, <1>15, <1>16, <1>17, <1>18, <1>19
       DEF dlms_aarq_decode, TAG_AARQ
<1>21. QED
    BY <1>7, <1>11, <1>12, <1>19, <1>20

LEMMA OnlyOne ==
    ASSUME NEW c
    PROVE  <<c>> # <<>> /\ Last(<<c>>) = c
<1>1. Len(<<c>>) = 1 /\ <<c>>[1] = c
    OBVIOUS
<1>2. Len(<<>>) = 0
    OBVIOUS
<1>3. QED
    BY <1>1, <1>2 DEF Last

\* The authentication value in front of an initiate request or response.
AuthBytes(v) == IF v = <<>> THEN <<>> ELSE <<128, Lo(Len(v))>> \o v

LEMMA AuthWritten ==
    ASSUME NEW v, NEW n \in 0 .. 255, Sized(v, n)
    PROVE  \E j \in 0 .. 257 : Sized(AuthBytes(v), j) /\ AuthField(AuthBytes(v), j, v, n)
<1>1. CASE v = <<>>
  <2>1. AuthBytes(v) = <<>>
      BY <1>1 DEF AuthBytes
  <2>2. Sized(<<>>, 0)
      BY EmptySeq DEF Sized
  <2>3. AuthField(AuthBytes(v), 0, v, n)
      BY <1>1, <2>1 DEF AuthField
  <2>4. QED
      BY <2>1, <2>2, <2>3
<1>2. CASE v # <<>>
  <2>1. n \in Nat /\ n <= 255
      OBVIOUS
  <2>2. Lo(n) = n /\ n \in U8
      BY <2>1, LowByte
  <2>3. 128 \in U8
      BY DEF U8
  <2>4. AuthBytes(v) = <<128, n>> \o v
    <3>1. Len(v) = n
        BY DEF Sized
    <3>2. QED
        BY <1>2, <2>2, <3>1 DEF AuthBytes
  <2>5. Sized(<<128, n>>, 2)
      BY <2>2, <2>3, Pair
  <2>6. Glued(AuthBytes(v), <<128, n>>, 2, v, n)
      BY <2>4, <2>5, Glue
  <2>7. PICK j \in 0 .. 257 : j = 2 + n
      BY <2>1
  <2>8. Sized(AuthBytes(v), 2 + n)
      BY <2>6 DEF Glued
  <2>9. AuthField(AuthBytes(v), 2 + n, v, n)
      BY <2>2, <2>6 DEF AuthField
  <2>10. QED
      BY <2>7, <2>8, <2>9
<1>3. QED
    BY <1>1, <1>2

AarqBytes(a) ==
    Tagged(TAG_AARQ,
           app_ctx \o UserBytes(AuthBytes(a.auth_value), dlms_initiate_request_encode(a).bytes))

LEMMA AarqEncoded ==
    ASSUME NEW a, dlms_aarq_encode(a, FrameBuf).code = "OK"
    PROVE  /\ dlms_initiate_request_encode(a).code = "OK"
           /\ ~(Len(AarqBytes(a)) > 512)
           /\ dlms_aarq_encode(a, FrameBuf) = [code |-> "OK", bytes |-> AarqBytes(a)]
<1>1. dlms_aarq_encode(a, FrameBuf) =
          IF dlms_initiate_request_encode(a).code # "OK" THEN dlms_initiate_request_encode(a)
          ELSE IF Len(AarqBytes(a)) > FrameBuf THEN Error("BUFFER")
          ELSE [code |-> "OK", bytes |-> AarqBytes(a)]
    BY DEF dlms_aarq_encode, AarqBytes, UserBytes, AuthBytes
<1>2. PICK e, i, x : /\ e = dlms_aarq_encode(a, FrameBuf)
                     /\ i = dlms_initiate_request_encode(a) /\ x = AarqBytes(a)
    OBVIOUS
<1>3. e = IF i.code # "OK" THEN i
          ELSE IF Len(x) > 512 THEN Error("BUFFER") ELSE [code |-> "OK", bytes |-> x]
    BY <1>1, <1>2 DEF FrameBuf
<1>4. e.code = "OK"
    BY <1>2
<1>5. Error("BUFFER").code # "OK"
    BY DEF Error
<1>6. i.code = "OK" /\ ~(Len(x) > 512) /\ e = [code |-> "OK", bytes |-> x]
    BY <1>3, <1>4, <1>5
<1>7. QED
    BY <1>2, <1>6

\* The fields of the only initiate request.
LEMMA AarqFieldsRead ==
    ASSUME NEW u, NEW r, NEW v, NEW init, UserFields(u) = Fields(r, v, <<init>>),
           NEW ver, NEW mech,
           InitiateRequest(init) = [dlms_version |-> ver, auth_mech |-> mech]
    PROVE  /\ AarqFields(u).auth_value = v
           /\ AarqFields(u).dlms_version = ver
           /\ AarqFields(u).auth_mech = mech
<1>1. PICK uf : uf = UserFields(u)
    OBVIOUS
<1>2. uf.auth_value = v /\ uf.initiates = <<init>>
    BY <1>1 DEF Fields
<1>3. uf.initiates # <<>> /\ Last(uf.initiates) = init
    BY <1>2, OnlyOne
<1>4. PICK ir : ir = InitiateRequest(IF uf.initiates = <<>> THEN <<>> ELSE Last(uf.initiates))
    OBVIOUS
<1>5. ir.dlms_version = ver /\ ir.auth_mech = mech
    BY <1>3, <1>4
<1>6. AarqFields(u) = [auth_value |-> uf.auth_value, dlms_version |-> ir.dlms_version,
                       auth_mech |-> ir.auth_mech]
    BY <1>1, <1>4 DEF AarqFields
<1>7. QED
    BY <1>2, <1>5, <1>6

\* An AARQ that fits the buffer is decoded to what was asked.
LEMMA AarqRoundTrip ==
    ASSUME NEW a \in Asked, dlms_aarq_encode(a, FrameBuf).code = "OK",
           NEW x, x = dlms_aarq_encode(a, FrameBuf).bytes
    PROVE  /\ \E k \in 0 .. 512 : Sized(x, k)
           /\ dlms_aarq_decode(x) =
                  [code |-> "OK", consumed |-> Len(x), auth_value |-> a.auth_value,
                   auth_mech |-> a.auth_mech, dlms_version |-> a.dlms_version]
<1>1. PICK i : i = dlms_initiate_request_encode(a)
    OBVIOUS
<1>2. PICK v, ver, mech : v = a.auth_value /\ ver = a.dlms_version /\ mech = a.auth_mech
    OBVIOUS
<1>3. PICK init : init = i.bytes
    OBVIOUS
<1>4. PICK w : w = AuthBytes(v)
    OBVIOUS
<1>5. PICK u : u = UserBytes(w, init)
    OBVIOUS
<1>6. i.code = "OK" /\ ~(Len(x) > 512) /\ x = Tagged(TAG_AARQ, app_ctx \o u)
  <2>1. x = AarqBytes(a)
      BY AarqEncoded
  <2>2. AarqBytes(a) = Tagged(TAG_AARQ, app_ctx \o u)
      BY <1>1, <1>2, <1>3, <1>4, <1>5 DEF AarqBytes
  <2>3. i.code = "OK" /\ ~(Len(AarqBytes(a)) > 512)
      BY <1>1, AarqEncoded
  <2>4. QED
      BY <2>1, <2>2, <2>3
<1>7. PICK n : n = Len(v)
    OBVIOUS
<1>8. /\ n \in 0 .. 119
      /\ \E p \in 8 .. 128 : Sized(init, p)
      /\ InitiateRequest(init) = [dlms_version |-> ver, auth_mech |-> mech]
    BY <1>1, <1>2, <1>3, <1>6, <1>7, InitiateEncoded, ZenonT(40)
<1>9. v \in Seq(U8)
    BY <1>2 DEF Asked
<1>10. PICK l \in 0 .. 255 : l = n
    BY <1>8
<1>11. Sized(v, l)
  <2>1. n \in Nat
      BY <1>8
  <2>2. QED
      BY <1>7, <1>9, <1>10, <2>1 DEF Sized
<1>12. PICK g, j : j \in 0 .. 300 /\ Sized(w, j) /\ AuthField(w, j, v, g)
  <2>1. PICK j \in 0 .. 257 : Sized(w, j) /\ AuthField(w, j, v, l)
      BY <1>4, <1>11, AuthWritten
  <2>2. j \in 0 .. 300
      OBVIOUS
  <2>3. QED
      BY <2>1, <2>2
<1>13. PICK p \in 0 .. 300 : Sized(init, p)
  <2>1. PICK p \in 8 .. 128 : Sized(init, p)
      BY <1>8
  <2>2. p \in 0 .. 300
      OBVIOUS
  <2>3. QED
      BY <2>1, <2>2
<1>14. /\ \E q \in 0 .. 700 : Sized(u, q)
       /\ StartsWith(u, 190)
       /\ dlms_ber_decode_tag(u).code = "OK"
       /\ UserFields(u) = Fields(<<>>, v, <<init>>)
  <2>1. AuthField(w, j, v, g) /\ Sized(w, j) /\ Sized(init, p)
      BY <1>12, <1>13
  <2>2. FieldsFound(UserBytes(w, init), v, init)
      BY <1>12, <2>1, UserRead
  <2>3. QED
      BY <1>5, <2>2 DEF FieldsFound
<1>15. PICK f : f = AarqFields(u)
    OBVIOUS
<1>16. f.auth_value = v /\ f.dlms_version = ver /\ f.auth_mech = mech
    BY <1>8, <1>14, <1>15, AarqFieldsRead
<1>17. PICK q \in 0 .. 700 : Sized(u, q)
    BY <1>14
<1>18. /\ \E k \in Nat : Sized(x, k)
       /\ dlms_aarq_decode(x) = DecodedAarq(Len(x), f)
    BY <1>6, <1>14, <1>15, <1>17, AarqRead, ZenonT(40)
<1>19. \E k \in 0 .. 512 : Sized(x, k)
  <2>1. PICK k \in Nat : Sized(x, k)
      BY <1>18
  <2>2. Len(x) = k
      BY <2>1 DEF Sized
  <2>3. k \in 0 .. 512
      BY <1>6, <2>2
  <2>4. QED
      BY <2>1, <2>3
<1>20. QED
    BY <1>2, <1>16, <1>18, <1>19 DEF DecodedAarq

------------------------------------------------------------------------------
(* The frames around the APDUs. *)

InfoFrame(dest, src, info) ==
    [type |-> "INFO", dest |-> dest, src |-> src, send_seq |-> 0, recv_seq |-> 0,
     final |-> TRUE, info |-> info]

LEMMA InfoSendable ==
    ASSUME NEW dest \in Addresses, NEW src \in Addresses, NEW info \in Seq(U8)
    PROVE  Sendable(InfoFrame(dest, src, info))
<1>1. 0 \in 0 .. 7
    OBVIOUS
<1>2. PICK yes \in BOOLEAN : yes = TRUE
    OBVIOUS
<1>3. PICK f : f = InfoFrame(dest, src, info)
    OBVIOUS
<1>4. f \in [type : {"SNRM", "UA", "DISC", "RR", "INFO", "UI"}, dest : Addresses,
             src : Addresses, send_seq : 0 .. 7, recv_seq : 0 .. 7,
             final : BOOLEAN, info : Seq(U8)]
    BY <1>1, <1>3 DEF InfoFrame
<1>5. f.type = "INFO"
    BY <1>3 DEF InfoFrame
<1>6. QED
    BY <1>3, <1>4, <1>5 DEF Sendable

LEMMA EndsPlain ==
    /\ Client \in Addresses /\ PlainAddress(Client)
    /\ Server \in Addresses /\ PlainAddress(Server)
<1>1. Client \in Addresses /\ Server \in Addresses
    BY InU14 DEF Client, Server, Addresses
<1>2. Plain(16) /\ Plain(1)
    BY DEF Plain
<1>3. Client.logical = 16 /\ ~Client.has_physical /\ Server.logical = 1 /\ ~Server.has_physical
    BY DEF Client, Server
<1>4. QED
    BY <1>1, <1>2, <1>3 DEF PlainAddress

\* The other end finds the bytes that were put in a frame.
Carries(data, info) ==
    /\ data # <<>>
    /\ dlms_hdlc_frame_decode(data).code = "OK"
    /\ dlms_hdlc_frame_decode(data).type = "INFO"
    /\ dlms_hdlc_frame_decode(data).info = info

LEMMA Delivered ==
    ASSUME NEW dest \in Addresses, NEW src \in Addresses, PlainAddress(src),
           NEW info \in Seq(U8), NEW b, b = dlms_hdlc_build_info(dest, src, info, FrameBuf),
           b.code = "OK"
    PROVE  Carries(b.wire, info)
<1>1. PICK f : f = InfoFrame(dest, src, info)
    OBVIOUS
<1>2. PICK raw : raw = RawFrame(f)
    OBVIOUS
<1>3. PICK data : data = <<FLAG>> \o dlms_hdlc_stuff(raw) \o <<FLAG>>
    OBVIOUS
<1>4. b = IF Len(raw) - 2 > 256 \/ 512 < 2 * Len(raw) + 2 THEN Error("BUFFER")
          ELSE [code |-> "OK", wire |-> data]
  <2>1. b = dlms_hdlc_frame_encode(f, FrameBuf)
      BY <1>1 DEF dlms_hdlc_build_info, InfoFrame
  <2>2. QED
      BY <1>2, <1>3, <2>1 DEF dlms_hdlc_frame_encode, MAX_FRAME_SIZE, FrameBuf
<1>5. ~(512 < 2 * Len(raw) + 2) /\ b.wire = data
  <2>1. Error("BUFFER").code # "OK"
      BY DEF Error
  <2>2. QED
      BY <1>4, <2>1
<1>6. Sendable(f)
    BY <1>1, InfoSendable
<1>7. f.src = src /\ f.info = info /\ f.type = "INFO"
    BY <1>1 DEF InfoFrame
<1>8. \E n \in {2, 4} : LaidOut(f, raw, n, Len(f.info))
    BY <1>2, <1>6, RawLaidOut
<1>9. raw \in Seq(U8)
    BY <1>8 DEF LaidOut
<1>10. PICK k \in Nat : k = Len(raw)
    BY <1>9, LenProperties
<1>11. k <= 256
    BY <1>5, <1>10
<1>12. dlms_hdlc_frame_decode(data) = Meaning(f)
    BY <1>2, <1>3, <1>6, <1>7, <1>10, <1>11, FrameDecoded DEF MAX_FRAME_SIZE
<1>13. PICK m : m = Meaning(f)
    OBVIOUS
<1>14. m.code = "OK" /\ m.type = "INFO" /\ m.info = info
    BY <1>7, <1>13 DEF Meaning
<1>15. data # <<>>
  <2>1. PICK s \in Seq(U8) : s = dlms_hdlc_stuff(raw)
      BY <1>9, StuffTyped
  <2>2. data \in Seq(U8) /\ Len(data) = Len(s) + 2
      BY <1>3, <2>1, Flagged
  <2>3. PICK l \in Nat : l = Len(s)
      BY <2>1, LenProperties
  <2>4. Len(data) # 0
      BY <2>2, <2>3
  <2>5. QED
      BY <2>4
<1>16. QED
    BY <1>5, <1>12, <1>13, <1>14, <1>15 DEF Carries

------------------------------------------------------------------------------
(* The initiate response. *)

\* Where a reader of the response has got to, and what it has found.
Reading(s, resp) == [ok |-> TRUE, rest |-> s, resp |-> resp]

Response(v, m, t, p) ==
    [dlms_version |-> v, auth_mech |-> m, title |-> t, negotiated_max_pdu_size |-> p]

LEMMA ByteTaken ==
    ASSUME NEW s, s[1] = 1, ~(Len(s) < 2), NEW resp, NEW field
    PROVE  ByteField(Reading(s, resp), field)
               = Reading(Drop(s, 2), [resp EXCEPT ![field] = s[2]])
<1>1. PICK st : st = Reading(s, resp)
    OBVIOUS
<1>2. st.ok /\ st.rest = s /\ st.resp = resp
    BY <1>1 DEF Reading
<1>3. ByteField(st, field) = IF ~st.ok \/ Len(s) < 2 \/ ~(s[1] \in {0, 1})
                             THEN [st EXCEPT !.ok = FALSE]
                             ELSE IF s[1] = 0 THEN [st EXCEPT !.rest = Tail(s)]
                             ELSE [ok |-> TRUE, rest |-> Drop(s, 2),
                                   resp |-> [st.resp EXCEPT ![field] = s[2]]]
    BY <1>2 DEF ByteField
<1>4. ~(~st.ok \/ Len(s) < 2 \/ ~(s[1] \in {0, 1})) /\ s[1] # 0
    BY <1>2
<1>5. ByteField(st, field) = [ok |-> TRUE, rest |-> Drop(s, 2),
                              resp |-> [st.resp EXCEPT ![field] = s[2]]]
    BY <1>3, <1>4
<1>6. QED
    BY <1>1, <1>2, <1>5 DEF Reading

LEMMA ByteRead ==
    ASSUME NEW s, NEW x, NEW n, NEW k, Left(s, x, n, k), k + 1 < n, x[k + 1] = 1,
           NEW b, x[k + 2] = b, NEW resp, NEW field
    PROVE  ByteField(Reading(s, resp), field)
               = Reading(Drop(s, 2), [resp EXCEPT ![field] = b])
<1>1. Len(s) = n - k /\ s[1] = 1 /\ s[2] = b
    BY LeftFacts
<1>2. ~(Len(s) < 2)
    BY <1>1 DEF Left
<1>3. QED
    BY <1>1, <1>2, ByteTaken

LEMMA ReadingOn ==
    \A s, t, resp : [Reading(s, resp) EXCEPT !.rest = t] = Reading(t, resp)
<1>1. \A yes, s, t, resp : [[ok |-> yes, rest |-> s, resp |-> resp] EXCEPT !.rest = t]
                             = [ok |-> yes, rest |-> t, resp |-> resp]
    OBVIOUS
<1>2. QED
    BY <1>1 DEF Reading

LEMMA ResponseFields ==
    /\ \A v, m, t, p, b : [Response(v, m, t, p) EXCEPT !["dlms_version"] = b]
                              = Response(b, m, t, p)
    /\ \A v, m, t, p, b : [Response(v, m, t, p) EXCEPT !["auth_mech"] = b]
                              = Response(v, b, t, p)
    /\ \A v, m, t, p, b : [Response(v, m, t, p) EXCEPT !.title = b]
                              = Response(v, m, b, p)
    /\ \A v, m, t, p, b : [Response(v, m, t, p) EXCEPT !.negotiated_max_pdu_size = b]
                              = Response(v, m, t, b)
BY DEF Response

\* The bytes up to the mechanism.
ResponseHead(v, m) == <<0, 1, v, 1, m>>

LEMMA HeadTyped ==
    ASSUME NEW v \in U8, NEW m \in U8, NEW h, h = ResponseHead(v, m)
    PROVE  Sized(h, 5) /\ h[1] = 0 /\ h[2] = 1 /\ h[3] = v /\ h[4] = 1 /\ h[5] = m
<1>1. 0 \in U8 /\ 1 \in U8
    BY DEF U8
<1>2. h = <<0, 1, v, 1, m>>
    BY DEF ResponseHead
<1>3. h \in Seq(U8) /\ Len(h) = 5
    BY <1>1, <1>2
<1>4. QED
    BY <1>2, <1>3 DEF Sized

LEMMA HeadRead ==
    ASSUME NEW v \in U8, NEW m \in U8, NEW x, NEW y, NEW q,
           Glued(x, ResponseHead(v, m), 5, y, q), q > 0, NEW t, NEW p
    PROVE  ByteField(ByteField(Conformance(Reading(x, Response(Unset, Unset, t, p))),
                               "dlms_version"), "auth_mech")
               = Reading(y, Response(v, m, t, p))
<1>1. PICK h : h = ResponseHead(v, m)
    OBVIOUS
<1>2. Sized(h, 5) /\ h[1] = 0 /\ h[2] = 1 /\ h[3] = v /\ h[4] = 1 /\ h[5] = m
    BY <1>1, HeadTyped
<1>3. Glued(x, h, 5, y, q)
    BY <1>1
<1>4. \A i \in 1 .. 5 : x[i] = h[i]
    BY <1>3, GluedFirst
<1>5. x[1] = 0 /\ x[2] = 1 /\ x[3] = v /\ x[4] = 1 /\ x[5] = m
    BY <1>2, <1>4
<1>6. Drop(x, 5) = y
    BY <1>3, GluedRest
<1>7. q \in Nat /\ Sized(x, 5 + q)
    BY <1>3 DEF Glued, Sized
<1>8. PICK n \in Nat : n = 5 + q /\ n > 5
    BY <1>7
<1>9. x \in Seq(U8) /\ Len(x) = n
    BY <1>7, <1>8 DEF Sized
<1>10. x # <<>>
    BY <1>8, <1>9
<1>11. PICK s1 : s1 = Drop(x, 1)
    OBVIOUS
<1>12. Left(s1, x, n, 1)
    BY <1>8, <1>9, <1>11 DEF Left
<1>13. Tail(x) = s1
    BY <1>9, <1>10, <1>11, TailDrops
<1>14. PICK s3 : s3 = Drop(s1, 2)
    OBVIOUS
<1>15. Left(s3, x, n, 3)
  <2>1. 1 + 2 < n /\ 1 + 2 = 3
      BY <1>8
  <2>2. Left(Drop(s1, 2), x, n, 1 + 2)
      BY <1>12, <2>1, LeftOn
  <2>3. QED
      BY <1>14, <2>1, <2>2
<1>16. Drop(s3, 2) = y
  <2>1. 3 + 2 < n /\ 3 + 2 = 5
      BY <1>8
  <2>2. Left(Drop(s3, 2), x, n, 3 + 2)
      BY <1>15, <2>1, LeftOn
  <2>3. QED
      BY <1>6, <2>1, <2>2 DEF Left
<1>17. Conformance(Reading(x, Response(Unset, Unset, t, p)))
           = Reading(s1, Response(Unset, Unset, t, p))
  <2>1. PICK r : r = Response(Unset, Unset, t, p)
      OBVIOUS
  <2>2. PICK st : st = Reading(x, r)
      OBVIOUS
  <2>3. st.rest = x
      BY <2>2 DEF Reading
  <2>4. Conformance(st) = [st EXCEPT !.rest = s1]
      BY <1>5, <1>13, <2>3 DEF Conformance
  <2>5. [st EXCEPT !.rest = s1] = Reading(s1, r)
      BY <2>2, ReadingOn
  <2>6. QED
      BY <2>1, <2>2, <2>4, <2>5
<1>18. ByteField(Reading(s1, Response(Unset, Unset, t, p)), "dlms_version")
           = Reading(s3, Response(v, Unset, t, p))
  <2>1. 1 + 1 < n /\ 1 + 1 = 2 /\ 1 + 2 = 3
      BY <1>8
  <2>2. x[1 + 1] = 1 /\ x[1 + 2] = v
      BY <1>5, <2>1
  <2>3. PICK r : r = Response(Unset, Unset, t, p)
      OBVIOUS
  <2>4. PICK z \in Nat : z = 1
      OBVIOUS
  <2>5. Left(s1, x, n, z) /\ z + 1 < n /\ x[z + 1] = 1 /\ x[z + 2] = v
      BY <1>12, <2>1, <2>2, <2>4
  <2>6. ByteField(Reading(s1, r), "dlms_version")
            = Reading(Drop(s1, 2), [r EXCEPT !["dlms_version"] = v])
      BY <2>5, ByteRead
  <2>7. QED
      BY <1>14, <2>3, <2>6, ResponseFields
<1>19. ByteField(Reading(s3, Response(v, Unset, t, p)), "auth_mech")
           = Reading(y, Response(v, m, t, p))
  <2>1. 3 + 1 < n /\ 3 + 1 = 4 /\ 3 + 2 = 5
      BY <1>8
  <2>2. x[3 + 1] = 1 /\ x[3 + 2] = m
      BY <1>5, <2>1
  <2>3. PICK r : r = Response(v, Unset, t, p)
      OBVIOUS
  <2>4. PICK z \in Nat : z = 3
      OBVIOUS
  <2>5. Left(s3, x, n, z) /\ z + 1 < n /\ x[z + 1] = 1 /\ x[z + 2] = m
      BY <1>15, <2>1, <2>2, <2>4
  <2>6. ByteField(Reading(s3, r), "auth_mech")
            = Reading(Drop(s3, 2), [r EXCEPT !["auth_mech"] = m])
      BY <2>5, ByteRead
  <2>7. QED
      BY <1>16, <2>3, <2>6, ResponseFields
<1>20. QED
    BY <1>17, <1>18, <1>19

\* The bytes w of the title t, or of none.
TitleBytes(t) == IF t = <<>> THEN <<0>> ELSE <<1, Len(t)>> \o t
TitleField(w, j, t, l) ==
    \/ w = <<0>> /\ t = <<>> /\ j = 1
    \/ Glued(w, <<1, l>>, 2, t, l) /\ l \in 1 .. 8 /\ j = 2 + l

LEMMA TitleWritten ==
    ASSUME NEW t, NEW n \in 0 .. 8, Sized(t, n)
    PROVE  \E j \in 1 .. 10 : Sized(TitleBytes(t), j) /\ TitleField(TitleBytes(t), j, t, n)
<1>1. CASE t = <<>>
  <2>1. TitleBytes(t) = <<0>>
      BY <1>1 DEF TitleBytes
  <2>2. 0 \in U8
      BY DEF U8
  <2>3. Sized(<<0>>, 1)
      BY <2>2, Small
  <2>4. TitleField(TitleBytes(t), 1, t, n)
      BY <1>1, <2>1 DEF TitleField
  <2>5. QED
      BY <2>1, <2>3, <2>4
<1>2. CASE t # <<>>
  <2>1. n \in 1 .. 8
    <3>1. n # 0
        BY <1>2, EmptySeq DEF Sized
    <3>2. QED
        BY <3>1
  <2>2. n \in U8 /\ 1 \in U8
      BY DEF U8
  <2>3. TitleBytes(t) = <<1, n>> \o t
    <3>1. Len(t) = n
        BY DEF Sized
    <3>2. QED
        BY <1>2, <3>1 DEF TitleBytes
  <2>4. Sized(<<1, n>>, 2)
      BY <2>2, Pair
  <2>5. Glued(TitleBytes(t), <<1, n>>, 2, t, n)
      BY <2>3, <2>4, Glue
  <2>6. PICK j \in 1 .. 10 : j = 2 + n
      OBVIOUS
  <2>7. Sized(TitleBytes(t), 2 + n)
      BY <2>5 DEF Glued
  <2>8. TitleField(TitleBytes(t), 2 + n, t, n)
      BY <2>1, <2>5 DEF TitleField
  <2>9. QED
      BY <2>6, <2>7, <2>8
<1>3. QED
    BY <1>1, <1>2

LEMMA NoTitleRead ==
    ASSUME NEW x, NEW y, NEW q, Glued(x, << 0 >>, 1, y, q), NEW v, NEW m, NEW p
    PROVE  Title(Reading(x, Response(v, m, Unset, p))) = Reading(y, Response(v, m, <<>>, p))
<1>1. \A i \in 1 .. 1 : x[i] = <<0>>[i]
    BY GluedFirst
<1>2. x[1] = 0
    BY <1>1
<1>3. Drop(x, 1) = y
    BY GluedRest
<1>4. x \in Seq(U8) /\ x # <<>>
  <2>1. Sized(x, 1 + q) /\ q \in Nat
      BY DEF Glued, Sized
  <2>2. x \in Seq(U8) /\ Len(x) = 1 + q /\ 1 + q # 0
      BY <2>1 DEF Sized
  <2>3. QED
      BY <2>2
<1>5. StartsWith(x, 0) /\ Tail(x) = y
    BY <1>2, <1>3, <1>4, TailDrops DEF StartsWith
<1>6. PICK r : r = Response(v, m, Unset, p)
    OBVIOUS
<1>7. PICK st : st = Reading(x, r)
    OBVIOUS
<1>8. st.ok /\ st.rest = x /\ st.resp = r
    BY <1>7 DEF Reading
<1>9. Title(st) = [ok |-> TRUE, rest |-> y, resp |-> [r EXCEPT !.title = <<>>]]
    BY <1>5, <1>8 DEF Title
<1>10. [r EXCEPT !.title = <<>>] = Response(v, m, <<>>, p)
    BY <1>6, ResponseFields
<1>11. Title(st) = Reading(y, Response(v, m, <<>>, p))
    BY <1>9, <1>10 DEF Reading
<1>12. QED
    BY <1>6, <1>7, <1>11

LEMMA TitleRead ==
    ASSUME NEW x, NEW w, NEW j, NEW y, NEW q, Glued(x, w, j, y, q),
           NEW t, NEW l, TitleField(w, j, t, l), NEW v, NEW m, NEW p
    PROVE  Title(Reading(x, Response(v, m, Unset, p))) = Reading(y, Response(v, m, t, p))
<1>1. CASE w = <<0>> /\ t = <<>> /\ j = 1
  <2>1. Glued(x, <<0>>, 1, y, q)
      BY <1>1
  <2>2. QED
      BY <1>1, <2>1, NoTitleRead
<1>2. CASE Glued(w, <<1, l>>, 2, t, l) /\ l \in 1 .. 8 /\ j = 2 + l
  <2>1. Glued(w, <<1, l>>, 2, t, l)
      BY <1>2
  <2>2. l \in 1 .. 8
      BY <1>2
  <2>3. PICK z : Glued(x, <<1, l>>, 2, z, l + q) /\ Glued(z, t, l, y, q)
      BY <2>1, GluedTwice
  <2>4. PICK o : o = l + q
      OBVIOUS
  <2>5. Glued(x, <<1, l>>, 2, z, o)
      BY <2>4, <2>3
  <2>6. Glued(z, t, l, y, q)
      BY <2>3
  <2>7. \A i \in 1 .. 2 : x[i] = <<1, l>>[i]
      BY <2>5, GluedFirst
  <2>8. x[1] = 1 /\ x[2] = l
      BY <2>7
  <2>9. SubSeq(x, 2 + 1, 2 + l) = t /\ Drop(x, 2 + l) = y /\ Sized(x, 2 + (l + q))
      BY <2>5, <2>6, PieceRead
  <2>10. q \in Nat
      BY <2>6 DEF Glued, Sized
  <2>11. PICK k \in Nat : k = Len(x) /\ k = 2 + (l + q)
      BY <2>9, <2>10 DEF Sized
  <2>12. x # <<>> /\ ~(k < 2) /\ ~(2 + l > k)
    <3>1. ~(k < 2) /\ ~(2 + l > k) /\ k # 0
        BY <2>10, <2>11, <2>2
    <3>2. QED
        BY <2>11, <3>1
  <2>13. PICK n : n = IF x[2] > 8 THEN 8 ELSE x[2]
      OBVIOUS
  <2>14. n = l /\ 2 + 1 = 3
      BY <2>8, <2>13, <2>2
  <2>15. StartsWith(x, 1) /\ ~StartsWith(x, 0)
      BY <2>8, <2>12 DEF StartsWith
  <2>16. SubSeq(x, 3, 2 + n) = t /\ Drop(x, 2 + n) = y
      BY <2>9, <2>14
  <2>17. ~(Len(x) < 2) /\ ~(2 + x[2] > Len(x))
      BY <2>8, <2>11, <2>12
  <2>18. PICK r : r = Response(v, m, Unset, p)
      OBVIOUS
  <2>19. PICK st : st = Reading(x, r)
      OBVIOUS
  <2>20. st.ok /\ st.rest = x /\ st.resp = r
      BY <2>19 DEF Reading
  <2>21. Title(st) = [ok |-> TRUE, rest |-> y, resp |-> [r EXCEPT !.title = t]]
      BY <2>13, <2>15, <2>16, <2>17, <2>20 DEF Title
  <2>22. [r EXCEPT !.title = t] = Response(v, m, t, p)
      BY <2>18, ResponseFields
  <2>23. Title(st) = Reading(y, Response(v, m, t, p))
      BY <2>21, <2>22 DEF Reading
  <2>24. QED
      BY <2>18, <2>19, <2>23
<1>3. QED
    BY <1>1, <1>2 DEF TitleField

\* The bytes of the PDU size p, or of none.
PduBytes(p) == IF p = 0 THEN <<0>> ELSE <<1, Hi(p), Lo(p)>>
SizeRead(p) == IF p = 0 THEN Unset ELSE p

LEMMA PduRead ==
    ASSUME NEW p \in U16, NEW x, x = PduBytes(p), NEW v, NEW m, NEW t
    PROVE  /\ \E n \in {1, 3} : Sized(x, n)
           /\ PduSize(Reading(x, Response(v, m, t, Unset))) = Response(v, m, t, SizeRead(p))
<1>1. PICK r : r = Response(v, m, t, Unset)
    OBVIOUS
<1>2. PICK st : st = Reading(x, r)
    OBVIOUS
<1>3. st.ok /\ st.rest = x /\ st.resp = r
    BY <1>2 DEF Reading
<1>4. CASE p = 0
  <2>1. x = <<0>>
      BY <1>4 DEF PduBytes
  <2>2. 0 \in U8
      BY DEF U8
  <2>3. Sized(x, 1) /\ x[1] = 0
      BY <2>1, <2>2, Small
  <2>4. ~StartsWith(x, 1)
      BY <2>3 DEF StartsWith
  <2>5. PduSize(st) = r
      BY <1>3, <2>4 DEF PduSize
  <2>6. QED
      BY <1>1, <1>2, <1>4, <2>3, <2>5 DEF SizeRead
<1>5. CASE p # 0
  <2>1. PICK hi, lo : hi = Hi(p) /\ lo = Lo(p)
      OBVIOUS
  <2>2. hi \in U8 /\ lo \in U8 /\ Word(hi, lo) = p
      BY <2>1, Halves
  <2>3. 1 \in U8
      BY DEF U8
  <2>4. x = <<1, hi, lo>>
      BY <1>5, <2>1 DEF PduBytes
  <2>5. Sized(x, 3)
      BY <2>2, <2>3, <2>4 DEF Sized
  <2>6. x[1] = 1 /\ x[2] = hi /\ x[3] = lo /\ Len(x) > 2 /\ x # <<>>
      BY <2>4
  <2>7. StartsWith(x, 1)
      BY <2>6 DEF StartsWith
  <2>8. PduSize(st) = [r EXCEPT !.negotiated_max_pdu_size = Word(x[2], x[3])]
      BY <1>3, <2>6, <2>7 DEF PduSize
  <2>9. Word(x[2], x[3]) = p
      BY <2>2, <2>6
  <2>10. PduSize(st) = Response(v, m, t, p)
      BY <1>1, <2>8, <2>9, ResponseFields
  <2>11. QED
      BY <1>1, <1>2, <1>5, <2>5, <2>10 DEF SizeRead
<1>6. QED
    BY <1>4, <1>5

ResponseBytes(v, m, t, p) == ResponseHead(v, m) \o TitleBytes(t) \o PduBytes(p)

\* Of an initiate response every field is read as it was written.
LEMMA ResponseRead ==
    ASSUME NEW v \in U8, NEW m \in U8, NEW t, NEW n \in 0 .. 8, Sized(t, n), NEW p \in U16,
           NEW x, x = ResponseBytes(v, m, t, p)
    PROVE  /\ \E k \in 0 .. 300 : Sized(x, k)
           /\ dlms_initiate_response_decode(x) = Response(v, m, t, SizeRead(p))
<1>1. PICK h : h = ResponseHead(v, m)
    OBVIOUS
<1>2. PICK w : w = TitleBytes(t)
    OBVIOUS
<1>3. PICK u : u = PduBytes(p)
    OBVIOUS
<1>4. Sized(h, 5)
    BY <1>1, HeadTyped
<1>5. PICK j \in 1 .. 10 : Sized(w, j) /\ TitleField(w, j, t, n)
    BY <1>2, TitleWritten
<1>6. PICK k \in {1, 3} : Sized(u, k)
    BY <1>3, PduRead
<1>7. PICK y : y = w \o u
    OBVIOUS
<1>8. Glued(x, h, 5, y, j + k) /\ Glued(y, w, j, u, k)
  <2>1. Glued(h \o w, h, 5, w, j)
      BY <1>4, <1>5, Glue
  <2>2. Sized(h \o w, 5 + j)
      BY <2>1 DEF Glued
  <2>3. x = (h \o w) \o u
      BY <1>1, <1>2, <1>3 DEF ResponseBytes
  <2>4. Glued(x, h \o w, 5 + j, u, k)
      BY <1>6, <2>2, <2>3, Glue
  <2>5. QED
      BY <1>7, <2>1, <2>4, GluedTwice
<1>9. PICK q \in Nat : q = j + k /\ q > 0 /\ q <= 13
    OBVIOUS
<1>10. \E i \in 0 .. 300 : Sized(x, i)
  <2>1. PICK i \in 0 .. 300 : i = 5 + q
      BY <1>9
  <2>2. Sized(x, 5 + (j + k))
      BY <1>8 DEF Glued
  <2>3. QED
      BY <1>9, <2>1, <2>2
<1>11. ByteField(ByteField(Conformance(Reading(x, Response(Unset, Unset, Unset, Unset))),
                           "dlms_version"), "auth_mech")
           = Reading(y, Response(v, m, Unset, Unset))
  <2>1. Glued(x, ResponseHead(v, m), 5, y, q)
      BY <1>1, <1>8, <1>9
  <2>2. q > 0
      BY <1>9
  <2>3. QED
      BY <2>1, <2>2, HeadRead
<1>12. Title(Reading(y, Response(v, m, Unset, Unset))) = Reading(u, Response(v, m, t, Unset))
  <2>1. Glued(y, w, j, u, k)
      BY <1>8
  <2>2. QED
      BY <1>5, <2>1, TitleRead
<1>13. PduSize(Reading(u, Response(v, m, t, Unset))) = Response(v, m, t, SizeRead(p))
    BY <1>3, PduRead
<1>14. ~(Len(x) < 3)
  <2>1. Sized(x, 5 + (j + k))
      BY <1>8 DEF Glued
  <2>2. Len(x) = 5 + q
      BY <1>9, <2>1 DEF Sized
  <2>3. QED
      BY <1>9, <2>2
<1>15. dlms_initiate_response_decode(x)
           = PduSize(Title(ByteField(ByteField(
                 Conformance(Reading(x, Response(Unset, Unset, Unset, Unset))),
                 "dlms_version"), "auth_mech")))
    BY <1>14 DEF dlms_initiate_response_decode, Reading, Response
<1>16. QED
    BY <1>10, <1>11, <1>12, <1>13, <1>15

------------------------------------------------------------------------------
(* The AARE: its elements. *)

Answer(a) ==
    /\ a \in [form : AareFormKinds, accept : BOOLEAN, diag : BOOLEAN, ae : BOOLEAN,
              ui : BOOLEAN, dlms_version : U8, auth_mech : U8, auth_value : Seq(U8),
              title : Seq(U8), pdu : U16]
    /\ Len(a.title) <= 8

LEMMA Both ==
    ASSUME NEW a \in U8, NEW b \in U8
    PROVE  <<a>> \o <<b>> = <<a, b>>
<1>1. PICK p : p = <<a, b>> /\ Sized(p, 2) /\ p[1] = a /\ p[2] = b
  <2>1. Sized(<<a, b>>, 2) /\ <<a, b>>[1] = a /\ <<a, b>>[2] = b
      BY Pair
  <2>2. QED
      BY <2>1
<1>2. PICK s, t, q : s = <<a>> /\ t = <<b>> /\ q = s \o t
    OBVIOUS
<1>3. Sized(s, 1) /\ s[1] = a /\ Sized(t, 1) /\ t[1] = b
    BY <1>2, Small
<1>4. Glued(q, s, 1, t, 1)
    BY <1>2, <1>3, Glue
<1>5. \A i \in 1 .. 1 : q[i] = s[i]
    BY <1>4, GluedFirst
<1>6. \A i \in 1 .. 1 : q[1 + i] = t[i]
    BY <1>4, GluedNext
<1>7. q[1] = a /\ q[2] = b
  <2>1. 1 \in 1 .. 1 /\ 1 + 1 = 2
      OBVIOUS
  <2>2. q[1] = s[1] /\ q[1 + 1] = t[1]
      BY <1>5, <1>6, <2>1
  <2>3. QED
      BY <1>3, <2>1, <2>2
<1>8. q \in Seq(U8) /\ Len(q) = 2
  <2>1. Sized(q, 1 + 1) /\ 1 + 1 = 2
      BY <1>4 DEF Glued
  <2>2. QED
      BY <2>1 DEF Sized
<1>9. \A i \in 1 .. 2 : p[i] = q[i]
  <2>1. \A i \in 1 .. 2 : i = 1 \/ i = 2
      OBVIOUS
  <2>2. QED
      BY <1>1, <1>7, <2>1
<1>10. p = q
    BY <1>1, <1>8, <1>9, SeqEqual DEF Sized
<1>11. QED
    BY <1>1, <1>2, <1>10

\* A length takes three bytes at most, however long what follows is.
LEMMA AnyTagged ==
    ASSUME NEW tag \in U8, NEW c, NEW m, Sized(c, m)
    PROVE  /\ \E k \in 2 .. 4 : Sized(Tagged(tag, c), k + m)
           /\ StartsWith(Tagged(tag, c), tag)
<1>1. PICK e : e = dlms_ber_encode_length(m)
    OBVIOUS
<1>2. m \in Nat /\ Len(c) = m
    BY DEF Sized
<1>3. \E l \in 1 .. 3 : Sized(e, l)
  <2>1. CASE m <= 127
    <3>1. m \in U8 /\ e = <<m>>
        BY <1>1, <1>2, <2>1 DEF U8, dlms_ber_encode_length
    <3>2. Sized(<<m>>, 1)
        BY <3>1, Small
    <3>3. QED
        BY <3>1, <3>2
  <2>2. CASE m > 127 /\ m <= 255
    <3>1. m \in U8 /\ 129 \in U8 /\ e = <<129, m>>
        BY <1>1, <1>2, <2>2 DEF U8, dlms_ber_encode_length
    <3>2. Sized(<<129, m>>, 2)
        BY <3>1, Pair
    <3>3. QED
        BY <3>1, <3>2
  <2>3. CASE m > 255
    <3>1. e = <<130, Hi(m), Lo(m)>>
        BY <1>1, <1>2, <2>3 DEF dlms_ber_encode_length
    <3>2. 130 \in U8 /\ Hi(m) \in U8 /\ Lo(m) \in U8
        BY <1>2 DEF U8, Hi, Lo
    <3>3. e \in Seq(U8) /\ Len(e) = 3
        BY <3>1, <3>2
    <3>4. Sized(e, 3)
        BY <3>3 DEF Sized
    <3>5. QED
        BY <3>4
  <2>4. QED
      BY <1>2, <2>1, <2>2, <2>3
<1>4. PICK l \in 1 .. 3 : Sized(e, l)
    BY <1>3
<1>5. PICK h : h = <<tag>> \o e
    OBVIOUS
<1>6. Sized(<<tag>>, 1)
    BY Small
<1>7. Glued(h, <<tag>>, 1, e, l)
    BY <1>4, <1>5, <1>6, Glue
<1>8. Sized(h, 1 + l)
    BY <1>7 DEF Glued
<1>9. Glued(h \o c, h, 1 + l, c, m)
    BY <1>8, Glue
<1>10. Sized(h \o c, (1 + l) + m)
    BY <1>9 DEF Glued
<1>11. Tagged(tag, c) = h \o c
    BY <1>1, <1>2, <1>5 DEF Tagged
<1>12. PICK k \in 2 .. 4 : k = 1 + l
    OBVIOUS
<1>13. StartsWith(h \o c, tag)
  <2>1. \A i \in 1 .. 1 : h[i] = <<tag>>[i]
      BY <1>7, GluedFirst
  <2>2. PICK z \in Nat : z = 1 + l
      OBVIOUS
  <2>3. PICK x : x = h \o c
      OBVIOUS
  <2>4. Glued(x, h, z, c, m)
      BY <1>9, <2>2, <2>3
  <2>5. \A i \in 1 .. z : x[i] = h[i]
      BY <2>4, GluedFirst
  <2>6. 1 \in 1 .. z
      BY <2>2
  <2>7. x[1] = tag
      BY <2>1, <2>5, <2>6
  <2>8. Sized(x, z + m)
      BY <2>4 DEF Glued
  <2>9. z + m # 0
    <3>1. m \in Nat
        BY DEF Sized
    <3>2. z > 0
        BY <2>2
    <3>3. QED
        BY <3>1, <3>2
  <2>10. x # <<>>
    <3>1. Len(x) # 0
        BY <2>8, <2>9 DEF Sized
    <3>2. QED
        BY <3>1
  <2>11. QED
      BY <2>3, <2>7, <2>10 DEF StartsWith
<1>14. QED
    BY <1>10, <1>11, <1>12, <1>13

AuthTagged(v) == IF v = <<>> THEN <<>> ELSE Tagged(128, v)
DiagBytes(a) == IF a.diag THEN Tagged(161, <<2, 0>>) ELSE <<>>
AeBytes(a) == IF a.ae THEN Tagged(128, <<>>) ELSE <<>>
UiBytes(a) == IF a.ui THEN Tagged(190, UserInformation(a)) ELSE <<>>

LEMMA Parts ==
    ASSUME NEW a
    PROVE  /\ UserInformation(a) = AuthTagged(a.auth_value)
                   \o Tagged(129, ResponseBytes(a.dlms_version, a.auth_mech, a.title, a.pdu))
           /\ AareBytes(a) = Tagged(TAG_AARE, app_ctx \o ResultField(a) \o DiagBytes(a)
                                                  \o AeBytes(a) \o UiBytes(a))
BY DEF UserInformation, AuthTagged, InitiateResponse, ResponseBytes, ResponseHead,
       TitleBytes, PduBytes, AareBytes, DiagBytes, AeBytes, UiBytes

LEMMA NoneSized == Sized(<<>>, 0)
BY EmptySeq DEF Sized

LEMMA TitleSized ==
    ASSUME NEW a, Answer(a)
    PROVE  \E n \in 0 .. 8 : Sized(a.title, n)
<1>1. a.title \in Seq(U8) /\ Len(a.title) <= 8
    BY DEF Answer
<1>2. PICK n \in Nat : n = Len(a.title)
    BY <1>1, LenProperties
<1>3. n <= 8
    BY <1>1, <1>2
<1>4. n \in 0 .. 8
    BY <1>3
<1>5. Sized(a.title, n)
    BY <1>1, <1>2 DEF Sized
<1>6. QED
    BY <1>4, <1>5

LEMMA UiSized ==
    ASSUME NEW a, Answer(a)
    PROVE  \E n \in Nat : Sized(UserInformation(a), n)
<1>1. PICK w : w = AuthTagged(a.auth_value)
    OBVIOUS
<1>2. PICK v \in U8, m \in U8, p \in U16 :
          v = a.dlms_version /\ m = a.auth_mech /\ p = a.pdu
    BY DEF Answer
<1>3. PICK t : t = a.title
    OBVIOUS
<1>4. PICK x : x = ResponseBytes(v, m, t, p)
    OBVIOUS
<1>5. PICK j : Sized(w, j)
  <2>1. CASE a.auth_value = <<>>
      BY <1>1, <2>1, NoneSized DEF AuthTagged
  <2>2. CASE a.auth_value # <<>>
    <3>1. a.auth_value \in Seq(U8)
        BY DEF Answer
    <3>2. PICK c : c = a.auth_value
        OBVIOUS
    <3>3. PICK n \in Nat : n = Len(c)
        BY <3>1, <3>2, LenProperties
    <3>4. Sized(c, n)
        BY <3>1, <3>2, <3>3 DEF Sized
    <3>5. 128 \in U8
        BY DEF U8
    <3>6. \E k \in 2 .. 4 : Sized(Tagged(128, c), k + n)
        BY <3>4, <3>5, AnyTagged
    <3>7. w = Tagged(128, c)
        BY <1>1, <2>2, <3>2 DEF AuthTagged
    <3>8. QED
        BY <3>6, <3>7
  <2>3. QED
      BY <2>1, <2>2
<1>6. PICK i : Sized(x, i)
  <2>1. PICK n \in 0 .. 8 : Sized(t, n)
      BY <1>3, TitleSized
  <2>2. \E i \in 0 .. 300 : Sized(x, i)
      BY <1>4, <2>1, ResponseRead
  <2>3. QED
      BY <2>2
<1>7. PICK q : q = Tagged(129, x)
    OBVIOUS
<1>8. PICK k : Sized(q, k)
  <2>1. 129 \in U8
      BY DEF U8
  <2>2. PICK k \in 2 .. 4 : Sized(Tagged(129, x), k + i)
      BY <1>6, <2>1, AnyTagged
  <2>3. QED
      BY <1>7, <2>2
<1>9. Glued(w \o q, w, j, q, k)
    BY <1>5, <1>8, Glue
<1>10. Sized(w \o q, j + k)
    BY <1>9 DEF Glued
<1>11. UserInformation(a) = w \o q
    BY <1>1, <1>2, <1>3, <1>4, <1>7, Parts
<1>12. j + k \in Nat
    BY <1>10 DEF Sized
<1>13. QED
    BY <1>10, <1>11, <1>12

LEMMA Regroup ==
    ASSUME NEW s, NEW k, Sized(s, k), NEW r, NEW nr, Sized(r, nr), NEW d, NEW nd, Sized(d, nd),
           NEW e, NEW ne, Sized(e, ne), NEW u, NEW nu, Sized(u, nu)
    PROVE  \E n : Glued(s \o r \o d \o e \o u, s, k, r \o (d \o (e \o u)), n)
<1>1. PICK x1 : x1 = s \o r
    OBVIOUS
<1>2. PICK x2 : x2 = x1 \o d
    OBVIOUS
<1>3. PICK x3 : x3 = x2 \o e
    OBVIOUS
<1>4. PICK x : x = x3 \o u
    OBVIOUS
<1>5. Glued(x1, s, k, r, nr)
    BY <1>1, Glue
<1>6. PICK m1 : Sized(x1, m1)
    BY <1>5 DEF Glued
<1>7. Glued(x2, x1, m1, d, nd)
    BY <1>2, <1>6, Glue
<1>8. PICK m2 : Sized(x2, m2)
    BY <1>7 DEF Glued
<1>9. Glued(x3, x2, m2, e, ne)
    BY <1>3, <1>8, Glue
<1>10. PICK m3 : Sized(x3, m3)
    BY <1>9 DEF Glued
<1>11. Glued(x, x3, m3, u, nu)
    BY <1>4, <1>10, Glue
<1>12. PICK t3, n3 : t3 = e \o u /\ Glued(x, x2, m2, t3, n3)
  <2>1. Glued(x, x2, m2, e \o u, ne + nu)
      BY <1>9, <1>11, GluedTwice
  <2>2. QED
      BY <2>1
<1>13. PICK t2, n2 : t2 = d \o t3 /\ Glued(x, x1, m1, t2, n2)
  <2>1. Glued(x, x1, m1, d \o t3, nd + n3)
      BY <1>7, <1>12, GluedTwice
  <2>2. QED
      BY <2>1
<1>14. PICK t1, n1 : t1 = r \o t2 /\ Glued(x, s, k, t1, n1)
  <2>1. Glued(x, s, k, r \o t2, nr + n2)
      BY <1>5, <1>13, GluedTwice
  <2>2. QED
      BY <2>1
<1>15. t1 = r \o (d \o (e \o u))
    BY <1>12, <1>13, <1>14
<1>16. x = s \o r \o d \o e \o u
    BY <1>1, <1>2, <1>3, <1>4
<1>17. QED
    BY <1>14, <1>15, <1>16

\* What follows the context name, the result, and the diagnostics.
BehindDiag(a) == AeBytes(a) \o UiBytes(a)
BehindResult(a) == DiagBytes(a) \o BehindDiag(a)
BehindContext(a) == ResultField(a) \o BehindResult(a)

LEMMA ResultForms ==
    ASSUME NEW a
    PROVE  /\ a.form = "bare" => ResultField(a) = <<2, IF a.accept THEN 0 ELSE 1>>
           /\ a.form = "tlv" => ResultField(a) = Tagged(2, <<IF a.accept THEN 0 ELSE 1>>)
           /\ a.form = "wrapped" =>
                  ResultField(a) = Tagged(162, Tagged(2, <<IF a.accept THEN 0 ELSE 1>>))
BY DEF ResultField

LEMMA ElementsSized ==
    ASSUME NEW a, Answer(a)
    PROVE  /\ \E n \in Nat : Sized(ResultField(a), n)
           /\ \E n \in Nat : Sized(DiagBytes(a), n)
           /\ \E n \in Nat : Sized(AeBytes(a), n)
           /\ \E n \in Nat : Sized(UiBytes(a), n)
<1>1. 0 \in U8 /\ 1 \in U8 /\ 2 \in U8 /\ 161 \in U8 /\ 162 \in U8 /\ 128 \in U8 /\ 190 \in U8
    BY DEF U8
<1>2. ASSUME NEW c, NEW n, Sized(c, n), NEW tag \in U8
      PROVE  \E m \in Nat : Sized(Tagged(tag, c), m)
  <2>1. PICK k \in 2 .. 4 : Sized(Tagged(tag, c), k + n)
      BY <1>2, AnyTagged
  <2>2. k + n \in Nat
      BY <2>1 DEF Sized
  <2>3. QED
      BY <2>1, <2>2
<1>3. PICK v \in U8 : v = IF a.accept THEN 0 ELSE 1
    BY <1>1
<1>4. \E n \in Nat : Sized(ResultField(a), n)
  <2>1. CASE a.form = "bare"
    <3>1. Sized(<<2, v>>, 2) /\ ResultField(a) = <<2, v>>
        BY <1>1, <1>3, <2>1, Pair, ResultForms
    <3>2. QED
        BY <3>1
  <2>2. \E n \in Nat : Sized(Tagged(2, <<v>>), n)
    <3>1. Sized(<<v>>, 1)
        BY Small
    <3>2. QED
        BY <1>1, <1>2, <3>1
  <2>3. CASE a.form = "tlv"
      BY <1>3, <2>2, <2>3, ResultForms
  <2>4. CASE a.form = "wrapped"
    <3>1. PICK t : t = Tagged(2, <<v>>)
        OBVIOUS
    <3>2. PICK n : Sized(t, n)
        BY <2>2, <3>1
    <3>3. \E m \in Nat : Sized(Tagged(162, t), m)
        BY <1>1, <1>2, <3>2
    <3>4. ResultField(a) = Tagged(162, t)
        BY <1>3, <2>4, <3>1, ResultForms
    <3>5. QED
        BY <3>3, <3>4
  <2>5. QED
      BY <2>1, <2>3, <2>4 DEF Answer, AareFormKinds
<1>5. \E n \in Nat : Sized(DiagBytes(a), n)
  <2>1. Sized(<<2, 0>>, 2)
      BY <1>1, Pair
  <2>2. \E n \in Nat : Sized(Tagged(161, <<2, 0>>), n)
      BY <1>1, <1>2, <2>1
  <2>3. QED
      BY <2>2, NoneSized DEF DiagBytes
<1>6. \E n \in Nat : Sized(AeBytes(a), n)
  <2>1. \E n \in Nat : Sized(Tagged(128, <<>>), n)
      BY <1>1, <1>2, NoneSized
  <2>2. QED
      BY <2>1, NoneSized DEF AeBytes
<1>7. \E n \in Nat : Sized(UiBytes(a), n)
  <2>1. PICK c : c = UserInformation(a)
      OBVIOUS
  <2>2. PICK n \in Nat : Sized(c, n)
      BY <2>1, UiSized
  <2>3. \E m \in Nat : Sized(Tagged(190, c), m)
      BY <1>1, <1>2, <2>2
  <2>4. QED
      BY <2>1, <2>3, NoneSized DEF UiBytes
<1>8. QED
    BY <1>4, <1>5, <1>6, <1>7

\* The elements lie one behind the other.
LEMMA BodyLaid ==
    ASSUME NEW a, Answer(a)
    PROVE  /\ \E n : Glued(app_ctx \o ResultField(a) \o DiagBytes(a) \o AeBytes(a) \o UiBytes(a),
                           app_ctx, 9, BehindContext(a), n)
           /\ \E m, n : Glued(BehindContext(a), ResultField(a), m, BehindResult(a), n)
           /\ \E m, n : Glued(BehindResult(a), DiagBytes(a), m, BehindDiag(a), n)
           /\ \E m, n : Glued(BehindDiag(a), AeBytes(a), m, UiBytes(a), n)
<1>1. PICK r, d, e, u : /\ r = ResultField(a) /\ d = DiagBytes(a)
                        /\ e = AeBytes(a) /\ u = UiBytes(a)
    OBVIOUS
<1>2. PICK nr : Sized(r, nr)
    BY <1>1, ElementsSized
<1>3. PICK nd : Sized(d, nd)
    BY <1>1, ElementsSized
<1>4. PICK ne : Sized(e, ne)
    BY <1>1, ElementsSized
<1>5. PICK nu : Sized(u, nu)
    BY <1>1, ElementsSized
<1>6. PICK t3 : t3 = e \o u
    OBVIOUS
<1>7. Glued(t3, e, ne, u, nu)
    BY <1>4, <1>5, <1>6, Glue
<1>8. PICK n3 : Sized(t3, n3)
    BY <1>7 DEF Glued
<1>9. PICK t2 : t2 = d \o t3
    OBVIOUS
<1>10. Glued(t2, d, nd, t3, n3)
    BY <1>3, <1>8, <1>9, Glue
<1>11. PICK n2 : Sized(t2, n2)
    BY <1>10 DEF Glued
<1>12. PICK t1 : t1 = r \o t2
    OBVIOUS
<1>13. Glued(t1, r, nr, t2, n2)
    BY <1>2, <1>11, <1>12, Glue
<1>14. Sized(app_ctx, 9)
    BY ContextTyped
<1>15. \E n : Glued(app_ctx \o r \o d \o e \o u, app_ctx, 9, r \o (d \o (e \o u)), n)
    BY <1>2, <1>3, <1>4, <1>5, <1>14, Regroup
<1>16. t3 = BehindDiag(a) /\ t2 = BehindResult(a) /\ t1 = BehindContext(a)
    BY <1>1, <1>6, <1>9, <1>12 DEF BehindDiag, BehindResult, BehindContext
<1>17. r \o (d \o (e \o u)) = t1
    BY <1>6, <1>9, <1>12
<1>18. QED
    BY <1>1, <1>7, <1>10, <1>13, <1>15, <1>16, <1>17

------------------------------------------------------------------------------
(* The AARE: what the decoder finds. *)

LEMMA BareRead ==
    ASSUME NEW v \in U8, NEW x, NEW y, NEW n, Glued(x, <<2, v>>, 2, y, n)
    PROVE  Result(x) = [result |-> v, rest |-> y]
<1>1. \A i \in 1 .. 2 : x[i] = <<2, v>>[i]
    BY GluedFirst
<1>2. x[1] = 2 /\ x[2] = v
    BY <1>1
<1>3. Drop(x, 2) = y
    BY GluedRest
<1>4. Len(x) > 1 /\ x # <<>>
  <2>1. Sized(x, 2 + n) /\ n \in Nat
      BY DEF Glued, Sized
  <2>2. Len(x) = 2 + n /\ 2 + n > 1
      BY <2>1 DEF Sized
  <2>3. QED
      BY <2>2
<1>5. QED
    BY <1>2, <1>3, <1>4 DEF Result, StartsWith

\* The length of a TLV is taken for the value, and the value for what follows.
LEMMA TlvRead ==
    ASSUME NEW v \in U8, NEW x, NEW m, NEW y, NEW n, Glued(x, Tagged(2, <<v>>), m, y, n)
    PROVE  Result(x).result = 1 /\ StartsWith(Result(x).rest, v)
<1>1. 2 \in U8 /\ 1 \in U8
    BY DEF U8
<1>2. PICK b : b = <<v>>
    OBVIOUS
<1>3. Sized(b, 1) /\ b[1] = v
    BY <1>2, Small
<1>4. Tagged(2, b) = <<2, 1>> \o b
  <2>1. Len(b) = 1
      BY <1>3 DEF Sized
  <2>2. dlms_ber_encode_length(1) = <<1>>
      BY DEF dlms_ber_encode_length
  <2>3. Tagged(2, b) = <<2>> \o <<1>> \o b
      BY <2>1, <2>2 DEF Tagged
  <2>4. <<2>> \o <<1>> = <<2, 1>>
      BY <1>1, Both
  <2>5. QED
      BY <2>3, <2>4
<1>5. Sized(<<2, 1>>, 2)
    BY <1>1, Pair
<1>6. PICK t : t = Tagged(2, b)
    OBVIOUS
<1>7. Glued(t, <<2, 1>>, 2, b, 1)
    BY <1>3, <1>4, <1>5, <1>6, Glue
<1>8. Glued(x, t, m, y, n)
    BY <1>2, <1>6
<1>9. PICK z, q : Glued(x, <<2, 1>>, 2, z, q) /\ Glued(z, b, 1, y, n)
  <2>1. Glued(x, <<2, 1>>, 2, b \o y, 1 + n) /\ Glued(b \o y, b, 1, y, n)
      BY <1>7, <1>8, GluedTwice
  <2>2. QED
      BY <2>1
<1>10. Result(x) = [result |-> 1, rest |-> z]
    BY <1>1, <1>9, BareRead
<1>11. StartsWith(z, v)
  <2>1. \A i \in 1 .. 1 : z[i] = b[i]
      BY <1>9, GluedFirst
  <2>2. z[1] = v
      BY <1>3, <2>1
  <2>3. Sized(z, 1 + n) /\ n \in Nat
      BY <1>9 DEF Glued, Sized
  <2>4. z # <<>>
    <3>1. Len(z) = 1 + n /\ 1 + n # 0
        BY <2>3 DEF Sized
    <3>2. QED
        BY <3>1
  <2>5. QED
      BY <2>2, <2>4 DEF StartsWith
<1>12. QED
    BY <1>10, <1>11

LEMMA WrappedRead ==
    ASSUME NEW v \in U8, NEW x, NEW m, NEW y, NEW n,
           Glued(x, Tagged(162, Tagged(2, <<v>>)), m, y, n)
    PROVE  StartsWith(x, 162) /\ Result(x) = [result |-> 0, rest |-> x]
<1>1. 2 \in U8 /\ 162 \in U8
    BY DEF U8
<1>2. PICK b : b = Tagged(2, <<v>>)
    OBVIOUS
<1>3. Sized(<<v>>, 1)
    BY Small
<1>4. PICK k \in 2 .. 4 : Sized(b, k + 1)
    BY <1>1, <1>2, <1>3, AnyTagged
<1>5. PICK l \in U16 : l = k + 1
  <2>1. PICK w \in Nat : w = k + 1
      OBVIOUS
  <2>2. w < 65536
      BY <2>1
  <2>3. w \in U16
      BY <2>2, Wide
  <2>4. QED
      BY <2>1, <2>3
<1>6. Sized(b, l) /\ Glued(x, Tagged(162, b), m, y, n)
    BY <1>2, <1>4, <1>5
<1>7. PICK i : Element(x, 162, b, l, y, n, i)
    BY <1>1, <1>6, TaggedRead
<1>8. StartsWith(x, 162)
    BY <1>7 DEF Element
<1>9. ~StartsWith(x, 2)
    BY <1>8 DEF StartsWith
<1>10. QED
    BY <1>8, <1>9 DEF Result

LEMMA DiagRead ==
    ASSUME NEW a, NEW x, NEW m, NEW y, NEW n, Glued(x, DiagBytes(a), m, y, n),
           ~StartsWith(y, 161)
    PROVE  AfterDiagnostics(x) = y
<1>1. CASE a.diag
  <2>1. 161 \in U8 /\ 2 \in U8 /\ 0 \in U8
      BY DEF U8
  <2>2. PICK c : c = <<2, 0>>
      OBVIOUS
  <2>3. PICK l \in U16 : l = 2
      BY InU16
  <2>4. Sized(c, l)
      BY <2>1, <2>2, <2>3, Pair
  <2>5. Glued(x, Tagged(161, c), m, y, n)
      BY <1>1, <2>2 DEF DiagBytes
  <2>6. PICK k : Element(x, 161, c, l, y, n, k)
      BY <2>1, <2>4, <2>5, TaggedRead
  <2>7. /\ StartsWith(x, 161)
        /\ dlms_ber_decode_tag(x) = [code |-> "OK", length |-> l, consumed |-> k]
        /\ Drop(x, k + l) = y
      BY <2>6 DEF Element
  <2>8. QED
      BY <2>7 DEF AfterDiagnostics
<1>2. CASE ~a.diag
  <2>1. x = <<>> \o y /\ y \in Seq(U8)
      BY <1>2 DEF DiagBytes, Glued, Sized
  <2>2. x = y
      BY <2>1, ConcatEmptySeq
  <2>3. QED
      BY <2>2 DEF AfterDiagnostics
<1>3. QED
    BY <1>1, <1>2

LEMMA AeRead ==
    ASSUME NEW a, NEW x, NEW m, NEW y, NEW n, Glued(x, AeBytes(a), m, y, n)
    PROVE  /\ ~StartsWith(y, 128) => AfterInvocation(x) = y
           /\ ~StartsWith(y, 161) => ~StartsWith(x, 161)
<1>1. CASE a.ae
  <2>1. 128 \in U8 /\ 0 \in U8
      BY DEF U8
  <2>2. Tagged(128, <<>>) = <<128, 0>>
    <3>1. Len(<<>>) = 0
        OBVIOUS
    <3>2. dlms_ber_encode_length(0) = <<0>>
        BY DEF dlms_ber_encode_length
    <3>3. Tagged(128, <<>>) = <<128>> \o <<0>> \o <<>>
        BY <3>1, <3>2 DEF Tagged
    <3>4. PICK p : p = <<128, 0>>
        OBVIOUS
    <3>5. <<128>> \o <<0>> = p
        BY <2>1, <3>4, Both
    <3>6. p \in Seq(U8)
        BY <2>1, <3>4, Pair DEF Sized
    <3>7. p \o <<>> = p
        BY <3>6, ConcatEmptySeq
    <3>8. QED
        BY <3>3, <3>4, <3>5, <3>7
  <2>3. PICK p : p = <<128, 0>>
      OBVIOUS
  <2>4. Glued(x, p, m, y, n)
      BY <1>1, <2>2, <2>3 DEF AeBytes
  <2>5. Sized(p, 2) /\ p[1] = 128 /\ p[2] = 0
      BY <2>1, <2>3, Pair
  <2>6. m = 2
    <3>1. Sized(p, m)
        BY <2>4 DEF Glued
    <3>2. QED
        BY <2>5, <3>1 DEF Sized
  <2>7. x[1] = 128 /\ x[2] = 0
    <3>1. \A i \in 1 .. m : x[i] = p[i]
        BY <2>4, GluedFirst
    <3>2. QED
        BY <2>5, <2>6, <3>1
  <2>8. Drop(x, 2) = y
    <3>1. Drop(x, m) = y
        BY <2>4, GluedRest
    <3>2. QED
        BY <2>6, <3>1
  <2>9. Len(x) > 1 /\ x # <<>>
    <3>1. Sized(x, m + n) /\ n \in Nat
        BY <2>4 DEF Glued, Sized
    <3>2. Len(x) = 2 + n /\ 2 + n > 1
        BY <2>6, <3>1 DEF Sized
    <3>3. QED
        BY <3>2
  <2>10. StartsWith(x, 128) /\ ~StartsWith(x, 161)
      BY <2>7, <2>9 DEF StartsWith
  <2>11. Drop(x, 2 + x[2]) = y
    <3>1. 2 + 0 = 2
        OBVIOUS
    <3>2. QED
        BY <2>7, <2>8, <3>1
  <2>12. QED
      BY <2>9, <2>10, <2>11 DEF AfterInvocation
<1>2. CASE ~a.ae
  <2>1. x = <<>> \o y /\ y \in Seq(U8)
      BY <1>2 DEF AeBytes, Glued, Sized
  <2>2. x = y
      BY <2>1, ConcatEmptySeq
  <2>3. QED
      BY <2>2 DEF AfterInvocation
<1>3. QED
    BY <1>1, <1>2

LEMMA UiStarts ==
    ASSUME NEW a, Answer(a), NEW u, u = UiBytes(a)
    PROVE  /\ a.ui => u = Tagged(190, UserInformation(a))
           /\ ~StartsWith(u, 128) /\ ~StartsWith(u, 161)
           /\ ~a.ui => ~StartsWith(u, 190)
<1>1. CASE a.ui
  <2>1. u = Tagged(190, UserInformation(a))
      BY <1>1 DEF UiBytes
  <2>2. PICK n \in Nat : Sized(UserInformation(a), n)
      BY UiSized
  <2>3. 190 \in U8
      BY DEF U8
  <2>4. StartsWith(u, 190)
      BY <2>1, <2>2, <2>3, AnyTagged
  <2>5. QED
      BY <1>1, <2>1, <2>4 DEF StartsWith
<1>2. CASE ~a.ui
  <2>1. u = <<>>
      BY <1>2 DEF UiBytes
  <2>2. QED
      BY <1>2, <2>1 DEF StartsWith
<1>3. QED
    BY <1>1, <1>2

------------------------------------------------------------------------------
(* The AARE as a whole. *)

\* Where the decoder looks for user information, behind the context name.
SoughtIn(s) == AfterInvocation(AfterDiagnostics(Result(s).rest))

AareBody(a) == app_ctx \o ResultField(a) \o DiagBytes(a) \o AeBytes(a) \o UiBytes(a)

LEMMA Narrow == \A w \in U16 : w < 65536
    BY InU16

\* The size of the body is one that a length of two bytes has.
LEMMA BodySized ==
    ASSUME NEW a, Answer(a), Len(AareBytes(a)) \in U16
    PROVE  \E m \in U16 : Sized(AareBody(a), m)
<1>1. PICK n : Glued(AareBody(a), app_ctx, 9, BehindContext(a), n)
    BY BodyLaid DEF AareBody
<1>2. PICK m \in Nat : Sized(AareBody(a), m)
  <2>1. Sized(AareBody(a), 9 + n)
      BY <1>1 DEF Glued
  <2>2. 9 + n \in Nat
      BY <2>1 DEF Sized
  <2>3. QED
      BY <2>1, <2>2
<1>3. AareBytes(a) = Tagged(97, AareBody(a)) /\ 97 \in U8
  <2>1. AareBytes(a) = Tagged(TAG_AARE, AareBody(a))
      BY Parts DEF AareBody
  <2>2. 97 \in U8
      BY DEF U8
  <2>3. QED
      BY <2>1, <2>2 DEF TAG_AARE
<1>4. PICK k \in 2 .. 4 : Sized(AareBytes(a), k + m)
    BY <1>2, <1>3, AnyTagged
<1>5. m < 65536
  <2>1. PICK l : l = Len(AareBytes(a))
      OBVIOUS
  <2>2. l = k + m
      BY <1>4, <2>1 DEF Sized
  <2>3. l \in U16
      BY <2>1
  <2>4. l < 65536
      BY <2>3, Narrow
  <2>5. QED
      BY <2>2, <2>4
<1>6. QED
    BY <1>2, <1>5, Wide

LEMMA AareRead ==
    ASSUME NEW a, Answer(a), Len(AareBytes(a)) \in U16, NEW x, x = AareBytes(a)
    PROVE  /\ \E j \in Nat : j > 2 /\ Sized(x, j)
           /\ dlms_aare_decode(x) = DecodedAare(Result(BehindContext(a)).result,
                                                AareFields(SoughtIn(BehindContext(a))))
<1>1. PICK c : c = AareBody(a)
    OBVIOUS
<1>2. PICK m \in U16 : Sized(c, m)
    BY <1>1, BodySized
<1>3. PICK u, n : u = BehindContext(a) /\ Glued(c, app_ctx, 9, u, n)
    BY <1>1, BodyLaid DEF AareBody
<1>4. x = Tagged(97, c) /\ 97 \in U8
  <2>1. x = Tagged(TAG_AARE, c)
      BY <1>1, Parts DEF AareBody
  <2>2. 97 \in U8
      BY DEF U8
  <2>3. QED
      BY <2>1, <2>2 DEF TAG_AARE
<1>5. PICK k \in 2 .. 4 : Sized(x, k + m) /\ Element(x, 97, c, m, <<>>, 0, k)
    BY <1>2, <1>4, TaggedSized
<1>6. /\ StartsWith(x, 97)
      /\ dlms_ber_decode_tag(x) = [code |-> "OK", length |-> m, consumed |-> k]
      /\ Drop(x, k) = c \o <<>>
    BY <1>5 DEF Element
<1>7. Drop(x, k) = c
  <2>1. c \in Seq(U8)
      BY <1>2 DEF Sized
  <2>2. c \o <<>> = c
      BY <2>1, ConcatEmptySeq
  <2>3. QED
      BY <1>6, <2>2
<1>8. AfterContext(c) = [code |-> "OK", rest |-> u]
    BY <1>3, ContextRead
<1>9. m \in Nat /\ m > 8
  <2>1. Sized(c, 9 + n)
      BY <1>3 DEF Glued
  <2>2. Sized(u, n)
      BY <1>3 DEF Glued
  <2>3. n \in Nat
      BY <2>2 DEF Sized
  <2>4. m = 9 + n
      BY <1>2, <2>1 DEF Sized
  <2>5. QED
      BY <2>3, <2>4
<1>10. PICK j \in Nat : j = k + m /\ j > 2
    BY <1>9
<1>11. Len(x) = j
    BY <1>5, <1>10 DEF Sized
<1>12. ~(j < 2) /\ ~(j > j)
    BY <1>10
<1>13. x[1] = 97
    BY <1>6 DEF StartsWith
<1>14. PICK header : header = dlms_ber_decode_tag(x)
    OBVIOUS
<1>15. header.code = "OK" /\ header.consumed = k /\ header.consumed + header.length = j
    BY <1>6, <1>10, <1>14
<1>16. ~TooShort(header, x)
    BY <1>11, <1>12, <1>15 DEF TooShort
<1>17. PICK context : context = AfterContext(Drop(x, header.consumed))
    OBVIOUS
<1>18. context.code = "OK" /\ context.rest = u
    BY <1>7, <1>8, <1>15, <1>17
<1>19. PICK f : f = AareFields(SoughtIn(u))
    OBVIOUS
<1>20. f = AareFields(AfterInvocation(AfterDiagnostics(Result(u).rest)))
    BY <1>19 DEF SoughtIn
<1>21. dlms_aare_decode(x) = DecodedAare(Result(u).result, f)
    BY <1>11, <1>12, <1>13, <1>14, <1>15, <1>16, <1>17, <1>18, <1>20
       DEF dlms_aare_decode, TAG_AARE
<1>22. Sized(x, j)
    BY <1>5, <1>10
<1>23. QED
    BY <1>3, <1>10, <1>19, <1>21, <1>22

\* Behind the result in the form the decoder expects, the rest is skipped up to the
\* user information.
LEMMA BareSought ==
    ASSUME NEW a, Answer(a), a.form = "bare"
    PROVE  /\ Result(BehindContext(a)).result = (IF a.accept THEN 0 ELSE 1)
           /\ SoughtIn(BehindContext(a)) = UiBytes(a)
<1>1. PICK v \in U8 : v = IF a.accept THEN 0 ELSE 1
  <2>1. 0 \in U8 /\ 1 \in U8
      BY DEF U8
  <2>2. QED
      BY <2>1
<1>2. PICK m, n : Glued(BehindContext(a), ResultField(a), m, BehindResult(a), n)
    BY BodyLaid
<1>3. ResultField(a) = <<2, v>>
    BY <1>1, ResultForms
<1>4. m = 2
  <2>1. 2 \in U8
      BY DEF U8
  <2>2. PICK p : p = <<2, v>>
      OBVIOUS
  <2>3. Sized(p, 2)
      BY <2>1, <2>2, Pair
  <2>4. Sized(p, m)
      BY <1>2, <1>3, <2>2 DEF Glued
  <2>5. QED
      BY <2>3, <2>4 DEF Sized
<1>5. Result(BehindContext(a)) = [result |-> v, rest |-> BehindResult(a)]
    BY <1>2, <1>3, <1>4, BareRead
<1>6. PICK u : u = UiBytes(a)
    OBVIOUS
<1>7. ~StartsWith(u, 128) /\ ~StartsWith(u, 161)
    BY <1>6, UiStarts
<1>8. PICK i, j : Glued(BehindDiag(a), AeBytes(a), i, u, j)
    BY <1>6, BodyLaid
<1>9. AfterInvocation(BehindDiag(a)) = u /\ ~StartsWith(BehindDiag(a), 161)
    BY <1>7, <1>8, AeRead
<1>10. PICK k, l : Glued(BehindResult(a), DiagBytes(a), k, BehindDiag(a), l)
    BY BodyLaid
<1>11. AfterDiagnostics(BehindResult(a)) = BehindDiag(a)
    BY <1>9, <1>10, DiagRead
<1>12. QED
    BY <1>1, <1>5, <1>6, <1>9, <1>11 DEF SoughtIn

LEMMA NothingFound ==
    ASSUME NEW s, ~StartsWith(s, 190)
    PROVE  AareFields(s).negotiated_max_pdu_size = 0
<1>1. UserFields(s) = [rest |-> <<>>, auth_value |-> <<>>, initiates |-> <<>>]
    BY NoFields
<1>2. PICK u : u = UserFields(s)
    OBVIOUS
<1>3. u.initiates = <<>>
    BY <1>1, <1>2
<1>4. QED
    BY <1>2, <1>3 DEF AareFields, NoInitiateFields

\* An element that is not expected ends the search.
LEMMA NotSought ==
    ASSUME NEW s, NEW t \in {0, 1, 162}, StartsWith(s, t)
    PROVE  AareFields(AfterInvocation(AfterDiagnostics(s))).negotiated_max_pdu_size = 0
<1>1. s[1] = t
    BY DEF StartsWith
<1>2. ~StartsWith(s, 161) /\ ~StartsWith(s, 128) /\ ~StartsWith(s, 190)
    BY <1>1 DEF StartsWith
<1>3. AfterInvocation(AfterDiagnostics(s)) = s
    BY <1>2 DEF AfterInvocation, AfterDiagnostics
<1>4. QED
    BY <1>2, <1>3, NothingFound

LEMMA OthersSought ==
    ASSUME NEW a, Answer(a), a.form # "bare"
    PROVE  /\ Result(BehindContext(a)).result = aare_result(a)
           /\ AareFields(SoughtIn(BehindContext(a))).negotiated_max_pdu_size = 0
<1>1. PICK v \in U8 : v = IF a.accept THEN 0 ELSE 1
  <2>1. 0 \in U8 /\ 1 \in U8
      BY DEF U8
  <2>2. QED
      BY <2>1
<1>2. PICK x : x = BehindContext(a)
    OBVIOUS
<1>3. PICK m, n : Glued(x, ResultField(a), m, BehindResult(a), n)
    BY <1>2, BodyLaid
<1>4. CASE a.form = "tlv"
  <2>1. ResultField(a) = Tagged(2, <<v>>)
      BY <1>1, <1>4, ResultForms
  <2>2. Result(x).result = 1 /\ StartsWith(Result(x).rest, v)
      BY <1>3, <2>1, TlvRead
  <2>3. v \in {0, 1, 162}
      BY <1>1
  <2>4. AareFields(SoughtIn(x)).negotiated_max_pdu_size = 0
      BY <2>2, <2>3, NotSought DEF SoughtIn
  <2>5. aare_result(a) = 1
      BY <1>4 DEF aare_result
  <2>6. QED
      BY <1>2, <2>2, <2>4, <2>5
<1>5. CASE a.form = "wrapped"
  <2>1. ResultField(a) = Tagged(162, Tagged(2, <<v>>))
      BY <1>1, <1>5, ResultForms
  <2>2. StartsWith(x, 162) /\ Result(x) = [result |-> 0, rest |-> x]
      BY <1>3, <2>1, WrappedRead
  <2>3. Result(x).result = 0 /\ Result(x).rest = x
      BY <2>2
  <2>4. AareFields(SoughtIn(x)).negotiated_max_pdu_size = 0
      BY <2>2, <2>3, NotSought DEF SoughtIn
  <2>5. aare_result(a) = 0
      BY <1>5 DEF aare_result
  <2>6. QED
      BY <1>2, <2>3, <2>4, <2>5
<1>6. QED
    BY <1>4, <1>5 DEF Answer, AareFormKinds

\* Up to 127 bytes, BER has one byte for the length, as the decoder expects.
LEMMA Expressed ==
    ASSUME NEW v, NEW n \in 0 .. 127, Sized(v, n)
    PROVE  AuthTagged(v) = AuthBytes(v)
<1>1. CASE v = <<>>
    BY <1>1 DEF AuthTagged, AuthBytes
<1>2. CASE v # <<>>
  <2>1. n \in Nat /\ n <= 127 /\ n <= 255
      OBVIOUS
  <2>2. Lo(n) = n /\ n \in U8
      BY <2>1, LowByte
  <2>3. 128 \in U8
      BY DEF U8
  <2>4. Len(v) = n
      BY DEF Sized
  <2>5. dlms_ber_encode_length(n) = <<n>>
      BY <2>1 DEF dlms_ber_encode_length
  <2>6. Tagged(128, v) = <<128>> \o <<n>> \o v
      BY <2>4, <2>5 DEF Tagged
  <2>7. <<128>> \o <<n>> = <<128, n>>
      BY <2>2, <2>3, Both
  <2>8. AuthTagged(v) = <<128, n>> \o v
      BY <1>2, <2>6, <2>7 DEF AuthTagged
  <2>9. AuthBytes(v) = <<128, n>> \o v
      BY <1>2, <2>2, <2>4 DEF AuthBytes
  <2>10. QED
      BY <2>8, <2>9
<1>3. QED
    BY <1>1, <1>2

LEMMA AareFieldsRead ==
    ASSUME NEW u, NEW r, NEW v, NEW init, UserFields(u) = Fields(r, v, <<init>>),
           NEW ver, NEW mech, NEW t, NEW p,
           dlms_initiate_response_decode(init) = Response(ver, mech, t, p)
    PROVE  AareFields(u) = [auth_value |-> v, dlms_version |-> ver, auth_mech |-> mech,
                            title |-> t, negotiated_max_pdu_size |-> p]
<1>1. PICK w : w = UserFields(u)
    OBVIOUS
<1>2. w.auth_value = v /\ w.initiates = <<init>>
    BY <1>1 DEF Fields
<1>3. w.initiates # <<>> /\ Last(w.initiates) = init
    BY <1>2, OnlyOne
<1>4. PICK ir : ir = dlms_initiate_response_decode(init)
    OBVIOUS
<1>5. /\ ir.dlms_version = ver /\ ir.auth_mech = mech
      /\ ir.title = t /\ ir.negotiated_max_pdu_size = p
    BY <1>4 DEF Response
<1>6. AareFields(u) = [auth_value |-> w.auth_value, dlms_version |-> ir.dlms_version,
                       auth_mech |-> ir.auth_mech, title |-> ir.title,
                       negotiated_max_pdu_size |-> ir.negotiated_max_pdu_size]
    BY <1>1, <1>3, <1>4 DEF AareFields
<1>7. QED
    BY <1>2, <1>5, <1>6

\* Of the user information of an AARE every field is read as it was written.
LEMMA UiRead ==
    ASSUME NEW a, Answer(a), a.ui, Len(a.auth_value) <= 127
    PROVE  AareFields(UiBytes(a)) =
               [auth_value |-> a.auth_value, dlms_version |-> a.dlms_version,
                auth_mech |-> a.auth_mech, title |-> a.title,
                negotiated_max_pdu_size |-> SizeRead(a.pdu)]
<1>1. /\ a.dlms_version \in U8 /\ a.auth_mech \in U8 /\ a.pdu \in U16
      /\ a.auth_value \in Seq(U8)
    BY DEF Answer
<1>2. PICK v \in U8, m \in U8, p \in U16 :
          v = a.dlms_version /\ m = a.auth_mech /\ p = a.pdu
    BY <1>1
<1>3. PICK t : t = a.title /\ \E n \in 0 .. 8 : Sized(t, n)
    BY TitleSized
<1>4. PICK init : init = ResponseBytes(v, m, t, p)
    OBVIOUS
<1>5. PICK k \in 0 .. 300 : Sized(init, k)
  <2>1. PICK n \in 0 .. 8 : Sized(t, n)
      BY <1>3
  <2>2. QED
      BY <1>4, <2>1, ResponseRead, ZenonT(40)
<1>6. dlms_initiate_response_decode(init) = Response(v, m, t, SizeRead(p))
  <2>1. PICK n \in 0 .. 8 : Sized(t, n)
      BY <1>3
  <2>2. QED
      BY <1>4, <2>1, ResponseRead
<1>7. PICK w : w = a.auth_value
    OBVIOUS
<1>8. PICK l \in 0 .. 127 : Sized(w, l)
  <2>1. Len(w) \in Nat /\ Len(w) <= 127
      BY <1>1, <1>7
  <2>2. Sized(w, Len(w))
      BY <1>1, <1>7, <2>1 DEF Sized
  <2>3. PICK n : n = Len(w)
      OBVIOUS
  <2>4. n \in Nat /\ n <= 127
      BY <2>1, <2>3
  <2>5. n \in 0 .. 127
      BY <2>4
  <2>6. QED
      BY <2>2, <2>3, <2>5
<1>9. PICK x : x = AuthBytes(w)
    OBVIOUS
<1>10. AuthTagged(w) = x
    BY <1>8, <1>9, Expressed
<1>11. PICK j \in 0 .. 300 : Sized(x, j) /\ AuthField(x, j, w, l)
  <2>1. PICK q \in 0 .. 255 : q = l
      OBVIOUS
  <2>2. Sized(w, q)
      BY <1>8, <2>1
  <2>3. PICK i \in 0 .. 257 : Sized(x, i) /\ AuthField(x, i, w, q)
      BY <1>9, <2>2, AuthWritten
  <2>4. i \in 0 .. 300
      OBVIOUS
  <2>5. QED
      BY <2>1, <2>3, <2>4
<1>12. FieldsFound(UserBytes(x, init), w, init)
    BY <1>5, <1>11, UserRead
<1>13. UserInformation(a) = x \o Tagged(129, init)
    BY <1>2, <1>3, <1>4, <1>7, <1>10, Parts
<1>14. UiBytes(a) = UserBytes(x, init)
    BY <1>13 DEF UiBytes, UserBytes
<1>15. UserFields(UiBytes(a)) = Fields(<<>>, w, <<init>>)
    BY <1>12, <1>14 DEF FieldsFound
<1>16. AareFields(UiBytes(a)) =
           [auth_value |-> w, dlms_version |-> v, auth_mech |-> m, title |-> t,
            negotiated_max_pdu_size |-> SizeRead(p)]
    BY <1>6, <1>15, AareFieldsRead
<1>17. QED
    BY <1>2, <1>3, <1>7, <1>16

\* What a whole AARE is decoded to.
Read(a, d) ==
    /\ d.code = "OK"
    /\ d.result = aare_result(a)
    /\ a.form = "bare" /\ a.ui /\ Len(a.auth_value) <= 127 =>
           /\ d.auth_value = a.auth_value
           /\ d.dlms_version = a.dlms_version
           /\ d.auth_mech = a.auth_mech
           /\ d.title = a.title
           /\ d.negotiated_max_pdu_size = SizeRead(a.pdu)
    /\ ~(a.form = "bare" /\ a.ui) => d.negotiated_max_pdu_size = 0

LEMMA AareRoundTrip ==
    ASSUME NEW a, Answer(a), Len(AareBytes(a)) \in U16
    PROVE  Read(a, dlms_aare_decode(AareBytes(a)))
<1>1. PICK r, f : /\ r = Result(BehindContext(a)).result
                  /\ f = AareFields(SoughtIn(BehindContext(a)))
    OBVIOUS
<1>2. dlms_aare_decode(AareBytes(a)) = DecodedAare(r, f)
    BY <1>1, AareRead
<1>3. r = aare_result(a)
  <2>1. CASE a.form = "bare"
      BY <1>1, <2>1, BareSought DEF aare_result
  <2>2. CASE a.form # "bare"
      BY <1>1, <2>2, OthersSought
  <2>3. QED
      BY <2>1, <2>2
<1>4. CASE a.form = "bare" /\ a.ui
  <2>1. f = AareFields(UiBytes(a))
      BY <1>1, <1>4, BareSought
  <2>2. ASSUME Len(a.auth_value) <= 127
        PROVE  /\ f.auth_value = a.auth_value /\ f.dlms_version = a.dlms_version
               /\ f.auth_mech = a.auth_mech /\ f.title = a.title
               /\ f.negotiated_max_pdu_size = SizeRead(a.pdu)
    <3>1. f = [auth_value |-> a.auth_value, dlms_version |-> a.dlms_version,
               auth_mech |-> a.auth_mech, title |-> a.title,
               negotiated_max_pdu_size |-> SizeRead(a.pdu)]
        BY <1>4, <2>1, <2>2, UiRead
    <3>2. QED
        BY <3>1
  <2>3. QED
      BY <1>2, <1>3, <1>4, <2>2 DEF Read, DecodedAare
<1>5. CASE ~(a.form = "bare" /\ a.ui)
  <2>1. f.negotiated_max_pdu_size = 0
    <3>1. CASE a.form = "bare"
      <4>1. PICK u : u = UiBytes(a)
          OBVIOUS
      <4>2. ~StartsWith(u, 190)
          BY <1>5, <3>1, <4>1, UiStarts
      <4>3. f = AareFields(u)
          BY <1>1, <3>1, <4>1, BareSought
      <4>4. QED
          BY <4>2, <4>3, NothingFound
    <3>2. CASE a.form # "bare"
        BY <1>1, <3>2, OthersSought
    <3>3. QED
        BY <3>1, <3>2
  <2>2. QED
      BY <1>2, <1>3, <1>5, <2>1 DEF Read, DecodedAare
<1>6. QED
    BY <1>4, <1>5

------------------------------------------------------------------------------
(* The first segment of an AARE. *)

LEMMA FrontSized ==
    ASSUME NEW x, NEW w, Sized(x, w), NEW n \in Nat, n < w
    PROVE  Sized(SubSeq(x, 1, n), n) /\ \A i \in 1 .. n : SubSeq(x, 1, n)[i] = x[i]
<1>1. x \in Seq(U8) /\ Len(x) = w /\ w \in Nat
    BY DEF Sized
<1>2. \A i \in 1 .. n : x[i] \in U8
  <2>1. \A i \in 1 .. n : i \in 1 .. w
      BY <1>1
  <2>2. QED
      BY <1>1, <2>1, ElementOfSeq
<1>3. PICK s : s = SubSeq(x, 1, n)
    OBVIOUS
<1>4. /\ s \in Seq(U8) /\ Len(s) = IF 1 <= n THEN n - 1 + 1 ELSE 0
      /\ \A i \in 1 .. n - 1 + 1 : s[i] = x[1 + i - 1]
    BY <1>2, <1>3, SubSeqProperties
<1>5. (IF 1 <= n THEN n - 1 + 1 ELSE 0) = n /\ n - 1 + 1 = n
    OBVIOUS
<1>6. Sized(s, n)
    BY <1>4, <1>5 DEF Sized
<1>7. \A i \in 1 .. n : s[i] = x[i]
  <2>1. \A i \in 1 .. n : 1 + i - 1 = i
      OBVIOUS
  <2>2. QED
      BY <1>4, <1>5, <2>1
<1>8. QED
    BY <1>3, <1>6, <1>7

\* The bytes behind the tag are the length's, and then the contents'.
LEMMA TaggedStarts ==
    ASSUME NEW tag \in U8, NEW m \in U16, NEW c, Sized(c, m), NEW x, x = Tagged(tag, c),
           NEW e, e = dlms_ber_encode_length(m)
    PROVE  \E l \in 1 .. 3 : /\ Sized(e, l) /\ Sized(x, 1 + (l + m)) /\ x[1] = tag
                             /\ \A i \in 1 .. l : x[1 + i] = e[i]
<1>1. PICK l \in 1 .. 3 : Sized(e, l) /\ Glued(Header(tag, m), <<tag>>, 1, e, l)
    BY HeaderTyped
<1>2. PICK k \in 2 .. 4 : Glued(x, Header(tag, m), k, c, m)
    BY TaggedTyped
<1>3. Glued(x, <<tag>>, 1, e \o c, l + m) /\ Glued(e \o c, e, l, c, m)
    BY <1>1, <1>2, GluedTwice
<1>4. PICK y, q : y = e \o c /\ q = l + m
    OBVIOUS
<1>5. Glued(x, <<tag>>, 1, y, q) /\ Glued(y, e, l, c, m)
    BY <1>3, <1>4
<1>6. x[1] = tag
  <2>1. \A i \in 1 .. 1 : x[i] = <<tag>>[i]
      BY <1>5, GluedFirst
  <2>2. QED
      BY <2>1
<1>7. \A i \in 1 .. l : x[1 + i] = e[i]
  <2>1. \A i \in 1 .. q : x[1 + i] = y[i]
      BY <1>5, GluedNext
  <2>2. \A i \in 1 .. l : y[i] = e[i]
      BY <1>5, GluedFirst
  <2>3. \A i \in 1 .. l : i \in 1 .. q
    <3>1. m \in Nat
        BY DEF Sized
    <3>2. QED
        BY <1>4, <3>1
  <2>4. QED
      BY <2>1, <2>2, <2>3
<1>8. Sized(x, 1 + (l + m))
    BY <1>4, <1>5 DEF Glued
<1>9. QED
    BY <1>1, <1>6, <1>7, <1>8

\* A segment ends before the length in its header says.
LEMMA SegmentRefused ==
    ASSUME NEW a, Answer(a), Len(AareBytes(a)) \in U16,
           NEW n \in Nat, n >= 1, n < Len(AareBytes(a))
    PROVE  dlms_aare_decode(SubSeq(AareBytes(a), 1, n)).code \in {"INVALID", "PARSE", "BUFFER"}
<1>1. PICK c : c = AareBody(a) /\ \E m \in U16 : Sized(c, m)
    BY BodySized
<1>2. PICK m \in U16 : Sized(c, m)
    BY <1>1
<1>3. PICK x : x = AareBytes(a)
    OBVIOUS
<1>4. x = Tagged(97, c) /\ 97 \in U8
  <2>1. x = Tagged(TAG_AARE, c)
      BY <1>1, <1>3, Parts DEF AareBody
  <2>2. 97 \in U8
      BY DEF U8
  <2>3. QED
      BY <2>1, <2>2 DEF TAG_AARE
<1>5. PICK e : e = dlms_ber_encode_length(m)
    OBVIOUS
<1>6. PICK l \in 1 .. 3 : /\ Sized(e, l) /\ Sized(x, 1 + (l + m)) /\ x[1] = 97
                          /\ \A i \in 1 .. l : x[1 + i] = e[i]
    BY <1>2, <1>4, <1>5, TaggedStarts
<1>7. PICK s : s = SubSeq(x, 1, n)
    OBVIOUS
<1>8. n < 1 + (l + m)
  <2>1. PICK w : w = Len(x)
      OBVIOUS
  <2>2. w = 1 + (l + m)
      BY <1>6, <2>1 DEF Sized
  <2>3. n < w
      BY <1>3, <2>1
  <2>4. QED
      BY <2>2, <2>3
<1>9. Sized(s, n) /\ \A i \in 1 .. n : s[i] = x[i]
  <2>1. PICK w : w = 1 + (l + m)
      OBVIOUS
  <2>2. Sized(x, w) /\ n < w
      BY <1>6, <1>8, <2>1
  <2>3. QED
      BY <1>7, <2>2, FrontSized
<1>10. s \in Seq(U8) /\ Len(s) = n
    BY <1>9 DEF Sized
<1>11. CASE n < 2
  <2>1. dlms_aare_decode(s) = Error("INVALID")
      BY <1>10, <1>11 DEF dlms_aare_decode
  <2>2. QED
      BY <1>3, <1>7, <2>1 DEF Error
<1>12. CASE ~(n < 2)
  <2>1. s[1] = 97
    <3>1. 1 \in 1 .. n
        BY <1>12
    <3>2. QED
        BY <1>6, <1>9, <3>1
  <2>2. Len(e) = l
      BY <1>6 DEF Sized
  <2>3. Starts(Tail(s), e)
    <3>1. Len(Tail(s)) = n - 1 /\ \A i \in 1 .. n - 1 : Tail(s)[i] = s[i + 1]
        BY <1>10, <1>12
    <3>2. ASSUME NEW i \in 1 .. n - 1, i <= l
          PROVE  Tail(s)[i] = e[i]
      <4>1. i \in 1 .. l /\ i + 1 \in 1 .. n /\ 1 + i = i + 1
          BY <3>2
      <4>2. s[i + 1] = x[i + 1]
          BY <1>9, <4>1
      <4>3. x[1 + i] = e[i]
          BY <1>6, <4>1
      <4>4. Tail(s)[i] = s[i + 1]
          BY <3>1
      <4>5. QED
          BY <4>1, <4>2, <4>3, <4>4
    <3>3. QED
        BY <2>2, <3>1, <3>2 DEF Starts
  <2>4. PICK header : header = dlms_ber_decode_tag(s)
      OBVIOUS
  <2>5. header = IF n < 1 + l THEN Error("PARSE")
                 ELSE [code |-> "OK", length |-> m, consumed |-> 1 + l]
    <3>1. n >= 2
        BY <1>12
    <3>2. Len(s) >= 2
        BY <1>10, <3>1
    <3>3. header = IF Len(s) < 1 + Len(e) THEN Error("PARSE")
                   ELSE [code |-> "OK", length |-> m, consumed |-> 1 + Len(e)]
        BY <1>5, <1>10, <2>3, <2>4, <3>2, TagRead
    <3>4. QED
        BY <1>10, <2>2, <3>3
  <2>6. CASE n < 1 + l
    <3>1. header = [code |-> "PARSE"]
        BY <2>5, <2>6 DEF Error
    <3>2. dlms_aare_decode(s) = header
        BY <1>10, <1>12, <2>1, <2>4, <3>1 DEF dlms_aare_decode, TAG_AARE
    <3>3. QED
        BY <1>3, <1>7, <3>1, <3>2
  <2>7. CASE ~(n < 1 + l)
    <3>1. header.code = "OK" /\ header.length = m /\ header.consumed = 1 + l
        BY <2>5, <2>7
    <3>2. (1 + l) + m > n
      <4>1. m \in Nat
          BY <1>2 DEF Sized
      <4>2. QED
          BY <1>8, <4>1
    <3>3. TooShort(header, s)
        BY <1>10, <3>1, <3>2 DEF TooShort
    <3>4. dlms_aare_decode(s) = Error("BUFFER")
        BY <1>10, <1>12, <2>1, <2>4, <3>1, <3>3 DEF dlms_aare_decode, TAG_AARE
    <3>5. QED
        BY <1>3, <1>7, <3>4 DEF Error
  <2>8. QED
      BY <2>6, <2>7
<1>13. QED
    BY <1>11, <1>12

------------------------------------------------------------------------------
(* The inductive invariant: the frame in flight carries the AARQ of the      *)
(* request until the meter has it, and then the bytes of the answer, which   *)
(* decide what the client decodes and returns.                               *)

Aarq == dlms_aarq_encode(request, FrameBuf)
AnswerBytes(a, n) == SubSeq(AareBytes(a), 1, n)
Verdict(d) ==
    IF d.code # "OK" THEN d.code ELSE IF d.result # 0 THEN "ERROR" ELSE "OK"

RequestKept ==
    /\ request \in Requests \cup {NoRequest}
    /\ request = NoRequest => seen = Nothing /\ wire = <<>>

AarqKept ==
    /\ seen = Nothing /\ wire # <<>> => Aarq.code = "OK" /\ Carries(wire, Aarq.bytes)
    /\ seen # Nothing => Aarq.code = "OK" /\ seen = dlms_aarq_decode(Aarq.bytes)

InTurn ==
    /\ seen = Nothing => answer = NoAnswer
    /\ answer = NoAnswer => aare = Nothing

AnswerIs(a, n) ==
    /\ n \in 1 .. Len(AareBytes(a))
    /\ answer = [aare |-> a, whole |-> n = Len(AareBytes(a))]
    /\ aare = Nothing => Carries(wire, AnswerBytes(a, n))
    /\ aare # Nothing => /\ aare = dlms_aare_decode(AnswerBytes(a, n))
                         /\ returned = Verdict(aare)

AnswerKept == answer # NoAnswer => \E a \in Answers : \E n \in Nat : AnswerIs(a, n)

IInv == RequestKept /\ AarqKept /\ InTurn /\ AnswerKept

LEMMA RequestTyped ==
    ASSUME NEW r \in Requests
    PROVE  r \in Asked /\ r # NoRequest
<1>1. r \in [dlms_version : U8, auth_mech : 0 .. 7, auth_value : Seq(U8)]
    BY AssociationAssumption
<1>2. DOMAIN r = {"dlms_version", "auth_mech", "auth_value"}
    BY <1>1
<1>3. DOMAIN NoRequest = {"auth_mech"}
    BY DEF NoRequest
<1>4. r # NoRequest
    BY <1>2, <1>3
<1>5. QED
    BY <1>1, <1>4 DEF Asked

LEMMA AnswerTyped ==
    ASSUME NEW a \in Answers
    PROVE  /\ Answer(a) /\ Len(AareBytes(a)) \in U16
           /\ \A whole : [aare |-> a, whole |-> whole] # NoAnswer
<1>1. Answer(a)
    BY AssociationAssumption DEF Answer
<1>2. Len(AareBytes(a)) \in U16
    BY AareAssumption
<1>3. ASSUME NEW whole
      PROVE  [aare |-> a, whole |-> whole] # NoAnswer
  <2>1. DOMAIN [aare |-> a, whole |-> whole] = {"aare", "whole"}
      OBVIOUS
  <2>2. DOMAIN NoAnswer = {"whole"}
      BY DEF NoAnswer
  <2>3. QED
      BY <2>1, <2>2
<1>4. QED
    BY <1>1, <1>2, <1>3

LEMMA NotNothing ==
    ASSUME NEW d, d.code # "none"
    PROVE  d # Nothing
  BY DEF Nothing

\* What the client decodes of an answer, whole or not.
LEMMA AnswerDecoded ==
    ASSUME NEW a \in Answers, NEW n \in 1 .. Len(AareBytes(a))
    PROVE  /\ AnswerBytes(a, n) \in Seq(U8) /\ AnswerBytes(a, n) # <<>>
           /\ n = Len(AareBytes(a)) => Read(a, dlms_aare_decode(AnswerBytes(a, n)))
           /\ n # Len(AareBytes(a)) => dlms_aare_decode(AnswerBytes(a, n)).code
                                           \in {"INVALID", "PARSE", "BUFFER"}
           /\ dlms_aare_decode(AnswerBytes(a, n)) # Nothing
<1>1. Answer(a) /\ Len(AareBytes(a)) \in U16
    BY AnswerTyped
<1>2. PICK x : x = AareBytes(a)
    OBVIOUS
<1>3. PICK j \in Nat : j > 2 /\ Sized(x, j)
    BY <1>1, <1>2, AareRead
<1>4. Len(x) = j /\ x \in Seq(U8)
    BY <1>3 DEF Sized
<1>5. n \in 1 .. j
    BY <1>2, <1>4
<1>6. PICK s : s = AnswerBytes(a, n)
    OBVIOUS
<1>7. CASE n = j
  <2>1. s = x
    <3>1. Glued(x, x, j, <<>>, 0)
        BY <1>3, GluedNothing
    <3>2. SubSeq(x, 1, j) = x
        BY <3>1, GluedFront
    <3>3. QED
        BY <1>2, <1>6, <1>7, <3>2 DEF AnswerBytes
  <2>2. s \in Seq(U8) /\ s # <<>>
    <3>1. Len(x) # 0
        BY <1>3, <1>4
    <3>2. QED
        BY <1>4, <2>1, <3>1
  <2>3. PICK d : d = dlms_aare_decode(s)
      OBVIOUS
  <2>4. Read(a, d)
      BY <1>1, <1>2, <2>1, <2>3, AareRoundTrip
  <2>5. d # Nothing
      BY <2>4, NotNothing DEF Read
  <2>6. QED
      BY <1>2, <1>4, <1>6, <1>7, <2>2, <2>3, <2>4, <2>5
<1>8. CASE n # j
  <2>1. n \in Nat /\ n >= 1 /\ n < j
      BY <1>5, <1>8
  <2>2. Sized(s, n)
      BY <1>2, <1>3, <1>6, <2>1, FrontSized DEF AnswerBytes
  <2>3. s \in Seq(U8) /\ s # <<>>
    <3>1. Len(s) # 0 /\ s \in Seq(U8)
        BY <2>1, <2>2 DEF Sized
    <3>2. QED
        BY <3>1
  <2>4. PICK d : d = dlms_aare_decode(s)
      OBVIOUS
  <2>5. d.code \in {"INVALID", "PARSE", "BUFFER"}
    <3>1. n < Len(AareBytes(a))
        BY <1>2, <1>4, <2>1
    <3>2. QED
        BY <1>1, <1>6, <2>1, <2>4, <3>1, SegmentRefused DEF AnswerBytes
  <2>6. d # Nothing
      BY <2>5, NotNothing
  <2>7. QED
      BY <1>2, <1>4, <1>6, <1>8, <2>3, <2>4, <2>5, <2>6
<1>9. QED
    BY <1>7, <1>8

LEMMA InitInv == Init => IInv
<1> SUFFICES ASSUME Init
             PROVE  IInv
    OBVIOUS
<1> USE DEF Init
<1>1. RequestKept
    BY DEF RequestKept
<1>2. AarqKept
    BY DEF AarqKept
<1>3. InTurn
    BY DEF InTurn
<1>4. AnswerKept
    BY DEF AnswerKept
<1>5. QED
    BY <1>1, <1>2, <1>3, <1>4 DEF IInv

LEMMA AssociateInv ==
    ASSUME IInv, dlms_associate
    PROVE  IInv'
<1>1. request = NoRequest /\ UNCHANGED <<seen, answer, aare>>
    BY DEF dlms_associate
<1>2. seen = Nothing /\ wire = <<>> /\ answer = NoAnswer /\ aare = Nothing
    BY <1>1 DEF IInv, RequestKept, InTurn
<1>3. PICK r \in Requests :
          LET aarq == dlms_aarq_encode(r, FrameBuf)
              frame == IF aarq.code = "OK"
                       THEN dlms_hdlc_build_info(Server, Client, aarq.bytes, FrameBuf) ELSE aarq
          IN  /\ request' = r
              /\ IF frame.code = "OK"
                 THEN wire' = frame.wire /\ UNCHANGED returned
                 ELSE returned' = frame.code /\ UNCHANGED wire
    BY DEF dlms_associate
<1>4. PICK aarq, frame :
          /\ aarq = dlms_aarq_encode(r, FrameBuf)
          /\ frame = IF aarq.code = "OK"
                     THEN dlms_hdlc_build_info(Server, Client, aarq.bytes, FrameBuf) ELSE aarq
          /\ request' = r
          /\ IF frame.code = "OK"
             THEN wire' = frame.wire /\ UNCHANGED returned
             ELSE returned' = frame.code /\ UNCHANGED wire
    BY <1>3
<1>5. r \in Asked /\ r # NoRequest
    BY RequestTyped
<1>6. RequestKept'
    BY <1>4, <1>5 DEF RequestKept
<1>7. Aarq' = aarq
    BY <1>4 DEF Aarq
<1>8. wire' # <<>> => aarq.code = "OK" /\ Carries(wire', aarq.bytes)
  <2>1. SUFFICES ASSUME wire' # <<>>
                 PROVE  aarq.code = "OK" /\ Carries(wire', aarq.bytes)
      OBVIOUS
  <2>2. frame.code = "OK" /\ wire' = frame.wire
      BY <1>2, <1>4, <2>1
  <2>3. aarq.code = "OK"
      BY <1>4, <2>2
  <2>4. frame = dlms_hdlc_build_info(Server, Client, aarq.bytes, FrameBuf)
      BY <1>4, <2>3
  <2>5. PICK x : x = aarq.bytes
      OBVIOUS
  <2>6. x \in Seq(U8)
      BY <1>4, <1>5, <2>3, <2>5, AarqRoundTrip DEF Sized
  <2>7. Carries(frame.wire, x)
      BY <2>2, <2>4, <2>5, <2>6, EndsPlain, Delivered
  <2>8. QED
      BY <2>2, <2>3, <2>5, <2>7
<1>9. AarqKept'
    BY <1>1, <1>2, <1>7, <1>8 DEF AarqKept
<1>10. InTurn'
    BY <1>1, <1>2 DEF InTurn
<1>11. AnswerKept'
    BY <1>1, <1>2 DEF AnswerKept
<1>12. QED
    BY <1>6, <1>9, <1>10, <1>11 DEF IInv

LEMMA ReceivesInv ==
    ASSUME IInv, MeterReceives
    PROVE  IInv'
<1>1. wire # <<>> /\ seen = Nothing /\ UNCHANGED <<request, returned, answer, aare>>
    BY DEF MeterReceives
<1>2. answer = NoAnswer /\ aare = Nothing
    BY <1>1 DEF IInv, InTurn
<1>3. request \in Requests
    BY <1>1 DEF IInv, RequestKept
<1>4. Aarq.code = "OK" /\ Carries(wire, Aarq.bytes)
    BY <1>1 DEF IInv, AarqKept
<1>5. PICK x : x = Aarq.bytes
    OBVIOUS
<1>6. seen' = dlms_aarq_decode(x)
  <2>1. PICK frame : frame = dlms_hdlc_frame_decode(wire)
      OBVIOUS
  <2>2. frame.code = "OK" /\ frame.info = x
      BY <1>4, <1>5, <2>1 DEF Carries
  <2>3. seen' = IF frame.code = "OK" THEN dlms_aarq_decode(frame.info) ELSE frame
      BY <2>1 DEF MeterReceives
  <2>4. QED
      BY <2>2, <2>3
<1>7. seen' # Nothing
  <2>1. request \in Asked
      BY <1>3, RequestTyped
  <2>2. dlms_aarq_decode(x).code = "OK"
    <3>1. dlms_aarq_decode(x) =
              [code |-> "OK", consumed |-> Len(x), auth_value |-> request.auth_value,
               auth_mech |-> request.auth_mech, dlms_version |-> request.dlms_version]
        BY <1>4, <1>5, <2>1, AarqRoundTrip DEF Aarq
    <3>2. QED
        BY <3>1
  <2>3. QED
      BY <1>6, <2>2, NotNothing
<1>8. RequestKept'
  <2>1. request # NoRequest
      BY <1>3, RequestTyped
  <2>2. QED
      BY <1>1, <1>3, <2>1 DEF RequestKept
<1>9. Aarq' = Aarq
    BY <1>1 DEF Aarq
<1>10. AarqKept'
    BY <1>4, <1>5, <1>6, <1>7, <1>9 DEF AarqKept
<1>11. InTurn'
    BY <1>1, <1>2, <1>7 DEF InTurn
<1>12. AnswerKept'
    BY <1>1, <1>2 DEF AnswerKept
<1>13. QED
    BY <1>8, <1>10, <1>11, <1>12 DEF IInv

LEMMA AnswersInv ==
    ASSUME IInv, MeterAnswers
    PROVE  IInv'
<1>1. seen # Nothing /\ answer = NoAnswer /\ UNCHANGED <<request, returned, seen, aare>>
    BY DEF MeterAnswers
<1>2. aare = Nothing
    BY <1>1 DEF IInv, InTurn
<1>3. PICK a \in Answers :
          \E n \in {Len(AareBytes(a))} \cup {m \in Segments : m < Len(AareBytes(a))} :
             LET frame == dlms_hdlc_build_info(Client, Server, SubSeq(AareBytes(a), 1, n),
                                               FrameBuf)
             IN  /\ frame.code = "OK"
                 /\ wire' = frame.wire
                 /\ answer' = [aare |-> a, whole |-> n = Len(AareBytes(a))]
    BY DEF MeterAnswers
<1>4. PICK n, frame :
          /\ n = Len(AareBytes(a)) \/ (n \in Segments /\ n < Len(AareBytes(a)))
          /\ frame = dlms_hdlc_build_info(Client, Server, AnswerBytes(a, n), FrameBuf)
          /\ frame.code = "OK"
          /\ wire' = frame.wire
          /\ answer' = [aare |-> a, whole |-> n = Len(AareBytes(a))]
    BY <1>3 DEF AnswerBytes
<1>5. n \in 1 .. Len(AareBytes(a)) /\ n \in Nat
  <2>1. Answer(a) /\ Len(AareBytes(a)) \in U16
      BY AnswerTyped
  <2>2. PICK x : x = AareBytes(a)
      OBVIOUS
  <2>3. PICK j \in Nat : j > 2 /\ Sized(x, j)
      BY <2>1, <2>2, AareRead
  <2>4. Len(x) = j
      BY <2>3 DEF Sized
  <2>5. n = j \/ (n \in Nat \ {0} /\ n < j)
      BY <1>4, <2>2, <2>4, AssociationAssumption
  <2>6. n \in Nat /\ n >= 1 /\ n <= j
      BY <2>3, <2>5
  <2>7. n \in 1 .. j
      BY <2>6
  <2>8. QED
      BY <2>2, <2>4, <2>6, <2>7
<1>6. Carries(wire', AnswerBytes(a, n))
  <2>1. PICK x : x = AnswerBytes(a, n)
      OBVIOUS
  <2>2. x \in Seq(U8)
      BY <1>5, <2>1, AnswerDecoded
  <2>3. Carries(frame.wire, x)
      BY <1>4, <2>1, <2>2, EndsPlain, Delivered
  <2>4. QED
      BY <1>4, <2>1, <2>3
<1>7. RequestKept'
    BY <1>1 DEF IInv, RequestKept
<1>8. AarqKept'
  <2>1. Aarq' = Aarq
      BY <1>1 DEF Aarq
  <2>2. QED
      BY <1>1, <2>1 DEF IInv, AarqKept
<1>9. InTurn'
  <2>1. answer' # NoAnswer
      BY <1>4, AnswerTyped
  <2>2. QED
      BY <1>1, <2>1 DEF InTurn
<1>10. AnswerIs(a, n)'
    BY <1>1, <1>2, <1>4, <1>5, <1>6 DEF AnswerIs
<1>11. AnswerKept'
    BY <1>5, <1>10 DEF AnswerKept
<1>12. QED
    BY <1>7, <1>8, <1>9, <1>11 DEF IInv

\* The client returns what the decoder made of the answer.
LEMMA AnswerJudged ==
    ASSUME NEW a \in Answers, NEW n \in 1 .. Len(AareBytes(a)),
           NEW d, d = dlms_aare_decode(AnswerBytes(a, n))
    PROVE  /\ n = Len(AareBytes(a)) =>
                  Verdict(d) = (IF aare_result(a) = 0 THEN "OK" ELSE "ERROR")
           /\ n # Len(AareBytes(a)) => Verdict(d) \in {"INVALID", "PARSE", "BUFFER"}
           /\ Verdict(d) # "none"
<1>1. CASE n = Len(AareBytes(a))
  <2>1. d.code = "OK" /\ d.result = aare_result(a)
      BY <1>1, AnswerDecoded DEF Read
  <2>2. Verdict(d) = (IF aare_result(a) = 0 THEN "OK" ELSE "ERROR")
      BY <2>1 DEF Verdict
  <2>3. Verdict(d) # "none"
      BY <2>2
  <2>4. QED
      BY <1>1, <2>2, <2>3
<1>2. CASE n # Len(AareBytes(a))
  <2>1. d.code \in {"INVALID", "PARSE", "BUFFER"}
      BY <1>2, AnswerDecoded
  <2>2. Verdict(d) = d.code
      BY <2>1 DEF Verdict
  <2>3. Verdict(d) # "none"
      BY <2>1, <2>2
  <2>4. QED
      BY <1>2, <2>1, <2>2, <2>3
<1>3. QED
    BY <1>1, <1>2

LEMMA AareInv ==
    ASSUME IInv, dlms_associate_aare
    PROVE  IInv'
<1>1. /\ answer # NoAnswer /\ returned = "none" /\ wire' = <<>>
      /\ UNCHANGED <<request, seen, answer>>
    BY DEF dlms_associate_aare
<1>2. seen # Nothing
    BY <1>1 DEF IInv, InTurn
<1>3. PICK a \in Answers : \E n \in Nat : AnswerIs(a, n)
    BY <1>1 DEF IInv, AnswerKept
<1>4. PICK n \in Nat : AnswerIs(a, n)
    BY <1>3
<1>5. n \in 1 .. Len(AareBytes(a))
    BY <1>4 DEF AnswerIs
<1>6. PICK x, d : x = AnswerBytes(a, n) /\ d = dlms_aare_decode(x)
    OBVIOUS
<1>7. x # <<>> /\ d # Nothing
    BY <1>5, <1>6, AnswerDecoded
<1>8. aare = Nothing
  <2>1. SUFFICES ASSUME aare # Nothing
                 PROVE  FALSE
      OBVIOUS
  <2>2. aare = d /\ returned = Verdict(aare)
      BY <1>4, <1>6, <2>1 DEF AnswerIs
  <2>3. Verdict(d) # "none"
      BY <1>5, <1>6, AnswerJudged
  <2>4. QED
      BY <1>1, <2>2, <2>3
<1>9. Carries(wire, x)
    BY <1>4, <1>6, <1>8 DEF AnswerIs
<1>10. aare' = d /\ returned' = Verdict(d)
  <2>1. PICK frame : frame = dlms_hdlc_frame_decode(wire)
      OBVIOUS
  <2>2. frame.code = "OK" /\ frame.type = "INFO" /\ frame.info = x
      BY <1>9, <2>1 DEF Carries
  <2>3. /\ aare' = IF frame.code # "OK" THEN frame
                  ELSE IF frame.type # "INFO" \/ frame.info = <<>> THEN Error("PARSE")
                  ELSE dlms_aare_decode(frame.info)
        /\ returned' = IF aare'.code # "OK" THEN aare'.code
                       ELSE IF aare'.result # 0 THEN "ERROR" ELSE "OK"
      BY <2>1 DEF dlms_associate_aare
  <2>4. aare' = d
      BY <1>6, <1>7, <2>2, <2>3
  <2>5. QED
      BY <2>3, <2>4 DEF Verdict
<1>11. RequestKept'
    BY <1>1, <1>2 DEF IInv, RequestKept
<1>12. AarqKept'
  <2>1. Aarq' = Aarq
      BY <1>1 DEF Aarq
  <2>2. QED
      BY <1>1, <1>2, <2>1 DEF IInv, AarqKept
<1>13. InTurn'
    BY <1>1, <1>2 DEF InTurn
<1>14. AnswerIs(a, n)'
    BY <1>1, <1>4, <1>6, <1>7, <1>10 DEF AnswerIs
<1>15. AnswerKept'
    BY <1>14 DEF AnswerKept
<1>16. QED
    BY <1>11, <1>12, <1>13, <1>15 DEF IInv

LEMMA StutterInv ==
    ASSUME IInv, UNCHANGED vars
    PROVE  IInv'
  BY DEF IInv, RequestKept, AarqKept, InTurn, AnswerKept, AnswerIs, Aarq, vars

LEMMA NextInv == IInv /\ [Next]_vars => IInv'
<1> SUFFICES ASSUME IInv, [Next]_vars
             PROVE  IInv'
    OBVIOUS
<1>1. CASE dlms_associate
    BY <1>1, AssociateInv
<1>2. CASE MeterReceives
    BY <1>2, ReceivesInv
<1>3. CASE MeterAnswers
    BY <1>3, AnswersInv
<1>4. CASE dlms_associate_aare
    BY <1>4, AareInv
<1>5. CASE UNCHANGED vars
    BY <1>5, StutterInv
<1>6. QED
    BY <1>1, <1>2, <1>3, <1>4, <1>5 DEF Next

LEMMA AlwaysInv == Spec => []IInv
<1>1. Init => IInv
    BY InitInv
<1>2. IInv /\ [Next]_vars => IInv'
    BY NextInv
<1>3. QED
    BY <1>1, <1>2, PTL DEF Spec

------------------------------------------------------------------------------
(* The theorems. *)

\* Every AARQ that dlms_associate hands to send_fn reaches the meter as it was asked:
\* what dlms_aarq_decode makes of the frame is the version, the mechanism and the
\* password of the request, whatever bytes the password has and however long it is.
THEOREM RequestsUnderstood == Spec => []AarqUnderstood
<1>1. IInv => AarqUnderstood
  <2>1. SUFFICES ASSUME IInv, seen # Nothing
                 PROVE  /\ seen.code = "OK"
                        /\ seen.consumed = Len(Aarq.bytes)
                        /\ seen.dlms_version = request.dlms_version
                        /\ seen.auth_mech = request.auth_mech
                        /\ seen.auth_value = request.auth_value
      BY DEF AarqUnderstood, Aarq
  <2>2. Aarq.code = "OK" /\ seen = dlms_aarq_decode(Aarq.bytes)
      BY <2>1 DEF IInv, AarqKept
  <2>3. request \in Asked
      BY <2>1, RequestTyped DEF IInv, RequestKept
  <2>4. PICK x : x = Aarq.bytes
      OBVIOUS
  <2>5. seen = [code |-> "OK", consumed |-> Len(x), auth_value |-> request.auth_value,
                auth_mech |-> request.auth_mech, dlms_version |-> request.dlms_version]
      BY <2>2, <2>3, <2>4, AarqRoundTrip DEF Aarq
  <2>6. QED
      BY <2>4, <2>5
<1>2. QED
    BY <1>1, AlwaysInv, PTL

\* What the client has decoded, it has decoded of an answer, whole or not.
LEMMA AareIs ==
    ASSUME IInv, aare # Nothing
    PROVE  \E a \in Answers, n \in Nat :
               /\ n \in 1 .. Len(AareBytes(a))
               /\ answer = [aare |-> a, whole |-> n = Len(AareBytes(a))]
               /\ aare = dlms_aare_decode(AnswerBytes(a, n))
               /\ returned = Verdict(aare)
<1>1. answer # NoAnswer
    BY DEF IInv, InTurn
<1>2. PICK a \in Answers : \E n \in Nat : AnswerIs(a, n)
    BY <1>1 DEF IInv, AnswerKept
<1>3. PICK n \in Nat : AnswerIs(a, n)
    BY <1>2
<1>4. /\ n \in 1 .. Len(AareBytes(a))
      /\ answer = [aare |-> a, whole |-> n = Len(AareBytes(a))]
      /\ aare = dlms_aare_decode(AnswerBytes(a, n))
      /\ returned = Verdict(aare)
    BY <1>3 DEF AnswerIs
<1>5. QED
    BY <1>4

\* dlms_associate never takes the first segment of an AARE for the whole, wherever the
\* segment ends: dlms_aare_decode fails, and its code is returned.
THEOREM SegmentsRejected == Spec => []SegmentRejected
<1>1. IInv => SegmentRejected
  <2>1. SUFFICES ASSUME IInv, aare # Nothing, ~answer.whole
                 PROVE  returned \notin {"OK", "ERROR", "none"}
      BY DEF SegmentRejected
  <2>2. PICK a \in Answers, n \in Nat :
            /\ n \in 1 .. Len(AareBytes(a))
            /\ answer = [aare |-> a, whole |-> n = Len(AareBytes(a))]
            /\ aare = dlms_aare_decode(AnswerBytes(a, n))
            /\ returned = Verdict(aare)
      BY <2>1, AareIs
  <2>3. n # Len(AareBytes(a))
      BY <2>1, <2>2
  <2>4. returned \in {"INVALID", "PARSE", "BUFFER"}
      BY <2>2, <2>3, AnswerJudged
  <2>5. QED
      BY <2>4
<1>2. QED
    BY <1>1, AlwaysInv, PTL

\* What is known of a whole AARE that the client has decoded.
LEMMA WholeRead ==
    ASSUME IInv, aare # Nothing, answer.whole
    PROVE  /\ answer.aare \in Answers /\ Answer(answer.aare)
           /\ Read(answer.aare, aare)
           /\ returned = (IF aare_result(answer.aare) = 0 THEN "OK" ELSE "ERROR")
<1>1. PICK a \in Answers, n \in Nat :
          /\ n \in 1 .. Len(AareBytes(a))
          /\ answer = [aare |-> a, whole |-> n = Len(AareBytes(a))]
          /\ aare = dlms_aare_decode(AnswerBytes(a, n))
          /\ returned = Verdict(aare)
    BY AareIs
<1>2. n = Len(AareBytes(a)) /\ answer.aare = a
    BY <1>1
<1>3. Read(a, aare)
    BY <1>1, <1>2, AnswerDecoded
<1>4. returned = (IF aare_result(a) = 0 THEN "OK" ELSE "ERROR")
    BY <1>1, <1>2, AnswerJudged
<1>5. QED
    BY <1>2, <1>3, <1>4, AnswerTyped

\* Of an AARE with its result in the form dlms_aare_decode expects, result and user
\* information arrive as they were sent, whichever optional elements come before and
\* whatever the title, the authentication value and the sizes are.
THEOREM AnswersUnderstood ==
    ASSUME Expressible
    PROVE  Spec => []AareUnderstood
<1>1. IInv => AareUnderstood
  <2>1. SUFFICES ASSUME IInv, aare # Nothing, answer.whole, answer.aare.form = "bare",
                        NEW a, a = answer.aare
                 PROVE  /\ aare.code = "OK"
                        /\ (aare.result = 0) = a.accept
                        /\ a.ui =>
                               /\ aare.dlms_version = a.dlms_version
                               /\ aare.auth_mech = a.auth_mech
                               /\ aare.auth_value = a.auth_value
                               /\ aare.title = a.title
                               /\ a.pdu # 0 => aare.negotiated_max_pdu_size = a.pdu
      BY DEF AareUnderstood
  <2>2. a \in Answers /\ Answer(a) /\ Read(a, aare)
      BY <2>1, WholeRead
  <2>3. Len(a.auth_value) <= 127
      BY <2>2 DEF Expressible
  <2>4. aare.code = "OK" /\ aare.result = aare_result(a)
      BY <2>2 DEF Read
  <2>5. (aare.result = 0) = a.accept
    <3>1. a.accept \in BOOLEAN
        BY <2>2 DEF Answer
    <3>2. aare.result = IF a.accept THEN 0 ELSE 1
        BY <2>1, <2>4 DEF aare_result
    <3>3. QED
        BY <3>1, <3>2
  <2>6. ASSUME a.ui
        PROVE  /\ aare.dlms_version = a.dlms_version
               /\ aare.auth_mech = a.auth_mech
               /\ aare.auth_value = a.auth_value
               /\ aare.title = a.title
               /\ aare.negotiated_max_pdu_size = SizeRead(a.pdu)
      BY <2>1, <2>2, <2>3, <2>6 DEF Read
  <2>7. QED
      BY <2>4, <2>5, <2>6 DEF SizeRead
<1>2. QED
    BY <1>1, AlwaysInv, PTL

\* DlmsClient decides on an AARE by aare_result and negotiated_pdu; these are what the
\* bytes of the AARE are decoded to, in each of the three forms of the result.
THEOREM ClientAbstracts ==
    ASSUME Expressible
    PROVE  Spec => []AbstractionAgrees
<1>1. IInv => AbstractionAgrees
  <2>1. SUFFICES ASSUME IInv, aare # Nothing, answer.whole, NEW a, a = answer.aare
                 PROVE  /\ returned = (IF aare_result(a) = 0 THEN "OK" ELSE "ERROR")
                        /\ DecodedSizes \subseteq negotiated_pdu(a, {a.pdu})
      BY DEF AbstractionAgrees
  <2>2. a \in Answers /\ Read(a, aare)
      BY <2>1, WholeRead
  <2>3. returned = (IF aare_result(a) = 0 THEN "OK" ELSE "ERROR")
      BY <2>1, WholeRead
  <2>4. PICK size : size = aare.negotiated_max_pdu_size
      OBVIOUS
  <2>5. CASE a.form = "bare" /\ a.ui
    <3>1. Len(a.auth_value) <= 127
        BY <2>2 DEF Expressible
    <3>2. size = SizeRead(a.pdu)
        BY <2>2, <2>4, <2>5, <3>1 DEF Read
    <3>3. size = Unset \/ size = a.pdu
        BY <3>2 DEF SizeRead
    <3>4. DecodedSizes \subseteq {a.pdu}
        BY <2>4, <3>3 DEF DecodedSizes
    <3>5. QED
        BY <2>3, <2>5, <3>4 DEF negotiated_pdu
  <2>6. CASE ~(a.form = "bare" /\ a.ui)
    <3>1. size = 0
        BY <2>2, <2>4, <2>6 DEF Read
    <3>2. DecodedSizes \subseteq {0}
        BY <2>4, <3>1 DEF DecodedSizes
    <3>3. QED
        BY <2>3, <2>6, <3>2 DEF negotiated_pdu
  <2>7. QED
      BY <2>5, <2>6
<1>2. QED
    BY <1>1, AlwaysInv, PTL

==============================================================================
