--------------------------- MODULE HdlcFrameProofs ---------------------------
(***************************************************************************)
(* The frames of HdlcFrame arrive as they were sent: proofs for any        *)
(* information, parameters and addresses that the encoding can express.    *)
(***************************************************************************)
EXTENDS HdlcFrame, HdlcCodecProofs

------------------------------------------------------------------------------
(* Parameter lists. *)

Distinct(list) == \A i, j \in 1 .. Len(list) : list[i].type = list[j].type => i = j
ParamsOK(list) == list \in Seq(Parameters) /\ Len(list) <= MAX_PARAMS /\ Distinct(list)

LEMMA SetAdds ==
    ASSUME NEW list \in Seq(Parameters), Len(list) < MAX_PARAMS, NEW type, NEW value,
           \A i \in 1 .. Len(list) : list[i].type # type
    PROVE  dlms_hdlc_param_list_set(list, type, value)
               = Append(list, [type |-> type, value |-> value])
<1>1. {i \in 1 .. Len(list) : list[i].type = type} = {}
    OBVIOUS
<1>2. ~(Len(list) >= MAX_PARAMS)
    BY LenProperties DEF MAX_PARAMS
<1>3. QED
    BY <1>1, <1>2 DEF dlms_hdlc_param_list_set

LEMMA SetKeeps ==
    ASSUME NEW list, ParamsOK(list), NEW type \in U8, NEW value \in U16
    PROVE  ParamsOK(dlms_hdlc_param_list_set(list, type, value))
<1>1. list \in Seq(Parameters) /\ Len(list) <= 5 /\ Distinct(list)
    BY DEF ParamsOK, MAX_PARAMS
<1>2. PICK n \in Nat : n = Len(list) /\ n <= 5
    BY <1>1, LenProperties
<1>3. PICK p \in Parameters : p = [type |-> type, value |-> value] /\ p.type = type
  <2>1. [type |-> type, value |-> value] \in Parameters
      BY DEF Parameters
  <2>2. QED
      BY <2>1
<1>4. PICK at : at = {i \in 1 .. Len(list) : list[i].type = type}
    OBVIOUS
<1>5. PICK new : new = dlms_hdlc_param_list_set(list, type, value)
    OBVIOUS
<1>6. CASE at # {}
  <2>1. new = [i \in 1 .. n |-> IF i \in at THEN p ELSE list[i]]
      BY <1>2, <1>3, <1>4, <1>5, <1>6 DEF dlms_hdlc_param_list_set
  <2>2. \A i \in 1 .. n : list[i] \in Parameters
      BY <1>1, <1>2, ElementOfSeq
  <2>3. \A i \in 1 .. n : (IF i \in at THEN p ELSE list[i]) \in Parameters
      BY <2>2
  <2>4. new \in Seq(Parameters)
      BY <2>1, <2>3, IsASeq
  <2>5. Len(new) = n
      BY <2>1
  <2>6. \A i \in 1 .. n : new[i].type = list[i].type
    <3>1. SUFFICES ASSUME NEW i \in 1 .. n PROVE new[i].type = list[i].type
        OBVIOUS
    <3>2. new[i] = IF i \in at THEN p ELSE list[i]
        BY <2>1
    <3>3. CASE i \in at
        BY <1>3, <1>4, <3>2, <3>3
    <3>4. CASE i \notin at
        BY <3>2, <3>4
    <3>5. QED
        BY <3>3, <3>4
  <2>7. Distinct(new)
      BY <1>1, <1>2, <2>5, <2>6 DEF Distinct
  <2>8. QED
      BY <1>2, <1>5, <2>4, <2>5, <2>7 DEF ParamsOK, MAX_PARAMS
<1>7. CASE at = {} /\ n = 5
  <2>1. new = list
      BY <1>2, <1>4, <1>5, <1>7 DEF dlms_hdlc_param_list_set, MAX_PARAMS
  <2>2. QED
      BY <1>5, <2>1
<1>8. CASE at = {} /\ n < 5
  <2>1. \A i \in 1 .. n : list[i].type # type
      BY <1>2, <1>4, <1>8
  <2>2. new = Append(list, p)
      BY <1>1, <1>2, <1>3, <1>5, <1>8, <2>1, SetAdds DEF MAX_PARAMS
  <2>3. new \in Seq(Parameters) /\ Len(new) = n + 1 /\ new[n + 1] = p
        /\ \A i \in 1 .. n : new[i] = list[i]
      BY <1>1, <1>2, <2>2, AppendProperties
  <2>4. ASSUME NEW i \in 1 .. n + 1, NEW j \in 1 .. n + 1, new[i].type = new[j].type
        PROVE  i = j
    <3>1. CASE i = n + 1 /\ j = n + 1
        BY <3>1
    <3>2. CASE i = n + 1 /\ j # n + 1
      <4>1. j \in 1 .. n
          BY <3>2
      <4>2. QED
          BY <1>3, <2>1, <2>3, <2>4, <3>2, <4>1
    <3>3. CASE i # n + 1 /\ j = n + 1
      <4>1. i \in 1 .. n
          BY <3>3
      <4>2. QED
          BY <1>3, <2>1, <2>3, <2>4, <3>3, <4>1
    <3>4. CASE i # n + 1 /\ j # n + 1
      <4>1. i \in 1 .. n /\ j \in 1 .. n
          BY <3>4
      <4>2. list[i].type = list[j].type
          BY <2>3, <2>4, <4>1
      <4>3. QED
          BY <1>1, <1>2, <4>1, <4>2 DEF Distinct
    <3>5. QED
        BY <3>1, <3>2, <3>3, <3>4
  <2>5. Distinct(new)
      BY <2>3, <2>4 DEF Distinct
  <2>6. QED
      BY <1>5, <1>8, <2>3, <2>5 DEF ParamsOK, MAX_PARAMS
<1>9. QED
    BY <1>2, <1>6, <1>7, <1>8

\* An entry as it is sent: its type, k and k bytes with its value.
EncodedAs(p, e, k) ==
    /\ Sized(e, 2 + k)
    /\ e[1] = p.type /\ e[2] = k
    /\ IF k = 1 THEN InWidth(p).value = e[3] ELSE InWidth(p).value = Word(e[3], e[4])

LEMMA ParamEncoded ==
    ASSUME NEW p \in Parameters
    PROVE  \E k \in {1, 2} : EncodedAs(p, EncodedParam(p), k)
<1>1. p.type \in U8 /\ p.value \in U16
    BY DEF Parameters
<1>2. PICK h \in U8, l \in U8 : h = Hi(p.value) /\ l = Lo(p.value) /\ Word(h, l) = p.value
    BY <1>1, Halves
<1>3. PICK e : e = EncodedParam(p)
    OBVIOUS
<1>4. CASE p.type \in WideParams
  <2>1. e = <<p.type, 2, h, l>>
      BY <1>2, <1>3, <1>4 DEF EncodedParam
  <2>2. 2 \in U8
      BY DEF U8
  <2>3. <<p.type, 2, h, l>> \in Seq(U8) /\ Len(<<p.type, 2, h, l>>) = 4
      BY <1>1, <2>2
  <2>4. Sized(e, 2 + 2)
      BY <2>1, <2>3 DEF Sized
  <2>5. e[1] = p.type /\ e[2] = 2 /\ e[3] = h /\ e[4] = l
      BY <2>1
  <2>6. InWidth(p).value = p.value
      BY <1>4 DEF InWidth, Parameters
  <2>7. EncodedAs(p, e, 2)
      BY <1>2, <2>4, <2>5, <2>6 DEF EncodedAs
  <2>8. QED
      BY <1>3, <2>7
<1>5. CASE p.type \notin WideParams
  <2>1. e = <<p.type, 1, l>>
      BY <1>2, <1>3, <1>5 DEF EncodedParam
  <2>2. 1 \in U8
      BY DEF U8
  <2>3. <<p.type, 1, l>> \in Seq(U8) /\ Len(<<p.type, 1, l>>) = 3
      BY <1>1, <2>2
  <2>4. Sized(e, 2 + 1)
      BY <2>1, <2>3 DEF Sized
  <2>5. e[1] = p.type /\ e[2] = 1 /\ e[3] = l
      BY <2>1
  <2>6. InWidth(p).value = l
      BY <1>2, <1>5 DEF InWidth, Parameters
  <2>7. EncodedAs(p, e, 1)
      BY <2>4, <2>5, <2>6 DEF EncodedAs
  <2>8. QED
      BY <1>3, <2>7
<1>6. QED
    BY <1>4, <1>5

\* f[k] is what the first k entries of the list are sent as.
Flat(f, list) ==
    /\ f \in [Nat -> Seq(U8)] /\ f[0] = <<>>
    /\ \A k \in Nat : k < Len(list) => f[k + 1] = f[k] \o EncodedParam(list[k + 1])

LEMMA Flattened ==
    ASSUME NEW list \in Seq(Parameters)
    PROVE  \E f : Flat(f, list) /\ dlms_hdlc_param_list_encode(list) = f[Len(list)]
<1>1. PICK n \in Nat : n = Len(list)
    BY LenProperties
<1>2. \A i \in 1 .. n : EncodedParam(list[i]) \in Seq(U8)
  <2>1. SUFFICES ASSUME NEW i \in 1 .. n PROVE EncodedParam(list[i]) \in Seq(U8)
      OBVIOUS
  <2>2. list[i] \in Parameters
      BY <1>1, ElementOfSeq
  <2>3. QED
      BY <2>2, ParamEncoded DEF EncodedAs, Sized
<1>3. PICK next : next = [k \in Nat |-> [y \in Seq(U8) |->
                     IF k < n THEN y \o EncodedParam(list[k + 1]) ELSE y]]
    OBVIOUS
<1>4. next \in [Nat -> [Seq(U8) -> Seq(U8)]]
  <2>1. ASSUME NEW k \in Nat, NEW y \in Seq(U8)
        PROVE  (IF k < n THEN y \o EncodedParam(list[k + 1]) ELSE y) \in Seq(U8)
    <3>1. CASE k < n
      <4>1. EncodedParam(list[k + 1]) \in Seq(U8)
          BY <1>2, <3>1
      <4>2. QED
          BY <3>1, <4>1, ConcatProperties
    <3>2. QED
        BY <3>1
  <2>2. QED
      BY <1>3, <2>1
<1>5. <<>> \in Seq(U8)
    BY EmptySeq
<1>6. PICK f : Goes(f, Seq(U8), <<>>, next)
    BY <1>4, <1>5, Recursion
<1>7. f \in [Nat -> Seq(U8)] /\ f[0] = <<>> /\ \A k \in Nat : f[k + 1] = next[k][f[k]]
    BY <1>6 DEF Goes
<1>8. ASSUME NEW k \in Nat, k < n PROVE f[k + 1] = f[k] \o EncodedParam(list[k + 1])
  <2>1. f[k] \in Seq(U8) /\ f[k + 1] = next[k][f[k]]
      BY <1>7
  <2>2. next[k][f[k]] = f[k] \o EncodedParam(list[k + 1])
      BY <1>3, <1>8, <2>1
  <2>3. QED
      BY <2>1, <2>2
<1>9. Flat(f, list)
    BY <1>1, <1>7, <1>8 DEF Flat
<1>10. PICK parts : parts = [i \in 1 .. n |-> EncodedParam(list[i])]
    OBVIOUS
<1>11. Len(parts) = n
    BY <1>10
<1>12. dlms_hdlc_param_list_encode(list) = FlattenSeq(parts)
    BY <1>1, <1>10 DEF dlms_hdlc_param_list_encode
<1>13. CASE n = 0
  <2>1. parts \in Seq(U8)
    <3>1. \A i \in 1 .. n : EncodedParam(list[i]) \in U8
        BY <1>13
    <3>2. QED
        BY <1>10, <3>1, IsASeq
  <2>2. parts = <<>>
      BY <1>11, <1>13, <2>1, EmptySeq
  <2>3. FlattenSeq(parts) = parts
      BY <1>11, <1>13 DEF FlattenSeq
  <2>4. QED
      BY <1>1, <1>7, <1>9, <1>12, <1>13, <2>2, <2>3
<1>14. CASE n # 0
  <2> DEFINE Fits(g) == g = [i \in 1 .. Len(parts) |->
                                 IF i = 1 THEN parts[i] ELSE g[i - 1] \o parts[i]]
  <2>1. FlattenSeq(parts) = (CHOOSE g : Fits(g))[n]
      BY <1>11, <1>14 DEF FlattenSeq
  <2>2. PICK w : w = [i \in 1 .. n |-> f[i]]
      OBVIOUS
  <2>3. Fits(w)
    <3>1. PICK v : v = [i \in 1 .. n |-> IF i = 1 THEN parts[i] ELSE w[i - 1] \o parts[i]]
        OBVIOUS
    <3>2. ASSUME NEW i \in 1 .. n PROVE w[i] = v[i]
      <4>1. PICK k \in Nat : k = i - 1 /\ k + 1 = i /\ k < n
          OBVIOUS
      <4>2. f[i] = f[k] \o EncodedParam(list[i])
          BY <1>8, <4>1
      <4>3. parts[i] = EncodedParam(list[i]) /\ w[i] = f[i]
          BY <1>10, <2>2
      <4>4. CASE i = 1
        <5>1. f[k] = <<>>
            BY <1>7, <4>1, <4>4
        <5>2. <<>> \o EncodedParam(list[i]) = EncodedParam(list[i])
            BY <1>2, ConcatEmptySeq
        <5>3. v[i] = parts[i]
            BY <3>1, <4>4
        <5>4. QED
            BY <4>2, <4>3, <5>1, <5>2, <5>3
      <4>5. CASE i # 1
        <5>1. k \in 1 .. n
            BY <4>1, <4>5
        <5>2. w[k] = f[k]
            BY <2>2, <5>1
        <5>3. v[i] = w[k] \o parts[i]
            BY <3>1, <4>1, <4>5
        <5>4. QED
            BY <4>2, <4>3, <5>2, <5>3
      <4>6. QED
          BY <4>4, <4>5
    <3>3. w = v
        BY <2>2, <3>1, <3>2
    <3>4. QED
        BY <1>11, <3>1, <3>3
  <2>4. PICK g : g = CHOOSE h : Fits(h)
      OBVIOUS
  <2>5. Fits(g)
      BY <2>3, <2>4
  <2>6. ASSUME NEW i \in 1 .. n
        PROVE  g[i] = IF i = 1 THEN parts[i] ELSE g[i - 1] \o parts[i]
      BY <1>11, <2>5
  <2>7. ASSUME NEW i \in 1 .. n
        PROVE  w[i] = IF i = 1 THEN parts[i] ELSE w[i - 1] \o parts[i]
      BY <1>11, <2>3
  <2> HIDE DEF Fits
  <2> DEFINE D == {k \in Nat : k + 1 <= n => g[k + 1] = w[k + 1]}
  <2>8. 0 \in D
    <3>1. 1 \in 1 .. n
        BY <1>14
    <3>2. g[1] = parts[1] /\ w[1] = parts[1]
        BY <2>6, <2>7, <3>1
    <3>3. QED
        BY <3>2, 0 + 1 = 1
  <2>9. ASSUME NEW k \in D PROVE k + 1 \in D
    <3>1. SUFFICES ASSUME (k + 1) + 1 <= n PROVE g[(k + 1) + 1] = w[(k + 1) + 1]
        OBVIOUS
    <3>2. PICK i \in 1 .. n : i = (k + 1) + 1 /\ i # 1 /\ i - 1 = k + 1
        BY <3>1
    <3>3. g[k + 1] = w[k + 1]
        BY <3>1
    <3>4. g[i] = g[i - 1] \o parts[i]
        BY <2>6, <3>2
    <3>5. w[i] = w[i - 1] \o parts[i]
        BY <2>7, <3>2
    <3>6. QED
        BY <3>2, <3>3, <3>4, <3>5
  <2>10. D = Nat
    <3> HIDE DEF D
    <3>1. D \subseteq Nat
        BY DEF D
    <3>2. QED
        BY <2>8, <2>9, <3>1, AllNumbers
  <2>11. PICK k \in Nat : k + 1 = n
    <3>1. n - 1 \in Nat /\ (n - 1) + 1 = n
        BY <1>14
    <3>2. QED
        BY <3>1
  <2>12. g[n] = w[n]
    <3>1. k \in D
        BY <2>10
    <3>2. QED
        BY <2>11, <3>1
  <2>13. w[n] = f[n]
    <3>1. n \in 1 .. n
        BY <1>14
    <3>2. QED
        BY <2>2, <3>1
  <2>14. QED
      BY <1>1, <1>9, <1>12, <2>1, <2>4, <2>12, <2>13
<1>15. QED
    BY <1>13, <1>14

\* Where the bytes of entry k + 1 are among those of all entries.
Within(f, s, list, k) ==
    \E e, j : /\ j \in {1, 2} /\ EncodedAs(list[k + 1], e, j)
              /\ Len(f[k + 1]) = Len(f[k]) + 2 + j /\ Len(f[k + 1]) <= Len(s)
              /\ \A i \in 1 .. 2 + j : s[Len(f[k]) + i] = e[i]

\* One entry more has its bytes at the end, and changes none before.
LEMMA FlatStep ==
    ASSUME NEW list \in Seq(Parameters), NEW f, Flat(f, list),
           NEW k \in Nat, k < Len(list)
    PROVE  \E e, j : /\ j \in {1, 2} /\ EncodedAs(list[k + 1], e, j)
                     /\ Joins(f[k + 1], f[k], Len(f[k]), e, 2 + j)
<1>1. k + 1 \in 1 .. Len(list)
    BY LenProperties
<1>2. list[k + 1] \in Parameters
    BY <1>1, ElementOfSeq
<1>3. PICK e : e = EncodedParam(list[k + 1])
    OBVIOUS
<1>4. PICK j \in {1, 2} : EncodedAs(list[k + 1], e, j)
    BY <1>2, <1>3, ParamEncoded
<1>5. Sized(e, 2 + j)
    BY <1>4 DEF EncodedAs
<1>6. PICK a : a = f[k]
    OBVIOUS
<1>7. a \in Seq(U8)
    BY <1>6 DEF Flat
<1>8. PICK m \in Nat : m = Len(a)
    BY <1>7, LenProperties
<1>9. Sized(a, m)
    BY <1>7, <1>8 DEF Sized
<1>10. Joins(a \o e, a, m, e, 2 + j)
    BY <1>5, <1>9, Concat
<1>11. f[k + 1] = a \o e
    BY <1>3, <1>6 DEF Flat
<1>12. QED
    BY <1>4, <1>6, <1>8, <1>10, <1>11

\* What s begins with is what longer ones begin with.
Prefix(a, s) == Len(a) <= Len(s) /\ \A i \in 1 .. Len(a) : s[i] = a[i]

LEMMA FlatGrows ==
    ASSUME NEW list \in Seq(Parameters), NEW f, Flat(f, list),
           NEW k \in Nat, NEW m \in Nat, k <= m, m <= Len(list)
    PROVE  Prefix(f[k], f[m])
<1>1. PICK n \in Nat : n = Len(list)
    BY LenProperties
<1>2. \A i \in Nat : f[i] \in Seq(U8) /\ Len(f[i]) \in Nat
  <2>1. \A i \in Nat : f[i] \in Seq(U8)
      BY DEF Flat
  <2>2. QED
      BY <2>1, LenProperties
<1> DEFINE D == {i \in Nat : k + i <= n => Prefix(f[k], f[k + i])}
<1>3. 0 \in D
  <2>1. PICK a : a = f[k] /\ Len(a) \in Nat
      BY <1>2
  <2>2. Prefix(a, a)
      BY <2>1 DEF Prefix
  <2>3. QED
      BY <2>1, <2>2, k + 0 = k
<1>4. ASSUME NEW i \in D PROVE i + 1 \in D
  <2>1. SUFFICES ASSUME k + (i + 1) <= n PROVE Prefix(f[k], f[k + (i + 1)])
      OBVIOUS
  <2>2. PICK l \in Nat : l = k + i /\ l + 1 = k + (i + 1) /\ l < n
      BY <2>1
  <2>3. Prefix(f[k], f[l])
      BY <2>1, <2>2
  <2>4. PICK e, j : j \in {1, 2} /\ Joins(f[l + 1], f[l], Len(f[l]), e, 2 + j)
      BY <1>1, <2>2, FlatStep
  <2>5. PICK a, b, c : a = f[k] /\ b = f[l] /\ c = f[l + 1]
      OBVIOUS
  <2>6. PICK p \in Nat, q \in Nat : p = Len(a) /\ q = Len(b)
      BY <1>2, <2>5
  <2>7. p <= q /\ \A x \in 1 .. p : b[x] = a[x]
      BY <2>3, <2>5, <2>6 DEF Prefix
  <2>8. Len(c) = q + (2 + j) /\ \A x \in 1 .. q : c[x] = b[x]
      BY <2>4, <2>5, <2>6 DEF Joins
  <2>9. p <= Len(c) /\ \A x \in 1 .. p : c[x] = a[x]
      BY <2>4, <2>7, <2>8
  <2>10. Prefix(a, c)
      BY <2>6, <2>9 DEF Prefix
  <2>11. QED
      BY <2>2, <2>5, <2>10
<1>5. D = Nat
  <2> HIDE DEF D
  <2>1. D \subseteq Nat
      BY DEF D
  <2>2. QED
      BY <1>3, <1>4, <2>1, AllNumbers
<1>6. PICK i \in Nat : k + i = m
  <2>1. m - k \in Nat /\ k + (m - k) = m
      OBVIOUS
  <2>2. QED
      BY <2>1
<1>7. i \in D
    BY <1>5
<1>8. QED
    BY <1>1, <1>6, <1>7

LEMMA FlatWithin ==
    ASSUME NEW list \in Seq(Parameters), NEW f, Flat(f, list),
           NEW k \in Nat, k < Len(list)
    PROVE  Within(f, f[Len(list)], list, k)
<1>1. PICK n \in Nat : n = Len(list)
    BY LenProperties
<1>2. PICK e, j : /\ j \in {1, 2} /\ EncodedAs(list[k + 1], e, j)
                  /\ Joins(f[k + 1], f[k], Len(f[k]), e, 2 + j)
    BY FlatStep
<1>3. k + 1 <= n /\ n <= Len(list) /\ k + 1 \in Nat
    BY <1>1
<1>4. Prefix(f[k + 1], f[n])
    BY <1>3, FlatGrows
<1>5. f[k] \in Seq(U8)
    BY DEF Flat
<1>6. PICK a, b, s : a = f[k] /\ b = f[k + 1] /\ s = f[n]
    OBVIOUS
<1>7. PICK p \in Nat : p = Len(a)
    BY <1>5, <1>6, LenProperties
<1>8. Len(b) = p + (2 + j) /\ \A i \in 1 .. 2 + j : b[p + i] = e[i]
    BY <1>2, <1>6, <1>7 DEF Joins
<1>9. Len(b) <= Len(s) /\ \A i \in 1 .. Len(b) : s[i] = b[i]
    BY <1>4, <1>6 DEF Prefix
<1>10. ASSUME NEW i \in 1 .. 2 + j PROVE s[p + i] = e[i]
  <2>1. p + i \in 1 .. p + (2 + j)
      BY <1>2
  <2>2. QED
      BY <1>8, <1>9, <2>1
<1>11. Len(b) = p + 2 + j
    BY <1>2, <1>8
<1>12. QED
    BY <1>1, <1>2, <1>6, <1>7, <1>9, <1>10, <1>11 DEF Within

\* Entries take three or four bytes.
LEMMA FlatLen ==
    ASSUME NEW list \in Seq(Parameters), NEW f, Flat(f, list)
    PROVE  /\ f[Len(list)] \in Seq(U8)
           /\ Len(list) <= Len(f[Len(list)]) /\ Len(f[Len(list)]) <= 4 * Len(list)
<1>1. PICK n \in Nat : n = Len(list)
    BY LenProperties
<1>2. \A i \in Nat : f[i] \in Seq(U8) /\ Len(f[i]) \in Nat
  <2>1. \A i \in Nat : f[i] \in Seq(U8)
      BY DEF Flat
  <2>2. QED
      BY <2>1, LenProperties
<1> DEFINE D == {k \in Nat : k <= n => k <= Len(f[k]) /\ Len(f[k]) <= 4 * k}
<1>3. 0 \in D
  <2>1. f[0] = <<>>
      BY DEF Flat
  <2>2. Len(f[0]) = 0
      BY <2>1, EmptySeq
  <2>3. QED
      BY <2>2
<1>4. ASSUME NEW k \in D PROVE k + 1 \in D
  <2>1. SUFFICES ASSUME k + 1 <= n
                 PROVE  k + 1 <= Len(f[k + 1]) /\ Len(f[k + 1]) <= 4 * (k + 1)
      OBVIOUS
  <2>2. k \in Nat /\ k < n
      BY <2>1
  <2>3. PICK p \in Nat : p = Len(f[k]) /\ k <= p /\ p <= 4 * k
      BY <1>2, <2>2
  <2>4. PICK e, j : j \in {1, 2} /\ Joins(f[k + 1], f[k], Len(f[k]), e, 2 + j)
      BY <1>1, <2>2, FlatStep
  <2>5. Len(f[k + 1]) = p + (2 + j)
      BY <2>3, <2>4 DEF Joins
  <2>6. PICK d \in Nat : d = 2 + j /\ 1 <= d /\ d <= 4
      BY <2>4
  <2>7. k + 1 <= p + d /\ p + d <= 4 * (k + 1)
      BY <2>2, <2>3, <2>6
  <2>8. QED
      BY <2>5, <2>6, <2>7
<1>5. D = Nat
  <2> HIDE DEF D
  <2>1. D \subseteq Nat
      BY DEF D
  <2>2. QED
      BY <1>3, <1>4, <2>1, AllNumbers
<1>6. n \in D
    BY <1>5
<1>7. QED
    BY <1>1, <1>2, <1>6

\* What is decoded when k entries are.
Read(f, s, list, k) ==
    [code |-> "OK", list |-> [i \in 1 .. k |-> InWidth(list[i])], rest |-> Drop(s, Len(f[k]))]

LEMMA InWidthTyped ==
    ASSUME NEW p \in Parameters
    PROVE  InWidth(p) \in Parameters /\ InWidth(p).type = p.type
<1>1. p.type \in U8 /\ p.value \in U16
    BY DEF Parameters
<1>2. Lo(p.value) \in U16
  <2>1. Lo(p.value) \in U8
      BY <1>1, Halves
  <2>2. Lo(p.value) \in Nat /\ Lo(p.value) < 65536
      BY <2>1 DEF U8
  <2>3. QED
      BY <2>2, Wide
<1>3. PICK v \in U16 : v = IF p.type \in WideParams THEN p.value ELSE Lo(p.value)
    BY <1>1, <1>2
<1>4. InWidth(p) = [p EXCEPT !.value = v]
    BY <1>3 DEF InWidth, Parameters
<1>5. [p EXCEPT !.value = v] \in Parameters /\ [p EXCEPT !.value = v].type = p.type
    BY DEF Parameters
<1>6. QED
    BY <1>4, <1>5

LEMMA ReadNext ==
    ASSUME NEW list, ParamsOK(list), NEW f, Flat(f, list), NEW s, s = f[Len(list)],
           NEW k \in Nat, k < Len(list)
    PROVE  NextParam(Read(f, s, list, k)) = Read(f, s, list, k + 1)
<1>1. list \in Seq(Parameters) /\ Distinct(list)
    BY DEF ParamsOK
<1>2. PICK n \in Nat : n = Len(list) /\ n <= 5
    BY <1>1, LenProperties DEF ParamsOK, MAX_PARAMS
<1>3. s \in Seq(U8)
    BY <1>1, FlatLen
<1>4. PICK e, j : /\ j \in {1, 2} /\ EncodedAs(list[k + 1], e, j)
                  /\ Len(f[k + 1]) = Len(f[k]) + 2 + j /\ Len(f[k + 1]) <= Len(s)
                  /\ \A i \in 1 .. 2 + j : s[Len(f[k]) + i] = e[i]
  <2>1. Within(f, s, list, k)
      BY <1>1, FlatWithin
  <2>2. QED
      BY <2>1 DEF Within
<1>5. PICK l \in Nat : l = Len(s)
    BY <1>3, LenProperties
<1>6. PICK p \in Nat : p = Len(f[k])
  <2>1. f[k] \in Seq(U8)
      BY DEF Flat
  <2>2. QED
      BY <2>1, LenProperties
<1>7. PICK q \in Nat : q = Len(f[k + 1]) /\ q = p + (2 + j) /\ q <= l
  <2>1. Len(f[k + 1]) = p + 2 + j /\ Len(f[k + 1]) <= l
      BY <1>4, <1>5, <1>6
  <2>2. PICK q \in Nat : q = p + 2 + j /\ q = p + (2 + j)
      BY <1>4
  <2>3. QED
      BY <2>1, <2>2
<1>8. PICK rest : rest = Drop(s, p)
    OBVIOUS
<1>9. rest \in Seq(U8) /\ Len(rest) = l - p /\ \A i \in 1 .. l - p : rest[i] = s[p + i]
  <2>1. p <= Len(s)
      BY <1>4, <1>5, <1>7
  <2>2. QED
      BY <1>3, <1>5, <1>8, <2>1, Dropped
<1>10. \A i \in 1 .. 2 + j : rest[i] = e[i]
  <2>1. \A i \in 1 .. 2 + j : i \in 1 .. l - p
      BY <1>4, <1>7
  <2>2. QED
      BY <1>4, <1>6, <1>9, <2>1
<1>11. PICK par \in Parameters : par = list[k + 1]
  <2>1. k + 1 \in 1 .. Len(list)
      BY <1>2
  <2>2. QED
      BY <1>1, <2>1, ElementOfSeq
<1>12. rest[1] = par.type /\ rest[2] = j
  <2>1. 1 \in 1 .. 2 + j /\ 2 \in 1 .. 2 + j
      BY <1>4
  <2>2. QED
      BY <1>4, <1>10, <1>11, <2>1 DEF EncodedAs
<1>13. ParamValue(rest, j) = InWidth(par).value
  <2>1. CASE j = 1
    <3>1. InWidth(par).value = e[3]
        BY <1>4, <1>11, <2>1 DEF EncodedAs
    <3>2. rest[3] = e[3]
        BY <1>10, <2>1
    <3>3. QED
        BY <2>1, <3>1, <3>2 DEF ParamValue
  <2>2. CASE j = 2
    <3>1. InWidth(par).value = Word(e[3], e[4])
        BY <1>4, <1>11, <2>2 DEF EncodedAs
    <3>2. rest[3] = e[3] /\ rest[4] = e[4]
        BY <1>10, <2>2
    <3>3. 1 + 2 = 3 /\ 2 + 2 = 4
        OBVIOUS
    <3>4. QED
        BY <2>2, <3>1, <3>2, <3>3 DEF ParamValue
  <2>3. QED
      BY <1>4, <2>1, <2>2
<1>14. PICK so : so = [i \in 1 .. k |-> InWidth(list[i])]
    OBVIOUS
<1>15. /\ so \in Seq(Parameters) /\ Len(so) = k
       /\ \A i \in 1 .. k : so[i] = InWidth(list[i]) /\ so[i].type = list[i].type
  <2>1. \A i \in 1 .. k : list[i] \in Parameters
    <3>1. \A i \in 1 .. k : i \in 1 .. Len(list)
        BY <1>2
    <3>2. QED
        BY <1>1, <3>1, ElementOfSeq
  <2>2. \A i \in 1 .. k : InWidth(list[i]) \in Parameters /\ InWidth(list[i]).type = list[i].type
      BY <2>1, InWidthTyped
  <2>3. so \in Seq(Parameters)
      BY <1>14, <2>2, IsASeq
  <2>4. QED
      BY <1>14, <2>2, <2>3
<1>16. PICK type, value : type = par.type /\ value = InWidth(par).value
    OBVIOUS
<1>17. \A i \in 1 .. Len(so) : so[i].type # type
  <2>1. SUFFICES ASSUME NEW i \in 1 .. k PROVE list[i].type # type
      BY <1>15
  <2>2. i \in 1 .. Len(list) /\ k + 1 \in 1 .. Len(list) /\ i # k + 1
      BY <1>2
  <2>3. QED
      BY <1>1, <1>11, <1>16, <2>2 DEF Distinct
<1>18. dlms_hdlc_param_list_set(so, type, value) = Append(so, [type |-> type, value |-> value])
  <2>1. Len(so) < MAX_PARAMS
      BY <1>2, <1>15 DEF MAX_PARAMS
  <2>2. QED
      BY <1>15, <1>17, <2>1, SetAdds
<1>19. [type |-> type, value |-> value] = InWidth(par)
    BY <1>11, <1>16 DEF InWidth, Parameters
<1>20. Append(so, InWidth(par)) = [i \in 1 .. k + 1 |-> InWidth(list[i])]
  <2>1. InWidth(par) \in Parameters
      BY InWidthTyped
  <2>2. PICK a : a = Append(so, InWidth(par))
      OBVIOUS
  <2>3. /\ a \in Seq(Parameters) /\ Len(a) = k + 1 /\ a[k + 1] = InWidth(par)
        /\ \A i \in 1 .. k : a[i] = so[i]
      BY <1>15, <2>1, <2>2, AppendProperties
  <2>4. \A i \in 1 .. k + 1 : a[i] = InWidth(list[i])
    <3>1. SUFFICES ASSUME NEW i \in 1 .. k + 1 PROVE a[i] = InWidth(list[i])
        OBVIOUS
    <3>2. CASE i = k + 1
        BY <1>11, <2>3, <3>2
    <3>3. CASE i # k + 1
      <4>1. i \in 1 .. k
          BY <3>3
      <4>2. QED
          BY <1>15, <2>3, <4>1
    <3>4. QED
        BY <3>2, <3>3
  <2>5. a = [i \in 1 .. Len(a) |-> a[i]]
      BY <2>3, LenProperties
  <2>6. QED
      BY <2>2, <2>3, <2>4, <2>5
<1>21. Drop(rest, 2 + j) = Drop(s, q)
  <2>1. PICK c \in Nat : c = 2 + j /\ p + c = q
      BY <1>4, <1>7
  <2>2. p + c <= Len(s)
      BY <1>5, <1>7, <2>1
  <2>3. Drop(Drop(s, p), c) = Drop(s, p + c)
      BY <1>3, <2>2, DroppedTwice
  <2>4. QED
      BY <1>8, <2>1, <2>3
<1>22. PICK was : was = Read(f, s, list, k)
    OBVIOUS
<1>23. was.code = "OK" /\ was.list = so /\ was.rest = rest
    BY <1>6, <1>8, <1>14, <1>22 DEF Read
<1>24. ~(Len(rest) < 2) /\ ~(2 + rest[2] > Len(rest))
  <2>1. PICK d \in Nat : d = l - p /\ d >= 2 + j
      BY <1>4, <1>7
  <2>2. Len(rest) = d
      BY <1>9, <2>1
  <2>3. ~(d < 2) /\ ~(2 + j > d)
      BY <1>4, <2>1
  <2>4. QED
      BY <1>12, <2>2, <2>3
<1>25. NextParam(was) = [code |-> "OK", rest |-> Drop(rest, 2 + rest[2]),
                         list |-> dlms_hdlc_param_list_set(so, rest[1], ParamValue(rest, rest[2]))]
    BY <1>23, <1>24, Zenon DEF NextParam
<1>26. NextParam(was) = [code |-> "OK", rest |-> Drop(s, q),
                         list |-> [i \in 1 .. k + 1 |-> InWidth(list[i])]]
    BY <1>12, <1>13, <1>16, <1>18, <1>19, <1>20, <1>21, <1>25, Zenon
<1>27. Read(f, s, list, k + 1) = [code |-> "OK", list |-> [i \in 1 .. k + 1 |-> InWidth(list[i])],
                                  rest |-> Drop(s, q)]
    BY <1>7 DEF Read
<1>28. QED
    BY <1>22, <1>26, <1>27


\* Nothing is read when nothing is left.
LEMMA ReadNothing ==
    ASSUME NEW p, p.rest \in Seq(U8), Len(p.rest) = 0
    PROVE  NextParam(p) = p
<1>1. Len(p.rest) < 2
    OBVIOUS
<1>2. QED
    BY <1>1 DEF NextParam

LEMMA ReadFirst ==
    ASSUME NEW list, NEW f, Flat(f, list), NEW s \in Seq(U8)
    PROVE  Read(f, s, list, 0) = [code |-> "OK", list |-> <<>>, rest |-> s]
<1>1. PICK so : so = [i \in 1 .. 0 |-> InWidth(list[i])]
    OBVIOUS
<1>2. so = <<>>
  <2>1. \A i \in 1 .. 0 : InWidth(list[i]) \in U8
      OBVIOUS
  <2>2. so \in Seq(U8)
      BY <1>1, <2>1, IsASeq
  <2>3. Len(so) = 0
      BY <1>1
  <2>4. QED
      BY <2>2, <2>3, EmptySeq
<1>3. Len(f[0]) = 0
  <2>1. f[0] = <<>>
      BY DEF Flat
  <2>2. QED
      BY <2>1, EmptySeq
<1>4. PICK a : a = Drop(s, 0)
    OBVIOUS
<1>5. PICK l \in Nat : l = Len(s) /\ l - 0 = l /\ 0 <= l
    BY LenProperties
<1>6. a \in Seq(U8) /\ Len(a) = Len(s) /\ \A i \in 1 .. Len(s) : a[i] = s[i]
  <2>1. a \in Seq(U8) /\ Len(a) = l - 0 /\ \A i \in 1 .. l - 0 : a[i] = s[0 + i]
      BY <1>4, <1>5, Dropped
  <2>2. \A i \in 1 .. l : 0 + i = i
      OBVIOUS
  <2>3. QED
      BY <1>5, <2>1, <2>2
<1>7. a = s
    BY <1>6, SeqEqual
<1>8. QED
    BY <1>1, <1>2, <1>3, <1>4, <1>7 DEF Read

\* Of what a parameter list is encoded as, the list is decoded, in the width of
\* its types.
LEMMA ListDecoded ==
    ASSUME NEW list, ParamsOK(list)
    PROVE  dlms_hdlc_param_list_decode(dlms_hdlc_param_list_encode(list))
               = [code |-> "OK", list |-> [i \in 1 .. Len(list) |-> InWidth(list[i])]]
<1>1. list \in Seq(Parameters)
    BY DEF ParamsOK
<1>2. PICK f : Flat(f, list) /\ dlms_hdlc_param_list_encode(list) = f[Len(list)]
    BY <1>1, Flattened
<1>3. PICK s : s = f[Len(list)]
    OBVIOUS
<1>4. PICK n \in Nat : n = Len(list)
    BY <1>1, LenProperties
<1>5. s \in Seq(U8) /\ n <= Len(s)
    BY <1>1, <1>2, <1>3, <1>4, FlatLen
<1>6. PICK l \in Nat : l = Len(s) /\ n <= l
    BY <1>5, LenProperties
<1>7. PICK first : first = [code |-> "OK", list |-> <<>>, rest |-> s]
    OBVIOUS
<1> DEFINE Fits(after) == after = [m \in 0 .. Len(s) |->
                                       IF m = 0 THEN first ELSE NextParam(after[m - 1])]
<1>8. dlms_hdlc_param_list_decode(s) =
          LET end == (CHOOSE after : Fits(after))[Len(s)]
          IN  IF end.code = "OK" THEN [code |-> "OK", list |-> end.list] ELSE Error(end.code)
    BY <1>7 DEF dlms_hdlc_param_list_decode
<1>9. PICK w : w = [m \in 0 .. l |-> Read(f, s, list, IF m <= n THEN m ELSE n)]
    OBVIOUS
<1>10. w[0] = first
  <2>1. w[0] = Read(f, s, list, 0)
      BY <1>6, <1>9
  <2>2. QED
      BY <1>2, <1>5, <1>7, <2>1, ReadFirst
<1>11. ASSUME NEW m \in 0 .. l, m # 0 PROVE w[m] = NextParam(w[m - 1])
  <2>1. PICK k \in 0 .. l : k = m - 1 /\ k + 1 = m
      BY <1>11
  <2>2. CASE m <= n
    <3>1. k \in Nat /\ k < n /\ k <= n
        BY <2>1, <2>2
    <3>2. w[m] = Read(f, s, list, k + 1) /\ w[k] = Read(f, s, list, k)
        BY <1>9, <2>1, <2>2, <3>1
    <3>3. NextParam(Read(f, s, list, k)) = Read(f, s, list, k + 1)
        BY <1>2, <1>3, <1>4, <3>1, ReadNext
    <3>4. QED
        BY <2>1, <3>2, <3>3
  <2>3. CASE ~(m <= n)
    <3>1. w[m] = Read(f, s, list, n)
        BY <1>9, <2>3
    <3>2. w[k] = Read(f, s, list, n)
      <4>1. (IF k <= n THEN k ELSE n) = n
          BY <2>1, <2>3
      <4>2. QED
          BY <1>9, <2>1, <4>1
    <3>3. PICK p : p = Read(f, s, list, n)
        OBVIOUS
    <3>4. p.rest = Drop(s, l)
        BY <1>3, <1>4, <1>6, <3>3 DEF Read
    <3>5. p.rest \in Seq(U8) /\ Len(p.rest) = 0
      <4>1. l <= Len(s) /\ l - l = 0
          BY <1>6
      <4>2. Drop(s, l) \in Seq(U8) /\ Len(Drop(s, l)) = Len(s) - l
          BY <1>5, <4>1, Dropped
      <4>3. QED
          BY <1>6, <3>4, <4>1, <4>2
    <3>6. NextParam(p) = p
        BY <3>5, ReadNothing
    <3>7. QED
        BY <2>1, <3>1, <3>2, <3>3, <3>6
  <2>4. QED
      BY <2>2, <2>3
<1>12. Fits(w)
  <2>1. PICK v : v = [m \in 0 .. l |-> IF m = 0 THEN first ELSE NextParam(w[m - 1])]
      OBVIOUS
  <2>2. \A m \in 0 .. l : w[m] = v[m]
      BY <1>10, <1>11, <2>1
  <2>3. w = v
      BY <1>9, <2>1, <2>2
  <2>4. QED
      BY <1>6, <2>1, <2>3
<1>13. PICK g : g = CHOOSE after : Fits(after)
    OBVIOUS
<1>14. Fits(g)
    BY <1>12, <1>13
<1>15. g[0] = first /\ \A m \in 0 .. l : m # 0 => g[m] = NextParam(g[m - 1])
    BY <1>6, <1>14
<1> HIDE DEF Fits
<1> DEFINE D == {m \in Nat : m <= l => g[m] = w[m]}
<1>16. 0 \in D
    BY <1>10, <1>15
<1>17. ASSUME NEW m \in D PROVE m + 1 \in D
  <2>1. SUFFICES ASSUME m + 1 <= l PROVE g[m + 1] = w[m + 1]
      OBVIOUS
  <2>2. PICK i \in 0 .. l : i = m + 1 /\ i # 0 /\ i - 1 = m
      BY <2>1
  <2>3. g[m] = w[m]
      BY <2>1
  <2>4. QED
      BY <1>11, <1>15, <2>2, <2>3
<1>18. D = Nat
  <2> HIDE DEF D
  <2>1. D \subseteq Nat
      BY DEF D
  <2>2. QED
      BY <1>16, <1>17, <2>1, AllNumbers
<1>19. g[l] = w[l]
  <2>1. l \in D
      BY <1>18
  <2>2. QED
      BY <2>1
<1>20. w[l] = Read(f, s, list, n)
  <2>1. (IF l <= n THEN l ELSE n) = n
      BY <1>6
  <2>2. l \in 0 .. l
      OBVIOUS
  <2>3. QED
      BY <1>9, <2>1, <2>2
<1>21. PICK end : end = Read(f, s, list, n)
    OBVIOUS
<1>22. end.code = "OK" /\ end.list = [i \in 1 .. n |-> InWidth(list[i])]
    BY <1>21 DEF Read
<1>23. end = (CHOOSE after : Fits(after))[Len(s)]
    BY <1>6, <1>13, <1>19, <1>20, <1>21
<1>24. dlms_hdlc_param_list_decode(s) = [code |-> "OK", list |-> end.list]
    BY <1>8, <1>22, <1>23
<1>25. QED
    BY <1>2, <1>3, <1>4, <1>22, <1>24

------------------------------------------------------------------------------
(* The frame on its way. *)

LEMMA EncodeTyped ==
    ASSUME NEW list, ParamsOK(list)
    PROVE  /\ dlms_hdlc_param_list_encode(list) \in Seq(U8)
           /\ Len(dlms_hdlc_param_list_encode(list)) <= 20
<1>1. list \in Seq(Parameters)
    BY DEF ParamsOK
<1>2. PICK f : Flat(f, list) /\ dlms_hdlc_param_list_encode(list) = f[Len(list)]
    BY <1>1, Flattened
<1>3. PICK n \in Nat : n = Len(list) /\ n <= 5
    BY <1>1, LenProperties DEF ParamsOK, MAX_PARAMS
<1>4. PICK s : s = f[Len(list)]
    OBVIOUS
<1>5. s \in Seq(U8) /\ Len(s) <= 4 * n
    BY <1>1, <1>2, <1>3, <1>4, FlatLen
<1>6. PICK l \in Nat : l = Len(s)
    BY <1>5, LenProperties
<1>7. l <= 20
    BY <1>3, <1>5, <1>6
<1>8. QED
    BY <1>2, <1>4, <1>5, <1>6, <1>7

LEMMA MadeSendable ==
    ASSUME NEW type \in {"SNRM", "UA", "DISC", "RR", "INFO", "UI"}, NEW server \in Addresses,
           NEW ns \in 0 .. 7, NEW nr \in 0 .. 7, NEW final \in BOOLEAN, NEW info \in Seq(U8),
           type # "INFO" => ns = 0, type \notin {"INFO", "RR"} => nr = 0,
           type \in {"DISC", "RR"} => info = <<>>
    PROVE  Sendable(Frame(type, server, ns, nr, final, info))
<1>1. Client \in Addresses
    BY InU14 DEF Client, Addresses
<1>2. QED
    BY <1>1 DEF Sendable, Frame

\* What a builder makes of the parameters.
Built(f, server, list) ==
    /\ Sendable(f) /\ f.src = server
    /\ f.info \in Infos \cup {<<>>, dlms_hdlc_param_list_encode(list)}
    /\ f.type \in {"SNRM", "UA"} => f.info = dlms_hdlc_param_list_encode(list)

LEMMA NegotiatingBuilt ==
    ASSUME ParamsOK(params), NEW server \in Servers, NEW f \in Negotiating(server)
    PROVE  Built(f, server, params)
<1>1. PICK info : info = dlms_hdlc_param_list_encode(params)
    OBVIOUS
<1>2. PICK no \in BOOLEAN : no = FALSE
    OBVIOUS
<1>3. PICK type \in {"SNRM", "UA"} : f = Frame(type, server, 0, 0, no, info)
    BY <1>1, <1>2 DEF Negotiating
<1>4. info \in Seq(U8)
    BY <1>1, EncodeTyped
<1>5. server \in Addresses
    BY FrameAssumption
<1>6. 0 \in 0 .. 7
    OBVIOUS
<1>7. Sendable(f)
    BY <1>3, <1>4, <1>5, <1>6, MadeSendable
<1>8. f.src = server /\ f.info = info
    BY <1>3 DEF Frame
<1>9. QED
    BY <1>1, <1>7, <1>8 DEF Built

LEMMA OthersBuilt ==
    ASSUME NEW server \in Servers, NEW f \in Others(server)
    PROVE  Built(f, server, params)
<1>1. PICK no \in BOOLEAN : no = FALSE
    OBVIOUS
<1>2. server \in Addresses /\ Infos \subseteq Seq(U8)
    BY FrameAssumption
<1>3. <<>> \in Seq(U8) /\ 0 \in 0 .. 7
    BY EmptySeq
<1>4. ASSUME NEW type \in {"DISC", "RR", "INFO", "UI"}, NEW ns \in 0 .. 7, NEW nr \in 0 .. 7,
             NEW final \in BOOLEAN, NEW info \in Infos \cup {<<>>},
             f = Frame(type, server, ns, nr, final, info),
             type # "INFO" => ns = 0, type \notin {"INFO", "RR"} => nr = 0,
             type \in {"DISC", "RR"} => info = <<>>
      PROVE  Built(f, server, params)
  <2>1. info \in Seq(U8)
      BY <1>2, <1>3
  <2>2. Sendable(f)
      BY <1>2, <1>4, <2>1, MadeSendable
  <2>3. f.type = type /\ f.src = server /\ f.info = info
      BY <1>4 DEF Frame
  <2>4. QED
      BY <2>2, <2>3 DEF Built
<1>5. CASE f = dlms_hdlc_build_disc(server)
  <2>1. f = Frame("DISC", server, 0, 0, no, <<>>)
      BY <1>1, <1>5, Zenon DEF dlms_hdlc_build_disc
  <2>2. QED
      BY <1>3, <1>4, <2>1
<1>6. ASSUME NEW nr \in 0 .. 7, f = dlms_hdlc_build_rr(server, nr)
      PROVE  Built(f, server, params)
  <2>1. f = Frame("RR", server, 0, nr, no, <<>>)
      BY <1>1, <1>6, Zenon DEF dlms_hdlc_build_rr
  <2>2. QED
      BY <1>3, <1>4, <2>1
<1>7. ASSUME NEW ns \in 0 .. 7, NEW nr \in 0 .. 7, NEW final \in BOOLEAN, NEW info \in Infos,
             f = dlms_hdlc_build_info(server, ns, nr, final, info)
      PROVE  Built(f, server, params)
    BY <1>4, <1>7 DEF dlms_hdlc_build_info
<1>8. ASSUME NEW final \in BOOLEAN, NEW info \in Infos, f = Frame("UI", server, 0, 0, final, info)
      PROVE  Built(f, server, params)
    BY <1>3, <1>4, <1>8
<1>9. QED
    BY <1>5, <1>6, <1>7, <1>8 DEF Others

\* A frame that fits the buffers fits the buffer of the other end.
LEMMA FitsBoth ==
    ASSUME NEW list, ParamsOK(list), NEW server, NEW f, Built(f, server, list),
           dlms_hdlc_frame_encode(f, DstSize).code = "OK"
    PROVE  /\ dlms_hdlc_frame_encode(f, DstSize).wire
                  = <<FLAG>> \o dlms_hdlc_stuff(RawFrame(f)) \o <<FLAG>>
           /\ Expressible => Len(RawFrame(f)) <= MAX_FRAME_SIZE
<1>1. PICK raw, data : raw = RawFrame(f) /\ data = <<FLAG>> \o dlms_hdlc_stuff(RawFrame(f)) \o <<FLAG>>
    OBVIOUS
<1>2. PICK n \in {2, 4} : LaidOut(f, raw, n, Len(f.info))
    BY <1>1, RawLaidOut DEF Built
<1>3. PICK len \in Nat, h \in {0, 2} : len = Len(f.info) /\ h = HcsLen(f)
    BY LenProperties DEF Built, Sendable, HcsLen
<1>4. PICK r \in Nat : r = Len(raw) /\ r <= 12 + len
  <2>1. Len(raw) = 6 + n + h + len
      BY <1>2, <1>3 DEF LaidOut
  <2>2. QED
      BY <2>1
<1>5. ~(r - 2 > MAX_FRAME_SIZE \/ DstSize < 2 * r + 2)
      /\ dlms_hdlc_frame_encode(f, DstSize) = [code |-> "OK", wire |-> data]
    BY <1>1, <1>4 DEF dlms_hdlc_frame_encode, Error
<1>6. DstSize \in Nat /\ 2 * r + 2 <= DstSize
    BY <1>5, FrameAssumption
<1>7. ASSUME Expressible PROVE r <= MAX_FRAME_SIZE
  <2>1. CASE DstSize < 516
      BY <1>6, <2>1 DEF MAX_FRAME_SIZE
  <2>2. CASE \A i \in Infos : Len(i) <= 244
    <3>1. len <= 244
      <4>1. CASE f.info \in Infos
          BY <1>3, <2>2, <4>1
      <4>2. CASE f.info = <<>>
          BY <1>3, <4>2, EmptySeq
      <4>3. CASE f.info = dlms_hdlc_param_list_encode(list)
        <5>1. PICK info : info = dlms_hdlc_param_list_encode(list)
            OBVIOUS
        <5>2. Len(info) <= 20
            BY <5>1, EncodeTyped
        <5>3. QED
            BY <1>3, <4>3, <5>1, <5>2
      <4>4. QED
          BY <4>1, <4>2, <4>3 DEF Built
    <3>2. QED
        BY <1>4, <3>1 DEF MAX_FRAME_SIZE
  <2>3. 2 * MAX_FRAME_SIZE + 4 = 516 /\ MAX_FRAME_SIZE - 12 = 244
      BY DEF MAX_FRAME_SIZE
  <2>4. QED
      BY <1>7, <2>1, <2>2, <2>3 DEF Expressible
<1>8. QED
    BY <1>1, <1>4, <1>5, <1>7

\* The inductive invariant: the parameters are a list with one entry for each type;
\* what is sent was made by a builder and, undamaged, is on the line as it was
\* encoded; and what was received was decoded from it.
FrameInv ==
    /\ ParamsOK(params)
    /\ frame = NoFrame => wire = <<>> /\ ~flipped /\ received = Nothing
    /\ frame # NoFrame =>
           /\ Sendable(frame) /\ frame.src \in Servers
           /\ frame.type \in {"SNRM", "UA"} => frame.info = dlms_hdlc_param_list_encode(params)
           /\ Expressible => Len(RawFrame(frame)) <= MAX_FRAME_SIZE
           /\ ~flipped => wire = <<FLAG>> \o dlms_hdlc_stuff(RawFrame(frame)) \o <<FLAG>>
    /\ received # Nothing /\ ~flipped =>
           frame # NoFrame /\ received = dlms_hdlc_frame_decode(wire)

LEMMA FrameInvStarts == Init => FrameInv
<1>1. SUFFICES ASSUME Init PROVE FrameInv
    OBVIOUS
<1>2. <<>> \in Seq(Parameters) /\ Len(<<>>) = 0
    BY EmptySeq
<1>3. ParamsOK(<<>>)
    BY <1>2 DEF ParamsOK, MAX_PARAMS, Distinct
<1>4. QED
    BY <1>1, <1>3 DEF Init, FrameInv

LEMMA SetParamKeeps == FrameInv /\ SetParam => FrameInv'
<1>1. SUFFICES ASSUME FrameInv, SetParam PROVE FrameInv'
    OBVIOUS
<1>2. PICK s \in Settings : params' = dlms_hdlc_param_list_set(params, s.type, s.value)
    BY <1>1 DEF SetParam
<1>3. s.type \in U8 /\ s.value \in U16
    BY FrameAssumption DEF Parameters
<1>4. ParamsOK(params')
    BY <1>1, <1>2, <1>3, SetKeeps DEF FrameInv
<1>5. QED
    BY <1>1, <1>4 DEF FrameInv, SetParam

LEMMA BuildKeeps == FrameInv /\ Build => FrameInv'
<1>1. SUFFICES ASSUME FrameInv, Build PROVE FrameInv'
    OBVIOUS
<1>2. PICK server \in Servers :
          \E f \in Negotiating(server) \cup (IF params = <<>> THEN Others(server) ELSE {}) :
             /\ dlms_hdlc_frame_encode(f, DstSize).code = "OK"
             /\ frame' = f /\ wire' = dlms_hdlc_frame_encode(f, DstSize).wire
    BY <1>1 DEF Build
<1>3. PICK f : /\ f \in Negotiating(server) \/ f \in Others(server)
               /\ dlms_hdlc_frame_encode(f, DstSize).code = "OK"
               /\ frame' = f /\ wire' = dlms_hdlc_frame_encode(f, DstSize).wire
    BY <1>2
<1>4. ParamsOK(params) /\ params' = params /\ received' = received /\ flipped' = flipped
      /\ ~flipped /\ received = Nothing
    BY <1>1 DEF FrameInv, Build
<1>5. Built(f, server, params)
    BY <1>3, <1>4, NegotiatingBuilt, OthersBuilt
<1>6. /\ wire' = <<FLAG>> \o dlms_hdlc_stuff(RawFrame(f)) \o <<FLAG>>
      /\ Expressible => Len(RawFrame(f)) <= MAX_FRAME_SIZE
    BY <1>3, <1>4, <1>5, FitsBoth
<1>7. frame' # NoFrame
    BY <1>3, <1>5 DEF Built, Sendable, NoFrame
<1>8. QED
    BY <1>3, <1>4, <1>5, <1>6, <1>7 DEF FrameInv, Built

LEMMA FlipBitKeeps == FrameInv /\ FlipBit => FrameInv'
<1>1. SUFFICES ASSUME FrameInv, FlipBit PROVE FrameInv'
    OBVIOUS
<1>2. flipped' /\ params' = params /\ frame' = frame /\ received' = received /\ frame # NoFrame
    BY <1>1 DEF FrameInv, FlipBit
<1>3. QED
    BY <1>1, <1>2 DEF FrameInv

LEMMA ReceiveKeeps == FrameInv /\ Receive => FrameInv'
<1>1. SUFFICES ASSUME FrameInv, Receive PROVE FrameInv'
    OBVIOUS
<1>2. /\ received' = dlms_hdlc_frame_decode(wire) /\ frame # NoFrame
      /\ params' = params /\ frame' = frame /\ wire' = wire /\ flipped' = flipped
    BY <1>1 DEF FrameInv, Receive
<1>3. QED
    BY <1>1, <1>2 DEF FrameInv

\* FrameInv is an invariant.
LEMMA FrameInvariant == Spec => []FrameInv
<1>1. FrameInv /\ [Next]_vars => FrameInv'
  <2>1. SUFFICES ASSUME FrameInv, [Next]_vars PROVE FrameInv'
      OBVIOUS
  <2>2. CASE SetParam
      BY <2>1, <2>2, SetParamKeeps
  <2>3. CASE Build
      BY <2>1, <2>3, BuildKeeps
  <2>4. CASE FlipBit
      BY <2>1, <2>4, FlipBitKeeps
  <2>5. CASE Receive
      BY <2>1, <2>5, ReceiveKeeps
  <2>6. CASE UNCHANGED vars
      BY <2>1, <2>6 DEF FrameInv, vars
  <2>7. QED
      BY <2>1, <2>2, <2>3, <2>4, <2>5, <2>6 DEF Next
<1>2. QED
    BY <1>1, FrameInvStarts, PTL DEF Spec

\* What is on the line is bytes.
LEMMA WireTyped ==
    ASSUME FrameInv, ~flipped
    PROVE  wire \in Seq(U8)
<1>1. CASE frame = NoFrame
    BY <1>1, EmptySeq DEF FrameInv
<1>2. CASE frame # NoFrame
  <2>1. PICK raw, stuffed, flag : /\ raw = RawFrame(frame) /\ stuffed = dlms_hdlc_stuff(raw)
                                  /\ flag = <<FLAG>>
      OBVIOUS
  <2>2. PICK n \in {2, 4} : LaidOut(frame, raw, n, Len(frame.info))
      BY <1>2, <2>1, RawLaidOut DEF FrameInv
  <2>3. stuffed \in Seq(U8)
      BY <2>1, <2>2, StuffTyped DEF LaidOut
  <2>4. flag \in Seq(U8)
      BY <2>1 DEF FLAG, U8
  <2>5. wire = (flag \o stuffed) \o flag
      BY <1>2, <2>1 DEF FrameInv
  <2>6. (flag \o stuffed) \o flag \in Seq(U8)
      BY <2>3, <2>4, ConcatProperties
  <2>7. QED
      BY <2>5, <2>6
<1>3. QED
    BY <1>1, <1>2

\* The checksum of what is sent can be computed piecewise, cut anywhere:
\* dlms_crc16_update of dlms_crc16.
THEOREM ChecksumsContinue == Spec => []CrcIncremental
<1>1. FrameInv => CrcIncremental
  <2>1. SUFFICES ASSUME FrameInv, ~flipped, NEW n \in 0 .. Len(wire)
                 PROVE  dlms_crc16_update(dlms_crc16(SubSeq(wire, 1, n)),
                                          SubSeq(wire, n + 1, Len(wire))) = dlms_crc16(wire)
      BY DEF CrcIncremental
  <2>2. wire \in Seq(U8)
      BY <2>1, WireTyped
  <2>3. PICK s, t : s = SubSeq(wire, 1, n) /\ t = SubSeq(wire, n + 1, Len(wire))
      OBVIOUS
  <2>4. s \in Seq(U8) /\ t \in Seq(U8) /\ s \o t = wire
      BY <2>2, <2>3, Cut
  <2>5. dlms_crc16_update(dlms_crc16(s), t) = dlms_crc16(s \o t)
      BY <2>4, CrcPiecewise
  <2>6. QED
      BY <2>3, <2>4, <2>5
<1>2. QED
    BY <1>1, FrameInvariant, PTL

LEMMA ReadsBack ==
    ASSUME Expressible, FrameInv, received # Nothing, ~flipped
    PROVE  frame # NoFrame /\ received = Meaning(frame)
<1>1. /\ frame # NoFrame /\ Sendable(frame) /\ frame.src \in Servers
      /\ Len(RawFrame(frame)) <= MAX_FRAME_SIZE
      /\ wire = <<FLAG>> \o dlms_hdlc_stuff(RawFrame(frame)) \o <<FLAG>>
      /\ received = dlms_hdlc_frame_decode(wire)
    BY DEF FrameInv
<1>2. PlainAddress(frame.src)
    BY <1>1 DEF Expressible
<1>3. QED
    BY <1>1, <1>2, FrameDecoded

\* Every frame of the builders that arrives undamaged is decoded to what was sent,
\* whatever is escaped, if the addresses have bit 6 clear in each half and no frame is
\* longer than a receiver takes: dlms_hdlc_frame_encode and _decode.
THEOREM FramesUnderstood ==
    ASSUME Expressible
    PROVE  Spec => []RoundTrip
<1>1. FrameInv => RoundTrip
    BY ReadsBack DEF RoundTrip
<1>2. QED
    BY <1>1, FrameInvariant, PTL

\* The parameters set at one end are those that the other end reads from SNRM or UA,
\* unless the line changed a bit and the receiver failed to notice.
THEOREM ParametersAgree ==
    ASSUME Expressible
    PROVE  Spec => [](BitErrorsRejected => ParamsSurvive)
<1>1. FrameInv => (BitErrorsRejected => ParamsSurvive)
  <2>1. SUFFICES ASSUME FrameInv, BitErrorsRejected, received.code = "OK",
                        received.type \in {"SNRM", "UA"}
                 PROVE  LET got == dlms_hdlc_param_list_decode(received.info)
                        IN  /\ got.code = "OK"
                            /\ got.list = [i \in 1 .. Len(params) |-> InWidth(params[i])]
                            /\ \A i, j \in 1 .. Len(got.list) :
                                   got.list[i].type = got.list[j].type => i = j
      BY DEF ParamsSurvive
  <2>2. received # Nothing
      BY <2>1 DEF Nothing
  <2>3. ~flipped
      BY <2>1, <2>2 DEF BitErrorsRejected
  <2>4. frame # NoFrame /\ received = Meaning(frame)
      BY <2>1, <2>2, <2>3, ReadsBack
  <2>5. received.type = frame.type /\ received.info = frame.info
      BY <2>4 DEF Meaning
  <2>6. received.info = dlms_hdlc_param_list_encode(params) /\ ParamsOK(params)
      BY <2>1, <2>4, <2>5 DEF FrameInv
  <2>7. PICK got : got = dlms_hdlc_param_list_decode(received.info)
      OBVIOUS
  <2>8. PICK so : so = [i \in 1 .. Len(params) |-> InWidth(params[i])]
      OBVIOUS
  <2>9. got.code = "OK" /\ got.list = so
      BY <2>6, <2>7, <2>8, ListDecoded
  <2>10. PICK n \in Nat : n = Len(params)
      BY <2>6, LenProperties DEF ParamsOK
  <2>11. Len(so) = n /\ \A i \in 1 .. n : so[i].type = params[i].type
    <3>1. ASSUME NEW i \in 1 .. n PROVE so[i].type = params[i].type
      <4>1. params[i] \in Parameters
          BY <2>6, <2>10, ElementOfSeq DEF ParamsOK
      <4>2. so[i] = InWidth(params[i])
          BY <2>8, <2>10
      <4>3. QED
          BY <4>1, <4>2, InWidthTyped
    <3>2. QED
        BY <2>8, <2>10, <3>1
  <2>12. \A i, j \in 1 .. n : so[i].type = so[j].type => i = j
    <3>1. \A i, j \in 1 .. n : params[i].type = params[j].type => i = j
        BY <2>6, <2>10 DEF ParamsOK, Distinct
    <3>2. QED
        BY <2>11, <3>1
  <2>13. QED
      BY <2>7, <2>8, <2>9, <2>11, <2>12
<1>2. QED
    BY <1>1, FrameInvariant, PTL
==============================================================================
