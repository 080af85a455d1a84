---------------------------- MODULE SecurityProofs ----------------------------
(***************************************************************************)
(* Proofs about Sm4, Gcm and Security: for any word width, number of       *)
(* rounds, S-boxes, tables, keys, titles and texts, and any number of      *)
(* messages and key derivations.                                           *)
(***************************************************************************)
EXTENDS Security, FiniteSetTheorems, SequenceTheorems, FunctionTheorems,
        WellFoundedInduction, TLAPS

------------------------------------------------------------------------------
(* Induction over the natural numbers in a form that can be cited: with the *)
(* set of the numbers that have a property.                                *)

\* A set of numbers has a least one.
LEMMA Smallest ==
    ASSUME NEW S, S \subseteq Nat, S # {}
    PROVE  \E x \in S : \A y \in S : x <= y
<1> DEFINE R == {p \in Nat \X Nat : p[1] < p[2]}
<1>1. IsWellFoundedOn(R, Nat)
    BY NatLessThanWellFounded DEF OpToRel
<1>2. \A x, y \in Nat : y < x => <<y, x>> \in R
    OBVIOUS
<1> HIDE DEF R
<1>3. PICK x \in S : \A y \in S : ~(<<y, x>> \in R)
    BY <1>1, WFMin
<1>4. \A y \in S : ~(y < x)
    BY <1>2, <1>3
<1>5. QED
    BY <1>3, <1>4

\* Induction: a set with 0 that has with each number the next has all numbers.
LEMMA AllNumbers ==
    ASSUME NEW S, S \subseteq Nat, 0 \in S, \A n \in S : n + 1 \in S
    PROVE  S = Nat
<1>1. SUFFICES ASSUME Nat \ S # {} PROVE FALSE
    OBVIOUS
<1>2. PICK x \in Nat \ S : \A y \in Nat \ S : x <= y
    BY <1>1, Smallest
<1>3. x # 0 /\ x - 1 \in Nat /\ ~(x <= x - 1)
    BY <1>2
<1>4. x - 1 \in S
    BY <1>2, <1>3
<1>5. (x - 1) + 1 \in S
    BY <1>4
<1>6. QED
    BY <1>2, <1>5

------------------------------------------------------------------------------
(* Blocks. *)

LEMMA XorTwice == \A a, b : a (+) b (+) b = a
    BY DEF (+)
LEMMA XorTurned == \A a, b, c, k : a (+) b (+) c (+) k = c (+) b (+) a (+) k
    BY DEF (+)

\* x has the states of the first n rounds.
StatesTo(n, rk, in, x) == x = [i \in 0 .. n |-> IF i = 0 THEN in ELSE Round(x[i - 1], rk[i])]

LEMMA StatesExist ==
    ASSUME NEW rk, NEW in
    PROVE  \A n \in Nat : \E x : StatesTo(n, rk, in, x)
<1> DEFINE S == {n \in Nat : \E x : StatesTo(n, rk, in, x)}
<1>1. 0 \in S
  <2>1. StatesTo(0, rk, in, [i \in 0 .. 0 |-> in])
      BY DEF StatesTo
  <2>2. QED
      BY <2>1
<1>2. ASSUME NEW n \in S PROVE n + 1 \in S
  <2>1. PICK x : StatesTo(n, rk, in, x)
      OBVIOUS
  <2> DEFINE y == [i \in 0 .. n + 1 |-> IF i = n + 1 THEN Round(x[n], rk[n + 1]) ELSE x[i]]
  <2>2. \A i \in 0 .. n : y[i] = x[i]
      OBVIOUS
  <2>3. ASSUME NEW i \in 0 .. n + 1
        PROVE  y[i] = IF i = 0 THEN in ELSE Round(y[i - 1], rk[i])
    <3>1. CASE i = n + 1
        BY <2>2, <3>1
    <3>2. CASE i \in 0 .. n
      <4>1. x[i] = IF i = 0 THEN in ELSE Round(x[i - 1], rk[i])
          BY <2>1, <3>2 DEF StatesTo
      <4>2. i = 0 \/ i - 1 \in 0 .. n
          BY <3>2
      <4>3. QED
          BY <2>2, <3>2, <4>1, <4>2
    <3>3. QED
        BY <3>1, <3>2
  <2>4. StatesTo(n + 1, rk, in, y)
      BY <2>3 DEF StatesTo
  <2>5. QED
      BY <2>4
<1>3. S = Nat
  <2> HIDE DEF S
  <2>1. S \subseteq Nat
      BY DEF S
  <2>2. QED
      BY <1>1, <1>2, <2>1, AllNumbers
<1>4. QED
    BY <1>3

LEMMA RoundStates ==
    ASSUME NEW rk, NEW in
    PROVE  \E x : /\ x[0] = in
                  /\ \A i \in 1 .. Rounds : x[i] = Round(x[i - 1], rk[i])
                  /\ sm4_round(rk, in) = Reversed(x[Rounds])
<1>1. \E x : StatesTo(Rounds, rk, in, x)
    BY StatesExist, Sm4Assumption
<1>2. PICK x : StatesTo(Rounds, rk, in, x) /\ sm4_round(rk, in) = Reversed(x[Rounds])
    BY <1>1 DEF StatesTo, sm4_round
<1>3. QED
    BY <1>2, Sm4Assumption DEF StatesTo

\* A round with the same key, between two reversals, takes a round back.
FourWords(x) == x = <<x[1], x[2], x[3], x[4]>>

LEMMA RoundUndone ==
    ASSUME NEW x, NEW k, FourWords(x)
    PROVE  Round(Reversed(Round(x, k)), k) = Reversed(x)
<1> DEFINE t == sm4_T(x[2] (+) x[3] (+) x[4] (+) k)
<1>1. Reversed(Round(x, k)) = <<x[1] (+) t, x[4], x[3], x[2]>>
    BY DEF Round, Reversed
<1>2. sm4_T(x[4] (+) x[3] (+) x[2] (+) k) = t
    BY XorTurned
<1>3. Round(Reversed(Round(x, k)), k) = <<x[4], x[3], x[2], x[1] (+) t (+) t>>
    BY <1>1, <1>2 DEF Round
<1>4. QED
    BY <1>3, XorTwice DEF Reversed

LEMMA RoundFour ==
    /\ \A x, k : FourWords(Round(x, k))
    /\ \A x : FourWords(Reversed(x))
    /\ \A x : FourWords(x) => Reversed(Reversed(x)) = x
    BY DEF FourWords, Round, Reversed

\* SM4 gives a block back, whatever is in its tables and for any round keys.
THEOREM Sm4Inverts ==
    ASSUME NEW rk, NEW in, FourWords(in)
    PROVE  dlms_sm4_decrypt_block(rk, dlms_sm4_encrypt_block(rk, in)) = in
<1> DEFINE kr == [i \in 1 .. Rounds |-> rk[Rounds + 1 - i]]
           out == sm4_round(rk, in)
<1>1. PICK x : /\ x[0] = in
               /\ \A i \in 1 .. Rounds : x[i] = Round(x[i - 1], rk[i])
               /\ out = Reversed(x[Rounds])
    BY RoundStates
<1>2. PICK y : /\ y[0] = out
               /\ \A i \in 1 .. Rounds : y[i] = Round(y[i - 1], kr[i])
               /\ sm4_round(kr, out) = Reversed(y[Rounds])
  <2> HIDE DEF kr, out
  <2>1. QED
      BY RoundStates
<1>3. \A i \in 0 .. Rounds : FourWords(x[i])
    BY <1>1, RoundFour, Sm4Assumption
<1> DEFINE S == {n \in Nat : n <= Rounds => y[n] = Reversed(x[Rounds - n])}
<1>4. 0 \in S
    BY <1>1, <1>2, Sm4Assumption
<1>5. ASSUME NEW n \in S PROVE n + 1 \in S
  <2>1. SUFFICES ASSUME n + 1 <= Rounds
                 PROVE  y[n + 1] = Reversed(x[Rounds - (n + 1)])
      OBVIOUS
  <2> DEFINE j == Rounds - n
  <2>2. /\ n + 1 \in 1 .. Rounds /\ j \in 1 .. Rounds /\ j - 1 \in 0 .. Rounds
        /\ (n + 1) - 1 = n /\ Rounds + 1 - (n + 1) = j /\ Rounds - (n + 1) = j - 1
      BY <2>1, Sm4Assumption
  <2>3. y[n + 1] = Round(y[n], rk[j])
    <3>1. kr[n + 1] = rk[j]
        BY <2>2
    <3>2. QED
        BY <1>2, <2>2, <3>1
  <2>4. y[n] = Reversed(Round(x[j - 1], rk[j]))
      BY <1>1, <2>1, <2>2, Sm4Assumption
  <2>5. QED
      BY <1>3, <2>2, <2>3, <2>4, RoundUndone
<1>6. S = Nat
  <2> HIDE DEF S
  <2>1. S \subseteq Nat
      BY DEF S
  <2>2. QED
      BY <1>4, <1>5, <2>1, AllNumbers
<1>7. y[Rounds] = Reversed(x[0])
    BY <1>6, Sm4Assumption
<1>8. sm4_round(kr, out) = in
    BY <1>1, <1>2, <1>7, RoundFour
<1>9. QED
    BY <1>8 DEF dlms_sm4_decrypt_block, dlms_sm4_encrypt_block

------------------------------------------------------------------------------
(* Modes. *)

\* What the calls take: blocks, of which any may be short.
PlainTexts == Seq(UNION {[1 .. n -> Words] : n \in 1 .. 4})

LEMMA TextTyped ==
    ASSUME NEW text \in PlainTexts, NEW i \in DOMAIN text
    PROVE  /\ text[i] = [j \in DOMAIN text[i] |-> text[i][j]]
           /\ text = [l \in DOMAIN text |-> text[l]]
           /\ DOMAIN text = 1 .. Len(text)
           /\ Len(text[i]) = 4 => DOMAIN text[i] = 1 .. 4
<1>1. PICK n \in 1 .. 4 : text[i] \in [1 .. n -> Words]
    BY DEF PlainTexts
<1>2. text[i] \in Seq(Words)
    BY <1>1
<1>3. QED
    BY <1>1, <1>2 DEF PlainTexts

LEMMA MaskTwice ==
    ASSUME NEW t, NEW b, t = [j \in DOMAIN t |-> t[j]]
    PROVE  Mask(Mask(t, b), b) = t
    BY XorTwice DEF Mask

LEMMA FourWordsOf ==
    ASSUME NEW t, t = [j \in DOMAIN t |-> t[j]], DOMAIN t = 1 .. 4
    PROVE  FourWords(t) /\ \A b : FourWords(Mask(t, b))
    BY DEF FourWords, Mask

\* The key stream of the same key and counters taken off again.
LEMMA GctrInverts ==
    ASSUME NEW rk, NEW nonce, NEW n, NEW text \in PlainTexts
    PROVE  sm4_gctr(rk, nonce, n, sm4_gctr(rk, nonce, n, text)) = text
<1> DEFINE E(i) == dlms_sm4_encrypt_block(rk, Counter(nonce, n + i - 1))
           once == sm4_gctr(rk, nonce, n, text)
<1>1. once = [i \in DOMAIN text |-> Mask(text[i], E(i))]
    BY DEF sm4_gctr
<1> HIDE DEF E
<1>2. sm4_gctr(rk, nonce, n, once) = [i \in DOMAIN text |-> Mask(once[i], E(i))]
    BY <1>1 DEF sm4_gctr, E
<1>3. \A i \in DOMAIN text : Mask(once[i], E(i)) = text[i]
    BY <1>1, TextTyped, MaskTwice
<1>4. text = [i \in DOMAIN text |-> text[i]]
    BY DEF PlainTexts
<1>5. QED
    BY <1>2, <1>3, <1>4

LEMMA EcbInverts ==
    ASSUME NEW key, NEW text \in PlainTexts, Aligned(text)
    PROVE  dlms_sm4_ecb_decrypt(key, dlms_sm4_ecb_encrypt(key, text)) = text
<1> DEFINE rk == dlms_sm4_key_setup(key)
<1>1. \A i \in DOMAIN text :
          dlms_sm4_decrypt_block(rk, dlms_sm4_encrypt_block(rk, text[i])) = text[i]
  <2> HIDE DEF rk
  <2>1. \A i \in DOMAIN text : FourWords(text[i])
      BY TextTyped, FourWordsOf DEF Aligned
  <2>2. QED
      BY <2>1, Sm4Inverts
<1>2. text = [i \in DOMAIN text |-> text[i]]
    BY DEF PlainTexts
<1>3. QED
    BY <1>1, <1>2 DEF dlms_sm4_ecb_decrypt, dlms_sm4_ecb_encrypt

\* The chained blocks of CBC: the first n, from the initial vector on.
ChainTo(n, rk, iv, text, b) ==
    b = [i \in 0 .. n |->
            IF i = 0 THEN iv ELSE dlms_sm4_encrypt_block(rk, Mask(text[i], b[i - 1]))]

LEMMA ChainExists ==
    ASSUME NEW rk, NEW iv, NEW text
    PROVE  \A n \in Nat : \E b : ChainTo(n, rk, iv, text, b)
<1> DEFINE S == {n \in Nat : \E b : ChainTo(n, rk, iv, text, b)}
<1>1. 0 \in S
  <2>1. ChainTo(0, rk, iv, text, [i \in 0 .. 0 |-> iv])
      BY DEF ChainTo
  <2>2. QED
      BY <2>1
<1>2. ASSUME NEW n \in S PROVE n + 1 \in S
  <2>1. PICK b : ChainTo(n, rk, iv, text, b)
      OBVIOUS
  <2> DEFINE last == dlms_sm4_encrypt_block(rk, Mask(text[n + 1], b[n]))
             c == [i \in 0 .. n + 1 |-> IF i = n + 1 THEN last ELSE b[i]]
  <2>2. \A i \in 0 .. n : c[i] = b[i]
      OBVIOUS
  <2>3. ASSUME NEW i \in 0 .. n + 1
        PROVE  c[i] = IF i = 0 THEN iv ELSE dlms_sm4_encrypt_block(rk, Mask(text[i], c[i - 1]))
    <3>1. CASE i = n + 1
        BY <2>2, <3>1
    <3>2. CASE i \in 0 .. n
      <4>1. b[i] = IF i = 0 THEN iv ELSE dlms_sm4_encrypt_block(rk, Mask(text[i], b[i - 1]))
          BY <2>1, <3>2 DEF ChainTo
      <4>2. i = 0 \/ i - 1 \in 0 .. n
          BY <3>2
      <4>3. QED
          BY <2>2, <3>2, <4>1, <4>2
    <3>3. QED
        BY <3>1, <3>2
  <2>4. ChainTo(n + 1, rk, iv, text, c)
      BY <2>3 DEF ChainTo
  <2>5. QED
      BY <2>4
<1>3. S = Nat
  <2> HIDE DEF S
  <2>1. S \subseteq Nat
      BY DEF S
  <2>2. QED
      BY <1>1, <1>2, <2>1, AllNumbers
<1>4. QED
    BY <1>3

\* The same for what CBC decryption writes.
Chained(rk, iv, text, in_place, out, i) ==
    Mask(dlms_sm4_decrypt_block(rk, text[i]),
         IF i = 1 THEN iv ELSE IF in_place THEN out[i - 1] ELSE text[i - 1])
OutTo(n, rk, iv, text, in_place, out) ==
    out = [i \in 1 .. n |-> Chained(rk, iv, text, in_place, out, i)]

LEMMA OutExists ==
    ASSUME NEW rk, NEW iv, NEW text, NEW in_place
    PROVE  \A n \in Nat : \E out : OutTo(n, rk, iv, text, in_place, out)
<1> DEFINE S == {n \in Nat : \E out : OutTo(n, rk, iv, text, in_place, out)}
<1>1. 0 \in S
  <2>1. OutTo(0, rk, iv, text, in_place, <<>>)
      BY DEF OutTo
  <2>2. QED
      BY <2>1
<1>2. ASSUME NEW n \in S PROVE n + 1 \in S
  <2>1. PICK b : OutTo(n, rk, iv, text, in_place, b)
      OBVIOUS
  <2> DEFINE c == [i \in 1 .. n + 1 |->
                      IF i = n + 1 THEN Chained(rk, iv, text, in_place, b, i) ELSE b[i]]
  <2>2. \A i \in 1 .. n : c[i] = b[i]
      OBVIOUS
  <2>3. ASSUME NEW i \in 1 .. n + 1
        PROVE  c[i] = Chained(rk, iv, text, in_place, c, i)
    <3>1. Chained(rk, iv, text, in_place, b, i) = Chained(rk, iv, text, in_place, c, i)
      <4>1. i = 1 \/ i - 1 \in 1 .. n
          OBVIOUS
      <4>2. QED
          BY <2>2, <4>1 DEF Chained
    <3>2. CASE i = n + 1
        BY <3>1, <3>2
    <3>3. CASE i \in 1 .. n
      <4>1. b[i] = Chained(rk, iv, text, in_place, b, i)
          BY <2>1, <3>3 DEF OutTo
      <4>2. QED
          BY <2>2, <3>1, <3>3, <4>1
    <3>4. QED
        BY <3>2, <3>3
  <2>4. OutTo(n + 1, rk, iv, text, in_place, c)
      BY <2>3 DEF OutTo
  <2>5. QED
      BY <2>4
<1>3. S = Nat
  <2> HIDE DEF S
  <2>1. S \subseteq Nat
      BY DEF S
  <2>2. QED
      BY <1>1, <1>2, <2>1, AllNumbers
<1>4. QED
    BY <1>3

CbcChain(key, iv, text, b) ==
    /\ b[0] = iv
    /\ \A i \in 1 .. Len(text) :
          b[i] = dlms_sm4_encrypt_block(dlms_sm4_key_setup(key), Mask(text[i], b[i - 1]))
    /\ dlms_sm4_cbc_encrypt(key, iv, text) = [i \in DOMAIN text |-> b[i]]

LEMMA CbcBlocks ==
    ASSUME NEW key, NEW iv, NEW text, Len(text) \in Nat
    PROVE  \E b : CbcChain(key, iv, text, b)
<1>1. \E b : ChainTo(Len(text), dlms_sm4_key_setup(key), iv, text, b)
    BY ChainExists
<1>2. PICK b : /\ ChainTo(Len(text), dlms_sm4_key_setup(key), iv, text, b)
               /\ dlms_sm4_cbc_encrypt(key, iv, text) = [i \in DOMAIN text |-> b[i]]
    BY <1>1 DEF ChainTo, dlms_sm4_cbc_encrypt
<1>3. /\ b[0] = iv
      /\ \A i \in 1 .. Len(text) :
            b[i] = dlms_sm4_encrypt_block(dlms_sm4_key_setup(key), Mask(text[i], b[i - 1]))
    BY <1>2 DEF ChainTo
<1>4. QED
    BY <1>2, <1>3 DEF CbcChain

LEMMA CbcOut ==
    ASSUME NEW key, NEW iv, NEW text, NEW in_place, Len(text) \in Nat, DOMAIN text = 1 .. Len(text)
    PROVE  LET out == dlms_sm4_cbc_decrypt(key, iv, text, in_place)
           IN  /\ DOMAIN out = DOMAIN text
               /\ out = [i \in DOMAIN text |-> out[i]]
               /\ \A i \in DOMAIN text :
                     out[i] = Chained(dlms_sm4_key_setup(key), iv, text, in_place, out, i)
<1>1. \E out : OutTo(Len(text), dlms_sm4_key_setup(key), iv, text, in_place, out)
    BY OutExists
<1>2. PICK out : /\ OutTo(Len(text), dlms_sm4_key_setup(key), iv, text, in_place, out)
                 /\ dlms_sm4_cbc_decrypt(key, iv, text, in_place) = [i \in DOMAIN text |-> out[i]]
    BY <1>1 DEF OutTo, Chained, dlms_sm4_cbc_decrypt
<1>3. dlms_sm4_cbc_decrypt(key, iv, text, in_place) = out
    BY <1>2 DEF OutTo
<1>4. QED
    BY <1>2, <1>3 DEF OutTo

\* CBC gives a text back; in the place of the cipher text, its first block.
LEMMA CbcInverts ==
    ASSUME NEW key, NEW iv, NEW text \in PlainTexts, Aligned(text), NEW in_place \in BOOLEAN
    PROVE  LET out == dlms_sm4_cbc_decrypt(key, iv, dlms_sm4_cbc_encrypt(key, iv, text), in_place)
           IN  /\ ~in_place => out = text
               /\ text # <<>> => out[1] = text[1]
<1> DEFINE rk == dlms_sm4_key_setup(key)
           c == dlms_sm4_cbc_encrypt(key, iv, text)
           out == dlms_sm4_cbc_decrypt(key, iv, c, in_place)
<1>1. Len(text) \in Nat /\ DOMAIN text = 1 .. Len(text)
    BY DEF PlainTexts
<1>2. PICK b : CbcChain(key, iv, text, b)
    BY <1>1, CbcBlocks
<1>3. /\ b[0] = iv
      /\ \A i \in DOMAIN text : b[i] = dlms_sm4_encrypt_block(rk, Mask(text[i], b[i - 1]))
      /\ c = [i \in DOMAIN text |-> b[i]]
    BY <1>1, <1>2 DEF CbcChain
<1>4. Len(c) = Len(text) /\ DOMAIN c = DOMAIN text
  <2>1. c \in [1 .. Len(text) -> {b[i] : i \in DOMAIN text}]
      BY <1>1, <1>3
  <2>2. c \in Seq({b[i] : i \in DOMAIN text})
      BY <1>1, <2>1
  <2>3. QED
      BY <1>1, <2>1, <2>2
<1>5. /\ DOMAIN out = DOMAIN text /\ out = [i \in DOMAIN text |-> out[i]]
      /\ \A i \in DOMAIN text : out[i] = Chained(rk, iv, c, in_place, out, i)
  <2> HIDE DEF c
  <2>1. QED
      BY <1>1, <1>4, CbcOut
<1> HIDE DEF rk, c, out
<1>6. \A i \in DOMAIN text : dlms_sm4_decrypt_block(rk, c[i]) = Mask(text[i], b[i - 1])
  <2>1. \A i \in DOMAIN text : FourWords(Mask(text[i], b[i - 1]))
      BY TextTyped, FourWordsOf DEF Aligned
  <2>2. QED
      BY <1>1, <1>3, <2>1, Sm4Inverts
<1>7. ASSUME NEW i \in DOMAIN text, i = 1 \/ ~in_place PROVE out[i] = text[i]
  <2>1. out[i] = Mask(dlms_sm4_decrypt_block(rk, c[i]), b[i - 1])
    <3>1. CASE i = 1
      <4>1. i - 1 = 0
          BY <3>1
      <4>2. out[i] = Mask(dlms_sm4_decrypt_block(rk, c[i]), iv)
          BY <1>5, <3>1 DEF Chained
      <4>3. QED
          BY <1>3, <4>1, <4>2
    <3>2. CASE i # 1
      <4>1. i - 1 \in DOMAIN text
          BY <1>1, <3>2
      <4>2. c[i - 1] = b[i - 1]
          BY <1>3, <4>1
      <4>3. QED
          BY <1>5, <1>7, <3>2, <4>2 DEF Chained
    <3>3. QED
        BY <3>1, <3>2
  <2>2. QED
      BY <1>6, <2>1, TextTyped, MaskTwice
<1>8. ~in_place => out = text
  <2>1. text = [i \in DOMAIN text |-> text[i]]
      BY DEF PlainTexts
  <2>2. QED
      BY <1>5, <1>7, <2>1
<1>9. text # <<>> => 1 \in DOMAIN text
    BY <1>1 DEF PlainTexts
<1>10. QED
    BY <1>7, <1>8, <1>9 DEF out, c

------------------------------------------------------------------------------
(* Messages. *)

\* A suite below 16 survives the control byte, with the flags.
LEMMA ControlSurvives ==
    ASSUME NEW sc \in dlms_security_control_t, sc.suite < 16
    PROVE  dlms_security_control_decode(dlms_security_control_encode(sc)) = sc
<1> DEFINE d == dlms_security_control_decode(dlms_security_control_encode(sc))
<1>1. /\ sc.suite \in 0 .. 15 /\ sc.authenticated \in BOOLEAN /\ sc.encrypted \in BOOLEAN
      /\ sc.broadcast_key \in BOOLEAN /\ sc.compressed \in BOOLEAN
    BY DEF dlms_security_control_t
<1>2. \A flag \in BOOLEAN : Bit(flag, 16) \in {0, 16} /\ (Bit(flag, 16) = 16 <=> flag)
    BY DEF Bit
<1>3. \A flag \in BOOLEAN : Bit(flag, 32) \in {0, 32} /\ (Bit(flag, 32) = 32 <=> flag)
    BY DEF Bit
<1>4. \A flag \in BOOLEAN : Bit(flag, 64) \in {0, 64} /\ (Bit(flag, 64) = 64 <=> flag)
    BY DEF Bit
<1>5. \A flag \in BOOLEAN : Bit(flag, 128) \in {0, 128} /\ (Bit(flag, 128) = 128 <=> flag)
    BY DEF Bit
<1>6. \A s \in 0 .. 15, a \in {0, 16}, e \in {0, 32}, k \in {0, 64}, c \in {0, 128} :
          LET n == (s % 16) + a + e + k + c
          IN  /\ n % 16 = s
              /\ (n \div 16) % 2 = 1 <=> a = 16
              /\ (n \div 32) % 2 = 1 <=> e = 32
              /\ (n \div 64) % 2 = 1 <=> k = 64
              /\ (n \div 128) % 2 = 1 <=> c = 128
    OBVIOUS
<1>7. /\ d.suite = sc.suite
      /\ d.authenticated <=> sc.authenticated
      /\ d.encrypted <=> sc.encrypted
      /\ d.broadcast_key <=> sc.broadcast_key
      /\ d.compressed <=> sc.compressed
    BY <1>1, <1>2, <1>3, <1>4, <1>5, <1>6
    DEF dlms_security_control_encode, dlms_security_control_decode
<1>8. d \in [suite : Int, authenticated : BOOLEAN, encrypted : BOOLEAN,
            broadcast_key : BOOLEAN, compressed : BOOLEAN]
    BY <1>1, <1>7 DEF dlms_security_control_decode
<1>9. QED
    BY <1>1, <1>7, <1>8 DEF dlms_security_control_t

\* What a message on the wire was made from.
Sent(m) ==
    /\ m.text \in Texts /\ m.sc \in dlms_security_control_t
    /\ m.control = dlms_security_control_encode(m.sc)
    /\ m.method = "encrypt" =>
          m.body = dlms_security_encrypt(m.sc, Title[m.sender], m.counter, m.keys, m.text).text
    /\ m.method = "gmac" =>
          m.tag = dlms_security_gmac(m.sc, Title[m.sender], m.counter, m.keys, m.text)
    /\ m.method = "ecb" =>
          /\ Aligned(m.text)
          /\ m.body = dlms_sm4_ecb_encrypt(CipherKey(m.keys), m.text)
    /\ m.method = "cbc" =>
          /\ Aligned(m.text)
          /\ m.body = dlms_sm4_cbc_encrypt(CipherKey(m.keys),
                          Counter(Nonce(m.sender, m.counter), 0), m.text)
    /\ m.method = "ctr" =>
          m.body = dlms_sm4_ctr(CipherKey(m.keys), Nonce(m.sender, m.counter), m.text)

WireInv == \A m \in wire : Sent(m)

LEMMA WireInit == Init => WireInv
    BY DEF Init, WireInv

\* The message that Send puts on the wire.
Message(r, n, body, tag) ==
    [sender |-> r.sender, method |-> r.method, sc |-> r.sc, text |-> r.text,
     counter |-> n, keys |-> keys[r.sender], derived |-> derived[r.sender],
     control |-> dlms_security_control_encode(r.sc), body |-> body, tag |-> tag]

LEMMA SendAdds ==
    ASSUME NEW r, NEW n, NEW body, NEW tag, Send(r, n, body, tag)
    PROVE  wire' = wire \cup {Message(r, n, body, tag)}
    BY DEF Send, Message

LEMMA SentBySend ==
    ASSUME WireInv, NEW r \in Requests, NEW n \in Counters, NEW body, NEW tag, Send(r, n, body, tag),
           Sent(Message(r, n, body, tag))
    PROVE  WireInv'
    BY SendAdds DEF WireInv, Sent

LEMMA WireStep == WireInv /\ [Next]_vars => WireInv'
<1> SUFFICES ASSUME WireInv, [Next]_vars PROVE WireInv'
    OBVIOUS
<1>1. wire' = wire => WireInv'
    BY DEF WireInv, Sent
<1>2. ASSUME NEW code, Fails(code) PROVE WireInv'
    BY <1>1, <1>2 DEF Fails
<1>3. ASSUME NEW r \in Requests, NEW n \in Counters, NEW fits \in BOOLEAN, encrypt(r, n, fits) PROVE WireInv'
  <2>1. CASE Fails("BUFFER")
      BY <1>2, <2>1
  <2>2. CASE ~Fails("BUFFER")
    <3> DEFINE out == dlms_security_encrypt(r.sc, Title[r.sender], n, keys[r.sender], r.text)
    <3>1. Send(r, n, out.text, out.tag) /\ r.method = "encrypt"
        BY <1>3, <2>2 DEF encrypt
    <3>2. Sent(Message(r, n, out.text, out.tag))
        BY <3>1, SecurityAssumption DEF Sent, Message
    <3>3. QED
        BY <3>1, <3>2, SentBySend
  <2>3. QED
      BY <2>1, <2>2
<1>4. ASSUME NEW r \in Requests, NEW n \in Counters, authenticate(r, n) PROVE WireInv'
  <2>1. CASE Fails("BUFFER")
      BY <1>2, <2>1
  <2>2. CASE ~Fails("BUFFER")
    <3> DEFINE tag == dlms_security_gmac(r.sc, Title[r.sender], n, keys[r.sender], r.text)
    <3>1. Send(r, n, r.text, tag) /\ r.method = "gmac"
        BY <1>4, <2>2 DEF authenticate
    <3>2. Sent(Message(r, n, r.text, tag))
        BY <3>1, SecurityAssumption DEF Sent, Message
    <3>3. QED
        BY <3>1, <3>2, SentBySend
  <2>3. QED
      BY <2>1, <2>2
<1>5. ASSUME NEW r \in Requests, NEW n \in Counters, encipher(r, n) PROVE WireInv'
  <2>1. CASE Fails("INVALID")
      BY <1>2, <2>1
  <2>2. CASE ~Fails("INVALID")
    <3> DEFINE key == CipherKey(keys[r.sender])
               nonce == Nonce(r.sender, n)
    <3>1. CASE r.method = "ecb"
      <4>1. Aligned(r.text) /\ Send(r, n, dlms_sm4_ecb_encrypt(key, r.text), None)
          BY <1>5, <2>2, <3>1 DEF encipher
      <4>2. Sent(Message(r, n, dlms_sm4_ecb_encrypt(key, r.text), None))
          BY <3>1, <4>1, SecurityAssumption DEF Sent, Message
      <4>3. QED
          BY <4>1, <4>2, SentBySend
    <3>2. CASE r.method = "cbc"
      <4>1. Aligned(r.text) /\ Send(r, n, dlms_sm4_cbc_encrypt(key, Counter(nonce, 0), r.text), None)
          BY <1>5, <2>2, <3>2 DEF encipher
      <4>2. Sent(Message(r, n, dlms_sm4_cbc_encrypt(key, Counter(nonce, 0), r.text), None))
          BY <3>2, <4>1, SecurityAssumption DEF Sent, Message
      <4>3. QED
          BY <4>1, <4>2, SentBySend
    <3>3. CASE r.method = "ctr"
      <4>1. Send(r, n, dlms_sm4_ctr(key, nonce, r.text), None)
          BY <1>5, <2>2, <3>3 DEF encipher
      <4>2. Sent(Message(r, n, dlms_sm4_ctr(key, nonce, r.text), None))
          BY <3>3, <4>1, SecurityAssumption DEF Sent, Message
      <4>3. QED
          BY <4>1, <4>2, SentBySend
    <3>4. QED
        BY <1>5, <3>1, <3>2, <3>3 DEF encipher
  <2>3. QED
      BY <2>1, <2>2
<1>6. ASSUME NEW e, NEW owner, NEW suite, derive(e, owner, suite) PROVE WireInv'
    BY <1>1, <1>6 DEF derive
<1>7. ASSUME NEW e, NEW m, NEW fits \in BOOLEAN, decrypt(e, m, fits) PROVE WireInv'
    BY <1>1, <1>7 DEF decrypt, Received
<1>8. ASSUME NEW e, NEW m, NEW n, NEW data, verify(e, m, n, data) PROVE WireInv'
    BY <1>1, <1>8 DEF verify, Received
<1>9. ASSUME NEW e, NEW m, NEW in_place, decipher(e, m, in_place) PROVE WireInv'
    BY <1>1, <1>9 DEF decipher, Received
<1>10. CASE goes_on \/ UNCHANGED vars
    BY <1>1, <1>10 DEF goes_on, vars
<1>11. QED
    BY <1>3, <1>4, <1>5, <1>6, <1>7, <1>8, <1>9, <1>10 DEF Next

------------------------------------------------------------------------------
(* What receivers get. *)

Receives(m, e) ==
    \/ \E fits \in BOOLEAN : decrypt(e, m, fits)
    \/ \E n \in Counters, data \in Texts : verify(e, m, n, data)
    \/ \E in_place \in BOOLEAN : decipher(e, m, in_place)

LEMMA ResultStep ==
    ASSUME [Next]_vars
    PROVE  \/ result' = result
           \/ result'.call \in {"none", "send"}
           \/ \E m \in wire : \E e \in Ends \ {m.sender} : Receives(m, e)
<1>1. CASE UNCHANGED vars
    BY <1>1 DEF vars
<1>2. goes_on => result'.call = "none"
    BY DEF goes_on, Nothing
<1>3. \A e, owner, suite : derive(e, owner, suite) => result' = result
    BY DEF derive
<1>4. \A r, n, body, tag : Send(r, n, body, tag) => result' = result
    BY DEF Send
<1>5. \A code : Fails(code) => result'.call = "send"
    BY DEF Fails
<1>6. \A r, n, fits : encrypt(r, n, fits) => result' = result \/ result'.call = "send"
    BY <1>4, <1>5 DEF encrypt
<1>7. \A r, n : authenticate(r, n) => result' = result \/ result'.call = "send"
    BY <1>4, <1>5 DEF authenticate
<1>8. \A r, n : encipher(r, n) => result' = result \/ result'.call = "send"
    BY <1>4, <1>5 DEF encipher
<1>9. QED
    BY <1>1, <1>2, <1>3, <1>6, <1>7, <1>8 DEF Next, Receives

LEMMA ReceivedResult ==
    ASSUME NEW e, NEW m, NEW call, NEW code, NEW text, Received(e, m, call, code, text)
    PROVE  /\ result'.call = call /\ result'.code = code /\ result'.text = text
           /\ result'.message = m /\ result'.keys = keys[e] /\ result'.derived = derived[e]
    BY DEF Received

About(m, e) == result'.message = m /\ result'.keys = keys[e] /\ result'.derived = derived[e]

LEMMA Calls ==
    ASSUME NEW m, NEW e
    PROVE  /\ \A fits : decrypt(e, m, fits) => About(m, e) /\ result'.call = "decrypt"
           /\ \A n, data : verify(e, m, n, data) =>
                 About(m, e) /\ result'.call \in {"verify", "verify altered"}
           /\ \A in_place : decipher(e, m, in_place) =>
                 /\ About(m, e)
                 /\ result'.call = IF in_place THEN "decipher in place" ELSE "decipher"
<1>1. ASSUME NEW fits, decrypt(e, m, fits) PROVE About(m, e) /\ result'.call = "decrypt"
  <2>1. PICK code, text : Received(e, m, "decrypt", code, text)
      BY <1>1, Zenon DEF decrypt
  <2>2. QED
      BY <2>1, ReceivedResult DEF About
<1>2. ASSUME NEW n, NEW data, verify(e, m, n, data)
      PROVE  About(m, e) /\ result'.call \in {"verify", "verify altered"}
  <2>1. PICK call, code, text : /\ Received(e, m, call, code, text)
                                /\ call \in {"verify", "verify altered"}
    <3>1. PICK call : Received(e, m, call, result'.code, result'.text)
                      /\ call \in {"verify", "verify altered"}
        BY <1>2 DEF verify, Received
    <3>2. QED
        BY <3>1
  <2>2. QED
      BY <2>1, ReceivedResult, ZenonT(40) DEF About
<1>3. ASSUME NEW in_place, decipher(e, m, in_place)
      PROVE  /\ About(m, e)
             /\ result'.call = IF in_place THEN "decipher in place" ELSE "decipher"
  <2>1. PICK text : Received(e, m, IF in_place THEN "decipher in place" ELSE "decipher",
                             "OK", text)
      BY <1>3, Zenon DEF decipher
  <2>2. QED
      BY <2>1, ReceivedResult, ZenonT(40) DEF About
<1>4. QED
    BY <1>1, <1>2, <1>3

LEMMA TextsPlain == \A text \in Texts : text \in PlainTexts
    BY SecurityAssumption DEF PlainTexts

\* Deciphering with the key a message was ciphered with.
LEMMA Deciphered ==
    ASSUME NEW m, Sent(m), NEW e \in Ends, NEW in_place \in BOOLEAN, decipher(e, m, in_place)
    PROVE  TextRecovered'
<1> SUFFICES ASSUME CipherKey(keys[e]) = CipherKey(m.keys)
             PROVE  \/ result'.text = m.text
                    \/ /\ m.method = "cbc" /\ result'.call = "decipher in place"
                       /\ result'.text[1] = m.text[1]
  <2>1. result'.message = m /\ result'.keys = keys[e]
      BY Calls DEF About
  <2>2. QED
      BY <2>1 DEF TextRecovered, SameCipherKey
<1> DEFINE key == CipherKey(keys[e])
           nonce == Nonce(m.sender, m.counter)
<1>1. result'.call = IF in_place THEN "decipher in place" ELSE "decipher"
    BY Calls
<1>2. m.text \in PlainTexts
    BY TextsPlain DEF Sent
<1>3. CASE m.method = "ecb"
  <2>1. result'.text = dlms_sm4_ecb_decrypt(key, m.body)
      BY <1>3 DEF decipher, Received
  <2>2. QED
      BY <1>2, <1>3, <2>1, EcbInverts DEF Sent
<1>4. CASE m.method = "cbc"
  <2>1. result'.text = dlms_sm4_cbc_decrypt(key, Counter(nonce, 0), m.body, in_place)
      BY <1>4 DEF decipher, Received
  <2>2. /\ ~in_place => result'.text = m.text
        /\ m.text # <<>> => result'.text[1] = m.text[1]
      BY <1>2, <1>4, <2>1, CbcInverts DEF Sent
  <2>3. m.text = <<>> => result'.text = <<>>
    <3>1. SUFFICES ASSUME m.text = <<>> PROVE result'.text = <<>>
        OBVIOUS
    <3>2. m.body = <<>>
        BY <1>4, <3>1 DEF Sent, dlms_sm4_cbc_encrypt
    <3>3. QED
        BY <2>1, <3>2 DEF dlms_sm4_cbc_decrypt
  <2>4. QED
      BY <1>1, <1>4, <2>2, <2>3
<1>5. CASE m.method = "ctr"
  <2>1. result'.text = dlms_sm4_ctr(key, nonce, m.body)
      BY <1>5 DEF decipher, Received
  <2>2. QED
      BY <1>2, <1>5, <2>1, GctrInverts DEF Sent, dlms_sm4_ctr
<1>6. QED
    BY <1>3, <1>4, <1>5 DEF decipher

LEMMA TextRecoveredStep == WireInv /\ TextRecovered /\ [Next]_vars => TextRecovered'
<1> SUFFICES ASSUME WireInv, TextRecovered, [Next]_vars PROVE TextRecovered'
    OBVIOUS
<1>1. CASE result' = result
    BY <1>1 DEF TextRecovered, SameCipherKey
<1>2. CASE result'.call \notin {"decipher", "decipher in place"}
    BY <1>2 DEF TextRecovered
<1>3. ASSUME NEW m \in wire, NEW e \in Ends, Receives(m, e) PROVE TextRecovered'
  <2>1. CASE \E in_place \in BOOLEAN : decipher(e, m, in_place)
      BY <2>1, Deciphered DEF WireInv
  <2>2. CASE \E fits \in BOOLEAN : decrypt(e, m, fits)
      BY <1>2, <2>2, Calls
  <2>3. CASE \E n \in Counters, data \in Texts : verify(e, m, n, data)
      BY <1>2, <2>3, Calls
  <2>4. QED
      BY <1>3, <2>1, <2>2, <2>3 DEF Receives
<1>4. QED
    BY <1>1, <1>2, <1>3, ResultStep

\* The modes of SM4 give back what was ciphered under the same key, for every text.
THEOREM SecurityTextRecovered == Spec => []TextRecovered
<1>1. Init => WireInv /\ TextRecovered
    BY WireInit DEF Init, Nothing, TextRecovered
<1>2. WireInv /\ TextRecovered /\ [Next]_vars => (WireInv /\ TextRecovered)'
    BY WireStep, TextRecoveredStep
<1>3. QED
    BY <1>1, <1>2, PTL DEF Spec

\* Decryption writes the text, under the sender's encryption key.
LEMMA Decrypted ==
    ASSUME NEW m, Sent(m), NEW e \in Ends, NEW fits \in BOOLEAN, decrypt(e, m, fits)
    PROVE  ContentsReachReceiver'
<1> SUFFICES ASSUME fits, CipherKey(keys[e]) = CipherKey(m.keys), m.sc.suite < 16
             PROVE  result'.text = m.text
    BY DEF decrypt, Received, ContentsReachReceiver, SameCipherKey
<1> DEFINE rk == RoundKeys(Cipher(m.sc), CipherKey(m.keys))
           iv == dlms_security_build_iv(Title[m.sender], m.counter)
<1>1. dlms_security_control_decode(m.control) = m.sc
    BY ControlSurvives DEF Sent
<1>2. m.body = sm4_gctr(rk, iv, gcm_inc32(J0), m.text)
    BY DEF decrypt, Sent, dlms_security_encrypt, gcm_encrypt
<1>3. result'.text = sm4_gctr(rk, iv, gcm_inc32(J0), m.body)
    BY <1>1 DEF decrypt, Received, dlms_security_decrypt, gcm_decrypt, gcm_encrypt
<1>4. QED
    BY <1>2, <1>3, GctrInverts, TextsPlain DEF Sent

LEMMA ContentsStep == WireInv /\ ContentsReachReceiver /\ [Next]_vars => ContentsReachReceiver'
<1> SUFFICES ASSUME WireInv, ContentsReachReceiver, [Next]_vars PROVE ContentsReachReceiver'
    OBVIOUS
<1>1. CASE result' = result
    BY <1>1 DEF ContentsReachReceiver, SameCipherKey
<1>2. CASE result'.call # "decrypt"
    BY <1>2 DEF ContentsReachReceiver
<1>3. ASSUME NEW m \in wire, NEW e \in Ends, Receives(m, e) PROVE ContentsReachReceiver'
  <2>1. CASE \E fits \in BOOLEAN : decrypt(e, m, fits)
      BY <2>1, Decrypted DEF WireInv
  <2>2. CASE \E in_place \in BOOLEAN : decipher(e, m, in_place)
      BY <1>2, <2>2, Calls
  <2>3. CASE \E n \in Counters, data \in Texts : verify(e, m, n, data)
      BY <1>2, <2>3, Calls
  <2>4. QED
      BY <1>3, <2>1, <2>2, <2>3 DEF Receives
<1>4. QED
    BY <1>1, <1>2, <1>3, ResultStep

\* What was encrypted is in the buffer of a receiver with the sender's keys.
THEOREM SecurityContentsReach == Spec => []ContentsReachReceiver
<1>1. Init => WireInv /\ ContentsReachReceiver
    BY WireInit DEF Init, Nothing, ContentsReachReceiver
<1>2. WireInv /\ ContentsReachReceiver /\ [Next]_vars => (WireInv /\ ContentsReachReceiver)'
    BY WireStep, ContentsStep
<1>3. QED
    BY <1>1, <1>2, PTL DEF Spec

------------------------------------------------------------------------------
(* Types. *)

KeyArrays == [enc : [1 .. 8 -> Words], auth : [1 .. 8 -> Words]]

LEMMA WordsTyped == (\A a, b \in Words : a (+) b \in Words) /\ (\A n : Word(n) \in Words)
    BY DEF Words, (+), Word

LEMMA Lengths == \A suite : DerivedLength(suite) \in {4, 8}
    BY DEF DerivedLength

LEMMA FunctionSeq ==
    ASSUME NEW S, NEW n \in Nat, NEW f \in [1 .. n -> S]
    PROVE  f \in Seq(S) /\ Len(f) = n
<1>1. f \in Seq(S)
    BY SeqDef
<1>2. QED
    BY <1>1, LenProperties

LEMMA WithTitle ==
    ASSUME NEW l \in Words, NEW title \in [1 .. 2 -> Words]
    PROVE  <<l>> \o title \in Seq(Words) /\ Len(<<l>> \o title) = 3
<1> DEFINE one == <<l>>
<1>1. title \in Seq(Words) /\ Len(title) = 2
    BY FunctionSeq
<1>2. one \in Seq(Words) /\ Len(one) = 1
    OBVIOUS
<1> HIDE DEF one
<1>3. one \o title \in Seq(Words) /\ Len(one \o title) = 3
  <2>1. one \o title \in Seq(Words) /\ Len(one \o title) = Len(one) + Len(title)
      BY <1>1, <1>2, ConcatProperties, Zenon
  <2>2. QED
      BY <1>1, <1>2, <2>1
<1>4. QED
    BY <1>3 DEF one

LEMMA DerivedTyped ==
    ASSUME NEW label \in {"ENC", "MAC"}, NEW owner \in Ends, NEW n \in {4, 8}
    PROVE  dlms_hls_ism_derive_key(<<Label[label]>> \o Title[owner], n) \in [1 .. n -> Words]
<1> DEFINE context == <<Label[label]>> \o Title[owner]
<1>1. Title[owner] \in [1 .. 2 -> Words] /\ Label[label] \in Words
    BY SecurityAssumption
<1>2. context \in Seq(Words) /\ Len(context) = 3
    BY <1>1, WithTitle
<1> HIDE DEF context
<1>3. ASSUME NEW i \in 1 .. n
      PROVE  Master[((i - 1) % 4) + 1] (+) context[((i - 1) % Len(context)) + 1] (+) Word(1)
                 \in Words
  <2>1. ((i - 1) % 4) + 1 \in 1 .. 4 /\ ((i - 1) % 3) + 1 \in 1 .. 3
      OBVIOUS
  <2>2. Master[((i - 1) % 4) + 1] \in Words
      BY <2>1, SecurityAssumption DEF Block
  <2>3. context[((i - 1) % Len(context)) + 1] \in Words
      BY <1>2, <2>1, ElementOfSeq
  <2>4. QED
      BY <2>2, <2>3, WordsTyped
<1>4. QED
    BY <1>3 DEF dlms_hls_ism_derive_key, context

LEMMA DeriveTyped ==
    ASSUME NEW label \in {"ENC", "MAC"}, NEW owner \in Ends, NEW suite,
           NEW array \in [1 .. 8 -> Words]
    PROVE  Derive(label, Title[owner], suite, array) \in [1 .. 8 -> Words]
<1> DEFINE n == DerivedLength(suite)
           key == dlms_hls_ism_derive_key(<<Label[label]>> \o Title[owner], n)
<1>1. key \in [1 .. n -> Words] /\ n \in {4, 8}
  <2> HIDE DEF n
  <2>1. n \in {4, 8}
      BY Lengths DEF n
  <2>2. QED
      BY <2>1, DerivedTyped
<1>2. Derive(label, Title[owner], suite, array) =
          [i \in DOMAIN array \cup DOMAIN key |-> IF i \in DOMAIN key THEN key[i] ELSE array[i]]
    BY DEF Derive
<1> HIDE DEF key, n
<1>3. DOMAIN array \cup DOMAIN key = 1 .. 8
    BY <1>1
<1>4. QED
    BY <1>1, <1>2, <1>3

LEMMA SecurityInitTyped == Init => TypeOK
<1> SUFFICES ASSUME Init PROVE TypeOK
    OBVIOUS
<1>1. keys \in [Ends -> KeyArrays]
  <2>1. \A e \in Ends : keys[e] \in KeyArrays
      BY SecurityAssumption DEF Init, KeyArrays
  <2>2. QED
      BY <2>1 DEF Init
<1>2. QED
    BY <1>1, SecurityAssumption DEF Init, TypeOK, KeyArrays

LEMMA SendTyped ==
    ASSUME TypeOK, NEW r \in Requests, NEW n \in Counters, NEW body, NEW tag, Send(r, n, body, tag)
    PROVE  TypeOK'
<1>1. /\ Message(r, n, body, tag).sender \in Ends
      /\ Message(r, n, body, tag).counter \in Counters
      /\ Message(r, n, body, tag).keys \in KeyArrays
    BY SecurityAssumption DEF Message, TypeOK, KeyArrays
<1>2. UNCHANGED <<keys, derived, calls>>
    BY DEF Send
<1>3. QED
    BY <1>1, <1>2, SendAdds DEF TypeOK, KeyArrays

LEMMA DeriveStep ==
    ASSUME TypeOK, NEW e \in Ends, NEW owner \in Ends, NEW suite, derive(e, owner, suite)
    PROVE  /\ keys' \in [Ends -> KeyArrays]
           /\ keys'[e].enc = Derive("ENC", Title[owner], suite, keys[e].enc)
           /\ keys'[e].auth = Derive("MAC", Title[owner], suite, keys[e].auth)
           /\ \A f \in Ends \ {e} : keys'[f] = keys[f]
<1> DEFINE enc == Derive("ENC", Title[owner], suite, keys[e].enc)
           auth == Derive("MAC", Title[owner], suite, keys[e].auth)
<1>1. keys \in [Ends -> KeyArrays]
    BY DEF TypeOK, KeyArrays
<1>2. keys' = [keys EXCEPT ![e].enc = enc, ![e].auth = auth]
    BY DEF derive, dlms_hls_ism_derive_enc_key, dlms_hls_ism_derive_mac_key
<1>3. enc \in [1 .. 8 -> Words] /\ auth \in [1 .. 8 -> Words]
    BY <1>1, DeriveTyped DEF KeyArrays
<1> HIDE DEF enc, auth
<1>4. QED
    BY <1>1, <1>2, <1>3 DEF KeyArrays, enc, auth

LEMMA SecurityTypeStep == TypeOK /\ [Next]_vars => TypeOK'
<1> SUFFICES ASSUME TypeOK, [Next]_vars PROVE TypeOK'
    OBVIOUS
<1>1. UNCHANGED <<keys, wire, derived, calls>> => TypeOK'
    BY DEF TypeOK
<1>2. ASSUME NEW r \in Requests, NEW n \in Counters, NEW body, NEW tag, Send(r, n, body, tag) PROVE TypeOK'
    BY <1>2, SendTyped
<1>3. ASSUME NEW code, Fails(code) PROVE TypeOK'
    BY <1>1, <1>3 DEF Fails
<1>4. ASSUME NEW r \in Requests, NEW n \in Counters, NEW fits, encrypt(r, n, fits) PROVE TypeOK'
    BY <1>2, <1>3, <1>4 DEF encrypt
<1>5. ASSUME NEW r \in Requests, NEW n \in Counters, authenticate(r, n) PROVE TypeOK'
    BY <1>2, <1>3, <1>5 DEF authenticate
<1>6. ASSUME NEW r \in Requests, NEW n \in Counters, encipher(r, n) PROVE TypeOK'
    BY <1>2, <1>3, <1>6 DEF encipher
<1>7. ASSUME NEW e \in Ends, NEW owner \in Ends, NEW suite \in Suites, derive(e, owner, suite)
      PROVE  TypeOK'
  <2>1. keys' \in [Ends -> KeyArrays]
      BY <1>7, DeriveStep
  <2>2. /\ calls' \in 0 .. MaxDerived /\ wire' = wire
        /\ derived' \in [Ends -> {None} \cup (Ends \X Suites)]
      BY <1>7, SecurityAssumption, SMTT(20) DEF derive, TypeOK
  <2>3. QED
      BY <2>1, <2>2 DEF TypeOK, KeyArrays
<1>8. ASSUME NEW e, NEW m, NEW fits \in BOOLEAN, decrypt(e, m, fits) PROVE TypeOK'
    BY <1>1, <1>8 DEF decrypt, Received
<1>9. ASSUME NEW e, NEW m, NEW n, NEW data, verify(e, m, n, data) PROVE TypeOK'
    BY <1>1, <1>9 DEF verify, Received
<1>10. ASSUME NEW e, NEW m, NEW in_place, decipher(e, m, in_place) PROVE TypeOK'
    BY <1>1, <1>10 DEF decipher, Received
<1>11. CASE goes_on \/ UNCHANGED vars
    BY <1>1, <1>11 DEF goes_on, vars
<1>12. QED
    BY <1>4, <1>5, <1>6, <1>7, <1>8, <1>9, <1>10, <1>11 DEF Next

\* A key that is derived fits in its array, whatever the suite, and messages come
\* from an end, with its keys and one of the counters.
THEOREM SecurityTypeCorrect == Spec => []TypeOK
BY SecurityInitTyped, SecurityTypeStep, PTL DEF Spec

------------------------------------------------------------------------------
(* Ends that derived their keys. *)

\* The words of the arrays that were derived for an owner's title and a suite; those
\* behind them are not known.
KeysFor(k, d) ==
    d # None =>
        \A i \in 1 .. DerivedLength(d[2]) :
            /\ k.enc[i] = dlms_hls_ism_derive_key(<<Label["ENC"]>> \o Title[d[1]],
                                                 DerivedLength(d[2]))[i]
            /\ k.auth[i] = dlms_hls_ism_derive_key(<<Label["MAC"]>> \o Title[d[1]],
                                                  DerivedLength(d[2]))[i]

DerivedInv ==
    /\ \A e \in Ends : KeysFor(keys[e], derived[e])
    /\ \A m \in wire : KeysFor(m.keys, m.derived)

LEMMA DeriveFills ==
    ASSUME NEW label \in {"ENC", "MAC"}, NEW owner \in Ends, NEW suite, NEW array
    PROVE  \A i \in 1 .. DerivedLength(suite) :
               Derive(label, Title[owner], suite, array)[i] =
                   dlms_hls_ism_derive_key(<<Label[label]>> \o Title[owner],
                                           DerivedLength(suite))[i]
<1> DEFINE n == DerivedLength(suite)
           key == dlms_hls_ism_derive_key(<<Label[label]>> \o Title[owner], n)
<1>1. n \in {4, 8}
    BY Lengths
<1>2. key \in [1 .. n -> Words]
  <2> HIDE DEF n
  <2>1. QED
      BY <1>1, DerivedTyped
<1>3. Derive(label, Title[owner], suite, array) =
          [i \in DOMAIN array \cup DOMAIN key |-> IF i \in DOMAIN key THEN key[i] ELSE array[i]]
    BY DEF Derive
<1> HIDE DEF key, n
<1>4. \A i \in 1 .. n : Derive(label, Title[owner], suite, array)[i] = key[i]
    BY <1>1, <1>2, <1>3
<1>5. QED
    BY <1>4 DEF key, n

LEMMA DerivedInit == Init => DerivedInv
    BY DEF Init, DerivedInv, KeysFor

LEMMA DerivedBySend ==
    ASSUME TypeOK, DerivedInv, NEW r \in Requests, NEW n \in Counters, NEW body, NEW tag, Send(r, n, body, tag)
    PROVE  DerivedInv'
<1>1. KeysFor(Message(r, n, body, tag).keys, Message(r, n, body, tag).derived)
    BY SecurityAssumption DEF Message, DerivedInv
<1>2. keys' = keys /\ derived' = derived
    BY DEF Send
<1>3. QED
    BY <1>1, <1>2, SendAdds DEF DerivedInv, KeysFor

LEMMA DerivedStep == TypeOK /\ DerivedInv /\ [Next]_vars => DerivedInv'
<1> SUFFICES ASSUME TypeOK, DerivedInv, [Next]_vars PROVE DerivedInv'
    OBVIOUS
<1>1. UNCHANGED <<keys, derived, wire>> => DerivedInv'
    BY DEF DerivedInv, KeysFor
<1>2. ASSUME NEW r \in Requests, NEW n \in Counters, NEW body, NEW tag, Send(r, n, body, tag) PROVE DerivedInv'
    BY <1>2, DerivedBySend
<1>3. ASSUME NEW code, Fails(code) PROVE DerivedInv'
    BY <1>1, <1>3 DEF Fails
<1>4. ASSUME NEW r \in Requests, NEW n \in Counters, NEW fits, encrypt(r, n, fits) PROVE DerivedInv'
    BY <1>2, <1>3, <1>4 DEF encrypt
<1>5. ASSUME NEW r \in Requests, NEW n \in Counters, authenticate(r, n) PROVE DerivedInv'
    BY <1>2, <1>3, <1>5 DEF authenticate
<1>6. ASSUME NEW r \in Requests, NEW n \in Counters, encipher(r, n) PROVE DerivedInv'
    BY <1>2, <1>3, <1>6 DEF encipher
<1>7. ASSUME NEW e \in Ends, NEW owner \in Ends, NEW suite \in Suites, derive(e, owner, suite)
      PROVE  DerivedInv'
  <2>1. derived' = [derived EXCEPT ![e] = <<owner, suite>>] /\ wire' = wire
      BY <1>7 DEF derive
  <2>2. KeysFor(keys'[e], <<owner, suite>>)
      BY <1>7, DeriveStep, DeriveFills, SMTT(20) DEF KeysFor
  <2>3. ASSUME NEW f \in Ends PROVE KeysFor(keys'[f], derived'[f])
    <3>1. CASE f # e
        BY <1>7, <2>1, <3>1, DeriveStep DEF DerivedInv
    <3>2. CASE f = e
        BY <2>1, <2>2, <3>2 DEF TypeOK
    <3>3. QED
        BY <3>1, <3>2
  <2>4. QED
      BY <2>1, <2>3 DEF DerivedInv, KeysFor
<1>8. ASSUME NEW e, NEW m, NEW fits \in BOOLEAN, decrypt(e, m, fits) PROVE DerivedInv'
    BY <1>1, <1>8 DEF decrypt, Received
<1>9. ASSUME NEW e, NEW m, NEW n, NEW data, verify(e, m, n, data) PROVE DerivedInv'
    BY <1>1, <1>9 DEF verify, Received
<1>10. ASSUME NEW e, NEW m, NEW in_place, decipher(e, m, in_place) PROVE DerivedInv'
    BY <1>1, <1>10 DEF decipher, Received
<1>11. CASE goes_on \/ UNCHANGED vars
    BY <1>1, <1>11 DEF goes_on, vars
<1>12. QED
    BY <1>4, <1>5, <1>6, <1>7, <1>8, <1>9, <1>10, <1>11 DEF Next

LEMMA SamePrefix ==
    ASSUME NEW f \in [1 .. 8 -> Words], NEW g \in [1 .. 8 -> Words], NEW n \in 1 .. 8,
           \A i \in 1 .. n : f[i] = g[i]
    PROVE  SubSeq(f, 1, n) = SubSeq(g, 1, n)
<1>1. /\ SubSeq(f, 1, n) \in Seq(Words) /\ Len(SubSeq(f, 1, n)) = n
      /\ \A i \in 1 .. n : SubSeq(f, 1, n)[i] = f[i]
    BY SubSeqProperties
<1>2. /\ SubSeq(g, 1, n) \in Seq(Words) /\ Len(SubSeq(g, 1, n)) = n
      /\ \A i \in 1 .. n : SubSeq(g, 1, n)[i] = g[i]
    BY SubSeqProperties
<1>3. QED
    BY <1>1, <1>2, SeqEqual

LEMMA SameKeys ==
    ASSUME NEW k \in KeyArrays, NEW l \in KeyArrays, NEW d, d # None,
           KeysFor(k, d), KeysFor(l, d),
           NEW sc, sc.suite = d[2], sc.suite \in 0 .. 15 \ {3}
    PROVE  CipherKey(k) = CipherKey(l) /\ AuthKey(sc, k) = AuthKey(sc, l)
<1>1. AuthLength(sc) \in {4, 8} /\ AuthLength(sc) <= DerivedLength(d[2])
    BY DEF AuthLength, DerivedLength
<1>2. DerivedLength(d[2]) \in {4, 8}
    BY Lengths
<1>3. \A i \in 1 .. DerivedLength(d[2]) : k.enc[i] = l.enc[i] /\ k.auth[i] = l.auth[i]
    BY DEF KeysFor
<1>4. CipherKey(k) = CipherKey(l)
    BY <1>2, <1>3, SamePrefix DEF CipherKey, KeyArrays
<1>5. AuthKey(sc, k) = AuthKey(sc, l)
    BY <1>1, <1>2, <1>3, SamePrefix DEF AuthKey, KeyArrays
<1>6. QED
    BY <1>4, <1>5

\* Keys that are equal where the suite reads them give the tag that was sent.
LEMMA Verified ==
    ASSUME TypeOK, WireInv, DerivedInv, NEW m \in wire, NEW e \in Ends, NEW n, NEW data,
           verify(e, m, n, data)
    PROVE  EndsAgree'
<1> SUFFICES ASSUME result'.call = "verify", derived[e] # None, derived[e] = m.derived,
                    derived[e][2] = m.sc.suite, m.sc.suite \in 0 .. 15 \ {3}
             PROVE  result'.code = "OK"
    BY Calls, ZenonT(40) DEF About, EndsAgree
<1>1. n = m.counter /\ data = m.text
    BY DEF verify, Received
<1>2. Sent(m)
    BY DEF WireInv
<1>3. dlms_security_control_decode(m.control) = m.sc
    BY <1>2, ControlSurvives DEF Sent
<1>4. CipherKey(keys[e]) = CipherKey(m.keys) /\ AuthKey(m.sc, keys[e]) = AuthKey(m.sc, m.keys)
  <2>1. keys[e] \in KeyArrays /\ m.keys \in KeyArrays
      BY DEF TypeOK, KeyArrays
  <2>2. KeysFor(keys[e], derived[e]) /\ KeysFor(m.keys, derived[e])
      BY DEF DerivedInv
  <2>3. QED
      BY <2>1, <2>2, SameKeys
<1>5. m.tag = dlms_security_gmac(m.sc, Title[m.sender], n, keys[e], data)
    BY <1>1, <1>2, <1>4 DEF verify, Sent, dlms_security_gmac, Aad
<1>6. QED
    BY <1>3, <1>5 DEF verify, Received

LEMMA EndsAgreeStep ==
    TypeOK /\ WireInv /\ DerivedInv /\ EndsAgree /\ [Next]_vars => EndsAgree'
<1> SUFFICES ASSUME TypeOK, WireInv, DerivedInv, EndsAgree, [Next]_vars PROVE EndsAgree'
    OBVIOUS
<1>1. CASE result' = result
    BY <1>1 DEF EndsAgree
<1>2. CASE result'.call # "verify"
    BY <1>2 DEF EndsAgree
<1>3. ASSUME NEW m \in wire, NEW e \in Ends, Receives(m, e) PROVE EndsAgree'
  <2>1. CASE \E n \in Counters, data \in Texts : verify(e, m, n, data)
      BY <2>1, Verified
  <2>2. CASE \E fits \in BOOLEAN : decrypt(e, m, fits)
      BY <1>2, <2>2, Calls
  <2>3. CASE \E in_place \in BOOLEAN : decipher(e, m, in_place)
      BY <1>2, <2>3, Calls
  <2>4. QED
      BY <1>3, <2>1, <2>2, <2>3 DEF Receives
<1>4. QED
    BY <1>1, <1>2, <1>3, ResultStep

\* Ends that derived their keys for the same title and suite verify each other's
\* GMACs, in every suite but the third, whatever lies behind their keys.
THEOREM SecurityEndsAgree == Spec => []EndsAgree
<1> DEFINE Inv == TypeOK /\ WireInv /\ DerivedInv /\ EndsAgree
<1>1. Init => Inv
    BY SecurityInitTyped, WireInit, DerivedInit DEF Init, Nothing, EndsAgree
<1>2. Inv /\ [Next]_vars => Inv'
    BY SecurityTypeStep, WireStep, DerivedStep, EndsAgreeStep
<1>3. QED
    BY <1>1, <1>2, PTL DEF Spec

------------------------------------------------------------------------------
(* The words of numbers. *)

\* A power of two is the number of subsets.
LEMMA PowerIsCount ==
    \A n \in Nat : IsFiniteSet(SUBSET (1 .. n)) /\ Cardinality(SUBSET (1 .. n)) = 2^n
<1>1. TAKE n \in Nat
<1>2. IsFiniteSet(1 .. n) /\ Cardinality(1 .. n) = n
    BY FS_Interval
<1>3. QED
    BY <1>2, FS_SUBSET

LEMMA Powers == 2^0 = 1 /\ \A n \in Nat : 2^n \in Nat \ {0} /\ 2^(n + 1) = 2 * 2^n
<1>1. 2^0 = 1
    BY SMT
<1>2. ASSUME NEW n \in Nat
      PROVE  2^n \in Nat \ {0} /\ 2^(n + 1) = 2 * 2^n
  <2> DEFINE A == SUBSET (1 .. n)
             B == {s \cup {n + 1} : s \in A}
             F == [s \in A |-> s \cup {n + 1}]
  <2>1. IsFiniteSet(A) /\ Cardinality(A) = 2^n
      BY PowerIsCount
  <2>2. Cardinality(SUBSET (1 .. n + 1)) = 2^(n + 1)
    <3>1. n + 1 \in Nat
        OBVIOUS
    <3>2. QED
        BY <3>1, PowerIsCount, Zenon
  <2>3. SUBSET (1 .. n + 1) = A \cup B
    <3>1. 1 .. n + 1 = (1 .. n) \cup {n + 1}
        OBVIOUS
    <3>2. ASSUME NEW s \in SUBSET (1 .. n + 1)
          PROVE  s \in A \cup B
      <4>1. s \ {n + 1} \in A
          BY <3>1
      <4>2. CASE n + 1 \in s
        <5>1. s = (s \ {n + 1}) \cup {n + 1}
            BY <4>2
        <5>2. QED
            BY <4>1, <5>1
      <4>3. CASE n + 1 \notin s
          BY <4>1, <4>3, <3>1
      <4>4. QED
          BY <4>2, <4>3
    <3>3. ASSUME NEW s \in A \cup B
          PROVE  s \in SUBSET (1 .. n + 1)
      <4>1. CASE s \in A
          BY <3>1, <4>1
      <4>2. CASE s \in B
          BY <3>1, <4>2
      <4>3. QED
          BY <4>1, <4>2
    <3> HIDE DEF A, B
    <3>4. QED
        BY <3>2, <3>3
  <2>4. A \cap B = {}
    <3>1. \A s \in A : n + 1 \notin s
        OBVIOUS
    <3>2. \A s \in B : n + 1 \in s
        OBVIOUS
    <3> HIDE DEF A, B
    <3>3. QED
        BY <3>1, <3>2
  <2>5. F \in Bijection(A, B)
    <3>1. F \in [A -> B] /\ \A t \in B : \E s \in A : F[s] = t
        OBVIOUS
    <3>2. ASSUME NEW s \in A, NEW t \in A, F[s] = F[t]
          PROVE  s = t
      <4>1. s \cup {n + 1} = t \cup {n + 1} /\ n + 1 \notin s /\ n + 1 \notin t
          BY <3>2
      <4>2. QED
          BY <4>1
    <3> HIDE DEF A, B, F
    <3>3. QED
        BY <3>1, <3>2 DEF Bijection, Injection, Surjection, IsInjective
  <2>6. IsFiniteSet(B) /\ Cardinality(B) = Cardinality(A)
    <3>1. ExistsBijection(A, B)
        BY <2>5 DEF ExistsBijection
    <3> HIDE DEF A, B
    <3>2. QED
        BY <2>1, <3>1, FS_Bijection
  <2>7. A # {}
    <3>1. {} \in A
        OBVIOUS
    <3>2. QED
        BY <3>1
  <2> HIDE DEF A, B
  <2>8. Cardinality(A \cup B) = Cardinality(A) + Cardinality(B) - Cardinality(A \cap B)
      BY <2>1, <2>6, FS_Union
  <2>9. Cardinality(A \cap B) = 0 /\ Cardinality(A) \in Nat /\ Cardinality(A) # 0
      BY <2>1, <2>4, <2>7, FS_EmptySet, FS_CardinalityType
  <2>10. Cardinality(A \cup B) = 2^(n + 1)
      BY <2>2, <2>3
  <2>11. QED
      BY <2>1, <2>6, <2>8, <2>9, <2>10
<1>3. QED
    BY <1>1, <1>2
LEMMA Quotient ==
    ASSUME NEW a \in Nat, NEW p \in Nat \ {0}
    PROVE  /\ a \div p \in Nat /\ (a \div p) * p <= a /\ a < (a \div p + 1) * p
           /\ \A q \in Nat : q * p <= a /\ a < (q + 1) * p => a \div p = q
<1> DEFINE d == a \div p
<1>1. d \in Nat /\ d * p <= a /\ a < (d + 1) * p
    OBVIOUS
<1> HIDE DEF d
<1>2. ASSUME NEW q \in Nat, q * p <= a, a < (q + 1) * p
      PROVE  d = q
  <2>1. \A x, y \in Nat : x + 1 <= y => (x + 1) * p <= y * p
      OBVIOUS
  <2>2. ~(q + 1 <= d) /\ ~(d + 1 <= q)
      BY <1>1, <1>2, <2>1
  <2>3. QED
      BY <1>1, <2>2
<1>3. QED
    BY <1>1, <1>2 DEF d

\* Half a number's quotient is its quotient by twice as much.
LEMMA HalfQuotient ==
    ASSUME NEW a \in Nat, NEW p \in Nat \ {0}
    PROVE  (a \div 2) \div p = a \div (2 * p)
<1>1. PICK h : h = a \div 2
    OBVIOUS
<1>2. h \in Nat /\ 2 * h <= a /\ a <= 2 * h + 1
    BY <1>1
<1>3. PICK q : q = h \div p
    OBVIOUS
<1>4. q \in Nat /\ q * p <= h /\ h < (q + 1) * p
    BY <1>2, <1>3, Quotient
<1>5. PICK x : x = q * p
    OBVIOUS
<1>6. PICK y : y = (q + 1) * p
    OBVIOUS
<1>7. x \in Nat /\ y \in Nat /\ q * (2 * p) = 2 * x /\ (q + 1) * (2 * p) = 2 * y
    BY <1>4, <1>5, <1>6
<1>8. 2 * x <= a /\ a < 2 * y
    BY <1>2, <1>4, <1>5, <1>6, <1>7
<1>9. 2 * p \in Nat \ {0} /\ q * (2 * p) <= a /\ a < (q + 1) * (2 * p)
    BY <1>7, <1>8
<1>10. a \div (2 * p) = q
    BY <1>4, <1>9, Quotient
<1>11. QED
    BY <1>1, <1>3, <1>10

\* Numbers of which all bits are equal are equal.
SameBits(a, b, w) == \A i \in 0 .. w - 1 : (a \div 2^i) % 2 = (b \div 2^i) % 2

LEMMA BitsDetermine ==
    ASSUME NEW w \in Nat, NEW a \in 0 .. 2^w - 1, NEW b \in 0 .. 2^w - 1, SameBits(a, b, w)
    PROVE  a = b
<1> DEFINE S == {n \in Nat : \A x, y \in 0 .. 2^n - 1 : SameBits(x, y, n) => x = y}
<1>1. 0 \in S
    BY Powers
<1>2. ASSUME NEW n \in S PROVE n + 1 \in S
  <2>1. SUFFICES ASSUME NEW x \in 0 .. 2^(n + 1) - 1, NEW y \in 0 .. 2^(n + 1) - 1,
                        SameBits(x, y, n + 1)
                 PROVE  x = y
      OBVIOUS
  <2>2. PICK p : p = 2^n
      OBVIOUS
  <2>3. n \in Nat /\ p \in Nat /\ 2^(n + 1) = 2 * p
      BY <2>2, Powers
  <2>4. /\ x \in Nat /\ y \in Nat /\ x \div 2 \in 0 .. 2^n - 1 /\ y \div 2 \in 0 .. 2^n - 1
      BY <2>1, <2>2, <2>3
  <2>5. ASSUME NEW z \in Nat, NEW i \in 0 .. n - 1
        PROVE  (z \div 2) \div 2^i = z \div 2^(i + 1)
    <3>1. i \in Nat /\ 2^i \in Nat \ {0} /\ 2^(i + 1) = 2 * 2^i
        BY <2>3, Powers
    <3>2. QED
        BY <3>1, HalfQuotient
  <2>6. \A i \in 0 .. n - 1 : i + 1 \in 0 .. (n + 1) - 1
      BY <2>3
  <2>7. SameBits(x \div 2, y \div 2, n)
    <3>1. ASSUME NEW i \in 0 .. n - 1
          PROVE  ((x \div 2) \div 2^i) % 2 = ((y \div 2) \div 2^i) % 2
      <4>1. i + 1 \in 0 .. (n + 1) - 1
          BY <2>6
      <4>2. (x \div 2^(i + 1)) % 2 = (y \div 2^(i + 1)) % 2
          BY <2>1, <4>1, Zenon DEF SameBits
      <4>3. (x \div 2) \div 2^i = x \div 2^(i + 1) /\ (y \div 2) \div 2^i = y \div 2^(i + 1)
          BY <2>4, <2>5
      <4>4. QED
          BY <4>2, <4>3, Zenon
    <3>2. QED
        BY <3>1, Zenon DEF SameBits
  <2>8. x \div 2 = y \div 2
      BY <2>4, <2>7
  <2>9. x % 2 = y % 2
    <3>1. 0 \in 0 .. (n + 1) - 1
        BY <2>3
    <3>2. (x \div 2^0) % 2 = (y \div 2^0) % 2
        BY <2>1, <3>1, Zenon DEF SameBits
    <3>3. x \div 1 = x /\ y \div 1 = y
        BY <2>4
    <3>4. QED
        BY <3>2, <3>3, Powers
  <2>10. x = 2 * (x \div 2) + (x % 2) /\ y = 2 * (y \div 2) + (y % 2)
      BY <2>4
  <2>11. QED
      BY <2>8, <2>9, <2>10
<1>3. S = Nat
  <2> HIDE DEF S
  <2>1. S \subseteq Nat
      BY DEF S
  <2>2. QED
      BY <1>1, <1>2, <2>1, AllNumbers
<1>4. QED
    BY <1>3

\* A word holds a number of its width.
LEMMA WordInjective ==
    ASSUME NEW a \in 0 .. 2^Width - 1, NEW b \in 0 .. 2^Width - 1, Word(a) = Word(b)
    PROVE  a = b
<1>1. Width \in Nat
    BY Sm4Assumption
<1>2. ASSUME NEW i \in 0 .. Width - 1
      PROVE  (a \div 2^i) % 2 = (b \div 2^i) % 2
  <2>1. i \in Nat /\ 2^i \in Nat \ {0} /\ 2^Width \in Nat
      BY <1>1, Powers
  <2>2. a \div 2^i \in Nat /\ b \div 2^i \in Nat
      BY <2>1, Quotient
  <2>3. (a \div 2^i) % 2 \in {0, 1} /\ (b \div 2^i) % 2 \in {0, 1}
      BY <2>2
  <2>4. i \in Word(a) <=> (a \div 2^i) % 2 = 1
      BY Zenon DEF Word
  <2>5. i \in Word(b) <=> (b \div 2^i) % 2 = 1
      BY Zenon DEF Word
  <2>6. QED
      BY <2>3, <2>4, <2>5
<1>3. SameBits(a, b, Width)
    BY <1>2 DEF SameBits
<1>4. QED
    BY <1>1, <1>3, BitsDetermine

\* Words that end in the same one are the same.
LEMMA WordsEndIn ==
    ASSUME NEW s \in Seq(Words), NEW t \in Seq(Words), NEW a \in 0 .. 2^Width - 1,
           NEW b \in 0 .. 2^Width - 1, s \o <<Word(a)>> = t \o <<Word(b)>>
    PROVE  s = t /\ a = b
<1>1. Word(a) \in Words /\ Word(b) \in Words
    BY WordsTyped
<1>2. Append(s, Word(a)) = Append(t, Word(b))
    BY <1>1, AppendIsConcat
<1>3. s = t /\ Word(a) = Word(b)
    BY <1>1, <1>2, AppendInjective
<1>4. QED
    BY <1>3, WordInjective

LEMMA WithinWidth == 2^Width \in Nat \ {0} /\ \A n \in 0 .. 2^Width - 1 : n % 2^Width = n
<1>1. PICK p : p = 2^Width
    OBVIOUS
<1>2. p \in Nat \ {0}
    BY <1>1, Powers, Sm4Assumption
<1>3. \A n \in 0 .. p - 1 : n % p = n
    BY <1>2
<1>4. QED
    BY <1>1, <1>2, <1>3

\* An initial vector tells title and counter.
LEMMA NonceInjective ==
    ASSUME NEW s \in [1 .. 2 -> Words], NEW t \in [1 .. 2 -> Words],
           NEW a \in 0 .. 2^Width - 1, NEW b \in 0 .. 2^Width - 1
    PROVE  /\ dlms_security_build_iv(s, a) \in Seq(Words)
           /\ dlms_security_build_iv(s, a) = dlms_security_build_iv(t, b) => s = t /\ a = b
<1>1. s \in Seq(Words) /\ t \in Seq(Words)
    BY FunctionSeq
<1>2. dlms_security_build_iv(s, a) = s \o <<Word(a)>> /\ dlms_security_build_iv(t, b) = t \o <<Word(b)>>
    BY WithinWidth DEF dlms_security_build_iv
<1>3. <<Word(a)>> \in Seq(Words)
    BY WordsTyped
<1>4. s \o <<Word(a)>> \in Seq(Words)
    BY <1>1, <1>3, ConcatProperties
<1>5. QED
    BY <1>1, <1>2, <1>4, WordsEndIn, ZenonT(40)

LEMMA CounterInjective ==
    ASSUME NEW s \in Seq(Words), NEW t \in Seq(Words),
           NEW a \in 0 .. 2^Width - 1, NEW b \in 0 .. 2^Width - 1,
           Counter(s, a) = Counter(t, b)
    PROVE  s = t /\ a = b
<1>1. Counter(s, a) = s \o <<Word(a)>> /\ Counter(t, b) = t \o <<Word(b)>>
    BY WithinWidth DEF Counter
<1>2. QED
    BY <1>1, WordsEndIn

------------------------------------------------------------------------------
(* The key stream. *)

\* A call encrypts the counter blocks from J0 on, one more than the text has.
LEMMA BlocksCounted ==
    ASSUME NEW iv, NEW text, Len(text) \in Nat, DOMAIN text = 1 .. Len(text)
    PROVE  CounterBlocks(iv, text) = {Counter(iv, j) : j \in 1 .. Len(text) + 1}
<1> DEFINE C(j) == Counter(iv, j)
           A == {C(J0)} \cup {C(gcm_inc32(J0) + i - 1) : i \in DOMAIN text}
           B == {C(j) : j \in 1 .. Len(text) + 1}
<1>1. \A i \in 1 .. Len(text) : gcm_inc32(J0) + i - 1 = i + 1
    BY DEF gcm_inc32, J0
<1> HIDE DEF C
<1>2. ASSUME NEW x \in A PROVE x \in B
    BY <1>1 DEF J0
<1>3. ASSUME NEW x \in B PROVE x \in A
  <2>1. PICK j \in 1 .. Len(text) + 1 : x = C(j)
      OBVIOUS
  <2>2. CASE j = 1
      BY <2>1, <2>2 DEF J0
  <2>3. CASE j # 1
    <3>1. j - 1 \in 1 .. Len(text) /\ (j - 1) + 1 = j
        BY <2>3
    <3>2. x = C(gcm_inc32(J0) + (j - 1) - 1)
        BY <1>1, <2>1, <3>1
    <3>3. QED
        BY <3>1, <3>2
  <2>4. QED
      BY <2>2, <2>3
<1>4. A = B
  <2> HIDE DEF A, B
  <2>1. QED
      BY <1>2, <1>3
<1>5. QED
    BY <1>4 DEF CounterBlocks, C

LEMMA BlocksDistinct ==
    ASSUME NEW iv \in Seq(Words), NEW n \in Nat, n + 1 < 2^Width
    PROVE  Cardinality({Counter(iv, j) : j \in 1 .. n + 1}) = 1 + n
<1> DEFINE B == {Counter(iv, j) : j \in 1 .. n + 1}
           F == [j \in 1 .. n + 1 |-> Counter(iv, j)]
<1>1. F \in [1 .. n + 1 -> B] /\ \A x \in B : \E j \in 1 .. n + 1 : F[j] = x
    OBVIOUS
<1>2. ASSUME NEW i \in 1 .. n + 1, NEW j \in 1 .. n + 1, F[i] = F[j]
      PROVE  i = j
  <2>1. i \in 0 .. 2^Width - 1 /\ j \in 0 .. 2^Width - 1
      BY WithinWidth
  <2>2. Counter(iv, i) = Counter(iv, j)
      BY <1>2
  <2>3. QED
      BY <2>1, <2>2, CounterInjective
<1> HIDE DEF B, F
<1>3. ExistsBijection(1 .. n + 1, B)
    BY <1>1, <1>2 DEF ExistsBijection, Bijection, Injection, Surjection, IsInjective
<1>4. IsFiniteSet(1 .. n + 1) /\ Cardinality(1 .. n + 1) = n + 1
    BY FS_Interval
<1>5. Cardinality(B) = n + 1
    BY <1>3, <1>4, FS_Bijection
<1>6. QED
    BY <1>5 DEF B

LEMMA Bounded ==
    ASSUME TypeOK, NEW m \in wire
    PROVE  m.sender \in Ends /\ m.counter \in 0 .. 2^Width - 1
    BY SecurityAssumption DEF TypeOK

\* Messages that differ in title or counter have different counter blocks.
LEMMA Unshared ==
    ASSUME TypeOK, NEW m \in wire, NEW o \in wire,
           <<o.sender, o.counter>> # <<m.sender, m.counter>>,
           NEW k \in Nat, NEW l \in Nat, k + 1 < 2^Width, l + 1 < 2^Width
    PROVE  /\ Nonce(m.sender, m.counter) \in Seq(Words)
           /\ {Counter(Nonce(m.sender, m.counter), j) : j \in 1 .. k + 1}
                 \cap {Counter(Nonce(o.sender, o.counter), j) : j \in 1 .. l + 1} = {}
<1>1. \A p \in wire : /\ p.sender \in Ends /\ Title[p.sender] \in [1 .. 2 -> Words]
                      /\ p.counter \in 0 .. 2^Width - 1
    BY Bounded, SecurityAssumption
<1>2. \A p \in wire : Nonce(p.sender, p.counter) \in Seq(Words)
    BY <1>1, NonceInjective DEF Nonce
<1>3. Nonce(m.sender, m.counter) # Nonce(o.sender, o.counter)
  <2>1. SUFFICES ASSUME Nonce(m.sender, m.counter) = Nonce(o.sender, o.counter) PROVE FALSE
      OBVIOUS
  <2>2. Title[m.sender] = Title[o.sender] /\ m.counter = o.counter
      BY <1>1, <2>1, NonceInjective DEF Nonce
  <2>3. m.sender = o.sender
      BY <1>1, <2>2, SecurityAssumption
  <2>4. QED
      BY <2>2, <2>3
<1>4. ASSUME NEW i \in 1 .. k + 1, NEW j \in 1 .. l + 1
      PROVE  Counter(Nonce(m.sender, m.counter), i) # Counter(Nonce(o.sender, o.counter), j)
  <2>1. i \in 0 .. 2^Width - 1 /\ j \in 0 .. 2^Width - 1
      BY WithinWidth
  <2>2. QED
      BY <1>2, <1>3, <2>1, CounterInjective
<1>5. QED
    BY <1>2, <1>4

LEMMA FreshBlocks == TypeOK /\ WireInv => FreshKeystream
<1> SUFFICES ASSUME TypeOK, WireInv PROVE FreshKeystream
    OBVIOUS
<1> DEFINE ciphered(m) == IF m.method = "gmac" THEN <<>> ELSE m.text
           blocks(m) == CounterBlocks(Nonce(m.sender, m.counter), ciphered(m))
<1>1. ASSUME NEW m \in wire
      PROVE  /\ Len(ciphered(m)) \in Nat /\ DOMAIN ciphered(m) = 1 .. Len(ciphered(m))
             /\ Len(ciphered(m)) + 1 < 2^Width
  <2>1. m.text \in Texts /\ m.text \in PlainTexts
      BY TextsPlain DEF WireInv, Sent
  <2>2. 1 < 2^Width
    <3>1. Width - 1 \in Nat /\ Width = (Width - 1) + 1
        BY Sm4Assumption
    <3>2. PICK w \in Nat : Width = w + 1
        BY <3>1
    <3>3. 2^w \in Nat \ {0} /\ 2^(w + 1) = 2 * 2^w
        BY Powers
    <3>4. QED
        BY <3>2, <3>3
  <2>3. QED
      BY <2>1, <2>2, SecurityAssumption DEF PlainTexts
<1>2. \A m \in wire : blocks(m) = {Counter(Nonce(m.sender, m.counter), j) : j \in 1 .. Len(ciphered(m)) + 1}
  <2> HIDE DEF ciphered
  <2>1. QED
      BY <1>1, BlocksCounted
<1>3. \A m \in wire : Nonce(m.sender, m.counter) \in Seq(Words)
  <2>1. TAKE m \in wire
  <2>2. m.sender \in Ends /\ m.counter \in 0 .. 2^Width - 1
      BY Bounded
  <2>3. QED
      BY <2>2, SecurityAssumption, NonceInjective DEF Nonce
<1> HIDE DEF ciphered
<1>4. \A m \in wire : Cardinality(blocks(m)) = 1 + Len(ciphered(m))
  <2> HIDE DEF blocks
  <2>1. QED
      BY <1>1, <1>2, <1>3, BlocksDistinct
<1>5. \A m, o \in wire : <<o.sender, o.counter>> # <<m.sender, m.counter>>
                            => blocks(m) \cap blocks(o) = {}
  <2> HIDE DEF blocks
  <2>1. QED
      BY <1>1, <1>2, <1>3, Unshared
<1>6. QED
    BY <1>4, <1>5 DEF FreshKeystream, ciphered

\* GCM encrypts different counter blocks within a message, and for messages with
\* different titles or counters: the numbering from J0 on, and the initial vector,
\* do not repeat before the counter wraps, which no text is long enough for.  That
\* messages get different counters is left to the applications.
THEOREM SecurityFreshKeystream == Spec => []FreshKeystream
<1>1. Init => TypeOK /\ WireInv
    BY SecurityInitTyped, WireInit
<1>2. TypeOK /\ WireInv /\ [Next]_vars => TypeOK' /\ WireInv'
    BY SecurityTypeStep, WireStep
<1>3. QED
    BY <1>1, <1>2, FreshBlocks, PTL DEF Spec

------------------------------------------------------------------------------
(* Tags. *)

\* A sequence in two parts, of which the first has a known length.
LEMMA Split ==
    ASSUME NEW S, NEW s \in Seq(S), NEW t \in Seq(S), NEW u \in Seq(S), NEW v \in Seq(S),
           Len(s) = Len(t), s \o u = t \o v
    PROVE  s = t /\ u = v
<1>1. /\ Len(s \o u) = Len(s) + Len(u) /\ Len(t \o v) = Len(t) + Len(v)
      /\ Len(s) \in Nat /\ Len(u) \in Nat /\ Len(v) \in Nat
    BY ConcatProperties, LenProperties
<1>2. Len(u) = Len(v)
    BY <1>1
<1>3. \A i \in 1 .. Len(s) : s[i] = t[i]
  <2>1. TAKE i \in 1 .. Len(s)
  <2>2. i \in 1 .. Len(s) + Len(u) /\ i <= Len(s)
      BY <1>1
  <2>3. (s \o u)[i] = s[i] /\ (t \o v)[i] = t[i]
      BY <1>1, <1>2, <2>2, ConcatProperties
  <2>4. QED
      BY <2>3
<1>4. s = t
    BY <1>3, SeqEqual
<1>5. \A i \in 1 .. Len(u) : u[i] = v[i]
  <2>1. TAKE i \in 1 .. Len(u)
  <2>2. PICK j : j = Len(s) + i
      OBVIOUS
  <2>3. j \in 1 .. Len(s) + Len(u) /\ ~(j <= Len(s)) /\ j - Len(s) = i
      BY <1>1, <2>2
  <2>4. (s \o u)[j] = u[j - Len(s)] /\ (t \o v)[j] = v[j - Len(t)]
      BY <1>2, <2>3, ConcatProperties
  <2>5. QED
      BY <2>3, <2>4
<1>6. QED
    BY <1>2, <1>4, <1>5, SeqEqual

\* The bytes of a text of which only the last block is short tell its blocks.
WellCut(text) == text \in PlainTexts /\ \A i \in 1 .. Len(text) - 1 : Len(text[i]) = 4

LEMMA TextSize ==
    ASSUME NEW text, WellCut(text)
    PROVE  /\ Len(text) \in Nat /\ Size(text) \in Nat
           /\ 4 * (Len(text) - 1) < Size(text) \/ Len(text) = 0
           /\ Size(text) <= 4 * Len(text)
           /\ Flat(text) \in Seq(Words) /\ Len(Flat(text)) = Size(text)
           /\ \A i \in 1 .. Len(text) :
                 /\ text[i] \in Seq(Words)
                 /\ Len(text[i]) = IF i < Len(text) THEN 4 ELSE Size(text) - 4 * (Len(text) - 1)
                 /\ Len(text[i]) \in 1 .. 4
                 /\ \A j \in 1 .. Len(text[i]) :
                       /\ 4 * (i - 1) + j \in 1 .. Size(text)
                       /\ Flat(text)[4 * (i - 1) + j] = text[i][j]
<1>1. Len(text) \in Nat /\ (text = <<>> <=> Len(text) = 0)
    BY DEF WellCut, PlainTexts
<1>2. ASSUME NEW i \in 1 .. Len(text)
      PROVE  text[i] \in Seq(Words) /\ Len(text[i]) \in 1 .. 4 /\ (i < Len(text) => Len(text[i]) = 4)
  <2>1. PICK n \in 1 .. 4 : text[i] \in [1 .. n -> Words]
      BY DEF WellCut, PlainTexts
  <2>2. text[i] \in Seq(Words) /\ Len(text[i]) = n
      BY <2>1, FunctionSeq
  <2>3. i < Len(text) => i \in 1 .. Len(text) - 1
      BY <1>1
  <2>4. QED
      BY <2>2, <2>3 DEF WellCut
<1>3. /\ Size(text) \in Nat /\ Size(text) <= 4 * Len(text)
      /\ 4 * (Len(text) - 1) < Size(text) \/ Len(text) = 0
      /\ Len(text) # 0 => Len(text[Len(text)]) = Size(text) - 4 * (Len(text) - 1)
  <2>1. CASE Len(text) = 0
      BY <1>1, <2>1 DEF Size
  <2>2. CASE Len(text) # 0
    <3>1. Len(text) \in 1 .. Len(text)
        BY <1>1, <2>2
    <3>2. PICK l : l = Len(text[Len(text)])
        OBVIOUS
    <3>3. l \in 1 .. 4 /\ Size(text) = 4 * (Len(text) - 1) + l
        BY <1>1, <1>2, <2>2, <3>1, <3>2 DEF Size
    <3>4. PICK n : n = Len(text)
        OBVIOUS
    <3>5. PICK z : z = Size(text)
        OBVIOUS
    <3>6. n \in Nat /\ n # 0 /\ l \in 1 .. 4 /\ z = 4 * (n - 1) + l
        BY <1>1, <2>2, <3>3, <3>4, <3>5
    <3>7. z \in Nat /\ z <= 4 * n /\ 4 * (n - 1) < z /\ l = z - 4 * (n - 1)
        BY <3>6
    <3>8. QED
        BY <3>2, <3>4, <3>5, <3>7
  <2>3. QED
      BY <2>1, <2>2
<1>4. ASSUME NEW p \in 1 .. Size(text)
      PROVE  text[((p - 1) \div 4) + 1][((p - 1) % 4) + 1] \in Words
  <2>1. PICK i : i = ((p - 1) \div 4) + 1
      OBVIOUS
  <2>2. PICK j : j = ((p - 1) % 4) + 1
      OBVIOUS
  <2>3. p \in Nat /\ i \in Nat /\ j \in 1 .. 4 /\ p = 4 * (i - 1) + j /\ i >= 1
      BY <1>3, <2>1, <2>2
  <2>4. i \in 1 .. Len(text)
      BY <1>1, <1>3, <2>3
  <2>5. j \in 1 .. Len(text[i])
    <3>1. CASE i < Len(text)
        BY <1>2, <2>3, <2>4, <3>1
    <3>2. CASE i = Len(text)
        BY <1>1, <1>3, <2>3, <2>4, <3>2
    <3>3. QED
        BY <1>1, <2>4, <3>1, <3>2
  <2>6. text[i][j] \in Words
      BY <1>2, <2>4, <2>5, ElementOfSeq
  <2>7. QED
      BY <2>1, <2>2, <2>6
<1>5. Flat(text) \in [1 .. Size(text) -> Words]
    BY <1>4 DEF Flat
<1>6. Flat(text) \in Seq(Words) /\ Len(Flat(text)) = Size(text)
    BY <1>3, <1>5, FunctionSeq
<1>7. ASSUME NEW i \in 1 .. Len(text), NEW j \in 1 .. Len(text[i])
      PROVE  4 * (i - 1) + j \in 1 .. Size(text) /\ Flat(text)[4 * (i - 1) + j] = text[i][j]
  <2>1. PICK l : l = Len(text[i])
      OBVIOUS
  <2>2. l \in 1 .. 4 /\ j \in 1 .. l /\ (i < Len(text) => l = 4)
        /\ (i = Len(text) => l = Size(text) - 4 * (Len(text) - 1))
      BY <1>1, <1>2, <1>3, <2>1
  <2>3. PICK p : p = 4 * (i - 1) + j
      OBVIOUS
  <2>4. p \in 1 .. Size(text)
      BY <1>1, <1>3, <2>2, <2>3
  <2>5. ((p - 1) \div 4) + 1 = i /\ ((p - 1) % 4) + 1 = j
      BY <2>2, <2>3
  <2>6. Flat(text)[p] = text[((p - 1) \div 4) + 1][((p - 1) % 4) + 1]
      BY <2>4 DEF Flat
  <2>7. QED
      BY <2>3, <2>4, <2>5, <2>6
<1>8. ASSUME NEW i \in 1 .. Len(text)
      PROVE  Len(text[i]) = IF i < Len(text) THEN 4 ELSE Size(text) - 4 * (Len(text) - 1)
  <2>1. i < Len(text) \/ (i = Len(text) /\ Len(text) # 0)
      BY <1>1
  <2>2. QED
      BY <1>2, <1>3, <2>1
<1>9. QED
    BY <1>1, <1>2, <1>3, <1>6, <1>7, <1>8

LEMMA FlatInjective ==
    ASSUME NEW s, NEW t, WellCut(s), WellCut(t), Flat(s) = Flat(t)
    PROVE  s = t
<1>1. Size(s) = Size(t)
    BY TextSize
<1>2. Len(s) = Len(t)
  <2>1. PICK k : k = Len(s)
      OBVIOUS
  <2>2. PICK l : l = Len(t)
      OBVIOUS
  <2>3. PICK n : n = Size(s)
      OBVIOUS
  <2>4. /\ k \in Nat /\ l \in Nat /\ n \in Nat /\ n <= 4 * k /\ n <= 4 * l
        /\ 4 * (k - 1) < n \/ k = 0
        /\ 4 * (l - 1) < n \/ l = 0
      BY <1>1, <2>1, <2>2, <2>3, TextSize
  <2>5. k = l
      BY <2>4
  <2>6. QED
      BY <2>1, <2>2, <2>5
<1>3. ASSUME NEW i \in 1 .. Len(s) PROVE s[i] = t[i]
  <2>1. Len(s[i]) = Len(t[i]) /\ s[i] \in Seq(Words) /\ t[i] \in Seq(Words)
      BY <1>1, <1>2, TextSize
  <2>2. ASSUME NEW j \in 1 .. Len(s[i]) PROVE s[i][j] = t[i][j]
    <3>1. Flat(s)[4 * (i - 1) + j] = s[i][j]
        BY TextSize
    <3>2. Flat(t)[4 * (i - 1) + j] = t[i][j]
        BY <1>2, <2>1, TextSize
    <3>3. QED
        BY <3>1, <3>2
  <2>3. QED
      BY <2>1, <2>2, SeqEqual
<1>4. QED
    BY <1>2, <1>3, SeqEqual DEF WellCut, PlainTexts

LEMMA AuthKeyTyped ==
    ASSUME NEW sc, NEW k \in KeyArrays
    PROVE  AuthKey(sc, k) \in Seq(Words) /\ Len(AuthKey(sc, k)) = AuthLength(sc)
<1>1. AuthLength(sc) \in 1 .. 8
    BY DEF AuthLength
<1>2. \A i \in 1 .. AuthLength(sc) : k.auth[i] \in Words
    BY <1>1 DEF KeyArrays
<1>3. QED
    BY <1>1, <1>2, SubSeqProperties DEF AuthKey

\* The additional data of a GMAC tell authentication key and text.
Authenticated(sc, k, data) == Aad(sc, k) \o Flat(data)

LEMMA AadInjective ==
    ASSUME NEW sc, NEW k \in KeyArrays, NEW l \in KeyArrays, NEW s, NEW t, WellCut(s), WellCut(t),
           Authenticated(sc, k, s) = Authenticated(sc, l, t)
    PROVE  AuthKey(sc, k) = AuthKey(sc, l) /\ s = t
<1> DEFINE c == dlms_security_control_encode(sc)
           V == Words \cup {c}
           ak == AuthKey(sc, k)
           al == AuthKey(sc, l)
<1>1. /\ ak \in Seq(V) /\ al \in Seq(V) /\ Len(ak) = Len(al)
      /\ Flat(s) \in Seq(V) /\ Flat(t) \in Seq(V)
  <2>1. Words \subseteq V
      OBVIOUS
  <2>2. ak \in Seq(Words) /\ al \in Seq(Words) /\ Len(ak) = Len(al)
      BY AuthKeyTyped
  <2>3. Flat(s) \in Seq(Words) /\ Flat(t) \in Seq(Words)
      BY TextSize
  <2> HIDE DEF V, ak, al
  <2>4. QED
      BY <2>1, <2>2, <2>3, SeqMonotonic
<1>2. <<c>> \in Seq(V)
    OBVIOUS
<1>3. Aad(sc, k) = <<c>> \o ak /\ Aad(sc, l) = <<c>> \o al
    BY DEF Aad
<1>4. PICK one : one = <<c>>
    OBVIOUS
<1> HIDE DEF c, V, ak, al
<1>5. one \o ak \in Seq(V) /\ one \o al \in Seq(V) /\ Len(one \o ak) = Len(one \o al)
    BY <1>1, <1>2, <1>4, ConcatProperties
<1>6. (one \o ak) \o Flat(s) = (one \o al) \o Flat(t)
    BY <1>3, <1>4 DEF Authenticated
<1>7. one \o ak = one \o al /\ Flat(s) = Flat(t)
  <2>1. PICK x : x = one \o ak
      OBVIOUS
  <2>2. PICK y : y = one \o al
      OBVIOUS
  <2>3. PICK u : u = Flat(s)
      OBVIOUS
  <2>4. PICK v : v = Flat(t)
      OBVIOUS
  <2>5. x \in Seq(V) /\ y \in Seq(V) /\ u \in Seq(V) /\ v \in Seq(V) /\ Len(x) = Len(y)
      BY <1>1, <1>5, <2>1, <2>2, <2>3, <2>4
  <2>6. x \o u = y \o v
      BY <1>6, <2>1, <2>2, <2>3, <2>4
  <2>7. x = y /\ u = v
      BY <2>5, <2>6, Split, Zenon
  <2>8. QED
      BY <2>1, <2>2, <2>3, <2>4, <2>7
<1>8. ak = al
  <2>1. PICK two : two = one
      OBVIOUS
  <2>2. one \in Seq(V) /\ two \in Seq(V) /\ Len(one) = Len(two)
      BY <1>2, <1>4, <2>1
  <2>3. one \o ak = two \o al
      BY <1>7, <2>1
  <2>4. QED
      BY <1>1, <2>2, <2>3, Split, Zenon
<1>9. QED
    BY <1>7, <1>8, FlatInjective DEF ak, al

\* Equal tags were made with equal keys, counters and data.
LEMMA GmacInjective ==
    ASSUME NEW sc, NEW title \in [1 .. 2 -> Words], NEW a \in 0 .. 2^Width - 1,
           NEW b \in 0 .. 2^Width - 1, NEW k \in KeyArrays, NEW l \in KeyArrays,
           NEW s, NEW t, WellCut(s), WellCut(t)
    PROVE  dlms_security_gmac(sc, title, a, k, s) = dlms_security_gmac(sc, title, b, l, t) <=>
               /\ a = b /\ s = t
               /\ CipherKey(k) = CipherKey(l) /\ AuthKey(sc, k) = AuthKey(sc, l)
<1> DEFINE iv(n) == dlms_security_build_iv(title, n)
           out(n, key, data) == sm4_gctr(RoundKeys(Cipher(sc), CipherKey(key)), iv(n), gcm_inc32(J0), <<>>)
           tag(n, key, data) ==
               [mask |-> <<Cipher(sc), CipherKey(key), iv(n)>>,
                hash |-> [H |-> <<Cipher(sc), CipherKey(key)>>, aad |-> Authenticated(sc, key, data),
                          text |-> out(n, key, data)]]
<1>1. \A n, key, data : dlms_security_gmac(sc, title, n, key, data) = tag(n, key, data)
    BY DEF dlms_security_gmac, Authenticated, gmac, gcm_encrypt, sm4_ghash, HashKey
<1>2. \A n, key, data : out(n, key, data) = <<>>
    BY DEF sm4_gctr
<1>3. tag(a, k, s) = tag(b, l, t) <=>
          /\ CipherKey(k) = CipherKey(l) /\ iv(a) = iv(b)
          /\ Authenticated(sc, k, s) = Authenticated(sc, l, t)
  <2> HIDE DEF out, iv
  <2>1. QED
      BY <1>2
<1>4. iv(a) = iv(b) <=> a = b
    BY NonceInjective
<1>5. Authenticated(sc, k, s) = Authenticated(sc, l, t) <=> AuthKey(sc, k) = AuthKey(sc, l) /\ s = t
  <2>1. ASSUME AuthKey(sc, k) = AuthKey(sc, l), s = t
        PROVE  Authenticated(sc, k, s) = Authenticated(sc, l, t)
    <3>1. Aad(sc, k) = Aad(sc, l)
        BY <2>1 DEF Aad
    <3>2. QED
        BY <2>1, <3>1, Zenon DEF Authenticated
  <2>2. ASSUME Authenticated(sc, k, s) = Authenticated(sc, l, t)
        PROVE  AuthKey(sc, k) = AuthKey(sc, l) /\ s = t
      BY <2>2, AadInjective
  <2>3. QED
      BY <2>1, <2>2, Zenon
<1> HIDE DEF tag, iv
<1>6. QED
    BY <1>1, <1>3, <1>4, <1>5

LEMMA TextsWellCut == \A text \in Texts : WellCut(text)
    BY TextsPlain, SecurityAssumption DEF WellCut

\* Of what arrived, and of what it was made from.
LEMMA Judged ==
    ASSUME TypeOK, WireInv, NEW m \in wire, NEW e \in Ends, NEW n \in Counters,
           NEW data \in Texts, verify(e, m, n, data)
    PROVE  TagBinds'
<1> SUFFICES ASSUME m.sc.suite < 16
             PROVE  result'.code = "OK" <=>
                        /\ result'.call = "verify"
                        /\ CipherKey(keys[e]) = CipherKey(m.keys)
                        /\ AuthKey(m.sc, keys[e]) = AuthKey(m.sc, m.keys)
    BY Calls DEF About, TagBinds, SameCipherKey
<1>1. Sent(m)
    BY DEF WireInv
<1>2. dlms_security_control_decode(m.control) = m.sc
    BY <1>1, ControlSurvives DEF Sent
<1>3. m.tag = dlms_security_gmac(m.sc, Title[m.sender], m.counter, m.keys, m.text)
    BY <1>1 DEF verify, Sent
<1>4. /\ result'.code = "OK" <=>
            dlms_security_gmac(m.sc, Title[m.sender], n, keys[e], data) = m.tag
      /\ result'.call = "verify" <=> n = m.counter /\ data = m.text
    BY <1>2 DEF verify, Received
<1>5. /\ Title[m.sender] \in [1 .. 2 -> Words] /\ keys[e] \in KeyArrays /\ m.keys \in KeyArrays
      /\ m.counter \in 0 .. 2^Width - 1 /\ n \in 0 .. 2^Width - 1
    BY Bounded, SecurityAssumption, ZenonT(40) DEF TypeOK, KeyArrays
<1>6. WellCut(data) /\ WellCut(m.text)
    BY <1>1, TextsWellCut DEF Sent
<1>7. dlms_security_gmac(m.sc, Title[m.sender], n, keys[e], data) = m.tag <=>
          /\ n = m.counter /\ data = m.text
          /\ CipherKey(keys[e]) = CipherKey(m.keys)
          /\ AuthKey(m.sc, keys[e]) = AuthKey(m.sc, m.keys)
    BY <1>3, <1>5, <1>6, GmacInjective
<1>8. QED
    BY <1>4, <1>7

LEMMA TagBindsStep == TypeOK /\ WireInv /\ TagBinds /\ [Next]_vars => TagBinds'
<1> SUFFICES ASSUME TypeOK, WireInv, TagBinds, [Next]_vars PROVE TagBinds'
    OBVIOUS
<1>1. CASE result' = result
    BY <1>1 DEF TagBinds, SameCipherKey
<1>2. CASE result'.call \notin {"verify", "verify altered"}
    BY <1>2 DEF TagBinds
<1>3. ASSUME NEW m \in wire, NEW e \in Ends, Receives(m, e) PROVE TagBinds'
  <2>1. CASE \E n \in Counters, data \in Texts : verify(e, m, n, data)
      BY <2>1, Judged
  <2>2. CASE \E fits \in BOOLEAN : decrypt(e, m, fits)
      BY <1>2, <2>2, Calls
  <2>3. CASE \E in_place \in BOOLEAN : decipher(e, m, in_place)
      BY <1>2, <2>3, Calls
  <2>4. QED
      BY <1>3, <2>1, <2>2, <2>3 DEF Receives
<1>4. QED
    BY <1>1, <1>2, <1>3, ResultStep

\* A GMAC is found right exactly when keys, counter and data are those it was made from.
THEOREM SecurityTagBinds == Spec => []TagBinds
<1> DEFINE Inv == TypeOK /\ WireInv /\ TagBinds
<1>1. Init => Inv
    BY SecurityInitTyped, WireInit DEF Init, Nothing, TagBinds
<1>2. Inv /\ [Next]_vars => Inv'
    BY SecurityTypeStep, WireStep, TagBindsStep
<1>3. QED
    BY <1>1, <1>2, PTL DEF Spec

==============================================================================
