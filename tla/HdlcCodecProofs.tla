--------------------------- MODULE HdlcCodecProofs ---------------------------
(***************************************************************************)
(* What the bytes of a frame are and that dlms_hdlc_frame_decode finds the *)
(* frame in them: lemmas about HdlcCodec, for any information, addresses   *)
(* and sequence numbers that the encoding can express.                     *)
(***************************************************************************)
EXTENDS HdlcCodec, SequenceTheorems, WellFoundedInduction, TLAPS

------------------------------------------------------------------------------
(* Induction over the natural numbers in a form that can be cited: with the *)
(* set of the numbers that have a property.                                *)

\* A set of numbers has a least one.
LEMMA Smallest ==
    ASSUME NEW S, S \subseteq Nat, S # {}
    PROVE  \E x \in S : \A y \in S : x <= y
<1> DEFINE R == {p \in Nat \X Nat : p[1] < p[2]}
<1>1. IsWellFoundedOn(R, Nat)
    BY NatLessThanWellFounded DEF OpToRel
<1>2. \A x, y \in Nat : y < x => <<y, x>> \in R
    OBVIOUS
<1> HIDE DEF R
<1>3. PICK x \in S : \A y \in S : ~(<<y, x>> \in R)
    BY <1>1, WFMin
<1>4. \A y \in S : ~(y < x)
    BY <1>2, <1>3
<1>5. QED
    BY <1>3, <1>4

\* Induction: a set with 0 that has with each number the next has all numbers.
LEMMA AllNumbers ==
    ASSUME NEW S, S \subseteq Nat, 0 \in S, \A n \in S : n + 1 \in S
    PROVE  S = Nat
<1>1. SUFFICES ASSUME Nat \ S # {} PROVE FALSE
    OBVIOUS
<1>2. PICK x \in Nat \ S : \A y \in Nat \ S : x <= y
    BY <1>1, Smallest
<1>3. x # 0 /\ x - 1 \in Nat /\ ~(x <= x - 1)
    BY <1>2
<1>4. x - 1 \in S
    BY <1>2, <1>3
<1>5. (x - 1) + 1 \in S
    BY <1>4
<1>6. QED
    BY <1>2, <1>5

\* f is the way from x when each number takes the state a step further.
Goes(f, S, x, next) ==
    /\ f \in [Nat -> S] /\ f[0] = x
    /\ \A n \in Nat : f[n + 1] = next[n][f[n]]

\* Recursion: there is such a way.
LEMMA Recursion ==
    ASSUME NEW S, NEW x \in S, NEW next \in [Nat -> [S -> S]]
    PROVE  \E f : Goes(f, S, x, next)
<1> DEFINE Upto(n, f) == f[0] = x /\ \A m \in Nat : m < n => f[m + 1] = next[m][f[m]]
           D == {n \in Nat : \E f \in [Nat -> S] : Upto(n, f)}
<1>1. 0 \in D
  <2>1. [n \in Nat |-> x] \in [Nat -> S] /\ Upto(0, [n \in Nat |-> x])
      OBVIOUS
  <2>2. QED
      BY <2>1
<1>2. ASSUME NEW n \in D PROVE n + 1 \in D
  <2>1. PICK f \in [Nat -> S] : Upto(n, f)
      OBVIOUS
  <2> DEFINE g == [f EXCEPT ![n + 1] = next[n][f[n]]]
  <2>2. n \in Nat /\ next[n][f[n]] \in S
      OBVIOUS
  <2>3. g \in [Nat -> S] /\ g[n + 1] = next[n][f[n]] /\ \A m \in Nat : m # n + 1 => g[m] = f[m]
      BY <2>2
  <2> HIDE DEF g
  <2>4. g[0] = x
      BY <2>1, <2>2, <2>3
  <2>5. ASSUME NEW m \in Nat, m < n + 1 PROVE g[m + 1] = next[m][g[m]]
    <3>1. m # n + 1 /\ g[m] = f[m]
        BY <2>2, <2>3, <2>5
    <3>2. CASE m = n
        BY <2>3, <3>1, <3>2
    <3>3. CASE m # n
      <4>1. m < n /\ m + 1 # n + 1
          BY <2>2, <2>5, <3>3
      <4>2. QED
          BY <2>1, <2>3, <3>1, <4>1
    <3>4. QED
        BY <3>2, <3>3
  <2>6. Upto(n + 1, g)
      BY <2>4, <2>5
  <2> HIDE DEF Upto
  <2>7. QED
      BY <2>2, <2>3, <2>6
<1>3. D = Nat
  <2> HIDE DEF D
  <2>1. D \subseteq Nat
      BY DEF D
  <2>2. QED
      BY <1>1, <1>2, <2>1, AllNumbers
<1> DEFINE F == [n \in Nat |-> CHOOSE f \in [Nat -> S] : Upto(n, f)]
           f == [n \in Nat |-> F[n][n]]
<1>4. \A n \in Nat : F[n] \in [Nat -> S] /\ Upto(n, F[n])
  <2> HIDE DEF Upto
  <2>1. \A n \in Nat : \E h \in [Nat -> S] : Upto(n, h)
      BY <1>3
  <2>2. QED
      BY <2>1
<1> HIDE DEF F
<1>5. ASSUME NEW n \in Nat PROVE \A m \in Nat : m <= n => F[n][m] = F[m][m]
  <2> DEFINE E == {m \in Nat : m <= n => \A k \in Nat : m <= k => F[k][m] = F[n][m]}
  <2>1. 0 \in E
      BY <1>4
  <2>2. ASSUME NEW m \in E PROVE m + 1 \in E
    <3>1. SUFFICES ASSUME m + 1 <= n, NEW k \in Nat, m + 1 <= k PROVE F[k][m + 1] = F[n][m + 1]
        OBVIOUS
    <3>2. m \in Nat /\ m < n /\ m <= k /\ m < k
        BY <3>1
    <3>3. F[k][m] = F[n][m]
        BY <3>2
    <3>4. F[k][m + 1] = next[m][F[k][m]] /\ F[n][m + 1] = next[m][F[n][m]]
        BY <1>4, <3>2
    <3>5. QED
        BY <3>3, <3>4
  <2>3. E = Nat
    <3> HIDE DEF E
    <3>1. E \subseteq Nat
        BY DEF E
    <3>2. QED
        BY <2>1, <2>2, <3>1, AllNumbers
  <2>4. QED
      BY <2>3
<1>6. f \in [Nat -> S] /\ f[0] = x
    BY <1>4
<1>7. ASSUME NEW n \in Nat PROVE f[n + 1] = next[n][f[n]]
  <2>1. F[n + 1][n + 1] = next[n][F[n + 1][n]]
      BY <1>4
  <2>2. F[n + 1][n] = F[n][n]
      BY <1>5
  <2>3. QED
      BY <2>1, <2>2
<1>8. Goes(f, S, x, next)
    BY <1>6, <1>7 DEF Goes
<1>9. QED
    BY <1>8

------------------------------------------------------------------------------
(* Runs over bytes. *)

\* What a run over s does, byte by byte.
RunsAs(f, S, step, x, s) ==
    /\ f \in [Nat -> S] /\ f[0] = x
    /\ \A n \in Nat : n < Len(s) => f[n + 1] = step[f[n]][s[n + 1]]

\* G has the way of every state from byte k + 1 on.
Later(next, k) == [n \in Nat |-> next[k + n]]
Paths(G, S, next) == \A k \in Nat, y \in S : Goes(G[k][y], S, y, Later(next, k))

LEMMA PathsExist ==
    ASSUME NEW S, NEW next \in [Nat -> [S -> S]]
    PROVE  \E G : Paths(G, S, next)
<1>1. ASSUME NEW k \in Nat PROVE Later(next, k) \in [Nat -> [S -> S]]
  <2>1. \A n \in Nat : k + n \in Nat
      OBVIOUS
  <2>2. QED
      BY <2>1 DEF Later
<1>2. ASSUME NEW k \in Nat, NEW y \in S PROVE \E g : Goes(g, S, y, Later(next, k))
  <2>1. Later(next, k) \in [Nat -> [S -> S]]
      BY <1>1
  <2>2. QED
      BY <2>1, Recursion
<1>3. PICK G : G = [k \in Nat |-> [y \in S |-> CHOOSE g : Goes(g, S, y, Later(next, k))]]
    OBVIOUS
<1>4. ASSUME NEW k \in Nat, NEW y \in S PROVE Goes(G[k][y], S, y, Later(next, k))
  <2>1. G[k][y] = CHOOSE g : Goes(g, S, y, Later(next, k))
      BY <1>3
  <2>2. QED
      BY <1>2, <2>1
<1>5. Paths(G, S, next)
    BY <1>4, Zenon DEF Paths
<1>6. QED
    BY <1>5

PathAt(g, S, next, k, y) ==
    /\ g \in [Nat -> S] /\ g[0] = y
    /\ \A n \in Nat : g[n] \in S /\ g[n + 1] = next[k + n][g[n]]

LEMMA PathIs ==
    ASSUME NEW S, NEW next, NEW G, Paths(G, S, next), NEW k \in Nat, NEW y \in S
    PROVE  PathAt(G[k][y], S, next, k, y)
<1>1. PICK g : g = G[k][y]
    OBVIOUS
<1>2. Goes(g, S, y, Later(next, k))
    BY <1>1, Zenon DEF Paths
<1>3. /\ g \in [Nat -> S] /\ g[0] = y
      /\ \A n \in Nat : g[n + 1] = next[k + n][g[n]]
    BY <1>2 DEF Goes, Later
<1>4. \A n \in Nat : g[n] \in S
    BY <1>3
<1>5. PathAt(g, S, next, k, y)
    BY <1>3, <1>4 DEF PathAt
<1>6. QED
    BY <1>1, <1>5

\* A path goes on as the path from where it has come to.
GoesOn(G, k, y, m, n) == G[k][y][m + n] = G[k + m][G[k][y][m]][n]

LEMMA PathsSplit ==
    ASSUME NEW S, NEW next, NEW G, Paths(G, S, next),
           NEW k \in Nat, NEW y \in S, NEW m \in Nat, NEW n \in Nat
    PROVE  GoesOn(G, k, y, m, n)
<1>1. PICK g : g = G[k][y]
    OBVIOUS
<1>2. g[m] \in S /\ \A i \in Nat : g[i + 1] = next[k + i][g[i]]
  <2>1. PathAt(G[k][y], S, next, k, y)
      BY PathIs
  <2>2. QED
      BY <1>1, <2>1 DEF PathAt
<1>3. PICK z \in S : z = g[m]
    BY <1>2
<1>4. PICK h : h = G[k + m][z]
    OBVIOUS
<1>5. k + m \in Nat
    OBVIOUS
<1>6. h[0] = z /\ \A i \in Nat : h[i + 1] = next[(k + m) + i][h[i]]
  <2>1. PathAt(G[k + m][z], S, next, k + m, z)
      BY <1>5, PathIs
  <2>2. QED
      BY <1>4, <2>1 DEF PathAt
<1> DEFINE D == {i \in Nat : g[m + i] = h[i]}
<1>7. 0 \in D
    BY <1>3, <1>6
<1>8. ASSUME NEW i \in D PROVE i + 1 \in D
  <2>1. m + i \in Nat /\ (m + i) + 1 = m + (i + 1) /\ k + (m + i) = (k + m) + i /\ i \in Nat
      OBVIOUS
  <2>2. g[(m + i) + 1] = next[k + (m + i)][g[m + i]]
      BY <1>2, <2>1
  <2>3. h[i + 1] = next[(k + m) + i][h[i]]
      BY <1>6, <2>1
  <2>4. g[m + i] = h[i]
      OBVIOUS
  <2>5. g[m + (i + 1)] = h[i + 1]
      BY <2>1, <2>2, <2>3, <2>4
  <2>6. QED
      BY <2>5
<1>9. D = Nat
  <2> HIDE DEF D
  <2>1. D \subseteq Nat
      BY DEF D
  <2>2. QED
      BY <1>7, <1>8, <2>1, AllNumbers
<1>10. g[m + n] = h[n]
    BY <1>9
<1>11. QED
    BY <1>1, <1>3, <1>4, <1>10 DEF GoesOn

\* The steps of a run over s.
Follows(next, S, step, s) ==
    \A n \in Nat, y \in S : n < Len(s) => next[n][y] = step[y][s[n + 1]]

\* The recursion of Run.
Halved(after, S, step, s) ==
    after = [lo \in 1 .. Len(s) |-> [hi \in 1 .. Len(s) |-> [y \in S |->
                LET mid == (lo + hi) \div 2
                IN  IF lo >= hi THEN step[y][s[lo]]
                    ELSE after[mid + 1][hi][after[lo][mid][y]]]]]

HalfStep(after, step, s, lo, hi, y) ==
    after[lo][hi][y] =
        IF lo >= hi THEN step[y][s[lo]]
        ELSE after[((lo + hi) \div 2) + 1][hi][after[lo][(lo + hi) \div 2][y]]

LEMMA HalvedAt ==
    ASSUME NEW S, NEW step, NEW s, NEW after, Halved(after, S, step, s),
           NEW lo \in 1 .. Len(s), NEW hi \in 1 .. Len(s), NEW y \in S
    PROVE  HalfStep(after, step, s, lo, hi, y)
<1>1. after[lo] = [h \in 1 .. Len(s) |-> [z \in S |->
                     LET mid == (lo + h) \div 2
                     IN  IF lo >= h THEN step[z][s[lo]]
                         ELSE after[mid + 1][h][after[lo][mid][z]]]]
    BY DEF Halved
<1>2. after[lo][hi] = [z \in S |->
                     LET mid == (lo + hi) \div 2
                     IN  IF lo >= hi THEN step[z][s[lo]]
                         ELSE after[mid + 1][hi][after[lo][mid][z]]]
    BY <1>1, Zenon
<1>3. QED
    BY <1>2, Zenon DEF HalfStep

\* How many bytes a part has; the recursion meets none that are empty.
Width(lo, hi) == IF lo >= hi THEN 1 ELSE hi - lo + 1

\* The paths, part by part.
ByParts(W, G, S, s) ==
    \A lo, hi \in 1 .. Len(s), y \in S :
        W[lo][hi][y] \in S /\ W[lo][hi][y] = G[lo - 1][y][Width(lo, hi)]

LEMMA PartsHalved ==
    ASSUME NEW S, NEW step, NEW s \in Seq(U8), NEW next, NEW G, NEW W,
           Paths(G, S, next), ByParts(W, G, S, s),
           Follows(next, S, step, s), NEW lo \in 1 .. Len(s), NEW hi \in 1 .. Len(s), NEW y \in S
    PROVE  HalfStep(W, step, s, lo, hi, y)
<1>1. Len(s) \in Nat
    BY LenProperties
<1>2. ASSUME lo >= hi PROVE W[lo][hi][y] = step[y][s[lo]]
  <2>1. PICK k \in Nat : lo = k + 1
    <3>1. lo - 1 \in Nat /\ lo = (lo - 1) + 1
        BY <1>1
    <3>2. QED
        BY <3>1
  <2>2. k < Len(s) /\ lo - 1 = k /\ k + 0 = k /\ 0 + 1 = 1
      BY <1>1, <2>1
  <2>3. G[k][y][0 + 1] = next[k + 0][G[k][y][0]] /\ G[k][y][0] = y
    <3>1. PathAt(G[k][y], S, next, k, y)
        BY PathIs
    <3>2. QED
        BY <3>1 DEF PathAt
  <2>4. next[k][y] = step[y][s[k + 1]]
      BY <2>2 DEF Follows
  <2>5. W[lo][hi][y] = G[lo - 1][y][1]
      BY <1>2 DEF ByParts, Width
  <2>6. QED
      BY <2>1, <2>2, <2>3, <2>4, <2>5
<1>3. ASSUME ~(lo >= hi)
      PROVE  W[lo][hi][y] = W[((lo + hi) \div 2) + 1][hi][W[lo][(lo + hi) \div 2][y]]
  <2>1. PICK mid : mid = (lo + hi) \div 2
      OBVIOUS
  <2>2. lo \in Nat /\ hi \in Nat /\ mid \in Nat /\ lo <= mid /\ mid < hi
      BY <1>1, <1>3, <2>1
  <2>3. mid \in 1 .. Len(s) /\ mid + 1 \in 1 .. Len(s)
      BY <1>1, <2>2
  <2>4. PICK m \in Nat : m = mid - lo + 1
      BY <2>2
  <2>5. PICK n \in Nat : n = hi - mid
      BY <2>2
  <2>6. PICK k \in Nat : k = lo - 1
      BY <2>2
  <2>7. Width(lo, mid) = m /\ Width(mid + 1, hi) = n /\ Width(lo, hi) = m + n
      BY <2>2, <2>4, <2>5 DEF Width
  <2>8. k + m = mid /\ (mid + 1) - 1 = mid
      BY <2>2, <2>4, <2>6
  <2>9. PICK z \in S : z = W[lo][mid][y] /\ z = G[k][y][m]
      BY <2>3, <2>6, <2>7, ZenonT(40) DEF ByParts
  <2>10. W[mid + 1][hi][z] = G[mid][z][n]
      BY <2>3, <2>7, <2>8 DEF ByParts
  <2>11. G[k][y][m + n] = G[k + m][G[k][y][m]][n]
    <3>1. GoesOn(G, k, y, m, n)
        BY PathsSplit
    <3>2. QED
        BY <3>1 DEF GoesOn
  <2>12. W[lo][hi][y] = G[k][y][m + n]
      BY <2>6, <2>7 DEF ByParts
  <2>13. QED
      BY <2>1, <2>8, <2>9, <2>10, <2>11, <2>12
<1>4. QED
    BY <1>2, <1>3 DEF HalfStep

Same(after, W, S, s) ==
    \A lo, hi \in 1 .. Len(s), y \in S : after[lo][hi][y] = W[lo][hi][y]

\* There is one way to take the bytes in halves.
LEMMA HalvedUnique ==
    ASSUME NEW S, NEW step, NEW s \in Seq(U8), NEW next, NEW G, NEW W, NEW after,
           Paths(G, S, next), ByParts(W, G, S, s), Halved(after, S, step, s),
           Follows(next, S, step, s)
    PROVE  Same(after, W, S, s)
<1>1. Len(s) \in Nat
    BY LenProperties
<1> DEFINE D == {d \in Nat : \A lo, hi \in 1 .. Len(s), y \in S :
                                hi - lo <= d => after[lo][hi][y] = W[lo][hi][y]}
<1>2. ASSUME NEW lo \in 1 .. Len(s), NEW hi \in 1 .. Len(s), NEW y \in S, lo >= hi
      PROVE  after[lo][hi][y] = W[lo][hi][y]
  <2>1. HalfStep(after, step, s, lo, hi, y) /\ HalfStep(W, step, s, lo, hi, y)
      BY HalvedAt, PartsHalved
  <2>2. QED
      BY <1>2, <2>1 DEF HalfStep
<1>3. 0 \in D
  <2>1. \A lo, hi \in 1 .. Len(s) : hi - lo <= 0 => lo >= hi
      BY <1>1
  <2>2. QED
      BY <1>2, <2>1
<1>4. ASSUME NEW d \in D PROVE d + 1 \in D
  <2>1. ASSUME NEW lo \in 1 .. Len(s), NEW hi \in 1 .. Len(s), NEW y \in S,
               hi - lo <= d + 1
        PROVE  after[lo][hi][y] = W[lo][hi][y]
    <3>1. CASE lo >= hi
        BY <1>2, <3>1
    <3>2. CASE ~(lo >= hi)
      <4>1. PICK mid : mid = (lo + hi) \div 2
          OBVIOUS
      <4>2. lo \in Nat /\ hi \in Nat /\ mid \in Nat /\ lo <= mid /\ mid < hi /\ d \in Nat
          BY <1>1, <3>2, <4>1
      <4>3. /\ mid \in 1 .. Len(s) /\ mid + 1 \in 1 .. Len(s)
            /\ mid - lo <= d /\ hi - (mid + 1) <= d
          BY <1>1, <2>1, <4>2
      <4>4. PICK z \in S : z = W[lo][mid][y]
          BY <4>3 DEF ByParts
      <4>5. after[lo][mid][y] = z
          BY <4>3, <4>4
      <4>6. after[mid + 1][hi][z] = W[mid + 1][hi][z]
          BY <4>3
      <4>7. HalfStep(after, step, s, lo, hi, y) /\ HalfStep(W, step, s, lo, hi, y)
          BY HalvedAt, PartsHalved
      <4>8. /\ after[lo][hi][y] = after[mid + 1][hi][after[lo][mid][y]]
            /\ W[lo][hi][y] = W[mid + 1][hi][W[lo][mid][y]]
          BY <3>2, <4>1, <4>7 DEF HalfStep
      <4>9. QED
          BY <4>4, <4>5, <4>6, <4>8
    <3>3. QED
        BY <3>1, <3>2
  <2>2. d + 1 \in Nat
      OBVIOUS
  <2>3. QED
      BY <2>1, <2>2, Zenon
<1>5. D = Nat
  <2> HIDE DEF D
  <2>1. D \subseteq Nat
      BY DEF D
  <2>2. QED
      BY <1>3, <1>4, <2>1, AllNumbers
<1>6. ASSUME NEW lo \in 1 .. Len(s), NEW hi \in 1 .. Len(s), NEW y \in S
      PROVE  after[lo][hi][y] = W[lo][hi][y]
  <2>1. CASE lo >= hi
      BY <1>2, <2>1
  <2>2. CASE ~(lo >= hi)
    <3>1. hi - lo \in D
        BY <1>1, <1>5, <2>2
    <3>2. QED
        BY <1>1, <3>1
  <2>3. QED
      BY <2>1, <2>2
<1>7. QED
    BY <1>6 DEF Same

LEMMA Running ==
    ASSUME NEW S, NEW step \in [S -> [U8 -> S]], NEW x \in S, NEW s \in Seq(U8)
    PROVE  \E f : RunsAs(f, S, step, x, s) /\ Run(S, step, x, s) = f[Len(s)]
<1>1. Len(s) \in Nat /\ \A i \in 1 .. Len(s) : s[i] \in U8
    BY LenProperties, ElementOfSeq
<1>2. PICK next : next = [n \in Nat |-> [y \in S |-> IF n < Len(s) THEN step[y][s[n + 1]] ELSE y]]
    OBVIOUS
<1>3. next \in [Nat -> [S -> S]]
  <2>1. ASSUME NEW n \in Nat, NEW y \in S PROVE (IF n < Len(s) THEN step[y][s[n + 1]] ELSE y) \in S
    <3>1. CASE n < Len(s)
      <4>1. s[n + 1] \in U8
          BY <1>1, <3>1
      <4>2. QED
          BY <3>1, <4>1
    <3>2. QED
        BY <3>1
  <2>2. QED
      BY <1>2, <2>1
<1>4. Follows(next, S, step, s)
    BY <1>2 DEF Follows
<1>5. PICK G : Paths(G, S, next)
    BY <1>3, PathsExist
<1>6. RunsAs(G[0][x], S, step, x, s)
  <2>1. PICK g : g = G[0][x]
      OBVIOUS
  <2>2. /\ g \in [Nat -> S] /\ g[0] = x
        /\ \A n \in Nat : g[n + 1] = next[0 + n][g[n]]
    <3>1. PathAt(G[0][x], S, next, 0, x)
        BY <1>5, PathIs
    <3>2. QED
        BY <2>1, <3>1 DEF PathAt
  <2>3. ASSUME NEW n \in Nat, n < Len(s) PROVE g[n + 1] = step[g[n]][s[n + 1]]
    <3>1. g[n + 1] = next[n][g[n]] /\ g[n] \in S
        BY <2>2
    <3>2. QED
        BY <1>4, <2>3, <3>1 DEF Follows
  <2>4. QED
      BY <2>1, <2>2, <2>3 DEF RunsAs
<1>7. CASE s = <<>>
  <2>1. Run(S, step, x, s) = x /\ Len(s) = 0
      BY <1>7, EmptySeq DEF Run
  <2>2. G[0][x][0] = x
      BY <1>6 DEF RunsAs
  <2>3. QED
      BY <1>6, <2>1, <2>2
<1>8. CASE s # <<>>
  <2>1. Len(s) >= 1
      BY <1>1, <1>8, EmptySeq
  <2>2. PICK W : W = [lo \in 1 .. Len(s) |-> [hi \in 1 .. Len(s) |-> [y \in S |->
                         G[lo - 1][y][Width(lo, hi)]]]]
      OBVIOUS
  <2>3. ByParts(W, G, S, s)
    <3>1. ASSUME NEW lo \in 1 .. Len(s), NEW hi \in 1 .. Len(s), NEW y \in S
          PROVE  W[lo][hi][y] \in S /\ W[lo][hi][y] = G[lo - 1][y][Width(lo, hi)]
      <4>1. W[lo][hi][y] = G[lo - 1][y][Width(lo, hi)]
          BY <2>2
      <4>2. lo - 1 \in Nat /\ Width(lo, hi) \in Nat
          BY <1>1 DEF Width
      <4>3. G[lo - 1][y] \in [Nat -> S]
        <5>1. PathAt(G[lo - 1][y], S, next, lo - 1, y)
            BY <1>5, <4>2, PathIs
        <5>2. QED
            BY <5>1 DEF PathAt
      <4>4. QED
          BY <4>1, <4>2, <4>3
    <3>2. QED
        BY <3>1 DEF ByParts
  <2>4. Halved(W, S, step, s)
    <3>1. PICK V : V = [lo \in 1 .. Len(s) |-> [hi \in 1 .. Len(s) |-> [y \in S |->
                           LET mid == (lo + hi) \div 2
                           IN  IF lo >= hi THEN step[y][s[lo]]
                               ELSE W[mid + 1][hi][W[lo][mid][y]]]]]
        OBVIOUS
    <3>2. ASSUME NEW lo \in 1 .. Len(s), NEW hi \in 1 .. Len(s), NEW y \in S
          PROVE  W[lo][hi][y] = V[lo][hi][y]
      <4>1. V[lo][hi][y] = IF lo >= hi THEN step[y][s[lo]]
                           ELSE W[((lo + hi) \div 2) + 1][hi][W[lo][(lo + hi) \div 2][y]]
          BY <3>1
      <4>2. HalfStep(W, step, s, lo, hi, y)
          BY <1>4, <1>5, <2>3, PartsHalved
      <4>3. QED
          BY <4>1, <4>2 DEF HalfStep
    <3>3. \A lo, hi \in 1 .. Len(s) :
              /\ DOMAIN W = 1 .. Len(s) /\ DOMAIN V = 1 .. Len(s)
              /\ DOMAIN W[lo] = 1 .. Len(s) /\ DOMAIN V[lo] = 1 .. Len(s)
              /\ DOMAIN W[lo][hi] = S /\ DOMAIN V[lo][hi] = S
        BY <2>2, <3>1
    <3>4. \A lo, hi \in 1 .. Len(s) : W[lo][hi] = V[lo][hi]
      <4>1. ASSUME NEW lo \in 1 .. Len(s), NEW hi \in 1 .. Len(s) PROVE W[lo][hi] = V[lo][hi]
        <5>1. PICK w : w = W[lo][hi] /\ w = [y \in S |-> w[y]]
            BY <2>2
        <5>2. PICK v : v = V[lo][hi] /\ v = [y \in S |-> v[y]]
            BY <3>1
        <5>3. \A y \in S : w[y] = v[y]
            BY <3>2, <5>1, <5>2
        <5>4. QED
            BY <5>1, <5>2, <5>3
      <4>2. QED
          BY <4>1
    <3>5. \A lo \in 1 .. Len(s) : W[lo] = V[lo]
      <4>1. ASSUME NEW lo \in 1 .. Len(s) PROVE W[lo] = V[lo]
        <5>1. PICK w : w = W[lo] /\ w = [hi \in 1 .. Len(s) |-> w[hi]]
            BY <2>2
        <5>2. PICK v : v = V[lo] /\ v = [hi \in 1 .. Len(s) |-> v[hi]]
            BY <3>1
        <5>3. \A hi \in 1 .. Len(s) : w[hi] = v[hi]
            BY <3>4, <5>1, <5>2
        <5>4. QED
            BY <5>1, <5>2, <5>3
      <4>2. QED
          BY <4>1
    <3>6. W = V
      <4>1. W = [lo \in 1 .. Len(s) |-> W[lo]] /\ V = [lo \in 1 .. Len(s) |-> V[lo]]
          BY <2>2, <3>1
      <4>2. QED
          BY <3>5, <4>1
    <3>7. QED
        BY <3>1, <3>6 DEF Halved
  <2>5. PICK after : Halved(after, S, step, s) /\ Run(S, step, x, s) = after[1][Len(s)][x]
      BY <1>8, <2>4 DEF Halved, Run
  <2>6. 1 \in 1 .. Len(s) /\ Len(s) \in 1 .. Len(s) /\ 1 - 1 = 0 /\ Width(1, Len(s)) = Len(s)
    <3>1. PICK l \in Nat : l = Len(s)
        BY <1>1
    <3>2. 1 \in 1 .. l /\ l \in 1 .. l /\ 1 - 1 = 0 /\ (IF 1 >= l THEN 1 ELSE l - 1 + 1) = l
        BY <2>1, <3>1
    <3>3. QED
        BY <3>1, <3>2 DEF Width
  <2>7. Same(after, W, S, s)
    <3>1. Halved(after, S, step, s)
        BY <2>5
    <3>2. QED
        BY <1>4, <1>5, <2>3, <3>1, HalvedUnique
  <2>8. after[1][Len(s)][x] = W[1][Len(s)][x] /\ W[1][Len(s)][x] = G[0][x][Len(s)]
      BY <2>3, <2>6, <2>7 DEF ByParts, Same
  <2>9. QED
      BY <1>6, <2>5, <2>8
<1>9. QED
    BY <1>7, <1>8

------------------------------------------------------------------------------
(* Parts of sequences. *)

\* The rest after n bytes.
LEMMA Dropped ==
    ASSUME NEW s \in Seq(U8), NEW n \in Nat, n <= Len(s)
    PROVE  /\ Drop(s, n) \in Seq(U8) /\ Len(Drop(s, n)) = Len(s) - n
           /\ \A i \in 1 .. Len(s) - n : Drop(s, n)[i] = s[n + i]
<1>1. PICK l \in Nat : l = Len(s)
    BY LenProperties
<1>2. PICK a \in Int : a = n + 1
    OBVIOUS
<1>3. PICK t : t = SubSeq(s, a, l)
    OBVIOUS
<1>4. \A i \in a .. l : s[i] \in U8
  <2>1. \A i \in a .. l : i \in 1 .. Len(s)
      BY <1>1, <1>2
  <2>2. QED
      BY <2>1, ElementOfSeq
<1>5. /\ t \in Seq(U8) /\ Len(t) = IF a <= l THEN l - a + 1 ELSE 0
      /\ \A i \in 1 .. l - a + 1 : t[i] = s[a + i - 1]
    BY <1>3, <1>4, SubSeqProperties
<1>6. PICK d \in Nat : d = l - n /\ l - a + 1 = d /\ (a <= l <=> d # 0)
  <2>1. n <= l
      BY <1>1
  <2>2. PICK d \in Nat : d = l - n
      BY <2>1
  <2>3. l - a + 1 = d /\ (a <= l <=> d # 0)
      BY <1>2, <2>2
  <2>4. QED
      BY <2>2, <2>3
<1>7. Len(t) = d
    BY <1>5, <1>6
<1>8. \A i \in 1 .. d : t[i] = s[n + i]
  <2>1. \A i \in 1 .. d : a + i - 1 = n + i
      BY <1>2
  <2>2. QED
      BY <1>5, <1>6, <2>1
<1>9. Drop(s, n) = t
    BY <1>1, <1>2, <1>3 DEF Drop
<1>10. QED
    BY <1>1, <1>5, <1>6, <1>7, <1>8, <1>9

LEMMA DroppedTwice ==
    ASSUME NEW s \in Seq(U8), NEW m \in Nat, NEW n \in Nat, m + n <= Len(s)
    PROVE  Drop(Drop(s, m), n) = Drop(s, m + n)
<1>1. PICK l \in Nat : l = Len(s)
    BY LenProperties
<1>2. PICK a : a = Drop(s, m)
    OBVIOUS
<1>3. a \in Seq(U8) /\ Len(a) = l - m /\ \A i \in 1 .. l - m : a[i] = s[m + i]
  <2>1. m <= Len(s)
      BY <1>1
  <2>2. QED
      BY <1>1, <1>2, <2>1, Dropped
<1>4. PICK b : b = Drop(a, n)
    OBVIOUS
<1>5. b \in Seq(U8) /\ Len(b) = (l - m) - n /\ \A i \in 1 .. (l - m) - n : b[i] = a[n + i]
  <2>1. n <= Len(a)
      BY <1>1, <1>3
  <2>2. b \in Seq(U8) /\ Len(b) = Len(a) - n /\ \A i \in 1 .. Len(a) - n : b[i] = a[n + i]
      BY <1>3, <1>4, <2>1, Dropped
  <2>3. QED
      BY <1>3, <2>2
<1>6. PICK k \in Nat : k = m + n
    OBVIOUS
<1>7. PICK c : c = Drop(s, k)
    OBVIOUS
<1>8. c \in Seq(U8) /\ Len(c) = l - k /\ \A i \in 1 .. l - k : c[i] = s[k + i]
  <2>1. k <= Len(s)
      BY <1>6
  <2>2. QED
      BY <1>1, <1>7, <2>1, Dropped
<1>9. Len(b) = Len(c)
    BY <1>1, <1>5, <1>6, <1>8
<1>10. \A i \in 1 .. Len(b) : b[i] = c[i]
  <2>1. SUFFICES ASSUME NEW i \in 1 .. (l - m) - n PROVE b[i] = c[i]
      BY <1>5
  <2>2. n + i \in 1 .. l - m /\ i \in 1 .. l - k /\ m + (n + i) = k + i
      BY <1>1, <1>6
  <2>3. b[i] = a[n + i] /\ a[n + i] = s[m + (n + i)] /\ c[i] = s[k + i]
      BY <1>3, <1>5, <1>8, <2>2
  <2>4. QED
      BY <2>2, <2>3
<1>11. b = c
    BY <1>5, <1>8, <1>9, <1>10, SeqEqual
<1>12. QED
    BY <1>2, <1>4, <1>6, <1>7, <1>11

\* A sequence is what comes up to a place and what comes after it.
LEMMA Cut ==
    ASSUME NEW s \in Seq(U8), NEW n \in 0 .. Len(s)
    PROVE  /\ SubSeq(s, 1, n) \in Seq(U8) /\ SubSeq(s, n + 1, Len(s)) \in Seq(U8)
           /\ SubSeq(s, 1, n) \o SubSeq(s, n + 1, Len(s)) = s
<1>1. PICK l \in Nat : l = Len(s)
    BY LenProperties
<1>2. \A i \in 1 .. l : s[i] \in U8
    BY <1>1, ElementOfSeq
<1>3. SubSeq(s, 1, n) \in Seq(U8) /\ SubSeq(s, n + 1, l) \in Seq(U8)
  <2>1. (\A i \in 1 .. n : s[i] \in U8) /\ (\A i \in n + 1 .. l : s[i] \in U8)
      BY <1>1, <1>2
  <2>2. PICK a \in Int : a = n + 1
      OBVIOUS
  <2>3. SubSeq(s, a, l) \in Seq(U8)
      BY <2>1, <2>2, SubSeqProperties
  <2>4. SubSeq(s, 1, n) \in Seq(U8)
      BY <2>1, SubSeqProperties
  <2>5. QED
      BY <2>2, <2>3, <2>4
<1>4. SubSeq(s, 1, n) \o SubSeq(s, n + 1, l) = SubSeq(s, 1, l)
  <2>1. 1 \in 1 .. Len(s) + 1 /\ n \in 1 - 1 .. Len(s) /\ l \in n .. Len(s)
      BY <1>1
  <2>2. PICK one : one = 1
      OBVIOUS
  <2>3. SubSeq(s, one, n) \o SubSeq(s, n + 1, l) = SubSeq(s, one, l)
      BY <2>1, <2>2, ConcatAdjacentSubSeq
  <2>4. QED
      BY <2>2, <2>3
<1>5. SubSeq(s, 1, l) = s
    BY <1>1, SubSeqFull
<1>6. QED
    BY <1>1, <1>3, <1>4, <1>5

------------------------------------------------------------------------------
(* Bits of a byte. *)

Number(b0, b1, b2, b3, b4, b5, b6, b7) ==
    b0 + 2 * b1 + 4 * b2 + 8 * b3 + 16 * b4 + 32 * b5 + 64 * b6 + 128 * b7

LEMMA Halving ==
    ASSUME NEW b \in Nat
    PROVE  \E h \in Nat, r \in {0, 1} : /\ b = 2 * h + r /\ b \div 2 = h /\ b % 2 = r
<1>1. b \div 2 \in Nat /\ b % 2 \in {0, 1} /\ b = 2 * (b \div 2) + (b % 2)
    OBVIOUS
<1>2. QED
    BY <1>1

LEMMA BitsExist ==
    ASSUME NEW b \in U8
    PROVE  \E b0, b1, b2, b3, b4, b5, b6, b7 \in {0, 1} :
               b = Number(b0, b1, b2, b3, b4, b5, b6, b7)
<1>1. b \in Nat /\ b <= 255
    BY DEF U8
<1>2. PICK h1 \in Nat, b0 \in {0, 1} : b = 2 * h1 + b0
    BY <1>1, Halving
<1>3. PICK h2 \in Nat, b1 \in {0, 1} : h1 = 2 * h2 + b1
    BY Halving
<1>4. PICK h3 \in Nat, b2 \in {0, 1} : h2 = 2 * h3 + b2
    BY Halving
<1>5. PICK h4 \in Nat, b3 \in {0, 1} : h3 = 2 * h4 + b3
    BY Halving
<1>6. PICK h5 \in Nat, b4 \in {0, 1} : h4 = 2 * h5 + b4
    BY Halving
<1>7. PICK h6 \in Nat, b5 \in {0, 1} : h5 = 2 * h6 + b5
    BY Halving
<1>8. PICK h7 \in Nat, b6 \in {0, 1} : h6 = 2 * h7 + b6
    BY Halving
<1>9. h7 \in {0, 1}
    BY <1>1, <1>2, <1>3, <1>4, <1>5, <1>6, <1>7, <1>8
<1>10. b = Number(b0, b1, b2, b3, b4, b5, b6, h7)
    BY <1>2, <1>3, <1>4, <1>5, <1>6, <1>7, <1>8 DEF Number
<1>11. QED
    BY <1>9, <1>10

LEMMA BitsRead ==
    ASSUME NEW b0 \in {0, 1}, NEW b1 \in {0, 1}, NEW b2 \in {0, 1}, NEW b3 \in {0, 1},
           NEW b4 \in {0, 1}, NEW b5 \in {0, 1}, NEW b6 \in {0, 1}, NEW b7 \in {0, 1},
           NEW b, b = Number(b0, b1, b2, b3, b4, b5, b6, b7)
    PROVE  /\ b \in U8
           /\ (b \div 1) % 2 = b0 /\ (b \div 2) % 2 = b1
           /\ (b \div 4) % 2 = b2 /\ (b \div 8) % 2 = b3
           /\ (b \div 16) % 2 = b4 /\ (b \div 32) % 2 = b5
           /\ (b \div 64) % 2 = b6 /\ (b \div 128) % 2 = b7
<1>1. b \in U8
    BY DEF Number, U8
<1>2. /\ b \div 1 = b0 + 2 * (b1 + 2 * b2 + 4 * b3 + 8 * b4 + 16 * b5 + 32 * b6 + 64 * b7)
      /\ b \div 2 = b1 + 2 * (b2 + 2 * b3 + 4 * b4 + 8 * b5 + 16 * b6 + 32 * b7)
      /\ b \div 4 = b2 + 2 * (b3 + 2 * b4 + 4 * b5 + 8 * b6 + 16 * b7)
      /\ b \div 8 = b3 + 2 * (b4 + 2 * b5 + 4 * b6 + 8 * b7)
      /\ b \div 16 = b4 + 2 * (b5 + 2 * b6 + 4 * b7)
      /\ b \div 32 = b5 + 2 * (b6 + 2 * b7)
      /\ b \div 64 = b6 + 2 * b7
      /\ b \div 128 = b7
    BY DEF Number
<1>3. \A r \in {0, 1}, h \in Nat : (r + 2 * h) % 2 = r
    OBVIOUS
<1>4. b7 = b7 + 2 * 0
    OBVIOUS
<1>5. QED
    BY <1>1, <1>2, <1>3, <1>4

\* Reversing the bits of a byte twice changes nothing, and inverting them goes with it.
LEMMA Reversed ==
    ASSUME NEW b \in U8
    PROVE  /\ dlms_reverse_bits8(b) \in U8
           /\ dlms_reverse_bits8(dlms_reverse_bits8(b)) = b
           /\ dlms_reverse_bits8(255 - b) = 255 - dlms_reverse_bits8(b)
<1>1. PICK b0, b1, b2, b3, b4, b5, b6, b7 \in {0, 1} :
          b = Number(b0, b1, b2, b3, b4, b5, b6, b7)
    BY BitsExist
<1>2. ASSUME NEW c, NEW c0 \in {0, 1}, NEW c1 \in {0, 1}, NEW c2 \in {0, 1}, NEW c3 \in {0, 1},
             NEW c4 \in {0, 1}, NEW c5 \in {0, 1}, NEW c6 \in {0, 1}, NEW c7 \in {0, 1},
             c = Number(c0, c1, c2, c3, c4, c5, c6, c7)
      PROVE  dlms_reverse_bits8(c) = Number(c7, c6, c5, c4, c3, c2, c1, c0)
  <2>1. /\ (c \div 1) % 2 = c0 /\ (c \div 2) % 2 = c1
        /\ (c \div 4) % 2 = c2 /\ (c \div 8) % 2 = c3
        /\ (c \div 16) % 2 = c4 /\ (c \div 32) % 2 = c5
        /\ (c \div 64) % 2 = c6 /\ (c \div 128) % 2 = c7
      BY <1>2, BitsRead
  <2>2. /\ 128 \div 1 = 128 /\ 128 \div 2 = 64 /\ 128 \div 4 = 32 /\ 128 \div 8 = 16
        /\ 128 \div 16 = 8 /\ 128 \div 32 = 4 /\ 128 \div 64 = 2 /\ 128 \div 128 = 1
      OBVIOUS
  <2>3. /\ Moved(c, 1) = 128 * c0 /\ Moved(c, 2) = 64 * c1 /\ Moved(c, 4) = 32 * c2
        /\ Moved(c, 8) = 16 * c3 /\ Moved(c, 16) = 8 * c4 /\ Moved(c, 32) = 4 * c5
        /\ Moved(c, 64) = 2 * c6 /\ Moved(c, 128) = 1 * c7
      BY <2>1, <2>2 DEF Moved
  <2>4. QED
      BY <2>3 DEF dlms_reverse_bits8, Number
<1>3. PICK r : r = Number(b7, b6, b5, b4, b3, b2, b1, b0)
    OBVIOUS
<1>4. dlms_reverse_bits8(b) = r
    BY <1>1, <1>2, <1>3
<1>5. dlms_reverse_bits8(r) = b
    BY <1>1, <1>2, <1>3
<1>6. r \in U8
    BY <1>3, BitsRead
<1>7. PICK n0, n1, n2, n3, n4, n5, n6, n7 \in {0, 1} :
          /\ n0 = 1 - b0 /\ n1 = 1 - b1 /\ n2 = 1 - b2 /\ n3 = 1 - b3
          /\ n4 = 1 - b4 /\ n5 = 1 - b5 /\ n6 = 1 - b6 /\ n7 = 1 - b7
  <2>1. \A x \in {0, 1} : 1 - x \in {0, 1}
      OBVIOUS
  <2>2. QED
      BY <2>1
<1>8. PICK m : m = 255 - b
    OBVIOUS
<1>9. m = Number(n0, n1, n2, n3, n4, n5, n6, n7)
    BY <1>1, <1>7, <1>8 DEF Number
<1>10. dlms_reverse_bits8(m) = Number(n7, n6, n5, n4, n3, n2, n1, n0)
    BY <1>2, <1>9
<1>11. Number(n7, n6, n5, n4, n3, n2, n1, n0) = 255 - r
    BY <1>3, <1>7 DEF Number
<1>12. QED
    BY <1>4, <1>5, <1>6, <1>8, <1>10, <1>11

LEMMA XorTyped ==
    ASSUME NEW a \in U8, NEW b \in U8
    PROVE  Xor(a, b) \in U8
<1>1. a \in Nat /\ b \in Nat
    BY DEF U8
<1>2. \A x \in Nat : x % 2 \in {0, 1}
    OBVIOUS
<1>3. /\ (a \div 1) + (b \div 1) \in Nat /\ (a \div 2) + (b \div 2) \in Nat
      /\ (a \div 4) + (b \div 4) \in Nat /\ (a \div 8) + (b \div 8) \in Nat
      /\ (a \div 16) + (b \div 16) \in Nat /\ (a \div 32) + (b \div 32) \in Nat
      /\ (a \div 64) + (b \div 64) \in Nat /\ (a \div 128) + (b \div 128) \in Nat
    BY <1>1
<1>4. /\ Differ(a, b, 1) \in {0, 1} /\ Differ(a, b, 2) \in {0, 2}
      /\ Differ(a, b, 4) \in {0, 4} /\ Differ(a, b, 8) \in {0, 8}
      /\ Differ(a, b, 16) \in {0, 16} /\ Differ(a, b, 32) \in {0, 32}
      /\ Differ(a, b, 64) \in {0, 64} /\ Differ(a, b, 128) \in {0, 128}
    BY <1>2, <1>3 DEF Differ
<1>5. QED
    BY <1>4 DEF Xor, U8

\* The bytes that are escaped, and what is sent instead.
LEMMA Escapes ==
    /\ Xor(126, 32) = 94 /\ Xor(94, 32) = 126
    /\ Xor(125, 32) = 93 /\ Xor(93, 32) = 125
BY DEF Xor, Differ

------------------------------------------------------------------------------
(* The checksum. *)

\* The bounds of U16.
LEMMA InU16 == \A w : w \in U16 <=> w \in Nat /\ w < 65536
<1>1. PICK k \in Nat : k = 65535
    OBVIOUS
<1>2. U16 = 0 .. k
    BY <1>1 DEF U16
<1>3. \A w : w \in U16 <=> w \in Nat /\ w <= k
    BY <1>2
<1>4. QED
    BY <1>1, <1>3

LEMMA Halves ==
    ASSUME NEW w \in U16
    PROVE  Hi(w) \in U8 /\ Lo(w) \in U8 /\ Word(Hi(w), Lo(w)) = w
<1>1. w \in Nat /\ w < 65536
    BY InU16
<1>2. PICK q, r \in Nat : q = w \div 256 /\ r = w % 256
    BY <1>1
<1>3. w = 256 * q + r /\ r < 256 /\ q < 256
    BY <1>1, <1>2
<1>4. q % 256 = q
    BY <1>3
<1>5. QED
    BY <1>1, <1>2, <1>3, <1>4 DEF Hi, Lo, Word, U8

LEMMA Wide ==
    ASSUME NEW w \in Nat, w < 65536
    PROVE  w \in U16
BY InU16

LEMMA Words ==
    ASSUME NEW hi \in U8, NEW lo \in U8
    PROVE  Word(hi, lo) \in U16 /\ Hi(Word(hi, lo)) = hi /\ Lo(Word(hi, lo)) = lo
<1>1. hi \in Nat /\ lo \in Nat /\ hi < 256 /\ lo < 256
    BY DEF U8
<1>2. PICK w \in Nat : w = 256 * hi + lo
    BY <1>1
<1>3. w < 65536
    BY <1>1, <1>2
<1>4. w \div 256 = hi /\ w % 256 = lo /\ hi % 256 = hi
    BY <1>1, <1>2
<1>5. w \in U16 /\ w = Word(hi, lo)
    BY <1>2, <1>3, Wide DEF Word
<1>6. Hi(w) = hi /\ Lo(w) = lo
    BY <1>4 DEF Hi, Lo
<1>7. QED
    BY <1>5, <1>6

BitByBit(crc, b) ==
    crc = [j \in 0 .. 8 |-> IF j = 0 THEN 0 ELSE Taking(crc[j - 1], 256 * b * 2^(j - 1))]

LEMMA TakingTyped ==
    ASSUME NEW crc \in U16, NEW c
    PROVE  Taking(crc, c) \in U16
<1>1. PICK shifted : shifted = (2 * crc) % 65536
    OBVIOUS
<1>2. shifted \in U16
  <2>1. 2 * crc \in Nat
      BY InU16
  <2>2. shifted \in Nat /\ shifted < 65536
      BY <1>1, <2>1
  <2>3. QED
      BY <2>2, Wide
<1>3. WithPolynomial(shifted) \in U16
  <2>1. Hi(shifted) \in U8 /\ Lo(shifted) \in U8 /\ 16 \in U8 /\ 33 \in U8
      BY <1>2, Halves DEF U8
  <2>2. PICK h, l \in U8 : h = Xor(Hi(shifted), 16) /\ l = Xor(Lo(shifted), 33)
      BY <2>1, XorTyped
  <2>3. Word(h, l) \in U16
      BY <2>2, Words
  <2>4. QED
      BY <2>2, <2>3 DEF WithPolynomial
<1>4. Taking(crc, c) = shifted \/ Taking(crc, c) = WithPolynomial(shifted)
    BY <1>1 DEF Taking
<1>5. QED
    BY <1>2, <1>3, <1>4

LEMMA EntryTyped ==
    ASSUME NEW b
    PROVE  Entry(b) \in U16
<1>1. 0 \in U16
    BY InU16
<1>2. PICK next : next = [n \in Nat |-> [y \in U16 |-> Taking(y, 256 * b * 2^n)]]
    OBVIOUS
<1>3. next \in [Nat -> [U16 -> U16]]
    BY <1>2, TakingTyped
<1>4. PICK f : Goes(f, U16, 0, next)
    BY <1>1, <1>3, Recursion
<1>5. f \in [Nat -> U16] /\ f[0] = 0 /\ \A n \in Nat : f[n + 1] = next[n][f[n]]
    BY <1>4 DEF Goes
<1>6. \A j \in 1 .. 8 : f[j] = Taking(f[j - 1], 256 * b * 2^(j - 1))
  <2>1. ASSUME NEW j \in 1 .. 8 PROVE f[j] = Taking(f[j - 1], 256 * b * 2^(j - 1))
    <3>1. PICK n \in Nat : n = j - 1 /\ n + 1 = j
        OBVIOUS
    <3>2. f[n + 1] = next[n][f[n]] /\ f[n] \in U16
        BY <1>5
    <3>3. next[n][f[n]] = Taking(f[n], 256 * b * 2^n)
        BY <1>2, <3>2
    <3>4. QED
        BY <3>1, <3>2, <3>3
  <2>2. QED
      BY <2>1
<1>7. PICK e : e = [j \in 0 .. 8 |-> f[j]]
    OBVIOUS
<1>8. BitByBit(e, b)
  <2>1. PICK v : v = [j \in 0 .. 8 |-> IF j = 0 THEN 0 ELSE Taking(e[j - 1], 256 * b * 2^(j - 1))]
      OBVIOUS
  <2>2. ASSUME NEW j \in 0 .. 8 PROVE e[j] = v[j]
    <3>1. CASE j = 0
        BY <1>5, <1>7, <2>1, <3>1
    <3>2. CASE j # 0
      <4>1. j \in 1 .. 8 /\ j - 1 \in 0 .. 8
          BY <3>2
      <4>2. e[j - 1] = f[j - 1] /\ e[j] = f[j]
          BY <1>7, <4>1
      <4>3. QED
          BY <1>6, <2>1, <3>2, <4>1, <4>2
    <3>3. QED
        BY <3>1, <3>2
  <2>3. e = v
      BY <1>7, <2>1, <2>2
  <2>4. QED
      BY <2>1, <2>3 DEF BitByBit
<1>9. PICK crc : BitByBit(crc, b) /\ Entry(b) = crc[8]
    BY <1>8 DEF BitByBit, Entry
<1>10. crc[0] = 0 /\ \A j \in 1 .. 8 : crc[j] = Taking(crc[j - 1], 256 * b * 2^(j - 1))
    BY <1>9 DEF BitByBit
<1>11. crc[1] \in U16
    BY <1>1, <1>10, TakingTyped, 1 - 1 = 0
<1>12. crc[2] \in U16
    BY <1>10, <1>11, TakingTyped, 2 - 1 = 1
<1>13. crc[3] \in U16
    BY <1>10, <1>12, TakingTyped, 3 - 1 = 2
<1>14. crc[4] \in U16
    BY <1>10, <1>13, TakingTyped, 4 - 1 = 3
<1>15. crc[5] \in U16
    BY <1>10, <1>14, TakingTyped, 5 - 1 = 4
<1>16. crc[6] \in U16
    BY <1>10, <1>15, TakingTyped, 6 - 1 = 5
<1>17. crc[7] \in U16
    BY <1>10, <1>16, TakingTyped, 7 - 1 = 6
<1>18. crc[8] \in U16
    BY <1>10, <1>17, TakingTyped, 8 - 1 = 7
<1>19. QED
    BY <1>9, <1>18

LEMMA TableTyped ==
    ASSUME NEW i \in 1 .. 256
    PROVE  crc16_table[i] \in U16
<1>1. PICK t : t = [k \in 1 .. 256 |-> Entry(k - 1)]
    OBVIOUS
<1>2. crc16_table = SubSeq(t, 1, 256)
    BY <1>1 DEF crc16_table
<1>3. \A k \in 1 .. 256 : t[k] \in U16
    BY <1>1, EntryTyped
<1>4. t \in Seq(U16) /\ Len(t) = 256
    BY <1>1, <1>3, IsASeq
<1>5. SubSeq(t, 1, 256)[i] = t[1 + i - 1]
    BY <1>4, SubSeqProperties
<1>6. QED
    BY <1>2, <1>3, <1>5

LEMMA ThroughTyped ==
    ASSUME NEW crc \in U16, NEW b \in U8
    PROVE  Through(crc, b) \in U16
<1>1. Hi(crc) \in U8 /\ Lo(crc) \in U8 /\ dlms_reverse_bits8(b) \in U8
    BY Halves, Reversed
<1>2. PICK x \in U8 : x = Xor(Hi(crc), dlms_reverse_bits8(b))
    BY <1>1, XorTyped
<1>3. 1 + x \in 1 .. 256
    BY DEF U8
<1>4. PICK e \in U16 : e = crc16_table[1 + x]
    BY <1>3, TableTyped
<1>5. Hi(e) \in U8 /\ Lo(e) \in U8
    BY Halves
<1>6. PICK h \in U8 : h = Xor(Lo(crc), Hi(e))
    BY <1>1, <1>5, XorTyped
<1>7. Word(h, Lo(e)) \in U16
    BY <1>5, Words
<1>8. QED
    BY <1>2, <1>4, <1>6, <1>7 DEF Through

------------------------------------------------------------------------------
(* Runs and their parts. *)

\* Each byte takes a state of S to one of S.
Steps(step, S) == step \in [S -> [U8 -> S]]

LEMMA RunTyped ==
    ASSUME NEW S, NEW step, Steps(step, S), NEW x \in S, NEW s \in Seq(U8)
    PROVE  Run(S, step, x, s) \in S
<1>1. PICK f : RunsAs(f, S, step, x, s) /\ Run(S, step, x, s) = f[Len(s)]
    BY Running DEF Steps
<1>2. f \in [Nat -> S] /\ Len(s) \in Nat
    BY <1>1, LenProperties DEF RunsAs
<1>3. QED
    BY <1>1, <1>2

LEMMA RunEmpty ==
    ASSUME NEW S, NEW step, NEW x
    PROVE  Run(S, step, x, <<>>) = x
BY DEF Run

\* A run over s \o t is a run over s and one over t from where that ends.
LEMMA RunJoined ==
    ASSUME NEW S, NEW step, Steps(step, S), NEW x \in S,
           NEW s \in Seq(U8), NEW t \in Seq(U8)
    PROVE  Run(S, step, x, s \o t) = Run(S, step, Run(S, step, x, s), t)
<1>1. PICK y \in S : y = Run(S, step, x, s)
    BY RunTyped
<1>2. PICK st \in Seq(U8) : st = s \o t
    BY ConcatProperties
<1>3. PICK f : RunsAs(f, S, step, x, s) /\ Run(S, step, x, s) = f[Len(s)]
    BY Running DEF Steps
<1>4. PICK g : RunsAs(g, S, step, y, t) /\ Run(S, step, y, t) = g[Len(t)]
    BY Running DEF Steps
<1>5. PICK h : RunsAs(h, S, step, x, st) /\ Run(S, step, x, st) = h[Len(st)]
    BY Running DEF Steps
<1>6. PICK m \in Nat, n \in Nat : m = Len(s) /\ n = Len(t)
    BY LenProperties
<1>7. /\ Len(st) = m + n
      /\ \A i \in 1 .. m : st[i] = s[i]
      /\ \A i \in 1 .. n : st[m + i] = t[i]
    BY <1>2, <1>6, ConcatProperties
<1>8. /\ f[0] = x /\ \A k \in Nat : k < m => f[k + 1] = step[f[k]][s[k + 1]]
      /\ g[0] = y /\ \A k \in Nat : k < n => g[k + 1] = step[g[k]][t[k + 1]]
      /\ h[0] = x /\ \A k \in Nat : k < m + n => h[k + 1] = step[h[k]][st[k + 1]]
    BY <1>3, <1>4, <1>5, <1>6, <1>7 DEF RunsAs
<1>9. h[m] = f[m]
  <2> DEFINE D == {k \in Nat : k <= m => h[k] = f[k]}
  <2>1. 0 \in D
      BY <1>8
  <2>2. ASSUME NEW k \in D PROVE k + 1 \in D
    <3>1. SUFFICES ASSUME k + 1 <= m PROVE h[k + 1] = f[k + 1]
        OBVIOUS
    <3>2. k \in Nat /\ k < m /\ k < m + n /\ h[k] = f[k] /\ k + 1 \in 1 .. m
        BY <3>1
    <3>3. st[k + 1] = s[k + 1]
        BY <1>7, <3>2
    <3>4. QED
        BY <1>8, <3>2, <3>3
  <2>3. D = Nat
    <3> HIDE DEF D
    <3>1. D \subseteq Nat
        BY DEF D
    <3>2. QED
        BY <2>1, <2>2, <3>1, AllNumbers
  <2>4. m \in D
      BY <2>3
  <2>5. QED
      BY <2>4
<1>10. h[m + n] = g[n]
  <2> DEFINE D == {k \in Nat : k <= n => h[m + k] = g[k]}
  <2>1. 0 \in D
      BY <1>1, <1>3, <1>6, <1>8, <1>9, m + 0 = m
  <2>2. ASSUME NEW k \in D PROVE k + 1 \in D
    <3>1. SUFFICES ASSUME k + 1 <= n PROVE h[m + (k + 1)] = g[k + 1]
        OBVIOUS
    <3>2. k \in Nat /\ k < n /\ m + k \in Nat /\ m + k < m + n /\ h[m + k] = g[k]
          /\ k + 1 \in 1 .. n /\ m + (k + 1) = (m + k) + 1
        BY <3>1
    <3>3. st[(m + k) + 1] = t[k + 1]
      <4>1. st[m + (k + 1)] = t[k + 1]
          BY <1>7, <3>2
      <4>2. QED
          BY <3>2, <4>1
    <3>4. h[(m + k) + 1] = step[h[m + k]][st[(m + k) + 1]]
        BY <1>8, <3>2
    <3>5. g[k + 1] = step[g[k]][t[k + 1]]
        BY <1>8, <3>2
    <3>6. QED
        BY <3>2, <3>3, <3>4, <3>5
  <2>3. D = Nat
    <3> HIDE DEF D
    <3>1. D \subseteq Nat
        BY DEF D
    <3>2. QED
        BY <2>1, <2>2, <3>1, AllNumbers
  <2>4. n \in D
      BY <2>3
  <2>5. QED
      BY <2>4
<1>11. QED
    BY <1>1, <1>2, <1>4, <1>5, <1>6, <1>7, <1>10

LEMMA RunByte ==
    ASSUME NEW S, NEW step, Steps(step, S), NEW x \in S,
           NEW s \in Seq(U8), Len(s) = 1
    PROVE  Run(S, step, x, s) = step[x][s[1]]
<1>1. PICK f : RunsAs(f, S, step, x, s) /\ Run(S, step, x, s) = f[Len(s)]
    BY Running DEF Steps
<1>2. f[0] = x /\ f[0 + 1] = step[f[0]][s[0 + 1]]
    BY <1>1 DEF RunsAs
<1>3. QED
    BY <1>1, <1>2, 0 + 1 = 1

------------------------------------------------------------------------------
(* A checksum computed piecewise. *)

LEMMA ComputeSteps ==
    Steps([crc \in U16 |-> [b \in U8 |-> Through(crc, b)]], U16)
BY ThroughTyped DEF Steps

LEMMA ComputeTyped ==
    ASSUME NEW s \in Seq(U8), NEW x \in U16
    PROVE  crc16_compute(s, x) \in U16
BY ComputeSteps, RunTyped DEF crc16_compute

LEMMA ComputeJoined ==
    ASSUME NEW s \in Seq(U8), NEW t \in Seq(U8), NEW x \in U16
    PROVE  crc16_compute(s \o t, x) = crc16_compute(t, crc16_compute(s, x))
BY ComputeSteps, RunJoined DEF crc16_compute

\* Undoing the finalisation is doing it again.
LEMMA Finalized ==
    ASSUME NEW crc \in U16
    PROVE  crc16_finalize(crc) \in U16 /\ crc16_finalize(crc16_finalize(crc)) = crc
<1>1. Hi(crc) \in U8 /\ Lo(crc) \in U8 /\ Word(Hi(crc), Lo(crc)) = crc
    BY Halves
<1>2. PICK h \in U8, l \in U8 : h = dlms_reverse_bits8(Hi(crc)) /\ l = dlms_reverse_bits8(Lo(crc))
    BY <1>1, Reversed
<1>3. /\ dlms_reverse_bits8(h) = Hi(crc) /\ dlms_reverse_bits8(l) = Lo(crc)
      /\ dlms_reverse_bits8(255 - h) = 255 - Hi(crc)
      /\ dlms_reverse_bits8(255 - l) = 255 - Lo(crc)
    BY <1>1, <1>2, Reversed
<1>4. 255 - h \in U8 /\ 255 - l \in U8
    BY DEF U8
<1>5. PICK c : c = crc16_finalize(crc) /\ c = Word(255 - h, 255 - l)
    BY <1>2 DEF crc16_finalize
<1>6. c \in U16 /\ Hi(c) = 255 - h /\ Lo(c) = 255 - l
    BY <1>4, <1>5, Words
<1>7. crc16_finalize(c) = Word(255 - (255 - Hi(crc)), 255 - (255 - Lo(crc)))
    BY <1>3, <1>6 DEF crc16_finalize
<1>8. 255 - (255 - Hi(crc)) = Hi(crc) /\ 255 - (255 - Lo(crc)) = Lo(crc)
    BY <1>1 DEF U8
<1>9. QED
    BY <1>1, <1>5, <1>6, <1>7, <1>8

LEMMA Initial == 65535 \in U16
BY Wide

LEMMA CrcTyped ==
    ASSUME NEW s \in Seq(U8)
    PROVE  dlms_crc16(s) \in U16
BY Initial, ComputeTyped, Finalized DEF dlms_crc16

LEMMA CrcPiecewise ==
    ASSUME NEW s \in Seq(U8), NEW t \in Seq(U8)
    PROVE  dlms_crc16_update(dlms_crc16(s), t) = dlms_crc16(s \o t)
<1> DEFINE all == 65535
<1>1. all \in U16
    BY Initial
<1>2. /\ dlms_crc16(s) = crc16_finalize(crc16_compute(s, all))
      /\ dlms_crc16(s \o t) = crc16_finalize(crc16_compute(s \o t, all))
    BY DEF dlms_crc16
<1> HIDE DEF all
<1>3. PICK c \in U16 : c = crc16_compute(s, all)
    BY <1>1, ComputeTyped
<1>4. crc16_finalize(crc16_finalize(c)) = c
    BY Finalized
<1>5. crc16_compute(s \o t, all) = crc16_compute(t, c)
    BY <1>1, <1>3, ComputeJoined
<1>6. QED
    BY <1>2, <1>3, <1>4, <1>5 DEF dlms_crc16_update

------------------------------------------------------------------------------
(* Byte stuffing is undone. *)

\* What is sent for a byte.
Sent(b) == IF needs_escape(b) THEN <<ESCAPE, Xor(b, 32)>> ELSE <<b>>
Stuff == [dst \in Seq(U8) |-> [b \in U8 |-> dst \o Sent(b)]]

LEMMA StuffIs ==
    ASSUME NEW s
    PROVE  dlms_hdlc_stuff(s) = Run(Seq(U8), Stuff, <<>>, s)
<1>1. PICK escaped : escaped = {b \in U8 : needs_escape(b)}
    OBVIOUS
<1>2. PICK stuff : stuff = [dst \in Seq(U8) |-> [b \in U8 |->
          dst \o (IF b \in escaped THEN <<ESCAPE, Xor(b, 32)>> ELSE <<b>>)]]
    OBVIOUS
<1>3. \A b \in U8 : (IF b \in escaped THEN <<ESCAPE, Xor(b, 32)>> ELSE <<b>>) = Sent(b)
    BY <1>1 DEF Sent
<1>4. stuff = Stuff
    BY <1>2, <1>3 DEF Stuff
<1>5. QED
    BY <1>1, <1>2, <1>4 DEF dlms_hdlc_stuff, Stuffed

LEMMA SentTyped ==
    ASSUME NEW b \in U8
    PROVE  Sent(b) \in Seq(U8) /\ Len(Sent(b)) \in {1, 2}
<1>1. 32 \in U8 /\ ESCAPE \in U8
    BY DEF U8, ESCAPE
<1>2. PICK x \in U8 : x = Xor(b, 32)
    BY <1>1, XorTyped
<1>3. <<ESCAPE, x>> \in Seq(U8) /\ Len(<<ESCAPE, x>>) = 2
    BY <1>1
<1>4. <<b>> \in Seq(U8) /\ Len(<<b>>) = 1
    OBVIOUS
<1>5. QED
    BY <1>2, <1>3, <1>4 DEF Sent

LEMMA StuffSteps == Steps(Stuff, Seq(U8))
<1>1. \A dst \in Seq(U8), b \in U8 : dst \o Sent(b) \in Seq(U8)
    BY SentTyped, ConcatProperties
<1>2. QED
    BY <1>1 DEF Stuff, Steps

LEMMA StuffTyped ==
    ASSUME NEW s \in Seq(U8)
    PROVE  dlms_hdlc_stuff(s) \in Seq(U8)
<1>1. <<>> \in Seq(U8)
    BY EmptySeq
<1>2. QED
    BY <1>1, StuffIs, StuffSteps, RunTyped

LEMMA StuffByte ==
    ASSUME NEW s \in Seq(U8), NEW b \in U8
    PROVE  dlms_hdlc_stuff(s \o <<b>>) = dlms_hdlc_stuff(s) \o Sent(b)
<1>1. <<>> \in Seq(U8) /\ <<b>> \in Seq(U8)
    BY EmptySeq
<1>2. PICK d \in Seq(U8) : d = dlms_hdlc_stuff(s)
    BY StuffTyped
<1> DEFINE S == Seq(U8)
<1>3. PICK t \in S, none \in S : t = <<b>> /\ none = <<>> /\ Len(t) = 1 /\ t[1] = b
    BY <1>1
<1>4. Run(S, Stuff, none, s \o t) = Run(S, Stuff, d, t)
  <2>1. Run(S, Stuff, none, s) = d
      BY <1>3, <1>2, StuffIs
  <2>2. Steps(Stuff, S)
      BY StuffSteps
  <2>3. QED
      BY <2>1, <2>2, RunJoined
<1>5. Run(S, Stuff, d, t) = Stuff[d][b]
  <2>1. Len(t) = 1
      BY <1>3
  <2>2. Run(S, Stuff, d, t) = Stuff[d][t[1]]
      BY <2>1, StuffSteps, RunByte
  <2>3. QED
      BY <1>3, <2>2
<1>6. Stuff[d][b] = d \o Sent(b)
    BY DEF Stuff
<1>7. QED
    BY <1>3, <1>2, <1>4, <1>5, <1>6, StuffIs

LEMMA UnstuffSteps == Steps(Unstuff, UnstuffState)
<1>1. ASSUME NEW u \in UnstuffState, NEW b \in U8
      PROVE  (IF u.escape THEN [dst |-> Append(u.dst, Xor(b, 32)), escape |-> FALSE]
              ELSE IF b = ESCAPE THEN [dst |-> u.dst, escape |-> TRUE]
              ELSE [dst |-> Append(u.dst, b), escape |-> FALSE]) \in UnstuffState
  <2>1. u.dst \in Seq(U8)
      BY DEF UnstuffState
  <2>2. 32 \in U8
      BY DEF U8
  <2>3. Xor(b, 32) \in U8
      BY <2>2, XorTyped
  <2>4. Append(u.dst, Xor(b, 32)) \in Seq(U8) /\ Append(u.dst, b) \in Seq(U8)
      BY <2>1, <2>3, AppendProperties
  <2>5. QED
      BY <2>1, <2>4 DEF UnstuffState
<1>2. QED
    BY <1>1 DEF Unstuff, Steps

\* What the receiver has when the bytes sent for b arrive after those for s.
LEMMA UnstuffSent ==
    ASSUME NEW s \in Seq(U8), NEW b \in U8
    PROVE  Run(UnstuffState, Unstuff, [dst |-> s, escape |-> FALSE], Sent(b))
               = [dst |-> Append(s, b), escape |-> FALSE]
<1>1. PICK u \in UnstuffState : u = [dst |-> s, escape |-> FALSE]
    BY DEF UnstuffState
<1>2. CASE needs_escape(b)
  <2>1. 32 \in U8 /\ ESCAPE \in U8
      BY DEF U8, ESCAPE
  <2>2. PICK x \in U8 : x = Xor(b, 32)
      BY <2>1, XorTyped
  <2>3. Xor(x, 32) = b
      BY <1>2, <2>2, Escapes DEF needs_escape, FLAG, ESCAPE
  <2>4. PICK first \in Seq(U8), second \in Seq(U8) :
            /\ first = <<ESCAPE>> /\ Len(first) = 1 /\ first[1] = ESCAPE
            /\ second = <<x>> /\ Len(second) = 1 /\ second[1] = x
    <3>1. <<ESCAPE>> \in Seq(U8) /\ <<x>> \in Seq(U8)
        BY <2>1
    <3>2. Len(<<ESCAPE>>) = 1 /\ <<ESCAPE>>[1] = ESCAPE /\ Len(<<x>>) = 1 /\ <<x>>[1] = x
        OBVIOUS
    <3>3. QED
        BY <3>1, <3>2
  <2>5. Sent(b) = first \o second
    <3>1. Sent(b) = <<ESCAPE, x>>
        BY <1>2, <2>2 DEF Sent
    <3>2. <<ESCAPE, x>> = <<ESCAPE>> \o <<x>>
        OBVIOUS
    <3>3. QED
        BY <2>4, <3>1, <3>2
  <2>6. PICK v \in UnstuffState : v = [dst |-> s, escape |-> TRUE]
      BY DEF UnstuffState
  <2>7. Unstuff[u][ESCAPE] = v
      BY <1>1, <2>1, <2>6 DEF Unstuff
  <2>8. Run(UnstuffState, Unstuff, u, first) = v
    <3>1. Len(first) = 1
        BY <2>4
    <3>2. Run(UnstuffState, Unstuff, u, first) = Unstuff[u][first[1]]
        BY <3>1, UnstuffSteps, RunByte
    <3>3. QED
        BY <2>4, <2>7, <3>2
  <2>9. Unstuff[v][x] = [dst |-> Append(s, b), escape |-> FALSE]
      BY <2>3, <2>6 DEF Unstuff
  <2>10. Run(UnstuffState, Unstuff, v, second) = Unstuff[v][x]
    <3>1. Len(second) = 1
        BY <2>4
    <3>2. Run(UnstuffState, Unstuff, v, second) = Unstuff[v][second[1]]
        BY <3>1, UnstuffSteps, RunByte
    <3>3. QED
        BY <2>4, <3>2
  <2>11. Run(UnstuffState, Unstuff, u, first \o second)
             = Run(UnstuffState, Unstuff, v, second)
      BY <2>8, UnstuffSteps, RunJoined
  <2>12. QED
      BY <1>1, <2>9, <2>10, <2>11, <2>5
<1>3. CASE ~needs_escape(b)
  <2>1. b # ESCAPE /\ Sent(b) = <<b>> /\ Sent(b) \in Seq(U8)
        /\ Len(Sent(b)) = 1 /\ Sent(b)[1] = b
      BY <1>3, SentTyped DEF needs_escape, Sent
  <2>2. Unstuff[u][b] = [dst |-> Append(s, b), escape |-> FALSE]
      BY <1>1, <2>1 DEF Unstuff
  <2>3. Run(UnstuffState, Unstuff, u, Sent(b)) = Unstuff[u][b]
    <3>1. PICK t \in Seq(U8) : t = Sent(b)
        BY <2>1
    <3>2. Len(t) = 1
        BY <2>1, <3>1
    <3>3. Run(UnstuffState, Unstuff, u, t) = Unstuff[u][t[1]]
        BY <3>2, UnstuffSteps, RunByte
    <3>4. QED
        BY <2>1, <3>1, <3>3
  <2>4. QED
      BY <1>1, <2>1, <2>2, <2>3
<1>4. QED
    BY <1>2, <1>3

\* What is stuffed is what the other end unstuffs, and it takes as many bytes at least.
Undone(s) ==
    /\ Run(UnstuffState, Unstuff, [dst |-> <<>>, escape |-> FALSE], dlms_hdlc_stuff(s))
           = [dst |-> s, escape |-> FALSE]
    /\ Len(dlms_hdlc_stuff(s)) >= Len(s)

LEMMA UndoneByte ==
    ASSUME NEW s \in Seq(U8), NEW b \in U8, Undone(s)
    PROVE  Undone(s \o <<b>>)
<1>1. PICK d \in Seq(U8), e \in Seq(U8) : d = dlms_hdlc_stuff(s) /\ e = Sent(b)
    BY StuffTyped, SentTyped
<1>2. dlms_hdlc_stuff(s \o <<b>>) = d \o e
    BY <1>1, StuffByte
<1>3. PICK u \in UnstuffState : u = [dst |-> <<>>, escape |-> FALSE]
    BY EmptySeq DEF UnstuffState
<1>4. PICK v \in UnstuffState : v = [dst |-> s, escape |-> FALSE]
    BY DEF UnstuffState
<1>5. Run(UnstuffState, Unstuff, u, d) = v /\ Len(d) >= Len(s)
    BY <1>1, <1>3, <1>4 DEF Undone
<1>6. Run(UnstuffState, Unstuff, u, d \o e) = Run(UnstuffState, Unstuff, v, e)
    BY <1>5, UnstuffSteps, RunJoined
<1>7. Run(UnstuffState, Unstuff, v, e) = [dst |-> Append(s, b), escape |-> FALSE]
    BY <1>1, <1>4, UnstuffSent
<1>8. Append(s, b) = s \o <<b>>
    BY AppendIsConcat
<1>9. Len(d \o e) >= Len(s \o <<b>>)
  <2>1. Len(d) \in Nat /\ Len(s) \in Nat
      BY LenProperties
  <2>2. PICK j \in {1, 2} : j = Len(e)
      BY <1>1, SentTyped
  <2>3. Len(d \o e) = Len(d) + Len(e)
      BY ConcatProperties
  <2>4. <<b>> \in Seq(U8) /\ Len(<<b>>) = 1
      OBVIOUS
  <2>5. Len(s \o <<b>>) = Len(s) + 1
      BY <2>4, ConcatProperties
  <2>6. Len(e) \in Nat /\ Len(e) >= 1
      BY <2>2
  <2>7. PICK k \in Nat, l \in Nat, m \in Nat : k = Len(d) /\ l = Len(s) /\ m = Len(e) /\ m >= 1
      BY <2>1, <2>6
  <2>8. QED
      BY <1>5, <2>3, <2>5, <2>7
<1>10. QED
    BY <1>2, <1>3, <1>6, <1>7, <1>8, <1>9 DEF Undone

LEMMA AlwaysUndone ==
    ASSUME NEW s \in Seq(U8)
    PROVE  Undone(s)
<1>1. Len(s) \in Nat
    BY LenProperties
<1> DEFINE D == {n \in Nat : n <= Len(s) => Undone(SubSeq(s, 1, n))}
<1>2. 0 \in D
  <2>1. SubSeq(s, 1, 0) = <<>> /\ Len(<<>>) = 0
      BY SubSeqEmpty, EmptySeq
  <2>2. dlms_hdlc_stuff(<<>>) = <<>>
      BY StuffIs, RunEmpty
  <2>3. Undone(<<>>)
      BY <2>1, <2>2, RunEmpty DEF Undone
  <2>4. QED
      BY <2>1, <2>3
<1>3. ASSUME NEW n \in D PROVE n + 1 \in D
  <2>1. SUFFICES ASSUME n + 1 <= Len(s) PROVE Undone(SubSeq(s, 1, n + 1))
      OBVIOUS
  <2>2. n \in Nat /\ n <= Len(s) /\ Undone(SubSeq(s, 1, n))
      BY <1>1, <2>1
  <2>3. 1 \in 1 .. Len(s) /\ n + 1 \in 1 .. Len(s) /\ (n + 1) - 1 = n
      BY <1>1, <2>1, <2>2
  <2>4. SubSeq(s, 1, n + 1) = SubSeq(s, 1, n) \o <<s[n + 1]>>
      BY <2>3, SubSeqRecursiveSecond
  <2>5. SubSeq(s, 1, n) \in Seq(U8) /\ s[n + 1] \in U8
    <3>1. \A i \in 1 .. n : s[i] \in U8
        BY <1>1, <2>2, ElementOfSeq
    <3>2. QED
        BY <2>2, <2>3, <3>1, ElementOfSeq, SubSeqProperties
  <2>6. QED
      BY <2>2, <2>4, <2>5, UndoneByte
<1>4. D = Nat
  <2> HIDE DEF D
  <2>1. D \subseteq Nat
      BY DEF D
  <2>2. QED
      BY <1>2, <1>3, <2>1, AllNumbers
<1>5. Undone(SubSeq(s, 1, Len(s)))
    BY <1>1, <1>4
<1>6. QED
    BY <1>5, SubSeqFull

LEMMA Unstuffed ==
    ASSUME NEW s \in Seq(U8)
    PROVE  dlms_hdlc_unstuff(dlms_hdlc_stuff(s)) = s /\ Len(dlms_hdlc_stuff(s)) >= Len(s)
<1>1. PICK d : d = dlms_hdlc_stuff(s)
    OBVIOUS
<1>2. PICK end : end = Run(UnstuffState, Unstuff, [dst |-> <<>>, escape |-> FALSE], d)
    OBVIOUS
<1>3. end = [dst |-> s, escape |-> FALSE] /\ Len(d) >= Len(s)
    BY <1>1, <1>2, AlwaysUndone DEF Undone
<1>4. dlms_hdlc_unstuff(d) = IF end.escape THEN <<>> ELSE end.dst
    BY <1>2 DEF dlms_hdlc_unstuff
<1>5. QED
    BY <1>1, <1>3, <1>4

------------------------------------------------------------------------------
(* Control, address and format fields. *)

\* The frames that the builders make.
Sendable(f) ==
    /\ f \in [type : {"SNRM", "UA", "DISC", "RR", "INFO", "UI"}, dest : Addresses,
              src : Addresses, send_seq : 0 .. 7, recv_seq : 0 .. 7,
              final : BOOLEAN, info : Seq(U8)]
    /\ f.type # "INFO" => f.send_seq = 0
    /\ f.type \notin {"INFO", "RR"} => f.recv_seq = 0
    /\ f.type \in {"DISC", "RR"} => f.info = <<>>

LEMMA ControlInfo ==
    ASSUME NEW f, Sendable(f), f.type = "INFO", NEW c, c = control_encode(f)
    PROVE  /\ c \in U8 /\ detect_frame_type(c) = "INFO"
           /\ Odd(c \div 16) = f.final /\ (c \div 2) % 8 = f.send_seq /\ c \div 32 = f.recv_seq
<1>1. f.send_seq \in 0 .. 7 /\ f.recv_seq \in 0 .. 7 /\ f.final \in BOOLEAN
    BY DEF Sendable
<1>2. PICK ns \in Nat, nr \in Nat : ns = f.send_seq /\ nr = f.recv_seq /\ ns < 8 /\ nr < 8
    BY <1>1
<1>3. PICK p \in {0, 1} : (p = 1 <=> f.final) /\ Final(f) = 16 * p
  <2>1. CASE f.final
      BY <2>1 DEF Final
  <2>2. CASE ~f.final
      BY <2>2 DEF Final
  <2>3. QED
      BY <2>1, <2>2
<1>4. c = 2 * ns + 32 * nr + 16 * p
    BY <1>2, <1>3 DEF control_encode
<1>5. c \in Nat /\ c <= 255 /\ c % 2 = 0 /\ c \div 2 = ns + 8 * (p + 2 * nr)
      /\ c \div 16 = p + 2 * nr /\ c \div 32 = nr
  <2>1. c \in Nat /\ c <= 255
      BY <1>2, <1>4
  <2>2. PICK h \in Nat : h = ns + 8 * (p + 2 * nr)
      BY <1>2
  <2>3. c = 2 * h
      BY <1>2, <1>4, <2>2
  <2>4. c % 2 = 0 /\ c \div 2 = ns + 8 * (p + 2 * nr)
      BY <2>2, <2>3
  <2>5. c = 16 * (p + 2 * nr) + 2 * ns /\ p + 2 * nr \in Nat /\ 2 * ns \in Nat /\ 2 * ns < 16
      BY <1>2, <1>4
  <2>6. c \div 16 = p + 2 * nr
      BY <2>5
  <2>7. c = 32 * nr + (16 * p + 2 * ns) /\ 16 * p + 2 * ns \in Nat /\ 16 * p + 2 * ns < 32
      BY <1>2, <1>4
  <2>8. c \div 32 = nr
      BY <1>2, <2>7
  <2>9. QED
      BY <2>1, <2>4, <2>6, <2>8
<1>6. (ns + 8 * (p + 2 * nr)) % 8 = ns /\ (p + 2 * nr) % 2 = p
    BY <1>2
<1>7. c \in U8 /\ detect_frame_type(c) = "INFO"
  <2>1. c \in U8
      BY <1>5 DEF U8
  <2>2. ~Odd(c) /\ c % 4 # 1 /\ c \notin {147, 131, 115, 99, 83, 67}
      BY <1>5 DEF Odd
  <2>3. QED
      BY <2>1, <2>2 DEF detect_frame_type
<1>8. Odd(c \div 16) = f.final
    BY <1>1, <1>3, <1>5, <1>6 DEF Odd
<1>9. QED
    BY <1>2, <1>5, <1>6, <1>7, <1>8

LEMMA ControlReady ==
    ASSUME NEW f, Sendable(f), f.type = "RR", NEW c, c = control_encode(f)
    PROVE  c \in U8 /\ detect_frame_type(c) = "RR" /\ Odd(c \div 16) /\ c \div 32 = f.recv_seq
<1>1. PICK nr \in Nat : nr = f.recv_seq /\ nr < 8
    BY DEF Sendable
<1>2. c = 32 * nr + 17
    BY <1>1 DEF control_encode
<1>3. c \in Nat /\ c <= 255 /\ c % 2 = 1 /\ c % 4 = 1 /\ c \div 16 = 2 * nr + 1 /\ c \div 32 = nr
  <2>1. c \in Nat /\ c <= 255
      BY <1>1, <1>2
  <2>2. c = 4 * (8 * nr + 4) + 1 /\ 8 * nr + 4 \in Nat
      BY <1>1, <1>2
  <2>3. c % 4 = 1 /\ c % 2 = 1
      BY <2>2
  <2>4. c = 16 * (2 * nr + 1) + 1 /\ 2 * nr + 1 \in Nat /\ c = 32 * nr + 17
      BY <1>1, <1>2
  <2>5. c \div 16 = 2 * nr + 1 /\ c \div 32 = nr
      BY <1>1, <2>4
  <2>6. QED
      BY <2>1, <2>3, <2>5
<1>4. (2 * nr + 1) % 2 = 1
    BY <1>1
<1>5. c \notin {147, 131, 115, 99, 83, 67}
    BY <1>3
<1>6. c \in U8 /\ detect_frame_type(c) = "RR"
  <2>1. c \in U8 /\ Odd(c)
      BY <1>3 DEF U8, Odd
  <2>2. QED
      BY <1>3, <1>5, <2>1 DEF detect_frame_type
<1>7. QED
    BY <1>1, <1>3, <1>4, <1>6 DEF Odd

LEMMA ControlOther ==
    ASSUME NEW f, Sendable(f), f.type \notin {"INFO", "RR"}, NEW c, c = control_encode(f)
    PROVE  /\ c \in U8 /\ detect_frame_type(c) = f.type
           /\ Odd(c \div 16) = (IF f.type = "UI" THEN f.final ELSE TRUE)
<1>1. f.type \in {"SNRM", "UA", "DISC", "UI"} /\ f.final \in BOOLEAN
    BY DEF Sendable
<1>2. CASE f.type = "SNRM"
  <2>1. c = 147
      BY <1>2 DEF control_encode
  <2>2. 147 \in U8 /\ 147 % 2 = 1 /\ 147 % 4 = 3 /\ 147 \div 16 = 9 /\ 9 % 2 = 1
      BY DEF U8
  <2>3. detect_frame_type(147) = "SNRM"
      BY <2>2 DEF detect_frame_type, Odd
  <2>4. Odd(c \div 16)
      BY <2>1, <2>2 DEF Odd
  <2>5. c \in U8 /\ detect_frame_type(c) = f.type
      BY <1>2, <2>1, <2>2, <2>3
  <2>6. QED
      BY <1>2, <2>4, <2>5
<1>3. CASE f.type = "UA"
  <2>1. c = 115
      BY <1>3 DEF control_encode
  <2>2. 115 \in U8 /\ 115 % 2 = 1 /\ 115 % 4 = 3 /\ 115 \div 16 = 7 /\ 7 % 2 = 1
      BY DEF U8
  <2>3. detect_frame_type(115) = "UA"
      BY <2>2 DEF detect_frame_type, Odd
  <2>4. Odd(c \div 16)
      BY <2>1, <2>2 DEF Odd
  <2>5. c \in U8 /\ detect_frame_type(c) = f.type
      BY <1>3, <2>1, <2>2, <2>3
  <2>6. QED
      BY <1>3, <2>4, <2>5
<1>4. CASE f.type = "DISC"
  <2>1. c = 83
      BY <1>4 DEF control_encode
  <2>2. 83 \in U8 /\ 83 % 2 = 1 /\ 83 % 4 = 3 /\ 83 \div 16 = 5 /\ 5 % 2 = 1
      BY DEF U8
  <2>3. detect_frame_type(83) = "DISC"
      BY <2>2 DEF detect_frame_type, Odd
  <2>4. Odd(c \div 16)
      BY <2>1, <2>2 DEF Odd
  <2>5. c \in U8 /\ detect_frame_type(c) = f.type
      BY <1>4, <2>1, <2>2, <2>3
  <2>6. QED
      BY <1>4, <2>4, <2>5
<1>5. CASE f.type = "UI" /\ f.final
  <2>1. c = 19
      BY <1>5 DEF control_encode, Final
  <2>2. 19 \in U8 /\ 19 % 2 = 1 /\ 19 % 4 = 3 /\ 19 \div 16 = 1 /\ 1 % 2 = 1
      BY DEF U8
  <2>3. detect_frame_type(19) = "UI"
      BY <2>2 DEF detect_frame_type, Odd
  <2>4. Odd(c \div 16)
      BY <2>1, <2>2 DEF Odd
  <2>5. c \in U8 /\ detect_frame_type(c) = f.type
      BY <1>5, <2>1, <2>2, <2>3
  <2>6. QED
      BY <1>5, <2>4, <2>5
<1>6. CASE f.type = "UI" /\ ~f.final
  <2>1. c = 3
      BY <1>6 DEF control_encode, Final
  <2>2. 3 \in U8 /\ 3 % 2 = 1 /\ 3 % 4 = 3 /\ 3 \div 16 = 0 /\ 0 % 2 = 0
      BY DEF U8
  <2>3. detect_frame_type(3) = "UI"
      BY <2>2 DEF detect_frame_type, Odd
  <2>4. Odd(c \div 16) = FALSE /\ f.final = FALSE
      BY <1>1, <1>6, <2>1, <2>2 DEF Odd
  <2>5. c \in U8 /\ detect_frame_type(c) = f.type
      BY <1>6, <2>1, <2>2, <2>3
  <2>6. QED
      BY <1>6, <2>4, <2>5
<1>7. CASE f.type = "UI"
    BY <1>5, <1>6, <1>7
<1>8. CASE f.type # "UI"
    BY <1>1, <1>2, <1>3, <1>4, <1>8
<1>9. QED
    BY <1>7, <1>8

\* The control field of a frame is read as it was meant.
Understood(f, c) ==
    /\ c \in U8 /\ detect_frame_type(c) = f.type
    /\ dlms_hdlc_control_decode(c, f.type)
           = [final |-> Meaning(f).final, send_seq |-> f.send_seq, recv_seq |-> f.recv_seq]

LEMMA ControlUnderstood ==
    ASSUME NEW f, Sendable(f)
    PROVE  Understood(f, control_encode(f))
<1>1. PICK c : c = control_encode(f)
    OBVIOUS
<1>2. f.final \in BOOLEAN
    BY DEF Sendable
<1>3. Meaning(f).final = IF f.type \in {"INFO", "UI"} THEN f.final ELSE TRUE
    BY DEF Meaning
<1>4. CASE f.type = "INFO"
  <2>1. /\ c \in U8 /\ detect_frame_type(c) = "INFO"
        /\ Odd(c \div 16) = f.final /\ (c \div 2) % 8 = f.send_seq /\ c \div 32 = f.recv_seq
      BY <1>1, <1>4, ControlInfo
  <2>2. QED
      BY <1>1, <1>3, <1>4, <2>1 DEF Understood, dlms_hdlc_control_decode
<1>5. CASE f.type = "RR"
  <2>1. /\ c \in U8 /\ detect_frame_type(c) = "RR" /\ Odd(c \div 16) = TRUE
        /\ c \div 32 = f.recv_seq
      BY <1>1, <1>5, ControlReady DEF Odd
  <2>2. f.send_seq = 0
      BY <1>5 DEF Sendable
  <2>3. QED
      BY <1>1, <1>3, <1>5, <2>1, <2>2 DEF Understood, dlms_hdlc_control_decode
<1>6. CASE f.type \notin {"INFO", "RR"}
  <2>1. /\ c \in U8 /\ detect_frame_type(c) = f.type
        /\ Odd(c \div 16) = (IF f.type = "UI" THEN f.final ELSE TRUE)
      BY <1>1, <1>6, ControlOther
  <2>2. f.send_seq = 0 /\ f.recv_seq = 0
      BY <1>6 DEF Sendable
  <2>3. QED
      BY <1>1, <1>3, <1>6, <2>1, <2>2 DEF Understood, dlms_hdlc_control_decode
<1>7. QED
    BY <1>4, <1>5, <1>6

\* n bytes, and m of s followed by n of t.
Sized(s, n) == s \in Seq(U8) /\ n \in Nat /\ Len(s) = n
Joins(st, s, m, t, n) ==
    /\ st \in Seq(U8) /\ Len(st) = m + n
    /\ \A i \in 1 .. m : st[i] = s[i]
    /\ \A i \in 1 .. n : st[m + i] = t[i]

LEMMA Concat ==
    ASSUME NEW s, NEW t, NEW m, NEW n, Sized(s, m), Sized(t, n)
    PROVE  Sized(s \o t, m + n) /\ Joins(s \o t, s, m, t, n)
<1>1. m \in Nat /\ n \in Nat /\ s \in Seq(U8) /\ t \in Seq(U8) /\ Len(s) = m /\ Len(t) = n
    BY DEF Sized
<1>2. PICK st : st = s \o t
    OBVIOUS
<1>3. st \in Seq(U8) /\ Len(st) = m + n
    BY <1>1, <1>2, ConcatProperties
<1>4. \A i \in 1 .. m + n : st[i] = IF i <= m THEN s[i] ELSE t[i - m]
    BY <1>1, <1>2, ConcatProperties
<1>5. \A i \in 1 .. m : st[i] = s[i]
    BY <1>1, <1>4
<1>6. ASSUME NEW i \in 1 .. n PROVE st[m + i] = t[i]
  <2>1. m + i \in 1 .. m + n /\ ~(m + i <= m) /\ (m + i) - m = i
      BY <1>1
  <2>2. QED
      BY <1>4, <2>1
<1>7. Sized(st, m + n) /\ Joins(st, s, m, t, n)
    BY <1>1, <1>3, <1>5, <1>6 DEF Sized, Joins
<1>8. QED
    BY <1>2, <1>7

HalfBytes(x, last, hi, lo) ==
    /\ AddressHalf(x, last) = <<hi, lo>>
    /\ Plain(x) => ~Odd(hi) /\ DecodedHalf(hi, lo) = Exchanged(x)
    /\ Odd(lo) <=> last = 1

\* The bounds of U14.
LEMMA InU14 == \A w : w \in U14 <=> w \in Nat /\ w < 16384
<1>1. PICK k \in Nat : k = 16383
    OBVIOUS
<1>2. U14 = 0 .. k
    BY <1>1 DEF U14
<1>3. \A w : w \in U14 <=> w \in Nat /\ w <= k
    BY <1>2
<1>4. QED
    BY <1>1, <1>3

LEMMA HalfTyped ==
    ASSUME NEW x \in U14, NEW last \in {0, 1}
    PROVE  \E hi, lo \in U8 : HalfBytes(x, last, hi, lo)
<1>1. PICK n \in Nat : n = x /\ n < 16384
    BY InU14
<1>2. PICK hi \in Nat, r \in Nat : hi = n \div 64 /\ r = n % 128 /\ hi < 256 /\ r < 128
    BY <1>1
<1>3. hi % 256 = hi
    BY <1>2
<1>4. PICK lo \in Nat : lo = (2 * r) + last /\ lo < 256
    BY <1>2
<1>5. lo % 2 = last
    BY <1>2, <1>4
<1>6. AddressHalf(x, last) = <<hi, lo>>
    BY <1>1, <1>2, <1>3, <1>4 DEF AddressHalf
<1>7. hi \in U8 /\ lo \in U8
    BY <1>2, <1>4 DEF U8
<1>8. Plain(x) => ~Odd(hi)
    BY <1>1, <1>2 DEF Plain, Odd
<1>9. Odd(lo) <=> last = 1
    BY <1>5 DEF Odd
<1>10. ASSUME Plain(x) PROVE DecodedHalf(hi, lo) = Exchanged(x)
  <2>1. PICK q \in Nat : q = n \div 128 /\ n = 128 * q + r
      BY <1>1, <1>2
  <2>2. hi % 2 = 0
      BY <1>1, <1>2, <1>10 DEF Plain
  <2>3. hi \div 2 = q
      BY <1>1, <1>2, <2>1, <2>2
  <2>4. lo - (lo % 2) = 2 * r
      BY <1>2, <1>4, <1>5
  <2>5. DecodedHalf(hi, lo) = q + 64 * (2 * r)
      BY <2>3, <2>4 DEF DecodedHalf
  <2>6. Exchanged(x) = q + 128 * r
      BY <1>1, <1>2, <2>1 DEF Exchanged
  <2>7. QED
      BY <1>2, <2>1, <2>5, <2>6
<1>11. QED
    BY <1>6, <1>7, <1>8, <1>9, <1>10 DEF HalfBytes

\* The bytes of a server address: the last is odd, and of a plain one only the last.
HalvesRead(a, e, n) ==
    /\ DecodedHalf(e[1], e[2]) = Exchanged(a.logical)
    /\ n = 4 => DecodedHalf(e[3], e[4]) = Exchanged(a.physical)
Ends(a, e, n) ==
    /\ e \in Seq(U8) /\ Len(e) = n /\ n \in {2, 4}
    /\ Odd(e[n])
    /\ PlainAddress(a) => (\A i \in 1 .. n - 1 : ~Odd(e[i])) /\ HalvesRead(a, e, n)
    /\ n = 4 <=> a.has_physical

LEMMA AddressEnds ==
    ASSUME NEW a \in Addresses
    PROVE  \E n \in {2, 4} : Ends(a, dlms_hdlc_address_encode(a, FALSE), n)
<1>1. PICK e : e = dlms_hdlc_address_encode(a, FALSE)
    OBVIOUS
<1>2. a.logical \in U14 /\ a.physical \in U14 /\ a.has_physical \in BOOLEAN
    BY DEF Addresses
<1>3. CASE a.has_physical
  <2>1. PICK h1, l1 \in U8 : HalfBytes(a.logical, 0, h1, l1)
      BY <1>2, HalfTyped
  <2>2. PICK h2, l2 \in U8 : HalfBytes(a.physical, 1, h2, l2)
      BY <1>2, HalfTyped
  <2>3. e = <<h1, l1>> \o <<h2, l2>>
      BY <1>1, <1>3, <2>1, <2>2 DEF dlms_hdlc_address_encode, HalfBytes
  <2>4. PICK p \in Seq(U8), q \in Seq(U8) : /\ p = <<h1, l1>> /\ Len(p) = 2 /\ p[1] = h1 /\ p[2] = l1
                                           /\ q = <<h2, l2>> /\ Len(q) = 2 /\ q[1] = h2 /\ q[2] = l2
    <3>1. /\ <<h1, l1>> \in Seq(U8) /\ Len(<<h1, l1>>) = 2
          /\ <<h1, l1>>[1] = h1 /\ <<h1, l1>>[2] = l1
        OBVIOUS
    <3>2. /\ <<h2, l2>> \in Seq(U8) /\ Len(<<h2, l2>>) = 2
          /\ <<h2, l2>>[1] = h2 /\ <<h2, l2>>[2] = l2
        OBVIOUS
    <3>3. QED
        BY <3>1, <3>2
  <2>5. e \in Seq(U8) /\ Len(e) = 4 /\ e[1] = h1 /\ e[2] = l1 /\ e[3] = h2 /\ e[4] = l2
    <3>1. e = p \o q
        BY <2>3, <2>4
    <3>2. Len(p) = 2 /\ Len(q) = 2 /\ p[1] = h1 /\ p[2] = l1 /\ q[1] = h2 /\ q[2] = l2
        BY <2>4
    <3>3. Sized(p, 2) /\ Sized(q, 2)
        BY <3>2 DEF Sized
    <3>4. Joins(e, p, 2, q, 2)
        BY <3>1, <3>3, Concat
    <3>5. e \in Seq(U8) /\ Len(e) = 4
        BY <3>4 DEF Joins
    <3>6. e[1] = p[1] /\ e[2] = p[2]
        BY <3>4 DEF Joins
    <3>7. e[2 + 1] = q[1] /\ e[2 + 2] = q[2]
        BY <3>4 DEF Joins
    <3>8. 2 + 1 = 3 /\ 2 + 2 = 4
        OBVIOUS
    <3>9. QED
        BY <3>2, <3>5, <3>6, <3>7, <3>8
  <2>6. PlainAddress(a) => \A i \in 1 .. 4 - 1 : ~Odd(e[i])
    <3>1. SUFFICES ASSUME PlainAddress(a), NEW i \in 1 .. 4 - 1 PROVE ~Odd(e[i])
        OBVIOUS
    <3>2. ~Odd(h1) /\ ~Odd(l1) /\ ~Odd(h2)
        BY <1>3, <2>1, <2>2, <3>1 DEF PlainAddress, HalfBytes
    <3>3. i = 1 \/ i = 2 \/ i = 3
        OBVIOUS
    <3>4. QED
        BY <2>5, <3>2, <3>3
  <2>7. Odd(e[4])
      BY <2>2, <2>5 DEF HalfBytes
  <2>8. PlainAddress(a) => HalvesRead(a, e, 4)
      BY <1>3, <2>1, <2>2, <2>5 DEF PlainAddress, HalfBytes, HalvesRead
  <2>9. Ends(a, e, 4)
      BY <1>3, <2>5, <2>6, <2>7, <2>8 DEF Ends
  <2>10. QED
      BY <1>1, <2>9
<1>4. CASE ~a.has_physical
  <2>1. PICK h1, l1 \in U8 : HalfBytes(a.logical, 1, h1, l1)
      BY <1>2, HalfTyped
  <2>2. e = <<h1, l1>>
      BY <1>1, <1>4, <2>1 DEF dlms_hdlc_address_encode, HalfBytes
  <2>3. <<h1, l1>> \in Seq(U8) /\ Len(<<h1, l1>>) = 2 /\ <<h1, l1>>[1] = h1 /\ <<h1, l1>>[2] = l1
      OBVIOUS
  <2>4. e \in Seq(U8) /\ Len(e) = 2 /\ e[1] = h1 /\ e[2] = l1
      BY <2>2, <2>3
  <2>5. PlainAddress(a) => \A i \in 1 .. 2 - 1 : ~Odd(e[i])
    <3>1. SUFFICES ASSUME PlainAddress(a), NEW i \in 1 .. 2 - 1 PROVE ~Odd(e[i])
        OBVIOUS
    <3>2. ~Odd(h1) /\ i = 1
        BY <2>1, <3>1 DEF PlainAddress, HalfBytes
    <3>3. QED
        BY <2>4, <3>2
  <2>6. Odd(e[2])
      BY <2>1, <2>4 DEF HalfBytes
  <2>7. PlainAddress(a) => HalvesRead(a, e, 2)
      BY <1>4, <2>1, <2>4 DEF PlainAddress, HalfBytes, HalvesRead
  <2>8. Ends(a, e, 2)
      BY <1>4, <2>4, <2>5, <2>6, <2>7 DEF Ends
  <2>9. QED
      BY <1>1, <2>8
<1>5. QED
    BY <1>3, <1>4

\* A plain address is read to its end and no further.
ReadTo(t, n, a) ==
    /\ dlms_hdlc_address_decode(t, FALSE).code = "OK"
    /\ dlms_hdlc_address_decode(t, FALSE).consumed = n
    /\ DecodedAddress(dlms_hdlc_address_decode(t, FALSE)) = ServerRead(a)

Begins(t, e, n) == Len(t) >= n /\ \A i \in 1 .. n : t[i] = e[i]

LEMMA AddressRead ==
    ASSUME NEW a \in Addresses, PlainAddress(a), NEW e, NEW n \in {2, 4}, Ends(a, e, n),
           NEW t \in Seq(U8), Begins(t, e, n)
    PROVE  ReadTo(t, n, a)
<1>1. PICK len \in Nat : len = Len(t) /\ len >= n
    BY LenProperties DEF Begins
<1>2. Odd(t[n]) /\ \A i \in 1 .. n - 1 : ~Odd(t[i])
    BY DEF Begins, Ends
<1>3. PICK odd : odd = {i \in 1 .. Len(t) : i <= 4 /\ Odd(t[i])}
    OBVIOUS
<1>4. n \in odd
    BY <1>1, <1>2, <1>3
<1>5. \A i \in odd : i \in Nat /\ n <= i
  <2>1. SUFFICES ASSUME NEW i \in odd PROVE i \in Nat /\ n <= i
      OBVIOUS
  <2>2. i \in 1 .. len /\ Odd(t[i])
      BY <1>1, <1>3
  <2>3. i \notin 1 .. n - 1
      BY <1>2, <2>2
  <2>4. QED
      BY <2>2, <2>3
<1>6. PICK first : first = CHOOSE i \in odd : \A j \in odd : i <= j
    OBVIOUS
<1>7. first \in odd /\ \A j \in odd : first <= j
    BY <1>4, <1>5, <1>6
<1>8. first = n
    BY <1>4, <1>5, <1>7
<1>9. AddressLen(t) = n
    BY <1>3, <1>4, <1>6, <1>8 DEF AddressLen
<1>10. t # <<>>
    BY <1>1, EmptySeq
<1>11. ~(n = 4 /\ ~Odd(t[4]))
    BY <1>2
<1>12. PICK l : l = DecodedHalf(t[1], t[2]) /\ l = Exchanged(a.logical)
    BY DEF Begins, Ends, HalvesRead
<1>13. PICK p : /\ p = IF n > 2 THEN DecodedHalf(t[3], t[4]) ELSE 0
                /\ p = IF a.has_physical THEN Exchanged(a.physical) ELSE 0
    BY DEF Begins, Ends, HalvesRead
<1>14. PICK long \in BOOLEAN : long = (n > 2) /\ long = a.has_physical
    BY DEF Ends, Addresses
<1>15. dlms_hdlc_address_decode(t, FALSE) =
           [code |-> "OK", consumed |-> n, has_physical |-> n > 2, logical |-> l, physical |-> p]
    BY <1>9, <1>10, <1>11, <1>12, <1>13 DEF dlms_hdlc_address_decode
<1>16. PICK d : d = dlms_hdlc_address_decode(t, FALSE)
    OBVIOUS
<1>17. d = [code |-> "OK", consumed |-> n, has_physical |-> n > 2, logical |-> l, physical |-> p]
    BY <1>15, <1>16, Zenon
<1>18. d.code = "OK" /\ d.consumed = n /\ d.logical = l /\ d.physical = p
    BY <1>17
<1>19. d.has_physical = long
    BY <1>14, <1>17, Zenon
<1>20. DecodedAddress(d) = [logical |-> l, physical |-> p, has_physical |-> long]
    BY <1>18, <1>19, Zenon DEF DecodedAddress
<1>21. ServerRead(a) = [logical |-> l, physical |-> p, has_physical |-> long]
    BY <1>12, <1>13, <1>14 DEF ServerRead
<1>22. QED
    BY <1>16, <1>18, <1>20, <1>21, Zenon DEF ReadTo

\* The destination is one byte, with seven bits of the address.
SevenBits(a, b) == b \div 2 = a.logical % 128
ClientByte(a, b) ==
    /\ dlms_hdlc_address_encode(a, TRUE) = <<b>>
    /\ SevenBits(a, b)

LEMMA ClientAddress ==
    ASSUME NEW a \in Addresses
    PROVE  \E b \in U8 : ClientByte(a, b)
<1>1. PICK x \in Nat : x = a.logical
    BY InU14 DEF Addresses
<1>2. PICK b : b = ((2 * x) % 256) + 1
    OBVIOUS
<1>3. b \in U8 /\ b \div 2 = x % 128
  <2>1. PICK q \in Nat, r \in 0 .. 127 : x = 128 * q + r /\ x % 128 = r
      BY <1>1
  <2>2. 2 * x = 256 * q + 2 * r
      BY <2>1
  <2>3. (2 * x) % 256 = 2 * r
      BY <2>1, <2>2
  <2>4. b = 2 * r + 1
      BY <1>2, <2>3
  <2>5. QED
      BY <2>1, <2>4 DEF U8
<1>4. QED
    BY <1>1, <1>2, <1>3 DEF dlms_hdlc_address_encode, ClientByte, SevenBits

FormatBytes(length, hi, lo) ==
    /\ dlms_hdlc_format_encode(length, FALSE) = <<hi, lo>>
    /\ length < 256 => hi = 160 /\ lo = length

LEMMA FormatTyped ==
    ASSUME NEW length \in Nat
    PROVE  \E hi, lo \in U8 : FormatBytes(length, hi, lo)
<1>1. PICK m \in Nat : m = length % 2048 /\ m < 2048 /\ (length < 256 => m = length)
    OBVIOUS
<1>2. PICK val \in Nat : val = 40960 + m /\ val < 65536
    BY <1>1
<1>3. val \in U16
    BY <1>2, Wide
<1>4. Hi(val) \in U8 /\ Lo(val) \in U8
    BY <1>3, Halves
<1>5. ASSUME length < 256 PROVE Hi(val) = 160 /\ Lo(val) = length
  <2>1. val = Word(160, length)
      BY <1>1, <1>2, <1>5 DEF Word
  <2>2. 160 \in U8 /\ length \in U8
      BY <1>5 DEF U8
  <2>3. QED
      BY <2>1, <2>2, Words
<1>6. PICK hi, lo \in U8 : hi = Hi(val) /\ lo = Lo(val) /\ hi + 0 = hi
  <2>1. \A b \in U8 : b + 0 = b
      BY DEF U8
  <2>2. QED
      BY <1>4, <2>1
<1>7. dlms_hdlc_format_encode(length, FALSE) = <<hi, lo>>
    BY <1>1, <1>2, <1>6 DEF dlms_hdlc_format_encode
<1>8. QED
    BY <1>5, <1>6, <1>7 DEF FormatBytes

LEMMA FormatRead ==
    ASSUME NEW s, NEW length \in 0 .. 255, s[1] = 160, s[2] = length
    PROVE  dlms_hdlc_format_decode(s).code = "OK" /\ dlms_hdlc_format_decode(s).length = length
<1>1. 160 \div 16 = 10 /\ 160 % 8 = 0 /\ Word(0, length) = length
    BY DEF Word
<1>2. QED
    BY <1>1 DEF dlms_hdlc_format_decode

LEMMA WithCrcTyped ==
    ASSUME NEW s \in Seq(U8)
    PROVE  /\ WithCrc(s) \in Seq(U8) /\ Len(WithCrc(s)) = Len(s) + 2
           /\ \A i \in 1 .. Len(s) : WithCrc(s)[i] = s[i]
           /\ ~FcsWrong(WithCrc(s))
<1>1. PICK crc \in U16 : crc = dlms_crc16(s)
    BY CrcTyped
<1>2. PICK h \in U8, l \in U8 : h = Hi(crc) /\ l = Lo(crc) /\ Word(h, l) = crc
    BY Halves
<1>3. <<h, l>> \in Seq(U8) /\ Len(<<h, l>>) = 2 /\ <<h, l>>[1] = h /\ <<h, l>>[2] = l
    OBVIOUS
<1>4. PICK w : w = WithCrc(s) /\ w = s \o <<h, l>>
    BY <1>1, <1>2 DEF WithCrc
<1>5. PICK n \in Nat : n = Len(s)
    BY LenProperties
<1>6. w \in Seq(U8) /\ Len(w) = n + 2
    BY <1>3, <1>4, <1>5, ConcatProperties
<1>7. \A i \in 1 .. n + 2 : w[i] = IF i <= n THEN s[i] ELSE <<h, l>>[i - n]
    BY <1>3, <1>4, <1>5, ConcatProperties
<1>8. \A i \in 1 .. n : w[i] = s[i]
    BY <1>7
<1>9. w[n + 1] = h /\ w[n + 2] = l
  <2>1. n + 1 \in 1 .. n + 2 /\ ~(n + 1 <= n) /\ (n + 1) - n = 1
        /\ n + 2 \in 1 .. n + 2 /\ ~(n + 2 <= n) /\ (n + 2) - n = 2
      OBVIOUS
  <2>2. w[n + 1] = <<h, l>>[1] /\ w[n + 2] = <<h, l>>[2]
      BY <1>7, <2>1
  <2>3. QED
      BY <1>3, <2>2
<1>10. SubSeq(w, 1, n) = s
  <2>1. \A i \in 1 .. n : w[i] \in U8
      BY <1>5, <1>8, ElementOfSeq
  <2>2. SubSeq(w, 1, n) \in Seq(U8) /\ Len(SubSeq(w, 1, n)) = n
        /\ \A i \in 1 .. n : SubSeq(w, 1, n)[i] = w[i]
    <3>1. /\ SubSeq(w, 1, n) \in Seq(U8)
          /\ Len(SubSeq(w, 1, n)) = IF 1 <= n THEN n - 1 + 1 ELSE 0
          /\ \A i \in 1 .. n - 1 + 1 : SubSeq(w, 1, n)[i] = w[1 + i - 1]
        BY <2>1, SubSeqProperties
    <3>2. QED
        BY <3>1
  <2>3. QED
      BY <1>5, <1>8, <2>2, SeqEqual
<1>11. ~FcsWrong(w)
  <2>1. (n + 2) - 2 = n /\ (n + 2) - 1 = n + 1
      OBVIOUS
  <2>2. QED
      BY <1>1, <1>2, <1>6, <1>9, <1>10, <2>1 DEF FcsWrong
<1>12. QED
    BY <1>4, <1>5, <1>6, <1>8, <1>11

------------------------------------------------------------------------------
(* Where the parts of a frame are. *)

HcsLen(f) == IF HasHcs(f) THEN 2 ELSE 0

\* n is the length of the server address, len that of the information.
LaidOut(f, raw, n, len) ==
    /\ raw \in Seq(U8) /\ Len(raw) = 6 + n + HcsLen(f) + len
    /\ 4 + n + HcsLen(f) + len < 256 =>
           raw[1] = 160 /\ raw[2] = 4 + n + HcsLen(f) + len
    /\ SevenBits(f.dest, raw[3])
    /\ \E e : Ends(f.src, e, n) /\ \A i \in 1 .. n : raw[3 + i] = e[i]
    /\ raw[4 + n] = control_encode(f)
    /\ \A i \in 1 .. len : raw[4 + n + HcsLen(f) + i] = f.info[i]
    /\ ~FcsWrong(raw)

LEMMA Small ==
    ASSUME NEW b \in U8
    PROVE  Sized(<<b>>, 1) /\ <<b>>[1] = b
BY DEF Sized

LEMMA Pair ==
    ASSUME NEW a \in U8, NEW b \in U8
    PROVE  Sized(<<a, b>>, 2) /\ <<a, b>>[1] = a /\ <<a, b>>[2] = b
BY DEF Sized

\* Format, addresses and control field.
HeaderOf(f, header, n, total) ==
    /\ Sized(header, 4 + n)
    /\ total < 256 => header[1] = 160 /\ header[2] = total
    /\ SevenBits(f.dest, header[3])
    /\ \E e : Ends(f.src, e, n) /\ \A i \in 1 .. n : header[3 + i] = e[i]
    /\ header[4 + n] = control_encode(f)

LEMMA HeaderLaidOut ==
    ASSUME NEW f, Sendable(f), NEW fmt, NEW dest, NEW src, NEW ctrl, NEW total, NEW n \in {2, 4},
           Sized(fmt, 2), total < 256 => fmt[1] = 160 /\ fmt[2] = total,
           Sized(dest, 1), SevenBits(f.dest, dest[1]), Ends(f.src, src, n),
           Sized(ctrl, 1), ctrl[1] = control_encode(f)
    PROVE  HeaderOf(f, (fmt \o (dest \o src)) \o ctrl, n, total)
<1>1. Sized(src, n)
    BY DEF Ends, Sized
<1>2. PICK m \in Nat : m = 1 + n
    OBVIOUS
<1>3. PICK da : da = dest \o src
    OBVIOUS
<1>4. Sized(da, m) /\ Joins(da, dest, 1, src, n)
  <2>1. PICK one \in Nat, k \in Nat : one = 1 /\ k = n
      OBVIOUS
  <2>2. Sized(dest, one) /\ Sized(src, k)
      BY <1>1, <2>1
  <2>3. Sized(dest \o src, one + k) /\ Joins(dest \o src, dest, one, src, k)
      BY <2>2, Concat
  <2>4. Sized(dest \o src, 1 + n) /\ Joins(dest \o src, dest, 1, src, n)
      BY <2>1, <2>3
  <2>5. QED
      BY <1>2, <1>3, <2>4
<1>5. PICK k \in Nat : k = 2 + m
    BY <1>2
<1>6. PICK fa : fa = fmt \o da
    OBVIOUS
<1>7. Sized(fa, k) /\ Joins(fa, fmt, 2, da, m)
  <2>1. PICK two \in Nat : two = 2
      OBVIOUS
  <2>2. Sized(fmt, two) /\ Sized(da, m)
      BY <1>4, <2>1
  <2>3. Sized(fmt \o da, two + m) /\ Joins(fmt \o da, fmt, two, da, m)
      BY <2>2, Concat
  <2>4. QED
      BY <1>5, <1>6, <2>1, <2>3
<1>8. PICK l \in Nat : l = k + 1
    BY <1>5
<1>9. PICK header : header = fa \o ctrl
    OBVIOUS
<1>10. Sized(header, l) /\ Joins(header, fa, k, ctrl, 1)
  <2>1. PICK one \in Nat : one = 1
      OBVIOUS
  <2>2. Sized(ctrl, one) /\ Sized(fa, k)
      BY <1>7, <2>1
  <2>3. Sized(fa \o ctrl, k + one) /\ Joins(fa \o ctrl, fa, k, ctrl, one)
      BY <2>2, Concat
  <2>4. Sized(fa \o ctrl, k + 1) /\ Joins(fa \o ctrl, fa, k, ctrl, 1)
      BY <2>1, <2>3
  <2>5. QED
      BY <1>8, <1>9, <2>4
<1>11. l = 4 + n /\ k = 3 + n
    BY <1>2, <1>5, <1>8
<1>12. header[1] = fmt[1] /\ header[2] = fmt[2]
  <2>1. 1 \in 1 .. k /\ 2 \in 1 .. k /\ 1 \in 1 .. 2 /\ 2 \in 1 .. 2
      BY <1>11
  <2>2. header[1] = fa[1] /\ header[2] = fa[2]
      BY <1>10, <2>1 DEF Joins
  <2>3. fa[1] = fmt[1] /\ fa[2] = fmt[2]
      BY <1>7, <2>1 DEF Joins
  <2>4. QED
      BY <2>2, <2>3
<1>13. ASSUME NEW i \in 1 .. n PROVE header[3 + i] = src[i]
  <2>1. 1 + i \in 1 .. m /\ 2 + (1 + i) = 3 + i /\ 3 + i \in 1 .. k
      BY <1>2, <1>11
  <2>2. da[1 + i] = src[i]
      BY <1>4 DEF Joins
  <2>3. fa[2 + (1 + i)] = da[1 + i]
      BY <1>7, <2>1 DEF Joins
  <2>4. header[3 + i] = fa[3 + i]
      BY <1>10, <2>1 DEF Joins
  <2>5. QED
      BY <2>1, <2>2, <2>3, <2>4
<1>14. header[k + 1] = control_encode(f)
  <2>1. header[k + 1] = ctrl[1]
      BY <1>10 DEF Joins
  <2>2. QED
      BY <2>1
<1>15. header[3] = dest[1]
  <2>1. 1 \in 1 .. m /\ 3 \in 1 .. k /\ 2 + 1 = 3
      BY <1>2, <1>11
  <2>2. da[1] = dest[1] /\ fa[2 + 1] = da[1] /\ header[3] = fa[3]
      BY <1>4, <1>7, <1>10, <2>1 DEF Joins
  <2>3. QED
      BY <2>1, <2>2
<1>16. HeaderOf(f, header, n, total)
  <2>1. Sized(header, 4 + n)
      BY <1>10, <1>11
  <2>2. total < 256 => header[1] = 160 /\ header[2] = total
      BY <1>12
  <2>3. header[4 + n] = control_encode(f)
      BY <1>8, <1>11, <1>14
  <2>4. SevenBits(f.dest, header[3])
      BY <1>15
  <2>5. QED
      BY <1>13, <2>1, <2>2, <2>3, <2>4 DEF HeaderOf
<1>17. QED
    BY <1>3, <1>6, <1>9, <1>16

\* The header, its check sequence where there is one, the information and the
\* frame check sequence.
LEMMA FrameLaidOut ==
    ASSUME NEW f, Sendable(f), NEW header, NEW n \in {2, 4}, NEW len, len = Len(f.info),
           HeaderOf(f, header, n, 4 + n + HcsLen(f) + len)
    PROVE  LaidOut(f, WithCrc((IF HasHcs(f) THEN WithCrc(header) ELSE header) \o f.info), n, len)
<1>1. Sized(f.info, len)
    BY LenProperties DEF Sendable, Sized
<1>2. PICK h \in {0, 2} : h = HcsLen(f)
    BY DEF HcsLen
<1>3. PICK k \in Nat : k = 4 + n
    OBVIOUS
<1>4. PICK front : front = IF HasHcs(f) THEN WithCrc(header) ELSE header
    OBVIOUS
<1>5. header \in Seq(U8) /\ Len(header) = k
    BY <1>3 DEF HeaderOf, Sized
<1>6. PICK m \in Nat : m = k + h
    BY <1>2, <1>3
<1>7. Sized(front, m) /\ \A i \in 1 .. k : front[i] = header[i]
  <2>1. CASE HasHcs(f)
    <3>1. h = 2 /\ front = WithCrc(header)
        BY <1>2, <1>4, <2>1 DEF HcsLen
    <3>2. WithCrc(header) \in Seq(U8) /\ Len(WithCrc(header)) = Len(header) + 2
          /\ \A i \in 1 .. Len(header) : WithCrc(header)[i] = header[i]
        BY <1>5, WithCrcTyped
    <3>3. QED
        BY <1>5, <1>6, <3>1, <3>2 DEF Sized
  <2>2. CASE ~HasHcs(f)
    <3>1. h = 0 /\ front = header
        BY <1>2, <1>4, <2>2 DEF HcsLen
    <3>2. QED
        BY <1>5, <1>6, <3>1 DEF Sized
  <2>3. QED
      BY <2>1, <2>2
<1>8. PICK body : body = front \o f.info
    OBVIOUS
<1>9. len \in Nat
    BY <1>1 DEF Sized
<1>10. PICK l \in Nat : l = m + len
    BY <1>9
<1>11. Sized(body, l) /\ Joins(body, front, m, f.info, len)
    BY <1>1, <1>7, <1>8, <1>10, Concat
<1>12. PICK raw : raw = WithCrc(body)
    OBVIOUS
<1>13. raw \in Seq(U8) /\ Len(raw) = l + 2 /\ ~FcsWrong(raw)
       /\ \A i \in 1 .. l : raw[i] = body[i]
  <2>1. body \in Seq(U8) /\ Len(body) = l
      BY <1>11 DEF Sized
  <2>2. QED
      BY <1>12, <2>1, WithCrcTyped
<1>14. ASSUME NEW i \in 1 .. k PROVE raw[i] = header[i]
  <2>1. m >= k
      BY <1>6
  <2>2. PICK j \in Nat : j = len
      BY <1>9
  <2>3. m >= k /\ l >= m
      BY <1>10, <2>1, <2>2
  <2>4. i \in 1 .. m /\ i \in 1 .. l
      BY <2>3
  <2>5. body[i] = front[i]
      BY <1>11, <2>4 DEF Joins
  <2>6. QED
      BY <1>7, <1>13, <2>4, <2>5
<1>15. ASSUME NEW i \in 1 .. len PROVE raw[m + i] = f.info[i]
  <2>1. m + i \in 1 .. l
      BY <1>9, <1>10
  <2>2. body[m + i] = f.info[i]
      BY <1>11 DEF Joins
  <2>3. QED
      BY <1>13, <2>1, <2>2
<1>16. LaidOut(f, raw, n, len)
  <2>1. Len(raw) = 6 + n + HcsLen(f) + len
    <3>1. PICK a \in Nat, b \in Nat, c \in Nat : a = n /\ b = h /\ c = len
        BY <1>9
    <3>2. k = 4 + a /\ m = k + b /\ l = m + c
        BY <1>3, <1>6, <1>10, <3>1
    <3>3. l + 2 = 6 + a + b + c
        BY <3>2
    <3>4. QED
        BY <1>2, <1>13, <3>1, <3>3
  <2>2. 1 \in 1 .. k /\ 2 \in 1 .. k /\ 3 \in 1 .. k /\ 4 + n \in 1 .. k /\ \A i \in 1 .. n : 3 + i \in 1 .. k
      BY <1>3
  <2>3. 4 + n + HcsLen(f) + len < 256 => raw[1] = 160 /\ raw[2] = 4 + n + HcsLen(f) + len
      BY <1>14, <2>2 DEF HeaderOf
  <2>4. PICK e : Ends(f.src, e, n) /\ \A i \in 1 .. n : header[3 + i] = e[i]
      BY DEF HeaderOf
  <2>5. \A i \in 1 .. n : raw[3 + i] = e[i]
      BY <1>14, <2>2, <2>4
  <2>6. raw[4 + n] = control_encode(f)
      BY <1>14, <2>2 DEF HeaderOf
  <2>7. \A i \in 1 .. len : raw[4 + n + HcsLen(f) + i] = f.info[i]
    <3>1. m = 4 + n + HcsLen(f)
        BY <1>2, <1>3, <1>6
    <3>2. QED
        BY <1>15, <3>1
  <2>8. SevenBits(f.dest, raw[3])
      BY <1>14, <2>2 DEF HeaderOf
  <2>9. QED
      BY <1>13, <2>1, <2>3, <2>4, <2>5, <2>6, <2>7, <2>8 DEF LaidOut
<1>17. QED
    BY <1>4, <1>8, <1>12, <1>16

LEMMA RawLaidOut ==
    ASSUME NEW f, Sendable(f)
    PROVE  \E n \in {2, 4} : LaidOut(f, RawFrame(f), n, Len(f.info))
<1> DEFINE dest == dlms_hdlc_address_encode(f.dest, TRUE)
           src == dlms_hdlc_address_encode(f.src, FALSE)
           length == 2 + Len(dest \o src) + 1 + (IF HasHcs(f) THEN 2 ELSE 0) + Len(f.info)
           fmt == dlms_hdlc_format_encode(length, FALSE)
           ctrl == <<control_encode(f)>>
           header == (fmt \o (dest \o src)) \o ctrl
<1>1. RawFrame(f) = WithCrc((IF HasHcs(f) THEN WithCrc(header) ELSE header) \o f.info)
    BY DEF RawFrame
<1>2. f.dest \in Addresses /\ f.src \in Addresses /\ f.info \in Seq(U8)
    BY DEF Sendable
<1>3. \E b \in U8 : dest = <<b>> /\ SevenBits(f.dest, b)
    BY <1>2, ClientAddress DEF ClientByte
<1>4. \E n \in {2, 4} : Ends(f.src, src, n)
    BY <1>2, AddressEnds
<1>5. length = 2 + Len(dest \o src) + 1 + HcsLen(f) + Len(f.info)
    BY DEF HcsLen
<1>6. Sized(ctrl, 1) /\ ctrl[1] = control_encode(f)
  <2>1. control_encode(f) \in U8
      BY ControlUnderstood DEF Understood
  <2>2. QED
      BY <2>1, Small
<1> HIDE DEF ctrl, src, dest, length
<1>7. Sized(dest, 1) /\ SevenBits(f.dest, dest[1])
  <2>1. PICK b \in U8 : dest = <<b>> /\ SevenBits(f.dest, b)
      BY <1>3
  <2>2. QED
      BY <2>1, Small
<1>8. PICK n \in {2, 4} : Ends(f.src, src, n)
    BY <1>4
<1>9. PICK h \in {0, 2} : h = HcsLen(f)
    BY DEF HcsLen
<1>10. PICK len \in Nat : len = Len(f.info)
    BY <1>2, LenProperties
<1>11. Len(dest \o src) = 1 + n
  <2>1. Sized(src, n)
      BY <1>8 DEF Ends, Sized
  <2>2. Sized(dest \o src, 1 + n)
      BY <1>7, <2>1, Concat
  <2>3. QED
      BY <2>2 DEF Sized
<1>12. length = 4 + n + HcsLen(f) + len /\ length \in Nat
    BY <1>5, <1>9, <1>10, <1>11
<1> HIDE DEF fmt
<1>13. Sized(fmt, 2) /\ (length < 256 => fmt[1] = 160 /\ fmt[2] = length)
  <2>1. PICK hi, lo \in U8 : FormatBytes(length, hi, lo)
      BY <1>12, FormatTyped
  <2>2. fmt = <<hi, lo>> /\ (length < 256 => hi = 160 /\ lo = length)
      BY <2>1 DEF FormatBytes, fmt
  <2>3. Sized(<<hi, lo>>, 2) /\ <<hi, lo>>[1] = hi /\ <<hi, lo>>[2] = lo
      BY Pair
  <2>4. QED
      BY <2>2, <2>3
<1>14. HeaderOf(f, header, n, length)
    BY <1>6, <1>7, <1>8, <1>13, HeaderLaidOut
<1> HIDE DEF header
<1>15. LaidOut(f, WithCrc((IF HasHcs(f) THEN WithCrc(header) ELSE header) \o f.info), n, len)
    BY <1>10, <1>12, <1>14, FrameLaidOut
<1>16. QED
    BY <1>1, <1>10, <1>15

------------------------------------------------------------------------------
(* The other end finds them. *)

LEMMA FieldsDecoded ==
    ASSUME NEW f, Sendable(f), NEW raw, NEW n \in {2, 4}, NEW len, len = Len(f.info),
           LaidOut(f, raw, n, len)
    PROVE  DecodeFields(raw, 4 + n, ClientRead(f.dest), ServerRead(f.src)) = Meaning(f)
<1>1. PICK k \in Nat, h \in {0, 2} : k = len /\ h = HcsLen(f)
    BY LenProperties DEF Sendable, HcsLen
<1>2. f.info \in Seq(U8) /\ Len(f.info) = k
    BY <1>1 DEF Sendable
<1>3. Len(raw) - 2 = 4 + n + h + k
    BY <1>1 DEF LaidOut
<1>4. PICK end : end = Len(raw) - 2 /\ end = 4 + n + h + k
    BY <1>3
<1>5. \A i \in 1 .. k : raw[4 + n + h + i] = f.info[i]
    BY <1>1 DEF LaidOut
<1>6. PICK c : c = raw[4 + n]
    OBVIOUS
<1>7. c = control_encode(f)
    BY <1>6 DEF LaidOut
<1>8. /\ detect_frame_type(c) = f.type
      /\ dlms_hdlc_control_decode(c, f.type)
             = [final |-> Meaning(f).final, send_seq |-> f.send_seq, recv_seq |-> f.recv_seq]
    BY <1>7, ControlUnderstood DEF Understood
<1>9. PICK from : from = IF 4 + n + 2 <= end THEN 4 + n + 3 ELSE 4 + n + 1
    OBVIOUS
<1>10. f.info = IF CarriesInfo(f.type) THEN SubSeq(raw, from, end) ELSE <<>>
  <2>1. CASE HasHcs(f)
    <3>1. h = 2
        BY <1>1, <2>1 DEF HcsLen
    <3>2. from = 7 + n /\ end = 6 + n + k
        BY <1>4, <1>9, <3>1
    <3>3. CarriesInfo(f.type)
        BY <2>1 DEF HasHcs, CarriesInfo, Sendable
    <3>4. \A i \in 1 .. k : raw[6 + n + i] = f.info[i]
      <4>1. 4 + n + h = 6 + n
          BY <3>1
      <4>2. QED
          BY <1>5, <4>1
    <3>5. PICK m \in Nat : m = 6 + n
        OBVIOUS
    <3>6. \A i \in 1 .. k : raw[m + i] = f.info[i]
        BY <3>4, <3>5
    <3>7. \A i \in m + 1 .. m + k : raw[i] \in U8
      <4>1. SUFFICES ASSUME NEW i \in m + 1 .. m + k PROVE raw[i] \in U8
          OBVIOUS
      <4>2. PICK j \in 1 .. k : j = i - m /\ m + j = i
          OBVIOUS
      <4>3. raw[i] = f.info[j]
          BY <3>6, <4>2
      <4>4. QED
          BY <1>2, <4>3, ElementOfSeq
    <3>8. PICK a \in Int, b \in Int : a = m + 1 /\ b = m + k
        OBVIOUS
    <3>9. PICK t : t = SubSeq(raw, a, b)
        OBVIOUS
    <3>10. /\ t \in Seq(U8) /\ Len(t) = IF a <= b THEN b - a + 1 ELSE 0
           /\ \A i \in 1 .. b - a + 1 : t[i] = raw[a + i - 1]
      <4>1. \A i \in a .. b : raw[i] \in U8
          BY <3>7, <3>8
      <4>2. QED
          BY <3>9, <4>1, SubSeqProperties
    <3>11. Len(t) = k /\ \A i \in 1 .. k : t[i] = raw[m + i]
      <4>1. Len(t) = k /\ b - a + 1 = k
          BY <3>10, <3>8
      <4>2. \A i \in 1 .. k : a + i - 1 = m + i
          BY <3>8
      <4>3. QED
          BY <3>10, <4>1, <4>2
    <3>12. t = f.info
      <4>1. Len(t) = Len(f.info) /\ \A i \in 1 .. Len(t) : t[i] = f.info[i]
          BY <1>2, <3>6, <3>11
      <4>2. QED
          BY <1>2, <3>10, <4>1, SeqEqual
    <3>13. from = m + 1 /\ end = m + k
        BY <3>2, <3>5
    <3>14. QED
        BY <3>3, <3>9, <3>12, <3>13, <3>8
  <2>2. CASE ~HasHcs(f)
    <3>1. f.info = <<>> /\ h = 0
        BY <1>1, <2>2 DEF HasHcs, HcsLen
    <3>2. k = 0
        BY <1>2, <3>1, EmptySeq
    <3>3. from = 5 + n /\ end = 4 + n
        BY <1>4, <1>9, <3>1, <3>2
    <3>4. from \in Int /\ end \in Int /\ end < from
        BY <3>3
    <3>5. SubSeq(raw, from, end) = <<>>
        BY <3>4, SubSeqEmpty
    <3>6. QED
        BY <3>1, <3>5
  <2>3. QED
      BY <2>1, <2>2
<1>11. PICK pos, dest, src : pos = 4 + n /\ dest = ClientRead(f.dest) /\ src = ServerRead(f.src)
    OBVIOUS
<1>12. DecodeFields(raw, pos, dest, src) =
           [code |-> "OK", dest |-> dest, src |-> src, type |-> detect_frame_type(raw[pos]),
            final |-> dlms_hdlc_control_decode(raw[pos], detect_frame_type(raw[pos])).final,
            send_seq |-> dlms_hdlc_control_decode(raw[pos], detect_frame_type(raw[pos])).send_seq,
            recv_seq |-> dlms_hdlc_control_decode(raw[pos], detect_frame_type(raw[pos])).recv_seq,
            info |-> IF CarriesInfo(detect_frame_type(raw[pos]))
                     THEN SubSeq(raw, IF pos + 2 <= Len(raw) - 2 THEN pos + 3 ELSE pos + 1,
                                 Len(raw) - 2)
                     ELSE <<>>]
    BY Zenon DEF DecodeFields
<1>13. raw[pos] = c /\ (IF pos + 2 <= Len(raw) - 2 THEN pos + 3 ELSE pos + 1) = from
    BY <1>4, <1>6, <1>9, <1>11
<1>14. dlms_hdlc_control_decode(c, f.type).final = Meaning(f).final
       /\ dlms_hdlc_control_decode(c, f.type).send_seq = f.send_seq
       /\ dlms_hdlc_control_decode(c, f.type).recv_seq = f.recv_seq
    BY <1>8
<1>15. DecodeFields(raw, 4 + n, dest, src) =
           [code |-> "OK", dest |-> dest, src |-> src, type |-> f.type, final |-> Meaning(f).final,
            send_seq |-> f.send_seq, recv_seq |-> f.recv_seq, info |-> f.info]
    BY <1>4, <1>8, <1>10, <1>11, <1>12, <1>13, <1>14, Zenon
<1>16. QED
    BY <1>11, <1>15, Zenon DEF Meaning

\* What is between the flags.
LEMMA Flagged ==
    ASSUME NEW s \in Seq(U8), NEW data, data = <<FLAG>> \o s \o <<FLAG>>
    PROVE  /\ data \in Seq(U8) /\ Len(data) = Len(s) + 2
           /\ data[1] = FLAG /\ data[Len(data)] = FLAG
           /\ SubSeq(data, 2, Len(data) - 1) = s
<1>1. PICK flag : flag = <<FLAG>> /\ Sized(flag, 1) /\ flag[1] = FLAG
  <2>1. FLAG \in U8
      BY DEF FLAG, U8
  <2>2. QED
      BY <2>1, Small
<1>2. PICK k \in Nat : k = Len(s)
    BY LenProperties
<1>3. PICK one \in Nat : one = 1
    OBVIOUS
<1>4. Sized(flag, one) /\ Sized(s, k)
    BY <1>1, <1>2, <1>3 DEF Sized
<1>5. PICK fs : fs = flag \o s
    OBVIOUS
<1>6. Sized(fs, one + k) /\ Joins(fs, flag, one, s, k)
    BY <1>4, <1>5, Concat
<1>7. PICK m \in Nat : m = one + k
    OBVIOUS
<1>8. Sized(fs, m)
    BY <1>6, <1>7
<1>9. PICK d : d = fs \o flag
    OBVIOUS
<1>10. Sized(d, m + one) /\ Joins(d, fs, m, flag, one)
    BY <1>4, <1>8, <1>9, Concat
<1>11. data = d
    BY <1>1, <1>5, <1>9
<1>12. m = k + 1 /\ m + one = k + 2
    BY <1>3, <1>7
<1>13. d \in Seq(U8) /\ Len(d) = k + 2
    BY <1>10, <1>12 DEF Sized
<1>14. d[1] = FLAG
  <2>1. 1 \in 1 .. m /\ 1 \in 1 .. one
      BY <1>3, <1>12
  <2>2. d[1] = fs[1] /\ fs[1] = flag[1]
      BY <1>6, <1>10, <2>1 DEF Joins
  <2>3. QED
      BY <1>1, <2>2
<1>15. d[k + 2] = FLAG
  <2>1. 1 \in 1 .. one /\ m + 1 = k + 2
      BY <1>3, <1>12
  <2>2. d[m + 1] = flag[1]
      BY <1>10, <2>1 DEF Joins
  <2>3. QED
      BY <1>1, <2>1, <2>2
<1>16. \A i \in 1 .. k : d[1 + i] = s[i]
  <2>1. SUFFICES ASSUME NEW i \in 1 .. k PROVE d[1 + i] = s[i]
      OBVIOUS
  <2>2. 1 + i \in 1 .. m /\ one + i = 1 + i
      BY <1>3, <1>12
  <2>3. d[1 + i] = fs[1 + i]
      BY <1>10, <2>2 DEF Joins
  <2>4. fs[one + i] = s[i]
      BY <1>6 DEF Joins
  <2>5. QED
      BY <2>2, <2>3, <2>4
<1>17. SubSeq(d, 2, k + 1) = s
  <2>1. \A i \in 2 .. k + 1 : d[i] \in U8
    <3>1. \A i \in 2 .. k + 1 : i \in 1 .. Len(d)
        BY <1>13
    <3>2. QED
        BY <1>13, <3>1, ElementOfSeq
  <2>2. PICK t : t = SubSeq(d, 2, k + 1)
      OBVIOUS
  <2>3. /\ t \in Seq(U8) /\ Len(t) = IF 2 <= k + 1 THEN (k + 1) - 2 + 1 ELSE 0
        /\ \A i \in 1 .. (k + 1) - 2 + 1 : t[i] = d[2 + i - 1]
      BY <2>1, <2>2, SubSeqProperties
  <2>4. Len(t) = k /\ (k + 1) - 2 + 1 = k /\ \A i \in 1 .. k : 2 + i - 1 = 1 + i
      BY <2>3
  <2>5. \A i \in 1 .. k : t[i] = s[i]
      BY <1>16, <2>3, <2>4
  <2>6. QED
      BY <1>2, <2>2, <2>3, <2>4, <2>5, SeqEqual
<1>18. QED
  <2>1. (k + 2) - 1 = k + 1
      OBVIOUS
  <2>2. QED
      BY <1>2, <1>11, <1>13, <1>14, <1>15, <1>17, <2>1

LEMMA FrameDecoded ==
    ASSUME NEW f, Sendable(f), PlainAddress(f.src), Len(RawFrame(f)) <= MAX_FRAME_SIZE,
           NEW data, data = <<FLAG>> \o dlms_hdlc_stuff(RawFrame(f)) \o <<FLAG>>
    PROVE  dlms_hdlc_frame_decode(data) = Meaning(f)
<1>1. PICK raw : raw = RawFrame(f)
    OBVIOUS
<1>2. PICK n \in {2, 4} : LaidOut(f, raw, n, Len(f.info))
    BY <1>1, RawLaidOut
<1>3. PICK len \in Nat, h \in {0, 2} : len = Len(f.info) /\ h = HcsLen(f)
    BY LenProperties DEF Sendable, HcsLen
<1>4. raw \in Seq(U8) /\ Len(raw) = 6 + n + h + len /\ ~FcsWrong(raw)
    BY <1>2, <1>3 DEF LaidOut
<1>5. PICK size \in Nat : size = Len(raw) /\ size = 6 + n + h + len /\ size <= 256 /\ size >= 8
    BY <1>1, <1>4 DEF MAX_FRAME_SIZE
<1>6. PICK s \in Seq(U8) : s = dlms_hdlc_stuff(raw) /\ dlms_hdlc_unstuff(s) = raw /\ Len(s) >= size
    BY <1>4, <1>5, StuffTyped, Unstuffed
<1>7. /\ Len(data) = Len(s) + 2 /\ data[1] = FLAG /\ data[Len(data)] = FLAG
      /\ SubSeq(data, 2, Len(data) - 1) = s
    BY <1>1, <1>6, Flagged
<1>8. ~(Len(data) < 8)
  <2>1. PICK k \in Nat : k = Len(s) /\ k >= size
      BY <1>6, LenProperties
  <2>2. Len(data) = k + 2
      BY <1>7, <2>1
  <2>3. QED
      BY <1>5, <2>1, <2>2
<1>9. ~(Len(raw) < 3 \/ Len(raw) > MAX_FRAME_SIZE \/ FcsWrong(raw))
    BY <1>4, <1>5 DEF MAX_FRAME_SIZE
<1>10. PICK total \in 0 .. 255 : total = 4 + n + h + len /\ total + 2 = size
    BY <1>5
<1>11. raw[1] = 160 /\ raw[2] = total
  <2>1. total < 256
      BY <1>10
  <2>2. 4 + n + HcsLen(f) + Len(f.info) = 4 + n + h + len
      BY <1>3
  <2>3. 4 + n + HcsLen(f) + Len(f.info) = total /\ total < 256
      BY <1>10, <2>1, <2>2
  <2>4. 4 + n + HcsLen(f) + Len(f.info) < 256 =>
            raw[1] = 160 /\ raw[2] = 4 + n + HcsLen(f) + Len(f.info)
      BY <1>2 DEF LaidOut
  <2>5. QED
      BY <2>3, <2>4
<1>12. PICK fmt : fmt = dlms_hdlc_format_decode(raw)
    OBVIOUS
<1>13. fmt.code = "OK" /\ fmt.length + 2 = Len(raw)
    BY <1>5, <1>10, <1>11, <1>12, FormatRead
<1>14. PICK e : Ends(f.src, e, n) /\ \A i \in 1 .. n : raw[3 + i] = e[i]
    BY <1>2 DEF LaidOut
<1>15. PICK t : t = SubSeq(raw, 4, size)
    OBVIOUS
<1>16. t \in Seq(U8) /\ Len(t) >= n /\ \A i \in 1 .. n : t[i] = e[i]
  <2>1. \A i \in 4 .. size : raw[i] \in U8
    <3>1. \A i \in 4 .. size : i \in 1 .. Len(raw)
        BY <1>5
    <3>2. QED
        BY <1>4, <3>1, ElementOfSeq
  <2>2. /\ t \in Seq(U8) /\ Len(t) = IF 4 <= size THEN size - 4 + 1 ELSE 0
        /\ \A i \in 1 .. size - 4 + 1 : t[i] = raw[4 + i - 1]
      BY <1>15, <2>1, SubSeqProperties
  <2>3. Len(t) >= n
      BY <1>5, <2>2
  <2>4. \A i \in 1 .. n : i \in 1 .. size - 4 + 1 /\ 4 + i - 1 = 3 + i
      BY <1>5
  <2>5. QED
      BY <1>14, <2>2, <2>3, <2>4
<1>17. PICK src : src = dlms_hdlc_address_decode(t, FALSE)
    OBVIOUS
<1>18. src.code = "OK" /\ src.consumed = n /\ DecodedAddress(src) = ServerRead(f.src)
  <2>1. f.src \in Addresses
      BY DEF Sendable
  <2>2. Begins(t, e, n)
      BY <1>16 DEF Begins
  <2>3. ReadTo(t, n, f.src)
      BY <1>14, <1>16, <2>1, <2>2, AddressRead
  <2>4. QED
      BY <1>17, <2>3 DEF ReadTo
<1>19. PICK first : first = SubSeq(raw, 3, size)
    OBVIOUS
<1>20. PICK dest : dest = dlms_hdlc_address_decode(first, TRUE)
    OBVIOUS
<1>21. DecodedAddress(dest) = ClientRead(f.dest)
  <2>1. \A i \in 3 .. size : raw[i] \in U8
    <3>1. \A i \in 3 .. size : i \in 1 .. Len(raw)
        BY <1>5
    <3>2. QED
        BY <1>4, <3>1, ElementOfSeq
  <2>2. /\ first \in Seq(U8) /\ Len(first) = IF 3 <= size THEN size - 3 + 1 ELSE 0
        /\ \A i \in 1 .. size - 3 + 1 : first[i] = raw[3 + i - 1]
      BY <1>19, <2>1, SubSeqProperties
  <2>3. Len(first) > 0 /\ first[1] = raw[3]
    <3>1. 1 \in 1 .. size - 3 + 1 /\ 3 + 1 - 1 = 3
        BY <1>5
    <3>2. QED
        BY <1>5, <2>2, <3>1
  <2>4. first # <<>>
      BY <2>3, EmptySeq
  <2>5. PICK x : x = first[1] \div 2 /\ x = f.dest.logical % 128
      BY <1>2, <2>3 DEF LaidOut, SevenBits
  <2>6. dest = [code |-> "OK", consumed |-> 1, has_physical |-> 1 > 2,
                logical |-> x, physical |-> 0]
      BY <1>20, <2>4, <2>5 DEF dlms_hdlc_address_decode
  <2>7. dest.logical = x /\ dest.physical = 0 /\ dest.has_physical = FALSE
    <3>1. (1 > 2) = FALSE
        OBVIOUS
    <3>2. QED
        BY <2>6, <3>1, Zenon
  <2>8. QED
      BY <2>5, <2>7, Zenon DEF DecodedAddress, ClientRead
<1>22. DecodeFields(raw, 4 + n, ClientRead(f.dest), ServerRead(f.src)) = Meaning(f)
    BY <1>2, FieldsDecoded
<1>23. dlms_hdlc_frame_decode(data) =
           DecodeFields(raw, 4 + src.consumed, DecodedAddress(dest), DecodedAddress(src))
    BY <1>5, <1>6, <1>7, <1>8, <1>9, <1>12, <1>13, <1>15, <1>17, <1>18, <1>19, <1>20, Zenon
    DEF dlms_hdlc_frame_decode
<1>24. QED
    BY <1>18, <1>21, <1>22, <1>23, Zenon

==============================================================================
