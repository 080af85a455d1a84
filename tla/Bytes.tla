-------------------------------- MODULE Bytes --------------------------------
(***************************************************************************)
(* Bytes and big-endian words, as the codecs of the library handle them.   *)
(* A decoder yields a record with its return code, and with what it has    *)
(* written when that is "OK".                                              *)
(***************************************************************************)
EXTENDS Integers, Sequences, SequencesExt

Lo(w) == w % 256
Hi(w) == (w \div 256) % 256
Word(hi, lo) == 256 * hi + lo
Odd(b) == b % 2 = 1

U8  == 0 .. 255
U16 == 0 .. 65535

\* a ^ b for two bytes, bit by bit; w is the weight of the bit.
Differ(a, b, w) == w * ((a \div w + b \div w) % 2)
Xor(a, b) ==
    Differ(a, b, 1) + Differ(a, b, 2) + Differ(a, b, 4) + Differ(a, b, 8)
    + Differ(a, b, 16) + Differ(a, b, 32) + Differ(a, b, 64) + Differ(a, b, 128)

\* s without its first n elements.
Drop(s, n) == SubSeq(s, n + 1, Len(s))
StartsWith(s, b) == s # <<>> /\ s[1] = b

Error(code) == [code |-> code]

\* The state, one of S, in which x ends after the bytes of s, each of which takes it
\* a step further.  They are taken in halves, which keeps the recursion shallow.
Run(S, step, x, s) ==
    LET after[lo \in 1 .. Len(s)] ==
            [hi \in 1 .. Len(s) |-> [y \in S |->
                LET mid == (lo + hi) \div 2
                IN  IF lo >= hi THEN step[y][s[lo]]
                    ELSE after[mid + 1][hi][after[lo][mid][y]]]]
    IN  IF s = <<>> THEN x ELSE after[1][Len(s)][x]

==============================================================================
