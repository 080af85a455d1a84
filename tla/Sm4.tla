---------------------------------- MODULE Sm4 ----------------------------------
(***************************************************************************)
(* The SM4 block cipher and its ECB, CBC and CTR modes                     *)
(* (src/src/dlms_security.c).  A word is the set of the bits that are 1, a *)
(* block is four of them.  The tables (S-box, FK, CK) and what is computed *)
(* from them in one word are parameters: the structure of the cipher is    *)
(* what lets a block be decrypted, whatever they hold.                     *)
(*                                                                         *)
(* A text is a sequence of blocks, of which the last may be shorter.       *)
(***************************************************************************)
EXTENDS Integers, Sequences

CONSTANTS
    Width,    \* bits of a word: 32
    Rounds,   \* 32
    T,        \* sm4_T and sm4_T_prime: S-boxes and rotations
    TPrime,
    FK, CK    \* tables of the key setup

Words == SUBSET (0 .. Width - 1)
Block == [1 .. 4 -> Words]

ASSUME Sm4Assumption ==
    /\ Width \in Nat \ {0} /\ Rounds \in Nat
    /\ T \in [Words -> Words] /\ TPrime \in [Words -> Words]
    /\ FK \in [1 .. 4 -> Words] /\ CK \in [1 .. Rounds -> Words]

a (+) b == (a \ b) \cup (b \ a)

\* The word that holds a counter, which wraps at its width.
Word(n) == {b \in 0 .. Width - 1 : (n \div 2^b) % 2 = 1}

\* XOR of a text with as much of a block as the text is long.
Mask(text, block) == [j \in DOMAIN text |-> text[j] (+) block[j]]

------------------------------------------------------------------------------
(* Blocks. *)

sm4_T(x) == T[x]
sm4_T_prime(x) == TPrime[x]

\* The round keys of a key of four words.
dlms_sm4_key_setup(key) ==
    LET K[i \in 1 .. Rounds + 4] ==
            IF i <= 4 THEN key[i] (+) FK[i]
            ELSE K[i - 4] (+) sm4_T_prime(K[i - 3] (+) K[i - 2] (+) K[i - 1] (+) CK[i - 4])
    IN  [i \in 1 .. Rounds |-> K[i + 4]]

\* One round, with the rotation that ends it.
Round(x, k) == <<x[2], x[3], x[4], x[1] (+) sm4_T(x[2] (+) x[3] (+) x[4] (+) k)>>
Reversed(x) == <<x[4], x[3], x[2], x[1]>>

sm4_round(rk, in) ==
    LET x[i \in 0 .. Rounds] == IF i = 0 THEN in ELSE Round(x[i - 1], rk[i])
    IN  Reversed(x[Rounds])

dlms_sm4_encrypt_block(rk, in) == sm4_round(rk, in)

SameOrder(rk, in) == sm4_round(rk, in)   \* defect: the round keys are not reversed
dlms_sm4_decrypt_block(rk, in) == sm4_round([i \in 1 .. Rounds |-> rk[Rounds + 1 - i]], in)

------------------------------------------------------------------------------
(* Modes. *)

Aligned(text) == \A i \in DOMAIN text : Len(text[i]) = 4

dlms_sm4_ecb_encrypt(key, text) ==
    LET ctx == dlms_sm4_key_setup(key)
    IN  [i \in DOMAIN text |-> dlms_sm4_encrypt_block(ctx, text[i])]
dlms_sm4_ecb_decrypt(key, text) ==
    LET ctx == dlms_sm4_key_setup(key)
    IN  [i \in DOMAIN text |-> dlms_sm4_decrypt_block(ctx, text[i])]

dlms_sm4_cbc_encrypt(key, iv, text) ==
    LET ctx == dlms_sm4_key_setup(key)
        block[i \in 0 .. Len(text)] ==
            IF i = 0 THEN iv ELSE dlms_sm4_encrypt_block(ctx, Mask(text[i], block[i - 1]))
    IN  [i \in DOMAIN text |-> block[i]]

\* Where the output takes the place of the input, a block is gone when it is kept
\* for the next one.
dlms_sm4_cbc_decrypt(key, iv, text, in_place) ==
    LET ctx == dlms_sm4_key_setup(key)
        out[i \in 1 .. Len(text)] ==
            Mask(dlms_sm4_decrypt_block(ctx, text[i]),
                 IF i = 1 THEN iv ELSE IF in_place THEN out[i - 1] ELSE text[i - 1])
    IN  [i \in DOMAIN text |-> out[i]]

\* 12 bytes from the caller, and a counter in the last 4.
Counter(nonce, n) == nonce \o <<Word(n % 2^Width)>>

sm4_gctr(rk, nonce, n, text) ==
    [i \in DOMAIN text |-> Mask(text[i], dlms_sm4_encrypt_block(rk, Counter(nonce, n + i - 1)))]

dlms_sm4_ctr(key, nonce, text) == sm4_gctr(dlms_sm4_key_setup(key), nonce, 1, text)

==============================================================================
