---------------------------------- MODULE Gcm ----------------------------------
(***************************************************************************)
(* GCM and GMAC of src/src/dlms_security.c, with SM4 and with AES-128.     *)
(* Both encrypt with the SM4 rounds: the AES functions hand their context  *)
(* to sm4_gctr as if it were one of SM4, whose first round keys it is.     *)
(*                                                                         *)
(* A tag is ideal: equal tags were computed from equal inputs.  It stands  *)
(* for GHASH under the hash key, masked with the key stream at J0, of      *)
(* which 12 bytes are kept.                                                *)
(***************************************************************************)
EXTENDS Sm4

CONSTANTS
    SubRot,   \* aes_sub_word(aes_rot_word(w))
    RCON      \* its table of round constants

ASSUME GcmAssumption ==
    /\ SubRot \in [Words -> Words] /\ RCON \in [1 .. Rounds -> Words]

\* The first words of the AES round keys, as many as SM4 has.
dlms_aes128_key_setup(key) ==
    LET w[i \in 1 .. Rounds + 4] ==
            IF i <= 4 THEN key[i]
            ELSE IF i % 4 = 1 THEN w[i - 4] (+) SubRot[w[i - 1]] (+) RCON[i \div 4]
            ELSE w[i - 4] (+) w[i - 1]
    IN  [i \in 1 .. Rounds |-> w[i]]

RoundKeys(cipher, key) ==
    IF cipher = "sm4" THEN dlms_sm4_key_setup(key) ELSE dlms_aes128_key_setup(key)

\* The zero block encrypted, by the cipher itself.
HashKey(cipher, key) == <<cipher, key>>

\* J0 has the counter 1, the first block of the text the next.
gcm_inc32_missing(n) == n               \* defect: the text begins at J0
gcm_inc32(n) == n + 1
J0 == 1

sm4_ghash(H, aad, text) == [H |-> H, aad |-> aad, text |-> text]

gcm_encrypt(cipher, key, iv, aad, text) ==
    LET out == sm4_gctr(RoundKeys(cipher, key), iv, gcm_inc32(J0), text)
    IN  [text |-> out,
         tag  |-> [mask |-> <<cipher, key, iv>>,
                   hash |-> sm4_ghash(HashKey(cipher, key), aad, out)]]

\* The tag is computed by encrypting the cipher text.
gcm_decrypt(cipher, key, iv, aad, text, tag) ==
    LET again == gcm_encrypt(cipher, key, iv, aad, text)
    IN  [code |-> IF again.tag = tag THEN "OK" ELSE "ERROR", text |-> again.text]

gmac(cipher, key, iv, data) == gcm_encrypt(cipher, key, iv, data, <<>>).tag

\* The counter blocks that a call encrypts, J0 for the tag among them.
CounterBlocks(iv, text) ==
    {Counter(iv, J0)} \cup {Counter(iv, gcm_inc32(J0) + i - 1) : i \in DOMAIN text}

==============================================================================
