------------------------------- MODULE Security -------------------------------
(***************************************************************************)
(* Two ends that protect what they send each other with                    *)
(* src/src/dlms_security.c.  The library keeps no state: the applications  *)
(* own the keys, carry control byte, title and counter, and give a message *)
(* any counter, the same again too: test_security.c and meter_simulation.c *)
(* use 1 for all of theirs.  What was sent may be received never, again or *)
(* late, and the counter or the data of a GMAC otherwise than they were    *)
(* sent.  Damaged cipher texts, and those too short to have a tag, which   *)
(* dlms_security_decrypt refuses, are left out.                            *)
(*                                                                         *)
(* Keys, titles and masks are counted in words of 4 bytes, the context of  *)
(* a key derivation in a label and the words of the title.                 *)
(***************************************************************************)
EXTENDS Gcm, FiniteSets

CONSTANTS
    Ends,
    Title,       \* system title of each end: two words
    Master,      \* the master key, four words
    Label,       \* of the contexts "ENC" and "MAC", a word each
    Installed,   \* what each end's arrays for keys, and the memory behind, may hold at first
    Texts,       \* what may arrive
    Requests,    \* what may be sent: by whom, how, with which dlms_security_control_t
    Counters,    \* invocation counters that messages have
    Suites,      \* for which keys are derived
    MaxGmac,     \* words that fit in the aad array of dlms_security_gmac: 289 bytes
    MaxSent,     \* bound of the model: messages
    MaxDerived   \* bound of the model: key derivations

dlms_security_control_t ==
    [suite : 0 .. 255, authenticated : BOOLEAN, encrypted : BOOLEAN,
     broadcast_key : BOOLEAN, compressed : BOOLEAN]

ASSUME SecurityAssumption ==
    /\ Title \in [Ends -> [1 .. 2 -> Words]]
    /\ \A e, f \in Ends : Title[e] = Title[f] => e = f
    /\ Master \in Block /\ Label \in [{"ENC", "MAC"} -> Words]
    /\ Installed \in [Ends -> SUBSET [enc : [1 .. 8 -> Words], auth : [1 .. 8 -> Words]]]
    /\ Texts \subseteq Seq(UNION {[1 .. n -> Words] : n \in 1 .. 4})
    /\ \A text \in Texts :          \* only the last block is short, and the counters of all differ
          /\ \A i \in 1 .. Len(text) - 1 : Len(text[i]) = 4
          /\ Len(text) + 1 < 2^Width
    /\ \A r \in Requests :
          /\ r.sender \in Ends /\ r.method \in {"encrypt", "gmac", "ecb", "cbc", "ctr"}
          /\ r.sc \in dlms_security_control_t /\ r.text \in Texts
    /\ Counters \subseteq 0 .. 2^Width - 1
    /\ MaxGmac \in Nat /\ MaxSent \in Nat /\ MaxDerived \in Nat

VARIABLES
    keys,      \* at each end: the arrays for the encryption and authentication key
    wire,      \* what was sent
    result,    \* what a call returned, until the application has seen it
    \* history
    derived,   \* at each end: whose title and which suite the keys were derived for
    calls      \* derivations so far

vars == <<keys, wire, result, derived, calls>>

None == <<>>
Nothing == [call |-> "none"]

------------------------------------------------------------------------------
(* The security control byte. *)

Bit(flag, weight) == IF flag THEN weight ELSE 0
dlms_security_control_encode(sc) ==
    (sc.suite % 16) + Bit(sc.authenticated, 16) + Bit(sc.encrypted, 32)
    + Bit(sc.broadcast_key, 64) + Bit(sc.compressed, 128)
NarrowSuite(b) ==                   \* defect: two bits for the suite
    [suite         |-> b % 4,
     authenticated |-> (b \div 16) % 2 = 1,
     encrypted     |-> (b \div 32) % 2 = 1,
     broadcast_key |-> (b \div 64) % 2 = 1,
     compressed    |-> (b \div 128) % 2 = 1]
dlms_security_control_decode(b) ==
    [suite         |-> b % 16,
     authenticated |-> (b \div 16) % 2 = 1,
     encrypted     |-> (b \div 32) % 2 = 1,
     broadcast_key |-> (b \div 64) % 2 = 1,
     compressed    |-> (b \div 128) % 2 = 1]

------------------------------------------------------------------------------
(* Keys. *)

\* XOR of master key, context and the number 1, each over again.
dlms_hls_ism_derive_key(context, length) ==
    [i \in 1 .. length |->
        Master[((i - 1) % 4) + 1] (+) context[((i - 1) % Len(context)) + 1] (+) Word(1)]

AlwaysShort(suite) == 4             \* defect: 16 bytes for every suite
InBytes(suite) == IF suite \in {2, 4} THEN 32 ELSE 16    \* defect: bytes where words are meant
DerivedLength(suite) == IF suite \in {2, 4} THEN 8 ELSE 4

\* The array of a key after it was derived: a short one leaves what is behind it.
Derive(label, title, suite, array) ==
    LET key == dlms_hls_ism_derive_key(<<Label[label]>> \o title, DerivedLength(suite))
    IN  [i \in DOMAIN array \cup DOMAIN key |-> IF i \in DOMAIN key THEN key[i] ELSE array[i]]
dlms_hls_ism_derive_enc_key(title, suite, array) == Derive("ENC", title, suite, array)
dlms_hls_ism_derive_mac_key(title, suite, array) == Derive("MAC", title, suite, array)

\* A cipher has a key of 16 bytes; of the authentication key, suites 2 to 4 read 32.
CipherKey(k) == SubSeq(k.enc, 1, 4)
AuthLength(sc) == IF sc.suite \in 2 .. 4 THEN 8 ELSE 4
AuthKey(sc, k) == SubSeq(k.auth, 1, AuthLength(sc))

------------------------------------------------------------------------------
(* Calls. *)

dlms_security_build_iv(title, n) == title \o <<Word(n % 2^Width)>>

Cipher(sc) == IF sc.suite = 5 THEN "sm4" ELSE "aes"

KeyLeftOut(sc, k) == <<dlms_security_control_encode(sc)>>     \* defect
Aad(sc, k) == <<dlms_security_control_encode(sc)>> \o AuthKey(sc, k)

dlms_security_encrypt(sc, title, n, k, text) ==
    gcm_encrypt(Cipher(sc), CipherKey(k), dlms_security_build_iv(title, n), Aad(sc, k), text)

dlms_security_decrypt(sc, title, n, k, text, tag) ==
    gcm_decrypt(Cipher(sc), CipherKey(k), dlms_security_build_iv(title, n), Aad(sc, k), text, tag)

\* The bytes of a text, whatever the blocks it is ciphered in.
Size(text) == IF text = <<>> THEN 0 ELSE 4 * (Len(text) - 1) + Len(text[Len(text)])
Flat(text) == [i \in 1 .. Size(text) |-> text[((i - 1) \div 4) + 1][((i - 1) % 4) + 1]]

dlms_security_gmac(sc, title, n, k, data) ==
    gmac(Cipher(sc), CipherKey(k), dlms_security_build_iv(title, n), Aad(sc, k) \o Flat(data))

GmacFits(sc, data) == 1 + AuthLength(sc) + Size(data) <= MaxGmac

------------------------------------------------------------------------------
(* Steps. *)

TypeOK ==
    /\ keys \in [Ends -> [enc : [1 .. 8 -> Words], auth : [1 .. 8 -> Words]]]
    /\ \A m \in wire : /\ m.sender \in Ends /\ m.counter \in Counters
                       /\ m.keys \in [enc : [1 .. 8 -> Words], auth : [1 .. 8 -> Words]]
    /\ derived \in [Ends -> {None} \cup (Ends \X Suites)]
    /\ calls \in 0 .. MaxDerived

\* Keys that were installed, or are still to be derived.
Init ==
    /\ keys \in [Ends -> UNION {Installed[e] : e \in Ends}]
    /\ \A e \in Ends : keys[e] \in Installed[e]
    /\ wire = {} /\ result = Nothing
    /\ derived = [e \in Ends |-> None]
    /\ calls = 0

\* An end derives its keys from the master key, for a title and a suite.
derive(e, owner, suite) ==
    /\ calls < MaxDerived /\ calls' = calls + 1
    /\ keys' = [keys EXCEPT
           ![e].enc  = dlms_hls_ism_derive_enc_key(Title[owner], suite, @),
           ![e].auth = dlms_hls_ism_derive_mac_key(Title[owner], suite, @)]
    /\ derived' = [derived EXCEPT ![e] = <<owner, suite>>]
    /\ UNCHANGED <<wire, result>>

\* What an end sends, with what it was made from.
Send(r, n, body, tag) ==
    LET e == r.sender
    IN  /\ Cardinality(wire) < MaxSent
        /\ wire' = wire \cup
              {[sender |-> e, method |-> r.method, sc |-> r.sc, text |-> r.text,
                counter |-> n, keys |-> keys[e], derived |-> derived[e],
                control |-> dlms_security_control_encode(r.sc), body |-> body, tag |-> tag]}
        /\ UNCHANGED <<keys, result, derived, calls>>

Fails(code) ==
    /\ result' = [call |-> "send", code |-> code]
    /\ UNCHANGED <<keys, wire, derived, calls>>

\* The caller's buffer has room for text and tag, or has not.
encrypt(r, n, fits) ==
    LET e == r.sender
        out == dlms_security_encrypt(r.sc, Title[e], n, keys[e], r.text)
    IN  /\ r.method = "encrypt"
        /\ \/ ~fits /\ Fails("BUFFER")
           \/ fits /\ Send(r, n, out.text, out.tag)

authenticate(r, n) ==
    LET e == r.sender
        tag == dlms_security_gmac(r.sc, Title[e], n, keys[e], r.text)
    IN  /\ r.method = "gmac"
        /\ \/ ~GmacFits(r.sc, r.text) /\ Fails("BUFFER")
           \/ GmacFits(r.sc, r.text) /\ Send(r, n, r.text, tag)

\* The modes without authentication; the initial vector is made as for GCM.
Nonce(e, n) == dlms_security_build_iv(Title[e], n)

encipher(r, n) ==
    LET key == CipherKey(keys[r.sender])
        nonce == Nonce(r.sender, n)
        body == CASE r.method = "ecb" -> dlms_sm4_ecb_encrypt(key, r.text)
                  [] r.method = "cbc" -> dlms_sm4_cbc_encrypt(key, Counter(nonce, 0), r.text)
                  [] r.method = "ctr" -> dlms_sm4_ctr(key, nonce, r.text)
        takes == r.method = "ctr" \/ Aligned(r.text)
    IN  /\ r.method \in {"ecb", "cbc", "ctr"}
        /\ \/ ~takes /\ Fails("INVALID")
           \/ takes /\ Send(r, n, body, None)

Received(e, m, call, code, text) ==
    /\ result' = [call |-> call, code |-> code, text |-> text, message |-> m,
                  keys |-> keys[e], derived |-> derived[e]]
    /\ UNCHANGED <<keys, wire, derived, calls>>

decrypt(e, m, fits) ==
    LET sc == dlms_security_control_decode(m.control)
        out == dlms_security_decrypt(sc, Title[m.sender], m.counter, keys[e], m.body, m.tag)
    IN  /\ m.method = "encrypt"
        /\ \/ ~fits /\ Received(e, m, "decrypt", "BUFFER", None)
           \/ fits /\ Received(e, m, "decrypt", out.code, out.text)

\* The receiver makes the tag again, of the counter and the data that arrived.
verify(e, m, n, data) ==
    LET sc == dlms_security_control_decode(m.control)
        tag == dlms_security_gmac(sc, Title[m.sender], n, keys[e], data)
        altered == n # m.counter \/ data # m.text
    IN  /\ m.method = "gmac" /\ GmacFits(sc, data)
        /\ Received(e, m, IF altered THEN "verify altered" ELSE "verify",
                    IF tag = m.tag THEN "OK" ELSE "ERROR", data)

decipher(e, m, in_place) ==
    LET key == CipherKey(keys[e])
        nonce == Nonce(m.sender, m.counter)
        text == CASE m.method = "ecb" -> dlms_sm4_ecb_decrypt(key, m.body)
                  [] m.method = "cbc" -> dlms_sm4_cbc_decrypt(key, Counter(nonce, 0), m.body, in_place)
                  [] m.method = "ctr" -> dlms_sm4_ctr(key, nonce, m.body)
    IN  /\ m.method \in {"ecb", "cbc", "ctr"}
        /\ Received(e, m, IF in_place THEN "decipher in place" ELSE "decipher", "OK", text)

\* The application goes on to its next call.
goes_on ==
    /\ result # Nothing /\ result' = Nothing
    /\ UNCHANGED <<keys, wire, derived, calls>>

Next ==
    \/ goes_on
    \/ /\ result = Nothing
       /\ \/ \E e, owner \in Ends, suite \in Suites : derive(e, owner, suite)
          \/ \E r \in Requests, n \in Counters :
                \/ \E fits \in BOOLEAN : encrypt(r, n, fits)
                \/ authenticate(r, n)
                \/ encipher(r, n)
          \/ \E m \in wire : \E e \in Ends \ {m.sender} :
                \/ \E fits \in BOOLEAN : decrypt(e, m, fits)
                \/ \E n \in Counters, data \in Texts : verify(e, m, n, data)
                \/ \E in_place \in BOOLEAN : decipher(e, m, in_place)

Spec == Init /\ [][Next]_vars

------------------------------------------------------------------------------
(* Properties. *)

SameCipherKey == CipherKey(result.keys) = CipherKey(result.message.keys)

\* The modes of SM4 give a text back under the same key, whatever its length, also
\* in the place of the cipher text; only CBC loses there all but the first block.
TextRecovered ==
    result.call \in {"decipher", "decipher in place"} /\ SameCipherKey =>
        \/ result.text = result.message.text
        \/ /\ result.message.method = "cbc" /\ result.call = "decipher in place"
           /\ result.text[1] = result.message.text[1]

\* A GMAC is found right by the receiver exactly when both ends used the same keys,
\* as long as the suite has them, and the counter and the data arrived as sent.
\* Suites above 15 do not survive the control byte.
TagBinds ==
    result.call \in {"verify", "verify altered"} /\ result.message.sc.suite < 16 =>
        (result.code = "OK" <=>
            /\ result.call = "verify"
            /\ SameCipherKey
            /\ AuthKey(result.message.sc, result.keys)
                   = AuthKey(result.message.sc, result.message.keys))

\* Ends that derived their keys from the master key for the same title and the
\* suite of a message verify each other's GMACs.  Suite 3 reads 16 bytes of
\* authentication key more than are derived for it.
EndsAgree ==
    /\ result.call = "verify"
    /\ result.derived # None /\ result.derived = result.message.derived
    /\ result.derived[2] = result.message.sc.suite
    /\ result.message.sc.suite \in 0 .. 15 \ {3}
    => result.code = "OK"

\* A text that was encrypted is in the receiver's buffer after dlms_security_decrypt
\* if both keys are the sender's, which the receiver applies as the control byte
\* says; the code that the call returns is left to DecryptRecovers.
ContentsReachReceiver ==
    /\ result.call = "decrypt" /\ result.code # "BUFFER"
    /\ result.message.sc.suite < 16 /\ SameCipherKey
    /\ AuthKey(result.message.sc, result.keys)
           = AuthKey(result.message.sc, result.message.keys)
    => result.text = result.message.text

\* The counter blocks that GCM encrypts for a message are all different, that of the
\* tag from those of the text too, and two messages have one in common only if the
\* application gave both the same title and counter: then the library encrypts the
\* same blocks again, as in test_security.c:205-221, and nothing there prevents it.
FreshKeystream ==
    LET gcm == {m \in wire : m.method \in {"encrypt", "gmac"}}
        ciphered(m) == IF m.method = "gmac" THEN <<>> ELSE m.text
        blocks(m) == CounterBlocks(Nonce(m.sender, m.counter), ciphered(m))
    IN  \A m \in gcm :
          /\ Cardinality(blocks(m)) = 1 + Len(ciphered(m))
          /\ \A other \in gcm :
                <<other.sender, other.counter>> # <<m.sender, m.counter>>
                    => blocks(m) \cap blocks(other) = {}

\* dlms_security_decrypt verifies the tag of what it is given ("Verify tag first",
\* dlms_security.c:331): with the sender's keys, control byte and counter the tag
\* of an undamaged message is found right.
DecryptRecovers ==
    /\ result.call = "decrypt" /\ result.code # "BUFFER"
    /\ result.keys = result.message.keys /\ result.message.sc.suite < 16
    => result.code = "OK"

==============================================================================
