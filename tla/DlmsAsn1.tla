------------------------------- MODULE DlmsAsn1 -------------------------------
(***************************************************************************)
(* The association APDUs as bytes: BER lengths, the AARQ, the AARE and the *)
(* A-XDR initiate request and response inside them, as src/src/dlms_asn1.c *)
(* writes and reads them.  A field no byte was read for stays Unset where  *)
(* the code leaves its variable uninitialised.                             *)
(***************************************************************************)
EXTENDS Bytes

TAG_AARQ == 96
TAG_AARE == 97
InitReqSize == 128     \* of the buffer of the initiate request
Unset == -1

------------------------------------------------------------------------------
(* BER. *)

LongFormLate(n) == IF n <= 128 THEN <<n>> ELSE <<129, n>>      \* defect
dlms_ber_encode_length(n) ==
    IF n <= 127 THEN <<n>>
    ELSE IF n <= 255 THEN <<129, n>>
    ELSE <<130, Hi(n), Lo(n)>>

\* The value is 32 bits wide; no length here has more than two bytes.
dlms_ber_decode_length(s) ==
    IF s = <<>> THEN Error("INVALID")
    ELSE IF s[1] < 128 THEN [code |-> "OK", length |-> s[1], consumed |-> 1]
    ELSE LET n == s[1] - 128
         IN  IF n = 0 \/ 1 + n > Len(s) THEN Error("PARSE")
             ELSE [code |-> "OK", consumed |-> 1 + n,
                   length |-> Run(Nat, [val \in Nat |-> [b \in U8 |-> Word(val, b)]],
                                 0, SubSeq(s, 2, 1 + n))]

\* Tag and length; consumed counts both.
dlms_ber_decode_tag(s) ==
    LET l == dlms_ber_decode_length(Tail(s))
    IN  IF l.code # "OK" THEN l ELSE [l EXCEPT !.consumed = @ + 1]

Tagged(tag, s) == <<tag>> \o dlms_ber_encode_length(Len(s)) \o s

\* Context name 2.16.756.5.8.1.1 as an object identifier.
app_ctx == <<6, 7, 96, 133, 116, 5, 8, 1, 1>>

\* What follows the context name, if s begins with one.
AfterContext(s) ==
    IF ~StartsWith(s, 6) THEN [code |-> "OK", rest |-> s]
    ELSE LET l == dlms_ber_decode_tag(s)
         IN  IF l.code # "OK" THEN l
             ELSE [code |-> "OK", rest |-> Drop(s, l.consumed + l.length)]

\* One round over a user information element: an authentication value (80, with a
\* length of one byte) or an initiate request or response (81).  Anything else ends
\* the loop.
NextField(u) ==
    LET s == u.rest
        l == dlms_ber_decode_tag(s)
    IN  IF StartsWith(s, 128) /\ Len(s) > 1
        THEN [rest |-> Drop(s, 2 + s[2]), auth_value |-> SubSeq(s, 3, 2 + s[2]),
              initiates |-> u.initiates]
        ELSE IF StartsWith(s, 129) /\ l.code = "OK" /\ l.consumed + l.length <= Len(s)
        THEN [rest |-> Drop(s, l.consumed + l.length), auth_value |-> u.auth_value,
              initiates |-> Append(u.initiates,
                                   SubSeq(s, 1 + l.consumed, l.consumed + l.length))]
        ELSE u

\* The fields of the user information that s begins with, if it does: the last
\* authentication value, and every initiate request or response.  A round takes two
\* bytes at least.
UserFields(s) ==
    LET l == dlms_ber_decode_tag(s)
        info == IF StartsWith(s, 190) /\ l.code = "OK"
                THEN SubSeq(s, 1 + l.consumed, l.consumed + l.length) ELSE <<>>
        after[n \in 0 .. Len(info) \div 2] ==
            IF n = 0 THEN [rest |-> info, auth_value |-> <<>>, initiates |-> <<>>]
            ELSE NextField(after[n - 1])
    IN  after[Len(info) \div 2]

------------------------------------------------------------------------------
(* AARQ: [dlms_version, auth_mech, auth_value]. *)

\* Defaults for protocol version, conformance and PDU size; the challenge is
\* the authentication value.
dlms_initiate_request_encode(a) ==
    LET challenge == IF a.auth_value = <<>> THEN <<0>>
                     ELSE <<1, Lo(Len(a.auth_value))>> \o a.auth_value
        request == <<0, 0, 1, a.dlms_version, 1, a.auth_mech>> \o challenge \o <<0>>
    IN  IF Len(request) > InitReqSize THEN Error("BUFFER")
        ELSE [code |-> "OK", bytes |-> request]

dlms_aarq_encode(a, dst_size) ==
    LET initiate == dlms_initiate_request_encode(a)
        auth == IF a.auth_value = <<>> THEN <<>>
                ELSE <<128, Lo(Len(a.auth_value))>> \o a.auth_value
        user_info == Tagged(190, auth \o Tagged(129, initiate.bytes))
        aarq == Tagged(TAG_AARQ, app_ctx \o user_info)
    IN  IF initiate.code # "OK" THEN initiate
        ELSE IF Len(aarq) > dst_size THEN Error("BUFFER")
        ELSE [code |-> "OK", bytes |-> aarq]

\* A field with a default indicator: 00, or 01 and one byte.
DefaultField(s) ==
    IF StartsWith(s, 0) THEN [value |-> Unset, rest |-> Tail(s)]
    ELSE IF StartsWith(s, 1) /\ Len(s) > 1 THEN [value |-> s[2], rest |-> Drop(s, 2)]
    ELSE [value |-> Unset, rest |-> s]

InitiateRequest(ir) ==
    LET s1 == IF StartsWith(ir, 0) THEN Tail(ir) ELSE ir
        s2 == IF StartsWith(s1, 0) THEN Tail(s1)
              ELSE IF StartsWith(s1, 1) THEN Drop(s1, 5) ELSE s1
        version == DefaultField(s2)
    IN  [dlms_version |-> version.value, auth_mech |-> DefaultField(version.rest).value]

\* The last request decides.
AarqFields(s) ==
    LET u == UserFields(s)
        ir == InitiateRequest(IF u.initiates = <<>> THEN <<>> ELSE Last(u.initiates))
    IN  [auth_value |-> u.auth_value, dlms_version |-> ir.dlms_version,
         auth_mech |-> ir.auth_mech]

DecodedAarq(consumed, fields) ==
    [code |-> "OK", consumed |-> consumed, auth_value |-> fields.auth_value,
     auth_mech |-> fields.auth_mech, dlms_version |-> fields.dlms_version]

dlms_aarq_decode(data) ==
    IF Len(data) < 2 THEN Error("INVALID")
    ELSE IF data[1] # TAG_AARQ THEN Error("PARSE")
    ELSE LET header == dlms_ber_decode_tag(data)
         IN  IF header.code # "OK" THEN header
             ELSE IF header.consumed + header.length > Len(data) THEN Error("BUFFER")
             ELSE LET context == AfterContext(Drop(data, header.consumed))
                      info == dlms_ber_decode_tag(context.rest)
                  IN  IF context.code # "OK" THEN context
                      ELSE IF StartsWith(context.rest, 190) /\ info.code # "OK" THEN info
                      ELSE DecodedAarq(header.consumed + header.length,
                                       AarqFields(context.rest))

------------------------------------------------------------------------------
(* Initiate response.  A reader goes from a state, [ok, rest, resp], to the  *)
(* next; once it is not ok the fields that follow stay as they are.          *)

Conformance(st) ==
    LET s == st.rest
    IN  IF s[1] = 0 THEN [st EXCEPT !.rest = Tail(s)]
        ELSE IF s[1] = 1 THEN [st EXCEPT !.rest = Drop(s, 5)]
        ELSE [st EXCEPT !.ok = FALSE]

\* Two bytes must be left, even for a default.
ByteField(st, field) ==
    LET s == st.rest
    IN  IF ~st.ok \/ Len(s) < 2 \/ ~(s[1] \in {0, 1}) THEN [st EXCEPT !.ok = FALSE]
        ELSE IF s[1] = 0 THEN [st EXCEPT !.rest = Tail(s)]
        ELSE [ok |-> TRUE, rest |-> Drop(s, 2), resp |-> [st.resp EXCEPT ![field] = s[2]]]

\* A title longer than eight bytes is cut, and its rest taken for what follows.
Title(st) ==
    LET s == st.rest
        n == IF s[2] > 8 THEN 8 ELSE s[2]
        found(ok, title, rest) ==
            [ok |-> ok, rest |-> rest, resp |-> [st.resp EXCEPT !.title = title]]
    IN  IF ~st.ok THEN st
        ELSE IF StartsWith(s, 0) THEN found(TRUE, <<>>, Tail(s))
        ELSE IF ~StartsWith(s, 1) THEN found(TRUE, <<>>, s)
        ELSE IF Len(s) < 2 THEN found(FALSE, <<>>, s)
        ELSE IF 2 + s[2] > Len(s) THEN found(FALSE, <<>>, s)
        ELSE found(TRUE, SubSeq(s, 3, 2 + n), Drop(s, 2 + n))

PduSize(st) ==
    LET s == st.rest
    IN  IF st.ok /\ StartsWith(s, 1) /\ Len(s) > 2
        THEN [st.resp EXCEPT !.negotiated_max_pdu_size = Word(s[2], s[3])] ELSE st.resp

\* dlms_aare_decode ignores the return code and uses the fields all the same.
dlms_initiate_response_decode(s) ==
    LET unset == [dlms_version |-> Unset, auth_mech |-> Unset, title |-> Unset,
                  negotiated_max_pdu_size |-> Unset]
        start == [ok |-> TRUE, rest |-> s, resp |-> unset]
    IN  IF Len(s) < 3 THEN unset
        ELSE PduSize(Title(ByteField(ByteField(Conformance(start), "dlms_version"),
                                     "auth_mech")))

------------------------------------------------------------------------------
(* AARE.  Each optional element is skipped if it is next, and nothing is     *)
(* looked for behind an element that was not expected.                       *)

Result(s) ==
    IF ~StartsWith(s, 2) THEN [result |-> 0, rest |-> s]
    ELSE [result |-> IF Len(s) > 1 THEN s[2] ELSE 0, rest |-> Drop(s, 2)]

DiagnosticsKept(s) == s                                             \* defect
AfterDiagnostics(s) ==
    IF ~StartsWith(s, 161) THEN s
    ELSE LET l == dlms_ber_decode_tag(s)
         IN  IF l.code = "OK" THEN Drop(s, l.consumed + l.length) ELSE Tail(s)

AfterInvocation(s) ==
    IF ~StartsWith(s, 128) THEN s
    ELSE IF Len(s) > 1 THEN Drop(s, 2 + s[2]) ELSE Tail(s)

NoInitiateFields ==     \* memset
    [dlms_version |-> 0, auth_mech |-> 0, title |-> <<>>, negotiated_max_pdu_size |-> 0]

\* The last response decides.
AareFields(s) ==
    LET u == UserFields(s)
        ir == IF u.initiates = <<>> THEN NoInitiateFields
              ELSE dlms_initiate_response_decode(Last(u.initiates))
    IN  [auth_value |-> u.auth_value, dlms_version |-> ir.dlms_version,
         auth_mech |-> ir.auth_mech, title |-> ir.title,
         negotiated_max_pdu_size |-> ir.negotiated_max_pdu_size]

NeverShort(header, data) == FALSE                                   \* defect
TooShort(header, data) == header.consumed + header.length > Len(data)

DecodedAare(result, fields) ==
    [code |-> "OK", result |-> result, auth_value |-> fields.auth_value,
     auth_mech |-> fields.auth_mech, dlms_version |-> fields.dlms_version,
     title |-> fields.title, negotiated_max_pdu_size |-> fields.negotiated_max_pdu_size]

dlms_aare_decode(data) ==
    IF Len(data) < 2 THEN Error("INVALID")
    ELSE IF data[1] # TAG_AARE THEN Error("PARSE")
    ELSE LET header == dlms_ber_decode_tag(data)
         IN  IF header.code # "OK" THEN header
             ELSE IF TooShort(header, data) THEN Error("BUFFER")
             ELSE LET context == AfterContext(Drop(data, header.consumed))
                      result == Result(context.rest)
                  IN  IF context.code # "OK" THEN context
                      ELSE DecodedAare(result.result,
                               AareFields(AfterInvocation(AfterDiagnostics(result.rest))))

==============================================================================
