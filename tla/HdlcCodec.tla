------------------------------ MODULE HdlcCodec ------------------------------
(***************************************************************************)
(* HDLC frames as bytes: the encoders and decoders of src/src/dlms_hdlc.c, *)
(* pure functions of sequences of bytes.                                   *)
(***************************************************************************)
EXTENDS Bytes

FLAG == 126
ESCAPE == 125
MAX_FRAME_SIZE == 256

------------------------------------------------------------------------------
(* CRC-16: a table driven register, fed with reversed bytes. *)

\* Bit i of a byte becomes bit 7 - i; w is 2^i.
Moved(b, w) == (128 \div w) * ((b \div w) % 2)
dlms_reverse_bits8(b) ==
    Moved(b, 1) + Moved(b, 2) + Moved(b, 4) + Moved(b, 8)
    + Moved(b, 16) + Moved(b, 32) + Moved(b, 64) + Moved(b, 128)

\* crc ^ 0x1021
WithPolynomial(crc) == Word(Xor(Hi(crc), 16), Xor(Lo(crc), 33))

\* The register takes in the highest bit of c.
Taking(crc, c) ==
    LET shifted == (2 * crc) % 65536
    IN  IF crc >= 32768 <=> c % 65536 >= 32768 THEN shifted ELSE WithPolynomial(shifted)

\* What the bits of b make of an empty register.
Entry(b) ==
    LET crc[j \in 0 .. 8] ==
            IF j = 0 THEN 0 ELSE Taking(crc[j - 1], 256 * b * 2^(j - 1))
    IN  crc[8]

\* As a sequence, which has the entry of byte b at place b + 1.
crc16_table == SubSeq([i \in 1 .. 256 |-> Entry(i - 1)], 1, 256)

\* A byte moves the register up a byte, and only the byte moved out meets the table.
Through(crc, b) ==
    LET entry == crc16_table[1 + Xor(Hi(crc), dlms_reverse_bits8(b))]
    IN  Word(Xor(Lo(crc), Hi(entry)), Lo(entry))

crc16_compute(s, initial) ==
    Run(U16, [crc \in U16 |-> [b \in U8 |-> Through(crc, b)]], initial, s)

crc16_finalize(crc) ==
    Word(255 - dlms_reverse_bits8(Hi(crc)), 255 - dlms_reverse_bits8(Lo(crc)))

dlms_crc16(s) == crc16_finalize(crc16_compute(s, 65535))

\* To continue, the finalisation is undone, which is to do it again.
UpdateFinalized(crc, s) == crc16_finalize(crc16_compute(s, crc))    \* defect
dlms_crc16_update(crc, s) ==
    crc16_finalize(crc16_compute(s, crc16_finalize(crc)))

------------------------------------------------------------------------------
(* Byte stuffing. *)

needs_escape(b) == b \in {FLAG, ESCAPE, 93, 125}

Stuffed(s, escaped) ==
    Run(Seq(U8),
        [dst \in Seq(U8) |-> [b \in U8 |->
            dst \o (IF b \in escaped THEN <<ESCAPE, Xor(b, 32)>> ELSE <<b>>)]],
        <<>>, s)

StuffFlagsOnly(s) == Stuffed(s, {FLAG})             \* defect: escapes sent bare
dlms_hdlc_stuff(s) == Stuffed(s, {b \in U8 : needs_escape(b)})

\* What has been written, and whether the last byte was an escape.
UnstuffState == [dst : Seq(U8), escape : BOOLEAN]
Unstuff ==
    [u \in UnstuffState |-> [b \in U8 |->
        IF u.escape THEN [dst |-> Append(u.dst, Xor(b, 32)), escape |-> FALSE]
        ELSE IF b = ESCAPE THEN [dst |-> u.dst, escape |-> TRUE]
        ELSE [dst |-> Append(u.dst, b), escape |-> FALSE]]]

\* <<>> when an escape is the last byte.
dlms_hdlc_unstuff(s) ==
    LET end == Run(UnstuffState, Unstuff, [dst |-> <<>>, escape |-> FALSE], s)
    IN  IF end.escape THEN <<>> ELSE end.dst

------------------------------------------------------------------------------
(* Addresses: one byte for the client; for the server two, or four with a    *)
(* physical address, the last one odd.                                       *)

\* Half of a server address has 14 bits.
U14 == 0 .. 16383
Addresses == [logical : U14, physical : U14, has_physical : BOOLEAN]

AddressHalf(x, last) == <<(x \div 64) % 256, (2 * (x % 128)) + last>>

dlms_hdlc_address_encode(a, is_client) ==
    IF is_client THEN <<((2 * a.logical) % 256) + 1>>
    ELSE IF a.has_physical
         THEN AddressHalf(a.logical, 0) \o AddressHalf(a.physical, 1)
         ELSE AddressHalf(a.logical, 1)

\* The halves of an address overlap in bit 6, which makes the first byte odd and so
\* the last of the address.
Plain(x) == (x \div 64) % 2 = 0
PlainAddress(a) == Plain(a.logical) /\ (a.has_physical => Plain(a.physical))

\* The server address ends with the first odd byte, the fourth at the latest.
AddressLen(s) ==
    LET odd == {i \in 1 .. Len(s) : i <= 4 /\ Odd(s[i])}
    IN  IF odd # {} THEN CHOOSE i \in odd : \A j \in odd : i <= j
        ELSE IF Len(s) < 4 THEN Len(s) ELSE 4

DecodedHalf(hi, lo) == hi \div 2 + 64 * (lo - (lo % 2))

dlms_hdlc_address_decode(s, is_client) ==
    LET n == IF is_client THEN 1 ELSE AddressLen(s)
    IN  IF s = <<>> THEN Error("INVALID")
        ELSE IF ~is_client /\ n = 4 /\ ~Odd(s[4]) THEN Error("PARSE")
        ELSE [code |-> "OK", consumed |-> n, has_physical |-> n > 2,
              logical  |-> IF n = 1 THEN s[1] \div 2 ELSE DecodedHalf(s[1], s[2]),
              physical |-> IF n > 2 THEN DecodedHalf(s[3], s[4]) ELSE 0]

------------------------------------------------------------------------------
(* Format and control fields. *)

dlms_hdlc_format_encode(length, segmented) ==
    LET val == 40960 + (length % 2048)      \* 0xA000 | (length & 0x7FF)
    IN  <<Hi(val) + (IF segmented THEN 8 ELSE 0), Lo(val)>>

dlms_hdlc_format_decode(s) ==
    IF s[1] \div 16 # 10 THEN Error("PARSE")
    ELSE [code |-> "OK", length |-> Word(s[1] % 8, s[2]), segmented |-> Odd(s[1] \div 8)]

Final(f) == IF f.final THEN 16 ELSE 0

control_encode(f) ==
    CASE f.type = "SNRM" -> 147
      [] f.type = "UA"   -> 115
      [] f.type = "RR"   -> 32 * f.recv_seq + 17
      [] f.type = "INFO" -> 2 * f.send_seq + 32 * f.recv_seq + Final(f)
      [] f.type = "DISC" -> 83
      [] f.type = "UI"   -> 3 + Final(f)

\* UNKNOWN is never reached: an odd byte ends in 01 or in 11.
detect_frame_type(ctrl) ==
    CASE ~Odd(ctrl)                              -> "INFO"
      [] ctrl \in {147, 131}                     -> "SNRM"
      [] ctrl \in {115, 99}                      -> "UA"
      [] ctrl % 4 = 1                            -> "RR"
      [] ctrl \in {83, 67}                       -> "DISC"
      [] OTHER                                   -> "UI"

dlms_hdlc_control_decode(ctrl, type) ==
    [final    |-> Odd(ctrl \div 16),
     send_seq |-> IF type = "INFO" THEN (ctrl \div 2) % 8 ELSE 0,
     recv_seq |-> IF type \in {"INFO", "RR"} THEN ctrl \div 32 ELSE 0]

------------------------------------------------------------------------------
(* Parameter lists: at most five entries, one for each type, as sequences of *)
(* [type, value]; types 2, 3 and 5 are two bytes wide, the others one.       *)

MAX_PARAMS == 5

SetAppends(list, type, value) ==                            \* defect: entries repeated
    Append(list, [type |-> type, value |-> value])
dlms_hdlc_param_list_set(list, type, value) ==
    LET at == {i \in 1 .. Len(list) : list[i].type = type}
    IN  IF at # {} THEN [i \in 1 .. Len(list) |->
                            IF i \in at THEN [type |-> type, value |-> value] ELSE list[i]]
        ELSE IF Len(list) >= MAX_PARAMS THEN list
        ELSE Append(list, [type |-> type, value |-> value])

WideParams == {2, 3, 5}

EncodedParam(p) ==
    IF p.type \in WideParams THEN <<p.type, 2, Hi(p.value), Lo(p.value)>>
    ELSE <<p.type, 1, Lo(p.value)>>

dlms_hdlc_param_list_encode(list) ==
    FlattenSeq([i \in 1 .. Len(list) |-> EncodedParam(list[i])])

\* Of a value wider than a word the last two bytes are left.
ParamValue(s, n) ==
    IF n = 0 THEN 0 ELSE IF n = 1 THEN s[3] ELSE Word(s[1 + n], s[2 + n])

\* One round: what is decoded so far, and the rest of the bytes.
NextParam(p) ==
    LET rest == p.rest
    IN  IF p.code # "OK" \/ Len(rest) < 2 THEN p
        ELSE IF 2 + rest[2] > Len(rest) THEN [p EXCEPT !.code = "PARSE"]
        ELSE [code |-> "OK", rest |-> Drop(rest, 2 + rest[2]),
              list |-> dlms_hdlc_param_list_set(p.list, rest[1], ParamValue(rest, rest[2]))]

\* A round takes two bytes at least.
dlms_hdlc_param_list_decode(s) ==
    LET after[n \in 0 .. Len(s)] ==
            IF n = 0 THEN [code |-> "OK", list |-> <<>>, rest |-> s]
            ELSE NextParam(after[n - 1])
        end == after[Len(s)]
    IN  IF end.code = "OK" THEN [code |-> "OK", list |-> end.list] ELSE Error(end.code)

------------------------------------------------------------------------------
(* Frames: [type, dest, src, send_seq, recv_seq, final, info]. *)

HasHcs(f) == f.info # <<>> \/ f.type \in {"SNRM", "UA"}
CarriesInfo(type) == type \in {"INFO", "UI", "SNRM", "UA"}

WithCrc(s) == s \o <<Hi(dlms_crc16(s)), Lo(dlms_crc16(s))>>

\* The frame before stuffing; the format field counts all but flags and FCS.
RawFrame(f) ==
    LET addresses == dlms_hdlc_address_encode(f.dest, TRUE)
                     \o dlms_hdlc_address_encode(f.src, FALSE)
        length == 2 + Len(addresses) + 1 + (IF HasHcs(f) THEN 2 ELSE 0) + Len(f.info)
        header == dlms_hdlc_format_encode(length, FALSE)
                  \o addresses \o <<control_encode(f)>>
    IN  WithCrc((IF HasHcs(f) THEN WithCrc(header) ELSE header) \o f.info)

\* The unescaped frame must fit a local buffer (which the check does for all but
\* its two FCS bytes), and the destination must hold it with every byte escaped.
dlms_hdlc_frame_encode(f, dst_size) ==
    LET raw == RawFrame(f)
    IN  IF Len(raw) - 2 > MAX_FRAME_SIZE \/ dst_size < 2 * Len(raw) + 2 THEN Error("BUFFER")
        ELSE [code |-> "OK", wire |-> <<FLAG>> \o dlms_hdlc_stuff(raw) \o <<FLAG>>]

FcsIgnored(u) == FALSE                              \* defect: FCS not verified
FcsWrong(u) ==
    dlms_crc16(SubSeq(u, 1, Len(u) - 2)) # Word(u[Len(u) - 1], u[Len(u)])

\* The addresses, and the fields behind them, in a frame whose frame check is right.
DecodedAddress(a) ==
    [logical |-> a.logical, physical |-> a.physical, has_physical |-> a.has_physical]
DecodeFields(u, pos, dest, src) ==
    LET type == detect_frame_type(u[pos])
        ctl  == dlms_hdlc_control_decode(u[pos], type)
        end  == Len(u) - 2
        from == IF pos + 2 <= end THEN pos + 3 ELSE pos + 1
    IN  [code |-> "OK", dest |-> dest, src |-> src, type |-> type, final |-> ctl.final,
         send_seq |-> ctl.send_seq, recv_seq |-> ctl.recv_seq,
         info |-> IF CarriesInfo(type) THEN SubSeq(u, from, end) ELSE <<>>]

dlms_hdlc_frame_decode(data) ==
    IF Len(data) < 8 THEN Error("INVALID")
    ELSE IF data[1] # FLAG \/ data[Len(data)] # FLAG THEN Error("PARSE")
    ELSE LET u == dlms_hdlc_unstuff(SubSeq(data, 2, Len(data) - 1))
         IN  IF Len(u) < 3 \/ Len(u) > MAX_FRAME_SIZE \/ FcsWrong(u) THEN Error("PARSE")
             ELSE LET fmt == dlms_hdlc_format_decode(u)
                  IN  IF fmt.code # "OK" THEN fmt
                      ELSE IF fmt.length + 2 # Len(u) THEN Error("PARSE")
                      ELSE LET dest == dlms_hdlc_address_decode(SubSeq(u, 3, Len(u)), TRUE)
                               src  == dlms_hdlc_address_decode(SubSeq(u, 4, Len(u)), FALSE)
                           IN  IF src.code # "OK" THEN src
                               ELSE DecodeFields(u, 4 + src.consumed,
                                                 DecodedAddress(dest), DecodedAddress(src))

\* What comes back of an address.  The byte of a client address holds seven bits.
\* Of a plain server address nothing is lost, but it does not come back as it was: the
\* encoder puts the low seven bits of a half last, and the decoder takes what is last
\* for the high ones, so that the two groups of seven bits are exchanged.
ClientRead(a) == [logical |-> a.logical % 128, physical |-> 0, has_physical |-> FALSE]
Exchanged(x) == x \div 128 + 128 * (x % 128)
ServerRead(a) ==
    [logical |-> Exchanged(a.logical),
     physical |-> IF a.has_physical THEN Exchanged(a.physical) ELSE 0,
     has_physical |-> a.has_physical]

\* What the other end sees of a frame: the unnumbered commands and RR are sent with
\* the final bit, sequence numbers only where they have a meaning.
Meaning(f) ==
    [code |-> "OK", dest |-> ClientRead(f.dest), src |-> ServerRead(f.src), type |-> f.type,
     final |-> IF f.type \in {"INFO", "UI"} THEN f.final ELSE TRUE,
     send_seq |-> f.send_seq, recv_seq |-> f.recv_seq, info |-> f.info]

==============================================================================
