------------------------------ MODULE AareResult ------------------------------
(***************************************************************************)
(* What dlms_aare_decode makes of the result and of the negotiated PDU     *)
(* size of an AARE, told apart by how its sender writes the result:        *)
(*                                                                         *)
(*   "bare"     tag 02 and the value;                                      *)
(*   "tlv"      tag 02, the length 01 and the value, as BER has it;        *)
(*   "wrapped"  that TLV inside the context tag A2.                        *)
(*                                                                         *)
(* DlmsClient branches on these two operators; DlmsAssociation checks them *)
(* against the decoder, byte by byte.                                      *)
(***************************************************************************)
EXTENDS Naturals

AareFormKinds == {"bare", "tlv", "wrapped"}

\* Defect: a result that is not looked at.
ResultIgnored(f) == 0

\* The byte after tag 02 is taken for the result; in a TLV it is the length.
\* It stays zero when there is no tag 02 where the decoder looks for one.
aare_result(f) ==
    CASE f.form = "bare"    -> IF f.accept THEN 0 ELSE 1
      [] f.form = "tlv"     -> 1
      [] f.form = "wrapped" -> 0

\* Zero without an initiate response, which is only reached behind a result the
\* decoder has consumed; otherwise read into, or left in, a local that is not
\* initialised.  sizes: the values that may come of it.
negotiated_pdu(f, sizes) ==
    IF f.form = "bare" /\ f.ui THEN sizes \cup {0} ELSE {0}

==============================================================================
