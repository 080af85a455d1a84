------------------------------- MODULE MCStream -------------------------------
(* Frames built by dlms_hdlc.c, as they are before stuffing, client address *)
(* 16: an RR from server 1, whose FCS holds 5D; a DISC, nothing escaped; an  *)
(* I-frame whose information is 7E 7D 5E.                                    *)
EXTENDS HdlcStream

MCBodies ==
    {<<160, 6, 33, 0, 3, 17, 93, 244>>,
     <<160, 6, 33, 0, 3, 83, 75, 149>>,
     <<160, 11, 33, 0, 3, 16, 160, 153, 126, 125, 94, 243, 164>>}

MCDamage == {126, 125, 94, 0}

==============================================================================
