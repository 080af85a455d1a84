--------------------------------- MODULE Meter --------------------------------
(***************************************************************************)
(* The meter at the other end of the line.  It is external: the repository *)
(* has no HDLC server, and this module is what dlms_client.c relies on.    *)
(* It answers SNRM and DISC with UA, an I-frame that is in sequence with   *)
(* an I-frame (with an RR before it, or without one, the two cases the     *)
(* client distinguishes), and it discards an I-frame that is not in        *)
(* sequence, as any HDLC secondary station does.                           *)
(***************************************************************************)
EXTENDS DlmsWire, Integers

CONSTANTS
    RrChoices,    \* whether the meter acknowledges with an RR before it answers
    Accepts,      \* its decisions on an association request
    UserInfo      \* whether its AARE carries an initiate response

ASSUME MeterAssumption ==
    /\ RrChoices # {} /\ RrChoices \subseteq BOOLEAN
    /\ Accepts # {} /\ Accepts \subseteq BOOLEAN
    /\ UserInfo # {} /\ UserInfo \subseteq BOOLEAN

VARIABLES
    vr,     \* N(S) expected next; -1 in the disconnected mode
    open    \* the meter holds an application association open

meterVars == <<vr, open>>

MeterTypeOK ==
    /\ vr \in SeqNums \cup {-1}
    /\ open \in BOOLEAN

MeterInit ==
    /\ vr = -1
    /\ open = FALSE

Reply(frames) ==
    /\ Len(down) + Len(frames) <= MaxWire
    /\ down' = down \o frames

Arrived(t) ==
    /\ up # <<>>
    /\ Head(up).t = t
    /\ up' = Tail(up)

Answer(f) ==
    \E rr \in RrChoices : Reply(IF rr THEN <<Rr, f>> ELSE <<f>>)

InSequence == Head(up).ns = vr

\* SNRM resets the link and whatever ran on top of it.
MeterSnrm ==
    /\ Arrived("SNRM")
    /\ \E i \in UaInfos : Reply(<<Ua(i)>>)
    /\ vr' = 0
    /\ open' = FALSE

MeterDisc ==
    /\ Arrived("DISC")
    /\ IF vr = -1
       THEN Reply(<<Dm>>)
       ELSE \E i \in UaInfos : Reply(<<Ua(i)>>)
    /\ vr' = -1
    /\ open' = FALSE

MeterAarq ==
    /\ Arrived("I")
    /\ InSequence
    /\ Head(up).body = "AARQ"
    /\ vr' = Succ(vr)
    /\ \E form \in AareForms, accept \in Accepts, ui \in UserInfo :
           /\ Answer(Aare(form, accept, ui))
           /\ open' = accept

MeterData ==
    /\ Arrived("I")
    /\ InSequence
    /\ Head(up).body # "AARQ"
    /\ Answer(Data(Head(up).body))
    /\ vr' = Succ(vr)
    /\ UNCHANGED open

MeterDiscard ==
    /\ Arrived("I")
    /\ ~InSequence
    /\ UNCHANGED <<down, meterVars>>

MeterNext ==
    \/ MeterSnrm
    \/ MeterDisc
    \/ MeterAarq
    \/ MeterData
    \/ MeterDiscard

==============================================================================
