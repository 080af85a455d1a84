------------------------------- MODULE MCFrame -------------------------------
(* Values of the constants of HdlcFrame for model checking. *)
EXTENDS HdlcFrame

\* Logical address 62 and physical address 63 are sent as 7D and 7F.
MCServers ==
    {[logical |-> 1, physical |-> 0, has_physical |-> FALSE],
     [logical |-> 62, physical |-> 0, has_physical |-> FALSE],
     [logical |-> 144, physical |-> 63, has_physical |-> TRUE]}

MCInfos == {<<>>, <<192>>, <<126, 125, 94>>}

MCSettings ==
    {[type |-> t, value |-> v] : t \in {1, 3}, v \in {1, 126, 300}}

\* Bits are flipped in all of these, and in the SNRM and UA of one parameter list.
MCNoisy ==
    MCInfos \cup
    {dlms_hdlc_param_list_encode(<<[type |-> 1, value |-> 126], [type |-> 3, value |-> 300]>>)}

\* The theorems about frames speak of these constants.
ASSUME ExpressibleHere == Expressible

\* What the compiled library builds for four frames, without flags and escapes.
Server1 == [logical |-> 1, physical |-> 0, has_physical |-> FALSE]
ASSUME Vectors ==
    /\ RawFrame(Frame("RR", Server1, 0, 0, FALSE, <<>>)) =
           <<160, 6, 33, 0, 3, 17, 93, 244>>
    /\ RawFrame(Frame("DISC", Server1, 0, 0, FALSE, <<>>)) =
           <<160, 6, 33, 0, 3, 83, 75, 149>>
    /\ RawFrame(Frame("SNRM", Server1, 0, 0, FALSE, <<>>)) =
           <<160, 8, 33, 0, 3, 147, 255, 50, 71, 15>>
    /\ RawFrame(Frame("INFO", Server1, 0, 0, TRUE, <<126, 125, 94>>)) =
           <<160, 11, 33, 0, 3, 16, 160, 153, 126, 125, 94, 243, 164>>

==============================================================================
