-------------------------------- MODULE MCCosem --------------------------------
(* Values of the constants of Cosem for model checking. *)
EXTENDS Cosem, TLC

CONSTANTS s1, s2

\* An object of every class beside one of class data.
MCAssignments == {[s \in Slots |-> IF s = s1 THEN k ELSE "data"] : k \in Kinds}

\* Two changes where values may refer to memory of every kind, one elsewhere; none
\* for classes that hold numbers and one value like demand, only fewer or more.
LikeDemand ==
    {"register_monitor", "disconnect_control", "limiter", "account", "day_profile",
     "extended_register", "demand_register", "credit"}
MCMaxWrites ==
    [k \in MCAssignments |->
        IF k[s1] = "security_setup" THEN 2 ELSE IF k[s1] \in LikeDemand THEN 0 ELSE 1]

\* Names are compared with each other and nothing else.
MCSymmetry == Permutations(Names)

==============================================================================
