-------------------------------- MODULE MCAxdr --------------------------------
(* Values of the constants of Axdr for model checking. *)
EXTENDS Axdr

\* One type of every width, arrays of up to two, strings with a length in each
\* of the three forms, one of bytes that look like tags, and BCD, which cannot
\* be encoded.
Leaf(type, data) == Node(type, data, 0)
Long(n) == [i \in 1 .. n |-> 9]
MCNodes ==
    {Leaf(0, <<>>), Leaf(255, <<>>), Leaf(3, <<1>>), Leaf(17, <<130>>), Leaf(16, <<255, 254>>),
     Leaf(5, <<0, 0, 132, 0>>), Leaf(20, <<128, 0, 0, 0, 0, 0, 0, 1>>),
     Leaf(26, <<7, 232, 1, 15, 1>>),
     Leaf(25, <<7, 232, 6, 15, 12, 30, 45, 0, 0, 60, 0>>),
     Leaf(9, <<>>), Leaf(10, <<1, 0>>), Leaf(4, Long(127)), Leaf(12, Long(128)),
     Leaf(9, Long(255)), Leaf(9, Long(256)), Leaf(19, <<2>>), Leaf(19, <<>>), Leaf(13, <<18>>),
     Node(1, <<>>, 0), Node(1, <<>>, 2), Node(2, <<>>, 1)}

\* Compact arrays of three numbers, as in test_axdr.c, of none, of two types, of more
\* bytes than the buffer has, and with a value that cannot be encoded.
Int32 == Leaf(5, <<0, 0, 132, 0>>)
MCCompact ==
    {[items |-> <<Int32, Int32, Int32>>, types |-> <<5>>],
     [items |-> <<>>, types |-> <<5>>],
     [items |-> <<Leaf(17, <<130>>), Leaf(10, <<1, 0>>)>>, types |-> <<17, 10>>],
     [items |-> <<Leaf(9, Long(256)), Leaf(4, Long(127)), Int32>>, types |-> <<9, 4, 5>>],
     [items |-> <<Int32, Leaf(13, <<18>>), Int32>>, types |-> <<5, 13>>]}

\* Within the last values, within a long string and within the length before it.
MCCuts == (1 .. 16) \cup (126 .. 132) \cup (254 .. 262)

\* Bytes written by the compiled library: a structure, a datetime and a compact
\* array value without contents; a compact array.
ASSUME Vectors ==
    LET list == <<Node(2, <<>>, 2), Leaf(17, <<130>>), Leaf(10, <<1, 0>>),
                  Leaf(25, <<7, 232, 6, 15, 12, 30, 45, 0, 0, 60, 0>>), Leaf(19, <<>>)>>
    IN  /\ FlattenSeq([i \in 1 .. 5 |-> NodeBytes(list[i])]) =
               <<2, 2, 17, 130, 10, 2, 1, 0, 25, 7, 232, 6, 15, 0, 12, 30, 45, 0, 0, 60, 0, 19>>
        /\ compact_array_bytes([items |-> <<list[2], list[3]>>, types |-> <<17, 10>>], 2) =
               <<19, 0, 2, 17, 10, 1, 2, 17, 130, 10, 2, 1, 0>>

==============================================================================
