--------------------------------- MODULE Axdr ---------------------------------
(***************************************************************************)
(* A-XDR (src/src/dlms_axdr.c): one end encodes a list of values with      *)
(* dlms_axdr_encode_value_list, the other takes it apart with one call of  *)
(* dlms_axdr_decode for each value, as the decoder wants it, which leaves  *)
(* the elements of an array to the caller.                                 *)
(*                                                                         *)
(* A value is the sequence of its nodes in the order the recursion of      *)
(* axdr_encode meets them; the recursion itself is the number of nodes     *)
(* still to come.  A node has its type, its bytes (an integer's most       *)
(* significant first, a float's as in memory, a date's in the order of the *)
(* struct) and, an array or a structure, its number of items.              *)
(***************************************************************************)
EXTENDS Bytes

CONSTANTS
    Nodes,          \* [type, data, count] the values are made of
    CompactArrays,  \* [items, types] for the compact array functions
    DstSize,        \* size of the buffer encoded into
    MaxNodes,       \* bound of the model: nodes of a list
    Cuts            \* how many bytes may be cut off before it is decoded

\* dlms_data_type_t
BOOL == 3
BCD == 13
COMPACT_ARRAY == 19
DATETIME == 25
Empty      == {0, 255}              \* null, don't care
Containers == {1, 2}                \* array, structure
Strings    == {4, 9, 10, 12}        \* bit, octet, visible and UTF-8 string

\* Bytes of a type of fixed length.
Width(type) ==
    CASE type \in {3, 15, 17, 22} -> 1      \* boolean, int8, uint8, enum
      [] type \in {16, 18}        -> 2      \* int16, uint16
      [] type \in {5, 6, 23, 27}  -> 4      \* int32, uint32, float32, time
      [] type = 26                -> 5      \* date
      [] type \in {20, 21, 24}    -> 8      \* int64, uint64, float64
      [] type = DATETIME          -> 12
FixedTypes == {3, 5, 6, 15, 16, 17, 18, 20, 21, 22, 23, 24, DATETIME, 26, 27}

\* What a value can hold: the length of its type, a length or a number of items
\* of 16 bits.
dlms_value_t(n) ==
    /\ n \in [type : U8, data : Seq(U8), count : U16]
    /\ Len(n.data) \in U16
    /\ n.type \in FixedTypes => Len(n.data) = IF n.type = DATETIME THEN 11 ELSE Width(n.type)
    /\ n.type = BOOL => n.data[1] \in {0, 1}
    /\ n.type \in Empty \cup Containers => n.data = <<>>
    /\ n.type \notin Containers => n.count = 0

ASSUME AxdrAssumption ==
    /\ \A n \in Nodes : dlms_value_t(n)
    /\ \A a \in CompactArrays :
          /\ a.items \in Seq(Nodes) /\ Len(a.items) \in U16
          /\ a.types \in Seq(U8) /\ Len(a.types) \in U8
    /\ DstSize \in Nat /\ MaxNodes \in Nat \ {0} /\ Cuts \subseteq Nat \ {0}

------------------------------------------------------------------------------
(* Lengths. *)

LengthShort(len) ==                 \* defect: the first form goes up to 255
    IF len <= 255 THEN <<len>> ELSE <<132, Hi(len), Lo(len)>>
encode_length_prefix(len) ==
    IF len <= 127 THEN <<len>>
    ELSE IF len <= 255 THEN <<130, len>>
    ELSE <<132, Hi(len), Lo(len)>>

decode_length_prefix(data) ==
    IF data = <<>> THEN Error("BUFFER")
    ELSE IF data[1] < 128 THEN [code |-> "OK", len |-> data[1], consumed |-> 1]
    ELSE IF data[1] = 130 /\ Len(data) >= 2
         THEN [code |-> "OK", len |-> data[2], consumed |-> 2]
    ELSE IF data[1] = 132 /\ Len(data) >= 3
         THEN [code |-> "OK", len |-> Word(data[2], data[3]), consumed |-> 3]
    ELSE Error("PARSE")

------------------------------------------------------------------------------
(* One node. *)

Supported(type) == type \in Empty \cup FixedTypes \cup Strings \cup Containers \cup {COMPACT_ARRAY}

\* The bytes of a node; those of the nodes inside it follow.  A datetime is sent
\* with a day of the week that the struct does not have.
NodeBytes(n) ==
    <<n.type>> \o
    CASE n.type \in Empty -> <<>>
      [] n.type = BOOL -> <<IF n.data[1] # 0 THEN 1 ELSE 0>>
      [] n.type = DATETIME -> SubSeq(n.data, 1, 4) \o <<0>> \o SubSeq(n.data, 5, 11)
      [] n.type \in FixedTypes \ {BOOL, DATETIME} -> n.data
      [] n.type \in Strings -> encode_length_prefix(Len(n.data)) \o n.data
      [] n.type \in Containers -> encode_length_prefix(n.count)
      [] n.type = COMPACT_ARRAY ->
             IF n.data = <<>> THEN <<>> ELSE encode_length_prefix(Len(n.data)) \o n.data

\* There is room for a node.
TagFits(n, room) ==                 \* defect: only the tag is checked for
    room >= 1
Fits(n, room) == Len(NodeBytes(n)) <= room

Node(type, data, count) == [type |-> type, data |-> data, count |-> count]
Decoded(type, data, count, consumed) ==
    [code |-> "OK", node |-> Node(type, data, count), consumed |-> consumed]

\* The fields of a type of fixed length.
Fields(type, bytes) ==
    CASE type = BOOL -> <<IF bytes[1] # 0 THEN 1 ELSE 0>>
      [] type = DATETIME -> SubSeq(bytes, 1, 4) \o SubSeq(bytes, 6, 12)
      [] OTHER -> bytes

StringLost(type, data) ==           \* defect: a string may end with the data
    LET l == decode_length_prefix(data)
    IN  IF l.code # "OK" THEN l
        ELSE LET len == IF l.consumed + l.len > Len(data) THEN Len(data) - l.consumed ELSE l.len
             IN  Decoded(type, SubSeq(data, l.consumed + 1, l.consumed + len), 0,
                         1 + l.consumed + len)
StringNode(type, data) ==
    LET l == decode_length_prefix(data)
    IN  IF l.code # "OK" THEN l
        ELSE IF l.consumed + l.len > Len(data) THEN Error("BUFFER")
        ELSE Decoded(type, SubSeq(data, l.consumed + 1, l.consumed + l.len), 0,
                     1 + l.consumed + l.len)

\* The items of an array are left to the caller.
ContainerNode(type, data) ==
    LET l == decode_length_prefix(data)
    IN  IF l.code # "OK" THEN l ELSE Decoded(type, <<>>, l.len, 1 + l.consumed)

axdr_decode(data) ==
    IF data = <<>> THEN Error("INVALID")
    ELSE LET type == data[1]
             rest == Drop(data, 1)
         IN  CASE type \in Empty -> Decoded(type, <<>>, 0, 1)
               [] type \in FixedTypes ->
                      IF Len(rest) < Width(type) THEN Error("BUFFER")
                      ELSE Decoded(type, Fields(type, SubSeq(rest, 1, Width(type))), 0,
                                   1 + Width(type))
               [] type \in Strings \cup {BCD, COMPACT_ARRAY} -> StringNode(type, rest)
               [] type \in Containers -> ContainerNode(type, rest)
               [] OTHER -> Error("NOT_SUPPORTED")

------------------------------------------------------------------------------
(* Compact arrays, of items that hold no others. *)

\* The bytes up to the item n.
compact_array_bytes(a, n) ==
    <<COMPACT_ARRAY, 0>> \o encode_length_prefix(Len(a.types)) \o a.types
    \o <<1>> \o encode_length_prefix(Len(a.items))
    \o FlattenSeq([i \in 1 .. n |-> NodeBytes(a.items[i])])

\* A tag byte and a length prefix.
TaggedLength(tag, data) ==
    IF ~StartsWith(data, tag) THEN Error("PARSE") ELSE decode_length_prefix(Drop(data, 1))

\* dlms_axdr_decode_compact_array up to the items: their number and where they
\* begin.  max_types and max_count are taken to be large enough.
compact_array_header(data) ==
    LET total == TaggedLength(COMPACT_ARRAY, data)
    IN  IF total.code # "OK" THEN total
        ELSE LET desc == Drop(data, 1 + total.consumed)
                 types == TaggedLength(0, desc)
             IN  IF types.code # "OK" THEN types
                 ELSE IF Len(desc) < 1 + types.consumed + types.len THEN Error("BUFFER")
                 ELSE LET content == Drop(desc, 1 + types.consumed + types.len)
                          items == TaggedLength(1, content)
                      IN  IF items.code # "OK" THEN items
                          ELSE [code |-> "OK", count |-> items.len,
                                at |-> Len(data) - Len(content) + 1 + items.consumed]

------------------------------------------------------------------------------
(* An encoder and a decoder. *)

VARIABLES
    kind,      \* "list" or "compact": what is encoded
    todo,      \* nodes the encoder has still to meet
    nodes,     \* those it has met
    dst,       \* the bytes written
    code,      \* what the encoder returned, "none" while it runs
    cut,       \* bytes of dst were lost
    due,       \* nodes the decoder expects
    read,      \* those it has decoded
    pos,       \* bytes it has consumed
    outcome    \* how the decoding ended, "none" while it goes on

encoderVars == <<kind, todo, nodes, dst, code>>
decoderVars == <<due, read, pos, outcome>>
vars == <<encoderVars, cut, decoderVars>>

Codes == {"OK", "BUFFER", "PARSE", "INVALID", "NOT_SUPPORTED"}

TypeOK ==
    /\ kind \in {"list", "compact"}
    /\ todo \in Nat
    /\ nodes \in Seq(Nodes)
    /\ dst \in Seq(U8) /\ Len(dst) <= DstSize
    /\ code \in Codes \cup {"none"}
    /\ cut \in BOOLEAN
    /\ due \in Nat
    /\ pos \in 0 .. Len(dst)
    /\ outcome \in Codes \cup {"none"}

\* A list of so many values.
Init ==
    /\ kind = "list" /\ todo \in 1 .. MaxNodes /\ nodes = <<>> /\ dst = <<>> /\ code = "none"
    /\ cut = FALSE
    /\ due = todo /\ read = <<>> /\ pos = 0 /\ outcome = "none"

\* dlms_axdr_encode_value_list, or axdr_encode in the items of an array, at the
\* next node.  The last one ends the call.
EncodeNode ==
    /\ kind = "list" /\ code = "none"
    /\ \E n \in Nodes :
          /\ Len(nodes) + todo + n.count <= MaxNodes
          /\ \/ /\ ~Supported(n.type)
                /\ code' = "NOT_SUPPORTED"
                /\ UNCHANGED <<todo, nodes, dst>>
             \/ /\ Supported(n.type)
                /\ ~Fits(n, DstSize - Len(dst))
                /\ code' = "BUFFER"
                /\ UNCHANGED <<todo, nodes, dst>>
             \/ /\ Supported(n.type)
                /\ Fits(n, DstSize - Len(dst))
                /\ dst' = dst \o NodeBytes(n)
                /\ nodes' = Append(nodes, n)
                /\ todo' = todo - 1 + n.count
                /\ code' = IF todo' = 0 THEN "OK" ELSE "none"
    /\ UNCHANGED <<kind, cut, decoderVars>>

\* dlms_axdr_encode_compact_array; the first n items can be encoded, and the next, if
\* there is one, does not fit or has a type that is not supported.
EncodeCompact ==
    /\ nodes = <<>> /\ code = "none"
    /\ \E a \in CompactArrays : \E n \in 0 .. Len(a.items) :
          /\ \A i \in 1 .. n : Supported(a.items[i].type)
          /\ \/ /\ Len(compact_array_bytes(a, n)) > DstSize
                /\ code' = "BUFFER" /\ UNCHANGED <<nodes, dst>>
             \/ /\ Len(compact_array_bytes(a, n)) <= DstSize
                /\ n < Len(a.items) /\ ~Supported(a.items[n + 1].type)
                /\ code' = "NOT_SUPPORTED" /\ UNCHANGED <<nodes, dst>>
             \/ /\ Len(compact_array_bytes(a, n)) <= DstSize
                /\ n = Len(a.items)
                /\ code' = "OK" /\ nodes' = a.items /\ dst' = compact_array_bytes(a, n)
    /\ kind' = "compact"
    /\ todo' = 0
    /\ UNCHANGED <<cut, decoderVars>>

\* The end of what was encoded does not reach the decoder.
Cut ==
    /\ code = "OK" /\ ~cut /\ pos = 0 /\ outcome = "none"
    /\ \E n \in Cuts : n <= Len(dst) /\ dst' = SubSeq(dst, 1, Len(dst) - n)
    /\ cut' = TRUE
    /\ UNCHANGED <<kind, todo, nodes, code, decoderVars>>

\* dlms_axdr_decode_compact_array up to its items.
DecodeHeader ==
    /\ kind = "compact" /\ code = "OK" /\ pos = 0 /\ outcome = "none"
    /\ LET header == compact_array_header(dst)
       IN  IF header.code # "OK"
           THEN outcome' = header.code /\ UNCHANGED <<due, pos>>
           ELSE /\ due' = header.count
                /\ pos' = header.at
                /\ outcome' = IF header.count = 0 THEN "OK" ELSE "none"
    /\ UNCHANGED <<encoderVars, cut, read>>

\* dlms_axdr_decode, called for the next value; the caller goes into an array,
\* the compact array decoder does not.
DecodeNode ==
    /\ code = "OK" /\ outcome = "none"
    /\ kind = "compact" => pos > 0
    /\ LET got == axdr_decode(Drop(dst, pos))
       IN  IF got.code # "OK"
           THEN outcome' = got.code /\ UNCHANGED <<due, read, pos>>
           ELSE /\ read' = Append(read, got.node)
                /\ pos' = pos + got.consumed
                /\ due' = due - 1 + (IF kind = "list" THEN got.node.count ELSE 0)
                /\ outcome' = IF due' = 0 THEN "OK" ELSE "none"
    /\ UNCHANGED <<encoderVars, cut>>

Next ==
    \/ EncodeNode
    \/ EncodeCompact
    \/ Cut
    \/ DecodeHeader
    \/ DecodeNode

Spec == Init /\ [][Next]_vars

------------------------------------------------------------------------------
(* Properties. *)

\* A compact array value without bytes is written as its tag alone
\* (dlms_axdr.c:308) and cannot be read back.
Expressible ==
    kind = "list" /\ \A i \in DOMAIN nodes : ~(nodes[i].type = COMPACT_ARRAY /\ nodes[i].data = <<>>)

\* dlms_axdr_decode meets the nodes that dlms_axdr_encode_value_list met, in the
\* same order, without an error, and ends at the last byte with the last node:
\* tags, lengths in all three forms and nesting agree, and no value reads a byte
\* of its neighbour.
ReadBack ==
    Expressible =>
        /\ IsPrefix(read, nodes)
        /\ ~cut => outcome \in {"none", "OK"}
        /\ outcome = "OK" => read = nodes /\ pos = Len(dst)

\* dlms_axdr_decode notices that the end of a list is missing, wherever it was
\* cut: between two values, inside an array, or inside a length.
CutNoticed ==
    Expressible /\ cut => outcome # "OK"

\* What dlms_axdr_encode_compact_array writes, dlms_axdr_decode_compact_array
\* reads.
CompactUnderstood ==
    kind = "compact" /\ ~cut /\ outcome # "none" => outcome = "OK" /\ read = nodes

==============================================================================
