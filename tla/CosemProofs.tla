----------------------------- MODULE CosemProofs -----------------------------
(***************************************************************************)
(* Proofs about Cosem, for any objects, names, buffers and contents, any   *)
(* number of entries of the list and any number of changes.                *)
(***************************************************************************)
EXTENDS Cosem, SequenceTheorems, WellFoundedInduction, TLAPS

------------------------------------------------------------------------------
(* Classes. *)

\* What create functions leave in an object.
Plain == {Null, NoItems, Empty} \cup [form : {"number"}, n : Nat]

LEMMA PlainForms ==
    /\ Null \in Plain /\ NoItems \in Plain /\ Empty \in Plain
    /\ \A n \in Nat : Number(n) \in Plain
BY DEF Plain, Number

\* Every class knows attributes from 2 to 9 only, and begins with plain values.
Typed(c) ==
    /\ c.initial \in [DOMAIN c.initial -> Plain]
    /\ DOMAIN c.initial \subseteq AttrIndex
    /\ c.class_id \in Nat

LEMMA ClassTyped ==
    ASSUME NEW id \in Nat, NEW attrs \in SUBSET AttrIndex, NEW nulls, NEW special,
           NEW value \in Plain
    PROVE  Typed(ClassWith(id, attrs, nulls, special, value))
<1>1. Zero \in Plain
    BY PlainForms DEF Zero
<1>2. QED
    BY <1>1, PlainForms DEF ClassWith, Typed

LEMMA ClassesTyped == \A k \in Kinds : Typed(Classes[k])
<1>1. Zero \in Plain /\ Empty \in Plain /\ NoItems \in Plain /\ Number(900) \in Plain
    BY PlainForms DEF Zero
<1>2. /\ {2} \in SUBSET AttrIndex /\ {2, 3} \in SUBSET AttrIndex /\ {2, 3, 4} \in SUBSET AttrIndex
      /\ {2, 3, 4, 7} \in SUBSET AttrIndex /\ 2 .. 4 \in SUBSET AttrIndex
      /\ 2 .. 5 \in SUBSET AttrIndex /\ 2 .. 9 \in SUBSET AttrIndex
    BY DEF AttrIndex
<1>3. Typed(data)
    BY <1>1, <1>2, ClassTyped DEF Class, data
<1>4. Typed(register)
    BY <1>1, <1>2, ClassTyped DEF Class, register
<1>5. Typed(clock)
    BY <1>1, <1>2, ClassTyped DEF Class, clock
<1>6. Typed(association_ln)
    BY <1>1, <1>2, ClassTyped DEF Class, association_ln
<1>7. Typed(register_monitor)
    BY <1>1, <1>2, ClassTyped DEF Class, register_monitor
<1>8. Typed(disconnect_control)
    BY <1>1, <1>2, ClassTyped DEF Class, disconnect_control
<1>9. Typed(limiter)
    BY <1>1, <1>2, ClassTyped DEF Class, limiter
<1>10. Typed(account)
    BY <1>1, <1>2, ClassTyped DEF Class, account
<1>11. Typed(day_profile)
    BY <1>1, <1>2, ClassTyped DEF Class, day_profile
<1>12. Typed(week_profile)
    BY <1>1, <1>2, ClassTyped DEF Class, week_profile
<1>13. Typed(extended_register)
    BY <1>1, <1>2, ClassTyped DEF Class, extended_register
<1>14. Typed(credit)
    BY <1>1, <1>2, ClassTyped DEF Class, credit
<1>15. Typed(security_setup)
    BY <1>1, <1>2, ClassTyped DEF security_setup
<1>16. Typed(profile_generic)
    BY <1>1, <1>2, ClassTyped DEF profile_generic
<1>17. Typed(demand)
    BY <1>1, <1>2, ClassTyped DEF demand
<1>18. Typed(demand_register)
    BY <1>1, <1>2, ClassTyped DEF demand_register
<1>19. QED
    BY <1>3, <1>4, <1>5, <1>6, <1>7, <1>8, <1>9, <1>10, <1>11,
       <1>12, <1>13, <1>14, <1>15, <1>16, <1>17, <1>18
       DEF Kinds, Classes
------------------------------------------------------------------------------
(* Types. *)

LEMMA KindsTyped ==
    ASSUME TypeOK, NEW s \in Slots
    PROVE  kind[s] \in Kinds /\ class_id(s) \in Nat /\ Attrs(kind[s]) \subseteq AttrIndex
           /\ Classes[kind[s]].initial \in [Attrs(kind[s]) -> Plain]
<1>1. kind[s] \in Kinds
    BY CosemAssumption DEF TypeOK
<1>2. Typed(Classes[kind[s]])
    BY <1>1, ClassesTyped
<1>3. QED
    BY <1>1, <1>2 DEF Typed, Attrs, class_id

LEMMA PlainValues == Plain \subseteq Values
BY DEF Plain, Values

\* Only attributes that a class has are set, or are keys.
LEMMA Known ==
    \A k \in Kinds, a \in AttrIndex :
        a \in Settable[k] \/ IsKey(k, a) => a \in Attrs(k)
<1>1. \A k \in Kinds : k \notin {"data", "register", "clock"} => Settable[k] = {}
    BY DEF Settable
<1>2. Settable["data"] = {2} /\ Settable["register"] = {2, 3} /\ Settable["clock"] = {2, 3}
    BY DEF Settable, Kinds, Classes
<1>3. /\ Attrs("data") = {2} /\ Attrs("register") = {2, 3} /\ Attrs("clock") = {2, 3}
      /\ Attrs("security_setup") = {2, 3, 4, 7}
    BY DEF Attrs, Classes, data, register, clock, security_setup, Class, ClassWith
<1>4. QED
    BY <1>1, <1>2, <1>3 DEF IsKey

\* A reference leads to a place.
LEMMA References ==
    ASSUME NEW v \in Values, v.form \in {"octets", "items"}
    PROVE  v.at \in Places
<1>1. Null.form = "null" /\ NoItems.form = "no items" /\ Empty.form = "empty"
    BY DEF Null, NoItems, Empty
<1>2. CASE v \in {Null, NoItems, Empty}
    BY <1>1, <1>2
<1>3. CASE v \in [form : {"number"}, n : Nat]
    BY <1>3
<1>4. CASE \E p \in Places : v = Octets(p)
    BY <1>4 DEF Octets
<1>5. CASE \E b \in Buffers : v = Items(b)
  <2>1. PICK b \in Buffers : v = Items(b)
    BY <1>5
  <2>2. App(b) \in Places
    BY DEF App, Places
  <2>3. QED
    BY <2>1, <2>2 DEF Items
<1>6. QED
    BY <1>2, <1>3, <1>4, <1>5 DEF Values

LEMMA FetchTyped ==
    ASSUME TypeOK, NEW p \in Places
    PROVE  Fetch(p) \subseteq Values
<1>1. \A n \in Nat : Number(n) \in Values
    BY PlainForms, PlainValues
<1>2. CASE p = Dead
    BY <1>1, <1>2, CosemAssumption DEF Fetch
<1>3. CASE p # Dead /\ p \notin Keys
  <2>1. p[2] \in Buffers
    BY <1>3 DEF Places
  <2>2. mem[p[2]] \in Nat
    BY <2>1, CosemAssumption DEF TypeOK
  <2>3. QED
    BY <1>1, <1>3, <2>2 DEF Fetch
<1>4. CASE p # Dead /\ p \in Keys
  <2>1. p[2] \in Slots /\ p[3] \in AttrIndex /\ IsKey(kind[p[2]], p[3])
    BY <1>4 DEF Keys
  <2>2. p[3] \in Attrs(kind[p[2]])
    BY <2>1, KindsTyped, Known
  <2>3. attr[p[2]][p[3]] \in Values
    BY <2>1, <2>2 DEF TypeOK
  <2>4. Key(p[2], p[3]) \in Values
    BY <1>1, <2>3 DEF Key, Zero
  <2>5. QED
    BY <1>4, <2>4 DEF Fetch
<1>5. QED
    BY <1>2, <1>3, <1>4

\* A look-up finds an object, or nothing.
LEMMA FirstOfTyped ==
    ASSUME TypeOK, NEW S
    PROVE  FirstOf(objects, S) \in Live \cup {None}
<1>1. \A i \in DOMAIN objects : objects[i] \in Live
    BY DEF TypeOK
<1>2. QED
    BY <1>1 DEF FirstOf

\* An attribute that the class has takes a value.
LEMMA AttrTyped ==
    ASSUME TypeOK, NEW s \in Slots, NEW a \in Attrs(kind[s]), NEW w \in Values,
           attr' = [attr EXCEPT ![s][a] = w], kind' = kind
    PROVE  /\ attr' = [t \in Slots |-> attr'[t]]
           /\ \A t \in Slots : attr'[t] \in [Attrs(kind'[t]) -> Values']
<1>1. attr = [t \in Slots |-> attr[t]] /\ \A t \in Slots : attr[t] \in [Attrs(kind[t]) -> Values]
    BY DEF TypeOK
<1>2. attr' = [t \in Slots |-> IF t = s THEN [attr[s] EXCEPT ![a] = w] ELSE attr[t]]
    BY <1>1
<1>3. Values' = Values
    BY DEF Values, Places, Keys
<1>4. \A t \in Slots : attr'[t] \in [Attrs(kind[t]) -> Values]
  <2>1. [attr[s] EXCEPT ![a] = w] \in [Attrs(kind[s]) -> Values]
    BY <1>1
  <2>2. QED
    BY <1>1, <1>2, <2>1
<1>5. attr' = [t \in Slots |-> attr'[t]]
    BY <1>2
<1>6. QED
    BY <1>3, <1>4, <1>5

LEMMA CosemInitTyped == Init => TypeOK
<1> SUFFICES ASSUME Init PROVE TypeOK
    OBVIOUS
<1>1. \A s \in Slots : Classes[kind[s]].initial \in [Attrs(kind[s]) -> Values]
  <2>1. \A s \in Slots : kind[s] \in Kinds
    BY CosemAssumption DEF Init
  <2>2. QED
    BY <2>1, ClassesTyped, PlainValues DEF Typed, Attrs
<1>2. held \in Values
    BY DEF Init, Values
<1>3. objects \in Seq(Live) /\ Len(objects) <= MaxObjects
    BY CosemAssumption, EmptySeq DEF Init
<1>4. result.call = "code"
    BY DEF Init, Code
<1>5. writes \in 0 .. MaxWrites[kind]
    BY CosemAssumption DEF Init
<1>6. QED
    BY <1>1, <1>2, <1>3, <1>4, <1>5 DEF Init, TypeOK

\* A value that get_attr or set_attr hands on is one.
LEMMA GotTyped ==
    ASSUME TypeOK, NEW s \in Slots, NEW a \in {1} \cup Attrs(kind[s])
    PROVE  Got(s, a) \in Values
<1>1. Octets(Dead) \in Values
    BY DEF Values, Places
<1>2. a # 1 => attr[s][a] \in Values
    BY DEF TypeOK
<1>3. ASSUME IsKey(kind[s], a) PROVE Octets(Own(s, a)) \in Values
  <2>1. Own(s, a) \in Keys
    BY <1>3 DEF Keys, Own, IsKey, AttrIndex
  <2>2. QED
    BY <2>1 DEF Values, Places
<1>4. Empty \in Values /\ held \in Values
    BY DEF Values, TypeOK
<1>5. a = 1 => Localised(kind[s], a)
    BY DEF Localised
<1>6. QED
    BY <1>1, <1>2, <1>3, <1>4, <1>5 DEF Got

LEMMA StoredTyped ==
    ASSUME TypeOK, NEW s \in Slots, NEW a, NEW v \in Values, Accepts(s, a, v)
    PROVE  /\ a \in Attrs(kind[s])
           /\ Stored(s, a, v) \subseteq Values
<1>1. a \in Attrs(kind[s])
  <2>1. a \in AttrIndex
    BY KindsTyped DEF Accepts, Settable, AttrIndex
  <2>2. QED
    BY <2>1, KindsTyped, Known DEF Accepts
<1>2. CASE kind[s] = "clock" /\ a = 3
  <2>1. v.at \in Places
    BY <1>2, References DEF Accepts
  <2>2. QED
    BY <1>1, <1>2, <2>1, FetchTyped DEF Stored
<1>3. CASE ~(kind[s] = "clock" /\ a = 3)
    BY <1>1, <1>3 DEF Stored
<1>4. QED
    BY <1>2, <1>3

LEMMA InputsTyped == Inputs \subseteq Values
<1>1. \A c \in Contents : Number(c) \in Values
    BY CosemAssumption, PlainForms, PlainValues
<1>2. \A b \in Buffers : App(b) \in Places
    BY DEF App, Places
<1>3. QED
    BY <1>1, <1>2 DEF Inputs, Values

LEMMA WritableTyped == ASSUME NEW s, NEW a PROVE Writable(s, a) \subseteq Values
<1>1. \A c \in Contents : Number(c) \in Values
    BY CosemAssumption, PlainForms, PlainValues
<1>2. {NoItems} \cup {Items(b) : b \in Buffers} \subseteq Values
    BY DEF Values
<1>3. QED
    BY <1>1, <1>2, InputsTyped DEF Writable

\* What calls return.
LEMMA Results ==
    /\ \A c : Code(c).call = "code"
    /\ \A c, n, s : Found(c, n, s).call = "find" /\ Found(c, n, s).object = s
BY DEF Code, Found

LEMMA CosemTypeStep == TypeOK /\ [Next]_vars => TypeOK'
<1> SUFFICES ASSUME TypeOK, [Next]_vars PROVE TypeOK'
    OBVIOUS
<1> USE Results
<1>1. kind' = kind => Values' = Values
    BY DEF Values, Places, Keys
<1>2. CASE dlms_cosem_list_init
  <2>1. objects' \in Seq(Live') /\ Len(objects') <= MaxObjects
    BY <1>2, CosemAssumption, EmptySeq DEF dlms_cosem_list_init
  <2>2. QED
    BY <1>1, <1>2, <2>1 DEF dlms_cosem_list_init, TypeOK, storeVars, Live
<1>3. ASSUME NEW s \in Live, dlms_cosem_list_add(s) PROVE TypeOK'
  <2>1. objects' \in Seq(Live) /\ Len(objects') <= MaxObjects
    <3>1. /\ objects \in Seq(Live) /\ Len(objects) \in Nat /\ Len(objects) <= MaxObjects
          /\ MaxObjects \in Nat
      BY CosemAssumption, LenProperties DEF TypeOK
    <3>2. /\ Append(objects, s) \in Seq(Live)
          /\ Len(Append(objects, s)) = Len(objects) + 1
      BY <3>1, AppendProperties
    <3>3. \/ objects' = objects
          \/ Len(objects) < MaxObjects /\ objects' = Append(objects, s)
      BY <1>3 DEF dlms_cosem_list_add, Room, Appended
    <3>4. QED
      BY <3>1, <3>2, <3>3
  <2>2. Live' = Live /\ result'.call = "code"
    BY <1>3 DEF dlms_cosem_list_add, Live, storeVars
  <2>3. QED
    BY <1>1, <1>3, <2>1, <2>2 DEF dlms_cosem_list_add, TypeOK, storeVars, historyVars
<1>4. ASSUME NEW c, NEW n, NEW S, LookUp(c, n, FirstOf(objects, S)) PROVE TypeOK'
  <2>1. Live' = Live /\ result'.call = "find" /\ result'.object \in Live \cup {None}
    BY <1>4, FirstOfTyped DEF LookUp, Live, storeVars
  <2>2. QED
    BY <1>1, <1>4, <2>1 DEF LookUp, TypeOK, storeVars, historyVars
<1>5. ASSUME NEW s \in Slots, NEW n \in Names, create(s, n) PROVE TypeOK'
  <2>1. name' \in [Slots -> Names \cup {None}] /\ Live \subseteq Live' /\ result'.call = "code"
    BY <1>5, CosemAssumption DEF create, TypeOK, Live
  <2>2. attr' = [t \in Slots |-> IF t = s THEN Classes[kind[s]].initial ELSE attr[t]]
    BY <1>5 DEF create, TypeOK
  <2>3. attr' = [t \in Slots |-> attr'[t]]
        /\ \A t \in Slots : attr'[t] \in [Attrs(kind[t]) -> Values]
    BY <2>2, KindsTyped, PlainValues DEF TypeOK
  <2>4. objects' \in Seq(Live')
    BY <1>5, <2>1 DEF create, TypeOK
  <2>5. QED
    BY <1>1, <1>5, <2>1, <2>3, <2>4 DEF create, TypeOK
<1>6. ASSUME NEW s \in Live, NEW a, get_attr(s, a) PROVE TypeOK'
  <2>1. held' \in Values
    BY <1>6, GotTyped DEF get_attr, Live, TypeOK
  <2>2. Live' = Live /\ result'.call = "code"
    BY <1>6 DEF get_attr, Live, storeVars
  <2>3. QED
    BY <1>1, <1>6, <2>1, <2>2 DEF get_attr, TypeOK, storeVars
<1>7. ASSUME NEW s \in Live, NEW a, NEW v \in Values, set_attr(s, a, v) PROVE TypeOK'
  <2>1. s \in Slots
    BY DEF Live
  <2>2. /\ attr' = [t \in Slots |-> attr'[t]]
        /\ \A t \in Slots : attr'[t] \in [Attrs(kind'[t]) -> Values']
    <3>1. CASE attr' = attr
      BY <1>1, <1>7, <3>1 DEF set_attr, TypeOK
    <3>2. CASE Accepts(s, a, v)
      BY <1>7, <2>1, <3>2, StoredTyped, AttrTyped DEF set_attr
    <3>3. QED
      BY <1>7, <3>1, <3>2 DEF set_attr
  <2>3. Live' = Live /\ result'.call = "code"
    BY <1>7 DEF set_attr, Live
  <2>4. writes' \in 0 .. MaxWrites[kind]
    BY <1>7, CosemAssumption DEF set_attr, Change, TypeOK, historyVars
  <2>5. QED
    BY <1>1, <1>7, <2>2, <2>3, <2>4 DEF set_attr, TypeOK
<1>8. ASSUME NEW s \in Live, NEW a \in Attrs(kind[s]), write_field(s, a) PROVE TypeOK'
  <2>1. s \in Slots
    BY DEF Live
  <2>2. /\ attr' = [t \in Slots |-> attr'[t]]
        /\ \A t \in Slots : attr'[t] \in [Attrs(kind'[t]) -> Values']
    BY <1>8, <2>1, WritableTyped, AttrTyped, ZenonT(40) DEF write_field
  <2>3. Live' = Live /\ result'.call = "code"
    BY <1>8 DEF write_field, Live
  <2>4. writes' \in 0 .. MaxWrites[kind]
    BY <1>8, CosemAssumption DEF write_field, Change, TypeOK
  <2>5. QED
    BY <1>1, <1>8, <2>2, <2>3, <2>4 DEF write_field, TypeOK
<1>9. ASSUME NEW b \in Buffers, reuse_buffer(b) PROVE TypeOK'
  <2>1. mem' \in [Buffers -> Contents]
    BY <1>9 DEF reuse_buffer, TypeOK
  <2>2. Live' = Live /\ result'.call = "code"
    BY <1>9 DEF reuse_buffer, Live, storeVars
  <2>3. writes' \in 0 .. MaxWrites[kind]
    BY <1>9, CosemAssumption DEF reuse_buffer, Change, TypeOK
  <2>4. QED
    BY <1>1, <1>9, <2>1, <2>2, <2>3 DEF reuse_buffer, TypeOK, storeVars
<1>10. CASE action
  <2>1. Live' = Live /\ result'.call = "code"
    BY <1>10 DEF action, Live, storeVars
  <2>2. QED
    BY <1>1, <1>10, <2>1 DEF action, TypeOK, storeVars, historyVars
<1>11. CASE UNCHANGED vars
  <2>1. Live' = Live
    BY <1>11 DEF vars, storeVars, Live
  <2>2. QED
    BY <1>1, <1>11, <2>1 DEF vars, storeVars, historyVars, TypeOK
<1>12. \A n : LookUp(None, n, dlms_cosem_list_find_by_ln(n)) => TypeOK'
    BY <1>4 DEF dlms_cosem_list_find_by_ln
<1>13. \A c, n : LookUp(c, n, dlms_cosem_list_find(c, n)) => TypeOK'
    BY <1>4 DEF dlms_cosem_list_find
<1>14. \A v \in Inputs \cup {held} : v \in Values
    BY InputsTyped DEF TypeOK
<1>15. QED
    BY <1>2, <1>3, <1>5, <1>6, <1>7, <1>8, <1>9, <1>10, <1>11, <1>12, <1>13, <1>14 DEF Next

\* The struct of an object keeps its class, an entry of the list is an object
\* that was created, and the list keeps to its limit.
THEOREM CosemTypeCorrect == Spec => []TypeOK
BY CosemInitTyped, CosemTypeStep, PTL DEF Spec

------------------------------------------------------------------------------
(* Look-ups. *)

\* A set of numbers has a least one.
LEMMA Least ==
    ASSUME NEW T, T \subseteq Nat, T # {}
    PROVE  \E x \in T : \A y \in T : x <= y
<1> DEFINE R == {p \in Nat \X Nat : p[1] < p[2]}
<1>1. IsWellFoundedOn(R, Nat)
    BY NatLessThanWellFounded DEF OpToRel
<1>2. \A x, y \in Nat : y < x => <<y, x>> \in R
    OBVIOUS
<1> HIDE DEF R
<1>3. PICK x \in T : \A y \in T : ~(<<y, x>> \in R)
    BY <1>1, WFMin
<1>4. \A y \in T : ~(y < x)
    BY <1>2, <1>3
<1>5. \A y \in T : x <= y
    BY <1>4
<1>6. QED
    BY <1>5

\* A look-up finds the entry that no earlier one precedes.
LEMMA FirstOfHit ==
    ASSUME NEW list, NEW n \in Nat, DOMAIN list = 1 .. n, NEW S,
           NEW i \in 1 .. n, list[i] \in S, \A j \in 1 .. i - 1 : list[j] \notin S
    PROVE  FirstOf(list, S) = list[i]
<1> DEFINE hit(k) == list[k] \in S /\ \A j \in 1 .. k - 1 : list[j] \notin S
<1>1. hit(i) /\ \A k \in DOMAIN list : hit(k) => k = i
    OBVIOUS
<1>2. FirstOf(list, S) = list[CHOOSE k \in DOMAIN list : hit(k)]
    BY <1>1 DEF FirstOf
<1> HIDE DEF hit
<1>3. (CHOOSE k \in DOMAIN list : hit(k)) = i
    BY <1>1
<1>4. QED
    BY <1>2, <1>3

\* If an entry qualifies, a first one does.
LEMMA FirstExists ==
    ASSUME NEW list, NEW n \in Nat, DOMAIN list = 1 .. n, NEW S,
           \E i \in 1 .. n : list[i] \in S
    PROVE  \E i \in 1 .. n : list[i] \in S /\ \A j \in 1 .. i - 1 : list[j] \notin S
<1> DEFINE T == {i \in 1 .. n : list[i] \in S}
<1>1. T \subseteq Nat /\ T # {}
    OBVIOUS
<1>2. PICK i \in T : \A j \in T : i <= j
    BY <1>1, Least
<1>3. ASSUME NEW j \in 1 .. i - 1 PROVE list[j] \notin S
    BY <1>2
<1>4. QED
    BY <1>3

\* A look-up finds an entry that qualifies, or nothing where none does.
LEMMA FirstOfCorrect ==
    ASSUME NEW list, NEW n \in Nat, DOMAIN list = 1 .. n, NEW S
    PROVE  \/ FirstOf(list, S) \in S /\ \E i \in 1 .. n : list[i] = FirstOf(list, S)
           \/ FirstOf(list, S) = None /\ \A i \in 1 .. n : list[i] \notin S
<1>1. CASE \E i \in 1 .. n : list[i] \in S
  <2>1. PICK i \in 1 .. n : list[i] \in S /\ \A j \in 1 .. i - 1 : list[j] \notin S
    BY <1>1, FirstExists
  <2>2. FirstOf(list, S) = list[i]
    BY <2>1, FirstOfHit
  <2>3. QED
    BY <2>1, <2>2
<1>2. CASE \A i \in 1 .. n : list[i] \notin S
    BY <1>2 DEF FirstOf
<1>3. QED
    BY <1>1, <1>2

\* An entry that is appended changes no look-up that found something.
LEMMA AppendKeeps ==
    ASSUME NEW E, NEW list \in Seq(E), NEW e \in E, NEW S, FirstOf(list, S) # None
    PROVE  FirstOf(Append(list, e), S) = FirstOf(list, S)
<1> DEFINE more == Append(list, e)
<1>1. /\ DOMAIN list = 1 .. Len(list) /\ Len(list) \in Nat
      /\ DOMAIN more = 1 .. Len(list) + 1
      /\ \A j \in 1 .. Len(list) : more[j] = list[j]
    BY LenProperties, AppendProperties
<1>2. PICK i \in 1 .. Len(list) : list[i] \in S /\ \A j \in 1 .. i - 1 : list[j] \notin S
    BY <1>1, FirstOfCorrect, FirstExists
<1>3. FirstOf(list, S) = list[i]
    BY <1>1, <1>2, FirstOfHit
<1>4. i \in 1 .. Len(list) + 1 /\ more[i] = list[i]
      /\ more[i] \in S /\ \A j \in 1 .. i - 1 : more[j] \notin S
    BY <1>1, <1>2
<1> HIDE DEF more
<1>5. FirstOf(more, S) = more[i]
    BY <1>1, <1>4, FirstOfHit
<1>6. QED
    BY <1>3, <1>4, <1>5 DEF more

\* Only dlms_cosem_list_init and dlms_cosem_list_add change the list.
LEMMA ListSteps ==
    ASSUME TypeOK, [Next]_vars, objects' \notin {objects, <<>>}
    PROVE  /\ \E s \in Live : objects' = Append(objects, s)
           /\ UNCHANGED <<kind, name>>
<1>1. \A s : dlms_cosem_list_add(s) =>
          /\ objects' \in {objects, Append(objects, s)}
          /\ UNCHANGED <<kind, name>>
    BY DEF dlms_cosem_list_add, Appended, storeVars
<1>2. \A c, n, s : LookUp(c, n, s) => objects' = objects
    BY DEF LookUp
<1>3. \A s, n : create(s, n) => objects' = objects
    BY DEF create
<1>4. \A s, a : get_attr(s, a) => objects' = objects
    BY DEF get_attr
<1>5. \A s, a, v : set_attr(s, a, v) => objects' = objects
    BY DEF set_attr
<1>6. \A s, a : write_field(s, a) => objects' = objects
    BY DEF write_field
<1>7. \A b : reuse_buffer(b) => objects' = objects
    BY DEF reuse_buffer
<1>8. /\ action => objects' = objects
      /\ dlms_cosem_list_init => objects' = <<>>
      /\ UNCHANGED vars => objects' = objects
    BY DEF action, dlms_cosem_list_init, vars
<1>9. PICK s \in Live : dlms_cosem_list_add(s)
    BY <1>2, <1>3, <1>4, <1>5, <1>6, <1>7, <1>8 DEF Next
<1>10. QED
    BY <1>1, <1>9

Stable ==
    objects' \notin {objects, <<>>} =>
        \A n \in Names :
           /\ dlms_cosem_list_find_by_ln(n) \in {None, dlms_cosem_list_find_by_ln(n)'}
           /\ \A c \in {class_id(s) : s \in Slots} :
                 dlms_cosem_list_find(c, n) \in {None, dlms_cosem_list_find(c, n)'}

LEMMA StableStep == TypeOK /\ [Next]_vars => Stable
<1> SUFFICES ASSUME TypeOK, [Next]_vars, objects' \notin {objects, <<>>} PROVE Stable
    BY DEF Stable
<1>1. PICK s \in Live : objects' = Append(objects, s)
    BY ListSteps
<1>2. UNCHANGED <<kind, name>> /\ objects \in Seq(Live)
    BY ListSteps DEF TypeOK
<1>3. \A S : FirstOf(objects, S) \in {None, FirstOf(objects', S)}
    BY <1>1, <1>2, AppendKeeps
<1>4. \A n : Named(n)' = Named(n) /\ \A c : Matching(c, n)' = Matching(c, n)
    BY <1>2 DEF Named, Matching, class_id
<1>5. \A n : dlms_cosem_list_find_by_ln(n) \in {None, dlms_cosem_list_find_by_ln(n)'}
    BY <1>3, <1>4 DEF dlms_cosem_list_find_by_ln
<1>6. \A c, n : dlms_cosem_list_find(c, n) \in {None, dlms_cosem_list_find(c, n)'}
    BY <1>3, <1>4 DEF dlms_cosem_list_find
<1>7. QED
    BY <1>5, <1>6 DEF Stable

\* Registering another object, of the same class and name or not, never changes
\* which object a look-up finds.
THEOREM CosemLookupStable == Spec => LookupStable
<1>1. TypeOK /\ [Next]_vars => [Stable]_vars
    BY StableStep
<1>2. QED
    BY <1>1, CosemTypeCorrect, PTL DEF Spec, LookupStable, Stable

------------------------------------------------------------------------------
(* The list implements the directory. *)

DirectoryVars ==
    <<[s \in Slots |-> class_id(s)], name, {objects[i] : i \in DOMAIN objects}, Len(objects),
      IF result.call = "find" THEN result
      ELSE IF result = Code("BUFFER") THEN [call |-> "refused"]
      ELSE [call |-> "done"]>>

LEMMA DirectoryInit == Init => Directory!Init
<1> SUFFICES ASSUME Init PROVE Directory!Init
    OBVIOUS
<1>1. [s \in Slots |-> class_id(s)] \in [Slots -> ClassIds]
    BY CosemAssumption DEF Init, class_id, ClassIds
<1>2. {objects[i] : i \in DOMAIN objects} = {} /\ Len(objects) = 0
    BY EmptySeq DEF Init
<1>3. result.call = "code" /\ result # Code("BUFFER")
    BY DEF Init, Code
<1>4. QED
    BY <1>1, <1>2, <1>3 DEF Init, Directory!Init, Directory!Done

\* A call that leaves the list and the names as they are.
LEMMA OtherStep ==
    ASSUME UNCHANGED <<kind, name, objects>>,
           result'.call = "code", result' # Code("BUFFER")
    PROVE  Directory!Other
BY DEF Directory!Other, Directory!Done, class_id, Code

LEMMA LookUpStep ==
    ASSUME TypeOK, NEW c, NEW n \in Names, NEW S \in SUBSET Slots,
           LookUp(c, n, FirstOf(objects, S)),
           \/ c = None /\ S = Named(n)
           \/ c \in {class_id(s) : s \in Slots} /\ S = Matching(c, n)
    PROVE  Directory!Next
<1> DEFINE o == FirstOf(objects, S)
           registered == {objects[i] : i \in DOMAIN objects}
<1>1. /\ DOMAIN objects = 1 .. Len(objects) /\ Len(objects) \in Nat
      /\ \A i \in DOMAIN objects : objects[i] \in Slots
    BY LenProperties DEF TypeOK, Live
<1>2. o \in Directory!OneOf({e \in registered : e \in S})
  <2>1. \/ o \in S /\ \E i \in DOMAIN objects : objects[i] = o
        \/ o = None /\ \A i \in DOMAIN objects : objects[i] \notin S
    BY <1>1, FirstOfCorrect
  <2> HIDE DEF o
  <2>2. CASE o \in S /\ \E i \in DOMAIN objects : objects[i] = o
    BY <2>2 DEF Directory!OneOf
  <2>3. CASE o = None /\ \A i \in DOMAIN objects : objects[i] \notin S
    BY <2>3 DEF Directory!OneOf
  <2>4. QED
    BY <2>1, <2>2, <2>3
<1>3. /\ result' = Found(c, n, o) /\ UNCHANGED <<kind, name, objects>>
      /\ result'.call = "find"
    BY Results DEF LookUp, storeVars
<1>4. UNCHANGED <<[s \in Slots |-> class_id(s)], name, registered, Len(objects)>>
    BY <1>3 DEF class_id
<1> HIDE DEF o
<1>5. Found(c, n, o) = Directory!Found(c, n, o)
    BY DEF Found, Directory!Found
<1>6. CASE c = None /\ S = Named(n)
  <2>1. {e \in registered : e \in S} = Directory!Named(n)
    BY <1>1, <1>6 DEF Named, Directory!Named
  <2>2. Directory!FindByName(n)
    BY <1>2, <1>3, <1>4, <1>5, <1>6, <2>1 DEF Directory!FindByName
  <2>3. QED
    BY <2>2 DEF Directory!Next
<1>7. CASE c \in {class_id(s) : s \in Slots} /\ S = Matching(c, n)
  <2>1. {e \in registered : e \in S} = Directory!Matching(c, n)
    BY <1>1, <1>7 DEF Matching, Directory!Matching
  <2>2. c \in ClassIds
    BY <1>7, CosemAssumption DEF TypeOK, class_id, ClassIds
  <2>3. Directory!Find(c, n)
    BY <1>2, <1>3, <1>4, <1>5, <2>1 DEF Directory!Find
  <2>4. QED
    BY <2>2, <2>3 DEF Directory!Next
<1>8. QED
    BY <1>6, <1>7

LEMMA AddStep ==
    ASSUME TypeOK, NEW s \in Live, dlms_cosem_list_add(s)
    PROVE  Directory!Next
<1> DEFINE registered == {objects[i] : i \in DOMAIN objects}
<1>1. /\ objects \in Seq(Live) /\ Len(objects) \in Nat
      /\ Len(objects) <= MaxObjects /\ MaxObjects \in Nat
    BY CosemAssumption, LenProperties DEF TypeOK
<1>2. UNCHANGED <<[t \in Slots |-> class_id(t)], name>>
    BY DEF dlms_cosem_list_add, storeVars, class_id
<1>3. CASE ~Room /\ result' = Code("BUFFER") /\ UNCHANGED objects
  <2>1. Len(objects) = MaxObjects /\ result'.call = "code"
    BY <1>1, <1>3, Results DEF Room
  <2>2. Directory!Refuse
    BY <1>2, <1>3, <2>1 DEF Directory!Refuse, Directory!Refused
  <2>3. QED
    BY <2>2 DEF Directory!Next
<1>4. CASE Room /\ result' = Code("OK") /\ objects' = Append(objects, s)
  <2>1. /\ Len(objects') = Len(objects) + 1
        /\ DOMAIN objects' = 1 .. Len(objects) + 1 /\ DOMAIN objects = 1 .. Len(objects)
        /\ \A i \in 1 .. Len(objects) : objects'[i] = objects[i]
        /\ objects'[Len(objects) + 1] = s
    BY <1>1, <1>4, LenProperties, AppendProperties
  <2>2. registered' = registered \cup {s}
    <3>1. registered' \subseteq registered \cup {s}
      BY <2>1
    <3>2. registered \subseteq registered'
      BY <1>1, <2>1
    <3>3. s \in registered'
      BY <1>1, <2>1
    <3>4. QED
      BY <3>1, <3>2, <3>3
  <2>3. result'.call = "code" /\ result' # Code("BUFFER")
    BY <1>4 DEF Code
  <2>4. Directory!Register(s)
    BY <1>2, <1>4, <2>1, <2>2, <2>3 DEF Directory!Register, Directory!Done, Room
  <2>5. QED
    BY <2>4 DEF Directory!Next, Live
<1>5. QED
    BY <1>3, <1>4 DEF dlms_cosem_list_add, Appended

LEMMA DirectoryStep == TypeOK /\ [Next]_vars => [Directory!Next]_DirectoryVars
<1> SUFFICES ASSUME TypeOK, [Next]_vars PROVE Directory!Next \/ UNCHANGED DirectoryVars
    BY DEF DirectoryVars
<1>1. CASE dlms_cosem_list_init
  <2>1. {objects'[i] : i \in DOMAIN objects'} = {} /\ Len(objects') = 0
    BY <1>1, EmptySeq DEF dlms_cosem_list_init
  <2>2. result'.call = "code" /\ result' # Code("BUFFER")
    BY <1>1 DEF dlms_cosem_list_init, Code
  <2>3. Directory!Clear
    BY <1>1, <2>1, <2>2 DEF dlms_cosem_list_init, storeVars, class_id,
                            Directory!Clear, Directory!Done
  <2>4. QED
    BY <2>3 DEF Directory!Next
<1>2. ASSUME NEW s \in Slots, NEW n \in Names, create(s, n) PROVE Directory!Next
  <2>1. result'.call = "code" /\ result' # Code("BUFFER")
    BY <1>2 DEF create, Code
  <2>2. Directory!Create(s, n)
    BY <1>2, <2>1 DEF create, class_id, Directory!Create, Directory!Done
  <2>3. QED
    BY <2>2 DEF Directory!Next
<1>3. ASSUME NEW s \in Slots, NEW a, get_attr(s, a) PROVE Directory!Next
  <2>1. /\ result'.call = "code" /\ result' # Code("BUFFER")
        /\ UNCHANGED <<kind, name, objects>>
    BY <1>3 DEF get_attr, storeVars, Code
  <2>2. QED
    BY <2>1, OtherStep DEF Directory!Next
<1>4. ASSUME NEW s \in Slots, NEW a, NEW v, set_attr(s, a, v) PROVE Directory!Next
  <2>1. /\ result'.call = "code" /\ result' # Code("BUFFER")
        /\ UNCHANGED <<kind, name, objects>>
    BY <1>4 DEF set_attr, Code
  <2>2. QED
    BY <2>1, OtherStep DEF Directory!Next
<1>5. ASSUME NEW s \in Slots, NEW a, write_field(s, a) PROVE Directory!Next
  <2>1. /\ result'.call = "code" /\ result' # Code("BUFFER")
        /\ UNCHANGED <<kind, name, objects>>
    BY <1>5 DEF write_field, Code
  <2>2. QED
    BY <2>1, OtherStep DEF Directory!Next
<1>6. ASSUME NEW b, reuse_buffer(b) PROVE Directory!Next
  <2>1. /\ result'.call = "code" /\ result' # Code("BUFFER")
        /\ UNCHANGED <<kind, name, objects>>
    BY <1>6 DEF reuse_buffer, storeVars, Code
  <2>2. QED
    BY <2>1, OtherStep DEF Directory!Next
<1>7. CASE action
  <2>1. /\ result'.call = "code" /\ result' # Code("BUFFER")
        /\ UNCHANGED <<kind, name, objects>>
    BY <1>7 DEF action, storeVars, Code
  <2>2. QED
    BY <2>1, OtherStep DEF Directory!Next
<1>8. ASSUME NEW n \in Names, LookUp(None, n, dlms_cosem_list_find_by_ln(n))
      PROVE  Directory!Next
    BY <1>8, LookUpStep DEF dlms_cosem_list_find_by_ln, Named
<1>9. ASSUME NEW n \in Names, NEW c \in {class_id(s) : s \in Slots},
             LookUp(c, n, dlms_cosem_list_find(c, n))
      PROVE  Directory!Next
    BY <1>9, LookUpStep DEF dlms_cosem_list_find, Matching
<1>10. CASE UNCHANGED vars
    BY <1>10 DEF vars, storeVars, DirectoryVars, class_id
<1>11. QED
    BY <1>1, <1>2, <1>3, <1>4, <1>5, <1>6, <1>7, <1>8, <1>9, <1>10, AddStep DEF Next, Live

\* The list of dlms_cosem.c keeps the directory's promise: a look-up finds a
\* registered object of the class and name whenever there is one, and an object is
\* refused only by a full list.
THEOREM CosemImplementsDirectory == Spec => ImplementsDirectory
<1>1. Init => Directory!Init
    BY DirectoryInit
<1>2. TypeOK /\ [Next]_vars => [Directory!Next]_DirectoryVars
    BY DirectoryStep
<1>3. QED
    BY <1>1, <1>2, CosemTypeCorrect, PTL
       DEF Spec, ImplementsDirectory, Directory!Spec, DirectoryVars

------------------------------------------------------------------------------
(* Reading what was written. *)

\* The forms of a value that leads elsewhere.
Referring == {"octets", "items"}

\* A key is its octets, not a reference to any.
KeysPlain == \A s \in Slots, a \in AttrIndex : IsKey(kind[s], a) => attr[s][a] \in Plain

\* The write that is watched is still in the object that requests for it reach, and
\* refers to no other memory than the history says.
Watching ==
    watched # None =>
        LET s == dlms_cosem_list_find(watched.class, watched.name)
        IN  /\ s # None
            /\ watched.attr \in Settable[kind[s]]
            /\ Denotes(attr[s][watched.attr]) = watched.meaning
            /\ attr[s][watched.attr].form \in Referring =>
                   attr[s][watched.attr].at = watched.at /\ watched.at # Dead

LEMMA PlainForm == \A v \in Plain : v.form \notin Referring
<1>1. Null.form = "null" /\ NoItems.form = "no items" /\ Empty.form = "empty"
    BY DEF Null, NoItems, Empty
<1>2. \A v \in [form : {"number"}, n : Nat] : v.form = "number"
    OBVIOUS
<1>3. QED
    BY <1>1, <1>2 DEF Plain, Referring

LEMMA PlaceForms ==
    /\ \A p \in Keys : p[2] \in Slots /\ p[3] \in AttrIndex /\ IsKey(kind[p[2]], p[3])
                       /\ p = Own(p[2], p[3])
    /\ \A p \in Places : p \in Keys \/ p = Dead \/ (p[2] \in Buffers /\ p = App(p[2]))
    /\ \A s, a, b : Own(s, a) # Dead /\ App(b) # Dead /\ App(b) \notin Keys /\ Own(s, a) # App(b)
<1>1. \A p \in Keys : p[2] \in Slots /\ p[3] \in AttrIndex /\ IsKey(kind[p[2]], p[3])
                      /\ p = Own(p[2], p[3])
    BY DEF Keys, Own
<1>2. \A p \in Places : p \in Keys \/ p = Dead \/ (p[2] \in Buffers /\ p = App(p[2]))
    BY DEF Places, App
<1>3. \A s, a, b : Own(s, a) # Dead /\ App(b) # Dead /\ Own(s, a) # App(b)
    BY DEF Own, App, Dead
<1>4. \A b : App(b) \notin Keys
    BY <1>1, <1>3
<1>5. QED
    BY <1>1, <1>2, <1>3, <1>4

LEMMA KeysPlainStep == TypeOK /\ KeysPlain /\ [Next]_vars => KeysPlain'
<1> SUFFICES ASSUME TypeOK, KeysPlain, [Next]_vars PROVE KeysPlain'
    OBVIOUS
<1>1. ASSUME UNCHANGED <<kind, attr>> PROVE KeysPlain'
    BY <1>1 DEF KeysPlain
<1>2. ASSUME NEW s \in Slots, NEW n, create(s, n) PROVE KeysPlain'
  <2>1. kind' = kind /\ attr' = [attr EXCEPT ![s] = Classes[kind[s]].initial]
    BY <1>2 DEF create
  <2>2. \A a \in AttrIndex : IsKey(kind[s], a) => Classes[kind[s]].initial[a] \in Plain
    BY KindsTyped, Known
  <2>3. \A t \in Slots, a \in AttrIndex : IsKey(kind[t], a) => attr'[t][a] \in Plain
    BY <2>1, <2>2 DEF KeysPlain, TypeOK
  <2>4. QED
    BY <2>1, <2>3 DEF KeysPlain
<1>3. ASSUME NEW s \in Slots, NEW a \in Attrs(kind[s]), NEW w, kind' = kind,
             attr' = [attr EXCEPT ![s][a] = w], IsKey(kind[s], a) => w \in Plain
      PROVE  KeysPlain'
  <2>1. \A t \in Slots, b \in AttrIndex :
            IsKey(kind[t], b) => b \in Attrs(kind[t]) /\ attr[t] \in [Attrs(kind[t]) -> Values]
    BY KindsTyped, Known DEF TypeOK
  <2>2. \A t \in Slots : attr'[t] = IF t = s THEN [attr[s] EXCEPT ![a] = w] ELSE attr[t]
    BY <1>3 DEF TypeOK
  <2>3. ASSUME NEW t \in Slots, NEW b \in AttrIndex, IsKey(kind[t], b)
        PROVE  attr'[t][b] \in Plain
    <3>1. attr[t][b] \in Plain
      BY <2>3 DEF KeysPlain
    <3>2. CASE t = s /\ b = a
      BY <1>3, <2>1, <2>2, <2>3, <3>2
    <3>3. CASE ~(t = s /\ b = a)
      BY <2>1, <2>2, <2>3, <3>1, <3>3
    <3>4. QED
      BY <3>2, <3>3
  <2>4. QED
    BY <1>3, <2>3 DEF KeysPlain
<1>4. ASSUME NEW s \in Slots, NEW a, NEW v \in Values, set_attr(s, a, v) PROVE KeysPlain'
  <2>1. CASE UNCHANGED attr
    BY <1>1, <1>4, <2>1 DEF set_attr
  <2>2. CASE Accepts(s, a, v)
    <3>1. ~IsKey(kind[s], a)
      BY <2>2, KindsTyped DEF Accepts, Settable, IsKey
    <3>2. a \in Attrs(kind[s])
      BY <2>2, StoredTyped
    <3>3. QED
      BY <1>3, <1>4, <2>2, <3>1, <3>2 DEF set_attr
  <2>3. QED
    BY <1>4, <2>1, <2>2 DEF set_attr
<1>5. ASSUME NEW s \in Slots, NEW a \in Attrs(kind[s]), write_field(s, a) PROVE KeysPlain'
  <2>1. IsKey(kind[s], a) => Writable(s, a) \subseteq Plain
    BY PlainForms, CosemAssumption DEF Writable
  <2>2. QED
    BY <1>3, <1>5, <2>1 DEF write_field
<1>6. \A s : dlms_cosem_list_add(s) => KeysPlain'
    BY <1>1 DEF dlms_cosem_list_add, storeVars
<1>7. \A c, n, s : LookUp(c, n, s) => KeysPlain'
    BY <1>1 DEF LookUp, storeVars
<1>8. \A s, a : get_attr(s, a) => KeysPlain'
    BY <1>1 DEF get_attr, storeVars
<1>9. \A b : reuse_buffer(b) => KeysPlain'
    BY <1>1 DEF reuse_buffer, storeVars
<1>10. dlms_cosem_list_init \/ action \/ UNCHANGED vars => KeysPlain'
    BY <1>1 DEF dlms_cosem_list_init, action, vars, storeVars
<1>11. \A v \in Inputs \cup {held} : v \in Values
    BY InputsTyped DEF TypeOK
<1>12. QED
    BY <1>2, <1>4, <1>5, <1>6, <1>7, <1>8, <1>9, <1>10, <1>11 DEF Next, Live

\* What a value denotes depends on one place at most.
LEMMA DenotesKept ==
    ASSUME TypeOK, NEW v \in Values, kind' = kind,
           v.form \in Referring =>
               /\ v.at # Dead
               /\ v.at \in Keys => attr'[v.at[2]][v.at[3]] = attr[v.at[2]][v.at[3]]
               /\ v.at \notin Keys => mem'[v.at[2]] = mem[v.at[2]]
    PROVE  Denotes(v)' = Denotes(v)
<1>1. Keys' = Keys
    BY DEF Keys
<1>2. CASE v.form \in Referring
  <2>1. Fetch(v.at)' = Fetch(v.at)
    BY <1>1, <1>2 DEF Fetch, Key
  <2>2. QED
    BY <1>2, <2>1 DEF Denotes, Referring
<1>3. CASE v.form \notin Referring
    BY <1>3 DEF Denotes, Referring
<1>4. QED
    BY <1>2, <1>3

\* A watched write survives a step that leaves the look-up, the attribute and the
\* place it refers to.
LEMMA WatchKept ==
    ASSUME TypeOK, Watching, NEW f,
           watched # None, watched' = watched, kind' = kind,
           f = dlms_cosem_list_find(watched.class, watched.name),
           f = dlms_cosem_list_find(watched.class, watched.name)',
           attr'[f][watched.attr] = attr[f][watched.attr],
           watched.at \in Keys => attr'[watched.at[2]][watched.at[3]] = attr[watched.at[2]][watched.at[3]],
           watched.at \in Places \ (Keys \cup {Dead}) => mem'[watched.at[2]] = mem[watched.at[2]]
    PROVE  Watching'
<1>1. PICK v : v = attr[f][watched.attr]
    OBVIOUS
<1>2. f \in Slots /\ watched.attr \in Attrs(kind[f]) /\ v \in Values
  <2>1. f \in Slots
    BY FirstOfTyped DEF Watching, dlms_cosem_list_find, Live
  <2>2. watched.attr \in Settable[kind[f]]
    BY DEF Watching
  <2>3. watched.attr \in Attrs(kind[f])
    BY <2>1, <2>2, KindsTyped, Known DEF Settable, AttrIndex
  <2>4. QED
    BY <1>1, <2>1, <2>3 DEF TypeOK
<1>3. v.form \in Referring => v.at = watched.at /\ v.at # Dead /\ v.at \in Places
    BY <1>1, <1>2, References DEF Watching, Referring
<1>4. Denotes(v)' = Denotes(v)
    BY <1>2, <1>3, DenotesKept
<1>5. Denotes(v) = watched.meaning
    BY <1>1 DEF Watching
<1>6. QED
    BY <1>1, <1>3, <1>4, <1>5 DEF Watching

\* The object that a watched write is in.
LEMMA Watched ==
    ASSUME TypeOK, Watching, watched # None,
           NEW f, f = dlms_cosem_list_find(watched.class, watched.name)
    PROVE  /\ f \in Slots /\ class_id(f) = watched.class /\ name[f] = watched.name
           /\ f # None /\ \E i \in DOMAIN objects : objects[i] = f
<1>1. /\ DOMAIN objects = 1 .. Len(objects) /\ Len(objects) \in Nat
    BY LenProperties DEF TypeOK
<1>2. f \in Matching(watched.class, watched.name) /\ \E i \in DOMAIN objects : objects[i] = f
    BY <1>1, FirstOfCorrect DEF Watching, dlms_cosem_list_find
<1>3. QED
    BY <1>2 DEF Matching, Watching

\* The rest of a step that changes no object and no buffer.
LEMMA WatchIdle ==
    ASSUME TypeOK, Watching, UNCHANGED <<kind, name, attr, mem, watched>>,
           \/ objects' = objects
           \/ \E s \in Live : objects' = Append(objects, s)
    PROVE  Watching'
<1>1. CASE watched = None
    BY <1>1 DEF Watching
<1>2. CASE watched # None
  <2>1. PICK f : f = dlms_cosem_list_find(watched.class, watched.name)
    OBVIOUS
  <2>2. Matching(watched.class, watched.name)' = Matching(watched.class, watched.name)
    BY DEF Matching, class_id
  <2>3. f # None /\ objects \in Seq(Live)
    BY <1>2, <2>1, Watched DEF TypeOK
  <2>4. f = FirstOf(objects', Matching(watched.class, watched.name))
    <3>1. PICK M : M = Matching(watched.class, watched.name)
      OBVIOUS
    <3>2. FirstOf(objects, M) = f
      BY <2>1, <3>1 DEF dlms_cosem_list_find
    <3>3. ASSUME NEW s \in Live, objects' = Append(objects, s)
          PROVE  FirstOf(objects', M) = f
      BY <2>3, <3>2, <3>3, AppendKeeps
    <3>4. QED
      BY <3>1, <3>2, <3>3
  <2>5. f = dlms_cosem_list_find(watched.class, watched.name)'
    BY <2>2, <2>4 DEF dlms_cosem_list_find
  <2>6. QED
    BY <1>2, <2>1, <2>5, WatchKept
<1>3. QED
    BY <1>1, <1>2

\* A change of another attribute, or of one that is not watched any more.
LEMMA WatchElsewhere ==
    ASSUME TypeOK, Watching, NEW s \in Slots, NEW a \in Attrs(kind[s]), NEW w,
           attr' = [attr EXCEPT ![s][a] = w], UNCHANGED <<kind, name, mem, objects>>,
           Overwritten(s, a)
    PROVE  Watching'
<1>1. CASE watched' = None
    BY <1>1 DEF Watching
<1>2. CASE watched' # None
  <2>1. /\ watched' = watched /\ watched # None
        /\ ~(watched.class = class_id(s) /\ watched.name = name[s] /\ watched.attr = a)
        /\ watched.at # Own(s, a)
    BY <1>2 DEF Overwritten, ForgetIf
  <2>2. PICK f : f = dlms_cosem_list_find(watched.class, watched.name)
    OBVIOUS
  <2>3. Matching(watched.class, watched.name)' = Matching(watched.class, watched.name)
    BY <2>1 DEF Matching, class_id
  <2>4. f = dlms_cosem_list_find(watched.class, watched.name)'
    BY <2>1, <2>2, <2>3 DEF dlms_cosem_list_find
  <2>5. f \in Slots /\ ~(f = s /\ watched.attr = a)
    BY <2>1, <2>2, Watched
  <2>6. \A t \in Slots : \A b : b \in Attrs(kind[t]) /\ ~(t = s /\ b = a) => attr'[t][b] = attr[t][b]
    BY DEF TypeOK
  <2>7. watched.attr \in Attrs(kind[f])
    BY <2>1, <2>2, <2>5, KindsTyped, Known DEF Watching, Settable, AttrIndex
  <2>8. ASSUME watched.at \in Keys
        PROVE  attr'[watched.at[2]][watched.at[3]] = attr[watched.at[2]][watched.at[3]]
    <3>1. /\ watched.at[2] \in Slots /\ watched.at[3] \in Attrs(kind[watched.at[2]])
          /\ watched.at = Own(watched.at[2], watched.at[3])
      BY <2>8, PlaceForms, KindsTyped, Known
    <3>2. ~(watched.at[2] = s /\ watched.at[3] = a)
      BY <2>1, <3>1
    <3>3. QED
      BY <2>6, <3>1, <3>2
  <2>9. attr'[f][watched.attr] = attr[f][watched.attr]
    BY <2>5, <2>6, <2>7
  <2>10. QED
    BY <2>1, <2>2, <2>4, <2>8, <2>9, WatchKept
<1>3. QED
    BY <1>1, <1>2

\* A look-up depends on which entries match only.
LEMMA FirstOfSame ==
    ASSUME NEW list, NEW S, NEW T, \A i \in DOMAIN list : list[i] \in S <=> list[i] \in T,
           NEW n \in Nat, DOMAIN list = 1 .. n
    PROVE  FirstOf(list, S) = FirstOf(list, T)
<1>1. CASE \E i \in 1 .. n : list[i] \in S
  <2>1. PICK i \in 1 .. n : list[i] \in S /\ \A j \in 1 .. i - 1 : list[j] \notin S
    BY <1>1, FirstExists
  <2>2. list[i] \in T /\ \A j \in 1 .. i - 1 : list[j] \notin T
    BY <2>1
  <2>3. QED
    BY <2>1, <2>2, FirstOfHit
<1>2. CASE \A i \in 1 .. n : list[i] \notin S
  <2>1. \A i \in 1 .. n : list[i] \notin T
    BY <1>2
  <2>2. QED
    BY <1>2, <2>1, FirstOfCorrect
<1>3. QED
    BY <1>1, <1>2

LEMMA WatchCreate ==
    ASSUME TypeOK, Watching, NEW s \in Slots, NEW n, create(s, n)
    PROVE  Watching'
<1>1. CASE watched' = None
    BY <1>1 DEF Watching
<1>2. CASE watched' # None
  <2>1. /\ watched' = watched /\ watched # None
        /\ ~(/\ \E i \in DOMAIN objects : objects[i] = s
             /\ watched.class = class_id(s) /\ watched.name \in {n, name[s]})
        /\ \A a \in AttrIndex : watched.at # Own(s, a)
    BY <1>2 DEF create, ForgetIf
  <2>2. /\ UNCHANGED <<kind, mem, objects>>
        /\ \A t \in Slots : t # s => attr'[t] = attr[t] /\ name'[t] = name[t]
        /\ name'[s] = n
    BY DEF create, TypeOK
  <2>3. PICK f : f = dlms_cosem_list_find(watched.class, watched.name)
    OBVIOUS
  <2>4. \A i \in DOMAIN objects :
            objects[i] \in Matching(watched.class, watched.name)
                <=> objects[i] \in Matching(watched.class, watched.name)'
    <3>1. ASSUME NEW i \in DOMAIN objects
          PROVE  objects[i] \in Matching(watched.class, watched.name)
                     <=> objects[i] \in Matching(watched.class, watched.name)'
      <4>1. CASE objects[i] = s
        BY <2>1, <2>2, <4>1 DEF Matching, class_id
      <4>2. CASE objects[i] # s
        BY <2>1, <2>2, <4>2 DEF Matching, class_id
      <4>3. QED
        BY <4>1, <4>2
    <3>2. QED
      BY <3>1
  <2>5. f = dlms_cosem_list_find(watched.class, watched.name)'
    <3>1. DOMAIN objects = 1 .. Len(objects) /\ Len(objects) \in Nat /\ objects' = objects
      BY <2>2, LenProperties DEF TypeOK
    <3>2. FirstOf(objects, Matching(watched.class, watched.name))
              = FirstOf(objects, Matching(watched.class, watched.name)')
      BY <2>4, <3>1, FirstOfSame
    <3>3. QED
      BY <2>1, <2>3, <3>1, <3>2 DEF dlms_cosem_list_find
  <2>6. f \in Slots /\ f # s
    <3>1. /\ f \in Slots /\ class_id(f) = watched.class /\ name[f] = watched.name
          /\ \E i \in DOMAIN objects : objects[i] = f
      BY <2>1, <2>3, Watched
    <3>2. QED
      BY <2>1, <3>1
  <2>7. ASSUME watched.at \in Keys
        PROVE  attr'[watched.at[2]][watched.at[3]] = attr[watched.at[2]][watched.at[3]]
    BY <2>1, <2>2, <2>7, PlaceForms
  <2>8. QED
    BY <2>1, <2>2, <2>3, <2>5, <2>6, <2>7, WatchKept
<1>3. QED
    BY <1>1, <1>2

LEMMA WatchReuse ==
    ASSUME TypeOK, Watching, NEW b \in Buffers, reuse_buffer(b)
    PROVE  Watching'
<1>1. CASE watched' = None
    BY <1>1 DEF Watching
<1>2. CASE watched' # None
  <2>1. watched' = watched /\ watched # None /\ watched.at # App(b)
    BY <1>2 DEF reuse_buffer, ForgetIf
  <2>2. /\ UNCHANGED <<kind, name, attr, objects>>
        /\ \A c \in Buffers : c # b => mem'[c] = mem[c]
    BY DEF reuse_buffer, storeVars, TypeOK
  <2>3. PICK f : f = dlms_cosem_list_find(watched.class, watched.name)
    OBVIOUS
  <2>4. Matching(watched.class, watched.name)' = Matching(watched.class, watched.name)
    BY <2>1, <2>2 DEF Matching, class_id
  <2>5. f = dlms_cosem_list_find(watched.class, watched.name)'
    BY <2>1, <2>2, <2>3, <2>4 DEF dlms_cosem_list_find
  <2>6. watched.at \in Places \ (Keys \cup {Dead}) => watched.at[2] \in Buffers \ {b}
    BY <2>1, PlaceForms
  <2>7. QED
    BY <2>1, <2>2, <2>3, <2>5, <2>6, WatchKept
<1>3. QED
    BY <1>1, <1>2

\* A write that begins to be watched.
LEMMA WatchBegins ==
    ASSUME TypeOK, KeysPlain, NEW s \in Live, NEW a, NEW v \in Values, Accepts(s, a, v),
           NEW w \in Stored(s, a, v), attr' = [attr EXCEPT ![s][a] = w],
           UNCHANGED <<kind, name, mem, objects>>,
           s = dlms_cosem_list_find(class_id(s), name[s]), v # Octets(Dead),
           watched' = Watch(s, a, v)
    PROVE  Watching'
<1>1. /\ s \in Slots /\ s # None /\ a \in Attrs(kind[s]) /\ a \in Settable[kind[s]]
      /\ ~IsKey(kind[s], a)
  <2>1. s \in Slots /\ s # None /\ a \in Settable[kind[s]]
    BY CosemAssumption DEF Live, Accepts
  <2>2. a \in Attrs(kind[s])
    BY <2>1, StoredTyped
  <2>3. ~IsKey(kind[s], a)
    BY <2>1, KindsTyped DEF Settable, IsKey
  <2>4. QED
    BY <2>1, <2>2, <2>3
<1>2. /\ attr'[s][a] = w
      /\ \A t \in Slots : \A b : b \in Attrs(kind[t]) /\ ~(t = s /\ b = a) => attr'[t][b] = attr[t][b]
    BY <1>1 DEF TypeOK
<1>3. /\ watched'.class = class_id(s) /\ watched'.name = name[s] /\ watched'.attr = a
      /\ watched'.meaning = Denotes(v)
      /\ v.form \in Referring => watched'.at = v.at
    BY DEF Watch, RefersTo, Referring
<1>4. s = dlms_cosem_list_find(watched.class, watched.name)'
  <2>1. Matching(watched.class, watched.name)' = Matching(class_id(s), name[s])
    BY <1>3 DEF Matching, class_id
  <2>2. QED
    BY <2>1 DEF dlms_cosem_list_find
<1>5. v.form \in Referring => v.at \in Places /\ v.at # Dead
  <2>1. v.form = "octets" => v = Octets(v.at)
    <3>1. Null.form = "null" /\ NoItems.form = "no items" /\ Empty.form = "empty"
      BY DEF Null, NoItems, Empty
    <3>2. \A b \in Buffers : Items(b).form = "items"
      BY DEF Items
    <3>3. \A p \in Places : Octets(p).at = p
      BY DEF Octets
    <3>4. QED
      BY <3>1, <3>2, <3>3 DEF Values
  <2>2. v.form = "items" => \E b \in Buffers : v.at = App(b)
    <3>1. Null.form = "null" /\ NoItems.form = "no items" /\ Empty.form = "empty"
      BY DEF Null, NoItems, Empty
    <3>2. \A b \in Buffers : Items(b).at = App(b)
      BY DEF Items
    <3>3. \A p \in Places : Octets(p).form = "octets"
      BY DEF Octets
    <3>4. QED
      BY <3>1, <3>2, <3>3 DEF Values
  <2>3. QED
    BY <2>1, <2>2, References, PlaceForms DEF Referring
<1>6. CASE kind[s] = "clock" /\ a = 3
  <2>1. v.form = "octets" /\ v.at \in Places /\ v.at # Dead
    BY <1>5, <1>6 DEF Accepts, Referring
  <2>2. w \in Plain /\ Fetch(v.at) = {w}
    <3>1. w \in Fetch(v.at)
      BY <1>6 DEF Stored
    <3>2. CASE v.at \in Keys
      <4>1. Fetch(v.at) = {Key(v.at[2], v.at[3])}
        BY <2>1, <3>2 DEF Fetch
      <4>2. Key(v.at[2], v.at[3]) \in Plain
        BY <3>2, PlaceForms, PlainForms DEF Key, KeysPlain, Zero
      <4>3. QED
        BY <3>1, <4>1, <4>2
    <3>3. CASE v.at \notin Keys
      <4>1. Fetch(v.at) = {Number(mem[v.at[2]])} /\ v.at[2] \in Buffers
        BY <2>1, <3>3, PlaceForms DEF Fetch
      <4>2. mem[v.at[2]] \in Nat
        BY <4>1, CosemAssumption DEF TypeOK
      <4>3. QED
        BY <3>1, <4>1, <4>2, PlainForms
    <3>4. QED
      BY <3>2, <3>3
  <2>3. Denotes(v) = {w}
    BY <2>1, <2>2 DEF Denotes
  <2>4. w.form \notin Referring /\ Denotes(w)' = {w}
    BY <2>2, PlainForm DEF Denotes, Referring
  <2>5. QED
    BY <1>1, <1>2, <1>3, <1>4, <2>3, <2>4 DEF Watching
<1>7. CASE ~(kind[s] = "clock" /\ a = 3)
  <2>1. w = v
    BY <1>7 DEF Stored
  <2>2. ASSUME v.form \in Referring, v.at \in Keys
        PROVE  attr'[v.at[2]][v.at[3]] = attr[v.at[2]][v.at[3]]
    <3>1. /\ v.at[2] \in Slots /\ v.at[3] \in Attrs(kind[v.at[2]])
          /\ IsKey(kind[v.at[2]], v.at[3])
      BY <2>2, PlaceForms, KindsTyped, Known
    <3>2. QED
      BY <1>1, <1>2, <3>1
  <2>3. Denotes(v)' = Denotes(v)
    BY <1>5, <2>2, DenotesKept
  <2>4. QED
    BY <1>1, <1>2, <1>3, <1>4, <1>5, <2>1, <2>3 DEF Watching
<1>8. QED
    BY <1>6, <1>7

LEMMA WatchingStep == TypeOK /\ KeysPlain /\ Watching /\ [Next]_vars => Watching'
<1> SUFFICES ASSUME TypeOK, KeysPlain, Watching, [Next]_vars PROVE Watching'
    OBVIOUS
<1>1. ASSUME dlms_cosem_list_init PROVE Watching'
  <2>1. watched' = None
    BY <1>1 DEF dlms_cosem_list_init, ForgetIf
  <2>2. QED
    BY <2>1 DEF Watching
<1>2. ASSUME NEW s \in Live, dlms_cosem_list_add(s) PROVE Watching'
    BY <1>2, WatchIdle DEF dlms_cosem_list_add, Appended, storeVars, historyVars
<1>3. ASSUME NEW s \in Slots, NEW a, NEW v \in Values, s \in Live, set_attr(s, a, v)
      PROVE  Watching'
  <2>1. CASE ~Accepts(s, a, v)
    BY <1>3, <2>1, WatchIdle DEF set_attr, historyVars
  <2>2. CASE Accepts(s, a, v)
    <3>1. a \in Attrs(kind[s])
      BY <2>2, StoredTyped
    <3>2. PICK w \in Stored(s, a, v) : attr' = [attr EXCEPT ![s][a] = w]
      BY <1>3, <2>2 DEF set_attr
    <3>3. CASE Overwritten(s, a)
      BY <1>3, <3>1, <3>2, <3>3, WatchElsewhere DEF set_attr
    <3>4. CASE ~Overwritten(s, a)
      BY <1>3, <2>2, <3>2, <3>4, WatchBegins DEF set_attr
    <3>5. QED
      BY <3>3, <3>4
  <2>3. QED
    BY <2>1, <2>2
<1>4. ASSUME NEW s \in Slots, NEW a \in Attrs(kind[s]), write_field(s, a) PROVE Watching'
    BY <1>4, WatchElsewhere DEF write_field
<1>5. \A c, n, s : LookUp(c, n, s) => Watching'
    BY WatchIdle DEF LookUp, storeVars, historyVars
<1>6. \A s, a : get_attr(s, a) => Watching'
    BY WatchIdle DEF get_attr, storeVars
<1>7. action \/ UNCHANGED vars => Watching'
    BY WatchIdle DEF action, vars, storeVars, historyVars
<1>8. \A v \in Inputs \cup {held} : v \in Values
    BY InputsTyped DEF TypeOK
<1>9. QED
    BY <1>1, <1>2, <1>3, <1>4, <1>5, <1>6, <1>7, <1>8, WatchCreate, WatchReuse DEF Next, Live

LEMMA WatchingReads == TypeOK /\ Watching => ReadYourWrites
<1> SUFFICES ASSUME TypeOK, Watching, watched # None
             PROVE  LET s == dlms_cosem_list_find(watched.class, watched.name)
                    IN  s # None /\ Meaning(s, watched.attr) = watched.meaning
    BY DEF ReadYourWrites
<1> DEFINE s == dlms_cosem_list_find(watched.class, watched.name)
<1>1. s \in Slots
    BY Watched
<1>2. watched.attr # 1
    BY <1>1, KindsTyped DEF Watching, Settable
<1>3. QED
    BY <1>2 DEF Watching, Meaning

\* A value written to a registered object is what a later request under its class
\* and name reads, until someone changes the attribute, the object or the memory
\* it refers to.
THEOREM CosemReadYourWrites == Spec => []ReadYourWrites
<1>1. Init => KeysPlain /\ Watching
  <2>1. ASSUME Init PROVE KeysPlain
    <3>1. TypeOK
      BY <2>1, CosemInitTyped
    <3>2. QED
      BY <2>1, <3>1, KindsTyped, Known DEF Init, KeysPlain
  <2>2. QED
    BY <2>1 DEF Init, Watching
<1>2. TypeOK /\ KeysPlain /\ Watching /\ [Next]_vars => KeysPlain' /\ Watching'
    BY KeysPlainStep, WatchingStep
<1>3. QED
    BY <1>1, <1>2, WatchingReads, CosemTypeCorrect, PTL DEF Spec

------------------------------------------------------------------------------
(* Answers. *)

\* The value read last refers to no other memory than the history says.
Keeping ==
    kept # None /\ kept.at # Dead =>
        /\ Denotes(held) = kept.meaning
        /\ held.form \in Referring => held.at = kept.at

LEMMA AnswerGiven ==
    ASSUME TypeOK, KeysPlain, NEW s \in Live, NEW a \in {1} \cup Attrs(kind[s]),
           ~Localised(kind[s], a), ~Unset(s, a)
    PROVE  /\ Denotes(Got(s, a)) = Meaning(s, a)
           /\ Got(s, a).form \in Referring => Got(s, a).at = Source(s, a)
<1>1. a # 1 /\ s \in Slots /\ a \in AttrIndex
    BY KindsTyped DEF Localised, Live
<1>2. CASE IsKey(kind[s], a) /\ attr[s][a] # Empty
  <2>1. attr[s][a] \in Plain
    BY <1>1, <1>2 DEF KeysPlain
  <2>2. Meaning(s, a) = {attr[s][a]}
    BY <1>1, <2>1, PlainForm DEF Meaning, Denotes, Referring
  <2>3. Own(s, a) \in Keys /\ Own(s, a)[2] = s /\ Own(s, a)[3] = a /\ Own(s, a) # Dead
    BY <1>1, <1>2, PlaceForms DEF Keys, Own
  <2>4. Fetch(Own(s, a)) = {attr[s][a]}
    BY <1>2, <2>3 DEF Fetch, Key
  <2>5. Got(s, a) = Octets(Own(s, a))
    BY <1>2 DEF Got
  <2>6. Source(s, a) = Own(s, a)
    BY <1>2 DEF Source
  <2>7. QED
    BY <2>2, <2>4, <2>5, <2>6 DEF Denotes, Octets
<1>3. CASE ~(IsKey(kind[s], a) /\ attr[s][a] # Empty)
  <2>1. Got(s, a) = attr[s][a]
    BY <1>3 DEF Got
  <2>2. Source(s, a) = RefersTo(attr[s][a])
    BY <1>3 DEF Source
  <2>3. QED
    BY <1>1, <2>1, <2>2 DEF Meaning, RefersTo, Referring
<1>4. QED
    BY <1>2, <1>3

\* An answer stays right while the place it refers to does.
LEMMA AnswerKept ==
    ASSUME TypeOK, Keeping, kind' = kind, held' = held, kept' = kept,
           kept # None /\ kept.at \in Keys =>
               attr'[kept.at[2]][kept.at[3]] = attr[kept.at[2]][kept.at[3]],
           kept # None /\ kept.at \in Places \ (Keys \cup {Dead}) =>
               mem'[kept.at[2]] = mem[kept.at[2]]
    PROVE  Keeping'
<1> SUFFICES ASSUME kept # None, kept.at # Dead
             PROVE  (Denotes(held) = kept.meaning)'
                    /\ (held.form \in Referring => held.at = kept.at)'
    BY DEF Keeping
<1>1. PICK v : v = held
    OBVIOUS
<1>2. v \in Values
    BY <1>1 DEF TypeOK
<1>3. v.form \in Referring => v.at = kept.at /\ v.at # Dead /\ v.at \in Places
    BY <1>1, <1>2, References DEF Keeping, Referring
<1>4. Denotes(v)' = Denotes(v)
    BY <1>2, <1>3, DenotesKept
<1>5. QED
    BY <1>1, <1>3, <1>4 DEF Keeping

LEMMA AnswerIdle ==
    TypeOK /\ Keeping /\ UNCHANGED <<kind, attr, mem, held, kept>> => Keeping'
BY AnswerKept

\* An attribute changes that the answer does not refer to, or has been forgotten.
LEMMA AnswerElsewhere ==
    ASSUME TypeOK, Keeping, NEW s \in Slots, NEW a \in Attrs(kind[s]), NEW w,
           attr' = [attr EXCEPT ![s][a] = w], UNCHANGED <<kind, mem, held>>,
           KeepUnless(kept.at = Own(s, a))
    PROVE  Keeping'
<1>1. CASE kept' = None
    BY <1>1 DEF Keeping
<1>2. CASE kept' # None
  <2>1. kept' = kept /\ kept # None /\ kept.at # Own(s, a)
    BY <1>2 DEF KeepUnless
  <2>2. \A t \in Slots : \A b : b \in Attrs(kind[t]) /\ ~(t = s /\ b = a) => attr'[t][b] = attr[t][b]
    BY DEF TypeOK
  <2>3. ASSUME kept.at \in Keys
        PROVE  attr'[kept.at[2]][kept.at[3]] = attr[kept.at[2]][kept.at[3]]
    <3>1. /\ kept.at[2] \in Slots /\ kept.at[3] \in Attrs(kind[kept.at[2]])
          /\ kept.at = Own(kept.at[2], kept.at[3])
      BY <2>3, PlaceForms, KindsTyped, Known
    <3>2. ~(kept.at[2] = s /\ kept.at[3] = a)
      BY <2>1, <3>1
    <3>3. QED
      BY <2>2, <3>1, <3>2
  <2>4. QED
    BY <2>1, <2>3, AnswerKept
<1>3. QED
    BY <1>1, <1>2

LEMMA AnswerRead ==
    ASSUME TypeOK, KeysPlain, Keeping, NEW s \in Live, NEW a, get_attr(s, a)
    PROVE  Keeping'
<1>1. UNCHANGED <<kind, name, attr, mem>>
    BY DEF get_attr, storeVars
<1>2. CASE UNCHANGED <<held, kept>>
    BY <1>1, <1>2, AnswerIdle
<1>3. CASE /\ a \in {1} \cup Attrs(kind[s]) /\ held' = Got(s, a)
           /\ ~(~Localised(kind[s], a) /\ Unset(s, a))
           /\ kept' = [meaning |-> Meaning(s, a), at |-> Source(s, a)]
  <2>1. PICK v : v = Got(s, a)
    OBVIOUS
  <2>2. \A u : Denotes(u)' = Denotes(u)
    BY <1>1 DEF Denotes, Fetch, Keys, Key
  <2>3. held' = v /\ Denotes(v)' = Denotes(v)
    BY <1>3, <2>1, <2>2
  <2>4. kept'.meaning = Meaning(s, a) /\ kept'.at = Source(s, a)
    BY <1>3
  <2>5. CASE Localised(kind[s], a)
    <3>1. kept'.at = Dead
      BY <2>4, <2>5 DEF Source
    <3>2. QED
      BY <3>1 DEF Keeping
  <2>6. CASE ~Localised(kind[s], a) /\ ~Unset(s, a)
    <3>1. Denotes(v) = Meaning(s, a) /\ (v.form \in Referring => v.at = Source(s, a))
      BY <1>3, <2>1, <2>6, AnswerGiven
    <3>2. QED
      BY <2>3, <2>4, <3>1 DEF Keeping
  <2>7. QED
    BY <1>3, <2>5, <2>6
<1>4. CASE /\ ~Localised(kind[s], a) /\ Unset(s, a)
           /\ a \in {1} \cup Attrs(kind[s]) /\ held' = Got(s, a) /\ kept' = kept
  <2>1. ~IsKey(kind[s], a)
    BY <1>4 DEF Unset, IsKey
  <2>2. held' = held
    BY <1>4, <2>1 DEF Got
  <2>3. QED
    BY <1>1, <1>4, <2>2, AnswerIdle
<1>5. QED
  <2>1. \/ UNCHANGED <<held, kept>>
        \/ /\ a \in {1} \cup Attrs(kind[s]) /\ held' = Got(s, a)
           /\ kept' = IF ~Localised(kind[s], a) /\ Unset(s, a) THEN kept
                      ELSE [meaning |-> Meaning(s, a), at |-> Source(s, a)]
    BY DEF get_attr
  <2>2. QED
    BY <1>2, <1>3, <1>4, <2>1

LEMMA AnswerCreate ==
    ASSUME TypeOK, Keeping, NEW s \in Slots, NEW n, create(s, n)
    PROVE  Keeping'
<1>1. CASE kept' = None
    BY <1>1 DEF Keeping
<1>2. CASE kept' # None
  <2>1. kept' = kept /\ kept # None /\ \A a \in AttrIndex : kept.at # Own(s, a)
    BY <1>2 DEF create, KeepUnless
  <2>2. /\ UNCHANGED <<kind, mem, held>>
        /\ \A t \in Slots : t # s => attr'[t] = attr[t]
    BY DEF create, TypeOK
  <2>3. ASSUME kept.at \in Keys
        PROVE  attr'[kept.at[2]][kept.at[3]] = attr[kept.at[2]][kept.at[3]]
    BY <2>1, <2>2, <2>3, PlaceForms
  <2>4. QED
    BY <2>1, <2>2, <2>3, AnswerKept
<1>3. QED
    BY <1>1, <1>2

LEMMA AnswerReuse ==
    ASSUME TypeOK, Keeping, NEW b \in Buffers, reuse_buffer(b)
    PROVE  Keeping'
<1>1. CASE kept' = None
    BY <1>1 DEF Keeping
<1>2. CASE kept' # None
  <2>1. kept' = kept /\ kept # None /\ kept.at # App(b)
    BY <1>2 DEF reuse_buffer, KeepUnless
  <2>2. /\ UNCHANGED <<kind, attr, held>>
        /\ \A c \in Buffers : c # b => mem'[c] = mem[c]
    BY DEF reuse_buffer, storeVars, TypeOK
  <2>3. kept.at \in Places \ (Keys \cup {Dead}) => kept.at[2] \in Buffers \ {b}
    BY <2>1, PlaceForms
  <2>4. QED
    BY <2>1, <2>2, <2>3, AnswerKept
<1>3. QED
    BY <1>1, <1>2

LEMMA KeepingStep == TypeOK /\ KeysPlain /\ Keeping /\ [Next]_vars => Keeping'
<1> SUFFICES ASSUME TypeOK, KeysPlain, Keeping, [Next]_vars PROVE Keeping'
    OBVIOUS
<1>1. dlms_cosem_list_init => Keeping'
    BY AnswerIdle DEF dlms_cosem_list_init, storeVars
<1>2. \A s : dlms_cosem_list_add(s) => Keeping'
    BY AnswerIdle DEF dlms_cosem_list_add, storeVars, historyVars
<1>3. ASSUME NEW s \in Slots, NEW a, NEW v \in Values, set_attr(s, a, v)
      PROVE  Keeping'
  <2>1. CASE ~Accepts(s, a, v)
    BY <1>3, <2>1, AnswerIdle DEF set_attr, historyVars
  <2>2. CASE Accepts(s, a, v)
    <3>1. a \in Attrs(kind[s])
      BY <2>2, StoredTyped
    <3>2. PICK w \in Stored(s, a, v) : attr' = [attr EXCEPT ![s][a] = w]
      BY <1>3, <2>2 DEF set_attr
    <3>3. KeepUnless(kept.at = Own(s, a)) /\ UNCHANGED <<kind, mem, held>>
      BY <1>3, <2>2 DEF set_attr
    <3>4. QED
      BY <3>1, <3>2, <3>3, AnswerElsewhere
  <2>3. QED
    BY <2>1, <2>2
<1>4. ASSUME NEW s \in Slots, NEW a \in Attrs(kind[s]), write_field(s, a) PROVE Keeping'
    BY <1>4, AnswerElsewhere DEF write_field
<1>5. \A c, n, s : LookUp(c, n, s) => Keeping'
    BY AnswerIdle DEF LookUp, storeVars, historyVars
<1>6. action \/ UNCHANGED vars => Keeping'
    BY AnswerIdle DEF action, vars, storeVars, historyVars
<1>7. \A v \in Inputs \cup {held} : v \in Values
    BY InputsTyped DEF TypeOK
<1>8. QED
    BY <1>1, <1>2, <1>3, <1>4, <1>5, <1>6, <1>7, AnswerRead, AnswerCreate, AnswerReuse
       DEF Next, Live

\* What get_attr hands out goes on denoting what the attribute did, a key of a
\* security setup and an attribute that refers to a buffer included, until the key
\* is rewritten or its object created again, or the buffer reused; but for the
\* attributes it leaves in local memory.
THEOREM CosemReadsKept == Spec => []ReadsKept
<1>1. Init => KeysPlain /\ Keeping
  <2>1. ASSUME Init PROVE KeysPlain
    BY <2>1, CosemInitTyped, KindsTyped, Known DEF Init, KeysPlain
  <2>2. Init => Keeping
    BY DEF Init, Keeping
  <2>3. QED
    BY <2>1, <2>2
<1>2. TypeOK /\ KeysPlain /\ Keeping /\ [Next]_vars => KeysPlain' /\ Keeping'
    BY KeysPlainStep, KeepingStep
<1>3. Keeping => ReadsKept
    BY DEF Keeping, ReadsKept
<1>4. QED
    BY <1>1, <1>2, <1>3, CosemTypeCorrect, PTL DEF Spec

==============================================================================
