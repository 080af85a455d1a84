--------------------------------- MODULE Cosem ---------------------------------
(***************************************************************************)
(* A server's COSEM objects (src/src/dlms_cosem.c): the application        *)
(* creates them in storage of its own, registers them in a                 *)
(* dlms_cosem_object_list_t, and serves requests by looking an object up   *)
(* and calling its get_attr or set_attr.  It writes the other fields of an *)
(* object directly, as test_cosem.c does, may create an object again where *)
(* it is, and uses its buffers again.                                      *)
(*                                                                         *)
(* Nothing is copied in depth: a dlms_value_t of octets is a pointer to a  *)
(* buffer of the application, to a key inside an object, or to a local     *)
(* variable of a get_attr that has returned.                               *)
(***************************************************************************)
EXTENDS CosemClasses, Sequences

CONSTANTS
    Slots,       \* storage for objects
    Assignments, \* which struct each is, a subset of [Slots -> Kinds]
    Names,       \* OBIS codes
    Buffers,     \* of the application
    Contents,    \* what a buffer may hold, and the numbers written
    None,        \* a NULL pointer, no name
    MaxObjects,  \* DLMS_COSEM_MAX_OBJECTS
    MaxWrites    \* bound of the model: values that change, for each assignment

ASSUME CosemAssumption ==
    /\ Assignments # {} /\ Assignments \subseteq [Slots -> Kinds]
    /\ None \notin Slots /\ None \notin Names
    /\ Contents # {} /\ Contents \subseteq Nat
    /\ MaxObjects \in Nat /\ MaxWrites \in [Assignments -> Nat]

VARIABLES
    kind,     \* the struct of each storage
    name,     \* base.logical_name, None before the object is created
    attr,     \* the attributes of each object
    mem,      \* the application's buffers
    objects,  \* list->objects up to list->count
    held,     \* the caller's dlms_value_t that get_attr fills in
    result,   \* what the last call returned
    \* history
    writes,   \* values changed so far
    watched,  \* a write through the list that should still be seen
    kept      \* what the value read last should still denote

storeVars   == <<kind, name, attr>>
historyVars == <<writes, watched, kept>>
vars == <<storeVars, mem, objects, held, result, historyVars>>

\* What calls return: a code; the object that was looked up under a class (None:
\* any) and a name.
Code(c) == [call |-> "code", code |-> c]
Found(c, n, s) == [call |-> "find", class |-> c, name |-> n, object |-> s]

class_id(s) == Classes[kind[s]].class_id
Live == {s \in Slots : name[s] # None}

\* Where octets may lie.
App(b) == <<"application", b>>
Own(s, a) == <<"object", s, a>>
Dead == <<"stack">>
Keys == {p \in {"object"} \X Slots \X AttrIndex : IsKey(kind[p[2]], p[3])}
Places == ({"application"} \X Buffers) \cup Keys \cup {Dead}

Octets(p) == [form |-> "octets", at |-> p]
Items(b)  == [form |-> "items", at |-> App(b)]
Values ==
    {Null, NoItems, Empty} \cup [form : {"number"}, n : Nat]
    \cup {Octets(p) : p \in Places} \cup {Items(b) : b \in Buffers}

------------------------------------------------------------------------------
(* What values denote. *)

Key(s, a) == IF attr[s][a] = Empty THEN Zero ELSE attr[s][a]

\* The octets a pointer leads to; those of a local variable that is gone may be
\* anything.
Fetch(p) ==
    IF p = Dead THEN {Number(c) : c \in Contents}
    ELSE IF p \in Keys THEN {Key(p[2], p[3])}
    ELSE {Number(mem[p[2]])}

Denotes(v) == IF v.form \in {"octets", "items"} THEN Fetch(v.at) ELSE {v}

\* What attribute a of an object means, whatever get_attr does about it, and the
\* memory beside the value itself that this depends on.
Meaning(s, a) ==
    IF a = 1 THEN {name[s]} ELSE Denotes(attr[s][a])

RefersTo(v) == IF v.form \in {"octets", "items"} THEN v.at ELSE None
Source(s, a) ==
    IF Localised(kind[s], a) THEN Dead
    ELSE IF IsKey(kind[s], a) /\ attr[s][a] # Empty THEN Own(s, a)
    ELSE RefersTo(attr[s][a])

------------------------------------------------------------------------------
(* The list. *)

\* The first entry that is one of S, as the loops of the look-ups find it.
LastOf(list, S) ==                  \* defect: a later entry replaces an earlier one
    LET hit(i) == list[i] \in S /\ \A j \in i + 1 .. Len(list) : list[j] \notin S
    IN  IF \E i \in DOMAIN list : hit(i)
        THEN list[CHOOSE i \in DOMAIN list : hit(i)] ELSE None
FirstOf(list, S) ==
    LET hit(i) == list[i] \in S /\ \A j \in 1 .. i - 1 : list[j] \notin S
    IN  IF \E i \in DOMAIN list : hit(i)
        THEN list[CHOOSE i \in DOMAIN list : hit(i)] ELSE None

Matching(c, n) == {s \in Slots : class_id(s) = c /\ name[s] = n}
Named(n) == {s \in Slots : name[s] = n}

FindAnyClass(c, n) == FirstOf(objects, Named(n))    \* defect: the class is not compared
dlms_cosem_list_find(c, n) == FirstOf(objects, Matching(c, n))
dlms_cosem_list_find_by_ln(n) == FirstOf(objects, Named(n))

\* Values that a caller makes, with the dlms_value_set functions.
Inputs == {Number(c) : c \in Contents} \cup {Octets(App(b)) : b \in Buffers}

TypeOK ==
    /\ kind \in Assignments
    /\ name \in [Slots -> Names \cup {None}]
    /\ attr = [s \in Slots |-> attr[s]]
    /\ \A s \in Slots : attr[s] \in [Attrs(kind[s]) -> Values]
    /\ mem \in [Buffers -> Contents]
    /\ objects \in Seq(Live) /\ Len(objects) <= MaxObjects
    /\ held \in Values
    /\ result.call \in {"code", "find"}
    /\ result.call = "find" => result.object \in Live \cup {None}
    /\ writes \in 0 .. MaxWrites[kind]

\* Objects not created yet, in zeroed memory; dlms_cosem_list_init.
Init ==
    /\ kind \in Assignments
    /\ name = [s \in Slots |-> None]
    /\ attr = [s \in Slots |-> Classes[kind[s]].initial]
    /\ mem \in [Buffers -> Contents]
    /\ objects = <<>>
    /\ held = Null /\ result = Code("OK")
    /\ writes = 0 /\ watched = None /\ kept = None

\* A history variable is forgotten when its subject is changed from outside.
ForgetIf(condition) == watched' = IF watched # None /\ condition THEN None ELSE watched
KeepUnless(changed) == kept' = IF kept # None /\ changed THEN None ELSE kept
Change == writes < MaxWrites[kind] /\ writes' = writes + 1

dlms_cosem_list_init ==
    /\ objects' = <<>>
    /\ result' = Code("OK")
    /\ ForgetIf(TRUE)
    /\ UNCHANGED <<storeVars, mem, held, writes, kept>>

InsertedFirst(s) == <<s>> \o objects             \* defect: the newest entry comes first
Appended(s) == Append(objects, s)
RoomForMore == Len(objects) <= MaxObjects        \* defect: one entry too many
Room == Len(objects) < MaxObjects

dlms_cosem_list_add(s) ==
    /\ name[s] # None
    /\ \/ ~Room /\ result' = Code("BUFFER") /\ UNCHANGED objects
       \/ Room /\ result' = Code("OK") /\ objects' = Appended(s)
    /\ UNCHANGED <<storeVars, mem, held, historyVars>>

LookUp(c, n, s) ==
    /\ result' = Found(c, n, s)
    /\ UNCHANGED <<storeVars, mem, objects, held, historyVars>>

------------------------------------------------------------------------------
(* Objects. *)

\* The create function of the class of s, which clears the object first, also
\* when it is registered.
create(s, n) ==
    /\ name' = [name EXCEPT ![s] = n]
    /\ attr' = [attr EXCEPT ![s] = Classes[kind[s]].initial]
    /\ result' = Code("OK")
    /\ ForgetIf(\/ /\ \E i \in DOMAIN objects : objects[i] = s
                   /\ watched.class = class_id(s) /\ watched.name \in {n, name[s]}
                \/ \E a \in AttrIndex : watched.at = Own(s, a))
    /\ KeepUnless(\E a \in AttrIndex : kept.at = Own(s, a))
    /\ UNCHANGED <<kind, mem, objects, held, writes>>

\* What get_attr leaves in the caller's value, for an attribute it knows; the
\* buffer of a profile is left out while it is not set.
Unset(s, a) == kind[s] = "profile_generic" /\ attr[s][a] = NoItems

FirstKey(s, a) ==                   \* defect: every key is taken from the first one's array
    CASE Localised(kind[s], a) -> Octets(Dead)
      [] IsKey(kind[s], a) -> IF attr[s][a] = Empty THEN Empty ELSE Octets(Own(s, 3))
      [] Unset(s, a) -> held
      [] OTHER -> attr[s][a]
Got(s, a) ==
    CASE Localised(kind[s], a) -> Octets(Dead)
      [] IsKey(kind[s], a) -> IF attr[s][a] = Empty THEN Empty ELSE Octets(Own(s, a))
      [] Unset(s, a) -> held
      [] OTHER -> attr[s][a]

get_attr(s, a) ==
    /\ \/ /\ a \in {1} \cup Attrs(kind[s])
          /\ held' = Got(s, a)
          /\ kept' = IF ~Localised(kind[s], a) /\ Unset(s, a) THEN kept
                     ELSE [meaning |-> Meaning(s, a), at |-> Source(s, a)]
          /\ result' = Code("OK")
       \/ /\ a \notin {1} \cup Attrs(kind[s])
          /\ result' = Code("NOT_SUPPORTED")
          /\ UNCHANGED <<held, kept>>
    /\ UNCHANGED <<storeVars, mem, objects, writes, watched>>

\* The value that set_attr stores: clock's third attribute takes its bytes.
Stored(s, a, v) ==
    IF kind[s] = "clock" /\ a = 3 THEN Fetch(v.at) ELSE {v}

Accepts(s, a, v) ==
    /\ a \in Settable[kind[s]]
    /\ kind[s] = "clock" /\ a = 3 => v.form = "octets"

Watch(s, a, v) ==
    [class |-> class_id(s), name |-> name[s], attr |-> a,
     meaning |-> Denotes(v), at |-> RefersTo(v)]

Overwritten(s, a) ==
    ForgetIf(\/ watched.class = class_id(s) /\ watched.name = name[s] /\ watched.attr = a
             \/ watched.at = Own(s, a))

\* An object without a set_attr is refused by its caller.
set_attr(s, a, v) ==
    /\ \/ /\ Accepts(s, a, v)
          /\ Change
          /\ \E w \in Stored(s, a, v) : attr' = [attr EXCEPT ![s][a] = w]
          /\ result' = Code("OK")
          /\ \/ Overwritten(s, a)
             \/ /\ s = dlms_cosem_list_find(class_id(s), name[s])
                /\ v # Octets(Dead)
                /\ watched' = Watch(s, a, v)
          /\ KeepUnless(kept.at = Own(s, a))
       \/ /\ ~Accepts(s, a, v)
          /\ result' = Code("NOT_SUPPORTED")
          /\ UNCHANGED <<attr, historyVars>>
    /\ UNCHANGED <<kind, name, mem, objects, held>>

\* The application writes a field of an object of its own, or calls
\* dlms_data_set_value or dlms_register_set_value.
Writable(s, a) ==
    IF a \in IntegerAttrs[kind[s]] \/ IsKey(kind[s], a) THEN {Number(c) : c \in Contents}
    ELSE IF kind[s] = "profile_generic" /\ a = 2 THEN {NoItems} \cup {Items(b) : b \in Buffers}
    ELSE Inputs

write_field(s, a) ==
    /\ Change
    /\ \E v \in Writable(s, a) : attr' = [attr EXCEPT ![s][a] = v]
    /\ result' = Code("OK")
    /\ Overwritten(s, a)
    /\ KeepUnless(kept.at = Own(s, a))
    /\ UNCHANGED <<kind, name, mem, objects, held>>

\* The application uses a buffer for something else.
reuse_buffer(b) ==
    /\ Change
    /\ \E c \in Contents \ {mem[b]} : mem' = [mem EXCEPT ![b] = c]
    /\ result' = Code("OK")
    /\ ForgetIf(watched.at = App(b))
    /\ KeepUnless(kept.at = App(b))
    /\ UNCHANGED <<storeVars, objects, held>>

\* base.action of every class that has one.
action ==
    /\ result' = Code("NOT_SUPPORTED")
    /\ UNCHANGED <<storeVars, mem, objects, held, historyVars>>

\* An attribute that no class has; one that a class does not know, or may not
\* set, is refused like it.
Unknown == 10

Next ==
    \/ dlms_cosem_list_init
    \/ \E s \in Live : dlms_cosem_list_add(s)
    \/ \E n \in Names : LookUp(None, n, dlms_cosem_list_find_by_ln(n))
    \/ \E n \in Names : \E c \in {class_id(s) : s \in Slots} :
          LookUp(c, n, dlms_cosem_list_find(c, n))
    \/ \E s \in Slots, n \in Names : create(s, n)
    \/ \E s \in Live : \E a \in {1, Unknown} \cup Attrs(kind[s]) : get_attr(s, a)
    \/ \E s \in Live : \E a \in {Unknown} \cup Settable[kind[s]], v \in Inputs \cup {held} :
          set_attr(s, a, v)
    \/ \E s \in Live : \E a \in Attrs(kind[s]) : write_field(s, a)
    \/ \E b \in Buffers : reuse_buffer(b)
    \/ action

Spec == Init /\ [][Next]_vars

------------------------------------------------------------------------------
(* Properties. *)

\* A look-up finds a registered object of the class and name if there is one, and
\* an object is refused only when the list is full: the list implements
\* CosemDirectory, whatever is created, again or twice under the same name.
Directory == INSTANCE CosemDirectory WITH
    Objects <- Slots,
    Capacity <- MaxObjects,
    class <- [s \in Slots |-> class_id(s)],
    entry <- name,
    registered <- {objects[i] : i \in DOMAIN objects},
    entries <- Len(objects),
    result <- IF result.call = "find" THEN result
              ELSE IF result = Code("BUFFER") THEN [call |-> "refused"]
              ELSE [call |-> "done"]
ImplementsDirectory == Directory!Spec

\* What a look-up finds it goes on finding while objects are added: a duplicate
\* never takes over the requests for the object before it.
LookupStable ==
    [][objects' \notin {objects, <<>>} =>
         \A n \in Names :
            /\ dlms_cosem_list_find_by_ln(n) \in {None, dlms_cosem_list_find_by_ln(n)'}
            /\ \A c \in {class_id(s) : s \in Slots} :
                  dlms_cosem_list_find(c, n) \in {None, dlms_cosem_list_find(c, n)'}]_vars

\* A value that get_attr returned denotes what the attribute read meant then, and
\* goes on doing so although objects are created again, attributes written and
\* buffers reused, until one of them is the memory that the attribute lay in: the
\* key of a security setup that is rewritten or cleared, the buffer that an
\* attribute refers to.  Nothing holds of the attributes that pass through a local
\* variable of get_attr, the logical name and a clock's time; a profile's buffer that was never set answers
\* nothing, and the caller's value keeps what it denoted.
ReadsKept == kept # None /\ kept.at # Dead => Denotes(held) = kept.meaning

\* A value written to a registered object is read back under the same class and
\* name, whatever is created, registered, looked up or written elsewhere in
\* between, until that attribute or the memory the value refers to is changed, or
\* a registered object of the class is created again from or under that name.
ReadYourWrites ==
    watched # None =>
        LET s == dlms_cosem_list_find(watched.class, watched.name)
        IN  s # None /\ Meaning(s, watched.attr) = watched.meaning

==============================================================================
