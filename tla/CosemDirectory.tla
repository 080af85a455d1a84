---------------------------- MODULE CosemDirectory ----------------------------
(***************************************************************************)
(* What a list of COSEM objects promises: a set of registered objects, in  *)
(* which a look-up finds one that has the class and name asked for if any  *)
(* has, and that refuses an object only when it is full.  An object has    *)
(* its class and name apart from the list, and may get another name while  *)
(* it is registered.                                                       *)
(***************************************************************************)
EXTENDS Naturals

CONSTANTS
    Objects,
    ClassIds, Names,
    None,        \* no object, no name
    Capacity     \* entries: an object may take more than one

VARIABLES
    class,       \* the class of each object
    entry,       \* the name of each object, None before it is created
    registered,  \* the objects in the list
    entries,     \* the number of its entries
    result       \* what the last call returned

\* A look-up returns an object or None; the class is None in one by name only.
Found(c, n, o) == [call |-> "find", class |-> c, name |-> n, object |-> o]
Refused == [call |-> "refused"]
Done == [call |-> "done"]

Matching(c, n) == {o \in registered : class[o] = c /\ entry[o] = n}
Named(n) == {o \in registered : entry[o] = n}

Init ==
    /\ class \in [Objects -> ClassIds]
    /\ entry = [o \in Objects |-> None]
    /\ registered = {} /\ entries = 0
    /\ result = Done

Create(o, n) ==
    /\ result' = Done
    /\ entry' = [entry EXCEPT ![o] = n]
    /\ UNCHANGED <<class, registered, entries>>

Register(o) ==
    /\ entries < Capacity
    /\ result' = Done
    /\ entries' = entries + 1
    /\ registered' = registered \cup {o}
    /\ UNCHANGED <<class, entry>>

Refuse ==
    /\ entries = Capacity
    /\ result' = Refused
    /\ UNCHANGED <<class, entry, registered, entries>>

Clear ==
    /\ result' = Done
    /\ registered' = {} /\ entries' = 0
    /\ UNCHANGED <<class, entry>>

OneOf(objects) == IF objects = {} THEN {None} ELSE objects

Find(c, n) ==
    /\ result' \in {Found(c, n, o) : o \in OneOf(Matching(c, n))}
    /\ UNCHANGED <<class, entry, registered, entries>>

FindByName(n) ==
    /\ result' \in {Found(None, n, o) : o \in OneOf(Named(n))}
    /\ UNCHANGED <<class, entry, registered, entries>>

\* Calls on an object itself.
Other ==
    /\ result' = Done
    /\ UNCHANGED <<class, entry, registered, entries>>

Next ==
    \/ Other
    \/ \E o \in Objects : Register(o) \/ \E n \in Names : Create(o, n)
    \/ Refuse
    \/ Clear
    \/ \E n \in Names : FindByName(n) \/ \E c \in ClassIds : Find(c, n)

Spec == Init /\ [][Next]_<<class, entry, registered, entries, result>>

==============================================================================
