----------------------------- MODULE CosemClasses -----------------------------
(***************************************************************************)
(* The COSEM interface classes of src/src/dlms_cosem.c.  A class has a     *)
(* number, and for each attribute its get_attr knows, besides the logical  *)
(* name, the value its create function leaves in it.  An attribute is      *)
(* called by its index; the three functions of a class differ in nothing   *)
(* else that the machine in Cosem does not treat by name.                  *)
(*                                                                         *)
(* A value is a dlms_value_t.  Only what it denotes matters here, so that  *)
(* all numbers are one form; octets and arrays are references.             *)
(***************************************************************************)
EXTENDS Naturals

Null      == [form |-> "null"]
Number(n) == [form |-> "number", n |-> n]

\* An array whose pointer is NULL, and octets of length 0.
NoItems == [form |-> "no items"]
Empty   == [form |-> "empty"]

Zero == Number(0)

\* The attributes with values of type null, with the value given, and with 0.
ClassWith(id, attrs, nulls, special, value) ==
    [class_id |-> id,
     initial  |-> [a \in attrs |-> IF a \in nulls THEN Null
                                   ELSE IF a \in special THEN value ELSE Zero]]
Class(id, attrs, nulls) == ClassWith(id, attrs, nulls, {}, Zero)

data               == Class(1, {2}, {2})
register           == Class(3, {2, 3}, {3})
clock              == Class(8, {2, 3}, {2})
security_setup     == ClassWith(64, {2, 3, 4, 7}, {}, {3, 4, 7}, Empty)
association_ln     == Class(15, {2}, {})
profile_generic    == ClassWith(7, {2, 3, 4}, {3, 4}, {2}, NoItems)
demand             == ClassWith(2, 2 .. 5, {4}, {5}, Number(900))
register_monitor   == Class(21, 2 .. 5, {4})
disconnect_control == Class(70, {2, 3}, {3})
limiter            == Class(71, 2 .. 4, {3})
account            == Class(111, 2 .. 4, {3})
day_profile        == Class(20, 2 .. 5, {2})
week_profile       == Class(11, 2 .. 9, {2})
extended_register  == Class(4, {2, 3}, {3})
demand_register    == ClassWith(5, 2 .. 4, {3}, {4}, Number(900))
credit             == Class(112, {2, 3}, {})

Classes ==
    [data |-> data, register |-> register, clock |-> clock, security_setup |-> security_setup,
     association_ln |-> association_ln, profile_generic |-> profile_generic, demand |-> demand,
     register_monitor |-> register_monitor, disconnect_control |-> disconnect_control,
     limiter |-> limiter, account |-> account, day_profile |-> day_profile,
     week_profile |-> week_profile, extended_register |-> extended_register,
     demand_register |-> demand_register, credit |-> credit]

Kinds == DOMAIN Classes
ClassIds == {Classes[k].class_id : k \in Kinds}
AttrIndex == 2 .. 9
Attrs(k) == DOMAIN Classes[k].initial

\* The attributes that are plain integers in the struct of the class; clock's
\* third is made of two.
IntegerAttrs ==
    [k \in Kinds |->
        CASE k \in {"security_setup", "association_ln", "disconnect_control"} -> {2}
          [] k \in {"clock", "credit"} -> {3}
          [] k \in {"limiter", "account", "demand_register"} -> {4}
          [] k \in {"demand", "register_monitor"} -> {5}
          [] k = "day_profile" -> 3 .. 5
          [] k = "week_profile" -> 3 .. 9
          [] k \in {"data", "register", "profile_generic", "extended_register"} -> {}]

\* The keys and the system title of a security setup, arrays in its struct.
IsKey(k, a) == k = "security_setup" /\ a \in {3, 4, 7}

\* An attribute that get_attr copies from the object to a local array first; so
\* does every class with its logical name.
Localised(k, a) == a = 1 \/ (k = "clock" /\ a = 3)

\* The attributes of the classes that have a set_attr.
Settable == [k \in Kinds |-> CASE k = "data" -> {2}
                               [] k \in {"register", "clock"} -> {2, 3}
                               [] OTHER -> {}]

==============================================================================
