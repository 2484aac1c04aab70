------------------------------- MODULE Values -------------------------------
(***************************************************************************)
(* Values (value/types): what Merge merges and Schema reads, validates and *)
(* redacts.  A map is a function, its order left out; a number is whole; a *)
(* text stands for bytes too.                                              *)
(***************************************************************************)
EXTENDS Naturals, Sequences

AbsentValue == [tag |-> "absent"]
Null == [tag |-> "null"]
Bool(b) == [tag |-> "bool", b |-> b]
Num(n) == [tag |-> "num", n |-> n]
Str(s) == [tag |-> "str", s |-> s]
MapOf(f) == [tag |-> "map", entries |-> f]
ListOf(s) == [tag |-> "list", items |-> s]

Of(v) == IF v.tag = "map" THEN v.entries ELSE v.items

IsAbsent(v) == v.tag = "absent"
IsStr(v) == v.tag = "str"
IsMap(v) == v.tag = "map"
IsList(v) == v.tag = "list"
IsScalar(v) == ~IsMap(v) /\ ~IsList(v)
=============================================================================
