----------------------------- MODULE Collections -----------------------------
(***************************************************************************)
(* Programs with lists, arrays and maps, which may hold each other and     *)
(* themselves.                                                             *)
(***************************************************************************)
EXTENDS IntMaps

vars == <<program, below, listVars>>

Init == ListsInit

Make(o) ==
    \/ \E what \in {"item", "list"} : New(o, what)
    \/ NewArray(o)
    \/ NewIntMap(o)

\* toList makes a list of an array.
MakeList(a, o) == "list" \in program.makes /\ \E ks \in NewLinks(Size(a)) : ToList(a, o, ks)

Next ==
    \/ /\ \/ \E o \in Objects : Make(o)
          \/ \E a \in Arrays, o \in Objects : MakeList(a, o)
          \/ ListsNext \/ ArraysNext \/ IntMapsNext
       /\ UNCHANGED <<program, below>>
    \/ OnBelow /\ UNCHANGED program

Spec == Init /\ [][Next]_vars
=============================================================================
