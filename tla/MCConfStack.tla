----------------------------- MODULE MCConfStack -----------------------------
(***************************************************************************)
(* Small instances of ConfStack for TLC.                                   *)
(***************************************************************************)
EXTENDS ConfStack, TLC

CONSTANTS x, v, w

Empty == <<>>
Parent == <<"/", "a">>
Child == <<"/", "a", "/", "b">>
NestedKeys == {Empty, Parent, Child}

AllOpens == [1 .. NFiles -> BOOLEAN]
\* Files with one variable at most.
TinyMaps ==
  {m \in Maps : Cardinality({sk \in Subkey : \E nm \in Name : m[sk][nm] # NoValue}) =< 1}
=============================================================================
