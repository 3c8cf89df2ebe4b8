------------------------------- MODULE ConfMap -------------------------------
(***************************************************************************)
(* The values of a configuration, m_submaps of class ConfSimple            *)
(* (src/sc2src/conftree.cpp): per subkey, the values of its names.  The    *)
(* code drops a submap when its last value is erased and creates one with  *)
(* its first, so a submap exists exactly when it has a value, and the map  *)
(* of maps is a total function with NoValue for what is not set.           *)
(***************************************************************************)
CONSTANTS
  Subkey,   \* section names, with the global one
  Global,   \* the empty section name
  Name,     \* variable names
  Value,    \* values, without surrounding blanks or a final backslash
  NoValue

ASSUME ConfMapAssumption == Global \in Subkey /\ NoValue \notin Value

Maps == [Subkey -> [Name -> Value \cup {NoValue}]]
EmptyMaps == [sk \in Subkey |-> [nm \in Name |-> NoValue]]

getIn(maps, nm, sk) == maps[sk][nm]
hasSubKey(maps, sk) == \E nm \in Name : maps[sk][nm] # NoValue

With(maps, nm, val, sk) == [maps EXCEPT ![sk][nm] = val]
Without(maps, nm, sk) == [maps EXCEPT ![sk][nm] = NoValue]
WithoutKey(maps, sk) == [maps EXCEPT ![sk] = [nm \in Name |-> NoValue]]
=============================================================================
