SPECIFICATION Spec
CONSTANTS
  x = x
  v = v
  w = w
  Global <- Empty
  NoValue = NoValue
  Subkey <- NestedKeys
  Name = {x}
  Value = {v, w}
  NFiles = 3
  Opens <- AllOpens
  Trees = {TRUE, FALSE}
  ReadOnly = {TRUE, FALSE}
  Contents <- TinyMaps
INVARIANTS
  NoUnneededEntry
  LookupsAgree
PROPERTIES
  SetTakes
\* A stack of no file has nothing to do.
CHECK_DEADLOCK FALSE
