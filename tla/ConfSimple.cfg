SPECIFICATION Spec
CONSTANTS
  a = a
  b = b
  x = x
  y = y
  v = v
  w = w
  e = e
  Global = ""
  NoValue = NoValue
  Subkey = {"", a, b}
  Name = {x, y}
  Value = {v, w, e}
  Settable = {v}
  Truncated <- Beginnings
  Text <- Files
  MaxLines = 8
  FewLines = 3
  MaxCopies = 1
  MaxRestarts = 1
INVARIANTS
  FileSaysIt
  LayoutFits
PROPERTIES
  KeepsComments
  CrashLosesEnd
\* A file that cannot be opened leaves nothing to do.
CHECK_DEADLOCK FALSE
