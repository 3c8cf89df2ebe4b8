------------------------------ MODULE ConfSimple -----------------------------
(***************************************************************************)
(* Class ConfSimple of src/sc2src/conftree.h and conftree.cpp: a           *)
(* configuration file held in memory as values (m_submaps) and as layout   *)
(* (m_order: comments, section and variable names in file order), and      *)
(* rewritten after each change unless writes are held.                     *)
(*                                                                         *)
(* A line of text is a comment (any line without a variable or a section), *)
(* a section header or a variable, with the lines that continue it.  The   *)
(* last one of a file may want its end of line: Cut stands for one of      *)
(* which the code then keeps nothing.  How lines are read from text, and   *)
(* values are written over several lines, is in ConfText.  Left out: tilde *)
(* expansion and output errors.                                            *)
(***************************************************************************)
EXTENDS ConfMap, Integers, Sequences, SequencesExt, FiniteSets, FiniteSetsExt

CONSTANTS
  Text,      \* the texts a configuration may be read from
  Settable,  \* the values set() is called with
  Truncated, \* what is read of a value that is cut short: its beginnings, trimmed
  MaxLines,  \* bound: lines in a text and in m_order
  FewLines,  \* bound: the same for a copy, and after a restart
  MaxCopies, \* bound: copies of the object
  MaxRestarts \* bound: restarts of the program

VARIABLES
  file,         \* the lines of the file m_filename
  status,       \* "error", "ro" or "rw"
  m_submaps,
  m_order,      \* the layout: [kind, data], kind "comment", "sk" or "var"
  m_holdWrites,
  pc,           \* "parse", "ready" or "aborted"
  input,        \* what remains to be parsed
  submapkey,    \* the section being parsed
  saved,        \* the file holds what the object holds, as far as the code knows
  copies, restarts

vars == <<file, status, m_submaps, m_order, m_holdWrites, pc, input, submapkey,
          saved, copies, restarts>>

Comment == [kind |-> "comment", data |-> ""]
SkLine(sk) == [kind |-> "sk", data |-> sk]
VarLine(nm) == [kind |-> "var", data |-> nm]
VarText(nm, val) == [kind |-> "var", data |-> nm, value |-> val]
Cut == [kind |-> "cut", data |-> ""]

ok == status # "error"

\* The section that line i of a text or of the layout belongs to.
SectionAt(lines, i) ==
  LET S == {j \in 1 .. i : lines[j].kind = "sk"}
  IN  IF S = {} THEN Global ELSE lines[Max(S)].data

-----------------------------------------------------------------------------
(* Writing.                                                                *)

\* write(ostream): sections and variables that are gone are not output.
ShownWithoutComments(order, maps, i) ==
  \/ order[i].kind = "sk" /\ hasSubKey(maps, order[i].data)
  \/ /\ order[i].kind = "var"
     /\ getIn(maps, order[i].data, SectionAt(order, i)) # NoValue
ShownWithoutKeys(order, maps, i) ==
  \/ order[i].kind = "comment"
  \/ /\ order[i].kind = "var"
     /\ getIn(maps, order[i].data, SectionAt(order, i)) # NoValue
Shown(order, maps, i) ==
  \/ order[i].kind = "comment"
  \/ order[i].kind = "sk" /\ hasSubKey(maps, order[i].data)
  \/ /\ order[i].kind = "var"
     /\ getIn(maps, order[i].data, SectionAt(order, i)) # NoValue
\* The line it makes of a line of the layout.
Printed(order, maps, i) ==
  IF order[i].kind = "var"
  THEN VarText(order[i].data, getIn(maps, order[i].data, SectionAt(order, i)))
  ELSE order[i]

Output(order, maps) ==
  LET upTo[n \in 0 .. Len(order)] ==
        IF n = 0 THEN << >>
        ELSE IF Shown(order, maps, n)
             THEN Append(upTo[n - 1], Printed(order, maps, n))
             ELSE upTo[n - 1]
  IN  upTo[Len(order)]

\* write(), after what an operation changed in memory.
write(held) ==
  IF ok /\ ~held
  THEN file' = Output(m_order', m_submaps') /\ saved' = TRUE
  ELSE file' = file /\ saved' = FALSE

-----------------------------------------------------------------------------
(* Changing a variable in memory.                                          *)

\* The place in the layout where the variables of section sk start, and the line
\* of the next section or the end.
ZoneStart(order, sk) ==
  IF sk = Global THEN 1 ELSE 1 + Min({i \in DOMAIN order : order[i] = SkLine(sk)})
ZoneEnd(order, sk) ==
  Min({i \in ZoneStart(order, sk) .. Len(order) : order[i].kind = "sk"}
         \cup {Len(order) + 1})
InOrder(order, line) == \E i \in DOMAIN order : order[i] = line

\* A section made anew gets a line at the end of the layout, unless it has one
\* from before it was erased.
WithSk(order, sk) ==
  IF sk # Global /\ ~InOrder(order, SkLine(sk)) THEN Append(order, SkLine(sk))
                                                ELSE order

\* A new variable goes to the end of its section, unless its line is still there
\* from before it was erased.
WithVar(order, nm, sk) ==
  IF \E i \in ZoneStart(order, sk) .. ZoneEnd(order, sk) - 1 : order[i] = VarLine(nm)
  THEN order
  ELSE InsertAt(order, ZoneEnd(order, sk), VarLine(nm))

OrderAfterSet(nm, sk) ==
  IF getIn(m_submaps, nm, sk) # NoValue THEN m_order
  ELSE WithVar(IF hasSubKey(m_submaps, sk) THEN m_order ELSE WithSk(m_order, sk),
               nm, sk)

\* "This is not logically possible. The subkey must exist. We're doomed".
Doomed(nm, sk) ==
  /\ sk # Global
  /\ getIn(m_submaps, nm, sk) = NoValue
  /\ hasSubKey(m_submaps, sk)
  /\ ~InOrder(m_order, SkLine(sk))

-----------------------------------------------------------------------------
\* The constructors from a file: it cannot be opened, or is parsed.
Init ==
  /\ file \in Text
  /\ status \in {"error", "ro", "rw"}
  /\ m_submaps = EmptyMaps
  /\ m_order = <<>>
  /\ m_holdWrites = FALSE
  /\ pc = IF ok THEN "parse" ELSE "ready"
  /\ input = IF ok THEN file ELSE <<>>
  /\ submapkey = Global
  /\ saved = ok
  /\ copies = 0 /\ restarts = 0

\* One line of parseinput(). A section header only selects the section: its line
\* comes with its first variable.
ParseComment ==
  /\ Head(input).kind = "comment"
  /\ m_order' = Append(m_order, Head(input))
  /\ UNCHANGED <<m_submaps, submapkey>>
\* A comment that begins with #, a blank line or a header, without an end of line.
ParseCut ==
  /\ Head(input).kind = "cut"
  /\ UNCHANGED <<m_submaps, m_order, submapkey>>
ParseSection ==
  /\ Head(input).kind = "sk"
  /\ submapkey' = Head(input).data
  /\ UNCHANGED <<m_submaps, m_order>>
ParseVariableBare ==
  /\ Head(input).kind = "var"
  /\ m_submaps' = With(m_submaps, Head(input).data, Head(input).value, submapkey)
  /\ m_order' = Append(m_order, VarLine(Head(input).data))
  /\ UNCHANGED submapkey
ParseVariable ==
  /\ Head(input).kind = "var"
  /\ LET nm == Head(input).data
     IN  /\ m_submaps' = With(m_submaps, nm, Head(input).value, submapkey)
         /\ m_order' =
              IF getIn(m_submaps, nm, submapkey) # NoValue THEN m_order
              ELSE Append(IF hasSubKey(m_submaps, submapkey) THEN m_order
                          ELSE WithSk(m_order, submapkey), VarLine(nm))
  /\ UNCHANGED submapkey
parseinput ==
  /\ pc = "parse"
  /\ IF input = <<>>
     THEN /\ pc' = "ready"
          /\ UNCHANGED <<m_submaps, m_order, submapkey, input>>
     ELSE /\ ParseComment \/ ParseCut \/ ParseSection \/ ParseVariable
          /\ input' = Tail(input)
          /\ UNCHANGED pc
  /\ UNCHANGED <<file, status, m_holdWrites, saved, copies, restarts>>

\* Operations that find nothing to do leave the file and the object alone.
set(nm, val, sk) ==
  /\ pc = "ready" /\ status = "rw"
  /\ Len(m_order) + 2 =< IF copies + restarts = 0 THEN MaxLines ELSE FewLines
  /\ m_submaps' = With(m_submaps, nm, val, sk)
  /\ IF Doomed(nm, sk)
     THEN pc' = "aborted" /\ UNCHANGED <<m_order, file, saved>>
     ELSE /\ pc' = pc
          /\ m_order' = OrderAfterSet(nm, sk)
          /\ write(m_holdWrites)
  /\ UNCHANGED <<status, m_holdWrites, input, submapkey, copies, restarts>>

erase(nm, sk) ==
  /\ pc = "ready" /\ status = "rw"
  /\ hasSubKey(m_submaps, sk)
  /\ m_submaps' = Without(m_submaps, nm, sk)
  /\ m_order' = m_order
  /\ write(m_holdWrites)
  /\ UNCHANGED <<status, m_holdWrites, pc, input, submapkey, copies, restarts>>

\* eraseKey(): erase() of each name, which a read-only object refuses, then
\* write(), which it does not.
eraseKey(sk) ==
  /\ pc = "ready" /\ ok
  /\ m_submaps' = IF status = "rw" THEN WithoutKey(m_submaps, sk) ELSE m_submaps
  /\ m_order' = m_order
  /\ write(m_holdWrites)
  /\ UNCHANGED <<status, m_holdWrites, pc, input, submapkey, copies, restarts>>

holdWrites(on) ==
  /\ pc = "ready"
  /\ m_holdWrites' = on
  /\ UNCHANGED <<m_submaps, m_order>>
  /\ IF on THEN UNCHANGED <<file, saved>> ELSE write(FALSE)
  /\ UNCHANGED <<status, pc, input, submapkey, copies, restarts>>

\* reparse(text): the file is not written. Bound: before a restart.
reparse(text) ==
  /\ pc = "ready" /\ ok /\ restarts = 0
  /\ m_submaps' = EmptyMaps
  /\ m_order' = <<>>
  /\ pc' = "parse"
  /\ input' = text
  /\ submapkey' = Global
  /\ saved' = FALSE
  /\ UNCHANGED <<file, status, m_holdWrites, copies, restarts>>

\* The copy constructor copies neither the layout nor m_holdWrites, which stays
\* uninitialised. Bound: it is copied while its file is one of Text.
Copy ==
  /\ pc = "ready" /\ ok /\ copies < MaxCopies /\ file \in Text
  /\ copies' = copies + 1
  /\ m_order' = <<>>
  /\ m_holdWrites' \in BOOLEAN
  /\ UNCHANGED <<file, status, m_submaps, pc, input, submapkey, saved, restarts>>

\* What a line may become when the text ends anywhere in it: a variable cut in its
\* name has no equal sign and is a comment, one cut later has an end of its value
\* missing, or all of it.
CutShort(line) ==
  CASE line.kind = "var" -> {Comment} \cup {VarText(line.data, val) :
                                             val \in Truncated[line.value]}
    [] line.kind = "comment" -> {Comment, Cut}
    [] OTHER -> {Cut}

\* The program is killed in a write, which truncates the file, and is started again:
\* it finds a beginning of what it was writing, cut anywhere, as the stream passes
\* variables on when its buffer is full.
Killed ==
  /\ pc = "ready" /\ ok /\ restarts < MaxRestarts
  /\ restarts' = restarts + 1
  /\ LET lines == Output(m_order, m_submaps)
     IN  \E n \in 0 .. Len(lines) :
           \/ file' = SubSeq(lines, 1, n)
           \/ /\ n < Len(lines)
              /\ \E end \in CutShort(lines[n + 1]) :
                   file' = Append(SubSeq(lines, 1, n), end)
  /\ status' \in {"ro", "rw"}
  /\ m_submaps' = EmptyMaps /\ m_order' = <<>> /\ m_holdWrites' = FALSE
  /\ pc' = "parse" /\ input' = file' /\ submapkey' = Global
  /\ saved' = TRUE
  /\ copies' = 0

Next ==
  \/ parseinput
  \/ \E nm \in Name, sk \in Subkey :
       (\E val \in Settable : set(nm, val, sk)) \/ erase(nm, sk)
  \/ \E sk \in Subkey : eraseKey(sk)
  \/ \E on \in BOOLEAN : holdWrites(on)
  \/ \E text \in Text : reparse(text)
  \/ Copy
  \/ Killed

Spec == Init /\ [][Next]_vars

-----------------------------------------------------------------------------
Line == {Comment, Cut} \cup {SkLine(sk) : sk \in Subkey \ {Global}}
        \cup {VarText(nm, val) : nm \in Name, val \in Value}
OrderLine == {Comment} \cup {SkLine(sk) : sk \in Subkey \ {Global}}
             \cup {VarLine(nm) : nm \in Name}

\* No section starts twice.
SectionsOnce(lines) ==
  \A i, j \in 1 .. Len(lines) :
    lines[i].kind = "sk" /\ lines[i] = lines[j] => i = j

\* In a file with a section that starts twice, with another one between, parsing
\* puts the variables of the second start under the other section in m_order
\* (conftree.cpp:434), and the next write loses them: such files are left out.
ASSUME ConfSimpleAssumption ==
  /\ \A text \in Text : text \in Seq(Line) /\ SectionsOnce(text)
  /\ \A text \in Text : \A i \in 1 .. Len(text) - 1 : text[i] # Cut
  /\ Settable \subseteq Value
  /\ Truncated \in [Value -> SUBSET Value]
  /\ MaxCopies \in Nat /\ MaxRestarts \in Nat

TypeOK ==
  /\ file \in Seq(Line) /\ input \in Seq(Line)
  /\ status \in {"error", "ro", "rw"}
  /\ m_submaps \in Maps
  /\ m_order \in Seq(OrderLine)
  /\ m_holdWrites \in BOOLEAN /\ saved \in BOOLEAN
  /\ pc \in {"parse", "ready", "aborted"}
  /\ submapkey \in Subkey
  /\ copies \in 0 .. MaxCopies /\ restarts \in 0 .. MaxRestarts

\* What a text says: the last line for a name in a section counts.
Says(text, nm, sk) ==
  LET L == {i \in DOMAIN text : /\ text[i].kind = "var" /\ text[i].data = nm
                                /\ SectionAt(text, i) = sk}
  IN  IF L = {} THEN NoValue ELSE text[Max(L)].value

\* The properties below are about an object made from a file or a text. A copy has
\* lost its layout, and keeps none of them.
original == copies = 0

\* The file says what the object holds, after parsing it and after every write:
\* nothing that was set is lost or comes back when the program is started again.
FileSaysIt ==
  original /\ saved /\ pc = "ready" =>
    \A nm \in Name, sk \in Subkey : Says(file, nm, sk) = getIn(m_submaps, nm, sk)

\* Every section that has a variable has its line in the layout, which set() and
\* write() rely on.
SubkeysInOrder ==
  original => \A sk \in Subkey \ {Global} :
    hasSubKey(m_submaps, sk) => InOrder(m_order, SkLine(sk))

\* conftree.cpp:450 "This is not logically possible. The subkey must exist": set()
\* never aborts the program, on an object that was not copied.
NeverDoomed == original => pc # "aborted"

\* A variable is written once: reading the file back cannot find an older value.
WrittenOnce ==
  original /\ saved /\ pc = "ready" =>
    \A i, j \in DOMAIN m_order :
      /\ m_order[i].kind = "var" /\ m_order[i] = m_order[j]
      /\ SectionAt(m_order, i) = SectionAt(m_order, j)
      => i = j

\* The layout fits the values, in well-typed states, over any sequence of calls.
LayoutFits == TypeOK /\ SubkeysInOrder /\ NeverDoomed /\ WrittenOnce

\* conftree.h:279: the comments written by hand survive every rewriting, once they
\* were read: of a file that ends in one without an end of line it is not (Cut).
CommentPlaces(lines) == {i \in 1 .. Len(lines) : lines[i].kind = "comment"}
Comments(lines) == Cardinality(CommentPlaces(lines))
KeepsComments ==
  [][original /\ {pc, pc'} = {"ready"} /\ saved /\ saved' =>
       Comments(file') = Comments(file)]_vars

\* The last line of a text is variable nm of section sk.
EndsIn(text, nm, sk) ==
  /\ text # <<>> /\ Last(text).kind = "var" /\ Last(text).data = nm
  /\ SectionAt(text, Len(text)) = sk

\* conftree.cpp:549 truncates the file it rewrites. A crash then loses values, and
\* leaves others what they were and under their names, but for the last one left,
\* which may be a beginning of what it was and which nothing tells from a whole one.
CrashLosesEnd ==
  [][Killed /\ original =>
       \A nm \in Name, sk \in Subkey :
         LET held == getIn(m_submaps, nm, sk)
             found == Says(file', nm, sk)
         IN  \/ found \in {NoValue, held}
             \/ held # NoValue /\ found \in Truncated[held] /\ EndsIn(file', nm, sk)]_vars
=============================================================================
