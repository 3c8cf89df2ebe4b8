------------------------------ MODULE HttpRange ------------------------------
(***************************************************************************)
(* The Range header of an HTTP request: parseRanges() of                   *)
(* src/sc2src/httpgate.cpp and what answer_to_connection() makes of it.    *)
(* The text after "bytes=" is a sequence of numbers, dashes and commas; a  *)
(* header without "bytes=" is as no header.                                *)
(***************************************************************************)
EXTENDS Integers, Sequences

Dash == -1
Comma == -2
Npos == 0       \* the code's npos: positions start at 1

Unknown == -1   \* MHD_SIZE_UNKNOWN

\* The first place of c in s at or after pos.
find(s, c, pos) ==
  IF \E i \in pos .. Len(s) : s[i] = c
  THEN CHOOSE i \in pos .. Len(s) : s[i] = c /\ \A j \in pos .. i - 1 : s[j] # c
  ELSE Npos

\* A text that does not start with a number is 0.
atoi(part) == IF part = <<>> \/ part[1] < 0 THEN 0 ELSE part[1]

FirstPart(s, pos, dash) == IF dash = Npos THEN <<>> ELSE SubSeq(s, pos, dash - 1)

\* A comma before the dash makes the length negative: the rest of the text.
SecondPartToEnd(s, dash, comma) ==
  IF dash = Npos THEN <<>> ELSE SubSeq(s, dash + 1, Len(s))
SecondPart(s, dash, comma) ==
  IF dash = Npos THEN <<>>
  ELSE SubSeq(s, dash + 1, IF comma > dash THEN comma - 1 ELSE Len(s))

\* The end of a range is read from the first part too, as the code does.
RangeAt(s, pos) ==
  LET dash == find(s, Dash, pos)
      comma == find(s, Comma, pos)
      first == FirstPart(s, pos, dash)
  IN  <<atoi(first), IF SecondPart(s, dash, comma) = <<>> THEN -1 ELSE atoi(first)>>

parseRanges(s) ==
  LET from[pos \in 1 .. Len(s) + 1] ==
        LET comma == find(s, Comma, pos)
        IN  <<RangeAt(s, pos)>> \o (IF comma = Npos THEN <<>> ELSE from[comma + 1])
  IN  from[1]

\* Only the first range is used.
answer(ranges) ==
  [baseoffset |-> ranges[1][1],
   size |-> IF ranges[1][2] # -1 THEN ranges[1][2] - ranges[1][1] + 1 ELSE Unknown]
=============================================================================
