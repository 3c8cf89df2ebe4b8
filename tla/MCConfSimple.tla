---- MODULE MCConfSimple ----
EXTENDS ConfSimple
CONSTANTS a, b, x, y, v, w, e
A == SkLine(a)
B == SkLine(b)
X == VarText(x, v)
Y == VarText(y, v)
\* Files as a person writes them: comments, a global part, sections, a section
\* without variables, a variable given twice, a last line without its end.
Sectioned == {<<Comment, X, A, Y, B, X, X>>, <<A, Comment, B, Y, Cut>>}
\* Also one with two values for a variable.
Files == Sectioned \cup {<<X, Comment, A, X, VarText(x, w), Y>>}
\* v begins with w, and e is the empty value.
Beginnings == [val \in Value |-> IF val = v THEN {v, w, e} ELSE {val, e}]
====
