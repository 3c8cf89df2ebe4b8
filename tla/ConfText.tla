------------------------------- MODULE ConfText ------------------------------
(***************************************************************************)
(* The text of a configuration file (src/sc2src/conftree.cpp): how class   *)
(* ConfSimple reads lines, joins those that end with a backslash, trims    *)
(* them and finds the variables, and how it writes long values over        *)
(* several lines.                                                          *)
(*                                                                         *)
(* A text is a sequence of characters, of which those below have a meaning *)
(* to the code.  An item is a comment, with an empty name, or a variable.  *)
(* Sections, and which items are kept, are the subject of ConfSimple.      *)
(***************************************************************************)
EXTENDS Integers, Sequences, SequencesExt, FiniteSetsExt

CONSTANTS
  Chunk,     \* characters of a value on one line (60)
  LL         \* size of the buffer for a line (2048)

ASSUME ConfTextAssumption == Chunk \in Nat \ {0} /\ LL \in Nat /\ LL >= 2

EndLine == "\n"
Blank == " "
Backslash == "\\"
Hash == "#"
Equals == "="

CommentItem(line) == [nm |-> <<>>, val |-> line]
VarItem(nm, val) == [nm |-> nm, val |-> val]

EndsWith(s, char) == s # <<>> /\ Last(s) = char

trimstring(s) ==
  LET kept == {i \in DOMAIN s : s[i] # Blank}
  IN  IF kept = {} THEN <<>> ELSE SubSeq(s, Min(kept), Max(kept))

-----------------------------------------------------------------------------
(* Reading.                                                                *)

\* istream::getline with a buffer of LL - 1 fails on a line that does not fit, and
\* the code takes any failure that is not bad() for the end of the file; so is what
\* follows the last end of line. After it each call gives an empty line: there are
\* as many here as the backslashes at the end of the file can ask for.
getline(text) ==
  LET Put(r, char) ==
        CASE r.cut -> r
          [] ~r.cut /\ char = EndLine -> [r EXCEPT !.lines = Append(@, r.cur), !.cur = <<>>]
          [] ~r.cut /\ char # EndLine /\ Len(r.cur) = LL - 2 -> [r EXCEPT !.cut = TRUE]
          [] OTHER -> [r EXCEPT !.cur = Append(@, char)]
      read == FoldLeft(Put, [lines |-> <<>>, cur |-> <<>>, cut |-> FALSE], text)
  IN  [i \in DOMAIN read.lines |-> [text |-> read.lines[i], eof |-> FALSE]]
      \o <<[text |-> read.cur, eof |-> TRUE]>>
      \o [i \in 1 .. Len(text) + 1 |-> [text |-> <<>>, eof |-> TRUE]]

\* The backslash goes and what was before it stays, blanks too, to be continued.
UnfinishedTrimmed(line) == trimstring(Front(line))
Unfinished(line) == Front(line)

\* One turn of the loop of parseinput(). st.line is what the lines so far are
\* joined to.
Turn(st, cline) ==
  LET line == trimstring(IF st.appending THEN st.line \o cline.text ELSE cline.text)
      signs == {i \in DOMAIN line : line[i] = Equals}
      nm == trimstring(SubSeq(line, 1, Min(signs) - 1))
      val == trimstring(SubSeq(line, Min(signs) + 1, Len(line)))
      next == [st EXCEPT !.line = line]
      comment == Append(st.items, CommentItem(line))
  IN  CASE st.done -> st
        [] ~st.done /\ (line = <<>> \/ line[1] = Hash) ->
             IF cline.eof THEN [next EXCEPT !.done = TRUE]
                          ELSE [next EXCEPT !.items = comment]
        [] ~st.done /\ EndsWith(line, Backslash) /\ line[1] # Hash ->
             [next EXCEPT !.line = Unfinished(line), !.appending = TRUE]
        [] OTHER ->
             IF signs = {} \/ nm = <<>>
             THEN [next EXCEPT !.appending = FALSE, !.items = comment]
             ELSE [next EXCEPT !.appending = FALSE, !.done = cline.eof,
                               !.items = Append(@, VarItem(nm, val))]

readItems(text) ==
  FoldLeft(Turn, [line |-> <<>>, appending |-> FALSE, items |-> <<>>, done |-> FALSE],
           getline(text)).items

-----------------------------------------------------------------------------
(* Writing.                                                                *)

\* A value of Chunk characters or more is cut, each piece but the last continued.
Pieces(val) ==
  LET count == (Len(val) + Chunk - 1) \div Chunk
      Piece(k) == SubSeq(val, (k - 1) * Chunk + 1, k * Chunk)
  IN  FlattenSeq([k \in 1 .. count |->
        IF k < count THEN Piece(k) \o <<Backslash, EndLine>>
                     ELSE SubSeq(val, (k - 1) * Chunk + 1, Len(val))])
varprinter(nm, val) == nm \o <<Blank, Equals, Blank>> \o Pieces(val) \o <<EndLine>>

\* A variable is held once, at its first place with its last value.
Held(items) ==
  LET Same(i) == {j \in DOMAIN items : items[j].nm = items[i].nm}
      kept == SelectSeq([i \in DOMAIN items |-> i],
                        LAMBDA i : items[i].nm = <<>> \/ i = Min(Same(i)))
  IN  [k \in DOMAIN kept |->
         IF items[kept[k]].nm = <<>> THEN items[kept[k]]
                                     ELSE items[Max(Same(kept[k]))]]
writeItems(items) ==
  FlattenSeq([i \in DOMAIN items |->
    IF items[i].nm = <<>> THEN items[i].val \o <<EndLine>>
                          ELSE varprinter(items[i].nm, items[i].val)])
=============================================================================
