-------------------------- MODULE ConfSimpleProofs --------------------------
(***************************************************************************)
(* Proofs about ConfSimple, for every set of sections, names, values and   *)
(* files in which no section starts twice: the file says what the object   *)
(* holds, the layout fits the values, comments survive, and a crash in a   *)
(* write only loses values.                                                *)
(***************************************************************************)
EXTENDS ConfSimple, FiniteSetTheorems, WellFoundedInduction, TLAPS

-----------------------------------------------------------------------------
(* Naturals.                                                               *)

\* A set of naturals has its Min.
LEMMA MinIs ==
  ASSUME NEW S \in SUBSET Nat, S # {}
  PROVE  Min(S) \in S /\ \A y \in S : Min(S) =< y
<1> DEFINE Less == {p \in Nat \X Nat : p[1] < p[2]}
<1>1. Less = OpToRel(<, Nat)
  BY Zenon DEF OpToRel
<1>2. IsWellFoundedOn(Less, Nat)
  BY <1>1, NatLessThanWellFounded, Zenon
<1>3. PICK m \in S : \A y \in S : ~ (<<y, m>> \in Less)
  <2> HIDE DEF Less
  <2> QED BY <1>2, WFMin, Zenon
<1>4. \A y \in S : m =< y
  <2> TAKE y \in S
  <2>1. ~ (<<y, m>> \in Less)
    BY <1>3, Zenon
  <2>2. y \in Nat /\ m \in Nat
    OBVIOUS
  <2>3. <<y, m>> \in Less <=> y < m
    BY <2>2
  <2> HIDE DEF Less
  <2> QED BY <2>1, <2>2, <2>3
<1> QED BY <1>4 DEF Min

\* A set of places has its Max.
LEMMA MaxIs ==
  ASSUME NEW n \in Nat, NEW S \in SUBSET (1 .. n), S # {}
  PROVE  Max(S) \in S /\ \A y \in S : y =< Max(S)
<1> DEFINE T == {n - y : y \in S}
<1>0. \A y \in S : y \in 1 .. n /\ n - y \in Nat
  <2> TAKE y \in S
  <2>1. y \in 1 .. n
    OBVIOUS
  <2> QED BY <2>1
<1>1. T \in SUBSET Nat /\ T # {}
  <2> HIDE DEF T
  <2>1. \A t \in T : t \in Nat
    BY <1>0 DEF T
  <2>2. \E t : t \in T
    BY DEF T
  <2> QED BY <2>1, <2>2
<1>2. PICK m \in S : Min(T) = n - m
  BY <1>1, MinIs
<1>3. \A y \in S : n - m =< n - y
  <2> TAKE y \in S
  <2>1. n - y \in T
    OBVIOUS
  <2> HIDE DEF T
  <2> QED BY <1>1, <1>2, <2>1, MinIs
<1>4. \A y \in S : m >= y
  BY <1>3
<1>5. Max(S) \in S /\ \A y \in S : Max(S) >= y
  BY <1>4 DEF Max
<1> QED BY <1>5

\* What holds at 0 and passes from each number to the next holds up to n.
LEMMA Climbs ==
  ASSUME NEW n \in Nat, NEW G, 0 \in G,
         \A k \in 0 .. n - 1 : k \in G => k + 1 \in G
  PROVE  \A k \in 0 .. n : k \in G
<1> DEFINE Bad == {k \in 0 .. n : k \notin G}
<1>1. SUFFICES ASSUME Bad # {} PROVE FALSE
  OBVIOUS
<1>2. Bad \in SUBSET Nat
  OBVIOUS
<1>3. Min(Bad) \in Bad /\ \A y \in Bad : Min(Bad) =< y
  BY <1>1, <1>2, MinIs
<1> DEFINE m == Min(Bad)
<1> HIDE DEF m
<1>4. m \in 0 .. n /\ m \notin G /\ \A y \in Bad : m =< y
  BY <1>3 DEF m
<1>5. m # 0
  BY <1>4
<1>6. m - 1 \in 0 .. n - 1 /\ m - 1 \in 0 .. n /\ m - 1 + 1 = m
  BY <1>4, <1>5
<1>7. m - 1 \in G
  BY <1>4, <1>6
<1> QED BY <1>4, <1>6, <1>7

-----------------------------------------------------------------------------
(* Lines and sections.                                                     *)

AnyLine == Line \cup OrderLine

\* A line is known by its kind and its data.
LEMMA LineKinds ==
  ASSUME NEW l \in AnyLine
  PROVE  /\ l.kind \in {"comment", "cut", "sk", "var"}
         /\ l \in OrderLine => l.kind # "cut"
         /\ l.kind = "comment" => l = Comment
         /\ l.kind = "sk" => l.data \in Subkey \ {Global} /\ l = SkLine(l.data)
         /\ l.kind = "var" => l.data \in Name
         /\ l \in OrderLine /\ l.kind = "var" => l = VarLine(l.data)
         /\ l \in Line /\ l.kind = "var" =>
              l.value \in Value /\ l = VarText(l.data, l.value)
<1>1. CASE l = Comment
  <2>1. l.kind = "comment"
    BY <1>1 DEF Comment
  <2> QED BY <1>1, <2>1
<1>2. CASE \E sk \in Subkey \ {Global} : l = SkLine(sk)
  <2>1. PICK sk \in Subkey \ {Global} : l = SkLine(sk)
    BY <1>2
  <2>2. l.kind = "sk" /\ l.data = sk
    BY <2>1 DEF SkLine
  <2> QED BY <2>1, <2>2
<1>3. CASE \E nm \in Name, val \in Value : l = VarText(nm, val)
  <2>1. PICK nm \in Name, val \in Value : l = VarText(nm, val)
    BY <1>3
  <2>2. l.kind = "var" /\ l.data = nm /\ l.value = val
    BY <2>1 DEF VarText
  <2>3. l \notin OrderLine \/ l = VarLine(l.data)
    <3>1. l # Comment
      <4>1. Comment.kind = "comment"
        BY DEF Comment
      <4> QED BY <2>2, <4>1
    <3>2. \A sk \in Subkey \ {Global} : l # SkLine(sk)
      BY <2>2 DEF SkLine
    <3>3. \A m \in Name : l = VarLine(m) => l = VarLine(l.data)
      BY DEF VarLine
    <3> QED BY <3>1, <3>2, <3>3 DEF OrderLine
  <2> QED BY <2>1, <2>2, <2>3
<1>4. CASE \E nm \in Name : l = VarLine(nm)
  <2>1. PICK nm \in Name : l = VarLine(nm)
    BY <1>4
  <2>2. l.kind = "var" /\ l.data = nm
    BY <2>1 DEF VarLine
  <2>3. l \in Line => l.value \in Value /\ l = VarText(l.data, l.value)
    <3>1. l # Comment /\ l # Cut
      <4>1. Comment.kind = "comment" /\ Cut.kind = "cut"
        BY DEF Comment, Cut
      <4> QED BY <2>2, <4>1
    <3>2. \A sk \in Subkey \ {Global} : l # SkLine(sk)
      BY <2>2 DEF SkLine
    <3>3. \A m \in Name, val \in Value : l = VarText(m, val) =>
             l.value \in Value /\ l = VarText(l.data, l.value)
      BY DEF VarText
    <3> QED BY <3>1, <3>2, <3>3 DEF Line
  <2> QED BY <2>1, <2>2, <2>3
<1>5. CASE l = Cut
  <2>1. l.kind = "cut"
    BY <1>5 DEF Cut
  <2>2. l \notin OrderLine
    <3>1. Comment.kind = "comment" /\ \A sk : SkLine(sk).kind = "sk"
      BY DEF Comment, SkLine
    <3>2. \A nm : VarLine(nm).kind = "var"
      BY DEF VarLine
    <3> QED BY <2>1, <3>1, <3>2 DEF OrderLine
  <2> QED BY <2>1, <2>2
<1> QED BY <1>1, <1>2, <1>3, <1>4, <1>5 DEF AnyLine, Line, OrderLine

\* A header at j and none after it up to i give the section of i.
LEMMA SectionIs ==
  ASSUME NEW lines, NEW i \in Nat, NEW j \in 1 .. i, lines[j].kind = "sk",
         \A k \in 1 .. i : lines[k].kind = "sk" => k =< j
  PROVE  SectionAt(lines, i) = lines[j].data
<1> DEFINE S == {k \in 1 .. i : lines[k].kind = "sk"}
<1>1. S \in SUBSET (1 .. i) /\ j \in S
  OBVIOUS
<1>2. Max(S) \in S /\ \A y \in S : y =< Max(S)
  BY <1>1, MaxIs
<1>3. Max(S) = j
  BY <1>1, <1>2
<1> QED BY <1>1, <1>3 DEF SectionAt

\* Without a header up to i it is the global section.
LEMMA SectionGlobal ==
  ASSUME NEW lines, NEW i, \A k \in 1 .. i : lines[k].kind # "sk"
  PROVE  SectionAt(lines, i) = Global
BY DEF SectionAt

\* One of the two holds.
LEMMA SectionCases ==
  ASSUME NEW lines, NEW i \in Nat
  PROVE  \/ /\ \A k \in 1 .. i : lines[k].kind # "sk"
            /\ SectionAt(lines, i) = Global
         \/ \E j \in 1 .. i :
              /\ lines[j].kind = "sk"
              /\ \A k \in 1 .. i : lines[k].kind = "sk" => k =< j
              /\ SectionAt(lines, i) = lines[j].data
<1> DEFINE S == {k \in 1 .. i : lines[k].kind = "sk"}
<1>1. CASE S = {}
  BY <1>1, SectionGlobal
<1>2. CASE S # {}
  <2>1. S \in SUBSET (1 .. i)
    OBVIOUS
  <2>2. Max(S) \in S /\ \A y \in S : y =< Max(S)
    BY <1>2, <2>1, MaxIs
  <2>3. \A k \in 1 .. i : lines[k].kind = "sk" => k =< Max(S)
    BY <2>2
  <2>4. SectionAt(lines, i) = lines[Max(S)].data
    BY <2>2, <2>3, SectionIs
  <2> QED BY <2>2, <2>3, <2>4
<1> QED BY <1>1, <1>2

\* The section of a line depends on what is up to it.
LEMMA SectionSame ==
  ASSUME NEW lines, NEW others, NEW i \in Nat,
         \A k \in 1 .. i : others[k] = lines[k]
  PROVE  SectionAt(others, i) = SectionAt(lines, i)
<1>1. {j \in 1 .. i : others[j].kind = "sk"} = {j \in 1 .. i : lines[j].kind = "sk"}
  OBVIOUS
<1>2. CASE {j \in 1 .. i : lines[j].kind = "sk"} = {}
  BY <1>1, <1>2, Zenon DEF SectionAt
<1>3. CASE {j \in 1 .. i : lines[j].kind = "sk"} # {}
  <2>1. Max({j \in 1 .. i : lines[j].kind = "sk"}) \in 1 .. i
    BY <1>3, MaxIs
  <2>2. others[Max({j \in 1 .. i : lines[j].kind = "sk"})]
          = lines[Max({j \in 1 .. i : lines[j].kind = "sk"})]
    BY <2>1, Zenon
  <2> QED BY <1>1, <1>3, <2>2, Zenon DEF SectionAt
<1> QED BY <1>2, <1>3, Zenon

\* A header changes the section, another line does not.
LEMMA SectionNext ==
  ASSUME NEW lines, NEW i \in Nat
  PROVE  SectionAt(lines, i + 1)
           = IF lines[i + 1].kind = "sk" THEN lines[i + 1].data ELSE SectionAt(lines, i)
<1>1. CASE lines[i + 1].kind = "sk"
  <2>1. SectionAt(lines, i + 1) = lines[i + 1].data
    BY <1>1, SectionIs
  <2> QED BY <1>1, <2>1
<1>2. CASE lines[i + 1].kind # "sk"
  <2>1. {j \in 1 .. i + 1 : lines[j].kind = "sk"} = {j \in 1 .. i : lines[j].kind = "sk"}
    BY <1>2
  <2> QED BY <1>2, <2>1, Zenon DEF SectionAt
<1> QED BY <1>1, <1>2

\* Sections are Subkey.
LEMMA SectionType ==
  ASSUME NEW lines \in Seq(AnyLine), NEW i \in 0 .. Len(lines)
  PROVE  SectionAt(lines, i) \in Subkey
<1>1. \A j \in 1 .. i : lines[j] \in AnyLine
  OBVIOUS
<1>2. \A j \in 1 .. i : lines[j].kind = "sk" => lines[j].data \in Subkey
  BY <1>1, LineKinds, Zenon
<1>3. i \in Nat
  OBVIOUS
<1> QED BY <1>2, <1>3, SectionCases, ConfMapAssumption, Zenon

-----------------------------------------------------------------------------
(* What is written.                                                        *)

\* The function that Output computes line by line.
Writes(upTo, order, maps, last) ==
  upTo = [n \in 0 .. last |->
            IF n = 0 THEN << >>
            ELSE IF Shown(order, maps, n)
                 THEN Append(upTo[n - 1], Printed(order, maps, n))
                 ELSE upTo[n - 1]]

\* Its value after one more line.
LEMMA WritesNext ==
  ASSUME NEW u, NEW order, NEW maps, NEW last \in Nat, Writes(u, order, maps, last),
         NEW n \in 1 .. last
  PROVE  u[n] = IF Shown(order, maps, n)
                THEN Append(u[n - 1], Printed(order, maps, n))
                ELSE u[n - 1]
<1>1. n \in 0 .. last /\ n # 0
  OBVIOUS
<1> QED BY <1>1 DEF Writes

\* There is one, for any number of lines.
LEMMA WritesExists ==
  ASSUME NEW order, NEW maps, NEW last \in Nat
  PROVE  \E upTo : Writes(upTo, order, maps, last)
<1> DEFINE G == {n \in 0 .. last : \E upTo : Writes(upTo, order, maps, n)}
<1>1. 0 \in G
  <2> DEFINE f == [n \in 0 .. 0 |-> << >>]
  <2>1. \A n \in 0 .. 0 : n = 0
    OBVIOUS
  <2>2. Writes(f, order, maps, 0)
    BY <2>1 DEF Writes
  <2>3. 0 \in 0 .. last
    OBVIOUS
  <2> HIDE DEF f
  <2> QED BY <2>2, <2>3
<1>2. ASSUME NEW k \in 0 .. last - 1, k \in G PROVE k + 1 \in G
  <2>1. PICK f : Writes(f, order, maps, k)
    BY <1>2
  <2> DEFINE g == [n \in 0 .. k + 1 |->
                     IF n = k + 1
                     THEN IF Shown(order, maps, n)
                          THEN Append(f[n - 1], Printed(order, maps, n))
                          ELSE f[n - 1]
                     ELSE f[n]]
  <2> DEFINE h == [n \in 0 .. k + 1 |->
                     IF n = 0 THEN << >>
                     ELSE IF Shown(order, maps, n)
                          THEN Append(g[n - 1], Printed(order, maps, n))
                          ELSE g[n - 1]]
  <2>2. ASSUME NEW n \in 0 .. k + 1 PROVE g[n] = h[n]
    <3>1. CASE n = k + 1
      <4>1. n - 1 \in 0 .. k + 1 /\ n - 1 # k + 1 /\ n # 0
        BY <3>1
      <4>2. g[n - 1] = f[n - 1]
        BY <4>1
      <4> QED BY <3>1, <4>1, <4>2
    <3>2. CASE n # k + 1
      <4>1. n \in 0 .. k
        BY <3>2
      <4>2. g[n] = f[n]
        BY <3>2
      <4>3. CASE n = 0
        <5>1. f[n] = << >>
          BY <2>1, <4>1, <4>3 DEF Writes
        <5>2. h[n] = << >>
          BY <4>3
        <5> QED BY <4>2, <5>1, <5>2
      <4>4. CASE n # 0
        <5>1. n - 1 \in 0 .. k + 1 /\ n - 1 # k + 1
          BY <4>1, <4>4
        <5>2. g[n - 1] = f[n - 1]
          BY <5>1
        <5>3. f[n] = IF Shown(order, maps, n)
                     THEN Append(f[n - 1], Printed(order, maps, n))
                     ELSE f[n - 1]
          <6>1. k \in Nat /\ n \in 1 .. k
            BY <4>1, <4>4
          <6> QED BY <2>1, <6>1, WritesNext, Zenon
        <5>4. h[n] = IF Shown(order, maps, n)
                     THEN Append(g[n - 1], Printed(order, maps, n))
                     ELSE g[n - 1]
          BY <4>4
        <5> HIDE DEF g, h
        <5> QED BY <4>2, <5>2, <5>3, <5>4, Zenon
      <4> QED BY <4>3, <4>4
    <3> QED BY <3>1, <3>2
  <2>3. g = [n \in 0 .. k + 1 |-> g[n]] /\ h = [n \in 0 .. k + 1 |-> h[n]]
    OBVIOUS
  <2>4. g = h
    <3> HIDE DEF g, h
    <3> QED BY <2>2, <2>3
  <2>5. Writes(g, order, maps, k + 1)
    <3>1. Writes(g, order, maps, k + 1) <=> g = h
      <4> HIDE DEF g
      <4> QED BY Zenon DEF Writes
    <3> QED BY <2>4, <3>1, Zenon
  <2>6. k + 1 \in 0 .. last
    OBVIOUS
  <2> HIDE DEF g, h
  <2> QED BY <2>5, <2>6
<1>3. last \in 0 .. last
  OBVIOUS
<1>4. \A k \in 0 .. last : k \in G
  <2> HIDE DEF G
  <2> QED BY <1>1, <1>2, Climbs, Zenon
<1>5. last \in G
  BY <1>3, <1>4, Zenon
<1> QED BY <1>5

\* Output is the last value of such a function.
LEMMA OutputWrites ==
  ASSUME NEW order \in Seq(OrderLine), NEW maps
  PROVE  \E upTo : /\ Writes(upTo, order, maps, Len(order))
                   /\ Output(order, maps) = upTo[Len(order)]
<1> DEFINE u == CHOOSE upTo : Writes(upTo, order, maps, Len(order))
<1>1. Len(order) \in Nat
  OBVIOUS
<1>2. Writes(u, order, maps, Len(order))
  BY <1>1, WritesExists, Zenon
<1>3. Output(order, maps) = u[Len(order)]
  BY Zenon DEF Output, Writes
<1> HIDE DEF u
<1> QED BY <1>2, <1>3, Zenon

\* What is printed of a line of the layout that is shown.
LEMMA PrintedLine ==
  ASSUME NEW order \in Seq(OrderLine), NEW maps \in Maps,
         NEW i \in 1 .. Len(order), Shown(order, maps, i)
  PROVE  /\ Printed(order, maps, i) \in Line
         /\ Printed(order, maps, i).kind = order[i].kind
         /\ Printed(order, maps, i).data = order[i].data
         /\ order[i].kind = "var" =>
              /\ getIn(maps, order[i].data, SectionAt(order, i)) # NoValue
              /\ Printed(order, maps, i).value
                   = getIn(maps, order[i].data, SectionAt(order, i))
<1>1. order[i] \in OrderLine /\ order[i] \in AnyLine
  BY DEF AnyLine
<1>2. CASE order[i].kind = "var"
  <2>1. order[i].data \in Name
    BY <1>1, <1>2, LineKinds
  <2>2. order \in Seq(AnyLine) /\ i \in 0 .. Len(order)
    BY DEF AnyLine
  <2>3. SectionAt(order, i) \in Subkey
    BY <2>2, SectionType
  <2>4. getIn(maps, order[i].data, SectionAt(order, i)) # NoValue
    BY <1>2 DEF Shown
  <2>5. getIn(maps, order[i].data, SectionAt(order, i)) \in Value
    BY <2>1, <2>3, <2>4 DEF Maps, getIn
  <2>6. Printed(order, maps, i)
          = VarText(order[i].data, getIn(maps, order[i].data, SectionAt(order, i)))
    BY <1>2 DEF Printed
  <2>7. VarText(order[i].data, getIn(maps, order[i].data, SectionAt(order, i))) \in Line
    BY <2>1, <2>5 DEF Line
  <2> QED BY <1>2, <2>4, <2>6, <2>7 DEF VarText
<1>3. CASE order[i].kind # "var"
  <2>1. Printed(order, maps, i) = order[i]
    BY <1>3 DEF Printed
  <2>2. order[i] \in Line
    <3>1. order[i].kind = "comment" \/ order[i].kind = "sk"
      BY <1>1, <1>3, LineKinds
    <3>2. order[i] = Comment
          \/ (order[i].data \in Subkey \ {Global} /\ order[i] = SkLine(order[i].data))
      BY <1>1, <3>1, LineKinds
    <3> QED BY <3>2 DEF Line
  <2> QED BY <1>3, <2>1, <2>2
<1> QED BY <1>2, <1>3

\* The lines of out are the printed lines of the first n that are shown, e[k] being
\* the place line k comes from.
Picks(e, out, order, maps, n) ==
  /\ e \in [1 .. Len(out) -> 1 .. n]
  /\ \A k \in 1 .. Len(out) :
       Shown(order, maps, e[k]) /\ out[k] = Printed(order, maps, e[k])
  /\ \A k, l \in 1 .. Len(out) : k < l => e[k] < e[l]
  /\ \A i \in 1 .. n : Shown(order, maps, i) => \E k \in 1 .. Len(out) : e[k] = i

\* One more line of the layout.
LEMMA PicksNext ==
  ASSUME NEW order, NEW maps, NEW n \in Nat, NEW out \in Seq(Line),
         NEW e, Picks(e, out, order, maps, n),
         Shown(order, maps, n + 1), Printed(order, maps, n + 1) \in Line
  PROVE  \E f : Picks(f, Append(out, Printed(order, maps, n + 1)), order, maps, n + 1)
<1> DEFINE last == Len(out) + 1
           more == Append(out, Printed(order, maps, n + 1))
           f == [k \in 1 .. last |-> IF k = last THEN n + 1 ELSE e[k]]
<1>1. Len(out) \in Nat /\ Len(more) = last
  OBVIOUS
<1>2. \A k \in 1 .. Len(out) : more[k] = out[k]
  OBVIOUS
<1>3. more[last] = Printed(order, maps, n + 1)
  OBVIOUS
<1>4. \A k \in 1 .. Len(out) : k \in 1 .. last /\ k # last /\ f[k] = e[k]
  BY <1>1
<1>5. f[last] = n + 1 /\ last \in 1 .. last
  BY <1>1
<1>6. \A k \in 1 .. last : k = last \/ k \in 1 .. Len(out)
  BY <1>1
<1>7. \A k \in 1 .. Len(out) : e[k] \in 1 .. n
  BY DEF Picks
<1>8. f \in [1 .. last -> 1 .. n + 1]
  <2>1. \A k \in 1 .. last : f[k] \in 1 .. n + 1
    BY <1>4, <1>5, <1>6, <1>7
  <2> QED BY <2>1
<1> HIDE DEF f, more
<1>9. \A k \in 1 .. last :
        Shown(order, maps, f[k]) /\ more[k] = Printed(order, maps, f[k])
  BY <1>2, <1>3, <1>4, <1>5, <1>6, Zenon DEF Picks
<1>10. \A k, l \in 1 .. last : k < l => f[k] < f[l]
  <2> TAKE k, l \in 1 .. last
  <2> HAVE k < l
  <2>1. k \in 1 .. Len(out)
    BY <1>1
  <2>2. CASE l = last
    BY <1>4, <1>5, <1>7, <2>1, <2>2
  <2>3. CASE l # last
    <3>1. l \in 1 .. Len(out)
      BY <1>1, <2>3
    <3> QED BY <1>4, <2>1, <3>1 DEF Picks
  <2> QED BY <2>2, <2>3
<1>11. \A i \in 1 .. n + 1 : Shown(order, maps, i) => \E k \in 1 .. last : f[k] = i
  <2> TAKE i \in 1 .. n + 1
  <2> HAVE Shown(order, maps, i)
  <2>1. CASE i = n + 1
    BY <1>5, <2>1
  <2>2. CASE i # n + 1
    <3>1. i \in 1 .. n
      BY <2>2
    <3>2. PICK k \in 1 .. Len(out) : e[k] = i
      BY <3>1 DEF Picks
    <3> QED BY <1>4, <3>2
  <2> QED BY <2>1, <2>2
<1>12. Picks(f, more, order, maps, n + 1)
  BY <1>1, <1>8, <1>9, <1>10, <1>11, Zenon DEF Picks
<1> QED BY <1>12 DEF more

\* A line that is not shown.
LEMMA PicksSame ==
  ASSUME NEW order, NEW maps, NEW n \in Nat, NEW out \in Seq(Line),
         NEW e, Picks(e, out, order, maps, n), ~ Shown(order, maps, n + 1)
  PROVE  Picks(e, out, order, maps, n + 1)
<1>1. \A i \in 1 .. n + 1 : i = n + 1 \/ i \in 1 .. n
  OBVIOUS
<1>2. e \in [1 .. Len(out) -> 1 .. n + 1]
  <2>1. \A k \in 1 .. Len(out) : e[k] \in 1 .. n
    BY DEF Picks
  <2>2. \A k \in 1 .. Len(out) : e[k] \in 1 .. n + 1
    BY <2>1
  <2> QED BY <2>2 DEF Picks
<1>3. \A i \in 1 .. n + 1 : Shown(order, maps, i) => \E k \in 1 .. Len(out) : e[k] = i
  BY <1>1, Zenon DEF Picks
<1> QED BY <1>2, <1>3 DEF Picks

\* What Output returns.
LEMMA OutputIs ==
  ASSUME NEW order \in Seq(OrderLine), NEW maps \in Maps
  PROVE  /\ Output(order, maps) \in Seq(Line)
         /\ \E e : Picks(e, Output(order, maps), order, maps, Len(order))
<1>1. PICK u : Writes(u, order, maps, Len(order)) /\ Output(order, maps) = u[Len(order)]
  BY OutputWrites
<1> DEFINE G == {n \in 0 .. Len(order) :
                   u[n] \in Seq(Line) /\ \E e : Picks(e, u[n], order, maps, n)}
<1>2. Len(order) \in Nat /\ 0 \in 0 .. Len(order) /\ Len(order) \in 0 .. Len(order)
  OBVIOUS
<1>3. 0 \in G
  <2>1. u[0] = << >>
    BY <1>1, <1>2 DEF Writes
  <2>2. Picks(<< >>, << >>, order, maps, 0)
    BY DEF Picks
  <2>3. << >> \in Seq(Line)
    OBVIOUS
  <2> QED BY <1>2, <2>1, <2>2, <2>3
<1>4. ASSUME NEW k \in 0 .. Len(order) - 1, k \in G PROVE k + 1 \in G
  <2>1. PICK e : Picks(e, u[k], order, maps, k)
    BY <1>4
  <2>2. u[k] \in Seq(Line)
    BY <1>4
  <2>3. k + 1 \in 0 .. Len(order) /\ k + 1 \in 1 .. Len(order) /\ k + 1 # 0 /\ k + 1 - 1 = k /\ k \in Nat
    BY <1>2
  <2>4. u[k + 1] = IF Shown(order, maps, k + 1)
                   THEN Append(u[k], Printed(order, maps, k + 1))
                   ELSE u[k]
    <3>1. u[k + 1] = IF Shown(order, maps, k + 1)
                     THEN Append(u[k + 1 - 1], Printed(order, maps, k + 1))
                     ELSE u[k + 1 - 1]
      <4>1. Len(order) \in Nat /\ k + 1 \in 1 .. Len(order)
        BY <1>2, <2>3
      <4>2. Writes(u, order, maps, Len(order))
        BY <1>1
      <4> HIDE DEF G
      <4> QED BY <4>1, <4>2, WritesNext
    <3> QED BY <2>3, <3>1, Zenon
  <2>5. CASE Shown(order, maps, k + 1)
    <3>1. Printed(order, maps, k + 1) \in Line
      BY <2>3, <2>5, PrintedLine
    <3>2. u[k + 1] = Append(u[k], Printed(order, maps, k + 1))
      BY <2>4, <2>5, Zenon
    <3>3. u[k + 1] \in Seq(Line)
      BY <2>2, <3>1, <3>2
    <3>4. \E f : Picks(f, u[k + 1], order, maps, k + 1)
      BY <2>1, <2>2, <2>3, <2>5, <3>1, <3>2, PicksNext, Zenon
    <3> QED BY <2>3, <3>3, <3>4
  <2>6. CASE ~ Shown(order, maps, k + 1)
    <3>1. u[k + 1] = u[k]
      BY <2>4, <2>6, Zenon
    <3>2. Picks(e, u[k], order, maps, k + 1)
      BY <2>1, <2>2, <2>3, <2>6, PicksSame, Zenon
    <3> QED BY <2>2, <2>3, <3>1, <3>2
  <2> QED BY <2>5, <2>6
<1>5. \A k \in 0 .. Len(order) : k \in G
  <2> HIDE DEF G
  <2> QED BY <1>2, <1>3, <1>4, Climbs, Zenon
<1>6. Len(order) \in G
  BY <1>2, <1>5, Zenon
<1> QED BY <1>1, <1>6

\* A line of a text or a layout is a line.
LEMMA LinesAre ==
  /\ \A lines \in Seq(Line) : lines \in Seq(AnyLine)
  /\ \A lines \in Seq(OrderLine) : lines \in Seq(AnyLine)
BY DEF AnyLine

\* A line written out has the kind, the name and the value it has in memory.
LEMMA OutputLine ==
  ASSUME NEW order \in Seq(OrderLine), NEW maps \in Maps, NEW out,
         NEW e, Picks(e, out, order, maps, Len(order)), NEW k \in 1 .. Len(out)
  PROVE  /\ e[k] \in 1 .. Len(order)
         /\ Shown(order, maps, e[k])
         /\ out[k].kind = order[e[k]].kind
         /\ out[k].data = order[e[k]].data
         /\ order[e[k]].kind = "var" =>
              out[k].value = getIn(maps, order[e[k]].data, SectionAt(order, e[k]))
<1>1. e[k] \in 1 .. Len(order) /\ Shown(order, maps, e[k])
  BY DEF Picks
<1>2. out[k] = Printed(order, maps, e[k])
  BY DEF Picks
<1> QED BY <1>1, <1>2, PrintedLine

\* The order of the lines written is that of the layout.
LEMMA OutputOrder ==
  ASSUME NEW order \in Seq(OrderLine), NEW maps, NEW out \in Seq(Line),
         NEW e, Picks(e, out, order, maps, Len(order)),
         NEW k \in 1 .. Len(out), NEW l \in 1 .. Len(out)
  PROVE  (k =< l) <=> (e[k] =< e[l])
<1>1. Len(order) \in Nat /\ Len(out) \in Nat
  OBVIOUS
<1>2. e[k] \in 1 .. Len(order) /\ e[l] \in 1 .. Len(order)
  BY DEF Picks
<1>3. k < l => e[k] < e[l]
  BY DEF Picks
<1>4. l < k => e[l] < e[k]
  BY DEF Picks
<1> QED BY <1>1, <1>2, <1>3, <1>4

\* A variable written out is under the section it has in the layout: that section
\* has a value, so its header is written too, and no other one in between.
LEMMA OutputSection ==
  ASSUME NEW order \in Seq(OrderLine), NEW maps \in Maps, NEW out \in Seq(Line),
         NEW e, Picks(e, out, order, maps, Len(order)),
         NEW k \in 1 .. Len(out), out[k].kind = "var"
  PROVE  SectionAt(out, k) = SectionAt(order, e[k])
<1> DEFINE i == e[k]
<1>1. i \in 1 .. Len(order) /\ i \in Nat /\ k \in Nat /\ Len(out) \in Nat
  BY OutputLine
<1>2. order[i].kind = "var" /\ Shown(order, maps, i)
  BY OutputLine
<1>3. \A l \in 1 .. k : /\ l \in 1 .. Len(out)
                        /\ e[l] \in 1 .. i
                        /\ out[l].kind = order[e[l]].kind
                        /\ out[l].data = order[e[l]].data
  <2> TAKE l \in 1 .. k
  <2>1. l \in 1 .. Len(out) /\ l =< k
    BY <1>1
  <2>2. e[l] \in 1 .. Len(order) /\ e[l] =< i
    BY <2>1, OutputLine, OutputOrder
  <2> QED BY <1>1, <2>1, <2>2, OutputLine
<1>4. CASE \A j \in 1 .. i : order[j].kind # "sk"
  <2>1. \A l \in 1 .. k : out[l].kind # "sk"
    BY <1>3, <1>4
  <2> QED BY <1>4, <2>1, SectionGlobal
<1>5. ASSUME NEW j \in 1 .. i, order[j].kind = "sk",
             \A m \in 1 .. i : order[m].kind = "sk" => m =< j,
             SectionAt(order, i) = order[j].data
      PROVE  SectionAt(out, k) = SectionAt(order, i)
  <2>1. j \in 1 .. Len(order) /\ j \in Nat
    BY <1>1
  <2>2. hasSubKey(maps, order[j].data)
    <3>1. getIn(maps, order[i].data, SectionAt(order, i)) # NoValue
      BY <1>2 DEF Shown
    <3>2. order[i] \in AnyLine
      BY <1>1 DEF AnyLine
    <3>3. order[i].data \in Name
      BY <1>2, <3>2, LineKinds
    <3> QED BY <1>5, <3>1, <3>3 DEF hasSubKey, getIn
  <2>3. Shown(order, maps, j)
    BY <1>5, <2>2 DEF Shown
  <2>4. PICK l \in 1 .. Len(out) : e[l] = j
    BY <2>1, <2>3 DEF Picks
  <2>5. l =< k /\ l \in 1 .. k
    <3>1. l =< k
      <4>1. j =< i
        OBVIOUS
      <4>2. e[l] =< e[k]
        BY <2>4, <4>1
      <4> HIDE DEF i
      <4> QED BY <1>1, <4>2, OutputOrder
    <3> QED BY <3>1
  <2>6. out[l].kind = "sk" /\ out[l].data = order[j].data
    BY <1>3, <1>5, <2>4, <2>5
  <2>7. ASSUME NEW m \in 1 .. k, out[m].kind = "sk" PROVE m =< l
    <3>1. order[e[m]].kind = "sk" /\ e[m] \in 1 .. i /\ m \in 1 .. Len(out)
      BY <1>3, <2>7
    <3>2. e[m] =< e[l]
      BY <1>5, <2>4, <3>1
    <3> QED BY <3>1, <3>2, OutputOrder
  <2>8. SectionAt(out, k) = out[l].data
    BY <1>1, <2>5, <2>6, <2>7, SectionIs
  <2> QED BY <1>5, <2>6, <2>8
<1>6. \/ \A j \in 1 .. i : order[j].kind # "sk"
      \/ \E j \in 1 .. i :
           /\ order[j].kind = "sk"
           /\ \A m \in 1 .. i : order[m].kind = "sk" => m =< j
           /\ SectionAt(order, i) = order[j].data
  <2> HIDE DEF i
  <2> QED BY <1>1, SectionCases, Zenon
<1> QED BY <1>4, <1>5, <1>6

\* Sections written out start once, also when the writing stops early.
LEMMA PrefixOnce ==
  ASSUME NEW lines \in Seq(AnyLine), SectionsOnce(lines), NEW n \in 0 .. Len(lines)
  PROVE  SectionsOnce(SubSeq(lines, 1, n))
<1>1. /\ Len(SubSeq(lines, 1, n)) = n
      /\ \A i \in 1 .. n : SubSeq(lines, 1, n)[i] = lines[i] /\ i \in 1 .. Len(lines)
  OBVIOUS
<1> QED BY <1>1 DEF SectionsOnce

LEMMA OutputOnce ==
  ASSUME NEW order \in Seq(OrderLine), NEW maps \in Maps, SectionsOnce(order)
  PROVE  SectionsOnce(Output(order, maps))
<1> DEFINE out == Output(order, maps)
<1> HIDE DEF out
<1>1. out \in Seq(Line)
  BY OutputIs DEF out
<1>2. PICK e : Picks(e, out, order, maps, Len(order))
  BY OutputIs DEF out
<1>3. ASSUME NEW i \in 1 .. Len(out), NEW j \in 1 .. Len(out),
             out[i].kind = "sk", out[i] = out[j]
      PROVE  i = j
  <2>1. /\ e[i] \in 1 .. Len(order) /\ e[j] \in 1 .. Len(order)
        /\ order[e[i]].kind = "sk" /\ order[e[j]].kind = "sk"
        /\ order[e[i]].data = order[e[j]].data
    BY <1>2, <1>3, OutputLine
  <2>2. order[e[i]] \in AnyLine /\ order[e[j]] \in AnyLine
    BY <2>1 DEF AnyLine
  <2>3. order[e[i]] = SkLine(order[e[i]].data) /\ order[e[j]] = SkLine(order[e[j]].data)
    BY <2>1, <2>2, LineKinds
  <2>4. order[e[i]] = order[e[j]]
    BY <2>1, <2>3
  <2>5. e[i] = e[j]
    BY <2>1, <2>4 DEF SectionsOnce
  <2>6. i =< j /\ j =< i
    <3>1. e[i] =< e[j] /\ e[j] =< e[i]
      BY <2>1, <2>5
    <3> QED BY <1>1, <1>2, <3>1, OutputOrder
  <2> QED BY <2>6
<1>4. SectionsOnce(out)
  BY <1>3 DEF SectionsOnce
<1> QED BY <1>4 DEF out

-----------------------------------------------------------------------------
(* What a text says.                                                       *)

\* The lines of a text for a name in a section.
LinesFor(text, nm, sk) ==
  {i \in 1 .. Len(text) :
     text[i].kind = "var" /\ text[i].data = nm /\ SectionAt(text, i) = sk}

LEMMA SaysIs ==
  ASSUME NEW text \in Seq(Line), NEW nm, NEW sk
  PROVE  /\ LinesFor(text, nm, sk) \in SUBSET (1 .. Len(text))
         /\ Says(text, nm, sk) = IF LinesFor(text, nm, sk) = {} THEN NoValue
                                 ELSE text[Max(LinesFor(text, nm, sk))].value
<1>1. DOMAIN text = 1 .. Len(text)
  OBVIOUS
<1>2. LinesFor(text, nm, sk) = {i \in DOMAIN text :
        text[i].kind = "var" /\ text[i].data = nm /\ SectionAt(text, i) = sk}
  BY <1>1, Zenon DEF LinesFor
<1>3. LinesFor(text, nm, sk) \in SUBSET (1 .. Len(text))
  BY DEF LinesFor
<1> QED BY <1>2, <1>3, Zenon DEF Says

\* When every one has the same value, the text says that value or, without one,
\* nothing.
LEMMA SaysOne ==
  ASSUME NEW text \in Seq(Line), NEW nm, NEW sk, NEW val,
         \A i \in LinesFor(text, nm, sk) : text[i].value = val
  PROVE  /\ Says(text, nm, sk) \in {NoValue, val}
         /\ LinesFor(text, nm, sk) # {} => Says(text, nm, sk) = val
<1>1. CASE LinesFor(text, nm, sk) = {}
  BY <1>1, SaysIs
<1>2. CASE LinesFor(text, nm, sk) # {}
  <2>1. Len(text) \in Nat
    OBVIOUS
  <2>2. Max(LinesFor(text, nm, sk)) \in LinesFor(text, nm, sk)
    BY <1>2, <2>1, SaysIs, MaxIs
  <2>3. Says(text, nm, sk) = text[Max(LinesFor(text, nm, sk))].value
    BY <1>2, SaysIs
  <2> QED BY <2>2, <2>3
<1> QED BY <1>1, <1>2

\* A line for nm in section sk.
HasVar(order, nm, sk) ==
  \E i \in 1 .. Len(order) : order[i] = VarLine(nm) /\ SectionAt(order, i) = sk

\* Every value that is held has its line, in its section.
Placed(order, maps) ==
  \A nm \in Name, sk \in Subkey : getIn(maps, nm, sk) # NoValue => HasVar(order, nm, sk)

\* A variable that is written has the value held for it in the section it is in.
LEMMA OutputValue ==
  ASSUME NEW order \in Seq(OrderLine), NEW maps \in Maps,
         NEW out, out = Output(order, maps), NEW i \in 1 .. Len(out), out[i].kind = "var"
  PROVE  out[i].value = getIn(maps, out[i].data, SectionAt(out, i))
<1>1. out \in Seq(Line)
  BY OutputIs
<1>2. PICK e : Picks(e, out, order, maps, Len(order))
  BY OutputIs
<1>3. SectionAt(out, i) = SectionAt(order, e[i])
  BY <1>1, <1>2, OutputSection
<1>4. out[i].value = getIn(maps, order[e[i]].data, SectionAt(order, e[i]))
      /\ order[e[i]].data = out[i].data
  BY <1>2, OutputLine
<1> QED BY <1>3, <1>4

\* The first lines of what is written say of a name in a section what is held, or
\* nothing; with a line for every value, all the lines say all that is held.
LEMMA OutputSays ==
  ASSUME NEW order \in Seq(OrderLine), NEW maps \in Maps,
         NEW n \in 0 .. Len(Output(order, maps)), NEW nm, NEW sk
  PROVE  Says(SubSeq(Output(order, maps), 1, n), nm, sk) \in {NoValue, getIn(maps, nm, sk)}
<1> DEFINE out == Output(order, maps)
           text == SubSeq(out, 1, n)
<1> HIDE DEF out
<1>1. out \in Seq(Line)
  BY OutputIs DEF out
<1>2. n \in 0 .. Len(out)
  BY DEF out
<1>3. /\ text \in Seq(Line) /\ Len(text) = n
      /\ \A i \in 1 .. n : text[i] = out[i] /\ i \in 1 .. Len(out) /\ i \in Nat
  BY <1>1, <1>2
<1> HIDE DEF text
<1>4. ASSUME NEW i \in LinesFor(text, nm, sk) PROVE text[i].value = getIn(maps, nm, sk)
  <2>1. i \in 1 .. n /\ text[i].kind = "var" /\ text[i].data = nm
        /\ SectionAt(text, i) = sk
    BY <1>3 DEF LinesFor
  <2>2. out[i].kind = "var" /\ out[i].data = nm /\ out[i] = text[i]
        /\ i \in 1 .. Len(out)
    BY <1>3, <2>1
  <2>3. \A j \in 1 .. i : text[j] = out[j]
    BY <1>3, <2>1
  <2>4. SectionAt(text, i) = SectionAt(out, i)
    BY <1>3, <2>1, <2>3, SectionSame
  <2>5. out[i].value = getIn(maps, out[i].data, SectionAt(out, i))
    BY <2>2, OutputValue DEF out
  <2> QED BY <2>1, <2>2, <2>4, <2>5
<1>5. Says(text, nm, sk) \in {NoValue, getIn(maps, nm, sk)}
  BY <1>3, <1>4, SaysOne
<1> QED BY <1>5 DEF text, out

LEMMA OutputSaysAll ==
  ASSUME NEW order \in Seq(OrderLine), NEW maps \in Maps, Placed(order, maps),
         NEW nm \in Name, NEW sk \in Subkey
  PROVE  Says(Output(order, maps), nm, sk) = getIn(maps, nm, sk)
<1> DEFINE out == Output(order, maps)
<1> HIDE DEF out
<1>1. out \in Seq(Line) /\ Len(out) \in Nat
  BY OutputIs DEF out
<1>2. PICK e : Picks(e, out, order, maps, Len(order))
  BY OutputIs DEF out
<1>3. ASSUME NEW k \in LinesFor(out, nm, sk) PROVE out[k].value = getIn(maps, nm, sk)
  <2>1. k \in 1 .. Len(out) /\ out[k].kind = "var" /\ out[k].data = nm
        /\ SectionAt(out, k) = sk
    BY DEF LinesFor
  <2>2. SectionAt(out, k) = SectionAt(order, e[k])
    BY <1>1, <1>2, <2>1, OutputSection
  <2>3. out[k].value = getIn(maps, order[e[k]].data, SectionAt(order, e[k]))
        /\ order[e[k]].data = nm
    BY <1>2, <2>1, OutputLine
  <2> QED BY <2>1, <2>2, <2>3
<1>4. /\ Says(out, nm, sk) \in {NoValue, getIn(maps, nm, sk)}
      /\ LinesFor(out, nm, sk) # {} => Says(out, nm, sk) = getIn(maps, nm, sk)
  BY <1>1, <1>3, SaysOne
<1>5. CASE getIn(maps, nm, sk) # NoValue
  <2>1. PICK i \in 1 .. Len(order) : order[i] = VarLine(nm) /\ SectionAt(order, i) = sk
    BY <1>5 DEF Placed, HasVar
  <2>2. order[i].kind = "var" /\ order[i].data = nm
    BY <2>1 DEF VarLine
  <2>3. Shown(order, maps, i)
    BY <1>5, <2>1, <2>2 DEF Shown
  <2>4. PICK k \in 1 .. Len(out) : e[k] = i
    BY <1>2, <2>3 DEF Picks
  <2>5. out[k].kind = "var" /\ out[k].data = nm
    BY <1>2, <2>2, <2>4, OutputLine
  <2>6. SectionAt(out, k) = sk
    BY <1>1, <1>2, <2>1, <2>4, <2>5, OutputSection
  <2>7. k \in LinesFor(out, nm, sk)
    BY <2>5, <2>6 DEF LinesFor
  <2> QED BY <1>4, <2>7 DEF out
<1>6. CASE getIn(maps, nm, sk) = NoValue
  BY <1>4, <1>6 DEF out
<1> QED BY <1>5, <1>6

-----------------------------------------------------------------------------
(* One more line.                                                          *)

\* more is lines with line l at place p, and Place(p, k) where line k went.
Place(p, k) == IF k < p THEN k ELSE k + 1
Inserted(more, lines, p, l) ==
  /\ Len(more) = Len(lines) + 1
  /\ more[p] = l
  /\ \A k \in 1 .. Len(lines) : more[Place(p, k)] = lines[k]

\* Every other line has a place, in the same order.
LEMMA Places ==
  ASSUME NEW more, NEW lines, Len(lines) \in Nat, NEW p \in 1 .. Len(lines) + 1,
         NEW l, Inserted(more, lines, p, l)
  PROVE  /\ \A k \in 1 .. Len(lines) : Place(p, k) \in 1 .. Len(more) /\ Place(p, k) # p
         /\ \A m \in 1 .. Len(more) : m # p => \E k \in 1 .. Len(lines) : m = Place(p, k)
         /\ \A j, k \in 1 .. Len(lines) : Place(p, j) =< Place(p, k) <=> j =< k
         /\ \A j, k \in 1 .. Len(lines) : Place(p, j) = Place(p, k) => j = k
<1>1. \A k \in 1 .. Len(lines) : Place(p, k) \in 1 .. Len(more) /\ Place(p, k) # p
  BY DEF Place, Inserted
<1>2. ASSUME NEW m \in 1 .. Len(more), m # p
      PROVE  \E k \in 1 .. Len(lines) : m = Place(p, k)
  <2>1. CASE m < p
    <3>1. m \in 1 .. Len(lines) /\ m = Place(p, m)
      BY <2>1 DEF Place, Inserted
    <3> QED BY <3>1
  <2>2. CASE m > p
    <3>1. m - 1 \in 1 .. Len(lines) /\ m = Place(p, m - 1)
      BY <2>2 DEF Place, Inserted
    <3> QED BY <3>1
  <2> QED BY <1>2, <2>1, <2>2 DEF Inserted
<1>3. \A j, k \in 1 .. Len(lines) : Place(p, j) =< Place(p, k) <=> j =< k
  BY DEF Place
<1>4. \A j, k \in 1 .. Len(lines) : Place(p, j) = Place(p, k) => j = k
  BY DEF Place
<1> QED BY <1>1, <1>2, <1>3, <1>4

\* InsertAt and Append insert.
LEMMA InsertAtInserts ==
  ASSUME NEW S, NEW lines \in Seq(S), NEW p \in 1 .. Len(lines) + 1, NEW l \in S
  PROVE  InsertAt(lines, p, l) \in Seq(S) /\ Inserted(InsertAt(lines, p, l), lines, p, l)
<1> DEFINE front == SubSeq(lines, 1, p - 1)
           back == SubSeq(lines, p, Len(lines))
           head == front \o <<l>>
           all == head \o back
<1>1. /\ front \in Seq(S) /\ Len(front) = p - 1
      /\ \A k \in 1 .. p - 1 : front[k] = lines[k]
  OBVIOUS
<1>2. /\ back \in Seq(S) /\ Len(back) = Len(lines) + 1 - p
      /\ \A k \in 1 .. Len(lines) + 1 - p : back[k] = lines[k + p - 1]
  OBVIOUS
<1> HIDE DEF front, back
<1>3. /\ head \in Seq(S) /\ Len(head) = p /\ head[p] = l
      /\ \A k \in 1 .. p - 1 : head[k] = front[k]
  BY <1>1
<1> HIDE DEF head
<1>4. /\ all \in Seq(S) /\ Len(all) = Len(lines) + 1
      /\ \A k \in 1 .. p : all[k] = head[k]
      /\ \A k \in 1 .. Len(lines) + 1 - p : all[p + k] = back[k]
  BY <1>2, <1>3
<1>5. all = InsertAt(lines, p, l)
  BY DEF InsertAt, head, front, back
<1> HIDE DEF all
<1>6. all[p] = l
  BY <1>3, <1>4
<1>7. ASSUME NEW k \in 1 .. Len(lines) PROVE all[Place(p, k)] = lines[k]
  <2>1. CASE k < p
    <3>1. k \in 1 .. p - 1 /\ k \in 1 .. p /\ Place(p, k) = k
      BY <2>1 DEF Place
    <3> QED BY <1>1, <1>3, <1>4, <3>1
  <2>2. CASE ~ (k < p)
    <3>1. /\ k + 1 - p \in 1 .. Len(lines) + 1 - p
          /\ Place(p, k) = p + (k + 1 - p) /\ (k + 1 - p) + p - 1 = k
      BY <2>2 DEF Place
    <3>2. all[p + (k + 1 - p)] = back[k + 1 - p]
      BY <1>4, <3>1, Zenon
    <3>3. back[k + 1 - p] = lines[(k + 1 - p) + p - 1]
      BY <1>2, <3>1, Zenon
    <3> QED BY <3>1, <3>2, <3>3, Zenon
  <2> QED BY <2>1, <2>2
<1>8. all \in Seq(S) /\ Inserted(all, lines, p, l)
  BY <1>4, <1>6, <1>7 DEF Inserted
<1> QED BY <1>5, <1>8

LEMMA AppendInserts ==
  ASSUME NEW S, NEW lines \in Seq(S), NEW l \in S
  PROVE  Append(lines, l) \in Seq(S)
         /\ Inserted(Append(lines, l), lines, Len(lines) + 1, l)
<1>1. /\ Append(lines, l) \in Seq(S) /\ Len(Append(lines, l)) = Len(lines) + 1
      /\ Append(lines, l)[Len(lines) + 1] = l
      /\ \A k \in 1 .. Len(lines) : Append(lines, l)[k] = lines[k]
  OBVIOUS
<1>2. \A k \in 1 .. Len(lines) : Place(Len(lines) + 1, k) = k
  BY DEF Place
<1> QED BY <1>1, <1>2 DEF Inserted

\* Lines keep their section when what is inserted is not a header, or comes last.
LEMMA InsertedSection ==
  ASSUME NEW more, NEW lines, Len(lines) \in Nat, NEW p \in 1 .. Len(lines) + 1,
         NEW l, Inserted(more, lines, p, l), l.kind # "sk" \/ p = Len(lines) + 1,
         NEW k \in 1 .. Len(lines)
  PROVE  SectionAt(more, Place(p, k)) = SectionAt(lines, k)
<1>1. /\ Place(p, k) \in 1 .. Len(more) /\ Place(p, k) \in Nat /\ Len(more) \in Nat
  BY Places DEF Place, Inserted
<1>2. ASSUME NEW m \in 1 .. Place(p, k), more[m].kind = "sk"
      PROVE  \E i \in 1 .. k : m = Place(p, i) /\ lines[i].kind = "sk"
  <2>1. m \in 1 .. Len(more) /\ m =< Place(p, k)
    BY <1>1
  <2>2. m # p
    <3>1. CASE l.kind # "sk"
      BY <1>2, <3>1 DEF Inserted
    <3>2. CASE p = Len(lines) + 1
      <4>1. m =< k
        BY <2>1, <3>2 DEF Place
      <4> QED BY <3>2, <4>1
    <3> QED BY <3>1, <3>2
  <2>3. PICK i \in 1 .. Len(lines) : m = Place(p, i)
    BY <2>1, <2>2, Places
  <2>4. i =< k
    BY <2>1, <2>3, Places
  <2>5. i \in 1 .. k
    BY <2>4
  <2>6. more[m] = lines[i]
    BY <2>3 DEF Inserted
  <2> QED BY <1>2, <2>3, <2>5, <2>6
<1>3. CASE \A i \in 1 .. k : lines[i].kind # "sk"
  <2>1. \A m \in 1 .. Place(p, k) : more[m].kind # "sk"
    BY <1>2, <1>3
  <2> QED BY <1>3, <2>1, SectionGlobal
<1>4. ASSUME NEW j \in 1 .. k, lines[j].kind = "sk",
             \A i \in 1 .. k : lines[i].kind = "sk" => i =< j,
             SectionAt(lines, k) = lines[j].data
      PROVE  SectionAt(more, Place(p, k)) = SectionAt(lines, k)
  <2>1. j \in 1 .. Len(lines) /\ j =< k
    OBVIOUS
  <2>2. Place(p, j) =< Place(p, k) /\ Place(p, j) \in 1 .. Len(more)
    BY <2>1, Places
  <2>3. Place(p, j) \in 1 .. Place(p, k)
    BY <1>1, <2>2
  <2>4. more[Place(p, j)] = lines[j]
    BY <2>1 DEF Inserted
  <2>5. ASSUME NEW m \in 1 .. Place(p, k), more[m].kind = "sk" PROVE m =< Place(p, j)
    <3>1. PICK i \in 1 .. k : m = Place(p, i) /\ lines[i].kind = "sk"
      BY <1>2, <2>5
    <3>2. i =< j /\ i \in 1 .. Len(lines)
      BY <1>4, <3>1
    <3> QED BY <2>1, <3>1, <3>2, Places
  <2>6. SectionAt(more, Place(p, k)) = more[Place(p, j)].data
    BY <1>1, <1>4, <2>3, <2>4, <2>5, SectionIs
  <2> QED BY <1>4, <2>4, <2>6
<1>5. k \in Nat
  OBVIOUS
<1>6. \/ \A i \in 1 .. k : lines[i].kind # "sk"
      \/ \E j \in 1 .. k :
           /\ lines[j].kind = "sk"
           /\ \A i \in 1 .. k : lines[i].kind = "sk" => i =< j
           /\ SectionAt(lines, k) = lines[j].data
  BY <1>5, SectionCases, Zenon
<1> QED BY <1>3, <1>4, <1>6

\* The new line has the section of the line before it, or opens its own.
LEMMA InsertedOwn ==
  ASSUME NEW more, NEW lines, Len(lines) \in Nat, NEW p \in 1 .. Len(lines) + 1,
         NEW l, Inserted(more, lines, p, l)
  PROVE  SectionAt(more, p) = IF l.kind = "sk" THEN l.data ELSE SectionAt(lines, p - 1)
<1>1. p - 1 \in Nat /\ (p - 1) + 1 = p
  OBVIOUS
<1>2. \A k \in 1 .. p - 1 : more[k] = lines[k]
  BY DEF Inserted, Place
<1>3. SectionAt(more, p - 1) = SectionAt(lines, p - 1)
  BY <1>1, <1>2, SectionSame, Zenon
<1>4. SectionAt(more, (p - 1) + 1)
        = IF more[(p - 1) + 1].kind = "sk" THEN more[(p - 1) + 1].data
                                           ELSE SectionAt(more, p - 1)
  BY <1>1, SectionNext, Zenon
<1>5. more[p] = l
  BY DEF Inserted
<1> QED BY <1>1, <1>3, <1>4, <1>5

\* Sections still start once, unless a header is inserted that is there already.
LEMMA InsertedOnce ==
  ASSUME NEW more, NEW lines, Len(lines) \in Nat, NEW p \in 1 .. Len(lines) + 1,
         NEW l, Inserted(more, lines, p, l), SectionsOnce(lines),
         l.kind = "sk" => \A k \in 1 .. Len(lines) : lines[k] # l
  PROVE  SectionsOnce(more)
<1>1. ASSUME NEW i \in 1 .. Len(more), NEW j \in 1 .. Len(more),
             more[i].kind = "sk", more[i] = more[j], i # p, j # p
      PROVE  i = j
  <2>1. PICK a \in 1 .. Len(lines) : i = Place(p, a)
    BY <1>1, Places
  <2>2. PICK b \in 1 .. Len(lines) : j = Place(p, b)
    BY <1>1, Places
  <2>3. more[i] = lines[a] /\ more[j] = lines[b]
    BY <2>1, <2>2 DEF Inserted
  <2>4. a = b
    BY <1>1, <2>3 DEF SectionsOnce
  <2> QED BY <2>1, <2>2, <2>4
<1>2. ASSUME NEW j \in 1 .. Len(more), more[j].kind = "sk", more[j] = more[p]
      PROVE  j = p
  <2>1. SUFFICES ASSUME j # p PROVE FALSE
    OBVIOUS
  <2>2. PICK b \in 1 .. Len(lines) : j = Place(p, b)
    BY <2>1, Places
  <2>3. more[j] = lines[b] /\ more[p] = l
    BY <2>2 DEF Inserted
  <2> QED BY <1>2, <2>3
<1>3. ASSUME NEW i \in 1 .. Len(more), NEW j \in 1 .. Len(more),
             more[i].kind = "sk", more[i] = more[j]
      PROVE  i = j
  <2>1. CASE i = p
    BY <1>2, <1>3, <2>1
  <2>2. CASE j = p
    BY <1>2, <1>3, <2>2
  <2>3. CASE i # p /\ j # p
    BY <1>1, <1>3, <2>3
  <2> QED BY <2>1, <2>2, <2>3
<1> QED BY <1>3 DEF SectionsOnce

-----------------------------------------------------------------------------
(* Comments.                                                               *)

\* There are finitely many.
LEMMA CommentsFinite ==
  ASSUME NEW lines, Len(lines) \in Nat
  PROVE  /\ IsFiniteSet(CommentPlaces(lines))
         /\ Comments(lines) \in Nat
<1>1. IsFiniteSet(1 .. Len(lines))
  BY FS_Interval
<1>2. CommentPlaces(lines) \in SUBSET (1 .. Len(lines))
  BY DEF CommentPlaces
<1>3. IsFiniteSet(CommentPlaces(lines))
  BY <1>1, <1>2, FS_Subset, Zenon
<1> QED BY <1>3, FS_CardinalityType, Zenon DEF Comments

\* A one-to-one map between those of two sequences shows that there are as many.
LEMMA CommentsMatch ==
  ASSUME NEW lines, NEW others, Len(lines) \in Nat, NEW f,
         f \in [CommentPlaces(lines) -> CommentPlaces(others)],
         \A i, j \in CommentPlaces(lines) : f[i] = f[j] => i = j,
         \A k \in CommentPlaces(others) : \E i \in CommentPlaces(lines) : f[i] = k
  PROVE  Comments(others) = Comments(lines)
<1>1. f \in Injection(CommentPlaces(lines), CommentPlaces(others))
  BY Zenon DEF Injection, IsInjective
<1>2. f \in Surjection(CommentPlaces(lines), CommentPlaces(others))
  BY Zenon DEF Surjection
<1>3. ExistsBijection(CommentPlaces(lines), CommentPlaces(others))
  BY <1>1, <1>2, Zenon DEF Bijection, ExistsBijection
<1>4. Cardinality(CommentPlaces(others)) = Cardinality(CommentPlaces(lines))
  BY <1>3, CommentsFinite, FS_Bijection, Zenon
<1> QED BY <1>4 DEF Comments

\* Every comment of the layout is written.
LEMMA OutputComments ==
  ASSUME NEW order \in Seq(OrderLine), NEW maps \in Maps
  PROVE  Comments(Output(order, maps)) = Comments(order)
<1> DEFINE out == Output(order, maps)
<1> HIDE DEF out
<1>1. out \in Seq(Line) /\ Len(out) \in Nat /\ Len(order) \in Nat
  BY OutputIs DEF out
<1>2. PICK e : Picks(e, out, order, maps, Len(order))
  BY OutputIs DEF out
<1> DEFINE f == [k \in CommentPlaces(out) |-> e[k]]
<1>3. \A k \in CommentPlaces(out) :
        k \in 1 .. Len(out) /\ e[k] \in CommentPlaces(order)
  <2> TAKE k \in CommentPlaces(out)
  <2>1. k \in 1 .. Len(out) /\ out[k].kind = "comment"
    BY DEF CommentPlaces
  <2> QED BY <1>2, <2>1, OutputLine DEF CommentPlaces
<1>4. f \in [CommentPlaces(out) -> CommentPlaces(order)]
  BY <1>3
<1>5. ASSUME NEW i \in CommentPlaces(out), NEW j \in CommentPlaces(out), f[i] = f[j]
      PROVE  i = j
  <2>1. i \in 1 .. Len(out) /\ j \in 1 .. Len(out)
    BY <1>3
  <2>2. e[i] = e[j] /\ e[i] \in 1 .. Len(order)
    BY <1>2, <1>5, <2>1, OutputLine
  <2>3. e[i] =< e[j] /\ e[j] =< e[i]
    BY <2>2
  <2>4. i =< j /\ j =< i
    BY <1>1, <1>2, <2>1, <2>3, OutputOrder
  <2> QED BY <2>1, <2>4
<1>6. ASSUME NEW i \in CommentPlaces(order) PROVE \E k \in CommentPlaces(out) : f[k] = i
  <2>1. i \in 1 .. Len(order) /\ order[i].kind = "comment"
    BY DEF CommentPlaces
  <2>2. Shown(order, maps, i)
    BY <2>1 DEF Shown
  <2>3. PICK k \in 1 .. Len(out) : e[k] = i
    BY <1>2, <2>1, <2>2 DEF Picks
  <2>4. out[k].kind = "comment"
    BY <1>2, <2>1, <2>3, OutputLine
  <2>5. k \in CommentPlaces(out)
    BY <2>4 DEF CommentPlaces
  <2> QED BY <2>3, <2>5
<1> HIDE DEF f
<1>7. Comments(order) = Comments(out)
  BY <1>1, <1>4, <1>5, <1>6, CommentsMatch, Zenon
<1> QED BY <1>7 DEF out

\* A line that is no comment does not change their number, one at the end adds one.
LEMMA InsertedComments ==
  ASSUME NEW more, NEW lines, Len(lines) \in Nat, NEW p \in 1 .. Len(lines) + 1,
         NEW l, Inserted(more, lines, p, l), l.kind # "comment"
  PROVE  Comments(more) = Comments(lines)
<1>0. \A i, j \in 1 .. Len(lines) : Place(p, i) = Place(p, j) => i = j
  BY DEF Place
<1> DEFINE f == [k \in CommentPlaces(lines) |-> Place(p, k)]
<1>1. \A k \in CommentPlaces(lines) : k \in 1 .. Len(lines) /\ lines[k].kind = "comment"
  BY DEF CommentPlaces
<1>2. \A k \in CommentPlaces(lines) : Place(p, k) \in CommentPlaces(more)
  <2> TAKE k \in CommentPlaces(lines)
  <2>1. Place(p, k) \in 1 .. Len(more)
    BY <1>1, Places
  <2>2. more[Place(p, k)] = lines[k]
    BY <1>1 DEF Inserted
  <2> QED BY <1>1, <2>1, <2>2 DEF CommentPlaces
<1>3. f \in [CommentPlaces(lines) -> CommentPlaces(more)]
  BY <1>2
<1>4. \A i, j \in CommentPlaces(lines) : f[i] = f[j] => i = j
  <2> TAKE i, j \in CommentPlaces(lines)
  <2>1. f[i] = Place(p, i) /\ f[j] = Place(p, j)
    OBVIOUS
  <2>2. i \in 1 .. Len(lines) /\ j \in 1 .. Len(lines)
    BY <1>1
  <2>3. Place(p, i) = Place(p, j) => i = j
    BY <1>0, <2>2, Zenon
  <2> QED BY <2>1, <2>3
<1>5. ASSUME NEW m \in CommentPlaces(more) PROVE \E k \in CommentPlaces(lines) : f[k] = m
  <2>1. m \in 1 .. Len(more) /\ more[m].kind = "comment"
    BY DEF CommentPlaces
  <2>2. m # p
    BY <2>1 DEF Inserted
  <2>3. PICK k \in 1 .. Len(lines) : m = Place(p, k)
    BY <2>1, <2>2, Places
  <2>4. k \in CommentPlaces(lines)
    BY <2>1, <2>3 DEF CommentPlaces, Inserted
  <2> QED BY <2>3, <2>4
<1> HIDE DEF f
<1> QED BY <1>3, <1>4, <1>5, CommentsMatch, Zenon

LEMMA AppendComments ==
  ASSUME NEW S, NEW lines \in Seq(S), NEW l \in S
  PROVE  Comments(Append(lines, l))
           = Comments(lines) + (IF l.kind = "comment" THEN 1 ELSE 0)
<1>1. /\ Len(Append(lines, l)) = Len(lines) + 1 /\ Len(lines) \in Nat
      /\ Append(lines, l)[Len(lines) + 1] = l
      /\ \A k \in 1 .. Len(lines) : Append(lines, l)[k] = lines[k]
  OBVIOUS
<1>2. IsFiniteSet(CommentPlaces(lines)) /\ Comments(lines) \in Nat
  BY <1>1, CommentsFinite
<1>3. \A k \in CommentPlaces(lines) : k \in 1 .. Len(lines)
  BY DEF CommentPlaces
<1>4. CASE l.kind = "comment"
  <2>1. CommentPlaces(Append(lines, l)) = CommentPlaces(lines) \cup {Len(lines) + 1}
    BY <1>1, <1>4 DEF CommentPlaces
  <2>2. Len(lines) + 1 \notin CommentPlaces(lines)
    BY <1>1, <1>3
  <2>3. Cardinality(CommentPlaces(lines) \cup {Len(lines) + 1})
          = Cardinality(CommentPlaces(lines)) + 1
    BY <1>2, <2>2, FS_AddElement, Zenon
  <2> QED BY <1>4, <2>1, <2>3 DEF Comments
<1>5. CASE l.kind # "comment"
  <2>1. CommentPlaces(Append(lines, l)) = CommentPlaces(lines)
    BY <1>1, <1>5 DEF CommentPlaces
  <2> QED BY <1>2, <1>5, <2>1 DEF Comments
<1> QED BY <1>4, <1>5

-----------------------------------------------------------------------------
(* One more variable or section.                                           *)

\* No variable has two lines in a section.
Once(order) ==
  \A i, j \in 1 .. Len(order) :
    order[i].kind = "var" /\ order[i] = order[j] /\ SectionAt(order, i) = SectionAt(order, j)
      => i = j

\* A line for nm at a place of section sk: the other lines stay what they are.
LEMMA InsertVar ==
  ASSUME NEW order \in Seq(OrderLine), NEW more \in Seq(OrderLine),
         NEW p \in 1 .. Len(order) + 1, NEW nm \in Name, NEW sk,
         Inserted(more, order, p, VarLine(nm)), SectionAt(order, p - 1) = sk
  PROVE  /\ SectionsOnce(order) => SectionsOnce(more)
         /\ Comments(more) = Comments(order)
         /\ SectionAt(more, p) = sk
         /\ \A n \in Name : \A s :
              HasVar(more, n, s) <=> HasVar(order, n, s) \/ (n = nm /\ s = sk)
         /\ Once(order) /\ ~ HasVar(order, nm, sk) => Once(more)
<1>1. Len(order) \in Nat
  OBVIOUS
<1>2. VarLine(nm).kind = "var"
  BY DEF VarLine
<1>3. SectionsOnce(order) => SectionsOnce(more)
  BY <1>1, <1>2, InsertedOnce
<1>4. Comments(more) = Comments(order)
  BY <1>1, <1>2, InsertedComments
<1>5. SectionAt(more, p) = sk
  BY <1>1, <1>2, InsertedOwn
<1>6. p \in 1 .. Len(more) /\ more[p] = VarLine(nm)
  BY <1>1 DEF Inserted
<1>7. \A k \in 1 .. Len(order) :
        /\ Place(p, k) \in 1 .. Len(more) /\ more[Place(p, k)] = order[k]
        /\ SectionAt(more, Place(p, k)) = SectionAt(order, k)
  <2> TAKE k \in 1 .. Len(order)
  <2>1. Place(p, k) \in 1 .. Len(more)
    BY <1>1, Places
  <2>2. more[Place(p, k)] = order[k]
    BY DEF Inserted
  <2>3. VarLine(nm).kind # "sk" \/ p = Len(order) + 1
    BY <1>2
  <2>4. SectionAt(more, Place(p, k)) = SectionAt(order, k)
    BY <1>1, <2>3, InsertedSection
  <2> QED BY <2>1, <2>2, <2>4
<1>8. \A m \in 1 .. Len(more) : m # p => \E k \in 1 .. Len(order) : m = Place(p, k)
  BY <1>1, Places
<1>9. ASSUME NEW n \in Name, NEW s, HasVar(more, n, s)
      PROVE  HasVar(order, n, s) \/ (n = nm /\ s = sk)
  <2>1. PICK m \in 1 .. Len(more) : more[m] = VarLine(n) /\ SectionAt(more, m) = s
    BY <1>9 DEF HasVar
  <2>2. CASE m = p
    BY <1>5, <1>6, <2>1, <2>2 DEF VarLine
  <2>3. CASE m # p
    <3>1. PICK k \in 1 .. Len(order) : m = Place(p, k)
      BY <1>8, <2>3
    <3>2. order[k] = VarLine(n) /\ SectionAt(order, k) = s
      BY <1>7, <2>1, <3>1
    <3> QED BY <3>2 DEF HasVar
  <2> QED BY <2>2, <2>3
<1>10. ASSUME NEW n \in Name, NEW s, HasVar(order, n, s) \/ (n = nm /\ s = sk)
       PROVE  HasVar(more, n, s)
  <2>1. CASE HasVar(order, n, s)
    BY <1>7, <2>1 DEF HasVar
  <2>2. CASE n = nm /\ s = sk
    BY <1>5, <1>6, <2>2 DEF HasVar
  <2> QED BY <1>10, <2>1, <2>2
<1>11. ASSUME Once(order), ~ HasVar(order, nm, sk) PROVE Once(more)
  <2>1. ASSUME NEW m \in 1 .. Len(more), more[m] = VarLine(nm), SectionAt(more, m) = sk
        PROVE  m = p
    <3> SUFFICES ASSUME m # p
                 PROVE  FALSE
      OBVIOUS
    <3>1. PICK k \in 1 .. Len(order) : m = Place(p, k)
      BY <1>8
    <3>2. order[k] = VarLine(nm) /\ SectionAt(order, k) = sk
      BY <1>7, <2>1, <3>1
    <3> QED BY <1>11, <3>2 DEF HasVar
  <2>2. ASSUME NEW i \in 1 .. Len(more), NEW j \in 1 .. Len(more), i # p, j # p,
               more[i].kind = "var", more[i] = more[j],
               SectionAt(more, i) = SectionAt(more, j)
        PROVE  i = j
    <3>1. PICK a \in 1 .. Len(order) : i = Place(p, a)
      BY <1>8, <2>2
    <3>2. PICK b \in 1 .. Len(order) : j = Place(p, b)
      BY <1>8, <2>2
    <3>3. a = b
      <4>1. order[a].kind = "var" /\ order[a] = order[b]
            /\ SectionAt(order, a) = SectionAt(order, b)
        BY <1>7, <2>2, <3>1, <3>2
      <4> QED BY <1>11, <4>1 DEF Once
    <3> QED BY <3>1, <3>2, <3>3
  <2>3. ASSUME NEW i \in 1 .. Len(more), NEW j \in 1 .. Len(more),
               more[i].kind = "var", more[i] = more[j],
               SectionAt(more, i) = SectionAt(more, j)
        PROVE  i = j
    <3>1. CASE i = p
      <4>1. more[j] = VarLine(nm) /\ SectionAt(more, j) = sk
        BY <1>5, <1>6, <2>3, <3>1
      <4> QED BY <2>1, <3>1, <4>1
    <3>2. CASE j = p
      <4>1. more[i] = VarLine(nm) /\ SectionAt(more, i) = sk
        BY <1>5, <1>6, <2>3, <3>2
      <4> QED BY <2>1, <3>2, <4>1
    <3>3. CASE i # p /\ j # p
      BY <2>2, <2>3, <3>3
    <3> QED BY <3>1, <3>2, <3>3
  <2> QED BY <2>3 DEF Once
<1>12. Once(order) /\ ~ HasVar(order, nm, sk) => Once(more)
  BY <1>11
<1>13. \A n \in Name : \A s :
         HasVar(more, n, s) <=> HasVar(order, n, s) \/ (n = nm /\ s = sk)
  BY <1>9, <1>10, Zenon
<1> QED BY <1>3, <1>4, <1>5, <1>12, <1>13

\* The header of a section that has one, and what ZoneStart and ZoneEnd find: the
\* lines in between are those of the section.
LEMMA ZoneStartIs ==
  ASSUME NEW order \in Seq(OrderLine), NEW sk \in Subkey,
         sk = Global \/ InOrder(order, SkLine(sk))
  PROVE  /\ ZoneStart(order, sk) \in 1 .. Len(order) + 1
         /\ sk = Global => ZoneStart(order, sk) = 1
         /\ sk # Global => /\ ZoneStart(order, sk) - 1 \in 1 .. Len(order)
                           /\ order[ZoneStart(order, sk) - 1] = SkLine(sk)
<1>1. Len(order) \in Nat /\ DOMAIN order = 1 .. Len(order)
  OBVIOUS
<1>2. CASE sk = Global
  <2>1. ZoneStart(order, sk) = 1
    BY <1>2 DEF ZoneStart
  <2> QED BY <1>1, <1>2, <2>1
<1>3. CASE sk # Global
  <2> DEFINE H == {i \in DOMAIN order : order[i] = SkLine(sk)}
  <2>1. H # {}
    BY <1>3 DEF InOrder
  <2>2. H \in SUBSET Nat
    BY <1>1
  <2>3. Min(H) \in H
    BY <2>1, <2>2, MinIs
  <2>4. ZoneStart(order, sk) = 1 + Min(H)
    BY <1>3 DEF ZoneStart
  <2>5. Min(H) \in 1 .. Len(order) /\ order[Min(H)] = SkLine(sk)
    BY <1>1, <2>3
  <2> HIDE DEF H
  <2> QED BY <1>1, <1>3, <2>4, <2>5
<1> QED BY <1>2, <1>3

LEMMA ZoneEndIs ==
  ASSUME NEW order \in Seq(OrderLine), NEW sk \in Subkey,
         ZoneStart(order, sk) \in 1 .. Len(order) + 1
  PROVE  /\ ZoneEnd(order, sk) \in ZoneStart(order, sk) .. Len(order) + 1
         /\ \A i \in ZoneStart(order, sk) .. ZoneEnd(order, sk) - 1 : order[i].kind # "sk"
         /\ ZoneEnd(order, sk) =< Len(order) => order[ZoneEnd(order, sk)].kind = "sk"
<1> DEFINE start == ZoneStart(order, sk)
           H == {i \in start .. Len(order) : order[i].kind = "sk"} \cup {Len(order) + 1}
<1>1. Len(order) \in Nat
  OBVIOUS
<1>2. ZoneEnd(order, sk) = Min(H)
  BY Zenon DEF ZoneEnd
<1> HIDE DEF start
<1>3. start \in 1 .. Len(order) + 1
  BY DEF start
<1>4. H \in SUBSET Nat /\ H # {}
  BY <1>1, <1>3
<1>5. Min(H) \in H /\ \A y \in H : Min(H) =< y
  BY <1>4, MinIs
<1> DEFINE z == Min(H)
<1> HIDE DEF z
<1>6. z \in H /\ \A y \in H : z =< y
  BY <1>5 DEF z
<1>7. z \in start .. Len(order) + 1
  BY <1>1, <1>3, <1>6
<1>8. \A i \in start .. z - 1 : order[i].kind # "sk"
  BY <1>1, <1>3, <1>6, <1>7
<1>9. z =< Len(order) => order[z].kind = "sk"
  BY <1>1, <1>6
<1> QED BY <1>2, <1>7, <1>8, <1>9 DEF z, start

LEMMA ZoneIs ==
  ASSUME NEW order \in Seq(OrderLine), SectionsOnce(order), NEW sk \in Subkey,
         sk = Global \/ InOrder(order, SkLine(sk))
  PROVE  /\ ZoneEnd(order, sk) \in 1 .. Len(order) + 1
         /\ SectionAt(order, ZoneEnd(order, sk) - 1) = sk
         /\ \A i \in 1 .. Len(order) :
              order[i].kind = "var" /\ SectionAt(order, i) = sk
                => i \in ZoneStart(order, sk) .. ZoneEnd(order, sk) - 1
         /\ \A i \in ZoneStart(order, sk) .. ZoneEnd(order, sk) - 1 :
              i \in 1 .. Len(order) /\ SectionAt(order, i) = sk
<1> DEFINE a == ZoneStart(order, sk)
           z == ZoneEnd(order, sk)
<1>1. /\ a \in 1 .. Len(order) + 1
      /\ sk = Global => a = 1
      /\ sk # Global => a - 1 \in 1 .. Len(order) /\ order[a - 1] = SkLine(sk)
  BY ZoneStartIs
<1>2. /\ z \in a .. Len(order) + 1
      /\ \A i \in a .. z - 1 : order[i].kind # "sk"
      /\ z =< Len(order) => order[z].kind = "sk"
  BY <1>1, ZoneEndIs
<1> HIDE DEF a, z
<1>3. Len(order) \in Nat /\ a \in Nat /\ z \in Nat /\ z \in 1 .. Len(order) + 1
  BY <1>1, <1>2
<1>4. \A i \in 1 .. Len(order) : order[i] \in AnyLine
  BY DEF AnyLine
<1>5. \A i \in 1 .. Len(order) : order[i].kind = "sk" =>
        order[i].data \in Subkey \ {Global} /\ order[i] = SkLine(order[i].data)
  BY <1>4, LineKinds
<1>6. SkLine(sk).kind = "sk" /\ SkLine(sk).data = sk
  BY DEF SkLine
<1>7. ASSUME NEW i \in a - 1 .. z - 1 PROVE SectionAt(order, i) = sk
  <2>1. CASE sk = Global
    <3>1. \A k \in 1 .. i : k \in a .. z - 1
      BY <1>1, <1>3, <2>1
    <3>2. \A k \in 1 .. i : order[k].kind # "sk"
      BY <1>2, <3>1
    <3> QED BY <2>1, <3>2, SectionGlobal
  <2>2. CASE sk # Global
    <3>1. i \in Nat /\ a - 1 \in 1 .. i /\ order[a - 1].kind = "sk"
      BY <1>1, <1>3, <1>6, <2>2
    <3>2. \A k \in 1 .. i : order[k].kind = "sk" => k =< a - 1
      <4> TAKE k \in 1 .. i
      <4>1. k \notin a .. z - 1 => k =< a - 1
        BY <1>3
      <4> QED BY <1>2, <4>1
    <3>3. SectionAt(order, i) = order[a - 1].data
      BY <3>1, <3>2, SectionIs
    <3> QED BY <1>1, <1>6, <2>2, <3>3
  <2> QED BY <2>1, <2>2
<1>8. SectionAt(order, z - 1) = sk
  <2>1. z - 1 \in a - 1 .. z - 1
    BY <1>2, <1>3
  <2> QED BY <1>7, <2>1
<1>9. \A i \in a .. z - 1 : i \in 1 .. Len(order) /\ SectionAt(order, i) = sk
  <2> TAKE i \in a .. z - 1
  <2>1. i \in a - 1 .. z - 1 /\ i \in 1 .. Len(order)
    BY <1>1, <1>3
  <2> QED BY <1>7, <2>1
<1>10. ASSUME NEW i \in 1 .. Len(order), order[i].kind = "var", SectionAt(order, i) = sk
       PROVE  i \in a .. z - 1
  <2>1. i \in Nat
    OBVIOUS
  <2>2. \/ /\ \A k \in 1 .. i : order[k].kind # "sk"
           /\ SectionAt(order, i) = Global
        \/ \E j \in 1 .. i :
             /\ order[j].kind = "sk"
             /\ \A k \in 1 .. i : order[k].kind = "sk" => k =< j
             /\ SectionAt(order, i) = order[j].data
    BY <2>1, SectionCases, Zenon
  <2>3. CASE /\ \A k \in 1 .. i : order[k].kind # "sk"
             /\ SectionAt(order, i) = Global
    <3>1. sk = Global /\ a = 1
      BY <1>1, <1>10, <2>3
    <3>2. z > i
      <4>1. SUFFICES ASSUME z =< i PROVE FALSE
        BY <1>3
      <4>2. z \in 1 .. i /\ z =< Len(order)
        BY <1>3, <4>1
      <4> QED BY <1>2, <2>3, <4>2
    <3> QED BY <1>3, <3>1, <3>2
  <2>4. ASSUME NEW j \in 1 .. i, order[j].kind = "sk",
               \A k \in 1 .. i : order[k].kind = "sk" => k =< j,
               SectionAt(order, i) = order[j].data
        PROVE  i \in a .. z - 1
    <3>1. j \in 1 .. Len(order)
      OBVIOUS
    <3>2. sk # Global /\ order[j] = SkLine(sk)
      BY <1>5, <1>10, <2>4, <3>1
    <3>3. a - 1 \in 1 .. Len(order) /\ order[a - 1] = order[j]
      BY <1>1, <3>2
    <3>4. j = a - 1
      BY <2>4, <3>1, <3>3 DEF SectionsOnce
    <3>5. i # j
      BY <1>10, <2>4
    <3>6. i >= a
      BY <1>3, <3>4, <3>5
    <3>7. z > i
      <4>1. SUFFICES ASSUME z =< i PROVE FALSE
        BY <1>3
      <4>2. z \in 1 .. i /\ z =< Len(order)
        BY <1>3, <4>1
      <4>3. z =< j
        BY <1>2, <2>4, <4>2
      <4> QED BY <1>2, <1>3, <3>4, <4>3
    <3> QED BY <1>3, <3>6, <3>7
  <2> QED BY <2>2, <2>3, <2>4
<1> QED BY <1>3, <1>8, <1>9, <1>10 DEF a, z

\* A new variable has its line after set().
LEMMA WithVarIs ==
  ASSUME NEW order \in Seq(OrderLine), SectionsOnce(order), NEW nm \in Name,
         NEW sk \in Subkey, sk = Global \/ InOrder(order, SkLine(sk))
  PROVE  /\ WithVar(order, nm, sk) \in Seq(OrderLine)
         /\ SectionsOnce(WithVar(order, nm, sk))
         /\ Comments(WithVar(order, nm, sk)) = Comments(order)
         /\ \A n \in Name : \A s : HasVar(order, n, s) => HasVar(WithVar(order, nm, sk), n, s)
         /\ HasVar(WithVar(order, nm, sk), nm, sk)
         /\ Once(order) => Once(WithVar(order, nm, sk))
<1> DEFINE z == ZoneEnd(order, sk)
           InZone == \E i \in ZoneStart(order, sk) .. ZoneEnd(order, sk) - 1 :
                       order[i] = VarLine(nm)
<1>1. CASE InZone
  <2>1. WithVar(order, nm, sk) = order
    BY <1>1, Zenon DEF WithVar
  <2>2. HasVar(order, nm, sk)
    BY <1>1, ZoneIs DEF HasVar
  <2> QED BY <2>1, <2>2
<1>2. CASE ~ InZone
  <2>1. WithVar(order, nm, sk) = InsertAt(order, z, VarLine(nm))
    BY <1>2, Zenon DEF WithVar
  <2>2. ~ HasVar(order, nm, sk)
    <3>1. SUFFICES ASSUME NEW i \in 1 .. Len(order), order[i] = VarLine(nm),
                          SectionAt(order, i) = sk
                   PROVE  FALSE
      BY DEF HasVar
    <3>2. order[i].kind = "var"
      BY <3>1 DEF VarLine
    <3>3. i \in ZoneStart(order, sk) .. ZoneEnd(order, sk) - 1
      BY <3>1, <3>2, ZoneIs
    <3> QED BY <1>2, <3>1, <3>3
  <2>3. z \in 1 .. Len(order) + 1 /\ SectionAt(order, z - 1) = sk
    BY ZoneIs
  <2>4. VarLine(nm) \in OrderLine
    BY DEF OrderLine
  <2> HIDE DEF z, InZone
  <2> DEFINE more == InsertAt(order, z, VarLine(nm))
  <2>5. more \in Seq(OrderLine) /\ Inserted(more, order, z, VarLine(nm))
    BY <2>3, <2>4, InsertAtInserts, Zenon
  <2> HIDE DEF more
  <2>6. /\ SectionsOnce(order) => SectionsOnce(more)
        /\ Comments(more) = Comments(order)
        /\ \A n \in Name : \A s :
             HasVar(more, n, s) <=> HasVar(order, n, s) \/ (n = nm /\ s = sk)
        /\ Once(order) /\ ~ HasVar(order, nm, sk) => Once(more)
    BY <2>3, <2>5, InsertVar
  <2>7. WithVar(order, nm, sk) = more
    BY <2>1 DEF more
  <2> QED BY <2>2, <2>5, <2>6, <2>7, Zenon
<1> QED BY <1>1, <1>2

\* A section made anew has its line.
LEMMA WithSkIs ==
  ASSUME NEW order \in Seq(OrderLine), SectionsOnce(order), NEW sk \in Subkey
  PROVE  /\ WithSk(order, sk) \in Seq(OrderLine)
         /\ SectionsOnce(WithSk(order, sk))
         /\ Comments(WithSk(order, sk)) = Comments(order)
         /\ sk = Global \/ InOrder(WithSk(order, sk), SkLine(sk))
         /\ \A n \in Name : \A s : HasVar(WithSk(order, sk), n, s) <=> HasVar(order, n, s)
         /\ Once(order) => Once(WithSk(order, sk))
<1>1. CASE ~ (sk # Global /\ ~ InOrder(order, SkLine(sk)))
  <2>1. WithSk(order, sk) = order
    BY <1>1, Zenon DEF WithSk
  <2> QED BY <1>1, <2>1
<1>2. CASE sk # Global /\ ~ InOrder(order, SkLine(sk))
  <2> DEFINE more == Append(order, SkLine(sk))
             p == Len(order) + 1
  <2>1. WithSk(order, sk) = more
    BY <1>2, Zenon DEF WithSk
  <2>2. SkLine(sk) \in OrderLine
    BY <1>2 DEF OrderLine
  <2>3. SkLine(sk).kind = "sk"
    BY DEF SkLine
  <2>4. more \in Seq(OrderLine) /\ Inserted(more, order, p, SkLine(sk))
    BY <2>2, AppendInserts
  <2>5. /\ Len(order) \in Nat /\ DOMAIN order = 1 .. Len(order) /\ p \in 1 .. Len(order) + 1
        /\ DOMAIN more = 1 .. Len(more) /\ p \in 1 .. Len(more)
    BY <2>4 DEF Inserted
  <2> HIDE DEF more
  <2>6. SectionsOnce(more)
    <3>1. \A k \in 1 .. Len(order) : order[k] # SkLine(sk)
      BY <1>2, <2>5 DEF InOrder
    <3> QED BY <2>4, <2>5, <3>1, InsertedOnce
  <2>7. Comments(more) = Comments(order)
    BY <2>3, <2>4, <2>5, InsertedComments
  <2>8. InOrder(more, SkLine(sk))
    BY <2>4, <2>5 DEF InOrder, Inserted
  <2>9. \A k \in 1 .. Len(order) :
          /\ k \in 1 .. Len(more) /\ more[k] = order[k]
          /\ SectionAt(more, k) = SectionAt(order, k)
    <3> TAKE k \in 1 .. Len(order)
    <3>1. Place(p, k) = k
      BY DEF Place
    <3>2. SectionAt(more, Place(p, k)) = SectionAt(order, k)
      BY <2>4, <2>5, InsertedSection
    <3>3. more[Place(p, k)] = order[k] /\ k \in 1 .. Len(more)
      BY <2>4, <2>5 DEF Inserted
    <3> QED BY <3>1, <3>2, <3>3
  <2>10. \A m \in 1 .. Len(more) : more[m].kind = "var" => m \in 1 .. Len(order)
    <3> TAKE m \in 1 .. Len(more)
    <3>1. m # p => m \in 1 .. Len(order)
      BY <2>4, <2>5 DEF Inserted
    <3>2. more[p].kind = "sk"
      BY <2>3, <2>4 DEF Inserted
    <3> QED BY <3>1, <3>2
  <2>11. \A n : VarLine(n).kind = "var"
    BY DEF VarLine
  <2>12. \A n \in Name : \A s : HasVar(more, n, s) <=> HasVar(order, n, s)
    <3>1. ASSUME NEW n, NEW s, HasVar(more, n, s) PROVE HasVar(order, n, s)
      BY <2>9, <2>10, <2>11, <3>1 DEF HasVar
    <3>2. ASSUME NEW n, NEW s, HasVar(order, n, s) PROVE HasVar(more, n, s)
      BY <2>9, <3>2 DEF HasVar
    <3> QED BY <3>1, <3>2
  <2>13. ASSUME Once(order) PROVE Once(more)
    <3>1. SUFFICES ASSUME NEW i \in 1 .. Len(more), NEW j \in 1 .. Len(more),
                          more[i].kind = "var", more[i] = more[j],
                          SectionAt(more, i) = SectionAt(more, j)
                   PROVE  i = j
      BY DEF Once
    <3>2. i \in 1 .. Len(order) /\ j \in 1 .. Len(order)
      BY <2>10, <3>1
    <3>3. order[i].kind = "var" /\ order[i] = order[j]
          /\ SectionAt(order, i) = SectionAt(order, j)
      BY <2>9, <3>1, <3>2
    <3> QED BY <2>13, <3>2, <3>3 DEF Once
  <2> QED BY <2>1, <2>4, <2>6, <2>7, <2>8, <2>12, <2>13
<1> QED BY <1>1, <1>2

-----------------------------------------------------------------------------
(* Parsing.                                                                *)

\* The operations on the values.
LEMMA WithIs ==
  ASSUME NEW maps \in Maps, NEW nm \in Name, NEW val \in Value, NEW sk \in Subkey
  PROVE  /\ With(maps, nm, val, sk) \in Maps
         /\ \A n \in Name, s \in Subkey :
              getIn(With(maps, nm, val, sk), n, s)
                = IF n = nm /\ s = sk THEN val ELSE getIn(maps, n, s)
         /\ hasSubKey(With(maps, nm, val, sk), sk)
         /\ \A s \in Subkey : hasSubKey(maps, s) => hasSubKey(With(maps, nm, val, sk), s)
         /\ \A s \in Subkey : hasSubKey(With(maps, nm, val, sk), s) =>
              hasSubKey(maps, s) \/ s = sk
<1> DEFINE more == With(maps, nm, val, sk)
<1>1. val # NoValue
  BY ConfMapAssumption
<1>2. more \in Maps
  BY DEF Maps, With
<1>3. \A n \in Name, s \in Subkey :
        getIn(more, n, s) = IF n = nm /\ s = sk THEN val ELSE getIn(maps, n, s)
  BY DEF Maps, With, getIn
<1>4. \A m, s : hasSubKey(m, s) <=> \E n \in Name : getIn(m, n, s) # NoValue
  BY DEF hasSubKey, getIn
<1> HIDE DEF more
<1>5. hasSubKey(more, sk)
  BY <1>1, <1>3, <1>4
<1>6. \A s \in Subkey : hasSubKey(maps, s) => hasSubKey(more, s)
  BY <1>1, <1>3, <1>4
<1>7. \A s \in Subkey : hasSubKey(more, s) => hasSubKey(maps, s) \/ s = sk
  BY <1>3, <1>4
<1> QED BY <1>2, <1>3, <1>5, <1>6, <1>7 DEF more

\* What one more line says.
LEMMA SaysNext ==
  ASSUME NEW text \in Seq(Line), NEW l \in Line, NEW nm, NEW sk
  PROVE  Says(Append(text, l), nm, sk)
           = IF l.kind = "var" /\ l.data = nm /\ SectionAt(text, Len(text)) = sk
             THEN l.value ELSE Says(text, nm, sk)
<1> DEFINE more == Append(text, l)
           last == Len(text) + 1
<1>1. /\ more \in Seq(Line) /\ Len(more) = last /\ Len(text) \in Nat /\ last \in 1 .. last
      /\ more[last] = l /\ \A k \in 1 .. Len(text) : more[k] = text[k]
  OBVIOUS
<1> HIDE DEF more
<1>2. \A k \in 1 .. Len(text) : SectionAt(more, k) = SectionAt(text, k)
  <2> TAKE k \in 1 .. Len(text)
  <2>1. k \in Nat /\ \A j \in 1 .. k : more[j] = text[j]
    BY <1>1
  <2> QED BY <2>1, SectionSame
<1>3. l.kind = "var" => SectionAt(more, last) = SectionAt(text, Len(text))
  <2>1. SectionAt(more, Len(text)) = SectionAt(text, Len(text))
    BY <1>1, SectionSame
  <2>2. SectionAt(more, Len(text) + 1)
          = IF more[Len(text) + 1].kind = "sk" THEN more[Len(text) + 1].data
                                               ELSE SectionAt(more, Len(text))
    BY <1>1, SectionNext, Zenon
  <2> QED BY <1>1, <2>1, <2>2
<1>4. LinesFor(text, nm, sk) \in SUBSET (1 .. Len(text))
  BY SaysIs
<1>5. \A k \in 1 .. Len(text) : k \in LinesFor(more, nm, sk) <=> k \in LinesFor(text, nm, sk)
  BY <1>1, <1>2 DEF LinesFor
<1>6. \A k : k \in LinesFor(more, nm, sk) => k \in 1 .. Len(text) \/ k = last
  BY <1>1 DEF LinesFor
<1>7. CASE l.kind = "var" /\ l.data = nm /\ SectionAt(text, Len(text)) = sk
  <2>1. last \in LinesFor(more, nm, sk)
    BY <1>1, <1>3, <1>7 DEF LinesFor
  <2>2. LinesFor(more, nm, sk) \in SUBSET (1 .. last) /\ last \in Nat
    BY <1>1, SaysIs
  <2>3. Max(LinesFor(more, nm, sk)) = last
    <3>1. /\ Max(LinesFor(more, nm, sk)) \in LinesFor(more, nm, sk)
          /\ \A y \in LinesFor(more, nm, sk) : y =< Max(LinesFor(more, nm, sk))
      BY <2>1, <2>2, MaxIs
    <3> QED BY <2>1, <2>2, <3>1
  <2>4. Says(more, nm, sk) = more[Max(LinesFor(more, nm, sk))].value
    BY <1>1, <2>1, SaysIs
  <2> QED BY <1>1, <1>7, <2>3, <2>4 DEF more
<1>8. CASE ~ (l.kind = "var" /\ l.data = nm /\ SectionAt(text, Len(text)) = sk)
  <2>1. last \notin LinesFor(more, nm, sk)
    BY <1>1, <1>3, <1>8 DEF LinesFor
  <2>2. LinesFor(more, nm, sk) = LinesFor(text, nm, sk)
    BY <1>4, <1>5, <1>6, <2>1
  <2>3. CASE LinesFor(text, nm, sk) = {}
    BY <1>1, <1>8, <2>2, <2>3, SaysIs DEF more
  <2>4. CASE LinesFor(text, nm, sk) # {}
    <3>1. Max(LinesFor(text, nm, sk)) \in 1 .. Len(text)
      BY <1>1, <1>4, <2>4, MaxIs
    <3>2. more[Max(LinesFor(text, nm, sk))] = text[Max(LinesFor(text, nm, sk))]
      BY <1>1, <3>1
    <3>3. Says(more, nm, sk) = more[Max(LinesFor(text, nm, sk))].value
      BY <1>1, <2>2, <2>4, SaysIs
    <3>4. Says(text, nm, sk) = text[Max(LinesFor(text, nm, sk))].value
      BY <2>4, SaysIs
    <3>5. Says(more, nm, sk) = Says(text, nm, sk)
      BY <3>2, <3>3, <3>4
    <3> QED BY <1>8, <3>5 DEF more
  <2> QED BY <2>3, <2>4
<1> QED BY <1>7, <1>8

\* A section a text says something in has its header there.
LEMMA SaysHeader ==
  ASSUME NEW text \in Seq(Line), NEW nm, NEW sk, sk # Global,
         Says(text, nm, sk) # NoValue
  PROVE  \E j \in 1 .. Len(text) : text[j] = SkLine(sk)
<1>1. PICK i \in 1 .. Len(text) : SectionAt(text, i) = sk
  <2>1. LinesFor(text, nm, sk) # {}
    BY SaysIs
  <2> QED BY <2>1 DEF LinesFor
<1>2. PICK j \in 1 .. i : text[j].kind = "sk" /\ text[j].data = sk
  <2>1. i \in Nat
    OBVIOUS
  <2> QED BY <1>1, <2>1, SectionCases
<1>3. j \in 1 .. Len(text) /\ text[j] \in AnyLine
  BY <1>1 DEF AnyLine
<1> QED BY <1>2, <1>3, LineKinds

\* The same for the layout: a variable that has a line has its header.
LEMMA VarHeader ==
  ASSUME NEW order \in Seq(OrderLine), NEW nm, NEW sk, sk # Global, HasVar(order, nm, sk)
  PROVE  InOrder(order, SkLine(sk))
<1>1. PICK i \in 1 .. Len(order) : SectionAt(order, i) = sk
  BY DEF HasVar
<1>2. PICK j \in 1 .. i : order[j].kind = "sk" /\ order[j].data = sk
  <2>1. i \in Nat
    OBVIOUS
  <2> QED BY <1>1, <2>1, SectionCases
<1>3. j \in DOMAIN order /\ order[j] \in AnyLine
  BY <1>1 DEF AnyLine
<1> QED BY <1>2, <1>3, LineKinds DEF InOrder

\* What parsing the lines of done leaves in memory.
Follows(done, maps, order, key) ==
  /\ \A nm \in Name, sk \in Subkey : Says(done, nm, sk) = getIn(maps, nm, sk)
  /\ key = SectionAt(done, Len(done))
  /\ \A sk \in Subkey \ {Global} : InOrder(order, SkLine(sk)) => hasSubKey(maps, sk)
  /\ \A nm \in Name, sk \in Subkey :
       HasVar(order, nm, sk) <=> getIn(maps, nm, sk) # NoValue
  /\ Once(order)
  /\ key = Global \/ hasSubKey(maps, key) => SectionAt(order, Len(order)) = key
  /\ Comments(order) = Comments(done)
  /\ SectionsOnce(order)

\* Nothing is parsed yet.
LEMMA FollowsNothing ==
  Follows(<< >>, EmptyMaps, << >>, Global)
<1>1. \A i : SectionAt(<< >>, 0) = Global
  BY SectionGlobal
<1>2. \A nm \in Name, sk \in Subkey : getIn(EmptyMaps, nm, sk) = NoValue
  BY DEF EmptyMaps, getIn
<1>3. \A nm, sk : Says(<< >>, nm, sk) = NoValue
  <2> TAKE nm, sk
  <2>1. << >> \in Seq(Line) /\ Len(<< >>) = 0
    OBVIOUS
  <2>2. LinesFor(<< >>, nm, sk) = {}
    BY DEF LinesFor
  <2> QED BY <2>1, <2>2, SaysIs
<1>4. \A nm, sk : ~ HasVar(<< >>, nm, sk)
  BY DEF HasVar
<1>5. \A sk : ~ InOrder(<< >>, SkLine(sk))
  BY DEF InOrder
<1>6. Once(<< >>) /\ SectionsOnce(<< >>)
  BY DEF Once, SectionsOnce
<1> QED BY <1>1, <1>2, <1>3, <1>4, <1>5, <1>6 DEF Follows

\* A comment goes to the layout.
LEMMA FollowsComment ==
  ASSUME NEW done \in Seq(Line), NEW maps \in Maps, NEW order \in Seq(OrderLine), NEW key,
         Follows(done, maps, order, key), NEW l \in Line, l.kind = "comment"
  PROVE  /\ Append(order, l) \in Seq(OrderLine)
         /\ Follows(Append(done, l), maps, Append(order, l), key)
<1> DEFINE more == Append(order, l)
<1>1. l \in OrderLine
  <2>1. l \in AnyLine
    BY DEF AnyLine
  <2>2. l = Comment
    BY <2>1, LineKinds
  <2> QED BY <2>2 DEF OrderLine
<1>2. more \in Seq(OrderLine) /\ Inserted(more, order, Len(order) + 1, l)
  BY <1>1, AppendInserts
<1>3. /\ Len(order) \in Nat /\ Len(more) = Len(order) + 1
      /\ more[Len(order) + 1] = l /\ \A k \in 1 .. Len(order) : more[k] = order[k]
      /\ DOMAIN more = 1 .. Len(order) + 1 /\ DOMAIN order = 1 .. Len(order)
      /\ Len(done) \in Nat /\ Len(Append(done, l)) = Len(done) + 1
      /\ Append(done, l)[Len(done) + 1] = l
      /\ \A k \in 1 .. Len(done) : Append(done, l)[k] = done[k]
  BY <1>1
<1>4. \A nm, sk : Says(Append(done, l), nm, sk) = Says(done, nm, sk)
  BY SaysNext
<1>5. SectionAt(Append(done, l), Len(Append(done, l))) = SectionAt(done, Len(done))
  <2>1. SectionAt(Append(done, l), Len(done)) = SectionAt(done, Len(done))
    BY <1>3, SectionSame
  <2> QED BY <1>3, <2>1, SectionNext
<1>6. Comments(Append(done, l)) = Comments(done) + 1 /\ Comments(more) = Comments(order) + 1
  BY <1>1, AppendComments
<1> HIDE DEF more
<1>7. \A k \in 0 .. Len(order) : SectionAt(more, k) = SectionAt(order, k)
  <2> TAKE k \in 0 .. Len(order)
  <2>1. k \in Nat /\ \A j \in 1 .. k : more[j] = order[j]
    BY <1>3
  <2> QED BY <2>1, SectionSame
<1>8. SectionAt(more, Len(more)) = SectionAt(order, Len(order))
  <2>1. SectionAt(more, Len(order)) = SectionAt(order, Len(order))
    BY <1>3, <1>7
  <2> QED BY <1>3, <2>1, SectionNext
<1>9. \A sk : InOrder(more, SkLine(sk)) => InOrder(order, SkLine(sk))
  <2>1. \A sk : SkLine(sk).kind = "sk"
    BY DEF SkLine
  <2> QED BY <1>3, <2>1 DEF InOrder
<1>10. \A k \in 1 .. Len(more) : more[k].kind # "comment" =>
         /\ k \in 1 .. Len(order) /\ more[k] = order[k]
         /\ SectionAt(more, k) = SectionAt(order, k)
  BY <1>3, <1>7
<1>11. \A nm, sk : HasVar(more, nm, sk) <=> HasVar(order, nm, sk)
  <2> TAKE nm, sk
  <2>1. VarLine(nm).kind = "var"
    BY DEF VarLine
  <2>2. HasVar(more, nm, sk) => HasVar(order, nm, sk)
    BY <1>10, <2>1 DEF HasVar
  <2>3. HasVar(order, nm, sk) => HasVar(more, nm, sk)
    BY <1>3, <1>7 DEF HasVar
  <2> QED BY <2>2, <2>3
<1>12. Once(more)
  <2>1. Once(order)
    BY DEF Follows
  <2>2. SUFFICES ASSUME NEW i \in 1 .. Len(more), NEW j \in 1 .. Len(more),
                        more[i].kind = "var", more[i] = more[j],
                        SectionAt(more, i) = SectionAt(more, j)
                 PROVE  i = j
    BY DEF Once
  <2> QED BY <1>10, <2>1, <2>2 DEF Once
<1>13. SectionsOnce(more)
  <2>1. l.kind # "sk" /\ SectionsOnce(order)
    BY DEF Follows
  <2>2. Len(order) + 1 \in 1 .. Len(order) + 1
    BY <1>3
  <2> QED BY <1>2, <1>3, <2>1, <2>2, InsertedOnce
<1>14. Follows(Append(done, l), maps, more, key)
  BY <1>4, <1>5, <1>6, <1>8, <1>9, <1>11, <1>12, <1>13, Zenon DEF Follows
<1> QED BY <1>2, <1>14 DEF more

\* A last line without its end is passed over.
LEMMA FollowsCut ==
  ASSUME NEW done \in Seq(Line), NEW maps \in Maps, NEW order \in Seq(OrderLine), NEW key,
         Follows(done, maps, order, key), NEW l \in Line, l.kind = "cut"
  PROVE  Follows(Append(done, l), maps, order, key)
<1>1. /\ Len(done) \in Nat /\ Len(Append(done, l)) = Len(done) + 1
      /\ Append(done, l)[Len(done) + 1] = l
      /\ \A k \in 1 .. Len(done) : Append(done, l)[k] = done[k]
  OBVIOUS
<1>2. \A nm, sk : Says(Append(done, l), nm, sk) = Says(done, nm, sk)
  BY SaysNext
<1>3. SectionAt(Append(done, l), Len(Append(done, l))) = SectionAt(done, Len(done))
  <2>1. SectionAt(Append(done, l), Len(done)) = SectionAt(done, Len(done))
    BY <1>1, SectionSame
  <2> QED BY <1>1, <2>1, SectionNext
<1>4. Comments(Append(done, l)) = Comments(done)
  <2>1. Comments(Append(done, l)) = Comments(done) + 0
    BY AppendComments
  <2>2. Comments(done) \in Nat
    BY <1>1, CommentsFinite
  <2> QED BY <2>1, <2>2
<1> QED BY <1>2, <1>3, <1>4, Zenon DEF Follows

\* A section header only selects the section, which has no value yet.
LEMMA FollowsSection ==
  ASSUME NEW done \in Seq(Line), NEW maps \in Maps, NEW order \in Seq(OrderLine), NEW key,
         Follows(done, maps, order, key), NEW l \in Line, l.kind = "sk",
         SectionsOnce(Append(done, l))
  PROVE  Follows(Append(done, l), maps, order, l.data)
<1>1. l \in AnyLine
  BY DEF AnyLine
<1>2. l.data \in Subkey \ {Global} /\ l = SkLine(l.data)
  BY <1>1, LineKinds
<1>3. /\ Len(done) \in Nat /\ Len(Append(done, l)) = Len(done) + 1
      /\ Append(done, l)[Len(done) + 1] = l
      /\ \A k \in 1 .. Len(done) : Append(done, l)[k] = done[k]
  OBVIOUS
<1>4. \A nm, sk : Says(Append(done, l), nm, sk) = Says(done, nm, sk)
  BY SaysNext
<1>5. SectionAt(Append(done, l), Len(Append(done, l))) = l.data
  BY <1>3, SectionNext
<1>6. ~ hasSubKey(maps, l.data)
  <2>1. SUFFICES ASSUME NEW nm \in Name, getIn(maps, nm, l.data) # NoValue PROVE FALSE
    BY DEF hasSubKey, getIn
  <2>2. Says(done, nm, l.data) # NoValue
    BY <1>2, <2>1 DEF Follows
  <2>3. PICK j \in 1 .. Len(done) : done[j] = SkLine(l.data)
    BY <1>2, <2>2, SaysHeader
  <2>4. Append(done, l)[j] = l /\ j \in 1 .. Len(Append(done, l)) /\ j # Len(done) + 1
        /\ Len(done) + 1 \in 1 .. Len(Append(done, l))
    BY <1>2, <1>3, <2>3
  <2> QED BY <1>3, <2>4 DEF SectionsOnce
<1>7. Comments(Append(done, l)) = Comments(done)
  <2>1. Comments(Append(done, l)) = Comments(done) + 0
    BY AppendComments
  <2>2. Comments(done) \in Nat
    BY <1>3, CommentsFinite
  <2> QED BY <2>1, <2>2
<1> QED BY <1>2, <1>4, <1>5, <1>6, <1>7, Zenon DEF Follows

\* A variable that has a value gets another one.
LEMMA FollowsAgain ==
  ASSUME NEW done \in Seq(Line), NEW maps \in Maps, NEW order \in Seq(OrderLine),
         NEW key \in Subkey, Follows(done, maps, order, key), NEW l \in Line,
         l.kind = "var", getIn(maps, l.data, key) # NoValue
  PROVE  Follows(Append(done, l), With(maps, l.data, l.value, key), order, key)
<1> DEFINE more == With(maps, l.data, l.value, key)
<1>1. l \in AnyLine
  BY DEF AnyLine
<1>2. l.data \in Name /\ l.value \in Value /\ l.value # NoValue
  BY <1>1, LineKinds, ConfMapAssumption
<1>3. /\ \A n \in Name, s \in Subkey :
           getIn(more, n, s) = IF n = l.data /\ s = key THEN l.value ELSE getIn(maps, n, s)
      /\ \A s \in Subkey : hasSubKey(maps, s) => hasSubKey(more, s)
  BY <1>2, WithIs
<1> HIDE DEF more
<1>4. key = SectionAt(done, Len(done))
  BY DEF Follows
<1>5. \A nm \in Name, sk \in Subkey : Says(Append(done, l), nm, sk) = getIn(more, nm, sk)
  <2> TAKE nm \in Name, sk \in Subkey
  <2>1. Says(done, nm, sk) = getIn(maps, nm, sk)
    BY DEF Follows
  <2>2. Says(Append(done, l), nm, sk)
          = IF l.kind = "var" /\ l.data = nm /\ SectionAt(done, Len(done)) = sk
            THEN l.value ELSE Says(done, nm, sk)
    BY SaysNext
  <2> QED BY <1>3, <1>4, <2>1, <2>2
<1>6. /\ Len(done) \in Nat /\ Len(Append(done, l)) = Len(done) + 1
      /\ Append(done, l)[Len(done) + 1] = l
      /\ \A k \in 1 .. Len(done) : Append(done, l)[k] = done[k]
  OBVIOUS
<1>7. key = SectionAt(Append(done, l), Len(Append(done, l)))
  <2>1. SectionAt(Append(done, l), Len(done)) = SectionAt(done, Len(done))
    BY <1>6, SectionSame
  <2> QED BY <1>4, <1>6, <2>1, SectionNext
<1>8. Comments(Append(done, l)) = Comments(done)
  <2>1. Comments(Append(done, l)) = Comments(done) + 0
    BY AppendComments
  <2>2. Comments(done) \in Nat
    BY <1>6, CommentsFinite
  <2> QED BY <2>1, <2>2
<1>9. \A nm \in Name, sk \in Subkey :
        HasVar(order, nm, sk) <=> getIn(more, nm, sk) # NoValue
  <2> TAKE nm \in Name, sk \in Subkey
  <2>1. HasVar(order, nm, sk) <=> getIn(maps, nm, sk) # NoValue
    BY DEF Follows
  <2> QED BY <1>2, <1>3, <2>1
<1>10. hasSubKey(maps, key)
  BY <1>2 DEF hasSubKey, getIn
<1>11. SectionAt(order, Len(order)) = key
  BY <1>10 DEF Follows
<1>12. \A sk \in Subkey \ {Global} : InOrder(order, SkLine(sk)) => hasSubKey(more, sk)
  BY <1>3 DEF Follows
<1>13. Follows(Append(done, l), more, order, key)
  BY <1>5, <1>7, <1>8, <1>9, <1>11, <1>12, Zenon DEF Follows
<1> QED BY <1>13 DEF more

\* The layout a new variable is added to: it ends in the section being parsed.
WithKey(maps, order, key) == IF hasSubKey(maps, key) THEN order ELSE WithSk(order, key)

LEMMA FollowsKey ==
  ASSUME NEW done \in Seq(Line), NEW maps \in Maps, NEW order \in Seq(OrderLine),
         NEW key \in Subkey, Follows(done, maps, order, key)
  PROVE  /\ WithKey(maps, order, key) \in Seq(OrderLine)
         /\ SectionsOnce(WithKey(maps, order, key))
         /\ Comments(WithKey(maps, order, key)) = Comments(order)
         /\ \A n \in Name : \A s :
              HasVar(WithKey(maps, order, key), n, s) <=> HasVar(order, n, s)
         /\ Once(WithKey(maps, order, key))
         /\ SectionAt(WithKey(maps, order, key), Len(WithKey(maps, order, key))) = key
         /\ \A sk \in Subkey \ {Global} : InOrder(WithKey(maps, order, key), SkLine(sk)) =>
              hasSubKey(maps, sk) \/ sk = key
<1>1. SectionsOnce(order) /\ Once(order)
  BY DEF Follows
<1>2. CASE hasSubKey(maps, key)
  <2>1. WithKey(maps, order, key) = order
    BY <1>2, Zenon DEF WithKey
  <2>2. SectionAt(order, Len(order)) = key
    BY <1>2 DEF Follows
  <2>3. \A sk \in Subkey \ {Global} : InOrder(order, SkLine(sk)) => hasSubKey(maps, sk)
    BY DEF Follows
  <2> QED BY <1>1, <2>1, <2>2, <2>3, Zenon
<1>3. CASE ~ hasSubKey(maps, key) /\ key = Global
  <2>1. WithKey(maps, order, key) = order
    BY <1>3, Zenon DEF WithKey, WithSk
  <2>2. SectionAt(order, Len(order)) = key
    BY <1>3 DEF Follows
  <2>3. \A sk \in Subkey \ {Global} : InOrder(order, SkLine(sk)) => hasSubKey(maps, sk)
    BY DEF Follows
  <2> QED BY <1>1, <2>1, <2>2, <2>3, Zenon
<1>4. CASE ~ hasSubKey(maps, key) /\ key # Global
  <2> DEFINE more == WithSk(order, key)
  <2>1. WithKey(maps, order, key) = more
    BY <1>4, Zenon DEF WithKey
  <2>2. ~ InOrder(order, SkLine(key))
    BY <1>4 DEF Follows
  <2>3. more = Append(order, SkLine(key))
    BY <1>4, <2>2, Zenon DEF WithSk
  <2>4. /\ more \in Seq(OrderLine) /\ SectionsOnce(more)
        /\ Comments(more) = Comments(order)
        /\ \A n \in Name : \A s : HasVar(more, n, s) <=> HasVar(order, n, s)
        /\ Once(order) => Once(more)
    BY <1>1, WithSkIs
  <2>5. SkLine(key) \in OrderLine /\ SkLine(key).kind = "sk" /\ SkLine(key).data = key
    BY <1>4 DEF OrderLine, SkLine
  <2> HIDE DEF more
  <2>6. /\ Len(order) \in Nat /\ Len(more) = Len(order) + 1
        /\ more[Len(order) + 1] = SkLine(key)
        /\ \A k \in 1 .. Len(order) : more[k] = order[k]
        /\ DOMAIN more = 1 .. Len(order) + 1 /\ DOMAIN order = 1 .. Len(order)
    BY <2>3, <2>5
  <2>7. SectionAt(more, Len(more)) = key
    <3>1. SectionAt(more, Len(order) + 1)
            = IF more[Len(order) + 1].kind = "sk" THEN more[Len(order) + 1].data
                                                  ELSE SectionAt(more, Len(order))
      BY <2>6, SectionNext, Zenon
    <3> QED BY <2>5, <2>6, <3>1
  <2>8. \A sk \in Subkey \ {Global} :
          InOrder(more, SkLine(sk)) => hasSubKey(maps, sk) \/ sk = key
    <3>1. ASSUME NEW sk \in Subkey \ {Global}, InOrder(more, SkLine(sk))
          PROVE  hasSubKey(maps, sk) \/ sk = key
      <4>1. PICK k \in 1 .. Len(order) + 1 : more[k] = SkLine(sk)
        BY <2>6, <3>1 DEF InOrder
      <4>2. CASE k = Len(order) + 1
        BY <2>6, <4>1, <4>2 DEF SkLine
      <4>3. CASE k # Len(order) + 1
        <5>1. k \in DOMAIN order /\ order[k] = SkLine(sk)
          BY <2>6, <4>1, <4>3
        <5>2. InOrder(order, SkLine(sk))
          BY <5>1 DEF InOrder
        <5> QED BY <5>2 DEF Follows
      <4> QED BY <4>2, <4>3
    <3> QED BY <3>1
  <2> QED BY <1>1, <2>1, <2>4, <2>7, <2>8, Zenon
<1> QED BY <1>2, <1>3, <1>4

\* A new variable.
LEMMA FollowsVariable ==
  ASSUME NEW done \in Seq(Line), NEW maps \in Maps, NEW order \in Seq(OrderLine),
         NEW key \in Subkey, Follows(done, maps, order, key), NEW l \in Line,
         l.kind = "var", getIn(maps, l.data, key) = NoValue
  PROVE  /\ Append(WithKey(maps, order, key), VarLine(l.data)) \in Seq(OrderLine)
         /\ Follows(Append(done, l), With(maps, l.data, l.value, key),
                    Append(WithKey(maps, order, key), VarLine(l.data)), key)
<1> DEFINE more == With(maps, l.data, l.value, key)
           base == WithKey(maps, order, key)
           new == Append(base, VarLine(l.data))
<1>1. l \in AnyLine
  BY DEF AnyLine
<1>2. l.data \in Name /\ l.value \in Value /\ l.value # NoValue
  BY <1>1, LineKinds, ConfMapAssumption
<1>3. /\ \A n \in Name, s \in Subkey :
           getIn(more, n, s) = IF n = l.data /\ s = key THEN l.value ELSE getIn(maps, n, s)
      /\ \A s \in Subkey : hasSubKey(maps, s) => hasSubKey(more, s)
      /\ hasSubKey(more, key)
  BY <1>2, WithIs
<1>4. /\ base \in Seq(OrderLine) /\ SectionsOnce(base) /\ Comments(base) = Comments(order)
      /\ \A n \in Name : \A s : HasVar(base, n, s) <=> HasVar(order, n, s)
      /\ Once(base) /\ SectionAt(base, Len(base)) = key
      /\ \A sk \in Subkey \ {Global} :
           InOrder(base, SkLine(sk)) => hasSubKey(maps, sk) \/ sk = key
  BY FollowsKey
<1> HIDE DEF more, base
<1>5. VarLine(l.data) \in OrderLine /\ VarLine(l.data).kind = "var"
  BY <1>2 DEF OrderLine, VarLine
<1>6. new \in Seq(OrderLine) /\ Inserted(new, base, Len(base) + 1, VarLine(l.data))
  BY <1>4, <1>5, AppendInserts
<1>7. /\ Len(base) \in Nat /\ Len(base) + 1 \in 1 .. Len(base) + 1
      /\ Len(base) + 1 - 1 = Len(base) /\ Len(new) = Len(base) + 1
      /\ new[Len(base) + 1] = VarLine(l.data)
      /\ \A k \in 1 .. Len(base) : new[k] = base[k]
      /\ DOMAIN new = 1 .. Len(base) + 1 /\ DOMAIN base = 1 .. Len(base)
  BY <1>4, <1>5
<1> HIDE DEF new
<1>8. ~ HasVar(base, l.data, key)
  <2>1. ~ HasVar(order, l.data, key)
    BY <1>2 DEF Follows
  <2> QED BY <1>2, <1>4, <2>1
<1>9. /\ SectionsOnce(base) => SectionsOnce(new)
      /\ Comments(new) = Comments(base)
      /\ SectionAt(new, Len(base) + 1) = key
      /\ \A n \in Name : \A s :
           HasVar(new, n, s) <=> HasVar(base, n, s) \/ (n = l.data /\ s = key)
      /\ Once(base) /\ ~ HasVar(base, l.data, key) => Once(new)
  <2>1. SectionAt(base, Len(base) + 1 - 1) = key
    BY <1>4, <1>7
  <2> QED BY <1>2, <1>4, <1>6, <1>7, <2>1, InsertVar
<1>10. key = SectionAt(done, Len(done))
  BY DEF Follows
<1>11. \A nm \in Name, sk \in Subkey : Says(Append(done, l), nm, sk) = getIn(more, nm, sk)
  <2> TAKE nm \in Name, sk \in Subkey
  <2>1. Says(done, nm, sk) = getIn(maps, nm, sk)
    BY DEF Follows
  <2>2. Says(Append(done, l), nm, sk)
          = IF l.kind = "var" /\ l.data = nm /\ SectionAt(done, Len(done)) = sk
            THEN l.value ELSE Says(done, nm, sk)
    BY SaysNext
  <2> QED BY <1>3, <1>10, <2>1, <2>2
<1>12. /\ Len(done) \in Nat /\ Len(Append(done, l)) = Len(done) + 1
       /\ Append(done, l)[Len(done) + 1] = l
       /\ \A k \in 1 .. Len(done) : Append(done, l)[k] = done[k]
  OBVIOUS
<1>13. key = SectionAt(Append(done, l), Len(Append(done, l)))
  <2>1. SectionAt(Append(done, l), Len(done)) = SectionAt(done, Len(done))
    BY <1>12, SectionSame
  <2> QED BY <1>10, <1>12, <2>1, SectionNext
<1>14. Comments(new) = Comments(Append(done, l))
  <2>1. Comments(Append(done, l)) = Comments(done) + 0
    BY AppendComments
  <2>2. Comments(done) \in Nat /\ Comments(order) = Comments(done)
    BY <1>12, CommentsFinite DEF Follows
  <2> QED BY <1>4, <1>9, <2>1, <2>2
<1>15. \A nm \in Name, sk \in Subkey :
         HasVar(new, nm, sk) <=> getIn(more, nm, sk) # NoValue
  <2> TAKE nm \in Name, sk \in Subkey
  <2>1. HasVar(order, nm, sk) <=> getIn(maps, nm, sk) # NoValue
    BY DEF Follows
  <2> QED BY <1>2, <1>3, <1>4, <1>9, <2>1
<1>16. \A sk \in Subkey \ {Global} : InOrder(new, SkLine(sk)) => hasSubKey(more, sk)
  <2>1. ASSUME NEW sk \in Subkey \ {Global}, InOrder(new, SkLine(sk))
        PROVE  hasSubKey(more, sk)
    <3>1. PICK k \in 1 .. Len(base) + 1 : new[k] = SkLine(sk)
      BY <1>7, <2>1 DEF InOrder
    <3>2. SkLine(sk).kind = "sk"
      BY DEF SkLine
    <3>3. k \in DOMAIN base /\ base[k] = SkLine(sk)
      BY <1>5, <1>7, <3>1, <3>2
    <3>4. InOrder(base, SkLine(sk))
      BY <3>3 DEF InOrder
    <3> QED BY <1>3, <1>4, <3>4
  <2> QED BY <2>1
<1>17. SectionAt(new, Len(new)) = key /\ Once(new) /\ SectionsOnce(new)
  BY <1>4, <1>7, <1>8, <1>9
<1>18. Follows(Append(done, l), more, new, key)
  BY <1>11, <1>13, <1>14, <1>15, <1>16, <1>17, Zenon DEF Follows
<1> QED BY <1>6, <1>18 DEF more, base, new

-----------------------------------------------------------------------------
(* Changing values.                                                        *)

\* Values that are gone need no line.
LEMMA PlacedLess ==
  ASSUME NEW order, NEW maps, NEW less, Placed(order, maps),
         \A nm \in Name, sk \in Subkey :
           getIn(less, nm, sk) # NoValue => getIn(maps, nm, sk) # NoValue
  PROVE  Placed(order, less)
BY DEF Placed

LEMMA WithoutIs ==
  ASSUME NEW maps \in Maps, NEW nm \in Name, NEW sk \in Subkey
  PROVE  /\ Without(maps, nm, sk) \in Maps /\ WithoutKey(maps, sk) \in Maps
         /\ \A n \in Name, s \in Subkey :
              getIn(Without(maps, nm, sk), n, s) # NoValue => getIn(maps, n, s) # NoValue
         /\ \A n \in Name, s \in Subkey :
              getIn(WithoutKey(maps, sk), n, s) # NoValue => getIn(maps, n, s) # NoValue
<1>1. Without(maps, nm, sk) \in Maps /\ WithoutKey(maps, sk) \in Maps
  BY DEF Maps, Without, WithoutKey
<1>2. \A n \in Name, s \in Subkey :
        getIn(Without(maps, nm, sk), n, s) # NoValue => getIn(maps, n, s) # NoValue
  BY DEF Maps, Without, getIn
<1>3. \A n \in Name, s \in Subkey :
        getIn(WithoutKey(maps, sk), n, s) # NoValue => getIn(maps, n, s) # NoValue
  BY DEF Maps, WithoutKey, getIn
<1> QED BY <1>1, <1>2, <1>3

\* A section that has a value has its header, so set() finds where it starts.
LEMMA PlacedHeader ==
  ASSUME NEW order \in Seq(OrderLine), NEW maps, Placed(order, maps),
         NEW sk \in Subkey, sk # Global, hasSubKey(maps, sk)
  PROVE  InOrder(order, SkLine(sk))
<1>1. PICK nm \in Name : getIn(maps, nm, sk) # NoValue
  BY DEF hasSubKey, getIn
<1> QED BY <1>1, VarHeader DEF Placed

\* The layout after set() of a variable that had no value.
LEMMA SetOrder ==
  ASSUME NEW order \in Seq(OrderLine), SectionsOnce(order), NEW maps \in Maps,
         NEW nm \in Name, NEW val \in Value, NEW sk \in Subkey,
         sk # Global /\ hasSubKey(maps, sk) => InOrder(order, SkLine(sk))
  PROVE  /\ WithVar(WithKey(maps, order, sk), nm, sk) \in Seq(OrderLine)
         /\ SectionsOnce(WithVar(WithKey(maps, order, sk), nm, sk))
         /\ Comments(WithVar(WithKey(maps, order, sk), nm, sk)) = Comments(order)
         /\ Placed(order, maps) =>
              Placed(WithVar(WithKey(maps, order, sk), nm, sk), With(maps, nm, val, sk))
         /\ Once(order) => Once(WithVar(WithKey(maps, order, sk), nm, sk))
<1> DEFINE base == WithKey(maps, order, sk)
           new == WithVar(base, nm, sk)
<1>1. /\ base \in Seq(OrderLine) /\ SectionsOnce(base) /\ Comments(base) = Comments(order)
      /\ sk = Global \/ InOrder(base, SkLine(sk))
      /\ \A n \in Name : \A s : HasVar(base, n, s) <=> HasVar(order, n, s)
      /\ Once(order) => Once(base)
  <2>1. CASE hasSubKey(maps, sk)
    <3>1. base = order
      BY <2>1, Zenon DEF WithKey
    <3> HIDE DEF base
    <3> QED BY <2>1, <3>1, Zenon
  <2>2. CASE ~ hasSubKey(maps, sk)
    <3>1. base = WithSk(order, sk)
      BY <2>2, Zenon DEF WithKey
    <3> HIDE DEF base
    <3> QED BY <3>1, WithSkIs
  <2> QED BY <2>1, <2>2
<1> HIDE DEF base
<1>2. /\ new \in Seq(OrderLine) /\ SectionsOnce(new) /\ Comments(new) = Comments(base)
      /\ \A n \in Name : \A s : HasVar(base, n, s) => HasVar(new, n, s)
      /\ HasVar(new, nm, sk)
      /\ Once(base) => Once(new)
  BY <1>1, WithVarIs
<1> HIDE DEF new
<1>3. Placed(order, maps) => Placed(new, With(maps, nm, val, sk))
  <2>1. \A n \in Name, s \in Subkey :
          getIn(With(maps, nm, val, sk), n, s)
            = IF n = nm /\ s = sk THEN val ELSE getIn(maps, n, s)
    BY WithIs
  <2> QED BY <1>1, <1>2, <2>1 DEF Placed
<1> QED BY <1>1, <1>2, <1>3 DEF new, base

\* And after set() of a variable that had one.
LEMMA SetAgain ==
  ASSUME NEW order, NEW maps \in Maps, NEW nm \in Name, NEW val \in Value,
         NEW sk \in Subkey, getIn(maps, nm, sk) # NoValue, Placed(order, maps)
  PROVE  Placed(order, With(maps, nm, val, sk))
<1>1. \A n \in Name, s \in Subkey :
        getIn(With(maps, nm, val, sk), n, s)
          = IF n = nm /\ s = sk THEN val ELSE getIn(maps, n, s)
  BY WithIs
<1> QED BY <1>1 DEF Placed

-----------------------------------------------------------------------------
(* The inductive invariant.                                                *)

\* After n lines of text, the values, the layout and the section are those of the
\* lines read; while the file holds what the object holds, the text is the file.
Parsed(text, n) ==
  /\ input = SubSeq(text, n + 1, Len(text))
  /\ saved => text = file
  /\ Follows(SubSeq(text, 1, n), m_submaps, m_order, submapkey)
ParseFits ==
  pc = "parse" => \E text \in Text \cup {file} : \E n \in 0 .. Len(text) : Parsed(text, n)

\* Every value has its line, and only one.
ReadyFits == pc = "ready" /\ original => Placed(m_order, m_submaps) /\ Once(m_order)

\* The file written says what is held, and has the comments of the layout.
SavedFits ==
  pc = "ready" /\ original /\ saved =>
    /\ \A nm \in Name, sk \in Subkey : Says(file, nm, sk) = getIn(m_submaps, nm, sk)
    /\ Comments(file) = Comments(m_order)

Inv ==
  /\ TypeOK
  /\ SectionsOnce(file) /\ SectionsOnce(m_order)
  /\ NeverDoomed /\ ParseFits /\ ReadyFits /\ SavedFits

\* A text to be parsed.
LEMMA TextIs ==
  ASSUME NEW text \in Text
  PROVE  text \in Seq(Line) /\ SectionsOnce(text)
BY ConfSimpleAssumption

\* Taking the lines of a text one by one.
LEMMA TextEnds ==
  ASSUME NEW text \in Seq(Line)
  PROVE  /\ SubSeq(text, 1, 0) = << >> /\ SubSeq(text, 0 + 1, Len(text)) = text
         /\ SubSeq(text, 1, Len(text)) = text
         /\ 0 \in 0 .. Len(text)
         /\ \A n \in 0 .. Len(text) : SubSeq(text, n + 1, Len(text)) = << >> => n = Len(text)
<1>1. Len(text) \in Nat /\ 0 \in 0 .. Len(text)
  OBVIOUS
<1>2. SubSeq(text, 1, 0) = << >>
  OBVIOUS
<1>3. SubSeq(text, 1, Len(text)) = text
  OBVIOUS
<1>4. SubSeq(text, 0 + 1, Len(text)) = text
  BY <1>3
<1>5. ASSUME NEW n \in 0 .. Len(text), SubSeq(text, n + 1, Len(text)) = << >>
      PROVE  n = Len(text)
  <2>1. Len(SubSeq(text, n + 1, Len(text))) = Len(text) - n
    BY <1>1
  <2> QED BY <1>1, <1>5, <2>1
<1> QED BY <1>1, <1>2, <1>3, <1>4, <1>5

LEMMA TextNext ==
  ASSUME NEW text \in Seq(Line), NEW n \in 0 .. Len(text),
         SubSeq(text, n + 1, Len(text)) # << >>
  PROVE  /\ n + 1 \in 0 .. Len(text)
         /\ SubSeq(text, 1, n) \in Seq(Line)
         /\ text[n + 1] \in Line
         /\ Head(SubSeq(text, n + 1, Len(text))) = text[n + 1]
         /\ Tail(SubSeq(text, n + 1, Len(text))) = SubSeq(text, n + 1 + 1, Len(text))
         /\ SubSeq(text, 1, n + 1) = Append(SubSeq(text, 1, n), text[n + 1])
<1>1. n # Len(text)
  OBVIOUS
<1>2. n + 1 \in 0 .. Len(text) /\ n + 1 \in 1 .. Len(text) /\ n \in Nat /\ Len(text) \in Nat
  BY <1>1
<1>3. SubSeq(text, 1, n) \in Seq(Line) /\ text[n + 1] \in Line
  BY <1>2
<1>4. Head(SubSeq(text, n + 1, Len(text))) = text[n + 1]
  BY <1>2
<1>5. Tail(SubSeq(text, n + 1, Len(text))) = SubSeq(text, n + 1 + 1, Len(text))
  BY <1>2
<1>6. SubSeq(text, 1, n + 1) = Append(SubSeq(text, 1, n), text[n + 1])
  BY <1>2
<1> QED BY <1>2, <1>3, <1>4, <1>5, <1>6

LEMMA EmptyMapsIs == EmptyMaps \in Maps /\ \A order : Placed(order, EmptyMaps)
<1>1. EmptyMaps \in Maps
  BY DEF EmptyMaps, Maps
<1>2. \A nm \in Name, sk \in Subkey : getIn(EmptyMaps, nm, sk) = NoValue
  BY DEF EmptyMaps, getIn
<1> QED BY <1>1, <1>2 DEF Placed

LEMMA InitInv ==
  ASSUME Init PROVE Inv
<1>1. file \in Seq(Line) /\ SectionsOnce(file)
  BY TextIs DEF Init
<1>2. << >> \in Seq(OrderLine) /\ << >> \in Seq(Line) /\ SectionsOnce(<< >>) /\ Once(<< >>)
  BY DEF SectionsOnce, Once
<1>3. TypeOK
  <2>1. 0 \in 0 .. MaxCopies /\ 0 \in 0 .. MaxRestarts
    BY ConfSimpleAssumption
  <2>2. input \in Seq(Line) /\ pc \in {"parse", "ready", "aborted"} /\ saved \in BOOLEAN
    BY <1>1, <1>2 DEF Init, ok
  <2> QED BY <1>1, <1>2, <2>1, <2>2, EmptyMapsIs, ConfMapAssumption DEF Init, TypeOK
<1>4. NeverDoomed
  BY DEF Init, NeverDoomed
<1>5. ParseFits
  <2>1. SUFFICES ASSUME pc = "parse"
                 PROVE  \E text \in Text \cup {file} : \E n \in 0 .. Len(text) : Parsed(text, n)
    BY DEF ParseFits
  <2>2. input = file
    BY <2>1 DEF Init
  <2>3. Follows(SubSeq(file, 1, 0), m_submaps, m_order, submapkey)
    BY <1>1, TextEnds, FollowsNothing DEF Init
  <2>4. Parsed(file, 0)
    BY <1>1, <2>2, <2>3, TextEnds DEF Parsed
  <2> QED BY <1>1, <2>4, TextEnds
<1>6. ReadyFits
  BY <1>2, EmptyMapsIs DEF Init, ReadyFits
<1>7. SavedFits
  BY DEF Init, SavedFits
<1> QED BY <1>1, <1>2, <1>3, <1>4, <1>5, <1>6, <1>7 DEF Inv, Init

\* A line is parsed, or there is none left.
LEMMA ParseInv ==
  ASSUME Inv, parseinput PROVE Inv'
<1> DEFINE Where(text, n) == text \in Text \cup {file} /\ n \in 0 .. Len(text)
<1>1. pc = "parse" /\ TypeOK /\ NeverDoomed /\ SectionsOnce(file) /\ SectionsOnce(m_order)
  BY DEF Inv, parseinput
<1>2. UNCHANGED <<file, status, m_holdWrites, saved, copies, restarts>>
  BY DEF parseinput
<1>3. PICK text \in Text \cup {file} : \E n \in 0 .. Len(text) : Parsed(text, n)
  BY <1>1 DEF Inv, ParseFits
<1>4. PICK n \in 0 .. Len(text) : Parsed(text, n)
  BY <1>3
<1>5. text \in Seq(Line) /\ SectionsOnce(text)
  BY <1>1, <1>3, TextIs DEF TypeOK
<1> DEFINE done == SubSeq(text, 1, n)
           rest == SubSeq(text, n + 1, Len(text))
<1>6. /\ input = rest /\ (saved => text = file)
      /\ Follows(done, m_submaps, m_order, submapkey)
  BY <1>4 DEF Parsed
<1>7. CASE input = << >>
  <2>1. pc' = "ready" /\ UNCHANGED <<m_submaps, m_order, submapkey, input>>
    BY <1>7 DEF parseinput
  <2>2. done = text
    BY <1>5, <1>6, <1>7, TextEnds
  <2>3. Follows(text, m_submaps, m_order, submapkey)
    BY <1>6, <2>2
  <2>4. TypeOK'
    BY <1>1, <1>2, <2>1 DEF TypeOK
  <2>5. NeverDoomed' /\ ParseFits'
    BY <2>1 DEF NeverDoomed, ParseFits
  <2>6. ReadyFits'
    <3>1. Placed(m_order, m_submaps) /\ Once(m_order)
      BY <2>3, Zenon DEF Follows, Placed
    <3>2. Placed(m_order, m_submaps)' /\ Once(m_order)'
      BY <2>1, <3>1
    <3> QED BY <3>2 DEF ReadyFits
  <2>7. SavedFits'
    <3>1. SUFFICES ASSUME saved'
                   PROVE  (/\ \A nm \in Name, sk \in Subkey :
                                Says(file, nm, sk) = getIn(m_submaps, nm, sk)
                           /\ Comments(file) = Comments(m_order))'
      BY DEF SavedFits
    <3>2. text = file
      BY <1>2, <1>6, <3>1
    <3>3. /\ \A nm \in Name, sk \in Subkey : Says(file, nm, sk) = getIn(m_submaps, nm, sk)
          /\ Comments(file) = Comments(m_order)
      BY <2>3, <3>2, Zenon DEF Follows
    <3> QED BY <1>2, <2>1, <3>3
  <2>8. SectionsOnce(file)' /\ SectionsOnce(m_order)'
    BY <1>1, <1>2, <2>1
  <2> QED BY <2>4, <2>5, <2>6, <2>7, <2>8 DEF Inv
<1>8. CASE input # << >>
  <2> DEFINE l == text[n + 1]
             next == SubSeq(text, 1, n + 1)
  <2>1. /\ pc' = pc /\ input' = Tail(input)
        /\ ParseComment \/ ParseCut \/ ParseSection \/ ParseVariable
    BY <1>8 DEF parseinput
  <2>2. /\ n + 1 \in 0 .. Len(text) /\ done \in Seq(Line) /\ l \in Line
        /\ Head(input) = l /\ Tail(input) = SubSeq(text, n + 1 + 1, Len(text))
        /\ next = Append(done, l)
    BY <1>5, <1>6, <1>8, TextNext
  <2>3. SectionsOnce(next)
    BY <1>5, <2>2, PrefixOnce, LinesAre
  <2>4. /\ m_submaps \in Maps /\ m_order \in Seq(OrderLine) /\ submapkey \in Subkey
        /\ Tail(input) \in Seq(Line)
    <3>1. input \in Seq(Line)
      BY <1>1 DEF TypeOK
    <3> QED BY <1>1, <1>8, <3>1 DEF TypeOK
  <2> HIDE DEF l, next, done, rest
  <2>5. /\ m_order' \in Seq(OrderLine) /\ m_submaps' \in Maps /\ submapkey' \in Subkey
        /\ Follows(next, m_submaps', m_order', submapkey')
    <3>1. CASE ParseComment
      <4>1. /\ l.kind = "comment" /\ m_order' = Append(m_order, l)
            /\ m_submaps' = m_submaps /\ submapkey' = submapkey
        BY <2>2, <3>1, Zenon DEF ParseComment
      <4>2. /\ Append(m_order, l) \in Seq(OrderLine)
            /\ Follows(Append(done, l), m_submaps, Append(m_order, l), submapkey)
        BY <1>6, <2>2, <2>4, <4>1, FollowsComment
      <4> QED BY <2>2, <2>4, <4>1, <4>2, Zenon
    <3>2. CASE ParseSection
      <4>1. /\ l.kind = "sk" /\ submapkey' = l.data
            /\ m_submaps' = m_submaps /\ m_order' = m_order
        BY <2>2, <3>2, Zenon DEF ParseSection
      <4>2. l.data \in Subkey
        <5>1. l \in AnyLine
          BY <2>2 DEF AnyLine
        <5> QED BY <4>1, <5>1, LineKinds
      <4>3. SectionsOnce(Append(done, l))
        BY <2>2, <2>3
      <4>4. Follows(Append(done, l), m_submaps, m_order, l.data)
        BY <1>6, <2>2, <2>4, <4>1, <4>3, FollowsSection
      <4> QED BY <2>2, <2>4, <4>1, <4>2, <4>4, Zenon
    <3>3. CASE ParseVariable
      <4>1. /\ l.kind = "var" /\ submapkey' = submapkey
            /\ m_submaps' = With(m_submaps, l.data, l.value, submapkey)
            /\ m_order' = IF getIn(m_submaps, l.data, submapkey) # NoValue THEN m_order
                          ELSE Append(WithKey(m_submaps, m_order, submapkey), VarLine(l.data))
        BY <2>2, <3>3, Zenon DEF ParseVariable, WithKey
      <4>2. m_submaps' \in Maps
        <5>1. l \in AnyLine
          BY <2>2 DEF AnyLine
        <5>2. l.data \in Name /\ l.value \in Value
          BY <2>2, <4>1, <5>1, LineKinds
        <5> QED BY <2>4, <4>1, <5>2, WithIs
      <4>3. CASE getIn(m_submaps, l.data, submapkey) # NoValue
        <5>1. m_order' = m_order
          BY <4>1, <4>3
        <5>2. Follows(Append(done, l), With(m_submaps, l.data, l.value, submapkey),
                      m_order, submapkey)
          BY <1>6, <2>2, <2>4, <4>1, <4>3, FollowsAgain
        <5> QED BY <2>2, <2>4, <4>1, <4>2, <5>1, <5>2, Zenon
      <4>4. CASE getIn(m_submaps, l.data, submapkey) = NoValue
        <5>1. m_order' = Append(WithKey(m_submaps, m_order, submapkey), VarLine(l.data))
          BY <4>1, <4>4
        <5>2. /\ Append(WithKey(m_submaps, m_order, submapkey), VarLine(l.data)) \in Seq(OrderLine)
              /\ Follows(Append(done, l), With(m_submaps, l.data, l.value, submapkey),
                         Append(WithKey(m_submaps, m_order, submapkey), VarLine(l.data)),
                         submapkey)
          BY <1>6, <2>2, <2>4, <4>1, <4>4, FollowsVariable
        <5> QED BY <2>2, <2>4, <4>1, <4>2, <5>1, <5>2, Zenon
      <4> QED BY <4>3, <4>4
    <3>4. CASE ParseCut
      <4>1. /\ l.kind = "cut"
            /\ m_order' = m_order /\ m_submaps' = m_submaps /\ submapkey' = submapkey
        BY <2>2, <3>4, Zenon DEF ParseCut
      <4>2. Follows(Append(done, l), m_submaps, m_order, submapkey)
        BY <1>6, <2>2, <2>4, <4>1, FollowsCut
      <4> QED BY <2>2, <2>4, <4>1, <4>2, Zenon
    <3> QED BY <2>1, <3>1, <3>2, <3>3, <3>4
  <2>6. TypeOK'
    BY <1>1, <1>2, <2>1, <2>4, <2>5 DEF TypeOK
  <2>7. pc' = "parse"
    BY <1>1, <2>1
  <2>8. NeverDoomed' /\ ReadyFits' /\ SavedFits'
    BY <2>7 DEF NeverDoomed, ReadyFits, SavedFits
  <2>9. ParseFits'
    <3>1. Parsed(text, n + 1)'
      <4>1. (input = SubSeq(text, n + 1 + 1, Len(text)))'
        BY <2>1, <2>2
      <4>2. (saved => text = file)'
        BY <1>2, <1>6
      <4>3. Follows(SubSeq(text, 1, n + 1), m_submaps, m_order, submapkey)'
        BY <2>5 DEF next
      <4> QED BY <4>1, <4>2, <4>3 DEF Parsed
    <3>2. text \in Text \cup {file'}
      BY <1>2
    <3> QED BY <2>2, <3>1, <3>2 DEF ParseFits
  <2>10. SectionsOnce(file)' /\ SectionsOnce(m_order)'
    BY <1>1, <1>2, <2>5 DEF Follows
  <2> QED BY <2>6, <2>8, <2>9, <2>10 DEF Inv
<1> QED BY <1>7, <1>8

\* What is written fits.
LEMMA OutputFits ==
  ASSUME NEW order \in Seq(OrderLine), NEW maps \in Maps, SectionsOnce(order)
  PROVE  /\ Output(order, maps) \in Seq(Line)
         /\ SectionsOnce(Output(order, maps))
         /\ Comments(Output(order, maps)) = Comments(order)
         /\ Placed(order, maps) =>
              \A nm \in Name, sk \in Subkey :
                Says(Output(order, maps), nm, sk) = getIn(maps, nm, sk)
BY OutputIs, OutputOnce, OutputComments, OutputSaysAll

\* An operation that changes the values or the layout, then calls write().
LEMMA WriteInv ==
  ASSUME Inv, pc = "ready", NEW held, write(held), m_holdWrites' \in BOOLEAN,
         UNCHANGED <<status, pc, input, submapkey, copies, restarts>>,
         m_submaps' \in Maps, m_order' \in Seq(OrderLine), SectionsOnce(m_order'),
         original => Placed(m_order', m_submaps') /\ Once(m_order')
  PROVE  Inv'
<1>1. TypeOK /\ SectionsOnce(file)
  BY DEF Inv
<1>2. \/ file' = Output(m_order', m_submaps') /\ saved' = TRUE
      \/ file' = file /\ saved' = FALSE
  BY DEF write
<1>3. file' \in Seq(Line) /\ SectionsOnce(file') /\ saved' \in BOOLEAN
  BY <1>1, <1>2, OutputFits DEF TypeOK
<1>4. TypeOK'
  BY <1>1, <1>3 DEF TypeOK
<1>5. NeverDoomed' /\ ParseFits'
  BY DEF NeverDoomed, ParseFits
<1>6. ReadyFits'
  BY DEF ReadyFits, original
<1>7. SavedFits'
  <2>1. SUFFICES ASSUME original', saved'
                 PROVE  (/\ \A nm \in Name, sk \in Subkey :
                              Says(file, nm, sk) = getIn(m_submaps, nm, sk)
                         /\ Comments(file) = Comments(m_order))'
    BY DEF SavedFits
  <2>2. file' = Output(m_order', m_submaps') /\ Placed(m_order', m_submaps')
    BY <1>2, <2>1 DEF original
  <2>3. /\ \A nm \in Name, sk \in Subkey : Says(file', nm, sk) = getIn(m_submaps', nm, sk)
        /\ Comments(file') = Comments(m_order')
    BY <2>2, OutputFits
  <2> QED BY <2>3
<1> QED BY <1>3, <1>4, <1>5, <1>6, <1>7 DEF Inv

LEMMA SetInv ==
  ASSUME Inv, NEW nm \in Name, NEW sk \in Subkey, NEW val \in Settable, set(nm, val, sk)
  PROVE  Inv'
<1>1. TypeOK /\ SectionsOnce(m_order) /\ pc = "ready"
  BY DEF Inv, set
<1>2. m_submaps \in Maps /\ m_order \in Seq(OrderLine) /\ val \in Value
  BY <1>1, ConfSimpleAssumption DEF TypeOK
<1>3. m_submaps' = With(m_submaps, nm, val, sk) /\ m_submaps' \in Maps
  BY <1>2, WithIs DEF set
<1>4. original => Placed(m_order, m_submaps) /\ Once(m_order)
  BY <1>1 DEF Inv, ReadyFits
<1>5. UNCHANGED <<status, m_holdWrites, input, submapkey, copies, restarts>>
  BY DEF set
<1>6. CASE Doomed(nm, sk)
  <2>1. pc' = "aborted" /\ UNCHANGED <<m_order, file, saved>>
    BY <1>6 DEF set
  <2>2. ~ original
    BY <1>2, <1>4, <1>6, PlacedHeader DEF Doomed
  <2>3. TypeOK'
    BY <1>1, <1>3, <1>5, <2>1 DEF TypeOK
  <2>4. NeverDoomed' /\ ParseFits' /\ ReadyFits' /\ SavedFits'
    BY <1>5, <2>1, <2>2 DEF NeverDoomed, ParseFits, ReadyFits, SavedFits, original
  <2>5. SectionsOnce(file)' /\ SectionsOnce(m_order)'
    BY <2>1 DEF Inv
  <2> QED BY <2>3, <2>4, <2>5 DEF Inv
<1>7. CASE ~ Doomed(nm, sk)
  <2>1. pc' = pc /\ m_order' = OrderAfterSet(nm, sk) /\ write(m_holdWrites)
    BY <1>7 DEF set
  <2>2. m_holdWrites' \in BOOLEAN
    BY <1>1, <1>5 DEF TypeOK
  <2>3. /\ m_order' \in Seq(OrderLine) /\ SectionsOnce(m_order')
        /\ original => Placed(m_order', m_submaps') /\ Once(m_order')
    <3>1. CASE getIn(m_submaps, nm, sk) # NoValue
      <4>1. m_order' = m_order
        BY <2>1, <3>1, Zenon DEF OrderAfterSet
      <4> QED BY <1>1, <1>2, <1>3, <1>4, <3>1, <4>1, SetAgain
    <3>2. CASE getIn(m_submaps, nm, sk) = NoValue
      <4>1. m_order' = WithVar(WithKey(m_submaps, m_order, sk), nm, sk)
        BY <2>1, <3>2, Zenon DEF OrderAfterSet, WithKey
      <4>2. sk # Global /\ hasSubKey(m_submaps, sk) => InOrder(m_order, SkLine(sk))
        BY <1>7, <3>2 DEF Doomed
      <4> QED BY <1>1, <1>2, <1>3, <1>4, <4>1, <4>2, SetOrder
    <3> QED BY <3>1, <3>2
  <2> QED BY <1>1, <1>3, <1>5, <2>1, <2>2, <2>3, WriteInv
<1> QED BY <1>6, <1>7

LEMMA EraseInv ==
  ASSUME Inv, NEW nm \in Name, NEW sk \in Subkey, erase(nm, sk)
  PROVE  Inv'
<1>1. TypeOK /\ SectionsOnce(m_order) /\ pc = "ready"
  BY DEF Inv, erase
<1>2. m_submaps \in Maps /\ m_order \in Seq(OrderLine) /\ m_holdWrites \in BOOLEAN
  BY <1>1 DEF TypeOK
<1>3. /\ m_submaps' = Without(m_submaps, nm, sk) /\ m_order' = m_order
      /\ write(m_holdWrites)
      /\ UNCHANGED <<status, m_holdWrites, pc, input, submapkey, copies, restarts>>
  BY DEF erase
<1>4. m_submaps' \in Maps
  BY <1>2, <1>3, WithoutIs
<1>5. original => Placed(m_order', m_submaps') /\ Once(m_order')
  <2>1. original => Placed(m_order, m_submaps) /\ Once(m_order)
    BY <1>1 DEF Inv, ReadyFits
  <2>2. \A n \in Name, s \in Subkey :
          getIn(m_submaps', n, s) # NoValue => getIn(m_submaps, n, s) # NoValue
    BY <1>2, <1>3, WithoutIs
  <2>3. Placed(m_order, m_submaps) => Placed(m_order, m_submaps')
    BY <2>2, PlacedLess
  <2> QED BY <1>3, <2>1, <2>3
<1> QED BY <1>1, <1>2, <1>3, <1>4, <1>5, WriteInv

LEMMA EraseKeyInv ==
  ASSUME Inv, NEW sk \in Subkey, eraseKey(sk)
  PROVE  Inv'
<1>1. TypeOK /\ SectionsOnce(m_order) /\ pc = "ready"
  BY DEF Inv, eraseKey
<1>2. m_submaps \in Maps /\ m_order \in Seq(OrderLine) /\ m_holdWrites \in BOOLEAN
  BY <1>1 DEF TypeOK
<1>3. /\ m_submaps' = IF status = "rw" THEN WithoutKey(m_submaps, sk) ELSE m_submaps
      /\ m_order' = m_order /\ write(m_holdWrites)
      /\ UNCHANGED <<status, m_holdWrites, pc, input, submapkey, copies, restarts>>
  BY DEF eraseKey
<1>4. /\ WithoutKey(m_submaps, sk) \in Maps
      /\ \A n \in Name, s \in Subkey :
           getIn(WithoutKey(m_submaps, sk), n, s) # NoValue => getIn(m_submaps, n, s) # NoValue
  <2>1. CASE Name = {}
    BY <1>2, <2>1 DEF Maps, WithoutKey
  <2>2. CASE Name # {}
    BY <1>2, <2>2, WithoutIs
  <2> QED BY <2>1, <2>2
<1>5. m_submaps' \in Maps
  BY <1>2, <1>3, <1>4
<1>6. original => Placed(m_order', m_submaps') /\ Once(m_order')
  <2>1. original => Placed(m_order, m_submaps) /\ Once(m_order)
    BY <1>1 DEF Inv, ReadyFits
  <2>2. \A n \in Name, s \in Subkey :
          getIn(m_submaps', n, s) # NoValue => getIn(m_submaps, n, s) # NoValue
    BY <1>3, <1>4
  <2>3. Placed(m_order, m_submaps) => Placed(m_order, m_submaps')
    BY <2>2, PlacedLess
  <2> QED BY <1>3, <2>1, <2>3
<1> QED BY <1>1, <1>2, <1>3, <1>5, <1>6, WriteInv

LEMMA HoldInv ==
  ASSUME Inv, NEW on \in BOOLEAN, holdWrites(on)
  PROVE  Inv'
<1>1. /\ pc = "ready" /\ m_holdWrites' \in BOOLEAN
      /\ UNCHANGED <<m_submaps, m_order, status, pc, input, submapkey, copies, restarts>>
  BY DEF holdWrites
<1>2. TypeOK
  BY DEF Inv
<1>3. original => Placed(m_order, m_submaps) /\ Once(m_order)
  BY <1>1 DEF Inv, ReadyFits
<1>4. CASE ~ on
  <2>1. write(FALSE)
    BY <1>4 DEF holdWrites
  <2>2. /\ m_submaps' \in Maps /\ m_order' \in Seq(OrderLine) /\ SectionsOnce(m_order')
        /\ original => Placed(m_order', m_submaps') /\ Once(m_order')
    BY <1>1, <1>2, <1>3 DEF TypeOK, Inv
  <2> QED BY <1>1, <2>1, <2>2, WriteInv
<1>5. CASE on
  <2>1. UNCHANGED <<file, saved>>
    BY <1>5 DEF holdWrites
  <2>2. TypeOK'
    BY <1>1, <1>2, <2>1 DEF TypeOK
  <2>3. NeverDoomed' /\ ParseFits'
    BY <1>1 DEF NeverDoomed, ParseFits
  <2>4. ReadyFits'
    BY <1>1, <1>3 DEF ReadyFits, original
  <2>5. SavedFits'
    BY <1>1, <2>1 DEF Inv, SavedFits, original
  <2>6. SectionsOnce(file)' /\ SectionsOnce(m_order)'
    BY <1>1, <2>1 DEF Inv
  <2> QED BY <2>2, <2>3, <2>4, <2>5, <2>6 DEF Inv
<1> QED BY <1>4, <1>5

\* Starting to parse text, with nothing in memory.
LEMMA ParseStarts ==
  ASSUME NEW text \in Text \cup {file'}, text \in Seq(Line), input' = text,
         saved' => text = file', m_submaps' = EmptyMaps, m_order' = << >>,
         submapkey' = Global
  PROVE  ParseFits'
<1>1. Follows(SubSeq(text, 1, 0), EmptyMaps, << >>, Global)
  BY TextEnds, FollowsNothing
<1>2. Parsed(text, 0)'
  <2>1. (input = SubSeq(text, 0 + 1, Len(text)))'
    BY TextEnds
  <2> QED BY <1>1, <2>1 DEF Parsed
<1> QED BY <1>2, TextEnds DEF ParseFits

LEMMA ReparseInv ==
  ASSUME Inv, NEW text \in Text, reparse(text)
  PROVE  Inv'
<1>1. /\ m_submaps' = EmptyMaps /\ m_order' = << >> /\ pc' = "parse" /\ input' = text
      /\ submapkey' = Global /\ saved' = FALSE
      /\ UNCHANGED <<file, status, m_holdWrites, copies, restarts>>
  BY DEF reparse
<1>2. text \in Seq(Line) /\ TypeOK
  BY TextIs DEF Inv
<1>3. TypeOK'
  <2>1. << >> \in Seq(OrderLine) /\ EmptyMaps \in Maps /\ Global \in Subkey
    BY EmptyMapsIs, ConfMapAssumption
  <2> QED BY <1>1, <1>2, <2>1 DEF TypeOK
<1>4. NeverDoomed' /\ ReadyFits' /\ SavedFits'
  BY <1>1 DEF NeverDoomed, ReadyFits, SavedFits
<1>5. ParseFits'
  BY <1>1, <1>2, ParseStarts
<1>6. SectionsOnce(file)' /\ SectionsOnce(m_order)'
  BY <1>1 DEF Inv, SectionsOnce
<1> QED BY <1>3, <1>4, <1>5, <1>6 DEF Inv

LEMMA CopyInv ==
  ASSUME Inv, Copy PROVE Inv'
<1>1. /\ pc = "ready" /\ copies < MaxCopies /\ copies' = copies + 1 /\ m_order' = << >>
      /\ m_holdWrites' \in BOOLEAN
      /\ UNCHANGED <<file, status, m_submaps, pc, input, submapkey, saved, restarts>>
  BY DEF Copy
<1>2. TypeOK
  BY DEF Inv
<1>3. copies \in Nat /\ copies' \in 0 .. MaxCopies /\ copies' # 0
  BY <1>1, <1>2, ConfSimpleAssumption DEF TypeOK
<1>4. TypeOK'
  BY <1>1, <1>2, <1>3 DEF TypeOK
<1>5. NeverDoomed' /\ ReadyFits' /\ SavedFits' /\ ParseFits'
  BY <1>1, <1>3 DEF NeverDoomed, ReadyFits, SavedFits, ParseFits, original
<1>6. SectionsOnce(file)' /\ SectionsOnce(m_order)'
  BY <1>1 DEF Inv, SectionsOnce
<1> QED BY <1>4, <1>5, <1>6 DEF Inv

\* What is left of a line that is cut short.
LEMMA CutShortIs ==
  ASSUME NEW l \in Line, NEW end \in CutShort(l)
  PROVE  /\ end \in Line /\ end.kind # "sk"
         /\ end.kind = "var" =>
              l.kind = "var" /\ end.data = l.data /\ end.value \in Truncated[l.value]
<1>1. l \in AnyLine
  BY DEF AnyLine
<1>2. /\ Comment.kind = "comment" /\ Cut.kind = "cut" /\ Comment \in Line /\ Cut \in Line
      /\ \A nm, val : /\ VarText(nm, val).kind = "var" /\ VarText(nm, val).data = nm
                      /\ VarText(nm, val).value = val
  <2>1. Comment.kind = "comment" /\ Cut.kind = "cut"
    BY DEF Comment, Cut
  <2>2. Comment \in Line /\ Cut \in Line
    <3>1. Comment \in {Comment, Cut} /\ Cut \in {Comment, Cut}
      OBVIOUS
    <3>2. \A S, T : {Comment, Cut} \subseteq {Comment, Cut} \cup S \cup T
      OBVIOUS
    <3> QED BY <3>1, <3>2 DEF Line
  <2>3. \A nm, val : /\ VarText(nm, val).kind = "var" /\ VarText(nm, val).data = nm
                     /\ VarText(nm, val).value = val
    BY DEF VarText
  <2> QED BY <2>1, <2>2, <2>3
<1>3. CASE l.kind = "var"
  <2>1. l.data \in Name /\ l.value \in Value
    BY <1>1, <1>3, LineKinds
  <2>2. CutShort(l) = {Comment} \cup {VarText(l.data, val) : val \in Truncated[l.value]}
    BY <1>3, Zenon DEF CutShort
  <2>3. \A val \in Truncated[l.value] : VarText(l.data, val) \in Line
    <3>1. Truncated[l.value] \subseteq Value
      BY <2>1, ConfSimpleAssumption
    <3> QED BY <2>1, <3>1 DEF Line
  <2>4. end = Comment \/ \E val \in Truncated[l.value] : end = VarText(l.data, val)
    BY <2>2
  <2>5. CASE end = Comment
    BY <1>2, <2>5
  <2>6. CASE \E val \in Truncated[l.value] : end = VarText(l.data, val)
    <3>1. PICK val \in Truncated[l.value] : end = VarText(l.data, val)
      BY <2>6
    <3> QED BY <1>2, <1>3, <2>3, <3>1
  <2> QED BY <2>4, <2>5, <2>6
<1>4. CASE l.kind # "var"
  <2>1. CutShort(l) \subseteq {Comment, Cut}
    BY <1>4 DEF CutShort
  <2> QED BY <1>2, <2>1
<1> QED BY <1>3, <1>4

\* The file a write leaves that was killed: its first lines, and a part of the next.
LEMMA KilledFile ==
  ASSUME Inv, Killed, NEW lines, lines = Output(m_order, m_submaps)
  PROVE  \E n \in 0 .. Len(lines) :
           \/ file' = SubSeq(lines, 1, n)
           \/ /\ n + 1 \in 1 .. Len(lines)
              /\ \E end \in CutShort(lines[n + 1]) :
                   file' = Append(SubSeq(lines, 1, n), end)
<1>1. lines \in Seq(Line)
  BY OutputIs DEF Inv, TypeOK
<1>2. PICK n \in 0 .. Len(lines) :
        \/ file' = SubSeq(lines, 1, n)
        \/ /\ n < Len(lines)
           /\ \E end \in CutShort(lines[n + 1]) : file' = Append(SubSeq(lines, 1, n), end)
  BY DEF Killed
<1>3. n < Len(lines) => n + 1 \in 1 .. Len(lines)
  BY <1>1
<1> QED BY <1>2, <1>3

LEMMA KilledInv ==
  ASSUME Inv, Killed PROVE Inv'
<1> DEFINE lines == Output(m_order, m_submaps)
<1>1. TypeOK /\ SectionsOnce(m_order) /\ m_order \in Seq(OrderLine) /\ m_submaps \in Maps
  BY DEF Inv, TypeOK
<1>2. /\ restarts < MaxRestarts /\ restarts' = restarts + 1 /\ status' \in {"ro", "rw"}
      /\ m_submaps' = EmptyMaps /\ m_order' = << >> /\ m_holdWrites' = FALSE
      /\ pc' = "parse" /\ input' = file' /\ submapkey' = Global /\ saved' = TRUE
      /\ copies' = 0
  BY DEF Killed
<1>3. PICK n \in 0 .. Len(lines) :
        \/ file' = SubSeq(lines, 1, n)
        \/ /\ n + 1 \in 1 .. Len(lines)
           /\ \E end \in CutShort(lines[n + 1]) : file' = Append(SubSeq(lines, 1, n), end)
  BY KilledFile
<1>4. lines \in Seq(Line) /\ SectionsOnce(lines)
  BY <1>1, OutputFits
<1> HIDE DEF lines
<1> DEFINE first == SubSeq(lines, 1, n)
<1>5. file' \in Seq(Line) /\ SectionsOnce(file')
  <2>1. first \in Seq(Line) /\ Len(first) \in Nat /\ SectionsOnce(first)
    BY <1>4, PrefixOnce, LinesAre
  <2>2. ASSUME n + 1 \in 1 .. Len(lines), NEW end \in CutShort(lines[n + 1]),
               file' = Append(first, end)
        PROVE  file' \in Seq(Line) /\ SectionsOnce(file')
    <3>1. lines[n + 1] \in Line
      BY <1>4, <2>2
    <3>2. end \in Line /\ end.kind # "sk"
      BY <3>1, CutShortIs
    <3> HIDE DEF first
    <3>3. file' \in Seq(Line) /\ Inserted(file', first, Len(first) + 1, end)
      BY <2>1, <2>2, <3>2, AppendInserts, Zenon
    <3>4. Len(first) + 1 \in 1 .. Len(first) + 1
      BY <2>1
    <3> QED BY <2>1, <3>2, <3>3, <3>4, InsertedOnce
  <2> QED BY <1>3, <2>1, <2>2
<1>6. TypeOK'
  <2>1. restarts' \in 0 .. MaxRestarts /\ copies' \in 0 .. MaxCopies
    BY <1>1, <1>2, ConfSimpleAssumption DEF TypeOK
  <2>2. << >> \in Seq(OrderLine) /\ EmptyMaps \in Maps /\ Global \in Subkey
    BY EmptyMapsIs, ConfMapAssumption
  <2> QED BY <1>2, <1>5, <2>1, <2>2 DEF TypeOK
<1>7. NeverDoomed' /\ ReadyFits' /\ SavedFits'
  BY <1>2 DEF NeverDoomed, ReadyFits, SavedFits
<1>8. ParseFits'
  BY <1>2, <1>5, ParseStarts
<1>9. SectionsOnce(m_order)'
  BY <1>2 DEF SectionsOnce
<1> QED BY <1>5, <1>6, <1>7, <1>8, <1>9 DEF Inv

\* Every step keeps the invariant.
LEMMA NextInv ==
  ASSUME Inv, [Next]_vars PROVE Inv'
<1>1. CASE parseinput
  BY <1>1, ParseInv
<1>2. ASSUME NEW nm \in Name, NEW sk \in Subkey, NEW val \in Settable, set(nm, val, sk)
      PROVE  Inv'
  BY <1>2, SetInv
<1>3. ASSUME NEW nm \in Name, NEW sk \in Subkey, erase(nm, sk) PROVE Inv'
  BY <1>3, EraseInv
<1>4. ASSUME NEW sk \in Subkey, eraseKey(sk) PROVE Inv'
  BY <1>4, EraseKeyInv
<1>5. ASSUME NEW on \in BOOLEAN, holdWrites(on) PROVE Inv'
  BY <1>5, HoldInv
<1>6. ASSUME NEW text \in Text, reparse(text) PROVE Inv'
  BY <1>6, ReparseInv
<1>7. CASE Copy
  BY <1>7, CopyInv
<1>8. CASE Killed
  BY <1>8, KilledInv
<1>9. CASE UNCHANGED vars
  <2>1. UNCHANGED <<file, status, m_submaps, m_order, m_holdWrites, pc, input, submapkey,
                    saved, copies, restarts>>
    BY <1>9 DEF vars
  <2>2. TypeOK'
    BY <2>1 DEF Inv, TypeOK
  <2>3. NeverDoomed' /\ ReadyFits' /\ SavedFits'
    BY <2>1 DEF Inv, NeverDoomed, ReadyFits, SavedFits, original
  <2>4. ParseFits'
    BY <2>1 DEF Inv, ParseFits, Parsed
  <2>5. SectionsOnce(file)' /\ SectionsOnce(m_order)'
    BY <2>1 DEF Inv
  <2> QED BY <2>2, <2>3, <2>4, <2>5 DEF Inv
<1> QED BY <1>1, <1>2, <1>3, <1>4, <1>5, <1>6, <1>7, <1>8, <1>9 DEF Next

\* Inv holds in every state that can be reached.
THEOREM InvHolds == Spec => []Inv
<1>1. Init => Inv
  BY InitInv
<1>2. Inv /\ [Next]_vars => Inv'
  BY NextInv
<1> QED BY <1>1, <1>2, PTL DEF Spec

\* LayoutFits, for any files in which no section starts twice, and any sequence of
\* calls: every section with a variable has its line, every variable only one, and
\* set() never finds the layout it calls impossible (conftree.cpp:450).
THEOREM LayoutAlwaysFits == Spec => []LayoutFits
<1>1. Inv => LayoutFits
  <2> SUFFICES ASSUME Inv PROVE LayoutFits
    OBVIOUS
  <2>1. TypeOK /\ NeverDoomed /\ m_order \in Seq(OrderLine) /\ DOMAIN m_order = 1 .. Len(m_order)
    BY DEF Inv, TypeOK
  <2>2. SubkeysInOrder
    <3>1. SUFFICES ASSUME original, NEW sk \in Subkey \ {Global}, hasSubKey(m_submaps, sk)
                   PROVE  InOrder(m_order, SkLine(sk))
      BY DEF SubkeysInOrder
    <3>2. CASE pc = "ready"
      <4>1. Placed(m_order, m_submaps)
        BY <3>1, <3>2 DEF Inv, ReadyFits
      <4> QED BY <2>1, <3>1, <4>1, PlacedHeader
    <3>3. CASE pc = "parse"
      <4>1. PICK text \in Text \cup {file} :
              \E n \in 0 .. Len(text) : Parsed(text, n)
        BY <3>3 DEF Inv, ParseFits
      <4>2. PICK n \in 0 .. Len(text) : Parsed(text, n)
        BY <4>1
      <4>3. Placed(m_order, m_submaps)
        BY <4>2, Zenon DEF Parsed, Follows, Placed
      <4> QED BY <2>1, <3>1, <4>3, PlacedHeader
    <3> QED BY <2>1, <3>1, <3>2, <3>3 DEF TypeOK, NeverDoomed
  <2>3. WrittenOnce
    <3>1. SUFFICES ASSUME original, pc = "ready" PROVE WrittenOnce
      BY DEF WrittenOnce
    <3>2. Once(m_order)
      BY <3>1 DEF Inv, ReadyFits
    <3> QED BY <2>1, <3>2 DEF WrittenOnce, Once
  <2> QED BY <2>1, <2>2, <2>3 DEF LayoutFits
<1> QED BY <1>1, InvHolds, PTL

\* FileSaysIt: what write() leaves in the file is what is held in memory, for every
\* name in every section.
THEOREM FileSaysAll == Spec => []FileSaysIt
<1>1. Inv => FileSaysIt
  BY DEF Inv, SavedFits, FileSaysIt
<1> QED BY <1>1, InvHolds, PTL

\* KeepsComments: no write() changes the number of comments of the file.
THEOREM CommentsKept == Spec => KeepsComments
<1> DEFINE Keeps == original /\ {pc, pc'} = {"ready"} /\ saved /\ saved' =>
                      Comments(file') = Comments(file)
<1>1. Inv /\ Inv' /\ [Next]_vars => [Keeps]_vars
  <2> SUFFICES ASSUME Inv, Inv', Next, original, pc = "ready", pc' = "ready", saved, saved'
               PROVE  Comments(file') = Comments(file)
    BY DEF Keeps
  <2>1. /\ m_order \in Seq(OrderLine) /\ m_submaps \in Maps /\ SectionsOnce(m_order)
        /\ Placed(m_order, m_submaps) /\ Comments(file) = Comments(m_order)
    BY DEF Inv, TypeOK, ReadyFits, SavedFits
  <2>2. copies' = copies => Comments(file') = Comments(m_order')
    BY DEF Inv, SavedFits, original
  <2>3. ASSUME NEW nm \in Name, NEW sk \in Subkey, NEW val \in Settable, set(nm, val, sk)
        PROVE  Comments(file') = Comments(file)
    <3>1. ~ Doomed(nm, sk)
      BY <2>3 DEF set
    <3>2. m_order' = OrderAfterSet(nm, sk) /\ copies' = copies
      BY <2>3, <3>1 DEF set
    <3>3. Comments(m_order') = Comments(m_order)
      <4>1. CASE getIn(m_submaps, nm, sk) # NoValue
        BY <3>2, <4>1, Zenon DEF OrderAfterSet
      <4>2. CASE getIn(m_submaps, nm, sk) = NoValue
        <5>1. m_order' = WithVar(WithKey(m_submaps, m_order, sk), nm, sk)
          BY <3>2, <4>2, Zenon DEF OrderAfterSet, WithKey
        <5>2. sk # Global /\ hasSubKey(m_submaps, sk) => InOrder(m_order, SkLine(sk))
          BY <2>1, PlacedHeader
        <5>3. val \in Value
          BY ConfSimpleAssumption
        <5> QED BY <2>1, <5>1, <5>2, <5>3, SetOrder
      <4> QED BY <4>1, <4>2
    <3> QED BY <2>1, <2>2, <3>2, <3>3
  <2>4. ASSUME NEW nm \in Name, NEW sk \in Subkey, erase(nm, sk)
        PROVE  Comments(file') = Comments(file)
    BY <2>1, <2>2, <2>4 DEF erase
  <2>5. ASSUME NEW sk \in Subkey, eraseKey(sk) PROVE Comments(file') = Comments(file)
    BY <2>1, <2>2, <2>5 DEF eraseKey
  <2>6. ASSUME NEW on \in BOOLEAN, holdWrites(on) PROVE Comments(file') = Comments(file)
    BY <2>1, <2>2, <2>6 DEF holdWrites
  <2>7. ASSUME NEW text \in Text, reparse(text) PROVE FALSE
    BY <2>7 DEF reparse
  <2>8. Copy => Comments(file') = Comments(file)
    BY DEF Copy
  <2>9. ~ parseinput /\ ~ Killed
    BY DEF parseinput, Killed
  <2> QED BY <2>3, <2>4, <2>5, <2>6, <2>7, <2>8, <2>9 DEF Next
<1>2. []Inv /\ [][Next]_vars => KeepsComments
  BY <1>1, PTL DEF KeepsComments
<1> QED BY <1>2, InvHolds, PTL DEF Spec

\* CrashLosesEnd: wherever a write is cut by a crash, in a line too, the file says of
\* a name in a section what was held, or nothing; or it ends in that variable, with a
\* beginning of the value that was held.
THEOREM OnlyTheEndIsLost == Spec => CrashLosesEnd
<1> DEFINE Fits(nm, sk) ==
             LET held == getIn(m_submaps, nm, sk)
                 found == Says(file', nm, sk)
             IN  \/ found \in {NoValue, held}
                 \/ held # NoValue /\ found \in Truncated[held] /\ EndsIn(file', nm, sk)
           Loses == Killed /\ original => \A nm \in Name, sk \in Subkey : Fits(nm, sk)
<1>1. Inv /\ [Next]_vars => [Loses]_vars
  <2> SUFFICES ASSUME Inv, Killed, NEW nm \in Name, NEW sk \in Subkey PROVE Fits(nm, sk)
    BY DEF Loses
  <2> DEFINE lines == Output(m_order, m_submaps)
  <2>1. m_order \in Seq(OrderLine) /\ m_submaps \in Maps /\ lines \in Seq(Line)
    BY OutputIs DEF Inv, TypeOK
  <2>2. PICK n \in 0 .. Len(lines) :
          \/ file' = SubSeq(lines, 1, n)
          \/ /\ n + 1 \in 1 .. Len(lines)
             /\ \E end \in CutShort(lines[n + 1]) : file' = Append(SubSeq(lines, 1, n), end)
    BY KilledFile
  <2> DEFINE first == SubSeq(lines, 1, n)
  <2>3. Says(first, nm, sk) \in {NoValue, getIn(m_submaps, nm, sk)}
    BY <2>1, OutputSays
  <2>4. CASE file' = first
    BY <2>3, <2>4
  <2>5. ASSUME n + 1 \in 1 .. Len(lines), NEW end \in CutShort(lines[n + 1]),
               file' = Append(first, end)
        PROVE  Fits(nm, sk)
    <3> DEFINE l == lines[n + 1]
               held == getIn(m_submaps, nm, sk)
    <3>1. /\ first \in Seq(Line) /\ Len(first) = n /\ n \in Nat /\ l \in Line
          /\ \A k \in 1 .. n : first[k] = lines[k]
      BY <2>1, <2>5
    <3>2. l.kind = "var" => l.value = getIn(m_submaps, l.data, SectionAt(lines, n + 1))
      BY <2>1, <2>5, OutputValue
    <3> HIDE DEF lines
    <3>3. /\ end \in Line /\ end.kind # "sk"
          /\ end.kind = "var" =>
               l.kind = "var" /\ end.data = l.data /\ end.value \in Truncated[l.value]
      BY <2>5, <3>1, CutShortIs
    <3>4. Says(file', nm, sk)
            = IF end.kind = "var" /\ end.data = nm /\ SectionAt(first, n) = sk
              THEN end.value ELSE Says(first, nm, sk)
      <4> HIDE DEF first
      <4> QED BY <2>5, <3>1, <3>3, SaysNext
    <3>5. CASE ~ (end.kind = "var" /\ end.data = nm /\ SectionAt(first, n) = sk)
      BY <2>3, <3>4, <3>5
    <3>6. CASE end.kind = "var" /\ end.data = nm /\ SectionAt(first, n) = sk
      <4>1. SectionAt(lines, n + 1) = sk
        <5>1. SectionAt(first, n) = SectionAt(lines, n)
          BY <3>1, SectionSame
        <5> QED BY <3>1, <3>3, <3>6, <5>1, SectionNext
      <4>2. l.value = held /\ held \in Value
        <5>1. l \in AnyLine
          BY <3>1 DEF AnyLine
        <5>2. l.value \in Value
          BY <3>1, <3>3, <3>6, <5>1, LineKinds
        <5> QED BY <3>2, <3>3, <3>6, <4>1, <5>2
      <4>3. held # NoValue /\ Says(file', nm, sk) \in Truncated[held]
        BY <3>3, <3>4, <3>6, <4>2, ConfMapAssumption
      <4>4. EndsIn(file', nm, sk)
        <5> HIDE DEF first
        <5>1. /\ Len(file') = n + 1 /\ file'[n + 1] = end /\ file' # << >>
              /\ \A k \in 1 .. n : file'[k] = first[k]
          BY <2>5, <3>1, <3>3
        <5>2. SectionAt(file', n) = SectionAt(first, n)
          BY <3>1, <5>1, SectionSame
        <5>3. SectionAt(file', Len(file')) = sk
          BY <3>1, <3>6, <5>1, <5>2, SectionNext
        <5> QED BY <3>6, <5>1, <5>3 DEF EndsIn, Last
      <4> QED BY <4>3, <4>4
    <3> QED BY <3>5, <3>6
  <2> QED BY <2>2, <2>4, <2>5
<1>2. []Inv /\ [][Next]_vars => CrashLosesEnd
  BY <1>1, PTL DEF CrashLosesEnd
<1> QED BY <1>2, InvHolds, PTL DEF Spec
=============================================================================
