--------------------------- MODULE ConfStackProofs ---------------------------
(***************************************************************************)
(* Proofs about ConfStack, for every set of files, sections, names and     *)
(* values: the front file never repeats the deeper ones, a successful set  *)
(* takes, and lookups agree with listings.                                 *)
(***************************************************************************)
EXTENDS ConfStack, FiniteSetTheorems, SequenceTheorems, WellFoundedInduction,
        TLAPS

-----------------------------------------------------------------------------
(* The first and the longest.                                              *)

\* What the subkeys are made of.
Part == {Slash} \cup UNION {Range(sk) : sk \in Subkey}

\* A set of naturals has its Min.
LEMMA MinIs ==
  ASSUME NEW S \in SUBSET Nat, S # {}
  PROVE  Min(S) \in S /\ \A y \in S : Min(S) =< y
<1> DEFINE Less == {p \in Nat \X Nat : p[1] < p[2]}
<1>1. Less = OpToRel(<, Nat)
  BY Zenon DEF OpToRel
<1>2. IsWellFoundedOn(Less, Nat)
  BY <1>1, NatLessThanWellFounded, Zenon
<1>3. PICK m \in S : \A y \in S : ~ (<<y, m>> \in Less)
  <2> HIDE DEF Less
  <2> QED BY <1>2, WFMin, Zenon
<1>4. \A y \in S : m =< y
  <2> TAKE y \in S
  <2>1. ~ (<<y, m>> \in Less)
    BY <1>3, Zenon
  <2>2. y \in Nat /\ m \in Nat
    OBVIOUS
  <2>3. <<y, m>> \in Less <=> y < m
    BY <2>2
  <2> HIDE DEF Less
  <2> QED BY <2>1, <2>2, <2>3
<1> QED BY <1>4 DEF Min

\* A set of sequences of bounded length has one that is Longest.
LEMMA LongestIs ==
  ASSUME NEW S \in SUBSET Seq(Part), S # {},
         NEW bound \in Nat, \A s \in S : Len(s) =< bound
  PROVE  Longest(S) \in S /\ \A s \in S : Len(Longest(S)) >= Len(s)
<1> DEFINE Short == {bound - Len(s) : s \in S}
<1>1. \A s \in S : Len(s) \in Nat
  BY LenProperties
<1>2. Short \in SUBSET Nat /\ Short # {}
  BY <1>1
<1>3. PICK s \in S : Min(Short) = bound - Len(s)
  BY <1>2, MinIs
<1>4. \A t \in S : bound - Len(s) =< bound - Len(t)
  <2> TAKE t \in S
  <2>1. bound - Len(t) \in Short
    OBVIOUS
  <2> QED BY <1>2, <1>3, <2>1, MinIs
<1>5. \A t \in S : Len(s) >= Len(t)
  BY <1>1, <1>4
<1> QED BY <1>5 DEF Longest

-----------------------------------------------------------------------------
(* The stack behind its front element.                                     *)

\* A variable is looked up in the front element, then in the ones behind it.
LEMMA GetFrontFirst ==
  ASSUME NEW confs \in Seq(Maps), confs # <<>>, NEW nm, NEW sk
  PROVE  get(confs, nm, sk) =
           IF getFrom(confs[1], nm, sk) # NoValue THEN getFrom(confs[1], nm, sk)
           ELSE get(Tail(confs), nm, sk)
<1> DEFINE H == Having(confs, nm, sk)
<1> DEFINE T == Having(Tail(confs), nm, sk)
<1>1. /\ Len(confs) \in Nat /\ Len(confs) > 0 /\ DOMAIN confs = 1 .. Len(confs)
      /\ Tail(confs) \in Seq(Maps) /\ DOMAIN Tail(confs) = 1 .. Len(confs) - 1
      /\ \A i \in 1 .. Len(confs) - 1 : Tail(confs)[i] = confs[i + 1]
  BY HeadTailProperties, LenProperties, EmptySeq
<1>2. H \in SUBSET Nat /\ T \in SUBSET Nat
  BY <1>1 DEF Having
<1>3. CASE getFrom(confs[1], nm, sk) # NoValue
  <2>1. 1 \in H /\ \A i \in H : 1 =< i
    BY <1>1, <1>3 DEF Having
  <2>2. Min(H) = 1
    <3> HIDE DEF H
    <3>1. Min(H) \in H /\ Min(H) =< 1
      BY <1>2, <2>1, MinIs
    <3>2. 1 =< Min(H) /\ Min(H) \in Nat
      BY <1>2, <2>1, <3>1, Zenon
    <3> QED BY <3>1, <3>2
  <2> QED BY <1>3, <2>1, <2>2 DEF get
<1>4. CASE getFrom(confs[1], nm, sk) = NoValue
  <2>1. \A i \in T : i + 1 \in H
    BY <1>1 DEF Having
  <2>2. \A i \in H : i - 1 \in T
    BY <1>1, <1>4 DEF Having
  <2>3. CASE T = {}
    <3>1. H = {}
      BY <2>2, <2>3
    <3> QED BY <1>4, <2>3, <3>1 DEF get
  <2>4. CASE T # {}
    <3>1. H # {}
      BY <2>1, <2>4
    <3>2. /\ Min(T) \in T /\ \A y \in T : Min(T) =< y
          /\ Min(H) \in H /\ \A y \in H : Min(H) =< y
      <4> HIDE DEF H, T
      <4> QED BY <1>2, <2>4, <3>1, MinIs
    <3>3. Min(H) = Min(T) + 1
      <4> HIDE DEF H, T
      <4>1. Min(H) - 1 \in T /\ Min(T) + 1 \in H
        BY <2>1, <2>2, <3>2
      <4>2. Min(T) =< Min(H) - 1 /\ Min(H) =< Min(T) + 1
        BY <3>2, <4>1
      <4>3. Min(H) \in Nat /\ Min(T) \in Nat
        BY <1>2, <3>2
      <4> QED BY <4>2, <4>3
    <3>4. Tail(confs)[Min(T)] = confs[Min(H)]
      <4>1. Min(T) \in 1 .. Len(confs) - 1
        BY <1>1, <3>2 DEF Having
      <4> HIDE DEF H, T
      <4> QED BY <1>1, <3>3, <4>1
    <3> QED BY <1>4, <2>4, <3>1, <3>4 DEF get
  <2> QED BY <2>3, <2>4
<1> QED BY <1>3, <1>4

\* Changing the front element leaves the ones behind it.
LEMMA FrontChanged ==
  ASSUME NEW confs \in Seq(Maps), confs # <<>>, NEW maps \in Maps,
         NEW new, new = [confs EXCEPT ![1] = maps]
  PROVE  /\ new \in Seq(Maps) /\ Len(new) = Len(confs) /\ new # <<>>
         /\ new[1] = maps
         /\ Tail(new) = Tail(confs)
<1>1. /\ Len(confs) \in Nat /\ Len(confs) > 0 /\ DOMAIN confs = 1 .. Len(confs)
  BY LenProperties, EmptySeq
<1>2. new \in Seq(Maps) /\ Len(new) = Len(confs) /\ new[1] = maps
  BY <1>1, ExceptSeq
<1>3. new # <<>>
  BY <1>1, <1>2, EmptySeq
<1>4. Tail(new) = Tail(confs)
  BY <1>1, <1>2, <1>3
<1> QED BY <1>2, <1>3, <1>4

\* What a change of one variable leaves of a map.
LEMMA MapsChanged ==
  ASSUME NEW maps \in Maps, NEW sk \in Subkey, NEW nm \in Name,
         NEW val \in Value \cup {NoValue}
  PROVE  /\ With(maps, nm, val, sk) \in Maps
         /\ getIn(With(maps, nm, val, sk), nm, sk) = val
         /\ Without(maps, nm, sk) \in Maps
         /\ getIn(Without(maps, nm, sk), nm, sk) = NoValue
         /\ WithoutKey(maps, sk) \in Maps
BY DEF Maps, With, Without, WithoutKey, getIn

-----------------------------------------------------------------------------
(* The inductive invariant: whoever may write has a front element.         *)

FrontThere == m_ok \/ writable => m_confs # <<>>
StackInv == FrontThere /\ NoUnneededEntry

\* The elements of a stack are as many as the files that open.
LEMMA OpenedCount ==
  ASSUME NEW o \in [1 .. NFiles -> BOOLEAN], NEW readonly \in BOOLEAN
  PROVE  /\ Cardinality(Opened(o, readonly)) \in Nat
         /\ Cardinality(Opened(o, readonly)) =< NFiles
         /\ StackOk(o, readonly) \/ (~readonly /\ o[1]) =>
              Cardinality(Opened(o, readonly)) # 0
<1> DEFINE files == 1 .. NFiles
<1>1. NFiles \in Nat /\ 1 \in files /\ NFiles \in files
  BY ConfStackAssumption
<1>2. IsFiniteSet(files) /\ Cardinality(files) = NFiles
  BY <1>1, FS_Interval
<1>3. Opened(o, readonly) \in SUBSET files
  BY DEF Opened
<1>4. IsFiniteSet(Opened(o, readonly)) /\ Cardinality(Opened(o, readonly)) =< NFiles
  <2> HIDE DEF files
  <2> QED BY <1>2, <1>3, FS_Subset, Zenon
<1>5. Cardinality(Opened(o, readonly)) \in Nat
  BY <1>4, FS_CardinalityType, Zenon
<1>6. StackOk(o, readonly) \/ (~readonly /\ o[1]) => Opened(o, readonly) # {}
  BY <1>1 DEF StackOk, Opened
<1> QED BY <1>4, <1>5, <1>6, FS_EmptySet, Zenon

\* A stack just made: good or writable, it has an element.
LEMMA InitStack == Init => StackInv
<1> SUFFICES ASSUME Init PROVE StackInv
  OBVIOUS
<1> DEFINE n == Cardinality(Opened(opens, ro))
<1>1. opens \in [1 .. NFiles -> BOOLEAN] /\ ro \in BOOLEAN
  BY ConfStackAssumption DEF Init
<1>2. /\ n \in Nat /\ n =< NFiles
      /\ StackOk(opens, ro) \/ (~ro /\ opens[1]) => n # 0
  BY <1>1, OpenedCount
<1>3. m_confs \in [1 .. n -> Contents]
  BY DEF Init
<1>4. Contents \subseteq Maps
  BY ConfStackAssumption
<1> HIDE DEF n
<1>5. m_confs \in [1 .. n -> Maps]
  BY <1>3, <1>4
<1>6. m_confs \in Seq(Maps) /\ Len(m_confs) = n
  BY <1>2, <1>5
<1>7. 1 \in 1 .. NFiles /\ NFiles \in 1 .. NFiles
  BY ConfStackAssumption
<1>8. /\ m_ok \in BOOLEAN /\ m_ok = StackOk(opens, ro)
      /\ writable \in BOOLEAN /\ (writable => ~ro /\ opens[1])
  BY <1>1, <1>7 DEF Init, StackOk
<1>9. FrontThere
  BY <1>2, <1>6, <1>8, EmptySeq DEF FrontThere
<1>10. ret.result \in BOOLEAN /\ ret.op # "set"
  BY DEF Init
<1> QED BY <1>2, <1>6, <1>8, <1>9, <1>10 DEF StackInv, NoUnneededEntry, TypeOK

\* An operation that sets or erases in the front element, or leaves it alone.
LEMMA ChangesFront ==
  ASSUME StackInv, NEW maps \in Maps, m_confs # <<>>,
         m_confs' = (IF writable THEN [m_confs EXCEPT ![1] = maps] ELSE m_confs),
         UNCHANGED <<tree, ro, opens, m_ok, writable>>, ret'.result \in BOOLEAN
  PROVE  /\ FrontThere' /\ TypeOK'
         /\ Tail(m_confs') = Tail(m_confs)
         /\ writable => m_confs'[1] = maps
<1>1. m_confs \in Seq(Maps) /\ Len(m_confs) =< NFiles
  BY DEF StackInv, NoUnneededEntry, TypeOK
<1>2. /\ m_confs' \in Seq(Maps) /\ Len(m_confs') = Len(m_confs) /\ m_confs' # <<>>
      /\ Tail(m_confs') = Tail(m_confs)
      /\ writable => m_confs'[1] = maps
  <2>1. CASE writable
    BY <1>1, <2>1, FrontChanged
  <2>2. CASE ~writable
    BY <1>1, <2>2
  <2> QED BY <2>1, <2>2
<1>3. m_ok' \in BOOLEAN /\ writable' \in BOOLEAN
  BY DEF StackInv, NoUnneededEntry, TypeOK
<1> QED BY <1>1, <1>2, <1>3 DEF FrontThere, TypeOK

\* The front element is a map.
LEMMA FrontType ==
  ASSUME StackInv, m_confs # <<>>
  PROVE  m_confs \in Seq(Maps) /\ m_confs[1] \in Maps /\ writable \in BOOLEAN
<1>1. m_confs \in Seq(Maps) /\ writable \in BOOLEAN
  BY DEF StackInv, NoUnneededEntry, TypeOK
<1>2. Len(m_confs) \in Nat /\ Len(m_confs) # 0
  BY <1>1, LenProperties, EmptySeq
<1> QED BY <1>1, <1>2, ElementOfSeq

\* The deeper files give what they gave.
LEMMA DeeperSame ==
  ASSUME tree' = tree, Tail(m_confs') = Tail(m_confs), NEW nm, NEW sk
  PROVE  get(Tail(m_confs), nm, sk)' = get(Tail(m_confs), nm, sk)
BY DEF get, Having, getFrom

\* set() on the stack: the front entry is erased when the deeper files say the same.
LEMMA SetStep ==
  ASSUME StackInv, NEW nm \in Name, NEW val \in Value, NEW sk \in Subkey,
         set(nm, val, sk)
  PROVE  /\ StackInv'
         /\ m_confs # <<>> /\ m_confs' \in Seq(Maps) /\ m_confs' # <<>>
         /\ Tail(m_confs') = Tail(m_confs) /\ tree' = tree
         /\ writable =>
              getIn(m_confs'[1], nm, sk) = IF Deeper(nm, sk) = val THEN NoValue ELSE val
<1>1. m_confs # <<>> /\ UNCHANGED <<tree, ro, opens, m_ok, writable>>
  BY DEF set, StackInv, FrontThere
<1>2. m_confs[1] \in Maps /\ writable \in BOOLEAN
  BY <1>1, FrontType
<1>3. /\ With(m_confs[1], nm, val, sk) \in Maps
      /\ getIn(With(m_confs[1], nm, val, sk), nm, sk) = val
      /\ Without(m_confs[1], nm, sk) \in Maps
      /\ getIn(Without(m_confs[1], nm, sk), nm, sk) = NoValue
  BY <1>2, MapsChanged
<1>4. PICK maps \in Maps :
        /\ m_confs' = (IF writable THEN [m_confs EXCEPT ![1] = maps] ELSE m_confs)
        /\ getIn(maps, nm, sk) = IF Deeper(nm, sk) = val THEN NoValue ELSE val
        /\ ret' = [op |-> "set", name |-> nm, subkey |-> sk,
                   result |-> Deeper(nm, sk) = val \/ writable]
  <2>1. CASE Deeper(nm, sk) = val
    <3> USE <1>3
    <3> WITNESS Without(m_confs[1], nm, sk) \in Maps
    <3> QED BY <1>2, <2>1 DEF set, Returns
  <2>2. CASE Deeper(nm, sk) # val
    <3> USE <1>3
    <3> WITNESS With(m_confs[1], nm, val, sk) \in Maps
    <3> QED BY <1>2, <2>2 DEF set, Returns
  <2> QED BY <2>1, <2>2
<1>5. ret'.result \in BOOLEAN /\ ret'.name = nm /\ ret'.subkey = sk
  BY <1>2, <1>4
<1>6. /\ FrontThere' /\ TypeOK' /\ Tail(m_confs') = Tail(m_confs)
      /\ writable => m_confs'[1] = maps
  BY <1>1, <1>4, <1>5, ChangesFront
<1>7. get(Tail(m_confs), nm, sk)' = Deeper(nm, sk)
  BY <1>1, <1>6, DeeperSame DEF Deeper
<1>8. m_confs' \in Seq(Maps) /\ m_confs' # <<>>
  BY <1>1, <1>6 DEF FrontThere, TypeOK, set
<1>9. val # NoValue
  BY ConfMapAssumption
<1>10. NoUnneededEntry'
  BY <1>1, <1>4, <1>5, <1>6, <1>7, <1>9 DEF NoUnneededEntry, getIn
<1> QED BY <1>1, <1>4, <1>6, <1>8, <1>10 DEF StackInv

\* erase() works on the front element only.
LEMMA EraseStep ==
  ASSUME StackInv, NEW nm \in Name, NEW sk \in Subkey, erase(nm, sk)
  PROVE  StackInv'
<1>1. m_confs # <<>> /\ UNCHANGED <<tree, ro, opens, m_ok, writable>>
  BY DEF erase
<1>2. m_confs[1] \in Maps /\ writable \in BOOLEAN
  BY <1>1, FrontType
<1>3. Without(m_confs[1], nm, sk) \in Maps
  BY <1>2 DEF Maps, Without
<1>4. m_confs' = IF writable THEN [m_confs EXCEPT ![1] = Without(m_confs[1], nm, sk)]
                             ELSE m_confs
  BY DEF erase
<1>5. ret'.op = "erase" /\ ret'.result \in BOOLEAN
  BY <1>2 DEF erase, Returns
<1>6. FrontThere' /\ TypeOK'
  BY <1>1, <1>3, <1>4, <1>5, ChangesFront
<1> QED BY <1>5, <1>6 DEF StackInv, NoUnneededEntry

\* So does eraseKey().
LEMMA EraseKeyStep ==
  ASSUME StackInv, NEW sk \in Subkey, eraseKey(sk)
  PROVE  StackInv'
<1>1. m_confs # <<>> /\ UNCHANGED <<tree, ro, opens, m_ok, writable>>
  BY DEF eraseKey
<1>2. m_confs[1] \in Maps /\ writable \in BOOLEAN
  BY <1>1, FrontType
<1>3. WithoutKey(m_confs[1], sk) \in Maps
  BY <1>2 DEF Maps, WithoutKey
<1>4. m_confs' = IF writable THEN [m_confs EXCEPT ![1] = WithoutKey(m_confs[1], sk)]
                             ELSE m_confs
  BY DEF eraseKey
<1>5. ret'.op = "eraseKey" /\ ret'.result \in BOOLEAN
  BY DEF eraseKey
<1>6. FrontThere' /\ TypeOK'
  BY <1>1, <1>3, <1>4, <1>5, ChangesFront
<1> QED BY <1>5, <1>6 DEF StackInv, NoUnneededEntry

\* Every operation keeps the invariant.
LEMMA NextStack == StackInv /\ [Next]_vars => StackInv'
<1> SUFFICES ASSUME StackInv, [Next]_vars PROVE StackInv'
  OBVIOUS
<1>1. ASSUME NEW nm \in Name, NEW sk \in Subkey, NEW val \in Value, set(nm, val, sk)
      PROVE  StackInv'
  BY <1>1, SetStep
<1>2. ASSUME NEW nm \in Name, NEW sk \in Subkey, erase(nm, sk)
      PROVE  StackInv'
  BY <1>2, EraseStep
<1>3. ASSUME NEW sk \in Subkey, eraseKey(sk)
      PROVE  StackInv'
  BY <1>3, EraseKeyStep
<1>4. CASE UNCHANGED vars
  <2>1. UNCHANGED <<tree, m_ok, m_confs, writable, ret>>
    BY <1>4 DEF vars
  <2>2. FrontThere' /\ TypeOK'
    BY <2>1 DEF StackInv, FrontThere, NoUnneededEntry, TypeOK
  <2>3. get(Tail(m_confs), ret.name, ret.subkey)'
          = get(Tail(m_confs), ret.name, ret.subkey)
    BY <2>1 DEF get, Having, getFrom
  <2> QED BY <2>1, <2>2, <2>3 DEF StackInv, NoUnneededEntry, getIn
<1> QED BY <1>1, <1>2, <1>3, <1>4 DEF Next

\* set() never leaves a front entry that repeats what the deeper files say
\* (conftree.h:415-444), for any number of files and whatever they hold.
THEOREM NothingUnneeded == Spec => []NoUnneededEntry
<1>1. StackInv => NoUnneededEntry
  BY DEF StackInv
<1> QED BY <1>1, InitStack, NextStack, PTL DEF Spec

\* A successful set() on a stack of plain files is what get() then returns
\* (conftree.h:395-444).
THEOREM SetIsTaken == Spec => SetTakes
<1> DEFINE Takes == \A nm \in Name, sk \in Subkey, val \in Value :
      set(nm, val, sk) /\ writable /\ ~tree /\ ret'.result
        => get(m_confs', nm, sk) = val
<1>1. ASSUME StackInv PROVE Takes
  <2> SUFFICES ASSUME NEW nm \in Name, NEW sk \in Subkey, NEW val \in Value,
                      set(nm, val, sk), writable, ~tree
               PROVE  get(m_confs', nm, sk) = val
    OBVIOUS
  <2>1. /\ m_confs' \in Seq(Maps) /\ m_confs' # <<>>
        /\ Tail(m_confs') = Tail(m_confs)
        /\ getIn(m_confs'[1], nm, sk) = IF Deeper(nm, sk) = val THEN NoValue ELSE val
    BY <1>1, SetStep
  <2>2. getFrom(m_confs'[1], nm, sk) = getIn(m_confs'[1], nm, sk)
    BY DEF getFrom
  <2>3. get(m_confs', nm, sk) =
          IF getFrom(m_confs'[1], nm, sk) # NoValue THEN getFrom(m_confs'[1], nm, sk)
          ELSE get(Tail(m_confs'), nm, sk)
    BY <2>1, GetFrontFirst
  <2>4. val # NoValue
    BY ConfMapAssumption
  <2> QED BY <2>1, <2>2, <2>3, <2>4 DEF Deeper
<1>2. StackInv => [Takes]_vars
  BY <1>1
<1> QED BY <1>2, InitStack, NextStack, PTL DEF Spec, SetTakes

-----------------------------------------------------------------------------
(* The sections a tree looks a variable up in.                             *)

\* What precedes each slash of a subkey.
Before(sk) == {SubSeq(sk, 1, i - 1) : i \in {j \in DOMAIN sk : sk[j] = Slash}}

\* These are shorter subkeys.
LEMMA BeforeType ==
  ASSUME NEW sk \in Seq(Part)
  PROVE  \A k \in Before(sk) : k \in Seq(Part) /\ Len(k) < Len(sk)
<1> SUFFICES ASSUME NEW i \in DOMAIN sk
             PROVE  /\ SubSeq(sk, 1, i - 1) \in Seq(Part)
                    /\ Len(SubSeq(sk, 1, i - 1)) < Len(sk)
  BY DEF Before
<1>1. Len(sk) \in Nat /\ i \in 1 .. Len(sk)
  BY LenProperties
<1> QED BY <1>1

\* The separator is a part, and subkeys are sequences of parts.
LEMMA SlashIsPart == Slash \in Part
BY DEF Part

LEMMA SubkeyType == Subkey \subseteq Seq(Part)
BY SubkeyAssumption DEF Part

\* A subkey without a slash at its end is looked up with one first.
LEMMA ParentsOfPlain ==
  ASSUME NEW sk \in Seq(Part), sk # <<>>, sk[Len(sk)] # Slash
  PROVE  Parents(sk) = {Append(sk, Slash), sk} \cup Before(sk)
<1> DEFINE msk == Append(sk, Slash)
<1> DEFINE n == Len(sk)
<1>1. n \in Nat /\ DOMAIN sk = 1 .. n
  BY LenProperties
<1>2. /\ msk \in Seq(Part) /\ Len(msk) = n + 1 /\ DOMAIN msk = 1 .. n + 1
      /\ \A i \in 1 .. n : msk[i] = sk[i]
      /\ msk[n + 1] = Slash
  BY <1>1, SlashIsPart, AppendProperties
<1>3. Parents(sk) = {msk} \cup Before(msk)
  BY DEF Parents, Before
<1>4. \A i \in 1 .. n + 1 : SubSeq(msk, 1, i - 1) = SubSeq(sk, 1, i - 1)
  BY <1>1, <1>2
<1>5. SubSeq(sk, 1, n) = sk
  BY <1>1, SubSeqFull
<1> HIDE DEF msk, n
<1>6. ASSUME NEW k \in Before(msk) PROVE k \in {sk} \cup Before(sk)
  <2>1. PICK i \in 1 .. n + 1 : msk[i] = Slash /\ k = SubSeq(msk, 1, i - 1)
    BY <1>2, <1>6 DEF Before
  <2>2. CASE i = n + 1
    BY <1>1, <1>4, <1>5, <2>1, <2>2
  <2>3. CASE i # n + 1
    <3>1. i \in 1 .. n
      BY <1>1, <2>3
    <3> QED BY <1>1, <1>2, <1>4, <2>1, <3>1 DEF Before
  <2> QED BY <2>2, <2>3
<1>7. sk \in Before(msk)
  <2>1. n + 1 \in 1 .. n + 1
    BY <1>1
  <2>2. SubSeq(msk, 1, (n + 1) - 1) = SubSeq(sk, 1, (n + 1) - 1) /\ (n + 1) - 1 = n
    <3>1. SubSeq(msk, 1, (n + 1) - 1) = SubSeq(sk, 1, (n + 1) - 1)
      BY <1>4, <2>1, Zenon
    <3> QED BY <1>1, <3>1
  <2> QED BY <1>2, <1>5, <2>1, <2>2 DEF Before
<1>8. ASSUME NEW k \in Before(sk) PROVE k \in Before(msk)
  <2>1. PICK i \in 1 .. n : sk[i] = Slash /\ k = SubSeq(sk, 1, i - 1)
    BY <1>1, <1>8 DEF Before
  <2>2. i \in 1 .. n + 1
    BY <1>1
  <2> QED BY <1>2, <1>4, <2>1, <2>2 DEF Before
<1>9. Before(msk) = {sk} \cup Before(sk)
  BY <1>6, <1>7, <1>8
<1> QED BY <1>3, <1>9 DEF msk

\* One with a slash at its end is looked up as it is.
LEMMA ParentsOfSlashed ==
  ASSUME NEW sk \in Seq(Part), sk # <<>>, sk[Len(sk)] = Slash
  PROVE  Parents(sk) = {sk} \cup Before(sk)
BY DEF Parents, Before

\* The places are finitely many, and the section itself is one of them.
LEMMA ParentsBounded ==
  ASSUME NEW sk \in Seq(Part), sk # <<>>
  PROVE  /\ sk \in Parents(sk)
         /\ \A k \in Parents(sk) : k \in Seq(Part) /\ Len(k) =< Len(sk) + 1
<1>1. Len(sk) \in Nat
  BY LenProperties
<1>2. Append(sk, Slash) \in Seq(Part) /\ Len(Append(sk, Slash)) = Len(sk) + 1
  BY SlashIsPart, AppendProperties
<1>3. \A k \in Before(sk) : k \in Seq(Part) /\ Len(k) \in Nat /\ Len(k) < Len(sk)
  BY BeforeType, LenProperties
<1>4. Parents(sk) = {Append(sk, Slash), sk} \cup Before(sk)
        \/ Parents(sk) = {sk} \cup Before(sk)
  BY ParentsOfPlain, ParentsOfSlashed
<1> QED BY <1>1, <1>2, <1>3, <1>4

\* The sections that have the variable, of those a tree looks into.
Found(maps, nm, sk) == {k \in Parents(sk) \cap Subkey : getIn(maps, nm, k) # NoValue}

\* Of these one is Longest.
LEMMA FoundLongest ==
  ASSUME NEW maps, NEW nm, NEW sk \in Subkey, Absolute(sk), Found(maps, nm, sk) # {}
  PROVE  /\ Longest(Found(maps, nm, sk)) \in Found(maps, nm, sk)
         /\ \A k \in Found(maps, nm, sk) : Len(Longest(Found(maps, nm, sk))) >= Len(k)
<1>1. sk \in Seq(Part) /\ sk # <<>> /\ Len(sk) + 1 \in Nat
  BY SubkeyType, LenProperties DEF Absolute
<1>2. /\ Found(maps, nm, sk) \in SUBSET Seq(Part)
      /\ \A k \in Found(maps, nm, sk) : Len(k) =< Len(sk) + 1
  BY <1>1, ParentsBounded DEF Found
<1> QED BY <1>1, <1>2, LongestIs

\* It is the one whose value get() returns.
LEMMA TreeGetIs ==
  ASSUME NEW maps, NEW nm, NEW sk
  PROVE  treeGet(maps, nm, sk) = IF Found(maps, nm, sk) = {} THEN NoValue
                                 ELSE getIn(maps, nm, Longest(Found(maps, nm, sk)))
BY DEF treeGet, Found

\* A lookup finds a value exactly if one of the places has it.
LEMMA TreeFinds ==
  ASSUME NEW maps, NEW nm, NEW sk \in Subkey, Absolute(sk)
  PROVE  treeGet(maps, nm, sk) # NoValue <=> Found(maps, nm, sk) # {}
<1>1. CASE Found(maps, nm, sk) = {}
  BY <1>1, TreeGetIs
<1>2. CASE Found(maps, nm, sk) # {}
  <2>1. getIn(maps, nm, Longest(Found(maps, nm, sk))) # NoValue
    BY <1>2, FoundLongest DEF Found
  <2> QED BY <1>2, <2>1, TreeGetIs
<1> QED BY <1>1, <1>2

\* What a section has is found in it.
LEMMA OwnIsFound ==
  ASSUME NEW maps, NEW nm, NEW sk \in Subkey, getIn(maps, nm, sk) # NoValue
  PROVE  getFrom(maps, nm, sk) # NoValue
<1>1. CASE tree /\ Absolute(sk)
  <2>1. sk \in Parents(sk)
    BY <1>1, SubkeyType, ParentsBounded DEF Absolute
  <2>2. Found(maps, nm, sk) # {}
    BY <2>1 DEF Found
  <2>3. treeGet(maps, nm, sk) # NoValue
    BY <1>1, <2>2, TreeFinds
  <2> QED BY <1>1, <2>3 DEF getFrom
<1>2. CASE ~(tree /\ Absolute(sk))
  BY <1>2 DEF getFrom
<1> QED BY <1>1, <1>2

\* What is found in a section, some section has as its own.
LEMMA FoundIsOwned ==
  ASSUME NEW maps, NEW nm, NEW sk \in Subkey, getFrom(maps, nm, sk) # NoValue
  PROVE  \E k \in Subkey : getIn(maps, nm, k) # NoValue
<1>1. CASE tree /\ Absolute(sk)
  <2>1. treeGet(maps, nm, sk) # NoValue
    BY <1>1 DEF getFrom
  <2>2. Found(maps, nm, sk) # {}
    BY <1>1, <2>1, TreeFinds
  <2> QED BY <2>2 DEF Found
<1>2. CASE ~(tree /\ Absolute(sk))
  BY <1>2 DEF getFrom
<1> QED BY <1>1, <1>2

\* The section around another, part by part.
LEMMA AroundIs ==
  ASSUME NEW sk \in Seq(Part), Len(sk) > 1
  PROVE  /\ Around(sk) \in Seq(Part) /\ Len(Around(sk)) = Len(sk) - 2
         /\ \A i \in 1 .. Len(sk) - 2 : Around(sk)[i] = sk[i]
<1> DEFINE n == Len(sk)
<1> DEFINE a == SubSeq(sk, 1, n - 2)
<1>1. n \in Nat /\ n > 1 /\ DOMAIN sk = 1 .. n
  BY LenProperties
<1>2. /\ a \in Seq(Part) /\ DOMAIN a = 1 .. n - 2
      /\ \A i \in 1 .. n - 2 : a[i] = sk[i]
  BY <1>1
<1>3. Len(a) \in Nat /\ DOMAIN a = 1 .. Len(a)
  BY <1>2, LenProperties
<1>4. Len(a) = n - 2
  <2> HIDE DEF a, n
  <2> QED BY <1>1, <1>2, <1>3
<1> QED BY <1>2, <1>4 DEF Around

\* Around a section, up to the slash before its last part, are the same places as
\* before that slash.
LEMMA BeforeAround ==
  ASSUME NEW sk \in Seq(Part), Len(sk) > 1,
         sk[Len(sk)] # Slash, sk[Len(sk) - 1] = Slash
  PROVE  Before(sk) = {Around(sk)} \cup Before(Around(sk))
<1> DEFINE n == Len(sk)
<1> DEFINE a == SubSeq(sk, 1, n - 2)
<1>1. n \in Nat /\ n > 1 /\ DOMAIN sk = 1 .. n /\ sk[n] # Slash /\ sk[n - 1] = Slash
  BY LenProperties
<1>2. /\ a \in Seq(Part) /\ DOMAIN a = 1 .. n - 2
      /\ \A i \in 1 .. n - 2 : a[i] = sk[i]
  BY <1>1
<1>3. \A i \in 1 .. n - 2 : SubSeq(a, 1, i - 1) = SubSeq(sk, 1, i - 1)
  BY <1>1, <1>2
<1> HIDE DEF n
<1>4. ASSUME NEW k \in Before(sk) PROVE k \in {a} \cup Before(a)
  <2>1. PICK i \in 1 .. n : sk[i] = Slash /\ k = SubSeq(sk, 1, i - 1)
    BY <1>1, <1>4 DEF Before
  <2>2. i # n
    BY <1>1, <2>1
  <2>3. CASE i = n - 1
    <3>1. i - 1 = n - 2
      BY <1>1, <2>3
    <3> QED BY <2>1, <3>1
  <2>4. CASE i # n - 1
    <3>1. i \in 1 .. n - 2
      BY <1>1, <2>2, <2>4
    <3> HIDE DEF a
    <3> QED BY <1>2, <1>3, <2>1, <3>1 DEF Before
  <2> QED BY <2>3, <2>4
<1>5. a \in Before(sk)
  <2>1. n - 1 \in 1 .. n /\ (n - 1) - 1 = n - 2
    BY <1>1
  <2> QED BY <1>1, <2>1 DEF Before
<1>6. ASSUME NEW k \in Before(a) PROVE k \in Before(sk)
  <2> HIDE DEF a
  <2>1. PICK i \in 1 .. n - 2 : a[i] = Slash /\ k = SubSeq(a, 1, i - 1)
    BY <1>2, <1>6 DEF Before
  <2>2. i \in 1 .. n
    BY <1>1
  <2> QED BY <1>1, <1>2, <1>3, <2>1, <2>2 DEF Before
<1> QED BY <1>4, <1>5, <1>6 DEF n, Around

\* The places that have the variable, in a file whose section names do not end in a
\* slash: the section itself and what precedes its slashes.
LEMMA FoundIn ==
  ASSUME NEW maps \in Maps, NoFinalSlash(maps), NEW nm \in Name,
         NEW sk \in Seq(Part), sk # <<>>
  PROVE  Found(maps, nm, sk) =
           {k \in ({sk} \cup Before(sk)) \cap Subkey : getIn(maps, nm, k) # NoValue}
<1> DEFINE msk == Append(sk, Slash)
<1>1. Len(sk) \in Nat /\ Len(sk) > 0
  BY LenProperties, EmptySeq
<1>2. Len(msk) > 1 /\ msk[Len(msk)] = Slash
  BY <1>1, SlashIsPart, AppendProperties
<1>3. msk \in Subkey => getIn(maps, nm, msk) = NoValue
  <2> HIDE DEF msk
  <2> QED BY <1>2 DEF NoFinalSlash, hasSubKey, getIn
<1>4. Parents(sk) = {msk, sk} \cup Before(sk) \/ Parents(sk) = {sk} \cup Before(sk)
  BY ParentsOfPlain, ParentsOfSlashed
<1> HIDE DEF msk
<1> QED BY <1>3, <1>4 DEF Found

\* A section of a tree has its own values, and those of the section around it for
\* the rest.
LEMMA Inherits ==
  ASSUME NEW maps \in Maps, NEW nm \in Name, NEW sk \in Subkey,
         Absolute(sk), sk[Len(sk)] # Slash, NoFinalSlash(maps), tree
  PROVE  getFrom(maps, nm, sk) =
           IF getIn(maps, nm, sk) # NoValue THEN getIn(maps, nm, sk)
           ELSE getFrom(maps, nm, Around(sk))
<1> DEFINE n == Len(sk)
<1> DEFINE a == Around(sk)
<1> DEFINE F == Found(maps, nm, sk)
<1>1. sk \in Seq(Part) /\ sk # <<>> /\ sk[1] = Slash
  BY SubkeyType DEF Absolute
<1>2. n \in Nat /\ n > 1 /\ sk[n - 1] = Slash
  <2>1. n \in Nat /\ n # 0 /\ n # 1
    BY <1>1, LenProperties, EmptySeq
  <2>2. n - 1 \in 1 .. n - 1 /\ (n - 1) + 1 = n
    <3> HIDE DEF n, a, F
    <3>1. n > 1
      BY <2>1
    <3> QED BY <2>1, <3>1
  <2>3. Slash \in {sk[n - 1], sk[(n - 1) + 1]}
    BY <2>2, SubkeyAssumption, Zenon
  <2> QED BY <2>1, <2>2, <2>3
<1>3. F = {k \in ({sk} \cup Before(sk)) \cap Subkey : getIn(maps, nm, k) # NoValue}
  BY <1>1, FoundIn
<1>4. getFrom(maps, nm, sk) = treeGet(maps, nm, sk)
  BY DEF getFrom
<1>5. treeGet(maps, nm, sk) = IF F = {} THEN NoValue ELSE getIn(maps, nm, Longest(F))
  BY TreeGetIs
<1>6. F # {} => Longest(F) \in F /\ \A k \in F : Len(Longest(F)) >= Len(k)
  BY FoundLongest
<1>7. CASE getIn(maps, nm, sk) # NoValue
  <2>1. sk \in F
    BY <1>3, <1>7
  <2>2. Longest(F) \in F /\ Len(Longest(F)) >= n
    BY <1>6, <2>1
  <2>3. \A k \in Before(sk) : Len(k) < n /\ Len(k) \in Nat
    BY <1>1, BeforeType, LenProperties
  <2>4. Longest(F) \notin Before(sk)
    <3> HIDE DEF F
    <3> SUFFICES ASSUME Longest(F) \in Before(sk) PROVE FALSE
      OBVIOUS
    <3>1. Len(Longest(F)) < n /\ Len(Longest(F)) \in Nat
      BY <2>3, Zenon
    <3> QED BY <1>2, <2>2, <3>1
  <2>5. Longest(F) = sk
    <3> HIDE DEF F
    <3> QED BY <1>3, <2>2, <2>4
  <2> HIDE DEF F
  <2> QED BY <1>4, <1>5, <1>7, <2>1, <2>5
<1>8. CASE getIn(maps, nm, sk) = NoValue
  <2>1. F = {k \in Before(sk) \cap Subkey : getIn(maps, nm, k) # NoValue}
    <3> HIDE DEF F
    <3> QED BY <1>3, <1>8
  <2>2. Before(sk) = {a} \cup Before(a)
    BY <1>1, <1>2, BeforeAround
  <2>3. a \in Seq(Part) /\ Len(a) = n - 2 /\ (n > 2 => a[1] = Slash)
    <3>2. a \in Seq(Part) /\ Len(a) = n - 2 /\ \A i \in 1 .. n - 2 : a[i] = sk[i]
      BY <1>1, <1>2, AroundIs
    <3>3. n > 2 => 1 \in 1 .. n - 2
      BY <1>2
    <3> HIDE DEF n, a, F
    <3> QED BY <1>1, <3>2, <3>3
  <2>4. CASE n = 2
    <3>1. a = <<>>
      BY <2>3, <2>4, EmptySeq
    <3>2. Before(a) = {}
      BY <3>1 DEF Before
    <3>3. getFrom(maps, nm, a) = getIn(maps, nm, a)
      BY <3>1 DEF getFrom, Absolute
    <3>4. a \in Subkey
      BY <3>1, SubkeyAssumption, ConfMapAssumption
    <3> HIDE DEF F, a
    <3>5. F = IF getIn(maps, nm, a) # NoValue THEN {a} ELSE {}
      BY <2>1, <2>2, <3>2, <3>4
    <3> QED BY <1>4, <1>5, <1>6, <1>8, <3>3, <3>5 DEF a
  <2>5. CASE n # 2
    <3>1. a # <<>> /\ Absolute(a)
      BY <1>2, <2>3, <2>5, EmptySeq DEF Absolute
    <3>2. Found(maps, nm, a) =
            {k \in ({a} \cup Before(a)) \cap Subkey : getIn(maps, nm, k) # NoValue}
      <4> HIDE DEF a
      <4> QED BY <2>3, <3>1, FoundIn
    <3>3. F = Found(maps, nm, a)
      <4> HIDE DEF F, a
      <4> QED BY <2>1, <2>2, <3>2
    <3>4. getFrom(maps, nm, a) = treeGet(maps, nm, a)
      BY <3>1 DEF getFrom
    <3>5. treeGet(maps, nm, a) = treeGet(maps, nm, sk)
      <4> HIDE DEF a, F
      <4> QED BY <1>5, <3>3, TreeGetIs
    <3> QED BY <1>4, <1>8, <3>4, <3>5
  <2> QED BY <2>4, <2>5
<1> QED BY <1>7, <1>8

-----------------------------------------------------------------------------
(* Lookups and listings.                                                   *)

\* The elements are maps.
LEMMA ConfType ==
  ASSUME m_confs \in Seq(Maps)
  PROVE  /\ DOMAIN m_confs \in SUBSET Nat
         /\ \A i \in DOMAIN m_confs : m_confs[i] \in Maps
BY LenProperties

\* get() finds a value if an element has one.
LEMMA GetFinds ==
  ASSUME m_confs \in Seq(Maps), NEW nm, NEW sk
  PROVE  get(m_confs, nm, sk) # NoValue
           <=> \E i \in DOMAIN m_confs : getFrom(m_confs[i], nm, sk) # NoValue
<1> DEFINE H == Having(m_confs, nm, sk)
<1>1. H # {} <=> \E i \in DOMAIN m_confs : getFrom(m_confs[i], nm, sk) # NoValue
  BY DEF Having
<1>2. H \in SUBSET Nat
  BY ConfType DEF Having
<1>3. CASE H = {}
  BY <1>1, <1>3 DEF get
<1>4. CASE H # {}
  <2>1. Min(H) \in H
    <3> HIDE DEF H
    <3> QED BY <1>2, <1>4, MinIs
  <2>2. getFrom(m_confs[Min(H)], nm, sk) # NoValue
    BY <2>1 DEF Having
  <2> QED BY <1>1, <1>4, <2>2 DEF get
<1> QED BY <1>3, <1>4

\* getNames() lists what an element's own section has.
LEMMA Listed ==
  ASSUME NEW nm \in Name, NEW sk \in Subkey
  PROVE  nm \in getNames1(m_confs, sk, FALSE)
           <=> \E i \in DOMAIN m_confs : getIn(m_confs[i], nm, sk) # NoValue
<1>1. getNames1(m_confs, sk, FALSE)
        = UNION {namesIn(m_confs[i], sk) : i \in WithSection(m_confs, sk)}
  BY DEF getNames1
<1>2. \A i \in DOMAIN m_confs :
        getIn(m_confs[i], nm, sk) # NoValue => i \in WithSection(m_confs, sk)
  BY DEF WithSection, hasSubKey, getIn
<1>3. \A i \in WithSection(m_confs, sk) : i \in DOMAIN m_confs
  BY DEF WithSection
<1>4. \A i : nm \in namesIn(m_confs[i], sk) <=> getIn(m_confs[i], nm, sk) # NoValue
  BY DEF namesIn
<1>5. nm \in getNames1(m_confs, sk, FALSE)
        <=> \E i \in WithSection(m_confs, sk) : nm \in namesIn(m_confs[i], sk)
  BY <1>1
<1> QED BY <1>2, <1>3, <1>4, <1>5, Zenon

\* In any stack the listings tell what get() finds.
LEMMA ListingsAreTrue ==
  ASSUME m_confs \in Seq(Maps)
  PROVE  ListingsTell
<1> SUFFICES ASSUME NEW nm \in Name
             PROVE  /\ \A sk \in Subkey :
                         /\ nm \in getNames1(m_confs, sk, FALSE)
                              => get(m_confs, nm, sk) # NoValue
                         /\ ~tree /\ get(m_confs, nm, sk) # NoValue
                              => nm \in getNames1(m_confs, sk, FALSE)
                    /\ hasNameAnywhere(m_confs, nm) <=>
                         \E sk \in getSubKeys(m_confs, FALSE) :
                           nm \in getNames1(m_confs, sk, FALSE)
  BY DEF ListingsTell
<1>1. ASSUME NEW sk \in Subkey, nm \in getNames1(m_confs, sk, FALSE)
      PROVE  get(m_confs, nm, sk) # NoValue
  <2>1. PICK i \in DOMAIN m_confs : getIn(m_confs[i], nm, sk) # NoValue
    BY <1>1, Listed
  <2>2. getFrom(m_confs[i], nm, sk) # NoValue
    BY <2>1, OwnIsFound
  <2> QED BY <2>2, GetFinds
<1>2. ASSUME NEW sk \in Subkey, ~tree, get(m_confs, nm, sk) # NoValue
      PROVE  nm \in getNames1(m_confs, sk, FALSE)
  <2>1. PICK i \in DOMAIN m_confs : getFrom(m_confs[i], nm, sk) # NoValue
    BY <1>2, GetFinds
  <2>2. getIn(m_confs[i], nm, sk) # NoValue
    BY <1>2, <2>1 DEF getFrom
  <2> QED BY <2>2, Listed
<1>3. ASSUME hasNameAnywhere(m_confs, nm)
      PROVE  \E sk \in getSubKeys(m_confs, FALSE) : nm \in getNames1(m_confs, sk, FALSE)
  <2>1. PICK i \in DOMAIN m_confs : hasNameIn(m_confs[i], nm)
    BY <1>3 DEF hasNameAnywhere
  <2>2. PICK sk \in Subkey : getFrom(m_confs[i], nm, sk) # NoValue
    BY <2>1 DEF hasNameIn, subKeysIn
  <2>3. PICK k \in Subkey : getIn(m_confs[i], nm, k) # NoValue
    BY <2>2, FoundIsOwned
  <2>4. nm \in getNames1(m_confs, k, FALSE)
    BY <2>3, Listed
  <2>5. k \in getSubKeys(m_confs, FALSE)
    BY <2>3 DEF getSubKeys, subKeysIn, hasSubKey, getIn
  <2> QED BY <2>4, <2>5
<1>4. ASSUME NEW sk \in getSubKeys(m_confs, FALSE), nm \in getNames1(m_confs, sk, FALSE)
      PROVE  hasNameAnywhere(m_confs, nm)
  <2>1. sk \in Subkey
    BY DEF getSubKeys, subKeysIn
  <2>2. PICK i \in DOMAIN m_confs : getIn(m_confs[i], nm, sk) # NoValue
    BY <1>4, <2>1, Listed
  <2>3. sk \in subKeysIn(m_confs[i]) /\ getFrom(m_confs[i], nm, sk) # NoValue
    BY <2>1, <2>2, OwnIsFound DEF subKeysIn, hasSubKey, getIn
  <2> QED BY <2>3 DEF hasNameAnywhere, hasNameIn
<1> QED BY <1>1, <1>2, <1>3, <1>4

\* In any stack a shallow listing is made from the element that get() stops at.
LEMMA ShallowIsTrue ==
  ASSUME m_confs \in Seq(Maps)
  PROVE  ShallowIsFirst
<1> SUFFICES ASSUME NEW nm \in Name, NEW sk \in Subkey, ~tree,
                    nm \in getNames1(m_confs, sk, TRUE)
             PROVE  get(m_confs, nm, sk)
                      = getFrom(m_confs[Min(WithSection(m_confs, sk))], nm, sk)
  BY DEF ShallowIsFirst
<1> DEFINE W == WithSection(m_confs, sk)
<1> DEFINE H == Having(m_confs, nm, sk)
<1>1. W # {} /\ nm \in namesIn(m_confs[Min(W)], sk)
  BY DEF getNames1
<1>2. W \in SUBSET Nat /\ W \in SUBSET DOMAIN m_confs
  BY ConfType DEF WithSection
<1>3. Min(W) \in W /\ \A i \in W : Min(W) =< i
  <2> HIDE DEF W
  <2> QED BY <1>1, <1>2, MinIs
<1>4. H \in SUBSET W
  BY DEF Having, WithSection, hasSubKey, getFrom, getIn
<1>5. Min(W) \in H
  <2>1. getFrom(m_confs[Min(W)], nm, sk) # NoValue
    BY <1>1 DEF namesIn, getFrom
  <2> HIDE DEF W
  <2> QED BY <1>2, <1>3, <2>1 DEF Having
<1>6. Min(H) = Min(W)
  <2> HIDE DEF H, W
  <2>1. Min(H) \in H /\ Min(H) =< Min(W)
    BY <1>2, <1>4, <1>5, MinIs
  <2>2. Min(W) =< Min(H) /\ Min(W) \in Nat /\ Min(H) \in Nat
    BY <1>2, <1>3, <1>4, <2>1
  <2> QED BY <2>1, <2>2
<1> QED BY <1>5, <1>6 DEF get

\* Whatever the files hold, a section of a tree inherits from the one around it,
\* the listings name what lookups find, and a shallow listing is about the file
\* whose values count (conftree.cpp:678-708, conftree.h:395-413, 465-504).
THEOREM LookupsAndListings == Spec => []LookupsAgree
<1>1. ASSUME StackInv PROVE LookupsAgree
  <2>1. m_confs \in Seq(Maps)
    BY <1>1 DEF StackInv, NoUnneededEntry, TypeOK
  <2>2. SectionsInherit
    <3> SUFFICES ASSUME NEW i \in DOMAIN m_confs, NEW nm \in Name, NEW sk \in Subkey,
                        tree, Absolute(sk), sk[Len(sk)] # Slash,
                        NoFinalSlash(m_confs[i])
                 PROVE  getFrom(m_confs[i], nm, sk) =
                          IF getIn(m_confs[i], nm, sk) # NoValue
                          THEN getIn(m_confs[i], nm, sk)
                          ELSE getFrom(m_confs[i], nm, Around(sk))
      BY DEF SectionsInherit
    <3>1. m_confs[i] \in Maps
      BY <2>1, ConfType
    <3> QED BY <3>1, Inherits
  <2> QED BY <2>1, <2>2, ListingsAreTrue, ShallowIsTrue DEF LookupsAgree
<1> QED BY <1>1, InitStack, NextStack, PTL DEF Spec
=============================================================================
