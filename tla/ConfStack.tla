------------------------------- MODULE ConfStack -----------------------------
(***************************************************************************)
(* Class ConfStack of src/sc2src/conftree.h: several configurations, the   *)
(* first with a value for a variable wins, the front one takes the         *)
(* changes; and class ConfTree, whose get() looks a variable up in the     *)
(* parents of its section.                                                 *)
(*                                                                         *)
(* A subkey is the sequence of its name parts and "/" separators; <<>> is  *)
(* the global one.  The stack's elements are maps of values: what each     *)
(* does with its file is in ConfSimple.                                    *)
(***************************************************************************)
EXTENDS ConfMap, FiniteSets, FiniteSetsExt, Integers, Sequences

CONSTANTS
  NFiles,   \* how many files the stack is made from
  Opens,    \* which files may be opened: a set of functions to BOOLEAN
  Trees,    \* TRUE for a ConfStack<ConfTree>, FALSE for <ConfSimple>: a set
  ReadOnly, \* whether the stack is opened with ro, a set of BOOLEANs
  Contents  \* the maps a file may hold

Slash == "/"

ASSUME ConfStackAssumption ==
  /\ NFiles \in Nat \ {0}
  /\ Opens \subseteq [1 .. NFiles -> BOOLEAN]
  /\ Trees \subseteq BOOLEAN
  /\ ReadOnly \subseteq BOOLEAN
  /\ Contents \subseteq Maps

\* A subkey is a sequence, of two parts that follow each other one is a separator.
ASSUME SubkeyAssumption ==
  /\ Global = <<>>
  /\ Subkey \subseteq Seq({Slash} \cup UNION {Range(sk) : sk \in Subkey})
  /\ \A sk \in Subkey : \A i \in 1 .. Len(sk) - 1 : Slash \in {sk[i], sk[i + 1]}

VARIABLES
  tree,     \* the elements are ConfTrees
  ro,       \* as given to the constructor
  opens,    \* which files could be opened
  m_ok,
  m_confs,  \* the values of each element of the stack
  writable, \* the front element's status is STATUS_RW
  ret       \* what the last operation returned, and what it was

vars == <<tree, ro, opens, m_ok, m_confs, writable, ret>>

Longest(S) == CHOOSE s \in S : \A t \in S : Len(s) >= Len(t)

-----------------------------------------------------------------------------
(* ConfTree::get.                                                          *)

\* Where a variable of an absolute subkey is looked up: the subkey ended by a
\* slash, then what precedes each of its slashes, down to the global section.
Parents(sk) ==
  LET msk == IF sk[Len(sk)] = Slash THEN sk ELSE Append(sk, Slash)
  IN  {msk} \cup {SubSeq(msk, 1, i - 1) : i \in {j \in DOMAIN msk : msk[j] = Slash}}
Absolute(sk) == sk # <<>> /\ sk[1] = Slash

treeGetSection(maps, nm, sk) ==
  IF getIn(maps, nm, sk) # NoValue THEN getIn(maps, nm, sk)
                                   ELSE getIn(maps, nm, Global)
treeGet(maps, nm, sk) ==
  LET found == {k \in Parents(sk) \cap Subkey : getIn(maps, nm, k) # NoValue}
  IN  IF found = {} THEN NoValue ELSE getIn(maps, nm, Longest(found))
getFrom(maps, nm, sk) ==
  IF tree /\ Absolute(sk) THEN treeGet(maps, nm, sk) ELSE getIn(maps, nm, sk)

-----------------------------------------------------------------------------
(* The stack.                                                              *)

\* get(): the first element that has a value.
Having(confs, nm, sk) == {i \in DOMAIN confs : getFrom(confs[i], nm, sk) # NoValue}
get(confs, nm, sk) ==
  IF Having(confs, nm, sk) = {} THEN NoValue
  ELSE getFrom(confs[Min(Having(confs, nm, sk))], nm, sk)

\* getNames() of one element lists the section's own variables, also of a tree;
\* hasNameAnywhere() looks in each of its sections.
namesIn(maps, sk) == {nm \in Name : getIn(maps, nm, sk) # NoValue}
subKeysIn(maps) == {sk \in Subkey : hasSubKey(maps, sk)}
hasNameIn(maps, nm) == \E sk \in subKeysIn(maps) : getFrom(maps, nm, sk) # NoValue

\* The same of the stack: getNames1() adds up the elements that have the section,
\* the shallow one stops after the first of them; getSubKeys() adds up all, the
\* shallow one has the front only.
WithSection(confs, sk) == {i \in DOMAIN confs : hasSubKey(confs[i], sk)}
getNames1(confs, sk, shallow) ==
  LET listed == IF shallow /\ WithSection(confs, sk) # {}
                THEN {Min(WithSection(confs, sk))} ELSE WithSection(confs, sk)
  IN  UNION {namesIn(confs[i], sk) : i \in listed}
getSubKeys(confs, shallow) ==
  UNION {subKeysIn(confs[i]) : i \in {j \in DOMAIN confs : shallow => j = 1}}
hasNameAnywhere(confs, nm) == \E i \in DOMAIN confs : hasNameIn(confs[i], nm)

\* construct(): the files that open are the elements, in order; for writing the
\* first must open, and the last always.
StackOk(o, readonly) == o[NFiles] /\ (readonly \/ o[1])
Opened(o, readonly) ==
  IF ~readonly /\ ~o[1] THEN {} ELSE {i \in 1 .. NFiles : o[i]}

\* What each file holds is arbitrary; a file opened for writing may turn out to be
\* readable only. The front element is writable only if it is the first file.
Init ==
  /\ tree \in Trees
  /\ ro \in ReadOnly
  /\ opens \in Opens
  /\ m_ok = StackOk(opens, ro)
  /\ m_confs \in [1 .. Cardinality(Opened(opens, ro)) -> Contents]
  /\ writable \in IF ro \/ ~opens[1] THEN {FALSE} ELSE BOOLEAN
  /\ ret = [op |-> "new", result |-> TRUE]

Deeper(nm, sk) == get(Tail(m_confs), nm, sk)

Returns(op, nm, sk, result) ==
  ret' = [op |-> op, name |-> nm, subkey |-> sk, result |-> result]

\* set(): when the deeper files give the value, the front entry is erased (or not
\* added) and the result of that is not looked at; else the front element is set.
setKeepingFront(nm, val, sk) ==
  /\ m_ok
  /\ IF Deeper(nm, sk) = val
     THEN UNCHANGED m_confs /\ Returns("set", nm, sk, TRUE)
     ELSE /\ m_confs' = IF writable THEN [m_confs EXCEPT ![1] = With(@, nm, val, sk)]
                                    ELSE m_confs
          /\ Returns("set", nm, sk, writable)
  /\ UNCHANGED <<tree, ro, opens, m_ok, writable>>
setAlways(nm, val, sk) ==
  /\ m_ok
  /\ m_confs' = IF writable THEN [m_confs EXCEPT ![1] = With(@, nm, val, sk)]
                            ELSE m_confs
  /\ Returns("set", nm, sk, writable)
  /\ UNCHANGED <<tree, ro, opens, m_ok, writable>>
set(nm, val, sk) ==
  /\ m_ok
  /\ IF Deeper(nm, sk) = val
     THEN /\ m_confs' = IF writable THEN [m_confs EXCEPT ![1] = Without(@, nm, sk)]
                                    ELSE m_confs
          /\ Returns("set", nm, sk, TRUE)
     ELSE /\ m_confs' = IF writable THEN [m_confs EXCEPT ![1] = With(@, nm, val, sk)]
                                    ELSE m_confs
          /\ Returns("set", nm, sk, writable)
  /\ UNCHANGED <<tree, ro, opens, m_ok, writable>>

\* erase() and eraseKey() work on the front element (there is none to call them on
\* when no file opened); they change it if it is writable.
erase(nm, sk) ==
  /\ m_confs # <<>>
  /\ m_confs' = IF writable THEN [m_confs EXCEPT ![1] = Without(@, nm, sk)]
                            ELSE m_confs
  /\ Returns("erase", nm, sk, writable /\ hasSubKey(m_confs[1], sk))
  /\ UNCHANGED <<tree, ro, opens, m_ok, writable>>
eraseKey(sk) ==
  /\ m_confs # <<>>
  /\ m_confs' = IF writable THEN [m_confs EXCEPT ![1] = WithoutKey(@, sk)]
                            ELSE m_confs
  /\ ret' = [op |-> "eraseKey", subkey |-> sk, result |-> TRUE]
  /\ UNCHANGED <<tree, ro, opens, m_ok, writable>>

Next ==
  \/ \E nm \in Name, sk \in Subkey :
       (\E val \in Value : set(nm, val, sk)) \/ erase(nm, sk)
  \/ \E sk \in Subkey : eraseKey(sk)

Spec == Init /\ [][Next]_vars

-----------------------------------------------------------------------------
TypeOK ==
  /\ m_ok \in BOOLEAN /\ writable \in BOOLEAN
  /\ m_confs \in Seq(Maps) /\ Len(m_confs) =< NFiles
  /\ ret.result \in BOOLEAN

\* After a successful set() on a stack of ConfSimples whose front file can be
\* written, get() gives the value, whatever the other files hold. In a stack of
\* trees a parent section of the front file may hide it.
SetTakes ==
  [][\A nm \in Name, sk \in Subkey, val \in Value :
       set(nm, val, sk) /\ writable /\ ~tree /\ ret'.result => get(m_confs', nm, sk) = val]_vars

\* conftree.h:422 "Avoid adding unneeded entries": set() never leaves a front entry
\* that repeats what the deeper files say. (In well-typed states.)
NoUnneededEntry ==
  /\ TypeOK
  /\ ret.op = "set" /\ writable =>
       LET own == getIn(m_confs[1], ret.name, ret.subkey)
       IN  own = NoValue \/ own # get(Tail(m_confs), ret.name, ret.subkey)

\* conftree.h:296 "If a given variable is not found in the specified section, it will
\* be looked up the tree of section names, and in the global space": a section of a
\* tree has its own values, and those of the section around it for the rest. (In a
\* file whose section names do not end in a slash: get() looks into "/a/" for "/a",
\* but not for "/a/b".)
Around(sk) == SubSeq(sk, 1, Len(sk) - 2)
NoFinalSlash(maps) ==
  \A k \in Subkey : Len(k) > 1 /\ k[Len(k)] = Slash => ~hasSubKey(maps, k)
SectionsInherit ==
  \A i \in DOMAIN m_confs, nm \in Name, sk \in Subkey :
    LET maps == m_confs[i]
    IN  tree /\ Absolute(sk) /\ sk[Len(sk)] # Slash /\ NoFinalSlash(maps) =>
          getFrom(maps, nm, sk) =
            IF getIn(maps, nm, sk) # NoValue THEN getIn(maps, nm, sk)
            ELSE getFrom(maps, nm, Around(sk))

\* The listings of a stack tell what get() finds in it, after any changes of the
\* front file: what getNames() lists has a value, and in a stack of plain files
\* nothing else has; a variable is somewhere if and only if a section lists it.
ListingsTell ==
  \A nm \in Name :
    /\ \A sk \in Subkey :
         LET listed == nm \in getNames1(m_confs, sk, FALSE)
             given  == get(m_confs, nm, sk) # NoValue
         IN  (listed => given) /\ (~tree /\ given => listed)
    /\ hasNameAnywhere(m_confs, nm) <=>
         \E sk \in getSubKeys(m_confs, FALSE) : nm \in getNames1(m_confs, sk, FALSE)

\* The value of a variable in a shallow listing is the one of the file that the
\* listing is made from, whatever files are before and behind it.
ShallowIsFirst ==
  \A nm \in Name, sk \in Subkey :
    ~tree /\ nm \in getNames1(m_confs, sk, TRUE) =>
      get(m_confs, nm, sk) = getFrom(m_confs[Min(WithSection(m_confs, sk))], nm, sk)

\* Lookups and listings describe the same configuration (conftree.h:290-312).
LookupsAgree == SectionsInherit /\ ListingsTell /\ ShallowIsFirst
=============================================================================
