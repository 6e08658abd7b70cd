--------------------------- MODULE ContainerProofs ---------------------------
(***************************************************************************)
(* Theorems about ContainerOwnership, for every set of names, addresses    *)
(* and literals and every bound: without the sharing constructs nothing    *)
(* that can be reached has been deleted, every value has one holder, only  *)
(* elements and members go stale as the result of the last line, and only  *)
(* four operations forget a value that nobody deletes.                     *)
(***************************************************************************)
EXTENDS ContainerOwnership, SequenceTheorems, TLAPS

-----------------------------------------------------------------------------
(* The invariant.  It is stated of a heap and of what refers to it, so that it   *)
(* can be said of the heap an operation has made before the dead are deleted.    *)

CellTags == {"FREED", "INTERPRETER", "CONTEXT_VARIABLE", "OBJECT_VALUE"}

\* Containers are the interpreter's or a variable's, what they hold is tagged as
\* theirs or is a literal, each in one place; a struct has its one member, and a
\* box without a container is empty.
HeapOK(own, bx, its) ==
  /\ own \in [Values -> Owners \cup {"FREED"}]
  /\ bx \in [Values -> Boxes \cup {Nil}]
  /\ its \in [Boxes -> Seq(Values)]
  /\ \A v \in Literals : own[v] = "VALUE_TOKEN"
  /\ own[Empty] = "EMPTY_VALUE"
  /\ \A v \in Cells : own[v] \in CellTags
  /\ \A v \in Values : bx[v] # Nil =>
       /\ v \in Cells /\ own[v] \in {"INTERPRETER", "CONTEXT_VARIABLE"}
       /\ bx[v] = v \/ bx[v] \in Tables
  /\ \A b \in Boxes : Len(its[b]) <= MaxItems
  /\ \A b \in Boxes : \A i \in DOMAIN its[b] :
       own[its[b][i]] \in {"OBJECT_VALUE", "VALUE_TOKEN"}
  /\ \A b, c \in Boxes : \A i \in DOMAIN its[b], j \in DOMAIN its[c] :
       its[b][i] \in Cells /\ its[b][i] = its[c][j] => b = c /\ i = j
  /\ \A v \in Values : bx[v] \in Tables => Len(its[bx[v]]) = 1
  /\ \A b \in Boxes : (\A v \in Values : bx[v] # b) => its[b] = <<>>

\* No place of a container has the value v.
NoItem(its, v) == \A b \in Boxes : \A i \in DOMAIN its[b] : its[b][i] # v

\* A variable's value has a tag above the interpreter's, is of its kind, and is
\* no other variable's and in no container.
SymbolsOK(own, bx, its, sym) ==
  /\ sym \in [Names -> Values \cup {Nil}]
  /\ \A n \in Names : sym[n] # Nil =>
       /\ sym[n] # Empty /\ own[sym[n]] \notin {"FREED", "INTERPRETER"}
       /\ n \in Scalars => bx[sym[n]] = Nil
       /\ n \in Lists => bx[sym[n]] = sym[n]
       /\ n \in Structs => bx[sym[n]] \in Tables
       /\ sym[n] \in Cells => NoItem(its, sym[n])
  /\ \A m, n \in Names : sym[m] \in Cells /\ sym[m] = sym[n] => m = n

\* A value that waits is alive and, if it is a cell, a temporary of that operand
\* alone; an element's list is there, and the index within it; a member's variable
\* has a value.
StackOK(own, bx, its, sym, stk) ==
  /\ stk \in Seq(OperandTypes)
  /\ \A i \in DOMAIN stk : stk[i].tag = "value" /\ stk[i].of \in Cells =>
         /\ own[stk[i].of] = "INTERPRETER"
         /\ \A j \in DOMAIN stk :
              stk[j].tag \in {"value", "element"} /\ stk[j].of = stk[i].of => j = i
  /\ \A i \in DOMAIN stk : stk[i].tag = "element" =>
       bx[stk[i].of] = stk[i].of /\ stk[i].at \in DOMAIN its[stk[i].of]
  /\ \A i \in DOMAIN stk : stk[i].tag = "member" => sym[stk[i].of] # Nil

\* The last result is alive, or was an element or member; a temporary that is the
\* last result is no operand and has no element waiting.
LastOK(own, its, stk, last, from) ==
  /\ last \in Values \cup {Nil, Freed} /\ from \in BOOLEAN
  /\ last = Freed => from
  /\ last \in Cells =>
       /\ own[last] # "FREED"
       /\ ~from => NoItem(its, last)
       /\ own[last] = "INTERPRETER" => \A i \in DOMAIN stk :
            stk[i].tag \in {"value", "element"} => stk[i].of # last

ContainerInv ==
  /\ HeapOK(owner, box, items)
  /\ SymbolsOK(owner, box, items, symbols)
  /\ StackOK(owner, box, items, symbols, stack)
  /\ LastOK(owner, items, stack, lastValue, fromItem)

World(own, bx, its, sym, stk, last, from) ==
  /\ HeapOK(own, bx, its)
  /\ SymbolsOK(own, bx, its, sym)
  /\ StackOK(own, bx, its, sym, stk)
  /\ LastOK(own, its, stk, last, from)

-----------------------------------------------------------------------------
(* Changes of a heap that keep what refers to it *)

LEMMA Distinct ==
  /\ Nil \notin Values /\ Nil \notin Tables /\ Nil \notin Boxes /\ Nil # Freed
  /\ Freed \notin Values /\ Cells \subseteq Values /\ Cells \subseteq Boxes /\ Tables \subseteq Boxes
  /\ \A t \in Tables : t \notin Values /\ t \notin Cells
  /\ Empty \in Values /\ Empty \notin Cells /\ Empty \notin Literals
  /\ Literals \subseteq Values /\ \A v \in Literals : v \notin Cells
  /\ \A v \in Values : v \in Cells \/ v \in Literals \/ v = Empty
  /\ MaxItems \in Nat /\ MaxItems > 0 /\ MaxStack \in Nat
  /\ \A n \in Names : n \in Scalars \/ n \in Lists \/ n \in Structs
  /\ \A n \in Lists : n \notin Scalars /\ n \notin Structs /\ n \in Names
  /\ \A n \in Structs : n \notin Scalars /\ n \in Names
  /\ \A n \in Scalars : n \in Names
  BY ContainerAssumption DEF ContainerAssumption, Values, Boxes, Names

\* Nothing refers to the value v.
Unseen(its, sym, stk, last, v) ==
  /\ NoItem(its, v) /\ last # v
  /\ \A n \in Names : sym[n] # v
  /\ \A i \in DOMAIN stk : stk[i].tag \in {"value", "element"} => stk[i].of # v

\* What the items are: values with a tag, no containers.
LEMMA ItemFacts ==
  ASSUME NEW own, NEW bx, NEW its, HeapOK(own, bx, its),
         NEW b \in Boxes, NEW i \in DOMAIN its[b]
  PROVE  /\ its[b][i] \in Values /\ own[its[b][i]] \in {"OBJECT_VALUE", "VALUE_TOKEN"}
         /\ bx[its[b][i]] = Nil /\ its[b][i] # Empty
         /\ its[b] \in Seq(Values) /\ i \in 1..Len(its[b]) /\ Len(its[b]) \in Nat
         /\ own[its[b][i]] = "OBJECT_VALUE" <=> its[b][i] \in Cells
<1>1. its[b] \in Seq(Values) /\ Len(its[b]) \in Nat /\ DOMAIN its[b] = 1..Len(its[b])
  BY LenProperties DEF HeapOK
<1>2. its[b][i] \in Values /\ i \in 1..Len(its[b])
  BY <1>1, ElementOfSeq
<1>3. own[its[b][i]] \in {"OBJECT_VALUE", "VALUE_TOKEN"}
  BY DEF HeapOK
<1>4. bx[its[b][i]] = Nil
  BY <1>2, <1>3 DEF HeapOK
<1>5. its[b][i] # Empty
  BY <1>3 DEF HeapOK
<1>6. its[b][i] \in Cells \/ its[b][i] \in Literals
  BY <1>2, <1>5, Distinct
<1>7. its[b][i] \in Cells => own[its[b][i]] = "OBJECT_VALUE"
  BY <1>3 DEF HeapOK, CellTags
<1>8. its[b][i] \in Literals => own[its[b][i]] = "VALUE_TOKEN"
  BY DEF HeapOK
<1> QED
  BY <1>1, <1>2, <1>3, <1>4, <1>5, <1>6, <1>7, <1>8, Distinct

\* What the operands are.
LEMMA OperandFacts ==
  ASSUME NEW stk \in Seq(OperandTypes), NEW i \in DOMAIN stk
  PROVE  /\ stk[i] \in OperandTypes
         /\ \/ stk[i].tag = "value" /\ stk[i].of \in Values /\ stk[i] = Operand("value", stk[i].of)
            \/ stk[i].tag = "name" /\ stk[i].of \in Names
            \/ stk[i].tag = "member" /\ stk[i].of \in Structs
            \/ stk[i].tag = "element" /\ stk[i].of \in Cells /\ stk[i].at \in 1..MaxItems
<1>1. stk[i] \in OperandTypes
  BY LenProperties, ElementOfSeq
<1> QED
  BY <1>1 DEF OperandTypes, Operand, ElementAt

LEMMA FreedUnseen ==
  ASSUME NEW own, NEW bx, NEW its, NEW sym, NEW stk, NEW last, NEW from,
         World(own, bx, its, sym, stk, last, from),
         NEW r \in Cells, own[r] = "FREED"
  PROVE  /\ Unseen(its, sym, stk, last, r)
         /\ bx[r] = Nil /\ its[r] = <<>> /\ \A v \in Values : bx[v] # r
<1>1. HeapOK(own, bx, its) /\ r \in Values /\ r \in Boxes
  BY Distinct DEF World
<1>2. bx[r] = Nil
  BY <1>1 DEF HeapOK
<1>3. \A v \in Values : bx[v] # r
  BY <1>1, <1>2, Distinct DEF HeapOK
<1>4. its[r] = <<>>
  BY <1>1, <1>3 DEF HeapOK
<1>5. NoItem(its, r)
  BY <1>1 DEF HeapOK, NoItem
<1>6. last # r
  BY DEF World, LastOK
<1>7. \A n \in Names : sym[n] # r
  BY Distinct DEF World, SymbolsOK
<1>8. ASSUME NEW i \in DOMAIN stk, stk[i].tag \in {"value", "element"}
      PROVE  stk[i].of # r
  BY <1>2, <1>8, Distinct DEF World, StackOK
<1> QED
  BY <1>2, <1>3, <1>4, <1>5, <1>6, <1>7, <1>8 DEF Unseen

\* Free cells are allocated.
LEMMA AllocKeeps ==
  ASSUME NEW own, NEW bx, NEW its, NEW sym, NEW stk, NEW last, NEW from,
         World(own, bx, its, sym, stk, last, from),
         NEW F \in SUBSET Cells, \A r \in F : own[r] = "FREED",
         NEW own2 \in [Values -> Owners \cup {"FREED"}],
         \A v \in Values \ F : own2[v] = own[v],
         \A r \in F : own2[r] \in CellTags \ {"FREED"}
  PROVE  World(own2, bx, its, sym, stk, last, from)
<1>1. HeapOK(own, bx, its)
  BY DEF World
<1>2. \A r \in F : Unseen(its, sym, stk, last, r) /\ bx[r] = Nil
  BY FreedUnseen
<1>3. \A b \in Boxes : \A i \in DOMAIN its[b] : own2[its[b][i]] = own[its[b][i]]
  BY <1>1, <1>2, ItemFacts DEF Unseen, NoItem
<1>4. HeapOK(own2, bx, its)
  <2>1. \A v \in Literals : own2[v] = "VALUE_TOKEN"
    BY <1>1, Distinct DEF HeapOK
  <2>2. own2[Empty] = "EMPTY_VALUE"
    BY <1>1, Distinct DEF HeapOK
  <2>3. \A v \in Cells : own2[v] \in CellTags
    BY <1>1, Distinct DEF HeapOK
  <2>4. \A v \in Values : bx[v] # Nil =>
         /\ v \in Cells /\ own2[v] \in {"INTERPRETER", "CONTEXT_VARIABLE"}
         /\ bx[v] = v \/ bx[v] \in Tables
    BY <1>1, <1>2 DEF HeapOK
  <2> QED
    BY <1>1, <1>3, <2>1, <2>2, <2>3, <2>4 DEF HeapOK
<1>5. SymbolsOK(own2, bx, its, sym)
  <2>1. \A n \in Names : sym[n] # Nil => own2[sym[n]] = own[sym[n]]
    BY <1>2 DEF World, SymbolsOK, Unseen
  <2> QED
    BY <2>1 DEF World, SymbolsOK
<1>6. StackOK(own2, bx, its, sym, stk)
  <2>1. \A i \in DOMAIN stk : stk[i].tag = "value" /\ stk[i].of \in Cells => own2[stk[i].of] = own[stk[i].of]
    BY <1>2, Distinct DEF Unseen
  <2> QED
    BY <2>1 DEF World, StackOK
<1>7. LastOK(own2, its, stk, last, from)
  <2>1. last \in Cells => own2[last] = own[last]
    BY <1>2, Distinct DEF Unseen
  <2> QED
    BY <2>1 DEF World, LastOK
<1> QED
  BY <1>4, <1>5, <1>6, <1>7 DEF World

\* A temporary that is no operand, or the scalar a variable has, gets a higher tag.
LEMMA TagKeeps ==
  ASSUME NEW own, NEW bx, NEW its, NEW sym, NEW stk, NEW last, NEW from,
         World(own, bx, its, sym, stk, last, from),
         NEW v \in Cells, own[v] \in {"INTERPRETER", "CONTEXT_VARIABLE"},
         NEW o \in {"CONTEXT_VARIABLE", "OBJECT_VALUE"}, o = "OBJECT_VALUE" => bx[v] = Nil,
         \A i \in DOMAIN stk : stk[i].tag = "value" => stk[i].of # v
  PROVE  World([own EXCEPT ![v] = o], bx, its, sym, stk, last, from)
<1> DEFINE own2 == [own EXCEPT ![v] = o]
<1>1. HeapOK(own, bx, its) /\ v \in Values
  BY Distinct DEF World
<1>2. /\ own2 \in [Values -> Owners \cup {"FREED"}]
      /\ own2[v] = o /\ \A w \in Values : w # v => own2[w] = own[w]
  BY <1>1 DEF HeapOK, Owners
<1> HIDE DEF own2
<1>3. \A b \in Boxes : \A i \in DOMAIN its[b] : its[b][i] \in Values /\ its[b][i] # v
  BY <1>1, ItemFacts
<1>4. HeapOK(own2, bx, its)
  <2>1. \A w \in Literals : own2[w] = "VALUE_TOKEN"
    BY <1>1, <1>2, Distinct DEF HeapOK
  <2>2. own2[Empty] = "EMPTY_VALUE"
    BY <1>1, <1>2, Distinct DEF HeapOK
  <2>3. \A w \in Cells : own2[w] \in CellTags
    BY <1>1, <1>2, Distinct DEF HeapOK, CellTags
  <2>4. \A w \in Values : bx[w] # Nil =>
         /\ w \in Cells /\ own2[w] \in {"INTERPRETER", "CONTEXT_VARIABLE"}
         /\ bx[w] = w \/ bx[w] \in Tables
    BY <1>1, <1>2 DEF HeapOK
  <2>5. \A b \in Boxes : \A i \in DOMAIN its[b] : own2[its[b][i]] \in {"OBJECT_VALUE", "VALUE_TOKEN"}
    BY <1>1, <1>2, <1>3 DEF HeapOK
  <2> QED
    BY <1>1, <1>2, <2>1, <2>2, <2>3, <2>4, <2>5 DEF HeapOK
<1>5. SymbolsOK(own2, bx, its, sym)
  BY <1>2, Distinct DEF World, SymbolsOK
<1>6. StackOK(own2, bx, its, sym, stk)
  <2>1. \A i \in DOMAIN stk : stk[i].tag = "value" /\ stk[i].of \in Cells => own2[stk[i].of] = own[stk[i].of]
    BY <1>2, Distinct
  <2> QED
    BY <2>1 DEF World, StackOK
<1>7. LastOK(own2, its, stk, last, from)
  <2>1. last \in Cells => own2[last] # "FREED" /\ (own2[last] = "INTERPRETER" => own[last] = "INTERPRETER")
    BY <1>2, Distinct DEF World, LastOK
  <2> QED
    BY <2>1 DEF World, LastOK
<1> QED
  BY <1>4, <1>5, <1>6, <1>7 DEF World, own2

\* Values that can be put into a box: tagged as its, in no other place, no
\* variable's, and not the last result unless that was an element.
Storable(own, its, sym, last, from, b, s) ==
  /\ s \in Seq(Values) /\ Len(s) <= MaxItems
  /\ \A i \in DOMAIN s : own[s[i]] \in {"OBJECT_VALUE", "VALUE_TOKEN"}
  /\ \A i, j \in DOMAIN s : s[i] \in Cells /\ s[i] = s[j] => i = j
  /\ \A i \in DOMAIN s : s[i] \in Cells =>
       /\ \A c \in Boxes \ {b} : \A j \in DOMAIN its[c] : its[c][j] # s[i]
       /\ \A n \in Names : sym[n] # s[i]
       /\ ~from => last # s[i]

\* A temporary that is a scalar becomes a container with a box of its own.
LEMMA BoxKeeps ==
  ASSUME NEW own, NEW bx, NEW its, NEW sym, NEW stk, NEW last, NEW from,
         World(own, bx, its, sym, stk, last, from),
         NEW r \in Cells, own[r] = "INTERPRETER", bx[r] = Nil,
         \A n \in Names : sym[n] # r,
         NEW b, b = r \/ b \in Tables, \A v \in Values : bx[v] # b,
         NEW s, Storable(own, its, sym, last, from, b, s), b \in Tables => Len(s) = 1
  PROVE  World(own, [bx EXCEPT ![r] = b], [its EXCEPT ![b] = s], sym, stk, last, from)
<1> DEFINE bx2 == [bx EXCEPT ![r] = b]  its2 == [its EXCEPT ![b] = s]
<1>1. HeapOK(own, bx, its) /\ r \in Values /\ r \in Boxes /\ b \in Boxes
  BY Distinct DEF World
<1>2. /\ bx2 \in [Values -> Boxes \cup {Nil}]
      /\ bx2[r] = b /\ \A w \in Values : w # r => bx2[w] = bx[w]
  BY <1>1 DEF HeapOK
<1>3. /\ its2 \in [Boxes -> Seq(Values)]
      /\ its2[b] = s /\ \A c \in Boxes : c # b => its2[c] = its[c]
  BY <1>1 DEF HeapOK, Storable
<1> HIDE DEF bx2, its2
<1>4. its[b] = <<>>
  BY <1>1 DEF HeapOK
<1>5. HeapOK(own, bx2, its2)
  <2>1. \A v \in Values : bx2[v] # Nil =>
         /\ v \in Cells /\ own[v] \in {"INTERPRETER", "CONTEXT_VARIABLE"}
         /\ bx2[v] = v \/ bx2[v] \in Tables
    BY <1>1, <1>2 DEF HeapOK
  <2>2. \A c \in Boxes : Len(its2[c]) <= MaxItems
    BY <1>1, <1>3 DEF HeapOK, Storable
  <2>3. \A c \in Boxes : \A i \in DOMAIN its2[c] : own[its2[c][i]] \in {"OBJECT_VALUE", "VALUE_TOKEN"}
    BY <1>1, <1>3 DEF HeapOK, Storable
  <2>4. \A c, d \in Boxes : \A i \in DOMAIN its2[c], j \in DOMAIN its2[d] :
         its2[c][i] \in Cells /\ its2[c][i] = its2[d][j] => c = d /\ i = j
    BY <1>1, <1>3 DEF HeapOK, Storable
  <2>5. ASSUME NEW v \in Values, bx2[v] \in Tables
        PROVE  Len(its2[bx2[v]]) = 1
    <3>1. CASE v = r
      BY <1>2, <1>3, <2>5, <3>1
    <3>2. CASE v # r
      <4>1. bx2[v] = bx[v] /\ bx[v] # b
        BY <1>2, <3>2
      <4>2. its2[bx[v]] = its[bx[v]]
        BY <1>3, <2>5, <4>1, Distinct
      <4>3. Len(its[bx[v]]) = 1
        BY <1>1, <2>5, <4>1 DEF HeapOK
      <4> QED
        BY <4>1, <4>2, <4>3
    <3> QED
      BY <3>1, <3>2
  <2>6. ASSUME NEW c \in Boxes, \A v \in Values : bx2[v] # c
        PROVE  its2[c] = <<>>
    <3>1. c # b
      BY <1>1, <1>2, <2>6
    <3>2. \A v \in Values : v # r => bx[v] # c
      BY <1>2, <2>6
    <3>3. bx[r] # c
      BY Distinct
    <3>4. \A v \in Values : bx[v] # c
      BY <3>2, <3>3
    <3> QED
      BY <1>1, <1>3, <3>1, <3>4 DEF HeapOK
  <2> QED
    BY <1>1, <1>2, <1>3, <2>1, <2>2, <2>3, <2>4, <2>5, <2>6 DEF HeapOK
<1>6. SymbolsOK(own, bx2, its2, sym)
  <2>1. \A n \in Names : sym[n] # Nil => sym[n] \in Values /\ bx2[sym[n]] = bx[sym[n]]
    BY <1>2 DEF World, SymbolsOK
  <2>2. \A n \in Names : sym[n] \in Cells => NoItem(its2, sym[n])
    BY <1>3, Distinct DEF World, SymbolsOK, NoItem, Storable
  <2> QED
    BY <2>1, <2>2 DEF World, SymbolsOK
<1>7. StackOK(own, bx2, its2, sym, stk)
  <2>1. ASSUME NEW i \in DOMAIN stk, stk[i].tag = "element"
        PROVE  bx2[stk[i].of] = stk[i].of /\ stk[i].at \in DOMAIN its2[stk[i].of]
    <3>1. bx[stk[i].of] = stk[i].of /\ stk[i].at \in DOMAIN its[stk[i].of]
      BY <2>1 DEF World, StackOK
    <3>2. stk[i].of \in Cells
      BY <2>1, OperandFacts DEF World, StackOK
    <3>3. stk[i].of # r /\ stk[i].of # b
      BY <3>1, <3>2, Distinct
    <3> QED
      BY <1>2, <1>3, <3>1, <3>2, <3>3, Distinct
  <2> QED
    BY <2>1 DEF World, StackOK
<1>8. LastOK(own, its2, stk, last, from)
  <2>1. last \in Cells /\ ~from => NoItem(its2, last)
    BY <1>3 DEF World, LastOK, NoItem, Storable
  <2> QED
    BY <2>1 DEF World, LastOK
<1> QED
  BY <1>5, <1>6, <1>7, <1>8 DEF World, bx2, its2

\* The contents of a box change.
LEMMA PutKeeps ==
  ASSUME NEW own, NEW bx, NEW its, NEW sym, NEW stk, NEW last, NEW from,
         World(own, bx, its, sym, stk, last, from),
         NEW b \in Boxes, \E v \in Values : bx[v] = b,
         NEW s, Storable(own, its, sym, last, from, b, s), b \in Tables => Len(s) = 1,
         \A i \in DOMAIN stk : stk[i].tag = "element" /\ stk[i].of = b => stk[i].at \in DOMAIN s
  PROVE  World(own, bx, [its EXCEPT ![b] = s], sym, stk, last, from)
<1> DEFINE its2 == [its EXCEPT ![b] = s]
<1>1. HeapOK(own, bx, its)
  BY Distinct DEF World
<1>3. /\ its2 \in [Boxes -> Seq(Values)]
      /\ its2[b] = s /\ \A c \in Boxes : c # b => its2[c] = its[c]
  BY <1>1 DEF HeapOK, Storable
<1> HIDE DEF its2
<1>5. HeapOK(own, bx, its2)
  <2>1. Len(s) <= MaxItems
    BY DEF Storable
  <2>2. \A c \in Boxes : Len(its2[c]) <= MaxItems
    BY <1>1, <1>3, <2>1 DEF HeapOK
  <2>3. ASSUME NEW c \in Boxes, NEW i \in DOMAIN its2[c]
        PROVE  own[its2[c][i]] \in {"OBJECT_VALUE", "VALUE_TOKEN"}
    <3>1. CASE c = b
      BY <1>3, <3>1 DEF Storable
    <3>2. CASE c # b
      BY <1>1, <1>3, <3>2 DEF HeapOK
    <3> QED
      BY <3>1, <3>2
  <2>4. \A c, d \in Boxes : \A i \in DOMAIN its2[c], j \in DOMAIN its2[d] :
         its2[c][i] \in Cells /\ its2[c][i] = its2[d][j] => c = d /\ i = j
    BY <1>1, <1>3 DEF HeapOK, Storable
  <2>5. \A v \in Values : bx[v] \in Tables => Len(its2[bx[v]]) = 1
    BY <1>1, <1>3, Distinct DEF HeapOK
  <2>6. \A c \in Boxes : (\A v \in Values : bx[v] # c) => its2[c] = <<>>
    BY <1>1, <1>3 DEF HeapOK
  <2> QED
    BY <1>1, <1>3, <2>2, <2>3, <2>4, <2>5, <2>6 DEF HeapOK
<1>6. SymbolsOK(own, bx, its2, sym)
  <2>2. \A n \in Names : sym[n] \in Cells => NoItem(its2, sym[n])
    BY <1>3, Distinct DEF World, SymbolsOK, NoItem, Storable
  <2> QED
    BY <2>2 DEF World, SymbolsOK
<1>7. StackOK(own, bx, its2, sym, stk)
  <2>1. ASSUME NEW i \in DOMAIN stk, stk[i].tag = "element"
        PROVE  bx[stk[i].of] = stk[i].of /\ stk[i].at \in DOMAIN its2[stk[i].of]
    <3>1. bx[stk[i].of] = stk[i].of /\ stk[i].at \in DOMAIN its[stk[i].of]
      BY <2>1 DEF World, StackOK
    <3>2. stk[i].of \in Cells
      BY <2>1, OperandFacts DEF World, StackOK
    <3> QED
      BY <1>3, <2>1, <3>1, <3>2, Distinct
  <2> QED
    BY <2>1 DEF World, StackOK
<1>8. LastOK(own, its2, stk, last, from)
  <2>1. last \in Cells /\ ~from => NoItem(its2, last)
    BY <1>3 DEF World, LastOK, NoItem, Storable
  <2> QED
    BY <2>1 DEF World, LastOK
<1> QED
  BY <1>5, <1>6, <1>7, <1>8 DEF World, its2

\* A temporary that is a scalar becomes a struct that shares the members of
\* another.
LEMMA ShareKeeps ==
  ASSUME NEW own, NEW bx, NEW its, NEW sym, NEW stk, NEW last, NEW from,
         World(own, bx, its, sym, stk, last, from),
         NEW r \in Cells, own[r] = "INTERPRETER", bx[r] = Nil,
         \A n \in Names : sym[n] # r,
         NEW v \in Values, bx[v] \in Tables
  PROVE  World(own, [bx EXCEPT ![r] = bx[v]], its, sym, stk, last, from)
<1> DEFINE bx2 == [bx EXCEPT ![r] = bx[v]]
<1>1. HeapOK(own, bx, its) /\ r \in Values /\ bx[v] \in Boxes
  BY Distinct DEF World
<1>2. /\ bx2 \in [Values -> Boxes \cup {Nil}]
      /\ bx2[r] = bx[v] /\ \A w \in Values : w # r => bx2[w] = bx[w]
  BY <1>1 DEF HeapOK
<1> HIDE DEF bx2
<1>3. HeapOK(own, bx2, its)
  <2>1. \A w \in Values : bx2[w] # Nil =>
         /\ w \in Cells /\ own[w] \in {"INTERPRETER", "CONTEXT_VARIABLE"}
         /\ bx2[w] = w \/ bx2[w] \in Tables
    BY <1>1, <1>2 DEF HeapOK
  <2>2. \A w \in Values : bx2[w] \in Tables => Len(its[bx2[w]]) = 1
    BY <1>1, <1>2 DEF HeapOK
  <2>3. \A c \in Boxes : (\A w \in Values : bx2[w] # c) => its[c] = <<>>
    BY <1>1, <1>2, Distinct DEF HeapOK
  <2> QED
    BY <1>1, <1>2, <2>1, <2>2, <2>3 DEF HeapOK
<1>4. SymbolsOK(own, bx2, its, sym)
  <2>1. \A n \in Names : sym[n] # Nil => sym[n] \in Values /\ bx2[sym[n]] = bx[sym[n]]
    BY <1>2 DEF World, SymbolsOK
  <2> QED
    BY <2>1 DEF World, SymbolsOK
<1>5. StackOK(own, bx2, its, sym, stk)
  <2>1. ASSUME NEW i \in DOMAIN stk, stk[i].tag = "element"
        PROVE  bx2[stk[i].of] = stk[i].of
    <3>1. bx[stk[i].of] = stk[i].of /\ stk[i].of \in Cells
      BY <2>1, OperandFacts DEF World, StackOK
    <3> QED
      BY <1>2, <3>1, Distinct
  <2> QED
    BY <2>1 DEF World, StackOK
<1> QED
  BY <1>3, <1>4, <1>5 DEF World, bx2

\* The dead, which nothing refers to, are deleted with what they drag along.
LEMMA DeleteKeeps ==
  ASSUME NEW h, NEW sym, NEW stk, NEW last, NEW from,
         World(h.own, h.bx, h.its, sym, stk, last, from),
         NEW dead \in SUBSET Cells,
         \A v \in dead : Unseen(h.its, sym, stk, Nil, v) /\ (last = v => from),
         Delete(h, dead, last)
  PROVE  World(owner', box', items', sym, stk, lastValue', from)
<1> DEFINE gone == dead \cup Dragged(h, dead)
           bx2  == [v \in Values |-> IF v \in gone THEN Nil ELSE h.bx[v]]
<1>1. /\ owner' = [v \in Values |-> IF v \in gone THEN "FREED" ELSE h.own[v]]
      /\ box' = bx2
      /\ items' = [b \in Boxes |-> IF \E v \in Values : bx2[v] = b THEN h.its[b] ELSE <<>>]
      /\ lastValue' = IF last \in gone THEN Freed ELSE last
  BY DEF Delete
<1>2. HeapOK(h.own, h.bx, h.its)
  BY DEF World
<1>3. ASSUME NEW d \in Dragged(h, dead)
      PROVE  /\ d \in Cells /\ h.own[d] = "OBJECT_VALUE" /\ h.bx[d] = Nil
             /\ \E c \in dead : /\ h.bx[c] \in Boxes
                                /\ \A v \in Values \ dead : h.bx[v] # h.bx[c]
                                /\ \E i \in DOMAIN h.its[h.bx[c]] : h.its[h.bx[c]][i] = d
  <2>1. PICK c \in dead : h.bx[c] # Nil /\ (\A v \in Values \ dead : h.bx[v] # h.bx[c])
                          /\ d \in ItemsOwned(h, h.bx[c])
    BY DEF Dragged
  <2>2. c \in Values /\ h.bx[c] \in Boxes
    BY <1>2, <2>1, Distinct DEF HeapOK
  <2>3. PICK i \in DOMAIN h.its[h.bx[c]] : h.its[h.bx[c]][i] = d
    BY <2>1 DEF ItemsOwned, RangeOf
  <2>4. h.own[d] = "OBJECT_VALUE"
    BY <2>1 DEF ItemsOwned
  <2>5. d \in Cells /\ h.bx[d] = Nil
    BY <1>2, <2>2, <2>3, <2>4, ItemFacts
  <2> QED
    BY <2>1, <2>2, <2>3, <2>4, <2>5
<1>4. ASSUME NEW v \in gone
      PROVE  /\ v \in Cells
             /\ \A n \in Names : sym[n] # v
             /\ \A i \in DOMAIN stk : stk[i].tag \in {"value", "element"} => stk[i].of # v
             /\ last = v => from
  <2>1. CASE v \in dead
    BY <2>1 DEF Unseen
  <2>2. CASE v \in Dragged(h, dead)
    <3>1. v \in Cells /\ h.own[v] = "OBJECT_VALUE" /\ h.bx[v] = Nil
      BY <1>3, <2>2
    <3>2. ~ NoItem(h.its, v)
      BY <1>3, <2>2 DEF NoItem
    <3>3. \A n \in Names : sym[n] # v
      BY <3>1, <3>2, Distinct DEF World, SymbolsOK
    <3>4. \A i \in DOMAIN stk : stk[i].tag \in {"value", "element"} => stk[i].of # v
      BY <3>1, Distinct DEF World, StackOK
    <3>5. last = v => from
      BY <3>1, <3>2 DEF World, LastOK
    <3> QED
      BY <3>1, <3>3, <3>4, <3>5
  <2> QED
    BY <2>1, <2>2
<1>5. /\ owner' \in [Values -> Owners \cup {"FREED"}]
      /\ \A v \in Values : owner'[v] = IF v \in gone THEN "FREED" ELSE h.own[v]
  BY <1>1, <1>2 DEF HeapOK
<1>6. /\ box' \in [Values -> Boxes \cup {Nil}]
      /\ \A v \in Values : box'[v] = IF v \in gone THEN Nil ELSE h.bx[v]
  BY <1>1, <1>2 DEF HeapOK
<1>7. /\ items' \in [Boxes -> Seq(Values)]
      /\ \A b \in Boxes : (\E v \in Values : box'[v] = b) => items'[b] = h.its[b]
      /\ \A b \in Boxes : (\A v \in Values : box'[v] # b) => items'[b] = <<>>
  BY <1>1, <1>2 DEF HeapOK
<1>8. ASSUME NEW b \in Boxes, NEW v \in Values, box'[v] = b, NEW i \in DOMAIN h.its[b]
      PROVE  h.its[b][i] \in Values \ gone
  <2>1. v \notin gone /\ h.bx[v] = b
    BY <1>6, <1>8, Distinct
  <2>2. h.its[b][i] \in Values
    BY <1>2, ItemFacts
  <2>3. h.its[b][i] \notin dead
    BY DEF Unseen, NoItem
  <2>4. h.its[b][i] \notin Dragged(h, dead)
    <3>1. SUFFICES ASSUME h.its[b][i] \in Dragged(h, dead) PROVE FALSE
      OBVIOUS
    <3>2. h.its[b][i] \in Cells
      BY <1>3, <3>1
    <3>3. PICK c \in dead : /\ h.bx[c] \in Boxes
                            /\ \A w \in Values \ dead : h.bx[w] # h.bx[c]
                            /\ \E j \in DOMAIN h.its[h.bx[c]] : h.its[h.bx[c]][j] = h.its[b][i]
      BY <1>3, <3>1
    <3>4. b = h.bx[c]
      BY <1>2, <3>2, <3>3 DEF HeapOK
    <3> QED
      BY <2>1, <3>3, <3>4
  <2> QED
    BY <2>2, <2>3, <2>4
<1> HIDE DEF gone
<1>9. HeapOK(owner', box', items')
  <2>1. \A v \in Literals : owner'[v] = "VALUE_TOKEN"
    BY <1>2, <1>4, <1>5, Distinct DEF HeapOK
  <2>2. owner'[Empty] = "EMPTY_VALUE"
    BY <1>2, <1>4, <1>5, Distinct DEF HeapOK
  <2>3. \A v \in Cells : owner'[v] \in CellTags
    BY <1>2, <1>5, Distinct DEF HeapOK, CellTags
  <2>4. \A v \in Values : box'[v] # Nil =>
         /\ v \in Cells /\ owner'[v] \in {"INTERPRETER", "CONTEXT_VARIABLE"}
         /\ box'[v] = v \/ box'[v] \in Tables
    BY <1>2, <1>5, <1>6 DEF HeapOK
  <2>5. \A b \in Boxes : items'[b] = h.its[b] \/ items'[b] = <<>>
    BY <1>7
  <2>6. \A b \in Boxes : Len(items'[b]) <= MaxItems
    BY <1>2, <2>5, Distinct DEF HeapOK
  <2>7. \A b \in Boxes : \A i \in DOMAIN items'[b] :
          owner'[items'[b][i]] \in {"OBJECT_VALUE", "VALUE_TOKEN"}
    <3> SUFFICES ASSUME NEW b \in Boxes, NEW i \in DOMAIN items'[b]
                 PROVE  owner'[items'[b][i]] \in {"OBJECT_VALUE", "VALUE_TOKEN"}
      OBVIOUS
    <3>1. \E v \in Values : box'[v] = b
      BY <1>7
    <3>2. items'[b] = h.its[b]
      BY <1>7, <3>1
    <3>3. h.its[b][i] \in Values \ gone
      BY <1>8, <3>1, <3>2
    <3>4. h.own[h.its[b][i]] \in {"OBJECT_VALUE", "VALUE_TOKEN"}
      BY <1>2, <3>2 DEF HeapOK
    <3> QED
      BY <1>5, <3>2, <3>3, <3>4
  <2>8. \A b, c \in Boxes : \A i \in DOMAIN items'[b], j \in DOMAIN items'[c] :
          items'[b][i] \in Cells /\ items'[b][i] = items'[c][j] => b = c /\ i = j
    BY <1>2, <2>5 DEF HeapOK
  <2>9. ASSUME NEW v \in Values, box'[v] \in Tables
        PROVE  Len(items'[box'[v]]) = 1
    <3>1. box'[v] \in Boxes /\ box'[v] # Nil
      BY <2>9, Distinct
    <3>2. items'[box'[v]] = h.its[box'[v]]
      BY <1>7, <3>1
    <3>3. h.bx[v] = box'[v]
      BY <1>6, <3>1
    <3> QED
      BY <1>2, <2>9, <3>2, <3>3 DEF HeapOK
  <2> QED
    BY <1>5, <1>6, <1>7, <2>1, <2>2, <2>3, <2>4, <2>6, <2>7, <2>8, <2>9 DEF HeapOK
<1>10. SymbolsOK(owner', box', items', sym)
  <2>1. \A n \in Names : sym[n] # Nil =>
          owner'[sym[n]] = h.own[sym[n]] /\ box'[sym[n]] = h.bx[sym[n]]
    BY <1>4, <1>5, <1>6 DEF World, SymbolsOK
  <2>2. \A v : NoItem(h.its, v) => NoItem(items', v)
    BY <1>7 DEF NoItem
  <2> QED
    BY <2>1, <2>2 DEF World, SymbolsOK
<1>11. StackOK(owner', box', items', sym, stk)
  <2>1. \A i \in DOMAIN stk : stk[i].tag = "value" /\ stk[i].of \in Cells =>
          owner'[stk[i].of] = h.own[stk[i].of]
    BY <1>4, <1>5, Distinct
  <2>2. ASSUME NEW i \in DOMAIN stk, stk[i].tag = "element"
        PROVE  box'[stk[i].of] = stk[i].of /\ stk[i].at \in DOMAIN items'[stk[i].of]
    <3>1. stk[i].of \in Cells
      BY <2>2, OperandFacts DEF World, StackOK
    <3>2. h.bx[stk[i].of] = stk[i].of /\ stk[i].at \in DOMAIN h.its[stk[i].of]
      BY <2>2 DEF World, StackOK
    <3>3. box'[stk[i].of] = stk[i].of
      BY <1>4, <1>6, <2>2, <3>1, <3>2, Distinct
    <3> QED
      BY <1>7, <3>1, <3>2, <3>3, Distinct
  <2> QED
    BY <2>1, <2>2 DEF World, StackOK
<1>12. LastOK(owner', items', stk, lastValue', from)
  <2>1. CASE last \in gone
    <3>1. lastValue' = Freed /\ from
      BY <1>1, <1>4, <2>1 DEF gone
    <3> QED
      BY <3>1, Distinct DEF World, LastOK
  <2>2. CASE last \notin gone
    <3>1. lastValue' = last
      BY <1>1, <2>2 DEF gone
    <3>2. last \in Cells => owner'[last] = h.own[last]
      BY <1>5, <2>2, Distinct
    <3>3. last \in Cells /\ ~from => NoItem(items', last)
      BY <1>7 DEF World, LastOK, NoItem
    <3> QED
      BY <3>1, <3>2, <3>3 DEF World, LastOK
  <2> QED
    BY <2>1, <2>2
<1> QED
  BY <1>9, <1>10, <1>11, <1>12 DEF World

-----------------------------------------------------------------------------
(* Changes of what refers to the heap *)

\* Operands are popped.
LEMMA PopKeeps ==
  ASSUME NEW own, NEW bx, NEW its, NEW sym, NEW stk, NEW last, NEW from,
         World(own, bx, its, sym, stk, last, from),
         NEW n \in 0..Len(stk)
  PROVE  /\ World(own, bx, its, sym, SubSeq(stk, 1, n), last, from)
         /\ Len(SubSeq(stk, 1, n)) = n
         /\ \A i \in DOMAIN SubSeq(stk, 1, n) :
              i \in DOMAIN stk /\ i \in 1..n /\ SubSeq(stk, 1, n)[i] = stk[i]
<1>1. stk \in Seq(OperandTypes) /\ Len(stk) \in Nat /\ DOMAIN stk = 1..Len(stk)
  BY LenProperties DEF World, StackOK
<1> DEFINE cut == SubSeq(stk, 1, n)
<1>2. cut \in Seq(OperandTypes) /\ Len(cut) = n /\ \A i \in 1..n : cut[i] = stk[i]
  BY <1>1, SubSeqProperties
<1>3. DOMAIN cut = 1..n
  BY <1>2, LenProperties
<1> HIDE DEF cut
<1>4. \A i \in DOMAIN cut : i \in DOMAIN stk /\ i \in 1..n /\ cut[i] = stk[i]
  BY <1>1, <1>2, <1>3
<1>5. StackOK(own, bx, its, sym, cut)
  BY <1>2, <1>4 DEF World, StackOK
<1>6. LastOK(own, its, cut, last, from)
  BY <1>4 DEF World, LastOK
<1> QED
  BY <1>2, <1>4, <1>5, <1>6 DEF World, cut

\* An operand is pushed: a name, a member of a variable that has a value, an
\* element of a list that is no operand, a literal, None, or a temporary that
\* nothing refers to.
LEMMA PushKeeps ==
  ASSUME NEW own, NEW bx, NEW its, NEW sym, NEW stk, NEW last, NEW from,
         World(own, bx, its, sym, stk, last, from),
         NEW e \in OperandTypes,
         e.tag = "value" /\ e.of \in Cells =>
           own[e.of] = "INTERPRETER" /\ Unseen(its, sym, stk, last, e.of),
         e.tag = "element" =>
           /\ bx[e.of] = e.of /\ e.at \in DOMAIN its[e.of]
           /\ own[e.of] = "INTERPRETER" => Unseen(its, sym, stk, last, e.of),
         e.tag = "member" => sym[e.of] # Nil
  PROVE  World(own, bx, its, sym, Append(stk, e), last, from)
<1>1. stk \in Seq(OperandTypes) /\ Len(stk) \in Nat /\ DOMAIN stk = 1..Len(stk)
  BY LenProperties DEF World, StackOK
<1> DEFINE new == Append(stk, e)  n == Len(stk) + 1
<1>2. /\ new \in Seq(OperandTypes) /\ Len(new) = n /\ new[n] = e
      /\ \A i \in 1..Len(stk) : new[i] = stk[i]
  BY <1>1, AppendProperties
<1>3. DOMAIN new = 1..n
  BY <1>2, LenProperties
<1> HIDE DEF new
<1>4. \A i \in DOMAIN new :
        (i = n /\ new[i] = e) \/ (i \in DOMAIN stk /\ i # n /\ new[i] = stk[i])
  BY <1>1, <1>2, <1>3
<1> HIDE DEF n
<1>5. StackOK(own, bx, its, sym, new)
  <2>1. ASSUME NEW i \in DOMAIN new, new[i].tag = "value", new[i].of \in Cells
        PROVE  /\ own[new[i].of] = "INTERPRETER"
               /\ \A j \in DOMAIN new :
                    new[j].tag \in {"value", "element"} /\ new[j].of = new[i].of => j = i
    <3>1. CASE i = n
      BY <1>4, <2>1, <3>1 DEF Unseen
    <3>2. CASE i # n
      <4>1. own[stk[i].of] = "INTERPRETER" /\ i \in DOMAIN stk /\ new[i] = stk[i]
        BY <1>4, <2>1, <3>2 DEF World, StackOK
      <4>2. \A j \in DOMAIN stk :
              stk[j].tag \in {"value", "element"} /\ stk[j].of = stk[i].of => j = i
        BY <2>1, <4>1 DEF World, StackOK
      <4>3. e.tag \in {"value", "element"} => e.of # stk[i].of
        BY <2>1, <4>1 DEF Unseen
      <4> QED
        BY <1>4, <2>1, <4>1, <4>2, <4>3
    <3> QED
      BY <3>1, <3>2
  <2>2. \A i \in DOMAIN new : new[i].tag = "element" =>
          bx[new[i].of] = new[i].of /\ new[i].at \in DOMAIN its[new[i].of]
    BY <1>4 DEF World, StackOK
  <2>3. \A i \in DOMAIN new : new[i].tag = "member" => sym[new[i].of] # Nil
    BY <1>4 DEF World, StackOK
  <2> QED
    BY <1>2, <2>1, <2>2, <2>3 DEF StackOK
<1>6. LastOK(own, its, new, last, from)
  <2>1. ASSUME last \in Cells, own[last] = "INTERPRETER", NEW i \in DOMAIN new,
               new[i].tag \in {"value", "element"}
        PROVE  new[i].of # last
    BY <1>4, <2>1 DEF World, LastOK, Unseen
  <2> QED
    BY <2>1 DEF World, LastOK
<1> QED
  BY <1>5, <1>6 DEF World, new

\* A variable is assigned a value of its kind that is in no other place.
LEMMA SymbolKeeps ==
  ASSUME NEW own, NEW bx, NEW its, NEW sym, NEW stk, NEW last, NEW from,
         World(own, bx, its, sym, stk, last, from),
         NEW n \in Names, NEW v \in Values,
         v # Empty, own[v] \notin {"FREED", "INTERPRETER"},
         n \in Scalars => bx[v] = Nil,
         n \in Lists => bx[v] = v,
         n \in Structs => bx[v] \in Tables,
         v \in Cells => NoItem(its, v) /\ \A m \in Names : sym[m] # v
  PROVE  World(own, bx, its, [sym EXCEPT ![n] = v], stk, last, from)
<1> DEFINE sym2 == [sym EXCEPT ![n] = v]
<1>1. /\ sym2 \in [Names -> Values \cup {Nil}]
      /\ sym2[n] = v /\ \A m \in Names : m # n => sym2[m] = sym[m]
  BY DEF World, SymbolsOK
<1> HIDE DEF sym2
<1>2. SymbolsOK(own, bx, its, sym2)
  <2>1. ASSUME NEW m \in Names, sym2[m] # Nil
        PROVE  /\ sym2[m] # Empty /\ own[sym2[m]] \notin {"FREED", "INTERPRETER"}
               /\ m \in Scalars => bx[sym2[m]] = Nil
               /\ m \in Lists => bx[sym2[m]] = sym2[m]
               /\ m \in Structs => bx[sym2[m]] \in Tables
               /\ sym2[m] \in Cells => NoItem(its, sym2[m])
    BY <1>1, <2>1 DEF World, SymbolsOK
  <2>2. \A m, p \in Names : sym2[m] \in Cells /\ sym2[m] = sym2[p] => m = p
    BY <1>1 DEF World, SymbolsOK
  <2> QED
    BY <1>1, <2>1, <2>2 DEF SymbolsOK
<1>3. StackOK(own, bx, its, sym2, stk)
  <2>1. \A i \in DOMAIN stk : stk[i].tag = "member" => sym2[stk[i].of] # Nil
    <3> SUFFICES ASSUME NEW i \in DOMAIN stk, stk[i].tag = "member"
                 PROVE  sym2[stk[i].of] # Nil
      OBVIOUS
    <3>1. stk[i].of \in Names /\ sym[stk[i].of] # Nil
      BY OperandFacts, Distinct DEF World, StackOK
    <3> QED
      BY <1>1, <3>1, Distinct
  <2> QED
    BY <2>1 DEF World, StackOK
<1> QED
  BY <1>2, <1>3 DEF World, sym2

\* The result of the last line is forgotten.
LEMMA ForgetKeeps ==
  ASSUME NEW own, NEW bx, NEW its, NEW sym, NEW stk, NEW last, NEW from,
         World(own, bx, its, sym, stk, last, from)
  PROVE  World(own, bx, its, sym, stk, Nil, from)
<1>1. LastOK(own, its, stk, Nil, from)
  BY Distinct DEF World, LastOK
<1> QED
  BY <1>1 DEF World

-----------------------------------------------------------------------------
(* What operands stand for *)

LEMMA ValueFacts ==
  ASSUME ContainerInv, NEW i \in DOMAIN stack, ValueOf(stack[i]) # Nil
  PROVE  /\ ValueOf(stack[i]) \in Values
         /\ owner[ValueOf(stack[i])] # "FREED"
         /\ owner[ValueOf(stack[i])] = "INTERPRETER" =>
              stack[i].tag = "value" /\ ValueOf(stack[i]) = stack[i].of /\ stack[i].of \in Cells
         /\ stack[i].tag = "value" => ValueOf(stack[i]) = stack[i].of
         /\ stack[i].tag = "name" => ValueOf(stack[i]) = symbols[stack[i].of] /\ stack[i].of \in Names
         /\ stack[i].tag \in {"value", "name"} \/ stack[i].tag \in ItemTags
<1> DEFINE e == stack[i]
<1>1. HeapOK(owner, box, items) /\ SymbolsOK(owner, box, items, symbols)
      /\ StackOK(owner, box, items, symbols, stack)
  BY DEF ContainerInv
<1>2. /\ e \in OperandTypes
      /\ \/ e.tag = "value" /\ e.of \in Values /\ e = Operand("value", e.of)
         \/ e.tag = "name" /\ e.of \in Names
         \/ e.tag = "member" /\ e.of \in Structs
         \/ e.tag = "element" /\ e.of \in Cells /\ e.at \in 1..MaxItems
  BY <1>1, OperandFacts DEF StackOK
<1>3. CASE e.tag = "value"
  <2>1. ValueOf(e) = e.of /\ e.of \in Values
    BY <1>2, <1>3 DEF ValueOf
  <2>2. e.of \in Cells => owner[e.of] = "INTERPRETER"
    BY <1>1, <1>3 DEF StackOK
  <2>3. e.of \in Literals => owner[e.of] = "VALUE_TOKEN"
    BY <1>1 DEF HeapOK
  <2>4. owner[Empty] = "EMPTY_VALUE"
    BY <1>1 DEF HeapOK
  <2> QED
    BY <1>3, <2>1, <2>2, <2>3, <2>4, Distinct
<1>4. CASE e.tag = "name"
  <2>1. ValueOf(e) = symbols[e.of] /\ e.of \in Names
    BY <1>2, <1>4 DEF ValueOf
  <2> QED
    BY <1>1, <1>4, <2>1 DEF SymbolsOK
<1>5. CASE e.tag = "member"
  <2>1. e.of \in Structs /\ e.of \in Names /\ symbols[e.of] # Nil
    BY <1>1, <1>2, <1>5, Distinct DEF StackOK
  <2>2. symbols[e.of] \in Values /\ box[symbols[e.of]] \in Tables
    BY <1>1, <2>1 DEF SymbolsOK
  <2>3. box[symbols[e.of]] \in Boxes /\ Len(items[box[symbols[e.of]]]) = 1
    BY <1>1, <2>2, Distinct DEF HeapOK
  <2>4. 1 \in DOMAIN items[box[symbols[e.of]]]
    BY <1>1, <2>3, LenProperties DEF HeapOK
  <2>5. ValueOf(e) = items[box[symbols[e.of]]][1]
    BY <1>5 DEF ValueOf, ItemsOf
  <2>6. ValueOf(e) \in Values /\ owner[ValueOf(e)] \in {"OBJECT_VALUE", "VALUE_TOKEN"}
    BY <1>1, <2>3, <2>4, <2>5, ItemFacts
  <2> QED
    BY <1>5, <2>6 DEF ItemTags
<1>6. CASE e.tag = "element"
  <2>1. e.of \in Boxes /\ e.at \in DOMAIN items[e.of]
    BY <1>1, <1>2, <1>6, Distinct DEF StackOK
  <2>2. ValueOf(e) = items[e.of][e.at]
    BY <1>6 DEF ValueOf
  <2>3. ValueOf(e) \in Values /\ owner[ValueOf(e)] \in {"OBJECT_VALUE", "VALUE_TOKEN"}
    BY <1>1, <2>1, <2>2, ItemFacts
  <2> QED
    BY <1>6, <2>3 DEF ItemTags
<1> QED
  BY <1>2, <1>3, <1>4, <1>5, <1>6

\* A temporary among the operands popped: nothing else refers to it.
LEMMA PoppedTemporary ==
  ASSUME ContainerInv, NEW k \in 0..2, k <= Height, NEW i \in 0..k - 1,
         ValueOf(stack[Height - i]) # Nil,
         owner[ValueOf(stack[Height - i])] = "INTERPRETER"
  PROVE  /\ ValueOf(stack[Height - i]) \in Cells
         /\ Unseen(items, symbols, Below(k), lastValue, ValueOf(stack[Height - i]))
<1> DEFINE j == Height - i  v == ValueOf(stack[j])
<1>1. Height \in Nat /\ DOMAIN stack = 1..Height /\ j \in DOMAIN stack /\ j > Height - k
  BY LenProperties DEF ContainerInv, StackOK, Height
<1>2. stack[j].tag = "value" /\ v = stack[j].of /\ stack[j].of \in Cells
  BY <1>1, ValueFacts
<1>3. Height - k \in 0..Len(stack)
  BY <1>1 DEF Height
<1>4. World(owner, box, items, symbols, stack, lastValue, fromItem)
  BY DEF ContainerInv, World
<1>5. \A m \in DOMAIN Below(k) : m \in DOMAIN stack /\ m # j /\ Below(k)[m] = stack[m]
  <2> DEFINE n == Height - k
  <2>1. \A m \in DOMAIN SubSeq(stack, 1, n) :
          m \in DOMAIN stack /\ m \in 1..n /\ SubSeq(stack, 1, n)[m] = stack[m]
    <3> HIDE DEF n
    <3> QED
      BY <1>3, <1>4, PopKeeps DEF n
  <2> QED
    BY <1>1, <2>1 DEF Below
<1> HIDE DEF j
<1>6. \A m \in DOMAIN Below(k) : Below(k)[m].tag \in {"value", "element"} => Below(k)[m].of # v
  BY <1>1, <1>2, <1>5 DEF ContainerInv, StackOK
<1>7. owner[v] = "INTERPRETER"
  BY DEF j
<1>8. NoItem(items, v)
  BY <1>7 DEF ContainerInv, HeapOK, NoItem
<1>9. \A n \in Names : symbols[n] # v
  BY <1>2, <1>7, Distinct DEF ContainerInv, SymbolsOK
<1>10. lastValue # v
  BY <1>1, <1>2, <1>7 DEF ContainerInv, LastOK
<1>11. v \in Cells /\ Unseen(items, symbols, Below(k), lastValue, v)
  BY <1>2, <1>6, <1>8, <1>9, <1>10 DEF Unseen
<1> QED
  BY <1>11 DEF j

\* The invariant holds of the operands that are left.
LEMMA Popped ==
  ASSUME ContainerInv, NEW k \in 0..2, k <= Height
  PROVE  /\ World(owner, box, items, symbols, Below(k), lastValue, fromItem)
         /\ Len(Below(k)) = Height - k /\ Height \in Nat /\ DOMAIN stack = 1..Height
         /\ \A i \in DOMAIN Below(k) : i \in DOMAIN stack /\ i \in 1..Height - k /\ Below(k)[i] = stack[i]
<1>1. Height \in Nat /\ DOMAIN stack = 1..Height
  BY LenProperties DEF ContainerInv, StackOK, Height
<1> DEFINE n == Height - k
<1>2. n \in 0..Len(stack)
  BY <1>1 DEF Height
<1>3. World(owner, box, items, symbols, stack, lastValue, fromItem)
  BY DEF ContainerInv, World
<1> HIDE DEF n
<1>4. /\ World(owner, box, items, symbols, SubSeq(stack, 1, n), lastValue, fromItem)
      /\ Len(SubSeq(stack, 1, n)) = n
      /\ \A i \in DOMAIN SubSeq(stack, 1, n) :
           i \in DOMAIN stack /\ i \in 1..n /\ SubSeq(stack, 1, n)[i] = stack[i]
  BY <1>2, <1>3, PopKeeps
<1> QED
  BY <1>1, <1>4 DEF Below, n

-----------------------------------------------------------------------------
(* The heaps that operations make *)

\* h is the heap with a new temporary, its root, that nothing refers to; what was
\* alive is as it was.
Grown(h, stk) ==
  /\ World(h.own, h.bx, h.its, symbols, stk, lastValue, fromItem)
  /\ h.root \in Cells /\ owner[h.root] = "FREED" /\ h.own[h.root] = "INTERPRETER"
  /\ Unseen(h.its, symbols, stk, lastValue, h.root)
  /\ \A v \in Values : owner[v] # "FREED" => h.own[v] = owner[v] /\ h.bx[v] = box[v]

\* h is the heap, but for the tag of its root, that can be put into a container.
Raised(h, stk) ==
  /\ World(h.own, box, items, symbols, stk, lastValue, fromItem)
  /\ h = Heap(h.root, h.own, box, items)
  /\ h.root \in Cells \cup Literals /\ h.own[h.root] \in {"OBJECT_VALUE", "VALUE_TOKEN"}
  /\ \A v \in Values : v # h.root => h.own[v] = owner[v]
Ready(h, stk) ==
  Raised(h, stk) /\ (h.root \in Cells => Unseen(items, symbols, stk, lastValue, h.root))

LEMMA NewListsGrow ==
  ASSUME NEW stk, World(owner, box, items, symbols, stk, lastValue, fromItem),
         NEW kept \in Seq(Values), \A i \in DOMAIN kept : kept[i] \in Literals,
         NEW n \in Nat, Len(kept) + n <= MaxItems,
         NEW h \in NewLists(kept, n)
  PROVE  Grown(h, stk) /\ h.bx[h.root] = h.root
<1>1. PICK r \in Fresh : \E new \in {s \in [1..n -> Fresh \ {r}] : \A i, j \in 1..n : i # j => s[i] # s[j]} :
        h = Heap(r, [v \in Values |-> IF v = r THEN "INTERPRETER"
                                      ELSE IF v \in RangeOf(new) THEN "OBJECT_VALUE"
                                      ELSE owner[v]],
                 [box EXCEPT ![r] = r], [items EXCEPT ![r] = kept \o new])
  BY DEF NewLists
<1>2. PICK new \in [1..n -> Fresh \ {r}] :
        /\ \A i, j \in 1..n : i # j => new[i] # new[j]
        /\ h = Heap(r, [v \in Values |-> IF v = r THEN "INTERPRETER"
                                         ELSE IF v \in RangeOf(new) THEN "OBJECT_VALUE"
                                         ELSE owner[v]],
                    [box EXCEPT ![r] = r], [items EXCEPT ![r] = kept \o new])
  BY <1>1
<1> DEFINE F == {r} \cup RangeOf(new)
           own2 == [v \in Values |-> IF v = r THEN "INTERPRETER"
                                     ELSE IF v \in RangeOf(new) THEN "OBJECT_VALUE"
                                     ELSE owner[v]]
           s == kept \o new
<1>3. /\ h.root = r /\ h.own = own2 /\ h.bx = [box EXCEPT ![r] = r]
      /\ h.its = [items EXCEPT ![r] = s]
  BY <1>2 DEF Heap
<1>4. /\ r \in Cells /\ r \in Values /\ owner[r] = "FREED"
      /\ \A i \in 1..n : new[i] \in Cells /\ owner[new[i]] = "FREED" /\ new[i] # r
  BY Distinct DEF Fresh, Live
<1>5. RangeOf(new) = {new[i] : i \in 1..n}
  BY DEF RangeOf
<1>6. F \in SUBSET Cells /\ \A v \in F : owner[v] = "FREED"
  BY <1>4, <1>5
<1>7. /\ own2 \in [Values -> Owners \cup {"FREED"}]
      /\ \A v \in Values \ F : own2[v] = owner[v]
      /\ \A v \in F : own2[v] \in CellTags \ {"FREED"}
      /\ own2[r] = "INTERPRETER" /\ \A i \in 1..n : own2[new[i]] = "OBJECT_VALUE"
  BY <1>4, <1>5, <1>6, Distinct DEF World, HeapOK, Owners, CellTags
<1> HIDE DEF F, own2
<1>8. World(own2, box, items, symbols, stk, lastValue, fromItem)
  BY <1>6, <1>7, AllocKeeps
<1>9. new \in Seq(Values) /\ Len(new) = n
  BY <1>4, IsASeq, LenProperties, Distinct
<1>10. /\ s \in Seq(Values) /\ Len(s) = Len(kept) + n /\ Len(kept) \in Nat
       /\ \A i \in 1..Len(kept) : s[i] = kept[i]
       /\ \A i \in 1..n : s[Len(kept) + i] = new[i]
  <2>1. Len(kept) \in Nat
    BY LenProperties
  <2>2. \A i \in 1..(Len(kept) + Len(new)) :
          s[i] = IF i <= Len(kept) THEN kept[i] ELSE new[i - Len(kept)]
    BY <1>9, ConcatProperties
  <2>3. \A i \in 1..Len(kept) : s[i] = kept[i]
    BY <1>9, <2>1, <2>2
  <2>4. ASSUME NEW i \in 1..n PROVE s[Len(kept) + i] = new[i]
    <3> DEFINE m == Len(kept) + i
    <3>1. m \in 1..(Len(kept) + Len(new)) /\ ~(m <= Len(kept)) /\ m - Len(kept) = i
      BY <1>9, <2>1
    <3> HIDE DEF m
    <3>2. s[m] = new[m - Len(kept)]
      BY <2>2, <3>1
    <3>3. s[m] = new[i]
      BY <3>1, <3>2
    <3> QED
      BY <3>3 DEF m
  <2>5. s \in Seq(Values) /\ Len(s) = Len(kept) + Len(new)
    BY <1>9, ConcatProperties
  <2> QED
    BY <1>9, <2>1, <2>3, <2>4, <2>5
<1>11. DOMAIN s = 1..Len(s) /\ DOMAIN kept = 1..Len(kept)
  BY <1>10, LenProperties
<1> HIDE DEF s
<1>12. ASSUME NEW i \in DOMAIN s
       PROVE  s[i] \in Literals \/ \E j \in 1..n : i = Len(kept) + j /\ s[i] = new[j]
  <2>1. CASE i \in 1..Len(kept)
    BY <1>10, <1>11, <2>1
  <2>2. CASE i \notin 1..Len(kept)
    <3>1. i - Len(kept) \in 1..n /\ i = Len(kept) + (i - Len(kept))
      BY <1>10, <1>11, <2>2
    <3> QED
      BY <1>10, <3>1
  <2> QED
    BY <2>1, <2>2
<1>13. Storable(own2, items, symbols, lastValue, fromItem, r, s)
  <2>1. s \in Seq(Values) /\ Len(s) <= MaxItems
    BY <1>10
  <2>2. \A i \in DOMAIN s : own2[s[i]] \in {"OBJECT_VALUE", "VALUE_TOKEN"}
    BY <1>7, <1>8, <1>12 DEF World, HeapOK
  <2>3. \A i, j \in DOMAIN s : s[i] \in Cells /\ s[i] = s[j] => i = j
    BY <1>2, <1>12, Distinct
  <2>4. \A i \in DOMAIN s : s[i] \in Cells => Unseen(items, symbols, stk, lastValue, s[i])
    <3>1. \A i \in 1..n : Unseen(items, symbols, stk, lastValue, new[i])
      BY <1>4, FreedUnseen
    <3> QED
      BY <1>12, <3>1, Distinct
  <2> QED
    BY <2>1, <2>2, <2>3, <2>4 DEF Storable, Unseen, NoItem
<1>14. /\ Unseen(items, symbols, stk, lastValue, r)
       /\ box[r] = Nil /\ items[r] = <<>> /\ \A v \in Values : box[v] # r
  BY <1>4, FreedUnseen
<1>15. World(own2, [box EXCEPT ![r] = r], [items EXCEPT ![r] = s], symbols, stk, lastValue, fromItem)
  <2>1. r \notin Tables
    BY <1>4, Distinct
  <2> QED
    BY <1>4, <1>7, <1>8, <1>13, <1>14, <2>1, BoxKeeps DEF Unseen
<1>16. World(h.own, h.bx, h.its, symbols, stk, lastValue, fromItem)
  BY <1>3, <1>15
<1>17. NoItem(h.its, r)
  <2>1. h.own[r] = "INTERPRETER"
    BY <1>3, <1>7
  <2> QED
    <3>1. \A b \in Boxes : \A i \in DOMAIN h.its[b] :
             h.own[h.its[b][i]] \in {"OBJECT_VALUE", "VALUE_TOKEN"}
      BY <1>16 DEF World, HeapOK
    <3> QED
      BY <2>1, <3>1 DEF NoItem
<1>18. \A v \in Values : owner[v] # "FREED" => h.own[v] = owner[v] /\ h.bx[v] = box[v]
  BY <1>3, <1>4, <1>6, <1>7 DEF World, HeapOK
<1>19. h.bx[r] = r
  BY <1>3, <1>4 DEF World, HeapOK
<1> QED
  BY <1>3, <1>4, <1>7, <1>14, <1>16, <1>17, <1>18, <1>19 DEF Grown, Unseen

\* A scalar is allocated.
LEMMA ScalarGrows ==
  ASSUME NEW stk, World(owner, box, items, symbols, stk, lastValue, fromItem),
         NEW r \in Fresh
  PROVE  /\ Grown(Heap(r, [owner EXCEPT ![r] = "INTERPRETER"], box, items), stk)
         /\ box[r] = Nil /\ \A v \in Values : box[v] # r
<1> DEFINE own2 == [owner EXCEPT ![r] = "INTERPRETER"]  F == {r}
<1>1. r \in Cells /\ r \in Values /\ owner[r] = "FREED"
  BY Distinct DEF Fresh, Live
<1>2. /\ own2 \in [Values -> Owners \cup {"FREED"}] /\ own2[r] = "INTERPRETER"
      /\ \A v \in Values \ F : own2[v] = owner[v]
      /\ \A v \in F : own2[v] \in CellTags \ {"FREED"}
  BY <1>1 DEF World, HeapOK, Owners, CellTags
<1>3. F \in SUBSET Cells /\ \A v \in F : owner[v] = "FREED"
  BY <1>1
<1>4. /\ Unseen(items, symbols, stk, lastValue, r)
      /\ box[r] = Nil /\ \A v \in Values : box[v] # r
  BY <1>1, FreedUnseen
<1> HIDE DEF F, own2
<1>5. World(own2, box, items, symbols, stk, lastValue, fromItem)
  BY <1>2, <1>3, AllocKeeps
<1>6. \A v \in Values : owner[v] # "FREED" => own2[v] = owner[v]
  BY <1>1, <1>2, <1>3
<1> QED
  BY <1>1, <1>2, <1>4, <1>5, <1>6 DEF Grown, Heap, own2

LEMMA CopiesGrow ==
  ASSUME NEW stk, World(owner, box, items, symbols, stk, lastValue, fromItem),
         NEW v \in Values, NEW h \in Copies(v)
  PROVE  /\ Grown(h, stk)
         /\ IsList(v) => h.bx[h.root] = h.root
         /\ IsStruct(v) => h.bx[h.root] \in Tables
         /\ box[v] = Nil => h.bx = box /\ h.its = items /\ h.own = [owner EXCEPT ![h.root] = "INTERPRETER"]
         /\ box[v] = Nil => h.bx[h.root] = Nil
<1>1. HeapOK(owner, box, items)
  BY DEF World
<1>2. CASE IsList(v)
  <2>1. v \in Cells /\ v \in Boxes /\ box[v] = v /\ v # Nil /\ v \notin Tables
    BY <1>1, <1>2, Distinct DEF IsList, HeapOK
  <2>2. Len(items[v]) \in Nat /\ Len(items[v]) <= MaxItems
    BY <1>1, <2>1, LenProperties DEF HeapOK
  <2>3. h \in NewLists(<<>>, Len(items[v]))
    BY <1>2, <2>1 DEF Copies, ItemsOf
  <2>4. <<>> \in Seq(Values) /\ Len(<<>>) = 0 /\ DOMAIN (<<>>) = {}
    BY EmptySeq
  <2> DEFINE kept == <<>>  n == Len(items[v])
  <2>5. kept \in Seq(Values) /\ (\A i \in DOMAIN kept : kept[i] \in Literals) /\ n \in Nat
        /\ Len(kept) + n <= MaxItems
    BY <2>2, <2>4
  <2> HIDE DEF kept, n
  <2>6. h \in NewLists(kept, n)
    BY <2>3 DEF kept, n
  <2>7. Grown(h, stk) /\ h.bx[h.root] = h.root
    BY <2>5, <2>6, NewListsGrow
  <2> QED
    BY <2>1, <2>7 DEF IsStruct
<1>3. CASE ~IsList(v) /\ IsStruct(v)
  <2>1. PICK r \in Fresh : h = Heap(r, [owner EXCEPT ![r] = "INTERPRETER"], [box EXCEPT ![r] = box[v]], items)
    BY <1>3 DEF Copies, StructCopies
  <2> DEFINE own2 == [owner EXCEPT ![r] = "INTERPRETER"]
  <2>2. /\ Grown(Heap(r, own2, box, items), stk)
        /\ box[r] = Nil /\ \A w \in Values : box[w] # r
    BY ScalarGrows
  <2> HIDE DEF own2
  <2>3. /\ World(own2, box, items, symbols, stk, lastValue, fromItem)
        /\ r \in Cells /\ owner[r] = "FREED" /\ own2[r] = "INTERPRETER"
        /\ Unseen(items, symbols, stk, lastValue, r)
        /\ \A w \in Values : owner[w] # "FREED" => own2[w] = owner[w]
    BY <2>2 DEF Grown, Heap
  <2>4. box[v] \in Tables /\ box[v] # Nil
    BY <1>3, Distinct DEF IsStruct
  <2>5. World(own2, [box EXCEPT ![r] = box[v]], items, symbols, stk, lastValue, fromItem)
    BY <2>2, <2>3, <2>4, ShareKeeps DEF Unseen
  <2>6. h.root = r /\ h.own = own2 /\ h.bx = [box EXCEPT ![r] = box[v]] /\ h.its = items
    BY <2>1 DEF Heap, own2
  <2>7. r \in Values
    BY <2>3, Distinct
  <2>8. h.bx[r] = box[v] /\ \A w \in Values : owner[w] # "FREED" => h.bx[w] = box[w]
    BY <1>1, <2>3, <2>6, <2>7 DEF HeapOK
  <2> QED
    BY <1>3, <2>3, <2>4, <2>5, <2>6, <2>8 DEF Grown
<1>4. CASE ~IsList(v) /\ ~IsStruct(v)
  <2>1. PICK r \in Fresh : h = Heap(r, [owner EXCEPT ![r] = "INTERPRETER"], box, items)
    BY <1>4 DEF Copies, ScalarCopies
  <2>2. Grown(h, stk) /\ box[r] = Nil
    BY <2>1, ScalarGrows
  <2> QED
    BY <1>4, <2>1, <2>2 DEF Heap
<1> QED
  BY <1>2, <1>3, <1>4

\* A copy forgets nothing: what it took is its root or is in it, and what was in a
\* container is still.
Tidy(h) ==
  /\ \A v \in Cells : owner[v] = "FREED" =>
       h.own[v] = "FREED" \/ v = h.root \/ (h.own[v] = "OBJECT_VALUE" /\ ~ NoItem(h.its, v))
  /\ \A v \in Cells : ~ NoItem(items, v) => ~ NoItem(h.its, v)

LEMMA NewListsTidy ==
  ASSUME ContainerInv, NEW kept \in Seq(Values), NEW n \in Nat, NEW h \in NewLists(kept, n)
  PROVE  Tidy(h)
<1>1. PICK r \in Fresh : \E new \in {s \in [1..n -> Fresh \ {r}] : \A i, j \in 1..n : i # j => s[i] # s[j]} :
        h = Heap(r, [v \in Values |-> IF v = r THEN "INTERPRETER"
                                      ELSE IF v \in RangeOf(new) THEN "OBJECT_VALUE"
                                      ELSE owner[v]],
                 [box EXCEPT ![r] = r], [items EXCEPT ![r] = kept \o new])
  BY DEF NewLists
<1>2. PICK new \in [1..n -> Fresh \ {r}] :
        h = Heap(r, [v \in Values |-> IF v = r THEN "INTERPRETER"
                                      ELSE IF v \in RangeOf(new) THEN "OBJECT_VALUE"
                                      ELSE owner[v]],
                 [box EXCEPT ![r] = r], [items EXCEPT ![r] = kept \o new])
  BY <1>1
<1> DEFINE s == kept \o new
<1>3. /\ h.root = r /\ h.its = [items EXCEPT ![r] = s]
      /\ \A v \in Values : h.own[v] = IF v = r THEN "INTERPRETER"
                                      ELSE IF v \in RangeOf(new) THEN "OBJECT_VALUE" ELSE owner[v]
  BY <1>2 DEF Heap
<1>4. /\ r \in Cells /\ r \in Boxes /\ owner[r] = "FREED" /\ items[r] = <<>>
      /\ \A i \in 1..n : new[i] \in Values
  <2>1. r \in Cells /\ owner[r] = "FREED"
    BY DEF Fresh, Live
  <2>2. items[r] = <<>>
    BY <2>1, FreedUnseen DEF ContainerInv, World
  <2>3. \A i \in 1..n : new[i] \in Cells
    BY DEF Fresh
  <2> QED
    BY <2>1, <2>2, <2>3, Distinct
<1>5. ASSUME NEW i \in 1..n PROVE \E j \in DOMAIN s : s[j] = new[i]
  <2>1. new \in Seq(Values) /\ Len(new) = n /\ Len(kept) \in Nat
    BY <1>4, IsASeq, LenProperties
  <2>2. /\ s \in Seq(Values) /\ Len(s) = Len(kept) + n
        /\ \A j \in 1..(Len(kept) + n) : s[j] = IF j <= Len(kept) THEN kept[j] ELSE new[j - Len(kept)]
    BY <2>1, ConcatProperties
  <2> HIDE DEF s
  <2>3. DOMAIN s = 1..(Len(kept) + n)
    BY <2>2, LenProperties
  <2> DEFINE m == Len(kept) + i
  <2>4. m \in DOMAIN s /\ ~ (m <= Len(kept)) /\ m - Len(kept) = i
    BY <2>1, <2>3
  <2> HIDE DEF m
  <2>5. s[m] = new[m - Len(kept)]
    BY <2>2, <2>3, <2>4
  <2> QED
    BY <2>4, <2>5
<1>6. h.its[r] = s /\ \A b \in Boxes \ {r} : h.its[b] = items[b]
  BY <1>3, <1>4 DEF ContainerInv, HeapOK
<1> HIDE DEF s
<1>7. ASSUME NEW v \in Cells, owner[v] = "FREED"
      PROVE  h.own[v] = "FREED" \/ v = h.root \/ (h.own[v] = "OBJECT_VALUE" /\ ~ NoItem(h.its, v))
  <2>1. CASE v = r \/ v \notin RangeOf(new)
    BY <1>3, <1>7, <2>1, Distinct
  <2>2. CASE v # r /\ v \in RangeOf(new)
    <3>1. PICK i \in 1..n : new[i] = v
      BY <2>2 DEF RangeOf
    <3>2. ~ NoItem(h.its, v)
      BY <1>4, <1>5, <1>6, <3>1 DEF NoItem
    <3> QED
      BY <1>3, <2>2, <3>2, Distinct
  <2> QED
    BY <2>1, <2>2
<1>8. ASSUME NEW v \in Cells, ~ NoItem(items, v) PROVE ~ NoItem(h.its, v)
  <2>1. PICK b \in Boxes : \E i \in DOMAIN items[b] : items[b][i] = v
    BY <1>8 DEF NoItem
  <2>2. b # r
    BY <1>4, <2>1, EmptySeq
  <2> QED
    BY <1>6, <2>1, <2>2 DEF NoItem
<1> QED
  BY <1>7, <1>8 DEF Tidy

LEMMA ScalarTidy ==
  ASSUME NEW r \in Fresh, NEW bx
  PROVE  Tidy(Heap(r, [owner EXCEPT ![r] = "INTERPRETER"], bx, items))
  BY DEF Tidy, Heap

LEMMA CopiesTidy ==
  ASSUME ContainerInv, NEW v \in Values, NEW h \in Copies(v)
  PROVE  Tidy(h)
<1>1. CASE IsList(v)
  <2>1. v \in Boxes /\ ItemsOf(v) = items[v]
    BY <1>1, Distinct DEF IsList, ItemsOf, ContainerInv, HeapOK
  <2>2. Len(ItemsOf(v)) \in Nat /\ <<>> \in Seq(Values)
    BY <2>1, LenProperties, EmptySeq DEF ContainerInv, HeapOK
  <2>3. h \in NewLists(<<>>, Len(ItemsOf(v)))
    BY <1>1 DEF Copies
  <2> QED
    BY <2>2, <2>3, NewListsTidy
<1>2. CASE ~ IsList(v)
  <2>1. \E r \in Fresh : \E bx \in {box, [box EXCEPT ![r] = box[v]]} :
          h = Heap(r, [owner EXCEPT ![r] = "INTERPRETER"], bx, items)
    BY <1>2 DEF Copies, StructCopies, ScalarCopies
  <2> QED
    BY <2>1, ScalarTidy
<1> QED
  BY <1>1, <1>2

\* A copy of a scalar, a temporary that nothing refers to, or a literal is put
\* into a container.
LEMMA RaiseReady ==
  ASSUME NEW stk, World(owner, box, items, symbols, stk, lastValue, fromItem),
         NEW v \in Values, IsScalar(v), NEW g,
         \/ g \in Copies(v)
         \/ /\ g = Same(v) /\ owner[v] \in {"INTERPRETER", "VALUE_TOKEN"}
            /\ owner[v] = "INTERPRETER" => Unseen(items, symbols, stk, lastValue, v)
  PROVE  Ready(Raise(g, "OBJECT_VALUE"), stk) /\ Raise(g, "OBJECT_VALUE").root = g.root
<1>1. HeapOK(owner, box, items) /\ box[v] = Nil /\ v # Empty
  BY DEF World, IsScalar
<1>2. ASSUME NEW r \in Cells, NEW own,
             World(own, box, items, symbols, stk, lastValue, fromItem),
             own[r] = "INTERPRETER", box[r] = Nil,
             Unseen(items, symbols, stk, lastValue, r),
             \A w \in Values : w # r => own[w] = owner[w],
             g = Heap(r, own, box, items)
      PROVE  Ready(Raise(g, "OBJECT_VALUE"), stk) /\ Raise(g, "OBJECT_VALUE").root = g.root
  <2> DEFINE own2 == [own EXCEPT ![r] = "OBJECT_VALUE"]
  <2>1. Raise(g, "OBJECT_VALUE") = Heap(r, own2, box, items)
    BY <1>2 DEF Raise, Heap, OwnerRank
  <2>2. World(own2, box, items, symbols, stk, lastValue, fromItem)
    BY <1>2, TagKeeps DEF Unseen
  <2>3. /\ own2[r] = "OBJECT_VALUE"
        /\ \A w \in Values : w # r => own2[w] = owner[w]
    BY <1>2, Distinct DEF World, HeapOK
  <2> HIDE DEF own2
  <2> QED
    BY <1>2, <2>1, <2>2, <2>3 DEF Ready, Raised, Heap
<1>3. CASE g \in Copies(v)
  <2>1. /\ Grown(g, stk) /\ g.bx = box /\ g.its = items
        /\ g.own = [owner EXCEPT ![g.root] = "INTERPRETER"] /\ g.bx[g.root] = Nil
    BY <1>1, <1>3, CopiesGrow
  <2>2. ~IsList(v) /\ ~IsStruct(v)
    BY <1>1, Distinct DEF IsList, IsStruct
  <2>3. g \in ScalarCopies
    BY <1>3, <2>2 DEF Copies
  <2>4. g = Heap(g.root, g.own, g.bx, g.its)
    BY <2>3 DEF ScalarCopies, Heap
  <2>5. \A w \in Values : w # g.root => g.own[w] = owner[w]
    BY <1>1, <2>1 DEF HeapOK
  <2> QED
    BY <1>2, <2>1, <2>4, <2>5 DEF Grown
<1>4. CASE g = Same(v) /\ owner[v] = "INTERPRETER" /\ Unseen(items, symbols, stk, lastValue, v)
  <2>1. v \in Cells
    BY <1>1, <1>4, Distinct DEF HeapOK
  <2> QED
    BY <1>1, <1>2, <1>4, <2>1 DEF Same
<1>5. CASE g = Same(v) /\ owner[v] = "VALUE_TOKEN"
  <2>1. v \in Literals
    BY <1>1, <1>5, Distinct DEF HeapOK, CellTags
  <2>2. Raise(g, "OBJECT_VALUE") = Heap(v, owner, box, items)
    BY <1>5 DEF Raise, Same, Heap, OwnerRank
  <2> QED
    BY <1>5, <2>1, <2>2, Distinct DEF Ready, Raised, Heap, Same
<1> QED
  BY <1>3, <1>4, <1>5

-----------------------------------------------------------------------------
(* The end of an operation: its result is pushed and the dead are deleted *)

LEMMA AppendFacts ==
  ASSUME NEW S, NEW s \in Seq(S), NEW e \in S, NEW i \in DOMAIN Append(s, e)
  PROVE  Append(s, e)[i] = e \/ (i \in DOMAIN s /\ Append(s, e)[i] = s[i])
<1>1. /\ Len(s) \in Nat /\ DOMAIN s = 1..Len(s)
      /\ DOMAIN Append(s, e) = 1..Len(s) + 1
      /\ Append(s, e)[Len(s) + 1] = e
      /\ \A j \in 1..Len(s) : Append(s, e)[j] = s[j]
  BY LenProperties, AppendProperties
<1>2. i = Len(s) + 1 \/ i \in 1..Len(s)
  BY <1>1
<1> QED
  BY <1>1, <1>2

LEMMA FinishKeeps ==
  ASSUME ContainerInv, NEW k \in 0..2, k <= Height, NEW h,
         World(h.own, h.bx, h.its, symbols, Below(k), lastValue, fromItem),
         NEW r, r = Empty \/ (/\ r \in Cells /\ h.own[r] = "INTERPRETER"
                              /\ Unseen(h.its, symbols, Below(k), lastValue, r)),
         NEW dead \in SUBSET Cells,
         \A v \in dead : /\ Unseen(h.its, symbols, Below(k), Nil, v)
                         /\ lastValue = v => fromItem
                         /\ v # r,
         Delete(h, dead, lastValue), Replace(k, r),
         UNCHANGED <<symbols, fromItem>>
  PROVE  ContainerInv'
<1> DEFINE e == Operand("value", r)
<1>1. e \in OperandTypes /\ e.tag = "value" /\ e.of = r
  BY Distinct DEF OperandTypes, Operand
<1>2. Below(k) \in Seq(OperandTypes)
  BY DEF World, StackOK
<1> HIDE DEF e
<1>3. World(h.own, h.bx, h.its, symbols, Append(Below(k), e), lastValue, fromItem)
  BY <1>1, PushKeeps, Distinct
<1>4. ASSUME NEW v \in dead
      PROVE  Unseen(h.its, symbols, Append(Below(k), e), Nil, v) /\ (lastValue = v => fromItem)
  <2>1. \A i \in DOMAIN Append(Below(k), e) :
          \/ Append(Below(k), e)[i] = e
          \/ i \in DOMAIN Below(k) /\ Append(Below(k), e)[i] = Below(k)[i]
    BY <1>1, <1>2, AppendFacts
  <2> QED
    BY <1>1, <2>1 DEF Unseen
<1>5. World(owner', box', items', symbols, Append(Below(k), e), lastValue', fromItem)
  BY <1>3, <1>4, DeleteKeeps
<1>6. stack' = Append(Below(k), e)
  BY DEF Replace, e
<1> QED
  BY <1>5, <1>6 DEF ContainerInv, World

\* The temporaries popped can be deleted.
LEMMA TemporariesUnseen ==
  ASSUME ContainerInv, NEW k \in 0..2, CanPop(k), NEW h,
         World(h.own, h.bx, h.its, symbols, Below(k), lastValue, fromItem),
         \A v \in Values : owner[v] = "INTERPRETER" => h.own[v] = owner[v],
         NEW S, \A v \in S : \E i \in 0..k - 1 : v = ValueOf(stack[Height - i]),
         NEW v \in OwnedBy("INTERPRETER", S)
  PROVE  /\ v \in Cells /\ owner[v] = "INTERPRETER"
         /\ Unseen(h.its, symbols, Below(k), Nil, v) /\ lastValue # v
<1>1. v \in S /\ v \in Values /\ owner[v] = "INTERPRETER"
  BY DEF OwnedBy
<1>2. PICK i \in 0..k - 1 : v = ValueOf(stack[Height - i])
  BY <1>1
<1>3. k <= Height /\ ValueOf(stack[Height - i]) # Nil
  BY Popped DEF CanPop
<1>4. v \in Cells /\ Unseen(items, symbols, Below(k), lastValue, v)
  BY <1>1, <1>2, <1>3, PoppedTemporary
<1>5. h.own[v] = "INTERPRETER"
  BY <1>1
<1>6. NoItem(h.its, v)
  BY <1>5 DEF World, HeapOK, NoItem
<1> QED
  BY <1>1, <1>4, <1>6, Distinct DEF Unseen

LEMMA GrownFinish ==
  ASSUME ContainerInv, NEW k \in 0..2, CanPop(k), NEW h, Grown(h, Below(k)),
         NEW S, \A v \in S : \E i \in 0..k - 1 : v = ValueOf(stack[Height - i]),
         Delete(h, OwnedBy("INTERPRETER", S), lastValue), Replace(k, h.root),
         UNCHANGED <<symbols, fromItem>>
  PROVE  ContainerInv'
<1> DEFINE dead == OwnedBy("INTERPRETER", S)
<1>1. k <= Height
  BY Popped DEF CanPop
<1>2. World(h.own, h.bx, h.its, symbols, Below(k), lastValue, fromItem)
  BY DEF Grown
<1>3. \A v \in Values : owner[v] = "INTERPRETER" => h.own[v] = owner[v]
  BY DEF Grown
<1>4. \A v \in dead : /\ v \in Cells /\ owner[v] = "INTERPRETER"
                      /\ Unseen(h.its, symbols, Below(k), Nil, v) /\ lastValue # v
  BY <1>2, <1>3, TemporariesUnseen
<1>5. owner[h.root] = "FREED" /\ h.root \in Cells /\ h.own[h.root] = "INTERPRETER"
      /\ Unseen(h.its, symbols, Below(k), lastValue, h.root)
  BY DEF Grown
<1>6. dead \in SUBSET Cells /\ \A v \in dead : v # h.root
  BY <1>4, <1>5
<1>7. Delete(h, dead, lastValue)
  OBVIOUS
<1> HIDE DEF dead
<1> QED
  BY <1>1, <1>2, <1>4, <1>5, <1>6, <1>7, FinishKeeps

\* The k topmost operands are popped, a new temporary is pushed, and the
\* temporaries popped are deleted.
Pushes(k) ==
  /\ CanPop(k) /\ UNCHANGED <<symbols, fromItem>>
  /\ \E h, S : /\ Grown(h, Below(k)) /\ Tidy(h) /\ Replace(k, h.root)
               /\ \A v \in S : \E i \in 0..k - 1 : v = ValueOf(stack[Height - i])
               /\ \A i \in 0..k - 1 : ValueOf(stack[Height - i]) \in S
               /\ Delete(h, OwnedBy("INTERPRETER", S), lastValue)

LEMMA PushesKeeps == ASSUME ContainerInv, NEW k \in 0..2, Pushes(k) PROVE ContainerInv'
  BY GrownFinish DEF Pushes

-----------------------------------------------------------------------------
(* The steps *)

LEMMA InvWorld == ContainerInv <=> World(owner, box, items, symbols, stack, lastValue, fromItem)
  BY DEF ContainerInv, World

LEMMA PushOperandKeeps == ASSUME ContainerInv, PushOperand PROVE ContainerInv'
<1>1. PICK e \in {Operand("name", n) : n \in Names} \cup {Operand("value", v) : v \in Literals}
              \cup {Operand("member", n) : n \in Accessible} : stack' = Append(stack, e)
  BY DEF PushOperand
<1>2. /\ e \in OperandTypes /\ e.tag # "element"
      /\ e.tag = "value" => e.of \notin Cells
      /\ e.tag = "member" => symbols[e.of] # Nil
  BY <1>1, Distinct DEF OperandTypes, Operand, Accessible
<1>3. World(owner, box, items, symbols, Append(stack, e), lastValue, fromItem)
  BY <1>2, InvWorld, PushKeeps
<1> QED
  BY <1>1, <1>3 DEF ContainerInv, World, PushOperand, heap

\* The list on top, and what can be said of it.
LEMMA ListFacts ==
  ASSUME ContainerInv, NEW i \in DOMAIN stack, ValueOf(stack[i]) # Nil, IsList(ValueOf(stack[i]))
  PROVE  LET v == ValueOf(stack[i]) IN
         /\ v \in Cells /\ v \in Boxes /\ v \in Values /\ box[v] = v /\ ItemsOf(v) = items[v]
         /\ owner[v] \in {"INTERPRETER", "CONTEXT_VARIABLE"}
         /\ items[v] \in Seq(Values) /\ Len(items[v]) \in Nat /\ Len(items[v]) <= MaxItems
         /\ DOMAIN items[v] = 1..Len(items[v]) /\ v \notin Tables
<1> DEFINE v == ValueOf(stack[i])
<1>1. v \in Values /\ box[v] = v
  BY ValueFacts DEF IsList
<1>2. v \in Cells /\ owner[v] \in {"INTERPRETER", "CONTEXT_VARIABLE"}
  BY <1>1, Distinct DEF ContainerInv, HeapOK
<1>3. v \in Boxes /\ v \notin Tables
  BY <1>2, Distinct
<1>4. items[v] \in Seq(Values) /\ Len(items[v]) <= MaxItems
  BY <1>3 DEF ContainerInv, HeapOK
<1> HIDE DEF v
<1>5. Len(items[v]) \in Nat /\ DOMAIN items[v] = 1..Len(items[v])
  BY <1>4, LenProperties
<1> QED
  BY <1>1, <1>2, <1>3, <1>4, <1>5 DEF ItemsOf, v

LEMMA GetKeeps == ASSUME ContainerInv, Get PROVE ContainerInv'
<1>1. ListOnTop /\ CanPop(1) /\ 1 <= Height /\ ValueOf(Top) # Nil /\ IsList(ValueOf(Top))
  <2>1. CanPop(1) /\ ListOnTop /\ IsList(ValueOf(Top))
    BY DEF Get, ListOnTop
  <2>2. Height \in Nat /\ 0 \in 0..1 - 1 /\ Height - 0 = Height
    BY <2>1, LenProperties DEF CanPop, ContainerInv, StackOK, Height
  <2> QED
    BY <2>1, <2>2 DEF CanPop, Top
<1>2. /\ World(owner, box, items, symbols, Below(1), lastValue, fromItem)
      /\ Height \in Nat /\ DOMAIN stack = 1..Height
      /\ \A i \in DOMAIN Below(1) : i \in DOMAIN stack /\ i \in 1..Height - 1 /\ Below(1)[i] = stack[i]
  BY <1>1, Popped
<1>3. Height \in DOMAIN stack /\ Top = stack[Height]
  BY <1>1, <1>2 DEF Top
<1> DEFINE v == ValueOf(Top)
<1>4. /\ v \in Cells /\ box[v] = v /\ ItemsOf(v) = items[v]
      /\ Len(items[v]) \in Nat /\ Len(items[v]) <= MaxItems /\ DOMAIN items[v] = 1..Len(items[v])
  BY <1>1, <1>3, ListFacts
<1>5. PICK i \in DOMAIN ItemsOf(v) : GetAt(i)
  BY DEF Get
<1>6. i \in DOMAIN items[v] /\ i \in 1..MaxItems
  BY <1>4, <1>5, Distinct
<1> DEFINE e == ElementAt(v, i)
<1>7. e \in OperandTypes /\ e.tag = "element" /\ e.of = v /\ e.at = i
  BY <1>4, <1>6 DEF OperandTypes, ElementAt
<1>8. owner[v] = "INTERPRETER" => Unseen(items, symbols, Below(1), lastValue, v)
  <2>1. SUFFICES ASSUME owner[v] = "INTERPRETER" PROVE Unseen(items, symbols, Below(1), lastValue, v)
    OBVIOUS
  <2>2. 0 \in 0..1 - 1 /\ 1 \in 0..2 /\ Height - 0 = Height
    BY <1>2
  <2>3. ValueOf(stack[Height - 0]) = v
    BY <2>2 DEF Top
  <2> HIDE DEF v
  <2> QED
    BY <1>1, <2>1, <2>2, <2>3, PoppedTemporary DEF v
<1>9. stack' = Append(Below(1), e)
  BY <1>5 DEF GetAt
<1> HIDE DEF e, v
<1>10. World(owner, box, items, symbols, Append(Below(1), e), lastValue, fromItem)
  BY <1>2, <1>4, <1>6, <1>7, <1>8, PushKeeps
<1> QED
  BY <1>5, <1>9, <1>10 DEF ContainerInv, World, GetAt, heap

LEMMA YieldKeeps ==
  ASSUME ContainerInv, NEW k \in 0..2, NEW r, r \in Fresh \/ r = Empty, Yield(k, r)
  PROVE  ContainerInv'
<1> DEFINE S == {ValueOf(stack[Height - i]) : i \in 0..k - 1}
           own2 == [v \in Values |-> IF v = r /\ r # Empty THEN "INTERPRETER" ELSE owner[v]]
           h == Heap(r, own2, box, items)
<1>1. /\ CanPop(k) /\ k <= Height /\ Delete(h, OwnedBy("INTERPRETER", S), lastValue)
      /\ Replace(k, r) /\ UNCHANGED <<symbols, fromItem>>
  BY Popped DEF Yield, CanPop
<1>2. \A v \in S : \E i \in 0..k - 1 : v = ValueOf(stack[Height - i])
  OBVIOUS
<1>3. World(owner, box, items, symbols, Below(k), lastValue, fromItem)
  BY <1>1, Popped
<1> HIDE DEF S
<1>4. CASE r \in Fresh
  <2>1. own2 = [owner EXCEPT ![r] = "INTERPRETER"]
    BY <1>4, Distinct DEF ContainerInv, HeapOK, Fresh
  <2>2. Grown(Heap(r, [owner EXCEPT ![r] = "INTERPRETER"], box, items), Below(k))
    BY <1>3, <1>4, ScalarGrows
  <2>3. Grown(h, Below(k)) /\ h.root = r
    BY <2>1, <2>2 DEF Heap
  <2> HIDE DEF h
  <2> QED
    BY <1>1, <1>2, <2>3, GrownFinish
<1>5. CASE r = Empty
  <2>1. own2 = owner
    BY <1>5 DEF ContainerInv, HeapOK
  <2>2. h.own = owner /\ h.bx = box /\ h.its = items
    BY <2>1 DEF Heap
  <2> DEFINE dead == OwnedBy("INTERPRETER", S)
  <2> HIDE DEF h
  <2>3. World(h.own, h.bx, h.its, symbols, Below(k), lastValue, fromItem)
    BY <1>3, <2>2
  <2>4. \A v \in Values : owner[v] = "INTERPRETER" => h.own[v] = owner[v]
    BY <2>2
  <2>5. \A v \in dead : /\ v \in Cells /\ owner[v] = "INTERPRETER"
                        /\ Unseen(h.its, symbols, Below(k), Nil, v) /\ lastValue # v
    BY <1>1, <1>2, <2>3, <2>4, TemporariesUnseen
  <2>6. Delete(h, dead, lastValue)
    BY <1>1
  <2>7. dead \in SUBSET Cells /\ \A v \in dead : v # r
    BY <1>5, <2>5, Distinct
  <2> HIDE DEF dead
  <2> QED
    BY <1>1, <1>5, <2>3, <2>5, <2>6, <2>7, FinishKeeps
<1> QED
  BY <1>4, <1>5

LEMMA ComputeKeeps == ASSUME ContainerInv, Compute PROVE ContainerInv'
<1>1. PICK k \in 1..2, r \in Fresh : Yield(k, r)
  BY DEF Compute
<1>2. k \in 0..2
  OBVIOUS
<1> QED
  BY <1>1, <1>2, YieldKeeps

LEMMA CallBuiltinKeeps == ASSUME ContainerInv, CallBuiltin PROVE ContainerInv'
<1>1. \E k \in 0..2, r \in Fresh \cup {Empty} : Yield(k, r)
  BY DEF CallBuiltin
<1> QED
  BY <1>1, YieldKeeps

LEMMA TopFacts ==
  ASSUME ContainerInv, NEW k \in 1..2, CanPop(k)
  PROVE  /\ k <= Height /\ Height \in DOMAIN stack /\ Top = stack[Height]
         /\ ValueOf(Top) # Nil /\ ValueOf(Top) \in Values
         /\ \E i \in 0..k - 1 : ValueOf(Top) = ValueOf(stack[Height - i])
         /\ k = 2 => /\ Height - 1 \in DOMAIN stack /\ Second = stack[Height - 1]
                     /\ ValueOf(Second) # Nil /\ ValueOf(Second) \in Values
                     /\ \E i \in 0..k - 1 : ValueOf(Second) = ValueOf(stack[Height - i])
         /\ World(owner, box, items, symbols, Below(k), lastValue, fromItem)
<1>1. k <= Height /\ \A i \in 0..k - 1 : ValueOf(stack[Height - i]) # Nil
  <2>1. Height \in Nat
    BY LenProperties DEF ContainerInv, StackOK, Height
  <2> QED
    BY <2>1 DEF CanPop
<1>2. /\ World(owner, box, items, symbols, Below(k), lastValue, fromItem)
      /\ Height \in Nat /\ DOMAIN stack = 1..Height
  BY <1>1, Popped
<1>3. 0 \in 0..k - 1 /\ Height - 0 = Height /\ Height \in DOMAIN stack
  BY <1>1, <1>2
<1>4. ValueOf(Top) # Nil /\ Top = stack[Height] /\ ValueOf(Top) = ValueOf(stack[Height - 0])
  BY <1>1, <1>3 DEF Top
<1>5. ValueOf(Top) \in Values
  BY <1>3, <1>4, ValueFacts
<1>6. ASSUME k = 2
      PROVE  /\ Height - 1 \in DOMAIN stack /\ Second = stack[Height - 1]
             /\ ValueOf(Second) # Nil /\ ValueOf(Second) \in Values
             /\ \E i \in 0..k - 1 : ValueOf(Second) = ValueOf(stack[Height - i])
  <2>1. 1 \in 0..k - 1 /\ Height - 1 \in DOMAIN stack
    BY <1>1, <1>2, <1>6
  <2>2. ValueOf(Second) # Nil /\ Second = stack[Height - 1]
    BY <1>1, <2>1 DEF Second
  <2>3. ValueOf(Second) \in Values
    BY <2>1, <2>2, ValueFacts
  <2> QED
    BY <2>1, <2>2, <2>3
<1> QED
  BY <1>1, <1>2, <1>3, <1>4, <1>5, <1>6

LEMMA OnlyOperand ==
  ASSUME ContainerInv
  PROVE  \A i \in 0..1 - 1 : ValueOf(stack[Height - i]) = ValueOf(Top)
<1>1. Height \in Nat /\ \A i \in 0..1 - 1 : i = 0
  BY LenProperties DEF ContainerInv, StackOK, Height
<1>2. Height - 0 = Height
  BY <1>1
<1> QED
  BY <1>1, <1>2 DEF Top

LEMMA CompareKeeps == ASSUME ContainerInv, Compare PROVE ContainerInv'
<1> DEFINE left == ValueOf(Second)  right == ValueOf(Top)  S == {left, right}
<1>1. CanPop(2) /\ UNCHANGED <<symbols, fromItem>>
  BY DEF Compare
<1>2. PICK lost \in SUBSET Fresh : \E q \in Fresh \ lost :
        /\ Delete(Heap(q, [v \in Values |-> IF v \in lost \cup {q} THEN "INTERPRETER" ELSE owner[v]],
                       box, items), OwnedBy("INTERPRETER", S), lastValue)
        /\ Replace(2, q)
  BY DEF Compare
<1>3. PICK r \in Fresh \ lost :
        /\ Delete(Heap(r, [v \in Values |-> IF v \in lost \cup {r} THEN "INTERPRETER" ELSE owner[v]],
                       box, items), OwnedBy("INTERPRETER", S), lastValue)
        /\ Replace(2, r)
  BY <1>2
<1>4. /\ 2 \in 0..2 /\ 2 \in 1..2
      /\ World(owner, box, items, symbols, Below(2), lastValue, fromItem)
      /\ \A v \in S : \E i \in 0..2 - 1 : v = ValueOf(stack[Height - i])
  <2>1. 2 \in 0..2 /\ 2 \in 1..2
    OBVIOUS
  <2> QED
    BY <1>1, <2>1, TopFacts
<1> DEFINE F == lost \cup {r}
           own2 == [v \in Values |-> IF v \in F THEN "INTERPRETER" ELSE owner[v]]
           h == Heap(r, own2, box, items)
<1>5. F \in SUBSET Cells /\ \A v \in F : owner[v] = "FREED"
  BY DEF Fresh, Live
<1>6. /\ own2 \in [Values -> Owners \cup {"FREED"}] /\ own2[r] = "INTERPRETER"
      /\ \A v \in Values \ F : own2[v] = owner[v]
      /\ \A v \in F : own2[v] \in CellTags \ {"FREED"}
  BY <1>5, Distinct DEF ContainerInv, HeapOK, Owners, CellTags
<1>7. Delete(h, OwnedBy("INTERPRETER", S), lastValue)
  BY <1>3
<1>8. h.root = r /\ h.own = own2 /\ h.bx = box /\ h.its = items
  BY DEF Heap
<1> HIDE DEF F, own2, h
<1>9. World(own2, box, items, symbols, Below(2), lastValue, fromItem)
  BY <1>4, <1>5, <1>6, AllocKeeps
<1>10. r \in Cells /\ owner[r] = "FREED" /\ Unseen(items, symbols, Below(2), lastValue, r)
  <2>1. r \in Cells /\ owner[r] = "FREED"
    BY DEF Fresh, Live
  <2> QED
    BY <1>4, <2>1, FreedUnseen
<1>11. \A v \in Values : owner[v] # "FREED" => own2[v] = owner[v]
  BY <1>5, <1>6
<1>12. Grown(h, Below(2))
  BY <1>6, <1>8, <1>9, <1>10, <1>11 DEF Grown
<1> HIDE DEF S
<1> QED
  BY <1>1, <1>3, <1>4, <1>7, <1>8, <1>12, GrownFinish

LEMMA EndOfLineKeeps == ASSUME ContainerInv, EndOfLine PROVE ContainerInv'
<1> DEFINE result == IF Height = 0 THEN Operand("value", Empty) ELSE Top
           r == ValueOf(result)
           from == result.tag \in ItemTags
           dead == OwnedBy("INTERPRETER", {lastValue})
           h == Same(Nil)
           none == <<>>
<1>1. /\ Height <= 1 /\ r # Nil /\ Delete(h, dead, r)
      /\ fromItem' = from /\ stack' = none /\ UNCHANGED symbols
  BY DEF EndOfLine
<1>2. World(owner, box, items, symbols, stack, lastValue, fromItem)
      /\ Height \in Nat /\ DOMAIN stack = 1..Height
  BY InvWorld, LenProperties DEF ContainerInv, StackOK, Height
<1>3. h.own = owner /\ h.bx = box /\ h.its = items
  BY DEF Same, Heap
<1>4. /\ r \in Values /\ owner[r] # "FREED"
      /\ owner[r] = "INTERPRETER" => lastValue # r
      /\ r \in Cells /\ ~from => NoItem(items, r)
  <2>1. CASE Height = 0
    <3>1. r = Empty
      BY <2>1 DEF Operand, ValueOf
    <3>2. owner[Empty] = "EMPTY_VALUE"
      BY DEF ContainerInv, HeapOK
    <3> QED
      BY <3>1, <3>2, Distinct
  <2>2. CASE Height # 0
    <3>1. result = stack[Height] /\ Height \in DOMAIN stack
      BY <1>2, <2>2 DEF Top
    <3>2. /\ r \in Values /\ owner[r] # "FREED"
          /\ owner[r] = "INTERPRETER" => result.tag = "value" /\ r = result.of /\ r \in Cells
          /\ result.tag = "value" => r = result.of
          /\ result.tag = "name" => r = symbols[result.of] /\ result.of \in Names
          /\ result.tag \in {"value", "name"} \/ result.tag \in ItemTags
      BY <1>1, <3>1, ValueFacts
    <3>3. owner[r] = "INTERPRETER" => lastValue # r
      BY <3>1, <3>2 DEF ContainerInv, LastOK
    <3>4. ASSUME r \in Cells, result.tag = "value" PROVE NoItem(items, r)
      <4>1. owner[r] = "INTERPRETER"
        BY <3>1, <3>2, <3>4 DEF ContainerInv, StackOK
      <4> QED
        BY <4>1 DEF ContainerInv, HeapOK, NoItem
    <3>5. ASSUME r \in Cells, result.tag = "name" PROVE NoItem(items, r)
      BY <1>1, <3>2, <3>5 DEF ContainerInv, SymbolsOK
    <3> QED
      BY <3>2, <3>3, <3>4, <3>5
  <2> QED
    BY <2>1, <2>2
<1>5. none \in Seq(OperandTypes) /\ DOMAIN none = {}
  BY EmptySeq
<1> HIDE DEF result, r, from, dead, none, h
<1>6. StackOK(owner, box, items, symbols, none)
  BY <1>5 DEF StackOK
<1>7. LastOK(owner, items, none, r, from)
  BY <1>4, <1>5, Distinct DEF LastOK, from
<1>8. World(h.own, h.bx, h.its, symbols, none, r, from)
  BY <1>2, <1>3, <1>6, <1>7 DEF World
<1>9. ASSUME NEW v \in dead PROVE v \in Cells /\ Unseen(h.its, symbols, none, Nil, v) /\ r # v
  <2>1. v = lastValue /\ v \in Values /\ owner[v] = "INTERPRETER"
    BY DEF OwnedBy, dead
  <2>2. v \in Cells
    BY <2>1, Distinct DEF ContainerInv, HeapOK
  <2>3. NoItem(items, v)
    BY <2>1 DEF ContainerInv, HeapOK, NoItem
  <2>4. \A n \in Names : symbols[n] # v
    BY <2>1, <2>2, Distinct DEF ContainerInv, SymbolsOK
  <2> QED
    BY <1>3, <1>4, <1>5, <2>1, <2>2, <2>3, <2>4, Distinct DEF Unseen
<1>10. dead \in SUBSET Cells /\ \A v \in dead : Unseen(h.its, symbols, none, Nil, v) /\ (r = v => from)
  BY <1>9
<1>11. World(owner', box', items', symbols, none, lastValue', from)
  BY <1>1, <1>8, <1>10, DeleteKeeps
<1> QED
  BY <1>1, <1>11 DEF ContainerInv, World

LEMMA CreateEmptyListPushes ==
  ASSUME ContainerInv, CreateEmptyList PROVE Pushes(0)
<1>1. PICK h \in NewLists(<<>>, 0) : Delete(h, {}, lastValue) /\ Replace(0, h.root)
  BY DEF CreateEmptyList
<1> DEFINE S == {}  kept == <<>>  k == 0
<1>2. /\ k \in 0..2 /\ kept \in Seq(Values) /\ Len(kept) + 0 <= MaxItems /\ 0 \in Nat
      /\ \A i \in DOMAIN kept : kept[i] \in Literals
  BY EmptySeq, Distinct
<1>3. CanPop(k) /\ k <= Height
  BY LenProperties DEF CanPop, ContainerInv, StackOK, Height
<1>4. /\ OwnedBy("INTERPRETER", S) = {} /\ \A w \in S : \E i \in 0..k - 1 : w = ValueOf(stack[Height - i])
      /\ \A i \in 0..k - 1 : ValueOf(stack[Height - i]) \in S
  BY DEF OwnedBy
<1>5. h \in NewLists(kept, 0) /\ Replace(k, h.root) /\ UNCHANGED <<symbols, fromItem>>
  BY <1>1 DEF CreateEmptyList
<1>6. Delete(h, OwnedBy("INTERPRETER", S), lastValue)
  BY <1>1, <1>4
<1> HIDE DEF S, kept, k
<1>7. World(owner, box, items, symbols, Below(k), lastValue, fromItem)
  BY <1>2, <1>3, Popped
<1>8. Grown(h, Below(k)) /\ Tidy(h)
  BY <1>2, <1>5, <1>7, NewListsGrow, NewListsTidy
<1> QED
  BY <1>3, <1>4, <1>5, <1>6, <1>8 DEF Pushes, k

LEMMA CreateEmptyListKeeps == ASSUME ContainerInv, CreateEmptyList PROVE ContainerInv'
  BY CreateEmptyListPushes, PushesKeeps

LEMMA ConcatenatePushes ==
  ASSUME Sharing = {}, ContainerInv, Concatenate PROVE Pushes(2)
<1> DEFINE left == ValueOf(Second)  right == ValueOf(Top)  S == {left, right}
           kept == ItemsOf(left)  n == Len(ItemsOf(right))
<1>1. /\ CanPop(2) /\ UNCHANGED <<symbols, fromItem>> /\ IsList(left) /\ IsList(right)
      /\ Len(kept) + n <= MaxItems
      /\ OwnedBy("OBJECT_VALUE", RangeOf(kept)) = {}
  BY DEF Concatenate
<1>2. PICK h \in NewLists(kept, n) :
        Delete(h, OwnedBy("INTERPRETER", S), lastValue) /\ Replace(2, h.root)
  BY DEF Concatenate
<1>3. 2 \in 0..2 /\ 2 \in 1..2
  OBVIOUS
<1>4. /\ World(owner, box, items, symbols, Below(2), lastValue, fromItem)
      /\ \A w \in S : \E i \in 0..2 - 1 : w = ValueOf(stack[Height - i])
      /\ Height \in DOMAIN stack /\ Top = stack[Height] /\ right # Nil
      /\ Height - 1 \in DOMAIN stack /\ Second = stack[Height - 1] /\ left # Nil
  BY <1>1, <1>3, TopFacts
<1>5. left \in Boxes /\ kept = items[left] /\ kept \in Seq(Values)
  BY <1>1, <1>4, ListFacts
<1>6. n \in Nat
  <2>1. Len(items[right]) \in Nat /\ ItemsOf(right) = items[right]
    BY <1>1, <1>4, ListFacts
  <2> QED
    BY <2>1
<1>7. ASSUME NEW i \in DOMAIN kept PROVE kept[i] \in Literals
  <2>1. kept[i] \in Values /\ owner[kept[i]] \in {"OBJECT_VALUE", "VALUE_TOKEN"} /\ kept[i] # Empty
        /\ (owner[kept[i]] = "OBJECT_VALUE" <=> kept[i] \in Cells)
    BY <1>5, ItemFacts DEF ContainerInv
  <2>2. kept[i] \notin OwnedBy("OBJECT_VALUE", RangeOf(kept)) /\ kept[i] \in RangeOf(kept)
    BY <1>1 DEF RangeOf
  <2>3. owner[kept[i]] # "OBJECT_VALUE"
    BY <2>1, <2>2 DEF OwnedBy
  <2> QED
    BY <2>1, <2>3, Distinct
<1>8. \A i \in 0..2 - 1 : ValueOf(stack[Height - i]) \in S
  <2>1. Height \in Nat /\ \A i \in 0..2 - 1 : i = 0 \/ i = 1
    BY <1>4, LenProperties DEF ContainerInv, StackOK, Height
  <2>2. Height - 0 = Height
    BY <2>1
  <2> QED
    BY <1>4, <2>1, <2>2
<1> HIDE DEF kept, n, S
<1>9. Grown(h, Below(2)) /\ Tidy(h)
  BY <1>1, <1>4, <1>5, <1>6, <1>7, NewListsGrow, NewListsTidy
<1> QED
  BY <1>1, <1>2, <1>3, <1>4, <1>8, <1>9 DEF Pushes

LEMMA ConcatenateKeeps == ASSUME Sharing = {}, ContainerInv, Concatenate PROVE ContainerInv'
  BY ConcatenatePushes, PushesKeeps

LEMMA RepeatPushes ==
  ASSUME ContainerInv, Repeat PROVE Pushes(1)
<1> DEFINE left == ValueOf(Top)  S == {left}  kept == <<>>
<1>1. CanPop(1) /\ UNCHANGED <<symbols, fromItem>> /\ IsList(left)
  BY DEF Repeat
<1>2. PICK m \in 0..MaxItems : /\ m * Len(ItemsOf(left)) <= MaxItems
        /\ \E h \in NewLists(<<>>, m * Len(ItemsOf(left))) :
             Delete(h, OwnedBy("INTERPRETER", S), lastValue) /\ Replace(1, h.root)
  BY DEF Repeat
<1> DEFINE n == m * Len(ItemsOf(left))
<1>3. PICK h \in NewLists(kept, n) :
        Delete(h, OwnedBy("INTERPRETER", S), lastValue) /\ Replace(1, h.root)
  BY <1>2
<1>4. 1 \in 0..2 /\ 1 \in 1..2
  OBVIOUS
<1>5. /\ World(owner, box, items, symbols, Below(1), lastValue, fromItem)
      /\ \A w \in S : \E i \in 0..1 - 1 : w = ValueOf(stack[Height - i])
      /\ Height \in DOMAIN stack /\ Top = stack[Height] /\ left # Nil
  BY <1>1, <1>4, TopFacts
<1>6. n \in Nat /\ n <= MaxItems
  <2>1. Len(items[left]) \in Nat /\ ItemsOf(left) = items[left]
    BY <1>1, <1>5, ListFacts
  <2>2. Len(ItemsOf(left)) \in Nat /\ m \in Nat
    BY <2>1, Distinct
  <2> HIDE DEF left
  <2>3. \A x, y \in Nat : x * y \in Nat
    OBVIOUS
  <2> QED
    BY <1>2, <2>2, <2>3
<1>7. /\ kept \in Seq(Values) /\ Len(kept) = 0
      /\ \A i \in DOMAIN kept : kept[i] \in Literals
  BY EmptySeq
<1>8. Len(kept) + n <= MaxItems
  <2> HIDE DEF n
  <2> QED
    BY <1>6, <1>7
<1>9. \A i \in 0..1 - 1 : ValueOf(stack[Height - i]) \in S
  BY OnlyOperand
<1> HIDE DEF kept, n, S
<1>10. Grown(h, Below(1)) /\ Tidy(h)
  BY <1>5, <1>6, <1>7, <1>8, NewListsGrow, NewListsTidy
<1> QED
  BY <1>1, <1>3, <1>4, <1>5, <1>9, <1>10 DEF Pushes

LEMMA RepeatKeeps == ASSUME ContainerInv, Repeat PROVE ContainerInv'
  BY RepeatPushes, PushesKeeps

LEMMA TagNoItem ==
  ASSUME NEW own, NEW bx, NEW its, HeapOK(own, bx, its),
         NEW v, own[v] \notin {"OBJECT_VALUE", "VALUE_TOKEN"}
  PROVE  NoItem(its, v)
  BY DEF HeapOK, NoItem

\* What is on top is put into a container: it is the literal or the temporary
\* itself, or a copy.
LEMMA PoppedReady ==
  ASSUME ContainerInv, NEW k \in 1..2, CanPop(k), IsScalar(ValueOf(Top)), NEW g,
         \/ g \in Copies(ValueOf(Top))
         \/ g = Same(ValueOf(Top)) /\ owner[ValueOf(Top)] \in {"INTERPRETER", "VALUE_TOKEN"}
  PROVE  Ready(Raise(g, "OBJECT_VALUE"), Below(k)) /\ Raise(g, "OBJECT_VALUE").root = g.root
<1> DEFINE v == ValueOf(Top)
<1>1. /\ v \in Values /\ k <= Height /\ k \in 0..2
      /\ World(owner, box, items, symbols, Below(k), lastValue, fromItem)
      /\ ValueOf(Top) # Nil /\ Top = stack[Height] /\ 0 \in 0..k - 1 /\ Height - 0 = Height
  BY TopFacts, Popped
<1>2. owner[v] = "INTERPRETER" => Unseen(items, symbols, Below(k), lastValue, v)
  <2>1. v = ValueOf(stack[Height - 0])
    BY <1>1
  <2> HIDE DEF v
  <2> QED
    BY <1>1, <2>1, PoppedTemporary DEF v
<1> HIDE DEF v
<1> QED
  BY <1>1, <1>2, RaiseReady DEF v

\* A cell becomes a temporary container with a box of its own.
LEMMA ContainerGrows ==
  ASSUME NEW own, NEW stk, World(own, box, items, symbols, stk, lastValue, fromItem),
         NEW r \in Cells, own[r] = "FREED",
         NEW b, b = r \/ (b \in Tables /\ \A v \in Values : box[v] # b),
         NEW own2, own2 = [own EXCEPT ![r] = "INTERPRETER"],
         NEW s, Storable(own2, items, symbols, lastValue, fromItem, b, s),
         b \in Tables => Len(s) = 1
  PROVE  /\ World(own2, [box EXCEPT ![r] = b], [items EXCEPT ![b] = s], symbols, stk, lastValue, fromItem)
         /\ own2[r] = "INTERPRETER"
         /\ Unseen([items EXCEPT ![b] = s], symbols, stk, lastValue, r)
<1> DEFINE F == {r}  its2 == [items EXCEPT ![b] = s]  bx2 == [box EXCEPT ![r] = b]
<1>1. /\ own2 \in [Values -> Owners \cup {"FREED"}] /\ own2[r] = "INTERPRETER"
      /\ \A v \in Values \ F : own2[v] = own[v]
      /\ \A v \in F : own2[v] \in CellTags \ {"FREED"}
      /\ F \in SUBSET Cells /\ \A v \in F : own[v] = "FREED"
  BY Distinct DEF World, HeapOK, Owners, CellTags
<1>2. Unseen(items, symbols, stk, lastValue, r) /\ box[r] = Nil /\ \A v \in Values : box[v] # r
  BY FreedUnseen
<1> HIDE DEF F
<1>3. World(own2, box, items, symbols, stk, lastValue, fromItem)
  BY <1>1, AllocKeeps
<1>4. World(own2, bx2, its2, symbols, stk, lastValue, fromItem)
  BY <1>1, <1>2, <1>3, BoxKeeps DEF Unseen
<1> HIDE DEF its2, bx2
<1>5. NoItem(its2, r)
  BY <1>1, <1>4, TagNoItem DEF World
<1> QED
  BY <1>1, <1>2, <1>4, <1>5 DEF Unseen, its2, bx2

LEMMA OneItem ==
  ASSUME NEW v \in Values
  PROVE  <<v>> \in Seq(Values) /\ Len(<<v>>) = 1 /\ DOMAIN <<v>> = {1} /\ <<v>>[1] = v
  OBVIOUS

\* The list of r, h.root in it, in the heap h.
Listed(h, r) ==
  Heap(r, [h.own EXCEPT ![r] = "INTERPRETER"], [box EXCEPT ![r] = r], [items EXCEPT ![r] = <<h.root>>])

LEMMA CreateListMade ==
  ASSUME Sharing = {}, ContainerInv, CreateList
  PROVE  /\ 1 <= Height /\ UNCHANGED <<symbols, fromItem>>
         /\ \E h : \E r \in Cells :
              /\ Ready(h, Below(1)) /\ h.own[r] = "FREED" /\ r # h.root
              /\ owner[ValueOf(Top)] = "INTERPRETER" => h.root = ValueOf(Top)
              /\ LET g == Listed(h, r) IN
                   /\ World(g.own, g.bx, g.its, symbols, Below(1), lastValue, fromItem)
                   /\ g.own[r] = "INTERPRETER" /\ Unseen(g.its, symbols, Below(1), lastValue, r)
              /\ Delete(Listed(h, r), {}, lastValue) /\ Replace(1, r)
<1> DEFINE v == ValueOf(Top)
<1>1. /\ CanPop(1) /\ IsScalar(v) /\ owner[v] # "CONTEXT_VARIABLE"
      /\ UNCHANGED <<symbols, fromItem>>
  BY DEF CreateList, Listable
<1>2. PICK h \in Adopted(v) : \E r \in Fresh \ {h.root} :
       /\ Delete(Heap(r, [h.own EXCEPT ![r] = "INTERPRETER"], [h.bx EXCEPT ![r] = r],
                      [h.its EXCEPT ![r] = <<h.root>>]), {}, lastValue)
       /\ Replace(1, r)
  BY DEF CreateList
<1>3. PICK r \in Fresh \ {h.root} :
       /\ Delete(Heap(r, [h.own EXCEPT ![r] = "INTERPRETER"], [h.bx EXCEPT ![r] = r],
                      [h.its EXCEPT ![r] = <<h.root>>]), {}, lastValue)
       /\ Replace(1, r)
  BY <1>2
<1>4. 1 \in 1..2 /\ 1 \in 0..2
  OBVIOUS
<1>5. v \in Values /\ v # Nil /\ 1 <= Height /\ Height \in DOMAIN stack /\ Top = stack[Height]
  BY <1>1, <1>4, TopFacts
<1>6. owner[v] \in {"INTERPRETER", "VALUE_TOKEN", "OBJECT_VALUE"}
  <2>1. v # Empty /\ owner[v] # "FREED"
    BY <1>1, <1>5, ValueFacts DEF IsScalar
  <2> QED
    BY <1>1, <1>5, <2>1, Distinct DEF ContainerInv, HeapOK, CellTags
<1>7. PICK g : h = Raise(g, "OBJECT_VALUE") /\
        (g \in Copies(v) \/ (g = Same(v) /\ owner[v] \in {"INTERPRETER", "VALUE_TOKEN"}))
  BY <1>2, <1>6 DEF Adopted
<1>8. Ready(h, Below(1))
  BY <1>1, <1>4, <1>7, PoppedReady
<1> DEFINE own2 == [h.own EXCEPT ![r] = "INTERPRETER"]  s == <<h.root>>  own == h.own
<1>9. /\ h.bx = box /\ h.its = items /\ World(own, box, items, symbols, Below(1), lastValue, fromItem)
      /\ h.root \in Values /\ (h.root \in Cells \/ h.root \in Literals)
      /\ own[h.root] \in {"OBJECT_VALUE", "VALUE_TOKEN"}
      /\ \A w \in Values : w # h.root => own[w] = owner[w]
      /\ h.root \in Cells => Unseen(items, symbols, Below(1), lastValue, h.root)
  BY <1>8, Distinct DEF Ready, Raised, Heap
<1>10. r \in Cells /\ own[r] = "FREED"
  BY <1>9, Distinct DEF Fresh, Live
<1>11. own2[h.root] = own[h.root]
  BY <1>9 DEF World, HeapOK
<1>12. s \in Seq(Values) /\ Len(s) = 1 /\ DOMAIN s = {1} /\ s[1] = h.root
  BY <1>9, OneItem
<1>13. Delete(Heap(r, own2, [box EXCEPT ![r] = r], [items EXCEPT ![r] = s]), {}, lastValue)
  BY <1>3, <1>9
<1> HIDE DEF own, own2, s
<1>14. Storable(own2, items, symbols, lastValue, fromItem, r, s)
  BY <1>9, <1>11, <1>12, Distinct DEF Storable, Unseen, NoItem
<1>15. own2 = [own EXCEPT ![r] = "INTERPRETER"] /\ r \notin Tables
  BY <1>10, Distinct DEF own, own2
<1> DEFINE bx2 == [box EXCEPT ![r] = r]  its2 == [items EXCEPT ![r] = s]
           g2 == Heap(r, own2, bx2, its2)  dead == {}
<1>16. /\ World(own2, bx2, its2, symbols, Below(1), lastValue, fromItem)
       /\ own2[r] = "INTERPRETER"
       /\ Unseen(its2, symbols, Below(1), lastValue, r)
  <2>1. /\ World(own2, [box EXCEPT ![r] = r], [items EXCEPT ![r] = s], symbols, Below(1), lastValue, fromItem)
        /\ own2[r] = "INTERPRETER"
        /\ Unseen([items EXCEPT ![r] = s], symbols, Below(1), lastValue, r)
    <3> HIDE DEF bx2, its2, g2
    <3> DEFINE b == r
    <3>1. Storable(own2, items, symbols, lastValue, fromItem, b, s) /\ b = r /\ b \notin Tables
      BY <1>14, <1>15
    <3>2. World(own, box, items, symbols, Below(1), lastValue, fromItem)
      BY <1>9
    <3>3. own2 = [own EXCEPT ![r] = "INTERPRETER"]
      BY <1>15
    <3> HIDE DEF b
    <3> QED
      BY <1>10, <3>1, <3>2, <3>3, ContainerGrows
  <2> QED
    BY <2>1
<1>17. Listed(h, r) = g2
  BY <1>15 DEF Listed, own, s
<1>18. owner[v] = "INTERPRETER" => h.root = v
  <2>1. owner[v] = "INTERPRETER" => h = Raise(Same(v), "OBJECT_VALUE")
    BY <1>2 DEF Adopted
  <2> QED
    BY <2>1 DEF Raise, Same, Heap
<1>19. g2.own = own2 /\ g2.bx = bx2 /\ g2.its = its2 /\ Delete(g2, dead, lastValue) /\ Replace(1, r)
  BY <1>3, <1>13 DEF Heap
<1> HIDE DEF bx2, its2, g2
<1>20. /\ World(g2.own, g2.bx, g2.its, symbols, Below(1), lastValue, fromItem)
       /\ g2.own[r] = "INTERPRETER" /\ Unseen(g2.its, symbols, Below(1), lastValue, r)
  BY <1>16, <1>19
<1> QED
  BY <1>1, <1>5, <1>8, <1>10, <1>17, <1>18, <1>19, <1>20 DEF own

LEMMA CreateListKeeps == ASSUME Sharing = {}, ContainerInv, CreateList PROVE ContainerInv'
<1>1. 1 <= Height /\ UNCHANGED <<symbols, fromItem>>
  BY CreateListMade
<1> DEFINE Made(g, r) ==
             /\ World(g.own, g.bx, g.its, symbols, Below(1), lastValue, fromItem)
             /\ g.own[r] = "INTERPRETER" /\ Unseen(g.its, symbols, Below(1), lastValue, r)
             /\ Delete(g, {}, lastValue) /\ Replace(1, r)
<1>2. \E g : \E r \in Cells : Made(g, r)
  BY CreateListMade
<1>3. PICK g : \E r \in Cells : Made(g, r)
  BY <1>2
<1>4. PICK r \in Cells : Made(g, r)
  BY <1>3
<1> DEFINE dead == {}
<1>5. dead \in SUBSET Cells /\ (\A w \in dead : FALSE) /\ Delete(g, dead, lastValue) /\ 1 \in 0..2
  BY <1>4
<1> HIDE DEF dead
<1> QED
  BY <1>1, <1>4, <1>5, FinishKeeps

LEMMA CreateStructKeeps == ASSUME ContainerInv, CreateStruct PROVE ContainerInv'
<1> DEFINE v == ValueOf(Top)
<1>1. CanPop(1) /\ IsScalar(v) /\ UNCHANGED <<symbols, fromItem>>
  BY DEF CreateStruct, Memberable
<1>2. PICK g \in Adopted(v) : \E h \in NewStructs(g) : Delete(h, {}, lastValue) /\ Replace(1, h.root)
  BY DEF CreateStruct
<1>3. PICK h \in NewStructs(g) : Delete(h, {}, lastValue) /\ Replace(1, h.root)
  BY <1>2
<1>4. 1 \in 1..2 /\ 1 \in 0..2
  OBVIOUS
<1>5. v \in Values /\ v # Nil /\ 1 <= Height /\ Height \in DOMAIN stack /\ Top = stack[Height]
      /\ World(owner, box, items, symbols, Below(1), lastValue, fromItem)
  BY <1>1, <1>4, TopFacts
<1>6. owner[v] \in {"INTERPRETER", "VALUE_TOKEN", "OBJECT_VALUE", "CONTEXT_VARIABLE"}
  <2>1. v # Empty /\ owner[v] # "FREED"
    BY <1>1, <1>5, ValueFacts DEF IsScalar
  <2> QED
    BY <1>1, <1>5, <2>1, Distinct DEF ContainerInv, HeapOK, CellTags
<1>7. PICK f : g = Raise(f, "OBJECT_VALUE") /\
        (f \in Copies(v) \/ (f = Same(v) /\ owner[v] # "OBJECT_VALUE"))
  BY <1>2 DEF Adopted
<1>8. Raised(g, Below(1))
  <2>1. CASE owner[v] # "CONTEXT_VARIABLE" \/ f \in Copies(v)
    <3>1. f \in Copies(v) \/ (f = Same(v) /\ owner[v] \in {"INTERPRETER", "VALUE_TOKEN"})
      BY <1>6, <1>7, <2>1
    <3> QED
      BY <1>1, <1>4, <1>7, <3>1, PoppedReady DEF Ready
  <2>2. CASE owner[v] = "CONTEXT_VARIABLE" /\ f = Same(v)
    <3> DEFINE own2 == [owner EXCEPT ![v] = "OBJECT_VALUE"]
    <3>1. v \in Cells /\ box[v] = Nil
      BY <1>1, <1>5, <2>2, Distinct DEF ContainerInv, HeapOK, IsScalar
    <3>2. \A i \in DOMAIN Below(1) : Below(1)[i].tag = "value" => Below(1)[i].of # v
      BY <1>5, <2>2, <3>1 DEF World, StackOK
    <3> HIDE DEF v
    <3>3. World(own2, box, items, symbols, Below(1), lastValue, fromItem)
      BY <1>5, <2>2, <3>1, <3>2, TagKeeps
    <3>4. g = Heap(v, own2, box, items)
      BY <1>7, <2>2 DEF Raise, Same, Heap, OwnerRank
    <3>5. own2[v] = "OBJECT_VALUE" /\ \A w \in Values : w # v => own2[w] = owner[w]
      BY <3>1, Distinct DEF ContainerInv, HeapOK
    <3> HIDE DEF own2
    <3> QED
      BY <3>1, <3>3, <3>4, <3>5 DEF Raised, Heap
  <2> QED
    BY <1>7, <2>1, <2>2
<1>9. PICK r \in Fresh, m \in Fresh, t \in UnusedTables :
        /\ r # m /\ g.root \notin {r, m}
        /\ h = Heap(r, [g.own EXCEPT ![r] = "INTERPRETER", ![m] = "OBJECT_VALUE"],
                    [g.bx EXCEPT ![r] = t], [g.its EXCEPT ![t] = <<m>>])
  <2>1. PICK q \in {p \in Fresh \X Fresh : p[1] # p[2] /\ g.root \notin {p[1], p[2]}},
             t \in UnusedTables :
          h = Heap(q[1], [g.own EXCEPT ![q[1]] = "INTERPRETER", ![q[2]] = "OBJECT_VALUE"],
                   [g.bx EXCEPT ![q[1]] = t], [g.its EXCEPT ![t] = <<q[2]>>])
    <3> DEFINE G == {p \in Fresh \X Fresh : p[1] # p[2] /\ g.root \notin {p[1], p[2]}}
               H(q, t) == Heap(q[1], [g.own EXCEPT ![q[1]] = "INTERPRETER", ![q[2]] = "OBJECT_VALUE"],
                               [g.bx EXCEPT ![q[1]] = t], [g.its EXCEPT ![t] = <<q[2]>>])
    <3>1. NewStructs(g) = {H(q, t) : q \in G, t \in UnusedTables}
      BY DEF NewStructs
    <3> HIDE DEF G, H
    <3>2. h \in {H(q, t) : q \in G, t \in UnusedTables}
      BY <3>1
    <3>3. \E q \in G, t \in UnusedTables : h = H(q, t)
      BY <3>2
    <3> QED
      BY <3>3 DEF G, H
  <2>2. /\ q[1] \in Fresh /\ q[2] \in Fresh /\ q[1] # q[2] /\ g.root \notin {q[1], q[2]}
    OBVIOUS
  <2> QED
    BY <2>1, <2>2
<1> DEFINE own1 == [g.own EXCEPT ![m] = "OBJECT_VALUE"]
           own2 == [own1 EXCEPT ![r] = "INTERPRETER"]  s == <<m>>  F == {m}
           bx2 == [box EXCEPT ![r] = t]  its2 == [items EXCEPT ![t] = s]  dead == {}
<1>10. /\ g.bx = box /\ g.its = items
       /\ World(g.own, box, items, symbols, Below(1), lastValue, fromItem)
       /\ \A w \in Values : w # g.root => g.own[w] = owner[w]
  BY <1>8 DEF Raised, Heap
<1>11. /\ r \in Cells /\ m \in Cells /\ r # m /\ r \in Values /\ m \in Values
       /\ g.own[r] = "FREED" /\ g.own[m] = "FREED"
  BY <1>9, <1>10, Distinct DEF Fresh, Live
<1>12. /\ own1 \in [Values -> Owners \cup {"FREED"}] /\ own1[m] = "OBJECT_VALUE" /\ own1[r] = "FREED"
       /\ \A w \in Values \ F : own1[w] = g.own[w]
       /\ \A w \in F : own1[w] \in CellTags \ {"FREED"}
       /\ F \in SUBSET Cells /\ \A w \in F : g.own[w] = "FREED"
  BY <1>10, <1>11 DEF World, HeapOK, Owners, CellTags
<1>13. [g.own EXCEPT ![r] = "INTERPRETER", ![m] = "OBJECT_VALUE"] = own2
  BY <1>10, <1>11 DEF World, HeapOK
<1>14. h.root = r /\ h.own = own2 /\ h.bx = bx2 /\ h.its = its2
  BY <1>9, <1>10, <1>13 DEF Heap
<1>15. s \in Seq(Values) /\ Len(s) = 1 /\ DOMAIN s = {1} /\ s[1] = m
  BY <1>11, OneItem
<1>17. t \in Tables /\ \A w \in Values : box[w] # t
  BY DEF UnusedTables
<1>18. Unseen(items, symbols, Below(1), lastValue, m)
  BY <1>10, <1>11, FreedUnseen
<1>19. dead \in SUBSET Cells /\ (\A w \in dead : FALSE) /\ Delete(h, dead, lastValue) /\ Replace(1, r)
  BY <1>3, <1>14
<1> DEFINE own3 == own2
<1>20. own3 = [own1 EXCEPT ![r] = "INTERPRETER"] /\ own3 = own2
  OBVIOUS
<1>16. own3[m] = "OBJECT_VALUE"
  BY <1>11, <1>12
<1> HIDE DEF own3, own1, own2, s, F, bx2, its2, dead
<1>21. World(own1, box, items, symbols, Below(1), lastValue, fromItem)
  BY <1>10, <1>12, AllocKeeps
<1>22. Storable(own3, items, symbols, lastValue, fromItem, t, s)
  BY <1>11, <1>15, <1>16, <1>18, Distinct DEF Storable, Unseen, NoItem
<1>23. /\ World(own3, [box EXCEPT ![r] = t], [items EXCEPT ![t] = s], symbols, Below(1), lastValue, fromItem)
       /\ own3[r] = "INTERPRETER"
       /\ Unseen([items EXCEPT ![t] = s], symbols, Below(1), lastValue, r)
  BY <1>11, <1>12, <1>15, <1>17, <1>20, <1>21, <1>22, ContainerGrows
<1>24. /\ World(h.own, h.bx, h.its, symbols, Below(1), lastValue, fromItem)
       /\ h.own[r] = "INTERPRETER" /\ Unseen(h.its, symbols, Below(1), lastValue, r)
  BY <1>14, <1>20, <1>23 DEF bx2, its2
<1> QED
  BY <1>1, <1>4, <1>5, <1>11, <1>19, <1>24, FinishKeeps

\* h is the heap with a value of v's kind in it, its root, that a variable can have:
\* nothing but the tag of v itself is another, if v was a temporary.
Assigned(h, v) ==
  /\ World(h.own, h.bx, h.its, symbols, Below(1), lastValue, fromItem) /\ Tidy(h)
  /\ h.root \in Values /\ h.root # Empty /\ h.own[h.root] \notin {"FREED", "INTERPRETER"}
  /\ h.root \in Cells => h.own[h.root] = "CONTEXT_VARIABLE"
  /\ IsScalar(v) => h.bx[h.root] = Nil
  /\ IsList(v) => h.bx[h.root] = h.root
  /\ IsStruct(v) => h.bx[h.root] \in Tables
  /\ h.root \in Cells => NoItem(h.its, h.root) /\ \A m \in Names : symbols[m] # h.root
  /\ owner[v] = "INTERPRETER" => h.root = v
  /\ \A w \in Values : w # h.root /\ owner[w] # "FREED" => h.own[w] = owner[w]

LEMMA MovedAssigned ==
  ASSUME ContainerInv, 1 <= Height, ValueOf(Top) # Nil, Top.tag \notin ItemTags,
         IsScalar(ValueOf(Top)) \/ IsList(ValueOf(Top)) \/ IsStruct(ValueOf(Top)),
         NEW g \in Moved(Top)
  PROVE  Assigned(Raise(g, "CONTEXT_VARIABLE"), ValueOf(Top)) /\ Raise(g, "CONTEXT_VARIABLE").root = g.root
<1> DEFINE v == ValueOf(Top)  h == Raise(g, "CONTEXT_VARIABLE")
<1>1. /\ Height \in Nat /\ DOMAIN stack = 1..Height /\ 1 \in 0..2 /\ 0 \in 0..1 - 1 /\ Height - 0 = Height
      /\ Height \in DOMAIN stack
  <2>1. Height \in Nat /\ DOMAIN stack = 1..Height
    BY LenProperties DEF ContainerInv, StackOK, Height
  <2> QED
    BY <2>1
<1>2. World(owner, box, items, symbols, Below(1), lastValue, fromItem)
  BY <1>1, Popped
<1>3. /\ v \in Values /\ owner[v] # "FREED"
      /\ owner[v] = "INTERPRETER" => Top.tag = "value" /\ v = Top.of /\ Top.of \in Cells
      /\ Top.tag = "value" => v = Top.of
      /\ Top.tag = "value" \/ Top.tag = "name"
  BY <1>1, ValueFacts DEF Top
<1>4. owner[v] = "INTERPRETER" => Unseen(items, symbols, Below(1), lastValue, v)
  <2>1. v = ValueOf(stack[Height - 0])
    BY <1>1 DEF Top
  <2> HIDE DEF v
  <2> QED
    BY <1>1, <2>1, PoppedTemporary DEF v
<1>5. v # Empty
  BY Distinct DEF IsScalar, IsList, IsStruct, ContainerInv, HeapOK
<1> SUFFICES Assigned(h, v) /\ h.root = g.root
  OBVIOUS
<1> HIDE DEF v
<1>6. ASSUME NEW r \in Cells, g.root = r, g.own[r] = "INTERPRETER",
             World(g.own, g.bx, g.its, symbols, Below(1), lastValue, fromItem), Tidy(g),
             Unseen(g.its, symbols, Below(1), lastValue, r),
             IsScalar(v) => g.bx[r] = Nil,
             IsList(v) => g.bx[r] = r,
             IsStruct(v) => g.bx[r] \in Tables,
             \A w \in Values : owner[w] # "FREED" => g.own[w] = owner[w],
             g = Heap(r, g.own, g.bx, g.its),
             owner[v] = "INTERPRETER" => r = v
      PROVE  Assigned(h, v) /\ h.root = g.root
  <2> DEFINE own2 == [g.own EXCEPT ![r] = "CONTEXT_VARIABLE"]
  <2>1. h = Heap(r, own2, g.bx, g.its)
    BY <1>6 DEF Raise, Heap, OwnerRank
  <2>2. World(own2, g.bx, g.its, symbols, Below(1), lastValue, fromItem)
    BY <1>6, TagKeeps DEF Unseen
  <2>3. own2[r] = "CONTEXT_VARIABLE" /\ \A w \in Values : w # r => own2[w] = g.own[w]
    BY <1>6, Distinct DEF World, HeapOK
  <2>4. h.root = r /\ h.own = own2 /\ h.bx = g.bx /\ h.its = g.its
    BY <2>1 DEF Heap
  <2> HIDE DEF h, own2
  <2>5. Tidy(h)
    BY <1>6, <2>3, <2>4, Distinct DEF Tidy
  <2> QED
    BY <1>6, <2>2, <2>3, <2>4, <2>5, Distinct DEF Unseen, Assigned
<1>7. CASE Top.tag = "name"
  <2>1. g \in Copies(v)
    BY <1>7 DEF Moved, v
  <2>2. /\ Grown(g, Below(1)) /\ Tidy(g)
        /\ IsList(v) => g.bx[g.root] = g.root
        /\ IsStruct(v) => g.bx[g.root] \in Tables
        /\ box[v] = Nil => g.bx[g.root] = Nil
    BY <1>2, <1>3, <2>1, CopiesGrow, CopiesTidy
  <2>3. g = Heap(g.root, g.own, g.bx, g.its)
    <3>1. \A r, own, bx, its : Heap(r, own, bx, its) = Heap(Heap(r, own, bx, its).root,
            Heap(r, own, bx, its).own, Heap(r, own, bx, its).bx, Heap(r, own, bx, its).its)
      BY DEF Heap
    <3>2. \E r, own, bx, its : g = Heap(r, own, bx, its)
      BY <2>1 DEF Copies, NewLists, StructCopies, ScalarCopies
    <3> QED
      BY <3>1, <3>2
  <2>4. owner[v] # "INTERPRETER"
    BY <1>3, <1>7
  <2>5. IsScalar(v) => g.bx[g.root] = Nil
    BY <2>2 DEF IsScalar
  <2> HIDE DEF h
  <2> QED
    BY <1>6, <2>2, <2>3, <2>4, <2>5 DEF Grown
<1>8. CASE Top.tag = "value"
  <2>1. g = Heap(v, owner, box, items)
    BY <1>8 DEF Moved, v, Same
  <2>2. g.root = v /\ g.own = owner /\ g.bx = box /\ g.its = items
    BY <2>1 DEF Heap
  <2>3. Tidy(g)
    BY <2>2 DEF Tidy
  <2>4. CASE v \in Cells
    <3>1. owner[v] = "INTERPRETER"
      BY <1>1, <1>3, <1>8, <2>4 DEF ContainerInv, StackOK, Top
    <3>2. /\ IsScalar(v) => g.bx[v] = Nil
          /\ IsList(v) => g.bx[v] = v
          /\ IsStruct(v) => g.bx[v] \in Tables
      BY <2>2 DEF IsScalar, IsList, IsStruct
    <3>3. /\ Unseen(g.its, symbols, Below(1), lastValue, v)
          /\ World(g.own, g.bx, g.its, symbols, Below(1), lastValue, fromItem)
          /\ \A w \in Values : owner[w] # "FREED" => g.own[w] = owner[w]
          /\ g = Heap(v, g.own, g.bx, g.its) /\ g.root = v /\ g.own[v] = "INTERPRETER"
      BY <1>2, <1>4, <2>1, <2>2, <3>1
    <3> HIDE DEF h
    <3> QED
      BY <1>6, <2>3, <2>4, <3>2, <3>3
  <2>5. CASE v \notin Cells
    <3>1. owner[v] = "VALUE_TOKEN" /\ box[v] = Nil
      BY <1>3, <1>5, <2>5, Distinct DEF ContainerInv, HeapOK
    <3>2. h = g
      BY <2>1, <3>1 DEF Raise, Heap, OwnerRank
    <3> HIDE DEF h
    <3>3. /\ IsScalar(v) => h.bx[v] = Nil
          /\ IsList(v) => h.bx[v] = v
          /\ IsStruct(v) => h.bx[v] \in Tables
      BY <2>2, <3>2 DEF IsScalar, IsList, IsStruct
    <3>4. h.root = v /\ h.own = owner /\ h.bx = box /\ h.its = items /\ Tidy(h)
      BY <2>2, <2>3, <3>2
    <3> QED
      BY <1>2, <1>3, <1>5, <2>5, <3>1, <3>2, <3>3, <3>4 DEF Assigned
  <2> QED
    BY <2>4, <2>5
<1> QED
  BY <1>3, <1>7, <1>8

LEMMA AssignVariableKeeps == ASSUME Sharing = {}, ContainerInv, AssignVariable PROVE ContainerInv'
<1> DEFINE n == Second.of  v == ValueOf(Top)  old == symbols[n]
           dead == OwnedBy("CONTEXT_VARIABLE", {old})
           last == IF dead # {} THEN Forget(old) ELSE lastValue
<1>1. /\ Height >= 2 /\ v # Nil /\ Top.tag \notin ItemTags /\ Second.tag = "name"
      /\ \/ n \in Scalars /\ IsScalar(v)
         \/ n \in Lists /\ IsList(v)
         \/ n \in Structs /\ IsStruct(v)
      /\ \A i \in 1..Height - 2 : stack[i].tag = "element" => stack[i].of # old
      /\ stack' = Below(1) /\ UNCHANGED fromItem
  BY DEF AssignVariable, Assignable, Settled
<1>2. PICK g \in Moved(Top) :
       /\ Delete(Raise(g, "CONTEXT_VARIABLE"), dead, last)
       /\ symbols' = [symbols EXCEPT ![n] = g.root]
  BY DEF AssignVariable
<1> DEFINE h == Raise(g, "CONTEXT_VARIABLE")
<1>3. /\ Height \in Nat /\ DOMAIN stack = 1..Height /\ 1 \in 0..2 /\ 0 \in 0..1 - 1 /\ Height - 0 = Height
      /\ Height - 1 \in DOMAIN stack /\ 1 <= Height /\ Height \in DOMAIN stack
  <2>1. Height \in Nat /\ DOMAIN stack = 1..Height
    BY LenProperties DEF ContainerInv, StackOK, Height
  <2> QED
    BY <1>1, <2>1
<1>4. /\ World(owner, box, items, symbols, Below(1), lastValue, fromItem)
      /\ \A i \in DOMAIN Below(1) : i \in DOMAIN stack /\ i \in 1..Height - 1 /\ Below(1)[i] = stack[i]
  BY <1>3, Popped
<1>5. n \in Names
  <2>1. stack[Height - 1].tag = "name" => stack[Height - 1].of \in Names
    BY <1>3, OperandFacts DEF ContainerInv, StackOK
  <2> QED
    BY <1>1, <2>1 DEF Second
<1>6. /\ Assigned(h, v) /\ h.root = g.root
      /\ World(h.own, h.bx, h.its, symbols, Below(1), lastValue, fromItem)
      /\ h.root \in Values /\ h.root # Empty /\ h.own[h.root] \notin {"FREED", "INTERPRETER"}
      /\ h.root \in Cells => NoItem(h.its, h.root) /\ \A m \in Names : symbols[m] # h.root
      /\ \A w \in Values : owner[w] = "CONTEXT_VARIABLE" => h.own[w] = "CONTEXT_VARIABLE"
  <2>1. Assigned(h, v) /\ h.root = g.root
    BY <1>1, <1>3, MovedAssigned
  <2>2. \A w \in Values : owner[w] = "CONTEXT_VARIABLE" => w \in Cells
    BY Distinct DEF ContainerInv, HeapOK
  <2> HIDE DEF h, v
  <2> QED
    BY <2>1, <2>2 DEF Assigned
<1> HIDE DEF n, v, old, last
<1> DEFINE sym2 == [symbols EXCEPT ![n] = h.root]
<1>7. World(h.own, h.bx, h.its, sym2, Below(1), lastValue, fromItem)
  <2>1. /\ n \in Scalars => h.bx[h.root] = Nil
        /\ n \in Lists => h.bx[h.root] = h.root
        /\ n \in Structs => h.bx[h.root] \in Tables
    BY <1>1, <1>6, Distinct DEF n, v, Assigned
  <2> HIDE DEF h
  <2> QED
    BY <1>5, <1>6, <2>1, SymbolKeeps
<1>8. World(h.own, h.bx, h.its, sym2, Below(1), last, fromItem)
  <2>1. last = lastValue \/ last = Nil
    BY DEF last, Forget
  <2> HIDE DEF h, sym2
  <2> QED
    BY <1>7, <2>1, ForgetKeeps
<1>9. /\ sym2[n] = h.root /\ \A m \in Names : m # n => sym2[m] = symbols[m]
  BY <1>5 DEF ContainerInv, SymbolsOK
<1> HIDE DEF h, sym2
<1>10. ASSUME NEW w \in dead
       PROVE  w \in Cells /\ Unseen(h.its, sym2, Below(1), Nil, w) /\ last # w
  <2>1. w = old /\ w \in Values /\ owner[w] = "CONTEXT_VARIABLE"
    BY DEF OwnedBy
  <2>2. w \in Cells
    BY <2>1, Distinct DEF ContainerInv, HeapOK
  <2>3. h.own[w] = "CONTEXT_VARIABLE"
    BY <1>6, <2>1
  <2>4. NoItem(h.its, w)
    BY <1>6, <2>3, TagNoItem DEF World
  <2>5. \A m \in Names : sym2[m] # w
    <3>1. h.root # w
      BY <1>5, <1>6, <2>1, <2>2 DEF old
    <3>2. \A m \in Names : m # n => symbols[m] # w
      BY <1>5, <2>1, <2>2 DEF ContainerInv, SymbolsOK, old
    <3> QED
      BY <1>9, <3>1, <3>2
  <2>6. ASSUME NEW i \in DOMAIN Below(1), Below(1)[i].tag \in {"value", "element"}
        PROVE  Below(1)[i].of # w
    <3>1. i \in DOMAIN stack /\ i \in 1..Height - 1 /\ Below(1)[i] = stack[i]
      BY <1>4
    <3>2. stack[i].tag = "value" => stack[i].of # w
      BY <2>1, <2>2, <3>1 DEF ContainerInv, StackOK
    <3>3. ASSUME stack[i].tag = "element" PROVE stack[i].of # w
      <4>1. i # Height - 1
        BY <1>1, <3>3 DEF Second
      <4>2. i \in 1..Height - 2
        BY <1>3, <3>1, <4>1
      <4> QED
        BY <1>1, <2>1, <3>3, <4>2
    <3> QED
      BY <2>6, <3>1, <3>2, <3>3
  <2>7. last # w
    BY <2>1, <2>2, Distinct DEF last, Forget
  <2> QED
    BY <2>2, <2>4, <2>5, <2>6, <2>7, Distinct DEF Unseen
<1>11. dead \in SUBSET Cells /\ Delete(h, dead, last) /\ symbols' = sym2
  BY <1>2, <1>6, <1>10 DEF h, sym2
<1>12. World(owner', box', items', sym2, Below(1), lastValue', fromItem)
  <2> HIDE DEF dead
  <2> QED
    BY <1>8, <1>10, <1>11, DeleteKeeps
<1> QED
  BY <1>1, <1>11, <1>12 DEF ContainerInv, World

\* What is assigned to an element or a member is ready to be put there.
LEMMA MovedReady ==
  ASSUME ContainerInv, 1 <= Height, ValueOf(Top) # Nil, Top.tag \notin ItemTags,
         IsScalar(ValueOf(Top)), NEW g \in Moved(Top)
  PROVE  /\ Ready(Raise(g, "OBJECT_VALUE"), Below(1)) /\ Raise(g, "OBJECT_VALUE").root = g.root
         /\ owner[ValueOf(Top)] = "INTERPRETER" => g.root = ValueOf(Top)
<1> DEFINE v == ValueOf(Top)
<1>1. /\ Height \in Nat /\ DOMAIN stack = 1..Height /\ Height \in DOMAIN stack
      /\ 1 \in 1..2 /\ 1 \in 0..2 /\ 1 <= Height
  <2>1. Height \in Nat /\ DOMAIN stack = 1..Height
    BY LenProperties DEF ContainerInv, StackOK, Height
  <2> QED
    BY <2>1
<1>2. CanPop(1)
  <2>1. \A j \in 0..1 - 1 : Height - j = Height
    BY <1>1
  <2> QED
    BY <1>1, <2>1 DEF CanPop, Top
<1>3. /\ v \in Values /\ owner[v] # "FREED" /\ v # Empty
      /\ Top.tag = "value" => v = Top.of
      /\ owner[v] = "INTERPRETER" => Top.tag = "value"
      /\ Top.tag = "value" \/ Top.tag = "name"
  BY <1>1, ValueFacts DEF Top, IsScalar
<1>4. g \in Copies(v) \/ (g = Same(v) /\ owner[v] \in {"INTERPRETER", "VALUE_TOKEN"})
  <2>1. CASE Top.tag = "name"
    BY <2>1 DEF Moved
  <2>2. CASE Top.tag = "value"
    <3>1. g = Same(v)
      BY <2>2 DEF Moved
    <3>2. v \in Cells => owner[v] = "INTERPRETER"
      BY <1>1, <1>3, <2>2 DEF ContainerInv, StackOK, Top
    <3>3. v \in Literals => owner[v] = "VALUE_TOKEN"
      BY DEF ContainerInv, HeapOK
    <3> QED
      BY <1>3, <3>1, <3>2, <3>3, Distinct
  <2> QED
    BY <1>3, <2>1, <2>2
<1>5. owner[v] = "INTERPRETER" => g.root = v
  <2>1. owner[v] = "INTERPRETER" => g = Same(v)
    BY <1>3 DEF Moved
  <2> QED
    BY <2>1 DEF Same, Heap
<1> QED
  BY <1>1, <1>2, <1>4, <1>5, PoppedReady

\* The root of the heap h is put into the i-th place of box b.
Placed(h, b, i) == Heap(h.root, h.own, box, [items EXCEPT ![b] = [items[b] EXCEPT ![i] = h.root]])

LEMMA AssignItemMade ==
  ASSUME Sharing = {}, ContainerInv, NEW b \in Boxes, \E v \in Values : box[v] = b,
         NEW i \in DOMAIN items[b], AssignItem(b, i)
  PROVE  /\ ContainerInv'
         /\ 1 <= Height /\ stack' = Below(1) /\ UNCHANGED <<symbols, fromItem>>
         /\ \E h : /\ Ready(h, Below(1))
                   /\ owner[ValueOf(Top)] = "INTERPRETER" => h.root = ValueOf(Top)
                   /\ LET p == Placed(h, b, i) IN
                        HeapOK(p.own, p.bx, p.its)
                          /\ Delete(p, OwnedBy("OBJECT_VALUE", {items[b][i]}), Forget(items[b][i]))
<1> DEFINE held == items[b][i]  v == ValueOf(Top)
           dead == OwnedBy("OBJECT_VALUE", {held})  last == Forget(held)
<1>1. /\ Height >= 2 /\ v # Nil /\ Top.tag \notin ItemTags /\ IsScalar(v)
      /\ stack' = Below(1) /\ UNCHANGED <<symbols, fromItem>>
  BY DEF AssignItem, Assignable
<1>2. PICK g \in Moved(Top) :
       Delete([Raise(g, "OBJECT_VALUE") EXCEPT !.its[b][i] = g.root], dead, last)
  BY DEF AssignItem
<1> DEFINE h == Raise(g, "OBJECT_VALUE")
<1>3. Ready(h, Below(1)) /\ h.root = g.root /\ (owner[v] = "INTERPRETER" => h.root = v) /\ 1 <= Height
  <2>1. 1 <= Height
    BY <1>1, LenProperties DEF ContainerInv, StackOK, Height
  <2> QED
    BY <1>1, <2>1, MovedReady
<1> DEFINE own == h.own  root == h.root  s == [items[b] EXCEPT ![i] = root]
           its2 == [items EXCEPT ![b] = s]
           h2 == [h EXCEPT !.its[b][i] = g.root]
<1>4. /\ h = Heap(root, own, box, items) /\ World(own, box, items, symbols, Below(1), lastValue, fromItem)
      /\ root \in Values /\ (root \in Cells \/ root \in Literals)
      /\ own[root] \in {"OBJECT_VALUE", "VALUE_TOKEN"}
      /\ \A w \in Values : w # root => own[w] = owner[w]
      /\ root \in Cells => Unseen(items, symbols, Below(1), lastValue, root)
  BY <1>3, Distinct DEF Ready, Raised
<1>5. h2 = Placed(h, b, i)
  <2>1. h2 = [Heap(root, own, box, items) EXCEPT !.its[b][i] = g.root]
    BY <1>4
  <2> HIDE DEF h, own, root, h2
  <2> QED
    BY <1>3, <2>1 DEF Heap, Placed, root, own
<1>6. h2.own = own /\ h2.bx = box /\ h2.its = its2
  BY <1>5 DEF Placed, Heap
<1>7. Delete(h2, dead, last)
  BY <1>2
<1> HIDE DEF h, own, root, v, h2
<1>8. /\ items[b] \in Seq(Values) /\ DOMAIN items[b] = 1..Len(items[b]) /\ Len(items[b]) \in Nat
      /\ Len(items[b]) <= MaxItems /\ (b \in Tables => Len(items[b]) = 1)
  BY LenProperties DEF ContainerInv, HeapOK
<1>9. /\ s \in Seq(Values) /\ Len(s) = Len(items[b]) /\ DOMAIN s = DOMAIN items[b]
      /\ s[i] = root /\ \A j \in DOMAIN s : j # i => s[j] = items[b][j]
  BY <1>4, <1>8, ExceptSeq, LenProperties
<1> HIDE DEF s
<1>10. /\ held \in Values /\ owner[held] \in {"OBJECT_VALUE", "VALUE_TOKEN"}
       /\ (owner[held] = "OBJECT_VALUE" <=> held \in Cells)
  BY ItemFacts DEF ContainerInv
<1>11. \A c \in Boxes : \A j \in DOMAIN items[c] :
         items[c][j] \in Cells => items[c][j] # root /\ own[items[c][j]] = owner[items[c][j]]
  BY <1>4, Distinct DEF Unseen, NoItem
<1>12. World(own, box, items, symbols, Below(1), last, fromItem) /\ (last = Nil \/ (last = lastValue /\ last # held))
  <2>1. last = Nil \/ (last = lastValue /\ last # held)
    BY DEF Forget
  <2> HIDE DEF last
  <2> QED
    BY <1>4, <2>1, ForgetKeeps
<1> HIDE DEF last
<1>13. Storable(own, items, symbols, last, fromItem, b, s)
  <2>1. \A j \in DOMAIN s : own[s[j]] \in {"OBJECT_VALUE", "VALUE_TOKEN"}
    BY <1>4, <1>9 DEF World, HeapOK
  <2>2. \A j, k \in DOMAIN s : s[j] \in Cells /\ s[j] = s[k] => j = k
    <3>1. \A j \in DOMAIN items[b] : items[b][j] \in Cells => items[b][j] # root
      BY <1>11
    <3>2. \A j, k \in DOMAIN items[b] : items[b][j] \in Cells /\ items[b][j] = items[b][k] => j = k
      BY DEF ContainerInv, HeapOK
    <3> QED
      BY <1>9, <3>1, <3>2
  <2>3. ASSUME NEW j \in DOMAIN s, s[j] \in Cells
        PROVE  /\ \A c \in Boxes \ {b} : \A k \in DOMAIN items[c] : items[c][k] # s[j]
               /\ \A n \in Names : symbols[n] # s[j]
               /\ ~fromItem => last # s[j]
    <3>1. CASE j = i
      BY <1>4, <1>9, <1>12, <2>3, <3>1, Distinct DEF Unseen, NoItem
    <3>2. CASE j # i
      <4>1. s[j] = items[b][j] /\ j \in DOMAIN items[b]
        BY <1>9, <3>2
      <4>2. \A c \in Boxes \ {b} : \A k \in DOMAIN items[c] : items[c][k] # s[j]
        BY <2>3, <4>1 DEF ContainerInv, HeapOK
      <4>3. ~ NoItem(items, s[j])
        BY <4>1 DEF NoItem
      <4>4. \A n \in Names : symbols[n] # s[j]
        BY <2>3, <4>3, Distinct DEF ContainerInv, SymbolsOK
      <4>5. ~fromItem => last # s[j]
        BY <1>12, <2>3, <4>3, Distinct DEF ContainerInv, LastOK
      <4> QED
        BY <4>2, <4>4, <4>5
    <3> QED
      BY <3>1, <3>2
  <2> QED
    BY <1>8, <1>9, <2>1, <2>2, <2>3 DEF Storable
<1>14. \A j \in DOMAIN Below(1) : Below(1)[j].tag = "element" /\ Below(1)[j].of = b => Below(1)[j].at \in DOMAIN s
  BY <1>4, <1>9 DEF World, StackOK
<1>15. World(own, box, its2, symbols, Below(1), last, fromItem)
  <2>1. b \in Tables => Len(s) = 1
    BY <1>8, <1>9
  <2> QED
    BY <1>12, <1>13, <1>14, <2>1, PutKeeps
<1>16. ASSUME NEW w \in dead
       PROVE  w \in Cells /\ Unseen(its2, symbols, Below(1), Nil, w) /\ last # w
  <2>1. w = held /\ w \in Cells /\ owner[w] = "OBJECT_VALUE" /\ box[w] = Nil
    BY <1>10 DEF OwnedBy, ContainerInv, HeapOK
  <2>2. ~ NoItem(items, w)
    BY <2>1 DEF NoItem
  <2>3. NoItem(its2, w)
    <3>1. its2[b] = s /\ \A c \in Boxes : c # b => its2[c] = items[c]
      BY DEF ContainerInv, HeapOK
    <3>2. root # w
      BY <1>11, <2>1
    <3>3. \A c \in Boxes : \A j \in DOMAIN items[c] : items[c][j] = w => c = b /\ j = i
      BY <2>1 DEF ContainerInv, HeapOK
    <3> HIDE DEF its2
    <3> QED
      BY <1>9, <3>1, <3>2, <3>3 DEF NoItem
  <2>4. \A n \in Names : symbols[n] # w
    BY <2>1, <2>2, Distinct DEF ContainerInv, SymbolsOK
  <2>5. \A j \in DOMAIN Below(1) : Below(1)[j].tag \in {"value", "element"} => Below(1)[j].of # w
    <3>1. own[w] = "OBJECT_VALUE"
      BY <1>11, <2>1
    <3> QED
      BY <1>4, <2>1, <3>1, Distinct DEF World, StackOK
  <2>6. last # w
    BY <1>12, <2>1, Distinct
  <2> QED
    BY <2>1, <2>3, <2>4, <2>5, <2>6, Distinct DEF Unseen
<1>17. World(h2.own, h2.bx, h2.its, symbols, Below(1), last, fromItem)
  BY <1>15, <1>6
<1>18. dead \in SUBSET Cells /\ \A w \in dead : Unseen(h2.its, symbols, Below(1), Nil, w) /\ (last = w => fromItem)
  BY <1>16, <1>6
<1>19. World(owner', box', items', symbols, Below(1), lastValue', fromItem)
  <2> HIDE DEF dead
  <2> QED
    BY <1>7, <1>17, <1>18, DeleteKeeps
<1>20. ContainerInv'
  BY <1>1, <1>19 DEF ContainerInv, World
<1>21. HeapOK(h2.own, h2.bx, h2.its) /\ Delete(h2, dead, Forget(held))
  BY <1>7, <1>17 DEF World, last
<1> QED
  BY <1>1, <1>3, <1>5, <1>20, <1>21 DEF v

LEMMA SecondInStack ==
  ASSUME ContainerInv, Height >= 2
  PROVE  Height - 1 \in DOMAIN stack /\ Second = stack[Height - 1]
  BY LenProperties DEF ContainerInv, StackOK, Height, Second

\* The i-th place of box b is assigned to.
Target(b, i) == i \in DOMAIN items[b] /\ (\E v \in Values : box[v] = b) /\ AssignItem(b, i)

LEMMA AssignElementTarget ==
  ASSUME ContainerInv, AssignElement
  PROVE  \E b \in Boxes : \E i \in DOMAIN items[b] : Target(b, i)
<1> DEFINE b == Second.of  i == Second.at
<1>1. Second.tag = "element" /\ AssignItem(b, i) /\ Height - 1 \in DOMAIN stack /\ Second = stack[Height - 1]
  BY SecondInStack DEF AssignElement
<1>2. box[b] = b /\ i \in DOMAIN items[b] /\ b \in Values /\ b \in Boxes
  <2>1. Second.of \in Cells
    BY <1>1, OperandFacts DEF ContainerInv, StackOK
  <2> QED
    BY <1>1, <2>1, Distinct DEF ContainerInv, StackOK
<1> HIDE DEF b, i
<1> QED
  BY <1>1, <1>2 DEF Target

LEMMA AssignMemberTarget ==
  ASSUME ContainerInv, AssignMember
  PROVE  \E b \in Boxes : \E i \in DOMAIN items[b] : Target(b, i)
<1> DEFINE n == Second.of  b == box[symbols[n]]
<1>1. Second.tag = "member" /\ AssignItem(b, 1) /\ Height - 1 \in DOMAIN stack /\ Second = stack[Height - 1]
  BY SecondInStack DEF AssignMember
<1>2. n \in Structs /\ n \in Names /\ symbols[n] # Nil
  BY <1>1, OperandFacts, Distinct DEF ContainerInv, StackOK
<1>3. symbols[n] \in Values /\ b \in Tables /\ b \in Boxes
  BY <1>2, Distinct DEF ContainerInv, SymbolsOK
<1>4. 1 \in DOMAIN items[b]
  <2>1. items[b] \in Seq(Values) /\ Len(items[b]) = 1
    BY <1>3 DEF ContainerInv, HeapOK
  <2> HIDE DEF b
  <2> QED
    BY <2>1, LenProperties
<1>5. \E v \in Values : box[v] = b
  BY <1>3
<1> HIDE DEF b
<1> QED
  BY <1>1, <1>3, <1>4, <1>5 DEF Target

LEMMA AssignTargetKeeps ==
  ASSUME Sharing = {}, ContainerInv, AssignElement \/ AssignMember PROVE ContainerInv'
  BY AssignElementTarget, AssignMemberTarget, AssignItemMade DEF Target

\* A builtin has rewritten the list, which is its k-th operand: the elements of it
\* that die are in it no longer.
Rewrites(k, list, h, s, dead) ==
  /\ CanPop(k) /\ IsList(list)
  /\ \E j \in 0..k - 1 : list = ValueOf(stack[Height - j])
  /\ h = Heap(h.root, h.own, box, items)
  /\ World(h.own, box, items, symbols, Below(k), lastValue, fromItem)
  /\ \A v \in Values : owner[v] = "INTERPRETER" /\ box[v] # Nil => h.own[v] = owner[v]
  /\ Storable(h.own, items, symbols, lastValue, fromItem, list, s)
  /\ \A i \in DOMAIN Below(k) :
       Below(k)[i].tag = "element" /\ Below(k)[i].of = list => Below(k)[i].at \in DOMAIN s
  /\ \A v \in dead : /\ v \in Cells /\ h.own[v] = "OBJECT_VALUE"
                     /\ \E m \in DOMAIN items[list] : items[list][m] = v
                     /\ \A m \in DOMAIN s : s[m] # v
  /\ Rewrite(h, list, s, dead, k)

LEMMA RewriteKeeps ==
  ASSUME ContainerInv, NEW k \in 1..2, NEW list, NEW h, NEW s, NEW dead, Rewrites(k, list, h, s, dead)
  PROVE  /\ ContainerInv'
         /\ HeapOK(h.own, box, [items EXCEPT ![list] = s]) /\ list \in Boxes
         /\ dead \cup OwnedBy("INTERPRETER", {list}) \in SUBSET Cells
         /\ LET g == Heap(h.root, h.own, box, [items EXCEPT ![list] = s]) IN
              Delete(g, dead \cup OwnedBy("INTERPRETER", {list}), lastValue)
<1> USE DEF Rewrites
<1> DEFINE h2 == [h EXCEPT !.its[list] = s]  own == h.own  its2 == [items EXCEPT ![list] = s]
           temp == OwnedBy("INTERPRETER", {list})  all == dead \cup temp
<1>1. /\ Delete(h2, all, lastValue) /\ Replace(k, Empty) /\ UNCHANGED <<symbols, fromItem>>
  BY DEF Rewrite
<1>2. h2.own = own /\ h2.bx = box /\ h2.its = its2 /\ h2 = Heap(h.root, own, box, its2)
  <2>1. \A r, o : Heap(r, o, box, items).own = o /\ Heap(r, o, box, items).bx = box
          /\ Heap(r, o, box, items).its = items
          /\ [Heap(r, o, box, items) EXCEPT !.its[list] = s].own = o
          /\ [Heap(r, o, box, items) EXCEPT !.its[list] = s].bx = box
          /\ [Heap(r, o, box, items) EXCEPT !.its[list] = s].its = its2
          /\ [Heap(r, o, box, items) EXCEPT !.its[list] = s] = Heap(r, o, box, its2)
    BY DEF Heap
  <2>2. h2 = [Heap(h.root, own, box, items) EXCEPT !.its[list] = s]
    OBVIOUS
  <2> HIDE DEF own, its2, h2
  <2> QED
    BY <2>1, <2>2
<1>3. k \in 0..2 /\ k <= Height
  BY TopFacts
<1>4. PICK j \in 0..k - 1 : list = ValueOf(stack[Height - j])
  OBVIOUS
<1>5. /\ list \in Cells /\ list \in Boxes /\ list \in Values /\ box[list] = list /\ list \notin Tables
      /\ list # Nil
  <2>1. Height - j \in DOMAIN stack /\ ValueOf(stack[Height - j]) # Nil
    <3>1. Height \in Nat /\ DOMAIN stack = 1..Height
      BY <1>3, Popped
    <3>2. Height - j \in 1..Height
      BY <1>3, <3>1
    <3> QED
      BY <3>1, <3>2 DEF CanPop
  <2> QED
    BY <1>4, <2>1, ListFacts
<1> HIDE DEF own, its2, h2
<1>6. World(own, box, its2, symbols, Below(k), lastValue, fromItem)
  BY <1>5, PutKeeps DEF own, its2
<1>7. /\ its2[list] = s /\ \A c \in Boxes : c # list => its2[c] = items[c]
  BY <1>5 DEF ContainerInv, HeapOK, its2
<1>8. ASSUME NEW w \in dead
      PROVE  w \in Cells /\ Unseen(its2, symbols, Below(k), Nil, w) /\ (lastValue = w => fromItem)
  <2>1. /\ w \in Cells /\ own[w] = "OBJECT_VALUE" /\ \A i \in DOMAIN s : s[i] # w
        /\ \E i \in DOMAIN items[list] : items[list][i] = w
    BY DEF own
  <2>2. ~ NoItem(items, w) /\ box[w] = Nil
    BY <1>5, <2>1, ItemFacts DEF ContainerInv, NoItem
  <2>3. NoItem(its2, w)
    <3>1. \A c \in Boxes : \A i \in DOMAIN items[c] : items[c][i] = w => c = list
      BY <1>5, <2>1 DEF ContainerInv, HeapOK
    <3> QED
      BY <1>7, <2>1, <3>1 DEF NoItem
  <2>4. \A n \in Names : symbols[n] # w
    BY <2>1, <2>2, Distinct DEF ContainerInv, SymbolsOK
  <2>5. \A i \in DOMAIN Below(k) : Below(k)[i].tag \in {"value", "element"} => Below(k)[i].of # w
    BY <1>6, <2>1, <2>2, Distinct DEF World, StackOK
  <2>6. lastValue = w => fromItem
    BY <2>1, <2>2 DEF ContainerInv, LastOK
  <2> QED
    BY <2>1, <2>3, <2>4, <2>5, <2>6, Distinct DEF Unseen
<1>9. ASSUME NEW w \in temp
      PROVE  w \in Cells /\ Unseen(its2, symbols, Below(k), Nil, w) /\ (lastValue = w => fromItem)
  <2>1. w = list /\ owner[w] = "INTERPRETER"
    BY DEF OwnedBy
  <2>2. w \in Cells /\ Unseen(items, symbols, Below(k), lastValue, w)
    BY <1>3, <1>4, <1>5, <2>1, PoppedTemporary
  <2>3. own[w] = "INTERPRETER"
    BY <1>5, <2>1 DEF own
  <2>4. NoItem(its2, w)
    BY <1>6, <2>3, TagNoItem DEF World
  <2> QED
    BY <2>2, <2>4, Distinct DEF Unseen
<1>10. ASSUME NEW w \in all
       PROVE  /\ w \in Cells /\ Unseen(h2.its, symbols, Below(k), Nil, w)
              /\ (lastValue = w => fromItem) /\ w # Empty
  BY <1>2, <1>8, <1>9, Distinct
<1>11. all \in SUBSET Cells
  BY <1>10
<1>12. World(h2.own, h2.bx, h2.its, symbols, Below(k), lastValue, fromItem)
  BY <1>2, <1>6
<1>13. HeapOK(h.own, box, [items EXCEPT ![list] = s])
  BY <1>6 DEF World, own, its2
<1>14. LET g == Heap(h.root, h.own, box, [items EXCEPT ![list] = s]) IN Delete(g, all, lastValue)
  BY <1>1, <1>2 DEF own, its2
<1> DEFINE r == Empty
<1>15. r = Empty /\ Replace(k, r)
  BY <1>1
<1>16. ContainerInv'
  <2> HIDE DEF all, r
  <2> QED
    BY <1>1, <1>3, <1>10, <1>11, <1>12, <1>15, FinishKeeps
<1> QED
  BY <1>5, <1>11, <1>13, <1>14, <1>16

\* The values of a list, some of them left out and with others that are ready, can
\* be stored in it.
LEMMA KeptStorable ==
  ASSUME ContainerInv, NEW b \in Boxes, NEW own, NEW x,
         own[x] \in {"OBJECT_VALUE", "VALUE_TOKEN"},
         \A w \in Values : w # x => own[w] = owner[w],
         x \in Cells => /\ NoItem(items, x) /\ lastValue # x
                        /\ \A n \in Names : symbols[n] # x,
         NEW s \in Seq(Values), Len(s) <= MaxItems,
         \A i \in DOMAIN s : s[i] = x \/ \E j \in DOMAIN items[b] : s[i] = items[b][j],
         \A i, j \in DOMAIN s : s[i] \in Cells /\ s[i] = s[j] => i = j
  PROVE  Storable(own, items, symbols, lastValue, fromItem, b, s)
<1>1. ASSUME NEW i \in DOMAIN s
      PROVE  /\ own[s[i]] \in {"OBJECT_VALUE", "VALUE_TOKEN"}
             /\ s[i] \in Cells =>
                  /\ \A c \in Boxes \ {b} : \A j \in DOMAIN items[c] : items[c][j] # s[i]
                  /\ \A n \in Names : symbols[n] # s[i]
                  /\ ~fromItem => lastValue # s[i]
  <2>1. CASE s[i] = x
    BY <2>1 DEF NoItem
  <2>2. CASE s[i] # x
    <3>1. PICK j \in DOMAIN items[b] : s[i] = items[b][j]
      BY <2>2
    <3>2. s[i] \in Values /\ owner[s[i]] \in {"OBJECT_VALUE", "VALUE_TOKEN"}
      BY <3>1, ItemFacts DEF ContainerInv
    <3>3. ~ NoItem(items, s[i])
      BY <3>1 DEF NoItem
    <3>4. s[i] \in Cells => \A c \in Boxes \ {b} : \A k \in DOMAIN items[c] : items[c][k] # s[i]
      BY <3>1 DEF ContainerInv, HeapOK
    <3>5. s[i] \in Cells => \A n \in Names : symbols[n] # s[i]
      BY <3>3, Distinct DEF ContainerInv, SymbolsOK
    <3>6. s[i] \in Cells /\ ~fromItem => lastValue # s[i]
      BY <3>3 DEF ContainerInv, LastOK
    <3> QED
      BY <2>2, <3>2, <3>4, <3>5, <3>6
  <2> QED
    BY <2>1, <2>2
<1> QED
  BY <1>1 DEF Storable

\* The parts of a sequence.
LEMMA PartFacts ==
  ASSUME NEW s \in Seq(Values), NEW m \in Nat, NEW n \in Nat, m >= 1, n <= Len(s), m <= n + 1
  PROVE  /\ SubSeq(s, m, n) \in Seq(Values)
         /\ Len(SubSeq(s, m, n)) = n + 1 - m
         /\ \A i \in 1..n + 1 - m : SubSeq(s, m, n)[i] = s[m + i - 1]
<1>1. Len(s) \in Nat /\ \A i \in 1..Len(s) : s[i] \in Values
  BY LenProperties, ElementOfSeq
<1>2. \A i \in m..n : s[i] \in Values
  BY <1>1
<1>3. /\ SubSeq(s, m, n) \in Seq(Values)
      /\ Len(SubSeq(s, m, n)) = IF m <= n THEN n - m + 1 ELSE 0
      /\ \A i \in 1..n - m + 1 : SubSeq(s, m, n)[i] = s[m + i - 1]
  BY <1>2, SubSeqProperties
<1> QED
  BY <1>3

LEMMA InsertFacts ==
  ASSUME NEW s \in Seq(Values), NEW i \in 0..Len(s), NEW x \in Values
  PROVE  LET t == SubSeq(s, 1, i) \o <<x>> \o SubSeq(s, i + 1, Len(s)) IN
         /\ t \in Seq(Values) /\ Len(t) = Len(s) + 1
         /\ \A j \in 1..Len(s) + 1 :
              t[j] = IF j <= i THEN s[j] ELSE IF j = i + 1 THEN x ELSE s[j - 1]
<1> DEFINE a == SubSeq(s, 1, i)  c == SubSeq(s, i + 1, Len(s))  n == Len(s)
<1>1. n \in Nat /\ i \in Nat /\ i <= n /\ i + 1 \in Nat /\ i + 1 >= 1 /\ i + 1 <= n + 1
  BY LenProperties
<1>2. a \in Seq(Values) /\ Len(a) = i /\ \A j \in 1..i : a[j] = s[j]
  <2>1. i + 1 - 1 = i /\ \A j \in 1..i : 1 + j - 1 = j
    BY <1>1
  <2>2. /\ SubSeq(s, 1, i) \in Seq(Values)
        /\ Len(SubSeq(s, 1, i)) = i + 1 - 1
        /\ \A j \in 1..i + 1 - 1 : SubSeq(s, 1, i)[j] = s[1 + j - 1]
    BY <1>1, PartFacts
  <2> QED
    BY <2>1, <2>2
<1>3. c \in Seq(Values) /\ Len(c) = n - i /\ \A j \in 1..n - i : c[j] = s[i + j]
  <2> DEFINE m == i + 1
  <2>1. m \in Nat /\ m >= 1 /\ m <= n + 1 /\ n <= Len(s)
    BY <1>1
  <2>2. n + 1 - m = n - i /\ \A j \in 1..n - i : m + j - 1 = i + j
    BY <1>1
  <2> HIDE DEF m, n
  <2>3. /\ SubSeq(s, m, n) \in Seq(Values)
        /\ Len(SubSeq(s, m, n)) = n + 1 - m
        /\ \A j \in 1..n + 1 - m : SubSeq(s, m, n)[j] = s[m + j - 1]
    BY <1>1, <2>1, PartFacts
  <2> QED
    BY <2>2, <2>3 DEF m, n
<1> DEFINE d == a \o <<x>>  t == d \o c
<1> HIDE DEF a, c
<1>4. <<x>> \in Seq(Values) /\ Len(<<x>>) = 1 /\ <<x>>[1] = x
  BY OneItem
<1>5. d \in Seq(Values) /\ Len(d) = i + 1 /\ d[i + 1] = x /\ \A j \in 1..i : d[j] = s[j]
  <2>1. /\ d \in Seq(Values) /\ Len(d) = Len(a) + Len(<<x>>)
        /\ \A j \in 1..Len(a) + Len(<<x>>) : d[j] = IF j <= Len(a) THEN a[j] ELSE <<x>>[j - Len(a)]
    BY <1>2, <1>4, ConcatProperties
  <2>2. i + 1 \in 1..i + 1 /\ ~(i + 1 <= i) /\ (i + 1) - i = 1
    BY <1>1
  <2>3. \A j \in 1..i : j \in 1..i + 1 /\ j <= i
    BY <1>1
  <2> HIDE DEF d
  <2>4. \A j \in 1..i + 1 : d[j] = IF j <= i THEN a[j] ELSE <<x>>[j - i]
    BY <1>2, <1>4, <2>1
  <2> QED
    BY <1>2, <1>4, <2>1, <2>2, <2>3, <2>4
<1> HIDE DEF d
<1>6. /\ t \in Seq(Values) /\ Len(t) = Len(d) + Len(c)
      /\ \A j \in 1..Len(d) + Len(c) : t[j] = IF j <= Len(d) THEN d[j] ELSE c[j - Len(d)]
  BY <1>3, <1>5, ConcatProperties
<1>7. Len(d) + Len(c) = n + 1
  BY <1>1, <1>3, <1>5
<1> HIDE DEF t
<1>8. ASSUME NEW j \in 1..n + 1
      PROVE  t[j] = IF j <= i THEN s[j] ELSE IF j = i + 1 THEN x ELSE s[j - 1]
  <2>1. t[j] = IF j <= i + 1 THEN d[j] ELSE c[j - (i + 1)]
    BY <1>5, <1>6, <1>7
  <2>2. CASE j <= i
    <3>1. j \in 1..i /\ j <= i + 1
      BY <1>1, <2>2
    <3> QED
      BY <1>5, <2>1, <2>2, <3>1
  <2>3. CASE j = i + 1
    <3>1. j <= i + 1 /\ ~(j <= i)
      BY <1>1, <2>3
    <3> QED
      BY <1>5, <2>1, <2>3, <3>1
  <2>4. CASE j > i + 1
    <3> DEFINE k == j - (i + 1)
    <3>1. k \in 1..n - i /\ i + k = j - 1 /\ ~(j <= i + 1) /\ ~(j <= i) /\ j # i + 1
      BY <1>1, <2>4
    <3>2. t[j] = c[k]
      BY <2>1, <3>1
    <3> HIDE DEF k
    <3>3. c[k] = s[i + k]
      BY <1>3, <3>1
    <3> QED
      BY <3>1, <3>2, <3>3
  <2> QED
    BY <1>1, <2>2, <2>3, <2>4
<1> QED
  BY <1>6, <1>7, <1>8 DEF t, d, a, c

Without(s, i) == SubSeq(s, 1, i - 1) \o SubSeq(s, i + 1, Len(s))

LEMMA RemoveFacts ==
  ASSUME NEW s \in Seq(Values), NEW i \in 1..Len(s)
  PROVE  /\ Without(s, i) \in Seq(Values) /\ Len(Without(s, i)) = Len(s) - 1
         /\ \A j \in 1..Len(s) - 1 : Without(s, i)[j] = IF j < i THEN s[j] ELSE s[j + 1]
<1> DEFINE n == Len(s)  p == i - 1  m == i + 1
           a == SubSeq(s, 1, p)  c == SubSeq(s, m, n)  t == a \o c
<1>1. n \in Nat /\ p \in Nat /\ p <= n /\ m \in Nat /\ m >= 1 /\ m <= n + 1 /\ n <= Len(s)
      /\ 1 <= p + 1 /\ p <= Len(s)
  BY LenProperties
<1>2. p + 1 - 1 = p /\ (\A j \in 1..p : 1 + j - 1 = j)
      /\ n + 1 - m = n - i /\ \A j \in 1..n - i : m + j - 1 = i + j
  BY <1>1
<1> HIDE DEF n, p, m
<1>3. a \in Seq(Values) /\ Len(a) = p /\ \A j \in 1..p : a[j] = s[j]
  <2>1. /\ SubSeq(s, 1, p) \in Seq(Values) /\ Len(SubSeq(s, 1, p)) = p + 1 - 1
        /\ \A j \in 1..p + 1 - 1 : SubSeq(s, 1, p)[j] = s[1 + j - 1]
    BY <1>1, PartFacts
  <2> QED
    BY <1>2, <2>1
<1>4. c \in Seq(Values) /\ Len(c) = n - i /\ \A j \in 1..n - i : c[j] = s[i + j]
  <2>1. /\ SubSeq(s, m, n) \in Seq(Values) /\ Len(SubSeq(s, m, n)) = n + 1 - m
        /\ \A j \in 1..n + 1 - m : SubSeq(s, m, n)[j] = s[m + j - 1]
    BY <1>1, PartFacts
  <2> QED
    BY <1>2, <2>1
<1> HIDE DEF a, c
<1>5. /\ t \in Seq(Values) /\ Len(t) = Len(a) + Len(c)
      /\ \A j \in 1..Len(a) + Len(c) : t[j] = IF j <= Len(a) THEN a[j] ELSE c[j - Len(a)]
  BY <1>3, <1>4, ConcatProperties
<1>6. Len(a) + Len(c) = n - 1 /\ i \in 1..n
  BY <1>1, <1>3, <1>4 DEF n, p
<1> HIDE DEF t
<1>7. ASSUME NEW j \in 1..n - 1 PROVE t[j] = IF j < i THEN s[j] ELSE s[j + 1]
  <2>1. t[j] = IF j <= p THEN a[j] ELSE c[j - p]
    BY <1>3, <1>5, <1>6
  <2>2. CASE j < i
    <3>1. j \in 1..p /\ j <= p
      BY <1>1, <2>2 DEF p
    <3> QED
      BY <1>3, <2>1, <2>2, <3>1
  <2>3. CASE ~(j < i)
    <3> DEFINE k == j - p
    <3>1. k \in 1..n - i /\ i + k = j + 1 /\ ~(j <= p)
      BY <1>1, <1>6, <2>3 DEF p
    <3>2. t[j] = c[k]
      BY <2>1, <3>1
    <3> HIDE DEF k
    <3>3. c[k] = s[i + k]
      BY <1>4, <3>1
    <3> QED
      BY <2>3, <3>1, <3>2, <3>3
  <2> QED
    BY <2>2, <2>3
<1> QED
  BY <1>5, <1>6, <1>7 DEF Without, t, a, c, n, p, m

\* The list is its k-th operand, the topmost of them.
LEMMA ListOperand ==
  ASSUME ContainerInv, NEW k \in 1..2, CanPop(k), NEW e,
         e = Top \/ (k = 2 /\ e = Second), IsList(ValueOf(e))
  PROVE  LET list == ValueOf(e) IN
         /\ list \in Boxes /\ list \in Values /\ list \in Cells /\ box[list] = list /\ list # Nil
         /\ ItemsOf(list) = items[list] /\ items[list] \in Seq(Values)
         /\ Len(items[list]) \in Nat /\ Len(items[list]) <= MaxItems
         /\ DOMAIN items[list] = 1..Len(items[list])
         /\ owner[list] \in {"INTERPRETER", "CONTEXT_VARIABLE"}
         /\ \E j \in 0..k - 1 : list = ValueOf(stack[Height - j])
         /\ World(owner, box, items, symbols, Below(k), lastValue, fromItem)
         /\ Height \in Nat /\ \A i \in DOMAIN Below(k) : i \in 1..Height - k /\ Below(k)[i] = stack[i]
<1>1. /\ World(owner, box, items, symbols, Below(k), lastValue, fromItem)
      /\ k <= Height /\ k \in 0..2
      /\ \E j \in 0..k - 1 : ValueOf(e) = ValueOf(stack[Height - j])
      /\ \E i \in DOMAIN stack : e = stack[i]
      /\ ValueOf(e) # Nil
  BY TopFacts
<1>2. PICK i \in DOMAIN stack : e = stack[i]
  BY <1>1
<1> QED
  BY <1>1, <1>2, ListFacts, Popped

\* A list is rewritten and nothing of it is lost: neither an element, nor what was
\* put in, nor a temporary popped.
RewritesAll(k) ==
  \E list, h, s, dead :
    /\ Rewrites(k, list, h, s, dead)
    /\ \A j \in DOMAIN items[list] :
         items[list][j] \in Cells =>
           items[list][j] \in dead \/ \E m \in DOMAIN s : s[m] = items[list][j]
    /\ \A v \in Cells : h.own[v] = owner[v] \/ \E m \in DOMAIN s : s[m] = v
    /\ \A i \in 0..k - 1 :
         LET v == ValueOf(stack[Height - i]) IN
         owner[v] = "INTERPRETER" => v = list \/ \E m \in DOMAIN s : s[m] = v

LEMMA PushItemRewrites == ASSUME ContainerInv, PushItem PROVE RewritesAll(2)
<1> DEFINE list == ValueOf(Second)  s == items[list]  v == ValueOf(Top)  e == Second
<1>1. CanPop(2) /\ IsList(list) /\ IsScalar(v) /\ Len(ItemsOf(list)) < MaxItems /\ 2 \in 1..2
  BY DEF PushItem
<1>2. /\ list \in Boxes /\ list \in Values /\ list \in Cells /\ box[list] = list /\ list # Nil
      /\ ItemsOf(list) = s /\ s \in Seq(Values) /\ Len(s) \in Nat /\ DOMAIN s = 1..Len(s)
      /\ owner[list] \in {"INTERPRETER", "CONTEXT_VARIABLE"}
      /\ \E j \in 0..2 - 1 : list = ValueOf(stack[Height - j])
      /\ World(owner, box, items, symbols, Below(2), lastValue, fromItem)
  <2>1. IsList(ValueOf(e)) /\ list = ValueOf(e)
    BY <1>1
  <2> HIDE DEF e
  <2> QED
    BY <1>1, <2>1, ListOperand DEF e
<1>3. PICK h \in Stored(v), i \in 0..Len(s) :
        Rewrite(h, list, SubSeq(s, 1, i) \o <<h.root>> \o SubSeq(s, i + 1, Len(s)), {}, 2)
  BY <1>2 DEF PushItem
<1>4. v \in Values /\ v # Empty /\ owner[v] # "FREED"
  BY <1>1, TopFacts, ValueFacts DEF IsScalar
<1>5. owner[v] \in {"INTERPRETER", "VALUE_TOKEN", "CONTEXT_VARIABLE", "OBJECT_VALUE"}
  BY <1>4, Distinct DEF ContainerInv, HeapOK, CellTags
<1>6. PICK g : h = Raise(g, "OBJECT_VALUE") /\
        (g \in Copies(v) \/ (g = Same(v) /\ owner[v] \in {"INTERPRETER", "VALUE_TOKEN"}))
  BY <1>3, <1>5 DEF Stored
<1>7. Ready(h, Below(2))
  BY <1>1, <1>6, PoppedReady
<1> DEFINE root == h.root  t == SubSeq(s, 1, i) \o <<root>> \o SubSeq(s, i + 1, Len(s))  dead == {}
           own == h.own
<1>8. /\ h = Heap(root, own, box, items) /\ World(own, box, items, symbols, Below(2), lastValue, fromItem)
      /\ root \in Values /\ (root \in Cells \/ root \in Literals)
      /\ own[root] \in {"OBJECT_VALUE", "VALUE_TOKEN"}
      /\ \A w \in Values : w # root => own[w] = owner[w]
      /\ root \in Cells => Unseen(items, symbols, Below(2), lastValue, root)
  BY <1>7, Distinct DEF Ready, Raised
<1>9. /\ t \in Seq(Values) /\ Len(t) = Len(s) + 1
      /\ \A j \in 1..Len(s) + 1 :
           t[j] = IF j <= i THEN s[j] ELSE IF j = i + 1 THEN root ELSE s[j - 1]
  <2> HIDE DEF root, s
  <2> QED
    BY <1>2, <1>8, InsertFacts
<1>10. DOMAIN t = 1..Len(s) + 1
  BY <1>9, LenProperties
<1>11. Rewrite(h, list, t, dead, 2) /\ \A w \in dead : FALSE
  BY <1>3
<1> HIDE DEF t, dead, root, own, list, v
<1>12. ASSUME NEW j \in DOMAIN t
       PROVE  \/ j = i + 1 /\ t[j] = root
              \/ j <= i /\ j \in DOMAIN s /\ t[j] = s[j]
              \/ j > i + 1 /\ j - 1 \in DOMAIN s /\ t[j] = s[j - 1]
  <2>1. j \in 1..Len(s) + 1 /\ i \in 0..Len(s) /\ Len(s) \in Nat
    BY <1>2, <1>10
  <2>2. CASE j <= i
    <3>1. j \in 1..Len(s)
      BY <2>1, <2>2
    <3> QED
      BY <1>2, <1>9, <2>1, <2>2, <3>1
  <2>3. CASE j = i + 1
    <3>1. ~(j <= i)
      BY <2>1, <2>3
    <3> QED
      BY <1>9, <2>1, <2>3, <3>1
  <2>4. CASE j > i + 1
    <3>1. ~(j <= i) /\ j # i + 1 /\ j - 1 \in 1..Len(s)
      BY <2>1, <2>4
    <3> QED
      BY <1>2, <1>9, <2>1, <2>4, <3>1
  <2> QED
    BY <2>1, <2>2, <2>3, <2>4
<1>13. \A j \in DOMAIN t : t[j] = root \/ \E m \in DOMAIN s : t[j] = s[m]
  BY <1>12
<1>14. ASSUME NEW j \in DOMAIN t, NEW m \in DOMAIN t, t[j] \in Cells, t[j] = t[m]
       PROVE  j = m
  <2>1. \A p, q \in DOMAIN s : s[p] \in Cells /\ s[p] = s[q] => p = q
    BY <1>2 DEF ContainerInv, HeapOK
  <2>2. root \in Cells => \A p \in DOMAIN s : s[p] # root
    BY <1>2, <1>8 DEF Unseen, NoItem
  <2>3. j \in Int /\ m \in Int /\ i \in Int
    BY <1>2, <1>10
  <2>4. \/ j = i + 1 /\ t[j] = root
        \/ j <= i /\ j \in DOMAIN s /\ t[j] = s[j]
        \/ j > i + 1 /\ j - 1 \in DOMAIN s /\ t[j] = s[j - 1]
    BY <1>12
  <2>5. \/ m = i + 1 /\ t[m] = root
        \/ m <= i /\ m \in DOMAIN s /\ t[m] = s[m]
        \/ m > i + 1 /\ m - 1 \in DOMAIN s /\ t[m] = s[m - 1]
    BY <1>12
  <2> HIDE DEF s
  <2> QED
    BY <1>14, <2>1, <2>2, <2>3, <2>4, <2>5
<1>15. Storable(own, items, symbols, lastValue, fromItem, list, t)
  <2>1. root \in Cells => NoItem(items, root) /\ lastValue # root /\ \A n \in Names : symbols[n] # root
    BY <1>8 DEF Unseen
  <2>2. Len(t) <= MaxItems
    BY <1>1, <1>2, <1>9, Distinct DEF list
  <2> QED
    <3>1. /\ own[root] \in {"OBJECT_VALUE", "VALUE_TOKEN"}
          /\ \A w \in Values : w # root => own[w] = owner[w]
          /\ t \in Seq(Values) /\ list \in Boxes
      BY <1>2, <1>8, <1>9
    <3>2. \A j, m \in DOMAIN t : t[j] \in Cells /\ t[j] = t[m] => j = m
      BY <1>14
    <3> QED
      BY <1>13, <2>1, <2>2, <3>1, <3>2, KeptStorable
<1>16. \A w \in Values : owner[w] = "INTERPRETER" /\ box[w] # Nil => own[w] = owner[w]
  <2>1. box[root] = Nil
    BY <1>8 DEF World, HeapOK
  <2> QED
    BY <1>8, <2>1
<1>17. \A j \in DOMAIN Below(2) :
         Below(2)[j].tag = "element" /\ Below(2)[j].of = list => Below(2)[j].at \in DOMAIN t
  <2>1. \A j \in DOMAIN Below(2) :
          Below(2)[j].tag = "element" /\ Below(2)[j].of = list => Below(2)[j].at \in DOMAIN s
    BY <1>8 DEF World, StackOK
  <2>2. \A j \in DOMAIN s : j \in DOMAIN t
    BY <1>2, <1>10
  <2> QED
    BY <2>1, <2>2
<1>18. /\ h = Heap(h.root, h.own, box, items)
       /\ World(h.own, box, items, symbols, Below(2), lastValue, fromItem)
       /\ \A w \in Values : owner[w] = "INTERPRETER" /\ box[w] # Nil => h.own[w] = owner[w]
       /\ Storable(h.own, items, symbols, lastValue, fromItem, list, t)
  BY <1>8, <1>15, <1>16 DEF own, root
<1>19. Rewrites(2, list, h, t, dead)
  BY <1>1, <1>2, <1>11, <1>17, <1>18 DEF list, Rewrites
<1>20. \A m \in DOMAIN s : \E j \in DOMAIN t : t[j] = s[m]
  <2> SUFFICES ASSUME NEW m \in DOMAIN s PROVE \E j \in DOMAIN t : t[j] = s[m]
    OBVIOUS
  <2>1. m \in 1..Len(s) /\ Len(s) \in Nat /\ i \in 0..Len(s)
    BY <1>2 DEF list
  <2>2. CASE m <= i
    <3>1. m \in 1..Len(s) + 1
      BY <2>1
    <3> QED
      BY <1>9, <1>10, <2>2, <3>1
  <2>3. CASE ~(m <= i)
    <3> DEFINE j == m + 1
    <3>1. j \in 1..Len(s) + 1 /\ ~(j <= i) /\ j # i + 1 /\ j - 1 = m
      BY <2>1, <2>3
    <3> HIDE DEF j
    <3> QED
      BY <1>9, <1>10, <3>1
  <2> QED
    BY <2>2, <2>3
<1>21. \E j \in DOMAIN t : t[j] = root
  <2>1. i + 1 \in 1..Len(s) + 1 /\ ~(i + 1 <= i)
    BY <1>2
  <2> QED
    BY <1>9, <1>10, <2>1
<1>22. owner[v] = "INTERPRETER" => root = v
  <2>1. owner[v] = "INTERPRETER" => h = Raise(Same(v), "OBJECT_VALUE")
    BY <1>3 DEF Stored
  <2> QED
    BY <2>1 DEF Raise, Same, Heap, root
<1>23. \A j \in 0..2 - 1 :
         ValueOf(stack[Height - j]) = list \/ ValueOf(stack[Height - j]) = v
  <2>1. Height \in Nat
    BY LenProperties DEF ContainerInv, StackOK, Height
  <2>2. \A j \in 0..2 - 1 : j = 0 \/ j = 1
    OBVIOUS
  <2>3. Height - 0 = Height
    BY <2>1
  <2> QED
    BY <2>2, <2>3 DEF Top, Second, list, v
<1>24. \A w \in Cells : h.own[w] = owner[w] \/ \E m \in DOMAIN t : t[m] = w
  BY <1>8, <1>21, Distinct DEF own, root
<1> HIDE DEF s
<1> QED
  BY <1>19, <1>20, <1>21, <1>22, <1>23, <1>24 DEF RewritesAll, s

LEMMA RewritesAllKeeps == ASSUME ContainerInv, NEW k \in 1..2, RewritesAll(k) PROVE ContainerInv'
  BY RewriteKeeps DEF RewritesAll

\* The list on top is cut down to the values t of it.
LEMMA CutRewrites ==
  ASSUME Sharing = {}, ContainerInv, ListOnTop, Settled(ValueOf(Top), 1),
         NEW t \in Seq(Values), Len(t) <= MaxItems,
         \A j \in DOMAIN t : \E m \in DOMAIN items[ValueOf(Top)] : t[j] = items[ValueOf(Top)][m],
         \A j, m \in DOMAIN t : t[j] \in Cells /\ t[j] = t[m] => j = m,
         NEW dead, \A v \in dead : /\ v \in Cells /\ owner[v] = "OBJECT_VALUE"
                                   /\ \E j \in DOMAIN items[ValueOf(Top)] : items[ValueOf(Top)][j] = v
                                   /\ \A j \in DOMAIN t : t[j] # v,
         Rewrite(Same(ValueOf(Top)), ValueOf(Top), t, dead, 1)
  PROVE  Rewrites(1, ValueOf(Top), Same(ValueOf(Top)), t, dead)
<1> DEFINE list == ValueOf(Top)  h == Same(list)  e == Top  x == CHOOSE v \in Values : v = Empty
<1>1. CanPop(1) /\ IsList(list) /\ 1 \in 1..2
  BY DEF ListOnTop
<1>2. /\ list \in Boxes /\ list \in Values /\ list \in Cells /\ box[list] = list
      /\ \E j \in 0..1 - 1 : list = ValueOf(stack[Height - j])
      /\ World(owner, box, items, symbols, Below(1), lastValue, fromItem)
      /\ Height \in Nat /\ \A i \in DOMAIN Below(1) : i \in 1..Height - 1 /\ Below(1)[i] = stack[i]
  <2>1. IsList(ValueOf(e)) /\ list = ValueOf(e)
    BY <1>1
  <2> HIDE DEF e
  <2> QED
    BY <1>1, <2>1, ListOperand DEF e
<1>3. h.own = owner /\ h = Heap(h.root, h.own, box, items)
  BY DEF Same, Heap
<1>4. Storable(owner, items, symbols, lastValue, fromItem, list, t)
  <2>1. ASSUME NEW j \in DOMAIN t
        PROVE  /\ owner[t[j]] \in {"OBJECT_VALUE", "VALUE_TOKEN"}
               /\ t[j] \in Cells =>
                    /\ \A c \in Boxes \ {list} : \A m \in DOMAIN items[c] : items[c][m] # t[j]
                    /\ \A n \in Names : symbols[n] # t[j]
                    /\ ~fromItem => lastValue # t[j]
    <3>1. PICK m \in DOMAIN items[list] : t[j] = items[list][m]
      OBVIOUS
    <3> HIDE DEF list
    <3>2. owner[t[j]] \in {"OBJECT_VALUE", "VALUE_TOKEN"} /\ ~ NoItem(items, t[j])
      BY <1>2, <3>1 DEF ContainerInv, HeapOK, NoItem
    <3>3. t[j] \in Cells => \A c \in Boxes \ {list} : \A p \in DOMAIN items[c] : items[c][p] # t[j]
      BY <1>2, <3>1 DEF ContainerInv, HeapOK
    <3>4. t[j] \in Cells => \A n \in Names : symbols[n] # t[j]
      BY <3>2, Distinct DEF ContainerInv, SymbolsOK
    <3>5. t[j] \in Cells /\ ~fromItem => lastValue # t[j]
      BY <3>2 DEF ContainerInv, LastOK
    <3> QED
      BY <3>2, <3>3, <3>4, <3>5
  <2> QED
    BY <2>1 DEF Storable
<1>5. \A j \in DOMAIN Below(1) : Below(1)[j].tag = "element" => Below(1)[j].of # list
  BY <1>2 DEF Settled
<1>6. Rewrite(h, list, t, dead, 1)
  OBVIOUS
<1>7. \A v \in dead : /\ v \in Cells /\ owner[v] = "OBJECT_VALUE"
                      /\ \E j \in DOMAIN items[list] : items[list][j] = v
                      /\ \A j \in DOMAIN t : t[j] # v
  OBVIOUS
<1> HIDE DEF list, h
<1> QED
  BY <1>1, <1>2, <1>3, <1>4, <1>5, <1>6, <1>7 DEF Rewrites, list, h

LEMMA TopList ==
  ASSUME ContainerInv, ListOnTop
  PROVE  LET list == ValueOf(Top) IN
         /\ list \in Boxes /\ ItemsOf(list) = items[list] /\ items[list] \in Seq(Values)
         /\ Len(items[list]) \in Nat /\ Len(items[list]) <= MaxItems
         /\ DOMAIN items[list] = 1..Len(items[list])
         /\ \A j, m \in DOMAIN items[list] :
              items[list][j] \in Cells /\ items[list][j] = items[list][m] => j = m
         /\ \A j \in DOMAIN items[list] :
              owner[items[list][j]] = "OBJECT_VALUE" => items[list][j] \in Cells
<1> DEFINE list == ValueOf(Top)  e == Top
<1>1. CanPop(1) /\ IsList(ValueOf(e)) /\ 1 \in 1..2 /\ list = ValueOf(e)
  BY DEF ListOnTop
<1> HIDE DEF e
<1>2. /\ list \in Boxes /\ ItemsOf(list) = items[list] /\ items[list] \in Seq(Values)
      /\ Len(items[list]) \in Nat /\ Len(items[list]) <= MaxItems
      /\ DOMAIN items[list] = 1..Len(items[list])
  BY <1>1, ListOperand DEF e
<1> HIDE DEF list
<1>3. /\ \A j, m \in DOMAIN items[list] :
           items[list][j] \in Cells /\ items[list][j] = items[list][m] => j = m
      /\ \A j \in DOMAIN items[list] :
           owner[items[list][j]] = "OBJECT_VALUE" => items[list][j] \in Cells
  <2>1. HeapOK(owner, box, items)
    BY DEF ContainerInv
  <2>2. \A j \in DOMAIN items[list] :
          owner[items[list][j]] = "OBJECT_VALUE" => items[list][j] \in Cells
    BY <1>2, <2>1, ItemFacts
  <2>3. \A j, m \in DOMAIN items[list] :
          items[list][j] \in Cells /\ items[list][j] = items[list][m] => j = m
    BY <1>2, <2>1 DEF HeapOK
  <2> QED
    BY <2>2, <2>3
<1> QED
  BY <1>2, <1>3 DEF list

LEMMA PopItemKeeps == ASSUME Sharing = {}, ContainerInv, PopItem PROVE ContainerInv'
<1> DEFINE list == ValueOf(Top)  s == items[list]  n == Len(s) - 1  t == SubSeq(s, 1, n)  dead == {}
<1>1. /\ list \in Boxes /\ ItemsOf(list) = s /\ s \in Seq(Values)
      /\ Len(s) \in Nat /\ Len(s) <= MaxItems /\ DOMAIN s = 1..Len(s)
      /\ \A j, m \in DOMAIN s : s[j] \in Cells /\ s[j] = s[m] => j = m
  BY TopList DEF PopItem
<1>2. /\ ListOnTop /\ Settled(list, 1) /\ s # <<>>
      /\ Rewrite(Same(list), list, t, dead, 1)
  BY <1>1 DEF PopItem
<1> HIDE DEF s
<1>3. Len(s) # 0
  BY <1>1, <1>2, EmptySeq
<1>4. n \in Nat /\ n <= Len(s) /\ n <= MaxItems /\ n + 1 - 1 = n /\ 1 <= n + 1
      /\ \A j \in 1..n : 1 + j - 1 = j /\ j \in 1..Len(s)
  BY <1>1, <1>3, Distinct
<1> HIDE DEF n
<1>5. t \in Seq(Values) /\ Len(t) = n /\ \A j \in 1..n : t[j] = s[j]
  <2>1. /\ SubSeq(s, 1, n) \in Seq(Values) /\ Len(SubSeq(s, 1, n)) = n + 1 - 1
        /\ \A j \in 1..n + 1 - 1 : SubSeq(s, 1, n)[j] = s[1 + j - 1]
    BY <1>1, <1>4, PartFacts
  <2> QED
    BY <1>4, <2>1
<1> HIDE DEF t
<1>6. DOMAIN t = 1..n
  BY <1>5, LenProperties
<1>7. \A j \in DOMAIN t : j \in DOMAIN s /\ t[j] = s[j]
  BY <1>1, <1>4, <1>5, <1>6
<1>8. \A v \in dead : FALSE
  OBVIOUS
<1> HIDE DEF dead
<1>9. Rewrites(1, list, Same(list), t, dead)
  BY <1>1, <1>2, <1>4, <1>5, <1>7, <1>8, CutRewrites DEF s
<1>10. \E k \in 1..2 : \E l, h, u, d : Rewrites(k, l, h, u, d)
  BY <1>9
<1> QED
  BY <1>10, RewriteKeeps

LEMMA RemoveItemRewrites == ASSUME Sharing = {}, ContainerInv, RemoveItem PROVE RewritesAll(1)
<1> DEFINE list == ValueOf(Top)  s == items[list]
<1>1. /\ list \in Boxes /\ ItemsOf(list) = s /\ s \in Seq(Values)
      /\ Len(s) \in Nat /\ Len(s) <= MaxItems /\ DOMAIN s = 1..Len(s)
      /\ \A j, m \in DOMAIN s : s[j] \in Cells /\ s[j] = s[m] => j = m
      /\ \A j \in DOMAIN s : owner[s[j]] = "OBJECT_VALUE" => s[j] \in Cells
  BY TopList DEF RemoveItem
<1>2. ListOnTop /\ Settled(list, 1)
  BY DEF RemoveItem
<1>3. PICK i \in DOMAIN s :
        Rewrite(Same(list), list, SubSeq(s, 1, i - 1) \o SubSeq(s, i + 1, Len(s)),
                OwnedBy("OBJECT_VALUE", {s[i]}), 1)
  BY <1>1 DEF RemoveItem
<1> DEFINE t == Without(s, i)
           dead == OwnedBy("OBJECT_VALUE", {s[i]})
<1>4. Rewrite(Same(list), list, t, dead, 1)
  BY <1>3 DEF Without
<1>5. \A v \in dead : v = s[i] /\ owner[v] = "OBJECT_VALUE" /\ v \in Cells
  BY <1>1 DEF OwnedBy
<1> HIDE DEF s, dead
<1>6. i \in 1..Len(s)
  BY <1>1
<1>7. /\ t \in Seq(Values) /\ Len(t) = Len(s) - 1
      /\ \A j \in 1..Len(s) - 1 : t[j] = IF j < i THEN s[j] ELSE s[j + 1]
  <2>1. s \in Seq(Values)
    BY <1>1
  <2> HIDE DEF t
  <2> QED
    BY <1>6, <2>1, RemoveFacts DEF t
<1> HIDE DEF t
<1>8. DOMAIN t = 1..Len(s) - 1
  BY <1>7, LenProperties
<1>9. ASSUME NEW j \in DOMAIN t
      PROVE  \/ j < i /\ j \in DOMAIN s /\ t[j] = s[j]
             \/ j >= i /\ j + 1 \in DOMAIN s /\ t[j] = s[j + 1]
  <2>1. j \in 1..Len(s) - 1 /\ Len(s) \in Nat /\ j \in 1..Len(s) /\ j + 1 \in 1..Len(s)
    BY <1>1, <1>8
  <2>2. CASE j < i
    BY <1>1, <1>7, <2>1, <2>2
  <2>3. CASE ~(j < i)
    <3>1. j >= i
      BY <1>6, <2>1, <2>3
    <3> QED
      BY <1>1, <1>7, <2>1, <2>3, <3>1
  <2> QED
    BY <2>2, <2>3
<1>10. ASSUME NEW j \in DOMAIN t, NEW m \in DOMAIN t, t[j] \in Cells, t[j] = t[m] PROVE j = m
  <2>1. j \in Int /\ m \in Int /\ i \in Int
    BY <1>1, <1>6, <1>8
  <2>2. \/ j < i /\ j \in DOMAIN s /\ t[j] = s[j]
        \/ j >= i /\ j + 1 \in DOMAIN s /\ t[j] = s[j + 1]
    BY <1>9
  <2>3. \/ m < i /\ m \in DOMAIN s /\ t[m] = s[m]
        \/ m >= i /\ m + 1 \in DOMAIN s /\ t[m] = s[m + 1]
    BY <1>9
  <2>4. \A p, q \in DOMAIN s : s[p] \in Cells /\ s[p] = s[q] => p = q
    BY <1>1
  <2> QED
    BY <1>10, <2>1, <2>2, <2>3, <2>4
<1>11. ASSUME NEW v \in dead
       PROVE  /\ v \in Cells /\ owner[v] = "OBJECT_VALUE"
              /\ \E j \in DOMAIN s : s[j] = v
              /\ \A j \in DOMAIN t : t[j] # v
  <2>1. v = s[i] /\ owner[v] = "OBJECT_VALUE" /\ v \in Cells
    BY <1>5
  <2>2. ASSUME NEW j \in DOMAIN t PROVE t[j] # v
    <3>1. \/ j < i /\ j \in DOMAIN s /\ t[j] = s[j]
          \/ j >= i /\ j + 1 \in DOMAIN s /\ t[j] = s[j + 1]
      BY <1>9
    <3>2. j \in Int /\ i \in Int
      BY <1>1, <1>6, <1>8
    <3> QED
      BY <1>1, <2>1, <3>1, <3>2
  <2> QED
    BY <2>1, <2>2
<1>12. Len(t) <= MaxItems
  BY <1>1, <1>7, Distinct
<1>13. \A j \in DOMAIN t : \E m \in DOMAIN s : t[j] = s[m]
  BY <1>9
<1>14. Rewrites(1, list, Same(list), t, dead)
  BY <1>2, <1>4, <1>7, <1>10, <1>11, <1>12, <1>13, CutRewrites DEF s
<1>15. ASSUME NEW j \in DOMAIN s, s[j] \in Cells PROVE s[j] \in dead \/ \E m \in DOMAIN t : t[m] = s[j]
  <2>1. j \in 1..Len(s) /\ Len(s) \in Nat /\ i \in 1..Len(s)
    BY <1>1, <1>6
  <2>2. CASE j = i
    <3>1. owner[s[i]] = "OBJECT_VALUE" /\ s[i] \in Values
      BY <1>1, <1>6, <1>15, <2>2, ItemFacts, Distinct DEF s, ContainerInv
    <3> QED
      BY <2>2, <3>1 DEF dead, OwnedBy
  <2>3. CASE j < i
    <3>1. j \in 1..Len(s) - 1
      BY <2>1, <2>3
    <3> QED
      BY <1>7, <1>8, <2>3, <3>1
  <2>4. CASE j > i
    <3> DEFINE m == j - 1
    <3>1. m \in 1..Len(s) - 1 /\ ~(m < i) /\ m + 1 = j
      BY <2>1, <2>4
    <3> HIDE DEF m
    <3> QED
      BY <1>7, <1>8, <3>1
  <2> QED
    BY <2>1, <2>2, <2>3, <2>4
<1> QED
  BY <1>14, <1>15, OnlyOperand DEF RewritesAll, Same, Heap, s

LEMMA ClearListRewrites == ASSUME Sharing = {}, ContainerInv, ClearList PROVE RewritesAll(1)
<1> DEFINE list == ValueOf(Top)  s == items[list]  t == <<>>
           dead == OwnedBy("OBJECT_VALUE", RangeOf(s))
<1>1. /\ ItemsOf(list) = s
      /\ \A j \in DOMAIN s : owner[s[j]] = "OBJECT_VALUE" => s[j] \in Cells
  BY TopList DEF ClearList
<1>2. ListOnTop /\ Settled(list, 1) /\ Rewrite(Same(list), list, t, dead, 1)
  BY <1>1 DEF ClearList
<1>3. t \in Seq(Values) /\ Len(t) <= MaxItems /\ DOMAIN t = {}
  BY EmptySeq, Distinct
<1>4. \A v \in dead : v \in Cells /\ owner[v] = "OBJECT_VALUE" /\ \E j \in DOMAIN s : s[j] = v
  BY <1>1 DEF OwnedBy, RangeOf
<1> HIDE DEF t, dead
<1>5. Rewrites(1, list, Same(list), t, dead)
  BY <1>2, <1>3, <1>4, CutRewrites
<1>6. \A j \in DOMAIN s : s[j] \in Cells => s[j] \in dead
  <2>1. HeapOK(owner, box, items) /\ list \in Boxes
    BY TopList DEF ContainerInv, ClearList
  <2>2. \A j \in DOMAIN s : s[j] \in Cells => owner[s[j]] = "OBJECT_VALUE" /\ s[j] \in Values
    BY <2>1, ItemFacts
  <2> QED
    BY <2>2 DEF dead, OwnedBy, RangeOf
<1> QED
  BY <1>5, <1>6, OnlyOperand DEF RewritesAll, Same, Heap

-----------------------------------------------------------------------------
(* The theorems *)

LEMMA InitInv == Init => ContainerInv
<1> SUFFICES ASSUME Init PROVE ContainerInv
  OBVIOUS
<1> DEFINE none == <<>>
<1>1. /\ owner = [v \in Values |-> IF v \in Literals THEN "VALUE_TOKEN"
                                    ELSE IF v = Empty THEN "EMPTY_VALUE" ELSE "FREED"]
      /\ box = [v \in Values |-> Nil] /\ items = [b \in Boxes |-> none]
      /\ symbols = [n \in Names |-> Nil] /\ stack = none /\ lastValue = Nil /\ fromItem = FALSE
  BY DEF Init
<1>2. none \in Seq(Values) /\ none \in Seq(OperandTypes) /\ DOMAIN none = {} /\ Len(none) = 0
  BY EmptySeq
<1> HIDE DEF none
<1>3. HeapOK(owner, box, items)
  BY <1>1, <1>2, Distinct DEF HeapOK, Owners, CellTags
<1>4. SymbolsOK(owner, box, items, symbols)
  BY <1>1, Distinct DEF SymbolsOK
<1>5. StackOK(owner, box, items, symbols, stack)
  BY <1>1, <1>2 DEF StackOK
<1>6. LastOK(owner, items, stack, lastValue, fromItem)
  BY <1>1, Distinct DEF LastOK
<1> QED
  BY <1>3, <1>4, <1>5, <1>6 DEF ContainerInv

LEMMA NextInv == ASSUME Sharing = {}, ContainerInv, [Next]_vars PROVE ContainerInv'
<1>1. CASE UNCHANGED vars
  BY <1>1 DEF vars, ContainerInv
<1>2. CASE Next
  BY <1>2, PushOperandKeeps, GetKeeps, ComputeKeeps, CallBuiltinKeeps, CompareKeeps,
     EndOfLineKeeps, CreateEmptyListKeeps, CreateListKeeps, CreateStructKeeps,
     ConcatenateKeeps, RepeatKeeps, AssignVariableKeeps, AssignTargetKeeps,
     PushItemRewrites, PopItemKeeps, RemoveItemRewrites, ClearListRewrites, RewritesAllKeeps
     DEF Next
<1> QED
  BY <1>1, <1>2

\* In programs without the sharing constructs, a value that waits is one operand's,
\* what a container holds is in that place alone, a variable's value is no other's:
\* the tags of the code (ValueOwner) tell who deletes what.
THEOREM ContainerInvAlways == Sharing = {} => (Spec => []ContainerInv)
<1> SUFFICES ASSUME Sharing = {} PROVE Spec => []ContainerInv
  OBVIOUS
<1> QED
  BY InitInv, NextInv, PTL DEF Spec

LEMMA InvTypeOK == ContainerInv => TypeOK
<1> SUFFICES ASSUME ContainerInv PROVE TypeOK
  OBVIOUS
<1> QED
  BY DEF ContainerInv, HeapOK, SymbolsOK, StackOK, LastOK, TypeOK

LEMMA InvNothingDangles == ContainerInv => NothingDangles
<1> SUFFICES ASSUME ContainerInv PROVE NothingDangles
  OBVIOUS
<1>1. HeapOK(owner, box, items) /\ StackOK(owner, box, items, symbols, stack)
  BY DEF ContainerInv
<1>2. \A n \in Names : symbols[n] # Nil => Live(symbols[n])
  BY DEF ContainerInv, SymbolsOK, Live
<1>3. ASSUME NEW c \in Contents, NEW v \in RangeOf(ItemsOf(c)) PROVE Live(v)
  <2>1. box[c] \in Boxes
    BY <1>1 DEF HeapOK, Contents
  <2>2. PICK i \in DOMAIN items[box[c]] : v = items[box[c]][i]
    BY DEF RangeOf, ItemsOf
  <2> QED
    BY <1>1, <2>1, <2>2 DEF HeapOK, Live
<1>4. ASSUME NEW i \in DOMAIN stack, stack[i].tag = "value" PROVE Live(stack[i].of)
  <2>1. stack[i].of \in Values
    BY <1>1, <1>4, OperandFacts DEF StackOK
  <2>2. stack[i].of \in Cells => owner[stack[i].of] = "INTERPRETER"
    BY <1>1, <1>4 DEF StackOK
  <2> QED
    BY <1>1, <2>1, <2>2, Distinct DEF HeapOK, Live
<1>5. ASSUME NEW i \in DOMAIN stack, stack[i].tag = "element"
      PROVE  Live(stack[i].of) /\ IsList(stack[i].of) /\ stack[i].at \in DOMAIN items[stack[i].of]
  <2>1. box[stack[i].of] = stack[i].of /\ stack[i].at \in DOMAIN items[stack[i].of]
    BY <1>1, <1>5 DEF StackOK
  <2>2. stack[i].of \in Cells
    BY <1>1, <1>5, OperandFacts DEF StackOK
  <2>3. owner[stack[i].of] \in {"INTERPRETER", "CONTEXT_VARIABLE"}
    BY <1>1, <2>1, <2>2, Distinct DEF HeapOK
  <2> QED
    BY <2>1, <2>3 DEF Live, IsList
<1> QED
  BY <1>2, <1>3, <1>4, <1>5 DEF NothingDangles

LEMMA InvOneHolder == ContainerInv => OneHolder
<1> SUFFICES ASSUME ContainerInv, NEW v \in Cells, NEW p \in Holders(v), NEW q \in Holders(v)
             PROVE  p = q
  BY DEF OneHolder
<1>1. HeapOK(owner, box, items) /\ SymbolsOK(owner, box, items, symbols)
      /\ StackOK(owner, box, items, symbols, stack)
  BY DEF ContainerInv
<1> DEFINE BySymbol(h) == \E n \in Names : h = <<"symbol", n>> /\ symbols[n] = v
           ByOperand(h) == \E i \in DOMAIN stack : h = <<"operand", i>> /\ stack[i] = Operand("value", v)
           ByItem(h) == \E b \in Boxes : \E i \in DOMAIN items[b] : h = <<"item", b, i>> /\ items[b][i] = v
<1>2. ASSUME NEW h \in Holders(v) PROVE BySymbol(h) \/ ByOperand(h) \/ ByItem(h)
  <2>1. \/ h \in {<<"symbol", n>> : n \in {m \in Names : symbols[m] = v}}
        \/ h \in {<<"operand", i>> : i \in {j \in DOMAIN stack : stack[j] = Operand("value", v)}}
        \/ h \in UNION {{<<"item", b, i>> : i \in {j \in DOMAIN items[b] : items[b][j] = v}} :
                        b \in {box[c] : c \in Contents}}
    BY DEF Holders
  <2>2. CASE h \in UNION {{<<"item", b, i>> : i \in {j \in DOMAIN items[b] : items[b][j] = v}} :
                          b \in {box[c] : c \in Contents}}
    <3>1. PICK b \in {box[c] : c \in Contents} :
            h \in {<<"item", b, i>> : i \in {j \in DOMAIN items[b] : items[b][j] = v}}
      BY <2>2
    <3>2. b \in Boxes
      BY <1>1 DEF HeapOK, Contents
    <3> QED
      BY <3>1, <3>2
  <2> QED
    BY <2>1, <2>2
<1>3. ASSUME NEW h, BySymbol(h) PROVE owner[v] # "INTERPRETER" /\ NoItem(items, v)
  BY <1>1, <1>3, Distinct DEF SymbolsOK
<1>4. ASSUME NEW h, ByOperand(h) PROVE owner[v] = "INTERPRETER"
  BY <1>1, <1>4 DEF StackOK, Operand
<1>5. ASSUME NEW h, ByItem(h) PROVE owner[v] # "INTERPRETER" /\ ~ NoItem(items, v)
  BY <1>1, <1>5 DEF HeapOK, NoItem
<1>6. BySymbol(p) \/ ByOperand(p) \/ ByItem(p)
  BY <1>2
<1>7. BySymbol(q) \/ ByOperand(q) \/ ByItem(q)
  BY <1>2
<1>8. CASE BySymbol(p) /\ BySymbol(q)
  BY <1>1, <1>8 DEF SymbolsOK
<1>9. CASE ByOperand(p) /\ ByOperand(q)
  <2>1. PICK i \in DOMAIN stack : p = <<"operand", i>> /\ stack[i] = Operand("value", v)
    BY <1>9
  <2>2. PICK j \in DOMAIN stack : q = <<"operand", j>> /\ stack[j] = Operand("value", v)
    BY <1>9
  <2>3. stack[i].tag = "value" /\ stack[i].of = v /\ stack[j].tag = "value" /\ stack[j].of = v
    BY <2>1, <2>2 DEF Operand
  <2>4. i = j
    BY <1>1, <2>3 DEF StackOK
  <2> QED
    BY <2>1, <2>2, <2>4
<1>10. CASE ByItem(p) /\ ByItem(q)
  BY <1>1, <1>10 DEF HeapOK
<1> HIDE DEF BySymbol, ByOperand, ByItem
<1> QED
  BY <1>3, <1>4, <1>5, <1>6, <1>7, <1>8, <1>9, <1>10

\* Nothing a variable, an operand or a container refers to has been deleted, for
\* every set of variables, literals and addresses and lists of every size.
THEOREM NothingDanglesAlways == Sharing = {} => (Spec => []NothingDangles)
<1> SUFFICES ASSUME Sharing = {} PROVE Spec => []NothingDangles
  OBVIOUS
<1> QED
  BY ContainerInvAlways, InvNothingDangles, PTL

\* A value the program made has one holder: no two parties delete it, and to change
\* a list changes no other.
THEOREM OneHolderAlways == Sharing = {} => (Spec => []OneHolder)
<1> SUFFICES ASSUME Sharing = {} PROVE Spec => []OneHolder
  OBVIOUS
<1> QED
  BY ContainerInvAlways, InvOneHolder, PTL

\* The result of the last line is deleted behind the interpreter's back only if it
\* was an element or a member.
THEOREM OnlyElementsGoStaleAlways == Sharing = {} => (Spec => []OnlyElementsGoStale)
<1> SUFFICES ASSUME Sharing = {} PROVE Spec => []OnlyElementsGoStale
  OBVIOUS
<1>1. ContainerInv => OnlyElementsGoStale
  BY DEF ContainerInv, LastOK, OnlyElementsGoStale
<1> QED
  BY <1>1, ContainerInvAlways, PTL

\* Owners, boxes, elements, variables and operands stay in their sets: no place of a
\* list, no name and no operand ever holds anything but a value or an address.
THEOREM TypeOKAlways == Sharing = {} => (Spec => []TypeOK)
<1> SUFFICES ASSUME Sharing = {} PROVE Spec => []TypeOK
  OBVIOUS
<1> QED
  BY ContainerInvAlways, InvTypeOK, PTL

-----------------------------------------------------------------------------
(* What is forgotten *)

\* Somebody will delete v, a cell: the operand or the last result that a temporary
\* is, the variable, or the container it is in; or it was deleted.
Cared(own, its, sym, stk, last, v) ==
  \/ own[v] = "FREED"
  \/ own[v] = "INTERPRETER" /\ (v = last \/ \E i \in DOMAIN stk : stk[i] = Operand("value", v))
  \/ own[v] = "CONTEXT_VARIABLE" /\ \E n \in Names : sym[n] = v
  \/ own[v] = "OBJECT_VALUE" /\ ~ NoItem(its, v)

CaredNow(v)  == Cared(owner, items, symbols, stack, lastValue, v)
CaredThen(v) == Cared(owner', items', symbols', stack', lastValue', v)

\* Orphans of a heap and what refers to it.
OrphansOf(own, bx, its, sym, stk, last) ==
  {v \in Cells : \/ /\ own[v] = "INTERPRETER" /\ v # last
                    /\ \A i \in DOMAIN stk : stk[i] # Operand("value", v)
                 \/ own[v] = "CONTEXT_VARIABLE" /\ \A n \in Names : sym[n] # v
                 \/ /\ own[v] = "OBJECT_VALUE"
                    /\ \A c \in {d \in Values : own[d] # "FREED" /\ bx[d] # Nil} :
                         v \notin RangeOf(its[bx[c]])}

LEMMA OrphansAre ==
  /\ Orphans = OrphansOf(owner, box, items, symbols, stack, lastValue)
  /\ Orphans' = OrphansOf(owner', box', items', symbols', stack', lastValue')
<1>1. Orphans = OrphansOf(owner, box, items, symbols, stack, lastValue)
  BY Distinct DEF Orphans, OrphansOf, OwnedBy, Contents, Live, ItemsOf
<1>2. Orphans' = OrphansOf(owner', box', items', symbols', stack', lastValue')
  BY Distinct DEF Orphans, OrphansOf, OwnedBy, Contents, Live, ItemsOf
<1> QED
  BY <1>1, <1>2

\* An orphan is a cell nobody cares for.
LEMMA OrphansUncared ==
  ASSUME NEW own, NEW bx, NEW its, HeapOK(own, bx, its), NEW sym, NEW stk, NEW last, NEW v
  PROVE  v \in OrphansOf(own, bx, its, sym, stk, last)
           <=> v \in Cells /\ ~ Cared(own, its, sym, stk, last, v)
<1> DEFINE Holding == {d \in Values : own[d] # "FREED" /\ bx[d] # Nil}
<1>1. NoItem(its, v) <=> \A c \in Holding : v \notin RangeOf(its[bx[c]])
  <2>1. ASSUME NoItem(its, v), NEW c \in Holding
        PROVE  v \notin RangeOf(its[bx[c]])
    <3>1. bx[c] \in Boxes
      BY <2>1 DEF HeapOK
    <3> QED
      BY <2>1, <3>1 DEF NoItem, RangeOf
  <2>2. ASSUME NEW b \in Boxes, NEW i \in DOMAIN its[b], its[b][i] = v
        PROVE  \E c \in Holding : v \in RangeOf(its[bx[c]])
    <3>1. PICK c \in Values : bx[c] = b
      BY <2>2, EmptySeq DEF HeapOK
    <3>2. bx[c] # Nil /\ own[c] # "FREED"
      BY <3>1, Distinct DEF HeapOK
    <3> QED
      BY <2>2, <3>1, <3>2 DEF RangeOf
  <2> QED
    BY <2>1, <2>2 DEF NoItem
<1>2. v \in Cells => own[v] \in CellTags
  BY DEF HeapOK
<1>3. v \in OrphansOf(own, bx, its, sym, stk, last) <=>
        v \in Cells /\ \/ /\ own[v] = "INTERPRETER" /\ v # last
                          /\ \A i \in DOMAIN stk : stk[i] # Operand("value", v)
                       \/ own[v] = "CONTEXT_VARIABLE" /\ \A n \in Names : sym[n] # v
                       \/ /\ own[v] = "OBJECT_VALUE"
                          /\ \A c \in Holding : v \notin RangeOf(its[bx[c]])
  BY DEF OrphansOf
<1> HIDE DEF Holding
<1> QED
  BY <1>1, <1>2, <1>3 DEF Cared, CellTags

\* Deleting forgets nothing: a destructor deletes what its container held, and what
\* another container of the box has is still held.
LEMMA DeleteCares ==
  ASSUME NEW h, HeapOK(h.own, h.bx, h.its), NEW dead \in SUBSET Cells, NEW last,
         Delete(h, dead, last), NEW sym, NEW stk, NEW v \in Cells,
         v \in dead \/ Cared(h.own, h.its, sym, stk, last, v)
  PROVE  Cared(owner', items', sym, stk, lastValue', v)
<1> DEFINE gone == dead \cup Dragged(h, dead)
           bx2  == [w \in Values |-> IF w \in gone THEN Nil ELSE h.bx[w]]
<1>1. /\ owner' = [w \in Values |-> IF w \in gone THEN "FREED" ELSE h.own[w]]
      /\ items' = [b \in Boxes |-> IF \E w \in Values : bx2[w] = b THEN h.its[b] ELSE <<>>]
      /\ lastValue' = IF last \in gone THEN Freed ELSE last
  BY DEF Delete
<1>2. v \in Values
  BY Distinct
<1>3. v \in gone => owner'[v] = "FREED"
  BY <1>1, <1>2
<1>4. SUFFICES ASSUME v \notin gone
               PROVE  Cared(owner', items', sym, stk, lastValue', v)
  BY <1>3 DEF Cared
<1>5. owner'[v] = h.own[v] /\ (v = last => lastValue' = v) /\ Cared(h.own, h.its, sym, stk, last, v)
  BY <1>1, <1>2, <1>4
<1>6. ASSUME h.own[v] = "OBJECT_VALUE", ~ NoItem(h.its, v)
      PROVE  ~ NoItem(items', v)
  <2>1. PICK b \in Boxes : \E i \in DOMAIN h.its[b] : h.its[b][i] = v
    BY <1>6 DEF NoItem
  <2>2. PICK c \in Values : h.bx[c] = b
    BY <2>1, EmptySeq DEF HeapOK
  <2>3. CASE \E d \in Values \ gone : h.bx[d] = b
    <3>1. \E d \in Values : bx2[d] = b
      BY <2>3
    <3>2. items'[b] = h.its[b]
      BY <1>1, <3>1
    <3> QED
      BY <2>1, <3>2 DEF NoItem
  <2>4. CASE \A d \in Values \ gone : h.bx[d] # b
    <3>1. ASSUME NEW d \in Values, h.bx[d] = b
          PROVE  d \in dead
      <4>1. h.own[d] \in {"INTERPRETER", "CONTEXT_VARIABLE"}
        BY <3>1, Distinct DEF HeapOK
      <4>2. d \notin Dragged(h, dead)
        BY <4>1 DEF Dragged, ItemsOwned
      <4> QED
        BY <2>4, <3>1, <4>2
    <3>2. v \in ItemsOwned(h, h.bx[c])
      BY <1>6, <2>1, <2>2 DEF ItemsOwned, RangeOf
    <3>3. c \in dead /\ h.bx[c] # Nil /\ \A d \in Values \ dead : h.bx[d] # h.bx[c]
      BY <2>2, <3>1, Distinct
    <3>4. v \in Dragged(h, dead)
      BY <3>2, <3>3 DEF Dragged
    <3> QED
      BY <1>4, <3>4
  <2> QED
    BY <2>3, <2>4
<1> HIDE DEF gone, bx2
<1> QED
  BY <1>5, <1>6 DEF Cared

\* A temporary that was cared for is one still, or was popped.
LEMMA PoppedCares ==
  ASSUME ContainerInv, NEW k \in 0..2, k <= Height, NEW v, owner[v] = "INTERPRETER", CaredNow(v)
  PROVE  \/ v = lastValue
         \/ \E i \in DOMAIN Below(k) : Below(k)[i] = Operand("value", v)
         \/ \E i \in 0..k - 1 : /\ v = ValueOf(stack[Height - i])
                                /\ stack[Height - i] = Operand("value", v)
<1>1. v = lastValue \/ \E i \in DOMAIN stack : stack[i] = Operand("value", v)
  BY DEF CaredNow, Cared
<1>2. ASSUME NEW i \in DOMAIN stack, stack[i] = Operand("value", v)
      PROVE  \/ \E j \in DOMAIN Below(k) : Below(k)[j] = Operand("value", v)
             \/ \E j \in 0..k - 1 : /\ v = ValueOf(stack[Height - j])
                                    /\ stack[Height - j] = Operand("value", v)
  <2>1. /\ Below(k) \in Seq(OperandTypes) /\ Len(Below(k)) = Height - k /\ Height \in Nat
        /\ DOMAIN stack = 1..Height
        /\ \A j \in DOMAIN Below(k) : Below(k)[j] = stack[j]
    BY Popped DEF World, StackOK
  <2>2. DOMAIN Below(k) = 1..Height - k
    BY <2>1, LenProperties
  <2>3. CASE i \in 1..Height - k
    BY <1>2, <2>1, <2>2, <2>3
  <2>4. CASE i \notin 1..Height - k
    <3>1. Height - i \in 0..k - 1 /\ Height - (Height - i) = i
      BY <2>1, <2>4
    <3>2. v = ValueOf(stack[i])
      BY <1>2 DEF ValueOf, Operand
    <3> QED
      BY <1>2, <3>1, <3>2
  <2> QED
    BY <2>3, <2>4
<1> QED
  BY <1>1, <1>2

\* An operand below is one when a result is pushed, and so is the result.
LEMMA AppendCares ==
  ASSUME NEW s \in Seq(OperandTypes), NEW r \in Values, NEW v
  PROVE  (v = r \/ \E i \in DOMAIN s : s[i] = Operand("value", v))
           => \E i \in DOMAIN Append(s, Operand("value", r)) :
                Append(s, Operand("value", r))[i] = Operand("value", v)
<1> DEFINE e == Operand("value", r)
<1>1. e \in OperandTypes
  BY DEF OperandTypes
<1> HIDE DEF e
<1>2. /\ Len(s) \in Nat /\ DOMAIN s = 1..Len(s)
      /\ DOMAIN Append(s, e) = 1..Len(s) + 1
      /\ Append(s, e)[Len(s) + 1] = e
      /\ \A j \in 1..Len(s) : Append(s, e)[j] = s[j]
  BY <1>1, LenProperties, AppendProperties
<1>3. Len(s) + 1 \in 1..Len(s) + 1 /\ \A j \in 1..Len(s) : j \in 1..Len(s) + 1
  BY <1>2
<1> QED
  BY <1>2, <1>3 DEF e

\* A result is pushed and the temporaries popped are deleted: nothing is forgotten.
LEMMA GrownCares ==
  ASSUME ContainerInv, NEW k \in 0..2, CanPop(k), NEW h, Grown(h, Below(k)), Tidy(h),
         NEW S, \A v \in S : \E i \in 0..k - 1 : v = ValueOf(stack[Height - i]),
         \A i \in 0..k - 1 : ValueOf(stack[Height - i]) \in S,
         Delete(h, OwnedBy("INTERPRETER", S), lastValue), Replace(k, h.root),
         UNCHANGED <<symbols, fromItem>>, NEW v \in Cells, CaredNow(v)
  PROVE  CaredThen(v)
<1> DEFINE dead == OwnedBy("INTERPRETER", S)  e == Operand("value", h.root)
<1>1. k <= Height /\ v \in Values
  BY Popped, Distinct DEF CanPop
<1>2. /\ World(h.own, h.bx, h.its, symbols, Below(k), lastValue, fromItem)
      /\ h.root \in Values /\ h.own[h.root] = "INTERPRETER"
      /\ \A w \in Values : owner[w] # "FREED" => h.own[w] = owner[w]
  BY Distinct DEF Grown
<1>3. dead \in SUBSET Cells
  <2>1. \A w \in Values : owner[w] = "INTERPRETER" => h.own[w] = owner[w]
    BY <1>2
  <2> QED
    BY <1>2, <2>1, TemporariesUnseen
<1>4. Below(k) \in Seq(OperandTypes) /\ stack' = Append(Below(k), e) /\ symbols' = symbols
  BY <1>2 DEF World, StackOK, Replace
<1>5. CASE v = h.root
  <2>1. \E i \in DOMAIN stack' : stack'[i] = Operand("value", v)
    BY <1>2, <1>4, <1>5, AppendCares
  <2>2. Cared(h.own, h.its, symbols', stack', lastValue, v)
    BY <1>2, <1>5, <2>1 DEF Cared
  <2> QED
    BY <1>2, <1>3, <2>2, DeleteCares DEF World, CaredThen
<1>6. CASE v # h.root /\ owner[v] = "FREED"
  <2>1. Cared(h.own, h.its, symbols', stack', lastValue, v)
    BY <1>6 DEF Tidy, Cared
  <2> QED
    BY <1>2, <1>3, <2>1, DeleteCares DEF World, CaredThen
<1>7. CASE owner[v] = "INTERPRETER"
  <2>1. CASE v = lastValue \/ \E i \in DOMAIN Below(k) : Below(k)[i] = Operand("value", v)
    <3>1. v = lastValue \/ \E i \in DOMAIN stack' : stack'[i] = Operand("value", v)
      BY <1>2, <1>4, <2>1, AppendCares
    <3>2. Cared(h.own, h.its, symbols', stack', lastValue, v)
      BY <1>1, <1>2, <1>7, <3>1 DEF Cared
    <3> QED
      BY <1>2, <1>3, <3>2, DeleteCares DEF World, CaredThen
  <2>2. CASE \E i \in 0..k - 1 : v = ValueOf(stack[Height - i])
    <3>1. v \in dead
      BY <1>1, <1>7, <2>2 DEF OwnedBy
    <3> QED
      BY <1>2, <1>3, <3>1, DeleteCares DEF World, CaredThen
  <2> QED
    BY <1>1, <1>7, <2>1, <2>2, PoppedCares
<1>8. CASE owner[v] \in {"CONTEXT_VARIABLE", "OBJECT_VALUE"}
  <2>1. Cared(h.own, h.its, symbols', stack', lastValue, v)
    BY <1>1, <1>2, <1>4, <1>8 DEF CaredNow, Cared, Tidy
  <2> QED
    BY <1>2, <1>3, <2>1, DeleteCares DEF World, CaredThen
<1>9. owner[v] \in CellTags
  BY DEF ContainerInv, HeapOK
<1> QED
  BY <1>5, <1>6, <1>7, <1>8, <1>9 DEF CellTags

\* What an operation has to show for a value: it is deleted, or cared for in the heap
\* made, or it is as it was and no one that was to delete it is gone.
LEMMA StepCares ==
  ASSUME ContainerInv, NEW k \in 0..2, k <= Height,
         \A i \in DOMAIN Below(k) : \E j \in DOMAIN stack' : stack'[j] = Below(k)[i],
         NEW h, HeapOK(h.own, h.bx, h.its), NEW dead \in SUBSET Cells, NEW last,
         Delete(h, dead, last), NEW v \in Cells, CaredNow(v),
         \/ v \in dead
         \/ Cared(h.own, h.its, symbols', stack', last, v)
         \/ /\ h.own[v] = owner[v] /\ owner[v] # "OBJECT_VALUE"
            /\ owner[v] = "INTERPRETER" => /\ v = lastValue => last = v
                                           /\ \A i \in 0..k - 1 : v # ValueOf(stack[Height - i])
            /\ owner[v] = "CONTEXT_VARIABLE" =>
                 \A n \in Names : symbols[n] = v => \E m \in Names : symbols'[m] = v
  PROVE  CaredThen(v)
<1>1. SUFFICES v \in dead \/ Cared(h.own, h.its, symbols', stack', last, v)
  BY DeleteCares DEF CaredThen
<1>2. SUFFICES ASSUME h.own[v] = owner[v], owner[v] # "OBJECT_VALUE",
                      owner[v] = "INTERPRETER" =>
                        /\ v = lastValue => last = v
                        /\ \A i \in 0..k - 1 : v # ValueOf(stack[Height - i]),
                      owner[v] = "CONTEXT_VARIABLE" =>
                        \A n \in Names : symbols[n] = v => \E m \in Names : symbols'[m] = v
               PROVE  Cared(h.own, h.its, symbols', stack', last, v)
  BY <1>1
<1>3. CASE owner[v] = "INTERPRETER"
  <2>1. v = lastValue \/ \E i \in DOMAIN Below(k) : Below(k)[i] = Operand("value", v)
    BY <1>2, <1>3, PoppedCares
  <2> QED
    BY <1>2, <1>3, <2>1 DEF Cared
<1>4. CASE owner[v] = "CONTEXT_VARIABLE"
  BY <1>2, <1>4 DEF CaredNow, Cared
<1>5. CASE owner[v] = "FREED"
  BY <1>2, <1>5 DEF Cared
<1> QED
  BY <1>2, <1>3, <1>4, <1>5 DEF ContainerInv, HeapOK, CellTags

\* The operands that are left wait below a result.
LEMMA BelowStays ==
  ASSUME ContainerInv, NEW k \in 0..2, k <= Height, NEW r \in Values,
         stack' = Append(Below(k), Operand("value", r))
  PROVE  /\ \A i \in DOMAIN Below(k) : \E j \in DOMAIN stack' : stack'[j] = Below(k)[i]
         /\ \E j \in DOMAIN stack' : stack'[j] = Operand("value", r)
<1> DEFINE e == Operand("value", r)  s == Below(k)
<1>1. e \in OperandTypes /\ s \in Seq(OperandTypes)
  BY Popped DEF OperandTypes, World, StackOK
<1>2. stack' = Append(s, e)
  OBVIOUS
<1> HIDE DEF e, s
<1>3. /\ Len(s) \in Nat /\ DOMAIN s = 1..Len(s)
      /\ DOMAIN Append(s, e) = 1..Len(s) + 1
      /\ Append(s, e)[Len(s) + 1] = e
      /\ \A j \in 1..Len(s) : Append(s, e)[j] = s[j]
  BY <1>1, LenProperties, AppendProperties
<1>4. Len(s) + 1 \in 1..Len(s) + 1 /\ \A j \in 1..Len(s) : j \in 1..Len(s) + 1
  BY <1>3
<1> QED
  BY <1>2, <1>3, <1>4 DEF e, s

LEMMA PushOperandCares ==
  ASSUME ContainerInv, PushOperand, NEW v \in Cells, CaredNow(v) PROVE CaredThen(v)
<1>1. PICK e \in {Operand("name", n) : n \in Names} \cup {Operand("value", w) : w \in Literals}
              \cup {Operand("member", n) : n \in Accessible} : stack' = Append(stack, e)
  BY DEF PushOperand
<1>2. /\ e \in OperandTypes /\ stack \in Seq(OperandTypes)
      /\ owner' = owner /\ items' = items /\ symbols' = symbols /\ lastValue' = lastValue
  BY <1>1, Distinct DEF OperandTypes, Operand, Accessible, ContainerInv, StackOK, PushOperand, heap
<1>3. /\ Len(stack) \in Nat /\ DOMAIN stack = 1..Len(stack)
      /\ DOMAIN Append(stack, e) = 1..Len(stack) + 1
      /\ \A j \in 1..Len(stack) : Append(stack, e)[j] = stack[j]
  BY <1>2, LenProperties, AppendProperties
<1>4. \A i \in DOMAIN stack : i \in DOMAIN stack' /\ stack'[i] = stack[i]
  BY <1>1, <1>3
<1> QED
  BY <1>2, <1>4 DEF CaredNow, CaredThen, Cared

LEMMA YieldCares ==
  ASSUME ContainerInv, NEW k \in 0..2, NEW r, r \in Fresh \/ r = Empty, Yield(k, r),
         NEW v \in Cells, CaredNow(v)
  PROVE  CaredThen(v)
<1> DEFINE S == {ValueOf(stack[Height - i]) : i \in 0..k - 1}
           own2 == [w \in Values |-> IF w = r /\ r # Empty THEN "INTERPRETER" ELSE owner[w]]
           h == Heap(r, own2, box, items)  dead == OwnedBy("INTERPRETER", S)
<1>1. /\ CanPop(k) /\ k <= Height /\ Delete(h, dead, lastValue)
      /\ Replace(k, r) /\ UNCHANGED <<symbols, fromItem>>
  BY Popped DEF Yield, CanPop
<1>2. /\ \A w \in S : \E i \in 0..k - 1 : w = ValueOf(stack[Height - i])
      /\ \A i \in 0..k - 1 : ValueOf(stack[Height - i]) \in S
  OBVIOUS
<1>3. World(owner, box, items, symbols, Below(k), lastValue, fromItem) /\ v \in Values
  BY <1>1, Popped, Distinct
<1> HIDE DEF S
<1>4. CASE r \in Fresh
  <2>1. own2 = [owner EXCEPT ![r] = "INTERPRETER"]
    BY <1>4, Distinct DEF ContainerInv, HeapOK, Fresh
  <2>2. Grown(h, Below(k)) /\ h.root = r /\ Tidy(h)
    BY <1>3, <1>4, <2>1, ScalarGrows, ScalarTidy DEF Heap
  <2>3. Delete(h, OwnedBy("INTERPRETER", S), lastValue)
    BY <1>1
  <2> HIDE DEF h
  <2> QED
    BY <1>1, <1>2, <2>2, <2>3, GrownCares
<1>5. CASE r = Empty
  <2>1. own2 = owner
    BY <1>5 DEF ContainerInv, HeapOK
  <2>2. h.own = owner /\ h.bx = box /\ h.its = items
    BY <2>1 DEF Heap
  <2> HIDE DEF h
  <2>3. dead \in SUBSET Cells
    <3>1. World(h.own, h.bx, h.its, symbols, Below(k), lastValue, fromItem)
          /\ \A w \in Values : owner[w] = "INTERPRETER" => h.own[w] = owner[w]
      BY <1>3, <2>2
    <3> QED
      BY <1>1, <1>2, <3>1, TemporariesUnseen
  <2>4. \A i \in DOMAIN Below(k) : \E j \in DOMAIN stack' : stack'[j] = Below(k)[i]
    BY <1>1, <1>5, BelowStays, Distinct DEF Replace
  <2>5. CASE owner[v] = "OBJECT_VALUE"
    <3>1. Cared(h.own, h.its, symbols', stack', lastValue, v)
      BY <2>2, <2>5 DEF CaredNow, Cared
    <3> HIDE DEF dead
    <3> QED
      BY <1>1, <1>3, <2>2, <2>3, <2>4, <3>1, StepCares DEF World
  <2>6. CASE owner[v] # "OBJECT_VALUE"
    <3>1. \/ v \in dead
          \/ owner[v] = "INTERPRETER" => \A i \in 0..k - 1 : v # ValueOf(stack[Height - i])
      BY <1>2, <1>3 DEF OwnedBy
    <3> HIDE DEF dead
    <3> QED
      BY <1>1, <1>3, <2>2, <2>3, <2>4, <2>6, <3>1, StepCares DEF World
  <2> QED
    BY <2>5, <2>6
<1> QED
  BY <1>4, <1>5

LEMMA ComputeCares ==
  ASSUME ContainerInv, Compute \/ CallBuiltin, NEW v \in Cells, CaredNow(v) PROVE CaredThen(v)
<1>1. \E k \in 0..2, r \in Fresh \cup {Empty} : Yield(k, r)
  BY DEF Compute, CallBuiltin
<1> QED
  BY <1>1, YieldCares

LEMMA EndOfLineCares ==
  ASSUME ContainerInv, EndOfLine, NEW v \in Cells, CaredNow(v) PROVE CaredThen(v)
<1> DEFINE result == IF Height = 0 THEN Operand("value", Empty) ELSE Top
           r == ValueOf(result)  dead == OwnedBy("INTERPRETER", {lastValue})  h == Same(Nil)
<1>1. Height <= 1 /\ Delete(h, dead, r) /\ stack' = <<>> /\ UNCHANGED symbols
  BY DEF EndOfLine
<1>2. h.own = owner /\ h.bx = box /\ h.its = items /\ HeapOK(h.own, h.bx, h.its) /\ v \in Values
  BY Distinct DEF Same, Heap, ContainerInv
<1>3. dead \in SUBSET Cells
  BY Distinct DEF OwnedBy, ContainerInv, HeapOK
<1>4. v \in dead \/ Cared(h.own, h.its, symbols', stack', r, v)
  <2>1. CASE owner[v] # "INTERPRETER"
    BY <1>1, <1>2, <2>1 DEF CaredNow, Cared
  <2>2. CASE owner[v] = "INTERPRETER" /\ v = lastValue
    BY <1>2, <2>2 DEF OwnedBy
  <2>3. CASE owner[v] = "INTERPRETER" /\ v # lastValue
    <3>1. PICK i \in DOMAIN stack : stack[i] = Operand("value", v)
      BY <2>3 DEF CaredNow, Cared
    <3>2. Height \in Nat /\ DOMAIN stack = 1..Height
      BY LenProperties DEF ContainerInv, StackOK, Height
    <3>3. Height = 1 /\ i = 1
      BY <1>1, <3>1, <3>2
    <3>4. result = Operand("value", v)
      BY <3>1, <3>3 DEF Top
    <3>5. r = v
      BY <3>4 DEF ValueOf, Operand
    <3> QED
      BY <1>2, <2>3, <3>5 DEF Cared
  <2> QED
    BY <2>1, <2>2, <2>3
<1> HIDE DEF h, dead, r
<1> QED
  BY <1>1, <1>2, <1>3, <1>4, DeleteCares DEF CaredThen

LEMMA PushesCares ==
  ASSUME ContainerInv, NEW k \in 0..2, Pushes(k), NEW v \in Cells, CaredNow(v) PROVE CaredThen(v)
  BY GrownCares DEF Pushes

LEMMA CreateListCares ==
  ASSUME Sharing = {}, ContainerInv, CreateList, NEW v \in Cells, CaredNow(v) PROVE CaredThen(v)
<1> DEFINE Made(h, r) ==
             /\ Ready(h, Below(1)) /\ h.own[r] = "FREED" /\ r # h.root
             /\ owner[ValueOf(Top)] = "INTERPRETER" => h.root = ValueOf(Top)
             /\ HeapOK(Listed(h, r).own, Listed(h, r).bx, Listed(h, r).its)
             /\ Delete(Listed(h, r), {}, lastValue) /\ Replace(1, r)
<1>1. 1 <= Height /\ UNCHANGED <<symbols, fromItem>> /\ \E h : \E r \in Cells : Made(h, r)
  BY CreateListMade DEF World
<1>2. PICK h : \E r \in Cells : Made(h, r)
  BY <1>1
<1>3. PICK r \in Cells : Made(h, r)
  BY <1>2
<1> DEFINE g == Listed(h, r)  dead == {}
<1>4. /\ World(h.own, box, items, symbols, Below(1), lastValue, fromItem)
      /\ h.own[h.root] \in {"OBJECT_VALUE", "VALUE_TOKEN"}
      /\ \A w \in Values : w # h.root => h.own[w] = owner[w]
      /\ h.root \in Values /\ r \in Values /\ v \in Values /\ r \in Boxes
  BY <1>3, Distinct DEF Ready, Raised
<1>5. /\ g.own = [h.own EXCEPT ![r] = "INTERPRETER"] /\ g.its = [items EXCEPT ![r] = <<h.root>>]
      /\ HeapOK(g.own, g.bx, g.its) /\ Delete(g, dead, lastValue) /\ dead \in SUBSET Cells
  BY <1>3 DEF Listed, Heap
<1>6. items[r] = <<>>
  BY <1>3, <1>4, FreedUnseen
<1>7. /\ \A i \in DOMAIN Below(1) : \E j \in DOMAIN stack' : stack'[j] = Below(1)[i]
      /\ \E j \in DOMAIN stack' : stack'[j] = Operand("value", r)
  BY <1>1, <1>3, <1>4, BelowStays DEF Replace
<1>13. 1 \in 0..2 /\ 1 <= Height /\ symbols' = symbols
  BY <1>1
<1> HIDE DEF g, dead
<1>8. /\ g.own[r] = "INTERPRETER" /\ g.its[r] = <<h.root>>
      /\ \A w \in Values : w # r => g.own[w] = h.own[w]
      /\ \A b \in Boxes : b # r => g.its[b] = items[b]
  BY <1>4, <1>5 DEF World, HeapOK
<1>9. CASE v = r
  <2>1. Cared(g.own, g.its, symbols', stack', lastValue, v)
    BY <1>7, <1>8, <1>9 DEF Cared
  <2> QED
    BY <1>5, <1>7, <1>13, <2>1, StepCares
<1>10. CASE v = h.root
  <2>1. g.own[v] = "OBJECT_VALUE"
    BY <1>3, <1>4, <1>5, <1>8, <1>10 DEF HeapOK, CellTags
  <2>2. ~ NoItem(g.its, v)
    <3>1. 1 \in DOMAIN g.its[r] /\ g.its[r][1] = v
      BY <1>4, <1>8, <1>10, OneItem
    <3> QED
      BY <1>4, <3>1 DEF NoItem
  <2>3. Cared(g.own, g.its, symbols', stack', lastValue, v)
    BY <2>1, <2>2 DEF Cared
  <2> QED
    BY <1>5, <1>7, <1>13, <2>3, StepCares
<1>11. CASE v # r /\ v # h.root /\ owner[v] = "OBJECT_VALUE"
  <2>1. PICK b \in Boxes : \E i \in DOMAIN items[b] : items[b][i] = v
    BY <1>11 DEF CaredNow, Cared, NoItem
  <2>2. b # r
    BY <1>6, <2>1, EmptySeq
  <2>3. ~ NoItem(g.its, v)
    BY <1>8, <2>1, <2>2 DEF NoItem
  <2>4. Cared(g.own, g.its, symbols', stack', lastValue, v)
    BY <1>4, <1>8, <1>11, <2>3 DEF Cared
  <2> QED
    BY <1>5, <1>7, <1>13, <2>4, StepCares
<1>12. CASE v # r /\ v # h.root /\ owner[v] # "OBJECT_VALUE"
  <2>1. g.own[v] = owner[v]
    BY <1>4, <1>8, <1>12
  <2>2. owner[v] = "INTERPRETER" => \A i \in 0..1 - 1 : v # ValueOf(stack[Height - i])
    BY <1>3, <1>12, OnlyOperand
  <2>3. CASE owner[v] = "INTERPRETER"
    <3>1. v = lastValue \/ \E i \in DOMAIN Below(1) : Below(1)[i] = Operand("value", v)
      BY <1>13, <2>2, <2>3, PoppedCares
    <3>2. Cared(g.own, g.its, symbols', stack', lastValue, v)
      BY <1>7, <2>1, <2>3, <3>1 DEF Cared
    <3> QED
      BY <1>5, <1>7, <1>13, <3>2, StepCares
  <2>4. CASE owner[v] \in {"FREED", "CONTEXT_VARIABLE"}
    <3>1. Cared(g.own, g.its, symbols', stack', lastValue, v)
      BY <1>13, <2>1, <2>4 DEF CaredNow, Cared
    <3> QED
      BY <1>5, <1>7, <1>13, <3>1, StepCares
  <2> QED
    BY <1>12, <2>3, <2>4 DEF ContainerInv, HeapOK, CellTags
<1> QED
  BY <1>9, <1>10, <1>11, <1>12

LEMMA AssignVariableCares ==
  ASSUME Sharing = {}, ContainerInv, AssignVariable, NEW v \in Cells, CaredNow(v) PROVE CaredThen(v)
<1> DEFINE n == Second.of  new == ValueOf(Top)  old == symbols[n]
           dead == OwnedBy("CONTEXT_VARIABLE", {old})
           last == IF dead # {} THEN Forget(old) ELSE lastValue
<1>1. /\ Height >= 2 /\ new # Nil /\ Top.tag \notin ItemTags /\ Second.tag = "name"
      /\ IsScalar(new) \/ IsList(new) \/ IsStruct(new)
      /\ stack' = Below(1)
  BY DEF AssignVariable, Assignable
<1>2. PICK g \in Moved(Top) :
       /\ Delete(Raise(g, "CONTEXT_VARIABLE"), dead, last)
       /\ symbols' = [symbols EXCEPT ![n] = g.root]
  BY DEF AssignVariable
<1> DEFINE h == Raise(g, "CONTEXT_VARIABLE")
<1>3. 1 <= Height /\ n \in Names /\ v \in Values
  <2>1. Height \in Nat /\ Height - 1 \in DOMAIN stack
    BY <1>1, LenProperties, SecondInStack DEF ContainerInv, StackOK, Height
  <2>2. stack[Height - 1].tag = "name" => stack[Height - 1].of \in Names
    BY <2>1, OperandFacts DEF ContainerInv, StackOK
  <2> QED
    BY <1>1, <2>1, <2>2, Distinct DEF Second
<1>4. Assigned(h, new) /\ h.root = g.root
  BY <1>1, <1>3, MovedAssigned
<1>5. /\ symbols'[n] = h.root /\ \A m \in Names : m # n => symbols'[m] = symbols[m]
  BY <1>2, <1>3, <1>4 DEF ContainerInv, SymbolsOK
<1>6. dead \in SUBSET Cells /\ Delete(h, dead, last) /\ HeapOK(h.own, h.bx, h.its)
  BY <1>2, <1>4, Distinct DEF OwnedBy, ContainerInv, HeapOK, Assigned, World
<1>7. v = old /\ owner[v] = "CONTEXT_VARIABLE" => v \in dead
  BY <1>3 DEF OwnedBy
<1>8. owner[v] = "INTERPRETER" /\ v = lastValue => last = v
  BY Distinct DEF Forget, OwnedBy
<1> HIDE DEF new, old, dead, last, h
<1>9. \A i \in DOMAIN Below(1) : \E j \in DOMAIN stack' : stack'[j] = Below(1)[i]
  BY <1>1
<1>10. CASE v = h.root
  <2>1. h.own[v] = "CONTEXT_VARIABLE"
    BY <1>4, <1>10 DEF Assigned
  <2>2. Cared(h.own, h.its, symbols', stack', last, v)
    BY <1>3, <1>5, <1>10, <2>1 DEF Cared
  <2> QED
    BY <1>3, <1>6, <1>9, <2>2, StepCares
<1>11. CASE v # h.root /\ owner[v] \in {"FREED", "OBJECT_VALUE"}
  <2>1. owner[v] = "FREED" => h.own[v] = "FREED" \/ (h.own[v] = "OBJECT_VALUE" /\ ~ NoItem(h.its, v))
    BY <1>4, <1>11 DEF Assigned, Tidy
  <2>2. owner[v] = "OBJECT_VALUE" => h.own[v] = "OBJECT_VALUE" /\ ~ NoItem(h.its, v)
    BY <1>3, <1>4, <1>11 DEF Assigned, Tidy, CaredNow, Cared
  <2>3. Cared(h.own, h.its, symbols', stack', last, v)
    BY <1>11, <2>1, <2>2 DEF Cared
  <2> QED
    BY <1>3, <1>6, <1>9, <2>3, StepCares
<1>12. CASE v # h.root /\ owner[v] = "INTERPRETER"
  <2>1. h.own[v] = owner[v]
    BY <1>3, <1>4, <1>12 DEF Assigned
  <2>2. \A i \in 0..1 - 1 : v # ValueOf(stack[Height - i])
    BY <1>4, <1>12, OnlyOperand DEF Assigned, new
  <2>3. v = lastValue \/ \E i \in DOMAIN Below(1) : Below(1)[i] = Operand("value", v)
    BY <1>3, <1>12, <2>2, PoppedCares
  <2>4. Cared(h.own, h.its, symbols', stack', last, v)
    BY <1>8, <1>9, <1>12, <2>1, <2>3 DEF Cared
  <2> QED
    BY <1>3, <1>6, <1>9, <2>4, StepCares
<1>13. CASE v # h.root /\ owner[v] = "CONTEXT_VARIABLE"
  <2>1. h.own[v] = owner[v]
    BY <1>3, <1>4, <1>13 DEF Assigned
  <2>2. v \in dead \/ \A m \in Names : symbols[m] = v => symbols'[m] = v
    BY <1>5, <1>7, <1>13 DEF old
  <2>3. CASE v \in dead
    BY <1>3, <1>6, <1>9, <2>3, StepCares
  <2>4. CASE \A m \in Names : symbols[m] = v => symbols'[m] = v
    <3>1. Cared(h.own, h.its, symbols', stack', last, v)
      BY <1>13, <2>1, <2>4 DEF CaredNow, Cared
    <3> QED
      BY <1>3, <1>6, <1>9, <3>1, StepCares
  <2> QED
    BY <2>2, <2>3, <2>4
<1> QED
  BY <1>10, <1>11, <1>12, <1>13 DEF ContainerInv, HeapOK, CellTags

LEMMA AssignTargetCares ==
  ASSUME Sharing = {}, ContainerInv, AssignElement \/ AssignMember, NEW v \in Cells, CaredNow(v)
  PROVE  CaredThen(v)
<1>1. PICK b \in Boxes : \E i \in DOMAIN items[b] : Target(b, i)
  BY AssignElementTarget, AssignMemberTarget
<1>2. PICK i \in DOMAIN items[b] : Target(b, i)
  BY <1>1
<1> DEFINE held == items[b][i]  dead == OwnedBy("OBJECT_VALUE", {held})  last == Forget(held)
           Made(h) == /\ Ready(h, Below(1))
                      /\ owner[ValueOf(Top)] = "INTERPRETER" => h.root = ValueOf(Top)
                      /\ HeapOK(Placed(h, b, i).own, Placed(h, b, i).bx, Placed(h, b, i).its)
                      /\ Delete(Placed(h, b, i), dead, last)
<1>3. 1 <= Height /\ stack' = Below(1) /\ symbols' = symbols /\ \E h : Made(h)
  <2>1. AssignItem(b, i) /\ (\E w \in Values : box[w] = b)
    BY <1>2 DEF Target
  <2> QED
    BY <2>1, AssignItemMade
<1>4. PICK h : Made(h)
  BY <1>3
<1> DEFINE p == Placed(h, b, i)  s == [items[b] EXCEPT ![i] = h.root]
<1>5. /\ World(h.own, box, items, symbols, Below(1), lastValue, fromItem)
      /\ h.own[h.root] \in {"OBJECT_VALUE", "VALUE_TOKEN"}
      /\ \A w \in Values : w # h.root => h.own[w] = owner[w]
      /\ h.root \in Values /\ v \in Values
  BY <1>4, Distinct DEF Ready, Raised
<1>6. /\ p.own = h.own /\ p.its = [items EXCEPT ![b] = s]
      /\ HeapOK(p.own, p.bx, p.its) /\ Delete(p, dead, last)
  BY <1>4 DEF Placed, Heap
<1>7. items[b] \in Seq(Values) /\ i \in DOMAIN items[b]
  BY <1>2 DEF ContainerInv, HeapOK, Target
<1>8. s[i] = h.root /\ DOMAIN s = DOMAIN items[b] /\ \A j \in DOMAIN s : j # i => s[j] = items[b][j]
  BY <1>7
<1>9. held \in Values /\ (owner[held] = "OBJECT_VALUE" <=> held \in Cells)
      /\ owner[held] \in {"OBJECT_VALUE", "VALUE_TOKEN"}
  BY <1>7, ItemFacts DEF ContainerInv
<1>10. dead \in SUBSET Cells /\ (v = held => v \in dead)
  BY <1>9 DEF OwnedBy
<1>11. owner[v] = "INTERPRETER" /\ v = lastValue => last = v
  BY <1>9 DEF Forget
<1>12. \A j \in DOMAIN Below(1) : \E m \in DOMAIN stack' : stack'[m] = Below(1)[j]
  BY <1>3
<1> HIDE DEF p, s, dead, last
<1>13. p.its[b] = s /\ \A c \in Boxes : c # b => p.its[c] = items[c]
  BY <1>6 DEF ContainerInv, HeapOK
<1>14. CASE v = h.root
  <2>1. p.own[v] = "OBJECT_VALUE"
    BY <1>5, <1>6, <1>14 DEF HeapOK, CellTags
  <2>2. ~ NoItem(p.its, v)
    BY <1>7, <1>8, <1>13, <1>14 DEF NoItem
  <2>3. Cared(p.own, p.its, symbols', stack', last, v)
    BY <2>1, <2>2 DEF Cared
  <2> QED
    BY <1>3, <1>6, <1>10, <1>12, <2>3, StepCares
<1>15. CASE v # h.root /\ owner[v] = "OBJECT_VALUE"
  <2>1. CASE v = held
    BY <1>3, <1>6, <1>10, <1>12, <2>1, StepCares
  <2>2. CASE v # held
    <3>1. PICK c \in Boxes : \E j \in DOMAIN items[c] : items[c][j] = v
      BY <1>15 DEF CaredNow, Cared, NoItem
    <3>2. PICK j \in DOMAIN items[c] : items[c][j] = v
      BY <3>1
    <3>3. j \in DOMAIN p.its[c] /\ p.its[c][j] = v
      BY <1>8, <1>13, <2>2, <3>2
    <3>4. Cared(p.own, p.its, symbols', stack', last, v)
      BY <1>5, <1>6, <1>15, <3>3 DEF Cared, NoItem
    <3> QED
      BY <1>3, <1>6, <1>10, <1>12, <3>4, StepCares
  <2> QED
    BY <2>1, <2>2
<1>16. CASE v # h.root /\ owner[v] # "OBJECT_VALUE"
  <2>1. p.own[v] = owner[v]
    BY <1>5, <1>6, <1>16
  <2>2. owner[v] = "INTERPRETER" => \A j \in 0..1 - 1 : v # ValueOf(stack[Height - j])
    BY <1>4, <1>16, OnlyOperand
  <2> QED
    BY <1>3, <1>6, <1>10, <1>11, <1>12, <1>16, <2>1, <2>2, StepCares
<1> QED
  BY <1>14, <1>15, <1>16

LEMMA RewritesAllCares ==
  ASSUME ContainerInv, NEW k \in 1..2, RewritesAll(k), NEW v \in Cells, CaredNow(v)
  PROVE  CaredThen(v)
<1> DEFINE All(list, h, s, dead) ==
             /\ Rewrites(k, list, h, s, dead)
             /\ \A j \in DOMAIN items[list] :
                  items[list][j] \in Cells =>
                    items[list][j] \in dead \/ \E m \in DOMAIN s : s[m] = items[list][j]
             /\ \A w \in Cells : h.own[w] = owner[w] \/ \E m \in DOMAIN s : s[m] = w
             /\ \A i \in 0..k - 1 :
                  LET w == ValueOf(stack[Height - i]) IN
                  owner[w] = "INTERPRETER" => w = list \/ \E m \in DOMAIN s : s[m] = w
<1>1. PICK list, h, s, dead : All(list, h, s, dead)
  BY DEF RewritesAll
<1> DEFINE its2 == [items EXCEPT ![list] = s]  g == Heap(h.root, h.own, box, its2)
           all == dead \cup OwnedBy("INTERPRETER", {list})
<1>2. /\ HeapOK(h.own, box, its2) /\ list \in Boxes /\ all \in SUBSET Cells
      /\ Delete(g, all, lastValue)
  BY <1>1, RewriteKeeps
<1>3. g.own = h.own /\ g.its = its2 /\ HeapOK(g.own, g.bx, g.its)
  BY <1>2 DEF Heap
<1>4. k \in 0..2 /\ k <= Height /\ symbols' = symbols /\ stack' = Append(Below(k), Operand("value", Empty))
  BY <1>1, TopFacts DEF Rewrites, Rewrite, Replace
<1>5. \A i \in DOMAIN Below(k) : \E j \in DOMAIN stack' : stack'[j] = Below(k)[i]
  BY <1>4, BelowStays, Distinct
<1>6. its2[list] = s /\ \A b \in Boxes : b # list => its2[b] = items[b]
  BY <1>2 DEF ContainerInv, HeapOK
<1>7. v \in Values
  BY Distinct
<1> HIDE DEF g, its2
<1>8. CASE \E m \in DOMAIN s : s[m] = v
  <2>1. ~ NoItem(g.its, v)
    BY <1>2, <1>3, <1>6, <1>8 DEF NoItem
  <2>2. g.own[v] = "OBJECT_VALUE"
    <3>1. PICK m \in DOMAIN s : s[m] = v
      BY <1>8
    <3>2. g.own[v] \in {"OBJECT_VALUE", "VALUE_TOKEN"}
      BY <1>2, <1>3, <1>6, <3>1 DEF HeapOK
    <3> QED
      BY <1>3, <3>2 DEF HeapOK, CellTags
  <2>3. Cared(g.own, g.its, symbols', stack', lastValue, v)
    BY <2>1, <2>2 DEF Cared
  <2> HIDE DEF all
  <2> QED
    BY <1>2, <1>3, <1>4, <1>5, <2>3, StepCares
<1>9. CASE (\A m \in DOMAIN s : s[m] # v) /\ owner[v] = "OBJECT_VALUE"
  <2>1. g.own[v] = "OBJECT_VALUE"
    BY <1>1, <1>3, <1>9
  <2>2. PICK b \in Boxes : \E i \in DOMAIN items[b] : items[b][i] = v
    BY <1>9 DEF CaredNow, Cared, NoItem
  <2>3. v \in all \/ ~ NoItem(g.its, v)
    BY <1>1, <1>3, <1>6, <1>9, <2>2 DEF NoItem
  <2>4. v \in all \/ Cared(g.own, g.its, symbols', stack', lastValue, v)
    BY <2>1, <2>3 DEF Cared
  <2> HIDE DEF all
  <2> QED
    BY <1>2, <1>3, <1>4, <1>5, <2>4, StepCares
<1>10. CASE (\A m \in DOMAIN s : s[m] # v) /\ owner[v] # "OBJECT_VALUE"
  <2>1. g.own[v] = owner[v]
    BY <1>1, <1>3, <1>10
  <2>2. \/ v \in all
        \/ owner[v] = "INTERPRETER" => \A i \in 0..k - 1 : v # ValueOf(stack[Height - i])
    BY <1>1, <1>7, <1>10 DEF OwnedBy
  <2> HIDE DEF all
  <2> QED
    BY <1>2, <1>3, <1>4, <1>5, <1>10, <2>1, <2>2, StepCares
<1> QED
  BY <1>8, <1>9, <1>10

\* What is cared for is cared for after every step but those that forget it.
LEMMA NextCares ==
  ASSUME Sharing = {}, ContainerInv, [Next]_vars, NEW v \in Cells, CaredNow(v)
  PROVE  CaredThen(v) \/ PopItem \/ Get \/ Compare \/ CreateStruct
<1>1. CASE UNCHANGED vars
  BY <1>1 DEF vars, CaredNow, CaredThen
<1>2. CASE Next
  BY <1>2, PushOperandCares, ComputeCares, EndOfLineCares, CreateEmptyListPushes,
     CreateListCares, ConcatenatePushes, RepeatPushes, PushesCares, AssignVariableCares,
     AssignTargetCares, PushItemRewrites, RemoveItemRewrites, ClearListRewrites, RewritesAllCares
     DEF Next
<1> QED
  BY <1>1, <1>2

LEMMA NextForgets ==
  ASSUME Sharing = {}, ContainerInv, ContainerInv', [Next]_vars
  PROVE  Orphans' \subseteq Orphans \/ PopItem \/ Get \/ Compare \/ CreateStruct
<1>1. \A v : v \in Orphans <=> v \in Cells /\ ~ CaredNow(v)
  BY OrphansAre, OrphansUncared DEF ContainerInv, CaredNow
<1>2. \A v : v \in Orphans' <=> v \in Cells /\ ~ CaredThen(v)
  BY OrphansAre, OrphansUncared DEF ContainerInv, CaredThen
<1> QED
  BY <1>1, <1>2, NextCares

\* Memory is lost only where the code has nobody to delete it: an element popped from
\* a list, a temporary list an element was read of, the results of comparing elements,
\* and the value that a struct's constructor copied.
THEOREM OrphansExplainedAlways == Sharing = {} => (Spec => OrphansExplained)
<1> SUFFICES ASSUME Sharing = {} PROVE Spec => OrphansExplained
  OBVIOUS
<1>1. ContainerInv /\ ContainerInv' /\ [Next]_vars =>
        [Orphans' \subseteq Orphans \/ PopItem \/ Get \/ Compare \/ CreateStruct]_vars
  BY NextForgets
<1>2. ContainerInv /\ [Next]_vars => ContainerInv'
  BY NextInv
<1> QED
  BY <1>1, <1>2, InitInv, PTL DEF Spec, OrphansExplained
=============================================================================
