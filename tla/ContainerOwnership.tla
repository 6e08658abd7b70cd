-------------------------- MODULE ContainerOwnership --------------------------
(***************************************************************************)
(* Lists and structs: who owns the values in them.  A List holds pointers  *)
(* to its elements and deletes those tagged OBJECT_VALUE with itself; the  *)
(* copies of a Struct share one table of members, which goes with the last *)
(* of them.  Elements and members are named by operands that are looked up *)
(* late: a ListElement keeps the list and an index, a struct access the    *)
(* name of a variable.                                                     *)
(*                                                                         *)
(* One action is one token, or the end, of a line of one interpreter, as   *)
(* in ValueOwnership, which has the calls and the errors.  Elements and    *)
(* members are scalars; an index, the size of a list and the number a list *)
(* is repeated are literals next to their token; a list is created with    *)
(* one element at most and a struct has one member.                        *)
(*                                                                         *)
(* Four constructs make two parties hold one value and leave both of them  *)
(* responsible for it, or let an operand outlive what it names.  Sharing   *)
(* says which of them the programs use.                                    *)
(***************************************************************************)
EXTENDS Naturals, Sequences, FiniteSets

CONSTANTS
  Scalars,   \* the names of variables with a scalar ...
  Lists,     \* ... a list ...
  Structs,   \* ... or a struct
  Cells,     \* heap addresses a Value can be allocated at
  Tables,    \* addresses of the members of a struct
  Literals,  \* values owned by the tokens of the program text
  Empty,     \* the shared None value (None::empty)
  Nil,       \* a null pointer, no symbol, or the contents of a scalar
  Freed,     \* a pointer to a value that has been deleted
  MaxStack,  \* bound on the operands of a line
  MaxItems,  \* bound on the elements of a list
  Sharing    \* the sharing constructs of the programs

Names  == Scalars \cup Lists \cup Structs
Values == Cells \cup Literals \cup {Empty}
Boxes  == Cells \cup Tables

SharingConstructs ==
  {"adopt",        \* a list is created from a variable's value
   "concatenate",  \* + on a list whose elements it owns
   "take",         \* an element or a member is assigned to something else
   "pending"}      \* a list shrinks or goes while an element of it is an operand

ASSUME ContainerAssumption ==
  /\ Scalars \cap Lists = {} /\ Scalars \cap Structs = {} /\ Lists \cap Structs = {}
  /\ Cells \cap Literals = {} /\ Empty \notin Cells \cup Literals
  /\ Tables \cap Values = {}
  /\ Nil \notin Values \cup Tables \cup {Freed}
  /\ Freed \notin Values
  /\ MaxStack \in Nat /\ MaxItems \in Nat \ {0}
  /\ Sharing \subseteq SharingConstructs

Owners == {"INTERPRETER", "CONTEXT_VARIABLE", "OBJECT_VALUE", "VALUE_TOKEN", "EMPTY_VALUE"}
OwnerRank == [INTERPRETER |-> 0, CONTEXT_VARIABLE |-> 2, OBJECT_VALUE |-> 3,
              VALUE_TOKEN |-> 4, EMPTY_VALUE |-> 6]

VARIABLES
  owner,      \* the tag of each value, "FREED" for an address not in use
  box,        \* where a container has its values: a list in itself, a struct in a
              \* table; Nil for a scalar
  items,      \* the elements of a list, the member of a struct
  symbols,    \* the symbol table
  stack,      \* the operands of the line
  lastValue,  \* the result of the last line ...
  fromItem    \* ... and whether it was an element or a member

heap == <<owner, box, items>>
vars == <<owner, box, items, symbols, stack, lastValue, fromItem>>

\* An operand: a value, a name, an element of a list, the member of a variable.
Operand(t, v)   == [tag |-> t, of |-> v, at |-> 0]
ElementAt(c, i) == [tag |-> "element", of |-> c, at |-> i]
ItemTags == {"element", "member"}

Init ==
  /\ owner = [v \in Values |-> IF v \in Literals THEN "VALUE_TOKEN"
                               ELSE IF v = Empty THEN "EMPTY_VALUE" ELSE "FREED"]
  /\ box = [v \in Values |-> Nil]
  /\ items = [b \in Boxes |-> <<>>]
  /\ symbols = [n \in Names |-> Nil]
  /\ stack = <<>>
  /\ lastValue = Nil
  /\ fromItem = FALSE

-----------------------------------------------------------------------------
(* Values *)

Live(v)     == owner[v] # "FREED"
IsList(v)   == box[v] = v
IsStruct(v) == box[v] \in Tables
IsScalar(v) == box[v] = Nil /\ v # Empty
ItemsOf(v)  == items[box[v]]
RangeOf(s)  == {s[i] : i \in DOMAIN s}

Fresh        == {c \in Cells : ~ Live(c)}
UnusedTables == {t \in Tables : \A v \in Values : box[v] # t}

OwnedBy(o, S) == {v \in S \cap Values : owner[v] = o}

\* Memory::popVariableValue
ValueOf(e) ==
  CASE e.tag = "value"   -> e.of
    [] e.tag = "name"    -> symbols[e.of]
    [] e.tag = "element" -> items[e.of][e.at]
    [] e.tag = "member"  -> ItemsOf(symbols[e.of])[1]

\* A heap with the value in it that an operation goes on with.
Heap(root, own, bx, its) == [root |-> root, own |-> own, bx |-> bx, its |-> its]
Same(v) == Heap(v, owner, box, items)

\* setOwner only ever raises the tag.
Raise(h, o) ==
  IF OwnerRank[o] > OwnerRank[h.own[h.root]] THEN [h EXCEPT !.own[h.root] = o] ELSE h

\* A new list: the values kept, then n new ones, which are copies of others.
NewLists(kept, n) ==
  UNION {{Heap(r, [v \in Values |-> IF v = r THEN "INTERPRETER"
                                    ELSE IF v \in RangeOf(new) THEN "OBJECT_VALUE"
                                    ELSE owner[v]],
               [box EXCEPT ![r] = r], [items EXCEPT ![r] = kept \o new]) :
            new \in {s \in [1..n -> Fresh \ {r}] : \A i, j \in 1..n : i # j => s[i] # s[j]}} :
         r \in Fresh}

\* Struct::copy shares the members.
StructCopies(v) ==
  {Heap(r, [owner EXCEPT ![r] = "INTERPRETER"], [box EXCEPT ![r] = box[v]], items) : r \in Fresh}
ScalarCopies == {Heap(r, [owner EXCEPT ![r] = "INTERPRETER"], box, items) : r \in Fresh}

\* The copy methods: List::copy copies the elements.
Copies(v) ==
  IF IsList(v) THEN NewLists(<<>>, Len(ItemsOf(v)))
  ELSE IF IsStruct(v) THEN StructCopies(v) ELSE ScalarCopies

ItemsOwned(h, b) == {v \in RangeOf(h.its[b]) : h.own[v] = "OBJECT_VALUE"}

\* Fault: a struct deletes its members without counting the others.
DraggedUncounted(h, dead) ==
  UNION {ItemsOwned(h, h.bx[c]) : c \in {d \in dead : h.bx[d] # Nil}}
\* Fault: no destructor.
DraggedNothing(h, dead) == {}

\* What the destructors of the containers among the dead delete in the heap h:
\* the elements they own, and the members no struct left needs.
Dragged(h, dead) ==
  UNION {ItemsOwned(h, h.bx[c]) :
           c \in {d \in dead : h.bx[d] # Nil /\ \A v \in Values \ dead : h.bx[v] # h.bx[d]}}

\* The heap is h once the dead are deleted, the result of the last line r.
Delete(h, dead, r) ==
  LET gone == dead \cup Dragged(h, dead)
      bx   == [v \in Values |-> IF v \in gone THEN Nil ELSE h.bx[v]]
  IN /\ owner' = [v \in Values |-> IF v \in gone THEN "FREED" ELSE h.own[v]]
     /\ box' = bx
     /\ items' = [b \in Boxes |-> IF \E v \in Values : bx[v] = b THEN h.its[b] ELSE <<>>]
     /\ lastValue' = IF r \in gone THEN Freed ELSE r

-----------------------------------------------------------------------------
(* Operands *)

Height   == Len(stack)
Top      == stack[Height]
Second   == stack[Height - 1]
Below(k) == SubSeq(stack, 1, Height - k)

Replace(k, v) == stack' = Append(Below(k), Operand("value", v))

\* The analyzer accepts a token when its k operands have values.
CanPop(k) == Height >= k /\ \A i \in 0..k - 1 : ValueOf(stack[Height - i]) # Nil

\* No element of the list c waits below the k topmost operands.
Settled(c, k) ==
  "pending" \in Sharing \/ \A i \in 1..Height - k : stack[i].tag = "element" => stack[i].of # c

\* A member can be named when the variable is a struct.
Accessible == {n \in Structs : symbols[n] # Nil}

PushOperand ==
  /\ Height < MaxStack
  /\ \E e \in {Operand("name", n) : n \in Names} \cup {Operand("value", v) : v \in Literals}
              \cup {Operand("member", n) : n \in Accessible} :
       stack' = Append(stack, e)
  /\ UNCHANGED <<heap, symbols, lastValue, fromItem>>

ListOnTop == CanPop(1) /\ IsList(ValueOf(Top))

\* The element i of the list on top; the list is not deleted, even if it is a
\* temporary.
GetAt(i) ==
  /\ stack' = Append(Below(1), ElementAt(ValueOf(Top), i))
  /\ UNCHANGED <<heap, symbols, lastValue, fromItem>>

\* Fault: the index is not checked from below.
GetUnchecked ==
  /\ ListOnTop
  /\ \E i \in 0..Len(ItemsOf(ValueOf(Top))) : GetAt(i)

Get ==
  /\ ListOnTop
  /\ \E i \in DOMAIN ItemsOf(ValueOf(Top)) : GetAt(i)

\* The k topmost operands are popped and read, the temporaries among them
\* deleted, and the result is r: a new value, or None.
Yield(k, r) ==
  /\ CanPop(k)
  /\ Delete(Heap(r, [v \in Values |-> IF v = r /\ r # Empty THEN "INTERPRETER" ELSE owner[v]],
                 box, items),
            OwnedBy("INTERPRETER", {ValueOf(stack[Height - i]) : i \in 0..k - 1}), lastValue)
  /\ Replace(k, r)
  /\ UNCHANGED <<symbols, fromItem>>

\* A cast to a scalar, an f-string, an operator or a builtin function of one or
\* two operands whose result is a scalar.
Compute == \E k \in 1..2, r \in Fresh : Yield(k, r)

\* The other builtin functions but those on lists: nothing is given, or None is
\* returned.
CallBuiltin ==
  \/ Height < MaxStack /\ \E r \in Fresh : Yield(0, r)
  \/ \E k \in 1..2 : Yield(k, Empty)

\* == and != on two lists of one length: the result for each pair of elements
\* compared is a value that nobody deletes.
Compare ==
  LET left == ValueOf(Second)  right == ValueOf(Top) IN
  /\ CanPop(2) /\ IsList(left) /\ IsList(right)
  /\ Len(ItemsOf(left)) = Len(ItemsOf(right))
  /\ \E lost \in (SUBSET Fresh) \ {{}} : \E r \in Fresh \ lost :
       /\ Cardinality(lost) <= Len(ItemsOf(left))
       /\ Delete(Heap(r, [v \in Values |-> IF v \in lost \cup {r} THEN "INTERPRETER" ELSE owner[v]],
                      box, items),
                 OwnedBy("INTERPRETER", {left, right}), lastValue)
       /\ Replace(2, r)
  /\ UNCHANGED <<symbols, fromItem>>

\* checkMemory: the operand left is the result, or else None is.  With a result
\* that was freed its reading of the tag is undefined, and the model stops.
EndOfLine ==
  LET result == IF Height = 0 THEN Operand("value", Empty) ELSE Top IN
  /\ Height <= 1 /\ lastValue # Freed
  /\ ValueOf(result) # Nil
  /\ Delete(Same(Nil), OwnedBy("INTERPRETER", {lastValue}), ValueOf(result))
  /\ fromItem' = (result.tag \in ItemTags)
  /\ stack' = <<>>
  /\ UNCHANGED symbols

-----------------------------------------------------------------------------
(* Lists and structs are created *)

\* An element or member is copied, anything else is taken as it is, a variable's
\* value included.
Adopted(v) ==
  {Raise(h, "OBJECT_VALUE") : h \in IF owner[v] = "OBJECT_VALUE" THEN Copies(v) ELSE {Same(v)}}
CreateEmptyList ==
  /\ Height < MaxStack
  /\ \E h \in NewLists(<<>>, 0) : Delete(h, {}, lastValue) /\ Replace(0, h.root)
  /\ UNCHANGED <<symbols, fromItem>>

\* What the analyzer wants of the elements of a list, and of the members of a
\* struct.
Listable   == CanPop(1) /\ IsScalar(ValueOf(Top))
Memberable == CanPop(1) /\ IsScalar(ValueOf(Top))

CreateList ==
  LET v == ValueOf(Top) IN
  /\ Listable
  /\ owner[v] = "CONTEXT_VARIABLE" => "adopt" \in Sharing
  /\ \E h \in Adopted(v) : \E r \in Fresh \ {h.root} :
       /\ Delete(Heap(r, [h.own EXCEPT ![r] = "INTERPRETER"], [h.bx EXCEPT ![r] = r],
                      [h.its EXCEPT ![r] = <<h.root>>]), {}, lastValue)
       /\ Replace(1, r)
  /\ UNCHANGED <<symbols, fromItem>>

\* A new struct in the heap h.  setMembers copies the value given, which nobody
\* deletes.
NewStructs(h) ==
  {Heap(r[1], [h.own EXCEPT ![r[1]] = "INTERPRETER", ![r[2]] = "OBJECT_VALUE"],
              [h.bx EXCEPT ![r[1]] = t], [h.its EXCEPT ![t] = <<r[2]>>]) :
     r \in {q \in Fresh \X Fresh : q[1] # q[2] /\ h.root \notin {q[1], q[2]}},
     t \in UnusedTables}

CreateStruct ==
  /\ Memberable
  /\ \E g \in Adopted(ValueOf(Top)) : \E h \in NewStructs(g) :
       Delete(h, {}, lastValue) /\ Replace(1, h.root)
  /\ UNCHANGED <<symbols, fromItem>>

\* List::opadd: the new list has the elements of the left one, not copies.
Concatenate ==
  LET left == ValueOf(Second)  right == ValueOf(Top) IN
  /\ CanPop(2) /\ IsList(left) /\ IsList(right)
  /\ Len(ItemsOf(left)) + Len(ItemsOf(right)) <= MaxItems
  /\ OwnedBy("OBJECT_VALUE", RangeOf(ItemsOf(left))) # {} => "concatenate" \in Sharing
  /\ \E h \in NewLists(ItemsOf(left), Len(ItemsOf(right))) :
       /\ Delete(h, OwnedBy("INTERPRETER", {left, right}), lastValue)
       /\ Replace(2, h.root)
  /\ UNCHANGED <<symbols, fromItem>>

\* List::opmul
Repeat ==
  LET left == ValueOf(Top) IN
  /\ CanPop(1) /\ IsList(left)
  /\ \E n \in 0..MaxItems :
       /\ n * Len(ItemsOf(left)) <= MaxItems
       /\ \E h \in NewLists(<<>>, n * Len(ItemsOf(left))) :
            /\ Delete(h, OwnedBy("INTERPRETER", {left}), lastValue)
            /\ Replace(1, h.root)
  /\ UNCHANGED <<symbols, fromItem>>

-----------------------------------------------------------------------------
(* Assignment *)

\* A variable's value is copied; the value of an element or a member is not.
Moved(e) == IF e.tag = "name" THEN Copies(ValueOf(e)) ELSE {Same(ValueOf(e))}
\* The target stays on the stack, the value has been popped.
Assignable ==
  /\ Height >= 2 /\ ValueOf(Top) # Nil
  /\ Top.tag \in ItemTags => "take" \in Sharing

\* Fault: no hold pointer.
ForgetNothing(held) == lastValue
\* The result of the last line is forgotten when it is what the target held.
Forget(held) == IF lastValue = held THEN Nil ELSE lastValue

\* Context::setValue
AssignVariable ==
  LET n == Second.of
      v == ValueOf(Top)
      dead == OwnedBy("CONTEXT_VARIABLE", {symbols[n]})
  IN
  /\ Assignable /\ Second.tag = "name"
  /\ \/ n \in Scalars /\ IsScalar(v)
     \/ n \in Lists /\ IsList(v)
     \/ n \in Structs /\ IsStruct(v)
  /\ Settled(symbols[n], 2)
  /\ \E h \in Moved(Top) :
       /\ Delete(Raise(h, "CONTEXT_VARIABLE"), dead,
                 IF dead # {} THEN Forget(symbols[n]) ELSE lastValue)
       /\ symbols' = [symbols EXCEPT ![n] = h.root]
  /\ stack' = Below(1)
  /\ UNCHANGED fromItem

\* The i-th value of box b is replaced.
AssignItem(b, i) ==
  LET held == items[b][i] IN
  /\ Assignable /\ IsScalar(ValueOf(Top))
  /\ \E h \in Moved(Top) :
       Delete([Raise(h, "OBJECT_VALUE") EXCEPT !.its[b][i] = h.root],
              OwnedBy("OBJECT_VALUE", {held}), Forget(held))
  /\ stack' = Below(1)
  /\ UNCHANGED <<symbols, fromItem>>

\* List::set
AssignElement ==
  /\ Height >= 2 /\ Second.tag = "element"
  /\ AssignItem(Second.of, Second.at)

\* Struct::setMember on the struct the variable has now (getStruct).
AssignMember ==
  /\ Height >= 2 /\ Second.tag = "member"
  /\ AssignItem(box[symbols[Second.of]], 1)

-----------------------------------------------------------------------------
(* The builtin functions on lists; what they return is None. *)

\* A builtin has left the elements s in the list, its k-th operand, and deleted
\* the dead; the call deletes the list if it is a temporary.
Rewrite(h, list, s, dead, k) ==
  /\ Delete([h EXCEPT !.its[list] = s], dead \cup OwnedBy("INTERPRETER", {list}), lastValue)
  /\ Replace(k, Empty)
  /\ UNCHANGED <<symbols, fromItem>>

\* Fault: an element of a list is put into the other as it is.
StoredElement(v) ==
  {Raise(h, "OBJECT_VALUE") :
     h \in IF owner[v] = "CONTEXT_VARIABLE" THEN Copies(v) ELSE {Same(v)}}
\* A temporary is put into the list itself, and so is a literal.
Stored(v) ==
  {Raise(h, "OBJECT_VALUE") :
     h \in IF owner[v] \in {"CONTEXT_VARIABLE", "OBJECT_VALUE"} THEN Copies(v) ELSE {Same(v)}}

\* push, and insert at any place
PushItem ==
  LET list == ValueOf(Second)  s == ItemsOf(list) IN
  /\ CanPop(2) /\ IsList(list) /\ IsScalar(ValueOf(Top))
  /\ Len(s) < MaxItems
  /\ \E h \in Stored(ValueOf(Top)), i \in 0..Len(s) :
       Rewrite(h, list, SubSeq(s, 1, i) \o <<h.root>> \o SubSeq(s, i + 1, Len(s)), {}, 2)

\* pop drops the last element and deletes nothing.
PopItem ==
  LET list == ValueOf(Top)  s == ItemsOf(list) IN
  /\ ListOnTop /\ s # <<>> /\ Settled(list, 1)
  /\ Rewrite(Same(list), list, SubSeq(s, 1, Len(s) - 1), {}, 1)

RemoveItem ==
  LET list == ValueOf(Top)  s == ItemsOf(list) IN
  /\ ListOnTop /\ Settled(list, 1)
  /\ \E i \in DOMAIN s :
       Rewrite(Same(list), list, SubSeq(s, 1, i - 1) \o SubSeq(s, i + 1, Len(s)),
               OwnedBy("OBJECT_VALUE", {s[i]}), 1)

ClearList ==
  LET list == ValueOf(Top) IN
  /\ ListOnTop /\ Settled(list, 1)
  /\ Rewrite(Same(list), list, <<>>, OwnedBy("OBJECT_VALUE", RangeOf(ItemsOf(list))), 1)

Next ==
  \/ PushOperand \/ Get \/ Compute \/ CallBuiltin \/ Compare \/ EndOfLine
  \/ CreateEmptyList \/ CreateList \/ CreateStruct \/ Concatenate \/ Repeat
  \/ AssignVariable \/ AssignElement \/ AssignMember
  \/ PushItem \/ PopItem \/ RemoveItem \/ ClearList

Spec == Init /\ [][Next]_vars

-----------------------------------------------------------------------------
(* Properties *)

OperandTypes ==
  {Operand("value", v) : v \in Values} \cup {Operand("name", n) : n \in Names}
    \cup {Operand("member", n) : n \in Structs}
    \cup {ElementAt(c, i) : c \in Cells, i \in 1..MaxItems}

\* The state has the shape the C++ declarations give it.
TypeOK ==
  /\ owner \in [Values -> Owners \cup {"FREED"}]
  /\ box \in [Values -> Boxes \cup {Nil}]
  /\ items \in [Boxes -> Seq(Values)]
  /\ symbols \in [Names -> Values \cup {Nil}]
  /\ stack \in Seq(OperandTypes)
  /\ lastValue \in Values \cup {Nil, Freed}
  /\ fromItem \in BOOLEAN

Contents == {v \in Values : Live(v) /\ box[v] # Nil}

\* Without the sharing constructs nothing the interpreter can reach has been
\* deleted: not a variable, not what an operand stands for, the element a
\* ListElement points to included, not a value in a list or struct.
NothingDangles ==
  /\ \A n \in Names : symbols[n] # Nil => Live(symbols[n])
  /\ \A c \in Contents : \A v \in RangeOf(ItemsOf(c)) : Live(v)
  /\ \A i \in DOMAIN stack :
       LET e == stack[i] IN
       CASE e.tag = "value"   -> Live(e.of)
         [] e.tag = "element" -> Live(e.of) /\ IsList(e.of) /\ e.at \in DOMAIN items[e.of]
         [] OTHER             -> TRUE

\* The variables, operands, elements and members that hold the value v.
Holders(v) ==
  {<<"symbol", n>> : n \in {m \in Names : symbols[m] = v}}
    \cup {<<"operand", i>> : i \in {j \in DOMAIN stack : stack[j] = Operand("value", v)}}
    \cup UNION {{<<"item", b, i>> : i \in {j \in DOMAIN items[b] : items[b][j] = v}} :
                b \in {box[c] : c \in Contents}}

\* Without the sharing constructs a value the program made is a variable's, an
\* operand's or in a container, never two of these: no two parties delete it,
\* and an assignment to a list changes no other list and no variable.
OneHolder == \A v \in Cells : \A p, q \in Holders(v) : p = q

\* The result of the last line is deleted behind the interpreter's back only if
\* the line ended with an element or a member: the hold pointers of the
\* assignments cover every other result.
OnlyElementsGoStale == lastValue = Freed => fromItem

\* The values their owner has lost sight of: a temporary that is neither an
\* operand nor the result of the last line, a variable's value that no variable
\* has, a container's that is in none.
Orphans ==
  OwnedBy("INTERPRETER", {v \in Cells : v # lastValue /\ \A i \in DOMAIN stack : stack[i] # Operand("value", v)})
    \cup OwnedBy("CONTEXT_VARIABLE", {v \in Cells : \A n \in Names : symbols[n] # v})
    \cup OwnedBy("OBJECT_VALUE", {v \in Cells : \A c \in Contents : v \notin RangeOf(ItemsOf(c))})

\* Nothing is forgotten but by pop (the element), get (a temporary list), a
\* comparison (the results for its elements) and the creation of a struct (the value
\* it copies).
OrphansExplained ==
  [][Orphans' \subseteq Orphans \/ PopItem \/ Get \/ Compare \/ CreateStruct]_vars
=============================================================================
