---------------------------- MODULE OwnershipProofs ----------------------------
(***************************************************************************)
(* Theorems about what the interpreter owns, for every value of the        *)
(* constants: the values of frames and variables (ValueOwnership), what a  *)
(* module keeps of its text (ModuleValues), the values a for loop holds    *)
(* (ForLoop) and the streams of File values (FileStreams).                 *)
(*                                                                         *)
(* ValueOwnership: the ownership invariant is inductive when no name       *)
(* written without a hold pointer is the result of a line.  From it: no    *)
(* operand, variable, argument or result a frame will still read is freed  *)
(* memory, no value is deleted twice, and none is forgotten.               *)
(***************************************************************************)
EXTENDS ValueOwnership, ModuleValues, ForLoop, FileStreams, SequenceTheorems, NumbersAndSequences,
        TLAPS

-----------------------------------------------------------------------------
(* Sequences: what pushing and popping operands does. *)

LEMMA PushSeq ==
  ASSUME NEW S, NEW s \in Seq(S), NEW e \in S
  PROVE  /\ Append(s, e) \in Seq(S)
         /\ Len(Append(s, e)) = Len(s) + 1
         /\ \A i \in 1..Len(s) : Append(s, e)[i] = s[i]
         /\ Append(s, e)[Len(s) + 1] = e
  OBVIOUS

LEMMA PopSeq ==
  ASSUME NEW S, NEW s \in Seq(S), NEW k \in Nat, k <= Len(s)
  PROVE  /\ SubSeq(s, 1, Len(s) - k) \in Seq(S)
         /\ Len(SubSeq(s, 1, Len(s) - k)) = Len(s) - k
         /\ \A i \in 1..(Len(s) - k) : SubSeq(s, 1, Len(s) - k)[i] = s[i]
  OBVIOUS

-----------------------------------------------------------------------------
(* Types *)

LEMMA InitTypeOK == Init => TypeOK
<1> SUFFICES ASSUME Init PROVE TypeOK
  OBVIOUS
<1> USE OwnershipAssumption DEF Init
<1>1. owner \in [Values -> Owners \cup {"FREED"}]
  BY DEF Owners
<1>2. depth \in Frames /\ lineBase \in [Frames -> Nat] /\ args \in [Frames -> SUBSET Values]
  BY DEF Frames
<1>3. /\ symbols \in [Frames -> [Names -> Values \cup {Nil}]]
      /\ lastValue \in [Frames -> Values \cup {Nil}]
  BY DEF NoSymbols
<1>4. stack \in [Frames -> Seq(Operands)]
  <2>1. <<>> \in Seq(Operands)
    OBVIOUS
  <2>2. QED
    BY <2>1
<1>5. QED
  BY <1>1, <1>2, <1>3, <1>4 DEF TypeOK

\* What the helpers that rewrite the owner tags return.
LEMMA FreeType ==
  ASSUME TypeOK, NEW S
  PROVE  Free(S) \in [Values -> Owners \cup {"FREED"}]
  BY DEF TypeOK, Free

LEMMA PushOperandTypeOK ==
  ASSUME TypeOK, PushOperand
  PROVE  TypeOK'
  BY OwnershipAssumption DEF TypeOK, PushOperand, Operands, Values

LEMMA ComputeTypeOK ==
  ASSUME TypeOK, NEW k \in Nat, Compute(k)
  PROVE  TypeOK'
  BY OwnershipAssumption DEF TypeOK, Compute, Operands, Values, Below, Free, Fresh,
     Height, CanPop, LineOperands, Owners

LEMMA FailTypeOK ==
  ASSUME TypeOK, NEW k \in Nat, Fail(k)
  PROVE  TypeOK'
  BY OwnershipAssumption DEF TypeOK, Fail, Below, Height, CanPop, LineOperands

LEMMA CallBuiltinTypeOK ==
  ASSUME TypeOK, CallBuiltin
  PROVE  TypeOK'
<1>1. PICK k \in 0..MaxStack :
         \/ Compute(k) \/ Fail(k)
         \/ /\ CanPop(k)
            /\ owner' = Free(Temporaries(Popped(k)))
            /\ stack' = [stack EXCEPT ![depth] = Append(Below(k), Empty)]
            /\ UNCHANGED <<depth, symbols, lineBase, lastValue, args, status, errorSeen>>
  BY DEF CallBuiltin
<1>2. k \in Nat
  BY OwnershipAssumption
<1>3. CASE Compute(k)
  BY <1>2, <1>3, ComputeTypeOK
<1>4. CASE Fail(k)
  BY <1>2, <1>4, FailTypeOK
<1>5. CASE /\ CanPop(k)
           /\ owner' = Free(Temporaries(Popped(k)))
           /\ stack' = [stack EXCEPT ![depth] = Append(Below(k), Empty)]
           /\ UNCHANGED <<depth, symbols, lineBase, lastValue, args, status, errorSeen>>
  <2>1. owner' \in [Values -> Owners \cup {"FREED"}]
    BY <1>5, FreeType
  <2>2. stack' \in [Frames -> Seq(Operands)]
    BY <1>2, <1>5 DEF TypeOK, Below, Height, CanPop, LineOperands, Operands, Values
  <2>3. QED
    BY <1>5, <2>1, <2>2 DEF TypeOK
<1>6. QED
  BY <1>1, <1>3, <1>4, <1>5

\* Storing a value under a name: the tag given to it is a tag.
LEMMA SetValueType ==
  ASSUME TypeOK, NEW n \in Names, NEW v \in Values, NEW from \in Owners \cup {"FREED"},
         SetValue(n, v, from)
  PROVE  /\ owner' \in [Values -> Owners \cup {"FREED"}]
         /\ symbols' \in [Frames -> [Names -> Values \cup {Nil}]]
<1>1. RaiseOwner(from, "CONTEXT_VARIABLE") \in Owners \cup {"FREED"}
  BY DEF RaiseOwner, Owners
<1>2. QED
  BY <1>1 DEF SetValue, TypeOK

LEMMA AssignTypeOK ==
  ASSUME TypeOK, Assign
  PROVE  TypeOK'
<1> DEFINE target == stack[depth][Height - 1]
           left == Resolve(depth, Top)
           copy == MustCopy(Top)
<1>1. /\ Running /\ LineOperands >= 2 /\ target \in Names /\ left # Nil
      /\ stack' = [stack EXCEPT ![depth] = Below(1)]
      /\ lastValue' = [lastValue EXCEPT ![depth] = ResultWithout(symbols[depth][target])]
      /\ UNCHANGED <<depth, lineBase, args, status, errorSeen>>
  BY DEF Assign
<1>2. PICK v \in (IF copy THEN Fresh ELSE {left}) :
        SetValue(target, v, IF copy THEN "INTERPRETER" ELSE owner[v])
  BY DEF Assign
<1>3. Height \in Nat /\ Height >= 2
  BY <1>1 DEF TypeOK, Height, LineOperands
<1>4. Top \in Operands
  BY <1>3 DEF Top, TypeOK, Height
<1>5. left \in Values
  <2>1. 1 \in Frames
    BY OwnershipAssumption DEF Frames
  <2>2. QED
    BY <1>1, <1>4, <2>1 DEF Resolve, Lookup, TypeOK, Operands
<1>6. v \in Values
  BY <1>2, <1>5 DEF Fresh, Values
<1>7. (IF copy THEN "INTERPRETER" ELSE owner[v]) \in Owners \cup {"FREED"}
  BY <1>6 DEF TypeOK, Owners
<1>8. /\ owner' \in [Values -> Owners \cup {"FREED"}]
      /\ symbols' \in [Frames -> [Names -> Values \cup {Nil}]]
  BY <1>1, <1>2, <1>6, <1>7, SetValueType
<1>9. stack' \in [Frames -> Seq(Operands)]
  BY <1>1, <1>3 DEF TypeOK, Below, Height
<1>10. lastValue' \in [Frames -> Values \cup {Nil}]
  BY <1>1 DEF TypeOK, ResultWithout
<1>11. QED
  BY <1>1, <1>8, <1>9, <1>10 DEF TypeOK

LEMMA ResolveType ==
  ASSUME TypeOK, NEW d \in Frames, NEW e \in Operands
  PROVE  Resolve(d, e) \in Values \cup {Nil}
<1>1. 1 \in Frames
  BY OwnershipAssumption DEF Frames
<1>2. QED
  BY <1>1 DEF Resolve, Lookup, TypeOK, Operands

LEMMA EndOfLineTypeOK ==
  ASSUME TypeOK, EndOfLine
  PROVE  TypeOK'
<1>1. owner' \in [Values -> Owners \cup {"FREED"}]
  BY FreeType DEF EndOfLine
<1>2. CASE NothingLeft
  <2>1. Empty \in Values
    BY DEF Values
  <2>2. QED
    BY <1>1, <1>2, <2>1 DEF EndOfLine, NothingLeft, TypeOK
<1>3. CASE OperandLeft
  <2>1. Height \in Nat /\ Height > 0
    BY <1>3 DEF OperandLeft, Height, TypeOK
  <2>2. Top \in Operands /\ depth \in Frames
    BY <2>1 DEF Top, Height, TypeOK
  <2>3. Resolve(depth, Top) \in Values
    BY <1>3, <2>2, ResolveType DEF OperandLeft
  <2>4. stack' \in [Frames -> Seq(Operands)]
    BY <1>3, <2>1 DEF OperandLeft, Below, Height, TypeOK
  <2>5. lineBase' \in [Frames -> Nat]
    BY <1>3, <2>1 DEF OperandLeft, TypeOK
  <2>6. lastValue' \in [Frames -> Values \cup {Nil}]
    BY <1>3, <2>3 DEF OperandLeft, TypeOK
  <2>7. QED
    BY <1>1, <2>4, <2>5, <2>6 DEF EndOfLine, TypeOK
<1>4. QED
  BY <1>2, <1>3 DEF EndOfLine

LEMMA UndefinedOperandTypeOK ==
  ASSUME TypeOK, UndefinedOperand
  PROVE  TypeOK'
  BY DEF TypeOK, UndefinedOperand

LEMMA DefineFunctionTypeOK ==
  ASSUME TypeOK, DefineFunction
  PROVE  TypeOK'
<1>1. PICK n \in FunctionNames, f \in Fresh : SetValue(n, f, "CONTEXT_VARIABLE")
  BY DEF DefineFunction
<1>2. n \in Names /\ f \in Values
  BY OwnershipAssumption DEF Fresh, Values
<1>3. /\ owner' \in [Values -> Owners \cup {"FREED"}]
      /\ symbols' \in [Frames -> [Names -> Values \cup {Nil}]]
  <2>1. "CONTEXT_VARIABLE" \in Owners \cup {"FREED"}
    BY DEF Owners
  <2>2. QED
    BY <1>1, <1>2, <2>1, SetValueType
<1>4. QED
  BY <1>3 DEF TypeOK, DefineFunction

LEMMA CatchTypeOK ==
  ASSUME TypeOK, Catch
  PROVE  TypeOK'
<1>1. PICK n \in ErrorNames, m \in Fresh : SetValue(n, m, "CONTEXT_VARIABLE")
  BY DEF Catch
<1>2. n \in Names /\ m \in Values
  BY OwnershipAssumption DEF Fresh, Values
<1>3. /\ owner' \in [Values -> Owners \cup {"FREED"}]
      /\ symbols' \in [Frames -> [Names -> Values \cup {Nil}]]
  <2>1. "CONTEXT_VARIABLE" \in Owners \cup {"FREED"}
    BY DEF Owners
  <2>2. QED
    BY <1>1, <1>2, <2>1, SetValueType
<1>4. Height \in Nat
  BY DEF Height, TypeOK
<1>5. QED
  BY <1>3, <1>4 DEF TypeOK, Catch

\* popVariableValue yields values, once the analyzer knows the names.
LEMMA PoppedType ==
  ASSUME TypeOK, NEW k \in Nat, CanPop(k)
  PROVE  /\ Popped(k) \subseteq Values
         /\ Height \in Nat /\ k <= Height
         /\ Below(k) \in Seq(Operands)
<1>1. Height \in Nat /\ k <= Height
  BY DEF TypeOK, CanPop, LineOperands, Height
<1>2. Below(k) \in Seq(Operands)
  BY <1>1 DEF TypeOK, Below, Height
<1>3. ASSUME NEW i \in (Height - k + 1)..Height
      PROVE  Resolve(depth, stack[depth][i]) \in Values \cup {Nil}
  <2>1. stack[depth][i] \in Operands /\ depth \in Frames
    BY <1>1, <1>3 DEF TypeOK, Height
  <2>2. QED
    BY <2>1, ResolveType
<1>4. QED
  BY <1>1, <1>2, <1>3 DEF Popped, CanPop

LEMMA UserCallTypeOK ==
  ASSUME TypeOK, NEW k \in Nat, UserCall(k)
  PROVE  TypeOK'
<1>1. PICK P \in SUBSET Names : \E copies \in [P -> Fresh] :
        /\ symbols' = [symbols EXCEPT ![depth + 1] =
                         [n \in Names |-> IF n \in P THEN copies[n] ELSE Nil]]
        /\ owner' = [v \in Values |-> IF \E n \in P : copies[n] = v
                                      THEN "CONTEXT_VARIABLE" ELSE owner[v]]
  BY DEF UserCall
<1>7. PICK copies \in [P -> Fresh] :
        /\ symbols' = [symbols EXCEPT ![depth + 1] =
                         [n \in Names |-> IF n \in P THEN copies[n] ELSE Nil]]
        /\ owner' = [v \in Values |-> IF \E n \in P : copies[n] = v
                                      THEN "CONTEXT_VARIABLE" ELSE owner[v]]
  BY <1>1
<1>2. depth \in Frames /\ depth + 1 \in Frames
  BY OwnershipAssumption DEF UserCall, TypeOK, Frames
<1>3. owner' \in [Values -> Owners \cup {"FREED"}]
  BY <1>7 DEF TypeOK, Owners
<1>4. symbols' \in [Frames -> [Names -> Values \cup {Nil}]]
  <2>1. [n \in Names |-> IF n \in P THEN copies[n] ELSE Nil] \in [Names -> Values \cup {Nil}]
    BY DEF Fresh, Values
  <2>2. QED
    BY <1>7, <2>1 DEF TypeOK
<1>5. /\ stack' \in [Frames -> Seq(Operands)]
      /\ args' \in [Frames -> SUBSET Values]
  BY PoppedType DEF UserCall, TypeOK
<1>6. QED
  BY <1>2, <1>3, <1>4, <1>5 DEF UserCall, TypeOK

\* Leaving the top frame, with a result or with an error.
LEMMA DropFrameType ==
  ASSUME TypeOK, depth > 1, DropFrame(depth)
  PROVE  /\ depth' \in Frames
         /\ symbols' \in [Frames -> [Names -> Values \cup {Nil}]]
         /\ lineBase' \in [Frames -> Nat]
         /\ lastValue' \in [Frames -> Values \cup {Nil}]
         /\ args' \in [Frames -> SUBSET Values]
<1>1. depth \in Frames /\ depth - 1 \in Frames
  BY OwnershipAssumption DEF TypeOK, Frames
<1>2. QED
  BY <1>1 DEF TypeOK, DropFrame, NoSymbols

LEMMA LeaveWithTypeOK ==
  ASSUME TypeOK, depth > 1, NEW r \in Values, LeaveWith(r),
         owner' \in [Values -> Owners \cup {"FREED"}]
  PROVE  TypeOK'
<1>1. depth \in Frames /\ depth - 1 \in Frames
  BY OwnershipAssumption DEF TypeOK, Frames
<1>2. stack' \in [Frames -> Seq(Operands)]
  <2>1. /\ <<>> \in Seq(Operands)
        /\ Append(stack[depth - 1], r) \in Seq(Operands)
    BY <1>1 DEF TypeOK, Operands
  <2>2. QED
    BY <1>1, <2>1 DEF LeaveWith, TypeOK
<1>3. DropFrame(depth) /\ UNCHANGED <<status, errorSeen>>
  BY DEF LeaveWith
<1>4. QED
  BY <1>2, <1>3, DropFrameType DEF TypeOK

LEMMA LeaveWithErrorTypeOK ==
  ASSUME TypeOK, depth > 1, LeaveWithError
  PROVE  TypeOK'
<1>1. owner' \in [Values -> Owners \cup {"FREED"}]
  BY FreeType DEF LeaveWithError
<1>2. stack' \in [Frames -> Seq(Operands)]
  <2>1. <<>> \in Seq(Operands)
    OBVIOUS
  <2>2. QED
    BY <2>1 DEF LeaveWithError, TypeOK
<1>3. DropFrame(depth) /\ status' = "error" /\ errorSeen' = TRUE
  BY DEF LeaveWithError
<1>4. QED
  BY <1>1, <1>2, <1>3, DropFrameType DEF TypeOK

LEMMA LeavingTypeOK ==
  ASSUME TypeOK, Return \/ EndOfBody \/ ReturnError \/ Unwind
  PROVE  TypeOK'
<1>1. CASE Return
  <2>1. PICK r \in Fresh :
          /\ owner' = [Free(FrameValues(depth) \cup CallArguments) EXCEPT ![r] = "INTERPRETER"]
          /\ LeaveWith(r)
    BY <1>1 DEF Return
  <2>2. r \in Values /\ depth > 1
    BY <1>1 DEF Return, Fresh, Values
  <2>3. owner' \in [Values -> Owners \cup {"FREED"}]
    BY <2>1, FreeType DEF Owners
  <2>4. QED
    BY <2>1, <2>2, <2>3, LeaveWithTypeOK
<1>2. CASE EndOfBody
  <2>1. Empty \in Values /\ depth > 1 /\ LeaveWith(Empty)
    BY <1>2 DEF EndOfBody, Values
  <2>2. owner' \in [Values -> Owners \cup {"FREED"}]
    BY <1>2, FreeType DEF EndOfBody
  <2>3. QED
    BY <2>1, <2>2, LeaveWithTypeOK
<1>3. CASE ReturnError \/ Unwind
  BY <1>3, LeaveWithErrorTypeOK DEF ReturnError, Unwind
<1>4. QED
  BY <1>1, <1>2, <1>3

LEMMA EndingTypeOK ==
  ASSUME TypeOK, EndOfFile \/ Abort \/ DestroyInterpreter
  PROVE  TypeOK'
<1>1. 1 \in Frames /\ <<>> \in Seq(Operands)
  BY OwnershipAssumption DEF Frames
<1>2. CASE Abort
  BY <1>2, FreeType DEF TypeOK, Abort
<1>3. CASE EndOfFile
  <2>1. owner' \in [Values -> Owners \cup {"FREED"}]
    BY <1>3, FreeType DEF EndOfFile
  <2>2. symbols' \in [Frames -> [Names -> Values \cup {Nil}]]
    BY <1>1, <1>3 DEF TypeOK, EndOfFile
  <2>3. QED
    BY <1>3, <2>1, <2>2 DEF TypeOK, EndOfFile
<1>4. CASE DestroyInterpreter
  <2>1. owner' \in [Values -> Owners \cup {"FREED"}]
    BY <1>4, FreeType DEF DestroyInterpreter
  <2>2. /\ symbols' \in [Frames -> [Names -> Values \cup {Nil}]]
        /\ stack' \in [Frames -> Seq(Operands)]
        /\ lineBase' \in [Frames -> Nat]
        /\ lastValue' \in [Frames -> Values \cup {Nil}]
    BY <1>1, <1>4 DEF TypeOK, DestroyInterpreter, NoSymbols
  <2>3. QED
    BY <1>4, <2>1, <2>2 DEF TypeOK, DestroyInterpreter
<1>5. QED
  BY <1>2, <1>3, <1>4

\* Every action preserves the types: the tags stay tags, the symbol tables
\* and stacks hold values, and the call depth stays within the frames.
LEMMA NextTypeOK ==
  ASSUME TypeOK, [Next]_vars
  PROVE  TypeOK'
<1>1. CASE PushOperand
  BY <1>1, PushOperandTypeOK
<1>2. CASE Operator \/ Cast \/ FString
  BY <1>2, ComputeTypeOK, OwnershipAssumption DEF Operator, Cast, FString
<1>3. CASE DivisionByZero \/ NegativeRepeat
  BY <1>3, FailTypeOK DEF DivisionByZero, NegativeRepeat
<1>4. CASE CallBuiltin
  BY <1>4, CallBuiltinTypeOK
<1>5. CASE Assign
  BY <1>5, AssignTypeOK
<1>6. CASE EndOfLine
  BY <1>6, EndOfLineTypeOK
<1>7. CASE UndefinedOperand
  BY <1>7, UndefinedOperandTypeOK
<1>8. CASE DefineFunction
  BY <1>8, DefineFunctionTypeOK
<1>9. CASE \E k \in 0..MaxStack : UserCall(k)
  BY <1>9, UserCallTypeOK, OwnershipAssumption
<1>10. CASE Return \/ EndOfBody \/ ReturnError \/ Unwind
  BY <1>10, LeavingTypeOK
<1>11. CASE Catch
  BY <1>11, CatchTypeOK
<1>12. CASE EndOfFile \/ Abort \/ DestroyInterpreter
  BY <1>12, EndingTypeOK
<1>13. CASE UNCHANGED vars
  BY <1>13 DEF TypeOK, vars
<1>14. QED
  BY <1>1, <1>2, <1>3, <1>4, <1>5, <1>6, <1>7, <1>8, <1>9, <1>10, <1>11, <1>12,
     <1>13 DEF Next

\* The state of the interpreter always has the shape its declarations give it.
THEOREM TypeCorrect == Spec => []TypeOK
<1>1. Init => TypeOK
  BY InitTypeOK
<1>2. TypeOK /\ [Next]_vars => TypeOK'
  BY NextTypeOK
<1>3. QED
  BY <1>1, <1>2, PTL DEF Spec

-----------------------------------------------------------------------------
(* The ownership invariant *)

USE DEF TextAlive

-----------------------------------------------------------------------------
(* Reading the invariant. *)

LEMMA FrameFacts ==
  ASSUME TypeOK
  PROVE  /\ 1 \in Frames /\ depth \in Frames /\ depth \in Nat /\ depth >= 1
         /\ \A d \in Frames : d \in Nat /\ d >= 1 /\ Len(stack[d]) \in Nat
         /\ \A d \in Frames : \A i \in 1..Len(stack[d]) : stack[d][i] \in Operands
         /\ Height \in Nat
<1>1. 1 \in Frames /\ depth \in Frames /\ \A d \in Frames : d \in Nat /\ d >= 1
  BY OwnershipAssumption DEF TypeOK, Frames
<1>2. \A d \in Frames : stack[d] \in Seq(Operands)
  BY DEF TypeOK
<1>3. QED
  BY <1>1, <1>2 DEF Height

\* A tag that is the interpreter's, or a context's, is the tag of a cell.
LEMMA TagFacts ==
  ASSUME OwnershipInv, NEW v \in Values, v \notin Cells
  PROVE  /\ owner[v] \in {"VALUE_TOKEN", "EMPTY_VALUE", "FREED"}
         /\ TextAlive => owner[v] \in {"VALUE_TOKEN", "EMPTY_VALUE"}
  BY DEF OwnershipInv, Tags, Values

\* While the text is alive a step that leaves the tags of the literals and of
\* None alone, and gives cells only tags of cells, keeps the tags right.
LEMMA TagsKept ==
  ASSUME OwnershipInv, TextAlive, TextAlive',
         \A w \in Literals \cup {Empty} : owner'[w] = owner[w],
         \A c \in Cells : owner'[c] \in {"FREED", "INTERPRETER", "CONTEXT_VARIABLE"}
  PROVE  Tags'
  BY DEF OwnershipInv, Tags

\* A free address is held by nobody.
LEMMA FreshUnheld ==
  ASSUME OwnershipInv, NEW r \in Fresh
  PROVE  /\ r \in Cells /\ r \in Values /\ owner[r] = "FREED"
         /\ \A d \in Frames :
              /\ \A i \in 1..Len(stack[d]) : stack[d][i] # r
              /\ \A n \in Names : symbols[d][n] # r
              /\ r \notin args[d]
              /\ TextAlive => lastValue[d] # r
<1>1. r \in Cells /\ r \in Values /\ owner[r] = "FREED"
  BY DEF Fresh, Values
<1>2. 1 \in Frames
  BY FrameFacts DEF OwnershipInv
<1>3. \A d \in Frames : \A n \in Names : symbols[d][n] # r
  BY <1>1 DEF OwnershipInv, VariablesOwned
<1>4. \A d \in Frames : \A N \in SUBSET Names : ~Visible(d, r, N)
  BY <1>2, <1>3 DEF Visible
<1>5. \A d \in Frames : \A i \in 1..Len(stack[d]) : stack[d][i] # r
  BY <1>1 DEF OwnershipInv, OperandsOwned
<1>6. \A d \in Frames : r \notin args[d]
  BY <1>1, <1>4 DEF OwnershipInv, ArgsOwned
<1>7. \A d \in Frames : TextAlive => lastValue[d] # r
  BY <1>1, <1>4, OwnershipAssumption DEF OwnershipInv, ResultsOwned
<1>8. QED
  BY <1>1, <1>3, <1>5, <1>6, <1>7

\* A temporary among the popped operands came from the stack, from one place
\* only, and no variable, argument or result is that temporary.
LEMMA PoppedTemporary ==
  ASSUME OwnershipInv, NEW k \in Nat, CanPop(k), NEW v \in Popped(k),
         v \in Cells, owner[v] = "INTERPRETER"
  PROVE  /\ \A d \in Frames : \A i \in 1..Len(stack[d]) :
              stack[d][i] = v => d = depth /\ i > Height - k
         /\ \A d \in Frames : /\ \A n \in Names : symbols[d][n] # v
                              /\ lastValue[d] # v
                              /\ v \notin args[d]
<1>1. /\ TypeOK /\ 1 \in Frames /\ depth \in Frames
      /\ Height \in Nat /\ k <= Height /\ Height = Len(stack[depth])
  BY FrameFacts, PoppedType DEF OwnershipInv, Height
<1>2. PICK i \in (Height - k + 1)..Height : v = Resolve(depth, stack[depth][i])
  BY DEF Popped
<1>3. \A d \in Frames : \A n \in Names : symbols[d][n] # v
  BY DEF OwnershipInv, VariablesOwned
<1>4. i \in 1..Len(stack[depth]) /\ stack[depth][i] = v
  BY <1>1, <1>2, <1>3 DEF Resolve, Lookup
<1>5. \A d \in Frames : lastValue[d] # v /\ v \notin args[d]
  BY <1>1, <1>4 DEF OwnershipInv, HoldersDisjoint
<1>6. ASSUME NEW d \in Frames, NEW j \in 1..Len(stack[d]), stack[d][j] = v
      PROVE  d = depth /\ j = i
  BY <1>1, <1>4, <1>6 DEF OwnershipInv, HoldersDisjoint
<1>7. QED
  BY <1>1, <1>2, <1>3, <1>5, <1>6

\* A popped cell is a temporary or a variable the frame sees.
LEMMA PoppedCell ==
  ASSUME OwnershipInv, NEW k \in Nat, CanPop(k), NEW v \in Popped(k), v \in Cells
  PROVE  \/ owner[v] = "INTERPRETER"
         \/ Visible(depth, v, Names) /\ owner[v] = "CONTEXT_VARIABLE"
<1>1. /\ TypeOK /\ 1 \in Frames /\ depth \in Frames
      /\ Height \in Nat /\ k <= Height /\ Height = Len(stack[depth])
  BY FrameFacts, PoppedType DEF OwnershipInv, Height
<1>2. PICK i \in (Height - k + 1)..Height : v = Resolve(depth, stack[depth][i])
  BY DEF Popped
<1>3. i \in 1..Len(stack[depth])
  BY <1>1, <1>2
<1>4. CASE stack[depth][i] \in Names
  BY <1>1, <1>2, <1>4 DEF Resolve, Lookup, Visible, OwnershipInv, VariablesOwned
<1>5. CASE stack[depth][i] \notin Names
  BY <1>1, <1>2, <1>3, <1>5 DEF Resolve, OwnershipInv, OperandsOwned
<1>6. QED
  BY <1>4, <1>5

-----------------------------------------------------------------------------
(* Tokens of a line *)

LEMMA InitOwnership == Init => OwnershipInv
<1> SUFFICES ASSUME Init PROVE OwnershipInv
  OBVIOUS
<1> USE OwnershipAssumption
<1>1. TypeOK
  BY InitTypeOK
<1>2. \A d \in Frames : /\ stack[d] = <<>> /\ lastValue[d] = Nil /\ args[d] = {}
                        /\ \A n \in Names : symbols[d][n] = Nil
  BY DEF Init, NoSymbols
<1>3. Nil \notin Cells
  BY DEF Operands, Values
<1>4. Tags
  BY DEF Init, Tags, Values
<1>5. IdleFramesEmpty
  BY <1>2 DEF Init, IdleFramesEmpty
<1>6. OperandsOwned /\ VariablesOwned /\ VariablesUnshared /\ ResultsOwned /\ ArgsOwned
  BY <1>2, <1>3 DEF OperandsOwned, VariablesOwned, VariablesUnshared, ResultsOwned, ArgsOwned
<1>7. HoldersDisjoint
  BY <1>2, <1>3 DEF HoldersDisjoint
<1>8. QED
  BY <1>1, <1>4, <1>5, <1>6, <1>7 DEF OwnershipInv

\* Operands left in place and values popped: what remains is what was there.
LEMMA BelowFacts ==
  ASSUME TypeOK, NEW k \in Nat, CanPop(k)
  PROVE  /\ Below(k) \in Seq(Operands)
         /\ Len(Below(k)) = Height - k
         /\ Height - k \in Nat
         /\ \A i \in 1..(Height - k) : /\ Below(k)[i] = stack[depth][i]
                                       /\ i \in 1..Len(stack[depth])
<1>1. Height \in Nat /\ k <= Height /\ Height = Len(stack[depth])
  BY PoppedType DEF Height
<1>2. stack[depth] \in Seq(Operands)
  BY DEF TypeOK
<1>3. QED
  BY <1>1, <1>2, PopSeq DEF Below

\* Pop k operands, delete their temporaries, push r: a new temporary or None.
LEMMA PushResult ==
  ASSUME OwnershipInv, TypeOK', NEW k \in Nat, CanPop(k), NEW r \in Fresh \cup {Empty},
         \A v \in Values :
           owner'[v] = IF v = r THEN IF r = Empty THEN "EMPTY_VALUE" ELSE "INTERPRETER"
                       ELSE IF v \in Temporaries(Popped(k)) THEN "FREED" ELSE owner[v],
         stack' = [stack EXCEPT ![depth] = Append(Below(k), r)],
         UNCHANGED <<depth, symbols, lineBase, lastValue, args, status, errorSeen>>,
         Running
  PROVE  OwnershipInv'
<1> USE OwnershipAssumption
<1> DEFINE F == Temporaries(Popped(k))
<1>1. /\ TypeOK /\ 1 \in Frames /\ depth \in Frames /\ depth' = depth
      /\ \A d \in Frames : d \in Nat /\ d >= 1
      /\ Popped(k) \subseteq Values
  BY FrameFacts, PoppedType DEF OwnershipInv
<1>2. /\ r \in Values /\ r \notin Names
      /\ r \in Cells => \A d \in Frames :
           /\ \A i \in 1..Len(stack[d]) : stack[d][i] # r
           /\ \A n \in Names : symbols[d][n] # r
           /\ r \notin args[d]
           /\ lastValue[d] # r
  BY FreshUnheld DEF Values, Running
<1>3. r \in Cells <=> r # Empty
  BY DEF Fresh
<1>4. \A v \in F : /\ v \in Cells /\ owner[v] = "INTERPRETER" /\ v \in Values
                   /\ \A d \in Frames : \A i \in 1..Len(stack[d]) :
                        stack[d][i] = v => d = depth /\ i > Height - k
                   /\ \A d \in Frames : /\ \A n \in Names : symbols[d][n] # v
                                        /\ lastValue[d] # v
                                        /\ v \notin args[d]
  <2>1. ASSUME NEW v \in F PROVE v \in Cells /\ owner[v] = "INTERPRETER" /\ v \in Popped(k)
    BY <1>1, <2>1, TagFacts DEF Temporaries, OwnedBy
  <2>2. QED
    BY <2>1, PoppedTemporary DEF Values
<1>5. /\ stack'[depth] = Append(Below(k), r)
      /\ \A d \in Frames \ {depth} : stack'[d] = stack[d]
  BY <1>1 DEF TypeOK
<1>6. /\ Len(stack'[depth]) = Height - k + 1
      /\ stack'[depth][Height - k + 1] = r
      /\ Height - k \in Nat
      /\ \A i \in 1..(Height - k) : /\ stack'[depth][i] = stack[depth][i]
                                    /\ i \in 1..Len(stack[depth])
  <2>1. r \in Operands
    BY <1>2 DEF Operands
  <2>2. /\ Below(k) \in Seq(Operands) /\ Len(Below(k)) = Height - k /\ Height - k \in Nat
        /\ \A i \in 1..(Height - k) : /\ Below(k)[i] = stack[depth][i]
                                      /\ i \in 1..Len(stack[depth])
    BY <1>1, BelowFacts
  <2>3. /\ Len(stack'[depth]) = Height - k + 1
        /\ \A i \in 1..(Height - k) : stack'[depth][i] = Below(k)[i]
        /\ stack'[depth][Height - k + 1] = r
    BY <1>5, <2>1, <2>2, PushSeq
  <2>4. QED
    BY <2>2, <2>3
\* A slot of a new stack holds r, on top, or is a slot of the old one.
<1>7. ASSUME NEW d \in Frames, NEW i \in 1..Len(stack'[d])
      PROVE  \/ d = depth /\ i = Height - k + 1 /\ stack'[d][i] = r
             \/ /\ i \in 1..Len(stack[d]) /\ stack'[d][i] = stack[d][i]
                /\ ~(d = depth /\ i > Height - k)
  BY <1>5, <1>6, <1>7
<1>8. ASSUME NEW v \in Cells, v # r, v \notin F PROVE owner'[v] = owner[v]
  BY <1>8 DEF Values
<1>9. r \in Cells => owner'[r] = "INTERPRETER"
  BY <1>2, <1>3
<1>10. Tags'
  <2>1. \A w \in Literals \cup {Empty} : owner'[w] = owner[w]
    BY <1>4, <1>3 DEF OwnershipInv, Tags, Values, Fresh
  <2>2. TextAlive /\ TextAlive'
    BY DEF Running
  <2>3. \A c \in Cells : owner'[c] \in {"FREED", "INTERPRETER", "CONTEXT_VARIABLE"}
    BY <1>3 DEF OwnershipInv, Tags, Values
  <2>4. QED
    BY <2>1, <2>2, <2>3, TagsKept
<1>11. IdleFramesEmpty'
  BY <1>1, <1>5 DEF OwnershipInv, IdleFramesEmpty
<1>12. OperandsOwned'
  <2>1. ASSUME NEW d \in Frames, NEW i \in 1..Len(stack'[d]), stack'[d][i] \in Cells
        PROVE  owner'[stack'[d][i]] = "INTERPRETER"
    <3>1. CASE stack'[d][i] = r
      BY <2>1, <3>1, <1>9
    <3>2. CASE stack'[d][i] # r
      BY <2>1, <3>2, <1>7, <1>4, <1>8 DEF OwnershipInv, OperandsOwned
    <3>3. QED
      BY <3>1, <3>2
  <2>2. QED
    BY <2>1 DEF OperandsOwned
<1>13. VariablesOwned'
  <2>1. ASSUME NEW d \in Frames, NEW n \in Names, symbols[d][n] \in Cells
        PROVE  owner'[symbols[d][n]] = "CONTEXT_VARIABLE"
    BY <2>1, <1>2, <1>4, <1>8 DEF OwnershipInv, VariablesOwned
  <2>2. QED
    BY <2>1 DEF VariablesOwned
<1>14. VariablesUnshared'
  BY DEF OwnershipInv, VariablesUnshared
<1>15. ResultsOwned'
  <2>1. ASSUME NEW d \in Frames, lastValue[d] \in Cells
        PROVE  owner'[lastValue[d]] = owner[lastValue[d]]
    BY <2>1, <1>2, <1>4, <1>8
  <2>2. QED
    BY <2>1 DEF OwnershipInv, ResultsOwned, Visible
<1>16. ASSUME NEW d \in Frames, NEW v \in args[d], v \in Cells
       PROVE  owner'[v] = owner[v]
  BY <1>16, <1>2, <1>4, <1>8
<1>17. ArgsOwned'
  BY <1>16 DEF OwnershipInv, ArgsOwned, Visible
<1>18. HoldersDisjoint'
  <2>1. ASSUME NEW d \in Frames, NEW e \in Frames, NEW i \in 1..Len(stack'[d]),
               stack'[d][i] \in Cells
        PROVE  /\ \A j \in 1..Len(stack'[e]) : stack'[d][i] = stack'[e][j] => d = e /\ i = j
               /\ stack'[d][i] \notin args[e]
               /\ stack'[d][i] # lastValue[e]
    <3>1. CASE stack'[d][i] = r
      BY <2>1, <3>1, <1>7, <1>2
    <3>2. CASE stack'[d][i] # r
      BY <2>1, <3>2, <1>7 DEF OwnershipInv, HoldersDisjoint
    <3>3. QED
      BY <3>1, <3>2
  <2>2. ASSUME NEW d \in Frames, NEW e \in Frames
        PROVE  /\ \A v \in args[d] \cap Cells : owner'[v] = "INTERPRETER" =>
                    /\ v # lastValue[e]
                    /\ v \in args[e] => d = e
               /\ lastValue[d] = lastValue[e] /\ lastValue[d] \in Cells
                    => d = e \/ owner'[lastValue[d]] # "INTERPRETER"
    <3>1. lastValue[d] \in Cells => owner'[lastValue[d]] = owner[lastValue[d]]
      BY <1>2, <1>4, <1>8
    <3>2. QED
      BY <3>1, <1>16 DEF OwnershipInv, HoldersDisjoint
  <2>3. QED
    BY <2>1, <2>2 DEF HoldersDisjoint
<1>19. QED
  BY <1>10, <1>11, <1>12, <1>13, <1>14, <1>15, <1>17, <1>18 DEF OwnershipInv

\* Stacks that only lose cells, all else unchanged, keep the invariant.
LEMMA FewerOperands ==
  ASSUME OwnershipInv, TypeOK', Running,
         \A d \in Frames : \A i \in 1..Len(stack'[d]) :
           stack'[d][i] \in Cells => i \in 1..Len(stack[d]) /\ stack'[d][i] = stack[d][i],
         \A d \in Frames : d # depth => stack'[d] = stack[d],
         TextAlive',
         UNCHANGED <<owner, depth, symbols, lineBase, lastValue, args>>
  PROVE  OwnershipInv'
<1>1. Tags' /\ VariablesOwned' /\ VariablesUnshared' /\ ArgsOwned'
  BY DEF Running, OwnershipInv, Tags, VariablesOwned, VariablesUnshared, ArgsOwned, Visible
<1>2. IdleFramesEmpty'
  <2>1. depth \in Nat /\ \A d \in Frames : d \in Nat
    BY FrameFacts DEF OwnershipInv
  <2>2. QED
    BY <2>1 DEF OwnershipInv, IdleFramesEmpty
<1>3. OperandsOwned'
  BY DEF OwnershipInv, OperandsOwned
<1>4. ResultsOwned'
  BY DEF OwnershipInv, ResultsOwned, Visible, Running
<1>5. HoldersDisjoint'
  BY DEF OwnershipInv, HoldersDisjoint
<1>6. QED
  BY <1>1, <1>2, <1>3, <1>4, <1>5 DEF OwnershipInv

LEMMA PushOperandInv ==
  ASSUME OwnershipInv, TypeOK', PushOperand
  PROVE  OwnershipInv'
<1>1. PICK e \in Names \cup Literals : stack' = [stack EXCEPT ![depth] = Append(@, e)]
  BY DEF PushOperand
<1>2. e \in Operands /\ e \notin Cells
  BY OwnershipAssumption DEF Operands, Values
<1>3. stack \in [Frames -> Seq(Operands)] /\ depth \in Frames
  BY DEF OwnershipInv, TypeOK
<1>4. ASSUME NEW d \in Frames, NEW i \in 1..Len(stack'[d]), stack'[d][i] \in Cells
      PROVE  i \in 1..Len(stack[d]) /\ stack'[d][i] = stack[d][i]
  <2>1. CASE d = depth
    <3>1. stack'[d] = Append(stack[d], e)
      BY <1>1, <1>3, <2>1
    <3>2. QED
      BY <3>1, <1>2, <1>3, <1>4, <2>1, PushSeq
  <2>2. CASE d # depth
    BY <2>2, <1>1, <1>3, <1>4
  <2>3. QED
    BY <2>1, <2>2
<1>5. QED
  BY <1>1, <1>3, <1>4, FewerOperands DEF PushOperand, Running

LEMMA ComputeInv ==
  ASSUME OwnershipInv, TypeOK', NEW k \in Nat, Compute(k)
  PROVE  OwnershipInv'
<1>1. PICK r \in Fresh :
        /\ owner' = [Free(Temporaries(Popped(k))) EXCEPT ![r] = "INTERPRETER"]
        /\ stack' = [stack EXCEPT ![depth] = Append(Below(k), r)]
  BY DEF Compute
<1>2. r # Empty
  BY OwnershipAssumption DEF Fresh
<1>3. \A v \in Values :
        owner'[v] = IF v = r THEN IF r = Empty THEN "EMPTY_VALUE" ELSE "INTERPRETER"
                    ELSE IF v \in Temporaries(Popped(k)) THEN "FREED" ELSE owner[v]
  BY <1>1, <1>2 DEF Free
<1>4. /\ Running /\ CanPop(k)
      /\ UNCHANGED <<depth, symbols, lineBase, lastValue, args, status, errorSeen>>
  BY DEF Compute
<1>5. r \in Fresh \cup {Empty}
  BY <1>1
<1>6. QED
  BY <1>1, <1>3, <1>4, <1>5, PushResult

LEMMA FailInv ==
  ASSUME OwnershipInv, TypeOK', NEW k \in Nat, Fail(k)
  PROVE  OwnershipInv'
<1>1. TypeOK /\ depth \in Frames /\ CanPop(k)
  BY DEF OwnershipInv, TypeOK, Fail
<1>2. /\ stack'[depth] = Below(k)
      /\ \A d \in Frames : d # depth => stack'[d] = stack[d]
  BY <1>1 DEF Fail, TypeOK
<1>3. ASSUME NEW d \in Frames, NEW i \in 1..Len(stack'[d])
      PROVE  i \in 1..Len(stack[d]) /\ stack'[d][i] = stack[d][i]
  BY <1>1, <1>2, <1>3, BelowFacts
<1>4. QED
  BY <1>2, <1>3, FewerOperands DEF Fail

LEMMA CallBuiltinInv ==
  ASSUME OwnershipInv, TypeOK', CallBuiltin
  PROVE  OwnershipInv'
<1> DEFINE ReturnNone(k) ==
             /\ Running
             /\ CanPop(k)
             /\ owner' = Free(Temporaries(Popped(k)))
             /\ stack' = [stack EXCEPT ![depth] = Append(Below(k), Empty)]
             /\ UNCHANGED <<depth, symbols, lineBase, lastValue, args, status, errorSeen>>
<1>1. PICK k \in 0..MaxStack : Compute(k) \/ Fail(k) \/ ReturnNone(k)
  BY DEF CallBuiltin
<1>2. k \in Nat
  BY OwnershipAssumption
<1>3. CASE Compute(k)
  BY <1>2, <1>3, ComputeInv
<1>4. CASE Fail(k)
  BY <1>2, <1>4, FailInv
<1>5. CASE ReturnNone(k)
  <2>1. owner[Empty] = "EMPTY_VALUE"
    BY DEF OwnershipInv, Tags
  <2>2. \A v \in Values :
          owner'[v] = IF v = Empty THEN IF Empty = Empty THEN "EMPTY_VALUE" ELSE "INTERPRETER"
                      ELSE IF v \in Temporaries(Popped(k)) THEN "FREED" ELSE owner[v]
    BY <1>5, <2>1 DEF Free, Temporaries, OwnedBy
  <2>3. Empty \in Fresh \cup {Empty}
    OBVIOUS
  <2>4. QED
    BY <1>2, <1>5, <2>2, <2>3, PushResult
<1>6. QED
  BY <1>1, <1>3, <1>4, <1>5

LEMMA UndefinedOperandInv ==
  ASSUME OwnershipInv, TypeOK', UndefinedOperand
  PROVE  OwnershipInv'
  BY FewerOperands DEF UndefinedOperand

-----------------------------------------------------------------------------
(* Storing values under names *)

\* setValue without a hold pointer: a function or an error message, new in
\* memory, under a name that is never the result of a line.
LEMMA UnheldSetValue ==
  ASSUME OwnershipInv, UnheldNeverResult, TypeOK', status \in {"running", "error"},
         NEW n \in ErrorNames \cup FunctionNames, NEW r \in Fresh,
         SetValue(n, r, "CONTEXT_VARIABLE"),
         TextAlive',
         UNCHANGED <<depth, stack, lastValue, args>>
  PROVE  OwnershipInv'
<1> USE OwnershipAssumption
<1> DEFINE old == symbols[depth][n]
<1>1. /\ TypeOK /\ 1 \in Frames /\ depth \in Frames /\ depth \in Nat
      /\ \A d \in Frames : d \in Nat /\ d >= 1
      /\ n \in Names /\ n \notin ResultNames
  BY FrameFacts DEF OwnershipInv, UnheldNeverResult
<1>2. /\ r \in Cells /\ r \in Values /\ owner[r] = "FREED"
      /\ \A d \in Frames : /\ \A i \in 1..Len(stack[d]) : stack[d][i] # r
                           /\ \A m \in Names : symbols[d][m] # r
                           /\ r \notin args[d]
                           /\ lastValue[d] # r
  BY FreshUnheld
<1>3. /\ symbols'[depth][n] = r
      /\ \A d \in Frames, m \in Names : ~(d = depth /\ m = n) => symbols'[d][m] = symbols[d][m]
  BY <1>1 DEF SetValue, TypeOK
<1>4. /\ owner'[r] = "CONTEXT_VARIABLE"
      /\ \A v \in Values : v # r /\ v # old => owner'[v] = owner[v]
      /\ \A v \in Values : v # r /\ owner[v] # "CONTEXT_VARIABLE" => owner'[v] = owner[v]
      /\ \A v \in Values : v # r /\ v = old => owner'[v] \in {owner[v], "FREED"}
      /\ \A v \in Values \ Cells : owner'[v] = owner[v]
  BY <1>1, <1>2, TagFacts DEF SetValue, RaiseOwner, TypeOK
\* The variable overwritten is no other variable, no result and no argument.
<1>5. old \in Cells => /\ \A d \in Frames, m \in Names :
                            symbols[d][m] = old => d = depth /\ m = n
                       /\ owner[old] = "CONTEXT_VARIABLE"
  BY <1>1 DEF OwnershipInv, VariablesUnshared, VariablesOwned
<1>6. \A d \in Frames : lastValue[d] \in Cells => lastValue[d] # old
  BY <1>1, <1>5 DEF OwnershipInv, ResultsOwned, IdleFramesEmpty, Visible, Operands, Values
<1>7. \A d \in Frames : \A v \in args[d] \cap Cells : v # old
  BY <1>1, <1>5 DEF OwnershipInv, ArgsOwned, IdleFramesEmpty, Visible
<1>8. Tags'
  <2>1. \A v \in Literals \cup {Empty} : v \in Values \ Cells
    BY DEF Values
  <2>2. \A c \in Cells : owner'[c] \in {"FREED", "INTERPRETER", "CONTEXT_VARIABLE"}
    BY <1>4 DEF OwnershipInv, Tags, Values
  <2>3. QED
    BY <2>1, <2>2, <1>4, TagsKept
<1>9. IdleFramesEmpty'
  BY <1>1, <1>3 DEF OwnershipInv, IdleFramesEmpty
<1>10. OperandsOwned'
  BY <1>2, <1>4 DEF OwnershipInv, OperandsOwned, Values
<1>11. VariablesOwned'
  BY <1>2, <1>3, <1>4, <1>5 DEF OwnershipInv, VariablesOwned, Values
<1>12. VariablesUnshared'
  BY <1>2, <1>3 DEF OwnershipInv, VariablesUnshared
<1>13. ResultsOwned'
  <2>1. ASSUME NEW d \in Frames, lastValue[d] \in Cells
        PROVE  /\ owner'[lastValue[d]] = owner[lastValue[d]]
               /\ Visible(d, lastValue[d], ResultNames) => Visible(d, lastValue[d], ResultNames)'
    <3>1. lastValue[d] \in Values /\ lastValue[d] # r /\ lastValue[d] # old
      BY <2>1, <1>2, <1>6 DEF Values
    <3>2. \A m \in ResultNames : /\ symbols'[d][m] = symbols[d][m]
                                 /\ symbols'[1][m] = symbols[1][m]
      BY <1>1, <1>3
    <3>3. QED
      BY <3>1, <3>2, <1>4 DEF Visible
  <2>2. QED
    BY <2>1 DEF OwnershipInv, ResultsOwned
<1>14. ASSUME NEW d \in Frames, NEW v \in args[d], v \in Cells
       PROVE  /\ owner'[v] = owner[v]
              /\ Visible(d, v, Names) => Visible(d, v, Names)'
  <2>1. v \in Values /\ v # r /\ v # old
    BY <1>14, <1>2, <1>7 DEF Values
  <2>2. owner'[v] = owner[v]
    BY <2>1, <1>4
  <2>3. ASSUME NEW m \in Names, v = symbols[d][m] \/ v = symbols[1][m]
        PROVE  v = symbols'[d][m] \/ v = symbols'[1][m]
    BY <2>1, <2>3, <1>1, <1>3
  <2>4. QED
    BY <2>2, <2>3 DEF Visible
<1>15. ArgsOwned'
  BY <1>14 DEF OwnershipInv, ArgsOwned
<1>16. HoldersDisjoint'
  <2>1. \A d \in Frames : lastValue[d] \in Cells => owner'[lastValue[d]] = owner[lastValue[d]]
    BY <1>2, <1>4, <1>6 DEF Values
  <2>2. QED
    BY <2>1, <1>14 DEF OwnershipInv, HoldersDisjoint
<1>17. QED
  BY <1>8, <1>9, <1>10, <1>11, <1>12, <1>13, <1>15, <1>16 DEF OwnershipInv

LEMMA DefineFunctionInv ==
  ASSUME OwnershipInv, UnheldNeverResult, TypeOK', DefineFunction
  PROVE  OwnershipInv'
  BY UnheldSetValue DEF DefineFunction, Running

LEMMA CatchInv ==
  ASSUME OwnershipInv, UnheldNeverResult, TypeOK', Catch
  PROVE  OwnershipInv'
  BY UnheldSetValue DEF Catch

\* An assignment stores v, a fresh copy or the temporary on top of the stack
\* (or a literal, or None), and resets the result it deletes.
LEMMA AssignInv ==
  ASSUME OwnershipInv, TypeOK', Assign
  PROVE  OwnershipInv'
<1> USE OwnershipAssumption
<1> DEFINE target == stack[depth][Height - 1]
           old == symbols[depth][target]
           left == Resolve(depth, Top)
           copy == MustCopy(Top)
<1>1. /\ TypeOK /\ 1 \in Frames /\ depth \in Frames /\ depth \in Nat /\ depth >= 1
      /\ \A d \in Frames : d \in Nat /\ d >= 1 /\ stack[d] \in Seq(Operands)
      /\ Height \in Nat /\ Height = Len(stack[depth]) /\ Height >= 2
      /\ target \in Names /\ left # Nil /\ Top \in Operands
      /\ status = "running"
  <2>1. TypeOK /\ Running /\ LineOperands >= 2 /\ target \in Names /\ left # Nil
    BY DEF OwnershipInv, Assign
  <2>2. Height \in Nat /\ Height = Len(stack[depth]) /\ Height >= 2
    BY <2>1, FrameFacts DEF LineOperands, Height, TypeOK
  <2>3. Top \in Operands
    BY <2>1, <2>2 DEF Top, TypeOK
  <2>4. QED
    BY <2>1, <2>2, <2>3, FrameFacts DEF TypeOK, Running
<1>2. PICK v \in (IF copy THEN Fresh ELSE {left}) :
        SetValue(target, v, IF copy THEN "INTERPRETER" ELSE owner[v])
  BY DEF Assign
<1>3. /\ stack' = [stack EXCEPT ![depth] = Below(1)]
      /\ lastValue' = [lastValue EXCEPT ![depth] = ResultWithout(old)]
      /\ UNCHANGED <<depth, lineBase, args, status, errorSeen>>
  BY DEF Assign
\* Where v comes from: nobody, or the top of the stack and nobody else.
<1>4. /\ v \in Values
      /\ v \in Cells => /\ owner[v] \in {"FREED", "INTERPRETER"}
                        /\ (IF copy THEN "INTERPRETER" ELSE owner[v]) = "INTERPRETER"
                        /\ \A d \in Frames :
                             /\ \A i \in 1..Len(stack[d]) :
                                  stack[d][i] = v => d = depth /\ i = Height
                             /\ \A m \in Names : symbols[d][m] # v
                             /\ v \notin args[d]
                             /\ lastValue[d] # v
      /\ v \notin Cells => (IF copy THEN "INTERPRETER" ELSE owner[v]) = owner[v]
  <2>1. CASE copy
    <3>1. v \in Fresh
      BY <1>2, <2>1
    <3>2. QED
      BY <1>1, <2>1, <3>1, FreshUnheld
  <2>2. CASE ~copy
    <3>1. v = Top /\ v \in Values
      BY <1>1, <1>2, <2>2 DEF MustCopy, Resolve, Operands
    <3>2. Height \in 1..Len(stack[depth]) /\ stack[depth][Height] = v
      BY <1>1, <3>1 DEF Top
    <3>3. v \in Cells => owner[v] = "INTERPRETER"
      BY <1>1, <3>2 DEF OwnershipInv, OperandsOwned
    <3>4. v \in Cells => \A d \in Frames :
             /\ \A i \in 1..Len(stack[d]) : stack[d][i] = v => d = depth /\ i = Height
             /\ v \notin args[d]
             /\ lastValue[d] # v
      BY <1>1, <3>2 DEF OwnershipInv, HoldersDisjoint
    <3>5. v \in Cells => \A d \in Frames : \A m \in Names : symbols[d][m] # v
      BY <3>3 DEF OwnershipInv, VariablesOwned
    <3>6. QED
      BY <2>2, <3>1, <3>3, <3>4, <3>5
  <2>3. QED
    BY <2>1, <2>2
<1>5. /\ symbols'[depth][target] = v
      /\ \A d \in Frames, m \in Names :
           ~(d = depth /\ m = target) => symbols'[d][m] = symbols[d][m]
  BY <1>1, <1>2 DEF SetValue, TypeOK
<1>6. /\ v \in Cells => owner'[v] = "CONTEXT_VARIABLE"
      /\ \A w \in Values : w # v /\ w # old => owner'[w] = owner[w]
      /\ \A w \in Values : w # v /\ w = old => owner'[w] \in {owner[w], "FREED"}
      /\ \A w \in Values \ Cells : owner'[w] = owner[w]
      /\ \A w \in Values : w # v /\ owner[w] # "CONTEXT_VARIABLE" => owner'[w] = owner[w]
  <2>1. \A w \in Values :
          owner'[w] = IF w = old /\ owner[w] = "CONTEXT_VARIABLE" THEN "FREED"
                      ELSE IF w = v
                      THEN RaiseOwner(IF copy THEN "INTERPRETER" ELSE owner[v], "CONTEXT_VARIABLE")
                      ELSE owner[w]
    BY <1>2 DEF SetValue
  <2>2. v \in Cells => owner'[v] = "CONTEXT_VARIABLE"
    BY <2>1, <1>1, <1>4 DEF RaiseOwner, OwnerRank
  <2>3. \A w \in Values \ Cells : owner'[w] = owner[w]
    BY <2>1, <1>1, <1>4, TagFacts DEF RaiseOwner, OwnerRank
  <2>4. QED
    BY <2>1, <2>2, <2>3
<1>7. old \in Cells => /\ \A d \in Frames, m \in Names :
                            symbols[d][m] = old => d = depth /\ m = target
                       /\ owner[old] = "CONTEXT_VARIABLE"
  BY <1>1 DEF OwnershipInv, VariablesUnshared, VariablesOwned
<1>8. /\ \A d \in Frames : d # depth => stack'[d] = stack[d]
      /\ Len(stack'[depth]) = Height - 1
      /\ \A i \in 1..(Height - 1) : /\ stack'[depth][i] = stack[depth][i]
                                    /\ i \in 1..Len(stack[depth])
  <2>1. stack'[depth] = Below(1)
    BY <1>1, <1>3 DEF TypeOK
  <2>2. QED
    BY <2>1, <1>1, <1>3, PopSeq DEF Below, TypeOK
<1>9. ASSUME NEW d \in Frames, NEW i \in 1..Len(stack'[d])
      PROVE  /\ i \in 1..Len(stack[d]) /\ stack'[d][i] = stack[d][i]
             /\ stack[d][i] \in Cells => stack'[d][i] # v
  <2>1. /\ i \in 1..Len(stack[d]) /\ stack'[d][i] = stack[d][i]
        /\ ~(d = depth /\ i = Height)
    <3>1. Height \in Nat
      BY <1>1
    <3>2. CASE d = depth
      BY <1>8, <1>9, <3>1, <3>2
    <3>3. CASE d # depth
      BY <1>8, <1>9, <3>3
    <3>4. QED
      BY <3>2, <3>3
  <2>2. QED
    BY <2>1, <1>4
\* The results: each is what it was, or was reset; none is the old value.
<1>10. ASSUME NEW d \in Frames, lastValue'[d] \in Cells
       PROVE  /\ lastValue'[d] = lastValue[d] /\ lastValue[d] # old /\ lastValue[d] # v
              /\ owner'[lastValue[d]] = owner[lastValue[d]]
  <2>1. lastValue'[d] = lastValue[d]
    BY <1>1, <1>3, <1>10 DEF ResultWithout, TypeOK, Operands, Values
  <2>2. lastValue[d] # v
    BY <1>4, <1>10, <2>1
  <2>3. ASSUME lastValue[d] = old PROVE FALSE
    <3>1. CASE d = depth
      <4>1. old \in {old} \cap Values /\ owner[old] = "CONTEXT_VARIABLE"
        BY <1>7, <1>10, <2>1, <2>3 DEF Values
      <4>2. OwnedBy("CONTEXT_VARIABLE", {old}) # {}
        BY <4>1 DEF OwnedBy
      <4>3. ResultWithout(old) = Nil
        BY <2>3, <3>1, <4>2 DEF ResultWithout
      <4>4. lastValue'[d] = Nil
        BY <1>1, <1>3, <3>1, <4>3 DEF TypeOK
      <4>5. QED
        BY <1>10, <4>4 DEF Operands, Values
    <3>2. CASE d # depth
      <4>1. old \in Cells /\ owner[old] # "INTERPRETER"
        BY <1>7, <1>10, <2>1, <2>3
      <4>2. Visible(d, old, ResultNames)
        BY <1>1, <2>3, <4>1 DEF OwnershipInv, ResultsOwned
      <4>3. \E m \in Names : symbols[1][m] = old
        BY <1>7, <3>2, <4>1, <4>2 DEF Visible
      <4>4. depth = 1 /\ d > depth
        BY <1>1, <1>7, <3>2, <4>1, <4>3
      <4>5. lastValue[d] = Nil
        BY <4>4 DEF OwnershipInv, IdleFramesEmpty
      <4>6. QED
        BY <2>3, <4>1, <4>5 DEF Operands, Values
    <3>3. QED
      BY <3>1, <3>2
  <2>4. QED
    BY <1>6, <1>10, <2>1, <2>2, <2>3 DEF Values
<1>11. ASSUME NEW d \in Frames, NEW w \in args[d], w \in Cells
       PROVE  /\ w # v /\ w # old
              /\ owner'[w] = owner[w]
              /\ Visible(d, w, Names) => Visible(d, w, Names)'
  <2>1. w # v /\ w \in Values
    BY <1>4, <1>11 DEF Values
  <2>2. w # old
    BY <1>1, <1>7, <1>11 DEF OwnershipInv, ArgsOwned, IdleFramesEmpty, Visible
  <2>3. QED
    BY <2>1, <2>2, <1>1, <1>5, <1>6 DEF Visible
<1>12. Tags'
  <2>1. \A w \in Literals \cup {Empty} : w \in Values \ Cells
    BY DEF Values
  <2>2. \A c \in Cells : owner'[c] \in {"FREED", "INTERPRETER", "CONTEXT_VARIABLE"}
    BY <1>6 DEF OwnershipInv, Tags, Values
  <2>3. QED
    BY <2>1, <2>2, <1>1, <1>3, <1>6, TagsKept
<1>13. IdleFramesEmpty'
  BY <1>1, <1>3, <1>5, <1>8 DEF OwnershipInv, IdleFramesEmpty, TypeOK
<1>14. OperandsOwned'
  <2>1. ASSUME NEW d \in Frames, NEW i \in 1..Len(stack'[d]), stack'[d][i] \in Cells
        PROVE  owner'[stack'[d][i]] = "INTERPRETER"
    BY <2>1, <1>6, <1>9 DEF OwnershipInv, OperandsOwned, Values
  <2>2. QED
    BY <2>1 DEF OperandsOwned
<1>15. VariablesOwned'
  BY <1>4, <1>5, <1>6, <1>7 DEF OwnershipInv, VariablesOwned, Values
<1>16. VariablesUnshared'
  BY <1>4, <1>5 DEF OwnershipInv, VariablesUnshared
<1>17. ResultsOwned'
  <2>1. ASSUME NEW d \in Frames, lastValue'[d] \in Cells,
               Visible(d, lastValue[d], ResultNames)
        PROVE  Visible(d, lastValue[d], ResultNames)'
    <3>1. PICK m \in ResultNames : lastValue[d] = symbols[d][m] \/ lastValue[d] = symbols[1][m]
      BY <2>1 DEF Visible
    <3>2. lastValue'[d] = lastValue[d] /\ lastValue[d] # old
      BY <2>1, <1>10
    <3>3. lastValue'[d] = symbols'[d][m] \/ lastValue'[d] = symbols'[1][m]
      BY <3>1, <3>2, <1>1, <1>5
    <3>4. QED
      BY <3>2, <3>3 DEF Visible
  <2>2. QED
    BY <2>1, <1>1, <1>10 DEF OwnershipInv, ResultsOwned
<1>18. ArgsOwned'
  BY <1>3, <1>11 DEF OwnershipInv, ArgsOwned
<1>19. HoldersDisjoint'
  <2>1. ASSUME NEW d \in Frames, NEW e \in Frames, NEW i \in 1..Len(stack'[d]),
               stack'[d][i] \in Cells
        PROVE  /\ \A j \in 1..Len(stack'[e]) : stack'[d][i] = stack'[e][j] => d = e /\ i = j
               /\ stack'[d][i] \notin args'[e]
               /\ stack'[d][i] # lastValue'[e]
    BY <2>1, <1>3, <1>9, <1>10 DEF OwnershipInv, HoldersDisjoint
  <2>2. ASSUME NEW d \in Frames, NEW e \in Frames
        PROVE  /\ \A w \in args'[d] \cap Cells : owner'[w] = "INTERPRETER" =>
                    /\ w # lastValue'[e]
                    /\ w \in args'[e] => d = e
               /\ lastValue'[d] = lastValue'[e] /\ lastValue'[d] \in Cells
                    => d = e \/ owner'[lastValue'[d]] # "INTERPRETER"
    BY <2>2, <1>3, <1>10, <1>11 DEF OwnershipInv, HoldersDisjoint
  <2>3. QED
    BY <2>1, <2>2 DEF HoldersDisjoint
<1>20. QED
  BY <1>12, <1>13, <1>14, <1>15, <1>16, <1>17, <1>18, <1>19 DEF OwnershipInv

-----------------------------------------------------------------------------
(* The end of a line *)

\* The result that is replaced is deleted when it was a temporary; the new
\* one is None, the temporary left on the stack, or a variable.
LEMMA EndOfLineInv ==
  ASSUME OwnershipInv, TypeOK', EndOfLine
  PROVE  OwnershipInv'
<1> USE OwnershipAssumption
<1> DEFINE T == Temporaries({lastValue[depth]})
           res == lastValue'[depth]
<1>1. /\ TypeOK /\ 1 \in Frames /\ depth \in Frames /\ depth \in Nat
      /\ \A d \in Frames : d \in Nat /\ d >= 1
      /\ Height \in Nat /\ Height = Len(stack[depth]) /\ stack[depth] \in Seq(Operands)
      /\ status = "running"
      /\ depth' = depth /\ symbols' = symbols /\ args' = args /\ status' = status
      /\ owner' = Free(T)
  BY FrameFacts DEF OwnershipInv, Height, EndOfLine, Running, TypeOK
<1>2. /\ \A w \in Values \ T : owner'[w] = owner[w]
      /\ \A w \in Cells : w \notin T => owner'[w] = owner[w]
      /\ \A w \in T : w = lastValue[depth] /\ w \in Cells /\ owner[w] = "INTERPRETER"
      /\ \A w \in T : owner'[w] = "FREED"
  <2>1. ASSUME NEW w \in T
        PROVE  w = lastValue[depth] /\ w \in Cells /\ owner[w] = "INTERPRETER"
    BY <2>1, TagFacts DEF Temporaries, OwnedBy
  <2>2. QED
    BY <2>1, <1>1 DEF Free, Values
<1>3. /\ \A d \in Frames : d # depth => stack'[d] = stack[d] /\ lastValue'[d] = lastValue[d]
      /\ \A d \in Frames : \A i \in 1..Len(stack'[d]) :
           /\ i \in 1..Len(stack[d]) /\ stack'[d][i] = stack[d][i]
      /\ \/ res = Empty
         \/ /\ Height > 0 /\ res = Resolve(depth, Top)
            /\ Top \in Names => Top \in ResultNames
            /\ \A i \in 1..Len(stack'[depth]) : i # Height
  <2>1. CASE NothingLeft
    BY <2>1, <1>1 DEF NothingLeft, TypeOK
  <2>2. CASE OperandLeft
    <3>1. /\ Height > 0 /\ res = Resolve(depth, Top) /\ stack'[depth] = Below(1)
          /\ Top \in Names => Top \in ResultNames
          /\ \A d \in Frames : d # depth => stack'[d] = stack[d] /\ lastValue'[d] = lastValue[d]
      BY <2>2, <1>1 DEF OperandLeft, TypeOK
    <3>2. /\ Len(stack'[depth]) = Height - 1
          /\ \A i \in 1..(Height - 1) : stack'[depth][i] = stack[depth][i]
      BY <3>1, <1>1, PopSeq DEF Below
    <3>3. ASSUME NEW d \in Frames, NEW i \in 1..Len(stack'[d])
          PROVE  i \in 1..Len(stack[d]) /\ stack'[d][i] = stack[d][i]
      <4>1. CASE d = depth
        BY <1>1, <3>2, <4>1
      <4>2. CASE d # depth
        BY <3>1, <4>2
      <4>3. QED
        BY <4>1, <4>2
    <3>4. \A i \in 1..Len(stack'[depth]) : i # Height
      BY <1>1, <3>2
    <3>5. QED
      BY <3>1, <3>3, <3>4
  <2>3. QED
    BY <2>1, <2>2 DEF EndOfLine
\* The new result: a variable the frame sees, or the operand that was on top.
<1>4. res \in Cells =>
        \/ owner[res] = "CONTEXT_VARIABLE" /\ Visible(depth, res, ResultNames)
        \/ /\ owner[res] = "INTERPRETER"
           /\ res \notin T
           /\ \A d \in Frames : /\ \A i \in 1..Len(stack'[d]) : stack'[d][i] # res
                                /\ res \notin args[d]
                                /\ lastValue[d] # res
  <2> SUFFICES ASSUME res \in Cells
               PROVE  \/ owner[res] = "CONTEXT_VARIABLE" /\ Visible(depth, res, ResultNames)
                      \/ /\ owner[res] = "INTERPRETER"
                         /\ res \notin T
                         /\ \A d \in Frames : /\ \A i \in 1..Len(stack'[d]) : stack'[d][i] # res
                                              /\ res \notin args[d]
                                              /\ lastValue[d] # res
    OBVIOUS
  <2>1. /\ Height > 0 /\ res = Resolve(depth, Top)
        /\ Top \in Names => Top \in ResultNames
        /\ \A i \in 1..Len(stack'[depth]) : i # Height
    BY <1>3
  <2>2. CASE Top \in Names
    <3>1. Visible(depth, res, ResultNames)
      BY <2>1, <2>2 DEF Resolve, Lookup, Visible
    <3>2. owner[res] = "CONTEXT_VARIABLE"
      BY <3>1, <1>1 DEF Visible, OwnershipInv, VariablesOwned
    <3>3. QED
      BY <3>1, <3>2
  <2>3. CASE Top \notin Names
    <3>1. Height \in 1..Len(stack[depth]) /\ stack[depth][Height] = res
      BY <2>1, <2>3, <1>1 DEF Resolve, Top
    <3>2. owner[res] = "INTERPRETER"
      BY <3>1, <1>1 DEF OwnershipInv, OperandsOwned
    <3>3. \A d \in Frames : res \notin args[d] /\ lastValue[d] # res
      BY <3>1, <1>1 DEF OwnershipInv, HoldersDisjoint
    <3>4. ASSUME NEW d \in Frames, NEW i \in 1..Len(stack'[d]), stack'[d][i] = res
          PROVE  FALSE
      BY <3>1, <3>4, <2>1, <1>1, <1>3 DEF OwnershipInv, HoldersDisjoint
    <3>5. QED
      BY <3>2, <3>3, <3>4, <1>1, <1>2
  <2>4. QED
    BY <2>2, <2>3
\* No holder but the result itself refers to what is deleted.
<1>5. \A d \in Frames : /\ \A i \in 1..Len(stack'[d]) : stack'[d][i] \notin T
                        /\ \A n \in Names : symbols[d][n] \notin T
                        /\ \A w \in args[d] : w \notin T
                        /\ lastValue'[d] \notin T
  <2>1. ASSUME NEW d \in Frames, NEW w \in T
        PROVE  /\ \A i \in 1..Len(stack'[d]) : stack'[d][i] # w
               /\ w \notin args[d]
               /\ d # depth => lastValue[d] # w
    <3>1. w = lastValue[depth] /\ w \in Cells /\ owner[w] = "INTERPRETER"
      BY <2>1, <1>2
    <3>2. \A i \in 1..Len(stack[d]) : stack[d][i] # w
      BY <3>1, <1>1 DEF OwnershipInv, HoldersDisjoint
    <3>3. w \notin args[d]
      BY <3>1, <1>1 DEF OwnershipInv, HoldersDisjoint
    <3>4. d # depth => lastValue[d] # w
      BY <3>1, <1>1 DEF OwnershipInv, HoldersDisjoint
    <3>5. QED
      BY <3>2, <3>3, <3>4, <1>3
  <2>2. \A d \in Frames : \A n \in Names : symbols[d][n] \notin T
    BY <1>2 DEF OwnershipInv, VariablesOwned
  <2>3. res \notin T
    BY <1>2, <1>4
  <2>4. QED
    BY <2>1, <2>2, <2>3, <1>3
<1>6. Tags'
  <2>1. \A w \in Literals \cup {Empty} : w \in Values \ T
    BY <1>2 DEF Values
  <2>2. \A c \in Cells : owner'[c] \in {"FREED", "INTERPRETER", "CONTEXT_VARIABLE"}
    BY <1>2 DEF OwnershipInv, Tags, Values
  <2>3. QED
    BY <2>1, <2>2, <1>1, <1>2, TagsKept
<1>7. IdleFramesEmpty'
  <2>1. \A d \in Frames : d > depth => stack'[d] = stack[d] /\ lastValue'[d] = lastValue[d]
    <3>1. \A d \in Frames : d > depth => d # depth
      BY <1>1
    <3>2. QED
      BY <3>1, <1>3
  <2>2. TextAlive'
    BY <1>1
  <2>3. QED
    BY <1>1, <2>1, <2>2 DEF OwnershipInv, IdleFramesEmpty
<1>8. OperandsOwned'
  <2>1. ASSUME NEW d \in Frames, NEW i \in 1..Len(stack'[d]), stack'[d][i] \in Cells
        PROVE  owner'[stack'[d][i]] = "INTERPRETER"
    <3>1. owner[stack'[d][i]] = "INTERPRETER"
      BY <2>1, <1>3 DEF OwnershipInv, OperandsOwned
    <3>2. QED
      BY <2>1, <3>1, <1>2, <1>5
  <2>2. QED
    BY <2>1 DEF OperandsOwned
<1>9. VariablesOwned' /\ VariablesUnshared'
  <2>1. ASSUME NEW d \in Frames, NEW n \in Names, symbols[d][n] \in Cells
        PROVE  owner'[symbols[d][n]] = "CONTEXT_VARIABLE"
    BY <2>1, <1>2, <1>5 DEF OwnershipInv, VariablesOwned
  <2>2. VariablesOwned'
    BY <2>1, <1>1 DEF VariablesOwned
  <2>3. VariablesUnshared'
    BY <1>1 DEF OwnershipInv, VariablesUnshared
  <2>4. QED
    BY <2>2, <2>3
<1>10. ResultsOwned'
  <2>1. ASSUME NEW d \in Frames, lastValue'[d] \in Cells
        PROVE  \/ owner'[lastValue'[d]] = "INTERPRETER"
               \/ Visible(d, lastValue'[d], ResultNames)
    <3>1. owner'[lastValue'[d]] = owner[lastValue'[d]]
      BY <2>1, <1>2, <1>5 DEF Values
    <3>2. CASE d = depth
      BY <2>1, <3>1, <3>2, <1>4
    <3>3. CASE d # depth
      BY <2>1, <3>1, <3>3, <1>1, <1>3 DEF OwnershipInv, ResultsOwned
    <3>4. QED
      BY <3>2, <3>3
  <2>2. QED
    BY <2>1, <1>1 DEF ResultsOwned, Visible
<1>11. ArgsOwned'
  <2>1. ASSUME NEW d \in Frames, NEW w \in args'[d] \cap Cells
        PROVE  owner'[w] = "INTERPRETER" \/ Visible(d, w, Names)'
    <3>1. w \in args[d] /\ owner'[w] = owner[w]
      BY <2>1, <1>1, <1>2, <1>5
    <3>2. Visible(d, w, Names) => Visible(d, w, Names)'
      BY <1>1 DEF Visible
    <3>3. QED
      BY <2>1, <3>1, <3>2 DEF OwnershipInv, ArgsOwned
  <2>2. QED
    BY <2>1 DEF ArgsOwned
<1>12. HoldersDisjoint'
  <2>1. ASSUME NEW d \in Frames, NEW e \in Frames, NEW i \in 1..Len(stack'[d]),
               stack'[d][i] \in Cells
        PROVE  /\ \A j \in 1..Len(stack'[e]) : stack'[d][i] = stack'[e][j] => d = e /\ i = j
               /\ stack'[d][i] \notin args'[e]
               /\ stack'[d][i] # lastValue'[e]
    <3>1. /\ \A j \in 1..Len(stack'[e]) : stack'[d][i] = stack'[e][j] => d = e /\ i = j
          /\ stack'[d][i] \notin args'[e]
          /\ e # depth => stack'[d][i] # lastValue'[e]
      <4>1. /\ i \in 1..Len(stack[d]) /\ stack'[d][i] = stack[d][i]
            /\ \A j \in 1..Len(stack'[e]) :
                 j \in 1..Len(stack[e]) /\ stack'[e][j] = stack[e][j]
            /\ e # depth => lastValue'[e] = lastValue[e]
        BY <2>1, <1>3
      <4>2. args' = args
        BY <1>1
      <4>3. QED
        BY <2>1, <4>1, <4>2 DEF OwnershipInv, HoldersDisjoint
    <3>2. stack'[d][i] # res
      <4>1. owner[stack'[d][i]] = "INTERPRETER"
        BY <2>1, <1>3 DEF OwnershipInv, OperandsOwned
      <4>2. QED
        BY <2>1, <4>1, <1>4
    <3>3. QED
      BY <3>1, <3>2
  <2>2. ASSUME NEW d \in Frames, NEW e \in Frames
        PROVE  /\ \A w \in args'[d] \cap Cells : owner'[w] = "INTERPRETER" =>
                    /\ w # lastValue'[e]
                    /\ w \in args'[e] => d = e
               /\ lastValue'[d] = lastValue'[e] /\ lastValue'[d] \in Cells
                    => d = e \/ owner'[lastValue'[d]] # "INTERPRETER"
    <3>1. ASSUME NEW w \in args[d] \cap Cells, owner'[w] = "INTERPRETER"
          PROVE  w # lastValue'[e] /\ (w \in args[e] => d = e)
      <4>1. owner[w] = "INTERPRETER"
        BY <3>1, <1>2, <1>5 DEF Values
      <4>2. /\ e # depth => w # lastValue'[e]
            /\ w \in args[e] => d = e
        BY <3>1, <4>1, <1>3 DEF OwnershipInv, HoldersDisjoint
      <4>3. w # res
        BY <3>1, <4>1, <1>4
      <4>4. QED
        BY <4>2, <4>3
    <3>2. ASSUME lastValue'[d] = lastValue'[e], lastValue'[d] \in Cells, d # e,
                 owner'[lastValue'[d]] = "INTERPRETER"
          PROVE  FALSE
      <4>1. owner[lastValue'[d]] = "INTERPRETER"
        BY <3>2, <1>2, <1>5 DEF Values
      <4>2. CASE d = depth \/ e = depth
        BY <3>2, <4>1, <4>2, <1>3, <1>4
      <4>3. CASE d # depth /\ e # depth
        BY <3>2, <4>1, <4>3, <1>3 DEF OwnershipInv, HoldersDisjoint
      <4>4. QED
        BY <4>2, <4>3
    <3>3. QED
      BY <3>1, <3>2, <1>1
  <2>3. QED
    BY <2>1, <2>2 DEF HoldersDisjoint
<1>13. QED
  BY <1>6, <1>7, <1>8, <1>9, <1>10, <1>11, <1>12 DEF OwnershipInv

-----------------------------------------------------------------------------
(* User functions *)

\* A call: the parameters are fresh copies, the operands become arguments.
LEMMA UserCallInv ==
  ASSUME OwnershipInv, TypeOK', NEW k \in Nat, UserCall(k)
  PROVE  OwnershipInv'
<1> USE OwnershipAssumption
<1>1. /\ TypeOK /\ 1 \in Frames /\ depth \in Frames /\ depth \in Nat /\ depth >= 1
      /\ \A d \in Frames : d \in Nat /\ d >= 1
      /\ depth + 1 \in Frames /\ CanPop(k) /\ status = "running"
      /\ depth' = depth + 1 /\ lastValue' = lastValue /\ status' = status
  <2>1. TypeOK /\ depth < MaxDepth
    BY DEF OwnershipInv, UserCall
  <2>2. depth + 1 \in Frames
    BY <2>1, FrameFacts DEF Frames
  <2>3. QED
    BY <2>1, <2>2, FrameFacts DEF UserCall, Running
<1>2. /\ stack' = [stack EXCEPT ![depth] = Below(k)]
      /\ args' = [args EXCEPT ![depth] = Popped(k)]
  BY DEF UserCall
<1>3. PICK P \in SUBSET Names : \E copies \in [P -> Fresh] :
        /\ \A m, n \in P : m # n => copies[m] # copies[n]
        /\ symbols' = [symbols EXCEPT ![depth + 1] =
                         [n \in Names |-> IF n \in P THEN copies[n] ELSE Nil]]
        /\ owner' = [v \in Values |-> IF \E n \in P : copies[n] = v
                                      THEN "CONTEXT_VARIABLE" ELSE owner[v]]
  BY DEF UserCall
<1>4. PICK copies \in [P -> Fresh] :
        /\ \A m, n \in P : m # n => copies[m] # copies[n]
        /\ symbols' = [symbols EXCEPT ![depth + 1] =
                         [n \in Names |-> IF n \in P THEN copies[n] ELSE Nil]]
        /\ owner' = [v \in Values |-> IF \E n \in P : copies[n] = v
                                      THEN "CONTEXT_VARIABLE" ELSE owner[v]]
  BY <1>3
\* The copies are new: nobody held them.
<1>5. \A n \in P :
        /\ copies[n] \in Cells /\ copies[n] \in Values
        /\ owner[copies[n]] = "FREED"
        /\ owner'[copies[n]] = "CONTEXT_VARIABLE"
        /\ \A d \in Frames : /\ \A i \in 1..Len(stack[d]) : stack[d][i] # copies[n]
                             /\ \A m \in Names : symbols[d][m] # copies[n]
                             /\ copies[n] \notin args[d]
                             /\ lastValue[d] # copies[n]
  <2>1. ASSUME NEW n \in P
        PROVE  /\ copies[n] \in Fresh
               /\ owner'[copies[n]] = "CONTEXT_VARIABLE"
    <3>1. copies[n] \in Fresh /\ copies[n] \in Values
      BY <1>4, <2>1 DEF Fresh, Values
    <3>2. QED
      BY <3>1, <1>4, <2>1
  <2>2. QED
    BY <2>1, <1>1, FreshUnheld
<1>6. \A v \in Values : \/ owner'[v] = owner[v]
                        \/ \E n \in P : copies[n] = v
  BY <1>4
<1>7. /\ \A d \in Frames : d # depth + 1 => symbols'[d] = symbols[d]
      /\ \A n \in Names : symbols'[depth + 1][n] = IF n \in P THEN copies[n] ELSE Nil
      /\ \A n \in Names : symbols[depth + 1][n] = Nil
  BY <1>1, <1>4 DEF TypeOK, OwnershipInv, IdleFramesEmpty
<1>8. /\ \A d \in Frames : d # depth => stack'[d] = stack[d] /\ args'[d] = args[d]
      /\ args'[depth] = Popped(k)
      /\ args[depth] = {}
      /\ \A d \in Frames : \A i \in 1..Len(stack'[d]) :
           /\ i \in 1..Len(stack[d]) /\ stack'[d][i] = stack[d][i]
           /\ ~(d = depth /\ i > Height - k)
  <2>1. stack'[depth] = Below(k)
    BY <1>1, <1>2 DEF TypeOK
  <2>2. ASSUME NEW i \in 1..Len(stack'[depth])
        PROVE  /\ i \in 1..Len(stack[depth]) /\ stack'[depth][i] = stack[depth][i]
               /\ ~(i > Height - k)
    BY <2>1, <2>2, <1>1, BelowFacts
  <2>3. args[depth] = {}
    BY <1>1 DEF OwnershipInv, IdleFramesEmpty
  <2>4. \A d \in Frames : d # depth => stack'[d] = stack[d] /\ args'[d] = args[d]
    BY <1>1, <1>2 DEF TypeOK
  <2>5. args'[depth] = Popped(k)
    BY <1>1, <1>2 DEF TypeOK
  <2>6. QED
    BY <2>2, <2>3, <2>4, <2>5
<1>9. ASSUME NEW d \in Frames, NEW N \in SUBSET Names, NEW v, Visible(d, v, N),
             d # depth + 1
      PROVE  Visible(d, v, N)'
  BY <1>9, <1>1, <1>7 DEF Visible
<1>10. ASSUME NEW v \in Cells, owner[v] # "FREED" PROVE owner'[v] = owner[v]
  BY <1>10, <1>5, <1>6 DEF Values
<1>11. Tags'
  <2>1. \A w \in Literals \cup {Empty} : owner'[w] = owner[w]
    BY <1>5, <1>6 DEF Values
  <2>2. \A c \in Cells : owner'[c] \in {"FREED", "INTERPRETER", "CONTEXT_VARIABLE"}
    BY <1>5, <1>6 DEF OwnershipInv, Tags, Values
  <2>3. QED
    BY <2>1, <2>2, <1>1, TagsKept
<1>12. IdleFramesEmpty'
  <2>1. ASSUME NEW d \in Frames, d > depth + 1
        PROVE  /\ \A n \in Names : symbols'[d][n] = Nil
               /\ stack'[d] = <<>> /\ lastValue'[d] = Nil
    <3>1. d > depth /\ d # depth /\ d # depth + 1
      BY <2>1, <1>1
    <3>2. symbols'[d] = symbols[d] /\ stack'[d] = stack[d] /\ lastValue' = lastValue
      BY <3>1, <1>1, <1>7, <1>8
    <3>3. QED
      BY <3>1, <3>2 DEF OwnershipInv, IdleFramesEmpty
  <2>2. ASSUME NEW d \in Frames, d >= depth + 1 PROVE args'[d] = {}
    <3>1. d >= depth /\ d # depth
      BY <2>2, <1>1
    <3>2. QED
      BY <3>1, <1>1, <1>8 DEF OwnershipInv, IdleFramesEmpty
  <2>3. QED
    BY <2>1, <2>2, <1>1 DEF IdleFramesEmpty
<1>13. OperandsOwned'
  <2>1. ASSUME NEW d \in Frames, NEW i \in 1..Len(stack'[d]), stack'[d][i] \in Cells
        PROVE  owner'[stack'[d][i]] = "INTERPRETER"
    <3>1. owner[stack'[d][i]] = "INTERPRETER"
      BY <2>1, <1>8 DEF OwnershipInv, OperandsOwned
    <3>2. QED
      BY <2>1, <3>1, <1>10
  <2>2. QED
    BY <2>1 DEF OperandsOwned
<1>14. VariablesOwned'
  <2>1. ASSUME NEW d \in Frames, NEW n \in Names, symbols'[d][n] \in Cells
        PROVE  owner'[symbols'[d][n]] = "CONTEXT_VARIABLE"
    <3>1. CASE d = depth + 1
      BY <2>1, <3>1, <1>5, <1>7 DEF Operands, Values
    <3>2. CASE d # depth + 1
      <4>1. owner[symbols'[d][n]] = "CONTEXT_VARIABLE" /\ symbols'[d][n] \in Cells
        BY <2>1, <3>2, <1>7 DEF OwnershipInv, VariablesOwned
      <4>2. QED
        BY <4>1, <1>10
    <3>3. QED
      BY <3>1, <3>2
  <2>2. QED
    BY <2>1 DEF VariablesOwned
<1>15. VariablesUnshared'
  <2>1. ASSUME NEW d \in Frames, NEW e \in Frames, NEW m \in Names, NEW n \in Names,
               symbols'[d][m] = symbols'[e][n], symbols'[d][m] \in Cells
        PROVE  d = e /\ m = n
    <3>1. CASE d = depth + 1 /\ e = depth + 1
      BY <2>1, <3>1, <1>4, <1>7 DEF Operands, Values
    <3>2. CASE d = depth + 1 /\ e # depth + 1
      BY <2>1, <3>2, <1>5, <1>7 DEF Operands, Values
    <3>3. CASE d # depth + 1 /\ e = depth + 1
      BY <2>1, <3>3, <1>5, <1>7 DEF Operands, Values
    <3>4. CASE d # depth + 1 /\ e # depth + 1
      BY <2>1, <3>4, <1>7 DEF OwnershipInv, VariablesUnshared
    <3>5. QED
      BY <3>1, <3>2, <3>3, <3>4
  <2>2. QED
    BY <2>1 DEF VariablesUnshared
<1>16. ResultsOwned'
  <2>1. ASSUME NEW d \in Frames, lastValue[d] \in Cells
        PROVE  \/ owner'[lastValue[d]] = "INTERPRETER"
               \/ Visible(d, lastValue[d], ResultNames)'
    <3>1. d # depth + 1
      BY <2>1, <1>1 DEF OwnershipInv, IdleFramesEmpty, Operands, Values
    <3>2. CASE owner[lastValue[d]] = "INTERPRETER"
      BY <2>1, <3>2, <1>10
    <3>3. CASE Visible(d, lastValue[d], ResultNames)
      <4>1. PICK n \in ResultNames :
              lastValue[d] = symbols[d][n] \/ lastValue[d] = symbols[1][n]
        BY <3>3 DEF Visible
      <4>2. symbols'[d] = symbols[d] /\ symbols'[1] = symbols[1]
        BY <3>1, <1>1, <1>7
      <4>3. lastValue'[d] = symbols'[d][n] \/ lastValue'[d] = symbols'[1][n]
        BY <4>1, <4>2, <1>1
      <4>4. QED
        BY <4>3 DEF Visible
    <3>4. QED
      BY <2>1, <3>2, <3>3, <1>1 DEF OwnershipInv, ResultsOwned
  <2>2. QED
    BY <2>1, <1>1 DEF ResultsOwned, Visible
\* The arguments: those of the callers are what they were, the new ones are
\* the popped operands.
<1>17. ASSUME NEW d \in Frames, NEW v \in args'[d] \cap Cells
       PROVE  /\ owner'[v] = owner[v]
              /\ owner[v] = "INTERPRETER" \/ Visible(d, v, Names)'
              /\ d # depth + 1
              /\ d = depth => v \in Popped(k)
              /\ d # depth => v \in args[d]
  <2>1. d # depth => v \in args[d] /\ d # depth + 1
    <3>1. d # depth => v \in args[d]
      BY <1>17, <1>8
    <3>2. args[depth + 1] = {}
      BY <1>1 DEF OwnershipInv, IdleFramesEmpty
    <3>3. QED
      BY <3>1, <3>2
  <2>2. CASE d = depth
    <3>1. v \in Popped(k) /\ v \in Cells
      BY <1>17, <1>8, <2>2
    <3>2. \/ owner[v] = "INTERPRETER"
          \/ Visible(depth, v, Names) /\ owner[v] = "CONTEXT_VARIABLE"
      BY <3>1, <1>1, PoppedCell
    <3>3. QED
      BY <2>2, <3>1, <3>2, <1>1, <1>9, <1>10
  <2>3. CASE d # depth
    <3>1. owner[v] = "INTERPRETER" \/ Visible(d, v, Names)
      BY <2>1, <2>3, <1>17 DEF OwnershipInv, ArgsOwned
    <3>2. owner[v] # "FREED"
      BY <3>1, <1>1, <1>17 DEF Visible, OwnershipInv, VariablesOwned
    <3>3. QED
      BY <2>1, <2>3, <3>1, <3>2, <1>9, <1>10, <1>17
  <2>4. QED
    BY <2>2, <2>3
<1>18. ArgsOwned'
  BY <1>17 DEF ArgsOwned
<1>19. HoldersDisjoint'
  <2>1. ASSUME NEW d \in Frames, NEW e \in Frames, NEW i \in 1..Len(stack'[d]),
               stack'[d][i] \in Cells
        PROVE  /\ \A j \in 1..Len(stack'[e]) : stack'[d][i] = stack'[e][j] => d = e /\ i = j
               /\ stack'[d][i] \notin args'[e]
               /\ stack'[d][i] # lastValue[e]
    <3>1. /\ \A j \in 1..Len(stack'[e]) : stack'[d][i] = stack'[e][j] => d = e /\ i = j
          /\ stack'[d][i] \notin args[e]
          /\ stack'[d][i] # lastValue[e]
      BY <2>1, <1>8 DEF OwnershipInv, HoldersDisjoint
    <3>2. owner[stack'[d][i]] = "INTERPRETER"
      BY <2>1, <1>8 DEF OwnershipInv, OperandsOwned
    <3>3. stack'[d][i] \notin Popped(k)
      <4>1. i \in 1..Len(stack[d]) /\ stack'[d][i] = stack[d][i] /\ ~(d = depth /\ i > Height - k)
        BY <2>1, <1>8
      <4>2. QED
        BY <2>1, <3>2, <4>1, <1>1, PoppedTemporary
    <3>4. QED
      BY <3>1, <3>3, <1>8
  <2>2. ASSUME NEW d \in Frames, NEW e \in Frames,
               NEW v \in args'[d] \cap Cells, owner'[v] = "INTERPRETER"
        PROVE  v # lastValue[e] /\ (v \in args'[e] => d = e)
    <3>1. owner[v] = "INTERPRETER"
      BY <2>2, <1>17
    <3>2. v \in args'[e] => /\ e = depth => v \in Popped(k)
                            /\ e # depth => v \in args[e]
      BY <2>2, <1>17
    <3>3. v \in Popped(k) => \A f \in Frames : lastValue[f] # v /\ v \notin args[f]
      BY <2>2, <3>1, <1>1, PoppedTemporary
    <3>4. v \in args[d] => v # lastValue[e] /\ (v \in args[e] => d = e)
      BY <2>2, <3>1 DEF OwnershipInv, HoldersDisjoint
    <3>5. (d = depth => v \in Popped(k)) /\ (d # depth => v \in args[d])
      BY <2>2, <1>17
    <3>6. QED
      BY <3>2, <3>3, <3>4, <3>5
  <2>3. ASSUME NEW d \in Frames, NEW e \in Frames,
               lastValue[d] = lastValue[e], lastValue[d] \in Cells,
               owner'[lastValue[d]] = "INTERPRETER"
        PROVE  d = e
    <3>1. owner[lastValue[d]] = "INTERPRETER"
      BY <2>3, <1>5, <1>6 DEF Values
    <3>2. QED
      BY <2>3, <3>1 DEF OwnershipInv, HoldersDisjoint
  <2>4. QED
    BY <2>1, <2>2, <2>3, <1>1 DEF HoldersDisjoint
<1>20. QED
  BY <1>11, <1>12, <1>13, <1>14, <1>15, <1>16, <1>18, <1>19 DEF OwnershipInv

\* What leaving the top frame deletes: its own variables and temporaries,
\* and the temporaries its caller passed.
LEMMA DroppedValue ==
  ASSUME OwnershipInv, depth > 1, NEW v \in FrameValues(depth) \cup CallArguments
  PROVE  /\ v \in Cells
         /\ \/ owner[v] = "CONTEXT_VARIABLE" /\ \E n \in Names : v = symbols[depth][n]
            \/ /\ owner[v] = "INTERPRETER"
               /\ \/ v = lastValue[depth]
                  \/ \E i \in 1..Len(stack[depth]) : v = stack[depth][i]
                  \/ v \in args[depth - 1]
<1>1. CASE v \in OwnedBy("CONTEXT_VARIABLE", SymbolRange(depth))
  <2>1. v \in Values /\ owner[v] = "CONTEXT_VARIABLE" /\ \E n \in Names : v = symbols[depth][n]
    BY <1>1 DEF OwnedBy, SymbolRange
  <2>2. QED
    BY <2>1, TagFacts
<1>2. CASE v \in Temporaries({lastValue[depth]} \cup StackRange(depth))
  <2>1. /\ v \in Values /\ owner[v] = "INTERPRETER"
        /\ v = lastValue[depth] \/ \E i \in 1..Len(stack[depth]) : v = stack[depth][i]
    BY <1>2 DEF Temporaries, OwnedBy, StackRange
  <2>2. QED
    BY <2>1, TagFacts
<1>3. CASE v \in CallArguments
  <2>1. v \in Values /\ owner[v] = "INTERPRETER" /\ v \in args[depth - 1]
    BY <1>3 DEF CallArguments, Temporaries, OwnedBy
  <2>2. QED
    BY <2>1, TagFacts
<1>4. QED
  BY <1>1, <1>2, <1>3 DEF FrameValues

\* The top frame is dropped, F deleted and r, a new temporary or None, pushed
\* on the caller's stack, or nothing pushed.
LEMMA FrameDropped ==
  ASSUME OwnershipInv, TypeOK', depth > 1, DropFrame(depth), TextAlive',
         NEW r \in Fresh \cup {Empty},
         NEW F \in SUBSET (FrameValues(depth) \cup CallArguments),
         \A v \in Values :
           owner'[v] = IF v = r THEN IF r = Empty THEN "EMPTY_VALUE" ELSE "INTERPRETER"
                       ELSE IF v \in F THEN "FREED" ELSE owner[v],
         stack'[depth] = <<>>,
         \A d \in Frames : d # depth => \A i \in 1..Len(stack'[d]) :
           \/ i \in 1..Len(stack[d]) /\ stack'[d][i] = stack[d][i]
           \/ d = depth - 1 /\ i = Len(stack[d]) + 1 /\ stack'[d][i] = r,
         \A d \in Frames : d # depth /\ d # depth - 1 => stack'[d] = stack[d]
  PROVE  OwnershipInv'
<1> USE OwnershipAssumption
<1>1. /\ TypeOK /\ 1 \in Frames /\ depth \in Frames /\ depth \in Nat
      /\ \A d \in Frames : d \in Nat /\ d >= 1
      /\ depth - 1 \in Frames /\ TextAlive
  <2>1. TypeOK /\ TextAlive
    BY FrameFacts DEF OwnershipInv, IdleFramesEmpty
  <2>2. depth - 1 \in Frames
    BY <2>1, FrameFacts DEF Frames
  <2>3. QED
    BY <2>1, <2>2, FrameFacts
<1>2. /\ depth' = depth - 1
      /\ \A n \in Names : symbols'[depth][n] = Nil
      /\ lastValue'[depth] = Nil
      /\ args'[depth - 1] = {}
      /\ \A d \in Frames : d # depth => symbols'[d] = symbols[d] /\ lastValue'[d] = lastValue[d]
      /\ \A d \in Frames : d # depth - 1 => args'[d] = args[d]
  BY <1>1 DEF DropFrame, NoSymbols, TypeOK
<1>3. /\ r \in Values /\ r \in Cells <=> r # Empty
      /\ r \in Cells => \A d \in Frames :
           /\ \A i \in 1..Len(stack[d]) : stack[d][i] # r
           /\ \A n \in Names : symbols[d][n] # r
           /\ r \notin args[d]
           /\ lastValue[d] # r
  BY <1>1, FreshUnheld DEF Fresh, Values
<1>4. \A v \in F : /\ v \in Cells /\ v \in Values
                   /\ \/ owner[v] = "CONTEXT_VARIABLE" /\ \E n \in Names : v = symbols[depth][n]
                      \/ /\ owner[v] = "INTERPRETER"
                         /\ \/ v = lastValue[depth]
                            \/ \E i \in 1..Len(stack[depth]) : v = stack[depth][i]
                            \/ v \in args[depth - 1]
  <2>1. \A v \in F : v \in FrameValues(depth) \cup CallArguments
    OBVIOUS
  <2>2. QED
    BY <2>1, DroppedValue DEF Values
<1>5. ASSUME NEW v \in Cells, v # r, v \notin F PROVE owner'[v] = owner[v]
  BY <1>5 DEF Values
\* What the frames below still hold is kept.
<1>6. ASSUME NEW d \in Frames, d # depth, NEW i \in 1..Len(stack[d]), stack[d][i] \in Cells
      PROVE  stack[d][i] \notin F
  <2>1. /\ owner[stack[d][i]] = "INTERPRETER"
        /\ stack[d][i] # lastValue[depth] /\ stack[d][i] \notin args[depth - 1]
        /\ \A j \in 1..Len(stack[depth]) : stack[d][i] # stack[depth][j]
    BY <1>6, <1>1 DEF OwnershipInv, OperandsOwned, HoldersDisjoint
  <2>2. QED
    BY <2>1, <1>4
<1>7. ASSUME NEW d \in Frames, d # depth, NEW n \in Names, symbols[d][n] \in Cells
      PROVE  symbols[d][n] \notin F
  <2>1. /\ owner[symbols[d][n]] = "CONTEXT_VARIABLE"
        /\ \A m \in Names : symbols[d][n] # symbols[depth][m]
    BY <1>7, <1>1 DEF OwnershipInv, VariablesOwned, VariablesUnshared
  <2>2. QED
    BY <2>1, <1>4
<1>8. ASSUME NEW d \in Frames, d # depth, NEW v \in Cells, NEW N \in SUBSET Names,
             Visible(d, v, N)
      PROVE  v \notin F /\ owner[v] = "CONTEXT_VARIABLE"
  <2>1. PICK n \in N : v = symbols[d][n] \/ v = symbols[1][n]
    BY <1>8 DEF Visible
  <2>2. n \in Names /\ 1 # depth
    BY <1>1
  <2>3. QED
    BY <2>1, <2>2, <1>1, <1>7, <1>8 DEF OwnershipInv, VariablesOwned
<1>9. ASSUME NEW d \in Frames, d # depth, lastValue[d] \in Cells
      PROVE  lastValue[d] \notin F
  <2>1. CASE owner[lastValue[d]] = "INTERPRETER"
    <3>1. /\ lastValue[d] # lastValue[depth] /\ lastValue[d] \notin args[depth - 1]
          /\ \A j \in 1..Len(stack[depth]) : lastValue[d] # stack[depth][j]
      BY <1>9, <2>1, <1>1 DEF OwnershipInv, HoldersDisjoint
    <3>2. QED
      BY <2>1, <3>1, <1>4
  <2>2. CASE Visible(d, lastValue[d], ResultNames)
    BY <1>8, <1>9, <2>2
  <2>3. QED
    BY <1>1, <1>9, <2>1, <2>2 DEF OwnershipInv, ResultsOwned
<1>10. ASSUME NEW d \in Frames, NEW v \in args'[d] \cap Cells
       PROVE  /\ v \in args[d] /\ d # depth /\ d # depth - 1
              /\ v \notin F /\ owner'[v] = owner[v]
  <2>1. v \in args[d] /\ d # depth - 1
    BY <1>10, <1>2
  <2>2. d # depth
    BY <2>1, <1>1 DEF OwnershipInv, IdleFramesEmpty
  <2>3. CASE owner[v] = "INTERPRETER"
    <3>1. /\ v # lastValue[depth] /\ v \notin args[depth - 1]
          /\ \A j \in 1..Len(stack[depth]) : v # stack[depth][j]
      BY <1>10, <2>1, <2>3, <1>1 DEF OwnershipInv, HoldersDisjoint
    <3>2. QED
      BY <1>10, <2>1, <2>2, <2>3, <3>1, <1>3, <1>4, <1>5
  <2>4. CASE Visible(d, v, Names)
    <3>1. v \notin F
      BY <1>8, <1>10, <2>2, <2>4
    <3>2. QED
      BY <3>1, <1>3, <1>5, <1>10, <2>1, <2>2
  <2>5. QED
    BY <1>10, <2>1, <2>3, <2>4 DEF OwnershipInv, ArgsOwned
<1>11. ASSUME NEW d \in Frames, d # depth, NEW v, NEW N \in SUBSET Names, Visible(d, v, N)
       PROVE  Visible(d, v, N)'
  <2>1. symbols'[d] = symbols[d] /\ symbols'[1] = symbols[1]
    BY <1>11, <1>1, <1>2
  <2>2. QED
    BY <2>1, <1>11 DEF Visible
\* A slot of a new stack holds r, on top of the caller's, or an old operand.
<1>12. ASSUME NEW d \in Frames, NEW i \in 1..Len(stack'[d])
       PROVE  /\ d # depth
              /\ \/ i \in 1..Len(stack[d]) /\ stack'[d][i] = stack[d][i]
                 \/ d = depth - 1 /\ i = Len(stack[d]) + 1 /\ stack'[d][i] = r
  BY <1>12
<1>13. Tags'
  <2>1. owner'[Empty] = owner[Empty]
    BY <1>4 DEF OwnershipInv, Tags, Values
  <2>2. \A w \in Literals : owner'[w] = owner[w]
    BY <1>3, <1>4 DEF OwnershipInv, Tags, Values
  <2>3. \A c \in Cells : owner'[c] \in {"FREED", "INTERPRETER", "CONTEXT_VARIABLE"}
    BY <1>3 DEF OwnershipInv, Tags, Values
  <2>4. QED
    BY <2>1, <2>2, <2>3, <1>1, TagsKept
<1>14. IdleFramesEmpty'
  <2>1. ASSUME NEW d \in Frames, d > depth - 1
        PROVE  /\ \A n \in Names : symbols'[d][n] = Nil
               /\ stack'[d] = <<>> /\ lastValue'[d] = Nil
    <3>1. CASE d = depth
      BY <3>1, <1>2
    <3>2. CASE d # depth
      <4>1. depth \in Nat /\ d \in Nat
        BY <1>1
      <4>2. d > depth /\ d # depth - 1
        BY <2>1, <3>2, <4>1
      <4>3. QED
        BY <4>2, <3>2, <1>2 DEF OwnershipInv, IdleFramesEmpty
    <3>3. QED
      BY <3>1, <3>2
  <2>2. ASSUME NEW d \in Frames, d >= depth - 1 PROVE args'[d] = {}
    <3>1. CASE d = depth - 1
      BY <3>1, <1>2
    <3>2. CASE d # depth - 1
      <4>1. depth \in Nat /\ d \in Nat
        BY <1>1
      <4>2. d >= depth
        BY <2>2, <3>2, <4>1
      <4>3. args[d] = {} /\ args'[d] = args[d]
        BY <4>2, <3>2, <1>2 DEF OwnershipInv, IdleFramesEmpty
      <4>4. QED
        BY <4>3
    <3>3. QED
      BY <3>1, <3>2
  <2>3. QED
    BY <2>1, <2>2, <1>2 DEF IdleFramesEmpty
<1>15. OperandsOwned'
  <2>1. ASSUME NEW d \in Frames, NEW i \in 1..Len(stack'[d]), stack'[d][i] \in Cells
        PROVE  owner'[stack'[d][i]] = "INTERPRETER"
    <3>1. CASE stack'[d][i] = r
      BY <2>1, <3>1, <1>3
    <3>2. CASE stack'[d][i] # r
      <4>1. d # depth /\ i \in 1..Len(stack[d]) /\ stack'[d][i] = stack[d][i]
        BY <1>12, <3>2
      <4>2. owner[stack[d][i]] = "INTERPRETER" /\ stack[d][i] \notin F
        BY <2>1, <4>1, <1>6 DEF OwnershipInv, OperandsOwned
      <4>3. QED
        BY <2>1, <3>2, <4>1, <4>2, <1>5
    <3>3. QED
      BY <3>1, <3>2
  <2>2. QED
    BY <2>1 DEF OperandsOwned
<1>16. VariablesOwned'
  <2>1. ASSUME NEW d \in Frames, NEW n \in Names, symbols'[d][n] \in Cells
        PROVE  owner'[symbols'[d][n]] = "CONTEXT_VARIABLE"
    <3>1. d # depth /\ symbols'[d][n] = symbols[d][n]
      BY <2>1, <1>2 DEF Operands, Values
    <3>2. QED
      BY <2>1, <3>1, <1>3, <1>5, <1>7 DEF OwnershipInv, VariablesOwned
  <2>2. QED
    BY <2>1 DEF VariablesOwned
<1>17. VariablesUnshared'
  <2>1. ASSUME NEW d \in Frames, NEW e \in Frames, NEW m \in Names, NEW n \in Names,
               symbols'[d][m] = symbols'[e][n], symbols'[d][m] \in Cells
        PROVE  d = e /\ m = n
    <3>1. d # depth /\ e # depth
      BY <2>1, <1>2 DEF Operands, Values
    <3>2. QED
      BY <2>1, <3>1, <1>2 DEF OwnershipInv, VariablesUnshared
  <2>2. QED
    BY <2>1 DEF VariablesUnshared
<1>18. ASSUME NEW d \in Frames, lastValue'[d] \in Cells
       PROVE  /\ d # depth /\ lastValue'[d] = lastValue[d]
              /\ owner'[lastValue[d]] = owner[lastValue[d]]
  <2>1. d # depth /\ lastValue'[d] = lastValue[d]
    BY <1>18, <1>2 DEF Operands, Values
  <2>2. QED
    BY <1>18, <2>1, <1>3, <1>5, <1>9
<1>19. ResultsOwned'
  <2>1. ASSUME NEW d \in Frames, lastValue'[d] \in Cells
        PROVE  \/ owner'[lastValue'[d]] = "INTERPRETER"
               \/ Visible(d, lastValue[d], ResultNames)'
    <3>1. CASE owner[lastValue[d]] = "INTERPRETER"
      BY <2>1, <3>1, <1>18
    <3>2. CASE Visible(d, lastValue[d], ResultNames)
      <4>1. PICK n \in ResultNames :
              lastValue[d] = symbols[d][n] \/ lastValue[d] = symbols[1][n]
        BY <3>2 DEF Visible
      <4>2. /\ symbols'[d] = symbols[d] /\ symbols'[1] = symbols[1]
            /\ lastValue'[d] = lastValue[d]
        <5>1. d # depth /\ lastValue'[d] = lastValue[d] /\ 1 # depth /\ 1 \in Frames
          BY <2>1, <1>1, <1>18
        <5>2. QED
          BY <5>1, <1>2
      <4>3. lastValue'[d] = symbols'[d][n] \/ lastValue'[d] = symbols'[1][n]
        BY <4>1, <4>2
      <4>4. QED
        BY <4>3 DEF Visible
    <3>3. QED
      BY <2>1, <3>1, <3>2, <1>1, <1>18 DEF OwnershipInv, ResultsOwned
  <2>2. QED
    BY <2>1 DEF ResultsOwned
<1>20. ArgsOwned'
  <2>1. ASSUME NEW d \in Frames, NEW v \in args'[d] \cap Cells
        PROVE  owner'[v] = "INTERPRETER" \/ Visible(d, v, Names)'
    <3>1. owner[v] = "INTERPRETER" \/ Visible(d, v, Names)
      BY <2>1, <1>10 DEF OwnershipInv, ArgsOwned
    <3>2. QED
      BY <2>1, <3>1, <1>10, <1>11
  <2>2. QED
    BY <2>1 DEF ArgsOwned
<1>21. HoldersDisjoint'
  <2>1. ASSUME NEW d \in Frames, NEW e \in Frames, NEW i \in 1..Len(stack'[d]),
               stack'[d][i] \in Cells
        PROVE  /\ \A j \in 1..Len(stack'[e]) : stack'[d][i] = stack'[e][j] => d = e /\ i = j
               /\ stack'[d][i] \notin args'[e]
               /\ stack'[d][i] # lastValue'[e]
    <3>1. stack'[d][i] \in args'[e] => stack'[d][i] \in args[e]
      BY <2>1, <1>10
    <3>2. stack'[d][i] = lastValue'[e] => stack'[d][i] = lastValue[e]
      BY <2>1, <1>18
    <3>3. CASE stack'[d][i] = r
      BY <2>1, <3>1, <3>2, <3>3, <1>3, <1>12
    <3>4. CASE stack'[d][i] # r
      BY <2>1, <3>1, <3>2, <3>4, <1>12 DEF OwnershipInv, HoldersDisjoint
    <3>5. QED
      BY <3>3, <3>4
  <2>2. ASSUME NEW d \in Frames, NEW e \in Frames, NEW v \in args'[d] \cap Cells,
               owner'[v] = "INTERPRETER"
        PROVE  v # lastValue'[e] /\ (v \in args'[e] => d = e)
    <3>1. v \in args[d] /\ owner[v] = "INTERPRETER"
      BY <2>2, <1>10
    <3>2. v # lastValue[e] /\ (v \in args[e] => d = e)
      BY <2>2, <3>1 DEF OwnershipInv, HoldersDisjoint
    <3>3. QED
      BY <2>2, <3>2, <1>10, <1>18
  <2>3. ASSUME NEW d \in Frames, NEW e \in Frames,
               lastValue'[d] = lastValue'[e], lastValue'[d] \in Cells,
               owner'[lastValue'[d]] = "INTERPRETER"
        PROVE  d = e
    BY <2>3, <1>18 DEF OwnershipInv, HoldersDisjoint
  <2>4. QED
    BY <2>1, <2>2, <2>3 DEF HoldersDisjoint
<1>22. QED
  BY <1>13, <1>14, <1>15, <1>16, <1>17, <1>19, <1>20, <1>21 DEF OwnershipInv

LEMMA ReturnInv ==
  ASSUME OwnershipInv, TypeOK', NEW r \in Fresh \cup {Empty}, depth > 1, Running,
         owner' = [Free(FrameValues(depth) \cup CallArguments) EXCEPT
                     ![r] = IF r = Empty THEN "EMPTY_VALUE" ELSE "INTERPRETER"],
         LeaveWith(r)
  PROVE  OwnershipInv'
<1> DEFINE F == FrameValues(depth) \cup CallArguments
<1>1. /\ TypeOK /\ depth \in Frames /\ depth - 1 \in Frames /\ depth \in Nat
      /\ DropFrame(depth) /\ TextAlive'
      /\ stack \in [Frames -> Seq(Operands)]
  <2>1. TypeOK /\ depth \in Nat /\ depth \in Frames
    BY FrameFacts DEF OwnershipInv
  <2>2. depth - 1 \in Frames
    BY <2>1, OwnershipAssumption DEF Frames
  <2>3. QED
    BY <2>1, <2>2 DEF LeaveWith, Running, TypeOK
<1>2. /\ stack'[depth] = <<>>
      /\ stack'[depth - 1] = Append(stack[depth - 1], r)
      /\ \A d \in Frames : d # depth /\ d # depth - 1 => stack'[d] = stack[d]
  BY <1>1 DEF LeaveWith
<1>3. r \in Operands
  BY DEF Fresh, Operands, Values
<1>4. ASSUME NEW d \in Frames, d # depth, NEW i \in 1..Len(stack'[d])
      PROVE  \/ i \in 1..Len(stack[d]) /\ stack'[d][i] = stack[d][i]
             \/ d = depth - 1 /\ i = Len(stack[d]) + 1 /\ stack'[d][i] = r
  <2>1. CASE d = depth - 1
    <3>1. stack'[d] = Append(stack[d], r) /\ stack[d] \in Seq(Operands)
      BY <1>1, <1>2, <2>1
    <3>2. QED
      BY <1>3, <1>4, <2>1, <3>1, PushSeq
  <2>2. CASE d # depth - 1
    BY <1>2, <1>4, <2>2
  <2>3. QED
    BY <2>1, <2>2
<1>5. \A v \in Values :
        owner'[v] = IF v = r THEN IF r = Empty THEN "EMPTY_VALUE" ELSE "INTERPRETER"
                    ELSE IF v \in F THEN "FREED" ELSE owner[v]
  BY DEF Free
<1>6. F \in SUBSET (FrameValues(depth) \cup CallArguments)
  OBVIOUS
<1>7. \A d \in Frames : d # depth => \A i \in 1..Len(stack'[d]) :
        \/ i \in 1..Len(stack[d]) /\ stack'[d][i] = stack[d][i]
        \/ d = depth - 1 /\ i = Len(stack[d]) + 1 /\ stack'[d][i] = r
  BY <1>4
<1>8. DropFrame(depth) /\ TextAlive'
  BY <1>1
<1>9. /\ stack'[depth] = <<>>
      /\ \A d \in Frames : d # depth /\ d # depth - 1 => stack'[d] = stack[d]
  BY <1>2
<1>10. QED
  BY <1>5, <1>6, <1>7, <1>8, <1>9, FrameDropped

LEMMA LeaveWithErrorInv ==
  ASSUME OwnershipInv, TypeOK', depth > 1, LeaveWithError
  PROVE  OwnershipInv'
<1> DEFINE F == FrameValues(depth)
<1>1. /\ stack' = [stack EXCEPT ![depth] = <<>>] /\ depth \in Frames
      /\ stack \in [Frames -> Seq(Operands)]
      /\ DropFrame(depth) /\ status' = "error" /\ owner' = Free(F)
  BY DEF OwnershipInv, TypeOK, LeaveWithError
<1>2. PICK r \in Fresh \cup {Empty} : r = Empty
  OBVIOUS
<1>3. Empty \notin F /\ owner[Empty] = "EMPTY_VALUE"
  <2>1. Empty \in F => Empty \in Cells
    BY DroppedValue
  <2>2. QED
    BY <2>1, OwnershipAssumption DEF OwnershipInv, Tags
<1>4. \A v \in Values :
        owner'[v] = IF v = r THEN IF r = Empty THEN "EMPTY_VALUE" ELSE "INTERPRETER"
                    ELSE IF v \in F THEN "FREED" ELSE owner[v]
  BY <1>1, <1>2, <1>3 DEF Free
<1>5. /\ stack'[depth] = <<>>
      /\ \A d \in Frames : d # depth => stack'[d] = stack[d]
  BY <1>1
<1>6. F \in SUBSET (FrameValues(depth) \cup CallArguments)
  OBVIOUS
<1>7. \A d \in Frames : d # depth => \A i \in 1..Len(stack'[d]) :
        \/ i \in 1..Len(stack[d]) /\ stack'[d][i] = stack[d][i]
        \/ d = depth - 1 /\ i = Len(stack[d]) + 1 /\ stack'[d][i] = r
  BY <1>5
<1>8. DropFrame(depth) /\ TextAlive'
  BY <1>1
<1>9. \A d \in Frames : d # depth /\ d # depth - 1 => stack'[d] = stack[d]
  BY <1>5
<1>10. QED
  BY <1>4, <1>5, <1>6, <1>7, <1>8, <1>9, FrameDropped

LEMMA LeavingInv ==
  ASSUME OwnershipInv, TypeOK', Return \/ EndOfBody \/ ReturnError \/ Unwind
  PROVE  OwnershipInv'
<1>1. CASE Return
  <2>1. PICK r \in Fresh :
          /\ owner' = [Free(FrameValues(depth) \cup CallArguments) EXCEPT ![r] = "INTERPRETER"]
          /\ LeaveWith(r)
    BY <1>1 DEF Return
  <2>2. r # Empty /\ depth > 1 /\ Running
    BY <1>1, OwnershipAssumption DEF Return, Fresh
  <2>3. QED
    BY <2>1, <2>2, ReturnInv
<1>2. CASE EndOfBody
  <2>1. Empty \in Values /\ owner[Empty] = "EMPTY_VALUE"
    BY DEF OwnershipInv, Tags, Values
  <2>2. Empty \notin FrameValues(depth) \cup CallArguments
    BY <1>2, DroppedValue, OwnershipAssumption DEF EndOfBody
  <2>3. owner' = [Free(FrameValues(depth) \cup CallArguments) EXCEPT ![Empty] = "EMPTY_VALUE"]
    BY <1>2, <2>1, <2>2 DEF EndOfBody, Free
  <2>4. QED
    BY <1>2, <2>3, ReturnInv DEF EndOfBody
<1>3. CASE ReturnError \/ Unwind
  BY <1>3, LeaveWithErrorInv DEF ReturnError, Unwind
<1>4. QED
  BY <1>1, <1>2, <1>3

-----------------------------------------------------------------------------
(* The end of the program *)

\* The text is released: the literals, and the variables of a cleared
\* context, are deleted; the cells of the interpreter are not.
LEMMA TextReleased ==
  ASSUME OwnershipInv, TypeOK', depth = 1, depth' = 1,
         stack' = stack, lastValue' = lastValue, args' = args, status' = "released",
         owner'[Empty] = owner[Empty],
         \A v \in Literals : owner'[v] = "FREED",
         \A c \in Cells : \/ owner'[c] = owner[c]
                          \/ owner[c] = "CONTEXT_VARIABLE" /\ owner'[c] = "FREED",
         \A d \in Frames : \A n \in Names :
           /\ symbols'[d][n] \in {symbols[d][n], Nil}
           /\ symbols'[d][n] \in Cells => owner'[symbols'[d][n]] = owner[symbols'[d][n]]
  PROVE  OwnershipInv'
<1> USE OwnershipAssumption
<1>1. Nil \notin Cells
  BY DEF Operands, Values
<1>2. \A d \in Frames : \A n \in Names : symbols'[d][n] \in Cells => symbols'[d][n] = symbols[d][n]
  BY <1>1
<1>3. \A d \in Frames : args[d] = {}
  BY FrameFacts DEF OwnershipInv, IdleFramesEmpty
<1>4. Tags'
  <2>1. \A c \in Cells : owner'[c] \in {"FREED", "INTERPRETER", "CONTEXT_VARIABLE"}
    BY DEF OwnershipInv, Tags
  <2>2. QED
    BY <2>1 DEF OwnershipInv, Tags
<1>5. IdleFramesEmpty'
  BY DEF OwnershipInv, IdleFramesEmpty
<1>6. OperandsOwned'
  BY DEF OwnershipInv, OperandsOwned
<1>7. VariablesOwned'
  BY <1>2 DEF OwnershipInv, VariablesOwned
<1>8. VariablesUnshared'
  BY <1>2 DEF OwnershipInv, VariablesUnshared
<1>9. ResultsOwned' /\ ArgsOwned'
  BY <1>3 DEF ResultsOwned, ArgsOwned
<1>10. HoldersDisjoint'
  BY <1>3 DEF OwnershipInv, HoldersDisjoint
<1>11. QED
  BY <1>4, <1>5, <1>6, <1>7, <1>8, <1>9, <1>10 DEF OwnershipInv

LEMMA AbortInv ==
  ASSUME OwnershipInv, TypeOK', Abort
  PROVE  OwnershipInv'
<1>1. Empty \notin Literals /\ Cells \cap Literals = {}
  BY OwnershipAssumption
<1>2. \A v \in Values : owner'[v] = IF v \in Literals THEN "FREED" ELSE owner[v]
  BY DEF Abort, Free
<1>3. QED
  BY <1>1, <1>2, TextReleased DEF Abort, Values

LEMMA EndOfFileInv ==
  ASSUME OwnershipInv, TypeOK', EndOfFile
  PROVE  OwnershipInv'
<1> DEFINE F == OwnedBy("CONTEXT_VARIABLE", SymbolRange(1))
<1>1. /\ TypeOK /\ 1 \in Frames /\ depth = 1
      /\ \A d \in Frames : d \in Nat /\ d >= 1
      /\ Empty \notin Literals /\ Cells \cap Literals = {} /\ Empty \notin Cells
  BY FrameFacts, OwnershipAssumption DEF OwnershipInv, EndOfFile
<1>2. \A v \in F : v \in Cells /\ v \in Values /\ owner[v] = "CONTEXT_VARIABLE"
  BY TagFacts DEF OwnedBy
<1>3. \A v \in Values : owner'[v] = IF v \in F \/ v \in Literals THEN "FREED" ELSE owner[v]
  BY DEF EndOfFile, Free
<1>4. ASSUME NEW d \in Frames, NEW n \in Names
      PROVE  /\ symbols'[d][n] \in {symbols[d][n], Nil}
             /\ symbols'[d][n] \notin Cells
  <2>1. CASE d = 1
    <3>1. symbols'[1][n] = IF symbols[1][n] \in OwnedBy("CONTEXT_VARIABLE", {symbols[1][n]})
                           THEN Nil ELSE symbols[1][n]
      BY <1>1 DEF EndOfFile, TypeOK
    <3>2. symbols[1][n] \in Cells =>
            symbols[1][n] \in OwnedBy("CONTEXT_VARIABLE", {symbols[1][n]})
      BY <1>1 DEF OwnedBy, OwnershipInv, VariablesOwned, Values
    <3>3. QED
      BY <2>1, <3>1, <3>2, OwnershipAssumption DEF Operands, Values
  <2>2. CASE d # 1
    <3>1. symbols'[d] = symbols[d] /\ d > depth
      BY <1>1, <2>2 DEF EndOfFile, TypeOK
    <3>2. symbols[d][n] = Nil
      BY <3>1 DEF OwnershipInv, IdleFramesEmpty
    <3>3. QED
      BY <3>1, <3>2, OwnershipAssumption DEF Operands, Values
  <2>3. QED
    BY <2>1, <2>2
<1>5. /\ owner'[Empty] = owner[Empty]
      /\ \A v \in Literals : owner'[v] = "FREED"
      /\ \A c \in Cells : \/ owner'[c] = owner[c]
                          \/ owner[c] = "CONTEXT_VARIABLE" /\ owner'[c] = "FREED"
  BY <1>1, <1>2, <1>3 DEF Values
<1>6. QED
  BY <1>1, <1>4, <1>5, TextReleased DEF EndOfFile

\* Nothing is left but memory that leaked.
LEMMA DestroyInterpreterInv ==
  ASSUME OwnershipInv, TypeOK', DestroyInterpreter
  PROVE  OwnershipInv'
<1> USE OwnershipAssumption
<1>1. /\ TypeOK /\ 1 \in Frames /\ depth = 1 /\ status = "released"
      /\ depth' = 1 /\ args' = args /\ status' = "ended"
      /\ \A d \in Frames : d \in Nat /\ d >= 1
      /\ Nil \notin Cells
  BY FrameFacts DEF OwnershipInv, IdleFramesEmpty, DestroyInterpreter, Operands, Values
<1>2. \A d \in Frames : /\ stack'[d] = <<>> /\ lastValue'[d] = Nil /\ args'[d] = {}
                        /\ \A n \in Names : symbols'[d][n] = Nil
  <2>1. \A d \in Frames : args[d] = {} /\ (d # 1 => d > depth)
    BY <1>1 DEF OwnershipInv, IdleFramesEmpty
  <2>2. \A d \in Frames : d # 1 => /\ stack[d] = <<>> /\ lastValue[d] = Nil
                                   /\ \A n \in Names : symbols[d][n] = Nil
    BY <2>1 DEF OwnershipInv, IdleFramesEmpty
  <2>3. QED
    BY <1>1, <2>1, <2>2 DEF DestroyInterpreter, TypeOK, NoSymbols
<1>3. /\ \A v \in FrameValues(1) : v \in Cells
      /\ \A v \in Values : owner'[v] = IF v \in FrameValues(1) THEN "FREED" ELSE owner[v]
  <2>1. \A v \in FrameValues(1) : v \in Values /\ owner[v] \in {"INTERPRETER", "CONTEXT_VARIABLE"}
    BY DEF FrameValues, Temporaries, OwnedBy
  <2>2. QED
    BY <2>1, TagFacts DEF DestroyInterpreter, Free
<1>4. Tags'
  <2>1. \A c \in Cells : owner'[c] \in {"FREED", "INTERPRETER", "CONTEXT_VARIABLE"}
    BY <1>3 DEF OwnershipInv, Tags, Values
  <2>2. owner'[Empty] = "EMPTY_VALUE" /\ \A v \in Literals : owner'[v] = "FREED"
    BY <1>1, <1>3 DEF OwnershipInv, Tags, Values
  <2>3. QED
    BY <1>1, <2>1, <2>2 DEF Tags
<1>5. IdleFramesEmpty' /\ OperandsOwned' /\ VariablesOwned' /\ VariablesUnshared'
  BY <1>1, <1>2 DEF IdleFramesEmpty, OperandsOwned, VariablesOwned, VariablesUnshared
<1>6. ResultsOwned' /\ ArgsOwned' /\ HoldersDisjoint'
  BY <1>1, <1>2 DEF ResultsOwned, ArgsOwned, HoldersDisjoint
<1>7. QED
  BY <1>4, <1>5, <1>6 DEF OwnershipInv

-----------------------------------------------------------------------------
(* The theorems *)

LEMMA NextOwnership ==
  ASSUME OwnershipInv, UnheldNeverResult, [Next]_vars
  PROVE  OwnershipInv'
<1>1. TypeOK'
  BY NextTypeOK DEF OwnershipInv
<1>2. CASE PushOperand
  BY <1>1, <1>2, PushOperandInv
<1>3. CASE Operator \/ Cast \/ FString
  BY <1>1, <1>3, ComputeInv, OwnershipAssumption DEF Operator, Cast, FString
<1>4. CASE DivisionByZero \/ NegativeRepeat
  BY <1>1, <1>4, FailInv DEF DivisionByZero, NegativeRepeat
<1>5. CASE CallBuiltin
  BY <1>1, <1>5, CallBuiltinInv
<1>6. CASE Assign
  BY <1>1, <1>6, AssignInv
<1>7. CASE EndOfLine
  BY <1>1, <1>7, EndOfLineInv
<1>8. CASE UndefinedOperand
  BY <1>1, <1>8, UndefinedOperandInv
<1>9. CASE DefineFunction
  BY <1>1, <1>9, DefineFunctionInv
<1>10. CASE \E k \in 0..MaxStack : UserCall(k)
  BY <1>1, <1>10, UserCallInv, OwnershipAssumption
<1>11. CASE Return \/ EndOfBody \/ ReturnError \/ Unwind
  BY <1>1, <1>11, LeavingInv
<1>12. CASE Catch
  BY <1>1, <1>12, CatchInv
<1>13. CASE EndOfFile \/ Abort \/ DestroyInterpreter
  BY <1>1, <1>13, EndOfFileInv, AbortInv, DestroyInterpreterInv
<1>14. CASE UNCHANGED vars
  BY <1>1, <1>14 DEF vars, OwnershipInv, IdleFramesEmpty, Tags, OperandsOwned,
     VariablesOwned, VariablesUnshared, ResultsOwned, ArgsOwned, HoldersDisjoint, Visible
<1>15. QED
  BY <1>2, <1>3, <1>4, <1>5, <1>6, <1>7, <1>8, <1>9, <1>10, <1>11, <1>12, <1>13,
     <1>14 DEF Next

\* The ownership discipline holds throughout every program whose lines never
\* end on a name that a try block or a fun block writes.
THEOREM OwnershipHolds ==
  ASSUME UnheldNeverResult
  PROVE  Spec => []OwnershipInv
<1>1. Init => OwnershipInv
  BY InitOwnership
<1>2. OwnershipInv /\ [Next]_vars => OwnershipInv'
  BY NextOwnership
<1>3. QED
  BY <1>1, <1>2, PTL DEF Spec

LEMMA InvOperandsLive == OwnershipInv => OperandsLive
<1> SUFFICES ASSUME OwnershipInv, TextAlive,
                    NEW d \in Frames,
                    NEW v \in StackRange(d) \cup SymbolRange(d) \cup args[d],
                    v \in Values
             PROVE  owner[v] # "FREED"
  BY DEF OperandsLive
<1>1. CASE v \notin Cells
  BY <1>1, TagFacts DEF OwnershipInv, Tags
<1>2. CASE v \in Cells
  <2>1. CASE v \in StackRange(d)
    BY <1>2, <2>1 DEF StackRange, OwnershipInv, OperandsOwned
  <2>2. CASE v \in SymbolRange(d)
    BY <1>2, <2>2 DEF SymbolRange, OwnershipInv, VariablesOwned
  <2>3. CASE v \in args[d]
    <3>1. owner[v] = "INTERPRETER" \/ Visible(d, v, Names)
      BY <1>2, <2>3 DEF OwnershipInv, ArgsOwned
    <3>2. Visible(d, v, Names) => owner[v] = "CONTEXT_VARIABLE"
      BY <1>2, FrameFacts DEF Visible, OwnershipInv, VariablesOwned
    <3>3. QED
      BY <3>1, <3>2
  <2>4. QED
    BY <2>1, <2>2, <2>3
<1>3. QED
  BY <1>1, <1>2

\* Nothing a frame will still read (an operand, a variable, an argument of a
\* pending call) is freed memory.
THEOREM OperandsStayLive ==
  ASSUME UnheldNeverResult
  PROVE  Spec => []OperandsLive
  BY OwnershipHolds, InvOperandsLive, PTL

LEMMA InvTemporariesUnshared == OwnershipInv => TemporariesUnshared
<1> SUFFICES ASSUME OwnershipInv PROVE TemporariesUnshared
  OBVIOUS
<1>1. ASSUME NEW S, NEW v \in Temporaries(S)
      PROVE  v \in S /\ v \in Cells /\ owner[v] = "INTERPRETER"
  BY <1>1, TagFacts DEF Temporaries, OwnedBy
<1>2. \A d \in Frames : Temporaries(SymbolRange(d)) = {}
  BY <1>1 DEF SymbolRange, OwnershipInv, VariablesOwned
<1>3. ASSUME NEW d \in Frames, NEW e \in Frames,
             NEW i \in 1..Len(stack[d]), NEW j \in 1..Len(stack[e]),
             stack[d][i] = stack[e][j], Temporaries({stack[d][i]}) # {}
      PROVE  d = e /\ i = j
  <2>1. stack[d][i] \in Cells
    BY <1>1, <1>3
  <2>2. QED
    BY <1>3, <2>1 DEF OwnershipInv, HoldersDisjoint
<1>4. ASSUME NEW d \in Frames, NEW e \in Frames
      PROVE  /\ Temporaries(StackRange(d) \cap args[e]) = {}
             /\ Temporaries(StackRange(d) \cap {lastValue[e]}) = {}
             /\ Temporaries(args[d] \cap {lastValue[e]}) = {}
             /\ d # e => /\ Temporaries(args[d] \cap args[e]) = {}
                         /\ Temporaries({lastValue[d]} \cap {lastValue[e]}) = {}
  <2>1. Temporaries(StackRange(d) \cap args[e]) = {}
    BY <1>1 DEF StackRange, OwnershipInv, HoldersDisjoint
  <2>2. Temporaries(StackRange(d) \cap {lastValue[e]}) = {}
    BY <1>1 DEF StackRange, OwnershipInv, HoldersDisjoint
  <2>3. Temporaries(args[d] \cap {lastValue[e]}) = {}
    BY <1>1 DEF OwnershipInv, HoldersDisjoint
  <2>4. d # e => Temporaries(args[d] \cap args[e]) = {}
    BY <1>1 DEF OwnershipInv, HoldersDisjoint
  <2>5. d # e => Temporaries({lastValue[d]} \cap {lastValue[e]}) = {}
    BY <1>1 DEF OwnershipInv, HoldersDisjoint
  <2>6. QED
    BY <2>1, <2>2, <2>3, <2>4, <2>5
<1>5. QED
  BY <1>2, <1>3, <1>4 DEF TemporariesUnshared

\* A value the interpreter deletes has one holder, so deleteValue never frees
\* twice or frees under a variable.
THEOREM TemporariesStayUnshared ==
  ASSUME UnheldNeverResult
  PROVE  Spec => []TemporariesUnshared
  BY OwnershipHolds, InvTemporariesUnshared, PTL

\* No two variables share a value that a context would delete.
THEOREM VariablesStayUnshared ==
  ASSUME UnheldNeverResult
  PROVE  Spec => []VariablesUnshared
<1>1. OwnershipInv => VariablesUnshared
  BY DEF OwnershipInv
<1>2. QED
  BY <1>1, OwnershipHolds, PTL

LEMMA InvLastValueLive ==
  ASSUME OwnershipInv, UnheldNeverResult
  PROVE  LastValueLive
<1> SUFFICES ASSUME TextAlive, NEW d \in Frames, lastValue[d] \in Values
             PROVE  owner[lastValue[d]] # "FREED"
  BY DEF LastValueLive
<1>1. CASE lastValue[d] \notin Cells
  BY <1>1, TagFacts
<1>2. CASE lastValue[d] \in Cells
  <2>1. \/ owner[lastValue[d]] = "INTERPRETER"
        \/ Visible(d, lastValue[d], ResultNames)
    BY <1>2 DEF OwnershipInv, ResultsOwned
  <2>2. Visible(d, lastValue[d], ResultNames) => owner[lastValue[d]] = "CONTEXT_VARIABLE"
    BY <1>2, FrameFacts, OwnershipAssumption DEF Visible, OwnershipInv, VariablesOwned
  <2>3. QED
    BY <2>1, <2>2
<1>3. QED
  BY <1>1, <1>2

\* The result an interpreter remembers is never freed memory while the
\* program runs.
THEOREM LastValueStaysLive ==
  ASSUME UnheldNeverResult
  PROVE  Spec => []LastValueLive
<1>1. OwnershipInv => LastValueLive
  BY InvLastValueLive
<1>2. QED
  BY <1>1, OwnershipHolds, PTL

-----------------------------------------------------------------------------
(* Nothing is forgotten *)

\* A context's cell is a variable of a frame alive.
Kept(c) == \E d \in 1..depth : \E n \in Names : symbols[d][n] = c

\* The frame d holds c: as an operand, as its last result or for a callee.
Holds(d, c) ==
  \/ \E i \in 1..Len(stack[d]) : stack[d][i] = c
  \/ lastValue[d] = c
  \/ c \in args[d]

VariablesKept == \A c \in Cells : owner[c] = "CONTEXT_VARIABLE" => Kept(c)

TemporariesKept ==
  ~errorSeen => \A c \in Cells : owner[c] = "INTERPRETER" => \E d \in 1..depth : Holds(d, c)

AllKept == VariablesKept /\ TemporariesKept

LEMMA AllKeptMeans == AllKept => NothingLeaks
BY DEF AllKept, VariablesKept, TemporariesKept, Kept, Holds, NothingLeaks, OwnedBy, Values,
   StackRange, SymbolRange

LEMMA InitKept == Init => AllKept
<1> SUFFICES ASSUME Init PROVE AllKept
  OBVIOUS
<1>1. \A c \in Cells : owner[c] = "FREED"
  BY OwnershipAssumption DEF Init, Values
<1> QED
  BY <1>1 DEF AllKept, VariablesKept, TemporariesKept

LEMMA AliveFrames ==
  ASSUME TypeOK
  PROVE  /\ depth \in Frames /\ depth \in Nat /\ depth >= 1 /\ depth \in 1..depth
         /\ \A d \in 1..depth : d \in Frames
<1>1. depth \in 1..MaxDepth /\ MaxDepth \in Nat
  BY OwnershipAssumption DEF TypeOK, Frames
<1> QED
  BY <1>1 DEF Frames

\* A step that makes no cell a context's and keeps the variables.
LEMMA VariablesStay ==
  ASSUME AllKept, UNCHANGED <<depth, symbols>>,
         \A c \in Cells : owner'[c] = "CONTEXT_VARIABLE" => owner[c] = "CONTEXT_VARIABLE"
  PROVE  VariablesKept'
BY DEF AllKept, VariablesKept, Kept

\* Popping operands, deleting the temporaries among them, pushing r.
LEMMA ResultKept ==
  ASSUME OwnershipInv, AllKept, NEW k \in Nat, CanPop(k), NEW r \in Values,
         \A c \in Cells : owner'[c] = IF c = r THEN "INTERPRETER"
                                      ELSE IF c \in Temporaries(Popped(k)) THEN "FREED"
                                      ELSE owner[c],
         stack' = [stack EXCEPT ![depth] = Append(Below(k), r)],
         UNCHANGED <<depth, symbols, lastValue, args, errorSeen>>
  PROVE  AllKept'
<1>1. /\ TypeOK /\ depth \in Frames /\ depth \in Nat /\ depth >= 1
      /\ \A d \in 1..depth : d \in Frames
      /\ Height \in Nat /\ Height = Len(stack[depth])
  BY FrameFacts, AliveFrames DEF OwnershipInv, Height
<1>2. PICK below \in Seq(Operands) : below = Below(k)
  BY <1>1, BelowFacts
<1>3. /\ Len(below) = Height - k /\ Height - k \in Nat
      /\ \A i \in 1..(Height - k) : below[i] = stack[depth][i]
  BY <1>1, <1>2, BelowFacts
<1>4. stack' = [stack EXCEPT ![depth] = Append(below, r)]
  BY <1>2
<1>5. r \in Operands
  BY DEF Operands
<1>6. /\ stack'[depth] = Append(below, r)
      /\ Len(stack'[depth]) = (Height - k) + 1 /\ stack'[depth][(Height - k) + 1] = r
      /\ \A i \in 1..(Height - k) : stack'[depth][i] = stack[depth][i]
      /\ \A d \in Frames : d # depth => stack'[d] = stack[d]
  <2>1. stack \in [Frames -> Seq(Operands)]
    BY <1>1 DEF TypeOK
  <2>2. /\ stack'[depth] = Append(below, r)
        /\ \A d \in Frames : d # depth => stack'[d] = stack[d]
    BY <1>1, <1>4, <2>1
  <2>3. /\ Len(Append(below, r)) = (Height - k) + 1 /\ Append(below, r)[(Height - k) + 1] = r
        /\ \A i \in 1..(Height - k) : Append(below, r)[i] = below[i]
    BY <1>3, <1>5, PushSeq
  <2> QED
    BY <1>3, <2>2, <2>3
<1>7. VariablesKept'
  BY VariablesStay
<1>8. ASSUME NEW c \in Cells, ~errorSeen, owner'[c] = "INTERPRETER", c # r
      PROVE  \E d \in 1..depth : Holds(d, c)'
  <2>1. owner[c] = "INTERPRETER" /\ c \notin Popped(k) /\ c \in Values
    BY <1>8 DEF Temporaries, OwnedBy, Values
  <2>2. PICK d \in 1..depth : Holds(d, c)
    BY <1>8, <2>1 DEF AllKept, TemporariesKept
  <2>3. CASE \E i \in 1..Len(stack[d]) : stack[d][i] = c
    <3>1. PICK i \in 1..Len(stack[d]) : stack[d][i] = c
      BY <2>3
    <3>2. c \notin Names
      BY <2>1, OwnershipAssumption
    <3>3. d = depth => i \in 1..(Height - k)
      <4>1. ASSUME d = depth, ~(i \in 1..(Height - k))
            PROVE  FALSE
        <5>1. i \in (Height - k + 1)..Height
          BY <1>1, <1>3, <3>1, <4>1
        <5>2. Resolve(depth, stack[depth][i]) = c
          BY <3>1, <3>2, <4>1 DEF Resolve
        <5> QED
          BY <2>1, <5>1, <5>2 DEF Popped
      <4> QED
        BY <4>1
    <3>4. i \in 1..Len(stack'[d]) /\ stack'[d][i] = c
      BY <1>1, <1>3, <1>6, <3>1, <3>3
    <3> QED
      BY <3>4 DEF Holds
  <2>4. CASE lastValue[d] = c \/ c \in args[d]
    BY <2>4 DEF Holds
  <2> QED
    BY <2>2, <2>3, <2>4 DEF Holds
<1>9. Holds(depth, r)' /\ depth \in 1..depth
  <2>1. (Height - k) + 1 \in 1..Len(stack'[depth])
    BY <1>3, <1>6
  <2> QED
    BY <1>1, <1>6, <2>1 DEF Holds
<1> QED
  BY <1>7, <1>8, <1>9 DEF AllKept, TemporariesKept

LEMMA PopKept ==
  ASSUME OwnershipInv, AllKept, \/ PushOperand \/ (\E k \in Nat : Compute(k))
                                \/ (\E k \in Nat : Fail(k)) \/ CallBuiltin \/ UndefinedOperand
  PROVE  AllKept'
<1>1. ASSUME NEW k \in Nat, Compute(k)
      PROVE  AllKept'
  <2>1. PICK r \in Fresh :
          /\ owner' = [Free(Temporaries(Popped(k))) EXCEPT ![r] = "INTERPRETER"]
          /\ stack' = [stack EXCEPT ![depth] = Append(Below(k), r)]
    BY <1>1 DEF Compute
  <2>2. CanPop(k) /\ UNCHANGED <<depth, symbols, lineBase, lastValue, args, status, errorSeen>>
    BY <1>1 DEF Compute
  <2>3. r \in Values
    BY FreshUnheld
  <2>4. \A c \in Cells : owner'[c] = IF c = r THEN "INTERPRETER"
                                     ELSE IF c \in Temporaries(Popped(k)) THEN "FREED"
                                     ELSE owner[c]
    BY <2>1, <2>3 DEF Free, Values
  <2> QED
    BY <2>1, <2>2, <2>3, <2>4, ResultKept
<1>2. ASSUME NEW k \in Nat, Fail(k)
      PROVE  AllKept'
  BY <1>2, VariablesStay DEF Fail, AllKept, TemporariesKept
<1>3. ASSUME NEW k \in Nat, CanPop(k), owner' = Free(Temporaries(Popped(k))),
             stack' = [stack EXCEPT ![depth] = Append(Below(k), Empty)],
             UNCHANGED <<depth, symbols, lineBase, lastValue, args, status, errorSeen>>
      PROVE  AllKept'
  <2>1. Empty \in Values /\ Empty \notin Cells
    BY OwnershipAssumption DEF Values
  <2>2. \A c \in Cells : owner'[c] = IF c = Empty THEN "INTERPRETER"
                                     ELSE IF c \in Temporaries(Popped(k)) THEN "FREED"
                                     ELSE owner[c]
    BY <1>3, <2>1 DEF Free, Values
  <2> QED
    BY <1>3, <2>1, <2>2, ResultKept
<1>4. CASE CallBuiltin
  <2>1. PICK k \in 0..MaxStack :
          \/ Compute(k) \/ Fail(k)
          \/ /\ CanPop(k) /\ owner' = Free(Temporaries(Popped(k)))
             /\ stack' = [stack EXCEPT ![depth] = Append(Below(k), Empty)]
             /\ UNCHANGED <<depth, symbols, lineBase, lastValue, args, status, errorSeen>>
    BY <1>4 DEF CallBuiltin
  <2>2. k \in Nat
    BY OwnershipAssumption
  <2> QED
    BY <1>1, <1>2, <1>3, <2>1, <2>2
<1>5. CASE UndefinedOperand
  BY <1>5 DEF UndefinedOperand, AllKept, VariablesKept, TemporariesKept, Kept, Holds
<1>6. CASE PushOperand
  <2>1. PICK e \in Names \cup Literals : stack' = [stack EXCEPT ![depth] = Append(stack[depth], e)]
    BY <1>6 DEF PushOperand
  <2>2. UNCHANGED <<owner, depth, symbols, lineBase, lastValue, args, status, errorSeen>>
    BY <1>6 DEF PushOperand
  <2>3. /\ depth \in Frames /\ stack[depth] \in Seq(Operands)
        /\ e \in Operands /\ stack \in [Frames -> Seq(Operands)]
    BY <2>1 DEF OwnershipInv, TypeOK, Operands, Values
  <2>4. ASSUME NEW d \in Frames, NEW i \in 1..Len(stack[d])
        PROVE  i \in 1..Len(stack'[d]) /\ stack'[d][i] = stack[d][i]
    <3>1. CASE d = depth
      <4>1. stack'[d] = Append(stack[depth], e)
        BY <2>1, <2>3, <3>1
      <4> QED
        BY <2>3, <3>1, <4>1, PushSeq
    <3>2. CASE d # depth
      BY <2>1, <2>3, <3>2
    <3> QED
      BY <3>1, <3>2
  <2>5. \A d \in 1..depth : d \in Frames
    BY AliveFrames DEF OwnershipInv
  <2>6. \A d \in 1..depth : \A c : Holds(d, c) => Holds(d, c)'
    BY <2>2, <2>4, <2>5 DEF Holds
  <2> QED
    BY <2>2, <2>6, VariablesStay DEF AllKept, TemporariesKept
<1> QED
  BY <1>1, <1>2, <1>4, <1>5, <1>6
\* Setting a variable to a cell that was no context's.
LEMMA SetKept ==
  ASSUME OwnershipInv, AllKept, NEW n \in Names, NEW v \in Values, NEW from,
         v \in Cells => /\ owner[v] # "CONTEXT_VARIABLE"
                        /\ from \in {"INTERPRETER", "CONTEXT_VARIABLE"},
         SetValue(n, v, from), depth' = depth
  PROVE  /\ VariablesKept'
         /\ \A c \in Cells : owner'[c] = "INTERPRETER" => c # v /\ owner[c] = "INTERPRETER"
<1> DEFINE old == symbols[depth][n]
<1>1. TypeOK /\ depth \in Frames /\ depth \in 1..depth /\ \A d \in 1..depth : d \in Frames
  BY AliveFrames DEF OwnershipInv
<1>2. /\ symbols'[depth][n] = v
      /\ \A d \in Frames, m \in Names : ~(d = depth /\ m = n) => symbols'[d][m] = symbols[d][m]
  BY <1>1 DEF SetValue, TypeOK
<1>3. \A c \in Cells : owner'[c] = IF c = old /\ owner[c] = "CONTEXT_VARIABLE" THEN "FREED"
                                   ELSE IF c = v THEN RaiseOwner(from, "CONTEXT_VARIABLE")
                                   ELSE owner[c]
  BY DEF SetValue, Values
<1>4. v \in Cells => owner'[v] = "CONTEXT_VARIABLE"
  BY <1>3 DEF RaiseOwner, OwnerRank
<1>5. ASSUME NEW c \in Cells, owner'[c] = "CONTEXT_VARIABLE"
      PROVE  Kept(c)'
  <2>1. CASE c = v
    BY <1>1, <1>2, <2>1 DEF Kept
  <2>2. CASE c # v
    <3>1. c # old /\ owner[c] = "CONTEXT_VARIABLE"
      BY <1>3, <1>5, <2>2
    <3>2. PICK d \in 1..depth, m \in Names : symbols[d][m] = c
      BY <3>1 DEF AllKept, VariablesKept, Kept
    <3>3. symbols'[d][m] = c
      BY <1>1, <1>2, <3>1, <3>2
    <3> QED
      BY <3>3 DEF Kept
  <2> QED
    BY <2>1, <2>2
<1> QED
  BY <1>3, <1>4, <1>5 DEF VariablesKept

LEMMA AssignKept ==
  ASSUME OwnershipInv, AllKept, Assign
  PROVE  AllKept'
<1> DEFINE target == stack[depth][Height - 1]
           left == Resolve(depth, Top)
           copy == MustCopy(Top)
<1>1. /\ Running /\ LineOperands >= 2 /\ target \in Names /\ left # Nil
      /\ stack' = [stack EXCEPT ![depth] = Below(1)]
      /\ lastValue' = [lastValue EXCEPT ![depth] = ResultWithout(symbols[depth][target])]
      /\ UNCHANGED <<depth, lineBase, args, status, errorSeen>>
  BY DEF Assign
<1>2. PICK v \in (IF copy THEN Fresh ELSE {left}) :
        SetValue(target, v, IF copy THEN "INTERPRETER" ELSE owner[v])
  BY DEF Assign
<1>3. /\ TypeOK /\ 1 \in Frames /\ depth \in Frames /\ \A d \in 1..depth : d \in Frames
      /\ Height \in Nat /\ Height = Len(stack[depth]) /\ Height >= 2
      /\ stack \in [Frames -> Seq(Operands)] /\ lastValue \in [Frames -> Values \cup {Nil}]
  <2>1. TypeOK /\ Height \in Nat /\ Height = Len(stack[depth])
    BY FrameFacts DEF OwnershipInv, Height
  <2>2. lineBase[depth] \in Nat
    BY <2>1 DEF TypeOK
  <2> QED
    BY <1>1, <2>1, <2>2, AliveFrames, FrameFacts DEF LineOperands, TypeOK
<1>4. Top \in Operands /\ Top = stack[depth][Height] /\ Height \in 1..Len(stack[depth])
  BY <1>3 DEF Top
<1>5. /\ v \in Values
      /\ v \in Cells => /\ owner[v] # "CONTEXT_VARIABLE"
                        /\ (IF copy THEN "INTERPRETER" ELSE owner[v]) = "INTERPRETER"
  <2>1. CASE copy
    BY <1>2, <2>1, FreshUnheld
  <2>2. CASE ~copy
    <3>1. v = Top /\ v \in Values
      BY <1>2, <1>4, <2>2 DEF MustCopy, Resolve, Operands
    <3>2. v \in Cells => owner[v] = "INTERPRETER"
      BY <1>3, <1>4, <3>1 DEF OwnershipInv, OperandsOwned
    <3> QED
      BY <2>2, <3>1, <3>2
  <2> QED
    BY <2>1, <2>2
<1>6. /\ VariablesKept'
      /\ \A c \in Cells : owner'[c] = "INTERPRETER" => c # v /\ owner[c] = "INTERPRETER"
  BY <1>1, <1>2, <1>5, SetKept
<1>7. /\ stack'[depth] = Below(1) /\ \A d \in Frames : d # depth => stack'[d] = stack[d]
      /\ lastValue'[depth] = ResultWithout(symbols[depth][target])
      /\ \A d \in Frames : d # depth => lastValue'[d] = lastValue[d]
  BY <1>1, <1>3
<1>8. /\ Len(Below(1)) = Height - 1
      /\ \A i \in 1..(Height - 1) : Below(1)[i] = stack[depth][i]
  BY <1>3, PopSeq DEF Below
<1>9. ASSUME NEW c \in Cells, ~errorSeen, owner'[c] = "INTERPRETER"
      PROVE  \E d \in 1..depth : Holds(d, c)'
  <2>1. c # v /\ owner[c] = "INTERPRETER"
    BY <1>6, <1>9
  <2>2. PICK d \in 1..depth : Holds(d, c)
    BY <1>9, <2>1 DEF AllKept, TemporariesKept
  <2>3. CASE \E i \in 1..Len(stack[d]) : stack[d][i] = c
    <3>1. PICK i \in 1..Len(stack[d]) : stack[d][i] = c
      BY <2>3
    <3>2. ~(d = depth /\ i = Height)
      <4>1. ASSUME d = depth, i = Height
            PROVE  FALSE
        <5>1. Top = c /\ c \notin Names
          BY <1>4, <3>1, <4>1, OwnershipAssumption DEF Values
        <5>2. ~copy /\ left = c
          BY <5>1 DEF MustCopy, Resolve
        <5> QED
          BY <1>2, <2>1, <5>2
      <4> QED
        BY <4>1
    <3>3. i \in 1..Len(stack'[d]) /\ stack'[d][i] = c
      <4>1. CASE d = depth
        <5>1. i \in 1..(Height - 1)
          BY <1>3, <3>1, <3>2, <4>1
        <5> QED
          BY <1>7, <1>8, <3>1, <4>1, <5>1
      <4>2. CASE d # depth
        BY <1>3, <1>7, <3>1, <4>2
      <4> QED
        BY <4>1, <4>2
    <3> QED
      BY <3>3 DEF Holds
  <2>4. CASE lastValue[d] = c
    <3>1. d = depth => lastValue'[d] = c
      BY <1>7, <2>1, <2>4 DEF ResultWithout, OwnedBy
    <3>2. lastValue'[d] = c
      BY <1>3, <1>7, <2>4, <3>1
    <3> QED
      BY <3>2 DEF Holds
  <2>5. CASE c \in args[d]
    BY <1>1, <2>5 DEF Holds
  <2> QED
    BY <2>2, <2>3, <2>4, <2>5 DEF Holds
<1> QED
  BY <1>1, <1>6, <1>9 DEF AllKept, TemporariesKept

\* A fun block and a catch set a variable beside the line.
LEMMA BindKept ==
  ASSUME OwnershipInv, AllKept, NEW n \in Names, NEW r \in Fresh,
         SetValue(n, r, "CONTEXT_VARIABLE"), UNCHANGED <<depth, stack, lastValue, args, errorSeen>>
  PROVE  AllKept'
<1>1. r \in Values /\ r \in Cells /\ owner[r] = "FREED"
  BY FreshUnheld
<1>2. /\ VariablesKept'
      /\ \A c \in Cells : owner'[c] = "INTERPRETER" => c # r /\ owner[c] = "INTERPRETER"
  BY <1>1, SetKept
<1> QED
  BY <1>2 DEF AllKept, TemporariesKept, Holds

LEMMA EndOfLineKept ==
  ASSUME OwnershipInv, AllKept, EndOfLine
  PROVE  AllKept'
<1>1. /\ owner' = Free(Temporaries({lastValue[depth]}))
      /\ NothingLeft \/ OperandLeft
      /\ UNCHANGED <<depth, symbols, args, status, errorSeen>>
  BY DEF EndOfLine
<1>2. /\ TypeOK /\ depth \in Frames /\ \A d \in 1..depth : d \in Frames
      /\ Height \in Nat /\ Height = Len(stack[depth]) /\ depth \in 1..depth
      /\ stack \in [Frames -> Seq(Operands)] /\ lastValue \in [Frames -> Values \cup {Nil}]
  BY FrameFacts, AliveFrames DEF OwnershipInv, Height, TypeOK
<1>3. \A c \in Cells : owner'[c] = IF owner[c] = "INTERPRETER" /\ c = lastValue[depth]
                                   THEN "FREED" ELSE owner[c]
  <2>1. \A c \in Cells : c \in Values
    BY DEF Values
  <2>2. owner' = [c \in Values |->
                   IF c \in Temporaries({lastValue[depth]}) THEN "FREED" ELSE owner[c]]
    BY <1>1 DEF Free
  <2> QED
    BY <2>1, <2>2 DEF Temporaries, OwnedBy
<1>4. VariablesKept'
  BY <1>1, <1>3, VariablesStay
<1>5. \A d \in Frames : d # depth => lastValue'[d] = lastValue[d] /\ stack'[d] = stack[d]
  BY <1>1, <1>2 DEF NothingLeft, OperandLeft
<1>6. ASSUME NEW c \in Cells, ~errorSeen, owner'[c] = "INTERPRETER"
      PROVE  \E d \in 1..depth : Holds(d, c)'
  <2>1. owner[c] = "INTERPRETER" /\ c # lastValue[depth]
    BY <1>3, <1>6
  <2>2. PICK d \in 1..depth : Holds(d, c)
    BY <1>6, <2>1 DEF AllKept, TemporariesKept
  <2>3. CASE d # depth \/ c \in args[d]
    BY <1>1, <1>2, <1>5, <2>2, <2>3 DEF Holds
  <2>4. CASE d = depth /\ c \notin args[d]
    <3>1. PICK i \in 1..Height : stack[depth][i] = c
      BY <1>2, <2>1, <2>2, <2>4 DEF Holds
    <3>2. CASE NothingLeft
      BY <1>2, <3>1, <3>2 DEF NothingLeft
    <3>3. CASE OperandLeft
      <4>1. /\ stack'[depth] = Below(1) /\ lastValue'[depth] = Resolve(depth, Top)
            /\ Height > 0
        BY <1>2, <3>3 DEF OperandLeft
      <4>2. /\ Len(Below(1)) = Height - 1
            /\ \A j \in 1..(Height - 1) : Below(1)[j] = stack[depth][j]
        BY <1>2, <4>1, PopSeq DEF Below
      <4>3. CASE i = Height
        <5>1. Top = c /\ c \notin Names
          BY <3>1, <4>3, OwnershipAssumption DEF Top, Values
        <5>2. lastValue'[depth] = c
          BY <4>1, <5>1 DEF Resolve
        <5> QED
          BY <1>2, <5>2 DEF Holds
      <4>4. CASE i # Height
        <5>1. i \in 1..(Height - 1)
          BY <1>2, <3>1, <4>4
        <5>2. i \in 1..Len(stack'[depth]) /\ stack'[depth][i] = c
          BY <3>1, <4>1, <4>2, <5>1
        <5> QED
          BY <1>2, <5>2 DEF Holds
      <4> QED
        BY <4>3, <4>4
    <3> QED
      BY <1>1, <3>2, <3>3
  <2> QED
    BY <2>3, <2>4
<1> QED
  BY <1>1, <1>4, <1>6 DEF AllKept, TemporariesKept
LEMMA UserCallKept ==
  ASSUME OwnershipInv, AllKept, NEW k \in Nat, UserCall(k)
  PROVE  AllKept'
<1>1. /\ TypeOK /\ depth \in Frames /\ depth \in Nat /\ depth >= 1 /\ depth \in 1..depth
      /\ \A d \in 1..depth : d \in Frames
      /\ Height \in Nat /\ Height = Len(stack[depth])
      /\ stack \in [Frames -> Seq(Operands)] /\ args \in [Frames -> SUBSET Values]
      /\ symbols \in [Frames -> [Names -> Values \cup {Nil}]]
  BY FrameFacts, AliveFrames DEF OwnershipInv, Height, TypeOK
<1>2. /\ CanPop(k) /\ depth' = depth + 1
      /\ stack' = [stack EXCEPT ![depth] = Below(k)]
      /\ args' = [args EXCEPT ![depth] = Popped(k)]
      /\ UNCHANGED <<lastValue, errorSeen>>
  BY DEF UserCall
<1>3. PICK P \in SUBSET Names : \E copies \in [P -> Fresh] :
        /\ symbols' = [symbols EXCEPT ![depth + 1] =
                         [n \in Names |-> IF n \in P THEN copies[n] ELSE Nil]]
        /\ owner' = [v \in Values |-> IF \E n \in P : copies[n] = v
                                      THEN "CONTEXT_VARIABLE" ELSE owner[v]]
  BY DEF UserCall
<1>4. PICK copies \in [P -> Fresh] :
        /\ symbols' = [symbols EXCEPT ![depth + 1] =
                         [n \in Names |-> IF n \in P THEN copies[n] ELSE Nil]]
        /\ owner' = [v \in Values |-> IF \E n \in P : copies[n] = v
                                      THEN "CONTEXT_VARIABLE" ELSE owner[v]]
  BY <1>3
<1>5. depth + 1 \in Frames
  BY <1>1, OwnershipAssumption DEF UserCall, Frames
<1>6. /\ \A d \in 1..depth : symbols'[d] = symbols[d]
      /\ \A n \in P : symbols'[depth + 1][n] = copies[n]
  <2>1. \A d \in 1..depth : d # depth + 1
    BY <1>1
  <2> QED
    BY <1>1, <1>4, <1>5, <2>1
<1>7. \A c \in Cells : owner'[c] = IF \E n \in P : copies[n] = c THEN "CONTEXT_VARIABLE"
                                   ELSE owner[c]
  BY <1>4 DEF Values
<1>8. ASSUME NEW c \in Cells, owner'[c] = "CONTEXT_VARIABLE"
      PROVE  Kept(c)'
  <2>1. CASE \E n \in P : copies[n] = c
    <3>1. PICK n \in P : copies[n] = c
      BY <2>1
    <3>2. symbols'[depth + 1][n] = c /\ depth + 1 \in 1..depth' /\ n \in Names
      BY <1>1, <1>2, <1>6, <3>1
    <3> QED
      BY <3>2 DEF Kept
  <2>2. CASE owner[c] = "CONTEXT_VARIABLE"
    <3>1. PICK d \in 1..depth, n \in Names : symbols[d][n] = c
      BY <2>2 DEF AllKept, VariablesKept, Kept
    <3>2. d \in 1..depth' /\ symbols'[d][n] = c
      BY <1>1, <1>2, <1>6, <3>1
    <3> QED
      BY <3>2 DEF Kept
  <2> QED
    BY <1>7, <1>8, <2>1, <2>2
<1>9. /\ stack'[depth] = Below(k) /\ args'[depth] = Popped(k)
      /\ \A d \in Frames : d # depth => stack'[d] = stack[d] /\ args'[d] = args[d]
  BY <1>1, <1>2
<1>10. /\ Len(Below(k)) = Height - k /\ Height - k \in Nat
       /\ \A i \in 1..(Height - k) : Below(k)[i] = stack[depth][i]
  BY <1>1, <1>2, BelowFacts
<1>11. ASSUME NEW c \in Cells, ~errorSeen, owner'[c] = "INTERPRETER"
       PROVE  \E d \in 1..depth' : Holds(d, c)'
  <2>1. owner[c] = "INTERPRETER"
    BY <1>7, <1>11
  <2>2. PICK d \in 1..depth : Holds(d, c)
    BY <1>11, <2>1 DEF AllKept, TemporariesKept
  <2>3. d \in 1..depth' /\ d \in Frames
    BY <1>1, <1>2
  <2>4. CASE \E i \in 1..Len(stack[d]) : stack[d][i] = c
    <3>1. PICK i \in 1..Len(stack[d]) : stack[d][i] = c
      BY <2>4
    <3>2. CASE d = depth /\ i \in 1..(Height - k)
      BY <1>9, <1>10, <2>3, <3>1, <3>2 DEF Holds
    <3>3. CASE d = depth /\ ~(i \in 1..(Height - k))
      <4>1. i \in (Height - k + 1)..Height
        BY <1>1, <1>10, <3>1, <3>3
      <4>2. Resolve(depth, stack[depth][i]) = c
        BY <3>1, <3>3, OwnershipAssumption DEF Resolve, Values
      <4>3. c \in args'[d]
        BY <1>9, <3>3, <4>1, <4>2 DEF Popped
      <4> QED
        BY <2>3, <4>3 DEF Holds
    <3>4. CASE d # depth
      BY <1>9, <2>3, <3>1, <3>4 DEF Holds
    <3> QED
      BY <3>2, <3>3, <3>4
  <2>5. CASE lastValue[d] = c
    BY <1>2, <2>3, <2>5 DEF Holds
  <2>6. CASE c \in args[d]
    <3>1. args[depth] = {}
      BY <1>1 DEF OwnershipInv, IdleFramesEmpty
    <3>2. args'[d] = args[d]
      BY <1>9, <2>3, <2>6, <3>1
    <3> QED
      BY <2>3, <2>6, <3>2 DEF Holds
  <2> QED
    BY <2>2, <2>4, <2>5, <2>6 DEF Holds
<1> QED
  BY <1>2, <1>8, <1>11 DEF AllKept, VariablesKept, TemporariesKept

\* The top frame goes and what it owns with it; r is left to the caller.
LEMMA FrameGoneKept ==
  ASSUME OwnershipInv, AllKept, depth > 1, DropFrame(depth), NEW r, NEW F,
         \A c \in Cells : owner'[c] = IF c = r THEN "INTERPRETER"
                                      ELSE IF c \in F THEN "FREED" ELSE owner[c],
         FrameValues(depth) \subseteq F,
         ~errorSeen' => ~errorSeen /\ CallArguments \subseteq F,
         \A d \in 1..(depth - 1) : \A i \in 1..Len(stack[d]) :
           i \in 1..Len(stack'[d]) /\ stack'[d][i] = stack[d][i],
         r \in Cells => \E i \in 1..Len(stack'[depth - 1]) : stack'[depth - 1][i] = r
  PROVE  AllKept'
<1>1. /\ TypeOK /\ depth \in Frames /\ depth \in Nat /\ \A d \in 1..depth : d \in Frames
      /\ symbols \in [Frames -> [Names -> Values \cup {Nil}]]
      /\ lastValue \in [Frames -> Values \cup {Nil}] /\ args \in [Frames -> SUBSET Values]
  BY AliveFrames DEF OwnershipInv, TypeOK
<1>2. /\ depth' = depth - 1 /\ depth - 1 \in 1..(depth - 1)
      /\ \A d \in 1..(depth - 1) : d \in Frames /\ d # depth /\ d \in 1..depth
  BY <1>1 DEF DropFrame
<1>3. /\ \A d \in 1..(depth - 1) : symbols'[d] = symbols[d] /\ lastValue'[d] = lastValue[d]
      /\ \A d \in 1..(depth - 1) : d # depth - 1 => args'[d] = args[d]
  BY <1>1, <1>2 DEF DropFrame
<1>4. \A c \in Cells : c \in Values
  BY DEF Values
<1>5. ASSUME NEW c \in Cells, owner'[c] = "CONTEXT_VARIABLE"
      PROVE  Kept(c)'
  <2>1. owner[c] = "CONTEXT_VARIABLE" /\ c \notin F
    BY <1>5
  <2>2. PICK d \in 1..depth, n \in Names : symbols[d][n] = c
    BY <2>1 DEF AllKept, VariablesKept, Kept
  <2>3. d # depth
    BY <1>4, <2>1, <2>2 DEF FrameValues, OwnedBy, SymbolRange
  <2>4. d \in 1..(depth - 1)
    BY <1>1, <2>3
  <2> QED
    BY <1>2, <1>3, <2>2, <2>4 DEF Kept
<1>6. ASSUME NEW c \in Cells, ~errorSeen', owner'[c] = "INTERPRETER", c # r
      PROVE  \E d \in 1..(depth - 1) : Holds(d, c)'
  <2>1. owner[c] = "INTERPRETER" /\ c \notin F /\ ~errorSeen /\ CallArguments \subseteq F
    BY <1>6
  <2>2. PICK d \in 1..depth : Holds(d, c)
    BY <1>6, <2>1 DEF AllKept, TemporariesKept
  <2>3. d = depth => c \in FrameValues(depth)
    <3>1. args[depth] = {}
      BY <1>1 DEF OwnershipInv, IdleFramesEmpty
    <3> QED
      BY <1>4, <2>1, <2>2, <3>1 DEF Holds, FrameValues, Temporaries, OwnedBy, StackRange
  <2>4. d = depth - 1 => c \notin args[d]
    BY <1>4, <2>1 DEF CallArguments, Temporaries, OwnedBy
  <2>5. d \in 1..(depth - 1)
    BY <1>1, <2>1, <2>3
  <2>6. CASE \E i \in 1..Len(stack[d]) : stack[d][i] = c
    BY <2>5, <2>6 DEF Holds
  <2>7. CASE lastValue[d] = c
    BY <1>3, <2>5, <2>7 DEF Holds
  <2>8. CASE c \in args[d]
    BY <1>3, <2>4, <2>5, <2>8 DEF Holds
  <2> QED
    BY <2>2, <2>5, <2>6, <2>7, <2>8 DEF Holds
<1>7. r \in Cells => \E d \in 1..(depth - 1) : Holds(d, r)'
  BY <1>2 DEF Holds
<1> QED
  BY <1>2, <1>5, <1>6, <1>7 DEF AllKept, VariablesKept, TemporariesKept

LEMMA LeavingKept ==
  ASSUME OwnershipInv, AllKept, Return \/ EndOfBody \/ ReturnError \/ Unwind
  PROVE  AllKept'
<1>1. /\ TypeOK /\ depth \in Frames /\ depth \in Nat /\ \A d \in 1..depth : d \in Frames
      /\ stack \in [Frames -> Seq(Operands)] /\ \A c \in Cells : c \in Values
  BY AliveFrames DEF OwnershipInv, TypeOK, Values
<1>2. depth > 1 /\ DropFrame(depth)
  BY DEF Return, EndOfBody, ReturnError, Unwind, LeaveWith, LeaveWithError
<1>3. depth - 1 \in Frames /\ depth - 1 \in 1..(depth - 1)
  BY <1>1, <1>2
<1>4. ASSUME NEW r \in Values, LeaveWith(r),
             \A c \in Cells : owner'[c] = IF c = r THEN "INTERPRETER"
                                          ELSE IF c \in FrameValues(depth) \cup CallArguments
                                          THEN "FREED" ELSE owner[c]
      PROVE  AllKept'
  <2>1. /\ stack' = [stack EXCEPT ![depth] = <<>>, ![depth - 1] = Append(@, r)]
        /\ errorSeen' = errorSeen
    BY <1>4 DEF LeaveWith
  <2>2. /\ stack'[depth - 1] = Append(stack[depth - 1], r)
        /\ \A d \in Frames : d # depth /\ d # depth - 1 => stack'[d] = stack[d]
    BY <1>1, <1>2, <1>3, <2>1
  <2>3. r \in Operands /\ stack[depth - 1] \in Seq(Operands)
    BY <1>1, <1>3 DEF Operands
  <2>4. /\ Len(stack'[depth - 1]) = Len(stack[depth - 1]) + 1 /\ Len(stack[depth - 1]) \in Nat
        /\ stack'[depth - 1][Len(stack[depth - 1]) + 1] = r
        /\ \A i \in 1..Len(stack[depth - 1]) : stack'[depth - 1][i] = stack[depth - 1][i]
    BY <2>2, <2>3, PushSeq
  <2>5. \E i \in 1..Len(stack'[depth - 1]) : stack'[depth - 1][i] = r
    <3>1. Len(stack[depth - 1]) + 1 \in 1..Len(stack'[depth - 1])
      BY <2>4
    <3> QED
      BY <2>4, <3>1
  <2>6. ASSUME NEW d \in 1..(depth - 1), NEW i \in 1..Len(stack[d])
        PROVE  i \in 1..Len(stack'[d]) /\ stack'[d][i] = stack[d][i]
    <3>1. CASE d = depth - 1
      BY <2>4, <3>1
    <3>2. CASE d # depth - 1
      <4>1. d \in Frames /\ d # depth
        BY <1>1
      <4> QED
        BY <2>2, <3>2, <4>1
    <3> QED
      BY <3>1, <3>2
  <2> QED
    <3>1. PICK F : F = FrameValues(depth) \cup CallArguments
      OBVIOUS
    <3>2. /\ \A c \in Cells : owner'[c] = IF c = r THEN "INTERPRETER"
                                           ELSE IF c \in F THEN "FREED" ELSE owner[c]
          /\ FrameValues(depth) \subseteq F
          /\ ~errorSeen' => ~errorSeen /\ CallArguments \subseteq F
      BY <1>4, <2>1, <3>1
    <3> QED
      BY <1>2, <2>5, <2>6, <3>2, FrameGoneKept
<1>5. CASE Return
  <2>1. PICK r \in Fresh :
          /\ owner' = [Free(FrameValues(depth) \cup CallArguments) EXCEPT ![r] = "INTERPRETER"]
          /\ LeaveWith(r)
    BY <1>5 DEF Return
  <2>2. r \in Values
    BY FreshUnheld
  <2>3. \A c \in Cells : owner'[c] = IF c = r THEN "INTERPRETER"
                                     ELSE IF c \in FrameValues(depth) \cup CallArguments
                                     THEN "FREED" ELSE owner[c]
    BY <1>1, <2>1, <2>2 DEF Free
  <2> QED
    BY <1>4, <2>1, <2>2, <2>3
<1>6. CASE EndOfBody
  <2>1. owner' = Free(FrameValues(depth) \cup CallArguments) /\ LeaveWith(Empty)
    BY <1>6 DEF EndOfBody
  <2>2. Empty \in Values /\ Empty \notin Cells
    BY OwnershipAssumption DEF Values
  <2>3. \A c \in Cells : owner'[c] = IF c = Empty THEN "INTERPRETER"
                                     ELSE IF c \in FrameValues(depth) \cup CallArguments
                                     THEN "FREED" ELSE owner[c]
    BY <1>1, <2>1, <2>2 DEF Free
  <2> QED
    BY <1>4, <2>1, <2>2, <2>3
<1>7. CASE LeaveWithError
  <2>1. /\ owner' = Free(FrameValues(depth)) /\ errorSeen' = TRUE
        /\ stack' = [stack EXCEPT ![depth] = <<>>]
    BY <1>7 DEF LeaveWithError
  <2>2. Empty \notin Cells
    BY OwnershipAssumption
  <2>3. \A c \in Cells : owner'[c] = IF c = Empty THEN "INTERPRETER"
                                     ELSE IF c \in FrameValues(depth) THEN "FREED" ELSE owner[c]
    BY <1>1, <2>1, <2>2 DEF Free
  <2>4. \A d \in 1..(depth - 1) : stack'[d] = stack[d]
    <3>1. \A d \in 1..(depth - 1) : d \in Frames /\ d # depth
      BY <1>1
    <3> QED
      BY <1>1, <2>1, <3>1
  <2> QED
    <3>1. PICK F, r : F = FrameValues(depth) /\ r = Empty
      OBVIOUS
    <3>2. /\ \A c \in Cells : owner'[c] = IF c = r THEN "INTERPRETER"
                                           ELSE IF c \in F THEN "FREED" ELSE owner[c]
          /\ FrameValues(depth) \subseteq F /\ errorSeen' /\ r \notin Cells
          /\ \A d \in 1..(depth - 1) : \A i \in 1..Len(stack[d]) :
               i \in 1..Len(stack'[d]) /\ stack'[d][i] = stack[d][i]
      BY <2>1, <2>2, <2>3, <2>4, <3>1
    <3> QED
      BY <1>2, <3>2, FrameGoneKept
<1> QED
  BY <1>5, <1>6, <1>7 DEF ReturnError, Unwind

LEMMA EndingKept ==
  ASSUME OwnershipInv, AllKept, EndOfFile \/ Abort \/ DestroyInterpreter
  PROVE  AllKept'
<1>1. /\ TypeOK /\ \A c \in Cells : c \in Values /\ c \notin Literals
      /\ 1 \in Frames /\ depth = 1
      /\ symbols \in [Frames -> [Names -> Values \cup {Nil}]]
  BY FrameFacts, OwnershipAssumption
     DEF OwnershipInv, TypeOK, Values, EndOfFile, Abort, DestroyInterpreter, IdleFramesEmpty
<1>2. \A c \in Cells :
        owner[c] = "CONTEXT_VARIABLE" => c \in OwnedBy("CONTEXT_VARIABLE", SymbolRange(1))
  BY <1>1 DEF AllKept, VariablesKept, Kept, OwnedBy, SymbolRange
<1>3. ~errorSeen => \A c \in Cells : owner[c] = "INTERPRETER" => Holds(1, c)
  BY <1>1 DEF AllKept, TemporariesKept
<1>4. CASE EndOfFile
  <2>1. /\ owner' = Free(OwnedBy("CONTEXT_VARIABLE", SymbolRange(1)) \cup Literals)
        /\ UNCHANGED <<depth, stack, lastValue, args, errorSeen>>
    BY <1>4 DEF EndOfFile
  <2>2. \A c \in Cells : owner'[c] = IF c \in OwnedBy("CONTEXT_VARIABLE", SymbolRange(1))
                                     THEN "FREED" ELSE owner[c]
    BY <1>1, <2>1 DEF Free
  <2> QED
    <3>1. \A c \in Cells : owner'[c] # "CONTEXT_VARIABLE"
      BY <1>2, <2>2
    <3>2. \A c \in Cells : owner'[c] = "INTERPRETER" => owner[c] = "INTERPRETER"
      BY <2>2
    <3>3. \A c : Holds(1, c) => Holds(1, c)'
      BY <2>1 DEF Holds
    <3>4. ~errorSeen' => \A c \in Cells : owner'[c] = "INTERPRETER" => Holds(1, c)'
      BY <1>3, <2>1, <3>2, <3>3
    <3>5. 1 \in 1..depth'
      BY <1>1, <2>1
    <3> QED
      BY <3>1, <3>4, <3>5 DEF AllKept, VariablesKept, TemporariesKept
<1>5. CASE Abort
  <2>1. /\ owner' = Free(Literals)
        /\ UNCHANGED <<depth, symbols, stack, lastValue, args, errorSeen>>
    BY <1>5 DEF Abort
  <2>2. \A c \in Cells : owner'[c] = owner[c]
    BY <1>1, <2>1 DEF Free
  <2> QED
    BY <2>1, <2>2 DEF AllKept, VariablesKept, TemporariesKept, Kept, Holds
<1>6. CASE DestroyInterpreter
  <2>1. /\ owner' = Free(FrameValues(1)) /\ UNCHANGED <<depth, args, errorSeen>>
    BY <1>6 DEF DestroyInterpreter
  <2>2. \A c \in Cells : owner'[c] = IF c \in FrameValues(1) THEN "FREED" ELSE owner[c]
    BY <1>1, <2>1 DEF Free
  <2>3. \A c \in Cells : owner'[c] # "CONTEXT_VARIABLE"
    BY <1>2, <2>2 DEF FrameValues
  <2>4. args[1] = {}
    BY <1>1 DEF OwnershipInv, IdleFramesEmpty
  <2>5. ~errorSeen => \A c \in Cells : owner'[c] # "INTERPRETER"
    BY <1>1, <1>3, <2>2, <2>4 DEF Holds, FrameValues, Temporaries, OwnedBy, StackRange
  <2> QED
    BY <2>1, <2>3, <2>5 DEF AllKept, VariablesKept, TemporariesKept
<1> QED
  BY <1>4, <1>5, <1>6

LEMMA NextKept ==
  ASSUME OwnershipInv, AllKept, [Next]_vars
  PROVE  AllKept'
<1>1. CASE \/ PushOperand \/ Operator \/ DivisionByZero \/ NegativeRepeat \/ Cast \/ FString
           \/ CallBuiltin \/ UndefinedOperand
  BY <1>1, PopKept, OwnershipAssumption DEF Operator, DivisionByZero, NegativeRepeat, Cast, FString
<1>2. CASE Assign
  BY <1>2, AssignKept
<1>3. CASE EndOfLine
  BY <1>3, EndOfLineKept
<1>4. CASE DefineFunction
  BY <1>4, BindKept, OwnershipAssumption DEF DefineFunction
<1>5. CASE Catch
  BY <1>5, BindKept, OwnershipAssumption DEF Catch
<1>6. CASE \E k \in 0..MaxStack : UserCall(k)
  BY <1>6, UserCallKept, OwnershipAssumption
<1>7. CASE Return \/ EndOfBody \/ ReturnError \/ Unwind
  BY <1>7, LeavingKept
<1>8. CASE EndOfFile \/ Abort \/ DestroyInterpreter
  BY <1>8, EndingKept
<1>9. CASE UNCHANGED vars
  BY <1>9 DEF vars, AllKept, VariablesKept, TemporariesKept, Kept, Holds
<1> QED
  BY <1>1, <1>2, <1>3, <1>4, <1>5, <1>6, <1>7, <1>8, <1>9 DEF Next

\* What a context owns is a variable of a frame alive, whatever errors were
\* raised, and until the first error so is every temporary held: every deletion
\* the code has to do (checkMemory, setVariableRange, the destructors) it does.
THEOREM NothingIsForgotten ==
  ASSUME UnheldNeverResult
  PROVE  Spec => []NothingLeaks
<1>1. Init => AllKept
  BY InitKept
<1>2. OwnershipInv /\ AllKept /\ [Next]_vars => AllKept'
  BY NextKept
<1>3. Spec => []OwnershipInv
  BY OwnershipHolds
<1>4. AllKept => NothingLeaks
  BY AllKeptMeans
<1> QED
  BY <1>1, <1>2, <1>3, <1>4, PTL DEF Spec

-----------------------------------------------------------------------------
(* The values *)

\* A value is of one of the kinds, and a literal of one name.
LEMMA KindsDiffer ==
  /\ \A v \in TextLiterals : v \notin ModuleCells /\ v # Shared /\ v # NoValue
  /\ \A v \in ModuleCells : v # Shared /\ v # NoValue /\ v # Alone
  /\ NoValue # Shared /\ Shared # Alone
  /\ \A n \in ModuleNames : LiteralOf(n) # Alone
  /\ \A n, k \in ModuleNames : LiteralOf(n) = LiteralOf(k) => n = k
<1>1. \A n : LiteralOf(n)[1] = "literal" /\ LiteralOf(n)[2] = n
  BY DEF LiteralOf
<1>2. \A c : Cell(c)[1] = "cell"
  BY DEF Cell
<1>3. Alone[1] = "line" /\ Shared[1] = "empty" /\ NoValue[1] = "none"
  BY DEF Alone, Shared, NoValue
<1>4. /\ "literal" # "line" /\ "literal" # "cell" /\ "literal" # "empty" /\ "literal" # "none"
      /\ "cell" # "line" /\ "cell" # "empty" /\ "cell" # "none"
      /\ "line" # "empty" /\ "line" # "none" /\ "empty" # "none"
  OBVIOUS
<1>5. \A v \in TextLiterals : v[1] = "literal" \/ v[1] = "line"
  BY <1>1, <1>3 DEF TextLiterals
<1>6. \A v \in ModuleCells : v[1] = "cell"
  BY <1>2 DEF ModuleCells
<1>7. \A v \in TextLiterals : v \notin ModuleCells /\ v # Shared /\ v # NoValue
  BY <1>3, <1>4, <1>5, <1>6
<1>8. \A v \in ModuleCells : v # Shared /\ v # NoValue /\ v # Alone
  BY <1>3, <1>4, <1>6
<1>9. NoValue # Shared /\ Shared # Alone /\ \A n \in ModuleNames : LiteralOf(n) # Alone
  BY <1>1, <1>3, <1>4
<1>10. \A n, k \in ModuleNames : LiteralOf(n) = LiteralOf(k) => n = k
  BY <1>1
<1> QED
  BY <1>7, <1>8, <1>9, <1>10

LEMMA KeptKinds ==
  /\ \A v : v \in KeptValues <=> v \in TextLiterals \/ v \in ModuleCells \/ v = Shared
  /\ Alone \in TextLiterals /\ \A n \in ModuleNames : LiteralOf(n) \in TextLiterals
  /\ NoValue \notin KeptValues
<1>1. \A v : v \in KeptValues <=> v \in TextLiterals \/ v \in ModuleCells \/ v = Shared
  BY DEF KeptValues
<1>2. Alone \in TextLiterals /\ \A n \in ModuleNames : LiteralOf(n) \in TextLiterals
  BY DEF TextLiterals
<1> QED
  BY <1>1, <1>2, KindsDiffer

-----------------------------------------------------------------------------
(* The invariant *)

OwnerTags == {"VALUE_TOKEN", "EMPTY_VALUE", "INTERPRETER", "CONTEXT_VARIABLE", "freed"}

ModuleTypes ==
  /\ moduleSymbols \in [ModuleNames -> KeptValues \cup {NoValue}]
  /\ importSymbol \in {NoValue, Shared}
  /\ tag \in [KeptValues -> OwnerTags]
  /\ stage \in {"running", "loaded", "failed", "unloaded", "undefined"}

\* A computed value has one name, a literal that of its assignment.
OneName ==
  /\ \A n \in ModuleNames :
       moduleSymbols[n] \in {NoValue, LiteralOf(n), Shared} \cup ModuleCells
  /\ \A n, k \in ModuleNames :
       moduleSymbols[n] = moduleSymbols[k] /\ moduleSymbols[n] \in ModuleCells => n = k

\* While the text runs its tokens own their literals, the context the computed
\* values it holds, and the last result is alive.
WhileRunning ==
  stage = "running" =>
    /\ \A v \in TextLiterals : tag[v] = "VALUE_TOKEN"
    /\ tag[Shared] = "EMPTY_VALUE"
    /\ \A v \in Held \cap ModuleCells : tag[v] = "CONTEXT_VARIABLE"
    /\ \/ lastResult \in Held \cup {NoValue, Alone, Shared}
       \/ lastResult \in ModuleCells /\ tag[lastResult] = "INTERPRETER"

\* The None of all calls is nobody's, unless a loaded module holds it.
Unshared == stage \in {"loaded", "failed"} /\ (stage = "failed" \/ Shared \notin Held)
              => tag[Shared] = "EMPTY_VALUE"

ModuleInv == ModuleTypes /\ OneName /\ WhileRunning /\ Unshared /\ ModuleKeepsItsValues

LEMMA HeldOf ==
  ASSUME ModuleTypes
  PROVE  /\ Held \subseteq KeptValues
         /\ \A v : v \in Held <=> v # NoValue /\ \E n \in ModuleNames : v = moduleSymbols[n]
  BY DEF ModuleTypes, Held

LEMMA ModuleStarts == ModuleInit => ModuleInv
<1> SUFFICES ASSUME ModuleInit PROVE ModuleInv
  OBVIOUS
<1>1. tag = [v \in KeptValues |-> CASE v \in TextLiterals -> "VALUE_TOKEN"
                                    [] v = Shared -> "EMPTY_VALUE"
                                    [] OTHER -> "freed"]
  BY DEF ModuleInit
<1>2. /\ \A v \in TextLiterals : tag[v] = "VALUE_TOKEN"
      /\ tag[Shared] = "EMPTY_VALUE"
  BY <1>1, KindsDiffer, KeptKinds
<1>3. \A n \in ModuleNames : moduleSymbols[n] = NoValue
  BY DEF ModuleInit
<1>4. Held = {}
  BY <1>3 DEF Held
<1>5. ModuleTypes
  <2>1. tag \in [KeptValues -> OwnerTags]
    BY <1>1 DEF OwnerTags
  <2> QED
    BY <2>1 DEF ModuleInit, ModuleTypes
<1>6. OneName
  BY <1>3, KindsDiffer DEF OneName
<1>7. WhileRunning /\ Unshared /\ ModuleKeepsItsValues
  BY <1>2, <1>4 DEF ModuleInit, WhileRunning, Unshared, ModuleKeepsItsValues
<1> QED
  BY <1>5, <1>6, <1>7 DEF ModuleInv

-----------------------------------------------------------------------------
(* The lines *)

LEMMA AssignKeeps == ModuleInv /\ AssignLine => ModuleInv'
<1> SUFFICES ASSUME ModuleInv, AssignLine PROVE ModuleInv'
  OBVIOUS
<1>a. ModuleTypes /\ OneName /\ WhileRunning
  BY DEF ModuleInv
<1>1. stage = "running" /\ stage' = "running" /\ importSymbol' = importSymbol
  BY DEF AssignLine
<1>2. PICK n \in ModuleNames, v \in KeptValues :
        /\ v \in {LiteralOf(n), Shared} \/ Unused(v)
        /\ tag' = Swept(Unbound(IF v \in ModuleCells THEN [tag EXCEPT ![v] = "CONTEXT_VARIABLE"]
                                ELSE tag, moduleSymbols[n]), {lastResult})
        /\ moduleSymbols' = [moduleSymbols EXCEPT ![n] = v]
        /\ lastResult' = v
  BY DEF AssignLine
<1> DEFINE raised == IF v \in ModuleCells THEN [tag EXCEPT ![v] = "CONTEXT_VARIABLE"] ELSE tag
<1>3. raised \in [KeptValues -> OwnerTags] /\ \A w \in KeptValues \ {v} : raised[w] = tag[w]
  BY <1>a DEF ModuleTypes, OwnerTags
<1>4. v \in ModuleCells => raised[v] = "CONTEXT_VARIABLE"
  BY <1>a DEF ModuleTypes
<1>5. v \notin ModuleCells => raised[v] = tag[v]
  OBVIOUS
<1> HIDE DEF raised
<1>6. \A w \in KeptValues :
        tag'[w] = IF w = moduleSymbols[n] /\ raised[w] = "CONTEXT_VARIABLE" THEN "freed"
                  ELSE IF w = lastResult /\ raised[w] = "INTERPRETER" THEN "freed" ELSE raised[w]
  <2> DEFINE u == Unbound(raised, moduleSymbols[n])
  <2>1. \A w \in KeptValues : u[w] = IF w = moduleSymbols[n] /\ raised[w] = "CONTEXT_VARIABLE"
                                     THEN "freed" ELSE raised[w]
    BY DEF Unbound
  <2>2. tag' = Swept(u, {lastResult})
    BY <1>2 DEF raised
  <2> HIDE DEF u
  <2>3. \A w \in KeptValues :
          tag'[w] = IF w = lastResult /\ u[w] = "INTERPRETER" THEN "freed" ELSE u[w]
    BY <2>2 DEF Swept
  <2> QED
    BY <2>1, <2>3
<1>7. moduleSymbols'[n] = v /\ \A k \in ModuleNames \ {n} : moduleSymbols'[k] = moduleSymbols[k]
  BY <1>2, <1>a DEF ModuleTypes
<1>8. ModuleTypes'
  <2>1. tag' \in [KeptValues -> OwnerTags]
    <3>1. tag' = [w \in KeptValues |-> tag'[w]]
      BY <1>2 DEF Swept
    <3> QED
      BY <3>1, <1>3, <1>6 DEF OwnerTags
  <2>2. moduleSymbols' \in [ModuleNames -> KeptValues \cup {NoValue}]
    BY <1>2, <1>a DEF ModuleTypes
  <2> QED
    BY <2>1, <2>2, <1>1, <1>a DEF ModuleTypes
\* A value that is made is held by nobody.
<1>9. v \in ModuleCells => tag[v] = "freed" /\ v \notin Held
  <2>1. v \in ModuleCells => tag[v] = "freed"
    BY <1>2, KindsDiffer, KeptKinds DEF Unused
  <2> QED
    BY <2>1, <1>1, <1>a DEF WhileRunning
<1>10. OneName'
  <2>1. \A k \in ModuleNames :
          moduleSymbols'[k] \in {NoValue, LiteralOf(k), Shared} \cup ModuleCells
    BY <1>2, <1>7, <1>a DEF OneName, Unused
  <2>2. ASSUME NEW k \in ModuleNames, NEW j \in ModuleNames,
               moduleSymbols'[k] = moduleSymbols'[j], moduleSymbols'[k] \in ModuleCells
        PROVE  k = j
    <3>1. ASSUME NEW i \in ModuleNames, v \in ModuleCells
          PROVE  moduleSymbols[i] # v
      BY <3>1, <1>9, <1>a, HeldOf, KindsDiffer
    <3> QED
      BY <2>2, <3>1, <1>7, <1>a DEF OneName
  <2> QED
    BY <2>1, <2>2 DEF OneName
<1>11. WhileRunning'
  <2>1. \A w \in TextLiterals : tag'[w] = "VALUE_TOKEN"
    BY <1>1, <1>a, <1>3, <1>5, <1>6, KindsDiffer, KeptKinds DEF WhileRunning
  <2>2. tag'[Shared] = "EMPTY_VALUE"
    BY <1>1, <1>a, <1>3, <1>5, <1>6, KindsDiffer, KeptKinds DEF WhileRunning
  <2>3. ASSUME NEW w \in Held' \cap ModuleCells
        PROVE  tag'[w] = "CONTEXT_VARIABLE"
    <3>1. PICK k \in ModuleNames : w = moduleSymbols'[k]
      BY DEF Held
    <3>2. CASE k = n
      <4>1. w = v /\ v \in ModuleCells
        BY <3>1, <3>2, <1>7
      <4>2. v # moduleSymbols[n]
        BY <4>1, <1>9, <1>a, HeldOf, KindsDiffer
      <4> QED
        BY <4>1, <4>2, <1>4, <1>6
    <3>3. CASE k # n
      <4>1. w = moduleSymbols[k] /\ w \in Held
        BY <3>1, <3>3, <1>7, <1>a, HeldOf, KindsDiffer
      <4>2. tag[w] = "CONTEXT_VARIABLE" /\ w # v
        BY <4>1, <1>1, <1>9, <1>a DEF WhileRunning
      <4>3. w # moduleSymbols[n]
        BY <3>3, <4>1, <1>a DEF OneName
      <4> QED
        BY <4>2, <4>3, <1>3, <1>6, KeptKinds
    <3> QED  BY <3>2, <3>3
  <2>4. lastResult' \in Held'
    BY <1>2, <1>7, <1>8, KeptKinds DEF Held
  <2> QED
    BY <2>1, <2>2, <2>3, <2>4 DEF WhileRunning
<1> QED
  BY <1>1, <1>8, <1>10, <1>11 DEF ModuleInv, Unshared, ModuleKeepsItsValues

LEMMA MadeOf ==
  ASSUME ModuleTypes, NEW v
  PROVE  /\ Made(v) \in [KeptValues -> OwnerTags]
         /\ v \in ModuleCells => Made(v)[v] = "INTERPRETER"
         /\ \A w \in KeptValues : v \notin ModuleCells \/ w # v => Made(v)[w] = tag[w]
<1>1. CASE v \in ModuleCells
  BY <1>1, KeptKinds DEF ModuleTypes, Made, OwnerTags
<1>2. CASE v \notin ModuleCells
  BY <1>2 DEF ModuleTypes, Made
<1> QED  BY <1>1, <1>2

LEMMA SweptOf ==
  ASSUME NEW t \in [KeptValues -> OwnerTags], NEW vs
  PROVE  /\ Swept(t, vs) \in [KeptValues -> OwnerTags]
         /\ \A w \in KeptValues :
              Swept(t, vs)[w] = IF w \in vs /\ t[w] = "INTERPRETER" THEN "freed" ELSE t[w]
  BY DEF Swept, OwnerTags

LEMMA ResultKeeps == ModuleInv /\ ResultLine => ModuleInv'
<1> SUFFICES ASSUME ModuleInv, ResultLine PROVE ModuleInv'
  OBVIOUS
<1>a. ModuleTypes /\ OneName /\ WhileRunning
  BY DEF ModuleInv
<1>1. stage = "running" /\ stage' = "running" /\ UNCHANGED <<importSymbol, moduleSymbols>>
  BY DEF ResultLine
<1>2. PICK v \in Held \cup {Alone, Shared} \cup {c \in ModuleCells : Unused(c)} :
        /\ tag' = IF v \in Held THEN Swept(tag, {lastResult})
                  ELSE Swept(Made(v), {lastResult} \ {v})
        /\ lastResult' = v
  BY DEF ResultLine
<1>3. Held' = Held /\ OneName'
  BY <1>1, <1>a DEF Held, OneName
<1>4. tag \in [KeptValues -> OwnerTags] /\ Made(v) \in [KeptValues -> OwnerTags]
  BY <1>a, MadeOf DEF ModuleTypes
<1>5. ModuleTypes'
  BY <1>1, <1>2, <1>4, <1>a, SweptOf DEF ModuleTypes
\* Only a last result the interpreter owns, and the value made, change their tag.
<1>6. \A w \in KeptValues :
        \/ tag'[w] = tag[w]
        \/ w = lastResult /\ tag[w] = "INTERPRETER"
        \/ w = v /\ v \in ModuleCells /\ tag[w] = "freed"
  <2>1. CASE v \in Held
    BY <2>1, <1>2, <1>4, SweptOf
  <2>2. CASE v \notin Held
    <3>1. v \in ModuleCells => tag[v] = "freed"
      BY <2>2, <1>2, KindsDiffer, KeptKinds DEF Unused
    <3>2. \A w \in KeptValues : tag'[w] = IF w \in {lastResult} \ {v} /\ Made(v)[w] = "INTERPRETER"
                                          THEN "freed" ELSE Made(v)[w]
      BY <2>2, <1>2, <1>4, SweptOf
    <3> QED
      BY <3>1, <3>2, <1>a, MadeOf
  <2> QED  BY <2>1, <2>2
<1>7. \A w \in TextLiterals : tag'[w] = "VALUE_TOKEN"
  BY <1>1, <1>6, <1>a, KeptKinds DEF WhileRunning
<1>8. tag'[Shared] = "EMPTY_VALUE"
  BY <1>1, <1>6, <1>a, KeptKinds DEF WhileRunning
<1>9. \A w \in Held' \cap ModuleCells : tag'[w] = "CONTEXT_VARIABLE"
  BY <1>1, <1>3, <1>6, <1>a, KeptKinds DEF WhileRunning
<1>10. \/ lastResult' \in Held' \cup {NoValue, Alone, Shared}
       \/ lastResult' \in ModuleCells /\ tag'[lastResult'] = "INTERPRETER"
  <2>1. CASE v \in Held \cup {Alone, Shared}
    BY <2>1, <1>2, <1>3
  <2>2. CASE v \notin Held \cup {Alone, Shared}
    <3>1. v \in ModuleCells /\ v \in KeptValues /\ tag' = Swept(Made(v), {lastResult} \ {v})
      BY <2>2, <1>2, KeptKinds
    <3>2. tag'[v] = Made(v)[v]
      BY <3>1, <1>4, SweptOf
    <3> QED
      BY <3>1, <3>2, <1>2, <1>a, MadeOf
  <2> QED  BY <2>1, <2>2
<1>11. WhileRunning'
  BY <1>7, <1>8, <1>9, <1>10 DEF WhileRunning
<1> QED
  BY <1>1, <1>3, <1>5, <1>11 DEF ModuleInv, Unshared, ModuleKeepsItsValues

-----------------------------------------------------------------------------
(* The end of the text *)

LEMMA ReleasedOf ==
  ASSUME NEW t \in [KeptValues -> OwnerTags], NEW operand, Released(t, operand)
  PROVE  /\ tag' \in [KeptValues -> OwnerTags]
         /\ \A w \in KeptValues :
              /\ t[w] = "VALUE_TOKEN" => tag'[w] = "freed"
              /\ t[w] \in {"CONTEXT_VARIABLE", "EMPTY_VALUE", "freed"} => tag'[w] = t[w]
         /\ misread' /\ operand = NoValue /\ lastResult \in KeptValues
              => t[lastResult] \in {"VALUE_TOKEN", "freed"}
         /\ misread' /\ operand = NoValue => lastResult # NoValue
<1> DEFINE gone == [v \in KeptValues |-> IF t[v] = "VALUE_TOKEN" THEN "freed" ELSE t[v]]
           looked == {lastResult, operand} \ {NoValue}
<1>1. misread' = (\E v \in looked : gone[v] = "freed")
  BY DEF Released
<1>2. tag' = Swept(gone, looked)
  BY DEF Released
<1>3. gone \in [KeptValues -> OwnerTags]
  BY DEF OwnerTags
<1>4. \A w \in KeptValues : gone[w] = IF t[w] = "VALUE_TOKEN" THEN "freed" ELSE t[w]
  OBVIOUS
<1> HIDE DEF gone
<1>5. tag' \in [KeptValues -> OwnerTags]
  BY <1>2, <1>3, SweptOf
<1>6. \A w \in KeptValues :
        tag'[w] = IF w \in looked /\ gone[w] = "INTERPRETER" THEN "freed" ELSE gone[w]
  BY <1>2, <1>3, SweptOf
<1>7. misread' /\ operand = NoValue => lastResult # NoValue /\ gone[lastResult] = "freed"
  BY <1>1
<1> QED
  BY <1>4, <1>5, <1>6, <1>7

LEMMA EndKeeps == ModuleInv /\ EndOfText => ModuleInv'
<1> SUFFICES ASSUME ModuleInv, EndOfText PROVE ModuleInv'
  OBVIOUS
<1>a. ModuleTypes /\ OneName /\ WhileRunning
  BY DEF ModuleInv
<1>1. /\ stage = "running" /\ stage' = "loaded"
      /\ UNCHANGED <<importSymbol, moduleSymbols, lastResult>>
      /\ Released(TakeOwnership(tag), NoValue)
  BY DEF EndOfText
<1>2. Held' = Held /\ OneName'
  BY <1>1, <1>a DEF Held, OneName
<1> DEFINE taken == TakeOwnership(tag)
<1>3. taken \in [KeptValues -> OwnerTags]
  BY <1>a DEF ModuleTypes, TakeOwnership, OwnerTags
<1>4. \A w \in KeptValues : taken[w] = IF w \in Held THEN "CONTEXT_VARIABLE" ELSE tag[w]
  BY DEF TakeOwnership
<1>5. Released(taken, NoValue)
  BY <1>1
<1> HIDE DEF taken
<1>6. ModuleTypes'
  BY <1>1, <1>3, <1>5, <1>a, ReleasedOf DEF ModuleTypes
<1>7. \A w \in Held' : tag'[w] = "CONTEXT_VARIABLE"
  BY <1>2, <1>3, <1>4, <1>5, <1>a, HeldOf, ReleasedOf
<1>8. Shared \notin Held' => tag'[Shared] = "EMPTY_VALUE"
  <2>1. tag[Shared] = "EMPTY_VALUE" /\ Shared \in KeptValues
    BY <1>1, <1>a, KeptKinds DEF WhileRunning
  <2> QED
    BY <2>1, <1>2, <1>3, <1>4, <1>5, ReleasedOf
<1>9. misread' => lastResult' = Alone
  <2> SUFFICES ASSUME misread', lastResult # Alone PROVE FALSE
    BY <1>1
  <2>1. lastResult # NoValue
    BY <1>3, <1>5, ReleasedOf
  <2>2. \/ lastResult \in Held \/ lastResult = Shared
        \/ lastResult \in ModuleCells /\ tag[lastResult] = "INTERPRETER"
    BY <2>1, <1>1, <1>a DEF WhileRunning
  <2>3. lastResult \in KeptValues
    BY <2>2, <1>a, HeldOf, KeptKinds
  <2>4. taken[lastResult] \in {"VALUE_TOKEN", "freed"}
    BY <2>3, <1>3, <1>5, ReleasedOf
  <2>5. lastResult \notin Held /\ tag[lastResult] \in {"VALUE_TOKEN", "freed"}
    BY <2>3, <2>4, <1>4
  <2> QED
    BY <2>2, <2>5, <1>1, <1>a DEF WhileRunning
<1>10. WhileRunning' /\ Unshared'
  BY <1>1, <1>8 DEF WhileRunning, Unshared
<1>11. ModuleKeepsItsValues'
  BY <1>1, <1>7, <1>9 DEF ModuleKeepsItsValues
<1> QED
  BY <1>2, <1>6, <1>10, <1>11 DEF ModuleInv

LEMMA FailKeeps == ModuleInv /\ FailedLoad => ModuleInv'
<1> SUFFICES ASSUME ModuleInv, FailedLoad PROVE ModuleInv'
  OBVIOUS
<1>a. ModuleTypes /\ OneName /\ WhileRunning
  BY DEF ModuleInv
<1>1. /\ stage = "running" /\ stage' = "failed"
      /\ UNCHANGED <<importSymbol, moduleSymbols, lastResult>>
  BY DEF FailedLoad
<1>2. PICK v \in TextLiterals \cup {c \in ModuleCells : Unused(c)} \cup {NoValue} :
        Released(Made(v), v)
  BY DEF FailedLoad
<1>3. Held' = Held /\ OneName'
  BY <1>1, <1>a DEF Held, OneName
<1>4. Made(v) \in [KeptValues -> OwnerTags]
  BY <1>a, MadeOf
<1>5. ModuleTypes'
  BY <1>1, <1>2, <1>4, <1>a, ReleasedOf DEF ModuleTypes
<1>6. v \in ModuleCells => tag[v] = "freed"
  BY <1>2, KindsDiffer DEF Unused
<1>7. tag'[Shared] = "EMPTY_VALUE"
  <2>1. tag[Shared] = "EMPTY_VALUE" /\ Shared \in KeptValues
    BY <1>1, <1>a, KeptKinds DEF WhileRunning
  <2>2. Made(v)[Shared] = "EMPTY_VALUE"
    BY <2>1, <1>a, MadeOf, KindsDiffer
  <2> QED
    BY <2>1, <2>2, <1>2, <1>4, ReleasedOf
<1>8. ASSUME NEW w \in Held' \ TextLiterals
      PROVE  tag'[w] # "freed"
  <2>1. CASE w = Shared
    BY <2>1, <1>7
  <2>2. CASE w # Shared
    <3>1. w \in Held \cap ModuleCells /\ w \in KeptValues
      BY <2>2, <1>3, <1>8, <1>a, HeldOf, KeptKinds
    <3>2. tag[w] = "CONTEXT_VARIABLE"
      BY <3>1, <1>1, <1>a DEF WhileRunning
    <3>3. Made(v)[w] = "CONTEXT_VARIABLE"
      BY <3>1, <3>2, <1>6, <1>a, MadeOf
    <3> QED
      BY <3>1, <3>3, <1>2, <1>4, ReleasedOf
  <2> QED  BY <2>1, <2>2
<1>9. WhileRunning' /\ Unshared'
  BY <1>1, <1>7 DEF WhileRunning, Unshared
<1>10. ModuleKeepsItsValues'
  BY <1>1, <1>8 DEF ModuleKeepsItsValues
<1> QED
  BY <1>3, <1>5, <1>9, <1>10 DEF ModuleInv

-----------------------------------------------------------------------------
(* The importing file *)

\* What is held and freed is a literal of a text that failed, or the None of all.
LEMMA LostIsExplained ==
  ASSUME ModuleInv, Imported, NEW w \in Held, tag[w] = "freed"
  PROVE  w \in TextLiterals \/ w = Shared
  BY DEF ModuleInv, ModuleKeepsItsValues, Imported

LEMMA ReadKeeps == ModuleInv /\ ReadPath => ModuleInv'
<1> SUFFICES ASSUME ModuleInv, ReadPath PROVE ModuleInv'
  OBVIOUS
<1>1. Imported /\ UNCHANGED <<moduleSymbols, importSymbol, tag, lastResult, misread>>
  BY DEF ReadPath
<1>2. PICK v \in Held : stage' = IF tag[v] # "freed" THEN stage ELSE "undefined"
  BY DEF ReadPath, BehavesIf
<1>3. Held' = Held
  BY <1>1 DEF Held
<1>4. CASE tag[v] # "freed"
  BY <1>1, <1>2, <1>3, <1>4
  DEF ModuleInv, ModuleTypes, OneName, WhileRunning, Unshared, ModuleKeepsItsValues
<1>5. CASE tag[v] = "freed"
  <2>1. v \in TextLiterals \/ v = Shared
    BY <1>1, <1>5, LostIsExplained
  <2>2. stage' = "undefined"
    BY <1>2, <1>5
  <2>3. ModuleKeepsItsValues'
    BY <2>1, <2>2, <1>1, <1>3, <1>5 DEF ModuleKeepsItsValues
  <2> QED
    BY <2>2, <2>3, <1>1 DEF ModuleInv, ModuleTypes, OneName, WhileRunning, Unshared
<1> QED  BY <1>4, <1>5

LEMMA AssignNoneKeeps == ModuleInv /\ AssignNone => ModuleInv'
<1> SUFFICES ASSUME ModuleInv, AssignNone PROVE ModuleInv'
  OBVIOUS
<1>a. ModuleTypes /\ OneName /\ Unshared /\ ModuleKeepsItsValues
  BY DEF ModuleInv
<1>1. /\ stage \in {"loaded", "failed"} /\ importSymbol' = Shared
      /\ UNCHANGED <<moduleSymbols, lastResult, misread>>
      /\ stage' = IF tag[Shared] # "freed" THEN stage ELSE "undefined"
      /\ tag' = Unbound(tag, importSymbol)
  BY DEF AssignNone, Imported, BehavesIf
<1>2. Held' = Held /\ OneName'
  BY <1>1, <1>a DEF Held, OneName
<1>3. \A w \in KeptValues :
        tag'[w] = IF w = importSymbol /\ tag[w] = "CONTEXT_VARIABLE" THEN "freed" ELSE tag[w]
  BY <1>1 DEF Unbound
<1>4. ModuleTypes'
  <2>1. tag' \in [KeptValues -> OwnerTags]
    BY <1>1, <1>a DEF ModuleTypes, Unbound, OwnerTags
  <2> QED
    BY <2>1, <1>1, <1>a DEF ModuleTypes
<1>5. \A w \in KeptValues \ {Shared} : tag'[w] = tag[w]
  BY <1>3, <1>a, KeptKinds DEF ModuleTypes
<1>6. tag[Shared] # "CONTEXT_VARIABLE" => tag'[Shared] = tag[Shared]
  BY <1>3, KeptKinds
<1>7. WhileRunning'
  BY <1>1 DEF WhileRunning
<1>8. Unshared'
  BY <1>1, <1>2, <1>6, <1>a DEF Unshared
<1>9. ModuleKeepsItsValues'
  <2>1. stage' = "loaded" => \A w \in Held' \ {Shared} : tag'[w] = "CONTEXT_VARIABLE"
    BY <1>1, <1>2, <1>5, <1>a, HeldOf DEF ModuleKeepsItsValues
  <2>2. stage' = "failed" => \A w \in Held' \ TextLiterals : tag'[w] # "freed"
    <3> SUFFICES ASSUME stage' = "failed", NEW w \in Held' \ TextLiterals
                 PROVE  tag'[w] # "freed"
      OBVIOUS
    <3>1. stage = "failed"
      BY <1>1
    <3>2. CASE w = Shared
      BY <3>1, <3>2, <1>6, <1>a DEF Unshared
    <3>3. CASE w # Shared
      BY <3>1, <3>3, <1>2, <1>5, <1>a, HeldOf DEF ModuleKeepsItsValues
    <3> QED  BY <3>2, <3>3
  <2>3. stage' = "undefined" => Shared \in Held'
    BY <1>1, <1>2, <1>a DEF Unshared
  <2>4. stage' = "loaded" /\ misread' => lastResult' = Alone
    BY <1>1, <1>a DEF ModuleKeepsItsValues
  <2> QED
    BY <2>1, <2>2, <2>3, <2>4 DEF ModuleKeepsItsValues
<1> QED
  BY <1>2, <1>4, <1>7, <1>8, <1>9 DEF ModuleInv

LEMMA UnloadKeeps == ModuleInv /\ Unload => ModuleInv'
<1> SUFFICES ASSUME ModuleInv, Unload PROVE ModuleInv'
  OBVIOUS
<1>a. ModuleTypes /\ OneName /\ Unshared
  BY DEF ModuleInv
<1> DEFINE own == {v \in Held \cup {importSymbol} : v # NoValue /\ tag[v] = "CONTEXT_VARIABLE"}
           once == /\ importSymbol \notin own \cap Held
                   /\ \A n, k \in ModuleNames :
                        moduleSymbols[n] = moduleSymbols[k] /\ moduleSymbols[n] \in own => n = k
           fine == /\ \A v \in Held : tag[v] # "freed"
                   /\ once
                   /\ Shared \notin own /\ tag[Shared] # "freed"
<1>1. /\ Imported /\ stage' = IF fine THEN "unloaded" ELSE "undefined"
      /\ UNCHANGED <<moduleSymbols, importSymbol, tag, lastResult, misread>>
  BY DEF Unload, BehavesIf
<1>2. Held' = Held
  BY <1>1 DEF Held
<1>3. ASSUME ~fine, Shared \notin Held
      PROVE  \E w \in Held \cap TextLiterals : tag[w] = "freed"
  <2>1. tag[Shared] = "EMPTY_VALUE"
    BY <1>1, <1>3, <1>a DEF Unshared, Imported
  <2>2. Shared \notin own
    BY <2>1
  <2>3. importSymbol \notin own \cap Held
    BY <1>3, <1>a, HeldOf DEF ModuleTypes
  <2>4. ASSUME NEW n \in ModuleNames, NEW k \in ModuleNames,
               moduleSymbols[n] = moduleSymbols[k], moduleSymbols[n] \in own
        PROVE  n = k
    <3>1. moduleSymbols[n] # NoValue /\ moduleSymbols[n] # Shared
      BY <2>2, <2>4
    <3>2. CASE moduleSymbols[n] \in ModuleCells
      BY <2>4, <3>2, <1>a DEF OneName
    <3>3. CASE moduleSymbols[n] \notin ModuleCells
      BY <2>4, <3>1, <3>3, <1>a, KindsDiffer DEF OneName
    <3> QED  BY <3>2, <3>3
  <2>5. once
    BY <2>3, <2>4
  <2>6. PICK w \in Held : tag[w] = "freed"
    BY <1>3, <2>1, <2>2, <2>5
  <2> QED
    BY <2>6, <1>1, <1>3, LostIsExplained
<1>4. ModuleKeepsItsValues'
  <2>1. CASE fine
    BY <2>1, <1>1 DEF ModuleKeepsItsValues
  <2>2. CASE ~fine
    BY <2>2, <1>1, <1>2, <1>3 DEF ModuleKeepsItsValues
  <2> QED  BY <2>1, <2>2
<1>5. stage' \in {"unloaded", "undefined"}
  BY <1>1
<1> QED
  BY <1>1, <1>4, <1>5, <1>a DEF ModuleInv, ModuleTypes, OneName, WhileRunning, Unshared

-----------------------------------------------------------------------------

LEMMA ModuleStep == ModuleInv /\ [ModuleNext]_moduleVars => ModuleInv'
<1> SUFFICES ASSUME ModuleInv, [ModuleNext]_moduleVars PROVE ModuleInv'
  OBVIOUS
<1>1. CASE UNCHANGED moduleVars
  <2>1. Held' = Held
    BY <1>1 DEF moduleVars, Held
  <2> QED
    BY <1>1, <2>1 DEF moduleVars, ModuleInv, ModuleTypes, OneName, WhileRunning, Unshared,
                      ModuleKeepsItsValues
<1> QED
  BY <1>1, AssignKeeps, ResultKeeps, EndKeeps, FailKeeps, ReadKeeps, AssignNoneKeeps, UnloadKeeps
  DEF ModuleNext

\* Whatever a module assigns and in whatever order: once it is loaded its names
\* stand for values of its own, and what then reads freed memory or deletes twice
\* is a name of a failed load, a name of the None of calls, or the interpreter of
\* a module that ends in a literal (Context::takeOwnership, Interpreter's
\* destructor).
THEOREM ModuleKeeps == ModuleSpec => []ModuleKeepsItsValues
<1>1. ModuleInv => ModuleKeepsItsValues
  BY DEF ModuleInv
<1> QED
  BY <1>1, ModuleStarts, ModuleStep, PTL DEF ModuleSpec

-----------------------------------------------------------------------------
(* The values of a for loop *)

LoopTags == {"VALUE_TOKEN", "CONTEXT_VARIABLE", "INTERPRETER", "freed"}
InLoop == loopPhase \in {"test", "body", "leave"}

LoopTypes ==
  /\ loopOwner \in Seq(LoopTags)
  /\ loopSymbols \in [LoopNames -> 0..Len(loopOwner)]
  /\ turns \in Nat /\ assigned \in Seq(LoopNames) /\ fromLiteral \in BOOLEAN
  /\ IF loopPhase = "line" THEN written = <<>> /\ turns = 0 /\ assigned = <<>>
     ELSE /\ written \in [1..3 -> BoundKinds]
          /\ bounds \in [1..3 -> 0..Len(loopOwner)] /\ counter \in 0..Len(loopOwner)

\* Before the loop there are no temporaries, and no two variables share a value.
LineOK ==
  loopPhase = "line" =>
    /\ \A v \in LoopValues : loopOwner[v] \in {"VALUE_TOKEN", "CONTEXT_VARIABLE"}
    /\ \A n, m \in LoopNames :
         loopSymbols[n] = loopSymbols[m] /\ loopSymbols[n] # Missing => n = m

\* The first bound, if it is no literal, is the value of the loop variable
\* after one turn, and is freed by the second.
FirstOK ==
  (loopPhase # "line" /\ bounds[1] # Missing) =>
    /\ fromLiteral <=> loopOwner[bounds[1]] = "VALUE_TOKEN"
    /\ turns = 0 => counter = bounds[1]
    /\ (~fromLiteral /\ turns >= 1) =>
         \/ loopOwner[bounds[1]] = "freed"
         \/ /\ turns = 1 /\ loopOwner[bounds[1]] = "CONTEXT_VARIABLE"
            /\ loopSymbols[LoopVariable] = bounds[1]

\* The temporaries are the bounds and the counter, so CleanUp finds them all.
TempsOK ==
  /\ (InLoop /\ \A i \in 1..3 : bounds[i] # Missing) =>
       \A v \in LoopValues :
         loopOwner[v] = "INTERPRETER" => v = counter \/ \E i \in 1..3 : v = bounds[i]
  /\ loopPhase = "ended" =>
       /\ turns < 2 \/ fromLiteral
       /\ \A v \in LoopValues : loopOwner[v] # "INTERPRETER"

\* None of what LoopReadsLiveValues names has happened.
WrittenBounds == {written[i] : i \in DOMAIN written}
Calm ==
  /\ "FLOAT" \notin WrittenBounds /\ LoopVariable \notin WrittenBounds
  /\ \A i \in DOMAIN assigned : assigned[i] \notin WrittenBounds /\ assigned[i] # LoopVariable
  /\ turns < 2 \/ fromLiteral

\* The value of n is held by nothing else.
Own(n) ==
  /\ \A i \in 1..3 : loopSymbols[n] # bounds[i]
  /\ \A m \in LoopNames \ {n} : loopSymbols[m] # loopSymbols[n]

BoundTags == {"VALUE_TOKEN", "CONTEXT_VARIABLE"}

VariablesLive ==
  \A n \in LoopNames : loopSymbols[n] # Missing => loopOwner[loopSymbols[n]] \in BoundTags

BoundsLive ==
  /\ \A i \in 1..3 : Live(loopOwner, bounds[i])
  /\ Live(loopOwner, counter)

OthersApart ==
  \A n \in LoopNames \ {LoopVariable} :
    (n \notin WrittenBounds /\ loopSymbols[n] # Missing) => Own(n) /\ loopSymbols[n] # counter

LoopVariableApart ==
  (/\ turns = 0 \/ fromLiteral
   /\ loopSymbols[LoopVariable] # Missing
   /\ loopOwner[loopSymbols[LoopVariable]] = "CONTEXT_VARIABLE") =>
     Own(LoopVariable) /\ (loopPhase = "test" => loopSymbols[LoopVariable] # counter)

CounterApart ==
  /\ (loopPhase = "test" /\ turns >= 1) =>
       /\ \A i \in 1..3 : counter # bounds[i]
       /\ \A n \in LoopNames : counter # loopSymbols[n]
  /\ loopPhase = "body" => loopOwner[counter] \in BoundTags

CalmOK ==
  Calm => /\ loopPhase # "undefined" /\ VariablesLive
          /\ InLoop => BoundsLive /\ OthersApart /\ LoopVariableApart /\ CounterApart

BodyTurns == loopPhase = "body" => turns >= 1

LoopInv == LoopTypes /\ LineOK /\ BodyTurns /\ FirstOK /\ TempsOK /\ CalmOK

LEMMA FreedTags ==
  ASSUME NEW o \in Seq(LoopTags), NEW v \in 1..Len(o), NEW t \in LoopTags
  PROVE  /\ [o EXCEPT ![v] = t] \in Seq(LoopTags) /\ Len([o EXCEPT ![v] = t]) = Len(o)
         /\ \A w \in 1..Len(o) : [o EXCEPT ![v] = t][w] = IF w = v THEN t ELSE o[w]
OBVIOUS

LEMMA DeletedTags ==
  ASSUME NEW o \in Seq(LoopTags), NEW v \in 1..Len(o)
  PROVE  /\ Deleted(o, v) \in Seq(LoopTags) /\ Len(Deleted(o, v)) = Len(o)
         /\ \A w \in 1..Len(o) :
              Deleted(o, v)[w] = IF w = v /\ o[v] = "INTERPRETER" THEN "freed" ELSE o[w]
BY FreedTags DEF Deleted, LoopTags

LEMMA RaisedTags ==
  ASSUME NEW o \in Seq(LoopTags), NEW v \in 1..Len(o)
  PROVE  /\ Raised(o, v) \in Seq(LoopTags) /\ Len(Raised(o, v)) = Len(o)
         /\ \A w \in 1..Len(o) :
              Raised(o, v)[w] = IF w = v /\ o[v] = "INTERPRETER" THEN "CONTEXT_VARIABLE" ELSE o[w]
BY FreedTags DEF Raised, LoopTags

LEMMA ReplacedTags ==
  ASSUME NEW o \in Seq(LoopTags), NEW v \in 0..Len(o)
  PROVE  /\ Replaced(o, v) \in Seq(LoopTags) /\ Len(Replaced(o, v)) = Len(o)
         /\ \A w \in 1..Len(o) :
              Replaced(o, v)[w] = IF w = v /\ o[v] = "CONTEXT_VARIABLE" THEN "freed" ELSE o[w]
<1>1. CASE v # Missing /\ o[v] = "CONTEXT_VARIABLE"
  <2>1. v \in 1..Len(o) /\ Replaced(o, v) = [o EXCEPT ![v] = "freed"]
    BY <1>1 DEF Replaced, Missing
  <2> QED
    BY <1>1, <2>1, FreedTags DEF LoopTags
<1>2. CASE ~(v # Missing /\ o[v] = "CONTEXT_VARIABLE")
  BY <1>2 DEF Replaced, Missing
<1> QED
  BY <1>1, <1>2

LEMMA AppendedTags ==
  ASSUME NEW o \in Seq(LoopTags), NEW t \in LoopTags
  PROVE  /\ Append(o, t) \in Seq(LoopTags) /\ Len(Append(o, t)) = Len(o) + 1
         /\ Append(o, t)[Len(o) + 1] = t
         /\ \A w \in 1..Len(o) : Append(o, t)[w] = o[w]
OBVIOUS

\* A variable takes value v and leaves value old.
LEMMA SetTags ==
  ASSUME NEW o \in Seq(LoopTags), NEW v \in 1..Len(o), NEW old \in 0..Len(o)
  PROVE  /\ Replaced(Raised(o, v), old) \in Seq(LoopTags)
         /\ Len(Replaced(Raised(o, v), old)) = Len(o)
         /\ \A w \in 1..Len(o) :
              LET raised == IF w = v /\ o[w] = "INTERPRETER" THEN "CONTEXT_VARIABLE" ELSE o[w]
              IN Replaced(Raised(o, v), old)[w] =
                   IF w = old /\ raised = "CONTEXT_VARIABLE" THEN "freed" ELSE raised
<1>1. PICK p : p = Raised(o, v)
  OBVIOUS
<1>2. /\ p \in Seq(LoopTags) /\ Len(p) = Len(o)
      /\ \A w \in 1..Len(o) :
           p[w] = IF w = v /\ o[v] = "INTERPRETER" THEN "CONTEXT_VARIABLE" ELSE o[w]
  BY <1>1, RaisedTags
<1>3. /\ Replaced(p, old) \in Seq(LoopTags) /\ Len(Replaced(p, old)) = Len(o)
      /\ \A w \in 1..Len(o) :
           Replaced(p, old)[w] = IF w = old /\ p[old] = "CONTEXT_VARIABLE" THEN "freed" ELSE p[w]
  BY <1>2, ReplacedTags
<1> QED
  BY <1>1, <1>2, <1>3

-----------------------------------------------------------------------------
(* Steps of the loop *)

\* No step takes back what was calm before.
LEMMA CalmBefore ==
  ASSUME LoopTypes, UNCHANGED <<written, fromLiteral>>, turns' \in Nat, turns' >= turns,
         assigned' = assigned \/ \E n \in LoopNames : assigned' = Append(assigned, n),
         Calm'
  PROVE  Calm /\ WrittenBounds' = WrittenBounds
<1>1. WrittenBounds' = WrittenBounds
  BY DEF WrittenBounds
<1>2. turns < 2 \/ fromLiteral
  BY DEF Calm, LoopTypes
<1>3. \A i \in DOMAIN assigned : assigned[i] \notin WrittenBounds /\ assigned[i] # LoopVariable
  <2>1. \A i \in DOMAIN assigned : i \in DOMAIN assigned' /\ assigned'[i] = assigned[i]
    <3>1. assigned \in Seq(LoopNames)
      BY DEF LoopTypes
    <3>2. ASSUME NEW n \in LoopNames, assigned' = Append(assigned, n)
          PROVE  \A i \in DOMAIN assigned : i \in DOMAIN assigned' /\ assigned'[i] = assigned[i]
      BY <3>1, <3>2
    <3> QED
      BY <3>2
  <2> QED
    BY <1>1, <2>1 DEF Calm
<1> QED
  BY <1>1, <1>2, <1>3 DEF Calm

\* A step that changes nothing but the place in the loop.
LEMMA PhaseKeeps ==
  ASSUME LoopInv, UNCHANGED loopState, loopPhase # "line",
         loopPhase' \in {"leave", "failed", "undefined"}, loopPhase' = "leave" => InLoop,
         loopPhase' = "undefined" => ~Calm
  PROVE  LoopInv'
<1>1. LoopTypes' /\ LineOK' /\ BodyTurns' /\ FirstOK'
  BY DEF LoopInv, LoopTypes, LineOK, BodyTurns, FirstOK, loopState
<1>2. TempsOK'
  BY DEF LoopInv, TempsOK, LoopValues, InLoop, loopState
<1>3. (Calm <=> Calm') /\ (VariablesLive <=> VariablesLive') /\ (BoundsLive <=> BoundsLive')
      /\ (OthersApart <=> OthersApart')
  BY DEF Calm, WrittenBounds, VariablesLive, BoundsLive, OthersApart, Own, Live, loopState
<1>4. LoopVariableApart => LoopVariableApart'
  BY DEF LoopVariableApart, Own, loopState
<1>5. CounterApart'
  BY DEF CounterApart
<1>6. CalmOK'
  BY <1>3, <1>4, <1>5 DEF CalmOK, LoopInv, InLoop
<1> QED
  BY <1>1, <1>2, <1>6 DEF LoopInv

\* What a calm loop reads is there.
LEMMA CalmReads ==
  ASSUME LoopInv, InLoop, Calm
  PROVE  /\ \A i \in 1..3 : bounds[i] \in 1..Len(loopOwner) /\ Live(loopOwner, bounds[i])
         /\ counter \in 1..Len(loopOwner) /\ Live(loopOwner, counter)
         /\ \A n \in LoopNames : \A v \in Current(n) : Live(loopOwner, v)
<1>1. /\ loopSymbols \in [LoopNames -> 0..Len(loopOwner)]
      /\ bounds \in [1..3 -> 0..Len(loopOwner)] /\ counter \in 0..Len(loopOwner)
      /\ Len(loopOwner) \in Nat
  <2>1. LoopTypes /\ loopPhase # "line"
    BY DEF LoopInv, InLoop
  <2>2. Len(loopOwner) \in Nat
    BY <2>1, LenProperties DEF LoopTypes
  <2> QED
    BY <2>1, <2>2 DEF LoopTypes
<1>2. VariablesLive /\ BoundsLive
  BY DEF LoopInv, CalmOK
<1>3. \A i \in 1..3 : bounds[i] \in 1..Len(loopOwner) /\ Live(loopOwner, bounds[i])
  BY <1>1, <1>2 DEF BoundsLive, Live, Missing
<1>4. counter \in 1..Len(loopOwner) /\ Live(loopOwner, counter)
  BY <1>1, <1>2 DEF BoundsLive, Live, Missing
<1>5. \A n \in LoopNames : \A v \in Current(n) : Live(loopOwner, v)
  BY <1>2 DEF VariablesLive, Live, Current, BoundTags
<1> QED
  BY <1>3, <1>4, <1>5

LEMMA EnterKeeps ==
  ASSUME LoopInv, EnterBody
  PROVE  LoopInv'
<1> DEFINE old == loopSymbols[LoopVariable]
<1>1. loopPhase = "test" /\ InLoop
  BY DEF EnterBody, InLoop
<1>2. CASE loopPhase' = "undefined" /\ UNCHANGED loopState
           /\ \E v \in Compared \cup Current(LoopVariable) : ~Live(loopOwner, v)
  <2>1. ~Calm
    BY <1>1, <1>2, CalmReads DEF Compared, LoopNames
  <2> QED
    BY <1>1, <1>2, <2>1, PhaseKeeps
<1>3. CASE /\ \A v \in Compared \cup Current(LoopVariable) : Live(loopOwner, v)
           /\ SetSymbol(LoopVariable, counter, loopOwner)
           /\ turns' = turns + 1 /\ loopPhase' = "body"
           /\ UNCHANGED <<written, bounds, counter, fromLiteral, assigned>>
  <2>1. /\ LoopTypes /\ loopOwner \in Seq(LoopTags) /\ old \in 0..Len(loopOwner)
        /\ loopSymbols \in [LoopNames -> 0..Len(loopOwner)] /\ LoopVariable \in LoopNames
        /\ bounds \in [1..3 -> 0..Len(loopOwner)] /\ counter \in 0..Len(loopOwner)
        /\ turns \in Nat /\ Len(loopOwner) \in Nat /\ written \in [1..3 -> BoundKinds]
    BY <1>1 DEF LoopInv, LoopTypes, LoopNames
  <2>2. counter \in 1..Len(loopOwner) /\ loopOwner[counter] # "freed"
    BY <1>3, <2>1 DEF Compared, Live, Missing
  <2>3. loopSymbols' = [loopSymbols EXCEPT ![LoopVariable] = counter]
        /\ loopOwner' = Replaced(Raised(loopOwner, counter), old)
    BY <1>3 DEF SetSymbol
  <2>4. /\ loopOwner' \in Seq(LoopTags) /\ Len(loopOwner') = Len(loopOwner)
        /\ \A w \in 1..Len(loopOwner) :
             LET raised == IF w = counter /\ loopOwner[w] = "INTERPRETER"
                           THEN "CONTEXT_VARIABLE" ELSE loopOwner[w]
             IN loopOwner'[w] =
                  IF w = old /\ raised = "CONTEXT_VARIABLE" THEN "freed" ELSE raised
    BY <2>1, <2>2, <2>3, SetTags
  <2>5. /\ loopSymbols'[LoopVariable] = counter
        /\ \A n \in LoopNames \ {LoopVariable} : loopSymbols'[n] = loopSymbols[n]
    BY <2>1, <2>3
  <2> HIDE DEF old
  <2>6. LoopTypes'
    BY <1>3, <2>1, <2>2, <2>3, <2>4 DEF LoopInv, LoopTypes
  <2>7. LineOK' /\ BodyTurns'
    BY <1>3, <2>1 DEF LineOK, BodyTurns
  <2>8. FirstOK'
    <3>1. ASSUME bounds[1] # Missing
          PROVE  /\ fromLiteral <=> loopOwner'[bounds[1]] = "VALUE_TOKEN"
                 /\ ~fromLiteral =>
                       \/ loopOwner'[bounds[1]] = "freed"
                       \/ /\ turns' = 1 /\ loopOwner'[bounds[1]] = "CONTEXT_VARIABLE"
                          /\ loopSymbols'[LoopVariable] = bounds[1]
      <4>1. bounds[1] \in 1..Len(loopOwner)
        BY <2>1, <3>1 DEF Missing
      <4>2. /\ fromLiteral <=> loopOwner[bounds[1]] = "VALUE_TOKEN"
            /\ turns = 0 => counter = bounds[1]
            /\ (~fromLiteral /\ turns >= 1) =>
                 \/ loopOwner[bounds[1]] = "freed"
                 \/ /\ turns = 1 /\ loopOwner[bounds[1]] = "CONTEXT_VARIABLE"
                    /\ old = bounds[1]
        BY <1>1, <3>1 DEF LoopInv, FirstOK, old
      <4>3. fromLiteral <=> loopOwner'[bounds[1]] = "VALUE_TOKEN"
        BY <2>4, <4>1, <4>2
      <4>4. CASE turns = 0
        <5>1. loopOwner[bounds[1]] \in LoopTags
          BY <2>1, <4>1
        <5> QED
          BY <1>3, <2>4, <2>5, <4>1, <4>2, <4>4, <5>1 DEF LoopTags
      <4>5. CASE turns >= 1
        BY <2>4, <4>1, <4>2, <4>3, <4>5
      <4> QED
        BY <2>1, <4>3, <4>4, <4>5
    <3> QED
      BY <1>3, <2>1, <3>1 DEF FirstOK
  <2>9. TempsOK'
    <3>1. \A v \in LoopValues :
             loopOwner'[v] = "INTERPRETER" => loopOwner[v] = "INTERPRETER" /\ v # counter
      BY <2>1, <2>2, <2>4 DEF LoopValues
    <3>2. LoopValues' = LoopValues
      BY <2>4 DEF LoopValues
    <3>3. InLoop /\ loopPhase' = "body" /\ bounds' = bounds /\ counter' = counter
      BY <1>1, <1>3
    <3> QED
      BY <1>1, <3>1, <3>2, <3>3 DEF LoopInv, TempsOK
  <2>10. ASSUME Calm'
         PROVE  VariablesLive' /\ BoundsLive' /\ OthersApart' /\ LoopVariableApart' /\ CounterApart'
    <3>1. Calm /\ WrittenBounds' = WrittenBounds /\ (turns = 0 \/ fromLiteral)
      <4>1. turns' < 2 \/ fromLiteral'
        BY <2>10 DEF Calm
      <4> QED
        BY <1>3, <2>1, <2>10, <4>1, CalmBefore
    <3>2. VariablesLive /\ BoundsLive /\ OthersApart /\ LoopVariableApart /\ CounterApart
      BY <1>1, <3>1 DEF LoopInv, CalmOK
    <3>3. \A i \in 1..3 : bounds[i] \in 1..Len(loopOwner) /\ loopOwner[bounds[i]] # "freed"
      BY <2>1, <3>2 DEF BoundsLive, Live, Missing
    \* The value the loop variable leaves is held by nothing else, or stays.
    <3>4. (old # Missing /\ loopOwner[old] = "CONTEXT_VARIABLE") =>
             /\ \A i \in 1..3 : old # bounds[i]
             /\ \A m \in LoopNames \ {LoopVariable} : loopSymbols[m] # old
             /\ old # counter
      BY <1>1, <3>1, <3>2 DEF LoopVariableApart, Own, old
    <3>5. old # Missing => old \in 1..Len(loopOwner) /\ loopOwner[old] \in BoundTags
      BY <2>1, <3>2 DEF VariablesLive, Missing, old
    <3>6. loopOwner'[counter] \in BoundTags
      BY <2>1, <2>2, <2>4, <3>4, <3>5 DEF BoundTags, LoopTags, Missing
    <3>7. VariablesLive'
      <4>1. ASSUME NEW n \in LoopNames \ {LoopVariable}, loopSymbols[n] # Missing
            PROVE  loopOwner'[loopSymbols[n]] \in BoundTags
        <5>1. loopSymbols[n] \in 1..Len(loopOwner) /\ loopOwner[loopSymbols[n]] \in BoundTags
          BY <2>1, <3>2, <4>1 DEF VariablesLive, Missing
        <5> QED
          BY <2>4, <3>4, <4>1, <5>1 DEF BoundTags, Missing
      <4> QED
        BY <2>5, <3>6, <4>1 DEF VariablesLive
    <3>8. BoundsLive'
      <4>1. \A i \in 1..3 : loopOwner'[bounds[i]] # "freed"
        BY <2>4, <3>3, <3>4, <3>5 DEF BoundTags, Missing
      <4> QED
        BY <1>3, <2>2, <3>3, <3>6, <4>1 DEF BoundsLive, Live, BoundTags, Missing
    <3>9. OthersApart'
      BY <1>3, <2>5, <3>1, <3>2 DEF OthersApart, Own
    <3>10. LoopVariableApart'
      <4>1. CASE turns = 0
        <5>1. bounds[1] # Missing /\ counter = bounds[1]
          BY <1>1, <3>3, <4>1 DEF LoopInv, FirstOK, Missing
        <5>2. fromLiteral => loopOwner'[counter] = "VALUE_TOKEN"
          BY <1>1, <1>3, <2>8, <5>1 DEF FirstOK
        <5> QED
          BY <1>3, <2>5, <4>1, <5>2 DEF LoopVariableApart
      <4>2. CASE turns >= 1
        <5>1. /\ \A i \in 1..3 : counter # bounds[i]
              /\ \A n \in LoopNames : counter # loopSymbols[n]
          BY <1>1, <3>2, <4>2 DEF CounterApart
        <5> QED
          BY <1>3, <2>5, <5>1 DEF LoopVariableApart, Own
      <4> QED
        BY <2>1, <4>1, <4>2
    <3>11. CounterApart'
      BY <1>3, <2>1, <3>6 DEF CounterApart
    <3> QED
      BY <3>7, <3>8, <3>9, <3>10, <3>11
  <2>11. CalmOK'
    BY <1>3, <2>10 DEF CalmOK
  <2> QED
    BY <2>6, <2>7, <2>8, <2>9, <2>11 DEF LoopInv
<1> QED
  BY <1>2, <1>3 DEF EnterBody, Touches

LEMMA BodyAssignKeeps ==
  ASSUME LoopInv, NEW n \in LoopNames, NEW k \in {"literal", "expression"}, AssignInBody(n, k)
  PROVE  LoopInv'
<1> DEFINE old == loopSymbols[n]
           v   == Len(loopOwner) + 1
           o   == Append(loopOwner, Tag[k])
<1>1. loopPhase = "body" /\ InLoop
  BY DEF AssignInBody, InLoop
<1>2. CASE loopPhase' = "undefined" /\ UNCHANGED loopState
           /\ \E w \in Current(n) : ~Live(loopOwner, w)
  <2>1. ~Calm
    BY <1>1, <1>2, CalmReads
  <2> QED
    BY <1>1, <1>2, <2>1, PhaseKeeps
<1>3. CASE /\ SetSymbol(n, v, o)
           /\ assigned' = Append(assigned, n)
           /\ UNCHANGED <<written, bounds, counter, fromLiteral, turns, loopPhase>>
  <2>1. /\ LoopTypes /\ loopOwner \in Seq(LoopTags) /\ old \in 0..Len(loopOwner)
        /\ loopSymbols \in [LoopNames -> 0..Len(loopOwner)]
        /\ bounds \in [1..3 -> 0..Len(loopOwner)] /\ counter \in 0..Len(loopOwner)
        /\ turns \in Nat /\ Len(loopOwner) \in Nat /\ written \in [1..3 -> BoundKinds]
    BY <1>1 DEF LoopInv, LoopTypes
  <2>2. /\ o \in Seq(LoopTags) /\ Len(o) = v /\ o[v] \in {"VALUE_TOKEN", "INTERPRETER"}
        /\ \A w \in 1..Len(loopOwner) : o[w] = loopOwner[w]
    <3>1. Tag[k] \in {"VALUE_TOKEN", "INTERPRETER"}
      BY DEF Tag
    <3> QED
      BY <2>1, <3>1, AppendedTags DEF LoopTags
  <2>3. loopSymbols' = [loopSymbols EXCEPT ![n] = v] /\ loopOwner' = Replaced(Raised(o, v), old)
    BY <1>3 DEF SetSymbol
  <2> HIDE DEF o
  <2>4. /\ loopOwner' \in Seq(LoopTags) /\ Len(loopOwner') = v
        /\ \A w \in 1..v :
             LET raised == IF w = v /\ o[w] = "INTERPRETER" THEN "CONTEXT_VARIABLE" ELSE o[w]
             IN loopOwner'[w] =
                  IF w = old /\ raised = "CONTEXT_VARIABLE" THEN "freed" ELSE raised
    <3>1. v \in 1..Len(o) /\ old \in 0..Len(o)
      BY <2>1, <2>2
    <3> QED
      BY <2>2, <2>3, <3>1, SetTags
  <2>5. /\ loopSymbols'[n] = v
        /\ \A m \in LoopNames \ {n} : loopSymbols'[m] = loopSymbols[m]
    BY <2>1, <2>3
  <2>6. /\ loopOwner'[v] \in BoundTags
        /\ \A w \in 1..Len(loopOwner) :
             loopOwner'[w] = IF w = old /\ loopOwner[w] = "CONTEXT_VARIABLE" THEN "freed"
                             ELSE loopOwner[w]
    BY <2>1, <2>2, <2>4 DEF BoundTags
  <2> HIDE DEF old
  <2>7. LoopTypes'
    <3>1. assigned' \in Seq(LoopNames)
      BY <1>3, <2>1 DEF LoopTypes
    <3> QED
      BY <1>1, <1>3, <2>1, <2>3, <2>4, <3>1 DEF LoopTypes
  <2>8. LineOK' /\ BodyTurns'
    BY <1>1, <1>3 DEF LineOK, BodyTurns, LoopInv
  <2>9. FirstOK'
    <3>1. ASSUME bounds[1] # Missing
          PROVE  /\ fromLiteral <=> loopOwner'[bounds[1]] = "VALUE_TOKEN"
                 /\ turns = 0 => counter = bounds[1]
                 /\ (~fromLiteral /\ turns >= 1) =>
                       \/ loopOwner'[bounds[1]] = "freed"
                       \/ /\ turns = 1 /\ loopOwner'[bounds[1]] = "CONTEXT_VARIABLE"
                          /\ loopSymbols'[LoopVariable] = bounds[1]
      <4>1. bounds[1] \in 1..Len(loopOwner)
        BY <2>1, <3>1 DEF Missing
      <4>2. /\ fromLiteral <=> loopOwner[bounds[1]] = "VALUE_TOKEN"
            /\ turns = 0 => counter = bounds[1]
            /\ (~fromLiteral /\ turns >= 1) =>
                 \/ loopOwner[bounds[1]] = "freed"
                 \/ /\ turns = 1 /\ loopOwner[bounds[1]] = "CONTEXT_VARIABLE"
                    /\ loopSymbols[LoopVariable] = bounds[1]
        BY <1>1, <3>1 DEF LoopInv, FirstOK
      <4>3. LoopVariable \in LoopNames
        BY DEF LoopNames
      <4> QED
        BY <2>5, <2>6, <4>1, <4>2, <4>3 DEF old
    <3> QED
      BY <1>3, <3>1 DEF FirstOK
  <2>10. TempsOK'
    <3>1. ASSUME \A i \in 1..3 : bounds[i] # Missing, NEW w \in 1..v, loopOwner'[w] = "INTERPRETER"
          PROVE  w = counter \/ \E i \in 1..3 : w = bounds[i]
      <4>1. w \in 1..Len(loopOwner)
        BY <2>1, <2>6, <3>1 DEF BoundTags
      <4>2. loopOwner[w] = "INTERPRETER"
        BY <2>6, <3>1, <4>1
      <4>3. w \in LoopValues
        BY <2>1, <4>1 DEF LoopValues
      <4> QED
        BY <1>1, <3>1, <4>2, <4>3 DEF LoopInv, TempsOK
    <3>2. LoopValues' = 1..v
      BY <2>4 DEF LoopValues
    <3> QED
      BY <1>1, <1>3, <3>1, <3>2 DEF TempsOK
  <2>11. ASSUME Calm'
         PROVE  VariablesLive' /\ BoundsLive' /\ OthersApart' /\ LoopVariableApart' /\ CounterApart'
    <3>1. Calm /\ WrittenBounds' = WrittenBounds
      BY <1>3, <2>1, <2>11, CalmBefore
    <3>2. VariablesLive /\ BoundsLive /\ OthersApart /\ LoopVariableApart /\ CounterApart
      BY <1>1, <3>1 DEF LoopInv, CalmOK
    <3>3. n \notin WrittenBounds /\ n # LoopVariable
      <4>1. Len(assigned) + 1 \in DOMAIN assigned' /\ assigned'[Len(assigned) + 1] = n
        BY <1>3, <2>1 DEF LoopTypes
      <4> QED
        BY <2>11, <3>1, <4>1 DEF Calm
    <3>4. old # Missing =>
            /\ \A i \in 1..3 : old # bounds[i]
            /\ \A m \in LoopNames \ {n} : loopSymbols[m] # old
            /\ old # counter
      BY <3>2, <3>3 DEF OthersApart, Own, old
    <3>5. \A m \in LoopNames \ {n} : loopSymbols[m] # Missing =>
             loopSymbols[m] \in 1..Len(loopOwner)
             /\ loopOwner'[loopSymbols[m]] = loopOwner[loopSymbols[m]]
      <4>1. ASSUME NEW m \in LoopNames \ {n}, loopSymbols[m] # Missing
            PROVE  loopSymbols[m] \in 1..Len(loopOwner)
                   /\ loopOwner'[loopSymbols[m]] = loopOwner[loopSymbols[m]]
        <5>1. loopSymbols[m] \in 1..Len(loopOwner)
          BY <2>1, <4>1 DEF Missing
        <5> QED
          BY <2>6, <3>4, <4>1, <5>1 DEF Missing
      <4> QED
        BY <4>1
    <3>6. VariablesLive'
      BY <2>5, <2>6, <3>2, <3>5 DEF VariablesLive
    <3>7. BoundsLive'
      <4>1. /\ \A i \in 1..3 : bounds[i] \in 1..Len(loopOwner) /\ loopOwner[bounds[i]] # "freed"
            /\ counter \in 1..Len(loopOwner) /\ loopOwner[counter] # "freed"
        BY <2>1, <3>2 DEF BoundsLive, Live, Missing
      <4>2. /\ \A i \in 1..3 : loopOwner'[bounds[i]] # "freed"
            /\ loopOwner'[counter] # "freed"
        BY <2>6, <3>4, <4>1 DEF Missing
      <4> QED
        BY <1>3, <4>1, <4>2 DEF BoundsLive, Live, Missing
    <3>8. ASSUME NEW m \in LoopNames \ {n}, loopSymbols[m] # Missing, Own(m)
          PROVE  Own(m)'
      <4>1. loopSymbols'[m] = loopSymbols[m] /\ loopSymbols[m] # v
        BY <2>1, <2>5, <3>5, <3>8
      <4> QED
        BY <1>3, <2>5, <3>8, <4>1 DEF Own
    <3>9. Own(n)'
      <4>1. \A m \in LoopNames : loopSymbols[m] # v
        BY <2>1
      <4>2. \A i \in 1..3 : bounds[i] # v
        BY <2>1
      <4> QED
        BY <1>3, <2>5, <4>1, <4>2 DEF Own
    <3>10. OthersApart'
      <4>1. v # counter
        BY <2>1
      <4> QED
        BY <1>3, <2>5, <3>1, <3>2, <3>8, <3>9, <4>1 DEF OthersApart
    <3>11. LoopVariableApart'
      <4>1. LoopVariable \in LoopNames \ {n}
        BY <3>3 DEF LoopNames
      <4> QED
        BY <1>1, <1>3, <2>5, <3>2, <3>5, <3>8, <4>1 DEF LoopVariableApart
    <3>12. CounterApart'
      <4>1. counter \in 1..Len(loopOwner) /\ loopOwner[counter] \in BoundTags
        BY <1>1, <2>1, <3>2 DEF CounterApart, BoundsLive, Live, Missing
      <4>2. loopOwner'[counter] = loopOwner[counter]
        BY <2>6, <3>4, <4>1 DEF Missing
      <4> QED
        BY <1>1, <1>3, <3>2, <4>1, <4>2 DEF CounterApart
    <3> QED
      BY <3>6, <3>7, <3>10, <3>11, <3>12
  <2>12. CalmOK'
    BY <1>1, <1>3, <2>11 DEF CalmOK
  <2> QED
    BY <2>7, <2>8, <2>9, <2>10, <2>12 DEF LoopInv
<1> QED
  BY <1>2, <1>3 DEF AssignInBody, Touches

LEMMA StepKeeps ==
  ASSUME LoopInv, NEW next \in {"test", "leave"}, loopPhase = "body", Step(next)
  PROVE  LoopInv'
<1> DEFINE d == Deleted(loopOwner, counter)
           c == Len(loopOwner) + 1
<1>1. InLoop
  BY DEF InLoop
<1>2. CASE loopPhase' = "undefined" /\ UNCHANGED loopState
           /\ \E v \in {counter, bounds[3]} : ~Live(loopOwner, v)
  <2>1. ~Calm
    BY <1>1, <1>2, CalmReads
  <2> QED
    BY <1>1, <1>2, <2>1, PhaseKeeps
<1>3. CASE /\ \A v \in {counter, bounds[3]} : Live(loopOwner, v)
           /\ loopOwner' = Append(d, "INTERPRETER")
           /\ counter' = c /\ loopPhase' = next
           /\ UNCHANGED <<loopSymbols, written, bounds, fromLiteral, turns, assigned>>
  <2>1. /\ LoopTypes /\ loopOwner \in Seq(LoopTags)
        /\ loopSymbols \in [LoopNames -> 0..Len(loopOwner)]
        /\ bounds \in [1..3 -> 0..Len(loopOwner)] /\ counter \in 0..Len(loopOwner)
        /\ turns \in Nat /\ Len(loopOwner) \in Nat /\ written \in [1..3 -> BoundKinds]
    BY DEF LoopInv, LoopTypes
  <2>2. counter \in 1..Len(loopOwner)
    BY <1>3, <2>1 DEF Live, Missing
  <2>3. /\ d \in Seq(LoopTags) /\ Len(d) = Len(loopOwner)
        /\ \A w \in 1..Len(loopOwner) :
             d[w] = IF w = counter /\ loopOwner[counter] = "INTERPRETER" THEN "freed"
                    ELSE loopOwner[w]
    BY <2>1, <2>2, DeletedTags
  <2> HIDE DEF d
  <2>4. /\ loopOwner' \in Seq(LoopTags) /\ Len(loopOwner') = c
        /\ loopOwner'[c] = "INTERPRETER"
        /\ \A w \in 1..Len(loopOwner) :
             loopOwner'[w] = IF w = counter /\ loopOwner[counter] = "INTERPRETER" THEN "freed"
                             ELSE loopOwner[w]
    BY <1>3, <2>3, AppendedTags DEF LoopTags
  <2>5. LoopTypes'
    <3>1. \A x \in 0..Len(loopOwner) : x \in 0..c
      BY <2>1
    <3>2. c \in 0..c
      BY <2>1
    <3>3. loopSymbols \in [LoopNames -> 0..c] /\ bounds \in [1..3 -> 0..c]
      BY <2>1, <3>1
    <3> QED
      BY <1>3, <2>1, <2>4, <3>2, <3>3 DEF LoopTypes
  <2>6. LineOK'
    BY <1>3 DEF LineOK
  <2>8. FirstOK'
    <3>1. ASSUME bounds[1] # Missing
          PROVE  /\ fromLiteral <=> loopOwner'[bounds[1]] = "VALUE_TOKEN"
                 /\ turns = 0 => c = bounds[1]
                 /\ (~fromLiteral /\ turns >= 1) =>
                       \/ loopOwner'[bounds[1]] = "freed"
                       \/ /\ turns = 1 /\ loopOwner'[bounds[1]] = "CONTEXT_VARIABLE"
                          /\ loopSymbols[LoopVariable] = bounds[1]
      <4>1. bounds[1] \in 1..Len(loopOwner)
        BY <2>1, <3>1 DEF Missing
      <4>2. /\ fromLiteral <=> loopOwner[bounds[1]] = "VALUE_TOKEN"
            /\ (~fromLiteral /\ turns >= 1) =>
                 \/ loopOwner[bounds[1]] = "freed"
                 \/ /\ turns = 1 /\ loopOwner[bounds[1]] = "CONTEXT_VARIABLE"
                    /\ loopSymbols[LoopVariable] = bounds[1]
        BY <3>1 DEF LoopInv, FirstOK
      <4>3. turns >= 1
        BY DEF LoopInv, BodyTurns
      <4> QED
        BY <2>1, <2>4, <4>1, <4>2, <4>3
    <3> QED
      BY <1>3, <3>1 DEF FirstOK
  <2>9. TempsOK'
    <3>1. ASSUME \A i \in 1..3 : bounds[i] # Missing, NEW w \in 1..c, loopOwner'[w] = "INTERPRETER"
          PROVE  w = c \/ \E i \in 1..3 : w = bounds[i]
      <4>1. CASE w \in 1..Len(loopOwner)
        <5>1. loopOwner[w] = "INTERPRETER" /\ w # counter
          BY <2>4, <3>1, <4>1
        <5>2. w \in LoopValues
          BY <2>1, <4>1 DEF LoopValues
        <5> QED
          BY <1>1, <3>1, <5>1, <5>2 DEF LoopInv, TempsOK
      <4>2. CASE w \notin 1..Len(loopOwner)
        BY <2>1, <4>2
      <4> QED
        BY <4>1, <4>2
    <3>2. LoopValues' = 1..c
      BY <2>4 DEF LoopValues
    <3> QED
      BY <1>3, <3>1, <3>2 DEF TempsOK
  <2>10. BodyTurns'
    BY <1>3 DEF BodyTurns
  <2>11. ASSUME Calm'
         PROVE  VariablesLive' /\ BoundsLive' /\ OthersApart' /\ LoopVariableApart' /\ CounterApart'
    <3>1. Calm /\ WrittenBounds' = WrittenBounds
      BY <1>3, <2>1, <2>11, CalmBefore
    <3>2. VariablesLive /\ BoundsLive /\ OthersApart /\ LoopVariableApart
          /\ loopOwner[counter] \in BoundTags
      BY <1>1, <3>1 DEF LoopInv, CalmOK, CounterApart
    <3>3. \A w \in 1..Len(loopOwner) : loopOwner'[w] = loopOwner[w]
      BY <2>4, <3>2 DEF BoundTags
    <3>4. \A n \in LoopNames : loopSymbols[n] # Missing => loopSymbols[n] \in 1..Len(loopOwner)
      BY <2>1 DEF Missing
    <3>5. \A i \in 1..3 : bounds[i] \in 1..Len(loopOwner) /\ loopOwner[bounds[i]] # "freed"
      BY <2>1, <3>2 DEF BoundsLive, Live, Missing
    <3>6. VariablesLive'
      BY <1>3, <3>2, <3>3, <3>4 DEF VariablesLive
    <3>7. BoundsLive'
      BY <1>3, <2>1, <2>4, <3>3, <3>5 DEF BoundsLive, Live, Missing
    <3>8. (\A n \in LoopNames : c # loopSymbols[n]) /\ (\A i \in 1..3 : c # bounds[i])
      BY <2>1
    <3>9. \A n \in LoopNames : Own(n)' <=> Own(n)
      BY <1>3 DEF Own
    <3>10. OthersApart'
      BY <1>3, <3>1, <3>2, <3>8, <3>9 DEF OthersApart
    <3>11. LoopVariableApart'
      BY <1>3, <3>2, <3>3, <3>4, <3>8, <3>9 DEF LoopVariableApart, LoopNames
    <3>12. CounterApart'
      BY <1>3, <3>8 DEF CounterApart
    <3> QED
      BY <3>6, <3>7, <3>10, <3>11, <3>12
  <2>12. CalmOK'
    BY <1>3, <2>11 DEF CalmOK
  <2> QED
    BY <2>5, <2>6, <2>8, <2>9, <2>10, <2>12 DEF LoopInv
<1> QED
  BY <1>2, <1>3 DEF Step, Touches

LEMMA CleanUpKeeps ==
  ASSUME LoopInv, CleanUp
  PROVE  LoopInv'
<1> DEFINE last == IF counter = bounds[1] THEN {} ELSE {counter}
           held == {bounds[1], bounds[2], bounds[3]} \cup last
<1>1. InLoop /\ loopPhase = "leave"
  BY DEF InLoop, CleanUp
<1>2. CASE loopPhase' = "undefined" /\ UNCHANGED loopState
           /\ \E v \in held : ~Live(loopOwner, v)
  <2>1. ~Calm
    BY <1>1, <1>2, CalmReads
  <2> QED
    BY <1>1, <1>2, <2>1, PhaseKeeps
<1>3. CASE /\ \A v \in held : Live(loopOwner, v)
           /\ loopOwner' = [v \in LoopValues |-> IF v \in held THEN Deleted(loopOwner, v)[v]
                                                 ELSE loopOwner[v]]
           /\ loopPhase' = "ended"
           /\ UNCHANGED <<loopSymbols, written, bounds, counter, fromLiteral, turns, assigned>>
  <2>1. /\ LoopTypes /\ loopOwner \in Seq(LoopTags)
        /\ loopSymbols \in [LoopNames -> 0..Len(loopOwner)]
        /\ bounds \in [1..3 -> 0..Len(loopOwner)] /\ counter \in 0..Len(loopOwner)
        /\ turns \in Nat /\ Len(loopOwner) \in Nat /\ written \in [1..3 -> BoundKinds]
    BY <1>1 DEF LoopInv, LoopTypes
  <2>2. LoopValues = 1..Len(loopOwner)
    BY <2>1 DEF LoopValues
  <2>3. \A w \in 1..Len(loopOwner) :
          loopOwner'[w] = IF w \in held /\ loopOwner[w] = "INTERPRETER" THEN "freed"
                          ELSE loopOwner[w]
    BY <1>3, <2>1, <2>2, DeletedTags
  <2>4. loopOwner' \in Seq(LoopTags) /\ Len(loopOwner') = Len(loopOwner)
    <3>1. \A w \in 1..Len(loopOwner) : loopOwner'[w] \in LoopTags
      BY <2>1, <2>3 DEF LoopTags
    <3>2. loopOwner' \in [1..Len(loopOwner) -> LoopTags]
      BY <1>3, <2>2, <3>1
    <3> QED
      BY <2>1, <3>2
  <2>5. LoopTypes' /\ LineOK' /\ BodyTurns'
    BY <1>3, <2>1, <2>4 DEF LoopTypes, LineOK, BodyTurns
  <2>6. bounds[1] # Missing /\ loopOwner[bounds[1]] # "freed" /\ bounds[1] \in 1..Len(loopOwner)
        /\ \A i \in 1..3 : bounds[i] # Missing
    BY <1>3, <2>1 DEF Live, Missing
  <2>7. /\ fromLiteral <=> loopOwner[bounds[1]] = "VALUE_TOKEN"
        /\ turns = 0 => counter = bounds[1]
        /\ (~fromLiteral /\ turns >= 1) =>
             /\ turns = 1 /\ loopOwner[bounds[1]] = "CONTEXT_VARIABLE"
             /\ loopSymbols[LoopVariable] = bounds[1]
    BY <1>1, <2>6 DEF LoopInv, FirstOK
  <2>8. FirstOK'
    <3>1. loopOwner'[bounds[1]] = "VALUE_TOKEN" <=> loopOwner[bounds[1]] = "VALUE_TOKEN"
      BY <2>3, <2>6
    <3>2. loopOwner[bounds[1]] = "CONTEXT_VARIABLE" => loopOwner'[bounds[1]] = "CONTEXT_VARIABLE"
      BY <2>3, <2>6
    <3> QED
      BY <1>3, <2>7, <3>1, <3>2 DEF FirstOK
  <2>9. TempsOK'
    <3>1. turns < 2 \/ fromLiteral
      BY <2>1, <2>7
    <3>2. ASSUME NEW w \in 1..Len(loopOwner)
          PROVE  loopOwner'[w] # "INTERPRETER"
      <4>1. loopOwner[w] = "INTERPRETER" => w \in held
        BY <1>1, <2>2, <2>6 DEF LoopInv, TempsOK
      <4> QED
        BY <2>3, <4>1
    <3>3. LoopValues' = 1..Len(loopOwner)
      BY <2>4 DEF LoopValues
    <3> QED
      BY <1>3, <3>1, <3>2, <3>3 DEF TempsOK, InLoop
  <2>10. CalmOK'
    <3>1. Calm' => VariablesLive
      BY <1>1, <1>3 DEF Calm, WrittenBounds, LoopInv, CalmOK
    <3>2. VariablesLive => VariablesLive'
      <4>1. \A n \in LoopNames : loopSymbols[n] # Missing => loopSymbols[n] \in 1..Len(loopOwner)
        BY <2>1 DEF Missing
      <4> QED
        BY <1>3, <2>3, <4>1 DEF VariablesLive, BoundTags
    <3> QED
      BY <1>3, <3>1, <3>2 DEF CalmOK, InLoop
  <2> QED
    BY <2>5, <2>8, <2>9, <2>10 DEF LoopInv
<1> QED
  BY <1>2, <1>3 DEF CleanUp, Touches

\* An operand is evaluated: a value is made for it, or one of a variable is taken.
LEMMA EvaluatedTags ==
  ASSUME NEW o \in Seq(LoopTags), NEW k \in BoundKinds
  PROVE  /\ Evaluated(o, k) \in Seq(LoopTags) /\ Len(Evaluated(o, k)) \in {Len(o), Len(o) + 1}
         /\ \A w \in 1..Len(o) : Evaluated(o, k)[w] = o[w]
         /\ Len(Evaluated(o, k)) = Len(o) + 1 =>
              /\ k = "FLOAT" \/ Pointer(o, k) = Len(o) + 1
              /\ Evaluated(o, k)[Len(o) + 1] \in {"VALUE_TOKEN", "INTERPRETER"}
         /\ k = "FLOAT" => Pointer(o, k) = Missing
         /\ (k # "FLOAT" /\ k \in LoopNames) => Pointer(o, k) = loopSymbols[k]
         /\ (k # "FLOAT" /\ k \notin LoopNames) =>
              Pointer(o, k) = Len(o) + 1 /\ Len(Evaluated(o, k)) = Len(o) + 1
<1>1. CASE k \in LoopNames
  <2>1. Evaluated(o, k) = o
    BY <1>1 DEF Evaluated
  <2> QED
    BY <1>1, <2>1 DEF Pointer
<1>2. CASE k \notin LoopNames
  <2>1. Tag[k] \in {"VALUE_TOKEN", "INTERPRETER"} /\ Tag[k] \in LoopTags
    BY <1>2 DEF BoundKinds, Tag, LoopTags
  <2>2. Evaluated(o, k) = Append(o, Tag[k])
    BY <1>2 DEF Evaluated
  <2> QED
    BY <1>2, <2>1, <2>2, AppendedTags DEF Pointer
<1> QED
  BY <1>1, <1>2

LEMMA PopKeeps ==
  ASSUME LoopInv, NEW from \in BoundKinds, NEW to \in BoundKinds, NEW step \in BoundKinds,
         PopBounds(from, to, step)
  PROVE  LoopInv'
<1>1. loopPhase = "line" /\ loopPhase' = "test"
  BY DEF PopBounds
<1>2. PICK ops, o1, o2, o3 :
        /\ ops = <<from, to, step>>
        /\ o1 = Evaluated(loopOwner, from) /\ o2 = Evaluated(o1, to) /\ o3 = Evaluated(o2, step)
  OBVIOUS
<1>3. /\ \A i \in 1..3 : ops[i] \in LoopNames => loopSymbols[ops[i]] # Missing
      /\ written' = ops /\ loopOwner' = o3
      /\ bounds' = <<Pointer(loopOwner, from), Pointer(o1, to), Pointer(o2, step)>>
      /\ counter' = bounds'[1]
      /\ fromLiteral' = (bounds'[1] # Missing /\ loopOwner'[bounds'[1]] = "VALUE_TOKEN")
      /\ UNCHANGED <<loopSymbols, turns, assigned>>
  BY <1>2 DEF PopBounds
<1>4. /\ loopOwner \in Seq(LoopTags) /\ loopSymbols \in [LoopNames -> 0..Len(loopOwner)]
      /\ turns = 0 /\ assigned = <<>> /\ Len(loopOwner) \in Nat
      /\ \A v \in 1..Len(loopOwner) : loopOwner[v] \in BoundTags
      /\ \A n, m \in LoopNames :
           loopSymbols[n] = loopSymbols[m] /\ loopSymbols[n] # Missing => n = m
  BY <1>1 DEF LoopInv, LoopTypes, LineOK, LoopValues, BoundTags
<1> DEFINE L == Len(loopOwner)
<1>5. /\ o1 \in Seq(LoopTags) /\ o2 \in Seq(LoopTags) /\ o3 \in Seq(LoopTags)
      /\ Len(o1) \in {L, L + 1} /\ Len(o2) \in {Len(o1), Len(o1) + 1}
      /\ Len(o3) \in {Len(o2), Len(o2) + 1}
  BY <1>2, <1>4, EvaluatedTags
\* What an operand is popped to.
<1> DEFINE Bound(i, b) ==
             /\ ops[i] = "FLOAT" => b = Missing
             /\ (ops[i] # "FLOAT" /\ ops[i] \in LoopNames) => b = loopSymbols[ops[i]]
             /\ (ops[i] # "FLOAT" /\ ops[i] \notin LoopNames) =>
                  b \in (L + 1)..Len(o3) /\ o3[b] \in {"VALUE_TOKEN", "INTERPRETER"}
<1>6. /\ Bound(1, bounds'[1]) /\ Bound(2, bounds'[2]) /\ Bound(3, bounds'[3])
      /\ \A w \in (L + 1)..Len(o3) :
           (\E i \in 1..3 : bounds'[i] = w) \/ \E i \in 1..3 : ops[i] = "FLOAT"
      /\ \A w \in 1..L : o3[w] = loopOwner[w]
  <2>1. /\ ops[1] = from /\ ops[2] = to /\ ops[3] = step
        /\ bounds'[1] = Pointer(loopOwner, from) /\ bounds'[2] = Pointer(o1, to)
        /\ bounds'[3] = Pointer(o2, step)
    BY <1>2, <1>3
  <2>2. /\ \A w \in 1..L : o1[w] = loopOwner[w]
        /\ Len(o1) = L + 1 => /\ from = "FLOAT" \/ bounds'[1] = L + 1
                              /\ o1[L + 1] \in {"VALUE_TOKEN", "INTERPRETER"}
        /\ from = "FLOAT" => bounds'[1] = Missing
        /\ (from # "FLOAT" /\ from \in LoopNames) => bounds'[1] = loopSymbols[from]
        /\ (from # "FLOAT" /\ from \notin LoopNames) => bounds'[1] = L + 1 /\ Len(o1) = L + 1
    BY <1>2, <1>4, <2>1, EvaluatedTags
  <2>3. /\ \A w \in 1..Len(o1) : o2[w] = o1[w]
        /\ Len(o2) = Len(o1) + 1 => /\ to = "FLOAT" \/ bounds'[2] = Len(o1) + 1
                                    /\ o2[Len(o1) + 1] \in {"VALUE_TOKEN", "INTERPRETER"}
        /\ to = "FLOAT" => bounds'[2] = Missing
        /\ (to # "FLOAT" /\ to \in LoopNames) => bounds'[2] = loopSymbols[to]
        /\ (to # "FLOAT" /\ to \notin LoopNames) =>
             bounds'[2] = Len(o1) + 1 /\ Len(o2) = Len(o1) + 1
    <3>1. o1 \in Seq(LoopTags) /\ o2 = Evaluated(o1, to) /\ bounds'[2] = Pointer(o1, to)
      BY <1>2, <1>5, <2>1
    <3> QED
      BY <3>1, EvaluatedTags
  <2>4. /\ \A w \in 1..Len(o2) : o3[w] = o2[w]
        /\ Len(o3) = Len(o2) + 1 => /\ step = "FLOAT" \/ bounds'[3] = Len(o2) + 1
                                    /\ o3[Len(o2) + 1] \in {"VALUE_TOKEN", "INTERPRETER"}
        /\ step = "FLOAT" => bounds'[3] = Missing
        /\ (step # "FLOAT" /\ step \in LoopNames) => bounds'[3] = loopSymbols[step]
        /\ (step # "FLOAT" /\ step \notin LoopNames) =>
             bounds'[3] = Len(o2) + 1 /\ Len(o3) = Len(o2) + 1
    <3>1. o2 \in Seq(LoopTags) /\ o3 = Evaluated(o2, step) /\ bounds'[3] = Pointer(o2, step)
      BY <1>2, <1>5, <2>1
    <3> QED
      BY <3>1, EvaluatedTags
  <2>5. \A w \in 1..L : o3[w] = loopOwner[w]
    <3>1. L \in Nat /\ L <= Len(o1) /\ Len(o1) \in Nat
      BY <1>4, <1>5
    <3>2. Len(o1) <= Len(o2) /\ Len(o2) \in Nat
      BY <1>5, <3>1
    <3> QED
      BY <2>2, <2>3, <2>4, <3>1, <3>2
  <2>6. Bound(1, bounds'[1])
    BY <1>4, <1>5, <2>1, <2>2, <2>3, <2>4
  <2>7. Bound(2, bounds'[2])
    BY <1>4, <1>5, <2>1, <2>3, <2>4
  <2>8. Bound(3, bounds'[3])
    BY <1>4, <1>5, <2>1, <2>4
  <2>9. ASSUME NEW w \in (L + 1)..Len(o3)
        PROVE  (\E i \in 1..3 : bounds'[i] = w) \/ \E i \in 1..3 : ops[i] = "FLOAT"
    <3>1. \/ w = L + 1 /\ Len(o1) = L + 1
          \/ w = Len(o1) + 1 /\ Len(o2) = Len(o1) + 1
          \/ w = Len(o2) + 1 /\ Len(o3) = Len(o2) + 1
      BY <1>4, <1>5
    <3> QED
      BY <2>1, <2>2, <2>3, <2>4, <3>1
  <2> QED
    BY <2>5, <2>6, <2>7, <2>8, <2>9
<1>7. /\ ops \in [1..3 -> BoundKinds] /\ L \in Nat /\ Len(o3) \in Nat /\ L <= Len(o3)
      /\ ops[1] \in BoundKinds /\ ops[2] \in BoundKinds /\ ops[3] \in BoundKinds
  BY <1>2, <1>4, <1>5
<1>8. \A n \in LoopNames : loopSymbols[n] # Missing =>
         /\ loopSymbols[n] \in 1..L /\ o3[loopSymbols[n]] = loopOwner[loopSymbols[n]]
         /\ o3[loopSymbols[n]] \in BoundTags
  BY <1>4, <1>6 DEF Missing
<1> HIDE DEF L
\* One bound, whichever it is.
<1>9. ASSUME NEW i \in 1..3
      PROVE  /\ Bound(i, bounds'[i])
             /\ bounds'[i] \in 0..Len(o3)
             /\ ops[i] # "FLOAT" => Live(o3, bounds'[i])
             /\ \A n \in LoopNames :
                  (loopSymbols[n] # Missing /\ ops[i] # n) => loopSymbols[n] # bounds'[i]
  <2>1. Bound(i, bounds'[i])
    BY <1>6
  <2>2. ops[i] \in LoopNames => loopSymbols[ops[i]] # Missing
    BY <1>3
  <2>3. CASE ops[i] = "FLOAT"
    BY <1>7, <2>1, <2>3 DEF Missing
  <2>4. CASE ops[i] # "FLOAT" /\ ops[i] \in LoopNames
    <3>1. bounds'[i] = loopSymbols[ops[i]] /\ loopSymbols[ops[i]] # Missing
      BY <2>1, <2>2, <2>4
    <3>2. bounds'[i] \in 1..L /\ o3[bounds'[i]] \in BoundTags
      BY <1>8, <2>4, <3>1
    <3>3. \A n \in LoopNames :
            (loopSymbols[n] # Missing /\ ops[i] # n) => loopSymbols[n] # bounds'[i]
      BY <1>4, <2>4, <3>1
    <3> QED
      BY <1>7, <2>1, <2>4, <3>2, <3>3 DEF Live, Missing, BoundTags
  <2>5. CASE ops[i] # "FLOAT" /\ ops[i] \notin LoopNames
    <3>1. bounds'[i] \in (L + 1)..Len(o3) /\ o3[bounds'[i]] \in {"VALUE_TOKEN", "INTERPRETER"}
      BY <2>1, <2>5
    <3> QED
      BY <1>7, <1>8, <2>1, <2>5, <3>1 DEF Live, Missing
  <2> QED
    BY <2>3, <2>4, <2>5
<1> HIDE DEF Bound
<1>10. LoopTypes'
  <2>1. bounds' \in [1..3 -> 0..Len(o3)]
    <3>1. PICK a, b, c : bounds' = <<a, b, c>>
      BY <1>3
    <3>2. bounds'[1] \in 0..Len(o3) /\ bounds'[2] \in 0..Len(o3) /\ bounds'[3] \in 0..Len(o3)
      BY <1>9
    <3> QED
      BY <3>1, <3>2
  <2>2. loopSymbols \in [LoopNames -> 0..Len(o3)]
    <3>1. \A x \in 0..L : x \in 0..Len(o3)
      BY <1>7
    <3> QED
      BY <1>4, <3>1 DEF L
  <2>3. counter' \in 0..Len(o3) /\ fromLiteral' \in BOOLEAN
    BY <1>3, <1>9
  <2> QED
    BY <1>1, <1>3, <1>4, <1>5, <1>7, <2>1, <2>2, <2>3 DEF LoopTypes
<1>11. LineOK' /\ BodyTurns'
  BY <1>1 DEF LineOK, BodyTurns
<1>12. FirstOK'
  <2>1. turns' = 0 /\ counter' = bounds'[1]
    BY <1>3, <1>4
  <2>2. bounds'[1] # Missing => (fromLiteral' <=> loopOwner'[bounds'[1]] = "VALUE_TOKEN")
    BY <1>3
  <2>3. ~(turns' >= 1)
    BY <2>1
  <2> QED
    BY <2>1, <2>2, <2>3 DEF FirstOK
<1>13. TempsOK'
  <2>1. ASSUME \A i \in 1..3 : bounds'[i] # Missing, NEW w \in 1..Len(o3), o3[w] = "INTERPRETER"
        PROVE  \E i \in 1..3 : w = bounds'[i]
    <3>1. w \in (L + 1)..Len(o3)
      BY <1>4, <1>6, <1>7, <2>1 DEF BoundTags, L
    <3>2. \A i \in 1..3 : ops[i] # "FLOAT"
      BY <1>9, <2>1 DEF Bound
    <3> QED
      BY <1>6, <3>1, <3>2
  <2>2. LoopValues' = 1..Len(o3)
    BY <1>3, <1>5 DEF LoopValues
  <2> QED
    BY <1>1, <1>3, <2>1, <2>2 DEF TempsOK, InLoop
<1>14. ASSUME Calm'
       PROVE  VariablesLive' /\ BoundsLive' /\ OthersApart' /\ LoopVariableApart' /\ CounterApart'
  <2>1. WrittenBounds' = {ops[i] : i \in 1..3}
    BY <1>3, <1>7 DEF WrittenBounds
  <2>2. \A i \in 1..3 : ops[i] # "FLOAT" /\ ops[i] # LoopVariable
    BY <1>14, <2>1 DEF Calm
  <2>3. VariablesLive'
    BY <1>3, <1>8 DEF VariablesLive
  <2>4. BoundsLive'
    BY <1>3, <1>9, <2>2 DEF BoundsLive
  <2>5. ASSUME NEW n \in LoopNames, n \notin WrittenBounds', loopSymbols[n] # Missing
        PROVE  Own(n)' /\ loopSymbols'[n] # counter'
    <3>1. \A i \in 1..3 : loopSymbols[n] # bounds'[i]
      BY <1>9, <2>1, <2>5
    <3> QED
      BY <1>3, <1>4, <2>5, <3>1 DEF Own
  <2>6. OthersApart'
    BY <1>3, <2>5 DEF OthersApart
  <2>7. LoopVariableApart'
    <3>1. LoopVariable \in LoopNames /\ LoopVariable \notin WrittenBounds'
      BY <2>1, <2>2 DEF LoopNames
    <3> QED
      BY <1>3, <2>5, <3>1 DEF LoopVariableApart
  <2>8. CounterApart'
    BY <1>1, <1>3, <1>4 DEF CounterApart
  <2> QED
    BY <2>3, <2>4, <2>6, <2>7, <2>8
<1>15. CalmOK'
  BY <1>1, <1>14 DEF CalmOK
<1> QED
  BY <1>10, <1>11, <1>12, <1>13, <1>15 DEF LoopInv

-----------------------------------------------------------------------------
(* The invariant *)

LEMMA LoopInvInit ==
  ASSUME LoopInit
  PROVE  LoopInv
<1>1. PICK N \in Nat : N = Cardinality(LoopNames)
  <2>1. IsFiniteSet(LoopNames)
    BY LoopAssumption, FS_AddElement DEF LoopNames
  <2> QED
    BY <2>1, FS_CardinalityType
<1>2. loopOwner \in [1..N -> {"VALUE_TOKEN", "CONTEXT_VARIABLE"}]
  BY <1>1 DEF LoopInit
<1>3. loopOwner \in Seq(LoopTags) /\ Len(loopOwner) = N
      /\ \A v \in 1..N : loopOwner[v] \in {"VALUE_TOKEN", "CONTEXT_VARIABLE"}
  <2>1. loopOwner \in [1..N -> LoopTags]
    BY <1>2 DEF LoopTags
  <2> QED
    BY <1>2, <2>1
<1>4. PICK defined \in SUBSET LoopNames, number \in [LoopNames -> 1..N] :
        /\ \A n, k \in LoopNames : number[n] = number[k] => n = k
        /\ loopSymbols = [n \in LoopNames |-> IF n \in defined THEN number[n] ELSE Missing]
  BY <1>1 DEF LoopInit
<1>5. loopSymbols \in [LoopNames -> 0..N]
  BY <1>4 DEF Missing
<1>6. \A n, m \in LoopNames : loopSymbols[n] = loopSymbols[m] /\ loopSymbols[n] # Missing => n = m
  BY <1>4 DEF Missing
<1>7. /\ written = <<>> /\ turns = 0 /\ fromLiteral = FALSE /\ assigned = <<>>
      /\ loopPhase = "line"
  BY DEF LoopInit
<1>8. LoopTypes /\ LineOK
  <2>1. <<>> \in Seq(LoopNames)
    OBVIOUS
  <2>2. LoopTypes
    BY <1>3, <1>5, <1>7, <2>1 DEF LoopTypes
  <2>3. LoopValues = 1..N
    BY <1>3 DEF LoopValues
  <2> QED
    BY <1>3, <1>6, <2>2, <2>3 DEF LineOK
<1>9. VariablesLive
  BY <1>3, <1>5 DEF VariablesLive, BoundTags, Missing
<1> QED
  BY <1>7, <1>8, <1>9 DEF LoopInv, BodyTurns, FirstOK, TempsOK, CalmOK, InLoop

LEMMA LoopStep ==
  ASSUME LoopInv, LoopNext
  PROVE  LoopInv'
<1>1. CASE \E from, to, step \in BoundKinds : PopBounds(from, to, step)
  BY <1>1, PopKeeps
<1>2. CASE ZeroStep
  <2>1. InLoop /\ loopPhase # "line"
    BY <1>2 DEF ZeroStep, InLoop
  <2>2. \/ UNCHANGED loopState /\ loopPhase' = "failed"
        \/ UNCHANGED loopState /\ loopPhase' = "undefined" /\ ~Live(loopOwner, bounds[3])
    BY <1>2 DEF ZeroStep, Touches
  <2>3. Calm => Live(loopOwner, bounds[3])
    BY <2>1, CalmReads
  <2> QED
    BY <2>1, <2>2, <2>3, PhaseKeeps
<1>3. CASE EnterBody
  BY <1>3, EnterKeeps
<1>4. CASE LeaveLoop
  <2>1. InLoop /\ loopPhase # "line"
    BY <1>4 DEF LeaveLoop, InLoop
  <2>2. \/ UNCHANGED loopState /\ loopPhase' = "leave"
        \/ /\ UNCHANGED loopState /\ loopPhase' = "undefined"
           /\ \E v \in Compared : ~Live(loopOwner, v)
    BY <1>4 DEF LeaveLoop, Touches
  <2>3. Calm => \A v \in Compared : Live(loopOwner, v)
    BY <2>1, CalmReads DEF Compared
  <2> QED
    BY <2>1, <2>2, <2>3, PhaseKeeps
<1>5. ASSUME NEW n \in LoopNames, ReadVariable(n)
      PROVE  LoopInv'
  <2>1. UNCHANGED loopState /\ loopPhase' = "undefined" /\ loopPhase \in {"body", "ended"}
    BY <1>5 DEF ReadVariable, Touches
  <2>2. Calm => VariablesLive
    BY DEF LoopInv, CalmOK
  <2>3. VariablesLive => \A v \in Current(n) : Live(loopOwner, v)
    BY DEF VariablesLive, Current, Live, BoundTags
  <2>4. ~Calm
    BY <1>5, <2>2, <2>3 DEF ReadVariable
  <2> QED
    BY <2>1, <2>4, PhaseKeeps
<1>6. ASSUME NEW n \in LoopNames, NEW k \in {"literal", "expression"}, AssignInBody(n, k)
      PROVE  LoopInv'
  BY <1>6, BodyAssignKeeps
<1>7. CASE EndOfTurn \/ ReturnFromBody
  BY <1>7, StepKeeps DEF EndOfTurn, ReturnFromBody
<1>8. CASE Break \/ Fails
  BY <1>8, PhaseKeeps DEF Break, Fails, InLoop
<1>9. CASE CleanUp
  BY <1>9, CleanUpKeeps
<1> QED
  BY <1>1, <1>2, <1>3, <1>4, <1>5, <1>6, <1>7, <1>8, <1>9 DEF LoopNext

\* In every state of a loop the temporaries are its bounds and its counter, and
\* unless the text or the body does what LoopReadsLiveValues names, each
\* variable, each bound and the counter have a value that is there.
THEOREM LoopInvAlways == LoopSpec => []LoopInv
<1>1. ASSUME LoopInv, [LoopNext]_loopVars
      PROVE  LoopInv'
  <2>1. CASE UNCHANGED loopVars
    BY <1>1, <2>1 DEF loopVars, loopState, LoopInv, LoopTypes, LineOK, BodyTurns, FirstOK,
       TempsOK, CalmOK, Calm, WrittenBounds, VariablesLive, BoundsLive, OthersApart,
       LoopVariableApart, CounterApart, Own, Live, LoopValues, InLoop
  <2> QED
    BY <1>1, <2>1, LoopStep
<1> QED
  BY <1>1, LoopInvInit, PTL DEF LoopSpec

\* A for loop reads what is freed or no value only where LoopReadsLiveValues
\* says, and one that ends leaves no temporary behind.
THEOREM LoopReadsLiveValuesAlways == LoopSpec => []LoopReadsLiveValues
<1>1. ASSUME LoopInv
      PROVE  LoopReadsLiveValues
  <2> DEFINE freed == turns >= 2 /\ ~fromLiteral
  <2>1. turns \in Nat
    BY <1>1 DEF LoopInv, LoopTypes
  <2>2. loopPhase = "undefined" =>
          \/ WrittenBounds \cap {"FLOAT", LoopVariable} # {}
          \/ \E i \in DOMAIN assigned : assigned[i] \in WrittenBounds \cup {LoopVariable}
          \/ freed
    BY <1>1, <2>1 DEF LoopInv, CalmOK, Calm
  <2>3. loopPhase = "ended" => ~freed /\ \A v \in LoopValues : loopOwner[v] # "INTERPRETER"
    BY <1>1, <2>1 DEF LoopInv, TempsOK
  <2> QED
    BY <2>2, <2>3 DEF LoopReadsLiveValues, WrittenBounds
<1> QED
  BY <1>1, LoopInvAlways, PTL

-----------------------------------------------------------------------------
(* Streams.  An open stream has a file, and its members promise at least     *)
(* what it was opened for: they are never assigned but to TRUE.              *)

Letters == Characters \cup {"gap"}

Stream ==
  [inode : Inodes \cup {None}, in : BOOLEAN, out : BOOLEAN, open : BOOLEAN, pos : Nat,
   pending : Seq(Characters), eof : BOOLEAN, fail : BOOLEAN, readable : BOOLEAN,
   writable : BOOLEAN, sought : BOOLEAN]

\* What EndIsSeen says of one stream.
EndSeen(s) == (s.open /\ s.fail /\ ~s.eof) => s.sought \/ s.readable # s.in \/ s.writable # s.out

StreamOK(s) ==
  /\ s \in Stream
  /\ s.open => s.inode \in Inodes /\ (s.in => s.readable) /\ (s.out => s.writable)
  /\ EndSeen(s)

StreamsInv ==
  /\ disk \in [FileNames -> {None, Dir} \cup Inodes]
  /\ inode \in [Inodes -> Seq(Letters)]
  /\ streams \in [Slots -> Stream]
  /\ \A i \in Slots : StreamOK(streams[i])
  /\ files \in [Files -> Slots \cup {NoFile, NoData}]

-----------------------------------------------------------------------------
(* The text of a stream *)

LEMMA GapText ==
  ASSUME NEW n \in Nat
  PROVE  Gap(n) \in Seq(Letters)
<1>1. Gap(n) \in [1..n -> Letters]
  BY DEF Gap, Letters
<1> QED
  BY <1>1

LEMMA SubText ==
  ASSUME NEW S, NEW t \in Seq(S), NEW m \in Nat \ {0}, NEW n \in Nat, n <= Len(t)
  PROVE  SubSeq(t, m, n) \in Seq(S)
<1>1. \A i \in m..n : t[i] \in S
  BY ElementOfSeq
<1> QED
  BY <1>1, SubSeqProperties

LEMMA FlushedText ==
  ASSUME NEW s \in Stream, NEW t \in Seq(Letters)
  PROVE  Flushed(s, t) \in Seq(Letters)
<1> DEFINE before == IF s.pos <= Len(t) THEN SubSeq(t, 1, s.pos) ELSE t \o Gap(s.pos - Len(t))
           after  == SubSeq(t, s.pos + Len(s.pending) + 1, Len(t))
<1>1. s.pos \in Nat /\ s.pending \in Seq(Characters) /\ Len(t) \in Nat /\ Len(s.pending) \in Nat
  BY DEF Stream
<1>2. before \in Seq(Letters)
  <2>1. CASE s.pos <= Len(t)
    BY <1>1, <2>1, SubText
  <2>2. CASE ~(s.pos <= Len(t))
    <3>1. s.pos - Len(t) \in Nat
      BY <1>1, <2>2
    <3>2. Gap(s.pos - Len(t)) \in Seq(Letters)
      BY <3>1, GapText
    <3>3. t \o Gap(s.pos - Len(t)) \in Seq(Letters)
      BY <3>2, ConcatProperties
    <3> QED
      BY <2>2, <3>3
  <2> QED
    BY <2>1, <2>2
<1>3. after \in Seq(Letters)
  <2>1. s.pos + Len(s.pending) + 1 \in Nat \ {0}
    BY <1>1
  <2> QED
    BY <1>1, <2>1, SubText
<1>4. s.pending \in Seq(Letters)
  <2>1. Characters \subseteq Letters
    BY DEF Letters
  <2> QED
    BY <1>1, <2>1
<1> HIDE DEF before, after
<1>5. before \o s.pending \o after \in Seq(Letters)
  <2>1. before \o s.pending \in Seq(Letters)
    BY <1>2, <1>4, ConcatProperties
  <2> QED
    BY <1>3, <2>1, ConcatProperties
<1>6. Flushed(s, t) = IF s.pending = <<>> THEN t ELSE before \o s.pending \o after
  BY DEF Flushed, before, after
<1> QED
  BY <1>5, <1>6

\* What an operation may do to an open stream.
Turns(s, t) ==
  /\ t \in Stream
  /\ t.inode = s.inode /\ t.open = s.open /\ t.in = s.in /\ t.out = s.out
  /\ t.readable = s.readable /\ t.writable = s.writable
  /\ EndSeen(t)

LEMMA TurnsKeeps ==
  ASSUME NEW s, NEW t, StreamOK(s), Turns(s, t)
  PROVE  StreamOK(t)
BY DEF StreamOK, Turns

\* A stream that was in a bad state already.
LEMMA FailedAgain ==
  ASSUME NEW s, StreamOK(s), ~Good(s)
  PROVE  Turns(s, Failed(s))
BY DEF StreamOK, Turns, Stream, Failed, Good, EndSeen

LEMMA FlushTurns ==
  ASSUME NEW s, StreamOK(s)
  PROVE  Turns(s, AfterFlush(s)) /\ AfterFlush(s).pos \in Nat
<1>1. s.pos \in Nat /\ s.pending \in Seq(Characters) /\ Len(s.pending) \in Nat
  BY DEF StreamOK, Stream
<1>2. s.pos + Len(s.pending) \in Nat /\ <<>> \in Seq(Characters)
  BY <1>1
<1>3. PICK z : z = s.pos + Len(s.pending)
  OBVIOUS
<1>4. AfterFlush(s) = [s EXCEPT !.pos = z, !.pending = <<>>]
  BY <1>3 DEF AfterFlush, StreamOK, Stream
<1> QED
  BY <1>2, <1>3, <1>4 DEF StreamOK, Turns, Stream, EndSeen

\* A read turns the stream and then moves it.
LEMMA MovedTurns ==
  ASSUME NEW s, StreamOK(s)
  PROVE  /\ \A p \in Nat : /\ Turns(s, [Reading(s) EXCEPT !.pos = p])
                           /\ Turns(s, [Reading(s) EXCEPT !.pos = p, !.eof = TRUE])
         /\ Turns(s, AtEnd(Reading(s)))
         /\ Reading(s).pos \in Nat /\ Reading(s).fail = s.fail /\ Reading(s).eof = s.eof
<1>1. /\ Turns(s, Reading(s)) /\ Reading(s).pos \in Nat
      /\ Reading(s).fail = s.fail /\ Reading(s).eof = s.eof
  BY FlushTurns DEF Reading, StreamOK, Turns, Stream, AfterFlush
<1>2. PICK r : r = Reading(s)
  OBVIOUS
<1>3. /\ \A p \in Nat : /\ Turns(s, [r EXCEPT !.pos = p])
                        /\ Turns(s, [r EXCEPT !.pos = p, !.eof = TRUE])
      /\ Turns(s, AtEnd(r))
  BY <1>1, <1>2 DEF Turns, Stream, EndSeen, AtEnd, Failed
<1> QED
  BY <1>1, <1>2, <1>3

-----------------------------------------------------------------------------
(* The functions of the library *)

LEMMA RestText ==
  ASSUME NEW s, StreamOK(s), Text(s) \in Seq(Letters)
  PROVE  Rest(s) \in Seq(Letters) /\ Len(Rest(s)) \in Nat /\ FullText(s) \in Seq(Letters)
<1>1. FullText(s) \in Seq(Letters)
  BY FlushedText DEF FullText, StreamOK
<1>2. AfterFlush(s).pos \in Nat
  BY FlushTurns
<1>3. PICK t, p : t = FullText(s) /\ p = AfterFlush(s).pos
  OBVIOUS
<1>4. SubSeq(t, p + 1, Len(t)) \in Seq(Letters)
  <2>1. p + 1 \in Nat \ {0} /\ Len(t) \in Nat
    BY <1>1, <1>2, <1>3
  <2> QED
    BY <1>1, <1>3, <2>1, SubText
<1>5. Rest(s) \in Seq(Letters)
  BY <1>3, <1>4 DEF Rest
<1> QED
  BY <1>1, <1>5

LEMMA GetCTurns ==
  ASSUME NEW s, StreamOK(s)
  PROVE  Turns(s, GetC(s))
<1>1. CASE ~Good(s)
  BY <1>1, FailedAgain DEF GetC
<1>2. CASE Good(s)
  <2>1. PICK o \in Nat : o = Reading(s).pos
    BY MovedTurns
  <2>2. PICK p \in Nat : p = Reading(s).pos + 1
    BY <2>1
  <2>3. GetC(s) = IF Rest(s) = <<>> THEN AtEnd(Reading(s)) ELSE [Reading(s) EXCEPT !.pos = p]
    BY <1>2, <2>2 DEF GetC
  <2>4. Turns(s, [Reading(s) EXCEPT !.pos = p]) /\ Turns(s, AtEnd(Reading(s)))
    BY MovedTurns
  <2> QED
    BY <2>3, <2>4
<1> QED
  BY <1>1, <1>2

LEMMA LineEnds ==
  ASSUME NEW t \in Seq(Letters), Contains(t, "nl")
  PROVE  SelectInSeq(t, LAMBDA c : c = "nl") \in Nat
<1> DEFINE I == {i \in 1..Len(t) : t[i] = "nl"}
<1>1. I \in SUBSET Nat /\ I # {}
  BY DEF Contains
<1>2. SelectInSeq(t, LAMBDA c : c = "nl") = Min(I)
  BY <1>1 DEF SelectInSeq
<1> HIDE DEF I
<1>3. Min(I) \in I
  BY <1>1, Least DEF Min
<1> QED
  BY <1>1, <1>2, <1>3

LEMMA GetLTurns ==
  ASSUME NEW s, StreamOK(s), Text(s) \in Seq(Letters)
  PROVE  Turns(s, GetL(s))
<1>1. CASE ~Good(s)
  BY <1>1, FailedAgain DEF GetL
<1>2. CASE Good(s) /\ Rest(s) = <<>>
  <2>1. GetL(s) = AtEnd(Reading(s))
    BY <1>2 DEF GetL
  <2> QED
    BY <2>1, MovedTurns
<1>3. CASE Good(s) /\ Rest(s) # <<>>
  <2>1. Reading(s).pos \in Nat
    BY MovedTurns
  <2>2. PICK p : p = Reading(s).pos + SelectInSeq(Rest(s), LAMBDA c : c = "nl")
    OBVIOUS
  <2>3. PICK q : q = Reading(s).pos + Len(Rest(s))
    OBVIOUS
  <2>4. GetL(s) = IF Contains(Rest(s), "nl") THEN [Reading(s) EXCEPT !.pos = p]
                  ELSE [Reading(s) EXCEPT !.pos = q, !.eof = TRUE]
    BY <1>3, <2>2, <2>3 DEF GetL
  <2>5. q \in Nat
    BY <2>1, <2>3, RestText
  <2>6. Contains(Rest(s), "nl") => p \in Nat
    BY <2>1, <2>2, RestText, LineEnds
  <2>7. CASE Contains(Rest(s), "nl")
    <3>1. Turns(s, [Reading(s) EXCEPT !.pos = p])
      BY <2>6, <2>7, MovedTurns
    <3> QED
      BY <2>4, <2>7, <3>1
  <2>8. CASE ~Contains(Rest(s), "nl")
    <3>1. Turns(s, [Reading(s) EXCEPT !.pos = q, !.eof = TRUE])
      BY <2>5, MovedTurns
    <3> QED
      BY <2>4, <2>8, <3>1
  <2> QED
    BY <2>7, <2>8
<1> QED
  BY <1>1, <1>2, <1>3

LEMMA TellTurns ==
  ASSUME NEW s, StreamOK(s)
  PROVE  Turns(s, TellG(s))
BY FailedAgain DEF TellG, Turns, StreamOK, Stream, Good, EndSeen

\* A move of a stream that is not moved for the first time in a bad state.
LEMMA SeekTurns ==
  ASSUME NEW s, StreamOK(s), NEW to \in Int
  PROVE  /\ Turns(s, SeekG(Sought(s, to), to))
         /\ s.sought => Turns(s, SeekG(s, to))
         /\ (Good(s) /\ to >= 0) => Turns(s, SeekG(s, to))
<1>1. ASSUME NEW c, StreamOK(c), Turns(s, c), c.sought \/ (~c.fail /\ to >= 0)
      PROVE  Turns(s, SeekG(c, to))
  <2> DEFINE d == [c EXCEPT !.eof = FALSE]
  <2>1. StreamOK(d) /\ Turns(s, d) /\ d.eof = FALSE /\ d.fail = c.fail /\ d.sought = c.sought
        /\ d.pos = c.pos /\ d.pending = c.pending
    BY <1>1 DEF StreamOK, Turns, Stream, EndSeen
  <2>2. PICK e : e = d
    OBVIOUS
  <2>3. SeekG(c, to) = IF c.fail THEN e ELSE IF to < 0 THEN Failed(AfterFlush(e))
                       ELSE [AfterFlush(e) EXCEPT !.pos = to]
    BY <2>2 DEF SeekG
  <2> HIDE DEF d
  <2>4. CASE c.fail
    BY <2>1, <2>2, <2>3, <2>4
  <2>5. CASE ~c.fail
    <3>1. PICK a : a = AfterFlush(e)
      OBVIOUS
    <3>2. Turns(e, a) /\ a.sought = e.sought /\ a.eof = FALSE /\ a.fail = FALSE
      <4>1. Turns(e, a)
        BY <2>1, <2>2, <3>1, FlushTurns
      <4>2. e \in Stream
        BY <2>1, <2>2 DEF StreamOK
      <4>3. a.sought = e.sought /\ a.eof = e.eof /\ a.fail = e.fail
        BY <3>1, <4>2 DEF AfterFlush, Stream
      <4> QED
        BY <1>1, <2>1, <2>2, <2>5, <4>1, <4>3 DEF StreamOK, Stream
    <3>3. Turns(s, a)
      BY <2>1, <2>2, <3>2 DEF Turns
    <3>4. CASE to < 0
      <4>1. SeekG(c, to) = Failed(a)
        BY <2>3, <2>5, <3>1, <3>4
      <4>2. a.sought
        BY <1>1, <2>1, <2>2, <3>2, <3>4
      <4> QED
        BY <3>3, <4>1, <4>2 DEF Turns, Stream, Failed, EndSeen
    <3>5. CASE ~(to < 0)
      <4>1. SeekG(c, to) = [a EXCEPT !.pos = to] /\ to \in Nat
        BY <2>3, <2>5, <3>1, <3>5
      <4> QED
        BY <3>2, <3>3, <4>1 DEF Turns, Stream, EndSeen
    <3> QED
      BY <3>4, <3>5
  <2> QED
    BY <2>4, <2>5
<1>2. Turns(s, SeekG(Sought(s, to), to))
  <2>1. PICK c : c = Sought(s, to)
    OBVIOUS
  <2>2. PICK b \in BOOLEAN : b = (s.sought \/ ~Good(s) \/ to < 0)
    OBVIOUS
  <2>3. c = [s EXCEPT !.sought = b]
    BY <2>1, <2>2 DEF Sought, StreamOK, Stream
  <2>4. StreamOK(c) /\ Turns(s, c) /\ c.sought = b /\ c.fail = s.fail
    BY <2>2, <2>3 DEF StreamOK, Turns, Stream, EndSeen
  <2>5. c.sought \/ (~c.fail /\ to >= 0)
    <3>1. CASE b
      BY <2>4, <3>1
    <3>2. CASE ~b
      <4>1. ~s.fail /\ ~(to < 0)
        BY <2>2, <3>2 DEF Good
      <4> QED
        BY <2>4, <4>1
    <3> QED
      BY <3>1, <3>2
  <2> QED
    BY <1>1, <2>1, <2>4, <2>5
<1>3. Turns(s, s)
  BY DEF StreamOK, Turns
<1>4. s.sought => Turns(s, SeekG(s, to))
  BY <1>1, <1>3
<1>5. Good(s) /\ to >= 0 => Turns(s, SeekG(s, to))
  BY <1>1, <1>3 DEF Good
<1> QED
  BY <1>2, <1>4, <1>5

LEMMA PutTurns ==
  ASSUME NEW s, StreamOK(s), s.writable, NEW c \in Characters
  PROVE  Turns(s, PutC(s, c))
<1>1. CASE Good(s) /\ s.out
  <2>1. Append(s.pending, c) \in Seq(Characters)
    BY DEF StreamOK, Stream
  <2>2. PutC(s, c) = [s EXCEPT !.pending = Append(s.pending, c)]
    BY <1>1 DEF PutC, StreamOK, Stream
  <2> QED
    BY <2>1, <2>2 DEF StreamOK, Turns, Stream, EndSeen
<1>2. CASE ~Good(s)
  BY <1>2, FailedAgain DEF PutC
<1>3. CASE Good(s) /\ ~s.out
  <2>1. PutC(s, c) = Failed(s)
    BY <1>3 DEF PutC
  <2> QED
    BY <1>3, <2>1 DEF StreamOK, Turns, Stream, Failed, EndSeen
<1> QED
  BY <1>1, <1>2, <1>3

-----------------------------------------------------------------------------
(* charCount *)

\* What charCount does to stream s.
CountEnd(s)  == SeekG(TellG(Sought(s, 0)), Len(FullText(s)))
CountBack(s) == SeekG(TellG(CountEnd(s)), Told(Sought(s, 0)))

LEMMA SeekForward ==
  ASSUME NEW s, [s EXCEPT !.eof = FALSE] = s, ~s.fail, NEW to \in Nat
  PROVE  SeekG(s, to) = [AfterFlush(s) EXCEPT !.pos = to]
<1>1. ~(to < 0)
  OBVIOUS
<1> QED
  BY <1>1 DEF SeekG

\* It is harmless to a good stream and tells -1 of a bad one.
LEMMA CountOfGood ==
  ASSUME NEW s, StreamOK(s), Text(s) \in Seq(Letters), Good(s)
  PROVE  /\ Told(CountEnd(s)) = Len(FullText(s))
         /\ AfterFlush(CountBack(s)).pos = AfterFlush(s).pos
         /\ CountBack(s).pending = <<>>
         /\ CountBack(s).eof = s.eof /\ CountBack(s).fail = s.fail
         /\ Turns(s, CountBack(s))
<1>1. Sought(s, 0) = s
  <2>1. (s.sought \/ ~Good(s) \/ 0 < 0) = s.sought
    BY DEF StreamOK, Stream
  <2>2. Sought(s, 0) = [s EXCEPT !.sought = s.sought]
    BY <2>1 DEF Sought, StreamOK, Stream
  <2> QED
    BY <2>2 DEF StreamOK, Stream
<1>2. s.eof = FALSE /\ s.fail = FALSE /\ s \in Stream
  BY DEF Good, StreamOK, Stream
<1>3. TellG(s) = s
  BY <1>2 DEF TellG
<1>4. [s EXCEPT !.eof = FALSE] = s
  BY <1>2 DEF Stream
<1>5. /\ AfterFlush(s) \in Stream /\ AfterFlush(s).pending = <<>>
      /\ AfterFlush(s).eof = FALSE /\ AfterFlush(s).fail = FALSE
      /\ AfterFlush(s).pos = s.pos + Len(s.pending) /\ AfterFlush(s).pos \in Nat
      /\ Turns(s, AfterFlush(s))
  <2>1. AfterFlush(s).pending = <<>> /\ AfterFlush(s).eof = FALSE /\ AfterFlush(s).fail = FALSE
        /\ AfterFlush(s).pos = s.pos + Len(s.pending)
    BY <1>2 DEF AfterFlush, Stream
  <2> QED
    BY <2>1, FlushTurns DEF Turns
<1>6. PICK n, a, m : n = Len(FullText(s)) /\ a = AfterFlush(s) /\ m = s.pos + Len(s.pending)
  OBVIOUS
<1>7. n \in Nat /\ m \in Nat
  BY <1>5, <1>6, RestText
<1>8. CountEnd(s) = [a EXCEPT !.pos = n]
  <2>1. CountEnd(s) = SeekG(s, n)
    BY <1>1, <1>3, <1>6 DEF CountEnd
  <2> QED
    BY <1>2, <1>4, <1>6, <1>7, <2>1, SeekForward
<1>9. PICK e : e = CountEnd(s)
  OBVIOUS
<1>10. e \in Stream /\ e.eof = FALSE /\ e.fail = FALSE /\ e.pos = n /\ e.pending = <<>>
       /\ [e EXCEPT !.eof = FALSE] = e
  BY <1>5, <1>6, <1>7, <1>8, <1>9 DEF Stream
<1>11. TellG(e) = e
  BY <1>10 DEF TellG
<1>12. Told(e) = n
  BY <1>7, <1>10, <1>11 DEF Told
<1>13. Told(s) = m
  BY <1>2, <1>3, <1>6 DEF Told
<1>14. AfterFlush(e) = e
  <2>1. e.pos + Len(e.pending) = n
    BY <1>7, <1>10
  <2>2. AfterFlush(e) = [e EXCEPT !.pos = n, !.pending = <<>>]
    BY <1>10, <2>1 DEF AfterFlush, Stream
  <2> QED
    BY <1>10, <2>2 DEF Stream
<1>15. CountBack(s) = [e EXCEPT !.pos = m]
  <2>1. CountBack(s) = SeekG(e, m)
    BY <1>1, <1>9, <1>11, <1>13 DEF CountBack
  <2> QED
    BY <1>7, <1>10, <1>14, <2>1, SeekForward
<1>16. PICK b : b = CountBack(s)
  OBVIOUS
<1>17. b \in Stream /\ b.pos = m /\ b.pending = <<>> /\ b.eof = FALSE /\ b.fail = FALSE
  BY <1>7, <1>10, <1>15, <1>16 DEF Stream
<1>18. AfterFlush(b).pos = m
  BY <1>7, <1>17 DEF AfterFlush, Stream
<1>19. Turns(s, b)
  BY <1>5, <1>6, <1>7, <1>8, <1>9, <1>15, <1>16, <1>17 DEF Turns, Stream, EndSeen
<1> QED
  BY <1>2, <1>5, <1>6, <1>9, <1>12, <1>16, <1>17, <1>18, <1>19

LEMMA CountOfBad ==
  ASSUME NEW s, StreamOK(s), Text(s) \in Seq(Letters), ~Good(s)
  PROVE  Told(CountEnd(s)) = -1 /\ Turns(s, CountBack(s))
<1>1. PICK c : c = Sought(s, 0)
  OBVIOUS
<1>2. PICK b \in BOOLEAN : b = (s.sought \/ ~Good(s) \/ 0 < 0)
  OBVIOUS
<1>3. c = [s EXCEPT !.sought = TRUE]
  BY <1>1, <1>2 DEF Sought, StreamOK, Stream
<1>4. StreamOK(c) /\ Turns(s, c) /\ c.sought /\ ~Good(c)
  BY <1>3 DEF StreamOK, Turns, Stream, EndSeen, Good
<1>5. PICK d : d = TellG(c)
  OBVIOUS
<1>6. d = [c EXCEPT !.fail = TRUE]
  BY <1>4, <1>5 DEF TellG, Failed, Good, StreamOK, Stream
<1>7. StreamOK(d) /\ Turns(s, d) /\ d.sought /\ d.fail
  BY <1>4, <1>6 DEF StreamOK, Turns, Stream, EndSeen
<1>8. \A to : SeekG(d, to) = [d EXCEPT !.eof = FALSE]
  BY <1>7 DEF SeekG
<1>9. PICK e : e = [d EXCEPT !.eof = FALSE]
  OBVIOUS
<1>10. StreamOK(e) /\ Turns(s, e) /\ e.sought /\ e.fail /\ e.eof = FALSE
  BY <1>7, <1>9 DEF StreamOK, Turns, Stream, EndSeen
<1>11. CountEnd(s) = e
  BY <1>1, <1>5, <1>8, <1>9 DEF CountEnd
<1>12. TellG(e) = e
  BY <1>10 DEF TellG
<1>13. Told(e) = -1
  BY <1>10, <1>12 DEF Told
<1>14. CountBack(s) = e
  <2>1. \A to : SeekG(e, to) = [e EXCEPT !.eof = FALSE]
    BY <1>10 DEF SeekG
  <2>2. [e EXCEPT !.eof = FALSE] = e
    BY <1>10 DEF StreamOK, Stream
  <2> QED
    BY <1>11, <1>12, <2>1, <2>2 DEF CountBack
<1> QED
  BY <1>10, <1>11, <1>13, <1>14

-----------------------------------------------------------------------------
(* The functions on File values *)

StreamsKept ==
  /\ inode \in [Inodes -> Seq(Letters)]
  /\ streams \in [Slots -> Stream]
  /\ \A i \in Slots : StreamOK(streams[i])

\* A stream that is open has a text.
LEMMA OpenStream ==
  ASSUME StreamsInv, NEW i \in Slots, streams[i].open
  PROVE  /\ StreamOK(streams[i]) /\ streams[i] \in Stream /\ streams[i].inode \in Inodes
         /\ Text(streams[i]) \in Seq(Letters) /\ FullText(streams[i]) \in Seq(Letters)
<1>1. /\ StreamOK(streams[i]) /\ streams[i] \in Stream /\ streams[i].inode \in Inodes
      /\ Text(streams[i]) \in Seq(Letters)
  BY DEF StreamsInv, StreamOK, Text
<1>2. PICK s : s = streams[i]
  OBVIOUS
<1> QED
  BY <1>1, <1>2, RestText

LEMMA BecomesKeeps ==
  ASSUME StreamsInv, NEW i \in Slots, streams[i].open, NEW s, Turns(streams[i], s), Becomes(i, s)
  PROVE  StreamsKept'
<1>1. StreamOK(s) /\ s \in Stream /\ s.inode = streams[i].inode
  BY OpenStream, TurnsKeeps DEF Turns
<1>2. FullText(streams[i]) \in Seq(Letters)
  BY OpenStream
<1>3. inode' \in [Inodes -> Seq(Letters)]
  <2>1. PICK t \in Seq(Letters) : t = FullText(streams[i])
    BY <1>2
  <2>2. inode' = IF s.pending = <<>> THEN [inode EXCEPT ![s.inode] = t] ELSE inode
    BY <2>1 DEF Becomes
  <2> QED
    BY <2>2 DEF StreamsInv
<1>4. streams' = [streams EXCEPT ![i] = s]
  BY DEF Becomes
<1>5. streams' \in [Slots -> Stream]
  BY <1>1, <1>4 DEF StreamsInv
<1>6. ASSUME NEW k \in Slots
      PROVE  StreamOK(streams[k])'
  <2>1. streams'[k] = IF k = i THEN s ELSE streams[k]
    BY <1>4 DEF StreamsInv
  <2>2. StreamOK(streams'[k])
    BY <1>1, <2>1 DEF StreamsInv
  <2> QED
    BY <2>2 DEF StreamOK, EndSeen, Stream
<1> QED
  BY <1>3, <1>5, <1>6 DEF StreamsKept

LEMMA LeaveKeeps ==
  ASSUME StreamsInv, NEW i \in Slots, streams[i].open, Leave(i)
  PROVE  StreamsKept'
<1>1. PICK t \in Seq(Letters) : t = FullText(streams[i])
  BY OpenStream
<1>2. inode' = [inode EXCEPT ![streams[i].inode] = t]
  BY <1>1 DEF Leave
<1>3. inode' \in [Inodes -> Seq(Letters)]
  BY <1>2 DEF StreamsInv
<1>4. PICK s : s = [NoStream EXCEPT !.readable = streams[i].readable,
                                    !.writable = streams[i].writable]
  OBVIOUS
<1>5. StreamOK(s) /\ s \in Stream
  <2>1. streams[i].readable \in BOOLEAN /\ streams[i].writable \in BOOLEAN
    BY OpenStream DEF Stream
  <2>2. <<>> \in Seq(Characters)
    OBVIOUS
  <2> QED
    BY <1>4, <2>1, <2>2 DEF NoStream, StreamOK, Stream, EndSeen
<1>6. streams' = [streams EXCEPT ![i] = s]
  BY <1>4 DEF Leave
<1>7. streams' \in [Slots -> Stream]
  BY <1>5, <1>6 DEF StreamsInv
<1>8. ASSUME NEW k \in Slots
      PROVE  StreamOK(streams[k])'
  <2>1. streams'[k] = IF k = i THEN s ELSE streams[k]
    BY <1>6 DEF StreamsInv
  <2>2. StreamOK(streams'[k])
    BY <1>5, <2>1 DEF StreamsInv
  <2> QED
    BY <2>2 DEF StreamOK, EndSeen, Stream
<1> QED
  BY <1>3, <1>7, <1>8 DEF StreamsKept

LEMMA NothingTurns ==
  ASSUME StreamsInv, UNCHANGED <<inode, streams>>
  PROVE  StreamsKept'
BY DEF StreamsInv, StreamsKept, StreamOK, EndSeen, Stream

\* What a call on h does: it turns the stream of h, or closes it.
Called(h) ==
  /\ UNCHANGED <<disk, files>>
  /\ said'.what # "count"
  /\ \/ UNCHANGED <<inode, streams>>
     \/ /\ files[h] \in Slots /\ streams[files[h]].open
        /\ \/ \E s : Turns(streams[files[h]], s) /\ Becomes(files[h], s)
           \/ Leave(files[h])

LEMMA CalledKeeps ==
  ASSUME StreamsInv, NEW h \in Files, Called(h)
  PROVE  StreamsKept'
BY BecomesKeeps, LeaveKeeps, NothingTurns DEF Called

LEMMA InCall ==
  ASSUME StreamsInv, NEW h \in LiveFiles, files[h] # NoData, ~Closed(h)
  PROVE  /\ files[h] \in Slots /\ streams[files[h]].open /\ StreamOK(streams[files[h]])
         /\ Text(streams[files[h]]) \in Seq(Letters)
<1>1. files[h] \in Slots
  BY DEF StreamsInv, LiveFiles
<1>2. streams[files[h]].open
  BY DEF Closed
<1> QED
  BY <1>1, <1>2, OpenStream

LEMMA ReadCalls ==
  ASSUME StreamsInv, NEW h \in Files,
         Eof(h) \/ GetChar(h) \/ GetB(h) \/ GetLine(h) \/ TellAt(h) \/ Flush(h) \/ Close(h)
  PROVE  Called(h)
<1>1. CASE Eof(h)
  BY <1>1 DEF Eof, On, Called, Say, Error, Crash, Value
<1>2. CASE GetChar(h) \/ GetB(h)
  BY <1>2, InCall, GetCTurns DEF GetChar, GetB, On, Called, Say, Error, Crash, Value
<1>3. CASE GetLine(h)
  BY <1>3, InCall, GetLTurns DEF GetLine, On, Called, Say, Error, Crash, Value
<1>4. CASE TellAt(h)
  BY <1>4, InCall, TellTurns DEF TellAt, On, Called, Say, Error, Crash, Value
<1>5. CASE Flush(h)
  BY <1>5, InCall, FlushTurns DEF Flush, On, Called, Say, Error, Crash, Value
<1>6. CASE Close(h)
  BY <1>6, InCall DEF Close, On, Called, Say, Error, Crash, Value
<1> QED
  BY <1>1, <1>2, <1>3, <1>4, <1>5, <1>6

LEMMA SeekCalls ==
  ASSUME StreamsInv, NEW h \in Files, NEW offset \in -1..1, NEW beg \in BOOLEAN,
         SeekAt(h, offset, beg)
  PROVE  Called(h)
<1>1. CASE (Refused(h, "any") \/ Closed(h)) \/ files[h] = NoData
  BY <1>1 DEF SeekAt, On, Called, Say, Error, Crash, Value
<1>2. CASE ~Closed(h) /\ files[h] # NoData
  <2>1. PICK s, to : /\ s = streams[files[h]]
                     /\ to = (IF beg THEN 0 ELSE Len(FullText(s))) + offset
    OBVIOUS
  <2>2. h \in LiveFiles
    BY DEF SeekAt, On
  <2>3. StreamOK(s) /\ Text(s) \in Seq(Letters)
    BY <1>2, <2>1, <2>2, InCall
  <2>4. to \in Int
    BY <2>1, <2>3, RestText
  <2>5. Becomes(files[h], SeekG(Sought(s, to), to)) /\ Say(Value) /\ UNCHANGED <<disk, files>>
    BY <1>2, <2>1 DEF SeekAt, On, Refused
  <2>6. Turns(s, SeekG(Sought(s, to), to))
    BY <2>3, <2>4, SeekTurns
  <2> QED
    BY <1>2, <2>1, <2>2, <2>5, <2>6, InCall DEF Called, Say, Value
<1> QED
  BY <1>1, <1>2

LEMMA WriteCalls ==
  ASSUME StreamsInv, NEW h \in Files, NEW c \in Characters, Write(h, c) \/ Put(h, c)
  PROVE  Called(h)
<1>1. Write(h, c)
  BY DEF Put
<1>2. CASE (Refused(h, "writable") \/ Closed(h)) \/ files[h] = NoData
  BY <1>1, <1>2 DEF Write, On, Called, Say, Error, Crash, Value
<1>3. CASE ~Closed(h) /\ files[h] # NoData /\ ~Refused(h, "writable")
  <2>1. streams[files[h]].writable
    BY <1>3 DEF Refused
  <2>2. Becomes(files[h], PutC(streams[files[h]], c)) /\ h \in LiveFiles
        /\ Say(Value) /\ UNCHANGED <<disk, files>>
    BY <1>1, <1>3 DEF Write, On
  <2> QED
    BY <1>3, <2>1, <2>2, InCall, PutTurns DEF Called, Say, Value
<1> QED
  BY <1>2, <1>3

\* What CharCountIsHarmless says of the step.
Counted ==
  \E i \in Slots :
    LET s == streams[i]
        t == streams'[i]
    IN IF Good(s)
       THEN /\ said'.number = Len(FullText(s)) /\ Text(s)' = FullText(s)
            /\ AfterFlush(t).pos = AfterFlush(s).pos /\ t.eof = s.eof /\ t.fail = s.fail
       ELSE said'.number = -1

LEMMA CountCalls ==
  ASSUME StreamsInv, NEW h \in Files, CharCount(h)
  PROVE  /\ UNCHANGED <<disk, files>> /\ StreamsKept'
         /\ said'.what = "count" => Counted
<1>1. CASE (Refused(h, "readable") \/ Closed(h)) \/ files[h] = NoData
  <2>1. Called(h) /\ said'.what # "count"
    BY <1>1 DEF CharCount, On, Called, Say, Error, Crash, Value
  <2> QED
    BY <2>1, CalledKeeps DEF Called
<1>2. CASE ~Closed(h) /\ files[h] # NoData /\ ~Refused(h, "readable")
  <2>1. PICK i, s : i = files[h] /\ s = streams[i]
    OBVIOUS
  <2>2. h \in LiveFiles
    BY DEF CharCount, On
  <2>3. i \in Slots /\ s.open /\ StreamOK(s) /\ Text(s) \in Seq(Letters)
    BY <1>2, <2>1, <2>2, InCall
  <2>4. /\ Becomes(i, CountBack(s)) /\ SayCount(Told(CountEnd(s)))
        /\ UNCHANGED <<disk, files>>
    <3>1. FullText(Sought(s, 0)) = FullText(s) /\ Told(Sought(s, 0)) = Told(Sought(s, 0))
      BY <2>3 DEF FullText, Flushed, Text, Sought, StreamOK, Stream
    <3> QED
      BY <1>2, <2>1, <3>1 DEF CharCount, On, CountEnd, CountBack
  <2>5. Turns(s, CountBack(s))
    BY <2>3, CountOfGood, CountOfBad
  <2>6. StreamsKept'
    BY <2>1, <2>3, <2>4, <2>5, BecomesKeeps
  <2>7. streams'[i] = CountBack(s)
    BY <2>3, <2>4 DEF Becomes, StreamsInv
  <2>8. said'.number = Told(CountEnd(s))
    BY <2>4 DEF SayCount
  <2>9. CASE ~Good(s)
    BY <2>1, <2>3, <2>4, <2>6, <2>8, <2>9, CountOfBad DEF Counted
  <2>10. CASE Good(s)
    <3>1. /\ said'.number = Len(FullText(s))
          /\ AfterFlush(streams'[i]).pos = AfterFlush(s).pos
          /\ streams'[i].eof = s.eof /\ streams'[i].fail = s.fail
      BY <2>3, <2>7, <2>8, <2>10, CountOfGood
    <3>2. CountBack(s).pending = <<>> /\ CountBack(s).inode = s.inode
      BY <2>3, <2>5, <2>10, CountOfGood DEF Turns
    <3>3. PICK t : t = FullText(s)
      OBVIOUS
    <3>4. inode' = [inode EXCEPT ![s.inode] = t]
      BY <2>1, <2>4, <3>2, <3>3 DEF Becomes
    <3>5. s.inode \in Inodes
      BY <2>1, <2>3, OpenStream
    <3>6. inode'[streams'[i].inode] = t
      BY <2>7, <3>2, <3>4, <3>5 DEF StreamsInv
    <3>7. Text(streams[i])' = FullText(streams[i])
      BY <2>1, <3>3, <3>6 DEF Text
    <3> QED
      BY <2>1, <2>3, <2>4, <2>6, <2>10, <3>1, <3>7 DEF Counted
  <2> QED
    BY <2>9, <2>10
<1> QED
  BY <1>1, <1>2

-----------------------------------------------------------------------------
(* File values *)

DiskKept  == disk \in [FileNames -> {None, Dir} \cup Inodes]
FilesKept == files \in [Files -> Slots \cup {NoFile, NoData}]

LEMMA NewStreamOK ==
  ASSUME NEW i \in Inodes, NEW flags, NEW t \in Seq(Letters)
  PROVE  StreamOK(NewStream(i, flags, t)) /\ NewStream(i, flags, t) \in Stream
<1>1. PICK p \in Nat : p = IF "ate" \in flags THEN Len(t) ELSE 0
  <2>1. Len(t) \in Nat
    OBVIOUS
  <2> QED
    BY <2>1
<1>2. PICK r \in BOOLEAN, w \in BOOLEAN : r = ("in" \in flags) /\ w = ("out" \in flags)
  <2>1. ("in" \in flags) \in BOOLEAN /\ ("out" \in flags) \in BOOLEAN
    OBVIOUS
  <2> QED
    BY <2>1, Zenon
<1>3. NewStream(i, flags, t) =
        [inode |-> i, in |-> r, out |-> w, open |-> TRUE, pos |-> p, pending |-> <<>>,
         eof |-> FALSE, fail |-> FALSE, readable |-> r, writable |-> w, sought |-> FALSE]
  BY <1>1, <1>2 DEF NewStream
<1>4. <<>> \in Seq(Characters)
  OBVIOUS
<1> QED
  BY <1>3, <1>4 DEF StreamOK, Stream, EndSeen

LEMMA OpenKeeps ==
  ASSUME StreamsInv, NEW n \in FileNames, NEW mode, NEW h \in Files, Open(n, mode, h)
  PROVE  StreamsInv' /\ said'.what # "count"
<1>1. CASE UNCHANGED <<disk, inode, streams, files>> /\ (Say(Error) \/ Say(Threw))
  BY <1>1, NothingTurns DEF StreamsInv, DiskKept, StreamsKept, FilesKept,
      Say, Error, Threw
<1>2. CASE \E i \in IF disk[n] = None THEN FreeInode ELSE {disk[n]} :
             disk[n] # Dir /\ OpenOf(i, n, h, OpenMode(mode))
  <2>1. PICK i \in Inodes : OpenOf(i, n, h, OpenMode(mode))
    BY <1>2 DEF FreeInode, StreamsInv
  <2>2. PICK t : t = IF Truncates(OpenMode(mode)) \/ disk[n] = None THEN <<>> ELSE inode[i]
    OBVIOUS
  <2>3. t \in Seq(Letters)
    BY <2>2 DEF StreamsInv
  <2>4. PICK k \in FreeSlots :
          /\ streams' = [streams EXCEPT ![k] = NewStream(i, OpenMode(mode), t)]
          /\ files' = [files EXCEPT ![h] = k]
    BY <2>1, <2>2 DEF OpenOf
  <2>5. PICK s : s = NewStream(i, OpenMode(mode), t)
    OBVIOUS
  <2>6. StreamOK(s) /\ s \in Stream
    BY <2>3, <2>5, NewStreamOK
  <2>7. k \in Slots
    BY DEF FreeSlots
  <2>8. DiskKept' /\ FilesKept'
    BY <2>1, <2>4, <2>7 DEF OpenOf, DiskKept, FilesKept, StreamsInv
  <2>9. inode' = [inode EXCEPT ![i] = t]
    BY <2>1, <2>2 DEF OpenOf
  <2>10. streams' = [streams EXCEPT ![k] = s]
    BY <2>4, <2>5
  <2>11. ASSUME NEW j \in Slots
         PROVE  StreamOK(streams[j])'
    <3>1. streams'[j] = IF j = k THEN s ELSE streams[j]
      BY <2>10 DEF StreamsInv
    <3>2. StreamOK(streams'[j])
      BY <2>6, <3>1 DEF StreamsInv
    <3> QED
      BY <3>2 DEF StreamOK, EndSeen, Stream
  <2>12. inode' \in [Inodes -> Seq(Letters)] /\ streams' \in [Slots -> Stream]
    BY <2>3, <2>6, <2>9, <2>10 DEF StreamsInv
  <2>13. StreamsKept'
    BY <2>11, <2>12 DEF StreamsKept
  <2>14. said'.what # "count"
    BY <2>1 DEF OpenOf, Say, Value
  <2> QED
    BY <2>8, <2>13, <2>14 DEF StreamsInv, DiskKept, StreamsKept, FilesKept
<1> QED
  BY <1>1, <1>2 DEF Open

LEMMA CopyKeeps ==
  ASSUME StreamsInv, NEW h \in Files, NEW g \in Files, CopyValue(h, g) \/ Forge(h)
  PROVE  StreamsInv' /\ said'.what # "count"
<1>1. FilesKept' /\ UNCHANGED <<disk, inode, streams>> /\ said'.what # "count"
  BY DEF CopyValue, Forge, StreamsInv, FilesKept, Say, Value
<1> QED
  BY <1>1, NothingTurns DEF StreamsInv, DiskKept, StreamsKept, FilesKept

LEMMA SetKeeps ==
  ASSUME StreamsInv, NEW h \in Files, NEW member \in {"readable", "writable"},
         SetMember(h, member)
  PROVE  StreamsInv' /\ said'.what # "count"
<1>1. PICK i \in Slots : i = files[h]
  BY DEF SetMember, LiveFiles, StreamsInv
<1>2. PICK s : s = [streams[i] EXCEPT ![member] = TRUE]
  OBVIOUS
<1>3. streams' = [streams EXCEPT ![i] = s]
  BY <1>1, <1>2 DEF SetMember, StreamsInv
<1>4. StreamOK(streams[i]) /\ streams[i] \in Stream
  BY DEF StreamsInv
<1>5. StreamOK(s) /\ s \in Stream
  <2>1. CASE member = "readable"
    <3>1. s = [streams[i] EXCEPT !.readable = TRUE]
      BY <1>2, <2>1
    <3> QED
      BY <1>4, <3>1 DEF StreamOK, Stream, EndSeen
  <2>2. CASE member = "writable"
    <3>1. s = [streams[i] EXCEPT !.writable = TRUE]
      BY <1>2, <2>2
    <3> QED
      BY <1>4, <3>1 DEF StreamOK, Stream, EndSeen
  <2> QED
    BY <2>1, <2>2
<1>6. ASSUME NEW j \in Slots
      PROVE  StreamOK(streams[j])'
  <2>1. streams'[j] = IF j = i THEN s ELSE streams[j]
    BY <1>3 DEF StreamsInv
  <2>2. StreamOK(streams'[j])
    BY <1>5, <2>1 DEF StreamsInv
  <2> QED
    BY <2>2 DEF StreamOK, EndSeen, Stream
<1>7. streams' \in [Slots -> Stream] /\ UNCHANGED <<disk, inode, files>> /\ said'.what # "count"
  BY <1>3, <1>5 DEF SetMember, StreamsInv, Say, Value
<1>8. StreamsKept'
  BY <1>6, <1>7 DEF StreamsInv, StreamsKept
<1> QED
  BY <1>7, <1>8 DEF StreamsInv, DiskKept, StreamsKept, FilesKept

LEMMA DropKeeps ==
  ASSUME StreamsInv, NEW h \in Files, Drop(h)
  PROVE  StreamsInv' /\ said'.what # "count"
<1>1. FilesKept' /\ UNCHANGED disk /\ said'.what # "count"
  BY DEF Drop, StreamsInv, FilesKept, Say, Value
<1>2. StreamsKept'
  <2>1. CASE UNCHANGED <<inode, streams>>
    BY <2>1, NothingTurns
  <2>2. CASE files[h] # NoData /\ h \in LiveFiles /\ streams[files[h]].open /\ Leave(files[h])
    <3>1. files[h] \in Slots
      BY <2>2 DEF LiveFiles, StreamsInv
    <3> QED
      BY <2>2, <3>1, LeaveKeeps
  <2> QED
    BY <2>1, <2>2 DEF Drop
<1> QED
  BY <1>1, <1>2 DEF StreamsInv, DiskKept, StreamsKept, FilesKept

-----------------------------------------------------------------------------
(* Paths.  They change the disk and give files a text, and no stream. *)

OnDisk ==
  /\ disk' \in [FileNames -> {None, Dir} \cup Inodes]
  /\ \/ inode' = inode
     \/ \E i \in Inodes, t \in Seq(Letters) : inode' = [inode EXCEPT ![i] = t]
  /\ UNCHANGED <<streams, files>>
  /\ said'.what # "count"

LEMMA PathKeeps ==
  ASSUME StreamsInv, OnDisk
  PROVE  StreamsInv'
<1>1. inode' \in [Inodes -> Seq(Letters)]
  BY DEF StreamsInv, OnDisk
<1> QED
  BY <1>1 DEF StreamsInv, OnDisk, StreamOK, EndSeen, Stream

LEMMA FailureOnDisk ==
  ASSUME StreamsInv, Failure
  PROVE  OnDisk
BY DEF StreamsInv, OnDisk, Failure, Say, Error

LEMMA CopyToOnDisk ==
  ASSUME StreamsInv, NEW n \in FileNames, NEW m \in FileNames, NEW i \in Inodes,
         IsFile(n), CopyTo(n, m, i)
  PROVE  OnDisk
<1>1. inode[disk[n]] \in Seq(Letters)
  BY DEF IsFile, StreamsInv
<1>2. disk' \in [FileNames -> {None, Dir} \cup Inodes]
  BY DEF CopyTo, StreamsInv
<1>3. inode' = [inode EXCEPT ![i] = inode[disk[n]]]
  BY DEF CopyTo
<1>4. UNCHANGED <<streams, files>> /\ said'.what # "count"
  BY DEF CopyTo, Changed, Say, Value
<1> QED
  BY <1>1, <1>2, <1>3, <1>4 DEF OnDisk

LEMMA OnPathOnDisk ==
  ASSUME StreamsInv, OnPath
  PROVE  OnDisk
<1>1. PICK n \in FileNames :
        \/ Ask(n) \/ CreateDirectory(n) \/ RemovePath(n)
        \/ \E m \in FileNames : Rename(n, m) \/ Copy(n, m) \/ CopyFile(n, m)
  BY DEF OnPath
<1>2. CASE Ask(n)
  BY <1>2 DEF Ask, StreamsInv, OnDisk, Say, Value, Error
<1>3. CASE CreateDirectory(n)
  <2>1. CASE Failure
    BY <2>1, FailureOnDisk
  <2>2. CASE disk' = [disk EXCEPT ![n] = Dir] /\ inode' = inode /\ Changed
    BY <2>2 DEF Changed, StreamsInv, OnDisk, Say, Value
  <2> QED
    BY <1>3, <2>1, <2>2 DEF CreateDirectory
<1>4. CASE RemovePath(n)
  <2>1. CASE Failure
    BY <2>1, FailureOnDisk
  <2>2. CASE disk' = [disk EXCEPT ![n] = None] /\ inode' = inode /\ Changed
    BY <2>2 DEF Changed, StreamsInv, OnDisk, Say, Value
  <2> QED
    BY <1>4, <2>1, <2>2 DEF RemovePath
<1>5. ASSUME NEW m \in FileNames, Rename(n, m)
      PROVE  OnDisk
  <2>1. CASE Failure
    BY <2>1, FailureOnDisk
  <2>2. CASE ~Failure
    <3>1. PICK d : d = IF n = m \/ disk[n] = disk[m] THEN disk[n] ELSE None
      OBVIOUS
    <3>2. disk' = [disk EXCEPT ![n] = d, ![m] = disk[n]]
      BY <1>5, <2>2, <3>1 DEF Rename, StreamsInv
    <3>3. inode' = inode /\ Changed
      BY <1>5, <2>2 DEF Rename
    <3> QED
      BY <3>1, <3>2, <3>3 DEF Changed, StreamsInv, OnDisk, Say, Value
  <2> QED
    BY <2>1, <2>2
<1>6. ASSUME NEW m \in FileNames, CopyFile(n, m)
      PROVE  OnDisk
  <2>1. \A i \in FreeInode : i \in Inodes
    BY DEF FreeInode
  <2> QED
    BY <1>6, <2>1, FailureOnDisk, CopyToOnDisk DEF CopyFile
<1>7. ASSUME NEW m \in FileNames, Copy(n, m)
      PROVE  OnDisk
  <2>1. CASE Failure
    BY <2>1, FailureOnDisk
  <2>2. CASE IsFile(n) /\ \E i \in Inodes : CopyTo(n, m, i)
    BY <2>2, CopyToOnDisk
  <2>3. CASE Changed /\ UNCHANGED <<disk, inode>>
    BY <2>3 DEF Changed, StreamsInv, OnDisk, Say, Value
  <2>4. CASE disk' = [disk EXCEPT ![m] = Dir] /\ inode' = inode /\ Changed
    BY <2>4 DEF Changed, StreamsInv, OnDisk, Say, Value
  <2>5. \A i \in FreeInode : i \in Inodes
    BY DEF FreeInode
  <2> QED
    BY <1>7, <2>1, <2>2, <2>3, <2>4, <2>5 DEF Copy, IsFile
<1> QED
  BY <1>1, <1>2, <1>3, <1>4, <1>5, <1>6, <1>7

-----------------------------------------------------------------------------
(* The invariant *)

LEMMA StreamsInvInit ==
  ASSUME StreamsInit
  PROVE  StreamsInv
<1>1. inode \in [Inodes -> Seq(Letters)]
  <2>1. ASSUME NEW k \in 0..MaxLength, NEW t \in [1..k -> Characters]
        PROVE  t \in Seq(Letters)
    <3>1. k \in Nat /\ t \in [1..k -> Letters]
      BY StreamsAssumption DEF Letters
    <3> QED
      BY <3>1
  <2>2. UNION {[1..k -> Characters] : k \in 0..MaxLength} \subseteq Seq(Letters)
    BY <2>1
  <2> QED
    BY <2>2 DEF StreamsInit
<1>2. NoStream \in Stream /\ StreamOK(NoStream)
  <2>1. <<>> \in Seq(Characters)
    OBVIOUS
  <2> QED
    BY <2>1 DEF NoStream, Stream, StreamOK, EndSeen
<1> QED
  BY <1>1, <1>2 DEF StreamsInit, StreamsInv

LEMMA StreamsStep ==
  ASSUME StreamsInv, StreamsNext
  PROVE  StreamsInv' /\ (said'.what = "count" => Counted)
<1>1. CASE OnStream
  <2>1. PICK h \in Files :
          \/ Eof(h) \/ GetChar(h) \/ GetB(h) \/ GetLine(h) \/ TellAt(h) \/ CharCount(h)
          \/ \E offset \in -1..1, beg \in BOOLEAN : SeekAt(h, offset, beg)
          \/ \E c \in Characters : Write(h, c) \/ Put(h, c)
          \/ Flush(h) \/ Close(h)
    BY <1>1 DEF OnStream
  <2>2. CASE CharCount(h)
    BY <2>2, CountCalls DEF StreamsInv, StreamsKept
  <2>3. CASE Called(h)
    <3>1. StreamsKept'
      BY <2>3, CalledKeeps
    <3> QED
      BY <2>3, <3>1 DEF Called, StreamsInv, StreamsKept
  <2> QED
    BY <2>1, <2>2, <2>3, ReadCalls, SeekCalls, WriteCalls
<1>2. CASE OnValue
  BY <1>2, OpenKeeps, CopyKeeps, SetKeeps, DropKeeps DEF OnValue
<1>3. CASE OnPath
  BY <1>3, OnPathOnDisk, PathKeeps DEF OnDisk
<1> QED
  BY <1>1, <1>2, <1>3 DEF StreamsNext

\* In every state the disk, the files, the streams and the File values have
\* their types, and a stream that is open has a file and members that promise
\* what it was opened for.
THEOREM StreamsInvAlways == StreamsSpec => []StreamsInv
<1>1. ASSUME StreamsInv, [StreamsNext]_streamsVars
      PROVE  StreamsInv'
  <2>1. CASE StreamsNext
    BY <1>1, <2>1, StreamsStep
  <2>2. CASE UNCHANGED streamsVars
    BY <1>1, <2>2 DEF streamsVars, StreamsInv, StreamOK, EndSeen, Stream
  <2> QED
    BY <1>1, <2>1, <2>2
<1> QED
  BY <1>1, StreamsInvInit, PTL DEF StreamsSpec

\* A program that reads until eof() ends: an open stream whose reads have come
\* to fail says eof, but for what EndIsSeen names.
THEOREM EndIsSeenAlways == StreamsSpec => []EndIsSeen
<1>1. StreamsInv => EndIsSeen
  BY DEF StreamsInv, StreamOK, EndSeen, EndIsSeen
<1> QED
  BY <1>1, StreamsInvAlways, PTL

\* charCount tells the length of the file with what is not flushed, and leaves
\* a good reader where it was.
THEOREM CharCountAlwaysHarmless == StreamsSpec => CharCountIsHarmless
<1>1. ASSUME StreamsInv, [StreamsNext]_streamsVars
      PROVE  [said'.what = "count" => Counted]_streamsVars
  BY <1>1, StreamsStep
<1>2. StreamsSpec => [][said'.what = "count" => Counted]_streamsVars
  BY <1>1, StreamsInvAlways, PTL DEF StreamsSpec
<1> QED
  BY <1>2 DEF Counted, CharCountIsHarmless
=============================================================================
