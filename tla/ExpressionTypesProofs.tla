----------------------- MODULE ExpressionTypesProofs -----------------------
(***************************************************************************)
(* Proofs about TypeRules, ExpressionTypes and ConditionalScope: the       *)
(* analyzer's rules are those of the value classes, operator by operator;  *)
(* on a straight program its types are those of the values; on any other   *)
(* every failure comes from a disagreement; and its counts bring a         *)
(* variable out of its blocks only where it has a value.                   *)
(***************************************************************************)
EXTENDS ExpressionTypes, ConditionalScope, SequenceTheorems, NumbersAndSequences

-----------------------------------------------------------------------------
(* The rules, operator by operator *)

\* The analyzer's table of scalar operators is that of the value classes
\* (getOperatorType against opadd ... ople): an accepted operator does not
\* throw and yields the kind the analyzer computed.
THEOREM ScalarResultsAgree ==
  ASSUME NEW op \in Operators, NEW l \in Scalars, NEW r \in Scalars,
         OperatorType(op, l, r) # NoType
  PROVE  /\ ScalarOp(op, l, r) = OperatorType(op, l, r)
         /\ OperatorType(op, l, r) \in Scalars
<1> USE DEF OperatorType, NumberOp, Numbers, Scalars, NoType,
            Operators, Arithmetic, Equality, Order
<1>1. CASE l = "STRING"
  BY <1>1 DEF StringOperatorType, ScalarOp, StringOp
<1>2. CASE l = "NONE"
  BY <1>2 DEF StringOperatorType, NumberOperatorType, ScalarOp, NoneOp
<1>3. CASE l = "INT"
  BY <1>3 DEF StringOperatorType, NumberOperatorType, ScalarOp, IntOp
<1>4. CASE l = "FLOAT"
  BY <1>4 DEF StringOperatorType, NumberOperatorType, ScalarOp, FloatOp
<1>5. CASE l = "BOOL"
  BY <1>5 DEF StringOperatorType, NumberOperatorType, ScalarOp, BoolOp
<1>6. QED BY <1>1, <1>2, <1>3, <1>4, <1>5

\* What isCastableTo promises, the to methods keep.
LEMMA ConvertSound ==
  ASSUME NEW from \in Scalars, NEW to \in Scalars, CastableTo(from, to)
  PROVE  Convert(from, to) = to
  BY DEF CastableTo, Convert, Scalars, Numbers

\* A kind is neither a failure nor the absence of a type.
LEMMA KindsAreNoFailures ==
  /\ \A k \in Scalars : k \notin Failures /\ k # NoType
  /\ Threw # NoType /\ Undefined # NoType
  /\ "error" \notin Failures /\ "ok" \notin Failures /\ FunctionThrew \notin Failures
  BY DEF Scalars, Numbers, Failures, Threw, Undefined, NoType, FunctionThrew

-----------------------------------------------------------------------------
(* Lists of scalars *)

\* A list all of whose elements are of its type.
Homogeneous ==
  {v \in [kind : {"LIST"}, elem : Scalars, has : SUBSET Scalars] : v.has \subseteq {v.elem}}

\* The type the analyzer has for a value.
ListType(v) == [kind |-> v.kind, elem |-> v.elem]

\* Concatenating two such lists makes a list whose elements fit the element
\* type the analyzer gives it, when it gives one: List::opadd copies the
\* elements without a conversion.
THEOREM ConcatenationFits ==
  ASSUME NEW l \in Homogeneous, NEW r \in Homogeneous,
         ResultType("ADD", ListType(l), ListType(r)).elem # "NONE"
  PROVE  /\ Apply("ADD", l, r).kind = "LIST"
         /\ \A k \in Apply("ADD", l, r).has :
              CastableTo(k, ResultType("ADD", ListType(l), ListType(r)).elem)
<1>1. /\ l.kind = "LIST" /\ l.elem \in Scalars /\ l.has \subseteq {l.elem}
      /\ r.kind = "LIST" /\ r.elem \in Scalars /\ r.has \subseteq {r.elem}
  BY DEF Homogeneous
<1>2. /\ Apply("ADD", l, r).kind = "LIST"
      /\ Apply("ADD", l, r).has = l.has \cup r.has
  BY <1>1 DEF Apply, ListOp, ListValue
<1> DEFINE elem == OperatorType("ADD", l.elem, r.elem)
<1>3. /\ elem # NoType
      /\ ResultType("ADD", ListType(l), ListType(r)).elem = elem
  BY <1>1 DEF ResultType, ListType, ListOf
<1>4. CastableTo(l.elem, elem) /\ CastableTo(r.elem, elem)
  BY <1>1, <1>3 DEF OperatorType, StringOperatorType, NumberOperatorType, CastableTo,
                    Scalars, Numbers, Equality, Order, NoType
<1>5. QED BY <1>1, <1>2, <1>3, <1>4

\* Repeating a list leaves the type of its elements, in both tables.
THEOREM RepetitionFits ==
  ASSUME NEW l \in Homogeneous
  PROVE  /\ Apply("MUL", l, Value("INT")).kind = "LIST"
         /\ \A k \in Apply("MUL", l, Value("INT")).has :
              CastableTo(k, ResultType("MUL", ListType(l), ListType(Value("INT"))).elem)
<1>1. l.kind = "LIST" /\ l.elem \in Scalars /\ l.has \subseteq {l.elem}
  BY DEF Homogeneous
<1>2. Apply("MUL", l, Value("INT")) = l
  BY <1>1 DEF Apply, ListOp, Value
<1>3. ResultType("MUL", ListType(l), ListType(Value("INT"))).elem = l.elem
  BY <1>1 DEF ResultType, ListType, ListOf, Value
<1>4. QED BY <1>1, <1>2, <1>3 DEF CastableTo

-----------------------------------------------------------------------------
(* Operands *)

LEMMA NamesAndValues == Unnamed \notin Names
  BY ExpressionAssumption

\* The k topmost operands have types and kinds, the same ones in a state
\* where types agree.
LEMMA PoppedOperand ==
  ASSUME TypeOK, NEW k \in Nat, k <= Height, NEW i \in 1..k
  PROVE  /\ Nth(k, i) \in Operands
         /\ TypeOf(Nth(k, i)) \in MaybeScalars
         /\ ValueOf(Nth(k, i)) \in MaybeScalars
         /\ TypesAgree => TypeOf(Nth(k, i)) = ValueOf(Nth(k, i))
<1>1. Height \in Nat /\ Height - k + i \in 1..Height
  BY DEF TypeOK, Height
<1>2. Nth(k, i) \in Operands
  BY <1>1 DEF TypeOK, Nth, Height
<1>3. /\ TypeOf(Nth(k, i)) \in MaybeScalars
      /\ ValueOf(Nth(k, i)) \in MaybeScalars
  BY <1>2 DEF TypeOK, TypeOf, ValueOf, Operands
<1>4. TypesAgree => TypeOf(Nth(k, i)) = ValueOf(Nth(k, i))
  BY <1>1, <1>2 DEF TypesAgree, VariablesAgree, OperandsAgree, TypeOf, ValueOf,
     Nth, Height, Operands
<1>5. QED BY <1>2, <1>3, <1>4

\* Operands the analyzer has accepted are scalars with a value, when types
\* agree.
LEMMA AcceptedOperand ==
  ASSUME TypeOK, TypesAgree, NEW k \in Nat, CanPop(k)
  PROVE  /\ ~Unbound(k)
         /\ \A i \in 1..k : /\ TypeOf(Nth(k, i)) \in Scalars
                            /\ ValueOf(Nth(k, i)) = TypeOf(Nth(k, i))
<1>1. ASSUME NEW i \in 1..k
      PROVE  /\ TypeOf(Nth(k, i)) \in Scalars
             /\ ValueOf(Nth(k, i)) = TypeOf(Nth(k, i))
             /\ ValueOf(Nth(k, i)) # NoType
  BY PoppedOperand DEF CanPop, MaybeScalars
<1>2. QED BY <1>1 DEF Unbound

\* Top is the last of the operands popped.
LEMMA TopOperand ==
  ASSUME TypeOK
  PROVE  Top = Nth(1, 1)
  BY DEF TypeOK, Top, Nth, Height

LEMMA BelowOperands ==
  ASSUME TypeOK, NEW k \in Nat, k <= Height
  PROVE  /\ Below(k) \in Seq(Operands)
         /\ Len(Below(k)) = Height - k
         /\ \A i \in 1..(Height - k) : Below(k)[i] = stack[i]
  BY DEF TypeOK, Below, Height

\* A value pushed on some of the operands leaves a stack of operands.
LEMMA PushedOperand ==
  ASSUME TypeOK, NEW k \in Nat, k <= Height, NEW e \in Operands,
         e.name \notin Names => NoType \notin {e.type, e.value},
         stack' = Append(Below(k), e)
  PROVE  /\ stack' \in Seq(Operands)
         /\ \A i \in 1..Len(stack') :
              stack'[i].name \notin Names => NoType \notin {stack'[i].type, stack'[i].value}
         /\ OperandsAgree /\ e.type = e.value => OperandsAgree'
<1> DEFINE s == Below(k)
<1>0. stack' = Append(s, e)
  OBVIOUS
<1>1. /\ s \in Seq(Operands)
      /\ \A i \in 1..Len(s) : i \in 1..Len(stack) /\ s[i] = stack[i]
  BY BelowOperands DEF Height, TypeOK
<1>2. /\ stack' \in Seq(Operands)
      /\ Len(stack') = Len(s) + 1
      /\ stack'[Len(s) + 1] = e
      /\ \A i \in 1..Len(s) : stack'[i] = s[i]
  <2> HIDE DEF s
  <2> QED BY <1>0, <1>1
<1>3. \A i \in 1..Len(stack') : i \in 1..Len(s) \/ i = Len(s) + 1
  <2> HIDE DEF s
  <2> QED BY <1>1, <1>2
<1> HIDE DEF s
<1>4. \A i \in 1..Len(stack') :
        stack'[i].name \notin Names => NoType \notin {stack'[i].type, stack'[i].value}
  BY <1>1, <1>2, <1>3 DEF TypeOK
<1>5. OperandsAgree /\ e.type = e.value => OperandsAgree'
  BY <1>1, <1>2, <1>3 DEF OperandsAgree
<1>6. QED BY <1>2, <1>4, <1>5

\* Popping operands, or the whole line, leaves operands.
LEMMA PoppedStack ==
  ASSUME TypeOK, NEW k \in Nat, k <= Height, stack' = Below(k)
  PROVE  /\ stack' \in Seq(Operands)
         /\ \A i \in 1..Len(stack') :
              stack'[i].name \notin Names => NoType \notin {stack'[i].type, stack'[i].value}
         /\ OperandsAgree => OperandsAgree'
<1>1. /\ stack' \in Seq(Operands)
      /\ \A i \in 1..Len(stack') : i \in 1..Len(stack) /\ stack'[i] = stack[i]
  <2>1. /\ stack' \in Seq(Operands)
        /\ Len(stack') = Height - k
        /\ \A i \in 1..(Height - k) : stack'[i] = stack[i]
    BY BelowOperands
  <2>2. QED BY <2>1 DEF TypeOK, Height
<1>2. QED BY <1>1 DEF TypeOK, OperandsAgree

LEMMA EmptyStack ==
  ASSUME stack' = <<>>
  PROVE  /\ stack' \in Seq(Operands)
         /\ \A i \in 1..Len(stack') :
              stack'[i].name \notin Names => NoType \notin {stack'[i].type, stack'[i].value}
         /\ OperandsAgree'
  BY DEF OperandsAgree

-----------------------------------------------------------------------------
(* The type invariant *)

LEMMA YieldTypeOK ==
  ASSUME TypeOK, NEW k \in Nat, k <= Height, NEW t \in Scalars,
         NEW v, ~Unbound(k) => v \in Scalars \cup Failures,
         Yield(k, t, v)
  PROVE  TypeOK'
<1>1. CASE Result(k, v) \in Failures
  BY <1>1 DEF Yield, TypeOK
<1>2. CASE Result(k, v) \notin Failures
  <2>1. ~Unbound(k) /\ v \in Scalars
    BY <1>2 DEF Result, Failures
  <2>2. /\ ValueOperand(t, v) \in Operands
        /\ ValueOperand(t, v).name \notin Names
             => NoType \notin {ValueOperand(t, v).type, ValueOperand(t, v).value}
    BY <2>1, KindsAreNoFailures DEF ValueOperand, Operands, MaybeScalars
  <2>3. QED
    BY <1>2, <2>2, PushedOperand DEF Yield, TypeOK
<1>3. QED BY <1>1, <1>2

\* An operator yields a kind or fails, whatever the operands.
LEMMA ScalarOpType ==
  ASSUME NEW op \in Operators, NEW l \in Scalars, NEW r \in Scalars
  PROVE  ScalarOp(op, l, r) \in Scalars \cup Failures
<1>1. CASE l = "STRING"
  BY <1>1 DEF ScalarOp, StringOp, Scalars, Numbers, Failures
<1>2. CASE l = "NONE"
  BY <1>2 DEF ScalarOp, NoneOp, Scalars, Numbers, Failures
<1>3. CASE l \in Numbers
  BY <1>3 DEF ScalarOp, IntOp, FloatOp, BoolOp, NumberOp, Scalars, Numbers, Failures
<1>4. QED BY <1>1, <1>2, <1>3 DEF Scalars

\* The analyzer gives an accepted operator on scalars a scalar type.
LEMMA OperatorTypeScalar ==
  ASSUME NEW op, NEW l \in Scalars, NEW r \in Scalars, OperatorType(op, l, r) # NoType
  PROVE  OperatorType(op, l, r) \in Scalars
  BY DEF OperatorType, StringOperatorType, NumberOperatorType, Scalars, Numbers

LEMMA ConvertType ==
  ASSUME NEW from, NEW to \in Scalars
  PROVE  Convert(from, to) \in Scalars \cup Failures
  BY DEF Convert, Failures

\* Accepted operands are scalars, and so are their values when they have one.
LEMMA AcceptedKinds ==
  ASSUME TypeOK, NEW k \in Nat, CanPop(k)
  PROVE  /\ k <= Height
         /\ \A i \in 1..k :
              /\ TypeOf(Nth(k, i)) \in Scalars
              /\ ~Unbound(k) => ValueOf(Nth(k, i)) \in Scalars
<1>1. k <= Height
  BY DEF CanPop, TypeOK, Height
<1>2. ASSUME NEW i \in 1..k
      PROVE  /\ TypeOf(Nth(k, i)) \in Scalars
             /\ ~Unbound(k) => ValueOf(Nth(k, i)) \in Scalars
  BY <1>1, PoppedOperand DEF CanPop, MaybeScalars, Unbound
<1>3. QED BY <1>1, <1>2

LEMMA PushTypeOK ==
  ASSUME TypeOK, PushValue \/ PushName
  PROVE  TypeOK'
<1>1. Height \in Nat /\ Below(0) = stack
  BY DEF TypeOK, Height, Below
<1>2. PICK e \in Operands :
        Push(e) /\ (e.name \notin Names => NoType \notin {e.type, e.value})
  <2>1. CASE PushValue
    <3>1. PICK kind \in Scalars \ {"NONE"} : Push(ValueOperand(kind, kind))
      BY <2>1 DEF PushValue
    <3>2. /\ ValueOperand(kind, kind) \in Operands
          /\ NoType \notin {ValueOperand(kind, kind).type, ValueOperand(kind, kind).value}
      BY KindsAreNoFailures DEF ValueOperand, Operands, MaybeScalars
    <3>3. QED BY <3>1, <3>2
  <2>2. CASE PushName
    <3>1. PICK n \in Names : Push(NameOperand(n))
      BY <2>2 DEF PushName
    <3>2. NameOperand(n) \in Operands /\ NameOperand(n).name \in Names
      BY DEF NameOperand, Operands, MaybeScalars
    <3>3. QED BY <3>1, <3>2
  <2>3. QED BY <2>1, <2>2
<1>3. stack' = Append(Below(0), e) /\ UNCHANGED <<declared, bound, outcome, features>>
  BY <1>1, <1>2 DEF Push
<1>4. QED BY <1>1, <1>2, <1>3, PushedOperand DEF TypeOK

LEMMA ApplyOpTypeOK ==
  ASSUME TypeOK, ApplyOp
  PROVE  TypeOK'
<1> DEFINE l == Nth(2, 1)
           r == Nth(2, 2)
<1>1. CanPop(2)
  BY DEF ApplyOp
<1>2. PICK op \in Operators :
        /\ OperatorType(op, TypeOf(l), TypeOf(r)) # NoType
        /\ Yield(2, OperatorType(op, TypeOf(l), TypeOf(r)),
                  ScalarOp(op, ValueOf(l), ValueOf(r)))
  BY DEF ApplyOp
<1>3. /\ 2 <= Height
      /\ TypeOf(l) \in Scalars /\ TypeOf(r) \in Scalars
      /\ ~Unbound(2) => ValueOf(l) \in Scalars /\ ValueOf(r) \in Scalars
  BY <1>1, AcceptedKinds
<1> HIDE DEF l, r
<1>4. OperatorType(op, TypeOf(l), TypeOf(r)) \in Scalars
  BY <1>2, <1>3, OperatorTypeScalar
<1>5. ~Unbound(2) => ScalarOp(op, ValueOf(l), ValueOf(r)) \in Scalars \cup Failures
  BY <1>3, ScalarOpType
<1>6. QED BY <1>2, <1>3, <1>4, <1>5, YieldTypeOK

LEMMA CastToTypeOK ==
  ASSUME TypeOK, CastTo
  PROVE  TypeOK'
<1>1. CanPop(1)
  BY DEF CastTo
<1>2. PICK k \in Scalars : Yield(1, k, Convert(ValueOf(Top), k))
  BY DEF CastTo
<1>3. QED BY <1>1, <1>2, AcceptedKinds, ConvertType, YieldTypeOK

LEMMA CallTypeOK ==
  ASSUME TypeOK, Call \/ CallImprecise
  PROVE  TypeOK'
<1>1. PICK k \in 0..MaxArguments, ret \in Scalars, result \in Scalars :
        \E params : CallYields(k, params, ret, result)
  <2>1. CASE Call
    BY <2>1 DEF Call
  <2>2. CASE CallImprecise
    <3>1. PICK f \in Imprecise : CallYields(f.arity, f.params, f.declares, f.yields)
      BY <2>2 DEF CallImprecise
    <3>2. f.arity \in 0..MaxArguments /\ f.declares \in Scalars /\ f.yields \in Scalars
      BY ExpressionAssumption DEF NativeFunctions
    <3>3. QED BY <3>1, <3>2
  <2>3. QED BY <2>1, <2>2
<1>2. CanPop(k) /\ \E v \in Scalars \cup Failures : Yield(k, ret, v)
  BY <1>1 DEF CallYields, Failures
<1>3. k \in Nat /\ k <= Height
  BY <1>2, AcceptedKinds DEF MaxArguments
<1>4. QED BY <1>2, <1>3, YieldTypeOK

LEMMA FStringTypeOK ==
  ASSUME TypeOK, FString
  PROVE  TypeOK'
<1>1. PICK k \in 0..Height : Yield(k, "STRING", "STRING")
  BY DEF FString
<1>2. k \in Nat /\ k <= Height /\ "STRING" \in Scalars
  BY DEF TypeOK, Height, Scalars
<1>3. QED BY <1>1, <1>2, YieldTypeOK

LEMMA AssignTypeOK ==
  ASSUME TypeOK, Assign
  PROVE  TypeOK'
<1>1. CanPop(1) /\ stack' = Below(1)
  BY DEF Assign
<1>2. 1 <= Height /\ Top = Nth(1, 1)
  BY <1>1, AcceptedKinds, TopOperand
<1>3. TypeOf(Top) \in MaybeScalars /\ ValueOf(Top) \in MaybeScalars
  BY <1>2, PoppedOperand
<1>4. declared' \in [Names -> MaybeScalars] /\ bound' \in [Names -> MaybeScalars]
  BY <1>3 DEF Assign, TypeOK
<1>5. features' = features /\ outcome' \in {"ok", "error", FunctionThrew} \cup Failures
  BY DEF Assign, Result, Failures
<1>6. QED BY <1>1, <1>2, <1>4, <1>5, PoppedStack DEF TypeOK

\* The lines that end, and the blocks, start the next line with no operand.
LEMMA LineEndTypeOK ==
  ASSUME TypeOK, EndOfLine \/ Condition \/ AssignInBranch \/ ForLoop \/ ForNothing
  PROVE  TypeOK'
<1>1. stack' = <<>>
  BY DEF EndOfLine, Condition, AssignInBranch, ForLoop, ForNothing
<1>2. features' = features /\ outcome' \in {"ok", "error", FunctionThrew} \cup Failures
  BY DEF EndOfLine, Condition, AssignInBranch, ForLoop, ForNothing, Result, Failures,
     TypeOK
<1>3. declared' \in [Names -> MaybeScalars] /\ bound' \in [Names -> MaybeScalars]
  <2>1. CASE EndOfLine \/ Condition
    BY <2>1 DEF EndOfLine, Condition, TypeOK
  <2>2. CASE AssignInBranch
    BY <2>2 DEF AssignInBranch, TypeOK, MaybeScalars
  <2>3. CASE ForLoop \/ ForNothing
    BY <2>3 DEF ForLoop, ForNothing, TypeOK, MaybeScalars, Scalars, Numbers
  <2>4. QED BY <2>1, <2>2, <2>3
<1>4. QED BY <1>1, <1>2, <1>3, EmptyStack DEF TypeOK

LEMMA FailingTypeOK ==
  ASSUME TypeOK, OperatorError \/ CallError \/ ForBound
  PROVE  TypeOK'
<1>1. outcome' \in {"ok", "error", FunctionThrew} \cup Failures
  BY DEF OperatorError, CallError, ForBound, Result, Failures
<1>2. UNCHANGED <<declared, bound, stack, features>>
  BY DEF OperatorError, CallError, ForBound
<1>3. QED BY <1>1, <1>2 DEF TypeOK

LEMMA NextTypeOK ==
  ASSUME TypeOK, [Next]_vars
  PROVE  TypeOK'
<1>1. CASE UNCHANGED vars
  BY <1>1 DEF TypeOK, vars
<1>2. QED
  BY <1>1, PushTypeOK, ApplyOpTypeOK, CastToTypeOK, CallTypeOK, FStringTypeOK,
     AssignTypeOK, LineEndTypeOK, FailingTypeOK DEF Next

\* Operands and variables of the analyzer and of the interpreter are scalars.
THEOREM TypesCorrect == Spec => []TypeOK
<1>1. Init => TypeOK
  BY DEF Init, TypeOK, MaybeScalars
<1>2. TypeOK /\ [Next]_vars => TypeOK'
  BY NextTypeOK
<1>3. QED BY <1>1, <1>2, PTL DEF Spec

-----------------------------------------------------------------------------
(* Agreement *)

\* Where the analyzer accepts and the types agree, what an operator, a cast or
\* a call yields is of the analyzer's type.
LEMMA ApplyOpAgrees ==
  ASSUME TypeOK, TypesAgree, ApplyOp
  PROVE  \E t \in Scalars : Yield(2, t, t) /\ CanPop(2)
<1> DEFINE l == Nth(2, 1)
           r == Nth(2, 2)
<1>1. CanPop(2)
  BY DEF ApplyOp
<1>2. PICK op \in Operators :
        /\ OperatorType(op, TypeOf(l), TypeOf(r)) # NoType
        /\ Yield(2, OperatorType(op, TypeOf(l), TypeOf(r)),
                  ScalarOp(op, ValueOf(l), ValueOf(r)))
  BY DEF ApplyOp
<1>3. /\ TypeOf(l) \in Scalars /\ ValueOf(l) = TypeOf(l)
      /\ TypeOf(r) \in Scalars /\ ValueOf(r) = TypeOf(r)
  BY <1>1, AcceptedOperand
<1> HIDE DEF l, r
<1>4. /\ ScalarOp(op, ValueOf(l), ValueOf(r)) = OperatorType(op, TypeOf(l), TypeOf(r))
      /\ OperatorType(op, TypeOf(l), TypeOf(r)) \in Scalars
  BY <1>2, <1>3, ScalarResultsAgree
<1>5. QED BY <1>1, <1>2, <1>4

LEMMA CastToAgrees ==
  ASSUME TypeOK, TypesAgree, CastTo
  PROVE  \E t \in Scalars : Yield(1, t, t) /\ CanPop(1)
<1>1. CanPop(1)
  BY DEF CastTo
<1>2. PICK k \in Scalars : CastableTo(TypeOf(Top), k) /\ Yield(1, k, Convert(ValueOf(Top), k))
  BY DEF CastTo
<1>3. TypeOf(Top) \in Scalars /\ ValueOf(Top) = TypeOf(Top)
  BY <1>1, AcceptedOperand, TopOperand
<1>4. QED BY <1>1, <1>2, <1>3, ConvertSound

LEMMA CallAgrees ==
  ASSUME TypeOK, TypesAgree, Call
  PROVE  \E k \in Nat : \E t \in Scalars : Yield(k, t, t) /\ CanPop(k)
<1>1. PICK k \in 0..MaxArguments :
        \E params \in [1..k -> Scalars], ret \in Scalars : CallYields(k, params, ret, ret)
  BY DEF Call
<1>2. k \in Nat
  BY <1>1 DEF MaxArguments
<1>3. PICK params \in [1..k -> Scalars], ret \in Scalars :
          /\ CanPop(k)
          /\ \A i \in 1..k : CastableTo(TypeOf(Nth(k, i)), params[i])
          /\ Yield(k, ret, IF \E i \in 1..k : Convert(ValueOf(Nth(k, i)), params[i]) = Threw
                           THEN Threw ELSE ret)
  BY <1>1 DEF CallYields
<1>4. ASSUME NEW i \in 1..k
      PROVE  Convert(ValueOf(Nth(k, i)), params[i]) # Threw
  <2>1. /\ TypeOf(Nth(k, i)) \in Scalars
        /\ ValueOf(Nth(k, i)) = TypeOf(Nth(k, i))
        /\ params[i] \in Scalars
    BY <1>2, <1>3, AcceptedOperand
  <2>2. Convert(ValueOf(Nth(k, i)), params[i]) = params[i]
    BY <1>3, <2>1, ConvertSound
  <2>3. QED BY <2>1, <2>2, KindsAreNoFailures DEF Failures
<1>5. Yield(k, ret, ret)
  BY <1>3, <1>4
<1>6. QED BY <1>2, <1>3, <1>5

\* In agreement a call does not fail, whatever the native function yields.
LEMMA ImpreciseSucceeds ==
  ASSUME TypeOK, TypesAgree, CallImprecise
  PROVE  outcome' = outcome
<1>1. PICK f \in Imprecise : CallYields(f.arity, f.params, f.declares, f.yields)
  BY DEF CallImprecise
<1>2. /\ f.arity \in 0..MaxArguments /\ f.params \in [1..MaxArguments -> Scalars]
      /\ f.yields \in Scalars
  BY ExpressionAssumption DEF NativeFunctions
<1>3. /\ f.arity \in Nat /\ CanPop(f.arity)
      /\ \A i \in 1..f.arity : CastableTo(TypeOf(Nth(f.arity, i)), f.params[i])
      /\ \A i \in 1..f.arity : f.params[i] \in Scalars
  BY <1>1, <1>2 DEF CallYields, MaxArguments
<1>4. ASSUME NEW i \in 1..f.arity
      PROVE  Convert(ValueOf(Nth(f.arity, i)), f.params[i]) # Threw
  <2>1. /\ TypeOf(Nth(f.arity, i)) \in Scalars
        /\ ValueOf(Nth(f.arity, i)) = TypeOf(Nth(f.arity, i))
    BY <1>3, AcceptedOperand
  <2>2. Convert(ValueOf(Nth(f.arity, i)), f.params[i]) = f.params[i]
    BY <1>3, <2>1, ConvertSound
  <2>3. QED BY <1>3, <2>2, KindsAreNoFailures DEF Failures
<1>5. Yield(f.arity, f.declares, f.yields)
  BY <1>1, <1>4 DEF CallYields
<1>6. ~Unbound(f.arity)
  BY <1>3, AcceptedOperand
<1>7. QED BY <1>2, <1>5, <1>6, KindsAreNoFailures DEF Yield, Result

\* Such a result keeps the agreement and is no failure.
LEMMA YieldAgrees ==
  ASSUME TypeOK, TypesAgree, NEW k \in Nat, NEW t \in Scalars, Yield(k, t, t), CanPop(k)
  PROVE  TypesAgree' /\ outcome' = outcome
<1>1. k <= Height /\ ~Unbound(k)
  BY AcceptedKinds, AcceptedOperand
<1>2. /\ stack' = Append(Below(k), ValueOperand(t, t))
      /\ UNCHANGED <<declared, bound, outcome>>
  BY <1>1, KindsAreNoFailures DEF Yield, Result
<1>3. /\ ValueOperand(t, t) \in Operands
      /\ NoType \notin {ValueOperand(t, t).type, ValueOperand(t, t).value}
      /\ ValueOperand(t, t).type = ValueOperand(t, t).value
  BY KindsAreNoFailures DEF ValueOperand, Operands, MaybeScalars
<1>4. OperandsAgree'
  BY <1>1, <1>2, <1>3, PushedOperand DEF TypesAgree
<1>5. QED BY <1>2, <1>4 DEF TypesAgree, VariablesAgree

\* A failure of a step taken in agreement is one of the two unchecked places.
LEMMA AgreementFails ==
  ASSUME TypeOK, TypesAgree, Next, outcome = "ok", outcome' \in Failures
  PROVE  FString \/ ForBound
<1> USE KindsAreNoFailures
<1>1. CASE ApplyOp \/ CastTo \/ Call
  <2>1. \E k \in Nat : \E t \in Scalars : Yield(k, t, t) /\ CanPop(k)
    BY <1>1, ApplyOpAgrees, CastToAgrees, CallAgrees
  <2>2. QED BY <2>1, YieldAgrees
<1>2. CASE Assign
  BY <1>2, AcceptedOperand DEF Assign, Result
<1>3. CASE EndOfLine
  <2>1. Height \in Nat
    BY DEF TypeOK, Height
  <2>2. QED BY <1>3, <2>1, AcceptedOperand DEF EndOfLine, Result
<1>4. CASE Condition
  <2>1. CanPop(1) /\ CastableTo(TypeOf(Top), "BOOL")
    BY <1>4 DEF Condition
  <2>2. ~Unbound(1) /\ TypeOf(Top) \in Scalars /\ ValueOf(Top) = TypeOf(Top)
    BY <2>1, AcceptedOperand, TopOperand
  <2>3. Convert(ValueOf(Top), "BOOL") = "BOOL"
    BY <2>1, <2>2, ConvertSound DEF Scalars, Numbers
  <2>4. "BOOL" # Threw
    BY DEF Threw
  <2>5. QED BY <1>4, <2>2, <2>3, <2>4 DEF Condition, Result
<1>5. CASE PushValue \/ PushName
  BY <1>5 DEF PushValue, PushName, Push
<1>6. CASE OperatorError \/ CallError
  BY <1>6 DEF OperatorError, CallError
<1>7. CASE AssignInBranch \/ ForLoop \/ ForNothing
  BY <1>7 DEF AssignInBranch, ForLoop, ForNothing
<1>8. CASE CallImprecise
  BY <1>8, ImpreciseSucceeds
<1>9. QED BY <1>1, <1>2, <1>3, <1>4, <1>5, <1>6, <1>7, <1>8 DEF Next

\* Whatever the program, the interpreter fails only on a type the analyzer has
\* wrong, on the names of a format string or on the bounds of a for loop.
THEOREM FailuresExplained == Spec => FailuresNeedDisagreement
<1>1. TypeOK /\ [Next]_vars
        => [outcome = "ok" /\ outcome' \in Failures
              => ~TypesAgree \/ FString \/ ForBound]_vars
  BY AgreementFails
<1>2. QED BY <1>1, TypesCorrect, PTL DEF Spec, FailuresNeedDisagreement

\* A step of a straight program keeps the types in agreement and does not fail.
LEMMA StraightStep ==
  ASSUME Straight, TypeOK, TypesAgree, NoTypeFailure, [Next]_vars
  PROVE  TypesAgree' /\ NoTypeFailure'
<1>1. CASE ApplyOp \/ CastTo \/ Call
  <2>1. \E k \in Nat : \E t \in Scalars : Yield(k, t, t) /\ CanPop(k)
    BY <1>1, ApplyOpAgrees, CastToAgrees, CallAgrees
  <2>2. QED BY <2>1, YieldAgrees DEF NoTypeFailure
<1>2. CASE PushValue \/ PushName
  <2>1. Height \in Nat /\ Below(0) = stack
    BY DEF TypeOK, Height, Below
  <2>2. PICK e \in Operands : /\ Push(e) /\ e.type = e.value
                              /\ e.name \notin Names => NoType \notin {e.type, e.value}
    <3>1. CASE PushValue
      <4>1. PICK kind \in Scalars \ {"NONE"} : Push(ValueOperand(kind, kind))
        BY <3>1 DEF PushValue
      <4>2. /\ ValueOperand(kind, kind) \in Operands
            /\ NoType \notin {ValueOperand(kind, kind).type, ValueOperand(kind, kind).value}
            /\ ValueOperand(kind, kind).type = ValueOperand(kind, kind).value
        BY KindsAreNoFailures DEF ValueOperand, Operands, MaybeScalars
      <4>3. QED BY <4>1, <4>2
    <3>2. CASE PushName
      <4>1. PICK n \in Names : Push(NameOperand(n))
        BY <3>2 DEF PushName
      <4>2. /\ NameOperand(n) \in Operands /\ NameOperand(n).name \in Names
            /\ NameOperand(n).type = NameOperand(n).value
        BY DEF NameOperand, Operands, MaybeScalars
      <4>3. QED BY <4>1, <4>2
    <3>3. QED BY <1>2, <3>1, <3>2
  <2>3. stack' = Append(Below(0), e) /\ UNCHANGED <<declared, bound, outcome>>
    BY <2>1, <2>2 DEF Push
  <2>4. QED BY <2>1, <2>2, <2>3, PushedOperand
         DEF TypesAgree, VariablesAgree, NoTypeFailure
<1>3. CASE Assign
  <2>1. CanPop(1) /\ stack' = Below(1)
    BY <1>3 DEF Assign
  <2>2. 1 <= Height /\ ~Unbound(1) /\ ValueOf(Top) = TypeOf(Top)
    BY <2>1, AcceptedKinds, AcceptedOperand, TopOperand
  <2>3. OperandsAgree'
    BY <2>1, <2>2, PoppedStack DEF TypesAgree
  <2>4. VariablesAgree'
    BY <1>3, <2>2 DEF Assign, TypesAgree, VariablesAgree, TypeOK
  <2>5. NoTypeFailure'
    BY <1>3, <2>2, KindsAreNoFailures DEF Assign, Result, NoTypeFailure
  <2>6. QED BY <2>3, <2>4, <2>5 DEF TypesAgree
<1>4. CASE EndOfLine \/ Condition
  <2>1. NoTypeFailure'
    <3>1. outcome = "ok"
      BY <1>4 DEF EndOfLine, Condition, CanPop
    <3>2. CASE outcome' \in Failures
      BY <1>4, <3>1, <3>2, AgreementFails DEF Next, Straight, FString, ForBound
    <3>3. QED BY <3>2 DEF NoTypeFailure
  <2>2. QED BY <1>4, <2>1, EmptyStack
         DEF EndOfLine, Condition, TypesAgree, VariablesAgree
<1>5. CASE ForLoop
  BY <1>5, EmptyStack DEF ForLoop, TypesAgree, VariablesAgree, TypeOK, NoTypeFailure
<1>6. CASE OperatorError \/ CallError
  BY <1>6, KindsAreNoFailures
     DEF OperatorError, CallError, TypesAgree, VariablesAgree, OperandsAgree, NoTypeFailure
<1>7. CASE FString \/ AssignInBranch \/ ForNothing \/ ForBound \/ CallImprecise
  BY <1>7 DEF Straight, FString, AssignInBranch, ForNothing, ForBound, CallImprecise
<1>8. CASE UNCHANGED vars
  BY <1>8 DEF vars, TypesAgree, VariablesAgree, OperandsAgree, NoTypeFailure
<1>9. QED BY <1>1, <1>2, <1>3, <1>4, <1>5, <1>6, <1>7, <1>8 DEF Next

\* No step changes the constructs of the program.
LEMMA FeaturesFixed ==
  ASSUME [Next]_vars
  PROVE  features' = features
BY DEF Next, vars, PushValue, PushName, Push, ApplyOp, OperatorError, CastTo, Call, CallImprecise,
       CallYields, CallError, Assign, FString, EndOfLine, Condition, AssignInBranch, ForLoop, ForNothing, ForBound,
       Yield

LEMMA StraightInvariant == Spec => [](Straight => TypesAgree /\ NoTypeFailure)
<1>1. Init => TypesAgree /\ NoTypeFailure
  BY KindsAreNoFailures
     DEF Init, TypesAgree, VariablesAgree, OperandsAgree, NoTypeFailure
<1>2. TypeOK /\ (Straight => TypesAgree /\ NoTypeFailure) /\ [Next]_vars
        => (Straight => TypesAgree /\ NoTypeFailure)'
  BY StraightStep, FeaturesFixed DEF Straight
<1>3. QED BY <1>1, <1>2, TypesCorrect, PTL DEF Spec

\* On a straight program every operand and every variable has exactly the kind
\* the analyzer computed for it.
THEOREM StraightAgreement == Spec => []StraightTypesAgree
BY StraightInvariant, PTL DEF StraightTypesAgree

\* ... so the interpreter neither throws for the kind of an operand nor takes a
\* value for one of another class.
THEOREM StraightSafety == Spec => []StraightNeverFails
BY StraightInvariant, PTL DEF StraightNeverFails

-----------------------------------------------------------------------------
(* Scopes: where a variable has a value *)

\* An entry of the table, a chain of blocks, and what opens one.
Entry == [level : Int, next : Nat]
Chain == [kind : {"if", "while", "for", "try", "else", "catch", "finally"},
          entry : SUBSET ScopeVars, ends : SUBSET ScopeVars, head : ScopeVars]
Openers == {"if", "while", "for", "try"}

\* The counts reach as deep as the chains, and count at least one block each.
ScopeTypes ==
  /\ verdict \in {"analyzing", "bodies", "rejected"}
  /\ table \in [ScopeVars -> Entry]
  /\ nextConditionalLevel \in Seq(Nat)
  /\ Len(nextConditionalLevel) >= 2 /\ Len(nextConditionalLevel) >= Len(chains) + 1
  /\ nextConditionalLevel[1] = 1
  /\ chains \in Seq(Chain)
  /\ \A i \in DOMAIN chains : nextConditionalLevel[i + 1] >= 1
  /\ valued \in SUBSET ScopeVars
  /\ chainCount \in Nat /\ (chains # <<>> => chainCount >= 1)
  /\ spread \in [ScopeVars -> {Outside, Many} \cup (0..chainCount)]
  /\ verdict = "bodies" => chains = <<>>

\* The variable has a value here and at the end of each block within chain i.
Sure(x, i) ==
  /\ x \in valued
  /\ \A j \in DOMAIN chains : j > i => x \in chains[j].entry /\ x \in chains[j].ends

\* Chain i has its number of blocks by the kind it is at.
Counted(kind, b) ==
  CASE kind \in Openers             -> b = 1
    [] kind \in {"else", "catch"} -> b = 2
    [] OTHER                      -> b \in {2, 3}

\* A variable that only the chain being read assigns: its count is that of the
\* blocks so far, or what they all assign is left out.
InChain(x) ==
  LET k == table[x].next
      b == nextConditionalLevel[2]
  IN /\ table[x].level >= 1 /\ k <= b
     /\ (k = b \/ k >= 2) => Sure(x, 1)
     /\ k >= b - 1 => x \in chains[1].ends

\* One that a chain behind us has assigned.
Behind(x) == (table[x].level = 0 \/ table[x].next >= 2) => Sure(x, 0)

VariableOK(x) ==
  /\ spread[x] = 0 => table[x] = Undeclared
  /\ spread[x] = Outside => table[x].level = 0 /\ table[x].next \in {0, 1} /\ Sure(x, 0)
  /\ (spread[x] >= 1 /\ spread[x] = chainCount /\ chains # <<>>) => InChain(x)
  /\ (spread[x] >= 1 /\ (spread[x] < chainCount \/ chains = <<>>)) =>
       table[x].level >= 0 /\ Behind(x)

\* What is known of the chain being read and of each variable: a variable that
\* this chain alone assigns, or one before it, is counted in every block only if
\* it has a value on every way.
ScopeInv ==
  /\ ScopeTypes
  /\ chains # <<>> => /\ Counted(chains[1].kind, nextConditionalLevel[2])
                      /\ nextConditionalLevel[2] = 1 => chains[1].ends = ScopeVars
  /\ \A x \in ScopeVars : VariableOK(x)
  /\ \A use \in loose : use[2] = Many

LEMMA FrontChains ==
  ASSUME ScopeTypes, chains # <<>>
  PROVE  /\ Front(chains) \in Seq(Chain) /\ Len(Front(chains)) = Len(chains) - 1
         /\ \A j \in 1..(Len(chains) - 1) : Front(chains)[j] = chains[j]
         /\ Last(chains) = chains[Len(chains)] /\ Last(chains) \in Chain
         /\ Len(chains) \in Nat \ {0}
<1>1. chains \in Seq(Chain) /\ Len(chains) \in Nat \ {0}
  BY DEF ScopeTypes
<1>2. Front(chains) = SubSeq(chains, 1, Len(chains) - 1)
  BY DEF Front
<1>3. Len(chains) - 1 \in Nat /\ Len(chains) - 1 <= Len(chains)
  BY <1>1
<1>4. \A j \in 1..(Len(chains) - 1) : chains[j] \in Chain
  BY <1>1
<1>5. Front(chains) \in Seq(Chain) /\ Len(Front(chains)) = Len(chains) - 1
      /\ \A j \in 1..(Len(chains) - 1) : Front(chains)[j] = chains[j]
  <2>1. PICK m \in Nat : m = Len(chains) - 1
    BY <1>3
  <2>2. \A j \in 1..m : chains[j] \in Chain
    BY <1>4, <2>1
  <2>3. SubSeq(chains, 1, m) = [j \in 1..m |-> chains[j]]
    BY <1>1, <2>1
  <2>4. SubSeq(chains, 1, m) \in [1..m -> Chain]
    BY <2>2, <2>3
  <2>5. Front(chains) \in Seq(Chain) /\ Len(Front(chains)) = m
    <3>1. PICK f : f = SubSeq(chains, 1, m)
      OBVIOUS
    <3>2. f \in [1..m -> Chain]
      BY <2>4, <3>1
    <3>3. f \in Seq(Chain) /\ Len(f) = m
      BY <2>1, <3>2
    <3> QED
      BY <1>2, <2>1, <3>1, <3>3
  <2> QED
    BY <1>2, <2>1, <2>3, <2>5
<1> QED
  BY <1>1, <1>5 DEF Last

LEMMA ScopeFacts ==
  ASSUME ScopeTypes
  PROVE  /\ Len(chains) \in Nat /\ (Len(chains) = 0 <=> chains = <<>>)
         /\ DOMAIN chains = 1..Len(chains) /\ Len(nextConditionalLevel) \in Nat
         /\ \A i \in 1..Len(chains) :
              nextConditionalLevel[i + 1] \in Nat /\ nextConditionalLevel[i + 1] >= 1
         /\ nextConditionalLevel[2] \in Nat
<1>1. /\ Len(chains) \in Nat /\ (Len(chains) = 0 <=> chains = <<>>)
      /\ DOMAIN chains = 1..Len(chains) /\ Len(nextConditionalLevel) \in Nat
  BY DEF ScopeTypes
<1>2. \A i \in 1..Len(nextConditionalLevel) : nextConditionalLevel[i] \in Nat
  BY DEF ScopeTypes
<1>3. \A i \in 1..Len(chains) : i + 1 \in 1..Len(nextConditionalLevel)
  BY <1>1 DEF ScopeTypes
<1>4. 2 \in 1..Len(nextConditionalLevel)
  BY <1>1 DEF ScopeTypes
<1> QED
  BY <1>1, <1>2, <1>3, <1>4 DEF ScopeTypes

-----------------------------------------------------------------------------
(* Lines *)

LEMMA AssignScope ==
  ASSUME ScopeInv, NEW x \in ScopeVars, AssignVariable(x)
  PROVE  ScopeInv'
<1> DEFINE n == Len(chains)
<1>1. /\ ScopeTypes /\ n \in Nat /\ chainCount \in Nat /\ (n > 0 => chainCount >= 1)
      /\ table \in [ScopeVars -> Entry]
      /\ spread \in [ScopeVars -> {Outside, Many} \cup (0..chainCount)]
      /\ nextConditionalLevel[1] = 1 /\ (n = 0 <=> chains = <<>>)
  BY DEF ScopeInv, ScopeTypes
<1>2. /\ table' = [table EXCEPT ![x] = Declared(x)] /\ valued' = valued \cup {x} /\ Note(x)
      /\ UNCHANGED <<verdict, nextConditionalLevel, chains, loose, chainCount>>
  BY DEF AssignVariable
<1>3. PICK d : d = Declared(x)
  OBVIOUS
<1>4. PICK s : s = CASE spread[x] = Outside \/ n = 0                    -> Outside
                     [] n = 1 /\ spread[x] \in {0, chainCount}          -> chainCount
                     [] OTHER                                           -> Many
  OBVIOUS
<1>5. spread' = [spread EXCEPT ![x] = s]
  BY <1>1, <1>2, <1>4 DEF Note, conditionalLevel
<1>6. n > 0 => nextConditionalLevel[n + 1] \in Nat /\ nextConditionalLevel[n + 1] >= 1
  <2>1. n > 0 => n \in DOMAIN chains /\ n + 1 \in 1..Len(nextConditionalLevel)
    BY <1>1 DEF ScopeTypes
  <2> QED
    BY <1>1, <2>1 DEF ScopeTypes
<1>7. d \in Entry /\ (d.level >= 0 \/ d = table[x])
  BY <1>1, <1>3, <1>6 DEF Declared, Entry, conditionalLevel, Branches
<1>8. \A y \in ScopeVars \ {x} : table'[y] = table[y] /\ spread'[y] = spread[y]
  BY <1>1, <1>2, <1>5
<1>9. table'[x] = d /\ spread'[x] = s
  BY <1>1, <1>2, <1>3, <1>5
<1>10. \A y, i : Sure(y, i) => Sure(y, i)'
  BY <1>2 DEF Sure
<1>11. n <= 1 => Sure(x, n)'
  BY <1>1, <1>2 DEF Sure, ScopeTypes
<1>12. ScopeTypes'
  BY <1>1, <1>2, <1>3, <1>4, <1>5, <1>7 DEF ScopeTypes
<1>13. ASSUME NEW y \in ScopeVars \ {x}
       PROVE  VariableOK(y)'
  BY <1>2, <1>8, <1>10 DEF ScopeInv, VariableOK, InChain, Behind
<1>14. VariableOK(x)'
  <2>1. VariableOK(x)
    BY DEF ScopeInv
  <2>2. CASE n = 0
    <3>1. s = Outside
      BY <1>4, <2>2
    <3>2. d = [level |-> 0, next |-> 1]
      BY <1>1, <1>3, <2>2 DEF Declared, conditionalLevel, Branches
    <3> QED
      BY <1>1, <1>2, <1>9, <1>11, <2>2, <3>1, <3>2 DEF VariableOK, Outside
  <2>3. CASE n > 0 /\ spread[x] = Outside
    <3>1. s = Outside
      BY <1>1, <1>4, <2>3 DEF Outside
    <3>2. table[x].level = 0 /\ table[x].next \in {0, 1} /\ Sure(x, 0)
      BY <2>1, <2>3 DEF VariableOK
    <3>3. d = table[x]
      BY <1>1, <1>3, <2>3, <3>2 DEF Declared, conditionalLevel, Undeclared
    <3> QED
      BY <1>9, <1>10, <3>1, <3>2, <3>3 DEF VariableOK, Outside
  <2>4. CASE n > 0 /\ spread[x] # Outside /\ ~(n = 1 /\ spread[x] \in {0, chainCount})
    BY <1>4, <1>9, <2>4 DEF VariableOK, Many, Outside
  <2>5. CASE n = 1 /\ spread[x] \in {0, chainCount}
    <3> DEFINE b == nextConditionalLevel[2]
    <3>1. s = chainCount
      BY <1>1, <1>4, <2>5 DEF Outside
    <3>2. b \in Nat /\ b >= 1 /\ chains # <<>> /\ (b = 1 => chains[1].ends = ScopeVars)
      BY <1>1, <1>6, <2>5 DEF ScopeInv
    <3>3. CASE spread[x] = 0
      <4>1. d = [level |-> 1, next |-> IF b = 1 THEN 1 ELSE 0]
        BY <1>3, <2>1, <2>5, <3>3 DEF VariableOK, Declared, conditionalLevel, Branches
      <4>2. InChain(x)'
        BY <1>2, <1>9, <1>11, <2>5, <3>2, <4>1 DEF InChain
      <4> QED
        BY <1>1, <1>2, <1>9, <2>5, <3>1, <3>2, <4>2 DEF VariableOK, Outside
    <3>4. CASE spread[x] = chainCount /\ chainCount >= 1
      <4>1. InChain(x)
        BY <2>1, <3>2, <3>4 DEF VariableOK
      <4>2. PICK l \in Int, k \in Nat : table[x] = [level |-> l, next |-> k]
        BY <1>1 DEF Entry
      <4>3. d = [level |-> l, next |-> IF b - 1 = k THEN k + 1 ELSE k]
        BY <1>3, <2>5, <4>1, <4>2 DEF InChain, Declared, conditionalLevel, Branches, Undeclared
      <4>4. InChain(x)'
        BY <1>2, <1>9, <1>11, <2>5, <3>2, <4>1, <4>2, <4>3 DEF InChain
      <4> QED
        BY <1>1, <1>2, <1>9, <2>5, <3>1, <3>2, <4>4 DEF VariableOK, Outside
    <3> QED
      BY <1>1, <2>5, <3>3, <3>4
  <2> QED
    BY <1>1, <2>2, <2>3, <2>4, <2>5
<1> QED
  BY <1>2, <1>12, <1>13, <1>14 DEF ScopeInv

LEMMA UseScope ==
  ASSUME ScopeInv, NEW x \in ScopeVars, Use(x)
  PROVE  ScopeInv'
<1>1. UNCHANGED <<table, nextConditionalLevel, chains, valued, spread, chainCount>>
      /\ verdict' \in {verdict, "rejected"}
  BY DEF Use
<1>2. ScopeTypes'
  BY <1>1 DEF ScopeInv, ScopeTypes
<1>3. \A use \in loose' : use[2] = Many
  <2>1. CASE loose' = loose
    BY <2>1 DEF ScopeInv
  <2>2. CASE /\ ~(table[x] = Undeclared \/ table[x].level > conditionalLevel)
             /\ conditionalLevel = 0 /\ x \notin valued
             /\ loose' = loose \cup {<<x, spread[x]>>}
    <3>1. VariableOK(x) /\ chains = <<>> /\ table[x] # Undeclared /\ ~(table[x].level > 0)
      BY <2>2 DEF ScopeInv, ScopeTypes, conditionalLevel
    <3>2. table[x].level \in Int /\ spread[x] \in {Outside, Many} \cup (0..chainCount)
      BY DEF ScopeInv, ScopeTypes, Entry
    <3>3. spread[x] = Many
      BY <2>2, <3>1, <3>2 DEF VariableOK, Behind, Sure
    <3> QED
      BY <2>2, <3>3 DEF ScopeInv
  <2> QED
    BY <2>1, <2>2 DEF Use
<1> QED
  BY <1>1, <1>2, <1>3 DEF ScopeInv, VariableOK, InChain, Behind, Sure

-----------------------------------------------------------------------------
(* Blocks *)

LEMMA OpenScope ==
  ASSUME ScopeInv, NEW kind \in Openers, NEW x \in ScopeVars, Open(kind, x)
  PROVE  ScopeInv'
<1> DEFINE top == [kind |-> kind, entry |-> valued, ends |-> ScopeVars, head |-> x]
<1>1. PICK n \in Nat : n = Len(chains)
  BY ScopeFacts DEF ScopeInv
<1>2. /\ ScopeTypes /\ chains \in Seq(Chain) /\ DOMAIN chains = 1..n /\ (n = 0 <=> chains = <<>>)
      /\ chainCount \in Nat /\ (n > 0 => chainCount >= 1)
  BY <1>1, ScopeFacts DEF ScopeInv, ScopeTypes
<1>3. /\ table \in [ScopeVars -> Entry] /\ valued \in SUBSET ScopeVars
      /\ spread \in [ScopeVars -> {Outside, Many} \cup (0..chainCount)]
  BY DEF ScopeInv, ScopeTypes
<1>4. /\ nextConditionalLevel \in Seq(Nat) /\ nextConditionalLevel[1] = 1
      /\ Len(nextConditionalLevel) \in Nat /\ Len(nextConditionalLevel) >= 2
      /\ Len(nextConditionalLevel) >= n + 1
      /\ \A i \in 1..n : nextConditionalLevel[i + 1] \in Nat /\ nextConditionalLevel[i + 1] >= 1
  BY <1>1, ScopeFacts DEF ScopeInv, ScopeTypes
<1>5. /\ verdict = "analyzing" /\ verdict' = verdict /\ loose' = loose /\ DeclareHead(kind, x)
      /\ chains' = Append(chains, top)
      /\ valued' = IF kind = "for" THEN valued \cup {x} ELSE valued
      /\ chainCount' = IF n = 0 THEN chainCount + 1 ELSE chainCount
  BY <1>1 DEF Open, Analyzing, conditionalLevel
<1>6. nextConditionalLevel' = IF Len(nextConditionalLevel) <= n + 1
                              THEN Append(nextConditionalLevel, 1)
                              ELSE [nextConditionalLevel EXCEPT ![n + 2] = 1]
  BY <1>1 DEF Open, conditionalLevel
<1>7. top \in Chain /\ top.kind \in Openers /\ top.entry = valued /\ top.ends = ScopeVars
  BY <1>3 DEF Chain, Openers
<1> HIDE DEF top
<1>8. /\ chains' \in Seq(Chain) /\ Len(chains') = n + 1 /\ chains'[n + 1] = top
      /\ \A i \in 1..n : chains'[i] = chains[i]
      /\ DOMAIN chains' = 1..(n + 1) /\ chains' # <<>>
  BY <1>1, <1>2, <1>5, <1>7
<1>9. /\ nextConditionalLevel' \in Seq(Nat) /\ Len(nextConditionalLevel') >= 2
      /\ Len(nextConditionalLevel') >= n + 2 /\ nextConditionalLevel'[n + 2] = 1
      /\ \A i \in 1..(n + 1) : nextConditionalLevel'[i] = nextConditionalLevel[i]
  <2>1. CASE Len(nextConditionalLevel) <= n + 1
    <3>1. Len(nextConditionalLevel) = n + 1
          /\ nextConditionalLevel' = Append(nextConditionalLevel, 1)
      BY <1>4, <1>6, <2>1
    <3> QED
      BY <1>4, <3>1
  <2>2. CASE ~(Len(nextConditionalLevel) <= n + 1)
    <3>1. n + 2 \in 1..Len(nextConditionalLevel)
          /\ nextConditionalLevel' = [nextConditionalLevel EXCEPT ![n + 2] = 1]
      BY <1>4, <1>6, <2>2
    <3> QED
      BY <1>4, <3>1
  <2> QED
    BY <2>1, <2>2
<1>10. /\ \A y \in ScopeVars \ {x} : table'[y] = table[y] /\ spread'[y] = spread[y]
       /\ \/ table'[x] = table[x] /\ spread'[x] = spread[x]
          \/ /\ table'[x] = [level |-> 0, next |-> 0]
             /\ spread'[x] = Many \/ (spread[x] = Outside /\ spread'[x] = Outside)
       /\ table' \in [ScopeVars -> Entry]
       /\ spread' \in [ScopeVars -> {Outside, Many} \cup (0..chainCount)]
  <2>1. CASE UNCHANGED <<table, spread>>
    BY <1>3, <2>1
  <2>2. CASE /\ table' = [table EXCEPT ![x] = [level |-> 0, next |-> 0]]
             /\ spread' = [spread EXCEPT ![x] = IF @ = Outside THEN @ ELSE Many]
    <3>1. [level |-> 0, next |-> 0] \in Entry
      BY DEF Entry
    <3> QED
      BY <1>3, <2>2, <3>1
  <2> QED
    BY <1>5, <2>1, <2>2 DEF DeclareHead
<1>11. ScopeTypes'
  <2>1. chainCount' \in Nat /\ chainCount' >= 1 /\ chainCount' >= chainCount
    BY <1>2, <1>5
  <2>2. spread' \in [ScopeVars -> {Outside, Many} \cup (0..chainCount')]
    <3>1. \A i \in 0..chainCount : i \in 0..chainCount'
      BY <1>2, <2>1
    <3> QED
      BY <1>10, <3>1
  <2>3. \A i \in DOMAIN chains' : nextConditionalLevel'[i + 1] >= 1
    <3>1. ASSUME NEW i \in 1..n
          PROVE  nextConditionalLevel'[i + 1] >= 1
      <4>1. i + 1 \in 1..(n + 1)
        OBVIOUS
      <4> QED
        BY <1>4, <1>9, <4>1
    <3>2. nextConditionalLevel'[(n + 1) + 1] >= 1
      BY <1>9
    <3>3. \A i \in DOMAIN chains' : i \in 1..n \/ i = n + 1
      BY <1>8
    <3> QED
      BY <3>1, <3>2, <3>3
  <2>4. valued' \in SUBSET ScopeVars
    BY <1>3, <1>5
  <2>5. nextConditionalLevel'[1] = 1
    BY <1>4, <1>9
  <2>6. Len(nextConditionalLevel') >= Len(chains') + 1
    BY <1>8, <1>9
  <2> QED
    BY <1>2, <1>5, <1>8, <1>9, <1>10, <2>1, <2>2, <2>3, <2>4, <2>5, <2>6 DEF ScopeTypes
<1>12. ASSUME NEW y \in ScopeVars, NEW i \in Nat, i <= n, Sure(y, i)
       PROVE  Sure(y, i)'
  <2>1. y \in valued /\ y \in valued'
    BY <1>5, <1>12 DEF Sure
  <2>2. ASSUME NEW j \in 1..(n + 1), j > i
        PROVE  y \in chains'[j].entry /\ y \in chains'[j].ends
    <3>1. CASE j = n + 1
      BY <1>7, <1>8, <2>1, <3>1
    <3>2. CASE j \in 1..n
      BY <1>2, <1>8, <1>12, <2>2, <3>2 DEF Sure
    <3> QED
      BY <3>1, <3>2
  <2> QED
    BY <1>8, <2>1, <2>2 DEF Sure
<1>13. n = 0 => chains'[1] = top /\ nextConditionalLevel'[2] = 1
  BY <1>8, <1>9
<1>14. n > 0 => /\ chains'[1] = chains[1] /\ nextConditionalLevel'[2] = nextConditionalLevel[2]
                /\ chainCount' = chainCount /\ chains # <<>>
  <2>1. n > 0 => 1 \in 1..n /\ 2 \in 1..(n + 1)
    OBVIOUS
  <2> QED
    BY <1>2, <1>5, <1>8, <1>9, <2>1
<1>15. /\ Counted(chains'[1].kind, nextConditionalLevel'[2])
       /\ nextConditionalLevel'[2] = 1 => chains'[1].ends = ScopeVars
  <2>1. CASE n = 0
    BY <1>7, <1>13, <2>1 DEF Counted, Openers
  <2>2. CASE n > 0
    BY <1>14, <2>2 DEF ScopeInv
  <2> QED
    BY <2>1, <2>2
<1>16. ASSUME NEW y \in ScopeVars, table'[y] = table[y] /\ spread'[y] = spread[y]
       PROVE  VariableOK(y)'
  <2>1. VariableOK(y) /\ spread[y] \in {Outside, Many} \cup (0..chainCount)
    BY <1>3 DEF ScopeInv
  <2>2. Sure(y, 0) => Sure(y, 0)'
    BY <1>12
  <2>3. Behind(y) => Behind(y)'
    BY <1>16, <2>2 DEF Behind
  <2>4. CASE n = 0
    <3>1. ~(spread[y] = chainCount')
      BY <1>2, <1>5, <2>1, <2>4 DEF Outside, Many
    <3> QED
      BY <1>2, <1>16, <2>1, <2>2, <2>3, <2>4, <3>1 DEF VariableOK
  <2>5. CASE n > 0
    <3>1. Sure(y, 1) => Sure(y, 1)'
      BY <1>12, <2>5
    <3>2. InChain(y) => InChain(y)'
      BY <1>14, <1>16, <2>5, <3>1 DEF InChain
    <3> QED
      BY <1>8, <1>14, <1>16, <2>1, <2>2, <2>3, <2>5, <3>2 DEF VariableOK
  <2> QED
    BY <2>4, <2>5
<1>17. ASSUME table'[x] = [level |-> 0, next |-> 0],
              spread'[x] = Many \/ (spread[x] = Outside /\ spread'[x] = Outside)
       PROVE  VariableOK(x)'
  <2>1. spread[x] = Outside => Sure(x, 0)
    BY DEF ScopeInv, VariableOK
  <2>2. Sure(x, 0) => Sure(x, 0)'
    BY <1>12
  <2> QED
    BY <1>17, <2>1, <2>2 DEF VariableOK, Outside, Many
<1>18. \A y \in ScopeVars : VariableOK(y)'
  BY <1>10, <1>16, <1>17
<1> QED
  BY <1>5, <1>8, <1>11, <1>15, <1>18 DEF ScopeInv

LEMMA NextBlockScope ==
  ASSUME ScopeInv, NEW kind \in {"else", "catch", "finally"}, NextBlock(kind)
  PROVE  ScopeInv'
<1> DEFINE chain == Last(chains)
           top   == [chain EXCEPT !.kind = kind,
                                  !.ends = IF kind = "finally" THEN ScopeVars ELSE valued]
<1>1. PICK n \in Nat \ {0} : n = Len(chains)
  BY ScopeFacts DEF ScopeInv, NextBlock
<1>2. /\ ScopeTypes /\ chains \in Seq(Chain) /\ DOMAIN chains = 1..n /\ chains # <<>>
      /\ chainCount \in Nat /\ chainCount >= 1
      /\ table \in [ScopeVars -> Entry] /\ valued \in SUBSET ScopeVars
  BY <1>1, ScopeFacts DEF ScopeInv, ScopeTypes
<1>3. /\ nextConditionalLevel \in Seq(Nat) /\ nextConditionalLevel[1] = 1
      /\ Len(nextConditionalLevel) \in Nat /\ Len(nextConditionalLevel) >= 2
      /\ Len(nextConditionalLevel) >= n + 1 /\ nextConditionalLevel[2] \in Nat
      /\ \A i \in 1..n : nextConditionalLevel[i + 1] \in Nat /\ nextConditionalLevel[i + 1] >= 1
  BY <1>1, ScopeFacts DEF ScopeInv, ScopeTypes
<1>4. /\ verdict = "analyzing" /\ <<chain.kind, kind>> \in Follows
      /\ valued' = AtStart(chain, kind) /\ chains' = Append(Front(chains), top)
      /\ nextConditionalLevel' =
           [nextConditionalLevel EXCEPT ![n + 1] = nextConditionalLevel[n + 1] + 1]
      /\ UNCHANGED <<verdict, table, loose, spread, chainCount>>
  <2>1. n + 1 \in DOMAIN nextConditionalLevel
    BY <1>3
  <2> QED
    BY <1>1, <2>1 DEF NextBlock, Analyzing, conditionalLevel
<1>5. /\ Front(chains) \in Seq(Chain) /\ Len(Front(chains)) = n - 1
      /\ \A j \in 1..(n - 1) : Front(chains)[j] = chains[j]
      /\ chain = chains[n] /\ chain \in Chain
  BY <1>1, <1>2, FrontChains
<1>6. /\ top \in Chain /\ top.kind = kind /\ top.entry = chain.entry
      /\ top.ends = (IF kind = "finally" THEN ScopeVars ELSE valued)
  BY <1>2, <1>5 DEF Chain
<1> HIDE DEF top, chain
<1>7. /\ chains' \in Seq(Chain) /\ Len(chains') = n /\ chains'[n] = top
      /\ \A j \in 1..(n - 1) : chains'[j] = chains[j]
      /\ DOMAIN chains' = 1..n /\ chains' # <<>>
  <2>1. PICK f : f = Front(chains)
    OBVIOUS
  <2>2. f \in Seq(Chain) /\ Len(f) = n - 1 /\ \A j \in 1..(n - 1) : f[j] = chains[j]
    BY <1>5, <2>1
  <2>3. chains' = Append(f, top)
    BY <1>4, <2>1
  <2>4. chains' \in Seq(Chain) /\ Len(chains') = n /\ chains'[n] = top
    BY <1>6, <2>2, <2>3
  <2>5. \A j \in 1..(n - 1) : chains'[j] = f[j]
    BY <2>2, <2>3
  <2> QED
    BY <2>2, <2>4, <2>5
<1>8. /\ nextConditionalLevel' \in Seq(Nat)
      /\ Len(nextConditionalLevel') = Len(nextConditionalLevel)
      /\ nextConditionalLevel'[n + 1] = nextConditionalLevel[n + 1] + 1
      /\ \A i \in 1..Len(nextConditionalLevel) :
           i # n + 1 => nextConditionalLevel'[i] = nextConditionalLevel[i]
      /\ nextConditionalLevel[n + 1] \in Nat
  <2>1. n + 1 \in 1..Len(nextConditionalLevel)
    BY <1>3
  <2>2. PICK v \in Nat : v = nextConditionalLevel[n + 1]
    BY <1>3
  <2>3. nextConditionalLevel' = [nextConditionalLevel EXCEPT ![n + 1] = v + 1]
    BY <1>4, <2>2
  <2> QED
    BY <1>3, <2>1, <2>2, <2>3
<1>9. AtStart(chain, kind) \subseteq ScopeVars
  BY <1>2, <1>5 DEF AtStart, Chain
<1>10. ScopeTypes'
  <2>1. ASSUME NEW i \in 1..n
        PROVE  nextConditionalLevel'[i + 1] >= 1
    <3>1. CASE i = n
      BY <1>8, <3>1
    <3>2. CASE i # n
      <4>1. i + 1 \in 1..Len(nextConditionalLevel) /\ i + 1 # n + 1
        BY <1>3, <3>2
      <4> QED
        BY <1>3, <1>8, <4>1
    <3> QED
      BY <3>1, <3>2
  <2>2. nextConditionalLevel'[1] = 1
    BY <1>3, <1>8
  <2>3. Len(nextConditionalLevel') >= 2 /\ Len(nextConditionalLevel') >= Len(chains') + 1
    BY <1>3, <1>7, <1>8
  <2>4. valued' \in SUBSET ScopeVars
    BY <1>4, <1>9
  <2> QED
    BY <1>2, <1>4, <1>7, <1>8, <2>1, <2>2, <2>3, <2>4 DEF ScopeTypes
<1>11. ASSUME NEW y \in ScopeVars, NEW i \in Nat, i < n, Sure(y, i)
       PROVE  Sure(y, i)'
  <2>1. y \in valued /\ y \in chain.entry /\ y \in chain.ends
    BY <1>2, <1>5, <1>11 DEF Sure
  <2>2. y \in valued'
    BY <1>4, <2>1 DEF AtStart
  <2>3. y \in top.entry /\ y \in top.ends
    BY <1>6, <2>1
  <2>4. ASSUME NEW j \in 1..n, j > i
        PROVE  y \in chains'[j].entry /\ y \in chains'[j].ends
    <3>1. CASE j = n
      BY <1>7, <2>3, <3>1
    <3>2. CASE j \in 1..(n - 1)
      <4>1. y \in chains[j].entry /\ y \in chains[j].ends
        BY <1>2, <1>11, <2>4 DEF Sure
      <4> QED
        BY <1>7, <3>2, <4>1
    <3> QED
      BY <3>1, <3>2
  <2> QED
    BY <1>7, <2>2, <2>4 DEF Sure
\* The first chain, when it is the one that goes on.
<1>12. n = 1 => /\ chain = chains[1] /\ chains'[1] = top
                /\ nextConditionalLevel'[2] = nextConditionalLevel[2] + 1
                /\ nextConditionalLevel[2] >= 1 /\ Counted(chain.kind, nextConditionalLevel[2])
  BY <1>2, <1>3, <1>5, <1>7, <1>8 DEF ScopeInv
<1>13. n = 1 => Counted(kind, nextConditionalLevel'[2])
  BY <1>4, <1>12 DEF Follows, Counted, Openers
<1>14. n > 1 => chains'[1] = chains[1] /\ nextConditionalLevel'[2] = nextConditionalLevel[2]
  <2>1. n > 1 => 1 \in 1..(n - 1) /\ 2 \in 1..Len(nextConditionalLevel) /\ 2 # n + 1
    BY <1>3
  <2> QED
    BY <1>7, <1>8, <2>1
<1>15. /\ Counted(chains'[1].kind, nextConditionalLevel'[2])
       /\ nextConditionalLevel'[2] = 1 => chains'[1].ends = ScopeVars
  <2>1. CASE n = 1
    BY <1>3, <1>6, <1>12, <1>13, <2>1
  <2>2. CASE n > 1
    BY <1>2, <1>14, <2>2 DEF ScopeInv
  <2> QED
    BY <2>1, <2>2
<1>16. ASSUME NEW y \in ScopeVars, InChain(y)
       PROVE  InChain(y)'
  <2>1. PICK l \in Int, k \in Nat : table[y] = [level |-> l, next |-> k]
    BY <1>2 DEF Entry
  <2>2. table'[y].level = l /\ table'[y].next = k /\ table[y].level = l /\ table[y].next = k
    BY <1>4, <2>1
  <2>3. CASE n > 1
    <3>1. Sure(y, 1) => Sure(y, 1)'
      BY <1>11, <2>3
    <3> QED
      BY <1>4, <1>14, <1>16, <2>3, <3>1 DEF InChain
  <2>4. CASE n = 1
    <3>1. PICK b \in Nat : b = nextConditionalLevel[2]
      BY <1>3
    <3>2. /\ l >= 1 /\ k <= b /\ b >= 1
          /\ (k = b \/ k >= 2) => y \in valued
          /\ k >= b - 1 => y \in chain.ends
      BY <1>12, <1>16, <2>2, <2>4, <3>1 DEF InChain, Sure
    <3>3. k # b + 1 /\ (k >= (b + 1) - 1 => k = b)
      BY <3>2
    <3>4. k >= (b + 1) - 1 => y \in top.ends
      BY <1>6, <3>2, <3>3
    <3>5. k >= 2 => y \in valued'
      <4>1. ASSUME k >= 2
            PROVE  b = 2 /\ kind = "finally" /\ chain.kind = "catch"
        BY <1>4, <1>12, <2>4, <3>1, <3>2, <4>1 DEF Follows, Counted, Openers
      <4> QED
        BY <1>4, <3>2, <4>1 DEF AtStart
    <3>6. y \in valued' => Sure(y, 1)'
      BY <1>7, <2>4 DEF Sure
    <3>7. nextConditionalLevel'[2] = b + 1 /\ chains'[1] = top
      BY <1>12, <2>4, <3>1
    <3> QED
      BY <2>2, <3>2, <3>3, <3>4, <3>5, <3>6, <3>7 DEF InChain
  <2> QED
    BY <2>3, <2>4
<1>17. ASSUME NEW y \in ScopeVars
       PROVE  VariableOK(y)'
  <2>1. VariableOK(y)
    BY DEF ScopeInv
  <2>2. Sure(y, 0) => Sure(y, 0)'
    BY <1>11
  <2> QED
    BY <1>2, <1>4, <1>7, <1>16, <2>1, <2>2 DEF VariableOK, Behind
<1> QED
  BY <1>4, <1>10, <1>15, <1>17 DEF ScopeInv

LEMMA CloseScope ==
  ASSUME ScopeInv, CloseChain
  PROVE  ScopeInv'
<1> DEFINE chain == Last(chains)
<1>1. PICK n \in Nat \ {0} : n = Len(chains)
  BY ScopeFacts DEF ScopeInv, CloseChain
<1>2. /\ ScopeTypes /\ chains \in Seq(Chain) /\ DOMAIN chains = 1..n /\ chains # <<>>
      /\ chainCount \in Nat /\ chainCount >= 1 /\ valued \in SUBSET ScopeVars
      /\ table \in [ScopeVars -> Entry]
      /\ spread \in [ScopeVars -> {Outside, Many} \cup (0..chainCount)]
  BY <1>1, ScopeFacts DEF ScopeInv, ScopeTypes
<1>3. /\ Len(nextConditionalLevel) >= n + 1 /\ nextConditionalLevel[2] \in Nat
      /\ \A i \in 1..n : nextConditionalLevel[i + 1] \in Nat /\ nextConditionalLevel[i + 1] >= 1
  BY <1>1, ScopeFacts DEF ScopeInv, ScopeTypes
<1>4. PICK b \in Nat : b = nextConditionalLevel[n + 1] /\ b >= 1
  BY <1>3
<1>5. /\ verdict = "analyzing" /\ valued' = AtEnd(chain) /\ chains' = Front(chains)
      /\ table' = IF b = 1 THEN table
                  ELSE [x \in ScopeVars |->
                         IF table[x] # Undeclared /\ table[x].next = b
                         THEN [table[x] EXCEPT !.level = n - 1] ELSE table[x]]
      /\ UNCHANGED <<verdict, nextConditionalLevel, loose, spread, chainCount>>
  BY <1>1, <1>4 DEF CloseChain, Analyzing, conditionalLevel, Branches
<1>6. /\ chains' \in Seq(Chain) /\ Len(chains') = n - 1
      /\ \A j \in 1..(n - 1) : chains'[j] = chains[j]
      /\ chain = chains[n] /\ chain \in Chain
  BY <1>1, <1>2, <1>5, FrontChains
<1>7. DOMAIN chains' = 1..(n - 1) /\ (chains' = <<>> <=> n = 1)
  BY <1>6
<1> HIDE DEF chain
<1>8. \A y \in ScopeVars : \/ table'[y] = table[y]
                           \/ /\ table[y] # Undeclared /\ table[y].next = b /\ b >= 2
                              /\ table'[y] = [level |-> n - 1, next |-> b]
  <2>1. ASSUME NEW y \in ScopeVars
        PROVE  \/ table'[y] = table[y]
               \/ /\ table[y] # Undeclared /\ table[y].next = b /\ b >= 2
                  /\ table'[y] = [level |-> n - 1, next |-> b]
    <3>1. PICK l \in Int, k \in Nat : table[y] = [level |-> l, next |-> k]
      BY <1>2 DEF Entry
    <3>2. [table[y] EXCEPT !.level = n - 1] = [level |-> n - 1, next |-> k] /\ table[y].next = k
      BY <3>1
    <3> QED
      BY <1>4, <1>5, <3>2
  <2> QED
    BY <2>1
<1>9. table' \in [ScopeVars -> Entry]
  <2>1. \A y \in ScopeVars : table'[y] \in Entry
    <3>1. [level |-> n - 1, next |-> b] \in Entry
      BY DEF Entry
    <3> QED
      BY <1>2, <1>8, <3>1
  <2>2. \/ table' = table
        \/ table' = [x \in ScopeVars |-> IF table[x] # Undeclared /\ table[x].next = b
                                         THEN [table[x] EXCEPT !.level = n - 1] ELSE table[x]]
    BY <1>5
  <2> QED
    BY <1>2, <2>1, <2>2
<1>10. ScopeTypes'
  <2>1. AtEnd(chain) \subseteq ScopeVars
    BY <1>2, <1>6 DEF AtEnd, Chain
  <2>2. \A i \in DOMAIN chains' : nextConditionalLevel'[i + 1] >= 1
    BY <1>3, <1>5, <1>7
  <2>3. /\ verdict' = "analyzing" /\ valued' \in SUBSET ScopeVars
        /\ chainCount' = chainCount /\ spread' = spread
        /\ nextConditionalLevel' = nextConditionalLevel
    BY <1>5, <2>1
  <2>4. /\ nextConditionalLevel \in Seq(Nat) /\ nextConditionalLevel[1] = 1
        /\ Len(nextConditionalLevel) >= 2 /\ Len(nextConditionalLevel) >= Len(chains') + 1
    BY <1>2, <1>3, <1>6, ScopeFacts DEF ScopeTypes
  <2> QED
    BY <1>2, <1>6, <1>9, <2>2, <2>3, <2>4 DEF ScopeTypes
<1>11. ASSUME NEW y \in ScopeVars, NEW i \in Nat, i < n, Sure(y, i)
       PROVE  Sure(y, i)'
  <2>1. y \in valued /\ y \in chain.entry /\ y \in chain.ends
    BY <1>2, <1>6, <1>11 DEF Sure
  <2>2. y \in valued'
    BY <1>5, <2>1 DEF AtEnd
  <2>3. ASSUME NEW j \in 1..(n - 1), j > i
        PROVE  y \in chains'[j].entry /\ y \in chains'[j].ends
    BY <1>2, <1>6, <1>11, <2>3 DEF Sure
  <2> QED
    BY <1>7, <2>2, <2>3 DEF Sure
<1>12. n > 1 => /\ chains'[1] = chains[1] /\ chains' # <<>>
                /\ nextConditionalLevel'[2] = nextConditionalLevel[2]
  BY <1>5, <1>6, <1>7
<1>13. ASSUME NEW y \in ScopeVars
       PROVE  VariableOK(y)'
  <2>1. VariableOK(y) /\ spread[y] \in {Outside, Many} \cup (0..chainCount)
    BY <1>2 DEF ScopeInv
  <2>2. Sure(y, 0) => Sure(y, 0)'
    BY <1>11
  <2>3. PICK l \in Int, k \in Nat : table[y] = [level |-> l, next |-> k]
    BY <1>2 DEF Entry
  <2>4. PICK m \in Int, h \in Nat : table'[y] = [level |-> m, next |-> h]
    BY <1>9 DEF Entry
  <2>5. /\ table[y].level = l /\ table[y].next = k /\ table'[y].level = m /\ table'[y].next = h
        /\ h = k /\ (m = l \/ (k = b /\ b >= 2 /\ m = n - 1))
    BY <1>8, <2>3, <2>4
  <2>6. table[y] = Undeclared => table'[y] = Undeclared
    BY <1>8
  <2>7. Behind(y) => Behind(y)'
    BY <2>2, <2>5 DEF Behind
  <2>8. l >= 0 => m >= 0
    BY <2>5
  <2>9. k \in {0, 1} => m = l
    BY <2>5
  <2>10. CASE n = 1
    <3>1. PICK own : own = chains[1] /\ own = chain
      BY <1>6, <2>10
    <3>2. ASSUME InChain(y)
          PROVE  m >= 0 /\ Behind(y)'
      <4>1. /\ l >= 1 /\ k <= b
            /\ (k = b \/ k >= 2) => y \in valued
            /\ k >= b - 1 => y \in own.ends
        BY <1>4, <2>5, <2>10, <3>1, <3>2 DEF InChain, Sure
      <4>2. Counted(own.kind, b)
        BY <1>2, <1>4, <2>10, <3>1 DEF ScopeInv
      <4>3. b <= 3
        BY <4>2 DEF Counted, Openers
      <4>4. k >= 2 => own.kind \notin {"if", "while", "for"}
        BY <4>1, <4>2 DEF Counted, Openers
      <4>5. k >= 2 => y \in valued /\ y \in own.ends
        BY <4>1, <4>3
      <4>6. k >= 2 => y \in valued'
        BY <1>5, <3>1, <4>4, <4>5 DEF AtEnd
      <4>7. k >= 2 => Sure(y, 0)'
        BY <1>7, <2>10, <4>6 DEF Sure
      <4>8. m >= 0 /\ (m = 0 \/ h >= 2 => k >= 2)
        BY <2>5, <2>10, <4>1
      <4> QED
        BY <2>5, <4>7, <4>8 DEF Behind
    <3>3. spread[y] >= 1 => spread[y] = chainCount \/ spread[y] < chainCount
      BY <1>2, <2>1 DEF Outside, Many
    <3>4. spread[y] >= 1 => m >= 0 /\ Behind(y)'
      BY <1>2, <2>1, <2>5, <2>7, <2>8, <3>2, <3>3 DEF VariableOK
    <3> QED
      BY <1>5, <1>7, <2>1, <2>2, <2>5, <2>6, <2>9, <2>10, <3>4 DEF VariableOK
  <2>11. CASE n > 1
    <3>1. Sure(y, 1) => Sure(y, 1)'
      BY <1>11, <2>11
    <3>2. l >= 1 => m >= 1
      BY <2>5, <2>11
    <3>3. InChain(y) => InChain(y)'
      BY <1>12, <2>5, <2>11, <3>1, <3>2 DEF InChain
    <3> QED
      BY <1>2, <1>5, <1>12, <2>1, <2>2, <2>5, <2>6, <2>7, <2>8, <2>9, <2>11, <3>3 DEF VariableOK
  <2> QED
    BY <2>10, <2>11
<1>14. chains' # <<>> => /\ Counted(chains'[1].kind, nextConditionalLevel'[2])
                         /\ nextConditionalLevel'[2] = 1 => chains'[1].ends = ScopeVars
  BY <1>2, <1>7, <1>12 DEF ScopeInv
<1> QED
  BY <1>5, <1>10, <1>13, <1>14 DEF ScopeInv

-----------------------------------------------------------------------------
(* Uses *)

LEMMA ScopeInvInitial == ScopeInit => ScopeInv
<1> SUFFICES ASSUME ScopeInit
             PROVE  ScopeInv
  OBVIOUS
<1>1. /\ verdict = "analyzing" /\ table = [x \in ScopeVars |-> Undeclared] /\ chains = <<>>
      /\ nextConditionalLevel = <<1, 0>> /\ valued = {} /\ loose = {}
      /\ spread = [x \in ScopeVars |-> 0] /\ chainCount = 0
  BY DEF ScopeInit
<1>2. <<1, 0>> \in Seq(Nat) /\ Len(<<1, 0>>) = 2 /\ <<1, 0>>[1] = 1
  OBVIOUS
<1>3. Undeclared \in Entry
  BY DEF Undeclared, Entry
<1>4. <<>> \in Seq(Chain) /\ Len(<<>>) = 0 /\ DOMAIN <<>> = {}
  OBVIOUS
<1>5. ScopeTypes
  BY <1>1, <1>2, <1>3, <1>4 DEF ScopeTypes
<1> QED
  BY <1>1, <1>5 DEF ScopeInv, VariableOK, Outside

\* The counts of the analyzer never bring a variable out of a chain of which
\* some way leaves it without a value, as long as that chain alone assigns it.
THEOREM ScopeInvAlways == ScopeSpec => []ScopeInv
<1>1. ScopeInv /\ [ScopeNext]_scopeVars => ScopeInv'
  <2> SUFFICES ASSUME ScopeInv, [ScopeNext]_scopeVars
               PROVE  ScopeInv'
    OBVIOUS
  <2>1. ASSUME NEW x \in ScopeVars, AssignVariable(x)
        PROVE  ScopeInv'
    BY <2>1, AssignScope
  <2>2. ASSUME NEW x \in ScopeVars, Use(x)
        PROVE  ScopeInv'
    BY <2>2, UseScope
  <2>3. ASSUME NEW x \in ScopeVars, NEW kind \in {"if", "while", "for", "try"}, Open(kind, x)
        PROVE  ScopeInv'
    BY <2>3, OpenScope DEF Openers
  <2>4. ASSUME NEW kind \in {"else", "catch", "finally"}, NextBlock(kind)
        PROVE  ScopeInv'
    BY <2>4, NextBlockScope
  <2>5. CASE CloseChain
    BY <2>5, CloseScope
  <2>6. CASE StartBodies
    <3>1. /\ chains = <<>> /\ verdict' = "bodies"
          /\ UNCHANGED <<table, nextConditionalLevel, chains, valued, loose, spread, chainCount>>
      BY <2>6 DEF StartBodies
    <3> QED
      BY <3>1 DEF ScopeInv, ScopeTypes, VariableOK, InChain, Behind, Sure
  <2>7. CASE UNCHANGED scopeVars
    BY <2>7 DEF scopeVars, ScopeInv, ScopeTypes, VariableOK, InChain, Behind, Sure
  <2> QED
    BY <2>1, <2>2, <2>3, <2>4, <2>5, <2>6, <2>7 DEF ScopeNext
<1> QED
  BY <1>1, ScopeInvInitial, PTL DEF ScopeSpec

\* What the analyzer lets through outside of every block has a value on every
\* way there, but for a variable that several chains, an inner one or the head
\* of a block assign: topVariable with the levels of the table (analyzer.cpp).
THEOREM OuterUsesAreBoundAlways == ScopeSpec => []OuterUsesAreBound
<1>1. ScopeInv => OuterUsesAreBound
  BY DEF ScopeInv, VariableOK, OuterUsesAreBound
<1> QED
  BY <1>1, ScopeInvAlways, PTL

=============================================================================
