--------------------------- MODULE ExpressionTypes ---------------------------
(***************************************************************************)
(* What the analyzer knows of the types of a program against the values    *)
(* its interpretation produces, on scalar operands.  The interpreter looks *)
(* at almost no type: an operator that meets a kind the analyzer did not   *)
(* promise throws an exception nothing catches, or casts a pointer to the  *)
(* wrong class.                                                            *)
(*                                                                         *)
(* One action is one token, as Analyzer and Interpreter both treat it.     *)
(* Only tokens the analyzer accepts are explored, for a program with an    *)
(* error is not interpreted.  An operand is a name not looked up yet, or   *)
(* the type the analyzer has for it with the kind of the value.            *)
(*                                                                         *)
(* features are the constructs of the program on which the analyzer's view *)
(* of a variable or of an operand may part from the value it has:          *)
(*   "branch"   an if block whose line assigns to a variable,              *)
(*   "for"      a for loop that never runs, or whose bounds are not ints,  *)
(*   "fstring"  a format string that consumes names,                       *)
(*   "native"   a call of a native function that does not yield the kind   *)
(*              it declares.                                               *)
(***************************************************************************)
EXTENDS TypeRules, Sequences

CONSTANTS
  Names,     \* variable names of the program
  Unnamed,   \* the name of an operand that is a value
  MaxStack,  \* bound on the operand stack
  Imprecise, \* the native functions that yield another kind than they declare
  Programs   \* the sets of features a program may have

MaxArguments == 2   \* bound on the parameters of a function

\* A native function: its parameters, its return type, what it does return.
NativeFunctions ==
  [arity : 0..MaxArguments, params : [1..MaxArguments -> Scalars],
   declares : Scalars, yields : Scalars]

ASSUME ExpressionAssumption ==
  /\ Unnamed \notin Names
  /\ MaxStack \in Nat
  /\ Imprecise \subseteq {f \in NativeFunctions : CastableTo(f.yields, f.declares)}
  /\ Programs \subseteq SUBSET {"branch", "for", "fstring", "native"}

VARIABLES
  declared,  \* the analyzer's type of each variable, NoType if it has none
  bound,     \* the kind of the value each variable has, NoType if it has none
  stack,     \* the operands of the line
  features,  \* the constructs the program uses
  outcome    \* "ok", an "error" the program reports, what a function threw of
             \* its own, or a failure for the kind of an operand

vars == <<declared, bound, stack, features, outcome>>

MaybeScalars == Scalars \cup {NoType}
Operands == [name : Names \cup {Unnamed}, type : MaybeScalars, value : MaybeScalars]

NameOperand(n)     == [name |-> n, type |-> NoType, value |-> NoType]
ValueOperand(t, v) == [name |-> Unnamed, type |-> t, value |-> v]

Init ==
  /\ declared = [n \in Names |-> NoType]
  /\ bound = [n \in Names |-> NoType]
  /\ stack = <<>>
  /\ features \in Programs
  /\ outcome = "ok"

-----------------------------------------------------------------------------
(* Operands *)

\* Analyzer::topVariable and Memory::popVariableValue look a name up when the
\* operand is used.
TypeOf(e)  == IF e.name \in Names THEN declared[e.name] ELSE e.type
ValueOf(e) == IF e.name \in Names THEN bound[e.name] ELSE e.value

Height   == Len(stack)
Top      == stack[Height]
Below(k) == SubSeq(stack, 1, Height - k)

\* The i-th of the k topmost operands.
Nth(k, i) == stack[Height - k + i]

\* The analyzer finds k operands on the line, and a type for each.
CanPop(k) ==
  /\ outcome = "ok"
  /\ Height >= k
  /\ \A i \in 1..k : TypeOf(Nth(k, i)) # NoType

Push(e) ==
  /\ outcome = "ok"
  /\ Height < MaxStack
  /\ stack' = Append(stack, e)
  /\ UNCHANGED <<declared, bound, outcome, features>>

PushValue == \E k \in Scalars \ {"NONE"} : Push(ValueOperand(k, k))
PushName  == \E n \in Names : Push(NameOperand(n))

\* Context::getValue throws on a name that has no value.
Unbound(k) == \E i \in 1..k : ValueOf(Nth(k, i)) = NoType

\* What comes of popping k operands and making a v of them.
Result(k, v) == IF Unbound(k) THEN Threw ELSE v

\* The k topmost operands are replaced by a value of kind v, which the
\* analyzer takes to be a t; or the interpreter fails.
Yield(k, t, v) ==
  /\ Height - k < MaxStack
  /\ IF Result(k, v) \in Failures
     THEN outcome' = Result(k, v) /\ UNCHANGED stack
     ELSE stack' = Append(Below(k), ValueOperand(t, v)) /\ UNCHANGED outcome
  /\ UNCHANGED <<declared, bound, features>>

-----------------------------------------------------------------------------
(* Tokens *)

ApplyOp ==
  /\ CanPop(2)
  /\ \E op \in Operators :
       LET l == Nth(2, 1)
           r == Nth(2, 2)
           t == OperatorType(op, TypeOf(l), TypeOf(r))
       IN /\ t # NoType
          /\ Yield(2, t, ScalarOp(op, ValueOf(l), ValueOf(r)))

\* Division by zero, and a negative number after a string.  The second is
\* tested whatever the operator.
OperatorError ==
  /\ CanPop(2)
  /\ \E op \in Operators :
       LET l == Nth(2, 1)
           r == Nth(2, 2)
       IN /\ OperatorType(op, TypeOf(l), TypeOf(r)) # NoType
          /\ \/ op \in {"DIV", "MOD"} /\ ValueOf(r) \in Numbers
             \/ ValueOf(l) = "STRING" /\ ValueOf(r) = "INT"
  /\ outcome' = "error"
  /\ UNCHANGED <<declared, bound, stack, features>>

CastTo ==
  /\ CanPop(1)
  /\ \E k \in Scalars :
       /\ CastableTo(TypeOf(Top), k)
       /\ Yield(1, k, Convert(ValueOf(Top), k))

\* A call of k arguments that the analyzer takes to yield a ret and that yields a
\* v: each argument fits its parameter and is converted to it.
CallYields(k, params, ret, v) ==
  /\ CanPop(k)
  /\ \A i \in 1..k : CastableTo(TypeOf(Nth(k, i)), params[i])
  /\ Yield(k, ret, IF \E i \in 1..k : Convert(ValueOf(Nth(k, i)), params[i]) = Threw
                   THEN Threw ELSE v)

\* UserRPNFunction::call converts the result to the return type or refuses it,
\* and most native functions yield the kind they declare.
Call ==
  \E k \in 0..MaxArguments :
    \E params \in [1..k -> Scalars], ret \in Scalars : CallYields(k, params, ret, ret)

\* BuiltinRPNFunction::call asks only that the result be castable to the type.
CallImprecise ==
  /\ "native" \in features
  /\ \E f \in Imprecise : CallYields(f.arity, f.params, f.declares, f.yields)

\* A call whose body reports an error, or a native one that throws an exception
\* of its own: substr beyond the end, toInt of digits that are no int.
FunctionThrew == "function threw"
CallError ==
  /\ outcome = "ok"
  /\ outcome' \in {"error", FunctionThrew}
  /\ UNCHANGED <<declared, bound, stack, features>>

\* A variable that has a type takes a value of any type that can be cast to it
\* and back, and has the new type from then on.
MayAssign(t, n) ==
  declared[n] = NoType
    \/ (CastableTo(t, declared[n]) /\ CastableTo(declared[n], t))

\* The value is stored as it is; the name stays on the stack.
Assign ==
  /\ CanPop(1)
  /\ Height >= 2
  /\ LET target == stack[Height - 1].name
     IN /\ target \in Names
        /\ MayAssign(TypeOf(Top), target)
        /\ declared' = [declared EXCEPT ![target] = TypeOf(Top)]
        /\ bound' = [bound EXCEPT ![target] = ValueOf(Top)]
  /\ stack' = Below(1)
  /\ outcome' = Result(1, "ok")
  /\ UNCHANGED features

\* A format string pops its operands; the analyzer does not look names up, the
\* interpreter throws on one that has no value.
FString ==
  /\ "fstring" \in features
  /\ outcome = "ok"
  /\ \E k \in 0..Height :
       Yield(k, "STRING", "STRING")

\* The line ends with at most one operand, which has a type if it is a name.
EndOfLine ==
  /\ outcome = "ok"
  /\ Height <= 1
  /\ CanPop(Height)
  /\ stack' = <<>>
  /\ outcome' = Result(Height, "ok")
  /\ UNCHANGED <<declared, bound, features>>

\* The line of an if or a while: one operand, converted to a bool.
Condition ==
  /\ CanPop(1)
  /\ Height = 1
  /\ CastableTo(TypeOf(Top), "BOOL")
  /\ stack' = <<>>
  /\ outcome' = Result(1, IF Convert(ValueOf(Top), "BOOL") = Threw THEN Threw ELSE "ok")
  /\ UNCHANGED <<declared, bound, features>>

\* An if block that assigns a literal to a variable: the analyzer takes the
\* assignment for done, the interpreter does it when the condition holds.
AssignInBranch ==
  /\ "branch" \in features
  /\ outcome = "ok"
  /\ stack = <<>>
  /\ \E n \in Names, k \in Scalars \ {"NONE"} :
       /\ declared[n] # NoType
       /\ MayAssign(k, n)
       /\ declared' = [declared EXCEPT ![n] = k]
       /\ \/ bound' = [bound EXCEPT ![n] = k]
          \/ UNCHANGED bound
  /\ UNCHANGED <<stack, outcome, features>>

\* A for loop that runs: its variable becomes an int, whatever it was.
ForLoop ==
  /\ outcome = "ok"
  /\ stack = <<>>
  /\ \E n \in Names :
       /\ declared' = [declared EXCEPT ![n] = "INT"]
       /\ bound' = [bound EXCEPT ![n] = "INT"]
  /\ UNCHANGED <<stack, outcome, features>>

\* A for loop that never runs does not bind its variable.
ForNothing ==
  /\ "for" \in features
  /\ outcome = "ok"
  /\ stack = <<>>
  /\ \E n \in Names : declared' = [declared EXCEPT ![n] = "INT"]
  /\ UNCHANGED <<bound, stack, outcome, features>>

\* A bound of a for loop need only be castable to an int; interpretFor casts
\* the pointer instead.
ForBound ==
  /\ "for" \in features
  /\ CanPop(1)
  /\ Height = 1
  /\ CastableTo(TypeOf(Top), "INT")
  /\ ValueOf(Top) # "INT"
  /\ outcome' = Result(1, Undefined)
  /\ UNCHANGED <<declared, bound, stack, features>>

Next ==
  \/ PushValue \/ PushName \/ ApplyOp \/ OperatorError \/ CastTo
  \/ Call \/ CallImprecise \/ CallError \/ Assign \/ FString \/ EndOfLine \/ Condition
  \/ AssignInBranch \/ ForLoop \/ ForNothing \/ ForBound

Spec == Init /\ [][Next]_vars

-----------------------------------------------------------------------------
(* Properties *)

\* Operands and variables are scalars, and an operand that is a name has no
\* type of its own until it is looked up.
TypeOK ==
  /\ declared \in [Names -> MaybeScalars]
  /\ bound \in [Names -> MaybeScalars]
  /\ stack \in Seq(Operands)
  /\ \A i \in 1..Len(stack) :
       stack[i].name \notin Names => NoType \notin {stack[i].type, stack[i].value}
  /\ features \in Programs
  /\ outcome \in {"ok", "error", FunctionThrew} \cup Failures

\* Every operand and every variable has exactly the kind the analyzer computed
\* for it.
VariablesAgree == \A n \in Names : declared[n] = bound[n]
OperandsAgree == \A i \in 1..Len(stack) : stack[i].type = stack[i].value
TypesAgree == VariablesAgree /\ OperandsAgree

\* A program the analyzer accepts never throws out of an operator, a cast, a
\* call or a condition for the kind of an operand, and never takes a value for
\* one of another class.  (Only of straight programs.)
NoTypeFailure == outcome \notin Failures

\* A program without branches, skipped loops, format strings and calls of native
\* functions that yield another kind than they declare: every operand and
\* variable has the kind the analyzer computed, and no operator, cast, call or
\* condition throws for the kind of an operand or takes a value for one of
\* another class.
Straight == features = {}
StraightTypesAgree == Straight => TypesAgree
StraightNeverFails == Straight => NoTypeFailure

\* Whatever the program, the interpreter fails only on a variable or operand
\* the analyzer has a wrong type for, or in one of the two places where the
\* analyzer does not check what the interpreter needs: the names of a format
\* string, the bounds of a for loop.
FailuresNeedDisagreement ==
  [][outcome = "ok" /\ outcome' \in Failures
       => ~TypesAgree \/ FString \/ ForBound]_vars
=============================================================================
