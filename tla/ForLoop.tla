------------------------------- MODULE ForLoop -------------------------------
(***************************************************************************)
(* The values a for loop holds (Interpreter::interpretFor).  The three     *)
(* bounds are popped as pointers, the counter is a CPPInterface that       *)
(* starts as the first of them, and at each turn the value of the counter  *)
(* becomes the value of the loop variable, which the body may assign, like *)
(* the variables the bounds were read from.                                *)
(*                                                                         *)
(* Values are numbered as they are made: loopOwner[v] is the owner tag of  *)
(* value v, or "freed".  loopSymbols is the symbol table of the context.   *)
(***************************************************************************)
EXTENDS Naturals, Sequences, FiniteSets

CONSTANTS
  LoopVariable,  \* the variable of the loop
  OtherVariables,        \* other variables
  MaxTurns,      \* turns of the loop (bound)
  MaxAssigned    \* assignments in the body (bound)

ASSUME LoopAssumption == IsFiniteSet(OtherVariables)

VARIABLES
  loopOwner, loopSymbols,
  written,     \* how each bound was written: a literal, an expression, a variable,
               \* or an expression of a kind that casts to an INT ("FLOAT")
  bounds,      \* forParams: from, to, step
  counter,     \* the value the CPPInterface holds
  fromLiteral, \* history: the first bound is a value of the program's text
  turns,
  assigned,    \* history: the variables the body assigned, in order
  loopPhase    \* "line", "test", "body", "leave", "ended", "failed", "undefined"

loopState == <<loopOwner, loopSymbols, written, bounds, counter, fromLiteral, turns,
               assigned>>
loopVars == <<loopState, loopPhase>>

LoopNames == OtherVariables \cup {LoopVariable}

Missing == 0      \* no value; the null pointer a cast to Int yields
LoopValues  == DOMAIN loopOwner

Live(o, v) == v # Missing /\ o[v] # "freed"

\* Value::setOwner raises a tag; a literal's is higher.
Raised(o, v) == IF o[v] = "INTERPRETER" THEN [o EXCEPT ![v] = "CONTEXT_VARIABLE"] ELSE o

\* Value::deleteValue for INTERPRETER; it reads the tag.
Deleted(o, v) == IF o[v] = "INTERPRETER" THEN [o EXCEPT ![v] = "freed"] ELSE o

\* Fault: the previous value of the variable goes whoever owns it.
ReplacedAlways(o, v) == IF v = Missing THEN o ELSE [o EXCEPT ![v] = "freed"]

\* What Context::setValue does to the previous value v of a variable.
Replaced(o, v) == IF v # Missing /\ o[v] = "CONTEXT_VARIABLE" THEN [o EXCEPT ![v] = "freed"] ELSE o

\* A step reads the values of vs; if one is gone what happens is undefined.
Touches(vs, then) ==
  \/ /\ \A v \in vs : Live(loopOwner, v)
     /\ then
  \/ /\ \E v \in vs : ~Live(loopOwner, v)
     /\ loopPhase' = "undefined"
     /\ UNCHANGED loopState

\* Context::setValue of a variable to value v, with the tags o so far.
SetSymbol(n, v, o) ==
  /\ loopOwner' = Replaced(Raised(o, v), loopSymbols[n])
  /\ loopSymbols' = [loopSymbols EXCEPT ![n] = v]

Current(n) == {loopSymbols[n]} \ {Missing}

-----------------------------------------------------------------------------

\* The line of the loop: its operands are evaluated and popped.  A bound that
\* is no Int becomes the null pointer.
BoundKinds == {"literal", "expression", "FLOAT"} \cup LoopNames

Tag == [literal |-> "VALUE_TOKEN", expression |-> "INTERPRETER", FLOAT |-> "INTERPRETER"]

\* The values there are once an operand is evaluated, and the pointer popped.
Evaluated(o, k) == IF k \in LoopNames THEN o ELSE Append(o, Tag[k])
Pointer(o, k)   == IF k = "FLOAT" THEN Missing
                   ELSE IF k \in LoopNames THEN loopSymbols[k] ELSE Len(o) + 1

PopBounds(from, to, step) ==
  LET ops == <<from, to, step>>
      o1  == Evaluated(loopOwner, from)
      o2  == Evaluated(o1, to)
  IN /\ loopPhase = "line"
     /\ \A i \in 1..3 : ops[i] \in LoopNames => loopSymbols[ops[i]] # Missing
     /\ written' = ops
     /\ loopOwner' = Evaluated(o2, step)
     /\ bounds' = <<Pointer(loopOwner, from), Pointer(o1, to), Pointer(o2, step)>>
     /\ counter' = bounds'[1]
     /\ fromLiteral' = (bounds'[1] # Missing /\ loopOwner'[bounds'[1]] = "VALUE_TOKEN")
     /\ loopPhase' = "test"
     /\ UNCHANGED <<loopSymbols, turns, assigned>>

\* A step of zero is an error before the loop; the bounds are not deleted.
ZeroStep == /\ loopPhase = "test" /\ turns = 0
            /\ Touches({bounds[3]},
                 /\ loopPhase' = "failed"
                 /\ UNCHANGED loopState)

\* The comparisons make a Bool and delete it.
Compared == {counter, bounds[2], bounds[3]}

\* The value of the counter becomes that of the loop variable.
EnterBody == /\ loopPhase = "test" /\ turns < MaxTurns
             /\ Touches(Compared \cup Current(LoopVariable),
                  /\ SetSymbol(LoopVariable, counter, loopOwner)
                  /\ turns' = turns + 1
                  /\ loopPhase' = "body"
                  /\ UNCHANGED <<written, bounds, counter, fromLiteral, assigned>>)

LeaveLoop == /\ loopPhase = "test"
             /\ Touches(Compared,
                  /\ loopPhase' = "leave"
                  /\ UNCHANGED loopState)

\* The body assigns a literal, or a value it has made.
AssignInBody(n, k) ==
  /\ loopPhase = "body" /\ Len(assigned) < MaxAssigned
  /\ Touches(Current(n),
       LET v == Len(loopOwner) + 1
       IN /\ SetSymbol(n, v, Append(loopOwner, Tag[k]))
          /\ assigned' = Append(assigned, n)
          /\ UNCHANGED <<written, bounds, counter, fromLiteral, turns, loopPhase>>)

\* It, or what follows the loop, reads a variable.
ReadVariable(n) ==
  /\ loopPhase \in {"body", "ended"}
  /\ \E v \in Current(n) : ~Live(loopOwner, v)
  /\ Touches(Current(n), FALSE)

\* i += step: a new value, and the old one deleted if nothing took it.
Step(next) ==
  Touches({counter, bounds[3]},
    /\ loopOwner' = Append(Deleted(loopOwner, counter), "INTERPRETER")
    /\ counter' = Len(loopOwner) + 1
    /\ loopPhase' = next
    /\ UNCHANGED <<loopSymbols, written, bounds, fromLiteral, turns, assigned>>)

EndOfTurn == loopPhase = "body" /\ Step("test")          \* or a continue
ReturnFromBody    == loopPhase = "body" /\ Step("leave")

Break == /\ loopPhase = "body"
         /\ loopPhase' = "leave"
         /\ UNCHANGED loopState

\* An error in the body leaves the loop at once.
Fails == /\ loopPhase = "body"
         /\ loopPhase' = "failed"
         /\ UNCHANGED loopState

\* The counter goes if it is not the first bound, then the bounds.
CleanUp ==
  LET last == IF counter = bounds[1] THEN {} ELSE {counter}
      held == {bounds[1], bounds[2], bounds[3]} \cup last
  IN /\ loopPhase = "leave"
     /\ Touches(held,
          /\ loopOwner' = [v \in LoopValues |-> IF v \in held THEN Deleted(loopOwner, v)[v]
                                            ELSE loopOwner[v]]
          /\ loopPhase' = "ended"
          /\ UNCHANGED <<loopSymbols, written, bounds, counter, fromLiteral, turns, assigned>>)

-----------------------------------------------------------------------------

\* Before the loop each variable has no value, a literal or one of its own.
LoopInit ==
  /\ loopOwner \in [1..Cardinality(LoopNames) -> {"VALUE_TOKEN", "CONTEXT_VARIABLE"}]
  /\ \E defined \in SUBSET LoopNames, number \in [LoopNames -> 1..Cardinality(LoopNames)] :
       /\ \A n, k \in LoopNames : number[n] = number[k] => n = k
       /\ loopSymbols = [n \in LoopNames |-> IF n \in defined THEN number[n] ELSE Missing]
  /\ written = <<>> /\ bounds = <<>> /\ counter = Missing /\ fromLiteral = FALSE /\ turns = 0
  /\ assigned = <<>> /\ loopPhase = "line"

LoopNext ==
  \/ \E from, to, step \in BoundKinds : PopBounds(from, to, step)
  \/ ZeroStep \/ EnterBody \/ LeaveLoop
  \/ \E n \in LoopNames : ReadVariable(n) \/ \E k \in {"literal", "expression"} : AssignInBody(n, k)
  \/ EndOfTurn \/ ReturnFromBody \/ Break \/ Fails \/ CleanUp

LoopSpec == LoopInit /\ [][LoopNext]_loopVars

-----------------------------------------------------------------------------
(* Properties *)

\* The loop reads freed memory or a null pointer only where a bound is no Int,
\* the loop variable is one of the bounds, the body assigned the loop variable
\* or a variable of a bound, or the first bound is no literal and the loop
\* turned twice: then the second turn freed it, and a loop that ends reads it
\* again.  A loop that ends leaves no temporary behind.
LoopReadsLiveValues ==
  LET operands == {written[i] : i \in DOMAIN written}
      freed    == turns >= 2 /\ ~fromLiteral
  IN /\ loopPhase = "undefined" =>
          \/ operands \cap {"FLOAT", LoopVariable} # {}
          \/ \E i \in DOMAIN assigned : assigned[i] \in operands \cup {LoopVariable}
          \/ freed
     /\ loopPhase = "ended" => ~freed /\ \A v \in LoopValues : loopOwner[v] # "INTERPRETER"
=============================================================================
