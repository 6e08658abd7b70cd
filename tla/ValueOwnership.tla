--------------------------- MODULE ValueOwnership ---------------------------
(***************************************************************************)
(* The memory discipline of the interpreter on programs made of scalar     *)
(* values, variables, user functions and try blocks: who owns a Value, who *)
(* deletes it, and who still refers to it.                                 *)
(*                                                                         *)
(* A Value carries an owner tag (lib/value/value.hpp) and may be deleted   *)
(* only by the party that tag names: a running Interpreter deletes the     *)
(* temporaries it made, a Context deletes its variables, a token deletes   *)
(* its literal.  Values are shared by raw pointers between the operand     *)
(* stack, the symbol tables, an interpreter's lastValue and the argument   *)
(* vector of a pending call, so each step below has to keep the tags, the  *)
(* deletions and the pointers in agreement.                                *)
(*                                                                         *)
(* One action is one token (or one line end, call, return, error step) of  *)
(* Interpreter.  Frame 1 is the file's interpreter and root context, each  *)
(* user function call adds a frame.                                        *)
(***************************************************************************)
EXTENDS Naturals, Sequences, FiniteSets

CONSTANTS
  Names,        \* variable names of the program
  ErrorNames,   \* names a try block binds to the error message
  FunctionNames,\* names of user functions
  ResultNames,  \* names a line may leave as its result
  Cells,        \* heap addresses a Value can be allocated at
  Literals,     \* values owned by the tokens of the program text
  Empty,        \* the shared None value (None::empty)
  Nil,          \* a null pointer, or the absence of a symbol
  MaxDepth,     \* bound on nested function calls
  MaxStack      \* bound on the operand stack of one interpreter

Values   == Cells \cup Literals \cup {Empty}
Operands == Names \cup Values
Frames   == 1..MaxDepth

ASSUME OwnershipAssumption ==
  /\ ErrorNames \cup FunctionNames \subseteq Names
  /\ ResultNames \subseteq Names
  /\ Names \cap Values = {}
  /\ Cells \cap Literals = {}
  /\ Empty \notin Cells \cup Literals
  /\ Nil \notin Operands
  /\ MaxDepth \in Nat \ {0}
  /\ MaxStack \in Nat

Owners == {"INTERPRETER", "CONTEXT_VARIABLE", "VALUE_TOKEN", "EMPTY_VALUE"}

\* The numbering of the enumeration, which setOwner compares.
OwnerRank == [INTERPRETER |-> 0, CONTEXT_VARIABLE |-> 2,
              VALUE_TOKEN |-> 4, EMPTY_VALUE |-> 6]

VARIABLES
  owner,      \* the tag of each value; "FREED" for an address not in use
  depth,      \* the number of interpreters alive
  symbols,    \* the symbol table of each frame's context
  stack,      \* the operand stack of each frame: names not yet looked up, values
  lineBase,   \* how many operands were left below the current line
  lastValue,  \* the result of the last line of each frame
  args,       \* the argument vector a frame holds while its callee runs
  status,     \* "running", "error", "released", "ended" or "crashed"
  errorSeen   \* whether an error was ever raised

vars == <<owner, depth, symbols, stack, lineBase, lastValue, args, status,
          errorSeen>>

NoSymbols == [n \in Names |-> Nil]

Init ==
  /\ owner = [v \in Values |-> IF v \in Literals THEN "VALUE_TOKEN"
                               ELSE IF v = Empty THEN "EMPTY_VALUE" ELSE "FREED"]
  /\ depth = 1
  /\ symbols = [d \in Frames |-> NoSymbols]
  /\ stack = [d \in Frames |-> <<>>]
  /\ lineBase = [d \in Frames |-> 0]
  /\ lastValue = [d \in Frames |-> Nil]
  /\ args = [d \in Frames |-> {}]
  /\ status = "running"
  /\ errorSeen = FALSE

-----------------------------------------------------------------------------
(* Helpers *)

Fresh == {c \in Cells : owner[c] = "FREED"}

\* Fault: setOwner compares the wrong way round.
LowerOwner(from, to) == IF OwnerRank[to] < OwnerRank[from] THEN to ELSE from

\* setOwner only ever raises the tag.
RaiseOwner(from, to) == IF OwnerRank[to] > OwnerRank[from] THEN to ELSE from

OwnedBy(o, S) == {v \in S \cap Values : owner[v] = o}

\* What deleteValue(v, INTERPRETER) deletes among S.
Temporaries(S) == OwnedBy("INTERPRETER", S)

Free(S) == [v \in Values |-> IF v \in S THEN "FREED" ELSE owner[v]]

\* A function's context sees its own symbols, then those of the root.
Lookup(d, n) == IF symbols[d][n] # Nil THEN symbols[d][n] ELSE symbols[1][n]

Resolve(d, e) == IF e \in Names THEN Lookup(d, e) ELSE e

Height == Len(stack[depth])
LineOperands == Height - lineBase[depth]
Top == stack[depth][Height]
Below(k) == SubSeq(stack[depth], 1, Height - k)

\* The values popVariableValue yields for the k topmost operands.
Popped(k) == {Resolve(depth, stack[depth][i]) : i \in (Height - k + 1)..Height}

\* The analyzer accepts a token that consumes k operands only when the line
\* has pushed them and their names are defined.
CanPop(k) == LineOperands >= k /\ Nil \notin Popped(k)

StackRange(d) == {stack[d][i] : i \in 1..Len(stack[d])}
SymbolRange(d) == {symbols[d][n] : n \in Names}

\* Fault: the context of the call is kept alive.
InterpreterValues(d) == Temporaries({lastValue[d]} \cup StackRange(d))

\* What the destruction of frame d's interpreter and context deletes.
FrameValues(d) ==
  Temporaries({lastValue[d]} \cup StackRange(d))
    \cup OwnedBy("CONTEXT_VARIABLE", SymbolRange(d))

DropFrame(d) ==
  /\ depth' = d - 1
  /\ symbols' = [symbols EXCEPT ![d] = NoSymbols]
  /\ lineBase' = [lineBase EXCEPT ![d] = 0]
  /\ lastValue' = [lastValue EXCEPT ![d] = Nil]
  /\ args' = [args EXCEPT ![d - 1] = {}]

\* Context::setValue(n, v): tag the value (its tag was `from`), delete the
\* variable's previous value when the context owns it.
SetValue(n, v, from) ==
  LET old == symbols[depth][n]
  IN /\ owner' = [w \in Values |->
                    IF w = old /\ owner[w] = "CONTEXT_VARIABLE" THEN "FREED"
                    ELSE IF w = v THEN RaiseOwner(from, "CONTEXT_VARIABLE")
                    ELSE owner[w]]
     /\ symbols' = [symbols EXCEPT ![depth][n] = v]

-----------------------------------------------------------------------------
(* Tokens of a line *)

\* The tokens of the text, and so the literals, have not been destroyed.
TextAlive == status \notin {"released", "ended"}

Running == status = "running"

PushOperand ==
  /\ Running
  /\ Height < MaxStack
  /\ \E e \in Names \cup Literals :
       stack' = [stack EXCEPT ![depth] = Append(@, e)]
  /\ UNCHANGED <<owner, depth, symbols, lineBase, lastValue, args, status, errorSeen>>

\* Pop k operands, push a value made from them, delete the temporaries.
Compute(k) ==
  /\ Running
  /\ CanPop(k)
  /\ Height - k < MaxStack
  /\ \E r \in Fresh :
       /\ owner' = [Free(Temporaries(Popped(k))) EXCEPT ![r] = "INTERPRETER"]
       /\ stack' = [stack EXCEPT ![depth] = Append(Below(k), r)]
  /\ UNCHANGED <<depth, symbols, lineBase, lastValue, args, status, errorSeen>>

\* Pop k operands and report an error: nothing is deleted on this path.
Fail(k) ==
  /\ Running
  /\ CanPop(k)
  /\ stack' = [stack EXCEPT ![depth] = Below(k)]
  /\ status' = "error"
  /\ errorSeen' = TRUE
  /\ UNCHANGED <<owner, depth, symbols, lineBase, lastValue, args>>

Operator == Compute(2)
DivisionByZero == LineOperands >= 2 /\ Fail(1)
NegativeRepeat == Fail(2)
Cast == Compute(1)
FString == \E k \in 0..MaxStack : Compute(k)

CallBuiltin ==
  \E k \in 0..MaxStack :
    \/ Compute(k)
    \/ Fail(k)
    \/ /\ Running
       /\ CanPop(k)
       /\ Height - k < MaxStack
       /\ owner' = Free(Temporaries(Popped(k)))
       /\ stack' = [stack EXCEPT ![depth] = Append(Below(k), Empty)]
       /\ UNCHANGED <<depth, symbols, lineBase, lastValue, args, status, errorSeen>>

\* A value taken from a variable is copied, any other one is moved into the
\* variable.
MoveAlways(e) == FALSE      \* Fault: no copy.
MustCopy(e) == e \in Names

\* The interpreter's result is reset when the assignment deleted it.
KeepResult(old) == lastValue[depth]      \* Fault: no hold pointer.
ResultWithout(old) ==
  IF lastValue[depth] = old /\ OwnedBy("CONTEXT_VARIABLE", {old}) # {}
  THEN Nil ELSE lastValue[depth]

\* The name assigned stays on the stack.
Assign ==
  LET target == stack[depth][Height - 1]
      left == Resolve(depth, Top)
      copy == MustCopy(Top)
  IN /\ Running
     /\ LineOperands >= 2
     /\ target \in Names
     /\ left # Nil
     /\ \E v \in (IF copy THEN Fresh ELSE {left}) :
          SetValue(target, v, IF copy THEN "INTERPRETER" ELSE owner[v])
     /\ stack' = [stack EXCEPT ![depth] = Below(1)]
     /\ lastValue' = [lastValue EXCEPT ![depth] =
                        ResultWithout(symbols[depth][target])]
     /\ UNCHANGED <<depth, lineBase, args, status, errorSeen>>

\* checkMemory at the end of a line: the previous result is deleted when it
\* was a temporary, the operand left, or else None, becomes the result.
NothingLeft ==
  /\ Height = 0
  /\ lastValue' = [lastValue EXCEPT ![depth] = Empty]
  /\ UNCHANGED <<stack, lineBase>>

\* Fault: the result is read from the stack without being popped.
PeekLeft ==
  /\ Height > 0
  /\ Top \in Names => Top \in ResultNames
  /\ Resolve(depth, Top) # Nil
  /\ lastValue' = [lastValue EXCEPT ![depth] = Resolve(depth, Top)]
  /\ lineBase' = [lineBase EXCEPT ![depth] = Height]
  /\ UNCHANGED stack

OperandLeft ==
  /\ Height > 0
  /\ Top \in Names => Top \in ResultNames
  /\ Resolve(depth, Top) # Nil
  /\ lastValue' = [lastValue EXCEPT ![depth] = Resolve(depth, Top)]
  /\ stack' = [stack EXCEPT ![depth] = Below(1)]
  /\ lineBase' = [lineBase EXCEPT ![depth] = Height - 1]

EndOfLine ==
  /\ Running
  /\ LineOperands <= 1
  /\ owner' = Free(Temporaries({lastValue[depth]}))
  /\ NothingLeft \/ OperandLeft
  /\ UNCHANGED <<depth, symbols, args, status, errorSeen>>

\* popVariableValue throws on an undefined name: checkMemory may meet one an
\* earlier error left behind, and the analyzer does not look up the names an
\* f-string consumes.  Nothing catches the exception.
UndefinedOperand ==
  /\ Running
  /\ \/ LineOperands = 0 /\ Height > 0 /\ Resolve(depth, Top) = Nil
     \/ \E k \in 1..LineOperands : Nil \in Popped(k)
  /\ status' = "crashed"
  /\ UNCHANGED <<owner, depth, symbols, stack, lineBase, lastValue, args, errorSeen>>

\* A fun block stores a new Function under its name.
DefineFunction ==
  /\ Running
  /\ LineOperands = 0
  /\ \E n \in FunctionNames, f \in Fresh : SetValue(n, f, "CONTEXT_VARIABLE")
  /\ UNCHANGED <<depth, stack, lineBase, lastValue, args, status, errorSeen>>

-----------------------------------------------------------------------------
(* User functions *)

\* The callee's parameters are bound to copies, owned by its new context.
UserCall(k) ==
  /\ Running
  /\ depth < MaxDepth
  /\ CanPop(k)
  /\ Height - k < MaxStack
  /\ \E P \in {Q \in SUBSET Names : Cardinality(Q) = k} :
     \E copies \in [P -> Fresh] :
       /\ \A m, n \in P : m # n => copies[m] # copies[n]
       /\ symbols' = [symbols EXCEPT ![depth + 1] =
                        [n \in Names |-> IF n \in P THEN copies[n] ELSE Nil]]
       /\ owner' = [v \in Values |-> IF \E n \in P : copies[n] = v
                                     THEN "CONTEXT_VARIABLE" ELSE owner[v]]
  /\ args' = [args EXCEPT ![depth] = Popped(k)]
  /\ stack' = [stack EXCEPT ![depth] = Below(k)]
  /\ depth' = depth + 1
  /\ UNCHANGED <<lineBase, lastValue, status, errorSeen>>

\* Leave the top frame with result r on the caller's stack: the callee's
\* interpreter and context are destroyed, the temporary arguments deleted.
LeaveWith(r) ==
  /\ stack' = [stack EXCEPT ![depth] = <<>>, ![depth - 1] = Append(@, r)]
  /\ DropFrame(depth)
  /\ UNCHANGED <<status, errorSeen>>

\* What the caller deletes once the call has returned.
NoArguments == {}      \* Fault: the arguments are forgotten.
CallArguments == Temporaries(args[depth - 1])

Return ==
  /\ Running
  /\ depth > 1
  /\ LineOperands = 1
  /\ CanPop(1)
  /\ \E r \in Fresh :
       /\ owner' = [Free(FrameValues(depth) \cup CallArguments)
                      EXCEPT ![r] = "INTERPRETER"]
       /\ LeaveWith(r)

\* A body that ends with no return yields None when its type is none.
EndOfBody ==
  /\ Running
  /\ depth > 1
  /\ LineOperands = 0
  /\ owner' = Free(FrameValues(depth) \cup CallArguments)
  /\ LeaveWith(Empty)

\* Leave the top frame with an error: the caller returns before it deletes
\* its arguments.
LeaveWithError ==
  /\ owner' = Free(FrameValues(depth))
  /\ stack' = [stack EXCEPT ![depth] = <<>>]
  /\ DropFrame(depth)
  /\ status' = "error"
  /\ errorSeen' = TRUE

\* No value where the return type asks for one, or one of the wrong type.
ReturnError ==
  /\ Running
  /\ depth > 1
  /\ LineOperands = 0 \/ (LineOperands = 1 /\ CanPop(1))
  /\ LeaveWithError

-----------------------------------------------------------------------------
(* Errors and the end of the program *)

\* Fault: the file's own frame is unwound like a call.
UnwindAll ==
  /\ status = "error"
  /\ LeaveWithError

Unwind ==
  /\ status = "error"
  /\ depth > 1
  /\ LeaveWithError

\* A try block of the top frame binds the message to its error variable; the
\* operands of the line that failed stay on the stack.
Catch ==
  /\ status = "error"
  /\ \E n \in ErrorNames, m \in Fresh : SetValue(n, m, "CONTEXT_VARIABLE")
  /\ lineBase' = [lineBase EXCEPT ![depth] = Height]
  /\ status' = "running"
  /\ UNCHANGED <<depth, stack, lastValue, args, errorSeen>>

\* interpretFile returns and destroys its lexer: the literals go with the
\* tokens.  When it succeeded it has cleared the context ...
EndOfFile ==
  /\ Running
  /\ depth = 1
  /\ LineOperands = 0
  /\ owner' = Free(OwnedBy("CONTEXT_VARIABLE", SymbolRange(1)) \cup Literals)
  /\ symbols' = [symbols EXCEPT ![1] =
                   [n \in Names |-> IF @[n] \in OwnedBy("CONTEXT_VARIABLE", {@[n]})
                                    THEN Nil ELSE @[n]]]
  /\ status' = "released"
  /\ UNCHANGED <<depth, stack, lineBase, lastValue, args, errorSeen>>

\* ... and when no try block caught the error it has not.
Abort ==
  /\ status = "error"
  /\ depth = 1
  /\ owner' = Free(Literals)
  /\ status' = "released"
  /\ UNCHANGED <<depth, symbols, stack, lineBase, lastValue, args, errorSeen>>

\* After that main destroys the interpreter and its context.
DestroyInterpreter ==
  /\ status = "released"
  /\ owner' = Free(FrameValues(1))
  /\ symbols' = [symbols EXCEPT ![1] = NoSymbols]
  /\ stack' = [stack EXCEPT ![1] = <<>>]
  /\ lineBase' = [lineBase EXCEPT ![1] = 0]
  /\ lastValue' = [lastValue EXCEPT ![1] = Nil]
  /\ status' = "ended"
  /\ UNCHANGED <<depth, args, errorSeen>>

Next ==
  \/ PushOperand \/ Operator \/ DivisionByZero \/ NegativeRepeat \/ Cast
  \/ FString \/ CallBuiltin \/ Assign \/ EndOfLine \/ UndefinedOperand
  \/ DefineFunction \/ (\E k \in 0..MaxStack : UserCall(k))
  \/ Return \/ EndOfBody \/ ReturnError
  \/ Unwind \/ Catch \/ EndOfFile \/ Abort \/ DestroyInterpreter

Spec == Init /\ [][Next]_vars

-----------------------------------------------------------------------------
(* Properties *)

\* The state has the shape the C++ declarations give it; frames that are not
\* alive are empty.
TypeOK ==
  /\ owner \in [Values -> Owners \cup {"FREED"}]
  /\ depth \in Frames
  /\ symbols \in [Frames -> [Names -> Values \cup {Nil}]]
  /\ stack \in [Frames -> Seq(Operands)]
  /\ lineBase \in [Frames -> Nat]
  /\ lastValue \in [Frames -> Values \cup {Nil}]
  /\ args \in [Frames -> SUBSET Values]
  /\ status \in {"running", "error", "released", "ended", "crashed"}
  /\ errorSeen \in BOOLEAN

\* Nothing a frame will still read is freed memory: an operand, a variable or
\* an argument of a pending call (popVariableValue, applyOperator and the
\* setVariableRange that follows a call all dereference them) while the program
\* runs.
OperandsLive ==
  TextAlive => \A d \in Frames :
    \A v \in StackRange(d) \cup SymbolRange(d) \cup args[d] :
      v \in Values => owner[v] # "FREED"

\* A value the interpreter deletes has one holder: no two operands, results
\* or arguments are the same temporary, and no variable is one, so
\* deleteValue never frees twice or frees under a variable.
TemporariesUnshared ==
  /\ \A d \in Frames : Temporaries(SymbolRange(d)) = {}
  /\ \A d, e \in Frames :
       \A i \in 1..Len(stack[d]), j \in 1..Len(stack[e]) :
         stack[d][i] = stack[e][j] /\ Temporaries({stack[d][i]}) # {}
           => d = e /\ i = j
  /\ \A d, e \in Frames :
       /\ Temporaries(StackRange(d) \cap args[e]) = {}
       /\ Temporaries(StackRange(d) \cap {lastValue[e]}) = {}
       /\ Temporaries(args[d] \cap {lastValue[e]}) = {}
       /\ d # e => /\ Temporaries(args[d] \cap args[e]) = {}
                   /\ Temporaries({lastValue[d]} \cap {lastValue[e]}) = {}

\* Assigning one variable to another copies: no two variables share a value
\* that a context would delete.
VariablesUnshared ==
  \A d, e \in Frames : \A m, n \in Names :
    symbols[d][m] = symbols[e][n] /\ symbols[d][m] \in Cells
      => d = e /\ m = n

\* getLastValue never yields freed memory while the program runs: every
\* deletion of a variable resets a lastValue that points at it.
LastValueLive ==
  TextAlive =>
    \A d \in Frames : lastValue[d] \in Values => owner[lastValue[d]] # "FREED"

\* Nothing leaks but a temporary of a failed line or call: what a context owns
\* is in the symbol table of a frame still alive, errors or not, and while no
\* error was raised what the interpreter owns is still held by a frame alive.
NothingLeaks ==
  /\ \A c \in OwnedBy("CONTEXT_VARIABLE", Cells) :
       \E d \in 1..depth : c \in SymbolRange(d)
  /\ ~errorSeen =>
       \A c \in OwnedBy("INTERPRETER", Cells) :
         \E d \in 1..depth : c \in StackRange(d) \cup {lastValue[d]} \cup args[d]

-----------------------------------------------------------------------------
(* The inductive invariant *)

\* The names the interpreter writes without a hold pointer are never the
\* result of a line: then no deletion of a variable can miss a lastValue.
UnheldNeverResult == (ErrorNames \cup FunctionNames) \cap ResultNames = {}

IdleFramesEmpty ==
  /\ \A d \in Frames :
       /\ d > depth => /\ \A n \in Names : symbols[d][n] = Nil
                       /\ stack[d] = <<>>
                       /\ lastValue[d] = Nil
       /\ d >= depth => args[d] = {}
  /\ ~TextAlive => depth = 1

Tags ==
  /\ \A v \in Literals : owner[v] = IF TextAlive THEN "VALUE_TOKEN" ELSE "FREED"
  /\ owner[Empty] = "EMPTY_VALUE"
  /\ \A c \in Cells : owner[c] \in {"FREED", "INTERPRETER", "CONTEXT_VARIABLE"}

OperandsOwned ==
  \A d \in Frames : \A i \in 1..Len(stack[d]) :
    stack[d][i] \in Cells => owner[stack[d][i]] = "INTERPRETER"

VariablesOwned ==
  \A d \in Frames : \A n \in Names :
    symbols[d][n] \in Cells => owner[symbols[d][n]] = "CONTEXT_VARIABLE"

\* v is a variable frame d can see, under one of the names in N.
Visible(d, v, N) == \E n \in N : v = symbols[d][n] \/ v = symbols[1][n]

ResultsOwned ==
  TextAlive =>
    \A d \in Frames :
      lastValue[d] \in Cells => \/ owner[lastValue[d]] = "INTERPRETER"
                                \/ Visible(d, lastValue[d], ResultNames)

ArgsOwned ==
  \A d \in Frames : \A v \in args[d] \cap Cells :
    owner[v] = "INTERPRETER" \/ Visible(d, v, Names)

\* TemporariesUnshared, holder by holder.
HoldersDisjoint ==
  \A d, e \in Frames :
    /\ \A i \in 1..Len(stack[d]) : stack[d][i] \in Cells =>
         /\ \A j \in 1..Len(stack[e]) : stack[d][i] = stack[e][j] => d = e /\ i = j
         /\ stack[d][i] \notin args[e]
         /\ stack[d][i] # lastValue[e]
    /\ \A v \in args[d] \cap Cells : owner[v] = "INTERPRETER" =>
         /\ v # lastValue[e]
         /\ v \in args[e] => d = e
    /\ lastValue[d] = lastValue[e] /\ lastValue[d] \in Cells
         => d = e \/ owner[lastValue[d]] # "INTERPRETER"

OwnershipInv ==
  /\ TypeOK
  /\ IdleFramesEmpty
  /\ Tags
  /\ OperandsOwned
  /\ VariablesOwned
  /\ VariablesUnshared
  /\ ResultsOwned
  /\ ArgsOwned
  /\ HoldersDisjoint
=============================================================================
