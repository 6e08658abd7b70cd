----------------------------- MODULE ModuleValues -----------------------------
(***************************************************************************)
(* What a module keeps of its text.  Module::load runs the file in an      *)
(* interpreter of its own; when interpretFile returns, the tokens go with  *)
(* the literals they own, then the interpreter goes with its last value    *)
(* and the operands a failed line left.  The context stays, for the paths  *)
(* of other files: takeOwnership makes its values its own, whoever owned   *)
(* them, and only if the file got through.                                 *)
(*                                                                         *)
(* A value is the literal of one of the text's assignments or that of a    *)
(* line of its own, a computed value, or the shared None that every call   *)
(* without a result yields (None::empty).                                  *)
(***************************************************************************)
CONSTANTS
  ModuleNames,  \* the variables of the module
  Computed      \* values computed, alive at one time (bound)

VARIABLES
  moduleSymbols, \* the context of the module
  importSymbol,  \* a variable of the file that imports it
  tag,           \* who deletes a value, or "freed"
  lastResult,    \* the last value of the module's interpreter
  leftOver,      \* an operand a failed line left on the stack
  misread,       \* history: the interpreter looked at the tag of a freed value
  stage          \* "running", "loaded", "failed", "unloaded", "undefined"

moduleVars == <<moduleSymbols, importSymbol, tag, lastResult, leftOver, misread, stage>>

NoValue == <<"none">>
Shared  == <<"empty">>
Alone   == <<"line">>                        \* the literal of a line of its own
LiteralOf(n) == <<"literal", n>>
TextLiterals == {LiteralOf(n) : n \in ModuleNames} \cup {Alone}
Cell(c)  == <<"cell", c>>
ModuleCells == {Cell(c) : c \in Computed}
KeptValues == TextLiterals \cup ModuleCells \cup {Shared}

Held == {moduleSymbols[n] : n \in ModuleNames} \ {NoValue}

ModuleInit ==
  /\ moduleSymbols = [n \in ModuleNames |-> NoValue] /\ importSymbol = NoValue
  /\ tag = [v \in KeptValues |-> CASE v \in TextLiterals -> "VALUE_TOKEN"
                                   [] v = Shared -> "EMPTY_VALUE"
                                   [] OTHER -> "freed"]
  /\ lastResult = NoValue /\ leftOver = NoValue
  /\ misread = FALSE /\ stage = "running"

-----------------------------------------------------------------------------
(* Lines of the module *)

\* Value::deleteValue by the interpreter, of each of vs.
Swept(t, vs) == [v \in KeptValues |-> IF v \in vs /\ t[v] = "INTERPRETER" THEN "freed" ELSE t[v]]

\* Context::setValue: a value the symbol's context owned is deleted.
Unbound(t, old) ==
  [v \in KeptValues |-> IF v = old /\ t[v] = "CONTEXT_VARIABLE" THEN "freed" ELSE t[v]]

Unused(v) == v \in ModuleCells /\ tag[v] = "freed"

\* A value a line makes: the owner it has then.
Made(v) == IF v \in ModuleCells THEN [tag EXCEPT ![v] = "INTERPRETER"] ELSE tag

\* `n v =`: v is the literal written there, what an expression or a copy of a
\* variable made, or the None of a call.
AssignLine ==
  /\ stage = "running"
  /\ \E n \in ModuleNames : \E v \in KeptValues :
       /\ v \in {LiteralOf(n), Shared} \/ Unused(v)
       /\ LET raised == IF v \in ModuleCells THEN [tag EXCEPT ![v] = "CONTEXT_VARIABLE"] ELSE tag
          IN  tag' = Swept(Unbound(raised, moduleSymbols[n]), {lastResult})
       /\ moduleSymbols' = [moduleSymbols EXCEPT ![n] = v]
       /\ lastResult' = v
  /\ UNCHANGED <<importSymbol, leftOver, misread, stage>>

\* A line that yields a literal, a variable's value, a computed one or None.
ResultLine ==
  /\ stage = "running"
  /\ \E v \in Held \cup {Alone, Shared} \cup {c \in ModuleCells : Unused(c)} :
       /\ tag' = IF v \in Held THEN Swept(tag, {lastResult})
                 ELSE Swept(Made(v), {lastResult} \ {v})
       /\ lastResult' = v
  /\ UNCHANGED <<moduleSymbols, importSymbol, leftOver, misread, stage>>

-----------------------------------------------------------------------------
(* The end of the text *)

\* Fault: it raises the tags as setOwner does elsewhere.
TakeOwnershipRaising(t) ==
  [v \in KeptValues |-> IF v \in Held /\ t[v] = "INTERPRETER" THEN "CONTEXT_VARIABLE" ELSE t[v]]

\* Context::takeOwnership overwrites the tag, that of the shared None too.
TakeOwnership(t) == [v \in KeptValues |-> IF v \in Held THEN "CONTEXT_VARIABLE" ELSE t[v]]

\* interpretFile destroys the lexer, load the interpreter.
Released(t, operand) ==
  LET gone == [v \in KeptValues |-> IF t[v] = "VALUE_TOKEN" THEN "freed" ELSE t[v]]
      looked == {lastResult, operand} \ {NoValue}
  IN  /\ misread' = (\E v \in looked : gone[v] = "freed")
      /\ tag' = Swept(gone, looked)

EndOfText ==
  /\ stage = "running"
  /\ Released(TakeOwnership(tag), NoValue)
  /\ stage' = "loaded"
  /\ UNCHANGED <<moduleSymbols, importSymbol, lastResult, leftOver>>

\* A line raises an error and leaves an operand, or none.  The module stays
\* registered.
FailedLoad ==
  /\ stage = "running"
  /\ \E v \in TextLiterals \cup {c \in ModuleCells : Unused(c)} \cup {NoValue} :
       /\ leftOver' = v
       /\ Released(Made(v), v)
  /\ stage' = "failed"
  /\ UNCHANGED <<moduleSymbols, importSymbol, lastResult>>

-----------------------------------------------------------------------------
(* The file that imports the module *)

Imported == stage \in {"loaded", "failed"}
BehavesIf(condition, then) == stage' = IF condition THEN then ELSE "undefined"

\* A path into the module is read: popVariableValue writes its range.
ReadPath ==
  /\ Imported
  /\ \E v \in Held : BehavesIf(tag[v] # "freed", stage)
  /\ UNCHANGED <<moduleSymbols, importSymbol, tag, lastResult, leftOver, misread>>

\* A variable of the importing file is assigned the None of a call.
AssignNone ==
  /\ Imported
  /\ BehavesIf(tag[Shared] # "freed", stage)
  /\ tag' = Unbound(tag, importSymbol)
  /\ importSymbol' = Shared
  /\ UNCHANGED <<moduleSymbols, lastResult, leftOver, misread>>

\* The program ends: the contexts delete what they own, and None::emptyNone
\* what it owns.
Unload ==
  /\ Imported
  /\ LET own == {v \in Held \cup {importSymbol} : v # NoValue /\ tag[v] = "CONTEXT_VARIABLE"}
         once == /\ importSymbol \notin own \cap Held
                 /\ \A n, k \in ModuleNames :
                      moduleSymbols[n] = moduleSymbols[k] /\ moduleSymbols[n] \in own => n = k
     IN BehavesIf(/\ \A v \in Held : tag[v] # "freed"
                  /\ once
                  /\ Shared \notin own /\ tag[Shared] # "freed", "unloaded")
  /\ UNCHANGED <<moduleSymbols, importSymbol, tag, lastResult, leftOver, misread>>

ModuleNext ==
  \/ AssignLine \/ ResultLine \/ EndOfText \/ FailedLoad
  \/ ReadPath \/ AssignNone \/ Unload

ModuleSpec == ModuleInit /\ [][ModuleNext]_moduleVars

-----------------------------------------------------------------------------
(* Properties *)

\* What a module's names stand for is alive as long as the module, belongs to
\* one of them and is deleted once, but for two: after a failed load the
\* literals of the text are gone though their names are there (Module::load
\* keeps the module, interpretFile takes no ownership), and a variable that
\* holds the None of a call makes the module the owner of the None of all.
\* And the interpreter of the module dies without looking at a freed value,
\* unless the load failed or the last line was a literal.
ModuleKeepsItsValues ==
  LET textLost == \E v \in Held \cap TextLiterals : tag[v] = "freed"
  IN /\ stage = "loaded" => \A v \in Held \ {Shared} : tag[v] = "CONTEXT_VARIABLE"
     /\ stage = "failed" => \A v \in Held \ TextLiterals : tag[v] # "freed"
     /\ stage = "undefined" => textLost \/ Shared \in Held
     /\ stage = "loaded" /\ misread => lastResult = Alone
=============================================================================
