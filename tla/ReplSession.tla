----------------------------- MODULE ReplSession -----------------------------
(***************************************************************************)
(* The interactive session (shellInput of src/main.cpp): one context and   *)
(* one interpreter serve every command, while the tokens, the lexer and    *)
(* the literals in its tokens last for one.                                *)
(*                                                                         *)
(* A command is one of a few texts: nothing, the exit command, one the     *)
(* tokenizer refuses, one whose lexing ends the program, one that ends in  *)
(* the keyword of a block (and so asks for more lines), and ordinary ones. *)
(* What lexing and running it yield is chosen; what the session keeps is   *)
(* not: the values behind the names, the interpreter's last value, the     *)
(* numbering of lines and the history it is used to index.                 *)
(***************************************************************************)
EXTENDS Integers, FiniteSets

CONSTANTS
  Plain,        \* ordinary texts
  SessionNames, \* variables of the session
  HistoryCap,   \* MAX_HISTORY_SIZE
  LoadedLines,  \* how long a history a session may start with
  MaxLine       \* bound on the line number

Nothing == "nothing"
Exit    == "exit"
Refused == "refused"  \* tokenize returns an error
Unfit   == "unfit"    \* a number beyond stoi, or another form the lexer dies of
Opens   == "opens"    \* the last token is if, while, for, fun, struct or try
Texts   == {Nothing, Exit, Refused, Unfit, Opens} \cup Plain

ASSUME SessionAssumption ==
  /\ HistoryCap \in Nat \ {0} /\ MaxLine \in Nat
  /\ LoadedLines \subseteq 0..HistoryCap
  /\ Plain \cap {Nothing, Exit, Refused, Unfit, Opens} = {}
  /\ SessionNames \cap {"null", "none", "result", "literal", "part", "destroyed"} = {}

VARIABLES
  phase,        \* what shellInput does next
  instruction,  \* the command being handled
  lineNumber, emptyLines,
  tokenLines,   \* the lines the tokens come from
  retried,      \* whether the tokens hold those of a refused attempt
  unfit,        \* whether they hold those of an unfit text
  bodyLines,    \* the lines the bodies of the functions defined come from
  entered,      \* [size, newest] of the shell's history
  names,        \* what each name's value is
  lastValue,    \* what the interpreter's last result is
  errorLine,    \* the line of the error of the run, 0 when there is none
  inputEnded,        \* whether a program read cin to its end
  lapses        \* history: why an index or a value may be off

tokenVars   == <<tokenLines, retried, unfit>>
valueVars   == <<names, lastValue>>
sessionVars == <<phase, instruction, lineNumber, emptyLines, tokenVars, bodyLines,
                 entered, valueVars, errorLine, inputEnded, lapses>>

\* Of a name: unset, a literal of the tokens, a value of its own; a value that
\* something else holds as well, or a list or struct that holds something of
\* others (when which of them deletes what is ContainerOwnership's and
\* ForLoop's); or a literal that went with its tokens.
NameStates == {"unset", "literal", "own", "entangled", "destroyed"}
\* The last value is a name's value when it is that name, and a part when it is
\* an element or a member.
LastStates ==
  {"null", "none", "result", "literal", "part", "destroyed"} \cup SessionNames

SessionInit ==
  /\ phase = "first read" /\ instruction = Nothing
  /\ lineNumber = 1 /\ emptyLines = 0
  /\ tokenLines = {} /\ retried = FALSE /\ unfit = FALSE /\ bodyLines = {}
  /\ entered \in [size : LoadedLines, newest : Texts \ {Nothing}]
  /\ names = [n \in SessionNames |-> "unset"]
  /\ lastValue = "null" /\ errorLine = 0 /\ inputEnded = FALSE
  /\ lapses = {}

-----------------------------------------------------------------------------
(* How the shell dies, apart from what a run throws *)

OutOfRange    == "out of range"
ReadDestroyed == "read destroyed"
LexThrew      == "lexer threw"

\* Values that may be no more: a name that is entangled, and what is destroyed.
Doubtful == {n \in SessionNames : names[n] = "entangled"}
MayBeGone(value) == value = "destroyed" \/ value \in Doubtful

\* A step that reads what may be gone: the tag may say anything (that it may be
\* deleted, too).
Goes(next, gone) == phase' \in {next} \cup (IF gone THEN {ReadDestroyed} ELSE {})

-----------------------------------------------------------------------------
(* Reading *)

Repeated(text) == entered.size > 0 /\ entered.newest = text

\* getCommand adds what is neither empty nor the command before, up to the cap.
AddToHistory(text) ==
  entered' = IF text = Nothing \/ Repeated(text) THEN entered
             ELSE [size   |-> IF entered.size < HistoryCap THEN entered.size + 1
                              ELSE HistoryCap,
                   newest |-> text]

\* What makes the history fall behind the line number, and the lexer throw.
Lapse(text) ==
  lapses' = lapses \cup (IF text = Nothing /\ phase = "read" THEN {"empty command"} ELSE {})
                   \cup (IF Repeated(text) THEN {"repeated"} ELSE {})
                   \cup (IF entered.size = HistoryCap THEN {"full"} ELSE {})
                   \cup (IF text = Unfit THEN {"unfit"} ELSE {})

\* The line is counted only when the command is empty, and not the first.  The
\* end of the session deletes what is left.
ReadCommand(text) ==
  /\ phase \in {"first read", "read"}
  /\ instruction' = text
  /\ lineNumber' = IF phase = "read" /\ text = Nothing THEN lineNumber + 1 ELSE lineNumber
  /\ lineNumber' <= MaxLine
  /\ AddToHistory(text) /\ Lapse(text)
  /\ IF text = Exit \/ inputEnded THEN Goes("over", MayBeGone(lastValue) \/ Doubtful # {})
     ELSE phase' = "tokenize"
  /\ UNCHANGED <<emptyLines, tokenVars, bodyLines, valueVars, errorLine, inputEnded>>

\* A refused command is tried again, and again: the loop continues without
\* reading.  Its tokens stay, before those of the next attempt.
Tokenize ==
  /\ phase = "tokenize"
  /\ IF instruction = Refused
     THEN retried' = TRUE /\ UNCHANGED <<phase, tokenLines, unfit, emptyLines>>
     ELSE /\ tokenLines' = IF instruction = Nothing THEN tokenLines
                           ELSE tokenLines \cup {lineNumber}
          /\ unfit' = (unfit \/ instruction = Unfit)
          /\ phase' = IF instruction = Opens THEN "first line" ELSE "lex"
          /\ emptyLines' = 0
          /\ UNCHANGED retried
  /\ UNCHANGED <<instruction, lineNumber, bodyLines, entered, valueVars, errorLine,
                 inputEnded, lapses>>

\* One line of getMultilineInput: its tokens are added, or its error makes
\* shellInput tokenize the command again.  Two empty lines, not counting the
\* first line, end the input when the last one is empty.
TakeLine(text, count) ==
  /\ emptyLines' = IF phase = "line" /\ text = Nothing /\ emptyLines < 2
                   THEN emptyLines + 1 ELSE emptyLines
  /\ lineNumber' = lineNumber + count
  /\ lineNumber' <= MaxLine
  /\ AddToHistory(text) /\ Lapse(text)
  /\ tokenLines' = IF text = Nothing THEN tokenLines ELSE tokenLines \cup {lineNumber'}
  /\ retried' = (retried \/ text = Refused)
  /\ unfit' = (unfit \/ text = Unfit)
  /\ phase' = IF text = Refused THEN "tokenize"
              ELSE IF text = Nothing /\ emptyLines' = 2 THEN "lex" ELSE "line"
  /\ UNCHANGED <<instruction, bodyLines, valueVars, errorLine, inputEnded>>

ReadLine(text) ==
  /\ phase \in {"first line", "line"}
  /\ TakeLine(text, IF text = Nothing THEN 0 ELSE 1)

-----------------------------------------------------------------------------
(* Analyzing *)

NoTokens == tokenLines' = {} /\ retried' = FALSE /\ unfit' = FALSE

LexFailsTo(next) ==
  /\ phase = "lex" /\ instruction # Nothing
  /\ phase' = next
  /\ NoTokens
  /\ UNCHANGED <<instruction, lineNumber, emptyLines, bodyLines, entered, valueVars,
                 errorLine, inputEnded, lapses>>

\* Fault: as after the other errors, the loop continues without reading.
LexFailsAndContinues == LexFailsTo("tokenize")

\* The error is shown with the command, and the tokens are given up.
LexFails == LexFailsTo("read")

\* Nothing catches what the lexer throws, unless an error before ends it.
LexThrows ==
  /\ phase = "lex" /\ unfit
  /\ phase' = LexThrew
  /\ UNCHANGED <<instruction, lineNumber, emptyLines, tokenVars, bodyLines, entered,
                 valueVars, errorLine, inputEnded, lapses>>

\* The last value of the command before is deleted if it is a temporary.
LexSucceeds ==
  /\ phase = "lex" /\ ~unfit
  /\ Goes("run", MayBeGone(lastValue))
  /\ UNCHANGED <<instruction, lineNumber, emptyLines, tokenVars, bodyLines, entered,
                 valueVars, errorLine, inputEnded, lapses>>

-----------------------------------------------------------------------------
(* Running: what a line does to the values themselves is ValueOwnership's. *)

RunStep == phase = "run" /\ instruction # Nothing
RunKeeps == UNCHANGED <<instruction, lineNumber, emptyLines, tokenVars, entered>>

\* A container loses elements; one of them may be the last value.
Remains(value) == IF value = "part" THEN {"part", "destroyed"} ELSE {value}

\* Fault: an assignment forgets that the last value was the one it replaces.
HeldDangling(n, by) == IF lastValue = n THEN {"destroyed"} ELSE Remains(lastValue)

\* The last value when name n is bound again: an assignment that deletes it
\* clears it, a block's binding does not; neither deletes what a container holds.
Held(n, by) ==
  IF lastValue # n THEN Remains(lastValue)
  ELSE {IF by = "assignment" THEN "null" ELSE "destroyed"}
       \cup (IF n \in Doubtful THEN {"part"} ELSE {})

\* A name is bound by an assignment or by a block (the variable of a loop, the
\* error of a try), after the tag of its old value is read.
Bind ==
  /\ RunStep
  /\ \E n \in SessionNames, state \in {"literal", "own", "entangled"},
        by \in {"assignment", "block"} :
       /\ names' = [names EXCEPT ![n] = state]
       /\ lastValue' \in Held(n, by)
       /\ Goes("run", n \in Doubtful)
       /\ lapses' = lapses \cup (IF state = "entangled" THEN {"entangled"} ELSE {})
                           \cup (IF lastValue' = "part" THEN {"part"} ELSE {})
                           \cup (IF lastValue = n /\ by = "block" THEN {"by a block"} ELSE {})
  /\ RunKeeps /\ UNCHANGED <<bodyLines, errorLine, inputEnded>>

\* A call, an element assigned, a list or struct made or a loop begun: values of
\* names are held by others as well, and containers lose elements.  A call may
\* read cin to its end.
Change ==
  /\ RunStep
  /\ \E held \in SUBSET {n \in SessionNames : names[n] = "own"} :
       /\ names' = [n \in SessionNames |-> IF n \in held THEN "entangled" ELSE names[n]]
       /\ lapses' = lapses \cup (IF held # {} THEN {"entangled"} ELSE {})
  /\ lastValue' \in Remains(lastValue)
  /\ Goes("run", Doubtful # {})
  /\ inputEnded' \in {inputEnded, TRUE}
  /\ RunKeeps /\ UNCHANGED <<bodyLines, errorLine>>

\* checkMemory: the last value gives way to what the line leaves.
LineResults ==
  {"none", "result", "literal", "part"}
    \cup {n \in SessionNames : names[n] \in {"own", "entangled"}}

EndLine ==
  /\ RunStep
  /\ lastValue' \in LineResults
  /\ Goes("run", MayBeGone(lastValue))
  /\ lapses' = lapses \cup ({lastValue'} \cap {"literal", "part"})
  /\ RunKeeps /\ UNCHANGED <<names, bodyLines, errorLine, inputEnded>>

\* An error in one of the lines of the command or of a function, after some of
\* its lines or none.
Fail ==
  /\ RunStep
  /\ errorLine' \in tokenLines \cup bodyLines
  /\ phase' = "display"
  /\ RunKeeps /\ UNCHANGED <<bodyLines, valueVars, inputEnded, lapses>>

\* The run is over; it may have defined functions from the lines of a block.
EndRun ==
  /\ phase = "run"
  /\ phase' = "display"
  /\ \/ UNCHANGED bodyLines
     \/ instruction = Opens /\ bodyLines' = bodyLines \cup tokenLines
  /\ RunKeeps /\ UNCHANGED <<valueVars, errorLine, inputEnded, lapses>>

Run == Bind \/ Change \/ EndLine \/ Fail \/ EndRun

-----------------------------------------------------------------------------
(* The result *)

\* displayInterpreterResult reads the history for an error of another line, at
\* its size less the line number (an unsigned difference), or the last value,
\* which clearMemory reads in any case, as copyTokenValues does every name's.
Shown ==
  {IF errorLine \notin {0, lineNumber} /\ lineNumber > entered.size THEN OutOfRange
   ELSE "read"}
    \cup (IF MayBeGone(lastValue) \/ Doubtful # {} THEN {ReadDestroyed} ELSE {})

\* copyTokenValues: a name bound to a literal gets a copy of its own; and when
\* the lexer is gone, what is still a literal is destroyed.  (One of a function's
\* body lasts longer.)
Copied == [n \in SessionNames |-> IF names[n] = "literal" THEN "own" ELSE names[n]]
Destroyed(value) == IF value = "literal" THEN "destroyed" ELSE value

\* What remains: clearMemory deletes a result.
Finish(kept) ==
  /\ phase = "display"
  /\ phase' \in Shown
  /\ names' = [n \in SessionNames |-> Destroyed(kept[n])]
  /\ lastValue' = IF lastValue = "result" THEN "null" ELSE Destroyed(lastValue)
  /\ NoTokens /\ errorLine' = 0
  /\ UNCHANGED <<instruction, lineNumber, emptyLines, bodyLines, entered, inputEnded, lapses>>

\* Fault: the values are copied only after a run without an error.
DisplayCopyOnSuccess == Finish(IF errorLine = 0 THEN Copied ELSE names)

Display == Finish(Copied)

UserTypes == \E text \in Texts : ReadCommand(text) \/ ReadLine(text)
ShellWorks == Tokenize \/ LexFails \/ LexThrows \/ LexSucceeds \/ Run \/ Display

SessionNext == UserTypes \/ ShellWorks

\* The shell does not stop by itself; nothing makes the user type.
SessionSpec ==
  SessionInit /\ [][SessionNext]_sessionVars /\ WF_sessionVars(ShellWorks)

-----------------------------------------------------------------------------
(* Properties *)

\* What a variable of the session holds outlives the tokens of the command that
\* bound it, whether that command succeeded or failed halfway.  (The literals in a
\* list or struct do not: it is entangled.)
NamesOutliveTheirCommand == \A n \in SessionNames : names[n] # "destroyed"

\* An error of a command ends that command and not the shell.  Apart from what
\* a run throws, the shell dies of three things.  It asks the history for a line
\* that is not there, to show the error of another line than the current one,
\* only when the line number has outgrown the history: after an empty command,
\* a repeated line or a full history.  It reads a value that is no more only when
\* a last value was a literal, an element or a member, or was replaced by a block,
\* or when the values of names are entangled with others.  And the lexer throws
\* only at a text it is not fit for.
SessionSurvives ==
  /\ phase = OutOfRange => lapses \cap {"empty command", "repeated", "full"} # {}
  /\ phase = ReadDestroyed =>
       lapses \cap {"literal", "part", "by a block", "entangled"} # {}
  /\ phase = LexThrew => "unfit" \in lapses

Busy  == phase \in {"tokenize", "lex", "run", "display"}
Stuck == phase = "tokenize" /\ instruction = Refused

\* The shell is done with a command some time and reads on, or has died, unless
\* the command's program runs for ever; but a command that tokenize refuses is
\* never done with, and the shell reads no other one.
CommandsEnd ==
  /\ (Busy ~> (~Busy \/ Stuck)) \/ <>[](phase = "run")
  /\ [](Stuck => []Stuck)
=============================================================================
