# RPNlang in TLA+

RPNlang is an interpreter, written in C++, for a small language in reverse
Polish notation.  This directory holds TLA+ models of it, the TLC
configurations that check them on small instances, and proofs that TLAPS
checks.  Paths below are relative to the repository (`src/` is its root).

## 1. The system

The program is sequential.  A text goes through a pipeline:

    text --tokenize--> tokens --lex--> blocks --analyze--> blocks --interpret--> values

`Lexer::lex` builds a queue of blocks (lines, code blocks, functions) and runs
the `Analyzer` over it; when neither reports an error, `Interpreter::interpret`
walks the same blocks.  What makes it hard is not concurrency.  It is raw
pointers: one `Value` is shared by the operand stack, symbol tables, an
interpreter's last result, a pending call's arguments, lists and structs, and a
tag on the value says who may delete it.  And it is that the interpreter checks
almost nothing: it relies on what the analyzer has promised, on every path an
error can take.

| Component | State | Operations | Interacts with |
|---|---|---|---|
| Lexer (`src/lexer`) | token queue, current line, stack of open blocks, block queue | `tokenize`, `lex`, `pushLine`, `parseKeyword`, `parseFunction`, `parseStruct` | fills the code blocks, calls the analyzer, registers struct definitions |
| Code blocks (`src/codeblocks`) | lines of tokens, queues of blocks, chained blocks (if/else, try/catch/finally) | push, iterate, `setNext`, reset | owned by the lexer or by a user function; own the tokens |
| Analyzer (`src/analyzer`) | abstract operand stack, types and conditional levels of variables, known functions | one method per token; blocks; function bodies after the rest | reads the context, imports modules, marks tokens as builtin or path |
| Interpreter (`src/interpreter/interpreter.cpp`) | operand stack, last result, context | `interpretFile`, `interpretLine`, one method per token and per block | memory, context, functions, values |
| Operand stack (`src/interpreter/memory.cpp`) | stack of values and names | push, pop, `popVariableValue`, clear | context, modules, structs |
| Context (`lib/context`) | symbol table, parent, root | `setValue`, `getValue`, `clear`, `takeOwnership`, `copyTokenValues` | one per file, module and call |
| Values (`lib/value`) | type, contents, owner tag | operators, casts, copies, `setOwner`, `deleteValue` | everyone |
| Lists and structs (`lib/value/types`) | vectors or maps of values | get, set, push, pop, insert, remove, copy | builtin functions, the interpreter |
| User functions (`src/rpnfunctions/userrpnfunction.cpp`) | parameters, return type, body; a global table | `call` | makes a context and an interpreter per call |
| Builtin functions (`src/rpnfunctions/builtinmap.cpp`) | a constant table | about thirty functions | lists, strings, the process |
| Module registry (`src/modules`, `lib/cppmodule`) | global table of modules, each with a context; opened libraries | `addModule`, `checkPath`, `getModuleValue` | runs a file in a new interpreter, or opens a shared library |
| Interactive shell (`src/main.cpp`) | one context and one interpreter for all lines | read, analyze, interpret, display | the line editor, the lexer |
| Line editor (`src/shell`) | cursor, text, history of at most 200 lines | keys, history file | the terminal |
| Native modules (`modules`) | shared streams of files, the terminal's settings | files, math, random, terminal, time | registered through `CppModule` |

What is hard in each part, and what makes it correct:

- *Values, operand stack, context, calls*: one value has several raw pointers to
  it and one tag that says who deletes it.  Correct: nothing that will still be
  read is freed, no temporary has two holders, no two variables share a value,
  nothing is forgotten; on error paths too.
- *Analyzer and value classes*: the interpreter casts without looking, so an
  accepted program must have the types the analyzer computed.
- *Lexer and blocks*: nested and chained blocks are built with a stack and with
  what happens to be last in a queue.  Correct: every word and block ends where
  it was written.
- *Control flow*: an error, a break or a return crosses blocks, handlers and
  calls.  Correct: it is consumed where the text says, once.
- *Modules*: an import runs in the middle of the analysis of another file, and
  files import each other.  Correct: a file is loaded once, imports end, what
  was accepted resolves when it runs.
- *Tokens and lines*: the tokenizer tries its expressions in a fixed order, and
  the lexer pops tokens from a line and keeps the rest.  Correct: the order gives
  the longest token; what runs is what was analyzed.
- *Native modules*: all libraries share one table of functions, and a body casts
  its arguments without a look.  Correct: an accepted call runs the function it was
  checked against, and that function gets what it casts.
- *Shell*: tokens and literals last for one command, the context and the last
  result for the session, and an error of one command is not to end the others.
  Correct: what is kept outlives what is thrown away; every command is done with.
- *Line editor and terminal*: two cursors, the text's and the console's, are moved
  apart; the terminal's settings are changed by the shell and by a native module.
  Correct: they stay in step; the user's settings come back.

## 2. The modules

| Module | Models | State and actions |
|---|---|---|
| `ValueOwnership` | `interpreter.cpp`, `memory.cpp`, `userrpnfunction.cpp`, `context.cpp`, `value.cpp` | one frame per interpreter: symbol table, operand stack, last value, pending arguments; one action per token, line end, call, return and error |
| `ForLoop` | `Interpreter::interpretFor`, the arithmetic of `cppinterface.cpp` | the tags of the values made, the symbol table, the three bounds and the counter as pointers; entering, an assignment or a read in the body, the end of a turn, break, return, error, clean-up |
| `ModuleValues` | `Module::load`, the end of `interpretFile`, `Context::takeOwnership`, `~Interpreter`, the shared `None` | the module's names, one name of the importing file, the tags, the interpreter's last value; lines of the module, its end or failure, reads and assignments of the importing file, the end of the program |
| `FileStreams` | `fs.cpp` and the C++ streams as it uses them | paths, texts of files, streams with their position, state bits and unflushed text, the File values that share them; one action per function |
| `ContainerOwnership` | `list.cpp`, `struct.cpp`, `listelement.cpp`, the list builtins of `builtinmap.cpp`, what the interpreter does with them | tags and contents of the values, symbol table, operands of a line, last value; one action per token and line end |
| `TypeRules` | `Analyzer::getOperatorType`, the operator methods of the value classes, the casts | operators only: the analyzer's table and the interpreter's, translated apart |
| `ExpressionTypes` | the analyzer and the interpreter on the same token of a program | types the analyzer computed, kinds the values have; one action per kind of token |
| `ConditionalScope` | `Analyzer::analyze` on blocks, `analyzeAssignment`, `getVariable`, the function bodies analyzed last | the analyzer's table of levels and counts of branches; beside it the set of variables that have a value on every way |
| `Tokenizer` | `Lexer::tokenize`, `regex.hpp`, `regex.cpp`, the conversion of number literals in `Lexer::lex` | the place in the line, the tokens found, the values; one action per match |
| `TokenLexer` | `Lexer::lex` token by token, `parseFunction`, `parseStruct`, `parseFunctionSignature`, `parsePath`, `parseType`, `pushLine`, `Line` | the tokens left, the line with the number of tokens popped from it, the open blocks, the queue; one step per round of the loop. Beside it the grammar of the README of the language, read token by token (`Understand`) |
| `BlockLexer` | `Lexer::lex`, `parseKeyword`, `parseFunction`, `CodeBlock`, `BlockQueue` | the current line, the stack of open blocks, the queues; one action per kind of token |
| `ControlFlow` | `Interpreter::interpret` and the `interpretIf/While/For/Try` methods, `UserRPNFunction::call`, `ExpressionResult` | a stack of activations and the result in flight; one action per block entered, left, iterated or called |
| `ModuleRegistry` | `module.cpp`, `Analyzer::analyzeImport`, `analyzePath`, `interpretFile` | the table of modules, the modules with their values, the analyses and interpretations under way; one action per line of a file in each phase |
| `NativeModules` | `cppmodule.cpp`, the registrations and bodies of `modules/`, `Analyzer::analyzeFunctionCall`, `BuiltinRPNFunction::call` | the table of functions, the contexts of the libraries, the files of the user's modules, the cache of signatures, the calls of the text under way and those kept in function bodies; importing, analyzing, running, the next text |
| `ReplSession` | `shellInput` of `main.cpp`, `Context::copyTokenValues` | the phase of the read loop, the lines the tokens come from, the history's size, what each name and the last result refer to; reading, tokenizing and lexing, the steps of a run (a name bound, values shared, the end of a line, an error, the end), the display |
| `LineEditor` | `shell.cpp` | command, cursor, history, the console's line and column, each character with the columns it takes; one action per key |
| `TextBuffer` | nothing: the abstract specification of a line editor | a text in two halves, the past texts, a draft |
| `TerminalModes` | `Shell::getChar`, `rawMode` and `normalMode` of `terminal.cpp`, the reads of `:getChr` and `:input` | the settings in force and those each party keeps, the end of the stream all of them read; reads with and without a key |

The modules whose names begin with `MC` give these their small instances; those
whose names end in `Proofs` hold the theorems.  Definitions marked `Fault:` are
mistakes the code does not make; no next-state relation uses them, they are there
to show that a property can fail.

### How they are put together

A run asks one question of a layer of the program, and a layer has several models.
`MCOwnership`, `MCLexing`, `MCTypes`, `MCModules` and `MCEditor` put the models of
a layer side by side: a behaviour is one of one of them, the variable `part` says
of which, and the others rest in an initial state.  This is a sum and not a
product: within a layer the models look at the same program from sides that share
no state, or share it through one assumption, which is stated:

- `ValueOwnership` takes from the analyzer that a line has the operands it pops and
  that names are defined; `ConditionalScope` says how far the second is true.
- `ControlFlow` takes well-formed blocks (`WellFormed`), which is what `BlockLexer`
  checks of the lexer in the documented layout; `BlockLexer` takes the tokens
  `TokenLexer` makes, and that the tokens `Tokenizer` cuts.
- `ExpressionTypes` carries the analyzer and the interpreter, since their agreement
  is the question; `ForLoop` takes the kinds a bound may have from it.
- `NativeModules` uses the casts of `TypeRules`.
- `LineEditor` is shown to implement `TextBuffer` (`ImplementsTextBuffer`): the text
  is cut at the cursor, the history is its lines in the order entered, and each key
  is a step of the buffer or a stutter, with two exceptions that the property names:
  Ctrl-W takes the character under the cursor too (`OneTooMany`), and a history with
  a line end in a command comes back from its file in other parts (`Split`).

### Abstractions

- `ValueOwnership`: values are addresses with a tag, scalars only; lists and
  structs, which own other values, are in `ContainerOwnership`.  Operators, casts,
  f-strings and builtins pop, delete and push; what they compute is left out.
  Cells are reused once freed.
- `ForLoop`: one loop; its body assigns `MaxAssigned` times and reads any variable.
  A comparison goes either way, so every number of turns up to `MaxTurns` happens.
  A bound is a literal, a variable, a computed integer or a computed value of
  another kind that casts to an integer.
- `ModuleValues`: a variable is assigned the literal written for it, a computed
  value or the None of a call; functions a module defines and modules it imports
  are in `ModuleRegistry`.  One other file with one variable stands for all that
  import it.  Its end stands for the destruction of the contexts in any order.
- `FileStreams`: a file is a sequence of a character and newlines; `bad` and `fail`
  are one bit.  What a `std::fstream` does is external and taken from the standard
  and from its use.  Inodes tell a file that was removed while open from the one
  that took its name.
- `ContainerOwnership`: one interpreter, and no errors: those and calls are in
  `ValueOwnership`.  Elements and members are scalars, a struct has one member, a
  list is created with one element at most, and indexes, sizes and repetition
  counts are literals next to their token.  A line is explored only if its values
  have the types the tokens need.  A pointer to a deleted value is kept only in
  `lastValue` (`Freed`), and the model stops where `checkMemory` would read it.
  `Sharing` names the constructs after which two parties are responsible for one
  value; section 4 says what each does.
- `ExpressionTypes`: scalars only.  A token is explored only if the analyzer
  accepts it.  `error` ends the run.  A call yields the declared type, as user
  functions are checked to; a native function may yield another kind that can be
  cast to it (`builtinsrpnfunction.cpp:60`), and the constant `Imprecise` has those
  that do (`floor`, `ceil`, `round`).  `features` names the constructs a
  program uses, so that straight programs and others are explored together.
- `ConditionalScope`: a program is assignments, uses and chains of blocks; every
  branch may be taken or not.  Types and names of functions are left out.
- `Tokenizer`: the alphabet has one or two members of each class the expressions
  tell apart, and the words `true` and `int` as one character each.  An int holds
  numbers up to `MaxInt`, a long up to `MaxLong`.  Strings have no escape sequences.
- `TokenLexer`: a token is its kind; names, and so duplicate definitions, are left
  out.  Of the blocks only one that does not chain is kept.  What is documented is an
  operator on the tokens (`Understood`): it looks at one token and what the one
  before awaits, never ahead as the lexer does, has no popped tokens and calls no
  operator of the lexer but the forms of a signature and of its types.  Definitions
  stand outside of all blocks.
- `BlockLexer`: a word is any token that stays on its line; a signature is one
  word.  `Layout = "documented"` is the layout of the README and of every program
  under `tests/`; `"free"` is anything.
- `ControlFlow`: a line is the result it can have.  Conditions go either way,
  a for loop runs up to `MaxTurns` times, calls nest up to `MaxCalls`.  A jump on
  the line that leads a block, and a call there that yields anything but success
  or an error, are left out.  A `finally` is as the code has it: skipped when
  there is a `catch` and no error, and skipped when the `catch` fails.
- `ModuleRegistry`: modules written in RPN, imports at the top level of a file,
  two kinds of values (a plain one and a function whose body uses a value of a
  module), and any error as one action, `Fail`, that every load under way
  returns through.  A file that is gone when `isImported` compares it ends the
  program (`ImportThrows`, `module.cpp:164`), at any import by a name that is taken.  Each line typed into the shell is a unit of its own.
- `NativeModules`: a function is its parameter types, the kinds its body casts to,
  the type it declares, the kind it yields and the other ways it may end.  Functions
  of one shape are one set of names.  An argument is a kind, and a File one the
  program may have made itself, without a stream.  Of the user's own files, two of
  which may be imported under one name, one function is followed: what it is declared
  to take, and that it yields or fails.
- `ReplSession`: a command is one of a few texts; what lexing and running it yield
  is chosen.  A run is any number of steps.  A value that two parties hold, or that
  holds something of others, is only called entangled: a step that reads it may find
  it gone.  An element or a member that is the last result may go with any step that
  changes a container.  What a run throws is not in it.
- `LineEditor`: a key with its escape sequence is one action; the console is one
  line wide enough; a character takes a fixed number of columns, one, none (a control
  byte, the later bytes of an UTF-8 letter, a line end) or several (a Tab); the
  history file holds what the editor wrote.  Reading
  behind the history ends the run in `outcome = "undefined"`.
- `TerminalModes`: three settings; a read that does not wait finds a key or none.
  The end-of-file mark of a C stream stays, as glibc has it, and `std::cin` and
  `getchar` share it.

## 3. The runs

| Run | Module, bounds | Shows | States |
|---|---|---|---|
| `ownership` | `MCOwnership`. `ValueOwnership`: 2 frames, 2 names, 3 cells, stack of 2. `ForLoop`: 3 turns, 1 assignment. `FileStreams`: 2 paths, 2 File values, 1 stream, files of 1 character. `ModuleValues`: 2 variables, 3 computed values | `OwnershipInv`, `OperandsLive`, `LastValueLive`, `NothingLeaks`; `LoopReadsLiveValues`; `EndIsSeen`, `CharCountIsHarmless`; `ModuleKeepsItsValues` | 1.5 M |
| `ownership_catch` | `MCValueOwnership`, the error variable may be a line's result | refutes `LastValueLive` | |
| `containers` | `MCContainerOwnership`: 2 lists, 2 structs, a scalar, a literal, 4 cells, lists of 2, no sharing construct | `NothingDangles`, `OneHolder`, `OnlyElementsGoStale`, `OrphansExplained` | 1.1 M |
| `containers_concat` | as above, with concatenation of lists that own their elements | refutes `NothingDangles` | |
| `types` | `MCTypes`. `ExpressionTypes`: 2 names, 3 operands, programs with no construct, with native calls and with all. `ConditionalScope`: 2 variables, 2 chains, 2 deep | `StraightTypesAgree`, `FailuresNeedDisagreement`; `OuterUsesAreBound` | 2.2 M |
| `blocks` | `MCLexing`. `BlockLexer`: 4 blocks, 2 words, documented layout. `Tokenizer`: every line of 3 of 19 characters. `TokenLexer`: one to three documented statements, with and without the last newline, and any five tokens of one topic | `WordsStayHome`, `BehaviourDefined`, `JumpsHaveATarget`, `BlocksAsWritten`; `LongestMatchWins`, `NumbersAsWritten`; `GrammarAccepted`, `CallsAsWritten`, `LinesRunAsAnalyzed` | 4.1 M |
| `blocks_one_line` | `BlockLexer`, free layout | refutes `WordsStayHome` | |
| `control` | `MCControlFlow`: every arrangement of a function, a loop and an if or try with its handlers, 2 jumps, 2 calls, 2 turns | `ReportedMeansUncaught`, `JumpsLand`, `Terminates` | 472 k |
| `modules` | `MCModules`. `ModuleRegistry`: 2 files, 2 names, 3 loads, every pair of two-line files and three-line main program. `NativeModules`: 4 libraries, 2 files of the user's under one name, 2 imports, texts of one call of any function or of 2 of the names contested | `OneModulePerFile`, `ReloadedOnlyIfReplaced`, `AcceptedUsesResolve`, `RegistryImportsEnd`; `AcceptedCallsKeepTheirFunction`, `FirstRegistrationAnswers`, `CallsAsDeclared` | 2.1 M |
| `modules_twice` | `MCModuleRegistry`, 2 files, 1 name | refutes `LoadedOnce` | |
| `editor` | `MCEditor`. `LineEditor`: 3 characters, of which the line end takes no column, commands of 3, of which those of 1 are entered, a history of 2, files of 2 lines. `ReplSession`: 1 variable, 2 lines, a history of 1. `TerminalModes` | `ConsoleShowsCommand`, `ImplementsTextBuffer`; `NamesOutliveTheirCommand`, `SessionSurvives`, `CommandsEnd`; `TerminalRestored` | 1.3 M |
| `editor_history` | `MCLineEditor` | refutes `HistoryInBounds` | |

Why the bounds are enough.

- *Ownership.*  It is broken by two holders of one value and a step that deletes it:
  two frames give a caller and a callee, three cells a value in each and one to be
  reused.  A loop frees a bound at its second turn and reads it at the third or at
  its end: three turns.  A module: two variables may hold one value, a third
  computed value is a line's result.  Files: one character is enough to be read, to
  be behind, and to be unflushed; two File values share a stream, two paths rename
  one to the other.
- *Containers.*  Two variables of each kind can share, four cells are a list of two
  with an operand beside it, or two structs of one table.
- *Types.*  An operator has two operands and a name under them for the assignment.
  Scope: what goes wrong is a count of one chain used for another, which two chains
  give, beside or inside each other, and a second variable whose counts are mixed up
  with the first's.
- *Blocks.*  A chain of three and a block nested in one of its members, or a loop in
  a function with a branch.  Lines of three characters hold a prefix, a sign or a
  digit and what follows it; the limits of numbers are small, 15 for an int and 31
  for a long, so that three characters of a decimal literal reach below, at and above
  both.  The one digit behind the prefix of a binary or hexadecimal literal stays
  below them; for those the limits are left to the theorem, which is of every line
  and every limit (`NumbersAlwaysAsWritten`).  One to three statements:
  what one leaves behind in a line meets the next, and the one after.  The programs
  of loose tokens take five of a topic, as long as the longest form of it; those that
  happen to be documented count as such.  `StatementsUnderstood` has TLC check that
  the grammar takes every documented statement and what it makes of it, so that
  `GrammarAccepted` is not empty.
- *Control.*  A jump has to cross a handler, a branch or a call between it and its
  target, which three blocks give in each order.
- *Modules.*  A mutual import takes two files, a name that is taken two names; a
  third load is one more than a program without replaced names can make, so that the
  bound does not hide a loop.  Native: two libraries can contest a name; the two
  names used in texts of two calls and in bodies are one that two libraries register
  and one that a user module has too; a text of two calls has one after one that
  failed; two files under the name of a library are one that takes the name from the
  other, by functions of other types.
- *Editor.*  Words and spaces on both sides of the cursor, a character without a
  column beside those with one, and a history at its cap.  One that
  is loaded above its cap is left to the theorem, which is of any.  Sessions: two lines are one with an error and one behind it.

`CHECK_DEADLOCK FALSE` is set everywhere: programs end, sessions stop at a bound,
and an error or a crash is a last state.

Fairness.  `ControlFlow` and `ModuleRegistry` have `WF_vars(Next)`: the interpreter
is one thread that runs until it has nothing to do.  Nothing is assumed about which
way a condition goes, so `Terminates` speaks only of programs without a `while`; and
`RegistryImportsEnd` speaks of programs in which no file takes another's name, since
the others need not end (`modules_twice`).  `ReplSession` has weak fairness of the
shell's own steps, the code between two reads; nothing makes the user type, so
`CommandsEnd` says only that a command that was typed is done with.  It holds but
for the command that `tokenize` refuses, with which the shell goes round for ever
(`main.cpp:113`), and for a program that runs for ever; the property says both.

## 4. What the code does otherwise than it says

Shown by runs:

- `ownership_catch`: a caught error rebinds the error variable without a hold
  pointer (`interpreter.cpp:487`); if the variable is the result of the last
  line, `lastValue` is freed memory.
- `containers_concat`: `+` puts the elements of its left operand into the new
  list without copying them (`list.cpp:125`); the first of the two lists to go
  deletes them under the other.
- `blocks_one_line`: a closing keyword does not push the line before it
  (`lexer.cpp:330`), so `false if "x" :print fi` on one line prints.
- `modules_twice`: two files under one name (`module.cpp:194`): the first is
  forgotten, loaded again on the next import, and if the two import each other
  the loading does not end.
- `editor_history`: Down on the newest line of the history reads behind it
  (`shell.cpp:265`).

Met while modelling, in the models, and not stated as properties that would only
be refuted.  Where a property names exceptions, these are the exceptions, and the run
and the proof show that the model has no others.

*The editor*
- `putChar` should "add a char to the command and display it correctly in the console"
  (`shell.cpp:314`).  End puts the console's cursor on the last character and not
  behind it (`shell.cpp:184`), and the next one typed is shown over it.  Any byte but
  a few is typed (`shell.cpp:120`), and one that does not take one column, such as a
  control byte, a Tab or a byte of an UTF-8 letter, is moved over as if it did
  (`shell.cpp:324`, `:416`).  `ConsoleShowsCommand`.
- Ctrl-W should "delete the next left word at the cursor position" (`shell.cpp:345`)
  and erases the character under the cursor besides (`shell.cpp:354`).
  `ImplementsTextBuffer`.
- A command with a line end, which may follow an escape (`shell.cpp:161`), is saved
  with it (`shell.cpp:96`) and loaded as two (`shell.cpp:65`): "load the command
  history from the history file" (`shell.cpp:42`) gives another history.
  `ImplementsTextBuffer`.

*Types and scope*
- The result of a native function has only to be castable to the type it declares and
  is not converted, though the exception it would throw names a result whose type is
  another (`builtinsrpnfunction.cpp:60-63`): `floor`, `ceil` and `round` yield a Float
  where the analyzer has an int, and `"a" 1.5 :math.floor *` is accepted and throws.
  `FailuresNeedDisagreement`, and straight programs are without such calls.
- An assignment in a branch that is not taken, or the variable of a loop that
  runs zero times, leaves the analyzer with a type the variable does not have
  (`analyzer.cpp:523`, `analyzer.cpp:811`); the bounds of a for loop are cast to
  an int without a conversion (`interpreter.cpp:436`); the names of an f-string
  are not looked up (`analyzer.cpp:342`).  `FailuresNeedDisagreement`.
- A variable assigned in two chains, in nested ones or in the head of a block is
  brought out of them too early, because one count serves all chains of a level
  (`analyzer.cpp:56`); a use the analyzer accepted then ends the program with
  "Undefined variable name".  `OuterUsesAreBound`.

*Loops and modules*
- The value of a counter is the loop variable's, so the second turn of a loop
  deletes the first bound unless it is a literal, and the loop reads it again; an
  assignment in the body to the loop variable or to a bound does the same
  (`interpreter.cpp:450`).  `LoopReadsLiveValues`.
- A module whose last line is a literal, or that fails with a literal on the stack:
  the interpreter looks at it after the tokens are gone (`interpreter.cpp:13`).  A
  module that fails to load stays in the table with the names of dead literals
  (`module.cpp:29`).  A module variable that holds the None of a call makes the
  module the owner of the None all calls share, and the next variable that loses it
  deletes it (`context.cpp:217`).  `ModuleKeepsItsValues`.

*Native modules*
- `drawTextRGB` reads its arguments in another order than it declares;
  `randRange` divides by an empty range; `floor`, `ceil` and `round` yield a Float
  where they declare an Int; `open` and `exists` let exceptions of the file system
  through; a File made by the program has no stream, and every function on Files that
  gets to it reads a null pointer (`fs.cpp:252`); a variable of a library is callable
  for the analyzer and is cast to a function.  `CallsAsDeclared`.
- A file imported under the name of another takes it (`module.cpp:194`), and a call
  accepted before, in a function's body, leads to its function or to nothing.
  `AcceptedCallsKeepTheirFunction` and `CallsAsDeclared` except it.
- The second library with a function of a name gets the first one's
  (`cppmodule.cpp:71`).  `FirstRegistrationAnswers`.
- `seekg` and `charCount` clear the end of a stream and not its failure
  (`fs.cpp:373`): a program that reads until eof does not end, and what
  `examples/files.rpn` writes (`files.rpn:46`, "openCountFile 0 true :fs.seekg") after
  it found its file empty (`files.rpn:35`) is lost.  `EndIsSeen` excepts a stream that
  was moved in a bad state, so no property is about this.
- A key read in raw mode that is not there makes `getchar` return EOF from then on:
  the shell is deaf for good (`terminal.cpp:265`), and so it is after a `:getChr` or
  an `:input` that met the end, in a cooked terminal too (`builtinmap.cpp:34`, `:40`).
  `TerminalRestored`.
- `isImported` asks the file system about every file loaded under the name, and throws
  where one has gone (`module.cpp:164`).  In the model (`ImportThrows`); no property
  is about it.

*Tokens and shell*
- `true` and `false` are cut off the front of a longer name.  `LongestMatchWins`.
  A decimal number above an int throws in the lexer; a hexadecimal one may take
  64 bits (`lexer.cpp:79`).  `NumbersAsWritten`.
- After a `funsig` a line may keep popped tokens of it (`lexer.cpp:15`), which the
  interpreter runs and the analyzer has not seen.  `LinesRunAsAnalyzed`.  Tokens
  behind the return type of a function are ignored.  `CallsAsWritten`.
- An error of an earlier command is sought in the history at the difference of two
  counters that advance on different occasions (`main.cpp:65`).  The last result
  may be a literal of the command before, an element or a member whose container has
  lost it since, or a value a block replaced, and is read by the next command
  (`main.cpp:126`).  A name's value that is put into a list takes the list's tag and
  goes with it.  A number no `int` holds ends the shell in the lexer (`lexer.cpp:79`).
  `SessionSurvives`.
- A signature, an arrow or a bracket in the wrong place throws or reads a token that
  is not there (`lexer.cpp:549` and others): outcomes `"threw"` and `"behaviour"` of
  `TokenLexer`.  The error of a block that is not closed has the position of a
  deleted token (`lexer.cpp:122`); positions are not modelled.

*Containers*
- The other three values of `Sharing`, each of which alone makes TLC refute
  `NothingDangles`: `adopt`, a list is created from a variable's value and tags it
  as its own (`interpreter.cpp:517`); `take`, an element or a member is assigned
  to something else without a copy (`interpreter.cpp:308` looks at the tag of the
  `ListElement`, not of the element); `pending`, a list shrinks or goes while an
  operand of the line still stands for one of its elements.
- Values are forgotten by `pop`, which nobody takes the element from
  (`builtinmap.cpp:212`); by `get` on a temporary list (`interpreter.cpp:556`); by
  `==` and `!=` on lists, for each pair of elements (`list.cpp:193`); by the
  creation of a struct, which copies what it has just tagged (`struct.cpp:98`).
  `OrphansExplained` says that these are all.
- `!=` on lists negates twice: lists of one length whose elements all differ
  compare as not different (`list.cpp:194-197`).
- `insert` compares the type of the index, not of the value, with the list's
  (`builtinmap.cpp:220`).
- `+` is accepted when only its right operand is a list (`analyzer.cpp:924`), and
  throws.

*Errors*
- `if fi` with no line before it reaches the interpreter (`interpreter.cpp:138`).
- Operands of a failed line stay on the stack after a catch
  (`interpreter.cpp:193`), and a failed call leaks its arguments
  (`interpreter.cpp:361`); hence the premise of the second half of `NothingLeaks`.
- After `interpretFile` the context and the tokens are gone while the
  interpreter still points at their values (`interpreter.cpp:77`); hence
  `TextAlive` in the invariants.

## 5. The proofs

TLAPS checks these for every value of the constants that satisfies the
assumptions of each module.

| Theorem | Says |
|---|---|
| `OwnershipProofs!TypeCorrect`, `OwnershipHolds` | `[]TypeOK`; `[]OwnershipInv`, from which `OperandsStayLive`, `TemporariesStayUnshared`, `VariablesStayUnshared`, `LastValueStaysLive` |
| `OwnershipProofs!NothingIsForgotten` | `[]NothingLeaks`: every value has a variable, an operand, an argument or a result that leads to it, but for the temporaries of a failed line or call |
| `ContainerProofs!NothingDanglesAlways`, `OneHolderAlways`, `OnlyElementsGoStaleAlways`, `OrphansExplainedAlways` | without the sharing constructs nothing that can be reached was deleted, every value has one holder, only an element or a member can go stale as the last result, and only `pop`, `get`, a comparison of lists and the creation of a struct forget a value |
| `OwnershipProofs!ModuleKeeps` | `[]ModuleKeepsItsValues`: a loaded module's names stand for values of its own, and the ways a module reads or deletes what is gone are those of section 4 |
| `OwnershipProofs!LoopReadsLiveValuesAlways` | a for loop reads and deletes only live values and forgets none, but for the assignments and kinds of bounds named there |
| `OwnershipProofs!EndIsSeenAlways`, `CharCountAlwaysHarmless` | a stream whose reads failed says that it is at its end, unless it was moved while at its end or failed, or its members were assigned; `charCount` counts what is not flushed too and leaves the reader where it was |
| `ExpressionTypesProofs!ScalarResultsAgree`, `ConcatenationFits`, `RepetitionFits` | the analyzer's operator table and the operator methods give the same type for scalars that do not fail; the elements of a sum or a repetition of lists are castable to the type the list is given |
| `ExpressionTypesProofs!TypesCorrect`, `FailuresExplained` | `[]TypeOK`; a failure is a wrong type, an f-string or a for bound |
| `ExpressionTypesProofs!StraightAgreement`, `StraightSafety` | straight programs (no branches, skipped loops, f-strings or imprecise native functions): types agree, nothing fails |
| `ExpressionTypesProofs!OuterUsesAreBoundAlways` | a use outside of all blocks that the analyzer accepts has a value on every way, if one chain of blocks assigns the variable |
| `ControlFlowProofs!TypeCorrect`, `ReportedErrorsUncaught`, `JumpsStayHome`, `ResultsLand` | activations are typed, an error that ends a program had no handler around it, a break or a return never leaves its function, every result ends in the frame that was innermost for it |
| `LexerProofs!WordsAlwaysStayHome`, `BehaviourAlwaysDefined`, `JumpsAlwaysHaveATarget`, `BlocksAlwaysAsWritten` | in the documented layout a word stays in the block it was written in, no parse reads what is not there, a jump that is kept has its loop or function, and every closed block has one place, behind what it continues |
| `LexerProofs!LongestMatchAlwaysWins` | whatever the line, the first expression that matches takes the most, but for `true` and `false` |
| `LexerProofs!NumbersAlwaysAsWritten` | whatever the line and the widths of the integers, a literal an Int can hold is the number its digits say, in each base; the lexer throws only at a decimal number larger than an int and at `-.` |
| `LexerProofs!GrammarAlwaysAccepted` | a program of any length that is written as documented is lexed without an error and never throws in the analyzer, and its queue holds its statements, blocks and signatures in the order written |
| `LexerProofs!LinesAlwaysRunAsAnalyzed`, `CallsAlwaysAsWritten` | whatever the program, what a line runs and the analyzer did not see is whole signatures, no more than the program has; a single colon makes one call on one line, or stands where a function is made of its line |
| `ModuleRegistryProofs!TypeCorrect`, `OneModule`, `LoadedOnceUnlessReplaced`, `AcceptedResolve` | the registry is typed, one module per file, the one way a file is loaded twice, and what the analyzer accepted is there when it runs |
| `ModuleRegistryProofs!CallsKeepTheirFunction`, `FirstAnswers`, `NativeCallsAsDeclared` | a call that was accepted runs the function it was checked against, unless its path leads elsewhere since; the library loaded first owns a contested name; arguments and results are as declared but for the functions and the cases named |
| `ShellProofs!ConsoleIsInStep`, `EditorImplementsTextBuffer` | whatever the prompt, the characters and their columns, the console's line and column are those of the text and the cursor, but after End and with a character that has not one column; each key is a step of `TextBuffer` or a stutter, but for the two exceptions named |
| `ShellProofs!TerminalComesBack`, `NamesStay`, `SessionStays` | `[]TerminalRestored`, the program's own reads included; `[]NamesOutliveTheirCommand`; `[]SessionSurvives`: each way the shell may die has one of the causes named for it |

The assumptions are on constants: bounds are naturals, sets that a loop walks are
finite, programs are well formed (`WellFormed`), the letters of a text are neither a
blank nor a line end, a blank takes one column, a line end none and the prompt is not
empty, the libraries are among those the repository has (`NativeAssumption`), a user
module takes and returns kinds that are not Files (`UserAssumption`), an imprecise
function yields what can be cast to what it declares (`ExpressionAssumption`), and numbers of streams are above the one that
stands for none.

*Ownership.*  `OwnershipInv` is inductive together with `TypeOK`: tags and
holders agree (`Tags`), what is reachable is not freed, temporaries have one
holder, frames not in use are empty.  Liveness of operands alone is not
inductive: a step that deletes a temporary keeps the others alive only because
nothing else holds it, and that only because every holder has raised the tag.
The hypothesis is `UnheldNeverResult`: no name that is bound without a hold
pointer (error variables, functions) is the result of a line.  `ownership_catch`
shows that it is needed.  The run `ownership` checks the same `OwnershipInv`.
`NothingLeaks` is inductive relative to it: a step that drops a holder of a
temporary deletes the temporary or hands it on, because no other holder is there to
do so, and a variable that is written or goes with its context deletes its value.

*Containers.*  `ContainerInv` is said of a heap (tags, contents, items), a symbol
table, a stack and a last value given as arguments, so that it can be said of the
heap an operation has made before it deletes the dead.  A value in a container is
in that place only; a value that waits on the stack is a temporary of one operand;
a variable's value is in no container and no other variable's.  With these, what
`deleteValue` reaches from a temporary is reached from nowhere else, which is what
every action has to show.  `Sharing = {}` is a hypothesis because each member of
`Sharing` makes two holders of one value in one step (section 4).
`OrphansExplained` is an action property: a value that has somebody to delete it
(`Cared`: the operand, the last result, the variable or the container its tag names)
has somebody after every other step, or was deleted.  It is shown for each action of
the heap it has made and then of the deletion, whose destructors take what was held
in one place only, so that nothing left has lost its holder (`DeleteCares`).

*A for loop.*  Between two turns the temporaries are among the bounds and the
counter (`TempsOK`), so the clean-up finds all of them.  `CalmOK` has what is live
as long as the body assigns neither a bound nor the loop variable; `FirstOK` says how
the first bound is freed by the second turn otherwise.

*Streams.*  An open stream has a file, and its `readable` and `writable` are at
least what it was opened for: they are never assigned but to true.  `EndSeen` is
then inductive for each stream by itself, however many File values share it.

*Types.*  The agreement of types and kinds is inductive on straight programs
because each scalar operator yields the kind the analyzer's table has
(`ScalarResultsAgree`).  `FailuresExplained` needs no invariant
but `TypeOK`: it looks at one step.

*Scopes.*  `ScopeInv` relates the analyzer's two counts to the ways through the
program.  A variable assigned by the chain being read alone has a count of at most
the blocks so far; a count of all of them says that it has a value here, one of all
but the last that it has one at the end of each block before (`InChain`); behind the chain, at level 0 or with a count
of two, it has a value for good (`Behind`).  A count of one chain used for another,
the flaw of section 4, is what the condition on `spread` excludes.

*Control.*  The invariant says of the stack of activations that each frame is
entered from the one below (`StackOf`), so that the static facts of a well-formed
program (every jump has a loop or function around it) become facts about the
frames (`Targeted`), and that a result in flight has not passed the frame it is
for (`Landing`).

*Blocks.*  `LexInv` says of the queues, the open blocks and the line being read that
words are where they were written (`Homely`), that each closed block which continues
none is one item of one queue (`ItemsFit`, `ItemsApart`, `BlocksThere`) and any other
is the next of exactly one block, once it is closed (`Continued`), and that the end
of the queue an open block will be put into is what it goes on or the signature it
takes (`Awaited`); `Sheltered` has a loop or a function around what jumps.  The
documented layout ends the line before every keyword that closes or chains a block;
without it a line goes into the queue of another block than it was written in, as
`blocks_one_line` shows, so `Layout = "documented"` is a hypothesis of the four
theorems.  `ItemsFew` bounds the queues by the words and blocks read, so that the
places `BlocksAsWritten` looks through are all there are.

*Tokens.*  `LongestMatchWins` compares twenty-three expressions with each other.
What a text that an expression matches begins with (`Heads`) leaves five groups in
which two can match at one place: numbers with the minus and the arrow, a point, the
names, the capitals, and the comparisons; for those the lengths are compared
(`PrefixFirst`, `FloatFirst`, `NameFirst`, `CapsFirst`).  The invariant of the
specification is only that a token is the first that matches where it begins.
`NumbersAsWritten` adds the text it took and that each value is what the token at its
place is parsed to (`NumbersInv`).  The code reads a number from its first digit on,
multiplying and adding; what the digits say is a sum of weights from the last one.
That the two agree (`SaysAccumulated`) is an induction over the digits: read up to the
digit with k behind it, times the weight of that place, and the sum of those behind
make the number.  The prefix is read along and counts for nothing (`PrefixSilent`).

*Lines of tokens.*  `LexerInv` says of every line there is, in the queue, in an open
block or being made, that its popped tokens are signatures and no call is among them
(`Popped`: a call is made of the last token, which may not be popped), that there are
as many signatures in the queue as arrows were popped, and that a struct is open
only within all others and holds lines (`Structs`), so that what it drops is no
function; and it follows the colon: either it is still to be read and there is no
call, or it was read and the call is on one line or in the line a function was made of
(`Called`).  Each of the lexer's methods is shown to keep this (`Keeps`), whatever
state of the kind it starts from.  The attempt showed that a function made inside
another block also takes its declaration from the last line of the program
(`lexer.cpp:446`), with the call a colon had made there: the statement of
`CallsAsWritten` had left that out, the proof found it and a program of `blocks` has
it now.

*Programs as documented.*  `GrammarInv` runs the grammar beside the lexer: of a
program the grammar understands to its end, there is a token behind which the lexer
stands, and there (`Agree`) the words of the line are those not popped, the open
blocks are the open blocks, what the program has made is the queue without the line
of the definition that is open (`Outside`), and that line is one the definition will
take (`Announces`); the lines in a struct are members, all others hold nothing the
analyzer does not know (`Suits`).  The lexer takes several tokens in a round where the
grammar takes one, so it is always behind a whole name or type: no dot and no arrow
follows that would make the last word longer (`Settled`).  That the pairs of
`parsePath` and `parseStructAccess` are the ones the grammar joins is an induction
over the pairs (`ChainFollows`), and that what is wrong stays wrong makes every
token of a documented program one the grammar accepts (`RunDocumented`).  An arrow
is a word only where a definition will take it, which is why the analyzer never
meets it.

*Modules.*  The parts of the type invariant are operators of a program, a table
and a stack of frames, so that the same lemmas speak of the state before a step
and after it.  `OneModulePerFile` is inductive with it.  That a file is loaded
again only if replaced needs `NamedOrReplaced`: a module keeps a name until
another file takes its last one.  `AcceptedUsesResolve` needs `Accepted`: of
each activation, the paths of the lines it analyzed, or has yet to interpret,
resolve; and a module whose function is there has a body that resolves.  It is
inductive because a name that is not taken keeps its module (`NamesKept`, from
`OneModulePerFile`: importing a file again gives a name the module it has) and a
module keeps its values (`ValuesKept`).

*Native modules.*  The table of functions and the contexts are compared with the
libraries imported, in the order of import: an entry is the first import's that
registers the name (`TableOK`), and every signature the analyzer has kept is that of
an entry (`CacheOK`).  Entries are never replaced, so what a call was checked against
is what it runs; of a user's module the same holds as long as no other file takes its
name, which `retaken` records.  What the analyzer accepts when it casts argument by argument is
proved by recursion over positions.

*A module's values.*  A name has a value of its own (`OneName`), which is what makes
the end of the module delete each once; while the module runs the tokens own their
literals, the context the computed values it holds, and the last result is alive
(`WhileRunning`); and the `None` of calls is nobody's unless a loaded module holds it
(`Unshared`).  `ModuleKeepsItsValues` alone says nothing of the time
before the module is loaded.

*The editor.*  `ConsoleShowsCommand` is inductive with the types and with a fact
about the text: unless `astray` says that it holds an odd character, its cells are
its characters (`CellsAreText`).  The work is in the functions it is built from: the
cells of a text, the word that popWord erases and the lines of a command in the file
are loops over positions in the code and recursive functions here.
`NumbersAndSequences` proves induction over the naturals
for a predicate given as a set, from the well-foundedness of strict inclusion on
intervals, which the installed provers can instantiate, that what is defined by
recursion along numbers exists, and what the proofs of several modules say of
sequences; those of the lexer, of the native modules and of the module values use it
too.  The refinement cuts the text at the cursor: each key
is shown to be a step of `TextBuffer`, one of the two exceptions, or to change
neither half nor the past texts.

*The shell.*  The terminal: between the two calls of a pair the global of the module
holds the user's settings, outside of them they are in force or in the hands of
`getChar`, and after the end of the keys only a program that met it is still run
(`TerminalInv`).  The session: the line number does not outgrow the
history as long as none of the lines was empty, repeated or one too many
(`HistoryKeepsUp`), and a value that is no more or may be, or a text the lexer dies
of, has a cause on record (`Explained`).  `NamesOutliveTheirCommand` is inductive with
the type of the names (`Alive`).

Of the properties of the runs, these are stated by theorems: `OwnershipInv`,
`OperandsLive`, `LastValueLive`, `NothingLeaks`, `ModuleKeepsItsValues`, `LoopReadsLiveValues`,
`EndIsSeen`, `CharCountIsHarmless`, `NothingDangles`, `OneHolder`,
`OnlyElementsGoStale`, `OrphansExplained`, `WordsStayHome`, `BehaviourDefined`, `JumpsHaveATarget`,
`BlocksAsWritten`, `LongestMatchWins`, `NumbersAsWritten`, `GrammarAccepted`,
`CallsAsWritten`, `LinesRunAsAnalyzed`, `StraightTypesAgree`, `FailuresNeedDisagreement`,
`OuterUsesAreBound`, `ReportedMeansUncaught`, `JumpsLand`, `OneModulePerFile`,
`ReloadedOnlyIfReplaced`, `AcceptedUsesResolve`, `AcceptedCallsKeepTheirFunction`,
`FirstRegistrationAnswers`, `CallsAsDeclared`, `ConsoleShowsCommand`,
`ImplementsTextBuffer`, `TerminalRestored`, `NamesOutliveTheirCommand` and
`SessionSurvives`.  The theorems also cover what no run repeats: the type
invariants, `TemporariesUnshared`, `VariablesUnshared`, `NoStrayJump` and
`StraightNeverFails`.

Only model-checked: the liveness properties `Terminates`, `RegistryImportsEnd` and
`CommandsEnd` (the prover has neither fairness nor `ENABLED`), and that the grammar of
`TokenLexer` takes each form of statement there is (`StatementsUnderstood`).

## 6. Not modelled, and the plan

Not modelled, and why:

- the vendored `ctre.hpp`: third-party code; `Tokenizer` has what the expressions
  match, not how;
- the values of numbers beyond the limits of literals, what the functions of math,
  random and time compute and what the terminal draws: pure functions of numbers,
  best tested;
- messages, positions, colors, escape sequences of strings, and the parents of
  contexts, which serve messages alone: wording and layout;
- the options of the command line and a program read from a pipe: another way into
  the same lexer and interpreter;
- who deletes blocks and tokens: `unique_ptr` and destructors in one place each, but
  for the token of `lexer.cpp:122`;
- exceptions a run throws: they end the program; where they come from is in the
  modules that name them (`"threw"`).

What would come next, in this order:

1. A jump on the line of a condition (`interpreter.cpp:381`): `interpretIf` and
   `interpretWhile` test only `error()` and go on with a stack the line did not
   finish.  It takes operands into `ControlFlow`, and its proofs with it.
2. `ContainerOwnership` further: lists of lists and structs of structs, errors and
   calls as in `ValueOwnership`, literals in a list when their text goes.
   Abstract specification: every container is a tree of its own.
3. An abstract specification of `ControlFlow` (a program is a set of structured
   traces) and of `BlockLexer` (a tree read from its brackets), and the models
   shown to implement them.
4. `ReplSession` composed with `ModuleRegistry`, whose units it refines.
5. The grammar of `TokenLexer` with blocks that chain, which `BlockLexer` has, so
   that one theorem speaks of whole programs.
