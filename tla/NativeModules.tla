---------------------------- MODULE NativeModules ----------------------------
(***************************************************************************)
(* The libraries written in C++ (modules/), how CppModule loads them, how  *)
(* the analyzer finds their functions and how the interpreter calls them.  *)
(*                                                                         *)
(* A session is a sequence of texts, each analyzed as a whole and then     *)
(* run: the lines of a shell, or the one text of a file.  A call that      *)
(* stands in the body of a function may run again in any later text.       *)
(*                                                                         *)
(* All libraries put their functions in one table, by name.  table[f] is   *)
(* the function called f, native[m] the names the context of library m     *)
(* holds, user[m] the file that has the name m among the user's modules,   *)
(* functions the analyzer's cache of signatures, by path.                  *)
(*                                                                         *)
(* Of a user's file only one name is followed, that of a function libraries *)
(* have too, and of its calls only that they yield or fail: what a body     *)
(* may do is the matter of other modules.  ModuleRegistry has the import    *)
(* of a file that is not there.                                             *)
(***************************************************************************)
EXTENDS TypeRules, Sequences, FiniteSets

CONSTANTS
  Available,   \* the libraries there are in the folder of native modules
  UserModules, \* the names the user's own modules are imported under
  UserFiles,   \* the files of the user's own modules
  FileFunction, \* what the function of each is declared to take and return
  Contested,   \* the names used in a text of several calls (bound)
  MaxImports,  \* imports of one session (bound)
  MaxText      \* calls of one text (bound)

VARIABLES table, native, user, functions, text, kept, phase, last,
          imports, order, broken,
          retaken \* history: the names of user modules another file took over

\* Two functions in one, the first before the second.
f ++ g == [x \in DOMAIN f \cup DOMAIN g |-> IF x \in DOMAIN f THEN f[x] ELSE g[x]]

nativeVars == <<table, native, user, functions, text, kept, phase, last,
          imports, order, broken, retaken>>

-----------------------------------------------------------------------------
(* What the libraries register.  casts are the kinds the body casts its     *)
(* arguments to: "ANY" where it takes the text of any value; forged is what *)
(* comes of a File without data; module is the library whose function it    *)
(* is, once it is registered.                                               *)

Casts(ps) == [i \in DOMAIN ps |-> IF ps[i] = "STRING" THEN "ANY" ELSE ps[i]]

Fn(params, returns) ==
  [params |-> params, casts |-> Casts(params), returns |-> returns,
   yields |-> returns, outcomes |-> {"value"}, forged |-> {Undefined},
   module |-> "none"]

Of(m, f)           == [f EXCEPT !.module = m]
Named(names, f)    == [n \in names |-> f]
Fails(f)           == [f EXCEPT !.outcomes = @ \cup {"error"}]
Throws(f)          == [f EXCEPT !.outcomes = @ \cup {Threw}]
Divides(f)         == [f EXCEPT !.outcomes = @ \cup {Undefined}]

\* A member is read before the data: it may say no, or not be there.
ChecksMode(f)      == [f EXCEPT !.forged = @ \cup {"error", Threw}]

Real  == <<"FLOAT">>
Reals == <<"FLOAT", "FLOAT">>
Ints  == <<"INT", "INT">>

MathCurves ==
  Named({"sqrt"}, Fails(Fn(Real, "FLOAT"))) ++
  Named({"pow", "atan2"}, Fn(Reals, "FLOAT")) ++
  Named({"sin", "cos", "tan", "asin", "acos", "atan", "sinh", "cosh", "tanh",
         "asinh", "acosh", "atanh", "exp"}, Fn(Real, "FLOAT"))

\* The second log, of a base and a number, has a name that is taken.
MathLogs   == Named({"log", "log10", "log2"}, Fn(Real, "FLOAT"))
MathLogsOf == Named({"log"}, Fn(Reals, "FLOAT"))

\* Declared to yield an INT, their bodies make a Float.
MathRounding == Named({"floor", "ceil", "round"},
                      [Fn(Real, "INT") EXCEPT !.yields = "FLOAT"])

MathPlain ==
  Named({"abs"}, Fn(<<"INT">>, "INT")) ++
  Named({"fabs", "deg", "rad"}, Fn(Real, "FLOAT")) ++
  Named({"min", "max"}, Fn(Ints, "INT")) ++
  Named({"minf", "maxf"}, Fn(Reals, "FLOAT")) ++
  Named({"map"}, Fn(<<"FLOAT", "FLOAT", "FLOAT", "FLOAT", "FLOAT">>, "FLOAT"))

MathValues == {"PI", "E", "PHI", "TAU"}

\* randRange takes a remainder by max - min + 1, which may be zero.
RandomFunctions ==
  Named({"seed"}, Fn(<<"INT">>, "NONE")) ++ Named({"rseed"}, Fn(<<>>, "NONE")) ++
  Named({"rand"}, Fn(<<>>, "INT")) ++ Named({"randFloat"}, Fn(<<>>, "FLOAT")) ++
  Named({"randRange"}, Divides(Fn(Ints, "INT"))) ++
  Named({"randFloatRange"}, Fn(Reals, "FLOAT"))

TimeFunctions ==
  Named({"sleep"}, Fn(<<"INT">>, "NONE")) ++
  Named({"time", "timeMicros"}, Fn(<<>>, "INT")) ++
  Named({"strTime"}, Fails(Fn(<<"STRING">>, "STRING")))

TestFunctions == Named({"testFunction"}, Fn(<<"STRING">>, "NONE"))

TerminalPlain ==
  Named({"width", "height"}, Fn(<<>>, "INT")) ++
  Named({"clear", "home", "flush"}, Fn(<<>>, "NONE"))

TerminalModeFunctions ==
  Named({"rawMode", "normalMode"}, Fn(<<>>, "NONE")) ++
  Named({"getKey"}, Fn(<<>>, "STRING"))

Colour == <<"INT", "INT", "INT">>

TerminalPixels ==
  Named({"setPixelColor"}, Fails(Fn(Colour, "NONE"))) ++
  Named({"setRGBPixelColor"}, Fails(Fn(Ints \o Colour, "NONE")))

TerminalLetters ==
  Named({"setAscii"}, Fails(Fn(Ints \o <<"STRING">> \o Ints, "NONE"))) ++
  Named({"setRGBAscii"}, Fails(Fn(Colour \o Colour \o Colour, "NONE")))

TerminalShapes ==
  Named({"drawRect"}, Fails(Fn(Ints \o Colour, "NONE"))) ++
  Named({"drawText"}, Fails(Fn(Ints \o <<"STRING">> \o Ints, "NONE")))

\* Declared (x, y, text, ...), its body reads its arguments as (text, x, y, ...).
TerminalTextRGB ==
  Named({"drawTextRGB"},
        [Fails(Fn(Ints \o <<"STRING">> \o Colour \o Colour, "NONE"))
           EXCEPT !.casts = <<"ANY">> \o Ints \o Colour \o Colour])

TerminalValues == {"BLACK", "RED", "BLACK_BACKGROUND", "RESET_BACKGROUND"}

Path1 == <<"STRING">>
Path2 == <<"STRING", "STRING">>

FsPaths ==
  Named({"exists"}, Throws(Fn(Path1, "BOOL"))) ++
  Named({"isFile", "isDir", "isSymlink", "isEmpty"}, Fails(Fn(Path1, "BOOL"))) ++
  Named({"currentPath"}, Fails(Fn(<<>>, "STRING"))) ++
  Named({"size"}, Fails(Fn(Path1, "INT"))) ++
  Named({"createDirectory", "remove"}, Fails(Fn(Path1, "NONE"))) ++
  Named({"rename", "copy", "copyFile"}, Fails(Fn(Path2, "NONE")))

FsOpening ==
  Named({"open"}, Throws(Fails(Fn(Path2, "File")))) ++
  Named({"eof"}, Fails(Fn(<<"File">>, "BOOL")))

FsReading ==
  Named({"charCount", "getb"}, ChecksMode(Fails(Fn(<<"File">>, "INT")))) ++
  Named({"get", "getLine"}, ChecksMode(Fails(Fn(<<"File">>, "STRING")))) ++
  Named({"tellg"}, Fails(Fn(<<"File">>, "INT"))) ++
  Named({"seekg"}, Fails(Fn(<<"File", "INT", "BOOL">>, "NONE")))

FsWriting ==
  Named({"write"}, ChecksMode(Fails(Fn(<<"File", "STRING">>, "NONE")))) ++
  Named({"put"}, ChecksMode(Fails(Fn(<<"File", "INT">>, "NONE")))) ++
  Named({"flush", "close"}, Fails(Fn(<<"File">>, "NONE")))

\* The calls of addFunction of each library in order, but that one batch
\* stands for the calls between two that use the same name.
Batches ==
  [math |-> <<MathCurves, MathLogs, MathLogsOf, MathRounding, MathPlain>>,
   random |-> <<RandomFunctions>>, time |-> <<TimeFunctions>>,
   test |-> <<TestFunctions>>,
   terminal |-> <<TerminalPlain, TerminalPixels, TerminalLetters, TerminalShapes,
                  TerminalTextRGB, TerminalModeFunctions>>,
   fs |-> <<FsPaths, FsOpening, FsReading, FsWriting>>]

\* What load adds itself.
About == {"author", "version", "description", "name"}

Variables == [math |-> MathValues, random |-> {}, time |-> {}, fs |-> {},
              test |-> {"testValue"}, terminal |-> TerminalValues]

ASSUME NativeAssumption == Available \subseteq DOMAIN Batches

FunctionsOf(m) == UNION {DOMAIN Batches[m][i] : i \in DOMAIN Batches[m]}
NamesOf(m)     == FunctionsOf(m) \cup Variables[m] \cup About

\* A module of the user's own: its function, and what stands under that name
\* once the file ran, to its end or not.
UserFunction == "sqrt"
UserKinds    == {"INT", "FLOAT", "BOOL", "STRING"}
Holding      == {"function", "value", "nothing"}

ASSUME UserAssumption ==
  /\ UserFiles \cap (DOMAIN Batches \cup {"none"} \cup Failures) = {}
  /\ FileFunction \in [UserFiles -> [params : Seq(UserKinds),
                                     returns : UserKinds \cup {"NONE"}]]

UserFn(file) ==
  Of(file, Fails(Fn(FileFunction[file].params, FileFunction[file].returns)))

-----------------------------------------------------------------------------
(* Loading *)

Owned(batch, m) == [n \in DOMAIN batch |-> Of(m, batch[n])]

\* Fault: the entry is replaced.
AddFunctionsOver(t, batch, m) == Owned(batch, m) ++ t

\* CppModule::addFunction: insert leaves the entry alone if there is one.
AddFunctions(t, batch, m) == t ++ Owned(batch, m)

\* The loader of library m, which registers its batches one after the other.
Loaded(t, m) ==
  LET load[i \in 0..Len(Batches[m])] ==
        IF i = 0 THEN t ELSE AddFunctions(load[i - 1], Batches[m][i], m)
  IN load[Len(Batches[m])]

NoText == /\ text' = <<>>
          /\ functions' = <<>>

\* Module::addModule for a native module.  Every import makes a new module
\* with an empty context, which stays if the library cannot be loaded.
ImportNative(m) ==
  /\ phase = "analyze" /\ imports < MaxImports
  /\ imports' = imports + 1
  /\ \/ /\ m \in Available
        /\ table' = Loaded(table, m)
        /\ native' = [x \in {m} |-> NamesOf(m)] ++ native
        /\ order' = IF m \in {order[i] : i \in DOMAIN order} THEN order ELSE Append(order, m)
        /\ broken' = broken \ {m}
        /\ UNCHANGED <<text, functions>>
     \/ /\ m \in Available          \* dlopen or dlsym fails
        /\ native' = [x \in {m} |-> {}] ++ native
        /\ broken' = broken \cup {m}
        /\ NoText
        /\ UNCHANGED <<table, order>>
     \/ /\ m \notin Available
        /\ NoText
        /\ UNCHANGED <<table, native, order, broken>>
  /\ UNCHANGED <<user, kept, phase, last, retaken>>

\* Module::addModule for file p under the name m (or for a native module under
\* another name, which importas takes for a file).  A file that has a name is
\* not run again; one that has none is, and takes the name from the file that
\* has it.  If it fails, the text goes, but what it did stays.
ImportFile(m, p) ==
  /\ phase = "analyze" /\ imports < MaxImports
  /\ imports' = imports + 1
  /\ \/ \E k \in DOMAIN user :
          /\ user[k].file = p
          /\ user' = [x \in {m} |-> user[k]] ++ user
          /\ UNCHANGED <<functions, text>>
     \/ /\ \A k \in DOMAIN user : user[k].file # p
        /\ \E h \in Holding : user' = [x \in {m} |-> [file |-> p, holds |-> h]] ++ user
        /\ NoText \/ UNCHANGED <<functions, text>>
  /\ retaken' = IF m \in DOMAIN user /\ user[m].file # p THEN retaken \cup {m} ELSE retaken
  /\ UNCHANGED <<table, native, kept, phase, last, order, broken>>

-----------------------------------------------------------------------------
(* The analysis of a call :m.f *)

\* Module::isModule looks among the user's modules first.
Builtin(m) == m \notin DOMAIN user

\* Module::checkPath and hasValue: what stands behind a path.
Holds(p) ==
  IF ~Builtin(p.mod)
  THEN IF p.name = UserFunction THEN user[p.mod].holds ELSE "nothing"
  ELSE IF p.mod \in DOMAIN native /\ p.name \in native[p.mod]
       THEN IF p.name \in FunctionsOf(p.mod) THEN "function" ELSE "value"
       ELSE "nothing"

Function(p) == IF Builtin(p.mod) THEN table[p.name] ELSE UserFn(user[p.mod].file)

\* The operands of the calls tried: all of one kind, the kinds declared, or
\* those with Files that the program made itself: the structure is declared
\* like any other, but there is no stream in it.
Forged == "forged File"
Kind(arg) == IF arg = Forged THEN "File" ELSE arg

Offers == {"INT", "FLOAT", "BOOL", "STRING", "NONE", "File", "declared", Forged}
Offered(k, params) ==
  [i \in DOMAIN params |->
     IF k = "declared" \/ (k = Forged /\ params[i] # "File") THEN params[i] ELSE k]

\* Analyzer::analyzeFunctionCall compares names with names, kinds with kinds.
Accepts(from, to) == IF "File" \in {from, to} THEN from = to ELSE CastableTo(from, to)

Accepted(args, fn) == \A i \in DOMAIN args : Accepts(Kind(args[i]), fn.params[i])

\* Fault: a cached call leaves its path the type the parser gave it.
SignatureUntyped(p) ==
  IF p \in DOMAIN functions THEN [functions[p] EXCEPT !.builtin = FALSE]
  ELSE [fn |-> Function(p), builtin |-> Builtin(p.mod)]

\* The signature found for the path: cached, or looked up.
Signature(p) ==
  IF p \in DOMAIN functions THEN functions[p]
  ELSE [fn |-> Function(p), builtin |-> Builtin(p.mod)]

MayCall(p) == /\ phase = "analyze" /\ Len(text) < MaxText
              /\ \A i \in DOMAIN text : {text[i].path.name, p.name} \subseteq Contested

\* The path is looked at only if the signature is not cached.
Resolved(p) == p \in DOMAIN functions \/ Holds(p) = "function"

AnalyzeCall(p) ==
  /\ MayCall(p)
  /\ Resolved(p)
  /\ LET found == Signature(p)
     IN /\ functions' = [x \in {p} |-> found] ++ functions
        /\ \E k \in Offers, body \in BOOLEAN :
             LET args == Offered(k, found.fn.params)
             IN /\ Accepted(args, found.fn)
                /\ body => p.name \in Contested
                /\ text' = Append(text, [path |-> p, builtin |-> found.builtin,
                                         sig |-> found.fn, args |-> args, body |-> body])
  /\ UNCHANGED <<table, native, user, kept, phase, last, imports, order, broken, retaken>>

\* Operands missing or of the wrong kind, no such module, or no such name in it.
RefuseCall(p) ==
  /\ MayCall(p)
  /\ \/ p \notin DOMAIN functions /\ Holds(p) = "nothing"
     \/ /\ Resolved(p)
        /\ \E k \in Offers : ~Accepted(Offered(k, Signature(p).fn.params), Signature(p).fn)
  /\ NoText
  /\ UNCHANGED <<table, native, user, kept, phase, last, imports, order, broken, retaken>>

NoCall == [path |-> [mod |-> "none", name |-> "none"], builtin |-> TRUE, forged |-> FALSE,
           by |-> "none", result |-> "none", declared |-> "none"]

\* checkBuiltinFunction takes the value for a function without a look: the
\* cast of a number or a string yields the null pointer it then reads.
AnalyzeCallOfValue(p) ==
  /\ MayCall(p)
  /\ p \notin DOMAIN functions /\ Holds(p) = "value"
  /\ phase' = "dead"
  /\ last' = [NoCall EXCEPT !.path = p, !.builtin = Builtin(p.mod), !.result = Undefined]
  /\ UNCHANGED <<table, native, user, functions, text, kept, imports, order, broken, retaken>>

\* The calls that do not stand in a body, in their order.
Direct(s) ==
  LET direct[i \in 0..Len(s)] ==
        IF i = 0 THEN <<>>
        ELSE IF s[i].body THEN direct[i - 1] ELSE Append(direct[i - 1], s[i])
  IN direct[Len(s)]

Analyzed ==
  /\ phase = "analyze" /\ text # <<>>
  /\ phase' = "run"
  /\ kept' = kept \cup {text[i] : i \in {j \in DOMAIN text : text[j].body}}
  /\ text' = Direct(text)
  /\ UNCHANGED <<table, native, user, functions, last, imports, order, broken, retaken>>

-----------------------------------------------------------------------------
(* The call *)

\* Module::getModuleValue throws where the name is gone, and what is no function
\* any more is cast to one (getFunction).
Lost(failure) == [module |-> failure]

Callee(c) ==
  IF c.builtin
  THEN IF c.path.mod \in DOMAIN native /\ c.path.name \in native[c.path.mod]
       THEN table[c.path.name] ELSE Lost(Threw)
  ELSE IF c.path.mod \notin DOMAIN user \/ user[c.path.mod].holds = "nothing" THEN Lost(Threw)
  ELSE IF user[c.path.mod].holds = "value" THEN Lost(Undefined)
  ELSE UserFn(user[c.path.mod].file)

\* Fault: the arguments are passed on as they are.
GivenRaw(arg, param) == arg

\* BuiltinRPNFunction::call converts an argument that has another kind.
Given(arg, param) ==
  IF param = "File" \/ arg = param THEN arg ELSE Convert(arg, param)

\* What a call of fn on these operands may come to: the conversion, the body,
\* and the check of what it returned.  A function that takes other arguments
\* than the call was checked for takes them from the stack, whatever is there.
Outcomes(fn, args) ==
  LET given == [i \in DOMAIN args |-> Given(args[i], fn.params[i])]
  IN IF Len(args) # Len(fn.params) THEN fn.outcomes \cup Failures
     ELSE IF \E i \in DOMAIN given : given[i] = Threw THEN {Threw}
     ELSE IF \E i \in DOMAIN given : given[i] = Forged THEN fn.forged
     ELSE IF \E i \in DOMAIN given : fn.casts[i] \notin {"ANY", given[i]} THEN {Undefined}
     ELSE IF ~Accepts(fn.yields, fn.returns) THEN (fn.outcomes \ {"value"}) \cup {Threw}
     ELSE fn.outcomes

RunCall(c) ==
  LET fn == Callee(c) IN
  \E r \in (IF fn.module \in Failures THEN {fn.module} ELSE Outcomes(fn, c.args)) :
    /\ last' = [path |-> c.path, builtin |-> c.builtin,
                forged |-> \E i \in DOMAIN c.args : c.args[i] = Forged,
                by |-> fn.module, declared |-> c.sig.returns,
                result |-> IF r = "value" THEN fn.yields ELSE r]
    /\ phase' = IF r \in Failures THEN "dead" ELSE "run"
    /\ text' = IF r = "value" THEN (IF text # <<>> /\ c = Head(text) THEN Tail(text) ELSE text)
               ELSE <<>>

RunNext == /\ phase = "run" /\ text # <<>>
           /\ RunCall(Head(text))
           /\ UNCHANGED <<table, native, user, functions, kept, imports, order, broken, retaken>>

RunBody == /\ phase = "run"
           /\ \E c \in kept : RunCall(c)
           /\ UNCHANGED <<table, native, user, functions, kept, imports, order, broken, retaken>>

NextText == /\ phase = "run" /\ text = <<>>
            /\ phase' = "analyze"
            /\ functions' = <<>>
            /\ last' = NoCall
            /\ UNCHANGED <<table, native, user, text, kept, imports, order, broken, retaken>>

NativeInit == /\ table = <<>> /\ native = <<>> /\ user = <<>>
              /\ functions = <<>> /\ text = <<>> /\ kept = {}
              /\ phase = "analyze" /\ last = NoCall
              /\ imports = 0 /\ order = <<>> /\ broken = {} /\ retaken = {}

NativePaths == UNION {[mod : {m}, name : NamesOf(m)] : m \in Available}
                 \cup [mod : UserModules, name : {UserFunction}]

NativeNext == \/ \E m \in Available \cup {"missing"} : ImportNative(m)
              \/ \E m \in UserModules, p \in UserFiles : ImportFile(m, p)
              \/ \E p \in NativePaths : AnalyzeCall(p) \/ RefuseCall(p) \/ AnalyzeCallOfValue(p)
              \/ Analyzed \/ RunNext \/ RunBody \/ NextText

NativeSpec == NativeInit /\ [][NativeNext]_nativeVars

-----------------------------------------------------------------------------
(* Properties *)

\* The path of a call leads elsewhere: its library failed to load again, or its
\* module lost the name to another file.
Gone(c) == IF c.builtin THEN c.path.mod \in broken ELSE c.path.mod \in retaken

\* A call that was accepted, in this text or in the body of a function kept
\* from an earlier one, runs the function whose signature it was checked
\* against, unless a later import of its library failed to load or another
\* file was imported under the name of its module: nothing else may change the
\* table under it nor lead its path elsewhere, such as a module of the user's
\* that takes the name of its library (addFunction, analyzeFunctionCall,
\* getModuleValue).
AcceptedCallsKeepTheirFunction ==
  phase # "dead" =>
    \A c \in kept \cup {text[i] : i \in DOMAIN text} : ~Gone(c) => Callee(c) = c.sig

\* A call of :m.f runs the f of library m, unless a library that was loaded
\* earlier registered that name: then it runs that library's (addFunction).
FirstRegistrationAnswers ==
  \A m \in Available :
    (last.by = m /\ last.path.mod # m) =>
      \E i, j \in DOMAIN order : i < j /\ order[i] = m /\ order[j] = last.path.mod

\* The bodies of native functions cast their arguments without a look.  They
\* get what they cast and yield what they declare, and nothing else ends the
\* program, but for: drawTextRGB, which reads its arguments in another order
\* than it declares; randRange of an empty range; a File the program made
\* itself, without a stream; what is no function called as one; floor, ceil
\* and round, which yield a Float where an INT is declared; open and exists,
\* which let exceptions of the file system through; and a path that leads
\* elsewhere since the call was accepted (Gone).
CallsAsDeclared ==
  LET f == last.path.name IN
  (last # NoCall /\ ~Gone(last)) =>
    /\ last.result = Undefined =>
         f \in {"drawTextRGB", "randRange"} \/ last.forged \/ Holds(last.path) = "value"
    /\ last.result = Threw => f \in {"open", "exists"} \/ last.forged
    /\ last.result \notin Failures \cup {"error", last.declared} =>
         f \in {"floor", "ceil", "round"}
=============================================================================
