---------------------------- MODULE ModuleRegistry ----------------------------
(***************************************************************************)
(* Modules written in RPN: one table for the whole program maps a name to  *)
(* a module, a file with the context its code has filled.  An import is    *)
(* done while the line it is on is analyzed: the file is analyzed, with    *)
(* the imports it holds, and interpreted, before the line's own file goes  *)
(* on.  A path name.value is looked up by the analyzer and again, under    *)
(* the name, whenever it is interpreted.                                   *)
(*                                                                         *)
(* A program is a record: main its lines, files[p] those of the file p,    *)
(* interactive whether main is typed into the shell, a line at a time.  A  *)
(* line imports, defines the value "v" of its file or its function "f",    *)
(* whose body uses the value of a module, or uses a module's.              *)
(***************************************************************************)
EXTENDS Naturals, Sequences

CONSTANTS
  Names,     \* the names modules are imported under
  Paths,     \* the files
  Programs,  \* the programs
  MaxLoads   \* bound on the modules that are loaded

Values == {"v", "f"}
Lines  == [kind : {"import", "define", "function", "use"},
           path : Paths, name : Names, value : Values]

ASSUME ProgramsAssumption ==
  Programs \subseteq [main : Seq(Lines) \ {<<>>}, files : [Paths -> Seq(Lines)],
                      interactive : BOOLEAN]
ASSUME LoadsAssumption == MaxLoads \in Nat

VARIABLES
  program,
  modules,  \* Module::modules: the module of each name, 0 if it has none
  loads,    \* the modules: a file, the values of its context, how far it is
  frames,   \* the analyses and interpretations under way, the innermost last
  crashed,  \* the lookup of a value threw, and ended the program
  replaced  \* history: the files that had a name another one took

vars == <<program, modules, loads, frames, crashed, replaced>>

\* The program is frame 1, its module is 0.  A file is one unit, analyzed and
\* then interpreted up to its last line; in the shell each line is a unit.
Frame(m, at, last) == [module |-> m, phase |-> "analyze", at |-> at, last |-> last]
MainFrame(at) == Frame(0, at, IF program.interactive THEN at ELSE Len(program.main))

Init ==
  /\ program \in Programs
  /\ modules = [n \in Names |-> 0]
  /\ loads = <<>>
  /\ frames = <<MainFrame(1)>>
  /\ crashed = FALSE
  /\ replaced = {}

Depth == Len(frames)
Top   == frames[Depth]
TextOf(m) == IF m = 0 THEN program.main ELSE program.files[loads[m].path]
Text  == TextOf(Top.module)
First == IF Top.module = 0 /\ program.interactive THEN Top.last ELSE 1

Doing(phase) == Depth > 0 /\ Top.phase = phase
Line(phase, kind) == Doing(phase) /\ Top.at <= Top.last /\ Text[Top.at].kind = kind
Current == Text[Top.at]
Advance == [frames EXCEPT ![Depth].at = @ + 1]

\* Fault: a module that is still being loaded is not found.
RegisteredLoaded(p) ==
  {n \in Names : modules[n] # 0 /\ loads[modules[n]].path = p /\ loads[modules[n]].state # "loading"}

Registered(p) == {n \in Names : modules[n] # 0 /\ loads[modules[n]].path = p}

\* The file the function f of a module uses.
BodyName(m) ==
  TextOf(m)[CHOOSE i \in DOMAIN TextOf(m) : TextOf(m)[i].kind = "function"].name

\* name.value names a value that is there.
Has(n, v) == modules[n] # 0 /\ v \in loads[modules[n]].values

-----------------------------------------------------------------------------
(* Analysis *)

\* The name n is given to the module m.
Register(n, m) ==
  /\ modules' = [modules EXCEPT ![n] = m]
  /\ replaced' = IF modules[n] # 0 /\ loads[modules[n]].path # Current.path
                 THEN replaced \cup {loads[modules[n]].path} ELSE replaced

\* Fault: another name gets a copy of the module.
ImportCopies ==
  /\ Line("analyze", "import")
  /\ Len(loads) < MaxLoads
  /\ \E n \in Registered(Current.path) :
       IF n = Current.name THEN UNCHANGED <<modules, replaced, loads>>
       ELSE /\ Register(Current.name, Len(loads) + 1)
            /\ loads' = Append(loads, loads[modules[n]])
  /\ frames' = Advance
  /\ UNCHANGED <<program, crashed>>

\* Module::addModule finds the file under a name: the module gets another one.
ImportAgain ==
  /\ Line("analyze", "import")
  /\ \E n \in Registered(Current.path) :
       IF n = Current.name THEN UNCHANGED <<modules, replaced>>
       ELSE Register(Current.name, modules[n])
  /\ frames' = Advance
  /\ UNCHANGED <<program, loads, crashed>>

\* Otherwise it is registered, and then loaded; a name it takes is given up.
ImportFirst ==
  /\ Line("analyze", "import")
  /\ Registered(Current.path) = {}
  /\ Len(loads) < MaxLoads
  /\ loads' = Append(loads, [path |-> Current.path, values |-> {}, state |-> "loading"])
  /\ Register(Current.name, Len(loads) + 1)
  /\ frames' = Append(Advance, Frame(Len(loads) + 1, 1, Len(program.files[Current.path])))
  /\ UNCHANGED <<program, crashed>>

\* isImported asks the file system about the files that have a name, one by one:
\* that throws where there is no such file, and the program ends.
ImportThrows ==
  /\ Line("analyze", "import")
  /\ \E n \in Names : modules[n] # 0
  /\ frames' = <<>>
  /\ UNCHANGED <<program, modules, loads, crashed, replaced>>

\* A definition has its value only once it is interpreted.
AnalyzeDefinition ==
  /\ Line("analyze", "define") \/ Line("analyze", "function")
  /\ frames' = Advance
  /\ UNCHANGED <<program, modules, loads, crashed, replaced>>

\* Fault: the analyzer does not ask whether the module has the value.
AnalyzeUseBlind ==
  /\ Line("analyze", "use")
  /\ modules[Current.name] # 0
  /\ frames' = Advance
  /\ UNCHANGED <<program, modules, loads, crashed, replaced>>

\* analyzePath
AnalyzeUse ==
  /\ Line("analyze", "use")
  /\ Has(Current.name, Current.value)
  /\ frames' = Advance
  /\ UNCHANGED <<program, modules, loads, crashed, replaced>>

\* Fault: the interpretation starts before the first line.
AnalyzeBodiesEarly ==
  /\ Doing("analyze") /\ Top.at > Top.last
  /\ \A i \in First..Top.last : Text[i].kind = "function" => Has(Text[i].name, "v")
  /\ frames' = [frames EXCEPT ![Depth] = [@ EXCEPT !.phase = "run", !.at = First - 1]]
  /\ UNCHANGED <<program, modules, loads, crashed, replaced>>

\* The bodies of the functions come last, then the unit is interpreted.
AnalyzeBodies ==
  /\ Doing("analyze") /\ Top.at > Top.last
  /\ \A i \in First..Top.last : Text[i].kind = "function" => Has(Text[i].name, "v")
  /\ frames' = [frames EXCEPT ![Depth] = [@ EXCEPT !.phase = "run", !.at = First]]
  /\ UNCHANGED <<program, modules, loads, crashed, replaced>>

-----------------------------------------------------------------------------
(* Interpretation *)

\* The interpreter leaves an import to the analyzer.
RunImport ==
  /\ Line("run", "import")
  /\ frames' = Advance
  /\ UNCHANGED <<program, modules, loads, crashed, replaced>>

RunDefinition ==
  /\ Line("run", "define") \/ Line("run", "function")
  /\ loads' = [loads EXCEPT ![Top.module].values =
                 @ \cup {IF Current.kind = "define" THEN "v" ELSE "f"}]
  /\ frames' = Advance
  /\ UNCHANGED <<program, modules, crashed, replaced>>

\* A function that is used uses what its body names.
Resolves(n, v) == Has(n, v) /\ (v = "f" => Has(BodyName(modules[n]), "v"))
RunUse ==
  /\ Line("run", "use")
  /\ Resolves(Current.name, Current.value)
  /\ frames' = Advance
  /\ UNCHANGED <<program, modules, loads, crashed, replaced>>

\* Context::getValue throws std::out_of_range.
RunUseThrows ==
  /\ Line("run", "use")
  /\ ~ Resolves(Current.name, Current.value)
  /\ crashed' = TRUE
  /\ frames' = <<>>
  /\ UNCHANGED <<program, modules, loads, replaced>>

\* Fault: the shell takes the same line again.
NextUnitAgain ==
  IF program.interactive THEN <<MainFrame(frames[1].last)>> ELSE <<>>

NextUnit ==
  IF program.interactive /\ frames[1].last < Len(program.main)
  THEN <<MainFrame(frames[1].last + 1)>> ELSE <<>>

EndOfFile ==
  /\ Doing("run") /\ Top.at > Top.last
  /\ IF Top.module = 0 THEN frames' = NextUnit /\ UNCHANGED loads
     ELSE /\ frames' = SubSeq(frames, 1, Depth - 1)
          /\ loads' = [loads EXCEPT ![Top.module].state = "loaded"]
  /\ UNCHANGED <<program, modules, crashed, replaced>>

\* An error of any kind (no such file, a syntax error, a path that does not
\* resolve, an error of the interpretation) fails every load under way; their
\* modules stay registered.
Fail ==
  /\ Depth > 0
  /\ frames' = NextUnit
  /\ loads' = [m \in DOMAIN loads |->
       IF \E i \in DOMAIN frames : frames[i].module = m
       THEN [loads[m] EXCEPT !.state = "failed"] ELSE loads[m]]
  /\ UNCHANGED <<program, modules, crashed, replaced>>

Next ==
  \/ ImportAgain \/ ImportFirst \/ ImportThrows
  \/ AnalyzeDefinition \/ AnalyzeUse \/ AnalyzeBodies \/ RunImport \/ RunDefinition \/ RunUse \/ RunUseThrows \/ EndOfFile \/ Fail

Spec == Init /\ [][Next]_vars
FairSpec == Spec /\ WF_vars(Next)

-----------------------------------------------------------------------------
(* Properties *)

TypeOK ==
  /\ program \in Programs
  /\ modules \in [Names -> 0..Len(loads)]
  /\ loads \in Seq([path : Paths, values : SUBSET Values,
                    state : {"loading", "loaded", "failed"}])
  /\ frames \in Seq([module : 0..Len(loads), phase : {"analyze", "run"},
                     at : Nat \ {0}, last : Nat])
  /\ \A i \in DOMAIN frames :
       /\ frames[i].last <= Len(TextOf(frames[i].module))
       /\ frames[i].module = 0 /\ program.interactive => frames[i].last > 0
  /\ crashed \in BOOLEAN
  /\ replaced \subseteq Paths

\* All the names of a file share one module: what is assigned under one name is
\* seen under the others.
OneModulePerFile ==
  \A n, k \in Names :
    modules[n] # 0 /\ modules[k] # 0 /\ loads[modules[n]].path = loads[modules[k]].path
      => modules[n] = modules[k]

\* A file is loaded a second time only if another one took its name.
ReloadedOnlyIfReplaced ==
  \A i, j \in DOMAIN loads : i # j /\ loads[i].path = loads[j].path => loads[i].path \in replaced

\* What the analyzer accepted is there when it is interpreted, in the bodies of
\* other modules' functions too, unless a file lost its name in between.
AcceptedUsesResolve == crashed => replaced # {}

\* Imports end, mutual ones included, unless files take each other's names.
ImportsEnd == <>(frames = <<>> \/ replaced # {})

\* "check if a given file is already loaded to avoid loading it twice or bugs
\* with mutual imports".  (Refuted: two files with one name.)
LoadedOnce ==
  \A i, j \in DOMAIN loads : loads[i].path = loads[j].path => i = j
=============================================================================
