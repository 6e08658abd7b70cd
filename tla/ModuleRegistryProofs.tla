------------------------- MODULE ModuleRegistryProofs -------------------------
(***************************************************************************)
(* Proofs about the two kinds of modules.                                  *)
(*                                                                         *)
(* ModuleRegistry, for all programs: the registry is typed, the names of a *)
(* file share its module, a file is loaded again only after another took   *)
(* its name, and what the analyzer accepted is there when it is            *)
(* interpreted.                                                            *)
(*                                                                         *)
(* NativeModules, for all sets of libraries and texts of any length: an    *)
(* accepted call runs the function it was checked against, the library     *)
(* loaded first owns a name, and bodies get and yield what they declare.   *)
(***************************************************************************)
EXTENDS ModuleRegistry, NativeModules, SequenceTheorems, NumbersAndSequences

-----------------------------------------------------------------------------
(* Types.  The parts of the type invariant are stated of any program, table  *)
(* of modules and stack of frames, so that they can be said of the ones      *)
(* before a step and of the ones after it.                                   *)

Modules == [path : Paths, values : SUBSET Values, state : {"loading", "loaded", "failed"}]
Activations(n) == [module : 0..n, phase : {"analyze", "run"}, at : Nat \ {0}, last : Nat]

TextIn(prog, tbl, m) == IF m = 0 THEN prog.main ELSE prog.files[tbl[m].path]

\* A frame whose unit lies in the text of its module.
FrameOK(f, prog, tbl) ==
  /\ f \in Activations(Len(tbl))
  /\ f.last <= Len(TextIn(prog, tbl, f.module))
  /\ f.module = 0 /\ prog.interactive => f.last > 0

FramesOK(fs, prog, tbl) ==
  /\ fs \in Seq(Activations(Len(tbl)))
  /\ \A i \in DOMAIN fs : FrameOK(fs[i], prog, tbl)

\* The type invariant by its parts, before and after a step.
LEMMA TypeParts ==
  TypeOK <=> /\ program \in Programs
             /\ modules \in [Names -> 0..Len(loads)]
             /\ loads \in Seq(Modules)
             /\ FramesOK(frames, program, loads)
             /\ crashed \in BOOLEAN
             /\ replaced \subseteq Paths
<1> DEFINE Act == Activations(Len(loads))
<1>1. frames \in Seq(Act) => \A i \in DOMAIN frames : frames[i] \in Act
  <2> HIDE DEF Act
  <2>1. QED OBVIOUS
<1>2. QED BY <1>1 DEF TypeOK, FramesOK, FrameOK, Activations, TextIn, TextOf, Modules

LEMMA TypePartsNext ==
  TypeOK' <=> /\ program' \in Programs
              /\ modules' \in [Names -> 0..Len(loads')]
              /\ loads' \in Seq(Modules)
              /\ FramesOK(frames', program', loads')
              /\ crashed' \in BOOLEAN
              /\ replaced' \subseteq Paths
<1> DEFINE Act == Activations(Len(loads'))
<1>1. frames' \in Seq(Act) => \A i \in DOMAIN frames' : frames'[i] \in Act
  <2> HIDE DEF Act
  <2>1. QED OBVIOUS
<1>2. QED BY <1>1 DEF TypeOK, FramesOK, FrameOK, Activations, TextIn, TextOf, Modules

\* The texts of a program.
LEMMA Texts ==
  ASSUME NEW prog \in Programs, NEW tbl \in Seq(Modules)
  PROVE  /\ prog.main \in Seq(Lines) /\ Len(prog.main) \in Nat \ {0}
         /\ prog.files \in [Paths -> Seq(Lines)]
         /\ prog.interactive \in BOOLEAN
         /\ \A m \in 0..Len(tbl) : TextIn(prog, tbl, m) \in Seq(Lines)
<1>1. prog \in [main : Seq(Lines) \ {<<>>}, files : [Paths -> Seq(Lines)],
                interactive : BOOLEAN]
  BY ProgramsAssumption
<1>2. Len(prog.main) \in Nat \ {0}
  BY <1>1
<1>3. ASSUME NEW m \in 0..Len(tbl)
      PROVE  TextIn(prog, tbl, m) \in Seq(Lines)
  <2>1. CASE m = 0
    BY <1>1, <2>1 DEF TextIn
  <2>2. CASE m # 0
    <3>1. tbl[m] \in Modules
      BY <2>2
    <3>2. tbl[m].path \in Paths
      BY <3>1 DEF Modules
    <3>3. QED BY <1>1, <2>2, <3>2 DEF TextIn
  <2>3. QED BY <2>1, <2>2
<1>4. QED BY <1>1, <1>2, <1>3

\* The innermost frame.
LEMMA TopFrame ==
  ASSUME TypeOK, Depth > 0
  PROVE  /\ Depth \in Nat /\ Depth \in DOMAIN frames /\ Depth = Len(frames)
         /\ FrameOK(Top, program, loads)
         /\ Top.at \in Nat \ {0} /\ Top.last \in Nat /\ Top.module \in 0..Len(loads)
         /\ First \in Nat \ {0}
         /\ Text \in Seq(Lines) /\ Top.last <= Len(Text)
<1>1. FramesOK(frames, program, loads) /\ program \in Programs /\ loads \in Seq(Modules)
  BY TypeParts
<1>2. Depth \in Nat /\ Depth \in DOMAIN frames /\ Depth = Len(frames)
  BY <1>1 DEF Depth, FramesOK
<1>3. FrameOK(Top, program, loads)
  BY <1>1, <1>2 DEF FramesOK, Top
<1>4. Top.at \in Nat \ {0} /\ Top.last \in Nat /\ Top.module \in 0..Len(loads)
  BY <1>3 DEF FrameOK, Activations
<1>5. Text \in Seq(Lines) /\ Top.last <= Len(Text)
  BY <1>1, <1>3, <1>4, Texts DEF Text, TextOf, TextIn, FrameOK
<1>6. First \in Nat \ {0}
  BY <1>3, <1>4 DEF First, FrameOK
<1>7. QED BY <1>2, <1>3, <1>4, <1>5, <1>6

\* The line under analysis or interpretation.
LEMMA CurrentLine ==
  ASSUME TypeOK, NEW doing, NEW kind, Line(doing, kind)
  PROVE  /\ Depth > 0 /\ Current \in Lines
         /\ Current.path \in Paths /\ Current.name \in Names
<1>1. Depth > 0 /\ Top.at <= Top.last
  BY DEF Line, Doing
<1>2. Top.at \in 1..Len(Text) /\ Text \in Seq(Lines)
  BY <1>1, TopFrame
<1>3. Current \in Lines
  BY <1>2 DEF Current
<1>4. QED BY <1>1, <1>3 DEF Lines

\* Frames stay good when modules are added or their values change.
LEMMA KeptFrames ==
  ASSUME NEW prog, NEW old \in Seq(Modules), NEW tbl \in Seq(Modules),
         Len(old) <= Len(tbl),
         \A m \in 1..Len(old) : tbl[m].path = old[m].path,
         NEW fs, FramesOK(fs, prog, old)
  PROVE  FramesOK(fs, prog, tbl)
<1>1. Len(old) \in Nat /\ Len(tbl) \in Nat
  OBVIOUS
<1>2. Activations(Len(old)) \subseteq Activations(Len(tbl))
  BY <1>1 DEF Activations
<1>3. fs \in Seq(Activations(Len(old)))
  BY DEF FramesOK
<1>4. fs \in Seq(Activations(Len(tbl)))
  <2> DEFINE A == Activations(Len(old))
             B == Activations(Len(tbl))
  <2>1. A \subseteq B /\ fs \in Seq(A)
    BY <1>2, <1>3
  <2> HIDE DEF A, B
  <2>2. fs \in Seq(B)
    BY <2>1
  <2>3. QED BY <2>2 DEF B
<1>5. ASSUME NEW i \in DOMAIN fs
      PROVE  FrameOK(fs[i], prog, tbl)
  <2>1. FrameOK(fs[i], prog, old)
    BY DEF FramesOK
  <2>2. fs[i].module \in 0..Len(old)
    BY <2>1 DEF FrameOK, Activations
  <2>3. TextIn(prog, tbl, fs[i].module) = TextIn(prog, old, fs[i].module)
    BY <1>1, <2>2 DEF TextIn
  <2>4. QED BY <1>2, <2>1, <2>3 DEF FrameOK
<1>6. QED BY <1>4, <1>5 DEF FramesOK

\* A stack of good frames with one more, or with one replaced.
LEMMA OneMoreFrame ==
  ASSUME NEW prog, NEW tbl, NEW fs, NEW f,
         FramesOK(fs, prog, tbl), FrameOK(f, prog, tbl)
  PROVE  FramesOK(Append(fs, f), prog, tbl)
<1> DEFINE A == Activations(Len(tbl))
<1>1. fs \in Seq(A) /\ f \in A /\ \A i \in DOMAIN fs : FrameOK(fs[i], prog, tbl)
  BY DEF FramesOK, FrameOK
<1> HIDE DEF A
<1>2. Append(fs, f) \in Seq(A)
  BY <1>1
<1>3. \A i \in DOMAIN Append(fs, f) : FrameOK(Append(fs, f)[i], prog, tbl)
  BY <1>1
<1>4. QED BY <1>2, <1>3 DEF FramesOK, A

LEMMA OtherFrame ==
  ASSUME NEW prog, NEW tbl, NEW fs, NEW d \in DOMAIN fs, NEW f,
         FramesOK(fs, prog, tbl), FrameOK(f, prog, tbl)
  PROVE  FramesOK([fs EXCEPT ![d] = f], prog, tbl)
<1> DEFINE A == Activations(Len(tbl))
<1>1. fs \in Seq(A) /\ f \in A /\ \A i \in DOMAIN fs : FrameOK(fs[i], prog, tbl)
  BY DEF FramesOK, FrameOK
<1> HIDE DEF A
<1>2. [fs EXCEPT ![d] = f] \in Seq(A)
  BY <1>1
<1>3. \A i \in DOMAIN [fs EXCEPT ![d] = f] : FrameOK([fs EXCEPT ![d] = f][i], prog, tbl)
  BY <1>1
<1>4. QED BY <1>2, <1>3 DEF FramesOK, A

\* A step to the next line.
LEMMA AdvancedFrames ==
  ASSUME TypeOK, Depth > 0
  PROVE  FramesOK(Advance, program, loads)
<1> DEFINE f == [Top EXCEPT !.at = @ + 1]
<1>1. FrameOK(f, program, loads)
  BY TopFrame DEF FrameOK, Activations
<1>2. Advance = [frames EXCEPT ![Depth] = f]
  BY TopFrame DEF Advance, Top
<1> HIDE DEF f
<1>3. QED BY <1>1, <1>2, TopFrame, TypeParts, OtherFrame

\* Giving a name to a module keeps the table of names typed.
LEMMA RegisterTypes ==
  ASSUME TypeOK, NEW n \in Names, NEW m \in Nat, NEW k \in Nat, Len(loads) <= k, m <= k,
         Register(n, m)
  PROVE  modules' \in [Names -> 0..k] /\ replaced' \subseteq Paths
<1>1. /\ modules \in [Names -> 0..Len(loads)] /\ loads \in Seq(Modules)
      /\ Len(loads) \in Nat /\ replaced \subseteq Paths
  BY TypeParts
<1>2. modules' \in [Names -> 0..k]
  BY <1>1 DEF Register
<1>3. modules[n] # 0 => loads[modules[n]].path \in Paths
  <2>1. modules[n] # 0 => loads[modules[n]] \in Modules
    BY <1>1
  <2>2. QED BY <2>1 DEF Modules
<1>4. replaced' \subseteq Paths
  BY <1>1, <1>3 DEF Register
<1>5. QED BY <1>2, <1>4

LEMMA ImportAgainTypeOK ==
  ASSUME TypeOK, ImportAgain
  PROVE  TypeOK'
<1>1. /\ Depth > 0 /\ Current.name \in Names /\ frames' = Advance
      /\ UNCHANGED <<program, loads, crashed>>
  BY CurrentLine DEF ImportAgain
<1>2. loads \in Seq(Modules) /\ Len(loads) \in Nat
      /\ modules \in [Names -> 0..Len(loads)] /\ replaced \subseteq Paths
  BY TypeParts
<1>3. modules' \in [Names -> 0..Len(loads)] /\ replaced' \subseteq Paths
  <2>1. PICK n \in Registered(Current.path) :
          IF n = Current.name THEN UNCHANGED <<modules, replaced>>
          ELSE Register(Current.name, modules[n])
    BY DEF ImportAgain
  <2>2. modules[n] \in Nat /\ modules[n] <= Len(loads)
    BY <1>2 DEF Registered
  <2>3. QED BY <1>1, <1>2, <2>1, <2>2, RegisterTypes
<1>4. FramesOK(frames', program', loads')
  BY <1>1, AdvancedFrames
<1>5. QED BY <1>1, <1>3, <1>4, TypeParts, TypePartsNext

LEMMA ImportFirstTypeOK ==
  ASSUME TypeOK, ImportFirst
  PROVE  TypeOK'
<1> DEFINE new == [path |-> Current.path, values |-> {}, state |-> "loading"]
           tbl == Append(loads, new)
           frame == Frame(Len(loads) + 1, 1, Len(program.files[Current.path]))
<1>1. /\ Depth > 0 /\ Current.name \in Names /\ Current.path \in Paths
      /\ loads' = tbl /\ frames' = Append(Advance, frame)
      /\ Register(Current.name, Len(loads) + 1)
      /\ UNCHANGED <<program, crashed>>
  BY CurrentLine DEF ImportFirst
<1>2. loads \in Seq(Modules) /\ Len(loads) \in Nat /\ new \in Modules /\ program \in Programs
  BY <1>1, TypeParts DEF Modules
<1>3. /\ tbl \in Seq(Modules) /\ Len(tbl) = Len(loads) + 1
      /\ \A m \in 1..Len(loads) : tbl[m] = loads[m]
      /\ tbl[Len(loads) + 1] = new
  <2> HIDE DEF new
  <2>1. QED BY <1>2
<1>4. modules' \in [Names -> 0..Len(tbl)] /\ replaced' \subseteq Paths
  <2>1. Len(loads) + 1 \in Nat /\ Len(loads) <= Len(loads) + 1
    BY <1>2
  <2>2. QED BY <1>1, <1>3, <2>1, RegisterTypes
<1>5. FrameOK(frame, program, tbl)
  <2>1. program.files[Current.path] \in Seq(Lines)
    BY <1>1, <1>2, Texts
  <2>2. TextIn(program, tbl, Len(loads) + 1) = program.files[Current.path]
    <3>1. Len(loads) + 1 # 0 /\ tbl[Len(loads) + 1].path = Current.path
      BY <1>2, <1>3
    <3>2. QED BY <3>1 DEF TextIn
  <2>3. /\ frame.module = Len(loads) + 1 /\ frame.last = Len(program.files[Current.path])
        /\ frame \in Activations(Len(loads) + 1)
    BY <1>2, <2>1 DEF Frame, Activations
  <2> HIDE DEF frame, tbl
  <2>4. QED BY <1>2, <1>3, <2>1, <2>2, <2>3 DEF FrameOK
<1>6. FramesOK(Advance, program, tbl)
  <2>1. FramesOK(Advance, program, loads)
    BY <1>1, AdvancedFrames
  <2>2. Len(loads) <= Len(tbl) /\ \A m \in 1..Len(loads) : tbl[m].path = loads[m].path
    BY <1>2, <1>3
  <2> HIDE DEF tbl
  <2>3. QED BY <1>2, <1>3, <2>1, <2>2, KeptFrames
<1>7. FramesOK(frames', program', loads')
  <2> HIDE DEF frame, tbl
  <2>1. FramesOK(Append(Advance, frame), program, tbl)
    BY <1>5, <1>6, OneMoreFrame
  <2>2. QED BY <1>1, <2>1
<1>8. QED BY <1>1, <1>2, <1>3, <1>4, <1>7, TypeParts, TypePartsNext

\* The steps that only go on to the next line.
LEMMA NextLineTypeOK ==
  ASSUME TypeOK, AnalyzeDefinition \/ AnalyzeUse \/ RunImport \/ RunUse
  PROVE  TypeOK'
<1>1. Depth > 0 /\ frames' = Advance /\ UNCHANGED <<program, modules, loads, crashed, replaced>>
  BY CurrentLine DEF AnalyzeDefinition, AnalyzeUse, RunImport, RunUse
<1>2. FramesOK(frames', program', loads')
  BY <1>1, AdvancedFrames
<1>3. QED BY <1>1, <1>2, TypeParts, TypePartsNext

LEMMA AnalyzeBodiesTypeOK ==
  ASSUME TypeOK, AnalyzeBodies
  PROVE  TypeOK'
<1> DEFINE f == [Top EXCEPT !.phase = "run", !.at = First]
<1>1. /\ Depth > 0 /\ UNCHANGED <<program, modules, loads, crashed, replaced>>
      /\ frames' = [frames EXCEPT ![Depth] = f]
  BY DEF AnalyzeBodies, Doing, Top
<1>2. FrameOK(f, program, loads)
  BY <1>1, TopFrame DEF FrameOK, Activations
<1> HIDE DEF f
<1>3. FramesOK(frames', program', loads')
  BY <1>1, <1>2, TopFrame, TypeParts, OtherFrame
<1>4. QED BY <1>1, <1>3, TypeParts, TypePartsNext

\* A table in which one module changes, but for its file.
LEMMA OtherModule ==
  ASSUME NEW old \in Seq(Modules), NEW m, NEW new,
         m \in DOMAIN old => new \in Modules /\ new.path = old[m].path
  PROVE  /\ [old EXCEPT ![m] = new] \in Seq(Modules)
         /\ Len([old EXCEPT ![m] = new]) = Len(old)
         /\ \A k \in 1..Len(old) : [old EXCEPT ![m] = new][k].path = old[k].path
<1> DEFINE tbl == [old EXCEPT ![m] = new]
<1>1. Len(old) \in Nat /\ DOMAIN old = 1..Len(old) /\ DOMAIN tbl = 1..Len(old)
  OBVIOUS
<1>2. \A k \in 1..Len(old) : tbl[k] \in Modules /\ tbl[k].path = old[k].path
  OBVIOUS
<1>3. tbl = [k \in 1..Len(old) |-> tbl[k]]
  BY <1>1
<1>4. tbl \in Seq(Modules) /\ Len(tbl) = Len(old)
  <2> HIDE DEF tbl
  <2>1. QED BY <1>1, <1>2, <1>3
<1>5. QED BY <1>2, <1>4

\* The steps that import nothing keep the modules and their files.
SameFiles ==
  /\ loads' \in Seq(Modules) /\ Len(loads') = Len(loads)
  /\ \A m \in 1..Len(loads) : loads'[m].path = loads[m].path

LEMMA DefinitionKeepsFiles ==
  ASSUME TypeOK, RunDefinition
  PROVE  SameFiles
<1> DEFINE new == [loads[Top.module] EXCEPT !.values =
                    @ \cup {IF Current.kind = "define" THEN "v" ELSE "f"}]
<1>1. loads' = [loads EXCEPT ![Top.module] = new]
  BY DEF RunDefinition
<1>2. loads \in Seq(Modules)
  BY TypeParts
<1>3. Top.module \in DOMAIN loads => loads[Top.module] \in Modules
  BY <1>2
<1>4. Top.module \in DOMAIN loads => new \in Modules /\ new.path = loads[Top.module].path
  BY <1>3 DEF Modules, Values
<1> HIDE DEF new
<1>5. QED BY <1>1, <1>2, <1>4, OtherModule DEF SameFiles

LEMMA EndOfFileKeepsFiles ==
  ASSUME TypeOK, EndOfFile
  PROVE  SameFiles
<1> DEFINE new == [loads[Top.module] EXCEPT !.state = "loaded"]
<1>1. UNCHANGED loads \/ loads' = [loads EXCEPT ![Top.module] = new]
  BY DEF EndOfFile
<1>2. loads \in Seq(Modules)
  BY TypeParts
<1>3. Top.module \in DOMAIN loads => loads[Top.module] \in Modules
  BY <1>2
<1>4. Top.module \in DOMAIN loads => new \in Modules /\ new.path = loads[Top.module].path
  BY <1>3 DEF Modules
<1> HIDE DEF new
<1>5. QED BY <1>1, <1>2, <1>4, OtherModule DEF SameFiles

LEMMA FailKeepsFiles ==
  ASSUME TypeOK, Fail
  PROVE  SameFiles
<1> DEFINE S == Modules
           new(m) == IF \E i \in DOMAIN frames : frames[i].module = m
                     THEN [loads[m] EXCEPT !.state = "failed"] ELSE loads[m]
<1>1. loads \in Seq(S) /\ Len(loads) \in Nat /\ DOMAIN loads = 1..Len(loads)
  BY TypeParts
<1>2. loads' = [m \in 1..Len(loads) |-> new(m)]
  BY <1>1 DEF Fail
<1>3. \A m \in 1..Len(loads) : loads[m] \in S
  <2> HIDE DEF S
  <2>1. QED BY <1>1
<1>4. \A m \in 1..Len(loads) : new(m) \in S /\ new(m).path = loads[m].path
  BY <1>3 DEF Modules
<1> HIDE DEF new, S
<1>5. loads' \in Seq(S) /\ Len(loads') = Len(loads)
  BY <1>1, <1>2, <1>4
<1>6. \A m \in 1..Len(loads) : loads'[m].path = loads[m].path
  BY <1>2, <1>4
<1>7. QED BY <1>5, <1>6 DEF SameFiles, S

\* ... and the frames stay good with them.
LEMMA SameFilesFrames ==
  ASSUME TypeOK, SameFiles, UNCHANGED program, FramesOK(frames', program, loads)
  PROVE  FramesOK(frames', program', loads')
<1>1. loads \in Seq(Modules) /\ Len(loads) <= Len(loads')
  BY TypeParts DEF SameFiles
<1>2. QED BY <1>1, KeptFrames DEF SameFiles

LEMMA RunDefinitionTypeOK ==
  ASSUME TypeOK, RunDefinition
  PROVE  TypeOK'
<1>1. Depth > 0 /\ frames' = Advance /\ UNCHANGED <<program, modules, crashed, replaced>>
  BY CurrentLine DEF RunDefinition
<1>2. SameFiles
  BY DefinitionKeepsFiles
<1>3. FramesOK(frames', program', loads')
  BY <1>1, <1>2, AdvancedFrames, SameFilesFrames
<1>4. QED BY <1>1, <1>2, <1>3, TypeParts, TypePartsNext DEF SameFiles

LEMMA RunUseThrowsTypeOK ==
  ASSUME TypeOK, RunUseThrows
  PROVE  TypeOK'
<1>1. frames' = <<>> /\ crashed' = TRUE /\ UNCHANGED <<program, modules, loads, replaced>>
  BY DEF RunUseThrows
<1>2. FramesOK(frames', program', loads')
  BY <1>1 DEF FramesOK
<1>3. QED BY <1>1, <1>2, TypeParts, TypePartsNext

\* What is under way when the program's own unit is over.
LEMMA NextUnitFrames ==
  ASSUME TypeOK, Depth > 0
  PROVE  FramesOK(NextUnit, program, loads)
<1> DEFINE f == MainFrame(frames[1].last + 1)
<1>1. /\ program \in Programs /\ loads \in Seq(Modules) /\ Len(loads) \in Nat
      /\ FramesOK(frames, program, loads)
  BY TypeParts
<1>2. 1 \in DOMAIN frames
  BY TopFrame, <1>1 DEF FramesOK
<1>3. frames[1].last \in Nat
  BY <1>1, <1>2 DEF FramesOK, FrameOK, Activations
<1>4. ASSUME program.interactive, frames[1].last < Len(program.main)
      PROVE  FrameOK(f, program, loads)
  BY <1>1, <1>3, <1>4, Texts DEF MainFrame, Frame, FrameOK, Activations, TextIn
<1>5. \A empty : empty = <<>> => FramesOK(empty, program, loads)
  BY DEF FramesOK
<1> HIDE DEF f
<1>6. ASSUME FrameOK(f, program, loads)
      PROVE  FramesOK(<<f>>, program, loads)
  <2>1. FramesOK(Append(<<>>, f), program, loads)
    BY <1>5, <1>6, OneMoreFrame
  <2>2. Append(<<>>, f) = <<f>>
    OBVIOUS
  <2>3. QED BY <2>1, <2>2
<1>7. QED BY <1>4, <1>5, <1>6 DEF NextUnit, f

LEMMA EndOfFileTypeOK ==
  ASSUME TypeOK, EndOfFile
  PROVE  TypeOK'
<1>1. Depth > 0 /\ UNCHANGED <<program, modules, crashed, replaced>>
  BY DEF EndOfFile, Doing
<1>2. SameFiles
  BY EndOfFileKeepsFiles
<1>3. FramesOK(frames', program, loads)
  <2>1. CASE frames' = NextUnit
    BY <1>1, <2>1, NextUnitFrames
  <2>2. CASE frames' = SubSeq(frames, 1, Depth - 1)
    <3> DEFINE A == Activations(Len(loads))
    <3>1. frames \in Seq(A) /\ \A i \in DOMAIN frames : FrameOK(frames[i], program, loads)
      BY TypeParts DEF FramesOK
    <3>2. Depth \in 1..Len(frames)
      BY <1>1, TopFrame
    <3> HIDE DEF A
    <3>3. /\ frames' \in Seq(A) /\ Len(frames') = Depth - 1
          /\ \A i \in 1..Depth - 1 : frames'[i] = frames[i]
      BY <2>2, <3>1, <3>2
    <3>4. \A i \in DOMAIN frames' : i \in DOMAIN frames /\ frames'[i] = frames[i]
      BY <3>1, <3>2, <3>3
    <3>5. QED BY <3>1, <3>3, <3>4 DEF FramesOK, A
  <2>3. QED BY <2>1, <2>2 DEF EndOfFile
<1>4. FramesOK(frames', program', loads')
  BY <1>1, <1>2, <1>3, SameFilesFrames
<1>5. QED BY <1>1, <1>2, <1>4, TypeParts, TypePartsNext DEF SameFiles

LEMMA FailTypeOK ==
  ASSUME TypeOK, Fail
  PROVE  TypeOK'
<1>1. Depth > 0 /\ frames' = NextUnit /\ UNCHANGED <<program, modules, crashed, replaced>>
  BY DEF Fail
<1>2. SameFiles
  BY FailKeepsFiles
<1>3. FramesOK(frames', program', loads')
  BY <1>1, <1>2, NextUnitFrames, SameFilesFrames
<1>4. QED BY <1>1, <1>2, <1>3, TypeParts, TypePartsNext DEF SameFiles

LEMMA InitTypeOK == Init => TypeOK
<1> SUFFICES ASSUME Init PROVE TypeOK
  OBVIOUS
<1> DEFINE f == MainFrame(1)
<1>1. /\ program \in Programs /\ modules = [n \in Names |-> 0] /\ loads = <<>>
      /\ frames = <<f>> /\ crashed = FALSE /\ replaced = {}
  BY DEF Init
<1>2. loads \in Seq(Modules) /\ Len(loads) = 0
  BY <1>1
<1>3. FrameOK(f, program, loads)
  <2>1. Len(program.main) \in Nat \ {0}
    BY <1>1, <1>2, Texts
  <2>2. TextIn(program, loads, 0) = program.main
    BY DEF TextIn
  <2>3. f.module = 0 /\ f.last \in Nat \ {0} /\ f.last <= Len(program.main)
    BY <2>1 DEF MainFrame, Frame
  <2>4. f \in Activations(Len(loads))
    BY <1>2, <2>1 DEF MainFrame, Frame, Activations
  <2> HIDE DEF f
  <2>5. QED BY <2>2, <2>3, <2>4 DEF FrameOK
<1> HIDE DEF f
<1>4. FramesOK(<<>>, program, loads) /\ frames = Append(<<>>, f)
  BY <1>1 DEF FramesOK
<1>5. FramesOK(frames, program, loads)
  BY <1>3, <1>4, OneMoreFrame
<1>6. modules \in [Names -> 0..Len(loads)]
  BY <1>1, <1>2
<1>7. QED BY <1>1, <1>2, <1>5, <1>6, TypeParts

LEMMA ImportThrowsTypeOK ==
  ASSUME TypeOK, ImportThrows
  PROVE  TypeOK'
<1>1. frames' = <<>> /\ UNCHANGED <<program, modules, loads, crashed, replaced>>
  BY DEF ImportThrows
<1>2. FramesOK(frames', program', loads')
  BY <1>1 DEF FramesOK
<1>3. QED BY <1>1, <1>2, TypeParts, TypePartsNext

LEMMA StutterTypeOK ==
  ASSUME TypeOK, UNCHANGED vars
  PROVE  TypeOK'
BY TypeParts, TypePartsNext DEF vars

\* The table of modules, the modules and the frames are typed whatever the
\* files import (Interpreter::interpretFile, Module::addModule).
THEOREM TypeCorrect == Spec => []TypeOK
<1>1. TypeOK /\ [Next]_vars => TypeOK'
  BY ImportAgainTypeOK, ImportFirstTypeOK, NextLineTypeOK, AnalyzeBodiesTypeOK,
     RunDefinitionTypeOK, RunUseThrowsTypeOK,
     ImportThrowsTypeOK, EndOfFileTypeOK, FailTypeOK, StutterTypeOK
     DEF Next
<1>2. QED BY InitTypeOK, <1>1, PTL DEF Spec

-----------------------------------------------------------------------------
(* One module per file *)

LEMMA OthersKeepRegistry ==
  ASSUME TypeOK, [Next]_vars, ~ ImportAgain, ~ ImportFirst
  PROVE  UNCHANGED <<modules, replaced>> /\ SameFiles
<1>1. CASE UNCHANGED <<modules, loads, replaced>>
  BY <1>1, TypeParts DEF SameFiles
<1>2. CASE RunDefinition
  BY <1>2, DefinitionKeepsFiles DEF RunDefinition
<1>3. CASE EndOfFile
  BY <1>3, EndOfFileKeepsFiles DEF EndOfFile
<1>4. CASE Fail
  BY <1>4, FailKeepsFiles DEF Fail
<1>5. QED
  BY <1>1, <1>2, <1>3, <1>4 DEF Next, vars, AnalyzeDefinition, AnalyzeUse, AnalyzeBodies,
     RunImport, RunUse, ImportThrows, RunUseThrows

\* The files of the modules the names are given to after an import.
LEMMA ImportAgainNames ==
  ASSUME TypeOK, ImportAgain
  PROVE  \E n \in Names :
           /\ modules[n] # 0 /\ loads[modules[n]].path = Current.path
           /\ modules' = [modules EXCEPT ![Current.name] = modules[n]]
<1>1. PICK n \in Registered(Current.path) :
        IF n = Current.name THEN UNCHANGED <<modules, replaced>>
        ELSE Register(Current.name, modules[n])
  BY DEF ImportAgain
<1>2. modules = [modules EXCEPT ![n] = modules[n]]
  BY TypeParts
<1>3. QED BY <1>1, <1>2 DEF Registered, Register

LEMMA ImportFirstTable ==
  ASSUME TypeOK, ImportFirst
  PROVE  /\ loads' \in Seq(Modules) /\ Len(loads) \in Nat /\ Len(loads') = Len(loads) + 1
         /\ \A m \in 1..Len(loads) : loads'[m].path = loads[m].path
         /\ loads'[Len(loads) + 1].path = Current.path
         /\ modules' = [modules EXCEPT ![Current.name] = Len(loads) + 1]
<1> DEFINE new == [path |-> Current.path, values |-> {}, state |-> "loading"]
<1>1. loads' = Append(loads, new) /\ loads \in Seq(Modules)
  BY TypeParts DEF ImportFirst
<1>2. Current.path \in Paths
  BY CurrentLine DEF ImportFirst
<1>3. new \in Modules /\ new.path = Current.path
  BY <1>2 DEF Modules
<1> HIDE DEF new
<1>4. QED BY <1>1, <1>3 DEF ImportFirst, Register

LEMMA OneModuleStep ==
  ASSUME TypeOK, OneModulePerFile, [Next]_vars
  PROVE  OneModulePerFile'
<1>1. /\ modules \in [Names -> 0..Len(loads)] /\ Len(loads) \in Nat
  BY TypeParts
<1>2. CASE ~ ImportAgain /\ ~ ImportFirst
  <2>1. UNCHANGED modules /\ SameFiles
    BY <1>2, OthersKeepRegistry
  <2>2. \A n \in Names : modules[n] # 0 => modules[n] \in 1..Len(loads)
    BY <1>1
  <2>3. QED BY <2>1, <2>2 DEF OneModulePerFile, SameFiles
<1>3. CASE ImportAgain
  <2>1. PICK n \in Names :
          /\ modules[n] # 0 /\ loads[modules[n]].path = Current.path
          /\ modules' = [modules EXCEPT ![Current.name] = modules[n]]
    BY <1>3, ImportAgainNames
  <2>2. UNCHANGED loads
    BY <1>3 DEF ImportAgain
  <2>3. QED BY <1>1, <2>1, <2>2 DEF OneModulePerFile
<1>4. CASE ImportFirst
  <2>1. \A n \in Names : modules[n] # 0 =>
          modules[n] \in 1..Len(loads) /\ loads[modules[n]].path # Current.path
    BY <1>1, <1>4 DEF ImportFirst, Registered
  <2> DEFINE k == Current.name
             new == Len(loads) + 1
  <2>2. \A n \in Names : \/ modules'[n] = 0
                         \/ /\ n # k /\ modules'[n] = modules[n]
                            /\ modules'[n] \in 1..Len(loads)
                            /\ loads'[modules'[n]].path # Current.path
                         \/ n = k /\ modules'[n] = new /\ loads'[new].path = Current.path
    BY <1>1, <1>4, <2>1, ImportFirstTable
  <2>3. \A m \in 1..Len(loads) : loads'[m].path = loads[m].path
    BY <1>4, ImportFirstTable
  <2> HIDE DEF k, new
  <2>4. QED BY <2>2, <2>3 DEF OneModulePerFile
<1>5. QED BY <1>2, <1>3, <1>4

\* Every name of a file stands for the one module of it, through mutual and
\* renamed imports and failed loads (Module::isImported, addModule).
THEOREM OneModule == Spec => []OneModulePerFile
<1>1. Init => OneModulePerFile
  BY DEF Init, OneModulePerFile
<1>2. QED BY <1>1, TypeCorrect, OneModuleStep, PTL DEF Spec

-----------------------------------------------------------------------------
(* Loaded once, unless replaced *)

\* A module has a name until another file takes its last one: with that, a file
\* that is not found among the names was never loaded, or it was replaced.
NamedOrReplaced ==
  \A m \in DOMAIN loads : loads[m].path \in replaced \/ \E n \in Names : modules[n] = m

LEMMA ReplacedGrows ==
  ASSUME TypeOK, [Next]_vars
  PROVE  replaced \subseteq replaced'
<1>1. CASE ~ ImportAgain /\ ~ ImportFirst
  BY <1>1, OthersKeepRegistry
<1>2. CASE ImportAgain
  BY <1>2 DEF ImportAgain, Register
<1>3. CASE ImportFirst
  BY <1>3 DEF ImportFirst, Register
<1>4. QED BY <1>1, <1>2, <1>3

\* A module that loses a name to a module of another file is replaced.
LEMMA GivenUp ==
  ASSUME TypeOK, NEW k \in Names, NEW m, Register(k, m), modules[k] # 0
  PROVE  loads[modules[k]].path \in replaced' \/ loads[modules[k]].path = Current.path
BY DEF Register

LEMMA NamedStep ==
  ASSUME TypeOK, OneModulePerFile, NamedOrReplaced, [Next]_vars
  PROVE  NamedOrReplaced'
<1>1. /\ modules \in [Names -> 0..Len(loads)] /\ loads \in Seq(Modules)
      /\ Len(loads) \in Nat /\ DOMAIN loads = 1..Len(loads)
  BY TypeParts
<1>2. CASE ~ ImportAgain /\ ~ ImportFirst
  <2>1. UNCHANGED <<modules, replaced>> /\ SameFiles
    BY <1>2, OthersKeepRegistry
  <2>2. DOMAIN loads' = 1..Len(loads)
    BY <1>1, <2>1 DEF SameFiles
  <2>3. QED BY <1>1, <2>1, <2>2 DEF NamedOrReplaced, SameFiles
<1>3. CASE ImportAgain
  <2>1. PICK n \in Registered(Current.path) :
          IF n = Current.name THEN UNCHANGED <<modules, replaced>>
          ELSE Register(Current.name, modules[n])
    BY <1>3 DEF ImportAgain
  <2>2. UNCHANGED loads /\ Current.name \in Names
    BY <1>3, CurrentLine DEF ImportAgain
  <2>3. CASE n = Current.name
    BY <2>1, <2>2, <2>3 DEF NamedOrReplaced
  <2>4. CASE n # Current.name
    <3> DEFINE k == Current.name
    <3>1. Register(k, modules[n]) /\ modules' = [modules EXCEPT ![k] = modules[n]]
      BY <2>1, <2>4 DEF Register
    <3>2. n \in Names /\ modules[n] # 0 /\ loads[modules[n]].path = Current.path
      BY <2>1 DEF Registered
    <3>3. ASSUME NEW m \in DOMAIN loads, loads[m].path \notin replaced'
          PROVE  \E l \in Names : modules'[l] = m
      <4>1. PICK l \in Names : modules[l] = m
        BY <3>3, ReplacedGrows DEF NamedOrReplaced
      <4>2. CASE l # k
        BY <1>1, <3>1, <4>1, <4>2
      <4>3. CASE l = k
        <5>1. m # 0 /\ loads[m].path = Current.path
          BY <1>1, <2>2, <3>1, <3>3, <4>1, <4>3, GivenUp
        <5>2. modules[n] = m
          BY <3>2, <4>1, <5>1 DEF OneModulePerFile
        <5>3. QED BY <1>1, <2>2, <3>1, <5>2
      <4>4. QED BY <4>2, <4>3
    <3>4. QED BY <2>2, <3>3 DEF NamedOrReplaced
  <2>5. QED BY <2>3, <2>4
<1>4. CASE ImportFirst
  <2> DEFINE k == Current.name
             new == Len(loads) + 1
  <2>1. /\ Register(k, new) /\ modules' = [modules EXCEPT ![k] = new] /\ k \in Names
        /\ Registered(Current.path) = {}
    BY <1>4, CurrentLine, ImportFirstTable DEF ImportFirst
  <2>2. /\ DOMAIN loads' = 1..new /\ \A m \in 1..Len(loads) : loads'[m].path = loads[m].path
        /\ modules'[k] = new
    BY <1>1, <1>4, <2>1, ImportFirstTable
  <2>3. ASSUME NEW m \in 1..Len(loads), loads[m].path \notin replaced'
        PROVE  \E l \in Names : modules'[l] = m
    <3>1. PICK l \in Names : modules[l] = m
      BY <1>1, <2>3, ReplacedGrows DEF NamedOrReplaced
    <3>2. m # 0 /\ loads[m].path # Current.path
      BY <1>1, <2>1, <3>1 DEF Registered
    <3>3. l # k
      BY <2>1, <2>3, <3>1, <3>2, GivenUp
    <3>4. QED BY <1>1, <2>1, <3>1, <3>3
  <2>4. \A m \in 1..new : m = new \/ m \in 1..Len(loads)
    BY <1>1
  <2> HIDE DEF k, new
  <2>5. QED BY <2>1, <2>2, <2>3, <2>4 DEF NamedOrReplaced
<1>5. QED BY <1>2, <1>3, <1>4

LEMMA ReloadStep ==
  ASSUME TypeOK, NamedOrReplaced, ReloadedOnlyIfReplaced, [Next]_vars
  PROVE  ReloadedOnlyIfReplaced'
<1>1. /\ loads \in Seq(Modules) /\ Len(loads) \in Nat /\ DOMAIN loads = 1..Len(loads)
      /\ replaced \subseteq replaced'
  BY TypeParts, ReplacedGrows
<1>2. CASE ~ ImportFirst
  <2>1. /\ DOMAIN loads' = 1..Len(loads)
        /\ \A m \in 1..Len(loads) : loads'[m].path = loads[m].path
    <3>1. CASE ImportAgain
      BY <1>1, <3>1 DEF ImportAgain
    <3>2. CASE ~ ImportAgain
      BY <1>1, <1>2, <3>2, OthersKeepRegistry DEF SameFiles
    <3>3. QED BY <3>1, <3>2
  <2>2. QED BY <1>1, <2>1 DEF ReloadedOnlyIfReplaced
<1>3. CASE ImportFirst
  <2> DEFINE new == Len(loads) + 1
  <2>1. /\ DOMAIN loads' = 1..new /\ loads'[new].path = Current.path
        /\ \A m \in 1..Len(loads) : loads'[m].path = loads[m].path
    BY <1>1, <1>3, ImportFirstTable
  <2>2. ASSUME NEW m \in 1..Len(loads), loads[m].path = Current.path
        PROVE  Current.path \in replaced'
    <3>1. ASSUME NEW n \in Names, modules[n] = m
          PROVE  FALSE
      BY <1>1, <1>3, <2>2, <3>1 DEF ImportFirst, Registered
    <3>2. QED BY <1>1, <2>2, <3>1 DEF NamedOrReplaced
  <2>3. \A m \in 1..new : m = new \/ m \in 1..Len(loads)
    BY <1>1
  <2> HIDE DEF new
  <2>4. QED BY <1>1, <2>1, <2>2, <2>3 DEF ReloadedOnlyIfReplaced
<1>4. QED BY <1>2, <1>3

\* A file is loaded a second time only when another file took its name from it
\* (Module::addModule overwrites the name).
THEOREM LoadedOnceUnlessReplaced == Spec => []ReloadedOnlyIfReplaced
<1>1. Init => NamedOrReplaced /\ ReloadedOnlyIfReplaced
  BY DEF Init, NamedOrReplaced, ReloadedOnlyIfReplaced
<1>2. TypeOK /\ OneModulePerFile /\ (NamedOrReplaced /\ ReloadedOnlyIfReplaced) /\ [Next]_vars
        => (NamedOrReplaced /\ ReloadedOnlyIfReplaced)'
  BY NamedStep, ReloadStep
<1>3. QED BY <1>1, <1>2, TypeCorrect, OneModule, PTL DEF Spec

-----------------------------------------------------------------------------
(* What is accepted resolves.  While no name has been taken from a file, the *)
(* paths of a line stay resolvable from the time the analyzer accepts it     *)
(* until the line is over, and those in the body of a function for as long   *)
(* as the function can be called.                                            *)

HasIn(mods, tbl, n, v) == mods[n] # 0 /\ v \in tbl[mods[n]].values
UseHolds(l, mods, tbl)  == l.kind = "use" => HasIn(mods, tbl, l.name, l.value)
BodyHolds(l, mods, tbl) == l.kind = "function" => HasIn(mods, tbl, l.name, "v")

UnitStart(f, prog) == IF f.module = 0 /\ prog.interactive THEN f.last ELSE 1

\* The lines of a text that an activation has accepted and not yet left behind.
TextAccepted(f, lines, prog, mods, tbl) ==
  /\ f.module # 0 => f.last = Len(lines)
  /\ f.phase = "analyze" => \A j \in DOMAIN lines :
       j \in UnitStart(f, prog) .. f.at - 1 => UseHolds(lines[j], mods, tbl)
  /\ f.phase = "run" => \A j \in DOMAIN lines :
       /\ j \in f.at..f.last => UseHolds(lines[j], mods, tbl)
       /\ j \in UnitStart(f, prog)..f.last => BodyHolds(lines[j], mods, tbl)

FrameAccepted(f, prog, mods, tbl) ==
  TextAccepted(f, TextIn(prog, tbl, f.module), prog, mods, tbl)

\* A module that has its function: the body is accepted.
BodyAccepted(lines, mods, tbl) ==
  /\ \E j \in DOMAIN lines : lines[j].kind = "function"
  /\ \A j \in DOMAIN lines : BodyHolds(lines[j], mods, tbl)
ModuleAccepted(m, prog, mods, tbl) ==
  "f" \in tbl[m].values => BodyAccepted(TextIn(prog, tbl, m), mods, tbl)

AllAccepted ==
  replaced = {} =>
    /\ ~ crashed
    /\ \A i \in DOMAIN frames : FrameAccepted(frames[i], program, modules, loads)
    /\ \A m \in DOMAIN loads : ModuleAccepted(m, program, modules, loads)

\* A name that has a module keeps it.
LEMMA NamesKept ==
  ASSUME TypeOK, OneModulePerFile, [Next]_vars, replaced' = {},
         NEW n \in Names, modules[n] # 0
  PROVE  modules'[n] = modules[n]
<1>1. CASE ~ ImportAgain /\ ~ ImportFirst
  BY <1>1, OthersKeepRegistry
<1>2. CASE ImportAgain
  <2>1. PICK k \in Registered(Current.path) :
          IF k = Current.name THEN UNCHANGED <<modules, replaced>>
          ELSE Register(Current.name, modules[k])
    BY <1>2 DEF ImportAgain
  <2>2. CASE k = Current.name
    BY <2>1, <2>2
  <2>3. CASE k # Current.name
    <3>1. k \in Names /\ modules[k] # 0 /\ loads[modules[k]].path = Current.path
      BY <2>1 DEF Registered
    <3>2. modules' = [modules EXCEPT ![Current.name] = modules[k]] /\ Register(Current.name, modules[k])
      BY <2>1, <2>3 DEF Register
    <3>3. CASE n = Current.name
      <4>1. loads[modules[n]].path = Current.path
        BY <3>2, <3>3, GivenUp
      <4>2. modules[n] = modules[k]
        BY <3>1, <4>1 DEF OneModulePerFile
      <4>3. QED BY <3>2, <4>2, TypeParts
    <3>4. QED BY <3>2, <3>3, TypeParts
  <2>4. QED BY <2>2, <2>3
<1>3. CASE ImportFirst
  <2>1. Register(Current.name, Len(loads) + 1) /\ Registered(Current.path) = {}
    BY <1>3 DEF ImportFirst
  <2>2. loads[modules[n]].path # Current.path
    BY <2>1 DEF Registered
  <2>3. n # Current.name
    BY <2>1, <2>2, GivenUp
  <2>4. QED BY <1>3, <2>3, ImportFirstTable, TypeParts
<1>4. QED BY <1>1, <1>2, <1>3

\* A module keeps its values.
LEMMA ValuesKept ==
  ASSUME TypeOK, [Next]_vars
  PROVE  \A m \in 1..Len(loads) : loads[m].values \subseteq loads'[m].values
<1>1. loads \in Seq(Modules) /\ DOMAIN loads = 1..Len(loads) /\ Len(loads) \in Nat
  BY TypeParts
<1>2. \A m \in 1..Len(loads) : loads[m] \in Modules
  BY <1>1
<1>3. CASE UNCHANGED loads
  BY <1>3
<1>4. CASE ImportFirst
  <2>1. \A m \in 1..Len(loads) : loads'[m] = loads[m]
    BY <1>1, <1>4 DEF ImportFirst
  <2>2. QED BY <2>1
<1>5. CASE RunDefinition
  BY <1>1, <1>2, <1>5 DEF RunDefinition, Modules
<1>6. CASE EndOfFile
  BY <1>1, <1>2, <1>6 DEF EndOfFile, Modules
<1>7. CASE Fail
  BY <1>1, <1>2, <1>7 DEF Fail, Modules
<1>8. QED
  BY <1>3, <1>4, <1>5, <1>6, <1>7 DEF Next, vars, ImportAgain, AnalyzeDefinition, AnalyzeUse,
     AnalyzeBodies, RunImport, RunUse, ImportThrows, RunUseThrows

\* So what a name had it keeps.
LEMMA HasKept ==
  ASSUME TypeOK, OneModulePerFile, [Next]_vars, replaced' = {},
         NEW n \in Names, NEW v, HasIn(modules, loads, n, v)
  PROVE  HasIn(modules', loads', n, v)
<1>1. modules[n] # 0 /\ modules[n] \in 1..Len(loads)
  BY TypeParts DEF HasIn
<1>2. QED BY <1>1, NamesKept, ValuesKept DEF HasIn

LEMMA LinesKept ==
  ASSUME TypeOK, OneModulePerFile, [Next]_vars, replaced' = {}, NEW l \in Lines
  PROVE  /\ UseHolds(l, modules, loads) => UseHolds(l, modules', loads')
         /\ BodyHolds(l, modules, loads) => BodyHolds(l, modules', loads')
<1>1. l.name \in Names
  BY DEF Lines
<1>2. QED BY <1>1, HasKept DEF UseHolds, BodyHolds

\* The program never changes, nor the file of a module.
LEMMA TextsKept ==
  ASSUME TypeOK, [Next]_vars
  PROVE  /\ program' = program /\ Len(loads) \in Nat
         /\ \A m \in 0..Len(loads) : TextIn(program', loads', m) = TextIn(program, loads, m)
<1>1. program' = program
  BY DEF Next, vars, ImportAgain, ImportFirst, AnalyzeDefinition, AnalyzeUse, AnalyzeBodies,
     RunImport, RunDefinition, RunUse, ImportThrows, RunUseThrows, EndOfFile, Fail
<1>2. Len(loads) \in Nat
  BY TypeParts
<1>3. \A m \in 1..Len(loads) : loads'[m].path = loads[m].path
  <2>1. CASE ImportAgain
    BY <2>1 DEF ImportAgain
  <2>2. CASE ImportFirst
    BY <2>2, ImportFirstTable
  <2>3. CASE ~ ImportAgain /\ ~ ImportFirst
    BY <2>3, OthersKeepRegistry DEF SameFiles
  <2>4. QED BY <2>1, <2>2, <2>3
<1>4. QED BY <1>1, <1>2, <1>3 DEF TextIn

\* What an activation or a module has accepted stays accepted.
LEMMA FrameKept ==
  ASSUME TypeOK, OneModulePerFile, [Next]_vars, replaced' = {},
         NEW f, FrameOK(f, program, loads), FrameAccepted(f, program, modules, loads)
  PROVE  FrameAccepted(f, program', modules', loads')
<1> DEFINE lines == TextIn(program, loads, f.module)
<1>1. f.module \in 0..Len(loads)
  BY DEF FrameOK, Activations
<1>2. program' = program /\ TextIn(program', loads', f.module) = lines
  BY <1>1, TextsKept
<1>3. lines \in Seq(Lines)
  BY <1>1, TypeParts, Texts
<1>4. TextAccepted(f, lines, program, modules, loads)
  BY DEF FrameAccepted
<1> HIDE DEF lines
<1>5. \A j \in DOMAIN lines : lines[j] \in Lines
  BY <1>3
<1>6. TextAccepted(f, lines, program, modules', loads')
  BY <1>4, <1>5, LinesKept DEF TextAccepted
<1>7. QED BY <1>2, <1>6 DEF FrameAccepted

LEMMA ModuleKept ==
  ASSUME TypeOK, OneModulePerFile, [Next]_vars, replaced' = {},
         NEW m \in 1..Len(loads),
         BodyAccepted(TextIn(program, loads, m), modules, loads)
  PROVE  BodyAccepted(TextIn(program', loads', m), modules', loads')
<1> DEFINE lines == TextIn(program, loads, m)
<1>1. m \in 0..Len(loads) /\ TextIn(program', loads', m) = lines
  BY TextsKept
<1>2. lines \in Seq(Lines)
  BY <1>1, TypeParts, Texts
<1> HIDE DEF lines
<1>3. \A j \in DOMAIN lines : lines[j] \in Lines
  BY <1>2
<1>4. BodyAccepted(lines, modules, loads)
  BY DEF lines
<1>5. QED BY <1>1, <1>3, <1>4, LinesKept DEF BodyAccepted

\* The next line: its paths were looked up, if it is under analysis.
LEMMA AdvanceAccepted ==
  ASSUME TypeOK, OneModulePerFile, [Next]_vars, replaced' = {},
         \A i \in DOMAIN frames : FrameAccepted(frames[i], program, modules, loads),
         Depth > 0, Top.phase = "analyze" => UseHolds(Current, modules, loads)
  PROVE  \A i \in DOMAIN frames : FrameAccepted(Advance[i], program', modules', loads')
<1> DEFINE f == [Top EXCEPT !.at = @ + 1]
           lines == TextIn(program, loads, Top.module)
<1>1. \A i \in DOMAIN frames : FrameOK(frames[i], program, loads)
  BY TypeParts DEF FramesOK
<1>2. Advance = [frames EXCEPT ![Depth] = f] /\ Depth \in DOMAIN frames /\ Top = frames[Depth]
  BY TopFrame DEF Advance, Top
<1>3. FrameOK(Top, program, loads) /\ FrameAccepted(Top, program, modules, loads)
  BY <1>1, <1>2
<1>4. /\ f.module = Top.module /\ f.phase = Top.phase /\ f.at = Top.at + 1 /\ f.last = Top.last
      /\ Top.at \in Nat /\ Top.last \in Nat
  BY <1>3 DEF FrameOK, Activations
<1>5. FrameOK(f, program, loads)
  BY <1>3 DEF FrameOK, Activations
<1>6. FrameAccepted(f, program, modules, loads)
  <2>1. TextAccepted(Top, lines, program, modules, loads)
    BY <1>3 DEF FrameAccepted
  <2>2. Current = lines[Top.at]
    BY DEF Current, Text, TextOf, TextIn
  <2>3. UnitStart(f, program) = UnitStart(Top, program) /\ UnitStart(Top, program) \in Nat
    BY <1>4 DEF UnitStart
  <2> HIDE DEF f, lines
  <2>4. ASSUME f.phase = "analyze", NEW j \in DOMAIN lines, j \in UnitStart(f, program)..f.at - 1
        PROVE  UseHolds(lines[j], modules, loads)
    <3>1. CASE j = Top.at
      BY <1>4, <2>2, <2>4, <3>1
    <3>2. CASE j # Top.at
      <4>1. j \in UnitStart(Top, program)..Top.at - 1
        BY <1>4, <2>3, <2>4, <3>2
      <4>2. QED BY <1>4, <2>1, <2>4, <4>1 DEF TextAccepted
    <3>3. QED BY <3>1, <3>2
  <2>5. ASSUME f.phase = "run", NEW j \in DOMAIN lines
        PROVE  /\ j \in f.at..f.last => UseHolds(lines[j], modules, loads)
               /\ j \in UnitStart(f, program)..f.last => BodyHolds(lines[j], modules, loads)
    <3>1. j \in f.at..f.last => j \in Top.at..Top.last
      BY <1>4
    <3>2. QED BY <1>4, <2>1, <2>3, <2>5, <3>1 DEF TextAccepted
  <2>6. TextAccepted(f, lines, program, modules, loads)
    BY <1>4, <2>1, <2>4, <2>5 DEF TextAccepted
  <2>7. QED BY <1>4, <2>6 DEF FrameAccepted, lines
<1> HIDE DEF f
<1>7. \A i \in DOMAIN frames : /\ FrameOK(Advance[i], program, loads)
                               /\ FrameAccepted(Advance[i], program, modules, loads)
  BY <1>1, <1>2, <1>5, <1>6
<1>8. QED BY <1>7, FrameKept

\* A use that was accepted resolves, the body of a function included.
LEMMA UseResolves ==
  ASSUME TypeOK, Line("run", "use"),
         FrameAccepted(Top, program, modules, loads),
         \A m \in DOMAIN loads : ModuleAccepted(m, program, modules, loads)
  PROVE  Resolves(Current.name, Current.value)
<1> DEFINE n == Current.name
           v == Current.value
<1>1. Depth > 0 /\ Top.at <= Top.last /\ Top.phase = "run" /\ Current.kind = "use"
  BY DEF Line, Doing, Current
<1>2. /\ Top.at \in Nat \ {0} /\ Top.last \in Nat /\ Text \in Seq(Lines) /\ Top.last <= Len(Text)
      /\ Text = TextIn(program, loads, Top.module)
  BY <1>1, TopFrame DEF Text, TextOf, TextIn
<1>3. UseHolds(Current, modules, loads)
  BY <1>1, <1>2 DEF FrameAccepted, TextAccepted, Current
<1>4. Has(n, v)
  BY <1>1, <1>3 DEF UseHolds, HasIn, Has
<1>5. ASSUME v = "f"
      PROVE  Has(BodyName(modules[n]), "v")
  <2> DEFINE m == modules[n]
             lines == TextIn(program, loads, m)
  <2>1. n \in Names /\ m \in DOMAIN loads /\ "f" \in loads[m].values
    BY <1>4, <1>5, TypeParts, CurrentLine DEF Has
  <2>2. BodyAccepted(lines, modules, loads) /\ TextOf(m) = lines
    BY <2>1 DEF ModuleAccepted, TextOf, TextIn
  <2> HIDE DEF m, lines
  <2>3. \E i \in DOMAIN lines : lines[i].kind = "function"
    BY <2>2 DEF BodyAccepted
  <2>4. PICK i \in DOMAIN lines : lines[i].kind = "function" /\ BodyName(m) = lines[i].name
    BY <2>2, <2>3 DEF BodyName
  <2>5. BodyHolds(lines[i], modules, loads)
    BY <2>2, <2>4 DEF BodyAccepted
  <2>6. Has(BodyName(m), "v")
    BY <2>4, <2>5 DEF BodyHolds, HasIn, Has
  <2>7. QED BY <2>6 DEF m
<1>6. QED BY <1>4, <1>5 DEF Resolves

\* A module that gets its function has a text whose bodies are accepted.
LEMMA ModulesAccepted ==
  ASSUME TypeOK, OneModulePerFile, [Next]_vars, replaced' = {},
         \A i \in DOMAIN frames : FrameAccepted(frames[i], program, modules, loads),
         \A m \in DOMAIN loads : ModuleAccepted(m, program, modules, loads)
  PROVE  \A m \in DOMAIN loads' : ModuleAccepted(m, program', modules', loads')
<1>1. loads \in Seq(Modules) /\ DOMAIN loads = 1..Len(loads) /\ Len(loads) \in Nat
  BY TypeParts
<1>2. \A m \in 1..Len(loads) : loads[m] \in Modules
  BY <1>1
<1>3. ASSUME NEW m \in 1..Len(loads), "f" \in loads[m].values
      PROVE  ModuleAccepted(m, program', modules', loads')
  BY <1>1, <1>3, ModuleKept DEF ModuleAccepted
<1>4. CASE \A m \in DOMAIN loads' :
             "f" \in loads'[m].values => m \in 1..Len(loads) /\ "f" \in loads[m].values
  BY <1>3, <1>4 DEF ModuleAccepted
<1>5. CASE RunDefinition
  <2> DEFINE new == IF Current.kind = "define" THEN "v" ELSE "f"
  <2>1. /\ Depth > 0 /\ DOMAIN loads' = DOMAIN loads
        /\ \A m \in DOMAIN loads :
             loads'[m].values = IF m = Top.module THEN loads[m].values \cup {new}
                                ELSE loads[m].values
    BY <1>1, <1>2, <1>5, CurrentLine DEF RunDefinition, Modules
  <2>2. ASSUME NEW m \in DOMAIN loads, m = Top.module, new = "f"
        PROVE  BodyAccepted(TextIn(program, loads, m), modules, loads)
    <3> DEFINE lines == TextIn(program, loads, m)
    <3>1. Top.phase = "run" /\ Top.at <= Top.last /\ Current.kind = "function"
      BY <1>5, <2>2 DEF RunDefinition, Line, Doing, Current
    <3>2. /\ FrameAccepted(Top, program, modules, loads) /\ Top.at \in Nat \ {0}
          /\ Text = lines /\ lines \in Seq(Lines) /\ m # 0
      BY <1>1, <2>1, <2>2, TopFrame DEF Top, Text, TextOf, TextIn
    <3>3. TextAccepted(Top, lines, program, modules, loads) /\ UnitStart(Top, program) = 1
      BY <2>2, <3>2 DEF FrameAccepted, UnitStart
    <3>4. Current = lines[Top.at]
      BY <3>2 DEF Current
    <3> HIDE DEF lines
    <3>5. Top.last = Len(lines) /\ Top.last \in Nat
      BY <2>2, <3>2, <3>3 DEF TextAccepted
    <3>6. Top.at \in DOMAIN lines /\ lines[Top.at].kind = "function"
      BY <3>1, <3>2, <3>4, <3>5
    <3>7. \A j \in DOMAIN lines : BodyHolds(lines[j], modules, loads)
      BY <3>1, <3>2, <3>3, <3>5 DEF TextAccepted
    <3>8. QED BY <3>6, <3>7 DEF BodyAccepted, lines
  <2>3. ASSUME NEW m \in DOMAIN loads', "f" \in loads'[m].values
        PROVE  BodyAccepted(TextIn(program', loads', m), modules', loads')
    <3>1. m \in DOMAIN loads /\ ("f" \in loads[m].values \/ (m = Top.module /\ new = "f"))
      <4> HIDE DEF new
      <4>1. m \in DOMAIN loads
        BY <2>1, <2>3
      <4>2. CASE m = Top.module
        BY <2>1, <2>3, <4>1, <4>2
      <4>3. CASE m # Top.module
        BY <2>1, <2>3, <4>1, <4>3
      <4>4. QED BY <4>1, <4>2, <4>3
    <3>2. BodyAccepted(TextIn(program, loads, m), modules, loads)
      BY <2>2, <3>1 DEF ModuleAccepted
    <3>3. QED BY <1>1, <3>1, <3>2, ModuleKept
  <2>4. QED BY <2>3 DEF ModuleAccepted
<1>6. CASE ImportFirst
  <2>1. /\ DOMAIN loads' = 1..Len(loads) + 1 /\ loads'[Len(loads) + 1].values = {}
        /\ \A m \in 1..Len(loads) : loads'[m] = loads[m]
    BY <1>1, <1>6 DEF ImportFirst
  <2>2. \A m \in DOMAIN loads' : m = Len(loads) + 1 \/ m \in 1..Len(loads)
    BY <1>1, <2>1
  <2>3. QED BY <1>4, <2>1, <2>2
<1>7. CASE EndOfFile \/ Fail
  <2>1. DOMAIN loads' = DOMAIN loads /\ \A m \in DOMAIN loads : loads'[m].values = loads[m].values
    BY <1>1, <1>2, <1>7 DEF EndOfFile, Fail, Modules
  <2>2. QED BY <1>1, <1>4, <2>1
<1>8. CASE UNCHANGED loads
  BY <1>1, <1>4, <1>8
<1>9. QED
  BY <1>5, <1>6, <1>7, <1>8 DEF Next, vars, ImportAgain, AnalyzeDefinition, AnalyzeUse,
     AnalyzeBodies, RunImport, RunUse, ImportThrows, RunUseThrows

\* An activation that begins has accepted nothing yet.
LEMMA FreshFrame ==
  ASSUME NEW f, NEW prog, NEW mods, NEW tbl,
         f.phase = "analyze", f.at \in Nat, f.at = UnitStart(f, prog),
         f.module # 0 => f.last = Len(TextIn(prog, tbl, f.module))
  PROVE  FrameAccepted(f, prog, mods, tbl)
<1>1. \A j : j \notin f.at .. f.at - 1
  OBVIOUS
<1>2. QED BY <1>1 DEF FrameAccepted, TextAccepted

LEMMA UnitBegins ==
  ASSUME TypeOK, NEW k \in Nat, k = 1 \/ program.interactive
  PROVE  FrameAccepted(MainFrame(k), program, modules, loads)
<1> DEFINE f == MainFrame(k)
<1>1. /\ f.phase = "analyze" /\ f.at = k /\ f.module = 0
      /\ program.interactive => f.last = k
  BY DEF MainFrame, Frame
<1> HIDE DEF f
<1>2. f.at = UnitStart(f, program)
  BY <1>1 DEF UnitStart
<1>3. FrameAccepted(f, program, modules, loads)
  BY <1>1, <1>2, FreshFrame
<1>4. QED BY <1>3 DEF f

LEMMA NextUnitAccepted ==
  ASSUME TypeOK, Depth > 0
  PROVE  \A i \in DOMAIN NextUnit : FrameAccepted(NextUnit[i], program, modules, loads)
<1>1. frames[1].last + 1 \in Nat
  <2>1. 1 \in DOMAIN frames /\ FramesOK(frames, program, loads)
    BY TopFrame, TypeParts
  <2>2. QED BY <2>1 DEF FramesOK, FrameOK, Activations
<1> DEFINE f == MainFrame(frames[1].last + 1)
<1>2. program.interactive => FrameAccepted(f, program, modules, loads)
  BY <1>1, UnitBegins
<1> HIDE DEF f
<1>3. \A s : s = <<>> \/ s = <<f>> => \A i \in DOMAIN s : s[i] = f
  OBVIOUS
<1>4. NextUnit = <<>> \/ (program.interactive /\ NextUnit = <<f>>)
  BY DEF NextUnit, f
<1>5. QED BY <1>2, <1>3, <1>4

\* The interpretation of a unit starts with everything it needs accepted.
LEMMA BodiesAccepted ==
  ASSUME TypeOK, AnalyzeBodies,
         \A i \in DOMAIN frames : FrameAccepted(frames[i], program, modules, loads)
  PROVE  \A i \in DOMAIN frames' : FrameAccepted(frames'[i], program, modules, loads)
<1> DEFINE f == [Top EXCEPT !.phase = "run", !.at = First]
           lines == TextIn(program, loads, Top.module)
<1>1. /\ frames' = [frames EXCEPT ![Depth] = f]
      /\ Depth > 0 /\ Top.phase = "analyze" /\ Top.at > Top.last
      /\ \A i \in First..Top.last : Text[i].kind = "function" => Has(Text[i].name, "v")
  BY DEF AnalyzeBodies, Doing, Top
<1>2. /\ Depth \in DOMAIN frames /\ Top = frames[Depth]
      /\ Top.at \in Nat \ {0} /\ Top.last \in Nat /\ First \in Nat \ {0}
      /\ FrameOK(Top, program, loads) /\ Text = lines
  BY <1>1, TopFrame DEF Top, Text, TextOf, TextIn
<1>3. FrameAccepted(Top, program, modules, loads)
  BY <1>2
<1>4. /\ f.module = Top.module /\ f.phase = "run" /\ f.at = First /\ f.last = Top.last
      /\ UnitStart(f, program) = First /\ UnitStart(Top, program) = First
  BY <1>2 DEF FrameOK, Activations, UnitStart, First
<1>5. TextAccepted(Top, lines, program, modules, loads)
  BY <1>3 DEF FrameAccepted
<1> HIDE DEF f, lines
<1>6. ASSUME NEW j \in DOMAIN lines, j \in First..Top.last
      PROVE  UseHolds(lines[j], modules, loads) /\ BodyHolds(lines[j], modules, loads)
  <2>1. j \in First..Top.at - 1
    BY <1>1, <1>2, <1>6
  <2>2. UseHolds(lines[j], modules, loads)
    BY <1>1, <1>4, <1>5, <1>6, <2>1 DEF TextAccepted
  <2>3. BodyHolds(lines[j], modules, loads)
    BY <1>1, <1>2, <1>6 DEF BodyHolds, HasIn, Has
  <2>4. QED BY <2>2, <2>3
<1>7. TextAccepted(f, lines, program, modules, loads)
  BY <1>4, <1>5, <1>6 DEF TextAccepted
<1>8. FrameAccepted(f, program, modules, loads)
  BY <1>4, <1>7 DEF FrameAccepted, lines
<1>9. QED BY <1>1, <1>2, <1>8

\* The file of an import that is loaded begins with nothing accepted.
LEMMA ImportAccepted ==
  ASSUME TypeOK, OneModulePerFile, ImportFirst, replaced' = {},
         \A i \in DOMAIN frames : FrameAccepted(frames[i], program, modules, loads)
  PROVE  \A i \in DOMAIN frames' : FrameAccepted(frames'[i], program', modules', loads')
<1> DEFINE frame == Frame(Len(loads) + 1, 1, Len(program.files[Current.path]))
<1>1. /\ Depth > 0 /\ Len(loads) \in Nat /\ frames' = Append(Advance, frame)
      /\ program' = program /\ [Next]_vars /\ Current.kind = "import"
      /\ loads'[Len(loads) + 1].path = Current.path
  BY CurrentLine, ImportFirstTable DEF ImportFirst, Next, Line, Current
<1>2. \A i \in DOMAIN frames : FrameAccepted(Advance[i], program', modules', loads')
  BY <1>1, AdvanceAccepted DEF UseHolds
<1>3. /\ frame.phase = "analyze" /\ frame.at = 1 /\ frame.module = Len(loads) + 1
      /\ frame.last = Len(program.files[Current.path])
  BY DEF Frame
<1>4. Advance \in Seq(Activations(Len(loads))) /\ DOMAIN Advance = DOMAIN frames
  BY <1>1, AdvancedFrames, TypeParts DEF FramesOK, Advance
<1> HIDE DEF frame
<1>5. FrameAccepted(frame, program', modules', loads')
  BY <1>1, <1>3, FreshFrame DEF UnitStart, TextIn
<1>6. \A i \in DOMAIN frames' :
        (i \in DOMAIN Advance /\ frames'[i] = Advance[i]) \/ frames'[i] = frame
  <2> DEFINE A == Activations(Len(loads))
             g == Advance
  <2>1. g \in Seq(A) /\ frames' = Append(g, frame)
    BY <1>1, <1>4
  <2> HIDE DEF A, g
  <2>2. \A i \in DOMAIN frames' : (i \in DOMAIN g /\ frames'[i] = g[i]) \/ frames'[i] = frame
    BY <2>1
  <2>3. QED BY <2>2 DEF g
<1>7. QED BY <1>2, <1>4, <1>5, <1>6

\* No step leaves an activation that has gone past what was accepted.
LEMMA FramesAccepted ==
  ASSUME TypeOK, OneModulePerFile, [Next]_vars, replaced' = {}, ~ RunUseThrows,
         \A i \in DOMAIN frames : FrameAccepted(frames[i], program, modules, loads)
  PROVE  \A i \in DOMAIN frames' : FrameAccepted(frames'[i], program', modules', loads')
<1>1. \A i \in DOMAIN frames : FrameOK(frames[i], program, loads)
  BY TypeParts DEF FramesOK
<1>2. ASSUME \A i \in DOMAIN frames' : /\ FrameOK(frames'[i], program, loads)
                                       /\ FrameAccepted(frames'[i], program, modules, loads)
      PROVE  \A i \in DOMAIN frames' : FrameAccepted(frames'[i], program', modules', loads')
  BY <1>2, FrameKept
<1>3. CASE \/ ImportAgain \/ AnalyzeDefinition \/ AnalyzeUse
           \/ RunImport \/ RunDefinition \/ RunUse
  <2>1. Depth > 0 /\ frames' = Advance
    BY <1>3 DEF ImportAgain, AnalyzeDefinition, AnalyzeUse, RunImport, RunDefinition, RunUse,
         Line, Doing
  <2>2. Top.phase = "analyze" => UseHolds(Current, modules, loads)
    BY <1>3 DEF ImportAgain, AnalyzeDefinition, AnalyzeUse, RunImport, RunDefinition, RunUse,
         Line, Doing, Current, UseHolds, Has, HasIn
  <2>3. DOMAIN frames' = DOMAIN frames
    BY <2>1 DEF Advance
  <2>4. QED BY <2>1, <2>2, <2>3, AdvanceAccepted
<1>4. CASE ImportFirst
  BY <1>4, ImportAccepted
<1>5. CASE AnalyzeBodies
  <2>1. \A i \in DOMAIN frames' : FrameOK(frames'[i], program, loads)
    BY <1>5, AnalyzeBodiesTypeOK, TypePartsNext DEF AnalyzeBodies, FramesOK
  <2>2. QED BY <1>2, <1>5, <2>1, BodiesAccepted
<1>6. CASE frames' = NextUnit /\ Depth > 0
  BY <1>2, <1>6, NextUnitFrames, NextUnitAccepted DEF FramesOK
<1>7. CASE frames' = SubSeq(frames, 1, Depth - 1) /\ Depth > 0
  <2> DEFINE A == Activations(Len(loads))
  <2>1. frames \in Seq(A) /\ Depth \in 1..Len(frames)
    BY <1>7, TopFrame, TypeParts DEF FramesOK
  <2> HIDE DEF A
  <2>2. \A i \in DOMAIN frames' : i \in DOMAIN frames /\ frames'[i] = frames[i]
    BY <1>7, <2>1
  <2>3. QED BY <1>1, <1>2, <2>2
<1>8. CASE UNCHANGED frames
  BY <1>1, <1>2, <1>8
<1>9. CASE ImportThrows
  BY <1>9 DEF ImportThrows
<1>10. QED
  BY <1>3, <1>4, <1>5, <1>6, <1>7, <1>8, <1>9 DEF Next, vars, EndOfFile, Fail, Doing

LEMMA AcceptedStep ==
  ASSUME TypeOK, OneModulePerFile, AllAccepted, [Next]_vars
  PROVE  AllAccepted'
<1> SUFFICES ASSUME replaced' = {}
             PROVE  /\ ~ crashed'
                    /\ \A i \in DOMAIN frames' : FrameAccepted(frames'[i], program', modules', loads')
                    /\ \A m \in DOMAIN loads' : ModuleAccepted(m, program', modules', loads')
  BY DEF AllAccepted, FrameAccepted, TextAccepted, ModuleAccepted, BodyAccepted, TextIn, UseHolds,
     BodyHolds, HasIn, UnitStart
<1>1. /\ ~ crashed
      /\ \A i \in DOMAIN frames : FrameAccepted(frames[i], program, modules, loads)
      /\ \A m \in DOMAIN loads : ModuleAccepted(m, program, modules, loads)
  BY ReplacedGrows DEF AllAccepted
<1>2. ~ RunUseThrows
  <2> SUFFICES ASSUME RunUseThrows PROVE FALSE
    OBVIOUS
  <2>1. Line("run", "use") /\ ~ Resolves(Current.name, Current.value)
    BY DEF RunUseThrows
  <2>2. FrameAccepted(Top, program, modules, loads)
    BY <1>1, <2>1, TopFrame DEF Line, Doing, Top
  <2>3. QED BY <1>1, <2>1, <2>2, UseResolves
<1>3. ~ crashed'
  BY <1>1, <1>2 DEF Next, vars, ImportAgain, ImportFirst, AnalyzeDefinition, AnalyzeUse,
     AnalyzeBodies, RunImport, RunDefinition, RunUse, ImportThrows, EndOfFile, Fail
<1>4. QED BY <1>1, <1>2, <1>3, FramesAccepted, ModulesAccepted

LEMMA InitAccepted ==
  ASSUME Init
  PROVE  AllAccepted
<1>1. TypeOK
  BY InitTypeOK
<1>2. FrameAccepted(MainFrame(1), program, modules, loads)
  BY <1>1, UnitBegins
<1>3. frames = <<MainFrame(1)>> /\ loads = <<>> /\ ~ crashed
  BY DEF Init
<1> DEFINE f == MainFrame(1)
<1> HIDE DEF f
<1>4. \A i \in DOMAIN <<f>> : <<f>>[i] = f
  OBVIOUS
<1>5. \A i \in DOMAIN frames : frames[i] = f
  BY <1>3, <1>4 DEF f
<1>6. DOMAIN loads = {}
  BY <1>3
<1>7. QED BY <1>2, <1>3, <1>5, <1>6 DEF AllAccepted, f

\* Unless a file lost its name in between, a path the analyzer accepted is there
\* when it is interpreted, in the bodies of functions of other modules too:
\* Context::getValue finds it.
THEOREM AcceptedResolve == Spec => []AcceptedUsesResolve
<1>1. Init => AllAccepted
  BY InitAccepted
<1>2. TypeOK /\ OneModulePerFile /\ AllAccepted /\ [Next]_vars => AllAccepted'
  BY AcceptedStep
<1>3. AllAccepted => AcceptedUsesResolve
  BY DEF AllAccepted, AcceptedUsesResolve
<1>4. QED BY <1>1, <1>2, <1>3, TypeCorrect, OneModule, PTL DEF Spec

-----------------------------------------------------------------------------
(* The native functions as they are declared: what their bodies cast their *)
(* arguments to, and what they yield, but for the functions named.         *)

ParamKinds  == {"INT", "FLOAT", "STRING", "BOOL", "File"}
ResultKinds == ParamKinds \cup {"NONE"}

IsEntry(f) ==
  f = [params |-> f.params, casts |-> f.casts, returns |-> f.returns,
       yields |-> f.yields, outcomes |-> f.outcomes, forged |-> f.forged,
          module |-> f.module]

Declared(n, f) ==
  /\ IsEntry(f)
  /\ f.params \in Seq(ParamKinds)
  /\ n # "drawTextRGB" => \A i \in DOMAIN f.params : f.casts[i] \in {"ANY", f.params[i]}
  /\ f.yields \in ResultKinds
  /\ f.yields # f.returns =>
       n \in {"floor", "ceil", "round"} /\ f.yields = "FLOAT" /\ f.returns = "INT"
  /\ f.outcomes \subseteq {"value", "error", Threw, Undefined}
  /\ Threw \in f.outcomes => n \in {"open", "exists"}
  /\ Undefined \in f.outcomes => n = "randRange"
  /\ f.forged \subseteq {"error", Threw, Undefined}

AllDeclared(batch) == \A n \in DOMAIN batch : Declared(n, batch[n])

LEMMA FnDeclared ==
  ASSUME NEW n, NEW ps \in Seq(ParamKinds), NEW r \in ResultKinds
  PROVE  Declared(n, Fn(ps, r))
<1>1. \A i \in DOMAIN ps : ps[i] \in ParamKinds
  OBVIOUS
<1>2. \A i \in DOMAIN ps : Casts(ps)[i] \in {"ANY", ps[i]}
  BY DEF Casts
<1> QED
  BY <1>1, <1>2 DEF Fn, Declared, IsEntry, Threw, Undefined

LEMMA FailsDeclared ==
  ASSUME NEW n, NEW f, Declared(n, f)
  PROVE  Declared(n, Fails(f))
<1>1. Fails(f) = [params |-> f.params, casts |-> f.casts, returns |-> f.returns,
        yields |-> f.yields, outcomes |-> f.outcomes \cup {"error"}, forged |-> f.forged,
        module |-> f.module]
  <2>1. IsEntry(f)
    BY DEF Declared
  <2> QED
    BY <2>1 DEF Fails, IsEntry
<1> QED
  BY <1>1 DEF Declared, IsEntry, Threw, Undefined

LEMMA ThrowsDeclared ==
  ASSUME NEW n \in {"open", "exists"}, NEW f, Declared(n, f)
  PROVE  Declared(n, Throws(f))
<1>1. Throws(f) = [params |-> f.params, casts |-> f.casts, returns |-> f.returns,
        yields |-> f.yields, outcomes |-> f.outcomes \cup {Threw}, forged |-> f.forged,
        module |-> f.module]
  <2>1. IsEntry(f)
    BY DEF Declared
  <2> QED
    BY <2>1 DEF Throws, IsEntry
<1> QED
  BY <1>1 DEF Declared, IsEntry, Threw, Undefined

LEMMA DividesDeclared ==
  ASSUME NEW f, Declared("randRange", f)
  PROVE  Declared("randRange", Divides(f))
<1>1. Divides(f) = [params |-> f.params, casts |-> f.casts, returns |-> f.returns,
        yields |-> f.yields, outcomes |-> f.outcomes \cup {Undefined}, forged |-> f.forged,
        module |-> f.module]
  <2>1. IsEntry(f)
    BY DEF Declared
  <2> QED
    BY <2>1 DEF Divides, IsEntry
<1> QED
  BY <1>1 DEF Declared, IsEntry, Threw, Undefined

LEMMA ChecksModeDeclared ==
  ASSUME NEW n, NEW f, Declared(n, f)
  PROVE  Declared(n, ChecksMode(f))
<1>1. ChecksMode(f) = [params |-> f.params, casts |-> f.casts, returns |-> f.returns,
        yields |-> f.yields, outcomes |-> f.outcomes,
        forged |-> f.forged \cup {"error", Threw}, module |-> f.module]
  <2>1. IsEntry(f)
    BY DEF Declared
  <2> QED
    BY <2>1 DEF ChecksMode, IsEntry
<1> QED
  BY <1>1 DEF Declared, IsEntry, Threw, Undefined

LEMMA NamedDeclared ==
  ASSUME NEW names, NEW f, \A n \in names : Declared(n, f)
  PROVE  AllDeclared(Named(names, f))
BY DEF AllDeclared, Named

LEMMA JoinedDeclared ==
  ASSUME NEW b, NEW c, AllDeclared(b), AllDeclared(c)
  PROVE  AllDeclared(b ++ c)
<1> SUFFICES ASSUME NEW n \in DOMAIN (b ++ c)
             PROVE  Declared(n, (b ++ c)[n])
  BY DEF AllDeclared
<1>1. n \in DOMAIN b \/ n \in DOMAIN c
  BY DEF ++
<1>2. (b ++ c)[n] = IF n \in DOMAIN b THEN b[n] ELSE c[n]
  BY <1>1 DEF ++
<1> QED
  BY <1>1, <1>2 DEF AllDeclared

\* Names with the same declaration, one that may fail or asks a member among them.
LEMMA PlainDeclared ==
  ASSUME NEW names, NEW ps \in Seq(ParamKinds), NEW r \in ResultKinds
  PROVE  /\ AllDeclared(Named(names, Fn(ps, r)))
         /\ AllDeclared(Named(names, Fails(Fn(ps, r))))
         /\ AllDeclared(Named(names, ChecksMode(Fails(Fn(ps, r)))))
<1>1. \A n \in names : Declared(n, Fn(ps, r)) /\ Declared(n, Fails(Fn(ps, r)))
  BY FnDeclared, FailsDeclared
<1>2. \A n \in names : Declared(n, ChecksMode(Fails(Fn(ps, r))))
  BY <1>1, ChecksModeDeclared
<1> QED
  BY <1>1, <1>2, NamedDeclared

LEMMA ParamSequences ==
  /\ <<>> \in Seq(ParamKinds) /\ Real \in Seq(ParamKinds) /\ Reals \in Seq(ParamKinds)
  /\ Ints \in Seq(ParamKinds) /\ <<"INT">> \in Seq(ParamKinds)
  /\ <<"STRING">> \in Seq(ParamKinds) /\ Colour \in Seq(ParamKinds)
  /\ Path1 \in Seq(ParamKinds) /\ Path2 \in Seq(ParamKinds) /\ <<"File">> \in Seq(ParamKinds)
  /\ <<"File", "INT", "BOOL">> \in Seq(ParamKinds) /\ <<"File", "STRING">> \in Seq(ParamKinds)
  /\ <<"File", "INT">> \in Seq(ParamKinds)
  /\ <<"FLOAT", "FLOAT", "FLOAT", "FLOAT", "FLOAT">> \in Seq(ParamKinds)
BY DEF ParamKinds, Real, Reals, Ints, Colour, Path1, Path2

LEMMA ParamsJoined ==
  ASSUME NEW s \in Seq(ParamKinds), NEW t \in Seq(ParamKinds)
  PROVE  s \o t \in Seq(ParamKinds)
OBVIOUS

LEMMA Results ==
  /\ "INT" \in ResultKinds /\ "FLOAT" \in ResultKinds /\ "STRING" \in ResultKinds
  /\ "BOOL" \in ResultKinds /\ "File" \in ResultKinds /\ "NONE" \in ResultKinds
BY DEF ResultKinds, ParamKinds

LEMMA MathDeclared ==
  /\ AllDeclared(MathCurves) /\ AllDeclared(MathLogs) /\ AllDeclared(MathLogsOf)
  /\ AllDeclared(MathRounding) /\ AllDeclared(MathPlain)
<1>1. AllDeclared(MathCurves)
  BY PlainDeclared, JoinedDeclared, ParamSequences, Results DEF MathCurves
<1>2. AllDeclared(MathLogs) /\ AllDeclared(MathLogsOf)
  BY PlainDeclared, ParamSequences, Results DEF MathLogs, MathLogsOf
<1>3. AllDeclared(MathRounding)
  <2> DEFINE f == Fn(Real, "INT")
             g == [f EXCEPT !.yields = "FLOAT"]
  <2>1. Declared("floor", f)
    BY FnDeclared, ParamSequences, Results
  <2>2. f.returns = "INT" /\ f.outcomes = {"value"} /\ f.params = Real
    BY DEF Fn
  <2>3. \A i \in DOMAIN Real : f.casts[i] \in {"ANY", Real[i]}
    BY <2>1, <2>2 DEF Declared
  <2> HIDE DEF f
  <2>4. g = [params |-> f.params, casts |-> f.casts, returns |-> f.returns,
             yields |-> "FLOAT", outcomes |-> f.outcomes, forged |-> f.forged,
          module |-> f.module]
    BY <2>1 DEF Declared, IsEntry
  <2>5. ASSUME NEW n \in {"floor", "ceil", "round"}
        PROVE  Declared(n, g)
    <3>1. f.forged \subseteq {"error", Threw, Undefined}
      BY <2>1 DEF Declared
    <3> QED
      BY <2>2, <2>3, <2>4, <3>1, Results, ParamSequences DEF Declared, IsEntry, Threw, Undefined
  <2> HIDE DEF g
  <2>6. AllDeclared(Named({"floor", "ceil", "round"}, g))
    BY <2>5, NamedDeclared
  <2> QED
    BY <2>6 DEF MathRounding, g, f
<1>4. AllDeclared(MathPlain)
  BY PlainDeclared, JoinedDeclared, ParamSequences, Results DEF MathPlain
<1> QED
  BY <1>1, <1>2, <1>3, <1>4

LEMMA RandomDeclared == AllDeclared(RandomFunctions)
<1>1. AllDeclared(Named({"randRange"}, Divides(Fn(Ints, "INT"))))
  BY FnDeclared, DividesDeclared, NamedDeclared, ParamSequences, Results
<1> QED
  BY <1>1, PlainDeclared, JoinedDeclared, ParamSequences, Results DEF RandomFunctions

LEMMA SmallDeclared == AllDeclared(TimeFunctions) /\ AllDeclared(TestFunctions)
<1>1. AllDeclared(TimeFunctions)
  BY PlainDeclared, JoinedDeclared, ParamSequences, Results DEF TimeFunctions
<1>2. AllDeclared(TestFunctions)
  BY PlainDeclared, ParamSequences, Results DEF TestFunctions
<1> QED
  BY <1>1, <1>2

LEMMA TerminalDeclared ==
  /\ AllDeclared(TerminalPlain) /\ AllDeclared(TerminalModeFunctions)
  /\ AllDeclared(TerminalPixels) /\ AllDeclared(TerminalLetters)
  /\ AllDeclared(TerminalShapes) /\ AllDeclared(TerminalTextRGB)
<1>1. AllDeclared(TerminalPlain)
  BY PlainDeclared, JoinedDeclared, ParamSequences, Results DEF TerminalPlain
<1>2. AllDeclared(TerminalModeFunctions)
  BY PlainDeclared, JoinedDeclared, ParamSequences, Results DEF TerminalModeFunctions
<1>3. AllDeclared(TerminalPixels)
  BY PlainDeclared, JoinedDeclared, ParamSequences, ParamsJoined, Results DEF TerminalPixels
<1>4. AllDeclared(TerminalLetters)
  BY PlainDeclared, JoinedDeclared, ParamSequences, ParamsJoined, Results DEF TerminalLetters
<1>5. AllDeclared(TerminalShapes)
  BY PlainDeclared, JoinedDeclared, ParamSequences, ParamsJoined, Results DEF TerminalShapes
<1>6. AllDeclared(TerminalTextRGB)
  <2> DEFINE f == Fails(Fn(Ints \o <<"STRING">> \o Colour \o Colour, "NONE"))
             c == <<"ANY">> \o Ints \o Colour \o Colour
             g == [f EXCEPT !.casts = c]
  <2>1. Declared("drawTextRGB", f)
    BY FnDeclared, FailsDeclared, ParamSequences, ParamsJoined, Results
  <2> HIDE DEF f, c
  <2>2. g = [params |-> f.params, casts |-> c, returns |-> f.returns,
             yields |-> f.yields, outcomes |-> f.outcomes, forged |-> f.forged,
          module |-> f.module]
    BY <2>1 DEF Declared, IsEntry
  <2>3. Declared("drawTextRGB", g)
    BY <2>1, <2>2 DEF Declared, IsEntry
  <2> HIDE DEF g
  <2>4. AllDeclared(Named({"drawTextRGB"}, g))
    BY <2>3, NamedDeclared
  <2> QED
    BY <2>4 DEF TerminalTextRGB, g, f, c
<1> QED
  BY <1>1, <1>2, <1>3, <1>4, <1>5, <1>6

LEMMA FsDeclared ==
  /\ AllDeclared(FsPaths) /\ AllDeclared(FsOpening)
  /\ AllDeclared(FsReading) /\ AllDeclared(FsWriting)
<1>1. AllDeclared(Named({"exists"}, Throws(Fn(Path1, "BOOL"))))
  BY FnDeclared, ThrowsDeclared, NamedDeclared, ParamSequences, Results
<1>2. AllDeclared(Named({"open"}, Throws(Fails(Fn(Path2, "File")))))
  BY FnDeclared, FailsDeclared, ThrowsDeclared, NamedDeclared, ParamSequences, Results
<1>3. AllDeclared(FsPaths)
  BY <1>1, PlainDeclared, JoinedDeclared, ParamSequences, Results DEF FsPaths
<1>4. AllDeclared(FsOpening)
  BY <1>2, PlainDeclared, JoinedDeclared, ParamSequences, Results DEF FsOpening
<1>5. AllDeclared(FsReading)
  BY PlainDeclared, JoinedDeclared, ParamSequences, Results DEF FsReading
<1>6. AllDeclared(FsWriting)
  BY PlainDeclared, JoinedDeclared, ParamSequences, Results DEF FsWriting
<1> QED
  BY <1>3, <1>4, <1>5, <1>6

\* Every function of every library, in any of its batches.
LEMMA LibrariesDeclared ==
  ASSUME NEW m \in DOMAIN Batches, NEW k \in DOMAIN Batches[m]
  PROVE  AllDeclared(Batches[m][k])
<1>1. CASE m = "math"
  <2>1. Batches[m] = <<MathCurves, MathLogs, MathLogsOf, MathRounding, MathPlain>>
    BY <1>1 DEF Batches
  <2> QED
    BY <2>1, MathDeclared
<1>2. CASE m = "random"
  <2>1. Batches[m] = <<RandomFunctions>>
    BY <1>2 DEF Batches
  <2> QED
    BY <2>1, RandomDeclared
<1>3. CASE m = "time" \/ m = "test"
  <2>1. Batches[m] = <<TimeFunctions>> \/ Batches[m] = <<TestFunctions>>
    BY <1>3 DEF Batches
  <2> QED
    BY <2>1, SmallDeclared
<1>4. CASE m = "terminal"
  <2>1. Batches[m] = <<TerminalPlain, TerminalPixels, TerminalLetters, TerminalShapes,
                       TerminalTextRGB, TerminalModeFunctions>>
    BY <1>4 DEF Batches
  <2> QED
    BY <2>1, TerminalDeclared
<1>5. CASE m = "fs"
  <2>1. Batches[m] = <<FsPaths, FsOpening, FsReading, FsWriting>>
    BY <1>5 DEF Batches
  <2> QED
    BY <2>1, FsDeclared
<1> QED
  BY <1>1, <1>2, <1>3, <1>4, <1>5 DEF Batches

-----------------------------------------------------------------------------
(* What a library registers.  Names that are taken keep their function.     *)

Registers(n, m, f) ==
  \E k \in DOMAIN Batches[m] : n \in DOMAIN Batches[m][k] /\ f = Of(m, Batches[m][k][n])

LEMMA BatchesListed ==
  ASSUME NEW m \in DOMAIN Batches
  PROVE  Len(Batches[m]) \in Nat /\ DOMAIN Batches[m] = 1..Len(Batches[m])
BY DEF Batches

\* The tables between two batches exist.
LEMMA LoadExists ==
  ASSUME NEW t, NEW m, NEW n \in Nat
  PROVE  \E f : f = [i \in 0..n |-> IF i = 0 THEN t ELSE AddFunctions(f[i - 1], Batches[m][i], m)]
<1> DEFINE Step(u, i) == AddFunctions(u, Batches[m][i], m)
           Solves(f, k) == f = [i \in 0..k |-> IF i = 0 THEN t ELSE Step(f[i - 1], i)]
           P == {k \in 0..n : \E f : Solves(f, k)}
<1>1. 0 \in P
  <2>1. Solves([i \in 0..0 |-> t], 0)
    <3> HIDE DEF Step
    <3> QED
      OBVIOUS
  <2> HIDE DEF Solves
  <2> QED
    BY <2>1
<1>2. ASSUME NEW k \in 0..(n - 1), k \in P
      PROVE  k + 1 \in P
  <2> HIDE DEF Step
  <2>1. PICK f : Solves(f, k)
    BY <1>2
  <2> DEFINE g == [i \in 0..(k + 1) |-> IF i <= k THEN f[i] ELSE Step(f[k], k + 1)]
  <2>2. /\ g = [i \in 0..(k + 1) |-> g[i]]
        /\ \A i \in 0..k : g[i] = f[i]
        /\ g[k + 1] = Step(f[k], k + 1)
    OBVIOUS
  <2> HIDE DEF g
  <2>3. ASSUME NEW i \in 0..(k + 1)
        PROVE  g[i] = IF i = 0 THEN t ELSE Step(g[i - 1], i)
    <3>1. CASE i = 0
      <4>1. 0 \in 0..k /\ f[0] = t
        BY <2>1
      <4> QED
        BY <2>2, <3>1, <4>1
    <3>2. CASE i > 0 /\ i <= k
      <4>1. i - 1 \in 0..k /\ i \in 0..k
        BY <3>2
      <4>2. g[i] = f[i] /\ g[i - 1] = f[i - 1]
        BY <2>2, <4>1
      <4>3. f[i] = Step(f[i - 1], i)
        BY <2>1, <3>2, <4>1
      <4> QED
        BY <3>2, <4>2, <4>3
    <3>3. CASE i = k + 1
      <4>1. i # 0 /\ i - 1 = k /\ k \in 0..k
        BY <3>3
      <4>2. g[k] = f[k]
        BY <2>2, <4>1
      <4> QED
        BY <2>2, <3>3, <4>1, <4>2
    <3> QED
      BY <3>1, <3>2, <3>3
  <2>4. Solves(g, k + 1)
    BY <2>2, <2>3
  <2>5. k + 1 \in 0..n
    OBVIOUS
  <2> HIDE DEF Solves
  <2> QED
    BY <2>4, <2>5
<1>3. n \in P
  <2> HIDE DEF P
  <2>1. \A k \in 0..n : k \in P
    BY <1>1, <1>2, InductTo
  <2> QED
    BY <2>1
<1> QED
  BY <1>3

\* Loading a library adds its functions under the names that are free.
LEMMA LoadedAdds ==
  ASSUME NEW t, NEW m \in DOMAIN Batches
  PROVE  /\ DOMAIN Loaded(t, m) = DOMAIN t \cup FunctionsOf(m)
         /\ \A n \in DOMAIN t : Loaded(t, m)[n] = t[n]
         /\ \A n \in DOMAIN Loaded(t, m) : n \notin DOMAIN t => Registers(n, m, Loaded(t, m)[n])
<1> DEFINE B == Batches[m]
           load == CHOOSE f : f = [i \in 0..Len(B) |-> IF i = 0 THEN t ELSE AddFunctions(f[i - 1], B[i], m)]
           Adds(u, k) == /\ DOMAIN u = DOMAIN t \cup UNION {DOMAIN B[i] : i \in 1..k}
                         /\ \A n \in DOMAIN t : u[n] = t[n]
                         /\ \A n \in DOMAIN u : n \notin DOMAIN t => Registers(n, m, u[n])
<1>1. Len(B) \in Nat /\ DOMAIN B = 1..Len(B)
  BY BatchesListed
<1>2. load = [i \in 0..Len(B) |-> IF i = 0 THEN t ELSE AddFunctions(load[i - 1], B[i], m)]
  BY <1>1, LoadExists
<1>3. Loaded(t, m) = load[Len(B)]
  BY DEF Loaded
<1> HIDE DEF load, B
<1>4. load[0] = t
  BY <1>1, <1>2
<1>5. ASSUME NEW k \in 0..(Len(B) - 1), Adds(load[k], k)
      PROVE  Adds(load[k + 1], k + 1)
  <2> DEFINE u == load[k]
             w == load[k + 1]
  <2>1. k + 1 \in 0..Len(B) /\ k + 1 # 0 /\ (k + 1) - 1 = k /\ k + 1 \in DOMAIN B
    BY <1>1
  <2>2. w = AddFunctions(u, B[k + 1], m)
    BY <1>2, <2>1
  <2> HIDE DEF u, w
  <2>3. /\ DOMAIN w = DOMAIN u \cup DOMAIN B[k + 1]
        /\ \A n \in DOMAIN w : w[n] = IF n \in DOMAIN u THEN u[n] ELSE Of(m, B[k + 1][n])
    BY <2>2 DEF AddFunctions, Owned, ++
  <2>4. UNION {DOMAIN B[i] : i \in 1..(k + 1)}
          = (UNION {DOMAIN B[i] : i \in 1..k}) \cup DOMAIN B[k + 1]
    <3>1. 1..(k + 1) = (1..k) \cup {k + 1}
      BY <1>1
    <3> QED
      BY <3>1
  <2>5. Adds(u, k)
    BY <1>5 DEF u
  <2>6. ASSUME NEW n \in DOMAIN w, n \notin DOMAIN t
        PROVE  Registers(n, m, w[n])
    <3>1. CASE n \in DOMAIN u
      BY <2>3, <2>5, <2>6, <3>1
    <3>2. CASE n \notin DOMAIN u
      BY <2>1, <2>3, <2>6, <3>2 DEF Registers, B
    <3> QED
      BY <3>1, <3>2
  <2>7. \A n \in DOMAIN t : w[n] = t[n]
    BY <2>3, <2>5
  <2>8. DOMAIN w = DOMAIN t \cup UNION {DOMAIN B[i] : i \in 1..(k + 1)}
    BY <2>3, <2>4, <2>5
  <2>9. Adds(w, k + 1)
    BY <2>6, <2>7, <2>8
  <2> QED
    BY <2>9 DEF w
<1>6. Adds(load[0], 0)
  <2>1. UNION {DOMAIN B[i] : i \in 1..0} = {}
    OBVIOUS
  <2> QED
    BY <1>4, <2>1
<1>7. Adds(load[Len(B)], Len(B))
  <2> DEFINE P == {k \in 0..Len(B) : Adds(load[k], k)}
  <2> HIDE DEF Adds
  <2>1. 0 \in P
    BY <1>1, <1>6
  <2>2. \A k \in 0..(Len(B) - 1) : k \in P => k + 1 \in P
    <3>1. \A k \in 0..(Len(B) - 1) : k + 1 \in 0..Len(B)
      BY <1>1
    <3> QED
      BY <1>5, <3>1
  <2> HIDE DEF P
  <2>3. \A k \in 0..Len(B) : k \in P
    BY <1>1, <2>1, <2>2, InductTo
  <2> QED
    BY <1>1, <2>3 DEF P
<1>8. UNION {DOMAIN B[i] : i \in 1..Len(B)} = FunctionsOf(m)
  BY <1>1 DEF FunctionsOf, B
<1> QED
  BY <1>3, <1>7, <1>8

-----------------------------------------------------------------------------
(* The calls outside of bodies *)

LEMMA DirectExists ==
  ASSUME NEW s, NEW n \in Nat
  PROVE  \E f : f = [i \in 0..n |->
                     IF i = 0 THEN <<>>
                     ELSE IF s[i].body THEN f[i - 1] ELSE Append(f[i - 1], s[i])]
<1> DEFINE Step(u, i) == IF s[i].body THEN u ELSE Append(u, s[i])
           Solves(f, k) == f = [i \in 0..k |-> IF i = 0 THEN <<>> ELSE Step(f[i - 1], i)]
           P == {k \in 0..n : \E f : Solves(f, k)}
<1>1. 0 \in P
  <2>1. Solves([i \in 0..0 |-> <<>>], 0)
    <3> HIDE DEF Step
    <3> QED
      OBVIOUS
  <2> HIDE DEF Solves
  <2> QED
    BY <2>1
<1>2. ASSUME NEW k \in 0..(n - 1), k \in P
      PROVE  k + 1 \in P
  <2> HIDE DEF Step
  <2>1. PICK f : Solves(f, k)
    BY <1>2
  <2> DEFINE g == [i \in 0..(k + 1) |-> IF i <= k THEN f[i] ELSE Step(f[k], k + 1)]
  <2>2. /\ g = [i \in 0..(k + 1) |-> g[i]]
        /\ \A i \in 0..k : g[i] = f[i]
        /\ g[k + 1] = Step(f[k], k + 1)
    OBVIOUS
  <2> HIDE DEF g
  <2>3. ASSUME NEW i \in 0..(k + 1)
        PROVE  g[i] = IF i = 0 THEN <<>> ELSE Step(g[i - 1], i)
    <3>1. CASE i = 0
      <4>1. 0 \in 0..k /\ f[0] = <<>>
        BY <2>1
      <4> QED
        BY <2>2, <3>1, <4>1
    <3>2. CASE i > 0 /\ i <= k
      <4>1. i - 1 \in 0..k /\ i \in 0..k
        BY <3>2
      <4>2. g[i] = f[i] /\ g[i - 1] = f[i - 1]
        BY <2>2, <4>1
      <4>3. f[i] = Step(f[i - 1], i)
        BY <2>1, <3>2, <4>1
      <4> QED
        BY <3>2, <4>2, <4>3
    <3>3. CASE i = k + 1
      <4>1. i # 0 /\ i - 1 = k /\ k \in 0..k
        BY <3>3
      <4>2. g[k] = f[k]
        BY <2>2, <4>1
      <4> QED
        BY <2>2, <3>3, <4>1, <4>2
    <3> QED
      BY <3>1, <3>2, <3>3
  <2>4. Solves(g, k + 1)
    BY <2>2, <2>3
  <2>5. k + 1 \in 0..n
    OBVIOUS
  <2> HIDE DEF Solves
  <2> QED
    BY <2>4, <2>5
<1>3. n \in P
  <2> HIDE DEF P
  <2>1. \A k \in 0..n : k \in P
    BY <1>1, <1>2, InductTo
  <2> QED
    BY <2>1
<1> QED
  BY <1>3

LEMMA DirectKeeps ==
  ASSUME NEW S, NEW s \in Seq(S)
  PROVE  Direct(s) \in Seq(S)
<1> DEFINE n == Len(s)
           direct == CHOOSE f : f = [i \in 0..n |->
                       IF i = 0 THEN <<>>
                       ELSE IF s[i].body THEN f[i - 1] ELSE Append(f[i - 1], s[i])]
           P == {k \in 0..n : direct[k] \in Seq(S)}
<1>1. n \in Nat
  OBVIOUS
<1>2. direct = [i \in 0..n |-> IF i = 0 THEN <<>>
                ELSE IF s[i].body THEN direct[i - 1] ELSE Append(direct[i - 1], s[i])]
  BY <1>1, DirectExists
<1>3. Direct(s) = direct[n]
  BY DEF Direct
<1> HIDE DEF direct
<1>4. 0 \in P
  BY <1>1, <1>2
<1>5. ASSUME NEW k \in 0..(n - 1), k \in P
      PROVE  k + 1 \in P
  <2>1. k + 1 \in 0..n /\ k + 1 # 0 /\ (k + 1) - 1 = k /\ s[k + 1] \in S
    BY <1>1
  <2>2. direct[k + 1] = IF s[k + 1].body THEN direct[k] ELSE Append(direct[k], s[k + 1])
    BY <1>2, <2>1
  <2>3. direct[k] \in Seq(S)
    BY <1>5
  <2>4. Append(direct[k], s[k + 1]) \in Seq(S)
    BY <2>1, <2>3
  <2> QED
    BY <2>1, <2>2, <2>3, <2>4
<1> HIDE DEF P
<1>6. \A k \in 0..n : k \in P
  BY <1>1, <1>4, <1>5, InductTo
<1> QED
  BY <1>1, <1>3, <1>6 DEF P

\* What is said of a text is said of its calls.
Listed(s) == s \in Seq({s[i] : i \in DOMAIN s})

LEMMA SeqListed ==
  ASSUME NEW S, NEW s \in Seq(S)
  PROVE  Listed(s) /\ \A i \in DOMAIN s : s[i] \in S
<1>1. DOMAIN s = 1..Len(s) /\ Len(s) \in Nat /\ s = [i \in 1..Len(s) |-> s[i]]
  OBVIOUS
<1>2. \A i \in DOMAIN s : s[i] \in S
  OBVIOUS
<1> DEFINE T == {s[i] : i \in DOMAIN s}
<1>3. \A i \in 1..Len(s) : s[i] \in T
  BY <1>1
<1> HIDE DEF T
<1>4. s \in Seq(T)
  <2>1. s \in [1..Len(s) -> T]
    BY <1>1, <1>3
  <2> QED
    BY <1>1, <2>1
<1> QED
  BY <1>2, <1>4 DEF Listed, T

-----------------------------------------------------------------------------
(* The invariant of the native modules.  A name is the function of the       *)
(* library that was loaded first of those which have it; the context of a    *)
(* library holds all of its names, or none since it failed to load; and what *)
(* the analyzer found for a call, in its cache or in a text, is what stands  *)
(* in the table.                                                             *)

Came(m) == \E i \in DOMAIN order : order[i] = m

TableOK ==
  /\ order \in Seq(Available)
  /\ \A i \in DOMAIN order : FunctionsOf(order[i]) \subseteq DOMAIN table
  /\ \A n \in DOMAIN table : \E i \in DOMAIN order :
       /\ Registers(n, order[i], table[n])
       /\ \A j \in 1..i - 1 : n \notin FunctionsOf(order[j])

ContextsOK ==
  \A m \in DOMAIN native :
    IF m \in broken THEN native[m] = {} ELSE native[m] = NamesOf(m) /\ Came(m)

\* A user module is a file's, and the names of a file stand for one module.
UsersOK ==
  /\ \A m \in DOMAIN user : user[m].file \in UserFiles
  /\ \A m, l \in DOMAIN user : user[m].file = user[l].file => user[m] = user[l]

\* What the analyzer finds for a path.
Found(p, builtin, fn) ==
  IF builtin THEN /\ p.name \in FunctionsOf(p.mod) /\ fn = table[p.name]
                  /\ p.mod \in DOMAIN native /\ Came(p.mod)
  ELSE /\ p.mod \in DOMAIN user
       /\ \E file \in UserFiles : fn = UserFn(file)
       /\ p.mod \notin retaken =>
            user[p.mod].holds = "function" /\ fn = UserFn(user[p.mod].file)

CacheOK ==
  \A p \in DOMAIN functions :
    functions[p].builtin \in BOOLEAN /\ Found(p, functions[p].builtin, functions[p].fn)

CallOK(c) ==
  /\ c.builtin \in BOOLEAN
  /\ Found(c.path, c.builtin, c.sig)
  /\ \E k \in Offers : c.args = Offered(k, c.sig.params)
  /\ Accepted(c.args, c.sig)

CallsOK ==
  /\ Listed(text)
  /\ \A i \in DOMAIN text : CallOK(text[i])
  /\ \A c \in kept : CallOK(c)

LastOK ==
  /\ phase = "analyze" => last = NoCall
  /\ FirstRegistrationAnswers /\ CallsAsDeclared

NativeInv == TableOK /\ ContextsOK /\ UsersOK /\ CacheOK /\ CallsOK /\ LastOK

\* Strings that are no library's name.
LEMMA LibraryNames ==
  ASSUME NEW m \in Available
  PROVE  m \in DOMAIN Batches /\ m \notin {"none"} \cup Failures /\ m \notin UserFiles
BY NativeAssumption, UserAssumption DEF Batches, Failures, Threw, Undefined

LEMMA NoTextListed ==
  Listed(<<>>)
<1>1. <<>> \in Seq({})
  OBVIOUS
<1> QED
  BY <1>1, SeqListed

LEMMA NativeInitial == NativeInit => NativeInv
<1> SUFFICES ASSUME NativeInit
             PROVE  NativeInv
  OBVIOUS
<1>1. TableOK /\ ContextsOK /\ UsersOK /\ CacheOK
  BY DEF NativeInit, TableOK, ContextsOK, UsersOK, CacheOK
<1>3. CallsOK
  BY NoTextListed DEF NativeInit, CallsOK
<1>4. NoCall.by \notin Available
  BY LibraryNames DEF NoCall
<1>5. LastOK
  BY <1>4 DEF NativeInit, LastOK, FirstRegistrationAnswers, CallsAsDeclared
<1> QED
  BY <1>1, <1>3, <1>5 DEF NativeInv

-----------------------------------------------------------------------------
(* Importing *)

\* The table, the contexts and the imports only grow.
Grow ==
  /\ \A n \in DOMAIN table : n \in DOMAIN table' /\ table'[n] = table[n]
  /\ DOMAIN native \subseteq DOMAIN native'
  /\ \A m : Came(m) => Came(m)'
  /\ DOMAIN user \subseteq DOMAIN user' /\ retaken \subseteq retaken'
  /\ \A m \in DOMAIN user : m \notin retaken' => user'[m] = user[m]

LEMMA FoundKept ==
  ASSUME TableOK, Grow, NEW p, NEW b, NEW fn, Found(p, b, fn)
  PROVE  Found(p, b, fn)'
<1>1. CASE b
  <2>1. p.name \in DOMAIN table
    <3>1. PICK i \in DOMAIN order : order[i] = p.mod
      BY <1>1 DEF Found, Came
    <3> QED
      BY <1>1, <3>1 DEF Found, TableOK
  <2> QED
    BY <1>1, <2>1 DEF Found, Grow
<1>2. CASE ~b
  BY <1>2 DEF Found, Grow
<1> QED
  BY <1>1, <1>2

LEMMA CallKept ==
  ASSUME TableOK, Grow, NEW c, CallOK(c)
  PROVE  CallOK(c)'
<1>1. Found(c.path, c.builtin, c.sig)'
  BY FoundKept DEF CallOK
<1> QED
  BY <1>1 DEF CallOK

LEMMA NothingGrows ==
  ASSUME UNCHANGED <<table, native, order, user, retaken>>
  PROVE  Grow
BY DEF Grow, Came

\* A text of calls that were all right, and none but such calls kept.
LEMMA CallsKept ==
  ASSUME TableOK, CallsOK, Grow,
         Listed(text'), \A i \in DOMAIN text' : text'[i] \in {text[j] : j \in DOMAIN text},
         kept' \subseteq kept \cup {text[j] : j \in DOMAIN text}
  PROVE  CallsOK'
<1>1. ASSUME NEW c, c \in kept \/ \E j \in DOMAIN text : c = text[j]
      PROVE  CallOK(c)'
  <2>1. CallOK(c)
    BY <1>1 DEF CallsOK
  <2> QED
    BY <2>1, CallKept
<1>2. ASSUME NEW i \in DOMAIN text'
      PROVE  CallOK(text[i])'
  <2>1. PICK c : c = text'[i]
    OBVIOUS
  <2>2. CallOK(c)'
    BY <1>1, <2>1
  <2> QED
    BY <2>1, <2>2 DEF CallOK, Found, Came
<1>3. \A c \in kept' : CallOK(c)'
  BY <1>1
<1> QED
  BY <1>2, <1>3 DEF CallsOK

\* No text and no cache.
LEMMA EmptyText ==
  ASSUME TableOK, CallsOK, Grow, NoText, kept' = kept
  PROVE  CacheOK' /\ CallsOK'
<1>1. CacheOK'
  BY DEF NoText, CacheOK
<1>2. CallsOK'
  BY NoTextListed, CallsKept DEF NoText
<1> QED
  BY <1>1, <1>2

LEMMA CacheKept ==
  ASSUME TableOK, CacheOK, Grow, functions' = functions
  PROVE  CacheOK'
<1> SUFFICES ASSUME NEW p \in DOMAIN functions
             PROVE  functions[p].builtin \in BOOLEAN /\ Found(p, functions[p].builtin, functions[p].fn)'
  <2>1. CacheOK' <=> \A p \in DOMAIN functions :
                       functions[p].builtin \in BOOLEAN /\ Found(p, functions[p].builtin, functions[p].fn)'
    BY DEF CacheOK, Found, Came
  <2> QED
    BY <2>1
<1>1. PICK b, fn : b = functions[p].builtin /\ fn = functions[p].fn
  OBVIOUS
<1>2. b \in BOOLEAN /\ Found(p, b, fn)
  BY <1>1 DEF CacheOK
<1>3. Found(p, b, fn)'
  BY <1>2, FoundKept
<1> QED
  BY <1>1, <1>2, <1>3 DEF Found, Came

LEMMA TextKept ==
  ASSUME TableOK, CallsOK, Grow, text' = text, kept' = kept
  PROVE  CallsOK'
BY CallsKept DEF CallsOK

\* Before the texts run there is no last call.
LEMMA NoLast ==
  ASSUME LastOK, phase = "analyze", last' = last
  PROVE  LastOK'
<1>1. last' = NoCall
  BY DEF LastOK
<1>2. NoCall.by \notin Available
  BY LibraryNames DEF NoCall
<1> QED
  BY <1>1, <1>2 DEF LastOK, FirstRegistrationAnswers, CallsAsDeclared

\* The table of a library that is loaded: what is new has its names.
LEMMA TableLoaded ==
  ASSUME TableOK, NEW m \in Available, table' = Loaded(table, m),
         order' = IF m \in {order[i] : i \in DOMAIN order} THEN order ELSE Append(order, m)
  PROVE  /\ TableOK'
         /\ \A n \in DOMAIN table : n \in DOMAIN table' /\ table'[n] = table[n]
         /\ \A l : Came(l) => Came(l)'
         /\ Came(m)'
<1>1. m \in DOMAIN Batches
  BY LibraryNames
<1>2. /\ DOMAIN table' = DOMAIN table \cup FunctionsOf(m)
      /\ \A n \in DOMAIN table : table'[n] = table[n]
      /\ \A n \in DOMAIN table' : n \notin DOMAIN table => Registers(n, m, table'[n])
  BY <1>1, LoadedAdds
<1>3. order \in Seq(Available) /\ Len(order) \in Nat /\ DOMAIN order = 1..Len(order)
  BY DEF TableOK
<1>4. ASSUME m \in {order[i] : i \in DOMAIN order}
      PROVE  TableOK' /\ (\A l : Came(l) => Came(l)') /\ Came(m)'
  <2>1. order' = order
    BY <1>4
  <2>2. PICK i \in DOMAIN order : order[i] = m
    BY <1>4
  <2>3. FunctionsOf(m) \subseteq DOMAIN table
    BY <2>2 DEF TableOK
  <2>4. DOMAIN table' = DOMAIN table
    BY <1>2, <2>3
  <2>5. TableOK'
    BY <1>2, <2>1, <2>4 DEF TableOK
  <2> QED
    BY <2>1, <2>2, <2>5 DEF Came
<1>5. ASSUME m \notin {order[i] : i \in DOMAIN order}
      PROVE  TableOK' /\ (\A l : Came(l) => Came(l)') /\ Came(m)'
  <2> DEFINE z == Len(order) + 1
  <2>1. order' = Append(order, m)
    BY <1>5
  <2>2. /\ order' \in Seq(Available) /\ DOMAIN order' = 1..z /\ z \in Nat
        /\ order'[z] = m /\ \A i \in DOMAIN order : order'[i] = order[i]
    BY <1>3, <2>1
  <2>3. \A i \in DOMAIN order : i \in DOMAIN order'
    BY <1>3, <2>2
  <2>4. \A i \in DOMAIN order' : i # z => i \in DOMAIN order
    BY <1>3, <2>2
  <2>5. z \in DOMAIN order' /\ 1..z - 1 = DOMAIN order
    BY <1>3, <2>2
  <2> HIDE DEF z
  <2>6. ASSUME NEW i \in DOMAIN order'
        PROVE  FunctionsOf(order'[i]) \subseteq DOMAIN table'
    <3>1. CASE i = z
      BY <1>2, <2>2, <3>1
    <3>2. CASE i # z
      <4>1. i \in DOMAIN order /\ order'[i] = order[i]
        BY <2>2, <2>4, <3>2
      <4>2. FunctionsOf(order[i]) \subseteq DOMAIN table
        BY <4>1 DEF TableOK
      <4> QED
        BY <1>2, <4>1, <4>2
    <3> QED
      BY <3>1, <3>2
  <2>7. ASSUME NEW n \in DOMAIN table'
        PROVE  \E i \in DOMAIN order' :
                 /\ Registers(n, order'[i], table'[n])
                 /\ \A j \in 1..i - 1 : n \notin FunctionsOf(order'[j])
    <3>1. CASE n \in DOMAIN table
      <4>1. PICK i \in DOMAIN order :
              /\ Registers(n, order[i], table[n])
              /\ \A j \in 1..i - 1 : n \notin FunctionsOf(order[j])
        BY <3>1 DEF TableOK
      <4>2. \A j \in 1..i - 1 : j \in DOMAIN order /\ order'[j] = order[j]
        BY <1>3, <2>2
      <4>3. order'[i] = order[i] /\ table'[n] = table[n] /\ i \in DOMAIN order'
        BY <1>2, <2>2, <2>3, <3>1
      <4> QED
        BY <4>1, <4>2, <4>3
    <3>2. CASE n \notin DOMAIN table
      <4>1. Registers(n, m, table'[n])
        BY <1>2, <3>2
      <4>2. \A j \in 1..z - 1 : n \notin FunctionsOf(order'[j])
        <5>1. \A j \in DOMAIN order : FunctionsOf(order[j]) \subseteq DOMAIN table
          BY DEF TableOK
        <5> QED
          BY <2>2, <2>5, <3>2, <5>1
      <4> QED
        BY <2>2, <2>5, <4>1, <4>2
    <3> QED
      BY <3>1, <3>2
  <2>8. TableOK'
    BY <2>2, <2>6, <2>7 DEF TableOK
  <2>9. \A l : Came(l) => Came(l)'
    BY <2>2, <2>3 DEF Came
  <2>10. Came(m)'
    BY <2>2, <2>5 DEF Came
  <2> QED
    BY <2>8, <2>9, <2>10
<1>6. \A n \in DOMAIN table : n \in DOMAIN table' /\ table'[n] = table[n]
  BY <1>2
<1> QED
  BY <1>4, <1>5, <1>6

LEMMA ImportNativeKeeps ==
  ASSUME NativeInv, NEW m \in Available \cup {"missing"}, ImportNative(m)
  PROVE  NativeInv'
<1> USE DEF NativeInv
<1>1. phase = "analyze" /\ kept' = kept /\ last' = last /\ UNCHANGED <<user, retaken>>
  BY DEF ImportNative
<1>2. LastOK' /\ UsersOK'
  BY <1>1, NoLast DEF UsersOK
<1>3. CASE /\ m \in Available
           /\ table' = Loaded(table, m)
           /\ native' = [x \in {m} |-> NamesOf(m)] ++ native
           /\ order' = IF m \in {order[i] : i \in DOMAIN order} THEN order ELSE Append(order, m)
           /\ broken' = broken \ {m}
           /\ UNCHANGED <<text, functions>>
  <2>1. /\ TableOK'
        /\ \A n \in DOMAIN table : n \in DOMAIN table' /\ table'[n] = table[n]
        /\ \A l : Came(l) => Came(l)'
        /\ Came(m)'
    BY <1>3, TableLoaded
  <2>2. /\ DOMAIN native' = DOMAIN native \cup {m}
        /\ \A l \in DOMAIN native' : native'[l] = IF l = m THEN NamesOf(m) ELSE native[l]
    BY <1>3 DEF ++
  <2>3. Grow
    BY <1>1, <2>1, <2>2 DEF Grow
  <2>4. ASSUME NEW l \in DOMAIN native'
        PROVE  IF l \in broken' THEN native'[l] = {} ELSE native'[l] = NamesOf(l) /\ Came(l)'
    <3>1. CASE l = m
      BY <1>3, <2>1, <2>2, <3>1
    <3>2. CASE l # m
      <4>1. l \in DOMAIN native /\ native'[l] = native[l] /\ (l \in broken' <=> l \in broken)
        BY <1>3, <2>2, <3>2
      <4> QED
        BY <2>1, <4>1 DEF ContextsOK
    <3> QED
      BY <3>1, <3>2
  <2>5. ContextsOK'
    BY <2>4 DEF ContextsOK
  <2>6. CacheOK'
    BY <1>3, <2>3, CacheKept
  <2>7. CallsOK'
    BY <1>1, <1>3, <2>3, TextKept
  <2> QED
    BY <1>2, <2>1, <2>5, <2>6, <2>7
<1>4. CASE /\ m \in Available
           /\ native' = [x \in {m} |-> {}] ++ native
           /\ broken' = broken \cup {m}
           /\ NoText
           /\ UNCHANGED <<table, order>>
  <2>1. /\ DOMAIN native' = DOMAIN native \cup {m}
        /\ \A l \in DOMAIN native' : native'[l] = IF l = m THEN {} ELSE native[l]
    BY <1>4 DEF ++
  <2>2. Grow
    BY <1>1, <1>4, <2>1 DEF Grow, Came
  <2>3. TableOK'
    BY <1>4 DEF TableOK
  <2>4. ContextsOK'
    BY <1>4, <2>1 DEF ContextsOK, Came
  <2> QED
    BY <1>1, <1>2, <1>4, <2>2, <2>3, <2>4, EmptyText
<1>5. CASE m \notin Available /\ NoText /\ UNCHANGED <<table, native, order, broken>>
  <2>1. Grow
    BY <1>1, <1>5, NothingGrows
  <2>2. TableOK' /\ ContextsOK'
    BY <1>5 DEF TableOK, ContextsOK, Came
  <2> QED
    BY <1>1, <1>2, <1>5, <2>1, <2>2, EmptyText
<1> QED
  BY <1>3, <1>4, <1>5 DEF ImportNative

\* A step that leaves the table, the contexts and the imports alone.
LEMMA Resting ==
  ASSUME TableOK, ContextsOK, UsersOK,
         UNCHANGED <<table, native, order, broken, user, retaken>>
  PROVE  TableOK' /\ ContextsOK' /\ UsersOK' /\ Grow
<1>1. Grow
  BY NothingGrows
<1>2. TableOK' /\ ContextsOK' /\ UsersOK'
  BY DEF TableOK, ContextsOK, UsersOK, Came
<1> QED
  BY <1>1, <1>2

LEMMA ImportFileKeeps ==
  ASSUME NativeInv, NEW m \in UserModules, NEW p \in UserFiles, ImportFile(m, p)
  PROVE  NativeInv'
<1> USE DEF NativeInv
<1>1. /\ phase = "analyze" /\ kept' = kept /\ last' = last
      /\ UNCHANGED <<table, native, order, broken>>
      /\ retaken' = IF m \in DOMAIN user /\ user[m].file # p THEN retaken \cup {m} ELSE retaken
  BY DEF ImportFile
<1>2. TableOK' /\ ContextsOK'
  BY <1>1 DEF TableOK, ContextsOK, Came
<1>3. \E u : /\ u.file = p
             /\ user' = [x \in {m} |-> u] ++ user
             /\ \A l \in DOMAIN user : user[l].file = p => user[l] = u
  <2>1. CASE \E k \in DOMAIN user : /\ user[k].file = p
                                  /\ user' = [x \in {m} |-> user[k]] ++ user
    <3>1. PICK k \in DOMAIN user : /\ user[k].file = p
                                   /\ user' = [x \in {m} |-> user[k]] ++ user
      BY <2>1
    <3>2. PICK u : u = user[k]
      OBVIOUS
    <3>3. \A l \in DOMAIN user : user[l].file = p => user[l] = u
      BY <3>1, <3>2 DEF UsersOK
    <3> QED
      BY <3>1, <3>2, <3>3
  <2>2. CASE /\ \A k \in DOMAIN user : user[k].file # p
             /\ \E h \in Holding : user' = [x \in {m} |-> [file |-> p, holds |-> h]] ++ user
    <3>1. PICK h : user' = [x \in {m} |-> [file |-> p, holds |-> h]] ++ user
      BY <2>2
    <3>2. PICK u : u = [file |-> p, holds |-> h]
      OBVIOUS
    <3>3. u.file = p /\ user' = [x \in {m} |-> u] ++ user
      BY <3>1, <3>2
    <3>4. \A l \in DOMAIN user : user[l].file # p
      BY <2>2
    <3> QED
      BY <3>3, <3>4
  <2> QED
    BY <2>1, <2>2 DEF ImportFile
<1>4. PICK u : /\ u.file = p
               /\ user' = [x \in {m} |-> u] ++ user
               /\ \A l \in DOMAIN user : user[l].file = p => user[l] = u
  BY <1>3
<1>5. /\ DOMAIN user' = DOMAIN user \cup {m}
      /\ \A l \in DOMAIN user' : user'[l] = IF l = m THEN u ELSE user[l]
  BY <1>4 DEF ++
<1>6. UsersOK'
  BY <1>4, <1>5 DEF UsersOK
<1>7. \A l \in DOMAIN user : l \notin retaken' => user'[l] = user[l]
  BY <1>1, <1>4, <1>5
<1>8. Grow
  BY <1>1, <1>5, <1>7 DEF Grow, Came
<1>9. CacheOK' /\ CallsOK'
  <2>1. CASE NoText
    BY <1>1, <1>8, <2>1, EmptyText
  <2>2. CASE UNCHANGED <<functions, text>>
    BY <1>1, <1>8, <2>2, CacheKept, TextKept
  <2> QED
    BY <2>1, <2>2 DEF ImportFile
<1>10. LastOK'
  BY <1>1, NoLast
<1> QED
  BY <1>2, <1>6, <1>9, <1>10

-----------------------------------------------------------------------------
(* The analysis of a call *)

LEMMA SignatureFound ==
  ASSUME NativeInv, NEW p \in NativePaths, Resolved(p)
  PROVE  Signature(p).builtin \in BOOLEAN /\ Found(p, Signature(p).builtin, Signature(p).fn)
<1>1. CASE p \in DOMAIN functions
  <2>1. Signature(p) = functions[p]
    BY <1>1 DEF Signature
  <2> QED
    BY <1>1, <2>1 DEF NativeInv, CacheOK
<1>2. CASE p \notin DOMAIN functions
  <2>1. Holds(p) = "function"
    BY <1>2 DEF Resolved
  <2>2. Signature(p).fn = Function(p) /\ Signature(p).builtin = Builtin(p.mod)
    <3>1. Signature(p) = [fn |-> Function(p), builtin |-> Builtin(p.mod)]
      BY <1>2 DEF Signature
    <3> QED
      BY <3>1
  <2>3. CASE Builtin(p.mod)
    <3>1. /\ p.mod \in DOMAIN native /\ p.name \in native[p.mod]
          /\ p.name \in FunctionsOf(p.mod)
      BY <2>1, <2>3 DEF Holds
    <3>2. Came(p.mod)
      BY <3>1 DEF NativeInv, ContextsOK
    <3>3. Signature(p).fn = table[p.name] /\ Signature(p).builtin = TRUE
      BY <2>2, <2>3 DEF Function, Builtin
    <3> QED
      BY <3>1, <3>2, <3>3 DEF Found
  <2>4. CASE ~Builtin(p.mod)
    <3>1. p.mod \in DOMAIN user /\ user[p.mod].holds = "function"
      BY <2>1, <2>4 DEF Holds, Builtin
    <3>2. user[p.mod].file \in UserFiles
      BY <3>1 DEF NativeInv, UsersOK
    <3>3. Signature(p).fn = UserFn(user[p.mod].file) /\ Signature(p).builtin = FALSE
      BY <2>2, <2>4 DEF Function, Builtin
    <3> QED
      BY <3>1, <3>2, <3>3 DEF Found
  <2> QED
    BY <2>3, <2>4
<1> QED
  BY <1>1, <1>2

LEMMA TextGrows ==
  ASSUME NEW c, Listed(text), text' = Append(text, c)
  PROVE  /\ Listed(text')
         /\ \A i \in DOMAIN text' : text'[i] = c \/ \E j \in DOMAIN text : text'[i] = text[j]
<1> DEFINE S == {text[j] : j \in DOMAIN text}
<1>1. text \in Seq(S \cup {c})
  <2>1. text \in Seq(S)
    BY DEF Listed
  <2> HIDE DEF S
  <2> QED
    BY <2>1
<1> HIDE DEF S
<1>2. text' \in Seq(S \cup {c})
  BY <1>1
<1>3. Listed(text') /\ \A i \in DOMAIN text' : text'[i] \in S \cup {c}
  BY <1>2, SeqListed
<1> QED
  BY <1>3 DEF S

LEMMA AnalyzeCallKeeps ==
  ASSUME NativeInv, NEW p \in NativePaths, AnalyzeCall(p)
  PROVE  NativeInv'
<1> USE DEF NativeInv
<1> DEFINE found == Signature(p)
<1>1. /\ phase = "analyze" /\ last' = last /\ kept' = kept
      /\ UNCHANGED <<table, native, user, order, broken, retaken>>
  BY DEF AnalyzeCall, MayCall
<1>2. found.builtin \in BOOLEAN /\ Found(p, found.builtin, found.fn)
  BY SignatureFound DEF AnalyzeCall
<1>3. functions' = [x \in {p} |-> found] ++ functions
  BY DEF AnalyzeCall
<1>4. PICK c : /\ text' = Append(text, c)
               /\ c.path = p /\ c.builtin = found.builtin /\ c.sig = found.fn
               /\ \E k \in Offers : c.args = Offered(k, found.fn.params)
               /\ Accepted(c.args, found.fn)
  <2>1. PICK k \in Offers, body \in BOOLEAN :
          /\ Accepted(Offered(k, found.fn.params), found.fn)
          /\ text' = Append(text, [path |-> p, builtin |-> found.builtin, sig |-> found.fn,
                                   args |-> Offered(k, found.fn.params), body |-> body])
    BY DEF AnalyzeCall
  <2> HIDE DEF found
  <2>2. PICK a : a = Offered(k, found.fn.params)
    OBVIOUS
  <2> DEFINE c == [path |-> p, builtin |-> found.builtin, sig |-> found.fn, args |-> a, body |-> body]
  <2>3. c.path = p /\ c.builtin = found.builtin /\ c.sig = found.fn /\ c.args = a
    OBVIOUS
  <2>4. text' = Append(text, c)
    BY <2>1, <2>2
  <2> HIDE DEF c
  <2> QED
    BY <2>1, <2>2, <2>3, <2>4
<1>5. PICK b, fn : b = found.builtin /\ fn = found.fn
  OBVIOUS
<1> HIDE DEF found
<1>6. TableOK' /\ ContextsOK' /\ UsersOK' /\ Grow
  BY <1>1, Resting
<1>7. ASSUME NEW q \in DOMAIN functions'
      PROVE  functions'[q].builtin \in BOOLEAN /\ Found(q, functions[q].builtin, functions[q].fn)'
  <2>1. CASE q = p
    <3>1. functions'[q] = found
      BY <1>3, <2>1 DEF ++
    <3>2. Found(p, b, fn)'
      BY <1>2, <1>5, <1>6, FoundKept
    <3> QED
      BY <1>2, <1>5, <2>1, <3>1, <3>2 DEF Found, Came
  <2>2. CASE q # p
    <3>1. q \in DOMAIN functions /\ functions'[q] = functions[q]
      BY <1>3, <2>2 DEF ++
    <3>2. PICK b2, fn2 : b2 = functions[q].builtin /\ fn2 = functions[q].fn
      OBVIOUS
    <3>3. b2 \in BOOLEAN /\ Found(q, b2, fn2)
      BY <3>1, <3>2 DEF CacheOK
    <3>4. Found(q, b2, fn2)'
      BY <1>6, <3>3, FoundKept
    <3> QED
      BY <3>1, <3>2, <3>3, <3>4 DEF Found, Came
  <2> QED
    BY <2>1, <2>2
<1>8. CacheOK'
  BY <1>7 DEF CacheOK
<1>9. CallOK(c)
  BY <1>2, <1>4 DEF CallOK
<1>10. CallsOK'
  <2>1. /\ Listed(text')
        /\ \A i \in DOMAIN text' : text'[i] = c \/ \E j \in DOMAIN text : text'[i] = text[j]
    BY <1>4, TextGrows DEF CallsOK
  <2>2. ASSUME NEW i \in DOMAIN text'
        PROVE  CallOK(text[i])'
    <3>1. PICK d : d = text'[i]
      OBVIOUS
    <3>2. CallOK(d)
      BY <1>9, <2>1, <3>1 DEF CallsOK
    <3>3. CallOK(d)'
      BY <1>6, <3>2, CallKept
    <3> QED
      BY <3>1, <3>3 DEF CallOK, Found, Came
  <2>3. \A d \in kept' : CallOK(d)'
    BY <1>1, <1>6, CallKept DEF CallsOK
  <2> QED
    BY <2>1, <2>2, <2>3 DEF CallsOK
<1>11. LastOK'
  BY <1>1, NoLast
<1> QED
  BY <1>6, <1>8, <1>10, <1>11

LEMMA RefuseCallKeeps ==
  ASSUME NativeInv, NEW p \in NativePaths, RefuseCall(p)
  PROVE  NativeInv'
<1> USE DEF NativeInv
<1>1. /\ phase = "analyze" /\ last' = last /\ kept' = kept /\ NoText
      /\ UNCHANGED <<table, native, user, order, broken, retaken>>
  BY DEF RefuseCall, MayCall
<1>2. TableOK' /\ ContextsOK' /\ UsersOK' /\ Grow
  BY <1>1, Resting
<1>3. CacheOK' /\ CallsOK' /\ LastOK'
  BY <1>1, <1>2, EmptyText, NoLast
<1> QED
  BY <1>2, <1>3

LEMMA AnalyzeCallOfValueKeeps ==
  ASSUME NativeInv, NEW p \in NativePaths, AnalyzeCallOfValue(p)
  PROVE  NativeInv'
<1> USE DEF NativeInv, AnalyzeCallOfValue
<1>1. TableOK' /\ ContextsOK' /\ UsersOK' /\ Grow
  BY Resting
<1>2. CacheOK' /\ CallsOK'
  BY <1>1, CacheKept, TextKept
<1>3. "none" \notin Available
  BY LibraryNames
<1>4. /\ phase' = "dead" /\ last'.by = "none" /\ last'.result = Undefined
      /\ last'.path = p /\ Holds(p)' = "value"
  <2>1. last' = [NoCall EXCEPT !.path = p, !.builtin = Builtin(p.mod), !.result = Undefined]
    OBVIOUS
  <2>2. Holds(p)' = Holds(p)
    BY DEF Holds, Builtin
  <2> QED
    BY <2>1, <2>2 DEF NoCall
<1>5. FirstRegistrationAnswers'
  BY <1>3, <1>4 DEF FirstRegistrationAnswers
<1>6. CallsAsDeclared'
  BY <1>4 DEF CallsAsDeclared, Undefined, Threw, Failures
<1>7. LastOK'
  BY <1>4, <1>5, <1>6 DEF LastOK
<1> QED
  BY <1>1, <1>2, <1>7

LEMMA AnalyzedKeeps ==
  ASSUME NativeInv, Analyzed
  PROVE  NativeInv'
<1> USE DEF NativeInv, Analyzed
<1>1. TableOK' /\ ContextsOK' /\ UsersOK' /\ Grow
  BY Resting
<1>2. CacheOK'
  BY <1>1, CacheKept
<1>3. Listed(text') /\ \A i \in DOMAIN text' : text'[i] \in {text[j] : j \in DOMAIN text}
  <2> DEFINE S == {text[j] : j \in DOMAIN text}
  <2>1. text \in Seq(S)
    BY DEF CallsOK, Listed
  <2> HIDE DEF S
  <2>2. text' \in Seq(S)
    BY <2>1, DirectKeeps
  <2>3. Listed(text') /\ \A i \in DOMAIN text' : text'[i] \in S
    BY <2>2, SeqListed
  <2> QED
    BY <2>3 DEF S
<1>4. kept' \subseteq kept \cup {text[j] : j \in DOMAIN text}
  OBVIOUS
<1>5. CallsOK'
  BY <1>1, <1>3, <1>4, CallsKept
<1>6. LastOK'
  BY DEF LastOK, FirstRegistrationAnswers, CallsAsDeclared
<1> QED
  BY <1>1, <1>2, <1>5, <1>6

LEMMA NextTextKeeps ==
  ASSUME NativeInv, NextText
  PROVE  NativeInv'
<1> USE DEF NativeInv, NextText
<1>1. TableOK' /\ ContextsOK' /\ UsersOK' /\ Grow
  BY Resting
<1>2. CacheOK'
  BY DEF CacheOK
<1>3. CallsOK'
  BY <1>1, TextKept
<1>4. NoCall.by \notin Available
  BY LibraryNames DEF NoCall
<1>5. LastOK'
  BY <1>4 DEF LastOK, FirstRegistrationAnswers, CallsAsDeclared
<1> QED
  BY <1>1, <1>2, <1>3, <1>5

-----------------------------------------------------------------------------
(* The call *)

\* An operand the analyzer accepted arrives as the kind that is declared, unless it
\* is a File the program made.
LEMMA GivenAsDeclared ==
  ASSUME NEW k \in Offers, NEW param \in ParamKinds, NEW arg,
         arg = IF k = "declared" \/ (k = Forged /\ param # "File") THEN param ELSE k,
         Accepts(Kind(arg), param)
  PROVE  Given(arg, param) = param \/ (arg = Forged /\ Given(arg, param) = Forged)
<1>1. CASE param = "File"
  BY <1>1 DEF Given, Accepts, Kind, Forged
<1>2. CASE param # "File"
  BY <1>2 DEF Given, Accepts, Offers, ParamKinds, CastableTo, Convert, Numbers, Kind, Forged
<1> QED
  BY <1>1, <1>2

LEMMA YieldsAccepted ==
  ASSUME NEW n, NEW f, Declared(n, f)
  PROVE  Accepts(f.yields, f.returns)
<1>1. CASE f.yields = f.returns
  BY <1>1 DEF Accepts, CastableTo
<1>2. CASE f.yields # f.returns
  BY <1>2 DEF Declared, Accepts, CastableTo, Numbers
<1> QED
  BY <1>1, <1>2

LEMMA OfferedLength ==
  ASSUME NEW k \in Offers, NEW params \in Seq(ParamKinds)
  PROVE  Len(Offered(k, params)) = Len(params)
<1>1. DOMAIN params = 1..Len(params) /\ Len(params) \in Nat
  OBVIOUS
<1>2. Offered(k, params) \in [1..Len(params) -> ParamKinds \cup {k}]
  BY <1>1 DEF Offered
<1> QED
  BY <1>1, <1>2

LEMMA OutcomesDeclared ==
  ASSUME NEW n, NEW f, Declared(n, f),
         NEW k \in Offers, NEW args, args = Offered(k, f.params), Accepted(args, f),
         NEW r \in Outcomes(f, args)
  PROVE  /\ r \in {"value", "error", Threw, Undefined}
         /\ r = Threw => n \in {"open", "exists"} \/ \E i \in DOMAIN args : args[i] = Forged
         /\ r = Undefined => n \in {"drawTextRGB", "randRange"}
                             \/ \E i \in DOMAIN args : args[i] = Forged
<1> DEFINE given == [i \in DOMAIN args |-> Given(args[i], f.params[i])]
<1>1. DOMAIN args = DOMAIN f.params /\ DOMAIN given = DOMAIN args
  BY DEF Offered
<1>2. ASSUME NEW i \in DOMAIN args
      PROVE  /\ f.params[i] \in ParamKinds
             /\ given[i] = f.params[i] \/ (given[i] = Forged /\ args[i] = Forged)
  <2>1. args[i] = IF k = "declared" \/ (k = Forged /\ f.params[i] # "File")
                  THEN f.params[i] ELSE k
    BY <1>1, <1>2 DEF Offered
  <2>2. Accepts(Kind(args[i]), f.params[i])
    BY <1>2 DEF Accepted
  <2>3. f.params[i] \in ParamKinds
    BY <1>1, <1>2 DEF Declared
  <2>4. given[i] = Given(args[i], f.params[i])
    BY <1>2
  <2> QED
    BY <2>1, <2>2, <2>3, <2>4, GivenAsDeclared
<1> HIDE DEF given
<1>3. ~\E i \in DOMAIN given : given[i] = Threw
  BY <1>1, <1>2 DEF ParamKinds, Threw, Forged
<1>4. Len(args) = Len(f.params)
  BY OfferedLength DEF Declared
<1>5. Outcomes(f, args) =
        IF \E i \in DOMAIN given : given[i] = Threw THEN {Threw}
        ELSE IF \E i \in DOMAIN given : given[i] = Forged THEN f.forged
        ELSE IF \E i \in DOMAIN given : f.casts[i] \notin {"ANY", given[i]} THEN {Undefined}
        ELSE IF ~Accepts(f.yields, f.returns) THEN (f.outcomes \ {"value"}) \cup {Threw}
        ELSE f.outcomes
  BY <1>4 DEF Outcomes, given
<1>6. Accepts(f.yields, f.returns)
  BY YieldsAccepted
<1>7. CASE \E i \in DOMAIN given : given[i] = Forged
  <2>1. r \in f.forged
    BY <1>3, <1>5, <1>7
  <2>2. \E i \in DOMAIN args : args[i] = Forged
    BY <1>1, <1>2, <1>7 DEF ParamKinds, Forged
  <2> QED
    BY <2>1, <2>2 DEF Declared
<1>8. CASE /\ ~\E i \in DOMAIN given : given[i] = Forged
           /\ \E i \in DOMAIN given : f.casts[i] \notin {"ANY", given[i]}
  <2>1. n = "drawTextRGB"
    BY <1>1, <1>2, <1>8 DEF Declared
  <2>2. r = Undefined
    BY <1>3, <1>5, <1>8
  <2> QED
    BY <2>1, <2>2 DEF Threw, Undefined
<1>9. CASE /\ ~\E i \in DOMAIN given : given[i] = Forged
           /\ ~\E i \in DOMAIN given : f.casts[i] \notin {"ANY", given[i]}
  <2>1. r \in f.outcomes
    BY <1>3, <1>5, <1>6, <1>9
  <2> QED
    BY <2>1 DEF Declared
<1> QED
  BY <1>7, <1>8, <1>9

\* A function of the table is declared as its library declares it.
LEMMA OwnedDeclared ==
  ASSUME NEW m, NEW n, NEW f, Declared(n, f)
  PROVE  Declared(n, Of(m, f)) /\ Of(m, f).module = m
<1>1. Of(m, f) = [params |-> f.params, casts |-> f.casts, returns |-> f.returns,
        yields |-> f.yields, outcomes |-> f.outcomes, forged |-> f.forged,
        module |-> m]
  BY DEF Of, Declared, IsEntry
<1> QED
  BY <1>1 DEF Declared, IsEntry

LEMMA TableDeclared ==
  ASSUME TableOK, NEW n \in DOMAIN table
  PROVE  \E i \in DOMAIN order :
           /\ order[i] \in Available
           /\ Declared(n, table[n]) /\ table[n].module = order[i]
           /\ \A j \in 1..i - 1 : n \notin FunctionsOf(order[j])
<1>1. PICK i \in DOMAIN order :
        /\ Registers(n, order[i], table[n])
        /\ \A j \in 1..i - 1 : n \notin FunctionsOf(order[j])
  BY DEF TableOK
<1>2. order[i] \in Available
  BY DEF TableOK
<1>3. PICK k \in DOMAIN Batches[order[i]] :
        /\ n \in DOMAIN Batches[order[i]][k]
        /\ table[n] = Of(order[i], Batches[order[i]][k][n])
  BY <1>1 DEF Registers
<1>4. AllDeclared(Batches[order[i]][k])
  BY <1>2, LibraryNames, LibrariesDeclared
<1>5. Declared(n, Batches[order[i]][k][n])
  BY <1>3, <1>4 DEF AllDeclared
<1>6. Declared(n, table[n]) /\ table[n].module = order[i]
  BY <1>3, <1>5, OwnedDeclared
<1> QED
  BY <1>1, <1>2, <1>6

LEMMA UserDeclared ==
  ASSUME NEW n, NEW file \in UserFiles
  PROVE  Declared(n, UserFn(file)) /\ UserFn(file).module = file
<1>1. /\ FileFunction[file].params \in Seq(ParamKinds)
      /\ FileFunction[file].returns \in ResultKinds
  <2>1. /\ FileFunction[file].params \in Seq(UserKinds)
        /\ FileFunction[file].returns \in UserKinds \cup {"NONE"}
    BY UserAssumption
  <2> QED
    BY <2>1 DEF UserKinds, ParamKinds, ResultKinds
<1>2. PICK ps \in Seq(ParamKinds), r \in ResultKinds :
        ps = FileFunction[file].params /\ r = FileFunction[file].returns
  BY <1>1
<1>3. Declared(n, Fails(Fn(ps, r)))
  BY FnDeclared, FailsDeclared
<1> QED
  BY <1>2, <1>3, OwnedDeclared DEF UserFn

\* What a call comes to, unless its path leads elsewhere.
LEMMA CalleeIs ==
  ASSUME TableOK, ContextsOK, NEW c, CallOK(c)
  PROVE  \/ Gone(c)
         \/ /\ Callee(c) = c.sig
            /\ c.builtin => /\ c.sig = table[c.path.name] /\ c.path.name \in DOMAIN table
                            /\ c.path.name \in FunctionsOf(c.path.mod) /\ Came(c.path.mod)
            /\ ~c.builtin => \E file \in UserFiles : c.sig = UserFn(file)
<1>1. CASE c.builtin
  <2>1. /\ c.path.name \in FunctionsOf(c.path.mod) /\ c.sig = table[c.path.name]
        /\ c.path.mod \in DOMAIN native /\ Came(c.path.mod)
    BY <1>1 DEF CallOK, Found
  <2>2. c.path.name \in DOMAIN table
    BY <2>1 DEF Came, TableOK
  <2>3. CASE c.path.mod \in broken
    BY <1>1, <2>3 DEF Gone
  <2>4. CASE c.path.mod \notin broken
    <3>1. c.path.name \in native[c.path.mod]
      BY <2>1, <2>4 DEF ContextsOK, NamesOf
    <3> QED
      BY <1>1, <2>1, <2>2, <3>1 DEF Callee
  <2> QED
    BY <2>3, <2>4
<1>2. CASE ~c.builtin
  BY <1>2 DEF CallOK, Found, Callee, Gone
<1> QED
  BY <1>1, <1>2

\* The callee of a path that leads elsewhere is no function of a library, or none at all.
LEMMA CalleeGone ==
  ASSUME TableOK, ContextsOK, UsersOK, NEW c, CallOK(c), Gone(c)
  PROVE  Callee(c).module \notin Available
<1>1. CASE c.builtin
  <2>1. c.path.mod \in DOMAIN native /\ native[c.path.mod] = {}
    BY <1>1 DEF CallOK, Found, Gone, ContextsOK
  <2> QED
    BY <1>1, <2>1, LibraryNames DEF Callee, Lost, Failures
<1>2. CASE ~c.builtin
  <2>1. user[c.path.mod].file \in UserFiles
    BY <1>2 DEF CallOK, Found, UsersOK
  <2>2. UserFn(user[c.path.mod].file).module = user[c.path.mod].file
    BY <2>1, UserDeclared
  <2> QED
    BY <1>2, <2>1, <2>2, LibraryNames DEF Callee, Lost, Failures
<1> QED
  BY <1>1, <1>2

LEMMA RunCallAnswers ==
  ASSUME NativeInv, NEW c, CallOK(c), RunCall(c),
         UNCHANGED <<table, native, user, functions, kept, imports, order, broken, retaken>>
  PROVE  LastOK'
<1> DEFINE fn == Callee(c)
<1>1. PICK r \in (IF fn.module \in Failures THEN {fn.module} ELSE Outcomes(fn, c.args)) :
        /\ last' = [path |-> c.path, builtin |-> c.builtin,
                    forged |-> \E i \in DOMAIN c.args : c.args[i] = Forged,
                    by |-> fn.module, declared |-> c.sig.returns,
                    result |-> IF r = "value" THEN fn.yields ELSE r]
        /\ phase' = IF r \in Failures THEN "dead" ELSE "run"
  BY DEF RunCall
<1>2. PICK forged \in BOOLEAN : forged <=> \E i \in DOMAIN c.args : c.args[i] = Forged
  OBVIOUS
<1> HIDE DEF fn
<1>3. /\ last'.path = c.path /\ last'.by = fn.module /\ last'.declared = c.sig.returns
      /\ last'.result = IF r = "value" THEN fn.yields ELSE r
      /\ last'.builtin = c.builtin
      /\ last'.forged <=> \E i \in DOMAIN c.args : c.args[i] = Forged
      /\ phase' # "analyze"
  BY <1>1, <1>2
<1>4. Gone(last)' <=> Gone(c)
  BY <1>3 DEF Gone
<1>5. CASE Gone(c)
  <2>1. fn.module \notin Available
    BY <1>5, CalleeGone DEF NativeInv, fn
  <2>2. FirstRegistrationAnswers'
    BY <1>3, <2>1 DEF FirstRegistrationAnswers
  <2>3. CallsAsDeclared'
    BY <1>4, <1>5 DEF CallsAsDeclared
  <2> QED
    BY <1>3, <2>2, <2>3 DEF LastOK
<1>6. CASE ~Gone(c)
  <2> DEFINE f == c.path.name
  <2>1. /\ fn = c.sig
        /\ c.builtin => /\ c.sig = table[f] /\ f \in DOMAIN table
                        /\ f \in FunctionsOf(c.path.mod) /\ Came(c.path.mod)
        /\ ~c.builtin => \E file \in UserFiles : c.sig = UserFn(file)
    BY <1>6, CalleeIs DEF NativeInv, fn
  <2>2. Declared(f, fn) /\ fn.module \notin Failures
    <3>1. CASE c.builtin
      BY <2>1, <3>1, TableDeclared, LibraryNames DEF NativeInv
    <3>2. CASE ~c.builtin
      <4>1. PICK file \in UserFiles : c.sig = UserFn(file)
        BY <2>1, <3>2
      <4>2. file \notin Failures
        BY UserAssumption
      <4> QED
        BY <2>1, <4>1, <4>2, UserDeclared
    <3> QED
      BY <3>1, <3>2
  <2>3. FirstRegistrationAnswers'
    <3> SUFFICES ASSUME NEW m \in Available, fn.module = m, c.path.mod # m
                 PROVE  \E i, j \in DOMAIN order : i < j /\ order[i] = m /\ order[j] = c.path.mod
      BY <1>3 DEF FirstRegistrationAnswers
    <3>1. c.builtin
      BY <2>1, UserDeclared, LibraryNames
    <3>2. PICK i \in DOMAIN order :
            /\ order[i] = m /\ \A j \in 1..i - 1 : f \notin FunctionsOf(order[j])
      BY <2>1, <3>1, TableDeclared DEF NativeInv
    <3>3. PICK j \in DOMAIN order : order[j] = c.path.mod /\ f \in FunctionsOf(order[j])
      BY <2>1, <3>1 DEF Came
    <3>4. i \in Nat \ {0} /\ j \in Nat \ {0}
      <4>1. order \in Seq(Available)
        BY DEF NativeInv, TableOK
      <4> QED
        BY <4>1
    <3>5. ~(j \in 1..i - 1) /\ i # j
      BY <3>2, <3>3
    <3>6. i < j
      BY <3>4, <3>5
    <3> QED
      BY <3>2, <3>3, <3>6
  <2>4. PICK k \in Offers : c.args = Offered(k, fn.params)
    BY <2>1 DEF CallOK
  <2>5. r \in Outcomes(fn, c.args) /\ Accepted(c.args, fn)
    BY <1>1, <2>1, <2>2 DEF CallOK
  <2>6. /\ r \in {"value", "error", Threw, Undefined}
        /\ r = Threw => f \in {"open", "exists"} \/ last'.forged
        /\ r = Undefined => f \in {"drawTextRGB", "randRange"} \/ last'.forged
    BY <1>3, <2>2, <2>4, <2>5, OutcomesDeclared
  <2>7. /\ fn.yields \in ResultKinds
        /\ fn.yields # fn.returns => f \in {"floor", "ceil", "round"}
    BY <2>2 DEF Declared
  <2>8. fn.yields \notin {Threw, Undefined}
    BY <2>7 DEF ResultKinds, ParamKinds, Threw, Undefined
  <2>9. last'.declared = fn.returns /\ last'.path.name = f
    BY <1>3, <2>1
  <2> HIDE DEF f
  <2>10. CallsAsDeclared'
    BY <1>3, <2>6, <2>7, <2>8, <2>9 DEF CallsAsDeclared, Failures, Threw, Undefined
  <2> QED
    BY <1>3, <2>3, <2>10 DEF LastOK
<1> QED
  BY <1>5, <1>6

\* The calls that wait after a call: the rest of them, or none.
LEMMA RunCallTexts ==
  ASSUME CallsOK, NEW c, RunCall(c)
  PROVE  /\ Listed(text')
         /\ \A i \in DOMAIN text' : text'[i] \in {text[j] : j \in DOMAIN text}
<1> DEFINE S == {text[j] : j \in DOMAIN text}
<1>1. text \in Seq(S)
  BY DEF CallsOK, Listed
<1>2. text' = text \/ text' = <<>> \/ (text # <<>> /\ text' = Tail(text))
  BY DEF RunCall
<1> HIDE DEF S
<1>3. text' \in Seq(S)
  <2>1. text # <<>> => Tail(text) \in Seq(S)
    BY <1>1, HeadTailProperties
  <2>2. <<>> \in Seq(S)
    OBVIOUS
  <2> QED
    BY <1>1, <1>2, <2>1, <2>2
<1>4. Listed(text') /\ \A i \in DOMAIN text' : text'[i] \in S
  BY <1>3, SeqListed
<1> QED
  BY <1>4 DEF S

LEMMA RunCallKeeps ==
  ASSUME NativeInv, NEW c, CallOK(c), RunCall(c),
         UNCHANGED <<table, native, user, functions, kept, imports, order, broken, retaken>>
  PROVE  NativeInv'
<1> USE DEF NativeInv
<1>1. TableOK' /\ ContextsOK' /\ UsersOK' /\ Grow
  BY Resting
<1>2. CacheOK'
  BY <1>1, CacheKept
<1>3. CallsOK'
  BY <1>1, RunCallTexts, CallsKept
<1>4. LastOK'
  BY RunCallAnswers
<1> QED
  BY <1>1, <1>2, <1>3, <1>4

\* Every step of a session keeps the invariant.
LEMMA NativeStep == NativeInv /\ [NativeNext]_nativeVars => NativeInv'
<1> SUFFICES ASSUME NativeInv, [NativeNext]_nativeVars
             PROVE  NativeInv'
  OBVIOUS
<1>1. ASSUME NEW m \in Available \cup {"missing"}, ImportNative(m)
      PROVE  NativeInv'
  BY <1>1, ImportNativeKeeps
<1>2. ASSUME NEW m \in UserModules, NEW p \in UserFiles, ImportFile(m, p)
      PROVE  NativeInv'
  BY <1>2, ImportFileKeeps
<1>3. ASSUME NEW p \in NativePaths, AnalyzeCall(p) \/ RefuseCall(p) \/ AnalyzeCallOfValue(p)
      PROVE  NativeInv'
  BY <1>3, AnalyzeCallKeeps, RefuseCallKeeps, AnalyzeCallOfValueKeeps
<1>4. CASE Analyzed
  BY <1>4, AnalyzedKeeps
<1>5. CASE RunNext
  <2>1. Head(text) = text[1] /\ 1 \in DOMAIN text
    <3>1. text \in Seq({text[i] : i \in DOMAIN text}) /\ text # <<>>
      BY <1>5 DEF RunNext, NativeInv, CallsOK, Listed
    <3>2. PICK S : text \in Seq(S)
      BY <3>1
    <3> QED
      BY <3>1, <3>2
  <2>2. CallOK(Head(text))
    BY <2>1 DEF NativeInv, CallsOK
  <2> QED
    BY <1>5, <2>2, RunCallKeeps DEF RunNext
<1>6. CASE RunBody
  <2>1. PICK c \in kept : RunCall(c)
    BY <1>6 DEF RunBody
  <2>2. CallOK(c)
    BY DEF NativeInv, CallsOK
  <2> QED
    BY <1>6, <2>1, <2>2, RunCallKeeps DEF RunBody
<1>7. CASE NextText
  BY <1>7, NextTextKeeps
<1>8. CASE UNCHANGED nativeVars
  BY <1>8 DEF nativeVars, NativeInv, TableOK, ContextsOK, CacheOK, CallsOK, CallOK, LastOK,
         UsersOK, Found, Came, FirstRegistrationAnswers, CallsAsDeclared, Gone, Holds, Builtin
<1> QED
  BY <1>1, <1>2, <1>3, <1>4, <1>5, <1>6, <1>7, <1>8 DEF NativeNext

-----------------------------------------------------------------------------
(* The theorems about native modules *)

\* The table of functions, the contexts, the cache of signatures and the texts agree
\* about what every accepted call refers to, for any set of libraries, any modules
\* of the user's and texts of any length.
THEOREM NativeInvAlways == NativeSpec => []NativeInv
<1>1. NativeInit => NativeInv
  BY NativeInitial
<1>2. NativeInv /\ [NativeNext]_nativeVars => NativeInv'
  BY NativeStep
<1> QED
  BY <1>1, <1>2, PTL DEF NativeSpec

\* A call runs the function it was checked against, whatever was imported, analyzed or
\* run meanwhile, unless its library failed to load again or another file took the name
\* of its module.
THEOREM CallsKeepTheirFunction == NativeSpec => []AcceptedCallsKeepTheirFunction
<1>1. NativeInv => AcceptedCallsKeepTheirFunction
  <2> SUFFICES ASSUME NativeInv, NEW c \in kept \cup {text[i] : i \in DOMAIN text},
                      ~Gone(c)
               PROVE  Callee(c) = c.sig
    BY DEF AcceptedCallsKeepTheirFunction
  <2>1. CallOK(c)
    BY DEF NativeInv, CallsOK
  <2> QED
    BY <2>1, CalleeIs DEF NativeInv
<1> QED
  BY <1>1, NativeInvAlways, PTL

\* A name that two libraries register answers as the function of the one that was
\* loaded first.
THEOREM FirstAnswers == NativeSpec => []FirstRegistrationAnswers
<1>1. NativeInv => FirstRegistrationAnswers
  BY DEF NativeInv, LastOK
<1> QED
  BY <1>1, NativeInvAlways, PTL

\* Calls of native functions yield the kind they declare and cast nothing to another
\* class, but for the functions and the failures named.
THEOREM NativeCallsAsDeclared == NativeSpec => []CallsAsDeclared
<1>1. NativeInv => CallsAsDeclared
  BY DEF NativeInv, LastOK
<1> QED
  BY <1>1, NativeInvAlways, PTL
=============================================================================
