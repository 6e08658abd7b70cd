----------------------------- MODULE MCOwnership -----------------------------
(***************************************************************************)
(* The parts of the interpreter that own something, side by side: values   *)
(* (ValueOwnership), the bounds and the counter of a for loop (ForLoop),   *)
(* the streams of File structures (FileStreams), what a module keeps of    *)
(* its text (ModuleValues).  A behaviour is one of one of them: part says  *)
(* of which, and the state of the others rests.                            *)
(***************************************************************************)
EXTENDS MCValueOwnership, ForLoop, FileStreams, ModuleValues

VARIABLE part

\* A few of the modes open takes.
ModesTried == {<<>>, <<"r">>, <<"r", "+">>, <<"w", "r", "a">>}

\* No variable has a value; there is no file.
LoopRests    == /\ loopOwner = <<"VALUE_TOKEN", "VALUE_TOKEN">>
                /\ loopSymbols = [n \in LoopNames |-> Missing]
                /\ LoopInit
StreamsRest  == /\ disk = [n \in FileNames |-> None]
                /\ inode = [i \in Inodes |-> <<>>]
                /\ StreamsInit

PartsInit ==
  /\ Init /\ ModuleInit
  /\ \/ part \in {"values", "module"} /\ LoopRests /\ StreamsRest
     \/ part = "loop" /\ LoopInit /\ StreamsRest
     \/ part = "streams" /\ LoopRests /\ StreamsInit

PartsNext ==
  /\ UNCHANGED part
  /\ \/ part = "values" /\ Next /\ UNCHANGED <<loopVars, streamsVars, moduleVars>>
     \/ part = "loop" /\ LoopNext /\ UNCHANGED <<vars, streamsVars, moduleVars>>
     \/ part = "streams" /\ StreamsNext /\ UNCHANGED <<vars, loopVars, moduleVars>>
     \/ part = "module" /\ ModuleNext /\ UNCHANGED <<vars, loopVars, streamsVars>>

PartsSpec == PartsInit /\ [][PartsNext]_<<part, vars, loopVars, streamsVars, moduleVars>>
=============================================================================
