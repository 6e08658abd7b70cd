------------------------------ MODULE MCModules ------------------------------
(***************************************************************************)
(* The two kinds of modules, side by side: those written in RPN            *)
(* (ModuleRegistry) and the libraries written in C++ (NativeModules).  A   *)
(* behaviour is one of one of them: part says of which, and the state of   *)
(* the others rests.                                                       *)
(***************************************************************************)
EXTENDS MCModuleRegistry, MCNativeModules

VARIABLE part

\* The registry at rest holds some program, which it never analyzes.
Resting == program = (CHOOSE p \in Programs : TRUE) /\ Init

ModulesInit ==
  /\ NativeInit
  /\ \/ part = "registry" /\ Init
     \/ part = "native" /\ Resting

RegistryStep == part = "registry" /\ Next /\ UNCHANGED <<part, nativeVars>>

ModulesNext ==
  \/ RegistryStep
  \/ part = "native" /\ NativeNext /\ UNCHANGED <<part, vars>>

allVars == <<part, vars, nativeVars>>

\* The registry's fairness: the program is not stopped (FairSpec).
ModulesSpec == ModulesInit /\ [][ModulesNext]_allVars /\ WF_allVars(RegistryStep)

-----------------------------------------------------------------------------
(* Properties *)

\* Imports end, mutual ones included, unless a file lost its name to another
\* (ImportsEnd of ModuleRegistry, of the behaviours that are the registry's).
RegistryImportsEnd == part = "registry" => ImportsEnd
=============================================================================
