------------------------------- MODULE MCEditor -------------------------------
(***************************************************************************)
(* The interactive shell, its three layers side by side: the editor of one *)
(* line (LineEditor), the session that reads and runs commands             *)
(* (ReplSession) and the settings of the terminal (TerminalModes).  A      *)
(* behaviour is one of one of them; the state of the others rests.         *)
(***************************************************************************)
EXTENDS MCLineEditor, ReplSession, TerminalModes

VARIABLE part

allVars == <<part, vars, sessionVars, terminalVars>>

\* At rest the session starts with some history.
Resting == entered = CHOOSE e \in [size : LoadedLines, newest : Texts \ {Nothing}] : TRUE

ShellInit ==
  /\ part \in {"editor", "session", "terminal"}
  /\ Init /\ SessionInit /\ TerminalInit
  /\ part # "session" => Resting

SessionWorks == part = "session" /\ ShellWorks /\ UNCHANGED <<part, vars, terminalVars>>

ShellNext ==
  \/ part = "editor"   /\ Next         /\ UNCHANGED <<part, sessionVars, terminalVars>>
  \/ part = "session"  /\ UserTypes    /\ UNCHANGED <<part, vars, terminalVars>>
  \/ SessionWorks
  \/ part = "terminal" /\ TerminalNext /\ UNCHANGED <<part, vars, sessionVars>>

\* The fairness of SessionSpec.
ShellSpec == ShellInit /\ [][ShellNext]_allVars /\ WF_allVars(SessionWorks)
=============================================================================
