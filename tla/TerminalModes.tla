---------------------------- MODULE TerminalModes ----------------------------
(***************************************************************************)
(* The settings of the terminal.  Three parties change them: the functions *)
(* rawMode and normalMode of the native module terminal, which keep what   *)
(* they found in one global variable, and the shell, which changes them    *)
(* around every character it reads (Shell::getChar).                       *)
(*                                                                         *)
(* A setting says whether keys are echoed, whether they come line by line, *)
(* and whether a read waits for one.  The shell and the functions :getChr  *)
(* and :input read one stream, the C library's.  A read of it that finds   *)
(* nothing, or the end-of-file key that only line by line reading knows,   *)
(* leaves it at its end: that read yields EOF, and every one after it.     *)
(***************************************************************************)
Cooked == [echo |-> TRUE, lines |-> TRUE, waits |-> TRUE]
Zeroed == [echo |-> FALSE, lines |-> FALSE, waits |-> FALSE]

VARIABLES
  tty,       \* the settings in force
  held,      \* holdTermios, zero at first
  oldt,      \* what getChar found
  shown,     \* whether the cursor is shown
  activity,  \* "typing": between two characters; "reading"; "running" a command
  atEnd,     \* the stream of the keys is at its end
  misused,   \* history: rawMode was called in raw mode or normalMode before it
  metEnd     \* history: a read by the program itself met the end

terminalVars == <<tty, held, oldt, shown, activity, atEnd, misused, metEnd>>

TerminalInit ==
  /\ tty = Cooked /\ held = Zeroed /\ oldt = Zeroed
  /\ shown = TRUE /\ activity = "typing"
  /\ atEnd = FALSE /\ misused = FALSE /\ metEnd = FALSE

-----------------------------------------------------------------------------
(* The functions of the module *)

RawMode ==
  /\ activity = "running"
  /\ held' = tty
  /\ tty' = [echo |-> FALSE, lines |-> FALSE, waits |-> FALSE]
  /\ shown' = FALSE
  /\ misused' = (misused \/ ~shown)
  /\ UNCHANGED <<oldt, activity, atEnd, metEnd>>

NormalMode ==
  /\ activity = "running"
  /\ tty' = held
  /\ shown' = TRUE
  /\ misused' = (misused \/ held = Zeroed)
  /\ UNCHANGED <<held, oldt, activity, atEnd, metEnd>>

\* :getChr or :input meets the end: no key is there and the read does not wait,
\* the user presses the end-of-file key, or an earlier read met it.
ProgramMeetsEnd ==
  /\ activity = "running"
  /\ atEnd \/ ~tty.waits \/ tty.lines
  /\ atEnd' = TRUE /\ metEnd' = TRUE
  /\ UNCHANGED <<tty, held, oldt, shown, activity, misused>>

-----------------------------------------------------------------------------
(* Shell::getChar *)

StartRead ==
  /\ activity = "typing"
  /\ oldt' = tty
  /\ tty' = [tty EXCEPT !.echo = FALSE, !.lines = FALSE]
  /\ activity' = "reading"
  /\ UNCHANGED <<held, shown, atEnd, misused, metEnd>>

\* Fault: the settings are left as they are for the next character.
EndReadKept(next) ==
  /\ activity = "reading"
  /\ activity' = next
  /\ UNCHANGED <<tty, held, oldt, shown, misused, metEnd>>

EndRead(next) ==
  /\ activity = "reading"
  /\ tty' = oldt
  /\ activity' = next
  /\ UNCHANGED <<held, oldt, shown, misused, metEnd>>

\* A key is typed: one more character, or the end of the command.
KeyRead ==
  /\ ~atEnd /\ UNCHANGED atEnd
  /\ \E next \in {"typing", "running"} : EndRead(next)

\* None is typed and the read does not wait, or an earlier one did not: the
\* character is EOF, which ends no command.
NothingRead ==
  /\ atEnd \/ ~tty.waits
  /\ atEnd' = TRUE
  /\ EndRead("typing")

CommandDone ==
  /\ activity = "running" /\ activity' = "typing"
  /\ UNCHANGED <<tty, held, oldt, shown, atEnd, misused, metEnd>>

TerminalNext ==
  \/ RawMode \/ NormalMode \/ ProgramMeetsEnd
  \/ StartRead \/ KeyRead \/ NothingRead \/ CommandDone

TerminalSpec == TerminalInit /\ [][TerminalNext]_terminalVars

-----------------------------------------------------------------------------
(* Properties *)

\* A program that brackets what it does by one rawMode and one normalMode finds
\* the terminal as the user left it, and the shell hears the user again.  The
\* shell goes deaf, for good, only when it reads keys between the two, when the
\* calls do not pair, or when the program's own :getChr or :input met the end of
\* the keys, which in raw mode takes no more than a moment without one.
TerminalRestored ==
  /\ activity = "running" /\ shown /\ ~misused => tty = Cooked
  /\ atEnd => ~shown \/ misused \/ metEnd
=============================================================================
