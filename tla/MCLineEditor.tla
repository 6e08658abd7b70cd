----------------------------- MODULE MCLineEditor -----------------------------
(* Small instances of LineEditor for TLC. *)
EXTENDS LineEditor

ShortPrompt == <<">", ">">>
\* A line end takes no column of its line, as a control byte does; every other
\* character has one.
ByteColumns == [c \in Chars |-> IF c = Newline THEN 0 ELSE 1]
=============================================================================
