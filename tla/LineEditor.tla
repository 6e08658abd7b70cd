------------------------------ MODULE LineEditor ------------------------------
(***************************************************************************)
(* The line editor of the shell: the command being typed, the cursor, the  *)
(* history, and the line of the console they are shown on.  The console is *)
(* driven by relative and absolute moves of its own cursor, computed from  *)
(* the editor's: the two must stay in step by themselves.                  *)
(*                                                                         *)
(* One action is one key, as Shell::getCommand handles it; the bytes of a  *)
(* key's escape sequence are one key.  The console is one line wide enough *)
(* for the prompt and the command.  The editor counts bytes, the console   *)
(* columns: a character takes Columns[c] of them, none as a control byte   *)
(* or a later byte of an UTF-8 letter, some as a Tab, whose number is      *)
(* fixed here though it depends on the place.                              *)
(***************************************************************************)
EXTENDS Integers, Sequences, SequencesExt, FiniteSetsExt

CONSTANTS
  Letters,         \* the characters but two: any byte that is not a key
  Space, Newline,  \* the two characters that are treated apart
  Columns,         \* the columns of the console each character takes
  Prompt,          \* the prompt
  MaxHistorySize,  \* MAX_HISTORY_SIZE
  MaxCommand,      \* bound on the length of a command being typed
  MaxStored,       \* bound on the length of a command that is entered or saved
  MaxLoaded        \* bound on the lines of a history file

Chars == Letters \cup {Space, Newline}

ASSUME EditorAssumption ==
  /\ Space \notin Letters /\ Newline \notin Letters /\ Space # Newline
  /\ Columns \in [Chars -> Nat] /\ Columns[Space] = 1 /\ Columns[Newline] = 0
  /\ Prompt \in Seq(STRING) /\ Len(Prompt) > 0
  /\ MaxHistorySize \in Nat \ {0}
  /\ MaxCommand \in Nat /\ MaxStored \in Nat /\ MaxLoaded \in Nat

VARIABLES
  command, cursor,  \* the text and the place of the next character in it
  history, index,   \* the commands entered, and how far back one is shown
  saved,            \* savedCommand: what was typed before the history was browsed
  row, column,      \* the line of the console, the characters before its cursor
  outcome,          \* "ok", or "undefined" once memory past the history is read
  astray            \* history: since the line was last written again, "end" if End
                    \* was pressed, "odd" if a character has not one column

vars == <<command, cursor, history, index, saved, row, column, outcome, astray>>

Size == Len(command)
\* The i-th character of a text, counted from 0 as std::string does.
Char(text, i) == IF i \in 0..Len(text) - 1 THEN text[i + 1] ELSE "none"
Erase(text, i) == IF i < Len(text) THEN RemoveAt(text, i + 1) ELSE text

Init ==
  /\ command = <<>> /\ cursor = 0
  /\ history = <<>> /\ index = 0
  /\ saved = <<>>
  /\ row = Prompt /\ column = Len(Prompt)
  /\ outcome = "ok" /\ astray = {}

Ready == outcome = "ok"

-----------------------------------------------------------------------------
(* The console *)

Clip(n) == Max({0, n})
Console(r, c) == row' = r /\ column' = Clip(c)

\* A text as the console shows it: each character in its columns.
Cells(text) ==
  LET cells[i \in 0..Len(text)] ==
        IF i = 0 THEN <<>> ELSE cells[i - 1] \o [k \in 1..Columns[text[i]] |-> text[i]]
  IN  cells[Len(text)]
\* A line end, which takes no column of this line, is odd as well.
Odd(text) ==
  IF \E i \in DOMAIN text : Columns[text[i]] # 1 THEN {"odd"} ELSE {}

\* "\033[nG" counts columns from 1.
SetCursorPosition(position) == position + Len(Prompt) - 1

\* updateLine: the line is written again, the cursor put behind as many columns
\* as the command has bytes before its own.
UpdateLine(text, position, offset) ==
  /\ Console(Prompt \o Cells(text), SetCursorPosition(position + offset))
  /\ astray' = Odd(text)

\* setLine: the line is written again, the cursor behind it.
SetLine(text) ==
  /\ command' = text
  /\ cursor' = Len(text)
  /\ Console(Prompt \o Cells(text), Len(Prompt) + Len(Cells(text)))
  /\ astray' = Odd(text)

\* The line with cells written over it from the console's cursor on.
Written(cells) ==
  [i \in 1..Max({Len(row), column + Len(cells)}) |->
    IF i \in column + 1 .. column + Len(cells) THEN cells[i - column]
    ELSE IF i <= Len(row) THEN row[i] ELSE Space]

-----------------------------------------------------------------------------
(* Keys that change the text *)

KeepHistory == UNCHANGED <<history, index, saved, outcome>>

\* A character, or one after an escape, which may be a line end: what is behind
\* the cursor is written, and the console's cursor goes back once a byte.
PutChar ==
  /\ Ready /\ Size < MaxCommand
  /\ \E c \in Chars :
       LET text    == InsertAt(command, cursor + 1, c)
           written == Cells(SubSeq(text, cursor + 1, Len(text)))
       IN  /\ command' = text
           /\ Console(Written(written), column + Len(written) - (Size - cursor))
           /\ astray' = astray \cup Odd(<<c>>)
  /\ cursor' = cursor + 1
  /\ KeepHistory

\* Fault: the line is written again as if the cursor stayed.
PopCharRedraw ==
  /\ Ready /\ cursor > 0
  /\ command' = Erase(command, cursor - 1)
  /\ UpdateLine(command', cursor, 1)
  /\ cursor' = cursor - 1
  /\ KeepHistory

PopChar ==
  /\ Ready /\ cursor > 0
  /\ command' = Erase(command, cursor - 1)
  /\ UpdateLine(command', cursor, 0)
  /\ cursor' = cursor - 1
  /\ KeepHistory

\* popWord erases the character under the cursor and moves left, until it is
\* on a space or before the first character: the text erased down to i, and
\* where the loop stops.
ErasedTo(i) ==
  LET text[j \in i..cursor] == Erase(IF j = cursor THEN command ELSE text[j + 1], j)
  IN  text[i]
PopWordStop ==
  LET stop[i \in -1 .. cursor - 1] ==
        IF i >= 0 /\ Char(ErasedTo(i + 1), i) # Space THEN stop[i - 1] ELSE i
  IN  stop[cursor - 1]

\* Fault: the space is erased before the loop sees it.
PopWordWithSpace ==
  /\ Ready /\ cursor > 0
  /\ command' = ErasedTo(Clip(PopWordStop))
  /\ cursor' = Clip(PopWordStop)
  /\ UpdateLine(command', cursor', 1)
  /\ KeepHistory

PopWord ==
  /\ Ready /\ cursor > 0
  /\ command' = ErasedTo(PopWordStop + 1)
  /\ cursor' = Clip(PopWordStop)
  /\ UpdateLine(command', cursor', 1)
  /\ KeepHistory

PopCharRight ==
  /\ Ready /\ cursor < Size
  /\ command' = Erase(command, cursor)
  /\ UNCHANGED cursor
  /\ UpdateLine(command', cursor, 1)
  /\ KeepHistory

\* popWordRight erases under the cursor until a space is there or nothing.
ErasedRight(n) ==
  LET text[k \in 0..n] == IF k = 0 THEN command ELSE Erase(text[k - 1], cursor)
  IN  text[n]

PopWordRight ==
  /\ Ready /\ cursor < Size
  /\ command' = ErasedRight(Min({n \in 1..Size - cursor :
       cursor >= Len(ErasedRight(n)) \/ Char(ErasedRight(n), cursor) = Space}))
  /\ UNCHANGED cursor
  /\ UpdateLine(command', cursor, 1)
  /\ KeepHistory

-----------------------------------------------------------------------------
(* Keys that move the cursor *)

Move(place, at) ==
  /\ Ready
  /\ cursor' = place
  /\ Console(row, at)
  /\ KeepHistory /\ UNCHANGED command

\* Relative moves, by one character or to the next space.
ArrowLeft  ==
  /\ cursor > 0
  /\ \E place \in {cursor - 1,
                   Max({i \in 0..cursor - 1 : i = 0 \/ Char(command, i) = Space})} :
       Move(place, column - (cursor - place))
  /\ UNCHANGED astray
ArrowRight ==
  /\ cursor < Size
  /\ \E place \in {cursor + 1,
                   Min({i \in cursor + 1..Size : i = Size \/ Char(command, i) = Space})} :
       Move(place, column + (place - cursor))
  /\ UNCHANGED astray

Home == Move(0, SetCursorPosition(1)) /\ UNCHANGED astray
\* End puts the console's cursor on the last character, not behind it.
End  == Move(Size, SetCursorPosition(Size)) /\ astray' = astray \cup {"end"}

-----------------------------------------------------------------------------
(* The history *)

ArrowUp ==
  /\ Ready /\ index < Len(history)
  /\ index = 0 => Size <= MaxStored
  /\ saved' = IF index = 0 THEN command ELSE saved
  /\ index' = index + 1
  /\ SetLine(history[Len(history) - index])
  /\ UNCHANGED <<history, outcome>>

\* displayHistoryLine reads history[size - index]: past its end for index 0.
ArrowDown ==
  /\ Ready
  /\ \/ /\ index > 1
        /\ index' = index - 1
        /\ SetLine(history[Len(history) - index + 2])
        /\ UNCHANGED outcome
     \/ /\ index = 1
        /\ index' = 0
        /\ outcome' = "undefined"
        /\ UNCHANGED <<command, cursor, row, column, astray>>
     \/ /\ index = 0
        /\ SetLine(saved)
        /\ UNCHANGED <<index, outcome>>
  /\ UNCHANGED <<history, saved>>

\* The next getCommand starts; savedCommand keeps its text.
NextCommand ==
  /\ command' = <<>> /\ cursor' = 0 /\ index' = 0
  /\ row' = Prompt /\ column' = Len(Prompt) /\ astray' = {}
  /\ UNCHANGED outcome

Added == command # <<>> /\ (history = <<>> \/ Last(history) # command)

\* A command that is not empty nor the last one is added, and the oldest given
\* up when there are too many.
Enter ==
  /\ Ready /\ Size <= MaxStored
  /\ history' = IF ~ Added THEN history
                ELSE IF Len(history) >= MaxHistorySize THEN Append(Tail(history), command)
                ELSE Append(history, command)
  /\ NextCommand /\ UNCHANGED saved

\* The lines a command takes in the history file.
Lines(text) ==
  LET lines[i \in 0..Len(text)] ==
        IF i = 0 THEN <<<<>>>>
        ELSE IF text[i] = Newline THEN Append(lines[i - 1], <<>>)
        ELSE [lines[i - 1] EXCEPT ![Len(lines[i - 1])] = Append(@, text[i])]
  IN  lines[Len(text)]
SavedLines == FlattenSeq([i \in DOMAIN history |-> Lines(history[i])])

\* The session ends, saves its history, and the next one loads it.
NewSession ==
  /\ Ready /\ Len(SavedLines) <= MaxLoaded
  /\ history' = SavedLines
  /\ saved' = <<>>
  /\ NextCommand

Next ==
  \/ PutChar \/ PopChar \/ PopWord \/ PopCharRight \/ PopWordRight
  \/ ArrowLeft \/ ArrowRight \/ Home \/ End
  \/ ArrowUp \/ ArrowDown \/ Enter \/ NewSession

Spec == Init /\ [][Next]_vars

-----------------------------------------------------------------------------
(* Properties *)

\* "display it correctly in the console": unless End was pressed since the line
\* was last written again, or the line holds a character that does not take one
\* column (a line end, a Tab, a control byte, a byte of an UTF-8 letter), the
\* console shows exactly the prompt and the command and has its cursor where the
\* next character goes.
ConsoleShowsCommand ==
  astray = {} => row = Prompt \o command /\ column = Len(Prompt) + cursor

\* The keys, with their loops over positions, do to the text what an editor
\* promises: the command is the text of a TextBuffer cut at the cursor, and every
\* key a step of it or none, but for two.  Ctrl-W takes the character under the
\* cursor as well, and nothing else beside the word; and the history comes back
\* from its file as it was only when no command holds a line end.
Buffer == INSTANCE TextBuffer WITH
  Alphabet <- Chars, Blank <- Space, Cap <- MaxHistorySize,
  before <- SubSeq(command, 1, cursor), behind <- SubSeq(command, cursor + 1, Size),
  past <- history, draft <- saved
Rest(text) == IF text = <<>> THEN text ELSE Tail(text)
OneTooMany == PopWord /\ Buffer!EraseWord(Rest(SubSeq(command, cursor + 1, Size)))
Split == NewSession /\ \E i \in DOMAIN history : Newline \in Range(history[i])
ImplementsTextBuffer ==
  Buffer!Init /\ [][Buffer!Next \/ OneTooMany \/ Split]_(Buffer!bufferVars)

\* "display the current history line": only lines of the history are read.
\* (Refuted: Down on the last command reads behind it.)
HistoryInBounds == outcome = "ok"
=============================================================================
