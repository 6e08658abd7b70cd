\* Every sequence of keys on commands of up to three characters, the line end among
\* them, which takes no column, with a history of two commands and files of two
\* lines; sessions of one variable, two numbered lines and a history of one; the
\* terminal's settings.
CONSTANTS
  Letters = {"a"}
  Space = "_"
  Newline = "n"
  Columns <- ByteColumns
  Prompt <- ShortPrompt
  MaxHistorySize = 2
  MaxCommand = 3
  MaxStored = 1
  MaxLoaded = 2
  Plain = {"p"}
  SessionNames = {"x"}
  HistoryCap = 1
  LoadedLines = {0, 1}
  MaxLine = 2
SPECIFICATION ShellSpec
CHECK_DEADLOCK FALSE
INVARIANTS
  ConsoleShowsCommand
  NamesOutliveTheirCommand
  
  TerminalRestored
PROPERTIES
  ImplementsTextBuffer
  CommandsEnd
