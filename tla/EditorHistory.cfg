\* Up and down through the history.
CONSTANTS
  Letters = {"a"}
  Space = "_"
  Newline = "n"
  Columns <- ByteColumns
  Prompt <- ShortPrompt
  MaxHistorySize = 2
  MaxCommand = 2
  MaxStored = 1
  MaxLoaded = 3
SPECIFICATION Spec
CHECK_DEADLOCK FALSE
INVARIANT
  HistoryInBounds
