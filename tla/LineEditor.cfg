CONSTANTS
  Chars = {"s", " "}
  Space = " "
  Commands <- MCCommands
  SecParam <- MCSecParam
  MaxLine = 2
  MaxPaste = 2
  MaxEntry = 2
  MaxHistory = 1
SPECIFICATION Spec
INVARIANTS
  TypeOK
  EditorSafe
PROPERTIES
  CutThenPasteRestores
  CompletionExtends
CHECK_DEADLOCK FALSE
