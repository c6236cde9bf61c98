SPECIFICATION Spec
CONSTANTS
  Ids = {0, 10, 16}
  Texts <- MCTexts
  Modes = {"BLOCK"}
PROPERTIES
  TerminalKept
