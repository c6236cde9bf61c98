SPECIFICATION OutputSpec
CONSTANTS
  Formats <- MCFormats
  LaterFormats <- MCLater
  Ints <- MCInts
  Strings <- MCStrings
  Chars = {"x"}
  Modes = {"SKIP", "TRIM", "BLOCK"}
  BufferSize = 3
  Word = 65536
  PtrDigits = 4
  Ids = {0, 9, 10, 15, 16}
  Texts <- MCTexts
INVARIANTS
  OutputInv
  NothingLost
  LossIsTail
  HostFollows
  TextRouted
  PrintfSeen
