SPECIFICATION FairSpec
CONSTANTS
  TTY_BUFFER_SIZE = 4
  Letters = {a, b}
  NL = NL
  CR = CR
  BACKSPACE = BACKSPACE
  NUL = NUL
  ReadSizes = {1}
PROPERTIES
  TakesKeysAgain
