SPECIFICATION FairSpec
CONSTANTS
  TTY_BUFFER_SIZE = 4
  Letters = {a, b}
  NL = NL
  CR = CR
  BACKSPACE = BACKSPACE
  NUL = NUL
  ReadSizes = {0, 1, 2, 5}
INVARIANTS
  TypeOK
  IndicesAgree
  LinesTerminated
PROPERTIES
  ImplementsQueue
  LineIsRead
