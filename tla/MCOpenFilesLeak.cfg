SPECIFICATION Spec
CONSTANTS
  NUM_PROCESSES = 2
  MAX_OS_FILES = 3
  MAX_OPEN_FILES = 5
  hello = hello
  bye = bye
  NoFile = NoFile
  Files <- MCFiles
  Size <- MCSize
  ReadSizes = {0, 1, 3}
INVARIANTS
  NoOrphanedEntry
CHECK_DEADLOCK FALSE
