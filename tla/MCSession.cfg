CONSTANTS
  SECTOR_SIZE = 4
  MAX_FS_FILES = 4
  MAX_FILESIZE = 12
  SizeDigits = 2
  IndexModulus = 4
  RamPages = 6
  KernelPages = 1
  MaxFailures = 1
  Archives <- MCArchives
  Bodies <- MCBodies
  Cuts = {0, 3}
  NUM_PROCESSES = 4
  BUF_SIZE = 6
  MAX_CMD_ARGS = 2
  Letters = {"e"}
  ShellName <- MCShellName
  EchoName <- MCEchoName
SPECIFICATION SessionSpec
INVARIANTS
  TypeOK
  DriverOkFirst
  VirtqMemory
  LoadedAsArchive
  LineNotSplit
  ParseSound
  PromptAfterCommand
PROPERTIES
  RequestCompleted
  LoadingEnds
  BootsToPrompt
  CommandRuns
