SPECIFICATION Spec
CONSTANTS
  NUM_PROCESSES = 3
  NumPages = 30
  KernelTables = 1
  DriverPages = 1
  TableSize = 2
  UserPages = 32
  shell = shell
  echo = echo
  Shell = shell
  Files <- MCFiles
  ElfPages <- MCElfPages
PROPERTIES
  SbrkMapsNewPage
