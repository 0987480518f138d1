SPECIFICATION FairSpec
CONSTANTS
  NUM_PROCESSES = 2
  NumInstr = 2
  Regs = {v, w}
  MaxRx = 1
INVARIANTS
  TypeOK
  KernelNotInterrupted
  ResumesAtTrap
  VectorsAgree
  NoClaimInUser
PROPERTIES
  CharacterTaken
  ImplementsLife
