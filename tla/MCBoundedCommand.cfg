CONSTANTS
  OutputLimit = 1
  CaptureLimit = 2
  PipeSize = 1
  Deadline = 2
  MaxOutput = 4
SPECIFICATION CommandSpec
INVARIANTS
  TypeOK
  OkDigestsEverything
  LeavesNothingBehind
PROPERTY
  EveryCallReturns
