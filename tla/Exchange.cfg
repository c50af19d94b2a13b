CONSTANTS
  n1 = n1  n2 = n2
  Size <- Lengths
  FileSize = 3
  Names = {n1, n2}
  MaxCmds = 4
  MaxFaults = 2
SPECIFICATION Spec
INVARIANTS
  ExchangeInv
  NoMisread
  UploadTruth
PROPERTIES
  ResumeExact
  PromptReturns
  UploadEnds
CHECK_DEADLOCK FALSE
