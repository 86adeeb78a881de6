SPECIFICATION FairSpec
CONSTANTS
  q4 = q4
  q8 = q8
  mtp = mtp
  own = own
  Download = {q4, q8}
  File = {mtp, own}
  Plan <- Plans
  Size <- Sizes
  Hashed = {mtp}
  Exact = {mtp}
  Retries = 2
  Corrupts = TRUE
  Buffer = 1
  MaxRuns <- Runs
  None = None
INVARIANTS CompleteIsRight FailsForAReason
PROPERTIES ImplementsBlobCache EveryDownloadEnds
\* Every download has been begun as often as the bound allows.
CHECK_DEADLOCK FALSE
