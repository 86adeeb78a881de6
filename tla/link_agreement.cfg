SPECIFICATION FairSpec
CONSTANTS
    ana = ana
    bob = bob
    cyd = cyd
    j1 = j1
    None = None
    Device <- ThreeDevices
    Join <- OneJoin
    Codes <- FourCodes
    MaxTokens = 3
    OneJoinEach = TRUE
    MayRestart <- OnlyAna
INVARIANTS StaysWithdrawn OnlyByAgreement SuccessWasAccepted
PROPERTY EveryJoinReturns
\* Codes and joins run out.
CHECK_DEADLOCK FALSE
