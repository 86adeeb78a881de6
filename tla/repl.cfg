CONSTANTS
    MaxInputs = 3
    MaxRuns = 2
    MaxFaults = 2
SPECIFICATION ReplSpec
INVARIANTS ReplInv AnswersWhatWasAsked
PROPERTIES EveryWaitEnds
\* Inputs and runs run out.
CHECK_DEADLOCK FALSE
