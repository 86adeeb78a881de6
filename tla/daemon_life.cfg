CONSTANTS
    MaxCommands = 2
    MaxDaemons = 3
    UpTries = 1
    Faults = 2
SPECIFICATION LifeSpec
INVARIANTS LifeInv
PROPERTIES OkMeansSo NoRelaunch EverythingSettles
\* Commands and faults run out.
CHECK_DEADLOCK FALSE
