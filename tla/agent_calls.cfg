CONSTANTS
    gemma = gemma
    qwen = qwen
    nothing = nothing
    Requests = 3
    Models = {gemma, qwen}
    Nothing = nothing
    Room = 1
    Faults = 2
SPECIFICATION Spec
INVARIANTS AgentInv OwnReply
PROPERTIES SessionIsNew EveryCallEnds
\* Requests run out, and a call may wait for a Pi that has nothing more to say.
CHECK_DEADLOCK FALSE
