SPECIFICATION Spec
CONSTANTS
    nothing = nothing
    Nothing = nothing
    None = None
    Machines <- MCMachines
    Caller <- MCCaller
    Serves <- MCServes
    Picks = {"auto", "vulkan"}
    Files = 1
INVARIANTS EngineInv
PROPERTIES  Settles
