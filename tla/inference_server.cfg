SPECIFICATION Spec
CONSTANTS
    None = None
    Pid = {1, 2}
    Caller = {1, 2}
    Daemon <- MCDaemon
    Request = {r1, r2}
    Model = {m1, m2}
    Faults = {"crash", "daemon", "slow"}
    r1 = r1
    r2 = r2
    m1 = m1
    m2 = m2
SYMMETRY Symmetry
INVARIANTS ServerInv
PROPERTIES StopMeansStopped ReadyIsLoaded
