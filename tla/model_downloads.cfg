SPECIFICATION Spec
CONSTANTS
    QuantCount = 2
    None = None
    Bundled = {2}
    Caller <- MCCaller
    Serves <- MCServes
    Kept = 1
    Watched = {2}
INVARIANTS DownloadsInv CaughtUp NoCircle
