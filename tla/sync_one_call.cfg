SPECIFICATION FairSpec
CONSTANTS
  ana = ana
  bob = bob
  Device = {ana, bob}
  Initiator <- OneCall
  Saver = {s1}
  Session = {x, y}
  MaxRows <- Rows13
  MayRestart = {ana, bob}
  MaxDelta = 2
  WriteFaults = FALSE
  InitiatorStoreServed = TRUE
  None = None
INVARIANTS SuccessMeansSynced SessionsFollowChats
PROPERTIES EveryCallReturns
\* Calls and chats run out.
CHECK_DEADLOCK FALSE
