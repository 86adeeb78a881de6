SPECIFICATION Spec
CONSTANTS
  ana = ana
  bob = bob
  Device = {ana, bob}
  Initiator <- AnyTwo
  Saver = {s1}
  Session = {x}
  MaxRows <- Rows02
  MayRestart = {}
  MaxDelta = 2
  WriteFaults = TRUE
  InitiatorStoreServed = TRUE
  None = None
INVARIANTS NoChatSkipped
PROPERTIES ImplementsChatLog
CONSTRAINT TwoCallsMade
\* Calls and chats run out.
CHECK_DEADLOCK FALSE
