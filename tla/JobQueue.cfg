\* Three jobs of one chat and one with an empty chat id.
SPECIFICATION Spec
CONSTANTS
  a1 = a1  a2 = a2  a3 = a3  bad = bad  chatA = chatA
  Jobs = {a1, a2, a3, bad}
  Chats = {chatA}
  ChatOf <- ChatOfMC
  None = None
  Cap = 2
INVARIANTS SerialPerChat MapMatchesWorkers OnlyIdleExitStrands QuietAfterShutdown
PROPERTIES IsSerialQueue ShutdownReturns QueuedIsSettled
\* Every job is settled in the end.
CHECK_DEADLOCK FALSE
