\* Two jobs of one chat.
SPECIFICATION Spec
CONSTANTS
  a1 = a1  a2 = a2  a3 = a3  bad = bad  chatA = chatA
  Jobs = {a1, a2}
  Chats = {chatA}
  ChatOf <- ChatOfMC
  None = None
  Cap = 2
PROPERTIES QueuedIsProcessed
\* Every job is settled in the end.
CHECK_DEADLOCK FALSE
