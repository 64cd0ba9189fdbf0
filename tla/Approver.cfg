\* Three requests and three messages; timers may fire or not.
SPECIFICATION Spec
CONSTANTS
  r1 = r1  r2 = r2  r3 = r3  m1 = m1  m2 = m2  m3 = m3  chatA = chatA  chatB = chatB
  Requests = {r1, r2, r3}
  Messages = {m1, m2, m3}
  Chats = {chatA, chatB}
  KeyOf <- KeyOfMC
  ChatOf <- ChatOfMC
  None = None
  Denied = Denied
INVARIANTS WaitMatchesCalls AnswerWasAddressed SwallowedOnlyWhenDecided
PROPERTIES EveryWaitEnds ReplyEndsWait KeepsApprovals
\* Every request is answered and every text handled in the end.
CHECK_DEADLOCK FALSE
