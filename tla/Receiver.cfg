\* Three messages and three approval requests.
SPECIFICATION Spec
CONSTANTS
  botA = botA  botB = botB  group = group  solo = solo  dm = dm  admin = admin  user = user
  k1 = k1  k2 = k2  k3 = k3
  None = None
  Denied = Denied
  All = All
  Messages = {1, 2, 3}
  Msg <- Mixed
  Bots = {botA, botB}
  Chats = {group, dm}
  Groups = {group}
  Users = {admin, user}
  InChat <- InChatMC
  GroupEnabled = {botA, botB}
  KnownID = {botA, botB}
  AllowFrom <- AnyoneTo
  ApproverOf <- ApproverOfA
  Calls = {k1, k2, k3}
  TapeChat <- TapeChatMC
  MaxDeliveries = 1
INVARIANTS RoutesLeadIntoChats
PROPERTIES ReplyMeetsItsWait KeepsApprovals
\* Every delivery is handled and every job answered in the end.
CHECK_DEADLOCK FALSE
