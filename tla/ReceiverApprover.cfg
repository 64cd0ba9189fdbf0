\* The approver writes while a group's request waits.
SPECIFICATION Spec
CONSTANTS
  botA = botA  botB = botB  group = group  solo = solo  dm = dm  admin = admin  user = user
  k1 = k1  k2 = k2  k3 = k3
  None = None
  Denied = Denied
  All = All
  Messages = {1, 2}
  Msg <- AdminWrites
  Bots = {botA, botB}
  Chats = {group, dm}
  Groups = {group}
  Users = {admin, user}
  InChat <- InChatMC
  GroupEnabled = {botA, botB}
  KnownID = {botA, botB}
  AllowFrom <- AnyoneTo
  ApproverOf <- ApproverOfA
  Calls = {k3}
  TapeChat <- TapeChatMC
  MaxDeliveries = 1
PROPERTIES ApproverIsHeard
\* Every delivery is handled and every job answered in the end.
CHECK_DEADLOCK FALSE
