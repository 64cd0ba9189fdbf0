\* Every event up to twice, no approvals.
SPECIFICATION Spec
CONSTANTS
  botA = botA  botB = botB  group = group  solo = solo  dm = dm  admin = admin  user = user
  k1 = k1  k2 = k2  k3 = k3
  None = None
  Denied = Denied
  All = All
  Messages = {1, 2}
  Msg <- CallTwice
  Bots = {botA, botB}
  Chats = {group, solo}
  Groups = {group, solo}
  Users = {admin, user}
  InChat <- InChatMC
  GroupEnabled = {botA, botB}
  KnownID = {botA, botB}
  AllowFrom <- AnyoneTo
  ApproverOf <- ApproverOfA
  Calls = {}
  TapeChat <- TapeChatMC
  MaxDeliveries = 2
INVARIANTS OneJobPerMessage
PROPERTIES CalledIsQueued
\* Every delivery is handled and every job answered in the end.
CHECK_DEADLOCK FALSE
