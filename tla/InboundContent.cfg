SPECIFICATION Spec
CONSTANTS
  MaxMessages = 2
  MaxDay = 2
  RetentionDays = 1
  Limits = {1, 7}
  MaxInt = 7
INVARIANTS TypeOK ToldFileIsKept ToldFileIsItsAttachment OnlyTheSenderCommands
CHECK_DEADLOCK FALSE
