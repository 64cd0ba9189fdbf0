\* One send by every function, every answer of Feishu to every request.
SPECIFICATION Spec
CONSTANTS
  MaxSendRetries = 3
INVARIANTS JobReplyShownOnce SuccessIsShown ErrorsAreFinal
PROPERTIES RequestsRunOut
\* One send, then rest.
CHECK_DEADLOCK FALSE
