\* Private and group conversations with subagents; tool calls of any arguments.
SPECIFICATION ToolsSpec
CONSTANTS
  ChatIDs = {"oc_1", "oc_2"}
  ThreadIDs = {"omt_1", "subagent"}
  MaxDepth = 3
  BotChats = {"oc_1", "oc_2"}
INVARIANTS ApprovalReadsItsChat JobToolsStayInChat OwnTapeIsReached OkMeansShown
