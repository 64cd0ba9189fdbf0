-------------------------------- MODULE Tools --------------------------------
(***************************************************************************)
(* A tool call of the host: plugin.go's CallTool, execSendFile and           *)
(* execSendText, tools/send_file.go, tools/send_text.go and the file half of *)
(* bot/file.go.  The run that calls has a tape (module TapeNames) and, when  *)
(* a message of Feishu started it, the context of its job; a run of the      *)
(* host's cron has none and must name a chat.  Calls share nothing but the   *)
(* routing table, so there is one at a time.                                 *)
(*                                                                           *)
(* A text is delivered in one step here; its requests are module Sender.     *)
(* What a model may write as arguments is free.                              *)
(***************************************************************************)
EXTENDS TapeNames

CONSTANTS BotChats  \* the chats that have a bot

ASSUME ToolsAssumption == BotChats \subseteq ChatIDs

VARIABLES ctx,      \* the context of the run: ContextJSON
          routed,   \* Plugin.routing: the chats with a route
          call,     \* the request
          stage,    \* where the call is
          jobBot,   \* whether execSendText found the bot of the context's chat
          dest,     \* the chat the call has chosen
          sent,     \* what Feishu shows of the call
          result    \* what CallTool answers

toolVars == <<vars, ctx, routed, call, stage, jobBot, dest, sent, result>>

Chat == ChatIDs \cup {"none"}
NoContext == [chat |-> "none", inThread |-> FALSE]
NoTape == <<>>

\* tape_name: the run's own tape, the tape of another chat, one that names no chat.
TapeArgs == {NoTape, tape, <<"feishu", "p2p", "none">>, <<"web", "main">>}
              \cup {TapeNameForP2P(c) : c \in ChatIDs}

\* json: the arguments can be parsed; filled: a text, or a path without content_base64.
Requests == [tool : {"text", "file", "unknown"}, tape : TapeArgs, chat : Chat,
             json : BOOLEAN, filled : BOOLEAN, caption : BOOLEAN]

NoCall == [tool |-> "none", tape |-> NoTape, chat |-> "none",
           json |-> TRUE, filled |-> FALSE, caption |-> FALSE]

ToolsTypeOK ==
  /\ ctx \in [chat : Chat, inThread : BOOLEAN]
  /\ routed \subseteq BotChats
  /\ stage \in {"none", "called", "choosing", "elsewhere", "captioning", "checking",
                "uploading", "sending", "done"}
  /\ jobBot \in BOOLEAN
  /\ dest \in Chat
  /\ sent \subseteq [kind : {"text", "caption", "file"}, chat : BotChats, inThread : BOOLEAN]
  /\ result \in {"none", "ok", "error"}
  /\ result = "none" <=> stage # "done"

ToolsInit == /\ Init
             /\ ctx \in {NoContext} \cup [chat : {job.chat} \cap BotChats, inThread : BOOLEAN]
             /\ ctx # NoContext /\ job.kind = "group" => (ctx.inThread <=> job.thread # "none")
             /\ routed \in SUBSET BotChats
             /\ ctx.chat \in routed \cup {"none"}
             /\ call = NoCall /\ stage = "none" /\ jobBot = FALSE
             /\ dest = "none" /\ sent = {} /\ result = "none"
-----------------------------------------------------------------------------
(* Steps that several places take *)

\* The id ExtractChatIDFromTape makes of a tape_name, "none" when it is empty.
IdOfTape(t) == LET id == ExtractChatIDFromTape(t) IN IF id = <<>> THEN "none" ELSE id[1]

\* GetBotForChat finds the route, or searches and registers it; a search may fail.
FindsBot(c) == /\ c \in routed \cup BotChats
               /\ routed' = routed \cup {c}

FindsNoBot(c) == c \notin routed /\ UNCHANGED routed

Fails == /\ stage' = "done"
         /\ result' = "error"
         /\ UNCHANGED <<vars, ctx, call, jobBot, dest>>

\* A request to Feishu; one that ends in an error may have been carried out.
Shows(kind, chat, inThread) ==
  sent' = sent \cup {[kind |-> kind, chat |-> chat, inThread |-> inThread]}

Delivers(kind, chat, inThread) ==
  /\ Shows(kind, chat, inThread)
  /\ stage' = "done"
  /\ result' = "ok"
  /\ UNCHANGED <<vars, ctx, routed, call, jobBot, dest>>

FailsToDeliver(kind, chat, inThread) == /\ Shows(kind, chat, inThread) \/ UNCHANGED sent
                                        /\ UNCHANGED routed
                                        /\ Fails
-----------------------------------------------------------------------------
(* CallTool *)

CallTool == /\ stage = "none"
            /\ \E r \in Requests : call' = r
            /\ stage' = "called"
            /\ UNCHANGED <<vars, ctx, routed, jobBot, dest, sent, result>>

UnknownTool == /\ stage = "called" /\ call.tool = "unknown"
               /\ UNCHANGED <<routed, sent>>
               /\ Fails
-----------------------------------------------------------------------------
(* feishuSendText *)

\* execSendText: the bot of the context's chat, if there is one to be found.
FindJobBot == /\ stage = "called" /\ call.tool = "text"
              /\ \/ /\ ctx # NoContext /\ FindsBot(ctx.chat)
                    /\ jobBot' = TRUE
                 \/ /\ ctx = NoContext \/ ctx.chat \notin routed
                    /\ UNCHANGED <<routed, jobBot>>
              /\ stage' = "choosing"
              /\ UNCHANGED <<vars, ctx, call, dest, sent, result>>

NamesTape == call.tape # NoTape
NamesChat == call.chat # "none"

\* No JSON, no text; a chat named in a job; both or no names, or no chat in the tape.
RejectText == /\ stage = "choosing"
              /\ \/ ~call.json \/ ~call.filled
                 \/ jobBot /\ (NamesTape \/ NamesChat)
                 \/ ~jobBot /\ (NamesTape <=> NamesChat)
                 \/ ~jobBot /\ NamesTape /\ IdOfTape(call.tape) = "none"
              /\ UNCHANGED <<routed, sent>>
              /\ Fails

TextAccepted == stage = "choosing" /\ call.json /\ call.filled

SendInJob == /\ TextAccepted
             /\ jobBot /\ ~NamesTape /\ ~NamesChat
             /\ \/ Delivers("text", ctx.chat, ctx.inThread)
                \/ FailsToDeliver("text", ctx.chat, ctx.inThread)

\* Mutant: arguments are preferred to the job.
ChooseBeforeJob == /\ TextAccepted
                   /\ NamesTape # NamesChat
                   /\ dest' = IF NamesTape THEN IdOfTape(call.tape) ELSE call.chat
                   /\ dest' # "none"
                   /\ stage' = "elsewhere"
                   /\ UNCHANGED <<vars, ctx, routed, call, jobBot, sent, result>>

\* Without a bot for the context's chat the arguments decide, as without a context.
ChooseElsewhere == /\ TextAccepted
                   /\ ~jobBot /\ NamesTape # NamesChat
                   /\ dest' = IF NamesTape THEN IdOfTape(call.tape) ELSE call.chat
                   /\ dest' # "none"
                   /\ stage' = "elsewhere"
                   /\ UNCHANGED <<vars, ctx, routed, call, jobBot, sent, result>>

SendElsewhere == /\ stage = "elsewhere"
                 /\ \/ /\ FindsBot(dest)
                       /\ \/ /\ Shows("text", dest, FALSE)
                             /\ stage' = "done" /\ result' = "ok"
                             /\ UNCHANGED <<vars, ctx, call, jobBot, dest>>
                          \/ /\ Shows("text", dest, FALSE) \/ UNCHANGED sent
                             /\ Fails
                    \/ FindsNoBot(dest) /\ UNCHANGED sent /\ Fails
-----------------------------------------------------------------------------
(* feishuSendFile *)

\* Mutant: the argument before the tape.
FileDestOfArgs == IF ctx # NoContext THEN ctx.chat
                  ELSE IF ~call.json THEN "none"
                  ELSE IF NamesChat THEN call.chat ELSE IdOfTape(call.tape)

\* execSendFile: the context's chat, else a tape that names one, else the argument.
FileDest == IF ctx # NoContext THEN ctx.chat
            ELSE IF ~call.json THEN "none"
            ELSE IF IdOfTape(call.tape) # "none" THEN IdOfTape(call.tape)
            ELSE call.chat

\* Then the bot of the chat, and ExecuteSendFile's look at the arguments.
FindFileBot == /\ stage = "called" /\ call.tool = "file"
               /\ FileDest # "none" /\ FindsBot(FileDest)
               /\ call.json /\ call.filled
               /\ dest' = FileDest
               /\ stage' = IF call.caption THEN "captioning" ELSE "checking"
               /\ UNCHANGED <<vars, ctx, call, jobBot, sent, result>>

RejectFile == /\ stage = "called" /\ call.tool = "file"
              /\ \/ FileDest = "none" /\ UNCHANGED routed
                 \/ FindsNoBot(FileDest)
                 \/ (~call.json \/ ~call.filled) /\ FileDest # "none" /\ FindsBot(FileDest)
              /\ UNCHANGED sent
              /\ Fails

\* The caption goes to the chat, not to the thread, and its error is dropped.
SendCaption == /\ stage = "captioning"
               /\ Shows("caption", dest, FALSE) \/ UNCHANGED sent
               /\ stage' = "checking"
               /\ UNCHANGED <<vars, ctx, routed, call, jobBot, dest, result>>

\* Outside the root, not there, a directory, too large or not readable.
CheckPath == /\ stage = "checking"
             /\ \/ /\ stage' = "uploading"
                   /\ UNCHANGED <<vars, ctx, routed, call, jobBot, dest, sent, result>>
                \/ UNCHANGED <<routed, sent>> /\ Fails

Upload == /\ stage = "uploading"
          /\ \/ /\ stage' = "sending"
                /\ UNCHANGED <<vars, ctx, routed, call, jobBot, dest, sent, result>>
             \/ UNCHANGED <<routed, sent>> /\ Fails

\* Mutant: the error of the second request is dropped.
SendFileUnchecked == /\ stage = "sending"
                     /\ Shows("file", dest, ctx.inThread) \/ UNCHANGED sent
                     /\ stage' = "done" /\ result' = "ok"
                     /\ UNCHANGED <<vars, ctx, routed, call, jobBot, dest>>

SendFileForJob == /\ stage = "sending"
                  /\ \/ Delivers("file", dest, ctx.inThread)
                     \/ FailsToDeliver("file", dest, ctx.inThread)
-----------------------------------------------------------------------------
(* Around the call *)

HostStartsSubagent == /\ stage = "none"
                      /\ Subagent
                      /\ UNCHANGED <<ctx, routed, call, stage, jobBot, dest, sent, result>>

\* The plugin starts anew between two calls of a run: the table is empty.
PluginRestarts == /\ stage = "none" /\ routed # {}
                  /\ routed' = {}
                  /\ UNCHANGED <<vars, ctx, call, stage, jobBot, dest, sent, result>>

\* The run goes on and may call again.
RunGoesOn == /\ stage = "done"
             /\ stage' = "none" /\ call' = NoCall /\ jobBot' = FALSE
             /\ dest' = "none" /\ sent' = {} /\ result' = "none"
             /\ UNCHANGED <<vars, ctx, routed>>

SendText == FindJobBot \/ RejectText \/ SendInJob \/ ChooseElsewhere \/ SendElsewhere

SendFile == \/ FindFileBot \/ RejectFile \/ SendCaption \/ CheckPath \/ Upload
            \/ SendFileForJob

ToolsNext == \/ CallTool \/ UnknownTool \/ SendText \/ SendFile
             \/ RunGoesOn \/ HostStartsSubagent \/ PluginRestarts

ToolsSpec == ToolsInit /\ [][ToolsNext]_toolVars
-----------------------------------------------------------------------------
(* Properties *)

\* A call in a job's run shows nothing outside the job's chat, whatever its arguments name,
\* unless it is a text and no bot was found for that chat (plugin.go:421-480,
\* send_text.go:104-127: the arguments then decide, as without a job).
JobToolsStayInChat ==
  ctx # NoContext /\ (call.tool = "text" => jobBot) =>
    \A s \in sent : s.chat = job.chat

\* A call of a run without context that names the run's own tape reaches the chat of the
\* tape's conversation and no other, also from a subagent and when an argument names
\* another chat (plugin.go:430-441, send_text.go:133-152).
OwnTapeIsReached ==
  ctx = NoContext /\ call.tape = tape => \A s \in sent : s.chat = job.chat

\* A call that succeeds has shown its text, or its file and not only the caption, and all it
\* showed is in one chat (file.go:187-197).  The caption may be missing: the error of its
\* request is dropped (send_file.go:73).
OkMeansShown ==
  result = "ok" => /\ \E s \in sent : s.kind = call.tool
                   /\ \A s, t \in sent : s.chat = t.chat
=============================================================================
