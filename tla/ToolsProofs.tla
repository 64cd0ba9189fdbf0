----------------------------- MODULE ToolsProofs -----------------------------
(***************************************************************************)
(* Tapes lead back to their chats, and tool calls reach the chats they are   *)
(* for, for all ids, every depth of subagents and all arguments.  A tape is  *)
(* the name of the job's conversation with "subagent"s behind it             *)
(* (NameThenSubagents); a call at each of its stages has chosen the chat its *)
(* context, its tape or its arguments lead to (CallIsOnItsWay).              *)
(***************************************************************************)
EXTENDS Tools, TLAPS

Parts == ChatIDs \cup ThreadIDs \cup {"feishu", "p2p", "group", "main", "thread", "none", "subagent"}

\* A tape is the job's name and "subagent"s: what Subagent keeps.
NameThenSubagents ==
  /\ job \in P2P \cup Group
  /\ tape \in Seq(Parts)
  /\ Len(tape) >= Len(TapeName(job))
  /\ \A i \in 1 .. Len(tape) :
       tape[i] = IF i \in 1 .. Len(TapeName(job)) THEN TapeName(job)[i] ELSE "subagent"

\* Names and their parts (parser.go:213-216, group.go:87-95).
LEMMA JobType ==
  ASSUME TapeAssumption, NEW j \in P2P \cup Group
  PROVE  /\ j.chat \in Parts /\ j.chat \in ChatIDs /\ j.chat # "none" /\ j.chat # "subagent"
         /\ j.thread \in Parts
         /\ TapeName(j) \in Seq(Parts) /\ Len(TapeName(j)) \in {3, 4, 5}
<1>1. CASE j \in P2P
  <2>1. /\ j.kind = "p2p" /\ j.chat \in ChatIDs /\ j.thread = "none"
    BY <1>1 DEF P2P
  <2>2. /\ j.chat \in Parts /\ j.chat # "none" /\ j.chat # "subagent"
        /\ j.thread \in Parts
    BY <2>1 DEF TapeAssumption, Parts
  <2>3. TapeName(j) = <<"feishu", "p2p", j.chat>>
    BY <2>1 DEF TapeName, TapeNameForP2P
  <2>4. TapeName(j) \in Seq(Parts) /\ Len(TapeName(j)) = 3
    BY <2>2, <2>3 DEF Parts
  <2> QED BY <1>1, <2>1, <2>2, <2>4
<1>2. CASE j \in Group
  <2>1. /\ j.kind = "group" /\ j.chat \in ChatIDs /\ j.thread \in ThreadIDs \cup {"none"}
    BY <1>2 DEF Group
  <2>2. /\ j.chat \in Parts /\ j.chat # "none" /\ j.chat # "subagent"
        /\ j.thread \in Parts
    BY <2>1 DEF TapeAssumption, Parts
  <2>3. \/ TapeName(j) = <<"feishu", "group", j.chat, "main">>
        \/ TapeName(j) = <<"feishu", "group", j.chat, "thread", j.thread>>
    BY <2>1 DEF TapeName, TapeNameForGroup
  <2>4. {"feishu", "group", "main", "thread", j.chat, j.thread} \subseteq Parts
    BY <2>2 DEF Parts
  <2>5. CASE TapeName(j) = <<"feishu", "group", j.chat, "main">>
    <3>1. TapeName(j) \in Seq(Parts) /\ Len(TapeName(j)) = 4
      BY <2>4, <2>5
    <3> QED BY <1>2, <2>1, <2>2, <3>1
  <2>6. CASE TapeName(j) = <<"feishu", "group", j.chat, "thread", j.thread>>
    <3>1. TapeName(j) \in Seq(Parts) /\ Len(TapeName(j)) = 5
      BY <2>4, <2>6
    <3> QED BY <1>2, <2>1, <2>2, <3>1
  <2> QED BY <2>3, <2>5, <2>6
<1> QED BY <1>1, <1>2

\* A job's tape has no subagents yet.
LEMMA InitNames == Init => NameThenSubagents
<1> SUFFICES ASSUME Init PROVE NameThenSubagents
  OBVIOUS
<1>1. TapeName(job) \in Seq(Parts)
  BY JobType, TapeAssumption DEF Init
<1> QED BY <1>1 DEF Init, NameThenSubagents

\* A subagent adds one part at the end.
LEMMA NextNames == NameThenSubagents /\ [Next]_vars => NameThenSubagents'
<1> SUFFICES ASSUME NameThenSubagents, [Next]_vars PROVE NameThenSubagents'
  OBVIOUS
<1>1. CASE Subagent
  <2> DEFINE base == TapeName(job)
  <2>1. Len(base) \in Nat
    BY JobType, TapeAssumption DEF NameThenSubagents
  <2>2. job' = job /\ TapeName(job)' = base
    BY <1>1 DEF Subagent, TapeName, TapeNameForP2P, TapeNameForGroup
  <2>3. /\ tape' \in Seq(Parts) /\ Len(tape') = Len(tape) + 1
        /\ tape'[Len(tape) + 1] = "subagent"
        /\ \A i \in 1 .. Len(tape) : tape'[i] = tape[i]
    BY <1>1 DEF Subagent, NameThenSubagents, Parts
  <2> HIDE DEF base
  <2>4. Len(tape) \in Nat /\ Len(tape) >= Len(base)
    BY DEF NameThenSubagents, base
  <2>5. \A i \in 1 .. Len(tape) :
          tape[i] = IF i \in 1 .. Len(base) THEN base[i] ELSE "subagent"
    BY DEF NameThenSubagents, base
  <2>6. \A i \in 1 .. Len(tape') :
          tape'[i] = IF i \in 1 .. Len(base) THEN base[i] ELSE "subagent"
    BY <2>1, <2>3, <2>4, <2>5
  <2>7. Len(tape') >= Len(base)
    BY <2>1, <2>3, <2>4
  <2> QED BY <2>2, <2>3, <2>6, <2>7 DEF NameThenSubagents, base
<1>2. CASE UNCHANGED vars
  BY <1>2 DEF vars, NameThenSubagents, TapeName, TapeNameForP2P, TapeNameForGroup
<1> QED BY <1>1, <1>2 DEF Next

\* Stripping leaves the first part when only "subagent"s follow it.
LEMMA StripLeavesTheFirst ==
  ASSUME NEW S, NEW t \in Seq(S), Len(t) > 0, \A i \in 2 .. Len(t) : t[i] = "subagent"
  PROVE  StripDMRSubagentChildTapeSuffix(t) = <<t[1]>>
<1>1. 1 \in 1 .. Len(t)
  OBVIOUS
<1>2. \A n \in 1 .. Len(t) : n = 1 \/ t[n] # "subagent" => n = 1
  OBVIOUS
<1>3. \A i \in 1 + 1 .. Len(t) : t[i] = "subagent"
  OBVIOUS
<1>4. StrippedLen(t) = 1
  BY <1>1, <1>2, <1>3 DEF StrippedLen
<1>5. SubSeq(t, 1, 1) = <<t[1]>>
  <2> DEFINE first == SubSeq(t, 1, 1)
  <2>1. first \in Seq(S) /\ Len(first) = 1 /\ first[1] = t[1]
    BY <1>1
  <2> HIDE DEF first
  <2>2. first = <<t[1]>>
    BY <2>1
  <2> USE DEF first
  <2> QED BY <2>2
<1> QED BY <1>4, <1>5 DEF StripDMRSubagentChildTapeSuffix

\* The tapes of private chats (parser.go:198-229, send_text.go:173-185).
LEMMA PrivateTapes ==
  ASSUME TapeAssumption, NameThenSubagents, job \in P2P
  PROVE  ApprovalReadsItsChat /\ ToolsAgreeWithApprovals
<1> DEFINE tail == Tail3(tape)
<1>1. /\ TapeName(job) = <<"feishu", "p2p", job.chat>>
      /\ job.kind = "p2p" /\ job.chat \in Parts /\ job.chat # "none"
  BY JobType DEF NameThenSubagents, TapeName, TapeNameForP2P, P2P
<1>2. /\ tape \in Seq(Parts) /\ Len(tape) \in Nat /\ Len(tape) > 2
      /\ tape[1] = "feishu" /\ tape[2] = "p2p" /\ tape[3] = job.chat
      /\ \A i \in 4 .. Len(tape) : tape[i] = "subagent"
  BY <1>1 DEF NameThenSubagents
<1>3. /\ tail \in Seq(Parts) /\ Len(tail) = Len(tape) - 2
      /\ \A i \in 1 .. Len(tail) : tail[i] = tape[i + 2]
  BY <1>2 DEF Tail3
<1>4. StripDMRSubagentChildTapeSuffix(tail) = <<job.chat>>
  <2>1. \A i \in 2 .. Len(tail) : tail[i] = "subagent"
    BY <1>2, <1>3
  <2>2. Len(tail) > 0 /\ tail[1] = job.chat
    BY <1>2, <1>3
  <2> HIDE DEF tail
  <2> QED BY <1>3, <2>1, <2>2, StripLeavesTheFirst
<1>5. P2PChatIDFromTape(tape) = <<job.chat>>
  BY <1>1, <1>2, <1>4 DEF P2PChatIDFromTape, HasPrefix
<1>6. resolveApprovalChatID(tape) = [chat |-> <<job.chat>>, isGroup |-> FALSE]
  BY <1>5 DEF resolveApprovalChatID
<1>7. ExtractChatIDFromTape(tape) = <<job.chat>>
  <2>1. CASE Len(tape) > 3
    BY <1>1, <1>2, <2>1 DEF ExtractChatIDFromTape, HasPrefix
  <2>2. CASE Len(tape) = 3
    <3>1. Len(tail) = 1 /\ tail[1] = job.chat
      BY <1>2, <1>3, <2>2
    <3>2. tail = <<job.chat>>
      BY <1>3, <3>1
    <3> QED BY <1>2, <2>2, <3>2 DEF ExtractChatIDFromTape, HasPrefix
  <2>3. Len(tape) \in Nat /\ Len(tape) > 2
    BY <1>2
  <2>4. \A n \in Nat : n > 2 => n > 3 \/ n = 3
    OBVIOUS
  <2>5. Len(tape) > 3 \/ Len(tape) = 3
    BY <2>3, <2>4
  <2> QED BY <2>1, <2>2, <2>5
<1>8. [chat |-> <<job.chat>>, isGroup |-> job.kind = "group"]
        = [chat |-> <<job.chat>>, isGroup |-> FALSE]
  <2>1. (job.kind = "group") = FALSE
    BY <1>1
  <2> QED BY <2>1, Zenon
<1>9. ToolsAgreeWithApprovals
  BY <1>6, <1>7 DEF ToolsAgreeWithApprovals
<1> QED BY <1>6, <1>8, <1>9 DEF ApprovalReadsItsChat

\* The tapes of groups (parser.go:248-277, send_text.go:187-199).
LEMMA GroupTapes ==
  ASSUME TapeAssumption, NameThenSubagents, job \in Group
  PROVE  ApprovalReadsItsChat /\ ToolsAgreeWithApprovals
<1>1. job.kind = "group" /\ job.chat \in ChatIDs /\ job.chat # "none" /\ Len(TapeName(job)) \in {4, 5}
      /\ TapeName(job)[1] = "feishu" /\ TapeName(job)[2] = "group" /\ TapeName(job)[3] = job.chat
  BY JobType DEF NameThenSubagents, TapeName, TapeNameForGroup, Group
<1>2. /\ tape \in Seq(Parts) /\ Len(tape) > 3
      /\ tape[1] = "feishu" /\ tape[2] = "group" /\ tape[3] = job.chat
  <2>1. Len(TapeName(job)) = 4 \/ Len(TapeName(job)) = 5
    BY <1>1
  <2>2. tape \in Seq(Parts) /\ Len(tape) \in Nat /\ Len(tape) >= Len(TapeName(job))
    BY DEF NameThenSubagents
  <2>3. \A i \in 1 .. 3 : i \in 1 .. Len(tape) /\ i \in 1 .. Len(TapeName(job))
    BY <2>1, <2>2
  <2>4. \A i \in 1 .. 3 : tape[i] = TapeName(job)[i]
    BY <2>3 DEF NameThenSubagents
  <2>5. Len(tape) > 3
    <3>1. \A n, m \in Nat : (m = 4 \/ m = 5) /\ n >= m => n > 3
      OBVIOUS
    <3>2. Len(TapeName(job)) \in Nat
      BY <2>1
    <3> QED BY <2>1, <2>2, <3>1, <3>2
  <2>6. tape[1] = TapeName(job)[1] /\ tape[2] = TapeName(job)[2] /\ tape[3] = TapeName(job)[3]
    BY <2>4
  <2> QED BY <1>1, <2>2, <2>5, <2>6
<1>3. P2PChatIDFromTape(tape) = <<>> /\ GroupChatIDFromTape(tape) = <<job.chat>>
  BY <1>1, <1>2 DEF P2PChatIDFromTape, GroupChatIDFromTape, HasPrefix
<1>4. resolveApprovalChatID(tape) = [chat |-> <<job.chat>>, isGroup |-> TRUE]
  BY <1>3 DEF resolveApprovalChatID
<1>5. ExtractChatIDFromTape(tape) = <<job.chat>>
  BY <1>1, <1>2 DEF ExtractChatIDFromTape, HasPrefix
<1>6. [chat |-> <<job.chat>>, isGroup |-> job.kind = "group"]
        = [chat |-> <<job.chat>>, isGroup |-> TRUE]
  <2>1. (job.kind = "group") = TRUE
    BY <1>1
  <2> QED BY <2>1, Zenon
<1>7. ToolsAgreeWithApprovals
  BY <1>4, <1>5 DEF ToolsAgreeWithApprovals
<1> QED BY <1>4, <1>6, <1>7 DEF ApprovalReadsItsChat

-----------------------------------------------------------------------------
(* Tool calls *)

\* A file's call that has its destination.
FileStages == {"captioning", "checking", "uploading", "sending"}

\* The context of a run is that of the job that started it.
ContextIsOfTheJob == ctx # NoContext => ctx.chat = job.chat

\* What a call knows and has shown at each of its stages.
CallIsOnItsWay ==
  /\ stage \in {"none", "called", "choosing", "elsewhere", "captioning"} => sent = {}
  /\ stage \in {"choosing", "elsewhere"} => call.tool = "text"
  /\ stage = "elsewhere" =>
       /\ ~jobBot
       /\ dest = IF NamesTape THEN IdOfTape(call.tape) ELSE call.chat
  /\ stage \in FileStages =>
       /\ call.tool = "file" /\ dest = FileDest /\ dest # "none"
       /\ \A s \in sent : s.chat = dest
  /\ jobBot => ctx # NoContext
  /\ result = "ok" => stage = "done"

\* The inductive invariant.
ToolsInv == /\ NameThenSubagents /\ ContextIsOfTheJob /\ CallIsOnItsWay
            /\ JobToolsStayInChat /\ OwnTapeIsReached /\ OkMeansShown

\* The id read from the run's own tape is the chat of its job (send_text.go:167-199).
LEMMA OwnTapeLeadsBack ==
  NameThenSubagents => tape # NoTape /\ IdOfTape(tape) = job.chat /\ job.chat # "none"
<1> SUFFICES ASSUME NameThenSubagents
             PROVE  tape # NoTape /\ IdOfTape(tape) = job.chat /\ job.chat # "none"
  OBVIOUS
<1>1. job.chat \in ChatIDs /\ job.chat # "none" /\ Len(TapeName(job)) \in {3, 4, 5}
  BY JobType, TapeAssumption DEF NameThenSubagents
<1>2. tape # <<>>
  <2>1. Len(tape) \in Nat /\ Len(tape) >= Len(TapeName(job)) BY DEF NameThenSubagents
  <2>2. \A n \in Nat, l \in {3, 4, 5} : n >= l => n # 0 OBVIOUS
  <2>3. Len(tape) # 0 BY <1>1, <2>1, <2>2
  <2> QED BY <2>3
<1>3. ApprovalReadsItsChat /\ ToolsAgreeWithApprovals
  BY PrivateTapes, GroupTapes, TapeAssumption DEF NameThenSubagents
<1>4. ExtractChatIDFromTape(tape) = <<job.chat>>
  BY <1>3 DEF ApprovalReadsItsChat, ToolsAgreeWithApprovals
<1> QED BY <1>1, <1>2, <1>4 DEF IdOfTape, NoTape

\* Before the first call nothing is shown (plugin.go:357).
LEMMA ToolsInitInv == ToolsInit => ToolsInv
<1> SUFFICES ASSUME ToolsInit PROVE ToolsInv
  OBVIOUS
<1>1. NameThenSubagents BY InitNames DEF ToolsInit
<1>2. ContextIsOfTheJob BY DEF ToolsInit, ContextIsOfTheJob
<1>3. CallIsOnItsWay BY DEF ToolsInit, CallIsOnItsWay, FileStages
<1> QED BY <1>1, <1>2, <1>3
        DEF ToolsInit, ToolsInv, JobToolsStayInChat, OwnTapeIsReached, OkMeansShown

\* Every step of a call keeps the invariant (plugin.go:357-480, send_text.go:86-165, send_file.go:47-124).
LEMMA ToolsNextInv == ToolsInv /\ [ToolsNext]_toolVars => ToolsInv'
<1> SUFFICES ASSUME ToolsInv, [ToolsNext]_toolVars PROVE ToolsInv'
  OBVIOUS
<1> USE DEF ToolsInv
<1>1. NameThenSubagents'
  <2>1. [Next]_vars
    BY DEF Next, ToolsNext, toolVars, CallTool, UnknownTool, SendText, SendFile, RunGoesOn,
           HostStartsSubagent, PluginRestarts, FindJobBot, RejectText, SendInJob, ChooseElsewhere,
           SendElsewhere, FindFileBot, RejectFile, SendCaption, CheckPath, Upload, SendFileForJob,
           Fails, Delivers, FailsToDeliver
  <2> QED BY <2>1, NextNames
<1>2. UNCHANGED <<ctx, job>>
  BY DEF vars, ToolsNext, toolVars, CallTool, UnknownTool, SendText, SendFile, RunGoesOn,
         HostStartsSubagent, Subagent, PluginRestarts, FindJobBot, RejectText, SendInJob,
         ChooseElsewhere, SendElsewhere, FindFileBot, RejectFile, SendCaption, CheckPath, Upload,
         SendFileForJob, Fails, Delivers, FailsToDeliver
<1>3. ContextIsOfTheJob' BY <1>2 DEF ContextIsOfTheJob, NoContext
<1> SUFFICES (CallIsOnItsWay /\ JobToolsStayInChat /\ OwnTapeIsReached /\ OkMeansShown)'
  BY <1>1, <1>3
<1>4. CASE CallTool
  BY <1>2, <1>4 DEF CallTool, CallIsOnItsWay, FileStages, JobToolsStayInChat, OwnTapeIsReached,
                    OkMeansShown
<1>5. CASE RunGoesOn
  BY <1>2, <1>5 DEF RunGoesOn, CallIsOnItsWay, FileStages, JobToolsStayInChat, OwnTapeIsReached,
                    OkMeansShown
<1>6. CASE HostStartsSubagent
  BY <1>2, <1>6 DEF HostStartsSubagent, CallIsOnItsWay, FileStages, JobToolsStayInChat,
                    OwnTapeIsReached, OkMeansShown
<1>7. CASE UNCHANGED <<tape, call, stage, jobBot, dest, sent, result>>
  BY <1>2, <1>7 DEF CallIsOnItsWay, FileStages, FileDest, NamesTape, NamesChat, JobToolsStayInChat,
                    OwnTapeIsReached, OkMeansShown
<1>8. CASE FindJobBot
  BY <1>2, <1>8 DEF FindJobBot, vars, CallIsOnItsWay, FileStages, JobToolsStayInChat,
                    OwnTapeIsReached, OkMeansShown
\* A call that ends with an error and shows nothing more.
<1>9. CASE Fails /\ UNCHANGED sent
  BY <1>2, <1>9 DEF Fails, vars, CallIsOnItsWay, FileStages, JobToolsStayInChat,
                    OwnTapeIsReached, OkMeansShown
<1>10. CASE SendInJob
  <2>1. stage = "choosing" /\ jobBot /\ ~NamesTape /\ sent = {} /\ ctx # NoContext
        /\ call.tool = "text"
    BY <1>10 DEF SendInJob, TextAccepted, CallIsOnItsWay
  <2>2. \/ sent' = {} \/ sent' = {[kind |-> "text", chat |-> job.chat, inThread |-> ctx.inThread]}
    BY <1>10, <2>1 DEF SendInJob, Delivers, FailsToDeliver, Shows, ContextIsOfTheJob
  <2>3. /\ UNCHANGED <<call, tape, jobBot, dest>> /\ stage' = "done"
        /\ result' = "ok" => sent' # {}
    BY <1>10, <2>1 DEF SendInJob, Delivers, FailsToDeliver, Shows, Fails, vars
  <2> QED BY <1>2, <2>1, <2>2, <2>3 DEF CallIsOnItsWay, FileStages, JobToolsStayInChat,
                                        OwnTapeIsReached, OkMeansShown
<1>11. CASE ChooseElsewhere
  BY <1>2, <1>11 DEF ChooseElsewhere, TextAccepted, vars, CallIsOnItsWay, FileStages, NamesTape,
                     NamesChat, JobToolsStayInChat, OwnTapeIsReached, OkMeansShown
<1>12. CASE SendElsewhere
  <2>1. stage = "elsewhere" /\ ~jobBot /\ sent = {} /\ call.tool = "text"
        /\ dest = (IF NamesTape THEN IdOfTape(call.tape) ELSE call.chat)
    BY <1>12 DEF SendElsewhere, CallIsOnItsWay
  <2>2. \/ sent' = {} \/ sent' = {[kind |-> "text", chat |-> dest, inThread |-> FALSE]}
    BY <1>12, <2>1 DEF SendElsewhere, Shows
  <2>3. /\ UNCHANGED <<call, tape, jobBot, dest>> /\ stage' = "done"
        /\ result' = "ok" => sent' # {}
    BY <1>12, <2>1 DEF SendElsewhere, Shows, Fails, vars
  <2>4. call.tape = tape => dest = job.chat
    BY <2>1, OwnTapeLeadsBack DEF NamesTape
  <2> QED BY <1>2, <2>1, <2>2, <2>3, <2>4 DEF CallIsOnItsWay, FileStages, JobToolsStayInChat,
                                              OwnTapeIsReached, OkMeansShown
<1>13. /\ ctx # NoContext => FileDest = job.chat
       /\ ctx = NoContext /\ call.tape = tape /\ FileDest # "none" => FileDest = job.chat
  BY OwnTapeLeadsBack DEF FileDest, ContextIsOfTheJob
<1>14. CASE FindFileBot
  BY <1>2, <1>14 DEF FindFileBot, vars, CallIsOnItsWay, FileStages, FileDest, NamesTape,
                     JobToolsStayInChat, OwnTapeIsReached, OkMeansShown
\* A step of a file's call: what it shows goes to dest, the chat of its context or its tape.
<1>15. ASSUME stage \in FileStages, UNCHANGED <<job, tape, ctx, call, jobBot, dest>>,
              \A s \in sent' : s \in sent \/ s.chat = dest,
              \/ stage' \in FileStages \ {"captioning"} /\ result' = result
              \/ stage' = "done" /\ result' = "error"
              \/ stage' = "done" /\ \E s \in sent' : s.kind = "file"
       PROVE  (CallIsOnItsWay /\ JobToolsStayInChat /\ OwnTapeIsReached /\ OkMeansShown)'
  <2>1. /\ call.tool = "file" /\ dest = FileDest /\ dest # "none"
        /\ \A s \in sent' : s.chat = dest
    BY <1>15 DEF CallIsOnItsWay
  <2>2. /\ ctx # NoContext => dest = job.chat
        /\ ctx = NoContext /\ call.tape = tape => dest = job.chat
    BY <1>13, <2>1
  <2>3. FileDest' = FileDest
    BY <1>15 DEF FileDest, NamesChat
  <2> QED BY <1>15, <2>1, <2>2, <2>3
          DEF CallIsOnItsWay, FileStages, JobToolsStayInChat, OwnTapeIsReached, OkMeansShown
<1>16. CASE SendCaption
  BY <1>15, <1>16 DEF SendCaption, Shows, vars, FileStages
<1>17. CASE CheckPath
  BY <1>15, <1>17 DEF CheckPath, Fails, vars, FileStages
<1>18. CASE Upload
  BY <1>15, <1>18 DEF Upload, Fails, vars, FileStages
<1>19. CASE SendFileForJob
  <2> DEFINE file == [kind |-> "file", chat |-> dest, inThread |-> ctx.inThread]
  <2>1. file.kind = "file" /\ file.chat = dest
    OBVIOUS
  <2> HIDE DEF file
  <2>2. /\ stage \in FileStages /\ UNCHANGED <<job, tape, ctx, call, jobBot, dest>>
        /\ stage' = "done"
        /\ \/ sent' = sent \cup {file}
           \/ result' = "error" /\ sent' = sent
        /\ result' \in {"ok", "error"}
    BY <1>19 DEF SendFileForJob, Delivers, FailsToDeliver, Shows, Fails, vars, FileStages, file
  <2> QED BY <1>15, <2>1, <2>2
<1>20. CASE UnknownTool \/ RejectText \/ RejectFile
  BY <1>9, <1>20 DEF UnknownTool, RejectText, RejectFile
<1>21. CASE PluginRestarts \/ UNCHANGED toolVars
  BY <1>7, <1>21 DEF PluginRestarts, toolVars, vars
<1> QED
  BY <1>4, <1>5, <1>6, <1>8, <1>10, <1>11, <1>12, <1>14, <1>16, <1>17, <1>18, <1>19, <1>20, <1>21
     DEF ToolsNext, SendText, SendFile

\* The inductive invariant holds for all arguments a model may write (plugin.go:357-480).
THEOREM ToolsInvariant == ToolsSpec => []ToolsInv
BY ToolsInitInv, ToolsNextInv, PTL DEF ToolsSpec

\* At any depth of subagents both readers of a tape, the approvals' and the tools', return the
\* chat of the job, and the approvals' its kind (plugin.go:320-332, parser.go:200-277, send_text.go:173-199).
THEOREM TapesLeadBack == ToolsSpec => [](ApprovalReadsItsChat /\ ToolsAgreeWithApprovals)
<1>1. NameThenSubagents => ApprovalReadsItsChat /\ ToolsAgreeWithApprovals
  BY PrivateTapes, GroupTapes, TapeAssumption DEF NameThenSubagents
<1> QED BY <1>1, ToolsInvariant, PTL DEF ToolsInv

\* A job's calls show nothing outside its chat, a text without its bot excepted (plugin.go:421-480).
THEOREM JobToolsStay == ToolsSpec => []JobToolsStayInChat
<1>1. ToolsInv => JobToolsStayInChat BY DEF ToolsInv
<1> QED BY <1>1, ToolsInvariant, PTL

\* A run that names its own tape reaches its own chat (plugin.go:430-441, send_text.go:133-152).
THEOREM OwnTapesAreReached == ToolsSpec => []OwnTapeIsReached
<1>1. ToolsInv => OwnTapeIsReached BY DEF ToolsInv
<1> QED BY <1>1, ToolsInvariant, PTL

\* A call that answers ok has shown its text or its file, and all it showed is in one chat
\* (file.go:187-197); a caption may be missing.
THEOREM OkCallsHaveShown == ToolsSpec => []OkMeansShown
<1>1. ToolsInv => OkMeansShown BY DEF ToolsInv
<1> QED BY <1>1, ToolsInvariant, PTL
-----------------------------------------------------------------------------
(* What a call has chosen is a chat with a bot, whatever its arguments are. *)

\* There is a request from CallTool to the end of the call.
CallWasAsked == /\ stage = "none" => call = NoCall
                /\ stage # "none" => call \in Requests

\* Contexts come from messages; a file's destination has a bot when it is chosen.
ChosenChatsHaveBots == /\ ctx # NoContext => ctx.chat \in BotChats
                       /\ stage \in FileStages => dest \in BotChats

TypesInv == ToolsTypeOK /\ CallWasAsked /\ ChosenChatsHaveBots

\* A tape name a model may write leads to a chat or to none (send_text.go:173-199).
LEMMA TapeArgsLeadToChats ==
  ASSUME NameThenSubagents, NEW t \in TapeArgs
  PROVE  IdOfTape(t) \in Chat
<1>1. CASE t = tape
  <2>1. IdOfTape(tape) = job.chat
    BY OwnTapeLeadsBack
  <2>2. job.chat \in ChatIDs
    BY JobType, TapeAssumption DEF NameThenSubagents
  <2> QED BY <1>1, <2>1, <2>2 DEF Chat
<1>2. ASSUME NEW c \in Chat, t = <<"feishu", "p2p", c>> PROVE IdOfTape(t) \in Chat
  <2>1. Len(t) = 3 /\ t \in Seq({"feishu", "p2p", c})
    BY <1>2
  <2>2. Tail3(t) = <<c>>
    <3> DEFINE last == SubSeq(t, 3, Len(t))
    <3>1. last \in Seq({"feishu", "p2p", c}) /\ Len(last) = 1 /\ last[1] = c
      BY <1>2, <2>1
    <3> HIDE DEF last
    <3>2. last = <<c>>
      BY <3>1
    <3> USE DEF last
    <3> QED BY <3>2 DEF Tail3
  <2>3. ExtractChatIDFromTape(t) = <<c>>
    BY <1>2, <2>1, <2>2 DEF ExtractChatIDFromTape, HasPrefix
  <2> QED BY <2>3 DEF IdOfTape
<1>3. CASE t = NoTape \/ t = <<"web", "main">>
  <2>1. ExtractChatIDFromTape(t) = <<>>
    BY <1>3 DEF ExtractChatIDFromTape, HasPrefix, NoTape
  <2> QED BY <2>1 DEF IdOfTape, Chat
<1> QED BY <1>1, <1>2, <1>3 DEF TapeArgs, TapeNameForP2P, Chat

LEMMA ToolsInitTypes == ToolsInit => TypesInv
<1> SUFFICES ASSUME ToolsInit PROVE TypesInv
  OBVIOUS
<1>1. job.chat \in ChatIDs
  BY DEF ToolsInit, Init, P2P, Group
<1>2. ctx \in [chat : Chat, inThread : BOOLEAN]
  <2>1. CASE ctx = NoContext
    BY <2>1 DEF NoContext, Chat
  <2>2. CASE ctx \in [chat : {job.chat} \cap BotChats, inThread : BOOLEAN]
    BY <1>1, <2>2 DEF Chat
  <2> QED BY <2>1, <2>2 DEF ToolsInit
<1>3. ctx # NoContext => ctx.chat \in BotChats
  BY DEF ToolsInit
<1> QED BY <1>2, <1>3, ToolsAssumption
        DEF ToolsInit, TypesInv, ToolsTypeOK, CallWasAsked, ChosenChatsHaveBots, FileStages, Chat

LEMMA ToolsNextTypes == ToolsInv /\ TypesInv /\ [ToolsNext]_toolVars => TypesInv'
<1> SUFFICES ASSUME ToolsInv, TypesInv, [ToolsNext]_toolVars PROVE TypesInv'
  OBVIOUS
<1> USE ToolsAssumption DEF TypesInv, ToolsTypeOK, CallWasAsked, ChosenChatsHaveBots, FileStages
<1>1. NoCall.tape = NoTape /\ NoTape \in TapeArgs /\ NoTape \in TapeArgs'
  BY DEF NoCall, TapeArgs
<1>2. CASE CallTool
  <2>1. call' \in Requests'
    BY <1>2 DEF CallTool, Requests, TapeArgs, vars
  <2> QED BY <1>2, <2>1 DEF CallTool, vars
<1>3. CASE RunGoesOn
  BY <1>3 DEF RunGoesOn, Chat, vars
<1>4. CASE HostStartsSubagent
  BY <1>4 DEF HostStartsSubagent
\* Past CallTool the tape does not change, and so neither do the requests there are.
<1>5. ASSUME stage # "none", stage' # "none", UNCHANGED <<tape, ctx, call>>,
             dest' \in Chat, jobBot' \in BOOLEAN, routed' \subseteq BotChats,
             sent' \subseteq [kind : {"text", "caption", "file"}, chat : BotChats, inThread : BOOLEAN],
             \/ stage' = "done" /\ result' \in {"ok", "error"}
             \/ stage' \in {"called", "choosing", "elsewhere"} /\ result' = "none"
             \/ stage' \in FileStages /\ result' = "none" /\ dest' \in BotChats
      PROVE TypesInv'
  <2>1. Requests' = Requests
    BY <1>5 DEF Requests, TapeArgs
  <2> QED BY <1>5, <2>1
<1>6. ASSUME NEW c, FindsBot(c) PROVE c \in BotChats /\ routed' \subseteq BotChats
  BY <1>6 DEF FindsBot
<1>7. ASSUME NEW kind \in {"text", "caption", "file"}, NEW c \in BotChats, NEW th \in BOOLEAN,
             Shows(kind, c, th) \/ UNCHANGED sent
      PROVE sent' \subseteq [kind : {"text", "caption", "file"}, chat : BotChats, inThread : BOOLEAN]
  BY <1>7 DEF Shows
<1>8. CASE FindJobBot
  <2>1. routed' \subseteq BotChats /\ jobBot' \in BOOLEAN
    BY <1>6, <1>8 DEF FindJobBot
  <2> QED BY <1>5, <1>8, <2>1 DEF FindJobBot, vars
<1>9. CASE Fails /\ UNCHANGED sent /\ routed' \subseteq BotChats /\ stage # "none"
  BY <1>5, <1>9 DEF Fails, vars
<1>10. CASE UnknownTool \/ RejectText
  BY <1>9, <1>10 DEF UnknownTool, RejectText
<1>11. CASE RejectFile
  <2>1. routed' \subseteq BotChats
    BY <1>6, <1>11 DEF RejectFile, FindsNoBot
  <2> QED BY <1>9, <1>11, <2>1 DEF RejectFile
<1>12. CASE SendInJob
  <2>1. ctx.chat \in BotChats /\ ctx.inThread \in BOOLEAN /\ stage # "none"
    BY <1>12 DEF SendInJob, TextAccepted, ToolsInv, CallIsOnItsWay
  <2>2. /\ Shows("text", ctx.chat, ctx.inThread) \/ UNCHANGED sent
        /\ stage' = "done" /\ result' \in {"ok", "error"}
        /\ UNCHANGED <<tape, ctx, call, jobBot, dest, routed>>
    BY <1>12 DEF SendInJob, Delivers, FailsToDeliver, Fails, vars
  <2> QED BY <1>5, <1>7, <2>1, <2>2
<1>13. CASE ChooseElsewhere
  <2>1. call \in Requests /\ stage # "none"
    BY <1>13 DEF ChooseElsewhere, TextAccepted
  <2>2. dest' \in Chat
    BY <1>13, <2>1, TapeArgsLeadToChats DEF ChooseElsewhere, Requests, ToolsInv
  <2>3. /\ stage' = "elsewhere" /\ result' = "none"
        /\ UNCHANGED <<tape, ctx, routed, call, jobBot, sent>>
    BY <1>13, <2>1 DEF ChooseElsewhere, TextAccepted, vars
  <2> QED BY <1>5, <2>1, <2>2, <2>3
<1>14. CASE SendElsewhere
  <2>1. /\ stage = "elsewhere" /\ stage' = "done" /\ result' \in {"ok", "error"}
        /\ UNCHANGED <<tape, ctx, call, jobBot, dest>>
    BY <1>14 DEF SendElsewhere, Fails, vars
  <2>2. CASE FindsBot(dest)
    <3>1. Shows("text", dest, FALSE) \/ UNCHANGED sent
      BY <1>14 DEF SendElsewhere
    <3> QED BY <1>5, <1>6, <1>7, <2>1, <2>2, <3>1
  <2>3. CASE FindsNoBot(dest) /\ UNCHANGED sent
    BY <1>5, <2>1, <2>3 DEF FindsNoBot
  <2> QED BY <1>14, <2>2, <2>3 DEF SendElsewhere
<1>15. CASE FindFileBot
  <2>1. dest' \in BotChats /\ routed' \subseteq BotChats
    BY <1>6, <1>15 DEF FindFileBot
  <2> QED BY <1>5, <1>15, <2>1 DEF FindFileBot, Chat, vars
<1>16. CASE SendCaption \/ SendFileForJob
  <2>1. stage \in FileStages /\ dest \in BotChats /\ ctx.inThread \in BOOLEAN
    BY <1>16 DEF SendCaption, SendFileForJob
  <2>2. PICK kind \in {"text", "caption", "file"}, th \in BOOLEAN :
          Shows(kind, dest, th) \/ UNCHANGED sent
    BY <1>16, <2>1 DEF SendCaption, SendFileForJob, Delivers, FailsToDeliver
  <2>3. /\ UNCHANGED <<tape, ctx, call, jobBot, dest, routed>>
        /\ \/ stage' = "done" /\ result' \in {"ok", "error"}
           \/ stage' = "checking" /\ result' = result /\ stage # "done"
    BY <1>16 DEF SendCaption, SendFileForJob, Delivers, FailsToDeliver, Fails, vars
  <2> QED BY <1>5, <1>7, <2>1, <2>2, <2>3
<1>17. CASE CheckPath \/ Upload
  BY <1>5, <1>17 DEF CheckPath, Upload, Fails, vars
<1>18. CASE PluginRestarts \/ UNCHANGED toolVars
  BY <1>18 DEF PluginRestarts, toolVars, vars, Requests, TapeArgs
<1> QED
  BY <1>2, <1>3, <1>4, <1>8, <1>10, <1>11, <1>12, <1>13, <1>14, <1>15, <1>16, <1>17, <1>18
     DEF ToolsNext, SendText, SendFile

\* Types hold for all arguments: a call shows things only in chats that have a bot, and it
\* has an answer exactly when it has ended (plugin.go:357-480).
THEOREM ToolsTypes == ToolsSpec => []ToolsTypeOK
<1>1. TypesInv => ToolsTypeOK
  BY DEF TypesInv
<1> QED BY <1>1, ToolsInitTypes, ToolsNextTypes, ToolsInvariant, PTL DEF ToolsSpec
=============================================================================
