------------------------------ MODULE TapeNames ------------------------------
(***************************************************************************)
(* Tape names: the string that names a conversation to the host, built by    *)
(* the receiver (parser.go:213, group.go:90) and read back when the host     *)
(* asks for an approval or a tool sends a message.  The host appends         *)
(* ":subagent" once for every subagent a run starts.                         *)
(*                                                                           *)
(* A string is the sequence of its parts between colons, without the spaces  *)
(* around it; an empty part is written "none".  Ids have no colon.           *)
(***************************************************************************)
EXTENDS Naturals, Sequences

CONSTANTS ChatIDs,   \* chat ids, which have an underscore ("oc_...")
          ThreadIDs,
          MaxDepth   \* bound: subagents started by subagents

ASSUME TapeAssumption == /\ "none" \notin ChatIDs /\ "subagent" \notin ChatIDs
                         /\ "none" \notin ThreadIDs
                         /\ MaxDepth \in Nat

P2P == [kind : {"p2p"}, chat : ChatIDs, thread : {"none"}]
Group == [kind : {"group"}, chat : ChatIDs, thread : ThreadIDs \cup {"none"}]

VARIABLES job,  \* the conversation of the job the run belongs to
          tape  \* the tape of the run, or of a subagent below it

vars == <<job, tape>>
-----------------------------------------------------------------------------
(* Building names *)

TapeNameForP2P(chat) == <<"feishu", "p2p", chat>>

TapeNameForGroup(chat, thread) ==
  IF thread = "none" THEN <<"feishu", "group", chat, "main">>
                 ELSE <<"feishu", "group", chat, "thread", thread>>

TapeName(j) == IF j.kind = "p2p" THEN TapeNameForP2P(j.chat)
                                 ELSE TapeNameForGroup(j.chat, j.thread)
-----------------------------------------------------------------------------
(* Reading names; <<>> is "not ok" *)

HasPrefix(t, kind) == Len(t) > 2 /\ t[1] = "feishu" /\ t[2] = kind

Tail3(t) == SubSeq(t, 3, Len(t))

\* Mutant: one suffix is removed, as before nested subagents.
StripOneSuffix(t) == IF Len(t) > 1 /\ t[Len(t)] = "subagent" THEN SubSeq(t, 1, Len(t) - 1) ELSE t

\* The length of t without its trailing ":subagent"s; the first part stays.
StrippedLen(t) == CHOOSE n \in 1 .. Len(t) : /\ n = 1 \/ t[n] # "subagent"
                                             /\ \A i \in n + 1 .. Len(t) : t[i] = "subagent"

StripDMRSubagentChildTapeSuffix(t) == SubSeq(t, 1, StrippedLen(t))

P2PChatIDFromTape(t) ==
  LET id == StripDMRSubagentChildTapeSuffix(Tail3(t))
  IN  IF HasPrefix(t, "p2p") /\ id # <<"none">> THEN id ELSE <<>>

\* The code also asks for an underscore, which chat ids have.
GroupChatIDFromTape(t) == IF HasPrefix(t, "group") /\ t[3] \in ChatIDs THEN <<t[3]>> ELSE <<>>

resolveApprovalChatID(t) ==
  IF P2PChatIDFromTape(t) # <<>> THEN [chat |-> P2PChatIDFromTape(t), isGroup |-> FALSE]
  ELSE IF GroupChatIDFromTape(t) # <<>> THEN [chat |-> GroupChatIDFromTape(t), isGroup |-> TRUE]
  ELSE [chat |-> <<>>, isGroup |-> FALSE]

\* send_text.go: a private chat id ends at the first colon, unless that is its first character.
ExtractChatIDFromTape(t) ==
  IF HasPrefix(t, "p2p") THEN IF Len(t) > 3 /\ t[3] # "none" THEN <<t[3]>> ELSE Tail3(t)
  ELSE IF HasPrefix(t, "group") /\ t[3] # "none" THEN <<t[3]>> ELSE <<>>
-----------------------------------------------------------------------------
Init == /\ job \in P2P \cup Group
        /\ tape = TapeName(job)

\* The host starts a subagent of the run, or of the subagent.
Subagent == /\ Len(tape) < Len(TapeName(job)) + MaxDepth
            /\ tape' = Append(tape, "subagent")
            /\ UNCHANGED job

Next == Subagent

Spec == Init /\ [][Next]_vars
-----------------------------------------------------------------------------
(* Properties *)

\* From the tape of a run, or of a subagent at any depth, an approval reads the chat and the
\* kind of the job (plugin.go:320-332): for a private chat it is then asked for there, for a
\* group at the approver of its bot, in private (203-204, 242-254).
ApprovalReadsItsChat == resolveApprovalChatID(tape) = [chat |-> <<job.chat>>, isGroup |-> job.kind = "group"]

\* The tools read the same chat from a tape as the approvals do (send_text.go:173-199).
ToolsAgreeWithApprovals == ExtractChatIDFromTape(tape) = resolveApprovalChatID(tape).chat
=============================================================================
