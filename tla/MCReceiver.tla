------------------------------ MODULE MCReceiver ------------------------------
(***************************************************************************)
(* Receiver on small instances: two bots share a group, one of them has a    *)
(* private chat and the other a group of its own; and what the repository    *)
(* says of the program beyond what holds.                                    *)
(***************************************************************************)
EXTENDS Receiver

CONSTANTS botA, botB, group, solo, dm, admin, user, k1, k2, k3

InChatMC == [c \in Chats |-> CASE c = group -> {botA, botB}
                               [] c = solo -> {botB}
                               [] c = dm -> {botA}]
AnyoneTo == [x \in {botA, botB} |-> IF x = botA THEN {} ELSE {user}]
TapeChatMC == [k \in Calls |-> IF k = k3 THEN group ELSE dm]
ApproverOfA == [x \in {botA, botB} |-> IF x = botA THEN admin ELSE None]

Message(c, kind, mentions, sender) ==
  [chat |-> c, kind |-> kind, mentions |-> mentions, sender |-> sender]

\* A text and the question for ids in the private chat, a call of botB in the group.
Mixed == <<Message(dm, "text", <<>>, admin), Message(dm, "id", <<>>, user),
           Message(group, "text", <<botB>>, user)>>

\* A call of botB in each group.
CallTwice == <<Message(group, "text", <<botB>>, user), Message(solo, "text", <<botB>>, user)>>

\* A call of botA, and the admin in the private chat.
AdminWrites == <<Message(group, "text", <<botA>>, user), Message(dm, "text", <<>>, admin)>>
-----------------------------------------------------------------------------
(* What the repository says of the program beyond the properties of Receiver *)

\* "For group chats, approval is routed to admin's P2P instead of the group"
\* (plugin.go:204) and "Approval replies must not start the agent" (receiver.go:145): what
\* the approver writes to the bot in private while a group's approval waits is no job.
ApproverIsHeard ==
  [][\A d \in Deliveries :
       /\ handler[d] = "resolving" /\ handler'[d] # "resolving"
       /\ Waiting(d[2], Msg[d[1]].sender) # None
       => handler'[d] = "done"]_vars
=============================================================================
