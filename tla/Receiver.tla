------------------------------ MODULE Receiver ------------------------------
(***************************************************************************)
(* From a Feishu event to the queue and back: internal/inbound/receiver.go   *)
(* and group.go, with what they share in internal/plugin/plugin.go: the      *)
(* routing table, the one Deduper of all bots, the waiting approvals and the *)
(* reply to a job.                                                           *)
(*                                                                           *)
(* Every event is handled by a goroutine of its bot's WebSocket; Feishu      *)
(* delivers a message to every bot of the chat and may deliver it again.     *)
(* The steps of a handler are its accesses to shared state; what it computes *)
(* from its own event is done in the step before.  Downloads and the fetch   *)
(* of a quoted message take any time and change nothing here.                *)
(***************************************************************************)
EXTENDS Naturals, Sequences, FiniteSets

CONSTANTS Messages,       \* 1..n in the order they are written in their chats
          Msg,            \* their chat, kind, mentions and sender
          Bots,           \* Plugin.bots
          Chats, Groups,  \* chat ids, those of groups
          Users,          \* open ids of users
          InChat,         \* the bots that are in a chat
          GroupEnabled,   \* the bots with group_enabled
          KnownID,        \* the bots whose open id was fetched by Init
          AllowFrom,      \* allow_from of each bot; empty allows everybody
          ApproverOf,     \* approver of each bot, or None
          Calls,          \* approval requests of the host
          TapeChat,       \* the chat of the request's tape
          MaxDeliveries,  \* bound: deliveries of a message to a bot
          All,            \* a mention entry without an Id, "@all"
          None,           \* no bot, no request, no approver, no verdict
          Denied          \* the verdict without a reply

Kinds == {"text", "id", "media"}  \* ",id" or ",openid"; an image or file without parent

ASSUME ReceiverAssumption ==
         /\ Messages \subseteq Nat
         /\ Groups \subseteq Chats
         /\ Chats \cap Users = {}
         /\ None \notin Bots \cup Calls \cup Users \cup Chats
         /\ All \notin Bots \cup Users
         /\ Msg \in [Messages -> [chat : Chats, kind : Kinds,
                                  mentions : Seq(Bots \cup Users \cup {All}), sender : Users]]
         /\ InChat \in [Chats -> SUBSET Bots]
         \* The private chats of a user with two bots have two ids
         \* (docs/issues/multi-instance-support.md:18).
         /\ \A c \in Chats \ Groups : \A x, y \in InChat[c] : x = y
         /\ GroupEnabled \subseteq Bots
         /\ KnownID \subseteq Bots
         /\ AllowFrom \in [Bots -> SUBSET Users]
         /\ ApproverOf \in [Bots -> Users \cup {None}]
         /\ TapeChat \in [Calls -> Chats]
         /\ MaxDeliveries \in Nat
         /\ Denied \notin Messages \cup {None}
         /\ None \notin Messages

VARIABLES handler,  \* where the handler of each delivery is
          routing,  \* Plugin.routing: chat -> bot
          seen,     \* Deduper.seen within its TTL (module Dedup)
          queue,    \* the jobs in the order Enqueue took them (module JobQueue)
          replies,  \* the answers sent: [kind, msg, by]
          call,     \* where each approval request is
          callBot,  \* the bot GetBotForChat returned to it
          wait,     \* Approver.Wait of each bot (module Approver)
          taken,    \* history: the request that took a text, "passed" when none did
          verdict   \* how each request has ended: denied, or by a text

approvals == <<call, callBot, wait, taken, verdict>>
vars == <<handler, routing, seen, queue, replies, approvals>>

Deliveries == Messages \X Bots \X (1 .. MaxDeliveries)
Jobs == [msg : Messages, bot : Bots]
Keys == Chats \cup Users
Stages == {"none", "arrived", "routed", "queueing", "answering", "resolving", "done"}

TypeOK == /\ handler \in [Deliveries -> Stages]
          /\ routing \in [Chats -> Bots \cup {None}]
          /\ seen \subseteq Messages
          /\ queue \in Seq(Jobs)
          /\ replies \subseteq [kind : {"id", "job"}, msg : Messages, by : Bots]
          /\ call \in [Calls -> {"none", "asked", "probing", "found", "waiting", "ended"}]
          /\ callBot \in [Calls -> Bots \cup {None}]
          /\ wait \in [Bots \X Keys -> Calls \cup {None}]
          /\ taken \in [Messages -> Calls \cup {None, "passed"}]
          /\ verdict \in [Calls -> Messages \cup {None, Denied}]
          /\ \A k \in Calls :
               /\ callBot[k] = None => call[k] \in {"none", "asked", "probing", "ended"}
               /\ call[k] \in {"none", "asked", "probing"} => callBot[k] = None

Init == /\ handler = [d \in Deliveries |-> "none"]
        /\ routing = [c \in Chats |-> None]
        /\ seen = {}
        /\ queue = <<>>
        /\ replies = {}
        /\ call = [k \in Calls |-> "none"]
        /\ callBot = [k \in Calls |-> None]
        /\ wait = [x \in Bots \X Keys |-> None]
        /\ taken = [m \in Messages |-> None]
        /\ verdict = [k \in Calls |-> None]
-----------------------------------------------------------------------------
(* The receiver's decisions about one event *)

\* Mutant: extractMentionEvent loses the open id.
CheckMentionOfAll(mentions, b) == IF \E i \in DOMAIN mentions : mentions[i] = All
                                  THEN "atAll" ELSE "none"

\* Every entry that concerns b overwrites the result of those before it.
CheckMention(mentions, b) ==
  LET concerns == {i \in DOMAIN mentions : mentions[i] = All \/ (mentions[i] = b /\ b \in KnownID)}
  IN  IF concerns = {} THEN "none"
      ELSE IF mentions[CHOOSE i \in concerns : \A j \in concerns : j <= i] = All
           THEN "atAll" ELSE "atBot"

IsAllowedSender(b, u) == AllowFrom[b] = {} \/ u \in AllowFrom[b]

\* Where HandleMessageReceive takes an event that is not a duplicate.
P2PStage(m) == IF Msg[m].kind = "id" THEN "answering" ELSE "resolving"

GroupStage(m, b) == IF /\ b \in GroupEnabled
                       /\ CheckMention(Msg[m].mentions, b) = "atBot"
                       /\ Msg[m].kind # "media"
                    THEN "queueing" ELSE "done"
-----------------------------------------------------------------------------
(* The handler of one delivery d = <<message, bot, number>> *)

\* Feishu: messages of a chat reach a bot's connection in order, perhaps again.
Deliver(d) == LET m == d[1]
                  b == d[2]
              IN  /\ handler[d] = "none"
                  /\ b \in InChat[Msg[m].chat]
                  /\ d[3] > 1 => handler[<<m, b, d[3] - 1>>] # "none"
                  /\ \A p \in Messages : p < m /\ Msg[p].chat = Msg[m].chat
                                           => handler[<<p, b, 1>>] # "none"
                  /\ handler' = [handler EXCEPT ![d] = "arrived"]
                  /\ UNCHANGED <<routing, seen, queue, replies, approvals>>

RegisterChatRoute(d) == /\ handler[d] = "arrived"
                        /\ routing' = [routing EXCEPT ![Msg[d[1]].chat] = d[2]]
                        /\ handler' = [handler EXCEPT ![d] = "routed"]
                        /\ UNCHANGED <<seen, queue, replies, approvals>>

\* Mutant: the message is only remembered when it reaches the queue.
PassUnmarked(d) == LET m == d[1]
                   IN  /\ handler[d] = "routed"
                       /\ m \notin seen
                       /\ handler' = [handler EXCEPT ![d] =
                                        IF Msg[m].chat \in Groups THEN GroupStage(m, d[2])
                                                                  ELSE P2PStage(m)]
                       /\ UNCHANGED <<routing, seen, queue, replies, approvals>>

\* One look and mark of the shared Deduper, then the path of the chat's type.
Pass(d) == LET m == d[1]
           IN  /\ handler[d] = "routed"
               /\ m \notin seen
               /\ seen' = seen \cup {m}
               /\ handler' = [handler EXCEPT ![d] = IF Msg[m].chat \in Groups
                                                    THEN GroupStage(m, d[2]) ELSE P2PStage(m)]
               /\ UNCHANGED <<routing, queue, replies, approvals>>

Duplicate(d) == /\ handler[d] = "routed"
                /\ d[1] \in seen
                /\ handler' = [handler EXCEPT ![d] = "done"]
                /\ UNCHANGED <<routing, seen, queue, replies, approvals>>

\* The answer to ",id" goes through the table; RegisterChatRoute has filled it.
AnswerID(d) == LET c == Msg[d[1]].chat
               IN  /\ handler[d] = "answering"
                   /\ replies' = replies \cup {[kind |-> "id", msg |-> d[1], by |-> routing[c]]}
                   /\ handler' = [handler EXCEPT ![d] = "done"]
                   /\ UNCHANGED <<routing, seen, queue, approvals>>

Waiting(b, key) == wait[<<b, key>>]

\* Mutant: the entry is looked up under the sender, as a group's approver is.
NoApprovalOfSender(d) ==
  LET m == d[1]
  IN  /\ handler[d] = "resolving"
      /\ Waiting(routing[Msg[m].chat], Msg[m].sender) = None
      /\ taken' = [taken EXCEPT ![m] = "passed"]
      /\ handler' = [handler EXCEPT ![d] = "queueing"]
      /\ UNCHANGED <<routing, seen, queue, replies, call, callBot, wait, verdict>>

\* TryResolveApproval finds a wait of the routed bot under the chat id: consumed.
ConsumeApproval(d) ==
  LET c == Msg[d[1]].chat
      k == Waiting(routing[c], c)
  IN  /\ handler[d] = "resolving"
      /\ k # None
      /\ taken' = [taken EXCEPT ![d[1]] = k]
      /\ handler' = [handler EXCEPT ![d] = "done"]
      /\ UNCHANGED <<routing, seen, queue, replies, call, callBot, wait, verdict>>

NoApproval(d) ==
  LET m == d[1]
      c == Msg[m].chat
  IN  /\ handler[d] = "resolving"
      /\ Waiting(routing[c], c) = None
      /\ taken' = [taken EXCEPT ![m] = "passed"]
      /\ handler' = [handler EXCEPT ![d] = IF /\ IsAllowedSender(d[2], Msg[m].sender)
                                              /\ Msg[m].kind # "media"
                                           THEN "queueing" ELSE "done"]
      /\ UNCHANGED <<routing, seen, queue, replies, call, callBot, wait, verdict>>

EnqueueJob(d) == /\ handler[d] = "queueing"
                 /\ queue' = Append(queue, [msg |-> d[1], bot |-> d[2]])
                 /\ handler' = [handler EXCEPT ![d] = "done"]
                 /\ UNCHANGED <<routing, seen, replies, approvals>>
-----------------------------------------------------------------------------
(* The jobs and the approval requests *)

\* A chat's jobs run in the order of the queue, but the queue may drop one (module JobQueue);
\* the reply looks the bot up anew.
ReplyAgentOutput(i) ==
  LET m == queue[i].msg
      answered(j) == \E r \in replies : r.kind = "job" /\ r.msg = queue[j].msg
  IN  /\ ~answered(i)
      /\ \A j \in DOMAIN queue :
           j > i /\ Msg[queue[j].msg].chat = Msg[m].chat => ~answered(j)
      /\ replies' = replies \cup {[kind |-> "job", msg |-> m, by |-> routing[Msg[m].chat]]}
      /\ UNCHANGED <<handler, routing, seen, queue, approvals>>

RequestApproval(k) == /\ call[k] = "none"
                      /\ call' = [call EXCEPT ![k] = "asked"]
                      /\ UNCHANGED <<handler, routing, seen, queue, replies, callBot, wait, taken, verdict>>

\* GetBotForChat reads the table and unlocks it.
LookUp(k) == LET b == routing[TapeChat[k]]
             IN  /\ call[k] = "asked"
                 /\ callBot' = [callBot EXCEPT ![k] = b]
                 /\ call' = [call EXCEPT ![k] = IF b = None THEN "probing" ELSE "found"]
                 /\ UNCHANGED <<handler, routing, seen, queue, replies, wait, taken, verdict>>

\* Mutant: a bot whose ChatExists call fails is taken.
FindUnchecked(k) == \E b \in Bots :
  /\ call[k] = "probing"
  /\ routing' = [routing EXCEPT ![TapeChat[k]] = b]
  /\ callBot' = [callBot EXCEPT ![k] = b]
  /\ call' = [call EXCEPT ![k] = "found"]
  /\ UNCHANGED <<handler, seen, queue, replies, wait, taken, verdict>>

\* ChatExists of a bot of the chat says so; those before it in the list failed.
\* The table may have been written since LookUp.
FindAndRegister(k) == \E b \in InChat[TapeChat[k]] :
  /\ call[k] = "probing"
  /\ routing' = [routing EXCEPT ![TapeChat[k]] = b]
  /\ callBot' = [callBot EXCEPT ![k] = b]
  /\ call' = [call EXCEPT ![k] = "found"]
  /\ UNCHANGED <<handler, seen, queue, replies, wait, taken, verdict>>

Ends(k, v) == /\ call' = [call EXCEPT ![k] = "ended"]
              /\ verdict' = [verdict EXCEPT ![k] = v]

\* Every ChatExists failed or said no: denied, "no bot found for chat".
FindNone(k) == /\ call[k] = "probing"
               /\ Ends(k, Denied)
               /\ UNCHANGED <<handler, routing, seen, queue, replies, callBot, wait, taken>>

\* waitChatID: a group's approval waits under the approver's open id.
WaitKey(k) == IF TapeChat[k] \in Groups THEN ApproverOf[callBot[k]] ELSE TapeChat[k]

\* No approver is configured for the group's bot, or another request waits there.
RefuseApproval(k) == /\ call[k] = "found"
                     /\ \/ WaitKey(k) = None
                        \/ WaitKey(k) # None /\ Waiting(callBot[k], WaitKey(k)) # None
                     /\ Ends(k, Denied)
                     /\ UNCHANGED <<handler, routing, seen, queue, replies, callBot, wait, taken>>

\* Mutant: the busy check is dropped.
WaitOver(k) == /\ call[k] = "found"
               /\ WaitKey(k) # None
               /\ wait' = [wait EXCEPT ![<<callBot[k], WaitKey(k)>>] = k]
               /\ call' = [call EXCEPT ![k] = "waiting"]
               /\ UNCHANGED <<handler, routing, seen, queue, replies, callBot, taken, verdict>>

WaitApproval(k) == /\ call[k] = "found"
                   /\ WaitKey(k) # None
                   /\ Waiting(callBot[k], WaitKey(k)) = None
                   /\ wait' = [wait EXCEPT ![<<callBot[k], WaitKey(k)>>] = k]
                   /\ call' = [call EXCEPT ![k] = "waiting"]
                   /\ UNCHANGED <<handler, routing, seen, queue, replies, callBot, taken, verdict>>

\* The prompt fails, the timer fires or a reply is read: of several that were taken the first
\* in the channel (module Approver), here any.  The entry is deleted.
EndApproval(k) == \E v \in {Denied} \cup {m \in Messages : taken[m] = k} :
  /\ call[k] = "waiting"
  /\ wait' = [wait EXCEPT ![<<callBot[k], WaitKey(k)>>] = None]
  /\ Ends(k, v)
  /\ UNCHANGED <<handler, routing, seen, queue, replies, callBot, taken>>
-----------------------------------------------------------------------------
Handle(d) == \/ RegisterChatRoute(d) \/ Pass(d) \/ Duplicate(d) \/ AnswerID(d)
             \/ ConsumeApproval(d) \/ NoApproval(d) \/ EnqueueJob(d)

Approve(k) == \/ LookUp(k) \/ FindAndRegister(k) \/ FindNone(k)
              \/ RefuseApproval(k) \/ WaitApproval(k) \/ EndApproval(k)

Next == \/ \E d \in Deliveries : Deliver(d) \/ Handle(d)
        \/ \E k \in Calls : RequestApproval(k) \/ Approve(k)
        \/ \E i \in DOMAIN queue : ReplyAgentOutput(i)

\* A handler blocks for good in one place only: downloads (file.go:54) and the look at a quoted
\* message (context.go:69) have time-outs and Enqueue does not wait, but the answer to ",id" is
\* a request without one (client.go:28).
Fairness == \A d \in Deliveries : WF_vars(handler[d] # "answering" /\ Handle(d))

Spec == Init /\ [][Next]_vars /\ Fairness
-----------------------------------------------------------------------------
(* Properties *)

\* A message is queued at most once, and by a bot of its chat, however often and to however
\* many bots it is delivered: the Deduper of dedup.go:26-46 is shared and marks under its lock.
OneJobPerMessage == /\ \A i, j \in DOMAIN queue : queue[i].msg = queue[j].msg => i = j
                    /\ \A i \in DOMAIN queue : queue[i].bot \in InChat[Msg[queue[i].msg].chat]

\* The routing table (plugin.go:493-541) only leads to bots that are in the chat, also when
\* the search of GetBotForChat writes a route after a handler wrote another; so a reply
\* is always sent, and by a member of the chat.
RoutesLeadIntoChats ==
  /\ \A c \in Chats : routing[c] # None => routing[c] \in InChat[c]
  /\ \A r \in replies : r.by \in InChat[Msg[r.msg].chat]

\* A text of a private chat in which an approval waits, whoever registered the wait and
\* whoever routed the chat since, is taken by the wait and never starts the agent
\* (receiver.go:145-149).
ReplyMeetsItsWait ==
  [][\A d \in Deliveries :
       /\ handler[d] = "resolving" /\ handler'[d] # "resolving"
       /\ \E b \in Bots : Waiting(b, Msg[d[1]].chat) # None
       => handler'[d] = "done" /\ queue' = queue]_vars

\* A message for one bot that knows its id is queued for it once it is delivered to it, also
\* when it is delivered again before the first handler is done; unless it is delivered to
\* another bot of the group too, which marks it for all and drops it (receiver.go:98, 181-201).
CalledIsQueued ==
  \A m \in Messages, b \in GroupEnabled \cap KnownID :
    /\ Msg[m].chat \in Groups /\ b \in InChat[Msg[m].chat]
    /\ Msg[m].mentions = <<b>> /\ Msg[m].kind = "text"
    => handler[<<m, b, 1>>] # "none" ~>
         \/ \E i \in DOMAIN queue : queue[i] = [msg |-> m, bot |-> b]
         \/ \E d \in Deliveries : d[1] = m /\ d[2] # b /\ handler[d] # "none"
-----------------------------------------------------------------------------
(* Refinement: the approvals keep the promises of Approvals through routing, *)
(* searches and several bots.  A private chat's requests wait at its bot, a  *)
(* group's at the approver of each of its bots; texts are heard in private.  *)

PlacesOf == [k \in Calls |->
  LET c == TapeChat[k]
  IN  {<<b, IF c \in Groups THEN ApproverOf[b] ELSE c>> : b \in InChat[c]} \cap (Bots \X Keys)]

Heard == [m \in Messages |-> LET c == Msg[m].chat
                             IN  {<<b, c>> : b \in IF c \in Groups THEN {} ELSE InChat[c]}]

Abstract == INSTANCE Approvals WITH Requests <- Calls, Texts <- Messages, Places <- Bots \X Keys,
                                    Passed <- "passed", holder <- wait

\* A request waits at a bot of its chat, one at a time at each place; a private text is taken
\* by the request that waits at any bot of the chat, once however often it is delivered, and
\* passes only when none waits; a request ends once, denied or by a text of its own chat
\* (plugin.go:203-258, receiver.go:145-149).
KeepsApprovals == Abstract!ASpec
=============================================================================
