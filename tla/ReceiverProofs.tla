--------------------------- MODULE ReceiverProofs ---------------------------
(* Safety of Receiver for every set of messages, bots, chats and requests.   *)
EXTENDS Receiver, TLAPS

ChatOf(d) == Msg[d[1]].chat

\* The parts of the invariant.  Events only reach bots of the chat.
EventsAreLocal == \A d \in Deliveries : handler[d] # "none" => d[2] \in InChat[ChatOf(d)]

\* Past RegisterChatRoute a handler, and so a job, finds a route.
HandlersAreRouted ==
  /\ \A d \in Deliveries : handler[d] \notin {"none", "arrived"} => routing[ChatOf(d)] # None
  /\ \A i \in DOMAIN queue : routing[Msg[queue[i].msg].chat] # None

\* The bot of a request is in the chat of its tape.
CallersAreLocal == \A k \in Calls : callBot[k] # None => callBot[k] \in InChat[TapeChat[k]]

\* An entry of Approver.Wait belongs to a request that waits, of that bot, under its key.
WaitsMatchCalls ==
  \A b \in Bots, key \in Keys :
    Waiting(b, key) # None =>
      LET k == Waiting(b, key) IN callBot[k] = b /\ WaitKey(k) = key /\ call[k] = "waiting"

\* A request that waits has its entry until it ends; before that it has no verdict.
CallsMatchWaits ==
  \A k \in Calls : /\ call[k] = "waiting" => /\ callBot[k] \in Bots
                                             /\ WaitKey(k) \in Keys
                                             /\ Waiting(callBot[k], WaitKey(k)) = k
                   /\ call[k] # "ended" => verdict[k] = None

\* A text was offered to the approvals by the one handler that passed the Deduper with it.
OffersArePast ==
  \A m \in Messages : taken[m] # None =>
    m \in seen /\ \A d \in Deliveries : d[1] = m => handler[d] # "resolving"

\* Only private messages answer ",id" or look for an approval.
AnswersArePrivate ==
  \A d \in Deliveries : handler[d] \in {"answering", "resolving"} => ChatOf(d) \notin Groups

\* A handler that passed the Deduper and is not done owns its message.
Acting(d) == handler[d] \in {"queueing", "answering", "resolving"}

ActorsAreAlone ==
  /\ \A d \in Deliveries : Acting(d) => d[1] \in seen
  /\ \A d, e \in Deliveries : Acting(d) /\ Acting(e) /\ d[1] = e[1] => d = e
  /\ \A i \in DOMAIN queue : queue[i].msg \in seen
  /\ \A d \in Deliveries, i \in DOMAIN queue : Acting(d) => queue[i].msg # d[1]

ReceiverInv == /\ TypeOK
               /\ EventsAreLocal
               /\ HandlersAreRouted
               /\ RoutesLeadIntoChats
               /\ CallersAreLocal
               /\ WaitsMatchCalls
               /\ CallsMatchWaits
               /\ AnswersArePrivate
               /\ ActorsAreAlone
               /\ OffersArePast
               /\ OneJobPerMessage
-----------------------------------------------------------------------------
LEMMA DeliveryType ==
  ASSUME ReceiverAssumption, NEW d \in Deliveries
  PROVE  /\ d[1] \in Messages /\ d[2] \in Bots
         /\ Msg[d[1]].chat \in Chats /\ Msg[d[1]].sender \in Users
BY DEF ReceiverAssumption, Deliveries

LEMMA JobType ==
  ASSUME ReceiverAssumption, TypeOK, NEW i \in DOMAIN queue
  PROVE  /\ queue[i].msg \in Messages /\ queue[i].bot \in Bots
         /\ Msg[queue[i].msg].chat \in Chats
<1>1. queue[i] \in Jobs
  BY DEF TypeOK
<1> QED BY <1>1 DEF ReceiverAssumption, Jobs

\* What Append does to the queue.
LEMMA EnqueueAppends ==
  ASSUME ReceiverAssumption, TypeOK, NEW d \in Deliveries, EnqueueJob(d)
  PROVE  /\ queue' \in Seq(Jobs)
         /\ DOMAIN queue' = DOMAIN queue \cup {Len(queue) + 1}
         /\ Len(queue) + 1 \notin DOMAIN queue
         /\ queue'[Len(queue) + 1] = [msg |-> d[1], bot |-> d[2]]
         /\ \A i \in DOMAIN queue : queue'[i] = queue[i]
<1>1. [msg |-> d[1], bot |-> d[2]] \in Jobs
  BY DeliveryType DEF Jobs
<1> QED BY <1>1 DEF EnqueueJob, TypeOK

LEMMA StageType ==
  ASSUME NEW m \in Messages, NEW b \in Bots
  PROVE  P2PStage(m) \in {"answering", "resolving"} /\ GroupStage(m, b) \in {"queueing", "done"}
BY DEF P2PStage, GroupStage

LEMMA KeyType ==
  ASSUME ReceiverAssumption, NEW k \in Calls, callBot[k] \in Bots
  PROVE  /\ WaitKey(k) \in Keys \cup {None}
         /\ \A c \in Chats : WaitKey(k) = c => TapeChat[k] = c
BY DEF ReceiverAssumption, WaitKey, Keys

THEOREM ReceiverInit == ReceiverAssumption /\ Init => ReceiverInv
<1> SUFFICES ASSUME ReceiverAssumption, Init PROVE ReceiverInv
  OBVIOUS
<1>1. TypeOK
  BY DEF Init, TypeOK, Stages, ReceiverAssumption
<1>2. queue = <<>> /\ DOMAIN queue = {}
  BY DEF Init
<1>3. EventsAreLocal /\ AnswersArePrivate /\ \A d \in Deliveries : ~Acting(d)
  BY DEF Init, EventsAreLocal, AnswersArePrivate, Acting
<1>4. RoutesLeadIntoChats /\ CallersAreLocal
  BY DEF Init, RoutesLeadIntoChats, CallersAreLocal
<1>5. WaitsMatchCalls /\ CallsMatchWaits
  BY DEF Init, WaitsMatchCalls, CallsMatchWaits, Waiting
<1>6. OffersArePast
  BY DEF Init, OffersArePast
<1> QED BY <1>1, <1>2, <1>3, <1>4, <1>5, <1>6
        DEF Init, ReceiverInv, HandlersAreRouted, ActorsAreAlone, OneJobPerMessage
-----------------------------------------------------------------------------
(* Each part is preserved. *)

LEMMA TypeStep ==
  ASSUME ReceiverAssumption, ReceiverInv, [Next]_vars
  PROVE  TypeOK'
<1>0. TypeOK /\ EventsAreLocal /\ HandlersAreRouted /\ CallersAreLocal /\ WaitsMatchCalls
  BY DEF ReceiverInv
<1> USE <1>0 DEF TypeOK, Stages, approvals
<1>1. ASSUME NEW d \in Deliveries, Deliver(d) \/ Duplicate(d) PROVE TypeOK'
  <2>1. PICK st \in {"arrived", "done"} :
          /\ handler' = [handler EXCEPT ![d] = st]
          /\ UNCHANGED <<routing, seen, queue, replies, approvals>>
    BY <1>1 DEF Deliver, Duplicate
  <2> QED BY <2>1
<1>2. ASSUME NEW d \in Deliveries, RegisterChatRoute(d) PROVE TypeOK'
  BY <1>2, DeliveryType DEF RegisterChatRoute
<1>3. ASSUME NEW d \in Deliveries, Pass(d) PROVE TypeOK'
  <2>1. PICK st \in Stages : /\ handler' = [handler EXCEPT ![d] = st]
                             /\ seen' = seen \cup {d[1]}
                             /\ UNCHANGED <<routing, queue, replies, approvals>>
    BY <1>3, DeliveryType, StageType DEF Pass
  <2> QED BY <2>1, DeliveryType
<1>4. ASSUME NEW d \in Deliveries, AnswerID(d) PROVE TypeOK'
  <2>1. routing[Msg[d[1]].chat] \in Bots
    BY <1>4, DeliveryType DEF AnswerID, HandlersAreRouted, ChatOf
  <2> QED BY <1>4, <2>1, DeliveryType DEF AnswerID
<1>5. ASSUME NEW d \in Deliveries, ConsumeApproval(d) \/ NoApproval(d) PROVE TypeOK'
  <2>1. CASE NoApproval(d)
    BY <2>1, DeliveryType DEF NoApproval
  <2>2. CASE ConsumeApproval(d)
    <3>1. routing[ChatOf(d)] \in Bots /\ ChatOf(d) \in Keys
      BY <2>2, DeliveryType DEF ConsumeApproval, HandlersAreRouted, ChatOf, Keys
    <3>2. Waiting(routing[ChatOf(d)], ChatOf(d)) \in Calls \cup {None}
      BY <3>1 DEF Waiting
    <3>3. PICK k \in Calls \cup {None} :
            /\ taken' = [taken EXCEPT ![d[1]] = k] /\ handler' = [handler EXCEPT ![d] = "done"]
            /\ UNCHANGED <<routing, seen, queue, replies, call, callBot, wait, verdict>>
      BY <2>2, <3>2 DEF ConsumeApproval, ChatOf
    <3> QED BY <3>3
  <2> QED BY <1>5, <2>1, <2>2
<1>7. ASSUME NEW d \in Deliveries, EnqueueJob(d) PROVE TypeOK'
  <2>1. queue' \in Seq(Jobs)
    BY <1>7, EnqueueAppends
  <2> QED BY <1>7, <2>1 DEF EnqueueJob
<1>8. ASSUME NEW i \in DOMAIN queue, ReplyAgentOutput(i) PROVE TypeOK'
  <2>1. queue[i].msg \in Messages /\ routing[Msg[queue[i].msg].chat] \in Bots
    BY JobType DEF HandlersAreRouted
  <2> QED BY <1>8, <2>1 DEF ReplyAgentOutput
<1>9. ASSUME NEW k \in Calls, RequestApproval(k) \/ LookUp(k) PROVE TypeOK'
  <2>1. routing[TapeChat[k]] \in Bots \cup {None}
    BY DEF ReceiverAssumption
  <2>2. CASE RequestApproval(k)
    BY <2>2 DEF RequestApproval
  <2>3. CASE LookUp(k)
    <3>1. PICK b \in Bots \cup {None} :
            /\ callBot' = [callBot EXCEPT ![k] = b]
            /\ call' = [call EXCEPT ![k] = IF b = None THEN "probing" ELSE "found"]
            /\ UNCHANGED <<handler, routing, seen, queue, replies, wait, taken, verdict>>
      BY <2>1, <2>3 DEF LookUp
    <3> QED BY <3>1
  <2> QED BY <1>9, <2>2, <2>3
<1>10. ASSUME NEW k \in Calls, FindAndRegister(k) \/ FindNone(k) PROVE TypeOK'
  <2>1. TapeChat[k] \in Chats /\ InChat[TapeChat[k]] \subseteq Bots
    BY DEF ReceiverAssumption
  <2>2. CASE FindAndRegister(k)
    <3>1. PICK b \in Bots : /\ routing' = [routing EXCEPT ![TapeChat[k]] = b]
                            /\ callBot' = [callBot EXCEPT ![k] = b]
                            /\ call' = [call EXCEPT ![k] = "found"]
                            /\ UNCHANGED <<handler, seen, queue, replies, wait, taken, verdict>>
      BY <2>1, <2>2 DEF FindAndRegister
    <3>2. b # None
      BY DEF ReceiverAssumption
    <3> QED BY <2>1, <3>1, <3>2
  <2>3. CASE FindNone(k)
    BY <2>3 DEF FindNone, Ends
  <2> QED BY <1>10, <2>2, <2>3
<1>11. ASSUME NEW k \in Calls, RefuseApproval(k) PROVE TypeOK'
  BY <1>11 DEF RefuseApproval, Ends
<1>12. ASSUME NEW k \in Calls, WaitApproval(k) \/ EndApproval(k) PROVE TypeOK'
  <2>1. PICK h \in Calls \cup {None}, st \in {"waiting", "ended"},
             v \in Messages \cup {None, Denied} :
          /\ wait' = [wait EXCEPT ![<<callBot[k], WaitKey(k)>>] = h]
          /\ call' = [call EXCEPT ![k] = st]
          /\ verdict' = [verdict EXCEPT ![k] = v]
          /\ callBot[k] # None
          /\ UNCHANGED <<handler, routing, seen, queue, replies, callBot, taken>>
    <3>1. CASE WaitApproval(k)
      <4>1. verdict' = [verdict EXCEPT ![k] = verdict[k]] /\ verdict[k] \in Messages \cup {None, Denied}
        BY <3>1 DEF WaitApproval
      <4> QED BY <3>1, <4>1 DEF WaitApproval
    <3>2. CASE EndApproval(k)
      BY <3>2 DEF EndApproval, Ends
    <3> QED BY <1>12, <3>1, <3>2
  <2>2. wait' \in [Bots \X Keys -> Calls \cup {None}]
    BY <2>1
  <2> QED BY <2>1, <2>2
<1>13. CASE UNCHANGED vars
  BY <1>13 DEF vars
<1> QED BY <1>1, <1>2, <1>3, <1>4, <1>5, <1>7, <1>8, <1>9, <1>10, <1>11, <1>12,
           <1>13 DEF Next, Handle, Approve

LEMMA LocalStep ==
  ASSUME ReceiverAssumption, ReceiverInv, [Next]_vars
  PROVE  EventsAreLocal' /\ AnswersArePrivate'
<1>0. TypeOK /\ EventsAreLocal /\ AnswersArePrivate
  BY DEF ReceiverInv
<1> USE <1>0 DEF TypeOK, EventsAreLocal, AnswersArePrivate, ChatOf
<1> DEFINE Goal == EventsAreLocal' /\ AnswersArePrivate'
<1>1. ASSUME NEW d \in Deliveries, Deliver(d) PROVE Goal
  BY <1>1 DEF Deliver
<1>2. ASSUME NEW d \in Deliveries, Pass(d) PROVE Goal
  <2> DEFINE st == IF ChatOf(d) \in Groups THEN GroupStage(d[1], d[2]) ELSE P2PStage(d[1])
  <2>1. handler' = [handler EXCEPT ![d] = st] /\ handler[d] = "routed"
    BY <1>2 DEF Pass
  <2>2. st \in {"answering", "resolving"} => ChatOf(d) \notin Groups
    <3>1. GroupStage(d[1], d[2]) \in {"queueing", "done"}
      BY StageType, DeliveryType
    <3> QED BY <3>1
  <2> HIDE DEF st
  <2> QED BY <2>1, <2>2
<1>3. ASSUME NEW d \in Deliveries,
             \/ RegisterChatRoute(d) \/ Duplicate(d) \/ AnswerID(d)
             \/ ConsumeApproval(d) \/ NoApproval(d) \/ EnqueueJob(d)
      PROVE Goal
  BY <1>3 DEF RegisterChatRoute, Duplicate, AnswerID, ConsumeApproval, NoApproval, EnqueueJob
<1>4. ASSUME UNCHANGED handler PROVE Goal
  BY <1>4
<1> QED
  BY <1>1, <1>2, <1>3, <1>4
     DEF Next, Handle, Approve, ReplyAgentOutput, RequestApproval, LookUp, FindAndRegister,
         FindNone, RefuseApproval, WaitApproval, EndApproval, vars

LEMMA RouteStep ==
  ASSUME ReceiverAssumption, ReceiverInv, [Next]_vars
  PROVE  HandlersAreRouted' /\ RoutesLeadIntoChats'
<1>0. TypeOK /\ EventsAreLocal /\ HandlersAreRouted /\ RoutesLeadIntoChats
  BY DEF ReceiverInv
<1>1. HandlersAreRouted'
  <2> USE <1>0 DEF TypeOK, HandlersAreRouted, ChatOf
  <2>1. ASSUME NEW d \in Deliveries, RegisterChatRoute(d) PROVE HandlersAreRouted'
    <3>1. d[2] # None /\ Msg[d[1]].chat \in Chats
      BY DeliveryType DEF ReceiverAssumption
    <3> QED BY <2>1, <3>1, DeliveryType, JobType DEF RegisterChatRoute
  <2>2. ASSUME NEW k \in Calls, FindAndRegister(k) PROVE HandlersAreRouted'
    <3>1. PICK b \in InChat[TapeChat[k]] :
            routing' = [routing EXCEPT ![TapeChat[k]] = b] /\ UNCHANGED <<handler, queue>>
      BY <2>2 DEF FindAndRegister
    <3>2. b # None /\ TapeChat[k] \in Chats
      BY DEF ReceiverAssumption
    <3> QED BY <3>1, <3>2, DeliveryType, JobType
  <2>3. ASSUME NEW d \in Deliveries, EnqueueJob(d) PROVE HandlersAreRouted'
    <3>1. routing[Msg[d[1]].chat] # None
      BY <2>3 DEF EnqueueJob
    <3>2. \A e \in Deliveries : handler'[e] \notin {"none", "arrived"}
                                  => handler[e] \notin {"none", "arrived"}
      BY <2>3 DEF EnqueueJob
    <3>3. routing' = routing
      BY <2>3 DEF EnqueueJob
    <3>4. \A i \in DOMAIN queue' : routing[Msg[queue'[i].msg].chat] # None
      <4> TAKE i \in DOMAIN queue'
      <4>0. /\ DOMAIN queue' = DOMAIN queue \cup {Len(queue) + 1}
            /\ queue'[Len(queue) + 1] = [msg |-> d[1], bot |-> d[2]]
            /\ \A j \in DOMAIN queue : queue'[j] = queue[j]
        BY <2>3, EnqueueAppends
      <4>1. CASE i = Len(queue) + 1
        BY <3>1, <4>0, <4>1
      <4>2. CASE i \in DOMAIN queue
        BY <4>0, <4>2
      <4> QED BY <4>0, <4>1, <4>2
    <3> QED BY <3>2, <3>3, <3>4
  <2>4. ASSUME NEW d \in Deliveries,
               \/ Deliver(d) \/ Pass(d) \/ Duplicate(d) \/ AnswerID(d)
               \/ ConsumeApproval(d) \/ NoApproval(d)
        PROVE HandlersAreRouted'
    <3>1. UNCHANGED <<routing, queue>>
      BY <2>4 DEF Deliver, Pass, Duplicate, AnswerID, ConsumeApproval, NoApproval
    <3>2. \A e \in Deliveries : handler'[e] \notin {"none", "arrived"}
                                  => handler[e] \notin {"none", "arrived"}
      BY <2>4 DEF Deliver, Pass, Duplicate, AnswerID, ConsumeApproval, NoApproval
    <3> QED BY <3>1, <3>2
  <2>5. ASSUME UNCHANGED <<handler, routing, queue>> PROVE HandlersAreRouted'
    BY <2>5
  <2> QED
    BY <2>1, <2>2, <2>3, <2>4, <2>5
       DEF Next, Handle, Approve, ReplyAgentOutput, RequestApproval, LookUp,
           FindNone, RefuseApproval, WaitApproval, EndApproval, vars
<1>2. RoutesLeadIntoChats'
  <2> USE <1>0 DEF TypeOK, RoutesLeadIntoChats, ChatOf
  <2>1. ASSUME NEW d \in Deliveries, RegisterChatRoute(d) PROVE RoutesLeadIntoChats'
    <3>1. d[2] \in InChat[Msg[d[1]].chat] /\ Msg[d[1]].chat \in Chats
      BY <2>1, DeliveryType DEF RegisterChatRoute, EventsAreLocal
    <3> QED BY <2>1, <3>1 DEF RegisterChatRoute
  <2>2. ASSUME NEW k \in Calls, FindAndRegister(k) PROVE RoutesLeadIntoChats'
    <3>1. PICK b \in InChat[TapeChat[k]] :
            routing' = [routing EXCEPT ![TapeChat[k]] = b] /\ UNCHANGED replies
      BY <2>2 DEF FindAndRegister
    <3> QED BY <3>1 DEF ReceiverAssumption
  <2>3. ASSUME NEW d \in Deliveries, AnswerID(d) PROVE RoutesLeadIntoChats'
    <3>1. routing[Msg[d[1]].chat] \in InChat[Msg[d[1]].chat]
      BY <2>3, DeliveryType DEF AnswerID, HandlersAreRouted
    <3> QED BY <2>3, <3>1 DEF AnswerID
  <2>4. ASSUME NEW i \in DOMAIN queue, ReplyAgentOutput(i) PROVE RoutesLeadIntoChats'
    <3>1. routing[Msg[queue[i].msg].chat] \in InChat[Msg[queue[i].msg].chat]
      BY JobType DEF HandlersAreRouted
    <3> QED BY <2>4, <3>1 DEF ReplyAgentOutput
  <2>5. ASSUME UNCHANGED <<routing, replies>> PROVE RoutesLeadIntoChats'
    BY <2>5
  <2> QED
    BY <2>1, <2>2, <2>3, <2>4, <2>5
       DEF Next, Handle, Approve, Deliver, Pass, Duplicate, ConsumeApproval, NoApproval,
           EnqueueJob, RequestApproval, LookUp, FindNone, RefuseApproval, WaitApproval,
           EndApproval, vars
<1> QED BY <1>1, <1>2

LEMMA WaitStep ==
  ASSUME ReceiverAssumption, ReceiverInv, [Next]_vars
  PROVE  CallersAreLocal' /\ WaitsMatchCalls' /\ CallsMatchWaits'
<1>0. TypeOK /\ RoutesLeadIntoChats /\ CallersAreLocal /\ WaitsMatchCalls /\ CallsMatchWaits
  BY DEF ReceiverInv
<1> USE <1>0 DEF TypeOK, CallersAreLocal, WaitsMatchCalls, CallsMatchWaits, Waiting
<1> DEFINE Goal == CallersAreLocal' /\ WaitsMatchCalls' /\ CallsMatchWaits'
<1>a. ASSUME NEW k \in Calls, call[k] # "waiting" PROVE \A p \in Bots \X Keys : wait[p] # k
  <2>1. k # None
    BY DEF ReceiverAssumption
  <2> QED BY <1>a, <2>1
\* The bot of a request is found; nothing waits for it yet.
<1>1. ASSUME NEW k \in Calls, call[k] \in {"asked", "probing"}, NEW b \in Bots \cup {None},
             b = None \/ b \in InChat[TapeChat[k]], NEW st \in {"probing", "found"},
             callBot' = [callBot EXCEPT ![k] = b], call' = [call EXCEPT ![k] = st],
             UNCHANGED <<wait, verdict>>
      PROVE Goal
  <2>1. CallersAreLocal'
    BY <1>1
  <2>2. \A j \in Calls \ {k} : WaitKey(j)' = WaitKey(j) /\ callBot'[j] = callBot[j]
                              /\ call'[j] = call[j]
    BY <1>1 DEF WaitKey
  <2>3. call[k] # "waiting" /\ call'[k] # "waiting" /\ \A p \in Bots \X Keys : wait[p] # k
    BY <1>1, <1>a
  <2>4. WaitsMatchCalls'
    BY <1>1, <2>2, <2>3
  <2>5. CallsMatchWaits'
    <3>1. /\ call'[k] # "waiting"
          /\ call'[k] # "ended" => verdict'[k] = None
          /\ wait' = wait /\ verdict' = verdict
      BY <1>1, <2>3
    <3>2. ASSUME NEW j \in Calls, j # k
          PROVE  /\ call'[j] = "waiting" => /\ callBot'[j] \in Bots /\ WaitKey(j)' \in Keys
                                            /\ wait'[<<callBot'[j], WaitKey(j)'>>] = j
                 /\ call'[j] # "ended" => verdict'[j] = None
      BY <2>2, <3>1, <3>2
    <3> QED BY <3>1, <3>2
  <2> QED BY <2>1, <2>4, <2>5
<1>2. ASSUME NEW k \in Calls, LookUp(k) PROVE Goal
  <2>1. /\ routing[TapeChat[k]] \in Bots \cup {None}
        /\ routing[TapeChat[k]] = None \/ routing[TapeChat[k]] \in InChat[TapeChat[k]]
    BY DEF RoutesLeadIntoChats, ReceiverAssumption
  <2>2. PICK b \in Bots \cup {None}, st \in {"probing", "found"} :
          /\ b = None \/ b \in InChat[TapeChat[k]]
          /\ callBot' = [callBot EXCEPT ![k] = b] /\ call' = [call EXCEPT ![k] = st]
          /\ call[k] = "asked" /\ UNCHANGED <<wait, verdict>>
    BY <1>2, <2>1 DEF LookUp
  <2> HIDE DEF Goal
  <2> QED BY <1>1, <2>2
<1>3. ASSUME NEW k \in Calls, FindAndRegister(k) PROVE Goal
  <2>1. InChat[TapeChat[k]] \subseteq Bots
    BY DEF ReceiverAssumption
  <2>2. PICK b \in InChat[TapeChat[k]] :
          /\ callBot' = [callBot EXCEPT ![k] = b] /\ call' = [call EXCEPT ![k] = "found"]
          /\ call[k] = "probing" /\ UNCHANGED <<wait, verdict>>
    BY <1>3 DEF FindAndRegister
  <2> HIDE DEF Goal
  <2> QED BY <1>1, <2>1, <2>2
\* A request that does not wait is asked or refused.
<1>4. ASSUME NEW k \in Calls, call[k] # "waiting", NEW st \in {"asked", "ended"},
             call' = [call EXCEPT ![k] = st], UNCHANGED <<wait, callBot>>,
             call'[k] = "asked" => call[k] = "none" /\ verdict' = verdict,
             \A j \in Calls \ {k} : verdict'[j] = verdict[j]
      PROVE Goal
  <2>1. \A j \in Calls : WaitKey(j)' = WaitKey(j)
    BY <1>4 DEF WaitKey
  <2>2. \A p \in Bots \X Keys : wait[p] # k
    BY <1>4, <1>a
  <2>3. CallersAreLocal' /\ WaitsMatchCalls'
    BY <1>4, <2>1, <2>2
  <2>4. CallsMatchWaits'
    BY <1>4, <2>1
  <2> QED BY <2>3, <2>4
<1>5. ASSUME NEW k \in Calls, RequestApproval(k) PROVE Goal
  BY <1>4, <1>5 DEF RequestApproval
<1>6. ASSUME NEW k \in Calls, FindNone(k) \/ RefuseApproval(k) PROVE Goal
  <2>1. /\ call[k] \in {"probing", "found"} /\ call' = [call EXCEPT ![k] = "ended"]
        /\ verdict' = [verdict EXCEPT ![k] = Denied] /\ UNCHANGED <<wait, callBot>>
    BY <1>6 DEF FindNone, RefuseApproval, Ends
  <2>2. call'[k] # "asked" /\ \A j \in Calls \ {k} : verdict'[j] = verdict[j]
    BY <2>1
  <2> HIDE DEF Goal
  <2> QED BY <1>4, <2>1, <2>2
<1>7. ASSUME NEW k \in Calls, WaitApproval(k) PROVE Goal
  <2> DEFINE p == <<callBot[k], WaitKey(k)>>
  <2>1. callBot[k] \in Bots /\ WaitKey(k) \in Keys
    BY <1>7, KeyType DEF WaitApproval
  <2>2. /\ UNCHANGED <<callBot, verdict>> /\ call[k] = "found" /\ wait[p] = None
        /\ wait' = [wait EXCEPT ![p] = k] /\ call' = [call EXCEPT ![k] = "waiting"]
    BY <1>7 DEF WaitApproval
  <2>3. \A j \in Calls : WaitKey(j)' = WaitKey(j)
    BY <2>2 DEF WaitKey
  <2>4. CallersAreLocal' /\ WaitsMatchCalls'
    BY <2>1, <2>2, <2>3
  <2>5. ASSUME NEW j \in Calls, call'[j] = "waiting"
        PROVE  callBot[j] \in Bots /\ WaitKey(j) \in Keys /\ wait'[<<callBot[j], WaitKey(j)>>] = j
    <3>1. CASE j = k
      BY <2>1, <2>2, <3>1
    <3>2. CASE j # k
      <4>1. callBot[j] \in Bots /\ WaitKey(j) \in Keys /\ wait[<<callBot[j], WaitKey(j)>>] = j
        BY <2>2, <2>5, <3>2
      <4>2. j # None
        BY DEF ReceiverAssumption
      <4> QED BY <2>1, <2>2, <4>1, <4>2
    <3> QED BY <3>1, <3>2
  <2> QED BY <2>2, <2>3, <2>4, <2>5
<1>8. ASSUME NEW k \in Calls, EndApproval(k) PROVE Goal
  <2> DEFINE p == <<callBot[k], WaitKey(k)>>
  <2>1. call[k] = "waiting" /\ callBot[k] \in Bots /\ WaitKey(k) \in Keys /\ wait[p] = k
    BY <1>8 DEF EndApproval
  <2>2. /\ UNCHANGED callBot /\ \A j \in Calls \ {k} : verdict'[j] = verdict[j]
        /\ wait' = [wait EXCEPT ![p] = None] /\ call' = [call EXCEPT ![k] = "ended"]
    BY <1>8 DEF EndApproval, Ends
  <2>3. \A j \in Calls : WaitKey(j)' = WaitKey(j)
    BY <2>2 DEF WaitKey
  <2>4. \A b \in Bots, key \in Keys : wait[<<b, key>>] = k => <<b, key>> = p
    BY <2>1 DEF ReceiverAssumption
  <2>5. CallersAreLocal' /\ WaitsMatchCalls'
    BY <2>1, <2>2, <2>3, <2>4
  <2>6. ASSUME NEW j \in Calls, call'[j] = "waiting"
        PROVE  callBot[j] \in Bots /\ WaitKey(j) \in Keys /\ wait'[<<callBot[j], WaitKey(j)>>] = j
    <3>1. j # k /\ callBot[j] \in Bots /\ WaitKey(j) \in Keys
          /\ wait[<<callBot[j], WaitKey(j)>>] = j
      BY <2>2, <2>6
    <3> QED BY <2>1, <2>2, <3>1
  <2> QED BY <2>2, <2>3, <2>5, <2>6
<1>9. ASSUME UNCHANGED <<call, callBot, wait, verdict>> PROVE Goal
  <2>1. \A j \in Calls : WaitKey(j)' = WaitKey(j)
    BY <1>9 DEF WaitKey
  <2> QED BY <1>9, <2>1
<1> QED
  BY <1>2, <1>3, <1>5, <1>6, <1>7, <1>8, <1>9
     DEF Next, Handle, Approve, Deliver, RegisterChatRoute, Pass, Duplicate, AnswerID,
         ConsumeApproval, NoApproval, EnqueueJob, ReplyAgentOutput, approvals, vars

LEMMA OfferStep ==
  ASSUME ReceiverAssumption, ReceiverInv, [Next]_vars
  PROVE  OffersArePast'
<1>0. TypeOK /\ ActorsAreAlone /\ OffersArePast
  BY DEF ReceiverInv
<1> USE <1>0 DEF TypeOK, OffersArePast
<1>1. ASSUME NEW d \in Deliveries, ConsumeApproval(d) \/ NoApproval(d) PROVE OffersArePast'
  <2>1. /\ handler[d] = "resolving" /\ handler'[d] # "resolving" /\ UNCHANGED seen
        /\ \A e \in Deliveries : e # d => handler'[e] = handler[e]
        /\ \A m \in Messages : m # d[1] => taken'[m] = taken[m]
    BY <1>1 DEF ConsumeApproval, NoApproval
  <2>2. d[1] \in seen /\ \A e \in Deliveries : e[1] = d[1] /\ e # d => handler[e] # "resolving"
    BY <2>1 DEF ActorsAreAlone, Acting
  <2> QED BY <2>1, <2>2
<1>2. ASSUME NEW d \in Deliveries, Pass(d) PROVE OffersArePast'
  <2>1. /\ d[1] \notin seen /\ seen' = seen \cup {d[1]} /\ UNCHANGED taken
        /\ \A e \in Deliveries : e # d => handler'[e] = handler[e]
    BY <1>2 DEF Pass, approvals
  <2> QED BY <2>1
<1>3. ASSUME UNCHANGED <<seen, taken>>,
             \A d \in Deliveries : handler'[d] = "resolving" => handler[d] = "resolving"
      PROVE OffersArePast'
  BY <1>3
<1>4. ASSUME NEW d \in Deliveries,
             Deliver(d) \/ RegisterChatRoute(d) \/ Duplicate(d) \/ AnswerID(d) \/ EnqueueJob(d)
      PROVE OffersArePast'
  BY <1>3, <1>4 DEF Deliver, RegisterChatRoute, Duplicate, AnswerID, EnqueueJob, approvals
<1>5. ASSUME UNCHANGED <<handler, seen, taken>> PROVE OffersArePast'
  BY <1>3, <1>5
<1> QED
  BY <1>1, <1>2, <1>4, <1>5
     DEF Next, Handle, Approve, ReplyAgentOutput, RequestApproval, LookUp, FindAndRegister,
         FindNone, RefuseApproval, WaitApproval, EndApproval, approvals, vars

LEMMA ActorStep ==
  ASSUME ReceiverAssumption, ReceiverInv, [Next]_vars
  PROVE  ActorsAreAlone' /\ OneJobPerMessage'
<1>0. TypeOK /\ EventsAreLocal /\ ActorsAreAlone /\ OneJobPerMessage
  BY DEF ReceiverInv
<1> USE <1>0 DEF TypeOK, ActorsAreAlone, OneJobPerMessage, Acting
<1> DEFINE Goal == ActorsAreAlone' /\ OneJobPerMessage'
<1>1. ASSUME NEW d \in Deliveries, Pass(d) PROVE Goal
  <2>1. /\ d[1] \notin seen /\ seen' = seen \cup {d[1]}
        /\ UNCHANGED queue
        /\ \A e \in Deliveries : e # d => handler'[e] = handler[e]
    BY <1>1 DEF Pass
  <2> QED BY <2>1
<1>2. ASSUME NEW d \in Deliveries, EnqueueJob(d) PROVE Goal
  <2>1. /\ DOMAIN queue' = DOMAIN queue \cup {Len(queue) + 1}
        /\ Len(queue) + 1 \notin DOMAIN queue
        /\ queue'[Len(queue) + 1] = [msg |-> d[1], bot |-> d[2]]
        /\ \A i \in DOMAIN queue : queue'[i] = queue[i]
    BY <1>2, EnqueueAppends
  <2>2. /\ UNCHANGED seen /\ Acting(d)
        /\ handler' = [handler EXCEPT ![d] = "done"]
        /\ d[2] \in InChat[Msg[d[1]].chat]
    BY <1>2 DEF EnqueueJob, EventsAreLocal, ChatOf
  <2>3. /\ \A e \in Deliveries : Acting(e)' => Acting(e) /\ e # d
        /\ \A i \in DOMAIN queue : queue[i].msg # d[1]
    BY <2>2
  <2>4. ActorsAreAlone'
    BY <2>1, <2>2, <2>3
  <2>5. OneJobPerMessage'
    BY <2>1, <2>2, <2>3
  <2> QED BY <2>4, <2>5
<1>3. ASSUME UNCHANGED <<seen, queue>>, \A d \in Deliveries : Acting(d)' => Acting(d)
      PROVE Goal
  BY <1>3
<1>4. ASSUME NEW d \in Deliveries, Deliver(d) \/ RegisterChatRoute(d) PROVE Goal
  BY <1>3, <1>4 DEF Deliver, RegisterChatRoute
<1>5. ASSUME NEW d \in Deliveries,
             Duplicate(d) \/ AnswerID(d) \/ ConsumeApproval(d) \/ NoApproval(d)
      PROVE Goal
  BY <1>3, <1>5 DEF Duplicate, AnswerID, ConsumeApproval, NoApproval
<1>6. ASSUME UNCHANGED <<handler, seen, queue>> PROVE Goal
  BY <1>3, <1>6
<1> QED
  BY <1>1, <1>2, <1>4, <1>5, <1>6
     DEF Next, Handle, Approve, ReplyAgentOutput, RequestApproval, LookUp, FindAndRegister,
         FindNone, RefuseApproval, WaitApproval, EndApproval, vars

\* The invariant that carries the theorems below.
THEOREM ReceiverInvariant == Spec => []ReceiverInv
<1>1. Init => ReceiverInv
  BY ReceiverInit, ReceiverAssumption
<1>2. ReceiverInv /\ [Next]_vars => ReceiverInv'
  BY TypeStep, LocalStep, RouteStep, WaitStep, OfferStep, ActorStep, ReceiverAssumption DEF ReceiverInv
<1> QED BY <1>1, <1>2, PTL DEF Spec

\* The receiver's types hold in every state; so a handler that answers, looks for an approval
\* or replies to a job never reads the missing route of its chat (plugin.go:493-541).
THEOREM ReceiverTypes == Spec => []TypeOK
<1>1. ReceiverInv => TypeOK
  BY DEF ReceiverInv
<1> QED BY <1>1, ReceiverInvariant, PTL

\* A message is queued at most once, by a bot of its chat, for any number of bots and
\* deliveries (the shared Deduper and receiver.go:98).
THEOREM MessagesAreQueuedOnce == Spec => []OneJobPerMessage
<1>1. ReceiverInv => OneJobPerMessage
  BY DEF ReceiverInv
<1> QED BY <1>1, ReceiverInvariant, PTL

\* The routing table and the replies stay inside the chats, whatever handlers and searches
\* race for it (plugin.go:493-541).
THEOREM RoutesAreSound == Spec => []RoutesLeadIntoChats
<1>1. ReceiverInv => RoutesLeadIntoChats
  BY DEF ReceiverInv
<1> QED BY <1>1, ReceiverInvariant, PTL

\* A text of a private chat with a waiting approval is taken by the approval
\* (receiver.go:145-149).
THEOREM WaitsAreAnswered == Spec => ReplyMeetsItsWait
<1>1. ReceiverInv /\ [Next]_vars =>
        [\A d \in Deliveries :
           /\ handler[d] = "resolving" /\ handler'[d] # "resolving"
           /\ \E b \in Bots : Waiting(b, Msg[d[1]].chat) # None
           => handler'[d] = "done" /\ queue' = queue]_vars
  <2> SUFFICES ASSUME ReceiverInv, Next, NEW d \in Deliveries,
                      handler[d] = "resolving", handler'[d] # "resolving",
                      NEW b \in Bots, Waiting(b, Msg[d[1]].chat) # None
               PROVE  handler'[d] = "done" /\ queue' = queue
    BY DEF vars, ReceiverInv, TypeOK
  <2> DEFINE c == Msg[d[1]].chat
  <2>1. /\ TypeOK /\ HandlersAreRouted /\ RoutesLeadIntoChats
        /\ CallersAreLocal /\ WaitsMatchCalls /\ AnswersArePrivate
    BY DEF ReceiverInv
  <2>2. c \in Chats \ Groups /\ c \in Keys
    BY <2>1, DeliveryType, ReceiverAssumption DEF AnswersArePrivate, ChatOf, Keys
  <2>3. Waiting(b, c) \in Calls
    BY <2>1, <2>2 DEF TypeOK, Waiting
  <2>4. callBot[Waiting(b, c)] = b /\ WaitKey(Waiting(b, c)) = c
    BY <2>1, <2>2 DEF WaitsMatchCalls
  <2>5. TapeChat[Waiting(b, c)] = c
    BY <2>2, <2>3, <2>4, KeyType, ReceiverAssumption
  <2>6. b \in InChat[c]
    BY <2>1, <2>3, <2>4, <2>5, ReceiverAssumption DEF CallersAreLocal, ReceiverAssumption
  <2>7. routing[c] \in InChat[c]
    BY <2>1, <2>2 DEF HandlersAreRouted, RoutesLeadIntoChats, ChatOf
  <2>8. routing[c] = b
    BY <2>2, <2>6, <2>7, ReceiverAssumption DEF ReceiverAssumption
  <2>9. ~NoApproval(d)
    BY <2>8 DEF NoApproval
  <2>10. PICK e \in Deliveries : Deliver(e) \/ Handle(e)
    BY DEF Next, Approve, ReplyAgentOutput, RequestApproval, LookUp, FindAndRegister,
           FindNone, RefuseApproval, WaitApproval, EndApproval
  <2>11. e = d
    BY <2>1, <2>10 DEF TypeOK, Handle, Deliver, RegisterChatRoute, Pass, Duplicate, AnswerID,
                       ConsumeApproval, NoApproval, EnqueueJob
  <2>12. ConsumeApproval(d)
    BY <2>9, <2>10, <2>11 DEF Handle, Deliver, RegisterChatRoute, Pass, Duplicate, AnswerID,
                              EnqueueJob
  <2> QED BY <2>1, <2>12 DEF ConsumeApproval, TypeOK
<1> QED BY <1>1, ReceiverInvariant, PTL DEF Spec, ReplyMeetsItsWait
-----------------------------------------------------------------------------
(***************************************************************************)
(* Refinement.  A request is at most at one place: the one its bot and key   *)
(* name (WaitsMatchCalls).  A handler that looks for an approval finds the   *)
(* only bot of its private chat, whoever wrote the route.                    *)
(***************************************************************************)
THEOREM ReceiverInitRefines == Init => Abstract!AInit
BY DEF Init, Abstract!AInit

LEMMA OnlyWaitersHold ==
  ASSUME ReceiverAssumption, ReceiverInv, NEW k \in Calls, call[k] # "waiting"
  PROVE  ~Abstract!Waits(k)
<1>1. k # None
  BY DEF ReceiverAssumption
<1>2. ASSUME NEW b \in Bots, NEW key \in Keys PROVE wait[<<b, key>>] # k
  <2>1. Waiting(b, key) # None => call[Waiting(b, key)] = "waiting"
    BY DEF ReceiverInv, WaitsMatchCalls
  <2> QED BY <1>1, <2>1 DEF Waiting
<1>3. \A p \in Bots \X Keys : wait[p] # k
  BY <1>2
<1> QED BY <1>3 DEF Abstract!Waits

LEMMA PlaceOfWaiter ==
  ASSUME ReceiverAssumption, ReceiverInv, NEW k \in Calls, callBot[k] # None, WaitKey(k) # None
  PROVE  <<callBot[k], WaitKey(k)>> \in PlacesOf[k] /\ PlacesOf[k] \subseteq Bots \X Keys
<1>1. callBot[k] \in Bots /\ callBot[k] \in InChat[TapeChat[k]]
  BY DEF ReceiverInv, TypeOK, CallersAreLocal
<1>2. WaitKey(k) \in Keys
  BY <1>1, KeyType
<1> QED BY <1>1, <1>2 DEF PlacesOf, WaitKey

LEMMA RouteOfOffer ==
  ASSUME ReceiverAssumption, ReceiverInv, NEW d \in Deliveries, handler[d] = "resolving"
  PROVE  /\ Heard[d[1]] = {<<routing[ChatOf(d)], ChatOf(d)>>}
         /\ <<routing[ChatOf(d)], ChatOf(d)>> \in Bots \X Keys
         /\ taken[d[1]] = None
<1> DEFINE c == ChatOf(d)
<1>1. c \in Chats \ Groups /\ c \in Keys /\ d[1] \in Messages
  BY DeliveryType DEF ReceiverInv, AnswersArePrivate, ChatOf, Keys
<1>2. routing[c] # None
  BY DEF ReceiverInv, HandlersAreRouted
<1>3. routing[c] \in InChat[c] /\ routing[c] \in Bots
  BY <1>1, <1>2 DEF ReceiverInv, RoutesLeadIntoChats, TypeOK
<1>4. InChat[c] = {routing[c]}
  BY <1>1, <1>3 DEF ReceiverAssumption
<1>5. Heard[d[1]] = {<<b, c>> : b \in InChat[c]}
  BY <1>1 DEF Heard, ChatOf
<1>6. taken[d[1]] = None
  BY <1>1 DEF ReceiverInv, OffersArePast
<1> QED BY <1>1, <1>3, <1>4, <1>5, <1>6

LEMMA OfferRefines ==
  ASSUME ReceiverAssumption, ReceiverInv, NEW d \in Deliveries,
         ConsumeApproval(d) \/ NoApproval(d)
  PROVE  Abstract!ANext
<1>1. /\ Heard[d[1]] = {<<routing[ChatOf(d)], ChatOf(d)>>}
      /\ taken[d[1]] = None /\ d[1] \in Messages
  BY RouteOfOffer, DeliveryType DEF ConsumeApproval, NoApproval
<1>2. CASE ConsumeApproval(d)
  <2>1. Abstract!Take(d[1], <<routing[ChatOf(d)], ChatOf(d)>>)
    BY <1>1, <1>2 DEF ConsumeApproval, Waiting, ChatOf, Abstract!Take
  <2> QED BY <1>1, <2>1 DEF Abstract!ANext
<1>3. CASE NoApproval(d)
  <2>1. Abstract!Pass(d[1])
    BY <1>1, <1>3 DEF NoApproval, Waiting, ChatOf, Abstract!Pass
  <2> QED BY <1>1, <2>1 DEF Abstract!ANext
<1> QED BY <1>2, <1>3

LEMMA RequestRefines ==
  ASSUME ReceiverAssumption, ReceiverInv, NEW k \in Calls,
         FindNone(k) \/ RefuseApproval(k) \/ WaitApproval(k) \/ EndApproval(k)
  PROVE  Abstract!ANext
<1>0. TypeOK /\ CallsMatchWaits /\ WaitsMatchCalls
  BY DEF ReceiverInv
<1>1. CASE FindNone(k) \/ RefuseApproval(k)
  <2>1. /\ call[k] \in {"probing", "found"} /\ UNCHANGED <<wait, taken>>
        /\ verdict' = [verdict EXCEPT ![k] = Denied]
    BY <1>1 DEF FindNone, RefuseApproval, Ends
  <2>2. ~Abstract!Waits(k) /\ verdict[k] = None
    BY <1>0, <2>1, OnlyWaitersHold DEF CallsMatchWaits
  <2>3. Abstract!Refuse(k)
    BY <2>1, <2>2 DEF Abstract!Refuse
  <2> QED BY <2>3 DEF Abstract!ANext
<1>2. CASE WaitApproval(k)
  <2> DEFINE p == <<callBot[k], WaitKey(k)>>
  <2>1. /\ call[k] = "found" /\ WaitKey(k) # None /\ wait[p] = None
        /\ wait' = [wait EXCEPT ![p] = k] /\ UNCHANGED <<taken, verdict>>
    BY <1>2 DEF WaitApproval, Waiting
  <2>2. p \in PlacesOf[k]
    BY <1>0, <2>1, PlaceOfWaiter DEF TypeOK
  <2>3. ~Abstract!Waits(k) /\ verdict[k] = None
    BY <1>0, <2>1, OnlyWaitersHold DEF CallsMatchWaits
  <2>4. Abstract!Open(k, p)
    BY <2>1, <2>3 DEF Abstract!Open
  <2> QED BY <2>2, <2>4 DEF Abstract!ANext
<1>3. CASE EndApproval(k)
  <2> DEFINE p == <<callBot[k], WaitKey(k)>>
  <2>1. PICK v \in {Denied} \cup {m \in Messages : taken[m] = k} :
          /\ call[k] = "waiting" /\ UNCHANGED taken
          /\ wait' = [wait EXCEPT ![p] = None] /\ verdict' = [verdict EXCEPT ![k] = v]
    BY <1>3 DEF EndApproval, Ends
  <2>2. callBot[k] # None /\ WaitKey(k) # None /\ wait[p] = k
    BY <1>0, <2>1 DEF CallsMatchWaits, Waiting, ReceiverAssumption, Keys
  <2>3. p \in PlacesOf[k]
    BY <2>2, PlaceOfWaiter
  <2>4. Abstract!Close(k, p, v) /\ v \in Messages \cup {Denied}
    BY <2>1, <2>2 DEF Abstract!Close
  <2> QED BY <2>3, <2>4 DEF Abstract!ANext
<1> QED BY <1>1, <1>2, <1>3

\* Every behaviour of the receiver, with redeliveries, several bots, routes that handlers and
\* searches overwrite, and requests that are refused, denied or answered, is one of Approvals:
\* a request waits at one place of its own chat and alone there, a private text goes to the
\* request that waits at any bot of the chat or passes when none does, is offered once
\* however often it is delivered, and a request ends once (plugin.go:203-258,
\* receiver.go:145-149).
THEOREM ReceiverKeepsApprovals == Spec => KeepsApprovals
<1>1. ReceiverInv /\ [Next]_vars => [Abstract!ANext]_(Abstract!avars)
  <2> SUFFICES ASSUME ReceiverInv, [Next]_vars PROVE [Abstract!ANext]_(Abstract!avars)
    OBVIOUS
  <2>1. ASSUME NEW d \in Deliveries, ConsumeApproval(d) \/ NoApproval(d)
        PROVE  [Abstract!ANext]_(Abstract!avars)
    BY <2>1, OfferRefines, ReceiverAssumption
  <2>2. ASSUME NEW k \in Calls,
               FindNone(k) \/ RefuseApproval(k) \/ WaitApproval(k) \/ EndApproval(k)
        PROVE  [Abstract!ANext]_(Abstract!avars)
    BY <2>2, RequestRefines, ReceiverAssumption
  <2>3. ASSUME UNCHANGED <<wait, verdict, taken>> PROVE [Abstract!ANext]_(Abstract!avars)
    BY <2>3 DEF Abstract!avars
  <2> QED
    BY <2>1, <2>2, <2>3
       DEF Next, Handle, Approve, Deliver, RegisterChatRoute, Pass, Duplicate, AnswerID,
           EnqueueJob, ReplyAgentOutput, RequestApproval, LookUp, FindAndRegister, approvals, vars
<1> QED BY <1>1, ReceiverInvariant, ReceiverInitRefines, PTL
        DEF Spec, KeepsApprovals, Abstract!ASpec
=============================================================================
