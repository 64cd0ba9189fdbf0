---------------------------- MODULE SenderProofs ----------------------------
(* The sends of bot/message.go, for every number of retries.                 *)
EXTENDS Sender, FiniteSetTheorems, TLAPS

\* The uuids of a send count its requests, a job's reply excepted.
UuidsCount ==
  /\ op = "none" => /\ uuid = 0 /\ attempt = 0 /\ shown = {} /\ result = "pending"
                    /\ format = "md"
  /\ op # "none" => uuid >= 1
  /\ op \in JobOps => uuid = 1 /\ attempt = 0
  /\ op # "none" /\ op \notin JobOps =>
       uuid <= attempt + 1 + (IF format = "md" THEN 0 ELSE MaxSendRetries)

\* Feishu shows one message of a uuid, and of the uuid of a request under way that of an
\* earlier request of the same format, unless it is a job's reply.
OneOfAUuid ==
  /\ \A s \in shown : s.uuid <= uuid
  /\ \A s, t \in shown : s.uuid = t.uuid => s = t
  /\ op \notin JobOps => \A s \in shown : s.uuid = uuid => s.format = format

SenderInv == /\ TypeOK /\ UuidsCount /\ OneOfAUuid
             /\ SuccessIsShown /\ ErrorsAreFinal

\* Nothing is sent before the call.
THEOREM SenderInit == Init => SenderInv
BY SenderAssumption DEF Init, SenderInv, TypeOK, Ops, JobOps, Errors, UuidsCount, OneOfAUuid,
                        SuccessIsShown, ErrorsAreFinal

\* A message Feishu shows is new, or one of its uuid is there already.
LEMMA ShowAdds ==
  ASSUME Show
  PROVE  /\ shown \subseteq shown'
         /\ \E s \in shown' : s.uuid = uuid /\ (s \in shown \/ s.format = format)
         /\ \A s \in shown' : s \in shown \/ (s = [uuid |-> uuid, format |-> format] /\ ~KnownUuid)
<1> DEFINE new == [uuid |-> uuid, format |-> format]
<1>1. new.uuid = uuid /\ new.format = format
  OBVIOUS
<1>2. shown' = IF KnownUuid THEN shown ELSE shown \cup {new}
  BY DEF Show
<1> HIDE DEF new
<1>3. \A s \in shown' : s \in shown \/ (s = new /\ ~KnownUuid)
  BY <1>2
<1>4. \E s \in shown' : s.uuid = uuid /\ (s \in shown \/ s.format = format)
  BY <1>1, <1>2 DEF KnownUuid
<1> QED BY <1>2, <1>3, <1>4 DEF new

\* What is shown with the uuid of the request under way, after it.
LEMMA ShowKeeps ==
  ASSUME SenderAssumption, SenderInv, Busy, Show \/ UNCHANGED shown
  PROVE  /\ shown' \subseteq [uuid : 1 .. 2 * MaxSendRetries, format : {"md", "text"}]
         /\ \A s \in shown' : s.uuid <= uuid
         /\ \A s, t \in shown' : s.uuid = t.uuid => s = t
         /\ op \notin JobOps => \A s \in shown' : s.uuid = uuid => s.format = format
<1>1. TypeOK /\ UuidsCount /\ OneOfAUuid /\ op # "none" /\ uuid \in 1 .. 2 * MaxSendRetries
  BY SenderAssumption DEF SenderInv, Busy, TypeOK, UuidsCount
<1>2. CASE UNCHANGED shown
  BY <1>1, <1>2 DEF TypeOK, OneOfAUuid
<1>3. CASE Show
  <2> DEFINE new == [uuid |-> uuid, format |-> format]
  <2>1. new \in [uuid : 1 .. 2 * MaxSendRetries, format : {"md", "text"}]
    BY <1>1 DEF TypeOK
  <2>2. new.uuid = uuid /\ new.format = format
    OBVIOUS
  <2>3. \A s \in shown' : s \in shown \/ (s = new /\ ~KnownUuid)
    BY <1>3, ShowAdds
  <2> HIDE DEF new
  <2> QED BY <1>1, <2>1, <2>2, <2>3 DEF TypeOK, OneOfAUuid, KnownUuid
<1> QED BY <1>2, <1>3

\* What becomes of a send whose request did not succeed.
LEMMA FailureKeeps ==
  ASSUME SenderAssumption, SenderInv, Busy, UNCHANGED op,
         Show \/ UNCHANGED shown,
         NEW err \in Errors \cup {"refused"}, lastErr' = err,
         \/ Retries(err) /\ Retry
         \/ FallBack
         \/ ~Retries(err) /\ GiveUp
  PROVE  SenderInv'
<1>1. TypeOK /\ UuidsCount /\ OneOfAUuid /\ op # "none" /\ result = "pending"
  BY DEF SenderInv, Busy
<1>2. /\ shown' \subseteq [uuid : 1 .. 2 * MaxSendRetries, format : {"md", "text"}]
      /\ \A s \in shown' : s.uuid <= uuid
      /\ \A s, t \in shown' : s.uuid = t.uuid => s = t
      /\ op \notin JobOps => \A s \in shown' : s.uuid = uuid => s.format = format
  BY ShowKeeps
<1>3. CASE Retries(err) /\ Retry
  <2>1. /\ op \notin JobOps /\ attempt < MaxSendRetries - 1
        /\ attempt' = attempt + 1 /\ uuid' = uuid + 1
        /\ UNCHANGED <<op, format, result>>
    BY <1>3 DEF Retries, Retry
  <2>2. TypeOK' /\ UuidsCount'
    BY <1>1, <1>2, <2>1, SenderAssumption DEF TypeOK, UuidsCount, SenderAssumption
  <2>3. OneOfAUuid'
    BY <1>1, <1>2, <2>1 DEF TypeOK, OneOfAUuid
  <2> QED BY <1>1, <2>1, <2>2, <2>3 DEF SenderInv, SuccessIsShown, ErrorsAreFinal
<1>4. CASE FallBack
  <2>1. /\ format = "md" /\ format' = "text" /\ attempt' = 0
        /\ uuid' = (IF op \in JobOps THEN uuid ELSE uuid + 1)
        /\ UNCHANGED <<op, result>>
    BY <1>4 DEF FallBack
  <2>2. TypeOK' /\ UuidsCount'
    BY <1>1, <1>2, <2>1, SenderAssumption DEF TypeOK, UuidsCount, SenderAssumption
  <2>3. OneOfAUuid'
    BY <1>1, <1>2, <2>1 DEF TypeOK, OneOfAUuid
  <2> QED BY <1>1, <2>1, <2>2, <2>3 DEF SenderInv, SuccessIsShown, ErrorsAreFinal
<1>5. CASE ~Retries(err) /\ GiveUp
  <2>1. /\ format = "text" /\ result' = "error" /\ ~Retries(err)
        /\ UNCHANGED <<op, format, attempt, uuid>>
    BY <1>5 DEF GiveUp
  <2>2. TypeOK' /\ UuidsCount' /\ OneOfAUuid'
    BY <1>1, <1>2, <2>1 DEF TypeOK, UuidsCount, OneOfAUuid
  <2>3. ErrorsAreFinal'
    BY <1>1, <2>1, SenderAssumption DEF TypeOK, Retries, IsRetryable, ErrorsAreFinal, SenderAssumption
  <2> QED BY <2>1, <2>2, <2>3 DEF SenderInv, SuccessIsShown
<1> QED BY <1>3, <1>4, <1>5

LEMMA SenderStep ==
  ASSUME SenderAssumption, SenderInv, [Next]_vars
  PROVE  SenderInv'
<1>1. ASSUME NEW o \in Ops, Send(o) PROVE SenderInv'
  BY <1>1 DEF Send, SenderInv, TypeOK, Ops, JobOps, UuidsCount, OneOfAUuid, SuccessIsShown,
              ErrorsAreFinal, SenderAssumption
<1>2. CASE RequestSucceeds
  <2>1. /\ Busy /\ Show /\ result' = "nil"
        /\ UNCHANGED <<op, format, attempt, uuid, lastErr>>
    BY <1>2 DEF RequestSucceeds
  <2>2. TypeOK' /\ UuidsCount' /\ OneOfAUuid'
    BY <2>1, ShowKeeps DEF SenderInv, Busy, TypeOK, UuidsCount, OneOfAUuid
  <2>3. SuccessIsShown'
    BY <2>1, ShowAdds DEF SenderInv, OneOfAUuid, SuccessIsShown
  <2> QED BY <2>1, <2>2, <2>3 DEF SenderInv, ErrorsAreFinal
<1>3. CASE RequestRefused
  <2>1. ~Retries("refused")
    BY DEF Retries, IsRetryable
  <2> QED BY <1>3, <2>1, FailureKeeps DEF RequestRefused
<1>4. CASE RequestErrs
  <2>1. PICK err \in Errors :
          /\ Busy
          /\ Show \/ UNCHANGED shown
          /\ lastErr' = err
          /\ \/ Retries(err) /\ Retry
             \/ ~Retries(err) /\ FallBack
             \/ ~Retries(err) /\ GiveUp
          /\ UNCHANGED op
    BY <1>4 DEF RequestErrs
  <2> QED BY <2>1, FailureKeeps
<1>5. CASE UNCHANGED vars
  BY <1>5 DEF vars, SenderInv, TypeOK, UuidsCount, OneOfAUuid, SuccessIsShown, ErrorsAreFinal
<1> QED BY <1>1, <1>2, <1>3, <1>4, <1>5 DEF Next, Request

\* The invariant behind the sender's guarantees holds for every number of retries.
THEOREM SenderInvariant == Spec => []SenderInv
<1>1. SenderInv /\ [Next]_vars => SenderInv'
  BY SenderStep, SenderAssumption
<1> QED BY <1>1, SenderInit, PTL DEF Spec
-----------------------------------------------------------------------------
\* A job's reply is shown at most once, although its text follows a post whose fate is
\* unknown (message.go:187, 241).
THEOREM JobRepliesAreShownOnce == Spec => []JobReplyShownOnce
<1>1. SenderInv => JobReplyShownOnce
  <2> SUFFICES ASSUME SenderInv, op \in JobOps PROVE Cardinality(shown) <= 1
    BY DEF JobReplyShownOnce
  <2>1. \A s, t \in shown : s = t
    <3>1. \A s \in shown : s.uuid = 1
      BY DEF SenderInv, TypeOK, UuidsCount, OneOfAUuid
    <3> QED BY <3>1 DEF SenderInv, OneOfAUuid
  <2>2. CASE shown = {}
    <3>1. Cardinality(shown) = 0
      BY <2>2, FS_EmptySet
    <3> QED BY <3>1
  <2>3. CASE shown # {}
    <3>1. PICK s : shown = {s}
      BY <2>1, <2>3
    <3>2. Cardinality(shown) = 1
      BY <3>1, FS_Singleton
    <3> QED BY <3>2
  <2> QED BY <2>2, <2>3
<1> QED BY <1>1, SenderInvariant, PTL

\* A send that returns nil has been shown (message.go:76-105, 254-290).
THEOREM SuccessesAreShown == Spec => []SuccessIsShown
<1>1. SenderInv => SuccessIsShown
  BY DEF SenderInv
<1> QED BY <1>1, SenderInvariant, PTL

\* A send that returns an error has tried the plain text, as often as it may
\* (message.go:76-105, 151-158).
THEOREM NoSendGivesUpEarly == Spec => []ErrorsAreFinal
<1>1. SenderInv => ErrorsAreFinal
  BY DEF SenderInv
<1> QED BY <1>1, SenderInvariant, PTL

\* A send makes at most 2 * MaxSendRetries requests: each leaves fewer to come, from a number
\* in that range (message.go:76-105, 151-158, 210-243).
THEOREM SendsAreBounded == Spec => [](RequestsLeft \in 0 .. 2 * MaxSendRetries) /\ RequestsRunOut
<1> USE SenderAssumption DEF SenderAssumption
<1>1. SenderInv => RequestsLeft \in 0 .. 2 * MaxSendRetries
  BY DEF SenderInv, TypeOK, UuidsCount, RequestsLeft
<1>2. SenderInv /\ [Next]_vars => [Busy => RequestsLeft' < RequestsLeft]_vars
  <2> SUFFICES ASSUME SenderInv, Next, Busy PROVE RequestsLeft' < RequestsLeft
    OBVIOUS
  <2>1. TypeOK /\ UuidsCount /\ op # "none" /\ result = "pending"
    BY DEF SenderInv, Busy
  <2>2. \/ result' # "pending" /\ UNCHANGED op
        \/ FallBack /\ UNCHANGED op
        \/ Retry /\ op \notin JobOps /\ UNCHANGED op
    BY <2>1 DEF Next, Send, Request, RequestSucceeds, RequestRefused, RequestErrs, GiveUp, Retries
  <2>3. CASE result' # "pending"
    BY <2>1, <2>3 DEF RequestsLeft, TypeOK, UuidsCount
  <2>4. CASE FallBack /\ UNCHANGED op
    BY <2>1, <2>4 DEF RequestsLeft, FallBack, TypeOK, UuidsCount
  <2>5. CASE Retry /\ op \notin JobOps /\ UNCHANGED op
    BY <2>1, <2>5 DEF RequestsLeft, Retry, TypeOK
  <2> QED BY <2>2, <2>3, <2>4, <2>5
<1> QED BY <1>1, <1>2, SenderInvariant, PTL DEF Spec, RequestsRunOut
=============================================================================
