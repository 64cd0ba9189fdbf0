--------------------------- MODULE ApproverProofs ---------------------------
(* bot/approver.go: which request a text answers, for every set of requests, *)
(* messages and chats (Approver), and what it grants, for every batch and    *)
(* list (ApprovalChoice).                                                    *)
EXTENDS Approver, ApprovalChoice, SequenceTheorems, TLAPS

\* The approver's types hold in every state, and a call has an answer exactly
\* when it is past its select.
THEOREM ApproverTypes == Spec => []TypeOK
<1> USE ApproverAssumption DEF ApproverAssumption
<1>1. Init => TypeOK
  BY DEF Init, TypeOK
<1>2. TypeOK /\ [Next]_vars => TypeOK'
  <2> SUFFICES ASSUME TypeOK, [Next]_vars PROVE TypeOK'
    OBVIOUS
  <2> USE DEF TypeOK
  <2>1. ASSUME NEW r \in Requests, Busy(r) PROVE TypeOK'
    BY <2>1 DEF Busy
  <2>2. ASSUME NEW r \in Requests, Register(r) PROVE TypeOK'
    BY <2>2 DEF Register
  <2>3. ASSUME NEW r \in Requests, PromptSent(r) PROVE TypeOK'
    BY <2>3 DEF PromptSent
  <2>4. ASSUME NEW r \in Requests, PromptFails(r) PROVE TypeOK'
    BY <2>4 DEF PromptFails
  <2>5. ASSUME NEW r \in Requests, TakeReply(r) PROVE TypeOK'
    BY <2>5 DEF TakeReply
  <2>6. ASSUME NEW r \in Requests, Timeout(r) PROVE TypeOK'
    BY <2>6 DEF Timeout
  <2>7. ASSUME NEW r \in Requests, Deregister(r) PROVE TypeOK'
    BY <2>7 DEF Deregister
  <2>8. ASSUME NEW m \in Messages, Write(m) PROVE TypeOK'
    BY <2>8 DEF Write
  <2>9. ASSUME NEW m \in Messages, LookUp(m) PROVE TypeOK'
    BY <2>9 DEF LookUp
  <2>10. ASSUME NEW m \in Messages, Resolve(m) PROVE TypeOK'
    BY <2>10 DEF Resolve
  <2>11. CASE CancelContext
    BY <2>11 DEF CancelContext
  <2>12. CASE UNCHANGED vars
    BY <2>12 DEF vars
  <2> QED BY <2>1, <2>2, <2>3, <2>4, <2>5, <2>6, <2>7, <2>8, <2>9, <2>10, <2>11,
             <2>12 DEF Next, WaitApproval, TryResolveP2P
<1> QED BY <1>1, <1>2, PTL DEF Spec
-----------------------------------------------------------------------------
(***************************************************************************)
(* AnswerWasAddressed is about the moment a reply is taken; it holds because *)
(* of what was in the channel before (ChannelIsAddressed), and that because  *)
(* of what the handler read (LookupsAreLocal).                               *)
(***************************************************************************)
LookupsAreLocal == \A m \in Messages : handler[m] \in {"resolving", "consumed"} =>
                     entry[m] \in Requests /\ KeyOf[entry[m]] = ChatOf[m]

ChannelIsAddressed == \A r \in Requests : chan[r] # None =>
                        entry[chan[r]] = r /\ handler[chan[r]] = "consumed"

\* A text whose handler has not read the map has no entry, nor has one that passed.
UnreadIsUntaken == \A m \in Messages : handler[m] \in {"unwritten", "arrived", "passed"} =>
                     entry[m] = None

ApproverInv == /\ TypeOK
               /\ WaitMatchesCalls
               /\ UnreadIsUntaken
               /\ LookupsAreLocal
               /\ ChannelIsAddressed
               /\ AnswerWasAddressed
               /\ SwallowedOnlyWhenDecided

THEOREM ApproverInit == Init => ApproverInv
BY ApproverAssumption
   DEF Init, ApproverAssumption, ApproverInv, TypeOK, WaitMatchesCalls, Registered,
       UnreadIsUntaken, LookupsAreLocal, ChannelIsAddressed, AnswerWasAddressed,
       SwallowedOnlyWhenDecided

LEMMA WaitStep ==
  ASSUME ApproverAssumption, ApproverInv, [Next]_vars
  PROVE  WaitMatchesCalls'
<1>0. TypeOK /\ WaitMatchesCalls
  BY DEF ApproverInv
<1> USE <1>0 DEF TypeOK, WaitMatchesCalls, Registered, ApproverAssumption
<1>1. ASSUME NEW r \in Requests, Busy(r) PROVE WaitMatchesCalls'
  BY <1>1 DEF Busy
<1>2. ASSUME NEW r \in Requests, Register(r) PROVE WaitMatchesCalls'
  BY <1>2 DEF Register
<1>3. ASSUME NEW r \in Requests,
             PromptSent(r) \/ PromptFails(r) \/ TakeReply(r) \/ Timeout(r)
      PROVE WaitMatchesCalls'
  BY <1>3 DEF PromptSent, PromptFails, TakeReply, Timeout
<1>4. ASSUME NEW r \in Requests, Deregister(r) PROVE WaitMatchesCalls'
  BY <1>4 DEF Deregister
<1>5. ASSUME NEW m \in Messages, Write(m) \/ LookUp(m) \/ Resolve(m)
      PROVE WaitMatchesCalls'
  BY <1>5 DEF Write, LookUp, Resolve
<1>6. CASE CancelContext \/ UNCHANGED vars
  BY <1>6 DEF CancelContext, vars
<1> QED BY <1>1, <1>2, <1>3, <1>4, <1>5, <1>6 DEF Next, WaitApproval, TryResolveP2P

LEMMA ReplyStep ==
  ASSUME ApproverAssumption, ApproverInv, [Next]_vars
  PROVE  /\ UnreadIsUntaken' /\ LookupsAreLocal' /\ ChannelIsAddressed'
         /\ AnswerWasAddressed' /\ SwallowedOnlyWhenDecided'
<1> DEFINE Goal == /\ UnreadIsUntaken' /\ LookupsAreLocal' /\ ChannelIsAddressed'
                   /\ AnswerWasAddressed' /\ SwallowedOnlyWhenDecided'
<1>0. /\ TypeOK /\ WaitMatchesCalls /\ UnreadIsUntaken /\ LookupsAreLocal
      /\ ChannelIsAddressed /\ AnswerWasAddressed /\ SwallowedOnlyWhenDecided
  BY DEF ApproverInv
<1> USE <1>0, ApproverAssumption
    DEF TypeOK, UnreadIsUntaken, LookupsAreLocal, ChannelIsAddressed, AnswerWasAddressed,
        SwallowedOnlyWhenDecided, ApproverAssumption
<1>1. ASSUME NEW r \in Requests, Busy(r) PROVE Goal
  BY <1>1 DEF Busy
<1>2. ASSUME NEW r \in Requests, Register(r) \/ PromptSent(r) \/ Deregister(r)
      PROVE Goal
  BY <1>2 DEF Register, PromptSent, Deregister
<1>3. ASSUME NEW r \in Requests, PromptFails(r) \/ Timeout(r) PROVE Goal
  BY <1>3 DEF PromptFails, Timeout
<1>4. ASSUME NEW r \in Requests, TakeReply(r) PROVE Goal
  BY <1>4 DEF TakeReply
<1>5. ASSUME NEW m \in Messages, Write(m) PROVE Goal
  BY <1>5 DEF Write
<1>6. ASSUME NEW m \in Messages, LookUp(m) PROVE Goal
  <2>1. wait[ChatOf[m]] # None => wait[ChatOf[m]] \in Requests
                                  /\ KeyOf[wait[ChatOf[m]]] = ChatOf[m]
    BY DEF WaitMatchesCalls
  <2> QED BY <1>6, <2>1 DEF LookUp
<1>7. ASSUME NEW m \in Messages, Resolve(m) PROVE Goal
  BY <1>7 DEF Resolve
<1>8. CASE CancelContext \/ UNCHANGED vars
  BY <1>8 DEF CancelContext, vars
<1> QED BY <1>1, <1>2, <1>3, <1>4, <1>5, <1>6, <1>7, <1>8
        DEF Next, WaitApproval, TryResolveP2P

\* The invariant behind the approver's guarantees holds in every state.
THEOREM ApproverInvariant == Spec => []ApproverInv
<1>1. ApproverInv /\ TypeOK' /\ [Next]_vars => ApproverInv'
  BY WaitStep, ReplyStep, ApproverAssumption DEF ApproverInv
<1> QED BY <1>1, ApproverInit, ApproverTypes, PTL DEF Spec
-----------------------------------------------------------------------------
\* The map of waiting approvals and the calls agree.
THEOREM WaitMapIsExact == Spec => []WaitMatchesCalls
<1>1. ApproverInv => WaitMatchesCalls
  BY DEF ApproverInv
<1> QED BY <1>1, ApproverInvariant, PTL

\* A user's choice reaches only the request its handler found in the map.
THEOREM AnswersAreAddressed == Spec => []AnswerWasAddressed
<1>1. ApproverInv => AnswerWasAddressed
  BY DEF ApproverInv
<1> QED BY <1>1, ApproverInvariant, PTL

\* A consumed reply is lost only when its request is decided without it.
THEOREM RepliesAreNotLost == Spec => []SwallowedOnlyWhenDecided
<1>1. ApproverInv => SwallowedOnlyWhenDecided
  BY DEF ApproverInv
<1> QED BY <1>1, ApproverInvariant, PTL
-----------------------------------------------------------------------------
(* The refinement of Approvals: a step of a call, a step of a handler. *)

THEOREM ApproverInitRefines == Init => Abstract!AInit
BY DEF Init, Abstract!AInit, verdictBar, takenBar

LEMMA CallRefines ==
  ASSUME ApproverAssumption, ApproverInv, NEW r \in Requests, WaitApproval(r)
  PROVE  [Abstract!ANext]_(Abstract!avars)
<1>0. /\ TypeOK /\ WaitMatchesCalls /\ LookupsAreLocal /\ AnswerWasAddressed
      /\ KeyOf[r] \in Chats /\ r # None
  BY DEF ApproverInv, ApproverAssumption
<1>1. takenBar' = takenBar
  BY DEF WaitApproval, Busy, Register, PromptSent, PromptFails, TakeReply, Timeout, Deregister,
         takenBar
<1>2. call[r] = "idle" => ~Abstract!Waits(r)
  BY <1>0 DEF Abstract!Waits, WaitMatchesCalls, Registered
<1>3. CASE Busy(r)
  <2>1. wait' = wait /\ verdictBar[r] = None /\ verdictBar' = [verdictBar EXCEPT ![r] = Denied]
    BY <1>0, <1>3 DEF Busy, verdictBar, TypeOK
  <2>2. Abstract!Refuse(r)
    BY <1>1, <1>2, <1>3, <2>1 DEF Busy, Abstract!Refuse
  <2> QED BY <2>2 DEF Abstract!ANext
<1>4. CASE Register(r)
  <2>1. verdictBar' = verdictBar /\ verdictBar[r] = None
    BY <1>0, <1>4 DEF Register, verdictBar, TypeOK
  <2>2. Abstract!Open(r, KeyOf[r])
    BY <1>1, <1>2, <1>4, <2>1 DEF Register, Abstract!Open
  <2> QED BY <2>2 DEF Abstract!ANext
<1>5. CASE PromptSent(r) \/ PromptFails(r) \/ TakeReply(r) \/ Timeout(r)
  <2>1. wait' = wait /\ call[r] # "returned"
        /\ \E st \in {"waiting", "leaving"} : call' = [call EXCEPT ![r] = st]
        /\ \A q \in Requests : q # r => answer'[q] = answer[q]
    BY <1>0, <1>5 DEF PromptSent, PromptFails, TakeReply, Timeout, TypeOK
  <2>2. verdictBar' = verdictBar
    BY <1>0, <2>1 DEF verdictBar, TypeOK
  <2> QED BY <1>1, <2>1, <2>2 DEF Abstract!avars
<1>6. CASE Deregister(r)
  <2>1. /\ wait' = [wait EXCEPT ![KeyOf[r]] = None] /\ wait[KeyOf[r]] = r
        /\ answer' = answer /\ call' = [call EXCEPT ![r] = "returned"]
        /\ answer[r] \in Messages \cup {Denied}
    BY <1>0, <1>6 DEF Deregister, WaitMatchesCalls, Registered, TypeOK
  <2>2. verdictBar' = [verdictBar EXCEPT ![r] = answer[r]]
    BY <1>0, <2>1 DEF verdictBar, TypeOK
  <2>3. answer[r] = Denied \/ takenBar[answer[r]] = r
    BY <1>0, <2>1 DEF AnswerWasAddressed, takenBar
  <2>4. Abstract!Close(r, KeyOf[r], answer[r])
    BY <1>1, <2>1, <2>2, <2>3 DEF Abstract!Close
  <2> QED BY <2>1, <2>4 DEF Abstract!ANext
<1> QED BY <1>3, <1>4, <1>5, <1>6 DEF WaitApproval

LEMMA HandlerRefines ==
  ASSUME ApproverAssumption, ApproverInv, NEW m \in Messages, Write(m) \/ TryResolveP2P(m)
  PROVE  [Abstract!ANext]_(Abstract!avars)
<1>0. TypeOK /\ UnreadIsUntaken /\ ChatOf[m] \in Chats
  BY DEF ApproverInv, ApproverAssumption
<1>1. wait' = wait /\ verdictBar' = verdictBar
  BY DEF Write, TryResolveP2P, LookUp, Resolve, verdictBar
<1>2. CASE Write(m) \/ Resolve(m)
  <2>1. takenBar' = takenBar
    BY <1>0, <1>2 DEF Write, Resolve, takenBar, TypeOK
  <2> QED BY <1>1, <2>1 DEF Abstract!avars
<1>3. CASE LookUp(m)
  <2>1. takenBar[m] = None
    BY <1>0, <1>3 DEF LookUp, takenBar, UnreadIsUntaken
  <2>2. CASE wait[ChatOf[m]] = None
    <3>1. takenBar' = [takenBar EXCEPT ![m] = "passed"]
      BY <1>0, <1>3, <2>2 DEF LookUp, takenBar, TypeOK
    <3>2. Abstract!Pass(m)
      BY <1>1, <2>1, <2>2, <3>1 DEF Abstract!Pass
    <3> QED BY <3>2 DEF Abstract!ANext
  <2>3. CASE wait[ChatOf[m]] # None
    <3>1. takenBar' = [takenBar EXCEPT ![m] = wait[ChatOf[m]]]
      BY <1>0, <1>3, <2>3 DEF LookUp, takenBar, TypeOK
    <3>2. Abstract!Take(m, ChatOf[m])
      BY <1>1, <2>1, <2>3, <3>1 DEF Abstract!Take
    <3> QED BY <3>2 DEF Abstract!ANext
  <2> QED BY <2>2, <2>3
<1> QED BY <1>2, <1>3 DEF TryResolveP2P

\* Every behaviour of an approver, with its channels, late handlers and timers, is one of
\* Approvals: one request waits in a chat at a time, texts go to the request that waits when
\* they are looked up, and a request ends once, denied or by a text it took
\* (approver.go:167-226).
THEOREM ApproverKeepsApprovals == Spec => KeepsApprovals
<1>1. ApproverInv /\ [Next]_vars => [Abstract!ANext]_(Abstract!avars)
  <2> SUFFICES ASSUME ApproverInv, [Next]_vars PROVE [Abstract!ANext]_(Abstract!avars)
    OBVIOUS
  <2>1. ASSUME NEW r \in Requests, WaitApproval(r) PROVE [Abstract!ANext]_(Abstract!avars)
    BY <2>1, CallRefines, ApproverAssumption
  <2>2. ASSUME NEW m \in Messages, Write(m) \/ TryResolveP2P(m)
        PROVE  [Abstract!ANext]_(Abstract!avars)
    BY <2>2, HandlerRefines, ApproverAssumption
  <2>3. CASE CancelContext \/ UNCHANGED vars
    BY <2>3 DEF CancelContext, vars, Abstract!avars, verdictBar, takenBar
  <2> QED BY <2>1, <2>2, <2>3 DEF Next
<1> QED BY <1>1, ApproverInvariant, ApproverInitRefines, PTL
        DEF Spec, KeepsApprovals, Abstract!ASpec
-----------------------------------------------------------------------------
(* What a reply grants *)

\* Indices are inside the batch, and name the numbers of the list.
LEMMA IndicesNameTheList ==
  ASSUME NEW total \in Nat, NEW list \in Seq(Nat)
  PROVE  /\ parseApprovalIndices(list, total) \in Seq(0 .. total - 1)
         /\ (\A i \in DOMAIN list : list[i] \in 1 .. total) =>
              /\ DOMAIN parseApprovalIndices(list, total) = DOMAIN list
              /\ \A i \in DOMAIN list : parseApprovalIndices(list, total)[i] + 1 = list[i]
<1>1. CASE \A i \in DOMAIN list : list[i] \in 1 .. total
  <2> DEFINE f == [i \in DOMAIN list |-> list[i] - 1]
  <2>1. parseApprovalIndices(list, total) = f
    BY <1>1 DEF parseApprovalIndices
  <2>2. \A i \in DOMAIN list : list[i] - 1 \in 0 .. total - 1 /\ list[i] - 1 + 1 = list[i]
    BY <1>1
  <2>3. DOMAIN list = 1 .. Len(list) /\ Len(list) \in Nat
    OBVIOUS
  <2>4. f \in Seq(0 .. total - 1)
    BY <2>2, <2>3
  <2> QED BY <2>1, <2>2, <2>4
<1>2. CASE ~\A i \in DOMAIN list : list[i] \in 1 .. total
  BY <1>2 DEF parseApprovalIndices
<1> QED BY <1>1, <1>2

LEMMA TextType ==
  ASSUME ChoiceAssumption, NEW t \in Texts
  PROVE  /\ t.list \in Seq(Nat) /\ t.comment \in BOOLEAN
         /\ t.word \in Words => t.list = <<>>
         /\ t.word = "list" => t.list # <<>>
         /\ t.word \in Words \/ t.word = "list"
<1>1. CASE t \in [word : Words, list : {<<>>}, comment : BOOLEAN]
  <2>1. t.list = <<>> /\ t.word \in Words /\ t.comment \in BOOLEAN
    BY <1>1
  <2>2. t.list \in Seq(Nat)
    BY <2>1, EmptySeq
  <2> QED BY <2>1, <2>2 DEF Words
<1>2. CASE t \in [word : {"list"}, list : Lists, comment : BOOLEAN]
  BY <1>2 DEF ChoiceAssumption, Words
<1> QED BY <1>1, <1>2 DEF Texts

ChoiceInv == ChoiceTypeOK /\ GrantsWhatIsNamed

LEMMA TakenTextGrants ==
  ASSUME ChoiceAssumption, ChoiceInv, NEW t \in Texts, TakeText(t)
  PROVE  ChoiceInv'
<1>1. /\ text' = t /\ batchN' = batchN /\ batchN \in Nat
      /\ t.list \in Seq(Nat) /\ t.comment \in BOOLEAN
  <2>1. text' = t /\ batchN' = batchN
    BY DEF TakeText
  <2>2. batchN \in Nat
    BY DEF ChoiceInv, ChoiceTypeOK, ChoiceAssumption
  <2>3. t.list \in Seq(Nat) /\ t.comment \in BOOLEAN
    BY TextType
  <2> QED BY <2>1, <2>2, <2>3
<1>2. /\ WordChoice(t.word) \in Choices
      /\ WordChoice(t.word) \in {1, 2, 3} <=> t.word \in ApprovalWords
  BY DEF ApprovalWords, WordChoice, Once, Sess, Always, Choices, ChoiceDenied, ChoiceApprovedOnce,
         ChoiceApprovedSess, ChoiceApprovedAlways
<1>3. CASE batchN = 0
  <2>1. resp' = [choice |-> WordChoice(t.word), approved |-> <<>>, comment |-> t.comment]
    BY <1>3 DEF TakeText, ParseApprovalChoice
  <2>2. ChoiceTypeOK'
    <3>1. <<>> \in Seq(0 .. batchN - 1)
      OBVIOUS
    <3>2. resp' \in Responses'
      BY <1>1, <1>2, <2>1, <3>1 DEF Responses
    <3> QED BY <1>1, <3>2 DEF ChoiceTypeOK, ChoiceInv
  <2>3. t.word = "list" => t.list # <<>>
    BY TextType
  <2>4. t.word = "list" => 1 \in DOMAIN t.list
    BY <1>1, <2>3, EmptySeq
  <2>5. GrantsWhatIsNamed'
    <3>1. Granted(resp', 1) = IF t.word \in ApprovalWords THEN 1 .. 1 ELSE {}
      BY <1>2, <2>1 DEF Granted
    <3>2. Listed(0) = 1 .. 1
      BY DEF Listed, MaxListed
    <3>3. t.word = "list" => ~(Numbers(t) \subseteq 1 .. 0)
      <4>1. 1 \in DOMAIN t.list => t.list[1] \in Numbers(t)
        BY DEF Numbers
      <4>2. 1 .. 0 = {}
        OBVIOUS
      <4> QED BY <2>4, <4>1, <4>2
    <3>4. Promised(t, 0) = IF t.word \in ApprovalWords THEN 1 .. 1 ELSE {}
      BY <3>2, <3>3 DEF Promised
    <3> QED BY <1>1, <1>3, <3>1, <3>2, <3>4 DEF GrantsWhatIsNamed
  <2> QED BY <2>2, <2>5 DEF ChoiceInv
<1>4. CASE batchN # 0
  <2> DEFINE indices == parseApprovalIndices(t.list, batchN)
             choice == IF t.word = "list" /\ indices # <<>> THEN ChoiceApprovedOnce
                                                           ELSE WordChoice(t.word)
  <2>1. resp' = [choice |-> choice, approved |-> indices, comment |-> t.comment]
    BY <1>4 DEF TakeText, ParseBatchApprovalChoice
  <2>2. indices \in Seq(0 .. batchN - 1)
    BY <1>1, IndicesNameTheList
  <2>3. ChoiceTypeOK'
    BY <1>1, <1>2, <2>1, <2>2 DEF ChoiceTypeOK, Responses, ChoiceInv, Choices, ChoiceApprovedOnce
  <2>4. CASE t.word = "list" /\ \A i \in DOMAIN t.list : t.list[i] \in 1 .. batchN
    <3>1. DOMAIN indices = DOMAIN t.list /\ \A i \in DOMAIN t.list : indices[i] + 1 = t.list[i]
      BY <1>1, <2>4, IndicesNameTheList
    <3>2. indices # <<>>
      BY <1>1, <2>4, <3>1, TextType
    <3>3. choice = 1
      BY <2>4, <3>2 DEF ChoiceApprovedOnce
    <3>4. Granted(resp', batchN) = {indices[i] + 1 : i \in DOMAIN indices}
      BY <2>1, <3>2, <3>3 DEF Granted
    <3>5. {indices[i] + 1 : i \in DOMAIN indices} = Numbers(t)
      BY <3>1 DEF Numbers
    <3>6. Promised(t, batchN) = Numbers(t) \cap Listed(batchN)
      BY <2>4 DEF Promised, ApprovalWords, Numbers
    <3> QED BY <1>1, <1>4, <2>3, <3>4, <3>5, <3>6 DEF ChoiceInv, GrantsWhatIsNamed
  <2>5. CASE ~(t.word = "list" /\ \A i \in DOMAIN t.list : t.list[i] \in 1 .. batchN)
    <3>1. indices = <<>>
      BY <1>1, <2>5, TextType DEF parseApprovalIndices
    <3>2. choice = WordChoice(t.word)
      BY <3>1
    <3>3. Granted(resp', batchN) = IF t.word \in ApprovalWords THEN 1 .. batchN ELSE {}
      BY <1>2, <2>1, <3>1, <3>2 DEF Granted
    <3>4. Listed(batchN) \subseteq 1 .. batchN
      BY <1>1, <1>4 DEF Listed, MaxListed
    <3>5. Promised(t, batchN) = IF t.word \in ApprovalWords THEN Listed(batchN) ELSE {}
      BY <2>5 DEF Promised, Numbers
    <3> QED BY <1>1, <1>4, <2>3, <3>3, <3>4, <3>5 DEF ChoiceInv, GrantsWhatIsNamed
  <2> QED BY <2>4, <2>5
<1> QED BY <1>3, <1>4

\* Whatever the batch and the list, a response grants exactly those of the listed commands
\* that the text names, and nothing besides unless the text is a word of approval; in
\* particular a list never turns into "all" (approver.go:107-164).
THEOREM RepliesGrantWhatTheyName == ChoiceSpec => []GrantsWhatIsNamed
<1> USE ChoiceAssumption
<1>1. ChoiceInit => ChoiceInv
  BY DEF ChoiceInit, ChoiceInv, ChoiceTypeOK, GrantsWhatIsNamed
<1>2. ChoiceInv /\ [ChoiceNext]_choiceVars => ChoiceInv'
  <2> SUFFICES ASSUME ChoiceInv, [ChoiceNext]_choiceVars PROVE ChoiceInv'
    OBVIOUS
  <2>1. ASSUME NEW t \in Texts, TakeText(t) PROVE ChoiceInv'
    BY <2>1, TakenTextGrants
  <2>2. CASE AnswerNothing
    <3>1. /\ resp' = [choice |-> 0, approved |-> <<>>, comment |-> FALSE]
          /\ UNCHANGED <<batchN, text>> /\ text = NoText
      BY <2>2 DEF AnswerNothing, ChoiceDenied
    <3>2. <<>> \in Seq(0 .. batchN - 1)
      OBVIOUS
    <3>3. resp' \in Responses'
      BY <3>1, <3>2 DEF Responses, Choices
    <3>4. \A n : Granted(resp', n) = {} /\ Promised(text, n) = {}
      BY <3>1 DEF Granted, Promised, NoText, ApprovalWords
    <3> QED BY <3>1, <3>3, <3>4 DEF ChoiceInv, ChoiceTypeOK, GrantsWhatIsNamed
  <2>3. CASE Explain
    <3>1. /\ resp.choice = 0 /\ resp' = [resp EXCEPT !.comment = TRUE]
          /\ UNCHANGED <<batchN, text>>
      BY <2>3 DEF Explain, ChoiceDenied
    <3>2. resp # NoResponse /\ resp \in Responses
      BY <3>1 DEF NoResponse, ChoiceInv, ChoiceTypeOK
    <3>3. resp' \in Responses' /\ resp'.choice = 0
      BY <3>1, <3>2 DEF Responses
    <3>4. \A n : Granted(resp, n) = {} /\ Granted(resp', n) = {}
      BY <3>1, <3>3 DEF Granted
    <3> QED BY <3>1, <3>2, <3>3, <3>4 DEF ChoiceInv, ChoiceTypeOK, GrantsWhatIsNamed
  <2>4. CASE UNCHANGED choiceVars
    BY <2>4 DEF choiceVars, ChoiceInv, ChoiceTypeOK, GrantsWhatIsNamed, Responses
  <2> QED BY <2>1, <2>2, <2>3, <2>4 DEF ChoiceNext
<1>3. ChoiceInv => GrantsWhatIsNamed
  BY DEF ChoiceInv
<1> QED BY <1>1, <1>2, <1>3, PTL DEF ChoiceSpec
=============================================================================
