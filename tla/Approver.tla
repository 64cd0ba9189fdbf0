------------------------------ MODULE Approver ------------------------------
(***************************************************************************)
(* internal/bot/approver.go: one Approver, its map of waiting approvals, and *)
(* the two kinds of goroutine that meet in it: WaitApproval calls (one per   *)
(* RequestApproval or RequestBatchApproval of the host) and TryResolveP2P    *)
(* calls (one per inbound message, each in the goroutine of its event).      *)
(*                                                                           *)
(* A request is also its map entry and its reply channel: WaitApproval makes *)
(* one of each.  A reply is named by the message it came from.  How a text   *)
(* becomes a choice is module ApprovalChoice.                                *)
(***************************************************************************)
EXTENDS Naturals, FiniteSets

CONSTANTS Requests,  \* approval requests of the host
          Messages,  \* texts written in the chats
          Chats,     \* keys of Approver.Wait
          KeyOf,     \* the chat a request waits under
          ChatOf,    \* the chat a message is written in
          None,      \* a missing entry or reply
          Denied     \* ApprovalReply{Choice: ChoiceDenied}, made by the code

ASSUME ApproverAssumption ==
         /\ None \notin Requests \cup Messages
         /\ Denied \notin Messages \cup {None}
         /\ KeyOf \in [Requests -> Chats]
         /\ ChatOf \in [Messages -> Chats]

VARIABLES wait,     \* Approver.Wait: chat -> registered request
          chan,     \* the reply channel of each request (capacity 1)
          call,     \* where each WaitApproval is
          answer,   \* the ApprovalReply each WaitApproval returns
          handler,  \* where the handler of each message is
          entry,    \* the map entry a TryResolveP2P read under the lock
          ctxDone   \* the plugin's run context is cancelled (Shutdown)

vars == <<wait, chan, call, answer, handler, entry, ctxDone>>

TypeOK == /\ wait \in [Chats -> Requests \cup {None}]
          /\ chan \in [Requests -> Messages \cup {None}]
          /\ call \in [Requests -> {"idle", "prompting", "waiting", "leaving", "returned"}]
          /\ answer \in [Requests -> Messages \cup {None, Denied}]
          /\ handler \in [Messages -> {"unwritten", "arrived", "resolving",
                                       "consumed", "passed"}]
          /\ entry \in [Messages -> Requests \cup {None}]
          /\ ctxDone \in BOOLEAN
          /\ \A r \in Requests : answer[r] # None <=> call[r] \in {"leaving", "returned"}

Init == /\ wait = [c \in Chats |-> None]
        /\ chan = [r \in Requests |-> None]
        /\ call = [r \in Requests |-> "idle"]
        /\ answer = [r \in Requests |-> None]
        /\ handler = [m \in Messages |-> "unwritten"]
        /\ entry = [m \in Messages |-> None]
        /\ ctxDone = FALSE
-----------------------------------------------------------------------------
(* WaitApproval *)

\* Another request of the chat is waiting: denied at once, nothing is sent.
Busy(r) == /\ call[r] = "idle"
           /\ wait[KeyOf[r]] # None
           /\ call' = [call EXCEPT ![r] = "returned"]
           /\ answer' = [answer EXCEPT ![r] = Denied]
           /\ UNCHANGED <<wait, chan, handler, entry, ctxDone>>

\* Mutant: the busy check is dropped.
RegisterOver(r) == /\ call[r] = "idle"
                   /\ wait' = [wait EXCEPT ![KeyOf[r]] = r]
                   /\ call' = [call EXCEPT ![r] = "prompting"]
                   /\ UNCHANGED <<chan, answer, handler, entry, ctxDone>>

Register(r) == /\ call[r] = "idle"
               /\ wait[KeyOf[r]] = None
               /\ wait' = [wait EXCEPT ![KeyOf[r]] = r]
               /\ call' = [call EXCEPT ![r] = "prompting"]
               /\ UNCHANGED <<chan, answer, handler, entry, ctxDone>>

PromptSent(r) == /\ call[r] = "prompting"
                 /\ ~ctxDone
                 /\ call' = [call EXCEPT ![r] = "waiting"]
                 /\ UNCHANGED <<wait, chan, answer, handler, entry, ctxDone>>

\* Mutant: an error of sendFn is not returned.
PromptFailsUnnoticed(r) == /\ call[r] = "prompting"
                           /\ UNCHANGED vars

\* Feishu may have shown the prompt all the same.
PromptFails(r) == /\ call[r] = "prompting"
                  /\ answer' = [answer EXCEPT ![r] = Denied]
                  /\ call' = [call EXCEPT ![r] = "leaving"]
                  /\ UNCHANGED <<wait, chan, handler, entry, ctxDone>>

\* Mutant: the wait goes on after a reply.
TakeReplyAndWait(r) == /\ call[r] = "waiting"
                       /\ chan[r] # None
                       /\ chan' = [chan EXCEPT ![r] = None]
                       /\ UNCHANGED <<wait, call, answer, handler, entry, ctxDone>>

TakeReply(r) == /\ call[r] = "waiting"
                /\ chan[r] # None
                /\ answer' = [answer EXCEPT ![r] = chan[r]]
                /\ chan' = [chan EXCEPT ![r] = None]
                /\ call' = [call EXCEPT ![r] = "leaving"]
                /\ UNCHANGED <<wait, handler, entry, ctxDone>>

\* The timer may win even when a reply is in the channel.
Timeout(r) == /\ call[r] = "waiting"
              /\ answer' = [answer EXCEPT ![r] = Denied]
              /\ call' = [call EXCEPT ![r] = "leaving"]
              /\ UNCHANGED <<wait, chan, handler, entry, ctxDone>>

\* The deferred delete(a.Wait, chatID), whatever entry it holds.
Deregister(r) == /\ call[r] = "leaving"
                 /\ wait' = [wait EXCEPT ![KeyOf[r]] = None]
                 /\ call' = [call EXCEPT ![r] = "returned"]
                 /\ UNCHANGED <<chan, answer, handler, entry, ctxDone>>
-----------------------------------------------------------------------------
(* A user writes; the handler of the message tries to resolve an approval.   *)

Write(m) == /\ handler[m] = "unwritten"
            /\ handler' = [handler EXCEPT ![m] = "arrived"]
            /\ UNCHANGED <<wait, chan, call, answer, entry, ctxDone>>

\* The lookup, under the lock; without an entry the message goes on to the
\* job queue.
LookUp(m) == /\ handler[m] = "arrived"
             /\ entry' = [entry EXCEPT ![m] = wait[ChatOf[m]]]
             /\ handler' = [handler EXCEPT ![m] = IF wait[ChatOf[m]] = None
                                                  THEN "passed" ELSE "resolving"]
             /\ UNCHANGED <<wait, chan, call, answer, ctxDone>>

\* Mutants: the map is read again for the send; the channel has no buffer.
ResolveReread(m) == LET r == wait[ChatOf[m]] IN
                    /\ handler[m] = "resolving"
                    /\ chan' = IF r # None /\ chan[r] = None
                               THEN [chan EXCEPT ![r] = m] ELSE chan
                    /\ handler' = [handler EXCEPT ![m] = "consumed"]
                    /\ UNCHANGED <<wait, call, answer, entry, ctxDone>>

ResolveUnbuffered(m) == /\ handler[m] = "resolving"
                        /\ chan' = IF chan[entry[m]] = None /\ call[entry[m]] = "waiting"
                                   THEN [chan EXCEPT ![entry[m]] = m] ELSE chan
                        /\ handler' = [handler EXCEPT ![m] = "consumed"]
                        /\ UNCHANGED <<wait, call, answer, entry, ctxDone>>

\* Any text parses as some choice, whenever it was written and for whatever prompt; the
\* send does not block, and the message counts as consumed even when the channel is full.
Resolve(m) == /\ handler[m] = "resolving"
              /\ chan' = IF chan[entry[m]] = None
                         THEN [chan EXCEPT ![entry[m]] = m] ELSE chan
              /\ handler' = [handler EXCEPT ![m] = "consumed"]
              /\ UNCHANGED <<wait, call, answer, entry, ctxDone>>

\* Plugin.Shutdown cancels the run context that sendFn uses.
CancelContext == /\ ~ctxDone
                 /\ ctxDone' = TRUE
                 /\ UNCHANGED <<wait, chan, call, answer, handler, entry>>
-----------------------------------------------------------------------------
WaitApproval(r) == \/ Busy(r) \/ Register(r) \/ PromptSent(r) \/ PromptFails(r)
                   \/ TakeReply(r) \/ Timeout(r) \/ Deregister(r)

TryResolveP2P(m) == LookUp(m) \/ Resolve(m)

Next == \/ \E r \in Requests : WaitApproval(r)
        \/ \E m \in Messages : Write(m) \/ TryResolveP2P(m)
        \/ CancelContext

\* Goroutines run.  Neither the clock nor the prompt is assumed to advance: the client sets
\* no time-out for a request (client.go:28), so sendFn returns for certain only when its
\* context is cancelled.
Fairness ==
  /\ \A r \in Requests : WF_vars(TakeReply(r) \/ Deregister(r) \/ (ctxDone /\ PromptFails(r)))
  /\ \A m \in Messages : WF_vars(TryResolveP2P(m))

\* time.NewTimer(timeout) fires; only the properties that need it assume it.
ClockFairness == \A r \in Requests : WF_vars(Timeout(r))

Spec == Init /\ [][Next]_vars /\ Fairness
-----------------------------------------------------------------------------
(* Properties *)

Registered(r) == call[r] \in {"prompting", "waiting", "leaving"}

\* The map and the calls agree: a call that will run the deferred delete owns
\* the entry it deletes, so no approval removes another one's entry
\* (approver.go:200-212).
WaitMatchesCalls == /\ \A r \in Requests : Registered(r) => wait[KeyOf[r]] = r
                    /\ \A c \in Chats : wait[c] # None =>
                         Registered(wait[c]) /\ KeyOf[wait[c]] = c

\* A request returns a user's choice only from a message of its own chat whose
\* handler looked the map up while this very request was registered, however
\* late the handler sends (approver.go:168-193).
AnswerWasAddressed == \A r \in Requests : answer[r] \in Messages =>
                        /\ entry[answer[r]] = r
                        /\ ChatOf[answer[r]] = KeyOf[r]
                        /\ handler[answer[r]] = "consumed"

\* A message that was taken from the conversation as an approval reply is the
\* reply of its request, or on its way to be, or its request was decided without
\* it: no consumed reply vanishes while its request is still open
\* (approver.go:189-193 and 220-225).
SwallowedOnlyWhenDecided ==
  \A m \in Messages : handler[m] = "consumed" =>
    LET r == entry[m] IN answer[r] # None \/ chan[r] # None

\* The timer starts when sendFn has returned (approver.go:214, 218).
PastPrompt(r) == call[r] \in {"waiting", "leaving"}

\* Provided that timers fire, every WaitApproval that is past its prompt returns, and once
\* the context is cancelled so does one whose prompt hangs; then the chat is free
\* (approver.go:208-225).
EveryWaitEnds == ClockFairness =>
                   \A r \in Requests : PastPrompt(r) \/ (ctxDone /\ Registered(r))
                                         ~> call[r] = "returned"

\* A reply that is in the channel ends the wait, with no help from the clock
\* (approver.go:220-222).
ReplyEndsWait == \A r \in Requests :
                   chan[r] # None /\ call[r] = "waiting" ~> call[r] = "returned"
-----------------------------------------------------------------------------
(* Refinement: an approver keeps the promises of Approvals.  A text is taken *)
(* when its handler reads the map, long before it is in the channel; a call  *)
(* has ended when it has left the map.                                       *)

verdictBar == [r \in Requests |-> IF call[r] = "returned" THEN answer[r] ELSE None]

takenBar == [m \in Messages |-> IF handler[m] = "passed" THEN "passed" ELSE entry[m]]

Abstract == INSTANCE Approvals WITH Texts <- Messages, Places <- Chats,
                                    PlacesOf <- [r \in Requests |-> {KeyOf[r]}],
                                    Heard <- [m \in Messages |-> {ChatOf[m]}],
                                    Passed <- "passed",
                                    holder <- wait, verdict <- verdictBar, taken <- takenBar

\* One request waits in a chat at a time; a text is taken by the request that waits when
\* its handler reads the map and passes only when none waits; a request ends once, denied
\* or by a text it took (approver.go:167-226).
KeepsApprovals == Abstract!ASpec
=============================================================================
