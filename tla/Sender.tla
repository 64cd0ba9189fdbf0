------------------------------- MODULE Sender -------------------------------
(***************************************************************************)
(* internal/bot/message.go: one text on its way to Feishu.  Four functions   *)
(* send: SendTextToChat, SendApprovalMessageToChat, DeliverIMTextToP2PChat   *)
(* and DeliverIMTextForJob.  Each makes requests one after the other;        *)
(* concurrent sends share nothing.                                           *)
(*                                                                           *)
(* Feishu is external: it shows the message of a request unless it refuses   *)
(* it, or has already shown one with the same uuid.  A request that ends in  *)
(* a Go error may or may not have reached it.                                *)
(***************************************************************************)
EXTENDS Naturals, FiniteSets

CONSTANTS MaxSendRetries  \* maxSendRetries, 3 in the code

ASSUME SenderAssumption == MaxSendRetries \in Nat \ {0}

VARIABLES op,       \* the function called, with its preferMarkdown
          format,   \* of the request under way
          attempt,  \* of the loop under way
          uuid,     \* of the request under way; times differ, so uuids do
          shown,    \* the messages Feishu shows: [uuid, format]
          lastErr,  \* what the last failed request said
          result    \* what the function returned

vars == <<op, format, attempt, uuid, shown, lastErr, result>>

Ops == {"SendText", "SendApproval", "DeliverMarkdown", "DeliverText",
        "JobMarkdown", "JobText"}
JobOps == {"JobMarkdown", "JobText"}       \* DeliverIMTextForJob: no retries, one uuid
MarkdownOps == {"SendApproval", "DeliverMarkdown", "JobMarkdown"}

\* Texts of Go errors, told apart by what isRetryableError looks for in them.
Errors == {"connection", "timeout", "eof", "other"}

TypeOK == /\ op \in Ops \cup {"none"}
          /\ format \in {"md", "text"}
          /\ attempt \in 0 .. MaxSendRetries - 1
          /\ uuid \in 0 .. 2 * MaxSendRetries
          /\ shown \subseteq [uuid : 1 .. 2 * MaxSendRetries, format : {"md", "text"}]
          /\ lastErr \in Errors \cup {"none", "refused"}
          /\ result \in {"pending", "nil", "error"}

Init == /\ op = "none" /\ format = "md" /\ attempt = 0 /\ uuid = 0
        /\ shown = {} /\ lastErr = "none" /\ result = "pending"
-----------------------------------------------------------------------------
Send(o) == /\ op = "none"
           /\ op' = o
           /\ format' = IF o \in MarkdownOps THEN "md" ELSE "text"
           /\ uuid' = 1
           /\ UNCHANGED <<attempt, shown, lastErr, result>>

Busy == op # "none" /\ result = "pending"

\* The error is lowered before it is compared, "EOF" is not: it never matches.
IsRetryable(err) == err \in {"connection", "timeout"}

KnownUuid == \E s \in shown : s.uuid = uuid

\* The message is shown, unless Feishu already shows one of the uuid.
Show == shown' = IF KnownUuid THEN shown
                 ELSE shown \cup {[uuid |-> uuid, format |-> format]}

\* Mutant: the text of a job's reply gets a uuid of its own.
FallBackAnew == /\ format = "md"
                /\ format' = "text" /\ attempt' = 0 /\ uuid' = uuid + 1
                /\ UNCHANGED result

\* A Markdown post that failed is followed by the plain text.
FallBack == /\ format = "md"
            /\ format' = "text"
            /\ attempt' = 0
            /\ uuid' = IF op \in JobOps THEN uuid ELSE uuid + 1
            /\ UNCHANGED result

GiveUp == /\ format = "text"
          /\ result' = "error"
          /\ UNCHANGED <<format, attempt, uuid>>

RequestSucceeds == /\ Busy
                   /\ Show
                   /\ result' = "nil"
                   /\ UNCHANGED <<op, format, attempt, uuid, lastErr>>

\* resp.Success() is false: not retried.
RequestRefused == /\ Busy
                  /\ ~KnownUuid
                  /\ FallBack \/ GiveUp
                  /\ lastErr' = "refused"
                  /\ UNCHANGED <<op, shown>>

\* Mutant: the last attempt but one gives up.
RetriesLess(err) == /\ op \notin JobOps
                    /\ IsRetryable(err)
                    /\ attempt + 1 < MaxSendRetries - 1

Retries(err) == /\ op \notin JobOps
                /\ IsRetryable(err)
                /\ attempt < MaxSendRetries - 1

\* Mutant: the loop does not count.
RetryUncounted == /\ uuid' = uuid
                  /\ UNCHANGED <<format, attempt, result>>

Retry == /\ attempt' = attempt + 1
         /\ uuid' = uuid + 1
         /\ UNCHANGED <<format, result>>

\* Mutant: a retryable error of the last attempt is taken for success.
RequestErrsQuietly == \E err \in Errors :
  /\ Busy
  /\ Show \/ UNCHANGED shown
  /\ lastErr' = err
  /\ \/ Retries(err) /\ Retry
     \/ ~Retries(err) /\ result' = "nil" /\ UNCHANGED <<format, attempt, uuid>>
  /\ UNCHANGED op

\* A Go error does not tell whether Feishu has the request.
RequestErrs == \E err \in Errors :
  /\ Busy
  /\ Show \/ UNCHANGED shown
  /\ lastErr' = err
  /\ \/ Retries(err) /\ Retry
     \/ ~Retries(err) /\ FallBack
     \/ ~Retries(err) /\ GiveUp
  /\ UNCHANGED op

Request == RequestSucceeds \/ RequestRefused \/ RequestErrs

Next == (\E o \in Ops : Send(o)) \/ Request

\* No fairness: the client sets no time-out (client.go:28), so a request may hang for as long
\* as its context lives.
Spec == Init /\ [][Next]_vars
-----------------------------------------------------------------------------
(* Properties *)

\* The reply to a job is shown at most once: when its post was lost on the way back, the
\* text that follows has the same uuid and Feishu drops it (message.go:187, 241).
JobReplyShownOnce == op \in JobOps => Cardinality(shown) <= 1

\* A send that returns nil has been shown, in the format of its last request or, for a job,
\* in that of the post whose answer was lost.
SuccessIsShown == result = "nil" =>
                    \E s \in shown : s.uuid = uuid /\ (s.format = format \/ op \in JobOps)

\* No send gives up early: a function that returns an error has tried the plain text, and
\* unless it is a job's reply, a time-out or a lost connection was its last attempt
\* (message.go:76-105, 151-158).
ErrorsAreFinal == result = "error" =>
                    /\ format = "text"
                    /\ op \notin JobOps /\ lastErr \in {"connection", "timeout"}
                         => attempt = MaxSendRetries - 1

\* The requests a send may still make: two loops for a post and its text, one for a text, and
\* for a job's reply one request for each.
RequestsLeft == LET attempts == IF op \in JobOps THEN 1 ELSE MaxSendRetries
                IN  IF result # "pending" THEN 0
                    ELSE attempts - attempt + (IF format = "md" THEN attempts ELSE 0)

\* Whatever Feishu answers, each request leaves fewer to come, also when the post falls back
\* to the text and the loop starts anew; there are never more than 2 * MaxSendRetries
\* (message.go:76-105, 151-158, 210-243).
RequestsRunOut == [][Busy => RequestsLeft' < RequestsLeft]_vars
=============================================================================
