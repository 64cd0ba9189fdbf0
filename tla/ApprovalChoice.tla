--------------------------- MODULE ApprovalChoice ---------------------------
(***************************************************************************)
(* internal/bot/approver.go: what a text approves.  HandleSingle and         *)
(* HandleBatch wait for a text (module Approver); ParseApprovalChoice or     *)
(* ParseBatchApprovalChoice turns it into the response for the host.         *)
(*                                                                           *)
(* A text is its part before "//", lowered and trimmed: a word, or numbers   *)
(* separated by commas.  An entry strconv.Atoi rejects, or a number below 1, *)
(* is 0.  Whether a comment follows is a flag.                               *)
(***************************************************************************)
EXTENDS Integers, Sequences

CONSTANTS Sizes,     \* numbers of commands in a batch
          Lists      \* lists of numbers users write

ASSUME ChoiceAssumption == /\ Sizes \subseteq Nat \ {0}
                           /\ Lists \subseteq Seq(Nat) \ {<<>>}

ChoiceDenied == 0
ChoiceApprovedOnce == 1
ChoiceApprovedSess == 2
ChoiceApprovedAlways == 3
Choices == 0 .. 3

\* "" is the empty text, "other" any text that is no list and no word the code knows.
Words == {"", "y", "yes", "s", "session", "a", "always", "n", "no", "other"}

Texts == [word : Words, list : {<<>>}, comment : BOOLEAN]
           \cup [word : {"list"}, list : Lists, comment : BOOLEAN]

NoText == [word |-> "none", list |-> <<>>, comment |-> FALSE]  \* denied without a text

VARIABLES batchN,  \* 0 for a single tool, else the size of the batch
          text,    \* the text WaitApproval took, NoText when it took none
          resp     \* the response: choice, Approved indices, comment (nil is <<>>)

choiceVars == <<batchN, text, resp>>

NoResponse == [choice |-> -1, approved |-> <<>>, comment |-> FALSE]
Responses == [choice : Choices, approved : Seq(0 .. batchN - 1), comment : BOOLEAN]

ChoiceTypeOK == /\ batchN \in Sizes \cup {0}
                /\ text \in Texts \cup {NoText}
                /\ resp = NoResponse \/ resp \in Responses

ChoiceInit == /\ batchN \in Sizes \cup {0}
              /\ text = NoText
              /\ resp = NoResponse
-----------------------------------------------------------------------------
Once(w) == w \in {"y", "yes"}
Sess(w) == w \in {"s", "session"}
Always(w) == w \in {"a", "always"}

WordChoice(w) == IF Once(w) THEN ChoiceApprovedOnce
                 ELSE IF Sess(w) THEN ChoiceApprovedSess
                 ELSE IF Always(w) THEN ChoiceApprovedAlways
                 ELSE ChoiceDenied

\* The 0-based indices, or <<>> for the error of an entry out of range.
parseApprovalIndices(list, total) ==
  IF \A i \in DOMAIN list : list[i] \in 1 .. total
  THEN [i \in DOMAIN list |-> list[i] - 1] ELSE <<>>

\* Mutant: an invalid list is an approval without indices.
ParseBatchUnchecked(t, total) ==
  [choice |-> IF t.word = "list" THEN ChoiceApprovedOnce ELSE WordChoice(t.word),
   approved |-> parseApprovalIndices(t.list, total),
   comment |-> t.comment]

ParseBatchApprovalChoice(t, total) ==
  LET indices == parseApprovalIndices(t.list, total)
  IN  [choice |-> IF t.word = "list" /\ indices # <<>> THEN ChoiceApprovedOnce
                                                      ELSE WordChoice(t.word),
       approved |-> indices,
       comment |-> t.comment]

\* A list is no word of a single approval: denied.
ParseApprovalChoice(t) == [choice |-> WordChoice(t.word), approved |-> <<>>, comment |-> t.comment]

\* TryResolveP2P parses by the kind of the waiting entry.
TakeText(t) == /\ text = NoText /\ resp = NoResponse
               /\ text' = t
               /\ resp' = IF batchN = 0 THEN ParseApprovalChoice(t)
                                        ELSE ParseBatchApprovalChoice(t, batchN)
               /\ UNCHANGED batchN

\* Busy, the prompt failed or the time is over: ApprovalReply{Choice: ChoiceDenied}.
AnswerNothing == /\ text = NoText /\ resp = NoResponse
                 /\ resp' = [choice |-> ChoiceDenied, approved |-> <<>>, comment |-> FALSE]
                 /\ UNCHANGED <<batchN, text>>

\* HandleSingle gives a bare denial the comment "denied or timeout".
Explain == /\ batchN = 0
           /\ resp.choice = ChoiceDenied /\ ~resp.comment
           /\ resp' = [resp EXCEPT !.comment = TRUE]
           /\ UNCHANGED <<batchN, text>>

ChoiceNext == (\E t \in Texts : TakeText(t)) \/ AnswerNothing \/ Explain

ChoiceSpec == ChoiceInit /\ [][ChoiceNext]_choiceVars
-----------------------------------------------------------------------------
(* Properties *)

\* External: the host runs every command of an approval without indices.
Granted(r, total) == IF r.choice \notin {1, 2, 3} THEN {}
                     ELSE IF r.approved = <<>> THEN 1 .. total
                     ELSE {r.approved[i] + 1 : i \in DOMAIN r.approved}

\* The commands a prompt shows: the single tool, or the first MaxListed of a batch.
MaxListed == 8
Listed(total) == {c \in 1 .. MaxListed : c <= IF total = 0 THEN 1 ELSE total}

ApprovalWords == {"y", "yes", "s", "session", "a", "always"}
Numbers(t) == {t.list[i] : i \in DOMAIN t.list}

\* Of the listed commands, those the prompt promises for a text: all for a word of approval,
\* those on a list of valid numbers, none for the rest.
Promised(t, total) ==
  IF t.word \in ApprovalWords THEN Listed(total)
  ELSE IF t.word = "list" /\ Numbers(t) \subseteq 1 .. total
       THEN Numbers(t) \cap Listed(total) ELSE {}

\* Of the commands the prompt lists, a response grants exactly those the text names; beyond
\* them a text that is no word of approval grants nothing that is not on its list: nil
\* indices, "all" to the host, never come from a list (README.md:177-183,
\* approver.go:404-410).  What a word of approval does to the commands a long prompt omits
\* is left open, as the prompt says both "listed items only" (394) and "all" (404-408).
GrantsWhatIsNamed ==
  resp # NoResponse =>
    LET granted == Granted(resp, IF batchN = 0 THEN 1 ELSE batchN)
    IN  /\ granted \cap Listed(batchN) = Promised(text, batchN)
        /\ text.word \in ApprovalWords \/ granted \subseteq Numbers(text)
=============================================================================
