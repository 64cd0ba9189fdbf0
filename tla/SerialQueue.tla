---------------------------- MODULE SerialQueue ----------------------------
(***************************************************************************)
(* What the per-chat job queue promises its users, without goroutines,     *)
(* channels, locks or timers: every chat has a FIFO of pending jobs and at *)
(* most one running job; a job is run at most once; it may be dropped, but *)
(* only before it runs, and a chat abandons either all its pending jobs or *)
(* none of them (never one out of the middle).                             *)
(***************************************************************************)
EXTENDS Sequences, Functions, FiniteSets

CONSTANTS Jobs,      \* the jobs handed to the queue
          Chats,     \* the chat ids they belong to
          ChatOf,    \* the chat of every job
          None       \* "no job"

VARIABLES pending,   \* pending[c]: the jobs of chat c waiting, oldest first
          running,   \* running[c]: the job of chat c being processed, or None
          status     \* status[j]: how far job j has come

avars == <<pending, running, status>>

AInit == /\ pending = [c \in Chats |-> <<>>]
         /\ running = [c \in Chats |-> None]
         /\ status = [j \in Jobs |-> "new"]

Accept(j) == /\ status[j] = "new"
             /\ ChatOf[j] \in Chats
             /\ pending' = [pending EXCEPT ![ChatOf[j]] = Append(@, j)]
             /\ status' = [status EXCEPT ![j] = "pending"]
             /\ UNCHANGED running

Drop(j) == /\ status[j] = "new"
           /\ status' = [status EXCEPT ![j] = "dropped"]
           /\ UNCHANGED <<pending, running>>

Start(c) == /\ running[c] = None
            /\ pending[c] # <<>>
            /\ running' = [running EXCEPT ![c] = Head(pending[c])]
            /\ pending' = [pending EXCEPT ![c] = Tail(@)]
            /\ status' = [status EXCEPT ![Head(pending[c])] = "running"]

Finish(c) == /\ running[c] # None
             /\ status' = [status EXCEPT ![running[c]] = "done"]
             /\ running' = [running EXCEPT ![c] = None]
             /\ UNCHANGED pending

Abandon(c) == /\ running[c] = None
              /\ pending[c] # <<>>
              /\ status' = [j \in Jobs |-> IF j \in Range(pending[c])
                                           THEN "dropped" ELSE status[j]]
              /\ pending' = [pending EXCEPT ![c] = <<>>]
              /\ UNCHANGED running

ANext == \/ \E j \in Jobs : Accept(j) \/ Drop(j)
         \/ \E c \in Chats : Start(c) \/ Finish(c) \/ Abandon(c)

\* A chat with pending jobs is not left alone for ever, and a job that runs
\* ends.
AFairness == \A c \in Chats : WF_avars(Start(c)) /\ WF_avars(Finish(c))

SafeSpec == AInit /\ [][ANext]_avars

ASpec == SafeSpec /\ AFairness
============================================================================
