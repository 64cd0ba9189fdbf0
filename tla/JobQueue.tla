------------------------------ MODULE JobQueue ------------------------------
(***************************************************************************)
(* internal/queue/manager.go: one worker goroutine and one buffered channel *)
(* per chat id, started by the first Enqueue of the chat and ended by an    *)
(* idle timer or by ShutdownAll.                                            *)
(*                                                                          *)
(* Enqueue is two steps, as in the code: the lookup under qm.mu, and, after *)
(* the unlock, the non-blocking send.  Whatever happens between the two     *)
(* (the worker leaves, the channel is closed) is a behaviour of the model.  *)
(* A channel and its worker are named by the job whose Enqueue made them.   *)
(***************************************************************************)
EXTENDS Naturals, Sequences, FiniteSets

CONSTANTS Jobs,     \* the jobs, one Enqueue call each
          Chats,    \* the non-empty chat ids
          ChatOf,   \* Job.ChatID; a value outside Chats is the empty string
          None,     \* a missing map entry, channel or job
          Cap       \* capacity of a job channel (16 in the code)

ASSUME QueueAssumption == /\ None \notin Jobs
                          /\ DOMAIN ChatOf = Jobs
                          /\ Cap \in Nat \ {0}

VARIABLES workers,  \* qm.workers: chat -> channel registered for it
          closed,   \* qm.closed
          ch,       \* the channel a job's Enqueue found or made
          fate,     \* where each job is
          buf,      \* the contents of each channel
          shut,     \* the channels that close() was called on
          wk,       \* where each worker goroutine is
          cur,      \* the job a worker is in ProcessJob with
          fired,    \* the workers whose idle timer has expired
          down      \* where ShutdownAll is

vars == <<workers, closed, ch, fate, buf, shut, wk, cur, fired, down>>

\* "rejected", "full" and "panicked" are jobs Enqueue did not queue.
Fates == {"new", "sending", "rejected", "full", "panicked",
          "queued", "running", "finished"}

\* "select" waits for a job or the timer, "leaving" has returned from the loop
\* but is still registered, "removed" has only wg.Done left to do.
WorkerStates == {"none", "select", "busy", "leaving", "removed", "gone"}

TypeOK == /\ workers \in [Chats -> Jobs \cup {None}]
          /\ closed \in BOOLEAN
          /\ ch \in [Jobs -> Jobs \cup {None}]
          /\ fate \in [Jobs -> Fates]
          /\ buf \in [Jobs -> Seq(Jobs)]
          /\ shut \in SUBSET Jobs
          /\ wk \in [Jobs -> WorkerStates]
          /\ cur \in [Jobs -> Jobs \cup {None}]
          /\ fired \in SUBSET Jobs
          /\ down \in {"up", "waiting", "returned"}

Init == /\ workers = [c \in Chats |-> None]
        /\ closed = FALSE
        /\ ch = [j \in Jobs |-> None]
        /\ fate = [j \in Jobs |-> "new"]
        /\ buf = [w \in Jobs |-> <<>>]
        /\ shut = {}
        /\ wk = [w \in Jobs |-> "none"]
        /\ cur = [w \in Jobs |-> None]
        /\ fired = {}
        /\ down = "up"
-----------------------------------------------------------------------------
(* Enqueue *)

Reject(j) == /\ fate[j] = "new"
             /\ ChatOf[j] \notin Chats \/ closed
             /\ fate' = [fate EXCEPT ![j] = "rejected"]
             /\ UNCHANGED <<workers, closed, ch, buf, shut, wk, cur, fired, down>>

FindWorker(j) == /\ fate[j] = "new"
                 /\ ChatOf[j] \in Chats
                 /\ ~closed
                 /\ workers[ChatOf[j]] # None
                 /\ ch' = [ch EXCEPT ![j] = workers[ChatOf[j]]]
                 /\ fate' = [fate EXCEPT ![j] = "sending"]
                 /\ UNCHANGED <<workers, closed, buf, shut, wk, cur, fired, down>>

\* Mutant: the new channel is not entered in the map.
StartWorkerUnregistered(j) == /\ fate[j] = "new"
                              /\ ChatOf[j] \in Chats
                              /\ ~closed
                              /\ workers[ChatOf[j]] = None
                              /\ wk' = [wk EXCEPT ![j] = "select"]
                              /\ ch' = [ch EXCEPT ![j] = j]
                              /\ fate' = [fate EXCEPT ![j] = "sending"]
                              /\ UNCHANGED <<workers, closed, buf, shut, cur, fired, down>>

StartWorker(j) == /\ fate[j] = "new"
                  /\ ChatOf[j] \in Chats
                  /\ ~closed
                  /\ workers[ChatOf[j]] = None
                  /\ workers' = [workers EXCEPT ![ChatOf[j]] = j]
                  /\ wk' = [wk EXCEPT ![j] = "select"]
                  /\ ch' = [ch EXCEPT ![j] = j]
                  /\ fate' = [fate EXCEPT ![j] = "sending"]
                  /\ UNCHANGED <<closed, buf, shut, cur, fired, down>>

\* The send happens without the lock; on a closed channel it panics, default
\* case or not.
Send(j) == /\ fate[j] = "sending"
           /\ \/ /\ ch[j] \in shut
                 /\ fate' = [fate EXCEPT ![j] = "panicked"]
                 /\ UNCHANGED buf
              \/ /\ ch[j] \notin shut
                 /\ Len(buf[ch[j]]) < Cap
                 /\ buf' = [buf EXCEPT ![ch[j]] = Append(@, j)]
                 /\ fate' = [fate EXCEPT ![j] = "queued"]
              \/ /\ ch[j] \notin shut
                 /\ Len(buf[ch[j]]) >= Cap
                 /\ fate' = [fate EXCEPT ![j] = "full"]
                 /\ UNCHANGED buf
           /\ UNCHANGED <<workers, closed, ch, shut, wk, cur, fired, down>>
-----------------------------------------------------------------------------
(* runWorkerForChat *)

\* Mutant: the youngest job is taken first.
ReceiveLast(w) == /\ wk[w] = "select"
                  /\ buf[w] # <<>>
                  /\ LET n == Len(buf[w]) IN
                     /\ cur' = [cur EXCEPT ![w] = buf[w][n]]
                     /\ buf' = [buf EXCEPT ![w] = SubSeq(@, 1, n - 1)]
                     /\ fate' = [fate EXCEPT ![buf[w][n]] = "running"]
                  /\ wk' = [wk EXCEPT ![w] = "busy"]
                  /\ UNCHANGED <<workers, closed, ch, shut, fired, down>>

\* With a job and the timer both ready, select takes either.
Receive(w) == /\ wk[w] = "select"
              /\ buf[w] # <<>>
              /\ cur' = [cur EXCEPT ![w] = Head(buf[w])]
              /\ buf' = [buf EXCEPT ![w] = Tail(@)]
              /\ fate' = [fate EXCEPT ![Head(buf[w])] = "running"]
              /\ wk' = [wk EXCEPT ![w] = "busy"]
              /\ UNCHANGED <<workers, closed, ch, shut, fired, down>>

\* ProcessJob returns; the timer is stopped, drained and rearmed.
FinishJob(w) == /\ wk[w] = "busy"
                /\ fate' = [fate EXCEPT ![cur[w]] = "finished"]
                /\ cur' = [cur EXCEPT ![w] = None]
                /\ wk' = [wk EXCEPT ![w] = "select"]
                /\ fired' = fired \ {w}
                /\ UNCHANGED <<workers, closed, ch, buf, shut, down>>

\* Five minutes pass; they may pass while ProcessJob runs.
TimerFires(w) == /\ wk[w] \in {"select", "busy"}
                 /\ w \notin fired
                 /\ fired' = fired \cup {w}
                 /\ UNCHANGED <<workers, closed, ch, fate, buf, shut, wk, cur, down>>

IdleExit(w) == /\ wk[w] = "select"
               /\ w \in fired
               /\ wk' = [wk EXCEPT ![w] = "leaving"]
               /\ UNCHANGED <<workers, closed, ch, fate, buf, shut, cur, fired, down>>

\* Mutant: the worker leaves as soon as its channel is closed.
ClosedExitUndrained(w) == /\ wk[w] = "select"
                          /\ w \in shut
                          /\ wk' = [wk EXCEPT ![w] = "leaving"]
                          /\ UNCHANGED <<workers, closed, ch, fate, buf, shut, cur, fired, down>>

\* A closed channel is drained before a receive reports !ok.
ClosedExit(w) == /\ wk[w] = "select"
                 /\ w \in shut
                 /\ buf[w] = <<>>
                 /\ wk' = [wk EXCEPT ![w] = "leaving"]
                 /\ UNCHANGED <<workers, closed, ch, fate, buf, shut, cur, fired, down>>

\* Mutant: the delete from the map is forgotten.
UnregisterForgotten(w) == /\ wk[w] = "leaving"
                          /\ wk' = [wk EXCEPT ![w] = "removed"]
                          /\ UNCHANGED <<workers, closed, ch, fate, buf, shut, cur, fired, down>>

\* The deferred functions: delete(qm.workers, chatID), then wg.Done().
Unregister(w) == /\ wk[w] = "leaving"
                 /\ workers' = [workers EXCEPT ![ChatOf[w]] = None]
                 /\ wk' = [wk EXCEPT ![w] = "removed"]
                 /\ UNCHANGED <<closed, ch, fate, buf, shut, cur, fired, down>>

WgDone(w) == /\ wk[w] = "removed"
             /\ wk' = [wk EXCEPT ![w] = "gone"]
             /\ UNCHANGED <<workers, closed, ch, fate, buf, shut, cur, fired, down>>
-----------------------------------------------------------------------------
(* ShutdownAll *)

\* Mutant: no channel is closed.
CloseAllNothing == /\ ~closed
                   /\ closed' = TRUE
                   /\ down' = "waiting"
                   /\ UNCHANGED <<workers, ch, fate, buf, shut, wk, cur, fired>>

CloseAll == /\ ~closed
            /\ closed' = TRUE
            /\ shut' = {workers[c] : c \in Chats} \ {None}
            /\ down' = "waiting"
            /\ UNCHANGED <<workers, ch, fate, buf, wk, cur, fired>>

\* Mutant: waits for the map to be empty instead of for the goroutines.
WaitReturnsOnMap == /\ down = "waiting"
                    /\ \A c \in Chats : workers[c] = None
                    /\ down' = "returned"
                    /\ UNCHANGED <<workers, closed, ch, fate, buf, shut, wk, cur, fired>>

\* wg.Wait returns when every worker that was ever added is done.
WaitReturns == /\ down = "waiting"
               /\ \A w \in Jobs : wk[w] \in {"none", "gone"}
               /\ down' = "returned"
               /\ UNCHANGED <<workers, closed, ch, fate, buf, shut, wk, cur, fired>>
-----------------------------------------------------------------------------
Enqueue(j) == Reject(j) \/ FindWorker(j) \/ StartWorker(j) \/ Send(j)

Worker(w) == \/ Receive(w) \/ FinishJob(w) \/ IdleExit(w)
             \/ ClosedExit(w) \/ Unregister(w) \/ WgDone(w)

Next == \/ \E j \in Jobs : Enqueue(j) \/ Worker(j) \/ TimerFires(j)
        \/ CloseAll
        \/ WaitReturns

\* The Go scheduler runs every goroutine that can run.  That a job ends is an
\* assumption: the host answers RunAgent, and the request of the reply, for which
\* the client sets no time-out (client.go:28), returns.  Neither that a timer
\* expires nor that the host shuts the plugin down is assumed.
Fairness == /\ \A j \in Jobs : WF_vars(Send(j)) /\ WF_vars(Worker(j))
            /\ WF_vars(WaitReturns)

Spec == Init /\ [][Next]_vars /\ Fairness
-----------------------------------------------------------------------------
(* Properties *)

Alive(w) == wk[w] \in {"select", "busy", "leaving"}

\* A chat never has two agent runs at once, whatever the interleaving of idle
\* exits, re-registrations and sends (manager.go: "process serially per
\* chat_id").
SerialPerChat == \A v, w \in Jobs :
                   /\ wk[v] = "busy" /\ wk[w] = "busy" /\ ChatOf[v] = ChatOf[w]
                   => v = w

\* The workers map and the goroutines agree: a goroutine that may still touch
\* the map is the one registered for its chat, so the deferred delete never
\* removes the entry of a successor (manager.go:91-96), and every entry leads to
\* a goroutine.
MapMatchesWorkers == /\ \A w \in Jobs : Alive(w) => workers[ChatOf[w]] = w
                     /\ \A c \in Chats : workers[c] # None =>
                          Alive(workers[c]) /\ ChatOf[workers[c]] = c

\* Closing a channel never strands what is already in it: a job left behind in
\* a channel was left by the idle timer, by no other way out of the loop
\* (manager.go:105-107 and 121-123).
OnlyIdleExitStrands == \A w \in Jobs :
                         /\ wk[w] \in {"leaving", "removed", "gone"}
                         /\ buf[w] # <<>>
                         => w \in fired

\* Once ShutdownAll has returned no agent run is in progress, no goroutine is
\* left and no send can start one (manager.go:129-143).
QuietAfterShutdown == down = "returned" =>
                        /\ \A w \in Jobs : wk[w] \in {"none", "gone"}
                        /\ \A j \in Jobs : fate[j] # "running"
                        /\ \A c \in Chats : workers[c] = None

\* A shutdown that has begun returns, even if no idle timer ever expires: all
\* goroutines are reached by close (manager.go:136-141).
ShutdownReturns == down = "waiting" ~> down = "returned"

\* A job in a channel is processed, unless the worker of that channel leaves
\* by its idle timer; no other event can strand it (manager.go:102-125).
QueuedIsSettled ==
  \A j \in Jobs : fate[j] = "queued" ~>
                    \/ fate[j] = "finished"
                    \/ ch[j] \in fired /\ wk[ch[j]] \notin {"select", "busy"}
-----------------------------------------------------------------------------
(* Refinement: the manager is a serial queue.                              *)

\* The worker registered for chat c is still in its loop.
Serving(c) == workers[c] # None /\ wk[workers[c]] \in {"select", "busy"}

pendingBar == [c \in Chats |-> IF Serving(c) THEN buf[workers[c]] ELSE <<>>]

runningBar == [c \in Chats |-> IF Serving(c) THEN cur[workers[c]] ELSE None]

statusBar == [j \in Jobs |->
  CASE fate[j] \in {"new", "sending"} -> "new"
    [] fate[j] = "running" -> "running"
    [] fate[j] = "finished" -> "done"
    [] fate[j] = "queued" /\ wk[ch[j]] \in {"select", "busy"} -> "pending"
    [] OTHER -> "dropped"]

Abstract == INSTANCE SerialQueue WITH pending <- pendingBar,
                                      running <- runningBar,
                                      status <- statusBar

\* Per chat, jobs run one at a time, in the order in which they were queued,
\* each at most once; whole queues are abandoned, never single jobs; and a
\* chat's pending jobs are not neglected.
IsSerialQueue == Abstract!ASpec
=============================================================================
