------------------------------ MODULE Lifecycle ------------------------------
(***************************************************************************)
(* The life of the plugin: plugin.go's Init, Shutdown and                    *)
(* runWebSocketWithReconnect, with what is under way meanwhile: messages of  *)
(* one private chat, their jobs (queue.ProcessJob) and approval requests,    *)
(* by the bot instance, the run context and the lock each of them uses.      *)
(*                                                                           *)
(* The host makes one Init call after another, none after Shutdown; Shutdown *)
(* may come during an Init.  Every Init makes instances of its own; the      *)
(* routing table and the list of bots keep those of earlier ones.  The wait  *)
(* of an approval is in the Approver of an instance (module Approver), the   *)
(* queue is reduced to one worker (module JobQueue), and time to what its    *)
(* passing allows.                                                           *)
(***************************************************************************)
EXTENDS Naturals

CONSTANTS MaxInits,   \* bound: calls of Init
          NumBots,    \* bots of a configuration
          Home,       \* the bot whose private chat is followed
          Messages,   \* the texts written in it
          Calls,      \* approval requests of the host for it
          None        \* no instance, no job

Gens == 1 .. MaxInits
Instances == Gens \X (1 .. NumBots)

ASSUME LifecycleAssumption ==
         /\ MaxInits \in Nat /\ NumBots \in Nat
         /\ Home \in 1 .. NumBots
         /\ None \notin Messages \cup Instances

VARIABLES ctxs,    \* the run context of each Init
          runCtx,  \* Plugin.runCtx, 0 for nil
          cancel,  \* Plugin.cancel, 0 for nil
          init,    \* the call of Init: its number, place, bot, copy of bots
          bots,    \* Plugin.bots
          loop,    \* runWebSocketWithReconnect of each instance
          route,   \* Plugin.routing of the chat
          shut,    \* the body of Shutdown
          job,     \* each text, and the job it becomes
          call,    \* each request
          shown    \* replies and prompts that Feishu shows

vars == <<ctxs, runCtx, cancel, init, bots, loop, route, shut, job, call, shown>>

Pending == {"queued", "running", "replying"}

InitCalls == [gen : 0 .. MaxInits, pc : {"idle", "checked", "creating", "appending"},
              bot : 1 .. NumBots + 1, copy : SUBSET Instances]

Jobs == [pc : {"none", "routed", "consumed", "dropped", "done"} \cup Pending, ctx : 0 .. MaxInits]

Requests == [pc : {"none", "asked", "probing", "searching", "found", "prompting", "waiting", "ended"},
             by : Messages \cup {None}, at : Instances \cup {None}, ctx : 0 .. MaxInits]

TypeOK ==
  /\ ctxs \in [Gens -> {"none", "live", "cancelled"}]
  /\ runCtx \in 0 .. MaxInits /\ cancel \in 0 .. MaxInits
  /\ init \in InitCalls
  /\ bots \subseteq Instances
  /\ loop \in [Instances -> {"none", "waiting", "connected", "ended"}]
  /\ route \in Instances \cup {None}
  /\ shut \in {"none", "closing", "draining", "locking", "done"}
  /\ job \in [Messages -> Jobs]
  /\ call \in [Calls -> Requests]
  /\ shown \subseteq Messages \cup Calls

Init == /\ ctxs = [g \in Gens |-> "none"]
        /\ runCtx = 0 /\ cancel = 0
        /\ init = [gen |-> 0, pc |-> "idle", bot |-> 1, copy |-> {}]
        /\ bots = {}
        /\ loop = [i \in Instances |-> "none"]
        /\ route = None
        /\ shut = "none"
        /\ job = [m \in Messages |-> [pc |-> "none", ctx |-> 0]]
        /\ call = [k \in Calls |-> [pc |-> "none", by |-> None, at |-> None, ctx |-> 0]]
        /\ shown = {}

Live(g) == g # 0 /\ ctxs[g] = "live"
Cancelled(g) == g # 0 /\ ctxs[g] = "cancelled"
-----------------------------------------------------------------------------
(* Plugin.Init *)

\* One that fails before it has a context replaces the configuration and no more.
InitBegins == /\ init.pc = "idle" /\ init.gen < MaxInits
              /\ shut = "none"
              /\ init' = [init EXCEPT !.gen = @ + 1, !.pc = "checked"]
              /\ UNCHANGED <<ctxs, runCtx, cancel, bots, loop, route, shut, job, call, shown>>

\* Mutant: the context of the Init before is left alone.
NewContextOnly == /\ init.pc = "checked"
                  /\ ctxs' = [ctxs EXCEPT ![init.gen] = "live"]
                  /\ runCtx' = init.gen /\ cancel' = init.gen
                  /\ init' = [init EXCEPT !.pc = "creating"]
                  /\ UNCHANGED <<bots, loop, route, shut, job, call, shown>>

\* Under runMu, and also when Shutdown has already cancelled.
NewContext == /\ init.pc = "checked"
              /\ ctxs' = [g \in Gens |-> IF g = init.gen THEN "live"
                                         ELSE IF g = cancel THEN "cancelled" ELSE ctxs[g]]
              /\ runCtx' = init.gen /\ cancel' = init.gen
              /\ init' = [init EXCEPT !.pc = "creating"]
              /\ UNCHANGED <<bots, loop, route, shut, job, call, shown>>

\* Fetching the bot's id takes its time; then Plugin.bots is read, without its lock.
CreateInstance == /\ init.pc = "creating"
                  /\ init.bot <= NumBots
                  /\ init' = [init EXCEPT !.pc = "appending",
                                          !.copy = bots \cup {<<init.gen, init.bot>>}]
                  /\ UNCHANGED <<ctxs, runCtx, cancel, bots, loop, route, shut, job, call, shown>>

AppendAndStart == /\ init.pc = "appending"
                  /\ bots' = init.copy
                  /\ loop' = [loop EXCEPT ![<<init.gen, init.bot>>] = "waiting"]
                  /\ init' = [init EXCEPT !.pc = "creating", !.bot = @ + 1, !.copy = {}]
                  /\ UNCHANGED <<ctxs, runCtx, cancel, route, shut, job, call, shown>>

\* After the last bot, or with an error at one without app_id: what was started stays.
InitReturns == /\ init.pc = "creating"
               /\ init' = [init EXCEPT !.pc = "idle", !.bot = 1]
               /\ UNCHANGED <<ctxs, runCtx, cancel, bots, loop, route, shut, job, call, shown>>
-----------------------------------------------------------------------------
(* runWebSocketWithReconnect, with the context of its Init *)

\* Mutant: the loop looks at the plugin's context.
CtxOfPlugin(i) == runCtx

CtxOf(i) == i[1]

At(i, place) == loop' = [loop EXCEPT ![i] = place]

\* A loop's step changes nothing else.
LoopStep(i) == UNCHANGED <<ctxs, runCtx, cancel, init, bots, route, shut, job, call, shown>>

\* The back-off is over, or it is the first turn: the context is looked at before ws.Start.
StartWebSocket(i) == /\ loop[i] = "waiting"
                     /\ At(i, IF Cancelled(CtxOf(i)) THEN "ended" ELSE "connected")
                     /\ LoopStep(i)

\* Mutant: a connection that ends without an error is not renewed.
StartReturnsForGood(i) == /\ loop[i] = "connected"
                          /\ \/ At(i, "ended")
                             \/ At(i, IF Cancelled(CtxOf(i)) THEN "ended" ELSE "waiting")
                          /\ LoopStep(i)

\* ws.Start comes back with an error or without.
StartReturns(i) == /\ loop[i] = "connected"
                   /\ At(i, IF Cancelled(CtxOf(i)) THEN "ended" ELSE "waiting")
                   /\ LoopStep(i)

-----------------------------------------------------------------------------
(* A text of the chat, and its job *)

SetJob(m, pc) == job' = [job EXCEPT ![m].pc = pc]

\* Mutant: the wait is noted after the prompt is sent.
WaitsAtAfterPrompt(k, i) == call[k].pc = "waiting" /\ call[k].at = i

WaitsAt(k, i) == call[k].pc \in {"prompting", "waiting"} /\ call[k].at = i

\* An instance receives while its connection is open, also an old one.
Receive(m) == \E i \in Instances :
  /\ job[m].pc = "none"
  /\ i[2] = Home /\ loop[i] = "connected"
  /\ route' = i
  /\ SetJob(m, "routed")
  /\ UNCHANGED <<ctxs, runCtx, cancel, init, bots, loop, shut, call, shown>>

Consume(m) == \E k \in Calls :
  /\ job[m].pc = "routed"
  /\ WaitsAt(k, route)
  /\ SetJob(m, "consumed")
  /\ UNCHANGED <<ctxs, runCtx, cancel, init, bots, loop, route, shut, call, shown>>

\* Enqueue drops it once the queues are closed.
Enqueue(m) == /\ job[m].pc = "routed"
              /\ ~\E k \in Calls : WaitsAt(k, route)
              /\ SetJob(m, IF shut \in {"none", "closing"} THEN "queued" ELSE "dropped")
              /\ UNCHANGED <<ctxs, runCtx, cancel, init, bots, loop, route, shut, call, shown>>

\* ProcessJob takes the context of the moment.
ProcessJob(m) == /\ job[m].pc = "queued"
                 /\ \A n \in Messages : job[n].pc \notin {"running", "replying"}
                 /\ job' = [job EXCEPT ![m] = [pc |-> "running", ctx |-> runCtx]]
                 /\ UNCHANGED <<ctxs, runCtx, cancel, init, bots, loop, route, shut, call, shown>>

\* RunAgent answers or fails, not before the requests it made; there is a reply in any case.
RunAgentReturns(m) == /\ job[m].pc = "running"
                      /\ \A k \in Calls : call[k].by = m => call[k].pc = "ended"
                      /\ SetJob(m, "replying")
                      /\ UNCHANGED <<ctxs, runCtx, cancel, init, bots, loop, route, shut, call, shown>>

\* Mutant: a request that does not follow the run context.
ShowsAnyway(x, g) == shown' = shown \cup {x}

\* A request with the context g; one that is cancelled does not leave.
Shows(x, g) == ~Cancelled(g) /\ shown' = shown \cup {x}

Reply(m) == /\ job[m].pc = "replying"
            /\ Shows(m, job[m].ctx) \/ UNCHANGED shown
            /\ job' = [job EXCEPT ![m] = [pc |-> "done", ctx |-> 0]]
            /\ UNCHANGED <<ctxs, runCtx, cancel, init, bots, loop, route, shut, call>>
-----------------------------------------------------------------------------
(* An approval request, of a job or of a run of the host's cron *)

SetCall(k, pc) == call' = [call EXCEPT ![k].pc = pc]

EndCall(k) == call' = [call EXCEPT ![k] = [pc |-> "ended", by |-> None, at |-> None, ctx |-> 0]]

RequestApproval(k) == \E by \in {m \in Messages : job[m].pc = "running"} \cup {None} :
  /\ call[k].pc = "none"
  /\ call' = [call EXCEPT ![k].pc = "asked", ![k].by = by]
  /\ UNCHANGED <<ctxs, runCtx, cancel, init, bots, loop, route, shut, job, shown>>

GetBotForChat(k) == /\ call[k].pc = "asked"
                    /\ call' = [call EXCEPT ![k].pc = IF route = None THEN "probing" ELSE "found",
                                            ![k].at = route]
                    /\ UNCHANGED <<ctxs, runCtx, cancel, init, bots, loop, route, shut, job, shown>>

\* A writer that waits for botsMu keeps new readers out.
BotsLocked == shut = "locking"

\* botsMu.RLock, and the answers ChatExists will give for the bots of that moment.
RLockBots(k) == \E i \in {b \in bots : b[2] = Home} \cup {None} :
  /\ call[k].pc = "probing" /\ ~BotsLocked
  /\ call' = [call EXCEPT ![k].pc = "searching", ![k].at = i]
  /\ UNCHANGED <<ctxs, runCtx, cancel, init, bots, loop, route, shut, job, shown>>

FoundAndRegistered(k) == /\ call[k].pc = "searching" /\ call[k].at # None
                         /\ route' = call[k].at
                         /\ SetCall(k, "found")
                         /\ UNCHANGED <<ctxs, runCtx, cancel, init, bots, loop, shut, job, shown>>

NoBotFound(k) == /\ call[k].pc = "searching" /\ call[k].at = None
                 /\ EndCall(k)
                 /\ UNCHANGED <<ctxs, runCtx, cancel, init, bots, loop, route, shut, job, shown>>

\* A request that waits at the instance already has it denied.
WaitApproval(k) == LET busy == \E c \in Calls : WaitsAt(c, call[k].at)
                   IN  /\ call[k].pc = "found"
                       /\ IF busy THEN EndCall(k)
                          ELSE call' = [call EXCEPT ![k].pc = "prompting", ![k].ctx = runCtx]
                       /\ UNCHANGED <<ctxs, runCtx, cancel, init, bots, loop, route, shut, job, shown>>

\* Mutant: the prompt is sent again until Feishu takes it.
SendPromptUntilShown(k) == /\ call[k].pc = "prompting"
                           /\ Shows(k, call[k].ctx)
                           /\ SetCall(k, "waiting")
                           /\ UNCHANGED <<ctxs, runCtx, cancel, init, bots, loop, route, shut, job>>

SendPrompt(k) == /\ call[k].pc = "prompting"
                 /\ \/ Shows(k, call[k].ctx) /\ SetCall(k, "waiting")
                    \/ (Shows(k, call[k].ctx) \/ UNCHANGED shown) /\ EndCall(k)
                 /\ UNCHANGED <<ctxs, runCtx, cancel, init, bots, loop, route, shut, job>>

\* The reply is read, or the timer fires, whatever has become of the context.
EndWait(k) == /\ call[k].pc = "waiting"
              /\ EndCall(k)
              /\ UNCHANGED <<ctxs, runCtx, cancel, init, bots, loop, route, shut, job, shown>>
-----------------------------------------------------------------------------
(* Plugin.Shutdown *)

CancelContext == /\ shut = "none"
                 /\ ctxs' = [g \in Gens |-> IF g = cancel THEN "cancelled" ELSE ctxs[g]]
                 /\ cancel' = 0
                 /\ shut' = "closing"
                 /\ UNCHANGED <<runCtx, init, bots, loop, route, job, call, shown>>

CloseQueues == /\ shut = "closing"
               /\ shut' = "draining"
               /\ UNCHANGED <<ctxs, runCtx, cancel, init, bots, loop, route, job, call, shown>>

\* wg.Wait: the worker runs what is queued before it ends.
WorkersAreDone == /\ shut = "draining"
                  /\ \A m \in Messages : job[m].pc \notin Pending
                  /\ shut' = "locking"
                  /\ UNCHANGED <<ctxs, runCtx, cancel, init, bots, loop, route, job, call, shown>>

DropBots == /\ shut = "locking"
            /\ \A k \in Calls : call[k].pc # "searching"
            /\ bots' = {}
            /\ shut' = "done"
            /\ UNCHANGED <<ctxs, runCtx, cancel, init, loop, route, job, call, shown>>
-----------------------------------------------------------------------------
InitCall == InitBegins \/ NewContext \/ CreateInstance \/ AppendAndStart \/ InitReturns

Loop(i) == StartWebSocket(i) \/ StartReturns(i)

Handler(m) == Consume(m) \/ Enqueue(m)

Worker(m) == ProcessJob(m) \/ RunAgentReturns(m) \/ Reply(m)

Approval(k) == \/ GetBotForChat(k) \/ RLockBots(k) \/ FoundAndRegistered(k) \/ NoBotFound(k)
               \/ WaitApproval(k) \/ SendPrompt(k) \/ EndWait(k)

Shutdown == CloseQueues \/ WorkersAreDone \/ DropBots

Next == \/ InitCall \/ CancelContext \/ Shutdown
        \/ \E i \in Instances : Loop(i)
        \/ \E m \in Messages : Receive(m) \/ Handler(m) \/ Worker(m)
        \/ \E k \in Calls : RequestApproval(k) \/ Approval(k)

\* An open connection may last; ws.Start is taken to come back when its context is cancelled.
\* So are the requests of a reply and of a prompt, which have no time-out (client.go:28).
Fairness ==
  /\ \A i \in Instances :
       WF_vars(StartWebSocket(i)) /\ WF_vars(Cancelled(i[1]) /\ StartReturns(i))
  /\ \A m \in Messages :
       WF_vars(Handler(m)) /\ WF_vars((job[m].pc = "replying" => Cancelled(job[m].ctx)) /\ Worker(m))
  /\ \A k \in Calls : WF_vars((call[k].pc = "prompting" => Cancelled(call[k].ctx)) /\ Approval(k))
  /\ WF_vars(Shutdown)

Spec == Init /\ [][Next]_vars /\ Fairness
-----------------------------------------------------------------------------
(* Properties *)

\* No context is out of reach: one that is not cancelled is the one that Plugin.cancel
\* cancels and that new work uses, so the next Init or Shutdown ends it, also after an Init
\* that failed half-way or overlapped with Shutdown (plugin.go:114-121, 187-192).
LiveContextIsHeld == \A g \in Gens : Live(g) => cancel = g /\ runCtx = g

\* When Shutdown has returned and cancelled what there was, nothing is shown any more, by no
\* job, request or Init under way; only an Init that made its context after Shutdown had
\* cancelled may still talk (plugin.go:186-199, 239, 678).
SilentAfterShutdown == [][shut = "done" /\ cancel = 0 => shown' = shown]_vars

\* A text of a chat in which a request waits is taken for a job only when the request waits
\* at an instance of another Init than the one the table leads to: without a second Init
\* every answer is heard (plugin.go:216, 594-608; receiver.go:90, 146).
OnlyInitStrandsWaits ==
  [][\A m \in Messages, k \in Calls :
       /\ job[m].pc = "routed" /\ job'[m].pc \in {"queued", "dropped"}
       /\ call[k].pc \in {"prompting", "waiting"}
       => call[k].at[1] # route[1]]_vars

\* A loop is connected again and again until its context is cancelled: no return of
\* ws.Start ends it (plugin.go:719-758).
LiveLoopReconnects ==
  \A i \in Instances :
    loop[i] # "none" ~> loop[i] = "connected" \/ Cancelled(i[1])

\* A loop whose context is cancelled ends, also one that a late Init starts.
CancelledLoopsEnd ==
  \A i \in Instances : loop[i] # "none" /\ Cancelled(i[1]) ~> loop[i] = "ended"

\* Shutdown returns: jobs, their approvals and the searches that hold botsMu come to an end
\* and do not wait for it; requests that hang end with the context it cancels, and only an
\* Init that makes another one afterwards may keep it waiting (plugin.go:186-198, 520,
\* manager.go:141).
ShutdownReturns == shut = "closing" ~> shut = "done" \/ cancel # 0
=============================================================================
