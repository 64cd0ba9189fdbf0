--------------------------- MODULE LifecycleProofs ---------------------------
(***************************************************************************)
(* Proofs about Lifecycle, for every number of Inits, bots, texts and        *)
(* approval requests.  Who sends has the context of an Init that has made    *)
(* one (SendersHaveContexts), because nothing is under way before there is   *)
(* such a context (RunContextIsMade).  So once none is live, by              *)
(* LiveContextIsHeld and cancel = 0, all that are used are cancelled.        *)
(***************************************************************************)
EXTENDS Lifecycle, TLAPS

\* An Init has a number while it runs, and a bot while it appends an instance.
InitInPlace == /\ init.pc # "idle" => init.gen # 0
               /\ init.pc = "appending" => init.bot <= NumBots

\* Init g has made its context.
Made(g) == g \in Gens /\ ctxs[g] # "none"

\* Something is there that only an Init with a context can have started.
Begun == \/ init.pc \in {"creating", "appending"}
         \/ route # None \/ bots # {}
         \/ \E i \in Instances : loop[i] # "none"
         \/ \E m \in Messages : job[m].pc # "none"
         \/ \E k \in Calls : call[k].at # None

\* Then Plugin.runCtx is the context of an Init.
RunContextIsMade == Begun => Made(runCtx)

\* What is about to be sent has the context of an Init, not nil.
SendersHaveContexts ==
  /\ \A m \in Messages : job[m].pc \in {"running", "replying"} => Made(job[m].ctx)
  /\ \A k \in Calls : call[k].pc = "prompting" => Made(call[k].ctx)

\* The chat is led to, and its requests wait at, instances of its bot.
AtHome == /\ route # None => route[2] = Home
          /\ \A k \in Calls : call[k].at # None => call[k].at[2] = Home
          /\ \A m \in Messages : job[m].pc = "routed" => route # None
          /\ \A k \in Calls : call[k].pc \in {"found", "prompting", "waiting"} => call[k].at # None

\* The inductive invariant.
IInv == /\ TypeOK /\ InitInPlace
        /\ LiveContextIsHeld
        /\ RunContextIsMade /\ SendersHaveContexts
        /\ AtHome
-----------------------------------------------------------------------------
\* Init keeps the types: it has a number and stays within its bots (plugin.go:89-182).
LEMMA InitTypes == ASSUME TypeOK, InitInPlace, InitCall PROVE TypeOK'
<1> USE LifecycleAssumption
<1>1. CASE InitBegins
  <2>1. init.gen + 1 \in 0 .. MaxInits BY <1>1 DEF InitBegins, TypeOK, InitCalls
  <2>2. init' \in InitCalls BY <2>1, <1>1 DEF InitBegins, TypeOK, InitCalls
  <2> QED BY <2>2, <1>1 DEF InitBegins, TypeOK
<1>2. CASE NewContext
  <2>1. init.gen \in 1 .. MaxInits BY <1>2 DEF NewContext, TypeOK, InitCalls, InitInPlace
  <2>2. init' \in InitCalls BY <1>2 DEF NewContext, TypeOK, InitCalls
  <2>3. ctxs' \in [Gens -> {"none", "live", "cancelled"}] BY <1>2 DEF NewContext, TypeOK
  <2> QED BY <2>1, <2>2, <2>3, <1>2 DEF NewContext, TypeOK
<1>3. CASE CreateInstance
  <2>1. <<init.gen, init.bot>> \in Instances
    <3>1. init.gen \in 0 .. MaxInits /\ init.bot \in 1 .. NumBots + 1 BY DEF TypeOK, InitCalls
    <3>2. init.gen # 0 /\ init.bot <= NumBots BY <1>3 DEF CreateInstance, InitInPlace
    <3>3. init.gen \in Gens /\ init.bot \in 1 .. NumBots BY <3>1, <3>2 DEF Gens
    <3> QED BY <3>3 DEF Instances
  <2>3. bots \cup {<<init.gen, init.bot>>} \in SUBSET Instances BY <2>1 DEF TypeOK
  <2>4. \A c \in SUBSET Instances : [init EXCEPT !.pc = "appending", !.copy = c] \in InitCalls
    BY DEF TypeOK, InitCalls
  <2>2. init' \in InitCalls BY <2>3, <2>4, <1>3 DEF CreateInstance
  <2> QED BY <2>2, <1>3 DEF CreateInstance, TypeOK
<1>4. CASE AppendAndStart
  <2>1. init.bot + 1 \in 1 .. NumBots + 1
    BY <1>4 DEF AppendAndStart, TypeOK, InitCalls, InitInPlace
  <2>2. init' \in InitCalls BY <2>1, <1>4 DEF AppendAndStart, TypeOK, InitCalls
  <2>3. bots' \subseteq Instances BY <1>4 DEF AppendAndStart, TypeOK, InitCalls
  <2> QED BY <2>2, <2>3, <1>4 DEF AppendAndStart, TypeOK
<1>5. CASE InitReturns
  <2>1. 1 \in 1 .. NumBots + 1 OBVIOUS
  <2>2. init' \in InitCalls BY <2>1, <1>5 DEF InitReturns, TypeOK, InitCalls
  <2> QED BY <2>2, <1>5 DEF InitReturns, TypeOK
<1> QED BY <1>1, <1>2, <1>3, <1>4, <1>5 DEF InitCall

\* Every step keeps the types (plugin.go:89-260, 718-758).
LEMMA TypesNext == TypeOK /\ InitInPlace /\ [Next]_vars => TypeOK'
<1> SUFFICES ASSUME TypeOK, InitInPlace, [Next]_vars PROVE TypeOK'
  OBVIOUS
<1>1. CASE InitCall BY <1>1, InitTypes
<1>6. ASSUME NEW i \in Instances, Loop(i) PROVE TypeOK'
  BY <1>6 DEF Loop, LoopStep, StartWebSocket, StartReturns, At, TypeOK
<1>7. ASSUME NEW m \in Messages, Receive(m) \/ Handler(m) \/ Worker(m) PROVE TypeOK'
  <2>1. job' \in [Messages -> Jobs]
    <3>1. CASE Receive(m) BY <3>1 DEF Receive, SetJob, TypeOK, Jobs
    <3>2. CASE Consume(m) BY <3>2 DEF Consume, SetJob, TypeOK, Jobs
    <3>6. \A pc \in Pending \cup {"dropped"} : SetJob(m, pc) => job' \in [Messages -> Jobs]
      BY DEF SetJob, TypeOK, Jobs
    <3>7. CASE Enqueue(m) BY <3>6, <3>7 DEF Enqueue, Pending
    <3>3. CASE ProcessJob(m)
      <4>1. [pc |-> "running", ctx |-> runCtx] \in Jobs BY DEF TypeOK, Jobs, Pending
      <4> QED BY <3>3, <4>1 DEF ProcessJob, TypeOK
    <3>4. CASE RunAgentReturns(m) BY <3>6, <3>4 DEF RunAgentReturns, Pending
    <3>5. CASE Reply(m)
      <4>1. [pc |-> "done", ctx |-> 0] \in Jobs BY LifecycleAssumption DEF Jobs
      <4> QED BY <3>5, <4>1 DEF Reply, TypeOK
    <3> QED BY <1>7, <3>1, <3>2, <3>3, <3>4, <3>5, <3>7 DEF Handler, Worker
  <2> QED BY <2>1, <1>7 DEF Receive, Handler, Worker, Consume, Enqueue, ProcessJob, RunAgentReturns,
                             Reply, Shows, TypeOK
<1>9. ASSUME NEW k \in Calls, RequestApproval(k) \/ Approval(k) PROVE TypeOK'
  <2>1. call' \in [Calls -> Requests]
    <3>0. /\ call[k] \in Requests
          /\ \A r \in Requests : [call EXCEPT ![k] = r] \in [Calls -> Requests]
      BY DEF TypeOK
    <3>1. CASE RequestApproval(k)
      <4>1. PICK by \in Messages \cup {None} :
               call' = [call EXCEPT ![k] = [call[k] EXCEPT !.pc = "asked", !.by = by]]
        BY <3>1 DEF RequestApproval, TypeOK
      <4>2. [call[k] EXCEPT !.pc = "asked", !.by = by] \in Requests BY <3>0 DEF Requests
      <4> QED BY <3>0, <4>1, <4>2
    <3>11. \A pc \in {"probing", "found", "searching"}, i \in Instances \cup {None} :
             [call[k] EXCEPT !.pc = pc, !.at = i] \in Requests
      BY <3>0 DEF Requests
    <3>2. CASE GetBotForChat(k)
      <4>1. call' = [call EXCEPT ![k] = [call[k] EXCEPT !.pc = IF route = None THEN "probing" ELSE "found",
                                                        !.at = route]]
        BY <3>2 DEF GetBotForChat, TypeOK
      <4> QED BY <3>0, <3>11, <4>1 DEF TypeOK
    <3>3. CASE RLockBots(k)
      <4>1. PICK i \in Instances \cup {None} :
               call' = [call EXCEPT ![k] = [call[k] EXCEPT !.pc = "searching", !.at = i]]
        BY <3>3 DEF RLockBots, TypeOK
      <4> QED BY <3>0, <3>11, <4>1
    <3>4. CASE FoundAndRegistered(k) BY <3>4 DEF FoundAndRegistered, SetCall, TypeOK, Requests
    <3>5. EndCall(k) => call' \in [Calls -> Requests]
      <4>1. [pc |-> "ended", by |-> None, at |-> None, ctx |-> 0] \in Requests
        BY LifecycleAssumption DEF Requests
      <4> QED BY <4>1 DEF EndCall, TypeOK
    <3>6. CASE WaitApproval(k) BY <3>5, <3>6 DEF WaitApproval, TypeOK, Requests
    <3>7. CASE SendPrompt(k) BY <3>5, <3>7 DEF SendPrompt, SetCall, TypeOK, Requests
    <3> QED BY <1>9, <3>1, <3>2, <3>3, <3>4, <3>5, <3>6, <3>7 DEF Approval, NoBotFound, EndWait
  <2>2. route' \in Instances \cup {None} /\ shown' \subseteq Messages \cup Calls
    <3>1. CASE FoundAndRegistered(k) BY <3>1 DEF FoundAndRegistered, TypeOK, Requests
    <3>2. CASE SendPrompt(k) BY <3>2 DEF SendPrompt, Shows, TypeOK
    <3> QED BY <1>9, <3>1, <3>2 DEF RequestApproval, Approval, GetBotForChat, RLockBots, NoBotFound,
                                    WaitApproval, EndWait, TypeOK
  <2>3. UNCHANGED <<ctxs, runCtx, cancel, init, bots, loop, shut, job>>
    BY <1>9 DEF RequestApproval, Approval, GetBotForChat, RLockBots, FoundAndRegistered, NoBotFound,
                WaitApproval, SendPrompt, EndWait
  <2> QED BY <2>1, <2>2, <2>3 DEF TypeOK
<1>11. CASE CancelContext \/ Shutdown
  BY <1>11, LifecycleAssumption DEF CancelContext, Shutdown, CloseQueues, WorkersAreDone, DropBots, TypeOK
<1>13. CASE UNCHANGED vars BY <1>13 DEF vars, TypeOK
<1> QED BY <1>1, <1>6, <1>7, <1>9, <1>11, <1>13 DEF Next

\* A running Init keeps its place (plugin.go:123-176).
LEMMA InitInPlaceNext == TypeOK /\ InitInPlace /\ [Next]_vars => InitInPlace'
<1> SUFFICES ASSUME TypeOK, InitInPlace, [Next]_vars PROVE InitInPlace'
  OBVIOUS
<1>0. init \in InitCalls BY DEF TypeOK
<1>1. CASE InitBegins BY <1>0, <1>1 DEF InitBegins, InitInPlace, InitCalls
<1>2. CASE NewContext BY <1>0, <1>2 DEF NewContext, InitInPlace, InitCalls
<1>6. CASE InitReturns BY <1>0, <1>6 DEF InitReturns, InitInPlace, InitCalls
<1>3. CASE CreateInstance BY <1>3 DEF CreateInstance, InitInPlace, TypeOK, InitCalls
<1>4. CASE AppendAndStart BY <1>4 DEF AppendAndStart, InitInPlace, TypeOK, InitCalls
<1>5. CASE UNCHANGED init BY <1>5 DEF InitInPlace
<1> QED BY <1>1, <1>2, <1>3, <1>4, <1>5, <1>6
        DEF Next, vars, InitCall, Shutdown, Loop, Handler, Worker, Approval, CancelContext, CloseQueues,
            WorkersAreDone, DropBots, StartWebSocket, StartReturns, LoopStep, Receive, Consume, Enqueue,
            ProcessJob, RunAgentReturns, Reply, RequestApproval, GetBotForChat, RLockBots,
            FoundAndRegistered, NoBotFound, WaitApproval, SendPrompt, EndWait

\* Only Init and Shutdown touch the contexts, under runMu (plugin.go:114-121, 187-192).
LEMMA ContextSteps ==
  [Next]_vars => NewContext \/ CancelContext \/ UNCHANGED <<ctxs, runCtx, cancel>>
BY DEF Next, vars, InitCall, Shutdown, Loop, Handler, Worker, Approval, InitBegins, CreateInstance,
       AppendAndStart, InitReturns, CloseQueues,
       WorkersAreDone, DropBots, StartWebSocket, StartReturns, LoopStep, Receive, Consume, Enqueue,
       ProcessJob, RunAgentReturns, Reply, RequestApproval, GetBotForChat, RLockBots,
       FoundAndRegistered, NoBotFound, WaitApproval, SendPrompt, EndWait

\* A new context is held by the plugin and the one it replaces is cancelled (plugin.go:114-121, 187-192).
LEMMA LiveContextNext ==
  TypeOK /\ InitInPlace /\ LiveContextIsHeld /\ [Next]_vars => LiveContextIsHeld'
<1> SUFFICES ASSUME TypeOK, InitInPlace, LiveContextIsHeld, [Next]_vars PROVE LiveContextIsHeld'
  OBVIOUS
<1>1. CASE NewContext BY <1>1 DEF NewContext, LiveContextIsHeld, Live, TypeOK
<1>2. CASE CancelContext BY <1>2 DEF CancelContext, LiveContextIsHeld, Live, TypeOK
<1>3. CASE UNCHANGED <<ctxs, runCtx, cancel>> BY <1>3 DEF LiveContextIsHeld, Live
<1> QED BY <1>1, <1>2, <1>3, ContextSteps

\* A context that was made stays made, Plugin.runCtx too (plugin.go:114-121).
LEMMA MadeStays ==
  ASSUME TypeOK, InitInPlace, [Next]_vars
  PROVE  /\ \A g : Made(g) => Made(g)'
         /\ NewContext \/ Made(runCtx) => Made(runCtx)'
<1>1. CASE NewContext
  <2>1. init.gen \in Gens BY <1>1 DEF NewContext, InitInPlace, TypeOK, InitCalls, Gens
  <2> QED BY <1>1, <2>1 DEF NewContext, Made, TypeOK
<1>2. CASE CancelContext BY <1>2 DEF CancelContext, NewContext, Made, TypeOK
<1>3. CASE UNCHANGED <<ctxs, runCtx, cancel>> /\ ~NewContext BY <1>3 DEF Made
<1> QED BY <1>1, <1>2, <1>3, ContextSteps

\* The first thing under way is the rest of an Init that has a context (plugin.go:114-174).
LEMMA BegunSteps == TypeOK /\ [Next]_vars /\ Begun' => Begun \/ NewContext
<1> SUFFICES ASSUME TypeOK, [Next]_vars, ~Begun, ~NewContext PROVE ~Begun'
  OBVIOUS
<1>1. CASE InitBegins \/ CreateInstance \/ AppendAndStart \/ InitReturns
  BY <1>1 DEF InitBegins, CreateInstance, AppendAndStart, InitReturns, Begun, TypeOK, InitCalls
<1>2. ASSUME NEW i \in Instances, Loop(i) PROVE FALSE
  BY <1>2 DEF Loop, StartWebSocket, StartReturns, Begun
<1>3. ASSUME NEW m \in Messages, Receive(m) \/ Handler(m) \/ Worker(m) PROVE FALSE
  BY <1>3 DEF Receive, Handler, Worker, Consume, Enqueue, ProcessJob, RunAgentReturns, Reply, Begun
<1>4. ASSUME NEW k \in Calls, RequestApproval(k) \/ Approval(k) PROVE ~Begun'
  <2>1. UNCHANGED <<init, route, bots, loop, job>>
    BY <1>4 DEF RequestApproval, Approval, GetBotForChat, RLockBots, FoundAndRegistered, NoBotFound,
                WaitApproval, SendPrompt, EndWait, Begun
  <2>2. \A c \in Calls : call'[c].at = None
    <3>0. (\A c \in Calls : call[c].at = None) /\ route = None /\ bots = {} BY DEF Begun
    <3>1. CASE RequestApproval(k) BY <3>0, <3>1 DEF RequestApproval, TypeOK, Requests
    <3>2. CASE GetBotForChat(k) BY <3>0, <3>2 DEF GetBotForChat, TypeOK, Requests
    <3>3. CASE RLockBots(k) BY <3>0, <3>3 DEF RLockBots, TypeOK, Requests
    <3>4. CASE FoundAndRegistered(k) BY <3>0, <3>4 DEF FoundAndRegistered
    <3>5. EndCall(k) => \A c \in Calls : call'[c].at = None BY <3>0 DEF EndCall, TypeOK
    <3>6. CASE WaitApproval(k) BY <3>0, <3>5, <3>6 DEF WaitApproval, TypeOK, Requests
    <3>7. CASE SendPrompt(k) BY <3>0, <3>5, <3>7 DEF SendPrompt, SetCall, TypeOK, Requests
    <3> QED BY <1>4, <3>1, <3>2, <3>3, <3>4, <3>5, <3>6, <3>7 DEF Approval, NoBotFound, EndWait
  <2> QED BY <2>1, <2>2 DEF Begun
<1>5. CASE CancelContext \/ Shutdown
  BY <1>5 DEF CancelContext, Shutdown, CloseQueues, WorkersAreDone, DropBots, Begun
<1>6. CASE UNCHANGED vars BY <1>6 DEF vars, Begun
<1> QED BY <1>1, <1>2, <1>3, <1>4, <1>5, <1>6 DEF Next, InitCall

\* Every step keeps RunContextIsMade (plugin.go:114-121).
LEMMA RunContextNext ==
  TypeOK /\ InitInPlace /\ RunContextIsMade /\ [Next]_vars => RunContextIsMade'
BY BegunSteps, MadeStays DEF RunContextIsMade

\* Only the handlers and the worker change jobs (receiver.go:157-178, manager.go:145-200).
LEMMA JobFrame ==
  [Next]_vars => \/ UNCHANGED job
                 \/ \E m \in Messages : Receive(m) \/ Handler(m) \/ Worker(m)
BY DEF Next, vars, InitCall, InitBegins, NewContext, CreateInstance, AppendAndStart, InitReturns,
       CancelContext, Shutdown, CloseQueues, WorkersAreDone, DropBots, Loop, StartWebSocket,
       StartReturns, LoopStep, RequestApproval, Approval, GetBotForChat, RLockBots,
       FoundAndRegistered, NoBotFound, WaitApproval, SendPrompt, EndWait

\* Only handlers and requests change the route and the requests (plugin.go:203-258, 492-541).
LEMMA CallFrame ==
  [Next]_vars => \/ UNCHANGED <<call, route>>
                 \/ \E m \in Messages : Receive(m)
                 \/ \E k \in Calls : RequestApproval(k) \/ Approval(k)
BY DEF Next, vars, InitCall, InitBegins, NewContext, CreateInstance, AppendAndStart, InitReturns,
       CancelContext, Shutdown, CloseQueues, WorkersAreDone, DropBots, Loop, StartWebSocket,
       StartReturns, LoopStep, Handler, Consume, Enqueue, Worker, ProcessJob, RunAgentReturns, Reply

\* Jobs and prompts take Plugin.runCtx when they begin and keep it (plugin.go:239, 676-679).
LEMMA SendersNext == IInv /\ [Next]_vars => SendersHaveContexts'
<1> SUFFICES ASSUME IInv, [Next]_vars PROVE SendersHaveContexts'
  OBVIOUS
<1>0. TypeOK /\ InitInPlace /\ RunContextIsMade /\ SendersHaveContexts BY DEF IInv
<1>1. \A g \in Gens : ctxs[g] # "none" => ctxs'[g] # "none"
  BY <1>0, MadeStays DEF Made
<1>2. ASSUME NEW m \in Messages, job'[m].pc \in {"running", "replying"}
      PROVE  Made(job[m].ctx)'
  <2>1. CASE UNCHANGED job BY <2>1, <1>0, <1>1, <1>2 DEF SendersHaveContexts, Made
  <2>2. ASSUME NEW n \in Messages, Receive(n) \/ Handler(n) \/ RunAgentReturns(n) \/ Reply(n)
        PROVE  job[m].pc \in {"running", "replying"} /\ job'[m].ctx = job[m].ctx
    <3>1. CASE Receive(n) BY <3>1, <1>0, <1>2 DEF Receive, SetJob, TypeOK, Jobs
    <3>2. CASE Handler(n) BY <3>2, <1>0, <1>2 DEF Handler, Consume, Enqueue, SetJob, TypeOK, Jobs
    <3>3. CASE RunAgentReturns(n) BY <3>3, <1>0, <1>2 DEF RunAgentReturns, SetJob, TypeOK, Jobs
    <3>4. CASE Reply(n) BY <3>4, <1>0, <1>2 DEF Reply, TypeOK, Jobs
    <3> QED BY <2>2, <3>1, <3>2, <3>3, <3>4
  <2>3. ASSUME NEW n \in Messages, ProcessJob(n) PROVE Made(job[m].ctx)'
    <3>1. CASE n = m
      <4>1. Made(runCtx) BY <2>3, <1>0 DEF ProcessJob, Begun, RunContextIsMade
      <4>2. job'[m].ctx = runCtx BY <2>3, <3>1, <1>0 DEF ProcessJob, TypeOK
      <4> QED BY <4>1, <4>2, <1>1 DEF Made
    <3>2. CASE n # m
      <4>1. job'[m] = job[m] BY <2>3, <3>2, <1>0 DEF ProcessJob, TypeOK
      <4> QED BY <4>1, <1>0, <1>1, <1>2 DEF SendersHaveContexts, Made
    <3> QED BY <3>1, <3>2
  <2>4. ASSUME NEW n \in Messages, Receive(n) \/ Handler(n) \/ RunAgentReturns(n) \/ Reply(n)
        PROVE  Made(job[m].ctx)'
    <3>1. job[m].pc \in {"running", "replying"} /\ job'[m].ctx = job[m].ctx BY <2>2, <2>4
    <3> QED BY <3>1, <1>0, <1>1 DEF SendersHaveContexts, Made
  <2> QED BY <2>1, <2>3, <2>4, JobFrame DEF Worker
<1>3. ASSUME NEW k \in Calls, call'[k].pc = "prompting" PROVE Made(call[k].ctx)'
  <2>1. CASE UNCHANGED call BY <2>1, <1>0, <1>1, <1>3 DEF SendersHaveContexts, Made
  <2>2. ASSUME NEW c \in Calls, RequestApproval(c) \/ Approval(c), ~WaitApproval(c)
        PROVE  call[k].pc = "prompting" /\ call'[k].ctx = call[k].ctx
    <3>1. CASE RequestApproval(c) BY <3>1, <1>0, <1>3 DEF RequestApproval, TypeOK, Requests
    <3>2. CASE GetBotForChat(c) BY <3>2, <1>0, <1>3 DEF GetBotForChat, TypeOK, Requests
    <3>3. CASE RLockBots(c) BY <3>3, <1>0, <1>3 DEF RLockBots, TypeOK, Requests
    <3>4. CASE FoundAndRegistered(c) BY <3>4, <1>0, <1>3 DEF FoundAndRegistered, SetCall, TypeOK, Requests
    <3>5. CASE EndCall(c) BY <3>5, <1>0, <1>3 DEF EndCall, TypeOK, Requests
    <3>7. CASE SetCall(c, "waiting") BY <3>7, <1>0, <1>3 DEF SetCall, TypeOK, Requests
    <3> QED BY <2>2, <3>1, <3>2, <3>3, <3>4, <3>5, <3>7 DEF Approval, NoBotFound, SendPrompt, EndWait
  <2>3. ASSUME NEW c \in Calls, WaitApproval(c) PROVE Made(call[k].ctx)'
    <3>1. CASE call'[k] = call[k] BY <3>1, <1>0, <1>1, <1>3 DEF SendersHaveContexts, Made
    <3>2. CASE call'[k] # call[k]
      <4>0. c = k BY <2>3, <3>2, <1>0 DEF WaitApproval, EndCall, TypeOK
      <4>1. call[k].at # None BY <4>0, <2>3, <1>0 DEF WaitApproval, IInv, AtHome
      <4>2. Made(runCtx) BY <4>1, <1>0 DEF Begun, RunContextIsMade
      <4>3. call'[k].ctx = runCtx BY <4>0, <2>3, <1>0, <1>3 DEF WaitApproval, EndCall, TypeOK, Requests
      <4> QED BY <4>2, <4>3, <1>1 DEF Made
    <3> QED BY <3>1, <3>2
  <2>4. CASE \E m \in Messages : Receive(m) BY <2>4, <2>1 DEF Receive
  <2> QED BY <2>1, <2>2, <2>3, <2>4, <1>0, <1>1, CallFrame DEF SendersHaveContexts, Made
<1> QED BY <1>2, <1>3 DEF SendersHaveContexts, Made

\* Routes and waits stay with the bot of the chat (plugin.go:492-541, 594-608).
LEMMA AtHomeNext == IInv /\ [Next]_vars => AtHome'
<1> SUFFICES ASSUME IInv, [Next]_vars PROVE AtHome'
  OBVIOUS
<1>0. TypeOK /\ AtHome BY DEF IInv
<1>1. CASE UNCHANGED <<call, route>>
  <2>1. \A m \in Messages : job'[m].pc = "routed" => route # None
    <3>1. CASE UNCHANGED job BY <3>1, <1>0 DEF AtHome
    <3>2. ASSUME NEW n \in Messages, Receive(n) PROVE route # None
      BY <3>2, <1>1, LifecycleAssumption DEF Receive
    <3>3. ASSUME NEW n \in Messages, Handler(n) \/ Worker(n), NEW m \in Messages, job'[m].pc = "routed"
          PROVE job[m].pc = "routed"
      <4>1. CASE Handler(n) BY <4>1, <3>3, <1>0 DEF Handler, Consume, Enqueue, SetJob, TypeOK, Jobs
      <4>2. CASE ProcessJob(n) BY <4>2, <3>3, <1>0 DEF ProcessJob, TypeOK, Jobs
      <4>3. CASE RunAgentReturns(n) BY <4>3, <3>3, <1>0 DEF RunAgentReturns, SetJob, TypeOK, Jobs
      <4>4. CASE Reply(n) BY <4>4, <3>3, <1>0 DEF Reply, TypeOK, Jobs
      <4> QED BY <3>3, <4>1, <4>2, <4>3, <4>4 DEF Worker
    <3> QED BY <3>1, <3>2, <3>3, <1>0, JobFrame DEF AtHome
  <2> QED BY <2>1, <1>0, <1>1 DEF AtHome
<1>2. ASSUME NEW m \in Messages, Receive(m) PROVE AtHome'
  <2>1. route' \in Instances /\ route'[2] = Home /\ UNCHANGED call BY <1>2 DEF Receive
  <2>2. route' # None BY <2>1, LifecycleAssumption
  <2> QED BY <2>1, <2>2, <1>0 DEF AtHome
<1>3. ASSUME NEW k \in Calls, RequestApproval(k) \/ Approval(k) PROVE AtHome'
  <2>1. UNCHANGED job
    BY <1>3 DEF RequestApproval, Approval, GetBotForChat, RLockBots, FoundAndRegistered, NoBotFound,
                WaitApproval, SendPrompt, EndWait
  <2>2. route' \in {route, call[k].at} /\ (route # None => route' # None)
    BY <1>3 DEF RequestApproval, Approval, GetBotForChat, RLockBots, FoundAndRegistered, NoBotFound,
                WaitApproval, SendPrompt, EndWait
  <2>3. /\ call'[k].at \in {None, call[k].at, route} \/ call'[k].at[2] = Home
        /\ call'[k].pc \in {"found", "prompting", "waiting"} => call'[k].at # None
        /\ \A c \in Calls : c # k => call'[c] = call[c]
    <3>1. CASE RequestApproval(k) BY <3>1, <1>0 DEF RequestApproval, TypeOK, Requests
    <3>2. CASE GetBotForChat(k) BY <3>2, <1>0 DEF GetBotForChat, TypeOK, Requests
    <3>3. CASE RLockBots(k) BY <3>3, <1>0 DEF RLockBots, TypeOK, Requests
    <3>4. CASE FoundAndRegistered(k) BY <3>4, <1>0 DEF FoundAndRegistered, SetCall, TypeOK, Requests
    <3>5. CASE EndCall(k) BY <3>5, <1>0 DEF EndCall, TypeOK, Requests
    <3>6. CASE WaitApproval(k) BY <3>6, <3>5, <1>0 DEF WaitApproval, TypeOK, Requests, AtHome
    <3>7. CASE SendPrompt(k) BY <3>7, <3>5, <1>0 DEF SendPrompt, SetCall, TypeOK, Requests, AtHome
    <3> QED BY <1>3, <3>1, <3>2, <3>3, <3>4, <3>5, <3>6, <3>7 DEF Approval, NoBotFound, EndWait
  <2> QED BY <2>1, <2>2, <2>3, <1>0 DEF AtHome
<1> QED BY <1>1, <1>2, <1>3, CallFrame

\* A plugin that has not seen an Init satisfies the invariant (plugin.go:89).
LEMMA InitIInv == Init => IInv
<1> SUFFICES ASSUME Init PROVE IInv
  OBVIOUS
<1>1. TypeOK
  <2>1. init \in InitCalls
    <3>1. 1 \in 1 .. NumBots + 1 BY LifecycleAssumption
    <3>2. 0 \in 0 .. MaxInits BY LifecycleAssumption
    <3> QED BY <3>1, <3>2 DEF Init, InitCalls
  <2>2. [pc |-> "none", ctx |-> 0] \in Jobs BY LifecycleAssumption DEF Jobs
  <2>3. [pc |-> "none", by |-> None, at |-> None, ctx |-> 0] \in Requests
    BY LifecycleAssumption DEF Requests
  <2>4. runCtx \in 0 .. MaxInits /\ cancel \in 0 .. MaxInits BY LifecycleAssumption DEF Init
  <2> QED BY <2>1, <2>2, <2>3, <2>4 DEF Init, TypeOK
<1>2. InitInPlace /\ LiveContextIsHeld BY DEF Init, InitInPlace, LiveContextIsHeld, Live
<1>3. ~Begun /\ SendersHaveContexts /\ AtHome BY DEF Init, Begun, SendersHaveContexts, AtHome
<1> QED BY <1>1, <1>2, <1>3 DEF IInv, RunContextIsMade

\* Every step keeps the inductive invariant.
LEMMA NextIInv == IInv /\ [Next]_vars => IInv'
BY TypesNext, InitInPlaceNext, LiveContextNext, RunContextNext, SendersNext, AtHomeNext DEF IInv

\* The inductive invariant holds in every state of the life cycle (plugin.go:89-201).
THEOREM LifecycleInvariant == Spec => []IInv
BY InitIInv, NextIInv, PTL DEF Spec

\* The types hold in every state of the life cycle (plugin.go:89-201).
THEOREM LifecycleTypes == Spec => []TypeOK
<1>1. IInv => TypeOK BY DEF IInv
<1> QED BY <1>1, LifecycleInvariant, PTL

\* A live context is the one that Plugin.cancel cancels (plugin.go:114-121, 187-192).
THEOREM ContextsAreHeld == Spec => []LiveContextIsHeld
<1>1. IInv => LiveContextIsHeld BY DEF IInv
<1> QED BY <1>1, LifecycleInvariant, PTL

\* Only replies and prompts make something visible (manager.go:182-199, plugin.go:239).
LEMMA ShownFrame ==
  [Next]_vars => \/ UNCHANGED shown
                 \/ \E m \in Messages : Reply(m)
                 \/ \E k \in Calls : SendPrompt(k)
BY DEF Next, vars, InitCall, InitBegins, NewContext, CreateInstance, AppendAndStart, InitReturns,
       CancelContext, Shutdown, CloseQueues, WorkersAreDone, DropBots, Loop, StartWebSocket,
       StartReturns, LoopStep, Handler, Receive, Consume, Enqueue, Worker, ProcessJob, RunAgentReturns,
       RequestApproval, Approval, GetBotForChat, RLockBots,
       FoundAndRegistered, NoBotFound, WaitApproval, EndWait

\* After Shutdown, with every context cancelled, nothing is shown (plugin.go:186-199, 239, 678).
THEOREM ShutdownSilences == Spec => SilentAfterShutdown
<1>1. IInv /\ [Next]_vars => [shut = "done" /\ cancel = 0 => shown' = shown]_vars
  <2> SUFFICES ASSUME IInv, [Next]_vars, cancel = 0 PROVE shown' = shown
    OBVIOUS
  <2>1. \A g : Made(g) => Cancelled(g)
    BY DEF IInv, TypeOK, LiveContextIsHeld, Live, Made, Cancelled, Gens
  <2>2. \A m \in Messages : Reply(m) => shown' = shown
    BY <2>1 DEF Reply, Shows, IInv, SendersHaveContexts
  <2>3. \A k \in Calls : SendPrompt(k) => shown' = shown
    BY <2>1 DEF SendPrompt, Shows, IInv, SendersHaveContexts
  <2> QED BY <2>2, <2>3, ShownFrame
<1> QED BY <1>1, LifecycleInvariant, PTL DEF Spec, SilentAfterShutdown

\* An answer misses a wait of its chat only across two Inits (plugin.go:216, 594-608; receiver.go:146).
THEOREM WaitsAreStrandedByInit == Spec => OnlyInitStrandsWaits
<1>1. ASSUME IInv, [Next]_vars, NEW m \in Messages, NEW k \in Calls,
             job[m].pc = "routed", job'[m].pc \in {"queued", "dropped"},
             call[k].pc \in {"prompting", "waiting"}
      PROVE  call[k].at[1] # route[1]
  <2>0. TypeOK /\ AtHome BY <1>1 DEF IInv
  <2>1. Enqueue(m)
    <3>1. PICK n \in Messages : Receive(n) \/ Handler(n) \/ Worker(n) BY <1>1, JobFrame
    <3>2. CASE Receive(n) BY <3>2, <2>0, <1>1 DEF Receive, SetJob, TypeOK, Jobs
    <3>3. CASE Consume(n) BY <3>3, <2>0, <1>1 DEF Consume, SetJob, TypeOK, Jobs
    <3>4. CASE Enqueue(n) /\ n # m BY <3>4, <2>0, <1>1 DEF Enqueue, SetJob, TypeOK, Jobs
    <3>5. CASE ProcessJob(n) BY <3>5, <2>0, <1>1 DEF ProcessJob, TypeOK, Jobs
    <3>6. CASE RunAgentReturns(n) BY <3>6, <2>0, <1>1 DEF RunAgentReturns, SetJob, TypeOK, Jobs
    <3>7. CASE Reply(n) BY <3>7, <2>0, <1>1 DEF Reply, TypeOK, Jobs
    <3> QED BY <3>1, <3>2, <3>3, <3>4, <3>5, <3>6, <3>7 DEF Handler, Worker
  <2>2. call[k].at # route BY <2>1, <1>1 DEF Enqueue, WaitsAt
  <2>3. call[k].at \in Instances /\ route \in Instances
    BY <1>1, <2>0 DEF TypeOK, Requests, AtHome
  <2>4. call[k].at[2] = route[2] BY <1>1, <2>0 DEF AtHome
  <2> QED BY <2>2, <2>3, <2>4 DEF Instances
<1>2. IInv /\ [Next]_vars =>
        [\A m \in Messages, k \in Calls :
           /\ job[m].pc = "routed" /\ job'[m].pc \in {"queued", "dropped"}
           /\ call[k].pc \in {"prompting", "waiting"}
           => call[k].at[1] # route[1]]_vars
  BY <1>1
<1> QED BY <1>2, LifecycleInvariant, PTL DEF Spec, OnlyInitStrandsWaits
=============================================================================
