--------------------------- MODULE JobQueueProofs ---------------------------
(* Safety of JobQueue for every set of jobs and chats and every capacity.    *)
EXTENDS JobQueue, TLAPS

\* The queue's types hold in every state.
THEOREM QueueTypes == Spec => []TypeOK
<1>1. Init => TypeOK
  <2>1. <<>> \in Seq(Jobs)
    OBVIOUS
  <2> QED BY <2>1 DEF Init, TypeOK, Fates, WorkerStates
<1>2. TypeOK /\ [Next]_vars => TypeOK'
  <2> SUFFICES ASSUME TypeOK, [Next]_vars PROVE TypeOK'
    OBVIOUS
  <2> USE DEF TypeOK, Fates, WorkerStates
  <2>1. ASSUME NEW j \in Jobs, Reject(j) PROVE TypeOK'
    BY <2>1 DEF Reject
  <2>2. ASSUME NEW j \in Jobs, FindWorker(j) PROVE TypeOK'
    BY <2>2 DEF FindWorker
  <2>3. ASSUME NEW j \in Jobs, StartWorker(j) PROVE TypeOK'
    BY <2>3 DEF StartWorker
  <2>4. ASSUME NEW j \in Jobs, Send(j) PROVE TypeOK'
    <3>1. ASSUME NEW w \in Jobs PROVE Append(buf[w], j) \in Seq(Jobs)
      OBVIOUS
    <3>2. buf' \in [Jobs -> Seq(Jobs)]
      <4>1. buf' = buf \/ buf' = [buf EXCEPT ![ch[j]] = Append(buf[ch[j]], j)]
        BY <2>4 DEF Send
      <4>2. CASE ch[j] \in Jobs
        BY <3>1, <4>1, <4>2
      <4>3. CASE ch[j] \notin Jobs
        BY <4>1, <4>3
      <4> QED BY <4>2, <4>3
    <3>3. fate' \in [Jobs -> Fates]
      BY <2>4 DEF Send
    <3>4. UNCHANGED <<workers, closed, ch, shut, wk, cur, fired, down>>
      BY <2>4 DEF Send
    <3> QED BY <3>2, <3>3, <3>4
  <2>5. ASSUME NEW w \in Jobs, Receive(w) PROVE TypeOK'
    <3>1. Head(buf[w]) \in Jobs /\ Tail(buf[w]) \in Seq(Jobs)
      BY <2>5 DEF Receive
    <3> QED BY <2>5, <3>1 DEF Receive
  <2>6. ASSUME NEW w \in Jobs, FinishJob(w) PROVE TypeOK'
    BY <2>6 DEF FinishJob
  <2>7. ASSUME NEW w \in Jobs, TimerFires(w) PROVE TypeOK'
    BY <2>7 DEF TimerFires
  <2>8. ASSUME NEW w \in Jobs, IdleExit(w) PROVE TypeOK'
    BY <2>8 DEF IdleExit
  <2>9. ASSUME NEW w \in Jobs, ClosedExit(w) PROVE TypeOK'
    BY <2>9 DEF ClosedExit
  <2>10. ASSUME NEW w \in Jobs, Unregister(w) PROVE TypeOK'
    BY <2>10 DEF Unregister
  <2>11. ASSUME NEW w \in Jobs, WgDone(w) PROVE TypeOK'
    BY <2>11 DEF WgDone
  <2>12. CASE CloseAll
    BY <2>12 DEF CloseAll
  <2>13. CASE WaitReturns
    BY <2>13 DEF WaitReturns
  <2>14. CASE UNCHANGED vars
    BY <2>14 DEF vars
  <2> QED BY <2>1, <2>2, <2>3, <2>4, <2>5, <2>6, <2>7, <2>8, <2>9, <2>10, <2>11,
             <2>12, <2>13, <2>14 DEF Next, Enqueue, Worker
<1> QED BY <1>1, <1>2, PTL DEF Spec
-----------------------------------------------------------------------------
(***************************************************************************)
(* The inductive invariant.  MapMatchesWorkers needs to know that a worker's *)
(* name is fresh when it is started (NewIsUntouched) and that it has a chat  *)
(* (WorkersHaveChats).  The shutdown properties need where a job that runs   *)
(* is (RunningIsHeld), that nothing is closed before ShutdownAll             *)
(* (CloseIsFinal), and why a worker left (LeftForAReason).                   *)
(***************************************************************************)
NewIsUntouched == \A j \in Jobs : fate[j] = "new" => wk[j] = "none"

WorkersHaveChats == \A w \in Jobs : Alive(w) => ChatOf[w] \in Chats

RunningIsHeld == /\ \A j \in Jobs : fate[j] = "running" =>
                      ch[j] \in Jobs /\ wk[ch[j]] = "busy" /\ cur[ch[j]] = j
                 /\ \A w \in Jobs : wk[w] = "busy" =>
                      cur[w] \in Jobs /\ fate[cur[w]] = "running" /\ ch[cur[w]] = w

BufferedIsQueued == \A w \in Jobs : \A i \in 1..Len(buf[w]) :
                      fate[buf[w][i]] = "queued" /\ ch[buf[w][i]] = w

BufferedOnce == \A w \in Jobs : \A i, k \in 1..Len(buf[w]) :
                  buf[w][i] = buf[w][k] => i = k

CloseIsFinal == /\ ~closed => shut = {} /\ down = "up"
                /\ closed => down # "up"
                /\ down = "returned" => \A w \in Jobs : wk[w] \in {"none", "gone"}

LeftForAReason == \A w \in Jobs :
                    wk[w] \in {"leaving", "removed", "gone"} =>
                      w \in fired \/ (w \in shut /\ buf[w] = <<>>)

\* Only the refinement needs these: a name that is no worker yet has an empty
\* channel, a channel belongs to the chat of the jobs sent to it, and a queued
\* job is in its channel.
NoWorkerNoChannel == \A w \in Jobs :
                       /\ wk[w] = "none" => buf[w] = <<>>
                       /\ wk[w] # "busy" => cur[w] = None

ChannelsHaveWorkers == \A j \in Jobs :
  fate[j] \in {"sending", "queued", "running"} =>
    /\ ch[j] \in Jobs
    /\ wk[ch[j]] # "none"
    /\ ChatOf[j] \in Chats
    /\ ChatOf[ch[j]] = ChatOf[j]

QueuedIsBuffered == \A j \in Jobs : fate[j] = "queued" =>
                      \E i \in 1..Len(buf[ch[j]]) : buf[ch[j]][i] = j

QueueInv == /\ TypeOK
            /\ MapMatchesWorkers
            /\ NewIsUntouched
            /\ WorkersHaveChats
            /\ RunningIsHeld
            /\ BufferedIsQueued
            /\ BufferedOnce
            /\ CloseIsFinal
            /\ LeftForAReason
            /\ NoWorkerNoChannel
            /\ ChannelsHaveWorkers
            /\ QueuedIsBuffered

THEOREM QueueInit == Init => QueueInv
<1> SUFFICES ASSUME Init PROVE QueueInv
  OBVIOUS
<1>1. TypeOK
  <2>1. <<>> \in Seq(Jobs)
    OBVIOUS
  <2> QED BY <2>1 DEF Init, TypeOK, Fates, WorkerStates
<1> QED
  BY <1>1 DEF Init, QueueInv, MapMatchesWorkers, NewIsUntouched, WorkersHaveChats,
              RunningIsHeld, BufferedIsQueued, BufferedOnce, CloseIsFinal,
              LeftForAReason, Alive, NoWorkerNoChannel, ChannelsHaveWorkers,
              QueuedIsBuffered

\* The map, the goroutines and the freshness of their names.
LEMMA MapStep ==
  ASSUME QueueAssumption, QueueInv, [Next]_vars
  PROVE  MapMatchesWorkers' /\ NewIsUntouched' /\ WorkersHaveChats'
<1> USE DEF MapMatchesWorkers, NewIsUntouched, WorkersHaveChats, Alive
<1>0. TypeOK /\ MapMatchesWorkers /\ NewIsUntouched /\ WorkersHaveChats /\ RunningIsHeld
      /\ BufferedIsQueued
  BY DEF QueueInv
<1> USE <1>0 DEF TypeOK, QueueAssumption
<1> DEFINE Goal == MapMatchesWorkers' /\ NewIsUntouched' /\ WorkersHaveChats'
<1>1. ASSUME NEW j \in Jobs, Reject(j) PROVE Goal
  BY <1>1 DEF Reject
<1>2. ASSUME NEW j \in Jobs, FindWorker(j) PROVE Goal
  BY <1>2 DEF FindWorker
<1>3. ASSUME NEW j \in Jobs, StartWorker(j) PROVE Goal
  BY <1>3 DEF StartWorker
<1>4. ASSUME NEW j \in Jobs, Send(j) PROVE Goal
  BY <1>4 DEF Send
<1>5. ASSUME NEW w \in Jobs, Receive(w) PROVE Goal
  <2>1. buf[w] \in Seq(Jobs) /\ buf[w] # <<>>
    BY <1>5 DEF Receive
  <2>2. Len(buf[w]) \in Nat /\ Len(buf[w]) >= 1 /\ Head(buf[w]) = buf[w][1]
        /\ buf[w][1] \in Jobs
    BY <2>1
  <2>3. Head(buf[w]) \in Jobs /\ fate[Head(buf[w])] # "new"
    BY <2>2 DEF BufferedIsQueued
  <2> QED BY <1>5, <2>3 DEF Receive
<1>6. ASSUME NEW w \in Jobs, FinishJob(w) PROVE Goal
  BY <1>6 DEF FinishJob, RunningIsHeld
<1>7. ASSUME NEW w \in Jobs, TimerFires(w) PROVE Goal
  BY <1>7 DEF TimerFires
<1>8. ASSUME NEW w \in Jobs, IdleExit(w) PROVE Goal
  BY <1>8 DEF IdleExit
<1>9. ASSUME NEW w \in Jobs, ClosedExit(w) PROVE Goal
  BY <1>9 DEF ClosedExit
<1>10. ASSUME NEW w \in Jobs, Unregister(w) PROVE Goal
  BY <1>10 DEF Unregister
<1>11. ASSUME NEW w \in Jobs, WgDone(w) PROVE Goal
  BY <1>11 DEF WgDone
<1>12. CASE CloseAll
  BY <1>12 DEF CloseAll
<1>13. CASE WaitReturns
  BY <1>13 DEF WaitReturns
<1>14. CASE UNCHANGED vars
  BY <1>14 DEF vars
<1> QED BY <1>1, <1>2, <1>3, <1>4, <1>5, <1>6, <1>7, <1>8, <1>9, <1>10, <1>11,
           <1>12, <1>13, <1>14 DEF Next, Enqueue, Worker

\* Where the queued and the running jobs are.
LEMMA RunStep ==
  ASSUME QueueAssumption, QueueInv, [Next]_vars
  PROVE  RunningIsHeld'
<1> USE DEF RunningIsHeld
<1>0. TypeOK /\ RunningIsHeld /\ BufferedIsQueued /\ NewIsUntouched
  BY DEF QueueInv
<1> USE <1>0 DEF TypeOK, QueueAssumption
<1>1. ASSUME NEW j \in Jobs, Reject(j) PROVE RunningIsHeld'
  BY <1>1 DEF Reject
<1>2. ASSUME NEW j \in Jobs, FindWorker(j) PROVE RunningIsHeld'
  BY <1>2 DEF FindWorker
<1>3. ASSUME NEW j \in Jobs, StartWorker(j) PROVE RunningIsHeld'
  BY <1>3 DEF StartWorker, NewIsUntouched
<1>4. ASSUME NEW j \in Jobs, Send(j) PROVE RunningIsHeld'
  BY <1>4 DEF Send
<1>5. ASSUME NEW w \in Jobs, Receive(w) PROVE RunningIsHeld'
  <2>1. buf[w] \in Seq(Jobs) /\ buf[w] # <<>>
    BY <1>5 DEF Receive
  <2>2. Len(buf[w]) \in Nat /\ Len(buf[w]) >= 1 /\ Head(buf[w]) = buf[w][1]
        /\ buf[w][1] \in Jobs
    BY <2>1
  <2>3. Head(buf[w]) \in Jobs /\ fate[Head(buf[w])] = "queued" /\ ch[Head(buf[w])] = w
    BY <2>2 DEF BufferedIsQueued
  <2> QED BY <1>5, <2>3 DEF Receive
<1>6. ASSUME NEW w \in Jobs, FinishJob(w) PROVE RunningIsHeld'
  BY <1>6 DEF FinishJob
<1>7. ASSUME NEW w \in Jobs, TimerFires(w) PROVE RunningIsHeld'
  BY <1>7 DEF TimerFires
<1>8. ASSUME NEW w \in Jobs, IdleExit(w) PROVE RunningIsHeld'
  BY <1>8 DEF IdleExit
<1>9. ASSUME NEW w \in Jobs, ClosedExit(w) PROVE RunningIsHeld'
  BY <1>9 DEF ClosedExit
<1>10. ASSUME NEW w \in Jobs, Unregister(w) PROVE RunningIsHeld'
  BY <1>10 DEF Unregister
<1>11. ASSUME NEW w \in Jobs, WgDone(w) PROVE RunningIsHeld'
  BY <1>11 DEF WgDone
<1>12. CASE CloseAll
  BY <1>12 DEF CloseAll
<1>13. CASE WaitReturns
  BY <1>13 DEF WaitReturns
<1>14. CASE UNCHANGED vars
  BY <1>14 DEF vars
<1> QED BY <1>1, <1>2, <1>3, <1>4, <1>5, <1>6, <1>7, <1>8, <1>9, <1>10, <1>11,
           <1>12, <1>13, <1>14 DEF Next, Enqueue, Worker

\* Appending to a sequence and taking its tail, by positions.
LEMMA AppendAt ==
  ASSUME NEW S, NEW s \in Seq(S), NEW e \in S
  PROVE  /\ Append(s, e) \in Seq(S)
         /\ Len(Append(s, e)) = Len(s) + 1
         /\ \A i \in 1..Len(s) : Append(s, e)[i] = s[i]
         /\ Append(s, e)[Len(s) + 1] = e
OBVIOUS

LEMMA TailAt ==
  ASSUME NEW S, NEW s \in Seq(S), s # <<>>
  PROVE  /\ Tail(s) \in Seq(S)
         /\ Len(s) \in Nat /\ Len(s) >= 1
         /\ Len(Tail(s)) = Len(s) - 1
         /\ Head(s) = s[1] /\ s[1] \in S
         /\ \A i \in 1..Len(Tail(s)) : Tail(s)[i] = s[i + 1] /\ i + 1 \in 1..Len(s)
OBVIOUS

LEMMA BufferStep ==
  ASSUME QueueAssumption, QueueInv, [Next]_vars
  PROVE  BufferedIsQueued' /\ BufferedOnce'
<1> DEFINE Goal == BufferedIsQueued' /\ BufferedOnce'
<1>0. TypeOK /\ BufferedIsQueued /\ BufferedOnce /\ RunningIsHeld
  BY DEF QueueInv
<1>t. /\ fate \in [Jobs -> Fates] /\ ch \in [Jobs -> Jobs \cup {None}]
      /\ buf \in [Jobs -> Seq(Jobs)]
      /\ \A w \in Jobs : Len(buf[w]) \in Nat /\ \A i \in 1..Len(buf[w]) : buf[w][i] \in Jobs
  BY <1>0 DEF TypeOK
\* A job that is not in a channel may change its fate or its channel.
<1>a. ASSUME NEW j \in Jobs, fate[j] # "queued", UNCHANGED buf,
             \A k \in Jobs \ {j} : fate'[k] = fate[k] /\ ch'[k] = ch[k]
      PROVE Goal
  BY <1>0, <1>t, <1>a DEF BufferedIsQueued, BufferedOnce
<1>b. ASSUME UNCHANGED <<fate, ch, buf>> PROVE Goal
  BY <1>0, <1>b DEF BufferedIsQueued, BufferedOnce
<1>1. ASSUME NEW j \in Jobs, Reject(j) PROVE Goal
  BY <1>1, <1>a, <1>t DEF Reject
<1>2. ASSUME NEW j \in Jobs, FindWorker(j) PROVE Goal
  BY <1>2, <1>a, <1>t DEF FindWorker
<1>3. ASSUME NEW j \in Jobs, StartWorker(j) PROVE Goal
  BY <1>3, <1>a, <1>t DEF StartWorker
<1>4. ASSUME NEW j \in Jobs, Send(j) PROVE Goal
  <2>1. CASE UNCHANGED buf
    BY <1>4, <2>1, <1>a, <1>t DEF Send
  <2>2. CASE buf' = [buf EXCEPT ![ch[j]] = Append(@, j)] /\ fate' = [fate EXCEPT ![j] = "queued"]
    <3>0. fate[j] = "sending" /\ ch' = ch
      BY <1>4 DEF Send
    <3>1. CASE ch[j] \notin Jobs
      BY <3>1, <3>0, <2>2, <1>a, <1>t
    <3>2. CASE ch[j] \in Jobs
      <4> DEFINE b == buf[ch[j]]
      <4>1. /\ b \in Seq(Jobs) /\ Len(b) \in Nat
            /\ Len(Append(b, j)) = Len(b) + 1
            /\ \A i \in 1..Len(b) : Append(b, j)[i] = b[i] /\ b[i] # j
            /\ Append(b, j)[Len(b) + 1] = j
        BY <3>0, <3>2, <1>t, <1>0, AppendAt DEF BufferedIsQueued
      <4>2. buf'[ch[j]] = Append(b, j) /\ \A w \in Jobs \ {ch[j]} : buf'[w] = buf[w]
        BY <2>2, <3>2, <1>t
      <4>3. fate'[j] = "queued" /\ \A k \in Jobs \ {j} : fate'[k] = fate[k]
        BY <2>2, <1>t
      <4>4. BufferedIsQueued'
        <5> SUFFICES ASSUME NEW w \in Jobs, NEW i \in 1..Len(buf'[w])
                     PROVE  fate'[buf'[w][i]] = "queued" /\ ch'[buf'[w][i]] = w
          BY DEF BufferedIsQueued
        <5>1. CASE w # ch[j]
          BY <5>1, <4>2, <4>3, <3>0, <1>t, <1>0 DEF BufferedIsQueued
        <5>2. CASE w = ch[j] /\ i = Len(b) + 1
          BY <5>2, <4>1, <4>2, <4>3, <3>0
        <5>3. CASE w = ch[j] /\ i \in 1..Len(b)
          BY <5>3, <4>1, <4>2, <4>3, <3>0, <1>t, <1>0 DEF BufferedIsQueued
        <5> QED BY <5>1, <5>2, <5>3, <4>1, <4>2
      <4>5. BufferedOnce'
        <5> SUFFICES ASSUME NEW w \in Jobs, NEW i \in 1..Len(buf'[w]),
                            NEW k \in 1..Len(buf'[w]), buf'[w][i] = buf'[w][k]
                     PROVE  i = k
          BY DEF BufferedOnce
        <5>1. CASE w # ch[j]
          BY <5>1, <4>2, <1>t, <1>0 DEF BufferedOnce
        <5>2. CASE w = ch[j]
          <6>1. /\ i \in 1..(Len(b) + 1) /\ k \in 1..(Len(b) + 1)
                /\ Append(b, j)[i] = Append(b, j)[k]
            BY <5>2, <4>1, <4>2
          <6>2. CASE i \in 1..Len(b) /\ k \in 1..Len(b)
            <7>1. buf[ch[j]][i] = buf[ch[j]][k]
              BY <6>1, <6>2, <4>1
            <7> QED BY <7>1, <6>2, <3>2, <1>0 DEF BufferedOnce
          <6>3. CASE i = Len(b) + 1 \/ k = Len(b) + 1
            BY <6>1, <6>3, <4>1
          <6> QED BY <6>1, <6>2, <6>3, <4>1
        <5> QED BY <5>1, <5>2
      <4> QED BY <4>4, <4>5
    <3> QED BY <3>1, <3>2
  <2> QED BY <1>4, <2>1, <2>2 DEF Send
<1>5. ASSUME NEW w \in Jobs, Receive(w) PROVE Goal
  <2>1. buf[w] \in Seq(Jobs) /\ buf[w] # <<>>
    BY <1>5, <1>t DEF Receive
  <2> DEFINE h == Head(buf[w])
  <2>2. /\ h = buf[w][1] /\ h \in Jobs /\ Len(buf[w]) \in Nat /\ Len(buf[w]) >= 1
        /\ Len(Tail(buf[w])) = Len(buf[w]) - 1
        /\ \A i \in 1..Len(Tail(buf[w])) : /\ Tail(buf[w])[i] = buf[w][i + 1]
                                          /\ i + 1 \in 1..Len(buf[w])
    BY <2>1, TailAt
  <2>3. /\ buf'[w] = Tail(buf[w]) /\ \A v \in Jobs \ {w} : buf'[v] = buf[v]
        /\ \A k \in Jobs \ {h} : fate'[k] = fate[k]
        /\ ch' = ch
    BY <1>5, <1>t, <2>2 DEF Receive
  <2>4. ch[h] = w
    BY <2>2, <1>0 DEF BufferedIsQueued
  <2>5. BufferedIsQueued'
    <3> SUFFICES ASSUME NEW v \in Jobs, NEW i \in 1..Len(buf'[v])
                 PROVE  fate'[buf'[v][i]] = "queued" /\ ch'[buf'[v][i]] = v
      BY DEF BufferedIsQueued
    <3>1. CASE v # w
      BY <3>1, <2>3, <2>4, <1>t, <1>0 DEF BufferedIsQueued
    <3>2. CASE v = w
      <4>1. buf'[w][i] = buf[w][i + 1] /\ i + 1 \in 1..Len(buf[w]) /\ i + 1 # 1
            /\ 1 \in 1..Len(buf[w])
        BY <3>2, <2>2, <2>3
      <4>2. buf[w][i + 1] # h
        BY <4>1, <2>2, <1>0 DEF BufferedOnce
      <4> QED BY <3>2, <4>1, <4>2, <2>3, <1>t, <1>0 DEF BufferedIsQueued
    <3> QED BY <3>1, <3>2
  <2>6. BufferedOnce'
    <3> SUFFICES ASSUME NEW v \in Jobs, NEW i \in 1..Len(buf'[v]),
                        NEW k \in 1..Len(buf'[v]), buf'[v][i] = buf'[v][k]
                 PROVE  i = k
      BY DEF BufferedOnce
    <3>1. CASE v # w
      BY <3>1, <2>3, <1>0 DEF BufferedOnce
    <3>2. CASE v = w
      <4>1. /\ buf[w][i + 1] = buf[w][k + 1]
            /\ i + 1 \in 1..Len(buf[w]) /\ k + 1 \in 1..Len(buf[w])
        BY <3>2, <2>2, <2>3
      <4>2. i + 1 = k + 1
        BY <4>1, <1>0 DEF BufferedOnce
      <4> QED BY <4>2, <3>2, <2>2, <2>3
    <3> QED BY <3>1, <3>2
  <2> QED BY <2>5, <2>6
<1>6. ASSUME NEW w \in Jobs, FinishJob(w) PROVE Goal
  <2>1. cur[w] \in Jobs /\ fate[cur[w]] = "running"
    BY <1>6, <1>0 DEF FinishJob, RunningIsHeld
  <2> QED BY <1>6, <2>1, <1>a, <1>t DEF FinishJob
<1>7. ASSUME NEW w \in Jobs, TimerFires(w) \/ IdleExit(w) \/ ClosedExit(w)
                             \/ Unregister(w) \/ WgDone(w)
      PROVE Goal
  BY <1>7, <1>b DEF TimerFires, IdleExit, ClosedExit, Unregister, WgDone
<1>8. CASE CloseAll \/ WaitReturns \/ UNCHANGED vars
  BY <1>8, <1>b DEF CloseAll, WaitReturns, vars
<1> QED BY <1>1, <1>2, <1>3, <1>4, <1>5, <1>6, <1>7, <1>8 DEF Next, Enqueue, Worker

\* Closing, and why workers leave.
LEMMA ShutStep ==
  ASSUME QueueAssumption, QueueInv, [Next]_vars
  PROVE  CloseIsFinal' /\ LeftForAReason'
<1> DEFINE Goal == CloseIsFinal' /\ LeftForAReason'
<1>0. TypeOK /\ CloseIsFinal /\ LeftForAReason /\ NewIsUntouched
  BY DEF QueueInv
<1> USE <1>0 DEF TypeOK, CloseIsFinal, LeftForAReason
<1>1. ASSUME NEW j \in Jobs, Reject(j) PROVE Goal
  BY <1>1 DEF Reject
<1>2. ASSUME NEW j \in Jobs, FindWorker(j) PROVE Goal
  BY <1>2 DEF FindWorker
<1>3. ASSUME NEW j \in Jobs, StartWorker(j) PROVE Goal
  BY <1>3 DEF StartWorker, NewIsUntouched
<1>4. ASSUME NEW j \in Jobs, Send(j) PROVE Goal
  <2>1. UNCHANGED <<closed, shut, wk, fired, down>>
    BY <1>4 DEF Send
  <2>2. \A w \in shut : buf'[w] = buf[w]
    BY <1>4 DEF Send
  <2> QED BY <2>1, <2>2
<1>5. ASSUME NEW w \in Jobs, Receive(w) PROVE Goal
  <2>1. /\ UNCHANGED <<closed, shut, fired, down>> /\ wk' = [wk EXCEPT ![w] = "busy"]
        /\ \A v \in Jobs \ {w} : buf'[v] = buf[v]
    BY <1>5 DEF Receive
  <2>2. wk[w] = "select"
    BY <1>5 DEF Receive
  <2> QED BY <2>1, <2>2
<1>6. ASSUME NEW w \in Jobs, FinishJob(w) PROVE Goal
  BY <1>6 DEF FinishJob
<1>7. ASSUME NEW w \in Jobs, TimerFires(w) PROVE Goal
  BY <1>7 DEF TimerFires
<1>8. ASSUME NEW w \in Jobs, IdleExit(w) PROVE Goal
  BY <1>8 DEF IdleExit
<1>9. ASSUME NEW w \in Jobs, ClosedExit(w) PROVE Goal
  BY <1>9 DEF ClosedExit
<1>10. ASSUME NEW w \in Jobs, Unregister(w) PROVE Goal
  BY <1>10 DEF Unregister
<1>11. ASSUME NEW w \in Jobs, WgDone(w) PROVE Goal
  BY <1>11 DEF WgDone
<1>12. CASE CloseAll
  BY <1>12 DEF CloseAll
<1>13. CASE WaitReturns
  BY <1>13 DEF WaitReturns
<1>14. CASE UNCHANGED vars
  BY <1>14 DEF vars
<1> QED BY <1>1, <1>2, <1>3, <1>4, <1>5, <1>6, <1>7, <1>8, <1>9, <1>10, <1>11,
           <1>12, <1>13, <1>14 DEF Next, Enqueue, Worker

\* Names, channels and chats.
LEMMA NameStep ==
  ASSUME QueueAssumption, QueueInv, [Next]_vars
  PROVE  NoWorkerNoChannel' /\ ChannelsHaveWorkers'
<1> DEFINE Goal == NoWorkerNoChannel' /\ ChannelsHaveWorkers'
<1>0. /\ TypeOK /\ NoWorkerNoChannel /\ ChannelsHaveWorkers /\ MapMatchesWorkers
      /\ NewIsUntouched /\ RunningIsHeld /\ BufferedIsQueued
  BY DEF QueueInv
<1> USE <1>0 DEF TypeOK, QueueAssumption, NoWorkerNoChannel, ChannelsHaveWorkers
<1>1. ASSUME NEW j \in Jobs, Reject(j) PROVE Goal
  BY <1>1 DEF Reject
<1>2. ASSUME NEW j \in Jobs, FindWorker(j) PROVE Goal
  <2> DEFINE v == workers[ChatOf[j]]
  <2>1. ChatOf[j] \in Chats /\ v # None
    BY <1>2 DEF FindWorker
  <2>2. v \in Jobs
    BY <2>1
  <2>3. wk[v] # "none" /\ ChatOf[v] = ChatOf[j]
    BY <2>1 DEF MapMatchesWorkers, Alive
  <2>4. /\ ch' = [ch EXCEPT ![j] = v] /\ fate' = [fate EXCEPT ![j] = "sending"]
        /\ UNCHANGED <<buf, wk, cur>>
    BY <1>2 DEF FindWorker
  <2> HIDE DEF v
  <2> QED BY <2>1, <2>2, <2>3, <2>4
<1>3. ASSUME NEW j \in Jobs, StartWorker(j) PROVE Goal
  BY <1>3 DEF StartWorker, NewIsUntouched
<1>4. ASSUME NEW j \in Jobs, Send(j) PROVE Goal
  <2>1. /\ UNCHANGED <<ch, wk, cur>> /\ fate[j] = "sending"
        /\ \A k \in Jobs \ {j} : fate'[k] = fate[k]
        /\ \A w \in Jobs \ {ch[j]} : buf'[w] = buf[w]
    BY <1>4 DEF Send
  <2>2. /\ ch[j] \in Jobs /\ wk[ch[j]] # "none"
        /\ ChatOf[j] \in Chats /\ ChatOf[ch[j]] = ChatOf[j]
    BY <2>1
  <2>3. NoWorkerNoChannel'
    BY <2>1, <2>2
  <2>4. ChannelsHaveWorkers'
    <3> SUFFICES ASSUME NEW k \in Jobs, fate'[k] \in {"sending", "queued", "running"}
                 PROVE  /\ ch[k] \in Jobs /\ wk[ch[k]] # "none"
                        /\ ChatOf[k] \in Chats /\ ChatOf[ch[k]] = ChatOf[k]
      BY <2>1
    <3>1. CASE k = j
      BY <2>2, <3>1
    <3>2. CASE k # j
      BY <2>1, <3>2
    <3> QED BY <3>1, <3>2
  <2> QED BY <2>3, <2>4
<1>5. ASSUME NEW w \in Jobs, Receive(w) PROVE Goal
  <2>1. buf[w] \in Seq(Jobs) /\ buf[w] # <<>> /\ wk[w] = "select"
    BY <1>5 DEF Receive
  <2>2. Head(buf[w]) \in Jobs /\ fate[Head(buf[w])] = "queued"
    BY <2>1, TailAt DEF BufferedIsQueued
  <2>3. /\ cur' = [cur EXCEPT ![w] = Head(buf[w])] /\ wk' = [wk EXCEPT ![w] = "busy"]
        /\ fate' = [fate EXCEPT ![Head(buf[w])] = "running"] /\ ch' = ch
        /\ \A v \in Jobs \ {w} : buf'[v] = buf[v]
    BY <1>5 DEF Receive
  <2> QED BY <2>1, <2>2, <2>3
<1>6. ASSUME NEW w \in Jobs, FinishJob(w) PROVE Goal
  BY <1>6 DEF FinishJob, RunningIsHeld
<1>7. ASSUME NEW w \in Jobs, TimerFires(w) PROVE Goal
  BY <1>7 DEF TimerFires
<1>8. ASSUME NEW w \in Jobs, IdleExit(w) PROVE Goal
  BY <1>8 DEF IdleExit
<1>9. ASSUME NEW w \in Jobs, ClosedExit(w) PROVE Goal
  BY <1>9 DEF ClosedExit
<1>10. ASSUME NEW w \in Jobs, Unregister(w) PROVE Goal
  BY <1>10 DEF Unregister
<1>11. ASSUME NEW w \in Jobs, WgDone(w) PROVE Goal
  BY <1>11 DEF WgDone
<1>12. CASE CloseAll \/ WaitReturns \/ UNCHANGED vars
  BY <1>12 DEF CloseAll, WaitReturns, vars
<1> QED BY <1>1, <1>2, <1>3, <1>4, <1>5, <1>6, <1>7, <1>8, <1>9, <1>10, <1>11,
           <1>12 DEF Next, Enqueue, Worker

\* A queued job is in its channel.
LEMMA QueuedStep ==
  ASSUME QueueAssumption, QueueInv, [Next]_vars
  PROVE  QueuedIsBuffered'
<1>0. TypeOK /\ QueuedIsBuffered /\ ChannelsHaveWorkers /\ RunningIsHeld /\ BufferedIsQueued
  BY DEF QueueInv
<1>t. /\ fate \in [Jobs -> Fates] /\ ch \in [Jobs -> Jobs \cup {None}]
      /\ buf \in [Jobs -> Seq(Jobs)]
  BY <1>0 DEF TypeOK
\* It is enough that no channel loses a job that stays queued.
<1>a. ASSUME NEW j \in Jobs, fate[j] # "queued", fate'[j] # "queued", UNCHANGED buf,
             \A k \in Jobs \ {j} : fate'[k] = fate[k] /\ ch'[k] = ch[k]
      PROVE QueuedIsBuffered'
  BY <1>0, <1>a DEF QueuedIsBuffered
<1>1. ASSUME NEW j \in Jobs, Reject(j) PROVE QueuedIsBuffered'
  BY <1>1, <1>a, <1>t DEF Reject
<1>2. ASSUME NEW j \in Jobs, FindWorker(j) PROVE QueuedIsBuffered'
  BY <1>2, <1>a, <1>t DEF FindWorker
<1>3. ASSUME NEW j \in Jobs, StartWorker(j) PROVE QueuedIsBuffered'
  BY <1>3, <1>a, <1>t DEF StartWorker
<1>4. ASSUME NEW j \in Jobs, Send(j) PROVE QueuedIsBuffered'
  <2>1. CASE UNCHANGED buf
    <3>1. CASE fate'[j] # "queued"
      BY <1>4, <2>1, <3>1, <1>a, <1>t DEF Send
    <3>2. CASE fate'[j] = "queued"
      <4> DEFINE b == buf[ch[j]]
      <4>1. ch[j] \in Jobs /\ buf' = [buf EXCEPT ![ch[j]] = Append(@, j)]
        BY <1>4, <3>2, <1>t, <1>0 DEF Send, ChannelsHaveWorkers
      <4>2. Len(b) \in Nat /\ Len(Append(b, j)) = Len(b) + 1 /\ Append(b, j) = b
        BY <2>1, <4>1, <1>t, AppendAt
      <4> QED BY <4>2
    <3> QED BY <3>1, <3>2
  <2>2. CASE buf' = [buf EXCEPT ![ch[j]] = Append(@, j)] /\ fate' = [fate EXCEPT ![j] = "queued"]
    <3>0. ch[j] \in Jobs /\ ch' = ch
      BY <1>4, <1>0 DEF Send, ChannelsHaveWorkers
    <3> DEFINE b == buf[ch[j]]
    <3>1. /\ Len(b) \in Nat
          /\ Len(Append(b, j)) = Len(b) + 1
          /\ \A i \in 1..Len(b) : Append(b, j)[i] = b[i]
          /\ Append(b, j)[Len(b) + 1] = j
      BY <3>0, <1>t, AppendAt
    <3>2. buf'[ch[j]] = Append(b, j) /\ \A w \in Jobs \ {ch[j]} : buf'[w] = buf[w]
      BY <2>2, <3>0, <1>t
    <3>3. fate'[j] = "queued" /\ \A k \in Jobs \ {j} : fate'[k] = fate[k]
      BY <2>2, <1>t
    <3> SUFFICES ASSUME NEW k \in Jobs, fate'[k] = "queued"
                 PROVE  \E i \in 1..Len(buf'[ch[k]]) : buf'[ch[k]][i] = k
      BY <3>0 DEF QueuedIsBuffered
    <3>4. CASE k = j
      <4>1. Len(b) + 1 \in 1..Len(buf'[ch[j]]) /\ buf'[ch[j]][Len(b) + 1] = j
        BY <3>1, <3>2
      <4> QED BY <4>1, <3>4
    <3>5. CASE k # j
      <4>1. PICK i \in 1..Len(buf[ch[k]]) : buf[ch[k]][i] = k
        BY <3>5, <3>3, <1>0 DEF QueuedIsBuffered
      <4>2. ch[k] \in Jobs
        BY <3>5, <3>3, <1>0 DEF ChannelsHaveWorkers
      <4>3. i \in 1..Len(buf'[ch[k]]) /\ buf'[ch[k]][i] = k
        BY <4>1, <4>2, <3>1, <3>2
      <4> QED BY <4>3
    <3> QED BY <3>4, <3>5
  <2> QED BY <1>4, <2>1, <2>2 DEF Send
<1>5. ASSUME NEW w \in Jobs, Receive(w) PROVE QueuedIsBuffered'
  <2> DEFINE h == Head(buf[w])
  <2>1. buf[w] \in Seq(Jobs) /\ buf[w] # <<>>
    BY <1>5, <1>t DEF Receive
  <2>2. /\ h = buf[w][1] /\ h \in Jobs /\ Len(buf[w]) \in Nat /\ Len(buf[w]) >= 1
        /\ Len(Tail(buf[w])) = Len(buf[w]) - 1
        /\ \A i \in 1..Len(Tail(buf[w])) : Tail(buf[w])[i] = buf[w][i + 1]
    BY <2>1, TailAt
  <2>3. /\ buf'[w] = Tail(buf[w]) /\ \A v \in Jobs \ {w} : buf'[v] = buf[v]
        /\ fate'[h] = "running" /\ \A k \in Jobs \ {h} : fate'[k] = fate[k]
        /\ ch' = ch
    BY <1>5, <1>t, <2>2 DEF Receive
  <2> SUFFICES ASSUME NEW k \in Jobs, fate'[k] = "queued"
               PROVE  \E i \in 1..Len(buf'[ch[k]]) : buf'[ch[k]][i] = k
    BY <2>3 DEF QueuedIsBuffered
  <2>4. k # h /\ fate[k] = "queued"
    BY <2>3
  <2>5. PICK i \in 1..Len(buf[ch[k]]) : buf[ch[k]][i] = k
    BY <2>4, <1>0 DEF QueuedIsBuffered
  <2>6. CASE ch[k] # w
    BY <2>6, <2>5, <2>4, <2>3, <1>0 DEF ChannelsHaveWorkers
  <2>7. CASE ch[k] = w
    <3>1. i # 1
      BY <2>4, <2>5, <2>7, <2>2
    <3>2. i - 1 \in 1..Len(Tail(buf[w])) /\ Tail(buf[w])[i - 1] = buf[w][(i - 1) + 1]
      BY <3>1, <2>5, <2>7, <2>2
    <3>3. (i - 1) + 1 = i
      BY <2>5, <2>7, <2>2
    <3> QED BY <3>2, <3>3, <2>3, <2>5, <2>7
  <2> QED BY <2>6, <2>7
<1>6. ASSUME NEW w \in Jobs, FinishJob(w) PROVE QueuedIsBuffered'
  <2>1. cur[w] \in Jobs /\ fate[cur[w]] = "running"
    BY <1>6, <1>0 DEF FinishJob, RunningIsHeld
  <2> QED BY <1>6, <2>1, <1>a, <1>t DEF FinishJob
<1>7. ASSUME NEW w \in Jobs, TimerFires(w) \/ IdleExit(w) \/ ClosedExit(w)
                             \/ Unregister(w) \/ WgDone(w)
      PROVE QueuedIsBuffered'
  BY <1>7, <1>0 DEF TimerFires, IdleExit, ClosedExit, Unregister, WgDone, QueuedIsBuffered
<1>8. CASE CloseAll \/ WaitReturns \/ UNCHANGED vars
  BY <1>8, <1>0 DEF CloseAll, WaitReturns, vars, QueuedIsBuffered
<1> QED BY <1>1, <1>2, <1>3, <1>4, <1>5, <1>6, <1>7, <1>8 DEF Next, Enqueue, Worker

\* The invariant behind the queue's guarantees holds in every state.
THEOREM QueueInvariant == Spec => []QueueInv
<1> USE QueueAssumption
<1>1. QueueInv /\ TypeOK' /\ [Next]_vars => QueueInv'
  BY MapStep, RunStep, BufferStep, ShutStep, NameStep, QueuedStep DEF QueueInv
<1> QED BY QueueInit, QueueTypes, <1>1, PTL DEF Spec
-----------------------------------------------------------------------------
\* A chat never has two agent runs at once.
THEOREM QueueIsSerial == Spec => []SerialPerChat
<1>1. QueueInv => SerialPerChat
  BY DEF QueueInv, MapMatchesWorkers, SerialPerChat, Alive
<1> QED BY <1>1, QueueInvariant, PTL

\* The workers map and the goroutines agree.
THEOREM QueueMapIsExact == Spec => []MapMatchesWorkers
<1>1. QueueInv => MapMatchesWorkers
  BY DEF QueueInv
<1> QED BY <1>1, QueueInvariant, PTL

\* Only the idle timer can leave a job behind in a channel.
THEOREM QueueStrandsOnlyWhenIdle == Spec => []OnlyIdleExitStrands
<1>1. QueueInv => OnlyIdleExitStrands
  BY DEF QueueInv, LeftForAReason, OnlyIdleExitStrands
<1> QED BY <1>1, QueueInvariant, PTL

\* After ShutdownAll nothing runs and nothing can start.
THEOREM QueueShutsDown == Spec => []QuietAfterShutdown
<1>1. QueueInv => QuietAfterShutdown
  <2> SUFFICES ASSUME QueueInv, down = "returned"
               PROVE  /\ \A w \in Jobs : wk[w] \in {"none", "gone"}
                      /\ \A j \in Jobs : fate[j] # "running"
                      /\ \A c \in Chats : workers[c] = None
    BY DEF QuietAfterShutdown
  <2>1. \A w \in Jobs : wk[w] \in {"none", "gone"}
    BY DEF QueueInv, CloseIsFinal
  <2>2. \A j \in Jobs : fate[j] # "running"
    BY <2>1 DEF QueueInv, RunningIsHeld
  <2>3. ASSUME NEW c \in Chats, workers[c] # None PROVE FALSE
    <3>1. workers[c] \in Jobs
      BY <2>3 DEF QueueInv, TypeOK
    <3>2. Alive(workers[c])
      BY <2>3 DEF QueueInv, MapMatchesWorkers
    <3> QED BY <3>1, <3>2, <2>1 DEF Alive
  <2> QED BY <2>1, <2>2, <2>3
<1> QED BY <1>1, QueueInvariant, PTL
-----------------------------------------------------------------------------
(***************************************************************************)
(* The refinement.  Enqueue is Accept, Drop or a stutter; Receive is Start,  *)
(* FinishJob is Finish, an idle exit from a channel that is not empty is     *)
(* Abandon; all other steps are stutters.                                    *)
(***************************************************************************)
\* A worker in its loop is the one that serves its chat.
LEMMA InLoopServes ==
  ASSUME QueueInv, NEW w \in Jobs, wk[w] \in {"select", "busy"}
  PROVE  ChatOf[w] \in Chats /\ workers[ChatOf[w]] = w /\ Serving(ChatOf[w])
         /\ pendingBar[ChatOf[w]] = buf[w] /\ runningBar[ChatOf[w]] = cur[w]
<1>1. ChatOf[w] \in Chats /\ workers[ChatOf[w]] = w
  BY DEF QueueInv, WorkersHaveChats, MapMatchesWorkers, Alive
<1>2. w # None
  BY QueueAssumption
<1> QED BY <1>1, <1>2 DEF Serving, pendingBar, runningBar

\* And a chat that is served is served by a worker of that chat.
LEMMA ServesItsChat ==
  ASSUME QueueInv, NEW c \in Chats, Serving(c)
  PROVE  workers[c] \in Jobs /\ ChatOf[workers[c]] = c
         /\ wk[workers[c]] \in {"select", "busy"}
BY DEF QueueInv, TypeOK, MapMatchesWorkers, Serving

THEOREM QueueInitRefines == Init => Abstract!AInit
<1> SUFFICES ASSUME Init PROVE Abstract!AInit
  OBVIOUS
<1>1. pendingBar = [c \in Chats |-> <<>>] /\ runningBar = [c \in Chats |-> None]
  BY DEF Init, pendingBar, runningBar, Serving
<1>2. statusBar = [j \in Jobs |-> "new"]
  BY DEF Init, statusBar
<1> QED BY <1>1, <1>2 DEF Abstract!AInit

LEMMA EnqueueRefines ==
  ASSUME QueueAssumption, QueueInv, NEW j \in Jobs, Enqueue(j)
  PROVE  [Abstract!ANext]_(Abstract!avars)
<1>0. /\ TypeOK /\ MapMatchesWorkers /\ NewIsUntouched /\ NoWorkerNoChannel
      /\ ChannelsHaveWorkers
  BY DEF QueueInv
<1>1. CASE Reject(j)
  <2>1. pendingBar' = pendingBar /\ runningBar' = runningBar
    BY <1>1 DEF Reject, pendingBar, runningBar, Serving
  <2>2. statusBar[j] = "new" /\ statusBar' = [statusBar EXCEPT ![j] = "dropped"]
    BY <1>1, <1>0 DEF Reject, statusBar, TypeOK
  <2> QED BY <2>1, <2>2 DEF Abstract!ANext, Abstract!Drop
<1>2. CASE FindWorker(j)
  <2>1. pendingBar' = pendingBar /\ runningBar' = runningBar
    BY <1>2 DEF FindWorker, pendingBar, runningBar, Serving
  <2>2. statusBar' = statusBar
    BY <1>2, <1>0 DEF FindWorker, statusBar, TypeOK
  <2> QED BY <2>1, <2>2 DEF Abstract!avars
<1>3. CASE StartWorker(j)
  <2> DEFINE c == ChatOf[j]
  <2>1. /\ c \in Chats /\ workers[c] = None /\ wk[j] = "none" /\ fate[j] = "new"
        /\ workers' = [workers EXCEPT ![c] = j] /\ wk' = [wk EXCEPT ![j] = "select"]
        /\ fate' = [fate EXCEPT ![j] = "sending"] /\ ch' = [ch EXCEPT ![j] = j]
        /\ UNCHANGED <<buf, cur>>
    BY <1>3, <1>0 DEF StartWorker, NewIsUntouched
  <2>2. buf[j] = <<>> /\ cur[j] = None
    BY <2>1, <1>0 DEF NoWorkerNoChannel
  <2>3. \A d \in Chats \ {c} : workers[d] # j
    BY <2>1, <1>0 DEF MapMatchesWorkers, Alive
  <2>4. pendingBar' = pendingBar
    BY <2>1, <2>2, <2>3, <1>0 DEF pendingBar, Serving, TypeOK
  <2>5. runningBar' = runningBar
    BY <2>1, <2>2, <2>3, <1>0 DEF runningBar, Serving, TypeOK
  <2>6. statusBar' = statusBar
    <3> SUFFICES ASSUME NEW k \in Jobs PROVE statusBar'[k] = statusBar[k]
      BY DEF statusBar
    <3>1. CASE k = j
      BY <3>1, <2>1, <1>0 DEF statusBar, TypeOK
    <3>2. CASE k # j /\ fate[k] # "queued"
      BY <3>2, <2>1, <1>0 DEF statusBar, TypeOK
    <3>3. CASE k # j /\ fate[k] = "queued"
      <4>1. ch[k] # j
        BY <3>3, <2>1, <1>0 DEF ChannelsHaveWorkers
      <4> QED BY <3>3, <4>1, <2>1, <1>0 DEF statusBar, TypeOK
    <3> QED BY <3>1, <3>2, <3>3
  <2> QED BY <2>4, <2>5, <2>6 DEF Abstract!avars
<1>4. CASE Send(j)
  <2>0. /\ fate[j] = "sending" /\ ch[j] \in Jobs /\ wk[ch[j]] # "none"
        /\ ChatOf[j] \in Chats /\ ChatOf[ch[j]] = ChatOf[j]
        /\ UNCHANGED <<workers, ch, wk, cur>>
    BY <1>4, <1>0 DEF Send, ChannelsHaveWorkers
  <2>1. CASE UNCHANGED buf /\ fate' = [fate EXCEPT ![j] = "panicked"]
    <3>1. pendingBar' = pendingBar /\ runningBar' = runningBar
      BY <2>0, <2>1 DEF pendingBar, runningBar, Serving
    <3>2. statusBar[j] = "new" /\ statusBar' = [statusBar EXCEPT ![j] = "dropped"]
      BY <2>0, <2>1, <1>0 DEF statusBar, TypeOK
    <3> QED BY <3>1, <3>2 DEF Abstract!ANext, Abstract!Drop
  <2>2. CASE UNCHANGED buf /\ fate' = [fate EXCEPT ![j] = "full"]
    <3>1. pendingBar' = pendingBar /\ runningBar' = runningBar
      BY <2>0, <2>2 DEF pendingBar, runningBar, Serving
    <3>2. statusBar[j] = "new" /\ statusBar' = [statusBar EXCEPT ![j] = "dropped"]
      BY <2>0, <2>2, <1>0 DEF statusBar, TypeOK
    <3> QED BY <3>1, <3>2 DEF Abstract!ANext, Abstract!Drop
  <2>3. CASE /\ buf' = [buf EXCEPT ![ch[j]] = Append(@, j)]
             /\ fate' = [fate EXCEPT ![j] = "queued"]
    <3>1. /\ buf'[ch[j]] = Append(buf[ch[j]], j)
          /\ \A w \in Jobs \ {ch[j]} : buf'[w] = buf[w]
      BY <2>0, <2>3, <1>0 DEF TypeOK
    <3>2. runningBar' = runningBar
      BY <2>0 DEF runningBar, Serving
    <3>3. CASE wk[ch[j]] \in {"select", "busy"}
      <4>1. workers[ChatOf[j]] = ch[j] /\ Serving(ChatOf[j])
            /\ pendingBar[ChatOf[j]] = buf[ch[j]]
        BY <3>3, <2>0, InLoopServes
      <4>2. \A d \in Chats \ {ChatOf[j]} : Serving(d) =>
              workers[d] \in Jobs /\ workers[d] # ch[j]
        BY <2>0, ServesItsChat
      <4>3. pendingBar' = [pendingBar EXCEPT ![ChatOf[j]] = Append(@, j)]
        <5> SUFFICES ASSUME NEW d \in Chats
                     PROVE  pendingBar'[d] = IF d = ChatOf[j]
                                             THEN Append(pendingBar[d], j)
                                             ELSE pendingBar[d]
          BY <2>0 DEF pendingBar
        <5>1. CASE d = ChatOf[j]
          BY <5>1, <4>1, <3>1, <2>0 DEF pendingBar, Serving
        <5>2. CASE d # ChatOf[j]
          BY <5>2, <4>2, <3>1, <2>0 DEF pendingBar, Serving
        <5> QED BY <5>1, <5>2
      <4>4. statusBar[j] = "new" /\ statusBar' = [statusBar EXCEPT ![j] = "pending"]
        BY <2>0, <2>3, <3>3, <1>0 DEF statusBar, TypeOK
      <4>5. Abstract!Accept(j)
        BY <4>3, <4>4, <3>2, <2>0 DEF Abstract!Accept
      <4> QED BY <4>5 DEF Abstract!ANext
    <3>4. CASE wk[ch[j]] \notin {"select", "busy"}
      <4>1. pendingBar' = pendingBar
        <5>1. \A d \in Chats : Serving(d) => workers[d] \in Jobs /\ workers[d] # ch[j]
          BY <3>4, ServesItsChat
        <5> QED BY <5>1, <3>1, <2>0 DEF pendingBar, Serving
      <4>2. statusBar[j] = "new" /\ statusBar' = [statusBar EXCEPT ![j] = "dropped"]
        BY <2>0, <2>3, <3>4, <1>0 DEF statusBar, TypeOK
      <4>3. Abstract!Drop(j)
        BY <4>1, <4>2, <3>2 DEF Abstract!Drop
      <4> QED BY <4>3 DEF Abstract!ANext
    <3> QED BY <3>3, <3>4
  <2> QED BY <1>4, <2>1, <2>2, <2>3 DEF Send
<1> QED BY <1>1, <1>2, <1>3, <1>4 DEF Enqueue

LEMMA WorkerRefines ==
  ASSUME QueueAssumption, QueueInv, NEW w \in Jobs, Worker(w)
  PROVE  [Abstract!ANext]_(Abstract!avars)
<1>0. /\ TypeOK /\ MapMatchesWorkers /\ WorkersHaveChats /\ NoWorkerNoChannel
      /\ ChannelsHaveWorkers /\ RunningIsHeld /\ BufferedIsQueued /\ QueuedIsBuffered
  BY DEF QueueInv
<1> DEFINE c == ChatOf[w]
\* While w serves its chat, no other chat is served by it.
<1>a. ASSUME wk[w] \in {"select", "busy"}
      PROVE  /\ c \in Chats /\ workers[c] = w /\ w # None /\ Serving(c)
             /\ pendingBar[c] = buf[w] /\ runningBar[c] = cur[w]
             /\ \A d \in Chats \ {c} : Serving(d) => workers[d] \in Jobs /\ workers[d] # w
             /\ \A d \in Chats \ {c} : workers[d] # w
  BY <1>a, InLoopServes, ServesItsChat, QueueAssumption, <1>0 DEF MapMatchesWorkers
<1>1. CASE Receive(w)
  <2> DEFINE h == Head(buf[w])
  <2>1. /\ wk[w] = "select" /\ buf[w] # <<>> /\ buf[w] \in Seq(Jobs)
        /\ cur' = [cur EXCEPT ![w] = h] /\ buf' = [buf EXCEPT ![w] = Tail(buf[w])]
        /\ fate' = [fate EXCEPT ![h] = "running"] /\ wk' = [wk EXCEPT ![w] = "busy"]
        /\ UNCHANGED <<workers, ch>>
    BY <1>1, <1>0 DEF Receive, TypeOK
  <2>2. h \in Jobs /\ fate[h] = "queued" /\ ch[h] = w
    BY <2>1, <1>0, TailAt DEF BufferedIsQueued
  <2>3. runningBar[c] = None /\ pendingBar[c] = buf[w] /\ c \in Chats
    BY <2>1, <1>a, <1>0 DEF NoWorkerNoChannel
  <2>4. pendingBar' = [pendingBar EXCEPT ![c] = Tail(@)]
    <3> SUFFICES ASSUME NEW d \in Chats
                 PROVE  pendingBar'[d] = IF d = c THEN Tail(pendingBar[d]) ELSE pendingBar[d]
      BY <2>3 DEF pendingBar
    <3>1. CASE d = c
      BY <3>1, <2>1, <1>a, <1>0 DEF pendingBar, Serving, TypeOK
    <3>2. CASE d # c
      BY <3>2, <2>1, <1>a, <1>0 DEF pendingBar, Serving, TypeOK
    <3> QED BY <3>1, <3>2
  <2>5. runningBar' = [runningBar EXCEPT ![c] = h]
    <3> SUFFICES ASSUME NEW d \in Chats
                 PROVE  runningBar'[d] = IF d = c THEN h ELSE runningBar[d]
      BY <2>3 DEF runningBar
    <3>1. CASE d = c
      BY <3>1, <2>1, <1>a, <1>0 DEF runningBar, Serving, TypeOK
    <3>2. CASE d # c
      BY <3>2, <2>1, <1>a, <1>0 DEF runningBar, Serving, TypeOK
    <3> QED BY <3>1, <3>2
  <2>6. statusBar' = [statusBar EXCEPT ![h] = "running"]
    <3> SUFFICES ASSUME NEW k \in Jobs
                 PROVE  statusBar'[k] = IF k = h THEN "running" ELSE statusBar[k]
      BY DEF statusBar
    <3>1. CASE k = h
      <4>1. fate'[k] = "running"
        BY <3>1, <2>1, <2>2, <1>0 DEF TypeOK
      <4> QED BY <3>1, <4>1 DEF statusBar
    <3>2. CASE k # h
      <4>1. fate'[k] = fate[k] /\ ch'[k] = ch[k]
        BY <3>2, <2>1, <2>2, <1>0 DEF TypeOK
      <4>2. wk'[ch[k]] \in {"select", "busy"} <=> wk[ch[k]] \in {"select", "busy"}
        BY <2>1, <2>2, <1>0 DEF TypeOK
      <4> QED BY <3>2, <4>1, <4>2 DEF statusBar
    <3> QED BY <3>1, <3>2
  <2>7. Abstract!Start(c)
    BY <2>1, <2>3, <2>4, <2>5, <2>6 DEF Abstract!Start
  <2> QED BY <2>3, <2>7 DEF Abstract!ANext
<1>2. CASE FinishJob(w)
  <2>1. /\ wk[w] = "busy" /\ cur[w] \in Jobs /\ fate[cur[w]] = "running"
        /\ cur' = [cur EXCEPT ![w] = None] /\ wk' = [wk EXCEPT ![w] = "select"]
        /\ fate' = [fate EXCEPT ![cur[w]] = "finished"]
        /\ UNCHANGED <<workers, ch, buf>>
    BY <1>2, <1>0 DEF FinishJob, RunningIsHeld
  <2>2. runningBar[c] = cur[w] /\ cur[w] # None /\ c \in Chats
    BY <2>1, <1>a, QueueAssumption
  <2>3. pendingBar' = pendingBar
    <3>1. \A d \in Chats : Serving(d)' = Serving(d)
      BY <2>1, <1>0 DEF Serving, TypeOK
    <3> QED BY <2>1, <3>1 DEF pendingBar
  <2>4. runningBar' = [runningBar EXCEPT ![c] = None]
    <3> SUFFICES ASSUME NEW d \in Chats
                 PROVE  runningBar'[d] = IF d = c THEN None ELSE runningBar[d]
      BY <2>2 DEF runningBar
    <3>1. CASE d = c
      BY <3>1, <2>1, <1>a, <1>0 DEF runningBar, Serving, TypeOK
    <3>2. CASE d # c
      BY <3>2, <2>1, <1>a, <1>0 DEF runningBar, Serving, TypeOK
    <3> QED BY <3>1, <3>2
  <2>5. statusBar' = [statusBar EXCEPT ![cur[w]] = "done"]
    <3> SUFFICES ASSUME NEW k \in Jobs
                 PROVE  statusBar'[k] = IF k = cur[w] THEN "done" ELSE statusBar[k]
      BY DEF statusBar
    <3>1. CASE k = cur[w]
      <4>1. fate'[k] = "finished"
        BY <3>1, <2>1, <1>0 DEF TypeOK
      <4> QED BY <3>1, <4>1 DEF statusBar
    <3>2. CASE k # cur[w]
      <4>1. fate'[k] = fate[k] /\ ch'[k] = ch[k]
        BY <3>2, <2>1, <1>0 DEF TypeOK
      <4>2. wk'[ch[k]] \in {"select", "busy"} <=> wk[ch[k]] \in {"select", "busy"}
        BY <2>1, <1>0 DEF TypeOK
      <4> QED BY <3>2, <4>1, <4>2 DEF statusBar
    <3> QED BY <3>1, <3>2
  <2>6. Abstract!Finish(c)
    BY <2>2, <2>3, <2>4, <2>5 DEF Abstract!Finish
  <2> QED BY <2>2, <2>6 DEF Abstract!ANext
<1>3. CASE IdleExit(w) \/ ClosedExit(w)
  <2>1. /\ wk[w] = "select" /\ wk' = [wk EXCEPT ![w] = "leaving"]
        /\ UNCHANGED <<workers, ch, fate, buf, cur>>
    BY <1>3 DEF IdleExit, ClosedExit
  <2>2. /\ c \in Chats /\ pendingBar[c] = buf[w] /\ runningBar[c] = None
        /\ ~Serving(c)' /\ workers[c] = w
    <3>1. /\ c \in Chats /\ pendingBar[c] = buf[w] /\ runningBar[c] = cur[w]
          /\ workers[c] = w
      BY <2>1, <1>a
    <3>2. cur[w] = None
      BY <2>1, <1>0 DEF NoWorkerNoChannel
    <3>3. wk'[workers'[c]] = "leaving"
      BY <2>1, <3>1, <1>0 DEF TypeOK
    <3> QED BY <3>1, <3>2, <3>3 DEF Serving
  <2>3. \A d \in Chats \ {c} : Serving(d)' = Serving(d) /\ workers[d] # w
    BY <2>1, <1>a, <1>0 DEF Serving, TypeOK
  <2>4. pendingBar' = [pendingBar EXCEPT ![c] = <<>>]
    <3> SUFFICES ASSUME NEW d \in Chats
                 PROVE  pendingBar'[d] = IF d = c THEN <<>> ELSE pendingBar[d]
      BY <2>2 DEF pendingBar
    <3> QED BY <2>1, <2>2, <2>3 DEF pendingBar
  <2>5. runningBar' = runningBar
    <3> SUFFICES ASSUME NEW d \in Chats PROVE runningBar'[d] = runningBar[d]
      BY DEF runningBar
    <3>1. CASE d = c
      BY <3>1, <2>2 DEF runningBar
    <3>2. CASE d # c
      BY <3>2, <2>1, <2>3 DEF runningBar
    <3> QED BY <3>1, <3>2
  <2>6. \A j \in Jobs : statusBar'[j] = IF fate[j] = "queued" /\ ch[j] = w
                                       THEN "dropped" ELSE statusBar[j]
    BY <2>1, <1>0 DEF statusBar, TypeOK
  <2>7. \A j \in Jobs : fate[j] = "queued" /\ ch[j] = w <=> j \in Abstract!Range(buf[w])
    <3>1. DOMAIN buf[w] = 1..Len(buf[w])
      BY <1>0 DEF TypeOK
    <3> QED BY <3>1, <1>0 DEF Abstract!Range, BufferedIsQueued, QueuedIsBuffered
  <2>8. CASE buf[w] = <<>>
    <3>1. \A j \in Jobs : j \notin Abstract!Range(buf[w])
      BY <2>8 DEF Abstract!Range
    <3>2. statusBar' = statusBar
      BY <3>1, <2>6, <2>7 DEF statusBar
    <3>3. pendingBar' = pendingBar
      BY <2>8, <2>2, <2>4 DEF pendingBar
    <3> QED BY <3>2, <3>3, <2>5 DEF Abstract!avars
  <2>9. CASE buf[w] # <<>>
    <3>1. statusBar' = [j \in Jobs |-> IF j \in Abstract!Range(pendingBar[c])
                                       THEN "dropped" ELSE statusBar[j]]
      BY <2>2, <2>6, <2>7 DEF statusBar
    <3>2. Abstract!Abandon(c)
      BY <3>1, <2>9, <2>2, <2>4, <2>5 DEF Abstract!Abandon, Abstract!Range
    <3> QED BY <3>2, <2>2 DEF Abstract!ANext
  <2> QED BY <2>8, <2>9
<1>4. CASE Unregister(w)
  <2>1. /\ wk[w] = "leaving" /\ wk' = [wk EXCEPT ![w] = "removed"]
        /\ c \in Chats /\ workers[c] = w /\ workers' = [workers EXCEPT ![c] = None]
        /\ UNCHANGED <<ch, fate, buf, cur>>
    BY <1>4, <1>0 DEF Unregister, WorkersHaveChats, MapMatchesWorkers, Alive
  <2>2. \A d \in Chats : workers[d] = w => d = c
    BY <2>1, <1>0, QueueAssumption DEF MapMatchesWorkers
  <2>3. \A d \in Chats : Serving(d)' = Serving(d) /\ (Serving(d) => workers'[d] = workers[d])
    BY <2>1, <2>2, <1>0 DEF Serving, TypeOK
  <2>4. pendingBar' = pendingBar /\ runningBar' = runningBar
    BY <2>1, <2>3 DEF pendingBar, runningBar
  <2>5. statusBar' = statusBar
    BY <2>1, <1>0 DEF statusBar, TypeOK
  <2> QED BY <2>4, <2>5 DEF Abstract!avars
<1>5. CASE WgDone(w)
  <2>1. /\ wk[w] = "removed" /\ wk' = [wk EXCEPT ![w] = "gone"]
        /\ UNCHANGED <<workers, ch, fate, buf, cur>>
    BY <1>5 DEF WgDone
  <2>2. \A d \in Chats : Serving(d)' = Serving(d)
    BY <2>1, <1>0 DEF Serving, TypeOK
  <2>3. pendingBar' = pendingBar /\ runningBar' = runningBar
    BY <2>1, <2>2 DEF pendingBar, runningBar
  <2>4. statusBar' = statusBar
    BY <2>1, <1>0 DEF statusBar, TypeOK
  <2> QED BY <2>3, <2>4 DEF Abstract!avars
<1> QED BY <1>1, <1>2, <1>3, <1>4, <1>5 DEF Worker

\* Every behaviour of the manager is one of the serial queue: per chat, jobs run
\* one at a time, in the order they were queued, at most once, and are dropped
\* only before they run and only with their whole queue.
THEOREM QueueRefinesSerialQueue == Spec => Abstract!SafeSpec
<1>1. QueueInv /\ [Next]_vars => [Abstract!ANext]_(Abstract!avars)
  <2> SUFFICES ASSUME QueueInv, [Next]_vars PROVE [Abstract!ANext]_(Abstract!avars)
    OBVIOUS
  <2>1. ASSUME NEW j \in Jobs, Enqueue(j) PROVE [Abstract!ANext]_(Abstract!avars)
    BY <2>1, EnqueueRefines, QueueAssumption
  <2>2. ASSUME NEW w \in Jobs, Worker(w) PROVE [Abstract!ANext]_(Abstract!avars)
    BY <2>2, WorkerRefines, QueueAssumption
  <2>3. ASSUME NEW w \in Jobs, TimerFires(w) PROVE [Abstract!ANext]_(Abstract!avars)
    BY <2>3 DEF TimerFires, Abstract!avars, pendingBar, runningBar, statusBar, Serving
  <2>4. CASE CloseAll \/ WaitReturns \/ UNCHANGED vars
    BY <2>4 DEF CloseAll, WaitReturns, vars, Abstract!avars, pendingBar, runningBar,
                statusBar, Serving
  <2> QED BY <2>1, <2>2, <2>3, <2>4 DEF Next
<1> QED BY <1>1, QueueInvariant, QueueInitRefines, PTL DEF Spec, Abstract!SafeSpec
=============================================================================
