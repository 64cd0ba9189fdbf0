------------------------ MODULE InboundContentProofs ------------------------
(***************************************************************************)
(* Proofs about InboundContent, for every number of messages and days,       *)
(* retention and limits.  What a handler has been told is about its own      *)
(* message until it looks at the quoted one (InPlace): so it never empties a  *)
(* file it has told, and the bytes of a told file are whole unless another   *)
(* handler has opened it (FilesAreWhole).  A file that is gone went with a    *)
(* folder that is old (WhatIsGoneIsOld), and old folders stay old.           *)
(***************************************************************************)
EXTENDS InboundContent, TLAPS

USE InboundContentAssumption

\* The fields of a handler, and that any place it can come to keeps it one (receiver.go:122-178).
LEMMA HandlerFields ==
  ASSUME NEW h \in Handlers
  PROVE  /\ h.pc \in {"none", "merge", "fetch", "ready", "queued", "ended"} \cup Busy
         /\ h.parent \in 0 .. MaxMessages /\ h.item \in 0 .. MaxMessages /\ h.day \in Days
         /\ h.opened \subseteq Paths /\ h.told \subseteq Paths \X Messages /\ h.quoted \in BOOLEAN
         /\ \A pc \in {"none", "merge", "fetch", "ready", "queued", "ended"} \cup Busy :
              [h EXCEPT !.pc = pc] \in Handlers
BY DEF Handlers

\* The end of a download: back to the own text or on to the job (file.go:293-300).
LEMMA AfterType ==
  ASSUME NEW m \in Messages, NEW h \in Handlers
  PROVE  /\ After(m, h) \in Handlers
         /\ After(m, h).pc \in {"merge", "ready"} /\ (After(m, h).pc = "merge" <=> h.item = m)
         /\ After(m, h).parent = h.parent /\ After(m, h).opened = h.opened
         /\ After(m, h).told = h.told /\ After(m, h).quoted = h.quoted
<1>1. 0 \in 0 .. MaxMessages /\ 0 \in Days BY DEF Days
<1> QED BY <1>1 DEF After, Handlers

\* What a text is built from: a download of its item or none (file.go:284-293).
LEMMA BuildsType ==
  ASSUME NEW m, NEW item, NEW k
  PROVE  /\ Builds(m, item, k).pc \in {"get", "merge", "ready"}
         /\ Builds(m, item, k).item \in {item, 0}
         /\ Builds(m, item, k).pc = "get" => Builds(m, item, k).item = item
BY DEF Builds

\* Where handler m stands: it quotes an earlier message; a download is of its own attachment,
\* before it has told any, or of the quoted one; what it is told is of the message the file is named by.
InPlace(m) ==
  LET h == handler[m]
  IN  /\ h.parent < m
      /\ h.pc = "none" => h.told = {} /\ ~h.quoted
      /\ h.pc # "none" => kind[m] # "unseen"
      /\ h.pc = "fetch" => kind[m] # "command" /\ h.parent # 0
      /\ h.quoted => kind[m] # "command"
      /\ h.pc \in Busy =>
           /\ kind[h.item] # "unseen"
           /\ \/ h.item = m /\ h.told = {}
              \/ h.item = h.parent /\ h.parent # 0
      /\ \A t \in h.told : t[1][2] = t[2]
      /\ h.pc \in Busy \cup {"merge", "fetch"} => \A t \in h.told : t[2] = m

\* Every handler does.
HandlersInPlace == \A m \in Messages : InPlace(m)

-----------------------------------------------------------------------------
\* The types hold at the start.
LEMMA TypesInit == Init => TypeOK
<1> SUFFICES ASSUME Init PROVE TypeOK
  OBVIOUS
<1>1. 0 \in 0 .. MaxMessages /\ 0 \in Days BY DEF Days
<1>2. [pc |-> "none", parent |-> 0, item |-> 0, day |-> 0, opened |-> {}, told |-> {},
       quoted |-> FALSE] \in Handlers
  BY <1>1 DEF Handlers
<1> QED BY <1>1, <1>2 DEF Init, TypeOK

\* Every step keeps them: a download is of a message, so its file is one of Paths (file.go:96-97).
LEMMA TypesNext == TypeOK /\ HandlersInPlace /\ [Next]_vars => TypeOK'
<1> SUFFICES ASSUME TypeOK, HandlersInPlace, [Next]_vars PROVE TypeOK'
  OBVIOUS
<1>1. ASSUME NEW m \in Messages, NEW h \in Handlers, handler' = [handler EXCEPT ![m] = h],
             UNCHANGED <<cfg, day, kind, folders, disk, bytes, cleanup>>
      PROVE  TypeOK'
  BY <1>1 DEF TypeOK
<1>2. ASSUME NEW m \in Messages, Receive(m) PROVE TypeOK'
  <2>1. PICK k \in Kinds, q \in 0 .. m - 1 :
          /\ IsOf(m, k)
          /\ handler' = [handler EXCEPT ![m] =
               [@ EXCEPT !.parent = q, !.pc = Builds(m, m, k).pc, !.item = Builds(m, m, k).item]]
          /\ UNCHANGED <<cfg, day, Storage, cleanup>>
    BY <1>2 DEF Receive
  <2>2. kind' \in [Messages -> Kinds \cup {"unseen"}]
    BY <2>1 DEF IsOf, TypeOK
  <2>3. q \in 0 .. MaxMessages /\ Builds(m, m, k).item \in 0 .. MaxMessages
    BY <2>1, BuildsType DEF Messages
  <2>4. [handler[m] EXCEPT !.parent = q, !.pc = Builds(m, m, k).pc, !.item = Builds(m, m, k).item]
          \in Handlers
    <3>1. handler[m] \in Handlers BY DEF TypeOK
    <3>2. Builds(m, m, k).pc \in {"none", "merge", "fetch", "ready", "queued", "ended"} \cup Busy
      BY BuildsType DEF Busy
    <3> QED BY <3>1, <3>2, <2>3 DEF Handlers
  <2> QED BY <2>1, <2>2, <2>4 DEF TypeOK, Storage
<1>3. ASSUME NEW m \in Messages, Merge(m) \/ FetchFails(m) \/ Taken(m) \/ EnqueueJob(m)
      PROVE  TypeOK'
  <2>1. handler[m] \in Handlers BY DEF TypeOK
  <2>2. PICK pc \in {"fetch", "ready", "ended", "queued"} : handler' = [handler EXCEPT ![m].pc = pc]
    BY <1>3 DEF Merge, FetchFails, Taken, EnqueueJob
  <2>3. [handler[m] EXCEPT !.pc = pc] \in Handlers BY <2>1, HandlerFields
  <2> QED BY <2>2, <2>3, <1>3 DEF Merge, FetchFails, Taken, EnqueueJob, Storage, TypeOK
<1>4. ASSUME NEW m \in Messages, FetchParentMessage(m) PROVE TypeOK'
  <2> DEFINE q == handler[m].parent
  <2>1. PICK k \in Kinds :
          /\ IsOf(q, k)
          /\ handler' = [handler EXCEPT ![m] =
               [@ EXCEPT !.quoted = TRUE, !.pc = Builds(m, q, k).pc, !.item = Builds(m, q, k).item]]
          /\ UNCHANGED <<cfg, day, Storage, cleanup>>
    BY <1>4 DEF FetchParentMessage
  <2>2. kind' \in [Messages -> Kinds \cup {"unseen"}]
    BY <2>1 DEF IsOf, TypeOK
  <2>3. q \in 0 .. MaxMessages /\ 0 \in 0 .. MaxMessages BY HandlerFields DEF TypeOK
  <2>4. Builds(m, q, k).item \in 0 .. MaxMessages BY <2>3, BuildsType
  <2>5. [handler[m] EXCEPT !.quoted = TRUE, !.pc = Builds(m, q, k).pc, !.item = Builds(m, q, k).item]
          \in Handlers
    <3>1. handler[m] \in Handlers BY DEF TypeOK
    <3>2. Builds(m, q, k).pc \in {"none", "merge", "fetch", "ready", "queued", "ended"} \cup Busy
      BY BuildsType DEF Busy
    <3> HIDE DEF q
    <3> QED BY <3>1, <3>2, <2>4 DEF Handlers
  <2> QED BY <2>1, <2>2, <2>5 DEF TypeOK, Storage
<1>5. ASSUME NEW m \in Messages, DownloadFails(m) PROVE TypeOK'
  <2>1. After(m, handler[m]) \in Handlers BY AfterType DEF TypeOK
  <2> QED BY <2>1, <1>5 DEF DownloadFails, Storage, TypeOK
<1>6. ASSUME NEW m \in Messages, GetResource(m) PROVE TypeOK'
  <2>1. handler[m] \in Handlers /\ day \in Days BY DEF TypeOK
  <2>2. [handler[m] EXCEPT !.pc = "folder", !.day = day] \in Handlers BY <2>1 DEF Handlers, Busy
  <2>3. handler' = [handler EXCEPT ![m] = [handler[m] EXCEPT !.pc = "folder", !.day = day]]
    BY <1>6 DEF GetResource, TypeOK
  <2> QED BY <2>1, <2>2, <2>3, <1>6 DEF GetResource, TypeOK
<1>7. ASSUME NEW m \in Messages, OpenFile(m) \/ WriteFile(m)
      PROVE  PathOf(handler[m]) \in Paths /\ handler[m].item \in Messages
  <2>1. handler[m].day \in Days /\ handler[m].item \in 0 .. MaxMessages BY HandlerFields DEF TypeOK
  <2>2. handler[m].item = m \/ handler[m].item # 0
    BY <1>7 DEF OpenFile, WriteFile, HandlersInPlace, InPlace, Busy
  <2>3. handler[m].item \in Messages BY <2>1, <2>2 DEF Messages
  <2> QED BY <2>1, <2>3 DEF PathOf, NameOf, Paths
<1>8. ASSUME NEW m \in Messages, OpenFile(m) PROVE TypeOK'
  <2> DEFINE p == PathOf(handler[m])
  <2>1. handler[m] \in Handlers /\ p \in Paths BY <1>7, <1>8 DEF TypeOK
  <2>2. [handler[m] EXCEPT !.pc = "writing", !.opened = @ \cup {p}] \in Handlers
    <3> HIDE DEF p
    <3>1. handler[m].opened \cup {p} \in SUBSET Paths BY <2>1 DEF Handlers
    <3> QED BY <2>1, <3>1 DEF Handlers, Busy
  <2>3. handler' = [handler EXCEPT ![m] = [handler[m] EXCEPT !.pc = "writing", !.opened = @ \cup {p}]]
    BY <1>8 DEF OpenFile, TypeOK
  <2>4. 0 \in 0 .. MaxMessages OBVIOUS
  <2>5. disk' \subseteq Paths /\ bytes' \in [Paths -> 0 .. MaxMessages]
    BY <2>1, <2>4, <1>8 DEF OpenFile, TypeOK
  <2> QED BY <2>2, <2>3, <2>5, <1>8 DEF OpenFile, TypeOK
<1>9. ASSUME NEW m \in Messages, WriteFile(m) PROVE TypeOK'
  <2> DEFINE h == handler[m]
             p == PathOf(h)
  <2>1. h \in Handlers /\ p \in Paths /\ h.item \in Messages BY <1>7, <1>9 DEF TypeOK
  <2>2. After(m, h) \in Handlers BY <2>1, AfterType
  <2>3. [After(m, h) EXCEPT !.told = @ \cup {<<p, h.item>>}] \in Handlers
    <3> HIDE DEF p, h
    <3>1. After(m, h).told \cup {<<p, h.item>>} \in SUBSET (Paths \X Messages)
      BY <2>1, <2>2, HandlerFields
    <3> QED BY <2>2, <3>1 DEF Handlers
  <2>4. h.item \in 0 .. MaxMessages BY <2>1 DEF Messages
  <2>5. bytes' \in [Paths -> 0 .. MaxMessages]
    BY <2>1, <2>4, <1>9 DEF WriteFile, TypeOK
  <2>6. handler' \in [Messages -> Handlers]
    BY <2>3, <1>9 DEF WriteFile, TypeOK
  <2> QED BY <2>5, <2>6, <1>9 DEF WriteFile, TypeOK
<1>10. CASE ReadFolders \/ RemoveFolder \/ RemoveFails
  <2>1. 0 \in 0 .. MaxMessages OBVIOUS
  <2>2. CASE ReadFolders BY <2>2 DEF ReadFolders, Storage, TypeOK
  <2>3. ASSUME NEW files, Remove(files)
        PROVE  disk' \subseteq Paths /\ bytes' \in [Paths -> 0 .. MaxMessages]
    BY <2>1, <2>3 DEF Remove, TypeOK
  <2>4. CASE RemoveFolder BY <2>3, <2>4 DEF RemoveFolder, TypeOK
  <2>5. CASE RemoveFails BY <2>3, <2>5 DEF RemoveFails, TypeOK
  <2> QED BY <1>10, <2>2, <2>4, <2>5
<1>11. CASE NextDay BY <1>11 DEF NextDay, Storage, TypeOK, Days
<1>12. CASE UNCHANGED vars BY <1>12 DEF vars, TypeOK
<1> QED BY <1>2, <1>3, <1>4, <1>5, <1>6, <1>8, <1>9, <1>10, <1>11, <1>12 DEF Next

-----------------------------------------------------------------------------
\* A step of the handler of m.
Step(m) == \/ Receive(m) \/ Merge(m) \/ FetchFails(m) \/ FetchParentMessage(m)
           \/ GetResource(m) \/ OpenFile(m) \/ WriteFile(m) \/ DownloadFails(m)
           \/ Taken(m) \/ EnqueueJob(m)

\* A step is of one handler, and leaves the others (receiver.go:75-119 keeps no state of its own).
LEMMA OthersStay ==
  TypeOK /\ [Next]_vars =>
    \/ UNCHANGED <<handler, kind>>
    \/ \E m \in Messages : Step(m) /\ \A n \in Messages \ {m} : handler'[n] = handler[n]
<1> SUFFICES ASSUME TypeOK, [Next]_vars,
                    ~ UNCHANGED <<handler, kind>>
             PROVE  \E m \in Messages : Step(m) /\ \A n \in Messages \ {m} : handler'[n] = handler[n]
  OBVIOUS
<1>1. PICK m \in Messages : Step(m)
  BY DEF Next, Step, ReadFolders, RemoveFolder, RemoveFails, NextDay, vars
<1>2. \A n \in Messages \ {m} : handler'[n] = handler[n]
  BY <1>1 DEF Step, Receive, Merge, FetchFails, FetchParentMessage, GetResource, OpenFile, WriteFile,
              DownloadFails, Taken, EnqueueJob, TypeOK
<1> QED BY <1>1, <1>2

\* A message that was seen is the same when it is quoted (context.go:60-95).
LEMMA KindsStay ==
  TypeOK /\ [Next]_vars => \A x \in Messages : kind[x] # "unseen" => kind'[x] = kind[x]
<1> SUFFICES ASSUME TypeOK, [Next]_vars
             PROVE  \A x \in Messages : kind[x] # "unseen" => kind'[x] = kind[x]
  OBVIOUS
<1>1. CASE UNCHANGED kind BY <1>1
<1>2. ASSUME NEW m \in Messages, Receive(m) PROVE \A x \in Messages : kind[x] # "unseen" => kind'[x] = kind[x]
  BY <1>2 DEF Receive, IsOf, TypeOK
<1>3. ASSUME NEW m \in Messages, FetchParentMessage(m) PROVE \A x \in Messages : kind[x] # "unseen" => kind'[x] = kind[x]
  BY <1>3 DEF FetchParentMessage, IsOf, TypeOK
<1> QED BY <1>1, <1>2, <1>3, OthersStay
        DEF Step, Merge, FetchFails, GetResource, OpenFile, WriteFile, DownloadFails, Taken, EnqueueJob

\* Every step keeps the handlers in place (receiver.go:122-178, file.go:284-337).
LEMMA InPlaceNext == TypeOK /\ HandlersInPlace /\ [Next]_vars => HandlersInPlace'
<1> SUFFICES ASSUME TypeOK, HandlersInPlace, [Next]_vars, NEW n \in Messages PROVE InPlace(n)'
  BY DEF HandlersInPlace
<1> DEFINE h == handler[n]
<1>1. /\ h \in Handlers /\ InPlace(n) /\ h.parent \in 0 .. MaxMessages /\ h.item \in 0 .. MaxMessages
      /\ handler \in [Messages -> Handlers]
  BY HandlerFields DEF HandlersInPlace, TypeOK
<1>2. h.pc \in Busy => h.item \in Messages
  BY <1>1 DEF InPlace, Messages
<1>3. CASE handler'[n] = handler[n]
  BY <1>1, <1>2, <1>3, KindsStay DEF InPlace
<1>4. CASE Receive(n)
  <2>1. PICK k \in Kinds, q \in 0 .. n - 1 :
          /\ IsOf(n, k)
          /\ handler'[n] = [h EXCEPT !.parent = q, !.pc = Builds(n, n, k).pc, !.item = Builds(n, n, k).item]
    BY <1>1, <1>4 DEF Receive
  <2>2. /\ handler'[n].parent = q /\ handler'[n].pc = Builds(n, n, k).pc
        /\ handler'[n].item = Builds(n, n, k).item
        /\ handler'[n].told = h.told /\ handler'[n].quoted = h.quoted
    BY <1>1, <2>1 DEF Handlers
  <2>3. kind'[n] = k /\ k # "unseen" BY <2>1 DEF IsOf, TypeOK, Kinds
  <2>4. h.told = {} /\ ~h.quoted BY <1>1, <1>4 DEF Receive, InPlace
  <2>5. q < n BY <2>1 DEF Messages
  <2>6. Builds(n, n, k).pc \in {"get", "merge"} /\ (Builds(n, n, k).pc = "get" => Builds(n, n, k).item = n)
    BY DEF Builds
  <2> QED BY <2>2, <2>3, <2>4, <2>5, <2>6 DEF InPlace, Busy
<1>5. CASE Merge(n)
  <2>1. h.pc = "merge" /\ handler'[n] = [h EXCEPT !.pc = IF Quotes(n) THEN "fetch" ELSE "ready"]
        /\ kind' = kind
    BY <1>1, <1>5 DEF Merge
  <2>2. /\ handler'[n].pc = (IF Quotes(n) THEN "fetch" ELSE "ready")
        /\ handler'[n].parent = h.parent /\ handler'[n].told = h.told /\ handler'[n].quoted = h.quoted
    BY <1>1, <2>1 DEF Handlers
  <2> QED BY <1>1, <2>1, <2>2 DEF InPlace, Busy, Quotes
<1>6. CASE FetchFails(n) \/ Taken(n) \/ EnqueueJob(n)
  <2>1. PICK pc \in {"ready", "ended", "queued"} :
          handler'[n] = [h EXCEPT !.pc = pc] /\ kind' = kind /\ h.pc \in {"fetch", "ready"}
    BY <1>1, <1>6 DEF FetchFails, Taken, EnqueueJob
  <2>2. /\ handler'[n].pc = pc
        /\ handler'[n].parent = h.parent /\ handler'[n].told = h.told /\ handler'[n].quoted = h.quoted
    BY <1>1, <2>1 DEF Handlers
  <2> QED BY <1>1, <2>1, <2>2 DEF InPlace, Busy
<1>7. CASE FetchParentMessage(n)
  <2> DEFINE q == h.parent
  <2>1. PICK k \in Kinds :
          /\ IsOf(q, k)
          /\ handler'[n] = [h EXCEPT !.quoted = TRUE, !.pc = Builds(n, q, k).pc, !.item = Builds(n, q, k).item]
    BY <1>1, <1>7 DEF FetchParentMessage
  <2>2. /\ handler'[n].parent = q /\ handler'[n].pc = Builds(n, q, k).pc
        /\ handler'[n].item = Builds(n, q, k).item
        /\ handler'[n].told = h.told /\ handler'[n].quoted
    BY <1>1, <2>1 DEF Handlers
  <2>3. h.pc = "fetch" BY <1>7 DEF FetchParentMessage
  <2>4. /\ q \in Messages /\ q # n /\ q < n
        /\ kind[n] # "command" /\ kind[n] # "unseen"
        /\ \A t \in h.told : t[1][2] = t[2] /\ t[2] = n
    BY <1>1, <2>3 DEF InPlace, Messages
  <2>5. kind'[q] = k /\ k # "unseen" /\ kind'[n] = kind[n]
    BY <2>1, <2>4 DEF IsOf, TypeOK, Kinds
  <2>6. Builds(n, q, k).pc \in {"get", "ready"} /\ (Builds(n, q, k).pc = "get" => Builds(n, q, k).item = q)
    BY <2>4 DEF Builds
  <2>7. q # 0 BY <2>4 DEF Messages
  <2> HIDE DEF q
  <2> QED BY <2>2, <2>4, <2>5, <2>6, <2>7 DEF InPlace, Busy
<1>8. CASE DownloadFails(n)
  <2> DEFINE a == After(n, h)
  <2>1. handler'[n] = a /\ kind' = kind /\ h.pc \in Busy BY <1>1, <1>8 DEF DownloadFails
  <2>2. /\ a.pc \in {"merge", "ready"} /\ (a.pc = "merge" <=> h.item = n)
        /\ a.parent = h.parent /\ a.told = h.told /\ a.quoted = h.quoted
    BY <1>1, AfterType
  <2> HIDE DEF a
  <2> QED BY <1>1, <2>1, <2>2 DEF InPlace, Busy
<1>9. CASE GetResource(n)
  <2>1. h.pc = "get" /\ handler'[n] = [h EXCEPT !.pc = "folder", !.day = day] /\ kind' = kind
    BY <1>1, <1>9 DEF GetResource
  <2>2. /\ handler'[n].pc = "folder" /\ handler'[n].item = h.item
        /\ handler'[n].parent = h.parent /\ handler'[n].told = h.told /\ handler'[n].quoted = h.quoted
    BY <1>1, <2>1 DEF Handlers
  <2> QED BY <1>1, <2>1, <2>2 DEF InPlace, Busy
<1>10. CASE OpenFile(n)
  <2> DEFINE p == PathOf(h)
  <2>1. h.pc = "folder" /\ handler'[n] = [h EXCEPT !.pc = "writing", !.opened = @ \cup {p}] /\ kind' = kind
    BY <1>1, <1>10 DEF OpenFile
  <2> HIDE DEF p
  <2>2. /\ handler'[n].pc = "writing" /\ handler'[n].item = h.item
        /\ handler'[n].parent = h.parent /\ handler'[n].told = h.told /\ handler'[n].quoted = h.quoted
    BY <1>1, <2>1 DEF Handlers
  <2> QED BY <1>1, <2>1, <2>2 DEF InPlace, Busy
<1>11. CASE WriteFile(n)
  <2> DEFINE p == PathOf(h)
             a == After(n, h)
  <2>1. /\ h.pc = "writing" /\ kind' = kind
        /\ handler'[n] = [a EXCEPT !.told = @ \cup {<<p, h.item>>}]
    BY <1>1, <1>11 DEF WriteFile
  <2>2. p[2] = h.item BY DEF PathOf, NameOf
  <2>3. /\ a \in Handlers /\ a.pc \in {"merge", "ready"} /\ (a.pc = "merge" <=> h.item = n)
        /\ a.parent = h.parent /\ a.told = h.told /\ a.quoted = h.quoted
    BY <1>1, AfterType
  <2> HIDE DEF p, a
  <2>4. /\ handler'[n].pc = a.pc /\ handler'[n].parent = a.parent /\ handler'[n].quoted = a.quoted
        /\ handler'[n].told = a.told \cup {<<p, h.item>>}
    BY <2>1, <2>3 DEF Handlers
  <2>5. h.pc \in Busy BY <2>1 DEF Busy
  <2> QED BY <1>1, <2>1, <2>2, <2>3, <2>4, <2>5 DEF InPlace, Busy
<1> QED BY <1>3, <1>4, <1>5, <1>6, <1>7, <1>8, <1>9, <1>10, <1>11, OthersStay DEF Step

-----------------------------------------------------------------------------
(* The steps of a download *)

\* os.WriteFile opens the file of the download, and is told nothing yet (file.go:102).
LEMMA OpenFileOpens ==
  ASSUME TypeOK, NEW m \in Messages, OpenFile(m)
  PROVE  /\ handler'[m].opened = handler[m].opened \cup {PathOf(handler[m])}
         /\ PathOf(handler'[m]) = PathOf(handler[m])
         /\ handler'[m].pc = "writing" /\ handler'[m].told = handler[m].told
         /\ handler'[m].item = handler[m].item /\ handler'[m].day = handler[m].day
         /\ PathOf(handler[m]) \in disk'
<1> DEFINE h == handler[m]
           p == PathOf(h)
<1>1. h \in Handlers /\ handler \in [Messages -> Handlers] BY DEF TypeOK
<1>2. handler'[m] = [h EXCEPT !.pc = "writing", !.opened = @ \cup {p}] /\ p \in disk'
  BY <1>1 DEF OpenFile
<1> HIDE DEF p
<1>3. /\ handler'[m].opened = h.opened \cup {p} /\ handler'[m].pc = "writing"
      /\ handler'[m].item = h.item /\ handler'[m].day = h.day /\ handler'[m].told = h.told
  BY <1>1, <1>2 DEF Handlers
<1> USE DEF p
<1> QED BY <1>2, <1>3 DEF PathOf

\* When it returns, the path goes into the text (file.go:102-105, 298-299).
LEMMA WriteFileTells ==
  ASSUME TypeOK, NEW m \in Messages, WriteFile(m)
  PROVE  /\ handler'[m].told = handler[m].told \cup {<<PathOf(handler[m]), handler[m].item>>}
         /\ handler'[m].opened = handler[m].opened /\ handler'[m].pc \in {"merge", "ready"}
<1> DEFINE h == handler[m]
           p == PathOf(h)
           a == After(m, h)
<1>1. h \in Handlers /\ handler \in [Messages -> Handlers] BY DEF TypeOK
<1>2. handler'[m] = [a EXCEPT !.told = @ \cup {<<p, h.item>>}]
  BY <1>1 DEF WriteFile
<1>3. a \in Handlers /\ a.told = h.told /\ a.opened = h.opened /\ a.pc \in {"merge", "ready"}
  BY <1>1, AfterType
<1> HIDE DEF p, a
<1>4. /\ handler'[m].told = a.told \cup {<<p, h.item>>}
      /\ handler'[m].opened = a.opened /\ handler'[m].pc = a.pc
  BY <1>2, <1>3 DEF Handlers
<1> QED BY <1>3, <1>4 DEF p

\* Every other step leaves what is told and opened, and does not come to write (file.go:260-301).
LEMMA OtherSteps ==
  ASSUME TypeOK, [Next]_vars, NEW n \in Messages
  PROVE  /\ ~WriteFile(n) => handler'[n].told = handler[n].told
         /\ ~OpenFile(n) => handler'[n].opened = handler[n].opened
         /\ ~OpenFile(n) /\ handler'[n] # handler[n] =>
              /\ handler'[n].pc # "writing"
              /\ ~GetResource(n) => handler'[n].pc # "folder"
<1> DEFINE h == handler[n]
<1>1. h \in Handlers /\ handler \in [Messages -> Handlers] BY DEF TypeOK
<1>2. CASE handler'[n] = h BY <1>2
<1>3. CASE Receive(n)
  <2>1. PICK k \in Kinds, q \in 0 .. n - 1 :
          handler'[n] = [h EXCEPT !.parent = q, !.pc = Builds(n, n, k).pc, !.item = Builds(n, n, k).item]
    BY <1>1, <1>3 DEF Receive
  <2>2. handler'[n].told = h.told /\ handler'[n].opened = h.opened /\ handler'[n].pc = Builds(n, n, k).pc
    BY <1>1, <2>1 DEF Handlers
  <2> QED BY <2>2, BuildsType
<1>4. CASE FetchParentMessage(n)
  <2> DEFINE q == h.parent
  <2>1. PICK k \in Kinds :
          handler'[n] = [h EXCEPT !.quoted = TRUE, !.pc = Builds(n, q, k).pc, !.item = Builds(n, q, k).item]
    BY <1>1, <1>4 DEF FetchParentMessage
  <2>2. handler'[n].told = h.told /\ handler'[n].opened = h.opened /\ handler'[n].pc = Builds(n, q, k).pc
    BY <1>1, <2>1 DEF Handlers
  <2> QED BY <2>2, BuildsType
<1>5. CASE Merge(n) \/ FetchFails(n) \/ Taken(n) \/ EnqueueJob(n)
  <2>1. PICK pc \in {"fetch", "ready", "ended", "queued"} : handler'[n] = [h EXCEPT !.pc = pc]
    BY <1>1, <1>5 DEF Merge, FetchFails, Taken, EnqueueJob
  <2>2. handler'[n].told = h.told /\ handler'[n].opened = h.opened /\ handler'[n].pc = pc
    BY <1>1, <2>1 DEF Handlers
  <2> QED BY <2>1, <2>2
<1>6. CASE GetResource(n)
  <2>1. handler'[n] = [h EXCEPT !.pc = "folder", !.day = day]
    BY <1>1, <1>6 DEF GetResource
  <2>2. handler'[n].told = h.told /\ handler'[n].opened = h.opened /\ handler'[n].pc = "folder"
    BY <1>1, <2>1 DEF Handlers
  <2> QED BY <1>6, <2>2
<1>7. CASE DownloadFails(n)
  <2>1. handler'[n] = After(n, h) BY <1>1, <1>7 DEF DownloadFails
  <2> QED BY <1>1, <2>1, AfterType
<1>8. CASE OpenFile(n) BY <1>8, OpenFileOpens DEF OpenFile, WriteFile
<1>9. CASE WriteFile(n) BY <1>9, WriteFileTells
<1> QED BY <1>2, <1>3, <1>4, <1>5, <1>6, <1>7, <1>8, <1>9, OthersStay DEF Step

-----------------------------------------------------------------------------
(* What is told *)

\* A cleanup may have removed the folder of day d.
Gone(d) == cfg.rooted /\ RetentionDays > 0 /\ d + RetentionDays <= day

\* A cleanup is after old folders only; what was told, or is being written, and is not there, was
\* in one.
WhatIsGoneIsOld ==
  /\ \A d \in cleanup : Gone(d)
  /\ \A m \in Messages : \A t \in handler[m].told : t[1] \notin disk => Gone(t[1][1])
  /\ \A m \in Messages : handler[m].pc = "writing" /\ PathOf(handler[m]) \notin disk =>
                           Gone(handler[m].day)

\* A folder that is old stays so (file.go:215, 225: the clock goes forward).
LEMMA GoneStays == TypeOK /\ [Next]_vars => \A d \in Days : Gone(d) => Gone(d)'
<1> SUFFICES ASSUME TypeOK, [Next]_vars, NEW d \in Days, Gone(d) PROVE Gone(d)'
  OBVIOUS
<1>1. d \in Nat /\ day \in Nat BY DEF TypeOK, Days
<1>2. cfg' = cfg /\ (day' = day \/ day' = day + 1)
  BY DEF Next, vars, Receive, Merge, FetchFails, FetchParentMessage, GetResource, OpenFile, WriteFile,
         DownloadFails, Taken, EnqueueJob, ReadFolders, RemoveFolder, RemoveFails, NextDay
<1> QED BY <1>1, <1>2 DEF Gone

\* Every step keeps that: a file leaves the disk in RemoveFolder and RemoveFails (file.go:215-232).
LEMMA GoneNext == TypeOK /\ HandlersInPlace /\ WhatIsGoneIsOld /\ [Next]_vars => WhatIsGoneIsOld'
<1> SUFFICES ASSUME TypeOK, HandlersInPlace, WhatIsGoneIsOld, [Next]_vars PROVE WhatIsGoneIsOld'
  OBVIOUS
<1>0. TypeOK' BY TypesNext
<1>6. \A n \in Messages : ~WriteFile(n) => handler'[n].told = handler[n].told
  BY OtherSteps
<1>7. \A n \in Messages : handler'[n] # handler[n] /\ ~OpenFile(n) => handler'[n].pc # "writing"
  BY OtherSteps
<1>1. cleanup' \subseteq Days /\ \A d \in cleanup' : Gone(d)'
  <2>1. CASE ReadFolders
    <3>1. \A d \in folders : Old(d) <=> d + RetentionDays <= day BY DEF Old
    <3>2. cleanup' \subseteq folders /\ \A d \in cleanup' : Gone(d)
      BY <2>1, <3>1 DEF ReadFolders, Gone
    <3> QED BY <3>2, GoneStays DEF TypeOK
  <2>2. CASE cleanup' \subseteq cleanup
    BY <2>2, GoneStays DEF TypeOK, WhatIsGoneIsOld
  <2> QED BY <2>1, <2>2
      DEF Next, vars, Receive, Merge, FetchFails, FetchParentMessage, GetResource, OpenFile, WriteFile,
          DownloadFails, Taken, EnqueueJob, RemoveFolder, RemoveFails, NextDay
\* A file leaves the disk with a folder that is old.
<1>2. \A p \in disk \ disk' : p \in Paths /\ p[1] \in Days /\ Gone(p[1])'
  <2>1. CASE RemoveFolder \/ RemoveFails
    <3>1. \A p \in disk \ disk' : p[1] \in cleanup
      BY <2>1 DEF RemoveFolder, RemoveFails, Remove, FilesOf
    <3> QED BY <3>1, GoneStays DEF TypeOK, WhatIsGoneIsOld
  <2>2. CASE disk \subseteq disk' BY <2>2
  <2> QED BY <2>1, <2>2
      DEF Next, vars, Storage, Receive, Merge, FetchFails, FetchParentMessage, GetResource, OpenFile,
          WriteFile, DownloadFails, Taken, EnqueueJob, ReadFolders, NextDay
<1>3. \A p \in Paths : p[1] \in Days BY DEF Paths
<1>4. ASSUME NEW n \in Messages, NEW t \in handler'[n].told, t[1] \notin disk'
      PROVE  Gone(t[1][1])'
  <2>1. t[1] \in Paths
    BY <1>4, <1>0, HandlerFields DEF TypeOK
  <2>2. CASE t \in handler[n].told
    <3>1. CASE t[1] \in disk BY <1>2, <1>4, <3>1
    <3>2. CASE t[1] \notin disk BY <3>2, <2>2, <2>1, <1>3, GoneStays DEF WhatIsGoneIsOld
    <3> QED BY <3>1, <3>2
  <2>3. CASE t \notin handler[n].told
    <3> DEFINE h == handler[n]
               p == PathOf(h)
    <3>1. WriteFile(n) BY <1>4, <2>3, <1>6
    <3>2. t = <<p, h.item>> /\ h.pc = "writing" /\ disk' = disk
      <4>1. handler'[n].told = h.told \cup {<<p, h.item>>}
        BY <3>1, WriteFileTells
      <4> QED BY <4>1, <3>1, <2>3, <1>4 DEF WriteFile
    <3>3. t[1] = p /\ p[1] = h.day BY <3>2 DEF PathOf
    <3>4. Gone(h.day) BY <1>4, <3>2, <3>3 DEF WhatIsGoneIsOld
    <3>5. h.day \in Days BY HandlerFields DEF TypeOK
    <3> QED BY <3>3, <3>4, <3>5, GoneStays
  <2> QED BY <2>2, <2>3
<1>5. ASSUME NEW n \in Messages, handler'[n].pc = "writing", PathOf(handler'[n]) \notin disk'
      PROVE  Gone(handler[n].day)'
  <2> DEFINE h == handler[n]
  <2>0. h \in Handlers /\ h.day \in Days BY HandlerFields DEF TypeOK
  <2>1. CASE handler'[n] = h
    <3>1. CASE PathOf(h) \in disk
      <4>1. PathOf(h)[1] = h.day BY DEF PathOf
      <4> QED BY <1>2, <1>5, <2>1, <3>1, <4>1
    <3>2. CASE PathOf(h) \notin disk
      BY <1>5, <2>0, <2>1, <3>2, GoneStays DEF WhatIsGoneIsOld
    <3> QED BY <3>1, <3>2
  <2>2. CASE handler'[n] # h
    <3>1. OpenFile(n) BY <1>5, <2>2, <1>7
    <3>2. PathOf(handler'[n]) = PathOf(h) /\ PathOf(h) \in disk'
      BY <3>1, <2>0, OpenFileOpens
    <3> QED BY <3>2, <1>5
  <2> QED BY <2>1, <2>2
<1> QED BY <1>1, <1>4, <1>5 DEF WhatIsGoneIsOld

-----------------------------------------------------------------------------
(* What a file holds *)

\* maxBytes+1 is negative, and io.LimitReader reads nothing.
Overflow == cfg.max = MaxInt

\* A file holds its own attachment or is not whole; a told one is whole but for the two exceptions.
FilesAreWhole ==
  /\ \A p \in Paths : bytes[p] \in {0, p[2]}
  /\ \A m \in Messages : \A t \in handler[m].told :
       t[1] \in disk => \/ bytes[t[1]] = t[2]
                        \/ Overflow
                        \/ \E n \in Messages \ {m} : t[1] \in handler[n].opened
  /\ \A m \in Messages : handler[m].pc \in {"folder", "writing"} =>
       LimitReader(Size(kind[handler[m].item])) = Size(kind[handler[m].item]) \/ Overflow

\* Within the limit an attachment is read whole (file.go:70-77).
LEMMA ReadWhole ==
  ASSUME TypeOK, NEW k, LimitReader(Size(k)) <= cfg.max
  PROVE  LimitReader(Size(k)) = Size(k) \/ Overflow
<1>0. cfg.max \in Limits BY DEF TypeOK
<1>4. cfg.max \in 1 .. MaxInt BY <1>0
<1>5. MaxInt \in Nat OBVIOUS
<1>1. cfg.max \in Nat BY <1>4, <1>5
<1>2. Size(k) \in Nat BY DEF Size
<1>3. CASE ~Overflow
  <2>1. Plus1(cfg.max) = cfg.max + 1 BY <1>3 DEF Plus1, Overflow
  <2> QED BY <1>1, <1>2, <2>1 DEF LimitReader
<1> QED BY <1>3

\* The configuration stays (config_accessor.go reads it and no more).
LEMMA CfgStays == [Next]_vars => cfg' = cfg
BY DEF Next, vars, Receive, Merge, FetchFails, FetchParentMessage, GetResource, OpenFile, WriteFile,
       DownloadFails, Taken, EnqueueJob, ReadFolders, RemoveFolder, RemoveFails, NextDay

\* Only a download that opens or writes, and the cleanup, touch the files (file.go:102, 227).
LEMMA FileSteps ==
  [Next]_vars => \/ UNCHANGED <<disk, bytes>>
                 \/ \E files : Remove(files)
                 \/ \E m \in Messages : OpenFile(m) \/ WriteFile(m)
BY DEF Next, vars, Storage, Receive, Merge, FetchFails, FetchParentMessage, GetResource,
       DownloadFails, Taken, EnqueueJob, ReadFolders, RemoveFolder, RemoveFails, NextDay

\* Every step keeps the files whole: a handler that opens a file was not told it (file.go:102, 326).
LEMMA WholeNext ==
  TypeOK /\ HandlersInPlace /\ FilesAreWhole /\ [Next]_vars => FilesAreWhole'
<1> SUFFICES ASSUME TypeOK, HandlersInPlace, FilesAreWhole, [Next]_vars PROVE FilesAreWhole'
  OBVIOUS
<1>0. TypeOK' /\ HandlersInPlace' BY TypesNext, InPlaceNext
<1>1. cfg' = cfg BY CfgStays
<1>2. ASSUME NEW m \in Messages, WriteFile(m)
      PROVE  LET h == handler[m]
             IN  /\ PathOf(h) \in Paths /\ PathOf(h)[2] = h.item /\ h.item \in Messages
                 /\ disk' = disk
                 /\ \/ bytes' = [bytes EXCEPT ![PathOf(h)] = h.item]
                    \/ bytes' = bytes /\ (Overflow \/ PathOf(h) \notin disk)
  <2> DEFINE h == handler[m]
  <2>1. h.day \in Days /\ h.item \in 0 .. MaxMessages BY HandlerFields DEF TypeOK
  <2>2. h.item = m \/ h.item # 0
    BY <1>2 DEF WriteFile, HandlersInPlace, InPlace, Busy
  <2>3. h.item \in Messages BY <2>1, <2>2 DEF Messages
  <2>4. PathOf(h) \in Paths /\ PathOf(h)[2] = h.item BY <2>1, <2>3 DEF PathOf, NameOf, Paths
  <2>5. LimitReader(Size(kind[h.item])) = Size(kind[h.item]) \/ Overflow
    BY <1>2 DEF WriteFile, FilesAreWhole
  <2> QED BY <2>3, <2>4, <2>5, <1>2 DEF WriteFile
<1>3. ASSUME NEW m \in Messages, OpenFile(m)
      PROVE  LET h == handler[m]
             IN  /\ PathOf(h) \in Paths /\ PathOf(h)[2] = h.item
                 /\ disk' = disk \cup {PathOf(h)} /\ bytes' = [bytes EXCEPT ![PathOf(h)] = 0]
                 /\ \A t \in h.told : t[1] # PathOf(h)
  <2> DEFINE h == handler[m]
  <2>1. h.day \in Days /\ h.item \in 0 .. MaxMessages /\ h.parent \in 0 .. MaxMessages
    BY HandlerFields DEF TypeOK
  <2>7. h.pc \in Busy /\ InPlace(m) BY <1>3 DEF OpenFile, HandlersInPlace, Busy
  <2>2. /\ (h.item = m /\ h.told = {}) \/ (h.item = h.parent /\ h.parent # 0)
        /\ \A t \in h.told : t[1][2] = t[2] /\ t[2] = m
        /\ h.parent < m
    BY <2>7 DEF InPlace
  <2>3. h.item \in Messages BY <2>1, <2>2 DEF Messages
  <2>4. PathOf(h) \in Paths /\ PathOf(h)[2] = h.item BY <2>1, <2>3 DEF PathOf, NameOf, Paths
  <2>5. h.told = {} \/ h.item # m BY <2>1, <2>2 DEF Messages
  <2>6. \A t \in h.told : t[1] # PathOf(h) BY <2>2, <2>4, <2>5
  <2> QED BY <2>4, <2>6, <1>3 DEF OpenFile
<1>4. \A p \in Paths : bytes'[p] \in {0, p[2]}
  <2>1. ASSUME NEW files, Remove(files) PROVE \A p \in Paths : bytes'[p] \in {0, p[2]}
    BY <2>1 DEF Remove, FilesAreWhole
  <2>2. ASSUME NEW m \in Messages, OpenFile(m) PROVE \A p \in Paths : bytes'[p] \in {0, p[2]}
    BY <2>2, <1>3 DEF FilesAreWhole, TypeOK
  <2>3. ASSUME NEW m \in Messages, WriteFile(m) PROVE \A p \in Paths : bytes'[p] \in {0, p[2]}
    BY <2>3, <1>2 DEF FilesAreWhole, TypeOK
  <2> QED BY <2>1, <2>2, <2>3, FileSteps DEF FilesAreWhole
<1>5. \A n \in Messages : handler[n].opened \subseteq handler'[n].opened
  BY OtherSteps, OpenFileOpens
<1>6. ASSUME NEW m \in Messages, NEW t \in handler'[m].told, t[1] \in disk'
      PROVE  \/ bytes'[t[1]] = t[2]
             \/ Overflow
             \/ \E n \in Messages \ {m} : t[1] \in handler'[n].opened
  <2>0. t[1] \in Paths /\ t[1][2] = t[2]
    BY <1>0, <1>6, HandlerFields DEF TypeOK, HandlersInPlace, InPlace
  <2>1. CASE t \notin handler[m].told
    <3>1. WriteFile(m) BY <1>6, <2>1, OtherSteps
    <3>2. t = <<PathOf(handler[m]), handler[m].item>> BY <3>1, <2>1, <1>6, WriteFileTells
    <3>3. t[1] = PathOf(handler[m]) /\ t[2] = handler[m].item BY <3>2
    <3> QED BY <3>1, <3>3, <2>0, <1>2, <1>6 DEF TypeOK
  <2>2. CASE t \in handler[m].told
    <3>1. t[1] \in disk =>
            \/ bytes[t[1]] = t[2] \/ Overflow \/ \E n \in Messages \ {m} : t[1] \in handler'[n].opened
      BY <2>2, <1>5 DEF FilesAreWhole
    <3>2. ASSUME NEW files, Remove(files) PROVE t[1] \in disk /\ bytes'[t[1]] = bytes[t[1]]
      BY <3>2, <2>0, <1>6 DEF Remove
    <3>3. ASSUME NEW n \in Messages, OpenFile(n)
          PROVE  \/ t[1] \in disk /\ bytes'[t[1]] = bytes[t[1]]
                 \/ n # m /\ t[1] \in handler'[n].opened
      <4> DEFINE p == PathOf(handler[n])
      <4>1. /\ p \in Paths /\ disk' = disk \cup {p} /\ bytes' = [bytes EXCEPT ![p] = 0]
            /\ \A u \in handler[n].told : u[1] # p
            /\ p \in handler'[n].opened
        BY <3>3, <1>3, OpenFileOpens
      <4> HIDE DEF p
      <4>2. CASE t[1] = p BY <4>1, <4>2, <2>2
      <4>3. CASE t[1] # p
        <5>1. t[1] \in disk BY <4>1, <4>3, <1>6
        <5>2. bytes'[t[1]] = bytes[t[1]]
          <6>1. bytes \in [Paths -> 0 .. MaxMessages] BY DEF TypeOK
          <6> QED BY <6>1, <4>1, <4>3, <2>0
        <5> QED BY <5>1, <5>2
      <4> QED BY <4>2, <4>3
    <3>4. ASSUME NEW n \in Messages, WriteFile(n)
          PROVE  t[1] \in disk /\ (bytes'[t[1]] = bytes[t[1]] \/ bytes'[t[1]] = t[2])
      BY <3>4, <1>2, <1>6, <2>0 DEF TypeOK
    <3>5. CASE UNCHANGED <<disk, bytes>> BY <3>1, <3>5, <1>6
    <3> QED BY <3>1, <3>2, <3>3, <3>4, <3>5, FileSteps
  <2> QED BY <2>1, <2>2
<1>7. ASSUME NEW m \in Messages, handler'[m].pc \in {"folder", "writing"}
      PROVE  (LimitReader(Size(kind[handler[m].item])) = Size(kind[handler[m].item]) \/ Overflow)'
  <2> DEFINE item == handler[m].item
             k == kind[item]
  <2>0. handler[m] \in Handlers /\ item \in 0 .. MaxMessages BY HandlerFields DEF TypeOK
  <2>1. CASE handler[m].pc \in Busy /\ handler'[m].item = item
               /\ (LimitReader(Size(k)) = Size(k) \/ Overflow)
    <3>1. item \in Messages /\ k # "unseen"
      BY <2>0, <2>1 DEF HandlersInPlace, InPlace, Messages
    <3>2. kind'[item] = k BY <3>1, KindsStay
    <3> QED BY <2>1, <3>2, <1>1 DEF LimitReader, Overflow
  <2>2. CASE handler'[m] = handler[m]
    BY <2>1, <2>2, <1>7 DEF FilesAreWhole, Busy
  <2>3. CASE OpenFile(m)
    <3>1. handler[m].pc = "folder" /\ handler'[m].item = item BY <2>3, OpenFileOpens DEF OpenFile
    <3> QED BY <2>1, <3>1 DEF FilesAreWhole, Busy
  <2>4. CASE GetResource(m)
    <3>1. handler[m].pc = "get" /\ LimitReader(Size(k)) <= cfg.max BY <2>4 DEF GetResource
    <3>2. handler' = [handler EXCEPT ![m] = [handler[m] EXCEPT !.pc = "folder", !.day = day]]
      BY <2>4 DEF GetResource, TypeOK
    <3>3. handler'[m].item = item BY <3>2, <2>0 DEF Handlers, TypeOK
    <3> QED BY <2>1, <3>1, <3>3, ReadWhole DEF Busy
  <2>5. handler'[m] = handler[m] \/ OpenFile(m) \/ GetResource(m)
    BY <1>7, OtherSteps
  <2> QED BY <2>2, <2>3, <2>4, <2>5
<1> QED BY <1>4, <1>6, <1>7, <1>1 DEF FilesAreWhole, Overflow

-----------------------------------------------------------------------------
(* The invariant *)

\* The inductive invariant.
InboundInv == TypeOK /\ HandlersInPlace /\ WhatIsGoneIsOld /\ FilesAreWhole

\* It holds at the start: no message was received, no file written.
LEMMA InvInit == Init => InboundInv
<1> SUFFICES ASSUME Init PROVE InboundInv
  OBVIOUS
<1>1. \A m \in Messages : /\ handler[m].pc = "none" /\ handler[m].parent = 0
                           /\ handler[m].told = {} /\ ~handler[m].quoted
  BY DEF Init
<1>2. HandlersInPlace BY <1>1 DEF HandlersInPlace, InPlace, Busy, Messages
<1>3. WhatIsGoneIsOld BY <1>1 DEF WhatIsGoneIsOld, Init
<1>4. FilesAreWhole BY <1>1 DEF FilesAreWhole, Init
<1> QED BY <1>2, <1>3, <1>4, TypesInit DEF InboundInv

\* And always.
THEOREM InboundInvariant == Spec => []InboundInv
<1>1. InboundInv /\ [Next]_vars => InboundInv'
  BY TypesNext, InPlaceNext, GoneNext, WholeNext DEF InboundInv
<1> QED BY InvInit, <1>1, PTL DEF Spec

\* TypeOK: every file is in the folder of a day and is named by a message (file.go:91-97).
THEOREM InboundTypes == Spec => []TypeOK
<1>1. InboundInv => TypeOK BY DEF InboundInv
<1> QED BY InboundInvariant, <1>1, PTL

\* ToldFileIsKept: a cleanup takes from an agent only files of days that are old (file.go:199-235).
THEOREM ToldFilesAreKept == Spec => []ToldFileIsKept
<1>1. InboundInv => ToldFileIsKept
  BY DEF InboundInv, WhatIsGoneIsOld, ToldFileIsKept, Gone, Queued
<1> QED BY InboundInvariant, <1>1, PTL

\* ToldFileIsItsAttachment: what an agent finds at local_path is the whole attachment, but while
\* another handler writes it again and with the largest limit (file.go:70-77, 96-104).
THEOREM ToldFilesAreTheirAttachments == Spec => []ToldFileIsItsAttachment
<1>1. ASSUME InboundInv PROVE ToldFileIsItsAttachment
  <2>1. SUFFICES ASSUME NEW m \in Queued, NEW t \in handler[m].told, t[1] \in disk
                 PROVE  \/ bytes[t[1]] = t[2]
                        \/ bytes[t[1]] = 0 /\ (cfg.max = MaxInt \/ \E n \in Messages \ {m} : t[1] \in handler[n].opened)
    BY DEF ToldFileIsItsAttachment
  <2>2. m \in Messages BY DEF Queued
  <2>3. t[1] \in Paths /\ t[1][2] = t[2]
    BY <1>1, <2>2, HandlerFields DEF InboundInv, TypeOK, HandlersInPlace, InPlace
  <2>4. bytes[t[1]] \in {0, t[2]} BY <1>1, <2>3 DEF InboundInv, FilesAreWhole
  <2>5. \/ bytes[t[1]] = t[2] \/ Overflow \/ \E n \in Messages \ {m} : t[1] \in handler[n].opened
    BY <1>1, <2>1, <2>2 DEF InboundInv, FilesAreWhole
  <2> QED BY <2>4, <2>5 DEF Overflow
<1> QED BY InboundInvariant, <1>1, PTL

\* OnlyTheSenderCommands: an agent gets a bare command exactly when the sender wrote it
\* (file.go:303-337, manager.go:159-167).
THEOREM CommandsAreTheSenders == Spec => []OnlyTheSenderCommands
<1>1. ASSUME InboundInv PROVE OnlyTheSenderCommands
  <2>1. SUFFICES ASSUME NEW m \in Queued
                 PROVE  RunPrompt(m) = "command" <=> kind[m] = "command"
    BY DEF OnlyTheSenderCommands
  <2>2. m \in Messages /\ handler[m].pc = "queued" BY DEF Queued
  <2>3. handler[m].quoted => kind[m] # "command"
    BY <1>1, <2>2 DEF InboundInv, HandlersInPlace, InPlace
  <2>4. kind[m] \in Kinds \cup {"unseen"} BY <1>1, <2>2 DEF InboundInv, TypeOK
  <2>5. OwnText(kind[m]) = "command" <=> kind[m] = "command" BY DEF OwnText
  <2> QED BY <2>3, <2>4, <2>5 DEF RunPrompt, Content
<1> QED BY InboundInvariant, <1>1, PTL
====
