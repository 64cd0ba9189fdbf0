--------------------------- MODULE InboundContent ---------------------------
(***************************************************************************)
(* From a message to the text an agent gets: file.go's                       *)
(* BuildInboundUserContent, DownloadMessageResource, MergeInboundReplyContext*)
(* and CleanupInboundOldDays, with parser.go and context.go, as the handlers *)
(* of receiver.go call them, one goroutine for every message, all on the     *)
(* same folders.                                                             *)
(*                                                                           *)
(* A text is what matters of it: blank, a comma command, or anything else    *)
(* (a post, an unknown type, the raw JSON of an unreadable text).  An        *)
(* attachment has a size; what a file holds is the message whose attachment  *)
(* it is whole of, or 0.  A message without a key is as one with downloads   *)
(* off.  The clock counts days.                                              *)
(***************************************************************************)
EXTENDS Integers

CONSTANTS MaxMessages,   \* bound: messages of the chat
          MaxDay,        \* bound: days that pass
          RetentionDays, \* inbound_media_retention_days
          Limits,        \* values of inbound_media_max_bytes
          MaxInt         \* the largest int64

Messages == 1 .. MaxMessages
Days == 0 .. MaxDay
Paths == Days \X Messages   \* <root>/<day>/<message id>_<name>

ASSUME InboundContentAssumption ==
         /\ MaxMessages \in Nat \ {0} /\ MaxDay \in Nat /\ RetentionDays \in Nat
         /\ MaxInt \in Nat /\ Limits \subseteq 1 .. MaxInt

VARIABLES cfg,      \* the configuration: downloads, root, limit
          day,      \* today
          kind,     \* what each message is, "unseen" before it matters
          handler,  \* HandleMessageReceive of each message
          folders,  \* the day folders there are
          disk,     \* the files there are
          bytes,    \* what each holds
          cleanup   \* the folders a cleanup has found to be old

vars == <<cfg, day, kind, handler, folders, disk, bytes, cleanup>>

Kinds == {"text", "command", "mention", "nothing", "small", "large"}
Media == {"small", "large"}
Size(k) == IF k = "large" THEN 2 ELSE 1

Busy == {"get", "folder", "writing"}

Handlers == [pc : {"none", "merge", "fetch", "ready", "queued", "ended"} \cup Busy,
             parent : 0 .. MaxMessages, item : 0 .. MaxMessages, day : Days,
             opened : SUBSET Paths, told : SUBSET (Paths \X Messages), quoted : BOOLEAN]

TypeOK ==
  /\ cfg \in [media : BOOLEAN, rooted : BOOLEAN, max : Limits]
  /\ day \in Days
  /\ kind \in [Messages -> Kinds \cup {"unseen"}]
  /\ handler \in [Messages -> Handlers]
  /\ folders \subseteq Days
  /\ disk \subseteq Paths
  /\ bytes \in [Paths -> 0 .. MaxMessages]
  /\ cleanup \subseteq Days

Init ==
  /\ cfg \in [media : BOOLEAN, rooted : BOOLEAN, max : Limits]
  /\ day = 0
  /\ kind = [m \in Messages |-> "unseen"]
  /\ handler = [m \in Messages |->
       [pc |-> "none", parent |-> 0, item |-> 0, day |-> 0, opened |-> {}, told |-> {},
        quoted |-> FALSE]]
  /\ folders = {} /\ disk = {} /\ cleanup = {}
  /\ bytes = [p \in Paths |-> 0]

\* A message is one and the same when it comes and when it is quoted.
IsOf(m, k) == /\ kind[m] \in {k, "unseen"}
              /\ kind' = [kind EXCEPT ![m] = k]

Storage == <<folders, disk, bytes>>
-----------------------------------------------------------------------------
(* What a message becomes *)

\* BuildInboundUserContent, and the group's StripMentionText, of a message's own text.
OwnText(k) == CASE k = "command"              -> "command"
                [] k \in {"nothing", "mention"} -> "blank"
                [] OTHER                       -> "text"

\* An attachment is downloaded by the first text that is built for it.
Builds(m, item, k) == IF cfg.media /\ k \in Media
                      THEN [pc |-> "get", item |-> item]
                      ELSE [pc |-> IF item = m THEN "merge" ELSE "ready", item |-> 0]

Receive(m) == \E k \in Kinds, q \in 0 .. m - 1 :
  /\ handler[m].pc = "none"
  /\ IsOf(m, k)
  /\ handler' = [handler EXCEPT ![m] =
       [@ EXCEPT !.parent = q, !.pc = Builds(m, m, k).pc, !.item = Builds(m, m, k).item]]
  /\ UNCHANGED <<cfg, day, Storage, cleanup>>

\* Mutant: a command is given its quoted message too.
QuotesAny(m) == cfg.media /\ handler[m].parent # 0

\* The parent is fetched when downloads are on, whatever inbound_reply_context_enabled says.
Quotes(m) == kind[m] # "command" /\ cfg.media /\ handler[m].parent # 0

Merge(m) == /\ handler[m].pc = "merge"
            /\ handler' = [handler EXCEPT ![m].pc = IF Quotes(m) THEN "fetch" ELSE "ready"]
            /\ UNCHANGED <<cfg, day, kind, Storage, cleanup>>

\* An error, a deleted message, or one without content: the text goes without it.
FetchFails(m) == /\ handler[m].pc = "fetch"
                 /\ handler' = [handler EXCEPT ![m].pc = "ready"]
                 /\ UNCHANGED <<cfg, day, kind, Storage, cleanup>>

\* The parent's mentions stay in its text; what it quotes itself is not looked at.
FetchParentMessage(m) == \E k \in Kinds \ {"nothing"} :
  LET q == handler[m].parent
  IN  /\ handler[m].pc = "fetch"
      /\ IsOf(q, k)
      /\ handler' = [handler EXCEPT ![m] =
           [@ EXCEPT !.quoted = TRUE, !.pc = Builds(m, q, k).pc, !.item = Builds(m, q, k).item]]
      /\ UNCHANGED <<cfg, day, Storage, cleanup>>
-----------------------------------------------------------------------------
(* DownloadMessageResource *)

\* int64 addition.
Plus1(x) == IF x = MaxInt THEN -(MaxInt + 1) ELSE x + 1

\* io.LimitReader(maxBytes+1): bytes read of an attachment.
LimitReader(size) == IF Plus1(cfg.max) < 0 THEN 0
                     ELSE IF size < Plus1(cfg.max) THEN size ELSE Plus1(cfg.max)

\* Mutant: the name is the one Feishu gives, image.jpg for every image.
NameByFeishu(item) == 1

\* The file's name begins with the id of its message.
NameOf(item) == item

PathOf(h) == <<h.day, NameOf(h.item)>>

\* After the download of the own attachment the quoted one comes, after that one the job.
After(m, h) == [h EXCEPT !.pc = IF h.item = m THEN "merge" ELSE "ready", !.item = 0, !.day = 0]

\* No answer in time, the limit, the folder or the disk: the text says download_failed.
DownloadFails(m) == /\ handler[m].pc \in Busy
                    /\ handler' = [handler EXCEPT ![m] = After(m, @)]
                    /\ UNCHANGED <<cfg, day, kind, Storage, cleanup>>

\* Mutant: the folder is named by the date of UTC.
GetResourceUTC(m) == LET h == handler[m]
                     IN  /\ h.pc = "get"
                         /\ LimitReader(Size(kind[h.item])) <= cfg.max
                         /\ handler' = [handler EXCEPT ![m].pc = "folder", ![m].day = day + 1]
                         /\ folders' = folders \cup {day + 1}
                         /\ UNCHANGED <<cfg, day, kind, disk, bytes, cleanup>>

\* The folder is the day's, by the local clock.
GetResource(m) == LET h == handler[m]
                  IN  /\ h.pc = "get"
                      /\ LimitReader(Size(kind[h.item])) <= cfg.max
                      /\ handler' = [handler EXCEPT ![m].pc = "folder", ![m].day = day]
                      /\ folders' = folders \cup {day}
                      /\ UNCHANGED <<cfg, day, kind, disk, bytes, cleanup>>

\* os.WriteFile opens the file and empties it ...
OpenFile(m) == LET h == handler[m]
                   p == PathOf(h)
               IN  /\ h.pc = "folder" /\ h.day \in folders
                   /\ handler' = [handler EXCEPT ![m].pc = "writing", ![m].opened = @ \cup {p}]
                   /\ disk' = disk \cup {p}
                   /\ bytes' = [bytes EXCEPT ![p] = 0]
                   /\ UNCHANGED <<cfg, day, kind, folders, cleanup>>

\* ... then writes; the text has local_path and status: downloaded.
WriteFile(m) == LET h == handler[m]
                    p == PathOf(h)
                    size == Size(kind[h.item])
                    whole == LimitReader(size) = size
                IN  /\ h.pc = "writing"
                    /\ bytes' = IF p \in disk /\ whole THEN [bytes EXCEPT ![p] = h.item] ELSE bytes
                    /\ handler' = [handler EXCEPT ![m] =
                         [After(m, h) EXCEPT !.told = @ \cup {<<p, h.item>>}]]
                    /\ UNCHANGED <<cfg, day, kind, folders, disk, cleanup>>
-----------------------------------------------------------------------------
(* The end of the handler *)

\* An answer to an approval, a command for the bot, a sender who is not allowed.
Taken(m) == /\ handler[m].pc = "ready"
            /\ handler' = [handler EXCEPT ![m].pc = "ended"]
            /\ UNCHANGED <<cfg, day, kind, Storage, cleanup>>

Standalone(m) == kind[m] \in Media /\ handler[m].parent = 0

\* An attachment that quotes nothing is saved and no more.
EnqueueJob(m) == /\ handler[m].pc = "ready"
                 /\ handler' = [handler EXCEPT ![m].pc = IF Standalone(m) THEN "ended" ELSE "queued"]
                 /\ UNCHANGED <<cfg, day, kind, Storage, cleanup>>

\* The job's content: the quoted block and the text, or the text, or [empty message].
\* The second look for a command (context.go:130) never finds one, as none comes so far (Quotes).
Content(m) == CASE handler[m].quoted            -> "block"
                [] OwnText(kind[m]) = "blank"   -> "text"
                [] OTHER                        -> OwnText(kind[m])

\* ProcessJob: a command is given as it is, anything else after the composer's hints.
RunPrompt(m) == IF Content(m) = "command" THEN "command" ELSE "composed"
-----------------------------------------------------------------------------
(* scheduleInboundRetentionCleanup and CleanupInboundOldDays *)

\* Mutant: a day too early.
OldADayEarly(d) == d + RetentionDays - 1 <= day

\* The folder's midnight lies before now minus the days.
Old(d) == d + RetentionDays <= day

\* Once for each Init; nothing when the root cannot be named.
ReadFolders == /\ cleanup = {} /\ RetentionDays > 0 /\ cfg.rooted
               /\ cleanup' = {d \in folders : Old(d)}
               /\ UNCHANGED <<cfg, day, kind, handler, Storage>>

Remove(files) == /\ disk' = disk \ files
                 /\ bytes' = [p \in Paths |-> IF p \in files THEN 0 ELSE bytes[p]]

FilesOf(d) == {p \in disk : p[1] = d}

RemoveFolder == \E d \in cleanup : /\ Remove(FilesOf(d))
                                   /\ folders' = folders \ {d}
                                   /\ cleanup' = cleanup \ {d}
                                   /\ UNCHANGED <<cfg, day, kind, handler>>

\* RemoveAll may have removed some of the files before it fails.
RemoveFails == \E d \in cleanup, files \in SUBSET disk :
  /\ files \subseteq FilesOf(d)
  /\ Remove(files)
  /\ cleanup' = cleanup \ {d}
  /\ UNCHANGED <<cfg, day, kind, handler, folders>>

NextDay == /\ day < MaxDay
           /\ day' = day + 1
           /\ UNCHANGED <<cfg, kind, handler, Storage, cleanup>>
-----------------------------------------------------------------------------
Next == \/ ReadFolders \/ RemoveFolder \/ RemoveFails \/ NextDay
        \/ \E m \in Messages : \/ Receive(m) \/ Merge(m) \/ FetchFails(m) \/ FetchParentMessage(m)
                               \/ GetResource(m) \/ OpenFile(m) \/ WriteFile(m) \/ DownloadFails(m)
                               \/ Taken(m) \/ EnqueueJob(m)

Spec == Init /\ [][Next]_vars
-----------------------------------------------------------------------------
(* Properties *)

Queued == {m \in Messages : handler[m].pc = "queued"}

\* A file whose path an agent is told stays for the whole of its retention, also when a cleanup
\* runs with the downloads: it goes only with a folder that is RetentionDays old, and never where
\* the root cannot be named (file.go:91-105, 199-235, 292).
ToldFileIsKept ==
  \A m \in Queued : \A t \in handler[m].told :
    t[1] \notin disk => cfg.rooted /\ RetentionDays > 0 /\ t[1][1] + RetentionDays <= day

\* It is the attachment the text speaks of, and whole.  Two ways it is not: a later message that
\* quotes the same attachment on the same day is writing the file again, or failed to; the limit
\* is the largest int64, to which 1 is added (file.go:70-77, 96-104).
ToldFileIsItsAttachment ==
  \A m \in Queued : \A t \in handler[m].told :
    t[1] \in disk =>
      \/ bytes[t[1]] = t[2]
      \/ bytes[t[1]] = 0 /\ (cfg.max = MaxInt \/ \E n \in Messages \ {m} : t[1] \in handler[n].opened)

\* The agent gets a bare command exactly when the sender wrote one: never of the message that is
\* quoted, and also when one is quoted (file.go:303-337, manager.go:159-167).
OnlyTheSenderCommands ==
  \A m \in Queued : RunPrompt(m) = "command" <=> kind[m] = "command"
=============================================================================
