# A TLA+ model of dmr-plugin-feishu

`dmr-plugin-feishu` connects Feishu chats to the DMR agent host. Messages come in
over one WebSocket per bot, are filtered and queued, run through the host's agent,
and are answered in the chat they came from; while a run is in progress the host
asks users for approvals through the same chats. This directory models the parts
whose correctness depends on the order of events, checks them with TLC on small
instances and proves the most important properties with TLAPS for all instances.

Paths below are relative to `src/`. `plugin.go`, `manager.go`, `approver.go`,
`receiver.go`, `dedup.go`, `group.go`, `parser.go`, `context.go`, `file.go`,
`config.go` and `message.go` are under `internal/`.

## 1. Inventory

| part | state | operations | hard behaviour | what makes it correct |
|---|---|---|---|---|
| job queue, `queue/manager.go` | `workers` map, a channel and a timer per worker, `closed`, wait group | `Enqueue`, worker loop, `ShutdownAll`, `ProcessJob` | the send follows the unlock; idle exit; close against send; drain | one run per chat, jobs in order and once, nothing left behind except by a known cause, shutdown returns and is quiet |
| approvals, `bot/approver.go` | `Wait` map, a reply channel per wait | `WaitApproval`, `TryResolveP2P` | late and early replies, busy chats, timer against reply, failing prompts | an answer reaches the request its handler found; a wait past its prompt ends; no consumed reply vanishes |
| approval replies, `bot/approver.go` | none | the two parsers, `HandleSingle`, `HandleBatch` | nil indices mean "all" | a reply grants what it names |
| deduplication, `inbound/dedup.go` | ids and times | `IsDuplicate` | redelivery at any time, cleanup by map size | no replay within the TTL, cleanups never stop |
| receiver, `inbound/receiver.go`, `group.go` | none of its own | `HandleMessageReceive` and its two handlers | handlers of several events and bots run at once | one job per message, approval replies never start the agent, a called bot answers |
| routing, `plugin/plugin.go` | `routing`, `bots` | `RegisterChatRoute`, `GetBotForChat`, `findAndRegisterBotForChat` | read, unlock, search, write | routes lead to bots that are in the chat |
| sender, `bot/message.go` | none | four send functions | retries, fallback from post to text, uuids, ambiguous failures | a job's reply is shown once, success means shown, no early end, finitely many requests |
| tape names, `inbound/parser.go`, `group.go`, `tools/send_text.go` | none | build and read names | nested subagents, two parsers | a tape leads back to its chat, conversations never share one |
| life cycle, `plugin/plugin.go` | run context, `bots`, loops | `Init`, `Shutdown`, reconnect loop | `Init` that fails half-way, second `Init`, shutdown with work in flight or during `Init` | no context is out of reach, a loop lives as long as its context, shutdown returns and is quiet, answers are heard |
| host client and `ProcessJob` | RPC client | `SetHostClient`, `RunAgent` | host absent, errors, empty output | every job that ran is answered |
| tools, `internal/tools` | none | `feishuSendText`, `feishuSendFile` | destination from context, tape or arguments; caption before checks | a job's tool call never leaves the job's chat |
| inbound content and retention, `bot/file.go`, `inbound/parser.go`, `context.go` | files and day folders on disk | download, quoting, cleanup | handlers and the cleanup on the same folders, midnight, failing downloads | a file an agent is told is there, whole and the right one; only the sender's own text is a command |
| configuration, prompt files, paths, entry point | parsed values | parsing | none that interleaves | |

How they interact. Every WebSocket event runs in a goroutine of its own
(`plugin.go:157-160` registers the callback; the SDK starts one goroutine per
event), so handlers of one bot and of several bots meet in four shared places: the
routing table (`routingMu`), the one `Deduper` of all bots, the `Wait` map of an
`Approver`, and the queue `Manager`. A worker goroutine per chat calls the host
(`RunAgent`, synchronous), which calls back into the plugin, from goroutines of
the RPC server, for approvals and tools, and it replies through the routing table.
`Shutdown` cancels the run context, closes the queues and waits for the workers.

## 2. Modules

| module | models | state and how it corresponds |
|---|---|---|
| `JobQueue` | `manager.go:43-143` | `workers`, `closed`, `shut` (closed channels) and `buf` (their contents) are the Manager's fields; `ch` is the local variable of `Enqueue` between unlock and send; `wk`, `cur`, `fired` are a worker's program counter, job and timer. A channel is named by the job whose `Enqueue` made it. |
| `SerialQueue` | what the queue promises | per chat a sequence of pending jobs and a running one; `JobQueue` implements it |
| `Approver` | `approver.go:36-59, 167-226` | `wait` is `Approver.Wait`, `chan` the capacity-one channels, `call` and `handler` program counters, `entry` what a handler read under the lock |
| `Approvals` | what the approvals promise | `holder`: the request that waits at each place, `taken`: the request that took each text, `verdict`: how a request ended; `Approver` and `Receiver` implement it |
| `ApprovalChoice` | `approver.go:61-188, 361-423` | one request, the text taken for it, the response |
| `Dedup` | `dedup.go` | `entries` and `stamp` are the map, `now` the clock; `seen`, `last`, `since` are history |
| `Receiver` | `receiver.go:74-247`, `group.go:24-101`, `filter.go`, `plugin.go:203-258, 492-541, 580-623, 656-674` | `handler` is the program counter of each delivery; `routing`, `seen`, `wait` the shared maps; `call` and `callBot` an approval request, `verdict` how it ended; `queue` and `replies` what came out; `taken` (who took a text) is history |
| `Sender` | `message.go` | one call of one send function; `shown` is what Feishu shows |
| `TapeNames` | `parser.go:198-277`, `group.go:87-95`, `plugin.go:318-332`, `send_text.go:167-199` | a tape as the sequence of its parts |
| `Lifecycle` | `plugin.go:35-74, 89-258, 298-316, 484-541, 548-608, 656-679, 713-758`, `manager.go:135-200` | `runCtx`, `cancel`, `bots`, `route` are the Plugin's fields, a context is named by the `Init` that made it and `ctxs` says what has become of it; an instance is an `Init` and a bot; `init`, `shut`, `loop`, `job` and `call` are program counters with the locals they hold (`copy` is what `append` read, `ctx` what `getRunCtx` returned) |
| `InboundContent` | `file.go:29-106, 199-337`, `parser.go:79-128`, `context.go`, `receiver.go:13-40, 121-179`, `manager.go:159-167`, `plugin.go:691-711`, `config.go:98-157` | `handler` is one `HandleMessageReceive` with the attachment it downloads (`item`), the files it has opened and those its text names (`told`); `folders`, `disk`, `bytes` the file system; `cleanup` the folders a cleanup is still to remove |
| `Tools` | `plugin.go:357-479, 501-541`, `send_text.go`, `send_file.go`, `file.go:108-197` | extends `TapeNames`; `ctx` is the call's `ContextJSON`, `routed` the keys of `routing`, `stage`, `jobBot` and `dest` the locals of the two executors, `sent` what Feishu shows of the call |

`MCx.tla` instantiates `x` and states claims of the repository that the code
does not keep; `xProofs.tla` holds the theorems about `x`; those
about `ApprovalChoice` are in `ApproverProofs`. `PROJECT.json` maps each definition to
the lines it stands for.

`Tools` has its own reduced routing table: the calls read and extend it, and it may
become empty between two calls of a run, the case the search in `plugin.go:516` was
written for. A text is one step there, as `Sender` has its requests.

`Receiver` composes the receiver with coarse versions of the other components: its
`seen` is the Deduper within its TTL (`Dedup` proves that abstraction: no id passes
twice within the TTL), its `wait` is the approvers' maps without the prompt, the channels
and the timers (both modules implement `Approvals`: `Approver` for one bot with every step
of a wait, `Receiver` for several bots, routes, searches and redeliveries), its `queue` is the order in which
`Enqueue` is called (`JobQueue` starts there). A handler's step is one access to
shared state; what it computes from its own event is done in the step before.

`Lifecycle` composes the plugin's life with what is under way: a loop per instance,
the worker of `JobQueue` reduced to one chat, the wait of `Approver` reduced to when
it is there, and `botsMu` as the writer that keeps readers out. `InboundContent`
starts and ends where `Receiver` takes no time: between the Deduper and the queue.
A cleanup reads the clock and the folders in one step and removes in others, so
downloads and midnights fall between.

External parts are modelled from how the code uses them: Feishu delivers a message
to every bot in its chat, in the order written, and possibly again; it drops a
request whose uuid it has shown; a request that ends in a Go error may or may not
have been carried out; the host appends `:subagent` to the tape of a subagent and
runs every command of an approval without indices. Two private chats of one user
with two bots have different ids (`docs/issues/multi-instance-support.md:18`).

## 3. Runs

Every passing run explores its whole state space. Mutants, one for each property,
are in the modules beside the definition they change.

| run | question | properties | bounds, and why they are enough |
|---|---|---|---|
| `queue` | `JobQueue` implements `SerialQueue` with fairness; serial chats, exact map, no stranding but by the idle timer; shutdown returns and is quiet; queued jobs settle | `SerialPerChat`, `MapMatchesWorkers`, `OnlyIdleExitStrands`, `QuietAfterShutdown`, `IsSerialQueue`, `ShutdownReturns`, `QueuedIsSettled` | three jobs of one chat and one with an empty id, capacity 2: a worker, its successor and a late sender, a full channel, two workers of one chat for `ShutdownAll`. Chats share nothing but `closed`, and the safety properties are proved for all chats |
| `queue_lost` | violated | `QueuedIsProcessed` | see 5 |
| `approver` | the map is exact, answers are addressed, none is lost; a wait past its prompt ends, and once the context is cancelled every wait; a reply ends it without the clock; `Approver` implements `Approvals` | `WaitMatchesCalls`, `AnswerWasAddressed`, `SwallowedOnlyWhenDecided`, `EveryWaitEnds`, `ReplyEndsWait`, `KeepsApprovals` | three requests, two of one chat and one of another, and three messages of the first, so replies are late, early and superfluous |
| `approval_choice` | a reply grants those of the listed commands that it names, a list nothing else | `GrantsWhatIsNamed` | every kind of text and word, lists with valid, repeated, zero and too large numbers, batches of 1 to 10, on both sides of the prompt's 8 |
| `dedup` | no replay in the TTL, cleanups never stop | `CleanupIsRegular`, `NoReplayWithinTTL` | four ids, cleanup every third insertion instead of every hundredth, three TTLs: the map passes a multiple, shrinks, and passes it again |
| `receiver` | routes and replies stay in their chats, a private text never passes a waiting approval; `Receiver` implements `Approvals` | `RoutesLeadIntoChats`, `ReplyMeetsItsWait`, `KeepsApprovals` | two bots in a group, one private chat, two requests for it and one for the group, racing three messages, one of each path |
| `receiver_redelivery` | one job per message; a call of a group's only bot becomes a job | `OneJobPerMessage`, `CalledIsQueued` | a group of two bots and one of one bot, each event twice to each bot |
| `receiver_approver` | violated | `ApproverIsHeard` | see 5 |
| `sender` | a job's reply is shown once, success means shown, no early end, every answer leaves fewer requests | `JobReplyShownOnce`, `SuccessIsShown`, `ErrorsAreFinal`, `RequestsRunOut` | all six calls, every answer to every request, the code's three attempts |
| `tools` | a job's call stays in its chat, a call that names its own tape reaches that conversation, success means that the text or file is shown (a caption may be missing), an approval reads the job's chat and kind from its tape; and, as deadlock is an error here, no call gets stuck | `ApprovalReadsItsChat`, `JobToolsStayInChat`, `OwnTapeIsReached`, `OkMeansShown` | two chats, so that a call can go astray, private, group and thread conversations, a thread named `subagent`, subagents three deep, every combination of arguments, a table lost between calls |
| `lifecycle` | a context that lives is the one `Plugin.cancel` cancels; after `Shutdown` nothing is shown with a context that was cancelled; an answer is missed only across two `Init`s; loops reconnect until cancelled, and end then; `Shutdown` returns unless an `Init` makes a context after it cancelled | `LiveContextIsHeld`, `SilentAfterShutdown`, `OnlyInitStrandsWaits`, `LiveLoopReconnects`, `CancelledLoopsEnd`, `ShutdownReturns` | two `Init`s, so that one replaces the other, fails, or overlaps with `Shutdown`; one bot, as bots share only the list (several are in the proofs); one text and one request, of the text's job or of none |
| `inbound` | what an agent is told is on disk, whole and the right attachment; a bare command is the sender's | `TypeOK`, `ToldFileIsKept`, `ToldFileIsItsAttachment`, `OnlyTheSenderCommands` | two messages of every kind, the second may quote the first: both download the same file; three days with a retention of one, so a folder becomes old under a download; an ordinary limit and the largest |

Bounds: `Cap`, `Every` and `Sizes` are parameters of the code given small values;
`Horizon` and `MaxDay` stop the clocks, `MaxInits` the calls of `Init`, `MaxMessages` the texts, `MaxDeliveries` the redeliveries and `MaxDepth` the
subagents. Jobs, requests and messages are finite sets, used once each. `dedup`
uses symmetry for its ids. Deadlock
checking is off where the system may come to rest (all inputs used).

Fairness. Goroutines that can run do run (weak fairness of each worker, handler and
call). A request to Feishu is another matter: `client.go:28` builds the client without
a time-out and the run context has no deadline, so prompts, replies and the answer to
`,id` may hang until their context is cancelled. Downloads (`file.go:54`), the look at
a quoted message (`context.go:69`) and `ChatExists` (`client.go:131`) have time-outs.

* `JobQueue`: that a job ends is assumed, that is, the host answers `RunAgent` and the
  request of the reply returns. Timers and `ShutdownAll` are not assumed to happen.
* `Approver`: a prompt is sure to return only once the context is cancelled. That the
  timer fires is assumed (`ClockFairness`, the hypothesis of `EveryWaitEnds`) only
  where a wait without reply has to end; `ReplyEndsWait` holds without it.
* `Receiver`: handlers are fair but for the answer to `,id`; approval requests and
  replies to jobs are not.
* `Sender`: no fairness; it is bounded, and nobody promises that it ends.
* `Lifecycle`: the steps of a handler, a worker, an approval, a loop that waits and
  `Shutdown` are fair, prompts and replies only with a cancelled context; `Init`, new
  texts and new requests are not. Three assumptions are behind it: the SDK's `ws.Start`
  and the requests return when their context is cancelled (an open connection may
  otherwise last for ever), the host answers `RunAgent` once the requests of that run
  have ended, and a wait past its prompt ends by its timer (`EveryWaitEnds`).

## 4. Proofs

All theorems are for every value of the constants that satisfies the named ASSUME
of the module; TLC evaluates the assumption in each run.

* **JobQueueProofs.** `QueueInvariant` proves the inductive invariant: types, the
  agreement of `workers` with the goroutines that are still to run the deferred
  delete (both directions), that a channel exists exactly for a job that started a
  worker, that a job in a channel belongs to the channel's chat, is queued and is
  in it once, and that what is running is some worker's `cur`. The agreement is the
  heart: a worker is registered only when there is no entry, and an entry is
  removed only by its owner, so at most one goroutine per chat is before its
  delete. From it follow `QueueIsSerial`, `QueueMapIsExact`,
  `QueueStrandsOnlyWhenIdle`, `QueueShutsDown`, and, with the same invariant at both
  ends of a step, `QueueRefinesSerialQueue`: each action maps to an action of
  `SerialQueue` or a stutter under the mapping at the end of `JobQueue` (a registered worker's
  channel is the chat's pending sequence; the idle exit abandons a whole queue).
* **ApproverProofs.** The invariant adds to `WaitMatchesCalls` that whatever is in
  a channel was put there by a handler that read this request from the map.
  `AnswersAreAddressed`, `WaitMapIsExact` and `RepliesAreNotLost` follow.
  `ApproverKeepsApprovals` is the refinement of `Approvals`: registering opens, the
  deferred delete closes with the answer the call has, looking the map up takes or
  passes a text, and the rest stutters. That a text is taken once needs that a handler
  which has not looked has no entry (`UnreadIsUntaken`); that a request ends with a text
  it took is `AnswerWasAddressed`. `RepliesGrantWhatTheyName`, about `ApprovalChoice`, is
  for every batch size and set of lists, from lemmas about the two parsers: of the
  commands the prompt lists exactly the named ones are granted, of the others none that
  a list does not name. What `y`, `s` or `a` does to the others is left open: the
  prompt says both "listed items only" and "all".
* **DedupProofs.** `CleanupsAreRegular` needs the relation of `since` to the map's
  size: the size modulo `Every` never falls behind the insertions since the last
  cleanup, because only a cleanup shrinks the map. `NoEarlyReplay` needs that the
  stamp of a remembered id is the time it last passed.
* **ReceiverProofs.** The invariant ties each queued job to the one delivery that
  passed the Deduper, each route to a bot of its chat (a fortiori the route a
  handler reads after it registered one), and each waiting request to a bot of its
  chat and the right key. In a private chat there is one bot, so the table's
  answer is the bot at which a request waits: `WaitsAreAnswered`. Further
  `MessagesAreQueuedOnce`, `RoutesAreSound` and `ReceiverTypes`.
  `ReceiverKeepsApprovals` is the refinement of `Approvals` and needs three more parts:
  an entry belongs to a request that waits and a request that waits has its entry
  (`WaitsMatchCalls`, `CallsMatchWaits`), although the code deletes an entry without
  looking whose it is; and a text was offered to the approvals only by the delivery that
  passed the Deduper, which is past it (`OffersArePast`), so no redelivery is taken again.
* **SenderProofs.** The invariant counts the requests of a send by its uuids
  (`UuidsCount`) and has one message of a uuid, in the format of its request
  (`OneOfAUuid`). `JobRepliesAreShownOnce`, `SuccessesAreShown` and `NoSendGivesUpEarly`
  follow for any number of attempts. `SendsAreBounded` is about a
  measure: the requests a send has left are at most twice the attempts, and every
  answer leaves fewer.
* **LifecycleProofs.** `ContextsAreHeld`: each `Init` cancels, under `runMu`, the
  context before its own, so at most one lives and `cancel` holds it. For
  `ShutdownSilences` the invariant adds that whoever is about to send has the context
  of an `Init` that made one (`SendersHaveContexts`), not nil, because nothing is
  under way before there is one; with `cancel` nil none lives, so all are cancelled.
  `WaitsAreStrandedByInit` needs that table and requests lead to instances of the one
  bot of the chat (`AtHome`): two instances of the same `Init` are then the same.
* **InboundContentProofs.** A handler tells its own attachment before it looks at the
  quoted one, so it never empties a file it told (`InPlace`); a file then holds its
  attachment or nothing, and is whole unless another handler opened it
  (`FilesAreWhole`). A cleanup holds only folders that were old, and old they stay
  (`WhatIsGoneIsOld`), although downloads go on beside it. The theorems are
  `ToldFilesAreKept`, `ToldFilesAreTheirAttachments`, `CommandsAreTheSenders`.
* **ToolsProofs.** `TapesLeadBack`: a tape is the job's name followed by `subagent`s;
  stripping them leaves the chat id; both parsers return it, whoever is asked then (a
  group's approval goes to the approver in private). `JobToolsStay`,
  `OwnTapesAreReached` and `OkCallsHaveShown` follow from an invariant that says, for
  each stage of a call, what its destination is and what has been shown. `ToolsTypes`
  needs that a tape name a model may write leads to a chat or to none
  (`TapeArgsLeadToChats`), and that a destination has a bot once it is chosen.

Type correctness is proved for every module with state (`QueueTypes`, `ApproverTypes`,
`ReceiverTypes`, `ToolsTypes`, `LifecycleTypes`, `InboundTypes`, and as parts of the
invariants of the others) and left out of the runs, but for `InboundContent`, whose run
checks it as well.

Only model-checked: everything about liveness (both `ShutdownReturns`, `QueuedIsSettled`,
the fairness half of `IsSerialQueue`, `EveryWaitEnds`, `ReplyEndsWait`,
`CalledIsQueued`, `LiveLoopReconnects`, `CancelledLoopsEnd`), which
with ENABLED is beyond the prover. Every invariant and every action property of the
passing runs has a theorem, and so have both safety refinements of `Approvals` and the
safety part of that of `SerialQueue`.

## 5. Where the code and its documents disagree

Two are runs that TLC ends with a counterexample to the quoted claim.

| run | claim | what the code does |
|---|---|---|
| `queue_lost` | `manager.go:60`: adds a job to the queue | a job sent to a worker between its idle timer and its delete is lost silently |
| `receiver_approver` | README.md, `receiver.go:145`: the approver's reply is an approval | the wait is under the open id, the reply is looked up under the chat id |

The others are read off one or two lines, which the models keep as they are; no run
is spent on them.

| where | claim | what the code does |
|---|---|---|
| `manager.go:72` | README.md:161: one global queue, one worker | one worker per chat id |
| `manager.go:72` | `group.go:98`: each thread gets its own queue | `Enqueue` keys by `ChatID` and ignores `QueueKey` |
| `approver.go:220` | `approver.go:196`: returns when the context ends | it has no context; `Shutdown` waits for the timer |
| `approver.go:418` | the prompt (394): the reply applies to listed items only; but (404-408): `y`, `s`, `a` are for all | a word of approval applies to the whole batch, and a list may name commands that are not shown (`GrantsWhatIsNamed` leaves both open) |
| `group.go:41` | `group.go:27`: @all counts when the bot is not mentioned | the last mention decides |
| `receiver.go:245` | docs/issues/multi-instance-support.md:28: serial per chat keeps the order | handlers enqueue after downloads, in any order |
| `send_text.go:103` | `send_text.go:107`: a job's call may not name a chat | it may when no bot is found for the job's chat; the call then leaves the chat (the exception in `JobToolsStayInChat`) |
| `plugin.go:327` | README.md:176: an approval for a tape other than `feishu:p2p:` is denied without a prompt | group tapes are resolved, and the approver is asked |
| `path.go:46` | README.md:147: files lie under `send_file_root` or the CWD | under the workspace, when it is set, before the CWD |
| `message.go:32` | `message.go:21`: connection errors are retried | the lowered text never contains `EOF` |
| `approver.go:169` | docs/implementation.md:156-157: a reply is matched by the token of its request | by chat: a text written before the prompt was shown, or for a request that has ended, answers the one that waits |
| `receiver.go:98`, `plugin.go:112` | README.md:114: a bot with `group_enabled` receives @mentions | all bots share one Deduper, marked before the mention is looked for: in a group of two bots the one that is not mentioned may take the message away |
| `receiver.go:157` | README.md:103: `RunAgent`'s text includes `local_path` | a file that quotes nothing is saved and starts no run |
| `file.go:215-225` | README.md:106: folders older than this many days are removed | the folder of exactly that many days ago too, as its midnight lies before the hour of the cleanup |
| `file.go:308, 316, 337` | README.md:107-109: `inbound_reply_context_*` | the three options are parsed and never used; `inbound_media_enabled`, its time-out and 8000 are |
| none | README.md:112-113: `dmr_restart_trigger`, `dmr_restart_token` | no code reads them |

What the life cycle and the downloads do that their readers may not expect, none of
which a document denies:

* An `Init` that makes its context after `Shutdown` cancelled leaves a live plugin
  that nobody can end: `shutdown` is a `sync.Once` (184-199). `SilentAfterShutdown`
  excepts it.
* An `Init` that fails before line 114 replaces `cfg` (and, later, the prompt and the
  Deduper) under the loops of the one before; one that fails at a bot leaves the
  earlier bots running.
* A second `Init` keeps routes and instances of the first. A request that waits at
  an old instance is not answered by a text that comes by a new one, and a job that
  was running keeps the cancelled context, so its reply is not sent.
* The back-off of a loop is never reset, not even by a connection that lasted (747).
* The timer of an approval starts when its prompt has been sent (`approver.go:214, 218`),
  and the prompt's request has no time-out: one that hangs blocks its job, and further
  approvals of the chat, until `Shutdown` cancels the context.
* A caption whose request fails is left out without a word (`send_file.go:73`).
* With a refused `inbound_media_dir` files go under the working directory, where no
  cleanup comes (`file.go:292`).

## 6. Not modelled, and the plan

Left out for good: wording and layout of prompts and contents, the parsing of sizes
and of options without influence on control, prompt files, the HTTP calls of
`bot/client.go` beyond their answers, data races (`p.cfg`, `p.dedup` and the prompt
are written by `Init` without a lock while handlers of an earlier `Init` may read
them; the unlocked `append` to `p.bots` is in `Lifecycle`, as a read and a write).
Handlers run in parallel and enqueue after downloads of different length, so two
messages of a conversation are queued in either order; the code orders nothing, and
no property asks for it.

To come, in this order (the project keeps to a dozen runs, each asking for all of a
component, so a new run takes the place of a violated claim or of a smaller run):

1. `FeishuPlugin`: `Receiver` with the real `JobQueue` in place of `queue`, to carry
   one-job-per-message through to one reply per message.
2. The four replies of `ProcessJob` (an error of the call, no response, an error of
   the agent, an output or its fallback) with `Sender` behind them.
3. A Deduper that a second `Init` replaces, in `Lifecycle`.

Theorems to come go with these modules: that a message of a job is answered at most once
from the event to Feishu, from `OneJobPerMessage`, `IsSerialQueue` and `JobReplyShownOnce`.
