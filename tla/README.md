# Weibo AI Bridge: specifications

TLA+ models of weibo-ai-bridge, the program that carries messages between a
chat platform (Weibo, or a local message hub) and AI agents run as child
processes (Claude Code, Codex, Gemini, Hermes). The models are translated from
the Go code; the comments of each definition name the function it stands for.

## The system

| Part (files) | State | Operations | Hard behaviour | Correct means |
|---|---|---|---|---|
| Message processor (`cmd/server/main.go`) | `inFlightUsers`, `queuedMessages`, `activeRuns`, `lastQueueNotice`, `busySlashInFlight` | dispatch, enqueue, the worker loop `handle`, `/btw` and slash commands of a busy user, shutdown | a goroutine per busy user and per busy slash command, checks used after the unlock, panics, a bounded queue that drops | one worker per user, no message lost silently or handled twice, order per user, everything drains |
| Session manager (`session/session.go`) | `sessions`, `activeByUser`, one file per session, `metadata.json` | create, activate, adopt (rename or merge), update, delete, expire, load | updates in two critical sections, several writes per operation, kills between them | map, active sessions and files agree; what was saved survives; what was removed stays removed |
| Interactive sessions (`router/router_interactive.go`, `router_session_binding.go`) | `liveSessions`: process, allow-all, pending approval and questions | turns, drain, retry on a fresh native session, rekey, remove, close | creation outside the lock, restarts, late events of an old turn, `/dir` and shutdown in mid-turn | one live process per session, none leaked, each turn answered by its own events, allow-all kept |
| By-the-way (`router_bytheway.go`) | none of its own | inject into a running turn | check, then send | the input reaches the turn or the user is told |
| Agent turns, super review (`router_agent.go`, `super_mode.go`) | `superReviews`, feedback and ready flags in the session's context | begin, replace, end a review, store, inject and clear feedback | a review in the background races the next turn, the next review and `/super off` | feedback of the newest review only, injected once, none after `/super off` |
| Stream sender (`stream_sender.go`) | delta buffer, text sent | flush, split, final chunk | failed sends, limits in characters | the text arrives complete, once, with one final chunk |
| Command handler (`command.go`), listen (`listen.go`) | listen runs per user | slash commands, following a transcript | two commands at once | one listener per user, `/listen off` stops it |
| Weibo platform (`platform/weibo`) | connection, token, duplicate table, channel of 100 | start, read, reconnect with back-off, stop, reply chunks | stop during a reconnect, redelivery, full channel, authentication failures | a delivered message is handled once, nothing stays open after stop |
| Local platform (`platform/local`) | connection, pending requests, approval callbacks, cancel hooks | supervisor, request and acknowledgement, reply stream, approval | acknowledgement against time-out and disconnect | each request ends once; each approval is answered at most once |
| Codex, Claude, Hermes, Gemini (`agent`) | child process, pending responses, one pending approval | start, send, respond, close, read loop; a turn on a process of its own | process exit under a waiting request, a second approval request | every request ends, every approval is answered or refused |
| Configuration, agent registry, native session catalogue, self update, test report, scripts, skills | start-up data, or none | reading files, running scripts | little | not modelled: pure input and output |

How they interact: the platform's read loop puts messages into a channel; the
message processor takes them and calls the router from a worker goroutine (or
from its own goroutine for `/btw`); the router finds the session in the session
manager, obtains a live agent process, copies its events to the stream sender,
which calls the platform back. Slash commands and the HTTP endpoints enter the
router beside the workers. All of it shares the session manager and the table
of live sessions.

`PROJECT.json` lists each component with its status, and under `hazards` the
places where this goes wrong in ways that tests hardly reach.

## Modules

| Module | What it is |
|---|---|
| `Dispatcher` | the message processor: its dispatching goroutine, the workers and the busy slash goroutines |
| `UserQueue` | what the processor promises, without goroutines: per user one server and a bounded line |
| `MCDispatcher` | instances of `Dispatcher` |
| `DispatcherProofs` | the inductive invariant of `Dispatcher`, and the proofs built on it: workers, queues, runs, order, no message lost, `UserQueue` implemented |
| `SessionStore` | the session manager with its files and restarts |
| `MCSessionStore` | instances of `SessionStore` |
| `SessionStoreProofs` | three inductive invariants of `SessionStore`, and the proofs of all the run `session_store` checks |
| `SuperReview` | super mode of one session: its turns, the reviews they start, and the feedback between them |
| `MCSuperReview` | instances of `SuperReview` |
| `SuperReviewProofs` | the inductive invariant of `SuperReview` and the proofs of its safety properties |
| `LiveSessions` | the registry of a user's agent processes: who starts, registers, renames, removes and closes one |
| `InteractiveTurn` | the turns of one session on its process: quiesce, send, drain, ask, retry, and `/btw` beside them |
| `UserTurns` | `LiveSessions` and `InteractiveTurn` joined, and what they promise |
| `UserTurnsProofs` | the inductive invariants of the two, and the proofs of everything `UserTurns` promises |
| `StreamSender` | a reply on its way: the router's loop, the buffering sender, the chunks of the platform |
| `Listen`, `LogFollower` | the table of listeners, and a listener with the log it follows |
| `Output` | `StreamSender`, `Listen` and `LogFollower` joined, and what they promise |
| `OutputProofs` | the inductive invariants of the three, and the proofs of all the safety `Output` promises |
| `WeiboConnection` | the connection to Weibo: reading, reconnecting, the duplicate check, Stop |
| `LocalHub` | the connection to the local hub: requests and acks, reply streams, inbound messages, Stop |
| `Platforms` | `WeiboConnection` and `LocalHub` joined, and what they promise |
| `PlatformsProofs` | the inductive invariants of the two, and the proofs of all the safety `Platforms` promises |
| `CodexSession`, `ClaudeSession`, `HermesSession` | the live session of one agent, its process external |
| `CliTurn`, `CodexTurn` | a turn on a process of its own: through a CLI, or on a codex app server |
| `Agents` | the three live sessions and the two kinds of turns joined, and what they promise |
| `AgentsProofs` | the inductive invariants of the five, and the proofs of all the safety `Agents` promises |
| `SequenceFacts` | lemmas about sequences for `OutputProofs` and `AgentsProofs` |
| `MCTurns` | instances of `UserTurns` |
| `MCAgents` | instances of `Agents` |
| `MCPlatforms` | instances of `Platforms` |
| `MCOutput` | `Output`, and once more `InteractiveTurn`, for TLC |

How they meet. `Dispatcher` calls `HandleMessage` and `InjectByTheWay` and leaves
open what they do; `InteractiveTurn` is what they do for a session that is
there, under the order of turns `Dispatcher` guarantees. `LiveSessions` takes the
look-up of the process apart, with the turns that `/chat` starts beside the
worker. The channel of events an `InteractiveTurn` reads is the one a
`CodexSession`, `ClaudeSession` or `HermesSession` fills, and `CliTurn` and `CodexTurn`
are what fills it when the agent has no live session. What a turn emits is what
`StreamSender` forwards; its writes are the frames of `WeiboConnection` and the
reply streams of `LocalHub`, whose channel of messages is the one `Dispatcher`
reads. Each model leaves its neighbours as open as the code between them does:
the agent may say anything at any time, the write may fail, the message may
come again.

The modules `UserTurns`, `Output`, `Platforms` and `Agents` join models that
share no state: their variable `part` picks the one that runs, and the variables
of the others stand still. One run then asks one question of all of them. (`MCOutput`
adds the turns to `Output` in the same way, with `turning`.) The
bounds of `LiveSessions` and `InteractiveTurn` (how many turns, restarts,
cancellations, what kinds of messages), and those of `WeiboConnection` and `LocalHub`
(how much the server and the hub send, what breaks, whether a timer goes off), are a
load, chosen at the beginning among `RegistryLoads`, `SessionLoads`, `WeiboLoads` and
`HubLoads`; in the platforms `left` is what is left of it. So a run covers several
loads, and a theorem holds for every set of them. In TLC's statistics for a run
(`-coverage`) every action of every part has been taken.

### Dispatcher

A step is what the code does under one hold of the lock `mu`. `disp` is the
program counter of `processMessages`/`dispatch` with the message it holds;
`worker[w]` is the goroutine started by `go p.handle` for message `w`, with the
message it works on and its run id; `slashRuns` are the goroutines of
`tryHandleBusySlashCommand`. The maps of the code have their names:
`inFlight`, `queue`, `activeRun`, `nextRun`, `slashBusy`, and `noticed` for the
users whose `lastQueueNotice` is within the cooldown. `fate`, `lastBegun` and
`told` are history: what became of a message, what a worker began last, and who
was told that his message is queued. `up` becomes false when a goroutine
without `recover` panics.

What `dispatch` tells apart in a message is its user and one of four kinds:
text, `/upgrade` (which a busy user's queue takes like text), `/btw` and other
slash commands. `HandleMessage` and `InjectByTheWay` are left open: they return,
return "not mine", or panic. The handling context that `beginRun` creates is
not modelled beyond the run's entry; nobody but `clearUser` and `endRun` uses
it.

| Action | Code |
|---|---|
| `Receive`, `StopDispatching` | the `select` of `processMessages` |
| `CheckByTheWay`, `Injected`, `NotInjected` | `tryInjectByTheWay` before and after the unlock |
| `CheckBusySlash`, `DropSlash`, `StartSlash` | `tryHandleBusySlashCommand`, its two locks |
| `StartWorker`, `Enqueue`, `QueueNotice` | `enqueue`, `go handle`, `sendQueueNotice` |
| `SlashReturns`, `SlashPanics` | the goroutine of a busy slash command |
| `CheckContext` ... `QueueEmpty`, `Recover` | the loop of `handle`, `beginRun`, `endRun`, `nextQueued`, `clearUser` and the deferred `recover` |
| `Arrive`, `Cancel`, `CooldownEnds` | the platform, the signal, the clock |

`UserQueue` is the abstract specification: `Dispatcher` is shown to implement it
with `open <- inFlight`, `line <- queue` and `serving` the message the user's
worker holds.

### SessionStore

Sessions are objects, because the code passes pointers: `obj[o]` is a session's
id, owner and contents, `sessions[id]` the object in the map. An updater that
found its object before a merge or a deletion goes on with it, and saves it
under whatever id it carries then. The contents of a session are the set of
updates made to it (context keys, title, agent type and state are not told
apart).

An operation changes map and objects in one step and leaves its file writes in
`todo`; `Perform` carries them out one at a time. The lock is held while `todo`
is not empty, so other operations wait, but `Session.Update`, which takes only
the session's own lock, does not, and `CrashAndRestart` can come between any
two writes. A single write is whole or not at all (`writeFileAtomically` writes
a temporary file and renames it). A restart loads every file, takes the
metadata entries that are valid, and gives users without one any of their
sessions (`restoreMissingActiveSessions` walks a map in no fixed order).

Expiry is a choice: any set of sessions may have timed out, except one an
updater has just touched. `Housekeeping` says whether anybody calls `Delete`
and `CleanExpired`: in the repository only tests do, while expiry inside
`createLocked` and `AdoptSessionID` happen in production.

Three history variables keep the properties exact. `persisted` are the updates a
save has put on disk for a session that is still there; `clobbered` are the ids
whose file was last written by an object that is no longer the session of that
id, which is the defect of `session_gone` below and is excluded from
`MemoryOnDisk`. `guessed` says that a restart has chosen an active session which no
metadata names.

Anybody may ask for any id: the client of `/chat/stream` names user and session
(`main.go:775`), and `GetOrCreateSession` creates what is not there. So one user's next
numbered id ("B-1") may be another's session when B's `createLocked` comes to it
(`CreateNext`). It is then overwritten in the map and its file, while it stays the
first user's active session; `getActiveSessionInternal` does not look at the owner,
and what that user says next goes into B's session. `SessionsConsistent` makes that
exception (`AnothersNumber`) and no other.

Not in the model: importing a legacy storage directory, failing writes (the
code ignores the error), and which value wins when both sessions of a merge
have a key.

### SuperReview

One session in super mode. A turn that ends without an error and with some
output starts a goroutine (`launchSuperPeerReview`) in which the opposite agent
reviews the answer. The review's text is stored in the session for the agent
that gave the answer, and injected into that agent's next turn, which clears it
when it has ended well. The session's context is `superMode`, `feedback` and
`ready`; the router's table is `current` with `nextReview`; `cancelled` are the
reviews whose context is cancelled. `turn[t]` and `review[r]` are the
goroutines with their program counters.

Turns overlap: the message processor serialises a user's messages, but `/chat`
and `/chat/stream` start turns beside it. A turn of the active session works on
a copy of the session (`GetActiveSession` detaches it), so that mode, text and
flag are one snapshot (`StartOnCopy`). A turn that names its session gets the
session itself (`GetOrCreateSession`) and reads it key by key (`StartOnSession`,
`ReadText`, `ReadReady`).

| Action | Code |
|---|---|
| `SuperOn`, `SuperOff` | `setSuperMode`, one atomic update; off clears all feedback |
| `StartOnCopy` ... `TurnSucceeds` | `streamAIMessage` up to the end of the agent's events |
| `Match`, `ClearText`, `ClearReady` | `clearSuperFeedbackForAgentIfMatch`: a comparison on a snapshot and two updates |
| `Launch` | `launchSuperPeerReview` and `beginSuperPeerReview` |
| `StartReview`, `ReviewFails`, `ReviewAnswers` | `runSuperPeerReview` up to the peer's answer |
| `CheckMode`, `CheckCurrent`, `StoreFeedback`, `EndReview` | the two checks before storing, `setSuperFeedbackForAgent`, `endSuperPeerReview` |
| `Close`, `CancelRoot` | `Router.Close`: the reviews under their lock, then the root context |

That a review is cancelled only permits it to fail. It does not force it: the
agent may answer first, and a stream that is closed early ends like a complete
one.

`source` and `spent` are history: which review stored an agent's feedback last,
and whose feedback has served a turn that is over. `off` in a review records
that `/super off` came while it was at work. Feedback is compared by its text,
in the code and in the model, so two reviews that say the same are confused;
`Texts` has two values and the empty one.

Not in the model: the peer's native session id, which a review writes to the
session; notices and approvals of the peer (both only make the review fail, as
far as the state here goes); agents without an opposite; a session that gets
another id in the middle of a turn (`LiveSessions` has that); a
restart, which loses the table and keeps what the session has.

### LiveSessions

`live` is `liveSessions`: session id to process. `obj` are the sessions with their
ids and native ids, `store` the session manager's map of them; a turn holds the
session it resolved, the object itself or a copy (`GetActiveSession` detaches it),
so that its id may change under the turn, or not. `process[p]` says whether a
process runs and who has closed it.

| Action | Code |
|---|---|
| `Begin`, `BeginFirst` | `resolveAgentExecution`, with an existing or a new session |
| `Lookup`, `Start`, `StartFails`, `Register` | `getOrCreateInteractiveSession`: two holds of `liveMu` and the start between them |
| `SessionEvent`, `Update`, `Adopt`, `Rekey` | `bindAgentNativeSessionID`, its three steps |
| `TurnEnds`, `TurnFails`, `Restart`, `RetryFresh` | the ends of `drainInteractiveSession` and the restarts, as far as they touch the registry |
| `New`, `Switch`, `DirSet` | `/new`, `/switch`, and the removal after `/dir` |
| `Close`, `CloseTaken` | `Router.Close`: the table is taken under the lock, the processes are closed after it |
| `Exit` | external: the process ends by itself |

The pending id stands for every id the bridge has given: `shouldAdoptNativeSessionID`
lets the user's numbered ids go for the native one as it does the pending id
(`HasPrefix` returns true, `router_session_binding.go:38`), and keeps all others.

`toRouterMessage` puts the id of the active session into a message, and the router
starts agents with `context.WithoutCancel` (`router_interactive.go:151`): only a
`Close` ends a process.

### InteractiveTurn

`reg` is the registered process, `proc[p]` its channel of events and the fields of
`liveInteractiveSession` (allow-all, awaiting, prompted request, questions), `turn`
the turn under way with its program counter. Look-up, start and registration are
one step (`LiveSessions` takes them apart).

| Action | Code |
|---|---|
| `Receive` | the next message: `Dispatcher` starts a turn when the one before is over |
| `Lookup` ... `LookupFails` | `streamInteractiveAIMessage` up to the process |
| `AnswerQuestion`, `Hint`, `Approve`, `ApproveStale`, `ApproveFails` | a message that answers a question or a request: `respondInteractiveApproval` |
| `Quiet`, `Discard`, `Send`, `SendRestarts`, `SendFails` | `waitInteractiveEventsQuiesced`, `sendAndDrainInteractiveTurn` |
| `TakeText` ... `TakeRefused`, `ChannelClosed`, `NoSignal` | the cases of `drainInteractiveSession` |
| `Restart`, `RestartFails` | the retry on a fresh native session |
| `TailEvent`, `TailError`, `TailEnds` | `drainInteractiveTailAfterDone` |
| `ByTheWay`, `InjectLooksUp`, `InjectSends` | `/btw` as a turn, and beside one |
| `TakeInput` ... `Exit` | external: the agent takes an input, says, asks, finishes, fails, ends |

### StreamSender

Text is a sequence of numbered pieces. `fwd` is the loop of
`forwardStreamToPlatform`, `sender` the `streamSender` with its buffer, `text` what
simple mode gathers, `wire` what the platform has taken, with its chunk numbers.
`TakeDelta`, `TakeRequest`, `TakeMessage`, `TakeDone`, `TakeClosed`, `TakeTick` and
`TakeCancel` are the cases of the loop in stream mode, `SimpleDelta` ...
`SimpleClosed` those of simple mode; each carries out the writes it owes, one of
which may fail. Where a text may be cut is left open. `Settled` is `Settle` under
`context.WithoutCancel`.

### Listen and LogFollower

`Listen` has the table of listeners (`entry`, the ids) and two commands of a user
that may run at once: `StopListen`, `Register`, `Unlisten` and the deferred
`Deregister` are the code's separate holds of `listenMu`, `CloseListeners` and
`CloseRoot` those of `Router.Close`. In `LogFollower` a file is a sequence of half
lines. `Start`, `Read`, `AtEnd`, `Check`, `Reopen` are the steps of
`followJSONLSessionFile`; the look at the log's name (`Check`, `listen.go:170`) and the
opening (`Reopen`, `:188`) are two, and the log may be replaced between any two of
them, as often as `Files` allows. `mistaken` is history: a file was opened under the
info of the one before it. `Poll` and `PollFails` are those of the document of hermes.
The owner of the log writes a line in one piece or two (`WriteHalf`, cut in the text,
or before the end of the line only), moves the file away, renames one over it, or
truncates it. Of what is read, a line counts only if its second half follows its
first and nothing unfinished stands before it (`LineAt`, `LinesOf`); at the end of the
file (`AtEnd`) a line that lacks nothing but its end is shown as well
(`listen.go:143`), and any other beginning is forgotten. Lines written to a file
between the last read at its end and its replacement are lost; `Check` has no chance to
see them. A torn first read of the document makes everything be sent again.

### WeiboConnection

`loop` is the goroutine of `messageLoop`, `closer` the one that closes the connection
when the context ends, `stop` the caller of `Stop`. `Connect`, `Dial`, `Backoff` and
`RefreshFails` are the parts of `reconnect` and `connect`, taken apart where another
goroutine can come between; `ReadFrame` is a frame through the duplicate check
(`Seen`) into the channel, or dropped when that is full. Time exists for the
duplicate check only. `put` is history: what got into the channel, and when.

### LocalHub

One conversation. `sup` is the supervisor with its read loop, `sock[c]` the two
directions of a connection, `pending` and `answer` the requests waiting for an ack,
`reply[s]` a reply stream, `dispatcher` who takes the messages. `ReadAck`,
`ReadMessage` and `Put` are `readLoop`, `FailAll` what it does when the connection
ends, `Start`, `Answered`, `GivesUp`, `Delta`, `Finish` a reply stream, `StopCloses` and
`StopReturns` are `Stop`. `hub[s]` is what the hub has been told of a reply. A connection
that breaks takes what is on its way with it, in both directions. The approval table
and the cancel hooks are left out: nothing in the program registers or uses them.

### The agents

`CodexSession`: two callers (a turn and an injection) write requests and wait for
responses; `Read`, `Deliver`, `Notify` and `Emit` are `readLoop`; `Fallback` is the second
transport; `Respond` the decision on the pending approval; `Close`, `CloseEnds`. `Leave` is
a turn that is left while the app server is at work: cancelled, or silent for twelve
seconds after a done that was not its own.
`ClaudeSession`: writers under `stdinMu` (`Lock`, `Write`), `Scan`, `ScanEnds`, `ScanFails` (a line
of over 10 MiB), `Emit`, `Wait` are `readLoop`; `Begin`, `StoreDead`, `CloseInput`, `Terminate`,
`Kill`, `Return` the stages of `Close`, which loads `alive` and stores it in two steps, so that
two may go on.
`HermesSession`: the start and the drain of what a resumed session replays
(`DrainEnds`, `Suppressed`), prompts and their responses (`Send` looks for an active prompt,
`Track` adds its own, under separate locks, for two senders), `Read`, `Emit`, `ReaderEnds`,
and `Close` with the goroutines it waits for. A start that fails models the first
steps of the `Close` it calls.

`CliTurn` is `ExecuteStream` of Claude, gemini and hermes, and `executeViaJSONCLI` of
codex: one goroutine reads the CLI's output (`Read`, `ReadEnds`), passes its events
on (`Emit`, or `EmitCancelled` when `emitOrCancel` gives up), waits for the process
(`Wait`, `Reap`) and reports (`Report`) what each agent reports of a process that
failed. `CodexTurn` is `executeViaAppServer`: three requests (`TakeResponse`,
`WaitFails`), what arrives meanwhile set aside (`SetAside`), the events of the turn
(`TakePending`, `TakeMessage`, `TakeError`, `StreamEnds`, `Emit`), the reading goroutine
(`Read`, `Put`, `ReadFails`, `CloseMessages`) and the next transport (`Fallback`).

In all of them the process is external. It answers or does not, writes when it
likes, ends when it likes, and may leave a process behind that keeps its pipes
open; a bound says which of these it may do.

## Runs

| Run | Instance | Properties |
|---|---|---|
| `dispatcher` | 2 interchangeable users, 4 messages of kinds text, `/btw`, slash; queue of 2 | `TypeOK`, `OneWorkerPerUser`, `QueueHasWorker`, `NoMessageLostOrDuplicated`, `SlashSerialised`, `RegisteredRunIsCurrent`, `ServedInOrder` |
| `dispatcher_live` | 3 messages, queue of 1, fair scheduling | `ImplementsUserQueue`, `TakenIsSettled`, `ShutdownDrains` |
| `dispatcher_notice` | as above | `QueuedIsProcessed`, violated |
| `session_store` | 2 users; two numbered ids of one, the first of them wanted by the other, and a native id wanted by both; at most 2 sessions; 2 goroutines that update or create, 1 update, 1 kill | `TypeOK`, `SessionsConsistent`, `PersistedStays`, `MemoryOnDisk`, `MetadataNotStale`, `RestartKeepsActive` |
| `session_gone` | no limit, no kill, nobody deletes | `GoneStaysGone`, violated |
| `super_review` | 3 turns, 2 agents, 2 texts, interchangeable | `TypeOK`, `NothingPendingWhenOff`, `NewestIsRegistered`, `OneReviewWorks`, `ReadyIsFresh`, `OnlyNewestStores`, `AnswerNotDropped` |
| `super_stale` | 2 turns, 1 agent, 2 texts | `NewerFeedbackStays`, violated |
| `super_off` | 2 turns, 1 agent, 1 text | `OffSilencesReviews`, violated |
| `turns` | registry: 2 turns at once on a session, on copies of it, or across `/new`; 3 turns in a row; 2 turns of 2 agents. Session: 3 messages (text and allow, with super mode on and off, or with allow-all), 2 processes, 2 questions, 1 exit; and 2 messages with a cancelled turn and a `/btw` | `TypeOK`, `ProcessesKept`, `OwnAnswer`, `RequestReachesUser`, `AnswersWhatWasShown` |
| `agents` | codex: 2 inputs, one of them perhaps by `/btw`, a turn that is left early, 1 approval; Claude: 2 writers, 2 lines, of which one may be too long; hermes: resumed, 2 prompts of 2 senders, 2 closers; a CLI of each agent with 2 lines; a codex turn with 2 deltas and channels of 1 and 2 | `TypeOK`, `OnceOnly`, `EndsWhole`, `CallsReturn` |
| `platforms` | Weibo: 2 messages sent 3 times over 3 connections, 2 ticks; or 1 sent, a break, a silence and 3 failures. Hub: 2 connections, 2 replies; a delta, a timer and replies of the dispatcher, or no timer and 2 messages | `TypeOK`, `ArrivesOnce`, `StopDisconnects`, `GoesOn` |
| `output` | turns: 3 messages (text, allow), or 2 of any kind in super mode, 3 processes that may end once; or text and `/btw`, 3 messages, one turn cancelled; reply: 6 pieces, chunks of 2, 1 failed write; listeners: 2 commands, 3 listeners; log: 3 lines, whole or cut in the text or before their end, 3 files, every kind of replacement, again and again | `TypeOK`, `ReplyWhole`, `ListensInOrder`, `GoesOn` |

Why the bounds are enough. `dispatcher`: overflow needs a worker and three more
messages of its user; two users show that nothing of one user touches the
other; with four messages a second worker of a user can start after the first
has gone, while an old slash goroutine still runs. `/upgrade` takes exactly the
steps of text and is left out of the instance. `dispatcher_live` needs no more
than one message served, one waiting and one dropped. `session_store`: the
limit of two makes creation expire and refuse; renaming, merging, refusing another
user's id and taking over one's own number all occur; a numbered id is renamed as a
pending one is; an updater is between its two critical sections while each of them
happens, and two goroutines may both miss an active session and create one; the kill falls between any two writes, and a
restart meets every combination of files and metadata they leave; three objects are
two sessions in the map and one that is gone. A second
kill or update adds states, not cases: a restart starts from files alone, and
updates do not look at each other. `super_review`: a turn begins one review, so
three turns give a review that waits, one that is replaced and one that is
current; or one review whose feedback two overlapping turns take while a third
ends. With two agents a review stores for one while the other's feedback waits.
`turns`: two turns at once are a start outside the lock with a loser; three in a
row a rekey onto an id that is taken; two processes one restart; two questions
one that is answered while another waits. What an approval or a late done of the
first message does shows in the second and the third; a request that a `/btw` has lost
holds up the message after it. `agents`: the smallest
channels at which the readers wait for room (codex's must hold all
the events that nobody takes while an input is sent, 5 in the instance and 128 in the code;
with less room the reader waits for it, and the sender for the reader); two deltas show an order, two lines one that is
read after the process is gone. `platforms`: three connections are one lost and
one more lost while it is replaced; three failures are one more than the limit of
refusals, which is 2 in the instance. `output`: six pieces fill a
chunk, a buffer and a rest; a line before the listener and two after it, in three
files, are a half line before, at and after a replacement, and a second replacement
between the look at the name and the opening; three messages are an input, a `/btw` or an
answer, and the input that it holds up.
Runs are without deadlock checking because
the bounds on messages, updates, kills and turns stop the models, and so does a
shutdown or an unrecovered panic. Every property has a mutant of the model
(the definitions marked "Mutant of") that violates it.

What the four violating runs show:

- `dispatcher_notice`. The sender of a queued message is told "这条消息已加入队列，会在当前回复结束后继续处理"
  (`main.go:36`). When the queue is full, `enqueue` drops the oldest message
  (`main.go:464`), without a word, though its sender was told so.
- `session_gone`. `UpdateSession` and its relatives look the session up under one
  lock, change it, and save it under another without looking again. If
  `AdoptSessionID` merges the session away in between, the save brings its file
  back, and the next start loads a session that was merged away. `Delete`,
  `CleanExpired` and the expiry in `createLocked` have the same window, and if
  the id has been given to a new session, its file is overwritten with the old
  contents.
- `super_stale`. `runSuperPeerReview` asks whether it is still the current review
  (`router_agent.go:248`) and stores after that. A turn can end in between, and its
  review begin, answer and store: the old review then overwrites the newer
  feedback, which `TestHandleMessage_SuperPeerReviewIgnoresStaleCanceledReview`
  says does not happen. What does hold is `OnlyNewestStores`: a review that was
  replaced before the check never stores.
- `super_off`. A comment (`super_mode.go:184`) says that old background tasks may not
  write feedback back after `/super off`. `/super off` does not cancel the review,
  and the store only asks whether the mode is on, so after `/super on` the old
  task's feedback appears. What does hold is `NothingPendingWhenOff`.

### What does not hold

The component modules also state properties that the code does not have; each
has "Violated" or the exception in its comment. Besides the four runs above, TLC
finds these when the property is checked on its module, with the constants
named here (those not named at their least, and one agent, mode or caller).

| Property | Constants | What the code does |
|---|---|---|
| `SessionStore!SessionsConsistent` without `AnothersNumber` | those of the run | a user whom a client has given another's numbered id stays active on it when its user takes it over (`session.go:136`) |
| `SessionStore!RestartKeepsActive` without `guessed` | `MaxCrashes = 2` | what `restoreMissingActiveSessions` chose is not saved, and the next start may choose another (`session.go:898`) |
| `LiveSessions!CloseClosesAll` | 2 turns, 3 processes | a turn that looks up after `Close` has taken the table registers a process nobody closes (`router_interactive.go:168`); `router_core.go:110` says that Close closes them |
| `LiveSessions!NewIsNew` | 2 turns at once, `News = 1` | `/new` clears the pending session's native ids but leaves the process registered under the pending id (`command.go:300`): the next message continues the old conversation |
| `InteractiveTurn!AllowAllKept` | text and allow-all, 3 messages, 3 processes, `exits` 1 | "allow all" lives with the process, and a failed send restarts without it (`router_interactive.go:489`), although the user was told it was kept (line 259) |
| `InteractiveTurn!AllowedOnWord` | super mode on and off, 2 messages | a turn in super mode sets allow-all of the process for good (`router_interactive.go:186`), `/super off` does not reset it |
| `InteractiveTurn!RequestReachesUser` | a load with `injects` 1 | a request in the grace period after a done is shown without awaiting an answer (`router_interactive.go:775`): the reply goes to the agent as a new input |
| `InteractiveTurn!OwnAnswer`, `AnswerComplete`, `RequestReachesUser`, `TurnEnds` without `RequestLost` | a load with `cancels` 1 | a cancelled turn leaves its process at work (`router_interactive.go:559`); what it still says is taken for the next answer |
| `InteractiveTurn!TurnEnds` without `RequestLost` | a load with text and `/btw`, 3 messages | the turn of a `/btw` ends after a late done and twelve silent seconds (`router_bytheway.go:78`); a request its process makes after that is thrown away before the next input (`router_interactive.go:534`), whose turn waits for ever |
| `InteractiveTurn!TwiceAtMost` with `gives <= 1` | a load with text, 2 processes | a process that says nothing in time is replaced and the input sent again (`router_interactive.go:381`): both may have worked on it. twice is the most |
| `WeiboConnection!StopDisconnects` | a load with 1 break, 2 sockets | `connect` installs a connection after `Stop` has closed the old one (`client.go:680`) |
| `WeiboConnection!NeverPanics` | `MaxReads = 3`, a load with 3 failures | after a failed attempt the failed connection is read again (`client.go:506`), and the library panics at the 1000th such read |
| `WeiboConnection!OpenUntilStopped` | no failures | the connection is closed when the context is cancelled (`client.go:262`), not last, as `docs/code-review-fixes-2026-05-26.md:34` says; the rest of a reply meets a closed connection |
| `WeiboConnection!DuplicateWasPut` | `Capacity = 1`, a load with 3 messages sent | a message that met a full channel counts as seen (`client.go:650`): its repetition is refused |
| `StreamSender!AllShown` | `MidMessage = TRUE` | a message event ends the reply (`stream_sender.go:94`); codex emits one in the middle of a turn, and a request after it is never shown |
| `StreamSender!CancelSettles` | 2 pieces | `select` may take an event after the cancellation; the write then fails and the reply stays open (`client.go:368`), against `router_test.go:1631` |
| `Listen!CanBeStopped` | 2 callers | the second of two `/listen` at once overwrites the entry of the first (`listen.go:56`), which only Close ends |
| `LogFollower!FollowedLineShown` | `Cuts = {"text"}` | a line read in two parts is shown in neither (`listen.go:143`) |
| `LogFollower!InOrder` without `~f.mistaken` | 3 files, `Replacings = {"move"}`, `Lines = 1`, `Before = 0` | a log replaced between the look at its name (`listen.go:170`) and the opening (`:188`) is taken for replaced once more, and every line is sent twice |
| `LocalHub!RequestAnswered` | a load with replies of the dispatcher, 3 messages and no timer | the read loop waits for room in the channel (`message.go:213`) while the dispatcher waits for an ack behind it; only the ack timer ends that |
| `LocalHub!DoneIsComplete` | 2 connections, a load with 2 deltas | a delta that a breaking connection has taken is lost, and the reply is still marked done (`message.go:97`) |
| `LocalHub!ChosenAgentAsked` | 2 agents, a load with 2 messages | the session is bound when a message is read, not when it is taken (`message.go:199`) |
| `CodexSession!WaitsEnd` without its exception | `Exits = TRUE` | an app server that exits under a waiting request: nobody closes the channel it waits on (`codex_interactive_session.go:319`, against the error text in line 324) |
| `CodexSession!AnswerOnce` without its condition | `Deltas = 1`, and `Injections = 1` or `Leaving = TRUE` with 2 inputs | `/btw`, or an input after a turn that was left early (`router_interactive.go:559`), empties `deltaSeen` in the middle of an item (`codex_interactive_session.go:117`): the text comes twice |
| `CodexSession!IdleEndSilent` | `Exits = TRUE`, `Deltas = 1` | the turn's id is stored after its completion was read (`codex_interactive_session.go:128`): an end between turns is reported, against `codex_test.go:580` |
| `CodexSession!DecisionsMeant` | `Asks = 2`, `AtOnce = TRUE` | the pending approval is one slot (`codex_interactive_session.go:433`): the decision goes to a request the user has not seen |
| `CodexTurn!InputOnce` | `Exits = TRUE` | a lost response makes the next transport begin the turn again (`codex_appserver.go:63`), while the first has it |
| `CodexTurn!EndTold` | `Exits = TRUE` | error and closed channel are ready at once (`codex_appserver.go:466`, `:472`); taken in the wrong order the turn ends without a word |
| `ClaudeSession!CloseReturns` without its exceptions | `Stuck = TRUE`, or `Orphans = TRUE` | `Close` waits for the lock of a writer the CLI does not read from (`claude_session.go:231`), or for the pipe another process has open (line 256) |
| `ClaudeSession!ReadToTheEnd` without its exception | `Long = TRUE` | a line over the buffer of 10 MiB ends the reading (`claude_session.go:282`, `:309`), with output left unread |
| `ClaudeSession!Reaped` | `Lines = 3` | cancelled while it emits, `readLoop` returns without `Wait` (`claude_session.go:297`); gemini's and codex's one-shot turns do the same (`gemini.go:80`, `codex.go:80`) |
| `HermesSession!ReplayHidden` without its condition | `Late = TRUE` | what hermes replays after the drain is taken for the answer (`hermes.go:660`) |
| `HermesSession!DoneIsTheEnd` | `Steers = TRUE`, `Chunks = 1` | the response to a `/btw` ends the turn (`hermes.go:547`) |
| `HermesSession!CloseJoins` | 2 closers, `Exits = TRUE`, `Orphans = TRUE` | a second `Close` returns at once, while goroutines still run (`hermes.go:410`), against `docs/code-review-fixes-2026-05-26.md:151` |

The runs claim what is left: the same property under the condition in which it
holds, or a weaker one.

### Fairness

`Dispatcher!Fairness`: weak fairness for the dispatching goroutine's steps, for
each worker and for the return of each busy slash goroutine, because the Go
scheduler runs every goroutine that can run. Strong fairness for
`StopDispatching`: `select` chooses at random among ready cases, so a context
that stays cancelled is seen even if messages keep arriving. It also says that
the calls into the router return; a turn that never ends keeps its worker, and
that part belongs to the router's models. Panics, arrivals and the cancellation
have no fairness. Only `dispatcher_live` uses it.

The other models have weak fairness of `Progress`: the steps of the bridge's own
goroutines, timers among them, as a whole. One condition for all of them is
enough, because every model is bounded: each of its steps uses up a bound or
brings a goroutine further, so that a goroutine that can run is not kept from
it for ever by another. What the outside does (a process, a server, the hub, the
user, a cancellation) is not in `Progress`, with these exceptions, each of which the
code itself relies on. A process that has been killed ends. The agent of
`InteractiveTurn` ends an input it has begun, in time or by its exit; the code waits
for that without a limit. The app server of `CodexSession` takes what is written to
it while it is up, and the CLI of `ClaudeSession` reads its input unless it is
stuck. The replay of a resumed `HermesSession` comes to its end. The hub of
`LocalHub` reads and answers, and the dispatcher takes messages and finishes its own
reply. `LogFollower` separates the listener from the writer of the log,
who finishes a line it has begun and creates the file it has moved away.
A load of `LocalHub` says whether its ack timer goes off; without it `GoesOn` shows that
no timer is needed, except by a reply of the dispatcher itself.

## Proofs

`DispatcherProofs` proves, for every set of users, every number of messages and
every queue bound,

- `TypeCorrect`: `Spec => []TypeOK`;
- `OneWorker`: `Spec => []OneWorkerPerUser`;
- `Invariance`: `Spec => []Inv`, from which both follow.

The only assumption is `ConstantsAssumption` of `Dispatcher`. `OneWorkerPerUser`
is not inductive: `StartWorker` creates worker `w` for message `w`, and nothing in
`OneWorkerPerUser` says that this worker does not exist already. `Inv` adds

- `DispHolds`, `WorkerHolds`: who holds a message, at which program counters,
  and of which user;
- `ChannelInOrder`: the ids in the channel grow and none is newer than the last
  arrival;
- `WorkersAreOlder`: workers that were ever started are older than what the
  dispatcher holds, and that is older than what is still in the channel, so
  that a worker is started at most once per message;
- `Unique`, `Matched`: two live workers never have the same user, and users in
  flight are exactly those with a live worker.

Each lemma takes one group of actions through one conjunct; the step lemmas are
combined in `Invariance`. TLC checked the conjuncts before they were proved.

What happens to messages follows from `Invariance`, each theorem with what its
property lacks to be inductive:

- `QueueServed`: `Spec => []QueueHasWorker`. `QueueHeld` says that a user who is
  not in flight has an empty queue; with `Matched` that is the property.
- `RunIsCurrent`: `Spec => []RegisteredRunIsCurrent`. `RunHeld` fixes the entry at
  every program counter of the worker, also those between two turns, where it
  is 0, so that `endRun`'s comparison always finds its own run.
- `Ordered`: `Spec => ServedInOrder`. `InOrder` follows a message on its way: for
  every user the message begun last, the one the worker holds but has not
  begun, and those in the queue have growing ids (`UserLine`, `WorkerLine`), and
  everything the dispatcher or the channel still holds, and the next arrival,
  is newer than all of that (`DispatchLine`). The queue that gives up its oldest
  message keeps the order of the rest (`AppendBoundedProperties`). The line of
  a user who is not in flight is empty (`QueueHeld`), so that a new worker
  overtakes nobody.
- `SlashOne`: `Spec => []SlashSerialised`. `SlashHeld` says who holds the turn of a
  busy user's slash commands at every program counter of their goroutines.
- `Implements`: `Spec => ImplementsUserQueue`, the refinement. What `UserQueue` serves
  for a user is what the user's one worker holds (`ServingIs`), and `HandsFree` says
  that between two messages the worker holds none. Each step is then one of
  `UserQueue`'s actions or a stutter: a worker that takes over a queue serves
  its head (`WorkerServes`), a new one opens the line (`WorkerOpens`), a message for a
  busy user joins it (`EnqueueJoins`).
- `NoneLost`: `Spec => []NoMessageLostOrDuplicated`. `Placed` gives every message that
  has arrived one place among channel, dispatcher, queue, worker, slash
  goroutine and the settled ones. Counting the places needs that a queue or the
  channel holds a message once; that their ids grow (`InOrder`) says so.

`SuperReviewProofs` proves every property of the run `super_review`, for every
number of turns and every set of agents and texts, from `ConstantsAssumption`
of `SuperReview` alone. `TypeOK` and `NothingPendingWhenOff` are parts of its
invariant `Inv`; the rest follows from two more:

- `Registered`: `NewestIsRegistered`, strengthened by what it needs of the past: no
  review beyond `nextReview` has begun or is cancelled, and the newest review is
  cancelled only if the router is closed. `OneReview`, `NewestStores` and
  `AnswerKept` follow from it.
- `Fresh` follows a review's feedback. Until the review has made its one attempt
  to store, nothing in the session or in a turn comes from it (`StoredOnce`). What a
  turn has taken still waits for its agent with the same text, or is cleared or
  replaced, and a turn about to finish has seen to it that it does not wait any
  more (`Taken`). With that `ReadyIsFresh` survives the step that makes feedback
  spent.

Three lemmas carry the steps: what a step of a review is (`ReviewSteps`), what a
step of a turn is (`TurnSteps`), and that `Fresh` is kept while feedback only
disappears (`FreshKept`, `FreshTurn`).

`SessionStoreProofs` proves the five invariants and the action property of the run
`session_store` for all users, ids, requests, objects, updaters and limits, from
`ConstantsAssumption` of `SessionStore` alone. There are three layers:

- `Inv` joins `TypeOK` and `SessionsConsistent` with what updaters hold and what is
  to be saved: sessions that were made (`HoldSessions` and `SavesSessions`). A session is
  created under an id that is free, or under its user's own number, from whoever has
  it (`MayTake`). `TypeCorrect` and `Consistent` follow.
- `DiskInv` says how far memory and files agree while writes are left:
  every session is in its file, or has its save to come, or an updater has
  changed it (`SavedOrPending`); only files of sessions that are gone are removed
  (`RemovesGone`); an update once saved is in a session and that session's file, or,
  during an adoption, in some file and in the session saved next (`Kept`).
  `OnDiskAsInMemory` and `StaysOnDisk` follow, for a kill between any two writes.
- `MetaInv` says that the metadata is the last thing to be written, or is as it is
  in memory, or that a restart has chosen and nobody was made active since
  (`guessed`, `Fresh`). `ActiveAsSaved` follows; and, with `DiskInv`, `RestartKeeps`: what a
  restart finds in files and metadata gives each user the session he had
  (`RestartKeepsActive`). What it cannot say is in that property's exceptions. A kill
  between the removal of the old file and the save of the metadata, in the middle of
  an adoption, leaves metadata that name no session, and any of the user's sessions
  may become active; and that choice is not saved.

The modules of the joined runs are instanced, not extended, so that their
`ConstantsAssumption` is a hypothesis of each theorem; `UserTurns`, `Output`, `Platforms` and the
MC modules assume it of every instance, and TLC evaluates it.

`UserTurnsProofs` proves all five properties of the run `turns`, for any number of
sessions, processes, turns and messages and any sets of loads, from
`ConstantsAssumption` of `UserTurns` alone, which joins those of its two parts. Its
invariant `SoundInv` has three parts, proved apart because the parts share no state
(`BothStart`, `BothStep`).

- `RegistryInv`, for `ProcessesKept`. A running process that nobody could close
  (`NoProcessLost`), one closed that is still registered (`RegisteredNotClosed`) and
  one registered twice (`RegisteredOnce`) depend on each other: `Kept` joins them and
  adds what relates a turn between its start of a process and the lock under which it
  registers it to all the others. Such a turn has its process alone
  (`StartingApart`); nothing that waits to be closed is registered (`ClosingApart`).
  This holds however turns overlap. If they come one after the other (`OneByOne`),
  `Single` holds too. Its core is `ThreadsApart`: a native session is used by one
  session id only, be it by the session's own id, its recorded native id, its registered
  process, or the turn that works for it (`Uses`). That is what the rekey needs:
  between the session's new id and the entry under it there is a step in which
  neither the store nor the registry alone tells whose process it is (`TurnFits`).
- `SessionInv` holds for every load, also with cancelled turns and `/btw`: whether a
  process asks, the last event of its channel and what the router knows of it agree
  (`Asking`), and a turn that answers has a process that waits (`TurnSound`). How often a turn has
  given its input, and whether it may do so again, agree with its program counter
  (`GivesSound`). `TwiceAtMost` and `AnswersWhatWasShown` follow.
- `AloneInv` holds if no turn is cancelled and nothing is written beside one. What
  is in the channel of a turn's process is, in this order, dones of inputs before, then
  the events of the input the turn waits for, then dones (`Aimed`); what the process
  still has to do agrees with it (`Works`). A process is calm or waits for the
  user between two turns (`Held`). `OwnAnswer`, `AnswerComplete` and `RequestReachesUser`
  follow; the invariant fails, as the properties do, with one cancellation.

TLC checked `RegistryInv` and `SessionInv` with `AloneInv` on the loads of the run before they
were proved. The lemmas come in rows: one for the types, one for `Kept`, one for
`Single`, each with one lemma for each way to touch the registry (close, remove, register,
rekey, exit); then one lemma for each action of a turn and of its process.

`OutputProofs` proves `TypeOK`, `ReplyWhole` and `ListensInOrder` of the run `output`, for
every number of pieces, chunk size, set of errors, callers, listeners, lines and
replacements, from `ConstantsAssumption` of `Output` alone. Its invariant `Inv` has one part
for each of the three models.

- `StreamInv`, for a reply. While the loop runs (`LoopInv`), what the user has seen and
  what is buffered, put together (`All`), are pieces the agent has produced, each once
  and in their order, and whatever the user is owed is among them; the sender is done
  exactly if the last chunk on the wire is the final one (`Closed`); a text that simple
  mode keeps for the end has not been shown (`Waiting`). `EndInv` says what of that the
  user has when the loop is over, by its end, a failed write or a cancellation.
  That the chunks of a text are the text again rests on lemmas about `FlattenSeq`, a
  recursive function the library defines by `CHOOSE`. In `SequenceFacts`, `Iterated` shows
  that there is such a function (by `SetInduction`, on a set instead of a predicate), and
  `FlattenJoin` that the flattening of two sequences joined is their flattenings joined;
  `ChunksCarry` is that splitting a text loses nothing of it.
- `TableInv`, for the table of listeners. With commands one at a time, a listener that follows its
  log is in the table, or in the hands of the command that stops it (`OneCommand`);
  `Between` says that during a command the table is empty. Two at once break it (What does not hold).
- `LogInv`, for a listener and its log. The halves in a file ascend (`Rank`), and all of
  a file is newer than all of the files before it, unless one was copied (`OwnerInv`).
  `Future` says what of the log is still to be read: the rest of the open file, all of
  the files after it, and the open file from its beginning if it may be read once more
  (`Again`: it was checked before a replacement, or has become shorter, or was mistaken for
  another). All of that is newer than the start of the follower, and, as long as it mistook
  no file, than every line it has sent (`Newer`, `Unseen`); so is the part of a line it
  holds. That the two exceptions, `copied` and `mistaken`, are the only ones is what the
  proof adds to the run.

There is one lemma for each action of the loop, the table, the follower and the
owner of the log. TLC checked `StreamInv`, with messages in the middle of a turn and
without, and `LogInv` on the bounds of the run before they were proved.

`PlatformsProofs` proves `TypeOK`, `ArrivesOnce` and `StopDisconnects` of the run `platforms`,
for every number of connections, reads, capacities, messages, agents, replies and loads,
from `ConstantsAssumption` of `Platforms` alone. Its invariant `Inv` joins one for each
platform.

- `WeiboInv`, for the duplicate check. `PutOnce` speaks of two entries of `put`; what makes
  the second late is what `dedup` knew of the first when it came. `Remembered` says that:
  of everything that was put, `dedup` has a time not before it, or the window has passed
  since. The clean-up forgets only what is out of the window, and a repetition that
  is refused does not move the time (`OncePut`, `TimeGoesOn`). Connections come into it by
  the types only: `LoopInv` bounds the failed reads and the refused tokens.
- `HubInv`, for a reply and its connections. `Connected`: an open connection is the one the
  supervisor has dialled and not installed, or the one it holds; so nothing is on any
  other, and when it has ended none is open. `StopDisconnects` follows. `Telling` is
  `ToldInOrder` strengthened to what is on its way: what the hub knows of a reply agrees
  with how far the stream is (`HeardOf`), every frame in a connection goes on from there,
  one start alone, ascending deltas and an end with nothing after it (`OnItsWay`), and an
  ack is on its way only for a start that has been read. A break empties the connection:
  it makes gaps, which `ToldInOrder` allows, and no disorder.

`OnItsWay` has a lemma for each thing that happens to a queue (`OnTail`, `OnAppendOwn`,
`OnAppendOther`, `OnRead`), and one for a reply that moves on without a frame (`OnLater`). TLC
checked `LoopInv`, `Remembered`, `Connected` and `Telling` on the bounds of the run before they
were proved.

`AgentsProofs` proves `TypeOK`, `OnceOnly` and `EndsWhole` of the run `agents`, for every number
of inputs, deltas, requests, lines, writers and closers, every capacity, and an agent that
may or may not end, leave a process behind, or stop reading, from
`ConstantsAssumption` of `Agents` alone. Its invariant `Inv` joins one for each model.

- `CodexInv`, for a live codex session. `AnswerOnce` counts what has been emitted of a turn; it
  is inductive only with what may still come. `CodexAnswers` says that: what is
  between the app server and the reader has the whole of an item after its deltas
  and nothing after that (`ItemLast`); the turn of a delta that was emitted is in `deltaSeen`, or
  its item has passed (`DeltasSeen`); after a whole item no text of the turn is left (`WholeLast`,
  `ItemOnly`). `deltaSeen` is emptied when an input is sent (`codex_interactive_session.go:117`). That is
  harmless only because nothing of a turn is on its way between two turns (`CodexPhase`), which
  fails with an injection, or after a turn that was left early. And that takes a whole chain of facts: a turn begins only for
  an input that was sent (`CodexTurns` counts those still on their way), because a
  request is in one place at a time (`CodexRounds`: written, answered, or waited for) and
  its caller waits for nothing else (`CodexCalling`); a turn that has not begun has said nothing
  (`CodexBegun`). `CodexTold` and `CodexErrors` relate the end of the reading to the last thing read,
  for `ActiveEndTold`.
- `ClaudeInv`, for a live Claude session. `ClaudeNumbered` says that the lines in the pipe follow one
  another, so that the line scanned next is a request nobody has seen; `OneHolder`
  follows a request from there through the slot and one writer to the decision.
  `DecidedOnce` is its last conjunct. `EndsInOrder` says what the reader has seen of the
  output and of the process by the time it waits, or that it had to give up and says so, and
  gives `ReadToTheEnd`.
- `HermesInv`, for a live hermes session. `Hidden`: while what is replayed is suppressed it may be
  on its way; once it no longer is, there is none between hermes and the reader, and
  none to come, unless the reading has ended. This needs that the replay is over when
  the drain is (`~Late`).
- `CliInv`, for a turn of a CLI. `PassesOn`: what has been passed on, what the goroutine still has
  in hand, and what the unread lines will make up, are together what all the lines the CLI
  has written make up. `TellsOf` follows a failure to the event about it.
- `TurnInv`, for a turn on an app server. A delta passes through the connection, the reader's
  hand, the channel of messages, those set aside, and the loop's hand, before it is
  passed on. `Flowing` divides what the app server has said so far among these six: each
  has the deltas from where the one before it ends, in their order, and none after
  what ends the answer (`Chain`). Each step moves one of the limits. `DoneIsWhole` follows,
  since a done that was passed on leaves no delta behind it, and `AnswerOnce`.
  `GivenOnce` counts the request that is written and not read, for `InputTwiceAtMost`; `AppDown` gives
  `NoneLeft`.

Each part has a lemma for every action of its model. TLC checked `Inv`, all of it, on the
bounds of the run.

`InputTwiceAtMost` says that a turn gives its input to one app server for each transport at
most. The code does not have `InputOnce` (see What does not hold); this bounds how far
it fails.

Every safety property of a passing run is proved. Only model-checked: liveness (`GoesOn`,
`CallsReturn`, `TakenIsSettled`, `ShutdownDrains`), which under fairness is out of the
prover's reach, as `ENABLED` is. What the code violates is shown by TLC's counterexamples.

## Not modelled

- The HTTP endpoints (`/health`, `/stats`, `/chat`, `/chat/stream`): they call
  `StreamMessage`, and enter the models as turns beside the worker (`LiveSessions`,
  `SuperReview`) and as requests for any session (`SessionStore`). The order of the shutdown (`main.go:340`: cancel, HTTP, platform)
  is in `Dispatcher`, `WeiboConnection` and `StreamSender` as far as each sees of it.
- `/list`, `/model`, `/help`, `/status` and the wording of answers; the native session
  catalogue, configuration, self update, agent repair, test report, scripts,
  skills: input and output without a protocol.
- How the text of an answer is put together from the events of an agent, where a
  text may be cut, what a line of a log shows: data the properties do not tell
  apart.
- The pending approval of hermes (it works as Claude's), `Interrupt` of codex and
  the approval table of the local platform (nothing calls them), the heartbeat of
  the Weibo connection (it changes nothing), a second `Start` of a platform.
- Failing writes to disk, which the session manager ignores.

## Plan

All parts that keep state across calls have a module. What is left:

1. Liveness of a whole reply, from the agent's process to the user, on one composed
   model: the runs check it part by part.
2. The peer's native session id that a review writes back (`SuperReview`), and
   the import of a legacy storage directory (`SessionStore`).

No module declares a recursive operator, so that each can be proved about. A new
question becomes a part of one of the four joined runs before it becomes a run
of its own.
