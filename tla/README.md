# TLA+ models of the Shiori desktop companion

The program in `src/` is a desktop companion: an Electron application that starts a Python
backend (`src/apps/backend`) and talks to it over a stdio bridge. The backend runs characters
("roles") that answer on the desktop and in chat channels, act on timed jobs and on their own
initiative, and keep memories. It is one asyncio process: between two `await`s code runs without
interruption, and nearly everything that goes wrong goes wrong *at* an await - a task cancelled
there, state read before it and used after it, a file half written when the process dies.

The modules in this directory model the parts where that matters most, translated from the
source. TLC checks them on small instances; TLAPS proves what matters most for every value of
the constants.

| module | what it models | runs | proofs |
|---|---|---|---|
| `ConfigTransaction` (implements `AtomicSettings`) | the journalled commit of `config.toml` and `roles.json` | `settings_commit` | `SettingsProofs` |
| `RuntimeGenerations` | replacing the configuration of a running process | `runtime_generations`, `runtime_generations_end` | `RuntimeGenerationsProofs` |
| `Scheduler` | timed jobs, their file, recovery | `scheduler` | `SchedulerProofs` |
| `RoleTurns` | the conversation turns of a role and their cancellation | `role_turns` | `RoleTurnsProofs` |
| `Sessions` (implements `ConversationLog`) | one session's cache and rows, undo, consolidation into the memory | `sessions`, `sessions_cut` | `SessionsProofs` |
| `ChannelHandover` | switching the connections of the chat channels | `handover` | `ChannelHandoverProofs` |
| `SettingsSave` | a setting from its input field, over the bridge, to the apply lock | `settings_save` | `SettingsProofs` |
| `Voice` | a spoken turn, from the key press to the last sentence played | `voice` | `VoiceProofs` |
| `Proactive` | a role's own initiative: ticks, drift, retries, follow-ups | `proactive`, `proactive_desktop` | `ProactiveProofs` |

`MC*.tla` give the model checker symmetry sets and the values a `.cfg` cannot write;
`PROJECT.json` holds the source lines of every definition. Operators marked `Mutant:` in a
module are plausible bugs of the definition that follows them: the property paired with each
fails when it takes that definition's place, so none of the properties holds for want of
something to violate it. The `.cfg` files that no run uses are counterexamples to ask for by hand
(section 4.3).

    tlc -workers 2 -config MCScheduler.cfg MCScheduler.tla
    tlapm SchedulerProofs.tla

## 1. Inventory

### 1.1 How the parts work together

A message reaches the backend through a channel adapter, the Electron bridge or a job that has
come due. It is bound to the runtime generation that is published at that moment (a lease), is
registered with the agent loop under its role's session key, waits for the role's turn lock, is
answered by the passive pipeline (context, reasoning, tools), stored in the session under its
write lock, and announced as `TurnCommitted`. Followers of that event send it to channels and
the renderer, queue memory maintenance, and observe the scene. A spoken turn is such a turn with a
recorder in front and a synthesis and a player behind it; a proactive tick is a turn nobody asked
for. Settings and role edits go the other way: they are derived and checked, saved as one pair of files, and published as a new
generation while older work finishes on the old one.

### 1.2 Parts that are modelled

**Settings commit** (`desktop_bridge/config_transaction.py`, `main.py`, `core/roles/manifest.py`).
*State:* two files and a journal file. *Operations:* `commit` (journal "prepared", write both,
mark "committed", unlink), its rollback, `recover` at start, role edits that write the same
manifest. *Hard:* every file operation may raise and the process may die between any two,
`recover` included. *Correct when* callers see both files change or neither, and a restart
brings back the last pair somebody was told is saved.

**Runtime generations** (`bootstrap/runtime/*`, `desktop_bridge/runtime/service.py`,
`core/common/cleanup.py`). *State:* the published generation, the retired ones, leases held by
operations, by desktop services and by background runners, admission, the one running apply,
the phase of the process. *Operations:* acquire, retain, release; prepare, publish, retire,
close; the channel handover barrier; start, stop and drain of background loops; closing the
bridge; shutdown. *Interaction:* everything that works holds a lease. *Hard:* the last release
may come from any of them, in any order, before, during and after retirement; a handover waits
for all of them and may fail or be cancelled in each phase. *Correct when* nothing uses a closed
generation, the published one is open, connections are switched only in silence, loops of two
generations do not run at once, and shutdown ends.

**Scheduler** (`agent/scheduler.py`). *State:* the job list in memory and on disk, in-flight
marks, a task per started job. *Operations:* add, update, cancel; tick; the life of a task;
stop; recovery. *Interaction:* soft jobs ask the agent loop for a turn, so the user's `/stop`
reaches into them. *Hard:* saves fail after memory has moved on; a task writes back the job
object it held while the list changed; a task is cancelled before its first step; recovery
recomputes times. *Correct when* cancelled jobs stay away, accepted jobs survive, no occurrence
runs twice, and nothing stays due.

**Role turns** (`agent/looping/core/*`, `core/roles/role_runtime.py`,
`desktop_bridge/chat_service.py`, parts of `agent/lifecycle` and `agent/core/passive_turn`).
*State:* the interrupt registry (one entry per session key), the role's lock, the desktop's
slot, snapshots of interrupted turns, a turn's reply in cache and database. *Operations:* start,
enter, trace, store, announce, end; `/stop`; `chat.cancel` and the persistence of the partial
reply. *Hard:* three tasks around one turn (runner, wrapper, inner), each cancellable; all
transports of a role share one key; cleanup of an older turn runs after a newer one registered.
*Correct when* turns of a role never overlap, a turn leaves one reply, live turns stay
cancellable, registrations are removed by their owners, and everything ends.

**Sessions and memory consolidation** (`session/manager/*`, `core/memory/markdown/*`).
*State:* the cached messages, the rows of the database, the cursor up to which they are in the
memory, the FIFO of the write lock, the maintenance task with its draft. *Operations:* the writes
of turns, desktop messages and pushes, the unlocked save, undo, capture and commit of a draft.
*Interaction:* the stored reply of a turn is an append here. *Hard:* writers put a message into
the cache before they wait for the lock; a draft is prepared while the session grows and may
be undone; a failed or cancelled writer leaves the cache ahead of the rows, a failed desktop writer
behind them. *Correct when* the
memory never skips a message, the cache never drops one, and the session is a log whose whole last
turn may be taken back.

**Channel handover** (`bootstrap/channel_host.py`, `bootstrap/channels.py`, the barrier, the
senders of bus and push tool). *State:* the connections each generation published, the retired ones
that still answer, intake, registrations, the retirement tasks, the phase of the handover.
*Operations:* accept, answer, deliver; stop, start, switch, clean, restore; retire; stop all.
*Hard:* any step may fail after others have succeeded; a connection may be configured again before
its retirement ran; a retirement waits for one queue of replies that later turns fill too. *Correct
when* no channel is connected twice, every answer finds the connection
its message came in through, and a handover that failed has put back what was there.

**Settings save** (`renderer/src/shared/serialDraftQueue.ts`, the two controllers that use it,
`desktop/src/bridge/bridgeClient.ts`, `desktop_bridge/runtime/apply.py`). *State:* per editor a
draft, the value it believes saved, a queue of one with its attempt; the requests at the apply lock,
the committed text, the generation, the memo of operation ids. *Operations:* edit, attempt, time
out, retry, reload; check, derive, prepare, commit; onboarding and the enabling of a plugin.
*Hard:* a save outlives its timeout, its retry runs beside it, another window commits between a
save and the reading back. *Correct when* one operation is committed once, nobody's table is lost,
a form that has come to rest shows what is saved or will be refused, and forms come to rest.

**Voice** (`desktop/src/voice/*`, `renderer/src/voice/captureController.ts`,
`desktop_bridge/voice/tts_coordinator.py`, the voice half of `chat_service.py`). *State:* the
controller's state, recorder, capture window, microphone test, player; the chat turn and the
synthesis of each spoken turn; the frames and requests between the processes. *Hard:* four tasks in
three processes, each cancelled by the others; a press takes over while the reply before
it still plays or is still being made; the events of one chunk of output are heard before the answer
that came ahead of them is noticed. *Correct when* no microphone stays open for nobody, the player
holds only sentences of the controller's turn, and the pet comes to rest.

**Proactive, drift and scene follow-ups** (`proactive_v2/*`, `agent/core/proactive_turn/*`,
`agent/core/drift_turn.py`, `agent/turns/*`, `core/scene/controller.py`,
`core/roles/scene_followup_runtime.py`). *State:* the tick under way, the rows it stores, the keys
of what was delivered, the sources' acknowledgements, the task that repeats a message on further
transports, the chain of follow-ups. *Operations:* gate, fetch, judge, resolve, dispatch, commit,
announce; drift; retry; the user's turns; observations of the scene. *Hard:* storing, sending,
recording and acknowledging are four steps; the retry sleeps for minutes; a desktop message takes
effect before its turn has the lock. *Correct when* nothing is told twice, a retry never talks over
what came after it, a scene has its number of follow-ups, and everything ends.

### 1.3 Parts that are not modelled, or only touched

| part | state and operations | hard behaviour | what makes it correct |
|---|---|---|---|
| Message bus, event bus (`bus/*`) | queues with captured leases; emit, observe, fan-out. *Touched:* intake, outbound queue and senders in `ChannelHandover`, `TurnCommitted` in `RoleTurns` | an outbound callback fails half way and is retried after two seconds, then with a fallback text | order per chat; one message is not sent twice |
| Message push (`agent/tools/message_push.py`) | *Touched:* registration and retirement in `ChannelHandover`, the stored push in `Sessions` | text sent, image failed, the whole reported as failed | what is reported is what happened |
| Vector and temporal memory (`memory2`, `default_memory`, `akasha`) | embeddings, items, scores | - | retrieval quality, not a protocol |
| Roles (`core/roles/store.py`, `services.py`, registry) | manifest, per-role services, runtimes; create, edit, delete, import | a role deleted while its turns run | no work on a deleted role |
| Pipeline, reasoner, tools (`agent/core`, `agent/lifecycle`, `agent/tools`) | phases with module chains | what a model answers | bounded iterations; an error becomes an answer |
| Request dispatcher, bridge server (`desktop_bridge/request_dispatcher.py`, `server.py`) | lanes: 8 reads, 2 (then 8) integrations, one mutation lock, none for settings | a cancellation queues behind a slow mutation | each request is answered once |
| Subagents, shell tasks (`agent/background`, `agent/tools/shell`) | jobs, output buffers, eviction | a timeout racing the end; cancellation racing the announcement | each job is announced once |
| MCP clients, plugin host (`agent/mcp`, `agent/plugin_host`) | one stdio stream per server | concurrent calls read each other's answers; only the proactive pool takes them in turn | an answer reaches its caller |
| Channels (`infra/channels`, `src/plugins/qqbot`) | *Touched:* start, stop, pause, resume in `ChannelHandover` | remote protocols | outside this repository |
| Automatic CG, story, pet, screen observation | files and windows of their own | a late observation | the older revision is dropped |
| Conversation threads (`conversation/*`) | projections in one transaction | - | projection equals its messages |
| Other plugins (`src/plugins`) | hooks | - | - |
| Electron (`src/apps/desktop/src`) | *Touched:* the bridge client's requests in `SettingsSave`, the voice half in `Voice` | windows, updates | - |
| Renderer, benchmarks, scripts | *Touched:* the settings editors in `SettingsSave`, the capture window in `Voice` | - | - |

### 1.4 Hazards

The hazards of the whole system, each at its source line with the properties that watch over it
or the reason why none does yet, are listed under `hazards` in `PROJECT.json`. They fall into
six groups: *files* (a torn pair, a failed save, a list that cannot be read), *references*
(a lease nobody returns or that comes too late), *cancellation* (a `CancelledError` taken for
somebody else's, a cleanup that it skips), *shared keys* (all transports of a role use one
session key, one registry entry and one event stream), *copies* (a cache beside its rows, a draft
beside the saved text, a row beside what was sent), and *lateness* (an answer, a retry, an
observation or a sentence that arrives when its time is over).

## 2. Plan

The order follows what would hurt most if it were wrong: first the files a user cannot get
back, then the references everything else hangs on, then the two places where actors meet.

1. *Done:* settings commit, with the abstract `AtomicSettings` it implements.
2. *Done:* runtime generations.
3. *Done:* scheduler.
4. *Done:* role turns.
5. *Done:* sessions and memory consolidation, with the abstract `ConversationLog`.
6. *Done:* channel handover. Next: the step `SwitchChannels` of `RuntimeGenerations` shown to be its
   abstraction.
7. *Done:* settings save: the apply lock together with the editors and the bridge client in front
   of it.
8. *Done:* voice, and proactive ticks with the follow-up chain.
9. **Requests end to end**: the lanes of the dispatcher, a cancellation behind a slow mutation.
10. **Outbound delivery**: the retry and the fallback of the message bus, partial sends of a push.
11. **MCP clients, subagents and shell tasks**: several callers on one stdio stream; timeout, end
    and announcement of a job.

Each is written to be proved about: constants with the weakest assumptions, one action per
operation, invariants from named conjuncts, no RECURSIVE operator.

## 3. Modules and code

Common to all: one action is the code between two awaits, the file operation between two
others, or - where the source awaits nothing - a whole handler. Data is kept where a property
tells it apart: a configuration is a value, a message has no text, a cancellation is a flag on
the task that has not seen it yet. `PROJECT.json` (`map`) gives the lines of every definition.

### 3.1 ConfigTransaction and AtomicSettings

| model | code |
|---|---|
| `config`, `roles`, `journal` | `config.toml`, `roles.json`, `.runtime-config-transaction.json` |
| `pc` | the next file operation of `commit` or `recover`; `idle` between calls, `down` without a process |
| `CallCommit` ... `UnlinkCommitted` | `commit`: refuse or drop an old journal, prepare, write, mark, unlink |
| `UndoConfig`, `UndoRoles`, `UndoUnlink` | its except branch; an error in one restore skips the rest |
| `EditRoles` | a role edit saved under the manifest lock, which does not look at the journal |
| `Die`, `Start`, `Recover*` | the process dies anywhere; `recover` at the next start, which may die too |

Each file operation either takes effect or raises and leaves its target alone, because
`atomic_save_*` write a temporary file and rename it. `accepted` and `overlooked` are history
variables. `AtomicSettings` is the promise to callers: a pair, a request, and one step that
applies the whole request or fails. The refinement maps its pair to what a restart would find
(`Recovered`), so the pair changes at the instant the journal says "committed".

### 3.2 RuntimeGenerations

| model | code |
|---|---|
| `current`, `life`, `retired`, `unseen` | `GenerationManager` and the flags of `RuntimeCandidate`; the retirement tasks not yet run |
| `lease`, `Accept`, `AcceptExempt`, `Spawn`, `Release` | leases of operations, those of admission-exempt methods, `retain` by detached children |
| `desk`, `CloseDesk`, `ReleaseDesk` | the desktop service of a generation and its retirement task |
| `runner`, `prev`, `orphan`, `stopped`, `Runner*` | `RuntimeBackground`: the runner of a group, the group it waits for, a runner replaced when a handover is given up |
| `apply`, `admission`, `drained`, `Prepare` ... `AbortHandover` | `RuntimeSettingsApplication` and `channel_handover_barrier` |
| `phase`, `CloseBridge`, `Shutdown`, `RetireAll` | the end of the bridge stream and `AppRuntime.shutdown` |

`Swap` is one action because no await separates the durable commit from the exit of the barrier.
Switching channels is one step here; `ChannelHandover` has its inside. Siblings of a loop that raises are not followed.

### 3.3 Scheduler

| model | code |
|---|---|
| `mem`, `file`, `inFlight`, `task` | `_jobs`, `scheduler_jobs.json`, `_in_flight`, `_active_tasks` |
| `AddJob`, `UpdateJob`, `CancelJob` | the public operations: save the new list, then install it |
| `Tick` | `_tick`: every due job becomes a task at once |
| `Begin`, `TurnDone`, `Send`, `Finish`, `Unwind` | `_execute_and_reschedule`: turn, push, reschedule or remove, the finally |
| `Interrupt` | a `CancelledError` that comes out of the awaited turn |
| `Load`, `LoadRaises`, `Stop`, `Exit` | `run`, its failing `load`, `stop`, the end of the process |

Cron expressions and durations are a period and an interval; an occurrence is identified by its
nominal time. `status`, `asked`, `fired`, `stoppedAt` are history variables, `stoppedAt` only
keeps a new process from starting at the tick the old one ended. A public operation whose save
raises leaves memory and file as they were and is not an action of its own. `faults` names what may
go wrong in a behaviour and never changes: `save` (the write after a task or at the start), `load`
(the read at the start), `restart`, `interrupt` (of the turn a soft job asked for).
`cancel_job_by_name` is called by a test only and is left out.

### 3.4 RoleTurns

| model | code |
|---|---|
| `active`, `state`, `snap`, `resumed` | `_active_tasks[key]`, `_active_turn_states[key]`, `_interrupt_states[key]`, the turns resumed from it |
| `holder`, `ahead`, `Enter`, `Close` | `RoleRuntime.turn_lock`, first come first served |
| `Register`, `Return` | the registration in `process_direct` and `process_inbound` and the finally that removes it |
| `Cache`, `Store`, `Announce`, `Complete`, `Refuse`, `Raise`, `Unwind` | the stages of a turn and its four ends |
| `slot`, `committed`, `terminal`, `StartDesktop`, `Finish`, `Discard` | `DesktopChatService`: the entry of the session, the handlers of `run_chat_turn`, the terminal event, the done callback |
| `Stop` | `request_interrupt` of a channel's `/stop` |
| `CancelTurn`, `Answer` | `chat.cancel`: interrupt, cancel the runner, wait for the cleanup, save the partial reply |

Channel turns and job turns take the same actions. A turn may `Raise` anywhere before it ends;
it may store nothing (`Refuse`: a gate or a provider error answered with a text).

### 3.5 Sessions and ConversationLog

| model | code |
|---|---|
| `cache`, `db`, `cursor`, `named` | the cached `Session`, its rows in `seq` order, `last_consolidated`, the messages that have an id |
| `waiting`, `Grant`, `Arrives` | the FIFO of the session's write lock; a free lock is taken without an await |
| `Turn`, `DesktopUser`, `DesktopReply`, `Proactive`, `DesktopPush` | the writers: what each puts into the cache and what it stores when it has the lock |
| `SaveUnlocked`, `Synced` | a save outside the lock: rewrites the rows from the cache when they differ |
| `Undo`, `Undoes` | the selection of the last passive turn, its rows deleted, the cursor recomputed |
| `Capture`, `Prepared`, `Commits`, `WriteMemory`, `CommitCursor`, `Publish` | the maintenance task: draft, check against rows and cursor, Markdown, cursor, consumers under the lock |
| `Cancel`, `CommitFails`, `Crash` | a waiter cancelled, a write that raises, a restart |

Only a consolidation commit awaits while it holds the lock, so every other critical section is one
step. A message is a number, a kind and the turn it belongs to. `ConversationLog` allows four steps:
messages are added at the end, one whole turn is taken out, the memory takes messages of the
log, the mark advances. `faults` names what may fail in a behaviour and never changes: `cancel` (a
waiting writer), `crash`, `fail` (the write of a channel's turn or of a push without an undo of its
own, or of a commit), `cut` (the write of a desktop writer). Behaviours with `cut` are mapped to the
empty log, because there the code does lose messages (section 4.2).

### 3.6 ChannelHandover

| model | code |
|---|---|
| `hosts`, `retired`, `state`, `open` | the `ChannelHost` of each generation, `_retired_transports`, what start and stop have done to a connection, its intake |
| `sender`, `marked` | the senders registered with bus and push tool, `_retired_channels` |
| `Apply`, `Enter`, `DrainFails` | the candidate, the barrier that first waits for accepted work |
| `Park`, `Stop`, `Start`, `Switch` | the phases of `channel_host.py`, one connection at a time |
| `SwitchFails`, `Clean`, `Restart`, `Restarted`, `Recover` | the commit raises; the candidate is stopped, what was stopped starts again, intake reopens |
| `batches`, `Released`, `Joined`, `Retire` | the retirement tasks: they wait for the turns of the generations published so far (`reload.py:164`), then for the outbound queue to be empty once (`Queue.join`, replies of every generation), then for the lock, and stop the parked connections |
| `StopAll` | shutdown |
| `Accept`, `Answer`, `Deliver` | a turn accepted through a connection, its reply queued, the reply sent |

A start registers its senders first, a stop detaches them in a `finally`; both are kept when they
raise. The remote side of a connection is not modelled.

### 3.7 SettingsSave

| model | code |
|---|---|
| `ed`, `Enqueued`, `Reloaded`, `Drained` | the fields of `SerialDraftQueue` and the state of the controller around it |
| `Edit`, `Effect`, `Retry`, `Reload`, `LoadArrives` | an edit, the effect that autosaves, the buttons, the reload |
| `FormSaved`, `ReadBack`, `FormApplied`, `PanelSaved`, `AttemptFails` | what each editor does with its answer |
| `Timeout` | `bridgeClient.ts` gives up; the request goes on in Python |
| `requests`, `Decline`, `Derive`, `PrepareFails`, `Commit` | `RuntimeSettingsApplication` behind its lock: memo, expected generation, text derived from the committed one |
| `Toggle`, `OnboardingReads`, `OnboardingSaves`, `Crash` | the other writers; the bridge process dies |

The text has a value per part (the form's tables, the plugin's, the enabled list), which is what the
properties distinguish. The files of the commit are `ConfigTransaction`, its
publication is `RuntimeGenerations`.

### 3.8 Voice

| model | code |
|---|---|
| `ctl`, `StartPress` ... `Finish`, `Cancel` | `DesktopVoiceController` with its transition table; `step` is the operation it awaits |
| `rec`, `mic`, `Loaded`, `Obey`, `Open`, `Ready`, `Stopped` | the recorder in the main process, commands to the capture window, the window's answers |
| `test`, `TestStart`, `TestStop` | the settings page's microphone test, which shares the window |
| `sends`, `cancels`, `Serve`, `CancelVoiceTurn`, `CancelChat` | requests on their way to the backend and their handlers |
| `chat`, `co`, `Push` ... `SynthesisEnds`, `Terminal`, `Interrupted` | the chat turn and its `TtsTurnCoordinator` |
| `wire`, `Emit` | the lines to Electron, in order; an emitter that is closed after the terminal event |
| `Deliver`, `Routed`, `Answered` | `consumeStdout`: events are handled at once, an answer only resolves a promise |
| `Settling`, `Resumes` | `finishRecording` goes on when every line of that chunk is handled: any number of lines may be delivered before it, no other event |
| `pb`, `Pumped`, `SoundStarts`, `SoundEnds`, `SoundFails` | `BrowserVoicePlayback` and the reports of its window |

`faults` names what may disturb a behaviour and never changes: `timeout` (a send is given up),
`window` (the capture window or the player is lost), `test`, `late` (the chat turn ends before its
synthesis), `stop` (the reply is stopped in the chat window), `escape` (the press is cancelled).

### 3.9 Proactive

| model | code |
|---|---|
| `lock`, `Holds`, `TickDue`, `TurnArrives` | the role's turn lock, which serialises ticks and turns |
| `tick`, `GateBlocks` ... `Judge`, `ResolveSkips`, `ResolveSends` | `AgentTickContext` and the phases of the tick pipeline |
| `Dispatch`, `Commit`, `Marked`, `FollowupSent`, `Announce` | the row is stored, the transport asked, delivery key, scene chain and acknowledgements recorded, the event published |
| `DriftWrites`, `DriftDispatch` | the drift turn of a tick that found nothing |
| `retry`, `cancelled`, `RetryWakes`, `RetrySent` | the task that sends the message to the remaining transports |
| `Heard`, `TurnStarts`, `TurnReasons`, `TurnEnds`, `Observed` | a user's message and turn, the observation of the exchange and what it decides |
| `Stop`, `LoopEnds`, `Crash` | the end of the loop, a restart |

What the clock decides (a scene is due or expired, cooldown, loneliness, the drift interval) and
what the model decides is chosen freely. Texts are numbered in the order of their first use, which
loses no behaviour since a text is compared for equality only.

## 4. What is checked

State counts are distinct states; every run finishes within three minutes on two workers.

| run (`.cfg`) | instance | what it shows |
|---|---|---|
| `settings_commit` (`MCConfigTransaction`) | 2 texts, 2 manifests; 4,748 states | `Recoverable`, `AtomicSpec` under failures of every file operation and crashes anywhere |
| `runtime_generations` (`MCRuntimeGenerations`) | 3 generations, all with loops, 3 operations, 1 exempt request, a slow close of the first; 651,090 | `NoUseAfterClose`, `OneBackground`, `SwitchedQuietly` |
| `runtime_generations_end` (`MCRuntimeGenerationsLiveness`) | 3 generations, 1 operation, no slow close; 17,849 | `AdmissionReopens`, `RetiredCloses`, `ShutdownEnds` |
| `scheduler` (`MCScheduler`) | 2 jobs, one-shot, soft interval, cron, soft cron, clock to 4; failing saves, restarts and interrupts, or failing loads and restarts; 1,010,078 | `DeletedStays`, `AcceptedDurable`, `MemoryIsFile`, `OccurrenceOnce`, `DueFires` |
| `role_turns` (`MCRoleTurns`) | 2 desktop turns, 1 channel turn, 1 cancellation, 1 `/stop`; 418,680 | `Serial`, `RepliedOnce`, `DesktopCancellable`, `OwnRegistration`, `TurnsEnd` |
| `sessions` (`MCSessions`) | 5 messages, 1 kept out of memory, windows of 1; no faults, or cancelled writers and crashes, or crashes and failing writes, or failing desktop writers; 288,336 | `Remembered`, `CacheMirrors`, `WritesCurrent`, `ImplementsLog`, `LockServed` |
| `sessions_cut` (`MCSessionsCut`) | the same with failing desktop writers only | `RepliesStay` is violated (section 4.2) |
| `handover` (`MCChannelHandover`) | 2 channels, 2 connections each, 3 generations, 2 turns, 2 failures; 404,317 | `OneLive`, `RepliesReachOrigin`, `NoStrayTurn`, `Settled`, `ApplyEnds`, `RetirementEnds` |
| `settings_save` (`MCSettingsSave`) | a page and a panel, 3 values of which one is invalid, 2 edits, 1 reload, pairs of disturbances; 222,932 | `Honest`, `AppliedOnce`, `OthersKept`, `FormsRest` |
| `voice` (`MCVoice`) | 2 spoken turns of 2 sentences, four mixes of disturbances; 1,325,701 | `MicrophoneFree`, `OwnTurn`, `VoiceRests` |
| `proactive` (`MCProactive`) | 2 transports, 3 ticks, 1 user turn, 1 alert, 3 texts, one failed dispatch or crash; 813,359 | `NotTwice`, `FollowupsBounded`, `RetriesYield`, `Settles` |
| `proactive_desktop` (`MCProactiveDesktop`) | a role whose only target is the desktop | `CommittedIsSent` is violated (section 4.2) |

Every module with state but `AtomicSettings` and `ConversationLog`, which their refinements type, has
a `TypeOK` (`FilesTypeOK` in `ConfigTransaction`). All are theorems, and no run repeats them.

**Why these bounds.** Two values of a file tell a pair from a mixture; the texts are compared
for equality only. Three generations are one draining, one current and one being prepared, and
the smallest number at which a runner waits for a runner that itself waits. Three operations are
a parent, its detached child and a bystander. Two jobs can be due in one tick while one of them
is edited or cancelled; four ticks of a period of 2 hold two cron occurrences, an early start
(lead 1), one on time (lead 0) and a misfire older than the grace of 1, before and after a restart. Two desktop turns
are needed for a late cleanup (the previous one still emitting, the next one registered), and a
third turn of another transport for a queue at the lock behind both. Two cancellations at once
are beyond this instance; the theorem `RepliedOnceCorrect` covers any number. Five messages are two
turns and a push, enough for a window in the memory, a newer one in a draft and an undo between;
two connections and three generations are a connection removed, replaced and configured again
before its retirement ran, and two failures are one that starts a rollback and one inside it. Two
edits of one editor are an attempt under way and a draft behind it, with a third value to tell
a stale one from both; 3 edits (3,570,101 states, without `FormsRest`), 2 reloads (708,982)
and two settings pages without a crash (482,224) were checked too. Two
spoken turns are the one interrupted and the one that interrupts, two sentences one that plays and
one that waits. Three ticks are the message, one that repeats it and one that may repeat the
repetition; the instances with a content item and every kind of fault (1,998,711 states), without
faults but with content and alert, with three transports and with two user turns were checked
too, and are kept out of the run for their length.

**Bounds named in the models:** `MaxGen`, `ended` (an operation runs once), `MaxTime`, `used`
(an interrupt request is made once), the finite sets of jobs and turns (an id is given out once),
`MaxMessages`, `MaxConns`, `MaxWork`, `MaxFailures`, `MaxEdits`, `MaxLoads`, `MaxDrains`,
`MaxSentences`, `MaxTicks`, `MaxTurns`, `MaxTexts`, `MaxFaults`; in `Voice`, `Room` (at most one
command on its way when another follows) and `Quiet` (a message between windows takes less
than the 300 ms of the press threshold), one input source, and no lost window during a
microphone test. `Disturbances` of `settings_save` never puts a crash together with the
onboarding (section 4.4). `VoiceRests` names the three states in which the pet waits for nothing
(`Overtaken`, `Silenced`, `Ownerless`), `ApplyEnds` a retained connection that a failed restart left
open, and `RetirementEnds` speaks of behaviours whose queue of replies is empty again and again.
`Remembered` and `WritesCurrent` speak of behaviours without a failing desktop writer, `CacheMirrors` of those
in which no writer is cancelled or fails, `AcceptedDurable` of those in which the job file can
be read, `MemoryIsFile` of those in which it can be written, `OccurrenceOnce` of those in which it can
be written and no turn is interrupted, `Honest` of forms, `NotTwice` and
`FollowupsBounded` of those without a crash or a transport that sends and reports a failure: each
exclusion is a case where the code does otherwise, described below.

**Deadlock** is checked in the runs of `ConfigTransaction` and, with an exit that stutters, in
`runtime_generations_end`. `runtime_generations` leaves it off: with a slow close a shutdown may
wait for ever (section 4.3). The clock of `Scheduler` stops at `MaxTime`, and the turns, messages,
edits, presses and ticks of the other modules are used up, so they come to rest with nothing wrong;
`DueFires`, `TurnsEnd`, `LockServed`, `ApplyEnds`, `RetirementEnds`, `FormsRest`, `VoiceRests` and
`Settles` say what must not be left behind there.

### 4.1 Fairness

Nothing makes a user send work, apply settings, close the bridge or cancel, and nothing makes a
fault happen; what is fair is only what the code has already scheduled.

- `RuntimeGenerations`: weak fairness of releases (accepted work ends: requests to models time
  out, iterations are bounded), of retirement tasks, closes, stopped loops (they finish the tick
  they are in) and of each stage of an apply and of a shutdown: each is a task of the event loop
  whose condition, once true, stays true until it is taken.
- `Scheduler`: weak fairness of `Boot`, of `Tick` (the loop sleeps one second at most) and of
  each job's task (the turn or push it awaits ends).
- `RoleTurns`: one weak fairness of `Progress`: the event loop never rests while a task is
  ready. `Raise` is not part of it, so no turn is helped out of the queue by failing; only
  `Enter` and a delivered cancellation take it out.
- `Sessions`: weak fairness of the maintenance task (`Capture`, and the stages of `Work`) and of
  the lock's hand-over: both are tasks of the event loop. No writer is made to write.
- `ChannelHandover`: weak fairness of each step of a handover, of the turns somebody waits for
  (those of older generations, and all while the barrier drains), of the dispatcher, which takes one
  reply after the other, and of retirement tasks. Turns nobody waits for may go on for ever, and
  then fill the queue that a retirement waits for.
- `SettingsSave`: weak fairness of each React effect and each continuation of an editor and of the
  request at the head of the apply lock. Nobody is made to edit, retry or reload.
- `Voice`: weak fairness of the capture window's and the chat turn's steps (`CaptureStep`,
  `TurnStep`: tasks, lines of output and IPC messages already under way) and of two timers, the press threshold and
  the longest recording. The user releases nothing.
- `Proactive`: weak fairness of a tick that has begun (`TickStep`), of a turn that has arrived
  (`TurnStep`), of the retry task (`RetryStep`: its delays are finite) and of the end of a stopped
  loop. No tick is made to begin: the gate may always say no.

### 4.2 Where the code and its words disagree

Two runs end with a counterexample, and `findings` in `PROJECT.json` quotes the lines.

`proactive_desktop`.
A proactive message is stored in the role's session before its transport is asked, and
`PushToolOutboundPort` then tells the transport that it is already persisted
(`agent/turns/outbound.py:89`) without the `push_delivery_key` of that row. The desktop transport
refuses such a message (`desktop_bridge/app_service.py:67`), so for a role whose target is the desktop
the row stays in the session, the tick fails, nothing is announced, no delivery is recorded, and
the next tick may store the message again - although `desktop_bridge/service.py:345` registers
that transport for proactive messages and a scheduled job, which passes the key, is delivered.

`sessions_cut`. A desktop writer remembers the length of the cached session, puts its message there
and waits for the write lock; if its write raises, it cuts the cache back to that length
(`desktop_bridge/app_service.py:95,143`). A channel turn or a push that has come meanwhile leaves
the cache with it - under a comment that says "Other writers can append while persistence or runtime
effects await." Their writers still store them, so the rows are ahead of the cache, and the next
`save` of the session finds the difference and rewrites the rows from the cache
(`session/manager/persistence.py:132,243`): the reply of a finished turn is gone, and a cursor that had
passed it counts rows that do not exist. `Remembered`, `WritesCurrent` and `ImplementsLog` were first
stated without this exclusion; the attempt to prove them met the case.

### 4.3 Further counterexamples

Each of these `.cfg` files states one property that the code does not have and ends with the
behaviour that shows it: `tlc -workers 2 -config <cfg> <module>`.

| `.cfg` | property | what happens, and what the source says |
|---|---|---|
| `MCConfigTransactionEdits` | `RestoresLastCommitted` | a commit fails, its rollback fails too, the journal stays "prepared" and the process goes on; role edits saved after that are overwritten by the journal's older snapshot at the next start (`config_transaction.py:24`: "Restores the last committed files before runtime configuration is loaded.") |
| `MCRuntimeGenerationsGap` | `OneBackground` | a generation without background loops has no runner to wait for, so the loops of its successor start while a tick of its predecessor still runs (`background.py:63`: "Transfers scheduling only after the previous accepted work finishes.") |
| `MCRuntimeGenerationsLeak` | `ShutdownEnds` | the bridge closes while the desktop service of a replaced generation awaits its voice recovery: `run_cleanup_steps` stops at the `CancelledError`, the lease is never released and shutdown waits for it for ever |
| `MCSchedulerInterrupt` | `StartedOnce` | `/stop` of a scheduled turn is taken for a shutdown (`scheduler.py:589`): the job is neither rescheduled nor removed, and the next tick starts the stopped occurrence again |
| `MCSchedulerLoad` | `AcceptedOnDisk` | the job list could not be read (`scheduler.py:287`), the service goes on with an empty one, and the first new job overwrites the file |
| `MCRoleTurnsDone` | `DoneOwn` | a desktop turn waiting at the role lock hears the `TurnCommitted` of the turn ahead of it (`chat_service.py:488`); when its own turn then fails it reports `chat.done` with the other reply (`chat_completion.py:16`: "... without inventing a persisted reply.") |
| `MCSessionsUndo` | `UndoesLatest` | a desktop turn stores its user message before it runs, a channel turn or a push comes in between, and undo, which looks for a reply directly behind a user message (`undo_selection.py:32`), takes back the older turn (`session/manager/undo.py:18`: "Delete the latest committed passive turn ...") |
| `MCChannelHandoverRetire` | `StillRetiring` | a stop that fails at a retirement ends the task (`channel_host.py:257`): the other connections of its batch stay connected and retired until shutdown (`:261` speaks of "independent channels to proceed") |
| `MCChannelHandoverRestore` | `OnlyWhileConfigured` | a retired connection that was to be added again is restarted by the rollback with its intake open; a turn that arrives then is accepted (`message_push.py:84`: "Restricts a removed transport to tasks accepted while it was configured.") |
| `MCSettingsSaveRest` | `PanelsRest` | a plugin panel's success handler sets the draft to what was sent, whatever was typed since (`usePluginConfigController.ts:59`); with a second value queued behind the first, the two are saved in turn without end, where the settings page it mirrors keeps the edited draft |
| `MCVoiceChunk` | `VoiceEnds` | nothing is disturbed, but the chat turn ends at once: `voice.reply.started` and `voice.tts.finished` come in the chunk of output that accepts the text and are heard in the state "sending" (`bridgeClient.ts:158-185`); `replyFinished` takes the turn from the controller (`controller.ts:197`), `chat_accepted` follows, and the pet waits for a reply that is over until the next press |
| `MCVoiceLate` | `OthersEnd` | speech that is finished after its chat turn is held back by the emitter of that turn (`chat_service.py:682`), whose list was sent before: `voice.tts.finished` never arrives and the pet keeps speaking (`tts_coordinator.py:85`: "... lets the worker drain in the background.") |
| `MCVoiceEscape` | `OthersEnd` | a cancellation while a press is pending or a recording runs: the transition table has no reset there, the press loses its owner and no later press is accepted (`controller.ts:156`) |
| `MCVoiceStop` | `OthersEnd` | `chat.cancel` between the end of the answer and the end of its runner cancels the synthesis without `voice.tts.finished` |
| `MCProactiveScene` | `WaitingSceneKept` | a desktop message starts a fresh chain of follow-ups when it arrives, and the observation of the exchange before it closes that chain before its turn has the lock (`scene_followup_runtime.py:45`: "Starts a fresh follow-up chain from the latest user interaction.") |

### 4.4 Observations

Smaller things met while modelling; no property is about them.

*Turns and jobs.* Recovery (`scheduler.py:440`) moves a soft cron job that ran ahead of its time and
was rescheduled back to the occurrence that ran, so `OccurrenceOnce` leaves soft cron jobs out. `request_interrupt` (`interrupts.py:35`) cancels the turn registered last, which may still
wait at the lock while an older turn executes, and the older one has no registration of its own
afterwards; "a stop ends the executing turn" is therefore not a property of this code. A snapshot
taken by a cancellation stays resumable until the cancelled turn is cleaned up
(`interrupts.py:123`), and a resumed turn that ends with a provider error drops a newer snapshot
(`processing.py:178`). A channel's `/stop` of a desktop turn ends its runner without a terminal event
(`chat_service.py:704`). A background loop that raises ends the gather (`background.py:87`) and gives
the lease back while its siblings still run. `RoleRuntimeRegistry.close` and `close_all` are not
called by the program, though `docs/knowledge/flows/startup-and-shutdown.md` describes the closing of
role runtimes.

*Sessions.* A draft captured while a writer waits, or after a cancelled one, is refused
as stale although its prefix has not changed, after a cancellation until the next restart. A crash
between the Markdown and the cursor writes the window's messages again, in a bigger window if
one has come since, which its `source_ref` does not recognise. An unlocked save may store a turn
that still waits for the lock and that a queued undo then removes.

*Handover.* A candidate whose cleanup failed is forgotten, and a later apply connects its
successor beside it; an unchanged configuration reuses a connection that is dead;
`channel_host.py:242` replaces the failures reported before, so it is no longer reported either. A
retirement waits for `Queue.join()` of the whole outbound queue (`reload.py:168`), so on a busy
system replies of later generations may put off the stop of a removed connection for ever
(`RetirementEnds` assumes that the queue is empty again and again). A retained connection that a
failed restart left with its intake open accepts turns behind the barrier, which then waits for them
(`ApplyEnds` names it in `Strays`).

*Settings.* The generation starts at 1 in every process, so after a crash a stale
`expected_generation` may match again and the onboarding's write passes the check; the memo is lost
too, and a retry of the same operation id commits again (`docs/knowledge/modules/desktop-and-bridge.md:55`
promises otherwise without that exception). A plugin's save raises the generation, so the page's
next save is refused and needs a reload. A panel that reloads while its timed-out save still runs
shows the old value. A settings page whose reload is overtaken by a retried save shows the older
value; its next save is refused, unless a crash has set the generation back. In the model an outcome
waits for a reload under way.

*Voice.* A player that is cancelled while it decodes still plays that sentence. An error of the
microphone test arrives as an error of the recording under way. A capture window lost during a test
leaves the test active, and its timer may stop a recording that began meanwhile. A barge-in may be
refused as busy while the turn before it is cleaned up. A controller without a turn cancels no
playback (`playback.ts:84`). `finish_current_sentence_then_idle` and
`stopAfterCurrent` are never reached.

*Proactive.* Every tick past the gate, even one that stays silent, ends the retries of the message
before it, and a dispatch that raises ends them for the transports not yet tried; a drift message
does not, and asks no duplicate guard; a drift run whose push failed may push again. Alerts may be
discarded by the tools of the judge when no content is valid. Exceptions while a tick fetches or judges
have no transition of their own. A restart between the transport and `mark_delivery` delivers
again; a failed dispatch leaves a row that was never sent. A desktop message that arrives during a
tick's acknowledgements has its fresh chain advanced by the older follow-up, and a tick that was
chosen as a follow-up sends after the scene was closed. The `busy` gate cannot be true, since tick
and turn hold one lock.

*Not modelled.* Two calls at once on one MCP stdio client read each other's answers
(`mcp/client.py:285`). Cancellations share the single mutation lane of the dispatcher
(`request_dispatcher.py:82`). An outbound callback that failed half way is called again, then with a
fallback text (`bus/queue.py:98`).

## 5. What is proved

For every value of the constants, under their assumptions: `NoPayloadIsNoRoles` (the absent
payload is not a payload), `Parameters` (at least one generation; kinds of work disjoint),
`TimesAreTimes`, `FormsAreForms` and `FaultsAreFaults` (natural times, positive period and interval,
kinds of job, named faults), `Origins` (turns of
different origin are different), `SessionAssumption` (natural bounds, a window of at least one message),
`HandoverAssumption` (finitely many channels, at least one generation and connection), `VoiceBounds`
(at least one turn and sentence; no lost window during a microphone test), `ProactiveBounds` (at least
one transport, none twice; alerts are not contents; items are not numbers, which stand for texts),
`SettingsAssumption` (pages, panels, switch and onboarding are different writers, and no plugin is
named like the form's part; values are numbers, the one at the start is valid).
The models have no fairness in these theorems: all are safety. Each proof module starts with the
conjuncts of its `IInv`; TLC held each of them on the instance of its run before it was proved.

**ConfigTransaction.** `Recoverable` is not inductive: it says nothing of what a rollback is
about to write. `StepKnows` adds what each step knows - at the commit point the files *are* the
requested pair, and a journal is removed only when the files are what it would restore.
`CommitInv == FilesTypeOK /\ StepKnows /\ Recoverable` is preserved by every action, and under it every
step maps to a step or a stutter of `AtomicSettings` (`ImplementsAtomicSettings`). The proofs are the
first half of `SettingsProofs`.

**RuntimeGenerations.** `IInv` adds `ApplyInUp` (an apply runs only while the bridge is up, and a
handover keeps admission closed), `InOrder` (only replaced generations are retired) and
`DrainedQuiet` (what the barrier found idle stays idle) to `NoUseAfterClose` and
`PublishedOpen`: new work pins the published generation, which must be open, which it is
because only replaced ones are retired. `SwitchedQuietly` follows from `DrainedQuiet` when all
are drained. `OneBackgroundCorrect` assumes that every generation has loops - without that the
property is false (`MCRuntimeGenerationsGap`, section 4.3) - and rests on `LoopsInOrder`: a
runner waits for its predecessor.

**Scheduler.** `IInv` adds `Known` (an id nobody was given is nowhere) and `Held` (a task that was
not cancelled holds the very object the list holds) to `DeletedStays`: `Held` is why the object a
task writes back cannot bring a cancelled or edited job back. `AcceptedDurable` needs `InMemory`
beside it, `MemoryIsFile` what a start leaves. `OccurrenceOnce` speaks of steps; its invariant says
that every occurrence a job has started lies before the next one on disk, unless its task is at it
(`Passed` with `Over`), that a hard cron job has started at its time or later (`Reached`), that a
job nobody was given has started nothing (`Unstarted`), and that what memory holds is on disk
(`Copied`), so that a restart finds it. A run moves its job past what was started
(`RescheduledLate`), a stop takes back exactly what it cuts off, and the time that recovery computes
anew is, by `Reached`, later than what has run (`RecoveredLate`). The arithmetic is in
`NextCronLate` and `AdvanceLate`.

**RoleTurns.** `Holds` - a turn is past the lock exactly if it is the recorded holder - gives
`Serial`. `DesktopCancellable` is inductive with the types. `PartialLast` - a partial reply is
saved after its turn is over and only beside no other - gives `RepliedOnce` for any number of
concurrent cancellations. `OwnRegistration` is a property of single steps.

**Sessions.** Everything rests on which message may be where: `CleanInv` says that the cache holds
different messages already created (`Holds`), that a waiter's messages are in the cache or were taken
out of it and are in nobody else's hands (`Waiters`), and that a draft under way, if rows and cursor
still agree with it, is exactly the window (`Drafted`). `Behind` is `Remembered` itself. It holds while
no desktop writer fails, and then every step is one of `ConversationLog`'s four (`LogRefinement`):
an undo removes the two rows of one turn, a save adds rows at the end. `CacheMirrors` needs more, and
holds of fewer behaviours: messages wait in the order of their numbers (`InLine`), the cache is in
that order too (`Rising`), and its part behind the rows is told by somebody in the queue (`Mirrors`).
So what the head of the queue stores is what comes first behind the rows (`OldestFirst`). The
operators `Without`, `SubSeq` and `Append` get lemmas of their own. `Without` is a recursive function:
what it returns is proved by the least number at which it would be wrong (`Least`, `Induction`),
which follows from the well-foundedness of `<` with sets in the place of predicates.

**ChannelHandover.** `OneLive` says nothing of why a successor finds its predecessor down. `Upward`
does: what is up is published, retained, or a candidate being tried whose predecessor was stopped.
That in turn needs what each phase has done so far (`Progress`), what it leaves alone (`Phases`), and
that a connection is published once and never after it was taken away (`Objects`).
`RepliesReachOrigin` follows from `Guarded` (what is taken away from under accepted turns is taken
away behind the barrier), `Waiting` (a retirement waits for every turn its connections may have
accepted) and `Ripe` (one that waits for the queue of replies has its turns behind it, and one that
waits for the lock their replies too). `Kept` - what serves goes on serving from one apply to the next unless it was stopped or
reported - is `Settled` carried through the phases.

**SettingsSave.** The second half of `SettingsProofs`. `SaveInv` is the types, the discipline of
each draft queue (`Disciplined`: it runs exactly while its attempt is in flight; what it holds back
is newer), `Single` (of an editor at most one request at the lock has somebody who waits for it) and
`Prepared` (what is prepared is what the head of the lock makes of the text *now*, and its operation
is not in the memo). `OthersKept` is `Prepared` at a commit, and at a crash that comes after the files
of a commit were replaced. `AppliedOnce` adds that every committed operation is remembered, and
once (`Remembered`, `Unique`); its theorem assumes `EnoughMemo`, a memo with room for all operations
of all writers (64 in the code): an operation is forgotten after that many others, and a retry of
it would commit again. `Honest` rests on `FormsKnow`: whatever a page has read, saved or is told of a
generation is the text of that generation, and stays so unless somebody moves the generation on
(`Current`). While a crash is still possible that is false of a page with other writers, because the
next process counts generations from 1 again; the theorem assumes `Separate`, which says of
`Disturbances` that a crash comes neither beside the onboarding nor beside a second page - what the run
assumes too, and section 4.4 describes. Any number of pages and panels, edits, reloads, retries and
timeouts is covered. `MayDrain` bounds the operation ids of one editor, and `FormsKnow` needs them
to grow.

**Voice.** `Talking` lists, capture by capture, the eight ways in which recorder, commands, answers
and microphone may stand while the recorder knows the capture, and says that afterwards the last
command is a cancel; with `Operating` (which operation the controller awaits in which state)
that is `MicrophoneFree`. `OwnTurn` is `Selected`: the player's turn is the controller's (`Own`),
or was over before its text was known to be accepted (`Over`). That needs `Ordered`: the backend says
nothing of a turn before its text was sent, and the answer to the text comes first, so no frame of a
turn can reach the player before the controller has chosen it. What comes in one chunk with the answer is handled
before the controller goes on from it, which is how `Over` arises. `Pressing` keeps a turn id for the press.

**Proactive.** `Locks` says who is past the role lock. `Repeats` - only a message nothing has
followed is repeated, on transports after those it was tried on - gives the action property
`RetriesYield`. `Recorded` (what was shown has its key among the deliveries) and `Acknowledged`
(what was shown and cited is acknowledged, a tick that commits aside) give `NotTwice`; `Counted`
(the chain's attempts count the follow-ups sent) gives `FollowupsBounded`.

**Only model-checked:** everything with fairness (`AdmissionReopens`, `RetiredCloses`,
`ShutdownEnds`, `DueFires`, `TurnsEnd`, `LockServed`, `ApplyEnds`,
`RetirementEnds`, `FormsRest`, `VoiceRests`, `Settles`), which the proof system does not reach, ENABLED included. Every invariant and every action
property of a passing run is a theorem, and both refinements are. What a theorem assumes beyond its
module's `ASSUME` is named with it above: loops in every generation (`OneBackground`), a memo with room
(`AppliedOnce`), a crash beside no other writer (`Honest`). No module declares a RECURSIVE operator.

## 6. What is not modelled

The table of 1.3 lists the parts; the reasons are of four kinds. *Planned:* the lanes of the
dispatcher, outbound delivery, MCP clients, subagents and shell tasks (section 2). *Not a protocol:*
retrieval, embeddings, scores, prompts, what a model answers, conversation projections, hooks of
plugins. *Outside:* remote chat services, model providers, voice providers. *User interface and
tooling:* the renderer but for its settings editors and capture window, windows and updates of
Electron, benchmarks, scripts, documentation.

Inside the modelled parts these are left out: the content of files and messages; torn writes of
one file (excluded by the rename) and loss of unsynced data at a power cut; the sibling loops of
a loop that raised; cron parsing and time zones; the steps inside reasoning; creating, listing and
deleting sessions; what a model writes into a memory draft; role model updates that travel with the settings form; voice cloning, devices and key codes; the feed
poller, the proactive sources' own tools and drift's files; jobs' turns that interrupt a proactive
retry; the shutdown of the chat service; work of a role that takes the lock without registering a turn
(proactive ticks, instant jobs), which only lengthens the wait of others.
