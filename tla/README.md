# Kai Desktop, specified in TLA+

TLA+ modules, TLC configurations and TLAPS proofs for Kai Desktop, an Electron
application that runs AI agents on a user's machine. The specification is written
from the TypeScript sources; paths below are relative to `electron/` unless they
start with `shared/` or `renderer/` (the repository's `src/`).

- [1. Inventory](#1-inventory)
- [2. Plan](#2-plan)
- [3. Modules and the code they model](#3-modules-and-the-code-they-model)
- [4. Runs](#4-runs)
- [5. Fairness](#5-fairness)
- [6. Proofs](#6-proofs)
- [7. What the runs found](#7-what-the-runs-found)
- [8. Not modelled](#8-not-modelled)
- [9. Running it](#9-running-it)

## 1. Inventory

One main process (Node inside Electron) owns all state. It serves renderer windows,
a web server, a command line client and plugin processes through IPC handlers.
JavaScript runs one turn at a time, so interleaving happens at `await`s, timers and
callbacks, and it is there that state read earlier is used later. Most state is JSON
files under `~/.kai`, written whole by a rename (`utils/atomic-write.ts`), which
survive crashes; most control state (maps of runs, timers, guards) does not.

| Component | State | Operations | What is hard | What makes it correct |
|---|---|---|---|---|
| OTA overlay: `ota/rollback.ts`, `ota/bootstrap.ts`, `applyOtaUpdate` | directories `current`, `staging`, `rollback`; `ota-meta.json` (crash counter, last stable version); floor file | count a boot, wipe, load, arm the stability timer, reset, apply, manual rollback | the process dies between any two file operations; any of them may throw; shells are replaced below it | a crash loop ends; a good overlay is kept; a failed apply loses nothing; withdrawn versions stay away |
| OTA downloads: `checkForOtaUpdate`, `downloadOtaUpdate` | `staging/`, `otaReady`, the periodic check | check, fetch, extract, move up, verify, apply | two downloads, and a download and an apply, in one directory across awaits | what is installed is whole, newer and what was announced; an offered update arrives |
| Agents: `ipc/agents.ts`, `terminal/task-terminal-manager.ts`, `agent/task-completion.ts` | `agents/<id>.json`, `sessions` of the terminal manager, `startingAgents`, Mastra streams | assign, unassign, start, stop, delete, exit callback, reconciler, reviews, restarts | starts are in two halves; exits and tool calls of old runs arrive late | no terminal without an owner; files point at each other; only the current run moves its task |
| Tasks: `ipc/tasks.ts`, `shared/task-state-machine.ts` | `tasks/<id>.json` | create, move, relink, delete | read-modify-write across awaits | status changes follow the state machine and are not undone |
| Autopilot: `agent/task-dispatcher.ts`, `ipc/orchestrator.ts`, `agent/task-unblocker.ts`, `agent/reviewer-selection.ts` | `running`, `config`, the timer, `tickInFlight`, a tick's lists | tick in three phases, toggle, set-config, config change | ticks time out while their bodies go on; lists are stale when used | one body at a time; a running dispatcher always has a next tick; caps; work that waits gets tried |
| Full update and ledger: `ipc/auto-update.ts`, `ipc/post-update-ledger.ts` | a ledger of plugin cleanup owed | record, run, forget | crash between update and cleanup | each cleanup runs, and is not retried without end |
| Conversation streams: `ipc/agent.ts`, `agent/*` | active streams per conversation, tokens of turns, persisted messages | send, supersede, stop, restart for a plan, compaction, retries | a turn goes on unwinding after its successor has started; tokens arrive after an abort | one turn is current; the stored conversation is a prefix of what was streamed |
| Raced answers: `tools/ask-user.ts`, the rendezvous in `ipc/agent.ts`, `ipc/tool-approval.ts` | open questions, stashed answers, a handoff and a claimant per conversation, tombstones, deliveries under way | ask, answer from any surface, abort, hand off, claim, deliver, retry, recover as an alert | an answer comes before, while or after its turn is aborted, and the turn that took over may have started, claimed, failed, been stopped or ended by then | an answer is handed over at most once, to the turn that took over, or to the conversation; never to a turn after a Stop; none is lost |
| Inject queue: `agent/inject-queue.ts`, `agent/prepare-step-inject.ts` | pending messages per conversation, applied ones per step | enqueue, drain, requeue | a step drains while the user enqueues or cancels | every message is seen exactly once, in order |
| Tool approval: `ipc/tool-approval.ts` | pending approvals, grants | ask, answer, time out, abort | answers race timeouts and duplicates | each waiter is settled exactly once |
| Conversation store: `ipc/conversation-store.ts` | an index and a file per conversation | load, migrate, save, delete | late saves of deleted conversations | a deleted conversation does not come back |
| Alerts: `ipc/alerts.ts`, `ipc/alert-store.ts` | alert files, recovered answers | create, answer, dismiss, resume the conversation, reopen | an answer starts a turn in the background, which may fail before or after the answer is shown | one answer of an alert is used; a failed one can be given again |
| Automations: `automations/engine.ts`, `actions.ts`, `event-bus.ts` | rules, runs in flight, an order of turns per conversation | event, fire, limit, run an agent, continue | rules trigger rules; a run meets another run, an alert's answer or an interactive turn in its conversation | no endless loop; limits hold; turns of a conversation exclude each other and keep their order |
| Plugins: `plugins/process/*` | the callback table of a plugin's process, the stubs and providers of the host, two channels between them | hand over, adopt, settle, release, sweep; start, crash, restart | a garbage collector decides when a callback dies, and the channels are not ordered with respect to each other | no callback is freed while the host may call it; none is leaked |
| Browser: `browser/manager.ts`, `config-transition.ts`, `session-operations.ts`, `action-queue.ts`, `assistant-runs.ts` | settings on disk and as published, generations, requests to change, profiles in use, Chromium operations under way, runs of the assistant | write settings, drain, swap the profile, roll back, recover; admit a turn, run an operation | native operations cannot be cancelled; settings change again while a change is served, the window goes, or Chromium does not answer | no operation and no turn crosses profiles; the newest settings take effect |
| Sub-agents, computer use, MCP, realtime, dictation, audio, web server, local bridge, CLI, renderer, diagnostics | see `PROJECT.json` | | mostly I/O | |

Interactions that matter here: the dispatcher calls `assignTaskToAgent` and
`startAgentRun` of the agents; exits of terminals call back into agents and tasks;
reviews and unblocking call models and schedule restarts; a download of the updater
feeds the apply; the boot reads what the apply and the last run of the process left;
the settings watcher feeds both the dispatcher and the browser, and a turn of the
assistant holds a capability for the browser that a change of the settings revokes; a
question that outlives its turn reaches the next turn, or an alert.

## 2. Plan

Most important first: what can lose a user's installation, then what can lose or
duplicate a user's work, then the rest.

| Step | Modules | State |
|---|---|---|
| 1 | `OtaOverlay`: boots, crashes, apply, rollback; `OtaOverlayProofs` | done |
| 2 | `OtaStaging`: downloads and applies on one staging directory | done |
| 3 | `AgentTasks`: agents, tasks and runs | done |
| 4 | `TaskDispatcher`: extends `AgentTasks` with the autopilot | done |
| 5 | `OverlayLifecycle`: what the overlay promises; `OtaOverlay` refines it, checked and proved (in `OtaOverlayProofs`) | done |
| 6 | `BrowserProfile`: the settings transitions of the browser with the queues and the runs of the assistant they interrupt | done |
| 7 | `RacedAnswers`: questions whose turn ends before they are answered | done |
| 8 | `PluginCallbacks`: who owns the callbacks of a plugin | done |
| 9 | `OtaStagingProofs`, `AgentTasksProofs` | done |
| 10 | `AutomationTurns`: alerts and the turns of automations, with the inject queue they share with interactive turns | done |
| 11 | `TaskDispatcherProofs`: one tick body at a time, and ticks that never stop coming | done |
| 12 | `BrowserProfileProofs`: all four safety invariants of `BrowserProfile` | done |
| 13 | `PluginCallbacksProofs`, `RacedAnswersProofs`: all safety properties of the two modules' runs | done |
| 14 | `AutomationTurnsProofs`: all safety invariants of `AutomationTurns` | done |
| 15 | `TaskDispatcherProofs`: the types of `TaskDispatcher`, and what it leaves of the promises of `AgentTasks` | done |
| 16 | `AnswerOnce`: what the answers promise; `RacedAnswers` refines it, checked and proved (in `RacedAnswersProofs`) | done |
| 17 | The ledger of plugin cleanup, the life cycle of a plugin's process, the conversation store, sub-agents | later |
| 18 | Pure algorithms against a reference: the text patch planner of dictation, compaction cut points | later |

`OverlayLifecycle` says nothing of staging, so `OtaStaging` does not refine it: the two
meet in `DownloadOtaUpdate` of `OtaOverlay`, which takes from `OtaStaging` that what an
apply finds in `staging/` is whole. None of the modules declares a RECURSIVE operator, so
all of them can be proved about.

## 3. Modules and the code they model

### OtaOverlay

State on disk: `current`, `staged`, `previous` are the directories `current/`,
`staging/`, `rollback/` (an overlay is a version and whether its files are all there
and unchanged); `crashCount` and `lastStable` are fields of `ota-meta.json`; `floor` is
the highest version ever applied; `shell` is the installed application. In memory:
`phase`, the point the process has reached, `bootCount`, `code`, `overlayActive`,
`timer`. The remaining variables record history, and no guard reads them.

| Actions | Code |
|---|---|
| `BootWithOverlay`, `BootWithoutOverlay`, `WipeOverlay`, `WipeFails`, `ForgetOverlay` | `checkAndHandleRollback`, one step per file operation |
| `LoadOverlay`, `LoadBundled` | `resolveCodePaths` with all its fall-backs |
| `SignalAppRunning`, `StableTimerFires`, `SignalGracefulQuit`, `QuitVetoed`, `Exit` | `signalAppRunning`, `signalGracefulQuit`, `before-quit` |
| `DownloadOtaUpdate` | `downloadOtaUpdate`, by its result only (see `OtaStaging`) |
| `ApplyOtaUpdate`, then clear, swap out, swap in, record the floor | `applyOtaUpdate`; a step that fails goes through `RecoverFailedApply`, its catch |
| the manual rollback, in two steps | `performRollback` |
| `Crash`, `ReplaceShell` | the operating system and the installer |

A fault is a file operation that throws; where the code swallows the exception
(`writeMeta`, the floor) the action goes on without the effect. A recursive removal
that throws leaves the directory as it was or damaged.

### OtaStaging

The staging directory is what `manifest` and `files` say about it: the version each is
of, none, or a mixture. Each download has a program counter that stops at every `await`
of `downloadOtaUpdate` and `checkForOtaUpdate`, and the renames that move the extracted
files up are split where a crash can fall between them. Verification looks at what
is in the directory at that moment, not at what the download put there. All versions
are compatible with the one shell, and an apply is one step: its inner steps, and the
shells, are the subject of `OtaOverlay`.

### AgentTasks

`agent` and `task` are the two kinds of files. `session[s]` is a run: `starting` while
`startAgentRun` awaits the terminal or the import of Mastra, `live`, `told` once
something killed or aborted it, then `gone`; `seen` is the task as the first
half of a start read it. `reviews` counts reviews in flight, `assessed` holds task
records read before the complexity assessment, `due` the restarts waiting for
their timer.

| Actions | Code |
|---|---|
| `AssignTask`, `UnassignTask` | `assignTaskToAgent`, `agents:unassign-task` |
| `Start` (first half), `MastraImported`, `PtyCreated`, `PtyDiscarded` (second half) | `startAgentRun`, `startAgentRunLocked` |
| `SessionExits`, `StaleSessionExits`, `StreamEnds` | the exit callback of a terminal, the end of the Mastra function |
| `Promote`, `Block` | the tools `promote_task`, `block_task`, behind `isOwningTaskRun` |
| `Reconcile` | the reconciler, every 5 s |
| review steps | `startReviewProcess`, `assessComplexity` |
| user steps | `agents:*` and `tasks:*` handlers: stop, delete, create, move, relink |
| `RestartApp` | the application ends and starts again: files stay, runs do not |

What a handler writes within one turn of the event loop is one step. The crash
between its two writes is therefore not modelled, nor are archived tasks, agents with autoStart
off, and comments. Of what `tasks:update` may write, `UpdateTask` has the status and the
reviewers; `agents:update` is left out (section 8). The counter of crashes of one agent
appears as the choice between `idle` and `error`.

### TaskDispatcher

Extends `AgentTasks`. `running`, `enabled` (the dispatcher's `config.enabled`),
`persisted` (desktop.json), `handled` (the settings `handleConfigChanged` last saw),
`timer`, `inFlight` (`tickInFlight`), `attempts` (unblock attempts per task). A tick's
`body` carries the lists it read at its start (`pairs`, `reviewers`, `blocked`, the free
`slots`) and goes through `scoring`, `dispatch`, `assigned`, `starting`, `reviewers`,
`selecting`, `unblock`, `asking`; `late` says that its two minutes are over: `tick()` has
returned, the body has not. Between `assigned` and the start nothing else happens
(`InTurn`), as in the code. Scores of pairs are abstracted to "the model may choose
any order"; a failing `persist()` is not modelled. When the bound on sessions is
reached a start fails as a failed spawn does, so the rollback is reached in every run.

### OverlayLifecycle

What the overlay promises, without directories, boots or phases: an update replaces
the overlay in one step and is newer than everything before; one failed operation loses
nothing; overlay code that never proves itself is loaded a bounded number of times.
`OtaOverlay` implements it (`ImplementsLifecycle`, an `INSTANCE` with the refinement
mapping of section 6): its three renames and the record of the floor are one `Install`, or
an `Interrupt` when the process dies, or two operations fail, between them.

### BrowserProfile

`persisted` and `snapshot` are desktop.json and the settings last published; `generation`,
`pendingGeneration`, `lastObserved`, `lastApplied` and `recovery` belong to the
coordinator; `mgr`, `transitions`, `draining`, `suspended`, `wired` and `native` to the
manager and its queue of Chromium operations per profile; `tools`, `run`, `tabQueue` and
`active` are what the assistant has.

| Actions | Code |
|---|---|
| `WriteSettings`, `EditSettingsFile`, `ReloadSettings` | `publishBrowserConfig`, another program, the debounced watcher |
| `Enqueue`, `Handle` | `handleConfig` up to its first await: the manager preempts, the request joins `profileMutationTail` |
| `BeginDrain`, `Commit`, `FailTransition` | `applyBrowserConfig` and what the coordinator does with its result |
| `RecoveryTimer` | `attemptRecovery`, and scheduling it again |
| `NativeStarts`, `NativeSkipped`, `NativeSettles`, `NativeTimesOut` | `runBrowserSessionOperation` |
| `CreateWindow`, `CloseWindow` | the first window creates the manager; a closed one takes the tools and the runs of the assistant with it |
| `StartTurn`, `EquipTurn`, `AdmitRun`, `EndRun` | a turn of `agent:stream`, at each await before it holds the browser |
| `RequestOperation`, `StartOperation`, `FinishOperation` | `BrowserActionQueue.run`, `withScopeActivity` |

### RacedAnswers

`stage`, `aborted`, `terminal`, `superseded` and `active` are the turns and their tokens;
`gate[q]` is where a question is within its turn; `rv` holds the handoff, the claimant, the
stashed answers, the tombstones and the deliveries under way, and the functions of the code
that pass answers on (`Register`, `Claim`, `Attempt`, `Merge`, `Fail`, `Recover`,
`DropFor`) are functions from one such record to the next. `heir` and `rv.strays` are history
that no guard reads: the turn that took over from each, by a supersession or a restart, and
what a claim took over from a claimant that a Stop had made void or that its turn did not
inherit from. The code does that (section 7, `RacedAnswers_lagging`), so `DeliveredToHeirs` and
`NothingIntoALaterTurn` speak of all other answers.

| Actions | Code |
|---|---|
| `StartTurn`, `ClaimSite`, `Cleanup` | `agent:stream` to the issue of its token; after its runtime is resolved; `cleanupStreamIfOwned` |
| `Stop`, `PlanRestart`, `PlanDismiss` | `cancelConversationStream`; the two ends of a plan |
| `Ask`, `AnswerInTime`, `AnswerLate`, `Reject`, `Commit` | the tool `ask_user` and the handlers an answer of any surface reaches |
| `GateAborts` | the continuation of an aborted question, which hands it off |
| `Delivered`, `Blocked`, `DeliveryFails`, `TimerFires`, `RecoveredSettles` | `attemptRacedAnswerDelivery` and its retries, the durable path |
| `ExpireHandoff`, `ExpireClaimant`, `ExpireTombstone` | TTLs |

The comment of `registerPendingApproval`'s caller about a slow pre-tool hook is not
matched by the code: a gate that is registered after its turn was aborted throws, and
leaves no handoff (`tool-approval.ts:401`, `ipc/agent.ts:7798`).

### AnswerOnce

What becomes of an answer, without gates, handoffs, claimants, deliveries, tombstones, TTLs
and retries: it is used once, by the turn that asked, by a turn that took over from it, or by
the conversation, and after a Stop by no other turn than the stopped one. `RacedAnswers`
implements it (`ImplementsAnswerOnce`). That an answer is handed over at most once
(`HandedOverOnce`) follows, and the run does not check it apart; the refinement adds that an
answer which was handed over is not in the result of the tool, too, which is decided by the
turn's own ledger and not by the rendezvous. `Use` is a tool result that is committed, or the durable path;
`Deliver` a message that is queued in a turn; `Stray` is what the finding of section 7 leaves
open. Most steps of `RacedAnswers` only move an answer and leave all of this as it is.

### PluginCallbacks

The utility process has the table `functions`, the ids nobody adopted yet (`unadopted`,
`carried` as long as their request is known) and a `watermark`; the host has `stubs`,
`providers` and the provider's poll. `toHost` and `toUtility` are the IPC channel, `unread`
and `reply` the TCP broker of synchronous calls: each is FIFO, and nothing orders one
with respect to the other.

`runtime` is the one that `selectPluginHostRuntime` has chosen (`runtime-selection.ts:139`).
An Electron utility process delivers one IPC message per turn of the host, and the microtasks
of a turn are over before the next (`OneAtATime`). The control channel of a node-sea process is
a TCP socket: the host passes every line of a chunk to `handleMessage` in one synchronous loop,
so what does not wait is handled before an earlier message of the chunk that does. `begun` says
that an ordered call has begun and its promise chain is not over: the calls behind it in
`toHost` wait (`orderedInvokeTail`, `awaitOrdered`), an event or a pong behind these is
received all the same, which is why `Receive` names a place in `toHost`. `resolved` says that a
pong has resolved its barrier: the sweep goes out after the chunk, and before the ordered call
is done, which takes more microtasks. Where a chunk ends is left open. The result of an ordered
call is posted when the call begins, a few microtasks early: it goes out before the sweep of the
same chunk in either case.

| Actions | Code |
|---|---|
| `HandOver`, `SyncCall`, `UnregisterInferenceProvider` | calls of the plugin that carry callbacks, by any of the three kinds of call |
| `ReceiveReply`, `GiveUp`, `HearAdopted`, `HearResult`, `HearRelease`, `HearPing`, `HearReconcile`, `Drop` | messages to the utility process, which releases, forgets or sweeps |
| `ReadRequest`, `DecodeCallback`, `FinishCallback`, `TrackProvider`, `RegisterInferenceProvider`, `RefuseInferenceProvider` | `handleBrokerRequest`, `dispatch` |
| `ReceiveInvoke`, `FinishInvoke`, `ReceiveEvent`, `ReceiveOrdered`, `ReceiveUnregister`, `ReceivePong` | IPC messages to the host |
| `FinishOrdered`, `BarrierResolved` | `finishOrdered`, and the end of `reconcileUtilityCallbacks`, after a chunk |
| `ReconcileUtilityCallbacks` | the timer's reconciliation: ping, wait for the broker, post what is held |
| `CollectStub`, `CollectProvider` | the finalization registries |

`Settled` gives the continuations of settled promises priority over the next turn, as the
microtask queue does. Ids are numbers with a part, `fn` or `stream`. Left out: crashes
and restarts of the process, suspension, rate limits, the events of a stream, abort
signals, and ids rolled back within one synchronous step.

### AutomationTurns

One conversation and what nobody at the desk puts into it: events of rules, answers to
alerts, recovered answers (what `RacedAnswers` hands to the durable path). `alert`,
`note`, `branch` and `status` are on disk: the alert files, the alerts that record
recovered answers, the prompts of the conversation, its `runStatus`. `tails` is
`orderedConversationTails` (its head owns the slot), `live` the one member
`inFlightAutomationTargets` can have here, `turn` the follow-ups the live turn has taken,
`queue` the inject queue, `desk` the interactive turn, by who writes its messages.

| Actions | Code |
|---|---|
| `Fire`, `Answer`, `Dismiss`, `Recover`, `Reconcile` | an event that reaches `runAgentAction`; `alerts:answer`, `alerts:decide`, `alerts:dismiss`; `deliverRecoveredAnswer` before and after its await |
| `Enter`, `SettleTimeout`, `Resolved` | the task of a place in the order, once the turn before it has ended, or has not; the await of the runtime |
| `Inject`, `Refused`, `Spliced`, `Restarted` | `injectUserTurnAndRestart`: its policy hook, and the three ways it ends |
| `PrepareStep`, `Boundary`, `AttemptRestart` | a turn of an automation: `buildMastraPrepareStep`, `flushInjectedBoundary`, `handleAttemptRestart` |
| `TurnEnds` | the end of the stream, the `finally`, and the continuation or the return |
| `DeskStarts`, `DeskSteps`, `DeskEnds` | an interactive turn, as far as it touches the queue |
| `Crash` | the process ends; `resetStaleRunStatus` at the next start |

An action of a rule or of an answer that fails ends in `Throw`: `resume` opens its alert
again unless the conversation has the answer, `deliverRecoveredAnswer` keeps or drops its
record. `intruded` is history: an interactive turn began while a turn of an
automation ran, or while prompts were in the queue that the conversation did not have. The
code lets this happen (section 7, `AutomationTurns_once`), and empties the queue then, so
three of the four properties are stated for behaviours without it; `OneAnswerPerAlert` holds
with it. `Only(s, S)` is the part of a sequence that is in a set, what the code does with
`idOnDisk` and with lists of ids; it is a recursive function, so it can be reasoned about,
which `SelectSeq` of the standard module cannot be here.

## 4. Runs

Passing runs (distinct states as TLC reports them):

| Run | Checks | Instance | States |
|---|---|---|---|
| `OtaOverlay_life` | type, `CrashLoopBounded`, `RollbackEarned`, `WithdrawnStaysAway`, `FailedApplyKeepsOverlay`, `ImplementsLifecycle` | 3 versions, one needing a newer shell; 4 boots; 2 faults | 2,507,095 |
| `OtaStaging_two` | type, `InstalledIsWhole`, `InstallsOnlyNewer`, `OfferIsStaged` | 2 downloads, 3 versions, 2 failures, 2 user calls, 2 restarts | 170,847 |
| `AgentTasks_mixed` | type, `LivePtyIsOwned`, `NewRunSurvivesOldExit`, `OnlyTheCurrentRunMovesATask` | a Mastra and a PTY agent, 1 task, 2 runs | 321,872 |
| `AgentTasks_live` | `DeadPtyIsReconciled` | a PTY agent, 1 task, 2 runs, a retry, a restart | 152,209 |
| `TaskDispatcher_phases` | `DispatcherTypeOK`, `GuardIsReleased` | 2 tasks, all three phases, no run that starts | 412,821 |
| `TaskDispatcher_ticks` | `OneTickBody`, `NeverStalls`, `PointersAgree` | 2 bodies possible, 2 switches, a Mastra run, a restart | 1,558,136 |
| `BrowserProfile_swap` | type, `NoOperationInAnotherProfile`, `TurnStaysInItsProfile`, `ResetProfilesAreClosed`, `ToolsServeTheNewestSettings`, `SettingsTakeEffect` | 2 profiles, 1 turn at a time, 2 changes of the settings, 2 windows, 2 faults | 379,021 |
| `RacedAnswers_race` | type, `DeliveredToHeirs`, `NoAnswerIsLost`, `NothingIntoALaterTurn`, `ImplementsAnswerOnce` | 2 questions, 3 turns; a retry, and two of a Stop, a failed delivery and an expiry | 2,159,052 |
| `PluginCallbacks_own` | type, `CallableIdsAreLive`, `AdoptedHasAnOwner`, `OrphansAreReclaimed` | both runtimes, 2 hand-overs, an ordered call, 2 barriers at a time (node-sea: 1) | 1,020,418 |
| `AutomationTurns_turns` | type, `OneAnswerPerAlert`, `RecoveredIsRecorded`, `AnswersAreNotOvertaken`, `FollowUpsAreKept` | 3 events, an alert answered twice, a recovered answer, 4 of these prompts at a time; a retry, a fault, an interactive turn, a crash | 1,384,211 |

What the bounds are for:

- `MaxBoots = 4` and `MaxCrashes = 3` (the code's own value): the boot that wipes is the
  third, the fourth sees what it left. `MaxVersion = 3` allows applying twice and
  withdrawing the first or the second. Two faults reach every catch, and the
  second failure inside `RecoverFailedApply`.
- Two downloads of different versions are the smallest number that mixes; both
  may be restarted after they end.
- `MaxSessions = 2`: an old and a new run. Sessions are numbered in order and never
  reused, as their ids in the code.
- `MaxReviews` bounds the reviews a run's own promotions start; `ReviewableTasks`
  the tasks that may be given reviewers; `MaxRetries` is 2 in the code, and 0 or 1 here,
  since only "another one is left" matters. `MaxRestarts` bounds restarts.
- `UserStatuses` are the statuses users move tasks to. It is all of them except in
  `TaskDispatcher_phases`, where users only block tasks: the phases have two tasks,
  because a tick reads its lists once, so that one task cannot be both what it
  dispatches and what it unblocks. That run has no sessions (each start fails and is
  rolled back); starts that succeed, and a restart, are in `TaskDispatcher_ticks`.
- `Bodies` are the tick bodies that may exist; the run with two shows that the second
  is never used, so other runs have one. `MaxSwitches` bounds changes of the settings,
  `InitialSettings` says what desktop.json holds at first (`None`: no such key).
- Symmetry is used for agents of the same kind, tasks and bodies, and only in
  runs without liveness.

- `BrowserProfile_swap`: two changes of the settings are a change that is overtaken by
  another, or undone; two windows, one that closes and one that opens during a change; two
  faults, a change that fails and whose roll back or recovery fails too. One turn at
  a time, since turns do not touch each other here except through the tab's queue.
- `RacedAnswers_race`: three turns are the one that asked, one that took over and one that
  took over from it or merely came later. A claim takes an answer astray only with a fourth
  turn, so `strays` is empty in this run (TLC says so) and exempts nothing; it is there for the
  theorems, which are about any number of turns. All three disturbances in one behaviour
  (`TwoDisturbances` left out of the configuration, 2.9 million states) were also checked,
  without error.
- `PluginCallbacks_own`: two hand-overs are two providers, one replacing the other, or a
  provider and a callback; two barriers are a pong of an older reconciliation. The same with two
  ordered calls (2.6 million states) and, for the safety properties in the Electron runtime, three
  hand-overs with one barrier and neither ordered calls nor refusals (4.8 million) were also
  checked, without error.
  `UnreadTimeouts` and `Refusals` switch two of the known errors of section 7 on: the run has
  the second, which only breaks `PolledIdIsLive`. `CallableIdsAreLive` speaks of the Electron
  runtime only: in the other it does not hold (`PluginCallbacks_sea`, section 7). The other
  three properties are about both.
- `AutomationTurns_turns`: three events are a turn and two follow-ups, which may be saved
  in part or in the wrong order; two answers of an alert are one that failed and its retry,
  and the recovered answer a second answer to wait behind. `MaxPrompts = 4` of these six at a
  time: any three of them, and one that meets them. `ContinueBudget` is 3 in the code; 1
  reaches both its use and its end.

`CHECK_DEADLOCK FALSE` everywhere: bounded boots, sessions, turns and switches run out.

Two runs expect a violation (section 7): `RacedAnswers_lagging`, and `PluginCallbacks_sea`,
with two hand-overs and two ordered calls in the node-sea runtime. For each property of a
passing run, `PROJECT.json` names a mutant: an operator in the module that stands
beside the code's own (its comment says "mutated" or "mutant"), with which TLC finds the property
violated under the same configuration.

## 5. Fairness

- `OtaStaging`: the periodic check is a `setInterval`, requests end (an answer, an error
  or a timeout), and the code after an answered await runs. Failures, user calls
  and restarts are not fair, and bounded. `OfferIsStaged` has the premise that downloads
  overlap no more at some time (`OneDownload`); its goal is the announcement, which two that
  overlapped may have made untrue (`ReadyMeansStaged`, section 7).
- `AgentTasks`: the reconciler's `setInterval` fires and starts settle. A live terminal
  may run for ever, a stream may take for ever to notice an abort.
- `TaskDispatcher`: the timer fires, models answer, starts settle, and a
  changed configuration is handled (a debounced watcher; at startup, the
  registration of the tools). That models answer is an assumption about the
  outside: the code passes no abort signal to them.
- `BrowserProfile`: the file watcher and the recovery timer fire, Chromium starts, skips
  or settles an operation (an operation that takes longer than its timeout is a
  fault), operations of the assistant end, and the continuations of a drain run. Users
  write settings as they like, and nobody has to open a window or start a turn.
- `RacedAnswers` has no liveness in a listed run (`RacedAnswers_live`, beside them, does):
  timers fire, turns reach the claim and end once no question of theirs is open, aborts
  and results are handled, deliveries and recoveries end. Nobody has to ask, answer or
  restart.
- `PluginCallbacks` needs no fairness of its own: `OrphansAreReclaimed` has the premise that
  barriers complete, which the code provides while the process runs, by a timer every
  30 s and a round trip.
- `AutomationTurns` has no liveness: which turn comes when is up to models and users.

## 6. Proofs

`OtaOverlayProofs` proves, from `ConstantsAssumption` alone, thus for any number of
versions, any crash threshold, any number of faults and boots:

| Theorem | States | Argument |
|---|---|---|
| `TypeCorrect` | `Spec => []TypeOK` | `TypeInv` adds `ApplyInv`: while an apply runs there is something in `staging/`, and in the phases that read `current.ver` there is an overlay. Without it `WipeOverlay` or the recording of a floor would read the version of an absent directory. |
| `CrashLoopIsBounded` | `Spec => []CrashLoopBounded` | `LoopInv`: the loads of overlay code since the last reset are at most the counter on disk plus the failed file operations, with room for one more where a boot was counted and has not loaded yet. The wipe at `MaxCrashes` turns it into the bound. |
| `FloorIsRecorded` | `Spec => []FloorCoversApplied` | `FloorInv`: each applied version is at or below the floor, or is the one being recorded, or its floor was lost. |
| `WithdrawnVersionsStayAway` | `Spec => []WithdrawnStaysAway` | The same invariant: installed, previous and withdrawn versions were all applied, and what an apply swaps in is above the floor. |

Its second half goes on from these, with the same assumption:

| Theorem | States | Argument |
|---|---|---|
| `SwapIsRecoverable` | `Spec => []SwapLosesNothing` | `SwapInv`: at each point of an apply, what `current/`, `rollback/` and `staging/` hold in terms of the overlay it started with. |
| `OneFailureKeepsOverlay` | `Spec => FailedApplyKeepsOverlay` | `SwapInv`, and that one failed operation takes only one branch of the catch. |
| `WipeIsEarned` | `Spec => []RollbackEarned` | `EarnedInv`: without failures the counter is at most the number of boots that crashed since its last reset, plus one while a counted boot runs; a boot that wipes has counted `MaxCrashes`. |
| `LifecycleIsImplemented` | `Spec => ImplementsLifecycle` | The refinement mapping: `installed` is `before`, the overlay an apply started with, between the two renames, and `current` otherwise; `spare` is none between them and `previous` otherwise; `floor` is already the installed version while it is being recorded. One lemma per action: a step of `Lifecycle` or a stutter. |

`OtaStagingProofs`, for any number of downloads, versions, failures and restarts:

| Theorem | States | Argument |
|---|---|---|
| `StagingTypeCorrect` | `Spec => []TypeOK` | in three parts: the directory, the downloads, the rest. |
| `InstalledOverlayIsWhole` | `Spec => []InstalledIsWhole` | `InstalledInv` adds that the floor is the version of the installed manifest; only an apply changes either, and it verifies what it finds. |
| `OnlyNewerIsInstalled` | `Spec => InstallsOnlyNewer` | the same invariant. |
| `AnnouncedIsStaged` | `Spec => AnnouncesWhatIsStaged` | the announcement follows the verification in one turn. |

`AgentTasksProofs`, for any agents, tasks, runs, reviews and restarts:

| Theorem | States | Argument |
|---|---|---|
| `NoPtyIsOrphaned` | `Spec => []LivePtyIsOwned` | `LiveInv` adds `OneStartAtATime`: an agent whose terminal is being created is not running, and no second one is being created for it. |
| `OldExitsSpareNewRuns` | `Spec => NewRunSurvivesOldExit` | `RunningInv`: a running agent names a run that was begun. |
| `FilesAgree` | `~AssessesComplexity => (Spec => []PointersAgree)` | `PointInv` adds that a deleted agent is on no task, that the task the start of a terminal has read was there and its agent's, and that no record read before an assessment waits to be written. The assumption is needed: section 7, `AgentTasks_assessed`. |
| `TypeCorrect` | `Spec => []TypeOK` | `CountersOK`: the reviews that were begun are at most `MaxReviews`, and one for each run that is gone; a run is gone once. |
| `OnlyCurrentRunsMoveTasks` | `~AssessesComplexity => (Spec => OnlyTheCurrentRunMovesATask)` | `RecordInv`: runs begin in the order of their numbers, and a task that records a run of a Mastra agent is not the task of a later run that is live. So an aborted stream passes the fence of its task only while no later run works on it. The assumption is needed: section 7, `AgentTasks_stalefence`. |

`TaskDispatcherProofs`, for any agents, tasks, bodies, caps and settings:

| Theorem | States | Argument |
|---|---|---|
| `OneTickBodyHolds` | `DispatcherSpec => []OneTickBody` | `TickInv` adds `GuardInv`, that `tickInFlight` is set while a body is at work, also past its deadline; a step of a body either goes on, with what arms the timer unchanged, or settles and releases the guard. |
| `NeverStallsHolds` | `DispatcherSpec => []NeverStalls` | the same invariant: a tick that finds the guard set, or nothing to do, arms the timer itself; a body that is the only one at work has it armed by its end or its deadline. |
| `DispatcherTypeCorrect` | `DispatcherSpec => [](DispatcherTypeOK /\ TypeOK)` | `WorkInv` adds to the types, to `TickInv` and to the invariant of `AgentTasks` what a body holds while it needs it (`BodiesFit`): a slot it has taken, a pair, a session, a task as it was read, and attempts that nobody else has used up since. |
| `NoDispatchedPtyIsOrphaned` | `DispatcherSpec => []LivePtyIsOwned` | `RunsHeld` adds `LiveInv` of `AgentTasks`, and that the agent a body has assigned to can be started and the session it waits for is that agent's and still starting (`PairsHeld`): no other step intervenes in the same turn, and none takes a session on that a tick waits for. |
| `TicksSpareRuns` | `DispatcherSpec => NewRunSurvivesOldExit` | the same invariant with `MastraStartsAlone`, that a Mastra agent which runs while a run of it starts is in that one: so the agent of a pair that is rolled back does not run. |
| `DispatchedFilesAgree` | `~AssessesComplexity /\ ~AssignsReviewers /\ ~Unblocks => (DispatcherSpec => []PointersAgree)` | `PointInv` of `AgentTasks`, and that without the two phases no body has a task to write back. The assumptions are needed: section 7, `AgentTasks_assessed` and `TaskDispatcher_revert`. |
| `DispatchedRunsMoveTasks` | with the same assumptions, `DispatcherSpec => OnlyTheCurrentRunMovesATask` | `RecordInv` of `AgentTasks`: a roll back takes a task off an agent that does not run, so no record of a live run changes. |

The first two need nothing of what `AgentTasks` promises: its steps leave the dispatcher's
variables alone. For the others `StepOnAgents` says what the dispatcher does to agents, tasks and
runs: each of its steps is a step of `AgentTasks`, or nothing, or one of the two that only a tick
takes, a roll back and the writing back of a task that was read before a model was asked. The
lemmas of `AgentTasksProofs` cover the steps of the first kind. Of `DispatcherAssumption` the types
need that the agents, files of one directory, are finitely many: a tick counts those that run.

`BrowserProfileProofs`, for any settings, turns and bounds on writes, windows and faults:

| Theorem | States | Argument |
|---|---|---|
| `TypeCorrect` | `Spec => []TypeOK` | with `DrainInv`: what is drained is the head of a queue that is not empty. |
| `SwapWaitsForOperations` | `Spec => []NoOperationInAnotherProfile` | `ProfileInv`. A request that was not superseded asks for the settings observed last (`LatestInv`); turns that hold what they were granted were granted it in the profile of those settings (`GrantInv`), because every change of profile revokes it. So a commit that selects another profile meets no accepting turn, and has waited for those at work (`WorkInv`). The exception, `Unseen`, is a window created from a file whose change the watcher has not reported. |
| `TurnsKeepTheirProfile` | `Spec => []TurnStaysInItsProfile` | `WorkInv`: a turn that accepts was admitted to the selected profile, and one at work works there. |
| `ToolsFollowSettings` | `Spec => []ToolsServeTheNewestSettings` | `ServedInv`: tools are out, or nothing is pending, only while the manager serves the settings observed last. |
| `ResetsKeepProfilesClosed` | `Spec => []ResetProfilesAreClosed` | `ResetInv`: requests are queued in their order; each operation of Chromium that is waited for belongs to one queued request, which waits for that profile, and the profile is suspended. A commit that opens a profile serves the newest request, thus the last of the queue, and it waits for nothing any more. |

`PluginCallbacksProofs`, for any number of hand-overs, ordered calls and barriers, and whatever
the collector does when; the first two for both runtimes, the last about the Electron runtime:

| Theorem | States | Argument |
|---|---|---|
| `TypeCorrect` | `Spec => []TypeOK` | `TypeInv`, with `CountInv` for the bounds: an ordered call is done, begun or on its way to the host, a barrier under way has a ping or a pong in a channel. |
| `AdoptedIdsHaveOwners` | `Spec => []AdoptedHasAnOwner` | `OwnersInv`: what the utility was told, or will hear, was adopted, the host owns or has released. It needs that numbers are new when given out (`NumbersInv`), that no two messages carry the same one (`DistinctInv`), and that a number is at one stage of its life (`StagesInv`: on its way, asked for, a callback, a provider); `PollInv` says what the poll of a provider may still reach. |
| `CallableIdsStayAlive` | `~UnreadTimeouts => (Spec => []CallableIdsAreLive)` | `SettledInv`: what the host may call or decode is in the utility's table and not released, and a result is heard after the adoptions of its call, since both take the IPC channel. `SweepInv`: the last pong on its way follows all that was handed over before its ping was heard, and a sweep on its way spares what the host may reach, since the host read the broker after that pong. Both are assumed of the Electron runtime only (`IInvAlive`), where a message is received only as the head of its channel; the plugin keeps its runtime. The assumption is needed: section 7, `PluginCallbacks_unread`; so is the runtime: `PluginCallbacks_sea`. |

`RacedAnswersProofs`, for any questions, turns, retries, Stops, failures and TTLs that pass:

| Theorem | States | Argument |
|---|---|---|
| `InvariantHolds` | `Spec => []IInv` | The inductive invariant that the others follow from: `TypeOK`, `TurnInv`, `QuestionInv`, `RendezvousInv`, `GateInv`. Each function of the rendezvous keeps `Fit`, for any of the records an action may pass it, so `Fit` is about a record, and the lemmas compose as the calls do. |
| `TypeCorrect` | `Spec => []TypeOK` | part of it. |
| `AnswersAreHandedOverOnce` | `Spec => []HandedOverOnce` | `OnePlace`: a question is with the handoff, with the claimant, being delivered, under a tombstone, or handed over, and in no two of these. `GateInv` says it is in none while its gate is open. |
| `AnswersGoToHeirs` | `Spec => []DeliveredToHeirs` | `Inherited`: whoever holds an answer inherits from the turn that asked, unless it came astray. A chain of aborts, which the code follows, is part of a chain of heirs (`TurnInv`). |
| `AcceptedAnswersAreKept` | `Spec => []NoAnswerIsLost` | the other half of `GateInv`: until something is stopped or expires, a question whose gate is closed is in one of these places; `Live` and `Stashed` say that the place is one it is used from, `Merged` that no handoff waits beside the claimant it is meant for. |
| `StoppedAnswersStayOut` | `Spec => NothingIntoALaterTurn` | `Halted`: a Stop marks the handoff, the claimant and every delivery there is, and nothing that was asked before it moves into one that is not marked, unless it came astray. |
| `AnswersAreUsedOnce` | `Spec => ImplementsAnswerOnce` | The refinement mapping: `uses` is how often an answer was handed over, and one more when its result is committed; `receiver`, `unwinding` and `astray` are the fields of the record and the stopped turns. `AnsweredInv`, beside the invariant: what is stashed, being delivered or handed over, and what a turn has consumed, was accepted. `Flows` says of each function of the rendezvous that it brings no answer and takes none back; what is handed over is closed (`GateInv`), so it is not committed. One lemma per action. |

The assumptions are that the bounds are natural numbers and that `None` is none of the
records. `DeliveredToHeirs` and `NothingIntoALaterTurn` were first stated without the
exemption of `strays`; `Inherited` and `Halted` are not inductive then, at the one step
`Claim`, and the case the proof could not close is a behaviour of four turns, which TLC confirms
(`RacedAnswers_lagging`). Chains are stated by sets of turns that are closed under the next one
(`Reaches`), not by recursion, so they can be reasoned about without induction.

`AutomationTurnsProofs`, for any events, alerts, recovered answers and budgets, and any number
of retries, faults, interactive turns and crashes:

| Theorem | States | Argument |
|---|---|---|
| `InvariantHolds` | `Spec => []IInv` | The inductive invariant that the five below follow from: `TypeOK`, `SlotInv`, `GivenInv`, `HeldInv`, `AnswerInv`, and, as long as no interactive turn has begun over one of an automation, `DeskInv`, `AheadInv` and `FollowInv`. |
| `TypeCorrect` | `Spec => []TypeOK` | `SlotInv`: who is in the order is under way, who waits or works behind a place in it is in it, and only its head has begun. So an action that ends leaves its own place. |
| `AlertsAreAnsweredOnce` | `Spec => []OneAnswerPerAlert` | `AnswerInv`: of the answers an alert was given, one is under way or in what the branch, the turn and the queue hold (`Line`), and the alert is not open then. `HeldInv` says who is in `Line`: what an action has handed over and is done with, which nothing can put there again. |
| `RecoveredStayRecorded` | `Spec => []RecoveredIsRecorded` | part of `DeskInv`: the record of a recovered answer is dropped only for one that is saved, and nothing but an interactive turn that began over it takes a prompt off the branch for good. |
| `AnswersStayAhead` | `Spec => []AnswersAreNotOvertaken` | `AheadInv`: an event that found an answer waiting is behind it in the order while the answer is there, and behind it in `Line` when both are in it. Each action moves prompts along `Line` in their order or puts them at its end. |
| `FollowUpsStay` | `Spec => []FollowUpsAreKept` | `FollowInv`: `Line` has what was accepted once and in order, and what the live turn has saved itself is the last of it on the branch. So a restart that takes that off the branch and puts it in front of what is pending changes nothing of the order. |

The last three say nothing of behaviours in which an interactive turn began over one of an
automation, as the properties do (section 7 shows such a behaviour). `AheadInv` and `FollowInv`
compare sequences. The module first proves the laws of `Only`, of concatenation and of
`FlattenSeq` that these comparisons need, then what each group of actions does to `Line`, then
the invariant, a part at a time.

Each invariant was first checked by TLC. `FloorCoversApplied`, `SwapLosesNothing` and
`AnnouncesWhatIsStaged` are left to the proofs and are not in the listed runs any more. Every proof has one lemma or step per action.

Only model-checked: liveness (out of the prover's reach). `OnlyTheCurrentRunMovesATask` is
checked without the dispatcher and proved with it too. Two operators on data are recursive functions, `Only`
and `FlattenSeq` of the community modules. The library's induction theorems take an operator and
are out of reach, so `AutomationTurnsProofs` proves induction over numbers and over sequences
for sets (`NumberInduction`, `SeqInduction`, from the well-foundedness of `<` on the naturals), and
the recursion equations of the two functions with it.

## 7. What the runs found

Each configuration below checks one property that quotes what a comment, a doc or the
user interface says, and TLC finds a behaviour of the code that violates it. The first
two are runs and the findings of `PROJECT.json`. The others are further configurations beside
the runs: they can be run in the same way, and the property each checks stands at the end
of its module with the quotation. Where a configuration serves several properties, the
others are named in it, in a comment.

| Configuration | The code |
|---|---|
| `RacedAnswers_lagging` | where a handoff is there to be claimed, takes the keys of the previous claimant along and looks neither at its lineage nor at its cancel generation (`ipc/agent.ts:2361`), although the comment at 2286 says why the other branch does: a stopped turn's answer goes into an unrelated later turn |
| `PluginCallbacks_sea` | handles all lines of a chunk of the node-sea control socket before any microtask (`plugins/process/plugin-process-host.ts:1278`): a pong overtakes a call that waits for an ordered call before it, and the sweep frees the callback this call carries, which the host then decodes; "every id we sent before the barrier has been fully processed by the host — so any UNADOPTED id not in heldIds is provably orphaned" (`utility-transport.ts:686`) does not hold there. A chunk of three lines is enough |
| `RacedAnswers_oldclaimant` | takes a fresh handoff into a claimant whose own TTL or cancel generation is older, and drops both when that one has run out (`ipc/agent.ts:2402`, 1731); with `NothingAfterAStop` in the same configuration: does not look at the cancel generation where the clean-up of a superseded turn passes on its answers in flight |
| `PluginCallbacks_unread` | counts, in its drain barrier, only the broker requests it has read, and nothing echoes over the broker: a request given up while unread on the socket is swept, then adopted; "once the host replies … every id we sent before the barrier has been fully processed" does not hold then (it takes a main process that stalls for 120 s); with `PolledIdIsLive` in the same configuration: records the callbacks of a provider before the API may refuse it; the utility frees them, the host goes on polling |
| `AutomationTurns_once` | posts the prompt of an action twice: a continuation that waited behind an answer finds the conversation busy and injects (`automations/actions.ts:612`), although "prompt is unused on a continueOnBranch run" (1568); with `TurnsExclude` in the same configuration: starts an interactive turn over one of an automation: a prompt that waited for a policy hook restarts without a look at `isAutomationRunInFlight` (`ipc/agent.ts:10028`) |
| `AgentTasks_assessed` | undoes an assignment made during the complexity question, by writing the task as read before it |
| `OtaOverlay_resurrect` | brings a rolled back overlay back when an apply fails |
| `AgentTasks_noretry` | counts a timeout as retried and starts nothing |
| `TaskDispatcher_toggle` | saves "off" when it is switched on |
| `OtaOverlay_threshold` | wipes at the boot after the second crash, the comment says three; with `WipedOverlayWasTried` in the same configuration: lets a new overlay inherit the crash counter of the old one; with `ReportNamesWipedVersion`: reports the last stable version as the one rolled back from; with `AppliesOnlyNewVersions`: writes the floor after the swap, so a crash loses it |
| `OtaStaging_ready` | empties `staging/` and keeps announcing it as ready; the periodic check stays off until an apply or a restart |
| `AgentTasks_stranded` | never settles a Mastra agent that was running at a restart |
| `AgentTasks_exitmove` | moves a task at an exit out of statuses automation may not leave; with `ExitToReviewIsReviewed` in the same configuration: sends a task without reviewers to AI review, where it stays; with `StartKeepsStatus`: writes back the task a start read before its await |
| `AgentTasks_verdict` | applies a verdict to a task that is no longer in review |
| `AgentTasks_wrongtask` | restarts an agent on another task than the kicked back one |
| `AgentTasks_stalefence` | writes back an old owner, and lets an aborted run pass the fence |
| `TaskDispatcher_cap` | counts free slots before its awaits |
| `TaskDispatcher_stalepick` | dispatches from a list read before its awaits |
| `TaskDispatcher_blocked` | skips its unblock phase when there is nothing to dispatch |
| `TaskDispatcher_revert` | writes back the task the choice of reviewers read; for the same reason `PointersAgree` holds only without reviewers and unblocking, as in `TaskDispatcher_ticks` |
| `TaskDispatcher_switch` | may stay off although saved as on |

## 8. Not modelled

- Signatures and hashes: an overlay is intact or not, and matches a signature or not.
- Crashes between two file writes of one agents or tasks handler; writes that fail there.
- The content of prompts, scores, plans, comments, terminal output.
- `agents:create` and `agents:update`, archiving, plan generation streams, the task API of
  plugins, task sync. Two handlers can also write what guards do read, and this is left out:
  `agents:update` the status, the task, the terminal and the runtime of an agent (the
  application's windows send it names, instructions and runtimes), `tasks:update` the agent,
  the recorded run and the retries of a task. Nothing said here of agents and tasks covers a
  caller that writes these; the runtime of an agent is fixed.
- Two edits of the settings file that its watcher reports as one: `EditSettingsFile` of
  `BrowserProfile` waits until the last edit was reported. Settings changed and changed back
  unnoticed could stay with a manager created in between.
- Failures of the last attempt to save a follow-up, of a roll back and of the store of the
  alerts in `AutomationTurns`: its faults are writes that fail before these.
- What an answer says and who may give it; what a turn does with an answer once it is in
  its queue; the caps of the rendezvous' maps.
- Crashes, restarts, suspension and limits of a plugin's process.
- Files of alerts that cannot be written or conversations that cannot be read; rules that
  divert to a new conversation, and conversations deleted or compacted under a turn; what an
  interactive turn does with its own retries. A crash while the answer to an alert waits
  loses the answer: the code says so (`automations/actions.ts:501`), and
  `OneAnswerPerAlert` does not promise otherwise.
- Tabs, downloads, credentials and stored data of the browser; policies other than access.
- The final reasons and texts the code reports: whether they are true to what happened.
- Steps 17 and 18 of the plan, and the parts `PROJECT.json` lists as not modelled, each with
  its reason: mostly I/O to external services or native code, or behaviour that depends on
  the contents of model streams.

## 9. Running it

    tlc -workers 2 -config OtaOverlay_life.cfg MCOtaOverlay
    tlapm OtaOverlayProofs.tla
    tlapm OtaStagingProofs.tla
    tlapm AgentTasksProofs.tla
    tlapm TaskDispatcherProofs.tla
    tlapm BrowserProfileProofs.tla
    tlapm PluginCallbacksProofs.tla
    tlapm RacedAnswersProofs.tla
    tlapm AutomationTurnsProofs.tla

The longest runs are `RacedAnswers_race` and `PluginCallbacks_own`, two and a half minutes each. `PROJECT.json` names the
module and the configuration of every run and maps each definition to its lines.
