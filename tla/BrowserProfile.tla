--------------------------- MODULE BrowserProfile ---------------------------
(***************************************************************************)
(* The built-in browser while its settings change: the coordinator of      *)
(* settings transitions (browser/config-transition.ts), the manager that   *)
(* drains a profile before it selects another (browser/manager.ts), the    *)
(* queue of Chromium operations per session (session-operations.ts), the   *)
(* queue of a tab (action-queue.ts), and the runs of the assistant that    *)
(* hold a capability for it (assistant-runs.ts).                           *)
(*                                                                         *)
(* A settings write is synchronous and reaches disk at once; Chromium      *)
(* follows later, over awaits, and may fail or not answer. One tab of one  *)
(* conversation is modelled, and text turns only. Policies other than      *)
(* access, with the private network switch, are left out. A Chromium       *)
(* operation that fails or does not answer in time, and a settings file    *)
(* that cannot be read or written, are faults bounded by MaxFaults.        *)
(***************************************************************************)
EXTENDS Integers, Sequences, SequencesExt

CONSTANTS
    Configs,    \* the browser settings that users choose from
    Runs,       \* turns that may run in the conversation of the tab at once
    MaxWrites,  \* bound: changes of the settings by users and other programs
    MaxWindows, \* bound: times the primary window is created
    MaxFaults,  \* bound: Chromium or file operations that fail or time out
    None

Scopes == {"global", "conversation"}

\* enabled, dataScope, and whether access needs approval.
Settings == [on : BOOLEAN, scope : Scopes, strict : BOOLEAN]

ASSUME SettingsAssumption ==
    /\ Configs \subseteq Settings
    /\ MaxWrites \in Nat /\ MaxWindows \in Nat /\ MaxFaults \in Nat
    /\ None \notin Settings /\ None \notin Scopes

VARIABLES
    \* the settings: on disk, and the last ones that were published
    persisted, snapshot,
    \* the coordinator
    generation, pendingGeneration, lastObserved, lastApplied,
    recovery,      \* what the recovery timer will try again, or None
    \* the manager
    window,        \* "none" until the manager exists, then "open" or "closed"
    mgr,           \* dataScope, browserEnabled and the policy of the manager
    mgrGeneration, \* browserConfigGeneration
    transitions,   \* requests on profileMutationTail, the head is being served
    draining,      \* the head has started and awaits the drain
    suspended,     \* suspendedScopes
    wired,         \* wiredSessionsByScope: profiles in use
    tabScope,      \* scopeKey of the tab
    native,        \* per profile: Chromium operations admitted and not settled
    \* capabilities
    tools,         \* browser tools are registered
    run,           \* per run: where it is, and the profile it was admitted to
    tabQueue,      \* runs with an operation in the queue of the tab
    active,        \* per run: the profile its current operation works in, or None
    \* bounds
    writes, windows, faults

settingsVars == <<persisted, snapshot>>
coordinator == <<generation, pendingGeneration, lastObserved, lastApplied, recovery>>
manager == <<window, mgr, mgrGeneration, transitions, draining, suspended, wired,
             tabScope, native>>
assistant == <<run, tabQueue, active>>
bounds == <<writes, windows, faults>>
vars == <<settingsVars, coordinator, manager, tools, assistant, bounds>>

Phases == {"idle", "authorized", "equipped", "accepting", "draining"}

Transition ==
    [generation : Nat, request : Nat, target : Settings,
     preempted : BOOLEAN, scopes : SUBSET Scopes, swap : BOOLEAN,
     closing : SUBSET Scopes, failed : BOOLEAN]

NativeOperation == [request : Nat, awaited : BOOLEAN, started : BOOLEAN]

TypeOK ==
    /\ persisted \in Settings /\ snapshot \in Settings
    /\ generation \in Nat /\ pendingGeneration \in Nat
    /\ lastObserved \in Settings /\ lastApplied \in Settings
    /\ recovery = None \/ recovery \in [generation : Nat, target : Settings]
    /\ window \in {"none", "open", "closed"}
    /\ mgr \in Settings /\ mgrGeneration \in Nat
    /\ transitions \in Seq(Transition) /\ draining \in BOOLEAN
    /\ suspended \subseteq Scopes /\ wired \subseteq Scopes
    /\ tabScope \in Scopes
    /\ native \in [Scopes -> Seq(NativeOperation)]
    /\ tools \in BOOLEAN
    /\ run \in [Runs -> [phase : Phases, stale : BOOLEAN, scope : Scopes]]
    /\ tabQueue \in Seq(Runs)
    /\ active \in [Runs -> Scopes \cup {None}]
    /\ \A r \in Runs : active[r] # None => tabQueue # <<>> /\ Head(tabQueue) = r
    /\ writes \in Nat /\ windows \in Nat /\ faults \in Nat

Init ==
    /\ persisted \in Configs /\ snapshot = persisted
    /\ generation = 0 /\ pendingGeneration = 0
    /\ lastObserved = persisted /\ lastApplied = persisted
    /\ recovery = None
    /\ window = "none" /\ mgr = persisted /\ mgrGeneration = 0
    /\ transitions = <<>> /\ draining = FALSE
    /\ suspended = {} /\ wired = {} /\ tabScope = persisted.scope
    /\ native = [s \in Scopes |-> <<>>]
    /\ tools = FALSE
    /\ run = [r \in Runs |-> [phase |-> "idle", stale |-> FALSE, scope |-> persisted.scope]]
    /\ tabQueue = <<>> /\ active = [r \in Runs |-> None]
    /\ writes = 0 /\ windows = 0 /\ faults = 0

Fault == faults < MaxFaults /\ faults' = faults + 1

-----------------------------------------------------------------------------
(* Capabilities of the assistant.                                          *)

\* finishDrainedEntry: a run that accepts nothing more and holds no operation is gone.
Closed(phase, operation) ==
    CASE phase = "accepting" -> IF operation = None THEN "idle" ELSE "draining"
      [] OTHER -> phase

\* revokeAssistantAccess: authority granted so far is stale, every run stops
\* accepting. Mutated, turns that are still being set up keep their authority.
RevokedWhenAccepting ==
    [r \in Runs |-> [run[r] EXCEPT !.phase = Closed(@, active[r])]]
Revoked ==
    [r \in Runs |-> [run[r] EXCEPT !.phase = Closed(@, active[r]), !.stale = (run[r].phase # "idle")]]

\* A profile is open to operations: enabled, not suspended, and no Chromium
\* operation that its caller gave up on is still unsettled; mutated, those are
\* not asked for.
GivenUp(s) == \E i \in DOMAIN native[s] : ~native[s][i].awaited
AvailableUnlessSuspended(s) == mgr.on /\ s \notin suspended
Available(s) == mgr.on /\ s \notin suspended /\ ~GivenUp(s)

\* A turn of the agent starts in the primary window and notes the authority.
StartTurn(r) ==
    /\ run[r].phase = "idle" /\ ~Contains(tabQueue, r)
    /\ window = "open"
    /\ run' = [run EXCEPT ![r].phase = "authorized", ![r].stale = FALSE]
    /\ UNCHANGED <<settingsVars, coordinator, manager, tools, tabQueue, active, bounds>>

\* After awaits it picks its tools; without browser tools it needs no capability.
EquipTurn(r) ==
    /\ run[r].phase = "authorized"
    /\ run' = [run EXCEPT ![r].phase = IF tools /\ ~run[r].stale THEN "equipped" ELSE "idle"]
    /\ UNCHANGED <<settingsVars, coordinator, manager, tools, tabQueue, active, bounds>>

\* After more awaits the run is registered, unless its authority was revoked;
\* mutated, it is not asked again.
AdmittedWithoutRecheck(r) == run[r].phase = "equipped"
Admitted(r) == ~run[r].stale
AdmitRun(r) ==
    /\ run[r].phase = "equipped"
    /\ run' = [run EXCEPT ![r].phase = IF Admitted(r) THEN "accepting" ELSE "idle",
                          ![r].scope = mgr.scope]
    /\ UNCHANGED <<settingsVars, coordinator, manager, tools, tabQueue, active, bounds>>

\* A tool call of an accepting run joins the queue of the tab.
RequestOperation(r) ==
    /\ run[r].phase = "accepting"
    /\ ~Contains(tabQueue, r)
    /\ tabQueue' = Append(tabQueue, r)
    /\ UNCHANGED <<settingsVars, coordinator, manager, tools, run, active, bounds>>

\* At the head of the queue it needs an open profile and a lease on its run.
StartOperation(r) ==
    /\ tabQueue # <<>> /\ Head(tabQueue) = r /\ active[r] = None
    /\ IF Available(tabScope) /\ run[r].phase = "accepting"
       THEN /\ active' = [active EXCEPT ![r] = tabScope]
            /\ wired' = wired \cup {tabScope}
            /\ UNCHANGED tabQueue
       ELSE tabQueue' = Tail(tabQueue) /\ UNCHANGED <<active, wired>>
    /\ UNCHANGED <<settingsVars, coordinator, window, mgr, mgrGeneration, transitions, draining,
                   suspended, tabScope, native, tools, run, bounds>>

\* The operation ends, by its result or because its page is gone.
FinishOperation(r) ==
    /\ active[r] # None
    /\ active' = [active EXCEPT ![r] = None]
    /\ tabQueue' = Tail(tabQueue)
    /\ run' = [run EXCEPT ![r].phase = IF @ = "draining" THEN "idle" ELSE @]
    /\ UNCHANGED <<settingsVars, coordinator, manager, tools, bounds>>

EndRun(r) ==
    /\ run[r].phase = "accepting"
    /\ run' = [run EXCEPT ![r].phase = Closed(@, active[r])]
    /\ UNCHANGED <<settingsVars, coordinator, manager, tools, tabQueue, active, bounds>>

-----------------------------------------------------------------------------
(* A settings change reaches the coordinator and, in the same turn of the  *)
(* event loop, the manager.                                                *)

\* What ends capabilities granted under the settings observed before: the
\* browser is switched off, the profile changes, the policy gets stricter. Mutated,
\* a change of profile ends nothing.
RestrictsAccessOnly(before, next) ==
    (before.on /\ ~next.on) \/ (~before.strict /\ next.strict)
Restricts(before, next) ==
    \/ before.on /\ ~next.on
    \/ before.scope # next.scope
    \/ ~before.strict /\ next.strict

\* Profiles with tabs or wired sessions.
InUse == wired \cup {tabScope}

\* Ask Chromium to close the connections of profiles, for one request.
WithResets(operations, scopes, request) ==
    [s \in Scopes |-> IF s \in scopes
                      THEN Append(operations[s], [request |-> request, awaited |-> TRUE,
                                                  started |-> FALSE])
                      ELSE operations[s]]

\* preemptBrowserConfigTransition does something.
Preempts(c) == c.scope # mgr.scope \/ (~c.on /\ mgr.on)

\* handleConfigChanged of the manager: close the profiles in use at once, and
\* queue the transition behind the others. waiting is the queue before it.
Enqueue(c, waiting) ==
    LET scopes == IF Preempts(c) THEN InUse ELSE {}
    IN  /\ mgrGeneration' = mgrGeneration + 1
        /\ mgr' = IF ~c.on THEN [mgr EXCEPT !.on = FALSE] ELSE mgr
        /\ suspended' = suspended \cup scopes
        /\ native' = WithResets(native, scopes, mgrGeneration + 1)
        /\ transitions' = Append(waiting,
              [generation |-> generation', request |-> mgrGeneration + 1, target |-> c,
               preempted |-> Preempts(c), scopes |-> scopes, swap |-> c.scope # mgr.scope,
               closing |-> scopes, failed |-> FALSE])

\* handle of the coordinator, with the tools withdrawn by its caller in main.ts.
\* Without a manager the settings count as applied.
Handle(c, waiting) ==
    /\ recovery' = None
    /\ generation' = generation + 1
    /\ lastObserved' = c
    /\ tools' = FALSE
    /\ run' = IF Restricts(lastObserved, c) \/ Restricts(mgr, [mgr EXCEPT !.strict = c.strict])
              THEN Revoked ELSE run
    /\ IF window = "none"
       THEN /\ pendingGeneration' = 0 /\ lastApplied' = c
            /\ UNCHANGED <<mgr, mgrGeneration, suspended, native, transitions>>
       ELSE /\ pendingGeneration' = generation + 1 /\ UNCHANGED lastApplied
            /\ Enqueue(c, waiting)

HandleFrame == UNCHANGED <<window, wired, tabScope, tabQueue, active, windows>>

\* config:set from the user interface: written and published in one turn. It first
\* publishes what another program wrote (ReloadSettings).
WriteSettings(c) ==
    /\ writes < MaxWrites /\ writes' = writes + 1
    /\ snapshot = persisted
    /\ persisted' = c /\ snapshot' = c
    /\ Handle(c, transitions)
    /\ HandleFrame /\ UNCHANGED <<draining, faults>>

\* Another program writes the file; the watcher has not fired yet. It fires between
\* two such edits: settings changed and changed back unnoticed would stay with a
\* manager that was created in between.
EditSettingsFile(c) ==
    /\ writes < MaxWrites /\ writes' = writes + 1
    /\ persisted = snapshot
    /\ persisted' = c
    /\ UNCHANGED <<snapshot, coordinator, manager, tools, assistant, windows, faults>>

ReloadSettings ==
    /\ persisted # snapshot
    /\ snapshot' = persisted
    /\ Handle(persisted, transitions)
    /\ HandleFrame /\ UNCHANGED <<persisted, draining, writes, faults>>

\* isPending of the coordinator, negated; mutated, a window never waits for it.
SettledOrNot == pendingGeneration >= 0
Settled == pendingGeneration = 0

\* createWindow: the manager is built from the settings on disk, and tools are
\* published unless a transition is pending.
CreateWindow ==
    /\ window # "open" /\ windows < MaxWindows
    /\ window' = "open" /\ windows' = windows + 1
    /\ IF window = "none"
       THEN mgr' = persisted /\ tabScope' = persisted.scope
       ELSE UNCHANGED <<mgr, tabScope>>
    /\ tools' = IF Settled THEN persisted.on ELSE tools
    /\ UNCHANGED <<settingsVars, coordinator, mgrGeneration, transitions, draining, suspended,
                   wired, native, assistant, writes, faults>>

\* The window is closed: its authority ends and the tools go.
CloseWindow ==
    /\ window = "open"
    /\ window' = "closed" /\ tools' = FALSE
    /\ run' = Revoked
    /\ UNCHANGED <<settingsVars, coordinator, mgr, mgrGeneration, transitions, draining, suspended,
                   wired, tabScope, native, tabQueue, active, bounds>>

-----------------------------------------------------------------------------
(* Chromium operations on a session: one at a time, in order, never        *)
(* cancelled once started; a caller waits for a bounded time.              *)

\* The reset of profile s for a request is over, well or not.
Answered(request, s, ok) ==
    [i \in DOMAIN transitions |->
        IF transitions[i].request = request
        THEN [transitions[i] EXCEPT !.closing = @ \ {s}, !.failed = @ \/ ~ok]
        ELSE transitions[i]]

NativeFrame ==
    UNCHANGED <<settingsVars, coordinator, window, mgr, mgrGeneration, draining, suspended, wired,
                tabScope, tools, assistant, writes, windows>>

NativeStarts(s) ==
    /\ native[s] # <<>> /\ Head(native[s]).awaited /\ ~Head(native[s]).started
    /\ native' = [native EXCEPT ![s][1].started = TRUE]
    /\ UNCHANGED <<transitions, faults>> /\ NativeFrame

\* An operation whose caller gave up before it started is skipped.
NativeSkipped(s) ==
    /\ native[s] # <<>> /\ ~Head(native[s]).awaited /\ ~Head(native[s]).started
    /\ native' = [native EXCEPT ![s] = Tail(@)]
    /\ UNCHANGED <<transitions, faults>> /\ NativeFrame

NativeSettles(s) ==
    /\ native[s] # <<>> /\ Head(native[s]).started
    /\ native' = [native EXCEPT ![s] = Tail(@)]
    /\ IF Head(native[s]).awaited
       THEN \/ transitions' = Answered(Head(native[s]).request, s, TRUE) /\ UNCHANGED faults
            \/ transitions' = Answered(Head(native[s]).request, s, FALSE) /\ Fault
       ELSE UNCHANGED <<transitions, faults>>
    /\ NativeFrame

\* The deadline of a caller passes; the operation keeps its place if it has started.
NativeTimesOut(s) ==
    \E i \in DOMAIN native[s] :
        /\ native[s][i].awaited
        /\ native' = [native EXCEPT ![s][i].awaited = FALSE]
        /\ transitions' = Answered(native[s][i].request, s, FALSE)
        /\ Fault /\ NativeFrame

-----------------------------------------------------------------------------
(* The transition at the head of profileMutationTail.                      *)

Swaps(t) == t.swap \/ t.target.scope # mgr.scope
Drains(t) == Swaps(t) \/ (~t.target.on /\ mgr.on) \/ t.preempted

\* applyBrowserConfig up to its first await: close what the preemption did not.
BeginDrain ==
    /\ transitions # <<>> /\ ~draining
    /\ LET t == Head(transitions)
           rest == InUse \ t.scopes
       IN  /\ Drains(t)
           /\ suspended' = suspended \cup rest
           /\ native' = WithResets(native, rest, t.request)
           /\ transitions' = [transitions EXCEPT ![1].closing = @ \cup rest]
    /\ draining' = TRUE
    /\ UNCHANGED <<settingsVars, coordinator, window, mgr, mgrGeneration, wired, tabScope, tools,
                   assistant, bounds>>

\* Everything that the head waits for is over; mutated, only Chromium's part.
ConnectionsClosed(t) == draining /\ t.closing = {} /\ ~t.failed
Drained(t) ==
    /\ draining /\ t.closing = {} /\ ~t.failed
    /\ \A r \in Runs : active[r] = None

\* A request nobody replaced; mutated, the newest of the coordinator is not asked for.
AnyRequest(t) == t.request > 0
Latest(t) == t.request = mgrGeneration

\* The head selects its profile and policy, or, superseded, only goes away. What was
\* still queued in the tab has been refused, for its profile was suspended.
Commit ==
    /\ transitions # <<>>
    /\ LET t == Head(transitions)
       IN  /\ Drained(t) \/ (~draining /\ ~Drains(t))
           /\ IF Latest(t)
              THEN /\ mgr' = t.target
                   /\ tabScope' = IF Swaps(t) THEN t.target.scope ELSE tabScope
                   /\ suspended' = IF t.target.on THEN suspended \ {t.target.scope} ELSE suspended
                   /\ lastApplied' = t.target
                   /\ IF t.generation = generation
                      THEN pendingGeneration' = 0 /\ tools' = t.target.on
                      ELSE UNCHANGED <<pendingGeneration, tools>>
              ELSE UNCHANGED <<mgr, tabScope, suspended, lastApplied, pendingGeneration, tools>>
    /\ transitions' = Tail(transitions) /\ draining' = FALSE
    /\ tabQueue' = IF draining THEN <<>> ELSE tabQueue
    /\ UNCHANGED <<settingsVars, generation, lastObserved, recovery, window, mgrGeneration, wired,
                   native, run, active, bounds>>

\* scheduleRecovery; mutated, a recovery that failed is not tried again.
NoRetry(failedGeneration, target) == None
Retry(failedGeneration, target) == [generation |-> failedGeneration, target |-> target]

\* attemptRecovery: settings that were rewritten meanwhile are handled; otherwise the
\* last applied ones are written back, which publishes them. Either file operation may
\* fail, and the recovery timer is armed.
Recover(failedGeneration, target, waiting) ==
    \/ /\ persisted # target
       /\ Handle(persisted, waiting)
       /\ UNCHANGED <<settingsVars, faults>>
    \/ /\ persisted = target
       /\ persisted' = lastApplied /\ snapshot' = lastApplied
       /\ Handle(lastApplied, waiting)
       /\ UNCHANGED faults
    \/ /\ Fault
       /\ recovery' = Retry(failedGeneration, target)
       /\ transitions' = waiting
       /\ UNCHANGED <<settingsVars, generation, pendingGeneration, lastObserved, lastApplied,
                      mgr, mgrGeneration, suspended, native, tools, run>>

\* Chromium did not go quiet: the request is rejected, and nothing is released. The
\* failure counts only for the newest settings.
FailTransition ==
    /\ draining
    /\ LET t == Head(transitions)
       IN  /\ t.closing = {} /\ t.failed
           /\ IF t.generation = generation
              THEN Recover(t.generation, t.target, Tail(transitions))
              ELSE /\ transitions' = Tail(transitions)
                   /\ UNCHANGED <<settingsVars, coordinator, mgr, mgrGeneration, suspended,
                                  native, tools, run, faults>>
    /\ draining' = FALSE
    /\ HandleFrame /\ UNCHANGED writes

RecoveryTimer ==
    /\ recovery # None
    /\ Recover(recovery.generation, recovery.target, transitions)
    /\ HandleFrame /\ UNCHANGED <<draining, writes>>

-----------------------------------------------------------------------------
Users ==
    \/ \E c \in Configs : WriteSettings(c) \/ EditSettingsFile(c)
    \/ CreateWindow \/ CloseWindow

Assistant(r) ==
    \/ StartTurn(r) \/ EquipTurn(r) \/ AdmitRun(r) \/ EndRun(r)
    \/ RequestOperation(r) \/ StartOperation(r) \/ FinishOperation(r)

Chromium(s) == NativeStarts(s) \/ NativeSkipped(s) \/ NativeSettles(s) \/ NativeTimesOut(s)

Next ==
    \/ Users
    \/ ReloadSettings \/ RecoveryTimer
    \/ BeginDrain \/ Commit \/ FailTransition
    \/ \E r \in Runs : Assistant(r)
    \/ \E s \in Scopes : Chromium(s)

Spec == Init /\ [][Next]_vars

\* The watcher and the recovery timer fire, continuations of settled promises run,
\* Chromium answers in the end, and operations of the assistant end.
Fairness ==
    /\ WF_vars(ReloadSettings) /\ WF_vars(RecoveryTimer)
    /\ WF_vars(BeginDrain) /\ WF_vars(Commit) /\ WF_vars(FailTransition)
    /\ \A s \in Scopes : WF_vars(NativeStarts(s) \/ NativeSkipped(s) \/ NativeSettles(s))
    /\ \A r \in Runs : WF_vars(FinishOperation(r))

FairSpec == Spec /\ Fairness

-----------------------------------------------------------------------------
(* Properties.                                                             *)

\* A profile is swapped only when nothing works in it: what an operation of the
\* assistant works in is the profile that the manager has selected, through every
\* overlap of settings writes, drains, failures and recoveries.
NoOperationInAnotherProfile ==
    \A r \in Runs : active[r] # None => active[r] = mgr.scope

\* A turn stays in the profile it was admitted to: "A turn admitted against
\* conversation data must not continue in the global profile (or vice versa)"
\* (config-transition.ts), although its setup and its tool calls await.
TurnStaysInItsProfile ==
    \A r \in Runs : active[r] # None => active[r] = run[r].scope

\* A profile that Chromium is still resetting, because its caller gave up on it or
\* a request is about to be served, is closed to the assistant.
ResetProfilesAreClosed ==
    \A s \in Scopes : native[s] # <<>> => ~Available(s)

\* Tools are registered only when the manager serves the newest settings, once the
\* settings file was noticed: no window and no superseded or failed request
\* publishes them for a profile that is not the selected one.
ToolsServeTheNewestSettings ==
    tools /\ persisted = snapshot /\ lastObserved = persisted => mgr = persisted

\* Chromium follows the settings in the end: when changes and faults stop, no
\* transition is pending, the manager runs under what the file says, and an open
\* window has its tools again if the browser is on.
SettingsTakeEffect ==
    <>[](\/ window = "none"
         \/ /\ pendingGeneration = 0 /\ mgr = persisted /\ lastApplied = persisted
            /\ window = "open" => tools = mgr.on)
=============================================================================
