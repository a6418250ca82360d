--------------------------- MODULE TaskDispatcher ---------------------------
(***************************************************************************)
(* The autopilot loop (electron/agent/task-dispatcher.ts), its handlers    *)
(* (electron/ipc/orchestrator.ts) and the operations main.ts gives it, on  *)
(* the agents and tasks of AgentTasks.                                     *)
(*                                                                         *)
(* A tick reads tasks and agents once and then works on that picture       *)
(* across awaits: scoring by a model, the start of an agent, the choice of *)
(* reviewers, an attempt to unblock. Users, runs and reviews go on         *)
(* meanwhile. A timed-out tick is told to stop and unwinds by itself.      *)
(* Pairs are tried in any order: the order of their scores is abstracted.  *)
(* autoStart is on (its default).                                          *)
(***************************************************************************)
EXTENDS AgentTasks

CONSTANTS
    Bodies,              \* tick bodies that could be active together
    MaxConcurrentAgents,
    AiScored,            \* matchingStrategy is "ai-scored"
    AssignsReviewers,    \* reviewPolicy.minReviewers > 0
    Unblocks,            \* unblockPolicy.enabled
    MaxAttempts,         \* unblockPolicy.maxAttempts
    InitialSettings,     \* bound: what desktop.json may say at first of autopilot.enabled
    MaxSwitches          \* bound: times the settings are changed

ASSUME DispatcherAssumption ==
    /\ IsFiniteSet(Agents)
    /\ MaxConcurrentAgents \in Nat \ {0}
    /\ MaxAttempts \in Nat /\ MaxSwitches \in Nat
    /\ InitialSettings \subseteq BOOLEAN \cup {None}
    /\ AiScored \in BOOLEAN /\ AssignsReviewers \in BOOLEAN /\ Unblocks \in BOOLEAN

VARIABLES
    running,    \* the dispatcher runs
    enabled,    \* config.enabled in the dispatcher
    persisted,  \* autopilot.enabled in desktop.json; None: it has no autopilot part
    handled,    \* persisted, as handleConfigChanged last saw it
    altered,    \* other autopilot settings changed since then
    switches,   \* changes of the settings so far
    timer,      \* the next tick is scheduled
    inFlight,   \* tickInFlight
    body,       \* the tick bodies
    attempts    \* unblockAttempts of the tasks

settings == <<enabled, persisted, handled, altered, switches>>
control == <<running, settings, timer, inFlight, attempts>>
dispatcher == <<control, body>>
allVars == <<vars, dispatcher>>

NoBody == [pc |-> "idle", rearm |-> FALSE, late |-> FALSE, slots |-> 0, pairs |-> {},
           reviewers |-> {}, blocked |-> {}, pair |-> None, session |-> None, held |-> None]
Pairs == Tasks \X Agents
Held == [id : Tasks, seen : TaskRecord, attempts : 0 .. MaxAttempts]

\* rearm: the timer follows its end; late: the deadline fired; held: a task as read
\* before an await.
BodyRecord ==
    [pc : {"idle", "scoring", "dispatch", "assigned", "starting", "reviewers",
           "selecting", "unblock", "asking"},
     rearm : BOOLEAN, late : BOOLEAN, slots : 0 .. MaxConcurrentAgents,
     pairs : SUBSET Pairs, reviewers : SUBSET Tasks, blocked : SUBSET Tasks,
     pair : Pairs \cup {None}, session : Sessions \cup {None}, held : Held \cup {None}]

DispatcherTypeOK ==
    /\ running \in BOOLEAN /\ enabled \in BOOLEAN /\ persisted \in BOOLEAN \cup {None}
    /\ handled \in BOOLEAN \cup {None} /\ altered \in BOOLEAN
    /\ switches \in 0 .. MaxSwitches
    /\ timer \in BOOLEAN /\ inFlight \in BOOLEAN
    /\ body \in [Bodies -> BodyRecord]
    /\ attempts \in [Tasks -> 0 .. MaxAttempts]

\* initialAutopilotConfig.enabled starts the dispatcher; its first tick is due.
DispatcherInit ==
    /\ Init
    /\ persisted \in InitialSettings
    /\ running = (persisted = TRUE) /\ enabled = running /\ timer = running
    /\ handled = persisted /\ altered = FALSE /\ switches = 0
    /\ inFlight = FALSE
    /\ body = [b \in Bodies |-> NoBody]
    /\ attempts = [t \in Tasks |-> 0]

-----------------------------------------------------------------------------
(* A tick begins and ends.                                                 *)

RunningAgents == {a \in Agents : agent[a].status = "running"}
FreeAgents == {a \in Agents : agent[a].status = "idle" /\ agent[a].task = None}
TodoTasks == {t \in Tasks : task[t].status = "todo" /\ task[t].agent = None}
RetryTasks ==
    {t \in Tasks : /\ task[t].status = "in_progress" /\ task[t].agent # None
                   /\ agent[task[t].agent].status = "idle"}

\* There is room and something to dispatch; otherwise the whole tick ends here.
SomethingToDo ==
    /\ Cardinality(RunningAgents) < MaxConcurrentAgents
    /\ TodoTasks \cup RetryTasks # {}
    /\ FreeAgents # {}

\* tickBody up to the first await that takes time.
Picture(rearm) ==
    [NoBody EXCEPT
       !.pc = IF AiScored /\ TodoTasks # {} THEN "scoring" ELSE "dispatch",
       !.rearm = rearm,
       !.slots = MaxConcurrentAgents - Cardinality(RunningAgents),
       !.pairs = (TodoTasks \X FreeAgents)
                   \cup {<<t, task[t].agent>> : t \in {u \in RetryTasks : task[u].agent \in FreeAgents}},
       !.reviewers = IF AssignsReviewers
                     THEN {t \in Tasks : task[t].status = "in_progress" /\ ~task[t].reviewers}
                     ELSE {},
       !.blocked = IF Unblocks
                   THEN {t \in Tasks : task[t].status = "blocked" /\ attempts[t] < MaxAttempts}
                   ELSE {}]

\* The end of tick(): its `finally` arms the timer if the dispatcher runs; mutated,
\* only if no tick is in flight.
ArmedIfFree(rearm) == timer \/ (rearm /\ running /\ ~inFlight)
Armed(rearm) == timer \/ (rearm /\ running)

\* The config as tickBody reads it again.
Fresh(e) == IF persisted = None THEN e ELSE persisted

\* tick(): nothing while another tick is in flight; else the config is read again
\* and the body runs. armed is the timer when the tick has to wait for its body.
Tick(rearm, armed, armedAtEnd) ==
    \/ /\ inFlight
       /\ timer' = armedAtEnd
       /\ UNCHANGED <<inFlight, body>>
    \/ /\ ~inFlight /\ ~SomethingToDo
       /\ timer' = armedAtEnd
       /\ UNCHANGED <<inFlight, body>>
    \/ /\ ~inFlight /\ SomethingToDo
       /\ timer' = armed /\ inFlight' = TRUE
       /\ \E b \in Bodies : /\ body[b].pc = "idle"
                            /\ body' = [body EXCEPT ![b] = Picture(rearm)]

TimerFires ==
    /\ timer
    /\ Tick(TRUE, FALSE, running)
    /\ enabled' = IF inFlight THEN enabled ELSE Fresh(enabled)
    /\ UNCHANGED <<running, persisted, handled, altered, switches, attempts, vars>>

ForceTick ==
    /\ Tick(FALSE, timer, timer)
    /\ enabled' = IF inFlight THEN enabled ELSE Fresh(enabled)
    /\ UNCHANGED <<running, persisted, handled, altered, switches, attempts, vars>>

\* The guard once the body has settled; mutated, a late body keeps it.
HeldIfLate(b) == body[b].late
HeldAfter(b) == FALSE

\* The body settles. Its tick is over by then if the deadline has fired.
BodyEnds(b) ==
    /\ body' = [body EXCEPT ![b] = NoBody]
    /\ inFlight' = HeldAfter(b)
    /\ timer' = IF body[b].late THEN timer ELSE Armed(body[b].rearm)
    /\ UNCHANGED <<running, settings>>

\* The guard while a timed-out body unwinds; mutated, the deadline releases it.
ReleasedAtDeadline == FALSE
HeldAtDeadline == inFlight

\* Two minutes have passed: tick() returns, its body goes on to its next check.
Deadline(b) ==
    /\ body[b].pc # "idle" /\ ~body[b].late
    /\ body' = [body EXCEPT ![b].late = TRUE]
    /\ timer' = Armed(body[b].rearm)
    /\ inFlight' = HeldAtDeadline
    /\ UNCHANGED <<running, settings, attempts, vars>>

-----------------------------------------------------------------------------
(* The body: scoring, assignment, start.                                   *)

Scored(b) ==
    /\ body[b].pc = "scoring"
    /\ \/ /\ ~body[b].late
          /\ body' = [body EXCEPT ![b].pc = "dispatch"]
          /\ UNCHANGED <<running, settings, timer, inFlight>>
       \/ body[b].late /\ BodyEnds(b)
    /\ UNCHANGED <<attempts, vars>>

Dispatching(b) == body[b].pc = "dispatch" /\ ~body[b].late /\ body[b].slots > 0

\* A pair is tried: assignTask succeeds, or the pair is dropped. What follows is in
\* the same turn.
AssignPair(b) ==
    /\ Dispatching(b)
    /\ \E p \in body[b].pairs :
         \/ /\ AssignTask(p[2], p[1])
            /\ body' = [body EXCEPT ![b].pc = "assigned", ![b].pair = p, ![b].slots = @ - 1]
         \/ /\ ~Startable(p[2]) \/ ~Exists(p[1])
            /\ body' = [body EXCEPT ![b].pairs = @ \ {p}]
            /\ UNCHANGED vars
    /\ UNCHANGED control

\* The pair was used: nothing else in this tick is for its task or its agent.
Used(b) ==
    [body EXCEPT ![b].pc = "dispatch", ![b].pair = None, ![b].session = None,
                 ![b].pairs = {p \in @ : p[1] # body[b].pair[1] /\ p[2] # body[b].pair[2]}]

\* The pair was rolled back: its task, agent and slot are free for other pairs;
\* mutated, the slot is given back twice.
RegainsSlotTwice(b) == body[b].slots + 2
RegainsSlot(b) == body[b].slots + 1
RolledBack(b) ==
    [body EXCEPT ![b].pc = "dispatch", ![b].pair = None, ![b].session = None,
                 ![b].slots = RegainsSlot(b), ![b].pairs = @ \ {body[b].pair}]

\* unassignTask of main.ts; mutated, the agent keeps its task.
Kept(a) == agent[a]
Freed(a) == [agent[a] EXCEPT !.task = None, !.status = "idle"]
Unassigned(a, t) ==
    /\ agent' = IF agent[a].task = t THEN [agent EXCEPT ![a] = Freed(a)] ELSE agent
    /\ task' = IF task[t].agent = a THEN [task EXCEPT ![t].agent = None] ELSE task

\* startAgent gets as far as its await, or fails at once and is rolled back; so it
\* does, as if nothing could be spawned, when the bound on sessions is reached.
StartPair(b) ==
    LET t == body[b].pair[1]
        a == body[b].pair[2]
    IN  /\ body[b].pc = "assigned"
        /\ \/ \E u \in Tasks, s \in Sessions :
                /\ StartRun(a, u, s)
                /\ body' = [body EXCEPT ![b].pc = "starting", ![b].session = s]
           \/ /\ \/ ~Startable(a) \/ Starting(a) \/ \A u \in Tasks : ~StartsOn(a, u)
                 \/ \A s \in Sessions : session[s].state # "unused"
              /\ Unassigned(a, t)
              /\ body' = RolledBack(b)
              /\ UNCHANGED session
        /\ UNCHANGED <<due, restarts, control>> /\ KeepsReviews

\* The session a tick waits for has started.
PairStarted(b) ==
    /\ body[b].pc = "starting"
    /\ LET s == body[b].session IN
         \/ PtyCreated(s)
         \/ OwnsAgent(s) /\ MastraImported(s)
    /\ body' = Used(b)
    /\ UNCHANGED control

\* It could not: superseded, or not spawned.
PairFailed(b) ==
    LET s == body[b].session IN
    /\ body[b].pc = "starting"
    /\ IsPty(s) \/ ~OwnsAgent(s)
    /\ session' = [session EXCEPT ![s] = Gone]
    /\ Unassigned(body[b].pair[2], body[b].pair[1])
    /\ body' = RolledBack(b)
    /\ UNCHANGED <<due, restarts, control>> /\ KeepsReviews

\* No pair or slot is left: the reviewers are next; a late body ends.
DispatchEnds(b) ==
    /\ body[b].pc = "dispatch"
    /\ \/ /\ body[b].late /\ BodyEnds(b)
       \/ /\ ~body[b].late
          /\ body[b].slots = 0 \/ body[b].pairs = {}
          /\ body' = [body EXCEPT ![b].pc = "reviewers", ![b].pairs = {}]
          /\ UNCHANGED <<running, settings, timer, inFlight>>
    /\ UNCHANGED <<attempts, vars>>

-----------------------------------------------------------------------------
(* The body: reviewers, blocked tasks.                                     *)

\* assignReviewers or attemptUnblock reads its task and asks a model.
Reads(b, t, pc, left) ==
    body' = [body EXCEPT ![b] = [left EXCEPT !.pc = pc,
               !.held = [id |-> t, seen |-> task[t], attempts |-> attempts[t]]]]

NextReviewed(b) ==
    /\ body[b].pc = "reviewers" /\ ~body[b].late
    /\ \E t \in body[b].reviewers :
         LET left == [body[b] EXCEPT !.reviewers = @ \ {t}] IN
         \/ Exists(t) /\ ~task[t].reviewers /\ Reads(b, t, "selecting", left)
         \/ (~Exists(t) \/ task[t].reviewers) /\ body' = [body EXCEPT ![b] = left]
    /\ UNCHANGED <<control, vars>>

\* The reviewers are written into the task as it was read, or there are none.
ReviewersSelected(b) ==
    /\ body[b].pc = "selecting"
    /\ \/ UNCHANGED <<task, attempts>>
       \/ LET h == body[b].held IN
          /\ task' = [task EXCEPT ![h.id] = [h.seen EXCEPT !.reviewers = TRUE]]
          /\ attempts' = [attempts EXCEPT ![h.id] = h.attempts]
    /\ body' = [body EXCEPT ![b].pc = "reviewers", ![b].held = None]
    /\ UNCHANGED <<agent, session, due, restarts, running, settings, timer, inFlight>>
    /\ KeepsReviews

ReviewersEnd(b) ==
    /\ body[b].pc = "reviewers"
    /\ \/ body[b].late /\ BodyEnds(b)
       \/ /\ ~body[b].late /\ body[b].reviewers = {}
          /\ body' = [body EXCEPT ![b].pc = "unblock"]
          /\ UNCHANGED <<running, settings, timer, inFlight>>
    /\ UNCHANGED <<attempts, vars>>

NextBlocked(b) ==
    /\ body[b].pc = "unblock" /\ ~body[b].late
    /\ \E t \in body[b].blocked :
         LET left == [body[b] EXCEPT !.blocked = @ \ {t}] IN
         \/ Exists(t) /\ Reads(b, t, "asking", left)
         \/ ~Exists(t) /\ body' = [body EXCEPT ![b] = left]
    /\ UNCHANGED <<control, vars>>

\* The attempt is written into the task as it was read; a task that can go on is in
\* progress again and its agent due for a restart.
UnblockAnswered(b) ==
    LET h == body[b].held IN
    /\ body[b].pc = "asking"
    /\ attempts' = [attempts EXCEPT ![h.id] = h.attempts + 1]
    /\ \/ /\ task' = [task EXCEPT ![h.id] = [h.seen EXCEPT !.status = "in_progress"]]
          /\ KickBackOf(h.id, h.seen)
       \/ task' = [task EXCEPT ![h.id] = h.seen] /\ UNCHANGED due
    /\ body' = [body EXCEPT ![b].pc = "unblock", ![b].held = None]
    /\ UNCHANGED <<agent, session, restarts, running, settings, timer, inFlight>>
    /\ KeepsReviews

UnblockEnds(b) ==
    /\ body[b].pc = "unblock"
    /\ body[b].late \/ body[b].blocked = {}
    /\ BodyEnds(b)
    /\ UNCHANGED <<attempts, vars>>

-----------------------------------------------------------------------------
(* The switches, and the rest of the application.                          *)

\* start(): nothing if it runs; else its first tick runs at once, and reads the
\* config again.
Starts ==
    /\ running' = TRUE
    /\ \/ /\ running
          /\ enabled' = TRUE /\ UNCHANGED <<timer, inFlight, body>>
       \/ /\ ~running
          /\ Tick(TRUE, FALSE, TRUE)
          /\ enabled' = IF inFlight THEN TRUE ELSE Fresh(TRUE)

Stops ==
    /\ running' = FALSE /\ enabled' = FALSE /\ timer' = FALSE
    /\ UNCHANGED <<inFlight, body>>

Switches == switches < MaxSwitches /\ switches' = switches + 1

\* orchestrator:toggle: start or stop, then persist.
Toggle ==
    /\ Switches
    /\ Starts \/ Stops
    /\ persisted' = enabled'
    /\ UNCHANGED <<handled, altered, attempts, vars>>

\* orchestrator:set-config, with the enabled flag among the settings.
SetConfig ==
    /\ Switches
    /\ \E e \in BOOLEAN : enabled' = e /\ persisted' = e
    /\ altered' \in {altered, TRUE}
    /\ timer' = (running \/ timer)
    /\ UNCHANGED <<running, handled, inFlight, body, attempts, vars>>

\* config:set, or an edit of desktop.json.
EditConfig ==
    /\ Switches
    /\ persisted' \in BOOLEAN /\ altered' \in {altered, TRUE}
    /\ UNCHANGED <<running, enabled, handled, timer, inFlight, body, attempts, vars>>

\* handleConfigChanged, some time after a write (a debounce; at startup, once the
\* tools are registered): only if the autopilot part is not the one it last saw.
\* A dispatcher that runs and goes on has its timer set anew.
ConfigHandled ==
    /\ handled # persisted \/ altered
    /\ handled' = persisted /\ altered' = FALSE
    /\ \/ /\ persisted = TRUE /\ running
          /\ running' = TRUE /\ enabled' = TRUE /\ timer' = TRUE
          /\ UNCHANGED <<inFlight, body>>
       \/ persisted = TRUE /\ ~running /\ Starts
       \/ persisted # TRUE /\ Stops
    /\ UNCHANGED <<persisted, switches, attempts, vars>>

\* The session is not one a tick waits for.
NotAwaited(s) == \A b \in Bodies : ~(body[b].pc = "starting" /\ body[b].session = s)

\* The steps of AgentTasks; a deleted task leaves its attempts behind.
Others ==
    /\ \/ UserStep \/ ReviewStep
       \/ \E s \in Sessions : (NotAwaited(s) /\ RunStep(s)) \/ Promote(s) \/ Block(s)
       \/ \E a \in Agents : Reconcile(a)
    /\ UNCHANGED dispatcher

RestartAll ==
    /\ RestartApp
    /\ running' = (persisted = TRUE) /\ enabled' = running' /\ timer' = running'
    /\ inFlight' = FALSE /\ body' = [b \in Bodies |-> NoBody]
    /\ handled' = persisted /\ altered' = FALSE
    /\ UNCHANGED <<persisted, switches, attempts>>

BodyStep(b) ==
    \/ Scored(b) \/ AssignPair(b) \/ StartPair(b) \/ PairStarted(b) \/ PairFailed(b)
    \/ DispatchEnds(b) \/ NextReviewed(b) \/ ReviewersSelected(b) \/ ReviewersEnd(b)
    \/ NextBlocked(b) \/ UnblockAnswered(b) \/ UnblockEnds(b)

\* From assignTask to startAgent the event loop does not turn.
InTurn == \E b \in Bodies : body[b].pc = "assigned"

DispatcherNext ==
    \/ \E b \in Bodies : BodyStep(b)
    \/ /\ ~InTurn
       /\ \/ TimerFires \/ ForceTick
          \/ \E b \in Bodies : Deadline(b)
          \/ Toggle \/ SetConfig \/ EditConfig \/ ConfigHandled
          \/ Others \/ RestartAll

DispatcherSpec == DispatcherInit /\ [][DispatcherNext]_allVars

\* Timers fire, models answer, starts settle, and changes of the config are handled.
FairDispatcherSpec ==
    /\ DispatcherSpec
    /\ WF_allVars(~InTurn /\ TimerFires)
    /\ WF_allVars(~InTurn /\ ConfigHandled)
    /\ \A b \in Bodies : WF_allVars(BodyStep(b))

-----------------------------------------------------------------------------
(* Properties.                                                             *)

\* At most one tick body is at work, also when a tick timed out and its body
\* still unwinds while the timer fires or a tick is forced: two bodies would
\* assign the same tasks twice (the comments in tick() on tickInFlight).
OneTickBody == \A b, c \in Bodies : body[b].pc # "idle" /\ body[c].pc # "idle" => b = c

\* A running dispatcher never stops ticking: a tick is due or one is on its way
\* that makes the next one due, through toggles, timeouts and forced ticks.
NeverStalls ==
    running => timer \/ \E b \in Bodies : /\ body[b].pc # "idle"
                                         /\ body[b].rearm /\ ~body[b].late

\* A tick that timed out does not keep later ones out for ever: once its model
\* and its start have answered, the guard is released.
GuardIsReleased == inFlight ~> ~inFlight

-----------------------------------------------------------------------------
(* What comments of the code promise and the code does not keep.           *)

\* A tick gives this agent this task.
Dispatches(t, a) ==
    \E b \in Bodies : body'[b].pc = "assigned" /\ body'[b].pair = <<t, a>>

\* task-dispatcher.ts:5 "subject to concurrency caps": a tick gives work to an
\* agent only while fewer agents run than the cap allows.
CapIsKept ==
    [][ \A t \in Tasks, a \in Agents :
          Dispatches(t, a) => Cardinality(RunningAgents) < MaxConcurrentAgents ]_allVars

\* task-dispatcher.ts:5 "Gather unassigned 'todo' tasks and idle agents": what a
\* tick dispatches is to do and free, or the agent's own task in progress.
DispatchesWhatWaits ==
    [][ \A t \in Tasks, a \in Agents : Dispatches(t, a) =>
          \/ task[t].status = "todo" /\ task[t].agent = None
          \/ task[t].status = "in_progress" /\ task[t].agent = a ]_allVars

\* schema.ts:660 "Whether autopilot should attempt to resolve blocked tasks using
\* AI": while it runs and has free agents, a task that stays blocked is tried.
BlockedIsTried ==
    \A t \in Tasks :
        LET Waits == /\ running /\ FreeAgents # {}
                     /\ task[t].status = "blocked" /\ attempts[t] = 0
        IN  Waits ~> ~Waits

\* tasks.ts:245 "to prevent concurrent read-modify-write races": reviewers that a
\* tick adds to a task leave its status as it is by then.
ReviewersKeepStatus ==
    [][ \A b \in Bodies : ReviewersSelected(b) =>
          \A t \in Tasks : task'[t].status = task[t].status ]_allVars

\* useOrchestrator.ts "Toggle the autopilot on/off.", orchestrator.ts "Persist the
\* full autopilot config": what was switched on is saved as on.
ToggleIsPersisted == [][ ~running /\ running' => persisted' = TRUE ]_allVars

\* OrchestratorSettings.tsx:76 "When on, ... watches the queue and assigns tasks to
\* idle agents on its own": saved as on, the dispatcher comes to run.
EnabledComesToRun == persisted = TRUE ~> running \/ persisted # TRUE
=============================================================================
