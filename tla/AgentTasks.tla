----------------------------- MODULE AgentTasks -----------------------------
(***************************************************************************)
(* Agents, the tasks they work on and the sessions they run                *)
(* (electron/ipc/agents.ts, electron/ipc/tasks.ts, electron/terminal/      *)
(* task-terminal-manager.ts, electron/agent/task-completion.ts).           *)
(*                                                                         *)
(* An agent and a task are two JSON files that point at each other.  Every *)
(* handler reads and writes them within one turn of the event loop, except *)
(* where it awaits: there the step ends, and what it read before the await *)
(* is what it still uses after it.  A run is a PTY process or, for a       *)
(* Mastra agent, a stream inside the main process.                         *)
(***************************************************************************)
EXTENDS Integers, FiniteSets

CONSTANTS
    Agents,
    MastraAgents,       \* the agents whose runtime is Mastra
    Tasks,
    MaxSessions,        \* bound: runs ever started
    MaxRetries,         \* timeouts that are retried (2 in task-completion.ts)
    MaxRestarts,        \* bound: restarts of the application
    MaxReviews,         \* bound: reviews of one task in flight when a run promotes it
    ReviewableTasks,    \* bound: the tasks that may be given reviewers
    UserStatuses,       \* bound: the statuses that users move tasks to
    AssessesComplexity, \* reviewPolicy lets a model decide on the human review
    None                \* no agent, no task, no session

Sessions == 1 .. MaxSessions
Statuses == {"todo", "in_progress", "ai_review", "human_review", "done", "blocked"}

ASSUME ConstantsAssumption ==
    /\ MastraAgents \subseteq Agents
    /\ ReviewableTasks \subseteq Tasks
    /\ UserStatuses \subseteq Statuses
    /\ MaxSessions \in Nat /\ MaxRetries \in Nat /\ MaxRestarts \in Nat
    /\ MaxReviews \in Nat
    /\ AssessesComplexity \in BOOLEAN
    /\ None \notin Agents \cup Tasks \cup Sessions

VARIABLES
    agent,     \* data/agents/<id>.json
    task,      \* data/tasks/<id>.json
    session,   \* the runs: starting, live, told to stop, or gone
    reviews,   \* review processes in flight, per task
    assessed,  \* tasks as read before `await assessComplexity`, with their id
    due,       \* restarts after a kick-back, waiting for their timer
    restarts

vars == <<agent, task, session, reviews, assessed, due, restarts>>

AgentRecord ==
    [status : {"idle", "running", "error", "deleted"},
     task : Tasks \cup {None}, session : Sessions \cup {None}]

TaskRecord ==
    [status : Statuses \cup {"deleted"}, agent : Agents \cup {None},
     session : Sessions \cup {None}, retries : 0 .. MaxRetries, reviewers : BOOLEAN]

\* seen is the task as startAgentRunLocked read it.
SessionRecord ==
    [state : {"unused", "starting", "live", "told", "gone"},
     agent : Agents \cup {None}, task : Tasks \cup {None},
     seen : TaskRecord \cup {None}]

TypeOK ==
    /\ agent \in [Agents -> AgentRecord]
    /\ task \in [Tasks -> TaskRecord]
    /\ session \in [Sessions -> SessionRecord]
    /\ reviews \in [Tasks -> 0 .. MaxReviews + MaxSessions]
    /\ assessed \subseteq [id : Tasks, seen : TaskRecord]
    /\ due \subseteq Agents \X Tasks
    /\ restarts \in 0 .. MaxRestarts

IdleAgent == [status |-> "idle", task |-> None, session |-> None]
NoSession == [state |-> "unused", agent |-> None, task |-> None, seen |-> None]
Gone == [NoSession EXCEPT !.state = "gone"]
NoTask == [status |-> "deleted", agent |-> None, session |-> None, retries |-> 0,
           reviewers |-> FALSE]
NewTask == [NoTask EXCEPT !.status = "todo"]

Init ==
    /\ agent = [a \in Agents |-> IdleAgent]
    /\ task = [t \in Tasks |-> NewTask]
    /\ session = [s \in Sessions |-> NoSession]
    /\ reviews = [t \in Tasks |-> 0]
    /\ assessed = {} /\ due = {} /\ restarts = 0

-----------------------------------------------------------------------------
Exists(t) == task[t].status # "deleted"
Startable(a) == agent[a].status \in {"idle", "error"}
IsPty(s) == session[s].agent \notin MastraAgents

\* agents whose start is between its two halves: startingAgents; mutated, nobody
\* is kept out.
StartingNever(a) == \E s \in Sessions : session[s].agent = a /\ session[s].state = "unused"
Starting(a) == \E s \in Sessions : session[s].agent = a /\ session[s].state = "starting"

\* stopAgentExecution: only a run that got past its start can be told to stop.
StopExecution(s) ==
    IF s \in Sessions /\ session[s].state = "live"
    THEN [session EXCEPT ![s].state = "told"] ELSE session

\* The run of session s is the one the agent is in.
OwnsAgent(s) ==
    LET a == session[s].agent IN agent[a].status = "running" /\ agent[a].session = s

KeepsReviews == UNCHANGED <<reviews, assessed>>

-----------------------------------------------------------------------------
(* Assignment.                                                             *)

\* assignTaskToAgent: both files point at each other, the former partners of
\* both are released. The former agent may be running.
AssignTask(a, t) ==
    /\ Startable(a) /\ Exists(t)
    /\ agent' = [b \in Agents |->
                   IF b = a THEN [agent[a] EXCEPT !.task = t]
                   ELSE IF b = task[t].agent /\ agent[b].task = t
                   THEN [agent[b] EXCEPT !.task = None]
                   ELSE agent[b]]
    /\ task' = [u \in Tasks |->
                  IF u = t THEN [task[t] EXCEPT !.agent = a]
                  ELSE IF u = agent[a].task THEN [task[u] EXCEPT !.agent = None]
                  ELSE task[u]]
    /\ UNCHANGED <<session, due, restarts>> /\ KeepsReviews

\* agents:unassign-task stops a run, and its task is to do again.
UnassignTask(a) ==
    LET t == agent[a].task IN
    /\ agent[a].status # "deleted"
    /\ agent' = [agent EXCEPT ![a] = IF @.status = "running" THEN IdleAgent
                                     ELSE [@ EXCEPT !.task = None]]
    /\ session' = IF agent[a].status = "running" THEN StopExecution(agent[a].session) ELSE session
    /\ task' = [u \in Tasks |->
                  IF u = t /\ Exists(u)
                  THEN [task[u] EXCEPT !.agent = None, !.session = None,
                                       !.status = IF @ = "in_progress" THEN "todo" ELSE @]
                  ELSE task[u]]
    /\ UNCHANGED <<due, restarts>> /\ KeepsReviews

-----------------------------------------------------------------------------
(* The start of a run.                                                     *)

\* The task a start is for: the agent's current one or, when it has none, one
\* that is in progress and still assigned to it.
StartsOn(a, t) ==
    /\ Exists(t)
    /\ \/ agent[a].task = t
       \/ agent[a].task = None /\ task[t].agent = a /\ task[t].status = "in_progress"

\* The task once its run has begun.
Begun(r, s) ==
    [r EXCEPT !.status = IF @ = "todo" THEN "in_progress" ELSE @, !.session = s]

\* startAgentRun up to its first await. A Mastra run is recorded in both files
\* before the await, a PTY run after it.
StartRun(a, t, s) ==
    /\ Startable(a) /\ ~Starting(a) /\ StartsOn(a, t)
    /\ session[s].state = "unused" /\ \A r \in 1 .. s - 1 : session[r].state # "unused"
    /\ session' = [session EXCEPT ![s] =
                     [state |-> "starting", agent |-> a, task |-> t,
                      seen |-> IF a \in MastraAgents THEN None ELSE task[t]]]
    /\ IF a \in MastraAgents
         THEN /\ agent' = [agent EXCEPT ![a] = [status |-> "running", task |-> t, session |-> s]]
              /\ task' = [task EXCEPT ![t] = Begun(@, s)]
         ELSE /\ agent' = [agent EXCEPT ![a].task = t]
              /\ UNCHANGED task

Start(a) ==
    /\ \E t \in Tasks, s \in Sessions : StartRun(a, t, s)
    /\ UNCHANGED <<due, restarts>> /\ KeepsReviews

\* The import of the Mastra module is done: stream, if the run was not stopped.
MastraImported(s) ==
    /\ session[s].state = "starting" /\ ~IsPty(s)
    /\ session' = [session EXCEPT ![s] = IF OwnsAgent(s) THEN [@ EXCEPT !.state = "live"] ELSE Gone]
    /\ UNCHANGED <<agent, task, due, restarts>> /\ KeepsReviews

\* The agent moved on, or the task is gone, while the PTY was created.
Superseded(s) ==
    \/ agent[session[s].agent].status = "deleted"
    \/ agent[session[s].agent].task # session[s].task
    \/ ~Exists(session[s].task)

\* The PTY runs: agent and task are written, the task as it was read before.
PtyCreated(s) ==
    /\ session[s].state = "starting" /\ IsPty(s)
    /\ ~Superseded(s)
    /\ session' = [session EXCEPT ![s].state = "live", ![s].seen = None]
    /\ agent' = [agent EXCEPT ![session[s].agent] =
                   [status |-> "running", task |-> session[s].task, session |-> s]]
    /\ task' = [task EXCEPT ![session[s].task] = Begun(session[s].seen, s)]
    /\ UNCHANGED <<due, restarts>> /\ KeepsReviews

\* It is killed at once, or could not be spawned.
PtyDiscarded(s) ==
    /\ session[s].state = "starting" /\ IsPty(s)
    /\ session' = [session EXCEPT ![s] = Gone]
    /\ UNCHANGED <<agent, task, due, restarts>> /\ KeepsReviews

-----------------------------------------------------------------------------
(* The end of a run.                                                       *)

Codes == {"ok", "soft", "timeout", "crash"}

\* analyzeCompletion; "unknown" is a session that vanished without a code; mutated,
\* one timeout too many is retried.
RetriedOnceMore(t, code) == code = "timeout" /\ task[t].retries <= MaxRetries
Retried(t, code) == code = "timeout" /\ task[t].retries < MaxRetries
NextStatuses(t, code) ==
    CASE code = "unknown" -> {"human_review"}
      [] code \in {"timeout", "crash"} -> {"blocked"}
      [] code = "soft" -> {"ai_review"}
      [] code = "ok" /\ task[t].reviewers -> {"ai_review"}
      [] code = "ok" /\ ~task[t].reviewers -> {"human_review", "done"}

\* A task goes to review; the reviewers start when it has any.
StartReviews(t, next) ==
    reviews' = IF next = "ai_review" /\ task[t].reviewers
               THEN [reviews EXCEPT ![t] = @ + 1] ELSE reviews

\* The exit callback and the reconciler: the agent is free again, or in error
\* after too many crashes, and its task moves on, whatever its status was.
Complete(a, code) ==
    LET t == agent[a].task IN
    /\ \E status \in IF code = "crash" THEN {"idle", "error"} ELSE {"idle"} :
         agent' = [agent EXCEPT ![a] = [IdleAgent EXCEPT !.status = status]]
    /\ \/ /\ t = None \/ (t # None /\ ~Exists(t))
          /\ UNCHANGED <<task, reviews>>
       \/ /\ t # None /\ Exists(t) /\ Retried(t, code)
          /\ task' = [task EXCEPT ![t].retries = @ + 1]
          /\ UNCHANGED reviews
       \/ /\ t # None /\ Exists(t) /\ ~Retried(t, code)
          /\ \E next \in NextStatuses(t, code) :
               /\ task' = [task EXCEPT ![t].status = next]
               /\ StartReviews(t, next)

\* The PTY of the current run exits, by itself or because it was killed; mutated,
\* any run of a running agent counts as its current one.
ExitSettlesAny(s) == agent[session[s].agent].status = "running"
ExitSettles(s) == OwnsAgent(s)

SessionExits(s) ==
    /\ session[s].state \in {"live", "told"} /\ IsPty(s)
    /\ ExitSettles(s)
    /\ session' = [session EXCEPT ![s] = Gone]
    /\ \E code \in Codes : Complete(session[s].agent, code)
    /\ UNCHANGED <<assessed, due, restarts>>

\* A PTY exits that is not the current run: a leftover id is cleared, at most.
StaleSessionExits(s) ==
    LET a == session[s].agent IN
    /\ session[s].state \in {"live", "told"} /\ IsPty(s)
    /\ ~ExitSettles(s)
    /\ session' = [session EXCEPT ![s] = Gone]
    /\ agent' = IF agent[a].session = s /\ agent[a].status # "running"
                THEN [agent EXCEPT ![a].session = None] ELSE agent
    /\ UNCHANGED <<task, due, restarts>> /\ KeepsReviews

\* terminalManager.isAlive, seen from the reconciler; mutated, only a terminal that
\* was closed counts as dead, and not one that went with the application.
NotAliveIfKilled(s) == session[s].state = "told"
NotAlive(s) == session[s].state # "live"

\* The reconciler, every five seconds: a running agent whose PTY is not tracked.
Reconcile(a) ==
    /\ agent[a].status = "running" /\ agent[a].session # None
    /\ a \notin MastraAgents
    /\ NotAlive(agent[a].session)
    /\ Complete(a, "unknown")
    /\ UNCHANGED <<session, assessed, due, restarts>>

\* isOwningTaskRun: the fence before a tool call of a Mastra run may touch the
\* task; mutated, the session is not compared.
OwnsTaskAnyRun(s) ==
    LET r == task[session[s].task] IN
    r.status = "in_progress" /\ r.agent = session[s].agent
OwnsTask(s) ==
    LET r == task[session[s].task] IN
    r.status = "in_progress" /\ r.agent = session[s].agent /\ r.session = s

\* promote_task or block_task frees the agent, but leaves it the session id.
Released(s) ==
    LET a == session[s].agent IN
    agent' = IF OwnsAgent(s) /\ agent[a].task = session[s].task
             THEN [agent EXCEPT ![a].status = "idle", ![a].task = None] ELSE agent

Promote(s) ==
    LET t == session[s].task
        next == IF task[t].reviewers THEN "ai_review" ELSE "human_review"
    IN  /\ session[s].state \in {"live", "told"} /\ ~IsPty(s)
        /\ OwnsTask(s) /\ reviews[t] < MaxReviews
        /\ task' = [task EXCEPT ![t].status = next]
        /\ StartReviews(t, next)
        /\ Released(s)
        /\ UNCHANGED <<session, assessed, due, restarts>>

Block(s) ==
    /\ session[s].state \in {"live", "told"} /\ ~IsPty(s)
    /\ OwnsTask(s)
    /\ task' = [task EXCEPT ![session[s].task].status = "blocked"]
    /\ Released(s)
    /\ UNCHANGED <<session, due, restarts>> /\ KeepsReviews

\* The Mastra stream is over, with or without a tool call; an abort only asks for it.
StreamEnds(s) ==
    /\ session[s].state \in {"live", "told"} /\ ~IsPty(s)
    /\ session' = [session EXCEPT ![s] = Gone]
    /\ agent' = IF ExitSettles(s) THEN [agent EXCEPT ![session[s].agent] = IdleAgent] ELSE agent
    /\ UNCHANGED <<task, due, restarts>> /\ KeepsReviews

-----------------------------------------------------------------------------
(* Reviews.                                                                *)

\* A restart of the agent is scheduled when a task is kicked back.
KickBackOf(t, r) == due' = IF r.agent = None THEN due ELSE due \cup {<<r.agent, t>>}

ReviewApproves(t) ==
    /\ reviews[t] > 0
    /\ reviews' = [reviews EXCEPT ![t] = @ - 1]
    /\ \/ ~Exists(t) /\ UNCHANGED <<task, assessed>>
       \/ /\ Exists(t) /\ ~AssessesComplexity
          /\ \E next \in {"human_review", "done"} : task' = [task EXCEPT ![t].status = next]
          /\ UNCHANGED assessed
       \/ /\ Exists(t) /\ AssessesComplexity
          /\ assessed' = assessed \cup {[id |-> t, seen |-> task[t]]}
          /\ UNCHANGED task
    /\ UNCHANGED <<agent, session, due, restarts>>

\* The model has answered: the task is written as it was read before the question.
ComplexityAssessed ==
    /\ \E x \in assessed, next \in {"human_review", "done"} :
         /\ assessed' = assessed \ {x}
         /\ task' = [task EXCEPT ![x.id] = [x.seen EXCEPT !.status = next]]
    /\ UNCHANGED <<agent, session, reviews, due, restarts>>

ReviewRejects(t) ==
    /\ reviews[t] > 0
    /\ reviews' = [reviews EXCEPT ![t] = @ - 1]
    /\ \/ ~Exists(t) /\ UNCHANGED <<task, due>>
       \/ /\ Exists(t)
          /\ task' = [task EXCEPT ![t].status = "in_progress"]
          /\ KickBackOf(t, task[t])
    /\ UNCHANGED <<agent, session, assessed, restarts>>

\* tasks:kick-back
KickBack(t) ==
    /\ task[t].status \in {"ai_review", "human_review"}
    /\ task' = [task EXCEPT ![t].status = "in_progress"]
    /\ KickBackOf(t, task[t])
    /\ UNCHANGED <<agent, session, restarts>> /\ KeepsReviews

\* The timer of a kick-back fires: the agent starts, or it cannot.
RestartDue(a, t) ==
    /\ <<a, t>> \in due
    /\ due' = due \ {<<a, t>>}
    /\ \/ \E u \in Tasks, s \in Sessions : StartRun(a, u, s)
       \/ /\ ~Startable(a) \/ Starting(a) \/ \A u \in Tasks : ~StartsOn(a, u)
          /\ UNCHANGED <<agent, task, session>>
    /\ UNCHANGED restarts /\ KeepsReviews

-----------------------------------------------------------------------------
(* The user, and the application itself.                                   *)

\* TASK_TRANSITIONS, and those of them that automation may use.
AutomaticMoves ==
    {<<"todo", "in_progress">>, <<"in_progress", "human_review">>,
     <<"in_progress", "ai_review">>, <<"in_progress", "done">>,
     <<"in_progress", "blocked">>, <<"ai_review", "human_review">>,
     <<"ai_review", "done">>, <<"ai_review", "in_progress">>,
     <<"blocked", "in_progress">>}
TaskTransitions == AutomaticMoves \cup
    {<<"todo", "done">>, <<"todo", "human_review">>, <<"todo", "blocked">>,
     <<"in_progress", "todo">>, <<"ai_review", "todo">>, <<"human_review", "done">>,
     <<"human_review", "in_progress">>, <<"human_review", "todo">>, <<"done", "todo">>,
     <<"done", "in_progress">>, <<"done", "human_review">>, <<"done", "ai_review">>,
     <<"blocked", "todo">>}

\* tasks:update moves a task along a legal transition, or gives it reviewers.
UpdateTask(t) ==
    /\ Exists(t)
    /\ \/ \E next \in UserStatuses : /\ <<task[t].status, next>> \in TaskTransitions
                                     /\ task' = [task EXCEPT ![t].status = next]
       \/ /\ t \in ReviewableTasks /\ ~task[t].reviewers
          /\ task' = [task EXCEPT ![t].reviewers = TRUE]
    /\ UNCHANGED <<agent, session, due, restarts>> /\ KeepsReviews

\* stopAgentForDeletedTask spares an agent that has another task.
Spared(a, t) == agent[a].task \notin {None, t}

\* tasks:delete: the agent of the task is stopped first.
DeleteTask(t) ==
    LET a == task[t].agent IN
    /\ Exists(t)
    /\ task' = [task EXCEPT ![t] = NoTask]
    /\ \/ /\ a = None \/ (a # None /\ (agent[a].status = "deleted" \/ Spared(a, t)))
          /\ UNCHANGED <<agent, session>>
       \/ /\ a # None /\ agent[a].status # "deleted" /\ ~Spared(a, t)
          /\ session' = StopExecution(agent[a].session)
          /\ agent' = [agent EXCEPT ![a] = IdleAgent]
    /\ UNCHANGED <<due, restarts>> /\ KeepsReviews

\* agents:stop: a task in progress goes to a human, and keeps its agent.
StopAgent(a) ==
    LET t == agent[a].task IN
    /\ agent[a].status # "deleted"
    /\ session' = StopExecution(agent[a].session)
    /\ agent' = [agent EXCEPT ![a] = IdleAgent]
    /\ task' = [u \in Tasks |->
                  IF u = t /\ Exists(u)
                  THEN [task[u] EXCEPT !.session = None,
                                       !.status = IF @ = "in_progress" THEN "human_review" ELSE @]
                  ELSE task[u]]
    /\ UNCHANGED <<due, restarts>> /\ KeepsReviews

\* agents:delete
DeleteAgent(a) ==
    /\ agent[a].status # "deleted"
    /\ session' = StopExecution(agent[a].session)
    /\ agent' = [agent EXCEPT ![a] = [IdleAgent EXCEPT !.status = "deleted"]]
    /\ task' = [u \in Tasks |->
                  IF u = agent[a].task THEN [task[u] EXCEPT !.agent = None] ELSE task[u]]
    /\ UNCHANGED <<due, restarts>> /\ KeepsReviews

\* tasks:terminal-kill: the terminal of a run is closed behind its agent's back.
KillTerminal(s) ==
    /\ session[s].state = "live" /\ IsPty(s)
    /\ session' = StopExecution(s)
    /\ UNCHANGED <<agent, task, due, restarts>> /\ KeepsReviews

\* The application ends and comes back: the files stay, nothing in memory does.
RestartApp ==
    /\ restarts < MaxRestarts
    /\ restarts' = restarts + 1
    /\ session' = [s \in Sessions |->
                     IF session[s].state = "unused" THEN NoSession ELSE Gone]
    /\ reviews' = [t \in Tasks |-> 0] /\ assessed' = {} /\ due' = {}
    /\ UNCHANGED <<agent, task>>

-----------------------------------------------------------------------------
UserStep ==
    \/ \E a \in Agents : UnassignTask(a) \/ Start(a) \/ StopAgent(a) \/ DeleteAgent(a)
    \/ \E a \in Agents, t \in Tasks : AssignTask(a, t)
    \/ \E t \in Tasks : UpdateTask(t) \/ DeleteTask(t) \/ KickBack(t)
    \/ \E s \in Sessions : KillTerminal(s)

RunStep(s) ==
    \/ MastraImported(s) \/ PtyCreated(s) \/ PtyDiscarded(s)
    \/ SessionExits(s) \/ StaleSessionExits(s) \/ StreamEnds(s)

ReviewStep ==
    \/ \E t \in Tasks : ReviewApproves(t) \/ ReviewRejects(t)
    \/ ComplexityAssessed
    \/ \E a \in Agents, t \in Tasks : RestartDue(a, t)

Next ==
    \/ UserStep \/ ReviewStep
    \/ \E s \in Sessions : RunStep(s) \/ Promote(s) \/ Block(s)
    \/ \E a \in Agents : Reconcile(a)
    \/ RestartApp

Spec == Init /\ [][Next]_vars

\* What was started gets past its start, what was told to stop ends, and the
\* reconciler runs. A live run may go on for ever: a terminal waits for its user.
FairSpec ==
    /\ Spec
    /\ \A s \in Sessions : WF_vars(session[s].state \in {"starting", "told"} /\ RunStep(s))
    /\ \A a \in Agents : WF_vars(Reconcile(a))

-----------------------------------------------------------------------------
(* Properties.                                                             *)

\* The two files agree: the task an agent is on exists and names that agent,
\* through every assignment, reassignment, start, relink, kick-back and deletion,
\* also those that fall between the two halves of a start. So no agent works on
\* a task of another one, and none on a deleted task.
PointersAgree ==
    \A a \in Agents, t \in Tasks :
        agent[a].task = t => Exists(t) /\ task[t].agent = a

\* No process is orphaned: every PTY that was not told to stop is the session of
\* an agent that knows it is running, so that it can be stopped and its exit
\* counts. This is what startingAgents and the check after
\* terminalManager.create are for.
LivePtyIsOwned ==
    \A s \in Sessions : session[s].state = "live" /\ IsPty(s) => OwnsAgent(s)

\* The end of an old run does not end a newer one: an agent stops running only if
\* its own run ended or was stopped, or moved its own task on (the ownership
\* guards of the exit callback and of the end of a Mastra stream).
NewRunSurvivesOldExit ==
    [][ \A a \in Agents :
          agent[a].status = "running" /\ agent'[a].status # "running"
          => LET s == agent[a].session
                 t == session[s].task
             IN  \/ session'[s].state \in {"starting", "told", "gone"}
                 \/ task[t].session = s /\ task[t].status = "in_progress"
                    /\ task'[t].status # "in_progress" ]_vars

\* A run that lost its task does not move it: work that was given to another
\* agent, or restarted, is promoted or blocked only by the run that is on it now,
\* although an aborted stream may still call its tools.
OnlyTheCurrentRunMovesATask ==
    [][ \A s \in Sessions : Promote(s) \/ Block(s) =>
          \A r \in Sessions : r > s /\ session[r].state = "live" =>
              session[r].task # session[s].task \/ ~OwnsAgent(r) ]_vars

\* A PTY that went away without its exit being seen, closed by the user or lost
\* in a restart, does not leave its agent running for ever.
DeadPtyIsReconciled ==
    \A a \in Agents \ MastraAgents :
        (agent[a].status = "running" /\ session[agent[a].session].state \in {"told", "gone"})
        ~> agent[a].status # "running"

-----------------------------------------------------------------------------
(* What comments of the code promise and the code does not keep.           *)

\* agents.ts:2001 "Their lifecycle is managed by the async IIFE in startAgentRun,
\* not the reconciler": a Mastra agent whose stream is over stops running.
EndedMastraRunIsSettled ==
    \A a \in MastraAgents :
        (agent[a].status = "running" /\ session[agent[a].session].state = "gone")
        ~> agent[a].status # "running"

\* tasks.ts:245 "to prevent concurrent read-modify-write races": the record of a
\* run that starts keeps the status the task has by then.
StartKeepsStatus ==
    [][ \A s \in Sessions : PtyCreated(s) =>
          LET t == session[s].task IN
          task'[t].status = Begun(task[t], s).status ]_vars

\* task-state-machine.ts:8 "by the main process reconciliation loop to apply
\* automated transitions": the end of a run moves its task only along them.
ExitMovesAreLegal ==
    [][ \A s \in Sessions, t \in Tasks :
          SessionExits(s) /\ task'[t].status # task[t].status
          => <<task[t].status, task'[t].status>> \in AutomaticMoves ]_vars

\* task-completion.ts "Soft failure (exit 1): route to AI review for
\* retry/analysis": a task that an exit sends to AI review is being reviewed.
ExitToReviewIsReviewed ==
    [][ \A s \in Sessions, t \in Tasks :
          SessionExits(s) /\ task'[t].status = "ai_review" /\ task[t].status # "ai_review"
          => reviews'[t] > 0 ]_vars

\* task-completion.ts:29 "caller should restart the agent (timeout retry)": a task
\* whose run timed out and is to be retried has its agent due for a restart.
TimeoutRestartsAgent ==
    [][ \A s \in Sessions, t \in Tasks :
          SessionExits(s) /\ task'[t].retries > task[t].retries
          => <<session[s].agent, t>> \in due' ]_vars

\* agents.ts "Start the multi-reviewer process for a task in ai_review status":
\* its verdict is for a task that is still there.
VerdictIsForAReview ==
    [][ \A t \in Tasks :
          reviews'[t] < reviews[t] /\ restarts' = restarts /\ task'[t].status # task[t].status
          => task[t].status = "ai_review" ]_vars

\* agents.ts "it's re-executing work that was already assigned": the restart after
\* a kick-back resumes the task that was kicked back.
RestartResumesTask ==
    [][ \A a \in Agents, t \in Tasks :
          <<a, t>> \in due /\ <<a, t>> \notin due' /\ restarts' = restarts
          => \A s \in Sessions : session[s].state = "unused" /\ session'[s].state # "unused"
                                => session'[s].task = t ]_vars
=============================================================================
