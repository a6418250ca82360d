-------------------------- MODULE AgentTasksProofs --------------------------
(***************************************************************************)
(* Proofs about AgentTasks, for any agents, tasks, runs, retries, restarts *)
(* and reviews.                                                            *)
(***************************************************************************)
EXTENDS AgentTasks, FiniteSetTheorems, TLAPS

\* A run that has an agent and a task.
Underway(s) == session[s].state \in {"starting", "live", "told"}

\* The types that do not depend on a bound of the model, and what a run that is
\* underway refers to.
FilesOK ==
    /\ agent \in [Agents -> AgentRecord]
    /\ task \in [Tasks -> TaskRecord]
    /\ session \in [Sessions -> SessionRecord]
    /\ assessed \subseteq [id : Tasks, seen : TaskRecord]

RunsOK ==
    \A s \in Sessions :
        /\ Underway(s) => session[s].agent \in Agents /\ session[s].task \in Tasks
        /\ session[s].state = "starting" /\ IsPty(s) => session[s].seen \in TaskRecord

TypeInv == FilesOK /\ RunsOK

AllCodes == Codes \cup {"unknown"}

LEMMA RecordValues ==
    /\ IdleAgent \in AgentRecord
    /\ NoTask \in TaskRecord /\ NewTask \in TaskRecord
    /\ NoSession \in SessionRecord /\ Gone \in SessionRecord
    /\ Gone.state = "gone" /\ NoSession.state = "unused"
<1>1. IdleAgent \in AgentRecord
  BY DEF IdleAgent, AgentRecord
<1>2. NoTask \in TaskRecord
  BY ConstantsAssumption DEF NoTask, TaskRecord
<1>3. NewTask \in TaskRecord
  BY <1>2 DEF NewTask, TaskRecord, Statuses
<1>4. NoSession \in SessionRecord /\ Gone \in SessionRecord
  BY DEF NoSession, Gone, SessionRecord
<1> QED
  BY <1>1, <1>2, <1>3, <1>4 DEF NoSession, Gone

LEMMA AgentEdits ==
    ASSUME NEW r \in AgentRecord
    PROVE  /\ \A t \in Tasks \cup {None} : [r EXCEPT !.task = t] \in AgentRecord
           /\ [r EXCEPT !.session = None] \in AgentRecord
           /\ [r EXCEPT !.status = "idle", !.task = None] \in AgentRecord
           /\ \A st \in {"idle", "running", "error", "deleted"} :
                [IdleAgent EXCEPT !.status = st] \in AgentRecord
  BY DEF AgentRecord, IdleAgent

LEMMA TaskEdits ==
    ASSUME NEW r \in TaskRecord
    PROVE  /\ \A st \in Statuses : [r EXCEPT !.status = st] \in TaskRecord
           /\ \A a \in Agents \cup {None} : [r EXCEPT !.agent = a] \in TaskRecord
           /\ \A s \in Sessions : Begun(r, s) \in TaskRecord
           /\ r.retries < MaxRetries => [r EXCEPT !.retries = @ + 1] \in TaskRecord
           /\ [r EXCEPT !.reviewers = TRUE] \in TaskRecord
<1>1. \A s \in Sessions : Begun(r, s) \in TaskRecord
  BY DEF TaskRecord, Begun, Statuses
<1>2. r.retries < MaxRetries => r.retries + 1 \in 0 .. MaxRetries
  BY ConstantsAssumption DEF TaskRecord
<1> QED
  BY <1>1, <1>2 DEF TaskRecord, Statuses

\* Telling a run to stop changes nothing else, and no run but that one.
LEMMA StopExecutionFacts ==
    ASSUME FilesOK, NEW x
    PROVE  /\ StopExecution(x) \in [Sessions -> SessionRecord]
           /\ \A s \in Sessions :
                /\ StopExecution(x)[s].agent = session[s].agent
                /\ StopExecution(x)[s].task = session[s].task
                /\ StopExecution(x)[s].seen = session[s].seen
                /\ \/ StopExecution(x)[s].state = session[s].state
                   \/ session[s].state = "live" /\ StopExecution(x)[s].state = "told"
                /\ s = x => StopExecution(x)[s].state # "live"
  BY DEF StopExecution, FilesOK, SessionRecord

LEMMA NextStatusesType ==
    ASSUME FilesOK, NEW t \in Tasks, NEW code \in AllCodes
    PROVE  NextStatuses(t, code) \subseteq Statuses
<1>1. CASE code = "ok"
  <2>1. task[t].reviewers = TRUE \/ task[t].reviewers = FALSE
    BY DEF FilesOK, TaskRecord
  <2> QED
    BY <1>1, <2>1 DEF NextStatuses, Statuses
<1>2. CASE code # "ok"
  BY <1>2 DEF NextStatuses, Statuses, AllCodes, Codes
<1> QED
  BY <1>1, <1>2

\* What the end of a run does: its agent is free, and its task moves to another
\* status or counts a retry.
LEMMA CompleteFacts ==
    ASSUME FilesOK, NEW a \in Agents, NEW code \in AllCodes, Complete(a, code)
    PROVE  /\ \E st \in {"idle", "error"} :
                agent' = [agent EXCEPT ![a] = [IdleAgent EXCEPT !.status = st]]
           /\ task' \in [Tasks -> TaskRecord]
           /\ \A t \in Tasks : /\ task'[t].agent = task[t].agent
                               /\ task[t].status # "deleted" => task'[t].status # "deleted"
<1>1. \E st \in {"idle", "error"} :
        agent' = [agent EXCEPT ![a] = [IdleAgent EXCEPT !.status = st]]
  BY DEF Complete
<1> DEFINE t == agent[a].task
<1>2. t \in Tasks \cup {None}
  BY DEF FilesOK, AgentRecord
<1>3. CASE UNCHANGED task
  BY <1>1, <1>3 DEF FilesOK
<1>4. CASE /\ t # None /\ Exists(t) /\ Retried(t, code)
           /\ task' = [task EXCEPT ![t].retries = @ + 1]
  <2>1. t \in Tasks /\ task[t] \in TaskRecord
    BY <1>2, <1>4 DEF FilesOK
  <2>2. [task[t] EXCEPT !.retries = @ + 1] \in TaskRecord
    BY <1>4, <2>1, TaskEdits DEF Retried
  <2>3. task' = [task EXCEPT ![t] = [task[t] EXCEPT !.retries = @ + 1]]
    BY <1>4
  <2>4. task' \in [Tasks -> TaskRecord]
    BY <2>1, <2>2, <2>3 DEF FilesOK
  <2> QED
    BY <1>1, <1>4, <2>1, <2>4 DEF FilesOK, TaskRecord
<1>5. ASSUME t # None, NEW next \in NextStatuses(t, code),
             task' = [task EXCEPT ![t].status = next]
      PROVE  /\ task' \in [Tasks -> TaskRecord]
             /\ \A u \in Tasks : /\ task'[u].agent = task[u].agent
                                 /\ task[u].status # "deleted" => task'[u].status # "deleted"
  <2>1. t \in Tasks /\ task[t] \in TaskRecord
    BY <1>2, <1>5 DEF FilesOK
  <2>2. next \in Statuses /\ next # "deleted"
    BY <2>1, NextStatusesType DEF Statuses
  <2>3. task' \in [Tasks -> TaskRecord]
    BY <1>5, <2>1, <2>2, TaskEdits DEF FilesOK
  <2> QED
    BY <1>5, <2>1, <2>2, <2>3 DEF FilesOK, TaskRecord
<1> QED
  BY <1>1, <1>3, <1>4, <1>5 DEF Complete

-----------------------------------------------------------------------------
(* Most steps begin no run: they leave runs alone, tell them to stop or end *)
(* them.                                                                    *)

NoRunBegins ==
    /\ session' \in [Sessions -> SessionRecord]
    /\ \A s \in Sessions : session'[s].state \in {"starting", "live", "told"} =>
         /\ session'[s].agent = session[s].agent
         /\ session'[s].task = session[s].task
         /\ session'[s].seen = session[s].seen
         /\ \/ session'[s].state = session[s].state
            \/ session[s].state = "live" /\ session'[s].state = "told"

LEMMA QuietSessions ==
    ASSUME FilesOK,
           \/ UNCHANGED session
           \/ \E x : session' = StopExecution(x)
           \/ \E s \in Sessions : session' = [session EXCEPT ![s] = Gone]
    PROVE  NoRunBegins
<1>1. CASE UNCHANGED session
  BY <1>1 DEF NoRunBegins, FilesOK
<1>2. ASSUME NEW x, session' = StopExecution(x)
      PROVE  NoRunBegins
  BY <1>2, StopExecutionFacts DEF NoRunBegins
<1>3. ASSUME NEW s \in Sessions, session' = [session EXCEPT ![s] = Gone]
      PROVE  NoRunBegins
  BY <1>3, RecordValues DEF NoRunBegins, FilesOK
<1> QED
  BY <1>1, <1>2, <1>3

LEMMA RunsKept == RunsOK /\ NoRunBegins => RunsOK'
  BY DEF RunsOK, NoRunBegins, Underway, IsPty

\* One task changes; the others stay as they are.
LEMMA OneTaskType ==
    ASSUME FilesOK, NEW t \in Tasks, NEW r \in TaskRecord, task' = [task EXCEPT ![t] = r]
    PROVE  task' \in [Tasks -> TaskRecord]
  BY DEF FilesOK

\* The steps that begin no run.
QuietStep ==
    \/ \E a \in Agents : UnassignTask(a) \/ StopAgent(a) \/ DeleteAgent(a) \/ Reconcile(a)
    \/ \E a \in Agents, t \in Tasks : AssignTask(a, t)
    \/ \E t \in Tasks : UpdateTask(t) \/ DeleteTask(t) \/ KickBack(t)
                       \/ ReviewApproves(t) \/ ReviewRejects(t)
    \/ ComplexityAssessed
    \/ \E s \in Sessions : KillTerminal(s) \/ PtyDiscarded(s) \/ SessionExits(s)
                          \/ StaleSessionExits(s) \/ StreamEnds(s)
                          \/ Promote(s) \/ Block(s)
    \/ RestartApp

\* A run of agent a on task t begins its start.
StartStep(a) ==
    /\ \E t \in Tasks, s \in Sessions : StartRun(a, t, s)
    /\ UNCHANGED assessed

LEMMA NextCases ==
    ASSUME [Next]_vars
    PROVE  \/ QuietStep
           \/ \E a \in Agents : StartStep(a)
           \/ \E s \in Sessions : MastraImported(s) \/ PtyCreated(s)
           \/ UNCHANGED <<agent, task, session, assessed>>
<1>1. ASSUME NEW a \in Agents, Start(a)
      PROVE  StartStep(a)
  BY <1>1 DEF Start, StartStep, KeepsReviews
<1>2. ASSUME NEW a \in Agents, NEW t \in Tasks, RestartDue(a, t)
      PROVE  StartStep(a) \/ UNCHANGED <<agent, task, session, assessed>>
  BY <1>2 DEF RestartDue, StartStep, KeepsReviews
<1>3. CASE UserStep
  BY <1>1, <1>3 DEF UserStep, QuietStep
<1>4. CASE ReviewStep
  BY <1>2, <1>4 DEF ReviewStep, QuietStep
<1>5. ASSUME NEW s \in Sessions, RunStep(s) \/ Promote(s) \/ Block(s)
      PROVE  QuietStep \/ MastraImported(s) \/ PtyCreated(s)
  BY <1>5 DEF RunStep, QuietStep
<1>6. CASE (\E a \in Agents : Reconcile(a)) \/ RestartApp
  BY <1>6 DEF QuietStep
<1>7. CASE UNCHANGED vars
  BY <1>7 DEF vars
<1> QED
  BY <1>3, <1>4, <1>5, <1>6, <1>7 DEF Next

LEMMA QuietNoRun ==
    ASSUME TypeInv, QuietStep
    PROVE  NoRunBegins
<1> FilesOK
  BY DEF TypeInv
<1>1. CASE RestartApp
  BY <1>1, RecordValues DEF RestartApp, NoRunBegins
<1>2. CASE ~RestartApp
  <2>1. \/ UNCHANGED session
        \/ \E x : session' = StopExecution(x)
        \/ \E s \in Sessions : session' = [session EXCEPT ![s] = Gone]
    BY <1>2
    DEF QuietStep, UnassignTask, StopAgent, DeleteAgent, Reconcile, AssignTask, UpdateTask,
        DeleteTask, KickBack, ReviewApproves, ReviewRejects, ComplexityAssessed, KillTerminal,
        PtyDiscarded, SessionExits, StaleSessionExits, StreamEnds, Promote, Block
  <2> QED
    BY <2>1, QuietSessions
<1> QED
  BY <1>1, <1>2

LEMMA QuietAgentType ==
    ASSUME TypeInv, QuietStep
    PROVE  agent' \in [Agents -> AgentRecord]
<1> USE RecordValues DEF TypeInv, FilesOK
<1> DEFINE Typed == agent' \in [Agents -> AgentRecord]
<1>1. ASSUME NEW a \in Agents, NEW r \in AgentRecord, agent' = [agent EXCEPT ![a] = r]
      PROVE  Typed
  BY <1>1
<1>2. ASSUME NEW a \in Agents, UnassignTask(a)
      PROVE  Typed
  <2>1. [agent[a] EXCEPT !.task = None] \in AgentRecord
    BY AgentEdits
  <2> QED
    BY <1>1, <1>2, <2>1 DEF UnassignTask
<1>3. ASSUME NEW a \in Agents, StopAgent(a) \/ DeleteAgent(a)
      PROVE  Typed
  BY <1>1, <1>3, AgentEdits DEF StopAgent, DeleteAgent
<1>4. ASSUME NEW a \in Agents, NEW code \in AllCodes, Complete(a, code)
      PROVE  Typed
  BY <1>4, <1>1, CompleteFacts, AgentEdits
<1>5. ASSUME NEW a \in Agents, Reconcile(a)
      PROVE  Typed
  BY <1>4, <1>5 DEF Reconcile, AllCodes
<1>6. ASSUME NEW a \in Agents, NEW t \in Tasks, AssignTask(a, t)
      PROVE  Typed
  <2>1. \A b \in Agents, u \in Tasks \cup {None} : [agent[b] EXCEPT !.task = u] \in AgentRecord
    BY AgentEdits
  <2> QED
    BY <1>6, <2>1 DEF AssignTask
<1>7. ASSUME NEW t \in Tasks, DeleteTask(t)
      PROVE  Typed
  <2>1. task[t].agent \in Agents \cup {None}
    BY DEF TaskRecord
  <2> QED
    BY <1>7, <2>1, <1>1 DEF DeleteTask
<1>8. ASSUME NEW s \in Sessions, SessionExits(s)
      PROVE  Typed
  <2>1. session[s].agent \in Agents
    BY <1>8 DEF SessionExits, RunsOK, Underway
  <2> QED
    BY <1>4, <1>8, <2>1 DEF SessionExits, AllCodes
<1>9. ASSUME NEW s \in Sessions, StaleSessionExits(s)
      PROVE  Typed
  <2>1. session[s].agent \in Agents
    BY <1>9 DEF StaleSessionExits, RunsOK, Underway
  <2> QED
    BY <1>9, <2>1, AgentEdits, <1>1 DEF StaleSessionExits
<1>10. ASSUME NEW s \in Sessions, StreamEnds(s)
       PROVE  Typed
  <2>1. session[s].agent \in Agents
    BY <1>10 DEF StreamEnds, RunsOK, Underway
  <2> QED
    BY <1>10, <2>1, <1>1 DEF StreamEnds
<1>11. ASSUME NEW s \in Sessions, Promote(s) \/ Block(s)
       PROVE  Typed
  <2>1. session[s].agent \in Agents
    BY <1>11 DEF Promote, Block, RunsOK, Underway
  <2>2. Released(s)
    BY <1>11 DEF Promote, Block
  <2> QED
    BY <2>1, <2>2, <1>1, AgentEdits DEF Released
<1>12. CASE UNCHANGED agent
  BY <1>12
<1>13. ASSUME NEW t \in Tasks,
              \/ UpdateTask(t) \/ KickBack(t) \/ ReviewApproves(t) \/ ReviewRejects(t)
       PROVE  Typed
  BY <1>13 DEF UpdateTask, KickBack, ReviewApproves, ReviewRejects
<1>14. ASSUME NEW s \in Sessions, KillTerminal(s) \/ PtyDiscarded(s)
       PROVE  Typed
  BY <1>14 DEF KillTerminal, PtyDiscarded
<1>15. CASE ComplexityAssessed \/ RestartApp
  BY <1>15 DEF ComplexityAssessed, RestartApp
<1> QED
  BY <1>2, <1>3, <1>5, <1>6, <1>7, <1>8, <1>9, <1>10, <1>11, <1>13, <1>14, <1>15 DEF QuietStep

\* What a task becomes that is taken from its agent, or whose agent is stopped.
LEMMA TaskReleases ==
    ASSUME NEW r \in TaskRecord
    PROVE  /\ [r EXCEPT !.agent = None, !.session = None,
                        !.status = IF @ = "in_progress" THEN "todo" ELSE @] \in TaskRecord
           /\ [r EXCEPT !.session = None,
                        !.status = IF @ = "in_progress" THEN "human_review" ELSE @] \in TaskRecord
<1>1. /\ r.status \in Statuses \cup {"deleted"}
      /\ "todo" \in Statuses /\ "human_review" \in Statuses
  BY DEF TaskRecord, Statuses
<1>2. [r EXCEPT !.agent = None, !.session = None,
                !.status = IF @ = "in_progress" THEN "todo" ELSE @] \in TaskRecord
  BY <1>1 DEF TaskRecord
<1>3. [r EXCEPT !.session = None,
                !.status = IF @ = "in_progress" THEN "human_review" ELSE @] \in TaskRecord
  BY <1>1 DEF TaskRecord
<1> QED
  BY <1>2, <1>3

LEMMA QuietTaskType ==
    ASSUME TypeInv, QuietStep
    PROVE  /\ task' \in [Tasks -> TaskRecord]
           /\ assessed' \subseteq [id : Tasks, seen : TaskRecord]
<1> USE RecordValues DEF TypeInv, FilesOK
<1> DEFINE Typed == task' \in [Tasks -> TaskRecord]
           Assessed == assessed' \subseteq [id : Tasks, seen : TaskRecord]
<1>1. ASSUME NEW t \in Tasks, NEW st \in Statuses, task' = [task EXCEPT ![t].status = st]
      PROVE  Typed
  BY <1>1, TaskEdits
<1>2. Statuses \subseteq Statuses \cup {"deleted"} /\
      {"todo", "in_progress", "ai_review", "human_review", "done", "blocked"} \subseteq Statuses
  BY DEF Statuses
<1>3. ASSUME NEW a \in Agents, UnassignTask(a) \/ StopAgent(a)
      PROVE  Typed /\ Assessed
  <2>1. ASSUME NEW r \in TaskRecord
        PROVE  /\ [r EXCEPT !.agent = None, !.session = None,
                            !.status = IF @ = "in_progress" THEN "todo" ELSE @] \in TaskRecord
               /\ [r EXCEPT !.session = None,
                            !.status = IF @ = "in_progress" THEN "human_review" ELSE @] \in TaskRecord
    BY TaskReleases
  <2> QED
    <3>1. CASE UnassignTask(a)
      <4>1. \A u \in Tasks : task'[u] \in TaskRecord
        BY <2>1, <3>1 DEF UnassignTask
      <4> QED
        BY <3>1, <4>1 DEF UnassignTask, KeepsReviews
    <3>2. CASE StopAgent(a)
      <4>1. \A u \in Tasks : task'[u] \in TaskRecord
        BY <2>1, <3>2 DEF StopAgent
      <4> QED
        BY <3>2, <4>1 DEF StopAgent, KeepsReviews
    <3> QED
      BY <1>3, <3>1, <3>2
<1>4. ASSUME NEW a \in Agents, DeleteAgent(a)
      PROVE  Typed /\ Assessed
  BY <1>4, TaskEdits DEF DeleteAgent, KeepsReviews
<1>5. ASSUME NEW a \in Agents, NEW t \in Tasks, AssignTask(a, t)
      PROVE  Typed /\ Assessed
  BY <1>5, TaskEdits DEF AssignTask, KeepsReviews
<1>6. ASSUME NEW a \in Agents, Reconcile(a)
      PROVE  Typed /\ Assessed
  BY <1>6, CompleteFacts DEF Reconcile, AllCodes
<1>7. ASSUME NEW t \in Tasks, UpdateTask(t) \/ DeleteTask(t) \/ KickBack(t)
      PROVE  Typed /\ Assessed
  <2>1. CASE UpdateTask(t)
    <3>1. ASSUME NEW next \in UserStatuses, task' = [task EXCEPT ![t].status = next]
          PROVE  Typed
      BY <1>1, <3>1, ConstantsAssumption
    <3>2. ASSUME task' = [task EXCEPT ![t].reviewers = TRUE]
          PROVE  Typed
      BY <3>2, TaskEdits
    <3> QED
      BY <2>1, <3>1, <3>2 DEF UpdateTask, KeepsReviews
  <2>2. CASE DeleteTask(t)
    BY <2>2 DEF DeleteTask, KeepsReviews
  <2>3. CASE KickBack(t)
    BY <1>1, <1>2, <2>3 DEF KickBack, KeepsReviews
  <2> QED
    BY <1>7, <2>1, <2>2, <2>3
<1>8. ASSUME NEW t \in Tasks, ReviewApproves(t)
      PROVE  Typed /\ Assessed
  <2>1. [id |-> t, seen |-> task[t]] \in [id : Tasks, seen : TaskRecord]
    OBVIOUS
  <2> QED
    BY <1>1, <1>2, <1>8, <2>1 DEF ReviewApproves
<1>9. ASSUME NEW t \in Tasks, ReviewRejects(t)
      PROVE  Typed /\ Assessed
  BY <1>1, <1>2, <1>9 DEF ReviewRejects
<1>10. CASE ComplexityAssessed
  <2>1. PICK x \in assessed, next \in {"human_review", "done"} :
          /\ assessed' = assessed \ {x}
          /\ task' = [task EXCEPT ![x.id] = [x.seen EXCEPT !.status = next]]
    BY <1>10 DEF ComplexityAssessed
  <2>2. x.id \in Tasks /\ x.seen \in TaskRecord
    OBVIOUS
  <2> QED
    BY <1>2, <2>1, <2>2, TaskEdits
<1>11. ASSUME NEW s \in Sessions, SessionExits(s)
       PROVE  Typed /\ Assessed
  <2>1. session[s].agent \in Agents
    BY <1>11 DEF SessionExits, RunsOK, Underway
  <2> QED
    BY <1>11, <2>1, CompleteFacts DEF SessionExits, AllCodes
<1>12. ASSUME NEW s \in Sessions, Promote(s) \/ Block(s)
       PROVE  Typed /\ Assessed
  <2>1. session[s].task \in Tasks
    BY <1>12 DEF Promote, Block, RunsOK, Underway
  <2> QED
    BY <1>1, <1>2, <1>12, <2>1 DEF Promote, Block, KeepsReviews
<1>13. ASSUME NEW s \in Sessions,
              KillTerminal(s) \/ PtyDiscarded(s) \/ StaleSessionExits(s) \/ StreamEnds(s)
       PROVE  Typed /\ Assessed
  BY <1>13 DEF KillTerminal, PtyDiscarded, StaleSessionExits, StreamEnds, KeepsReviews
<1>14. CASE RestartApp
  BY <1>14 DEF RestartApp
<1> QED
  BY <1>3, <1>4, <1>5, <1>6, <1>7, <1>8, <1>9, <1>10, <1>11, <1>12, <1>13, <1>14 DEF QuietStep

LEMMA StartType ==
    ASSUME TypeInv, NEW a \in Agents, StartStep(a)
    PROVE  TypeInv'
<1>1. PICK t \in Tasks, s \in Sessions : StartRun(a, t, s)
  BY DEF StartStep
<1> DEFINE new == [state |-> "starting", agent |-> a, task |-> t,
                   seen |-> IF a \in MastraAgents THEN None ELSE task[t]]
<1>2. new \in SessionRecord
  BY DEF SessionRecord, TypeInv, FilesOK
<1>3. session' = [session EXCEPT ![s] = new]
  BY <1>1 DEF StartRun
<1>4. session' \in [Sessions -> SessionRecord]
  BY <1>2, <1>3 DEF TypeInv, FilesOK
<1>5. task' \in [Tasks -> TaskRecord]
  <2>1. Begun(task[t], s) \in TaskRecord
    BY TaskEdits DEF TypeInv, FilesOK
  <2>2. task' = [task EXCEPT ![t] = Begun(task[t], s)] \/ UNCHANGED task
    BY <1>1 DEF StartRun
  <2> QED
    BY <2>1, <2>2 DEF TypeInv, FilesOK
<1>6. agent' \in [Agents -> AgentRecord]
  <2>1. [status |-> "running", task |-> t, session |-> s] \in AgentRecord
    BY DEF AgentRecord
  <2>2. [agent[a] EXCEPT !.task = t] \in AgentRecord
    BY AgentEdits DEF TypeInv, FilesOK
  <2>3. \/ agent' = [agent EXCEPT ![a] = [status |-> "running", task |-> t, session |-> s]]
        \/ agent' = [agent EXCEPT ![a] = [agent[a] EXCEPT !.task = t]]
    BY <1>1 DEF StartRun
  <2> QED
    BY <2>1, <2>2, <2>3 DEF TypeInv, FilesOK
<1>7. RunsOK'
  <2> SUFFICES ASSUME NEW r \in Sessions
               PROVE  /\ Underway(r)' => session'[r].agent \in Agents /\ session'[r].task \in Tasks
                      /\ session'[r].state = "starting" /\ IsPty(r)' => session'[r].seen \in TaskRecord
    BY DEF RunsOK
  <2>1. CASE r = s
    BY <1>3, <2>1 DEF TypeInv, FilesOK, IsPty
  <2>2. CASE r # s
    BY <1>3, <2>2 DEF TypeInv, FilesOK, RunsOK, IsPty, Underway
  <2> QED
    BY <2>1, <2>2
<1> QED
  BY <1>4, <1>5, <1>6, <1>7 DEF StartStep, TypeInv, FilesOK

LEMMA StartedType ==
    ASSUME TypeInv, NEW s \in Sessions, MastraImported(s) \/ PtyCreated(s)
    PROVE  TypeInv'
<1> USE RecordValues DEF TypeInv, FilesOK
<1>1. session[s].agent \in Agents /\ session[s].task \in Tasks
  BY DEF MastraImported, PtyCreated, RunsOK, Underway
<1>2. CASE MastraImported(s)
  <2>1. PICK r \in SessionRecord :
          /\ session' = [session EXCEPT ![s] = r]
          /\ r = Gone \/ r = [session[s] EXCEPT !.state = "live"]
    <3>1. [session[s] EXCEPT !.state = "live"] \in SessionRecord
      BY DEF SessionRecord
    <3> QED
      BY <1>2, <3>1 DEF MastraImported
  <2>2. RunsOK'
    BY <1>1, <2>1 DEF RunsOK, Underway, IsPty, SessionRecord
  <2> QED
    BY <1>2, <2>1, <2>2 DEF MastraImported, KeepsReviews
<1>3. CASE PtyCreated(s)
  <2>1. session[s].seen \in TaskRecord
    BY <1>3 DEF PtyCreated, RunsOK
  <2>2. task' \in [Tasks -> TaskRecord]
    BY <1>1, <1>3, <2>1, TaskEdits DEF PtyCreated
  <2>3. [status |-> "running", task |-> session[s].task, session |-> s] \in AgentRecord
    BY <1>1 DEF AgentRecord
  <2>4. agent' \in [Agents -> AgentRecord]
    BY <1>1, <1>3, <2>3 DEF PtyCreated
  <2>5. [session[s] EXCEPT !.state = "live", !.seen = None] \in SessionRecord
    BY DEF SessionRecord
  <2>6. session' = [session EXCEPT ![s] = [session[s] EXCEPT !.state = "live", !.seen = None]]
    BY <1>3 DEF PtyCreated
  <2>7. RunsOK'
    BY <1>1, <2>5, <2>6 DEF RunsOK, Underway, IsPty, SessionRecord
  <2> QED
    BY <1>3, <2>2, <2>4, <2>5, <2>6, <2>7 DEF PtyCreated, KeepsReviews
<1> QED
  BY <1>2, <1>3

LEMMA TypeStep == TypeInv /\ [Next]_vars => TypeInv'
<1> SUFFICES ASSUME TypeInv, [Next]_vars
             PROVE  TypeInv'
  OBVIOUS
<1>1. CASE QuietStep
  <2>1. NoRunBegins
    BY <1>1, QuietNoRun
  <2>2. RunsOK'
    BY <2>1, RunsKept DEF TypeInv
  <2>3. FilesOK'
    BY <1>1, <2>1, QuietAgentType, QuietTaskType DEF FilesOK, NoRunBegins
  <2> QED
    BY <2>2, <2>3 DEF TypeInv
<1>2. CASE UNCHANGED <<agent, task, session, assessed>>
  BY <1>2 DEF TypeInv, FilesOK, RunsOK, Underway, IsPty
<1>3. ASSUME NEW a \in Agents, StartStep(a)
      PROVE  TypeInv'
  BY <1>3, StartType
<1>4. ASSUME NEW s \in Sessions, MastraImported(s) \/ PtyCreated(s)
      PROVE  TypeInv'
  BY <1>4, StartedType
<1> QED
  BY <1>1, <1>2, <1>3, <1>4, NextCases

LEMMA TypeInit == Init => TypeInv
<1> SUFFICES ASSUME Init
             PROVE  TypeInv
  OBVIOUS
<1>1. FilesOK
  BY RecordValues DEF Init, FilesOK
<1>2. RunsOK
  BY RecordValues DEF Init, RunsOK, Underway
<1> QED
  BY <1>1, <1>2 DEF TypeInv

LEMMA TypeInvariant == Spec => []TypeInv
  BY TypeInit, TypeStep, PTL DEF Spec

-----------------------------------------------------------------------------
(* The counters keep their bounds.                                          *)

GoneRuns == {s \in Sessions : session[s].state = "gone"}

\* Reviews in flight: those that runs asked for while the bound allowed it, and one
\* for each terminal that exited.
CountersOK ==
    /\ reviews \in [Tasks -> Nat]
    /\ \A t \in Tasks : reviews[t] <= MaxReviews + Cardinality(GoneRuns)
    /\ due \subseteq Agents \X Tasks
    /\ restarts \in 0 .. MaxRestarts

\* What a step does to the reviews of one task.
OneMore(t) == reviews' = [reviews EXCEPT ![t] = @ + 1]
OneLess(t) == reviews[t] > 0 /\ reviews' = [reviews EXCEPT ![t] = @ - 1]

LEMMA GoneCount ==
    /\ IsFiniteSet(GoneRuns) /\ Cardinality(GoneRuns) \in Nat
    /\ Cardinality(GoneRuns) <= MaxSessions
<1>1. IsFiniteSet(Sessions) /\ Cardinality(Sessions) = MaxSessions
  BY FS_Interval, ConstantsAssumption DEF Sessions
<1>2. GoneRuns \subseteq Sessions
  BY DEF GoneRuns
<1> QED
  BY <1>1, <1>2, FS_Subset, FS_CardinalityType

\* What is gone stays gone.
LEMMA GoneStay ==
    ASSUME TypeInv, [Next]_vars
    PROVE  GoneRuns \subseteq GoneRuns'
<1> FilesOK
  BY DEF TypeInv
<1>1. CASE UNCHANGED session
  BY <1>1 DEF GoneRuns
<1>2. ASSUME NEW x, session' = StopExecution(x)
      PROVE  GoneRuns \subseteq GoneRuns'
  BY <1>2, StopExecutionFacts DEF GoneRuns
<1>3. ASSUME NEW s \in Sessions, session' = [session EXCEPT ![s] = Gone]
      PROVE  GoneRuns \subseteq GoneRuns'
  BY <1>3, RecordValues DEF GoneRuns, FilesOK
<1>4. CASE RestartApp
  BY <1>4, RecordValues DEF RestartApp, GoneRuns
<1>5. ASSUME NEW s \in Sessions, session[s].state # "gone",
             \A r \in Sessions \ {s} : session'[r] = session[r]
      PROVE  GoneRuns \subseteq GoneRuns'
  BY <1>5 DEF GoneRuns
<1>6. ASSUME NEW a \in Agents, StartStep(a)
      PROVE  GoneRuns \subseteq GoneRuns'
  <2>1. PICK t \in Tasks, s \in Sessions : StartRun(a, t, s)
    BY <1>6 DEF StartStep
  <2>2. session[s].state # "gone" /\ \A r \in Sessions \ {s} : session'[r] = session[r]
    BY <2>1 DEF StartRun, FilesOK
  <2> QED
    BY <2>2, <1>5
<1>7. ASSUME NEW s \in Sessions, MastraImported(s) \/ PtyCreated(s)
      PROVE  GoneRuns \subseteq GoneRuns'
  <2>1. session[s].state # "gone" /\ \A r \in Sessions \ {s} : session'[r] = session[r]
    BY <1>7 DEF MastraImported, PtyCreated, FilesOK
  <2> QED
    BY <2>1, <1>5
<1>8. CASE QuietStep /\ ~RestartApp
  <2>1. \/ UNCHANGED session
        \/ \E x : session' = StopExecution(x)
        \/ \E s \in Sessions : session' = [session EXCEPT ![s] = Gone]
    BY <1>8
    DEF QuietStep, UnassignTask, StopAgent, DeleteAgent, Reconcile, AssignTask, UpdateTask,
        DeleteTask, KickBack, ReviewApproves, ReviewRejects, ComplexityAssessed, KillTerminal,
        PtyDiscarded, SessionExits, StaleSessionExits, StreamEnds, Promote, Block
  <2> QED
    BY <2>1, <1>1, <1>2, <1>3
<1> QED
  BY <1>1, <1>4, <1>6, <1>7, <1>8, NextCases

\* An end of a run asks for one review of the task of its agent, at most.
LEMMA CompleteReviews ==
    ASSUME FilesOK, NEW a \in Agents, NEW code \in AllCodes, Complete(a, code)
    PROVE  /\ UNCHANGED reviews \/ \E t \in Tasks : OneMore(t)
           /\ code = "unknown" => UNCHANGED reviews
<1> DEFINE t == agent[a].task
<1>1. t \in Tasks \cup {None}
  BY DEF FilesOK, AgentRecord
<1>2. CASE UNCHANGED reviews
  BY <1>2
<1>3. ASSUME t # None, NEW next \in NextStatuses(t, code), StartReviews(t, next)
      PROVE  /\ UNCHANGED reviews \/ \E u \in Tasks : OneMore(u)
             /\ code = "unknown" => UNCHANGED reviews
  <2>1. CASE next = "ai_review"
    <3>1. code # "unknown"
      BY <1>3, <2>1 DEF NextStatuses
    <3> QED
      BY <1>1, <1>3, <3>1 DEF StartReviews, OneMore
  <2>2. CASE next # "ai_review"
    BY <1>3, <2>2 DEF StartReviews
  <2> QED
    BY <2>1, <2>2
<1> QED
  BY <1>2, <1>3 DEF Complete

\* What any step does to the counters.
Counted ==
    /\ \/ UNCHANGED reviews
       \/ \E t \in Tasks : OneLess(t)
       \/ \E t \in Tasks : OneMore(t) /\ reviews[t] < MaxReviews
       \/ /\ \E t \in Tasks : OneMore(t)
          /\ \E s \in Sessions \ GoneRuns : session' = [session EXCEPT ![s] = Gone]
       \/ reviews' = [t \in Tasks |-> 0]
    /\ \/ due' \subseteq due
       \/ \E a \in Agents, t \in Tasks : due' = due \cup {<<a, t>>}
    /\ \/ restarts' = restarts
       \/ restarts < MaxRestarts /\ restarts' = restarts + 1

LEMMA CounterCases ==
    ASSUME TypeInv, CountersOK, [Next]_vars
    PROVE  Counted
<1> USE DEF KeepsReviews
<1>0. FilesOK
  BY DEF TypeInv
<1>1. CASE UNCHANGED <<reviews, due, restarts>>
  BY <1>1 DEF Counted
<1>2. ASSUME NEW t \in Tasks, NEW r \in TaskRecord, KickBackOf(t, r)
      PROVE  due' \subseteq due \/ \E a \in Agents : due' = due \cup {<<a, t>>}
  BY <1>2 DEF KickBackOf, TaskRecord
<1>3. CASE UserStep
  <2>1. ASSUME NEW t \in Tasks, KickBack(t)
        PROVE  Counted
    BY <1>0, <1>2, <2>1 DEF KickBack, FilesOK, Counted
  <2>2. CASE \E t \in Tasks : KickBack(t)
    BY <2>1, <2>2
  <2>3. CASE \A t \in Tasks : ~KickBack(t)
    BY <1>1, <1>3, <2>3
    DEF UserStep, UnassignTask, Start, StopAgent, DeleteAgent, AssignTask, UpdateTask, DeleteTask,
        KillTerminal
  <2> QED
    BY <2>2, <2>3
<1>4. CASE ReviewStep
  <2>1. ASSUME NEW t \in Tasks, ReviewApproves(t)
        PROVE  Counted
    BY <2>1 DEF ReviewApproves, OneLess, Counted
  <2>2. ASSUME NEW t \in Tasks, ReviewRejects(t)
        PROVE  Counted
    <3>1. OneLess(t) /\ restarts' = restarts
      BY <2>2 DEF ReviewRejects, OneLess
    <3>2. due' \subseteq due \/ \E a \in Agents : due' = due \cup {<<a, t>>}
      BY <1>0, <1>2, <2>2 DEF ReviewRejects, FilesOK
    <3> QED
      BY <3>1, <3>2 DEF Counted
  <2>3. CASE ComplexityAssessed
    BY <1>1, <2>3 DEF ComplexityAssessed
  <2>4. ASSUME NEW a \in Agents, NEW t \in Tasks, RestartDue(a, t)
        PROVE  Counted
    BY <2>4 DEF RestartDue, Counted
  <2> QED
    BY <1>4, <2>1, <2>2, <2>3, <2>4 DEF ReviewStep
<1>5. ASSUME NEW s \in Sessions, RunStep(s)
      PROVE  Counted
  <2>1. CASE SessionExits(s)
    <3>1. session[s].agent \in Agents /\ s \in Sessions \ GoneRuns
      BY <2>1 DEF SessionExits, TypeInv, RunsOK, Underway, GoneRuns
    <3>2. PICK code \in Codes : Complete(session[s].agent, code)
      BY <2>1 DEF SessionExits
    <3>3. UNCHANGED reviews \/ \E t \in Tasks : OneMore(t)
      BY <1>0, <3>1, <3>2, CompleteReviews DEF AllCodes
    <3>4. session' = [session EXCEPT ![s] = Gone] /\ UNCHANGED <<due, restarts>>
      BY <2>1 DEF SessionExits
    <3> QED
      BY <3>1, <3>3, <3>4 DEF Counted
  <2>2. CASE ~SessionExits(s)
    BY <1>1, <1>5, <2>2
    DEF RunStep, MastraImported, PtyCreated, PtyDiscarded, StaleSessionExits, StreamEnds
  <2> QED
    BY <2>1, <2>2
<1>6. ASSUME NEW s \in Sessions, Promote(s) \/ Block(s)
      PROVE  Counted
  <2>1. session[s].task \in Tasks
    BY <1>6 DEF Promote, Block, TypeInv, RunsOK, Underway
  <2>2. CASE Promote(s)
    BY <2>1, <2>2 DEF Promote, StartReviews, OneMore, Counted
  <2>3. CASE Block(s)
    BY <1>1, <2>3 DEF Block
  <2> QED
    BY <1>6, <2>2, <2>3
<1>7. ASSUME NEW a \in Agents, Reconcile(a)
      PROVE  Counted
  BY <1>0, <1>1, <1>7, CompleteReviews DEF Reconcile, AllCodes
<1>8. CASE RestartApp
  BY <1>8 DEF RestartApp, Counted
<1>9. CASE UNCHANGED vars
  BY <1>1, <1>9 DEF vars
<1> QED
  BY <1>3, <1>4, <1>5, <1>6, <1>7, <1>8, <1>9 DEF Next

LEMMA CountersStep == TypeInv /\ CountersOK /\ [Next]_vars => CountersOK'
<1> SUFFICES ASSUME TypeInv, CountersOK, [Next]_vars
             PROVE  CountersOK'
  OBVIOUS
<1> DEFINE n == Cardinality(GoneRuns)
           m == Cardinality(GoneRuns')
<1>1. n \in Nat /\ m \in Nat /\ n <= m /\ IsFiniteSet(GoneRuns')
  <2>1. IsFiniteSet(GoneRuns') /\ Cardinality(GoneRuns') \in Nat
    <3>1. IsFiniteSet(Sessions)
      BY FS_Interval, ConstantsAssumption DEF Sessions
    <3>2. GoneRuns' \subseteq Sessions
      BY DEF GoneRuns
    <3> QED
      BY <3>1, <3>2, FS_Subset, FS_CardinalityType
  <2> QED
    BY <2>1, GoneCount, GoneStay, FS_Subset
<1>2. ASSUME NEW s \in Sessions \ GoneRuns, session' = [session EXCEPT ![s] = Gone]
      PROVE  n + 1 <= m
  <2>1. s \in GoneRuns'
    BY <1>2, RecordValues DEF GoneRuns, TypeInv, FilesOK
  <2>2. Cardinality(GoneRuns \cup {s}) = n + 1
    BY <1>2, GoneCount, FS_AddElement
  <2>3. GoneRuns \cup {s} \subseteq GoneRuns'
    BY <2>1, GoneStay
  <2> QED
    BY <1>1, <2>2, <2>3, FS_Subset
<1> HIDE DEF n, m
<1>3. \A t \in Tasks : reviews[t] \in Nat /\ reviews[t] <= MaxReviews + n
  BY DEF CountersOK, n
<1>4. MaxReviews \in Nat /\ MaxRestarts \in Nat
  BY ConstantsAssumption
<1>5. reviews' \in [Tasks -> Nat] /\ \A t \in Tasks : reviews'[t] <= MaxReviews + m
  <2>1. CASE UNCHANGED reviews
    BY <1>1, <1>3, <1>4, <2>1 DEF CountersOK
  <2>2. ASSUME NEW t \in Tasks, OneLess(t)
        PROVE  reviews' \in [Tasks -> Nat] /\ \A u \in Tasks : reviews'[u] <= MaxReviews + m
    BY <1>1, <1>3, <1>4, <2>2 DEF CountersOK, OneLess
  <2>3. ASSUME NEW t \in Tasks, OneMore(t), reviews[t] < MaxReviews \/ n + 1 <= m
        PROVE  reviews' \in [Tasks -> Nat] /\ \A u \in Tasks : reviews'[u] <= MaxReviews + m
    BY <1>1, <1>3, <1>4, <2>3 DEF CountersOK, OneMore
  <2>4. CASE reviews' = [t \in Tasks |-> 0]
    BY <1>1, <1>4, <2>4
  <2> QED
    BY <1>2, <2>1, <2>2, <2>3, <2>4, CounterCases DEF Counted
<1>6. due' \subseteq Agents \X Tasks
  BY CounterCases DEF Counted, CountersOK
<1>7. restarts' \in 0 .. MaxRestarts
  BY <1>4, CounterCases DEF Counted, CountersOK
<1> QED
  BY <1>5, <1>6, <1>7 DEF CountersOK, m

LEMMA CountersInit == Init => CountersOK
<1> SUFFICES ASSUME Init
             PROVE  CountersOK
  OBVIOUS
<1>1. reviews \in [Tasks -> Nat] /\ \A t \in Tasks : reviews[t] = 0
  BY DEF Init
<1>2. \A t \in Tasks : reviews[t] <= MaxReviews + Cardinality(GoneRuns)
  BY <1>1, GoneCount, ConstantsAssumption
<1> QED
  BY <1>1, <1>2, ConstantsAssumption DEF Init, CountersOK

LEMMA TypeFromCounters == TypeInv /\ CountersOK => TypeOK
<1> SUFFICES ASSUME TypeInv, CountersOK
             PROVE  reviews \in [Tasks -> 0 .. MaxReviews + MaxSessions]
  BY DEF TypeInv, FilesOK, CountersOK, TypeOK
<1>1. \A t \in Tasks : reviews[t] \in 0 .. MaxReviews + MaxSessions
  BY GoneCount, ConstantsAssumption DEF CountersOK
<1> QED
  BY <1>1 DEF CountersOK

\* The files of agents and tasks, the runs, the reviews in flight and the restarts that
\* are due have their types, and the counters their bounds: a terminal exits only once.
THEOREM TypeCorrect == Spec => []TypeOK
  BY CountersInit, CountersStep, TypeFromCounters, TypeInvariant, PTL DEF Spec

-----------------------------------------------------------------------------
(* No PTY is orphaned.                                                      *)

\* What keeps it so: an agent whose PTY is being created is not running, and no
\* second PTY is being created for it.
OneStartAtATime ==
    \A s \in Sessions : session[s].state = "starting" /\ IsPty(s) =>
        /\ agent[session[s].agent].status # "running"
        /\ \A r \in Sessions \ {s} :
             session[r].state = "starting" => session[r].agent # session[s].agent

LiveInv == LivePtyIsOwned /\ OneStartAtATime

\* An agent stops running only with its run, and none begins to run.
AgentsLetGo ==
    \A a \in Agents :
        /\ agent'[a].status = "running" =>
             agent[a].status = "running" /\ agent'[a].session = agent[a].session
        /\ a \notin MastraAgents /\ agent'[a].status # "running" =>
             \A s \in Sessions :
               session[s].agent = a /\ OwnsAgent(s) => session'[s].state # "live"

LEMMA QuietLetsGo ==
    ASSUME TypeInv, QuietStep
    PROVE  AgentsLetGo
<1> FilesOK
  BY DEF TypeInv
<1> USE DEF AgentsLetGo, OwnsAgent
<1>1. CASE UNCHANGED agent
  BY <1>1
<1>2. ASSUME NEW a \in Agents, NEW r, agent' = [agent EXCEPT ![a] = r], r.status # "running",
             agent[a].status = "running" /\ agent[a].session \in Sessions /\ a \notin MastraAgents
               => session'[agent[a].session].state # "live"
      PROVE  AgentsLetGo
  BY <1>2 DEF FilesOK
<1>3. ASSUME NEW a \in Agents, session' = StopExecution(agent[a].session),
             agent[a].session \in Sessions
      PROVE  session'[agent[a].session].state # "live"
  BY <1>3, StopExecutionFacts
<1>4. IdleAgent.status = "idle"
  BY DEF IdleAgent
<1>5. ASSUME NEW a \in Agents, UnassignTask(a)
      PROVE  AgentsLetGo
  <2>1. CASE agent[a].status = "running"
    BY <1>2, <1>3, <1>4, <1>5, <2>1 DEF UnassignTask
  <2>2. CASE agent[a].status # "running"
    <3>1. [agent[a] EXCEPT !.task = None].status = agent[a].status
      BY DEF FilesOK, AgentRecord
    <3> QED
      BY <1>2, <1>5, <2>2, <3>1 DEF UnassignTask
  <2> QED
    BY <2>1, <2>2
<1>6. ASSUME NEW a \in Agents, StopAgent(a)
      PROVE  AgentsLetGo
  BY <1>2, <1>3, <1>4, <1>6 DEF StopAgent
<1>7. ASSUME NEW a \in Agents, DeleteAgent(a)
      PROVE  AgentsLetGo
  <2>1. [IdleAgent EXCEPT !.status = "deleted"].status = "deleted"
    BY DEF IdleAgent
  <2> QED
    BY <1>2, <1>3, <1>7, <2>1 DEF DeleteAgent
<1>8. ASSUME NEW a \in Agents, NEW code \in AllCodes, Complete(a, code),
             agent[a].session \in Sessions /\ a \notin MastraAgents
               => session'[agent[a].session].state # "live"
      PROVE  AgentsLetGo
  <2>1. PICK st \in {"idle", "error"} :
          agent' = [agent EXCEPT ![a] = [IdleAgent EXCEPT !.status = st]]
    BY <1>8, CompleteFacts
  <2>2. [IdleAgent EXCEPT !.status = st].status # "running"
    BY DEF IdleAgent
  <2> QED
    BY <1>2, <1>8, <2>1, <2>2
<1>9. ASSUME NEW a \in Agents, Reconcile(a)
      PROVE  AgentsLetGo
  BY <1>8, <1>9 DEF Reconcile, NotAlive, AllCodes
<1>10. ASSUME NEW s \in Sessions, SessionExits(s)
       PROVE  AgentsLetGo
  <2>1. session[s].agent \in Agents /\ agent[session[s].agent].session = s
    BY <1>10 DEF SessionExits, ExitSettles, TypeInv, RunsOK, Underway
  <2>2. session'[s].state # "live"
    BY <1>10, RecordValues DEF SessionExits, FilesOK
  <2> QED
    BY <1>8, <1>10, <2>1, <2>2 DEF SessionExits, AllCodes
<1>11. ASSUME NEW s \in Sessions, StaleSessionExits(s)
       PROVE  AgentsLetGo
  <2>1. session[s].agent \in Agents
    BY <1>11 DEF StaleSessionExits, TypeInv, RunsOK, Underway
  <2>2. CASE /\ agent[session[s].agent].status # "running"
             /\ agent' = [agent EXCEPT ![session[s].agent].session = None]
    <3>1. [agent[session[s].agent] EXCEPT !.session = None].status # "running"
      BY <2>1, <2>2 DEF FilesOK, AgentRecord
    <3> QED
      BY <1>2, <2>1, <2>2, <3>1
  <2> QED
    BY <1>1, <1>11, <2>2 DEF StaleSessionExits
<1>12. ASSUME NEW s \in Sessions, StreamEnds(s)
       PROVE  AgentsLetGo
  <2>1. session[s].agent \in Agents /\ session[s].agent \in MastraAgents
    BY <1>12 DEF StreamEnds, IsPty, TypeInv, RunsOK, Underway
  <2> QED
    BY <1>1, <1>2, <1>4, <1>12, <2>1 DEF StreamEnds
<1>13. ASSUME NEW s \in Sessions, Promote(s) \/ Block(s)
       PROVE  AgentsLetGo
  <2>1. session[s].agent \in Agents /\ session[s].agent \in MastraAgents
    BY <1>13 DEF Promote, Block, IsPty, TypeInv, RunsOK, Underway
  <2>2. Released(s)
    BY <1>13 DEF Promote, Block
  <2> QED
    BY <2>1, <2>2 DEF Released, FilesOK
<1>14. ASSUME NEW a \in Agents, NEW t \in Tasks, AssignTask(a, t)
       PROVE  AgentsLetGo
  <2>1. \A b \in Agents : /\ agent'[b].status = agent[b].status
                          /\ agent'[b].session = agent[b].session
    BY <1>14 DEF AssignTask, FilesOK, AgentRecord
  <2> QED
    BY <2>1
<1>15. ASSUME NEW t \in Tasks, DeleteTask(t)
       PROVE  AgentsLetGo
  <2>1. task[t].agent \in Agents \cup {None}
    BY DEF FilesOK, TaskRecord
  <2> QED
    BY <1>1, <1>2, <1>3, <1>4, <1>15, <2>1 DEF DeleteTask
<1>16. ASSUME NEW t \in Tasks,
              UpdateTask(t) \/ KickBack(t) \/ ReviewApproves(t) \/ ReviewRejects(t)
       PROVE  UNCHANGED agent
  BY <1>16 DEF UpdateTask, KickBack, ReviewApproves, ReviewRejects
<1>17. ASSUME NEW s \in Sessions, KillTerminal(s) \/ PtyDiscarded(s)
       PROVE  UNCHANGED agent
  BY <1>17 DEF KillTerminal, PtyDiscarded
<1>18. CASE ComplexityAssessed \/ RestartApp
  BY <1>1, <1>18 DEF ComplexityAssessed, RestartApp
<1> QED
  BY <1>1, <1>5, <1>6, <1>7, <1>9, <1>10, <1>11, <1>12, <1>13, <1>14, <1>15, <1>16, <1>17,
     <1>18 DEF QuietStep

LEMMA LiveStep == TypeInv /\ LiveInv /\ [Next]_vars => LiveInv'
<1> SUFFICES ASSUME TypeInv, LiveInv, [Next]_vars
             PROVE  LiveInv'
  OBVIOUS
<1> FilesOK /\ RunsOK /\ LivePtyIsOwned /\ OneStartAtATime
  BY DEF TypeInv, LiveInv
<1> USE DEF LivePtyIsOwned, OneStartAtATime, LiveInv, OwnsAgent, IsPty, RunsOK, Underway
<1>1. CASE QuietStep
  <2>1. NoRunBegins /\ AgentsLetGo
    BY <1>1, QuietNoRun, QuietLetsGo
  <2>2. LivePtyIsOwned'
    <3> SUFFICES ASSUME NEW s \in Sessions, session'[s].state = "live", IsPty(s)'
                 PROVE  OwnsAgent(s)'
      OBVIOUS
    <3>1. session[s].state = "live" /\ session'[s].agent = session[s].agent
      BY <2>1 DEF NoRunBegins
    <3>2. OwnsAgent(s) /\ session[s].agent \in Agents \ MastraAgents
      BY <3>1
    <3> QED
      BY <2>1, <3>1, <3>2 DEF AgentsLetGo
  <2>3. OneStartAtATime'
    <3> SUFFICES ASSUME NEW s \in Sessions, session'[s].state = "starting", IsPty(s)'
                 PROVE  /\ agent'[session'[s].agent].status # "running"
                        /\ \A r \in Sessions \ {s} :
                             session'[r].state = "starting"
                               => session'[r].agent # session'[s].agent
      OBVIOUS
    <3>1. \A r \in Sessions : session'[r].state = "starting" =>
            session[r].state = "starting" /\ session'[r].agent = session[r].agent
      BY <2>1 DEF NoRunBegins
    <3>2. session[s].agent \in Agents \ MastraAgents
      BY <3>1
    <3> QED
      BY <2>1, <3>1, <3>2 DEF AgentsLetGo
  <2> QED
    BY <2>2, <2>3
<1>2. ASSUME NEW a \in Agents, StartStep(a)
      PROVE  LiveInv'
  <2>1. PICK t \in Tasks, s \in Sessions : StartRun(a, t, s)
    BY <1>2 DEF StartStep
  <2>2. /\ session' \in [Sessions -> SessionRecord]
        /\ session'[s].state = "starting" /\ session'[s].agent = a
        /\ \A r \in Sessions \ {s} : session'[r] = session[r]
    <3>1. TypeInv'
      BY <1>2, StartType
    <3> QED
      BY <2>1, <3>1 DEF StartRun, TypeInv, FilesOK
  <2>3. /\ agent[a].status # "running"
        /\ \A r \in Sessions : session[r].state = "starting" => session[r].agent # a
    BY <2>1 DEF StartRun, Startable, Starting
  <2>4. CASE a \in MastraAgents
    <3>1. \A b \in Agents \ {a} : agent'[b] = agent[b]
      BY <2>1, <2>4 DEF StartRun, FilesOK
    <3> QED
      BY <2>2, <2>4, <3>1
  <2>5. CASE a \notin MastraAgents
    <3>1. \A b \in Agents : /\ agent'[b].status = agent[b].status
                            /\ agent'[b].session = agent[b].session
      BY <2>1, <2>5 DEF StartRun, FilesOK, AgentRecord
    <3> QED
      BY <2>2, <2>3, <3>1
  <2> QED
    BY <2>4, <2>5
<1>3. ASSUME NEW s \in Sessions, MastraImported(s)
      PROVE  LiveInv'
  <2>1. /\ session[s].agent \in MastraAgents
        /\ session'[s].agent = session[s].agent \/ session'[s].state = "gone"
        /\ session'[s].state # "starting"
        /\ \A r \in Sessions \ {s} : session'[r] = session[r]
    BY <1>3, RecordValues DEF MastraImported, FilesOK, SessionRecord
  <2>2. UNCHANGED agent
    BY <1>3 DEF MastraImported
  <2>3. LivePtyIsOwned'
    BY <2>1, <2>2
  <2>4. \A r \in Sessions : session'[r].state = "starting" =>
          r # s /\ session'[r] = session[r]
    BY <2>1
  <2>5. OneStartAtATime'
    BY <2>2, <2>4
  <2> QED
    BY <2>3, <2>5
<1>4. ASSUME NEW s \in Sessions, PtyCreated(s)
      PROVE  LiveInv'
  <2> DEFINE a == session[s].agent
  <2>1. a \in Agents \ MastraAgents /\ session[s].state = "starting"
    BY <1>4 DEF PtyCreated
  <2>2. /\ session'[s].state = "live" /\ session'[s].agent = a
        /\ \A r \in Sessions \ {s} : session'[r] = session[r]
    BY <1>4 DEF PtyCreated, FilesOK, SessionRecord
  <2>3. /\ agent'[a].status = "running" /\ agent'[a].session = s
        /\ \A b \in Agents \ {a} : agent'[b] = agent[b]
    BY <1>4, <2>1 DEF PtyCreated, FilesOK
  <2>4. \A r \in Sessions \ {s} : session[r].state \in {"starting", "live"} =>
          session[r].agent # a
    BY <2>1
  <2> QED
    BY <2>1, <2>2, <2>3, <2>4
<1>5. CASE UNCHANGED <<agent, task, session, assessed>>
  BY <1>5
<1> QED
  BY <1>1, <1>2, <1>3, <1>4, <1>5, NextCases

\* Every PTY that was not told to stop is the run of an agent that knows it is
\* running, whatever happened between the halves of its start.
THEOREM NoPtyIsOrphaned == Spec => []LivePtyIsOwned
<1>1. Init => LiveInv
  BY RecordValues DEF Init, LiveInv, LivePtyIsOwned, OneStartAtATime
<1>2. LiveInv => LivePtyIsOwned
  BY DEF LiveInv
<1> QED
  BY <1>1, <1>2, TypeInvariant, LiveStep, PTL DEF Spec

-----------------------------------------------------------------------------
(* The end of an old run does not end a newer one.                          *)

\* A running agent is in a run that was started.
RunningInv ==
    \A a \in Agents : agent[a].status = "running" =>
        agent[a].session \in Sessions /\ session[agent[a].session].state # "unused"

StopsRunning(a) == agent[a].status = "running" /\ agent'[a].status # "running"

EndsOwnRun(a) ==
    LET s == agent[a].session
        t == session[s].task
    IN  \/ session'[s].state \in {"starting", "told", "gone"}
        \/ task[t].session = s /\ task[t].status = "in_progress"
           /\ task'[t].status # "in_progress"

OnlyOwnRunsEnd == \A a \in Agents : StopsRunning(a) => EndsOwnRun(a)

LEMMA QuietEnds ==
    ASSUME TypeInv, RunningInv, QuietStep
    PROVE  OnlyOwnRunsEnd
<1> FilesOK
  BY DEF TypeInv
<1> USE DEF OnlyOwnRunsEnd
<1>1. ASSUME \A a \in Agents : agent'[a].status = agent[a].status
      PROVE  OnlyOwnRunsEnd
  BY <1>1 DEF StopsRunning
<1>2. ASSUME NEW a \in Agents, NEW r, agent' = [agent EXCEPT ![a] = r],
             agent[a].status = "running" => EndsOwnRun(a)
      PROVE  OnlyOwnRunsEnd
  BY <1>2 DEF FilesOK, StopsRunning
<1>3. ASSUME NEW a \in Agents, agent[a].status = "running",
             session' = StopExecution(agent[a].session)
      PROVE  EndsOwnRun(a)
  <2> DEFINE s == agent[a].session
  <2>1. s \in Sessions /\ session[s].state \in {"starting", "live", "told", "gone"}
    BY <1>3 DEF RunningInv, FilesOK, SessionRecord
  <2>2. session'[s].state \in {"starting", "told", "gone"}
    BY <1>3, <2>1, StopExecutionFacts
  <2> QED
    BY <2>2 DEF EndsOwnRun
<1>4. ASSUME NEW a \in Agents, UnassignTask(a)
      PROVE  OnlyOwnRunsEnd
  <2>1. CASE agent[a].status = "running"
    BY <1>2, <1>3, <1>4, <2>1 DEF UnassignTask
  <2>2. CASE agent[a].status # "running"
    BY <1>2, <1>4, <2>2 DEF UnassignTask
  <2> QED
    BY <2>1, <2>2
<1>5. ASSUME NEW a \in Agents, StopAgent(a) \/ DeleteAgent(a)
      PROVE  OnlyOwnRunsEnd
  BY <1>2, <1>3, <1>5 DEF StopAgent, DeleteAgent
<1>6. ASSUME NEW a \in Agents, Reconcile(a)
      PROVE  OnlyOwnRunsEnd
  <2>1. PICK st \in {"idle", "error"} :
          agent' = [agent EXCEPT ![a] = [IdleAgent EXCEPT !.status = st]]
    BY <1>6, CompleteFacts DEF Reconcile, AllCodes
  <2>2. session'[agent[a].session].state \in {"starting", "told", "gone"}
    BY <1>6 DEF Reconcile, NotAlive, RunningInv, FilesOK, SessionRecord
  <2> QED
    BY <1>2, <2>1, <2>2 DEF EndsOwnRun
<1>7. ASSUME NEW s \in Sessions, SessionExits(s)
      PROVE  OnlyOwnRunsEnd
  <2>1. session[s].agent \in Agents /\ agent[session[s].agent].session = s
    BY <1>7 DEF SessionExits, ExitSettles, OwnsAgent, TypeInv, RunsOK, Underway
  <2>2. session'[s].state = "gone"
    BY <1>7, RecordValues DEF SessionExits, FilesOK
  <2>3. PICK st \in {"idle", "error"} :
          agent' = [agent EXCEPT ![session[s].agent] = [IdleAgent EXCEPT !.status = st]]
    BY <1>7, <2>1, CompleteFacts DEF SessionExits, AllCodes
  <2> QED
    BY <1>2, <2>1, <2>2, <2>3 DEF EndsOwnRun
<1>8. ASSUME NEW s \in Sessions, StaleSessionExits(s)
      PROVE  OnlyOwnRunsEnd
  <2>1. \A a \in Agents : agent'[a].status = agent[a].status
    BY <1>8 DEF StaleSessionExits, FilesOK, AgentRecord
  <2> QED
    BY <1>1, <2>1
<1>9. ASSUME NEW s \in Sessions, StreamEnds(s)
      PROVE  OnlyOwnRunsEnd
  <2>1. session[s].agent \in Agents
    BY <1>9 DEF StreamEnds, TypeInv, RunsOK, Underway
  <2>2. session'[s].state = "gone"
    BY <1>9, RecordValues DEF StreamEnds, FilesOK
  <2>3. CASE ExitSettles(s)
    <3>1. agent[session[s].agent].session = s
      BY <2>3 DEF ExitSettles, OwnsAgent
    <3>2. agent' = [agent EXCEPT ![session[s].agent] = IdleAgent]
      BY <1>9, <2>3 DEF StreamEnds
    <3> QED
      BY <1>2, <2>1, <2>2, <3>1, <3>2 DEF EndsOwnRun
  <2>4. CASE ~ExitSettles(s)
    BY <1>1, <1>9, <2>4 DEF StreamEnds
  <2> QED
    BY <2>3, <2>4
<1>10. ASSUME NEW s \in Sessions, Promote(s) \/ Block(s)
       PROVE  OnlyOwnRunsEnd
  <2> DEFINE a == session[s].agent
             t == session[s].task
  <2>1. a \in Agents /\ t \in Tasks
    BY <1>10 DEF Promote, Block, TypeInv, RunsOK, Underway
  <2>2. Released(s) /\ OwnsTask(s)
    BY <1>10 DEF Promote, Block
  <2>3. task'[t].status # "in_progress"
    BY <1>10, <2>1 DEF Promote, Block, FilesOK, TaskRecord
  <2>4. CASE UNCHANGED agent
    BY <1>1, <2>4
  <2>5. CASE /\ OwnsAgent(s)
             /\ agent' = [agent EXCEPT ![a].status = "idle", ![a].task = None]
    <3>1. agent[a].session = s
      BY <2>5 DEF OwnsAgent
    <3>2. EndsOwnRun(a)
      BY <2>2, <2>3, <3>1 DEF EndsOwnRun, OwnsTask
    <3>3. agent' = [agent EXCEPT ![a] = [agent[a] EXCEPT !.status = "idle", !.task = None]]
      BY <2>1, <2>5 DEF FilesOK
    <3> QED
      BY <1>2, <2>1, <3>2, <3>3
  <2> QED
    BY <2>2, <2>4, <2>5 DEF Released
<1>11. ASSUME NEW a \in Agents, NEW t \in Tasks, AssignTask(a, t)
       PROVE  OnlyOwnRunsEnd
  <2>1. \A b \in Agents : agent'[b].status = agent[b].status
    BY <1>11 DEF AssignTask, FilesOK, AgentRecord
  <2> QED
    BY <1>1, <2>1
<1>12. ASSUME NEW t \in Tasks, DeleteTask(t)
       PROVE  OnlyOwnRunsEnd
  <2>1. task[t].agent \in Agents \cup {None}
    BY DEF FilesOK, TaskRecord
  <2> QED
    BY <1>1, <1>2, <1>3, <1>12, <2>1 DEF DeleteTask
<1>13. ASSUME NEW t \in Tasks,
              UpdateTask(t) \/ KickBack(t) \/ ReviewApproves(t) \/ ReviewRejects(t)
       PROVE  UNCHANGED agent
  BY <1>13 DEF UpdateTask, KickBack, ReviewApproves, ReviewRejects
<1>14. ASSUME NEW s \in Sessions, KillTerminal(s) \/ PtyDiscarded(s)
       PROVE  UNCHANGED agent
  BY <1>14 DEF KillTerminal, PtyDiscarded
<1>15. CASE ComplexityAssessed \/ RestartApp
  BY <1>1, <1>15 DEF ComplexityAssessed, RestartApp
<1> QED
  BY <1>1, <1>4, <1>5, <1>6, <1>7, <1>8, <1>9, <1>10, <1>11, <1>12, <1>13, <1>14, <1>15
  DEF QuietStep

LEMMA RunningStep == TypeInv /\ RunningInv /\ [Next]_vars => RunningInv'
<1> SUFFICES ASSUME TypeInv, RunningInv, [Next]_vars
             PROVE  RunningInv'
  OBVIOUS
<1> FilesOK
  BY DEF TypeInv
<1>1. ASSUME \A s \in Sessions : session[s].state # "unused" => session'[s].state # "unused",
             \A a \in Agents : agent'[a].status = "running" =>
               \/ agent[a].status = "running" /\ agent'[a].session = agent[a].session
               \/ agent'[a].session \in Sessions /\ session'[agent'[a].session].state # "unused"
      PROVE  RunningInv'
  BY <1>1 DEF RunningInv
<1>2. CASE QuietStep
  <2>1. AgentsLetGo
    BY <1>2, QuietLetsGo
  <2>2. \A s \in Sessions : session[s].state # "unused" => session'[s].state # "unused"
    <3>1. CASE RestartApp
      BY <3>1, RecordValues DEF RestartApp
    <3>2. ASSUME NEW x, session' = StopExecution(x)
          PROVE  \A s \in Sessions : session[s].state # "unused" => session'[s].state # "unused"
      BY <3>2, StopExecutionFacts
    <3>3. ASSUME NEW r \in Sessions, session' = [session EXCEPT ![r] = Gone]
          PROVE  \A s \in Sessions : session[s].state # "unused" => session'[s].state # "unused"
      BY <3>3, RecordValues DEF FilesOK
    <3>4. CASE ~RestartApp
      <4>1. \/ UNCHANGED session
            \/ \E x : session' = StopExecution(x)
            \/ \E s \in Sessions : session' = [session EXCEPT ![s] = Gone]
        BY <1>2, <3>4
        DEF QuietStep, UnassignTask, StopAgent, DeleteAgent, Reconcile, AssignTask, UpdateTask,
            DeleteTask, KickBack, ReviewApproves, ReviewRejects, ComplexityAssessed,
            KillTerminal, PtyDiscarded, SessionExits, StaleSessionExits, StreamEnds, Promote,
            Block
      <4> QED
        BY <3>2, <3>3, <4>1
    <3> QED
      BY <3>1, <3>4
  <2> QED
    BY <1>1, <2>1, <2>2 DEF AgentsLetGo
<1>3. ASSUME NEW a \in Agents, StartStep(a)
      PROVE  RunningInv'
  <2>1. PICK t \in Tasks, s \in Sessions : StartRun(a, t, s)
    BY <1>3 DEF StartStep
  <2>2. session'[s].state = "starting" /\ \A r \in Sessions \ {s} : session'[r] = session[r]
    BY <2>1 DEF StartRun, FilesOK
  <2>3. \A b \in Agents \ {a} : agent'[b] = agent[b]
    BY <2>1 DEF StartRun, FilesOK
  <2>4. agent'[a].status = "running" => agent'[a].session = s
    BY <2>1 DEF StartRun, Startable, FilesOK, AgentRecord
  <2> QED
    BY <1>1, <2>2, <2>3, <2>4
<1>4. ASSUME NEW s \in Sessions, MastraImported(s)
      PROVE  RunningInv'
  <2>1. session'[s].state # "unused" /\ \A r \in Sessions \ {s} : session'[r] = session[r]
    BY <1>4, RecordValues DEF MastraImported, FilesOK, SessionRecord
  <2> QED
    BY <1>1, <1>4, <2>1 DEF MastraImported
<1>5. ASSUME NEW s \in Sessions, PtyCreated(s)
      PROVE  RunningInv'
  <2>1. session'[s].state = "live" /\ \A r \in Sessions \ {s} : session'[r] = session[r]
    BY <1>5 DEF PtyCreated, FilesOK, SessionRecord
  <2>2. \A a \in Agents : agent'[a] = agent[a] \/ agent'[a].session = s
    BY <1>5 DEF PtyCreated, FilesOK
  <2> QED
    BY <1>1, <2>1, <2>2
<1>6. CASE UNCHANGED <<agent, task, session, assessed>>
  BY <1>6 DEF RunningInv
<1> QED
  BY <1>2, <1>3, <1>4, <1>5, <1>6, NextCases

LEMMA OnlyOwnRunsEndStep == TypeInv /\ RunningInv /\ [Next]_vars => OnlyOwnRunsEnd
<1> SUFFICES ASSUME TypeInv, RunningInv, [Next]_vars
             PROVE  OnlyOwnRunsEnd
  OBVIOUS
<1> FilesOK
  BY DEF TypeInv
<1>1. ASSUME NEW a \in Agents, StartStep(a)
      PROVE  OnlyOwnRunsEnd
  <2>1. \A b \in Agents : agent[b].status = "running" => agent'[b].status = "running"
    BY <1>1 DEF StartStep, StartRun, Startable, FilesOK
  <2> QED
    BY <2>1 DEF OnlyOwnRunsEnd, StopsRunning
<1>2. ASSUME NEW s \in Sessions, MastraImported(s) \/ PtyCreated(s)
      PROVE  OnlyOwnRunsEnd
  <2>1. \A b \in Agents : agent[b].status = "running" => agent'[b].status = "running"
    BY <1>2 DEF MastraImported, PtyCreated, FilesOK
  <2> QED
    BY <2>1 DEF OnlyOwnRunsEnd, StopsRunning
<1>3. CASE UNCHANGED <<agent, task, session, assessed>>
  BY <1>3 DEF OnlyOwnRunsEnd, StopsRunning
<1> QED
  BY <1>1, <1>2, <1>3, QuietEnds, NextCases

\* An agent stops running only if its own run ended or was stopped, or moved its
\* own task on; so the end of an old run does not end a newer one.
THEOREM OldExitsSpareNewRuns == Spec => NewRunSurvivesOldExit
<1>1. Init => RunningInv
  BY DEF Init, RunningInv, IdleAgent
<1>2. TypeInv /\ RunningInv /\ [Next]_vars =>
        [ \A a \in Agents :
            agent[a].status = "running" /\ agent'[a].status # "running"
            => LET s == agent[a].session
                   t == session[s].task
               IN  \/ session'[s].state \in {"starting", "told", "gone"}
                   \/ task[t].session = s /\ task[t].status = "in_progress"
                      /\ task'[t].status # "in_progress" ]_vars
  BY OnlyOwnRunsEndStep DEF OnlyOwnRunsEnd, StopsRunning, EndsOwnRun
<1> QED
  BY <1>1, <1>2, TypeInvariant, RunningStep, PTL DEF Spec, NewRunSurvivesOldExit

-----------------------------------------------------------------------------
(* The two files agree.                                                     *)

DeletedAgentsAreFree == \A a \in Agents : agent[a].status = "deleted" => agent[a].task = None

\* A start read the task when it was its agent's, and there.
SeenByItsAgent ==
    \A s \in Sessions : session[s].state = "starting" /\ IsPty(s) =>
        session[s].seen.agent = session[s].agent /\ session[s].seen.status # "deleted"

PointInv == PointersAgree /\ DeletedAgentsAreFree /\ SeenByItsAgent /\ assessed = {}

\* Agents only leave tasks, and a task an agent stays on stays as it was.
AgreementKept ==
    /\ \A a \in Agents, t \in Tasks :
         agent'[a].task = t => /\ agent[a].task = t
                               /\ task'[t].agent = task[t].agent
                               /\ Exists(t) => Exists(t)'
    /\ \A a \in Agents : agent'[a].status = "deleted" =>
         \/ agent'[a].task = None
         \/ agent'[a].task = agent[a].task /\ agent[a].status = "deleted"

LEMMA OneAgentFreed ==
    ASSUME FilesOK, NEW a \in Agents, NEW r \in AgentRecord, r.task = None,
           agent' = [agent EXCEPT ![a] = r],
           \A t \in Tasks, b \in Agents \ {a} : agent[b].task = t =>
             task'[t].agent = task[t].agent /\ (Exists(t) => Exists(t)')
    PROVE  AgreementKept
  BY ConstantsAssumption DEF FilesOK, AgreementKept

\* An agent is freed, and only its own task is touched.
LEMMA OwnTaskMoves ==
    ASSUME FilesOK, PointersAgree, NEW a \in Agents, NEW r \in AgentRecord, r.task = None,
           agent' = [agent EXCEPT ![a] = r],
           \A t \in Tasks : t # agent[a].task => task'[t] = task[t]
    PROVE  AgreementKept
<1>1. ASSUME NEW t \in Tasks, NEW b \in Agents \ {a}, agent[b].task = t
      PROVE  task'[t].agent = task[t].agent /\ (Exists(t) => Exists(t)')
  <2>1. agent[a].task # t
    BY <1>1 DEF PointersAgree
  <2> QED
    BY <2>1 DEF Exists
<1> QED
  BY <1>1, OneAgentFreed

LEMMA AgentsStay ==
    ASSUME UNCHANGED agent,
           \A t \in Tasks : /\ task'[t].agent = task[t].agent
                            /\ Exists(t) => Exists(t)'
    PROVE  AgreementKept
  BY DEF AgreementKept

LEMMA StatusMoves ==
    ASSUME FilesOK, NEW t \in Tasks, NEW st, st # "deleted",
           task' = [task EXCEPT ![t].status = st]
    PROVE  \A u \in Tasks : /\ task'[u].agent = task[u].agent
                            /\ Exists(u) => Exists(u)'
  BY DEF FilesOK, TaskRecord, Exists

LEMMA QuietAgreement ==
    ASSUME TypeInv, PointInv, QuietStep, ~(\E a \in Agents, t \in Tasks : AssignTask(a, t))
    PROVE  AgreementKept
<1> FilesOK /\ PointersAgree
  BY DEF TypeInv, PointInv
<1>1. IdleAgent.task = None /\ IdleAgent \in AgentRecord
  BY RecordValues DEF IdleAgent
<1>2. ASSUME NEW a \in Agents, UnassignTask(a)
      PROVE  AgreementKept
  <2>1. PICK r \in AgentRecord : r.task = None /\ agent' = [agent EXCEPT ![a] = r]
    <3>1. /\ [agent[a] EXCEPT !.task = None] \in AgentRecord
          /\ [agent[a] EXCEPT !.task = None].task = None
      <4>1. agent[a] \in AgentRecord
        BY DEF FilesOK
      <4> QED
        BY <4>1, AgentEdits DEF AgentRecord
    <3> QED
      BY <1>1, <1>2, <3>1 DEF UnassignTask
  <2>2. \A t \in Tasks : t # agent[a].task => task'[t] = task[t]
    BY <1>2 DEF UnassignTask
  <2> QED
    BY <2>1, <2>2, OwnTaskMoves
<1>3. ASSUME NEW a \in Agents, StopAgent(a)
      PROVE  AgreementKept
  <2>1. \A t \in Tasks : t # agent[a].task => task'[t] = task[t]
    BY <1>3 DEF StopAgent
  <2>2. agent' = [agent EXCEPT ![a] = IdleAgent]
    BY <1>3 DEF StopAgent
  <2> QED
    BY <1>1, <2>1, <2>2, OwnTaskMoves
<1>4. ASSUME NEW a \in Agents, DeleteAgent(a)
      PROVE  AgreementKept
  <2>1. \A t \in Tasks : t # agent[a].task => task'[t] = task[t]
    BY <1>4 DEF DeleteAgent
  <2>2. /\ [IdleAgent EXCEPT !.status = "deleted"] \in AgentRecord
        /\ [IdleAgent EXCEPT !.status = "deleted"].task = None
    BY DEF IdleAgent, AgentRecord
  <2>3. agent' = [agent EXCEPT ![a] = [IdleAgent EXCEPT !.status = "deleted"]]
    BY <1>4 DEF DeleteAgent
  <2> QED
    BY <2>1, <2>2, <2>3, OwnTaskMoves
<1>5. ASSUME NEW a \in Agents, NEW code \in AllCodes, Complete(a, code)
      PROVE  AgreementKept
  <2>1. PICK st \in {"idle", "error"} :
          agent' = [agent EXCEPT ![a] = [IdleAgent EXCEPT !.status = st]]
    BY <1>5, CompleteFacts
  <2>2. /\ [IdleAgent EXCEPT !.status = st] \in AgentRecord
        /\ [IdleAgent EXCEPT !.status = st].task = None
    BY DEF IdleAgent, AgentRecord
  <2> QED
    BY <1>5, <2>1, <2>2, CompleteFacts, OneAgentFreed DEF Exists
<1>6. ASSUME NEW a \in Agents, Reconcile(a)
      PROVE  AgreementKept
  BY <1>5, <1>6 DEF Reconcile, AllCodes
<1>7. ASSUME NEW s \in Sessions, SessionExits(s)
      PROVE  AgreementKept
  <2>1. session[s].agent \in Agents
    BY <1>7 DEF SessionExits, TypeInv, RunsOK, Underway
  <2> QED
    BY <1>5, <1>7, <2>1 DEF SessionExits, AllCodes
<1>8. ASSUME NEW s \in Sessions, StaleSessionExits(s)
      PROVE  AgreementKept
  <2>1. \A b \in Agents : /\ agent'[b].task = agent[b].task
                          /\ agent'[b].status = agent[b].status
    BY <1>8 DEF StaleSessionExits, FilesOK, AgentRecord
  <2>2. UNCHANGED task
    BY <1>8 DEF StaleSessionExits
  <2> QED
    BY <2>1, <2>2 DEF AgreementKept, Exists
<1>9. ASSUME NEW s \in Sessions, StreamEnds(s)
      PROVE  AgreementKept
  <2>1. session[s].agent \in Agents
    BY <1>9 DEF StreamEnds, TypeInv, RunsOK, Underway
  <2>2. UNCHANGED task
    BY <1>9 DEF StreamEnds
  <2>3. UNCHANGED agent \/ agent' = [agent EXCEPT ![session[s].agent] = IdleAgent]
    BY <1>9 DEF StreamEnds
  <2> QED
    BY <1>1, <2>1, <2>2, <2>3, OneAgentFreed, AgentsStay DEF Exists
<1>10. ASSUME NEW s \in Sessions, Promote(s) \/ Block(s)
       PROVE  AgreementKept
  <2>1. session[s].agent \in Agents /\ session[s].task \in Tasks
    BY <1>10 DEF Promote, Block, TypeInv, RunsOK, Underway
  <2>2. PICK st : st # "deleted" /\ task' = [task EXCEPT ![session[s].task].status = st]
    BY <1>10 DEF Promote, Block
  <2>3. \A u \in Tasks : task'[u].agent = task[u].agent /\ (Exists(u) => Exists(u)')
    BY <2>1, <2>2, StatusMoves
  <2>4. Released(s)
    BY <1>10 DEF Promote, Block
  <2>5. CASE UNCHANGED agent
    BY <2>3, <2>5, AgentsStay
  <2>6. CASE agent' = [agent EXCEPT ![session[s].agent].status = "idle",
                                    ![session[s].agent].task = None]
    <3>1. [agent[session[s].agent] EXCEPT !.status = "idle", !.task = None] \in AgentRecord
      BY <2>1, AgentEdits DEF FilesOK
    <3>2. [agent[session[s].agent] EXCEPT !.status = "idle", !.task = None].task = None
      BY <2>1 DEF FilesOK, AgentRecord
    <3>3. agent' = [agent EXCEPT ![session[s].agent] =
                      [agent[session[s].agent] EXCEPT !.status = "idle", !.task = None]]
      BY <2>1, <2>6 DEF FilesOK
    <3> QED
      BY <2>1, <2>3, <3>1, <3>2, <3>3, OneAgentFreed
  <2> QED
    BY <2>4, <2>5, <2>6 DEF Released
<1>11. ASSUME NEW t \in Tasks, DeleteTask(t)
       PROVE  AgreementKept
  <2> DEFINE a == task[t].agent
  <2>1. a \in Agents \cup {None}
    BY DEF FilesOK, TaskRecord
  <2>2. task' = [task EXCEPT ![t] = NoTask] /\ \A u \in Tasks \ {t} : task'[u] = task[u]
    BY <1>11 DEF DeleteTask, FilesOK
  <2>3. CASE /\ UNCHANGED agent
             /\ (a = None \/ (a # None /\ (agent[a].status = "deleted" \/ Spared(a, t))))
    <3>1. \A b \in Agents : agent[b].task # t
      BY <2>1, <2>3, ConstantsAssumption DEF PointersAgree, Spared, PointInv, DeletedAgentsAreFree
    <3> QED
      BY <2>2, <2>3, <3>1 DEF AgreementKept, Exists
  <2>4. CASE a # None /\ agent' = [agent EXCEPT ![a] = IdleAgent]
    <3>1. \A b \in Agents \ {a} : agent[b].task # t
      BY <2>1, <2>4 DEF PointersAgree
    <3>2. \A u \in Tasks, b \in Agents \ {a} : agent[b].task = u => task'[u] = task[u]
      BY <2>2, <3>1
    <3>3. \A u \in Tasks, b \in Agents \ {a} : agent[b].task = u =>
            task'[u].agent = task[u].agent /\ (Exists(u) => Exists(u)')
      BY <3>2 DEF Exists
    <3>4. a \in Agents /\ IdleAgent \in AgentRecord /\ IdleAgent.task = None
      BY <1>1, <2>1, <2>4
    <3> QED
      BY <2>4, <3>3, <3>4, OneAgentFreed
  <2> QED
    BY <1>11, <2>3, <2>4 DEF DeleteTask
<1>12. ASSUME NEW t \in Tasks,
              UpdateTask(t) \/ KickBack(t) \/ ReviewApproves(t) \/ ReviewRejects(t)
       PROVE  AgreementKept
  <2>1. UNCHANGED agent
    BY <1>12 DEF UpdateTask, KickBack, ReviewApproves, ReviewRejects
  <2>2. \/ UNCHANGED task
        \/ \E st : st # "deleted" /\ task' = [task EXCEPT ![t].status = st]
        \/ task' = [task EXCEPT ![t].reviewers = TRUE]
    <3>1. \A st \in UserStatuses : st # "deleted"
      BY ConstantsAssumption DEF Statuses
    <3> QED
      BY <1>12, <3>1 DEF UpdateTask, KickBack, ReviewApproves, ReviewRejects
  <2>3. CASE task' = [task EXCEPT ![t].reviewers = TRUE]
    <3>1. \A u \in Tasks : task'[u].agent = task[u].agent /\ task'[u].status = task[u].status
      BY <2>3 DEF FilesOK, TaskRecord
    <3> QED
      BY <2>1, <3>1, AgentsStay DEF Exists
  <2> QED
    BY <2>1, <2>2, <2>3, StatusMoves, AgentsStay DEF Exists
<1>13. ASSUME NEW s \in Sessions, KillTerminal(s) \/ PtyDiscarded(s)
       PROVE  AgreementKept
  BY <1>13, AgentsStay DEF KillTerminal, PtyDiscarded, Exists
<1>14. CASE RestartApp
  BY <1>14, AgentsStay DEF RestartApp, Exists
<1>15. CASE ComplexityAssessed
  BY <1>15 DEF ComplexityAssessed, PointInv
<1> QED
  BY <1>2, <1>3, <1>4, <1>6, <1>7, <1>8, <1>9, <1>10, <1>11, <1>12, <1>13, <1>14, <1>15
  DEF QuietStep

LEMMA AssignAgreement ==
    ASSUME TypeInv, PointInv, NEW a \in Agents, NEW t \in Tasks, AssignTask(a, t)
    PROVE  PointersAgree' /\ DeletedAgentsAreFree'
<1> FilesOK /\ PointersAgree
  BY DEF TypeInv, PointInv
<1>1. \A b \in Agents : agent'[b].status = agent[b].status
  BY DEF AssignTask, FilesOK, AgentRecord
<1>2. agent'[a].task = t /\ agent[a].status # "deleted"
  BY DEF AssignTask, Startable, FilesOK, AgentRecord
<1>3. \A b \in Agents \ {a} :
        \/ agent'[b].task = agent[b].task /\ agent[b].task # t
        \/ agent'[b].task = None
  BY DEF AssignTask, FilesOK, AgentRecord, PointersAgree
<1>4. task'[t].agent = a /\ Exists(t)'
  BY DEF AssignTask, Exists, FilesOK, TaskRecord
<1>5. \A u \in Tasks \ {t} : /\ Exists(u) => Exists(u)'
                             /\ u # agent[a].task => task'[u] = task[u]
  BY DEF AssignTask, Exists, FilesOK, TaskRecord
<1>6. DeletedAgentsAreFree'
  BY <1>1, <1>2, <1>3 DEF PointInv, DeletedAgentsAreFree
<1>7. ASSUME NEW b \in Agents, NEW u \in Tasks, agent'[b].task = u
      PROVE  Exists(u)' /\ task'[u].agent = b
  <2>1. CASE b = a
    BY <1>2, <1>4, <1>7, <2>1
  <2>2. CASE b # a
    <3>1. agent[b].task = u /\ u # t
      BY <1>3, <1>7, <2>2, ConstantsAssumption
    <3>2. Exists(u) /\ task[u].agent = b /\ u # agent[a].task
      BY <2>2, <3>1 DEF PointersAgree
    <3> QED
      BY <1>5, <3>1, <3>2 DEF Exists
  <2> QED
    BY <2>1, <2>2
<1> QED
  BY <1>6, <1>7 DEF PointersAgree

LEMMA StartAgreement ==
    ASSUME TypeInv, PointInv, NEW a \in Agents, StartStep(a)
    PROVE  PointInv'
<1> FilesOK /\ PointersAgree /\ DeletedAgentsAreFree /\ SeenByItsAgent
  BY DEF TypeInv, PointInv
<1>1. PICK t \in Tasks, s \in Sessions : StartRun(a, t, s)
  BY DEF StartStep
<1>2. /\ agent[a].status # "deleted" /\ Exists(t) /\ task[t].agent = a
      /\ \A b \in Agents : agent[b].task = t => b = a
  BY <1>1 DEF StartRun, Startable, StartsOn, PointersAgree
<1>3. /\ agent'[a].task = t /\ agent'[a].status # "deleted"
      /\ \A b \in Agents \ {a} : agent'[b] = agent[b]
  BY <1>1, <1>2 DEF StartRun, FilesOK, AgentRecord
<1>4. \A u \in Tasks : task'[u].agent = task[u].agent /\ (Exists(u) => Exists(u)')
  <2>1. Begun(task[t], s).agent = task[t].agent
    BY DEF Begun, FilesOK, TaskRecord
  <2>2. Begun(task[t], s).status # "deleted"
    BY <1>2 DEF Begun, FilesOK, TaskRecord, Exists
  <2>3. task' = [task EXCEPT ![t] = Begun(task[t], s)] \/ UNCHANGED task
    BY <1>1 DEF StartRun
  <2> QED
    BY <2>1, <2>2, <2>3 DEF Exists, FilesOK
<1>5. PointersAgree' /\ DeletedAgentsAreFree'
  BY <1>2, <1>3, <1>4 DEF PointersAgree, DeletedAgentsAreFree
<1>6. SeenByItsAgent'
  <2>1. /\ session'[s].agent = a
        /\ a \notin MastraAgents => session'[s].seen = task[t]
        /\ \A r \in Sessions \ {s} : session'[r] = session[r]
    BY <1>1 DEF StartRun, FilesOK
  <2> QED
    BY <1>2, <2>1 DEF SeenByItsAgent, IsPty, Exists
<1> QED
  BY <1>5, <1>6 DEF StartStep, PointInv

LEMMA PtyAgreement ==
    ASSUME TypeInv, PointInv, NEW s \in Sessions, PtyCreated(s)
    PROVE  PointInv'
<1> FilesOK /\ PointersAgree /\ DeletedAgentsAreFree /\ SeenByItsAgent
  BY DEF TypeInv, PointInv
<1> DEFINE a == session[s].agent
           t == session[s].task
           r == session[s].seen
<1>1. a \in Agents /\ t \in Tasks /\ r \in TaskRecord
  BY DEF PtyCreated, TypeInv, RunsOK, Underway
<1>2. agent[a].status # "deleted" /\ agent[a].task = t /\ task[t].agent = a
  BY <1>1 DEF PtyCreated, Superseded, PointersAgree
<1>3. r.agent = a /\ r.status # "deleted"
  BY DEF PtyCreated, SeenByItsAgent
<1>4. Begun(r, s).agent = a /\ Begun(r, s).status # "deleted"
  BY <1>1, <1>3 DEF Begun, TaskRecord
<1>5. task' = [task EXCEPT ![t] = Begun(r, s)]
  BY DEF PtyCreated
<1>6. \A u \in Tasks : task'[u].agent = task[u].agent /\ (Exists(u) => Exists(u)')
  BY <1>1, <1>2, <1>4, <1>5 DEF Exists, FilesOK
<1>7. /\ agent'[a].task = t /\ agent'[a].status # "deleted"
      /\ \A b \in Agents \ {a} : agent'[b] = agent[b]
  BY <1>1 DEF PtyCreated, FilesOK
<1>8. PointersAgree' /\ DeletedAgentsAreFree'
  BY <1>2, <1>6, <1>7 DEF PointersAgree, DeletedAgentsAreFree
<1>9. SeenByItsAgent'
  <2>1. session'[s].state = "live" /\ \A q \in Sessions \ {s} : session'[q] = session[q]
    BY DEF PtyCreated, FilesOK, SessionRecord
  <2> QED
    BY <2>1 DEF SeenByItsAgent, IsPty
<1> QED
  BY <1>8, <1>9 DEF PtyCreated, KeepsReviews, PointInv

LEMMA PointStep == ~AssessesComplexity /\ TypeInv /\ PointInv /\ [Next]_vars => PointInv'
<1> SUFFICES ASSUME ~AssessesComplexity, TypeInv, PointInv, [Next]_vars
             PROVE  PointInv'
  OBVIOUS
<1> FilesOK /\ PointersAgree /\ DeletedAgentsAreFree /\ SeenByItsAgent /\ assessed = {}
  BY DEF TypeInv, PointInv
<1>1. CASE QuietStep
  <2>1. SeenByItsAgent'
    BY <1>1, QuietNoRun DEF NoRunBegins, SeenByItsAgent, IsPty
  <2>2. assessed' = {}
    BY <1>1
    DEF QuietStep, UnassignTask, StopAgent, DeleteAgent, Reconcile, AssignTask, UpdateTask,
        DeleteTask, KickBack, ReviewApproves, ReviewRejects, ComplexityAssessed, KillTerminal,
        PtyDiscarded, SessionExits, StaleSessionExits, StreamEnds, Promote, Block, RestartApp,
        KeepsReviews
  <2>3. PointersAgree' /\ DeletedAgentsAreFree'
    <3>1. ASSUME NEW a \in Agents, NEW t \in Tasks, AssignTask(a, t)
          PROVE  PointersAgree' /\ DeletedAgentsAreFree'
      BY <3>1, AssignAgreement
    <3>2. CASE AgreementKept
      <4>1. PointersAgree'
        BY <3>2 DEF AgreementKept, PointersAgree
      <4>2. DeletedAgentsAreFree'
        BY <3>2 DEF AgreementKept, DeletedAgentsAreFree
      <4> QED
        BY <4>1, <4>2
    <3> QED
      BY <1>1, <3>1, <3>2, QuietAgreement
  <2> QED
    BY <2>1, <2>2, <2>3 DEF PointInv
<1>2. ASSUME NEW a \in Agents, StartStep(a)
      PROVE  PointInv'
  BY <1>2, StartAgreement
<1>3. ASSUME NEW s \in Sessions, PtyCreated(s)
      PROVE  PointInv'
  BY <1>3, PtyAgreement
<1>4. ASSUME NEW s \in Sessions, MastraImported(s)
      PROVE  PointInv'
  <2>1. SeenByItsAgent'
    BY <1>4, RecordValues DEF MastraImported, SeenByItsAgent, IsPty, FilesOK, SessionRecord
  <2> QED
    BY <1>4, <2>1
    DEF MastraImported, KeepsReviews, PointInv, PointersAgree, DeletedAgentsAreFree, Exists
<1>5. CASE UNCHANGED <<agent, task, session, assessed>>
  BY <1>5 DEF PointInv, PointersAgree, DeletedAgentsAreFree, SeenByItsAgent, IsPty, Exists
<1> QED
  BY <1>1, <1>2, <1>3, <1>4, <1>5, NextCases

\* The files of agents and tasks agree, whatever falls between the halves of a
\* start, as long as no model is asked about the complexity of a task: what is
\* written after that question is the task as it was before it.
THEOREM FilesAgree ==
    ASSUME ~AssessesComplexity
    PROVE  Spec => []PointersAgree
<1>1. Init => PointInv
  BY RecordValues, ConstantsAssumption
  DEF Init, PointInv, PointersAgree, DeletedAgentsAreFree, SeenByItsAgent, IdleAgent
<1>2. PointInv => PointersAgree
  BY DEF PointInv
<1>3. TypeInv /\ PointInv /\ [Next]_vars => PointInv'
  BY PointStep
<1> QED
  BY <1>1, <1>2, <1>3, TypeInvariant, PTL DEF Spec

-----------------------------------------------------------------------------
(* Only the current run moves a task.                                       *)

\* Runs begin in their order.
InOrder ==
    \A s, r \in Sessions :
        session[s].state = "unused" /\ r > s => session[r].state = "unused"

\* A task that records the run of a Mastra agent is not the task of a later run: that
\* one recorded itself, a Mastra run as it began to start, a terminal as it came to life.
RecordedIsLatest ==
    \A s, r \in Sessions, t \in Tasks :
        r > s /\ ~IsPty(s) /\ task[t].session = s /\ session[r].task = t
        => session[r].state # "live" /\ (session[r].state = "starting" => IsPty(r))

RecordInv == InOrder /\ RecordedIsLatest

\* Where no run begins, no task comes to record one.
NoTaskRecords == \A t \in Tasks : task'[t].session \in {task[t].session, None}

LEMMA QuietRecords ==
    ASSUME TypeInv, assessed = {}, QuietStep
    PROVE  NoTaskRecords
<1> USE DEF KeepsReviews, NoTaskRecords
<1>0. /\ FilesOK /\ task \in [Tasks -> TaskRecord]
      /\ \A t \in Tasks : task[t] = [status |-> task[t].status, agent |-> task[t].agent,
                                     session |-> task[t].session, retries |-> task[t].retries,
                                     reviewers |-> task[t].reviewers]
  BY DEF TypeInv, FilesOK, TaskRecord
<1>1. CASE UNCHANGED task
  BY <1>1
<1>2. ASSUME NEW t \in Tasks, NEW st, task' = [task EXCEPT ![t].status = st]
      PROVE  NoTaskRecords
  BY <1>0, <1>2
<1>3. ASSUME NEW a \in Agents, UnassignTask(a) \/ StopAgent(a)
      PROVE  NoTaskRecords
  <2>1. CASE UnassignTask(a)
    <3> TAKE u \in Tasks
    <3>1. task'[u] = IF u = agent[a].task /\ Exists(u)
                     THEN [task[u] EXCEPT !.agent = None, !.session = None,
                                          !.status = IF @ = "in_progress" THEN "todo" ELSE @]
                     ELSE task[u]
      BY <2>1 DEF UnassignTask
    <3> QED
      BY <1>0, <3>1
  <2>2. CASE StopAgent(a)
    <3> TAKE u \in Tasks
    <3>1. task'[u] = IF u = agent[a].task /\ Exists(u)
                     THEN [task[u] EXCEPT !.session = None,
                                          !.status = IF @ = "in_progress" THEN "human_review"
                                                     ELSE @]
                     ELSE task[u]
      BY <2>2 DEF StopAgent
    <3> QED
      BY <1>0, <3>1
  <2> QED
    BY <1>3, <2>1, <2>2
<1>4. ASSUME NEW a \in Agents, DeleteAgent(a)
      PROVE  NoTaskRecords
  BY <1>0, <1>4 DEF DeleteAgent
<1>5. ASSUME NEW a \in Agents, NEW t \in Tasks, AssignTask(a, t)
      PROVE  NoTaskRecords
  BY <1>0, <1>5 DEF AssignTask
<1>6. ASSUME NEW a \in Agents, NEW code \in AllCodes, Complete(a, code)
      PROVE  NoTaskRecords
  <2>1. agent[a].task \in Tasks \cup {None}
    BY <1>0 DEF FilesOK, AgentRecord
  <2>2. ASSUME agent[a].task # None, task' = [task EXCEPT ![agent[a].task].retries = @ + 1]
        PROVE  NoTaskRecords
    BY <1>0, <2>1, <2>2
  <2> QED
    BY <1>1, <1>2, <1>6, <2>1, <2>2 DEF Complete
<1>7. ASSUME NEW t \in Tasks, UpdateTask(t) \/ DeleteTask(t) \/ KickBack(t)
      PROVE  NoTaskRecords
  <2>1. CASE DeleteTask(t)
    BY <1>0, <2>1 DEF DeleteTask, NoTask
  <2>2. ASSUME task' = [task EXCEPT ![t].reviewers = TRUE]
        PROVE  NoTaskRecords
    BY <1>0, <2>2
  <2>3. CASE UpdateTask(t)
    BY <1>2, <2>2, <2>3 DEF UpdateTask
  <2>4. CASE KickBack(t)
    BY <1>2, <2>4 DEF KickBack
  <2> QED
    BY <1>7, <2>1, <2>3, <2>4
<1>8. ASSUME NEW t \in Tasks, ReviewApproves(t) \/ ReviewRejects(t)
      PROVE  NoTaskRecords
  <2>1. CASE ReviewApproves(t)
    BY <1>1, <1>2, <2>1 DEF ReviewApproves
  <2>2. CASE ReviewRejects(t)
    BY <1>1, <1>2, <2>2 DEF ReviewRejects
  <2> QED
    BY <1>8, <2>1, <2>2
<1>9. CASE ComplexityAssessed
  BY <1>9 DEF ComplexityAssessed
<1>10. ASSUME NEW s \in Sessions, SessionExits(s)
       PROVE  NoTaskRecords
  <2>1. session[s].agent \in Agents
    BY <1>10 DEF SessionExits, TypeInv, RunsOK, Underway
  <2> QED
    BY <1>6, <1>10, <2>1 DEF SessionExits, AllCodes
<1>11. ASSUME NEW s \in Sessions, Promote(s) \/ Block(s)
       PROVE  NoTaskRecords
  <2>1. session[s].task \in Tasks
    BY <1>11 DEF Promote, Block, TypeInv, RunsOK, Underway
  <2> QED
    BY <1>2, <1>11, <2>1 DEF Promote, Block
<1>12. ASSUME NEW a \in Agents, Reconcile(a)
       PROVE  NoTaskRecords
  BY <1>6, <1>12 DEF Reconcile, AllCodes
<1>13. ASSUME NEW s \in Sessions,
              KillTerminal(s) \/ PtyDiscarded(s) \/ StaleSessionExits(s) \/ StreamEnds(s)
       PROVE  NoTaskRecords
  BY <1>1, <1>13 DEF KillTerminal, PtyDiscarded, StaleSessionExits, StreamEnds
<1>14. CASE RestartApp
  BY <1>1, <1>14 DEF RestartApp
<1> QED
  BY <1>3, <1>4, <1>5, <1>7, <1>8, <1>9, <1>10, <1>11, <1>12, <1>13, <1>14 DEF QuietStep

\* Where no run begins, what is unused stays so, and a run of Mastra was one before.
LEMMA QuietRuns ==
    ASSUME TypeInv, QuietStep
    PROVE  \A s \in Sessions :
             /\ session'[s].state = "unused" <=> session[s].state = "unused"
             /\ session'[s].agent \in {session[s].agent, None}
<1> DEFINE Kept == \A s \in Sessions :
                     /\ session'[s].state = "unused" <=> session[s].state = "unused"
                     /\ session'[s].agent \in {session[s].agent, None}
<1>0. FilesOK
  BY DEF TypeInv
<1>1. CASE UNCHANGED session
  BY <1>1
<1>2. ASSUME NEW x, session' = StopExecution(x)
      PROVE  Kept
  BY <1>0, <1>2, StopExecutionFacts
<1>3. ASSUME NEW s \in Sessions, session[s].state # "unused", session' = [session EXCEPT ![s] = Gone]
      PROVE  Kept
  BY <1>0, <1>3 DEF FilesOK, Gone, NoSession
<1>4. CASE RestartApp
  BY <1>4 DEF RestartApp, Gone, NoSession
<1>5. CASE ~RestartApp
  <2>1. \/ UNCHANGED session
        \/ \E x : session' = StopExecution(x)
        \/ \E s \in Sessions : session[s].state # "unused" /\ session' = [session EXCEPT ![s] = Gone]
    BY <1>5
    DEF QuietStep, UnassignTask, StopAgent, DeleteAgent, Reconcile, AssignTask, UpdateTask,
        DeleteTask, KickBack, ReviewApproves, ReviewRejects, ComplexityAssessed, KillTerminal,
        PtyDiscarded, SessionExits, StaleSessionExits, StreamEnds, Promote, Block
  <2> QED
    BY <2>1, <1>1, <1>2, <1>3
<1> QED
  BY <1>4, <1>5

LEMMA RecordStep ==
    ASSUME TypeInv, assessed = {}, RecordInv, [Next]_vars
    PROVE  RecordInv'
<1>0. /\ FilesOK /\ None \notin Sessions /\ None \notin MastraAgents /\ Sessions \subseteq Nat
  BY ConstantsAssumption DEF TypeInv, Sessions
<1>1. CASE QuietStep
  <2>1. InOrder'
    BY <1>1, QuietRuns DEF RecordInv, InOrder
  <2>2. ASSUME NEW s \in Sessions, NEW r \in Sessions, NEW t \in Tasks, r > s, ~IsPty(s)',
               task'[t].session = s, session'[r].task = t,
               session'[r].state = "live" \/ (session'[r].state = "starting" /\ ~IsPty(r)')
        PROVE  FALSE
    <3>1. session[s].agent = session'[s].agent /\ session[r].task = t
          /\ session'[r].agent = session[r].agent /\ session'[r].state = session[r].state
      BY <1>0, <1>1, <2>2, QuietRuns, QuietNoRun DEF IsPty, NoRunBegins
    <3>2. task[t].session = s
      BY <1>0, <1>1, <2>2, QuietRecords DEF NoTaskRecords
    <3> QED
      BY <2>2, <3>1, <3>2 DEF RecordInv, RecordedIsLatest, IsPty
  <2>3. RecordedIsLatest'
    BY <2>2 DEF RecordedIsLatest
  <2> QED
    BY <2>1, <2>3 DEF RecordInv
<1>2. ASSUME NEW a \in Agents, StartStep(a)
      PROVE  RecordInv'
  <2>1. PICK u \in Tasks, n \in Sessions : StartRun(a, u, n)
    BY <1>2 DEF StartStep
  <2> DEFINE new == [state |-> "starting", agent |-> a, task |-> u,
                     seen |-> IF a \in MastraAgents THEN None ELSE task[u]]
  <2>2. /\ \A s \in Sessions \ {n} : session'[s] = session[s]
        /\ session'[n].state = "starting" /\ session'[n].agent = a /\ session'[n].task = u
        /\ session[n].state = "unused"
        /\ \A s \in Sessions : s < n => session[s].state # "unused"
        /\ \A s \in Sessions : s > n => session[s].state = "unused"
    <3>1. session' = [session EXCEPT ![n] = new] /\ session[n].state = "unused"
          /\ \A s \in 1 .. n - 1 : session[s].state # "unused"
      BY <2>1 DEF StartRun
    <3>2. \A s \in Sessions : s < n => s \in 1 .. n - 1
      BY <1>0 DEF Sessions
    <3> QED
      BY <1>0, <3>1, <3>2 DEF FilesOK, RecordInv, InOrder
  <2>3. /\ \A t \in Tasks \ {u} : task'[t].session = task[t].session
        /\ a \in MastraAgents => task'[u].session = n
        /\ a \notin MastraAgents => task' = task
    <3> DEFINE r == Begun(task[u], n)
    <3>1. task \in [Tasks -> TaskRecord]
      BY <1>0 DEF FilesOK
    <3>2. IF a \in MastraAgents THEN task' = [task EXCEPT ![u] = r] ELSE task' = task
      BY <2>1, <3>1 DEF StartRun
    <3>3. r.session = n
      BY <3>1 DEF Begun, TaskRecord
    <3> HIDE DEF r
    <3> QED
      BY <3>1, <3>2, <3>3
  <2>4. InOrder'
    BY <1>0, <2>2 DEF InOrder, RecordInv
  <2>5. ASSUME NEW s \in Sessions, NEW r \in Sessions, NEW t \in Tasks, r > s, ~IsPty(s)',
               task'[t].session = s, session'[r].task = t,
               session'[r].state = "live" \/ (session'[r].state = "starting" /\ ~IsPty(r)')
        PROVE  FALSE
    <3>1. CASE r = n
      BY <1>0, <2>2, <2>3, <2>5, <3>1 DEF IsPty
    <3>2. CASE s = n
      BY <1>0, <2>2, <2>5, <3>2
    <3>3. CASE r # n /\ s # n
      BY <2>2, <2>3, <2>5, <3>3 DEF RecordInv, RecordedIsLatest, IsPty
    <3> QED
      BY <3>1, <3>2, <3>3
  <2>6. RecordedIsLatest'
    BY <2>5 DEF RecordedIsLatest
  <2> QED
    BY <2>4, <2>6 DEF RecordInv
<1>3. ASSUME NEW n \in Sessions, PtyCreated(n)
      PROVE  RecordInv'
  <2> DEFINE u == session[n].task
  <2>1. u \in Tasks /\ IsPty(n) /\ session[n].state = "starting"
    BY <1>3 DEF PtyCreated, TypeInv, RunsOK, Underway
  <2>2. /\ \A s \in Sessions \ {n} : session'[s] = session[s]
        /\ session'[n].state = "live" /\ session'[n].agent = session[n].agent
        /\ session'[n].task = u
    BY <1>0, <1>3 DEF PtyCreated, FilesOK, SessionRecord
  <2>3. /\ \A t \in Tasks \ {u} : task'[t].session = task[t].session
        /\ task'[u].session = n
    <3>1. session[n].seen \in TaskRecord
      BY <1>3 DEF PtyCreated, TypeInv, RunsOK
    <3>2. Begun(session[n].seen, n).session = n
      BY <3>1 DEF Begun, TaskRecord
    <3>3. task' = [task EXCEPT ![u] = Begun(session[n].seen, n)]
      BY <1>3 DEF PtyCreated
    <3> QED
      BY <1>0, <2>1, <3>2, <3>3 DEF FilesOK
  <2> HIDE DEF u
  <2>4. InOrder'
    BY <2>1, <2>2 DEF InOrder, RecordInv
  <2>5. ASSUME NEW s \in Sessions, NEW r \in Sessions, NEW t \in Tasks, r > s, ~IsPty(s)',
               task'[t].session = s, session'[r].task = t,
               session'[r].state = "live" \/ (session'[r].state = "starting" /\ ~IsPty(r)')
        PROVE  FALSE
    <3>1. CASE r = n
      BY <1>0, <2>2, <2>3, <2>5, <3>1
    <3>2. CASE s = n
      BY <2>1, <2>2, <2>5, <3>2 DEF IsPty
    <3>3. CASE r # n /\ s # n
      BY <2>2, <2>3, <2>5, <3>3 DEF RecordInv, RecordedIsLatest, IsPty
    <3> QED
      BY <3>1, <3>2, <3>3
  <2>6. RecordedIsLatest'
    BY <2>5 DEF RecordedIsLatest
  <2> QED
    BY <2>4, <2>6 DEF RecordInv
<1>4. ASSUME NEW n \in Sessions, MastraImported(n)
      PROVE  RecordInv'
  <2>1. /\ \A s \in Sessions \ {n} : session'[s] = session[s]
        /\ session[n].state = "starting" /\ ~IsPty(n) /\ task' = task
        /\ \/ session'[n].state = "gone" /\ session'[n].agent = None
           \/ /\ session'[n].state = "live" /\ session'[n].agent = session[n].agent
              /\ session'[n].task = session[n].task
    BY <1>0, <1>4 DEF MastraImported, FilesOK, SessionRecord, Gone, NoSession
  <2>2. InOrder'
    BY <2>1 DEF InOrder, RecordInv
  <2>3. RecordedIsLatest'
    BY <1>0, <2>1 DEF RecordInv, RecordedIsLatest, IsPty
  <2> QED
    BY <2>2, <2>3 DEF RecordInv
<1>5. CASE UNCHANGED <<agent, task, session, assessed>>
  BY <1>5 DEF RecordInv, InOrder, RecordedIsLatest, IsPty
<1> QED
  BY <1>1, <1>2, <1>3, <1>4, <1>5, NextCases

\* A run that lost its task does not move it: what an aborted stream may still call
\* passes the fence only while its task records it, and then no later run is live on
\* that task. As above, no model is asked about the complexity of a task.
THEOREM OnlyCurrentRunsMoveTasks ==
    ASSUME ~AssessesComplexity
    PROVE  Spec => OnlyTheCurrentRunMovesATask
<1> DEFINE Inv == TypeInv /\ PointInv /\ RecordInv
<1>1. Init => Inv
  <2>1. Init => PointInv
    BY RecordValues, ConstantsAssumption
    DEF Init, PointInv, PointersAgree, DeletedAgentsAreFree, SeenByItsAgent, IdleAgent
  <2>2. Init => RecordInv
    BY RecordValues DEF Init, RecordInv, InOrder, RecordedIsLatest
  <2> QED
    BY <2>1, <2>2, TypeInit
<1>2. Inv /\ [Next]_vars => Inv'
  BY TypeStep, PointStep, RecordStep DEF PointInv
<1>3. Inv => \A s \in Sessions : Promote(s) \/ Block(s) =>
        \A r \in Sessions : r > s /\ session[r].state = "live" =>
            session[r].task # session[s].task \/ ~OwnsAgent(r)
  <2> SUFFICES ASSUME Inv, NEW s \in Sessions, Promote(s) \/ Block(s),
                      NEW r \in Sessions, r > s, session[r].state = "live"
               PROVE  session[r].task # session[s].task
    OBVIOUS
  <2>1. /\ ~IsPty(s) /\ task[session[s].task].session = s /\ session[s].task \in Tasks
    BY DEF Promote, Block, OwnsTask, TypeInv, RunsOK, Underway
  <2> QED
    BY <2>1 DEF RecordInv, RecordedIsLatest
<1>4. Inv /\ [Next]_vars =>
        [ \A s \in Sessions : Promote(s) \/ Block(s) =>
            \A r \in Sessions : r > s /\ session[r].state = "live" =>
                session[r].task # session[s].task \/ ~OwnsAgent(r) ]_vars
  BY <1>3
<1> QED
  BY <1>1, <1>2, <1>4, PTL DEF Spec, OnlyTheCurrentRunMovesATask
=============================================================================
