--------------------------- MODULE AutomationTurns ---------------------------
(***************************************************************************)
(* The turns of one conversation that nobody at the desk started: those of *)
(* automation rules (automations/actions.ts), of answers to alerts and of  *)
(* recovered answers (ipc/alerts.ts). They meet one another and the        *)
(* interactive turns of the conversation: a rule's event joins a turn that *)
(* runs, through a queue drained between its steps (agent/inject-queue.ts, *)
(* agent/prepare-step-inject.ts); an answer waits for a turn of its own,   *)
(* and later events wait behind it.                                        *)
(*                                                                         *)
(* The rules' events find the conversation as their singleton. Of an       *)
(* interactive turn only what happens to prompts put into it is modelled;  *)
(* its continuation is one more of them. A write that fails is one that    *)
(* fails twice; the last attempt to save a follow-up does not fail, nor    *)
(* does a roll back, nor the store of the alerts. Rules that divert,       *)
(* deleted or compacted conversations are left out, as are an interactive  *)
(* turn that starts over and crashes between two writes of one turn of the *)
(* event loop.                                                             *)
(***************************************************************************)
EXTENDS Integers, Sequences, SequencesExt, FiniteSets

CONSTANTS
    Events,         \* events that rules answer with a prompt
    Alerts,         \* questions and approvals
    Recovered,      \* answers whose turn had ended (RacedAnswers)
    ContinueBudget, \* continuations of one action; 3 in the code
    MaxAnswers,     \* bound: times an alert is answered
    MaxPrompts,     \* bound: events and answers, of all that there are
    MaxRetries,     \* bound: times a turn starts over (model fallback, retry)
    MaxFaults,      \* bound: failing writes and turns
    MaxDeskTurns,   \* bound: turns that a user starts at the desk
    MaxCrashes,     \* bound: crashes
    None

Answers == Alerts \X (1..MaxAnswers)
Resumes == Answers \cup Recovered
Prompts == Events \cup Resumes

ASSUME BoundsAssumption ==
    /\ {ContinueBudget, MaxAnswers, MaxPrompts, MaxRetries, MaxFaults, MaxDeskTurns, MaxCrashes} \subseteq Nat
    /\ None \notin Prompts
    /\ Events \cap Resumes = {} /\ Answers \cap Recovered = {}

VARIABLES
    alert,     \* status on disk
    given,     \* answers given to each alert
    note,      \* recovered answers recorded as an alert, on disk
    stage,     \* where the action of each prompt is
    budget,    \* continuations it has left
    tails,     \* orderedConversationTails: the head owns the slot or waits for it
    live,      \* inFlightAutomationTargets: the prompt whose turn runs, or None
    turn,      \* follow-ups the live turn has taken from the queue
    queue,     \* the inject queue
    branch,    \* prompts in the conversation, in order
    status,    \* runStatus on disk
    desk,      \* the interactive turn, by who writes its messages
    \* history
    accepted,  \* follow-ups that a live turn was given, in order
    ahead,     \* per event: answers that were on their way when it came
    intruded,  \* an interactive turn began over those of an automation
    \* bounds
    retries, faults, deskTurns, crashes

disk == <<alert, given, note>>
actions == <<stage, budget, tails>>
history == <<accepted, ahead, intruded>>
bounds == <<retries, faults, deskTurns, crashes>>
vars == <<disk, actions, live, turn, queue, branch, status, desk, history, bounds>>

Stages == {"none", "waiting", "resolving", "injecting", "running", "returned", "failed"}

\* pendingBoundary, one batch per step; boundaryPersistedIds; failedBoundaryUsers.
NoFollowUps == [pending |-> <<>>, landed |-> <<>>, failed |-> <<>>]

TypeOK ==
    /\ alert \in [Alerts -> {"open", "answered", "dismissed"}]
    /\ given \in [Alerts -> 0..MaxAnswers] /\ note \subseteq Recovered
    /\ stage \in [Prompts -> Stages] /\ budget \in [Prompts -> 0..ContinueBudget]
    /\ tails \in Seq(Prompts) /\ IsInjective(tails)
    /\ \A p \in Prompts : stage[p] = "waiting" => p \in ToSet(tails)
    /\ live \in Prompts \cup {None}
    /\ \A p \in Prompts : stage[p] = "running" <=> p = live
    /\ turn \in [pending : Seq(Seq(Prompts)), landed : Seq(Prompts), failed : Seq(Prompts)]
    /\ live = None => turn = NoFollowUps
    /\ queue \in Seq(Prompts) /\ branch \in Seq(Prompts)
    /\ status \in {"idle", "running"} /\ desk \in {"none", "gui", "server"}
    /\ accepted \in Seq(Events) /\ intruded \in BOOLEAN
    /\ ahead \in [Events -> SUBSET Resumes]
    /\ {retries, faults, deskTurns, crashes} \subseteq Nat

Init ==
    /\ alert = [a \in Alerts |-> "open"] /\ given = [a \in Alerts |-> 0] /\ note = {}
    /\ stage = [p \in Prompts |-> "none"] /\ budget = [p \in Prompts |-> ContinueBudget]
    /\ tails = <<>> /\ live = None /\ turn = NoFollowUps
    /\ queue = <<>> /\ branch = <<>> /\ status = "idle" /\ desk = "none"
    /\ accepted = <<>> /\ ahead = [e \in Events |-> {}] /\ intruded = FALSE
    /\ retries = 0 /\ faults = 0 /\ deskTurns = 0 /\ crashes = 0

-----------------------------------------------------------------------------
(* One action of a rule or of an alert: how it starts, waits and ends.     *)

Saved(p) == p \in ToSet(branch)

\* The members of s that are in S, in their order. (SelectSeq, in a form that can
\* be reasoned about.)
Only(s, S) ==
    LET f[n \in 0..Len(s)] == IF n = 0 THEN <<>>
                              ELSE IF s[n] \in S THEN Append(f[n - 1], s[n]) ELSE f[n - 1]
    IN  f[Len(s)]

\* Follow-ups are put on the branch by their ids, once.
Land(b, s) == b \o Only(s, Prompts \ ToSet(b))

\* A drain-at-end continuation of an action whose first turn is over.
Continues(p) == budget[p] < ContinueBudget

OwnsSlot(p) == tails # <<>> /\ Head(tails) = p

\* Mutant: whoever ends, the head leaves the slot.
LeaveAnySlot(p) == tails' = IF tails # <<>> THEN Tail(tails) ELSE tails

LeaveSlot(p) == tails' = IF OwnsSlot(p) THEN Tail(tails) ELSE tails
MoveTo(p, s) == stage' = [stage EXCEPT ![p] = s]

Wait(p) == tails' = Append(tails, p) /\ MoveTo(p, "waiting")

\* The action returns; the alert of an answer stays answered.
Return(p) == LeaveSlot(p) /\ MoveTo(p, "returned") /\ UNCHANGED <<alert, note>>

\* Mutant: an answer that failed is asked for again, saved or not.
ReopenedAlways(p) ==
    IF p \in Answers /\ alert[p[1]] = "answered"
      THEN [alert EXCEPT ![p[1]] = "open"]
      ELSE alert

\* An answer that failed is in the conversation, or its alert is opened again.
Reopened(p) ==
    IF p \in Answers /\ ~Saved(p) /\ alert[p[1]] = "answered"
      THEN [alert EXCEPT ![p[1]] = "open"]
      ELSE alert

StillRecorded(p) == IF Saved(p) THEN note \ {p} ELSE note

\* It throws. Nobody hears of a continuation that does.
Throw(p) ==
    /\ LeaveSlot(p)
    /\ \/ Continues(p) /\ MoveTo(p, "returned") /\ UNCHANGED <<alert, note>>
       \/ /\ ~Continues(p) /\ MoveTo(p, "failed")
          /\ alert' = Reopened(p) /\ note' = StillRecorded(p)

\* A turn of its own; the prompt is saved before the model is asked. A
\* continuation finds what it is to answer at the end of b.
Run(p, b) ==
    /\ live' = p /\ MoveTo(p, "running")
    /\ status' = "running" /\ turn' = NoFollowUps
    /\ branch' = IF Continues(p) THEN b ELSE Append(b, p)

-----------------------------------------------------------------------------
(* Interactive turns, and prompts put into them.                           *)

\* What an interactive turn that begins makes of the prompts in the queue: it
\* keeps those of a turn that wrote its own messages, and of the others those
\* that are in the conversation. A turn of the GUI saved them as it took them.
Kept == IF desk = "server" THEN branch \o queue ELSE branch

Begin(kind, b) ==
    /\ desk' = kind /\ status' = "running"
    /\ queue' = <<>> /\ branch' = b
    /\ intruded' = (intruded \/ live # None \/ ~(ToSet(queue) \subseteq ToSet(b)))

\* injectUserTurnAndRestart: a turn that can take the prompt is asked for after
\* a policy hook; where there is none a new turn begins.
Restart(p) == Return(p) /\ Begin("server", Append(Kept, p))

Inject(p) ==
    \/ /\ desk # "none" /\ MoveTo(p, "injecting")
       /\ UNCHANGED <<tails, alert, note, queue, branch, status, desk, intruded>>
    \/ desk = "none" /\ Restart(p)

Refused(p) ==
    /\ stage[p] = "injecting"
    /\ Throw(p)
    /\ UNCHANGED <<given, budget, live, turn, queue, branch, status, desk, history, bounds>>

Spliced(p) ==
    /\ stage[p] = "injecting" /\ desk # "none"
    /\ queue' = Append(queue, p)
    /\ branch' = IF desk = "gui" THEN Append(branch, p) ELSE branch
    /\ Return(p)
    /\ UNCHANGED <<given, budget, live, turn, status, desk, history, bounds>>

Restarted(p) ==
    /\ stage[p] = "injecting"
    /\ Restart(p)
    /\ UNCHANGED <<given, budget, live, turn, accepted, ahead, bounds>>

DeskStarts(kind) ==
    /\ desk = "none" /\ status = "idle" /\ deskTurns < MaxDeskTurns
    /\ deskTurns' = deskTurns + 1
    /\ Begin(kind, Kept)
    /\ UNCHANGED <<disk, actions, live, turn, accepted, ahead, retries, faults, crashes>>

\* A step of its model takes what is in the queue.
DeskSteps ==
    /\ desk # "none" /\ queue # <<>>
    /\ branch' = Kept /\ queue' = <<>>
    /\ UNCHANGED <<disk, actions, live, turn, status, desk, history, bounds>>

\* A turn that raised an alert, say, leaves the conversation marked as running.
DeskEnds(s) ==
    /\ desk # "none"
    /\ branch' = Kept /\ queue' = <<>>
    /\ desk' = "none" /\ status' = s
    /\ UNCHANGED <<disk, actions, live, turn, history, bounds>>

-----------------------------------------------------------------------------
(* An event. Behind an answer it waits; otherwise it joins a turn that     *)
(* runs, or starts one.                                                    *)
RoomForAnother == Cardinality({p \in Prompts : stage[p] # "none"}) < MaxPrompts

\* Mutant: an answer that has entered its turn no longer holds others back.
BarrierUntilEntered == tails # <<>> /\ stage[Head(tails)] = "waiting"

\* orderedConversationTails has the conversation.
BarrierUp == tails # <<>>

OnTheWay == {p \in Resumes : stage[p] \in {"waiting", "resolving", "injecting"}}

Fire(e) ==
    /\ stage[e] = "none" /\ RoomForAnother
    /\ ahead' = [ahead EXCEPT ![e] = OnTheWay]
    /\ \/ /\ BarrierUp /\ Wait(e)
          /\ UNCHANGED <<alert, note, live, turn, queue, branch, status, desk, accepted, intruded>>
       \/ /\ ~BarrierUp /\ live # None
          /\ queue' = Append(queue, e) /\ accepted' = Append(accepted, e)
          /\ Return(e)
          /\ UNCHANGED <<live, turn, branch, status, desk, intruded>>
       \/ /\ ~BarrierUp /\ live = None /\ status = "running"
          /\ Inject(e)
          /\ UNCHANGED <<live, turn, accepted>>
       \/ /\ ~BarrierUp /\ live = None /\ status = "idle"
          /\ Run(e, branch)
          /\ UNCHANGED <<tails, alert, note, queue, desk, accepted, intruded>>
    /\ UNCHANGED <<given, budget, bounds>>

(* The user answers an alert, or dismisses it.                             *)
Answer(a) ==
    /\ alert[a] = "open" /\ given[a] < MaxAnswers /\ RoomForAnother
    /\ alert' = [alert EXCEPT ![a] = "answered"]
    /\ given' = [given EXCEPT ![a] = @ + 1]
    /\ Wait(<<a, given[a] + 1>>)
    /\ UNCHANGED <<note, budget, live, turn, queue, branch, status, desk, history, bounds>>

Dismiss(a) ==
    /\ alert[a] # "dismissed"
    /\ alert' = [alert EXCEPT ![a] = "dismissed"]
    /\ UNCHANGED <<given, note, actions, live, turn, queue, branch, status, desk,
                   history, bounds>>

(* An answer whose turn had ended is recorded, then queued like any other; *)
(* once the conversation has it, the record goes.                          *)
Recover(r) ==
    /\ stage[r] = "none" /\ RoomForAnother
    /\ note' = note \cup {r}
    /\ Wait(r)
    /\ UNCHANGED <<alert, given, budget, live, turn, queue, branch, status, desk, history, bounds>>

\* Mutant: the record goes once the answer was handed over.
ReconcileReturned(r) ==
    /\ stage[r] = "returned" /\ r \in note
    /\ note' = note \ {r}
    /\ UNCHANGED <<alert, given, actions, live, turn, queue, branch, status, desk, history, bounds>>

Reconcile(r) ==
    /\ stage[r] = "returned" /\ r \in note /\ Saved(r)
    /\ note' = note \ {r}
    /\ UNCHANGED <<alert, given, actions, live, turn, queue, branch, status, desk, history, bounds>>

(* The head of the slot enters when no automation's turn runs. Of a        *)
(* conversation named by its id a stale status is cleared; a singleton     *)
(* that is busy is injected into whatever makes it so.                     *)
Enter(p) ==
    /\ OwnsSlot(p) /\ stage[p] = "waiting" /\ live = None
    /\ LET s == IF desk = "none" /\ (p \in Resumes \/ Continues(p)) THEN "idle" ELSE status
       IN  \/ /\ s = "running" /\ Inject(p)
              /\ UNCHANGED <<live, turn>>
           \/ /\ s = "idle" /\ p \in Resumes
              /\ MoveTo(p, "resolving") /\ status' = s
              /\ UNCHANGED <<tails, alert, note, live, turn, queue, branch, desk, intruded>>
           \/ /\ s = "idle" /\ p \in Events
              /\ Run(p, branch)
              /\ UNCHANGED <<tails, alert, note, queue, desk, intruded>>
    /\ UNCHANGED <<given, budget, accepted, ahead, bounds>>

SettleTimeout(p) ==
    /\ OwnsSlot(p) /\ stage[p] = "waiting" /\ live # None
    /\ Throw(p)
    /\ UNCHANGED <<given, budget, live, turn, queue, branch, status, desk, history, bounds>>

\* The runtime of an answer is resolved: another runtime than Mastra, or a turn
\* that began meanwhile, is injected into.
Resolved(p) ==
    /\ stage[p] = "resolving"
    /\ \/ Inject(p) /\ UNCHANGED <<live, turn>>
       \/ /\ desk = "none" /\ live = None
          /\ Run(p, branch)
          /\ UNCHANGED <<tails, alert, note, queue, desk, intruded>>
    /\ UNCHANGED <<given, budget, accepted, ahead, bounds>>

-----------------------------------------------------------------------------
(* The follow-ups of an automation's turn.                                 *)

Fault == faults < MaxFaults /\ faults' = faults + 1
NoFault == UNCHANGED faults

PrepareStep ==
    /\ live # None /\ queue # <<>>
    /\ turn' = [turn EXCEPT !.pending = Append(@, queue)]
    /\ queue' = <<>>
    /\ UNCHANGED <<disk, actions, live, branch, status, desk, history, bounds>>

\* flushInjectedBoundary: the batch is saved up to the first that fails, and
\* nothing of the turn is saved before that one.
Boundary ==
    /\ live # None /\ turn.pending # <<>>
    /\ LET batch == Head(turn.pending)
           Flush(k) ==
               /\ branch' = Land(branch, SubSeq(batch, 1, k))
               /\ turn' = [pending |-> Tail(turn.pending),
                           landed  |-> turn.landed \o SubSeq(batch, 1, k),
                           failed  |-> turn.failed \o SubSeq(batch, k + 1, Len(batch))]
       IN  \/ turn.failed # <<>> /\ Flush(0) /\ NoFault
           \/ turn.failed = <<>> /\ Flush(Len(batch)) /\ NoFault
           \/ turn.failed = <<>> /\ Fault /\ \E k \in 0..(Len(batch) - 1) : Flush(k)
    /\ UNCHANGED <<disk, actions, live, queue, status, desk, history,
                   retries, deskTurns, crashes>>

\* Mutant: what was pending is put back in front of what was saved.
RestartOutOfOrder ==
    /\ live # None /\ retries < MaxRetries
    /\ retries' = retries + 1
    /\ branch' = Only(branch, Prompts \ ToSet(turn.landed))
    /\ queue' = FlattenSeq(turn.pending) \o turn.landed \o turn.failed \o queue
    /\ turn' = NoFollowUps
    /\ UNCHANGED <<disk, actions, live, status, desk, history, faults, deskTurns, crashes>>

\* handleAttemptRestart: the turn starts over, and takes its follow-ups again.
AttemptRestart ==
    /\ live # None /\ retries < MaxRetries
    /\ retries' = retries + 1
    /\ branch' = Only(branch, Prompts \ ToSet(turn.landed))
    /\ queue' = turn.landed \o turn.failed \o FlattenSeq(turn.pending) \o queue
    /\ turn' = NoFollowUps
    /\ UNCHANGED <<disk, actions, live, status, desk, history, faults, deskTurns, crashes>>

\* What the end of a turn makes of its follow-ups: b is the conversation, k of
\* the s left over are saved, the others go back to the queue.
Settle(b, s, k) ==
    /\ branch' = Land(b, SubSeq(s, 1, k))
    /\ queue' = SubSeq(s, k + 1, Len(s))
    /\ IF k < Len(s) THEN Fault ELSE NoFault

\* One more turn of the action, for what was left over at the end of this one.
ContinueTurn(p) ==
    /\ budget' = [budget EXCEPT ![p] = @ - 1]
    /\ UNCHANGED <<alert, note>>
    /\ \/ /\ OwnsSlot(p) /\ p \in Resumes
          /\ MoveTo(p, "resolving") /\ live' = None /\ status' = "idle"
          /\ UNCHANGED tails
       \/ /\ ~OwnsSlot(p) /\ tails # <<>>
          /\ Wait(p) /\ live' = None /\ status' = "idle"
       \/ /\ tails = <<>> \/ (OwnsSlot(p) /\ p \in Events)
          /\ live' = p /\ status' = "running"
          /\ UNCHANGED <<stage, tails>>

\* broke: the stream threw, and what it had taken goes back to the queue. An
\* aborted turn does not fail. A turn whose last write fails leaves its status.
TurnEnds(p) ==
    /\ live = p /\ turn' = NoFollowUps
    /\ \E broke, fails \in BOOLEAN :
         LET taken == FlattenSeq(turn.pending)
             b == Land(branch, IF broke THEN turn.failed ELSE turn.failed \o taken)
             s == IF broke THEN taken \o queue ELSE queue
         IN  /\ \E k \in 0..Len(s) : Settle(b, s, k)
             /\ \/ /\ fails /\ Throw(p)
                   /\ live' = None /\ UNCHANGED budget
                   /\ status' = "idle" \/ (branch' = branch /\ status' = "running")
                \/ /\ ~fails /\ s # <<>> /\ budget[p] > 0
                   /\ ContinueTurn(p)
                \/ /\ ~fails /\ (s = <<>> \/ budget[p] = 0)
                   /\ Return(p)
                   /\ live' = None /\ status' = "idle" /\ UNCHANGED budget
    /\ UNCHANGED <<given, desk, history, retries, deskTurns, crashes>>

-----------------------------------------------------------------------------
(* What is in memory is lost; follow-ups that a turn had not saved yet are *)
(* given up. At the start no conversation runs.                            *)
Crash ==
    /\ crashes < MaxCrashes
    /\ crashes' = crashes + 1
    /\ stage' = [p \in Prompts |->
                   IF p \in note \/ stage[p] \in {"waiting", "resolving", "injecting", "running"}
                     THEN "failed" ELSE stage[p]]
    /\ tails' = <<>> /\ live' = None /\ turn' = NoFollowUps /\ queue' = <<>>
    /\ desk' = "none" /\ status' = "idle"
    /\ accepted' = Only(accepted, ToSet(branch))
    /\ UNCHANGED <<disk, budget, branch, ahead, intruded, retries, faults, deskTurns>>

Next ==
    \/ \E e \in Events : Fire(e)
    \/ \E a \in Alerts : Answer(a) \/ Dismiss(a)
    \/ \E r \in Recovered : Recover(r) \/ Reconcile(r)
    \/ \E p \in Prompts :
         Enter(p) \/ SettleTimeout(p) \/ Resolved(p) \/ Refused(p) \/ Spliced(p) \/ Restarted(p)
           \/ TurnEnds(p)
    \/ PrepareStep \/ Boundary \/ AttemptRestart
    \/ \E kind \in {"gui", "server"} : DeskStarts(kind)
    \/ DeskSteps \/ \E s \in {"idle", "running"} : DeskEnds(s)
    \/ Crash

Spec == Init /\ [][Next]_vars

-----------------------------------------------------------------------------
(* An answer of an alert that waits, is given to a turn or is in the       *)
(* conversation is its only one, and its alert is not open: nobody is      *)
(* asked again what the conversation has the answer of. resume,            *)
(* alerts.ts 673-735, after failures before and after the answer is saved. *)
Counts(p) == stage[p] \in {"waiting", "resolving", "injecting", "running"}
               \/ p \in ToSet(branch \o queue)

OneAnswerPerAlert ==
    \A a \in Alerts :
      LET S == {p \in {a} \X (1..MaxAnswers) : Counts(p)}
      IN  Cardinality(S) <= (IF alert[a] = "open" THEN 0 ELSE 1)

(* The answer of a turn that had ended is in the conversation or recorded, *)
(* whatever fails and also after a crash. deliverRecoveredAnswer,          *)
(* alerts.ts 118-475.                                                      *)
RecoveredIsRecorded ==
    ~intruded => \A r \in Recovered : stage[r] # "none" => r \in note \/ Saved(r)

(* An event that comes while an answer waits does not get ahead of it:     *)
(* when the conversation has the event's prompt, the answer is done with,  *)
(* and it is before the prompt if the conversation has it too.             *)
(* orderedConversationTails, actions.ts 92-104 and 447-520.                *)
AnswersAreNotOvertaken ==
    ~intruded => \A i \in DOMAIN branch : branch[i] \in Events =>
      \A p \in ahead[branch[i]] :
        /\ p \notin OnTheWay
        /\ Saved(p) => \E j \in 1..(i - 1) : branch[j] = p

\* What the conversation has, and what the live turn or the queue still hold for it.
Line == branch \o turn.failed \o FlattenSeq(turn.pending) \o queue

(* Follow-ups that a turn of an automation was given are kept, each once   *)
(* and in the order they came, through boundaries that fail to be saved,   *)
(* restarts of the turn, streams that break, and leftovers of its end, as  *)
(* long as no interactive turn begins over them: one empties the queue     *)
(* (agent.ts 4067-4153). flushInjectedBoundary, handleAttemptRestart and   *)
(* the finally of runAgentAction, actions.ts 926-1185 and 1416-1540.       *)
FollowUpsAreKept ==
    ~intruded => Only(Line, ToSet(accepted)) = accepted

(* No interactive turn and turn of an automation run at once.              *)
TurnsExclude == live # None => desk = "none"

(* A prompt is in the conversation once.                                   *)
EachPromptOnce == IsInjective(branch)
=============================================================================
