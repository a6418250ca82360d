------------------------ MODULE BrowserProfileProofs ------------------------
(***************************************************************************)
(* Proofs about BrowserProfile, for any settings, runs and bounds: types,  *)
(* who works in which profile, and which profiles are closed meanwhile.    *)
(***************************************************************************)
EXTENDS BrowserProfile, SequenceTheorems, TLAPS

\* A transition is served from the head of the queue.
DrainInv == draining => transitions # <<>>

RunRecord == [phase : Phases, stale : BOOLEAN, scope : Scopes]

-----------------------------------------------------------------------------
(* What the helpers of the model return.                                   *)

LEMMA RevokedFacts ==
    ASSUME run \in [Runs -> RunRecord]
    PROVE  /\ Revoked \in [Runs -> RunRecord]
           /\ \A r \in Runs :
                /\ Revoked[r].scope = run[r].scope
                /\ Revoked[r].phase = Closed(run[r].phase, active[r])
                /\ Revoked[r].stale = (run[r].phase # "idle")
<1>1. \A r \in Runs : Closed(run[r].phase, active[r]) \in Phases
  BY DEF Closed, RunRecord, Phases
<1> QED
  BY <1>1 DEF Revoked, RunRecord

LEMMA WithResetsType ==
    ASSUME NEW operations \in [Scopes -> Seq(NativeOperation)], NEW scopes, NEW request \in Nat
    PROVE  WithResets(operations, scopes, request) \in [Scopes -> Seq(NativeOperation)]
<1>1. [request |-> request, awaited |-> TRUE, started |-> FALSE] \in NativeOperation
  BY DEF NativeOperation
<1> QED
  BY <1>1 DEF WithResets

\* An answer changes only what a transition waits for.
LEMMA AnsweredFacts ==
    ASSUME transitions \in Seq(Transition), NEW request, NEW s \in Scopes, NEW ok \in BOOLEAN
    PROVE  /\ Answered(request, s, ok) \in Seq(Transition)
           /\ Len(Answered(request, s, ok)) = Len(transitions)
           /\ \A i \in 1 .. Len(transitions) :
                /\ Answered(request, s, ok)[i].request = transitions[i].request
                /\ Answered(request, s, ok)[i].target = transitions[i].target
<1> DEFINE new == Answered(request, s, ok)
<1>1. DOMAIN transitions = 1 .. Len(transitions) /\ Len(transitions) \in Nat
  BY LenProperties
<1>2. ASSUME NEW i \in 1 .. Len(transitions)
      PROVE  /\ new[i] \in Transition
             /\ new[i].request = transitions[i].request
             /\ new[i].target = transitions[i].target
  <2>1. transitions[i] \in Transition
    BY ElementOfSeq
  <2>2. new[i] = IF transitions[i].request = request
                 THEN [transitions[i] EXCEPT !.closing = @ \ {s}, !.failed = @ \/ ~ok]
                 ELSE transitions[i]
    BY <1>1 DEF Answered
  <2>3. /\ transitions[i].closing \ {s} \in SUBSET Scopes
        /\ (transitions[i].failed \/ ~ok) \in BOOLEAN
    BY <2>1 DEF Transition
  <2>4. CASE transitions[i].request # request
    BY <2>1, <2>2, <2>4
  <2>5. CASE transitions[i].request = request
    <3>1. new[i] = [transitions[i] EXCEPT !.closing = @ \ {s}, !.failed = @ \/ ~ok]
      BY <2>2, <2>5
    <3> QED
      BY <2>1, <2>3, <3>1 DEF Transition
  <2> QED
    BY <2>4, <2>5
<1>3. new \in [1 .. Len(transitions) -> Transition]
  BY <1>1, <1>2 DEF Answered
<1>4. new \in Seq(Transition)
  BY <1>1, <1>3, SeqDef
<1>5. Len(new) = Len(transitions)
  BY <1>1, <1>3, <1>4, LenProperties
<1> QED
  BY <1>2, <1>4, <1>5

-----------------------------------------------------------------------------
(* Types.                                                                  *)

LEMMA InitType == Init => TypeOK
<1> SUFFICES ASSUME Init PROVE TypeOK
  OBVIOUS
<1>1. persisted \in Settings
  BY SettingsAssumption DEF Init
<1>2. persisted.scope \in Scopes
  BY <1>1 DEF Settings
<1>3. /\ native \in [Scopes -> Seq(NativeOperation)] /\ transitions \in Seq(Transition)
      /\ tabQueue \in Seq(Runs)
  BY EmptySeq DEF Init
<1>4. run \in [Runs -> RunRecord]
  BY <1>2 DEF Init, RunRecord, Phases
<1> QED
  BY <1>1, <1>2, <1>3, <1>4 DEF Init, TypeOK, RunRecord

\* What a change of the settings leaves behind, in the coordinator and the manager.
LEMMA HandleType ==
    ASSUME TypeOK, NEW c \in Settings, NEW waiting \in Seq(Transition), Handle(c, waiting)
    PROVE  /\ generation' \in Nat /\ pendingGeneration' \in Nat
           /\ lastObserved' = c /\ lastApplied' \in Settings /\ recovery' = None
           /\ mgr' \in Settings /\ mgr'.scope = mgr.scope /\ mgrGeneration' \in Nat
           /\ transitions' \in Seq(Transition) \cup {transitions} /\ suspended' \subseteq Scopes
           /\ native' \in [Scopes -> Seq(NativeOperation)]
           /\ tools' = FALSE
           /\ run' \in {run, Revoked}
<1>1. /\ generation' = generation + 1 /\ lastObserved' = c /\ recovery' = None
      /\ tools' = FALSE /\ run' \in {run, Revoked}
  BY DEF Handle
<1>2. CASE window = "none"
  BY <1>1, <1>2 DEF Handle, TypeOK
<1>3. CASE window # "none"
  <2> DEFINE scopes == IF Preempts(c) THEN InUse ELSE {}
             t == [generation |-> generation', request |-> mgrGeneration + 1, target |-> c,
                   preempted |-> Preempts(c), scopes |-> scopes, swap |-> c.scope # mgr.scope,
                   closing |-> scopes, failed |-> FALSE]
  <2>1. /\ pendingGeneration' = generation + 1 /\ lastApplied' = lastApplied
        /\ mgrGeneration' = mgrGeneration + 1
        /\ mgr' = IF ~c.on THEN [mgr EXCEPT !.on = FALSE] ELSE mgr
        /\ suspended' = suspended \cup scopes
        /\ native' = WithResets(native, scopes, mgrGeneration + 1)
        /\ transitions' = Append(waiting, t)
    BY <1>3 DEF Handle, Enqueue
  <2>2. scopes \subseteq Scopes
    BY DEF TypeOK, InUse
  <2>3. Preempts(c) \in BOOLEAN
    BY DEF Preempts, TypeOK, Settings
  <2>4. t \in Transition
    BY <1>1, <2>2, <2>3 DEF TypeOK, Transition
  <2>5. mgr' \in Settings /\ mgr'.scope = mgr.scope
    BY <2>1 DEF TypeOK, Settings
  <2> HIDE DEF t, scopes
  <2>6. native' \in [Scopes -> Seq(NativeOperation)]
    <3>1. mgrGeneration + 1 \in Nat /\ native \in [Scopes -> Seq(NativeOperation)]
      BY DEF TypeOK
    <3> QED
      BY <2>1, <3>1, WithResetsType
  <2>7. transitions' \in Seq(Transition)
    BY <2>1, <2>4
  <2>8. suspended' \subseteq Scopes
    BY <2>1, <2>2 DEF TypeOK
  <2>9. /\ generation' \in Nat /\ pendingGeneration' \in Nat /\ mgrGeneration' \in Nat
        /\ lastApplied' \in Settings
    BY <1>1, <2>1 DEF TypeOK
  <2> QED
    BY <1>1, <2>5, <2>6, <2>7, <2>8, <2>9
<1> QED
  BY <1>2, <1>3

\* The variables of the assistant, and those its steps leave alone.
RunsOK ==
    /\ run \in [Runs -> RunRecord] /\ active \in [Runs -> Scopes \cup {None}]
    /\ tabQueue \in Seq(Runs)
    /\ \A r \in Runs : active[r] # None => tabQueue # <<>> /\ Head(tabQueue) = r

LEMMA AssistantFrame ==
    ASSUME TypeOK, RunsOK', wired' \subseteq Scopes,
           UNCHANGED <<settingsVars, coordinator, window, mgr, mgrGeneration, transitions, draining,
                       suspended, tabScope, native, tools, bounds>>
    PROVE  TypeOK'
  BY DEF TypeOK, RunsOK, RunRecord, settingsVars, coordinator, bounds

\* The steps of the assistant.
LEMMA AssistantType ==
    ASSUME TypeOK, NEW r \in Runs, Assistant(r)
    PROVE  TypeOK'
<1>0. /\ RunsOK /\ tabQueue \in Seq(Runs) /\ wired \subseteq Scopes /\ tabScope \in Scopes
      /\ run \in [Runs -> RunRecord] /\ active \in [Runs -> Scopes \cup {None}]
  BY DEF RunsOK, TypeOK, RunRecord
<1>1. CASE StartTurn(r)
  <2>1. run' = [run EXCEPT ![r].phase = "authorized", ![r].stale = FALSE]
    BY <1>1 DEF StartTurn
  <2>2. run' \in [Runs -> RunRecord]
    <3>1. "authorized" \in Phases /\ FALSE \in BOOLEAN
      BY DEF Phases
    <3> QED
      BY <1>0, <2>1, <3>1 DEF RunRecord
  <2> QED
    BY <1>0, <1>1, <2>2, AssistantFrame DEF StartTurn, RunsOK, manager
<1>2. CASE EquipTurn(r)
  BY <1>0, <1>2, AssistantFrame DEF EquipTurn, RunsOK, RunRecord, Phases, manager
<1>3. CASE AdmitRun(r)
  <2>1. mgr.scope \in Scopes
    BY DEF TypeOK, Settings
  <2>2. PICK p \in {"accepting", "idle"} :
            run' = [run EXCEPT ![r].phase = p, ![r].scope = mgr.scope]
    BY <1>3, Zenon DEF AdmitRun
  <2>3. run' \in [Runs -> RunRecord]
    <3>1. p \in Phases
      BY DEF Phases
    <3> QED
      BY <1>0, <2>1, <2>2, <3>1 DEF RunRecord
  <2> QED
    BY <1>0, <1>3, <2>3, AssistantFrame DEF AdmitRun, RunsOK, manager
<1>4. CASE EndRun(r)
  <2>1. Closed(run[r].phase, active[r]) \in Phases
    BY <1>0 DEF Closed, RunRecord, Phases
  <2> QED
    BY <1>0, <1>4, <2>1, AssistantFrame DEF EndRun, RunsOK, RunRecord, manager
<1>5. CASE RequestOperation(r)
  <2>1. /\ tabQueue' = Append(tabQueue, r)
        /\ UNCHANGED <<settingsVars, coordinator, manager, tools, run, active, bounds>>
    BY <1>5 DEF RequestOperation
  <2>2. tabQueue' \in Seq(Runs) /\ tabQueue' # <<>>
    BY <1>0, <2>1
  <2>3. tabQueue # <<>> => Head(tabQueue') = Head(tabQueue)
    BY <1>0, <2>1
  <2> QED
    BY <1>0, <2>1, <2>2, <2>3, AssistantFrame DEF RunsOK, manager
<1>6. CASE StartOperation(r)
  <2>1. tabQueue # <<>> /\ Head(tabQueue) = r /\ active[r] = None
    BY <1>6 DEF StartOperation
  <2>2. UNCHANGED <<settingsVars, coordinator, window, mgr, mgrGeneration, transitions, draining,
                    suspended, tabScope, native, tools, run, bounds>>
    BY <1>6 DEF StartOperation
  <2>3. CASE /\ active' = [active EXCEPT ![r] = tabScope] /\ wired' = wired \cup {tabScope}
             /\ UNCHANGED tabQueue
    BY <1>0, <2>1, <2>2, <2>3, AssistantFrame DEF RunsOK
  <2>4. CASE tabQueue' = Tail(tabQueue) /\ UNCHANGED <<active, wired>>
    <3>1. \A q \in Runs : active[q] = None
      BY <1>0, <2>1 DEF RunsOK
    <3>2. tabQueue' \in Seq(Runs)
      BY <1>0, <2>1, <2>4, HeadTailProperties
    <3> QED
      BY <1>0, <2>2, <2>4, <3>1, <3>2, AssistantFrame DEF RunsOK
  <2> QED
    BY <1>6, <2>3, <2>4 DEF StartOperation
<1>7. CASE FinishOperation(r)
  <2>1. /\ active[r] # None /\ active' = [active EXCEPT ![r] = None]
        /\ tabQueue' = Tail(tabQueue)
        /\ UNCHANGED <<settingsVars, coordinator, manager, tools, bounds>>
    BY <1>7 DEF FinishOperation
  <2>2. PICK p \in Phases : run' = [run EXCEPT ![r].phase = p]
    BY <1>0, <1>7 DEF FinishOperation, RunRecord, Phases
  <2>3. run' \in [Runs -> RunRecord]
    BY <1>0, <2>2 DEF RunRecord
  <2>4. \A q \in Runs : active'[q] = None
    BY <1>0, <2>1 DEF RunsOK
  <2>5. tabQueue' \in Seq(Runs)
    BY <1>0, <2>1, HeadTailProperties DEF RunsOK
  <2>6. active' \in [Runs -> Scopes \cup {None}]
    BY <1>0, <2>1
  <2> QED
    BY <1>0, <2>1, <2>3, <2>4, <2>5, <2>6, AssistantFrame DEF RunsOK, manager
<1> QED
  BY <1>1, <1>2, <1>3, <1>4, <1>5, <1>6, <1>7 DEF Assistant

\* Chromium changes its queues, and what transitions wait for.
LEMMA NativeType ==
    ASSUME TypeOK, NativeFrame, native' \in [Scopes -> Seq(NativeOperation)],
           transitions' \in Seq(Transition), faults' \in Nat
    PROVE  TypeOK'
  BY DEF TypeOK, NativeFrame, settingsVars, coordinator, assistant

LEMMA ChromiumType ==
    ASSUME TypeOK, NEW s \in Scopes, Chromium(s)
    PROVE  TypeOK'
<1>0. /\ native \in [Scopes -> Seq(NativeOperation)] /\ native[s] \in Seq(NativeOperation)
      /\ transitions \in Seq(Transition) /\ faults \in Nat
  BY DEF TypeOK
<1>1. CASE NativeStarts(s)
  <2>1. native[s] # <<>> /\ native' = [native EXCEPT ![s][1].started = TRUE]
    BY <1>1 DEF NativeStarts
  <2> DEFINE new == [native[s][1] EXCEPT !.started = TRUE]
  <2>2. 1 \in 1 .. Len(native[s]) /\ native[s][1] \in NativeOperation
    BY <1>0, <2>1, EmptySeq, ElementOfSeq
  <2>3. new \in NativeOperation
    BY <2>2 DEF NativeOperation
  <2>4. native' = [native EXCEPT ![s] = [native[s] EXCEPT ![1] = new]]
    BY <2>1, Zenon
  <2> HIDE DEF new
  <2>5. [native[s] EXCEPT ![1] = new] \in Seq(NativeOperation)
    BY <1>0, <2>2, <2>3, ExceptSeq
  <2>6. native' \in [Scopes -> Seq(NativeOperation)]
    BY <1>0, <2>4, <2>5
  <2> QED
    BY <1>0, <1>1, <2>6, NativeType DEF NativeStarts
<1>2. CASE NativeSkipped(s)
  <2>1. native[s] # <<>> /\ native' = [native EXCEPT ![s] = Tail(native[s])]
    BY <1>2 DEF NativeSkipped
  <2>2. native' \in [Scopes -> Seq(NativeOperation)]
    BY <1>0, <2>1, HeadTailProperties
  <2> QED
    BY <1>0, <1>2, <2>2, NativeType DEF NativeSkipped
<1>3. CASE NativeSettles(s)
  <2>1. native[s] # <<>> /\ native' = [native EXCEPT ![s] = Tail(native[s])] /\ NativeFrame
    BY <1>3 DEF NativeSettles
  <2>2. native' \in [Scopes -> Seq(NativeOperation)]
    BY <1>0, <2>1, HeadTailProperties
  <2>3. faults' \in Nat
    <3>1. faults' = faults \/ faults' = faults + 1
      BY <1>3, Zenon DEF NativeSettles, Fault
    <3> QED
      BY <1>0, <3>1
  <2>4. transitions' \in Seq(Transition)
    <3>1. \/ transitions' = transitions
          \/ \E ok \in BOOLEAN : transitions' = Answered(Head(native[s]).request, s, ok)
      BY <1>3 DEF NativeSettles
    <3> QED
      BY <1>0, <3>1, AnsweredFacts
  <2> QED
    BY <2>1, <2>2, <2>3, <2>4, NativeType
<1>4. CASE NativeTimesOut(s)
  <2>1. PICK i \in DOMAIN native[s] :
            /\ native' = [native EXCEPT ![s][i].awaited = FALSE]
            /\ transitions' = Answered(native[s][i].request, s, FALSE)
            /\ faults' = faults + 1 /\ NativeFrame
    BY <1>4, Zenon DEF NativeTimesOut, Fault
  <2> DEFINE new == [native[s][i] EXCEPT !.awaited = FALSE]
  <2>2. i \in 1 .. Len(native[s])
    BY <1>0, LenProperties
  <2>3. new \in NativeOperation
    <3>1. native[s][i] \in NativeOperation
      BY <1>0, <2>2, ElementOfSeq
    <3> QED
      BY <3>1 DEF NativeOperation
  <2>4. native' = [native EXCEPT ![s] = [native[s] EXCEPT ![i] = new]]
    BY <2>1, Zenon
  <2> HIDE DEF new
  <2>5. [native[s] EXCEPT ![i] = new] \in Seq(NativeOperation)
    BY <1>0, <2>2, <2>3, ExceptSeq
  <2>6. native' \in [Scopes -> Seq(NativeOperation)]
    BY <1>0, <2>4, <2>5
  <2>7. transitions' \in Seq(Transition)
    BY <1>0, <2>1, AnsweredFacts
  <2> QED
    BY <1>0, <2>1, <2>6, <2>7, NativeType
<1> QED
  BY <1>1, <1>2, <1>3, <1>4 DEF Chromium

\* Settings that are handled by themselves, or while a recovery tries again.
LEMMA HandledType ==
    ASSUME TypeOK, NEW c \in Settings, NEW waiting \in Seq(Transition), Handle(c, waiting),
           HandleFrame, persisted' \in Settings, snapshot' \in Settings,
           draining' \in BOOLEAN, writes' \in Nat, faults' \in Nat
    PROVE  TypeOK'
<1>1. run' \in [Runs -> RunRecord]
  BY HandleType, RevokedFacts DEF TypeOK, RunRecord
<1>2. transitions' \in Seq(Transition)
  BY HandleType DEF TypeOK
<1> QED
  BY <1>1, <1>2, HandleType DEF TypeOK, RunRecord, HandleFrame

LEMMA WindowType ==
    ASSUME TypeOK, CreateWindow \/ CloseWindow
    PROVE  TypeOK'
<1>0. run \in [Runs -> RunRecord] /\ persisted \in Settings /\ persisted.on \in BOOLEAN
      /\ persisted.scope \in Scopes
  BY DEF TypeOK, RunRecord, Settings
<1>1. CASE CreateWindow
  BY <1>0, <1>1 DEF CreateWindow, TypeOK, settingsVars, coordinator, assistant
<1>2. CASE CloseWindow
  <2>1. run' \in [Runs -> RunRecord]
    BY <1>0, <1>2, RevokedFacts DEF CloseWindow
  <2> QED
    BY <1>2, <2>1 DEF CloseWindow, TypeOK, RunRecord, settingsVars, coordinator, bounds
<1> QED
  BY <1>1, <1>2

LEMMA WriteType ==
    ASSUME TypeOK, NEW c \in Configs, WriteSettings(c) \/ EditSettingsFile(c)
    PROVE  TypeOK'
<1>0. c \in Settings
  BY SettingsAssumption
<1>1. CASE WriteSettings(c)
  <2>1. /\ Handle(c, transitions) /\ HandleFrame
        /\ persisted' = c /\ snapshot' = c /\ writes' = writes + 1
        /\ UNCHANGED <<draining, faults>>
    BY <1>1 DEF WriteSettings
  <2>2. /\ transitions \in Seq(Transition) /\ writes + 1 \in Nat /\ faults \in Nat
        /\ draining \in BOOLEAN
    BY DEF TypeOK
  <2> QED
    BY <1>0, <2>1, <2>2, HandledType
<1>2. CASE EditSettingsFile(c)
  BY <1>0, <1>2 DEF EditSettingsFile, TypeOK, coordinator, manager, assistant
<1> QED
  BY <1>1, <1>2

LEMMA ReloadType ==
    ASSUME TypeOK, ReloadSettings
    PROVE  TypeOK'
  BY HandledType DEF ReloadSettings, TypeOK

LEMMA RecoverType ==
    ASSUME TypeOK, NEW g \in Nat, NEW target \in Settings, NEW waiting \in Seq(Transition),
           Recover(g, target, waiting), HandleFrame, draining' \in BOOLEAN, UNCHANGED writes
    PROVE  TypeOK'
<1>1. CASE Handle(persisted, waiting) /\ UNCHANGED <<settingsVars, faults>>
  BY <1>1, HandledType DEF TypeOK, settingsVars
<1>2. CASE Handle(lastApplied, waiting) /\ persisted' = lastApplied /\ snapshot' = lastApplied
           /\ UNCHANGED faults
  BY <1>2, HandledType DEF TypeOK
<1>3. CASE /\ Fault
           /\ recovery' = Retry(g, target)
           /\ transitions' = waiting
           /\ UNCHANGED <<settingsVars, generation, pendingGeneration, lastObserved, lastApplied,
                          mgr, mgrGeneration, suspended, native, tools, run>>
  BY <1>3 DEF TypeOK, Fault, Retry, HandleFrame, settingsVars
<1> QED
  BY <1>1, <1>2, <1>3 DEF Recover

LEMMA TransitionType ==
    ASSUME TypeOK, DrainInv, BeginDrain \/ Commit \/ FailTransition \/ RecoveryTimer
    PROVE  TypeOK'
<1>0. /\ transitions \in Seq(Transition)
      /\ transitions # <<>> => /\ Head(transitions) \in Transition
                               /\ Tail(transitions) \in Seq(Transition)
  BY HeadTailProperties DEF TypeOK
<1>1. CASE BeginDrain
  <2> DEFINE t == Head(transitions)
             rest == InUse \ t.scopes
             new == [transitions[1] EXCEPT !.closing = @ \cup rest]
  <2>1. /\ transitions # <<>> /\ draining' = TRUE
        /\ suspended' = suspended \cup rest
        /\ native' = WithResets(native, rest, t.request)
        /\ transitions' = [transitions EXCEPT ![1].closing = @ \cup rest]
        /\ UNCHANGED <<settingsVars, coordinator, window, mgr, mgrGeneration, wired, tabScope,
                       tools, assistant, bounds>>
    BY <1>1 DEF BeginDrain
  <2>2. rest \subseteq Scopes
    BY DEF TypeOK, InUse
  <2>3. t.request \in Nat /\ native \in [Scopes -> Seq(NativeOperation)]
    BY <1>0, <2>1 DEF Transition, TypeOK
  <2>4. native' \in [Scopes -> Seq(NativeOperation)]
    BY <2>1, <2>3, WithResetsType
  <2>5. 1 \in 1 .. Len(transitions) /\ transitions[1] \in Transition
    BY <1>0, <2>1, EmptySeq, ElementOfSeq
  <2>6. new \in Transition
    BY <2>2, <2>5 DEF Transition
  <2>7. transitions' = [transitions EXCEPT ![1] = new]
    BY <2>1, Zenon
  <2> HIDE DEF new, rest
  <2>8. transitions' \in Seq(Transition)
    BY <1>0, <2>5, <2>6, <2>7, ExceptSeq
  <2> QED
    BY <2>1, <2>2, <2>4, <2>8 DEF TypeOK, settingsVars, coordinator, assistant, bounds
<1>2. CASE Commit
  <2> DEFINE t == Head(transitions)
  <2>1. /\ transitions # <<>> /\ transitions' = Tail(transitions) /\ draining' = FALSE
        /\ Drained(t) \/ ~draining
        /\ tabQueue' = IF draining THEN <<>> ELSE tabQueue
        /\ UNCHANGED <<settingsVars, generation, lastObserved, recovery, window, mgrGeneration, wired,
                       native, run, active, bounds>>
    BY <1>2 DEF Commit
  <2>2. t.target \in Settings /\ t.target.scope \in Scopes /\ t.target.on \in BOOLEAN
    BY <1>0, <2>1 DEF Transition, Settings
  <2>3. /\ mgr' \in {t.target, mgr} /\ tabScope' \in {t.target.scope, tabScope}
        /\ suspended' \subseteq suspended /\ lastApplied' \in {t.target, lastApplied}
        /\ pendingGeneration' \in {0, pendingGeneration} /\ tools' \in {t.target.on, tools}
    BY <1>2 DEF Commit
  <2>4. /\ tabQueue' \in Seq(Runs)
        /\ \A r \in Runs : active'[r] # None => tabQueue' # <<>> /\ Head(tabQueue') = r
    BY <2>1, EmptySeq DEF TypeOK, Drained
  <2> HIDE DEF t
  <2> QED
    <3>1. /\ mgr' \in Settings /\ tabScope' \in Scopes /\ suspended' \subseteq Scopes
          /\ lastApplied' \in Settings /\ pendingGeneration' \in Nat /\ tools' \in BOOLEAN
      BY <2>2, <2>3 DEF TypeOK
    <3>2. transitions' \in Seq(Transition) /\ draining' \in BOOLEAN
      BY <1>0, <2>1
    <3>3. UNCHANGED <<persisted, snapshot, generation, lastObserved, recovery, window,
                      mgrGeneration, wired, native, run, active, writes, windows, faults>>
      BY <2>1 DEF settingsVars, bounds
    <3>4. \A r \in Runs : active'[r] # None => tabQueue' # <<>> /\ Head(tabQueue') = r
      BY <2>4
    <3> QED
      BY <2>4, <3>1, <3>2, <3>3 DEF TypeOK
<1>3. CASE FailTransition
  <2> DEFINE t == Head(transitions)
  <2>0. transitions # <<>>
    BY <1>3 DEF FailTransition, DrainInv
  <2>1. /\ HandleFrame /\ UNCHANGED writes /\ draining' = FALSE
        /\ \/ Recover(t.generation, t.target, Tail(transitions))
           \/ /\ transitions' = Tail(transitions)
              /\ UNCHANGED <<settingsVars, coordinator, mgr, mgrGeneration, suspended,
                             native, tools, run, faults>>
    BY <1>3 DEF FailTransition
  <2>2. t.generation \in Nat /\ t.target \in Settings
    BY <1>0, <2>0 DEF Transition
  <2> HIDE DEF t
  <2>3. CASE Recover(t.generation, t.target, Tail(transitions))
    BY <1>0, <2>0, <2>1, <2>2, <2>3, RecoverType
  <2>4. CASE /\ transitions' = Tail(transitions)
             /\ UNCHANGED <<settingsVars, coordinator, mgr, mgrGeneration, suspended,
                            native, tools, run, faults>>
    BY <1>0, <2>0, <2>1, <2>4 DEF TypeOK, HandleFrame, settingsVars, coordinator
  <2> QED
    BY <2>1, <2>3, <2>4
<1>4. CASE RecoveryTimer
  <2>1. /\ Recover(recovery.generation, recovery.target, transitions) /\ recovery # None
        /\ HandleFrame /\ UNCHANGED <<draining, writes>>
    BY <1>4 DEF RecoveryTimer
  <2>2. recovery.generation \in Nat /\ recovery.target \in Settings /\ draining \in BOOLEAN
    BY <2>1 DEF TypeOK
  <2> QED
    BY <1>0, <2>1, <2>2, RecoverType
<1> QED
  BY <1>1, <1>2, <1>3, <1>4

LEMMA DrainFacts ==
    ASSUME TypeOK, DrainInv, Next
    PROVE  DrainInv'
<1>0. transitions \in Seq(Transition)
  BY DEF TypeOK
<1>1. ASSUME NEW c, Handle(c, transitions)
      PROVE  transitions # <<>> => transitions' # <<>>
  <2>1. transitions' = transitions \/ \E t : transitions' = Append(transitions, t)
    BY <1>1 DEF Handle, Enqueue
  <2> QED
    BY <1>0, <2>1
<1>2. CASE Users
  BY <1>1, <1>2 DEF Users, WriteSettings, EditSettingsFile, CreateWindow, CloseWindow, manager, DrainInv
<1>3. CASE ReloadSettings
  BY <1>1, <1>3 DEF ReloadSettings, DrainInv
<1>4. CASE RecoveryTimer
  BY <1>1, <1>4 DEF RecoveryTimer, Recover, DrainInv
<1>5. CASE BeginDrain
  <2>1. transitions # <<>> /\ transitions' = [transitions EXCEPT ![1].closing = @ \cup (InUse \ Head(transitions).scopes)]
    BY <1>5 DEF BeginDrain
  <2>2. DOMAIN transitions' = DOMAIN transitions
    BY <2>1
  <2> QED
    BY <1>0, <2>1, <2>2, EmptySeq, LenProperties DEF DrainInv
<1>6. CASE Commit
  BY <1>6 DEF Commit, DrainInv
<1>7. CASE FailTransition
  BY <1>7 DEF FailTransition, DrainInv
<1>8. CASE \E r \in Runs : Assistant(r)
  BY <1>8 DEF Assistant, StartTurn, EquipTurn, AdmitRun, EndRun, RequestOperation, StartOperation,
              FinishOperation, manager, DrainInv
<1>9. ASSUME NEW s \in Scopes, Chromium(s)
      PROVE  DrainInv'
  <2>1. UNCHANGED draining
    BY <1>9 DEF Chromium, NativeStarts, NativeSkipped, NativeSettles, NativeTimesOut, NativeFrame
  <2>2. transitions' = transitions \/ \E q : \E ok \in BOOLEAN : transitions' = Answered(q, s, ok)
    BY <1>9, Zenon DEF Chromium, NativeStarts, NativeSkipped, NativeSettles, NativeTimesOut
  <2>3. ASSUME NEW q, NEW ok \in BOOLEAN, transitions' = Answered(q, s, ok)
        PROVE  transitions # <<>> => transitions' # <<>>
    BY <1>0, <2>3, AnsweredFacts, EmptySeq
  <2> QED
    BY <2>1, <2>2, <2>3 DEF DrainInv
<1> QED
  BY <1>2, <1>3, <1>4, <1>5, <1>6, <1>7, <1>8, <1>9 DEF Next

LEMMA TypeFacts ==
    ASSUME TypeOK, DrainInv, [Next]_vars
    PROVE  TypeOK' /\ DrainInv'
<1>1. CASE Users
  BY <1>1, WriteType, WindowType, DrainFacts DEF Users, Next
<1>2. CASE ReloadSettings
  BY <1>2, ReloadType, DrainFacts DEF Next
<1>3. CASE BeginDrain \/ Commit \/ FailTransition \/ RecoveryTimer
  BY <1>3, TransitionType, DrainFacts DEF Next
<1>4. CASE \E r \in Runs : Assistant(r)
  BY <1>4, AssistantType, DrainFacts DEF Next
<1>5. CASE \E s \in Scopes : Chromium(s)
  BY <1>5, ChromiumType, DrainFacts DEF Next
<1>6. CASE UNCHANGED vars
  BY <1>6 DEF TypeOK, DrainInv, vars, settingsVars, coordinator, manager, assistant, bounds
<1> QED
  BY <1>1, <1>2, <1>3, <1>4, <1>5, <1>6 DEF Next

\* Every value has its type, whatever is written, drained, failed or recovered.
THEOREM TypeCorrect == Spec => []TypeOK
<1>1. Init => TypeOK /\ DrainInv
  BY InitType DEF Init, DrainInv
<1> QED
  BY <1>1, TypeFacts, PTL DEF Spec

-----------------------------------------------------------------------------
(* Profiles.                                                               *)

\* Before the manager exists nobody works, and nothing is to be applied.
NoWindowInv ==
    window = "none" =>
        /\ transitions = <<>> /\ recovery = None /\ ~tools
        /\ persisted = snapshot => lastObserved = persisted
        /\ \A r \in Runs : run[r].phase = "idle" /\ active[r] = None

TabInv == window # "none" => tabScope = mgr.scope

\* The request that was not superseded is for the settings observed last.
LatestIn(queue) ==
    \A i \in 1 .. Len(queue) :
        /\ queue[i].request <= mgrGeneration
        /\ queue[i].request = mgrGeneration => queue[i].target = lastObserved
LatestInv == LatestIn(transitions)

\* The manager was created from a file whose change nobody has observed yet.
Unseen ==
    transitions = <<>> /\ recovery = None /\ persisted # snapshot /\ mgr = persisted

\* Tools are out, or no transition is pending, only under the settings observed.
ServedInv ==
    window # "none" /\ (tools \/ pendingGeneration = 0) => mgr = lastObserved \/ Unseen

\* Neither does a turn keep what it was granted when they change the profile.
Grants(r) == run[r].phase = "accepting" \/ (run[r].phase = "equipped" /\ ~run[r].stale)
GrantInv ==
    \A r \in Runs : window # "none" /\ Grants(r) => mgr.scope = lastObserved.scope \/ Unseen

\* What a run works in is what it was admitted to, and what the manager selected.
WorkInv ==
    \A r \in Runs :
        /\ run[r].phase = "accepting" => run[r].scope = mgr.scope
        /\ active[r] # None => /\ active[r] = mgr.scope /\ active[r] = run[r].scope
                               /\ run[r].phase \in {"accepting", "draining"}

ProfileInv ==
    /\ NoWindowInv /\ TabInv /\ LatestInv
    /\ ServedInv /\ GrantInv /\ WorkInv

LEMMA InitProfile == Init => ProfileInv
<1> SUFFICES ASSUME Init PROVE ProfileInv
  OBVIOUS
<1>1. Len(transitions) = 0
  BY EmptySeq DEF Init
<1> QED
  BY <1>1 DEF Init, ProfileInv, NoWindowInv, TabInv, LatestInv, LatestIn, ServedInv, GrantInv, WorkInv

\* A run that is told to stop accepts nothing more, and is granted nothing.
LEMMA RevokedProfile ==
    ASSUME TypeOK, WorkInv, NEW r \in Runs
    PROVE  /\ Revoked[r].phase # "accepting" /\ Revoked[r].scope = run[r].scope
           /\ Revoked[r].phase = "equipped" => Revoked[r].stale
           /\ active[r] # None => Revoked[r].phase \in {"accepting", "draining"}
           /\ run[r].phase = "idle" => Revoked[r].phase = "idle"
<1>1. /\ Revoked[r].scope = run[r].scope
      /\ Revoked[r].phase = Closed(run[r].phase, active[r])
      /\ Revoked[r].stale = (run[r].phase # "idle")
  BY RevokedFacts DEF TypeOK, RunRecord
<1>2. CASE run[r].phase = "accepting"
  BY <1>1, <1>2 DEF Closed
<1>3. CASE run[r].phase # "accepting"
  BY <1>1, <1>3 DEF Closed, WorkInv
<1> QED
  BY <1>2, <1>3

\* Settings that change the profile revoke what was granted before.
LEMMA HandleProfile ==
    ASSUME TypeOK, ProfileInv, NEW c \in Settings, NEW waiting \in Seq(Transition),
           LatestIn(waiting), Handle(c, waiting), HandleFrame, Unseen => c = persisted,
           window = "none" /\ persisted' = snapshot' => c = persisted'
    PROVE  ProfileInv'
<1>1. /\ generation' = generation + 1 /\ lastObserved' = c /\ recovery' = None /\ ~tools'
      /\ mgr'.scope = mgr.scope /\ run' \in {run, Revoked}
      /\ UNCHANGED <<window, tabScope, active>>
  BY HandleType DEF Handle, HandleFrame
<1>2. c.scope # lastObserved.scope => run' = Revoked
  BY DEF Handle, Restricts
<1>3. \A r \in Runs : /\ run'[r].scope = run[r].scope
                      /\ run'[r].phase = "accepting" => run[r].phase = "accepting"
                      /\ run[r].phase = "idle" => run'[r].phase = "idle"
                      /\ active[r] # None => run'[r].phase \in {"accepting", "draining"}
  BY <1>1, RevokedProfile DEF ProfileInv, WorkInv
<1>4. NoWindowInv'
  <2>1. SUFFICES ASSUME window = "none" PROVE NoWindowInv'
    BY <1>1 DEF NoWindowInv
  <2>2. UNCHANGED transitions
    BY <2>1 DEF Handle
  <2> QED
    BY <1>1, <1>3, <2>1, <2>2 DEF ProfileInv, NoWindowInv
<1>5. TabInv'
  BY <1>1 DEF ProfileInv, TabInv
<1>6. LatestInv'
  <2>1. CASE window = "none"
    <3>1. transitions' = <<>>
      BY <2>1 DEF Handle, ProfileInv, NoWindowInv
    <3> QED
      BY <3>1, EmptySeq DEF LatestInv, LatestIn
  <2>2. CASE window # "none"
    <3>1. mgrGeneration' = mgrGeneration + 1 /\ mgrGeneration \in Nat
      BY <2>2 DEF Handle, Enqueue, TypeOK
    <3>2. PICK t : transitions' = Append(waiting, t) /\ t.request = mgrGeneration + 1 /\ t.target = c
      BY <2>2 DEF Handle, Enqueue
    <3>3. \A i \in 1 .. Len(waiting) : waiting[i].request <= mgrGeneration /\ waiting[i].request \in Nat
      <4>1. \A i \in 1 .. Len(waiting) : waiting[i] \in Transition
        BY ElementOfSeq
      <4> QED
        BY <4>1 DEF LatestIn, Transition
    <3>4. /\ Len(transitions') = Len(waiting) + 1 /\ Len(waiting) \in Nat
          /\ transitions'[Len(waiting) + 1] = t
          /\ \A i \in 1 .. Len(waiting) : transitions'[i] = waiting[i]
      BY <3>2
    <3>5. ASSUME NEW i \in 1 .. Len(transitions')
          PROVE  /\ transitions'[i].request <= mgrGeneration'
                 /\ transitions'[i].request = mgrGeneration' => transitions'[i].target = lastObserved'
      <4>1. CASE i = Len(waiting) + 1
        BY <1>1, <3>1, <3>2, <3>4, <4>1
      <4>2. CASE i \in 1 .. Len(waiting)
        BY <3>1, <3>3, <3>4, <4>2
      <4> QED
        BY <3>4, <4>1, <4>2
    <3> QED
      BY <3>5 DEF LatestInv, LatestIn
  <2> QED
    BY <2>1, <2>2
<1>7. ServedInv'
  <2>1. window # "none" => pendingGeneration' # 0
    BY DEF Handle, TypeOK
  <2> QED
    BY <1>1, <2>1 DEF ServedInv
<1>8. GrantInv'
  <2>1. SUFFICES ASSUME NEW r \in Runs, window # "none", Grants(r)'
                 PROVE  mgr'.scope = lastObserved'.scope
    BY <1>1 DEF GrantInv
  <2>2. run' = run /\ c.scope = lastObserved.scope
    BY <1>1, <1>2, <2>1, RevokedProfile DEF Grants, ProfileInv
  <2>3. Grants(r)
    BY <2>1, <2>2 DEF Grants
  <2>4. mgr.scope = lastObserved.scope \/ Unseen
    BY <2>1, <2>3 DEF ProfileInv, GrantInv
  <2> QED
    BY <1>1, <2>2, <2>4 DEF Unseen
<1>9. WorkInv'
  BY <1>1, <1>3 DEF ProfileInv, WorkInv
<1> QED
  BY <1>4, <1>5, <1>6, <1>7, <1>8, <1>9 DEF ProfileInv

\* Nobody is granted anything, and no request served: what is queued is left alone.
LEMMA AssistantProfile ==
    ASSUME TypeOK, ProfileInv, NEW r \in Runs, Assistant(r)
    PROVE  ProfileInv'
<1>0. run \in [Runs -> RunRecord] /\ active \in [Runs -> Scopes \cup {None}]
  BY DEF TypeOK, RunRecord
<1>1. UNCHANGED <<settingsVars, coordinator, window, mgr, mgrGeneration, transitions, tabScope, tools>>
  BY DEF Assistant, StartTurn, EquipTurn, AdmitRun, EndRun, RequestOperation, StartOperation,
         FinishOperation, manager
<1>2. TabInv' /\ LatestInv' /\ ServedInv' /\ (Unseen' <=> Unseen)
  BY <1>1 DEF ProfileInv, TabInv, LatestInv, LatestIn, ServedInv, Unseen, settingsVars, coordinator
<1>3. ASSUME \A q \in Runs : q # r => run'[q] = run[q],
             UNCHANGED active,
             window # "none",
             run'[r].phase = "accepting" => run'[r].scope = mgr.scope,
             active[r] # None =>
                run'[r].scope = run[r].scope /\ run'[r].phase \in {"accepting", "draining"},
             Grants(r)' => Grants(r) \/ tools
      PROVE  ProfileInv'
  <2>1. NoWindowInv'
    BY <1>1, <1>3 DEF NoWindowInv
  <2>2. GrantInv'
    BY <1>1, <1>2, <1>3 DEF ProfileInv, GrantInv, ServedInv, Grants, coordinator
  <2>3. WorkInv'
    BY <1>1, <1>3 DEF ProfileInv, WorkInv
  <2> QED
    BY <1>2, <2>1, <2>2, <2>3 DEF ProfileInv
<1>4. run[r].phase # "idle" \/ active[r] # None => window # "none"
  BY DEF ProfileInv, NoWindowInv
<1>5. CASE StartTurn(r)
  <2>1. /\ run'[r].phase = "authorized" /\ run'[r].stale = FALSE /\ run'[r].scope = run[r].scope
        /\ \A q \in Runs : q # r => run'[q] = run[q]
    BY <1>0, <1>5 DEF StartTurn, RunRecord
  <2>2. UNCHANGED active /\ window # "none" /\ active[r] = None
    BY <1>5 DEF StartTurn, ProfileInv, WorkInv
  <2> QED
    BY <1>3, <2>1, <2>2 DEF Grants
<1>6. CASE EquipTurn(r)
  <2>1. PICK p \in {"equipped", "idle"} :
            /\ run' = [run EXCEPT ![r].phase = p]
            /\ p = "equipped" => tools
    BY <1>6 DEF EquipTurn
  <2>2. /\ run'[r].phase = p /\ run'[r].stale = run[r].stale /\ run'[r].scope = run[r].scope
        /\ \A q \in Runs : q # r => run'[q] = run[q]
    BY <1>0, <2>1 DEF RunRecord
  <2>3. UNCHANGED active /\ window # "none" /\ active[r] = None
    BY <1>4, <1>6 DEF EquipTurn, ProfileInv, WorkInv
  <2> QED
    BY <1>3, <2>1, <2>2, <2>3 DEF Grants
<1>7. CASE AdmitRun(r)
  <2>1. PICK p \in {"accepting", "idle"} :
            /\ run' = [run EXCEPT ![r].phase = p, ![r].scope = mgr.scope]
            /\ p = "accepting" => ~run[r].stale
    BY <1>7, Zenon DEF AdmitRun, Admitted
  <2>2. /\ run'[r].phase = p /\ run'[r].stale = run[r].stale /\ run'[r].scope = mgr.scope
        /\ \A q \in Runs : q # r => run'[q] = run[q]
    BY <1>0, <2>1 DEF RunRecord
  <2>3. /\ UNCHANGED active /\ window # "none" /\ active[r] = None
        /\ run[r].phase = "equipped"
    BY <1>4, <1>7 DEF AdmitRun, ProfileInv, WorkInv
  <2>4. p = "accepting" => Grants(r)
    BY <2>1, <2>3 DEF Grants
  <2> QED
    BY <1>3, <2>1, <2>2, <2>3, <2>4 DEF Grants
<1>8. CASE EndRun(r)
  <2>1. PICK p \in {"idle", "draining"} :
            /\ run' = [run EXCEPT ![r].phase = p]
            /\ active[r] # None => p = "draining"
    BY <1>8 DEF EndRun, Closed
  <2>2. /\ run'[r].phase = p /\ run'[r].stale = run[r].stale /\ run'[r].scope = run[r].scope
        /\ \A q \in Runs : q # r => run'[q] = run[q]
    BY <1>0, <2>1 DEF RunRecord
  <2>3. UNCHANGED active /\ window # "none"
    BY <1>4, <1>8 DEF EndRun
  <2> QED
    BY <1>3, <2>1, <2>2, <2>3 DEF Grants
<1>9. CASE RequestOperation(r)
  BY <1>1, <1>2, <1>9 DEF RequestOperation, ProfileInv, NoWindowInv, GrantInv, Grants, WorkInv, coordinator
<1>10. CASE StartOperation(r)
  <2>1. UNCHANGED run
    BY <1>10 DEF StartOperation
  <2>2. CASE run[r].phase = "accepting" /\ active' = [active EXCEPT ![r] = tabScope]
    <3>1. window # "none" /\ tabScope = mgr.scope
      BY <1>4, <2>2 DEF ProfileInv, TabInv
    <3>2. WorkInv'
      BY <1>0, <1>1, <2>1, <2>2, <3>1 DEF ProfileInv, WorkInv
    <3> QED
      BY <1>1, <1>2, <2>1, <3>1, <3>2 DEF ProfileInv, NoWindowInv, GrantInv, Grants, coordinator
  <2>3. CASE UNCHANGED active
    BY <1>1, <1>2, <2>1, <2>3 DEF ProfileInv, NoWindowInv, GrantInv, Grants, WorkInv, coordinator,
          settingsVars
  <2> QED
    BY <1>10, <2>2, <2>3 DEF StartOperation
<1>11. CASE FinishOperation(r)
  <2>1. PICK p :
            /\ run' = [run EXCEPT ![r].phase = p]
            /\ p = run[r].phase \/ p = "idle"
    BY <1>11 DEF FinishOperation
  <2>2. /\ run'[r].phase = p /\ run'[r].stale = run[r].stale /\ run'[r].scope = run[r].scope
        /\ \A q \in Runs : q # r => run'[q] = run[q]
    BY <1>0, <2>1 DEF RunRecord
  <2>3. active' = [active EXCEPT ![r] = None] /\ window # "none"
    BY <1>4, <1>11 DEF FinishOperation
  <2>4. NoWindowInv' /\ GrantInv'
    BY <1>1, <1>2, <2>1, <2>2, <2>3 DEF ProfileInv, NoWindowInv, GrantInv, Grants, coordinator
  <2>5. WorkInv'
    BY <1>0, <1>1, <2>1, <2>2, <2>3 DEF ProfileInv, WorkInv
  <2> QED
    BY <1>2, <2>4, <2>5 DEF ProfileInv
<1> QED
  BY <1>5, <1>6, <1>7, <1>8, <1>9, <1>10, <1>11 DEF Assistant

\* A step that changes neither settings nor runs, and answers or begins requests.
LEMMA QuietProfile ==
    ASSUME ProfileInv, LatestInv', transitions = <<>> => transitions' = <<>>,
           UNCHANGED <<settingsVars, coordinator, window, mgr, tabScope, tools, run, active>>
    PROVE  ProfileInv'
<1>1. NoWindowInv' /\ TabInv' /\ WorkInv'
  BY DEF ProfileInv, NoWindowInv, TabInv, WorkInv, settingsVars, coordinator
<1>2. Unseen => Unseen'
  BY DEF Unseen, settingsVars, coordinator
<1>3. ServedInv' /\ GrantInv'
  BY <1>2 DEF ProfileInv, ServedInv, GrantInv, Grants, coordinator
<1> QED
  BY <1>1, <1>3 DEF ProfileInv

LEMMA ChromiumProfile ==
    ASSUME TypeOK, ProfileInv, NEW s \in Scopes, Chromium(s)
    PROVE  ProfileInv'
<1>0. transitions \in Seq(Transition)
  BY DEF TypeOK
<1>1. /\ UNCHANGED <<settingsVars, coordinator, window, mgr, tabScope, tools, run, active>>
      /\ UNCHANGED mgrGeneration
  BY DEF Chromium, NativeStarts, NativeSkipped, NativeSettles, NativeTimesOut, NativeFrame, assistant
<1>2. transitions' = transitions \/ \E q : \E ok \in BOOLEAN : transitions' = Answered(q, s, ok)
  BY Zenon DEF Chromium, NativeStarts, NativeSkipped, NativeSettles, NativeTimesOut
<1>3. CASE UNCHANGED transitions
  BY <1>1, <1>3, QuietProfile DEF ProfileInv, LatestInv, LatestIn, coordinator
<1>4. ASSUME NEW q, NEW ok \in BOOLEAN, transitions' = Answered(q, s, ok)
      PROVE  ProfileInv'
  <2>1. /\ transitions' \in Seq(Transition) /\ Len(transitions') = Len(transitions)
        /\ \A i \in 1 .. Len(transitions) :
              /\ transitions'[i].request = transitions[i].request
              /\ transitions'[i].target = transitions[i].target
    BY <1>0, <1>4, AnsweredFacts
  <2>2. LatestInv'
    BY <1>1, <2>1 DEF ProfileInv, LatestInv, LatestIn, coordinator
  <2>3. transitions = <<>> => transitions' = <<>>
    BY <1>0, <2>1, EmptySeq
  <2> QED
    BY <1>1, <2>2, <2>3, QuietProfile
<1> QED
  BY <1>2, <1>3, <1>4

LEMMA UsersProfile ==
    ASSUME TypeOK, ProfileInv, Users \/ ReloadSettings
    PROVE  ProfileInv'
<1>0. transitions \in Seq(Transition) /\ persisted \in Settings
  BY DEF TypeOK
<1>1. ASSUME NEW c \in Configs, WriteSettings(c)
      PROVE  ProfileInv'
  <2>1. /\ Handle(c, transitions) /\ HandleFrame /\ ~Unseen
        /\ persisted' = c
    BY <1>1 DEF WriteSettings, Unseen
  <2>2. c \in Settings
    BY SettingsAssumption
  <2> QED
    BY <1>0, <2>1, <2>2, HandleProfile DEF ProfileInv, LatestInv
<1>2. ASSUME NEW c \in Configs, EditSettingsFile(c)
      PROVE  ProfileInv'
  <2>1. /\ persisted = snapshot
        /\ UNCHANGED <<snapshot, coordinator, manager, tools, assistant>>
    BY <1>2 DEF EditSettingsFile
  <2>2. NoWindowInv'
    BY <2>1 DEF ProfileInv, NoWindowInv, coordinator, manager, assistant
  <2>3. TabInv' /\ LatestInv' /\ WorkInv'
    BY <2>1 DEF ProfileInv, TabInv, LatestInv, LatestIn, WorkInv, coordinator, manager, assistant
  <2>4. ServedInv' /\ GrantInv'
    BY <2>1 DEF ProfileInv, ServedInv, GrantInv, Grants, Unseen, coordinator, manager, assistant
  <2> QED
    BY <2>2, <2>3, <2>4 DEF ProfileInv
<1>3. CASE ReloadSettings
  <2>1. Handle(persisted, transitions) /\ HandleFrame /\ UNCHANGED persisted
    BY <1>3 DEF ReloadSettings
  <2> QED
    BY <1>0, <2>1, HandleProfile DEF ProfileInv, LatestInv
<1>4. CASE CreateWindow
  <2>1. /\ window' = "open"
        /\ window = "none" => mgr' = persisted /\ tabScope' = persisted.scope
        /\ window # "none" => UNCHANGED <<mgr, tabScope>>
        /\ tools' => pendingGeneration = 0 \/ tools
        /\ UNCHANGED <<settingsVars, coordinator, mgrGeneration, transitions, run, active>>
    BY <1>4 DEF CreateWindow, Settled, assistant
  <2>2. TabInv' /\ LatestInv'
    BY <2>1 DEF ProfileInv, TabInv, LatestInv, LatestIn, coordinator
  <2>3. window = "none" => (mgr' = lastObserved \/ Unseen')
    BY <2>1 DEF ProfileInv, NoWindowInv, Unseen, settingsVars, coordinator
  <2>4. window # "none" => (Unseen => Unseen')
    BY <2>1 DEF Unseen, settingsVars, coordinator
  <2>5. ServedInv' /\ GrantInv'
    BY <2>1, <2>3, <2>4 DEF ProfileInv, ServedInv, GrantInv, Grants, coordinator
  <2>6. WorkInv'
    BY <2>1 DEF ProfileInv, NoWindowInv, WorkInv
  <2> QED
    BY <2>1, <2>2, <2>5, <2>6 DEF ProfileInv, NoWindowInv
<1>5. CASE CloseWindow
  <2>1. /\ window = "open" /\ window' = "closed" /\ tools' = FALSE /\ run' = Revoked
        /\ UNCHANGED <<settingsVars, coordinator, mgr, mgrGeneration, transitions, tabScope, active>>
    BY <1>5 DEF CloseWindow
  <2>2. TabInv' /\ LatestInv' /\ NoWindowInv'
    BY <2>1 DEF ProfileInv, TabInv, LatestInv, LatestIn, NoWindowInv, coordinator
  <2>3. ServedInv'
    BY <2>1 DEF ProfileInv, ServedInv, Unseen, settingsVars, coordinator
  <2>4. GrantInv' /\ WorkInv'
    BY <2>1, RevokedProfile DEF ProfileInv, GrantInv, Grants, WorkInv
  <2> QED
    BY <2>2, <2>3, <2>4 DEF ProfileInv
<1> QED
  BY <1>1, <1>2, <1>3, <1>4, <1>5 DEF Users

LEMMA TailProfile ==
    ASSUME transitions \in Seq(Transition), transitions # <<>>, LatestInv
    PROVE  LatestIn(Tail(transitions))
<1>1. /\ Len(Tail(transitions)) = Len(transitions) - 1
      /\ \A i \in 1 .. Len(Tail(transitions)) : Tail(transitions)[i] = transitions[i + 1]
  BY HeadTailProperties
<1>2. Len(transitions) \in Nat
  BY LenProperties
<1>3. ASSUME NEW i \in 1 .. Len(Tail(transitions))
      PROVE  i + 1 \in 1 .. Len(transitions) /\ Tail(transitions)[i] = transitions[i + 1]
  BY <1>1, <1>2
<1> QED
  BY <1>3 DEF LatestInv, LatestIn

\* The head of the queue is served: superseded, it selects nothing; else nobody works
\* in the profile it leaves, and no turn holds what it was granted there.
LEMMA CommitProfile ==
    ASSUME TypeOK, ProfileInv, Commit
    PROVE  ProfileInv'
<1> DEFINE t == Head(transitions)
<1>0. /\ transitions \in Seq(Transition) /\ transitions # <<>> /\ window # "none"
      /\ transitions' = Tail(transitions)
      /\ UNCHANGED <<settingsVars, generation, lastObserved, recovery, window, mgrGeneration, run, active>>
  BY DEF Commit, TypeOK, ProfileInv, NoWindowInv
<1>1. t = transitions[1] /\ 1 \in 1 .. Len(transitions)
  BY <1>0, EmptySeq
<1>2. Latest(t) => t.target = lastObserved
  BY <1>1 DEF Latest, ProfileInv, LatestInv, LatestIn
<1>3. LatestInv'
  BY <1>0, TailProfile DEF ProfileInv, LatestInv, LatestIn
<1>4. CASE ~Latest(t)
  <2>1. UNCHANGED <<mgr, tabScope, lastApplied, pendingGeneration, tools>>
    BY <1>4 DEF Commit
  <2> QED
    BY <1>0, <1>3, <2>1, QuietProfile DEF coordinator
<1>5. CASE Latest(t)
  <2>1. /\ mgr' = t.target /\ tabScope' = IF Swaps(t) THEN t.target.scope ELSE tabScope
        /\ Drained(t) \/ ~Drains(t)
    BY <1>5 DEF Commit
  <2>2. mgr' = lastObserved
    BY <1>2, <1>5, <2>1
  <2>3. TabInv'
    BY <1>0, <2>1 DEF Swaps, ProfileInv, TabInv
  <2>4. ServedInv' /\ GrantInv'
    BY <1>0, <2>2 DEF ServedInv, GrantInv
  <2>5. WorkInv'
    <3>1. CASE mgr'.scope = mgr.scope
      BY <1>0, <3>1 DEF ProfileInv, WorkInv
    <3>2. CASE mgr'.scope # mgr.scope
      <4>1. \A r \in Runs : active[r] = None
        BY <2>1, <3>2 DEF Swaps, Drains, Drained
      <4>2. \A r \in Runs : run[r].phase # "accepting"
        BY <1>0, <2>2, <3>2 DEF ProfileInv, GrantInv, Grants, Unseen
      <4> QED
        BY <1>0, <4>1, <4>2 DEF WorkInv
    <3> QED
      BY <3>1, <3>2
  <2>6. NoWindowInv'
    BY <1>0 DEF NoWindowInv
  <2> QED
    BY <1>3, <2>3, <2>4, <2>5, <2>6 DEF ProfileInv
<1> QED
  BY <1>4, <1>5

LEMMA RecoverProfile ==
    ASSUME TypeOK, ProfileInv, NEW g, NEW target, NEW waiting \in Seq(Transition),
           LatestIn(waiting), ~Unseen, window # "none",
           Recover(g, target, waiting), HandleFrame
    PROVE  ProfileInv'
<1>0. persisted \in Settings /\ lastApplied \in Settings
  BY DEF TypeOK
<1>1. CASE Handle(persisted, waiting)
  BY <1>0, <1>1, HandleProfile
<1>2. CASE Handle(lastApplied, waiting)
  BY <1>0, <1>2, HandleProfile
<1>3. CASE /\ transitions' = waiting
           /\ UNCHANGED <<settingsVars, generation, pendingGeneration, lastObserved, lastApplied,
                          mgr, mgrGeneration, suspended, native, tools, run>>
  <2>1. NoWindowInv' /\ TabInv' /\ WorkInv'
    BY <1>3 DEF ProfileInv, NoWindowInv, TabInv, WorkInv, HandleFrame
  <2>2. LatestInv'
    BY <1>3 DEF LatestInv, LatestIn
  <2>3. ServedInv' /\ GrantInv'
    BY <1>3 DEF ProfileInv, ServedInv, GrantInv, Grants, HandleFrame
  <2> QED
    BY <2>1, <2>2, <2>3 DEF ProfileInv
<1> QED
  BY <1>1, <1>2, <1>3 DEF Recover

LEMMA TransitionProfile ==
    ASSUME TypeOK, DrainInv, ProfileInv, BeginDrain \/ FailTransition \/ RecoveryTimer
    PROVE  ProfileInv'
<1>0. transitions \in Seq(Transition)
  BY DEF TypeOK
<1>1. CASE BeginDrain
  <2> DEFINE rest == InUse \ Head(transitions).scopes
             new == [transitions[1] EXCEPT !.closing = @ \cup rest]
  <2>1. /\ transitions # <<>>
        /\ transitions' = [transitions EXCEPT ![1].closing = @ \cup rest]
        /\ UNCHANGED <<settingsVars, coordinator, window, mgr, mgrGeneration, tabScope, tools, run, active>>
    BY <1>1 DEF BeginDrain, assistant
  <2>2. 1 \in 1 .. Len(transitions) /\ transitions[1] \in Transition
    BY <1>0, <2>1, EmptySeq, ElementOfSeq
  <2>3. new.request = transitions[1].request /\ new.target = transitions[1].target
    BY <2>2 DEF Transition
  <2>4. transitions' = [transitions EXCEPT ![1] = new]
    BY <2>1, Zenon
  <2> HIDE DEF new, rest
  <2>5. \A i \in 1 .. Len(transitions) : transitions'[i] = IF i = 1 THEN new ELSE transitions[i]
    BY <1>0, <2>4, LenProperties
  <2>6. Len(transitions') = Len(transitions)
    BY <1>0, <2>4
  <2>7. LatestInv'
    BY <2>1, <2>2, <2>3, <2>5, <2>6 DEF ProfileInv, LatestInv, LatestIn, coordinator
  <2> QED
    BY <2>1, <2>7, QuietProfile
<1>2. CASE FailTransition
  <2>1. transitions # <<>>
    BY <1>2 DEF FailTransition, DrainInv
  <2>2. ~Unseen /\ window # "none" /\ Tail(transitions) \in Seq(Transition) /\ LatestIn(Tail(transitions))
    BY <1>0, <2>1, HeadTailProperties, TailProfile DEF Unseen, ProfileInv, NoWindowInv
  <2>3. HandleFrame
    BY <1>2 DEF FailTransition
  <2>4. CASE Recover(Head(transitions).generation, Head(transitions).target, Tail(transitions))
    BY <2>2, <2>3, <2>4, RecoverProfile
  <2>5. CASE /\ transitions' = Tail(transitions)
             /\ UNCHANGED <<settingsVars, coordinator, mgr, mgrGeneration, suspended,
                            native, tools, run, faults>>
    <3>1. LatestInv'
      BY <2>2, <2>5 DEF LatestInv, LatestIn, coordinator
    <3> QED
      BY <2>1, <2>3, <2>5, <3>1, QuietProfile DEF HandleFrame
  <2> QED
    BY <1>2, <2>4, <2>5 DEF FailTransition
<1>3. CASE RecoveryTimer
  <2>1. /\ recovery # None /\ HandleFrame
        /\ Recover(recovery.generation, recovery.target, transitions)
    BY <1>3 DEF RecoveryTimer
  <2>2. ~Unseen /\ window # "none" /\ LatestIn(transitions)
    BY <2>1 DEF Unseen, ProfileInv, NoWindowInv, LatestInv
  <2> QED
    BY <1>0, <2>1, <2>2, RecoverProfile
<1> QED
  BY <1>1, <1>2, <1>3

LEMMA ProfileFacts ==
    ASSUME TypeOK, DrainInv, ProfileInv, [Next]_vars
    PROVE  ProfileInv'
<1>1. CASE UNCHANGED vars
  BY <1>1, QuietProfile
     DEF ProfileInv, LatestInv, LatestIn, vars, coordinator, manager, assistant
<1> QED
  BY <1>1, AssistantProfile, ChromiumProfile, UsersProfile, CommitProfile, TransitionProfile DEF Next

-----------------------------------------------------------------------------
(* Resets: a queue of transitions, whether its head is served, the         *)
(* operations of Chromium, and the profiles that are closed.               *)

\* Transitions are served in the order of their requests.
Ordered(queue) ==
    \A i, j \in 1 .. Len(queue) : i < j => queue[i].request < queue[j].request

\* Until it is served a transition waits for what was closed when it was asked for.
Asked(queue, serving) ==
    \A i \in 1 .. Len(queue) :
        (serving /\ i = 1) \/ /\ queue[i].closing \subseteq queue[i].scopes
                              /\ ~queue[i].preempted => queue[i].scopes = {}

\* A transition waits for every operation whose caller waits, in a closed profile.
Awaited(queue, operations, shut) ==
    \A s \in Scopes : \A k \in 1 .. Len(operations[s]) :
        operations[s][k].awaited =>
            /\ s \in shut
            /\ \E i \in 1 .. Len(queue) : /\ queue[i].request = operations[s][k].request
                                          /\ s \in queue[i].closing

\* It waits for one operation per profile.
Distinct(operations) ==
    \A s \in Scopes : \A k, l \in 1 .. Len(operations[s]) :
        /\ operations[s][k].awaited /\ operations[s][l].awaited
        /\ operations[s][k].request = operations[s][l].request
        => k = l

Resets(queue, serving, operations, shut) ==
    /\ Ordered(queue) /\ Asked(queue, serving)
    /\ Awaited(queue, operations, shut) /\ Distinct(operations)

ResetInv == Resets(transitions, draining, native, suspended)

\* The head waits for nothing and goes: nobody else is waited for less.
LEMMA HeadGoes ==
    ASSUME NEW queue \in Seq(Transition), queue # <<>>, NEW serving, NEW operations, NEW shut,
           Resets(queue, serving, operations, shut), Head(queue).closing = {}
    PROVE  Resets(Tail(queue), FALSE, operations, shut)
<1>1. /\ Len(queue) \in Nat /\ Len(Tail(queue)) = Len(queue) - 1
      /\ \A i \in 1 .. Len(Tail(queue)) : Tail(queue)[i] = queue[i + 1]
      /\ Head(queue) = queue[1]
  BY HeadTailProperties, LenProperties
<1>2. \A i \in 1 .. Len(Tail(queue)) : i + 1 \in 1 .. Len(queue) /\ i + 1 # 1
  BY <1>1
<1>3. \A i \in 1 .. Len(queue) : i # 1 => i - 1 \in 1 .. Len(Tail(queue)) /\ (i - 1) + 1 = i
  BY <1>1
<1>4. Ordered(Tail(queue))
  BY <1>1, <1>2 DEF Resets, Ordered
<1>5. Asked(Tail(queue), FALSE)
  BY <1>1, <1>2 DEF Resets, Asked
<1>6. Awaited(Tail(queue), operations, shut)
  <2>1. ASSUME NEW s \in Scopes, NEW k \in 1 .. Len(operations[s]), operations[s][k].awaited
        PROVE  s \in shut /\ \E i \in 1 .. Len(Tail(queue)) :
                                /\ Tail(queue)[i].request = operations[s][k].request
                                /\ s \in Tail(queue)[i].closing
    <3>1. s \in shut
      BY <2>1 DEF Resets, Awaited
    <3>2. PICK i \in 1 .. Len(queue) : /\ queue[i].request = operations[s][k].request
                                       /\ s \in queue[i].closing
      BY <2>1 DEF Resets, Awaited
    <3>3. i # 1
      BY <1>1, <3>2
    <3>4. Tail(queue)[i - 1] = queue[i] /\ i - 1 \in 1 .. Len(Tail(queue))
      BY <1>1, <1>3, <3>3
    <3> QED
      BY <3>1, <3>2, <3>4
  <2> QED
    BY <2>1 DEF Awaited
<1> QED
  BY <1>4, <1>5, <1>6 DEF Resets

\* Chromium is asked to reset profiles for one request, that of transition n: it waits
\* for them, and they are closed. It did not wait for any of them before.
LEMMA ResetsAsked ==
    ASSUME NEW queue \in Seq(Transition), NEW old \in Seq(Transition), NEW n \in 1 .. Len(queue),
           NEW operations \in [Scopes -> Seq(NativeOperation)], NEW shut, NEW scopes,
           Awaited(old, operations, shut), Distinct(operations), Ordered(queue),
           \A i \in 1 .. Len(old) : /\ i \in 1 .. Len(queue) /\ queue[i].request = old[i].request
                                    /\ old[i].closing \subseteq queue[i].closing,
           scopes \subseteq queue[n].closing,
           n \in 1 .. Len(old) => old[n].closing \cap scopes = {}
    PROVE  /\ Awaited(queue, WithResets(operations, scopes, queue[n].request), shut \cup scopes)
           /\ Distinct(WithResets(operations, scopes, queue[n].request))
<1> DEFINE q == queue[n].request
           op == [request |-> q, awaited |-> TRUE, started |-> FALSE]
           new == WithResets(operations, scopes, q)
<1>1. \A s \in Scopes : /\ s \in scopes => new[s] = Append(operations[s], op)
                        /\ s \notin scopes => new[s] = operations[s]
  BY DEF WithResets
<1>3. op.request = q /\ op.awaited
  OBVIOUS
<1> HIDE DEF new, op
<1>2. ASSUME NEW s \in Scopes, s \in scopes
      PROVE  /\ Len(new[s]) = Len(operations[s]) + 1 /\ Len(operations[s]) \in Nat
             /\ new[s][Len(operations[s]) + 1] = op
             /\ \A k \in 1 .. Len(operations[s]) : new[s][k] = operations[s][k]
  <2>1. new[s] = Append(operations[s], op) /\ operations[s] \in Seq(NativeOperation)
    BY <1>1, <1>2
  <2> QED
    BY <2>1
\* What was waited for is waited for, and is another operation than the new one.
<1>4. ASSUME NEW s \in Scopes, NEW k \in 1 .. Len(operations[s]), operations[s][k].awaited
      PROVE  /\ s \in shut
             /\ \E i \in 1 .. Len(queue) : /\ queue[i].request = operations[s][k].request
                                           /\ s \in queue[i].closing
             /\ s \in scopes => operations[s][k].request # q
  <2>1. PICK i \in 1 .. Len(old) : /\ old[i].request = operations[s][k].request
                                   /\ s \in old[i].closing
    BY <1>4 DEF Awaited
  <2>2. s \in shut
    BY <1>4 DEF Awaited
  <2>3. i \in 1 .. Len(queue) /\ queue[i].request = operations[s][k].request /\ s \in queue[i].closing
    BY <2>1
  <2>4. s \in scopes => operations[s][k].request # q
    <3>1. SUFFICES ASSUME s \in scopes, queue[i].request = queue[n].request PROVE FALSE
      BY <2>3
    <3>2. queue[i].request \in Nat
      <4>1. queue[i] \in Transition
        BY <2>3, ElementOfSeq
      <4> QED
        BY <4>1 DEF Transition
    <3>3. i = n
      <4>1. i \in Nat /\ n \in Nat /\ queue[n].request \in Nat
        BY <2>3, <3>1, <3>2, LenProperties
      <4>2. ~(i < n) /\ ~(n < i)
        BY <2>3, <3>1, <4>1 DEF Ordered
      <4> QED
        BY <4>1, <4>2
    <3> QED
      BY <2>1, <3>1, <3>3
  <2> QED
    BY <2>2, <2>3, <2>4
<1>5. ASSUME NEW s \in Scopes, NEW k \in 1 .. Len(new[s]), new[s][k].awaited
      PROVE  /\ s \in shut \cup scopes
             /\ \E i \in 1 .. Len(queue) : /\ queue[i].request = new[s][k].request
                                           /\ s \in queue[i].closing
  <2>1. CASE s \notin scopes
    BY <1>1, <1>4, <1>5, <2>1
  <2>2. CASE s \in scopes /\ k = Len(operations[s]) + 1
    BY <1>2, <1>3, <2>2
  <2>3. CASE s \in scopes /\ k \in 1 .. Len(operations[s])
    <3>1. new[s][k] = operations[s][k]
      BY <1>2, <2>3
    <3>2. /\ s \in shut
          /\ \E i \in 1 .. Len(queue) : /\ queue[i].request = operations[s][k].request
                                        /\ s \in queue[i].closing
      BY <1>4, <1>5, <2>3, <3>1
    <3> QED
      BY <3>1, <3>2
  <2> QED
    BY <1>2, <2>1, <2>2, <2>3
<1>6. ASSUME NEW s \in Scopes, NEW k \in 1 .. Len(new[s]), NEW l \in 1 .. Len(new[s]),
             new[s][k].awaited, new[s][l].awaited, new[s][k].request = new[s][l].request
      PROVE  k = l
  <2>1. CASE s \notin scopes
    BY <1>1, <1>6, <2>1 DEF Distinct
  <2>2. CASE s \in scopes
    <3>1. CASE k \in 1 .. Len(operations[s]) /\ l \in 1 .. Len(operations[s])
      <4>1. new[s][k] = operations[s][k] /\ new[s][l] = operations[s][l]
        BY <1>2, <2>2, <3>1
      <4> QED
        BY <1>6, <3>1, <4>1 DEF Distinct
    <3>2. CASE k \in 1 .. Len(operations[s]) /\ l = Len(operations[s]) + 1
      <4>1. operations[s][k].awaited /\ operations[s][k].request = new[s][l].request
        BY <1>2, <1>6, <2>2, <3>2
      <4>2. new[s][l].request = q
        BY <1>2, <1>3, <2>2, <3>2
      <4> QED
        BY <1>4, <2>2, <3>2, <4>1, <4>2
    <3>3. CASE l \in 1 .. Len(operations[s]) /\ k = Len(operations[s]) + 1
      <4>1. operations[s][l].awaited /\ operations[s][l].request = new[s][k].request
        BY <1>2, <1>6, <2>2, <3>3
      <4>2. new[s][k].request = q
        BY <1>2, <1>3, <2>2, <3>3
      <4> QED
        BY <1>4, <2>2, <3>3, <4>1, <4>2
    <3> QED
      BY <1>2, <2>2, <3>1, <3>2, <3>3
  <2> QED
    BY <2>1, <2>2
<1> QED
  BY <1>5, <1>6 DEF Awaited, Distinct, new

\* Operations of one profile lose their place at the head, or their caller.
LEMMA FewerAwaited ==
    ASSUME NEW queue, NEW shut, NEW old, NEW new, NEW z \in Scopes, NEW d \in {0, 1},
           Awaited(queue, old, shut), Distinct(old),
           \A s \in Scopes : s # z => new[s] = old[s],
           \A k \in 1 .. Len(new[z]) : /\ k + d \in 1 .. Len(old[z])
                                       /\ new[z][k].awaited => old[z][k + d].awaited
                                       /\ new[z][k].request = old[z][k + d].request
    PROVE  Awaited(queue, new, shut) /\ Distinct(new)
<1>1. ASSUME NEW s \in Scopes, NEW k \in 1 .. Len(new[s]), new[s][k].awaited
      PROVE  /\ s \in shut
             /\ \E i \in 1 .. Len(queue) : /\ queue[i].request = new[s][k].request
                                           /\ s \in queue[i].closing
  <2>1. CASE s # z
    BY <1>1, <2>1 DEF Awaited
  <2>2. CASE s = z
    <3>1. /\ k + d \in 1 .. Len(old[s]) /\ old[s][k + d].awaited
          /\ new[s][k].request = old[s][k + d].request
      BY <1>1, <2>2
    <3> QED
      BY <3>1 DEF Awaited
  <2> QED
    BY <2>1, <2>2
<1>2. ASSUME NEW s \in Scopes, NEW k \in 1 .. Len(new[s]), NEW l \in 1 .. Len(new[s]),
             new[s][k].awaited, new[s][l].awaited, new[s][k].request = new[s][l].request
      PROVE  k = l
  <2>1. CASE s # z
    BY <1>2, <2>1 DEF Distinct
  <2>2. CASE s = z
    <3>1. /\ k + d \in 1 .. Len(old[s]) /\ old[s][k + d].awaited
          /\ l + d \in 1 .. Len(old[s]) /\ old[s][l + d].awaited
          /\ old[s][k + d].request = old[s][l + d].request
      BY <1>2, <2>2
    <3>2. k + d = l + d
      BY <3>1 DEF Distinct
    <3> QED
      BY <3>2
  <2> QED
    BY <2>1, <2>2
<1> QED
  BY <1>1, <1>2 DEF Awaited, Distinct

\* An answer ends the wait for an operation that nobody else waits for.
LEMMA AnswerEndsWait ==
    ASSUME transitions \in Seq(Transition), NEW q, NEW z \in Scopes, NEW ok \in BOOLEAN,
           NEW serving, NEW operations, NEW shut,
           Resets(transitions, serving, operations, shut),
           \A k \in 1 .. Len(operations[z]) : operations[z][k].awaited => operations[z][k].request # q
    PROVE  Resets(Answered(q, z, ok), serving, operations, shut)
<1> DEFINE new == Answered(q, z, ok)
<1>1. Len(new) = Len(transitions) /\ DOMAIN transitions = 1 .. Len(transitions)
  BY AnsweredFacts, LenProperties
<1>2. ASSUME NEW i \in 1 .. Len(transitions)
      PROVE  /\ new[i].request = transitions[i].request /\ new[i].scopes = transitions[i].scopes
             /\ new[i].preempted = transitions[i].preempted
             /\ new[i].closing \subseteq transitions[i].closing
             /\ \A s \in transitions[i].closing :
                    (s = z /\ transitions[i].request = q) \/ s \in new[i].closing
  <2>1. transitions[i] \in Transition
    BY ElementOfSeq
  <2>2. new[i] = IF transitions[i].request = q
                 THEN [transitions[i] EXCEPT !.closing = @ \ {z}, !.failed = @ \/ ~ok]
                 ELSE transitions[i]
    BY <1>1 DEF Answered
  <2> QED
    BY <2>1, <2>2 DEF Transition
<1> HIDE DEF new
<1>3. Ordered(new) /\ Asked(new, serving)
  BY <1>1, <1>2 DEF Resets, Ordered, Asked
<1>4. ASSUME NEW s \in Scopes, NEW k \in 1 .. Len(operations[s]), operations[s][k].awaited
      PROVE  /\ s \in shut
             /\ \E i \in 1 .. Len(new) : /\ new[i].request = operations[s][k].request
                                         /\ s \in new[i].closing
  <2>1. PICK i \in 1 .. Len(transitions) : /\ transitions[i].request = operations[s][k].request
                                           /\ s \in transitions[i].closing
    BY <1>4 DEF Resets, Awaited
  <2>2. s \in shut
    BY <1>4 DEF Resets, Awaited
  <2>3. ~(s = z /\ transitions[i].request = q)
    BY <1>4, <2>1
  <2> QED
    BY <1>1, <1>2, <2>1, <2>2, <2>3
<1> QED
  BY <1>3, <1>4 DEF Resets, Awaited, new

LEMMA ChromiumResets ==
    ASSUME TypeOK, ResetInv, NEW s \in Scopes, Chromium(s)
    PROVE  ResetInv'
<1>0. /\ native \in [Scopes -> Seq(NativeOperation)] /\ native[s] \in Seq(NativeOperation)
      /\ transitions \in Seq(Transition)
      /\ Awaited(transitions, native, suspended) /\ Distinct(native)
      /\ Ordered(transitions) /\ Asked(transitions, draining)
  BY DEF TypeOK, ResetInv, Resets
<1>1. UNCHANGED <<draining, suspended>>
  BY DEF Chromium, NativeStarts, NativeSkipped, NativeSettles, NativeTimesOut, NativeFrame
\* The head of the queue goes, or stays.
<1>2. ASSUME native[s] # <<>>, native' = [native EXCEPT ![s] = Tail(native[s])]
      PROVE  /\ Awaited(transitions, native', suspended) /\ Distinct(native')
             /\ \A k \in 1 .. Len(native'[s]) :
                    /\ k + 1 \in 1 .. Len(native[s]) /\ k + 1 # 1
                    /\ native'[s][k] = native[s][k + 1]
  <2>1. /\ Len(native[s]) \in Nat /\ Len(Tail(native[s])) = Len(native[s]) - 1
        /\ \A k \in 1 .. Len(Tail(native[s])) : Tail(native[s])[k] = native[s][k + 1]
    BY <1>0, <1>2, HeadTailProperties, LenProperties
  <2>2. native'[s] = Tail(native[s]) /\ \A z \in Scopes : z # s => native'[z] = native[z]
    BY <1>0, <1>2
  <2>3. \A k \in 1 .. Len(native'[s]) : /\ k + 1 \in 1 .. Len(native[s]) /\ k + 1 # 1
                                        /\ native'[s][k] = native[s][k + 1]
    BY <2>1, <2>2
  <2>4. \A k \in 1 .. Len(native'[s]) : /\ k + 1 \in 1 .. Len(native[s])
                                        /\ native'[s][k].awaited => native[s][k + 1].awaited
                                        /\ native'[s][k].request = native[s][k + 1].request
    BY <2>3
  <2>5. Awaited(transitions, native', suspended) /\ Distinct(native')
    <3>1. 1 \in {0, 1}
      OBVIOUS
    <3>2. \A z \in Scopes : z # s => native'[z] = native[z]
      BY <2>2
    <3>3. Awaited(transitions, native, suspended) /\ Distinct(native)
      BY <1>0
    <3> QED
      BY <2>4, <3>1, <3>2, <3>3, FewerAwaited
  <2> QED
    BY <2>3, <2>5
<1>3. ASSUME NEW i \in 1 .. Len(native[s]), NEW op,
             native' = [native EXCEPT ![s] = [native[s] EXCEPT ![i] = op]],
             op.request = native[s][i].request, op.awaited => native[s][i].awaited
      PROVE  /\ Awaited(transitions, native', suspended) /\ Distinct(native')
             /\ Len(native'[s]) = Len(native[s])
             /\ \A k \in 1 .. Len(native[s]) : native'[s][k] = IF k = i THEN op ELSE native[s][k]
  <2>1. native'[s] = [native[s] EXCEPT ![i] = op] /\ \A z \in Scopes : z # s => native'[z] = native[z]
    BY <1>0, <1>3
  <2>2. /\ Len(native'[s]) = Len(native[s])
        /\ \A k \in 1 .. Len(native[s]) : native'[s][k] = IF k = i THEN op ELSE native[s][k]
    BY <1>0, <2>1, LenProperties
  <2>3. \A k \in 1 .. Len(native'[s]) : /\ k + 0 \in 1 .. Len(native[s])
                                        /\ native'[s][k].awaited => native[s][k + 0].awaited
                                        /\ native'[s][k].request = native[s][k + 0].request
    BY <1>0, <1>3, <2>2, LenProperties
  <2>4. Awaited(transitions, native', suspended) /\ Distinct(native')
    <3>1. 0 \in {0, 1}
      OBVIOUS
    <3>2. \A z \in Scopes : z # s => native'[z] = native[z]
      BY <2>1
    <3>3. Awaited(transitions, native, suspended) /\ Distinct(native)
      BY <1>0
    <3> QED
      BY <2>3, <3>1, <3>2, <3>3, FewerAwaited
  <2> QED
    BY <2>2, <2>4
<1>4. ASSUME Awaited(transitions, native', suspended), Distinct(native'),
             \/ UNCHANGED transitions
             \/ \E q : \E ok \in BOOLEAN :
                   /\ transitions' = Answered(q, s, ok)
                   /\ \A k \in 1 .. Len(native'[s]) : native'[s][k].awaited => native'[s][k].request # q
      PROVE  ResetInv'
  <2>1. Resets(transitions, draining, native', suspended)
    BY <1>0, <1>4 DEF Resets
  <2>2. Resets(transitions', draining, native', suspended)
    BY <1>0, <1>4, <2>1, AnswerEndsWait
  <2> QED
    BY <1>1, <2>2 DEF ResetInv
<1>5. CASE NativeStarts(s)
  <2> DEFINE op == [native[s][1] EXCEPT !.started = TRUE]
  <2>1. native[s] # <<>> /\ native' = [native EXCEPT ![s][1].started = TRUE] /\ UNCHANGED transitions
    BY <1>5 DEF NativeStarts
  <2>2. 1 \in 1 .. Len(native[s]) /\ native[s][1] \in NativeOperation
    BY <1>0, <2>1, EmptySeq, ElementOfSeq
  <2>3. op.request = native[s][1].request /\ op.awaited = native[s][1].awaited
    BY <2>2 DEF NativeOperation
  <2>4. native' = [native EXCEPT ![s] = [native[s] EXCEPT ![1] = op]]
    BY <2>1, Zenon
  <2> HIDE DEF op
  <2>5. op.awaited => native[s][1].awaited
    BY <2>3
  <2>6. Awaited(transitions, native', suspended) /\ Distinct(native')
    BY <1>3, <2>2, <2>3, <2>4, <2>5
  <2> QED
    BY <1>4, <2>1, <2>6
<1>6. CASE NativeSkipped(s)
  BY <1>2, <1>4, <1>6 DEF NativeSkipped
<1>7. CASE NativeSettles(s)
  <2>1. /\ native[s] # <<>> /\ native' = [native EXCEPT ![s] = Tail(native[s])]
        /\ \/ UNCHANGED transitions
           \/ /\ Head(native[s]).awaited
              /\ \E ok \in BOOLEAN : transitions' = Answered(Head(native[s]).request, s, ok)
    BY <1>7 DEF NativeSettles
  <2>2. Head(native[s]) = native[s][1] /\ 1 \in 1 .. Len(native[s])
    BY <1>0, <2>1, EmptySeq
  <2>3. ASSUME NEW k \in 1 .. Len(native'[s]), native'[s][k].awaited, Head(native[s]).awaited
        PROVE  native'[s][k].request # Head(native[s]).request
    <3>1. k + 1 \in 1 .. Len(native[s]) /\ k + 1 # 1 /\ native'[s][k] = native[s][k + 1]
      BY <1>2, <2>1
    <3>2. native[s][k + 1].awaited /\ native[s][1].awaited /\ 1 \in 1 .. Len(native[s])
      BY <2>2, <2>3, <3>1
    <3>3. native[s][k + 1].request # native[s][1].request
      BY <1>0, <3>1, <3>2 DEF Distinct
    <3> QED
      BY <2>2, <3>1, <3>3
  <2>4. Awaited(transitions, native', suspended) /\ Distinct(native')
    BY <1>2, <2>1
  <2>5. CASE UNCHANGED transitions
    BY <1>4, <2>4, <2>5
  <2>6. CASE /\ Head(native[s]).awaited
             /\ \E ok \in BOOLEAN : transitions' = Answered(Head(native[s]).request, s, ok)
    <3>1. \A k \in 1 .. Len(native'[s]) :
              native'[s][k].awaited => native'[s][k].request # Head(native[s]).request
      BY <2>3, <2>6
    <3> QED
      BY <1>4, <2>4, <2>6, <3>1
  <2> QED
    BY <2>1, <2>5, <2>6
<1>8. CASE NativeTimesOut(s)
  <2>1. PICK i \in DOMAIN native[s] :
            /\ native[s][i].awaited
            /\ native' = [native EXCEPT ![s][i].awaited = FALSE]
            /\ transitions' = Answered(native[s][i].request, s, FALSE)
    BY <1>8, Zenon DEF NativeTimesOut
  <2> DEFINE op == [native[s][i] EXCEPT !.awaited = FALSE]
  <2>2. i \in 1 .. Len(native[s])
    BY <1>0, LenProperties
  <2>3. native[s][i] \in NativeOperation
    BY <1>0, <2>2, ElementOfSeq
  <2>4. op.request = native[s][i].request /\ op.awaited = FALSE
    BY <2>3 DEF NativeOperation
  <2>5. native' = [native EXCEPT ![s] = [native[s] EXCEPT ![i] = op]]
    BY <2>1, Zenon
  <2> HIDE DEF op
  <2>6. /\ Awaited(transitions, native', suspended) /\ Distinct(native')
        /\ Len(native'[s]) = Len(native[s])
        /\ \A k \in 1 .. Len(native[s]) : native'[s][k] = IF k = i THEN op ELSE native[s][k]
    BY <1>3, <2>2, <2>4, <2>5
  <2>7. \A k \in 1 .. Len(native'[s]) : native'[s][k].awaited => native'[s][k].request # native[s][i].request
    BY <1>0, <2>1, <2>2, <2>4, <2>6 DEF Distinct
  <2> QED
    BY <1>4, <2>1, <2>6, <2>7
<1> QED
  BY <1>5, <1>6, <1>7, <1>8 DEF Chromium

\* A new request closes the profiles it is for, and waits for them.
LEMMA HandleResets ==
    ASSUME TypeOK, NEW c \in Settings, NEW waiting \in Seq(Transition), LatestIn(waiting),
           Resets(waiting, draining', native, suspended), Handle(c, waiting), window # "none"
    PROVE  ResetInv'
<1> DEFINE scopes == IF Preempts(c) THEN InUse ELSE {}
           t == [generation |-> generation', request |-> mgrGeneration + 1, target |-> c,
                 preempted |-> Preempts(c), scopes |-> scopes, swap |-> c.scope # mgr.scope,
                 closing |-> scopes, failed |-> FALSE]
<1>1. /\ suspended' = suspended \cup scopes
      /\ native' = WithResets(native, scopes, mgrGeneration + 1)
      /\ transitions' = Append(waiting, t)
  BY DEF Handle, Enqueue
<1>2. /\ t.request = mgrGeneration + 1 /\ t.closing = scopes /\ t.scopes = scopes
      /\ t.preempted = Preempts(c) /\ (~Preempts(c) => scopes = {})
  OBVIOUS
<1> HIDE DEF t, scopes
<1>3. /\ Len(transitions') = Len(waiting) + 1 /\ Len(waiting) \in Nat
      /\ transitions'[Len(waiting) + 1] = t
      /\ \A i \in 1 .. Len(waiting) : transitions'[i] = waiting[i]
  BY <1>1
<1>4. mgrGeneration \in Nat /\ \A i \in 1 .. Len(waiting) : waiting[i] \in Transition
  BY ElementOfSeq DEF TypeOK
<1>5. \A i \in 1 .. Len(waiting) : waiting[i].request < mgrGeneration + 1
  BY <1>4 DEF LatestIn, Transition
<1>6. Ordered(transitions')
  <2>1. ASSUME NEW i \in 1 .. Len(transitions'), NEW j \in 1 .. Len(transitions'), i < j
        PROVE  transitions'[i].request < transitions'[j].request
    <3>1. i \in 1 .. Len(waiting)
      BY <1>3, <2>1
    <3>2. CASE j \in 1 .. Len(waiting)
      BY <1>3, <2>1, <3>1, <3>2 DEF Resets, Ordered
    <3>3. CASE j = Len(waiting) + 1
      BY <1>2, <1>3, <1>5, <3>1, <3>3
    <3> QED
      BY <1>3, <3>2, <3>3
  <2> QED
    BY <2>1 DEF Ordered
<1>7. Asked(transitions', draining')
  <2>1. ASSUME NEW i \in 1 .. Len(transitions')
        PROVE  (draining' /\ i = 1) \/ /\ transitions'[i].closing \subseteq transitions'[i].scopes
                                       /\ ~transitions'[i].preempted => transitions'[i].scopes = {}
    <3>1. CASE i \in 1 .. Len(waiting)
      BY <1>3, <3>1 DEF Resets, Asked
    <3>2. CASE i = Len(waiting) + 1
      BY <1>2, <1>3, <3>2
    <3> QED
      BY <1>3, <3>1, <3>2
  <2> QED
    BY <2>1 DEF Asked
<1>8. Awaited(transitions', native', suspended') /\ Distinct(native')
  <2> DEFINE n == Len(waiting) + 1
  <2>1. /\ n \in 1 .. Len(transitions') /\ n \notin 1 .. Len(waiting)
        /\ transitions'[n].request = mgrGeneration + 1
        /\ scopes \subseteq transitions'[n].closing
    BY <1>2, <1>3
  <2>2. \A i \in 1 .. Len(waiting) :
            /\ i \in 1 .. Len(transitions') /\ transitions'[i].request = waiting[i].request
            /\ waiting[i].closing \subseteq transitions'[i].closing
    BY <1>3
  <2>3. /\ transitions' \in Seq(Transition) /\ native \in [Scopes -> Seq(NativeOperation)]
        /\ Awaited(waiting, native, suspended) /\ Distinct(native)
    BY HandleType DEF TypeOK, Resets
  <2> HIDE DEF n
  <2> QED
    BY <1>1, <1>6, <2>1, <2>2, <2>3, ResetsAsked
<1> QED
  BY <1>6, <1>7, <1>8 DEF ResetInv, Resets

LEMMA RecoverResets ==
    ASSUME TypeOK, NEW g, NEW target, NEW waiting \in Seq(Transition), LatestIn(waiting),
           Resets(waiting, draining', native, suspended), Recover(g, target, waiting), window # "none"
    PROVE  ResetInv'
<1>0. persisted \in Settings /\ lastApplied \in Settings
  BY DEF TypeOK
<1>1. CASE Handle(persisted, waiting)
  BY <1>0, <1>1, HandleResets
<1>2. CASE Handle(lastApplied, waiting)
  BY <1>0, <1>2, HandleResets
<1>3. CASE transitions' = waiting /\ UNCHANGED <<native, suspended>>
  BY <1>3 DEF ResetInv
<1> QED
  BY <1>1, <1>2, <1>3 DEF Recover

\* The head of the queue is served: the rest of the profiles in use is closed for it.
LEMMA DrainResets ==
    ASSUME TypeOK, ResetInv, BeginDrain
    PROVE  ResetInv'
<1> DEFINE rest == InUse \ Head(transitions).scopes
           new == [transitions[1] EXCEPT !.closing = @ \cup rest]
<1>1. /\ transitions # <<>> /\ ~draining /\ draining' = TRUE
      /\ suspended' = suspended \cup rest
      /\ native' = WithResets(native, rest, Head(transitions).request)
      /\ transitions' = [transitions EXCEPT ![1].closing = @ \cup rest]
  BY DEF BeginDrain
<1>2. /\ transitions \in Seq(Transition) /\ native \in [Scopes -> Seq(NativeOperation)]
      /\ draining \in BOOLEAN
      /\ Ordered(transitions) /\ Asked(transitions, draining)
      /\ Awaited(transitions, native, suspended) /\ Distinct(native)
  BY DEF TypeOK, ResetInv, Resets
<1>3. /\ 1 \in 1 .. Len(transitions) /\ transitions[1] \in Transition
      /\ Head(transitions) = transitions[1]
  BY <1>1, <1>2, EmptySeq, ElementOfSeq
<1>4. /\ new.request = transitions[1].request /\ rest \subseteq new.closing
      /\ transitions[1].closing \subseteq new.closing
  BY <1>3 DEF Transition
<1>5. transitions[1].closing \cap rest = {}
  BY <1>1, <1>2, <1>3 DEF Asked
<1>6. rest \subseteq Scopes
  BY DEF TypeOK, InUse
<1>7. new \in Transition
  BY <1>3, <1>6 DEF Transition
<1>8. transitions' = [transitions EXCEPT ![1] = new]
  BY <1>1, Zenon
<1> HIDE DEF new, rest
<1>9. /\ Len(transitions') = Len(transitions) /\ transitions' \in Seq(Transition)
      /\ \A i \in 1 .. Len(transitions) : transitions'[i] = IF i = 1 THEN new ELSE transitions[i]
  BY <1>2, <1>3, <1>7, <1>8, ExceptSeq, LenProperties
<1>10. \A i \in 1 .. Len(transitions) : transitions'[i].request = transitions[i].request
  BY <1>4, <1>9
<1>11. Ordered(transitions')
  BY <1>2, <1>9, <1>10 DEF Ordered
<1>12. Asked(transitions', draining')
  BY <1>1, <1>2, <1>9 DEF Asked
<1>13. Awaited(transitions', native', suspended') /\ Distinct(native')
  <2>1. \A i \in 1 .. Len(transitions) :
            /\ i \in 1 .. Len(transitions') /\ transitions'[i].request = transitions[i].request
            /\ transitions[i].closing \subseteq transitions'[i].closing
    BY <1>4, <1>9, <1>10
  <2>2. 1 \in 1 .. Len(transitions') /\ rest \subseteq transitions'[1].closing
    BY <1>3, <1>4, <1>9
  <2>3. /\ suspended' = suspended \cup rest
        /\ native' = WithResets(native, rest, transitions'[1].request)
    BY <1>1, <1>3, <1>10
  <2>4. 1 \in 1 .. Len(transitions) => transitions[1].closing \cap rest = {}
    BY <1>5
  <2>5. Awaited(transitions, native, suspended) /\ Distinct(native) /\ Ordered(transitions')
    BY <1>2, <1>11
  <2> QED
    BY <1>2, <1>9, <2>1, <2>2, <2>3, <2>4, <2>5, ResetsAsked
<1> QED
  BY <1>11, <1>12, <1>13 DEF ResetInv, Resets

\* The head selects its profile, which opens only when nobody waits for Chromium: a
\* request that was not superseded is the last of the queue.
LEMMA CommitResets ==
    ASSUME TypeOK, LatestInv, ResetInv, Commit
    PROVE  ResetInv'
<1> DEFINE t == Head(transitions)
<1>1. /\ transitions # <<>> /\ transitions' = Tail(transitions) /\ draining' = FALSE
      /\ native' = native
      /\ Drained(t) \/ (~draining /\ ~Drains(t))
      /\ suspended' = suspended \/ Latest(t)
  BY DEF Commit
<1>2. /\ transitions \in Seq(Transition) /\ draining \in BOOLEAN
      /\ Resets(transitions, draining, native, suspended)
  BY DEF TypeOK, ResetInv
<1>3. t = transitions[1] /\ 1 \in 1 .. Len(transitions) /\ t \in Transition
  BY <1>1, <1>2, EmptySeq, ElementOfSeq
<1>4. t.closing = {}
  <2>1. CASE ~draining /\ ~Drains(t)
    BY <1>2, <1>3, <2>1 DEF Drains, Resets, Asked
  <2> QED
    BY <1>1, <2>1 DEF Drained
<1>5. Resets(Tail(transitions), FALSE, native, suspended)
  BY <1>1, <1>2, <1>4, HeadGoes
<1>6. CASE suspended' = suspended
  <2>1. Resets(transitions', draining', native', suspended')
    BY <1>1, <1>5, <1>6
  <2> QED
    BY <2>1 DEF ResetInv
<1>7. CASE Latest(t)
  <2>1. Len(transitions) = 1
    <3>1. Len(transitions) \in Nat /\ mgrGeneration \in Nat /\ t.request \in Nat
      BY <1>2, <1>3, LenProperties DEF TypeOK, Transition
    <3>2. ASSUME 2 \in 1 .. Len(transitions) PROVE FALSE
      <4>1. transitions[1].request < transitions[2].request
        BY <1>2, <1>3, <3>2 DEF Resets, Ordered
      <4>2. transitions[2].request <= mgrGeneration /\ transitions[2] \in Transition
        BY <1>2, <3>2, ElementOfSeq DEF LatestInv, LatestIn
      <4> QED
        BY <1>3, <1>7, <3>1, <4>1, <4>2 DEF Latest, Transition
    <3>3. 1 <= Len(transitions) /\ ~(2 <= Len(transitions))
      BY <1>3, <3>1, <3>2
    <3>4. \A n \in Nat : 1 <= n /\ ~(2 <= n) => n = 1
      OBVIOUS
    <3>5. Len(transitions) \in Nat
      BY <3>1
    <3> QED
      BY <3>3, <3>4, <3>5, Zenon
  <2>2. Len(Tail(transitions)) = 0
    BY <1>1, <1>2, <2>1, HeadTailProperties
  <2>3. Awaited(Tail(transitions), native, suspended')
    BY <1>5, <2>2 DEF Resets, Awaited
  <2>4. Resets(Tail(transitions), FALSE, native, suspended')
    BY <1>5, <2>3 DEF Resets
  <2>5. Resets(transitions', draining', native', suspended')
    BY <1>1, <2>4
  <2> QED
    BY <2>5 DEF ResetInv
<1> QED
  BY <1>1, <1>6, <1>7

LEMMA FailResets ==
    ASSUME TypeOK, DrainInv, ProfileInv, ResetInv, FailTransition
    PROVE  ResetInv'
<1>1. /\ transitions \in Seq(Transition) /\ transitions # <<>> /\ window # "none"
      /\ Resets(transitions, draining, native, suspended)
      /\ Head(transitions).closing = {} /\ draining' = FALSE
  BY DEF TypeOK, DrainInv, ResetInv, FailTransition, ProfileInv, NoWindowInv
<1>2. Resets(Tail(transitions), FALSE, native, suspended)
  BY <1>1, HeadGoes
<1>3. Tail(transitions) \in Seq(Transition) /\ LatestIn(Tail(transitions))
  BY <1>1, HeadTailProperties, TailProfile DEF ProfileInv
<1>4. CASE Recover(Head(transitions).generation, Head(transitions).target, Tail(transitions))
  BY <1>1, <1>2, <1>3, <1>4, RecoverResets
<1>5. CASE transitions' = Tail(transitions) /\ UNCHANGED <<suspended, native>>
  BY <1>1, <1>2, <1>5 DEF ResetInv
<1> QED
  BY <1>4, <1>5 DEF FailTransition

LEMMA ResetFacts ==
    ASSUME TypeOK, DrainInv, ProfileInv, ResetInv, [Next]_vars
    PROVE  ResetInv'
<1>0. /\ transitions \in Seq(Transition) /\ LatestIn(transitions) /\ persisted \in Settings
      /\ Resets(transitions, draining, native, suspended)
  BY DEF TypeOK, ProfileInv, LatestInv, ResetInv
<1>1. ASSUME NEW c \in Settings, Handle(c, transitions), UNCHANGED draining
      PROVE  ResetInv'
  <2>1. CASE window # "none"
    BY <1>0, <1>1, <2>1, HandleResets
  <2>2. CASE window = "none"
    BY <1>1, <2>2 DEF Handle, ResetInv
  <2> QED
    BY <2>1, <2>2
<1>2. CASE UNCHANGED <<transitions, draining, native, suspended>>
  BY <1>2 DEF ResetInv
<1>3. ASSUME NEW c \in Configs, WriteSettings(c)
      PROVE  ResetInv'
  BY <1>1, <1>3, SettingsAssumption DEF WriteSettings
<1>4. CASE ReloadSettings
  BY <1>0, <1>1, <1>4 DEF ReloadSettings
<1>5. CASE RecoveryTimer
  <2>1. /\ window # "none" /\ UNCHANGED draining
        /\ Recover(recovery.generation, recovery.target, transitions)
    BY <1>5 DEF RecoveryTimer, ProfileInv, NoWindowInv
  <2> QED
    BY <1>0, <2>1, RecoverResets
<1>6. ASSUME NEW c \in Configs, EditSettingsFile(c)
      PROVE  ResetInv'
  BY <1>2, <1>6 DEF EditSettingsFile, manager
<1>7. CASE CreateWindow \/ CloseWindow
  BY <1>2, <1>7 DEF CreateWindow, CloseWindow
<1>8. ASSUME NEW r \in Runs, Assistant(r)
      PROVE  ResetInv'
  BY <1>2, <1>8 DEF Assistant, StartTurn, EquipTurn, AdmitRun, EndRun, RequestOperation,
                    StartOperation, FinishOperation, manager
<1>9. CASE UNCHANGED vars
  BY <1>2, <1>9 DEF vars, manager
<1>10. CASE Users
  BY <1>3, <1>6, <1>7, <1>10 DEF Users
<1>11. CASE BeginDrain \/ Commit \/ FailTransition
  BY <1>11, DrainResets, CommitResets, FailResets DEF ProfileInv
<1> QED
  BY <1>4, <1>5, <1>8, <1>9, <1>10, <1>11, ChromiumResets DEF Next

\* Nothing is queued at first.
LEMMA InitResets == Init => ResetInv
<1> SUFFICES ASSUME Init PROVE ResetInv
  OBVIOUS
<1>1. Len(transitions) = 0 /\ \A s \in Scopes : Len(native[s]) = 0
  BY EmptySeq DEF Init
<1> QED
  BY <1>1 DEF ResetInv, Resets, Ordered, Asked, Awaited, Distinct

-----------------------------------------------------------------------------
(* The theorems.                                                           *)

\* The invariant behind the others: who is granted what, and for which settings.
THEOREM ProfileInvariant == Spec => [](TypeOK /\ DrainInv /\ ProfileInv)
<1>1. Init => TypeOK /\ DrainInv /\ ProfileInv
  BY InitType, InitProfile DEF Init, DrainInv
<1>2. TypeOK /\ DrainInv /\ ProfileInv /\ [Next]_vars => (TypeOK /\ DrainInv /\ ProfileInv)'
  BY TypeFacts, ProfileFacts
<1> QED
  BY <1>1, <1>2, PTL DEF Spec

\* A profile is swapped only when nothing works in it, for any number of runs and
\* settings, whatever overlaps.
THEOREM SwapWaitsForOperations == Spec => []NoOperationInAnotherProfile
<1>1. ProfileInv => NoOperationInAnotherProfile
  BY DEF ProfileInv, WorkInv, NoOperationInAnotherProfile
<1> QED
  BY <1>1, ProfileInvariant, PTL

\* A turn never works in another profile than the one it was admitted to.
THEOREM TurnsKeepTheirProfile == Spec => []TurnStaysInItsProfile
<1>1. ProfileInv => TurnStaysInItsProfile
  BY DEF ProfileInv, WorkInv, TurnStaysInItsProfile
<1> QED
  BY <1>1, ProfileInvariant, PTL

\* Tools are registered only for the newest settings, once the file was noticed.
THEOREM ToolsFollowSettings == Spec => []ToolsServeTheNewestSettings
<1>1. ProfileInv => ToolsServeTheNewestSettings
  BY DEF ProfileInv, NoWindowInv, ServedInv, Unseen, ToolsServeTheNewestSettings
<1> QED
  BY <1>1, ProfileInvariant, PTL

\* A profile that Chromium is still resetting is closed to the assistant: whoever waits
\* for the reset keeps it suspended, and a reset that nobody waits for keeps it closed.
THEOREM ResetsKeepProfilesClosed == Spec => []ResetProfilesAreClosed
<1>1. Init => TypeOK /\ DrainInv /\ ProfileInv /\ ResetInv
  BY InitType, InitProfile, InitResets DEF Init, DrainInv
<1>2. /\ TypeOK /\ DrainInv /\ ProfileInv /\ ResetInv /\ [Next]_vars
      => (TypeOK /\ DrainInv /\ ProfileInv /\ ResetInv)'
  BY TypeFacts, ProfileFacts, ResetFacts
<1>3. TypeOK /\ ResetInv => ResetProfilesAreClosed
  <2> SUFFICES ASSUME TypeOK, ResetInv, NEW s \in Scopes, native[s] # <<>>
               PROVE  ~Available(s)
    BY DEF ResetProfilesAreClosed
  <2>1. native[s] \in Seq(NativeOperation)
    BY DEF TypeOK
  <2>2. 1 \in 1 .. Len(native[s]) /\ DOMAIN native[s] = 1 .. Len(native[s])
    BY <2>1, EmptySeq, LenProperties
  <2>3. CASE native[s][1].awaited
    BY <2>2, <2>3 DEF ResetInv, Resets, Awaited, Available
  <2>4. CASE ~native[s][1].awaited
    BY <2>2, <2>4 DEF Available, GivenUp
  <2> QED
    BY <2>3, <2>4
<1> QED
  BY <1>1, <1>2, <1>3, PTL DEF Spec
=============================================================================
