------------------------ MODULE TaskDispatcherProofs ------------------------
(***************************************************************************)
(* Proofs about TaskDispatcher, for any agents, tasks, bodies and          *)
(* settings: what keeps its ticks apart, what keeps them coming, what its  *)
(* bodies hold, and what it leaves of the promises of AgentTasks.          *)
(***************************************************************************)
EXTENDS TaskDispatcher, AgentTasksProofs

Fields == {"pc", "rearm", "late", "slots", "pairs", "reviewers", "blocked", "pair", "session",
           "held"}

\* A record of a tick body, whatever its lists hold.
IsBody(r) == r = [f \in Fields |-> r[f]]

\* As much of the type as the ticks depend on.
Shape ==
    /\ body = [b \in Bodies |-> body[b]]
    /\ \A b \in Bodies : IsBody(body[b])
    /\ timer \in BOOLEAN /\ running \in BOOLEAN /\ inFlight \in BOOLEAN

Active(b) == body[b].pc # "idle"

\* tickInFlight is set while a body is at work: this keeps another one out.
GuardInv == \A b \in Bodies : Active(b) => inFlight

\* The inductive invariant.
TickInv == Shape /\ OneTickBody /\ GuardInv /\ NeverStalls

-----------------------------------------------------------------------------
(* What a step does to the bodies and to the timer.                        *)

LEMMA NoBodyFacts ==
    IsBody(NoBody) /\ NoBody.pc = "idle"
  BY DEF IsBody, NoBody, Fields

LEMMA PictureFacts ==
    ASSUME NEW rearm \in BOOLEAN
    PROVE  /\ IsBody(Picture(rearm)) /\ Picture(rearm).pc # "idle"
           /\ Picture(rearm).rearm = rearm /\ Picture(rearm).late = FALSE
  BY DEF IsBody, Picture, NoBody, Fields

\* n: the bodies once body b has gone on. It stays at work, and so do the others.
GoesTo(b, n) ==
    /\ n = [body EXCEPT ![b] = n[b]]
    /\ IsBody(n[b]) /\ n[b].pc # "idle"
    /\ n[b].rearm = body[b].rearm /\ n[b].late = body[b].late

GoesOn(b) == Active(b) /\ GoesTo(b, body') /\ UNCHANGED <<running, timer, inFlight>>

\* Or it ends: the guard is released, and the timer armed unless it was late.
Ends(b) == Active(b) /\ BodyEnds(b)

\* A body goes on with any record that is at work and keeps what arms the timer.
LEMMA RecordFacts ==
    ASSUME Shape, NEW b \in Bodies, NEW r, IsBody(r), r.pc # "idle",
           r.rearm = body[b].rearm, r.late = body[b].late
    PROVE  GoesTo(b, [body EXCEPT ![b] = r])
  BY DEF Shape, GoesTo

\* Edits of a record of a body leave it one.
LEMMA EditFacts ==
    ASSUME NEW r, IsBody(r), NEW g \in Fields, NEW v
    PROVE  /\ IsBody([r EXCEPT ![g] = v])
           /\ [r EXCEPT ![g] = v][g] = v
           /\ \A f \in Fields \ {g} : [r EXCEPT ![g] = v][f] = r[f]
  BY DEF IsBody, Fields

LEMMA RolledBackFacts ==
    ASSUME Shape, NEW b \in Bodies
    PROVE  /\ GoesTo(b, RolledBack(b)) /\ RolledBack(b)[b].pc = "dispatch"
           /\ RolledBack(b)[b].reviewers = body[b].reviewers
           /\ RolledBack(b)[b].blocked = body[b].blocked
<1> DEFINE r1 == [body[b] EXCEPT !.pc = "dispatch"]
           r2 == [r1 EXCEPT !.pair = None]
           r3 == [r2 EXCEPT !.session = None]
           r4 == [r3 EXCEPT !.slots = RegainsSlot(b)]
           r5 == [r4 EXCEPT !.pairs = r4.pairs \ {body[b].pair}]
<1>0. IsBody(body[b])
  BY DEF Shape
<1>1. /\ IsBody(r1) /\ r1.pc = "dispatch" /\ r1.rearm = body[b].rearm /\ r1.late = body[b].late
      /\ r1.reviewers = body[b].reviewers /\ r1.blocked = body[b].blocked
  BY <1>0, EditFacts DEF IsBody, Fields
<1> HIDE DEF r1
<1>2. /\ IsBody(r2) /\ r2.pc = "dispatch" /\ r2.rearm = body[b].rearm /\ r2.late = body[b].late
      /\ r2.reviewers = body[b].reviewers /\ r2.blocked = body[b].blocked
  BY <1>1 DEF IsBody, Fields
<1> HIDE DEF r2
<1>3. /\ IsBody(r3) /\ r3.pc = "dispatch" /\ r3.rearm = body[b].rearm /\ r3.late = body[b].late
      /\ r3.reviewers = body[b].reviewers /\ r3.blocked = body[b].blocked
  BY <1>2 DEF IsBody, Fields
<1> HIDE DEF r3
<1>4. /\ IsBody(r4) /\ r4.pc = "dispatch" /\ r4.rearm = body[b].rearm /\ r4.late = body[b].late
      /\ r4.reviewers = body[b].reviewers /\ r4.blocked = body[b].blocked
  BY <1>3 DEF IsBody, Fields
<1> HIDE DEF r4
<1>5. /\ IsBody(r5) /\ r5.pc = "dispatch" /\ r5.rearm = body[b].rearm /\ r5.late = body[b].late
      /\ r5.reviewers = body[b].reviewers /\ r5.blocked = body[b].blocked
  BY <1>4 DEF IsBody, Fields
<1> USE DEF r1, r2, r3, r4
<1>6. RolledBack(b) = [body EXCEPT ![b] = r5]
  BY ZenonT(60) DEF RolledBack, Shape
<1> HIDE DEF r5
<1>7. RolledBack(b)[b] = r5
  BY <1>6 DEF Shape
<1>8. GoesTo(b, RolledBack(b))
  BY <1>5, <1>6, RecordFacts
<1> QED
  BY <1>5, <1>7, <1>8

LEMMA UsedFacts ==
    ASSUME Shape, NEW b \in Bodies
    PROVE  /\ GoesTo(b, Used(b)) /\ Used(b)[b].pc = "dispatch"
           /\ Used(b)[b].reviewers = body[b].reviewers
           /\ Used(b)[b].blocked = body[b].blocked
<1> DEFINE r1 == [body[b] EXCEPT !.pc = "dispatch"]
           r2 == [r1 EXCEPT !.pair = None]
           r3 == [r2 EXCEPT !.session = None]
           r4 == [r3 EXCEPT !.pairs = {p \in r3.pairs : p[1] # body[b].pair[1] /\ p[2] # body[b].pair[2]}]
<1>0. IsBody(body[b])
  BY DEF Shape
<1>1. /\ IsBody(r1) /\ r1.pc = "dispatch" /\ r1.rearm = body[b].rearm /\ r1.late = body[b].late
      /\ r1.reviewers = body[b].reviewers /\ r1.blocked = body[b].blocked
  BY <1>0, EditFacts DEF IsBody, Fields
<1> HIDE DEF r1
<1>2. /\ IsBody(r2) /\ r2.pc = "dispatch" /\ r2.rearm = body[b].rearm /\ r2.late = body[b].late
      /\ r2.reviewers = body[b].reviewers /\ r2.blocked = body[b].blocked
  BY <1>1 DEF IsBody, Fields
<1> HIDE DEF r2
<1>3. /\ IsBody(r3) /\ r3.pc = "dispatch" /\ r3.rearm = body[b].rearm /\ r3.late = body[b].late
      /\ r3.reviewers = body[b].reviewers /\ r3.blocked = body[b].blocked
  BY <1>2 DEF IsBody, Fields
<1> HIDE DEF r3
<1>4. /\ IsBody(r4) /\ r4.pc = "dispatch" /\ r4.rearm = body[b].rearm /\ r4.late = body[b].late
      /\ r4.reviewers = body[b].reviewers /\ r4.blocked = body[b].blocked
  BY <1>3 DEF IsBody, Fields
<1> HIDE DEF r4
<1> USE DEF r1, r2, r3
<1>5. Used(b) = [body EXCEPT ![b] = r4]
  BY ZenonT(60) DEF Used, Shape, r4
<1>6. Used(b)[b] = r4
  BY <1>5 DEF Shape
<1>7. GoesTo(b, Used(b))
  BY <1>4, <1>5, RecordFacts
<1> QED
  BY <1>4, <1>6, <1>7

\* A picture is taken with a task as it is read: assignReviewers, attemptUnblock.
LEMMA ReadsFacts ==
    ASSUME Shape, NEW b \in Bodies, NEW t, NEW pc, pc # "idle", NEW left, IsBody(left),
           left.rearm = body[b].rearm, left.late = body[b].late, Reads(b, t, pc, left)
    PROVE  GoesTo(b, body') /\ body'[b].pc = pc
<1> DEFINE held == [id |-> t, seen |-> task[t], attempts |-> attempts[t]]
           r1 == [left EXCEPT !.pc = pc]
           r2 == [r1 EXCEPT !.held = held]
<1>1. IsBody(r1) /\ r1.pc = pc /\ r1.rearm = body[b].rearm /\ r1.late = body[b].late
  BY DEF IsBody, Fields
<1> HIDE DEF r1, held
<1>2. IsBody(r2) /\ r2.pc = pc /\ r2.rearm = body[b].rearm /\ r2.late = body[b].late
  BY <1>1 DEF IsBody, Fields
<1> HIDE DEF r2
<1> USE DEF r1, held
<1>3. body' = [body EXCEPT ![b] = r2]
  BY DEF Reads, r2
<1>4. body'[b] = r2
  BY <1>3 DEF Shape
<1> QED
  BY <1>2, <1>3, <1>4, RecordFacts

-----------------------------------------------------------------------------
(* Every step of a body: it goes on or it ends.                            *)

LEMMA BodyStepFacts ==
    ASSUME Shape, NEW b \in Bodies, BodyStep(b)
    PROVE  GoesOn(b) \/ Ends(b)
<1>0. IsBody(body[b])
  BY DEF Shape
<1>1. CASE Scored(b)
  BY <1>0, <1>1 DEF Scored, Shape, Active, GoesOn, GoesTo, Ends, IsBody, Fields, settings
<1>2. CASE AssignPair(b)
  <2>1. Active(b) /\ UNCHANGED <<running, timer, inFlight>>
    BY <1>2 DEF AssignPair, Dispatching, Active, control
  <2>2. PICK p \in body[b].pairs :
            \/ body' = [body EXCEPT ![b].pc = "assigned", ![b].pair = p, ![b].slots = @ - 1]
            \/ body' = [body EXCEPT ![b].pairs = @ \ {p}]
    BY <1>2, Zenon DEF AssignPair
  <2>3. CASE body' = [body EXCEPT ![b].pc = "assigned", ![b].pair = p, ![b].slots = @ - 1]
    <3> DEFINE r1 == [body[b] EXCEPT !.pc = "assigned"]
               r2 == [r1 EXCEPT !.pair = p]
               r3 == [r2 EXCEPT !.slots = r2.slots - 1]
    <3>1. IsBody(r1) /\ r1.pc = "assigned" /\ r1.rearm = body[b].rearm /\ r1.late = body[b].late
      BY <1>0, EditFacts DEF IsBody, Fields
    <3> HIDE DEF r1
    <3>2. IsBody(r2) /\ r2.pc = "assigned" /\ r2.rearm = body[b].rearm /\ r2.late = body[b].late
      BY <3>1 DEF IsBody, Fields
    <3> HIDE DEF r2
    <3>3. IsBody(r3) /\ r3.pc = "assigned" /\ r3.rearm = body[b].rearm /\ r3.late = body[b].late
      BY <3>2 DEF IsBody, Fields
    <3> USE DEF r1, r2
    <3>4. body' = [body EXCEPT ![b] = r3]
      BY <2>3 DEF Shape, r3
    <3> HIDE DEF r3
    <3> QED
      BY <2>1, <3>3, <3>4, RecordFacts DEF GoesOn
  <2>4. CASE body' = [body EXCEPT ![b].pairs = @ \ {p}]
    BY <1>0, <2>1, <2>4 DEF Shape, GoesOn, GoesTo, Active, IsBody, Fields
  <2> QED
    BY <2>2, <2>3, <2>4
<1>3. CASE StartPair(b)
  <2>1. body[b].pc = "assigned" /\ UNCHANGED <<running, timer, inFlight>>
    BY <1>3 DEF StartPair, control
  <2>2. body' = RolledBack(b)
          \/ \E s \in Sessions : body' = [body EXCEPT ![b].pc = "starting", ![b].session = s]
    BY <1>3, Zenon DEF StartPair
  <2>3. ASSUME NEW s \in Sessions, body' = [body EXCEPT ![b].pc = "starting", ![b].session = s]
        PROVE  GoesTo(b, body')
    BY <1>0, <2>3 DEF Shape, GoesTo, IsBody, Fields
  <2>4. CASE body' = RolledBack(b)
    BY <2>1, <2>4, RolledBackFacts DEF GoesOn, Active
  <2> QED
    BY <2>1, <2>2, <2>3, <2>4 DEF GoesOn, Active
<1>4. CASE PairStarted(b)
  <2>1. body[b].pc = "starting" /\ body' = Used(b) /\ UNCHANGED <<running, timer, inFlight>>
    BY <1>4 DEF PairStarted, control
  <2> QED
    BY <2>1, UsedFacts DEF GoesOn, Active
<1>5. CASE PairFailed(b)
  <2>1. body[b].pc = "starting" /\ body' = RolledBack(b) /\ UNCHANGED <<running, timer, inFlight>>
    BY <1>5, Zenon DEF PairFailed, control
  <2> QED
    BY <2>1, RolledBackFacts DEF GoesOn, Active
<1>6. CASE DispatchEnds(b)
  BY <1>0, <1>6 DEF DispatchEnds, Shape, Active, GoesOn, GoesTo, Ends, IsBody, Fields, settings
<1>7. CASE NextReviewed(b)
  <2>1. body[b].pc = "reviewers" /\ UNCHANGED <<running, timer, inFlight>>
    BY <1>7, Zenon DEF NextReviewed, control
  <2>2. PICK t \in body[b].reviewers :
            LET left == [body[b] EXCEPT !.reviewers = @ \ {t}] IN
            Reads(b, t, "selecting", left) \/ body' = [body EXCEPT ![b] = left]
    BY <1>7, Zenon DEF NextReviewed
  <2> DEFINE left == [body[b] EXCEPT !.reviewers = @ \ {t}]
  <2>3. IsBody(left) /\ left.pc = "reviewers" /\ left.rearm = body[b].rearm /\ left.late = body[b].late
    BY <1>0, <2>1, EditFacts DEF IsBody, Fields
  <2>4. Reads(b, t, "selecting", left) \/ body' = [body EXCEPT ![b] = left]
    BY <2>2
  <2> HIDE DEF left
  <2> QED
    BY <2>1, <2>3, <2>4, ReadsFacts, RecordFacts DEF GoesOn, Active
<1>8. CASE ReviewersSelected(b)
  <2>1. /\ body[b].pc = "selecting" /\ UNCHANGED <<running, timer, inFlight>>
        /\ body' = [body EXCEPT ![b].pc = "reviewers", ![b].held = None]
    BY <1>8, Zenon DEF ReviewersSelected
  <2> QED
    BY <1>0, <2>1 DEF Shape, Active, GoesOn, GoesTo, IsBody, Fields
<1>9. CASE ReviewersEnd(b)
  BY <1>0, <1>9 DEF ReviewersEnd, Shape, Active, GoesOn, GoesTo, Ends, IsBody, Fields, settings
<1>10. CASE NextBlocked(b)
  <2>1. body[b].pc = "unblock" /\ UNCHANGED <<running, timer, inFlight>>
    BY <1>10, Zenon DEF NextBlocked, control
  <2>2. PICK t \in body[b].blocked :
            LET left == [body[b] EXCEPT !.blocked = @ \ {t}] IN
            Reads(b, t, "asking", left) \/ body' = [body EXCEPT ![b] = left]
    BY <1>10, Zenon DEF NextBlocked
  <2> DEFINE left == [body[b] EXCEPT !.blocked = @ \ {t}]
  <2>3. IsBody(left) /\ left.pc = "unblock" /\ left.rearm = body[b].rearm /\ left.late = body[b].late
    BY <1>0, <2>1, EditFacts DEF IsBody, Fields
  <2>4. Reads(b, t, "asking", left) \/ body' = [body EXCEPT ![b] = left]
    BY <2>2
  <2> HIDE DEF left
  <2> QED
    BY <2>1, <2>3, <2>4, ReadsFacts, RecordFacts DEF GoesOn, Active
<1>11. CASE UnblockAnswered(b)
  <2>1. /\ body[b].pc = "asking" /\ UNCHANGED <<running, timer, inFlight>>
        /\ body' = [body EXCEPT ![b].pc = "unblock", ![b].held = None]
    BY <1>11, Zenon DEF UnblockAnswered
  <2> QED
    BY <1>0, <2>1 DEF Shape, Active, GoesOn, GoesTo, IsBody, Fields
<1>12. CASE UnblockEnds(b)
  BY <1>12 DEF UnblockEnds, Ends, Active
<1> QED
  BY <1>1, <1>2, <1>3, <1>4, <1>5, <1>6, <1>7, <1>8, <1>9, <1>10, <1>11, <1>12 DEF BodyStep

-----------------------------------------------------------------------------
(* The invariant, by what a step does.                                     *)

LEMMA InitFacts == DispatcherInit => TickInv
<1> SUFFICES ASSUME DispatcherInit PROVE TickInv
  OBVIOUS
<1>1. /\ \A b \in Bodies : body[b] = NoBody
      /\ body = [b \in Bodies |-> body[b]] /\ inFlight = FALSE
      /\ running \in BOOLEAN /\ timer = running
  BY Zenon DEF DispatcherInit
<1> QED
  BY <1>1, NoBodyFacts DEF TickInv, Shape, OneTickBody, GuardInv, NeverStalls, Active

\* A body that goes on keeps the guard set and still arms the timer.
LEMMA GoesOnKeeps ==
    ASSUME TickInv, NEW b \in Bodies, GoesOn(b)
    PROVE  TickInv'
<1>1. Shape'
  BY DEF TickInv, Shape, GoesOn, GoesTo
<1>2. \A c \in Bodies : c # b => body'[c] = body[c]
  BY DEF TickInv, Shape, GoesOn, GoesTo
<1>3. \A c \in Bodies : body'[c].pc # "idle" <=> body[c].pc # "idle"
  BY <1>2 DEF GoesOn, GoesTo, Active
<1>4. \A c \in Bodies : body'[c].rearm = body[c].rearm /\ body'[c].late = body[c].late
  BY <1>2 DEF GoesOn, GoesTo
<1>5. OneTickBody' /\ GuardInv'
  BY <1>3 DEF TickInv, OneTickBody, GuardInv, Active, GoesOn
<1>6. NeverStalls'
  BY <1>3, <1>4 DEF TickInv, NeverStalls, GoesOn
<1> QED
  BY <1>1, <1>5, <1>6 DEF TickInv

\* The end of the body at work leaves none, and arms the timer if it has to.
LEMMA EndsKeeps ==
    ASSUME TickInv, NEW b \in Bodies, Ends(b)
    PROVE  TickInv'
<1>1. /\ body' = [body EXCEPT ![b] = NoBody] /\ inFlight' = FALSE /\ running' = running
      /\ timer' = IF body[b].late THEN timer ELSE Armed(body[b].rearm)
  BY DEF Ends, BodyEnds, HeldAfter
<1>2. \A c \in Bodies : ~Active(c)'
  BY <1>1, NoBodyFacts DEF TickInv, Shape, OneTickBody, Ends, Active
<1>3. timer' \in BOOLEAN
  BY <1>1 DEF TickInv, Shape, Armed
<1>4. Shape'
  BY <1>1, <1>3, NoBodyFacts DEF TickInv, Shape
<1>5. OneTickBody' /\ GuardInv'
  BY <1>2 DEF OneTickBody, GuardInv, Active
<1>6. running' => timer'
  BY <1>1 DEF TickInv, OneTickBody, NeverStalls, Ends, Active, Armed
<1> QED
  BY <1>4, <1>5, <1>6 DEF TickInv, NeverStalls

\* The deadline arms the timer in the body's stead.
LEMMA DeadlineKeeps ==
    ASSUME TickInv, NEW b \in Bodies, Deadline(b)
    PROVE  TickInv'
<1>1. /\ body' = [body EXCEPT ![b].late = TRUE] /\ inFlight' = inFlight /\ running' = running
      /\ timer' = Armed(body[b].rearm) /\ ~body[b].late /\ body[b].pc # "idle"
  BY DEF Deadline, HeldAtDeadline, settings
<1>2. \A c \in Bodies : IsBody(body'[c]) /\ body'[c].pc = body[c].pc
  BY <1>1 DEF TickInv, Shape, IsBody, Fields
<1>3. body' = [c \in Bodies |-> body'[c]]
  BY <1>1 DEF TickInv, Shape
<1>4. timer' \in BOOLEAN
  BY <1>1 DEF TickInv, Shape, Armed
<1>5. Shape'
  BY <1>1, <1>2, <1>3, <1>4 DEF TickInv, Shape
<1>6. OneTickBody' /\ GuardInv'
  BY <1>1, <1>2 DEF TickInv, OneTickBody, GuardInv, Active
<1>7. running' => timer'
  BY <1>1 DEF TickInv, OneTickBody, NeverStalls, Armed
<1> QED
  BY <1>5, <1>6, <1>7 DEF TickInv, NeverStalls

\* The bodies and the guard are left alone; what runs has a tick due as before.
LEMMA QuietKeeps ==
    ASSUME TickInv, UNCHANGED <<inFlight, body>>, running' \in BOOLEAN, timer' \in BOOLEAN,
           running' => timer' \/ (running /\ timer' = timer)
    PROVE  TickInv'
<1>1. Shape' /\ OneTickBody' /\ GuardInv'
  BY DEF TickInv, Shape, OneTickBody, GuardInv, Active
<1>2. NeverStalls'
  BY DEF TickInv, NeverStalls
<1> QED
  BY <1>1, <1>2 DEF TickInv

\* A tick: nothing, or the only body at work begins.
LEMMA TickKeeps ==
    ASSUME TickInv, NEW rearm \in BOOLEAN, NEW armed \in BOOLEAN, NEW armedAtEnd \in BOOLEAN,
           Tick(rearm, armed, armedAtEnd), running' \in BOOLEAN,
           running' => armedAtEnd \/ (running /\ armedAtEnd = timer),
           running' => rearm \/ armed \/ (running /\ armed = timer)
    PROVE  TickInv'
<1>1. CASE timer' = armedAtEnd /\ UNCHANGED <<inFlight, body>>
  BY <1>1, QuietKeeps
<1>2. CASE ~inFlight /\ timer' = armed /\ inFlight' = TRUE
           /\ \E b \in Bodies : body[b].pc = "idle" /\ body' = [body EXCEPT ![b] = Picture(rearm)]
  <2>1. PICK b \in Bodies : body' = [body EXCEPT ![b] = Picture(rearm)]
    BY <1>2
  <2>2. \A c \in Bodies : ~Active(c)
    BY <1>2 DEF TickInv, GuardInv
  <2>3. \A c \in Bodies : body'[c] = IF c = b THEN Picture(rearm) ELSE body[c]
    BY <2>1 DEF TickInv, Shape
  <2>4. Shape'
    BY <1>2, <2>1, <2>3, PictureFacts DEF TickInv, Shape
  <2>5. OneTickBody'
    BY <2>2, <2>3 DEF OneTickBody, Active
  <2>6. GuardInv'
    BY <1>2 DEF GuardInv
  <2>7. NeverStalls'
    <3>1. CASE rearm
      BY <2>3, <3>1, PictureFacts DEF NeverStalls
    <3>2. CASE ~rearm
      BY <1>2, <2>2, <3>2 DEF TickInv, NeverStalls, Active
    <3> QED
      BY <3>1, <3>2
  <2> QED
    BY <2>4, <2>5, <2>6, <2>7 DEF TickInv
<1> QED
  BY <1>1, <1>2 DEF Tick

LEMMA StartsKeeps ==
    ASSUME TickInv, Starts
    PROVE  TickInv'
<1>1. running' = TRUE
  BY DEF Starts
<1>2. CASE running /\ UNCHANGED <<timer, inFlight, body>>
  BY <1>1, <1>2, QuietKeeps DEF TickInv, Shape
<1>3. CASE Tick(TRUE, FALSE, TRUE)
  BY <1>1, <1>3, TickKeeps
<1> QED
  BY <1>2, <1>3 DEF Starts

LEMMA StopsKeeps ==
    ASSUME TickInv, Stops
    PROVE  TickInv'
  BY QuietKeeps DEF Stops

-----------------------------------------------------------------------------
(* The theorems.                                                           *)

LEMMA StepFacts ==
    ASSUME TickInv, [DispatcherNext]_allVars
    PROVE  TickInv'
<1>0. running \in BOOLEAN /\ timer \in BOOLEAN
  BY DEF TickInv, Shape
<1>1. CASE \E b \in Bodies : BodyStep(b)
  BY <1>1, BodyStepFacts, GoesOnKeeps, EndsKeeps DEF TickInv
<1>2. CASE TimerFires
  <2>1. Tick(TRUE, FALSE, running) /\ running' = running
    BY <1>2 DEF TimerFires
  <2> QED
    BY <1>0, <2>1, TickKeeps
<1>3. CASE ForceTick
  <2>1. Tick(FALSE, timer, timer) /\ running' = running
    BY <1>3 DEF ForceTick
  <2> QED
    BY <1>0, <2>1, TickKeeps
<1>4. CASE \E b \in Bodies : Deadline(b)
  BY <1>4, DeadlineKeeps
<1>5. CASE Toggle
  BY <1>5, StartsKeeps, StopsKeeps DEF Toggle
<1>6. CASE SetConfig
  <2>1. timer' = (running \/ timer) /\ UNCHANGED <<running, inFlight, body>>
    BY <1>6 DEF SetConfig
  <2> QED
    BY <1>0, <2>1, QuietKeeps
<1>7. CASE EditConfig
  BY <1>0, <1>7, QuietKeeps DEF EditConfig
<1>8. CASE ConfigHandled
  <2>1. CASE running' = TRUE /\ timer' = TRUE /\ UNCHANGED <<inFlight, body>>
    BY <2>1, QuietKeeps
  <2> QED
    BY <1>8, <2>1, StartsKeeps, StopsKeeps DEF ConfigHandled
<1>9. CASE Others
  BY <1>0, <1>9, QuietKeeps DEF Others, dispatcher, control
<1>10. CASE RestartAll
  <2>1. /\ body' = [b \in Bodies |-> NoBody] /\ inFlight' = FALSE
        /\ timer' = running' /\ running' \in BOOLEAN
    BY <1>10 DEF RestartAll
  <2>2. \A b \in Bodies : body'[b] = NoBody
    BY <2>1
  <2> QED
    BY <2>1, <2>2, NoBodyFacts DEF TickInv, Shape, OneTickBody, GuardInv, NeverStalls, Active
<1>11. CASE UNCHANGED allVars
  BY <1>0, <1>11, QuietKeeps DEF allVars, dispatcher, control
<1> QED
  BY <1>1, <1>2, <1>3, <1>4, <1>5, <1>6, <1>7, <1>8, <1>9, <1>10, <1>11 DEF DispatcherNext

\* No step of a tick, of the switch or of the rest breaks what keeps ticks apart and
\* coming.
THEOREM TicksInvariant == DispatcherSpec => []TickInv
<1> QED
  BY InitFacts, StepFacts, PTL DEF DispatcherSpec

\* No two tick bodies are ever at work together, whatever times out, is toggled,
\* forced or restarted: tickInFlight is kept until the body itself has settled.
THEOREM OneTickBodyHolds == DispatcherSpec => []OneTickBody
<1>1. TickInv => OneTickBody
  BY DEF TickInv
<1> QED
  BY <1>1, TicksInvariant, PTL

\* A dispatcher that runs always has its next tick due, or one on its way that
\* makes the next one due.
THEOREM NeverStallsHolds == DispatcherSpec => []NeverStalls
<1>1. TickInv => NeverStalls
  BY DEF TickInv
<1> QED
  BY <1>1, TicksInvariant, PTL

-----------------------------------------------------------------------------
(* What a step does to agents, tasks and runs: a step of AgentTasks, or one *)
(* of two that only a tick takes.                                           *)

\* A pair is rolled back.
RollsBack(b) ==
    /\ body[b].pc \in {"assigned", "starting"}
    /\ Unassigned(body[b].pair[2], body[b].pair[1])
    /\ \/ UNCHANGED session
       \/ body[b].pc = "starting" /\ session' = [session EXCEPT ![body[b].session] = Gone]
    /\ UNCHANGED <<due, restarts>> /\ KeepsReviews

\* A task is written as it was read.
WritesBack(b) ==
    LET h == body[b].held IN
    /\ body[b].pc \in {"selecting", "asking"}
    /\ \E r \in {h.seen, [h.seen EXCEPT !.reviewers = TRUE], [h.seen EXCEPT !.status = "in_progress"]} :
         task' = [task EXCEPT ![h.id] = r]
    /\ UNCHANGED due \/ KickBackOf(h.id, h.seen)
    /\ UNCHANGED <<agent, session, restarts>> /\ KeepsReviews

\* What a body holds, while it is where that matters.
Fits(r, att) ==
    /\ r \in BodyRecord
    /\ r.pc = "idle" => r.blocked = {}
    /\ r.pc \in {"assigned", "starting"} => r.slots < MaxConcurrentAgents /\ r.pair \in Pairs
    /\ r.pc = "starting" => r.session \in Sessions
    /\ r.pc \in {"selecting", "asking"} => r.held \in Held
    /\ r.pc = "selecting" => r.held.attempts = att[r.held.id]
    /\ r.pc = "asking" => r.held.attempts < MaxAttempts /\ r.held.id \notin r.blocked
    /\ \A t \in r.blocked : att[t] < MaxAttempts

BodiesFit == \A b \in Bodies : Fits(body[b], attempts)

LEMMA BodyOnAgents ==
    ASSUME BodiesFit, NEW b \in Bodies, BodyStep(b)
    PROVE  [Next]_vars \/ RollsBack(b) \/ WritesBack(b)
<1>0. Fits(body[b], attempts)
  BY DEF BodiesFit
<1>1. CASE UNCHANGED vars
  BY <1>1
<1>2. CASE AssignPair(b) /\ ~UNCHANGED vars
  <2>1. PICK p \in body[b].pairs : AssignTask(p[2], p[1])
    BY <1>2, Zenon DEF AssignPair
  <2>2. p[1] \in Tasks /\ p[2] \in Agents
    BY <1>0, <2>1 DEF Fits, BodyRecord, Pairs
  <2> QED
    BY <2>1, <2>2 DEF Next, UserStep
<1>3. CASE StartPair(b)
  <2> DEFINE t == body[b].pair[1]
             a == body[b].pair[2]
  <2>1. body[b].pc = "assigned" /\ UNCHANGED <<due, restarts>> /\ KeepsReviews
    BY <1>3 DEF StartPair
  <2>2. \/ \E u \in Tasks, s \in Sessions : StartRun(a, u, s)
        \/ Unassigned(a, t) /\ UNCHANGED session
    BY <1>3, Zenon DEF StartPair
  <2>3. a \in Agents
    BY <1>0, <2>1 DEF Fits, Pairs
  <2>4. CASE \E u \in Tasks, s \in Sessions : StartRun(a, u, s)
    BY <2>1, <2>3, <2>4 DEF Next, UserStep, Start
  <2>5. CASE Unassigned(a, t) /\ UNCHANGED session
    BY <2>1, <2>5 DEF RollsBack
  <2> QED
    BY <2>2, <2>4, <2>5
<1>4. CASE PairStarted(b)
  <2> DEFINE s == body[b].session
  <2>1. s \in Sessions
    BY <1>0, <1>4 DEF PairStarted, Fits
  <2>2. PtyCreated(s) \/ MastraImported(s)
    BY <1>4 DEF PairStarted
  <2> QED
    BY <2>1, <2>2 DEF Next, RunStep
<1>5. CASE PairFailed(b)
  BY <1>5, Zenon DEF PairFailed, RollsBack
<1>6. CASE ReviewersSelected(b) /\ ~UNCHANGED vars
  <2>1. /\ body[b].pc = "selecting"
        /\ UNCHANGED <<agent, session, due, restarts>> /\ KeepsReviews
        /\ \/ UNCHANGED task
           \/ task' = [task EXCEPT ![body[b].held.id] = [body[b].held.seen EXCEPT !.reviewers = TRUE]]
    BY <1>6, Zenon DEF ReviewersSelected
  <2>2. ~UNCHANGED task
    BY <1>6, <2>1 DEF vars, KeepsReviews
  <2> QED
    BY <2>1, <2>2 DEF WritesBack
<1>7. CASE UnblockAnswered(b)
  <2>1. /\ body[b].pc = "asking"
        /\ UNCHANGED <<agent, session, restarts>> /\ KeepsReviews
        /\ \/ /\ task' = [task EXCEPT ![body[b].held.id] = [body[b].held.seen EXCEPT !.status = "in_progress"]]
              /\ KickBackOf(body[b].held.id, body[b].held.seen)
           \/ task' = [task EXCEPT ![body[b].held.id] = body[b].held.seen] /\ UNCHANGED due
    BY <1>7, Zenon DEF UnblockAnswered
  <2> QED
    BY <2>1 DEF WritesBack
<1>8. CASE \/ Scored(b) \/ DispatchEnds(b) \/ NextReviewed(b) \/ ReviewersEnd(b)
           \/ NextBlocked(b) \/ UnblockEnds(b)
  <2>1. UNCHANGED vars
    BY <1>8, Zenon DEF Scored, DispatchEnds, NextReviewed, ReviewersEnd, NextBlocked, UnblockEnds
  <2> QED
    BY <2>1
<1> QED
  BY <1>1, <1>2, <1>3, <1>4, <1>5, <1>6, <1>7, <1>8 DEF BodyStep

LEMMA StepOnAgents ==
    ASSUME BodiesFit, [DispatcherNext]_allVars
    PROVE  [Next]_vars \/ \E b \in Bodies : RollsBack(b) \/ WritesBack(b)
<1>1. CASE \E b \in Bodies : BodyStep(b)
  BY <1>1, BodyOnAgents
<1>2. CASE Others
  BY <1>2 DEF Others, Next
<1>3. CASE RestartAll
  BY <1>3 DEF RestartAll, Next
<1>4. CASE \/ TimerFires \/ ForceTick \/ Toggle \/ SetConfig \/ EditConfig \/ ConfigHandled
           \/ \E b \in Bodies : Deadline(b)
  BY <1>4, Zenon DEF TimerFires, ForceTick, Toggle, SetConfig, EditConfig, ConfigHandled, Deadline
<1>5. CASE UNCHANGED allVars
  BY <1>5 DEF allVars
<1> QED
  BY <1>1, <1>2, <1>3, <1>4, <1>5 DEF DispatcherNext

\* What either leaves of the types of agents, tasks and runs.
LEMMA RollBackType ==
    ASSUME TypeInv, NEW b \in Bodies, Fits(body[b], attempts), RollsBack(b)
    PROVE  TypeInv' /\ GoneRuns \subseteq GoneRuns'
<1> DEFINE t == body[b].pair[1]
           a == body[b].pair[2]
<1> FilesOK
  BY DEF TypeInv
<1>1. t \in Tasks /\ a \in Agents
  BY DEF Fits, RollsBack, Pairs
<1>2. agent' \in [Agents -> AgentRecord]
  <2>1. Freed(a) \in AgentRecord
    BY <1>1 DEF Freed, FilesOK, AgentRecord
  <2> QED
    BY <1>1, <2>1 DEF RollsBack, Unassigned, FilesOK
<1>3. task' \in [Tasks -> TaskRecord]
  <2>1. [task[t] EXCEPT !.agent = None] \in TaskRecord
    BY <1>1, TaskEdits DEF FilesOK
  <2>2. task' = task \/ task' = [task EXCEPT ![t] = [task[t] EXCEPT !.agent = None]]
    BY DEF RollsBack, Unassigned
  <2> QED
    BY <1>1, <2>1, <2>2 DEF FilesOK
<1>4. UNCHANGED session \/ \E s \in Sessions : session' = [session EXCEPT ![s] = Gone]
  BY DEF RollsBack, Fits
<1>5. NoRunBegins
  BY <1>4, QuietSessions
<1>6. GoneRuns \subseteq GoneRuns'
  BY <1>4, RecordValues DEF GoneRuns, FilesOK
<1>7. TypeInv'
  BY <1>2, <1>3, <1>5, RunsKept DEF TypeInv, FilesOK, RollsBack, KeepsReviews, NoRunBegins
<1> QED
  BY <1>6, <1>7

LEMMA WriteBackType ==
    ASSUME TypeInv, NEW b \in Bodies, Fits(body[b], attempts), WritesBack(b)
    PROVE  TypeInv' /\ GoneRuns' = GoneRuns
<1> DEFINE h == body[b].held
<1> FilesOK
  BY DEF TypeInv
<1>1. h.id \in Tasks /\ h.seen \in TaskRecord
  BY DEF Fits, WritesBack, Held
<1> HIDE DEF h
<1>2. ASSUME NEW r \in {h.seen, [h.seen EXCEPT !.reviewers = TRUE], [h.seen EXCEPT !.status = "in_progress"]}
      PROVE  r \in TaskRecord
  BY <1>1, TaskEdits DEF Statuses
<1>3. \E r \in TaskRecord : task' = [task EXCEPT ![h.id] = r]
  BY <1>2 DEF WritesBack, h
<1>4. task' \in [Tasks -> TaskRecord]
  BY <1>1, <1>3 DEF FilesOK
<1>5. UNCHANGED <<agent, session, assessed>>
  BY DEF WritesBack, KeepsReviews
<1> QED
  BY <1>4, <1>5 DEF TypeInv, FilesOK, RunsOK, Underway, IsPty, GoneRuns

\* Neither starts a review, and an agent that is due for a restart is one.
LEMMA DispatchCounts ==
    ASSUME TypeInv, CountersOK, NEW b \in Bodies, Fits(body[b], attempts),
           RollsBack(b) \/ WritesBack(b)
    PROVE  CountersOK'
<1>1. GoneRuns \subseteq GoneRuns' /\ UNCHANGED <<reviews, restarts>>
  BY RollBackType, WriteBackType DEF RollsBack, WritesBack, KeepsReviews
<1>2. Cardinality(GoneRuns) <= Cardinality(GoneRuns')
      /\ Cardinality(GoneRuns) \in Nat /\ Cardinality(GoneRuns') \in Nat
  <2>1. IsFiniteSet(Sessions)
    BY FS_Interval, ConstantsAssumption DEF Sessions
  <2>2. GoneRuns' \subseteq Sessions /\ GoneRuns \subseteq Sessions
    BY DEF GoneRuns
  <2> QED
    BY <1>1, <2>1, <2>2, FS_Subset, FS_CardinalityType
<1>3. due' \subseteq Agents \X Tasks
  <2>1. CASE UNCHANGED due
    BY <2>1 DEF CountersOK
  <2>2. CASE WritesBack(b) /\ KickBackOf(body[b].held.id, body[b].held.seen)
    <3>1. body[b].held.id \in Tasks /\ body[b].held.seen.agent \in Agents \cup {None}
      BY <2>2 DEF Fits, WritesBack, Held, TaskRecord
    <3> QED
      BY <2>2, <3>1 DEF KickBackOf, CountersOK
  <2> QED
    BY <2>1, <2>2 DEF RollsBack, WritesBack
<1>4. \A t \in Tasks : reviews'[t] <= MaxReviews + Cardinality(GoneRuns')
  <2> SUFFICES ASSUME NEW t \in Tasks PROVE reviews'[t] <= MaxReviews + Cardinality(GoneRuns')
    OBVIOUS
  <2>1. reviews[t] \in Nat /\ reviews[t] <= MaxReviews + Cardinality(GoneRuns) /\ reviews'[t] = reviews[t]
    BY <1>1 DEF CountersOK
  <2> QED
    BY <1>2, <2>1, ConstantsAssumption
<1> QED
  BY <1>1, <1>3, <1>4 DEF CountersOK

\* The types of AgentTasks, with the dispatcher at work.
LEMMA FilesStep ==
    ASSUME TypeInv, CountersOK, BodiesFit, [DispatcherNext]_allVars
    PROVE  TypeInv' /\ CountersOK'
<1>1. CASE [Next]_vars
  BY <1>1, TypeStep, CountersStep
<1>2. ASSUME NEW b \in Bodies, RollsBack(b) \/ WritesBack(b)
      PROVE  TypeInv' /\ CountersOK'
  BY <1>2, RollBackType, WriteBackType, DispatchCounts DEF BodiesFit
<1> QED
  BY <1>1, <1>2, StepOnAgents

-----------------------------------------------------------------------------
(* What the bodies hold keeps fitting.                                     *)

\* A body that is not at work does not look at the attempts.
LEMMA IdleFits ==
    ASSUME NEW r, NEW att, NEW new, Fits(r, att), r.pc = "idle"
    PROVE  Fits(r, new)
  BY DEF Fits

LEMMA NoBodyFits == \A att : Fits(NoBody, att)
<1>1. NoBody \in BodyRecord
  BY DispatcherAssumption DEF NoBody, BodyRecord
<1> QED
  BY <1>1 DEF Fits, NoBody

\* One body goes on with a record that fits.
LEMMA OneGoesOn ==
    ASSUME Shape, OneTickBody, BodiesFit, NEW b \in Bodies, Active(b), NEW n, Fits(n, attempts'),
           body' = [body EXCEPT ![b] = n]
    PROVE  BodiesFit'
<1> SUFFICES ASSUME NEW c \in Bodies PROVE Fits(body'[c], attempts')
  BY DEF BodiesFit
<1>1. CASE c = b
  BY <1>1 DEF Shape
<1>2. CASE c # b
  <2>1. body'[c] = body[c] /\ body[c].pc = "idle"
    BY <1>2 DEF Shape, OneTickBody, Active
  <2> QED
    BY <2>1, IdleFits DEF BodiesFit
<1> QED
  BY <1>1, <1>2

LEMMA EndFits ==
    ASSUME Shape, OneTickBody, BodiesFit, NEW b \in Bodies, Active(b), BodyEnds(b)
    PROVE  BodiesFit'
  BY NoBodyFits, OneGoesOn DEF BodyEnds

\* The edits of a record that keep its type.
LEMMA BodyEdits ==
    ASSUME NEW r \in BodyRecord
    PROVE  /\ \A pc \in {"dispatch", "assigned", "starting", "reviewers", "selecting", "unblock", "asking"} :
                [r EXCEPT !.pc = pc] \in BodyRecord
           /\ [r EXCEPT !.late = TRUE] \in BodyRecord
           /\ \A n \in 0 .. MaxConcurrentAgents : [r EXCEPT !.slots = n] \in BodyRecord
           /\ \A P \in SUBSET Pairs : [r EXCEPT !.pairs = P] \in BodyRecord
           /\ \A T \in SUBSET Tasks : /\ [r EXCEPT !.reviewers = T] \in BodyRecord
                                      /\ [r EXCEPT !.blocked = T] \in BodyRecord
           /\ \A p \in Pairs \cup {None} : [r EXCEPT !.pair = p] \in BodyRecord
           /\ \A s \in Sessions \cup {None} : [r EXCEPT !.session = s] \in BodyRecord
           /\ \A h \in Held \cup {None} : [r EXCEPT !.held = h] \in BodyRecord
  BY DEF BodyRecord

LEMMA BodyShape == \A r \in BodyRecord : IsBody(r)
  BY DEF BodyRecord, IsBody, Fields

LEMMA ScoredFits ==
    ASSUME Shape, OneTickBody, BodiesFit, NEW b \in Bodies,
           Scored(b) \/ DispatchEnds(b) \/ ReviewersEnd(b) \/ UnblockEnds(b)
    PROVE  BodiesFit' /\ UNCHANGED attempts
<1> DEFINE r == body[b]
<1>0. Fits(r, attempts) /\ r.pc # "idle" /\ Active(b) /\ UNCHANGED attempts
  BY DEF BodiesFit, Scored, DispatchEnds, ReviewersEnd, UnblockEnds, Active
<1>1. CASE BodyEnds(b)
  BY <1>0, <1>1, EndFits
<1>2. ASSUME NEW pc \in {"dispatch", "reviewers", "unblock"}, NEW P \in SUBSET Pairs,
             body' = [body EXCEPT ![b] = [r EXCEPT !.pc = pc, !.pairs = P]]
      PROVE  BodiesFit'
  <2> DEFINE q == [r EXCEPT !.pc = pc]
             n == [q EXCEPT !.pairs = P]
  <2>0. r \in BodyRecord
    BY <1>0 DEF Fits
  <2>1. body' = [body EXCEPT ![b] = n]
    BY <1>2
  <2>2. Fits(r, attempts')
    BY <1>0
  <2> HIDE DEF r
  <2>3. q \in BodyRecord
    BY <2>0, BodyEdits
  <2>13. q.pc = pc /\ q.blocked = r.blocked
    BY <2>0, BodyShape, EditFacts DEF Fields
  <2> HIDE DEF q
  <2>4. n \in BodyRecord
    BY <2>3, BodyEdits
  <2>14. n.pc = pc /\ n.blocked = r.blocked
    BY <2>3, <2>13, BodyShape, EditFacts DEF Fields
  <2> HIDE DEF n
  <2>5. Fits(n, attempts')
    BY <2>2, <2>4, <2>14 DEF Fits
  <2> QED
    BY <1>0, <2>1, <2>5, OneGoesOn
<1>3. BodyEnds(b) \/ \E pc \in {"dispatch", "reviewers", "unblock"}, P \in SUBSET Pairs :
        body' = [body EXCEPT ![b] = [r EXCEPT !.pc = pc, !.pairs = P]]
  <2>1. r \in BodyRecord /\ r.pairs \in SUBSET Pairs
    BY <1>0 DEF Fits, BodyRecord
  <2>2. ASSUME NEW pc
        PROVE  [body EXCEPT ![b].pc = pc] = [body EXCEPT ![b] = [r EXCEPT !.pc = pc, !.pairs = r.pairs]]
    <3>1. [r EXCEPT !.pc = pc, !.pairs = r.pairs] = [r EXCEPT !.pc = pc]
      BY <2>1 DEF BodyRecord
    <3> QED
      BY <3>1
  <2>3. CASE Scored(b)
    BY <2>1, <2>2, <2>3 DEF Scored
  <2>4. CASE DispatchEnds(b)
    <3>1. BodyEnds(b) \/ body' = [body EXCEPT ![b].pc = "reviewers", ![b].pairs = {}]
      BY <2>4, Zenon DEF DispatchEnds
    <3>2. [body EXCEPT ![b].pc = "reviewers", ![b].pairs = {}]
            = [body EXCEPT ![b] = [r EXCEPT !.pc = "reviewers", !.pairs = {}]]
      BY DEF Shape
    <3> QED
      BY <3>1, <3>2
  <2>5. CASE ReviewersEnd(b)
    BY <2>1, <2>2, <2>5 DEF ReviewersEnd
  <2> QED
    BY <2>3, <2>4, <2>5 DEF UnblockEnds
<1> QED
  BY <1>0, <1>1, <1>2, <1>3

\* Back among its lists, a body holds nothing.
LEMMA RestFits ==
    ASSUME NEW att, NEW r, Fits(r, att), NEW n \in BodyRecord, n.blocked \subseteq r.blocked,
           n.pc \in {"dispatch", "reviewers", "unblock"}
    PROVE  Fits(n, att)
  BY DEF Fits

LEMMA AssignFits ==
    ASSUME Shape, OneTickBody, BodiesFit, NEW b \in Bodies, AssignPair(b)
    PROVE  BodiesFit' /\ UNCHANGED attempts
<1> DEFINE r == body[b]
<1>0. /\ Fits(r, attempts) /\ r \in BodyRecord /\ r.pc = "dispatch" /\ Active(b)
      /\ UNCHANGED attempts
      /\ r.slots \in 1 .. MaxConcurrentAgents /\ r.pairs \in SUBSET Pairs
  BY DispatcherAssumption
  DEF BodiesFit, AssignPair, Dispatching, Active, control, Fits, BodyRecord
<1>1. PICK p \in r.pairs :
        \/ body' = [body EXCEPT ![b].pc = "assigned", ![b].pair = p, ![b].slots = @ - 1]
        \/ body' = [body EXCEPT ![b].pairs = @ \ {p}]
  BY Zenon DEF AssignPair
<1>2. CASE body' = [body EXCEPT ![b].pairs = @ \ {p}]
  <2> DEFINE n == [r EXCEPT !.pairs = r.pairs \ {p}]
  <2>1. body' = [body EXCEPT ![b] = n]
    BY <1>2
  <2> HIDE DEF r
  <2>2. r.pairs \ {p} \in SUBSET Pairs
    BY <1>0
  <2>3. n \in BodyRecord
    BY <1>0, <2>2, BodyEdits
  <2>4. n.pc = r.pc /\ n.blocked = r.blocked
    BY <1>0, BodyShape, EditFacts DEF Fields
  <2> HIDE DEF n
  <2>5. Fits(n, attempts')
    BY <1>0, <2>3, <2>4, RestFits
  <2> QED
    BY <1>0, <2>1, <2>5, OneGoesOn
<1>3. CASE body' = [body EXCEPT ![b].pc = "assigned", ![b].pair = p, ![b].slots = @ - 1]
  <2> DEFINE q == [r EXCEPT !.pc = "assigned"]
             m == [q EXCEPT !.pair = p]
             n == [m EXCEPT !.slots = m.slots - 1]
  <2>1. body' = [body EXCEPT ![b] = n]
    BY <1>3 DEF Shape
  <2>2. p \in Pairs
    BY <1>0
  <2> HIDE DEF r
  <2>3. q \in BodyRecord
    BY <1>0, BodyEdits
  <2>4. q.pc = "assigned" /\ q.blocked = r.blocked /\ q.slots = r.slots
    BY <1>0, BodyShape, EditFacts DEF Fields
  <2> HIDE DEF q
  <2>5. m \in BodyRecord
    BY <2>2, <2>3, BodyEdits
  <2>6. m.pc = "assigned" /\ m.blocked = r.blocked /\ m.slots = r.slots /\ m.pair = p
    BY <2>3, <2>4, BodyShape, EditFacts DEF Fields
  <2> HIDE DEF m
  <2>7. n \in BodyRecord
    <3>1. m.slots - 1 \in 0 .. MaxConcurrentAgents
      BY <1>0, <2>6, DispatcherAssumption
    <3> QED
      BY <2>5, <3>1, BodyEdits
  <2>8. n.pc = "assigned" /\ n.blocked = r.blocked /\ n.slots = r.slots - 1 /\ n.pair = p
    BY <2>5, <2>6, BodyShape, EditFacts DEF Fields
  <2> HIDE DEF n
  <2>9. n.slots < MaxConcurrentAgents
    BY <1>0, <2>8, DispatcherAssumption
  <2>10. Fits(n, attempts')
    BY <1>0, <2>2, <2>7, <2>8, <2>9 DEF Fits
  <2> QED
    BY <1>0, <2>1, <2>10, OneGoesOn
<1> QED
  BY <1>0, <1>1, <1>2, <1>3

LEMMA RolledBackFits ==
    ASSUME Shape, OneTickBody, BodiesFit, NEW b \in Bodies, UNCHANGED attempts,
           body[b].pc \in {"assigned", "starting"}, body' = RolledBack(b)
    PROVE  BodiesFit'
<1> DEFINE r == body[b]
           r1 == [r EXCEPT !.pc = "dispatch"]
           r2 == [r1 EXCEPT !.pair = None]
           r3 == [r2 EXCEPT !.session = None]
           r4 == [r3 EXCEPT !.slots = RegainsSlot(b)]
           n == [r4 EXCEPT !.pairs = r4.pairs \ {r.pair}]
<1>0. /\ Fits(r, attempts) /\ r \in BodyRecord /\ Active(b)
      /\ r.slots \in 0 .. MaxConcurrentAgents /\ r.slots < MaxConcurrentAgents
  BY DEF BodiesFit, Active, Fits, BodyRecord
<1>1. body' = [body EXCEPT ![b] = n]
  <2>1. RolledBack(b) = [body EXCEPT ![b] = n]
    BY ZenonT(60) DEF RolledBack, Shape
  <2> HIDE DEF n
  <2> QED
    BY <2>1
<1>2. RegainsSlot(b) \in 0 .. MaxConcurrentAgents
  BY <1>0, DispatcherAssumption DEF RegainsSlot
<1> HIDE DEF r
<1>3. r1 \in BodyRecord /\ r1.pc = "dispatch" /\ r1.blocked = r.blocked
  <2>1. r1 \in BodyRecord
    BY <1>0, BodyEdits
  <2>2. r1.pc = "dispatch" /\ r1.blocked = r.blocked
    BY <1>0, BodyShape, EditFacts DEF Fields
  <2> QED
    BY <2>1, <2>2
<1> HIDE DEF r1
<1>4. r2 \in BodyRecord /\ r2.pc = "dispatch" /\ r2.blocked = r.blocked
  <2>1. r2 \in BodyRecord
    BY <1>3, BodyEdits
  <2>2. r2.pc = "dispatch" /\ r2.blocked = r.blocked
    BY <1>3, BodyShape, EditFacts DEF Fields
  <2> QED
    BY <2>1, <2>2
<1> HIDE DEF r2
<1>5. r3 \in BodyRecord /\ r3.pc = "dispatch" /\ r3.blocked = r.blocked
  <2>1. r3 \in BodyRecord
    BY <1>4, BodyEdits
  <2>2. r3.pc = "dispatch" /\ r3.blocked = r.blocked
    BY <1>4, BodyShape, EditFacts DEF Fields
  <2> QED
    BY <2>1, <2>2
<1> HIDE DEF r3
<1>6. r4 \in BodyRecord /\ r4.pc = "dispatch" /\ r4.blocked = r.blocked
  <2>1. r4 \in BodyRecord
    BY <1>2, <1>5, BodyEdits
  <2>2. r4.pc = "dispatch" /\ r4.blocked = r.blocked
    BY <1>5, BodyShape, EditFacts DEF Fields
  <2> QED
    BY <2>1, <2>2
<1> HIDE DEF r4
<1>7. n \in BodyRecord /\ n.pc = "dispatch" /\ n.blocked = r.blocked
  <2>1. r4.pairs \ {r.pair} \in SUBSET Pairs
    BY <1>6 DEF BodyRecord
  <2>2. n \in BodyRecord
    BY <1>6, <2>1, BodyEdits
  <2>3. n.pc = "dispatch" /\ n.blocked = r.blocked
    BY <1>6, BodyShape, EditFacts DEF Fields
  <2> QED
    BY <2>2, <2>3
<1> HIDE DEF n
<1>8. Fits(n, attempts')
  BY <1>0, <1>7, RestFits
<1> QED
  BY <1>0, <1>1, <1>8, OneGoesOn

LEMMA StartFits ==
    ASSUME Shape, OneTickBody, BodiesFit, NEW b \in Bodies, StartPair(b)
    PROVE  BodiesFit' /\ UNCHANGED attempts
<1> DEFINE r == body[b]
<1>0. /\ Fits(r, attempts) /\ r \in BodyRecord /\ r.pc = "assigned" /\ Active(b)
      /\ UNCHANGED attempts
  BY DEF BodiesFit, StartPair, Active, control, Fits
<1>1. body' = RolledBack(b)
        \/ \E s \in Sessions : body' = [body EXCEPT ![b].pc = "starting", ![b].session = s]
  BY Zenon DEF StartPair
<1>2. CASE body' = RolledBack(b)
  BY <1>0, <1>2, RolledBackFits
<1>3. ASSUME NEW s \in Sessions, body' = [body EXCEPT ![b].pc = "starting", ![b].session = s]
      PROVE  BodiesFit'
  <2> DEFINE q == [r EXCEPT !.pc = "starting"]
             n == [q EXCEPT !.session = s]
  <2>1. body' = [body EXCEPT ![b] = n]
    BY <1>3 DEF Shape
  <2> HIDE DEF r
  <2>2. q \in BodyRecord
    BY <1>0, BodyEdits
  <2>3. /\ q.pc = "starting" /\ q.blocked = r.blocked
        /\ q.slots = r.slots /\ q.pair = r.pair
    BY <1>0, BodyShape, EditFacts DEF Fields
  <2> HIDE DEF q
  <2>4. n \in BodyRecord
    BY <2>2, BodyEdits
  <2>5. /\ n.pc = "starting" /\ n.blocked = r.blocked
        /\ n.slots = r.slots /\ n.pair = r.pair /\ n.session = s
    BY <2>2, <2>3, BodyShape, EditFacts DEF Fields
  <2> HIDE DEF n
  <2>6. Fits(n, attempts')
    BY <1>0, <2>4, <2>5 DEF Fits
  <2> QED
    BY <1>0, <2>1, <2>6, OneGoesOn
<1> QED
  BY <1>0, <1>1, <1>2, <1>3

LEMMA StartedFits ==
    ASSUME Shape, OneTickBody, BodiesFit, NEW b \in Bodies, PairStarted(b)
    PROVE  BodiesFit' /\ UNCHANGED attempts
<1> DEFINE r == body[b]
           left == {p \in r.pairs : p[1] # r.pair[1] /\ p[2] # r.pair[2]}
           r1 == [r EXCEPT !.pc = "dispatch"]
           r2 == [r1 EXCEPT !.pair = None]
           r3 == [r2 EXCEPT !.session = None]
           n == [r3 EXCEPT !.pairs = left]
<1>0. /\ Fits(r, attempts) /\ r \in BodyRecord /\ Active(b) /\ UNCHANGED attempts
      /\ r.pairs \in SUBSET Pairs /\ left \in SUBSET Pairs
  BY DEF BodiesFit, PairStarted, Active, control, Fits, BodyRecord
<1>1. body' = [body EXCEPT ![b] = n]
  <2>1. Used(b) = [body EXCEPT ![b] = n]
    BY DEF Used, Shape
  <2> HIDE DEF n
  <2> QED
    BY <2>1 DEF PairStarted
<1> HIDE DEF r, left
<1>2. r1 \in BodyRecord /\ r1.pc = "dispatch" /\ r1.blocked = r.blocked
  <2>1. r1 \in BodyRecord
    BY <1>0, BodyEdits
  <2>2. r1.pc = "dispatch" /\ r1.blocked = r.blocked
    BY <1>0, BodyShape, EditFacts DEF Fields
  <2> QED
    BY <2>1, <2>2
<1> HIDE DEF r1
<1>3. r2 \in BodyRecord /\ r2.pc = "dispatch" /\ r2.blocked = r.blocked
  <2>1. r2 \in BodyRecord
    BY <1>2, BodyEdits
  <2>2. r2.pc = "dispatch" /\ r2.blocked = r.blocked
    BY <1>2, BodyShape, EditFacts DEF Fields
  <2> QED
    BY <2>1, <2>2
<1> HIDE DEF r2
<1>4. r3 \in BodyRecord /\ r3.pc = "dispatch" /\ r3.blocked = r.blocked
  <2>1. r3 \in BodyRecord
    BY <1>3, BodyEdits
  <2>2. r3.pc = "dispatch" /\ r3.blocked = r.blocked
    BY <1>3, BodyShape, EditFacts DEF Fields
  <2> QED
    BY <2>1, <2>2
<1> HIDE DEF r3
<1>5. n \in BodyRecord /\ n.pc = "dispatch" /\ n.blocked = r.blocked
  <2>1. n \in BodyRecord
    BY <1>0, <1>4, BodyEdits
  <2>2. n.pc = "dispatch" /\ n.blocked = r.blocked
    BY <1>4, BodyShape, EditFacts DEF Fields
  <2> QED
    BY <2>1, <2>2
<1> HIDE DEF n
<1>6. Fits(n, attempts')
  BY <1>0, <1>5, RestFits
<1> QED
  BY <1>0, <1>1, <1>6, OneGoesOn

\* A body reads a task and asks a model.
LEMMA ReadsFits ==
    ASSUME Shape, OneTickBody, BodiesFit, FilesOK, UNCHANGED attempts,
           attempts \in [Tasks -> 0 .. MaxAttempts],
           NEW b \in Bodies, Active(b), NEW t \in Tasks, NEW pc \in {"selecting", "asking"},
           NEW left \in BodyRecord, left.blocked \subseteq body[b].blocked,
           pc = "asking" => attempts[t] < MaxAttempts /\ t \notin left.blocked,
           Reads(b, t, pc, left)
    PROVE  BodiesFit'
<1> DEFINE held == [id |-> t, seen |-> task[t], attempts |-> attempts[t]]
           q == [left EXCEPT !.pc = pc]
           n == [q EXCEPT !.held = held]
<1>0. Fits(body[b], attempts)
  BY DEF BodiesFit
<1>1. body' = [body EXCEPT ![b] = n]
  BY DEF Reads
<1>2. held \in Held /\ held.id = t /\ held.attempts = attempts[t]
  BY DEF Held, FilesOK
<1> HIDE DEF held
<1>3. q \in BodyRecord
  BY BodyEdits
<1>4. q.pc = pc /\ q.blocked = left.blocked
  BY BodyShape, EditFacts DEF Fields
<1> HIDE DEF q
<1>5. n \in BodyRecord
  BY <1>2, <1>3, BodyEdits
<1>6. n.pc = pc /\ n.blocked = left.blocked /\ n.held = held
  BY <1>3, <1>4, BodyShape, EditFacts DEF Fields
<1> HIDE DEF n
<1>7. Fits(n, attempts')
  BY <1>0, <1>2, <1>5, <1>6 DEF Fits
<1> QED
  BY <1>1, <1>7, OneGoesOn

LEMMA NextFits ==
    ASSUME Shape, OneTickBody, BodiesFit, FilesOK, attempts \in [Tasks -> 0 .. MaxAttempts],
           NEW b \in Bodies, NextReviewed(b) \/ NextBlocked(b)
    PROVE  BodiesFit' /\ UNCHANGED attempts
<1> DEFINE r == body[b]
<1>0. /\ Fits(r, attempts) /\ r \in BodyRecord /\ r.pc \in {"reviewers", "unblock"} /\ Active(b)
      /\ UNCHANGED attempts /\ r.reviewers \in SUBSET Tasks /\ r.blocked \in SUBSET Tasks
  <2>1. r.pc \in {"reviewers", "unblock"} /\ UNCHANGED attempts
    BY Zenon DEF NextReviewed, NextBlocked, control
  <2> QED
    BY <2>1 DEF BodiesFit, Active, Fits, BodyRecord
<1>1. CASE NextReviewed(b)
  <2>1. PICK t \in r.reviewers : \/ Reads(b, t, "selecting", [r EXCEPT !.reviewers = @ \ {t}])
                                 \/ body' = [body EXCEPT ![b] = [r EXCEPT !.reviewers = @ \ {t}]]
    BY <1>1, Zenon DEF NextReviewed
  <2> DEFINE left == [r EXCEPT !.reviewers = r.reviewers \ {t}]
  <2>2. Reads(b, t, "selecting", left) \/ body' = [body EXCEPT ![b] = left]
    BY <2>1
  <2>3. t \in Tasks /\ r.reviewers \ {t} \in SUBSET Tasks
    BY <1>0
  <2>4. left.blocked \subseteq body[b].blocked /\ left.pc = r.pc
    BY <1>0, BodyShape, EditFacts DEF Fields
  <2> HIDE DEF r
  <2>5. left \in BodyRecord
    BY <1>0, <2>3, BodyEdits
  <2>6. left.blocked \subseteq r.blocked
    BY <2>4 DEF r
  <2> HIDE DEF left
  <2>7. Fits(left, attempts')
    BY <1>0, <2>4, <2>5, <2>6, RestFits
  <2> QED
    BY <1>0, <2>2, <2>3, <2>4, <2>5, <2>7, ReadsFits, OneGoesOn
<1>2. CASE NextBlocked(b)
  <2>1. PICK t \in r.blocked : \/ Reads(b, t, "asking", [r EXCEPT !.blocked = @ \ {t}])
                               \/ body' = [body EXCEPT ![b] = [r EXCEPT !.blocked = @ \ {t}]]
    BY <1>2, Zenon DEF NextBlocked
  <2> DEFINE left == [r EXCEPT !.blocked = r.blocked \ {t}]
  <2>2. Reads(b, t, "asking", left) \/ body' = [body EXCEPT ![b] = left]
    BY <2>1
  <2>3. t \in Tasks /\ r.blocked \ {t} \in SUBSET Tasks /\ attempts[t] < MaxAttempts
    BY <1>0 DEF Fits
  <2>4. left.blocked = body[b].blocked \ {t} /\ left.pc = r.pc
    BY <1>0, BodyShape, EditFacts DEF Fields
  <2> HIDE DEF r
  <2>5. left \in BodyRecord
    BY <1>0, <2>3, BodyEdits
  <2>6. left.blocked \subseteq r.blocked /\ left.blocked \subseteq body[b].blocked /\ t \notin left.blocked
    BY <2>4 DEF r
  <2> HIDE DEF left
  <2>7. Fits(left, attempts')
    BY <1>0, <2>4, <2>5, <2>6, RestFits
  <2> QED
    BY <1>0, <2>2, <2>3, <2>5, <2>6, <2>7, ReadsFits, OneGoesOn
<1> QED
  BY <1>0, <1>1, <1>2

\* A model has answered, or failed to.
LEMMA AnsweredFits ==
    ASSUME Shape, OneTickBody, BodiesFit, attempts \in [Tasks -> 0 .. MaxAttempts],
           NEW b \in Bodies, ReviewersSelected(b) \/ UnblockAnswered(b)
    PROVE  BodiesFit' /\ attempts' \in [Tasks -> 0 .. MaxAttempts]
<1> DEFINE r == body[b]
           h == r.held
<1>0. /\ Fits(r, attempts) /\ r \in BodyRecord /\ Active(b) /\ h \in Held
      /\ h.id \in Tasks /\ h.attempts \in 0 .. MaxAttempts
  <2>1. r.pc \in {"selecting", "asking"}
    BY DEF ReviewersSelected, UnblockAnswered
  <2> QED
    BY <2>1 DEF BodiesFit, Active, Fits, Held
<1>1. /\ attempts' \in [Tasks -> 0 .. MaxAttempts]
      /\ \A t \in r.blocked : attempts'[t] = attempts[t]
  <2>1. CASE ReviewersSelected(b)
    <3>1. r.pc = "selecting" /\ (UNCHANGED attempts \/ attempts' = [attempts EXCEPT ![h.id] = h.attempts])
      BY <2>1, Zenon DEF ReviewersSelected
    <3>2. h.attempts = attempts[h.id]
      BY <1>0, <3>1 DEF Fits
    <3> QED
      BY <1>0, <3>1, <3>2
  <2>2. CASE UnblockAnswered(b)
    <3>1. r.pc = "asking" /\ attempts' = [attempts EXCEPT ![h.id] = h.attempts + 1]
      BY <2>2 DEF UnblockAnswered
    <3>2. h.attempts < MaxAttempts /\ h.id \notin r.blocked
      BY <1>0, <3>1 DEF Fits
    <3>3. h.attempts + 1 \in 0 .. MaxAttempts
      BY <1>0, <3>2, DispatcherAssumption
    <3> QED
      BY <1>0, <3>1, <3>2, <3>3 DEF Fits, BodyRecord
  <2> QED
    BY <2>1, <2>2
<1>2. PICK pc \in {"reviewers", "unblock"} : body' = [body EXCEPT ![b].pc = pc, ![b].held = None]
  BY Zenon DEF ReviewersSelected, UnblockAnswered
<1> DEFINE q == [r EXCEPT !.pc = pc]
           n == [q EXCEPT !.held = None]
<1>3. body' = [body EXCEPT ![b] = n]
  BY <1>2 DEF Shape
<1> HIDE DEF r, h
<1>4. q \in BodyRecord
  BY <1>0, BodyEdits
<1>5. q.pc = pc /\ q.blocked = r.blocked
  BY <1>0, BodyShape, EditFacts DEF Fields
<1> HIDE DEF q
<1>6. n \in BodyRecord
  BY <1>4, BodyEdits
<1>7. n.pc = pc /\ n.blocked = r.blocked
  BY <1>4, <1>5, BodyShape, EditFacts DEF Fields
<1> HIDE DEF n
<1>8. Fits(n, attempts')
  BY <1>0, <1>1, <1>6, <1>7 DEF Fits
<1> QED
  BY <1>0, <1>1, <1>3, <1>8, OneGoesOn

LEMMA DeadlineFits ==
    ASSUME Shape, OneTickBody, BodiesFit, NEW b \in Bodies, Deadline(b)
    PROVE  BodiesFit' /\ UNCHANGED attempts
<1> DEFINE r == body[b]
           n == [r EXCEPT !.late = TRUE]
<1>0. Fits(r, attempts) /\ r \in BodyRecord /\ Active(b) /\ UNCHANGED attempts
  BY DEF BodiesFit, Active, Fits, Deadline
<1>1. body' = [body EXCEPT ![b] = n]
  BY DEF Deadline
<1> HIDE DEF r
<1>2. n \in BodyRecord
  BY <1>0, BodyEdits
<1>3. /\ n.pc = r.pc /\ n.blocked = r.blocked /\ n.slots = r.slots /\ n.pair = r.pair
      /\ n.session = r.session /\ n.held = r.held
  BY <1>0, BodyShape, EditFacts DEF Fields
<1> HIDE DEF n
<1>4. Fits(n, attempts')
  BY <1>0, <1>2, <1>3 DEF Fits
<1> QED
  BY <1>0, <1>1, <1>4, OneGoesOn

\* What a tick sees as it begins.
LEMMA PictureFits ==
    ASSUME FilesOK, attempts \in [Tasks -> 0 .. MaxAttempts], SomethingToDo, NEW rearm \in BOOLEAN
    PROVE  Fits(Picture(rearm), attempts)
<1> DEFINE start == IF AiScored /\ TodoTasks # {} THEN "scoring" ELSE "dispatch"
           slots == MaxConcurrentAgents - Cardinality(RunningAgents)
           pairs == (TodoTasks \X FreeAgents)
                      \cup {<<t, task[t].agent>> : t \in {u \in RetryTasks : task[u].agent \in FreeAgents}}
           unreviewed == IF AssignsReviewers
                         THEN {t \in Tasks : task[t].status = "in_progress" /\ ~task[t].reviewers} ELSE {}
           blocked == IF Unblocks
                      THEN {t \in Tasks : task[t].status = "blocked" /\ attempts[t] < MaxAttempts} ELSE {}
           r == [pc |-> start, rearm |-> rearm, late |-> FALSE, slots |-> slots, pairs |-> pairs,
                 reviewers |-> unreviewed, blocked |-> blocked, pair |-> None, session |-> None,
                 held |-> None]
<1>1. slots \in 0 .. MaxConcurrentAgents
  <2>1. IsFiniteSet(RunningAgents)
    BY DispatcherAssumption, FS_Subset DEF RunningAgents
  <2>2. Cardinality(RunningAgents) \in Nat
    BY <2>1, FS_CardinalityType
  <2> QED
    BY <2>2, DispatcherAssumption DEF SomethingToDo
<1>2. pairs \subseteq Pairs
  BY DEF TodoTasks, FreeAgents, RetryTasks, Pairs
<1>3. /\ unreviewed \subseteq Tasks /\ blocked \subseteq Tasks
      /\ \A t \in blocked : attempts[t] < MaxAttempts
      /\ start \in {"scoring", "dispatch"}
  OBVIOUS
<1>4. Picture(rearm) = [NoBody EXCEPT !.pc = start, !.rearm = rearm, !.slots = slots,
         !.pairs = pairs, !.reviewers = unreviewed, !.blocked = blocked]
  BY Zenon DEF Picture
<1> HIDE DEF start, slots, pairs, unreviewed, blocked
<1>7. Picture(rearm) = r
  BY <1>4 DEF NoBody
<1>5. r \in BodyRecord
  BY <1>1, <1>2, <1>3 DEF BodyRecord
<1>6. Fits(r, attempts)
  BY <1>3, <1>5 DEF Fits
<1> QED
  BY <1>6, <1>7

LEMMA TickFits ==
    ASSUME TickInv, BodiesFit, FilesOK, attempts \in [Tasks -> 0 .. MaxAttempts],
           UNCHANGED attempts, NEW rearm \in BOOLEAN, NEW armed, NEW armedAtEnd,
           Tick(rearm, armed, armedAtEnd)
    PROVE  BodiesFit'
<1>1. CASE UNCHANGED body
  BY <1>1 DEF BodiesFit
<1>2. CASE SomethingToDo /\ \E b \in Bodies : /\ body[b].pc = "idle"
                                              /\ body' = [body EXCEPT ![b] = Picture(rearm)]
  <2>1. PICK b \in Bodies : body' = [body EXCEPT ![b] = Picture(rearm)]
    BY <1>2
  <2>2. Fits(Picture(rearm), attempts)
    BY <1>2, PictureFits
  <2>3. \A c \in Bodies : body'[c] = IF c = b THEN Picture(rearm) ELSE body[c]
    BY <2>1 DEF TickInv, Shape
  <2> QED
    BY <2>2, <2>3 DEF BodiesFit
<1> QED
  BY <1>1, <1>2 DEF Tick

-----------------------------------------------------------------------------
(* The types.                                                              *)

SettingsOK ==
    /\ running \in BOOLEAN /\ enabled \in BOOLEAN /\ persisted \in BOOLEAN \cup {None}
    /\ handled \in BOOLEAN \cup {None} /\ altered \in BOOLEAN
    /\ switches \in 0 .. MaxSwitches

\* The inductive invariant of the types.
WorkInv ==
    /\ TypeInv /\ CountersOK /\ TickInv /\ BodiesFit /\ SettingsOK
    /\ attempts \in [Tasks -> 0 .. MaxAttempts]

LEMMA SettingsStep ==
    ASSUME SettingsOK, [DispatcherNext]_allVars
    PROVE  SettingsOK'
<1> USE DEF SettingsOK, settings
<1>1. ASSUME NEW e \in BOOLEAN PROVE Fresh(e) \in BOOLEAN
  BY <1>1 DEF Fresh
<1>2. CASE \E b \in Bodies : BodyStep(b)
  <2>1. UNCHANGED <<running, settings>>
    BY <1>2, Zenon
    DEF BodyStep, Scored, AssignPair, StartPair, PairStarted, PairFailed, DispatchEnds,
        NextReviewed, ReviewersSelected, ReviewersEnd, NextBlocked, UnblockAnswered,
        UnblockEnds, BodyEnds, control
  <2> QED
    BY <2>1
<1>3. CASE TimerFires \/ ForceTick
  BY <1>1, <1>3 DEF TimerFires, ForceTick
<1>4. CASE \E b \in Bodies : Deadline(b)
  BY <1>4 DEF Deadline
<1>5. ASSUME Starts \/ Stops PROVE running' \in BOOLEAN /\ enabled' \in BOOLEAN
  BY <1>1, <1>5 DEF Starts, Stops
<1>6. ASSUME Switches PROVE switches' \in 0 .. MaxSwitches
  BY <1>6, DispatcherAssumption DEF Switches
<1>7. CASE Toggle
  BY <1>5, <1>6, <1>7 DEF Toggle
<1>8. CASE SetConfig
  BY <1>6, <1>8 DEF SetConfig
<1>9. CASE EditConfig
  BY <1>6, <1>9 DEF EditConfig
<1>10. CASE ConfigHandled
  BY <1>5, <1>10 DEF ConfigHandled
<1>11. CASE Others
  BY <1>11 DEF Others, dispatcher, control
<1>12. CASE RestartAll
  BY <1>12 DEF RestartAll
<1>13. CASE UNCHANGED allVars
  BY <1>13 DEF allVars, dispatcher, control
<1> QED
  BY <1>2, <1>3, <1>4, <1>7, <1>8, <1>9, <1>10, <1>11, <1>12, <1>13 DEF DispatcherNext

LEMMA BodiesStep ==
    ASSUME WorkInv, [DispatcherNext]_allVars
    PROVE  BodiesFit' /\ attempts' \in [Tasks -> 0 .. MaxAttempts]
<1>0. /\ TickInv /\ Shape /\ OneTickBody /\ BodiesFit /\ FilesOK
      /\ attempts \in [Tasks -> 0 .. MaxAttempts] /\ running \in BOOLEAN
  BY DEF WorkInv, TickInv, TypeInv, SettingsOK
<1>1. ASSUME NEW b \in Bodies, BodyStep(b)
      PROVE  BodiesFit' /\ attempts' \in [Tasks -> 0 .. MaxAttempts]
  <2>1. CASE Scored(b) \/ DispatchEnds(b) \/ ReviewersEnd(b) \/ UnblockEnds(b)
    BY <1>0, <2>1, ScoredFits
  <2>2. CASE AssignPair(b)
    BY <1>0, <2>2, AssignFits
  <2>3. CASE StartPair(b)
    BY <1>0, <2>3, StartFits
  <2>4. CASE PairStarted(b)
    BY <1>0, <2>4, StartedFits
  <2>5. CASE PairFailed(b)
    <3>1. body[b].pc = "starting" /\ body' = RolledBack(b) /\ UNCHANGED attempts
      BY <2>5, Zenon DEF PairFailed, control
    <3> QED
      BY <1>0, <3>1, RolledBackFits
  <2>6. CASE NextReviewed(b) \/ NextBlocked(b)
    BY <1>0, <2>6, NextFits
  <2>7. CASE ReviewersSelected(b) \/ UnblockAnswered(b)
    BY <1>0, <2>7, AnsweredFits
  <2> QED
    BY <1>1, <2>1, <2>2, <2>3, <2>4, <2>5, <2>6, <2>7 DEF BodyStep
<1>2. CASE TimerFires \/ ForceTick
  <2>1. UNCHANGED attempts /\ \E rearm, armed, atEnd \in BOOLEAN : Tick(rearm, armed, atEnd)
    BY <1>0, <1>2 DEF TimerFires, ForceTick, TickInv, Shape
  <2> QED
    BY <1>0, <2>1, TickFits
<1>3. CASE \E b \in Bodies : Deadline(b)
  BY <1>0, <1>3, DeadlineFits
<1>4. ASSUME Starts \/ Stops, UNCHANGED attempts PROVE BodiesFit'
  <2>1. CASE UNCHANGED body
    BY <1>0, <1>4, <2>1 DEF BodiesFit
  <2>2. CASE Tick(TRUE, FALSE, TRUE)
    BY <1>0, <1>4, <2>2, TickFits
  <2> QED
    BY <1>4, <2>1, <2>2 DEF Starts, Stops
<1>5. CASE Toggle
  BY <1>0, <1>4, <1>5 DEF Toggle
<1>6. CASE ConfigHandled
  <2>1. UNCHANGED attempts /\ (UNCHANGED body \/ Starts \/ Stops)
    BY <1>6 DEF ConfigHandled
  <2> QED
    BY <1>0, <1>4, <2>1 DEF BodiesFit
<1>7. CASE SetConfig \/ EditConfig \/ Others \/ UNCHANGED allVars
  <2>1. UNCHANGED <<body, attempts>>
    BY <1>7, Zenon DEF SetConfig, EditConfig, Others, allVars, dispatcher, control
  <2> QED
    BY <1>0, <2>1 DEF BodiesFit
<1>8. CASE RestartAll
  <2>1. body' = [b \in Bodies |-> NoBody] /\ UNCHANGED attempts
    BY <1>8 DEF RestartAll
  <2> QED
    BY <1>0, <2>1, NoBodyFits DEF BodiesFit
<1> QED
  BY <1>1, <1>2, <1>3, <1>5, <1>6, <1>7, <1>8 DEF DispatcherNext

LEMMA WorkStep == WorkInv /\ [DispatcherNext]_allVars => WorkInv'
<1> SUFFICES ASSUME WorkInv, [DispatcherNext]_allVars
             PROVE  WorkInv'
  OBVIOUS
<1>1. TypeInv' /\ CountersOK'
  BY FilesStep DEF WorkInv
<1>2. TickInv'
  BY StepFacts DEF WorkInv
<1>3. SettingsOK'
  BY SettingsStep DEF WorkInv
<1> QED
  BY <1>1, <1>2, <1>3, BodiesStep DEF WorkInv

LEMMA WorkInit == DispatcherInit => WorkInv
<1> SUFFICES ASSUME DispatcherInit PROVE WorkInv
  OBVIOUS
<1>1. TypeInv /\ CountersOK
  <2>1. Init
    BY Zenon DEF DispatcherInit
  <2> QED
    BY <2>1, TypeInit, CountersInit
<1>2. TickInv
  BY InitFacts
<1>3. BodiesFit
  <2>1. \A b \in Bodies : body[b] = NoBody
    BY Zenon DEF DispatcherInit
  <2> QED
    BY <2>1, NoBodyFits DEF BodiesFit
<1>4. SettingsOK /\ attempts \in [Tasks -> 0 .. MaxAttempts]
  <2>1. /\ persisted \in InitialSettings /\ running = (persisted = TRUE) /\ enabled = running
        /\ handled = persisted /\ altered = FALSE /\ switches = 0
        /\ attempts = [t \in Tasks |-> 0]
    BY Zenon DEF DispatcherInit
  <2>2. running \in BOOLEAN /\ enabled \in BOOLEAN /\ altered \in BOOLEAN
    BY <2>1, Zenon
  <2>3. persisted \in BOOLEAN \cup {None} /\ handled \in BOOLEAN \cup {None}
    BY <2>1, DispatcherAssumption, Zenon
  <2>4. switches \in 0 .. MaxSwitches /\ attempts \in [Tasks -> 0 .. MaxAttempts]
    BY <2>1, DispatcherAssumption
  <2> QED
    BY <2>2, <2>3, <2>4 DEF SettingsOK
<1> QED
  BY <1>1, <1>2, <1>3, <1>4 DEF WorkInv

\* The settings, the bodies and the attempts of the dispatcher have their types, and so
\* have the files and the runs it works on: a tick never uses more slots than it
\* counted, gives back only those it took, and asks about a blocked task only while it
\* has attempts left.
THEOREM DispatcherTypeCorrect == DispatcherSpec => [](DispatcherTypeOK /\ TypeOK)
<1>1. WorkInv => DispatcherTypeOK
  <2> SUFFICES ASSUME WorkInv PROVE DispatcherTypeOK
    OBVIOUS
  <2>1. body \in [Bodies -> BodyRecord]
    BY DEF WorkInv, TickInv, Shape, BodiesFit, Fits
  <2> QED
    BY <2>1 DEF WorkInv, TickInv, Shape, SettingsOK, DispatcherTypeOK
<1>2. WorkInv => TypeOK
  BY TypeFromCounters DEF WorkInv
<1> QED
  BY <1>1, <1>2, WorkInit, WorkStep, PTL DEF DispatcherSpec

-----------------------------------------------------------------------------
(* The pair that a body tries stays as the body needs it.                  *)

\* The agent that a body has given a task can be started, and the session that a body
\* waits for is that agent's, still starting.
PairHeld(b) ==
    /\ body[b].pc = "assigned" => Startable(body[b].pair[2])
    /\ body[b].pc = "starting" => /\ session[body[b].session].state = "starting"
                                  /\ session[body[b].session].agent = body[b].pair[2]

PairsHeld == \A b \in Bodies : PairHeld(b)

\* How a body comes to assign and to start.
Assigns(b) ==
    /\ body'[b].pc = "assigned"
    /\ AssignTask(body'[b].pair[2], body'[b].pair[1])

StartsPair(b) ==
    /\ body'[b].pc = "starting" /\ body[b].pc = "assigned" /\ body'[b].pair = body[b].pair
    /\ \E u \in Tasks : StartRun(body[b].pair[2], u, body'[b].session)

LEMMA BodyPhase ==
    ASSUME Shape, NEW b \in Bodies, BodyStep(b)
    PROVE  body'[b].pc \notin {"assigned", "starting"} \/ Assigns(b) \/ StartsPair(b)
<1> DEFINE Elsewhere == body'[b].pc \notin {"assigned", "starting"}
<1>0. IsBody(body[b])
  BY DEF Shape
<1>1. ASSUME BodyEnds(b) PROVE Elsewhere
  BY <1>1, NoBodyFacts DEF BodyEnds, Shape
<1>2. ASSUME NEW pc \in {"dispatch", "reviewers", "unblock"}, NEW h, NEW prs,
             \/ body' = [body EXCEPT ![b].pc = pc] \/ body' = [body EXCEPT ![b].pc = pc, ![b].held = h]
             \/ body' = [body EXCEPT ![b].pc = pc, ![b].pairs = prs]
      PROVE  Elsewhere
  BY <1>0, <1>2 DEF Shape, IsBody, Fields
<1>3. CASE Scored(b) \/ DispatchEnds(b) \/ ReviewersEnd(b) \/ UnblockEnds(b)
  <2>1. \/ BodyEnds(b) \/ body' = [body EXCEPT ![b].pc = "dispatch"]
        \/ body' = [body EXCEPT ![b].pc = "unblock"]
        \/ body' = [body EXCEPT ![b].pc = "reviewers", ![b].pairs = {}]
    BY <1>3, Zenon DEF Scored, DispatchEnds, ReviewersEnd, UnblockEnds
  <2> QED
    BY <1>1, <1>2, <2>1
<1>4. CASE AssignPair(b)
  <2>1. body[b].pc = "dispatch"
    BY <1>4 DEF AssignPair, Dispatching
  <2>2. PICK p \in body[b].pairs :
          \/ /\ AssignTask(p[2], p[1])
             /\ body' = [body EXCEPT ![b].pc = "assigned", ![b].pair = p, ![b].slots = @ - 1]
          \/ body' = [body EXCEPT ![b].pairs = @ \ {p}]
    BY <1>4, Zenon DEF AssignPair
  <2>3. CASE body' = [body EXCEPT ![b].pc = "assigned", ![b].pair = p, ![b].slots = @ - 1]
    <3>1. body'[b].pc = "assigned" /\ body'[b].pair = p
      BY <1>0, <2>3 DEF Shape, IsBody, Fields
    <3>2. AssignTask(p[2], p[1]) \/ body' = [body EXCEPT ![b].pairs = @ \ {p}]
      BY <2>2
    <3>3. body' = [body EXCEPT ![b].pairs = @ \ {p}] => body'[b].pc = "dispatch"
      BY <1>0, <2>1 DEF Shape, IsBody, Fields
    <3>4. AssignTask(p[2], p[1])
      BY <3>1, <3>2, <3>3
    <3> QED
      BY <3>1, <3>4 DEF Assigns
  <2>4. CASE body' = [body EXCEPT ![b].pairs = @ \ {p}]
    BY <1>0, <2>1, <2>4 DEF Shape, IsBody, Fields
  <2> QED
    BY <2>2, <2>3, <2>4
<1>5. CASE StartPair(b)
  <2>1. body[b].pc = "assigned"
    BY <1>5 DEF StartPair
  <2>2. body' = RolledBack(b)
          \/ \E u \in Tasks, s \in Sessions :
               /\ StartRun(body[b].pair[2], u, s)
               /\ body' = [body EXCEPT ![b].pc = "starting", ![b].session = s]
    BY <1>5, Zenon DEF StartPair
  <2>3. ASSUME NEW u \in Tasks, NEW s \in Sessions, StartRun(body[b].pair[2], u, s),
               body' = [body EXCEPT ![b].pc = "starting", ![b].session = s]
        PROVE  StartsPair(b)
    <3>1. body'[b].pc = "starting" /\ body'[b].pair = body[b].pair /\ body'[b].session = s
      BY <1>0, <2>3 DEF Shape, IsBody, Fields
    <3> QED
      BY <2>1, <2>3, <3>1 DEF StartsPair
  <2> QED
    BY <2>2, <2>3, RolledBackFacts
<1>6. CASE PairStarted(b) \/ PairFailed(b)
  <2>1. body' = Used(b) \/ body' = RolledBack(b)
    BY <1>6, Zenon DEF PairStarted, PairFailed
  <2> QED
    BY <2>1, UsedFacts, RolledBackFacts
<1>7. CASE NextReviewed(b) \/ NextBlocked(b)
  <2>1. PICK left : /\ IsBody(left) /\ left.pc \in {"reviewers", "unblock"}
                    /\ left.rearm = body[b].rearm /\ left.late = body[b].late
                    /\ \/ \E t : Reads(b, t, "selecting", left) \/ Reads(b, t, "asking", left)
                       \/ body' = [body EXCEPT ![b] = left]
    <3>1. CASE NextReviewed(b)
      <4>1. body[b].pc = "reviewers"
        BY <3>1, Zenon DEF NextReviewed
      <4>2. PICK t \in body[b].reviewers :
                LET left == [body[b] EXCEPT !.reviewers = @ \ {t}] IN
                Reads(b, t, "selecting", left) \/ body' = [body EXCEPT ![b] = left]
        BY <3>1, Zenon DEF NextReviewed
      <4> DEFINE left == [body[b] EXCEPT !.reviewers = @ \ {t}]
      <4>3. /\ IsBody(left) /\ left.pc = "reviewers"
            /\ left.rearm = body[b].rearm /\ left.late = body[b].late
        BY <1>0, <4>1, EditFacts DEF IsBody, Fields
      <4>4. Reads(b, t, "selecting", left) \/ body' = [body EXCEPT ![b] = left]
        BY <4>2
      <4> HIDE DEF left
      <4> QED
        BY <4>3, <4>4
    <3>2. CASE NextBlocked(b)
      <4>1. body[b].pc = "unblock"
        BY <3>2, Zenon DEF NextBlocked
      <4>2. PICK t \in body[b].blocked :
                LET left == [body[b] EXCEPT !.blocked = @ \ {t}] IN
                Reads(b, t, "asking", left) \/ body' = [body EXCEPT ![b] = left]
        BY <3>2, Zenon DEF NextBlocked
      <4> DEFINE left == [body[b] EXCEPT !.blocked = @ \ {t}]
      <4>3. /\ IsBody(left) /\ left.pc = "unblock"
            /\ left.rearm = body[b].rearm /\ left.late = body[b].late
        BY <1>0, <4>1, EditFacts DEF IsBody, Fields
      <4>4. Reads(b, t, "asking", left) \/ body' = [body EXCEPT ![b] = left]
        BY <4>2
      <4> HIDE DEF left
      <4> QED
        BY <4>3, <4>4
    <3> QED
      BY <1>7, <3>1, <3>2
  <2>2. ASSUME NEW t, NEW pc \in {"selecting", "asking"}, Reads(b, t, pc, left)
        PROVE  Elsewhere
    <3>1. body'[b].pc = pc
      BY <2>1, <2>2, ReadsFacts
    <3> QED
      BY <3>1
  <2>3. CASE body' = [body EXCEPT ![b] = left]
    BY <2>1, <2>3 DEF Shape
  <2> QED
    BY <2>1, <2>2, <2>3
<1>8. CASE ReviewersSelected(b) \/ UnblockAnswered(b)
  <2>1. \/ body' = [body EXCEPT ![b].pc = "reviewers", ![b].held = None]
        \/ body' = [body EXCEPT ![b].pc = "unblock", ![b].held = None]
    BY <1>8, Zenon DEF ReviewersSelected, UnblockAnswered
  <2> QED
    BY <1>2, <2>1
<1> QED
  BY <1>3, <1>4, <1>5, <1>6, <1>7, <1>8 DEF BodyStep

\* A step that is not the body's: no run that is starting goes on, except by itself.
LEMMA StartStays ==
    ASSUME FilesOK, NEW s \in Sessions, session[s].state = "starting",
           \/ UserStep \/ ReviewStep
           \/ \E r \in Sessions \ {s} : RunStep(r)
           \/ \E r \in Sessions : Promote(r) \/ Block(r)
           \/ \E a \in Agents : Reconcile(a)
    PROVE  session'[s].state = "starting" /\ session'[s].agent = session[s].agent
<1> DEFINE Stays == session'[s].state = "starting" /\ session'[s].agent = session[s].agent
<1>1. ASSUME UNCHANGED session \/ \E x : session' = StopExecution(x)
      PROVE  Stays
  BY <1>1, StopExecutionFacts
<1>2. ASSUME NEW a \in Agents, NEW t \in Tasks, NEW r \in Sessions, StartRun(a, t, r)
      PROVE  Stays
  BY <1>2 DEF StartRun, FilesOK
<1>3. CASE UserStep
  <2>1. \/ \E a \in Agents : Start(a)
        \/ UNCHANGED session \/ \E x : session' = StopExecution(x)
    BY <1>3 DEF UserStep, UnassignTask, StopAgent, DeleteAgent, AssignTask, UpdateTask,
                DeleteTask, KickBack, KillTerminal
  <2> QED
    BY <1>1, <1>2, <2>1 DEF Start
<1>4. CASE ReviewStep
  <2>1. \/ \E a \in Agents, t \in Tasks : RestartDue(a, t)
        \/ UNCHANGED session
    BY <1>4 DEF ReviewStep, ReviewApproves, ReviewRejects, ComplexityAssessed
  <2> QED
    BY <1>1, <1>2, <2>1 DEF RestartDue
<1>5. ASSUME NEW r \in Sessions \ {s}, RunStep(r)
      PROVE  Stays
  <2>1. \A q \in Sessions \ {r} : session'[q] = session[q]
    BY <1>5 DEF RunStep, MastraImported, PtyCreated, PtyDiscarded, SessionExits,
                StaleSessionExits, StreamEnds, FilesOK
  <2> QED
    BY <1>5, <2>1
<1>6. CASE (\E r \in Sessions : Promote(r) \/ Block(r)) \/ \E a \in Agents : Reconcile(a)
  BY <1>1, <1>6 DEF Promote, Block, Reconcile
<1> QED
  BY <1>3, <1>4, <1>5, <1>6

\* A step that tries no pair.
TriesNothing ==
    \A b \in Bodies :
        \/ body'[b].pc \notin {"assigned", "starting"}
        \/ body'[b].pc = body[b].pc /\ body'[b].pair = body[b].pair
           /\ body'[b].session = body[b].session

LEMMA TickTriesNothing ==
    ASSUME Shape, NEW rearm, NEW armed, NEW armedAtEnd, Tick(rearm, armed, armedAtEnd)
    PROVE  TriesNothing
<1>1. Picture(rearm).pc \in {"scoring", "dispatch"}
  BY DEF Picture, NoBody
<1>2. UNCHANGED body \/ \E b \in Bodies : body' = [body EXCEPT ![b] = Picture(rearm)]
  BY DEF Tick
<1> QED
  BY <1>1, <1>2 DEF TriesNothing, Shape

LEMMA ControlTriesNothing ==
    ASSUME Shape,
           \/ TimerFires \/ ForceTick \/ \E b \in Bodies : Deadline(b)
           \/ Toggle \/ SetConfig \/ EditConfig \/ ConfigHandled \/ UNCHANGED allVars
    PROVE  TriesNothing /\ UNCHANGED <<agent, session>>
<1>1. UNCHANGED <<agent, session>>
  BY Zenon DEF TimerFires, ForceTick, Deadline, Toggle, SetConfig, EditConfig, ConfigHandled,
               allVars, vars
<1>2. UNCHANGED body => TriesNothing
  BY DEF TriesNothing
<1>3. CASE TimerFires \/ ForceTick
  BY <1>1, <1>3, TickTriesNothing DEF TimerFires, ForceTick
<1>4. ASSUME NEW b \in Bodies, Deadline(b)
      PROVE  TriesNothing
  <2>1. IsBody(body[b]) /\ body' = [body EXCEPT ![b] = [body[b] EXCEPT !.late = TRUE]]
    BY <1>4 DEF Deadline, Shape
  <2> DEFINE n == [body[b] EXCEPT !.late = TRUE]
  <2>2. n.pc = body[b].pc /\ n.pair = body[b].pair /\ n.session = body[b].session
    BY <2>1, EditFacts DEF Fields
  <2> HIDE DEF n
  <2>3. body' = [body EXCEPT ![b] = n]
    BY <2>1 DEF n
  <2> QED
    BY <2>2, <2>3 DEF TriesNothing, Shape
<1>5. ASSUME Starts \/ Stops PROVE TriesNothing
  BY <1>2, <1>5, TickTriesNothing DEF Starts, Stops
<1>6. CASE Toggle \/ SetConfig \/ EditConfig \/ ConfigHandled \/ UNCHANGED allVars
  <2>1. UNCHANGED body \/ Starts \/ Stops
    BY <1>6, Zenon DEF Toggle, SetConfig, EditConfig, ConfigHandled, allVars, dispatcher
  <2> QED
    BY <1>1, <1>2, <1>5, <2>1
<1> QED
  BY <1>1, <1>3, <1>4, <1>6

LEMMA PairsHeldStep ==
    ASSUME WorkInv, PairsHeld, [DispatcherNext]_allVars
    PROVE  PairsHeld'
<1>0. Shape /\ OneTickBody /\ FilesOK /\ BodiesFit'
  BY BodiesStep DEF WorkInv, TickInv, TypeInv
<1>1. ASSUME NEW b \in Bodies, BodyStep(b)
      PROVE  PairsHeld'
  <2>1. Active(b) /\ \A c \in Bodies \ {b} : body'[c] = body[c]
    BY <1>0, <1>1, BodyStepFacts DEF GoesOn, GoesTo, Ends, BodyEnds, Shape
  <2>2. \A c \in Bodies \ {b} : PairHeld(c)'
    BY <1>0, <2>1 DEF OneTickBody, Active, PairHeld
  <2>3. CASE body'[b].pc \notin {"assigned", "starting"}
    BY <2>2, <2>3 DEF PairsHeld, PairHeld
  <2>4. CASE Assigns(b)
    <3>1. body'[b].pc = "assigned" /\ body'[b].pair[2] \in Agents
      BY <1>0, <2>4 DEF BodiesFit, Fits, Assigns, Pairs
    <3>2. Startable(body'[b].pair[2]) /\ agent'[body'[b].pair[2]].status = agent[body'[b].pair[2]].status
      <4> DEFINE c == body'[b].pair[2]
      <4>1. AssignTask(c, body'[b].pair[1]) /\ c \in Agents /\ agent[c] \in AgentRecord
        BY <1>0, <2>4, <3>1 DEF Assigns, FilesOK
      <4> HIDE DEF c
      <4>2. Startable(c) /\ agent'[c] = [agent[c] EXCEPT !.task = body'[b].pair[1]]
        BY <4>1 DEF AssignTask
      <4>3. agent'[c].status = agent[c].status
        BY <4>1, <4>2 DEF AgentRecord
      <4> QED
        BY <4>2, <4>3 DEF c
    <3>3. PairHeld(b)'
      BY <3>1, <3>2 DEF PairHeld, Startable
    <3> QED
      BY <2>2, <3>3 DEF PairsHeld
  <2>5. CASE StartsPair(b)
    <3> DEFINE s == body'[b].session
    <3>1. body'[b].pc = "starting" /\ s \in Sessions /\ body'[b].pair = body[b].pair
      BY <1>0, <2>5 DEF BodiesFit, Fits, StartsPair
    <3>2. session'[s].state = "starting" /\ session'[s].agent = body[b].pair[2]
      BY <1>0, <2>5, <3>1 DEF StartsPair, StartRun, FilesOK
    <3>3. PairHeld(b)'
      BY <3>1, <3>2 DEF PairHeld
    <3> QED
      BY <2>2, <3>3 DEF PairsHeld
  <2> QED
    BY <1>0, <1>1, <2>3, <2>4, <2>5, BodyPhase
<1>2. CASE \/ TimerFires \/ ForceTick \/ \E b \in Bodies : Deadline(b)
           \/ Toggle \/ SetConfig \/ EditConfig \/ ConfigHandled \/ UNCHANGED allVars
  <2>1. TriesNothing /\ UNCHANGED <<agent, session>>
    BY <1>0, <1>2, ControlTriesNothing
  <2> QED
    BY <2>1 DEF TriesNothing, PairsHeld, PairHeld, Startable
<1>3. CASE ~InTurn /\ Others
  <2> SUFFICES ASSUME NEW b \in Bodies PROVE PairHeld(b)'
    BY DEF PairsHeld
  <2>1. body'[b] = body[b] /\ body[b].pc # "assigned"
    BY <1>3 DEF Others, dispatcher, InTurn
  <2>2. CASE body[b].pc = "starting"
    <3> DEFINE s == body[b].session
    <3>1. /\ s \in Sessions /\ session[s].state = "starting"
          /\ session[s].agent = body[b].pair[2]
      BY <2>2 DEF WorkInv, BodiesFit, Fits, PairsHeld, PairHeld
    <3>2. \/ UserStep \/ ReviewStep
          \/ \E r \in Sessions \ {s} : RunStep(r)
          \/ \E r \in Sessions : Promote(r) \/ Block(r)
          \/ \E a \in Agents : Reconcile(a)
      BY <1>3, <2>2 DEF Others, NotAwaited
    <3>3. session'[s].state = "starting" /\ session'[s].agent = session[s].agent
      BY <1>0, <3>1, <3>2, StartStays
    <3> QED
      BY <2>1, <2>2, <3>1, <3>3 DEF PairHeld
  <2>3. CASE body[b].pc # "starting"
    BY <2>1, <2>3 DEF PairHeld
  <2> QED
    BY <2>2, <2>3
<1>4. CASE RestartAll
  <2>1. body' = [b \in Bodies |-> NoBody]
    BY <1>4 DEF RestartAll
  <2> QED
    BY <2>1, NoBodyFacts DEF PairsHeld, PairHeld
<1> QED
  BY <1>1, <1>2, <1>3, <1>4 DEF DispatcherNext

LEMMA PairsHeldInit == DispatcherInit => PairsHeld
<1> SUFFICES ASSUME DispatcherInit PROVE PairsHeld
  OBVIOUS
<1>1. \A b \in Bodies : body[b] = NoBody
  BY Zenon DEF DispatcherInit
<1> QED
  BY <1>1, NoBodyFacts DEF PairsHeld, PairHeld

-----------------------------------------------------------------------------
(* No PTY is orphaned and no run ended by another one's end, with the       *)
(* dispatcher starting and rolling back.                                    *)

\* A Mastra run that is starting is the one its agent is in, if the agent runs.
MastraStartsAlone ==
    \A s \in Sessions : session[s].state = "starting" /\ ~IsPty(s) =>
        /\ agent[session[s].agent].status = "running" => agent[session[s].agent].session = s
        /\ \A r \in Sessions \ {s} :
             session[r].state = "starting" => session[r].agent # session[s].agent

LEMMA MastraStep == TypeInv /\ MastraStartsAlone /\ [Next]_vars => MastraStartsAlone'
<1> SUFFICES ASSUME TypeInv, MastraStartsAlone, [Next]_vars
             PROVE  MastraStartsAlone'
  OBVIOUS
<1> FilesOK /\ RunsOK
  BY DEF TypeInv
<1> USE DEF MastraStartsAlone, IsPty, RunsOK, Underway
<1>1. CASE QuietStep
  <2> SUFFICES ASSUME NEW s \in Sessions, session'[s].state = "starting", ~IsPty(s)'
               PROVE  /\ agent'[session'[s].agent].status = "running"
                           => agent'[session'[s].agent].session = s
                      /\ \A r \in Sessions \ {s} :
                           session'[r].state = "starting" => session'[r].agent # session'[s].agent
    OBVIOUS
  <2>1. NoRunBegins /\ AgentsLetGo
    BY <1>1, QuietNoRun, QuietLetsGo
  <2>2. \A r \in Sessions : session'[r].state = "starting" =>
          session[r].state = "starting" /\ session'[r].agent = session[r].agent
    BY <2>1 DEF NoRunBegins
  <2>3. session[s].agent \in Agents
    BY <2>2
  <2> QED
    BY <2>1, <2>2, <2>3 DEF AgentsLetGo
<1>2. ASSUME NEW a \in Agents, StartStep(a)
      PROVE  MastraStartsAlone'
  <2>1. PICK t \in Tasks, s \in Sessions : StartRun(a, t, s)
    BY <1>2 DEF StartStep
  <2>2. /\ session'[s].state = "starting" /\ session'[s].agent = a
        /\ \A r \in Sessions \ {s} : session'[r] = session[r]
    BY <2>1 DEF StartRun, FilesOK
  <2>3. \A r \in Sessions : session[r].state = "starting" => session[r].agent # a
    BY <2>1 DEF StartRun, Starting
  <2>4. /\ \A b \in Agents \ {a} : agent'[b] = agent[b]
        /\ a \in MastraAgents => agent'[a].session = s
    BY <2>1 DEF StartRun, FilesOK
  <2> QED
    BY <2>2, <2>3, <2>4
<1>3. ASSUME NEW s \in Sessions, MastraImported(s)
      PROVE  MastraStartsAlone'
  <2>1. /\ session'[s].state # "starting" /\ UNCHANGED agent
        /\ \A r \in Sessions \ {s} : session'[r] = session[r]
    BY <1>3, RecordValues DEF MastraImported, FilesOK, SessionRecord
  <2> QED
    BY <2>1
<1>4. ASSUME NEW s \in Sessions, PtyCreated(s)
      PROVE  MastraStartsAlone'
  <2>1. /\ session'[s].state = "live"
        /\ \A r \in Sessions \ {s} : session'[r] = session[r]
        /\ session[s].agent \in Agents \ MastraAgents
    BY <1>4 DEF PtyCreated, FilesOK, SessionRecord
  <2>2. \A b \in Agents \ {session[s].agent} : agent'[b] = agent[b]
    BY <1>4 DEF PtyCreated, FilesOK
  <2> QED
    BY <2>1, <2>2
<1>5. CASE UNCHANGED <<agent, task, session, assessed>>
  BY <1>5
<1> QED
  BY <1>1, <1>2, <1>3, <1>4, <1>5, NextCases

\* The agent of a pair that is rolled back does not run: it was not started, or its
\* start is not over, or it was stopped meanwhile.
RunsHeld == WorkInv /\ PairsHeld /\ LiveInv /\ MastraStartsAlone /\ RunningInv

\* A roll back as the code does it: of a Mastra run only if its agent has left it.
RollsBackRightly(b) ==
    /\ RollsBack(b)
    /\ body[b].pc = "starting" => IsPty(body[b].session) \/ ~OwnsAgent(body[b].session)

LEMMA StepWithRollBack ==
    ASSUME BodiesFit, [DispatcherNext]_allVars
    PROVE  [Next]_vars \/ \E b \in Bodies : RollsBackRightly(b) \/ WritesBack(b)
<1>1. ASSUME NEW b \in Bodies, BodyStep(b), RollsBack(b), ~[Next]_vars
      PROVE  RollsBackRightly(b) \/ WritesBack(b)
  <2>1. body[b].pc \in {"assigned", "starting"}
    BY <1>1 DEF RollsBack
  <2>2. CASE body[b].pc = "assigned"
    BY <1>1, <2>2 DEF RollsBackRightly
  <2>3. CASE body[b].pc = "starting"
    <3>1. PairStarted(b) \/ PairFailed(b)
      BY <1>1, <2>3, Zenon
      DEF BodyStep, Scored, AssignPair, Dispatching, StartPair, DispatchEnds, NextReviewed,
          ReviewersSelected, ReviewersEnd, NextBlocked, UnblockAnswered, UnblockEnds
    <3>2. CASE PairFailed(b)
      BY <1>1, <2>3, <3>2, Zenon DEF PairFailed, RollsBackRightly
    <3>3. CASE PairStarted(b)
      <4>1. body[b].session \in Sessions
        BY <2>3 DEF BodiesFit, Fits
      <4>2. PtyCreated(body[b].session) \/ MastraImported(body[b].session)
        BY <3>3 DEF PairStarted
      <4> QED
        BY <1>1, <4>1, <4>2 DEF Next, RunStep
    <3> QED
      BY <3>1, <3>2, <3>3
  <2> QED
    BY <2>1, <2>2, <2>3
<1>2. CASE \E b \in Bodies : BodyStep(b)
  BY <1>1, <1>2, BodyOnAgents
<1>3. CASE ~\E b \in Bodies : BodyStep(b)
  BY <1>3, Zenon
  DEF DispatcherNext, Others, RestartAll, Next, TimerFires, ForceTick, Toggle, SetConfig,
      EditConfig, ConfigHandled, Deadline, allVars
<1> QED
  BY <1>2, <1>3

LEMMA RolledBackIsStill ==
    ASSUME RunsHeld, NEW b \in Bodies, RollsBackRightly(b)
    PROVE  /\ body[b].pair \in Pairs
           /\ agent[body[b].pair[2]].status # "running"
           /\ \A s \in Sessions : session'[s] = session[s] \/ session'[s].state = "gone"
           /\ NoRunBegins
           /\ \A a \in Agents : /\ agent'[a].session = agent[a].session
                                /\ a # body[b].pair[2] => agent'[a] = agent[a]
                                /\ agent'[a].status = agent[a].status \/ agent'[a].status = "idle"
<1> DEFINE a == body[b].pair[2]
           s == body[b].session
<1>0. /\ FilesOK /\ RunsOK /\ Fits(body[b], attempts) /\ PairHeld(b)
      /\ body[b].pc \in {"assigned", "starting"}
  BY DEF RunsHeld, WorkInv, TypeInv, BodiesFit, PairsHeld, RollsBackRightly, RollsBack
<1>1. body[b].pair \in Pairs /\ a \in Agents
  BY <1>0 DEF Fits, Pairs
<1>2. agent[a].status # "running"
  <2>1. CASE body[b].pc = "assigned"
    BY <1>0, <2>1 DEF PairHeld, Startable
  <2>2. CASE body[b].pc = "starting"
    <3>1. s \in Sessions /\ session[s].state = "starting" /\ session[s].agent = a
      BY <1>0, <2>2 DEF Fits, PairHeld
    <3>2. CASE IsPty(s)
      BY <3>1, <3>2 DEF RunsHeld, LiveInv, OneStartAtATime
    <3>3. CASE ~IsPty(s)
      BY <2>2, <3>1, <3>3 DEF RunsHeld, MastraStartsAlone, RollsBackRightly, OwnsAgent
    <3> QED
      BY <3>2, <3>3
  <2> QED
    BY <1>0, <2>1, <2>2
<1>3. UNCHANGED session \/ \E r \in Sessions : session' = [session EXCEPT ![r] = Gone]
  BY <1>0 DEF RollsBackRightly, RollsBack, Fits
<1>4. \A r \in Sessions : session'[r] = session[r] \/ session'[r].state = "gone"
  BY <1>0, <1>3, RecordValues DEF FilesOK
<1>5. NoRunBegins
  BY <1>0, <1>3, QuietSessions
<1>6. \A c \in Agents : /\ agent'[c].session = agent[c].session
                        /\ c # a => agent'[c] = agent[c]
                        /\ agent'[c].status = agent[c].status \/ agent'[c].status = "idle"
  BY <1>0, <1>1 DEF RollsBackRightly, RollsBack, Unassigned, Freed, FilesOK, AgentRecord
<1> QED
  BY <1>1, <1>2, <1>4, <1>5, <1>6

LEMMA RunsHeldStep == RunsHeld /\ [DispatcherNext]_allVars => RunsHeld'
<1> SUFFICES ASSUME RunsHeld, [DispatcherNext]_allVars
             PROVE  RunsHeld'
  OBVIOUS
<1>0. /\ WorkInv /\ PairsHeld /\ LiveInv /\ MastraStartsAlone /\ RunningInv
      /\ TypeInv /\ FilesOK /\ RunsOK /\ BodiesFit
  BY DEF RunsHeld, WorkInv, TypeInv
<1>1. WorkInv' /\ PairsHeld'
  BY <1>0, WorkStep, PairsHeldStep
<1>2. CASE [Next]_vars
  <2>1. LiveInv' /\ MastraStartsAlone' /\ RunningInv'
    BY <1>0, <1>2, LiveStep, MastraStep, RunningStep
  <2> QED
    BY <1>1, <2>1 DEF RunsHeld
<1>3. ASSUME NEW b \in Bodies, RollsBackRightly(b)
      PROVE  RunsHeld'
  <2>1. /\ body[b].pair \in Pairs
        /\ agent[body[b].pair[2]].status # "running"
        /\ \A s \in Sessions : session'[s] = session[s] \/ session'[s].state = "gone"
        /\ \A a \in Agents : /\ agent'[a].session = agent[a].session
                             /\ a # body[b].pair[2] => agent'[a] = agent[a]
                             /\ agent'[a].status = agent[a].status \/ agent'[a].status = "idle"
    BY <1>3, RolledBackIsStill
  <2>2. /\ \A s \in Sessions : session[s].state \in {"starting", "live"} => session[s].agent \in Agents
        /\ \A a \in Agents : agent'[a].status = "running" <=> agent[a].status = "running"
    BY <1>0, <2>1 DEF RunsOK, Underway
  <2>3. LivePtyIsOwned'
    BY <1>0, <2>1, <2>2 DEF LiveInv, LivePtyIsOwned, OwnsAgent, IsPty
  <2>4. OneStartAtATime'
    BY <1>0, <2>1, <2>2 DEF LiveInv, OneStartAtATime, IsPty
  <2>5. MastraStartsAlone'
    BY <1>0, <2>1, <2>2 DEF MastraStartsAlone, IsPty
  <2>6. RunningInv'
    BY <1>0, <2>1, <2>2 DEF RunningInv
  <2> QED
    BY <1>1, <2>3, <2>4, <2>5, <2>6 DEF RunsHeld, LiveInv
<1>4. ASSUME NEW b \in Bodies, WritesBack(b)
      PROVE  RunsHeld'
  <2>1. UNCHANGED <<agent, session>>
    BY <1>4 DEF WritesBack
  <2>2. LiveInv' /\ MastraStartsAlone' /\ RunningInv'
    BY <1>0, <2>1
    DEF LiveInv, LivePtyIsOwned, OneStartAtATime, MastraStartsAlone, RunningInv, OwnsAgent, IsPty
  <2> QED
    BY <1>1, <2>2 DEF RunsHeld
<1> QED
  BY <1>0, <1>2, <1>3, <1>4, StepWithRollBack

LEMMA RunsHeldInit == DispatcherInit => RunsHeld
<1> SUFFICES ASSUME DispatcherInit PROVE RunsHeld
  OBVIOUS
<1>1. Init
  BY Zenon DEF DispatcherInit
<1>2. LiveInv /\ MastraStartsAlone /\ RunningInv
  BY <1>1, RecordValues
  DEF Init, LiveInv, LivePtyIsOwned, OneStartAtATime, MastraStartsAlone, RunningInv, IdleAgent
<1> QED
  BY <1>2, WorkInit, PairsHeldInit DEF RunsHeld

\* With the dispatcher at work no PTY is orphaned either: what a tick starts, and what
\* it rolls back when it waited in vain, leaves every live PTY to an agent that knows
\* it is running.
THEOREM NoDispatchedPtyIsOrphaned == DispatcherSpec => []LivePtyIsOwned
<1>1. RunsHeld => LivePtyIsOwned
  BY DEF RunsHeld, LiveInv
<1> QED
  BY <1>1, RunsHeldInit, RunsHeldStep, PTL DEF DispatcherSpec

\* Nor does a tick end a run: an agent stops running only if its own run ended or was
\* stopped, or moved its own task on, and not because a pair is rolled back.
THEOREM TicksSpareRuns == DispatcherSpec => NewRunSurvivesOldExit
<1>1. RunsHeld /\ [DispatcherNext]_allVars => [OnlyOwnRunsEnd]_vars
  <2> SUFFICES ASSUME RunsHeld, [DispatcherNext]_allVars
               PROVE  OnlyOwnRunsEnd
    OBVIOUS
  <2>1. TypeInv /\ RunningInv /\ BodiesFit
    BY DEF RunsHeld, WorkInv
  <2>2. ASSUME NEW b \in Bodies, RollsBackRightly(b)
        PROVE  OnlyOwnRunsEnd
    <3>1. \A a \in Agents : agent[a].status = "running" => agent'[a] = agent[a]
      BY <2>2, RolledBackIsStill
    <3> QED
      BY <3>1 DEF OnlyOwnRunsEnd, StopsRunning
  <2>3. ASSUME NEW b \in Bodies, WritesBack(b)
        PROVE  OnlyOwnRunsEnd
    BY <2>3 DEF WritesBack, OnlyOwnRunsEnd, StopsRunning
  <2> QED
    BY <2>1, <2>2, <2>3, StepWithRollBack, OnlyOwnRunsEndStep
<1>2. RunsHeld /\ [DispatcherNext]_allVars =>
        [ \A a \in Agents :
            agent[a].status = "running" /\ agent'[a].status # "running"
            => LET s == agent[a].session
                   t == session[s].task
               IN  \/ session'[s].state \in {"starting", "told", "gone"}
                   \/ task[t].session = s /\ task[t].status = "in_progress"
                      /\ task'[t].status # "in_progress" ]_vars
  BY <1>1 DEF OnlyOwnRunsEnd, StopsRunning, EndsOwnRun
<1> QED
  BY <1>2, RunsHeldInit, RunsHeldStep, PTL DEF DispatcherSpec, NewRunSurvivesOldExit

-----------------------------------------------------------------------------
(* The two files agree with the dispatcher at work, as long as no model is  *)
(* asked for reviewers or about a blocked task.                             *)

\* Without these phases no body has a task to write back.
ReadsNothing(b) ==
    /\ body[b].reviewers = {} /\ body[b].blocked = {}
    /\ body[b].pc \notin {"selecting", "asking"}

NothingRead == \A b \in Bodies : ReadsNothing(b)

LEMMA BodyReadsNothing ==
    ASSUME Shape, NEW b \in Bodies, ReadsNothing(b), BodyStep(b)
    PROVE  ReadsNothing(b)'
<1>0. IsBody(body[b])
  BY DEF Shape
<1>1. ASSUME BodyEnds(b) PROVE ReadsNothing(b)'
  BY <1>1 DEF BodyEnds, Shape, ReadsNothing, NoBody
<1>2. ASSUME NEW pc \in {"dispatch", "reviewers", "unblock", "starting"}, NEW prs, NEW s,
             \/ body' = [body EXCEPT ![b].pc = pc] \/ body' = [body EXCEPT ![b].pc = pc, ![b].session = s]
             \/ body' = [body EXCEPT ![b].pc = pc, ![b].pairs = prs]
      PROVE  ReadsNothing(b)'
  BY <1>0, <1>2 DEF Shape, IsBody, Fields, ReadsNothing
<1>3. CASE Scored(b) \/ DispatchEnds(b) \/ ReviewersEnd(b) \/ UnblockEnds(b)
  <2>1. \/ BodyEnds(b) \/ body' = [body EXCEPT ![b].pc = "dispatch"]
        \/ body' = [body EXCEPT ![b].pc = "unblock"]
        \/ body' = [body EXCEPT ![b].pc = "reviewers", ![b].pairs = {}]
    BY <1>3, Zenon DEF Scored, DispatchEnds, ReviewersEnd, UnblockEnds
  <2> QED
    BY <1>1, <1>2, <2>1
<1>4. CASE AssignPair(b)
  <2>1. body[b].pc = "dispatch"
    BY <1>4 DEF AssignPair, Dispatching
  <2>2. PICK p \in body[b].pairs :
          \/ body' = [body EXCEPT ![b].pc = "assigned", ![b].pair = p, ![b].slots = @ - 1]
          \/ body' = [body EXCEPT ![b].pairs = @ \ {p}]
    BY <1>4, Zenon DEF AssignPair
  <2>3. CASE body' = [body EXCEPT ![b].pc = "assigned", ![b].pair = p, ![b].slots = @ - 1]
    BY <1>0, <2>3 DEF Shape, IsBody, Fields, ReadsNothing
  <2>4. CASE body' = [body EXCEPT ![b].pairs = @ \ {p}]
    BY <1>0, <2>1, <2>4 DEF Shape, IsBody, Fields, ReadsNothing
  <2> QED
    BY <2>2, <2>3, <2>4
<1>5. CASE StartPair(b) \/ PairStarted(b) \/ PairFailed(b)
  <2>1. \/ body' = Used(b) \/ body' = RolledBack(b)
        \/ \E s \in Sessions : body' = [body EXCEPT ![b].pc = "starting", ![b].session = s]
    BY <1>5, Zenon DEF StartPair, PairStarted, PairFailed
  <2>2. CASE body' = Used(b) \/ body' = RolledBack(b)
    BY <2>2, UsedFacts, RolledBackFacts DEF ReadsNothing
  <2> QED
    BY <1>2, <2>1, <2>2
<1>6. CASE \/ NextReviewed(b) \/ NextBlocked(b) \/ ReviewersSelected(b) \/ UnblockAnswered(b)
  BY <1>6, Zenon
  DEF NextReviewed, NextBlocked, ReviewersSelected, UnblockAnswered, ReadsNothing
<1> QED
  BY <1>3, <1>4, <1>5, <1>6 DEF BodyStep

LEMMA TickReadsNothing ==
    ASSUME ~AssignsReviewers, ~Unblocks, Shape, NothingRead,
           NEW rearm, NEW armed, NEW armedAtEnd, Tick(rearm, armed, armedAtEnd)
    PROVE  NothingRead'
<1>1. /\ Picture(rearm).reviewers = {} /\ Picture(rearm).blocked = {}
      /\ Picture(rearm).pc \in {"scoring", "dispatch"}
  BY DEF Picture, NoBody
<1>2. UNCHANGED body \/ \E b \in Bodies : body' = [body EXCEPT ![b] = Picture(rearm)]
  BY DEF Tick
<1> QED
  BY <1>1, <1>2 DEF NothingRead, ReadsNothing, Shape

LEMMA NothingReadStep ==
    ASSUME ~AssignsReviewers, ~Unblocks, TickInv, NothingRead, [DispatcherNext]_allVars
    PROVE  NothingRead'
<1>0. Shape
  BY DEF TickInv
<1>1. ASSUME NEW b \in Bodies, BodyStep(b)
      PROVE  NothingRead'
  <2>1. \A c \in Bodies \ {b} : body'[c] = body[c]
    BY <1>0, <1>1, BodyStepFacts DEF GoesOn, GoesTo, Ends, BodyEnds, Shape
  <2>2. ReadsNothing(b)'
    BY <1>0, <1>1, BodyReadsNothing DEF NothingRead
  <2>3. \A c \in Bodies \ {b} : ReadsNothing(c)'
    BY <2>1 DEF NothingRead, ReadsNothing
  <2> QED
    BY <2>2, <2>3 DEF NothingRead
<1>2. CASE TimerFires \/ ForceTick
  BY <1>0, <1>2, TickReadsNothing DEF TimerFires, ForceTick
<1>3. ASSUME NEW b \in Bodies, Deadline(b)
      PROVE  NothingRead'
  <2> DEFINE n == [body[b] EXCEPT !.late = TRUE]
  <2>1. IsBody(body[b]) /\ body' = [body EXCEPT ![b] = n]
    BY <1>0, <1>3 DEF Deadline, Shape
  <2>2. n.pc = body[b].pc /\ n.reviewers = body[b].reviewers /\ n.blocked = body[b].blocked
    BY <2>1, EditFacts DEF Fields
  <2> HIDE DEF n
  <2> QED
    BY <1>0, <2>1, <2>2 DEF NothingRead, ReadsNothing, Shape
<1>4. ASSUME Starts \/ Stops PROVE NothingRead'
  <2>1. UNCHANGED body \/ Tick(TRUE, FALSE, TRUE)
    BY <1>4 DEF Starts, Stops
  <2> QED
    BY <1>0, <2>1, TickReadsNothing DEF NothingRead, ReadsNothing
<1>5. CASE \/ Toggle \/ SetConfig \/ EditConfig \/ ConfigHandled \/ Others \/ UNCHANGED allVars
  <2>1. UNCHANGED body \/ Starts \/ Stops
    BY <1>5, Zenon DEF Toggle, SetConfig, EditConfig, ConfigHandled, Others, allVars, dispatcher
  <2> QED
    BY <1>4, <2>1 DEF NothingRead, ReadsNothing
<1>6. CASE RestartAll
  <2>1. body' = [b \in Bodies |-> NoBody]
    BY <1>6 DEF RestartAll
  <2> QED
    BY <2>1 DEF NothingRead, ReadsNothing, NoBody
<1> QED
  BY <1>1, <1>2, <1>3, <1>5, <1>6 DEF DispatcherNext

\* A roll back takes the pair out of both files, where it is still in them.
LEMMA RollBackAgrees ==
    ASSUME TypeInv, PointInv, NEW b \in Bodies, Fits(body[b], attempts), RollsBack(b)
    PROVE  PointInv'
<1> DEFINE t == body[b].pair[1]
           a == body[b].pair[2]
<1> FilesOK
  BY DEF TypeInv
<1>1. t \in Tasks /\ a \in Agents
  BY DEF Fits, RollsBack, Pairs
<1>2. Unassigned(a, t)
  BY DEF RollsBack
<1> HIDE DEF t, a
<1>3. \A c \in Agents, u \in Tasks : agent'[c].task = u =>
        agent[c].task = u /\ (c = a => u # t)
  BY <1>1, <1>2, ConstantsAssumption DEF Unassigned, Freed, FilesOK, AgentRecord
<1>4. \A u \in Tasks : /\ task'[u].status = task[u].status
                       /\ \/ task'[u].agent = task[u].agent
                          \/ u = t /\ task[u].agent = a
  BY <1>1, <1>2 DEF Unassigned, FilesOK, TaskRecord
<1>5. PointersAgree'
  BY <1>3, <1>4 DEF PointInv, PointersAgree, Exists
<1>6. \A c \in Agents : agent'[c].status = "deleted" => agent'[c] = agent[c]
  BY <1>1, <1>2 DEF Unassigned, Freed, FilesOK, AgentRecord
<1>7. DeletedAgentsAreFree'
  BY <1>6 DEF PointInv, DeletedAgentsAreFree
<1>8. UNCHANGED session \/ \E s \in Sessions : session' = [session EXCEPT ![s] = Gone]
  BY DEF RollsBack, Fits
<1>9. \A s \in Sessions : session'[s].state = "starting" => session'[s] = session[s]
  BY <1>8, RecordValues DEF FilesOK
<1>10. SeenByItsAgent'
  BY <1>9 DEF PointInv, SeenByItsAgent, IsPty
<1>11. assessed' = {}
  BY DEF PointInv, RollsBack, KeepsReviews
<1> QED
  BY <1>5, <1>7, <1>10, <1>11 DEF PointInv

\* With the dispatcher at work the files of agents and tasks still agree, through its
\* assignments and what it rolls back, if neither reviewers are chosen nor blocked tasks
\* asked about nor complexity assessed by a model: those write a task back as they read it.
THEOREM DispatchedFilesAgree ==
    ASSUME ~AssessesComplexity, ~AssignsReviewers, ~Unblocks
    PROVE  DispatcherSpec => []PointersAgree
<1> DEFINE IInv == WorkInv /\ NothingRead /\ PointInv
<1>1. DispatcherInit => IInv
  <2> SUFFICES ASSUME DispatcherInit PROVE IInv
    OBVIOUS
  <2>1. Init /\ \A b \in Bodies : body[b] = NoBody
    BY Zenon DEF DispatcherInit
  <2>2. PointInv
    BY <2>1, RecordValues, ConstantsAssumption
    DEF Init, PointInv, PointersAgree, DeletedAgentsAreFree, SeenByItsAgent, IdleAgent
  <2>3. NothingRead
    BY <2>1 DEF NothingRead, ReadsNothing, NoBody
  <2> QED
    BY <2>2, <2>3, WorkInit
<1>2. IInv /\ [DispatcherNext]_allVars => IInv'
  <2> SUFFICES ASSUME IInv, [DispatcherNext]_allVars PROVE IInv'
    OBVIOUS
  <2>1. WorkInv'
    BY WorkStep
  <2>2. NothingRead'
    BY NothingReadStep DEF WorkInv
  <2>3. CASE [Next]_vars
    BY <2>1, <2>2, <2>3, PointStep DEF WorkInv
  <2>4. ASSUME NEW b \in Bodies, RollsBack(b)
        PROVE  PointInv'
    BY <2>4, RollBackAgrees DEF WorkInv, BodiesFit
  <2>5. ASSUME NEW b \in Bodies
        PROVE  ~WritesBack(b)
    BY DEF WritesBack, NothingRead, ReadsNothing
  <2> QED
    BY <2>1, <2>2, <2>3, <2>4, <2>5, StepOnAgents DEF WorkInv
<1>3. IInv => PointersAgree
  BY DEF PointInv
<1> QED
  BY <1>1, <1>2, <1>3, PTL DEF DispatcherSpec

\* A roll back takes runs away from tasks, and ends only a run that is starting.
LEMMA RollBackRecords ==
    ASSUME RunsHeld, RecordInv, NEW b \in Bodies, RollsBackRightly(b)
    PROVE  RecordInv'
<1> DEFINE t == body[b].pair[1]
           a == body[b].pair[2]
<1>0. /\ FilesOK /\ Fits(body[b], attempts) /\ PairHeld(b) /\ RollsBack(b)
      /\ None \notin Sessions /\ None \notin MastraAgents
  BY ConstantsAssumption
  DEF RunsHeld, WorkInv, TypeInv, BodiesFit, PairsHeld, RollsBackRightly, Sessions
<1>1. t \in Tasks /\ a \in Agents /\ Unassigned(a, t)
  BY <1>0 DEF Fits, RollsBack, Pairs
<1> HIDE DEF t, a
<1>2. \A u \in Tasks : task'[u].session \in {task[u].session, None}
  BY <1>0, <1>1 DEF Unassigned, FilesOK, TaskRecord
<1>3. \/ UNCHANGED session
      \/ \E r \in Sessions : session[r].state = "starting" /\ session' = [session EXCEPT ![r] = Gone]
  BY <1>0 DEF RollsBack, Fits, PairHeld
<1>4. \A r \in Sessions :
        \/ session'[r] = session[r]
        \/ session[r].state = "starting" /\ session'[r].state = "gone" /\ session'[r].agent = None
  <2>1. Gone.state = "gone" /\ Gone.agent = None
    BY DEF Gone, NoSession
  <2> QED
    BY <1>0, <1>3, <2>1 DEF FilesOK
<1>5. InOrder'
  BY <1>4 DEF RecordInv, InOrder
<1>6. RecordedIsLatest'
  BY <1>0, <1>2, <1>4 DEF RecordInv, RecordedIsLatest, IsPty
<1> QED
  BY <1>5, <1>6 DEF RecordInv

\* A run that lost its task does not move it with the dispatcher at work either: the runs
\* it starts record themselves as the others do, and what it rolls back was not running.
THEOREM DispatchedRunsMoveTasks ==
    ASSUME ~AssessesComplexity, ~AssignsReviewers, ~Unblocks
    PROVE  DispatcherSpec => OnlyTheCurrentRunMovesATask
<1> DEFINE IInv == RunsHeld /\ NothingRead /\ PointInv /\ RecordInv
<1>1. DispatcherInit => IInv
  <2> SUFFICES ASSUME DispatcherInit PROVE IInv
    OBVIOUS
  <2>1. Init /\ NothingRead
    BY Zenon DEF DispatcherInit, NothingRead, ReadsNothing, NoBody
  <2>2. PointInv
    BY <2>1, RecordValues, ConstantsAssumption
    DEF Init, PointInv, PointersAgree, DeletedAgentsAreFree, SeenByItsAgent, IdleAgent
  <2>3. RecordInv
    BY <2>1, RecordValues DEF Init, RecordInv, InOrder, RecordedIsLatest
  <2> QED
    BY <2>1, <2>2, <2>3, RunsHeldInit
<1>2. IInv /\ [DispatcherNext]_allVars => IInv'
  <2> SUFFICES ASSUME IInv, [DispatcherNext]_allVars PROVE IInv'
    OBVIOUS
  <2>0. WorkInv /\ BodiesFit /\ TypeInv
    BY DEF RunsHeld, WorkInv
  <2>1. RunsHeld' /\ NothingRead'
    BY <2>0, RunsHeldStep, NothingReadStep DEF WorkInv
  <2>2. CASE [Next]_vars
    <3>1. PointInv' /\ RecordInv'
      BY <2>0, <2>2, PointStep, RecordStep DEF PointInv
    <3> QED
      BY <2>1, <3>1
  <2>3. ASSUME NEW b \in Bodies, RollsBackRightly(b)
        PROVE  PointInv' /\ RecordInv'
    <3>1. PointInv'
      BY <2>0, <2>3, RollBackAgrees DEF BodiesFit, RollsBackRightly
    <3>2. RecordInv'
      BY <2>0, <2>3, RollBackRecords
    <3> QED
      BY <3>1, <3>2
  <2>4. ASSUME NEW b \in Bodies
        PROVE  ~WritesBack(b)
    BY DEF WritesBack, NothingRead, ReadsNothing
  <2> QED
    BY <2>0, <2>1, <2>2, <2>3, <2>4, StepWithRollBack
<1>3. IInv => \A s \in Sessions : Promote(s) \/ Block(s) =>
        \A r \in Sessions : r > s /\ session[r].state = "live" =>
            session[r].task # session[s].task \/ ~OwnsAgent(r)
  <2> SUFFICES ASSUME IInv, NEW s \in Sessions, Promote(s) \/ Block(s),
                      NEW r \in Sessions, r > s, session[r].state = "live"
               PROVE  session[r].task # session[s].task
    OBVIOUS
  <2>1. /\ ~IsPty(s) /\ task[session[s].task].session = s /\ session[s].task \in Tasks
    BY DEF Promote, Block, OwnsTask, RunsHeld, WorkInv, TypeInv, RunsOK, Underway
  <2> QED
    BY <2>1 DEF RecordInv, RecordedIsLatest
<1>4. IInv /\ [DispatcherNext]_allVars =>
        [ \A s \in Sessions : Promote(s) \/ Block(s) =>
            \A r \in Sessions : r > s /\ session[r].state = "live" =>
                session[r].task # session[s].task \/ ~OwnsAgent(r) ]_vars
  BY <1>3
<1> QED
  BY <1>1, <1>2, <1>4, PTL DEF DispatcherSpec, OnlyTheCurrentRunMovesATask
=============================================================================
