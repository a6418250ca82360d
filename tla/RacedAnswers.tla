---------------------------- MODULE RacedAnswers ----------------------------
(***************************************************************************)
(* Answers to ask_user that race the end of the turn which asked           *)
(* (ipc/agent.ts, tools/ask-user.ts). A turn may be superseded, restarted  *)
(* in plan mode, stopped or dismissed while its question is open; the      *)
(* answer then arrives late, from any of several surfaces. It is owed to   *)
(* the turn that took over, through a handoff that the old turn leaves and *)
(* the new one claims, or to the conversation, as a labelled message or an *)
(* alert (the durable path), and to nobody after a Stop.                   *)
(*                                                                         *)
(* One conversation. Turns are numbered in the order of their tokens. What *)
(* an answer says, who may give it, the caps of the maps and the deletion  *)
(* of conversations are left out; so is what becomes of an answer once it  *)
(* is queued in the live turn, and of a message on the durable path.       *)
(***************************************************************************)
EXTENDS Integers

CONSTANTS
    Questions,   \* calls of ask_user
    MaxTurns,    \* bound: turns
    MaxRetries,  \* MAX_RACED_ANSWER_DELIVERY_RETRIES
    MaxStops,    \* bound: Stops and dismissals of a plan
    MaxFailures, \* bound: deliveries that fail or are blocked in a turn still live
    MaxExpiries, \* bound: times the TTL of something passes
    None

ASSUME BoundsAssumption ==
    /\ MaxTurns \in Nat /\ MaxRetries \in Nat /\ MaxStops \in Nat
    /\ MaxFailures \in Nat /\ MaxExpiries \in Nat

Turns == 1..MaxTurns
TurnOrNone == 0..MaxTurns

VARIABLES
    \* turns
    issued,      \* latestIssuedTurnToken, 0 before the first
    active,      \* token in activeStreams, or 0
    superseded,  \* supersededByToken, 0 for none
    stage,       \* where each turn is
    aborted,     \* turns whose controller was aborted
    terminal,    \* terminalAbortTokens
    \* questions
    asker,       \* the turn that asked, or 0
    gate,        \* where each question is in the turn that asked it
    \* the rendezvous
    rv,
    \* history, for the properties
    accepted,    \* questions an answer was accepted to
    stopped,     \* questions asked before a Stop
    void,        \* questions whose answer nobody is owed
    heir,        \* the turn that took over from each, or 0
    restarting,  \* turns that aborted themselves and await their restart
    \* bounds
    stops, failures, expiries

turnVars == <<issued, active, superseded, stage, aborted, terminal>>
questionVars == <<asker, gate>>
history == <<accepted, stopped, void, heir, restarting>>
bounds == <<stops, failures, expiries>>
vars == <<turnVars, questionVars, rv, history, bounds>>

\* A turn resolves its runtime between its start and its claim.
Stages == {"unborn", "starting", "mastra", "other", "ended"}

\* settled: the abort resolved the question, its continuation has not run;
\* inflight: the answer was consumed, the tool result is not committed.
Gates == {"unasked", "waiting", "settled", "inflight", "committed", "closed"}

\* RacedAnswerState: the cancel generation changed, or the TTL passed.
Handoff == [keys : SUBSET Questions, source : Turns, successor : TurnOrNone,
            stopped : BOOLEAN, expired : BOOLEAN]
Claimant == [token : Turns, keys : SUBSET Questions, stopped : BOOLEAN, expired : BOOLEAN,
             retries : 0..MaxRetries]
Delivery == [token : Turns, stopped : BOOLEAN, expired : BOOLEAN]

ASSUME NoneAssumption == None \notin Handoff \cup Claimant \cup Delivery

\* stash: pendingQuestionAnswers; given: how often an answer was handed over, and
\* receiver to which turn (0: by the durable path); pending: durable deliveries of
\* stashed answers under way; timers: retries that are due; strays (history): what a
\* claim took over from a claimant that a Stop had made void, or that its turn did not
\* take over from.
Rendezvous ==
    [handoff : Handoff \cup {None}, claimant : Claimant \cup {None},
     stash : SUBSET Questions, tombstones : SUBSET Questions,
     delivery : [Questions -> Delivery \cup {None}], pending : SUBSET Questions,
     timers : Nat, given : [Questions -> Nat], receiver : [Questions -> TurnOrNone],
     strays : SUBSET Questions]

TypeOK ==
    /\ issued \in TurnOrNone /\ active \in TurnOrNone
    /\ superseded \in [Turns -> TurnOrNone] /\ heir \in [Turns -> TurnOrNone]
    /\ stage \in [Turns -> Stages]
    /\ aborted \subseteq Turns /\ terminal \subseteq aborted /\ restarting \subseteq aborted
    /\ asker \in [Questions -> TurnOrNone] /\ gate \in [Questions -> Gates]
    /\ rv \in Rendezvous
    /\ accepted \subseteq Questions /\ stopped \subseteq void /\ void \subseteq Questions
    /\ stops \in Nat /\ failures \in Nat /\ expiries \in Nat

Init ==
    /\ issued = 0 /\ active = 0
    /\ superseded = [t \in Turns |-> 0] /\ heir = [t \in Turns |-> 0]
    /\ stage = [t \in Turns |-> "unborn"]
    /\ aborted = {} /\ terminal = {} /\ restarting = {}
    /\ asker = [q \in Questions |-> 0] /\ gate = [q \in Questions |-> "unasked"]
    /\ rv = [handoff |-> None, claimant |-> None, stash |-> {}, tombstones |-> {},
             delivery |-> [q \in Questions |-> None], pending |-> {}, timers |-> 0,
             given |-> [q \in Questions |-> 0], receiver |-> [q \in Questions |-> 0],
             strays |-> {}]
    /\ accepted = {} /\ stopped = {} /\ void = {}
    /\ stops = 0 /\ failures = 0 /\ expiries = 0

-----------------------------------------------------------------------------
(* The functions of the rendezvous, from a rendezvous to the next one.     *)

\* t is on the chain that starts at next[p]: in every set of turns that has this one
\* and, with each turn, the next.
Reaches(next, p, t) ==
    LET along(S) == \A u \in S : next[u] # 0 => next[u] \in S
    IN  /\ next[p] # 0
        /\ \A S \in SUBSET Turns : next[p] \in S /\ along(S) => t \in S

\* isSupersessionDescendant: t took over from p through a chain of aborts; mutated,
\* t only started later.
StartedLater(p, t) == t > p
Descends(p, t) == Reaches(superseded, p, t)

\* For the properties: t is p, or was left the questions of p, directly or through
\* others, by restarts too.
InheritsFrom(p, t) == t = p \/ Reaches(heir, p, t)

\* The newest turn took over from t and has not ended; mutated, it may have.
NewestTookOver(t) == issued # t /\ Descends(t, issued)
LiveSuccessor(t) == issued # t /\ stage[issued] # "ended" /\ Descends(t, issued)

\* racedStateInvalid; mutated, a Stop does not count.
TooOld(state) == state.expired
Invalid(state) == state.stopped \/ state.expired

\* recoverOrphanedAnswerKeys: what is stashed goes the durable way, for the rest a
\* tombstone waits.
Recover(s, keys) ==
    [s EXCEPT !.tombstones = (@ \ keys) \cup (keys \ s.stash),
              !.pending = @ \cup (keys \cap s.stash),
              !.given = [q \in Questions |-> @[q] + (IF q \in keys \cap s.stash THEN 1 ELSE 0)]]

\* It is called for what a handoff or a claimant holds when that is dropped.
RecoverHandoff(s) ==
    IF s.handoff = None THEN s ELSE Recover([s EXCEPT !.handoff = None], s.handoff.keys)
RecoverClaimant(s) ==
    IF s.claimant = None THEN s ELSE Recover([s EXCEPT !.claimant = None], s.claimant.keys)

\* attemptRacedAnswerDelivery: the claimant that still owns the conversation starts
\* to deliver what is stashed of its keys.
Attempt(s) ==
    IF s.claimant = None \/ s.claimant.token # active THEN s
    ELSE IF Invalid(s.claimant) THEN [s EXCEPT !.claimant = None]
    ELSE LET ready == s.claimant.keys \cap s.stash
             mine == [token |-> s.claimant.token, stopped |-> FALSE, expired |-> FALSE]
         IN  [s EXCEPT !.stash = @ \ ready, !.claimant.keys = @ \ ready,
                       !.delivery = [q \in Questions |-> IF q \in ready THEN mine ELSE @[q]]]

\* mergePendingHandoffIntoLiveClaimant
Merge(s) ==
    IF \/ s.claimant = None \/ s.handoff = None
       \/ s.claimant.token # active
       \/ /\ s.handoff.successor \notin {0, s.claimant.token}
          /\ ~Descends(s.handoff.successor, s.claimant.token)
    THEN s
    ELSE IF Invalid(s.handoff) THEN [s EXCEPT !.handoff = None]
    ELSE Attempt([s EXCEPT !.handoff = None, !.claimant.keys = @ \cup s.handoff.keys])

\* registerRacedAnswerHandoff, for keys of one source, under the current cancel
\* generation and with the TTL of a state that is passed on (expired) or a new one.
Register(s, keys, source, expired) ==
    LET old == s.handoff
        usable == old # None /\ ~Invalid(old)
        bound == IF LiveSuccessor(source) THEN issued ELSE 0
        joins == usable /\ old.successor = bound
    IN  IF expired THEN s
        ELSE IF usable /\ old.source = source
        THEN [s EXCEPT !.handoff.keys = @ \cup keys]
        ELSE IF issued # source /\ ~LiveSuccessor(source)
        THEN Recover([s EXCEPT !.handoff = IF usable THEN None ELSE @],
                     keys \cup (IF usable THEN old.keys ELSE {}))
        ELSE [(IF usable /\ ~joins THEN RecoverHandoff(s) ELSE s)
                EXCEPT !.handoff = [keys |-> keys \cup (IF joins THEN old.keys ELSE {}),
                                    source |-> source, successor |-> bound,
                                    stopped |-> FALSE, expired |-> FALSE]]

\* purgeRacedAnswerForKey: nothing, once an answer is stashed.
Purge(s, q) ==
    LET h == s.handoff
        c == s.claimant
        alone(k) == k.keys \ {q} = {}
        without(k) == [k EXCEPT !.keys = @ \ {q}]
    IN  IF q \in s.stash THEN s
        ELSE [s EXCEPT
                !.tombstones = @ \ {q},
                !.handoff = IF h = None \/ alone(h) THEN None ELSE without(h),
                !.claimant = IF c = None \/ q \notin c.keys THEN c
                             ELSE IF alone(c) /\ c.token # active THEN None ELSE without(c)]

\* A claimant tries again, up to MAX_RACED_ANSWER_DELIVERY_RETRIES; mutated, once more.
TriesOnceMore(c) == c # None /\ c.retries <= MaxRetries
TriesAgain(c) == c # None /\ c.retries < MaxRetries

\* onFailure of a delivery: back to the stash, then to the same claimant, to a live
\* successor of it, or the durable way; never after a Stop or a dismissal.
Fail(s, q) ==
    LET d == s.delivery[q]
        back == [s EXCEPT !.stash = @ \cup {q}, !.delivery[q] = None]
        again == TriesAgain(s.claimant)
    IN  IF s.claimant # None /\ s.claimant.token = d.token
        THEN [back EXCEPT !.claimant.keys = @ \cup {q},
                          !.claimant.retries = IF again THEN @ + 1 ELSE @,
                          !.timers = IF again THEN @ + 1 ELSE @]
        ELSE IF d.stopped \/ d.token \in terminal THEN back
        ELSE IF LiveSuccessor(d.token) THEN Merge(Register(back, {q}, d.token, d.expired))
        ELSE [back EXCEPT !.pending = @ \cup {q}, !.given[q] = @ + 1]

\* registerLiveRacedAnswerClaimant. A handoff bound to another turn is taken only by
\* one that descends from it; so are the keys of an earlier claimant, unless a
\* handoff is there.
Claim(s, t, forced) ==
    LET h == s.handoff
        prior == s.claimant
        another == prior # None /\ prior.token # t
        merged == IF another THEN prior.keys ELSE {}
        stray == another /\ (prior.stopped \/ ~InheritsFrom(prior.token, t))
        fresh == [token |-> t, keys |-> {}, stopped |-> FALSE, expired |-> FALSE, retries |-> 0]
    IN  IF h = None
        THEN IF prior # None /\ Descends(prior.token, t)
             THEN LET inherited == [s EXCEPT !.claimant = [prior EXCEPT !.token = t, !.retries = 0]]
                  IN  IF Invalid(prior) THEN inherited ELSE Attempt(inherited)
             ELSE IF forced /\ prior = None THEN [s EXCEPT !.claimant = fresh] ELSE s
        ELSE IF h.successor \notin {0, t} /\ ~Descends(h.successor, t) THEN s
        ELSE IF Invalid(h) THEN [s EXCEPT !.handoff = None]
        ELSE Attempt([s EXCEPT !.handoff = None,
                               !.claimant = [fresh EXCEPT !.keys = h.keys \cup merged,
                                                          !.expired = another /\ prior.expired],
                               !.strays = IF stray THEN @ \cup merged ELSE @])

\* A turn that cannot take answers in: both maps are emptied.
Discard(s) == RecoverClaimant(RecoverHandoff(s))

\* dropRacedAnswerClaimantForToken
DropHandoffFor(s, t) ==
    IF s.handoff = None \/ s.handoff.successor # t THEN s
    ELSE IF t \notin terminal /\ ~Invalid(s.handoff) THEN RecoverHandoff(s)
    ELSE [s EXCEPT !.handoff = None]
DropFor(s, t) ==
    LET c == s.claimant
        gone == [s EXCEPT !.claimant = None]
        owed == c.keys # {} /\ ~Invalid(c)
    IN  IF c = None \/ c.token # t THEN DropHandoffFor(s, t)
        ELSE IF t \in terminal THEN gone
        ELSE IF LiveSuccessor(t) /\ owed THEN Merge(Register(gone, c.keys, t, c.expired))
        ELSE DropHandoffFor(IF owed THEN RecoverClaimant(s) ELSE gone, t)

\* bumpExplicitCancelGeneration: all that was captured before is void.
Bumped(s) ==
    [s EXCEPT !.handoff = IF @ = None THEN @ ELSE [@ EXCEPT !.stopped = TRUE],
              !.claimant = IF @ = None THEN @ ELSE [@ EXCEPT !.stopped = TRUE],
              !.delivery = [q \in Questions |-> IF @[q] = None THEN None
                                                ELSE [@[q] EXCEPT !.stopped = TRUE]],
              !.tombstones = {}]

-----------------------------------------------------------------------------
(* Turns.                                                                  *)

\* Continuations of settled promises run before anything else.
Quiet == \A q \in Questions : gate[q] # "settled"

\* The abort of t resolves its open questions.
Settled(t) ==
    [q \in Questions |-> IF asker[q] = t /\ gate[q] = "waiting" THEN "settled" ELSE gate[q]]

\* streamHandler up to its first await: the live turn is aborted, and a handoff whose
\* successor was not known is bound.
StartTurn ==
    LET t == issued + 1 IN
    /\ issued < MaxTurns /\ Quiet
    /\ issued' = t /\ active' = t
    /\ stage' = [stage EXCEPT ![t] = "starting"]
    /\ superseded' = IF active = 0 THEN superseded ELSE [superseded EXCEPT ![active] = t]
    /\ aborted' = IF active = 0 THEN aborted ELSE aborted \cup {active}
    /\ gate' = IF active = 0 THEN gate ELSE Settled(active)
    /\ rv' = IF rv.handoff # None /\ rv.handoff.successor = 0
             THEN [rv EXCEPT !.handoff.successor = t] ELSE rv
    /\ heir' = [p \in Turns |-> IF p = active \/ p \in restarting THEN t ELSE heir[p]]
    /\ restarting' = {}
    /\ UNCHANGED <<terminal, asker, accepted, stopped, void, bounds>>

\* The runtime is known. A turn with a predecessor, a handoff or a claimant before it
\* claims, if it can take messages in (Mastra).
ClaimSite(t) ==
    /\ stage[t] = "starting" /\ Quiet
    /\ \E runtime \in {"mastra", "other"} :
         /\ stage' = [stage EXCEPT ![t] = runtime]
         /\ LET forced == \E p \in Turns : superseded[p] = t
            IN  rv' = IF active # t \/ ~(forced \/ rv.handoff # None \/ rv.claimant # None) THEN rv
                      ELSE IF runtime = "mastra" THEN Claim(rv, t, forced)
                      ELSE Discard(rv)
    /\ UNCHANGED <<issued, active, superseded, aborted, terminal, questionVars, history, bounds>>

\* A plan is rejected: the turn aborts itself, and a client starts it again.
PlanRestart(t) ==
    /\ active = t /\ stage[t] = "mastra" /\ t \notin aborted /\ Quiet
    /\ aborted' = aborted \cup {t} /\ restarting' = restarting \cup {t}
    /\ gate' = Settled(t)
    /\ UNCHANGED <<issued, active, superseded, stage, terminal, asker, rv, accepted, stopped,
                   void, heir, bounds>>

\* What a Stop or a dismissal ends, for the properties.
Ends ==
    LET open == {q \in Questions : asker[q] # 0 /\ gate[q] # "committed"}
    IN  /\ stopped' = stopped \cup open /\ void' = void \cup open
        /\ restarting' = {} /\ stops' = stops + 1
        /\ UNCHANGED <<accepted, heir, failures, expiries>>

\* A plan is dismissed: terminal, and the turn unwinds while it owns the conversation.
PlanDismiss(t) ==
    /\ stops < MaxStops /\ Quiet
    /\ active = t /\ stage[t] \in {"mastra", "other"} /\ t \notin aborted
    /\ aborted' = aborted \cup {t} /\ terminal' = terminal \cup {t}
    /\ gate' = Settled(t) /\ rv' = Bumped(rv) /\ Ends
    /\ UNCHANGED <<issued, active, superseded, stage, asker>>

\* agent:cancel-stream: what the stopped turn consumed and did not commit is dropped.
Stop ==
    /\ stops < MaxStops /\ Quiet
    /\ active' = 0
    /\ aborted' = IF active = 0 THEN aborted ELSE aborted \cup {active}
    /\ terminal' = IF active = 0 THEN terminal ELSE terminal \cup {active}
    /\ gate' = [q \in Questions |-> IF active # 0 /\ asker[q] = active /\ gate[q] = "inflight"
                                    THEN "closed" ELSE Settled(active)[q]]
    /\ rv' = Bumped(rv) /\ Ends
    /\ UNCHANGED <<issued, superseded, stage, asker>>

\* cleanupStreamIfOwned: when the turn is over or unwinds, or at once when it cannot
\* start. What it consumed and did not commit goes the durable way.
Cleanup(t) ==
    LET uncommitted == {q \in Questions : asker[q] = t /\ gate[q] = "inflight"}
        dropped == DropFor(rv, t)
    IN
    /\ stage[t] \in {"starting", "mastra", "other"}
    /\ Quiet \/ (stage[t] = "starting" /\ t = issued)
    /\ \A q \in Questions : asker[q] = t => gate[q] \notin {"waiting", "settled"}
    /\ uncommitted # {} => t \in aborted
    /\ stage' = [stage EXCEPT ![t] = "ended"]
    /\ active' = IF active = t THEN 0 ELSE active
    /\ gate' = [q \in Questions |-> IF q \in uncommitted THEN "closed" ELSE gate[q]]
    /\ rv' = IF t \in terminal THEN dropped
             ELSE [dropped EXCEPT !.given =
                     [q \in Questions |-> @[q] + (IF q \in uncommitted THEN 1 ELSE 0)]]
    /\ UNCHANGED <<issued, superseded, aborted, terminal, asker, history, bounds>>

-----------------------------------------------------------------------------
(* Questions and answers.                                                  *)

QuestionFrame == UNCHANGED <<turnVars, stopped, heir, restarting, bounds>>

Ask(t, q) ==
    /\ stage[t] \in {"mastra", "other"} /\ t \notin aborted /\ Quiet
    /\ asker[q] = 0
    /\ asker' = [asker EXCEPT ![q] = t] /\ gate' = [gate EXCEPT ![q] = "waiting"]
    /\ UNCHANGED <<rv, accepted, void>> /\ QuestionFrame

\* agent:answer-tool-question while the turn waits: the tool consumes the answer. In a
\* runtime without the ledger it is in the result at once.
AnswerInTime(q) ==
    /\ gate[q] = "waiting" /\ Quiet
    /\ gate' = [gate EXCEPT ![q] = IF stage[asker[q]] = "mastra" THEN "inflight" ELSE "committed"]
    /\ rv' = [rv EXCEPT !.stash = @ \ {q}]
    /\ accepted' = accepted \cup {q}
    /\ UNCHANGED <<asker, void>> /\ QuestionFrame

\* The same, once the question is closed: the first surface wins; the holder of the
\* question delivers, or its tombstone says where the answer goes.
AnswerLate(q) ==
    LET stashed == [rv EXCEPT !.stash = @ \cup {q}]
        holds(h) == h # None /\ q \in h.keys
    IN
    /\ gate[q] \in {"inflight", "committed", "closed"} /\ Quiet
    /\ rv' = IF holds(rv.claimant) \/ holds(rv.handoff) THEN Attempt(stashed)
             ELSE IF q \in rv.tombstones THEN Recover(stashed, {q})
             ELSE stashed
    /\ accepted' = accepted \cup {q}
    /\ UNCHANGED <<questionVars, void>> /\ QuestionFrame

\* agent:reject-tool and agent:dismiss-tool, in time or late.
Reject(q) ==
    /\ gate[q] # "unasked" /\ Quiet
    /\ gate' = [gate EXCEPT ![q] = IF @ = "waiting" THEN "closed" ELSE @]
    /\ rv' = Purge(rv, q)
    /\ void' = IF q \in accepted THEN void ELSE void \cup {q}
    /\ UNCHANGED <<asker, accepted>> /\ QuestionFrame

\* The tool result is on the branch; mutated, that of a question whose abort went on, too.
CommitLate(q) ==
    /\ gate[q] \in {"inflight", "closed"} /\ q \in accepted /\ active = asker[q] /\ Quiet
    /\ gate' = [gate EXCEPT ![q] = "committed"]
    /\ UNCHANGED <<asker, rv, accepted, void>> /\ QuestionFrame
Commit(q) ==
    /\ gate[q] = "inflight" /\ active = asker[q] /\ Quiet
    /\ gate' = [gate EXCEPT ![q] = "committed"]
    /\ UNCHANGED <<asker, rv, accepted, void>> /\ QuestionFrame

\* A turn that ended before its handoff was registered cannot claim it.
DeadSuccessor(s, t) ==
    IF s.handoff # None /\ s.handoff.successor \notin {0, t} /\ stage[s.handoff.successor] = "ended"
    THEN RecoverHandoff(s) ELSE s

\* The gate of ask_user goes on after the abort of its turn; a runtime other than
\* Mastra recovers at once (recoverAskUserAnswerForRuntime).
GateAborts(q) ==
    LET t == asker[q] IN
    /\ gate[q] = "settled"
    /\ gate' = [gate EXCEPT ![q] = "closed"]
    /\ rv' = IF t \in terminal THEN rv
             ELSE IF stage[t] = "mastra" THEN DeadSuccessor(Merge(Register(rv, {q}, t, FALSE)), t)
             ELSE Recover(rv, {q})
    /\ UNCHANGED <<asker, accepted, void>> /\ QuestionFrame

-----------------------------------------------------------------------------
(* Deliveries and time.                                                    *)

RendezvousFrame == UNCHANGED <<turnVars, questionVars, accepted, stopped, heir, restarting, stops>>

\* The policy of the conversation is asked about a delivery, and the turn it was meant
\* for still owns the conversation when it answers: the text is queued in it.
Delivered(q) ==
    /\ rv.delivery[q] # None /\ rv.delivery[q].token = active /\ Quiet
    /\ rv' = [rv EXCEPT !.delivery[q] = None, !.given[q] = @ + 1, !.receiver[q] = active]
    /\ UNCHANGED <<void, failures, expiries>> /\ RendezvousFrame

\* The policy blocks the text for good.
Blocked(q) ==
    /\ failures < MaxFailures
    /\ rv.delivery[q] # None /\ rv.delivery[q].token = active /\ Quiet
    /\ rv' = Purge([rv EXCEPT !.delivery[q] = None], q)
    /\ void' = void \cup {q} /\ failures' = failures + 1
    /\ UNCHANGED expiries /\ RendezvousFrame

\* The turn no longer owns the conversation, or the delivery throws.
DeliveryFails(q) ==
    /\ rv.delivery[q] # None /\ Quiet
    /\ rv.delivery[q].token = active => failures < MaxFailures
    /\ failures' = IF rv.delivery[q].token = active THEN failures + 1 ELSE failures
    /\ rv' = Fail(rv, q)
    /\ UNCHANGED <<void, expiries>> /\ RendezvousFrame

\* deliverRecoveredAnswer: as a message to the conversation (the stash forgets it) or
\* as an alert.
RecoveredSettles(q) ==
    /\ q \in rv.pending /\ Quiet
    /\ \E asMessage \in BOOLEAN :
         rv' = [rv EXCEPT !.pending = @ \ {q}, !.stash = IF asMessage THEN @ \ {q} ELSE @]
    /\ UNCHANGED <<void, failures, expiries>> /\ RendezvousFrame

\* RACED_ANSWER_RETRY_MS after a delivery that failed.
TimerFires ==
    /\ rv.timers > 0 /\ Quiet
    /\ rv' = Attempt([rv EXCEPT !.timers = @ - 1])
    /\ UNCHANGED <<void, failures, expiries>> /\ RendezvousFrame

\* RACED_ANSWER_HANDOFF_TTL_MS: of a handoff, of a claimant and of what it is
\* delivering, or of a tombstone.
ExpireHandoff ==
    /\ rv.handoff # None /\ ~rv.handoff.expired
    /\ rv' = [rv EXCEPT !.handoff.expired = TRUE]
    /\ void' = void \cup rv.handoff.keys

ExpireClaimant ==
    LET c == rv.claimant
        mine(d) == d # None /\ d.token = c.token
    IN
    /\ c # None /\ ~c.expired
    /\ rv' = [rv EXCEPT !.claimant.expired = TRUE,
                        !.delivery = [q \in Questions |-> IF mine(@[q])
                                        THEN [@[q] EXCEPT !.expired = TRUE] ELSE @[q]]]
    /\ void' = void \cup c.keys \cup {q \in Questions : mine(rv.delivery[q])}

ExpireTombstone(q) ==
    /\ q \in rv.tombstones
    /\ rv' = [rv EXCEPT !.tombstones = @ \ {q}]
    /\ void' = void \cup {q}

Expire ==
    /\ expiries < MaxExpiries /\ expiries' = expiries + 1 /\ Quiet
    /\ ExpireHandoff \/ ExpireClaimant \/ \E q \in Questions : ExpireTombstone(q)
    /\ UNCHANGED failures /\ RendezvousFrame

-----------------------------------------------------------------------------
TurnStep(t) == ClaimSite(t) \/ PlanRestart(t) \/ PlanDismiss(t) \/ Cleanup(t)

QuestionStep(q) ==
    \/ AnswerInTime(q) \/ AnswerLate(q) \/ Reject(q) \/ Commit(q) \/ GateAborts(q)
    \/ Delivered(q) \/ Blocked(q) \/ DeliveryFails(q) \/ RecoveredSettles(q)

Next ==
    \/ StartTurn \/ Stop \/ TimerFires \/ Expire
    \/ \E t \in Turns : TurnStep(t) \/ \E q \in Questions : Ask(t, q)
    \/ \E q \in Questions : QuestionStep(q)

Spec == Init /\ [][Next]_vars

\* Continuations run, a turn resolves its runtime and ends once no question of it is
\* open, results are committed, policies answer and timers fire. Nobody has to ask,
\* answer or restart a turn.
Fairness ==
    /\ WF_vars(TimerFires)
    /\ \A t \in Turns : WF_vars(ClaimSite(t)) /\ WF_vars(Cleanup(t))
    /\ \A q \in Questions :
         /\ WF_vars(GateAborts(q)) /\ WF_vars(Commit(q))
         /\ WF_vars(Delivered(q) \/ DeliveryFails(q)) /\ WF_vars(RecoveredSettles(q))

FairSpec == Spec /\ Fairness

-----------------------------------------------------------------------------
\* However many surfaces answer, and however often the answer changes hands between
\* handoffs, claimants, deliveries and tombstones, it is handed over at most once: to
\* one turn, or once to the durable path.
HandedOverOnce == \A q \in Questions : rv.given[q] <= 1

\* An answer is only ever put into a turn that took over, through an unbroken chain,
\* from the one that asked, or into that one itself while it unwinds: never into one
\* that merely started later, unless that one claimed it astray.
DeliveredToHeirs ==
    \A q \in Questions \ rv.strays :
        rv.receiver[q] # 0 => InheritsFrom(asker[q], rv.receiver[q])

\* No turn that starts after a Stop or a dismissal is given the answer to a question
\* asked before it, whatever was stashed, being delivered or being handed over then,
\* unless it claimed it astray.
NothingIntoALaterTurn ==
    [][\A q \in stopped \ rv.strays :
         rv'.receiver[q] # rv.receiver[q] => rv'.receiver[q] \in terminal]_vars

\* The answer was used: by the turn that asked, by an heir or by the durable path.
Used(q) == gate[q] = "committed" \/ rv.given[q] > 0

\* The answer, or the question it will come for, is somewhere it is used from: a gate
\* that goes on, a ledger, a handoff somebody can claim, a claimant whose teardown is
\* to come, a delivery or a tombstone.
Held(q) ==
    LET claims(t) == stage[t] # "ended" /\ rv.handoff.successor = t
        inherits(t) == stage[t] # "ended" /\ Descends(rv.handoff.successor, t)
    IN
    \/ gate[q] \in {"settled", "inflight"}
    \/ /\ rv.handoff # None /\ q \in rv.handoff.keys
       /\ rv.handoff.successor = 0 \/ \E t \in Turns : claims(t) \/ inherits(t)
    \/ rv.claimant # None /\ q \in rv.claimant.keys /\ stage[rv.claimant.token] # "ended"
    \/ rv.delivery[q] # None \/ q \in rv.tombstones

\* Unless the user rejected the question or ended the turn, an answer that was accepted
\* was used or is still held, whatever turns start, fail and end meanwhile and however
\* often it changes hands, as long as no state of the rendezvous became invalid.
NoAnswerIsLost ==
    expiries = 0 /\ stops = 0 => \A q \in accepted \ void : Used(q) \/ Held(q)

\* Somebody other than the conversation's own machinery has to move: the client that
\* restarts a plan, or the user whom the claimant's turn asks.
WaitsForUser(q) ==
    \/ rv.handoff # None /\ q \in rv.handoff.keys /\ rv.handoff.successor = 0
    \/ /\ rv.claimant # None /\ q \in rv.claimant.keys
       /\ \E p \in Questions : asker[p] = rv.claimant.token /\ gate[p] = "waiting"

\* And what is held is used in the end.
AnswersAreUsed ==
    \A q \in Questions :
        <>[](q \in accepted => Used(q) \/ q \in void \/ expiries + stops > 0 \/ WaitsForUser(q))

\* What the answers promise (AnswerOnce), and how it is kept: an answer is used by the
\* turn that asked when the tool result is committed, and when it is handed over.
Uses == [q \in Questions |-> rv.given[q] + (IF gate[q] = "committed" THEN 1 ELSE 0)]

Once == INSTANCE AnswerOnce WITH
    uses      <- Uses,
    receiver  <- rv.receiver,
    unwinding <- terminal,
    astray    <- rv.strays

\* Every behaviour is one of AnswerOnce: whoever asks, answers, takes over, stops or
\* retries meanwhile, an answer that was accepted is used once, in the tool result of the
\* turn that asked, by a turn that may have it or by the conversation, and not by two of
\* them, although each has its own copy of where the answer is.
ImplementsAnswerOnce == Once!Spec

\* agent.ts:7685 "otherwise a late answer to that earlier run could resurrect a
\* tool-enabled turn after the user dismissed": nothing asked before a Stop or a
\* dismissal is handed over after it, by the durable path either.
NothingAfterAStop ==
    [][\A q \in stopped : rv'.given[q] = rv.given[q] \/ rv'.receiver[q] # rv.receiver[q]]_vars

\* agent.ts:2286 "Without this an UNRELATED later turn D that merely started while B's
\* teardown lagged would inherit B's claimant and receive B's stale answer": no turn is
\* given an answer astray, either.
NoUnrelatedTurnIsGivenAnAnswer ==
    \A q \in Questions :
        rv.receiver[q] # 0 => InheritsFrom(asker[q], rv.receiver[q])

\* agent.ts:4899 "without an empty claimant here the late handoff would have nothing
\* to merge into and the answer would be lost": what a claimant takes in is not lost to
\* a TTL or a cancellation that is older than it.
FreshAnswersAreHeld == \A q \in accepted \ void : Used(q) \/ Held(q)
=============================================================================
