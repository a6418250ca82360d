------------------------- MODULE RacedAnswersProofs -------------------------
(***************************************************************************)
(* Proofs about RacedAnswers, for any questions, turns, retries, Stops,    *)
(* failures and TTLs that pass.                                            *)
(***************************************************************************)
EXTENDS RacedAnswers, TLAPS

-----------------------------------------------------------------------------
(* The inductive invariant                                                 *)

\* Of the turns: the newest is the only one that may own the conversation; the
\* chain of aborts is part of the chain of heirs, and leads to newer turns.
TurnInv ==
    /\ issued \in TurnOrNone /\ active \in {0, issued}
    /\ \A t \in Turns : stage[t] = "unborn" <=> t > issued
    /\ \A t \in Turns : superseded[t] # 0 => superseded[t] = heir[t]
    /\ \A t \in Turns : heir[t] # 0 => t < issued
    /\ restarting \subseteq {issued}
    /\ \A t \in aborted : t <= issued
    /\ \A t \in Turns : stage[t] \notin {"unborn", "ended"} /\ t \notin aborted => t = active
    /\ active # 0 => stage[active] # "ended"
    /\ stops = 0 => /\ terminal = {}
                    /\ \A t \in Turns : t = issued /\ stage[t] # "ended" => t = active

\* Of the questions: only the turn that owns the conversation waits for an answer;
\* what an abort settled belongs to an aborted turn, and to one that restarts if
\* nobody took over and no Stop came.
QuestionInv ==
    \A q \in Questions :
      /\ asker[q] = 0 <=> gate[q] = "unasked"
      /\ asker[q] <= issued
      /\ gate[q] = "waiting" => asker[q] = active /\ asker[q] \notin aborted
      /\ gate[q] = "settled" /\ asker[q] = issued /\ asker[q] \notin terminal =>
           asker[q] \in restarting
      /\ q \in accepted => gate[q] \in {"inflight", "committed", "closed"}
      /\ q \in stopped => /\ gate[q] \notin {"unasked", "waiting"}
                          /\ gate[q] = "settled" => asker[q] \in terminal

\* Where the answer to a question, or the question, may be.
HandoffKeys(s) == IF s.handoff = None THEN {} ELSE s.handoff.keys
ClaimantKeys(s) == IF s.claimant = None THEN {} ELSE s.claimant.keys
Delivering(s) == {q \in Questions : s.delivery[q] # None}
Given(s) == {q \in Questions : s.given[q] # 0}
Places(s) == HandoffKeys(s) \cup ClaimantKeys(s) \cup Delivering(s) \cup s.tombstones \cup Given(s)

\* In one place at most.
OnePlace(s) ==
    /\ HandoffKeys(s) \cap ClaimantKeys(s) = {} /\ HandoffKeys(s) \cap Delivering(s) = {}
    /\ HandoffKeys(s) \cap s.tombstones = {} /\ HandoffKeys(s) \cap Given(s) = {}
    /\ ClaimantKeys(s) \cap Delivering(s) = {} /\ ClaimantKeys(s) \cap s.tombstones = {}
    /\ ClaimantKeys(s) \cap Given(s) = {} /\ Delivering(s) \cap s.tombstones = {}
    /\ Delivering(s) \cap Given(s) = {} /\ s.tombstones \cap Given(s) = {}
    /\ \A q \in Questions : s.given[q] <= 1
    /\ s.pending \subseteq Given(s)
    /\ \A q \in Questions : s.receiver[q] # 0 => q \in Given(s)

\* With a turn that inherits from the one that asked, or astray.
Inherited(s) ==
    /\ s.handoff # None /\ ~Invalid(s.handoff) =>
         /\ s.handoff.successor # 0 =>
              /\ InheritsFrom(s.handoff.source, s.handoff.successor)
              /\ \A q \in s.handoff.keys \ s.strays : InheritsFrom(asker[q], s.handoff.successor)
         /\ s.handoff.successor = 0 =>
              /\ s.handoff.source = issued /\ issued \in restarting
              /\ \A q \in s.handoff.keys \ s.strays : InheritsFrom(asker[q], issued)
    /\ s.claimant # None =>
         \A q \in s.claimant.keys \ s.strays : InheritsFrom(asker[q], s.claimant.token)
    /\ \A q \in Delivering(s) \ s.strays : InheritsFrom(asker[q], s.delivery[q].token)
    /\ \A q \in Questions \ s.strays : s.receiver[q] # 0 => InheritsFrom(asker[q], s.receiver[q])

\* What was asked before a Stop is marked so wherever it is; deliveries and the claimant
\* are of turns past their claim.
Halted(s, past) ==
    /\ \A q \in HandoffKeys(s) : q \in stopped \ s.strays => s.handoff.stopped
    /\ \A q \in ClaimantKeys(s) : q \in stopped \ s.strays => s.claimant.stopped
    /\ \A q \in Delivering(s) :
         /\ q \in stopped \ s.strays => s.delivery[q].stopped
         /\ s.delivery[q].token \in past
         /\ s.delivery[q].stopped =>
              /\ s.delivery[q].token \in terminal \/ s.delivery[q].token # active
              /\ (s.claimant # None /\ s.claimant.token = s.delivery[q].token
                    => s.claimant.stopped)
    /\ s.claimant # None => s.claimant.token \in past

Calm == expiries = 0 /\ stops = 0

\* Until something is stopped or expires, no state of the rendezvous is invalid, and
\* the turn it is bound to has its teardown to come.
Live(s) ==
    /\ s.handoff # None =>
         /\ ~Invalid(s.handoff)
         /\ s.handoff.successor # 0 => stage[s.handoff.successor] # "ended"
    /\ s.claimant # None => ~Invalid(s.claimant) /\ stage[s.claimant.token] # "ended"
    /\ \A q \in Delivering(s) : ~Invalid(s.delivery[q])

\* What could have gone to the claimant has.
Merged(s) ==
    s.handoff # None /\ s.claimant # None /\ s.handoff.successor # 0 =>
      s.handoff.successor # s.claimant.token

\* An answer that came waits in the stash.
Stashed(s, answered) ==
    /\ \A q \in HandoffKeys(s) \cup ClaimantKeys(s) : q \in answered => q \in s.stash
    /\ s.tombstones \cap answered = {}

Fit(s, past, answered) ==
    /\ s \in Rendezvous
    /\ OnePlace(s) /\ Inherited(s) /\ Halted(s, past)
    /\ Calm => Live(s) /\ Stashed(s, answered)

Past == {t \in Turns : stage[t] \notin {"unborn", "starting"}}

RendezvousInv == Fit(rv, Past, accepted) /\ (Calm => Merged(rv))

\* What is somewhere is closed, and what is closed is somewhere.
GateInv ==
    /\ \A q \in Places(rv) : gate[q] = "closed"
    /\ Calm => \A q \in Questions \ void : gate[q] = "closed" => q \in Places(rv)

IInv == TypeOK /\ TurnInv /\ QuestionInv /\ RendezvousInv /\ GateInv

-----------------------------------------------------------------------------
(* Chains of turns                                                         *)

LEMMA ReachesOn ==
    ASSUME NEW next, NEW p, NEW u, NEW t, Reaches(next, p, u), Reaches(next, u, t)
    PROVE  Reaches(next, p, t)
<1>1. SUFFICES ASSUME NEW S \in SUBSET Turns, next[p] \in S,
                      \A w \in S : next[w] # 0 => next[w] \in S
               PROVE  t \in S
  BY DEF Reaches
<1>2. u \in S
  BY <1>1 DEF Reaches
<1>3. next[u] \in S
  BY <1>1, <1>2 DEF Reaches
<1> QED
  BY <1>1, <1>3 DEF Reaches

LEMMA InheritsOn ==
    ASSUME NEW p, NEW u, NEW t, InheritsFrom(p, u), InheritsFrom(u, t)
    PROVE  InheritsFrom(p, t)
BY ReachesOn DEF InheritsFrom

\* Who took over is an heir.
LEMMA DescendantsInherit ==
    ASSUME TurnInv, NEW p \in Turns, NEW t, Descends(p, t)
    PROVE  Reaches(heir, p, t) /\ InheritsFrom(p, t)
<1>1. SUFFICES ASSUME NEW S \in SUBSET Turns, heir[p] \in S,
                      \A w \in S : heir[w] # 0 => heir[w] \in S
               PROVE  t \in S
  BY DEF Reaches, InheritsFrom, Descends, TurnInv
<1>2. superseded[p] # 0 /\ superseded[p] \in S
  BY <1>1 DEF Descends, Reaches, TurnInv
<1>3. \A w \in S : superseded[w] # 0 => superseded[w] \in S
  BY <1>1 DEF TurnInv
<1> QED
  BY <1>1, <1>2, <1>3 DEF Descends, Reaches

-----------------------------------------------------------------------------
(* What each function of the rendezvous does to it                         *)

LEMMA RendezvousFields ==
    ASSUME NEW s \in Rendezvous
    PROVE  /\ s.handoff # None =>
                /\ s.handoff.keys \subseteq Questions /\ s.handoff.source \in Turns
                /\ s.handoff.successor \in TurnOrNone
                /\ s.handoff.stopped \in BOOLEAN /\ s.handoff.expired \in BOOLEAN
           /\ s.claimant # None =>
                /\ s.claimant.token \in Turns /\ s.claimant.keys \subseteq Questions
                /\ s.claimant.stopped \in BOOLEAN /\ s.claimant.expired \in BOOLEAN
                /\ s.claimant.retries \in 0..MaxRetries
           /\ s.stash \subseteq Questions /\ s.tombstones \subseteq Questions
           /\ s.pending \subseteq Questions /\ s.strays \subseteq Questions
           /\ s.delivery \in [Questions -> Delivery \cup {None}]
           /\ \A q \in Delivering(s) :
                /\ s.delivery[q].token \in Turns
                /\ s.delivery[q].stopped \in BOOLEAN /\ s.delivery[q].expired \in BOOLEAN
           /\ s.given \in [Questions -> Nat] /\ s.receiver \in [Questions -> TurnOrNone]
           /\ s.timers \in Nat
           /\ HandoffKeys(s) \subseteq Questions /\ ClaimantKeys(s) \subseteq Questions
           /\ Delivering(s) \subseteq Questions /\ Given(s) \subseteq Questions
<1>1. /\ s.handoff \in Handoff \cup {None} /\ s.claimant \in Claimant \cup {None}
      /\ s.stash \subseteq Questions /\ s.tombstones \subseteq Questions
      /\ s.pending \subseteq Questions /\ s.strays \subseteq Questions
      /\ s.delivery \in [Questions -> Delivery \cup {None}]
      /\ s.given \in [Questions -> Nat] /\ s.receiver \in [Questions -> TurnOrNone]
      /\ s.timers \in Nat
  BY DEF Rendezvous
<1>2. s.handoff # None =>
        /\ s.handoff.keys \subseteq Questions /\ s.handoff.source \in Turns
        /\ s.handoff.successor \in TurnOrNone
        /\ s.handoff.stopped \in BOOLEAN /\ s.handoff.expired \in BOOLEAN
  BY <1>1 DEF Handoff
<1>3. s.claimant # None =>
        /\ s.claimant.token \in Turns /\ s.claimant.keys \subseteq Questions
        /\ s.claimant.stopped \in BOOLEAN /\ s.claimant.expired \in BOOLEAN
        /\ s.claimant.retries \in 0..MaxRetries
  BY <1>1 DEF Claimant
<1>4. \A q \in Delivering(s) : s.delivery[q] \in Delivery
  BY <1>1 DEF Delivering
<1>5. \A q \in Delivering(s) :
        /\ s.delivery[q].token \in Turns
        /\ s.delivery[q].stopped \in BOOLEAN /\ s.delivery[q].expired \in BOOLEAN
  BY <1>4 DEF Delivery
<1> QED
  BY <1>1, <1>2, <1>3, <1>5 DEF HandoffKeys, ClaimantKeys, Delivering, Given

\* recoverOrphanedAnswerKeys takes what is nowhere, or has only its tombstone.
LEMMA RecoverFields ==
    ASSUME NEW s \in Rendezvous, NEW K \in SUBSET Questions
    PROVE  /\ Recover(s, K) \in Rendezvous
           /\ Recover(s, K).handoff = s.handoff /\ Recover(s, K).claimant = s.claimant
           /\ Recover(s, K).delivery = s.delivery /\ Recover(s, K).stash = s.stash
           /\ Recover(s, K).receiver = s.receiver /\ Recover(s, K).strays = s.strays
           /\ Recover(s, K).timers = s.timers
           /\ Recover(s, K).tombstones = (s.tombstones \ K) \cup (K \ s.stash)
           /\ Recover(s, K).pending = s.pending \cup (K \cap s.stash)
           /\ \A q \in Questions :
                Recover(s, K).given[q] = s.given[q] + (IF q \in K \cap s.stash THEN 1 ELSE 0)
<1> DEFINE g == [q \in Questions |-> s.given[q] + (IF q \in K \cap s.stash THEN 1 ELSE 0)]
<1>1. s.given \in [Questions -> Nat] /\ g \in [Questions -> Nat]
  <2>1. s.given \in [Questions -> Nat]
    BY RendezvousFields
  <2> QED
    BY <2>1
<1>2. Recover(s, K) = [s EXCEPT !.tombstones = (s.tombstones \ K) \cup (K \ s.stash),
                                !.pending = s.pending \cup (K \cap s.stash), !.given = g]
  BY DEF Recover
<1>3. \A q \in Questions : g[q] = s.given[q] + (IF q \in K \cap s.stash THEN 1 ELSE 0)
  OBVIOUS
<1> DEFINE tombs == (s.tombstones \ K) \cup (K \ s.stash)
           sent == s.pending \cup (K \cap s.stash)
<1>4. tombs \in SUBSET Questions /\ sent \in SUBSET Questions
  BY RendezvousFields
<1>5. Recover(s, K) = [s EXCEPT !.tombstones = tombs, !.pending = sent, !.given = g]
  BY <1>2
<1> HIDE DEF g, tombs, sent
<1>6. /\ Recover(s, K).handoff = s.handoff /\ Recover(s, K).claimant = s.claimant
      /\ Recover(s, K).delivery = s.delivery /\ Recover(s, K).stash = s.stash
      /\ Recover(s, K).receiver = s.receiver /\ Recover(s, K).strays = s.strays
      /\ Recover(s, K).timers = s.timers /\ Recover(s, K).tombstones = tombs
      /\ Recover(s, K).pending = sent /\ Recover(s, K).given = g
  BY <1>5 DEF Rendezvous
<1>7. Recover(s, K) \in Rendezvous
  BY <1>1, <1>4, <1>5 DEF Rendezvous
<1> QED
  BY <1>3, <1>6, <1>7 DEF tombs, sent

LEMMA RecoverKeeps ==
    ASSUME NEW s, NEW past, NEW answered, Fit(s, past, answered), NEW K \in SUBSET Questions,
           K \cap Places(s) \subseteq s.tombstones, Calm => K \cap answered \subseteq s.stash
    PROVE  /\ Fit(Recover(s, K), past, answered)
           /\ Places(Recover(s, K)) = Places(s) \cup K
<1> DEFINE r == Recover(s, K)
<1>0. s \in Rendezvous /\ OnePlace(s) /\ Inherited(s) /\ Halted(s, past)
      /\ (Calm => Live(s) /\ Stashed(s, answered))
  BY DEF Fit
<1>1. /\ r \in Rendezvous
      /\ r.handoff = s.handoff /\ r.claimant = s.claimant
      /\ r.delivery = s.delivery /\ r.stash = s.stash
      /\ r.receiver = s.receiver /\ r.strays = s.strays
      /\ r.tombstones = (s.tombstones \ K) \cup (K \ s.stash)
      /\ r.pending = s.pending \cup (K \cap s.stash)
      /\ \A q \in Questions : r.given[q] = s.given[q] + (IF q \in K \cap s.stash THEN 1 ELSE 0)
  BY <1>0, RecoverFields
<1> HIDE DEF r
<1>2. /\ HandoffKeys(r) = HandoffKeys(s) /\ ClaimantKeys(r) = ClaimantKeys(s)
      /\ Delivering(r) = Delivering(s)
  BY <1>1 DEF HandoffKeys, ClaimantKeys, Delivering
<1>3. /\ \A q \in Questions : s.given[q] \in Nat
      /\ s.tombstones \subseteq Questions /\ s.pending \subseteq Questions
  BY <1>0, RendezvousFields
<1>4. \A q \in K : q \in Questions /\ s.given[q] = 0
  BY <1>0 DEF Places, OnePlace, Given
<1>5. Given(r) = Given(s) \cup (K \cap s.stash)
  BY <1>1, <1>3, <1>4 DEF Given
<1>6. OnePlace(r)
  <2>1. \A q \in Questions : r.given[q] <= 1
    <3> SUFFICES ASSUME NEW q \in Questions PROVE r.given[q] <= 1
      OBVIOUS
    <3>1. r.given[q] = s.given[q] + (IF q \in K \cap s.stash THEN 1 ELSE 0)
      BY <1>1
    <3>2. s.given[q] \in Nat /\ s.given[q] <= 1 /\ (q \in K => s.given[q] = 0)
      BY <1>0, <1>3, <1>4 DEF OnePlace
    <3> QED
      BY <3>1, <3>2
  <2>2. r.pending \subseteq Given(r) /\ \A q \in Questions : r.receiver[q] # 0 => q \in Given(r)
    BY <1>0, <1>1, <1>5 DEF OnePlace
  <2> QED
    BY <1>0, <1>1, <1>2, <1>5, <2>1, <2>2 DEF OnePlace, Places
<1>7. Inherited(r)
  BY <1>0, <1>1, <1>2 DEF Inherited
<1>8. Halted(r, past)
  BY <1>0, <1>1, <1>2 DEF Halted
<1>9. Calm => Live(r) /\ Stashed(r, answered)
  BY <1>0, <1>1, <1>2 DEF Live, Stashed
<1>10. Places(r) = Places(s) \cup K
  BY <1>1, <1>2, <1>5 DEF Places
<1> QED
  BY <1>1, <1>6, <1>7, <1>8, <1>9, <1>10 DEF Fit, r

\* A holder is dropped.
LEMMA DropHandoff ==
    ASSUME NEW s, NEW past, NEW answered, Fit(s, past, answered),
           NEW r, r = [s EXCEPT !.handoff = None]
    PROVE  /\ Fit(r, past, answered) /\ r \in Rendezvous /\ r.handoff = None
           /\ r.claimant = s.claimant /\ r.delivery = s.delivery /\ r.stash = s.stash
           /\ r.tombstones = s.tombstones /\ r.strays = s.strays
           /\ r.receiver = s.receiver
           /\ HandoffKeys(r) = {} /\ ClaimantKeys(r) = ClaimantKeys(s)
           /\ Delivering(r) = Delivering(s) /\ Given(r) = Given(s)
           /\ HandoffKeys(s) \cap Places(r) = {}
           /\ Places(s) = Places(r) \cup HandoffKeys(s)
<1>0. s \in Rendezvous /\ OnePlace(s) /\ Inherited(s) /\ Halted(s, past)
      /\ (Calm => Live(s) /\ Stashed(s, answered))
  BY DEF Fit
<1>1. /\ r \in Rendezvous /\ r.handoff = None
      /\ r.claimant = s.claimant /\ r.delivery = s.delivery /\ r.stash = s.stash
      /\ r.tombstones = s.tombstones /\ r.strays = s.strays /\ r.given = s.given
      /\ r.receiver = s.receiver /\ r.pending = s.pending
  BY <1>0 DEF Rendezvous
<1>2. /\ HandoffKeys(r) = {} /\ ClaimantKeys(r) = ClaimantKeys(s)
      /\ Delivering(r) = Delivering(s) /\ Given(r) = Given(s)
  BY <1>1 DEF HandoffKeys, ClaimantKeys, Delivering, Given
<1>3. OnePlace(r)
  BY <1>0, <1>1, <1>2 DEF OnePlace
<1>4. Inherited(r)
  BY <1>0, <1>1, <1>2 DEF Inherited
<1>5. Halted(r, past)
  BY <1>0, <1>1, <1>2 DEF Halted
<1>6. Calm => Live(r) /\ Stashed(r, answered)
  BY <1>0, <1>1, <1>2 DEF Live, Stashed
<1>7. HandoffKeys(s) \cap Places(r) = {} /\ Places(s) = Places(r) \cup HandoffKeys(s)
  BY <1>0, <1>1, <1>2 DEF Places, OnePlace
<1> QED
  BY <1>1, <1>2, <1>3, <1>4, <1>5, <1>6, <1>7 DEF Fit

LEMMA DropClaimant ==
    ASSUME NEW s, NEW past, NEW answered, Fit(s, past, answered),
           NEW r, r = [s EXCEPT !.claimant = None]
    PROVE  /\ Fit(r, past, answered) /\ r \in Rendezvous /\ r.claimant = None
           /\ r.handoff = s.handoff /\ r.delivery = s.delivery /\ r.stash = s.stash
           /\ r.tombstones = s.tombstones /\ r.strays = s.strays
           /\ r.receiver = s.receiver
           /\ HandoffKeys(r) = HandoffKeys(s) /\ ClaimantKeys(r) = {}
           /\ Delivering(r) = Delivering(s) /\ Given(r) = Given(s)
           /\ ClaimantKeys(s) \cap Places(r) = {}
           /\ Places(s) = Places(r) \cup ClaimantKeys(s)
<1>0. s \in Rendezvous /\ OnePlace(s) /\ Inherited(s) /\ Halted(s, past)
      /\ (Calm => Live(s) /\ Stashed(s, answered))
  BY DEF Fit
<1>1. /\ r \in Rendezvous /\ r.claimant = None
      /\ r.handoff = s.handoff /\ r.delivery = s.delivery /\ r.stash = s.stash
      /\ r.tombstones = s.tombstones /\ r.strays = s.strays /\ r.given = s.given
      /\ r.receiver = s.receiver /\ r.pending = s.pending
  BY <1>0 DEF Rendezvous
<1>2. /\ HandoffKeys(r) = HandoffKeys(s) /\ ClaimantKeys(r) = {}
      /\ Delivering(r) = Delivering(s) /\ Given(r) = Given(s)
  BY <1>1 DEF HandoffKeys, ClaimantKeys, Delivering, Given
<1>3. OnePlace(r)
  BY <1>0, <1>1, <1>2 DEF OnePlace
<1>4. Inherited(r)
  BY <1>0, <1>1, <1>2 DEF Inherited
<1>5. Halted(r, past)
  BY <1>0, <1>1, <1>2 DEF Halted
<1>6. Calm => Live(r) /\ Stashed(r, answered)
  BY <1>0, <1>1, <1>2 DEF Live, Stashed
<1>7. ClaimantKeys(s) \cap Places(r) = {} /\ Places(s) = Places(r) \cup ClaimantKeys(s)
  BY <1>0, <1>1, <1>2 DEF Places, OnePlace
<1> QED
  BY <1>1, <1>2, <1>3, <1>4, <1>5, <1>6, <1>7 DEF Fit

\* What is held moves on to the durable path: nothing is lost, nothing is new.
LEMMA RecoverHandoffKeeps ==
    ASSUME NEW s, NEW past, NEW answered, Fit(s, past, answered)
    PROVE  /\ Fit(RecoverHandoff(s), past, answered)
           /\ Places(RecoverHandoff(s)) = Places(s)
           /\ RecoverHandoff(s).handoff = None /\ RecoverHandoff(s).claimant = s.claimant
           /\ RecoverHandoff(s).strays = s.strays
           /\ RecoverHandoff(s).receiver = s.receiver
<1>1. CASE s.handoff = None
  BY <1>1 DEF RecoverHandoff
<1>2. CASE s.handoff # None
  <2> DEFINE r == [s EXCEPT !.handoff = None]
             K == s.handoff.keys
  <2>1. /\ Fit(r, past, answered) /\ r \in Rendezvous /\ r.handoff = None
        /\ r.claimant = s.claimant /\ r.stash = s.stash /\ r.strays = s.strays
        /\ r.receiver = s.receiver
        /\ HandoffKeys(s) \cap Places(r) = {} /\ Places(s) = Places(r) \cup HandoffKeys(s)
    BY DropHandoff
  <2>2. HandoffKeys(s) = K /\ RecoverHandoff(s) = Recover(r, K)
    BY <1>2 DEF HandoffKeys, RecoverHandoff
  <2>3. K \in SUBSET Questions /\ (Calm => K \cap answered \subseteq s.stash)
    BY <2>2, RendezvousFields DEF Fit, Stashed
  <2> HIDE DEF r, K
  <2>4. K \cap Places(r) \subseteq r.tombstones /\ (Calm => K \cap answered \subseteq r.stash)
    BY <2>1, <2>2, <2>3
  <2>5. Fit(Recover(r, K), past, answered) /\ Places(Recover(r, K)) = Places(r) \cup K
    BY <2>1, <2>3, <2>4, RecoverKeeps
  <2>6. /\ Recover(r, K).handoff = r.handoff /\ Recover(r, K).claimant = r.claimant
        /\ Recover(r, K).strays = r.strays
        /\ Recover(r, K).receiver = r.receiver
    BY <2>1, <2>3, RecoverFields
  <2> QED
    BY <2>1, <2>2, <2>5, <2>6
<1> QED
  BY <1>1, <1>2

LEMMA RecoverClaimantKeeps ==
    ASSUME NEW s, NEW past, NEW answered, Fit(s, past, answered)
    PROVE  /\ Fit(RecoverClaimant(s), past, answered)
           /\ Places(RecoverClaimant(s)) = Places(s)
           /\ RecoverClaimant(s).claimant = None /\ RecoverClaimant(s).handoff = s.handoff
           /\ RecoverClaimant(s).strays = s.strays
           /\ RecoverClaimant(s).receiver = s.receiver
<1>1. CASE s.claimant = None
  BY <1>1 DEF RecoverClaimant
<1>2. CASE s.claimant # None
  <2> DEFINE r == [s EXCEPT !.claimant = None]
             K == s.claimant.keys
  <2>1. /\ Fit(r, past, answered) /\ r \in Rendezvous /\ r.claimant = None
        /\ r.handoff = s.handoff /\ r.stash = s.stash /\ r.strays = s.strays
        /\ r.receiver = s.receiver
        /\ ClaimantKeys(s) \cap Places(r) = {} /\ Places(s) = Places(r) \cup ClaimantKeys(s)
    BY DropClaimant
  <2>2. ClaimantKeys(s) = K /\ RecoverClaimant(s) = Recover(r, K)
    BY <1>2 DEF ClaimantKeys, RecoverClaimant
  <2>3. K \in SUBSET Questions /\ (Calm => K \cap answered \subseteq s.stash)
    BY <2>2, RendezvousFields DEF Fit, Stashed
  <2> HIDE DEF r, K
  <2>4. K \cap Places(r) \subseteq r.tombstones /\ (Calm => K \cap answered \subseteq r.stash)
    BY <2>1, <2>2, <2>3
  <2>5. Fit(Recover(r, K), past, answered) /\ Places(Recover(r, K)) = Places(r) \cup K
    BY <2>1, <2>3, <2>4, RecoverKeeps
  <2>6. /\ Recover(r, K).handoff = r.handoff /\ Recover(r, K).claimant = r.claimant
        /\ Recover(r, K).strays = r.strays
        /\ Recover(r, K).receiver = r.receiver
    BY <2>1, <2>3, RecoverFields
  <2> QED
    BY <2>1, <2>2, <2>5, <2>6
<1> QED
  BY <1>1, <1>2

\* attemptRacedAnswerDelivery: from the stash into deliveries of the claimant.
LEMMA AttemptKeeps ==
    ASSUME NEW s, NEW past, NEW answered, Fit(s, past, answered)
    PROVE  /\ Fit(Attempt(s), past, answered)
           /\ Places(Attempt(s)) \subseteq Places(s)
           /\ Calm => Places(Attempt(s)) = Places(s)
           /\ Attempt(s).handoff = s.handoff /\ Attempt(s).strays = s.strays
           /\ Attempt(s).receiver = s.receiver
           /\ Attempt(s).claimant # None =>
                s.claimant # None /\ Attempt(s).claimant.token = s.claimant.token
           /\ \A q \in HandoffKeys(Attempt(s)) \cup ClaimantKeys(Attempt(s)) :
                q \in s.stash => q \in Attempt(s).stash
           /\ Attempt(s).tombstones = s.tombstones
<1>0. s \in Rendezvous /\ OnePlace(s) /\ Inherited(s) /\ Halted(s, past)
      /\ (Calm => Live(s) /\ Stashed(s, answered))
  BY DEF Fit
<1>1. CASE s.claimant = None \/ s.claimant.token # active
  BY <1>1 DEF Attempt
<1>2. CASE s.claimant # None /\ s.claimant.token = active /\ Invalid(s.claimant)
  <2> DEFINE r == [s EXCEPT !.claimant = None]
  <2>1. Attempt(s) = r
    BY <1>2 DEF Attempt
  <2>2. /\ Fit(r, past, answered) /\ r \in Rendezvous /\ r.claimant = None
        /\ r.handoff = s.handoff /\ r.stash = s.stash /\ r.strays = s.strays
        /\ r.tombstones = s.tombstones
        /\ Places(s) = Places(r) \cup ClaimantKeys(s)
    BY DropClaimant
  <2>3. r.receiver = s.receiver
    BY <1>0 DEF Rendezvous
  <2>4. ~Calm
    BY <1>0, <1>2 DEF Live
  <2> HIDE DEF r
  <2> QED
    BY <2>1, <2>2, <2>3, <2>4
<1>3. CASE s.claimant # None /\ s.claimant.token = active /\ ~Invalid(s.claimant)
  <2> DEFINE ready == s.claimant.keys \cap s.stash
             mine == [token |-> s.claimant.token, stopped |-> FALSE, expired |-> FALSE]
             d == [q \in Questions |-> IF q \in ready THEN mine ELSE s.delivery[q]]
             c == [s.claimant EXCEPT !.keys = s.claimant.keys \ ready]
             r == [s EXCEPT !.stash = s.stash \ ready, !.claimant = c, !.delivery = d]
  <2>1. Attempt(s) = r
    BY <1>0, <1>3 DEF Attempt, Rendezvous
  <2>2. /\ s.claimant.keys \subseteq Questions /\ ready \subseteq Questions
        /\ ClaimantKeys(s) = s.claimant.keys /\ s.claimant.token \in Turns
        /\ s.delivery \in [Questions -> Delivery \cup {None}]
        /\ s.claimant \in Claimant
    BY <1>0, <1>3, RendezvousFields DEF ClaimantKeys, Rendezvous
  <2>3. mine \in Delivery /\ mine # None
    <3>1. mine \in Delivery
      BY <2>2 DEF Delivery
    <3> QED
      BY <3>1, NoneAssumption
  <2>4. /\ c \in Claimant /\ c # None /\ c.keys = s.claimant.keys \ ready
        /\ c.token = s.claimant.token /\ c.stopped = s.claimant.stopped
        /\ c.expired = s.claimant.expired
    BY <2>2, NoneAssumption DEF Claimant
  <2>5. /\ d \in [Questions -> Delivery \cup {None}]
        /\ \A q \in Questions : d[q] = IF q \in ready THEN mine ELSE s.delivery[q]
    BY <2>2, <2>3
  <2>6. mine.token = s.claimant.token /\ ~mine.stopped /\ ~mine.expired
    OBVIOUS
  <2>7. s.claimant.stopped = FALSE /\ s.claimant.expired = FALSE
    BY <1>0, <1>3, RendezvousFields DEF Invalid
  <2>8. ready \subseteq s.claimant.keys /\ ready \subseteq s.stash
        /\ \A q \in s.claimant.keys \ ready : q \notin s.stash
    OBVIOUS
  <2> HIDE DEF ready, mine, d, c
  <2>9. /\ r \in Rendezvous /\ r.handoff = s.handoff /\ r.claimant = c /\ r.delivery = d
        /\ r.stash = s.stash \ ready /\ r.strays = s.strays /\ r.tombstones = s.tombstones
        /\ r.given = s.given /\ r.receiver = s.receiver /\ r.pending = s.pending
    BY <1>0, <2>4, <2>5 DEF Rendezvous
  <2> HIDE DEF r
  <2>10. /\ HandoffKeys(r) = HandoffKeys(s) /\ ClaimantKeys(r) = ClaimantKeys(s) \ ready
         /\ Delivering(r) = Delivering(s) \cup ready /\ Given(r) = Given(s)
         /\ ready \subseteq ClaimantKeys(s)
    BY <2>2, <2>3, <2>4, <2>5, <2>8, <2>9 DEF HandoffKeys, ClaimantKeys, Delivering, Given
  <2>11. OnePlace(r)
    BY <1>0, <2>9, <2>10 DEF OnePlace
  <2>12. Inherited(r)
    <3>1. \A q \in Delivering(r) \ r.strays : InheritsFrom(asker[q], r.delivery[q].token)
      <4> SUFFICES ASSUME NEW q \in Delivering(r) \ r.strays
                   PROVE  InheritsFrom(asker[q], r.delivery[q].token)
        OBVIOUS
      <4>1. CASE q \in ready
        <5>1. r.delivery[q].token = s.claimant.token
          BY <2>2, <2>5, <2>6, <2>9, <4>1
        <5>2. q \in s.claimant.keys \ s.strays
          BY <2>2, <2>9, <2>10, <4>1
        <5> QED
          BY <1>0, <1>3, <5>1, <5>2 DEF Inherited
      <4>2. CASE q \notin ready
        <5>1. q \in Delivering(s) \ s.strays /\ r.delivery[q] = s.delivery[q]
          BY <2>5, <2>9, <2>10, <4>2 DEF Delivering
        <5> QED
          BY <1>0, <5>1 DEF Inherited
      <4> QED
        BY <4>1, <4>2
    <3> QED
      BY <1>0, <1>3, <2>4, <2>9, <2>10, <3>1 DEF Inherited
  <2>13. Halted(r, past)
    <3>1. ASSUME NEW q \in Delivering(r)
          PROVE  /\ q \in stopped \ r.strays => r.delivery[q].stopped
                 /\ r.delivery[q].token \in past
                 /\ r.delivery[q].stopped =>
                      /\ r.delivery[q].token \in terminal \/ r.delivery[q].token # active
                      /\ (r.claimant # None /\ r.claimant.token = r.delivery[q].token
                            => r.claimant.stopped)
      <4>1. CASE q \in ready
        BY <1>0, <1>3, <2>2, <2>5, <2>6, <2>7, <2>8, <2>9, <2>10, <4>1 DEF Halted, Delivering
      <4>2. CASE q \notin ready
        <5>1. q \in Delivering(s) /\ r.delivery[q] = s.delivery[q]
          BY <2>2, <2>5, <2>9, <2>10, <4>2 DEF Delivering
        <5> QED
          BY <1>0, <1>3, <2>4, <2>9, <5>1 DEF Halted
      <4> QED
        BY <4>1, <4>2
    <3>2. \A q \in ClaimantKeys(r) : q \in stopped \ r.strays => r.claimant.stopped
      BY <1>0, <2>4, <2>9, <2>10 DEF Halted
    <3>3. r.claimant.token \in past
      BY <1>0, <1>3, <2>4, <2>9 DEF Halted
    <3> QED
      BY <1>0, <2>9, <2>10, <3>1, <3>2, <3>3 DEF Halted
  <2>14. Calm => Live(r)
    <3> SUFFICES ASSUME Calm PROVE Live(r)
      OBVIOUS
    <3>1. \A q \in Delivering(r) : ~Invalid(r.delivery[q])
      <4> SUFFICES ASSUME NEW q \in Delivering(r) PROVE ~Invalid(r.delivery[q])
        OBVIOUS
      <4>1. q \in Questions
        BY DEF Delivering
      <4>2. CASE q \in ready
        BY <2>5, <2>6, <2>9, <4>1, <4>2 DEF Invalid
      <4>3. CASE q \notin ready
        BY <1>0, <2>5, <2>9, <2>10, <4>1, <4>3 DEF Live
      <4> QED
        BY <4>2, <4>3
    <3> QED
      BY <1>0, <1>3, <2>4, <2>9, <3>1 DEF Live, Invalid
  <2>15. Calm => Stashed(r, answered)
    BY <1>0, <2>8, <2>9, <2>10 DEF Stashed, OnePlace
  <2>16. Places(r) = Places(s)
    BY <2>9, <2>10 DEF Places
  <2>17. \A q \in HandoffKeys(r) \cup ClaimantKeys(r) : q \in s.stash => q \in r.stash
    BY <1>0, <2>8, <2>9, <2>10 DEF OnePlace
  <2> QED
    BY <1>3, <2>1, <2>4, <2>9, <2>11, <2>12, <2>13, <2>14, <2>15, <2>16, <2>17 DEF Fit
<1> QED
  BY <1>1, <1>2, <1>3

\* mergePendingHandoffIntoLiveClaimant, after which the turn that a handoff is bound to
\* is not the one that could have claimed it.
LEMMA MergeKeeps ==
    ASSUME NEW s, NEW past, NEW answered, Fit(s, past, answered), TurnInv
    PROVE  /\ Fit(Merge(s), past, answered)
           /\ Places(Merge(s)) \subseteq Places(s)
           /\ Calm => Places(Merge(s)) = Places(s)
           /\ Merge(s).strays = s.strays
           /\ Merge(s).receiver = s.receiver
           /\ Merge(s).handoff # None => Merge(s).handoff = s.handoff
           /\ Merge(s).claimant # None =>
                s.claimant # None /\ Merge(s).claimant.token = s.claimant.token
           /\ Calm /\ (Merged(s) \/ (s.handoff # None /\ s.handoff.successor = issued))
                => Merged(Merge(s))
<1>0. s \in Rendezvous /\ OnePlace(s) /\ Inherited(s) /\ Halted(s, past)
      /\ (Calm => Live(s) /\ Stashed(s, answered))
  BY DEF Fit
<1> DEFINE idle == \/ s.claimant = None \/ s.handoff = None
                   \/ s.claimant.token # active
                   \/ /\ s.handoff.successor \notin {0, s.claimant.token}
                      /\ ~Descends(s.handoff.successor, s.claimant.token)
<1>1. CASE idle
  <2>1. Merge(s) = s
    BY <1>1 DEF Merge
  <2>2. ASSUME Calm, s.handoff # None, s.handoff.successor = issued PROVE Merged(s)
    <3>1. CASE s.claimant # None /\ s.handoff.successor # 0
               /\ s.claimant.token = s.handoff.successor
      <4>1. stage[s.claimant.token] # "ended" /\ s.claimant.token \in Turns
        BY <1>0, <2>2, <3>1, RendezvousFields DEF Live
      <4>2. s.claimant.token = active
        BY <2>2, <3>1, <4>1 DEF TurnInv, Calm
      <4> QED
        BY <1>1, <2>2, <3>1, <4>2
    <3> QED
      BY <2>2, <3>1 DEF Merged
  <2> QED
    BY <2>1, <2>2
<1>2. CASE ~idle /\ Invalid(s.handoff)
  <2> DEFINE r == [s EXCEPT !.handoff = None]
  <2>1. Merge(s) = r
    BY <1>2 DEF Merge
  <2>2. /\ Fit(r, past, answered) /\ r \in Rendezvous /\ r.handoff = None
        /\ r.claimant = s.claimant /\ r.strays = s.strays
        /\ r.receiver = s.receiver
        /\ Places(s) = Places(r) \cup HandoffKeys(s)
    BY DropHandoff
  <2>3. ~Calm
    BY <1>0, <1>2 DEF Live
  <2> HIDE DEF r, idle
  <2> QED
    BY <2>1, <2>2, <2>3
<1>3. CASE ~idle /\ ~Invalid(s.handoff)
  <2> DEFINE K == s.handoff.keys
             c == [s.claimant EXCEPT !.keys = s.claimant.keys \cup K]
             r == [s EXCEPT !.handoff = None, !.claimant = c]
  <2>1. Merge(s) = Attempt(r)
    BY <1>0, <1>3 DEF Merge, Rendezvous
  <2>2. /\ s.claimant # None /\ s.handoff # None /\ s.claimant.token = active
        /\ s.handoff.successor \in {0, s.claimant.token}
             \/ Descends(s.handoff.successor, s.claimant.token)
        /\ s.handoff.successor \in TurnOrNone /\ s.claimant.token \in Turns
        /\ s.claimant \in Claimant /\ K \subseteq Questions /\ s.claimant.keys \subseteq Questions
        /\ HandoffKeys(s) = K /\ ClaimantKeys(s) = s.claimant.keys
    BY <1>0, <1>3, RendezvousFields DEF Rendezvous, HandoffKeys, ClaimantKeys
  <2> HIDE DEF K, idle
  <2>3. /\ c \in Claimant /\ c # None /\ c.keys = s.claimant.keys \cup K
        /\ c.token = s.claimant.token /\ c.stopped = s.claimant.stopped
        /\ c.expired = s.claimant.expired
    BY <2>2, NoneAssumption DEF Claimant
  <2> HIDE DEF c
  <2>4. /\ r \in Rendezvous /\ r.handoff = None /\ r.claimant = c /\ r.delivery = s.delivery
        /\ r.stash = s.stash /\ r.strays = s.strays /\ r.tombstones = s.tombstones
        /\ r.given = s.given /\ r.receiver = s.receiver /\ r.pending = s.pending
    BY <1>0, <2>3 DEF Rendezvous
  <2> HIDE DEF r
  <2>5. /\ HandoffKeys(r) = {} /\ ClaimantKeys(r) = ClaimantKeys(s) \cup HandoffKeys(s)
        /\ Delivering(r) = Delivering(s) /\ Given(r) = Given(s)
    BY <2>2, <2>3, <2>4 DEF HandoffKeys, ClaimantKeys, Delivering, Given
  <2>6. OnePlace(r)
    BY <1>0, <2>4, <2>5 DEF OnePlace
  <2>7. \A q \in K \ s.strays : InheritsFrom(asker[q], c.token)
    <3>0. /\ s.claimant.token = issued /\ s.claimant.token # 0
          /\ s.handoff.keys = K /\ c.token = s.claimant.token
      BY <2>2, <2>3 DEF TurnInv, Turns, K
    <3>1. CASE s.handoff.successor = 0
      <4>1. \A q \in s.handoff.keys \ s.strays : InheritsFrom(asker[q], issued)
        BY <1>0, <1>3, <2>2, <3>1 DEF Inherited
      <4> QED
        BY <3>0, <4>1
    <3>2. CASE s.handoff.successor = s.claimant.token
      <4>1. \A q \in s.handoff.keys \ s.strays : InheritsFrom(asker[q], s.handoff.successor)
        BY <1>0, <1>3, <2>2, <3>0, <3>2 DEF Inherited
      <4> QED
        BY <3>0, <3>2, <4>1
    <3>3. CASE s.handoff.successor # 0 /\ Descends(s.handoff.successor, s.claimant.token)
      <4>1. s.handoff.successor \in Turns
        BY <2>2, <3>3 DEF Turns, TurnOrNone
      <4>2. InheritsFrom(s.handoff.successor, c.token)
        BY <2>3, <3>3, <4>1, DescendantsInherit
      <4>3. \A q \in K \ s.strays : InheritsFrom(asker[q], s.handoff.successor)
        BY <1>0, <1>3, <2>2, <3>3 DEF Inherited, K
      <4> QED
        BY <4>2, <4>3, InheritsOn
    <3> QED
      BY <2>2, <3>1, <3>2, <3>3
  <2>8. Inherited(r)
    BY <1>0, <2>2, <2>3, <2>4, <2>5, <2>7 DEF Inherited
  <2>9. Halted(r, past)
    <3>1. s.handoff.stopped = FALSE
      BY <1>0, <1>3, <2>2, RendezvousFields DEF Invalid
    <3>2. \A q \in ClaimantKeys(r) : q \in stopped \ r.strays => r.claimant.stopped
      BY <1>0, <2>3, <2>4, <2>5, <3>1 DEF Halted
    <3> QED
      BY <1>0, <2>2, <2>3, <2>4, <2>5, <3>2 DEF Halted
  <2>10. Calm => Live(r) /\ Stashed(r, answered)
    BY <1>0, <2>2, <2>3, <2>4, <2>5 DEF Live, Stashed, Invalid
  <2>11. Fit(r, past, answered) /\ Places(r) = Places(s)
    BY <2>4, <2>5, <2>6, <2>8, <2>9, <2>10 DEF Fit, Places
  <2>12. /\ Fit(Attempt(r), past, answered)
         /\ Places(Attempt(r)) \subseteq Places(r)
         /\ Calm => Places(Attempt(r)) = Places(r)
         /\ Attempt(r).handoff = r.handoff /\ Attempt(r).strays = r.strays
         /\ Attempt(r).receiver = r.receiver
         /\ Attempt(r).claimant # None =>
              r.claimant # None /\ Attempt(r).claimant.token = r.claimant.token
    BY <2>11, AttemptKeeps
  <2> QED
    BY <2>1, <2>2, <2>3, <2>4, <2>11, <2>12 DEF Merged
<1> QED
  BY <1>1, <1>2, <1>3

\* A handoff is put where there is none.
LEMMA SetHandoff ==
    ASSUME NEW s, NEW past, NEW answered, Fit(s, past, answered), s.handoff = None,
           NEW h \in Handoff, h.keys \cap Places(s) = {},
           ~Invalid(h) =>
             /\ h.successor # 0 =>
                  /\ InheritsFrom(h.source, h.successor)
                  /\ \A q \in h.keys \ s.strays : InheritsFrom(asker[q], h.successor)
             /\ h.successor = 0 =>
                  /\ h.source = issued /\ issued \in restarting
                  /\ \A q \in h.keys \ s.strays : InheritsFrom(asker[q], issued),
           \A q \in h.keys : q \in stopped \ s.strays => h.stopped,
           Calm => /\ ~Invalid(h) /\ h.keys \cap answered \subseteq s.stash
                   /\ h.successor # 0 => stage[h.successor] # "ended",
           NEW r, r = [s EXCEPT !.handoff = h]
    PROVE  /\ Fit(r, past, answered) /\ Places(r) = Places(s) \cup h.keys
           /\ r.handoff = h /\ r.claimant = s.claimant /\ r.strays = s.strays
           /\ r.receiver = s.receiver
<1>0. s \in Rendezvous /\ OnePlace(s) /\ Inherited(s) /\ Halted(s, past)
      /\ (Calm => Live(s) /\ Stashed(s, answered))
  BY DEF Fit
<1>1. /\ r \in Rendezvous /\ r.handoff = h
      /\ r.claimant = s.claimant /\ r.delivery = s.delivery /\ r.stash = s.stash
      /\ r.tombstones = s.tombstones /\ r.strays = s.strays /\ r.given = s.given
      /\ r.receiver = s.receiver /\ r.pending = s.pending
  BY <1>0 DEF Rendezvous
<1>2. h # None /\ h.keys \subseteq Questions
  <2>1. h.keys \subseteq Questions
    BY DEF Handoff
  <2> QED
    BY <2>1, NoneAssumption
<1>3. /\ HandoffKeys(s) = {} /\ HandoffKeys(r) = h.keys /\ ClaimantKeys(r) = ClaimantKeys(s)
      /\ Delivering(r) = Delivering(s) /\ Given(r) = Given(s)
  BY <1>1, <1>2 DEF HandoffKeys, ClaimantKeys, Delivering, Given
<1>4. OnePlace(r)
  BY <1>0, <1>1, <1>2, <1>3 DEF OnePlace, Places
<1>5. Inherited(r)
  BY <1>0, <1>1, <1>3 DEF Inherited
<1>6. Halted(r, past)
  BY <1>0, <1>1, <1>3 DEF Halted
<1>7. Calm => Live(r) /\ Stashed(r, answered)
  BY <1>0, <1>1, <1>3 DEF Live, Stashed
<1>8. Places(r) = Places(s) \cup h.keys
  BY <1>1, <1>3 DEF Places
<1> QED
  BY <1>1, <1>4, <1>5, <1>6, <1>7, <1>8 DEF Fit

\* Keys that source may leave: they are nowhere, and were not asked before a Stop.
Owing(s, K, source, answered) ==
    /\ K \in SUBSET Questions /\ K \cap Places(s) = {} /\ source \in Turns
    /\ \A q \in K \ s.strays : InheritsFrom(asker[q], source)
    /\ \A q \in K : q \notin stopped \ s.strays
    /\ source = issued => issued \in restarting
    /\ Calm => K \cap answered \subseteq s.stash

\* registerRacedAnswerHandoff: keys that are nowhere are in the handoff, or recovered.
LEMMA RegisterKeeps ==
    ASSUME NEW s, NEW past, NEW answered, Fit(s, past, answered), TurnInv,
           NEW K, NEW source, Owing(s, K, source, answered), NEW expired \in BOOLEAN,
           NEW r, r = Register(s, K, source, expired)
    PROVE  /\ Fit(r, past, answered)
           /\ Places(r) \subseteq Places(s) \cup K
           /\ Calm /\ ~expired => Places(r) = Places(s) \cup K
           /\ r.strays = s.strays /\ r.receiver = s.receiver /\ r.claimant = s.claimant
           /\ Merged(s) => Merged(r) \/ (r.handoff # None /\ r.handoff.successor = issued)
           /\ r.handoff # None =>
                \/ r.handoff.successor = 0 \/ r.handoff.successor = issued
                \/ s.handoff # None /\ r.handoff.successor = s.handoff.successor
<1> DEFINE old == s.handoff
           usable == old # None /\ ~Invalid(old)
           bound == IF LiveSuccessor(source) THEN issued ELSE 0
           joins == usable /\ old.successor = bound
           e == [s EXCEPT !.handoff = None]
<1>0. s \in Rendezvous /\ OnePlace(s) /\ Inherited(s) /\ Halted(s, past)
      /\ (Calm => Live(s) /\ Stashed(s, answered))
  BY DEF Fit
<1>a. /\ K \in SUBSET Questions /\ K \cap Places(s) = {} /\ source \in Turns
      /\ \A q \in K \ s.strays : InheritsFrom(asker[q], source)
      /\ \A q \in K : q \notin stopped \ s.strays
      /\ source = issued => issued \in restarting
      /\ Calm => K \cap answered \subseteq s.stash
  BY DEF Owing
<1>1. /\ Fit(e, past, answered) /\ e \in Rendezvous /\ e.handoff = None
      /\ e.claimant = s.claimant /\ e.stash = s.stash /\ e.strays = s.strays
      /\ e.receiver = s.receiver
      /\ HandoffKeys(s) \cap Places(e) = {}
      /\ Places(s) = Places(e) \cup HandoffKeys(s)
  BY DropHandoff
<1>2. /\ Calm => old = None \/ usable
      /\ old # None => HandoffKeys(s) = old.keys /\ old.keys \subseteq Questions /\ old \in Handoff
                       /\ old.stopped \in BOOLEAN
      /\ old = None => HandoffKeys(s) = {}
      /\ usable => old.stopped = FALSE /\ \A q \in old.keys : q \notin stopped \ s.strays
  BY <1>0, RendezvousFields DEF Live, HandoffKeys, Rendezvous, Invalid, Halted
<1>3. CASE expired
  <2>1. r = s
    BY <1>3 DEF Register
  <2> QED
    BY <1>3, <2>1
<1>4. CASE ~expired /\ usable /\ old.source = source
  <2> DEFINE h == [old EXCEPT !.keys = old.keys \cup K]
  <2>1. r = [e EXCEPT !.handoff = h]
    BY <1>0, <1>4 DEF Register, Rendezvous
  <2>2. /\ h \in Handoff /\ h.keys = old.keys \cup K /\ h.source = old.source
        /\ h.successor = old.successor /\ h.stopped = old.stopped /\ h.expired = old.expired
    BY <1>a, <1>2, <1>4 DEF Handoff
  <2> HIDE DEF h
  <2>3. ~Invalid(h)
    BY <1>4, <2>2 DEF Invalid
  <2>4. h.successor # 0 =>
          /\ InheritsFrom(h.source, h.successor)
          /\ \A q \in h.keys \ s.strays : InheritsFrom(asker[q], h.successor)
    BY <1>a, <1>0, <1>4, <2>2, InheritsOn DEF Inherited
  <2>5. h.successor = 0 =>
          /\ h.source = issued /\ issued \in restarting
          /\ \A q \in h.keys \ s.strays : InheritsFrom(asker[q], issued)
    BY <1>a, <1>0, <1>4, <2>2 DEF Inherited
  <2>6. h.keys \cap Places(e) = {}
    BY <1>a, <1>1, <1>2, <1>4, <2>2
  <2>7. \A q \in h.keys : q \in stopped \ e.strays => h.stopped
    BY <1>a, <1>1, <1>2, <1>4, <2>2
  <2>8. Calm => /\ h.keys \cap answered \subseteq e.stash
                /\ h.successor # 0 => stage[h.successor] # "ended"
    BY <1>a, <1>0, <1>1, <1>2, <1>4, <2>2 DEF Live, Stashed
  <2> HIDE DEF e, usable
  <2>9. /\ Fit(r, past, answered) /\ Places(r) = Places(e) \cup h.keys
        /\ r.handoff = h /\ r.claimant = e.claimant /\ r.strays = e.strays
        /\ r.receiver = e.receiver
    BY <1>1, <2>1, <2>2, <2>3, <2>4, <2>5, <2>6, <2>7, <2>8, SetHandoff
  <2>10. Places(r) = Places(s) \cup K
    BY <1>1, <1>2, <1>4, <2>2, <2>9 DEF usable
  <2>11. Merged(s) => Merged(r)
    BY <1>1, <1>4, <2>2, <2>9 DEF Merged, usable
  <2>12. old # None /\ r.handoff.successor = s.handoff.successor
    BY <1>4, <2>2, <2>9 DEF usable
  <2> QED
    BY <1>1, <2>9, <2>10, <2>11, <2>12
<1>5. CASE ~expired /\ ~(usable /\ old.source = source)
           /\ issued # source /\ ~LiveSuccessor(source)
  <2> DEFINE M == K \cup (IF usable THEN old.keys ELSE {})
             b == IF usable THEN e ELSE s
  <2>1. r = Recover(b, M)
    <3>1. b = [s EXCEPT !.handoff = IF usable THEN None ELSE s.handoff]
      BY <1>0 DEF Rendezvous
    <3> QED
      BY <1>5, <3>1 DEF Register
  <2>2. /\ Fit(b, past, answered) /\ M \in SUBSET Questions /\ M \cap Places(b) = {}
        /\ Places(s) \cup K = Places(b) \cup M
        /\ b.strays = s.strays /\ b.claimant = s.claimant /\ b.stash = s.stash
        /\ b.receiver = s.receiver
        /\ b.handoff \in {None, s.handoff} /\ b \in Rendezvous
    <3>1. CASE usable
      BY <1>a, <1>1, <1>2, <3>1
    <3>2. CASE ~usable
      BY <1>a, <1>0, <3>2
    <3> QED
      BY <3>1, <3>2
  <2>3. Calm => M \cap answered \subseteq b.stash
    BY <1>a, <1>0, <1>2, <2>2 DEF Stashed
  <2> HIDE DEF M, b, e, usable
  <2>4. Fit(Recover(b, M), past, answered) /\ Places(Recover(b, M)) = Places(b) \cup M
    BY <2>2, <2>3, RecoverKeeps
  <2>5. /\ Recover(b, M).handoff = b.handoff /\ Recover(b, M).claimant = b.claimant
        /\ Recover(b, M).strays = b.strays
        /\ Recover(b, M).receiver = b.receiver
    BY <2>2, RecoverFields DEF Fit
  <2>6. Merged(s) => Merged(r)
    BY <2>1, <2>2, <2>5 DEF Merged
  <2> QED
    BY <2>1, <2>2, <2>4, <2>5, <2>6
<1>6. CASE ~expired /\ ~(usable /\ old.source = source)
           /\ ~(issued # source /\ ~LiveSuccessor(source))
  <2> DEFINE M == K \cup (IF joins THEN old.keys ELSE {})
             h == [keys |-> M, source |-> source, successor |-> bound,
                   stopped |-> FALSE, expired |-> FALSE]
             b == IF usable /\ ~joins THEN RecoverHandoff(s) ELSE e
  <2>0. /\ Fit(RecoverHandoff(s), past, answered)
        /\ Places(RecoverHandoff(s)) = Places(s)
        /\ RecoverHandoff(s).handoff = None /\ RecoverHandoff(s).claimant = s.claimant
        /\ RecoverHandoff(s).strays = s.strays /\ RecoverHandoff(s) \in Rendezvous
        /\ RecoverHandoff(s).receiver = s.receiver
    BY RecoverHandoffKeeps DEF Fit
  <2>a. RecoverHandoff(s).stash = s.stash
    <3>1. CASE s.handoff = None
      BY <3>1 DEF RecoverHandoff
    <3>2. CASE s.handoff # None
      <4>1. RecoverHandoff(s) = Recover(e, old.keys)
        BY <3>2 DEF RecoverHandoff
      <4>2. old.keys \in SUBSET Questions
        BY <1>2, <3>2
      <4> HIDE DEF e, old
      <4>3. Recover(e, old.keys).stash = e.stash
        BY <1>1, <4>2, RecoverFields
      <4> QED
        BY <1>1, <4>1, <4>3
    <3> QED
      BY <3>1, <3>2
  <2>1. r = [b EXCEPT !.handoff = h]
    <3>1. CASE usable /\ ~joins
      BY <1>6, <3>1 DEF Register
    <3>2. CASE ~(usable /\ ~joins)
      <4>1. r = [s EXCEPT !.handoff = h]
        BY <1>6, <3>2 DEF Register
      <4> QED
        BY <1>0, <3>2, <4>1 DEF Rendezvous
    <3> QED
      BY <3>1, <3>2
  <2>2. /\ Fit(b, past, answered) /\ b.handoff = None
        /\ b.strays = s.strays /\ b.claimant = s.claimant /\ b.stash = s.stash
        /\ b.receiver = s.receiver
        /\ M \cap Places(b) = {} /\ M \subseteq Questions
        /\ Places(b) \cup M \subseteq Places(s) \cup K
        /\ Calm => Places(b) \cup M = Places(s) \cup K
    <3>1. CASE usable /\ ~joins
      BY <1>a, <2>0, <2>a, <3>1
    <3>2. CASE joins
      BY <1>a, <1>1, <1>2, <3>2
    <3>3. CASE ~usable
      BY <1>a, <1>1, <1>2, <3>3
    <3> QED
      BY <3>1, <3>2, <3>3
  <2>3. \A q \in M : q \notin stopped \ s.strays
    BY <1>a, <1>2
  <2>4. Calm => M \cap answered \subseteq b.stash
    BY <1>a, <1>0, <1>2, <2>2 DEF Stashed
  <2>5. bound \in TurnOrNone /\ (bound # 0 => LiveSuccessor(source) /\ bound = issued)
        /\ (bound = 0 => source = issued)
    <3>1. CASE LiveSuccessor(source)
      <4>1. heir[source] # 0
        BY <1>a, <3>1, DescendantsInherit DEF LiveSuccessor, Reaches
      <4>2. issued # 0 /\ issued \in TurnOrNone
        BY <1>a, <4>1, BoundsAssumption DEF TurnInv, Turns, TurnOrNone
      <4> QED
        BY <3>1, <4>2
    <3>2. CASE ~LiveSuccessor(source)
      BY <1>6, <3>2, BoundsAssumption DEF TurnOrNone
    <3> QED
      BY <3>1, <3>2
  <2>6. /\ h \in Handoff /\ h.keys = M /\ h.source = source /\ h.successor = bound
        /\ h.stopped = FALSE /\ h.expired = FALSE
    BY <1>a, <2>2, <2>5 DEF Handoff
  <2>7. \A q \in M \ s.strays : bound # 0 => InheritsFrom(asker[q], bound)
    <3> SUFFICES ASSUME NEW q \in M \ s.strays, bound # 0 PROVE InheritsFrom(asker[q], bound)
      OBVIOUS
    <3>1. CASE q \in K
      <4>1. InheritsFrom(source, bound)
        BY <1>a, <2>5, DescendantsInherit DEF LiveSuccessor
      <4> QED
        BY <1>a, <3>1, <4>1, InheritsOn
    <3>2. CASE q \notin K
      BY <1>0, <3>2 DEF Inherited
    <3> QED
      BY <3>1, <3>2
  <2>8. \A q \in M \ s.strays : bound = 0 => InheritsFrom(asker[q], issued)
    BY <1>a, <1>0, <2>5 DEF Inherited
  <2>9. bound # 0 => InheritsFrom(source, bound) /\ stage[bound] # "ended"
    BY <1>a, <2>5, DescendantsInherit DEF LiveSuccessor
  <2>10. ~Invalid(h)
    BY <2>6 DEF Invalid
  <2> HIDE DEF M, h, b, e, usable, bound, joins
  <2>11. h.successor # 0 =>
          /\ InheritsFrom(h.source, h.successor)
          /\ \A q \in h.keys \ b.strays : InheritsFrom(asker[q], h.successor)
    BY <2>2, <2>6, <2>7, <2>9
  <2>12. h.successor = 0 =>
          /\ h.source = issued /\ issued \in restarting
          /\ \A q \in h.keys \ b.strays : InheritsFrom(asker[q], issued)
    BY <1>a, <2>2, <2>5, <2>6, <2>8
  <2>13. \A q \in h.keys : q \in stopped \ b.strays => h.stopped
    BY <2>2, <2>3, <2>6
  <2>14. Calm => /\ h.keys \cap answered \subseteq b.stash
                 /\ h.successor # 0 => stage[h.successor] # "ended"
    BY <2>4, <2>6, <2>9
  <2>15. h.keys \cap Places(b) = {}
    BY <2>2, <2>6
  <2>16. /\ Fit(r, past, answered) /\ Places(r) = Places(b) \cup h.keys
         /\ r.handoff = h /\ r.claimant = b.claimant /\ r.strays = b.strays
         /\ r.receiver = b.receiver
    BY <2>1, <2>2, <2>6, <2>10, <2>11, <2>12, <2>13, <2>14, <2>15, SetHandoff
  <2>17. Merged(r) \/ (r.handoff # None /\ r.handoff.successor = issued)
    BY <2>5, <2>6, <2>16 DEF Merged
  <2>18. r.handoff.successor = 0 \/ r.handoff.successor = issued
    BY <2>5, <2>6, <2>16
  <2> QED
    BY <2>2, <2>6, <2>16, <2>17, <2>18
<1> HIDE DEF usable, joins, bound, e, old
<1> QED
  BY <1>3, <1>4, <1>5, <1>6

\* purgeRacedAnswerForKey
LEMMA PurgeKeeps ==
    ASSUME NEW s, NEW past, NEW answered, Fit(s, past, answered), NEW q \in Questions
    PROVE  /\ Fit(Purge(s, q), past, answered)
           /\ Places(Purge(s, q)) \subseteq Places(s)
           /\ Places(s) \subseteq Places(Purge(s, q)) \cup {q}
           /\ Calm /\ q \in answered => Places(Purge(s, q)) = Places(s)
           /\ Merged(s) => Merged(Purge(s, q))
           /\ Purge(s, q).strays = s.strays /\ Purge(s, q).receiver = s.receiver
<1>0. s \in Rendezvous /\ OnePlace(s) /\ Inherited(s) /\ Halted(s, past)
      /\ (Calm => Live(s) /\ Stashed(s, answered))
  BY DEF Fit
<1>1. CASE q \in s.stash
  BY <1>1 DEF Purge
<1>2. CASE q \notin s.stash
  <2> DEFINE h == IF s.handoff = None \/ s.handoff.keys \ {q} = {} THEN None
                  ELSE [s.handoff EXCEPT !.keys = s.handoff.keys \ {q}]
             c == IF s.claimant = None \/ q \notin s.claimant.keys THEN s.claimant
                  ELSE IF s.claimant.keys \ {q} = {} /\ s.claimant.token # active THEN None
                  ELSE [s.claimant EXCEPT !.keys = s.claimant.keys \ {q}]
             r == [s EXCEPT !.tombstones = s.tombstones \ {q}, !.handoff = h, !.claimant = c]
  <2>1. Purge(s, q) = r
    BY <1>0, <1>2 DEF Purge, Rendezvous
  <2>2. /\ h \in Handoff \cup {None}
        /\ h # None => /\ s.handoff # None /\ h.keys = s.handoff.keys \ {q}
                       /\ h.source = s.handoff.source /\ h.successor = s.handoff.successor
                       /\ h.stopped = s.handoff.stopped /\ h.expired = s.handoff.expired
        /\ h = None => HandoffKeys(s) \subseteq {q}
    <3>1. CASE s.handoff = None
      BY <3>1 DEF HandoffKeys
    <3>2. CASE s.handoff # None /\ s.handoff.keys \ {q} = {}
      BY <3>2 DEF HandoffKeys
    <3>3. CASE s.handoff # None /\ s.handoff.keys \ {q} # {}
      <4>1. s.handoff \in Handoff
        BY <1>0, <3>3 DEF Rendezvous
      <4>2. h = [s.handoff EXCEPT !.keys = s.handoff.keys \ {q}]
        BY <3>3
      <4>3. /\ h \in Handoff /\ h.keys = s.handoff.keys \ {q}
            /\ h.source = s.handoff.source /\ h.successor = s.handoff.successor
            /\ h.stopped = s.handoff.stopped /\ h.expired = s.handoff.expired
        BY <4>1, <4>2 DEF Handoff
      <4> QED
        BY <3>3, <4>3, NoneAssumption
    <3> QED
      BY <3>1, <3>2, <3>3
  <2>3. /\ c \in Claimant \cup {None}
        /\ c # None => /\ s.claimant # None /\ c.keys = s.claimant.keys \ {q}
                       /\ c.token = s.claimant.token /\ c.stopped = s.claimant.stopped
                       /\ c.expired = s.claimant.expired
        /\ c = None => ClaimantKeys(s) \subseteq {q}
    <3>1. CASE s.claimant = None
      BY <3>1 DEF ClaimantKeys
    <3>2. CASE s.claimant # None /\ q \notin s.claimant.keys
      BY <1>0, <3>2 DEF Rendezvous
    <3>3. CASE s.claimant # None /\ q \in s.claimant.keys
               /\ s.claimant.keys \ {q} = {} /\ s.claimant.token # active
      BY <3>3 DEF ClaimantKeys
    <3>4. CASE s.claimant # None /\ q \in s.claimant.keys
               /\ ~(s.claimant.keys \ {q} = {} /\ s.claimant.token # active)
      <4>1. s.claimant \in Claimant
        BY <1>0, <3>4 DEF Rendezvous
      <4>2. c = [s.claimant EXCEPT !.keys = s.claimant.keys \ {q}]
        BY <3>4
      <4>3. /\ c \in Claimant /\ c.keys = s.claimant.keys \ {q}
            /\ c.token = s.claimant.token /\ c.stopped = s.claimant.stopped
            /\ c.expired = s.claimant.expired
        BY <4>1, <4>2 DEF Claimant
      <4> QED
        BY <3>4, <4>3, NoneAssumption
    <3> QED
      BY <3>1, <3>2, <3>3, <3>4
  <2> HIDE DEF h, c
  <2>4. /\ r \in Rendezvous /\ r.handoff = h /\ r.claimant = c /\ r.delivery = s.delivery
        /\ r.stash = s.stash /\ r.strays = s.strays /\ r.tombstones = s.tombstones \ {q}
        /\ r.given = s.given /\ r.receiver = s.receiver /\ r.pending = s.pending
    BY <1>0, <2>2, <2>3 DEF Rendezvous
  <2> HIDE DEF r
  <2>5. /\ HandoffKeys(r) = HandoffKeys(s) \ {q} /\ ClaimantKeys(r) = ClaimantKeys(s) \ {q}
        /\ Delivering(r) = Delivering(s) /\ Given(r) = Given(s)
    BY <2>2, <2>3, <2>4 DEF HandoffKeys, ClaimantKeys, Delivering, Given
  <2>6. OnePlace(r)
    BY <1>0, <2>4, <2>5 DEF OnePlace
  <2>7. Inherited(r)
    <3>1. r.handoff # None => s.handoff # None /\ r.handoff.keys \subseteq s.handoff.keys
                              /\ (Invalid(r.handoff) <=> Invalid(s.handoff))
      BY <2>2, <2>4 DEF Invalid
    <3>2. r.handoff # None /\ ~Invalid(r.handoff) =>
            /\ r.handoff.successor # 0 =>
                 /\ InheritsFrom(r.handoff.source, r.handoff.successor)
                 /\ \A p \in r.handoff.keys \ r.strays : InheritsFrom(asker[p], r.handoff.successor)
            /\ r.handoff.successor = 0 =>
                 /\ r.handoff.source = issued /\ issued \in restarting
                 /\ \A p \in r.handoff.keys \ r.strays : InheritsFrom(asker[p], issued)
      BY <1>0, <2>2, <2>4, <3>1 DEF Inherited
    <3> QED
      BY <1>0, <2>3, <2>4, <2>5, <3>2 DEF Inherited
  <2>8. Halted(r, past)
    BY <1>0, <2>2, <2>3, <2>4, <2>5 DEF Halted, HandoffKeys, ClaimantKeys
  <2>9. Calm => Live(r) /\ Stashed(r, answered)
    BY <1>0, <2>2, <2>3, <2>4, <2>5 DEF Live, Stashed, Invalid
  <2>10. Merged(s) => Merged(r)
    BY <2>2, <2>3, <2>4 DEF Merged
  <2>11. Places(r) \subseteq Places(s) /\ Places(s) \subseteq Places(r) \cup {q}
    BY <2>4, <2>5 DEF Places
  <2>12. Calm /\ q \in answered => Places(r) = Places(s)
    BY <1>0, <1>2, <2>4, <2>5 DEF Places, Stashed
  <2> QED
    BY <2>1, <2>4, <2>6, <2>7, <2>8, <2>9, <2>10, <2>11, <2>12 DEF Fit
<1> QED
  BY <1>1, <1>2


\* A claimant is put where there is none.
LEMMA SetClaimant ==
    ASSUME NEW s, NEW past, NEW answered, Fit(s, past, answered), s.claimant = None,
           NEW c \in Claimant, c.keys \cap Places(s) = {}, c.token \in past,
           \A q \in c.keys \ s.strays : InheritsFrom(asker[q], c.token),
           \A q \in c.keys : q \in stopped \ s.strays => c.stopped,
           \A q \in Delivering(s) :
             s.delivery[q].stopped /\ s.delivery[q].token = c.token => c.stopped,
           Calm => /\ ~Invalid(c) /\ c.keys \cap answered \subseteq s.stash
                   /\ stage[c.token] # "ended",
           NEW r, r = [s EXCEPT !.claimant = c]
    PROVE  /\ Fit(r, past, answered) /\ Places(r) = Places(s) \cup c.keys
           /\ r.claimant = c /\ r.handoff = s.handoff /\ r.strays = s.strays
           /\ r.receiver = s.receiver
<1>0. s \in Rendezvous /\ OnePlace(s) /\ Inherited(s) /\ Halted(s, past)
      /\ (Calm => Live(s) /\ Stashed(s, answered))
  BY DEF Fit
<1>1. /\ r \in Rendezvous /\ r.claimant = c
      /\ r.handoff = s.handoff /\ r.delivery = s.delivery /\ r.stash = s.stash
      /\ r.tombstones = s.tombstones /\ r.strays = s.strays /\ r.given = s.given
      /\ r.receiver = s.receiver /\ r.pending = s.pending
  BY <1>0 DEF Rendezvous
<1>2. c # None /\ c.keys \subseteq Questions
  <2>1. c.keys \subseteq Questions
    BY DEF Claimant
  <2> QED
    BY <2>1, NoneAssumption
<1>3. /\ ClaimantKeys(s) = {} /\ ClaimantKeys(r) = c.keys /\ HandoffKeys(r) = HandoffKeys(s)
      /\ Delivering(r) = Delivering(s) /\ Given(r) = Given(s)
  BY <1>1, <1>2 DEF HandoffKeys, ClaimantKeys, Delivering, Given
<1>4. OnePlace(r)
  BY <1>0, <1>1, <1>2, <1>3 DEF OnePlace, Places
<1>5. Inherited(r)
  BY <1>0, <1>1, <1>3 DEF Inherited
<1>6. Halted(r, past)
  BY <1>0, <1>1, <1>3 DEF Halted
<1>7. Calm => Live(r) /\ Stashed(r, answered)
  BY <1>0, <1>1, <1>3 DEF Live, Stashed
<1>8. Places(r) = Places(s) \cup c.keys
  BY <1>1, <1>3 DEF Places
<1> QED
  BY <1>1, <1>4, <1>5, <1>6, <1>7, <1>8 DEF Fit

\* A delivery ends, and leaves its answer in the stash, or used.
LEMMA EndDelivery ==
    ASSUME NEW s, NEW past, NEW answered, Fit(s, past, answered), NEW q \in Delivering(s),
           NEW r \in Rendezvous, r.handoff = s.handoff, r.claimant = s.claimant,
           r.delivery = [s.delivery EXCEPT ![q] = None], s.stash \subseteq r.stash,
           r.tombstones = s.tombstones, r.strays = s.strays, r.given = s.given,
           r.receiver = s.receiver, r.pending = s.pending
    PROVE  /\ Fit(r, past, answered) /\ q \notin Places(r) /\ Places(s) = Places(r) \cup {q}
           /\ Delivering(r) = Delivering(s) \ {q}
           /\ \A p \in Delivering(r) : r.delivery[p] = s.delivery[p]
<1>0. s \in Rendezvous /\ OnePlace(s) /\ Inherited(s) /\ Halted(s, past)
      /\ (Calm => Live(s) /\ Stashed(s, answered))
  BY DEF Fit
<1>1. q \in Questions /\ s.delivery \in [Questions -> Delivery \cup {None}]
  BY <1>0, RendezvousFields DEF Delivering
<1> DEFINE d == [s.delivery EXCEPT ![q] = None]
<1>2. /\ d \in [Questions -> Delivery \cup {None}] /\ d[q] = None
      /\ \A p \in Questions : p # q => d[p] = s.delivery[p]
  BY <1>1
<1>3. r.delivery = d
  OBVIOUS
<1> HIDE DEF d
<1>4. /\ HandoffKeys(r) = HandoffKeys(s) /\ ClaimantKeys(r) = ClaimantKeys(s)
      /\ Delivering(r) = Delivering(s) \ {q} /\ Given(r) = Given(s)
      /\ \A p \in Delivering(r) : r.delivery[p] = s.delivery[p]
  BY <1>1, <1>2, <1>3 DEF HandoffKeys, ClaimantKeys, Delivering, Given
<1>5. OnePlace(r)
  BY <1>0, <1>3, <1>4 DEF OnePlace
<1>6. Inherited(r)
  BY <1>0, <1>3, <1>4 DEF Inherited
<1>7. Halted(r, past)
  BY <1>0, <1>3, <1>4 DEF Halted
<1>8. Calm => Live(r) /\ Stashed(r, answered)
  BY <1>0, <1>3, <1>4 DEF Live, Stashed
<1>9. q \notin Places(r) /\ Places(s) = Places(r) \cup {q}
  BY <1>0, <1>3, <1>4 DEF Places, OnePlace
<1> QED
  BY <1>3, <1>4, <1>5, <1>6, <1>7, <1>8, <1>9 DEF Fit

\* A delivery fails: the answer is where it can be delivered again.
LEMMA FailKeeps ==
    ASSUME NEW s, NEW past, NEW answered, Fit(s, past, answered), TurnInv,
           NEW q \in Delivering(s)
    PROVE  /\ Fit(Fail(s, q), past, answered)
           /\ Places(Fail(s, q)) \subseteq Places(s)
           /\ Calm => Places(Fail(s, q)) = Places(s)
           /\ Calm /\ Merged(s) => Merged(Fail(s, q))
           /\ Fail(s, q).strays = s.strays /\ Fail(s, q).receiver = s.receiver
<1> DEFINE d == s.delivery[q]
           m == IF TriesAgain(s.claimant) THEN s.timers + 1 ELSE s.timers
           w == s.stash \cup {q}
           n == [s.delivery EXCEPT ![q] = None]
           back == [s EXCEPT !.stash = w, !.delivery = n, !.timers = s.timers]
           late == [s EXCEPT !.stash = w, !.delivery = n, !.timers = m]
           r == Fail(s, q)
<1>0. s \in Rendezvous /\ OnePlace(s) /\ Inherited(s) /\ Halted(s, past)
      /\ (Calm => Live(s) /\ Stashed(s, answered))
  BY DEF Fit
<1>1. /\ q \in Questions /\ s.timers \in Nat /\ m \in Nat
      /\ w \in SUBSET Questions /\ s.stash \subseteq w
      /\ d.token \in Turns /\ d.stopped \in BOOLEAN /\ d.expired \in BOOLEAN
      /\ s.claimant # None => s.claimant \in Claimant
      /\ s.given \in [Questions -> Nat] /\ s.delivery \in [Questions -> Delivery \cup {None}]
  BY <1>0, RendezvousFields DEF Delivering, Rendezvous
<1>2. /\ Fit(back, past, answered) /\ q \notin Places(back) /\ Places(s) = Places(back) \cup {q}
      /\ back.handoff = s.handoff /\ back.claimant = s.claimant /\ back.strays = s.strays
      /\ back.receiver = s.receiver /\ back.given = s.given /\ back.pending = s.pending
      /\ back.stash = w
  <2>1. n \in [Questions -> Delivery \cup {None}]
    BY <1>1
  <2> HIDE DEF w, n
  <2>2. /\ back \in Rendezvous /\ back.handoff = s.handoff /\ back.claimant = s.claimant
        /\ back.delivery = n /\ back.stash = w /\ back.tombstones = s.tombstones
        /\ back.strays = s.strays /\ back.given = s.given
        /\ back.receiver = s.receiver /\ back.pending = s.pending
    BY <1>0, <1>1, <2>1 DEF Rendezvous
  <2> HIDE DEF back, d, m, late, r
  <2>3. back.delivery = [s.delivery EXCEPT ![q] = None] /\ s.stash \subseteq back.stash
    BY <1>1, <2>2 DEF n
  <2> QED
    BY <2>2, <2>3, EndDelivery
<1>a. /\ Fit(late, past, answered) /\ q \notin Places(late)
      /\ Places(s) = Places(late) \cup {q}
      /\ late.handoff = s.handoff /\ late.claimant = s.claimant /\ late.strays = s.strays
      /\ late.receiver = s.receiver /\ late.stash = w
      /\ Delivering(late) = Delivering(s) \ {q}
      /\ \A p \in Delivering(late) : late.delivery[p] = s.delivery[p]
  <2>1. n \in [Questions -> Delivery \cup {None}]
    BY <1>1
  <2> HIDE DEF w, n, m
  <2>2. /\ late \in Rendezvous /\ late.handoff = s.handoff /\ late.claimant = s.claimant
        /\ late.delivery = n /\ late.stash = w /\ late.tombstones = s.tombstones
        /\ late.strays = s.strays /\ late.given = s.given
        /\ late.receiver = s.receiver /\ late.pending = s.pending
    BY <1>0, <1>1, <2>1 DEF Rendezvous
  <2> HIDE DEF back, d, late, r
  <2>3. late.delivery = [s.delivery EXCEPT ![q] = None] /\ s.stash \subseteq late.stash
    BY <1>1, <2>2 DEF n
  <2>4. /\ Fit(late, past, answered) /\ q \notin Places(late)
        /\ Places(s) = Places(late) \cup {q} /\ Delivering(late) = Delivering(s) \ {q}
        /\ \A p \in Delivering(late) : late.delivery[p] = s.delivery[p]
    BY <2>2, <2>3, EndDelivery, SMTT(20)
  <2> QED
    BY <2>2, <2>4
<1>3. /\ q \in stopped \ s.strays => d.stopped
      /\ (d.stopped /\ s.claimant # None /\ s.claimant.token = d.token => s.claimant.stopped)
      /\ (q \notin s.strays => InheritsFrom(asker[q], d.token)) /\ d.token \in past
      /\ Calm => ~Invalid(d)
  BY <1>0 DEF Halted, Inherited, Live
<1>4. CASE s.claimant # None /\ s.claimant.token = d.token
  <2> DEFINE e == [late EXCEPT !.claimant = None]
             k == IF TriesAgain(s.claimant) THEN s.claimant.retries + 1
                  ELSE s.claimant.retries
             c == [s.claimant EXCEPT !.keys = s.claimant.keys \cup {q}, !.retries = k]
  <2>1. r = [e EXCEPT !.claimant = c]
    <3>1. r = [late EXCEPT !.claimant = c]
      BY <1>0, <1>4 DEF Fail, Rendezvous
    <3> QED
      BY <1>0, <3>1 DEF Rendezvous
  <2>3. k \in 0..MaxRetries
    <3>1. s.claimant.retries \in 0..MaxRetries
      BY <1>0, <1>4, RendezvousFields
    <3> QED
      BY <3>1, BoundsAssumption DEF TriesAgain
  <2> HIDE DEF w, m, k, late, n, r
  <2>4. /\ Fit(e, past, answered) /\ e.claimant = None /\ e.handoff = s.handoff
        /\ e.delivery = late.delivery /\ e.stash = w /\ e.strays = s.strays
        /\ e.receiver = s.receiver /\ Delivering(e) = Delivering(late)
        /\ ClaimantKeys(s) \cap Places(e) = {} /\ Places(late) = Places(e) \cup ClaimantKeys(s)
    <3>1. ClaimantKeys(late) = ClaimantKeys(s)
      BY <1>a DEF ClaimantKeys
    <3> QED
      BY <1>a, <3>1, DropClaimant
  <2>5. /\ c \in Claimant /\ c.keys = ClaimantKeys(s) \cup {q} /\ c.token = s.claimant.token
        /\ c.stopped = s.claimant.stopped /\ c.expired = s.claimant.expired
    BY <1>1, <1>4, <2>3 DEF Claimant, ClaimantKeys
  <2> HIDE DEF c, e, d, back
  <2>6. c.keys \cap Places(e) = {}
    BY <1>a, <2>4, <2>5
  <2>7. c.token \in past
    BY <1>3, <1>4, <2>5
  <2>8. \A p \in c.keys \ e.strays : InheritsFrom(asker[p], c.token)
    BY <1>0, <1>3, <1>4, <2>4, <2>5 DEF Inherited, ClaimantKeys
  <2>9. \A p \in c.keys : p \in stopped \ e.strays => c.stopped
    BY <1>0, <1>3, <1>4, <2>4, <2>5 DEF Halted
  <2>10. \A p \in Delivering(e) :
           e.delivery[p].stopped /\ e.delivery[p].token = c.token => c.stopped
    BY <1>0, <1>4, <1>a, <2>4, <2>5 DEF Halted
  <2>11. Calm => /\ ~Invalid(c) /\ c.keys \cap answered \subseteq e.stash
                 /\ stage[c.token] # "ended"
    BY <1>0, <1>4, <2>4, <2>5 DEF Live, Invalid, Stashed, w
  <2>12. /\ Fit(r, past, answered) /\ Places(r) = Places(e) \cup c.keys
         /\ r.claimant = c /\ r.handoff = e.handoff /\ r.strays = e.strays
         /\ r.receiver = e.receiver
    BY <2>1, <2>4, <2>5, <2>6, <2>7, <2>8, <2>9, <2>10, <2>11, SetClaimant
  <2>13. Merged(s) => Merged(r)
    BY <1>4, <2>4, <2>5, <2>12 DEF Merged
  <2> QED
    BY <1>a, <2>4, <2>5, <2>12, <2>13 DEF r
<1>5. ASSUME ~(s.claimant # None /\ s.claimant.token = d.token)
      PROVE  r = IF d.stopped \/ d.token \in terminal THEN back
                 ELSE IF LiveSuccessor(d.token)
                 THEN Merge(Register(back, {q}, d.token, d.expired))
                 ELSE [back EXCEPT !.pending = back.pending \cup {q},
                                   !.given = [back.given EXCEPT ![q] = back.given[q] + 1]]
  <2>1. back = [s EXCEPT !.stash = s.stash \cup {q}, !.delivery = [s.delivery EXCEPT ![q] = None]]
    BY <1>0 DEF Rendezvous
  <2> HIDE DEF back
  <2> QED
    BY <1>5, <2>1 DEF Fail
<1> HIDE DEF w, m, n, back, late, r, d
<1>6. Merged(s) => Merged(back)
  BY <1>2 DEF Merged
<1>7. CASE ~(s.claimant # None /\ s.claimant.token = d.token)
           /\ (d.stopped \/ d.token \in terminal)
  <2>1. r = back
    BY <1>5, <1>7
  <2>2. ~Calm
    BY <1>3, <1>7 DEF Invalid, Calm, TurnInv
  <2> QED
    BY <1>2, <2>1, <2>2 DEF r
<1>8. CASE ~(s.claimant # None /\ s.claimant.token = d.token)
           /\ ~(d.stopped \/ d.token \in terminal) /\ LiveSuccessor(d.token)
  <2> DEFINE K == {q}
             t == d.token
             exp == d.expired
             x == Register(back, K, t, exp)
  <2>1. r = Merge(x)
    BY <1>5, <1>8
  <2>2. Owing(back, K, t, answered)
    <3>1. K \in SUBSET Questions /\ K \cap Places(back) = {} /\ t \in Turns
      BY <1>1, <1>2
    <3>2. \A p \in K \ back.strays : InheritsFrom(asker[p], t)
      BY <1>2, <1>3
    <3>3. \A p \in K : p \notin stopped \ back.strays
      BY <1>2, <1>3, <1>8
    <3>4. t = issued => issued \in restarting
      BY <1>8 DEF LiveSuccessor
    <3>5. Calm => K \cap answered \subseteq back.stash
      BY <1>2 DEF w
    <3> QED
      BY <3>1, <3>2, <3>3, <3>4, <3>5 DEF Owing
  <2>10. exp \in BOOLEAN /\ Fit(back, past, answered)
    BY <1>1, <1>2
  <2>11. x = Register(back, K, t, exp)
    OBVIOUS
  <2> HIDE DEF K, t, exp, x
  <2>3. /\ Fit(x, past, answered)
        /\ Places(x) \subseteq Places(back) \cup K
        /\ Calm /\ ~exp => Places(x) = Places(back) \cup K
        /\ x.strays = back.strays /\ x.receiver = back.receiver
        /\ Merged(back) => Merged(x) \/ (x.handoff # None /\ x.handoff.successor = issued)
    BY <2>2, <2>10, <2>11, RegisterKeeps
  <2>4. /\ Fit(Merge(x), past, answered)
        /\ Places(Merge(x)) \subseteq Places(x)
        /\ Calm => Places(Merge(x)) = Places(x)
        /\ Merge(x).strays = x.strays /\ Merge(x).receiver = x.receiver
        /\ Calm /\ (Merged(x) \/ (x.handoff # None /\ x.handoff.successor = issued))
             => Merged(Merge(x))
    BY <2>3, MergeKeeps
  <2>5. Calm => ~exp
    BY <1>3 DEF Invalid, exp
  <2> QED
    BY <1>2, <1>6, <2>1, <2>3, <2>4, <2>5 DEF r, K
<1>9. CASE ~(s.claimant # None /\ s.claimant.token = d.token)
           /\ ~(d.stopped \/ d.token \in terminal) /\ ~LiveSuccessor(d.token)
  <2> DEFINE g == [back.given EXCEPT ![q] = back.given[q] + 1]
             p == back.pending \cup {q}
  <2>1. r = [back EXCEPT !.pending = p, !.given = g]
    BY <1>5, <1>9
  <2>2. /\ back \in Rendezvous /\ OnePlace(back) /\ Inherited(back) /\ Halted(back, past)
        /\ (Calm => Live(back) /\ Stashed(back, answered))
    BY <1>2 DEF Fit
  <2>3. back.given[q] = 0
    BY <1>1, <1>2 DEF Places, Given
  <2>4. /\ g \in [Questions -> Nat] /\ g[q] = 1
        /\ \A u \in Questions : u # q => g[u] = back.given[u]
    BY <1>1, <1>2, <2>3
  <2>5. /\ p \subseteq Questions
    BY <1>1, <2>2, RendezvousFields
  <2> HIDE DEF g, p
  <2>6. /\ r \in Rendezvous /\ r.handoff = back.handoff /\ r.claimant = back.claimant
        /\ r.delivery = back.delivery /\ r.stash = back.stash
        /\ r.tombstones = back.tombstones /\ r.strays = back.strays /\ r.given = g
        /\ r.receiver = back.receiver /\ r.pending = p
    BY <2>1, <2>2, <2>4, <2>5 DEF Rendezvous
  <2>7. /\ HandoffKeys(r) = HandoffKeys(back) /\ ClaimantKeys(r) = ClaimantKeys(back)
        /\ Delivering(r) = Delivering(back) /\ Given(r) = Given(back) \cup {q}
    BY <1>1, <2>4, <2>6 DEF HandoffKeys, ClaimantKeys, Delivering, Given
  <2>8. OnePlace(r)
    <3>1. \A u \in Questions : r.given[u] <= 1
      <4> SUFFICES ASSUME NEW u \in Questions PROVE r.given[u] <= 1
        OBVIOUS
      <4>1. CASE u = q
        BY <2>4, <2>6, <4>1
      <4>2. CASE u # q
        <5>1. back.given[u] <= 1
          BY <2>2 DEF OnePlace
        <5> QED
          BY <2>4, <2>6, <4>2, <5>1
      <4> QED
        BY <4>1, <4>2
    <3>2. r.pending \subseteq Given(r) /\ \A u \in Questions : r.receiver[u] # 0 => u \in Given(r)
      BY <2>2, <2>6, <2>7 DEF OnePlace, p
    <3> QED
      BY <1>2, <2>2, <2>6, <2>7, <3>1, <3>2 DEF OnePlace, Places
  <2>9. Inherited(r)
    BY <2>2, <2>6, <2>7 DEF Inherited
  <2>10. Halted(r, past)
    BY <2>2, <2>6, <2>7 DEF Halted
  <2>11. Calm => Live(r) /\ Stashed(r, answered)
    BY <2>2, <2>6, <2>7 DEF Live, Stashed
  <2>12. Places(r) = Places(s) /\ (Merged(back) => Merged(r))
    BY <1>2, <2>6, <2>7 DEF Places, Merged
  <2> QED
    BY <1>2, <1>6, <2>6, <2>8, <2>9, <2>10, <2>11, <2>12 DEF Fit, r
<1> QED
  BY <1>4, <1>7, <1>8, <1>9 DEF r

\* More turns claim, and more is astray.
LEMMA FitOn ==
    ASSUME NEW s, NEW past, NEW answered, Fit(s, past, answered),
           NEW later, past \subseteq later, NEW strays \in SUBSET Questions,
           s.strays \subseteq strays, NEW r, r = [s EXCEPT !.strays = strays]
    PROVE  /\ Fit(r, later, answered) /\ Places(r) = Places(s)
           /\ r.handoff = s.handoff /\ r.claimant = s.claimant /\ r.receiver = s.receiver
           /\ r.stash = s.stash /\ r.delivery = s.delivery /\ r.strays = strays
<1>0. s \in Rendezvous /\ OnePlace(s) /\ Inherited(s) /\ Halted(s, past)
      /\ (Calm => Live(s) /\ Stashed(s, answered))
  BY DEF Fit
<1>1. /\ r \in Rendezvous /\ r.handoff = s.handoff /\ r.claimant = s.claimant
      /\ r.delivery = s.delivery /\ r.stash = s.stash /\ r.tombstones = s.tombstones
      /\ r.strays = strays /\ r.given = s.given
      /\ r.receiver = s.receiver /\ r.pending = s.pending
  BY <1>0 DEF Rendezvous
<1>2. /\ HandoffKeys(r) = HandoffKeys(s) /\ ClaimantKeys(r) = ClaimantKeys(s)
      /\ Delivering(r) = Delivering(s) /\ Given(r) = Given(s)
  BY <1>1 DEF HandoffKeys, ClaimantKeys, Delivering, Given
<1>3. OnePlace(r)
  BY <1>0, <1>1, <1>2 DEF OnePlace
<1>4. Inherited(r)
  BY <1>0, <1>1, <1>2 DEF Inherited
<1>5. Halted(r, later)
  BY <1>0, <1>1, <1>2 DEF Halted
<1>6. Calm => Live(r) /\ Stashed(r, answered)
  BY <1>0, <1>1, <1>2 DEF Live, Stashed
<1>7. Places(r) = Places(s)
  BY <1>1, <1>2 DEF Places
<1> QED
  BY <1>1, <1>3, <1>4, <1>5, <1>6, <1>7 DEF Fit

\* registerLiveRacedAnswerClaimant: the turn that owns the conversation takes over what
\* its predecessors left, or is noted as astray.
LEMMA ClaimKeeps ==
    ASSUME NEW s, NEW past, NEW answered, Fit(s, past, answered), TurnInv,
           NEW t \in Turns, t \notin past, active = t, Calm => stage[t] # "ended",
           NEW forced
    PROVE  /\ Fit(Claim(s, t, forced), past \cup {t}, answered)
           /\ Places(Claim(s, t, forced)) \subseteq Places(s)
           /\ Calm => Places(Claim(s, t, forced)) = Places(s)
           /\ Merged(s) => Merged(Claim(s, t, forced))
           /\ s.strays \subseteq Claim(s, t, forced).strays
           /\ Claim(s, t, forced).receiver = s.receiver
<1> DEFINE h == s.handoff
           prior == s.claimant
           another == prior # None /\ prior.token # t
           merged == IF another THEN prior.keys ELSE {}
           stray == another /\ (prior.stopped \/ ~InheritsFrom(prior.token, t))
           fresh == [token |-> t, keys |-> {}, stopped |-> FALSE, expired |-> FALSE, retries |-> 0]
           later == past \cup {t}
           r == Claim(s, t, forced)
<1>0. s \in Rendezvous /\ OnePlace(s) /\ Inherited(s) /\ Halted(s, past)
      /\ (Calm => Live(s) /\ Stashed(s, answered))
  BY DEF Fit
<1>1. /\ Fit(s, later, answered)
      /\ \A q \in Delivering(s) : s.delivery[q].token # t
  <2>1. s = [s EXCEPT !.strays = s.strays] /\ s.strays \in SUBSET Questions
    BY <1>0 DEF Rendezvous
  <2>2. Fit(s, later, answered)
    BY <2>1, FitOn
  <2> QED
    BY <1>0, <2>2 DEF Halted
<1>2. /\ prior # None =>
           /\ prior \in Claimant /\ prior.token \in Turns /\ prior.keys \subseteq Questions
           /\ prior.token # t /\ prior.keys = ClaimantKeys(s) /\ prior.stopped \in BOOLEAN
      /\ prior = None => ClaimantKeys(s) = {}
      /\ h # None => /\ h \in Handoff /\ h.keys \subseteq Questions /\ h.keys = HandoffKeys(s)
                     /\ h.successor \in TurnOrNone /\ h.stopped \in BOOLEAN
      /\ s.strays \subseteq Questions
  BY <1>0, RendezvousFields DEF Halted, ClaimantKeys, HandoffKeys, Rendezvous
<1>3. t = issued
  BY DEF TurnInv, Turns
<1>4. 0 \in 0..MaxRetries
  BY BoundsAssumption
<1>5. CASE h = None /\ prior # None /\ Descends(prior.token, t)
  <2> DEFINE c == [prior EXCEPT !.token = t, !.retries = 0]
             e == [s EXCEPT !.claimant = None]
             i == [e EXCEPT !.claimant = c]
  <2>1. r = IF Invalid(prior) THEN i ELSE Attempt(i)
    <3>1. i = [s EXCEPT !.claimant = c]
      BY <1>0 DEF Rendezvous
    <3> HIDE DEF i
    <3> QED
      BY <1>5, <3>1 DEF Claim
  <2>2. /\ Fit(e, later, answered) /\ e.claimant = None /\ e.handoff = s.handoff
        /\ e.delivery = s.delivery /\ e.stash = s.stash /\ e.strays = s.strays
        /\ e.receiver = s.receiver /\ Delivering(e) = Delivering(s)
        /\ ClaimantKeys(s) \cap Places(e) = {} /\ Places(s) = Places(e) \cup ClaimantKeys(s)
    BY <1>1, DropClaimant
  <2>3. /\ c \in Claimant /\ c.keys = prior.keys /\ c.token = t
        /\ c.stopped = prior.stopped /\ c.expired = prior.expired
    BY <1>2, <1>4, <1>5 DEF Claimant
  <2>4. InheritsFrom(prior.token, t)
    BY <1>2, <1>5, DescendantsInherit
  <2>5. \A q \in c.keys \ e.strays : InheritsFrom(asker[q], c.token)
    <3> SUFFICES ASSUME NEW q \in c.keys \ e.strays PROVE InheritsFrom(asker[q], t)
      BY <2>3
    <3>1. InheritsFrom(asker[q], prior.token)
      BY <1>0, <1>5, <2>2, <2>3 DEF Inherited
    <3> QED
      BY <2>4, <3>1, InheritsOn
  <2>6. i = [e EXCEPT !.claimant = c]
    OBVIOUS
  <2> HIDE DEF c, e, i
  <2>7. c.keys \cap Places(e) = {} /\ c.token \in later
    BY <1>2, <1>5, <2>2, <2>3
  <2>8. \A q \in c.keys : q \in stopped \ e.strays => c.stopped
    BY <1>0, <1>2, <1>5, <2>2, <2>3 DEF Halted
  <2>9. \A q \in Delivering(e) : e.delivery[q].stopped /\ e.delivery[q].token = c.token => c.stopped
    BY <1>1, <2>2, <2>3
  <2>10. Calm => /\ ~Invalid(c) /\ c.keys \cap answered \subseteq e.stash
                 /\ stage[c.token] # "ended"
    BY <1>0, <1>2, <1>5, <2>2, <2>3 DEF Live, Invalid, Stashed
  <2>11. /\ Fit(i, later, answered) /\ Places(i) = Places(e) \cup c.keys
         /\ i.claimant = c /\ i.handoff = e.handoff /\ i.strays = e.strays
         /\ i.receiver = e.receiver
    BY <2>2, <2>3, <2>5, <2>6, <2>7, <2>8, <2>9, <2>10, SetClaimant
  <2>12. /\ Fit(Attempt(i), later, answered)
         /\ Places(Attempt(i)) \subseteq Places(i) /\ (Calm => Places(Attempt(i)) = Places(i))
         /\ Attempt(i).handoff = i.handoff /\ Attempt(i).strays = i.strays
         /\ Attempt(i).receiver = i.receiver
    BY <2>11, AttemptKeeps
  <2>13. Places(i) = Places(s)
    BY <1>2, <1>5, <2>2, <2>3, <2>11
  <2> HIDE DEF r, later
  <2>14. CASE Invalid(prior)
    BY <1>5, <2>1, <2>2, <2>11, <2>13, <2>14 DEF Merged, r, later
  <2>15. CASE ~Invalid(prior)
    BY <1>5, <2>1, <2>2, <2>11, <2>12, <2>13, <2>15 DEF Merged, r, later
  <2> QED
    BY <2>14, <2>15
<1>6. CASE h = None /\ ~(prior # None /\ Descends(prior.token, t)) /\ forced /\ prior = None
  <2>1. r = [s EXCEPT !.claimant = fresh]
    BY <1>6 DEF Claim
  <2>2. /\ fresh \in Claimant /\ fresh.keys = {} /\ fresh.token = t /\ fresh.stopped = FALSE
        /\ fresh.expired = FALSE
    BY <1>4 DEF Claimant
  <2>3. t \in later
    OBVIOUS
  <2> HIDE DEF fresh, later, r
  <2>4. fresh.keys \cap Places(s) = {} /\ fresh.token \in later
    BY <2>2, <2>3
  <2>5. \A q \in fresh.keys \ s.strays : InheritsFrom(asker[q], fresh.token)
    BY <2>2
  <2>6. \A q \in fresh.keys : q \in stopped \ s.strays => fresh.stopped
    BY <2>2
  <2>7. \A q \in Delivering(s) :
          s.delivery[q].stopped /\ s.delivery[q].token = fresh.token => fresh.stopped
    BY <1>1, <2>2
  <2>8. Calm => /\ ~Invalid(fresh) /\ fresh.keys \cap answered \subseteq s.stash
                /\ stage[fresh.token] # "ended"
    BY <2>2 DEF Invalid
  <2>10. s.claimant = None /\ fresh \in Claimant
    BY <1>6, <2>2
  <2>9. /\ Fit(r, later, answered) /\ Places(r) = Places(s) \cup fresh.keys
        /\ r.claimant = fresh /\ r.handoff = s.handoff /\ r.strays = s.strays
        /\ r.receiver = s.receiver
    BY <1>1, <2>1, <2>4, <2>5, <2>6, <2>7, <2>8, <2>10, SetClaimant
  <2> QED
    BY <1>6, <2>2, <2>9 DEF Merged, r, later
<1>7. CASE \/ h = None /\ ~(prior # None /\ Descends(prior.token, t)) /\ ~(forced /\ prior = None)
           \/ h # None /\ h.successor \notin {0, t} /\ ~Descends(h.successor, t)
  <2>1. r = s
    BY <1>7 DEF Claim
  <2> QED
    BY <1>1, <2>1
<1>8. CASE h # None /\ ~(h.successor \notin {0, t} /\ ~Descends(h.successor, t)) /\ Invalid(h)
  <2> DEFINE e == [s EXCEPT !.handoff = None]
  <2>1. r = e
    BY <1>8 DEF Claim
  <2>2. /\ Fit(e, later, answered) /\ e.handoff = None /\ e.strays = s.strays
        /\ e.receiver = s.receiver /\ Places(s) = Places(e) \cup HandoffKeys(s)
    BY <1>1, DropHandoff
  <2>3. ~Calm
    BY <1>0, <1>8 DEF Live
  <2> HIDE DEF e, r, later
  <2> QED
    BY <2>1, <2>2, <2>3 DEF Merged, r, later
<1>9. CASE h # None /\ ~(h.successor \notin {0, t} /\ ~Descends(h.successor, t)) /\ ~Invalid(h)
  <2> DEFINE a == [s EXCEPT !.handoff = None]
             b == [a EXCEPT !.claimant = None]
             S == IF stray THEN s.strays \cup merged ELSE s.strays
             e == [b EXCEPT !.strays = S]
             k == h.keys \cup merged
             x == (another /\ prior.expired)
             c == [fresh EXCEPT !.keys = k, !.expired = x]
             i == [e EXCEPT !.claimant = c]
  <2>1. r = Attempt(i)
    <3>1. i = [s EXCEPT !.handoff = None, !.claimant = c, !.strays = S]
      BY <1>0 DEF Rendezvous
    <3> HIDE DEF i
    <3> QED
      BY <1>9, <3>1 DEF Claim
  <2>2. /\ merged = ClaimantKeys(s) /\ another = (prior # None)
        /\ S \in SUBSET Questions /\ s.strays \subseteq S
    BY <1>2
  <2>3. /\ c \in Claimant /\ c.keys = HandoffKeys(s) \cup ClaimantKeys(s) /\ c.token = t
        /\ c.stopped = FALSE /\ (prior = None => c.expired = FALSE)
        /\ (prior # None => c.expired = prior.expired)
    <3>1. prior # None => prior.expired \in BOOLEAN
      BY <1>2 DEF Claimant
    <3>2. /\ k = HandoffKeys(s) \cup ClaimantKeys(s) /\ k \subseteq Questions /\ x \in BOOLEAN
          /\ (prior = None => x = FALSE) /\ (prior # None => x = prior.expired)
      BY <1>2, <1>9, <2>2, <3>1
    <3> HIDE DEF k, prior, another, merged
    <3>3. CASE x
      <4>1. c = [fresh EXCEPT !.keys = k, !.expired = TRUE]
        BY <3>3
      <4> HIDE DEF c, x
      <4> QED
        BY <1>4, <3>2, <3>3, <4>1 DEF Claimant
    <3>4. CASE ~x
      <4>1. c = [fresh EXCEPT !.keys = k, !.expired = FALSE]
        BY <3>4
      <4> HIDE DEF c, x
      <4> QED
        BY <1>4, <3>2, <3>4, <4>1 DEF Claimant
    <3> QED
      BY <3>3, <3>4
  <2>4. /\ Fit(a, later, answered) /\ a.handoff = None
        /\ a.claimant = s.claimant /\ a.delivery = s.delivery /\ a.stash = s.stash
        /\ a.strays = s.strays /\ a.receiver = s.receiver
        /\ Delivering(a) = Delivering(s) /\ ClaimantKeys(a) = ClaimantKeys(s)
        /\ HandoffKeys(s) \cap Places(a) = {} /\ Places(s) = Places(a) \cup HandoffKeys(s)
    BY <1>1, DropHandoff
  <2> HIDE DEF a
  <2>5. /\ Fit(b, later, answered) /\ b.claimant = None /\ b.handoff = None
        /\ b.delivery = s.delivery /\ b.stash = s.stash
        /\ b.strays = s.strays /\ b.receiver = s.receiver
        /\ Delivering(b) = Delivering(s)
        /\ ClaimantKeys(s) \cap Places(b) = {} /\ Places(a) = Places(b) \cup ClaimantKeys(s)
    BY <2>4, DropClaimant
  <2> HIDE DEF b, S
  <2>6. /\ Fit(e, later, answered) /\ Places(e) = Places(b)
        /\ e.claimant = None /\ e.handoff = None
        /\ e.delivery = s.delivery /\ e.stash = s.stash
        /\ e.strays = S /\ e.receiver = s.receiver
    BY <2>2, <2>5, FitOn
  <2>7. Delivering(e) = Delivering(s)
    BY <2>6 DEF Delivering
  <2>8. \A q \in HandoffKeys(s) \ S : InheritsFrom(asker[q], t)
    <3> SUFFICES ASSUME NEW q \in HandoffKeys(s) \ S PROVE InheritsFrom(asker[q], t)
      OBVIOUS
    <3>1. q \in h.keys \ s.strays
      BY <1>2, <1>9, <2>2
    <3>2. CASE h.successor = 0 \/ h.successor = t
      <4>1. t # 0
        BY DEF Turns
      <4> QED
        BY <1>0, <1>3, <1>9, <3>1, <3>2, <4>1 DEF Inherited
    <3>3. CASE h.successor # 0 /\ Descends(h.successor, t)
      <4>1. h.successor \in Turns
        BY <1>2, <1>9, <3>3 DEF Turns, TurnOrNone
      <4>2. InheritsFrom(h.successor, t)
        BY <3>3, <4>1, DescendantsInherit
      <4>3. InheritsFrom(asker[q], h.successor)
        BY <1>0, <1>9, <3>1, <3>3 DEF Inherited
      <4> QED
        BY <4>2, <4>3, InheritsOn
    <3> QED
      BY <1>9, <3>2, <3>3
  <2>9. \A q \in ClaimantKeys(s) \ S :
          InheritsFrom(asker[q], t) /\ q \notin stopped \ s.strays
    <3> SUFFICES ASSUME NEW q \in ClaimantKeys(s) \ S
                 PROVE  InheritsFrom(asker[q], t) /\ q \notin stopped \ s.strays
      OBVIOUS
    <3>1. prior # None /\ ~stray /\ q \notin s.strays
      BY <1>2, <2>2 DEF S
    <3>2. ~prior.stopped /\ InheritsFrom(prior.token, t)
      BY <1>2, <3>1
    <3>3. InheritsFrom(asker[q], prior.token)
      BY <1>0, <1>2, <3>1 DEF Inherited
    <3>4. InheritsFrom(asker[q], t)
      BY <3>2, <3>3, InheritsOn
    <3> QED
      BY <1>0, <3>2, <3>4 DEF Halted
  <2>10. i = [e EXCEPT !.claimant = c] /\ t \in later
    OBVIOUS
  <2> HIDE DEF e, c, i, later, r
  <2>11. c.keys \cap Places(e) = {} /\ c.token \in later
    <3>1. HandoffKeys(s) \cap Places(b) = {}
      BY <2>4, <2>5
    <3> QED
      BY <2>3, <2>5, <2>6, <2>10, <3>1
  <2>12. \A q \in c.keys \ e.strays : InheritsFrom(asker[q], c.token)
    BY <2>3, <2>6, <2>8, <2>9
  <2>13. \A q \in c.keys : q \in stopped \ e.strays => c.stopped
    <3> SUFFICES ASSUME NEW q \in c.keys, q \in stopped \ e.strays PROVE FALSE
      OBVIOUS
    <3>1. q \in stopped \ s.strays /\ q \notin S
      BY <2>2, <2>6
    <3>2. q \in HandoffKeys(s)
      BY <2>3, <2>9, <3>1
    <3>3. h.stopped
      BY <1>0, <3>1, <3>2 DEF Halted
    <3> QED
      BY <1>9, <3>3 DEF Invalid
  <2>14. \A q \in Delivering(e) :
           e.delivery[q].stopped /\ e.delivery[q].token = c.token => c.stopped
    BY <1>1, <2>3, <2>6, <2>7
  <2>15. Calm => /\ ~Invalid(c) /\ c.keys \cap answered \subseteq e.stash
                 /\ stage[c.token] # "ended"
    BY <1>0, <2>3, <2>6 DEF Live, Invalid, Stashed
  <2>16. /\ Fit(i, later, answered) /\ Places(i) = Places(e) \cup c.keys
         /\ i.claimant = c /\ i.handoff = e.handoff /\ i.strays = e.strays
         /\ i.receiver = e.receiver
    BY <2>3, <2>6, <2>10, <2>11, <2>12, <2>13, <2>14, <2>15, SetClaimant
  <2>17. /\ Fit(Attempt(i), later, answered)
         /\ Places(Attempt(i)) \subseteq Places(i) /\ (Calm => Places(Attempt(i)) = Places(i))
         /\ Attempt(i).handoff = i.handoff /\ Attempt(i).strays = i.strays
         /\ Attempt(i).receiver = i.receiver
    BY <2>16, AttemptKeeps
  <2>18. Places(i) = Places(s)
    BY <2>3, <2>4, <2>5, <2>6, <2>16
  <2> QED
    BY <2>1, <2>2, <2>6, <2>16, <2>17, <2>18 DEF Merged, r, later
<1> HIDE DEF h, prior, another, merged, stray, fresh, later, r
<1> QED
  <2>1. \/ h = None /\ prior # None /\ Descends(prior.token, t)
        \/ h = None /\ ~(prior # None /\ Descends(prior.token, t)) /\ forced /\ prior = None
        \/ h = None /\ ~(prior # None /\ Descends(prior.token, t)) /\ ~(forced /\ prior = None)
        \/ h # None /\ h.successor \notin {0, t} /\ ~Descends(h.successor, t)
        \/ h # None /\ ~(h.successor \notin {0, t} /\ ~Descends(h.successor, t))
    OBVIOUS
  <2> QED
    BY <1>5, <1>6, <1>7, <1>8, <1>9, <2>1 DEF r

\* What a turn that cannot take answers in leaves.
LEMMA DiscardKeeps ==
    ASSUME NEW s, NEW past, NEW answered, Fit(s, past, answered)
    PROVE  /\ Fit(Discard(s), past, answered) /\ Places(Discard(s)) = Places(s)
           /\ Discard(s).handoff = None /\ Discard(s).claimant = None
           /\ Discard(s).strays = s.strays /\ Discard(s).receiver = s.receiver
<1> DEFINE r == RecoverHandoff(s)
<1>1. /\ Fit(r, past, answered) /\ Places(r) = Places(s) /\ r.handoff = None
      /\ r.strays = s.strays /\ r.receiver = s.receiver
  BY RecoverHandoffKeeps
<1>2. Discard(s) = RecoverClaimant(r)
  BY DEF Discard
<1> HIDE DEF r
<1>3. /\ Fit(RecoverClaimant(r), past, answered) /\ Places(RecoverClaimant(r)) = Places(r)
      /\ RecoverClaimant(r).claimant = None /\ RecoverClaimant(r).handoff = r.handoff
      /\ RecoverClaimant(r).strays = r.strays /\ RecoverClaimant(r).receiver = r.receiver
  BY <1>1, RecoverClaimantKeeps
<1> QED
  BY <1>1, <1>2, <1>3

\* No handoff is left to a successor that is gone.
LEMMA DeadSuccessorKeeps ==
    ASSUME NEW s, NEW past, NEW answered, Fit(s, past, answered), NEW t
    PROVE  /\ Fit(DeadSuccessor(s, t), past, answered)
           /\ Places(DeadSuccessor(s, t)) = Places(s)
           /\ Merged(s) => Merged(DeadSuccessor(s, t))
           /\ DeadSuccessor(s, t).strays = s.strays
           /\ DeadSuccessor(s, t).receiver = s.receiver
<1>1. CASE DeadSuccessor(s, t) = s
  BY <1>1
<1>2. CASE DeadSuccessor(s, t) = RecoverHandoff(s)
  BY <1>2, RecoverHandoffKeeps DEF Merged
<1> QED
  BY <1>1, <1>2 DEF DeadSuccessor

LEMMA DropHandoffForKeeps ==
    ASSUME NEW s, NEW past, NEW answered, Fit(s, past, answered), TurnInv, NEW t,
           NEW r, r = DropHandoffFor(s, t)
    PROVE  /\ Fit(r, past, answered) /\ Places(r) \subseteq Places(s)
           /\ Calm => Places(r) = Places(s)
           /\ r.handoff = None \/ (r.handoff = s.handoff /\ r.handoff.successor # t)
           /\ r.claimant = s.claimant /\ r.strays = s.strays /\ r.receiver = s.receiver
<1>1. CASE s.handoff = None \/ s.handoff.successor # t
  BY <1>1 DEF DropHandoffFor
<1>2. CASE ~(s.handoff = None \/ s.handoff.successor # t)
           /\ t \notin terminal /\ ~Invalid(s.handoff)
  BY <1>2, RecoverHandoffKeeps DEF DropHandoffFor
<1>3. CASE ~(s.handoff = None \/ s.handoff.successor # t)
           /\ ~(t \notin terminal /\ ~Invalid(s.handoff))
  <2>1. r = [s EXCEPT !.handoff = None]
    BY <1>3 DEF DropHandoffFor
  <2>2. ~Calm
    BY <1>3 DEF Fit, Live, TurnInv, Calm
  <2>3. /\ Fit(r, past, answered) /\ r.handoff = None /\ r.claimant = s.claimant
        /\ r.strays = s.strays /\ r.receiver = s.receiver
        /\ Places(s) = Places(r) \cup HandoffKeys(s)
    BY <2>1, DropHandoff
  <2> QED
    BY <2>2, <2>3
<1> QED
  BY <1>1, <1>2, <1>3

\* dropRacedAnswerClaimantForToken: nothing is left to the turn that ends.
LEMMA DropForKeeps ==
    ASSUME NEW s, NEW past, NEW answered, Fit(s, past, answered), TurnInv,
           Calm => Merged(s), NEW t \in Turns, NEW r, r = DropFor(s, t)
    PROVE  /\ Fit(r, past, answered) /\ Places(r) \subseteq Places(s)
           /\ Calm => Places(r) = Places(s)
           /\ Calm => Merged(r) /\ (r.handoff # None => r.handoff.successor # t)
           /\ r.claimant # None => r.claimant.token # t
           /\ r.strays = s.strays /\ r.receiver = s.receiver
<1> DEFINE c == s.claimant
           gone == [s EXCEPT !.claimant = None]
           owed == c.keys # {} /\ ~Invalid(c)
<1>0. s \in Rendezvous /\ OnePlace(s) /\ Inherited(s) /\ Halted(s, past)
      /\ (Calm => Live(s) /\ Stashed(s, answered))
  BY DEF Fit
<1>1. /\ Fit(gone, past, answered) /\ gone.claimant = None /\ gone.handoff = s.handoff
      /\ gone.stash = s.stash /\ gone.strays = s.strays /\ gone.receiver = s.receiver
      /\ ClaimantKeys(s) \cap Places(gone) = {} /\ Places(s) = Places(gone) \cup ClaimantKeys(s)
  BY DropClaimant
<1>2. c # None => /\ c.keys = ClaimantKeys(s) /\ c.keys \in SUBSET Questions
                  /\ c.stopped \in BOOLEAN /\ c.expired \in BOOLEAN
  BY <1>0, RendezvousFields DEF ClaimantKeys
<1>3. CASE c = None \/ c.token # t
  <2>1. r = DropHandoffFor(s, t)
    BY <1>3 DEF DropFor
  <2>2. /\ Fit(r, past, answered) /\ Places(r) \subseteq Places(s)
        /\ Calm => Places(r) = Places(s)
        /\ r.handoff = None \/ (r.handoff = s.handoff /\ r.handoff.successor # t)
        /\ r.claimant = s.claimant /\ r.strays = s.strays /\ r.receiver = s.receiver
    BY <2>1, DropHandoffForKeeps
  <2> QED
    BY <1>3, <2>2 DEF Merged
<1>4. CASE ~(c = None \/ c.token # t) /\ t \in terminal
  <2>1. r = gone
    BY <1>4 DEF DropFor
  <2>2. ~Calm
    BY <1>4 DEF TurnInv, Calm
  <2> HIDE DEF gone
  <2> QED
    BY <1>1, <2>1, <2>2
<1>5. CASE ~(c = None \/ c.token # t) /\ t \notin terminal /\ LiveSuccessor(t) /\ owed
  <2> DEFINE K == c.keys
             exp == c.expired
             x == Register(gone, K, t, exp)
  <2>1. r = Merge(x)
    BY <1>5 DEF DropFor
  <2>2. K \in SUBSET Questions /\ K = ClaimantKeys(s) /\ exp \in BOOLEAN /\ exp = FALSE
        /\ c.stopped = FALSE
    BY <1>2, <1>5 DEF Invalid
  <2>3. Owing(gone, K, t, answered)
    <3>1. K \in SUBSET Questions /\ K \cap Places(gone) = {}
      BY <1>1, <2>2
    <3>2. \A q \in K \ gone.strays : InheritsFrom(asker[q], t)
      BY <1>0, <1>1, <1>5 DEF Inherited
    <3>3. \A q \in K : q \notin stopped \ gone.strays
      BY <1>0, <1>1, <1>5, <2>2 DEF Halted
    <3>4. t = issued => issued \in restarting
      BY <1>5 DEF LiveSuccessor
    <3>5. Calm => K \cap answered \subseteq gone.stash
      BY <1>0, <1>1, <2>2 DEF Stashed
    <3> QED
      BY <3>1, <3>2, <3>3, <3>4, <3>5 DEF Owing
  <2>8. x = Register(gone, K, t, exp)
    OBVIOUS
  <2>14. exp \in BOOLEAN /\ Fit(gone, past, answered)
    BY <1>1, <2>2
  <2> HIDE DEF K, exp, x, gone, owed, c
  <2>9. /\ Fit(x, past, answered) /\ Places(x) \subseteq Places(gone) \cup K
        /\ Calm /\ ~exp => Places(x) = Places(gone) \cup K
        /\ x.strays = gone.strays /\ x.receiver = gone.receiver /\ x.claimant = gone.claimant
        /\ Merged(gone) => Merged(x) \/ (x.handoff # None /\ x.handoff.successor = issued)
        /\ x.handoff # None =>
             \/ x.handoff.successor = 0 \/ x.handoff.successor = issued
             \/ gone.handoff # None /\ x.handoff.successor = gone.handoff.successor
    BY <2>3, <2>8, <2>14, RegisterKeeps
  <2>10. /\ Fit(Merge(x), past, answered)
         /\ Places(Merge(x)) \subseteq Places(x)
         /\ Calm => Places(Merge(x)) = Places(x)
         /\ Merge(x).strays = x.strays /\ Merge(x).receiver = x.receiver
         /\ Merge(x).handoff # None => Merge(x).handoff = x.handoff
         /\ Merge(x).claimant # None => x.claimant # None
         /\ Calm /\ (Merged(x) \/ (x.handoff # None /\ x.handoff.successor = issued))
              => Merged(Merge(x))
    BY <2>9, MergeKeeps
  <2>11. Merged(gone) /\ t # issued /\ t # 0
    BY <1>1, <1>5 DEF Merged, LiveSuccessor, Turns
  <2>12. Calm /\ gone.handoff # None => gone.handoff.successor # t
    BY <1>1, <1>5, <2>11 DEF Merged, c
  <2>13. Calm => (r.handoff # None => r.handoff.successor # t)
    BY <2>1, <2>9, <2>10, <2>11, <2>12
  <2> QED
    BY <1>1, <2>1, <2>2, <2>9, <2>10, <2>11, <2>13
<1>6. CASE ~(c = None \/ c.token # t) /\ t \notin terminal /\ ~(LiveSuccessor(t) /\ owed)
  <2> DEFINE x == IF owed THEN RecoverClaimant(s) ELSE gone
  <2>1. r = DropHandoffFor(x, t)
    BY <1>6 DEF DropFor
  <2>2. /\ Fit(x, past, answered) /\ Places(x) \subseteq Places(s)
        /\ Calm => Places(x) = Places(s)
        /\ x.claimant = None /\ x.handoff = s.handoff /\ x.strays = s.strays
        /\ x.receiver = s.receiver
    <3>1. CASE owed
      BY <3>1, RecoverClaimantKeeps
    <3>2. CASE ~owed
      <4>1. Calm => ClaimantKeys(s) = {}
        BY <1>0, <1>2, <1>6, <3>2 DEF Live
      <4> HIDE DEF gone, owed
      <4> QED
        BY <1>1, <3>2, <4>1
    <3> QED
      BY <3>1, <3>2
  <2> HIDE DEF x
  <2>3. /\ Fit(r, past, answered) /\ Places(r) \subseteq Places(x)
        /\ Calm => Places(r) = Places(x)
        /\ r.handoff = None \/ (r.handoff = x.handoff /\ r.handoff.successor # t)
        /\ r.claimant = x.claimant /\ r.strays = x.strays /\ r.receiver = x.receiver
    BY <2>1, <2>2, DropHandoffForKeeps
  <2> QED
    BY <2>2, <2>3 DEF Merged
<1> QED
  BY <1>3, <1>4, <1>5, <1>6

\* The stash, the timers and the deliveries under way change, the answers stay in place.
LEMMA Restash ==
    ASSUME NEW s, NEW past, NEW answered, Fit(s, past, answered),
           NEW r \in Rendezvous, r.handoff = s.handoff, r.claimant = s.claimant,
           r.delivery = s.delivery, r.tombstones = s.tombstones, r.strays = s.strays,
           r.given = s.given, r.receiver = s.receiver, r.pending \subseteq s.pending,
           \A q \in HandoffKeys(s) \cup ClaimantKeys(s) : q \in s.stash => q \in r.stash
    PROVE  /\ Fit(r, past, answered) /\ Places(r) = Places(s)
           /\ HandoffKeys(r) = HandoffKeys(s) /\ ClaimantKeys(r) = ClaimantKeys(s)
           /\ Merged(s) => Merged(r)
<1>0. OnePlace(s) /\ Inherited(s) /\ Halted(s, past)
      /\ (Calm => Live(s) /\ Stashed(s, answered))
  BY DEF Fit
<1>1. /\ HandoffKeys(r) = HandoffKeys(s) /\ ClaimantKeys(r) = ClaimantKeys(s)
      /\ Delivering(r) = Delivering(s) /\ Given(r) = Given(s)
  BY DEF HandoffKeys, ClaimantKeys, Delivering, Given
<1>2. OnePlace(r)
  BY <1>0, <1>1 DEF OnePlace
<1>3. Inherited(r)
  BY <1>0, <1>1 DEF Inherited
<1>4. Halted(r, past)
  BY <1>0, <1>1 DEF Halted
<1>5. Calm => Live(r) /\ Stashed(r, answered)
  BY <1>0, <1>1 DEF Live, Stashed
<1> QED
  BY <1>1, <1>2, <1>3, <1>4, <1>5 DEF Fit, Places, Merged

\* Answers that were nowhere are handed over.
LEMMA Give ==
    ASSUME NEW s, NEW past, NEW answered, Fit(s, past, answered),
           NEW K \in SUBSET Questions, K \cap Places(s) = {},
           NEW r \in Rendezvous, r.handoff = s.handoff, r.claimant = s.claimant,
           r.delivery = s.delivery, r.tombstones = s.tombstones, r.strays = s.strays,
           r.stash = s.stash, r.pending = s.pending,
           \A q \in Questions : r.given[q] = s.given[q] + (IF q \in K THEN 1 ELSE 0),
           \A q \in Questions :
             \/ r.receiver[q] = s.receiver[q]
             \/ q \in K /\ (q \in s.strays \/ InheritsFrom(asker[q], r.receiver[q]))
    PROVE  /\ Fit(r, past, answered) /\ Places(r) = Places(s) \cup K
           /\ Merged(s) => Merged(r)
<1>0. /\ s \in Rendezvous /\ OnePlace(s) /\ Inherited(s) /\ Halted(s, past)
      /\ Calm => Live(s) /\ Stashed(s, answered)
  BY DEF Fit
<1>1. \A q \in Questions : s.given[q] \in Nat /\ s.given[q] <= 1 /\ (q \in K => s.given[q] = 0)
  <2>1. s.given \in [Questions -> Nat]
    BY <1>0, RendezvousFields
  <2> QED
    BY <1>0, <2>1 DEF OnePlace, Places, Given
<1>2. Given(r) = Given(s) \cup K
  BY <1>1 DEF Given
<1>3. /\ HandoffKeys(r) = HandoffKeys(s) /\ ClaimantKeys(r) = ClaimantKeys(s)
      /\ Delivering(r) = Delivering(s)
  BY DEF HandoffKeys, ClaimantKeys, Delivering
<1>4. OnePlace(r)
  <2>1. \A q \in Questions : r.given[q] <= 1
    <3> SUFFICES ASSUME NEW q \in Questions PROVE r.given[q] <= 1
      OBVIOUS
    <3> QED
      BY <1>1
  <2>2. r.pending \subseteq Given(r) /\ \A q \in Questions : r.receiver[q] # 0 => q \in Given(r)
    BY <1>0, <1>2 DEF OnePlace
  <2> QED
    BY <1>0, <1>2, <1>3, <2>1, <2>2 DEF OnePlace, Places
<1>5. Inherited(r)
  BY <1>0, <1>3 DEF Inherited
<1>6. Halted(r, past)
  BY <1>0, <1>3 DEF Halted
<1>7. Calm => Live(r) /\ Stashed(r, answered)
  BY <1>0, <1>3 DEF Live, Stashed
<1> QED
  BY <1>2, <1>3, <1>4, <1>5, <1>6, <1>7 DEF Fit, Places, Merged

\* An answer comes, and is stashed where its question is held.
LEMMA FitAnswered ==
    ASSUME NEW s, NEW past, NEW answered, Fit(s, past, answered), NEW q,
           q \in HandoffKeys(s) \cup ClaimantKeys(s) => q \in s.stash, q \notin s.tombstones
    PROVE  Fit(s, past, answered \cup {q})
BY DEF Fit, Stashed

-----------------------------------------------------------------------------
(* What a step leaves as it is                                             *)

LEMMA FitFrame ==
    ASSUME NEW s, NEW past, NEW answered, Fit(s, past, answered),
           UNCHANGED <<issued, terminal, asker, stopped, heir, stops, expiries>>,
           active' \in {0, active}, restarting \subseteq restarting',
           Calm =>
             /\ s.handoff # None /\ s.handoff.successor # 0
                /\ stage[s.handoff.successor] # "ended" => stage'[s.handoff.successor] # "ended"
             /\ s.claimant # None /\ stage[s.claimant.token] # "ended" =>
                  stage'[s.claimant.token] # "ended"
    PROVE  Fit(s, past, answered)'
<1>0. /\ s \in Rendezvous /\ OnePlace(s) /\ Inherited(s) /\ Halted(s, past)
      /\ Calm => Live(s) /\ Stashed(s, answered)
  BY DEF Fit
<1>1. (Calm <=> Calm') /\ HandoffKeys(s)' = HandoffKeys(s) /\ ClaimantKeys(s)' = ClaimantKeys(s)
      /\ Delivering(s)' = Delivering(s) /\ Given(s)' = Given(s)
  BY DEF Calm, HandoffKeys, ClaimantKeys, Delivering, Given
<1>2. \A q \in Delivering(s) : s.delivery[q].token # 0
  BY <1>0, RendezvousFields DEF Turns
<1>3. OnePlace(s)' /\ (s \in Rendezvous)'
  BY <1>0, <1>1 DEF OnePlace, Rendezvous, Turns, TurnOrNone, Handoff, Claimant, Delivery
<1>4. Inherited(s)'
  BY <1>0, <1>1 DEF Inherited, InheritsFrom, Reaches, Turns, Invalid
<1>5. Halted(s, past)'
  BY <1>0, <1>1, <1>2 DEF Halted
<1>6. Calm' => Live(s)'
  BY <1>0, <1>1 DEF Live, Invalid
<1>7. Calm' => Stashed(s, answered)'
  BY <1>0, <1>1 DEF Stashed
<1> QED
  BY <1>3, <1>4, <1>5, <1>6, <1>7 DEF Fit

LEMMA TurnFrame ==
    ASSUME TurnInv, UNCHANGED <<turnVars, heir, restarting, stops>>
    PROVE  TurnInv'
BY DEF TurnInv, turnVars, Turns, TurnOrNone

LEMMA QuestionsKept ==
    ASSUME QuestionInv, UNCHANGED <<turnVars, questionVars, accepted, stopped, restarting>>
    PROVE  QuestionInv'
BY DEF QuestionInv, turnVars, questionVars

LEMMA GateKept ==
    ASSUME GateInv, \A q \in Questions : gate[q] = "closed" <=> gate'[q] = "closed",
           UNCHANGED <<expiries, stops>>, void \subseteq void',
           Places(rv') \subseteq Places(rv), Calm => Places(rv) \subseteq Places(rv') \cup void',
           Places(rv) \subseteq Questions
    PROVE  GateInv'
<1>1. Places(rv)' = Places(rv') /\ (Calm <=> Calm')
  BY DEF Places, HandoffKeys, ClaimantKeys, Delivering, Given, Calm
<1> QED
  BY <1>1 DEF GateInv

\* A step of the questions or of the deliveries.
LEMMA StepKeeps ==
    ASSUME IInv,
           UNCHANGED <<turnVars, asker, stopped, heir, restarting, stops, expiries>>,
           gate' \in [Questions -> Gates], accepted' \in SUBSET Questions,
           void \subseteq void', void' \in SUBSET Questions, failures' \in Nat,
           Fit(rv', Past, accepted'), Calm => Merged(rv'), QuestionInv', GateInv'
    PROVE  IInv'
<1>1. TypeOK /\ TurnInv
  BY DEF IInv
<1>2. rv' \in Rendezvous
  BY DEF Fit
<1>3. TypeOK'
  BY <1>1, <1>2 DEF TypeOK, turnVars, Turns, TurnOrNone, Stages, Gates, Rendezvous,
                    Handoff, Claimant, Delivery
<1>4. TurnInv'
  BY <1>1, TurnFrame
<1>5. Fit(rv, Past, accepted)'
  <2>1. Past' = Past
    BY DEF Past, turnVars
  <2>2. /\ UNCHANGED <<issued, terminal, asker, stopped, heir, stops, expiries>>
        /\ active' \in {0, active} /\ restarting \subseteq restarting' /\ stage' = stage
    BY DEF turnVars
  <2> QED
    BY <2>1, <2>2, FitFrame
<1>6. (Calm => Merged(rv))'
  BY DEF Calm, Merged
<1> QED
  BY <1>3, <1>4, <1>5, <1>6 DEF IInv, RendezvousInv

-----------------------------------------------------------------------------
(* Every step keeps the invariant                                          *)

LEMMA Facts ==
    ASSUME IInv
    PROVE  /\ TypeOK /\ TurnInv /\ QuestionInv /\ GateInv
           /\ Fit(rv, Past, accepted) /\ (Calm => Merged(rv))
           /\ rv \in Rendezvous /\ Places(rv) \subseteq Questions
<1>1. rv \in Rendezvous
  BY DEF IInv, TypeOK
<1>2. Places(rv) \subseteq Questions
  BY <1>1, RendezvousFields DEF Places
<1> QED
  BY <1>1, <1>2 DEF IInv, RendezvousInv

LEMMA AnswerInTimeKeeps ==
    ASSUME IInv, NEW q \in Questions, AnswerInTime(q)
    PROVE  IInv' /\ rv'.receiver = rv.receiver
<1>1. /\ TypeOK /\ TurnInv /\ QuestionInv /\ GateInv /\ Fit(rv, Past, accepted)
      /\ (Calm => Merged(rv)) /\ rv \in Rendezvous /\ Places(rv) \subseteq Questions
  BY Facts
<1>2. /\ gate[q] = "waiting" /\ accepted' = accepted \cup {q}
      /\ gate' \in [Questions -> Gates]
      /\ \A p \in Questions : p # q => gate'[p] = gate[p]
      /\ gate'[q] \in {"inflight", "committed"}
      /\ UNCHANGED <<turnVars, asker, stopped, heir, restarting, stops, failures, expiries, void>>
  BY <1>1 DEF AnswerInTime, QuestionFrame, bounds, TypeOK, Gates
<1>3. q \notin Places(rv)
  BY <1>1, <1>2 DEF GateInv
<1>4. /\ rv' \in Rendezvous /\ rv'.handoff = rv.handoff /\ rv'.claimant = rv.claimant
      /\ rv'.delivery = rv.delivery /\ rv'.tombstones = rv.tombstones
      /\ rv'.strays = rv.strays /\ rv'.given = rv.given /\ rv'.receiver = rv.receiver
      /\ rv'.pending = rv.pending /\ rv'.stash = rv.stash \ {q}
  BY <1>1 DEF AnswerInTime, Rendezvous
<1>5. /\ Fit(rv', Past, accepted) /\ Places(rv') = Places(rv) /\ (Merged(rv) => Merged(rv'))
      /\ HandoffKeys(rv') = HandoffKeys(rv) /\ ClaimantKeys(rv') = ClaimantKeys(rv)
  BY <1>1, <1>3, <1>4, Restash DEF Places
<1>6. Fit(rv', Past, accepted \cup {q})
  BY <1>3, <1>4, <1>5, FitAnswered DEF Places
<1>7. QuestionInv'
  BY <1>1, <1>2 DEF QuestionInv, turnVars
<1>8. GateInv'
  <2>1. \A p \in Questions : gate[p] = "closed" <=> gate'[p] = "closed"
    BY <1>2
  <2> QED
    BY <1>1, <1>2, <1>5, <2>1, GateKept
<1>9. accepted' \in SUBSET Questions /\ void' \in SUBSET Questions /\ failures' \in Nat
  BY <1>1, <1>2 DEF TypeOK
<1> QED
  BY <1>1, <1>2, <1>4, <1>5, <1>6, <1>7, <1>8, <1>9, StepKeeps

LEMMA AnswerLateKeeps ==
    ASSUME IInv, NEW q \in Questions, AnswerLate(q)
    PROVE  IInv' /\ rv'.receiver = rv.receiver
<1>1. /\ TypeOK /\ TurnInv /\ QuestionInv /\ GateInv /\ Fit(rv, Past, accepted)
      /\ (Calm => Merged(rv)) /\ rv \in Rendezvous /\ Places(rv) \subseteq Questions
  BY Facts
<1> DEFINE s == [rv EXCEPT !.stash = rv.stash \cup {q}]
           later == accepted \cup {q}
           held == q \in HandoffKeys(rv) \cup ClaimantKeys(rv)
<1>2. /\ gate[q] \in {"inflight", "committed", "closed"} /\ accepted' = later
      /\ rv' = IF held THEN Attempt(s) ELSE IF q \in rv.tombstones THEN Recover(s, {q}) ELSE s
      /\ UNCHANGED <<turnVars, asker, gate, stopped, heir, restarting, stops, failures, expiries,
                     void>>
  BY DEF AnswerLate, QuestionFrame, bounds, questionVars, HandoffKeys, ClaimantKeys
<1>3. /\ s \in Rendezvous /\ s.handoff = rv.handoff /\ s.claimant = rv.claimant
      /\ s.delivery = rv.delivery /\ s.tombstones = rv.tombstones
      /\ s.strays = rv.strays /\ s.given = rv.given /\ s.receiver = rv.receiver
      /\ s.pending = rv.pending /\ s.stash = rv.stash \cup {q}
  BY <1>1 DEF Rendezvous
<1> HIDE DEF s
<1>4. /\ Fit(s, Past, accepted) /\ Places(s) = Places(rv) /\ (Merged(rv) => Merged(s))
      /\ HandoffKeys(s) = HandoffKeys(rv) /\ ClaimantKeys(s) = ClaimantKeys(rv)
  BY <1>1, <1>3, Restash
<1>5. /\ Fit(rv', Past, later) /\ Places(rv') \subseteq Places(rv)
      /\ Calm => Places(rv') = Places(rv)
      /\ (Merged(rv) => Merged(rv')) /\ rv'.receiver = rv.receiver
  <2>1. CASE held
    <3>1. q \notin s.tombstones
      BY <1>1, <1>3, <2>1 DEF Fit, OnePlace
    <3>2. Fit(s, Past, later)
      BY <1>3, <1>4, <3>1, FitAnswered
    <3>3. /\ Fit(Attempt(s), Past, later) /\ Places(Attempt(s)) \subseteq Places(s)
          /\ Calm => Places(Attempt(s)) = Places(s)
          /\ Attempt(s).handoff = s.handoff /\ Attempt(s).receiver = s.receiver
          /\ Attempt(s).claimant # None =>
               s.claimant # None /\ Attempt(s).claimant.token = s.claimant.token
      BY <3>2, AttemptKeeps
    <3> QED
      BY <1>2, <1>3, <1>4, <2>1, <3>3 DEF Merged
  <2>2. CASE ~held /\ q \in rv.tombstones
    <3> DEFINE K == {q}
    <3>1. /\ K \in SUBSET Questions /\ K \cap Places(s) \subseteq s.tombstones
          /\ Calm => K \cap accepted \subseteq s.stash
      BY <1>3, <2>2
    <3> HIDE DEF K
    <3>2. Fit(Recover(s, K), Past, accepted) /\ Places(Recover(s, K)) = Places(s) \cup K
      BY <1>4, <3>1, RecoverKeeps
    <3>3. /\ Recover(s, K).handoff = s.handoff /\ Recover(s, K).claimant = s.claimant
          /\ Recover(s, K).receiver = s.receiver
          /\ Recover(s, K).tombstones = (s.tombstones \ K) \cup (K \ s.stash)
      BY <1>3, <3>1, RecoverFields
    <3>4. HandoffKeys(Recover(s, K)) \cup ClaimantKeys(Recover(s, K))
            = HandoffKeys(rv) \cup ClaimantKeys(rv)
      BY <1>3, <3>3 DEF HandoffKeys, ClaimantKeys
    <3>5. q \notin Recover(s, K).tombstones
      BY <1>3, <3>3 DEF K
    <3>6. Fit(Recover(s, K), Past, later)
      BY <2>2, <3>2, <3>4, <3>5, FitAnswered
    <3>7. Places(s) \cup K = Places(s)
      BY <1>3, <2>2 DEF Places, K
    <3> QED
      BY <1>2, <1>3, <1>4, <2>2, <3>2, <3>3, <3>6, <3>7 DEF Merged, K
  <2>3. CASE ~held /\ q \notin rv.tombstones
    <3>1. Fit(s, Past, later)
      BY <1>3, <1>4, <2>3, FitAnswered
    <3> QED
      BY <1>2, <1>3, <1>4, <2>3, <3>1
  <2> QED
    BY <2>1, <2>2, <2>3
<1>6. QuestionInv'
  BY <1>1, <1>2 DEF QuestionInv, turnVars
<1>7. GateInv'
  BY <1>1, <1>2, <1>5, GateKept
<1>8. accepted' \in SUBSET Questions /\ void' \in SUBSET Questions /\ failures' \in Nat
      /\ gate' \in [Questions -> Gates]
  BY <1>1, <1>2 DEF TypeOK
<1> QED
  BY <1>1, <1>2, <1>5, <1>6, <1>7, <1>8, StepKeeps

LEMMA RejectKeeps ==
    ASSUME IInv, NEW q \in Questions, Reject(q)
    PROVE  IInv' /\ rv'.receiver = rv.receiver
<1>1. /\ TypeOK /\ TurnInv /\ QuestionInv /\ GateInv /\ Fit(rv, Past, accepted)
      /\ (Calm => Merged(rv)) /\ rv \in Rendezvous /\ Places(rv) \subseteq Questions
  BY Facts
<1>2. /\ gate[q] # "unasked" /\ rv' = Purge(rv, q)
      /\ gate' \in [Questions -> Gates]
      /\ \A p \in Questions : p # q => gate'[p] = gate[p]
      /\ gate'[q] = IF gate[q] = "waiting" THEN "closed" ELSE gate[q]
      /\ void' = IF q \in accepted THEN void ELSE void \cup {q}
      /\ UNCHANGED <<turnVars, asker, accepted, stopped, heir, restarting, stops, failures,
                     expiries>>
  BY <1>1 DEF Reject, QuestionFrame, bounds, TypeOK, Gates
<1>3. /\ Fit(rv', Past, accepted) /\ Places(rv') \subseteq Places(rv)
      /\ Places(rv) \subseteq Places(rv') \cup {q}
      /\ Calm /\ q \in accepted => Places(rv') = Places(rv)
      /\ (Merged(rv) => Merged(rv')) /\ rv'.receiver = rv.receiver
  BY <1>1, <1>2, PurgeKeeps
<1>4. QuestionInv'
  BY <1>1, <1>2 DEF QuestionInv, turnVars
<1>5. GateInv'
  <2>1. Places(rv)' = Places(rv') /\ (Calm <=> Calm')
    BY <1>2 DEF Places, HandoffKeys, ClaimantKeys, Delivering, Given, Calm
  <2>2. \A p \in Places(rv') : gate'[p] = "closed"
    BY <1>1, <1>2, <1>3 DEF GateInv
  <2>3. ASSUME Calm, NEW p \in Questions \ void', gate'[p] = "closed" PROVE p \in Places(rv')
    <3>1. CASE p # q
      BY <1>1, <1>2, <1>3, <2>3, <3>1 DEF GateInv
    <3>2. CASE p = q
      <4>1. q \in accepted /\ gate[q] # "waiting"
        BY <1>1, <1>2, <2>3, <3>2 DEF QuestionInv
      <4> QED
        BY <1>1, <1>2, <1>3, <2>3, <3>2, <4>1 DEF GateInv
    <3> QED
      BY <3>1, <3>2
  <2> QED
    BY <2>1, <2>2, <2>3 DEF GateInv
<1>6. accepted' \in SUBSET Questions /\ void' \in SUBSET Questions /\ void \subseteq void'
      /\ failures' \in Nat
  BY <1>1, <1>2 DEF TypeOK
<1>7. Fit(rv', Past, accepted')
  BY <1>2, <1>3
<1> QED
  BY <1>1, <1>2, <1>3, <1>4, <1>5, <1>6, <1>7, StepKeeps

LEMMA CommitKeeps ==
    ASSUME IInv, NEW q \in Questions, Commit(q)
    PROVE  IInv' /\ rv'.receiver = rv.receiver
<1>1. /\ TypeOK /\ TurnInv /\ QuestionInv /\ GateInv /\ Fit(rv, Past, accepted)
      /\ (Calm => Merged(rv)) /\ rv \in Rendezvous /\ Places(rv) \subseteq Questions
  BY Facts
<1>2. /\ gate[q] = "inflight" /\ gate' \in [Questions -> Gates]
      /\ \A p \in Questions : p # q => gate'[p] = gate[p]
      /\ gate'[q] = "committed" /\ rv' = rv
      /\ UNCHANGED <<turnVars, asker, accepted, void, stopped, heir, restarting, stops, failures,
                     expiries>>
  BY <1>1 DEF Commit, QuestionFrame, bounds, TypeOK, Gates
<1>3. QuestionInv'
  BY <1>1, <1>2 DEF QuestionInv, turnVars
<1>4. GateInv'
  <2>1. \A p \in Questions : gate[p] = "closed" <=> gate'[p] = "closed"
    BY <1>2
  <2> QED
    BY <1>1, <1>2, <2>1, GateKept
<1>5. accepted' \in SUBSET Questions /\ void' \in SUBSET Questions /\ failures' \in Nat
  BY <1>1, <1>2 DEF TypeOK
<1>6. Fit(rv', Past, accepted') /\ (Calm => Merged(rv')) /\ rv'.receiver = rv.receiver
  BY <1>1, <1>2
<1> QED
  BY <1>1, <1>2, <1>3, <1>4, <1>5, <1>6, StepKeeps

LEMMA GateAbortsKeeps ==
    ASSUME IInv, NEW q \in Questions, GateAborts(q)
    PROVE  IInv' /\ rv'.receiver = rv.receiver
<1>1. /\ TypeOK /\ TurnInv /\ QuestionInv /\ GateInv /\ Fit(rv, Past, accepted)
      /\ (Calm => Merged(rv)) /\ rv \in Rendezvous /\ Places(rv) \subseteq Questions
  BY Facts
<1> DEFINE t == asker[q]
           K == {q}
           expired == FALSE
           x == Register(rv, K, t, expired)
<1>2. /\ gate[q] = "settled" /\ gate' \in [Questions -> Gates]
      /\ \A p \in Questions : p # q => gate'[p] = gate[p]
      /\ gate'[q] = "closed"
      /\ rv' = IF t \in terminal THEN rv
               ELSE IF stage[t] = "mastra" THEN DeadSuccessor(Merge(x), t) ELSE Recover(rv, K)
      /\ UNCHANGED <<turnVars, asker, accepted, void, stopped, heir, restarting, stops, failures,
                     expiries>>
  BY <1>1 DEF GateAborts, QuestionFrame, bounds, TypeOK, Gates
<1>3. /\ K \in SUBSET Questions /\ q \notin Places(rv) /\ K \cap Places(rv) = {}
      /\ q \notin accepted
  BY <1>1, <1>2 DEF GateInv, QuestionInv
<1>4. t \in Turns
  <2>1. t \in TurnOrNone /\ t # 0
    BY <1>1, <1>2 DEF TypeOK, QuestionInv
  <2> QED
    BY <2>1, BoundsAssumption DEF Turns, TurnOrNone
<1>5. /\ Fit(rv', Past, accepted) /\ Places(rv') \subseteq Places(rv) \cup K
      /\ Calm => Places(rv') = Places(rv) \cup K
      /\ Calm => Merged(rv')
      /\ rv'.receiver = rv.receiver
  <2>1. CASE t \in terminal
    BY <1>1, <1>2, <2>1 DEF Calm, TurnInv
  <2>2. CASE t \notin terminal /\ stage[t] = "mastra"
    <3>1. Owing(rv, K, t, accepted)
      <4>1. \A p \in K \ rv.strays : InheritsFrom(asker[p], t)
        BY DEF InheritsFrom
      <4>2. \A p \in K : p \notin stopped \ rv.strays
        BY <1>1, <1>2, <2>2 DEF QuestionInv
      <4>3. t = issued => issued \in restarting
        BY <1>1, <1>2, <2>2 DEF QuestionInv
      <4>4. K \cap accepted = {}
        BY <1>3
      <4> QED
        BY <1>3, <1>4, <4>1, <4>2, <4>3, <4>4 DEF Owing
    <3>2. x = Register(rv, K, t, expired) /\ expired \in BOOLEAN /\ ~expired
      OBVIOUS
    <3> HIDE DEF x, K, t, expired
    <3>3. /\ Fit(x, Past, accepted) /\ Places(x) \subseteq Places(rv) \cup K
          /\ Calm /\ ~expired => Places(x) = Places(rv) \cup K
          /\ x.receiver = rv.receiver
          /\ Merged(rv) => Merged(x) \/ (x.handoff # None /\ x.handoff.successor = issued)
      BY <1>1, <3>1, <3>2, RegisterKeeps
    <3> DEFINE m == Merge(x)
    <3>4. /\ Fit(m, Past, accepted) /\ Places(m) \subseteq Places(x)
          /\ Calm => Places(m) = Places(x)
          /\ m.receiver = x.receiver
          /\ Calm /\ (Merged(x) \/ (x.handoff # None /\ x.handoff.successor = issued)) => Merged(m)
      BY <1>1, <3>3, MergeKeeps
    <3> HIDE DEF m
    <3>5. /\ Fit(DeadSuccessor(m, t), Past, accepted)
          /\ Places(DeadSuccessor(m, t)) = Places(m)
          /\ Merged(m) => Merged(DeadSuccessor(m, t))
          /\ DeadSuccessor(m, t).receiver = m.receiver
      BY <3>4, DeadSuccessorKeeps
    <3>6. rv' = DeadSuccessor(m, t)
      BY <1>2, <2>2 DEF m
    <3> QED
      BY <1>1, <3>2, <3>3, <3>4, <3>5, <3>6
  <2>3. CASE t \notin terminal /\ stage[t] # "mastra"
    <3>1. Calm => K \cap accepted \subseteq rv.stash
      BY <1>3
    <3>2. K \cap Places(rv) \subseteq rv.tombstones
      BY <1>3
    <3> HIDE DEF K, x, t
    <3>3. Fit(Recover(rv, K), Past, accepted) /\ Places(Recover(rv, K)) = Places(rv) \cup K
      BY <1>1, <1>3, <3>1, <3>2, RecoverKeeps
    <3>4. /\ Recover(rv, K).handoff = rv.handoff /\ Recover(rv, K).claimant = rv.claimant
          /\ Recover(rv, K).receiver = rv.receiver
      BY <1>1, <1>3, RecoverFields
    <3> QED
      BY <1>1, <1>2, <2>3, <3>3, <3>4 DEF Merged
  <2> QED
    BY <2>1, <2>2, <2>3
<1> HIDE DEF x
<1>6. QuestionInv'
  BY <1>1, <1>2, <1>3 DEF QuestionInv, turnVars
<1>7. GateInv'
  <2>1. Places(rv)' = Places(rv') /\ (Calm <=> Calm')
    BY <1>2 DEF Places, HandoffKeys, ClaimantKeys, Delivering, Given, Calm
  <2>2. \A p \in Places(rv') : gate'[p] = "closed"
    BY <1>1, <1>2, <1>5 DEF GateInv
  <2>3. Calm => \A p \in Questions \ void' : gate'[p] = "closed" => p \in Places(rv')
    BY <1>1, <1>2, <1>5 DEF GateInv
  <2> QED
    BY <2>1, <2>2, <2>3 DEF GateInv
<1>8. accepted' \in SUBSET Questions /\ void' \in SUBSET Questions /\ void \subseteq void'
      /\ failures' \in Nat
  BY <1>1, <1>2 DEF TypeOK
<1>9. Fit(rv', Past, accepted')
  BY <1>2, <1>5
<1> QED
  BY <1>1, <1>2, <1>5, <1>6, <1>7, <1>8, <1>9, StepKeeps

\* The same, for the steps of the deliveries.
LEMMA DeliveryStepKeeps ==
    ASSUME IInv, RendezvousFrame, expiries' = expiries, void \subseteq void',
           void' \in SUBSET Questions, failures' \in Nat,
           Fit(rv', Past, accepted), Calm => Merged(rv'), Places(rv') \subseteq Places(rv),
           Calm => Places(rv) \subseteq Places(rv') \cup void'
    PROVE  IInv'
<1>1. /\ TypeOK /\ TurnInv /\ QuestionInv /\ GateInv /\ Places(rv) \subseteq Questions
  BY Facts
<1>2. UNCHANGED <<turnVars, asker, gate, stopped, heir, restarting, stops, expiries, accepted>>
  BY DEF RendezvousFrame, questionVars
<1>3. QuestionInv'
  BY <1>1, <1>2, QuestionsKept DEF questionVars
<1>4. GateInv'
  BY <1>1, <1>2, GateKept
<1>5. gate' \in [Questions -> Gates] /\ accepted' \in SUBSET Questions
  BY <1>1, <1>2 DEF TypeOK
<1>6. Fit(rv', Past, accepted')
  BY <1>2
<1> QED
  BY <1>2, <1>3, <1>4, <1>5, <1>6, StepKeeps

\* The delivery of q is over, and the answer is nowhere yet.
Over(q) == [rv EXCEPT !.delivery = [rv.delivery EXCEPT ![q] = None]]

LEMMA DeliveryOver ==
    ASSUME IInv, NEW q \in Questions, rv.delivery[q] # None, NEW r, r = Over(q)
    PROVE  /\ Fit(r, Past, accepted) /\ q \notin Places(r) /\ Places(rv) = Places(r) \cup {q}
           /\ r \in Rendezvous /\ r.handoff = rv.handoff /\ r.claimant = rv.claimant
           /\ r.delivery = [rv.delivery EXCEPT ![q] = None]
           /\ r.stash = rv.stash /\ r.tombstones = rv.tombstones /\ r.pending = rv.pending
           /\ r.strays = rv.strays /\ r.given = rv.given /\ r.receiver = rv.receiver
           /\ Merged(rv) => Merged(r)
<1>1. rv \in Rendezvous /\ Fit(rv, Past, accepted) /\ q \in Delivering(rv)
  BY Facts DEF Delivering
<1> DEFINE d == [rv.delivery EXCEPT ![q] = None]
<1>2. d \in [Questions -> Delivery \cup {None}]
  <2>1. rv.delivery \in [Questions -> Delivery \cup {None}]
    BY <1>1, RendezvousFields
  <2> QED
    BY <2>1
<1> HIDE DEF d
<1>3. /\ r \in Rendezvous /\ r.handoff = rv.handoff /\ r.claimant = rv.claimant
      /\ r.delivery = d
      /\ r.stash = rv.stash /\ r.tombstones = rv.tombstones /\ r.pending = rv.pending
      /\ r.strays = rv.strays /\ r.given = rv.given /\ r.receiver = rv.receiver
  BY <1>1, <1>2 DEF Rendezvous, Over, d
<1>4. r.delivery = [rv.delivery EXCEPT ![q] = None] /\ rv.stash \subseteq r.stash
  BY <1>3 DEF d
<1>5. Fit(r, Past, accepted) /\ q \notin Places(r) /\ Places(rv) = Places(r) \cup {q}
  BY <1>1, <1>3, <1>4, EndDelivery
<1> QED
  BY <1>3, <1>4, <1>5 DEF Merged

\* Only here does a turn receive an answer; one that was stopped meanwhile is given it as
\* it unwinds.
LEMMA DeliveredKeeps ==
    ASSUME IInv, NEW q \in Questions, Delivered(q)
    PROVE  /\ IInv'
           /\ \A p \in Questions : p # q => rv'.receiver[p] = rv.receiver[p]
           /\ q \in stopped \ rv.strays => rv'.receiver[q] \in terminal
<1>1. /\ TypeOK /\ Fit(rv, Past, accepted) /\ (Calm => Merged(rv)) /\ rv \in Rendezvous
  BY Facts
<1> DEFINE r == Over(q)
           K == {q}
<1>2. rv.delivery[q] # None /\ rv.delivery[q].token = active
  BY DEF Delivered
<1>3. /\ Fit(r, Past, accepted) /\ q \notin Places(r) /\ Places(rv) = Places(r) \cup {q}
      /\ r \in Rendezvous /\ r.handoff = rv.handoff /\ r.claimant = rv.claimant
      /\ r.strays = rv.strays /\ r.given = rv.given /\ r.receiver = rv.receiver
      /\ Merged(rv) => Merged(r)
  BY <1>2, DeliveryOver
<1> DEFINE g == [rv.given EXCEPT ![q] = rv.given[q] + 1]
           c == [rv.receiver EXCEPT ![q] = active]
<1>4. /\ rv.given \in [Questions -> Nat] /\ rv.receiver \in [Questions -> TurnOrNone]
      /\ active \in TurnOrNone
  BY <1>1, RendezvousFields DEF TypeOK
<1>5. /\ g \in [Questions -> Nat] /\ c \in [Questions -> TurnOrNone]
      /\ \A p \in Questions : g[p] = rv.given[p] + (IF p \in K THEN 1 ELSE 0)
      /\ \A p \in Questions : p # q => c[p] = rv.receiver[p]
      /\ c[q] = active
  BY <1>4
<1>6. rv' = [r EXCEPT !.given = g, !.receiver = c]
  <2>1. rv' = [rv EXCEPT !.delivery = [rv.delivery EXCEPT ![q] = None], !.given = g,
                         !.receiver = c]
    BY <1>1 DEF Delivered, Rendezvous
  <2> QED
    BY <1>1, <2>1 DEF Rendezvous, Over
<1> HIDE DEF r, g, c
<1>7. /\ rv' \in Rendezvous /\ rv'.handoff = r.handoff /\ rv'.claimant = r.claimant
      /\ rv'.delivery = r.delivery /\ rv'.tombstones = r.tombstones /\ rv'.strays = r.strays
      /\ rv'.stash = r.stash /\ rv'.pending = r.pending /\ rv'.given = g /\ rv'.receiver = c
  BY <1>3, <1>5, <1>6 DEF Rendezvous
<1>8. q \in rv.strays \/ InheritsFrom(asker[q], active)
  BY <1>1, <1>2 DEF Fit, Inherited, Delivering
<1>9. /\ K \in SUBSET Questions /\ K \cap Places(r) = {}
      /\ \A p \in Questions : rv'.given[p] = r.given[p] + (IF p \in K THEN 1 ELSE 0)
      /\ \A p \in Questions :
           \/ rv'.receiver[p] = r.receiver[p]
           \/ p \in K /\ (p \in r.strays \/ InheritsFrom(asker[p], rv'.receiver[p]))
  BY <1>3, <1>5, <1>7, <1>8
<1>10. /\ Fit(rv', Past, accepted) /\ Places(rv') = Places(r) \cup K
       /\ Merged(r) => Merged(rv')
  <2> HIDE DEF K
  <2> QED
    BY <1>3, <1>7, <1>9, Give
<1>11. /\ RendezvousFrame /\ expiries' = expiries /\ void' = void /\ failures' = failures
       /\ void \in SUBSET Questions /\ failures \in Nat
  BY <1>1 DEF Delivered, TypeOK
<1>12. IInv'
  BY <1>1, <1>3, <1>10, <1>11, DeliveryStepKeeps
<1>13. q \in stopped \ rv.strays => active \in terminal
  BY <1>1, <1>2 DEF Fit, Halted, Delivering
<1> QED
  BY <1>5, <1>7, <1>12, <1>13

LEMMA BlockedKeeps ==
    ASSUME IInv, NEW q \in Questions, Blocked(q)
    PROVE  IInv' /\ rv'.receiver = rv.receiver
<1>1. /\ TypeOK /\ (Calm => Merged(rv)) /\ rv \in Rendezvous
  BY Facts
<1> DEFINE r == Over(q)
<1>2. rv' = Purge(r, q) /\ rv.delivery[q] # None
  BY <1>1 DEF Blocked, Rendezvous, Over
<1>3. /\ Fit(r, Past, accepted) /\ Places(rv) = Places(r) \cup {q}
      /\ r.receiver = rv.receiver /\ (Merged(rv) => Merged(r))
  BY <1>2, DeliveryOver
<1> HIDE DEF r
<1>4. /\ Fit(rv', Past, accepted) /\ Places(rv') \subseteq Places(r)
      /\ Places(r) \subseteq Places(rv') \cup {q}
      /\ Merged(r) => Merged(rv')
      /\ rv'.receiver = r.receiver
  BY <1>2, <1>3, PurgeKeeps
<1>5. /\ RendezvousFrame /\ expiries' = expiries /\ void' = void \cup {q}
      /\ failures' = failures + 1
      /\ void \in SUBSET Questions /\ failures \in Nat
  BY <1>1 DEF Blocked, TypeOK
<1>6. /\ failures' \in Nat /\ void' \in SUBSET Questions /\ void \subseteq void'
      /\ Calm => Merged(rv')
      /\ Places(rv') \subseteq Places(rv) /\ Places(rv) \subseteq Places(rv') \cup void'
  BY <1>1, <1>3, <1>4, <1>5
<1> QED
  BY <1>3, <1>4, <1>5, <1>6, DeliveryStepKeeps

LEMMA DeliveryFailsKeeps ==
    ASSUME IInv, NEW q \in Questions, DeliveryFails(q)
    PROVE  IInv' /\ rv'.receiver = rv.receiver
<1>1. /\ TypeOK /\ TurnInv /\ Fit(rv, Past, accepted) /\ (Calm => Merged(rv))
  BY Facts
<1>2. rv' = Fail(rv, q) /\ q \in Delivering(rv)
  BY DEF DeliveryFails, Delivering
<1>3. /\ Fit(rv', Past, accepted) /\ Places(rv') \subseteq Places(rv)
      /\ Calm => Places(rv') = Places(rv)
      /\ Calm /\ Merged(rv) => Merged(rv')
      /\ rv'.receiver = rv.receiver
  BY <1>1, <1>2, FailKeeps
<1>4. /\ RendezvousFrame /\ expiries' = expiries /\ void' = void
      /\ void' \in SUBSET Questions /\ failures' \in Nat
  BY <1>1 DEF DeliveryFails, TypeOK
<1> QED
  BY <1>1, <1>3, <1>4, DeliveryStepKeeps

LEMMA RecoveredSettlesKeeps ==
    ASSUME IInv, NEW q \in Questions, RecoveredSettles(q)
    PROVE  IInv' /\ rv'.receiver = rv.receiver
<1>1. /\ TypeOK /\ Fit(rv, Past, accepted) /\ (Calm => Merged(rv)) /\ rv \in Rendezvous
  BY Facts
<1>2. PICK asMessage \in BOOLEAN :
        rv' = [rv EXCEPT !.pending = rv.pending \ {q},
                         !.stash = IF asMessage THEN rv.stash \ {q} ELSE rv.stash]
  BY <1>1 DEF RecoveredSettles, Rendezvous
<1>3. /\ rv' \in Rendezvous /\ rv'.handoff = rv.handoff /\ rv'.claimant = rv.claimant
      /\ rv'.delivery = rv.delivery /\ rv'.tombstones = rv.tombstones
      /\ rv'.strays = rv.strays /\ rv'.given = rv.given /\ rv'.receiver = rv.receiver
      /\ rv'.pending \subseteq rv.pending
      /\ \A p \in Questions : p # q /\ p \in rv.stash => p \in rv'.stash
  BY <1>1, <1>2 DEF Rendezvous
<1>4. q \notin HandoffKeys(rv) \cup ClaimantKeys(rv)
  BY <1>1 DEF RecoveredSettles, Fit, OnePlace
<1>5. HandoffKeys(rv) \cup ClaimantKeys(rv) \subseteq Questions
  BY <1>1, RendezvousFields
<1>6. \A p \in HandoffKeys(rv) \cup ClaimantKeys(rv) : p \in rv.stash => p \in rv'.stash
  BY <1>3, <1>4, <1>5
<1>7. Fit(rv', Past, accepted) /\ Places(rv') = Places(rv) /\ (Merged(rv) => Merged(rv'))
  BY <1>1, <1>3, <1>6, Restash
<1>8. /\ RendezvousFrame /\ expiries' = expiries /\ void' = void
      /\ void' \in SUBSET Questions /\ failures' \in Nat
  BY <1>1 DEF RecoveredSettles, TypeOK
<1> QED
  BY <1>1, <1>3, <1>7, <1>8, DeliveryStepKeeps

LEMMA TimerFiresKeeps ==
    ASSUME IInv, TimerFires
    PROVE  IInv' /\ rv'.receiver = rv.receiver
<1>1. /\ TypeOK /\ Fit(rv, Past, accepted) /\ (Calm => Merged(rv)) /\ rv \in Rendezvous
  BY Facts
<1> DEFINE s == [rv EXCEPT !.timers = rv.timers - 1]
<1>2. rv' = Attempt(s)
  BY <1>1 DEF TimerFires, Rendezvous
<1>3. /\ s \in Rendezvous /\ s.handoff = rv.handoff /\ s.claimant = rv.claimant
      /\ s.delivery = rv.delivery /\ s.tombstones = rv.tombstones
      /\ s.strays = rv.strays /\ s.given = rv.given /\ s.receiver = rv.receiver
      /\ s.pending = rv.pending /\ s.stash = rv.stash
  <2>1. rv.timers - 1 \in Nat
    <3>1. rv.timers \in Nat
      BY <1>1, RendezvousFields
    <3> QED
      BY <3>1 DEF TimerFires
  <2> QED
    BY <1>1, <2>1 DEF Rendezvous
<1> HIDE DEF s
<1>4. Fit(s, Past, accepted) /\ Places(s) = Places(rv) /\ (Merged(rv) => Merged(s))
  BY <1>1, <1>3, Restash
<1>5. /\ Fit(rv', Past, accepted) /\ Places(rv') \subseteq Places(s)
      /\ Calm => Places(rv') = Places(s)
      /\ rv'.handoff = s.handoff /\ rv'.receiver = s.receiver
      /\ rv'.claimant # None => s.claimant # None /\ rv'.claimant.token = s.claimant.token
  BY <1>2, <1>4, AttemptKeeps
<1>6. Merged(s) => Merged(rv')
  BY <1>5 DEF Merged
<1>7. /\ RendezvousFrame /\ expiries' = expiries /\ void' = void
      /\ void' \in SUBSET Questions /\ failures' \in Nat
  BY <1>1 DEF TimerFires, TypeOK
<1> QED
  BY <1>1, <1>3, <1>4, <1>5, <1>6, <1>7, DeliveryStepKeeps

\* What expires is marked so, and a tombstone is gone: nothing else moves.
LEMMA ExpireKeeps ==
    ASSUME IInv, Expire
    PROVE  IInv' /\ rv'.receiver = rv.receiver
<1>1. /\ TypeOK /\ TurnInv /\ QuestionInv /\ GateInv /\ Fit(rv, Past, accepted)
      /\ rv \in Rendezvous /\ Places(rv) \subseteq Questions
  BY Facts
<1>2. /\ expiries' = expiries + 1 /\ failures' = failures
      /\ UNCHANGED <<turnVars, questionVars, accepted, stopped, heir, restarting, stops>>
  BY DEF Expire, RendezvousFrame
<1>3. ~Calm'
  BY <1>1, <1>2 DEF Calm, TypeOK
<1>4. /\ rv' \in Rendezvous
      /\ rv'.stash = rv.stash /\ rv'.strays = rv.strays /\ rv'.given = rv.given
      /\ rv'.receiver = rv.receiver /\ rv'.pending = rv.pending
      /\ rv'.tombstones \subseteq rv.tombstones
      /\ rv'.handoff # None =>
           /\ rv.handoff # None /\ rv'.handoff.keys = rv.handoff.keys
           /\ rv'.handoff.source = rv.handoff.source
           /\ rv'.handoff.successor = rv.handoff.successor
           /\ rv'.handoff.stopped = rv.handoff.stopped
           /\ rv.handoff.expired => rv'.handoff.expired
      /\ rv'.handoff = None => rv.handoff = None
      /\ rv'.claimant # None =>
           /\ rv.claimant # None /\ rv'.claimant.keys = rv.claimant.keys
           /\ rv'.claimant.token = rv.claimant.token
           /\ rv'.claimant.stopped = rv.claimant.stopped
      /\ rv'.claimant = None => rv.claimant = None
      /\ \A q \in Questions : rv'.delivery[q] # None =>
           /\ rv.delivery[q] # None /\ rv'.delivery[q].token = rv.delivery[q].token
           /\ rv'.delivery[q].stopped = rv.delivery[q].stopped
      /\ void \subseteq void' /\ void' \in SUBSET Questions
  <2>0. /\ rv.handoff # None => rv.handoff \in Handoff
        /\ rv.claimant # None => rv.claimant \in Claimant
        /\ rv.delivery \in [Questions -> Delivery \cup {None}]
        /\ void \subseteq Questions
    BY <1>1 DEF Rendezvous, TypeOK
  <2>1. CASE ExpireHandoff
    <3> DEFINE h == [rv.handoff EXCEPT !.expired = TRUE]
    <3>1. rv' = [rv EXCEPT !.handoff = h] /\ rv.handoff # None /\ void' = void \cup rv.handoff.keys
      BY <1>1, <2>1 DEF ExpireHandoff, Rendezvous
    <3>2. /\ h \in Handoff /\ h.keys = rv.handoff.keys /\ h.source = rv.handoff.source
          /\ h.successor = rv.handoff.successor /\ h.stopped = rv.handoff.stopped
          /\ h.expired = TRUE
      BY <2>0, <3>1 DEF Handoff
    <3>3. h # None /\ rv.handoff.keys \subseteq Questions
      <4>1. rv.handoff.keys \subseteq Questions
        BY <1>1, <3>1, RendezvousFields
      <4> QED
        BY <3>2, <4>1, NoneAssumption
    <3> HIDE DEF h
    <3> QED
      BY <1>1, <2>0, <3>1, <3>2, <3>3 DEF Rendezvous
  <2>2. CASE ExpireClaimant
    <3> DEFINE c == [rv.claimant EXCEPT !.expired = TRUE]
               mine(e) == e # None /\ e.token = rv.claimant.token
               d == [q \in Questions |-> IF mine(rv.delivery[q])
                                         THEN [rv.delivery[q] EXCEPT !.expired = TRUE]
                                         ELSE rv.delivery[q]]
    <3>1. /\ rv' = [rv EXCEPT !.claimant = c, !.delivery = d] /\ rv.claimant # None
          /\ void' = void \cup rv.claimant.keys \cup {q \in Questions : mine(rv.delivery[q])}
      BY <1>1, <2>2 DEF ExpireClaimant, Rendezvous
    <3>2. /\ c \in Claimant /\ c.keys = rv.claimant.keys /\ c.token = rv.claimant.token
          /\ c.stopped = rv.claimant.stopped
      BY <2>0, <3>1 DEF Claimant
    <3>3. c # None /\ rv.claimant.keys \subseteq Questions
      <4>1. rv.claimant.keys \subseteq Questions
        BY <1>1, <3>1, RendezvousFields
      <4> QED
        BY <3>2, <4>1, NoneAssumption
    <3>4. ASSUME NEW q \in Questions
          PROVE  /\ d[q] \in Delivery \cup {None}
                 /\ d[q] # None => /\ rv.delivery[q] # None
                                   /\ d[q].token = rv.delivery[q].token
                                   /\ d[q].stopped = rv.delivery[q].stopped
      <4>1. CASE mine(rv.delivery[q])
        <5>1. rv.delivery[q] \in Delivery /\ rv.delivery[q] # None
          BY <2>0, <4>1
        <5>2. d[q] = [rv.delivery[q] EXCEPT !.expired = TRUE]
          BY <4>1
        <5> HIDE DEF d
        <5> QED
          BY <5>1, <5>2 DEF Delivery
      <4>2. CASE ~mine(rv.delivery[q])
        <5>1. d[q] = rv.delivery[q]
          BY <4>2
        <5> HIDE DEF d
        <5> QED
          BY <2>0, <5>1
      <4> QED
        BY <4>1, <4>2
    <3>5. d \in [Questions -> Delivery \cup {None}]
      BY <3>4
    <3>6. void' \in SUBSET Questions /\ void \subseteq void'
      BY <2>0, <3>1, <3>3
    <3> HIDE DEF c, d, mine
    <3>7. rv' \in Rendezvous
      BY <1>1, <3>1, <3>2, <3>5 DEF Rendezvous
    <3>8. /\ rv'.claimant = c /\ rv'.delivery = d /\ rv'.handoff = rv.handoff
          /\ rv'.stash = rv.stash /\ rv'.strays = rv.strays /\ rv'.given = rv.given
          /\ rv'.receiver = rv.receiver /\ rv'.pending = rv.pending
          /\ rv'.tombstones = rv.tombstones
      BY <1>1, <3>1 DEF Rendezvous
    <3> QED
      BY <3>1, <3>2, <3>3, <3>4, <3>6, <3>7, <3>8
  <2>3. ASSUME NEW q \in Questions, ExpireTombstone(q)
        PROVE  /\ rv' = [rv EXCEPT !.tombstones = rv.tombstones \ {q}]
               /\ void' = void \cup {q}
    BY <1>1, <2>3 DEF ExpireTombstone, Rendezvous
  <2>4. CASE \E q \in Questions : ExpireTombstone(q)
    BY <1>1, <2>0, <2>3, <2>4 DEF Rendezvous
  <2> QED
    BY <2>1, <2>2, <2>4 DEF Expire
<1>5. /\ HandoffKeys(rv') = HandoffKeys(rv) /\ ClaimantKeys(rv') = ClaimantKeys(rv)
      /\ Delivering(rv') \subseteq Delivering(rv) /\ Given(rv') = Given(rv)
      /\ Delivering(rv') \subseteq Questions
  BY <1>4 DEF HandoffKeys, ClaimantKeys, Delivering, Given
<1>6. OnePlace(rv) /\ Inherited(rv) /\ Halted(rv, Past)
  BY <1>1 DEF Fit
<1>7. OnePlace(rv')
  BY <1>4, <1>5, <1>6 DEF OnePlace
<1>8. Inherited(rv')
  <2>1. rv'.handoff # None /\ ~Invalid(rv'.handoff) => ~Invalid(rv.handoff)
    BY <1>4 DEF Invalid
  <2>2. rv'.handoff # None /\ ~Invalid(rv'.handoff) =>
          /\ rv'.handoff.successor # 0 =>
               /\ InheritsFrom(rv'.handoff.source, rv'.handoff.successor)
               /\ \A q \in rv'.handoff.keys \ rv'.strays :
                    InheritsFrom(asker[q], rv'.handoff.successor)
          /\ rv'.handoff.successor = 0 =>
               /\ rv'.handoff.source = issued /\ issued \in restarting
               /\ \A q \in rv'.handoff.keys \ rv'.strays : InheritsFrom(asker[q], issued)
    BY <1>4, <1>6, <2>1 DEF Inherited
  <2>3. rv'.claimant # None =>
          \A q \in rv'.claimant.keys \ rv'.strays : InheritsFrom(asker[q], rv'.claimant.token)
    BY <1>4, <1>6 DEF Inherited
  <2>4. \A q \in Delivering(rv') \ rv'.strays : InheritsFrom(asker[q], rv'.delivery[q].token)
    BY <1>4, <1>5, <1>6 DEF Inherited, Delivering
  <2>5. \A q \in Questions \ rv'.strays :
          rv'.receiver[q] # 0 => InheritsFrom(asker[q], rv'.receiver[q])
    BY <1>4, <1>6 DEF Inherited
  <2> QED
    BY <2>2, <2>3, <2>4, <2>5 DEF Inherited
<1>9. Halted(rv', Past)
  <2>1. /\ \A q \in HandoffKeys(rv') : q \in stopped \ rv'.strays => rv'.handoff.stopped
        /\ \A q \in ClaimantKeys(rv') : q \in stopped \ rv'.strays => rv'.claimant.stopped
        /\ rv'.claimant # None => rv'.claimant.token \in Past
    BY <1>4, <1>5, <1>6 DEF Halted, HandoffKeys, ClaimantKeys
  <2>2. ASSUME NEW q \in Delivering(rv')
        PROVE  /\ q \in stopped \ rv'.strays => rv'.delivery[q].stopped
               /\ rv'.delivery[q].token \in Past
               /\ rv'.delivery[q].stopped =>
                    /\ rv'.delivery[q].token \in terminal \/ rv'.delivery[q].token # active
                    /\ (rv'.claimant # None /\ rv'.claimant.token = rv'.delivery[q].token
                          => rv'.claimant.stopped)
    <3>1. /\ q \in Delivering(rv) /\ rv'.delivery[q].token = rv.delivery[q].token
          /\ rv'.delivery[q].stopped = rv.delivery[q].stopped
      BY <1>4, <1>5 DEF Delivering
    <3> QED
      BY <1>4, <1>6, <3>1 DEF Halted
  <2> QED
    BY <2>1, <2>2 DEF Halted
<1>10. Fit(rv, Past, accepted)'
  <2>1. Past' = Past
    BY <1>2 DEF Past, turnVars
  <2>2. (Delivering(rv))' = Delivering(rv') /\ HandoffKeys(rv)' = HandoffKeys(rv')
        /\ ClaimantKeys(rv)' = ClaimantKeys(rv') /\ Given(rv)' = Given(rv')
    BY DEF Delivering, HandoffKeys, ClaimantKeys, Given
  <2>3. OnePlace(rv)'
    BY <1>7, <2>2 DEF OnePlace
  <2>4. Inherited(rv)'
    BY <1>2, <1>8, <2>2 DEF Inherited, InheritsFrom, Reaches, Invalid, turnVars, questionVars
  <2>5. Halted(rv, Past)'
    BY <1>2, <1>9, <2>1, <2>2 DEF Halted, turnVars
  <2>6. (rv \in Rendezvous)'
    BY <1>4 DEF Rendezvous
  <2> QED
    BY <1>3, <2>3, <2>4, <2>5, <2>6 DEF Fit
<1>11. RendezvousInv'
  BY <1>3, <1>10 DEF RendezvousInv
<1>12. GateInv'
  <2>1. Places(rv)' \subseteq Places(rv)
    BY <1>4, <1>5 DEF Places, HandoffKeys, ClaimantKeys, Delivering, Given
  <2> QED
    BY <1>1, <1>2, <1>3, <2>1 DEF GateInv, questionVars
<1>13. TurnInv' /\ QuestionInv'
  BY <1>1, <1>2, TurnFrame, QuestionsKept
<1>14. TypeOK'
  BY <1>1, <1>2, <1>4 DEF TypeOK, turnVars, questionVars
<1> QED
  BY <1>4, <1>11, <1>12, <1>13, <1>14 DEF IInv

LEMMA AskKeeps ==
    ASSUME IInv, NEW t \in Turns, NEW q \in Questions, Ask(t, q)
    PROVE  IInv' /\ rv'.receiver = rv.receiver
<1>1. /\ TypeOK /\ TurnInv /\ QuestionInv /\ GateInv /\ Fit(rv, Past, accepted)
      /\ (Calm => Merged(rv)) /\ rv \in Rendezvous /\ Places(rv) \subseteq Questions
  BY Facts
<1>2. /\ asker[q] = 0 /\ t \notin aborted /\ stage[t] \in {"mastra", "other"}
      /\ asker' \in [Questions -> TurnOrNone] /\ gate' \in [Questions -> Gates]
      /\ asker'[q] = t /\ gate'[q] = "waiting"
      /\ \A p \in Questions : p # q => asker'[p] = asker[p] /\ gate'[p] = gate[p]
      /\ rv' = rv
      /\ UNCHANGED <<turnVars, accepted, void, stopped, heir, restarting, stops, failures,
                     expiries>>
  BY <1>1 DEF Ask, QuestionFrame, bounds, TypeOK, Gates, Turns, TurnOrNone
<1>3. gate[q] = "unasked" /\ q \notin Places(rv) /\ q \notin accepted /\ q \notin stopped
  BY <1>1, <1>2 DEF QuestionInv, GateInv
<1>4. t = active /\ t # 0 /\ t <= issued
  BY <1>1, <1>2 DEF TurnInv, Turns, TurnOrNone
<1>5. /\ Places(rv)' = Places(rv) /\ HandoffKeys(rv)' = HandoffKeys(rv)
      /\ ClaimantKeys(rv)' = ClaimantKeys(rv) /\ Delivering(rv)' = Delivering(rv)
      /\ Given(rv)' = Given(rv) /\ (Calm <=> Calm') /\ Past' = Past
  BY <1>2 DEF Places, HandoffKeys, ClaimantKeys, Delivering, Given, Calm, Past, turnVars
<1>6. \A p \in Places(rv) : asker'[p] = asker[p]
  BY <1>1, <1>2, <1>3
<1>7. Fit(rv, Past, accepted)'
  <2>0. /\ OnePlace(rv) /\ Inherited(rv) /\ Halted(rv, Past)
        /\ Calm => Live(rv) /\ Stashed(rv, accepted)
    BY <1>1 DEF Fit
  <2>1. OnePlace(rv)'
    BY <1>2, <1>5, <2>0 DEF OnePlace
  <2>2. Inherited(rv)'
    <3>1. \A p, u : InheritsFrom(p, u)' <=> (u = p \/ Reaches(heir, p, u))
      BY <1>2 DEF InheritsFrom, Reaches, Turns
    <3>2. /\ rv.handoff # None => \A p \in rv.handoff.keys : asker'[p] = asker[p]
          /\ rv.claimant # None => \A p \in rv.claimant.keys : asker'[p] = asker[p]
          /\ \A p \in Delivering(rv) : asker'[p] = asker[p]
          /\ \A p \in Questions : rv.receiver[p] # 0 => asker'[p] = asker[p]
      BY <1>6, <2>0 DEF Places, HandoffKeys, ClaimantKeys, OnePlace
    <3> QED
      BY <1>2, <1>5, <2>0, <3>2 DEF Inherited, InheritsFrom, Reaches, Invalid, turnVars
  <2>3. Halted(rv, Past)'
    BY <1>2, <1>5, <2>0 DEF Halted, turnVars
  <2>4. Calm' => Live(rv)' /\ Stashed(rv, accepted)'
    BY <1>2, <1>5, <2>0 DEF Live, Stashed, Invalid, turnVars
  <2>5. (rv \in Rendezvous)'
    BY <1>1, <1>2 DEF Rendezvous
  <2> QED
    BY <2>1, <2>2, <2>3, <2>4, <2>5 DEF Fit
<1>8. RendezvousInv'
  BY <1>1, <1>2, <1>5, <1>7 DEF RendezvousInv, Merged
<1>9. TurnInv'
  BY <1>1, <1>2, TurnFrame
<1>10. QuestionInv'
  BY <1>1, <1>2, <1>3, <1>4 DEF QuestionInv, turnVars
<1>11. GateInv'
  BY <1>1, <1>2, <1>3, <1>5 DEF GateInv
<1>12. TypeOK'
  BY <1>1, <1>2 DEF TypeOK, turnVars
<1> QED
  BY <1>2, <1>8, <1>9, <1>10, <1>11, <1>12 DEF IInv

LEMMA PlanRestartKeeps ==
    ASSUME IInv, NEW t \in Turns, PlanRestart(t)
    PROVE  IInv' /\ rv'.receiver = rv.receiver
<1>1. /\ TypeOK /\ TurnInv /\ QuestionInv /\ GateInv /\ Fit(rv, Past, accepted)
      /\ (Calm => Merged(rv)) /\ rv \in Rendezvous /\ Places(rv) \subseteq Questions
  BY Facts
<1>2. /\ active = t /\ t \notin aborted /\ Quiet
      /\ aborted' = aborted \cup {t} /\ restarting' = restarting \cup {t}
      /\ gate' \in [Questions -> Gates]
      /\ \A q \in Questions : gate'[q] = IF asker[q] = t /\ gate[q] = "waiting" THEN "settled"
                                         ELSE gate[q]
      /\ rv' = rv
      /\ UNCHANGED <<issued, active, superseded, stage, terminal, asker, accepted, stopped, void,
                     heir, stops, failures, expiries>>
  BY <1>1 DEF PlanRestart, Settled, bounds, TypeOK, Gates
<1>3. t = issued
  BY <1>1, <1>2 DEF TurnInv, Turns
<1>4. /\ Places(rv)' = Places(rv) /\ (Calm <=> Calm') /\ Past' = Past
  BY <1>2 DEF Places, HandoffKeys, ClaimantKeys, Delivering, Given, Calm, Past
<1>5. RendezvousInv'
  <2>1. /\ Fit(rv', Past, accepted)
        /\ UNCHANGED <<issued, terminal, asker, stopped, heir, stops, expiries>>
        /\ active' \in {0, active} /\ restarting \subseteq restarting' /\ stage' = stage
    BY <1>1, <1>2
  <2>2. Fit(rv, Past, accepted)'
    BY <1>2, <1>4, <2>1, FitFrame
  <2> QED
    BY <1>1, <1>2, <1>4, <2>2 DEF RendezvousInv, Merged
<1>6. TurnInv'
  <2>1. TurnOrNone' = TurnOrNone /\ Turns' = Turns
    BY DEF TurnOrNone, Turns
  <2>2. \A u \in aborted' : u <= issued'
    BY <1>1, <1>2, <1>3 DEF TurnInv, Turns
  <2>3. restarting' \subseteq {issued'}
    BY <1>1, <1>2, <1>3 DEF TurnInv
  <2> QED
    BY <1>1, <1>2, <2>1, <2>2, <2>3 DEF TurnInv
<1>7. QuestionInv'
  <2> SUFFICES ASSUME NEW q \in Questions
               PROVE  /\ asker'[q] = 0 <=> gate'[q] = "unasked"
                      /\ asker'[q] <= issued'
                      /\ gate'[q] = "waiting" => asker'[q] = active' /\ asker'[q] \notin aborted'
                      /\ gate'[q] = "settled" /\ asker'[q] = issued'
                         /\ asker'[q] \notin terminal' => asker'[q] \in restarting'
                      /\ q \in accepted' => gate'[q] \in {"inflight", "committed", "closed"}
                      /\ q \in stopped' => /\ gate'[q] \notin {"unasked", "waiting"}
                                           /\ gate'[q] = "settled" => asker'[q] \in terminal'
    BY DEF QuestionInv
  <2> QED
    BY <1>1, <1>2, <1>3 DEF QuestionInv, Quiet
<1>8. GateInv'
  BY <1>1, <1>2, <1>4 DEF GateInv
<1>9. TypeOK'
  BY <1>1, <1>2 DEF TypeOK
<1> QED
  BY <1>2, <1>5, <1>6, <1>7, <1>8, <1>9 DEF IInv

LEMMA ClaimSiteKeeps ==
    ASSUME IInv, NEW t \in Turns, ClaimSite(t)
    PROVE  IInv' /\ rv'.receiver = rv.receiver
<1>1. /\ TypeOK /\ TurnInv /\ QuestionInv /\ GateInv /\ Fit(rv, Past, accepted)
      /\ (Calm => Merged(rv)) /\ rv \in Rendezvous /\ Places(rv) \subseteq Questions
  BY Facts
<1> DEFINE forced == \E p \in Turns : superseded[p] = t
<1>2. PICK runtime \in {"mastra", "other"} :
        /\ stage' = [stage EXCEPT ![t] = runtime]
        /\ rv' = IF active # t \/ ~(forced \/ rv.handoff # None \/ rv.claimant # None) THEN rv
                 ELSE IF runtime = "mastra" THEN Claim(rv, t, forced)
                 ELSE Discard(rv)
  BY DEF ClaimSite
<1> HIDE DEF forced
<1>3. /\ stage[t] = "starting" /\ stage' \in [Turns -> Stages] /\ stage'[t] = runtime
      /\ \A u \in Turns : u # t => stage'[u] = stage[u]
      /\ UNCHANGED <<issued, active, superseded, aborted, terminal, asker, gate, accepted, stopped,
                     void, heir, restarting, stops, failures, expiries>>
  BY <1>1, <1>2 DEF ClaimSite, questionVars, history, bounds, TypeOK, Stages
<1>4. t \notin Past /\ Past' = Past \cup {t}
  BY <1>3 DEF Past
<1>5. /\ Fit(rv', Past \cup {t}, accepted) /\ Places(rv') \subseteq Places(rv)
      /\ Calm => Places(rv') = Places(rv)
      /\ (Merged(rv) => Merged(rv')) /\ rv'.receiver = rv.receiver
  <2>1. Fit(rv, Past \cup {t}, accepted)
    <3>1. rv = [rv EXCEPT !.strays = rv.strays] /\ rv.strays \in SUBSET Questions
      BY <1>1 DEF Rendezvous
    <3>2. Fit(rv, Past, accepted) /\ Past \subseteq Past \cup {t}
      BY <1>1
    <3> QED
      BY <3>1, <3>2, FitOn
  <2>2. CASE active # t \/ ~(forced \/ rv.handoff # None \/ rv.claimant # None)
    BY <1>2, <2>1, <2>2
  <2>3. CASE ~(active # t \/ ~(forced \/ rv.handoff # None \/ rv.claimant # None))
             /\ runtime = "mastra"
    <3>1. rv' = Claim(rv, t, forced) /\ active = t /\ stage[t] # "ended"
      BY <1>2, <1>3, <2>3
    <3>2. /\ Fit(Claim(rv, t, forced), Past \cup {t}, accepted)
          /\ Places(Claim(rv, t, forced)) \subseteq Places(rv)
          /\ Calm => Places(Claim(rv, t, forced)) = Places(rv)
          /\ Merged(rv) => Merged(Claim(rv, t, forced))
          /\ Claim(rv, t, forced).receiver = rv.receiver
      BY <1>1, <1>4, <3>1, ClaimKeeps
    <3> QED
      BY <3>1, <3>2
  <2>4. CASE ~(active # t \/ ~(forced \/ rv.handoff # None \/ rv.claimant # None))
             /\ runtime # "mastra"
    <3>1. rv' = Discard(rv)
      BY <1>2, <2>4
    <3>2. /\ Fit(Discard(rv), Past \cup {t}, accepted) /\ Places(Discard(rv)) = Places(rv)
          /\ Discard(rv).handoff = None /\ Discard(rv).receiver = rv.receiver
      BY <2>1, DiscardKeeps
    <3> QED
      BY <3>1, <3>2 DEF Merged
  <2> QED
    BY <2>2, <2>3, <2>4
<1>6. Places(rv)' = Places(rv') /\ (Calm <=> Calm')
  BY <1>3 DEF Places, HandoffKeys, ClaimantKeys, Delivering, Given, Calm
<1>7. RendezvousInv'
  <2>1. /\ UNCHANGED <<issued, terminal, asker, stopped, heir, stops, expiries>>
        /\ active' \in {0, active} /\ restarting \subseteq restarting'
    BY <1>3
  <2>2. \A u \in Turns : stage[u] # "ended" => stage'[u] # "ended"
    BY <1>3
  <2>3. /\ rv'.handoff # None /\ rv'.handoff.successor # 0 => rv'.handoff.successor \in Turns
        /\ rv'.claimant # None => rv'.claimant.token \in Turns
    <3>1. rv' \in Rendezvous
      BY <1>5 DEF Fit
    <3> QED
      BY <3>1, RendezvousFields, BoundsAssumption DEF Turns, TurnOrNone
  <2>4. Fit(rv', Past \cup {t}, accepted)
    BY <1>5
  <2>5. Fit(rv, Past, accepted)'
    BY <1>3, <1>4, <2>1, <2>2, <2>3, <2>4, FitFrame
  <2> QED
    BY <1>1, <1>5, <1>6, <2>5 DEF RendezvousInv, Merged
<1>8. TurnInv'
  BY <1>1, <1>2, <1>3 DEF TurnInv
<1>9. QuestionInv'
  BY <1>1, <1>3 DEF QuestionInv
<1>10. GateInv'
  BY <1>1, <1>3, <1>5, <1>6 DEF GateInv
<1>11. TypeOK'
  BY <1>1, <1>3, <1>5 DEF TypeOK, Fit
<1> QED
  BY <1>5, <1>7, <1>8, <1>9, <1>10, <1>11 DEF IInv

\* A turn ends: what it holds is passed on or recovered, and what it consumed and did not
\* commit goes the durable way, unless it was stopped.
LEMMA CleanupKeeps ==
    ASSUME IInv, NEW t \in Turns, Cleanup(t)
    PROVE  IInv' /\ rv'.receiver = rv.receiver
<1>1. /\ TypeOK /\ TurnInv /\ QuestionInv /\ GateInv /\ Fit(rv, Past, accepted)
      /\ (Calm => Merged(rv)) /\ rv \in Rendezvous /\ Places(rv) \subseteq Questions
  BY Facts
<1> DEFINE U == {q \in Questions : asker[q] = t /\ gate[q] = "inflight"}
           s == DropFor(rv, t)
           g == [q \in Questions |-> s.given[q] + (IF q \in U THEN 1 ELSE 0)]
<1>2. /\ stage[t] \in {"starting", "mastra", "other"}
      /\ \A q \in Questions : asker[q] = t => gate[q] \notin {"waiting", "settled"}
      /\ stage' \in [Turns -> Stages] /\ stage'[t] = "ended"
      /\ \A u \in Turns : u # t => stage'[u] = stage[u]
      /\ active' = IF active = t THEN 0 ELSE active
      /\ gate' \in [Questions -> Gates]
      /\ \A q \in Questions : gate'[q] = IF q \in U THEN "closed" ELSE gate[q]
      /\ rv' = IF t \in terminal THEN s ELSE [s EXCEPT !.given = g]
      /\ UNCHANGED <<issued, superseded, aborted, terminal, asker, accepted, stopped, void,
                     heir, restarting, stops, failures, expiries>>
  BY <1>1 DEF Cleanup, history, bounds, TypeOK, Stages, Gates
<1>3. s = DropFor(rv, t) /\ U \in SUBSET Questions
  OBVIOUS
<1> HIDE DEF s
<1>4. /\ Fit(s, Past, accepted) /\ Places(s) \subseteq Places(rv)
      /\ Calm => Places(s) = Places(rv)
      /\ Calm => Merged(s) /\ (s.handoff # None => s.handoff.successor # t)
      /\ s.claimant # None => s.claimant.token # t
      /\ s.receiver = rv.receiver
  BY <1>1, <1>3, DropForKeeps
<1>5. U \cap Places(rv) = {}
  BY <1>1 DEF GateInv
<1>6. /\ Fit(rv', Past, accepted) /\ Places(rv') \subseteq Places(rv) \cup U
      /\ Calm => Places(rv') = Places(rv) \cup U
      /\ Merged(s) => Merged(rv')
      /\ rv'.receiver = rv.receiver /\ rv'.handoff = s.handoff /\ rv'.claimant = s.claimant
  <2>1. CASE t \in terminal
    <3>1. ~Calm
      BY <1>1, <2>1 DEF Calm, TurnInv
    <3> HIDE DEF U, g
    <3> QED
      BY <1>2, <1>4, <2>1, <3>1
  <2>2. CASE t \notin terminal
    <3>1. s \in Rendezvous
      BY <1>4 DEF Fit
    <3>2. s.given \in [Questions -> Nat]
      BY <3>1, RendezvousFields
    <3>3. /\ g \in [Questions -> Nat]
          /\ \A q \in Questions : g[q] = s.given[q] + (IF q \in U THEN 1 ELSE 0)
      BY <3>2
    <3> HIDE DEF g, U
    <3>4. /\ rv' \in Rendezvous /\ rv'.handoff = s.handoff /\ rv'.claimant = s.claimant
          /\ rv'.delivery = s.delivery /\ rv'.tombstones = s.tombstones
          /\ rv'.strays = s.strays /\ rv'.stash = s.stash /\ rv'.pending = s.pending
          /\ rv'.given = g /\ rv'.receiver = s.receiver
      BY <1>2, <2>2, <3>1, <3>3 DEF Rendezvous
    <3>5. /\ U \cap Places(s) = {}
          /\ \A q \in Questions : rv'.given[q] = s.given[q] + (IF q \in U THEN 1 ELSE 0)
          /\ \A q \in Questions :
               \/ rv'.receiver[q] = s.receiver[q]
               \/ q \in U /\ (q \in s.strays \/ InheritsFrom(asker[q], rv'.receiver[q]))
      BY <1>4, <1>5, <3>3, <3>4
    <3>6. /\ Fit(rv', Past, accepted) /\ Places(rv') = Places(s) \cup U
          /\ Merged(s) => Merged(rv')
      BY <1>3, <1>4, <3>4, <3>5, Give
    <3> QED
      BY <1>4, <3>4, <3>6
  <2> QED
    BY <2>1, <2>2
<1>7. Places(rv)' = Places(rv') /\ (Calm <=> Calm') /\ Past' = Past \cup {t}
  BY <1>2 DEF Places, HandoffKeys, ClaimantKeys, Delivering, Given, Calm, Past
<1>8. RendezvousInv'
  <2>1. Fit(rv', Past \cup {t}, accepted)
    <3>1. rv' \in Rendezvous
      BY <1>6 DEF Fit
    <3>2. rv' = [rv' EXCEPT !.strays = rv'.strays] /\ rv'.strays \in SUBSET Questions
      BY <3>1 DEF Rendezvous
    <3>3. Past \subseteq Past \cup {t}
      OBVIOUS
    <3> QED
      BY <1>6, <3>2, <3>3, FitOn
  <2>2. /\ UNCHANGED <<issued, terminal, asker, stopped, heir, stops, expiries>>
        /\ active' \in {0, active} /\ restarting \subseteq restarting'
    BY <1>2
  <2>3. \A u \in Turns : u # t /\ stage[u] # "ended" => stage'[u] # "ended"
    BY <1>2
  <2>4. /\ Calm /\ rv'.handoff # None /\ rv'.handoff.successor # 0 =>
             rv'.handoff.successor \in Turns /\ rv'.handoff.successor # t
        /\ rv'.claimant # None => rv'.claimant.token \in Turns /\ rv'.claimant.token # t
    <3>1. rv' \in Rendezvous
      BY <1>6 DEF Fit
    <3> QED
      BY <1>4, <1>6, <3>1, RendezvousFields, BoundsAssumption DEF Turns, TurnOrNone
  <2>5. Fit(rv, Past, accepted)'
    BY <1>2, <1>7, <2>1, <2>2, <2>3, <2>4, FitFrame
  <2>6. (Calm => Merged(rv))'
    BY <1>4, <1>6, <1>7 DEF Merged
  <2> QED
    BY <2>5, <2>6 DEF RendezvousInv
<1>9. TurnInv'
  <2>1. TurnOrNone' = TurnOrNone /\ Turns' = Turns /\ t # 0
    BY DEF TurnOrNone, Turns
  <2>2. \A u \in Turns : stage'[u] = "unborn" <=> u > issued'
    BY <1>1, <1>2 DEF TurnInv
  <2>3. \A u \in Turns : stage'[u] \notin {"unborn", "ended"} /\ u \notin aborted' => u = active'
    BY <1>1, <1>2 DEF TurnInv
  <2>4. active' # 0 => stage'[active'] # "ended"
    <3>1. active # 0 => active \in Turns
      BY <1>1, BoundsAssumption DEF TypeOK, Turns, TurnOrNone
    <3> QED
      BY <1>1, <1>2, <3>1 DEF TurnInv
  <2>5. stops' = 0 => /\ terminal' = {}
                      /\ \A u \in Turns : u = issued' /\ stage'[u] # "ended" => u = active'
    BY <1>1, <1>2 DEF TurnInv
  <2> QED
    BY <1>1, <1>2, <2>1, <2>2, <2>3, <2>4, <2>5 DEF TurnInv
<1>10. QuestionInv'
  <2>1. \A q \in Questions : gate[q] = "waiting" => asker[q] # t
    BY <1>2
  <2> QED
    BY <1>1, <1>2, <2>1 DEF QuestionInv
<1>11. GateInv'
  <2>1. \A q \in U : gate'[q] = "closed"
    BY <1>2
  <2>2. \A q \in Questions : gate[q] = "closed" => gate'[q] = "closed"
    BY <1>2
  <2>3. \A q \in Questions : gate'[q] = "closed" => gate[q] = "closed" \/ q \in U
    BY <1>2
  <2> HIDE DEF U
  <2> QED
    BY <1>1, <1>2, <1>6, <1>7, <2>1, <2>2, <2>3 DEF GateInv
<1>12. TypeOK'
  <2>1. rv' \in Rendezvous
    BY <1>6 DEF Fit
  <2> QED
    BY <1>1, <1>2, <2>1, BoundsAssumption DEF TypeOK, TurnOrNone
<1> QED
  BY <1>6, <1>8, <1>9, <1>10, <1>11, <1>12 DEF IInv

\* A Stop or a dismissal marks all there is: nobody who comes later inherits it.
LEMMA HaltKeeps ==
    ASSUME IInv, Quiet, rv' = Bumped(rv), Ends, UNCHANGED <<issued, superseded, stage, asker>>,
           active' \in {0, active},
           aborted' = (aborted \cup {active}) \ {0}, terminal' = (terminal \cup {active}) \ {0},
           gate' \in [Questions -> Gates],
           \A q \in Questions :
             \/ gate[q] # "waiting" /\ gate'[q] = gate[q]
             \/ gate[q] = "waiting" /\ gate'[q] = "settled"
             \/ gate[q] = "inflight" /\ gate'[q] = "closed"
    PROVE  IInv' /\ rv'.receiver = rv.receiver
<1>1. /\ TypeOK /\ TurnInv /\ QuestionInv /\ GateInv /\ Fit(rv, Past, accepted)
      /\ rv \in Rendezvous /\ Places(rv) \subseteq Questions
  BY Facts
<1> DEFINE open == {q \in Questions : asker[q] # 0 /\ gate[q] # "committed"}
<1>2. /\ stops' = stops + 1 /\ restarting' = {}
      /\ stopped' = stopped \cup open /\ void' = void \cup open
      /\ UNCHANGED <<accepted, heir, failures, expiries>>
  BY DEF Ends
<1>3. ~Calm'
  BY <1>1, <1>2 DEF Calm, TypeOK
<1>4. /\ rv' \in Rendezvous
      /\ rv'.strays = rv.strays /\ rv'.given = rv.given
      /\ rv'.receiver = rv.receiver /\ rv'.pending = rv.pending /\ rv'.tombstones = {}
      /\ rv'.handoff # None =>
           rv.handoff # None /\ rv'.handoff.keys = rv.handoff.keys /\ rv'.handoff.stopped
      /\ rv'.handoff = None => rv.handoff = None
      /\ rv'.claimant # None =>
           /\ rv.claimant # None /\ rv'.claimant.keys = rv.claimant.keys
           /\ rv'.claimant.token = rv.claimant.token /\ rv'.claimant.stopped
      /\ rv'.claimant = None => rv.claimant = None
      /\ \A q \in Questions : rv'.delivery[q] # None =>
           /\ rv.delivery[q] # None /\ rv'.delivery[q].token = rv.delivery[q].token
           /\ rv'.delivery[q].stopped
  <2> DEFINE h == IF rv.handoff = None THEN None ELSE [rv.handoff EXCEPT !.stopped = TRUE]
             c == IF rv.claimant = None THEN None ELSE [rv.claimant EXCEPT !.stopped = TRUE]
             d == [q \in Questions |-> IF rv.delivery[q] = None THEN None
                                       ELSE [rv.delivery[q] EXCEPT !.stopped = TRUE]]
  <2>0. /\ rv.handoff # None => rv.handoff \in Handoff
        /\ rv.claimant # None => rv.claimant \in Claimant
        /\ rv.delivery \in [Questions -> Delivery \cup {None}]
    BY <1>1 DEF Rendezvous
  <2>1. rv' = [rv EXCEPT !.handoff = h, !.claimant = c, !.delivery = d, !.tombstones = {}]
    BY <1>1 DEF Bumped, Rendezvous
  <2>2. /\ rv.handoff = None => h = None
        /\ rv.handoff # None => /\ h \in Handoff /\ h.keys = rv.handoff.keys
                                /\ h.stopped = TRUE
    BY <2>0 DEF Handoff
  <2>3. /\ rv.claimant = None => c = None
        /\ rv.claimant # None => /\ c \in Claimant /\ c.keys = rv.claimant.keys
                                 /\ c.token = rv.claimant.token /\ c.stopped = TRUE
    BY <2>0 DEF Claimant
  <2>4. ASSUME NEW q \in Questions
        PROVE  /\ rv.delivery[q] = None => d[q] = None
               /\ rv.delivery[q] # None => /\ d[q] \in Delivery
                                           /\ d[q].token = rv.delivery[q].token
                                           /\ d[q].stopped = TRUE
    <3>1. CASE rv.delivery[q] = None
      BY <3>1
    <3>2. CASE rv.delivery[q] # None
      <4>1. rv.delivery[q] \in Delivery /\ d[q] = [rv.delivery[q] EXCEPT !.stopped = TRUE]
        BY <2>0, <3>2
      <4> HIDE DEF d
      <4> QED
        BY <3>2, <4>1 DEF Delivery
    <3> QED
      BY <3>1, <3>2
  <2>5. d \in [Questions -> Delivery \cup {None}]
    <3>1. \A q \in Questions : d[q] \in Delivery \cup {None}
      BY <2>4
    <3> QED
      BY <3>1
  <2> HIDE DEF h, c, d
  <2>6. h \in Handoff \cup {None} /\ c \in Claimant \cup {None}
    BY <2>2, <2>3
  <2>7. rv' \in Rendezvous
    <3> DEFINE e == [rv EXCEPT !.handoff = h, !.claimant = c]
    <3>1. e \in Rendezvous
      BY <1>1, <2>6 DEF Rendezvous
    <3> DEFINE f == [e EXCEPT !.delivery = d]
    <3>2. rv' = [f EXCEPT !.tombstones = {}]
      BY <1>1, <2>1 DEF Rendezvous
    <3> HIDE DEF e
    <3>3. f \in Rendezvous
      BY <2>5, <3>1 DEF Rendezvous
    <3> HIDE DEF f
    <3> QED
      BY <3>2, <3>3 DEF Rendezvous
  <2>8. /\ rv'.handoff = h /\ rv'.claimant = c /\ rv'.delivery = d /\ rv'.tombstones = {}
        /\ rv'.strays = rv.strays /\ rv'.given = rv.given
        /\ rv'.receiver = rv.receiver /\ rv'.pending = rv.pending
    BY <1>1, <2>1 DEF Rendezvous
  <2>9. /\ rv.handoff # None => h # None
        /\ rv.claimant # None => c # None
    BY <2>2, <2>3, NoneAssumption
  <2> QED
    BY <2>2, <2>3, <2>4, <2>7, <2>8, <2>9
<1>5. /\ HandoffKeys(rv') = HandoffKeys(rv) /\ ClaimantKeys(rv') = ClaimantKeys(rv)
      /\ Delivering(rv') \subseteq Delivering(rv) /\ Given(rv') = Given(rv)
  BY <1>4 DEF HandoffKeys, ClaimantKeys, Delivering, Given
<1>6. OnePlace(rv) /\ Inherited(rv) /\ Halted(rv, Past)
  BY <1>1 DEF Fit
<1>7. OnePlace(rv')
  BY <1>4, <1>5, <1>6 DEF OnePlace
<1>8. Inherited(rv')
  <2>1. rv'.handoff # None => Invalid(rv'.handoff)
    BY <1>4 DEF Invalid
  <2>2. rv'.claimant # None =>
          \A q \in rv'.claimant.keys \ rv'.strays : InheritsFrom(asker[q], rv'.claimant.token)
    BY <1>4, <1>6 DEF Inherited
  <2>3. \A q \in Delivering(rv') \ rv'.strays : InheritsFrom(asker[q], rv'.delivery[q].token)
    BY <1>4, <1>5, <1>6 DEF Inherited, Delivering
  <2>4. \A q \in Questions \ rv'.strays :
          rv'.receiver[q] # 0 => InheritsFrom(asker[q], rv'.receiver[q])
    BY <1>4, <1>6 DEF Inherited
  <2> QED
    BY <2>1, <2>2, <2>3, <2>4 DEF Inherited
<1>9. /\ \A q \in HandoffKeys(rv') : rv'.handoff.stopped
      /\ \A q \in ClaimantKeys(rv') : rv'.claimant.stopped
      /\ \A q \in Delivering(rv') :
           /\ rv'.delivery[q].stopped /\ rv'.delivery[q].token \in Past
           /\ rv'.delivery[q].token \in Turns
           /\ rv'.claimant # None => rv'.claimant.stopped
      /\ rv'.claimant # None => rv'.claimant.token \in Past
  <2>1. \A q \in Delivering(rv') : rv'.delivery[q].token = rv.delivery[q].token
                                   /\ rv'.delivery[q].stopped
    BY <1>4 DEF Delivering
  <2>2. \A q \in Delivering(rv') : rv'.delivery[q].token \in Past
    BY <1>5, <1>6, <2>1 DEF Halted
  <2> QED
    BY <1>4, <1>6, <2>1, <2>2 DEF Halted, HandoffKeys, ClaimantKeys, Past
<1>10. Fit(rv, Past, accepted)'
  <2>1. Past' = Past /\ Delivering(rv)' = Delivering(rv') /\ HandoffKeys(rv)' = HandoffKeys(rv')
        /\ ClaimantKeys(rv)' = ClaimantKeys(rv') /\ Given(rv)' = Given(rv')
    BY DEF Past, Delivering, HandoffKeys, ClaimantKeys, Given
  <2>2. OnePlace(rv)'
    BY <1>7, <2>1 DEF OnePlace
  <2>3. Inherited(rv)'
    <3>1. rv'.handoff # None => Invalid(rv'.handoff)
      BY <1>4 DEF Invalid
    <3> QED
      BY <1>2, <1>8, <2>1, <3>1 DEF Inherited, InheritsFrom, Reaches, Invalid
  <2>4. Halted(rv, Past)'
    <3>1. \A u \in Turns : u \in terminal' \/ u # active'
      BY DEF Turns
    <3> QED
      BY <1>9, <2>1, <3>1 DEF Halted
  <2>5. (rv \in Rendezvous)'
    BY <1>4 DEF Rendezvous
  <2> QED
    BY <1>3, <2>2, <2>3, <2>4, <2>5 DEF Fit
<1>11. RendezvousInv'
  BY <1>3, <1>10 DEF RendezvousInv
<1>12. GateInv'
  <2>1. Places(rv)' \subseteq Places(rv)
    BY <1>4, <1>5 DEF Places, HandoffKeys, ClaimantKeys, Delivering, Given
  <2>2. \A q \in Questions : gate[q] = "closed" => gate'[q] = "closed"
    OBVIOUS
  <2> QED
    BY <1>1, <1>3, <2>1, <2>2 DEF GateInv
<1>13. TurnInv'
  <2>1. Turns' = Turns /\ TurnOrNone' = TurnOrNone /\ 0 \notin Turns
    BY DEF Turns, TurnOrNone
  <2>2. stops' # 0
    BY <1>1, <1>2 DEF TypeOK
  <2>3. \A u \in Turns : stage'[u] \notin {"unborn", "ended"} /\ u \notin aborted' => u = active'
    BY <1>1, <2>1 DEF TurnInv
  <2>4. \A u \in aborted' : u <= issued'
    BY <1>1 DEF TurnInv
  <2> QED
    BY <1>1, <1>2, <2>1, <2>2, <2>3, <2>4 DEF TurnInv
<1>14. QuestionInv'
  <2> SUFFICES ASSUME NEW q \in Questions
               PROVE  /\ asker'[q] = 0 <=> gate'[q] = "unasked"
                      /\ asker'[q] <= issued'
                      /\ gate'[q] # "waiting"
                      /\ gate'[q] = "settled" => asker'[q] \in terminal'
                      /\ q \in accepted' => gate'[q] \in {"inflight", "committed", "closed"}
                      /\ q \in stopped' => gate'[q] \notin {"unasked", "waiting"}
    BY DEF QuestionInv
  <2>1. gate'[q] = "settled" => gate[q] = "waiting"
    BY DEF Quiet
  <2>2. gate[q] = "waiting" => asker[q] = active /\ asker[q] # 0
    BY <1>1 DEF QuestionInv
  <2>3. q \in stopped' => asker[q] # 0
    BY <1>1, <1>2 DEF QuestionInv
  <2> QED
    BY <1>1, <1>2, <2>1, <2>2, <2>3 DEF QuestionInv
<1>15. TypeOK'
  <2>1. aborted' \subseteq Turns /\ terminal' \subseteq aborted' /\ active' \in TurnOrNone
    BY <1>1, BoundsAssumption DEF TypeOK, Turns, TurnOrNone
  <2>2. stopped' \subseteq void' /\ void' \subseteq Questions
    BY <1>1, <1>2 DEF TypeOK
  <2> QED
    BY <1>1, <1>2, <1>4, <2>1, <2>2 DEF TypeOK
<1> QED
  BY <1>4, <1>11, <1>12, <1>13, <1>14, <1>15 DEF IInv

LEMMA PlanDismissKeeps ==
    ASSUME IInv, NEW t \in Turns, PlanDismiss(t)
    PROVE  IInv' /\ rv'.receiver = rv.receiver
<1>1. TypeOK /\ TurnInv /\ QuestionInv
  BY Facts
<1>2. aborted' = (aborted \cup {active}) \ {0} /\ terminal' = (terminal \cup {active}) \ {0}
  BY <1>1 DEF PlanDismiss, TypeOK, Turns
<1>3. /\ gate' \in [Questions -> Gates]
      /\ \A q \in Questions :
           \/ gate[q] # "waiting" /\ gate'[q] = gate[q]
           \/ gate[q] = "waiting" /\ gate'[q] = "settled"
           \/ gate[q] = "inflight" /\ gate'[q] = "closed"
  BY <1>1 DEF PlanDismiss, Settled, TypeOK, Gates, QuestionInv
<1>4. /\ Quiet /\ rv' = Bumped(rv) /\ Ends /\ UNCHANGED <<issued, superseded, stage, asker>>
      /\ active' \in {0, active}
  BY DEF PlanDismiss
<1> QED
  BY <1>2, <1>3, <1>4, HaltKeeps

LEMMA StopKeeps ==
    ASSUME IInv, Stop
    PROVE  IInv' /\ rv'.receiver = rv.receiver
<1>1. TypeOK /\ TurnInv /\ QuestionInv
  BY Facts
<1>2. aborted' = (aborted \cup {active}) \ {0} /\ terminal' = (terminal \cup {active}) \ {0}
  BY <1>1 DEF Stop, TypeOK, Turns
<1>3. /\ gate' \in [Questions -> Gates]
      /\ \A q \in Questions :
           \/ gate[q] # "waiting" /\ gate'[q] = gate[q]
           \/ gate[q] = "waiting" /\ gate'[q] = "settled"
           \/ gate[q] = "inflight" /\ gate'[q] = "closed"
  BY <1>1 DEF Stop, Settled, TypeOK, Gates, QuestionInv
<1>4. /\ Quiet /\ rv' = Bumped(rv) /\ Ends /\ UNCHANGED <<issued, superseded, stage, asker>>
      /\ active' \in {0, active}
  BY DEF Stop
<1> QED
  BY <1>2, <1>3, <1>4, HaltKeeps

\* A turn starts: the turn before it, if live or awaiting its restart, leaves to it what
\* it had inherited.
LEMMA ReachesMore ==
    ASSUME NEW next, NEW more, \A u \in Turns : next[u] # 0 => more[u] = next[u],
           NEW p \in Turns, NEW t, Reaches(next, p, t)
    PROVE  Reaches(more, p, t)
<1>1. next[p] # 0 /\ more[p] = next[p]
  BY DEF Reaches
<1>2. SUFFICES ASSUME NEW S \in SUBSET Turns, more[p] \in S,
                      \A u \in S : more[u] # 0 => more[u] \in S
               PROVE  t \in S
  BY <1>1 DEF Reaches
<1>3. next[p] \in S /\ \A u \in S : next[u] # 0 => next[u] \in S
  BY <1>1, <1>2
<1> QED
  BY <1>3 DEF Reaches

LEMMA StartTurnKeeps ==
    ASSUME IInv, StartTurn
    PROVE  IInv' /\ rv'.receiver = rv.receiver
<1>1. /\ TypeOK /\ TurnInv /\ QuestionInv /\ GateInv /\ Fit(rv, Past, accepted)
      /\ (Calm => Merged(rv)) /\ rv \in Rendezvous /\ Places(rv) \subseteq Questions
  BY Facts
<1> DEFINE t == issued + 1
<1>2. /\ issued \in TurnOrNone /\ t \in Turns /\ issued < t /\ 0 \notin Turns
      /\ active \in {0, issued} /\ (active # 0 => active \in Turns)
      /\ restarting \subseteq Turns
  BY <1>1, BoundsAssumption DEF StartTurn, TypeOK, TurnInv, Turns, TurnOrNone
<1>3. /\ issued' = t /\ active' = t
      /\ stage' \in [Turns -> Stages] /\ stage'[t] = "starting"
      /\ \A u \in Turns : u # t => stage'[u] = stage[u]
      /\ superseded' \in [Turns -> TurnOrNone]
      /\ \A u \in Turns : superseded'[u] = IF u = active THEN t ELSE superseded[u]
      /\ \A u \in Turns : u \in aborted' <=> u \in aborted \/ u = active
      /\ aborted \subseteq aborted' /\ aborted' \subseteq Turns
      /\ heir' \in [Turns -> TurnOrNone]
      /\ \A u \in Turns : heir'[u] = IF u = active \/ u \in restarting THEN t ELSE heir[u]
      /\ restarting' = {}
      /\ UNCHANGED <<terminal, asker, accepted, stopped, void, stops, failures, expiries>>
  <2>1. /\ issued' = t /\ active' = t /\ restarting' = {}
        /\ stage' = [stage EXCEPT ![t] = "starting"]
        /\ superseded' = IF active = 0 THEN superseded ELSE [superseded EXCEPT ![active] = t]
        /\ aborted' = IF active = 0 THEN aborted ELSE aborted \cup {active}
        /\ heir' = [u \in Turns |-> IF u = active \/ u \in restarting THEN t ELSE heir[u]]
        /\ UNCHANGED <<terminal, asker, accepted, stopped, void, stops, failures, expiries>>
    BY DEF StartTurn, bounds
  <2>2. /\ stage \in [Turns -> Stages] /\ superseded \in [Turns -> TurnOrNone]
        /\ heir \in [Turns -> TurnOrNone] /\ aborted \subseteq Turns /\ t \in TurnOrNone
        /\ "starting" \in Stages
    BY <1>1, <1>2, BoundsAssumption DEF TypeOK, Stages, Turns, TurnOrNone
  <2> HIDE DEF t
  <2>3. /\ stage' \in [Turns -> Stages] /\ stage'[t] = "starting"
        /\ \A u \in Turns : u # t => stage'[u] = stage[u]
    BY <1>2, <2>1, <2>2
  <2>4. /\ superseded' \in [Turns -> TurnOrNone]
        /\ \A u \in Turns : superseded'[u] = IF u = active THEN t ELSE superseded[u]
    BY <1>2, <2>1, <2>2
  <2>5. /\ heir' \in [Turns -> TurnOrNone]
        /\ \A u \in Turns : heir'[u] = IF u = active \/ u \in restarting THEN t ELSE heir[u]
    BY <2>1, <2>2
  <2>6. /\ \A u \in Turns : u \in aborted' <=> u \in aborted \/ u = active
        /\ aborted \subseteq aborted' /\ aborted' \subseteq Turns
    BY <1>2, <2>1, <2>2
  <2> QED
    BY <2>1, <2>3, <2>4, <2>5, <2>6
<1>4. /\ gate' \in [Questions -> Gates]
      /\ \A q \in Questions : gate'[q] = IF gate[q] = "waiting" THEN "settled" ELSE gate[q]
  <2>1. /\ gate' \in [Questions -> Gates]
        /\ \A q \in Questions :
             gate'[q] = IF active # 0 /\ asker[q] = active /\ gate[q] = "waiting" THEN "settled"
                        ELSE gate[q]
    BY <1>1 DEF StartTurn, Settled, TypeOK, Gates
  <2>2. \A q \in Questions : gate[q] = "waiting" => asker[q] = active /\ active # 0
    BY <1>1 DEF QuestionInv
  <2> QED
    BY <2>1, <2>2
<1>5. Quiet /\ rv' = IF rv.handoff # None /\ rv.handoff.successor = 0
                     THEN [rv EXCEPT !.handoff.successor = t] ELSE rv
  BY DEF StartTurn
<1> HIDE DEF t
<1>6. /\ rv' \in Rendezvous
      /\ rv'.claimant = rv.claimant /\ rv'.delivery = rv.delivery /\ rv'.stash = rv.stash
      /\ rv'.tombstones = rv.tombstones /\ rv'.strays = rv.strays /\ rv'.given = rv.given
      /\ rv'.receiver = rv.receiver /\ rv'.pending = rv.pending
      /\ rv'.handoff = None <=> rv.handoff = None
      /\ rv.handoff # None =>
           /\ rv'.handoff.keys = rv.handoff.keys /\ rv'.handoff.source = rv.handoff.source
           /\ rv'.handoff.stopped = rv.handoff.stopped
           /\ rv'.handoff.expired = rv.handoff.expired
           /\ rv'.handoff.successor = IF rv.handoff.successor = 0 THEN t
                                      ELSE rv.handoff.successor
  <2>1. CASE rv.handoff # None /\ rv.handoff.successor = 0
    <3> DEFINE h == [rv.handoff EXCEPT !.successor = t]
    <3>1. rv.handoff \in Handoff /\ rv' = [rv EXCEPT !.handoff = h]
      BY <1>1, <1>5, <2>1 DEF Rendezvous
    <3>2. /\ h \in Handoff /\ h.keys = rv.handoff.keys /\ h.source = rv.handoff.source
          /\ h.stopped = rv.handoff.stopped /\ h.expired = rv.handoff.expired
          /\ h.successor = t
      BY <1>2, <3>1, BoundsAssumption DEF Handoff, Turns, TurnOrNone
    <3> HIDE DEF h
    <3>3. h # None
      BY <3>2, NoneAssumption
    <3>4. /\ rv' \in Rendezvous /\ rv'.handoff = h
          /\ rv'.claimant = rv.claimant /\ rv'.delivery = rv.delivery /\ rv'.stash = rv.stash
          /\ rv'.tombstones = rv.tombstones /\ rv'.strays = rv.strays /\ rv'.given = rv.given
          /\ rv'.receiver = rv.receiver /\ rv'.pending = rv.pending
      BY <1>1, <3>1, <3>2 DEF Rendezvous
    <3> QED
      BY <2>1, <3>2, <3>3, <3>4
  <2>2. CASE ~(rv.handoff # None /\ rv.handoff.successor = 0)
    <3>1. rv' = rv
      BY <1>5, <2>2
    <3> QED
      BY <1>1, <2>2, <3>1
  <2> QED
    BY <2>1, <2>2
<1>7. /\ HandoffKeys(rv') = HandoffKeys(rv) /\ ClaimantKeys(rv') = ClaimantKeys(rv)
      /\ Delivering(rv') = Delivering(rv) /\ Given(rv') = Given(rv)
      /\ Places(rv') = Places(rv)
  BY <1>6 DEF HandoffKeys, ClaimantKeys, Delivering, Given, Places
<1>8. /\ HandoffKeys(rv)' = HandoffKeys(rv') /\ ClaimantKeys(rv)' = ClaimantKeys(rv')
      /\ Delivering(rv)' = Delivering(rv') /\ Given(rv)' = Given(rv')
      /\ Places(rv)' = Places(rv') /\ (Calm <=> Calm')
  BY <1>3 DEF HandoffKeys, ClaimantKeys, Delivering, Given, Places, Calm
<1>9. stage[t] = "unborn" /\ Past' = Past /\ \A u \in Past : u < t /\ u # t
  <2>1. stage[t] = "unborn"
    BY <1>1, <1>2 DEF TurnInv, t, TurnOrNone
  <2>2. Past' = Past
    BY <1>2, <1>3, <2>1 DEF Past
  <2>3. \A u \in Past : u <= issued
    BY <1>1, <1>2 DEF Past, TurnInv, Turns, TurnOrNone
  <2> QED
    BY <1>2, <2>1, <2>2, <2>3 DEF t, TurnOrNone, Past, Turns
<1> DEFINE inherits(p, u) == u = p \/ Reaches(heir', p, u)
<1>10. /\ \A u \in Turns : heir[u] # 0 => heir'[u] = heir[u]
       /\ \A p \in Turns : \A u : InheritsFrom(p, u) => inherits(p, u)
  <2>1. \A u \in Turns : heir[u] # 0 => heir'[u] = heir[u]
    <3>1. \A u \in Turns : heir[u] # 0 => u # issued
      BY <1>1, <1>2 DEF TurnInv, TurnOrNone, Turns
    <3> QED
      BY <1>1, <1>2, <1>3, <3>1 DEF TurnInv
  <2>2. ASSUME NEW p \in Turns, NEW u, InheritsFrom(p, u)
        PROVE  inherits(p, u)
    BY <2>1, <2>2, ReachesMore DEF InheritsFrom
  <2> QED
    BY <2>1, <2>2
<1>11. issued \in restarting => \A p \in Turns : InheritsFrom(p, issued) => inherits(p, t)
  <2> SUFFICES ASSUME issued \in restarting, NEW p \in Turns, InheritsFrom(p, issued)
               PROVE  inherits(p, t)
    OBVIOUS
  <2>1. Reaches(heir', issued, t)
    BY <1>2, <1>3 DEF Reaches
  <2>2. CASE p = issued
    BY <2>1, <2>2
  <2>3. CASE Reaches(heir, p, issued)
    <3>1. Reaches(heir', p, issued)
      BY <1>10, <2>3, ReachesMore
    <3> QED
      BY <2>1, <3>1, ReachesOn
  <2> QED
    BY <2>2, <2>3 DEF InheritsFrom
<1>12. \A q \in Places(rv) : asker[q] \in Turns
  <2>1. \A q \in Places(rv) : asker[q] # 0 /\ asker[q] \in TurnOrNone
    BY <1>1 DEF GateInv, QuestionInv, TypeOK
  <2> QED
    BY <2>1, BoundsAssumption DEF Turns, TurnOrNone
<1>13. /\ OnePlace(rv) /\ Inherited(rv) /\ Halted(rv, Past)
       /\ Calm => Live(rv) /\ Stashed(rv, accepted)
  BY <1>1 DEF Fit
<1>14. Fit(rv, Past, accepted)'
  <2>1. OnePlace(rv)'
    BY <1>6, <1>7, <1>8, <1>13 DEF OnePlace
  <2>2. Inherited(rv)'
    <3> HIDE DEF inherits
    <3>1. rv'.handoff # None /\ ~Invalid(rv'.handoff) =>
            /\ rv'.handoff.successor # 0
            /\ inherits(rv'.handoff.source, rv'.handoff.successor)
            /\ \A q \in rv'.handoff.keys \ rv'.strays : inherits(asker[q], rv'.handoff.successor)
      <4> SUFFICES ASSUME rv.handoff # None, ~Invalid(rv.handoff)
                   PROVE  /\ rv'.handoff.successor # 0
                          /\ inherits(rv.handoff.source, rv'.handoff.successor)
                          /\ \A q \in rv.handoff.keys \ rv.strays :
                               inherits(asker[q], rv'.handoff.successor)
        BY <1>6 DEF Invalid
      <4>1. rv.handoff.source \in Turns /\ \A q \in rv.handoff.keys : asker[q] \in Turns
        BY <1>1, <1>12, RendezvousFields DEF Places, HandoffKeys
      <4>2. CASE rv.handoff.successor # 0
        BY <1>6, <1>10, <1>13, <4>1, <4>2 DEF Inherited
      <4>3. CASE rv.handoff.successor = 0
        <5>1. /\ rv'.handoff.successor = t /\ rv.handoff.source = issued
              /\ issued \in restarting
              /\ \A q \in rv.handoff.keys \ rv.strays : InheritsFrom(asker[q], issued)
          BY <1>6, <1>13, <4>3 DEF Inherited
        <5>2. InheritsFrom(issued, issued)
          BY DEF InheritsFrom
        <5> QED
          BY <1>2, <1>11, <4>1, <5>1, <5>2
      <4> QED
        BY <4>2, <4>3
    <3>2. rv'.claimant # None =>
            \A q \in rv'.claimant.keys \ rv'.strays : inherits(asker[q], rv'.claimant.token)
      <4>1. rv.claimant # None => \A q \in rv.claimant.keys : asker[q] \in Turns
        BY <1>12 DEF Places, ClaimantKeys
      <4> QED
        BY <1>6, <1>10, <1>13, <4>1 DEF Inherited
    <3>3. \A q \in Delivering(rv') \ rv'.strays : inherits(asker[q], rv'.delivery[q].token)
      BY <1>6, <1>7, <1>10, <1>12, <1>13 DEF Inherited, Places
    <3>4. \A q \in Questions \ rv'.strays :
            rv'.receiver[q] # 0 => inherits(asker[q], rv'.receiver[q])
      <4>1. \A q \in Questions : rv.receiver[q] # 0 => asker[q] \in Turns
        BY <1>12, <1>13 DEF OnePlace, Places
      <4> QED
        BY <1>6, <1>10, <1>13, <4>1 DEF Inherited
    <3> USE DEF inherits
    <3> QED
      BY <1>3, <1>8, <3>1, <3>2, <3>3, <3>4 DEF Inherited, InheritsFrom, Reaches, Turns, Invalid
  <2>3. Halted(rv, Past)'
    BY <1>3, <1>6, <1>7, <1>8, <1>9, <1>13 DEF Halted, HandoffKeys, ClaimantKeys
  <2>4. Calm' => Live(rv)'
    <3>1. rv'.handoff # None => (~Invalid(rv.handoff) => ~Invalid(rv'.handoff))
      BY <1>6 DEF Invalid
    <3>2. /\ rv.handoff # None /\ rv.handoff.successor # 0 => rv.handoff.successor \in Turns
          /\ rv.claimant # None => rv.claimant.token \in Turns
      BY <1>1, RendezvousFields, BoundsAssumption DEF Turns, TurnOrNone
    <3>3. \A u \in Turns : stage[u] # "ended" => stage'[u] # "ended"
      BY <1>3
    <3> QED
      BY <1>3, <1>6, <1>7, <1>8, <1>13, <3>1, <3>2, <3>3 DEF Live, Invalid
  <2>5. Calm' => Stashed(rv, accepted)'
    BY <1>3, <1>6, <1>7, <1>8, <1>13 DEF Stashed
  <2>6. (rv \in Rendezvous)'
    BY <1>6 DEF Rendezvous
  <2> QED
    BY <2>1, <2>2, <2>3, <2>4, <2>5, <2>6 DEF Fit
<1>15. RendezvousInv'
  <2>1. (Calm => Merged(rv))'
    <3>1. rv.claimant # None => rv.claimant.token # t
      BY <1>9, <1>13 DEF Halted
    <3> QED
      BY <1>1, <1>6, <1>8, <3>1 DEF Merged
  <2> QED
    BY <1>14, <2>1 DEF RendezvousInv
<1>16. TurnInv'
  <2>1. Turns' = Turns /\ TurnOrNone' = TurnOrNone
    BY DEF Turns, TurnOrNone
  <2>2. \A u \in Turns : stage'[u] = "unborn" <=> u > issued'
    BY <1>1, <1>2, <1>3 DEF TurnInv, t, Turns, TurnOrNone
  <2>3. \A u \in Turns : superseded'[u] # 0 => superseded'[u] = heir'[u]
    BY <1>1, <1>3, <1>10 DEF TurnInv
  <2>4. \A u \in Turns : heir'[u] # 0 => u < issued'
    BY <1>1, <1>2, <1>3 DEF TurnInv, t, Turns, TurnOrNone
  <2>5. \A u \in aborted' : u <= issued'
    BY <1>1, <1>2, <1>3 DEF TurnInv, t, Turns, TurnOrNone
  <2>6. \A u \in Turns : stage'[u] \notin {"unborn", "ended"} /\ u \notin aborted' => u = active'
    BY <1>1, <1>3 DEF TurnInv
  <2>7. issued' \in TurnOrNone
    BY <1>2, <1>3, BoundsAssumption DEF Turns, TurnOrNone
  <2> QED
    BY <1>1, <1>3, <2>1, <2>2, <2>3, <2>4, <2>5, <2>6, <2>7 DEF TurnInv
<1>17. QuestionInv'
  <2> SUFFICES ASSUME NEW q \in Questions
               PROVE  /\ asker'[q] = 0 <=> gate'[q] = "unasked"
                      /\ asker'[q] < issued'
                      /\ gate'[q] # "waiting"
                      /\ q \in accepted' => gate'[q] \in {"inflight", "committed", "closed"}
                      /\ q \in stopped' => /\ gate'[q] \notin {"unasked", "waiting"}
                                           /\ gate'[q] = "settled" => asker'[q] \in terminal'
    <3>1. \A q \in Questions : asker'[q] \in TurnOrNone
      BY <1>1, <1>3 DEF TypeOK
    <3>2. \A q \in Questions : asker'[q] < issued' => asker'[q] <= issued' /\ asker'[q] # issued'
      BY <1>2, <1>3, <3>1 DEF Turns, TurnOrNone
    <3> QED
      BY <3>2 DEF QuestionInv
  <2>1. asker[q] <= issued /\ asker[q] \in TurnOrNone
    BY <1>1 DEF QuestionInv, TypeOK
  <2>2. asker'[q] < issued'
    BY <1>2, <1>3, <2>1 DEF Turns, TurnOrNone
  <2> QED
    BY <1>1, <1>3, <1>4, <2>2 DEF QuestionInv
<1>18. GateInv'
  BY <1>1, <1>3, <1>4, <1>7, <1>8 DEF GateInv
<1>19. TypeOK'
  <2>1. issued' \in TurnOrNone /\ active' \in TurnOrNone
    BY <1>2, <1>3, BoundsAssumption DEF Turns, TurnOrNone
  <2>2. terminal' \subseteq aborted'
    BY <1>1, <1>3 DEF TypeOK
  <2> QED
    BY <1>1, <1>3, <1>4, <1>6, <2>1, <2>2 DEF TypeOK
<1> QED
  BY <1>6, <1>15, <1>16, <1>17, <1>18, <1>19 DEF IInv

LEMMA InitHolds == Init => IInv
<1> SUFFICES ASSUME Init PROVE IInv
  OBVIOUS
<1>1. /\ issued = 0 /\ active = 0 /\ aborted = {} /\ terminal = {} /\ restarting = {}
      /\ superseded = [t \in Turns |-> 0] /\ heir = [t \in Turns |-> 0]
      /\ stage = [t \in Turns |-> "unborn"]
      /\ asker = [q \in Questions |-> 0] /\ gate = [q \in Questions |-> "unasked"]
      /\ accepted = {} /\ stopped = {} /\ void = {}
      /\ stops = 0 /\ failures = 0 /\ expiries = 0
      /\ 0 \in TurnOrNone /\ 0 \notin Turns
  BY BoundsAssumption DEF Init, Turns, TurnOrNone
<1>2. /\ rv.handoff = None /\ rv.claimant = None /\ rv.tombstones = {} /\ rv.pending = {}
      /\ \A q \in Questions : rv.delivery[q] = None /\ rv.given[q] = 0 /\ rv.receiver[q] = 0
  BY DEF Init
<1>3. rv \in Rendezvous
  <2>1. /\ [q \in Questions |-> None] \in [Questions -> Delivery \cup {None}]
        /\ [q \in Questions |-> 0] \in [Questions -> Nat]
        /\ [q \in Questions |-> 0] \in [Questions -> TurnOrNone]
    BY <1>1
  <2> QED
    BY <2>1 DEF Init, Rendezvous
<1>4. /\ HandoffKeys(rv) = {} /\ ClaimantKeys(rv) = {} /\ Delivering(rv) = {}
      /\ Given(rv) = {} /\ Places(rv) = {}
  BY <1>2 DEF HandoffKeys, ClaimantKeys, Delivering, Given, Places
<1>5. TypeOK
  BY <1>1, <1>3 DEF TypeOK, Stages, Gates
<1>6. TurnInv
  BY <1>1 DEF TurnInv, Turns, TurnOrNone
<1>7. QuestionInv
  <2>1. \A q \in Questions : asker[q] = 0 /\ gate[q] = "unasked"
    BY <1>1
  <2>2. accepted = {} /\ stopped = {} /\ issued = 0
    BY <1>1
  <2>3. \A q \in Questions : asker[q] <= issued
    <3>1. 0 <= 0
      OBVIOUS
    <3> QED
      BY <2>1, <2>2, <3>1
  <2>4. \A q \in Questions : q \notin accepted /\ q \notin stopped
    BY <2>2
  <2> QED
    BY <2>1, <2>3, <2>4 DEF QuestionInv
<1>8. RendezvousInv
  <2>1. OnePlace(rv)
    BY <1>2, <1>4 DEF OnePlace
  <2>2. Inherited(rv)
    BY <1>2, <1>4 DEF Inherited
  <2>3. Halted(rv, Past)
    BY <1>2, <1>4 DEF Halted
  <2>4. Live(rv) /\ Stashed(rv, accepted) /\ Merged(rv)
    BY <1>1, <1>2, <1>4 DEF Live, Stashed, Merged
  <2> QED
    BY <1>3, <2>1, <2>2, <2>3, <2>4 DEF RendezvousInv, Fit
<1>9. GateInv
  BY <1>1, <1>4 DEF GateInv
<1> QED
  BY <1>5, <1>6, <1>7, <1>8, <1>9 DEF IInv

\* Of the steps only one changes a receiver, and then to the turn that is delivered to.
LEMMA StepHolds ==
    ASSUME IInv, [Next]_vars
    PROVE  /\ IInv'
           /\ \A q \in stopped \ rv.strays :
                rv'.receiver[q] # rv.receiver[q] => rv'.receiver[q] \in terminal
<1>0. TypeOK
  BY DEF IInv
<1>1. CASE UNCHANGED vars
  <2>1. /\ rv' = rv /\ Fit(rv', Past, accepted') /\ (Calm => Merged(rv'))
        /\ gate' \in [Questions -> Gates] /\ accepted' \in SUBSET Questions
        /\ void \subseteq void' /\ void' \in SUBSET Questions /\ failures' \in Nat
    BY <1>0, <1>1, Facts DEF vars, questionVars, history, bounds, TypeOK
  <2>2. UNCHANGED <<turnVars, questionVars, asker, accepted, stopped, heir, restarting, stops,
                    expiries>>
    BY <1>1 DEF vars, questionVars, history, bounds
  <2>3. QuestionInv'
    BY <2>2, Facts, QuestionsKept
  <2>4. GateInv'
    <3>1. Places(rv)' = Places(rv) /\ (Calm <=> Calm')
      BY <2>1, <2>2 DEF Places, HandoffKeys, ClaimantKeys, Delivering, Given, Calm
    <3> QED
      BY <1>1, <3>1, Facts DEF GateInv, vars, questionVars, history
  <2>5. IInv'
    BY <2>1, <2>2, <2>3, <2>4, StepKeeps
  <2> QED
    BY <2>1, <2>5
<1>2. CASE StartTurn
  BY <1>2, StartTurnKeeps
<1>3. CASE Stop
  BY <1>3, StopKeeps
<1>4. CASE TimerFires
  BY <1>4, TimerFiresKeeps
<1>5. CASE Expire
  BY <1>5, ExpireKeeps
<1>6. ASSUME NEW t \in Turns, TurnStep(t)
      PROVE  IInv' /\ rv'.receiver = rv.receiver
  <2>1. CASE ClaimSite(t)
    BY <2>1, ClaimSiteKeeps
  <2>2. CASE PlanRestart(t)
    BY <2>2, PlanRestartKeeps
  <2>3. CASE PlanDismiss(t)
    BY <2>3, PlanDismissKeeps
  <2>4. CASE Cleanup(t)
    BY <2>4, CleanupKeeps
  <2> QED
    BY <1>6, <2>1, <2>2, <2>3, <2>4 DEF TurnStep
<1>7. ASSUME NEW t \in Turns, NEW q \in Questions, Ask(t, q)
      PROVE  IInv' /\ rv'.receiver = rv.receiver
  BY <1>7, AskKeeps
<1>8. ASSUME NEW q \in Questions, QuestionStep(q), ~Delivered(q)
      PROVE  IInv' /\ rv'.receiver = rv.receiver
  <2>1. CASE AnswerInTime(q)
    BY <2>1, AnswerInTimeKeeps
  <2>2. CASE AnswerLate(q)
    BY <2>2, AnswerLateKeeps
  <2>3. CASE Reject(q)
    BY <2>3, RejectKeeps
  <2>4. CASE Commit(q)
    BY <2>4, CommitKeeps
  <2>5. CASE GateAborts(q)
    BY <2>5, GateAbortsKeeps
  <2>6. CASE Blocked(q)
    BY <2>6, BlockedKeeps
  <2>7. CASE DeliveryFails(q)
    BY <2>7, DeliveryFailsKeeps
  <2>8. CASE RecoveredSettles(q)
    BY <2>8, RecoveredSettlesKeeps
  <2> QED
    BY <1>8, <2>1, <2>2, <2>3, <2>4, <2>5, <2>6, <2>7, <2>8 DEF QuestionStep
<1>9. ASSUME NEW q \in Questions, Delivered(q)
      PROVE  /\ IInv'
             /\ \A p \in stopped \ rv.strays :
                  rv'.receiver[p] # rv.receiver[p] => rv'.receiver[p] \in terminal
  <2>1. stopped \subseteq Questions
    BY <1>0 DEF TypeOK
  <2>2. /\ IInv' /\ \A p \in Questions : p # q => rv'.receiver[p] = rv.receiver[p]
        /\ q \in stopped \ rv.strays => rv'.receiver[q] \in terminal
    BY <1>9, DeliveredKeeps
  <2> QED
    BY <2>1, <2>2
<1> QED
  BY <1>1, <1>2, <1>3, <1>4, <1>5, <1>6, <1>7, <1>8, <1>9 DEF Next

-----------------------------------------------------------------------------
(* The theorems                                                            *)

\* The invariant holds always, whatever turns start, end and are stopped in between.
THEOREM InvariantHolds == Spec => []IInv
<1>1. IInv /\ [Next]_vars => IInv'
  BY StepHolds
<1> QED
  BY InitHolds, <1>1, PTL DEF Spec

\* The maps of the rendezvous, the turns and the questions have their types: a handoff,
\* a claimant and a delivery are always of turns that started.
THEOREM TypeCorrect == Spec => []TypeOK
<1>1. IInv => TypeOK
  BY DEF IInv
<1> QED
  BY InvariantHolds, <1>1, PTL

\* An answer that several surfaces give, and that changes hands between handoffs,
\* claimants, deliveries and tombstones, is handed over at most once: what may hand it
\* over is in one of these places at most, and leaves it when it does.
THEOREM AnswersAreHandedOverOnce == Spec => []HandedOverOnce
<1>1. IInv => HandedOverOnce
  BY DEF IInv, RendezvousInv, Fit, OnePlace, HandedOverOnce
<1> QED
  BY InvariantHolds, <1>1, PTL

\* An answer is put into the turn that asked or into one that took over from it through
\* an unbroken chain, unless a claim took it over from an unrelated claimant.
THEOREM AnswersGoToHeirs == Spec => []DeliveredToHeirs
<1>1. IInv => DeliveredToHeirs
  BY DEF IInv, RendezvousInv, Fit, Inherited, DeliveredToHeirs
<1> QED
  BY InvariantHolds, <1>1, PTL

\* An answer that was accepted is used or held by something whose handler is still to
\* come, while nobody stops the conversation and no TTL passes.
THEOREM AcceptedAnswersAreKept == Spec => []NoAnswerIsLost
<1>1. IInv => NoAnswerIsLost
  <2> SUFFICES ASSUME IInv, expiries = 0, stops = 0, NEW q \in accepted \ void
               PROVE  Used(q) \/ Held(q)
    BY DEF NoAnswerIsLost
  <2>1. /\ TypeOK /\ QuestionInv /\ GateInv /\ rv \in Rendezvous
        /\ q \in Questions \ void /\ Calm /\ Live(rv)
    BY Facts DEF TypeOK, Calm, Fit
  <2>2. gate[q] \in {"inflight", "committed", "closed"}
    BY <2>1 DEF QuestionInv
  <2>3. CASE gate[q] = "closed"
    <3>1. q \in Places(rv)
      BY <2>1, <2>3 DEF GateInv
    <3>2. CASE q \in HandoffKeys(rv)
      <4>1. rv.handoff # None /\ q \in rv.handoff.keys
        BY <3>2 DEF HandoffKeys
      <4>2. rv.handoff.successor # 0 =>
              rv.handoff.successor \in Turns /\ stage[rv.handoff.successor] # "ended"
        BY <2>1, <4>1, RendezvousFields, BoundsAssumption DEF Live, Turns, TurnOrNone
      <4> QED
        BY <4>1, <4>2 DEF Held
    <3>3. CASE q \in ClaimantKeys(rv)
      BY <2>1, <3>3 DEF Held, Live, ClaimantKeys
    <3>4. CASE q \in Delivering(rv) \cup rv.tombstones
      BY <3>4 DEF Held, Delivering
    <3>5. CASE q \in Given(rv)
      <4>1. rv.given[q] \in Nat /\ rv.given[q] # 0
        BY <2>1, <3>5, RendezvousFields DEF Given
      <4> QED
        BY <4>1 DEF Used
    <3> QED
      BY <3>1, <3>2, <3>3, <3>4, <3>5 DEF Places
  <2>4. CASE gate[q] # "closed"
    BY <2>2, <2>4 DEF Used, Held
  <2> QED
    BY <2>3, <2>4
<1> QED
  BY InvariantHolds, <1>1, PTL

\* What was asked before a Stop or a dismissal is put into no turn that starts after it:
\* every handoff, claimant and delivery that holds it was marked by the Stop.
THEOREM StoppedAnswersStayOut == Spec => NothingIntoALaterTurn
<1>1. IInv /\ [Next]_vars =>
        [\A q \in stopped \ rv.strays :
           rv'.receiver[q] # rv.receiver[q] => rv'.receiver[q] \in terminal]_vars
  BY StepHolds
<1> QED
  BY InvariantHolds, <1>1, PTL DEF Spec, NothingIntoALaterTurn

-----------------------------------------------------------------------------
(* The answers and what becomes of them: RacedAnswers implements AnswerOnce *)

RvFields == {"handoff", "claimant", "stash", "tombstones", "delivery", "pending", "timers",
             "given", "receiver", "strays"}

\* The shape of a rendezvous: what the types say that holds of any edit of one.
Shaped(s) ==
    /\ s = [f \in RvFields |-> s[f]]
    /\ s.delivery = [q \in Questions |-> s.delivery[q]]
    /\ s.given \in [Questions -> Nat]

\* The questions that an answer has come to.
Answers(s) == s.stash \cup Delivering(s) \cup Given(s)

\* What leads from s to u brings no answer, takes none back that was handed over, and
\* delivers nothing to a turn.
Flows(s, u) ==
    /\ Shaped(u) /\ Answers(u) \subseteq Answers(s) /\ Given(s) \subseteq Given(u)
    /\ u.receiver = s.receiver /\ u.strays = s.strays

LEMMA RendezvousShape == \A s \in Rendezvous : Shaped(s)
  BY DEF Rendezvous, Shaped, RvFields

LEMMA FlowsOn ==
    ASSUME NEW s, NEW u, NEW v, Flows(s, u), Flows(u, v)
    PROVE  Flows(s, v)
BY DEF Flows

LEMMA FlowsHere == ASSUME NEW s, Shaped(s) PROVE Flows(s, s)
BY DEF Flows

\* An edit of a field.
LEMMA EditRv ==
    ASSUME NEW s, Shaped(s), NEW g \in RvFields, NEW v
    PROVE  /\ [s EXCEPT ![g] = v] = [f \in RvFields |-> [s EXCEPT ![g] = v][f]]
           /\ [s EXCEPT ![g] = v][g] = v
           /\ \A f \in RvFields \ {g} : [s EXCEPT ![g] = v][f] = s[f]
BY DEF Shaped, RvFields

\* An edit of a field that says nothing of answers.
Beside == {"handoff", "claimant", "tombstones", "pending", "timers"}

LEMMA EditFlows ==
    ASSUME NEW s, Shaped(s), NEW g \in Beside, NEW v
    PROVE  /\ Flows(s, [s EXCEPT ![g] = v]) /\ Given([s EXCEPT ![g] = v]) = Given(s)
           /\ [s EXCEPT ![g] = v][g] = v
           /\ [s EXCEPT ![g] = v].stash = s.stash
<1> DEFINE u == [s EXCEPT ![g] = v]
<1>1. /\ u = [f \in RvFields |-> u[f]] /\ u[g] = v
      /\ u.stash = s.stash /\ u.delivery = s.delivery /\ u.given = s.given
      /\ u.receiver = s.receiver /\ u.strays = s.strays
  BY EditRv DEF Beside, RvFields
<1> HIDE DEF u
<1>2. Delivering(u) = Delivering(s) /\ Given(u) = Given(s)
  BY <1>1 DEF Delivering, Given
<1>3. Shaped(u)
  BY <1>1 DEF Shaped
<1>4. Flows(s, u)
  BY <1>1, <1>2, <1>3 DEF Flows, Answers
<1> QED
  BY <1>1, <1>2, <1>4 DEF u

\* What is recovered was in the stash.
LEMMA RecoverFlows ==
    ASSUME NEW s, Shaped(s), NEW K
    PROVE  /\ Flows(s, Recover(s, K)) /\ Recover(s, K).stash = s.stash
           /\ Given(Recover(s, K)) \subseteq Given(s) \cup K
<1> DEFINE tombs == (s.tombstones \ K) \cup (K \ s.stash)
           sent == s.pending \cup (K \cap s.stash)
           g == [q \in Questions |-> s.given[q] + (IF q \in K \cap s.stash THEN 1 ELSE 0)]
           e == [[s EXCEPT !.tombstones = tombs] EXCEPT !.pending = sent]
           r == [e EXCEPT !.given = g]
<1>1. /\ s.given \in [Questions -> Nat] /\ g \in [Questions -> Nat]
      /\ \A q \in Questions : g[q] # 0 <=> s.given[q] # 0 \/ q \in K \cap s.stash
  <2>1. s.given \in [Questions -> Nat]
    BY DEF Shaped
  <2> QED
    BY <2>1
<1>2. Recover(s, K) = r
  BY DEF Recover, Shaped, RvFields
<1>3. Flows(s, e) /\ e.stash = s.stash /\ Given(e) = Given(s)
  <2> HIDE DEF tombs, sent, g
  <2> DEFINE d == [s EXCEPT !.tombstones = tombs]
  <2>1. Flows(s, d) /\ Given(d) = Given(s) /\ d.stash = s.stash
    BY EditFlows DEF Beside
  <2>2. Shaped(d)
    BY <2>1 DEF Flows
  <2> HIDE DEF d
  <2>3. LET u == [d EXCEPT !.pending = sent]
        IN  Flows(d, u) /\ Given(u) = Given(d) /\ u.stash = d.stash
    BY <2>2, EditFlows DEF Beside
  <2>4. e = [d EXCEPT !.pending = sent]
    BY DEF d
  <2> QED
    BY <2>1, <2>3, <2>4, FlowsOn
<1>4. Shaped(e)
  BY <1>3 DEF Flows
<1> HIDE DEF e, g
<1>5. /\ r = [f \in RvFields |-> r[f]] /\ r.given = g
      /\ r.stash = e.stash /\ r.delivery = e.delivery
      /\ r.receiver = e.receiver /\ r.strays = e.strays
  <2>1. /\ r = [f \in RvFields |-> r[f]] /\ r["given"] = g
        /\ \A f \in RvFields \ {"given"} : r[f] = e[f]
    BY <1>4 DEF Shaped, RvFields
  <2> HIDE DEF r
  <2> QED
    BY <2>1 DEF RvFields
<1> HIDE DEF r
<1>6. Shaped(r)
  BY <1>1, <1>4, <1>5 DEF Shaped
<1>7. /\ Delivering(r) = Delivering(e) /\ Given(r) = Given(s) \cup (Questions \cap K \cap s.stash)
  BY <1>1, <1>5 DEF Delivering, Given
<1>8. Flows(e, r)
  BY <1>3, <1>5, <1>6, <1>7 DEF Flows, Answers
<1> QED
  BY <1>2, <1>3, <1>5, <1>7, <1>8, FlowsOn

\* What holds keys is dropped, and they are recovered.
LEMMA DropFlows ==
    ASSUME NEW s, Shaped(s)
    PROVE  /\ \A K : Flows(s, Recover([s EXCEPT !.handoff = None], K))
           /\ \A K : Flows(s, Recover([s EXCEPT !.claimant = None], K))
           /\ Flows(s, RecoverHandoff(s)) /\ Flows(s, RecoverClaimant(s))
<1> DEFINE h == [s EXCEPT !.handoff = None]
           c == [s EXCEPT !.claimant = None]
<1>1. Flows(s, h) /\ Flows(s, c)
  BY EditFlows DEF Beside
<1>2. Shaped(h) /\ Shaped(c)
  BY <1>1 DEF Flows
<1> HIDE DEF h, c
<1>3. ASSUME NEW K PROVE Flows(s, Recover(h, K)) /\ Flows(s, Recover(c, K))
  BY <1>1, <1>2, RecoverFlows, FlowsOn
<1>4. Flows(s, s)
  BY FlowsHere
<1> QED
  BY <1>3, <1>4 DEF RecoverHandoff, RecoverClaimant, h, c

\* What a claimant starts to deliver was in the stash.
LEMMA AttemptFlows ==
    ASSUME NEW s, Shaped(s)
    PROVE  Flows(s, Attempt(s)) /\ Given(Attempt(s)) = Given(s)
<1>1. CASE s.claimant = None \/ s.claimant.token # active
  BY <1>1, FlowsHere DEF Attempt
<1>2. CASE s.claimant # None /\ s.claimant.token = active /\ Invalid(s.claimant)
  <2>1. Attempt(s) = [s EXCEPT !.claimant = None]
    BY <1>2 DEF Attempt
  <2> QED
    BY <2>1, EditFlows DEF Beside
<1>3. CASE s.claimant # None /\ s.claimant.token = active /\ ~Invalid(s.claimant)
  <2> DEFINE ready == s.claimant.keys \cap s.stash
             mine == [token |-> s.claimant.token, stopped |-> FALSE, expired |-> FALSE]
             d == [q \in Questions |-> IF q \in ready THEN mine ELSE s.delivery[q]]
             w == s.stash \ ready
             c == [s.claimant EXCEPT !.keys = @ \ ready]
             e == [s EXCEPT !.claimant = c]
             f == [e EXCEPT !.stash = w]
             r == [f EXCEPT !.delivery = d]
  <2>1. Attempt(s) = r
    BY <1>3 DEF Attempt, Shaped, RvFields
  <2>2. Flows(s, e) /\ Given(e) = Given(s) /\ e.stash = s.stash
    BY EditFlows DEF Beside
  <2>3. Shaped(e)
    BY <2>2 DEF Flows
  <2>4. \A q \in Questions : d[q] # None => s.delivery[q] # None \/ q \in s.stash
    OBVIOUS
  <2>5. d = [q \in Questions |-> d[q]] /\ w \subseteq s.stash
    OBVIOUS
  <2> HIDE DEF e, d, w
  <2>6. /\ f = [g \in RvFields |-> f[g]] /\ f.stash = w
        /\ f.delivery = e.delivery /\ f.given = e.given
        /\ f.receiver = e.receiver /\ f.strays = e.strays
    <3>1. /\ f = [g \in RvFields |-> f[g]] /\ f["stash"] = w
          /\ \A g \in RvFields \ {"stash"} : f[g] = e[g]
      BY <2>3 DEF Shaped, RvFields
    <3> HIDE DEF f
    <3> QED
      BY <3>1 DEF RvFields
  <2>7. Shaped(f)
    BY <2>3, <2>6 DEF Shaped
  <2> HIDE DEF f
  <2>8. /\ r = [g \in RvFields |-> r[g]] /\ r.delivery = d
        /\ r.stash = f.stash /\ r.given = f.given
        /\ r.receiver = f.receiver /\ r.strays = f.strays
    <3>1. /\ r = [g \in RvFields |-> r[g]] /\ r["delivery"] = d
          /\ \A g \in RvFields \ {"delivery"} : r[g] = f[g]
      BY <2>7 DEF Shaped, RvFields
    <3> HIDE DEF r
    <3> QED
      BY <3>1 DEF RvFields
  <2> HIDE DEF r
  <2>9. Shaped(r)
    BY <2>5, <2>7, <2>8 DEF Shaped
  <2>10. Given(r) = Given(s)
    BY <2>2, <2>6, <2>8 DEF Given
  <2>11. Delivering(r) \subseteq Delivering(s) \cup s.stash
    BY <2>4, <2>8 DEF Delivering
  <2>12. r.receiver = s.receiver /\ r.strays = s.strays
    BY <2>2, <2>6, <2>8 DEF Flows
  <2>13. Answers(r) \subseteq Answers(s)
    BY <2>5, <2>6, <2>8, <2>10, <2>11 DEF Answers
  <2> QED
    BY <2>1, <2>9, <2>10, <2>12, <2>13 DEF Flows
<1> QED
  BY <1>1, <1>2, <1>3

LEMMA MergeFlows ==
    ASSUME NEW s, Shaped(s)
    PROVE  Flows(s, Merge(s)) /\ Given(Merge(s)) = Given(s)
<1> DEFINE e == [s EXCEPT !.handoff = None]
           c == [s.claimant EXCEPT !.keys = @ \cup s.handoff.keys]
           f == [e EXCEPT !.claimant = c]
<1>1. Flows(s, e) /\ Given(e) = Given(s)
  BY EditFlows DEF Beside
<1>2. Shaped(e)
  BY <1>1 DEF Flows
<1>3. Flows(e, f) /\ Given(f) = Given(e)
  <2> HIDE DEF e, c
  <2> QED
    BY <1>2, EditFlows DEF Beside
<1>4. Shaped(f)
  BY <1>3 DEF Flows
<1>5. f = [s EXCEPT !.handoff = None, !.claimant.keys = @ \cup s.handoff.keys]
  BY DEF Shaped, RvFields
<1> HIDE DEF e, f
<1>6. Flows(f, Attempt(f)) /\ Given(Attempt(f)) = Given(f)
  BY <1>4, AttemptFlows
<1>7. Flows(s, Attempt(f)) /\ Given(Attempt(f)) = Given(s)
  BY <1>1, <1>3, <1>6, FlowsOn
<1>8. Merge(s) \in {s, e, Attempt(f)}
  BY <1>5 DEF Merge, e
<1> QED
  BY <1>1, <1>7, <1>8, FlowsHere

LEMMA RegisterFlows ==
    ASSUME NEW s, Shaped(s), NEW K, NEW source, NEW expired
    PROVE  Flows(s, Register(s, K, source, expired))
<1> DEFINE old == s.handoff
           usable == old # None /\ ~Invalid(old)
           bound == IF LiveSuccessor(source) THEN issued ELSE 0
           joins == usable /\ old.successor = bound
           r == Register(s, K, source, expired)
<1>1. CASE expired
  BY <1>1, FlowsHere DEF Register
<1>2. CASE ~expired /\ usable /\ old.source = source
  <2>1. r = [s EXCEPT !.handoff = [old EXCEPT !.keys = @ \cup K]]
    BY <1>2 DEF Register, Shaped, RvFields
  <2> HIDE DEF r, old
  <2> QED
    BY <2>1, EditFlows DEF Beside, r
<1>3. CASE ~expired /\ ~(usable /\ old.source = source) /\ issued # source /\ ~LiveSuccessor(source)
  <2> DEFINE none == IF usable THEN None ELSE old
             e == [s EXCEPT !.handoff = none]
             keys == K \cup (IF usable THEN old.keys ELSE {})
  <2>1. r = Recover(e, keys)
    BY <1>3 DEF Register
  <2> HIDE DEF none, keys, r
  <2>2. Flows(s, e)
    BY EditFlows DEF Beside
  <2>3. Shaped(e)
    BY <2>2 DEF Flows
  <2> HIDE DEF e
  <2>4. Flows(e, Recover(e, keys))
    BY <2>3, RecoverFlows
  <2>5. Flows(s, r)
    BY <2>1, <2>2, <2>4, FlowsOn
  <2> QED
    BY <2>5 DEF r
<1>4. CASE ~expired /\ ~(usable /\ old.source = source) /\ ~(issued # source /\ ~LiveSuccessor(source))
  <2> DEFINE e == IF usable /\ ~joins THEN RecoverHandoff(s) ELSE s
             h == [keys |-> K \cup (IF joins THEN old.keys ELSE {}), source |-> source,
                   successor |-> bound, stopped |-> FALSE, expired |-> FALSE]
  <2>1. r = [e EXCEPT !.handoff = h]
    BY <1>4 DEF Register
  <2>2. Flows(s, e)
    BY DropFlows, FlowsHere
  <2>3. Shaped(e)
    BY <2>2 DEF Flows
  <2> HIDE DEF e, h, r
  <2>4. Flows(e, [e EXCEPT !.handoff = h])
    BY <2>3, EditFlows DEF Beside
  <2>5. Flows(s, r)
    BY <2>1, <2>2, <2>4, FlowsOn
  <2> QED
    BY <2>5 DEF r
<1> QED
  BY <1>1, <1>2, <1>3, <1>4

LEMMA PurgeFlows ==
    ASSUME NEW s, Shaped(s), NEW q
    PROVE  Flows(s, Purge(s, q)) /\ Given(Purge(s, q)) = Given(s)
<1>1. CASE q \in s.stash
  BY <1>1, FlowsHere DEF Purge
<1>2. CASE q \notin s.stash
  <2> DEFINE h == IF s.handoff = None \/ s.handoff.keys \ {q} = {} THEN None
                  ELSE [s.handoff EXCEPT !.keys = @ \ {q}]
             c == IF s.claimant = None \/ q \notin s.claimant.keys THEN s.claimant
                  ELSE IF s.claimant.keys \ {q} = {} /\ s.claimant.token # active THEN None
                  ELSE [s.claimant EXCEPT !.keys = @ \ {q}]
             tombs == s.tombstones \ {q}
             d == [s EXCEPT !.tombstones = tombs]
             e == [d EXCEPT !.handoff = h]
             f == [e EXCEPT !.claimant = c]
  <2>1. Purge(s, q) = f
    BY <1>2 DEF Purge, Shaped, RvFields
  <2> HIDE DEF h, c, tombs
  <2>2. Flows(s, d) /\ Given(d) = Given(s)
    BY EditFlows DEF Beside
  <2>3. Shaped(d)
    BY <2>2 DEF Flows
  <2> HIDE DEF d
  <2>4. Flows(d, e) /\ Given(e) = Given(d)
    BY <2>3, EditFlows DEF Beside
  <2>5. Shaped(e)
    BY <2>4 DEF Flows
  <2> HIDE DEF e
  <2>6. Flows(e, f) /\ Given(f) = Given(e)
    BY <2>5, EditFlows DEF Beside
  <2> HIDE DEF f
  <2> QED
    BY <2>1, <2>2, <2>4, <2>6, FlowsOn
<1> QED
  BY <1>1, <1>2

\* What a delivery held goes back to the stash.
LEMMA FailFlows ==
    ASSUME NEW s, Shaped(s), NEW q \in Delivering(s)
    PROVE  Flows(s, Fail(s, q))
<1> DEFINE d == s.delivery[q]
           w == s.stash \cup {q}
           n == [s.delivery EXCEPT ![q] = None]
           e == [s EXCEPT !.stash = w]
           back == [e EXCEPT !.delivery = n]
           r == Fail(s, q)
<1>1. q \in Questions
  BY DEF Delivering
<1>2. /\ n = [p \in Questions |-> n[p]] /\ \A p \in Questions : n[p] # None => s.delivery[p] # None
  BY <1>1 DEF Shaped
<1>3. Flows(s, back) /\ Given(back) = Given(s)
  <2> HIDE DEF w, n
  <2>1. /\ e = [f \in RvFields |-> e[f]] /\ e["stash"] = w
        /\ \A f \in RvFields \ {"stash"} : e[f] = s[f]
    BY DEF Shaped, RvFields
  <2> HIDE DEF e
  <2>2. /\ back = [f \in RvFields |-> back[f]] /\ back["delivery"] = n
        /\ \A f \in RvFields \ {"delivery"} : back[f] = e[f]
    BY <2>1 DEF RvFields
  <2> HIDE DEF back
  <2>3. /\ back.stash = w /\ back.delivery = n /\ back.given = s.given
        /\ back.receiver = s.receiver /\ back.strays = s.strays
    BY <2>1, <2>2 DEF RvFields
  <2>4. Given(back) = Given(s) /\ Delivering(back) \subseteq Delivering(s)
    BY <1>2, <2>3 DEF Given, Delivering
  <2>5. Shaped(back)
    BY <1>2, <2>2, <2>3 DEF Shaped
  <2>6. Answers(back) \subseteq Answers(s)
    BY <2>3, <2>4 DEF Answers, w
  <2> QED
    BY <2>3, <2>4, <2>5, <2>6 DEF Flows
<1>4. Shaped(back)
  BY <1>3 DEF Flows
<1>5. back = [s EXCEPT !.stash = @ \cup {q}, !.delivery[q] = None]
  BY DEF Shaped, RvFields
<1>6. CASE s.claimant # None /\ s.claimant.token = d.token
  <2> DEFINE c1 == [s.claimant EXCEPT !.keys = @ \cup {q},
                                      !.retries = IF TriesAgain(s.claimant) THEN @ + 1 ELSE @]
             m == IF TriesAgain(s.claimant) THEN s.timers + 1 ELSE s.timers
             f == [back EXCEPT !.claimant = c1]
             g == [f EXCEPT !.timers = m]
  <2>1. r = g
    BY <1>6 DEF Fail, Shaped, RvFields
  <2> HIDE DEF back, c1, m, r
  <2>2. Flows(back, f)
    BY <1>4, EditFlows DEF Beside
  <2>3. Shaped(f)
    BY <2>2 DEF Flows
  <2> HIDE DEF f
  <2>4. Flows(f, g)
    BY <2>3, EditFlows DEF Beside
  <2> HIDE DEF g
  <2> QED
    BY <1>3, <2>1, <2>2, <2>4, FlowsOn DEF r
<1>7. CASE ~(s.claimant # None /\ s.claimant.token = d.token)
  <2>1. CASE d.stopped \/ d.token \in terminal
    <3>1. r = back
      BY <1>5, <1>7, <2>1 DEF Fail
    <3> QED
      BY <1>3, <3>1
  <2>2. CASE ~(d.stopped \/ d.token \in terminal) /\ LiveSuccessor(d.token)
    <3> DEFINE g == Register(back, {q}, d.token, d.expired)
    <3>1. r = Merge(g)
      BY <1>5, <1>7, <2>2 DEF Fail
    <3> HIDE DEF back, d, r
    <3>2. Flows(back, g)
      BY <1>4, RegisterFlows
    <3>3. Shaped(g)
      BY <3>2 DEF Flows
    <3> HIDE DEF g
    <3>4. Flows(g, Merge(g))
      BY <3>3, MergeFlows
    <3> QED
      BY <1>3, <3>1, <3>2, <3>4, FlowsOn DEF r
  <2>3. CASE ~(d.stopped \/ d.token \in terminal) /\ ~LiveSuccessor(d.token)
    <3> DEFINE p == back.pending \cup {q}
               g == [back.given EXCEPT ![q] = @ + 1]
               f == [back EXCEPT !.pending = p]
               u == [f EXCEPT !.given = g]
    <3>1. r = u
      <4>1. r = [back EXCEPT !.pending = @ \cup {q}, !.given[q] = @ + 1]
        BY <1>5, <1>7, <2>3 DEF Fail
      <4> HIDE DEF back, r
      <4> QED
        BY <1>4, <4>1 DEF Shaped, RvFields
    <3>2. /\ back.given \in [Questions -> Nat] /\ g \in [Questions -> Nat]
          /\ \A x \in Questions : g[x] # 0 <=> back.given[x] # 0 \/ x = q
      <4>1. back.given \in [Questions -> Nat]
        BY <1>4 DEF Shaped
      <4> HIDE DEF back
      <4> QED
        BY <1>1, <4>1
    <3>3. q \in back.stash
      BY DEF Shaped, RvFields
    <3> HIDE DEF back, p, g, r
    <3>4. Flows(back, f) /\ Given(f) = Given(back) /\ f.stash = back.stash
      BY <1>4, EditFlows DEF Beside
    <3>5. Shaped(f)
      BY <3>4 DEF Flows
    <3> HIDE DEF f
    <3>6. /\ u = [x \in RvFields |-> u[x]] /\ u["given"] = g
          /\ \A x \in RvFields \ {"given"} : u[x] = f[x]
      BY <3>5 DEF Shaped, RvFields
    <3> HIDE DEF u
    <3>7. /\ u.given = g /\ u.stash = f.stash /\ u.delivery = f.delivery
          /\ u.receiver = f.receiver /\ u.strays = f.strays
      BY <3>6 DEF RvFields
    <3>8. Given(u) = Given(back) \cup {q} /\ Delivering(u) = Delivering(f)
      BY <1>1, <3>2, <3>7 DEF Given, Delivering
    <3>9. Shaped(u)
      BY <3>2, <3>5, <3>6, <3>7 DEF Shaped
    <3>10. Answers(u) \subseteq Answers(f)
      BY <3>3, <3>4, <3>7, <3>8 DEF Answers
    <3>11. Flows(f, u)
      BY <3>4, <3>7, <3>8, <3>9, <3>10 DEF Flows
    <3> QED
      BY <1>3, <3>1, <3>4, <3>11, FlowsOn DEF r
  <2> QED
    BY <2>1, <2>2, <2>3
<1> QED
  BY <1>6, <1>7

\* A claim takes over answers, some of them astray, and hands none of them over.
LEMMA ClaimFlows ==
    ASSUME NEW s, Shaped(s), NEW t, NEW forced, NEW u, u = Claim(s, t, forced)
    PROVE  /\ Shaped(u) /\ Answers(u) \subseteq Answers(s) /\ Given(u) = Given(s)
           /\ u.receiver = s.receiver
           /\ u.strays = s.strays \/ \E Q \in SUBSET ClaimantKeys(s) : u.strays = s.strays \cup Q
<1> DEFINE h == s.handoff
           prior == s.claimant
           another == prior # None /\ prior.token # t
           merged == IF another THEN prior.keys ELSE {}
           stray == another /\ (prior.stopped \/ ~InheritsFrom(prior.token, t))
           fresh == [token |-> t, keys |-> {}, stopped |-> FALSE, expired |-> FALSE, retries |-> 0]
           Done == /\ Shaped(u) /\ Answers(u) \subseteq Answers(s) /\ Given(u) = Given(s)
                   /\ u.receiver = s.receiver
                   /\ \/ u.strays = s.strays
                      \/ \E Q \in SUBSET ClaimantKeys(s) : u.strays = s.strays \cup Q
<1>1. ASSUME Flows(s, u), Given(u) = Given(s) PROVE Done
  BY <1>1 DEF Flows
<1>2. ASSUME NEW c, u = [s EXCEPT !.claimant = c] PROVE Done
  <2>1. LET e == [s EXCEPT !.claimant = c] IN Flows(s, e) /\ Given(e) = Given(s)
    BY EditFlows DEF Beside
  <2> QED
    BY <1>1, <1>2, <2>1
<1>3. ASSUME NEW c, u = Attempt([s EXCEPT !.claimant = c]) PROVE Done
  <2> DEFINE e == [s EXCEPT !.claimant = c]
  <2>1. Flows(s, e) /\ Given(e) = Given(s)
    BY EditFlows DEF Beside
  <2>2. Shaped(e) /\ u = Attempt(e)
    BY <1>3, <2>1 DEF Flows
  <2> HIDE DEF e
  <2>3. Flows(e, u) /\ Given(u) = Given(e)
    BY <2>2, AttemptFlows
  <2> QED
    BY <1>1, <2>1, <2>3, FlowsOn
<1>4. CASE h = None
  <2>1. \/ \E c : u = [s EXCEPT !.claimant = c] \/ u = Attempt([s EXCEPT !.claimant = c])
        \/ u = s
    BY <1>4, Zenon DEF Claim
  <2>2. CASE u = s
    BY <1>1, <2>2, FlowsHere
  <2> QED
    BY <1>2, <1>3, <2>1, <2>2
<1>5. CASE /\ h # None
           /\ \/ h.successor \notin {0, t} /\ ~Descends(h.successor, t)
              \/ Invalid(h)
  <2>1. u = s \/ u = [s EXCEPT !.handoff = None]
    BY <1>5 DEF Claim
  <2>2. LET e == [s EXCEPT !.handoff = None] IN Flows(s, e) /\ Given(e) = Given(s)
    BY EditFlows DEF Beside
  <2> QED
    BY <1>1, <2>1, <2>2, FlowsHere
<1>6. CASE h # None /\ ~(h.successor \notin {0, t} /\ ~Descends(h.successor, t)) /\ ~Invalid(h)
  <2> DEFINE c == [fresh EXCEPT !.keys = h.keys \cup merged, !.expired = another /\ prior.expired]
             x == IF stray THEN s.strays \cup merged ELSE s.strays
             d == [s EXCEPT !.handoff = None]
             e == [d EXCEPT !.claimant = c]
             f == [e EXCEPT !.strays = x]
  <2>1. u = Attempt(f)
    <3>1. f = [s EXCEPT !.handoff = None, !.claimant = c, !.strays = IF stray THEN @ \cup merged ELSE @]
      BY DEF Shaped, RvFields
    <3> HIDE DEF f
    <3> QED
      BY <1>6, <3>1 DEF Claim
  <2>2. x = s.strays \/ \E Q \in SUBSET ClaimantKeys(s) : x = s.strays \cup Q
    BY DEF ClaimantKeys
  <2> HIDE DEF c, x
  <2>3. Flows(s, d) /\ Given(d) = Given(s)
    BY EditFlows DEF Beside
  <2>4. Shaped(d)
    BY <2>3 DEF Flows
  <2> HIDE DEF d
  <2>5. Flows(d, e) /\ Given(e) = Given(d)
    BY <2>4, EditFlows DEF Beside
  <2>6. Shaped(e)
    BY <2>5 DEF Flows
  <2> HIDE DEF e
  <2>7. /\ f = [g \in RvFields |-> f[g]] /\ f["strays"] = x
        /\ \A g \in RvFields \ {"strays"} : f[g] = e[g]
    BY <2>6 DEF Shaped, RvFields
  <2> HIDE DEF f
  <2>8. /\ f.strays = x /\ f.stash = e.stash /\ f.delivery = e.delivery /\ f.given = e.given
        /\ f.receiver = e.receiver
    BY <2>7 DEF RvFields
  <2>9. Shaped(f) /\ Answers(f) = Answers(e) /\ Given(f) = Given(e)
    BY <2>6, <2>7, <2>8 DEF Shaped, Answers, Delivering, Given
  <2>10. Flows(f, u) /\ Given(u) = Given(f)
    BY <2>1, <2>9, AttemptFlows
  <2>11. Shaped(u) /\ Given(u) = Given(s) /\ u.strays = x /\ u.receiver = s.receiver
    BY <2>3, <2>5, <2>8, <2>9, <2>10 DEF Flows
  <2>12. Answers(u) \subseteq Answers(s)
    BY <2>3, <2>5, <2>9, <2>10 DEF Flows
  <2> QED
    BY <2>2, <2>11, <2>12
<1> QED
  BY <1>4, <1>5, <1>6

LEMMA DiscardFlows ==
    ASSUME NEW s, Shaped(s)
    PROVE  Flows(s, Discard(s))
<1>1. Flows(s, RecoverHandoff(s))
  BY DropFlows
<1>2. Shaped(RecoverHandoff(s))
  BY <1>1 DEF Flows
<1>3. Flows(RecoverHandoff(s), RecoverClaimant(RecoverHandoff(s)))
  BY <1>2, DropFlows
<1> QED
  BY <1>1, <1>3, FlowsOn DEF Discard

LEMMA DropForFlows ==
    ASSUME NEW s, Shaped(s), NEW t
    PROVE  Flows(s, DropFor(s, t)) /\ Flows(s, DeadSuccessor(s, t))
<1> DEFINE c == s.claimant
           gone == [s EXCEPT !.claimant = None]
<1>1. ASSUME NEW r, Shaped(r) PROVE Flows(r, DropHandoffFor(r, t))
  <2>1. DropHandoffFor(r, t) \in {r, RecoverHandoff(r), [r EXCEPT !.handoff = None]}
    BY DEF DropHandoffFor
  <2>2. Flows(r, [r EXCEPT !.handoff = None])
    BY <1>1, EditFlows DEF Beside
  <2> QED
    BY <1>1, <2>1, <2>2, DropFlows, FlowsHere
<1>2. Flows(s, gone)
  BY EditFlows DEF Beside
<1>3. Shaped(gone)
  BY <1>2 DEF Flows
<1>4. Flows(s, Merge(Register(gone, c.keys, t, c.expired)))
  <2> HIDE DEF gone, c
  <2> DEFINE g == Register(gone, c.keys, t, c.expired)
  <2>1. Flows(gone, g)
    BY <1>3, RegisterFlows
  <2>2. Shaped(g)
    BY <2>1 DEF Flows
  <2> HIDE DEF g
  <2>3. Flows(g, Merge(g))
    BY <2>2, MergeFlows
  <2>4. Flows(s, Merge(g))
    BY <1>2, <2>1, <2>3, FlowsOn
  <2> QED
    BY <2>4 DEF g
<1>5. ASSUME NEW r \in {gone, RecoverClaimant(s)} PROVE Flows(s, DropHandoffFor(r, t))
  <2>1. Flows(s, r)
    BY <1>2, DropFlows
  <2>2. Shaped(r)
    BY <2>1 DEF Flows
  <2> HIDE DEF gone
  <2> QED
    BY <1>1, <2>1, <2>2, FlowsOn
<1>6. DropFor(s, t) \in {DropHandoffFor(s, t), gone, Merge(Register(gone, c.keys, t, c.expired)),
                         DropHandoffFor(gone, t), DropHandoffFor(RecoverClaimant(s), t)}
  BY Zenon DEF DropFor
<1>7. Flows(s, DropFor(s, t))
  <2> HIDE DEF gone, c
  <2> QED
    BY <1>1, <1>2, <1>4, <1>5, <1>6
<1>8. Flows(s, DeadSuccessor(s, t))
  BY DropFlows, FlowsHere DEF DeadSuccessor
<1> QED
  BY <1>7, <1>8

LEMMA BumpedFlows ==
    ASSUME NEW s, Shaped(s)
    PROVE  Flows(s, Bumped(s)) /\ Given(Bumped(s)) = Given(s)
<1> DEFINE h == IF s.handoff = None THEN s.handoff ELSE [s.handoff EXCEPT !.stopped = TRUE]
           c == IF s.claimant = None THEN s.claimant ELSE [s.claimant EXCEPT !.stopped = TRUE]
           v == [q \in Questions |-> IF s.delivery[q] = None THEN None
                                     ELSE [s.delivery[q] EXCEPT !.stopped = TRUE]]
           d == [s EXCEPT !.handoff = h]
           e == [d EXCEPT !.claimant = c]
           f == [e EXCEPT !.delivery = v]
           g == [f EXCEPT !.tombstones = {}]
<1>1. Bumped(s) = g
  BY DEF Bumped, Shaped, RvFields
<1>2. v = [q \in Questions |-> v[q]] /\ \A q \in Questions : v[q] # None => s.delivery[q] # None
  OBVIOUS
<1> HIDE DEF h, c, v
<1>3. Flows(s, d) /\ Given(d) = Given(s) /\ d.delivery = s.delivery
  BY EditFlows DEF Beside, Shaped, RvFields
<1>4. Shaped(d)
  BY <1>3 DEF Flows
<1> HIDE DEF d
<1>5. Flows(d, e) /\ Given(e) = Given(d) /\ e.delivery = d.delivery
  BY <1>4, EditFlows DEF Beside, Shaped, RvFields
<1>6. Shaped(e)
  BY <1>5 DEF Flows
<1> HIDE DEF e
<1>7. /\ f = [x \in RvFields |-> f[x]] /\ f["delivery"] = v
      /\ \A x \in RvFields \ {"delivery"} : f[x] = e[x]
  BY <1>6 DEF Shaped, RvFields
<1> HIDE DEF f
<1>8. /\ f.delivery = v /\ f.stash = e.stash /\ f.given = e.given
      /\ f.receiver = e.receiver /\ f.strays = e.strays
  BY <1>7 DEF RvFields
<1>9. Given(f) = Given(e) /\ Delivering(f) \subseteq Delivering(e)
  BY <1>2, <1>3, <1>5, <1>8 DEF Given, Delivering
<1>10. Shaped(f)
  BY <1>2, <1>6, <1>7, <1>8 DEF Shaped
<1>11. Flows(e, f)
  BY <1>8, <1>9, <1>10 DEF Flows, Answers
<1>12. Flows(f, g) /\ Given(g) = Given(f)
  BY <1>10, EditFlows DEF Beside
<1> HIDE DEF g
<1> QED
  BY <1>1, <1>3, <1>5, <1>9, <1>11, <1>12, FlowsOn

\* Whatever has an answer, somewhere in the rendezvous or in a tool call, was answered.
AnsweredInv ==
    /\ Answers(rv) \subseteq accepted
    /\ \A q \in Questions : gate[q] \in {"inflight", "committed"} => q \in accepted

\* The questions whose answer was used.
UsedSet == Given(rv) \cup {q \in Questions : gate[q] = "committed"}

LEMMA GivenIsOnce ==
    ASSUME NEW s \in Rendezvous, \A q \in Questions : s.given[q] <= 1
    PROVE  \A q \in Questions : s.given[q] = IF q \in Given(s) THEN 1 ELSE 0
<1>1. s.given \in [Questions -> Nat]
  BY DEF Rendezvous
<1>2. ASSUME NEW q \in Questions
      PROVE  s.given[q] = IF q \in Given(s) THEN 1 ELSE 0
  <2>1. s.given[q] \in Nat /\ s.given[q] <= 1
    BY <1>1
  <2>2. q \in Given(s) <=> s.given[q] # 0
    BY DEF Given
  <2> QED
    BY <2>1, <2>2
<1> QED
  BY <1>2

\* An answer is used once, in one of the two ways: what was handed over is closed.
LEMMA UsesAre ==
    ASSUME IInv
    PROVE  Uses = [q \in Questions |-> IF q \in UsedSet THEN 1 ELSE 0]
<1>1. /\ rv \in Rendezvous /\ (\A q \in Questions : rv.given[q] <= 1)
      /\ \A q \in Given(rv) : gate[q] = "closed"
  BY Facts DEF Fit, OnePlace, GateInv, Places
<1>2. \A q \in Questions : rv.given[q] = IF q \in Given(rv) THEN 1 ELSE 0
  BY <1>1, GivenIsOnce
<1>3. \A q \in Questions : q \in Given(rv) => gate[q] # "committed"
  BY <1>1
<1> QED
  BY <1>2, <1>3 DEF Uses, UsedSet

LEMMA UsesWillBe ==
    ASSUME IInv'
    PROVE  Uses' = [q \in Questions |-> IF q \in UsedSet' THEN 1 ELSE 0]
<1>1. /\ rv' \in Rendezvous /\ (\A q \in Questions : rv'.given[q] <= 1)
      /\ \A q \in Given(rv') : gate'[q] = "closed"
  <2>1. TypeOK' /\ Fit(rv, Past, accepted)' /\ GateInv'
    BY DEF IInv, RendezvousInv
  <2> QED
    BY <2>1 DEF TypeOK, Fit, OnePlace, GateInv, Places, Given
<1>2. \A q \in Questions : rv'.given[q] = IF q \in Given(rv') THEN 1 ELSE 0
  BY <1>1, GivenIsOnce
<1>3. \A q \in Questions : q \in Given(rv') => gate'[q] # "committed"
  BY <1>1
<1>4. UsedSet' = Given(rv') \cup {q \in Questions : gate'[q] = "committed"}
  BY DEF UsedSet, Given
<1> QED
  BY <1>2, <1>3, <1>4 DEF Uses

\* What is used by a step was not used before it.
LEMMA UsedStep ==
    ASSUME IInv, IInv', UsedSet \subseteq UsedSet', NEW Q, Q = UsedSet' \ UsedSet
    PROVE  Q \subseteq Questions /\ Once!Unused(Q) /\ Uses' = Once!UsedNow(Q)
<1>1. UsedSet' \subseteq Questions
  BY DEF UsedSet, Given
<1>2. \A q \in Q : Uses[q] = 0
  BY <1>1, UsesAre
<1>3. Uses' = [q \in Questions |-> IF q \in Q THEN 1 ELSE Uses[q]]
  <2>1. \A q \in Questions : (IF q \in UsedSet' THEN 1 ELSE 0) = (IF q \in Q THEN 1 ELSE Uses[q])
    BY UsesAre
  <2> QED
    BY <2>1, UsesWillBe
<1> QED
  BY <1>1, <1>2, <1>3 DEF Once!Unused, Once!UsedNow

\* A step that accepts nothing: what it uses was accepted.
LEMMA StepUses ==
    ASSUME IInv, IInv', AnsweredInv,
           Answers(rv') \subseteq accepted, Given(rv) \subseteq Given(rv'),
           UNCHANGED <<asker, accepted, heir, stopped, terminal, rv.receiver, rv.strays>>,
           \A q \in Questions : /\ gate[q] = "committed" => gate'[q] = "committed"
                                /\ gate'[q] \in {"inflight", "committed"} =>
                                     gate[q] \in {"inflight", "committed"}
    PROVE  AnsweredInv' /\ Once!Next
<1>1. UsedSet \subseteq UsedSet' /\ UsedSet' \subseteq accepted
  BY DEF UsedSet, Given, AnsweredInv, Answers
<1> DEFINE Q == UsedSet' \ UsedSet
<1>2. Q \subseteq Questions /\ Once!Unused(Q) /\ Uses' = Once!UsedNow(Q)
  BY <1>1, UsedStep
<1>3. Q \subseteq accepted
  BY <1>1
<1> HIDE DEF Q
<1>4. Once!Use(Q)
  BY <1>2, <1>3 DEF Once!Use
<1>5. AnsweredInv'
  BY DEF AnsweredInv, Answers, Delivering, Given
<1> QED
  BY <1>2, <1>4, <1>5 DEF Once!Next

\* A step of the rendezvous alone.
LEMMA StepFlows ==
    ASSUME IInv, IInv', AnsweredInv, Flows(rv, rv'),
           UNCHANGED <<asker, accepted, heir, stopped, terminal>>,
           \A q \in Questions : /\ gate[q] = "committed" => gate'[q] = "committed"
                                /\ gate'[q] \in {"inflight", "committed"} =>
                                     gate[q] \in {"inflight", "committed"}
    PROVE  AnsweredInv' /\ Once!Next
<1>1. /\ Answers(rv') \subseteq accepted /\ Given(rv) \subseteq Given(rv')
      /\ UNCHANGED <<rv.receiver, rv.strays>>
  BY DEF Flows, AnsweredInv
<1> QED
  BY <1>1, StepUses

\* A step that uses nothing.
LEMMA UsesStay ==
    ASSUME IInv, IInv', UsedSet' = UsedSet
    PROVE  Uses' = Uses
BY UsesAre, UsesWillBe

\* What an edit of the stash, the deliveries or the number of times an answer was handed
\* over leaves.
LEMMA EditAnswers ==
    ASSUME NEW s, Shaped(s), NEW g \in {"stash", "delivery"}, NEW v,
           g = "delivery" => v = [q \in Questions |-> v[q]],
           NEW u, u = [s EXCEPT ![g] = v]
    PROVE  /\ Shaped(u) /\ Given(u) = Given(s)
           /\ u[g] = v
           /\ g # "stash" => u.stash = s.stash
           /\ g # "delivery" => u.delivery = s.delivery
           /\ u.given = s.given /\ u.receiver = s.receiver /\ u.strays = s.strays
<1>1. /\ u = [f \in RvFields |-> u[f]] /\ u[g] = v
      /\ \A f \in RvFields \ {g} : u[f] = s[f]
  BY DEF Shaped, RvFields
<1>2. /\ g # "stash" => u.stash = s.stash
      /\ g # "delivery" => u.delivery = s.delivery
      /\ u.given = s.given /\ u.receiver = s.receiver /\ u.strays = s.strays
  BY <1>1 DEF RvFields
<1> QED
  BY <1>1, <1>2 DEF Shaped, Given

\* A turn that waits for its restart uses nothing.
LEMMA PlanRestartOnce ==
    ASSUME IInv, IInv', AnsweredInv, NEW t \in Turns, PlanRestart(t)
    PROVE  AnsweredInv' /\ Once!Next
<1>1. rv \in Rendezvous /\ TypeOK
  BY Facts
<1>2. Flows(rv, rv')
  BY <1>1, RendezvousShape, FlowsHere DEF PlanRestart
<1>3. /\ UNCHANGED <<asker, accepted, heir, stopped, terminal>>
      /\ \A q \in Questions : /\ gate[q] = "committed" => gate'[q] = "committed"
                              /\ gate'[q] \in {"inflight", "committed"} =>
                                   gate[q] \in {"inflight", "committed"}
  BY <1>1 DEF PlanRestart, Settled
<1> QED
  BY <1>2, <1>3, StepFlows

LEMMA RejectOnce ==
    ASSUME IInv, IInv', AnsweredInv, NEW q \in Questions, Reject(q)
    PROVE  AnsweredInv' /\ Once!Next
<1>1. rv \in Rendezvous /\ TypeOK
  BY Facts
<1>2. Flows(rv, rv')
  BY <1>1, RendezvousShape, PurgeFlows DEF Reject
<1>3. /\ UNCHANGED <<asker, accepted, heir, stopped, terminal>>
      /\ \A p \in Questions : /\ gate[p] = "committed" => gate'[p] = "committed"
                              /\ gate'[p] \in {"inflight", "committed"} =>
                                   gate[p] \in {"inflight", "committed"}
  BY <1>1 DEF Reject, QuestionFrame, turnVars, TypeOK
<1> QED
  BY <1>2, <1>3, StepFlows

LEMMA GateAbortsOnce ==
    ASSUME IInv, IInv', AnsweredInv, NEW q \in Questions, GateAborts(q)
    PROVE  AnsweredInv' /\ Once!Next
<1> DEFINE t == asker[q]
           r == Register(rv, {q}, t, FALSE)
<1>1. rv \in Rendezvous /\ TypeOK /\ Shaped(rv)
  BY Facts, RendezvousShape
<1>2. Flows(rv, r)
  BY <1>1, RegisterFlows
<1>3. Shaped(r)
  BY <1>2 DEF Flows
<1> HIDE DEF r
<1>4. Flows(r, Merge(r))
  BY <1>3, MergeFlows
<1>5. Shaped(Merge(r))
  BY <1>4 DEF Flows
<1>6. Flows(Merge(r), DeadSuccessor(Merge(r), t))
  BY <1>5, DropForFlows
<1>7. Flows(rv, Merge(r))
  BY <1>2, <1>4, FlowsOn
<1>8. Flows(rv, DeadSuccessor(Merge(r), t))
  BY <1>6, <1>7, FlowsOn
<1>9. Flows(rv, rv) /\ Flows(rv, Recover(rv, {q}))
  BY <1>1, FlowsHere, RecoverFlows
<1>10. Flows(rv, rv')
  <2>1. rv' \in {rv, DeadSuccessor(Merge(r), t), Recover(rv, {q})}
    BY DEF GateAborts, r
  <2> QED
    BY <1>8, <1>9, <2>1
<1>11. /\ UNCHANGED <<asker, accepted, heir, stopped, terminal>>
       /\ \A p \in Questions : /\ gate[p] = "committed" => gate'[p] = "committed"
                               /\ gate'[p] \in {"inflight", "committed"} =>
                                    gate[p] \in {"inflight", "committed"}
  BY <1>1 DEF GateAborts, QuestionFrame, turnVars, TypeOK
<1> QED
  BY <1>10, <1>11, StepFlows

\* The steps that move what the rendezvous holds leave the gates alone.
LEMMA DeliveryStepOnce ==
    ASSUME IInv, IInv', AnsweredInv, Flows(rv, rv'), RendezvousFrame
    PROVE  AnsweredInv' /\ Once!Next
<1>1. UNCHANGED <<asker, gate, accepted, heir, stopped, terminal>>
  BY DEF RendezvousFrame, turnVars, questionVars
<1>2. \A q \in Questions : /\ gate[q] = "committed" => gate'[q] = "committed"
                           /\ gate'[q] \in {"inflight", "committed"} =>
                                gate[q] \in {"inflight", "committed"}
  BY <1>1
<1> QED
  BY <1>1, <1>2, StepFlows

LEMMA BlockedOnce ==
    ASSUME IInv, IInv', AnsweredInv, NEW q \in Questions, Blocked(q)
    PROVE  AnsweredInv' /\ Once!Next
<1> DEFINE d == [rv.delivery EXCEPT ![q] = None]
           e == [rv EXCEPT !.delivery = d]
<1>1. rv \in Rendezvous /\ Shaped(rv)
  BY Facts, RendezvousShape
<1>2. d = [p \in Questions |-> d[p]] /\ \A p \in Questions : d[p] # None => rv.delivery[p] # None
  BY <1>1 DEF Shaped
<1>3. rv' = Purge(e, q)
  BY <1>1 DEF Blocked
<1> HIDE DEF d
<1>4. /\ Shaped(e) /\ Given(e) = Given(rv) /\ e.delivery = d /\ e.stash = rv.stash
      /\ e.receiver = rv.receiver /\ e.strays = rv.strays
  BY <1>1, <1>2, EditAnswers
<1> HIDE DEF e
<1>5. Flows(rv, e)
  BY <1>2, <1>4 DEF Flows, Answers, Delivering
<1>6. Flows(e, rv')
  BY <1>3, <1>4, PurgeFlows
<1>7. Flows(rv, rv')
  BY <1>5, <1>6, FlowsOn
<1>8. RendezvousFrame
  BY DEF Blocked
<1> QED
  BY <1>7, <1>8, DeliveryStepOnce

LEMMA DeliveryFailsOnce ==
    ASSUME IInv, IInv', AnsweredInv, NEW q \in Questions, DeliveryFails(q)
    PROVE  AnsweredInv' /\ Once!Next
<1>1. Shaped(rv) /\ q \in Delivering(rv)
  BY Facts, RendezvousShape DEF DeliveryFails, Delivering
<1>2. Flows(rv, rv') /\ RendezvousFrame
  BY <1>1, FailFlows DEF DeliveryFails
<1> QED
  BY <1>2, DeliveryStepOnce

LEMMA RecoveredSettlesOnce ==
    ASSUME IInv, IInv', AnsweredInv, NEW q \in Questions, RecoveredSettles(q)
    PROVE  AnsweredInv' /\ Once!Next
<1> DEFINE p == rv.pending \ {q}
           e == [rv EXCEPT !.pending = p]
<1>1. Shaped(rv)
  BY Facts, RendezvousShape
<1>2. PICK w \in {rv.stash \ {q}, rv.stash} : rv' = [e EXCEPT !.stash = w]
  BY <1>1 DEF RecoveredSettles, Shaped, RvFields
<1> HIDE DEF p
<1>3. Flows(rv, e) /\ e.stash = rv.stash
  BY <1>1, EditFlows DEF Beside
<1>4. Shaped(e)
  BY <1>3 DEF Flows
<1> HIDE DEF e
<1>5. /\ Shaped(rv') /\ Given(rv') = Given(e) /\ rv'.stash = w /\ rv'.delivery = e.delivery
      /\ rv'.receiver = e.receiver /\ rv'.strays = e.strays
  BY <1>2, <1>4, EditAnswers
<1>6. Flows(e, rv')
  BY <1>2, <1>3, <1>5 DEF Flows, Answers, Delivering
<1>7. Flows(rv, rv')
  BY <1>3, <1>6, FlowsOn
<1>8. RendezvousFrame
  BY DEF RecoveredSettles
<1> QED
  BY <1>7, <1>8, DeliveryStepOnce

LEMMA TimerFiresOnce ==
    ASSUME IInv, IInv', AnsweredInv, TimerFires
    PROVE  AnsweredInv' /\ Once!Next
<1> DEFINE n == rv.timers - 1
           e == [rv EXCEPT !.timers = n]
<1>1. Shaped(rv)
  BY Facts, RendezvousShape
<1>2. rv' = Attempt(e)
  BY <1>1 DEF TimerFires
<1> HIDE DEF n
<1>3. Flows(rv, e)
  BY <1>1, EditFlows DEF Beside
<1>4. Shaped(e)
  BY <1>3 DEF Flows
<1> HIDE DEF e
<1>5. Flows(e, rv')
  BY <1>2, <1>4, AttemptFlows
<1>6. Flows(rv, rv')
  BY <1>3, <1>5, FlowsOn
<1>7. RendezvousFrame
  BY DEF TimerFires
<1> QED
  BY <1>6, <1>7, DeliveryStepOnce

LEMMA ExpireOnce ==
    ASSUME IInv, IInv', AnsweredInv, Expire
    PROVE  AnsweredInv' /\ Once!Next
<1>1. Shaped(rv)
  BY Facts, RendezvousShape
<1>2. ASSUME ExpireHandoff PROVE Flows(rv, rv')
  <2> DEFINE h == [rv.handoff EXCEPT !.expired = TRUE]
  <2>1. rv' = [rv EXCEPT !.handoff = h]
    BY <1>1, <1>2 DEF ExpireHandoff
  <2> HIDE DEF h
  <2> QED
    BY <1>1, <2>1, EditFlows DEF Beside
<1>3. ASSUME ExpireClaimant PROVE Flows(rv, rv')
  <2> DEFINE c == [rv.claimant EXCEPT !.expired = TRUE]
             mine(x) == x # None /\ x.token = rv.claimant.token
             d == [q \in Questions |-> IF mine(rv.delivery[q])
                                       THEN [rv.delivery[q] EXCEPT !.expired = TRUE]
                                       ELSE rv.delivery[q]]
             e == [rv EXCEPT !.claimant = c]
  <2>1. rv' = [e EXCEPT !.delivery = d]
    BY <1>1, <1>3 DEF ExpireClaimant, Shaped, RvFields
  <2>2. d = [q \in Questions |-> d[q]] /\ \A q \in Questions : d[q] # None => rv.delivery[q] # None
    OBVIOUS
  <2> HIDE DEF c, d
  <2>3. Flows(rv, e) /\ Given(e) = Given(rv) /\ e.stash = rv.stash
    BY <1>1, EditFlows DEF Beside
  <2>4. Shaped(e) /\ e.delivery = rv.delivery
    <3>1. Shaped(e)
      BY <2>3 DEF Flows
    <3> QED
      BY <1>1, <3>1 DEF Shaped, RvFields
  <2> HIDE DEF e
  <2>5. /\ Shaped(rv') /\ Given(rv') = Given(e) /\ rv'.stash = e.stash /\ rv'.delivery = d
        /\ rv'.receiver = e.receiver /\ rv'.strays = e.strays
    BY <2>1, <2>2, <2>4, EditAnswers
  <2>6. Flows(e, rv')
    BY <2>2, <2>4, <2>5 DEF Flows, Answers, Delivering
  <2> QED
    BY <2>3, <2>6, FlowsOn
<1>4. ASSUME NEW q \in Questions, ExpireTombstone(q) PROVE Flows(rv, rv')
  <2> DEFINE w == rv.tombstones \ {q}
  <2>1. rv' = [rv EXCEPT !.tombstones = w]
    BY <1>4 DEF ExpireTombstone
  <2> HIDE DEF w
  <2> QED
    BY <1>1, <2>1, EditFlows DEF Beside
<1>5. Flows(rv, rv') /\ RendezvousFrame
  BY <1>2, <1>3, <1>4 DEF Expire
<1> QED
  BY <1>5, DeliveryStepOnce

\* The answer is used by the turn that asked.
LEMMA CommitOnce ==
    ASSUME IInv, IInv', AnsweredInv, NEW q \in Questions, Commit(q)
    PROVE  AnsweredInv' /\ Once!Next
<1>1. /\ TypeOK /\ rv' = rv /\ gate[q] = "inflight"
      /\ UNCHANGED <<asker, accepted, heir, stopped, terminal>>
      /\ gate' = [gate EXCEPT ![q] = "committed"]
  BY Facts DEF Commit, QuestionFrame, turnVars
<1>2. \A p \in Questions : /\ gate[p] = "committed" => gate'[p] = "committed"
                           /\ gate'[p] \in {"inflight", "committed"} =>
                                gate[p] \in {"inflight", "committed"}
  BY <1>1 DEF TypeOK
<1>3. Answers(rv') \subseteq accepted /\ Given(rv) \subseteq Given(rv')
  BY <1>1 DEF AnsweredInv
<1> QED
  BY <1>1, <1>2, <1>3, StepUses

\* It is consumed by the turn that waits, and in the result at once if that turn has no
\* ledger.
LEMMA AnswerInTimeOnce ==
    ASSUME IInv, IInv', AnsweredInv, NEW q \in Questions, AnswerInTime(q)
    PROVE  AnsweredInv' /\ Once!Next
<1> DEFINE w == rv.stash \ {q}
<1>1. /\ TypeOK /\ QuestionInv /\ GateInv /\ Shaped(rv)
      /\ gate[q] = "waiting" /\ accepted' = accepted \cup {q}
      /\ rv' = [rv EXCEPT !.stash = w]
      /\ UNCHANGED <<asker, heir, stopped, terminal>>
      /\ gate'[q] \in {"inflight", "committed"}
      /\ \A p \in Questions : p # q => gate'[p] = gate[p]
  BY Facts, RendezvousShape DEF AnswerInTime, QuestionFrame, turnVars, TypeOK
<1> HIDE DEF w
<1>2. /\ Given(rv') = Given(rv) /\ rv'.stash = w /\ rv'.delivery = rv.delivery
      /\ rv'.receiver = rv.receiver /\ rv'.strays = rv.strays
  BY <1>1, EditAnswers
<1>3. AnsweredInv'
  BY <1>1, <1>2 DEF AnsweredInv, Answers, Delivering, Given, w
<1>4. UsedSet' = UsedSet \/ UsedSet' = UsedSet \cup {q}
  BY <1>1, <1>2 DEF UsedSet, Given
<1>5. q \notin UsedSet
  BY <1>1 DEF GateInv, Places, UsedSet
<1>6. Uses' = Uses \/ (Once!Unused({q}) /\ Uses' = Once!UsedNow({q}))
  <2>1. CASE UsedSet' = UsedSet
    BY <2>1, UsesStay
  <2>2. CASE UsedSet' = UsedSet \cup {q}
    BY <1>5, <2>2, UsedStep
  <2> QED
    BY <1>4, <2>1, <2>2
<1>7. asker[q] # 0
  BY <1>1 DEF QuestionInv
<1>8. Once!Answer(q)
  BY <1>1, <1>2, <1>6, <1>7 DEF Once!Answer
<1> QED
  BY <1>3, <1>8 DEF Once!Next

\* A late answer that a tombstone sends the durable way is used at once.
LEMMA AnswerLateOnce ==
    ASSUME IInv, IInv', AnsweredInv, NEW q \in Questions, AnswerLate(q)
    PROVE  AnsweredInv' /\ Once!Next
<1> DEFINE w == rv.stash \cup {q}
           e == [rv EXCEPT !.stash = w]
<1>1. /\ TypeOK /\ QuestionInv /\ GateInv /\ Shaped(rv) /\ OnePlace(rv)
      /\ gate[q] \in {"inflight", "committed", "closed"} /\ accepted' = accepted \cup {q}
      /\ UNCHANGED <<asker, gate, heir, stopped, terminal>>
  BY Facts, RendezvousShape DEF AnswerLate, QuestionFrame, turnVars, questionVars, Fit
<1>2. \/ rv' \in {Attempt(e), e}
      \/ q \in rv.tombstones /\ rv' = Recover(e, {q})
  BY DEF AnswerLate
<1> HIDE DEF w
<1>3. /\ Shaped(e) /\ Given(e) = Given(rv) /\ e.stash = w /\ e.delivery = rv.delivery
      /\ e.receiver = rv.receiver /\ e.strays = rv.strays
  BY <1>1, EditAnswers
<1>4. Answers(e) \subseteq Answers(rv) \cup {q}
  BY <1>3 DEF Answers, Delivering, w
<1> HIDE DEF e
<1>5. Flows(e, rv')
  BY <1>2, <1>3, AttemptFlows, RecoverFlows, FlowsHere
<1>6. Given(rv') = Given(rv) \/ (q \in rv.tombstones /\ Given(rv') \subseteq Given(rv) \cup {q})
  <2>1. Given(Attempt(e)) = Given(e)
    BY <1>3, AttemptFlows
  <2>2. Given(Recover(e, {q})) \subseteq Given(e) \cup {q}
    BY <1>3, RecoverFlows
  <2> QED
    BY <1>2, <1>3, <2>1, <2>2
<1>7. /\ Answers(rv') \subseteq accepted' /\ Given(rv) \subseteq Given(rv')
      /\ rv'.receiver = rv.receiver /\ rv'.strays = rv.strays
  BY <1>1, <1>3, <1>4, <1>5 DEF Flows, AnsweredInv
<1>8. AnsweredInv'
  BY <1>1, <1>7 DEF AnsweredInv, Answers, Delivering, Given
<1>9. UsedSet' = Given(rv') \cup {p \in Questions : gate[p] = "committed"}
  BY <1>1 DEF UsedSet, Given
<1>10. Uses' = Uses \/ (Once!Unused({q}) /\ Uses' = Once!UsedNow({q}))
  <2>1. CASE Given(rv') = Given(rv)
    BY <1>9, <2>1, UsesStay DEF UsedSet
  <2>2. CASE Given(rv') # Given(rv)
    <3>1. q \in rv.tombstones /\ Given(rv') = Given(rv) \cup {q}
      BY <1>6, <1>7, <2>2
    <3>2. q \notin Given(rv) /\ gate[q] = "closed"
      BY <1>1, <3>1 DEF OnePlace, GateInv, Places
    <3>3. UsedSet' \ UsedSet = {q} /\ UsedSet \subseteq UsedSet'
      BY <1>9, <3>1, <3>2 DEF UsedSet
    <3> QED
      BY <3>3, UsedStep
  <2> QED
    BY <2>1, <2>2
<1>11. asker[q] # 0
  BY <1>1 DEF QuestionInv
<1>12. Once!Answer(q)
  BY <1>1, <1>7, <1>10, <1>11 DEF Once!Answer
<1> QED
  BY <1>8, <1>12 DEF Once!Next

LEMMA AskOnce ==
    ASSUME IInv, IInv', AnsweredInv, NEW t \in Turns, NEW q \in Questions, Ask(t, q)
    PROVE  AnsweredInv' /\ Once!Next
<1>1. /\ TypeOK /\ asker[q] = 0 /\ asker' = [asker EXCEPT ![q] = t]
      /\ UNCHANGED <<rv, accepted, heir, stopped, terminal>>
      /\ gate' = [gate EXCEPT ![q] = "waiting"] /\ gate[q] = "unasked"
  BY Facts DEF Ask, QuestionFrame, turnVars, QuestionInv
<1>2. AnsweredInv'
  BY <1>1 DEF AnsweredInv, Answers, Delivering, Given, TypeOK
<1>3. UsedSet' = UsedSet
  BY <1>1 DEF UsedSet, Given, TypeOK
<1>4. Uses' = Uses
  BY <1>3, UsesStay
<1>5. Once!Ask(q)
  BY <1>1, <1>4 DEF Once!Ask
<1> QED
  BY <1>2, <1>5 DEF Once!Next

\* A claim moves answers; those that a claimant loses to an unrelated turn go astray.
LEMMA ClaimSiteOnce ==
    ASSUME IInv, IInv', AnsweredInv, NEW t \in Turns, ClaimSite(t)
    PROVE  AnsweredInv' /\ Once!Next
<1> DEFINE forced == \E p \in Turns : superseded[p] = t
<1>1. /\ Shaped(rv) /\ GateInv /\ Places(rv) \subseteq Questions
      /\ UNCHANGED <<asker, gate, accepted, heir, stopped, terminal>>
  BY Facts, RendezvousShape DEF ClaimSite, questionVars, history
<1>2. rv' \in {rv, Claim(rv, t, forced), Discard(rv)}
  BY DEF ClaimSite
<1> HIDE DEF forced
<1>3. CASE Flows(rv, rv')
  <2>1. \A q \in Questions : /\ gate[q] = "committed" => gate'[q] = "committed"
                             /\ gate'[q] \in {"inflight", "committed"} =>
                                  gate[q] \in {"inflight", "committed"}
    BY <1>1
  <2> QED
    BY <1>1, <1>3, <2>1, StepFlows
<1>4. CASE rv' = Claim(rv, t, forced)
  <2>1. /\ Answers(rv') \subseteq Answers(rv) /\ Given(rv') = Given(rv)
        /\ rv'.receiver = rv.receiver
        /\ rv'.strays = rv.strays \/ \E Q \in SUBSET ClaimantKeys(rv) : rv'.strays = rv.strays \cup Q
    BY <1>1, <1>4, ClaimFlows
  <2>2. PICK Q \in SUBSET ClaimantKeys(rv) : rv'.strays = rv.strays \cup Q
    <3>1. {} \in SUBSET ClaimantKeys(rv) /\ rv.strays \cup {} = rv.strays
      OBVIOUS
    <3> QED
      BY <2>1, <3>1
  <2>3. AnsweredInv'
    BY <1>1, <2>1 DEF AnsweredInv, Answers, Delivering, Given
  <2>4. UsedSet' = UsedSet
    BY <1>1, <2>1 DEF UsedSet, Given
  <2>5. Uses' = Uses
    BY <2>4, UsesStay
  <2>6. Q \subseteq Questions /\ Once!Unused(Q)
    <3>1. Q \subseteq Places(rv) /\ Q \cap Given(rv) = {}
      BY Facts DEF Places, Fit, OnePlace
    <3>2. \A q \in Q : q \in Questions /\ q \notin UsedSet
      BY <1>1, <3>1 DEF GateInv, UsedSet
    <3> QED
      BY <3>2, UsesAre DEF Once!Unused
  <2>7. Once!Stray(Q)
    BY <1>1, <2>1, <2>2, <2>5, <2>6 DEF Once!Stray
  <2> QED
    BY <2>3, <2>6, <2>7 DEF Once!Next
<1>5. Flows(rv, rv) /\ Flows(rv, Discard(rv))
  BY <1>1, FlowsHere, DiscardFlows
<1> QED
  BY <1>2, <1>3, <1>4, <1>5

\* What a turn consumed and did not commit goes the durable way when it ends.
LEMMA CleanupOnce ==
    ASSUME IInv, IInv', AnsweredInv, NEW t \in Turns, Cleanup(t)
    PROVE  AnsweredInv' /\ Once!Next
<1> DEFINE U == {q \in Questions : asker[q] = t /\ gate[q] = "inflight"}
           s == DropFor(rv, t)
           g == [q \in Questions |-> s.given[q] + (IF q \in U THEN 1 ELSE 0)]
<1>1. /\ TypeOK /\ Shaped(rv)
      /\ UNCHANGED <<asker, accepted, heir, stopped, terminal>>
      /\ gate' = [q \in Questions |-> IF q \in U THEN "closed" ELSE gate[q]]
  BY Facts, RendezvousShape DEF Cleanup, history
<1>2. \A q \in Questions : /\ gate[q] = "committed" => gate'[q] = "committed"
                           /\ gate'[q] \in {"inflight", "committed"} =>
                                gate[q] \in {"inflight", "committed"}
  BY <1>1
<1>3. Flows(rv, s)
  BY <1>1, DropForFlows
<1>4. Shaped(s)
  BY <1>3 DEF Flows
<1>5. rv' \in {s, [s EXCEPT !.given = g]}
  BY DEF Cleanup
<1>6. U \subseteq accepted
  BY DEF AnsweredInv
<1>7. /\ s.given \in [Questions -> Nat] /\ g \in [Questions -> Nat]
      /\ \A q \in Questions : g[q] # 0 <=> s.given[q] # 0 \/ q \in U
  <2>1. s.given \in [Questions -> Nat]
    BY <1>4 DEF Shaped
  <2> HIDE DEF s, U
  <2> QED
    BY <2>1
<1> HIDE DEF s, g, U
<1>8. /\ Answers(rv') \subseteq Answers(s) \cup U /\ Given(s) \subseteq Given(rv')
      /\ rv'.receiver = s.receiver /\ rv'.strays = s.strays
  <2>1. CASE rv' = [s EXCEPT !.given = g]
    <3>1. /\ rv'["given"] = g /\ \A f \in RvFields \ {"given"} : rv'[f] = s[f]
      BY <1>4, <2>1 DEF Shaped, RvFields
    <3>2. /\ rv'.given = g /\ rv'.stash = s.stash /\ rv'.delivery = s.delivery
          /\ rv'.receiver = s.receiver /\ rv'.strays = s.strays
      BY <3>1 DEF RvFields
    <3> QED
      BY <1>7, <3>2 DEF Answers, Delivering, Given
  <2> QED
    BY <1>5, <2>1
<1>9. /\ Answers(rv') \subseteq accepted /\ Given(rv) \subseteq Given(rv')
      /\ UNCHANGED <<rv.receiver, rv.strays>>
  BY <1>3, <1>6, <1>8 DEF Flows, AnsweredInv
<1> QED
  BY <1>1, <1>2, <1>9, StepUses

\* The answer is put into a turn that may have it.
LEMMA DeliveredOnce ==
    ASSUME IInv, IInv', AnsweredInv, NEW q \in Questions, Delivered(q)
    PROVE  AnsweredInv' /\ Once!Next
<1> DEFINE d == [rv.delivery EXCEPT ![q] = None]
           g == [rv.given EXCEPT ![q] = @ + 1]
           c == [rv.receiver EXCEPT ![q] = active]
<1>1. /\ TypeOK /\ GateInv /\ TurnInv /\ Fit(rv, Past, accepted) /\ rv \in Rendezvous
      /\ rv.delivery[q] # None /\ rv.delivery[q].token = active
      /\ UNCHANGED <<asker, gate, accepted, heir, stopped, terminal>>
      /\ rv' = [rv EXCEPT !.delivery = d, !.given = g, !.receiver = c]
  BY Facts DEF Delivered, RendezvousFrame, turnVars, questionVars, Rendezvous
<1>2. /\ q \in Delivering(rv) /\ q \in accepted /\ active \in Turns
      /\ q \notin Given(rv) /\ gate[q] = "closed"
  <2>1. q \in Delivering(rv)
    BY <1>1 DEF Delivering
  <2> QED
    BY <1>1, <2>1, RendezvousFields DEF AnsweredInv, Answers, Fit, OnePlace, GateInv, Places
<1>3. rv.given \in [Questions -> Nat] /\ g \in [Questions -> Nat]
      /\ \A p \in Questions : g[p] # 0 <=> rv.given[p] # 0 \/ p = q
  <2>1. rv.given \in [Questions -> Nat]
    BY <1>1, RendezvousFields
  <2> QED
    BY <2>1
<1>4. \A p \in Questions : d[p] # None => rv.delivery[p] # None
  <2>1. rv.delivery \in [Questions -> Delivery \cup {None}]
    BY <1>1, RendezvousFields
  <2> QED
    BY <2>1
<1> HIDE DEF d, g, c
<1>5. /\ rv'.given = g /\ rv'.receiver = c /\ rv'.delivery = d
      /\ rv'.stash = rv.stash /\ rv'.strays = rv.strays
  BY <1>1 DEF Rendezvous
<1>6. Given(rv') = Given(rv) \cup {q}
  BY <1>3, <1>5 DEF Given
<1>7. AnsweredInv'
  BY <1>1, <1>2, <1>4, <1>5, <1>6 DEF AnsweredInv, Answers, Delivering, Given
<1>8. Once!Unused({q}) /\ Uses' = Once!UsedNow({q})
  <2>1. UsedSet' = UsedSet \cup {q} /\ q \notin UsedSet
    BY <1>1, <1>2, <1>6 DEF UsedSet, Given
  <2> QED
    BY <2>1, UsedStep
<1>9. q \in rv.strays \/ (InheritsFrom(asker[q], active) /\ (q \in stopped => active \in terminal))
  BY <1>1, <1>2, DeliveredKeeps, <1>5 DEF Fit, Inherited, Halted
<1>10. InheritsFrom(asker[q], active) => Once!Inherits(asker[q], active)
  BY DEF InheritsFrom, Reaches, Once!Inherits
<1>11. Once!Deliver(q, active)
  BY <1>1, <1>2, <1>5, <1>8, <1>9, <1>10 DEF Once!Deliver, c
<1> QED
  BY <1>2, <1>7, <1>11 DEF Once!Next

\* A turn that starts takes over from the one it aborts and from those that restart.
LEMMA StartTurnOnce ==
    ASSUME IInv, IInv', AnsweredInv, StartTurn
    PROVE  AnsweredInv' /\ Once!Next
<1> DEFINE t == issued + 1
           h == [rv.handoff EXCEPT !.successor = t]
<1>1. /\ TypeOK /\ TurnInv /\ Shaped(rv)
      /\ UNCHANGED <<asker, accepted, stopped, terminal>>
      /\ heir' = [p \in Turns |-> IF p = active \/ p \in restarting THEN t ELSE heir[p]]
      /\ rv' \in {rv, [rv EXCEPT !.handoff = h]}
      /\ issued < MaxTurns
      /\ gate' = IF active = 0 THEN gate ELSE Settled(active)
  BY Facts, RendezvousShape DEF StartTurn
<1>2. t \in Turns /\ \A p \in Turns : heir[p] # 0 => p # active /\ p \notin restarting
  <2>1. /\ issued \in TurnOrNone /\ active \in {0, issued} /\ restarting \subseteq {issued}
        /\ \A p \in Turns : heir[p] # 0 => p < issued
    BY <1>1 DEF TurnInv
  <2>2. \A p \in Turns : p < issued => p # active /\ p \notin restarting
    BY <2>1, BoundsAssumption DEF Turns, TurnOrNone
  <2>3. t \in Turns
    BY <1>1, <2>1, BoundsAssumption DEF Turns, TurnOrNone
  <2> QED
    BY <2>1, <2>2, <2>3
<1> HIDE DEF t, h
<1>3. Flows(rv, rv') /\ Given(rv') = Given(rv)
  BY <1>1, FlowsHere, EditFlows DEF Beside
<1>4. \A q \in Questions : /\ gate[q] = "committed" <=> gate'[q] = "committed"
                           /\ gate'[q] \in {"inflight", "committed"} =>
                                gate[q] \in {"inflight", "committed"}
  BY <1>1 DEF Settled
<1>5. AnsweredInv'
  BY <1>1, <1>3, <1>4 DEF AnsweredInv, Flows, Answers, Delivering, Given
<1>6. Uses' = Uses
  <2>1. UsedSet' = UsedSet
    BY <1>3, <1>4 DEF UsedSet, Given
  <2> QED
    BY <2>1, UsesStay
<1>7. /\ heir' \in [Turns -> Turns \cup {0}]
      /\ \A p \in Turns : heir[p] # 0 => heir'[p] = heir[p]
  <2>1. heir \in [Turns -> TurnOrNone]
    BY <1>1 DEF TypeOK
  <2>2. TurnOrNone \subseteq Turns \cup {0}
    BY BoundsAssumption DEF Turns, TurnOrNone
  <2>3. \A p \in Turns : heir'[p] \in Turns \cup {0}
    BY <1>1, <1>2, <2>1, <2>2
  <2>4. heir' = [p \in Turns |-> heir'[p]]
    BY <1>1
  <2> QED
    BY <1>1, <1>2, <2>3, <2>4
<1>8. Once!TakeOver
  BY <1>1, <1>3, <1>6, <1>7 DEF Once!TakeOver, Flows
<1> QED
  BY <1>5, <1>8 DEF Once!Next

\* A Stop and the dismissal of a plan use nothing, and end what was not used.
LEMMA HaltOnce ==
    ASSUME IInv, IInv', AnsweredInv, rv' = Bumped(rv), Ends, UNCHANGED asker,
           terminal' = terminal \/ \E t \in Turns : terminal' = terminal \cup {t},
           \A q \in Questions :
             \/ gate[q] # "waiting" /\ gate'[q] = gate[q]
             \/ gate[q] = "waiting" /\ gate'[q] = "settled"
             \/ gate[q] = "inflight" /\ gate'[q] = "closed"
    PROVE  AnsweredInv' /\ Once!Next
<1>1. /\ TypeOK /\ QuestionInv /\ Shaped(rv)
      /\ stopped' = stopped \cup {q \in Questions : asker[q] # 0 /\ gate[q] # "committed"}
      /\ UNCHANGED <<accepted, heir>>
  BY Facts, RendezvousShape DEF Ends
<1>2. Flows(rv, rv') /\ Given(rv') = Given(rv)
  BY <1>1, BumpedFlows
<1>3. \A q \in Questions : /\ gate[q] = "committed" <=> gate'[q] = "committed"
                           /\ gate'[q] \in {"inflight", "committed"} =>
                                gate[q] \in {"inflight", "committed"}
  OBVIOUS
<1>4. AnsweredInv'
  BY <1>1, <1>2, <1>3 DEF AnsweredInv, Flows, Answers, Delivering, Given
<1>5. Uses' = Uses
  <2>1. UsedSet' = UsedSet
    BY <1>2, <1>3 DEF UsedSet, Given
  <2> QED
    BY <2>1, UsesStay
<1>6. \A q \in Questions : Uses[q] = 0 => gate[q] # "committed"
  BY UsesAre DEF UsedSet
<1>7. stopped \subseteq {q \in Questions : asker[q] # 0}
  BY <1>1 DEF TypeOK, QuestionInv
<1>8. Once!Stop
  BY <1>1, <1>2, <1>5, <1>6, <1>7 DEF Once!Stop, Flows
<1> QED
  BY <1>4, <1>8 DEF Once!Next

LEMMA PlanDismissOnce ==
    ASSUME IInv, IInv', AnsweredInv, NEW t \in Turns, PlanDismiss(t)
    PROVE  AnsweredInv' /\ Once!Next
<1>1. \A q \in Questions :
        \/ gate[q] # "waiting" /\ gate'[q] = gate[q]
        \/ gate[q] = "waiting" /\ gate'[q] = "settled"
        \/ gate[q] = "inflight" /\ gate'[q] = "closed"
  BY Facts DEF PlanDismiss, Settled, QuestionInv
<1>2. /\ rv' = Bumped(rv) /\ Ends /\ UNCHANGED asker
      /\ \E u \in Turns : terminal' = terminal \cup {u}
  BY DEF PlanDismiss
<1> QED
  BY <1>1, <1>2, HaltOnce

LEMMA StopOnce ==
    ASSUME IInv, IInv', AnsweredInv, Stop
    PROVE  AnsweredInv' /\ Once!Next
<1>1. \A q \in Questions :
        \/ gate[q] # "waiting" /\ gate'[q] = gate[q]
        \/ gate[q] = "waiting" /\ gate'[q] = "settled"
        \/ gate[q] = "inflight" /\ gate'[q] = "closed"
  BY Facts DEF Stop, Settled, QuestionInv
<1>2. /\ rv' = Bumped(rv) /\ Ends /\ UNCHANGED asker
      /\ terminal' = terminal \/ \E u \in Turns : terminal' = terminal \cup {u}
  BY Facts DEF Stop, TypeOK, Turns, TurnOrNone
<1> QED
  BY <1>1, <1>2, HaltOnce

LEMMA NextOnce ==
    ASSUME IInv, IInv', AnsweredInv, Next
    PROVE  AnsweredInv' /\ Once!Next
<1>1. ASSUME NEW t \in Turns, TurnStep(t)
      PROVE  AnsweredInv' /\ Once!Next
  BY <1>1, ClaimSiteOnce, PlanRestartOnce, PlanDismissOnce, CleanupOnce DEF TurnStep
<1>2. ASSUME NEW q \in Questions, QuestionStep(q)
      PROVE  AnsweredInv' /\ Once!Next
  BY <1>2, AnswerInTimeOnce, AnswerLateOnce, RejectOnce, CommitOnce, GateAbortsOnce, DeliveredOnce,
     BlockedOnce, DeliveryFailsOnce, RecoveredSettlesOnce DEF QuestionStep
<1> QED
  BY <1>1, <1>2, StartTurnOnce, StopOnce, TimerFiresOnce, ExpireOnce, AskOnce DEF Next

\* The rendezvous implements AnswerOnce: whatever of its steps races with whichever
\* other, what becomes of an answer is one of the steps there.
THEOREM AnswersAreUsedOnce == Spec => ImplementsAnswerOnce
<1>1. Init => Once!Init /\ AnsweredInv
  <2> SUFFICES ASSUME Init PROVE Once!Init /\ AnsweredInv
    OBVIOUS
  <2>1. /\ rv.stash = {} /\ rv.strays = {}
        /\ rv.given = [q \in Questions |-> 0] /\ rv.receiver = [q \in Questions |-> 0]
        /\ \A q \in Questions : rv.delivery[q] = None
        /\ \A q \in Questions : gate[q] = "unasked"
    BY DEF Init
  <2>2. Uses = [q \in Questions |-> 0]
    BY <2>1 DEF Uses
  <2>3. AnsweredInv
    BY <2>1 DEF AnsweredInv, Answers, Delivering, Given
  <2> QED
    BY <2>1, <2>2, <2>3 DEF Init, Once!Init
<1>2. IInv /\ [Next]_vars => IInv'
  BY StepHolds
<1>3. IInv /\ IInv' /\ AnsweredInv /\ [Next]_vars => AnsweredInv' /\ [Once!Next]_Once!vars
  <2>1. ASSUME UNCHANGED vars, AnsweredInv
        PROVE  AnsweredInv' /\ UNCHANGED Once!vars
    <3>1. UNCHANGED <<asker, gate, rv, accepted, heir, stopped, terminal>>
      BY <2>1 DEF vars, turnVars, questionVars, history
    <3>2. Uses' = Uses
      BY <3>1 DEF Uses
    <3>3. UNCHANGED Once!vars
      BY <3>1, <3>2 DEF Once!vars
    <3>4. AnsweredInv'
      BY <2>1, <3>1 DEF AnsweredInv, Answers, Delivering, Given
    <3> QED
      BY <3>3, <3>4
  <2> QED
    BY <2>1, NextOnce
<1> QED
  BY InitHolds, <1>1, <1>2, <1>3, PTL DEF Spec, ImplementsAnswerOnce, Once!Spec
=============================================================================
