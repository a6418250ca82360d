----------------------------- MODULE AnswerOnce -----------------------------
(***************************************************************************)
(* What becomes of the answers to ask_user, without gates, handoffs,       *)
(* claimants, deliveries, tombstones and TTLs: an answer that was accepted *)
(* is used at most once, by the turn that asked, by one that took over     *)
(* from it, or by the conversation, and after a Stop by no other turn than *)
(* the one that was stopped.                                               *)
(*                                                                         *)
(* RacedAnswers implements it: the races between a turn that ends, those   *)
(* that take over from it, the surfaces that answer, the policy that is    *)
(* asked about a delivery and its retries come down to these steps.        *)
(***************************************************************************)
EXTENDS Integers

CONSTANTS
    Questions,
    Turns         \* numbers from 1; 0 stands for "none"

VARIABLES
    asker,        \* the turn that asked, or 0
    accepted,     \* questions an answer was accepted to
    uses,         \* how often the answer was used
    receiver,     \* the turn it was delivered to, or 0
    heir,         \* the turn that took over from each, or 0
    stopped,      \* questions a Stop put an end to
    unwinding,    \* turns a Stop put an end to
    astray        \* questions that an unrelated turn took over

vars == <<asker, accepted, uses, receiver, heir, stopped, unwinding, astray>>

Init ==
    /\ asker = [q \in Questions |-> 0] /\ accepted = {}
    /\ uses = [q \in Questions |-> 0] /\ receiver = [q \in Questions |-> 0]
    /\ heir = [t \in Turns |-> 0]
    /\ stopped = {} /\ unwinding = {} /\ astray = {}

\* t is p, or took over from it, directly or through others: it is in every set of turns
\* that has p and, with each turn, the one that took over from it.
Inherits(p, t) ==
    \A S \in SUBSET Turns :
        p \in S /\ (\A u \in S : heir[u] # 0 => heir[u] \in S) => t \in S

Unused(Q) == \A q \in Q : uses[q] = 0
UsedNow(Q) == [q \in Questions |-> IF q \in Q THEN 1 ELSE uses[q]]

Ask(q) ==
    /\ asker[q] = 0
    /\ \E t \in Turns : asker' = [asker EXCEPT ![q] = t]
    /\ UNCHANGED <<accepted, uses, receiver, stopped, unwinding, astray, heir>>

\* An answer, from any surface and however often; it may be used on the spot.
Answer(q) ==
    /\ asker[q] # 0
    /\ accepted' = accepted \cup {q}
    /\ uses' = uses \/ (Unused({q}) /\ uses' = UsedNow({q}))
    /\ UNCHANGED <<asker, receiver, stopped, unwinding, astray, heir>>

\* By the turn that asked, in the result of the tool, or by the conversation, as a
\* labelled message or an alert.
Use(Q) ==
    /\ Q \subseteq accepted /\ Unused(Q)
    /\ uses' = UsedNow(Q)
    /\ UNCHANGED <<asker, accepted, receiver, stopped, unwinding, astray, heir>>

\* By a turn that may have it, as a message that is queued in it.
Deliver(q, t) ==
    /\ q \in accepted /\ Unused({q})
    /\ q \in astray \/ (Inherits(asker[q], t) /\ (q \in stopped => t \in unwinding))
    /\ uses' = UsedNow({q}) /\ receiver' = [receiver EXCEPT ![q] = t]
    /\ UNCHANGED <<asker, accepted, stopped, unwinding, astray, heir>>

\* A turn takes over from others, for good.
TakeOver ==
    /\ heir' \in [Turns -> Turns \cup {0}]
    /\ \A t \in Turns : heir[t] # 0 => heir'[t] = heir[t]
    /\ UNCHANGED <<asker, accepted, uses, receiver, stopped, unwinding, astray>>

\* A Stop, of the turn at work if there is one, or the dismissal of a plan: for what was
\* asked before.
Stop ==
    /\ unwinding' = unwinding \/ \E t \in Turns : unwinding' = unwinding \cup {t}
    /\ stopped \cup {q \in Questions : asker[q] # 0 /\ uses[q] = 0} \subseteq stopped'
    /\ stopped' \subseteq {q \in Questions : asker[q] # 0}
    /\ UNCHANGED <<asker, accepted, uses, receiver, astray, heir>>

\* A turn takes over questions of one that it did not take over from.
Stray(Q) ==
    /\ Unused(Q) /\ astray' = astray \cup Q
    /\ UNCHANGED <<asker, accepted, uses, receiver, stopped, unwinding, heir>>

Next ==
    \/ \E Q \in SUBSET Questions : Use(Q) \/ Stray(Q)
    \/ \E q \in Questions : Ask(q) \/ Answer(q) \/ \E t \in Turns : Deliver(q, t)
    \/ TakeOver \/ Stop

Spec == Init /\ [][Next]_vars
=============================================================================
