------------------------ MODULE PluginCallbacksProofs ------------------------
(***************************************************************************)
(* Proofs about PluginCallbacks, for both runtimes and any number of       *)
(* hand-overs, of ordered calls and of barriers under way.                 *)
(***************************************************************************)
EXTENDS PluginCallbacks, FiniteSetTheorems, SequenceTheorems, TLAPS

Carrying == {"invoke", "ordered", "event"}
Orders == {"ordered", "unregister"}

\* How many of the first k messages of s are of one of the given types.
Count(s, types, k) == Cardinality({j \in 1..k : s[j].type \in types})

-----------------------------------------------------------------------------
(* The inductive invariant                                                 *)

TypeInv ==
    /\ functions \subseteq Ids /\ unadopted \subseteq functions
    /\ carried \subseteq unadopted
    /\ functionSequence \in NumberOrNone /\ watermark \in 0..functionSequence
    /\ orderedCompleted \in Nat /\ orderedSequence \in 0..MaxOrdered
    /\ toHost \in Seq(ToHostMessages) /\ toUtility \in Seq(ToUtilityMessages)
    /\ unread \in Seq(Requests)
    /\ waiting \subseteq Requests /\ handling \subseteq Requests
    /\ syncing \subseteq Requests /\ \A q, r \in syncing : q = r
    /\ reply \subseteq Replies /\ \A a, b \in reply : a = b
    /\ reply # {} => syncing # {}
    /\ serving \subseteq Ids /\ stubs \subseteq Ids /\ liveStreams \subseteq Ids
    /\ providers \subseteq Numbers /\ refused \subseteq Numbers
    /\ installed \in NumberOrNone /\ polled \in NumberOrNone /\ idle \in NumberOrNone
    /\ draining \in Nat /\ pings \in Nat
    /\ runtime \in Runtimes /\ begun \in BOOLEAN /\ resolved \in BOOLEAN
    /\ OneAtATime => ~begun /\ ~resolved

\* Every ordered call is done, begun or on its way, and every barrier has its
\* ping or its pong on its way.
Begun == IF begun THEN 1 ELSE 0
CountInv ==
    /\ orderedSequence = orderedCompleted + Begun + Count(toHost, Orders, Len(toHost))
    /\ pings = Count(toUtility, {"ping"}, Len(toUtility))
                 + Count(toHost, {"pong"}, Len(toHost))
    /\ draining + pings <= MaxBarriers[runtime]

\* The requests the host has not answered.
Pending == In(unread) \cup waiting \cup handling

\* Ids on their way to the host; numbers of callbacks it has decoded, of providers.
WireIds == {m.id : m \in {m \in In(toHost) : m.type \in Carrying}}
OnWire == {i[1] : i \in WireIds}
Asked == {r.n : r \in In(unread) \cup waiting}

\* Ids the utility will hear were adopted; or whose call it will hear is over.
AdoptedIds == {m.id : m \in {m \in In(toUtility) : m.type = "adopted"}}
ResultIds == {m.id : m \in {m \in In(toUtility) : m.type = "result"}}

CallbackNumbers ==
    {i[1] : i \in stubs \cup serving \cup AdoptedIds \cup ResultIds} \cup {r.n : r \in handling}
ProviderNumbers ==
    ((providers \cup refused \cup {polled, idle}) \ {0}) \cup {i[1] : i \in liveStreams}
ReleasedNumbers == {i[1] : i \in Released}
RequestNumbers == {r.n : r \in Pending \cup syncing}

\* No number is given out twice.
NumbersInv ==
    \A n \in {i[1] : i \in functions} \cup OnWire \cup RequestNumbers \cup CallbackNumbers
               \cup ProviderNumbers \cup ReleasedNumbers :
        n <= functionSequence

\* No two messages carry the same number, and no two requests.
DistinctInv ==
    /\ \A j, k \in DOMAIN toHost :
         /\ j # k /\ toHost[j].type \in Carrying /\ toHost[k].type \in Carrying
         => toHost[j].id[1] # toHost[k].id[1]
    /\ \A j, k \in DOMAIN unread : j # k => unread[j].n # unread[k].n
    /\ \A q, r \in Pending \cup syncing : q.n = r.n => q = r
    /\ In(unread) \cap (waiting \cup handling) = {} /\ waiting \cap handling = {}

\* A number stands for one callback, or for one provider, at one stage of its life.
StagesInv ==
    /\ OnWire \cap RequestNumbers = {}
    /\ (OnWire \cup Asked) \cap (CallbackNumbers \cup ProviderNumbers) = {}
    /\ CallbackNumbers \cap ProviderNumbers = {}
    /\ \A r \in handling : r.kind = "callback"
    /\ providers \cap refused = {} /\ idle \notin providers

\* What the poll asks, and what the host still has of a provider.
PollInv ==
    /\ polled \in providers \cup refused \cup {idle, 0}
    /\ polled \in providers => installed = polled
    /\ \A p \in providers : Stream(p) \in liveStreams

\* The host owns, or has released, what the utility will hear that it adopted.
OwnersInv ==
    /\ functions \ unadopted \subseteq Owned \cup Released
    /\ AdoptedIds \cap functions \subseteq stubs \cup Released
    /\ \A r \in handling : IdsOf(r) \cap functions \subseteq stubs \cup Released
    /\ \A i \in functions : i[1] \in Asked \cup refused \cup {idle} => i \in unadopted
    /\ \A r \in syncing, a \in reply :
         /\ r \notin Pending
         /\ a.adopted = IdsOf(r)
         /\ r.kind = "callback" => a.ok
         /\ a.ok => /\ IdsOf(r) \cap functions \subseteq Owned \cup Released
                    /\ r.n \notin refused \cup {idle}

InReach == Callable \cup UnderWay

\* The utility hears of an adoption before it hears that the call is over.
ResultsInv ==
    \A k \in DOMAIN toUtility :
        toUtility[k].type = "result" =>
            \/ toUtility[k].id \notin stubs \cap unadopted
            \/ \E j \in 1..k-1 : toUtility[j] = Adopted(toUtility[k].id)

\* Nothing that was sent will free what the host may still reach.
SettledInv ==
    /\ InReach \subseteq functions \ Released
    /\ ResultsInv
    /\ \A i \in serving : i \in stubs \cap unadopted => i \in AdoptedIds
    /\ \A r \in syncing, a \in reply : ~a.ok => IdsOf(r) \cap InReach = {}

\* The last pong follows what was handed over before its ping was heard, and
\* the ordered calls that the requests of that time wait for.
PongInv ==
    \A k \in DOMAIN toHost :
        toHost[k].type = "pong" /\ (\A j \in k+1..Len(toHost) : toHost[j].type # "pong") =>
            /\ \A j \in k+1..Len(toHost) :
                 toHost[j].type \in Carrying => toHost[j].id[1] > watermark
            /\ \A r \in waiting :
                 r.n <= watermark => r.after <= orderedCompleted + Count(toHost, Orders, k)

\* No sweep of this kind frees what the host may reach.
Spared(held) ==
    /\ \A m \in In(toHost) : m.type # "pong"
    /\ \A i \in UnderWay : i[1] > watermark
    /\ \A i \in Callable : i[1] <= watermark => i \in held

ReconInv ==
    \A k \in DOMAIN toUtility :
        toUtility[k].type = "reconcile" =>
            /\ \A j \in 1..k-1 : toUtility[j].type # "ping"
            /\ Spared(toUtility[k].held)

\* A request on its way is one the utility waits for, and young.
SweepInv ==
    /\ In(unread) \subseteq syncing
    /\ \A r \in In(unread) : r.n > watermark
    /\ \A r \in Pending : r.after <= orderedSequence
    /\ PongInv
    /\ ReconInv

-----------------------------------------------------------------------------
(* Values                                                                  *)

LEMMA IdFacts ==
    /\ \A n : Fn(n)[1] = n /\ Stream(n)[1] = n
    /\ \A n, k : Fn(n) # Stream(k) /\ (Fn(n) = Fn(k) => n = k) /\ (Stream(n) = Stream(k) => n = k)
    /\ \A n : Both(n) = {Fn(n), Stream(n)}
    /\ \A n \in Numbers : Fn(n) \in Ids /\ Stream(n) \in Ids
    /\ \A i \in Ids : i[1] \in Numbers /\ (i = Fn(i[1]) \/ i = Stream(i[1]))
  BY DEF Fn, Stream, Both, Ids

LEMMA ToHostKinds ==
    ASSUME NEW m \in ToHostMessages
    PROVE  \/ m.type \in Carrying /\ m.id \in Ids /\ m \notin {Unregister, Pong}
           \/ m.type = "unregister" /\ m = Unregister
           \/ m.type = "pong" /\ m = Pong
<1>1. CASE m \in [type : {"invoke", "ordered", "event"}, id : Ids]
  <2>1. m.type \in Carrying /\ m.id \in Ids
    BY <1>1 DEF Carrying
  <2>2. m # Unregister /\ m # Pong
    BY <2>1 DEF Carrying, Unregister, Pong
  <2> QED
    BY <2>1, <2>2
<1>2. CASE m = Unregister
  BY <1>2 DEF Unregister
<1>3. CASE m = Pong
  BY <1>3 DEF Pong
<1> QED
  BY <1>1, <1>2, <1>3 DEF ToHostMessages

LEMMA ToHostValues ==
    /\ \A t \in Carrying, i \in Ids : [type |-> t, id |-> i] \in ToHostMessages
    /\ Unregister \in ToHostMessages /\ Pong \in ToHostMessages
    /\ Unregister.type = "unregister" /\ Pong.type = "pong"
  BY DEF ToHostMessages, Carrying, Unregister, Pong

LEMMA ToUtilityKinds ==
    ASSUME NEW m \in ToUtilityMessages
    PROVE  \/ m.type \in {"adopted", "result", "release"} /\ m.id \in Ids
           \/ m.type = "ping" /\ m = Ping
           \/ m.type = "reconcile" /\ m.held \in SUBSET Ids
  BY DEF ToUtilityMessages, Ping

LEMMA ToUtilityValues ==
    /\ \A i \in Ids : /\ Adopted(i) \in ToUtilityMessages
                      /\ Result(i) \in ToUtilityMessages
                      /\ Release(i) \in ToUtilityMessages
    /\ Ping \in ToUtilityMessages
    /\ \A h \in SUBSET Ids : [type |-> "reconcile", held |-> h] \in ToUtilityMessages
    /\ \A i : /\ Adopted(i).type = "adopted" /\ Adopted(i).id = i
              /\ Result(i).type = "result" /\ Result(i).id = i
              /\ Release(i).type = "release" /\ Release(i).id = i
    /\ Ping.type = "ping"
  BY DEF ToUtilityMessages, Adopted, Result, Release, Ping

-----------------------------------------------------------------------------
(* Channels                                                                *)

LEMMA AppendToChannel ==
    ASSUME NEW S, NEW s \in Seq(S), NEW m \in S
    PROVE  /\ Append(s, m) \in Seq(S)
           /\ Len(s) \in Nat /\ Len(Append(s, m)) = Len(s) + 1
           /\ DOMAIN s = 1..Len(s) /\ DOMAIN Append(s, m) = 1..Len(s) + 1
           /\ \A k \in 1..Len(s) : Append(s, m)[k] = s[k]
           /\ Append(s, m)[Len(s) + 1] = m
           /\ In(Append(s, m)) = In(s) \cup {m}
<1>1. /\ Append(s, m) \in Seq(S)
      /\ Len(s) \in Nat /\ Len(Append(s, m)) = Len(s) + 1
      /\ DOMAIN s = 1..Len(s) /\ DOMAIN Append(s, m) = 1..Len(s) + 1
      /\ \A k \in 1..Len(s) : Append(s, m)[k] = s[k]
      /\ Append(s, m)[Len(s) + 1] = m
  BY AppendProperties, LenProperties
<1>2. In(Append(s, m)) = In(s) \cup {m}
  <2>1. 1..Len(s) + 1 = 1..Len(s) \cup {Len(s) + 1}
    BY <1>1
  <2> QED
    BY <1>1, <2>1 DEF In
<1> QED
  BY <1>1, <1>2

LEMMA TakeFromChannel ==
    ASSUME NEW S, NEW s \in Seq(S), s # <<>>
    PROVE  /\ Tail(s) \in Seq(S) /\ Head(s) \in S /\ Head(s) = s[1]
           /\ Len(s) \in Nat \ {0} /\ Len(Tail(s)) = Len(s) - 1
           /\ DOMAIN s = 1..Len(s) /\ DOMAIN Tail(s) = 1..Len(s) - 1
           /\ \A k \in 1..Len(s) - 1 : Tail(s)[k] = s[k + 1]
           /\ In(s) = In(Tail(s)) \cup {Head(s)}
<1>1. /\ Tail(s) \in Seq(S) /\ Head(s) \in S
      /\ Len(s) \in Nat \ {0} /\ Len(Tail(s)) = Len(s) - 1
      /\ DOMAIN s = 1..Len(s) /\ DOMAIN Tail(s) = 1..Len(s) - 1
      /\ \A k \in 1..Len(s) - 1 : Tail(s)[k] = s[k + 1]
  BY HeadTailProperties, LenProperties, EmptySeq
<1>2. Head(s) = s[1]
  OBVIOUS
<1>3. \A k \in 1..Len(s) : k = 1 \/ (k - 1 \in 1..Len(s) - 1 /\ s[k] = Tail(s)[k - 1])
  BY <1>1
<1>4. In(s) \subseteq In(Tail(s)) \cup {Head(s)}
  <2> SUFFICES ASSUME NEW k \in 1..Len(s)
               PROVE  s[k] \in In(Tail(s)) \cup {Head(s)}
    BY <1>1 DEF In
  <2> QED
    BY <1>1, <1>2, <1>3 DEF In
<1>5. In(Tail(s)) \cup {Head(s)} \subseteq In(s)
  <2>1. \A k \in 1..Len(s) - 1 : k + 1 \in 1..Len(s)
    BY <1>1
  <2>2. 1 \in 1..Len(s)
    BY <1>1
  <2> QED
    BY <1>1, <1>2, <2>1, <2>2 DEF In
<1> QED
  BY <1>1, <1>2, <1>4, <1>5

LEMMA PostToChannel ==
    ASSUME NEW S, NEW s \in Seq(S), NEW t \in Seq(S)
    PROVE  /\ s \o t \in Seq(S)
           /\ Len(s) \in Nat /\ Len(t) \in Nat /\ Len(s \o t) = Len(s) + Len(t)
           /\ DOMAIN s = 1..Len(s) /\ DOMAIN t = 1..Len(t)
           /\ DOMAIN (s \o t) = 1..Len(s) + Len(t)
           /\ \A k \in 1..Len(s) : (s \o t)[k] = s[k]
           /\ \A k \in 1..Len(t) : (s \o t)[Len(s) + k] = t[k]
           /\ \A k \in 1..Len(s) + Len(t) :
                k \in 1..Len(s) \/ \E j \in 1..Len(t) : k = Len(s) + j
           /\ In(s \o t) = In(s) \cup In(t)
<1>1. /\ s \o t \in Seq(S)
      /\ Len(s) \in Nat /\ Len(t) \in Nat /\ Len(s \o t) = Len(s) + Len(t)
      /\ DOMAIN s = 1..Len(s) /\ DOMAIN t = 1..Len(t)
      /\ DOMAIN (s \o t) = 1..Len(s) + Len(t)
      /\ \A k \in 1..Len(s) + Len(t) :
           (s \o t)[k] = IF k <= Len(s) THEN s[k] ELSE t[k - Len(s)]
  BY ConcatProperties, LenProperties
<1>2. /\ \A k \in 1..Len(s) : (s \o t)[k] = s[k]
      /\ \A k \in 1..Len(t) : (s \o t)[Len(s) + k] = t[k]
  BY <1>1
<1>3. \A k \in 1..Len(s) + Len(t) :
        k \in 1..Len(s) \/ \E j \in 1..Len(t) : k = Len(s) + j
  <2> SUFFICES ASSUME NEW k \in 1..Len(s) + Len(t), k \notin 1..Len(s)
               PROVE  \E j \in 1..Len(t) : k = Len(s) + j
    OBVIOUS
  <2>1. k - Len(s) \in 1..Len(t) /\ k = Len(s) + (k - Len(s))
    BY <1>1
  <2> QED
    BY <2>1
<1>4. \A k \in 1..Len(t) : Len(s) + k \in 1..Len(s) + Len(t)
  BY <1>1
<1>5. \A k \in 1..Len(s) : k \in 1..Len(s) + Len(t)
  BY <1>1
<1>6. In(s \o t) = In(s) \cup In(t)
  <2>1. In(s \o t) \subseteq In(s) \cup In(t)
    <3> SUFFICES ASSUME NEW k \in 1..Len(s) + Len(t)
                 PROVE  (s \o t)[k] \in In(s) \cup In(t)
      BY <1>1 DEF In
    <3>1. CASE k \in 1..Len(s)
      BY <1>1, <1>2, <3>1 DEF In
    <3>2. CASE k \notin 1..Len(s)
      <4>1. PICK j \in 1..Len(t) : k = Len(s) + j
        BY <1>3, <3>2
      <4>2. (s \o t)[k] = t[j]
        BY <1>1, <1>2, <4>1
      <4> QED
        BY <1>1, <4>2 DEF In
    <3> QED
      BY <3>1, <3>2
  <2>2. In(s) \cup In(t) \subseteq In(s \o t)
    BY <1>1, <1>2, <1>4, <1>5 DEF In
  <2> QED
    BY <2>1, <2>2
<1> QED
  BY <1>1, <1>2, <1>3, <1>6

LEMMA RemoveFromChannel ==
    ASSUME NEW S, NEW s \in Seq(S), NEW k \in DOMAIN s
    PROVE  /\ RemoveAt(s, k) \in Seq(S) /\ s[k] \in S /\ s # <<>>
           /\ Len(s) \in Nat \ {0} /\ Len(RemoveAt(s, k)) = Len(s) - 1
           /\ DOMAIN s = 1..Len(s) /\ DOMAIN RemoveAt(s, k) = 1..Len(s) - 1
           /\ \A j \in 1..Len(s) - 1 : RemoveAt(s, k)[j] = IF j < k THEN s[j] ELSE s[j + 1]
           /\ In(s) = In(RemoveAt(s, k)) \cup {s[k]}
           /\ k = 1 => RemoveAt(s, k) = Tail(s) /\ s[k] = Head(s)
<1> DEFINE left == SubSeq(s, 1, k - 1)
           right == SubSeq(s, k + 1, Len(s))
           w == RemoveAt(s, k)
<1>1. Len(s) \in Nat /\ DOMAIN s = 1..Len(s) /\ k \in 1..Len(s) /\ s[k] \in S /\ s # <<>>
  BY LenProperties, EmptySeq
<1>2. /\ left \in Seq(S) /\ Len(left) = k - 1
      /\ \A j \in 1..k - 1 : left[j] = s[j]
  BY <1>1
<1>3. /\ right \in Seq(S) /\ Len(right) = Len(s) - k
      /\ \A j \in 1..Len(s) - k : right[j] = s[k + j]
  BY <1>1
<1>4. w = left \o right
  BY DEF RemoveAt
<1> HIDE DEF left, right, w
<1>10. /\ w \in Seq(S) /\ Len(w) = Len(left) + Len(right)
       /\ DOMAIN w = 1..Len(left) + Len(right)
       /\ \A i \in 1..Len(left) : w[i] = left[i]
       /\ \A i \in 1..Len(right) : w[Len(left) + i] = right[i]
  <2>1. /\ left \o right \in Seq(S) /\ Len(left \o right) = Len(left) + Len(right)
        /\ DOMAIN (left \o right) = 1..Len(left) + Len(right)
        /\ \A i \in 1..Len(left) : (left \o right)[i] = left[i]
        /\ \A i \in 1..Len(right) : (left \o right)[Len(left) + i] = right[i]
    <3>1. left \in Seq(S) /\ right \in Seq(S)
      BY <1>2, <1>3
    <3> QED
      BY <3>1, PostToChannel, SMTT(30)
  <2> QED
    BY <1>4, <2>1, Zenon
<1>11. Len(left) + Len(right) = Len(s) - 1
  BY <1>1, <1>2, <1>3
<1>5. w \in Seq(S) /\ Len(w) = Len(s) - 1 /\ DOMAIN w = 1..Len(s) - 1
  BY <1>10, <1>11, Zenon
<1>6. \A j \in 1..Len(s) - 1 : w[j] = IF j < k THEN s[j] ELSE s[j + 1]
  <2> SUFFICES ASSUME NEW j \in 1..Len(s) - 1
               PROVE  w[j] = IF j < k THEN s[j] ELSE s[j + 1]
    OBVIOUS
  <2>2. CASE j < k
    <3>1. j \in 1..k - 1 /\ k - 1 = Len(left)
      BY <1>1, <1>2, <2>2
    <3>2. w[j] = left[j] /\ left[j] = s[j]
      BY <1>2, <1>10, <3>1
    <3> QED
      BY <2>2, <3>2
  <2>3. CASE ~(j < k)
    <3> DEFINE i == j - (k - 1)
    <3>1. i \in 1..Len(s) - k /\ (k - 1) + i = j /\ k + i = j + 1
      BY <1>1, <2>3
    <3> HIDE DEF i
    <3>2. w[j] = right[i]
      BY <1>2, <1>3, <1>10, <3>1
    <3>3. right[i] = s[j + 1]
      BY <1>3, <3>1
    <3> QED
      BY <2>3, <3>2, <3>3
  <2> QED
    BY <2>2, <2>3
<1>7. In(s) \subseteq In(w) \cup {s[k]}
  <2> SUFFICES ASSUME NEW j \in 1..Len(s), j # k
               PROVE  s[j] \in In(w)
    BY <1>1 DEF In
  <2>1. CASE j < k
    <3>1. j \in 1..Len(s) - 1 /\ w[j] = s[j]
      BY <1>1, <1>6, <2>1
    <3> QED
      BY <1>5, <3>1 DEF In
  <2>2. CASE ~(j < k)
    <3>1. j - 1 \in 1..Len(s) - 1 /\ ~(j - 1 < k) /\ (j - 1) + 1 = j
      BY <1>1, <2>2
    <3>2. w[j - 1] = s[j]
      BY <1>6, <3>1
    <3> QED
      BY <1>5, <3>1, <3>2 DEF In
  <2> QED
    BY <2>1, <2>2
<1>8. In(w) \cup {s[k]} \subseteq In(s)
  <2> SUFFICES ASSUME NEW j \in 1..Len(s) - 1
               PROVE  w[j] \in In(s)
    BY <1>1, <1>5 DEF In
  <2>1. j \in 1..Len(s) /\ j + 1 \in 1..Len(s)
    BY <1>1
  <2> QED
    BY <1>1, <1>6, <2>1 DEF In
<1>9. ASSUME k = 1
      PROVE  w = Tail(s) /\ s[k] = Head(s)
  <2>1. /\ Tail(s) \in Seq(S) /\ Len(Tail(s)) = Len(s) - 1 /\ Head(s) = s[1]
        /\ \A j \in 1..Len(s) - 1 : Tail(s)[j] = s[j + 1]
    BY <1>1, TakeFromChannel
  <2>2. \A j \in 1..Len(s) - 1 : w[j] = s[j + 1]
    BY <1>1, <1>6, <1>9
  <2>3. w = Tail(s)
    BY <1>5, <2>1, <2>2, SeqEqual
  <2> QED
    BY <1>9, <2>1, <2>3
<1> QED
  BY <1>1, <1>5, <1>6, <1>7, <1>8, <1>9 DEF w

LEMMA ShortChannels ==
    /\ \A S : <<>> \in Seq(S)
    /\ In(<<>>) = {}
    /\ \A a : Len(<<a>>) = 1 /\ <<a>>[1] = a /\ In(<<a>>) = {a}
    /\ \A a, b : /\ Len(<<a, b>>) = 2 /\ <<a, b>>[1] = a /\ <<a, b>>[2] = b
                 /\ In(<<a, b>>) = {a, b}
    /\ \A S : \A a, b \in S : <<a>> \in Seq(S) /\ <<a, b>> \in Seq(S)
    /\ \A n \in Nat : /\ Pings(n) \in Seq(ToUtilityMessages) /\ Len(Pings(n)) = n
                      /\ \A k \in 1..n : Pings(n)[k] = Ping
                      /\ In(Pings(n)) \subseteq {Ping}
<1>1. \A a : In(<<a>>) = {a}
  BY DEF In
<1>2. \A a, b : In(<<a, b>>) = {a, b}
  BY DEF In
<1>3. \A n \in Nat : /\ Pings(n) \in Seq(ToUtilityMessages) /\ Len(Pings(n)) = n
                     /\ \A k \in 1..n : Pings(n)[k] = Ping
                     /\ DOMAIN Pings(n) = 1..n
  BY ToUtilityValues DEF Pings
<1>4. \A n \in Nat : In(Pings(n)) \subseteq {Ping}
  BY <1>3 DEF In
<1>5. In(<<>>) = {}
  BY DEF In
<1> QED
  BY <1>1, <1>2, <1>3, <1>4, <1>5

-----------------------------------------------------------------------------
(* Counting messages                                                       *)

LEMMA CountType ==
    ASSUME NEW s, NEW types, NEW k \in Nat
    PROVE  /\ IsFiniteSet({j \in 1..k : s[j].type \in types})
           /\ Count(s, types, k) \in Nat
<1>1. IsFiniteSet(1..k)
  BY FS_Interval
<1>2. {j \in 1..k : s[j].type \in types} \in SUBSET (1..k)
  OBVIOUS
<1>3. IsFiniteSet({j \in 1..k : s[j].type \in types})
  BY <1>1, <1>2, FS_Subset
<1> QED
  BY <1>3, FS_CardinalityType DEF Count

LEMMA CountSame ==
    ASSUME NEW s, NEW t, NEW types, NEW k \in Nat, \A j \in 1..k : s[j] = t[j]
    PROVE  Count(s, types, k) = Count(t, types, k)
<1>1. {j \in 1..k : s[j].type \in types} = {j \in 1..k : t[j].type \in types}
  OBVIOUS
<1> QED
  BY <1>1 DEF Count

LEMMA CountNone ==
    ASSUME NEW s, NEW types, NEW k \in Nat, \A j \in 1..k : s[j].type \notin types
    PROVE  Count(s, types, k) = 0
<1>1. {j \in 1..k : s[j].type \in types} = {}
  OBVIOUS
<1> QED
  BY <1>1, FS_EmptySet DEF Count

LEMMA CountAll ==
    ASSUME NEW s, NEW types, NEW k \in Nat, \A j \in 1..k : s[j].type \in types
    PROVE  Count(s, types, k) = k
<1>1. {j \in 1..k : s[j].type \in types} = 1..k
  OBVIOUS
<1>2. Cardinality(1..k) = k
  <2>1. Cardinality(1..k) = IF 1 > k THEN 0 ELSE k - 1 + 1
    BY FS_Interval
  <2>2. (IF 1 > k THEN 0 ELSE k - 1 + 1) = k
    OBVIOUS
  <2> QED
    BY <2>1, <2>2
<1> QED
  BY <1>1, <1>2 DEF Count

LEMMA CountSome ==
    ASSUME NEW s, NEW types, NEW k \in Nat, NEW j \in 1..k, s[j].type \in types
    PROVE  Count(s, types, k) > 0
<1>1. {i \in 1..k : s[i].type \in types} # {}
  OBVIOUS
<1>2. IsFiniteSet({i \in 1..k : s[i].type \in types}) /\ Count(s, types, k) \in Nat
  BY CountType
<1>3. Count(s, types, k) # 0
  BY <1>1, <1>2, FS_EmptySet DEF Count
<1> QED
  BY <1>2, <1>3

\* The messages of s beyond the first d are the first of t.
LEMMA CountShift ==
    ASSUME NEW s, NEW t, NEW types, NEW d \in Nat, NEW k \in Nat,
           \A j \in 1..k : s[d + j] = t[j]
    PROVE  Count(s, types, d + k) = Count(s, types, d) + Count(t, types, k)
<1> DEFINE first == {j \in 1..d : s[j].type \in types}
           last  == {j \in d + 1..d + k : s[j].type \in types}
           moved == {j \in 1..k : t[j].type \in types}
           shift == [j \in moved |-> d + j]
<1>1. {j \in 1..d + k : s[j].type \in types} = first \cup last
  OBVIOUS
<1>2. first \cap last = {}
  OBVIOUS
<1>3. IsFiniteSet(first) /\ IsFiniteSet(moved)
  BY CountType
<1>4. ExistsBijection(moved, last)
  <2>1. shift \in [moved -> last]
    OBVIOUS
  <2>2. \A i, j \in DOMAIN shift : shift[i] = shift[j] => i = j
    OBVIOUS
  <2>3. \A j \in last : \E i \in moved : shift[i] = j
    <3> SUFFICES ASSUME NEW j \in last
                 PROVE  \E i \in moved : shift[i] = j
      OBVIOUS
    <3>1. j - d \in 1..k /\ d + (j - d) = j
      OBVIOUS
    <3>2. j - d \in moved
      BY <3>1
    <3> QED
      BY <3>1, <3>2
  <2> HIDE DEF shift, moved, last
  <2>4. shift \in Injection(moved, last)
    BY <2>1, <2>2, Zenon DEF Injection, IsInjective
  <2>5. shift \in Surjection(moved, last)
    BY <2>1, <2>3, Zenon DEF Surjection
  <2> QED
    BY <2>4, <2>5, Zenon DEF ExistsBijection, Bijection
<1>5. IsFiniteSet(last) /\ Cardinality(last) = Cardinality(moved)
  BY <1>3, <1>4, FS_Bijection
<1>6. Cardinality(first \cap last) = 0
  BY <1>2, FS_EmptySet
<1>7. Cardinality(first \cup last) = Cardinality(first) + Cardinality(last) - Cardinality(first \cap last)
  BY <1>3, <1>5, FS_Union
<1>8. Cardinality(first) \in Nat /\ Cardinality(last) \in Nat
  BY <1>3, <1>5, FS_CardinalityType
<1>9. Cardinality(first \cup last) = Cardinality(first) + Cardinality(moved)
  <2> HIDE DEF first, moved, last
  <2> QED
    BY <1>5, <1>6, <1>7, <1>8
<1> QED
  BY <1>1, <1>9 DEF Count

LEMMA CountOne ==
    ASSUME NEW s, NEW types
    PROVE  Count(s, types, 1) = IF s[1].type \in types THEN 1 ELSE 0
<1>1. CASE s[1].type \in types
  <2>1. \A j \in 1..1 : s[j].type \in types
    BY <1>1
  <2> QED
    BY <1>1, <2>1, CountAll
<1>2. CASE s[1].type \notin types
  <2>1. \A j \in 1..1 : s[j].type \notin types
    BY <1>2
  <2> QED
    BY <1>2, <2>1, CountNone
<1> QED
  BY <1>1, <1>2

LEMMA CountUpTo ==
    ASSUME NEW s, NEW types, NEW k \in Nat, NEW d \in Nat
    PROVE  Count(s, types, d) <= Count(s, types, d + k)
<1> DEFINE t == [j \in 1..k |-> s[d + j]]
<1>1. Count(s, types, d + k) = Count(s, types, d) + Count(t, types, k)
  <2>1. \A j \in 1..k : s[d + j] = t[j]
    OBVIOUS
  <2> HIDE DEF t
  <2> QED
    BY <2>1, CountShift
<1>2. Count(s, types, d) \in Nat /\ Count(t, types, k) \in Nat
  BY CountType
<1> QED
  BY <1>1, <1>2

LEMMA CountAppend ==
    ASSUME NEW S, NEW s \in Seq(S), NEW m \in S, NEW types
    PROVE  /\ Count(Append(s, m), types, Len(s) + 1)
                = Count(s, types, Len(s)) + (IF m.type \in types THEN 1 ELSE 0)
           /\ \A k \in 0..Len(s) : Count(Append(s, m), types, k) = Count(s, types, k)
<1>1. /\ Len(s) \in Nat
      /\ \A k \in 1..Len(s) : Append(s, m)[k] = s[k]
      /\ Append(s, m)[Len(s) + 1] = m
  BY AppendToChannel
<1>2. \A k \in 0..Len(s) : Count(Append(s, m), types, k) = Count(s, types, k)
  <2> SUFFICES ASSUME NEW k \in 0..Len(s)
               PROVE  Count(Append(s, m), types, k) = Count(s, types, k)
    OBVIOUS
  <2> DEFINE w == Append(s, m)
  <2>1. k \in Nat /\ \A j \in 1..k : w[j] = s[j]
    BY <1>1
  <2> HIDE DEF w
  <2>2. Count(w, types, k) = Count(s, types, k)
    BY <2>1, CountSame
  <2> QED
    BY <2>2 DEF w
<1>3. \A j \in 1..1 : Append(s, m)[Len(s) + j] = <<m>>[j]
  BY <1>1
<1>4. Count(Append(s, m), types, Len(s) + 1)
        = Count(Append(s, m), types, Len(s)) + Count(<<m>>, types, 1)
  <2> DEFINE w == Append(s, m)
             d == Len(s)
             t == <<m>>
             one == 1
  <2>1. d \in Nat /\ one \in Nat /\ \A j \in 1..one : w[d + j] = t[j]
    BY <1>1, <1>3
  <2> HIDE DEF w, d, t, one
  <2>2. Count(w, types, d + one) = Count(w, types, d) + Count(t, types, one)
    BY <2>1, CountShift
  <2> QED
    BY <2>2 DEF w, d, t, one
<1>5. Count(<<m>>, types, 1) = IF m.type \in types THEN 1 ELSE 0
  BY CountOne
<1>6. Len(s) \in 0..Len(s)
  BY <1>1
<1> QED
  BY <1>2, <1>4, <1>5, <1>6

LEMMA CountTail ==
    ASSUME NEW S, NEW s \in Seq(S), s # <<>>, NEW types
    PROVE  /\ \A k \in 0..Len(s) - 1 :
                Count(s, types, k + 1)
                  = (IF Head(s).type \in types THEN 1 ELSE 0) + Count(Tail(s), types, k)
           /\ Count(s, types, Len(s))
                = (IF Head(s).type \in types THEN 1 ELSE 0)
                    + Count(Tail(s), types, Len(Tail(s)))
<1>1. /\ Len(s) \in Nat \ {0} /\ Len(Tail(s)) = Len(s) - 1 /\ Head(s) = s[1]
      /\ \A k \in 1..Len(s) - 1 : Tail(s)[k] = s[k + 1]
  BY TakeFromChannel
<1>2. \A k \in 0..Len(s) - 1 :
        Count(s, types, k + 1)
          = (IF Head(s).type \in types THEN 1 ELSE 0) + Count(Tail(s), types, k)
  <2> SUFFICES ASSUME NEW k \in 0..Len(s) - 1
               PROVE  Count(s, types, k + 1)
                        = (IF Head(s).type \in types THEN 1 ELSE 0) + Count(Tail(s), types, k)
    OBVIOUS
  <2>1. k \in Nat /\ k + 1 = 1 + k
    BY <1>1
  <2>4. \A j \in 1..k : s[1 + j] = Tail(s)[j]
    BY <1>1, <2>1
  <2>2. Count(s, types, 1 + k) = Count(s, types, 1) + Count(Tail(s), types, k)
    <3> DEFINE one == 1
               t == Tail(s)
    <3>2. k \in Nat /\ one \in Nat /\ \A j \in 1..k : s[one + j] = t[j]
      BY <2>1, <2>4
    <3> HIDE DEF one, t
    <3>3. Count(s, types, one + k) = Count(s, types, one) + Count(t, types, k)
      BY <3>2, CountShift
    <3> QED
      BY <3>3 DEF one, t
  <2>3. Count(s, types, 1) = IF Head(s).type \in types THEN 1 ELSE 0
    BY <1>1, CountOne
  <2> QED
    BY <2>1, <2>2, <2>3
<1>3. Len(s) - 1 \in 0..Len(s) - 1 /\ (Len(s) - 1) + 1 = Len(s)
  BY <1>1
<1> QED
  BY <1>1, <1>2, <1>3

LEMMA CountPosted ==
    ASSUME NEW S, NEW s \in Seq(S), NEW t \in Seq(S), NEW types
    PROVE  Count(s \o t, types, Len(s) + Len(t))
             = Count(s, types, Len(s)) + Count(t, types, Len(t))
<1>1. /\ Len(s) \in Nat /\ Len(t) \in Nat
      /\ \A k \in 1..Len(s) : (s \o t)[k] = s[k]
      /\ \A k \in 1..Len(t) : (s \o t)[Len(s) + k] = t[k]
  BY PostToChannel
<1>2. Count(s \o t, types, Len(s) + Len(t))
        = Count(s \o t, types, Len(s)) + Count(t, types, Len(t))
  <2>1. Len(s) \in Nat /\ Len(t) \in Nat
    BY <1>1
  <2>2. \A k \in 1..Len(t) : (s \o t)[Len(s) + k] = t[k]
    BY <1>1
  <2> DEFINE w == s \o t
             d == Len(s)
             k == Len(t)
  <2>3. d \in Nat /\ k \in Nat /\ \A j \in 1..k : w[d + j] = t[j]
    BY <2>1, <2>2
  <2> HIDE DEF w, d, k
  <2>4. Count(w, types, d + k) = Count(w, types, d) + Count(t, types, k)
    BY <2>3, CountShift
  <2> QED
    BY <2>4 DEF w, d, k
<1>3. Count(s \o t, types, Len(s)) = Count(s, types, Len(s))
  <2> DEFINE w == s \o t
             d == Len(s)
  <2>1. d \in Nat /\ \A j \in 1..d : w[j] = s[j]
    BY <1>1
  <2> HIDE DEF w, d
  <2>2. Count(w, types, d) = Count(s, types, d)
    BY <2>1, CountSame
  <2> QED
    BY <2>2 DEF w, d
<1> QED
  BY <1>2, <1>3

\* What is taken out is counted once.
LEMMA CountRemove ==
    ASSUME NEW S, NEW s \in Seq(S), NEW k \in DOMAIN s, NEW types
    PROVE  Count(s, types, Len(s))
             = (IF s[k].type \in types THEN 1 ELSE 0)
                 + Count(RemoveAt(s, k), types, Len(RemoveAt(s, k)))
<1> DEFINE w == RemoveAt(s, k)
           a == k - 1
           b == Len(s) - k
           t == [j \in 1..1 + b |-> s[a + j]]
           u == [j \in 1..b |-> s[k + j]]
<1>0. /\ Len(s) \in Nat /\ k \in 1..Len(s)
      /\ a \in Nat /\ b \in Nat /\ a + (1 + b) = Len(s) /\ a + b = Len(s) - 1
      /\ 1 + b \in Nat /\ 1 \in Nat
  <2>1. Len(s) \in Nat /\ k \in 1..Len(s)
    BY RemoveFromChannel
  <2>2. \A m \in Nat : \A q \in 1..m :
          /\ q - 1 \in Nat /\ m - q \in Nat
          /\ (q - 1) + (1 + (m - q)) = m /\ (q - 1) + (m - q) = m - 1
          /\ 1 + (m - q) \in Nat
    OBVIOUS
  <2> QED
    BY <2>1, <2>2
<1>1. /\ Len(s) \in Nat /\ k \in 1..Len(s) /\ Len(w) = Len(s) - 1
      /\ \A j \in 1..Len(s) - 1 : w[j] = IF j < k THEN s[j] ELSE s[j + 1]
  BY RemoveFromChannel
<1>2. /\ a \in Nat /\ b \in Nat /\ a + (1 + b) = Len(s) /\ a + b = Len(s) - 1
      /\ 1 + b \in Nat /\ 1 \in Nat
  BY <1>0
<1>3. \A j \in 1..1 + b : s[a + j] = t[j]
  OBVIOUS
<1>4. \A j \in 1..b : t[1 + j] = u[j]
  <2> SUFFICES ASSUME NEW j \in 1..b
               PROVE  t[1 + j] = u[j]
    OBVIOUS
  <2>1. 1 + j \in 1..1 + b /\ a + (1 + j) = k + j
    BY <1>1
  <2>2. t[1 + j] = s[a + (1 + j)]
    BY <2>1
  <2> QED
    BY <2>1, <2>2
<1>5. \A j \in 1..a : w[j] = s[j]
  BY <1>1
<1>6. \A j \in 1..b : w[a + j] = u[j]
  <2> SUFFICES ASSUME NEW j \in 1..b
               PROVE  w[a + j] = u[j]
    OBVIOUS
  <2>1. a + j \in 1..Len(s) - 1 /\ ~(a + j < k) /\ (a + j) + 1 = k + j
    BY <1>1
  <2>2. w[a + j] = s[k + j]
    BY <1>1, <2>1
  <2> QED
    BY <2>2
<1>7. t[1] = s[k]
  <2>1. 1 \in 1..1 + b /\ a + 1 = k
    BY <1>1
  <2>2. t[1] = s[a + 1]
    BY <2>1
  <2> QED
    BY <2>1, <2>2
<1> HIDE DEF w, a, b, t, u
<1>8. Count(s, types, a + (1 + b)) = Count(s, types, a) + Count(t, types, 1 + b)
  BY <1>2, <1>3, CountShift
<1>9. Count(t, types, 1 + b) = Count(t, types, 1) + Count(u, types, b)
  BY <1>2, <1>4, CountShift
<1>10. Count(w, types, a + b) = Count(w, types, a) + Count(u, types, b)
  BY <1>2, <1>6, CountShift
<1>11. Count(w, types, a) = Count(s, types, a)
  BY <1>2, <1>5, CountSame
<1>12. Count(t, types, 1) = IF s[k].type \in types THEN 1 ELSE 0
  BY <1>7, CountOne
<1>13. Count(s, types, a) \in Nat /\ Count(u, types, b) \in Nat /\ Count(t, types, 1) \in Nat
  BY <1>2, CountType
<1>14. Count(s, types, Len(s)) = (IF s[k].type \in types THEN 1 ELSE 0) + Count(w, types, Len(w))
  <2>1. Count(s, types, Len(s)) = Count(s, types, a) + Count(t, types, 1 + b)
    BY <1>2, <1>8
  <2>2. Count(w, types, Len(w)) = Count(s, types, a) + Count(u, types, b)
    BY <1>1, <1>2, <1>10, <1>11
  <2>3. \A x, y, z \in Nat : x + (y + z) = y + (x + z)
    OBVIOUS
  <2>4. Count(s, types, Len(s)) = Count(t, types, 1) + Count(w, types, Len(w))
    BY <1>9, <1>13, <2>1, <2>2, <2>3
  <2> QED
    BY <1>12, <2>4
<1> QED
  BY <1>14 DEF w

-----------------------------------------------------------------------------
(* What the parts of the actions do                                        *)

LEMMA NumbersTyped ==
    /\ MaxHandovers \in Nat /\ MaxOrdered \in Nat
    /\ \A r \in Runtimes : MaxBarriers[r] \in Nat
    /\ \A n \in Numbers : n \in Nat /\ n > 0
    /\ \A n \in NumberOrNone : n \in Nat /\ (n \in Numbers \/ n = 0)
    /\ \A r \in Requests : /\ r.n \in Numbers /\ r.after \in Nat
                           /\ r.kind = "callback" \/ r.kind = "provider"
                           /\ IdsOf(r) \subseteq Ids
                           /\ r.kind = "callback" => IdsOf(r) = {Fn(r.n)}
                           /\ r.kind = "provider" => IdsOf(r) = Both(r.n)
                           /\ \A i \in IdsOf(r) : i[1] = r.n
<1>1. /\ MaxHandovers \in Nat /\ MaxOrdered \in Nat
      /\ \A r \in Runtimes : MaxBarriers[r] \in Nat
  BY BoundsAssumption
<1>2. \A r \in Requests : /\ r.n \in Numbers /\ r.after \in Nat
                          /\ r.kind = "callback" \/ r.kind = "provider"
  BY <1>1 DEF Requests
<1>3. \A r \in Requests : /\ IdsOf(r) \subseteq Ids
                          /\ r.kind = "callback" => IdsOf(r) = {Fn(r.n)}
                          /\ r.kind = "provider" => IdsOf(r) = Both(r.n)
                          /\ \A i \in IdsOf(r) : i[1] = r.n
  BY <1>2, IdFacts DEF IdsOf
<1> QED
  BY <1>1, <1>2, <1>3 DEF Numbers, NumberOrNone

\* What a sweep spares are ids.
LEMMA HeldIds ==
    ASSUME TypeInv
    PROVE  HeldUtilityCallbackIds \in SUBSET Ids
<1>1. stubs \subseteq Ids /\ liveStreams \subseteq Ids
      /\ polled \in NumberOrNone /\ idle \in NumberOrNone
  BY DEF TypeInv
<1>2. \A n \in {polled, idle} \ {0} : Fn(n) \in Ids
  BY <1>1, IdFacts, NumbersTyped
<1> QED
  BY <1>1, <1>2 DEF HeldUtilityCallbackIds

LEMMA TakeFacts ==
    ASSUME TypeInv, NEW type, Take(type)
    PROVE  /\ toUtility # <<>> /\ toUtility \in Seq(ToUtilityMessages)
           /\ Head(toUtility) \in ToUtilityMessages /\ Head(toUtility).type = type
           /\ toUtility' = Tail(toUtility) /\ toUtility' \in Seq(ToUtilityMessages)
           /\ In(toUtility) = In(toUtility)' \cup {Head(toUtility)}
           /\ syncing = {} /\ reply = {}
           /\ UNCHANGED <<functionSequence, orderedSequence, syncing, unread, reply>>
           /\ UNCHANGED hostVars
<1>1. toUtility # <<>> /\ toUtility \in Seq(ToUtilityMessages)
  BY DEF Take, TypeInv
<1>2. toUtility' = Tail(toUtility)
  BY DEF Take
<1>3. /\ Tail(toUtility) \in Seq(ToUtilityMessages) /\ Head(toUtility) \in ToUtilityMessages
      /\ In(toUtility) = In(Tail(toUtility)) \cup {Head(toUtility)}
  BY <1>1, TakeFromChannel
<1>4. In(toUtility)' = In(Tail(toUtility))
  BY <1>2 DEF In
<1> QED
  BY <1>1, <1>2, <1>3, <1>4 DEF Take, Awake, TypeInv

LEMMA ReceiveFacts ==
    ASSUME TypeInv, NEW type, NEW k, Receive(type, k)
    PROVE  /\ toHost # <<>> /\ toHost \in Seq(ToHostMessages)
           /\ k \in DOMAIN toHost /\ DOMAIN toHost = 1..Len(toHost)
           /\ toHost[k] \in ToHostMessages /\ toHost[k].type = type
           /\ type \in Carrying => toHost[k].id \in Ids
           /\ toHost' = RemoveAt(toHost, k) /\ toHost' \in Seq(ToHostMessages)
           /\ In(toHost) = In(toHost)' \cup {toHost[k]}
           /\ k = 1 => toHost' = Tail(toHost) /\ toHost[k] = Head(toHost)
           /\ OneAtATime => k = 1
           /\ UNCHANGED utilityVars
           /\ UNCHANGED <<unread, reply, waiting, handling, draining, runtime>>
<1>1. toHost \in Seq(ToHostMessages)
  BY DEF TypeInv
<1>2. k \in DOMAIN toHost /\ toHost' = RemoveAt(toHost, k) /\ toHost[k].type = type
  BY DEF Receive
<1>3. /\ RemoveAt(toHost, k) \in Seq(ToHostMessages) /\ toHost[k] \in ToHostMessages
      /\ In(toHost) = In(RemoveAt(toHost, k)) \cup {toHost[k]}
      /\ toHost # <<>> /\ DOMAIN toHost = 1..Len(toHost)
      /\ k = 1 => RemoveAt(toHost, k) = Tail(toHost) /\ toHost[k] = Head(toHost)
  BY <1>1, <1>2, RemoveFromChannel
<1>4. In(toHost)' = In(RemoveAt(toHost, k))
  BY <1>2 DEF In
<1>5. type \in Carrying => toHost[k].id \in Ids
  BY <1>2, <1>3, ToHostKinds DEF Carrying
<1>6. OneAtATime => k = 1
  BY DEF Receive, TypeInv
<1>7. UNCHANGED utilityVars /\ UNCHANGED <<unread, reply, waiting, handling, draining, runtime>>
  BY DEF Receive
<1> QED
  BY <1>1, <1>2, <1>3, <1>4, <1>5, <1>6, <1>7

LEMMA OrderedFacts ==
    ASSUME TypeInv, NEW type, OrderedCall(type)
    PROVE  /\ Receive(type, 1) /\ ~begun
           /\ UNCHANGED <<serving, pings, resolved>>
           /\ \/ orderedCompleted' = orderedCompleted + 1 /\ begun' = begun
              \/ orderedCompleted' = orderedCompleted /\ begun' = TRUE /\ ~OneAtATime
           /\ begun' \in BOOLEAN /\ resolved' \in BOOLEAN /\ (OneAtATime => ~begun' /\ ~resolved')
           /\ OneAtATime => \A r \in waiting : ~(r.after <= orderedCompleted)
<1>1. CASE OneAtATime
  BY <1>1 DEF OrderedCall, ReadyRequests, TypeInv
<1>2. CASE ~OneAtATime
  BY <1>2 DEF OrderedCall, ReadyRequests, TypeInv
<1> QED
  BY <1>1, <1>2

LEMMA PongFacts ==
    ASSUME TypeInv, NEW k, ReceivePong(k)
    PROVE  /\ Receive("pong", k) /\ pings' = pings - 1
           /\ UNCHANGED <<serving, orderedCompleted, stubs, begun>>
           /\ UNCHANGED providerVars
           /\ resolved' \in BOOLEAN /\ (OneAtATime => ~resolved')
           /\ PostSweep \/ UNCHANGED toUtility
           /\ OneAtATime => \/ pings = 1 /\ PostSweep
                            \/ pings # 1 /\ UNCHANGED toUtility
           /\ \A r \in waiting : ~(r.after <= orderedCompleted)
<1>1. CASE OneAtATime
  BY <1>1 DEF ReceivePong, TypeInv, ReadyRequests
<1>2. CASE ~OneAtATime
  BY <1>2 DEF ReceivePong, TypeInv, ReadyRequests
<1> QED
  BY <1>1, <1>2

LEMMA SendFacts ==
    ASSUME TypeInv, NEW m \in ToHostMessages, toHost' = Append(toHost, m)
    PROVE  /\ toHost' \in Seq(ToHostMessages)
           /\ In(toHost)' = In(toHost) \cup {m}
<1>1. toHost \in Seq(ToHostMessages)
  BY DEF TypeInv
<1>2. /\ Append(toHost, m) \in Seq(ToHostMessages)
      /\ In(Append(toHost, m)) = In(toHost) \cup {m}
  BY <1>1, AppendToChannel
<1> QED
  BY <1>2 DEF In

LEMMA PostFacts ==
    ASSUME TypeInv, NEW messages \in Seq(ToUtilityMessages), Post(messages)
    PROVE  /\ toUtility' = toUtility \o messages
           /\ toUtility' \in Seq(ToUtilityMessages)
           /\ In(toUtility)' = In(toUtility) \cup In(messages)
           /\ Count(toUtility', {"ping"}, Len(toUtility'))
                = Count(toUtility, {"ping"}, Len(toUtility))
                    + Count(messages, {"ping"}, Len(messages))
<1>1. toUtility \in Seq(ToUtilityMessages)
  BY DEF TypeInv
<1>2. toUtility' = toUtility \o messages
  BY DEF Post
<1>3. /\ toUtility \o messages \in Seq(ToUtilityMessages)
      /\ Len(toUtility \o messages) = Len(toUtility) + Len(messages)
      /\ In(toUtility \o messages) = In(toUtility) \cup In(messages)
  BY <1>1, PostToChannel
<1>4. In(toUtility)' = In(toUtility \o messages)
  BY <1>2 DEF In
<1>5. Count(toUtility \o messages, {"ping"}, Len(toUtility) + Len(messages))
        = Count(toUtility, {"ping"}, Len(toUtility))
            + Count(messages, {"ping"}, Len(messages))
  BY <1>1, CountPosted
<1> QED
  BY <1>2, <1>3, <1>4, <1>5

\* The end of a request is its response, and perhaps the pings that waited.
LEMMA RespondFacts ==
    ASSUME TypeInv, NEW r \in Requests, NEW ok \in BOOLEAN, Respond(r, ok, IdsOf(r))
    PROVE  /\ waiting' = waiting \ {r} /\ handling' = handling \ {r}
           /\ reply' = IF r \in syncing THEN {[ok |-> ok, adopted |-> IdsOf(r)]} ELSE reply
           /\ [ok |-> ok, adopted |-> IdsOf(r)] \in Replies
           /\ \E n \in {0, draining} : /\ Post(Pings(n))
                                       /\ pings' = pings + n
                                       /\ draining' = draining - n
<1>1. [ok |-> ok, adopted |-> IdsOf(r)] \in Replies
  BY NumbersTyped DEF Replies
<1>2. pings \in Nat /\ draining \in Nat /\ toUtility \in Seq(ToUtilityMessages)
  BY DEF TypeInv
<1>3. \E n \in {0, draining} : /\ Post(Pings(n))
                               /\ pings' = pings + n
                               /\ draining' = draining - n
  <2>1. CASE waiting' \cup handling' = {}
    BY <1>2, <2>1 DEF Respond
  <2>2. CASE waiting' \cup handling' # {}
    <3>1. UNCHANGED <<toUtility, pings, draining>>
      BY <2>2 DEF Respond
    <3>2. Pings(0) = <<>>
      BY DEF Pings
    <3>3. toUtility \o <<>> = toUtility
      BY <1>2, ConcatEmptySeq
    <3>4. Post(Pings(0))
      BY <3>1, <3>2, <3>3 DEF Post
    <3>5. pings' = pings + 0 /\ draining' = draining - 0
      BY <1>2, <3>1
    <3> QED
      BY <3>4, <3>5
  <2> QED
    BY <2>1, <2>2
<1> QED
  BY <1>1, <1>3 DEF Respond

LEMMA PostNone ==
    ASSUME TypeInv, Post(<<>>)
    PROVE  UNCHANGED toUtility
<1>1. toUtility \in Seq(ToUtilityMessages)
  BY DEF TypeInv
<1>2. toUtility \o <<>> = toUtility
  BY <1>1, ConcatEmptySeq
<1> QED
  BY <1>2 DEF Post

LEMMA PostOne ==
    ASSUME TypeInv, NEW m \in ToUtilityMessages, Post(<<m>>)
    PROVE  /\ toUtility' \in Seq(ToUtilityMessages)
           /\ In(toUtility)' = In(toUtility) \cup {m}
           /\ Count(toUtility', {"ping"}, Len(toUtility'))
                = Count(toUtility, {"ping"}, Len(toUtility))
                    + (IF m.type = "ping" THEN 1 ELSE 0)
<1>1. <<m>> \in Seq(ToUtilityMessages) /\ Len(<<m>>) = 1 /\ In(<<m>>) = {m} /\ <<m>>[1] = m
  BY ShortChannels
<1>2. Count(<<m>>, {"ping"}, 1) = IF m.type \in {"ping"} THEN 1 ELSE 0
  BY <1>1, CountOne
<1> QED
  BY <1>1, <1>2, PostFacts

LEMMA PostTwo ==
    ASSUME TypeInv, NEW m \in ToUtilityMessages, NEW n \in ToUtilityMessages,
           Post(<<m, n>>), m.type # "ping", n.type # "ping"
    PROVE  /\ toUtility' \in Seq(ToUtilityMessages)
           /\ In(toUtility)' = In(toUtility) \cup {m, n}
           /\ Count(toUtility', {"ping"}, Len(toUtility'))
                = Count(toUtility, {"ping"}, Len(toUtility))
<1>1. /\ <<m, n>> \in Seq(ToUtilityMessages) /\ Len(<<m, n>>) = 2
      /\ In(<<m, n>>) = {m, n} /\ <<m, n>>[1] = m /\ <<m, n>>[2] = n
  BY ShortChannels
<1>2. \A j \in 1..2 : <<m, n>>[j].type \notin {"ping"}
  BY <1>1
<1>3. 2 \in Nat
  OBVIOUS
<1>4. Count(<<m, n>>, {"ping"}, 2) = 0
  <2> DEFINE t == <<m, n>>
  <2>1. \A j \in 1..2 : t[j].type \notin {"ping"}
    BY <1>2
  <2> HIDE DEF t
  <2>2. Count(t, {"ping"}, 2) = 0
    BY <1>3, <2>1, CountNone
  <2> QED
    BY <2>2 DEF t
<1>5. Len(toUtility) \in Nat
  BY LenProperties DEF TypeInv
<1>6. Count(toUtility, {"ping"}, Len(toUtility)) \in Nat
  BY <1>5, CountType
<1>7. /\ toUtility' \in Seq(ToUtilityMessages)
      /\ In(toUtility)' = In(toUtility) \cup In(<<m, n>>)
      /\ Count(toUtility', {"ping"}, Len(toUtility'))
                = Count(toUtility, {"ping"}, Len(toUtility))
                    + Count(<<m, n>>, {"ping"}, Len(<<m, n>>))
  BY <1>1, PostFacts
<1> QED
  BY <1>1, <1>4, <1>6, <1>7

LEMMA PostPings ==
    ASSUME TypeInv, NEW n \in Nat, Post(Pings(n))
    PROVE  /\ toUtility' \in Seq(ToUtilityMessages)
           /\ In(toUtility) \subseteq In(toUtility)'
           /\ In(toUtility)' \subseteq In(toUtility) \cup {Ping}
           /\ Count(toUtility', {"ping"}, Len(toUtility'))
                = Count(toUtility, {"ping"}, Len(toUtility)) + n
<1>1. /\ Pings(n) \in Seq(ToUtilityMessages) /\ Len(Pings(n)) = n
      /\ In(Pings(n)) \subseteq {Ping} /\ \A k \in 1..n : Pings(n)[k] = Ping
  BY ShortChannels
<1>2. Count(Pings(n), {"ping"}, n) = n
  <2> DEFINE t == Pings(n)
  <2>1. \A j \in 1..n : t[j].type \in {"ping"}
    BY <1>1, ToUtilityValues
  <2> HIDE DEF t
  <2>2. Count(t, {"ping"}, n) = n
    BY <2>1, CountAll
  <2> QED
    BY <2>2 DEF t
<1>3. /\ toUtility' \in Seq(ToUtilityMessages)
      /\ In(toUtility)' = In(toUtility) \cup In(Pings(n))
      /\ Count(toUtility', {"ping"}, Len(toUtility'))
                = Count(toUtility, {"ping"}, Len(toUtility))
                    + Count(Pings(n), {"ping"}, Len(Pings(n)))
  BY <1>1, PostFacts
<1> QED
  BY <1>1, <1>2, <1>3

-----------------------------------------------------------------------------
(* Types                                                                   *)

UtilityTypes ==
    /\ functions \subseteq Ids /\ unadopted \subseteq functions
    /\ carried \subseteq unadopted
    /\ functionSequence \in NumberOrNone /\ watermark \in 0..functionSequence
    /\ orderedSequence \in 0..MaxOrdered
    /\ syncing \subseteq Requests /\ \A q, r \in syncing : q = r

HostTypes ==
    /\ orderedCompleted \in Nat
    /\ waiting \subseteq Requests /\ handling \subseteq Requests
    /\ serving \subseteq Ids /\ stubs \subseteq Ids /\ liveStreams \subseteq Ids
    /\ providers \subseteq Numbers /\ refused \subseteq Numbers
    /\ installed \in NumberOrNone /\ polled \in NumberOrNone /\ idle \in NumberOrNone
    /\ draining \in Nat /\ pings \in Nat
    /\ runtime \in Runtimes /\ begun \in BOOLEAN /\ resolved \in BOOLEAN
    /\ OneAtATime => ~begun /\ ~resolved

ChannelTypes ==
    /\ toHost \in Seq(ToHostMessages) /\ toUtility \in Seq(ToUtilityMessages)
    /\ unread \in Seq(Requests)
    /\ reply \subseteq Replies /\ \A a, b \in reply : a = b
    /\ reply # {} => syncing # {}

LEMMA TypeParts == TypeInv <=> UtilityTypes /\ HostTypes /\ ChannelTypes
  BY DEF TypeInv, UtilityTypes, HostTypes, ChannelTypes

\* What a reply frees is its request's own.
LEMMA ReplyFacts ==
    ASSUME TypeInv, ReceiveReply
    PROVE  \E r \in syncing, a \in reply, freed \in SUBSET Ids :
             /\ r \in Requests /\ a \in Replies /\ freed \subseteq IdsOf(r)
             /\ freed = ((IdsOf(r) \cap carried) \ a.adopted)
                          \cup (IF r.kind = "provider" /\ ~a.ok THEN IdsOf(r) ELSE {})
             /\ functions' = functions \ freed
             /\ unadopted' = (unadopted \ a.adopted) \ freed
             /\ carried' = carried \ (a.adopted \cup IdsOf(r))
             /\ syncing' = {} /\ reply' = {}
             /\ UNCHANGED <<functionSequence, watermark, orderedSequence,
                            toHost, toUtility, unread>>
             /\ UNCHANGED hostVars
<1>1. PICK r \in syncing, a \in reply :
        /\ functions' = functions \
             (SettledOrphans(IdsOf(r), unadopted \ a.adopted)
                \cup (IF r.kind = "provider" /\ ~a.ok THEN IdsOf(r) ELSE {}))
        /\ unadopted' = (unadopted \ a.adopted) \
             (SettledOrphans(IdsOf(r), unadopted \ a.adopted)
                \cup (IF r.kind = "provider" /\ ~a.ok THEN IdsOf(r) ELSE {}))
        /\ carried' = carried \ (a.adopted \cup IdsOf(r))
  BY DEF ReceiveReply
<1>2. /\ syncing' = {} /\ reply' = {}
      /\ UNCHANGED <<functionSequence, watermark, orderedSequence, toHost, toUtility, unread>>
      /\ UNCHANGED hostVars
  BY DEF ReceiveReply
<1>3. r \in Requests /\ a \in Replies /\ carried \subseteq unadopted
  BY DEF TypeInv
<1>4. IdsOf(r) \subseteq Ids
  BY <1>3, NumbersTyped
<1> DEFINE freed == ((IdsOf(r) \cap carried) \ a.adopted)
                      \cup (IF r.kind = "provider" /\ ~a.ok THEN IdsOf(r) ELSE {})
<1>5. SettledOrphans(IdsOf(r), unadopted \ a.adopted) = (IdsOf(r) \cap carried) \ a.adopted
  BY <1>3 DEF SettledOrphans
<1>6. freed \in SUBSET Ids /\ freed \subseteq IdsOf(r)
  BY <1>4
<1>7. functions' = functions \ freed /\ unadopted' = (unadopted \ a.adopted) \ freed
  BY <1>1, <1>5
<1> QED
  BY <1>1, <1>2, <1>3, <1>6, <1>7

LEMMA UtilityTypesStep ==
    ASSUME TypeInv, [Next]_vars
    PROVE  UtilityTypes'
<1> USE NumbersTyped DEF UtilityTypes, TypeInv
<1>1. ASSUME NEW ids \in SUBSET Ids, Register(ids)
      PROVE  /\ functions' \subseteq Ids /\ unadopted' \subseteq functions'
             /\ unadopted \subseteq unadopted'
             /\ functionSequence' \in NumberOrNone /\ watermark \in 0..functionSequence'
             /\ ids \subseteq unadopted'
  BY <1>1 DEF Register, NumberOrNone
<1>2. functionSequence < MaxHandovers => functionSequence + 1 \in Numbers
  BY DEF Numbers, NumberOrNone
<1>3. orderedSequence < MaxOrdered => orderedSequence + 1 \in 0..MaxOrdered
  OBVIOUS
<1>4. ASSUME NEW type \in {"invoke", "ordered", "event"}, HandOver(type)
      PROVE  UtilityTypes'
  <2>1. {Fn(functionSequence + 1)} \in SUBSET Ids
    BY <1>2, <1>4, IdFacts DEF HandOver, Register
  <2> QED
    BY <1>1, <1>3, <1>4, <2>1 DEF HandOver
<1>5. ASSUME NEW kind \in {"callback", "provider"}, SyncCall(kind)
      PROVE  UtilityTypes'
  <2> DEFINE r == [kind |-> kind, n |-> functionSequence + 1, after |-> orderedSequence]
  <2>1. r \in Requests
    BY <1>2, <1>5 DEF SyncCall, Register, Requests
  <2>2. kind = "callback" => Fn(functionSequence + 1) \in IdsOf(r)
    BY DEF IdsOf
  <2>3. Register(IdsOf(r)) /\ syncing' = {r} /\ UNCHANGED <<watermark, orderedSequence>>
    BY <1>5 DEF SyncCall
  <2>4. carried' = IF kind = "callback" THEN carried \cup {Fn(functionSequence + 1)} ELSE carried
    BY <1>5 DEF SyncCall
  <2>5. IdsOf(r) \in SUBSET Ids
    BY <2>1
  <2> HIDE DEF r
  <2> QED
    BY <1>1, <2>1, <2>2, <2>3, <2>4, <2>5
<1>6. CASE UnregisterInferenceProvider
  BY <1>3, <1>6 DEF UnregisterInferenceProvider
<1>7. CASE ReceiveReply
  <2>1. PICK r \in syncing, a \in reply, freed \in SUBSET Ids :
          /\ freed \subseteq IdsOf(r)
          /\ functions' = functions \ freed
          /\ unadopted' = (unadopted \ a.adopted) \ freed
          /\ carried' = carried \ (a.adopted \cup IdsOf(r))
          /\ syncing' = {} /\ UNCHANGED <<functionSequence, watermark, orderedSequence>>
    BY <1>7, ReplyFacts
  <2> QED
    BY <2>1
<1>8. CASE GiveUp
  <2>1. /\ UNCHANGED <<functions, unadopted, carried, functionSequence, watermark,
                      orderedSequence>>
        /\ syncing' = {}
    BY <1>8 DEF GiveUp
  <2> QED
    BY <2>1
<1>9. CASE HearAdopted
  BY <1>9 DEF HearAdopted, Take
<1>10. CASE HearResult
  <2> DEFINE orphans == SettledOrphans({Head(toUtility).id}, unadopted)
  <2>1. /\ functions' = functions \ orphans /\ unadopted' = unadopted \ orphans
        /\ carried' = carried \ {Head(toUtility).id}
        /\ UNCHANGED <<functionSequence, watermark, orderedSequence, syncing>>
    BY <1>10 DEF HearResult, Take
  <2>2. orphans \subseteq {Head(toUtility).id}
    BY DEF SettledOrphans
  <2> HIDE DEF orphans
  <2> QED
    BY <2>1, <2>2
<1>11. CASE HearRelease
  BY <1>11 DEF HearRelease, Take, Drop
<1>12. CASE HearPing
  BY <1>12 DEF HearPing, Take, NumberOrNone
<1>13. CASE HearReconcile
  BY <1>13 DEF HearReconcile, Take, Drop
<1>14. CASE UNCHANGED utilityVars
  BY <1>14 DEF utilityVars
<1>15. Host \/ Collector \/ UNCHANGED vars => UNCHANGED utilityVars
  BY DEF Host, Collector, vars, ReadRequest, DecodeCallback, RegisterInferenceProvider,
         RefuseInferenceProvider, TrackProvider, FinishCallback, ReceiveInvoke, ReceiveEvent,
         OrderedCall, ReceiveOrdered, ReceiveUnregister, FinishOrdered, ReceivePong,
         BarrierResolved, Receive, FinishInvoke,
         ReconcileUtilityCallbacks, CollectStub, CollectProvider
<1> QED
  BY <1>4, <1>5, <1>6, <1>7, <1>8, <1>9, <1>10, <1>11, <1>12, <1>13, <1>14, <1>15
  DEF Next, Utility

LEMMA HostTypesStep ==
    ASSUME TypeInv, CountInv, [Next]_vars
    PROVE  HostTypes'
<1>40. begun \in BOOLEAN /\ resolved \in BOOLEAN /\ (OneAtATime => ~begun /\ ~resolved)
  BY DEF TypeInv
<1> USE NumbersTyped DEF HostTypes, TypeInv, OneAtATime
<1>1. ASSUME NEW r \in waiting, NEW ok \in BOOLEAN, TrackProvider(r),
             Respond(r, ok, IdsOf(r))
      PROVE  /\ waiting' \subseteq Requests /\ handling' \subseteq Requests
             /\ serving' \subseteq Ids /\ stubs' \subseteq Ids /\ liveStreams' \subseteq Ids
             /\ polled' \in NumberOrNone /\ idle' \in NumberOrNone
             /\ draining' \in Nat /\ pings' \in Nat /\ orderedCompleted' \in Nat
             /\ UNCHANGED turnVars
  <2>1. /\ waiting' = waiting \ {r} /\ handling' = handling \ {r}
        /\ \E n \in {0, draining} : pings' = pings + n /\ draining' = draining - n
    BY <1>1, RespondFacts
  <2>2. draining' \in Nat /\ pings' \in Nat
    BY <2>1
  <2>3. r.n \in Numbers /\ Stream(r.n) \in Ids
    BY IdFacts
  <2> QED
    BY <1>1, <2>1, <2>2, <2>3 DEF TrackProvider, NumberOrNone, Numbers
<1>2. CASE UNCHANGED hostVars
  BY <1>2 DEF hostVars, requestVars, providerVars, turnVars
<1>3. Utility => UNCHANGED hostVars
  BY DEF Utility, HandOver, SyncCall, UnregisterInferenceProvider, ReceiveReply, GiveUp,
         HearAdopted, HearResult, HearRelease, HearPing, HearReconcile, Take
<1>4. CASE ReadRequest
  <2>1. Head(unread) \in Requests
    BY <1>4, TakeFromChannel DEF ReadRequest
  <2> QED
    BY <1>4, <2>1 DEF ReadRequest, providerVars, turnVars
<1>5. ASSUME NEW r \in waiting, DecodeCallback(r)
      PROVE  HostTypes'
  BY <1>5 DEF DecodeCallback, providerVars, turnVars
<1>6. ASSUME NEW r \in waiting, RegisterInferenceProvider(r)
      PROVE  HostTypes'
  <2>1. TrackProvider(r) /\ Respond(r, TRUE, IdsOf(r))
    BY <1>6 DEF RegisterInferenceProvider
  <2>2. installed' = r.n /\ providers' = providers \cup {r.n} /\ UNCHANGED refused
    BY <1>6 DEF RegisterInferenceProvider
  <2>3. r.n \in Numbers /\ r.n \in NumberOrNone
    BY DEF Numbers, NumberOrNone
  <2> QED
    BY <1>1, <2>1, <2>2, <2>3 DEF turnVars
<1>7. ASSUME NEW r \in waiting, RefuseInferenceProvider(r)
      PROVE  HostTypes'
  <2>1. TrackProvider(r) /\ Respond(r, FALSE, IdsOf(r))
    BY <1>7 DEF RefuseInferenceProvider
  <2>2. installed' \in {installed, 0} /\ refused' = refused \cup {r.n} /\ UNCHANGED providers
    BY <1>7 DEF RefuseInferenceProvider
  <2>3. r.n \in Numbers /\ 0 \in NumberOrNone
    BY DEF Numbers, NumberOrNone
  <2> QED
    BY <1>1, <2>1, <2>2, <2>3 DEF turnVars
<1>8. ASSUME NEW r \in handling, FinishCallback(r)
      PROVE  HostTypes'
  <2>1. /\ waiting' = waiting \ {r} /\ handling' = handling \ {r}
        /\ \E n \in {0, draining} : pings' = pings + n /\ draining' = draining - n
    BY <1>8, RespondFacts DEF FinishCallback
  <2>2. draining' \in Nat /\ pings' \in Nat
    BY <2>1
  <2> QED
    BY <1>8, <2>1, <2>2 DEF FinishCallback, providerVars, turnVars
<1>9. CASE ReceiveInvoke
  <2>1. Receive("invoke", 1)
    BY <1>9 DEF ReceiveInvoke
  <2>2. Head(toHost).id \in Ids /\ UNCHANGED <<waiting, handling, draining, runtime>>
    BY <2>1, ReceiveFacts DEF Carrying
  <2> QED
    BY <1>9, <2>2 DEF ReceiveInvoke, providerVars
<1>10. ASSUME NEW k \in DOMAIN toHost, ReceiveEvent(k)
       PROVE  HostTypes'
  <2>1. Receive("event", k)
    BY <1>10 DEF ReceiveEvent
  <2>2. toHost[k].id \in Ids /\ UNCHANGED <<waiting, handling, draining, runtime>>
    BY <2>1, ReceiveFacts DEF Carrying
  <2> QED
    BY <1>10, <2>2 DEF ReceiveEvent, providerVars
<1>11. CASE ReceiveOrdered
  <2>1. OrderedCall("ordered")
    BY <1>11 DEF ReceiveOrdered
  <2>3. /\ Receive("ordered", 1)
        /\ UNCHANGED <<serving, pings>> /\ resolved' = resolved
        /\ \/ orderedCompleted' = orderedCompleted + 1 /\ begun' = begun
           \/ orderedCompleted' = orderedCompleted /\ begun' = TRUE /\ ~OneAtATime
    BY <2>1, OrderedFacts
  <2>4. Head(toHost).id \in Ids /\ UNCHANGED <<waiting, handling, draining, runtime>>
    BY <2>3, ReceiveFacts DEF Carrying
  <2>2. /\ stubs' = stubs \cup {Head(toHost).id} \/ stubs' = stubs
        /\ UNCHANGED providerVars
    BY <1>11 DEF ReceiveOrdered
  <2>5. begun' \in BOOLEAN /\ resolved' \in BOOLEAN /\ (OneAtATime => ~begun' /\ ~resolved')
    BY <2>1, OrderedFacts
  <2>6. orderedCompleted' \in Nat
    BY <2>3
  <2> QED
    BY <2>2, <2>3, <2>4, <2>5, <2>6 DEF providerVars
<1>12. CASE ReceiveUnregister
  <2>1. OrderedCall("unregister")
    BY <1>12 DEF ReceiveUnregister
  <2>3. /\ Receive("unregister", 1)
        /\ UNCHANGED <<serving, pings>> /\ resolved' = resolved
        /\ \/ orderedCompleted' = orderedCompleted + 1 /\ begun' = begun
           \/ orderedCompleted' = orderedCompleted /\ begun' = TRUE /\ ~OneAtATime
    BY <2>1, OrderedFacts
  <2>4. UNCHANGED <<waiting, handling, draining, runtime>>
    BY <2>3, ReceiveFacts
  <2>5. /\ polled' = 0 /\ idle' = 0 /\ installed' = 0
        /\ UNCHANGED <<stubs, providers, refused, liveStreams>>
    BY <1>12 DEF ReceiveUnregister
  <2>2. 0 \in NumberOrNone
    BY DEF NumberOrNone
  <2>6. begun' \in BOOLEAN /\ resolved' \in BOOLEAN /\ (OneAtATime => ~begun' /\ ~resolved')
    BY <2>1, OrderedFacts
  <2>7. orderedCompleted' \in Nat
    BY <2>3
  <2> QED
    BY <2>2, <2>3, <2>4, <2>5, <2>6, <2>7
<1>13. ASSUME NEW k \in DOMAIN toHost, ReceivePong(k)
       PROVE  HostTypes'
  <2>0. /\ Receive("pong", k) /\ pings' = pings - 1
        /\ UNCHANGED <<serving, orderedCompleted, stubs, begun>>
        /\ UNCHANGED providerVars
        /\ resolved' \in BOOLEAN /\ (OneAtATime => ~resolved')
    BY <1>13, PongFacts
  <2>1. /\ toHost \in Seq(ToHostMessages) /\ toHost[k].type = "pong"
        /\ k \in 1..Len(toHost)
        /\ UNCHANGED <<waiting, handling, draining, runtime>>
    BY <2>0, ReceiveFacts
  <2>2. Len(toHost) \in Nat
    BY <2>1, LenProperties
  <2>3. Count(toHost, {"pong"}, Len(toHost)) > 0
    <3>1. toHost[k].type \in {"pong"}
      BY <2>1
    <3> QED
      BY <2>1, <2>2, <3>1, CountSome
  <2>4. /\ Count(toHost, {"pong"}, Len(toHost)) \in Nat
        /\ Count(toUtility, {"ping"}, Len(toUtility)) \in Nat
    BY <2>2, CountType, LenProperties
  <2>5. pings' \in Nat
    <3>1. pings = Count(toUtility, {"ping"}, Len(toUtility))
                    + Count(toHost, {"pong"}, Len(toHost))
      BY DEF CountInv
    <3>2. pings' = pings - 1
      BY <2>0
    <3>3. \A x, y \in Nat : y > 0 => (x + y) - 1 \in Nat
      OBVIOUS
    <3> QED
      BY <2>3, <2>4, <3>1, <3>2, <3>3
  <2> QED
    BY <2>0, <2>1, <2>5 DEF providerVars
<1>14. ASSUME NEW i \in serving, FinishInvoke(i)
       PROVE  HostTypes'
  BY <1>14 DEF FinishInvoke, providerVars, turnVars
<1>15. CASE ReconcileUtilityCallbacks
  <2>1. /\ UNCHANGED <<orderedCompleted, waiting, handling, serving, stubs>>
        /\ UNCHANGED <<providers, refused, installed, polled, idle, liveStreams>>
        /\ UNCHANGED <<runtime, begun, resolved>>
    BY <1>15 DEF ReconcileUtilityCallbacks, requestVars, providerVars, turnVars
  <2>2. \/ pings' = pings + 1 /\ draining' = draining
        \/ pings' = pings /\ draining' = draining + 1
    BY <1>15 DEF ReconcileUtilityCallbacks
  <2>3. draining' \in Nat /\ pings' \in Nat
    BY <2>2
  <2> QED
    BY <2>1, <2>3
<1>16. ASSUME NEW i \in stubs, CollectStub(i)
       PROVE  HostTypes'
  BY <1>16 DEF CollectStub, requestVars, providerVars, turnVars
<1>17. ASSUME NEW p \in providers \cup refused, CollectProvider(p)
       PROVE  HostTypes'
  BY <1>17 DEF CollectProvider, requestVars, turnVars, NumberOrNone, Numbers
<1>18. UNCHANGED vars => UNCHANGED hostVars
  BY DEF vars
<1>19. CASE FinishOrdered
  <2>1. begun' \in BOOLEAN /\ resolved' \in BOOLEAN /\ (OneAtATime => ~begun' /\ ~resolved')
    BY <1>19, Zenon DEF FinishOrdered
  <2>2. /\ orderedCompleted' = orderedCompleted + 1
        /\ UNCHANGED <<waiting, handling, serving, stubs, draining, pings, runtime>>
        /\ UNCHANGED <<providers, refused, installed, polled, idle, liveStreams>>
    BY <1>19 DEF FinishOrdered, providerVars
  <2> QED
    BY <2>1, <2>2
<1>20. CASE BarrierResolved
  <2>1. begun' \in BOOLEAN /\ resolved' \in BOOLEAN /\ (OneAtATime => ~begun' /\ ~resolved')
    BY <1>20, Zenon DEF BarrierResolved
  <2>2. /\ orderedCompleted' = orderedCompleted + (IF begun THEN 1 ELSE 0)
        /\ UNCHANGED <<waiting, handling, serving, stubs, draining, pings, runtime>>
        /\ UNCHANGED <<providers, refused, installed, polled, idle, liveStreams>>
    BY <1>20 DEF BarrierResolved, providerVars
  <2> QED
    BY <2>1, <2>2
<1> QED
  BY <1>2, <1>3, <1>4, <1>5, <1>6, <1>7, <1>8, <1>9, <1>10, <1>11, <1>12, <1>13, <1>14,
     <1>15, <1>16, <1>17, <1>18, <1>19, <1>20
  DEF Next, Host, Collector

LEMMA ChannelTypesStep ==
    ASSUME TypeInv, [Next]_vars
    PROVE  ChannelTypes'
<1> USE NumbersTyped DEF ChannelTypes
<1>0. /\ toHost \in Seq(ToHostMessages) /\ toUtility \in Seq(ToUtilityMessages)
      /\ unread \in Seq(Requests)
      /\ reply \subseteq Replies /\ \A a, b \in reply : a = b
      /\ reply # {} => syncing # {}
  BY DEF TypeInv
<1>1. CASE UNCHANGED <<toHost, toUtility, unread, reply, syncing>>
  BY <1>0, <1>1
<1>2. ASSUME NEW type \in {"invoke", "ordered", "event"}, HandOver(type)
      PROVE  ChannelTypes'
  <2>1. functionSequence + 1 \in Numbers
    BY <1>2 DEF HandOver, Register, Numbers, TypeInv, NumberOrNone
  <2>2. [type |-> type, id |-> Fn(functionSequence + 1)] \in ToHostMessages
    BY <2>1, IdFacts, ToHostValues DEF Carrying
  <2>3. toHost' = Append(toHost, [type |-> type, id |-> Fn(functionSequence + 1)])
        /\ UNCHANGED <<toUtility, unread, reply, syncing>>
    BY <1>2 DEF HandOver
  <2>4. toHost' \in Seq(ToHostMessages)
    BY <2>2, <2>3, SendFacts
  <2> QED
    BY <1>0, <2>3, <2>4
<1>3. ASSUME NEW kind \in {"callback", "provider"}, SyncCall(kind)
      PROVE  ChannelTypes'
  <2> DEFINE r == [kind |-> kind, n |-> functionSequence + 1, after |-> orderedSequence]
  <2>1. r \in Requests
    BY <1>3 DEF SyncCall, Register, Requests, TypeInv, Numbers, NumberOrNone
  <2>2. unread' = Append(unread, r) /\ syncing' = {r} /\ UNCHANGED <<toHost, toUtility, reply>>
    BY <1>3 DEF SyncCall
  <2>3. unread' \in Seq(Requests)
    BY <1>0, <2>1, <2>2, AppendProperties
  <2> QED
    BY <1>0, <2>2, <2>3
<1>4. CASE UnregisterInferenceProvider
  <2>1. toHost' = Append(toHost, Unregister) /\ UNCHANGED <<toUtility, unread, reply, syncing>>
    BY <1>4 DEF UnregisterInferenceProvider
  <2>2. toHost' \in Seq(ToHostMessages)
    BY <2>1, ToHostValues, SendFacts
  <2> QED
    BY <1>0, <2>1, <2>2
<1>5. CASE ReceiveReply
  BY <1>0, <1>5 DEF ReceiveReply
<1>6. CASE GiveUp
  BY <1>0, <1>6 DEF GiveUp
<1>7. ASSUME NEW type, Take(type), UNCHANGED toHost
      PROVE  ChannelTypes'
  BY <1>0, <1>7, TakeFacts
<1>8. CASE HearPing
  <2>1. Take("ping") /\ toHost' = Append(toHost, Pong)
    BY <1>8 DEF HearPing
  <2>2. toHost' \in Seq(ToHostMessages)
    BY <2>1, ToHostValues, SendFacts
  <2> QED
    BY <1>0, <2>1, <2>2, TakeFacts
<1>9. CASE ReadRequest
  <2>1. unread # <<>> /\ unread' = Tail(unread) /\ UNCHANGED <<toHost, toUtility, reply, syncing>>
    BY <1>9 DEF ReadRequest, utilityVars
  <2>2. unread' \in Seq(Requests)
    BY <1>0, <2>1, TakeFromChannel
  <2> QED
    BY <1>0, <2>1, <2>2
<1>10. ASSUME NEW r \in Requests, NEW ok \in BOOLEAN, Respond(r, ok, IdsOf(r)),
              UNCHANGED utilityVars, UNCHANGED <<toHost, unread>>
       PROVE  ChannelTypes'
  <2>1. \E n \in {0, draining} : Post(Pings(n))
    BY <1>10, RespondFacts
  <2>2. draining \in Nat
    BY DEF TypeInv
  <2>3. toUtility' \in Seq(ToUtilityMessages)
    BY <2>1, <2>2, PostPings
  <2>4. /\ reply' = IF r \in syncing THEN {[ok |-> ok, adopted |-> IdsOf(r)]} ELSE reply
        /\ [ok |-> ok, adopted |-> IdsOf(r)] \in Replies
    BY <1>10, RespondFacts
  <2>5. UNCHANGED syncing
    BY <1>10 DEF utilityVars
  <2> QED
    BY <1>0, <1>10, <2>3, <2>4, <2>5
<1>11. ASSUME NEW r \in waiting, DecodeCallback(r)
       PROVE  ChannelTypes'
  BY <1>1, <1>11 DEF DecodeCallback, utilityVars
<1>12. ASSUME NEW r \in waiting, RegisterInferenceProvider(r)
       PROVE  ChannelTypes'
  BY <1>10, <1>12 DEF RegisterInferenceProvider, TrackProvider, TypeInv
<1>13. ASSUME NEW r \in waiting, RefuseInferenceProvider(r)
       PROVE  ChannelTypes'
  BY <1>10, <1>13 DEF RefuseInferenceProvider, TrackProvider, TypeInv
<1>14. ASSUME NEW r \in handling, FinishCallback(r)
       PROVE  ChannelTypes'
  BY <1>10, <1>14 DEF FinishCallback, TypeInv
<1>15. ASSUME toUtility' \in Seq(ToUtilityMessages),
              toHost' = toHost \/ \E type, k : Receive(type, k),
              UNCHANGED <<unread, reply, syncing>>
       PROVE  ChannelTypes'
  BY <1>0, <1>15, ReceiveFacts
<1>16. \A type, k : Receive(type, k) => UNCHANGED <<unread, reply, syncing>>
  BY DEF Receive, utilityVars
<1>17. CASE ReceiveInvoke
  <2>0. Receive("invoke", 1)
    BY <1>17 DEF ReceiveInvoke
  <2>1. Receive("invoke", 1) /\ Head(toHost).id \in Ids
    BY <2>0, ReceiveFacts DEF Carrying
  <2>2. Post(<<Adopted(Head(toHost).id)>>) \/ Post(<<Result(Head(toHost).id)>>)
    BY <1>17 DEF ReceiveInvoke
  <2>3. toUtility' \in Seq(ToUtilityMessages)
    BY <2>1, <2>2, PostOne, ToUtilityValues
  <2> QED
    BY <1>15, <1>16, <2>1, <2>3
<1>18. ASSUME NEW k \in DOMAIN toHost, ReceiveEvent(k)
       PROVE  ChannelTypes'
  <2>0. Receive("event", k)
    BY <1>18 DEF ReceiveEvent
  <2>1. Receive("event", k) /\ toHost[k].id \in Ids
    BY <2>0, ReceiveFacts DEF Carrying
  <2>2. Post(<<Adopted(toHost[k].id)>>) \/ UNCHANGED toUtility
    BY <1>18 DEF ReceiveEvent
  <2>3. toUtility' \in Seq(ToUtilityMessages)
    BY <1>0, <2>1, <2>2, PostOne, ToUtilityValues
  <2> QED
    BY <1>15, <1>16, <2>1, <2>3
<1>19. CASE ReceiveOrdered
  <2>0. Receive("ordered", 1)
    BY <1>19, OrderedFacts DEF ReceiveOrdered
  <2>1. Receive("ordered", 1) /\ Head(toHost).id \in Ids
    BY <2>0, ReceiveFacts DEF Carrying
  <2> DEFINE i == Head(toHost).id
  <2>2. Post(<<Adopted(i), Result(i)>>) \/ Post(<<Result(i)>>)
    BY <1>19 DEF ReceiveOrdered
  <2>3. /\ Adopted(i) \in ToUtilityMessages /\ Result(i) \in ToUtilityMessages
        /\ Adopted(i).type # "ping" /\ Result(i).type # "ping"
    BY <2>1, ToUtilityValues
  <2> HIDE DEF i
  <2>4. toUtility' \in Seq(ToUtilityMessages)
    BY <2>2, <2>3, PostOne, PostTwo
  <2> QED
    BY <1>15, <1>16, <2>1, <2>4
<1>20. CASE ReceiveUnregister
  <2>1. Receive("unregister", 1)
    BY <1>20, OrderedFacts DEF ReceiveUnregister
  <2>2. Post(IF idle = 0 THEN <<>> ELSE <<Release(Fn(idle))>>)
    BY <1>20 DEF ReceiveUnregister
  <2>3. CASE idle = 0
    <3>1. UNCHANGED toUtility
      BY <2>2, <2>3, PostNone
    <3> QED
      BY <1>0, <1>15, <1>16, <2>1, <3>1
  <2>4. CASE idle # 0
    <3>1. Release(Fn(idle)) \in ToUtilityMessages
      BY <2>4, IdFacts, ToUtilityValues DEF TypeInv
    <3>2. Post(<<Release(Fn(idle))>>)
      BY <2>2, <2>4
    <3>3. toUtility' \in Seq(ToUtilityMessages)
      BY <3>1, <3>2, PostOne
    <3> QED
      BY <1>15, <1>16, <2>1, <3>3
  <2> QED
    BY <2>3, <2>4
<1>21. HeldUtilityCallbackIds \in SUBSET Ids
  BY HeldIds
<1>31. PostSweep => toUtility' \in Seq(ToUtilityMessages)
  <2> DEFINE m == [type |-> "reconcile", held |-> HeldUtilityCallbackIds]
  <2>1. PostSweep => Post(<<m>>)
    BY DEF PostSweep
  <2>2. m \in ToUtilityMessages
    BY <1>21, ToUtilityValues
  <2> HIDE DEF m
  <2> QED
    BY <2>1, <2>2, PostOne
<1>22. ASSUME NEW k \in DOMAIN toHost, ReceivePong(k)
       PROVE  ChannelTypes'
  <2>1. Receive("pong", k) /\ (PostSweep \/ UNCHANGED toUtility)
    BY <1>22, PongFacts
  <2> QED
    BY <1>0, <1>15, <1>16, <1>31, <2>1
<1>29. CASE FinishOrdered
  <2>1. UNCHANGED <<toHost, toUtility, unread, reply, syncing>>
    BY <1>29 DEF FinishOrdered, utilityVars
  <2> QED
    BY <1>1, <2>1
<1>30. CASE BarrierResolved
  <2>1. PostSweep /\ UNCHANGED <<toHost, unread, reply, syncing>>
    BY <1>30 DEF BarrierResolved, utilityVars
  <2> QED
    BY <1>15, <1>31, <2>1
<1>23. ASSUME NEW i \in serving, FinishInvoke(i)
       PROVE  ChannelTypes'
  <2>1. Post(<<Result(i)>>) /\ UNCHANGED <<toHost, unread, reply, syncing>>
    BY <1>23 DEF FinishInvoke, utilityVars
  <2>2. i \in Ids
    BY DEF TypeInv
  <2>3. toUtility' \in Seq(ToUtilityMessages)
    BY <2>1, <2>2, PostOne, ToUtilityValues
  <2> QED
    BY <1>15, <2>1, <2>3
<1>24. CASE ReconcileUtilityCallbacks
  <2>1. Post(<<Ping>>) \/ UNCHANGED toUtility
    BY <1>24 DEF ReconcileUtilityCallbacks
  <2>2. UNCHANGED <<toHost, unread, reply, syncing>>
    BY <1>24 DEF ReconcileUtilityCallbacks, utilityVars
  <2>3. toUtility' \in Seq(ToUtilityMessages)
    BY <1>0, <2>1, PostOne, ToUtilityValues
  <2> QED
    BY <1>15, <2>2, <2>3
<1>25. ASSUME NEW i \in stubs, CollectStub(i)
       PROVE  ChannelTypes'
  <2>1. Post(<<Release(i)>>) /\ UNCHANGED <<toHost, unread, reply, syncing>>
    BY <1>25 DEF CollectStub, utilityVars
  <2>2. i \in Ids
    BY DEF TypeInv
  <2>3. toUtility' \in Seq(ToUtilityMessages)
    BY <2>1, <2>2, PostOne, ToUtilityValues
  <2> QED
    BY <1>15, <2>1, <2>3
<1>26. ASSUME NEW p \in providers \cup refused, CollectProvider(p)
       PROVE  ChannelTypes'
  <2>1. \/ Post(<<Release(Stream(p)), Release(Fn(p))>>)
        \/ Post(<<Release(Stream(p))>>)
    BY <1>26 DEF CollectProvider
  <2>2. UNCHANGED <<toHost, unread, reply, syncing>>
    BY <1>26 DEF CollectProvider, utilityVars
  <2>3. Stream(p) \in Ids /\ Fn(p) \in Ids
    BY IdFacts DEF TypeInv
  <2>4. /\ Release(Stream(p)) \in ToUtilityMessages /\ Release(Fn(p)) \in ToUtilityMessages
        /\ Release(Stream(p)).type # "ping" /\ Release(Fn(p)).type # "ping"
    BY <2>3, ToUtilityValues
  <2>5. toUtility' \in Seq(ToUtilityMessages)
    BY <2>1, <2>4, PostOne, PostTwo
  <2> QED
    BY <1>15, <2>2, <2>5
<1>27. UNCHANGED vars => UNCHANGED <<toHost, toUtility, unread, reply, syncing>>
  BY DEF vars, utilityVars
<1>28. HearAdopted \/ HearResult \/ HearRelease \/ HearReconcile => ChannelTypes'
  BY <1>7 DEF HearAdopted, HearResult, HearRelease, HearReconcile
<1> QED
  BY <1>1, <1>2, <1>3, <1>4, <1>5, <1>6, <1>8, <1>9, <1>11, <1>12, <1>13, <1>14,
     <1>17, <1>18, <1>19, <1>20, <1>22, <1>23, <1>24, <1>25, <1>26, <1>27, <1>28,
     <1>29, <1>30
  DEF Next, Utility, Host, Collector

LEMMA TypeStep ==
    ASSUME TypeInv, CountInv, [Next]_vars
    PROVE  TypeInv'
<1>1. UtilityTypes' /\ HostTypes' /\ ChannelTypes'
  BY UtilityTypesStep, HostTypesStep, ChannelTypesStep
<1> QED
  BY <1>1 DEF TypeInv, UtilityTypes, HostTypes, ChannelTypes

-----------------------------------------------------------------------------
(* What is counted                                                         *)

Ordered == Count(toHost, Orders, Len(toHost))
Pongs == Count(toHost, {"pong"}, Len(toHost))
PingsUnderWay == Count(toUtility, {"ping"}, Len(toUtility))

LEMMA CountsTyped ==
    ASSUME TypeInv
    PROVE  Ordered \in Nat /\ Pongs \in Nat /\ PingsUnderWay \in Nat
<1>1. Len(toHost) \in Nat /\ Len(toUtility) \in Nat
  BY LenProperties DEF TypeInv
<1> QED
  BY <1>1, CountType DEF Ordered, Pongs, PingsUnderWay

LEMMA SendCounts ==
    ASSUME TypeInv, NEW m \in ToHostMessages, toHost' = Append(toHost, m)
    PROVE  /\ Ordered' = Ordered + (IF m.type \in Orders THEN 1 ELSE 0)
           /\ Pongs' = Pongs + (IF m.type = "pong" THEN 1 ELSE 0)
<1>1. toHost \in Seq(ToHostMessages)
  BY DEF TypeInv
<1>2. Len(Append(toHost, m)) = Len(toHost) + 1
  BY <1>1, AppendToChannel
<1>3. \A types : Count(Append(toHost, m), types, Len(toHost) + 1)
                   = Count(toHost, types, Len(toHost)) + (IF m.type \in types THEN 1 ELSE 0)
  BY <1>1, CountAppend
<1> QED
  BY <1>2, <1>3 DEF Ordered, Pongs

LEMMA ReceiveCounts ==
    ASSUME TypeInv, NEW type, NEW k, Receive(type, k)
    PROVE  /\ Ordered = (IF type \in Orders THEN 1 ELSE 0) + Ordered'
           /\ Pongs = (IF type = "pong" THEN 1 ELSE 0) + Pongs'
<1>1. toHost \in Seq(ToHostMessages) /\ k \in DOMAIN toHost /\ toHost' = RemoveAt(toHost, k)
      /\ toHost[k].type = type
  BY ReceiveFacts
<1>2. \A types : Count(toHost, types, Len(toHost))
                   = (IF toHost[k].type \in types THEN 1 ELSE 0)
                       + Count(RemoveAt(toHost, k), types, Len(RemoveAt(toHost, k)))
  BY <1>1, CountRemove
<1> QED
  BY <1>1, <1>2 DEF Ordered, Pongs

LEMMA TakeCounts ==
    ASSUME TypeInv, NEW type, Take(type)
    PROVE  PingsUnderWay = (IF type = "ping" THEN 1 ELSE 0) + PingsUnderWay'
<1>1. toUtility \in Seq(ToUtilityMessages) /\ toUtility # <<>> /\ toUtility' = Tail(toUtility)
      /\ Head(toUtility).type = type
  BY TakeFacts
<1>2. \A types : Count(toUtility, types, Len(toUtility))
                   = (IF Head(toUtility).type \in types THEN 1 ELSE 0)
                       + Count(Tail(toUtility), types, Len(Tail(toUtility)))
  BY <1>1, CountTail
<1> QED
  BY <1>1, <1>2 DEF PingsUnderWay

LEMMA PostCounts ==
    ASSUME TypeInv
    PROVE  /\ Post(<<>>) => PingsUnderWay' = PingsUnderWay
           /\ \A m \in ToUtilityMessages :
                Post(<<m>>) =>
                  PingsUnderWay' = PingsUnderWay + (IF m.type = "ping" THEN 1 ELSE 0)
           /\ \A m, n \in ToUtilityMessages :
                Post(<<m, n>>) /\ m.type # "ping" /\ n.type # "ping" =>
                  PingsUnderWay' = PingsUnderWay
           /\ \A n \in Nat : Post(Pings(n)) => PingsUnderWay' = PingsUnderWay + n
<1>1. Post(<<>>) => PingsUnderWay' = PingsUnderWay
  BY PostNone DEF PingsUnderWay
<1> QED
  BY <1>1, PostOne, PostTwo, PostPings DEF PingsUnderWay

Done == orderedCompleted + Begun
Counts ==
    /\ orderedSequence = Done + Ordered
    /\ pings = PingsUnderWay + Pongs
    /\ draining + pings <= MaxBarriers[runtime]

LEMMA CountStep ==
    ASSUME TypeInv, CountInv, [Next]_vars
    PROVE  CountInv'
<1> USE NumbersTyped, CountsTyped DEF Counts
<1>0. /\ Counts
      /\ draining \in Nat /\ pings \in Nat /\ Done \in Nat /\ orderedSequence \in Nat
  BY DEF CountInv, TypeInv, Ordered, Pongs, PingsUnderWay, Done, Begun
<1>34. MaxBarriers[runtime] \in Nat
  BY DEF TypeInv
<1>35. UNCHANGED <<orderedCompleted, begun>> => UNCHANGED Done
  BY DEF Done, Begun
<1>30. Ordered' \in Nat /\ Pongs' \in Nat /\ PingsUnderWay' \in Nat
  <2>1. TypeInv'
    BY TypeStep
  <2>2. Len(toHost') \in Nat /\ Len(toUtility') \in Nat
    BY <2>1, LenProperties DEF TypeInv
  <2> QED
    BY <2>2, CountType DEF Ordered, Pongs, PingsUnderWay
<1>31. Ordered \in Nat /\ Pongs \in Nat /\ PingsUnderWay \in Nat
  BY CountsTyped
<1> SUFFICES Counts'
  BY DEF CountInv, Ordered, Pongs, PingsUnderWay, Done
<1>1. ASSUME UNCHANGED <<orderedSequence, Done, toHost, pings, draining, runtime>>,
             PingsUnderWay' = PingsUnderWay
      PROVE  Counts'
  BY <1>0, <1>1 DEF Ordered, Pongs
<1>2. UNCHANGED toUtility => PingsUnderWay' = PingsUnderWay
  BY DEF PingsUnderWay
<1>32. ASSUME NEW o \in Nat, NEW p \in Nat,
              Ordered' = Ordered + o, orderedSequence' = orderedSequence + o,
              Pongs' = Pongs + p, PingsUnderWay = p + PingsUnderWay',
              UNCHANGED <<Done, pings, draining, runtime>>
       PROVE  Counts'
  <2>1. orderedSequence' = Done' + Ordered'
    <3>1. orderedSequence = Done + Ordered
      BY <1>0
    <3> QED
      BY <1>0, <1>31, <1>32, <3>1
  <2>2. pings' = PingsUnderWay' + Pongs'
    <3>1. pings = PingsUnderWay + Pongs /\ pings' = pings
      BY <1>0, <1>32
    <3> QED
      BY <1>30, <1>31, <1>32, <3>1
  <2> QED
    BY <1>0, <1>32, <2>1, <2>2
<1>33. Pongs + 0 = Pongs /\ 0 + PingsUnderWay = PingsUnderWay
       /\ Ordered + 0 = Ordered /\ orderedSequence + 0 = orderedSequence
  BY <1>0, <1>31
<1>3. ASSUME NEW type \in {"invoke", "ordered", "event"}, HandOver(type)
      PROVE  Counts'
  <2>1. functionSequence + 1 \in Numbers
    BY <1>3 DEF HandOver, Register, Numbers, TypeInv, NumberOrNone
  <2> DEFINE m == [type |-> type, id |-> Fn(functionSequence + 1)]
  <2>2. m \in ToHostMessages /\ (m.type \in Orders <=> type = "ordered") /\ m.type # "pong"
    BY <2>1, IdFacts, ToHostValues DEF Carrying, Orders
  <2>3. /\ toHost' = Append(toHost, m) /\ UNCHANGED <<toUtility, pings, draining, runtime>>
        /\ UNCHANGED Done
    BY <1>3, <1>35 DEF HandOver, hostVars, requestVars, turnVars
  <2>4. orderedSequence' = orderedSequence + (IF type = "ordered" THEN 1 ELSE 0)
    BY <1>0, <1>3 DEF HandOver
  <2> HIDE DEF m
  <2>5. Ordered' = Ordered + (IF type = "ordered" THEN 1 ELSE 0) /\ Pongs' = Pongs
    BY <2>2, <2>3, <1>31, SendCounts
  <2> DEFINE o == IF type = "ordered" THEN 1 ELSE 0
  <2>6. o \in Nat /\ Ordered' = Ordered + o /\ orderedSequence' = orderedSequence + o
    BY <2>4, <2>5
  <2> HIDE DEF o
  <2>7. PingsUnderWay = 0 + PingsUnderWay' /\ Pongs' = Pongs + 0
    BY <1>2, <1>33, <2>3, <2>5
  <2> QED
    BY <1>32, <2>3, <2>6, <2>7
<1>4. ASSUME NEW kind \in {"callback", "provider"}, SyncCall(kind)
      PROVE  Counts'
  BY <1>1, <1>2, <1>4, <1>35 DEF SyncCall, hostVars, requestVars, turnVars
<1>5. CASE UnregisterInferenceProvider
  <2>1. /\ toHost' = Append(toHost, Unregister) /\ orderedSequence' = orderedSequence + 1
        /\ UNCHANGED <<toUtility, Done, pings, draining, runtime>>
    BY <1>5, <1>35 DEF UnregisterInferenceProvider, hostVars, requestVars, turnVars
  <2>2. Ordered' = Ordered + 1 /\ Pongs' = Pongs
    <3>1. Unregister \in ToHostMessages /\ Unregister.type \in Orders /\ Unregister.type # "pong"
      BY ToHostValues DEF Orders
    <3> QED
      BY <2>1, <3>1, <1>31, SendCounts
  <2>3. PingsUnderWay = 0 + PingsUnderWay' /\ Pongs' = Pongs + 0
    BY <1>2, <1>33, <2>1, <2>2
  <2> QED
    BY <1>32, <2>1, <2>2, <2>3
<1>6. ReceiveReply \/ GiveUp => Counts'
  BY <1>1, <1>2, <1>35 DEF ReceiveReply, GiveUp, hostVars, requestVars, turnVars
<1>7. ASSUME NEW type, Take(type), type # "ping", UNCHANGED toHost
      PROVE  Counts'
  <2>1. PingsUnderWay = PingsUnderWay'
    BY <1>7, <1>30, TakeCounts
  <2> QED
    BY <1>1, <1>7, <1>35, <2>1 DEF Take, hostVars, requestVars, turnVars
<1>8. HearAdopted \/ HearResult \/ HearRelease \/ HearReconcile => Counts'
  BY <1>7 DEF HearAdopted, HearResult, HearRelease, HearReconcile
<1>9. CASE HearPing
  <2>1. PingsUnderWay = 1 + PingsUnderWay'
    BY <1>9, TakeCounts DEF HearPing
  <2>2. /\ toHost' = Append(toHost, Pong)
        /\ UNCHANGED <<orderedSequence, Done, pings, draining, runtime>>
    BY <1>9, <1>35 DEF HearPing, Take, hostVars, requestVars, turnVars
  <2>3. Ordered' = Ordered /\ Pongs' = Pongs + 1
    <3>1. Pong \in ToHostMessages /\ Pong.type \notin Orders /\ Pong.type = "pong"
      BY ToHostValues DEF Orders
    <3> QED
      BY <2>2, <3>1, <1>31, SendCounts
  <2>4. Ordered' = Ordered + 0 /\ orderedSequence' = orderedSequence + 0
    BY <1>33, <2>2, <2>3
  <2> QED
    BY <1>32, <2>1, <2>2, <2>3, <2>4
<1>10. ASSUME UNCHANGED <<toHost, orderedSequence, Done, runtime>>,
              NEW r \in Requests, NEW ok \in BOOLEAN, Respond(r, ok, IdsOf(r))
       PROVE  Counts'
  <2>1. PICK n \in {0, draining} : Post(Pings(n)) /\ pings' = pings + n /\ draining' = draining - n
    BY <1>10, RespondFacts
  <2>4. n \in Nat
    BY <1>0
  <2>2. PingsUnderWay' = PingsUnderWay + n
    BY <2>1, <2>4, PostCounts
  <2>3. Ordered' = Ordered /\ Pongs' = Pongs
    BY <1>10 DEF Ordered, Pongs
  <2> QED
    BY <1>0, <1>10, <2>1, <2>2, <2>3, <2>4
<1>11. ASSUME NEW r \in waiting, RegisterInferenceProvider(r) \/ RefuseInferenceProvider(r)
       PROVE  Counts'
  <2>1. \E ok \in BOOLEAN : Respond(r, ok, IdsOf(r))
    BY <1>11 DEF RegisterInferenceProvider, RefuseInferenceProvider
  <2>2. UNCHANGED <<toHost, orderedSequence, Done, runtime>>
    BY <1>11, <1>35 DEF RegisterInferenceProvider, RefuseInferenceProvider, TrackProvider,
                        utilityVars, turnVars
  <2> QED
    BY <1>10, <2>1, <2>2 DEF TypeInv
<1>12. ASSUME NEW r \in handling, FinishCallback(r)
       PROVE  Counts'
  <2>1. Respond(r, TRUE, IdsOf(r)) /\ UNCHANGED <<toHost, orderedSequence, Done, runtime>>
    BY <1>12, <1>35 DEF FinishCallback, utilityVars, turnVars
  <2> QED
    BY <1>10, <2>1 DEF TypeInv
<1>13. ReadRequest \/ (\E r \in waiting : DecodeCallback(r)) => Counts'
  BY <1>1, <1>2, <1>35 DEF ReadRequest, DecodeCallback, utilityVars, turnVars
<1>14. ASSUME NEW type, NEW k, Receive(type, k), PingsUnderWay' = PingsUnderWay,
              Done' = Done + (IF type \in Orders THEN 1 ELSE 0),
              pings' = pings - (IF type = "pong" THEN 1 ELSE 0)
       PROVE  Counts'
  <2>1. /\ Ordered = (IF type \in Orders THEN 1 ELSE 0) + Ordered'
        /\ Pongs = (IF type = "pong" THEN 1 ELSE 0) + Pongs'
    BY <1>14, ReceiveCounts
  <2>2. UNCHANGED <<orderedSequence, draining, runtime>>
    BY <1>14, ReceiveFacts DEF utilityVars
  <2> DEFINE o == IF type \in Orders THEN 1 ELSE 0
             p == IF type = "pong" THEN 1 ELSE 0
  <2>3. o \in Nat /\ p \in Nat
    OBVIOUS
  <2>4. /\ Ordered = o + Ordered' /\ Pongs = p + Pongs'
        /\ Done' = Done + o /\ pings' = pings - p
    BY <1>14, <2>1
  <2> HIDE DEF o, p
  <2>5. orderedSequence' = Done' + Ordered'
    BY <1>0, <1>30, <2>2, <2>3, <2>4
  <2>6. pings' = PingsUnderWay' + Pongs'
    <3>1. pings = PingsUnderWay + Pongs /\ PingsUnderWay' = PingsUnderWay
      BY <1>0, <1>14
    <3> QED
      BY <1>30, <1>31, <2>3, <2>4, <3>1
  <2>7. draining' + pings' <= MaxBarriers[runtime]'
    BY <1>0, <1>34, <2>2, <2>3, <2>4
  <2> QED
    BY <2>5, <2>6, <2>7
<1>15. pings + 0 = pings /\ pings - 0 = pings /\ Done + 0 = Done
  BY <1>0
<1>16. CASE ReceiveInvoke
  <2>0. Receive("invoke", 1)
    BY <1>16 DEF ReceiveInvoke
  <2>1. Head(toHost).id \in Ids
    BY <2>0, ReceiveFacts DEF Carrying
  <2>2. Post(<<Adopted(Head(toHost).id)>>) \/ Post(<<Result(Head(toHost).id)>>)
    BY <1>16 DEF ReceiveInvoke
  <2>3. PingsUnderWay' = PingsUnderWay
    BY <2>1, <2>2, PostCounts, ToUtilityValues
  <2>4. UNCHANGED <<Done, pings>>
    BY <1>16, <1>35 DEF ReceiveInvoke
  <2> QED
    BY <1>14, <1>15, <2>0, <2>3, <2>4 DEF Orders
<1>17. ASSUME NEW k \in DOMAIN toHost, ReceiveEvent(k)
       PROVE  Counts'
  <2>0. Receive("event", k)
    BY <1>17 DEF ReceiveEvent
  <2>1. toHost[k].id \in Ids
    BY <2>0, ReceiveFacts DEF Carrying
  <2>2. Post(<<Adopted(toHost[k].id)>>) \/ UNCHANGED toUtility
    BY <1>17 DEF ReceiveEvent
  <2>3. PingsUnderWay' = PingsUnderWay
    BY <1>2, <2>1, <2>2, PostCounts, ToUtilityValues
  <2>4. UNCHANGED <<Done, pings>>
    BY <1>17, <1>35 DEF ReceiveEvent
  <2> QED
    BY <1>14, <1>15, <2>0, <2>3, <2>4 DEF Orders
<1>26. ASSUME NEW type \in Orders, OrderedCall(type), PingsUnderWay' = PingsUnderWay
       PROVE  Counts'
  <2>1. /\ Receive(type, 1) /\ ~begun /\ UNCHANGED pings
        /\ \/ orderedCompleted' = orderedCompleted + 1 /\ begun' = begun
           \/ orderedCompleted' = orderedCompleted /\ begun' = TRUE
    BY <1>26, OrderedFacts
  <2>2. Done' = Done + 1
    <3>1. Done = orderedCompleted + 0 /\ orderedCompleted \in Nat
      BY <2>1 DEF Done, Begun, TypeInv
    <3>2. Done' = orderedCompleted + 1
      BY <2>1, <3>1 DEF Done, Begun
    <3> QED
      BY <3>1, <3>2
  <2>3. type # "pong"
    BY DEF Orders
  <2> QED
    BY <1>14, <1>15, <1>26, <2>1, <2>2, <2>3
<1>18. CASE ReceiveOrdered
  <2>0. OrderedCall("ordered")
    BY <1>18 DEF ReceiveOrdered
  <2>1. Head(toHost).id \in Ids
    <3>1. Receive("ordered", 1)
      BY <2>0, OrderedFacts
    <3> QED
      BY <3>1, ReceiveFacts DEF Carrying
  <2> DEFINE i == Head(toHost).id
  <2>2. Post(<<Adopted(i), Result(i)>>) \/ Post(<<Result(i)>>)
    BY <1>18 DEF ReceiveOrdered
  <2>3. /\ Adopted(i) \in ToUtilityMessages /\ Result(i) \in ToUtilityMessages
        /\ Adopted(i).type # "ping" /\ Result(i).type # "ping"
    BY <2>1, ToUtilityValues
  <2> HIDE DEF i
  <2>4. PingsUnderWay' = PingsUnderWay
    BY <2>2, <2>3, PostCounts
  <2> QED
    BY <1>26, <2>0, <2>4 DEF Orders
<1>19. CASE ReceiveUnregister
  <2>1. OrderedCall("unregister") /\ Post(IF idle = 0 THEN <<>> ELSE <<Release(Fn(idle))>>)
    BY <1>19 DEF ReceiveUnregister
  <2>2. idle # 0 => Release(Fn(idle)) \in ToUtilityMessages /\ Release(Fn(idle)).type # "ping"
    BY IdFacts, ToUtilityValues DEF TypeInv
  <2>3. PingsUnderWay' = PingsUnderWay
    <3>1. CASE idle = 0
      BY <2>1, <3>1, PostCounts
    <3>2. CASE idle # 0
      BY <2>1, <2>2, <3>2, PostCounts
    <3> QED
      BY <3>1, <3>2
  <2> QED
    BY <1>26, <2>1, <2>3 DEF Orders
<1>27. PostSweep => PingsUnderWay' = PingsUnderWay
  <2> DEFINE m == [type |-> "reconcile", held |-> HeldUtilityCallbackIds]
  <2>1. PostSweep => Post(<<m>>)
    BY DEF PostSweep
  <2>2. m \in ToUtilityMessages /\ m.type # "ping"
    <3>1. HeldUtilityCallbackIds \in SUBSET Ids
      BY HeldIds
    <3> QED
      BY <3>1, ToUtilityValues
  <2> HIDE DEF m
  <2> QED
    BY <2>1, <2>2, PostCounts
<1>20. ASSUME NEW k \in DOMAIN toHost, ReceivePong(k)
       PROVE  Counts'
  <2>1. /\ Receive("pong", k) /\ pings' = pings - 1
        /\ UNCHANGED <<orderedCompleted, begun>>
        /\ PostSweep \/ UNCHANGED toUtility
    BY <1>20, PongFacts
  <2>2. PingsUnderWay' = PingsUnderWay
    BY <1>2, <1>27, <2>1
  <2>3. UNCHANGED Done
    BY <1>35, <2>1
  <2> QED
    BY <1>14, <1>15, <2>1, <2>2, <2>3 DEF Orders
<1>28. CASE FinishOrdered
  <2>1. /\ begun /\ begun' = FALSE /\ orderedCompleted' = orderedCompleted + 1
        /\ UNCHANGED <<orderedSequence, toHost, toUtility, pings, draining, runtime>>
    BY <1>28 DEF FinishOrdered, utilityVars
  <2>2. UNCHANGED Done
    <3>1. orderedCompleted \in Nat
      BY DEF TypeInv
    <3> QED
      BY <2>1, <3>1 DEF Done, Begun
  <2> QED
    BY <1>1, <1>2, <2>1, <2>2
<1>29. CASE BarrierResolved
  <2>1. /\ PostSweep /\ begun' = FALSE
        /\ orderedCompleted' = orderedCompleted + (IF begun THEN 1 ELSE 0)
        /\ UNCHANGED <<orderedSequence, toHost, pings, draining, runtime>>
    BY <1>29 DEF BarrierResolved, utilityVars
  <2>2. UNCHANGED Done
    <3>1. /\ orderedCompleted' = orderedCompleted + Begun
          /\ Begun' = 0 /\ Begun \in Nat /\ orderedCompleted \in Nat
      BY <2>1 DEF TypeInv, Begun
    <3> QED
      BY <3>1 DEF Done
  <2> QED
    BY <1>1, <1>27, <2>1, <2>2
<1>21. ASSUME NEW i \in serving, FinishInvoke(i)
       PROVE  Counts'
  <2>1. Result(i) \in ToUtilityMessages /\ Result(i).type # "ping"
    BY ToUtilityValues DEF TypeInv
  <2>2. Post(<<Result(i)>>)
    BY <1>21 DEF FinishInvoke
  <2>3. PingsUnderWay' = PingsUnderWay
    BY <2>1, <2>2, PostCounts
  <2> QED
    BY <1>1, <1>21, <1>35, <2>3 DEF FinishInvoke, utilityVars, turnVars
<1>22. CASE ReconcileUtilityCallbacks
  <2>1. UNCHANGED <<toHost, orderedSequence, Done, runtime>>
    BY <1>22, <1>35 DEF ReconcileUtilityCallbacks, utilityVars, requestVars, turnVars
  <2>2. Ordered' = Ordered /\ Pongs' = Pongs
    BY <2>1 DEF Ordered, Pongs
  <2>3. draining + pings < MaxBarriers[runtime]
    BY <1>22 DEF ReconcileUtilityCallbacks
  <2>4. \/ PingsUnderWay' = PingsUnderWay + 1 /\ pings' = pings + 1 /\ UNCHANGED draining
        \/ PingsUnderWay' = PingsUnderWay /\ draining' = draining + 1 /\ UNCHANGED pings
    <3>1. CASE waiting \cup handling = {}
      <4>1. Post(<<Ping>>) /\ pings' = pings + 1 /\ UNCHANGED draining
        BY <1>22, <3>1 DEF ReconcileUtilityCallbacks
      <4> QED
        BY <4>1, PostCounts, ToUtilityValues
    <3>2. CASE waiting \cup handling # {}
      BY <1>2, <1>22, <3>2 DEF ReconcileUtilityCallbacks
    <3> QED
      BY <3>1, <3>2
  <2> QED
    BY <1>0, <1>34, <2>1, <2>2, <2>3, <2>4
<1>23. ASSUME NEW i \in stubs, CollectStub(i)
       PROVE  Counts'
  <2>1. Release(i) \in ToUtilityMessages /\ Release(i).type # "ping"
    BY ToUtilityValues DEF TypeInv
  <2>2. Post(<<Release(i)>>)
    BY <1>23 DEF CollectStub
  <2>3. PingsUnderWay' = PingsUnderWay
    BY <2>1, <2>2, PostCounts
  <2> QED
    BY <1>1, <1>23, <1>35, <2>3 DEF CollectStub, utilityVars, requestVars, turnVars
<1>24. ASSUME NEW p \in providers \cup refused, CollectProvider(p)
       PROVE  Counts'
  <2>1. /\ Release(Stream(p)) \in ToUtilityMessages /\ Release(Fn(p)) \in ToUtilityMessages
        /\ Release(Stream(p)).type # "ping" /\ Release(Fn(p)).type # "ping"
    BY IdFacts, ToUtilityValues DEF TypeInv
  <2>2. \/ Post(<<Release(Stream(p)), Release(Fn(p))>>)
        \/ Post(<<Release(Stream(p))>>)
    BY <1>24 DEF CollectProvider
  <2>3. PingsUnderWay' = PingsUnderWay
    BY <2>1, <2>2, PostCounts
  <2> QED
    BY <1>1, <1>24, <1>35, <2>3 DEF CollectProvider, utilityVars, requestVars, turnVars
<1>25. UNCHANGED vars => Counts'
  BY <1>1, <1>2, <1>35 DEF vars, utilityVars, hostVars, requestVars, turnVars
<1> QED
  BY <1>3, <1>4, <1>5, <1>6, <1>8, <1>9, <1>11, <1>12, <1>13, <1>16, <1>17, <1>18, <1>19,
     <1>20, <1>21, <1>22, <1>23, <1>24, <1>25, <1>28, <1>29
  DEF Next, Utility, Host, Collector

IInvTypes == TypeInv /\ CountInv

LEMMA InitTypes == Init => IInvTypes
<1> SUFFICES ASSUME Init PROVE IInvTypes
  OBVIOUS
<1>1. TypeInv
  <2>1. begun \in BOOLEAN /\ resolved \in BOOLEAN /\ ~begun /\ ~resolved
    BY Zenon DEF Init
  <2>2. /\ functions = {} /\ unadopted = {} /\ carried = {}
        /\ functionSequence = 0 /\ watermark = 0 /\ orderedSequence = 0 /\ syncing = {}
        /\ toHost = <<>> /\ toUtility = <<>> /\ unread = <<>> /\ reply = {}
        /\ waiting = {} /\ handling = {} /\ serving = {} /\ orderedCompleted = 0
        /\ stubs = {} /\ providers = {} /\ refused = {} /\ liveStreams = {}
        /\ installed = 0 /\ polled = 0 /\ idle = 0
        /\ draining = 0 /\ pings = 0 /\ runtime \in Runtimes
    BY DEF Init
  <2> QED
    BY <2>1, <2>2, ShortChannels, NumbersTyped DEF TypeInv, NumberOrNone
<1>2. Len(toHost) = 0 /\ Len(toUtility) = 0
  BY DEF Init
<1>3. \A s, types : Count(s, types, 0) = 0
  BY CountNone
<1>4. CountInv
  BY <1>2, <1>3, NumbersTyped DEF Init, CountInv, Begun
<1> QED
  BY <1>1, <1>4 DEF IInvTypes

\* The type invariant: what the processes, the channels and the host keep is of
\* its type at every step; no ordered call is done more often than it was made,
\* and no barrier has more pongs than pings.
THEOREM TypeCorrect == Spec => []TypeOK
<1>1. Init => IInvTypes
  BY InitTypes
<1>2. IInvTypes /\ [Next]_vars => IInvTypes'
  BY TypeStep, CountStep DEF IInvTypes
<1>3. IInvTypes => TypeOK
  <2> SUFFICES ASSUME IInvTypes PROVE TypeOK
    OBVIOUS
  <2>0. TypeInv /\ CountInv
    BY DEF IInvTypes
  <2>1. \A S : (\A a, b \in S : a = b) => S = {} \/ \E a : S = {a}
    OBVIOUS
  <2>2. \A S : (\A a, b \in S : a = b)
                 => Cardinality(S) \in {0, 1} /\ (S # {} => Cardinality(S) = 1)
    BY <2>1, FS_EmptySet, FS_Singleton
  <2>3. Cardinality(syncing) <= 1 /\ Cardinality(reply) <= Cardinality(syncing)
    <3>1. /\ Cardinality(syncing) \in {0, 1} /\ Cardinality(reply) \in {0, 1}
          /\ syncing # {} => Cardinality(syncing) = 1
          /\ reply # {} => syncing # {}
          /\ reply = {} => Cardinality(reply) = 0
      BY <2>0, <2>2, FS_EmptySet DEF TypeInv
    <3> QED
      BY <3>1
  <2>4. Ordered \in Nat /\ Pongs \in Nat /\ PingsUnderWay \in Nat
    BY <2>0, CountsTyped
  <2>5. orderedCompleted \in 0..orderedSequence
    <3>1. Begun \in Nat
      BY DEF Begun
    <3> QED
      BY <2>0, <2>4, <3>1, NumbersTyped DEF TypeInv, CountInv, Ordered
  <2>6. draining \in 0..MaxBarriers[runtime] /\ pings \in 0..MaxBarriers[runtime]
    <3>1. draining \in Nat /\ pings \in Nat /\ MaxBarriers[runtime] \in Nat
      BY <2>0, NumbersTyped DEF TypeInv
    <3>2. draining + pings <= MaxBarriers[runtime]
      BY <2>0 DEF CountInv
    <3> QED
      BY <3>1, <3>2
  <2>7. {installed, polled, idle} \subseteq NumberOrNone
    BY <2>0 DEF TypeInv
  <2> QED
    BY <2>0, <2>3, <2>5, <2>6, <2>7 DEF TypeInv, TypeOK
<1> QED
  BY <1>1, <1>2, <1>3, PTL DEF Spec

-----------------------------------------------------------------------------
(* What an action moves                                                    *)

LEMMA SameChannels ==
    /\ UNCHANGED toHost => WireIds' = WireIds
    /\ UNCHANGED toUtility =>
         AdoptedIds' = AdoptedIds /\ ResultIds' = ResultIds /\ Released' = Released
    /\ UNCHANGED unread => In(unread)' = In(unread)
<1>1. UNCHANGED toHost => In(toHost)' = In(toHost)
  BY DEF In
<1>2. UNCHANGED toUtility => In(toUtility)' = In(toUtility)
  BY DEF In
<1>3. UNCHANGED unread => In(unread)' = In(unread)
  BY DEF In
<1> QED
  BY <1>1, <1>2, <1>3 DEF WireIds, AdoptedIds, ResultIds, Released

\* What is on its way to the host, by ids.
LEMMA OnTheWay ==
    ASSUME TypeInv
    PROVE  /\ UnderWay = WireIds \cup UNION {IdsOf(r) : r \in In(unread) \cup waiting}
           /\ WireIds \subseteq Ids /\ In(unread) \subseteq Requests
           /\ AdoptedIds \subseteq Ids /\ ResultIds \subseteq Ids /\ Released \subseteq Ids
<1>1. /\ In(toHost) \subseteq ToHostMessages /\ In(toUtility) \subseteq ToUtilityMessages
      /\ In(unread) \subseteq Requests
  BY ElementOfSeq, LenProperties DEF TypeInv, In
<1>2. \A m \in In(toHost) : m \notin {Unregister, Pong} <=> m.type \in Carrying
  BY <1>1, ToHostKinds, ToHostValues DEF Carrying
<1>3. In(toHost) \ {Unregister, Pong} = {m \in In(toHost) : m.type \in Carrying}
  BY <1>2
<1>4. UnderWay = WireIds \cup UNION {IdsOf(r) : r \in In(unread) \cup waiting}
  BY <1>3 DEF UnderWay, WireIds
<1>5. WireIds \subseteq Ids
  BY <1>1, ToHostKinds DEF WireIds, Carrying
<1>6. AdoptedIds \subseteq Ids /\ ResultIds \subseteq Ids /\ Released \subseteq Ids
  BY <1>1, ToUtilityKinds DEF AdoptedIds, ResultIds, Released
<1> QED
  BY <1>1, <1>4, <1>5, <1>6

LEMMA SendMoves ==
    ASSUME TypeInv, NEW m \in ToHostMessages, toHost' = Append(toHost, m)
    PROVE  /\ m.type \in Carrying => WireIds' = WireIds \cup {m.id}
           /\ m.type \notin Carrying => WireIds' = WireIds
<1>1. In(toHost)' = In(toHost) \cup {m}
  BY SendFacts
<1> QED
  BY <1>1 DEF WireIds

LEMMA ReceiveMoves ==
    ASSUME TypeInv, DistinctInv, NEW type, NEW k, Receive(type, k)
    PROVE  /\ type \in Carrying =>
                /\ toHost[k].id \in Ids /\ toHost[k].id \in WireIds
                /\ WireIds = WireIds' \cup {toHost[k].id}
                /\ \A j \in WireIds' : j[1] # toHost[k].id[1]
           /\ type \notin Carrying => WireIds' = WireIds
<1>1. /\ In(toHost) = In(toHost)' \cup {toHost[k]} /\ toHost[k].type = type
      /\ toHost # <<>> /\ toHost \in Seq(ToHostMessages) /\ toHost' = RemoveAt(toHost, k)
      /\ k \in DOMAIN toHost
      /\ type \in Carrying => toHost[k].id \in Ids
  BY ReceiveFacts
<1>2. type \notin Carrying => WireIds' = WireIds
  BY <1>1 DEF WireIds
<1>3. ASSUME type \in Carrying
      PROVE  toHost[k].id \in WireIds /\ WireIds = WireIds' \cup {toHost[k].id}
  BY <1>1, <1>3 DEF WireIds
<1>4. ASSUME type \in Carrying, NEW j \in WireIds'
      PROVE  j[1] # toHost[k].id[1]
  <2>1. PICK m \in In(toHost)' : m.type \in Carrying /\ m.id = j
    BY <1>4 DEF WireIds
  <2>2. /\ Len(toHost) \in Nat \ {0} /\ DOMAIN toHost = 1..Len(toHost)
        /\ DOMAIN RemoveAt(toHost, k) = 1..Len(toHost) - 1
        /\ \A h \in 1..Len(toHost) - 1 :
              RemoveAt(toHost, k)[h] = IF h < k THEN toHost[h] ELSE toHost[h + 1]
    BY <1>1, RemoveFromChannel
  <2>3. PICK h \in 1..Len(toHost) - 1 : RemoveAt(toHost, k)[h] = m
    BY <1>1, <2>1, <2>2 DEF In
  <2>4. PICK g \in DOMAIN toHost : toHost[g] = m /\ g # k
    <3>1. CASE h < k
      BY <1>1, <2>2, <2>3, <3>1
    <3>2. CASE ~(h < k)
      <4>1. h + 1 \in DOMAIN toHost /\ h + 1 # k /\ toHost[h + 1] = m
        BY <1>1, <2>2, <2>3, <3>2
      <4> QED
        BY <4>1
    <3> QED
      BY <3>1, <3>2
  <2> QED
    BY <1>1, <1>4, <2>1, <2>4 DEF DistinctInv
<1> QED
  BY <1>1, <1>2, <1>3, <1>4

LEMMA TakeMoves ==
    ASSUME TypeInv, NEW type, Take(type)
    PROVE  /\ AdoptedIds' \subseteq AdoptedIds /\ ResultIds' \subseteq ResultIds
           /\ Released' \subseteq Released
           /\ type = "adopted" => /\ AdoptedIds = AdoptedIds' \cup {Head(toUtility).id}
                                  /\ ResultIds' = ResultIds /\ Released' = Released
           /\ type = "result" => /\ ResultIds = ResultIds' \cup {Head(toUtility).id}
                                 /\ AdoptedIds' = AdoptedIds /\ Released' = Released
           /\ type = "release" => /\ Released = Released' \cup {Head(toUtility).id}
                                  /\ AdoptedIds' = AdoptedIds /\ ResultIds' = ResultIds
           /\ type \in {"ping", "reconcile"} =>
                AdoptedIds' = AdoptedIds /\ ResultIds' = ResultIds /\ Released' = Released
<1>1. In(toUtility) = In(toUtility)' \cup {Head(toUtility)} /\ Head(toUtility).type = type
  BY TakeFacts
<1> QED
  BY <1>1 DEF AdoptedIds, ResultIds, Released

LEMMA PostIdsMoves ==
    ASSUME TypeInv, NEW i \in Ids
    PROVE  /\ Post(<<Adopted(i)>>) =>
                /\ AdoptedIds' = AdoptedIds \cup {i}
                /\ ResultIds' = ResultIds /\ Released' = Released
           /\ Post(<<Result(i)>>) =>
                /\ ResultIds' = ResultIds \cup {i}
                /\ AdoptedIds' = AdoptedIds /\ Released' = Released
           /\ Post(<<Adopted(i), Result(i)>>) =>
                /\ AdoptedIds' = AdoptedIds \cup {i} /\ ResultIds' = ResultIds \cup {i}
                /\ Released' = Released
           /\ Post(<<Release(i)>>) =>
                /\ AdoptedIds' = AdoptedIds /\ ResultIds' = ResultIds
                /\ Released' = Released \cup {i}
           /\ \A j \in Ids : Post(<<Release(i), Release(j)>>) =>
                /\ AdoptedIds' = AdoptedIds /\ ResultIds' = ResultIds
                /\ Released' = Released \cup {i, j}
<1>1. \A k \in Ids :
        /\ Adopted(k) \in ToUtilityMessages /\ Adopted(k).type = "adopted" /\ Adopted(k).id = k
        /\ Result(k) \in ToUtilityMessages /\ Result(k).type = "result" /\ Result(k).id = k
        /\ Release(k) \in ToUtilityMessages /\ Release(k).type = "release" /\ Release(k).id = k
  BY ToUtilityValues
<1>2. ASSUME Post(<<Adopted(i)>>)
      PROVE  /\ AdoptedIds' = AdoptedIds \cup {i}
             /\ ResultIds' = ResultIds /\ Released' = Released
  <2>1. In(toUtility)' = In(toUtility) \cup {Adopted(i)}
    BY <1>1, <1>2, PostOne
  <2> QED
    BY <1>1, <2>1 DEF AdoptedIds, ResultIds, Released
<1>3. ASSUME Post(<<Result(i)>>)
      PROVE  /\ ResultIds' = ResultIds \cup {i}
             /\ AdoptedIds' = AdoptedIds /\ Released' = Released
  <2>1. In(toUtility)' = In(toUtility) \cup {Result(i)}
    BY <1>1, <1>3, PostOne
  <2> QED
    BY <1>1, <2>1 DEF AdoptedIds, ResultIds, Released
<1>4. ASSUME Post(<<Adopted(i), Result(i)>>)
      PROVE  /\ AdoptedIds' = AdoptedIds \cup {i} /\ ResultIds' = ResultIds \cup {i}
             /\ Released' = Released
  <2>1. In(toUtility)' = In(toUtility) \cup {Adopted(i), Result(i)}
    BY <1>1, <1>4, PostTwo
  <2> QED
    BY <1>1, <2>1 DEF AdoptedIds, ResultIds, Released
<1>5. ASSUME Post(<<Release(i)>>)
      PROVE  /\ AdoptedIds' = AdoptedIds /\ ResultIds' = ResultIds
             /\ Released' = Released \cup {i}
  <2>1. In(toUtility)' = In(toUtility) \cup {Release(i)}
    BY <1>1, <1>5, PostOne
  <2> QED
    BY <1>1, <2>1 DEF AdoptedIds, ResultIds, Released
<1>6. ASSUME NEW j \in Ids, Post(<<Release(i), Release(j)>>)
      PROVE  /\ AdoptedIds' = AdoptedIds /\ ResultIds' = ResultIds
             /\ Released' = Released \cup {i, j}
  <2>1. In(toUtility)' = In(toUtility) \cup {Release(i), Release(j)}
    BY <1>1, <1>6, PostTwo
  <2> QED
    BY <1>1, <2>1 DEF AdoptedIds, ResultIds, Released
<1> QED
  BY <1>2, <1>3, <1>4, <1>5, <1>6

LEMMA PostOthersMoves ==
    ASSUME TypeInv,
           \/ Post(<<>>)
           \/ Post(<<Ping>>)
           \/ \E n \in Nat : Post(Pings(n))
           \/ \E held \in SUBSET Ids : Post(<<[type |-> "reconcile", held |-> held]>>)
    PROVE  AdoptedIds' = AdoptedIds /\ ResultIds' = ResultIds /\ Released' = Released
<1>1. ASSUME NEW m \in ToUtilityMessages, m.type \in {"ping", "reconcile"},
             In(toUtility) \subseteq In(toUtility)', In(toUtility)' \subseteq In(toUtility) \cup {m}
      PROVE  AdoptedIds' = AdoptedIds /\ ResultIds' = ResultIds /\ Released' = Released
  BY <1>1 DEF AdoptedIds, ResultIds, Released
<1>2. Ping \in ToUtilityMessages /\ Ping.type \in {"ping", "reconcile"}
  BY ToUtilityValues
<1>3. CASE Post(<<>>)
  BY <1>3, PostNone, SameChannels
<1>4. CASE Post(<<Ping>>)
  <2>1. In(toUtility)' = In(toUtility) \cup {Ping}
    BY <1>2, <1>4, PostOne
  <2> QED
    BY <1>1, <1>2, <2>1
<1>5. CASE \E n \in Nat : Post(Pings(n))
  <2>1. /\ In(toUtility) \subseteq In(toUtility)'
        /\ In(toUtility)' \subseteq In(toUtility) \cup {Ping}
    BY <1>5, PostPings
  <2> QED
    BY <1>1, <1>2, <2>1
<1>6. ASSUME NEW held \in SUBSET Ids, Post(<<[type |-> "reconcile", held |-> held]>>)
      PROVE  AdoptedIds' = AdoptedIds /\ ResultIds' = ResultIds /\ Released' = Released
  <2> DEFINE w == [type |-> "reconcile", held |-> held]
  <2>1. w \in ToUtilityMessages /\ w.type \in {"ping", "reconcile"} /\ Post(<<w>>)
    BY <1>6, ToUtilityValues
  <2> HIDE DEF w
  <2>2. In(toUtility)' = In(toUtility) \cup {w}
    BY <2>1, PostOne
  <2> QED
    BY <1>1, <2>1, <2>2
<1> QED
  BY <1>3, <1>4, <1>5, <1>6

\* The effects of the actions on what the invariants are about.
LEMMA HandOverMoves ==
    ASSUME TypeInv, NEW type \in {"invoke", "ordered", "event"}, HandOver(type)
    PROVE  /\ functionSequence' = functionSequence + 1
           /\ functionSequence + 1 \in Numbers
           /\ Fn(functionSequence + 1) \in Ids
           /\ functions' = functions \cup {Fn(functionSequence + 1)}
           /\ unadopted' = unadopted \cup {Fn(functionSequence + 1)}
           /\ carried' \subseteq carried \cup {Fn(functionSequence + 1)}
           /\ WireIds' = WireIds \cup {Fn(functionSequence + 1)}
           /\ syncing = {} /\ reply = {}
           /\ UNCHANGED <<watermark, syncing, toUtility, unread, reply>>
           /\ UNCHANGED hostVars
<1> DEFINE n == functionSequence + 1
<1>1. /\ functionSequence' = n /\ functions' = functions \cup {Fn(n)}
      /\ unadopted' = unadopted \cup {Fn(n)} /\ carried' \subseteq carried \cup {Fn(n)}
      /\ toHost' = Append(toHost, [type |-> type, id |-> Fn(n)])
      /\ syncing = {} /\ UNCHANGED <<watermark, syncing, toUtility, unread, reply>>
      /\ UNCHANGED hostVars
  BY DEF HandOver, Register, Awake
<1>2. n \in Numbers
  BY NumbersTyped DEF HandOver, Register, Numbers, TypeInv, NumberOrNone
<1>3. Fn(n) \in Ids
  BY <1>2, IdFacts
<1>4. WireIds' = WireIds \cup {Fn(n)}
  <2> DEFINE m == [type |-> type, id |-> Fn(n)]
  <2>1. m \in ToHostMessages /\ m.type \in Carrying /\ m.id = Fn(n)
    BY <1>3, ToHostValues DEF Carrying
  <2>2. toHost' = Append(toHost, m)
    BY <1>1
  <2> HIDE DEF m
  <2>3. WireIds' = WireIds \cup {m.id}
    BY <2>1, <2>2, SendMoves
  <2> QED
    BY <2>1, <2>3
<1> QED
  BY <1>1, <1>2, <1>3, <1>4 DEF TypeInv

LEMMA SyncCallMoves ==
    ASSUME TypeInv, NEW kind \in {"callback", "provider"}, SyncCall(kind)
    PROVE  \E r \in Requests :
             /\ r.n = functionSequence + 1 /\ r.kind = kind /\ r.after = orderedSequence
             /\ functionSequence' = functionSequence + 1
             /\ functions' = functions \cup IdsOf(r)
             /\ unadopted' = unadopted \cup IdsOf(r)
             /\ carried' = IF kind = "callback" THEN carried \cup IdsOf(r) ELSE carried
             /\ unread' = Append(unread, r) /\ In(unread)' = In(unread) \cup {r}
             /\ syncing = {} /\ reply = {} /\ syncing' = {r}
             /\ UNCHANGED <<watermark, orderedSequence, toHost, toUtility, reply>>
             /\ UNCHANGED hostVars
<1> DEFINE r == [kind |-> kind, n |-> functionSequence + 1, after |-> orderedSequence]
<1>1. /\ functionSequence' = functionSequence + 1 /\ functions' = functions \cup IdsOf(r)
      /\ unadopted' = unadopted \cup IdsOf(r) /\ unread' = Append(unread, r)
      /\ syncing = {} /\ syncing' = {r}
      /\ UNCHANGED <<watermark, orderedSequence, toHost, toUtility, reply>>
      /\ UNCHANGED hostVars
  BY DEF SyncCall, Register, Awake
<1>2. carried' = IF kind = "callback" THEN carried \cup {Fn(functionSequence + 1)} ELSE carried
  BY DEF SyncCall
<1>3. r \in Requests
  BY NumbersTyped DEF SyncCall, Register, Requests, TypeInv, Numbers, NumberOrNone
<1>4. /\ r.n = functionSequence + 1 /\ r.kind = kind /\ r.after = orderedSequence
      /\ kind = "callback" => IdsOf(r) = {Fn(functionSequence + 1)}
  BY DEF IdsOf
<1> HIDE DEF r
<1>5. In(unread)' = In(unread) \cup {r}
  <2>1. In(Append(unread, r)) = In(unread) \cup {r}
    BY <1>3, AppendToChannel DEF TypeInv
  <2> QED
    BY <1>1, <2>1 DEF In
<1>6. carried' = IF kind = "callback" THEN carried \cup IdsOf(r) ELSE carried
  BY <1>2, <1>4
<1> QED
  BY <1>1, <1>3, <1>4, <1>5, <1>6 DEF TypeInv

LEMMA UnregisterMoves ==
    ASSUME TypeInv, UnregisterInferenceProvider
    PROVE  /\ WireIds' = WireIds
           /\ UNCHANGED <<functions, unadopted, carried, functionSequence, watermark, syncing,
                          toUtility, unread, reply>>
           /\ UNCHANGED hostVars
<1>1. /\ toHost' = Append(toHost, Unregister)
      /\ UNCHANGED <<functions, unadopted, carried, functionSequence, watermark, syncing,
                     toUtility, unread, reply>>
      /\ UNCHANGED hostVars
  BY DEF UnregisterInferenceProvider
<1>2. WireIds' = WireIds
  <2>1. Unregister \in ToHostMessages /\ Unregister.type \notin Carrying
    BY ToHostValues DEF Carrying
  <2> QED
    BY <1>1, <2>1, SendMoves
<1> QED
  BY <1>1, <1>2

LEMMA HearPingMoves ==
    ASSUME TypeInv, HearPing
    PROVE  /\ watermark' = functionSequence /\ toHost' = Append(toHost, Pong)
           /\ WireIds' = WireIds
           /\ UNCHANGED <<functions, unadopted, carried>>
<1>1. /\ watermark' = functionSequence /\ toHost' = Append(toHost, Pong)
      /\ UNCHANGED <<functions, unadopted, carried>>
  BY DEF HearPing
<1>2. Pong \in ToHostMessages /\ Pong.type \notin Carrying
  BY ToHostValues DEF Carrying
<1> QED
  BY <1>1, <1>2, SendMoves

LEMMA ReadRequestMoves ==
    ASSUME TypeInv, ReadRequest
    PROVE  /\ unread # <<>> /\ unread \in Seq(Requests) /\ unread' = Tail(unread)
           /\ Head(unread) \in Requests /\ In(unread) = In(unread)' \cup {Head(unread)}
           /\ waiting' = waiting \cup {Head(unread)}
           /\ \A r \in waiting : ~(r.after <= orderedCompleted)
           /\ UNCHANGED utilityVars
           /\ UNCHANGED <<toHost, toUtility, reply, handling, serving, orderedCompleted, stubs,
                          draining, pings>>
           /\ UNCHANGED providerVars
<1>1. /\ unread # <<>> /\ unread' = Tail(unread) /\ waiting' = waiting \cup {Head(unread)}
      /\ UNCHANGED utilityVars
      /\ UNCHANGED <<toHost, toUtility, reply, handling, serving, orderedCompleted, stubs,
                     draining, pings>>
      /\ UNCHANGED providerVars
      /\ \A r \in waiting : ~(r.after <= orderedCompleted)
  BY DEF ReadRequest, Settled, ReadyRequests
<1>2. unread \in Seq(Requests)
  BY DEF TypeInv
<1>3. Head(unread) \in Requests /\ In(unread) = In(Tail(unread)) \cup {Head(unread)}
  BY <1>1, <1>2, TakeFromChannel
<1>4. In(unread)' = In(Tail(unread))
  BY <1>1 DEF In
<1> QED
  BY <1>1, <1>2, <1>3, <1>4

\* The response leaves the ids of the channel to the utility as they are.
LEMMA RespondMoves ==
    ASSUME TypeInv, NEW r \in Requests, NEW ok \in BOOLEAN, Respond(r, ok, IdsOf(r))
    PROVE  /\ waiting' = waiting \ {r} /\ handling' = handling \ {r}
           /\ r \in syncing => \E a : /\ reply' = {a} /\ a.ok = ok /\ a.adopted = IdsOf(r)
           /\ r \notin syncing => UNCHANGED reply
           /\ AdoptedIds' = AdoptedIds /\ ResultIds' = ResultIds /\ Released' = Released
<1>1. /\ waiting' = waiting \ {r} /\ handling' = handling \ {r}
      /\ reply' = IF r \in syncing THEN {[ok |-> ok, adopted |-> IdsOf(r)]} ELSE reply
      /\ \E n \in {0, draining} : Post(Pings(n))
  BY RespondFacts
<1>2. draining \in Nat
  BY DEF TypeInv
<1>3. \E n \in Nat : Post(Pings(n))
  BY <1>1, <1>2
<1>4. AdoptedIds' = AdoptedIds /\ ResultIds' = ResultIds /\ Released' = Released
  BY <1>3, PostOthersMoves
<1>5. r \in syncing => \E a : /\ reply' = {a} /\ a.ok = ok /\ a.adopted = IdsOf(r)
  <2> SUFFICES ASSUME r \in syncing
               PROVE  \E a : /\ reply' = {a} /\ a.ok = ok /\ a.adopted = IdsOf(r)
    OBVIOUS
  <2> WITNESS [ok |-> ok, adopted |-> IdsOf(r)]
  <2> QED
    BY <1>1
<1> QED
  BY <1>1, <1>4, <1>5

LEMMA DecodeCallbackMoves ==
    ASSUME TypeInv, NEW r \in waiting, DecodeCallback(r)
    PROVE  /\ r.kind = "callback" /\ r \in Requests
           /\ stubs' = stubs \cup IdsOf(r)
           /\ waiting' = waiting \ {r} /\ handling' = handling \cup {r}
           /\ UNCHANGED utilityVars
           /\ UNCHANGED <<toHost, toUtility, unread, reply, serving, orderedCompleted,
                          draining, pings>>
           /\ UNCHANGED providerVars
  BY DEF DecodeCallback, TypeInv

LEMMA FinishCallbackMoves ==
    ASSUME TypeInv, NEW r \in handling, FinishCallback(r)
    PROVE  /\ r \in Requests /\ Respond(r, TRUE, IdsOf(r))
           /\ UNCHANGED utilityVars
           /\ UNCHANGED <<toHost, unread, serving, orderedCompleted, stubs>>
           /\ UNCHANGED providerVars
  BY DEF FinishCallback, TypeInv

LEMMA RegisterProviderMoves ==
    ASSUME TypeInv, NEW r \in waiting, RegisterInferenceProvider(r)
    PROVE  /\ r.kind = "provider" /\ r \in Requests /\ Respond(r, TRUE, IdsOf(r))
           /\ polled' = r.n /\ installed' = r.n
           /\ liveStreams' = liveStreams \cup {Stream(r.n)}
           /\ providers' = providers \cup {r.n}
           /\ UNCHANGED utilityVars
           /\ UNCHANGED <<toHost, unread, serving, orderedCompleted, stubs, idle, refused>>
  BY DEF RegisterInferenceProvider, TrackProvider, TypeInv

LEMMA RefuseProviderMoves ==
    ASSUME TypeInv, NEW r \in waiting, RefuseInferenceProvider(r)
    PROVE  /\ r.kind = "provider" /\ r \in Requests /\ Respond(r, FALSE, IdsOf(r))
           /\ polled' = r.n /\ installed' \in {installed, 0}
           /\ liveStreams' = liveStreams \cup {Stream(r.n)}
           /\ refused' = refused \cup {r.n}
           /\ UNCHANGED utilityVars
           /\ UNCHANGED <<toHost, unread, serving, orderedCompleted, stubs, idle, providers>>
  BY DEF RefuseInferenceProvider, TrackProvider, TypeInv

\* What carries a callback is decoded, and heard to be adopted, or is not. The
\* result of a call that waits for its dispatch comes later.
LEMMA DecodeMoves ==
    ASSUME TypeInv, DistinctInv,
           ReceiveInvoke \/ (\E k \in DOMAIN toHost : ReceiveEvent(k)) \/ ReceiveOrdered
    PROVE  \E i \in Ids :
             /\ i \in WireIds /\ WireIds = WireIds' \cup {i} /\ \A j \in WireIds' : j[1] # i[1]
             /\ Released' = Released
             /\ \/ /\ stubs' = stubs \cup {i} /\ AdoptedIds' = AdoptedIds \cup {i}
                   /\ serving' \subseteq serving \cup {i} /\ serving \subseteq serving'
                   /\ ResultIds \subseteq ResultIds' /\ ResultIds' \subseteq ResultIds \cup {i}
                \/ /\ AdoptedIds' = AdoptedIds
                   /\ ResultIds \subseteq ResultIds' /\ ResultIds' \subseteq ResultIds \cup {i}
                   /\ UNCHANGED <<stubs, serving>>
             /\ UNCHANGED utilityVars
             /\ UNCHANGED <<unread, reply, waiting, handling, draining>>
             /\ UNCHANGED providerVars
<1>1. PICK type \in Carrying, k \in DOMAIN toHost :
        /\ Receive(type, k) /\ UNCHANGED providerVars
        /\ \/ /\ stubs' = stubs \cup {toHost[k].id} /\ serving' = serving \cup {toHost[k].id}
              /\ Post(<<Adopted(toHost[k].id)>>)
           \/ UNCHANGED <<stubs, serving>> /\ Post(<<Result(toHost[k].id)>>)
           \/ /\ stubs' = stubs \cup {toHost[k].id} /\ UNCHANGED serving
              /\ Post(<<Adopted(toHost[k].id)>>)
           \/ UNCHANGED <<stubs, serving, toUtility>>
           \/ /\ stubs' = stubs \cup {toHost[k].id} /\ UNCHANGED serving
              /\ Post(<<Adopted(toHost[k].id), Result(toHost[k].id)>>)
  <2>1. CASE ReceiveInvoke
    <3>1. Receive("invoke", 1)
      BY <2>1 DEF ReceiveInvoke
    <3>2. 1 \in DOMAIN toHost /\ toHost[1] = Head(toHost) /\ "invoke" \in Carrying
      BY <3>1, ReceiveFacts DEF Carrying
    <3> QED
      BY <2>1, <3>1, <3>2 DEF ReceiveInvoke
  <2>2. ASSUME NEW k \in DOMAIN toHost, ReceiveEvent(k)
        PROVE  /\ Receive("event", k) /\ UNCHANGED providerVars /\ UNCHANGED serving
               /\ \/ stubs' = stubs \cup {toHost[k].id} /\ Post(<<Adopted(toHost[k].id)>>)
                  \/ UNCHANGED <<stubs, toUtility>>
    BY <2>2 DEF ReceiveEvent
  <2>3. CASE ReceiveOrdered
    <3>1. OrderedCall("ordered")
      BY <2>3 DEF ReceiveOrdered
    <3>2. Receive("ordered", 1) /\ UNCHANGED serving
      BY <3>1, OrderedFacts
    <3>3. 1 \in DOMAIN toHost /\ toHost[1] = Head(toHost) /\ "ordered" \in Carrying
      BY <3>2, ReceiveFacts DEF Carrying
    <3> QED
      BY <2>3, <3>2, <3>3 DEF ReceiveOrdered
  <2>4. "event" \in Carrying
    BY DEF Carrying
  <2> QED
    BY <2>1, <2>2, <2>3, <2>4
<1> DEFINE i == toHost[k].id
<1>2. /\ i \in Ids /\ i \in WireIds /\ WireIds = WireIds' \cup {i}
      /\ \A j \in WireIds' : j[1] # i[1]
  BY <1>1, ReceiveMoves
<1>3. UNCHANGED utilityVars /\ UNCHANGED <<unread, reply, waiting, handling, draining>>
  BY <1>1, ReceiveFacts
<1>5. \/ stubs' = stubs \cup {i} /\ serving' = serving \cup {i} /\ Post(<<Adopted(i)>>)
      \/ UNCHANGED <<stubs, serving>> /\ Post(<<Result(i)>>)
      \/ stubs' = stubs \cup {i} /\ UNCHANGED serving /\ Post(<<Adopted(i)>>)
      \/ UNCHANGED <<stubs, serving, toUtility>>
      \/ stubs' = stubs \cup {i} /\ UNCHANGED serving /\ Post(<<Adopted(i), Result(i)>>)
  BY <1>1
<1> HIDE DEF i
<1>6. /\ Released' = Released
      /\ \/ /\ stubs' = stubs \cup {i} /\ AdoptedIds' = AdoptedIds \cup {i}
            /\ serving' \subseteq serving \cup {i} /\ serving \subseteq serving'
            /\ ResultIds \subseteq ResultIds' /\ ResultIds' \subseteq ResultIds \cup {i}
         \/ /\ AdoptedIds' = AdoptedIds
            /\ ResultIds \subseteq ResultIds' /\ ResultIds' \subseteq ResultIds \cup {i}
            /\ UNCHANGED <<stubs, serving>>
  BY <1>2, <1>5, PostIdsMoves, SameChannels
<1> QED
  BY <1>1, <1>2, <1>3, <1>6

LEMMA ReceiveUnregisterMoves ==
    ASSUME TypeInv, DistinctInv, ReceiveUnregister
    PROVE  /\ WireIds' = WireIds
           /\ polled' = 0 /\ idle' = 0 /\ installed' = 0
           /\ AdoptedIds' = AdoptedIds /\ ResultIds' = ResultIds
           /\ Released' = Released \cup (IF idle = 0 THEN {} ELSE {Fn(idle)})
           /\ UNCHANGED utilityVars
           /\ UNCHANGED <<unread, reply, waiting, handling, draining>>
           /\ UNCHANGED <<serving, stubs, providers, refused, liveStreams, pings>>
<1>1. /\ OrderedCall("unregister") /\ polled' = 0 /\ idle' = 0 /\ installed' = 0
      /\ Post(IF idle = 0 THEN <<>> ELSE <<Release(Fn(idle))>>)
      /\ UNCHANGED <<stubs, providers, refused, liveStreams>>
  BY DEF ReceiveUnregister
<1>4. Receive("unregister", 1) /\ UNCHANGED <<serving, pings>>
  BY <1>1, OrderedFacts
<1>2. /\ UNCHANGED utilityVars
      /\ UNCHANGED <<unread, reply, waiting, handling, draining>>
      /\ WireIds' = WireIds
  <2>1. "unregister" \notin Carrying
    BY DEF Carrying
  <2> QED
    BY <1>4, <2>1, ReceiveFacts, ReceiveMoves
<1>3. /\ AdoptedIds' = AdoptedIds /\ ResultIds' = ResultIds
      /\ Released' = Released \cup (IF idle = 0 THEN {} ELSE {Fn(idle)})
  <2>1. CASE idle = 0
    <3>1. Post(<<>>)
      BY <1>1, <2>1
    <3> QED
      BY <2>1, <3>1, PostOthersMoves
  <2>2. CASE idle # 0
    <3>1. Post(<<Release(Fn(idle))>>) /\ Fn(idle) \in Ids
      BY <1>1, <2>2, IdFacts DEF TypeInv, NumberOrNone, Numbers
    <3> QED
      BY <2>2, <3>1, PostIdsMoves
  <2> QED
    BY <2>1, <2>2
<1> QED
  BY <1>1, <1>2, <1>3, <1>4

LEMMA SweepMoves ==
    ASSUME TypeInv, PostSweep
    PROVE  AdoptedIds' = AdoptedIds /\ ResultIds' = ResultIds /\ Released' = Released
<1>1. \E held \in SUBSET Ids : Post(<<[type |-> "reconcile", held |-> held]>>)
  BY HeldIds DEF PostSweep
<1> QED
  BY <1>1, PostOthersMoves

LEMMA ReceivePongMoves ==
    ASSUME TypeInv, DistinctInv, NEW k, ReceivePong(k)
    PROVE  /\ WireIds' = WireIds
           /\ AdoptedIds' = AdoptedIds /\ ResultIds' = ResultIds /\ Released' = Released
           /\ UNCHANGED utilityVars
           /\ UNCHANGED <<unread, reply, waiting, handling, draining>>
           /\ UNCHANGED <<serving, orderedCompleted, stubs>>
           /\ UNCHANGED providerVars
<1>1. /\ Receive("pong", k) /\ UNCHANGED <<serving, orderedCompleted, stubs>>
      /\ UNCHANGED providerVars
      /\ PostSweep \/ UNCHANGED toUtility
  BY PongFacts
<1>2. /\ UNCHANGED utilityVars
      /\ UNCHANGED <<unread, reply, waiting, handling, draining>>
      /\ WireIds' = WireIds
  <2>1. "pong" \notin Carrying
    BY DEF Carrying
  <2> QED
    BY <1>1, <2>1, ReceiveFacts, ReceiveMoves
<1>3. AdoptedIds' = AdoptedIds /\ ResultIds' = ResultIds /\ Released' = Released
  BY <1>1, SweepMoves, SameChannels
<1> QED
  BY <1>1, <1>2, <1>3

\* The end of an ordered call, and of a barrier, in a turn of its own
LEMMA TurnMoves ==
    ASSUME TypeInv, FinishOrdered \/ BarrierResolved
    PROVE  /\ AdoptedIds' = AdoptedIds /\ ResultIds' = ResultIds /\ Released' = Released
           /\ UNCHANGED utilityVars
           /\ UNCHANGED <<toHost, unread, reply, waiting, handling, draining>>
           /\ UNCHANGED <<serving, stubs, pings>>
           /\ UNCHANGED providerVars
<1>1. PostSweep \/ UNCHANGED toUtility
  BY DEF FinishOrdered, BarrierResolved
<1>2. AdoptedIds' = AdoptedIds /\ ResultIds' = ResultIds /\ Released' = Released
  BY <1>1, SweepMoves, SameChannels
<1> QED
  BY <1>2 DEF FinishOrdered, BarrierResolved, requestVars

LEMMA FinishInvokeMoves ==
    ASSUME TypeInv, NEW i \in serving, FinishInvoke(i)
    PROVE  /\ serving' = serving \ {i} /\ i \in Ids
           /\ AdoptedIds' = AdoptedIds /\ ResultIds' = ResultIds \cup {i}
           /\ Released' = Released
           /\ UNCHANGED utilityVars
           /\ UNCHANGED <<toHost, unread, reply, waiting, handling, orderedCompleted, stubs,
                          draining, pings>>
           /\ UNCHANGED providerVars
  BY PostIdsMoves DEF FinishInvoke, TypeInv

LEMMA ReconcileMoves ==
    ASSUME TypeInv, ReconcileUtilityCallbacks
    PROVE  /\ AdoptedIds' = AdoptedIds /\ ResultIds' = ResultIds /\ Released' = Released
           /\ UNCHANGED utilityVars
           /\ UNCHANGED <<toHost, unread, reply, stubs>>
           /\ UNCHANGED requestVars
           /\ UNCHANGED providerVars
<1>1. Post(<<Ping>>) \/ UNCHANGED toUtility
  BY DEF ReconcileUtilityCallbacks
<1>2. AdoptedIds' = AdoptedIds /\ ResultIds' = ResultIds /\ Released' = Released
  BY <1>1, PostOthersMoves, SameChannels
<1> QED
  BY <1>2 DEF ReconcileUtilityCallbacks

LEMMA CollectStubMoves ==
    ASSUME TypeInv, NEW i \in stubs, CollectStub(i)
    PROVE  /\ stubs' = stubs \ {i} /\ i \in Ids
           /\ AdoptedIds' = AdoptedIds /\ ResultIds' = ResultIds
           /\ Released' = Released \cup {i}
           /\ UNCHANGED utilityVars
           /\ UNCHANGED <<toHost, unread, reply, draining, pings>>
           /\ UNCHANGED requestVars
           /\ UNCHANGED providerVars
  BY PostIdsMoves DEF CollectStub, TypeInv

LEMMA CollectProviderMoves ==
    ASSUME TypeInv, NEW p \in providers \cup refused, CollectProvider(p)
    PROVE  /\ p \in Numbers /\ p \in (providers \ {installed}) \cup refused
           /\ providers' = providers \ {p} /\ refused' = refused \ {p}
           /\ liveStreams' = liveStreams \ {Stream(p)}
           /\ AdoptedIds' = AdoptedIds /\ ResultIds' = ResultIds
           /\ \/ polled # p /\ Released' = Released \cup {Stream(p), Fn(p)} /\ UNCHANGED idle
              \/ polled = p /\ Released' = Released \cup {Stream(p)} /\ idle' = p
           /\ UNCHANGED utilityVars
           /\ UNCHANGED <<toHost, unread, reply, stubs, installed, polled, draining, pings>>
           /\ UNCHANGED requestVars
<1>1. p \in Numbers /\ Stream(p) \in Ids /\ Fn(p) \in Ids
  BY IdFacts DEF TypeInv
<1>2. \/ polled # p /\ Post(<<Release(Stream(p)), Release(Fn(p))>>) /\ UNCHANGED idle
      \/ polled = p /\ Post(<<Release(Stream(p))>>) /\ idle' = p
  BY DEF CollectProvider
<1>3. /\ AdoptedIds' = AdoptedIds /\ ResultIds' = ResultIds
      /\ \/ polled # p /\ Released' = Released \cup {Stream(p), Fn(p)} /\ UNCHANGED idle
         \/ polled = p /\ Released' = Released \cup {Stream(p)} /\ idle' = p
  BY <1>1, <1>2, PostIdsMoves
<1> QED
  BY <1>1, <1>3 DEF CollectProvider

-----------------------------------------------------------------------------
(* The stages of a number                                                  *)

FunctionNumbers == {i[1] : i \in functions}
Fresh == functionSequence + 1..functionSequence'

\* A number is new, stays at its stage, or leaves it for one stage further.
NumbersMove ==
    /\ functionSequence' \in Nat /\ functionSequence <= functionSequence'
    /\ FunctionNumbers' \subseteq FunctionNumbers \cup Fresh
    /\ OnWire' \subseteq OnWire \cup Fresh
    /\ Asked' \subseteq Asked \cup Fresh
    /\ RequestNumbers' \subseteq RequestNumbers \cup Fresh
    /\ OnWire' \cap RequestNumbers' \cap Fresh = {}
    /\ CallbackNumbers' \subseteq
         CallbackNumbers \cup ((OnWire \cup Asked) \ (OnWire' \cup Asked'))
    /\ ProviderNumbers' \subseteq ProviderNumbers \cup (Asked \ (OnWire' \cup Asked'))
    /\ (CallbackNumbers' \ CallbackNumbers) \cap (ProviderNumbers' \ ProviderNumbers) = {}
    /\ ReleasedNumbers' \subseteq ReleasedNumbers \cup CallbackNumbers \cup ProviderNumbers

Apart ==
    /\ OnWire \cap RequestNumbers = {}
    /\ (OnWire \cup Asked) \cap (CallbackNumbers \cup ProviderNumbers) = {}
    /\ CallbackNumbers \cap ProviderNumbers = {}

LEMMA NumbersAreNat ==
    ASSUME TypeInv
    PROVE  /\ functionSequence \in Nat
           /\ FunctionNumbers \subseteq Nat /\ OnWire \subseteq Nat /\ RequestNumbers \subseteq Nat
           /\ CallbackNumbers \subseteq Nat /\ ProviderNumbers \subseteq Nat
           /\ ReleasedNumbers \subseteq Nat /\ Asked \subseteq RequestNumbers
<1>1. /\ \A i \in Ids : i[1] \in Nat
      /\ \A r \in Requests : r.n \in Nat
      /\ \A p \in Numbers \cup NumberOrNone : p \in Nat
  BY IdFacts, NumbersTyped
<1>2. /\ WireIds \subseteq Ids /\ In(unread) \subseteq Requests
      /\ AdoptedIds \subseteq Ids /\ ResultIds \subseteq Ids /\ Released \subseteq Ids
  BY OnTheWay
<1>3. functionSequence \in Nat
  BY <1>1 DEF TypeInv
<1>4. FunctionNumbers \subseteq Nat /\ OnWire \subseteq Nat /\ ReleasedNumbers \subseteq Nat
  BY <1>1, <1>2 DEF TypeInv, FunctionNumbers, OnWire, ReleasedNumbers
<1>5. RequestNumbers \subseteq Nat /\ Asked \subseteq RequestNumbers
  BY <1>1, <1>2 DEF TypeInv, RequestNumbers, Asked, Pending
<1>6. CallbackNumbers \subseteq Nat
  BY <1>1, <1>2 DEF TypeInv, CallbackNumbers
<1>7. ProviderNumbers \subseteq Nat
  BY <1>1 DEF TypeInv, ProviderNumbers
<1> QED
  BY <1>3, <1>4, <1>5, <1>6, <1>7

LEMMA NumbersMoveKeeps ==
    ASSUME TypeInv, NumbersInv, Apart, NumbersMove, Asked' \subseteq RequestNumbers'
    PROVE  NumbersInv' /\ Apart'
<1>1. \A n \in FunctionNumbers \cup OnWire \cup RequestNumbers \cup CallbackNumbers
                 \cup ProviderNumbers \cup ReleasedNumbers :
        n \in Nat /\ n <= functionSequence
  BY NumbersAreNat DEF NumbersInv, FunctionNumbers
<1>2. functionSequence \in Nat /\ functionSequence' \in Nat /\ functionSequence <= functionSequence'
  BY NumbersAreNat DEF NumbersMove
<1>3. \A n \in Fresh : n \in Nat /\ n <= functionSequence' /\ ~(n <= functionSequence)
  BY <1>2 DEF Fresh
<1>4. Asked \subseteq RequestNumbers
  BY NumbersAreNat
<1>5. \A n \in FunctionNumbers' \cup OnWire' \cup RequestNumbers' \cup CallbackNumbers'
                 \cup ProviderNumbers' \cup ReleasedNumbers' :
        \/ n \in Fresh
        \/ n \in FunctionNumbers \cup OnWire \cup RequestNumbers \cup CallbackNumbers
                   \cup ProviderNumbers \cup ReleasedNumbers
  BY <1>4 DEF NumbersMove
<1>6. \A n \in FunctionNumbers' \cup OnWire' \cup RequestNumbers' \cup CallbackNumbers'
                 \cup ProviderNumbers' \cup ReleasedNumbers' : n <= functionSequence'
  BY <1>1, <1>2, <1>3, <1>5
<1>7. NumbersInv'
  BY <1>6 DEF NumbersInv, FunctionNumbers
<1>8. (OnWire \cup RequestNumbers \cup CallbackNumbers \cup ProviderNumbers) \cap Fresh = {}
  BY <1>1, <1>3
<1>9. OnWire' \cap RequestNumbers' = {}
  BY <1>8 DEF NumbersMove, Apart
<1>10. CallbackNumbers' \cap Fresh = {} /\ ProviderNumbers' \cap Fresh = {}
  BY <1>4, <1>8 DEF NumbersMove
<1>11. (OnWire' \cup Asked') \cap (CallbackNumbers' \cup ProviderNumbers') = {}
  BY <1>10 DEF NumbersMove, Apart
<1>12. CallbackNumbers' \cap ProviderNumbers' = {}
  BY DEF NumbersMove, Apart
<1> QED
  BY <1>7, <1>9, <1>11, <1>12 DEF Apart

\* The stages that what an action leaves alone leaves alone.
LEMMA SameNumbers ==
    /\ UNCHANGED toHost => OnWire' = OnWire
    /\ UNCHANGED <<unread, waiting>> => Asked' = Asked
    /\ UNCHANGED <<unread, waiting, handling, syncing>> => RequestNumbers' = RequestNumbers
    /\ UNCHANGED <<toUtility, stubs, serving, handling>> => CallbackNumbers' = CallbackNumbers
    /\ UNCHANGED providerVars => ProviderNumbers' = ProviderNumbers
    /\ UNCHANGED toUtility => ReleasedNumbers' = ReleasedNumbers
    /\ UNCHANGED functionSequence => Fresh = {} \/ functionSequence \notin Nat
    /\ UNCHANGED functions => FunctionNumbers' = FunctionNumbers
<1>1. UNCHANGED functionSequence => Fresh = {} \/ functionSequence \notin Nat
  BY DEF Fresh
<1> QED
  BY <1>1, SameChannels
  DEF OnWire, Asked, RequestNumbers, Pending, CallbackNumbers, ProviderNumbers,
      ReleasedNumbers, FunctionNumbers, providerVars

LEMMA NumbersMoveStep ==
    ASSUME TypeInv, NumbersInv, DistinctInv, Apart, [Next]_vars
    PROVE  NumbersMove
<1>0. /\ functionSequence \in Nat /\ Asked \subseteq RequestNumbers
      /\ WireIds \subseteq Ids /\ In(unread) \subseteq Requests
  BY NumbersAreNat, OnTheWay
<1>11. (RequestNumbers \cup OnWire) \cap Fresh = {}
  <2>1. \A n \in RequestNumbers \cup OnWire : n \in Nat /\ n <= functionSequence
    BY NumbersAreNat DEF NumbersInv
  <2>2. \A n \in Fresh : functionSequence' \in Int => ~(n <= functionSequence)
    BY <1>0 DEF Fresh
  <2>3. functionSequence' \in Int
    BY UtilityTypesStep, NumbersTyped DEF UtilityTypes
  <2> QED
    BY <2>1, <2>2, <2>3
<1>1. ASSUME UNCHANGED functionSequence, FunctionNumbers' \subseteq FunctionNumbers,
             OnWire' \subseteq OnWire, Asked' \subseteq Asked,
             RequestNumbers' \subseteq RequestNumbers,
             \/ /\ CallbackNumbers' \subseteq CallbackNumbers
                                      \cup ((OnWire \cup Asked) \ (OnWire' \cup Asked'))
                /\ ProviderNumbers' \subseteq ProviderNumbers
             \/ /\ CallbackNumbers' \subseteq CallbackNumbers
                /\ ProviderNumbers' \subseteq ProviderNumbers \cup (Asked \ (OnWire' \cup Asked')),
             ReleasedNumbers' \subseteq ReleasedNumbers \cup CallbackNumbers \cup ProviderNumbers
      PROVE  NumbersMove
  <2>1. Fresh = {}
    BY <1>0, <1>1, SameNumbers
  <2> QED
    BY <1>0, <1>1, <2>1 DEF NumbersMove
<1>2. ASSUME UNCHANGED hostVars, UNCHANGED <<toHost, unread, functionSequence>>,
             functions' \subseteq functions, syncing' \subseteq syncing,
             AdoptedIds' \subseteq AdoptedIds, ResultIds' \subseteq ResultIds,
             Released' \subseteq Released
      PROVE  NumbersMove
  <2>1. /\ OnWire' = OnWire /\ Asked' = Asked /\ ProviderNumbers' = ProviderNumbers
        /\ UNCHANGED <<waiting, handling, stubs, serving>> /\ In(unread)' = In(unread)
    BY <1>2, SameNumbers, SameChannels DEF hostVars, requestVars
  <2>2. /\ FunctionNumbers' \subseteq FunctionNumbers /\ RequestNumbers' \subseteq RequestNumbers
        /\ CallbackNumbers' \subseteq CallbackNumbers /\ ReleasedNumbers' \subseteq ReleasedNumbers
    BY <1>2, <2>1 DEF FunctionNumbers, RequestNumbers, Pending, CallbackNumbers, ReleasedNumbers
  <2> QED
    BY <1>1, <1>2, <2>1, <2>2
<1>3. ASSUME NEW type \in {"invoke", "ordered", "event"}, HandOver(type)
      PROVE  NumbersMove
  <2> DEFINE n == functionSequence + 1
  <2>1. /\ functionSequence' = n /\ functions' = functions \cup {Fn(n)}
        /\ WireIds' = WireIds \cup {Fn(n)}
        /\ UNCHANGED <<syncing, toUtility, unread>> /\ UNCHANGED hostVars
    BY <1>3, HandOverMoves
  <2>2. n \in Nat /\ n \in Fresh /\ Fn(n)[1] = n
    BY <1>0, <2>1, IdFacts DEF Fresh
  <2>6. functionSequence' \in Nat /\ functionSequence <= functionSequence'
    BY <1>0, <2>1
  <2> HIDE DEF n
  <2>3. /\ UNCHANGED <<waiting, handling, stubs, serving>>
        /\ UNCHANGED providerVars
    BY <2>1 DEF hostVars, requestVars
  <2>4. /\ Asked' = Asked /\ RequestNumbers' = RequestNumbers
        /\ CallbackNumbers' = CallbackNumbers /\ ProviderNumbers' = ProviderNumbers
        /\ ReleasedNumbers' = ReleasedNumbers
    BY <2>1, <2>3, SameNumbers
  <2>5. OnWire' = OnWire \cup {n} /\ FunctionNumbers' = FunctionNumbers \cup {n}
    BY <2>1, <2>2 DEF OnWire, FunctionNumbers
  <2> QED
    BY <1>0, <1>11, <2>1, <2>2, <2>4, <2>5, <2>6 DEF NumbersMove
<1>4. ASSUME NEW kind \in {"callback", "provider"}, SyncCall(kind)
      PROVE  NumbersMove
  <2>1. PICK r \in Requests :
          /\ r.n = functionSequence + 1 /\ functionSequence' = functionSequence + 1
          /\ functions' = functions \cup IdsOf(r)
          /\ In(unread)' = In(unread) \cup {r} /\ syncing = {} /\ syncing' = {r}
          /\ UNCHANGED <<toHost, toUtility>> /\ UNCHANGED hostVars
    BY <1>4, SyncCallMoves
  <2>2. /\ r.n \in Fresh /\ functionSequence' \in Nat /\ functionSequence <= functionSequence'
        /\ \A i \in IdsOf(r) : i[1] = r.n
    BY <1>0, <2>1, NumbersTyped DEF Fresh
  <2>3. /\ UNCHANGED <<waiting, handling, stubs, serving>>
        /\ UNCHANGED providerVars
    BY <2>1 DEF hostVars, requestVars
  <2>4. /\ OnWire' = OnWire
        /\ CallbackNumbers' = CallbackNumbers /\ ProviderNumbers' = ProviderNumbers
        /\ ReleasedNumbers' = ReleasedNumbers
    BY <2>1, <2>3, SameNumbers
  <2>5. Asked' = Asked \cup {r.n} /\ RequestNumbers' = RequestNumbers \cup {r.n}
    BY <2>1, <2>3 DEF Asked, RequestNumbers, Pending
  <2>6. FunctionNumbers' \subseteq FunctionNumbers \cup {r.n}
    BY <2>1, <2>2 DEF FunctionNumbers
  <2> QED
    BY <1>11, <2>2, <2>4, <2>5, <2>6 DEF NumbersMove
<1>5. CASE UnregisterInferenceProvider
  <2>1. /\ WireIds' = WireIds /\ UNCHANGED <<functions, functionSequence, syncing, toUtility, unread>>
        /\ UNCHANGED hostVars
    BY <1>5, UnregisterMoves
  <2>2. /\ UNCHANGED <<waiting, handling, stubs, serving>>
        /\ UNCHANGED providerVars
    BY <2>1 DEF hostVars, requestVars
  <2>3. /\ Asked' = Asked /\ RequestNumbers' = RequestNumbers
        /\ CallbackNumbers' = CallbackNumbers /\ ProviderNumbers' = ProviderNumbers
        /\ ReleasedNumbers' = ReleasedNumbers /\ FunctionNumbers' = FunctionNumbers
    BY <2>1, <2>2, SameNumbers
  <2>4. OnWire' = OnWire
    BY <2>1 DEF OnWire
  <2> QED
    BY <1>1, <2>1, <2>3, <2>4
<1>6. CASE ReceiveReply
  <2>1. /\ \E freed : functions' = functions \ freed
        /\ syncing' = {} /\ UNCHANGED <<functionSequence, toHost, toUtility, unread>>
        /\ UNCHANGED hostVars
    BY <1>6, ReplyFacts
  <2> QED
    BY <1>2, <2>1, SameChannels
<1>7. CASE GiveUp
  <2>1. syncing' = {} /\ UNCHANGED <<functions, functionSequence, toHost, toUtility, unread>>
        /\ UNCHANGED hostVars
    BY <1>7 DEF GiveUp
  <2> QED
    BY <1>2, <2>1, SameChannels
<1>8. ASSUME NEW type, Take(type), functions' \subseteq functions, UNCHANGED toHost
      PROVE  NumbersMove
  BY <1>2, <1>8, TakeFacts, TakeMoves
<1>9. CASE HearPing
  <2>1. /\ WireIds' = WireIds /\ UNCHANGED functions /\ Take("ping")
    BY <1>9, HearPingMoves DEF HearPing
  <2>2. /\ UNCHANGED <<functionSequence, syncing, unread>>
        /\ UNCHANGED hostVars
        /\ AdoptedIds' = AdoptedIds /\ ResultIds' = ResultIds /\ Released' = Released
    BY <2>1, TakeFacts, TakeMoves
  <2>3. /\ UNCHANGED <<waiting, handling, stubs, serving>>
        /\ UNCHANGED providerVars
    BY <2>2 DEF hostVars, requestVars
  <2>4. /\ Asked' = Asked /\ RequestNumbers' = RequestNumbers
        /\ ProviderNumbers' = ProviderNumbers /\ FunctionNumbers' = FunctionNumbers
    BY <2>1, <2>2, <2>3, SameNumbers
  <2>5. /\ OnWire' = OnWire /\ CallbackNumbers' = CallbackNumbers
        /\ ReleasedNumbers' = ReleasedNumbers
    BY <2>1, <2>2, <2>3 DEF OnWire, CallbackNumbers, ReleasedNumbers
  <2> QED
    BY <1>1, <2>2, <2>4, <2>5
<1>10. HearAdopted \/ HearResult \/ HearRelease \/ HearReconcile => NumbersMove
  BY <1>8 DEF HearAdopted, HearResult, HearRelease, HearReconcile, Drop
<1>12. UNCHANGED utilityVars => /\ UNCHANGED <<functionSequence, functions, syncing>>
                                /\ FunctionNumbers' = FunctionNumbers
  BY SameNumbers DEF utilityVars
<1>13. CASE ReadRequest
  <2>1. /\ In(unread) = In(unread)' \cup {Head(unread)}
        /\ waiting' = waiting \cup {Head(unread)}
        /\ UNCHANGED utilityVars
        /\ UNCHANGED <<toHost, toUtility, handling, serving, stubs>>
        /\ UNCHANGED providerVars
    BY <1>13, ReadRequestMoves
  <2>2. /\ OnWire' = OnWire /\ CallbackNumbers' = CallbackNumbers
        /\ ProviderNumbers' = ProviderNumbers /\ ReleasedNumbers' = ReleasedNumbers
    BY <2>1, SameNumbers
  <2>3. Asked' = Asked /\ RequestNumbers' = RequestNumbers
    BY <1>12, <2>1 DEF Asked, RequestNumbers, Pending
  <2> QED
    BY <1>1, <1>12, <2>1, <2>2, <2>3
<1>14. ASSUME NEW r \in waiting, waiting' = waiting \ {r}, UNCHANGED <<unread, toHost>>,
              handling' \subseteq handling \cup {r}, UNCHANGED utilityVars
       PROVE  /\ OnWire' = OnWire /\ Asked' \subseteq Asked /\ r.n \in Asked \ (OnWire' \cup Asked')
              /\ RequestNumbers' \subseteq RequestNumbers
  <2>1. In(unread)' = In(unread) /\ OnWire' = OnWire
    BY <1>14, SameChannels, SameNumbers
  <2>2. r.n \in Asked /\ r.n \in RequestNumbers
    BY DEF Asked, RequestNumbers, Pending
  <2>3. r.n \notin OnWire
    BY <2>2 DEF Apart
  <2>4. \A q \in In(unread) \cup (waiting \ {r}) : q.n # r.n
    BY DEF DistinctInv, Pending
  <2>5. Asked' \subseteq Asked /\ r.n \notin Asked'
    BY <1>14, <2>1, <2>4 DEF Asked
  <2>6. RequestNumbers' \subseteq RequestNumbers
    BY <1>12, <1>14, <2>1 DEF RequestNumbers, Pending
  <2> QED
    BY <2>1, <2>2, <2>3, <2>5, <2>6
<1>15. ASSUME NEW r \in waiting, DecodeCallback(r)
       PROVE  NumbersMove
  <2>1. /\ r \in Requests
        /\ stubs' = stubs \cup IdsOf(r) /\ waiting' = waiting \ {r} /\ handling' = handling \cup {r}
        /\ UNCHANGED utilityVars
        /\ UNCHANGED <<toHost, toUtility, unread, serving>>
        /\ UNCHANGED providerVars
    BY <1>15, DecodeCallbackMoves
  <2>2. /\ OnWire' = OnWire /\ Asked' \subseteq Asked /\ r.n \in Asked \ (OnWire' \cup Asked')
        /\ RequestNumbers' \subseteq RequestNumbers
    BY <1>14, <2>1
  <2>3. ProviderNumbers' = ProviderNumbers /\ ReleasedNumbers' = ReleasedNumbers
    BY <2>1, SameNumbers
  <2>4. CallbackNumbers' \subseteq CallbackNumbers \cup {r.n}
    BY <2>1, NumbersTyped, SameChannels DEF CallbackNumbers
  <2> QED
    BY <1>1, <1>12, <2>1, <2>2, <2>3, <2>4
<1>16. ASSUME NEW r \in waiting, NEW ok \in BOOLEAN, Respond(r, ok, IdsOf(r)), r \in Requests,
              polled' = r.n, liveStreams' = liveStreams \cup {Stream(r.n)},
              providers' \subseteq providers \cup {r.n}, refused' \subseteq refused \cup {r.n},
              UNCHANGED utilityVars,
              UNCHANGED <<toHost, unread, serving, stubs, idle>>
       PROVE  NumbersMove
  <2>1. /\ waiting' = waiting \ {r} /\ handling' = handling \ {r}
        /\ AdoptedIds' = AdoptedIds /\ ResultIds' = ResultIds /\ Released' = Released
    BY <1>16, RespondMoves
  <2>2. /\ OnWire' = OnWire /\ Asked' \subseteq Asked /\ r.n \in Asked \ (OnWire' \cup Asked')
        /\ RequestNumbers' \subseteq RequestNumbers
    BY <1>14, <1>16, <2>1
  <2>3. ReleasedNumbers' = ReleasedNumbers /\ CallbackNumbers' \subseteq CallbackNumbers
    BY <1>16, <2>1 DEF ReleasedNumbers, CallbackNumbers
  <2>4. ProviderNumbers' \subseteq ProviderNumbers \cup {r.n}
    <3>1. Stream(r.n)[1] = r.n
      BY IdFacts
    <3> QED
      BY <1>16, <3>1 DEF ProviderNumbers
  <2> QED
    BY <1>1, <1>12, <1>16, <2>2, <2>3, <2>4
<1>17. ASSUME NEW r \in waiting, RegisterInferenceProvider(r)
       PROVE  NumbersMove
  BY <1>16, <1>17, RegisterProviderMoves
<1>18. ASSUME NEW r \in waiting, RefuseInferenceProvider(r)
       PROVE  NumbersMove
  BY <1>16, <1>18, RefuseProviderMoves
<1>19. ASSUME NEW r \in handling, FinishCallback(r)
       PROVE  NumbersMove
  <2>1. /\ r \in Requests /\ Respond(r, TRUE, IdsOf(r))
        /\ UNCHANGED utilityVars
        /\ UNCHANGED <<toHost, unread, serving, stubs>>
        /\ UNCHANGED providerVars
    BY <1>19, FinishCallbackMoves
  <2>2. /\ waiting' = waiting \ {r} /\ handling' = handling \ {r}
        /\ AdoptedIds' = AdoptedIds /\ ResultIds' = ResultIds /\ Released' = Released
    BY <2>1, RespondMoves
  <2>3. OnWire' = OnWire /\ ProviderNumbers' = ProviderNumbers /\ In(unread)' = In(unread)
    BY <2>1, SameNumbers, SameChannels
  <2>4. Asked' \subseteq Asked /\ RequestNumbers' \subseteq RequestNumbers
    BY <1>12, <2>1, <2>2, <2>3 DEF Asked, RequestNumbers, Pending
  <2>5. ReleasedNumbers' = ReleasedNumbers /\ CallbackNumbers' \subseteq CallbackNumbers
    BY <2>1, <2>2 DEF ReleasedNumbers, CallbackNumbers
  <2> QED
    BY <1>1, <1>12, <2>1, <2>3, <2>4, <2>5
<1>20. CASE ReceiveInvoke \/ (\E k \in DOMAIN toHost : ReceiveEvent(k)) \/ ReceiveOrdered
  <2>1. PICK i \in Ids :
          /\ i \in WireIds /\ WireIds = WireIds' \cup {i} /\ \A j \in WireIds' : j[1] # i[1]
          /\ Released' = Released
          /\ stubs' \subseteq stubs \cup {i} /\ serving' \subseteq serving \cup {i}
          /\ AdoptedIds' \subseteq AdoptedIds \cup {i} /\ ResultIds' \subseteq ResultIds \cup {i}
          /\ UNCHANGED utilityVars
          /\ UNCHANGED <<unread, waiting, handling>>
          /\ UNCHANGED providerVars
    BY <1>20, DecodeMoves
  <2>2. OnWire' \subseteq OnWire /\ i[1] \in OnWire \ OnWire'
    BY <2>1 DEF OnWire
  <2>3. /\ Asked' = Asked /\ RequestNumbers' = RequestNumbers /\ ProviderNumbers' = ProviderNumbers
    BY <1>12, <2>1, SameNumbers
  <2>4. i[1] \notin Asked'
    BY <1>0, <2>2, <2>3 DEF Apart
  <2>5. ReleasedNumbers' = ReleasedNumbers
    BY <2>1 DEF ReleasedNumbers
  <2>6. CallbackNumbers' \subseteq CallbackNumbers \cup {i[1]}
    BY <2>1 DEF CallbackNumbers
  <2> QED
    BY <1>1, <1>12, <2>1, <2>2, <2>3, <2>4, <2>5, <2>6
<1>21. CASE ReceiveUnregister
  <2>1. /\ WireIds' = WireIds /\ polled' = 0 /\ idle' = 0
        /\ AdoptedIds' = AdoptedIds /\ ResultIds' = ResultIds
        /\ Released' = Released \cup (IF idle = 0 THEN {} ELSE {Fn(idle)})
        /\ UNCHANGED utilityVars
        /\ UNCHANGED <<unread, waiting, handling>>
        /\ UNCHANGED <<serving, stubs, providers, refused, liveStreams>>
    BY <1>21, ReceiveUnregisterMoves
  <2>2. OnWire' = OnWire /\ CallbackNumbers' = CallbackNumbers
    BY <2>1 DEF OnWire, CallbackNumbers
  <2>3. Asked' = Asked /\ RequestNumbers' = RequestNumbers
    BY <1>12, <2>1, SameNumbers
  <2>4. ProviderNumbers' \subseteq ProviderNumbers
    BY <2>1 DEF ProviderNumbers
  <2>5. ReleasedNumbers' \subseteq ReleasedNumbers \cup ProviderNumbers
    <3>1. Fn(idle)[1] = idle
      BY IdFacts
    <3> QED
      BY <2>1, <3>1 DEF ReleasedNumbers, ProviderNumbers
  <2> QED
    BY <1>1, <1>12, <2>1, <2>2, <2>3, <2>4, <2>5
<1>22. ASSUME WireIds' = WireIds, AdoptedIds' = AdoptedIds,
              ResultIds' \subseteq ResultIds \cup serving,
              Released' \subseteq Released \cup stubs,
              stubs' \subseteq stubs, serving' \subseteq serving,
              UNCHANGED utilityVars,
              UNCHANGED <<unread, waiting, handling>>,
              UNCHANGED providerVars
       PROVE  NumbersMove
  <2>1. OnWire' = OnWire /\ CallbackNumbers' \subseteq CallbackNumbers
    BY <1>22 DEF OnWire, CallbackNumbers
  <2>2. Asked' = Asked /\ RequestNumbers' = RequestNumbers /\ ProviderNumbers' = ProviderNumbers
    BY <1>12, <1>22, SameNumbers
  <2>3. ReleasedNumbers' \subseteq ReleasedNumbers \cup CallbackNumbers
    BY <1>22 DEF ReleasedNumbers, CallbackNumbers
  <2> QED
    BY <1>1, <1>12, <1>22, <2>1, <2>2, <2>3
<1>23. ASSUME NEW k, ReceivePong(k)
       PROVE  NumbersMove
  BY <1>22, <1>23, ReceivePongMoves
<1>29. CASE FinishOrdered \/ BarrierResolved
  BY <1>22, <1>29, TurnMoves, SameChannels
<1>24. ASSUME NEW i \in serving, FinishInvoke(i)
       PROVE  NumbersMove
  <2>1. /\ serving' = serving \ {i}
        /\ AdoptedIds' = AdoptedIds /\ ResultIds' = ResultIds \cup {i} /\ Released' = Released
        /\ UNCHANGED utilityVars
        /\ UNCHANGED <<toHost, unread, waiting, handling, stubs>>
        /\ UNCHANGED providerVars
    BY <1>24, FinishInvokeMoves
  <2> QED
    BY <1>22, <2>1, SameChannels
<1>25. CASE ReconcileUtilityCallbacks
  BY <1>22, <1>25, ReconcileMoves, SameChannels DEF requestVars
<1>26. ASSUME NEW i \in stubs, CollectStub(i)
       PROVE  NumbersMove
  <2>1. /\ stubs' = stubs \ {i}
        /\ AdoptedIds' = AdoptedIds /\ ResultIds' = ResultIds /\ Released' = Released \cup {i}
        /\ UNCHANGED utilityVars
        /\ UNCHANGED <<toHost, unread, waiting, handling, serving>>
        /\ UNCHANGED providerVars
    BY <1>26, CollectStubMoves DEF requestVars
  <2> QED
    BY <1>22, <2>1, SameChannels
<1>27. ASSUME NEW p \in providers \cup refused, CollectProvider(p)
       PROVE  NumbersMove
  <2>1. /\ p \in Numbers /\ providers' = providers \ {p} /\ refused' = refused \ {p}
        /\ liveStreams' = liveStreams \ {Stream(p)}
        /\ AdoptedIds' = AdoptedIds /\ ResultIds' = ResultIds
        /\ Released' \subseteq Released \cup {Stream(p), Fn(p)}
        /\ idle' = idle \/ idle' = p
        /\ UNCHANGED utilityVars
        /\ UNCHANGED <<toHost, unread, stubs, polled, waiting, handling, serving>>
    BY <1>27, CollectProviderMoves DEF requestVars
  <2>2. WireIds' = WireIds
    BY <2>1, SameChannels
  <2>3. OnWire' = OnWire /\ CallbackNumbers' = CallbackNumbers
    BY <2>1, <2>2 DEF OnWire, CallbackNumbers
  <2>4. Asked' = Asked /\ RequestNumbers' = RequestNumbers
    BY <1>12, <2>1, SameNumbers
  <2>5. p \in ProviderNumbers
    BY <2>1, NumbersTyped DEF ProviderNumbers
  <2>6. ProviderNumbers' \subseteq ProviderNumbers
    BY <2>1, <2>5 DEF ProviderNumbers
  <2>7. ReleasedNumbers' \subseteq ReleasedNumbers \cup ProviderNumbers
    <3>1. Fn(p)[1] = p /\ Stream(p)[1] = p
      BY IdFacts
    <3> QED
      BY <2>1, <2>5, <3>1 DEF ReleasedNumbers
  <2> QED
    BY <1>1, <1>12, <2>1, <2>3, <2>4, <2>6, <2>7
<1>28. UNCHANGED vars => NumbersMove
  BY <1>2, SameChannels DEF vars, utilityVars
<1> QED
  BY <1>3, <1>4, <1>5, <1>6, <1>7, <1>9, <1>10, <1>13, <1>15, <1>17, <1>18, <1>19, <1>20,
     <1>21, <1>23, <1>24, <1>25, <1>26, <1>27, <1>28, <1>29
  DEF Next, Utility, Host, Collector

LEMMA WireDistinctStep ==
    ASSUME TypeInv, NumbersInv, DistinctInv, [Next]_vars
    PROVE  \A j, k \in DOMAIN toHost' :
             /\ j # k /\ toHost'[j].type \in Carrying /\ toHost'[k].type \in Carrying
             => toHost'[j].id[1] # toHost'[k].id[1]
<1> DEFINE Distinct(s) == \A j, k \in DOMAIN s :
             /\ j # k /\ s[j].type \in Carrying /\ s[k].type \in Carrying
             => s[j].id[1] # s[k].id[1]
<1>0. Distinct(toHost) /\ toHost \in Seq(ToHostMessages)
  BY DEF DistinctInv, TypeInv
<1>1. ASSUME UNCHANGED toHost
      PROVE  Distinct(toHost')
  BY <1>0, <1>1
<1>2. ASSUME NEW m \in ToHostMessages, toHost' = Append(toHost, m),
             m.type \in Carrying => m.id[1] = functionSequence + 1
      PROVE  Distinct(toHost')
  <2>1. /\ Len(toHost) \in Nat
        /\ DOMAIN toHost = 1..Len(toHost) /\ DOMAIN toHost' = 1..Len(toHost) + 1
        /\ \A k \in 1..Len(toHost) : toHost'[k] = toHost[k]
        /\ toHost'[Len(toHost) + 1] = m
    BY <1>0, <1>2, AppendToChannel
  <2>2. \A k \in DOMAIN toHost :
          toHost[k].type \in Carrying => toHost[k].id[1] # functionSequence + 1
    <3> SUFFICES ASSUME NEW k \in DOMAIN toHost, toHost[k].type \in Carrying
                 PROVE  toHost[k].id[1] # functionSequence + 1
      OBVIOUS
    <3>1. toHost[k].id[1] \in OnWire
      BY DEF OnWire, WireIds, In
    <3>2. toHost[k].id[1] \in Nat /\ toHost[k].id[1] <= functionSequence /\ functionSequence \in Nat
      BY <3>1, NumbersAreNat DEF NumbersInv
    <3> QED
      BY <3>2
  <2>3. ASSUME NEW j \in DOMAIN toHost', NEW k \in DOMAIN toHost', j # k,
               toHost'[j].type \in Carrying, toHost'[k].type \in Carrying
        PROVE  toHost'[j].id[1] # toHost'[k].id[1]
    <3>1. (j \in DOMAIN toHost /\ toHost'[j] = toHost[j]) \/ (j = Len(toHost) + 1 /\ toHost'[j] = m)
      BY <2>1
    <3>2. (k \in DOMAIN toHost /\ toHost'[k] = toHost[k]) \/ (k = Len(toHost) + 1 /\ toHost'[k] = m)
      BY <2>1
    <3> QED
      BY <1>0, <1>2, <2>2, <2>3, <3>1, <3>2
  <2> QED
    BY <2>3
<1>3. ASSUME NEW type, NEW k, Receive(type, k)
      PROVE  Distinct(toHost')
  <2> DEFINE pos(j) == IF j < k THEN j ELSE j + 1
  <2>1. k \in DOMAIN toHost /\ toHost' = RemoveAt(toHost, k)
    BY <1>3, ReceiveFacts
  <2>2. /\ Len(toHost) \in Nat \ {0}
        /\ DOMAIN toHost = 1..Len(toHost) /\ DOMAIN toHost' = 1..Len(toHost) - 1
        /\ \A j \in 1..Len(toHost) - 1 :
             toHost'[j] = IF j < k THEN toHost[j] ELSE toHost[j + 1]
    BY <1>0, <2>1, RemoveFromChannel
  <2>4. \A j \in DOMAIN toHost' : pos(j) \in DOMAIN toHost /\ toHost'[j] = toHost[pos(j)]
    BY <2>1, <2>2
  <2>5. \A i, j \in DOMAIN toHost' : i # j => pos(i) # pos(j)
    BY <2>1, <2>2
  <2> HIDE DEF pos
  <2>3. ASSUME NEW i \in DOMAIN toHost', NEW j \in DOMAIN toHost', i # j,
               toHost'[i].type \in Carrying, toHost'[j].type \in Carrying
        PROVE  toHost'[i].id[1] # toHost'[j].id[1]
    <3>1. /\ pos(i) \in DOMAIN toHost /\ toHost'[i] = toHost[pos(i)]
          /\ pos(j) \in DOMAIN toHost /\ toHost'[j] = toHost[pos(j)]
          /\ pos(i) # pos(j)
      BY <2>3, <2>4, <2>5
    <3> QED
      BY <1>0, <2>3, <3>1
  <2> QED
    BY <2>3
<1> HIDE DEF Distinct
<1>4. ASSUME NEW type \in {"invoke", "ordered", "event"}, HandOver(type)
      PROVE  Distinct(toHost')
  <2> DEFINE m == [type |-> type, id |-> Fn(functionSequence + 1)]
  <2>1. Fn(functionSequence + 1) \in Ids
    BY <1>4, HandOverMoves
  <2>2. m \in ToHostMessages /\ m.id[1] = functionSequence + 1
    BY <2>1, IdFacts, ToHostValues DEF Carrying
  <2>3. toHost' = Append(toHost, m)
    BY <1>4 DEF HandOver
  <2> HIDE DEF m
  <2> QED
    BY <1>2, <2>2, <2>3
<1>5. ASSUME UnregisterInferenceProvider
      PROVE  Distinct(toHost')
  <2>1. toHost' = Append(toHost, Unregister)
    BY <1>5 DEF UnregisterInferenceProvider
  <2>2. Unregister \in ToHostMessages /\ Unregister.type \notin Carrying
    BY ToHostValues DEF Carrying
  <2> QED
    BY <1>2, <2>1, <2>2
<1>6. ASSUME HearPing
      PROVE  Distinct(toHost')
  <2>1. toHost' = Append(toHost, Pong)
    BY <1>6 DEF HearPing
  <2>2. Pong \in ToHostMessages /\ Pong.type \notin Carrying
    BY ToHostValues DEF Carrying
  <2> QED
    BY <1>2, <2>1, <2>2
<1>7. \/ UNCHANGED toHost
      \/ \E type \in {"invoke", "ordered", "event"} : HandOver(type)
      \/ UnregisterInferenceProvider \/ HearPing
      \/ \E type, k : Receive(type, k)
  BY DEF Next, Utility, Host, Collector, vars, SyncCall, ReceiveReply, GiveUp, HearAdopted,
         HearResult, HearRelease, HearReconcile, ReadRequest, DecodeCallback,
         RegisterInferenceProvider, RefuseInferenceProvider, TrackProvider, FinishCallback,
         ReceiveInvoke, ReceiveEvent, ReceiveOrdered, ReceiveUnregister, ReceivePong,
         OrderedCall, FinishOrdered, BarrierResolved, FinishInvoke, ReconcileUtilityCallbacks,
         CollectStub, CollectProvider
<1>8. Distinct(toHost')
  BY <1>1, <1>3, <1>4, <1>5, <1>6, <1>7
<1> QED
  BY <1>8 DEF Distinct

LEMMA DistinctStep ==
    ASSUME TypeInv, NumbersInv, DistinctInv, [Next]_vars
    PROVE  DistinctInv'
<1> DEFINE Requested == Pending \cup syncing
           Apart3 == In(unread) \cap (waiting \cup handling) = {} /\ waiting \cap handling = {}
           DistinctUnread == \A j, k \in DOMAIN unread : j # k => unread[j].n # unread[k].n
           DistinctRequests == \A q, r \in Requested : q.n = r.n => q = r
<1>0. /\ Apart3 /\ DistinctUnread /\ DistinctRequests
      /\ unread \in Seq(Requests) /\ functionSequence \in Nat
  BY NumbersTyped DEF DistinctInv, TypeInv
<1>1. SUFFICES Apart3' /\ DistinctUnread' /\ DistinctRequests'
  BY WireDistinctStep DEF DistinctInv
<1>2. ASSUME UNCHANGED unread, waiting' \cup handling' \subseteq waiting \cup handling,
             waiting' \cap handling' = {}, syncing' \subseteq syncing
      PROVE  Apart3' /\ DistinctUnread' /\ DistinctRequests'
  <2>1. In(unread)' = In(unread)
    BY <1>2, SameChannels
  <2>2. Requested' \subseteq Requested
    BY <1>2, <2>1 DEF Pending
  <2> QED
    BY <1>0, <1>2, <2>1, <2>2
<1>3. ASSUME NEW kind \in {"callback", "provider"}, SyncCall(kind)
      PROVE  Apart3' /\ DistinctUnread' /\ DistinctRequests'
  <2>1. PICK r \in Requests :
          /\ r.n = functionSequence + 1 /\ unread' = Append(unread, r)
          /\ In(unread)' = In(unread) \cup {r} /\ syncing = {} /\ syncing' = {r}
          /\ UNCHANGED hostVars
    BY <1>3, SyncCallMoves
  <2>2. \A q \in Requested : q.n # r.n
    <3> SUFFICES ASSUME NEW q \in Requested PROVE q.n # r.n
      OBVIOUS
    <3>1. q.n \in RequestNumbers
      BY DEF RequestNumbers
    <3>2. q.n \in Nat /\ q.n <= functionSequence
      BY <3>1, NumbersAreNat DEF NumbersInv
    <3> QED
      BY <1>0, <2>1, <3>2
  <2>3. UNCHANGED <<waiting, handling>>
    BY <2>1 DEF hostVars, requestVars
  <2>4. Requested' \subseteq Requested \cup {r}
    BY <2>1, <2>3 DEF Pending
  <2>5. Apart3'
    BY <1>0, <2>1, <2>2, <2>3 DEF Pending
  <2>6. DistinctRequests'
    BY <1>0, <2>2, <2>4
  <2>7. /\ Len(unread) \in Nat
        /\ DOMAIN unread = 1..Len(unread) /\ DOMAIN unread' = 1..Len(unread) + 1
        /\ \A k \in 1..Len(unread) : unread'[k] = unread[k]
        /\ unread'[Len(unread) + 1] = r
    BY <1>0, <2>1, AppendToChannel
  <2>8. \A k \in DOMAIN unread : unread[k] \in Requested
    BY DEF Pending, In
  <2>9. ASSUME NEW j \in DOMAIN unread', NEW k \in DOMAIN unread', j # k
        PROVE  unread'[j].n # unread'[k].n
    <3>1. (j \in DOMAIN unread /\ unread'[j] = unread[j]) \/ (j = Len(unread) + 1 /\ unread'[j] = r)
      BY <2>7
    <3>2. (k \in DOMAIN unread /\ unread'[k] = unread[k]) \/ (k = Len(unread) + 1 /\ unread'[k] = r)
      BY <2>7
    <3> HIDE DEF Requested
    <3> QED
      BY <1>0, <2>2, <2>8, <2>9, <3>1, <3>2
  <2> QED
    BY <2>5, <2>6, <2>9
<1>4. CASE ReadRequest
  <2> DEFINE r == Head(unread)
  <2>1. /\ unread # <<>> /\ unread' = Tail(unread) /\ In(unread) = In(unread)' \cup {r}
        /\ waiting' = waiting \cup {r} /\ UNCHANGED <<handling, syncing>>
    BY <1>4, ReadRequestMoves DEF utilityVars
  <2>2. /\ r = unread[1] /\ Len(unread) \in Nat \ {0}
        /\ DOMAIN unread = 1..Len(unread) /\ DOMAIN unread' = 1..Len(unread) - 1
        /\ \A k \in 1..Len(unread) - 1 : unread'[k] = unread[k + 1]
    BY <1>0, <2>1, TakeFromChannel
  <2>3. \A k \in DOMAIN unread' : k + 1 \in DOMAIN unread /\ k + 1 # 1 /\ 1 \in DOMAIN unread
    BY <2>2
  <2>4. \A k \in DOMAIN unread' : unread'[k] # r
    BY <1>0, <2>2, <2>3
  <2>5. r \notin In(unread)'
    BY <2>4 DEF In
  <2>6. DistinctUnread'
    <3> SUFFICES ASSUME NEW j \in DOMAIN unread', NEW k \in DOMAIN unread', j # k
                 PROVE  unread'[j].n # unread'[k].n
      OBVIOUS
    <3>1. j + 1 # k + 1
      BY <2>2
    <3> QED
      BY <1>0, <2>2, <2>3, <3>1
  <2> HIDE DEF r
  <2>7. Requested' = Requested
    BY <2>1 DEF Pending
  <2>8. Apart3'
    BY <1>0, <2>1, <2>5
  <2> QED
    BY <1>0, <2>6, <2>7, <2>8
<1>5. ASSUME NEW r \in waiting, DecodeCallback(r)
      PROVE  Apart3' /\ DistinctUnread' /\ DistinctRequests'
  BY <1>0, <1>2, <1>5, DecodeCallbackMoves DEF utilityVars
<1>6. ASSUME NEW r \in waiting \cup handling, NEW ok \in BOOLEAN, Respond(r, ok, IdsOf(r)),
             UNCHANGED unread, UNCHANGED utilityVars
      PROVE  Apart3' /\ DistinctUnread' /\ DistinctRequests'
  <2>1. waiting' = waiting \ {r} /\ handling' = handling \ {r}
    BY <1>6, RespondMoves DEF TypeInv
  <2> QED
    BY <1>0, <1>2, <1>6, <2>1 DEF utilityVars
<1>7. ASSUME NEW r \in waiting, RegisterInferenceProvider(r) \/ RefuseInferenceProvider(r)
      PROVE  Apart3' /\ DistinctUnread' /\ DistinctRequests'
  <2>1. /\ \E ok \in BOOLEAN : Respond(r, ok, IdsOf(r))
        /\ UNCHANGED unread /\ UNCHANGED utilityVars
    BY <1>7, RegisterProviderMoves, RefuseProviderMoves
  <2> QED
    BY <1>6, <2>1
<1>8. ASSUME NEW r \in handling, FinishCallback(r)
      PROVE  Apart3' /\ DistinctUnread' /\ DistinctRequests'
  <2>1. Respond(r, TRUE, IdsOf(r)) /\ UNCHANGED unread /\ UNCHANGED utilityVars
    BY <1>8, FinishCallbackMoves
  <2> QED
    BY <1>6, <2>1
<1>9. \/ UNCHANGED <<unread, waiting, handling>> /\ syncing' \subseteq syncing
      \/ \E kind \in {"callback", "provider"} : SyncCall(kind)
      \/ ReadRequest
      \/ \E r \in waiting : \/ DecodeCallback(r) \/ RegisterInferenceProvider(r)
                            \/ RefuseInferenceProvider(r)
      \/ \E r \in handling : FinishCallback(r)
  BY DEF Next, Utility, Host, Collector, vars, utilityVars, hostVars, requestVars, HandOver,
         UnregisterInferenceProvider, ReceiveReply, GiveUp, HearAdopted, Take, HearResult,
         HearRelease, HearPing, HearReconcile, Receive, ReceiveInvoke, ReceiveEvent,
         ReceiveOrdered, ReceiveUnregister, ReceivePong, OrderedCall, FinishOrdered,
         BarrierResolved, FinishInvoke, ReconcileUtilityCallbacks, CollectStub,
         CollectProvider
<1>10. CASE UNCHANGED <<unread, waiting, handling>> /\ syncing' \subseteq syncing
  BY <1>0, <1>2, <1>10
<1> HIDE DEF Apart3, DistinctUnread, DistinctRequests
<1> QED
  BY <1>3, <1>4, <1>5, <1>7, <1>8, <1>9, <1>10

-----------------------------------------------------------------------------
(* Providers                                                               *)

LEMMA ProviderCases ==
    ASSUME TypeInv, [Next]_vars
    PROVE  \/ UNCHANGED providerVars
           \/ \E r \in waiting : RegisterInferenceProvider(r) \/ RefuseInferenceProvider(r)
           \/ ReceiveUnregister
           \/ \E p \in providers \cup refused : CollectProvider(p)
<1>1. ASSUME UNCHANGED hostVars
      PROVE  UNCHANGED providerVars
  BY <1>1 DEF hostVars
<1>2. CASE Utility \/ UNCHANGED vars
  <2>1. UNCHANGED hostVars
    BY <1>2 DEF Utility, vars, HandOver, SyncCall, UnregisterInferenceProvider, ReceiveReply,
                GiveUp, HearAdopted, HearResult, HearRelease, HearPing, HearReconcile, Take
  <2> QED
    BY <1>1, <2>1
<1>3. CASE Host
  BY <1>3 DEF Host, ReadRequest, DecodeCallback, FinishCallback, ReceiveInvoke, ReceiveEvent,
              ReceiveOrdered, ReceivePong, OrderedCall, FinishOrdered, BarrierResolved,
              FinishInvoke, ReconcileUtilityCallbacks
<1>4. CASE Collector
  BY <1>4 DEF Collector, CollectStub
<1> QED
  BY <1>2, <1>3, <1>4 DEF Next

\* A request that waits is not yet a provider.
LEMMA AskedIsNew ==
    ASSUME TypeInv, StagesInv, NEW r \in waiting
    PROVE  /\ r \in Requests /\ r.n \in Numbers /\ r.n # 0
           /\ r.n \notin providers \cup refused \cup {polled, idle}
           /\ Stream(r.n) \notin liveStreams
           /\ r.n \notin CallbackNumbers
<1>1. r \in Requests /\ r.n \in Numbers /\ r.n # 0
  BY NumbersTyped DEF TypeInv
<1>2. r.n \in Asked
  BY DEF Asked
<1>3. r.n \notin ProviderNumbers /\ r.n \notin CallbackNumbers
  BY <1>2 DEF StagesInv
<1>4. Stream(r.n) \notin liveStreams
  BY <1>3, IdFacts DEF ProviderNumbers
<1> QED
  BY <1>1, <1>3, <1>4 DEF ProviderNumbers

LEMMA StagesStep ==
    ASSUME TypeInv, NumbersInv, DistinctInv, StagesInv, [Next]_vars, TypeInv'
    PROVE  NumbersInv' /\ StagesInv'
<1>1. Apart
  BY DEF StagesInv, Apart
<1>2. NumbersMove
  BY <1>1, NumbersMoveStep
<1>3. Asked' \subseteq RequestNumbers'
  BY DEF Asked, RequestNumbers, Pending
<1>4. NumbersInv' /\ Apart'
  BY <1>1, <1>2, <1>3, NumbersMoveKeeps
<1>5. \A r \in handling' : r.kind = "callback"
  <2>1. handling' \subseteq handling \/ \E r \in waiting : DecodeCallback(r)
    BY DEF Next, Utility, Host, Collector, vars, hostVars, requestVars, HandOver, SyncCall,
           UnregisterInferenceProvider, ReceiveReply, GiveUp, HearAdopted, Take, HearResult,
           HearRelease, HearPing, HearReconcile, Receive, ReadRequest,
           RegisterInferenceProvider, RefuseInferenceProvider, TrackProvider, FinishCallback,
           Respond, ReceiveInvoke, ReceiveEvent, ReceiveOrdered, ReceiveUnregister,
           ReceivePong, OrderedCall, FinishOrdered, BarrierResolved, FinishInvoke,
           ReconcileUtilityCallbacks, CollectStub, CollectProvider
  <2> QED
    BY <2>1, DecodeCallbackMoves DEF StagesInv
<1>6. (providers \cap refused = {} /\ idle \notin providers)'
  <2>0. 0 \notin providers /\ providers \cap refused = {} /\ idle \notin providers
    <3>1. providers \cap refused = {} /\ idle \notin providers
      BY DEF StagesInv
    <3>2. providers \subseteq Numbers
      BY DEF TypeInv
    <3> QED
      BY <3>1, <3>2, NumbersTyped
  <2>1. CASE UNCHANGED providerVars
    BY <2>0, <2>1 DEF providerVars
  <2>2. ASSUME NEW r \in waiting, RegisterInferenceProvider(r)
        PROVE  (providers \cap refused = {} /\ idle \notin providers)'
    BY <2>0, <2>2, RegisterProviderMoves, AskedIsNew
  <2>3. ASSUME NEW r \in waiting, RefuseInferenceProvider(r)
        PROVE  (providers \cap refused = {} /\ idle \notin providers)'
    <3>1. refused' = refused \cup {r.n} /\ providers' = providers /\ idle' = idle
      BY <2>3, RefuseProviderMoves
    <3>2. r.n \notin providers
      BY AskedIsNew
    <3> QED
      BY <2>0, <3>1, <3>2
  <2>4. CASE ReceiveUnregister
    BY <2>0, <2>4, ReceiveUnregisterMoves
  <2>5. ASSUME NEW p \in providers \cup refused, CollectProvider(p)
        PROVE  (providers \cap refused = {} /\ idle \notin providers)'
    BY <2>0, <2>5, CollectProviderMoves
  <2> QED
    BY <2>1, <2>2, <2>3, <2>4, <2>5, ProviderCases
<1> QED
  BY <1>4, <1>5, <1>6 DEF StagesInv, Apart

LEMMA PollStep ==
    ASSUME TypeInv, DistinctInv, StagesInv, PollInv, [Next]_vars
    PROVE  PollInv'
<1>0. /\ polled \in providers \cup refused \cup {idle, 0}
      /\ polled \in providers => installed = polled
      /\ \A p \in providers : Stream(p) \in liveStreams
  BY DEF PollInv
<1>1. CASE UNCHANGED providerVars
  BY <1>0, <1>1 DEF providerVars, PollInv
<1>2. ASSUME NEW r \in waiting, RegisterInferenceProvider(r)
      PROVE  PollInv'
  <2>1. /\ polled' = r.n /\ installed' = r.n /\ providers' = providers \cup {r.n}
        /\ liveStreams' = liveStreams \cup {Stream(r.n)}
    BY <1>2, RegisterProviderMoves
  <2>2. \A p \in providers' : Stream(p) \in liveStreams'
    BY <1>0, <2>1
  <2> QED
    BY <2>1, <2>2 DEF PollInv
<1>3. ASSUME NEW r \in waiting, RefuseInferenceProvider(r)
      PROVE  PollInv'
  BY <1>0, <1>3, RefuseProviderMoves, AskedIsNew DEF PollInv
<1>4. CASE ReceiveUnregister
  BY <1>0, <1>4, NumbersTyped, ReceiveUnregisterMoves DEF PollInv, TypeInv
<1>5. ASSUME NEW p \in providers \cup refused, CollectProvider(p)
      PROVE  PollInv'
  <2>1. /\ providers' = providers \ {p} /\ refused' = refused \ {p}
        /\ liveStreams' = liveStreams \ {Stream(p)}
        /\ (polled # p /\ idle' = idle) \/ (polled = p /\ idle' = p)
        /\ installed' = installed /\ polled' = polled
    BY <1>5, CollectProviderMoves
  <2>2. \A q \in providers' : Stream(q) \in liveStreams'
    BY <1>0, <2>1, IdFacts
  <2> QED
    BY <1>0, <2>1, <2>2 DEF PollInv
<1> QED
  BY <1>1, <1>2, <1>3, <1>4, <1>5, ProviderCases

-----------------------------------------------------------------------------
(* Who owns what was adopted                                               *)

\* An id enters the table unadopted, and is adopted by what the utility hears.
LEMMA TableMoves ==
    ASSUME TypeInv, OwnersInv, [Next]_vars
    PROVE  /\ \A i \in functions' \ functions : i \in unadopted' /\ i[1] = functionSequence + 1
           /\ \A i \in functions' \ unadopted' :
                /\ i \in functions
                /\ \/ i \in functions \ unadopted
                   \/ i \in AdoptedIds
                   \/ \E r \in syncing, a \in reply : a.ok /\ i \in IdsOf(r)
<1> DEFINE New == \A i \in functions' \ functions :
                    i \in unadopted' /\ i[1] = functionSequence + 1
           Old == \A i \in functions' \ unadopted' :
                    /\ i \in functions
                    /\ \/ i \in functions \ unadopted
                       \/ i \in AdoptedIds
                       \/ \E r \in syncing, a \in reply : a.ok /\ i \in IdsOf(r)
<1>1. CASE UNCHANGED <<functions, unadopted>>
  BY <1>1
<1>2. ASSUME NEW type \in {"invoke", "ordered", "event"}, HandOver(type)
      PROVE  New /\ Old
  <2>1. /\ functions' = functions \cup {Fn(functionSequence + 1)}
        /\ unadopted' = unadopted \cup {Fn(functionSequence + 1)}
    BY <1>2, HandOverMoves
  <2> QED
    BY <2>1, IdFacts
<1>3. ASSUME NEW kind \in {"callback", "provider"}, SyncCall(kind)
      PROVE  New /\ Old
  <2>1. PICK r \in Requests : /\ r.n = functionSequence + 1
                              /\ functions' = functions \cup IdsOf(r)
                              /\ unadopted' = unadopted \cup IdsOf(r)
    BY <1>3, SyncCallMoves
  <2>2. \A i \in IdsOf(r) : i[1] = functionSequence + 1
    BY <2>1, NumbersTyped
  <2> QED
    BY <2>1, <2>2
<1>4. ASSUME ReceiveReply
      PROVE  New /\ Old
  <2>1. PICK r \in syncing, a \in reply, freed \in SUBSET Ids :
          /\ r \in Requests /\ a \in Replies
          /\ freed = ((IdsOf(r) \cap carried) \ a.adopted)
                       \cup (IF r.kind = "provider" /\ ~a.ok THEN IdsOf(r) ELSE {})
          /\ functions' = functions \ freed
          /\ unadopted' = (unadopted \ a.adopted) \ freed
    BY <1>4, ReplyFacts
  <2>2. a.adopted = IdsOf(r) /\ (r.kind = "callback" => a.ok)
    BY <2>1 DEF OwnersInv
  <2>3. r.kind = "callback" \/ r.kind = "provider"
    BY <2>1, NumbersTyped
  <2>4. CASE a.ok
    <3>1. functions' = functions /\ unadopted' = unadopted \ IdsOf(r)
      BY <2>1, <2>2, <2>4
    <3> QED
      BY <2>4, <3>1
  <2>5. CASE ~a.ok
    <3>1. IdsOf(r) \subseteq freed
      BY <2>1, <2>2, <2>3, <2>5
    <3> QED
      BY <2>1, <2>2, <3>1
  <2> QED
    BY <2>4, <2>5
<1>5. ASSUME HearAdopted
      PROVE  New /\ Old
  <2>1. unadopted' = unadopted \ {Head(toUtility).id} /\ functions' = functions
    BY <1>5 DEF HearAdopted
  <2>2. Take("adopted")
    BY <1>5 DEF HearAdopted
  <2>3. Head(toUtility).id \in AdoptedIds
    BY <2>2, TakeMoves
  <2> QED
    BY <2>1, <2>3
<1>6. ASSUME NEW ids, functions' = functions \ ids, unadopted' = unadopted \ ids
      PROVE  New /\ Old
  BY <1>6
<1>7. CASE HearResult
  BY <1>6, <1>7 DEF HearResult
<1>8. CASE HearRelease \/ HearReconcile
  BY <1>6, <1>8 DEF HearRelease, HearReconcile, Drop
<1>9. \/ UNCHANGED <<functions, unadopted>>
      \/ \E type \in {"invoke", "ordered", "event"} : HandOver(type)
      \/ \E kind \in {"callback", "provider"} : SyncCall(kind)
      \/ ReceiveReply \/ HearAdopted \/ HearResult \/ HearRelease \/ HearReconcile
  BY DEF Next, Utility, Host, Collector, vars, utilityVars, UnregisterInferenceProvider,
         GiveUp, HearPing, Receive, ReadRequest, DecodeCallback, RegisterInferenceProvider,
         RefuseInferenceProvider, TrackProvider, FinishCallback, ReceiveInvoke, ReceiveEvent,
         ReceiveOrdered, ReceiveUnregister, ReceivePong, OrderedCall, FinishOrdered,
         BarrierResolved, FinishInvoke, ReconcileUtilityCallbacks, CollectStub,
         CollectProvider
<1> QED
  BY <1>1, <1>2, <1>3, <1>4, <1>5, <1>7, <1>8, <1>9

\* Who sends for a release, and who hears of it.
LEMMA ReleasesStep ==
    ASSUME TypeInv, DistinctInv, [Next]_vars
    PROVE  /\ \A i \in Released : i \in Released' \/ i \notin functions'
           /\ \/ Released' \subseteq Released
              \/ ReceiveUnregister \/ \E i \in stubs : CollectStub(i)
              \/ \E p \in providers \cup refused : CollectProvider(p)
<1>1. CASE UNCHANGED toUtility
  BY <1>1, SameChannels
<1>2. ASSUME NEW type, Take(type), type # "release"
      PROVE  Released' = Released
  <2>1. Take(type)
    BY <1>2
  <2>2. In(toUtility) = In(toUtility)' \cup {Head(toUtility)} /\ Head(toUtility).type = type
    BY <2>1, TakeFacts
  <2> QED
    BY <1>2, <2>2 DEF Released
<1>3. CASE HearRelease
  <2>1. Take("release") /\ functions' = functions \ {Head(toUtility).id}
    BY <1>3 DEF HearRelease, Drop
  <2>2. Released = Released' \cup {Head(toUtility).id}
    BY <2>1, TakeMoves
  <2> QED
    BY <2>1, <2>2
<1>4. CASE HearAdopted \/ HearResult \/ HearPing \/ HearReconcile
  BY <1>2, <1>4 DEF HearAdopted, HearResult, HearPing, HearReconcile
<1>5. ASSUME NEW r \in waiting, RegisterInferenceProvider(r) \/ RefuseInferenceProvider(r)
      PROVE  Released' = Released
  <2>1. r \in Requests /\ \E ok \in BOOLEAN : Respond(r, ok, IdsOf(r))
    BY <1>5, RegisterProviderMoves, RefuseProviderMoves
  <2> QED
    BY <2>1, RespondMoves
<1>6. ASSUME NEW r \in handling, FinishCallback(r)
      PROVE  Released' = Released
  <2>1. r \in Requests /\ Respond(r, TRUE, IdsOf(r))
    BY <1>6, FinishCallbackMoves
  <2> QED
    BY <2>1, RespondMoves
<1>7. CASE \/ ReceiveInvoke \/ (\E k \in DOMAIN toHost : ReceiveEvent(k)) \/ ReceiveOrdered
  BY <1>7, DecodeMoves
<1>8. CASE ReceiveUnregister
  BY <1>8, ReceiveUnregisterMoves
<1>9. ASSUME NEW k, ReceivePong(k)
      PROVE  Released' = Released
  BY <1>9, ReceivePongMoves
<1>15. CASE FinishOrdered \/ BarrierResolved
  BY <1>15, TurnMoves
<1>10. CASE \E i \in serving : FinishInvoke(i)
  BY <1>10, FinishInvokeMoves
<1>11. CASE ReconcileUtilityCallbacks
  BY <1>11, ReconcileMoves
<1>12. CASE \E i \in stubs : CollectStub(i)
  BY <1>12, CollectStubMoves
<1>13. ASSUME NEW p \in providers \cup refused, CollectProvider(p)
       PROVE  Released \subseteq Released'
  BY <1>13, CollectProviderMoves
<1>14. \/ UNCHANGED toUtility
       \/ HearAdopted \/ HearResult \/ HearRelease \/ HearPing \/ HearReconcile
       \/ \E r \in waiting : RegisterInferenceProvider(r) \/ RefuseInferenceProvider(r)
       \/ \E r \in handling : FinishCallback(r)
       \/ ReceiveInvoke \/ (\E k \in DOMAIN toHost : ReceiveEvent(k)) \/ ReceiveOrdered
       \/ ReceiveUnregister \/ FinishOrdered \/ BarrierResolved
       \/ \E k \in DOMAIN toHost : ReceivePong(k)
       \/ \E i \in serving : FinishInvoke(i)
       \/ ReconcileUtilityCallbacks
       \/ \E i \in stubs : CollectStub(i)
       \/ \E p \in providers \cup refused : CollectProvider(p)
  BY DEF Next, Utility, Host, Collector, vars, HandOver, SyncCall, UnregisterInferenceProvider,
         ReceiveReply, GiveUp, ReadRequest, DecodeCallback
<1> QED
  BY <1>1, <1>3, <1>4, <1>5, <1>6, <1>7, <1>8, <1>9, <1>10, <1>11, <1>12, <1>13,
     <1>14, <1>15

\* What is released is on its way to the utility, which then forgets it.
LEMMA ReleasedStep ==
    ASSUME TypeInv, DistinctInv, [Next]_vars
    PROVE  \A i \in Released : i \in Released' \/ i \notin functions'
  BY ReleasesStep

LEMMA StubsStep ==
    ASSUME TypeInv, DistinctInv, [Next]_vars
    PROVE  \A i \in stubs \cup Released : i \in stubs' \cup Released' \/ i \notin functions'
<1>1. stubs \subseteq stubs' \/ \E i \in stubs : CollectStub(i)
  BY DEF Next, Utility, Host, Collector, vars, hostVars, HandOver, SyncCall, Take,
         UnregisterInferenceProvider, ReceiveReply, GiveUp, HearAdopted, HearResult,
         HearRelease, HearPing, HearReconcile, ReadRequest, DecodeCallback,
         RegisterInferenceProvider, RefuseInferenceProvider, TrackProvider, FinishCallback,
         ReceiveInvoke, ReceiveEvent, ReceiveOrdered, ReceiveUnregister, ReceivePong,
         OrderedCall, FinishOrdered, BarrierResolved, FinishInvoke, ReconcileUtilityCallbacks,
         CollectProvider
<1>2. CASE stubs \subseteq stubs'
  BY <1>2, ReleasedStep
<1>3. ASSUME NEW i \in stubs, CollectStub(i)
      PROVE  stubs \cup Released \subseteq stubs' \cup Released'
  BY <1>3, CollectStubMoves
<1> QED
  BY <1>1, <1>2, <1>3

\* What the host has of providers.
ProviderIds ==
    liveStreams \cup {Fn(n) : n \in {polled, idle} \ {0}}
      \cup UNION {Both(p) : p \in providers \cup refused}

LEMMA ProviderIdsStep ==
    ASSUME TypeInv, DistinctInv, PollInv, [Next]_vars
    PROVE  \A i \in ProviderIds :
             \/ i \in ProviderIds' \cup Released'
             \/ idle # 0 /\ i = Fn(idle)
<1> DEFINE Kept == \A i \in ProviderIds :
             \/ i \in ProviderIds' \cup Released'
             \/ idle # 0 /\ i = Fn(idle)
<1>0. \A i \in ProviderIds :
        \/ i \in liveStreams
        \/ idle # 0 /\ i = Fn(idle)
        \/ \E p \in providers \cup refused : i \in Both(p)
  <2> SUFFICES ASSUME NEW i \in ProviderIds, polled # 0, i = Fn(polled)
               PROVE  \/ idle # 0 /\ i = Fn(idle)
                      \/ \E p \in providers \cup refused : i \in Both(p)
    BY DEF ProviderIds
  <2>1. polled \in providers \cup refused \/ polled = idle
    BY DEF PollInv
  <2> QED
    BY <2>1, IdFacts
<1>1. CASE UNCHANGED providerVars
  <2>1. ProviderIds' = ProviderIds
    BY <1>1 DEF providerVars, ProviderIds
  <2> QED
    BY <2>1
<1>2. ASSUME liveStreams \subseteq liveStreams', providers \subseteq providers',
             refused \subseteq refused'
      PROVE  Kept
  BY <1>0, <1>2 DEF ProviderIds
<1>3. ASSUME NEW r \in waiting, RegisterInferenceProvider(r)
      PROVE  Kept
  <2>1. liveStreams \subseteq liveStreams' /\ providers \subseteq providers' /\ refused' = refused
    BY <1>3, RegisterProviderMoves
  <2> QED
    BY <1>2, <2>1
<1>4. ASSUME NEW r \in waiting, RefuseInferenceProvider(r)
      PROVE  Kept
  <2>1. liveStreams \subseteq liveStreams' /\ providers' = providers /\ refused \subseteq refused'
    BY <1>4, RefuseProviderMoves
  <2> QED
    BY <1>2, <2>1
<1>5. ASSUME ReceiveUnregister
      PROVE  Kept
  <2>1. liveStreams' = liveStreams /\ providers' = providers /\ refused' = refused
    BY <1>5, ReceiveUnregisterMoves
  <2> QED
    BY <1>2, <2>1
<1>6. ASSUME NEW p \in providers \cup refused, CollectProvider(p)
      PROVE  Kept
  <2>1. /\ providers' = providers \ {p} /\ refused' = refused \ {p}
        /\ liveStreams' = liveStreams \ {Stream(p)}
        /\ polled' = polled /\ p # 0
        /\ Stream(p) \in Released'
        /\ (polled # p /\ Fn(p) \in Released') \/ (polled = p /\ idle' = p)
    BY <1>6, CollectProviderMoves, NumbersTyped
  <2>2. Fn(p) \in Released' \cup ProviderIds'
    BY <2>1 DEF ProviderIds
  <2>3. \A q \in (providers \cup refused) \ {p} : Both(q) \subseteq ProviderIds'
    BY <2>1 DEF ProviderIds
  <2>4. \A i \in liveStreams \ {Stream(p)} : i \in ProviderIds'
    BY <2>1 DEF ProviderIds
  <2>5. Both(p) = {Fn(p), Stream(p)}
    BY IdFacts
  <2> HIDE DEF Kept
  <2>6. ASSUME NEW i \in ProviderIds
        PROVE  i \in ProviderIds' \cup Released' \/ (idle # 0 /\ i = Fn(idle))
    <3>1. CASE i \in liveStreams
      BY <2>1, <2>4, <3>1
    <3>2. ASSUME NEW q \in providers \cup refused, i \in Both(q)
          PROVE  i \in ProviderIds' \cup Released'
      BY <2>1, <2>2, <2>3, <2>5, <3>2
    <3> QED
      BY <1>0, <3>1, <3>2
  <2> QED
    BY <2>6 DEF Kept
<1> QED
  BY <1>1, <1>3, <1>4, <1>5, <1>6, ProviderCases

\* What the host owns, it still owns, has released, or is of no use any more.
LEMMA OwnedStep ==
    ASSUME TypeInv, DistinctInv, PollInv, [Next]_vars
    PROVE  \A i \in Owned \cup Released :
             \/ i \in Owned' \cup Released'
             \/ i \notin functions'
             \/ idle # 0 /\ i = Fn(idle)
<1>1. Owned = stubs \cup ProviderIds
  BY DEF Owned, HeldUtilityCallbackIds, ProviderIds
<1>2. Owned' = stubs' \cup ProviderIds'
  BY DEF Owned, HeldUtilityCallbackIds, ProviderIds
<1> QED
  BY <1>1, <1>2, StubsStep, ProviderIdsStep

\* The numbers of what the utility has not heard, and will not hear, was adopted.
Unheard == Asked \cup refused \cup {idle}

LEMMA UnheardStep ==
    ASSUME TypeInv, NumbersInv, DistinctInv, StagesInv, PollInv, [Next]_vars
    PROVE  \A n \in refused' \cup {idle'} : n \in Unheard \cup {0}
<1>1. CASE UNCHANGED providerVars
  BY <1>1 DEF providerVars, Unheard
<1>2. ASSUME NEW r \in waiting, RegisterInferenceProvider(r) \/ RefuseInferenceProvider(r)
      PROVE  refused' \cup {idle'} \subseteq Unheard
  <2>1. refused' \subseteq refused \cup {r.n} /\ idle' = idle
    BY <1>2, RegisterProviderMoves, RefuseProviderMoves
  <2>2. r.n \in Asked
    BY DEF Asked
  <2> QED
    BY <2>1, <2>2 DEF Unheard
<1>3. CASE ReceiveUnregister
  BY <1>3, ReceiveUnregisterMoves DEF Unheard
<1>4. ASSUME NEW p \in providers \cup refused, CollectProvider(p)
      PROVE  refused' \cup {idle'} \subseteq Unheard
  <2>1. /\ p \in (providers \ {installed}) \cup refused /\ refused' = refused \ {p}
        /\ idle' = idle \/ (polled = p /\ idle' = p)
    BY <1>4, CollectProviderMoves
  <2>2. polled = p => p \in refused
    BY <2>1 DEF PollInv
  <2> QED
    BY <2>1, <2>2 DEF Unheard
<1> QED
  BY <1>1, <1>2, <1>3, <1>4, ProviderCases

\* What the utility will hear of an adoption, the host did: it made a stub.
LEMMA AdoptedStep ==
    ASSUME TypeInv, DistinctInv, [Next]_vars
    PROVE  \A i \in AdoptedIds' : i \in AdoptedIds \/ i \in stubs'
<1>1. CASE UNCHANGED toUtility
  BY <1>1, SameChannels
<1>2. ASSUME NEW type, Take(type)
      PROVE  AdoptedIds' \subseteq AdoptedIds
  BY <1>2, TakeMoves
<1>3. CASE HearAdopted \/ HearResult \/ HearRelease \/ HearPing \/ HearReconcile
  BY <1>2, <1>3 DEF HearAdopted, HearResult, HearRelease, HearPing, HearReconcile
<1>4. ASSUME NEW r \in waiting, RegisterInferenceProvider(r) \/ RefuseInferenceProvider(r)
      PROVE  AdoptedIds' = AdoptedIds
  <2>1. r \in Requests /\ \E ok \in BOOLEAN : Respond(r, ok, IdsOf(r))
    BY <1>4, RegisterProviderMoves, RefuseProviderMoves
  <2> QED
    BY <2>1, RespondMoves
<1>5. ASSUME NEW r \in handling, FinishCallback(r)
      PROVE  AdoptedIds' = AdoptedIds
  <2>1. r \in Requests /\ Respond(r, TRUE, IdsOf(r))
    BY <1>5, FinishCallbackMoves
  <2> QED
    BY <2>1, RespondMoves
<1>6. CASE \/ ReceiveInvoke \/ (\E k \in DOMAIN toHost : ReceiveEvent(k)) \/ ReceiveOrdered
  <2>1. PICK i : (stubs' = stubs \cup {i} /\ AdoptedIds' = AdoptedIds \cup {i})
                   \/ AdoptedIds' = AdoptedIds
    BY <1>6, DecodeMoves
  <2> QED
    BY <2>1
<1>7. CASE ReceiveUnregister
  BY <1>7, ReceiveUnregisterMoves
<1>8. ASSUME NEW k, ReceivePong(k)
      PROVE  AdoptedIds' = AdoptedIds
  BY <1>8, ReceivePongMoves
<1>14. CASE FinishOrdered \/ BarrierResolved
  BY <1>14, TurnMoves
<1>9. CASE \E i \in serving : FinishInvoke(i)
  BY <1>9, FinishInvokeMoves
<1>10. CASE ReconcileUtilityCallbacks
  BY <1>10, ReconcileMoves
<1>11. CASE \E i \in stubs : CollectStub(i)
  BY <1>11, CollectStubMoves
<1>12. ASSUME NEW p \in providers \cup refused, CollectProvider(p)
       PROVE  AdoptedIds' = AdoptedIds
  BY <1>12, CollectProviderMoves
<1>13. \/ UNCHANGED toUtility
       \/ HearAdopted \/ HearResult \/ HearRelease \/ HearPing \/ HearReconcile
       \/ \E r \in waiting : RegisterInferenceProvider(r) \/ RefuseInferenceProvider(r)
       \/ \E r \in handling : FinishCallback(r)
       \/ ReceiveInvoke \/ (\E k \in DOMAIN toHost : ReceiveEvent(k)) \/ ReceiveOrdered
       \/ ReceiveUnregister \/ FinishOrdered \/ BarrierResolved
       \/ \E k \in DOMAIN toHost : ReceivePong(k)
       \/ \E i \in serving : FinishInvoke(i)
       \/ ReconcileUtilityCallbacks
       \/ \E i \in stubs : CollectStub(i)
       \/ \E p \in providers \cup refused : CollectProvider(p)
  BY DEF Next, Utility, Host, Collector, vars, HandOver, SyncCall, UnregisterInferenceProvider,
         ReceiveReply, GiveUp, ReadRequest, DecodeCallback
<1> QED
  BY <1>1, <1>3, <1>4, <1>5, <1>6, <1>7, <1>8, <1>9, <1>10, <1>11, <1>12, <1>13,
     <1>14

\* A request is dispatched once its callback is decoded.
LEMMA HandlingStep ==
    ASSUME TypeInv, [Next]_vars
    PROVE  \A r \in handling' : r \in handling \/ IdsOf(r) \subseteq stubs'
<1>1. handling' \subseteq handling \/ \E r \in waiting : DecodeCallback(r)
  BY DEF Next, Utility, Host, Collector, vars, hostVars, requestVars, HandOver, SyncCall,
         UnregisterInferenceProvider, ReceiveReply, GiveUp, HearAdopted, Take, HearResult,
         HearRelease, HearPing, HearReconcile, Receive, ReadRequest,
         RegisterInferenceProvider, RefuseInferenceProvider, TrackProvider, FinishCallback,
         Respond, ReceiveInvoke, ReceiveEvent, ReceiveOrdered, ReceiveUnregister, ReceivePong,
         OrderedCall, FinishOrdered, BarrierResolved, FinishInvoke, ReconcileUtilityCallbacks,
         CollectStub, CollectProvider
<1>2. ASSUME NEW r \in waiting, DecodeCallback(r)
      PROVE  handling' = handling \cup {r} /\ IdsOf(r) \subseteq stubs'
  BY <1>2, DecodeCallbackMoves
<1> QED
  BY <1>1, <1>2

LEMMA ReplyCases ==
    ASSUME TypeInv, [Next]_vars
    PROVE  \/ UNCHANGED <<syncing, reply>> /\ Pending' \subseteq Pending
           \/ syncing' = {} \/ reply' = {}
           \/ \E r \in waiting : RegisterInferenceProvider(r) \/ RefuseInferenceProvider(r)
           \/ \E r \in handling : FinishCallback(r)
<1>1. ASSUME UNCHANGED <<unread, waiting, handling>>
      PROVE  Pending' = Pending
  BY <1>1, SameChannels DEF Pending
<1>2. CASE ReadRequest
  <2>1. /\ In(unread) = In(unread)' \cup {Head(unread)} /\ waiting' = waiting \cup {Head(unread)}
        /\ handling' = handling /\ UNCHANGED <<syncing, reply>>
    BY <1>2, ReadRequestMoves DEF utilityVars
  <2> QED
    BY <2>1 DEF Pending
<1>3. ASSUME NEW r \in waiting, DecodeCallback(r)
      PROVE  UNCHANGED <<syncing, reply>> /\ Pending' \subseteq Pending
  <2>1. /\ waiting' = waiting \ {r} /\ handling' = handling \cup {r}
        /\ UNCHANGED <<unread, syncing, reply>>
    BY <1>3, DecodeCallbackMoves DEF utilityVars
  <2> QED
    BY <2>1, SameChannels DEF Pending
<1>4. \/ UNCHANGED <<syncing, reply, unread, waiting, handling>>
      \/ syncing' = {} \/ \E kind \in {"callback", "provider"} : SyncCall(kind)
      \/ ReadRequest
      \/ \E r \in waiting : \/ DecodeCallback(r) \/ RegisterInferenceProvider(r)
                            \/ RefuseInferenceProvider(r)
      \/ \E r \in handling : FinishCallback(r)
  BY DEF Next, Utility, Host, Collector, vars, utilityVars, hostVars, requestVars, HandOver,
         UnregisterInferenceProvider, ReceiveReply, GiveUp, HearAdopted, Take, HearResult,
         HearRelease, HearPing, HearReconcile, Receive, ReceiveInvoke, ReceiveEvent,
         ReceiveOrdered, ReceiveUnregister, ReceivePong, OrderedCall, FinishOrdered,
         BarrierResolved, FinishInvoke, ReconcileUtilityCallbacks, CollectStub,
         CollectProvider
<1>5. ASSUME NEW kind \in {"callback", "provider"}, SyncCall(kind)
      PROVE  reply' = {}
  <2>1. \E r \in Requests : reply = {} /\ reply' = reply
    BY <1>5, SyncCallMoves
  <2> QED
    BY <2>1
<1> QED
  BY <1>1, <1>2, <1>3, <1>4, <1>5

LEMMA OwnersStep ==
    ASSUME TypeInv, NumbersInv, DistinctInv, StagesInv, PollInv, OwnersInv, [Next]_vars
    PROVE  OwnersInv'
<1>0. /\ \A i \in functions : /\ i \in Ids /\ i[1] \in Nat /\ i[1] # 0
                              /\ i[1] <= functionSequence
      /\ functionSequence \in Nat
  BY NumbersTyped, IdFacts DEF TypeInv, NumbersInv
<1>1. \A i \in functions' \ functions : /\ i \in unadopted'
                                        /\ i[1] = functionSequence + 1
                                        /\ i[1] \in Nat /\ ~(i[1] <= functionSequence)
  BY <1>0, TableMoves
<1>2. Apart /\ NumbersMove
  BY NumbersMoveStep DEF StagesInv, Apart
<1>3. \A n \in Unheard \cup CallbackNumbers \cup RequestNumbers : n <= functionSequence
  <2>1. Asked \subseteq RequestNumbers
    BY NumbersAreNat
  <2>2. \A n \in refused \cup {idle} : n \in ProviderNumbers \/ n = 0
    BY DEF ProviderNumbers
  <2> QED
    BY <1>0, <2>1, <2>2 DEF NumbersInv, Unheard
<1>4. \A i \in functions' : i[1] \in Unheard \cup CallbackNumbers \cup RequestNumbers => i \in functions
  BY <1>1, <1>3
<1>5. \A i \in AdoptedIds : i[1] \in CallbackNumbers /\ i[1] \notin Unheard
  <2>1. \A i \in AdoptedIds : i[1] \in CallbackNumbers /\ i[1] # 0
    BY OnTheWay, IdFacts, NumbersTyped DEF CallbackNumbers
  <2> QED
    BY <1>2, <2>1 DEF Apart, ProviderNumbers, Unheard
\* A request that is answered is not Asked any more.
<1>6. ASSUME NEW r \in syncing, NEW a \in reply
      PROVE  /\ r \in Requests /\ r \notin Pending /\ r.n \notin Asked /\ r.n # 0
             /\ r.n \in RequestNumbers
             /\ a.adopted = IdsOf(r)
             /\ r.kind = "callback" => a.ok
             /\ a.ok => IdsOf(r) \cap functions \subseteq Owned \cup Released
             /\ a.ok => r.n \notin Unheard
             /\ \A i \in IdsOf(r) : i[1] = r.n
  <2>1. /\ r \notin Pending /\ a.adopted = IdsOf(r)
        /\ r.kind = "callback" => a.ok
        /\ a.ok => IdsOf(r) \cap functions \subseteq Owned \cup Released
        /\ a.ok => r.n \notin refused \cup {idle}
    BY DEF OwnersInv
  <2>2. r.n \notin Asked
    BY <2>1 DEF Asked, Pending, DistinctInv
  <2>3. r \in Requests /\ r.n # 0 /\ \A i \in IdsOf(r) : i[1] = r.n
    BY NumbersTyped DEF TypeInv
  <2> QED
    BY <2>1, <2>2, <2>3 DEF Unheard, RequestNumbers
<1>7. (functions \ unadopted \subseteq Owned \cup Released)'
  <2> SUFFICES ASSUME NEW i \in functions', i \notin unadopted'
               PROVE  i \in Owned' \cup Released'
    OBVIOUS
  <2>1. i \in functions
    BY TableMoves
  <2>2. i \in Owned \cup Released /\ i # Fn(idle)
    <3>1. CASE i \in functions \ unadopted
      <4>1. i \in Owned \cup Released
        BY <3>1 DEF OwnersInv
      <4>2. i[1] # idle
        BY <3>1 DEF OwnersInv
      <4> QED
        BY <4>1, <4>2, IdFacts
    <3>2. CASE i \in AdoptedIds
      <4>1. i \in stubs \cup Released
        BY <2>1, <3>2 DEF OwnersInv
      <4>2. i[1] # idle
        BY <1>5, <3>2 DEF Unheard
      <4> QED
        BY <4>1, <4>2, IdFacts DEF Owned, HeldUtilityCallbackIds
    <3>3. ASSUME NEW r \in syncing, NEW a \in reply, a.ok, i \in IdsOf(r)
          PROVE  i \in Owned \cup Released /\ i # Fn(idle)
      <4>1. i \in Owned \cup Released /\ i[1] # idle
        BY <1>6, <2>1, <3>3 DEF Unheard
      <4> QED
        BY <4>1, IdFacts
    <3> QED
      BY <3>1, <3>2, <3>3, TableMoves
  <2> QED
    BY <2>2, OwnedStep
<1>8. (AdoptedIds \cap functions \subseteq stubs \cup Released)'
  <2> SUFFICES ASSUME NEW i \in AdoptedIds', i \in functions'
               PROVE  i \in stubs' \cup Released'
    OBVIOUS
  <2>1. i \in AdoptedIds \/ i \in stubs'
    BY AdoptedStep
  <2>2. CASE i \in AdoptedIds
    <3>1. i \in functions
      BY <1>4, <1>5, <2>2
    <3>2. i \in stubs \cup Released
      BY <2>2, <3>1 DEF OwnersInv
    <3> QED
      BY <3>2, StubsStep
  <2> QED
    BY <2>1, <2>2
<1>9. (\A r \in handling : IdsOf(r) \cap functions \subseteq stubs \cup Released)'
  <2> SUFFICES ASSUME NEW r \in handling', NEW i \in IdsOf(r), i \in functions'
               PROVE  i \in stubs' \cup Released'
    BY DEF IdsOf
  <2>1. r \in handling \/ i \in stubs'
    BY HandlingStep
  <2>2. CASE r \in handling
    <3>1. r \in Requests /\ r.n \in RequestNumbers
      BY <2>2 DEF TypeInv, RequestNumbers, Pending
    <3>2. i \in functions
      BY <1>4, <3>1, NumbersTyped
    <3>3. i \in stubs \cup Released
      BY <2>2, <3>2 DEF OwnersInv
    <3> QED
      BY <3>3, StubsStep
  <2> QED
    BY <2>1, <2>2
<1>10. (\A i \in functions : i[1] \in Asked \cup refused \cup {idle} => i \in unadopted)'
  <2> SUFFICES ASSUME NEW i \in functions', i[1] \in Asked' \cup refused' \cup {idle'},
                      i \notin unadopted'
               PROVE  FALSE
    OBVIOUS
  <2>1. i \in functions
    BY TableMoves
  <2>2. i[1] \in Nat /\ i[1] # 0 /\ i[1] <= functionSequence
    BY <1>0, <2>1
  <2>3. Asked' \subseteq Asked \cup Fresh
    BY <1>2 DEF NumbersMove
  <2>4. i[1] \notin Fresh
    BY <1>0, <1>2, <2>2 DEF Fresh, NumbersMove
  <2>5. i[1] \in Unheard
    BY <2>2, <2>3, <2>4, UnheardStep DEF Unheard
  <2>6. i \in unadopted
    BY <2>1, <2>5 DEF OwnersInv, Unheard
  <2>7. i \notin AdoptedIds
    BY <1>5, <2>5
  <2>8. ASSUME NEW r \in syncing, NEW a \in reply, a.ok, i \in IdsOf(r)
        PROVE  FALSE
    BY <1>6, <2>5, <2>8
  <2> QED
    BY <2>6, <2>7, <2>8, TableMoves
<1>11. (\A r \in syncing, a \in reply :
         /\ r \notin Pending
         /\ a.adopted = IdsOf(r)
         /\ r.kind = "callback" => a.ok
         /\ a.ok => /\ IdsOf(r) \cap functions \subseteq Owned \cup Released
                    /\ r.n \notin refused \cup {idle})'
  <2> SUFFICES ASSUME NEW r \in syncing', NEW a \in reply'
               PROVE  /\ r \notin Pending' /\ a.adopted = IdsOf(r)
                      /\ r.kind = "callback" => a.ok
                      /\ a.ok => \A i \in IdsOf(r) : i \in functions' => i \in Owned' \cup Released'
                      /\ a.ok => r.n \notin refused' \cup {idle'}
    BY DEF IdsOf
  <2>1. CASE UNCHANGED <<syncing, reply>> /\ Pending' \subseteq Pending
    <3>1. r \in syncing /\ a \in reply
      BY <2>1
    <3>2. /\ r \notin Pending' /\ a.adopted = IdsOf(r) /\ (r.kind = "callback" => a.ok)
      BY <1>6, <2>1, <3>1
    <3>3. ASSUME a.ok, NEW i \in IdsOf(r), i \in functions'
          PROVE  i \in Owned' \cup Released'
      <4>1. i[1] = r.n /\ r.n \in RequestNumbers /\ r.n # idle
        BY <1>6, <3>1, <3>3 DEF Unheard
      <4>2. i \in functions
        BY <1>4, <3>3, <4>1
      <4>3. i \in Owned \cup Released
        BY <1>6, <3>1, <3>3, <4>2
      <4>4. i # Fn(idle)
        BY <4>1, IdFacts
      <4> QED
        BY <3>3, <4>3, <4>4, OwnedStep
    <3>4. a.ok => r.n \notin refused' \cup {idle'}
      BY <1>6, <3>1, UnheardStep
    <3> QED
      BY <3>2, <3>3, <3>4
  <2>2. CASE syncing' = {} \/ reply' = {}
    BY <2>2
  <2>3. ASSUME NEW q \in Requests, NEW ok \in BOOLEAN, Respond(q, ok, IdsOf(q)),
               UNCHANGED unread, syncing' = syncing, q \in waiting \cup handling
        PROVE  /\ r = q => /\ r \notin Pending' /\ a.adopted = IdsOf(r) /\ a.ok = ok
               /\ r # q => UNCHANGED <<syncing, reply>> /\ Pending' \subseteq Pending
    <3>1. /\ waiting' = waiting \ {q} /\ handling' = handling \ {q}
          /\ q \in syncing => \E b : /\ reply' = {b} /\ b.ok = ok /\ b.adopted = IdsOf(q)
          /\ q \notin syncing => UNCHANGED reply
      BY <2>3, RespondMoves
    <3>2. In(unread)' = In(unread)
      BY <2>3, SameChannels
    <3>3. q \notin In(unread)
      BY <2>3 DEF DistinctInv
    <3>4. Pending' \subseteq Pending \ {q}
      BY <3>1, <3>2, <3>3 DEF Pending
    <3>5. r \in syncing /\ \A s \in syncing : s = r
      BY <2>3 DEF TypeInv
    <3> QED
      BY <2>3, <3>1, <3>4, <3>5
  <2>4. ASSUME NEW q \in waiting, RegisterInferenceProvider(q) \/ RefuseInferenceProvider(q)
        PROVE  /\ r \notin Pending' /\ a.adopted = IdsOf(r)
               /\ r.kind = "callback" => a.ok
               /\ a.ok => \A i \in IdsOf(r) : i \in functions' => i \in Owned' \cup Released'
               /\ a.ok => r.n \notin refused' \cup {idle'}
    <3>1. /\ q.kind = "provider" /\ q \in Requests /\ UNCHANGED <<unread, idle>>
          /\ syncing' = syncing
          /\ \/ /\ Respond(q, TRUE, IdsOf(q)) /\ providers' = providers \cup {q.n}
                /\ refused' = refused
             \/ Respond(q, FALSE, IdsOf(q))
      BY <2>4, RegisterProviderMoves, RefuseProviderMoves DEF utilityVars
    <3>2. PICK ok \in BOOLEAN :
            /\ Respond(q, ok, IdsOf(q))
            /\ ok => providers' = providers \cup {q.n} /\ refused' = refused
      BY <3>1
    <3>3. CASE r # q
      BY <2>1, <2>3, <3>1, <3>2, <3>3
    <3>4. CASE r = q
      <4>1. r \notin Pending' /\ a.adopted = IdsOf(r) /\ a.ok = ok
        BY <2>3, <3>1, <3>2, <3>4
      <4>2. a.ok => \A i \in IdsOf(r) : i \in Owned'
        BY <3>1, <3>2, <3>4, <4>1, NumbersTyped DEF Owned
      <4>3. a.ok => r.n \notin refused' \cup {idle'}
        BY <3>1, <3>2, <3>4, <4>1, AskedIsNew
      <4>4. r.kind # "callback"
        BY <3>1, <3>4
      <4> QED
        BY <4>1, <4>2, <4>3, <4>4
    <3> QED
      BY <3>3, <3>4
  <2>5. ASSUME NEW q \in handling, FinishCallback(q)
        PROVE  /\ r \notin Pending' /\ a.adopted = IdsOf(r)
               /\ r.kind = "callback" => a.ok
               /\ a.ok => \A i \in IdsOf(r) : i \in functions' => i \in Owned' \cup Released'
               /\ a.ok => r.n \notin refused' \cup {idle'}
    <3>1. /\ q \in Requests /\ UNCHANGED unread /\ syncing' = syncing
          /\ Respond(q, TRUE, IdsOf(q)) /\ functions' = functions
          /\ UNCHANGED providerVars /\ stubs' = stubs
      BY <2>5, FinishCallbackMoves DEF utilityVars
    <3>2. CASE r # q
      BY <2>1, <2>3, <3>1, <3>2
    <3>3. CASE r = q
      <4>1. r \notin Pending' /\ a.adopted = IdsOf(r) /\ a.ok
        BY <2>3, <3>1, <3>3
      <4>2. Released' = Released
        BY <3>1, RespondMoves
      <4>3. \A i \in IdsOf(r) : i \in functions' => i \in Owned' \cup Released'
        BY <3>1, <3>3, <4>2 DEF OwnersInv, Owned, HeldUtilityCallbackIds
      <4>4. r.n \in CallbackNumbers /\ r.n # 0
        BY <3>1, <3>3, NumbersTyped DEF CallbackNumbers
      <4>5. r.n \notin refused \cup {idle}
        BY <1>2, <4>4 DEF Apart, ProviderNumbers
      <4>6. r.n \notin refused' \cup {idle'}
        BY <3>1, <4>5 DEF providerVars
      <4> QED
        BY <4>1, <4>3, <4>6
    <3> QED
      BY <3>2, <3>3
  <2> QED
    BY <2>1, <2>2, <2>4, <2>5, ReplyCases
<1> QED
  BY <1>7, <1>8, <1>9, <1>10, <1>11 DEF OwnersInv

-----------------------------------------------------------------------------
\* What holds however long a request waits.
IInvOwners ==
    TypeInv /\ CountInv /\ NumbersInv /\ DistinctInv /\ StagesInv /\ PollInv /\ OwnersInv

LEMMA InitOwners == Init => IInvOwners
<1> SUFFICES ASSUME Init PROVE IInvOwners
  OBVIOUS
<1>1. TypeInv /\ CountInv
  BY InitTypes DEF IInvTypes
<1>2. /\ In(toHost) = {} /\ In(toUtility) = {} /\ In(unread) = {}
      /\ DOMAIN toHost = {} /\ DOMAIN unread = {}
  BY DEF Init, In
<1>3. /\ WireIds = {} /\ AdoptedIds = {} /\ ResultIds = {} /\ Released = {}
      /\ Pending = {} /\ Asked = {}
  BY <1>2 DEF Init, WireIds, AdoptedIds, ResultIds, Released, Pending, Asked
<1>4. OnWire = {} /\ RequestNumbers = {} /\ CallbackNumbers = {} /\ ProviderNumbers = {}
      /\ ReleasedNumbers = {} /\ {i[1] : i \in functions} = {}
  BY <1>3 DEF Init, OnWire, RequestNumbers, CallbackNumbers, ProviderNumbers, ReleasedNumbers
<1>5. NumbersInv
  BY <1>4 DEF NumbersInv
<1>6. DistinctInv
  BY <1>2, <1>3 DEF Init, DistinctInv
<1>7. StagesInv
  BY <1>3, <1>4 DEF Init, StagesInv
<1>8. PollInv
  BY DEF Init, PollInv
<1>9. OwnersInv
  BY <1>3 DEF Init, OwnersInv
<1> QED
  BY <1>1, <1>5, <1>6, <1>7, <1>8, <1>9 DEF IInvOwners

LEMMA OwnersKept ==
    ASSUME IInvOwners, [Next]_vars
    PROVE  IInvOwners'
<1>1. TypeInv' /\ CountInv'
  BY TypeStep, CountStep DEF IInvOwners
<1>2. NumbersInv' /\ StagesInv'
  BY <1>1, StagesStep DEF IInvOwners
<1> QED
  BY <1>1, <1>2, DistinctStep, PollStep, OwnersStep DEF IInvOwners

(* What the utility process keeps because it was adopted, out of reach of  *)
(* the settlements and the sweeps, the host owns, or has sent for its      *)
(* release: through refusals, provider swaps under the poll, calls that    *)
(* are given up and finalizers in any order.                               *)
THEOREM AdoptedIdsHaveOwners == Spec => []AdoptedHasAnOwner
<1>1. IInvOwners => AdoptedHasAnOwner
  BY DEF IInvOwners, OwnersInv, AdoptedHasAnOwner
<1>2. Init => IInvOwners
  BY InitOwners
<1>3. IInvOwners /\ [Next]_vars => IInvOwners'
  BY OwnersKept
<1> QED
  BY <1>1, <1>2, <1>3, PTL DEF Spec

-----------------------------------------------------------------------------
(* What the host may reach                                                 *)

RequestIds == UNION {IdsOf(r) : r \in In(unread) \cup waiting}
UnderWayParts == UnderWay = WireIds \cup RequestIds

LEMMA UnderWayNow == TypeInv => UnderWayParts
  BY OnTheWay DEF UnderWayParts, RequestIds

LEMMA UnderWayNext == TypeInv' => UnderWayParts'
  BY UnderWayNow, PTL

\* Ids that the step registers.
NewIds == {i \in functions' : i[1] = functionSequence + 1 /\ functionSequence' = functionSequence + 1}

LEMMA UnderWayStep ==
    ASSUME TypeInv, DistinctInv, [Next]_vars, TypeInv'
    PROVE  UnderWay' \subseteq UnderWay \cup NewIds
<1>1. WireIds' \subseteq WireIds \cup NewIds
  <2>1. CASE UNCHANGED toHost
    BY <2>1, SameChannels
  <2>2. ASSUME NEW type \in {"invoke", "ordered", "event"}, HandOver(type)
        PROVE  WireIds' \subseteq WireIds \cup NewIds
    BY <2>2, HandOverMoves, IdFacts DEF NewIds
  <2>3. CASE UnregisterInferenceProvider
    BY <2>3, UnregisterMoves
  <2>4. CASE HearPing
    BY <2>4, HearPingMoves
  <2>5. ASSUME NEW type, NEW k, Receive(type, k)
        PROVE  WireIds' \subseteq WireIds
    BY <2>5, ReceiveMoves
  <2>6. \/ UNCHANGED toHost
        \/ \E type \in {"invoke", "ordered", "event"} : HandOver(type)
        \/ UnregisterInferenceProvider \/ HearPing
        \/ \E type, k : Receive(type, k)
    BY DEF Next, Utility, Host, Collector, vars, SyncCall, ReceiveReply, GiveUp, HearAdopted,
           HearResult, HearRelease, HearReconcile, ReadRequest, DecodeCallback,
           RegisterInferenceProvider, RefuseInferenceProvider, TrackProvider, FinishCallback,
           ReceiveInvoke, ReceiveEvent, ReceiveOrdered, ReceiveUnregister, ReceivePong,
           OrderedCall, FinishOrdered, BarrierResolved, FinishInvoke,
           ReconcileUtilityCallbacks, CollectStub, CollectProvider
  <2> QED
    BY <2>1, <2>2, <2>3, <2>4, <2>5, <2>6
<1>2. RequestIds' \subseteq RequestIds \cup NewIds
  <2>1. ASSUME UNCHANGED unread, waiting' \subseteq waiting
        PROVE  RequestIds' \subseteq RequestIds
    BY <2>1, SameChannels DEF RequestIds, IdsOf
  <2>2. ASSUME NEW kind \in {"callback", "provider"}, SyncCall(kind)
        PROVE  RequestIds' \subseteq RequestIds \cup NewIds
    <3>1. PICK r \in Requests :
            /\ r.n = functionSequence + 1 /\ functionSequence' = functionSequence + 1
            /\ functions' = functions \cup IdsOf(r)
            /\ In(unread)' = In(unread) \cup {r} /\ UNCHANGED hostVars
      BY <2>2, SyncCallMoves
    <3>2. \A i \in IdsOf(r) : i \in NewIds
      BY <3>1, NumbersTyped DEF NewIds
    <3>3. waiting' = waiting
      BY <3>1 DEF hostVars, requestVars
    <3> QED
      BY <3>1, <3>2, <3>3 DEF RequestIds, IdsOf
  <2>3. CASE ReadRequest
    <3>1. /\ In(unread) = In(unread)' \cup {Head(unread)}
          /\ waiting' = waiting \cup {Head(unread)}
      BY <2>3, ReadRequestMoves
    <3>2. In(unread)' \cup waiting' = In(unread) \cup waiting
      BY <3>1
    <3> QED
      BY <3>2 DEF RequestIds, IdsOf
  <2>4. \/ UNCHANGED unread /\ waiting' \subseteq waiting
        \/ \E kind \in {"callback", "provider"} : SyncCall(kind)
        \/ ReadRequest
    BY DEF Next, Utility, Host, Collector, vars, hostVars, requestVars, HandOver,
           UnregisterInferenceProvider, ReceiveReply, GiveUp, HearAdopted, Take, HearResult,
           HearRelease, HearPing, HearReconcile, Receive, Respond, DecodeCallback,
           RegisterInferenceProvider, RefuseInferenceProvider, TrackProvider, FinishCallback,
           ReceiveInvoke, ReceiveEvent, ReceiveOrdered, ReceiveUnregister, ReceivePong,
           OrderedCall, FinishOrdered, BarrierResolved, FinishInvoke,
           ReconcileUtilityCallbacks, CollectStub, CollectProvider
  <2> QED
    BY <2>1, <2>2, <2>3, <2>4
<1>3. UnderWay = WireIds \cup RequestIds /\ UnderWay' = WireIds' \cup RequestIds'
  BY UnderWayNow, UnderWayNext DEF UnderWayParts
<1> QED
  BY <1>1, <1>2, <1>3

\* The host makes a stub of what was on its way, by message or by request.
LEMMA StubsMove ==
    ASSUME TypeInv, DistinctInv, [Next]_vars
    PROVE  stubs' \subseteq stubs \cup UnderWay
<1>1. UnderWay = WireIds \cup RequestIds
  BY UnderWayNow DEF UnderWayParts
<1>2. CASE ReceiveInvoke \/ (\E k \in DOMAIN toHost : ReceiveEvent(k)) \/ ReceiveOrdered
  <2>1. PICK i \in WireIds : stubs' = stubs \cup {i} \/ stubs' = stubs
    BY <1>2, DecodeMoves
  <2> QED
    BY <1>1, <2>1
<1>3. ASSUME NEW r \in waiting, DecodeCallback(r)
      PROVE  stubs' \subseteq stubs \cup UnderWay
  <2>1. stubs' = stubs \cup IdsOf(r)
    BY <1>3, DecodeCallbackMoves
  <2> QED
    BY <1>1, <2>1 DEF RequestIds
<1>4. \/ stubs' \subseteq stubs
      \/ ReceiveInvoke \/ (\E k \in DOMAIN toHost : ReceiveEvent(k)) \/ ReceiveOrdered
      \/ \E r \in waiting : DecodeCallback(r)
  BY DEF Next, Utility, Host, Collector, vars, hostVars, HandOver, SyncCall, Take,
         UnregisterInferenceProvider, ReceiveReply, GiveUp, HearAdopted, HearResult,
         HearRelease, HearPing, HearReconcile, ReadRequest, FinishCallback,
         RegisterInferenceProvider, RefuseInferenceProvider, TrackProvider,
         ReceiveUnregister, OrderedCall, FinishOrdered, ReceivePong, PostSweep,
         BarrierResolved, FinishInvoke, ReconcileUtilityCallbacks, CollectStub,
         CollectProvider
<1> QED
  BY <1>2, <1>3, <1>4

CallableProviderIds ==
    {Stream(p) : p \in providers} \cup {Fn(p) : p \in providers \cap {polled}}

LEMMA CallableStep ==
    ASSUME TypeInv, DistinctInv, StagesInv, [Next]_vars
    PROVE  Callable' \subseteq Callable \cup UnderWay
<1>1. CallableProviderIds' \subseteq CallableProviderIds \cup UnderWay
  <2>1. CASE UNCHANGED providerVars
    BY <2>1 DEF providerVars, CallableProviderIds
  <2>2. ASSUME NEW r \in waiting, RegisterInferenceProvider(r)
        PROVE  CallableProviderIds' \subseteq CallableProviderIds \cup UnderWay
    <3>1. /\ r.kind = "provider" /\ r \in Requests
          /\ polled' = r.n /\ providers' = providers \cup {r.n}
      BY <2>2, RegisterProviderMoves
    <3>2. Fn(r.n) \in UnderWay /\ Stream(r.n) \in UnderWay
      BY <3>1, NumbersTyped, IdFacts, UnderWayNow DEF UnderWayParts, RequestIds
    <3> QED
      BY <3>1, <3>2 DEF CallableProviderIds
  <2>3. ASSUME NEW r \in waiting, RefuseInferenceProvider(r)
        PROVE  CallableProviderIds' \subseteq CallableProviderIds
    <3>1. polled' = r.n /\ providers' = providers /\ r.n \notin providers
      BY <2>3, RefuseProviderMoves, AskedIsNew
    <3> QED
      BY <3>1 DEF CallableProviderIds
  <2>4. CASE ReceiveUnregister
    <3>1. polled' = 0 /\ providers' = providers /\ 0 \notin providers
      BY <2>4, ReceiveUnregisterMoves, NumbersTyped DEF TypeInv
    <3> QED
      BY <3>1 DEF CallableProviderIds
  <2>5. ASSUME NEW p \in providers \cup refused, CollectProvider(p)
        PROVE  CallableProviderIds' \subseteq CallableProviderIds
    <3>1. providers' = providers \ {p} /\ polled' = polled
      BY <2>5, CollectProviderMoves
    <3> QED
      BY <3>1 DEF CallableProviderIds
  <2> QED
    BY <2>1, <2>2, <2>3, <2>4, <2>5, ProviderCases
<1>2. Callable = stubs \cup CallableProviderIds /\ Callable' = stubs' \cup CallableProviderIds'
  BY DEF Callable, CallableProviderIds
<1> QED
  BY <1>1, <1>2, StubsMove

\* Where the number of a callable id stands.
ReachStages ==
    /\ UnderWay \subseteq Ids /\ Callable \subseteq Ids
    /\ \A i \in UnderWay : i[1] \in OnWire \cup Asked
    /\ \A i \in stubs : i[1] \in CallbackNumbers
    /\ \A i \in Callable \ stubs :
         i[1] \in providers /\ i[1] \in ProviderNumbers /\ (i = Stream(i[1]) \/ i[1] = polled)

LEMMA ReachStagesNow == TypeInv => ReachStages
<1> SUFFICES ASSUME TypeInv PROVE ReachStages
  OBVIOUS
<1>1. UnderWay = WireIds \cup RequestIds /\ WireIds \subseteq Ids /\ In(unread) \subseteq Requests
  BY UnderWayNow, OnTheWay DEF UnderWayParts
<1>2. \A i \in WireIds : i[1] \in OnWire
  BY DEF OnWire
<1>3. \A i \in RequestIds : i \in Ids /\ i[1] \in Asked
  <2> SUFFICES ASSUME NEW r \in In(unread) \cup waiting, NEW i \in IdsOf(r)
               PROVE  i \in Ids /\ i[1] \in Asked
    BY DEF RequestIds
  <2>1. r \in Requests
    BY <1>1 DEF TypeInv
  <2>2. r.n \in Asked
    BY DEF Asked
  <2> QED
    BY <2>1, <2>2, NumbersTyped
<1>4. \A i \in stubs : i \in Ids /\ i[1] \in CallbackNumbers
  BY DEF TypeInv, CallbackNumbers
<1>5. \A p \in providers : p \in Numbers /\ p \in ProviderNumbers /\ Stream(p) \in Ids /\ Fn(p) \in Ids
  BY NumbersTyped, IdFacts DEF TypeInv, ProviderNumbers
<1>6. \A i \in Callable \ stubs : i \in CallableProviderIds
  BY DEF Callable, CallableProviderIds
<1>7. \A i \in CallableProviderIds : i \in Ids /\ i[1] \in providers /\ i[1] \in ProviderNumbers
                                     /\ (i = Stream(i[1]) \/ i[1] = polled)
  BY <1>5, IdFacts DEF CallableProviderIds
<1> QED
  BY <1>1, <1>2, <1>3, <1>4, <1>6, <1>7 DEF ReachStages

LEMMA ReachStagesNext == TypeInv' => ReachStages'
  BY ReachStagesNow, PTL

-----------------------------------------------------------------------------
(* Nothing frees what the host may reach                                   *)

\* Numbers that are given out now are of no use elsewhere yet.
LEMMA NewNumbers ==
    ASSUME TypeInv, NumbersInv, DistinctInv, StagesInv, [Next]_vars, NEW i \in NewIds
    PROVE  /\ i[1] \notin OnWire \cup Asked \cup RequestNumbers \cup CallbackNumbers
                            \cup ProviderNumbers \cup ReleasedNumbers
           /\ i \notin Released'
<1>1. functionSequence \in Nat /\ i[1] = functionSequence + 1
  BY NumbersAreNat DEF NewIds
<1>2. Asked \subseteq RequestNumbers
  BY NumbersAreNat
<1>3. i[1] \notin OnWire \cup Asked \cup RequestNumbers \cup CallbackNumbers
                    \cup ProviderNumbers \cup ReleasedNumbers
  <2> SUFFICES ASSUME NEW n \in OnWire \cup RequestNumbers \cup CallbackNumbers
                                 \cup ProviderNumbers \cup ReleasedNumbers, n = i[1]
               PROVE  FALSE
    BY <1>2
  <2>1. n <= functionSequence
    BY DEF NumbersInv
  <2> QED
    BY <1>1, <2>1
<1>4. NumbersMove
  BY NumbersMoveStep DEF StagesInv, Apart
<1>5. i \notin Released'
  BY <1>3, <1>4 DEF NumbersMove, ReleasedNumbers
<1> QED
  BY <1>3, <1>5

\* What the host may reach, by the stages of the numbers.
LEMMA ReachFacts ==
    ASSUME TypeInv, StagesInv
    PROVE  /\ \A i \in UnderWay : i[1] \notin CallbackNumbers \cup ProviderNumbers
           /\ \A i \in Callable : i \in stubs \/ (i[1] \in ProviderNumbers /\ i[1] \in providers)
           /\ \A i \in stubs : i[1] \notin ProviderNumbers
           /\ \A i \in InReach : i[1] \in CallbackNumbers => i \in stubs
           /\ \A i \in InReach : i[1] \in ProviderNumbers => i[1] \in providers
<1>1. ReachStages
  BY ReachStagesNow
<1> QED
  BY <1>1 DEF ReachStages, StagesInv, InReach

LEMMA FreedStep ==
    ASSUME TypeInv, NumbersInv, StagesInv, OwnersInv, SettledInv, SweepInv, [Next]_vars
    PROVE  InReach \subseteq functions'
<1>0. InReach \subseteq functions /\ \A i \in InReach : i \notin Released
  BY DEF SettledInv
<1>1. CASE functions \subseteq functions'
  BY <1>0, <1>1
<1>2. ASSUME ReceiveReply
      PROVE  InReach \subseteq functions'
  <2>1. PICK r \in syncing, a \in reply, freed \in SUBSET Ids :
          /\ freed \subseteq IdsOf(r)
          /\ freed = ((IdsOf(r) \cap carried) \ a.adopted)
                       \cup (IF r.kind = "provider" /\ ~a.ok THEN IdsOf(r) ELSE {})
          /\ functions' = functions \ freed
    BY <1>2, ReplyFacts
  <2>2. a.adopted = IdsOf(r) /\ (~a.ok => IdsOf(r) \cap InReach = {})
    BY <2>1 DEF OwnersInv, SettledInv
  <2>3. freed \cap InReach = {}
    BY <2>1, <2>2
  <2> QED
    BY <1>0, <2>1, <2>3
<1>3. ASSUME HearResult
      PROVE  InReach \subseteq functions'
  <2> DEFINE i == Head(toUtility).id
  <2>1. /\ Take("result") /\ functions' = functions \ ({i} \cap carried \cap unadopted)
    BY <1>3 DEF HearResult, SettledOrphans
  <2>2. /\ toUtility # <<>> /\ toUtility \in Seq(ToUtilityMessages)
        /\ Head(toUtility).type = "result"
    BY <2>1, TakeFacts
  <2>3. 1 \in DOMAIN toUtility /\ Head(toUtility) = toUtility[1]
    BY <2>2, TakeFromChannel
  <2>4. i \notin stubs \cap unadopted
    BY <2>2, <2>3 DEF SettledInv, ResultsInv
  <2>5. i[1] \in CallbackNumbers
    <3>1. i \in ResultIds
      BY <2>1, TakeMoves
    <3> QED
      BY <3>1 DEF CallbackNumbers
  <2>6. i \in InReach => i \notin unadopted
    BY <2>4, <2>5, ReachFacts
  <2> HIDE DEF i
  <2> QED
    BY <1>0, <2>1, <2>6
<1>4. ASSUME HearRelease
      PROVE  InReach \subseteq functions'
  <2>1. Take("release") /\ functions' = functions \ {Head(toUtility).id}
    BY <1>4 DEF HearRelease, Drop
  <2>2. Head(toUtility).id \in Released
    BY <2>1, TakeMoves
  <2> QED
    BY <1>0, <2>1, <2>2
<1>5. ASSUME HearReconcile
      PROVE  InReach \subseteq functions'
  <2>1. Take("reconcile") /\ functions' = functions \ Swept(Head(toUtility).held)
    BY <1>5 DEF HearReconcile, Drop
  <2>2. /\ toUtility # <<>> /\ toUtility \in Seq(ToUtilityMessages)
        /\ Head(toUtility).type = "reconcile"
    BY <2>1, TakeFacts
  <2>3. 1 \in DOMAIN toUtility /\ Head(toUtility) = toUtility[1]
    BY <2>2, TakeFromChannel
  <2>4. Spared(Head(toUtility).held)
    BY <2>2, <2>3 DEF SweepInv, ReconInv
  <2>5. \A i \in InReach : i \notin Swept(Head(toUtility).held)
    <3> SUFFICES ASSUME NEW i \in InReach, i[1] <= watermark, i \notin Head(toUtility).held
                 PROVE  FALSE
      BY DEF Swept
    <3>1. i \in UnderWay
      BY <2>4 DEF Spared, InReach
    <3>2. i[1] > watermark
      BY <2>4, <3>1 DEF Spared
    <3>3. i[1] \in Nat /\ watermark \in Nat
      <4>1. i \in Ids /\ functionSequence \in Nat
        BY <1>0, NumbersAreNat DEF TypeInv
      <4> QED
        BY <4>1, IdFacts, NumbersTyped DEF TypeInv
    <3> QED
      BY <3>2, <3>3
  <2> QED
    BY <1>0, <2>1, <2>5
<1>6. \/ functions \subseteq functions'
      \/ ReceiveReply \/ HearResult \/ HearRelease \/ HearReconcile
  BY DEF Next, Utility, Host, Collector, vars, utilityVars, HandOver, SyncCall, Register,
         UnregisterInferenceProvider, GiveUp, HearAdopted, HearPing, Receive, ReadRequest,
         DecodeCallback, RegisterInferenceProvider, RefuseInferenceProvider, TrackProvider,
         FinishCallback, ReceiveInvoke, ReceiveEvent, ReceiveOrdered, ReceiveUnregister,
         ReceivePong, OrderedCall, FinishOrdered, BarrierResolved, FinishInvoke,
         ReconcileUtilityCallbacks, CollectStub, CollectProvider
<1> QED
  BY <1>1, <1>2, <1>3, <1>4, <1>5, <1>6

\* What is posted for release has just left the host's reach.
LEMMA ReleasedLeaves ==
    ASSUME TypeInv, NumbersInv, DistinctInv, StagesInv, [Next]_vars, TypeInv', StagesInv',
           NEW i \in InReach', i \in Released'
    PROVE  i \in Released
<1>0. /\ i \notin NewIds /\ (i \in UnderWay' => i \in UnderWay)
      /\ i \in InReach
  BY NewNumbers, UnderWayStep, CallableStep DEF InReach
<1>1. CASE Released' \subseteq Released
  BY <1>1
<1>2. CASE ReceiveUnregister
  <2>1. i \in Released \/ (idle # 0 /\ i = Fn(idle))
    BY <1>2, ReceiveUnregisterMoves
  <2>2. idle # 0 /\ i = Fn(idle) => i[1] \in ProviderNumbers /\ i[1] \notin providers
    BY IdFacts DEF ProviderNumbers, StagesInv
  <2> QED
    BY <1>0, <2>1, <2>2, ReachFacts
<1>3. ASSUME NEW j \in stubs, CollectStub(j)
      PROVE  i \in Released
  <2>1. stubs' = stubs \ {j} /\ Released' = Released \cup {j} /\ UNCHANGED providerVars
    BY <1>3, CollectStubMoves
  <2>2. j[1] \in CallbackNumbers /\ j[1] \notin ProviderNumbers
    BY ReachFacts DEF CallbackNumbers
  <2>3. ProviderNumbers' = ProviderNumbers
    BY <2>1, SameNumbers
  <2>4. i \in UnderWay' \/ i \in stubs' \/ i[1] \in ProviderNumbers'
    BY ReachStagesNext DEF ReachStages, InReach
  <2>5. i # j
    BY <1>0, <2>1, <2>2, <2>3, <2>4, ReachFacts
  <2> QED
    BY <2>1, <2>5
<1>4. ASSUME NEW p \in providers \cup refused, CollectProvider(p)
      PROVE  i \in Released
  <2>1. /\ providers' = providers \ {p} /\ UNCHANGED stubs /\ p \in Numbers
        /\ Released' \subseteq Released \cup {Stream(p), Fn(p)}
    BY <1>4, CollectProviderMoves
  <2>2. p \in ProviderNumbers
    BY <2>1, NumbersTyped DEF ProviderNumbers
  <2>3. i \in UnderWay' \/ i \in stubs' \/ i[1] \in providers'
    BY ReachStagesNext DEF ReachStages, InReach
  <2>4. i[1] # p
    BY <1>0, <2>1, <2>2, <2>3, ReachFacts
  <2> QED
    BY <2>1, <2>4, IdFacts
<1>5. \/ Released' \subseteq Released
      \/ ReceiveUnregister
      \/ \E j \in stubs : CollectStub(j)
      \/ \E p \in providers \cup refused : CollectProvider(p)
  BY ReleasesStep
<1> QED
  BY <1>1, <1>2, <1>3, <1>4, <1>5

LEMMA ReachKept ==
    ASSUME TypeInv, NumbersInv, DistinctInv, StagesInv, OwnersInv, SettledInv, SweepInv,
           [Next]_vars, TypeInv', StagesInv'
    PROVE  (InReach \subseteq functions \ Released)'
<1> SUFFICES ASSUME NEW i \in InReach' PROVE i \in functions' /\ i \notin Released'
  OBVIOUS
<1>1. i \in NewIds \/ i \in InReach
  BY UnderWayStep, CallableStep DEF InReach
<1>2. CASE i \in NewIds
  BY <1>2, NewNumbers DEF NewIds
<1>3. CASE i \in InReach
  <2>1. i \in functions' /\ i \notin Released
    BY <1>3, FreedStep DEF SettledInv
  <2> QED
    BY <2>1, ReleasedLeaves
<1> QED
  BY <1>1, <1>2, <1>3

\* A stub whose adoption is not heard yet is as it was, or new to the host.
LEMMA AdoptionMoves ==
    ASSUME TypeInv, NumbersInv, DistinctInv, StagesInv, [Next]_vars
    PROVE  \A i \in stubs' \cap unadopted' : i \in stubs \cap unadopted \/ i[1] \notin CallbackNumbers
<1>1. \A i \in unadopted' : i \in unadopted \/ i \in NewIds
  <2>1. ASSUME NEW type \in {"invoke", "ordered", "event"}, HandOver(type)
        PROVE  \A i \in unadopted' : i \in unadopted \/ i \in NewIds
    <3>1. /\ functionSequence' = functionSequence + 1
          /\ functions' = functions \cup {Fn(functionSequence + 1)}
          /\ unadopted' = unadopted \cup {Fn(functionSequence + 1)}
      BY <2>1, HandOverMoves
    <3> QED
      BY <3>1, IdFacts DEF NewIds
  <2>2. ASSUME NEW kind \in {"callback", "provider"}, SyncCall(kind)
        PROVE  \A i \in unadopted' : i \in unadopted \/ i \in NewIds
    <3>1. PICK r \in Requests : /\ r.n = functionSequence + 1
                                /\ functionSequence' = functionSequence + 1
                                /\ functions' = functions \cup IdsOf(r)
                                /\ unadopted' = unadopted \cup IdsOf(r)
      BY <2>2, SyncCallMoves
    <3> QED
      BY <3>1, NumbersTyped DEF NewIds
  <2>3. \/ unadopted' \subseteq unadopted
        \/ \E type \in {"invoke", "ordered", "event"} : HandOver(type)
        \/ \E kind \in {"callback", "provider"} : SyncCall(kind)
    BY DEF Next, Utility, Host, Collector, vars, utilityVars, UnregisterInferenceProvider,
           ReceiveReply, GiveUp, HearAdopted, HearResult, HearRelease, HearPing,
           HearReconcile, Drop, Receive, ReadRequest, DecodeCallback,
           RegisterInferenceProvider, RefuseInferenceProvider, TrackProvider, FinishCallback,
           ReceiveInvoke, ReceiveEvent, ReceiveOrdered, ReceiveUnregister, ReceivePong,
           OrderedCall, FinishOrdered, BarrierResolved, FinishInvoke,
           ReconcileUtilityCallbacks, CollectStub, CollectProvider
  <2> QED
    BY <2>1, <2>2, <2>3
<1>2. \A i \in NewIds : i[1] \notin CallbackNumbers
  BY NewNumbers
<1>3. \A i \in stubs' : i \in stubs \/ i[1] \notin CallbackNumbers
  BY StubsMove, ReachFacts
<1> QED
  BY <1>1, <1>2, <1>3

LEMMA ResultsTaken ==
    ASSUME TypeInv, ResultsInv,
           \A i \in stubs' \cap unadopted' :
               i \in stubs \cap unadopted \/ i[1] \notin CallbackNumbers,
           NEW type, Take(type),
           type = "adopted" => unadopted' = unadopted \ {Head(toUtility).id}
    PROVE  ResultsInv'
<1>1. /\ toUtility # <<>> /\ toUtility \in Seq(ToUtilityMessages)
      /\ toUtility' = Tail(toUtility) /\ Head(toUtility).type = type
  BY TakeFacts
<1>2. /\ Head(toUtility) = toUtility[1] /\ Len(toUtility) \in Nat \ {0}
      /\ DOMAIN toUtility = 1..Len(toUtility) /\ DOMAIN toUtility' = 1..Len(toUtility) - 1
      /\ \A k \in 1..Len(toUtility) - 1 : toUtility'[k] = toUtility[k + 1]
  BY <1>1, TakeFromChannel
<1> SUFFICES ASSUME NEW k \in DOMAIN toUtility', toUtility'[k].type = "result",
                    toUtility'[k].id \in stubs' \cap unadopted'
             PROVE  \E j \in 1..k-1 : toUtility'[j] = Adopted(toUtility'[k].id)
  BY DEF ResultsInv, Adopted
<1> DEFINE i == toUtility[k + 1].id
<1>3. /\ k + 1 \in DOMAIN toUtility /\ toUtility'[k] = toUtility[k + 1]
      /\ toUtility[k + 1].type = "result" /\ i \in stubs' \cap unadopted'
  BY <1>2
<1>4. i[1] \in CallbackNumbers
  <2>1. toUtility[k + 1] \in In(toUtility)
    BY <1>3 DEF In
  <2> QED
    BY <1>3, <2>1 DEF CallbackNumbers, ResultIds
<1>5. i \in stubs \cap unadopted
  BY <1>3, <1>4
<1>6. PICK j \in 1..(k + 1) - 1 : toUtility[j] = Adopted(i)
  BY <1>3, <1>5 DEF ResultsInv
<1> HIDE DEF i
<1>7. j # 1
  <2> SUFFICES ASSUME j = 1 PROVE FALSE
    OBVIOUS
  <2>1. Head(toUtility).type = "adopted" /\ Head(toUtility).id = i
    BY <1>2, <1>6, ToUtilityValues
  <2> QED
    BY <1>1, <1>3, <2>1
<1>8. j - 1 \in 1..k - 1 /\ j - 1 \in 1..Len(toUtility) - 1 /\ (j - 1) + 1 = j
  BY <1>2, <1>6, <1>7
<1>9. toUtility'[j - 1] = Adopted(i)
  BY <1>2, <1>6, <1>8
<1> QED
  BY <1>3, <1>8, <1>9 DEF i

LEMMA ResultsPosted ==
    ASSUME TypeInv, ResultsInv,
           \A i \in stubs' \cap unadopted' :
               i \in stubs \cap unadopted \/ i[1] \notin CallbackNumbers,
           NEW messages \in Seq(ToUtilityMessages), Post(messages),
           \A k \in DOMAIN messages :
               messages[k].type = "result" =>
                   \/ messages[k].id \notin stubs' \cap unadopted'
                   \/ messages[k].id \in AdoptedIds
                   \/ \E j \in 1..k-1 : messages[j] = Adopted(messages[k].id)
    PROVE  ResultsInv'
<1>1. toUtility \in Seq(ToUtilityMessages) /\ toUtility' = toUtility \o messages
  BY DEF TypeInv, Post
<1> DEFINE d == Len(toUtility)
<1>2. /\ d \in Nat /\ Len(messages) \in Nat
      /\ DOMAIN toUtility = 1..d /\ DOMAIN messages = 1..Len(messages)
      /\ DOMAIN toUtility' = 1..d + Len(messages)
      /\ \A k \in 1..d : toUtility'[k] = toUtility[k]
      /\ \A k \in 1..Len(messages) : toUtility'[d + k] = messages[k]
      /\ \A k \in 1..d + Len(messages) : k \in 1..d \/ \E j \in 1..Len(messages) : k = d + j
  BY <1>1, PostToChannel
<1> HIDE DEF d
<1> SUFFICES ASSUME NEW k \in DOMAIN toUtility', toUtility'[k].type = "result",
                    toUtility'[k].id \in stubs' \cap unadopted'
             PROVE  \E j \in 1..k-1 : toUtility'[j] = Adopted(toUtility'[k].id)
  BY DEF ResultsInv, Adopted
<1>3. CASE k \in 1..d
  <2> DEFINE i == toUtility[k].id
  <2>1. toUtility[k].type = "result" /\ i \in stubs' \cap unadopted' /\ k \in DOMAIN toUtility
    BY <1>2, <1>3
  <2>2. i[1] \in CallbackNumbers
    <3>1. toUtility[k] \in In(toUtility)
      BY <2>1 DEF In
    <3> QED
      BY <2>1, <3>1 DEF CallbackNumbers, ResultIds
  <2>3. i \in stubs \cap unadopted
    BY <2>1, <2>2
  <2>4. PICK j \in 1..k - 1 : toUtility[j] = Adopted(i)
    BY <2>1, <2>3 DEF ResultsInv
  <2>5. j \in 1..d
    BY <1>2, <1>3
  <2> HIDE DEF i
  <2>6. toUtility'[j] = Adopted(i)
    BY <1>2, <2>4, <2>5
  <2> QED
    BY <1>2, <1>3, <2>6 DEF i
<1>4. ASSUME NEW n \in 1..Len(messages), k = d + n
      PROVE  \E j \in 1..k-1 : toUtility'[j] = Adopted(toUtility'[k].id)
  <2> DEFINE i == messages[n].id
  <2>1. /\ messages[n].type = "result" /\ i \in stubs' \cap unadopted' /\ n \in DOMAIN messages
        /\ toUtility'[k].id = i
    BY <1>2, <1>4
  <2>2. i \in AdoptedIds \/ \E j \in 1..n-1 : messages[j] = Adopted(i)
    BY <2>1
  <2> HIDE DEF i
  <2>3. CASE i \in AdoptedIds
    <3>1. PICK m \in In(toUtility) : m.type = "adopted" /\ m.id = i
      BY <2>3 DEF AdoptedIds
    <3>2. PICK j \in DOMAIN toUtility : toUtility[j] = m
      BY <3>1 DEF In
    <3>3. m \in ToUtilityMessages
      BY <1>1, <3>2, ElementOfSeq, <1>2
    <3>4. m = Adopted(i)
      BY <3>1, <3>3 DEF ToUtilityMessages, Ping, Adopted
    <3>5. j \in 1..k-1 /\ toUtility'[j] = toUtility[j]
      BY <1>2, <1>4
    <3> QED
      BY <2>1, <3>2, <3>4, <3>5
  <2>4. ASSUME NEW j \in 1..n-1, messages[j] = Adopted(i)
        PROVE  \E l \in 1..k-1 : toUtility'[l] = Adopted(toUtility'[k].id)
    <3>1. j \in 1..Len(messages) /\ d + j \in 1..k-1
      BY <1>2, <1>4
    <3> QED
      BY <1>2, <2>1, <2>4, <3>1
  <2> QED
    BY <2>2, <2>3, <2>4
<1> QED
  BY <1>2, <1>3, <1>4

\* Short posts, by their messages.
LEMMA ShortPosts ==
    /\ <<>> \in Seq(ToUtilityMessages) /\ DOMAIN <<>> = {}
    /\ \A m \in ToUtilityMessages : /\ <<m>> \in Seq(ToUtilityMessages)
                                    /\ \A k \in DOMAIN <<m>> : <<m>>[k] = m
    /\ \A l, m \in ToUtilityMessages :
         /\ <<l, m>> \in Seq(ToUtilityMessages)
         /\ \A k \in DOMAIN <<l, m>> : (k = 1 /\ <<l, m>>[k] = l) \/ (k = 2 /\ <<l, m>>[k] = m)
         /\ <<l, m>>[1] = l
    /\ \A n \in Nat : /\ Pings(n) \in Seq(ToUtilityMessages)
                      /\ \A k \in DOMAIN Pings(n) : Pings(n)[k] = Ping
<1>1. \A n \in Nat : DOMAIN Pings(n) = 1..n
  BY DEF Pings
<1> QED
  BY <1>1, ShortChannels

\* The actions that post, with what they post.
PostsQuietly ==
    \E messages \in Seq(ToUtilityMessages) :
        /\ Post(messages)
        /\ \A k \in DOMAIN messages : messages[k].type \notin {"result", "reconcile"}
PostsResult ==
    \E i \in Ids :
        \/ Post(<<Result(i)>>) /\ i \notin stubs' \cap unadopted'
        \/ Post(<<Result(i)>>) /\ i \in serving /\ UNCHANGED <<stubs, unadopted>>
        \/ Post(<<Adopted(i), Result(i)>>)

LEMMA PostsByKind ==
    /\ \A i \in Ids : Post(<<Adopted(i)>>) \/ Post(<<Release(i)>>) => PostsQuietly
    /\ \A i, j \in Ids : Post(<<Release(i), Release(j)>>) => PostsQuietly
    /\ Post(<<>>) \/ Post(<<Ping>>) => PostsQuietly
    /\ \A n \in Nat : Post(Pings(n)) => PostsQuietly
<1>1. \A i \in Ids : /\ Adopted(i) \in ToUtilityMessages /\ Adopted(i).type = "adopted"
                     /\ Release(i) \in ToUtilityMessages /\ Release(i).type = "release"
  BY ToUtilityValues
<1>2. Ping \in ToUtilityMessages /\ Ping.type = "ping"
  BY ToUtilityValues
<1>3. ASSUME NEW m \in ToUtilityMessages, m.type \notin {"result", "reconcile"}, Post(<<m>>)
      PROVE  PostsQuietly
  <2> DEFINE w == <<m>>
  <2>1. w \in Seq(ToUtilityMessages) /\ (\A k \in DOMAIN w : w[k] = m) /\ Post(w)
    BY <1>3, ShortPosts
  <2> HIDE DEF w
  <2> QED
    BY <1>3, <2>1 DEF PostsQuietly
<1>4. ASSUME NEW l \in ToUtilityMessages, l.type \notin {"result", "reconcile"},
             NEW m \in ToUtilityMessages, m.type \notin {"result", "reconcile"}, Post(<<l, m>>)
      PROVE  PostsQuietly
  <2> DEFINE w == <<l, m>>
  <2>1. w \in Seq(ToUtilityMessages) /\ (\A k \in DOMAIN w : w[k] = l \/ w[k] = m) /\ Post(w)
    BY <1>4, ShortPosts
  <2> HIDE DEF w
  <2> QED
    BY <1>4, <2>1 DEF PostsQuietly
<1>5. ASSUME Post(<<>>)
      PROVE  PostsQuietly
  <2> DEFINE w == <<>>
  <2>1. w \in Seq(ToUtilityMessages) /\ DOMAIN w = {} /\ Post(w)
    BY <1>5, ShortPosts
  <2> HIDE DEF w
  <2> QED
    BY <2>1 DEF PostsQuietly
<1>6. ASSUME NEW n \in Nat, Post(Pings(n))
      PROVE  PostsQuietly
  <2>1. Pings(n) \in Seq(ToUtilityMessages) /\ \A k \in DOMAIN Pings(n) : Pings(n)[k] = Ping
    BY ShortPosts
  <2> QED
    BY <1>2, <1>6, <2>1 DEF PostsQuietly
<1>7. ASSUME NEW i \in Ids, Post(<<Adopted(i)>>) \/ Post(<<Release(i)>>)
      PROVE  PostsQuietly
  BY <1>1, <1>3, <1>7
<1>8. ASSUME NEW i \in Ids, NEW j \in Ids, Post(<<Release(i), Release(j)>>)
      PROVE  PostsQuietly
  BY <1>1, <1>4, <1>8
<1>9. ASSUME Post(<<Ping>>)
      PROVE  PostsQuietly
  BY <1>2, <1>3, <1>9
<1> QED
  BY <1>5, <1>6, <1>7, <1>8, <1>9

SweepPosted == PostSweep /\ ((\E k \in DOMAIN toHost : ReceivePong(k)) \/ BarrierResolved)

LEMMA PostCases ==
    ASSUME TypeInv, DistinctInv, StagesInv, [Next]_vars
    PROVE  \/ UNCHANGED toUtility
           \/ HearAdopted \/ HearResult \/ HearRelease \/ HearPing \/ HearReconcile
           \/ PostsQuietly \/ PostsResult \/ SweepPosted
<1>1. ASSUME NEW type \in Carrying, NEW k, Receive(type, k)
      PROVE  /\ toHost[k].id \in Ids /\ toHost[k].id \notin stubs
             /\ k = 1 => toHost[k] = Head(toHost)
  <2>1. /\ toHost[k].id \in Ids /\ toHost[k].id \in WireIds
        /\ k = 1 => toHost[k] = Head(toHost)
    BY <1>1, ReceiveMoves, ReceiveFacts
  <2>2. toHost[k].id[1] \in OnWire
    BY <2>1 DEF OnWire
  <2>3. \A j \in stubs : j[1] \in CallbackNumbers
    BY DEF CallbackNumbers
  <2> QED
    BY <2>1, <2>2, <2>3 DEF StagesInv
<1>2. CASE ReceiveInvoke
  <2>1. Receive("invoke", 1) /\ "invoke" \in Carrying
    BY <1>2 DEF ReceiveInvoke, Carrying
  <2>2. \/ Post(<<Adopted(Head(toHost).id)>>)
        \/ Post(<<Result(Head(toHost).id)>>) /\ UNCHANGED stubs
    BY <1>2 DEF ReceiveInvoke
  <2>3. Head(toHost).id \in Ids /\ Head(toHost).id \notin stubs
    BY <1>1, <2>1
  <2> QED
    BY <2>2, <2>3, PostsByKind DEF PostsResult
<1>3. ASSUME NEW k \in DOMAIN toHost, ReceiveEvent(k)
      PROVE  UNCHANGED toUtility \/ PostsQuietly
  <2>1. Receive("event", k) /\ "event" \in Carrying
    BY <1>3 DEF ReceiveEvent, Carrying
  <2>2. Post(<<Adopted(toHost[k].id)>>) \/ UNCHANGED toUtility
    BY <1>3 DEF ReceiveEvent
  <2> QED
    BY <1>1, <2>1, <2>2, PostsByKind
<1>4. CASE ReceiveOrdered
  <2>1. OrderedCall("ordered") /\ "ordered" \in Carrying
    BY <1>4 DEF ReceiveOrdered, Carrying
  <2>2. \/ Post(<<Adopted(Head(toHost).id), Result(Head(toHost).id)>>)
        \/ Post(<<Result(Head(toHost).id)>>) /\ UNCHANGED stubs
    BY <1>4 DEF ReceiveOrdered
  <2>3. Receive("ordered", 1)
    BY <2>1, OrderedFacts
  <2>4. Head(toHost).id \in Ids /\ Head(toHost).id \notin stubs
    BY <1>1, <2>1, <2>3
  <2> QED
    BY <2>2, <2>4 DEF PostsResult
<1>5. CASE ReceiveUnregister
  <2>1. CASE idle = 0
    BY <1>5, <2>1, PostsByKind DEF ReceiveUnregister
  <2>2. CASE idle # 0
    <3>1. Fn(idle) \in Ids
      BY <2>2, IdFacts, NumbersTyped DEF TypeInv
    <3>2. Post(<<Release(Fn(idle))>>)
      BY <1>5, <2>2 DEF ReceiveUnregister
    <3> QED
      BY <3>1, <3>2, PostsByKind
  <2> QED
    BY <2>1, <2>2
<1>6. ASSUME NEW r \in Requests, NEW ok \in BOOLEAN, Respond(r, ok, IdsOf(r))
      PROVE  PostsQuietly
  <2>1. draining \in Nat /\ \E n \in {0, draining} : Post(Pings(n))
    BY <1>6, RespondFacts DEF TypeInv
  <2> QED
    BY <2>1, PostsByKind
<1>7. ASSUME NEW r \in waiting, RegisterInferenceProvider(r) \/ RefuseInferenceProvider(r)
      PROVE  PostsQuietly
  <2>1. r \in Requests /\ \E ok \in BOOLEAN : Respond(r, ok, IdsOf(r))
    BY <1>7, RegisterProviderMoves, RefuseProviderMoves
  <2> QED
    BY <1>6, <2>1
<1>8. ASSUME NEW r \in handling, FinishCallback(r)
      PROVE  PostsQuietly
  <2>1. r \in Requests /\ Respond(r, TRUE, IdsOf(r))
    BY <1>8, FinishCallbackMoves
  <2> QED
    BY <1>6, <2>1
<1>9. ASSUME NEW i \in serving, FinishInvoke(i)
      PROVE  PostsResult
  <2>1. i \in Ids /\ Post(<<Result(i)>>) /\ UNCHANGED <<stubs, unadopted>>
    BY <1>9 DEF FinishInvoke, TypeInv, utilityVars
  <2> QED
    BY <2>1 DEF PostsResult
<1>10. CASE ReconcileUtilityCallbacks
  <2>1. Post(<<Ping>>) \/ UNCHANGED toUtility
    BY <1>10 DEF ReconcileUtilityCallbacks
  <2> QED
    BY <2>1, PostsByKind
<1>11. ASSUME NEW i \in stubs, CollectStub(i)
       PROVE  PostsQuietly
  <2>1. i \in Ids /\ Post(<<Release(i)>>)
    BY <1>11 DEF CollectStub, TypeInv
  <2> QED
    BY <2>1, PostsByKind
<1>12. ASSUME NEW p \in providers \cup refused, CollectProvider(p)
       PROVE  PostsQuietly
  <2>1. Stream(p) \in Ids /\ Fn(p) \in Ids
    BY IdFacts DEF TypeInv
  <2>2. \/ Post(<<Release(Stream(p)), Release(Fn(p))>>)
        \/ Post(<<Release(Stream(p))>>)
    BY <1>12 DEF CollectProvider
  <2> QED
    BY <2>1, <2>2, PostsByKind
<1>13. \/ UNCHANGED toUtility
       \/ HearAdopted \/ HearResult \/ HearRelease \/ HearPing \/ HearReconcile
       \/ \E r \in waiting : RegisterInferenceProvider(r) \/ RefuseInferenceProvider(r)
       \/ \E r \in handling : FinishCallback(r)
       \/ ReceiveInvoke \/ (\E k \in DOMAIN toHost : ReceiveEvent(k)) \/ ReceiveOrdered
       \/ ReceiveUnregister \/ FinishOrdered \/ BarrierResolved
       \/ \E k \in DOMAIN toHost : ReceivePong(k)
       \/ \E i \in serving : FinishInvoke(i)
       \/ ReconcileUtilityCallbacks
       \/ \E i \in stubs : CollectStub(i)
       \/ \E p \in providers \cup refused : CollectProvider(p)
  BY DEF Next, Utility, Host, Collector, vars, HandOver, SyncCall, UnregisterInferenceProvider,
         ReceiveReply, GiveUp, ReadRequest, DecodeCallback
<1>14. ASSUME NEW k \in DOMAIN toHost, ReceivePong(k)
       PROVE  UNCHANGED toUtility \/ SweepPosted
  BY <1>14, PongFacts DEF SweepPosted
<1>15. CASE FinishOrdered \/ BarrierResolved
  <2>1. UNCHANGED toUtility \/ (BarrierResolved /\ PostSweep)
    BY <1>15 DEF FinishOrdered, BarrierResolved
  <2> QED
    BY <2>1 DEF SweepPosted
<1> QED
  BY <1>2, <1>3, <1>4, <1>5, <1>7, <1>8, <1>9, <1>10, <1>11, <1>12, <1>13, <1>14, <1>15

LEMMA ResultsStep ==
    ASSUME TypeInv, NumbersInv, DistinctInv, StagesInv, SettledInv, [Next]_vars
    PROVE  ResultsInv'
<1>0. /\ ResultsInv
      /\ \A i \in serving : i \in stubs \cap unadopted => i \in AdoptedIds
      /\ \A i \in stubs' \cap unadopted' :
           i \in stubs \cap unadopted \/ i[1] \notin CallbackNumbers
  BY AdoptionMoves DEF SettledInv
<1>1. CASE UNCHANGED toUtility
  <2> SUFFICES ASSUME NEW k \in DOMAIN toUtility, toUtility[k].type = "result",
                      toUtility[k].id \in stubs' \cap unadopted'
               PROVE  \E j \in 1..k-1 : toUtility[j] = Adopted(toUtility[k].id)
    BY <1>1 DEF ResultsInv, Adopted
  <2>1. toUtility[k] \in In(toUtility)
    BY DEF In
  <2>2. toUtility[k].id[1] \in CallbackNumbers
    BY <2>1 DEF CallbackNumbers, ResultIds
  <2> QED
    BY <1>0, <2>2 DEF ResultsInv
<1>2. ASSUME NEW type, Take(type),
             type = "adopted" => unadopted' = unadopted \ {Head(toUtility).id}
      PROVE  ResultsInv'
  BY <1>0, <1>2, ResultsTaken
<1>3. CASE HearAdopted
  <2>1. Take("adopted") /\ unadopted' = unadopted \ {Head(toUtility).id}
    BY <1>3 DEF HearAdopted
  <2> QED
    BY <1>2, <2>1
<1>4. CASE HearResult \/ HearRelease \/ HearPing \/ HearReconcile
  <2>1. \E type \in {"result", "release", "ping", "reconcile"} : Take(type)
    BY <1>4 DEF HearResult, HearRelease, HearPing, HearReconcile
  <2> QED
    BY <1>2, <2>1
<1>5. CASE PostsQuietly
  <2>1. PICK messages \in Seq(ToUtilityMessages) :
          /\ Post(messages)
          /\ \A k \in DOMAIN messages : messages[k].type # "result"
    BY <1>5 DEF PostsQuietly
  <2> QED
    BY <1>0, <2>1, ResultsPosted
<1>6. CASE PostsResult
  <2>1. PICK i \in Ids :
          \/ Post(<<Result(i)>>) /\ (i \notin stubs' \cap unadopted' \/ i \in AdoptedIds)
          \/ Post(<<Adopted(i), Result(i)>>)
    BY <1>0, <1>6 DEF PostsResult
  <2>2. /\ Adopted(i) \in ToUtilityMessages /\ Adopted(i).type = "adopted"
        /\ Result(i) \in ToUtilityMessages /\ Result(i).type = "result" /\ Result(i).id = i
    BY ToUtilityValues
  <2>3. ASSUME Post(<<Result(i)>>), i \notin stubs' \cap unadopted' \/ i \in AdoptedIds
        PROVE  ResultsInv'
    <3> DEFINE w == <<Result(i)>>
    <3>1. w \in Seq(ToUtilityMessages) /\ (\A k \in DOMAIN w : w[k] = Result(i)) /\ Post(w)
      BY <2>2, <2>3, ShortPosts
    <3> HIDE DEF w
    <3>2. \A k \in DOMAIN w : w[k].id = i
      BY <2>2, <3>1
    <3>3. \A k \in DOMAIN w :
            w[k].type = "result" =>
                \/ w[k].id \notin stubs' \cap unadopted'
                \/ w[k].id \in AdoptedIds
                \/ \E j \in 1..k-1 : w[j] = Adopted(w[k].id)
      BY <2>3, <3>2
    <3> QED
      BY <1>0, <3>1, <3>3, ResultsPosted
  <2>4. ASSUME Post(<<Adopted(i), Result(i)>>)
        PROVE  ResultsInv'
    <3> DEFINE w == <<Adopted(i), Result(i)>>
    <3>1. /\ w \in Seq(ToUtilityMessages) /\ Post(w) /\ w[1] = Adopted(i)
          /\ \A k \in DOMAIN w : (k = 1 /\ w[k] = Adopted(i)) \/ (k = 2 /\ w[k] = Result(i))
      BY <2>2, <2>4, ShortPosts
    <3> HIDE DEF w
    <3>2. \A k \in DOMAIN w :
            w[k].type = "result" =>
                \/ w[k].id \notin stubs' \cap unadopted'
                \/ w[k].id \in AdoptedIds
                \/ \E j \in 1..k-1 : w[j] = Adopted(w[k].id)
      <4> SUFFICES ASSUME NEW k \in DOMAIN w, w[k].type = "result"
                   PROVE  \E j \in 1..k-1 : w[j] = Adopted(w[k].id)
        OBVIOUS
      <4>1. k = 2 /\ w[k] = Result(i)
        BY <2>2, <3>1
      <4>2. 1 \in 1..k-1 /\ w[k].id = i
        BY <2>2, <4>1
      <4> QED
        BY <3>1, <4>2
    <3> QED
      BY <1>0, <3>1, <3>2, ResultsPosted
  <2> QED
    BY <2>1, <2>3, <2>4
<1>7. CASE SweepPosted
  <2>1. HeldUtilityCallbackIds \in SUBSET Ids
    BY HeldIds
  <2> DEFINE m == [type |-> "reconcile", held |-> HeldUtilityCallbackIds]
  <2>2. m \in ToUtilityMessages /\ m.type = "reconcile"
    BY <2>1, ToUtilityValues
  <2>3. Post(<<m>>)
    BY <1>7 DEF SweepPosted, PostSweep
  <2> HIDE DEF m
  <2>4. ASSUME Post(<<m>>)
        PROVE  ResultsInv'
    <3> DEFINE w == <<m>>
    <3>1. w \in Seq(ToUtilityMessages) /\ (\A k \in DOMAIN w : w[k] = m) /\ Post(w)
      BY <2>2, <2>4, ShortPosts
    <3> HIDE DEF w
    <3>2. \A k \in DOMAIN w : w[k].type # "result"
      BY <2>2, <3>1
    <3> QED
      BY <1>0, <3>1, <3>2, ResultsPosted
  <2> QED
    BY <2>3, <2>4
<1> QED
  BY <1>1, <1>3, <1>4, <1>5, <1>6, <1>7, PostCases

\* An invocation is served with its callback adopted, or on its way to be.
LEMMA ServingStep ==
    ASSUME TypeInv, NumbersInv, DistinctInv, StagesInv, SettledInv, [Next]_vars
    PROVE  \A i \in serving' : i \in stubs' \cap unadopted' => i \in AdoptedIds'
<1>1. \A i \in AdoptedIds : i \in AdoptedIds' \/ i \notin unadopted'
  <2>1. ASSUME NEW type, Take(type), type # "adopted"
        PROVE  AdoptedIds \subseteq AdoptedIds'
    <3>1. In(toUtility) = In(toUtility)' \cup {Head(toUtility)} /\ Head(toUtility).type = type
      BY <2>1, TakeFacts
    <3> QED
      BY <2>1, <3>1 DEF AdoptedIds
  <2>2. CASE HearAdopted
    <3>1. Take("adopted") /\ unadopted' = unadopted \ {Head(toUtility).id}
      BY <2>2 DEF HearAdopted
    <3>2. AdoptedIds = AdoptedIds' \cup {Head(toUtility).id}
      BY <3>1, TakeMoves
    <3> QED
      BY <3>1, <3>2
  <2>3. CASE HearResult \/ HearRelease \/ HearPing \/ HearReconcile
    BY <2>1, <2>3 DEF HearResult, HearRelease, HearPing, HearReconcile
  <2>4. CASE UNCHANGED toUtility
    BY <2>4, SameChannels
  <2>5. ASSUME NEW messages \in Seq(ToUtilityMessages), Post(messages)
        PROVE  AdoptedIds \subseteq AdoptedIds'
    <3>1. In(toUtility)' = In(toUtility) \cup In(messages)
      BY <2>5, PostFacts
    <3> QED
      BY <3>1 DEF AdoptedIds
  <2>6. CASE PostsQuietly
    BY <2>5, <2>6 DEF PostsQuietly
  <2>7. CASE PostsResult
    BY <2>7, PostIdsMoves DEF PostsResult
  <2>8. CASE SweepPosted
    BY <2>8, SweepMoves DEF SweepPosted
  <2> QED
    BY <2>2, <2>3, <2>4, <2>6, <2>7, <2>8, PostCases
<1>2. \A i \in serving' : i \in serving \/ i \in AdoptedIds'
  <2>1. CASE ReceiveInvoke
    <3> DEFINE i == Head(toHost).id
    <3>1. /\ Receive("invoke", 1)
          /\ (serving' = serving \cup {i} /\ Post(<<Adopted(i)>>)) \/ UNCHANGED serving
      BY <2>1 DEF ReceiveInvoke
    <3>2. i \in Ids
      <4>1. "invoke" \in Carrying
        BY DEF Carrying
      <4> QED
        BY <3>1, <4>1, ReceiveFacts
    <3> HIDE DEF i
    <3>3. CASE serving' = serving \cup {i} /\ Post(<<Adopted(i)>>)
      <4>1. AdoptedIds' = AdoptedIds \cup {i}
        BY <3>2, <3>3, PostIdsMoves
      <4> QED
        BY <3>3, <4>1
    <3>4. CASE UNCHANGED serving
      BY <3>4
    <3> QED
      BY <3>1, <3>3, <3>4
  <2>2. serving' \subseteq serving \/ ReceiveInvoke
    BY DEF Next, Utility, Host, Collector, vars, hostVars, requestVars, HandOver, SyncCall,
           Take, UnregisterInferenceProvider, ReceiveReply, GiveUp, HearAdopted, HearResult,
           HearRelease, HearPing, HearReconcile, ReadRequest, DecodeCallback, FinishCallback,
           RegisterInferenceProvider, RefuseInferenceProvider, TrackProvider, ReceiveEvent,
           ReceiveOrdered, ReceiveUnregister, ReceivePong, OrderedCall, FinishOrdered,
           BarrierResolved, FinishInvoke, ReconcileUtilityCallbacks, CollectStub,
           CollectProvider
  <2> QED
    BY <2>1, <2>2
<1> SUFFICES ASSUME NEW i \in serving', i \in stubs' \cap unadopted'
             PROVE  i \in AdoptedIds'
  OBVIOUS
<1>3. CASE i \in serving
  <2>1. i[1] \in CallbackNumbers
    BY <1>3 DEF CallbackNumbers
  <2>2. i \in stubs \cap unadopted
    BY <2>1, AdoptionMoves
  <2>3. i \in AdoptedIds
    BY <1>3, <2>2 DEF SettledInv
  <2> QED
    BY <1>1, <2>3
<1> QED
  BY <1>2, <1>3

\* What a request that was refused carried is out of the host's reach.
LEMMA RefusedStep ==
    ASSUME TypeInv, NumbersInv, DistinctInv, StagesInv, OwnersInv, SettledInv, [Next]_vars,
           TypeInv', DistinctInv', StagesInv'
    PROVE  \A r \in syncing', a \in reply' : ~a.ok => \A i \in IdsOf(r) : i \notin InReach'
<1> SUFFICES ASSUME NEW r \in syncing', NEW a \in reply', ~a.ok, NEW i \in IdsOf(r), i \in InReach'
             PROVE  FALSE
  OBVIOUS
<1>0. i \in NewIds \/ i \in InReach
  BY UnderWayStep, CallableStep DEF InReach
<1>1. CASE UNCHANGED <<syncing, reply>>
  <2>1. r \in syncing /\ a \in reply /\ r \in Requests /\ r.n \in RequestNumbers
    BY <1>1 DEF TypeInv, RequestNumbers
  <2>2. i[1] = r.n
    BY <2>1, NumbersTyped
  <2>3. i \notin NewIds
    BY <2>1, <2>2, NewNumbers
  <2>4. IdsOf(r) \cap InReach = {}
    BY <2>1 DEF SettledInv
  <2> QED
    BY <1>0, <2>3, <2>4
<1>2. CASE syncing' = {} \/ reply' = {}
  BY <1>2
<1>3. ASSUME NEW q \in Requests, NEW ok \in BOOLEAN, Respond(q, ok, IdsOf(q)), syncing' = syncing,
             ok \/ RefuseInferenceProvider(q), q \in waiting \cup handling, UNCHANGED unread
      PROVE  FALSE
  <2>1. /\ waiting' = waiting \ {q}
        /\ q \in syncing => \E b : reply' = {b} /\ b.ok = ok /\ b.adopted = IdsOf(q)
        /\ q \notin syncing => UNCHANGED reply
    BY <1>3, RespondMoves
  <2>2. r \in syncing /\ \A s \in syncing : s = r
    BY <1>3 DEF TypeInv
  <2>3. CASE q \notin syncing
    BY <1>1, <1>3, <2>1, <2>3
  <2>4. CASE q \in syncing
    <3>1. q = r /\ a.ok = ok
      BY <2>1, <2>2, <2>4
    <3>2. RefuseInferenceProvider(r) /\ r \in waiting
      BY <1>3, <3>1 DEF RefuseInferenceProvider, TrackProvider, Proceeds, ReadyRequests
    <3>3. /\ r \in Requests /\ i[1] = r.n /\ r.n \in Asked /\ r.n \in RequestNumbers
      BY <3>2, NumbersTyped DEF TypeInv, Asked, RequestNumbers, Pending
    <3>4. i \notin NewIds
      BY <3>3, NewNumbers
    <3>5. i[1] \notin providers' /\ UNCHANGED <<toHost, stubs>>
      BY <3>2, <3>3, AskedIsNew, RefuseProviderMoves
    <3>6. i[1] \notin CallbackNumbers /\ i \notin stubs'
      <4>1. i[1] \notin CallbackNumbers
        BY <3>3 DEF StagesInv
      <4> QED
        BY <3>5, <4>1 DEF CallbackNumbers
    <3>7. i \in UnderWay'
      BY <3>5, <3>6, ReachStagesNext DEF ReachStages, InReach
    <3>8. i \in WireIds' \/ i \in RequestIds'
      BY <3>7, UnderWayNext DEF UnderWayParts
    <3>9. i \notin WireIds'
      <4>1. WireIds' = WireIds
        BY <3>5, SameChannels
      <4>2. i[1] \notin OnWire
        BY <3>3 DEF StagesInv
      <4> QED
        BY <4>1, <4>2 DEF OnWire
    <3>10. PICK s \in In(unread)' \cup waiting' : i \in IdsOf(s)
      BY <3>8, <3>9 DEF RequestIds, IdsOf
    <3>11. In(unread)' = In(unread)
      BY <1>3, SameChannels
    <3>12. s \in In(unread) \cup waiting /\ s # r
      BY <2>1, <3>1, <3>2, <3>10, <3>11 DEF DistinctInv
    <3>13. s.n = r.n
      <4>1. s \in Requests
        BY <3>12, OnTheWay DEF TypeInv
      <4> QED
        BY <3>3, <3>10, <4>1, NumbersTyped
    <3> QED
      BY <3>2, <3>12, <3>13 DEF DistinctInv, Pending
  <2> QED
    BY <2>3, <2>4
<1>4. ASSUME NEW q \in waiting, RegisterInferenceProvider(q) \/ RefuseInferenceProvider(q)
      PROVE  FALSE
  <2>1. /\ q \in Requests /\ UNCHANGED unread /\ syncing' = syncing
        /\ Respond(q, TRUE, IdsOf(q)) \/ (Respond(q, FALSE, IdsOf(q)) /\ RefuseInferenceProvider(q))
    BY <1>4, RegisterProviderMoves, RefuseProviderMoves DEF utilityVars
  <2> QED
    BY <1>3, <1>4, <2>1
<1>5. ASSUME NEW q \in handling, FinishCallback(q)
      PROVE  FALSE
  <2>1. /\ q \in Requests /\ UNCHANGED unread /\ syncing' = syncing /\ Respond(q, TRUE, IdsOf(q))
    BY <1>5, FinishCallbackMoves DEF utilityVars
  <2> QED
    BY <1>3, <1>5, <2>1
<1> QED
  BY <1>1, <1>2, <1>4, <1>5, ReplyCases

LEMMA SettledStep ==
    ASSUME TypeInv, NumbersInv, DistinctInv, StagesInv, OwnersInv, SettledInv, SweepInv,
           [Next]_vars, TypeInv', DistinctInv', StagesInv'
    PROVE  SettledInv'
<1>1. (InReach \subseteq functions \ Released)'
  BY ReachKept
<1>2. (\A r \in syncing, a \in reply : ~a.ok => IdsOf(r) \cap InReach = {})'
  BY RefusedStep DEF IdsOf
<1>3. (\A i \in serving : i \in stubs \cap unadopted => i \in AdoptedIds)'
  BY ServingStep
<1> QED
  BY <1>1, <1>2, <1>3, ResultsStep DEF SettledInv

\* Only a call adds to what the host has not answered.
LEMMA PendingCases ==
    ASSUME TypeInv, [Next]_vars
    PROVE  \/ Pending' \subseteq Pending
           \/ \E kind \in {"callback", "provider"} : SyncCall(kind)
<1>1. ASSUME UNCHANGED unread, waiting' \cup handling' \subseteq waiting \cup handling
      PROVE  Pending' \subseteq Pending
  BY <1>1, SameChannels DEF Pending
<1>2. CASE ReadRequest
  <2>1. /\ In(unread) = In(unread)' \cup {Head(unread)} /\ waiting' = waiting \cup {Head(unread)}
        /\ handling' = handling
    BY <1>2, ReadRequestMoves
  <2> QED
    BY <2>1 DEF Pending
<1>3. \/ UNCHANGED unread /\ waiting' \cup handling' \subseteq waiting \cup handling
      \/ \E kind \in {"callback", "provider"} : SyncCall(kind)
      \/ ReadRequest
  BY DEF Next, Utility, Host, Collector, vars, utilityVars, hostVars, requestVars, HandOver,
         UnregisterInferenceProvider, ReceiveReply, GiveUp, HearAdopted, Take, Respond,
         HearResult, HearRelease, HearPing, HearReconcile, Receive, DecodeCallback,
         RegisterInferenceProvider, RefuseInferenceProvider, TrackProvider, FinishCallback,
         ReceiveInvoke, ReceiveEvent, ReceiveOrdered, ReceiveUnregister, ReceivePong,
         OrderedCall, FinishOrdered, BarrierResolved, FinishInvoke, ReconcileUtilityCallbacks,
         CollectStub, CollectProvider
<1> QED
  BY <1>1, <1>2, <1>3

\* A request is made after the ordered calls that it waits for.
LEMMA AfterStep ==
    ASSUME TypeInv, \A r \in Pending : r.after <= orderedSequence, [Next]_vars
    PROVE  \A r \in Pending' : r.after <= orderedSequence'
<1>0. /\ orderedSequence \in Nat
      /\ \A r \in Pending : r.after \in Nat
  BY NumbersTyped, OnTheWay DEF TypeInv, Pending
<1>1. orderedSequence' = orderedSequence \/ orderedSequence' = orderedSequence + 1
  BY DEF Next, Utility, Host, Collector, vars, utilityVars, HandOver, SyncCall,
         UnregisterInferenceProvider, ReceiveReply, GiveUp, HearAdopted, HearResult,
         HearRelease, HearPing, HearReconcile, Take, Receive, ReadRequest, DecodeCallback,
         RegisterInferenceProvider, RefuseInferenceProvider, TrackProvider, FinishCallback,
         ReceiveInvoke, ReceiveEvent, ReceiveOrdered, ReceiveUnregister, ReceivePong,
         OrderedCall, FinishOrdered, BarrierResolved, FinishInvoke, ReconcileUtilityCallbacks,
         CollectStub, CollectProvider
<1>2. Pending' \subseteq Pending \/ \E kind \in {"callback", "provider"} : SyncCall(kind)
  BY PendingCases
<1>3. ASSUME NEW kind \in {"callback", "provider"}, SyncCall(kind)
      PROVE  \A r \in Pending' : r.after <= orderedSequence'
  <2>1. PICK r \in Requests :
          /\ r.after = orderedSequence /\ In(unread)' = In(unread) \cup {r}
          /\ orderedSequence' = orderedSequence /\ UNCHANGED hostVars
    BY <1>3, SyncCallMoves
  <2>2. Pending' = Pending \cup {r}
    BY <2>1 DEF Pending, hostVars, requestVars
  <2> QED
    BY <1>0, <2>1, <2>2
<1>4. CASE Pending' \subseteq Pending
  BY <1>0, <1>1, <1>4
<1> QED
  BY <1>2, <1>3, <1>4

-----------------------------------------------------------------------------
(* The sweep, when a call is not given up before the host has read it      *)

LEMMA UnreadStep ==
    ASSUME ~UnreadTimeouts, TypeInv, DistinctInv, OwnersInv, SweepInv, [Next]_vars
    PROVE  /\ In(unread)' \subseteq syncing'
           /\ \A r \in In(unread)' : r.n > watermark'
           /\ \A r \in Pending' : r.after <= orderedSequence'
<1>0. /\ In(unread) \subseteq syncing /\ \A r \in In(unread) : r.n > watermark
      /\ \A r \in Pending : r.after <= orderedSequence
      /\ orderedSequence \in Nat /\ functionSequence \in Nat /\ watermark \in Nat
      /\ watermark <= functionSequence
      /\ \A q, r \in syncing : q = r
  BY NumbersTyped DEF SweepInv, TypeInv
<1>1. CASE UNCHANGED unread /\ UNCHANGED syncing /\ (UNCHANGED watermark \/ syncing = {})
  <2>1. In(unread)' = In(unread)
    BY <1>1, SameChannels
  <2> QED
    BY <1>0, <1>1, <2>1, AfterStep
<1>2. ASSUME NEW kind \in {"callback", "provider"}, SyncCall(kind)
      PROVE  In(unread)' \subseteq syncing' /\ \A r \in In(unread)' : r.n > watermark'
  <2>1. PICK r \in Requests :
          /\ r.n = functionSequence + 1 /\ In(unread)' = In(unread) \cup {r}
          /\ syncing = {} /\ syncing' = {r} /\ UNCHANGED watermark
    BY <1>2, SyncCallMoves
  <2>2. In(unread)' = {r} /\ r.n > watermark
    BY <1>0, <2>1
  <2> QED
    BY <2>1, <2>2
<1>3. CASE ReceiveReply
  <2>1. PICK r \in syncing, a \in reply : UNCHANGED unread
    BY <1>3, ReplyFacts
  <2>2. r \notin In(unread)
    BY DEF OwnersInv, Pending
  <2>3. In(unread) = {} /\ In(unread)' = In(unread)
    BY <1>0, <2>1, <2>2, SameChannels
  <2> QED
    BY <2>3, AfterStep, <1>0
<1>4. CASE GiveUp
  <2>1. UNCHANGED unread /\ \E r \in syncing : r \notin In(unread)
    BY <1>4 DEF GiveUp
  <2>2. In(unread) = {} /\ In(unread)' = In(unread)
    BY <1>0, <2>1, SameChannels
  <2> QED
    BY <2>2, AfterStep, <1>0
<1>5. CASE ReadRequest
  <2>1. In(unread)' \subseteq In(unread) /\ UNCHANGED <<syncing, watermark>>
    BY <1>5, ReadRequestMoves DEF utilityVars
  <2> QED
    BY <1>0, <2>1, AfterStep
<1>6. \/ UNCHANGED unread /\ UNCHANGED syncing /\ (UNCHANGED watermark \/ syncing = {})
      \/ \E kind \in {"callback", "provider"} : SyncCall(kind)
      \/ ReceiveReply \/ GiveUp \/ ReadRequest
  BY DEF Next, Utility, Host, Collector, vars, utilityVars, HandOver, Awake,
         UnregisterInferenceProvider, HearAdopted, HearResult, HearRelease, HearPing,
         HearReconcile, Take, Receive, DecodeCallback, RegisterInferenceProvider,
         RefuseInferenceProvider, TrackProvider, FinishCallback, ReceiveInvoke, ReceiveEvent,
         ReceiveOrdered, ReceiveUnregister, ReceivePong, OrderedCall, FinishOrdered,
         BarrierResolved, FinishInvoke, ReconcileUtilityCallbacks, CollectStub,
         CollectProvider
<1> QED
  BY <1>1, <1>2, <1>3, <1>4, <1>5, <1>6, AfterStep, <1>0

\* A message that follows the last pong leaves what that pong stands for.
LEMMA PongSent ==
    ASSUME TypeInv, PongInv, NEW m \in ToHostMessages, toHost' = Append(toHost, m),
           m.type # "pong", m.type \in Carrying => m.id[1] > watermark,
           UNCHANGED <<watermark, waiting, orderedCompleted>>
    PROVE  PongInv'
<1> DEFINE d == Len(toHost)
<1>0. toHost \in Seq(ToHostMessages)
  BY DEF TypeInv
<1>1. /\ d \in Nat /\ Len(toHost') = d + 1
      /\ DOMAIN toHost = 1..d /\ DOMAIN toHost' = 1..d + 1
      /\ \A k \in 1..d : toHost'[k] = toHost[k]
      /\ toHost'[d + 1] = m
  BY <1>0, AppendToChannel
<1>2. \A k \in 0..d : Count(toHost', Orders, k) = Count(toHost, Orders, k)
  BY <1>0, CountAppend
<1> HIDE DEF d
<1> SUFFICES ASSUME NEW k \in 1..d + 1, toHost'[k].type = "pong",
                    \A j \in k+1..d + 1 : toHost'[j].type # "pong"
             PROVE  /\ \A j \in k+1..d + 1 :
                         toHost'[j].type \in Carrying => toHost'[j].id[1] > watermark
                    /\ \A r \in waiting :
                         r.n <= watermark => r.after <= orderedCompleted + Count(toHost', Orders, k)
  BY <1>1 DEF PongInv
<1>3. k \in 1..d /\ k \in 0..d
  BY <1>1
<1>4. k \in DOMAIN toHost /\ toHost[k].type = "pong"
  BY <1>1, <1>3
<1>5. \A j \in k+1..d : j \in 1..d /\ j \in k+1..d+1
  BY <1>1, <1>3
<1>6. \A j \in k+1..d : toHost[j].type # "pong"
  BY <1>1, <1>5
<1>7. /\ \A j \in k+1..d : toHost[j].type \in Carrying => toHost[j].id[1] > watermark
      /\ \A r \in waiting : r.n <= watermark => r.after <= orderedCompleted + Count(toHost, Orders, k)
  BY <1>4, <1>6 DEF PongInv, d
<1>8. ASSUME NEW j \in k+1..d + 1, toHost'[j].type \in Carrying
      PROVE  toHost'[j].id[1] > watermark
  <2>1. j \in k+1..d \/ j = d + 1
    BY <1>1, <1>3
  <2> QED
    BY <1>1, <1>5, <1>7, <1>8, <2>1
<1>9. Count(toHost', Orders, k) = Count(toHost, Orders, k)
  BY <1>2, <1>3
<1> QED
  BY <1>7, <1>8, <1>9

\* A message that the host takes off counts as done.
LEMMA PongReceived ==
    ASSUME TypeInv, OneAtATime, PongInv, NEW type, NEW h, Receive(type, h),
           orderedCompleted' = orderedCompleted + (IF type \in Orders THEN 1 ELSE 0)
    PROVE  PongInv'
<1> DEFINE d == Len(toHost)
           o == IF type \in Orders THEN 1 ELSE 0
<1>0. /\ toHost \in Seq(ToHostMessages) /\ toHost # <<>> /\ toHost' = Tail(toHost)
      /\ Head(toHost).type = type /\ UNCHANGED <<watermark, waiting>>
      /\ orderedCompleted \in Nat /\ orderedCompleted' = orderedCompleted + o /\ o \in Nat
  BY ReceiveFacts DEF TypeInv, utilityVars
<1>1. /\ d \in Nat \ {0} /\ Len(toHost') = d - 1
      /\ DOMAIN toHost = 1..d /\ DOMAIN toHost' = 1..d - 1
      /\ \A k \in 1..d - 1 : toHost'[k] = toHost[k + 1]
  BY <1>0, TakeFromChannel
<1>2. \A k \in 0..d - 1 : Count(toHost, Orders, k + 1) = o + Count(toHost', Orders, k)
  <2>1. \A k \in 0..d - 1 :
          Count(toHost, Orders, k + 1)
            = (IF Head(toHost).type \in Orders THEN 1 ELSE 0) + Count(Tail(toHost), Orders, k)
    <3>1. toHost \in Seq(ToHostMessages) /\ toHost # <<>>
      BY <1>0
    <3> HIDE DEF o
    <3> QED
      BY <3>1, CountTail
  <2> QED
    BY <1>0, <2>1
<1> HIDE DEF d, o
<1> SUFFICES ASSUME NEW k \in 1..d - 1, toHost'[k].type = "pong",
                    \A j \in k+1..d - 1 : toHost'[j].type # "pong"
             PROVE  /\ \A j \in k+1..d - 1 :
                         toHost'[j].type \in Carrying => toHost'[j].id[1] > watermark
                    /\ \A r \in waiting :
                         r.n <= watermark => r.after <= orderedCompleted' + Count(toHost', Orders, k)
  BY <1>0, <1>1 DEF PongInv
<1>3. /\ k \in 0..d - 1 /\ k + 1 \in DOMAIN toHost /\ toHost[k + 1].type = "pong"
  BY <1>1
<1>4. \A j \in (k+1)+1..d : j - 1 \in k+1..d-1 /\ j - 1 \in 1..d-1 /\ (j - 1) + 1 = j
  BY <1>1
<1>5. \A j \in (k+1)+1..d : toHost[j].type # "pong"
  <2> SUFFICES ASSUME NEW j \in (k+1)+1..d, toHost[j].type = "pong"
               PROVE  FALSE
    OBVIOUS
  <2>1. j - 1 \in k+1..d-1 /\ toHost'[j - 1] = toHost[j]
    BY <1>1, <1>4
  <2> QED
    BY <2>1
<1>6. /\ \A j \in (k+1)+1..d : toHost[j].type \in Carrying => toHost[j].id[1] > watermark
      /\ \A r \in waiting :
           r.n <= watermark => r.after <= orderedCompleted + Count(toHost, Orders, k + 1)
  BY <1>3, <1>5 DEF PongInv, d
<1>7. ASSUME NEW j \in k+1..d - 1, toHost'[j].type \in Carrying
      PROVE  toHost'[j].id[1] > watermark
  <2>1. j \in 1..d - 1 /\ j + 1 \in (k+1)+1..d
    BY <1>1
  <2> QED
    BY <1>1, <1>6, <1>7, <2>1
<1>8. orderedCompleted' + Count(toHost', Orders, k) = orderedCompleted + Count(toHost, Orders, k + 1)
  <2>1. Count(toHost, Orders, k + 1) = o + Count(toHost', Orders, k)
    BY <1>2, <1>3
  <2>2. k \in Nat
    BY <1>1
  <2>3. Count(toHost', Orders, k) \in Nat
    BY <2>2, CountType
  <2> QED
    BY <1>0, <2>1, <2>3
<1> QED
  BY <1>6, <1>7, <1>8

\* A new pong follows all that was handed over.
LEMMA PongAnswered ==
    ASSUME TypeInv, OneAtATime, CountInv, \A r \in Pending : r.after <= orderedSequence,
           HearPing
    PROVE  PongInv'
<1> DEFINE d == Len(toHost)
<1>0. /\ toHost \in Seq(ToHostMessages) /\ toHost' = Append(toHost, Pong)
      /\ Pong \in ToHostMessages /\ Pong.type = "pong"
  BY HearPingMoves, ToHostValues DEF TypeInv
<1>1. /\ d \in Nat /\ Len(toHost') = d + 1 /\ DOMAIN toHost' = 1..d + 1
      /\ toHost'[d + 1] = Pong
  BY <1>0, AppendToChannel
<1>2. Count(toHost', Orders, d + 1) = Count(toHost, Orders, d)
  <2>1. Count(toHost', Orders, d + 1)
          = Count(toHost, Orders, d) + (IF Pong.type \in Orders THEN 1 ELSE 0)
    BY <1>0, CountAppend
  <2>2. Pong.type \notin Orders /\ Count(toHost, Orders, d) \in Nat
    BY <1>0, <1>1, CountType DEF Orders
  <2> QED
    BY <2>1, <2>2
<1>3. UNCHANGED <<waiting, orderedCompleted>>
  BY DEF HearPing, Take, hostVars, requestVars
<1>4. \A r \in waiting : r.after <= orderedCompleted + Count(toHost', Orders, d + 1)
  <2>1. Begun = 0
    BY DEF Begun, TypeInv
  <2>2. Count(toHost, Orders, d) \in Nat /\ orderedCompleted \in Nat
    BY <1>1, CountType DEF TypeInv
  <2>3. orderedCompleted + Count(toHost, Orders, d) = orderedSequence
    BY <2>1, <2>2 DEF CountInv
  <2> QED
    BY <1>2, <2>3 DEF Pending
<1> HIDE DEF d
<1> SUFFICES ASSUME NEW k \in 1..d + 1, \A j \in k+1..d + 1 : toHost'[j].type # "pong"
             PROVE  /\ \A j \in k+1..d + 1 :
                         toHost'[j].type \in Carrying => toHost'[j].id[1] > watermark'
                    /\ \A r \in waiting : r.after <= orderedCompleted + Count(toHost', Orders, k)
  BY <1>1, <1>3 DEF PongInv
<1>5. k = d + 1
  <2>1. k <= d => d + 1 \in k+1..d + 1
    BY <1>1
  <2> QED
    BY <1>0, <1>1, <2>1
<1> QED
  BY <1>1, <1>4, <1>5

LEMMA PongStep ==
    ASSUME TypeInv, OneAtATime, CountInv, NumbersInv, SweepInv, [Next]_vars
    PROVE  PongInv'
<1>0. PongInv /\ functionSequence \in Nat /\ watermark \in Nat /\ watermark <= functionSequence
  BY NumbersTyped DEF SweepInv, TypeInv
<1>1. CASE UNCHANGED <<toHost, watermark, orderedCompleted>> /\ waiting' \subseteq waiting
  BY <1>0, <1>1 DEF PongInv
<1>2. CASE ReadRequest
  <2>1. /\ UNCHANGED <<toHost, watermark, orderedCompleted>>
        /\ waiting' = waiting \cup {Head(unread)} /\ Head(unread) \in In(unread)
    BY <1>2, ReadRequestMoves DEF utilityVars
  <2>2. Head(unread).n > watermark /\ Head(unread).n \in Nat
    BY <2>1, OnTheWay, NumbersTyped DEF SweepInv
  <2>3. \A r \in waiting' : r.n <= watermark => r \in waiting
    BY <1>0, <2>1, <2>2
  <2> QED
    BY <1>0, <2>1, <2>3 DEF PongInv
<1>3. ASSUME NEW type \in {"invoke", "ordered", "event"}, HandOver(type)
      PROVE  PongInv'
  <2> DEFINE m == [type |-> type, id |-> Fn(functionSequence + 1)]
  <2>1. Fn(functionSequence + 1) \in Ids
    BY <1>3, HandOverMoves
  <2>2. /\ m \in ToHostMessages /\ m.type # "pong" /\ m.id[1] = functionSequence + 1
    BY <2>1, IdFacts, ToHostValues DEF Carrying
  <2>3. toHost' = Append(toHost, m) /\ UNCHANGED <<watermark, waiting, orderedCompleted>>
    BY <1>3 DEF HandOver, hostVars, requestVars
  <2> HIDE DEF m
  <2>4. m.id[1] > watermark
    BY <1>0, <2>2
  <2> QED
    BY <1>0, <2>2, <2>3, <2>4, PongSent
<1>4. CASE UnregisterInferenceProvider
  <2>1. /\ toHost' = Append(toHost, Unregister)
        /\ UNCHANGED <<watermark, waiting, orderedCompleted>>
    BY <1>4 DEF UnregisterInferenceProvider, hostVars, requestVars
  <2>2. /\ Unregister \in ToHostMessages /\ Unregister.type # "pong"
        /\ Unregister.type \notin Carrying
    BY ToHostValues DEF Carrying
  <2> QED
    BY <1>0, <2>1, <2>2, PongSent
<1>5. CASE HearPing
  BY <1>5, PongAnswered DEF SweepInv
<1>6. ASSUME NEW type, NEW h, Receive(type, h),
             orderedCompleted' = orderedCompleted + (IF type \in Orders THEN 1 ELSE 0)
      PROVE  PongInv'
  BY <1>0, <1>6, PongReceived
<1>7. CASE ReceiveInvoke \/ \E k \in DOMAIN toHost : ReceiveEvent(k) \/ ReceivePong(k)
  <2>1. PICK type \in {"invoke", "event", "pong"} :
          \E h : Receive(type, h) /\ UNCHANGED orderedCompleted
    <3>1. ASSUME ReceiveInvoke
          PROVE  Receive("invoke", 1) /\ UNCHANGED orderedCompleted
      BY <3>1 DEF ReceiveInvoke
    <3>2. ASSUME NEW k \in DOMAIN toHost, ReceiveEvent(k)
          PROVE  Receive("event", k) /\ UNCHANGED orderedCompleted
      BY <3>2 DEF ReceiveEvent
    <3>3. ASSUME NEW k \in DOMAIN toHost, ReceivePong(k)
          PROVE  Receive("pong", k) /\ UNCHANGED orderedCompleted
      BY <3>3, PongFacts
    <3> QED
      BY <1>7, <3>1, <3>2, <3>3
  <2>2. type \notin Orders /\ orderedCompleted \in Nat
    BY DEF Orders, TypeInv
  <2>3. orderedCompleted' = orderedCompleted + (IF type \in Orders THEN 1 ELSE 0)
    BY <2>1, <2>2
  <2> QED
    BY <1>6, <2>1, <2>3
<1>8. CASE ReceiveOrdered \/ ReceiveUnregister
  <2>1. PICK type \in Orders : OrderedCall(type)
    BY <1>8 DEF ReceiveOrdered, ReceiveUnregister, Orders
  <2>2. Receive(type, 1) /\ orderedCompleted' = orderedCompleted + 1
    BY <2>1, OrderedFacts
  <2> QED
    BY <1>6, <2>1, <2>2
<1>10. CASE FinishOrdered \/ BarrierResolved
  <2>1. ~begun /\ ~resolved
    BY DEF TypeInv
  <2> QED
    BY <1>10, <2>1, Zenon DEF FinishOrdered, BarrierResolved
<1>9. \/ UNCHANGED <<toHost, watermark, orderedCompleted>> /\ waiting' \subseteq waiting
      \/ ReadRequest
      \/ \E type \in {"invoke", "ordered", "event"} : HandOver(type)
      \/ UnregisterInferenceProvider \/ HearPing
      \/ ReceiveInvoke \/ \E k \in DOMAIN toHost : ReceiveEvent(k) \/ ReceivePong(k)
      \/ ReceiveOrdered \/ ReceiveUnregister \/ FinishOrdered \/ BarrierResolved
  BY DEF Next, Utility, Host, Collector, vars, utilityVars, hostVars, requestVars, SyncCall,
         ReceiveReply, GiveUp, HearAdopted, HearResult, HearRelease, HearReconcile, Take,
         Respond, DecodeCallback, RegisterInferenceProvider, RefuseInferenceProvider,
         TrackProvider, FinishCallback, FinishInvoke, ReconcileUtilityCallbacks, CollectStub,
         CollectProvider
<1> QED
  BY <1>1, <1>2, <1>3, <1>4, <1>5, <1>7, <1>8, <1>9, <1>10

\* What a sweep that is under way spares, it goes on to spare.
LEMMA SparedStep ==
    ASSUME TypeInv, NumbersInv, DistinctInv, StagesInv, [Next]_vars, TypeInv', ~HearPing
    PROVE  \A held : Spared(held) => /\ \A m \in In(toHost)' : m.type # "pong"
                                     /\ \A i \in UnderWay' : i[1] > watermark'
                                     /\ \A i \in Callable' : i[1] <= watermark' => i \in held
<1> SUFFICES ASSUME NEW held, Spared(held)
             PROVE  /\ \A m \in In(toHost)' : m.type # "pong"
                    /\ \A i \in UnderWay' : i[1] > watermark'
                    /\ \A i \in Callable' : i[1] <= watermark' => i \in held
  OBVIOUS
<1>0. /\ \A m \in In(toHost) : m.type # "pong"
      /\ \A i \in UnderWay : i[1] > watermark
      /\ \A i \in Callable : i[1] <= watermark => i \in held
      /\ functionSequence \in Nat /\ watermark \in Nat /\ watermark <= functionSequence
      /\ \A i \in UnderWay : i[1] \in Nat
  <2>1. UnderWay \subseteq Ids
    BY ReachStagesNow DEF ReachStages
  <2>2. \A i \in UnderWay : i[1] \in Nat
    BY <2>1, NumbersTyped, IdFacts
  <2>3. functionSequence \in Nat /\ watermark \in 0..functionSequence
    BY NumbersAreNat DEF TypeInv
  <2> QED
    BY <2>2, <2>3 DEF Spared
<1>1. watermark' = watermark
  BY DEF Next, Utility, Host, Collector, vars, utilityVars, HandOver, SyncCall,
         UnregisterInferenceProvider, ReceiveReply, GiveUp, HearAdopted, HearResult,
         HearRelease, HearReconcile, Receive, ReadRequest, DecodeCallback,
         RegisterInferenceProvider, RefuseInferenceProvider, TrackProvider, FinishCallback,
         ReceiveInvoke, ReceiveEvent, ReceiveOrdered, ReceiveUnregister, ReceivePong,
         OrderedCall, FinishOrdered, BarrierResolved, FinishInvoke, ReconcileUtilityCallbacks,
         CollectStub, CollectProvider
<1>2. \A m \in In(toHost)' : m.type # "pong"
  <2>1. CASE UNCHANGED toHost
    <3>1. In(toHost)' = In(toHost)
      BY <2>1 DEF In
    <3> QED
      BY <1>0, <3>1
  <2>2. ASSUME NEW m \in ToHostMessages, m.type # "pong", toHost' = Append(toHost, m)
        PROVE  \A l \in In(toHost)' : l.type # "pong"
    BY <1>0, <2>2, SendFacts
  <2>3. ASSUME NEW type \in {"invoke", "ordered", "event"}, HandOver(type)
        PROVE  \A l \in In(toHost)' : l.type # "pong"
    <3> DEFINE m == [type |-> type, id |-> Fn(functionSequence + 1)]
    <3>1. Fn(functionSequence + 1) \in Ids
      BY <2>3, HandOverMoves
    <3>2. m \in ToHostMessages /\ m.type # "pong"
      BY <3>1, ToHostValues DEF Carrying
    <3>3. toHost' = Append(toHost, m)
      BY <2>3 DEF HandOver
    <3> HIDE DEF m
    <3> QED
      BY <2>2, <3>2, <3>3
  <2>4. CASE UnregisterInferenceProvider
    <3>1. toHost' = Append(toHost, Unregister)
      BY <2>4 DEF UnregisterInferenceProvider
    <3>2. Unregister \in ToHostMessages /\ Unregister.type # "pong"
      BY ToHostValues
    <3> QED
      BY <2>2, <3>1, <3>2
  <2>5. ASSUME NEW type, NEW k, Receive(type, k)
        PROVE  \A l \in In(toHost)' : l.type # "pong"
    BY <1>0, <2>5, ReceiveFacts
  <2>6. \/ UNCHANGED toHost
        \/ \E type \in {"invoke", "ordered", "event"} : HandOver(type)
        \/ UnregisterInferenceProvider
        \/ \E type, k : Receive(type, k)
    BY DEF Next, Utility, Host, Collector, vars, SyncCall, ReceiveReply, GiveUp, HearAdopted,
           HearResult, HearRelease, HearReconcile, ReadRequest, DecodeCallback,
           RegisterInferenceProvider, RefuseInferenceProvider, TrackProvider, FinishCallback,
           ReceiveInvoke, ReceiveEvent, ReceiveOrdered, ReceiveUnregister, ReceivePong,
           OrderedCall, FinishOrdered, BarrierResolved, FinishInvoke,
           ReconcileUtilityCallbacks, CollectStub, CollectProvider
  <2> QED
    BY <2>1, <2>3, <2>4, <2>5, <2>6
<1>3. \A i \in UnderWay' : i[1] > watermark
  <2>1. \A i \in NewIds : i[1] > watermark
    BY <1>0 DEF NewIds
  <2> QED
    BY <1>0, <2>1, UnderWayStep
<1>4. \A i \in Callable' : i[1] <= watermark => i \in held
  BY <1>0, CallableStep
<1> QED
  BY <1>1, <1>2, <1>3, <1>4

\* Nothing but the end of a barrier posts a sweep.
PostsNoSweep ==
    \E messages \in Seq(ToUtilityMessages) :
        Post(messages) /\ \A k \in DOMAIN messages : messages[k].type # "reconcile"

LEMMA ResultsAreNoSweep == PostsResult => PostsNoSweep
<1> SUFFICES ASSUME PostsResult PROVE PostsNoSweep
  OBVIOUS
<1>1. PICK i \in Ids : Post(<<Result(i)>>) \/ Post(<<Adopted(i), Result(i)>>)
  BY DEF PostsResult
<1>2. /\ Adopted(i) \in ToUtilityMessages /\ Adopted(i).type = "adopted"
      /\ Result(i) \in ToUtilityMessages /\ Result(i).type = "result"
  BY ToUtilityValues
<1>3. CASE Post(<<Result(i)>>)
  <2> DEFINE w == <<Result(i)>>
  <2>1. w \in Seq(ToUtilityMessages) /\ (\A k \in DOMAIN w : w[k] = Result(i)) /\ Post(w)
    BY <1>2, <1>3, ShortPosts
  <2> HIDE DEF w
  <2> QED
    BY <1>2, <2>1 DEF PostsNoSweep
<1>4. CASE Post(<<Adopted(i), Result(i)>>)
  <2> DEFINE w == <<Adopted(i), Result(i)>>
  <2>1. /\ w \in Seq(ToUtilityMessages) /\ Post(w)
        /\ \A k \in DOMAIN w : w[k] = Adopted(i) \/ w[k] = Result(i)
    BY <1>2, <1>4, ShortPosts
  <2> HIDE DEF w
  <2> QED
    BY <1>2, <2>1 DEF PostsNoSweep
<1> QED
  BY <1>1, <1>3, <1>4

\* Where a sweep that is under way stays.
LEMMA ReconMoves ==
    ASSUME TypeInv, DistinctInv, StagesInv, [Next]_vars, ~HearPing, ~SweepPosted
    PROVE  \A k \in DOMAIN toUtility' :
             toUtility'[k].type = "reconcile" =>
               \E l \in DOMAIN toUtility :
                 /\ toUtility[l] = toUtility'[k]
                 /\ \A j \in 1..k-1 : \E i \in 1..l-1 : toUtility[i] = toUtility'[j]
<1> SUFFICES ASSUME NEW k \in DOMAIN toUtility', toUtility'[k].type = "reconcile"
             PROVE  \E l \in DOMAIN toUtility :
                      /\ toUtility[l] = toUtility'[k]
                      /\ \A j \in 1..k-1 : \E i \in 1..l-1 : toUtility[i] = toUtility'[j]
  OBVIOUS
<1>0. toUtility \in Seq(ToUtilityMessages)
  BY DEF TypeInv
<1>1. CASE UNCHANGED toUtility
  <2>1. k \in DOMAIN toUtility /\ toUtility' = toUtility
    BY <1>1
  <2> QED
    BY <2>1
<1>2. ASSUME NEW type, Take(type)
      PROVE  \E l \in DOMAIN toUtility :
               /\ toUtility[l] = toUtility'[k]
               /\ \A j \in 1..k-1 : \E i \in 1..l-1 : toUtility[i] = toUtility'[j]
  <2>1. toUtility # <<>> /\ toUtility' = Tail(toUtility)
    BY <1>2, TakeFacts
  <2>2. /\ Len(toUtility) \in Nat \ {0}
        /\ DOMAIN toUtility = 1..Len(toUtility) /\ DOMAIN toUtility' = 1..Len(toUtility) - 1
        /\ \A j \in 1..Len(toUtility) - 1 : toUtility'[j] = toUtility[j + 1]
    BY <1>0, <2>1, TakeFromChannel
  <2>3. k + 1 \in DOMAIN toUtility /\ toUtility[k + 1] = toUtility'[k]
    BY <2>2
  <2>4. ASSUME NEW j \in 1..k-1
        PROVE  \E i \in 1..(k + 1)-1 : toUtility[i] = toUtility'[j]
    <3>1. j + 1 \in 1..(k + 1)-1 /\ j \in 1..Len(toUtility) - 1
      BY <2>2
    <3> QED
      BY <2>2, <3>1
  <2> QED
    BY <2>3, <2>4
<1>3. CASE HearAdopted \/ HearResult \/ HearRelease \/ HearReconcile
  BY <1>2, <1>3 DEF HearAdopted, HearResult, HearRelease, HearReconcile
<1>4. CASE PostsNoSweep
  <2>1. PICK messages \in Seq(ToUtilityMessages) :
          Post(messages) /\ \A j \in DOMAIN messages : messages[j].type # "reconcile"
    BY <1>4 DEF PostsNoSweep
  <2>2. toUtility' = toUtility \o messages
    BY <2>1 DEF Post
  <2> DEFINE d == Len(toUtility)
  <2>3. /\ d \in Nat /\ DOMAIN toUtility = 1..d /\ DOMAIN messages = 1..Len(messages)
        /\ DOMAIN toUtility' = 1..d + Len(messages)
        /\ \A j \in 1..d : toUtility'[j] = toUtility[j]
        /\ \A j \in 1..Len(messages) : toUtility'[d + j] = messages[j]
        /\ \A j \in 1..d + Len(messages) : j \in 1..d \/ \E i \in 1..Len(messages) : j = d + i
    BY <1>0, <2>2, PostToChannel
  <2> HIDE DEF d
  <2>4. k \in 1..d
    BY <2>1, <2>3
  <2>5. \A j \in 1..k-1 : j \in 1..d
    BY <2>3, <2>4
  <2> QED
    BY <2>3, <2>4, <2>5
<1>5. CASE PostsQuietly
  BY <1>4, <1>5 DEF PostsQuietly, PostsNoSweep
<1> QED
  BY <1>1, <1>3, <1>4, <1>5, PostCases, ResultsAreNoSweep

\* The sweep that the last pong posts: its ping was heard after what is older
\* was handed over, and no other ping is under way.
LEMMA ReconPosted ==
    ASSUME TypeInv, OneAtATime, CountInv, DistinctInv, StagesInv, PollInv, SweepInv, [Next]_vars,
           TypeInv', NEW a, ReceivePong(a), pings = 1
    PROVE  /\ \A k \in DOMAIN toUtility : toUtility[k].type # "ping"
           /\ Post(<<[type |-> "reconcile", held |-> HeldUtilityCallbackIds]>>)
           /\ \A m \in In(toHost)' : m.type # "pong"
           /\ \A i \in UnderWay' : i[1] > watermark'
           /\ \A i \in Callable' : i \in HeldUtilityCallbackIds
<1>20. /\ Receive("pong", a) /\ PostSweep
       /\ \A r \in waiting : ~(r.after <= orderedCompleted)
       /\ UNCHANGED stubs /\ UNCHANGED providerVars
  BY PongFacts
<1>0. /\ toHost \in Seq(ToHostMessages) /\ toHost # <<>> /\ toHost' = Tail(toHost)
      /\ Head(toHost).type = "pong" /\ Receive("pong", a)
      /\ \A r \in waiting : ~(r.after <= orderedCompleted)
      /\ UNCHANGED <<unread, waiting, stubs, watermark>> /\ UNCHANGED providerVars
      /\ toUtility \in Seq(ToUtilityMessages)
  BY <1>20, ReceiveFacts DEF TypeInv, utilityVars
<1>1. PingsUnderWay = 0 /\ Pongs' = 0
  <2>1. PingsUnderWay + Pongs = 1
    BY DEF CountInv, PingsUnderWay, Pongs
  <2>2. Pongs = 1 + Pongs'
    BY <1>0, ReceiveCounts
  <2>3. PingsUnderWay \in Nat /\ Pongs \in Nat /\ Pongs' \in Nat
    <3>1. Len(toHost') \in Nat
      BY LenProperties DEF TypeInv
    <3> QED
      BY <3>1, CountsTyped, CountType DEF Pongs
  <2>4. \A x, y, z \in Nat : x + y = 1 /\ y = 1 + z => x = 0 /\ z = 0
    OBVIOUS
  <2> QED
    BY <2>1, <2>2, <2>3, <2>4
<1>2. \A k \in DOMAIN toUtility : toUtility[k].type # "ping"
  <2> SUFFICES ASSUME NEW k \in DOMAIN toUtility, toUtility[k].type \in {"ping"}
               PROVE  FALSE
    OBVIOUS
  <2>1. Len(toUtility) \in Nat /\ k \in 1..Len(toUtility)
    BY <1>0, LenProperties
  <2>2. Count(toUtility, {"ping"}, Len(toUtility)) > 0
    BY <2>1, CountSome
  <2> QED
    BY <1>1, <2>2 DEF PingsUnderWay
<1>3. /\ Len(toHost) \in Nat \ {0} /\ Len(toHost') = Len(toHost) - 1 /\ Head(toHost) = toHost[1]
      /\ DOMAIN toHost = 1..Len(toHost) /\ DOMAIN toHost' = 1..Len(toHost) - 1
      /\ \A k \in 1..Len(toHost) - 1 : toHost'[k] = toHost[k + 1]
  BY <1>0, TakeFromChannel
<1>4. \A k \in DOMAIN toHost' : toHost'[k].type # "pong"
  <2> SUFFICES ASSUME NEW k \in DOMAIN toHost', toHost'[k].type \in {"pong"}
               PROVE  FALSE
    OBVIOUS
  <2>1. Len(toHost') \in Nat /\ k \in 1..Len(toHost')
    BY <1>3
  <2> DEFINE h == toHost'
  <2>2. Len(h) \in Nat /\ k \in 1..Len(h) /\ h[k].type \in {"pong"}
    BY <2>1
  <2> HIDE DEF h
  <2>3. Count(h, {"pong"}, Len(h)) > 0
    BY <2>2, CountSome
  <2> QED
    BY <1>1, <2>3 DEF Pongs, h
<1>5. \A m \in In(toHost)' : m.type # "pong"
  BY <1>4 DEF In
<1>6. \A j \in 2..Len(toHost) : toHost[j].type # "pong"
  <2> SUFFICES ASSUME NEW j \in 2..Len(toHost)
               PROVE  toHost[j].type # "pong"
    OBVIOUS
  <2>1. j - 1 \in 1..Len(toHost) - 1 /\ (j - 1) + 1 = j
    BY <1>3
  <2> QED
    BY <1>3, <1>4, <2>1
<1>7. /\ \A j \in 2..Len(toHost) : toHost[j].type \in Carrying => toHost[j].id[1] > watermark
      /\ \A r \in waiting : r.n <= watermark => r.after <= orderedCompleted + Count(toHost, Orders, 1)
  <2>1. 1 \in DOMAIN toHost /\ 1 + 1 = 2
    BY <1>3
  <2>2. \A j \in 1+1..Len(toHost) : toHost[j].type # "pong"
    BY <1>6, <2>1
  <2>3. PongInv
    BY DEF SweepInv
  <2> QED
    BY <1>0, <1>3, <2>1, <2>2, <2>3 DEF PongInv
<1>8. \A r \in waiting : ~(r.n <= watermark)
  <2>1. Count(toHost, Orders, 1) = 0
    <3>1. toHost[1].type \notin Orders
      BY <1>0, <1>3 DEF Orders
    <3> QED
      BY <3>1, CountOne
  <2>2. orderedCompleted + 0 = orderedCompleted
    BY DEF TypeInv
  <2> QED
    BY <1>0, <1>7, <2>1, <2>2
<1>9. \A r \in In(unread) \cup waiting : r.n > watermark /\ r \in Requests
  <2>1. \A r \in In(unread) \cup waiting : r \in Requests
    BY OnTheWay DEF TypeInv
  <2>2. watermark \in Nat
    BY NumbersAreNat DEF TypeInv
  <2>3. \A r \in waiting : r.n > watermark
    BY <1>8, <2>1, <2>2, NumbersTyped
  <2> QED
    BY <2>1, <2>3 DEF SweepInv
<1>10. \A i \in WireIds' : i[1] > watermark
  <2> SUFFICES ASSUME NEW m \in In(toHost)', m.type \in Carrying
               PROVE  m.id[1] > watermark
    BY DEF WireIds
  <2>1. PICK k \in 1..Len(toHost) - 1 : m = toHost'[k]
    BY <1>3 DEF In
  <2>2. m = toHost[k + 1] /\ k + 1 \in 2..Len(toHost)
    BY <1>3, <2>1
  <2> QED
    BY <1>7, <2>2
<1>11. \A i \in RequestIds' : i[1] > watermark
  <2>1. In(unread)' = In(unread) /\ waiting' = waiting
    BY <1>0, SameChannels
  <2> SUFFICES ASSUME NEW r \in In(unread) \cup waiting, NEW i \in IdsOf(r)
               PROVE  i[1] > watermark
    BY <2>1 DEF RequestIds, IdsOf
  <2> QED
    BY <1>9, NumbersTyped
<1>12. \A i \in UnderWay' : i[1] > watermark'
  BY <1>0, <1>10, <1>11, UnderWayNext DEF UnderWayParts
<1>13. \A i \in Callable' : i \in HeldUtilityCallbackIds
  <2>1. Callable' = Callable
    BY <1>0 DEF Callable, providerVars
  <2>2. 0 \notin providers
    BY NumbersTyped DEF TypeInv
  <2> QED
    BY <2>1, <2>2 DEF Callable, HeldUtilityCallbackIds, PollInv
<1>14. Post(<<[type |-> "reconcile", held |-> HeldUtilityCallbackIds]>>)
  BY <1>20 DEF PostSweep
<1> QED
  BY <1>2, <1>5, <1>12, <1>13, <1>14

LEMMA ReconStep ==
    ASSUME TypeInv, OneAtATime, CountInv, NumbersInv, DistinctInv, StagesInv, PollInv, SweepInv,
           [Next]_vars, TypeInv'
    PROVE  ReconInv'
<1>0. ReconInv /\ toUtility \in Seq(ToUtilityMessages)
  BY DEF SweepInv, TypeInv
<1> SUFFICES ASSUME NEW k \in DOMAIN toUtility', toUtility'[k].type = "reconcile"
             PROVE  /\ \A j \in 1..k-1 : toUtility'[j].type # "ping"
                    /\ \A m \in In(toHost)' : m.type # "pong"
                    /\ \A i \in UnderWay' : i[1] > watermark'
                    /\ \A i \in Callable' : i[1] <= watermark' => i \in toUtility'[k].held
  BY DEF ReconInv, Spared
\* A sweep on its way is followed by no older pong, and follows no ping.
<1>1. \A l \in DOMAIN toUtility :
        toUtility[l].type = "reconcile" =>
            /\ \A j \in 1..l-1 : toUtility[j].type # "ping"
            /\ \A m \in In(toHost) : m.type # "pong"
            /\ Spared(toUtility[l].held)
  BY <1>0 DEF ReconInv, Spared
<1>2. CASE HearPing
  <2>1. Take("ping")
    BY <1>2 DEF HearPing
  <2>2. toUtility # <<>> /\ toUtility' = Tail(toUtility) /\ Head(toUtility).type = "ping"
    BY <2>1, TakeFacts
  <2>3. /\ Head(toUtility) = toUtility[1] /\ Len(toUtility) \in Nat \ {0}
        /\ DOMAIN toUtility = 1..Len(toUtility) /\ DOMAIN toUtility' = 1..Len(toUtility) - 1
        /\ \A j \in 1..Len(toUtility) - 1 : toUtility'[j] = toUtility[j + 1]
    BY <1>0, <2>2, TakeFromChannel
  <2>4. k + 1 \in DOMAIN toUtility /\ toUtility[k + 1].type = "reconcile" /\ 1 \in 1..(k + 1)-1
    BY <2>3
  <2> QED
    BY <1>1, <2>2, <2>3, <2>4
<1>3. CASE ~HearPing /\ ~SweepPosted
  <2>1. PICK l \in DOMAIN toUtility :
          /\ toUtility[l] = toUtility'[k]
          /\ \A j \in 1..k-1 : \E i \in 1..l-1 : toUtility[i] = toUtility'[j]
    BY <1>3, ReconMoves
  <2>2. \A j \in 1..k-1 : toUtility'[j].type # "ping"
    BY <1>1, <2>1
  <2> DEFINE held == toUtility'[k].held
  <2>3. Spared(toUtility[l].held) /\ toUtility[l].held = held
    BY <1>1, <2>1
  <2>4. /\ \A m \in In(toHost)' : m.type # "pong"
        /\ \A i \in UnderWay' : i[1] > watermark'
        /\ \A i \in Callable' : i[1] <= watermark' => i \in toUtility[l].held
    BY <1>3, <2>3, SparedStep
  <2> QED
    BY <2>2, <2>3, <2>4
<1>5. HeldUtilityCallbackIds \in SUBSET Ids
  BY HeldIds
<1>4. CASE SweepPosted
  <2>4. PICK h \in DOMAIN toHost : ReceivePong(h)
    <3>1. ~BarrierResolved
      BY Zenon DEF BarrierResolved, TypeInv
    <3> QED
      BY <1>4, <3>1 DEF SweepPosted
  <2>1. \A l \in DOMAIN toUtility : toUtility[l].type # "reconcile"
    <3>1. Receive("pong", h)
      BY <2>4, PongFacts
    <3>2. toHost[h] \in In(toHost) /\ toHost[h].type = "pong"
      BY <3>1, ReceiveFacts
    <3> QED
      BY <1>1, <3>2
  <2>2. CASE pings # 1
    <3>2. toUtility' = toUtility
      BY <2>2, <2>4, PongFacts
    <3> QED
      BY <2>1, <3>2
  <2>3. CASE pings = 1
    <3> DEFINE m == [type |-> "reconcile", held |-> HeldUtilityCallbackIds]
               d == Len(toUtility)
               w == <<m>>
    <3>1. /\ \A j \in DOMAIN toUtility : toUtility[j].type # "ping"
          /\ Post(w)
          /\ \A l \in In(toHost)' : l.type # "pong"
          /\ \A i \in UnderWay' : i[1] > watermark'
          /\ \A i \in Callable' : i \in HeldUtilityCallbackIds
      BY <2>3, <2>4, ReconPosted
    <3>2. m \in ToUtilityMessages /\ m.held = HeldUtilityCallbackIds
      BY <1>5, ToUtilityValues
    <3> HIDE DEF m
    <3>3. w \in Seq(ToUtilityMessages) /\ Len(w) = 1 /\ w[1] = m
      BY <3>2, ShortChannels
    <3>4. toUtility' = toUtility \o w
      BY <3>1 DEF Post
    <3> HIDE DEF w
    <3>a. w \in Seq(ToUtilityMessages)
      BY <3>3
    <3>b. toUtility \in Seq(ToUtilityMessages)
      BY <1>0
    <3>c. /\ Len(toUtility) \in Nat /\ DOMAIN toUtility = 1..Len(toUtility)
          /\ DOMAIN (toUtility \o w) = 1..Len(toUtility) + Len(w)
          /\ \A j \in 1..Len(toUtility) : (toUtility \o w)[j] = toUtility[j]
          /\ \A j \in 1..Len(w) : (toUtility \o w)[Len(toUtility) + j] = w[j]
      BY <3>a, <3>b, PostToChannel
    <3>5. /\ d \in Nat /\ DOMAIN toUtility = 1..d /\ DOMAIN toUtility' = 1..d + Len(w)
          /\ \A j \in 1..d : toUtility'[j] = toUtility[j]
          /\ \A j \in 1..Len(w) : toUtility'[d + j] = w[j]
      BY <3>c, <3>4
    <3> HIDE DEF d
    <3>6. k \notin 1..d
      BY <2>1, <3>5
    <3>7. k = d + 1 /\ 1 \in 1..Len(w)
      BY <3>3, <3>5, <3>6
    <3>8. toUtility'[k] = m
      BY <3>3, <3>5, <3>7
    <3>9. \A j \in 1..k-1 : toUtility'[j].type # "ping"
      <4> SUFFICES ASSUME NEW j \in 1..k-1
                   PROVE  toUtility'[j].type # "ping"
        OBVIOUS
      <4>1. j \in 1..d
        BY <3>5, <3>7
      <4> QED
        BY <3>1, <3>5, <4>1
    <3> QED
      BY <3>1, <3>2, <3>8, <3>9
  <2> QED
    BY <2>2, <2>3
<1> QED
  BY <1>2, <1>3, <1>4

-----------------------------------------------------------------------------
\* What holds where the host takes the messages one at a time.
IInvAlive == IInvOwners /\ (OneAtATime => SettledInv /\ SweepInv)

LEMMA InitAlive == Init => IInvAlive
<1> SUFFICES ASSUME Init PROVE IInvAlive
  OBVIOUS
<1>1. IInvOwners
  BY InitOwners
<1>2. /\ In(toHost) = {} /\ In(toUtility) = {} /\ In(unread) = {}
      /\ DOMAIN toHost = {} /\ DOMAIN toUtility = {}
  BY DEF Init, In
<1>3. UnderWay = {} /\ Callable = {} /\ Pending = {}
  BY <1>2 DEF Init, UnderWay, Callable, Pending
<1>4. SettledInv
  BY <1>2, <1>3 DEF Init, SettledInv, InReach, ResultsInv
<1>5. SweepInv
  BY <1>2, <1>3 DEF Init, SweepInv, PongInv, ReconInv
<1> QED
  BY <1>1, <1>4, <1>5 DEF IInvAlive

LEMMA RuntimeStays ==
    ASSUME [Next]_vars
    PROVE  runtime' = runtime
  BY DEF Next, Utility, Host, Collector, vars, hostVars, turnVars, HandOver, SyncCall,
         UnregisterInferenceProvider, ReceiveReply, GiveUp, HearAdopted, HearResult,
         HearRelease, HearPing, HearReconcile, Take, Receive, ReadRequest, DecodeCallback,
         RegisterInferenceProvider, RefuseInferenceProvider, TrackProvider, FinishCallback,
         ReceiveInvoke, ReceiveEvent, ReceiveOrdered, ReceiveUnregister, ReceivePong,
         OrderedCall, FinishOrdered, BarrierResolved, FinishInvoke,
         ReconcileUtilityCallbacks, CollectStub, CollectProvider

LEMMA AliveKept ==
    ASSUME ~UnreadTimeouts, IInvAlive, [Next]_vars
    PROVE  IInvAlive'
<1>1. IInvOwners'
  BY OwnersKept DEF IInvAlive
<1>5. OneAtATime' => OneAtATime
  BY RuntimeStays DEF OneAtATime
<1> SUFFICES ASSUME OneAtATime PROVE SettledInv' /\ SweepInv'
  BY <1>1, <1>5 DEF IInvAlive
<1>2. /\ TypeInv /\ CountInv /\ NumbersInv /\ DistinctInv /\ StagesInv /\ PollInv /\ OwnersInv
      /\ SettledInv /\ SweepInv
      /\ TypeInv' /\ DistinctInv' /\ StagesInv'
  BY <1>1 DEF IInvAlive, IInvOwners
<1>3. SettledInv'
  BY <1>2, SettledStep
<1>4. SweepInv'
  BY <1>2, UnreadStep, PongStep, ReconStep DEF SweepInv
<1> QED
  BY <1>3, <1>4

(* No callback is freed under the host where it takes the messages of the  *)
(* plugin one at a time (a chunk of node-sea breaks it: see                *)
(* PluginCallbacks_sea.cfg), as long as a synchronous call is only given   *)
(* up once the host has taken its request off the socket (without that TLC *)
(* finds, under PluginCallbacks_unread.cfg, a sweep that frees what a      *)
(* request still carries): what the host may call, or may yet decode, the  *)
(* utility still has, and nobody has sent for its release.                 *)
THEOREM CallableIdsStayAlive == ~UnreadTimeouts => (Spec => []CallableIdsAreLive)
<1> SUFFICES ASSUME ~UnreadTimeouts PROVE Spec => []CallableIdsAreLive
  OBVIOUS
<1>1. IInvAlive => CallableIdsAreLive
  BY DEF IInvAlive, SettledInv, InReach, CallableIdsAreLive
<1>2. Init => IInvAlive
  BY InitAlive
<1>3. IInvAlive /\ [Next]_vars => IInvAlive'
  BY AliveKept
<1> QED
  BY <1>1, <1>2, <1>3, PTL DEF Spec
=============================================================================
