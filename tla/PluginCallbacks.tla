--------------------------- MODULE PluginCallbacks ---------------------------
(***************************************************************************)
(* Who owns the callbacks of a plugin (plugins/process: utility-transport, *)
(* utility-api, plugin-process-host). A plugin runs in a utility process;  *)
(* every function it hands to the host gets an id and stays in the table   *)
(* of the utility until the host, whose garbage collector alone knows when *)
(* a stub or a provider is dead, releases it. Adoption, settlement of the  *)
(* carrying request and a periodic sweep share that job, over two channels *)
(* that are FIFO each and unordered with respect to one another: the IPC   *)
(* channel, and a TCP broker for synchronous calls.                        *)
(*                                                                         *)
(* A plugin runs in one of two runtimes. The IPC of an Electron utility    *)
(* process gives the host one message at a time, and its microtasks are    *)
(* over before the next; that of a node-sea host is another TCP socket,    *)
(* and the host handles all the lines of a chunk before any microtask.     *)
(*                                                                         *)
(* One incarnation of the process. A message carries one callback, or the  *)
(* two of an inference provider, isAvailable and stream, which are         *)
(* registered together and share a number here. Ids registered and rolled  *)
(* back within one synchronous step, the abort signals and what is called  *)
(* with which arguments are left out.                                      *)
(***************************************************************************)
EXTENDS Naturals, Sequences, SequencesExt, FiniteSets

CONSTANTS
    MaxHandovers,   \* bound: times the plugin hands callbacks over
    MaxOrdered,     \* bound: ordered calls
    MaxBarriers,    \* bound, by runtime: reconciliations under way at a time
    UnreadTimeouts, \* a synchronous call may be given up while the broker
                    \* has not read it
    Refusals,       \* the API may refuse a provider (plugin-api.ts:356)
    Runtimes        \* the runtimes selectPluginHostRuntime may choose

ASSUME BoundsAssumption ==
    /\ MaxHandovers \in Nat /\ MaxOrdered \in Nat
    /\ UnreadTimeouts \in BOOLEAN /\ Refusals \in BOOLEAN
    /\ Runtimes \subseteq {"electron-utility", "node-sea"}
    /\ MaxBarriers \in [Runtimes -> Nat \ {0}]

VARIABLES
    \* the utility process
    functions,        \* ids it can still call
    unadopted,        \* those no adoption has been heard of
    carried,          \* those its request bookkeeping still names
    functionSequence, \* last number given out
    watermark,        \* reconcileWatermark
    orderedSequence,  \* ordered calls made
    syncing,          \* the request it is blocked on, or {}
    \* the channels
    toHost,           \* IPC
    toUtility,        \* IPC
    unread,           \* requests on the broker's socket
    reply,            \* response to the request in syncing, or {}
    \* the host
    waiting,          \* broker requests behind an ordered call
    handling,         \* broker requests being dispatched
    serving,          \* callbacks whose asynchronous call is being dispatched
    orderedCompleted, \* ordered calls done
    stubs,            \* utilityCallbackRefs
    providers,        \* provider objects alive, by number
    refused,          \* those the API refused, not yet collected
    installed,        \* instance.inferenceProvider, or 0
    polled,           \* of inferenceAvailabilityCallbackId, or 0
    idle,             \* of pendingIdleInferenceCallbackId, or 0
    liveStreams,      \* liveInferenceStreamIds
    draining,         \* brokerDrainWaiters
    pings,            \* drain barriers posted whose pong has not come
    runtime,          \* of the plugin
    \* the turn of the host that handles a chunk
    begun,            \* an ordered call has begun and is not done
    resolved          \* barrier whose sweep is yet to be posted

utilityVars == <<functions, unadopted, carried, functionSequence, watermark,
                 orderedSequence, syncing>>
requestVars == <<waiting, handling, serving, orderedCompleted>>
providerVars == <<providers, refused, installed, polled, idle, liveStreams>>
turnVars == <<runtime, begun, resolved>>
hostVars == <<requestVars, stubs, providerVars, draining, pings, turnVars>>
vars == <<utilityVars, toHost, toUtility, unread, reply, hostVars>>

Numbers == 1..MaxHandovers
NumberOrNone == 0..MaxHandovers

(* Ids of a callback, or of isAvailable; and of stream                     *)
Fn(n) == <<n, "fn">>
Stream(n) == <<n, "stream">>
Both(n) == {Fn(n), Stream(n)}
Ids == {Fn(n) : n \in Numbers} \cup {Stream(n) : n \in Numbers}

(* A broker request: what it carries, and the ordered calls made before it *)
(* (afterOrder).                                                           *)
Requests == [kind : {"callback", "provider"}, n : Numbers, after : 0..MaxOrdered]
Replies == [ok : BOOLEAN, adopted : SUBSET Ids]

IdsOf(r) == IF r.kind = "provider" THEN Both(r.n) ELSE {Fn(r.n)}

(* IPC messages. An ordered call may be unregisterInferenceProvider.       *)
Unregister == [type |-> "unregister"]
Pong == [type |-> "pong"]
ToHostMessages ==
    [type : {"invoke", "ordered", "event"}, id : Ids] \cup {Unregister, Pong}
Ping == [type |-> "ping"]
ToUtilityMessages ==
    [type : {"adopted", "result", "release"}, id : Ids]
      \cup {Ping} \cup [type : {"reconcile"}, held : SUBSET Ids]

Adopted(i) == [type |-> "adopted", id |-> i]
Result(i)  == [type |-> "result", id |-> i]
Release(i) == [type |-> "release", id |-> i]

(* The messages of a channel                                               *)
In(s) == {s[k] : k \in DOMAIN s}

-----------------------------------------------------------------------------
(* The utility process                                                     *)

Init ==
    /\ functions = {} /\ unadopted = {} /\ carried = {}
    /\ functionSequence = 0 /\ watermark = 0 /\ orderedSequence = 0
    /\ syncing = {}
    /\ toHost = <<>> /\ toUtility = <<>> /\ unread = <<>> /\ reply = {}
    /\ waiting = {} /\ handling = {} /\ serving = {} /\ orderedCompleted = 0
    /\ stubs = {} /\ providers = {} /\ refused = {} /\ liveStreams = {}
    /\ installed = 0 /\ polled = 0 /\ idle = 0
    /\ draining = 0 /\ pings = 0
    /\ runtime \in Runtimes /\ begun = FALSE /\ resolved = FALSE

(* Atomics.wait stops the thread: it neither calls nor takes messages.     *)
(* What it does during a turn of the host, the host sees after it.         *)
Awake == syncing = {} /\ ~begun /\ ~resolved

(* registerFunction, of each id                                            *)
Register(ids) ==
    /\ functionSequence < MaxHandovers
    /\ functionSequence' = functionSequence + 1
    /\ functions' = functions \cup ids
    /\ unadopted' = unadopted \cup ids

(* encode ties an id to its request, unless the message has none: a result *)
(* of a callback, an event, the call that opens a stream.                  *)
HandOver(type) ==
    LET i == Fn(functionSequence + 1) IN
    /\ Awake
    /\ Register({i})
    /\ carried' = IF type = "event" THEN carried ELSE carried \cup {i}
    /\ toHost' = Append(toHost, [type |-> type, id |-> i])
    /\ IF type = "ordered"
         THEN /\ orderedSequence < MaxOrdered
              /\ orderedSequence' = orderedSequence + 1
         ELSE UNCHANGED orderedSequence
    /\ UNCHANGED <<watermark, syncing, toUtility, unread, reply, hostVars>>

(* The ids of a provider travel as plain strings, which encode does not    *)
(* see.                                                                    *)
SyncCall(kind) ==
    LET n == functionSequence + 1
        r == [kind |-> kind, n |-> n, after |-> orderedSequence]
    IN  /\ Awake
        /\ Register(IdsOf(r))
        /\ carried' = IF kind = "callback" THEN carried \cup {Fn(n)} ELSE carried
        /\ syncing' = {r}
        /\ unread' = Append(unread, r)
        /\ UNCHANGED <<watermark, orderedSequence, toHost, toUtility, reply, hostVars>>

UnregisterInferenceProvider ==
    /\ Awake
    /\ orderedSequence < MaxOrdered
    /\ orderedSequence' = orderedSequence + 1
    /\ toHost' = Append(toHost, Unregister)
    /\ UNCHANGED <<functions, unadopted, carried, functionSequence, watermark, syncing,
                   toUtility, unread, reply, hostVars>>

(* Mutant: the bookkeeping of the request forgets nothing.                 *)
DropKeepsRequest(ids) ==
    /\ functions' = functions \ ids
    /\ unadopted' = unadopted \ ids
    /\ UNCHANGED carried

(* What is released leaves every table.                                    *)
Drop(ids) ==
    /\ functions' = functions \ ids
    /\ unadopted' = unadopted \ ids
    /\ carried' = carried \ ids

(* settleRequest: of the ids a request carried, those nobody adopted       *)
SettledOrphans(ids, notAdopted) == ids \cap carried \cap notAdopted

(* A definite reply: its adoptions are marked before the request is        *)
(* settled. A provider that was refused is freed by the caller.            *)
ReceiveReply ==
    \E r \in syncing, a \in reply :
        LET left  == unadopted \ a.adopted
            freed == SettledOrphans(IdsOf(r), left)
                       \cup (IF r.kind = "provider" /\ ~a.ok THEN IdsOf(r) ELSE {})
        IN  /\ functions' = functions \ freed
            /\ unadopted' = left \ freed
            /\ carried' = carried \ (a.adopted \cup IdsOf(r))
            /\ syncing' = {} /\ reply' = {}
            /\ UNCHANGED <<functionSequence, watermark, orderedSequence,
                           toHost, toUtility, unread, hostVars>>

(* A timeout, a worker that fails, a response too large for the buffer:    *)
(* what the host made of the request is not known, so nothing is freed.    *)
GiveUp ==
    /\ \E r \in syncing : UnreadTimeouts \/ r \notin In(unread)
    /\ syncing' = {} /\ reply' = {}
    /\ UNCHANGED <<functions, unadopted, carried, functionSequence, watermark,
                   orderedSequence, toHost, toUtility, unread, hostVars>>

(* Mutant: the sweep stops short of the watermark.                         *)
SweptBefore(held) == {i \in unadopted : i[1] < watermark /\ i \notin held}

(* Sweep of the unadopted ids the host does not hold, up to the watermark  *)
Swept(held) == {i \in unadopted : i[1] <= watermark /\ i \notin held}


(* handleMessage of the utility: the head of the IPC channel               *)
Take(type) ==
    /\ Awake
    /\ toUtility # <<>> /\ Head(toUtility).type = type
    /\ toUtility' = Tail(toUtility)
    /\ UNCHANGED <<functionSequence, orderedSequence, syncing, unread, reply, hostVars>>

HearAdopted ==
    /\ Take("adopted")
    /\ unadopted' = unadopted \ {Head(toUtility).id}
    /\ carried' = carried \ {Head(toUtility).id}
    /\ UNCHANGED <<functions, watermark, toHost>>

HearResult ==
    LET i == Head(toUtility).id
        orphans == SettledOrphans({i}, unadopted)
    IN  /\ Take("result")
        /\ functions' = functions \ orphans
        /\ unadopted' = unadopted \ orphans
        /\ carried' = carried \ {i}
        /\ UNCHANGED <<watermark, toHost>>

HearRelease ==
    /\ Take("release")
    /\ Drop({Head(toUtility).id})
    /\ UNCHANGED <<watermark, toHost>>

HearPing ==
    /\ Take("ping")
    /\ watermark' = functionSequence
    /\ toHost' = Append(toHost, Pong)
    /\ UNCHANGED <<functions, unadopted, carried>>

HearReconcile ==
    /\ Take("reconcile")
    /\ Drop(Swept(Head(toUtility).held))
    /\ UNCHANGED <<watermark, toHost>>

-----------------------------------------------------------------------------
(* The host. It is single-threaded: a request whose ordered calls are done *)
(* goes on in a microtask, and the microtasks of a turn, also those of a   *)
(* chunk, end before the next message, timer or finalizer.                 *)

ReadyRequests == {r \in waiting : r.after <= orderedCompleted}
Settled == ReadyRequests = {} /\ ~begun /\ ~resolved

HeldUtilityCallbackIds ==
    stubs \cup liveStreams \cup {Fn(n) : n \in {polled, idle} \ {0}}

(* postToChild, of each message                                            *)
Post(messages) == toUtility' = toUtility \o messages

Pings(n) == [k \in 1..n |-> Ping]

ReadRequest ==
    /\ Settled
    /\ unread # <<>>
    /\ unread' = Tail(unread)
    /\ waiting' = waiting \cup {Head(unread)}
    /\ UNCHANGED <<utilityVars, toHost, toUtility, reply, handling, serving,
                   orderedCompleted, stubs, providerVars, draining, pings, turnVars>>

(* The response, and the end of the request: with the last one in flight   *)
(* those who wait for the broker to drain send their ping. The worker      *)
(* throws the response away if the call was given up.                      *)
Respond(r, ok, adopted) ==
    /\ waiting' = waiting \ {r}
    /\ handling' = handling \ {r}
    /\ reply' = IF r \in syncing THEN {[ok |-> ok, adopted |-> adopted]} ELSE reply
    /\ IF waiting' \cup handling' = {}
         THEN /\ Post(Pings(draining))
              /\ pings' = pings + draining
              /\ draining' = 0
         ELSE UNCHANGED <<toUtility, pings, draining>>

(* Requests that become ready together go on in the order they came in.    *)
Proceeds(r) == r \in ReadyRequests /\ \A o \in ReadyRequests : r.n <= o.n

DecodeCallback(r) ==
    /\ Proceeds(r) /\ r.kind = "callback"
    /\ stubs' = stubs \cup IdsOf(r)
    /\ waiting' = waiting \ {r}
    /\ handling' = handling \cup {r}
    /\ UNCHANGED <<utilityVars, toHost, toUtility, unread, reply, serving,
                   orderedCompleted, providerVars, draining, pings, turnVars>>

FinishCallback(r) ==
    /\ Settled
    /\ r \in handling
    /\ Respond(r, TRUE, IdsOf(r))
    /\ UNCHANGED <<utilityVars, toHost, unread, serving, orderedCompleted, stubs,
                   providerVars, turnVars>>

(* dispatch of agent.registerInferenceProvider                             *)
TrackProvider(r) ==
    /\ Proceeds(r) /\ r.kind = "provider"
    /\ polled' = r.n
    /\ liveStreams' = liveStreams \cup {Stream(r.n)}
    /\ UNCHANGED <<utilityVars, toHost, unread, serving, orderedCompleted, stubs, idle,
                   turnVars>>

RegisterInferenceProvider(r) ==
    /\ TrackProvider(r)
    /\ installed' = r.n
    /\ providers' = providers \cup {r.n}
    /\ Respond(r, TRUE, IdsOf(r))
    /\ UNCHANGED refused

(* The API throws: the instance of the plugin is no longer active, or the  *)
(* browser authority of the provider to be replaced cannot be revoked, and *)
(* none is left installed.                                                 *)
RefuseInferenceProvider(r) ==
    /\ Refusals
    /\ TrackProvider(r)
    /\ installed' \in {installed, 0}
    /\ refused' = refused \cup {r.n}
    /\ Respond(r, FALSE, IdsOf(r))
    /\ UNCHANGED providers

OneAtATime == runtime = "electron-utility"

(* handleMessage of the host: the head of the IPC channel; in a chunk also *)
(* message k, while those before it wait for an ordered call that has      *)
(* begun. Where a chunk ends is not said: what is left of toHost when a    *)
(* turn is over may belong to the next.                                    *)
Receive(type, k) ==
    /\ k \in DOMAIN toHost /\ toHost[k].type = type
    /\ k = 1 \/ begun
    /\ \A j \in 1..(k - 1) : toHost[j].type \in {"invoke", "ordered", "unregister"}
    /\ toHost' = RemoveAt(toHost, k)
    /\ UNCHANGED <<utilityVars, unread, reply, waiting, handling, draining, runtime>>

(* At the limit of calls a message is answered without being decoded.      *)
ReceiveInvoke ==
    LET i == Head(toHost).id IN
    /\ ReadyRequests = {} /\ ~begun
    /\ Receive("invoke", 1)
    /\ \/ /\ stubs' = stubs \cup {i}
          /\ serving' = serving \cup {i}
          /\ Post(<<Adopted(i)>>)
       \/ /\ Post(<<Result(i)>>)
          /\ UNCHANGED <<stubs, serving>>
    /\ UNCHANGED <<orderedCompleted, providerVars, pings, begun, resolved>>

FinishInvoke(i) ==
    /\ Settled
    /\ i \in serving
    /\ serving' = serving \ {i}
    /\ Post(<<Result(i)>>)
    /\ UNCHANGED <<utilityVars, toHost, unread, reply, waiting, handling,
                   orderedCompleted, stubs, providerVars, draining, pings, turnVars>>

(* A result nobody waits for any more is dropped undecoded.                *)
ReceiveEvent(k) ==
    LET i == toHost[k].id IN
    /\ ReadyRequests = {}
    /\ Receive("event", k)
    /\ \/ /\ stubs' = stubs \cup {i}
          /\ Post(<<Adopted(i)>>)
       \/ UNCHANGED <<stubs, toUtility>>
    /\ UNCHANGED <<serving, orderedCompleted, providerVars, pings, begun, resolved>>

(* An ordered call is answered in the turn it arrives in: its methods do   *)
(* not wait for anything. In a chunk the next one waits until it is done,  *)
(* in orderedInvokeTail, but is ahead of the requests that do too.         *)
OrderedCall(type) ==
    /\ ~begun /\ (OneAtATime => ReadyRequests = {})
    /\ Receive(type, 1)
    /\ IF OneAtATime
         THEN orderedCompleted' = orderedCompleted + 1 /\ UNCHANGED begun
         ELSE begun' = TRUE /\ UNCHANGED orderedCompleted
    /\ UNCHANGED <<serving, pings, resolved>>

ReceiveOrdered ==
    LET i == Head(toHost).id IN
    /\ OrderedCall("ordered")
    /\ \/ /\ stubs' = stubs \cup {i}
          /\ Post(<<Adopted(i), Result(i)>>)
       \/ /\ Post(<<Result(i)>>)
          /\ UNCHANGED stubs
    /\ UNCHANGED providerVars

ReceiveUnregister ==
    /\ OrderedCall("unregister")
    /\ polled' = 0 /\ idle' = 0 /\ installed' = 0
    /\ Post(IF idle = 0 THEN <<>> ELSE <<Release(Fn(idle))>>)
    /\ UNCHANGED <<stubs, providers, refused, liveStreams>>

FinishOrdered ==
    /\ begun /\ ~resolved
    /\ begun' = FALSE
    /\ orderedCompleted' = orderedCompleted + 1
    /\ UNCHANGED <<utilityVars, toHost, toUtility, unread, reply, waiting, handling,
                   serving, stubs, providerVars, draining, pings, runtime, resolved>>

PostSweep == Post(<<[type |-> "reconcile", held |-> HeldUtilityCallbackIds]>>)

(* Mutant: the token of a pong is not looked at.                           *)
ReceiveAnyPong(k) ==
    /\ ReadyRequests = {}
    /\ Receive("pong", k)
    /\ pings' = pings - 1
    /\ IF OneAtATime
         THEN PostSweep /\ UNCHANGED resolved
         ELSE resolved' = TRUE /\ UNCHANGED toUtility
    /\ UNCHANGED <<serving, orderedCompleted, stubs, providerVars, begun>>

(* Only the pong of the last ping resolves a barrier. The sweep is posted  *)
(* a few microtasks later: before the next message, but after a chunk.     *)
ReceivePong(k) ==
    /\ ReadyRequests = {}
    /\ Receive("pong", k)
    /\ pings' = pings - 1
    /\ IF OneAtATime
         THEN IF pings = 1 THEN PostSweep /\ UNCHANGED resolved
                           ELSE UNCHANGED <<toUtility, resolved>>
         ELSE resolved' = (resolved \/ pings = 1) /\ UNCHANGED toUtility
    /\ UNCHANGED <<serving, orderedCompleted, stubs, providerVars, begun>>

(* It goes out before an ordered call of the chunk is done, which takes    *)
(* more microtasks.                                                        *)
BarrierResolved ==
    /\ resolved
    /\ resolved' = FALSE
    /\ PostSweep
    /\ begun' = FALSE
    /\ orderedCompleted' = orderedCompleted + (IF begun THEN 1 ELSE 0)
    /\ UNCHANGED <<utilityVars, toHost, unread, reply, waiting, handling, serving, stubs,
                   providerVars, draining, pings, runtime>>

(* The reconciliation timer                                                *)
ReconcileUtilityCallbacks ==
    /\ Settled
    /\ draining + pings < MaxBarriers[runtime]
    /\ IF waiting \cup handling = {}
         THEN Post(<<Ping>>) /\ pings' = pings + 1 /\ UNCHANGED draining
         ELSE draining' = draining + 1 /\ UNCHANGED <<toUtility, pings>>
    /\ UNCHANGED <<utilityVars, toHost, unread, reply, requestVars, stubs, providerVars,
                   turnVars>>

(* utilityCallbackFinalizer                                                *)
CollectStub(i) ==
    /\ Settled
    /\ i \in stubs
    /\ stubs' = stubs \ {i}
    /\ Post(<<Release(i)>>)
    /\ UNCHANGED <<utilityVars, toHost, unread, reply, requestVars, providerVars,
                   draining, pings, turnVars>>

(* Mutant: isAvailable is left to the poll, whichever provider it polls.   *)
CollectProviderStream(p) ==
    /\ Settled
    /\ p \in (providers \ {installed}) \cup refused
    /\ providers' = providers \ {p}
    /\ refused' = refused \ {p}
    /\ liveStreams' = liveStreams \ {Stream(p)}
    /\ Post(<<Release(Stream(p))>>)
    /\ idle' = p
    /\ UNCHANGED <<utilityVars, toHost, unread, reply, requestVars, stubs, installed,
                   polled, draining, pings, turnVars>>

(* inferenceProviderFinalizer: no turn holds the provider, nor the plugin  *)
(* instance. The poll may still use isAvailable.                           *)
CollectProvider(p) ==
    /\ Settled
    /\ p \in (providers \ {installed}) \cup refused
    /\ providers' = providers \ {p}
    /\ refused' = refused \ {p}
    /\ liveStreams' = liveStreams \ {Stream(p)}
    /\ IF polled # p
         THEN Post(<<Release(Stream(p)), Release(Fn(p))>>) /\ UNCHANGED idle
         ELSE Post(<<Release(Stream(p))>>) /\ idle' = p
    /\ UNCHANGED <<utilityVars, toHost, unread, reply, requestVars, stubs, installed,
                   polled, draining, pings, turnVars>>

-----------------------------------------------------------------------------
Utility ==
    \/ \E type \in {"invoke", "ordered", "event"} : HandOver(type)
    \/ \E kind \in {"callback", "provider"} : SyncCall(kind)
    \/ UnregisterInferenceProvider
    \/ ReceiveReply
    \/ GiveUp
    \/ HearAdopted \/ HearResult \/ HearRelease \/ HearPing \/ HearReconcile

Collector ==
    \/ \E i \in stubs : CollectStub(i)
    \/ \E p \in providers \cup refused : CollectProvider(p)

Host ==
    \/ ReadRequest
    \/ \E r \in waiting : \/ DecodeCallback(r)
                          \/ RegisterInferenceProvider(r)
                          \/ RefuseInferenceProvider(r)
    \/ \E r \in handling : FinishCallback(r)
    \/ ReceiveInvoke \/ ReceiveOrdered \/ ReceiveUnregister
    \/ \E k \in DOMAIN toHost : ReceiveEvent(k) \/ ReceivePong(k)
    \/ FinishOrdered \/ BarrierResolved
    \/ \E i \in serving : FinishInvoke(i)
    \/ ReconcileUtilityCallbacks

Next == Utility \/ Host \/ Collector

Spec == Init /\ [][Next]_vars

-----------------------------------------------------------------------------
(* Types, and the nesting of the tables: what a request is still named for *)
(* is unadopted, and what is unadopted is alive.                           *)
TypeOK ==
    /\ functions \subseteq Ids /\ unadopted \subseteq functions
    /\ carried \subseteq unadopted
    /\ functionSequence \in NumberOrNone /\ watermark \in 0..functionSequence
    /\ orderedCompleted \in 0..orderedSequence /\ orderedSequence \in 0..MaxOrdered
    /\ toHost \in Seq(ToHostMessages) /\ toUtility \in Seq(ToUtilityMessages)
    /\ unread \in Seq(Requests)
    /\ waiting \subseteq Requests /\ handling \subseteq Requests
    /\ syncing \subseteq Requests /\ Cardinality(syncing) <= 1
    /\ reply \subseteq Replies /\ Cardinality(reply) <= Cardinality(syncing)
    /\ serving \subseteq Ids /\ stubs \subseteq Ids /\ liveStreams \subseteq Ids
    /\ providers \subseteq Numbers /\ refused \subseteq Numbers
    /\ {installed, polled, idle} \subseteq NumberOrNone
    /\ runtime \in Runtimes /\ begun \in BOOLEAN /\ resolved \in BOOLEAN
    /\ OneAtATime => ~begun /\ ~resolved
    /\ draining \in 0..MaxBarriers[runtime] /\ pings \in 0..MaxBarriers[runtime]

(* Ids the host has not decoded yet but may                                *)
UnderWay ==
    {m.id : m \in In(toHost) \ {Unregister, Pong}}
      \cup UNION {IdsOf(r) : r \in In(unread) \cup waiting}

(* Ids the host may call: of its stubs; the streams of the providers it    *)
(* once installed, which a turn may have captured; the one it polls, if it *)
(* belongs to one of these.                                                *)
Callable ==
    stubs \cup {Stream(p) : p \in providers}
      \cup {Fn(p) : p \in providers \cap {polled}}

Released == {m.id : m \in {m \in In(toUtility) : m.type = "release"}}

(* Ids the host will release some day                                      *)
Owned == HeldUtilityCallbackIds \cup UNION {Both(p) : p \in providers \cup refused}

(* No callback is freed under the host: whatever it may call, or may yet   *)
(* decode and call, the utility process still has, and nobody has sent for *)
(* its release. A sweep that overtakes a hand-over, a settlement before an *)
(* adoption, or a finalizer too early would break it. A chunk of node-sea  *)
(* does: see SweptIdsAreOrphans.                                           *)
CallableIdsAreLive ==
    OneAtATime => Callable \cup UnderWay \subseteq functions \ Released

(* What was adopted is out of reach of the settlements and the sweeps: if  *)
(* the host does not own it, and has not sent for its release, the utility *)
(* keeps it for ever.                                                      *)
AdoptedHasAnOwner ==
    functions \ unadopted \subseteq Owned \cup Released

(* Nothing leaks: as long as barriers complete, no id stays for ever in    *)
(* the table when nobody owns it and it is not on its way to the host,     *)
(* whatever became of the messages and the requests around it.             *)
Orphans == functions \ (Owned \cup UnderWay)
BarriersComplete == []<><<PostSweep>>_toUtility
OrphansAreReclaimed == BarriersComplete => \A i \in Ids : []<>(i \notin Orphans)

(* utility-api.ts:486: only on a confirmed rejection did the host never    *)
(* take the ids of a provider. But it polls one of them from before it     *)
(* asks the API.                                                           *)
PolledIdIsLive == polled # 0 => Fn(polled) \in functions

(* utility-transport.ts:686: when the utility process sweeps, "every id we *)
(* sent before the barrier has been fully processed by the host", so that  *)
(* what it sweeps is "provably orphaned": the host neither calls it nor is *)
(* about to decode it.                                                     *)
SweptIdsAreOrphans ==
    toUtility # <<>> /\ Head(toUtility).type = "reconcile" =>
        Swept(Head(toUtility).held) \cap (Callable \cup UnderWay) = {}

=============================================================================
