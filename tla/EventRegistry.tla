--------------------------- MODULE EventRegistry ---------------------------
(***************************************************************************)
(* Model events and their subscriptions (core/modelEventRegistry.ts over   *)
(* core/subscriptionLifecycle.ts): slots with the owners that mounted      *)
(* useDbSubscriptions, the transport that may deliver, fail or throw at    *)
(* any time, also from inside subscribe, the connectivity, the deliveries  *)
(* with the application code they run, and resets, also from that code.    *)
(*                                                                         *)
(* JavaScript runs one call at a time: `calls' is the stack of calls in    *)
(* progress, topmost first.  A frame is a point where foreign code runs;   *)
(* the stretches between two such points are single steps.                 *)
(***************************************************************************)
EXTENDS SubscriptionLifecycle, Sequences

CONSTANTS
    Slots,          \* the model events of the application
    Debounced,      \* those declared with a debounce
    Owners,         \* the mounted useDbSubscriptions
    MaxGeneration,  \* bound on the generations, from 1
    MaxMounts,      \* bound on the mounts and registrations
    MaxEvents,      \* bound on the payloads
    MaxErrors,      \* bound on the transport's errors
    MaxThrows,      \* bound on the calls of subscribe that throw
    MaxFlips        \* bound on the losses of connectivity

ASSUME SlotAssumption == Debounced \subseteq Slots
ASSUME CountAssumption ==
    /\ MaxGeneration \in Nat /\ MaxMounts \in Nat /\ MaxEvents \in Nat
    /\ MaxErrors \in Nat /\ MaxThrows \in Nat /\ MaxFlips \in Nat

VARIABLES
    generation,  \* of the runtime
    online,
    declared,    \* per slot: the generation its declaration was made in, 0 for none
    fence,       \* per slot: the identity and generation of its fence
    activeOwners,
    owners,      \* per slot
    runtime,     \* per slot
    calls,
    made,        \* per slot: fences and runtimes made so far
    (* the transport *)
    opened,      \* every attempt it accepted
    handles,     \* those not closed
    (* bounds and history *)
    spent,       \* mounts, events, errors, throws and flips so far
    effects,     \* kind, generation of the attempt and of the effect
    forsaken,    \* slots whose caller has been told that they are not served
    refused      \* the storage refused the last reset

registry  == <<declared, fence, activeOwners, owners, made>>
transport == <<opened, handles>>
vars      == <<generation, online, registry, runtime, calls, transport, spent, effects, forsaken, refused>>

Init ==
    /\ generation = 1 /\ online = TRUE
    /\ declared = [s \in Slots |-> 0] /\ fence = [s \in Slots |-> NoFence]
    /\ activeOwners = {} /\ owners = [s \in Slots |-> {}] /\ made = [s \in Slots |-> 0]
    /\ runtime = [s \in Slots |-> NoRuntime]
    /\ calls = <<>>
    /\ opened = {} /\ handles = {}
    /\ spent = [mounts |-> 0, events |-> 0, errors |-> 0, throws |-> 0, flips |-> 0]
    /\ effects = {} /\ forsaken = {} /\ refused = FALSE

Known       == {s \in Slots : declared[s] # 0}
Within(kind) == calls # <<>> /\ Head(calls).kind = kind
Spend(what, max) == spent[what] < max /\ spent' = [spent EXCEPT ![what] = @ + 1]

(* A slot's runtime, created when there is none.                           *)
RuntimeOf(s, f) == IF runtime[s] = NoRuntime THEN Fresh(made[s] + 1, f) ELSE runtime[s]

(* subscribeEntry, up to the call of the transport.                        *)
Subscribe(s, r, by, below) ==
    /\ runtime' = [runtime EXCEPT ![s] = Opening(r)]
    /\ opened' = opened \cup {Attempt(s, Opening(r))}
    /\ calls' = <<[kind |-> "subscribe", attempt |-> Attempt(s, Opening(r)), by |-> by]>> \o below

(* activateSlot: setActive(true), which does nothing for a runtime that is *)
(* active in this generation.  It keeps the fence the runtime was made     *)
(* with, whatever generation that is of.                                   *)
ActivateSlot(s, r, by, below) ==
    IF r.active /\ IsCurrentGeneration(r, generation)
    THEN calls' = below /\ UNCHANGED <<runtime, opened, handles, forsaken>>
    ELSE /\ Subscribe(s, Activated(r, generation), by, below)
         /\ handles' = handles \ Released(r)
         /\ forsaken' = forsaken \ {s}

(* stopSlot for a set of slots.                                            *)
StopSlots(S) ==
    /\ runtime' = [s \in Slots |-> IF s \in S THEN NoRuntime ELSE runtime[s]]
    /\ handles' = handles \ UNION {Released(runtime[s]) : s \in S}

-----------------------------------------------------------------------------
(* useDbSubscriptions mounts: the token joins every slot, one activation   *)
(* after the other.                                                        *)
Acquire(o) ==
    /\ calls = <<>> /\ o \notin activeOwners
    /\ Spend("mounts", MaxMounts)
    /\ activeOwners' = activeOwners \cup {o}
    /\ calls' = <<[kind |-> "acquire", owner |-> o, todo |-> Known]>>
    /\ UNCHANGED <<generation, online, declared, fence, owners, made, runtime, transport, effects, forsaken, refused>>

AcquireSlot ==
    /\ Within("acquire")
    /\ LET call == Head(calls) IN \E s \in call.todo :
        /\ owners' = [owners EXCEPT ![s] = @ \cup {call.owner}]
        /\ ActivateSlot(s, RuntimeOf(s, fence[s]), "acquire",
                        <<[call EXCEPT !.todo = @ \ {s}]>> \o Tail(calls))
        /\ made' = [made EXCEPT ![s] = @ + (IF runtime[s] = NoRuntime THEN 1 ELSE 0)]
    /\ UNCHANGED <<generation, online, declared, fence, activeOwners, spent, effects, refused>>

(* releaseOwner, at the unmount or after an acquisition that failed: slots *)
(* that lose their last owner stop.                                        *)
ReleaseOwner(o) ==
    /\ activeOwners' = activeOwners \ {o}
    /\ owners' = [s \in Slots |-> owners[s] \ {o}]

Release(o) ==
    /\ calls = <<>> /\ o \in activeOwners
    /\ ReleaseOwner(o)
    /\ StopSlots({s \in Slots : owners[s] = {o}})
    /\ forsaken' = forsaken \ {s \in Slots : owners[s] = {o}}
    /\ UNCHANGED <<generation, online, declared, fence, calls, made, opened, spent, effects, refused>>

(* registerModelEvent: once per generation; a slot that exists is stopped  *)
(* and gets a new fence, a new one the owners mounted so far.              *)
Register(s) ==
    /\ calls = <<>> \/ Within("reset")
    /\ declared[s] # generation
    /\ Spend("mounts", MaxMounts)
    /\ declared' = [declared EXCEPT ![s] = generation]
    /\ LET f   == [id |-> made[s] + 1, generation |-> generation]
           own == IF declared[s] = 0 THEN activeOwners ELSE owners[s] IN
        /\ fence' = [fence EXCEPT ![s] = f]
        /\ owners' = [owners EXCEPT ![s] = own]
        /\ IF own = {}
           THEN StopSlots({s}) /\ UNCHANGED <<calls, opened, forsaken>>
           ELSE /\ Subscribe(s, Activated(Fresh(made[s] + 1, f), generation), "register", calls)
                /\ handles' = handles \ Released(runtime[s])
                /\ forsaken' = forsaken \ {s}
    /\ made' = [made EXCEPT ![s] = @ + 1]
    /\ UNCHANGED <<generation, online, activeOwners, effects, refused>>

-----------------------------------------------------------------------------
(* transport.subscribe returns: the handle of an attempt that was replaced *)
(* or ended during the call is closed at once.                             *)
SubscribeReturns ==
    /\ Within("subscribe")
    /\ LET a == Head(calls).attempt  r == runtime[a.slot] IN
        IF Keeps(r, generation, a)
        THEN /\ runtime' = [runtime EXCEPT ![a.slot].stored = Handle(a)]
             /\ handles' = handles \cup {a}
        ELSE UNCHANGED <<runtime, handles>>
    /\ calls' = Tail(calls)
    /\ UNCHANGED <<generation, online, registry, opened, spent, effects, forsaken, refused>>

(* It throws.  An activation stops the slot and tells its caller: the      *)
(* mount, which gives its owner up; the definition; or the reset, which    *)
(* goes on with the other slots.  A throw from a timer or a connectivity   *)
(* listener reaches nobody, and nothing is scheduled.                      *)
SubscribeThrows ==
    /\ Within("subscribe")
    /\ Spend("throws", MaxThrows)
    /\ LET a == Head(calls).attempt  by == Head(calls).by  r == runtime[a.slot]
           below == Tail(calls) IN
        \/ /\ by = "acquire"
           /\ LET o == Head(below).owner IN
               /\ ReleaseOwner(o)
               /\ StopSlots({a.slot} \cup {s \in Slots : owners[s] = {o}})
               /\ forsaken' = (forsaken \cup {a.slot}) \ {s \in Slots : owners[s] \subseteq {o}}
           /\ calls' = Tail(below)
        \/ /\ by \in {"register", "restart"}
           /\ StopSlots({a.slot})
           /\ forsaken' = forsaken \cup {a.slot}
           /\ calls' = below
           /\ UNCHANGED <<activeOwners, owners>>
        \/ /\ by = "retry"
           /\ IF Keeps(r, generation, a)
              THEN /\ runtime' = [runtime EXCEPT ![a.slot].stored = NoHandle]
                   /\ forsaken' = forsaken \cup {a.slot}
              ELSE UNCHANGED <<runtime, forsaken>>
           /\ calls' = below
           /\ UNCHANGED <<activeOwners, owners, handles>>
    /\ UNCHANGED <<generation, online, declared, fence, made, opened, effects, refused>>

(* A payload arrives for an attempt, also for one that is long closed and  *)
(* also inside subscribe: it is heard when the attempt is the current one. *)
TransportNext(a) ==
    LET r == runtime[a.slot] IN
    /\ calls = <<>> \/ Within("subscribe")
    /\ IsCurrentAttempt(r, generation, a) /\ r.stored # NoHandle
    /\ Spend("events", MaxEvents)
    /\ IF a.slot \in Debounced
       THEN runtime' = [runtime EXCEPT ![a.slot].held = a.opened] /\ UNCHANGED calls
       ELSE /\ calls' = <<[kind |-> "deliver", slot |-> a.slot, fence |-> r.fence,
                           opened |-> a.opened, step |-> "plan"]>> \o calls
            /\ UNCHANGED runtime
    /\ UNCHANGED <<generation, online, registry, transport, effects, forsaken, refused>>

(* The debounce of a slot fires: the runtime's fence alone decides.        *)
DebounceFires(s) ==
    /\ calls = <<>> /\ runtime[s].held # 0
    /\ runtime' = [runtime EXCEPT ![s].held = 0]
    /\ calls' = IF IsCurrentGeneration(runtime[s], generation)
                THEN <<[kind |-> "deliver", slot |-> s, fence |-> runtime[s].fence,
                        opened |-> runtime[s].held, step |-> "plan"]>>
                ELSE <<>>
    /\ UNCHANGED <<generation, online, registry, transport, spent, effects, forsaken, refused>>

\* Mutated Fenced: the fence is asked for its identity alone.
FencedById(call) == fence[call.slot] = call.fence

(* deliver: plan, commit, invalidations, listeners.  Application code runs *)
(* in each, so the fence is asked again between them.                      *)
Fenced(call) == fence[call.slot] = call.fence /\ call.fence.generation = generation
NextStep == [plan |-> "commit", commit |-> "invalidate", invalidate |-> "notify"]

DeliverStep ==
    /\ Within("deliver") /\ Head(calls).step # "notify"
    /\ LET call == Head(calls)  step == NextStep[call.step] IN
        IF Fenced(call)
        THEN /\ effects' = effects \cup {<<step, call.opened, generation>>}
             /\ calls' = <<[call EXCEPT !.step = step]>> \o Tail(calls)
        ELSE calls' = Tail(calls) /\ UNCHANGED effects
    /\ UNCHANGED <<generation, online, registry, runtime, transport, spent, forsaken, refused>>

DeliverEnds ==
    /\ Within("deliver") /\ Head(calls).step = "notify"
    /\ calls' = Tail(calls)
    /\ UNCHANGED <<generation, online, registry, runtime, transport, spent, effects, forsaken, refused>>

-----------------------------------------------------------------------------
(* The transport reports an error on the current attempt: the handle is    *)
(* closed and a retry waits for a timer, or for connectivity.              *)
TransportError(a) ==
    LET r == runtime[a.slot] IN
    /\ calls = <<>> \/ Within("subscribe")
    /\ IsCurrentAttempt(r, generation, a) /\ r.stored # NoHandle
    /\ Spend("errors", MaxErrors)
    /\ runtime' = [runtime EXCEPT ![a.slot] = Failing(r, online)]
    /\ handles' = handles \ Released(r)
    /\ UNCHANGED <<generation, online, registry, calls, opened, effects, forsaken, refused>>

RetryTimer(s) ==
    /\ calls = <<>> /\ runtime[s].timer
    /\ LET r == [runtime[s] EXCEPT !.timer = FALSE] IN
        IF Subscribable(r, generation)
        THEN Subscribe(s, r, "retry", calls)
        ELSE runtime' = [runtime EXCEPT ![s] = r] /\ UNCHANGED <<opened, calls>>
    /\ UNCHANGED <<generation, online, registry, handles, spent, effects, forsaken, refused>>

LoseNetwork ==
    /\ calls = <<>> /\ online /\ Spend("flips", MaxFlips)
    /\ online' = FALSE
    /\ UNCHANGED <<generation, registry, runtime, calls, transport, effects, forsaken, refused>>

\* Mutated RegainNetwork: the first listener consumes the change.
RegainOne ==
    /\ calls = <<>> /\ ~online
    /\ online' = TRUE
    /\ \E s \in Slots : runtime[s].gate /\ calls' = <<[kind |-> "network", todo |-> {s}]>>
    /\ UNCHANGED <<generation, registry, runtime, transport, spent, effects, forsaken, refused>>

(* Connectivity returns: the waiting entries are called one by one, those  *)
(* that still wait when their turn comes.                                  *)
RegainNetwork ==
    /\ calls = <<>> /\ ~online
    /\ online' = TRUE
    /\ calls' = <<[kind |-> "network", todo |-> {s \in Slots : runtime[s].gate}]>>
    /\ UNCHANGED <<generation, registry, runtime, transport, spent, effects, forsaken, refused>>

NetworkSlot ==
    /\ Within("network")
    /\ \E s \in Head(calls).todo :
        LET below == <<[Head(calls) EXCEPT !.todo = @ \ {s}]>> \o Tail(calls)
            r     == [runtime[s] EXCEPT !.gate = FALSE] IN
        IF runtime[s].gate /\ Subscribable(r, generation)
        THEN Subscribe(s, r, "retry", below)
        ELSE /\ runtime' = [runtime EXCEPT ![s] = r]
             /\ calls' = below /\ UNCHANGED opened
    /\ UNCHANGED <<generation, online, registry, handles, spent, effects, forsaken, refused>>

LoopEnds ==
    /\ calls # <<>> /\ Head(calls).kind \in {"acquire", "network", "restart"}
    /\ Head(calls).todo = {}
    /\ calls' = Tail(calls)
    /\ UNCHANGED <<generation, online, registry, runtime, transport, spent, effects, forsaken, refused>>

-----------------------------------------------------------------------------
(* resetRuntime, also from application code: a runtime of an earlier       *)
(* generation resets itself.  Not from inside the restart of another       *)
(* reset.  `refuses': the storage refuses the intent, and the reset ends   *)
(* with the generation advanced and nothing else done.                     *)
ResetRuntime(refuses) ==
    /\ calls = <<>> \/ Within("deliver")
    /\ \A i \in DOMAIN calls : calls[i].kind # "restart"
    /\ generation < MaxGeneration
    /\ generation' = generation + 1
    /\ refused' = refuses
    /\ IF refuses
       THEN UNCHANGED <<runtime, handles, calls>>
       ELSE /\ LET stale == {s \in Slots : ~IsCurrentGeneration(runtime[s], generation')} IN
                /\ runtime' = [s \in Slots |-> IF s \in stale THEN Stopped(runtime[s]) ELSE runtime[s]]
                /\ handles' = handles \ UNION {Released(runtime[s]) : s \in stale}
            /\ calls' = <<[kind |-> "reset"]>> \o calls
    /\ UNCHANGED <<online, registry, opened, spent, effects, forsaken>>

\* Mutated Restart: the runtimes the resetters left are kept.
RestartWithoutStop ==
    /\ Within("reset")
    /\ calls' = <<[kind |-> "restart", todo |-> Known]>> \o Tail(calls)
    /\ UNCHANGED <<generation, online, registry, runtime, transport, spent, effects, forsaken, refused>>

(* restartModelEventRegistry: every slot stops, then each gets a new fence *)
(* and is activated for the owners it has.                                 *)
Restart ==
    /\ Within("reset")
    /\ StopSlots(Slots)
    /\ calls' = <<[kind |-> "restart", todo |-> Known]>> \o Tail(calls)
    /\ UNCHANGED <<generation, online, registry, opened, spent, effects, forsaken, refused>>

RestartSlot ==
    /\ Within("restart")
    /\ \E s \in Head(calls).todo :
        LET f     == [id |-> made[s] + 1, generation |-> generation]
            below == <<[Head(calls) EXCEPT !.todo = @ \ {s}]>> \o Tail(calls) IN
        /\ fence' = [fence EXCEPT ![s] = f]
        /\ IF owners[s] = {}
           THEN calls' = below /\ UNCHANGED <<runtime, opened, handles, forsaken>>
           ELSE ActivateSlot(s, RuntimeOf(s, f), "restart", below)
        /\ made' = [made EXCEPT ![s] = @ + 1]
    /\ UNCHANGED <<generation, online, declared, activeOwners, owners, spent, effects, refused>>

-----------------------------------------------------------------------------
(* What happens by itself, and what others do.                             *)
Runs ==
    \/ AcquireSlot \/ RestartSlot \/ Restart \/ NetworkSlot \/ LoopEnds
    \/ SubscribeReturns \/ DeliverStep \/ DeliverEnds

Next ==
    \/ Runs \/ SubscribeThrows
    \/ \E o \in Owners : Acquire(o) \/ Release(o)
    \/ \E s \in Slots : Register(s) \/ DebounceFires(s) \/ RetryTimer(s)
    \/ \E a \in opened : TransportNext(a) \/ TransportError(a)
    \/ LoseNetwork \/ RegainNetwork
    \/ \E refuses \in BOOLEAN : ResetRuntime(refuses)

(* A synchronous call ends, a timer fires, and connectivity is regained.   *)
Fairness ==
    /\ WF_vars(Runs) /\ WF_vars(RegainNetwork)
    /\ \A s \in Slots : WF_vars(RetryTimer(s))

Spec == Init /\ [][Next]_vars /\ Fairness
=============================================================================
