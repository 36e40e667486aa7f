----------------------- MODULE SubscriptionLifecycle -----------------------
(***************************************************************************)
(* The life cycle of one subscription (core/subscriptionLifecycle.ts): the *)
(* state a runtime keeps for its entry, as a record, and what its          *)
(* functions make of it.  The registry gives every runtime exactly one     *)
(* entry.  EventRegistry holds the runtimes and takes the steps.           *)
(*                                                                         *)
(* An attempt is one call of transport.subscribe; its callbacks carry the  *)
(* epoch and the token it was made under.  Back-off is a timer that fires  *)
(* at some time; counters that only inspect() shows are left out.          *)
(***************************************************************************)
EXTENDS Naturals

NoHandle    == [kind |-> "none"]
Placeholder == [kind |-> "opening"]
Handle(a)   == [kind |-> "open", attempt |-> a]

(* `captured' is 0 while the lazy fence has captured no generation; `held' *)
(* is the generation a debounced payload arrived in, 0 without one.        *)
Fresh(id, fence) ==
    [id |-> id, fence |-> fence, active |-> FALSE, epoch |-> 0, token |-> 0, captured |-> 0,
     stored |-> NoHandle, timer |-> FALSE, gate |-> FALSE, held |-> 0]
NoFence   == [id |-> 0, generation |-> 0]
NoRuntime == Fresh(0, NoFence)

Attempt(s, r) == [slot |-> s, runtime |-> r.id, epoch |-> r.epoch, token |-> r.token, opened |-> r.captured]

IsCurrentGeneration(r, generation) == r.captured \in {0, generation}
IsCurrentAttempt(r, generation, a) ==
    /\ a.runtime = r.id /\ r.active /\ IsCurrentGeneration(r, generation)
    /\ a.epoch = r.epoch /\ a.token = r.token

(* The transport handle a runtime gives back when it lets go of `stored'.  *)
Released(r) == IF r.stored.kind = "open" THEN {r.stored.attempt} ELSE {}

WithoutWait(r) == [r EXCEPT !.timer = FALSE, !.gate = FALSE]
Deactivated(r) == [WithoutWait(r) EXCEPT !.held = 0, !.stored = NoHandle]
Stopped(r)     == [Deactivated(r) EXCEPT !.active = FALSE, !.epoch = @ + 1]
Activated(r, generation) ==
    [(IF r.active THEN Deactivated(r) ELSE r) EXCEPT
        !.active = TRUE, !.epoch = @ + 1, !.captured = generation]

Subscribable(r, generation) == r.active /\ IsCurrentGeneration(r, generation) /\ r.stored = NoHandle
Opening(r) == [WithoutWait(r) EXCEPT !.token = @ + 1, !.stored = Placeholder]

(* The handle is kept only while nothing has replaced or ended the attempt *)
(* during the call.                                                        *)
Keeps(r, generation, a) == IsCurrentAttempt(r, generation, a) /\ r.stored = Placeholder

\* Mutated Failing: a retry without a network is dropped.
FailingTimed(r, online) == [WithoutWait(r) EXCEPT !.stored = NoHandle, !.timer = online]

(* An error: a retry on a timer, or behind the gate while offline.         *)
Failing(r, online) ==
    [WithoutWait(r) EXCEPT !.stored = NoHandle, !.timer = online, !.gate = ~online]
=============================================================================
