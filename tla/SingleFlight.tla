---------------------------- MODULE SingleFlight ----------------------------
(***************************************************************************)
(* The two wrappers of utils/singleFlight.ts: calls share the flight that  *)
(* stands in the slot, or start one.  createSingleFlight clears the slot   *)
(* only of its own flight; createThrottledSingleFlight also turns calls    *)
(* away for a while after a success.                                       *)
(*                                                                         *)
(* A settled task reaches the slot in two turns of the microtask queue:    *)
(* `then' notes a success, `finally' clears the slot.  Calls and a runtime *)
(* reset may come between.  A task runs asynchronously: it neither calls   *)
(* its wrapper nor resets the runtime before it returns its promise.       *)
(***************************************************************************)
EXTENDS Integers, Sequences

CONSTANTS MinInterval,  \* options.minIntervalMs
          MaxTime,      \* bound on the clock
          MaxFlights,   \* bound on the executions of the task
          MaxResets     \* bound on runtime resets

ASSUME IntervalAssumption == MinInterval \in Nat \ {0} /\ {MaxTime, MaxFlights, MaxResets} \subseteq Nat

VARIABLES throttled,    \* which of the two wrappers this is
          registered,   \* options.resetOnRuntimeReset
          generation,   \* runtime resets so far
          now,          \* Date.now(), which starts far from zero
          flights,      \* the executions of the task, in the order of their starts
          inFlight,     \* the slot: a flight, or 0
          lastSuccessAt
flightVars == <<throttled, registered, generation, now, flights, inFlight, lastSuccessAt>>

Never == -1
Flight(stage) == [generation |-> generation, stage |-> stage, succeeded |-> Never]

FlightInit ==
    /\ throttled \in BOOLEAN /\ registered \in BOOLEAN
    /\ generation = 0 /\ now = MinInterval
    /\ flights = <<>> /\ inFlight = 0 /\ lastSuccessAt = 0

Suppressed(forced) == throttled /\ ~forced /\ now - lastSuccessAt < MinInterval

(* A call starts the task.  A throttled task that throws at once counts as *)
(* a flight that has failed; otherwise the exception leaves no trace.      *)
Start(forced, stage) ==
    /\ inFlight = 0 /\ ~Suppressed(forced)
    /\ stage = "failed" => throttled
    /\ Len(flights) < MaxFlights
    /\ flights' = Append(flights, Flight(stage))
    /\ inFlight' = Len(flights')
    /\ UNCHANGED <<throttled, registered, generation, now, lastSuccessAt>>

\* Mutated Succeed: only the flight in the slot notes its success.
SucceedOfCurrent(f) ==
    /\ flights[f].stage = "running"
    /\ flights' = [flights EXCEPT ![f].stage = "succeeded", ![f].succeeded = now]
    /\ lastSuccessAt' = IF throttled /\ inFlight = f THEN now ELSE lastSuccessAt
    /\ UNCHANGED <<throttled, registered, generation, now, inFlight>>

(* The promise of the task settles: `then' or `catch' has run.             *)
Succeed(f) ==
    /\ flights[f].stage = "running"
    /\ flights' = [flights EXCEPT ![f].stage = "succeeded", ![f].succeeded = now]
    /\ lastSuccessAt' = IF throttled THEN now ELSE lastSuccessAt
    /\ UNCHANGED <<throttled, registered, generation, now, inFlight>>

Fail(f) ==
    /\ flights[f].stage = "running"
    /\ flights' = [flights EXCEPT ![f].stage = "failed"]
    /\ UNCHANGED <<throttled, registered, generation, now, inFlight, lastSuccessAt>>

\* Mutated Cleared: the slot is cleared of whatever flight is in it.
ClearedAlways(f) == 0

Cleared(f) == IF throttled \/ inFlight = f THEN 0 ELSE inFlight

Finish(f) ==
    /\ flights[f].stage \in {"succeeded", "failed"}
    /\ flights' = [flights EXCEPT ![f].stage = "settled"]
    /\ inFlight' = Cleared(f)
    /\ UNCHANGED <<throttled, registered, generation, now, lastSuccessAt>>

ResetRuntime ==
    /\ generation < MaxResets
    /\ generation' = generation + 1
    /\ inFlight' = IF registered THEN 0 ELSE inFlight
    /\ lastSuccessAt' = IF registered THEN 0 ELSE lastSuccessAt
    /\ UNCHANGED <<throttled, registered, now, flights>>

Tick ==
    /\ now < MaxTime
    /\ now' = now + 1
    /\ UNCHANGED <<throttled, registered, generation, flights, inFlight, lastSuccessAt>>

FlightNext ==
    \/ \E forced \in BOOLEAN, stage \in {"running", "failed"} : Start(forced, stage)
    \/ \E f \in DOMAIN flights : Succeed(f) \/ Fail(f) \/ Finish(f)
    \/ ResetRuntime
    \/ Tick

FlightSpec == FlightInit /\ [][FlightNext]_flightVars

=============================================================================
