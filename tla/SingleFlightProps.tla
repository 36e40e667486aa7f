------------------------- MODULE SingleFlightProps -------------------------
(* What the wrappers of utils/singleFlight.ts promise their callers. *)
EXTENDS SingleFlight

Stages == {"running", "succeeded", "failed", "settled"}

Flights == [generation : Nat, stage : Stages, succeeded : Nat \cup {Never}]

(* Every component in range. *)
FlightTypeOK ==
    /\ throttled \in BOOLEAN /\ registered \in BOOLEAN
    /\ generation \in Nat /\ now \in Nat /\ lastSuccessAt \in Nat
    /\ flights \in Seq(Flights)
    /\ inFlight \in 0 .. Len(flights)

(* What a reset separates: flights of different generations, if the        *)
(* wrapper is registered for resets.                                       *)
SameEra(g, h) == registered => g = h

(* Of one era at most one execution of the task runs. *)
Alone ==
    \A f, g \in DOMAIN flights :
        /\ flights[f].stage = "running" /\ flights[g].stage = "running"
        /\ SameEra(flights[f].generation, flights[g].generation)
        => f = g

(* Concurrent callers share one execution: a flight of before a reset      *)
(* that settles later does not open the slot of the one that replaced it.  *)
(* The throttled wrapper keeps this only while no reset clears its slot.   *)
OneAtATime == ~(throttled /\ registered) => Alone

(* After a reset no call is answered by an execution of before it.         *)
SlotIsCurrent == inFlight # 0 => SameEra(flights[inFlight].generation, generation)

(* Whatever flights settled in between and in which order, an unforced     *)
(* call of a throttled task is turned away until MinInterval after every   *)
(* success of its era.                                                     *)
IntervalHolds ==
    throttled =>
        \A f \in DOMAIN flights :
            /\ flights[f].succeeded # Never
            /\ SameEra(flights[f].generation, generation)
            /\ now - flights[f].succeeded < MinInterval
            => Suppressed(FALSE)

=============================================================================
