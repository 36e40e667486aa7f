------------------------- MODULE EventRegistryProps -------------------------
(* What the event registry promises. *)
EXTENDS EventRegistry

(* Every component in range. *)
TypeOK ==
    /\ generation \in 1 .. MaxGeneration /\ online \in BOOLEAN
    /\ declared \in [Slots -> 0 .. MaxGeneration]
    /\ owners \in [Slots -> SUBSET Owners] /\ activeOwners \subseteq Owners
    /\ \A s \in Slots : runtime[s].epoch \in Nat /\ runtime[s].token \in Nat
    /\ handles \subseteq opened
    /\ forsaken \subseteq Slots /\ refused \in BOOLEAN

(* What a reset that the storage refused has left behind: events of the    *)
(* earlier generation, deaf until a reset succeeds.                        *)
LeftBehind(s) == refused /\ fence[s].generation # generation

(* No subscription of the transport outlives its use and none is deaf: an  *)
(* open handle is the stored handle of a slot that has owners, and what    *)
(* arrives on it is heard and passes the fence, whatever errors, resets,   *)
(* unmounts and definitions came during the call that opened it.  Only a   *)
(* reset that was refused leaves handles of the earlier generation.        *)
OpenIsHeard ==
    \A a \in handles : LET s == a.slot  r == runtime[s] IN
        /\ r.stored = Handle(a) /\ owners[s] # {}
        /\ LeftBehind(s) \/ /\ IsCurrentAttempt(r, generation, a)
                            /\ r.fence = fence[s] /\ fence[s].generation = generation

(* A slot that somebody owns is subscribed or will be: a retry timer runs, *)
(* or a listener waits while there is no network.  Only a slot whose       *)
(* caller was told otherwise is left alone.                                *)
OwnedIsServed ==
    calls = <<>> => \A s \in Known \ forsaken : owners[s] # {} /\ ~LeftBehind(s) =>
        LET r == runtime[s] IN
        /\ r.active /\ IsCurrentGeneration(r, generation)
        /\ r.stored.kind = "open" \/ r.timer \/ (r.gate /\ ~online)

(* A payload never has an effect in a generation after the one it was      *)
(* subscribed in, though the handler itself may reset: no commit, no       *)
(* invalidation, no listener.                                              *)
NothingCrossesReset == \A e \in effects : e[2] = e[3]

(* The life cycle reconnects (docs/ingest-live.md): an owned event gets    *)
(* its subscription back after the transport's last error.                 *)
Reconnects ==
    \A s \in Slots :
        (s \in Known /\ owners[s] # {}) ~>
            (owners[s] = {} \/ s \in forsaken \/ LeftBehind(s) \/ runtime[s].stored.kind = "open")
=============================================================================
