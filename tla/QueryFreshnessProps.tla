------------------------ MODULE QueryFreshnessProps ------------------------
(* What a remote relation promises of its freshness. *)
EXTENDS QueryFreshness

(* Every component in range. *)
TypeOK ==
    /\ memory.seq \in Nat /\ memory.applied \in 0 .. memory.issued
    /\ memory.chain.pages \in 0 .. Pages /\ memory.chain.ids \subseteq 1 .. Pages
    /\ disk.mark \in 0 .. disk.revision
    /\ disk.gone \subseteq disk.landed /\ disk.landed \subseteq 1 .. Pages

(* With nothing in the air, a chain that is not flagged was asked for      *)
(* after the last invalidation: no answer that predates one is taken for   *)
(* fresh.  Only an overtaken answer breaks this.                           *)
FreshIsAsked ==
    memory.flight = NoFlight /\ memory.chain # NoChain /\ ~memory.invalidated
        => lapses # {} \/ memory.chain.last = memory.told

(* The same of a restart: a record that would be restored as fresh was     *)
(* asked for after the last invalidation, whatever was in the air when it  *)
(* was told or written.                                                    *)
StoredIsReread ==
    LET record == disk.record IN
    record # NoRecord /\ ~record.invalidated /\ disk.mark <= record.revision
        => lapses # {} \/ record.chain.last = memory.told

(* While the query is registered for losses and nothing is in the air, its *)
(* chain lists no row that is gone, unless the loss came during a fetch    *)
(* that then succeeded.                                                    *)
LossIsNoticed ==
    reconciling /\ memory.flight = NoFlight => memory.chain.ids \intersect disk.gone \subseteq late

(* An invalidation told to a mounted reader is served by the fetches it    *)
(* starts or joins, unless one fails or the reader goes.                   *)
InvalidationIsServed == ~excused ~> (excused \/ "overtaken" \in lapses \/ memory.chain.last = memory.told)
=============================================================================
