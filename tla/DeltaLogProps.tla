--------------------------- MODULE DeltaLogProps ---------------------------
(***************************************************************************)
(* The properties of DeltaLog, and its refinement of DurableStore.         *)
(***************************************************************************)
EXTENDS DeltaLog

Ids == 0..MaxCommits
Deltas == [seq : Nat, tx : Ids, cells : SUBSET Cells]

\* Every variable stays in its type.
TypeOK ==
    /\ pc \in {"down", "idle", "ledger", "delta", "flush"}
    /\ mem \in [Cells -> Ids]
    /\ tx \in [id : Ids, cells : SUBSET Cells]
    /\ deltaSeq \in Nat
    /\ dirtyModels \subseteq Models
    /\ dirtyEntries \subseteq Entries
    /\ pendingDeltas \subseteq Nat
    /\ flushTimer \in BOOLEAN
    /\ coveredSeq \in Int /\ coveredSeq >= -1
    /\ written \subseteq Entries
    /\ snap \in [Cells -> Ids]
    /\ snapseq \in [Models -> Int] /\ \A m \in Models : snapseq[m] >= -1
    /\ log \subseteq Deltas
    /\ ledger \subseteq Ids
    /\ commits \in Ids
    /\ tracked \subseteq Ids
    /\ refused \subseteq Ids
    /\ lastAccepted \in [Cells -> Ids]

(* A commit whose delta was accepted is never lost: whatever the flush was *)
(* doing when the process died, and whichever writes the storage refused   *)
(* before or after, a boot shows each of its cells as it left them or as a *)
(* later commit did.  The header of transaction.ts: "a kill at any later   *)
(* point finds the commit on disk".                                        *)
AcceptedCommitsSurvive == \A c \in Cells : Recovered[c] >= lastAccepted[c]

(* While the process lives, a kill would lose nothing but commits whose    *)
(* delta the storage refused ("the next successful flush covers the state  *)
(* without the delta", persistCommit).                                     *)
OnlyRefusedIsVolatile ==
    pc # "down" => \A c \in Cells : mem[c] = Recovered[c] \/ mem[c] \in refused

(* A row never outlives its ledger record: a commit that carries operation *)
(* transitions shows up after a boot only when dbl:ops holds them, because *)
(* persistCommit writes the ledger before the delta.  Otherwise an         *)
(* optimistic row would come back without the operation that can undo it.  *)
LedgerPrecedesRows == \A c \in Cells : Recovered[c] \in tracked => Recovered[c] \in ledger

(* What a boot would show moves forward only: no flush, refusal, kill or   *)
(* replay brings an older write of a cell back over a newer one that a     *)
(* boot had already been able to show.                                     *)
RecoveryMovesForward == [][\A c \in Cells : Recovered'[c] >= Recovered[c]]_vars

(* The compaction terminates: once a flush is scheduled and the process is *)
(* not killed, the snapshots catch up and every delta is deleted.          *)
CompactionDrains == flushTimer ~> (pc = "down" \/ (dirtyModels = {} /\ log = {}))

(* With no delta refused, the durable store moves by whole commits only:   *)
(* flushes, kills and boots are invisible in it.                           *)
Durable == INSTANCE DurableStore WITH durable <- Recovered
CommitsAreAtomic == Durable!Spec

-----------------------------------------------------------------------------
(* The inductive invariant behind the properties above.                    *)

\* The counter of a live process is ahead of everything on disk.
CounterAhead ==
    pc # "down" => /\ \A d \in log : d.seq < deltaSeq
                   /\ \A m \in Models : snapseq[m] < deltaSeq
                   /\ deltaSeq <= commits

\* Sequence numbers and cell contents name commits that have begun.
Issued ==
    /\ \A d \in log : d.seq < commits /\ d.tx <= commits
    /\ \A m \in Models : snapseq[m] < commits
    /\ \A c \in Cells : mem[c] <= commits /\ snap[c] <= commits
    /\ \A t \in tracked : 0 < t /\ t <= commits

\* The commit in progress is newer than everything there is.
CommitIsNewest ==
    pc \in {"ledger", "delta"} =>
        /\ tx.id = commits
        /\ deltaSeq < commits
        /\ \A d \in log : d.tx < commits
        /\ \A c \in Cells : mem[c] < commits /\ snap[c] < commits

\* The flush covers all there is, and has a current model only while it runs.
FlushCovers ==
    /\ pc = "flush" => coveredSeq = deltaSeq - 1
    /\ pc # "flush" => written = {}
    /\ \A e \in written : ModelOf[e] \in dirtyModels

\* A clean entry, or one the flush has written, equals the memory.
SavedOrDirty ==
    pc # "down" => \A c \in Cells :
        (EntryOf[c] \notin dirtyEntries \/ EntryOf[c] \in written) => snap[c] = mem[c]

\* The memory is what a boot would show, or a refused commit newer than that.
MemoryAhead ==
    pc # "down" => \A c \in Cells :
        /\ Recovered[c] <= mem[c]
        /\ mem[c] = Recovered[c] \/ mem[c] \in refused

\* Wherever a commit with transitions has left a trace, the ledger has it too.
Ledgered(t) == t \in tracked => t \in ledger
LedgerFirst ==
    /\ \A d \in log : Ledgered(d.tx)
    /\ \A c \in Cells : Ledgered(mem[c]) /\ Ledgered(snap[c])
    /\ pc = "delta" => Ledgered(tx.id)

\* Only storage that may refuse a delta refuses one.
RefusedOnlyIfRefusable == "delta" \notin Refusable => refused = {}

(* The conjunction is preserved by every step; each property above follows *)
(* from it.                                                                *)
IInv ==
    /\ TypeOK
    /\ CounterAhead
    /\ Issued
    /\ CommitIsNewest
    /\ FlushCovers
    /\ SavedOrDirty
    /\ MemoryAhead
    /\ LedgerFirst
    /\ AcceptedCommitsSurvive
    /\ RefusedOnlyIfRefusable

=============================================================================
