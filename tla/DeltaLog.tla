------------------------------ MODULE DeltaLog ------------------------------
(***************************************************************************)
(* Durability of the apply runtime (core/apply/transaction.ts and          *)
(* deltaLog.ts): every commit writes one atomic delta, snapshots compact   *)
(* the deltas afterwards, and boot replays the deltas no snapshot covers.  *)
(*                                                                         *)
(* The code is single threaded and its storage is synchronous, so the only *)
(* interleaving is with the operating system: the process may be killed    *)
(* between any two storage writes, and a write may be refused (it throws). *)
(* Each storage write is therefore an action, and pc says where in the     *)
(* synchronous call the runtime stands.                                    *)
(*                                                                         *)
(* Data abstraction.  A cell is the smallest thing a delta overwrites: a   *)
(* row, a tombstone, or the membership of one id in one scope.  An entry   *)
(* is a storage key of a model snapshot and holds one or more cells.  The  *)
(* content of a cell is the number of the commit that wrote it, 0 for a    *)
(* cell nobody has written: full rows and idempotent scope operations make *)
(* the last writer the whole story.                                        *)
(***************************************************************************)
EXTENDS Integers, FiniteSets

CONSTANTS
    Models,      \* the models with an apply target
    Entries,     \* storage keys of the model snapshots (rows, tombstones, scopes)
    Cells,       \* what one operation of a delta overwrites
    ModelOf,     \* the model an entry belongs to
    EntryOf,     \* the entry a cell is stored in
    WriteSets,   \* the sets of cells a commit may write
    Refusable,   \* which writes the storage may refuse: "ledger", "delta", "snapshot"
    MaxCommits   \* bound on the number of commits

ASSUME LayoutAssumption ==
    /\ ModelOf \in [Entries -> Models]
    /\ EntryOf \in [Cells -> Entries]
    /\ WriteSets \subseteq SUBSET Cells
ASSUME BoundAssumption ==
    /\ MaxCommits \in Nat
    /\ Refusable \subseteq {"ledger", "delta", "snapshot"}

VARIABLES
    (* the process: everything here dies with it *)
    pc,             \* "down", "idle", or the write the current call performs next
    mem,            \* the in-memory planes
    tx,             \* the commit in progress
    deltaSeq,       \* sequence number of the next delta
    dirtyModels,    \* models whose snapshot is behind the memory
    dirtyEntries,   \* entries persistEntries() returns
    pendingDeltas,  \* sequence numbers of the deltas not yet compacted
    flushTimer,     \* a flush is scheduled
    coveredSeq,     \* what the flush in progress covers
    written,        \* entries of the current model the flush has written
    (* the storage *)
    snap,           \* the model snapshots, cell by cell
    snapseq,        \* per model, the highest delta its snapshot covers
    log,            \* the delta:<seq> keys
    ledger,         \* commits whose operation transitions are in dbl:ops
    (* history, for the properties only *)
    commits,        \* commits begun so far
    tracked,        \* commits that carry operation transitions
    refused,        \* commits whose delta write was refused
    lastAccepted    \* per cell, the last commit whose delta was accepted

process == <<pc, mem, tx, deltaSeq, dirtyModels, dirtyEntries, pendingDeltas,
             flushTimer, coveredSeq, written>>
disk    == <<snap, snapseq, log, ledger>>
history == <<commits, tracked, refused, lastAccepted>>
vars    == <<process, disk, history>>

CellModel(c) == ModelOf[EntryOf[c]]
ModelsOf(cells) == {CellModel(c) : c \in cells}       \* touchedModelsOf
EntriesOf(m) == {e \in dirtyEntries : ModelOf[e] = m} \* persistEntries

-----------------------------------------------------------------------------
(* What a boot reads back from the storage. *)

Seqs == {d.seq : d \in log}

\* Mutated Live: the replay filter is off by one.
LiveOffByOne(c) == {d \in log : c \in d.cells /\ snapseq[CellModel(c)] + 1 < d.seq}

\* The operations on cell c that replay does not filter out.
Live(c) == {d \in log : c \in d.cells /\ snapseq[CellModel(c)] < d.seq}

LastOf(deltas) == CHOOSE d \in deltas : \A e \in deltas : e.seq <= d.seq

\* Snapshots first, then the uncovered deltas in sequence order.
Recovered == [c \in Cells |-> IF Live(c) = {} THEN snap[c] ELSE LastOf(Live(c)).tx]

\* Mutated KnownSeqs: the counter continues after the delta keys only.
KnownSeqsOfDeltas == {-1} \cup Seqs

\* A sequence number the storage knows, in a delta key or in a snapseq marker.
KnownSeqs == {-1} \cup Seqs \cup {snapseq[m] : m \in Models}

highestPersistedSeq == CHOOSE s \in KnownSeqs : \A t \in KnownSeqs : t <= s

-----------------------------------------------------------------------------
NoTx == [id |-> 0, cells |-> {}]

Init ==
    /\ pc = "idle"
    /\ mem = [c \in Cells |-> 0]
    /\ tx = NoTx
    /\ deltaSeq = 0
    /\ dirtyModels = {}
    /\ dirtyEntries = {}
    /\ pendingDeltas = {}
    /\ flushTimer = FALSE
    /\ coveredSeq = -1
    /\ written = {}
    /\ snap = [c \in Cells |-> 0]
    /\ snapseq = [m \in Models |-> -1]
    /\ log = {}
    /\ ledger = {}
    /\ commits = 0
    /\ tracked = {}
    /\ refused = {}
    /\ lastAccepted = [c \in Cells |-> 0]

\* Mutated BeginCommit: a commit with rows skips the ledger write.
BeginCommitUnledgered(cells, hasTransitions) ==
    /\ pc = "idle"
    /\ commits < MaxCommits
    /\ cells # {} \/ hasTransitions
    /\ commits' = commits + 1
    /\ tx' = [id |-> commits + 1, cells |-> cells]
    /\ tracked' = IF hasTransitions THEN tracked \cup {commits + 1} ELSE tracked
    /\ pc' = IF hasTransitions /\ cells = {} THEN "ledger" ELSE "delta"
    /\ UNCHANGED <<mem, deltaSeq, dirtyModels, dirtyEntries, pendingDeltas, flushTimer,
                   coveredSeq, written, disk, refused, lastAccepted>>

(* A commit of operations on cells; hasTransitions when it also moves      *)
(* operations of the ledger.  The apply is staged: mem changes only when   *)
(* persistCommit has returned.                                             *)
BeginCommit(cells, hasTransitions) ==
    /\ pc = "idle"
    /\ commits < MaxCommits
    /\ cells # {} \/ hasTransitions
    /\ commits' = commits + 1
    /\ tx' = [id |-> commits + 1, cells |-> cells]
    /\ tracked' = IF hasTransitions THEN tracked \cup {commits + 1} ELSE tracked
    /\ pc' = IF hasTransitions THEN "ledger" ELSE "delta"
    /\ UNCHANGED <<mem, deltaSeq, dirtyModels, dirtyEntries, pendingDeltas, flushTimer,
                   coveredSeq, written, disk, refused, lastAccepted>>

WriteLedger ==
    /\ pc = "ledger"
    /\ ledger' = ledger \cup {tx.id}
    /\ pc' = "delta"
    /\ UNCHANGED <<mem, tx, deltaSeq, dirtyModels, dirtyEntries, pendingDeltas, flushTimer,
                   coveredSeq, written, snap, snapseq, log, history>>

\* A refused ledger write fails the whole commit; the staged apply is aborted.
RefuseLedger ==
    /\ pc = "ledger"
    /\ "ledger" \in Refusable
    /\ pc' = "idle"
    /\ tx' = NoTx
    /\ UNCHANGED <<mem, deltaSeq, dirtyModels, dirtyEntries, pendingDeltas, flushTimer,
                   coveredSeq, written, disk, history>>

\* The rest of persistCommit and the in-memory commit of the staged apply.
Land ==
    /\ mem' = [c \in Cells |-> IF c \in tx.cells THEN tx.id ELSE mem[c]]
    /\ dirtyEntries' = dirtyEntries \cup {EntryOf[c] : c \in tx.cells}
    /\ dirtyModels' = dirtyModels \cup ModelsOf(tx.cells)
    /\ flushTimer' = (flushTimer \/ dirtyModels' # {})
    /\ pc' = "idle"
    /\ tx' = NoTx

\* One storage key holds the whole delta; writing it replaces what was there.
WriteDelta ==
    /\ pc = "delta"
    /\ tx.cells # {}
    /\ log' = {d \in log : d.seq # deltaSeq}
                \cup {[seq |-> deltaSeq, tx |-> tx.id, cells |-> tx.cells]}
    /\ deltaSeq' = deltaSeq + 1
    /\ pendingDeltas' = pendingDeltas \cup {deltaSeq}
    /\ lastAccepted' = [c \in Cells |-> IF c \in tx.cells THEN tx.id ELSE lastAccepted[c]]
    /\ Land
    /\ UNCHANGED <<coveredSeq, written, snap, snapseq, ledger, commits, tracked, refused>>

\* A refused delta is contained: the commit lands in memory, the number is reused.
RefuseDelta ==
    /\ pc = "delta"
    /\ tx.cells # {}
    /\ "delta" \in Refusable
    /\ refused' = refused \cup {tx.id}
    /\ Land
    /\ UNCHANGED <<deltaSeq, pendingDeltas, coveredSeq, written, disk,
                   commits, tracked, lastAccepted>>

\* Only transitions: the ledger was the commit's one durability boundary.
NoDelta ==
    /\ pc = "delta"
    /\ tx.cells = {}
    /\ Land
    /\ UNCHANGED <<deltaSeq, pendingDeltas, coveredSeq, written, disk, history>>

-----------------------------------------------------------------------------
(* flushCacheSnapshots: called by the timer, on backgrounding, and by a    *)
(* reconfiguration.                                                        *)

StartFlush ==
    /\ pc = "idle"
    /\ pc' = "flush"
    /\ coveredSeq' = deltaSeq - 1
    /\ flushTimer' = FALSE
    /\ UNCHANGED <<mem, tx, deltaSeq, dirtyModels, dirtyEntries, pendingDeltas,
                   written, disk, history>>

\* The models are flushed one after the other.
FlushEntry(e) ==
    /\ pc = "flush"
    /\ ModelOf[e] \in dirtyModels
    /\ e \in dirtyEntries \ written
    /\ \A w \in written : ModelOf[w] = ModelOf[e]
    /\ snap' = [c \in Cells |-> IF EntryOf[c] = e THEN mem[c] ELSE snap[c]]
    /\ written' = written \cup {e}
    /\ UNCHANGED <<pc, mem, tx, deltaSeq, dirtyModels, dirtyEntries, pendingDeltas,
                   flushTimer, coveredSeq, snapseq, log, ledger, history>>

\* Mutated FlushSnapseq: the marker may be written before the entries.
FlushSnapseqFirst(m) ==
    /\ pc = "flush"
    /\ m \in dirtyModels
    /\ \A w \in written : ModelOf[w] = m
    /\ snapseq' = [snapseq EXCEPT ![m] = coveredSeq]
    /\ dirtyModels' = dirtyModels \ {m}
    /\ dirtyEntries' = dirtyEntries \ EntriesOf(m)
    /\ written' = {}
    /\ UNCHANGED <<pc, mem, tx, deltaSeq, pendingDeltas, flushTimer, coveredSeq,
                   snap, log, ledger, history>>

\* The marker after the entries, and only then the model is clean.
FlushSnapseq(m) ==
    /\ pc = "flush"
    /\ m \in dirtyModels
    /\ written = EntriesOf(m)
    /\ snapseq' = [snapseq EXCEPT ![m] = coveredSeq]
    /\ dirtyModels' = dirtyModels \ {m}
    /\ dirtyEntries' = dirtyEntries \ EntriesOf(m)
    /\ written' = {}
    /\ UNCHANGED <<pc, mem, tx, deltaSeq, pendingDeltas, flushTimer, coveredSeq,
                   snap, log, ledger, history>>

\* Mutated Compactable: the delta the marker names is not counted as covered.
CompactableStrict(d) ==
    /\ d.seq \in pendingDeltas
    /\ \A m \in ModelsOf(d.cells) : snapseq[m] > d.seq

\* Every model the delta touches has a snapshot that covers it.
Compactable(d) ==
    /\ d.seq \in pendingDeltas
    /\ \A m \in ModelsOf(d.cells) : snapseq[m] >= d.seq

FlushDelete(d) ==
    /\ pc = "flush"
    /\ dirtyModels = {}
    /\ Compactable(d)
    /\ log' = log \ {d}
    /\ pendingDeltas' = pendingDeltas \ {d.seq}
    /\ UNCHANGED <<pc, mem, tx, deltaSeq, dirtyModels, dirtyEntries, flushTimer,
                   coveredSeq, written, snap, snapseq, ledger, history>>

FlushDone ==
    /\ pc = "flush"
    /\ dirtyModels = {}
    /\ \A d \in log : ~ Compactable(d)
    /\ pc' = "idle"
    /\ coveredSeq' = -1
    /\ UNCHANGED <<mem, tx, deltaSeq, dirtyModels, dirtyEntries, pendingDeltas, flushTimer,
                   written, disk, history>>

\* Any write of the flush throws: what is dirty stays dirty, no timer is armed.
FlushRefused ==
    /\ pc = "flush"
    /\ "snapshot" \in Refusable
    /\ dirtyModels # {} \/ \E d \in log : Compactable(d)
    /\ pc' = "idle"
    /\ written' = {}
    /\ coveredSeq' = -1
    /\ UNCHANGED <<mem, tx, deltaSeq, dirtyModels, dirtyEntries, pendingDeltas, flushTimer,
                   disk, history>>

-----------------------------------------------------------------------------
\* The operating system kills the process, between any two writes.
Kill ==
    /\ pc # "down"
    /\ pc' = "down"
    /\ mem' = [c \in Cells |-> 0]
    /\ tx' = NoTx
    /\ deltaSeq' = 0
    /\ dirtyModels' = {}
    /\ dirtyEntries' = {}
    /\ pendingDeltas' = {}
    /\ flushTimer' = FALSE
    /\ coveredSeq' = -1
    /\ written' = {}
    /\ UNCHANGED <<disk, history>>

\* createApplyRuntime, hydration of the planes and replayPersistedDeltas.
Boot ==
    LET replayed == {c \in Cells : Live(c) # {}} IN
    /\ pc = "down"
    /\ pc' = "idle"
    /\ mem' = Recovered
    /\ deltaSeq' = highestPersistedSeq + 1
    /\ pendingDeltas' = Seqs
    /\ dirtyModels' = ModelsOf(replayed)
    /\ dirtyEntries' = {EntryOf[c] : c \in replayed}
    /\ UNCHANGED <<tx, flushTimer, coveredSeq, written, disk, history>>

CommitStep == WriteLedger \/ RefuseLedger \/ WriteDelta \/ RefuseDelta \/ NoDelta

FlushStep ==
    \/ \E e \in Entries : FlushEntry(e)
    \/ \E m \in Models : FlushSnapseq(m)
    \/ \E d \in log : FlushDelete(d)
    \/ FlushDone
    \/ FlushRefused

Next ==
    \/ \E cells \in WriteSets, hasTransitions \in BOOLEAN :
            BeginCommit(cells, hasTransitions)
    \/ CommitStep
    \/ StartFlush
    \/ FlushStep
    \/ Kill
    \/ Boot

Spec == Init /\ [][Next]_vars

(* A synchronous call runs to its end, an armed timer fires, and a killed  *)
(* application is started again.                                           *)
Fairness ==
    /\ WF_vars(CommitStep)
    /\ WF_vars(FlushStep)
    /\ WF_vars(flushTimer /\ StartFlush)
    /\ WF_vars(Boot)

FairSpec == Spec /\ Fairness

=============================================================================
