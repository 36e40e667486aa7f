--------------------------- MODULE DeltaLogProofs ---------------------------
(***************************************************************************)
(* Proofs about DeltaLog, for any models, entries, cells and commits.      *)
(* The first lemmas are about the two CHOOSEs of the model (the last delta *)
(* of a cell, the highest sequence number on disk); then IInv is shown     *)
(* inductive, one lemma per action; the theorems follow from it.           *)
(***************************************************************************)
EXTENDS DeltaLogProps, FiniteSetTheorems, WellFoundedInduction, TLAPS

(* A nonempty set of integers with an upper bound has a greatest element:  *)
(* the intervals from its elements up to the bound are finite sets, and    *)
(* the smallest of them under inclusion starts at the greatest element.    *)
LEMMA GreatestExists ==
  ASSUME NEW S \in SUBSET Int, S # {}, NEW hi \in Int, \A s \in S : s <= hi
  PROVE  \E s \in S : \A t \in S : t <= s
<1> DEFINE T == {s .. hi : s \in S}
<1> DEFINE R == StrictSubsetOrdering(Int)
<1>1. IsWellFoundedOn(R, FiniteSubsetsOf(Int))
  BY FS_StrictSubsetOrderingWellFounded
<1>2. T \subseteq FiniteSubsetsOf(Int)
  <2>1. \A s \in S : IsFiniteSet(s .. hi)
    BY FS_Interval
  <2> QED
    BY <2>1 DEF FiniteSubsetsOf
<1>3. T # {}
  OBVIOUS
<1>4. PICK x \in T : \A y \in T : ~ (<<y, x>> \in R)
  <2> HIDE DEF T, R
  <2> QED BY <1>1, <1>2, <1>3, WFMin
<1>5. PICK s \in S : x = s .. hi
  OBVIOUS
<1>6. ASSUME NEW t \in S, ~ (t <= s)
      PROVE  FALSE
  <2>1. t .. hi \in T
    OBVIOUS
  <2>2. t .. hi \subseteq s .. hi /\ s \in s .. hi /\ s \notin t .. hi
    BY <1>6
  <2>3. <<t .. hi, s .. hi>> \in R
    BY <2>2 DEF StrictSubsetOrdering
  <2> QED
    BY <2>1, <2>3, <1>4, <1>5
<1> QED
  BY <1>6

(* A nonempty set of deltas has a last one. *)
LEMMA LastOfProperty ==
  ASSUME NEW D, D # {}, NEW hi \in Int, \A d \in D : d.seq \in Int /\ d.seq <= hi
  PROVE  LastOf(D) \in D /\ \A e \in D : e.seq <= LastOf(D).seq
<1> DEFINE S == {d.seq : d \in D}
<1>1. \E s \in S : \A t \in S : t <= s
  <2>1. S \in SUBSET Int /\ S # {} /\ \A s \in S : s <= hi
    OBVIOUS
  <2> HIDE DEF S
  <2> QED BY <2>1, GreatestExists
<1>2. \E d \in D : \A e \in D : e.seq <= d.seq
  BY <1>1
<1> QED
  BY <1>2 DEF LastOf

(* The counter of the next session is above every number on disk, and does *)
(* not jump beyond them.                                                   *)
LEMMA HighestProperty ==
  ASSUME NEW hi \in Int, hi >= -1,
         log \subseteq Deltas, snapseq \in [Models -> Int],
         \A d \in log : d.seq <= hi,
         \A m \in Models : snapseq[m] <= hi
  PROVE  /\ highestPersistedSeq \in Int
         /\ -1 <= highestPersistedSeq /\ highestPersistedSeq <= hi
         /\ \A d \in log : d.seq <= highestPersistedSeq
         /\ \A m \in Models : snapseq[m] <= highestPersistedSeq
<1>1. KnownSeqs \subseteq Int /\ -1 \in KnownSeqs /\ \A s \in KnownSeqs : s <= hi
  BY DEF KnownSeqs, Seqs, Deltas
<1>2. \E s \in KnownSeqs : \A t \in KnownSeqs : t <= s
  BY <1>1, GreatestExists
<1>3. highestPersistedSeq \in KnownSeqs /\ \A t \in KnownSeqs : t <= highestPersistedSeq
  BY <1>2 DEF highestPersistedSeq
<1> QED
  BY <1>1, <1>3 DEF KnownSeqs, Seqs

(* The content a boot shows for a cell is that of its last live delta or   *)
(* of its snapshot; in a reachable state it is the number of a commit.     *)
LEMMA RecoveredProperty ==
  ASSUME TypeOK, Issued, NEW c \in Cells
  PROVE  /\ Recovered[c] \in Ids
         /\ Live(c) = {} => Recovered[c] = snap[c]
         /\ Live(c) # {} => \E d \in Live(c) : Recovered[c] = d.tx
         /\ Recovered[c] <= commits
<1>1. CASE Live(c) = {}
  BY <1>1 DEF TypeOK, Issued, Recovered
<1>2. CASE Live(c) # {}
  <2>1. LastOf(Live(c)) \in Live(c)
    <3>1. \A d \in Live(c) : d.seq \in Int /\ d.seq <= commits
      BY DEF Live, TypeOK, Issued, Deltas, Ids
    <3>2. commits \in Int
      BY DEF TypeOK, Ids
    <3> QED
      BY <1>2, <3>1, <3>2, LastOfProperty
  <2>2. Recovered[c] = LastOf(Live(c)).tx
    BY <1>2 DEF Recovered
  <2>3. \A d \in Live(c) : d.tx \in Ids /\ d.tx <= commits
    BY DEF Live, TypeOK, Issued, Deltas
  <2> QED
    BY <1>2, <2>1, <2>2, <2>3
<1> QED
  BY <1>1, <1>2

-----------------------------------------------------------------------------
(* How the steps move what a boot would show.                              *)

LEMMA RecoveredFrame ==
  ASSUME UNCHANGED <<log, snap, snapseq>>
  PROVE  Recovered' = Recovered
BY DEF Recovered, Live, CellModel

LEMMA RecoveredWriteDelta ==
  ASSUME IInv, WriteDelta, NEW c \in Cells
  PROVE  Recovered'[c] = IF c \in tx.cells THEN tx.id ELSE Recovered[c]
<1> DEFINE new == [seq |-> deltaSeq, tx |-> tx.id, cells |-> tx.cells]
<1>1. log' = log \cup {new} /\ snapseq' = snapseq /\ snap' = snap
  BY DEF WriteDelta, IInv, CounterAhead, TypeOK, Deltas
<1>2. snapseq[CellModel(c)] < deltaSeq
  BY LayoutAssumption DEF WriteDelta, IInv, CounterAhead, CellModel
<1>3. CASE c \notin tx.cells
  <2>1. Live(c)' = Live(c)
    BY <1>1, <1>3 DEF Live, CellModel
  <2> QED
    BY <1>1, <1>3, <2>1 DEF Recovered
<1>4. CASE c \in tx.cells
  <2>1. Live(c)' = Live(c) \cup {new}
    BY <1>1, <1>2, <1>4 DEF Live, CellModel
  <2>2. \A d \in Live(c) : d.seq \in Int /\ d.seq < deltaSeq
    BY DEF Live, WriteDelta, IInv, CounterAhead, TypeOK, Deltas
  <2>3. deltaSeq \in Int
    BY DEF IInv, TypeOK
  <2>4. LastOf(Live(c)') = new
    <3> DEFINE D == Live(c) \cup {new}
    <3>1. D # {} /\ \A d \in D : d.seq \in Int /\ d.seq <= deltaSeq
      <4>1. new.seq = deltaSeq
        OBVIOUS
      <4>2. \A d \in D : d = new \/ d \in Live(c)
        OBVIOUS
      <4> HIDE DEF new
      <4> QED BY <4>1, <4>2, <2>2, <2>3
    <3>2. new \in D /\ \A d \in D : d.seq >= deltaSeq => d = new
      BY <2>2, <2>3
    <3>3. LastOf(D) \in D /\ \A e \in D : e.seq <= LastOf(D).seq
      <4> HIDE DEF D
      <4> QED BY <3>1, <2>3, LastOfProperty
    <3>4. LastOf(D) = new
      BY <3>2, <3>3
    <3> QED
      BY <3>4, <2>1
  <2>5. Recovered'[c] = LastOf(Live(c)').tx
    BY <2>1 DEF Recovered
  <2> QED
    BY <2>4, <2>5, <1>4
<1> QED
  BY <1>3, <1>4

LEMMA RecoveredFlushEntry ==
  ASSUME IInv, NEW e \in Entries, FlushEntry(e), NEW c \in Cells
  PROVE  Recovered'[c] = IF Live(c) = {} /\ EntryOf[c] = e THEN mem[c] ELSE Recovered[c]
<1>1. Live(c)' = Live(c)
  BY DEF FlushEntry, Live, CellModel
<1> QED
  BY <1>1 DEF FlushEntry, Recovered

LEMMA RecoveredFlushSnapseq ==
  ASSUME IInv, NEW m \in Models, FlushSnapseq(m), NEW c \in Cells
  PROVE  Recovered'[c] = IF CellModel(c) = m THEN snap[c] ELSE Recovered[c]
<1>1. coveredSeq = deltaSeq - 1 /\ \A d \in log : d.seq \in Int /\ d.seq < deltaSeq
  BY DEF FlushSnapseq, IInv, FlushCovers, CounterAhead, TypeOK, Deltas
<1>2. log' = log /\ snap' = snap /\ snapseq' = [snapseq EXCEPT ![m] = coveredSeq]
  BY DEF FlushSnapseq
<1>3. snapseq \in [Models -> Int] /\ CellModel(c) \in Models /\ deltaSeq \in Int
  BY LayoutAssumption DEF IInv, TypeOK, CellModel
<1>4. CASE CellModel(c) = m
  <2>1. \A d \in log : ~ (snapseq'[CellModel(c)] < d.seq)
    BY <1>1, <1>2, <1>3, <1>4
  <2>2. Live(c)' = {}
    BY <1>2, <2>1 DEF Live, CellModel
  <2> QED
    BY <1>2, <1>4, <2>2 DEF Recovered
<1>5. CASE CellModel(c) # m
  <2>1. Live(c)' = Live(c)
    BY <1>2, <1>3, <1>5 DEF Live, CellModel
  <2> QED
    BY <1>2, <1>5, <2>1 DEF Recovered
<1> QED
  BY <1>4, <1>5

LEMMA RecoveredFlushDelete ==
  ASSUME IInv, NEW d \in log, FlushDelete(d), NEW c \in Cells
  PROVE  Recovered'[c] = Recovered[c]
<1>1. d \notin Live(c)
  <2>1. ASSUME c \in d.cells
        PROVE  snapseq[CellModel(c)] >= d.seq
    BY <2>1 DEF FlushDelete, Compactable, ModelsOf
  <2>2. snapseq[CellModel(c)] \in Int /\ d.seq \in Int
    BY LayoutAssumption DEF IInv, TypeOK, Deltas, CellModel
  <2> QED
    BY <2>1, <2>2 DEF Live
<1>2. Live(c)' = Live(c)
  BY <1>1 DEF FlushDelete, Live, CellModel
<1> QED
  BY <1>2 DEF FlushDelete, Recovered

-----------------------------------------------------------------------------
(* Every step preserves the inductive invariant.                           *)

LEMMA InitIInv == Init => IInv
<1> SUFFICES ASSUME Init PROVE IInv
  OBVIOUS
<1> USE DEF Init
<1>1. \A c \in Cells : Recovered[c] = 0
  BY DEF Recovered, Live
<1>2. TypeOK
  <2>1. 0 \in Ids
    BY BoundAssumption DEF Ids
  <2>2. tx \in [id : Ids, cells : SUBSET Cells]
    BY <2>1 DEF NoTx
  <2>3. /\ mem \in [Cells -> Ids] /\ snap \in [Cells -> Ids] /\ lastAccepted \in [Cells -> Ids]
        /\ snapseq \in [Models -> Int] /\ \A m \in Models : snapseq[m] >= -1
    BY <2>1
  <2>4. /\ log \subseteq Deltas /\ ledger \subseteq Ids /\ tracked \subseteq Ids
        /\ refused \subseteq Ids /\ dirtyModels \subseteq Models
        /\ dirtyEntries \subseteq Entries /\ written \subseteq Entries
        /\ pendingDeltas \subseteq Nat
    OBVIOUS
  <2>5. pc \in {"down", "idle", "ledger", "delta", "flush"} /\ flushTimer \in BOOLEAN
    OBVIOUS
  <2>6. deltaSeq \in Nat /\ coveredSeq \in Int /\ coveredSeq >= -1
    OBVIOUS
  <2>7. commits \in Ids
    BY <2>1
  <2> QED
    BY <2>2, <2>3, <2>4, <2>5, <2>6, <2>7 DEF TypeOK
<1>3. CounterAhead /\ CommitIsNewest /\ FlushCovers /\ SavedOrDirty
  BY DEF CounterAhead, CommitIsNewest, FlushCovers, SavedOrDirty
<1>4. Issued /\ LedgerFirst /\ RefusedOnlyIfRefusable
  BY DEF Issued, LedgerFirst, Ledgered, RefusedOnlyIfRefusable
<1>5. MemoryAhead /\ AcceptedCommitsSurvive
  BY <1>1 DEF MemoryAhead, AcceptedCommitsSurvive
<1> QED
  BY <1>2, <1>3, <1>4, <1>5 DEF IInv

(* A step that leaves the storage alone leaves alone what a boot would     *)
(* show, so these parts of the invariant only look at the other variables. *)
LEMMA BeginCommitIInv ==
  ASSUME IInv, NEW cells \in WriteSets, NEW hasTransitions \in BOOLEAN,
         BeginCommit(cells, hasTransitions)
  PROVE  IInv'
<1> USE DEF IInv
<1>1. UNCHANGED <<log, snap, snapseq, ledger, mem, deltaSeq, dirtyModels, dirtyEntries,
                  pendingDeltas, flushTimer, coveredSeq, written, refused, lastAccepted>>
      /\ pc = "idle" /\ pc' \in {"ledger", "delta"} /\ commits' = commits + 1
      /\ commits < MaxCommits /\ tx' = [id |-> commits + 1, cells |-> cells]
      /\ (tracked' = tracked \/ tracked' = tracked \cup {commits + 1})
      /\ (pc' = "delta" => tracked' = tracked)
  BY DEF BeginCommit, disk
<1>2. Recovered' = Recovered
  BY <1>1, RecoveredFrame
<1>3. commits \in Nat /\ MaxCommits \in Nat /\ commits + 1 \in Ids
  BY <1>1, BoundAssumption DEF TypeOK, Ids
<1>4. TypeOK'
  <2>1. tx' \in [id : Ids, cells : SUBSET Cells]
    BY <1>1, <1>3, LayoutAssumption
  <2>2. tracked' \subseteq Ids /\ commits' \in Ids
    BY <1>1, <1>3 DEF TypeOK
  <2>3. pc' \in {"down", "idle", "ledger", "delta", "flush"}
    BY <1>1
  <2> QED
    BY <1>1, <2>1, <2>2, <2>3 DEF TypeOK
<1>5. CounterAhead' /\ Issued' /\ FlushCovers' /\ SavedOrDirty'
  <2>1. CounterAhead'
    BY <1>1, <1>3 DEF CounterAhead, TypeOK
  <2>2. Issued'
    <3>1. \A d \in log : d.seq \in Nat /\ d.tx \in Nat
      BY DEF TypeOK, Deltas, Ids
    <3>2. \A c \in Cells : mem[c] \in Nat /\ snap[c] \in Nat
      BY DEF TypeOK, Ids
    <3>3. \A t \in tracked : t \in Nat
      BY DEF TypeOK, Ids
    <3>4. \A m \in Models : snapseq[m] \in Int
      BY DEF TypeOK
    <3> QED
      BY <1>1, <1>3, <3>1, <3>2, <3>3, <3>4 DEF Issued
  <2>3. FlushCovers' /\ SavedOrDirty'
    BY <1>1 DEF FlushCovers, SavedOrDirty
  <2> QED
    BY <2>1, <2>2, <2>3
<1>6. CommitIsNewest'
  <2>1. \A d \in log : d.tx \in Nat
    BY DEF TypeOK, Deltas, Ids
  <2>2. \A c \in Cells : mem[c] \in Nat /\ snap[c] \in Nat
    BY DEF TypeOK, Ids
  <2>3. deltaSeq \in Nat /\ deltaSeq <= commits
    BY <1>1 DEF CounterAhead, TypeOK
  <2> QED
    BY <1>1, <1>3, <2>1, <2>2, <2>3 DEF CommitIsNewest, Issued
<1>7. MemoryAhead' /\ AcceptedCommitsSurvive' /\ RefusedOnlyIfRefusable'
  BY <1>1, <1>2 DEF MemoryAhead, AcceptedCommitsSurvive, RefusedOnlyIfRefusable
<1>8. LedgerFirst'
  <2>1. \A d \in log : d.tx \in Nat /\ d.tx # commits + 1
    BY <1>3 DEF TypeOK, Deltas, Ids, Issued
  <2>2. \A c \in Cells : /\ mem[c] \in Nat /\ mem[c] # commits + 1
                         /\ snap[c] \in Nat /\ snap[c] # commits + 1
    BY <1>3 DEF TypeOK, Ids, Issued
  <2>3. pc' = "delta" => tx'.id \notin tracked'
    <3>1. commits + 1 \notin tracked
      BY <1>3 DEF TypeOK, Ids, Issued
    <3> QED
      BY <1>1, <3>1
  <2> QED
    BY <1>1, <2>1, <2>2, <2>3 DEF LedgerFirst, Ledgered
<1> QED
  BY <1>4, <1>5, <1>6, <1>7, <1>8

LEMMA LedgerStepIInv ==
  ASSUME IInv, WriteLedger \/ RefuseLedger
  PROVE  IInv'
<1> USE DEF IInv
<1>1. UNCHANGED <<log, snap, snapseq, mem, deltaSeq, dirtyModels, dirtyEntries,
                  pendingDeltas, flushTimer, coveredSeq, written,
                  commits, tracked, refused, lastAccepted>>
      /\ pc = "ledger"
      /\ \/ pc' = "delta" /\ tx' = tx /\ ledger' = ledger \cup {tx.id}
         \/ pc' = "idle" /\ tx' = NoTx /\ ledger' = ledger
  BY DEF WriteLedger, RefuseLedger, disk, history
<1>2. Recovered' = Recovered
  BY <1>1, RecoveredFrame
<1>3. TypeOK'
  <2>1. NoTx \in [id : Ids, cells : SUBSET Cells]
    BY BoundAssumption DEF NoTx, Ids
  <2>2. tx.id \in Ids
    BY DEF TypeOK
  <2> QED
    BY <1>1, <2>1, <2>2 DEF TypeOK
<1>4. CounterAhead' /\ Issued' /\ FlushCovers' /\ SavedOrDirty' /\ CommitIsNewest'
  <2>1. CounterAhead' /\ Issued'
    BY <1>1 DEF CounterAhead, Issued
  <2>2. FlushCovers' /\ SavedOrDirty'
    BY <1>1 DEF FlushCovers, SavedOrDirty
  <2>3. CommitIsNewest'
    BY <1>1 DEF CommitIsNewest
  <2> QED
    BY <2>1, <2>2, <2>3
<1>5. MemoryAhead' /\ AcceptedCommitsSurvive' /\ RefusedOnlyIfRefusable'
  BY <1>1, <1>2 DEF MemoryAhead, AcceptedCommitsSurvive, RefusedOnlyIfRefusable
<1>6. LedgerFirst'
  BY <1>1 DEF LedgerFirst, Ledgered
<1> QED
  BY <1>3, <1>4, <1>5, <1>6

(* Landing a commit in memory keeps the types and the dirty bookkeeping,   *)
(* whatever became of its delta.                                           *)
LEMMA LandFacts ==
  ASSUME IInv, pc = "delta", Land
  PROVE  /\ mem' = [c \in Cells |-> IF c \in tx.cells THEN tx.id ELSE mem[c]]
         /\ mem' \in [Cells -> Ids]
         /\ dirtyModels' \subseteq Models /\ dirtyEntries' \subseteq Entries
         /\ flushTimer' \in BOOLEAN
         /\ pc' = "idle" /\ tx' = NoTx /\ tx' \in [id : Ids, cells : SUBSET Cells]
         /\ \A c \in Cells : EntryOf[c] \notin dirtyEntries' =>
                EntryOf[c] \notin dirtyEntries /\ mem'[c] = mem[c]
         /\ tx.id \in Ids /\ tx.id = commits /\ tx.cells \subseteq Cells
<1> USE DEF IInv
<1>1. tx.id \in Ids /\ tx.id = commits /\ tx.cells \subseteq Cells
  BY DEF TypeOK, CommitIsNewest
<1>2. mem' = [c \in Cells |-> IF c \in tx.cells THEN tx.id ELSE mem[c]]
  BY DEF Land
<1>3. mem' \in [Cells -> Ids]
  BY <1>1, <1>2 DEF TypeOK
<1>4. dirtyModels' \subseteq Models /\ dirtyEntries' \subseteq Entries
  BY <1>1, LayoutAssumption DEF Land, TypeOK, ModelsOf, CellModel
<1>5. flushTimer' \in BOOLEAN /\ pc' = "idle" /\ tx' = NoTx
  BY DEF Land, TypeOK
<1>6. tx' \in [id : Ids, cells : SUBSET Cells]
  BY <1>5, BoundAssumption DEF NoTx, Ids
<1>7. ASSUME NEW c \in Cells, EntryOf[c] \notin dirtyEntries'
      PROVE  EntryOf[c] \notin dirtyEntries /\ mem'[c] = mem[c]
  BY <1>7, <1>2 DEF Land
<1> QED
  BY <1>1, <1>2, <1>3, <1>4, <1>5, <1>6, <1>7

LEMMA WriteDeltaIInv ==
  ASSUME IInv, WriteDelta
  PROVE  IInv'
<1> USE DEF IInv
<1> DEFINE new == [seq |-> deltaSeq, tx |-> tx.id, cells |-> tx.cells]
<1>1. /\ UNCHANGED <<snap, snapseq, ledger, coveredSeq, written, commits, tracked, refused>>
      /\ pc = "delta" /\ deltaSeq' = deltaSeq + 1 /\ Land
      /\ pendingDeltas' = pendingDeltas \cup {deltaSeq}
      /\ lastAccepted' = [c \in Cells |-> IF c \in tx.cells THEN tx.id ELSE lastAccepted[c]]
  BY DEF WriteDelta
<1>2. log' \subseteq log \cup {new}
  BY DEF WriteDelta
<1>3. deltaSeq \in Nat /\ commits \in Nat /\ deltaSeq < commits
  BY <1>1 DEF TypeOK, Ids, CommitIsNewest
<1>4. TypeOK'
  <2>1. new \in Deltas
    BY <1>1, <1>3, LandFacts DEF Deltas
  <2>2. log' \subseteq Deltas
    BY <1>2, <2>1 DEF TypeOK
  <2>3. lastAccepted' \in [Cells -> Ids]
    BY <1>1, LandFacts DEF TypeOK
  <2>4. deltaSeq' \in Nat /\ pendingDeltas' \subseteq Nat
    BY <1>1, <1>3 DEF TypeOK
  <2> HIDE DEF new
  <2> QED
    BY <1>1, <2>2, <2>3, <2>4, LandFacts DEF TypeOK
<1>5. CounterAhead'
  <2>1. \A d \in log : d.seq \in Nat /\ d.seq < deltaSeq
    BY <1>1 DEF TypeOK, Deltas, CounterAhead
  <2>2. \A m \in Models : snapseq[m] \in Int /\ snapseq[m] < deltaSeq
    BY <1>1 DEF TypeOK, CounterAhead
  <2>3. \A d \in log' : d.seq < deltaSeq + 1
    BY <1>2, <1>3, <2>1
  <2> QED
    BY <1>1, <1>3, <2>2, <2>3 DEF CounterAhead
<1>6. Issued'
  <2>1. \A d \in log' : d.seq < commits /\ d.tx <= commits
    BY <1>1, <1>2, <1>3, LandFacts DEF Issued
  <2>2. \A c \in Cells : mem'[c] <= commits /\ snap[c] <= commits
    BY <1>1, <1>3, LandFacts DEF Issued
  <2> QED
    BY <1>1, <2>1, <2>2 DEF Issued
<1>7. CommitIsNewest' /\ FlushCovers' /\ SavedOrDirty'
  <2>1. CommitIsNewest' /\ FlushCovers'
    BY <1>1, LandFacts DEF CommitIsNewest, FlushCovers
  <2>2. SavedOrDirty'
    BY <1>1, LandFacts DEF SavedOrDirty, FlushCovers
  <2> QED
    BY <2>1, <2>2
<1>8. \A c \in Cells : Recovered'[c] = IF c \in tx.cells THEN tx.id ELSE Recovered[c]
  BY RecoveredWriteDelta
<1>9. MemoryAhead'
  <2>1. \A c \in Cells : Recovered[c] <= mem[c] /\ (mem[c] = Recovered[c] \/ mem[c] \in refused)
    BY <1>1 DEF MemoryAhead
  <2> QED
    BY <1>1, <1>3, <1>8, <2>1, LandFacts DEF MemoryAhead
<1>10. AcceptedCommitsSurvive'
  BY <1>1, <1>3, <1>8, LandFacts DEF AcceptedCommitsSurvive
<1>11. LedgerFirst' /\ RefusedOnlyIfRefusable'
  <2>1. \A d \in log' : Ledgered(d.tx)
    BY <1>1, <1>2 DEF LedgerFirst
  <2>2. \A c \in Cells : Ledgered(mem'[c]) /\ Ledgered(snap[c])
    BY <1>1, LandFacts DEF LedgerFirst
  <2> QED
    BY <1>1, <2>1, <2>2, LandFacts DEF LedgerFirst, Ledgered, RefusedOnlyIfRefusable
<1> QED
  BY <1>4, <1>5, <1>6, <1>7, <1>9, <1>10, <1>11

LEMMA UnloggedCommitIInv ==
  ASSUME IInv, RefuseDelta \/ NoDelta
  PROVE  IInv'
<1> USE DEF IInv
<1>1. /\ UNCHANGED <<log, snap, snapseq, ledger, deltaSeq, pendingDeltas, coveredSeq, written,
                     commits, tracked, lastAccepted>>
      /\ pc = "delta" /\ Land
      /\ \/ "delta" \in Refusable /\ refused' = refused \cup {tx.id}
         \/ tx.cells = {} /\ refused' = refused
  BY DEF RefuseDelta, NoDelta, disk, history
<1>2. Recovered' = Recovered
  BY <1>1, RecoveredFrame
<1>3. TypeOK'
  BY <1>1, LandFacts DEF TypeOK
<1>4. CounterAhead' /\ Issued'
  <2>1. \A c \in Cells : mem'[c] <= commits
    BY <1>1, LandFacts DEF Issued, TypeOK, Ids
  <2> QED
    BY <1>1, <2>1 DEF CounterAhead, Issued
<1>5. CommitIsNewest' /\ FlushCovers' /\ SavedOrDirty'
  <2>1. CommitIsNewest' /\ FlushCovers'
    BY <1>1, LandFacts DEF CommitIsNewest, FlushCovers
  <2>2. SavedOrDirty'
    BY <1>1, LandFacts DEF SavedOrDirty, FlushCovers
  <2> QED
    BY <2>1, <2>2
<1>6. MemoryAhead'
  <2>1. \A c \in Cells : /\ Recovered[c] \in Ids /\ Recovered[c] <= commits
                         /\ Recovered[c] <= mem[c]
                         /\ mem[c] = Recovered[c] \/ mem[c] \in refused
    BY <1>1, RecoveredProperty DEF MemoryAhead
  <2> QED
    BY <1>1, <1>2, <2>1, LandFacts DEF MemoryAhead
<1>7. AcceptedCommitsSurvive' /\ RefusedOnlyIfRefusable'
  BY <1>1, <1>2 DEF AcceptedCommitsSurvive, RefusedOnlyIfRefusable
<1>8. LedgerFirst'
  <2>1. \A c \in Cells : Ledgered(mem'[c])
    BY <1>1, LandFacts DEF LedgerFirst
  <2> QED
    BY <1>1, <2>1, LandFacts DEF LedgerFirst, Ledgered
<1> QED
  BY <1>3, <1>4, <1>5, <1>6, <1>7, <1>8

(* The writes of a flush. *)

LEMMA FlushEntryIInv ==
  ASSUME IInv, NEW e \in Entries, FlushEntry(e)
  PROVE  IInv'
<1> USE DEF IInv
<1>1. /\ UNCHANGED <<pc, mem, tx, deltaSeq, dirtyModels, dirtyEntries, pendingDeltas,
                     flushTimer, coveredSeq, snapseq, log, ledger,
                     commits, tracked, refused, lastAccepted>>
      /\ pc = "flush" /\ written' = written \cup {e} /\ ModelOf[e] \in dirtyModels
      /\ snap' = [c \in Cells |-> IF EntryOf[c] = e THEN mem[c] ELSE snap[c]]
  BY DEF FlushEntry, history
<1>2. \A c \in Cells : snap'[c] = IF EntryOf[c] = e THEN mem[c] ELSE snap[c]
  BY <1>1
<1>3. TypeOK'
  <2>1. snap' \in [Cells -> Ids]
    BY <1>1 DEF TypeOK
  <2> QED
    BY <1>1, <2>1 DEF TypeOK
<1>4. CounterAhead' /\ CommitIsNewest' /\ FlushCovers' /\ RefusedOnlyIfRefusable'
  BY <1>1 DEF CounterAhead, CommitIsNewest, FlushCovers, RefusedOnlyIfRefusable
<1>5. Issued' /\ SavedOrDirty' /\ LedgerFirst'
  <2>1. Issued'
    BY <1>1, <1>2 DEF Issued
  <2>2. SavedOrDirty'
    BY <1>1, <1>2 DEF SavedOrDirty
  <2>3. LedgerFirst'
    BY <1>1, <1>2 DEF LedgerFirst, Ledgered
  <2> QED
    BY <2>1, <2>2, <2>3
<1>6. \A c \in Cells : /\ Recovered'[c] = Recovered[c] \/ Recovered'[c] = mem[c]
                       /\ Recovered[c] \in Ids /\ mem[c] \in Ids /\ lastAccepted[c] \in Ids
                       /\ Recovered[c] <= mem[c] /\ lastAccepted[c] <= Recovered[c]
                       /\ mem[c] = Recovered[c] \/ mem[c] \in refused
  <2>1. \A c \in Cells : Recovered'[c] = Recovered[c] \/ Recovered'[c] = mem[c]
    BY RecoveredFlushEntry
  <2>2. \A c \in Cells : /\ Recovered[c] <= mem[c] /\ lastAccepted[c] <= Recovered[c]
                         /\ mem[c] = Recovered[c] \/ mem[c] \in refused
    BY <1>1, RecoveredProperty DEF MemoryAhead, AcceptedCommitsSurvive, TypeOK, Ids
  <2>3. \A c \in Cells : Recovered[c] \in Ids /\ mem[c] \in Ids /\ lastAccepted[c] \in Ids
    BY RecoveredProperty DEF TypeOK
  <2> QED
    BY <2>1, <2>2, <2>3
<1>7. MemoryAhead' /\ AcceptedCommitsSurvive'
  BY <1>1, <1>6 DEF MemoryAhead, AcceptedCommitsSurvive, Ids
<1> QED
  BY <1>3, <1>4, <1>5, <1>7

LEMMA FlushSnapseqIInv ==
  ASSUME IInv, NEW m \in Models, FlushSnapseq(m)
  PROVE  IInv'
<1> USE DEF IInv
<1>1. /\ UNCHANGED <<pc, mem, tx, deltaSeq, pendingDeltas, flushTimer, coveredSeq, snap, log,
                     ledger, commits, tracked, refused, lastAccepted>>
      /\ pc = "flush" /\ written = EntriesOf(m) /\ written' = {}
      /\ snapseq' = [snapseq EXCEPT ![m] = coveredSeq]
      /\ dirtyModels' = dirtyModels \ {m}
      /\ dirtyEntries' = dirtyEntries \ EntriesOf(m)
  BY DEF FlushSnapseq, history
<1>2. coveredSeq = deltaSeq - 1 /\ deltaSeq \in Nat /\ coveredSeq \in Int /\ coveredSeq >= -1
      /\ deltaSeq <= commits /\ commits \in Nat
  BY <1>1 DEF FlushCovers, TypeOK, CounterAhead, Ids
<1>3. \A n \in Models : snapseq'[n] = IF n = m THEN coveredSeq ELSE snapseq[n]
  BY <1>1 DEF TypeOK
<1>4. TypeOK'
  <2>1. snapseq' \in [Models -> Int] /\ \A n \in Models : snapseq'[n] >= -1
    BY <1>1, <1>2, <1>3 DEF TypeOK
  <2> QED
    BY <1>1, <2>1 DEF TypeOK
<1>5. CounterAhead' /\ Issued'
  <2>1. \A n \in Models : snapseq'[n] < deltaSeq /\ snapseq'[n] < commits
    BY <1>1, <1>2, <1>3 DEF CounterAhead, Issued
  <2> QED
    BY <1>1, <2>1 DEF CounterAhead, Issued
<1>6. CommitIsNewest' /\ FlushCovers' /\ LedgerFirst' /\ RefusedOnlyIfRefusable'
  BY <1>1 DEF CommitIsNewest, FlushCovers, LedgerFirst, Ledgered, RefusedOnlyIfRefusable
<1>7. SavedOrDirty'
  <2>1. \A c \in Cells : EntryOf[c] \notin dirtyEntries' =>
                            EntryOf[c] \notin dirtyEntries \/ EntryOf[c] \in written
    BY <1>1
  <2> QED
    BY <1>1, <2>1 DEF SavedOrDirty
<1>8. ASSUME NEW c \in Cells, CellModel(c) = m
      PROVE  snap[c] = mem[c]
  <2>1. EntryOf[c] \in dirtyEntries => EntryOf[c] \in written
    BY <1>1, <1>8 DEF EntriesOf, CellModel
  <2> QED
    BY <1>1, <2>1 DEF SavedOrDirty
<1>9. \A c \in Cells : /\ Recovered'[c] = Recovered[c] \/ Recovered'[c] = mem[c]
                       /\ Recovered[c] \in Ids /\ mem[c] \in Ids /\ lastAccepted[c] \in Ids
                       /\ Recovered[c] <= mem[c] /\ lastAccepted[c] <= Recovered[c]
                       /\ mem[c] = Recovered[c] \/ mem[c] \in refused
  <2>1. \A c \in Cells : Recovered'[c] = Recovered[c] \/ Recovered'[c] = mem[c]
    BY <1>8, RecoveredFlushSnapseq
  <2>2. \A c \in Cells : /\ Recovered[c] <= mem[c] /\ lastAccepted[c] <= Recovered[c]
                         /\ mem[c] = Recovered[c] \/ mem[c] \in refused
    BY <1>1, RecoveredProperty DEF MemoryAhead, AcceptedCommitsSurvive, TypeOK, Ids
  <2>3. \A c \in Cells : Recovered[c] \in Ids /\ mem[c] \in Ids /\ lastAccepted[c] \in Ids
    BY RecoveredProperty DEF TypeOK
  <2> QED
    BY <2>1, <2>2, <2>3
<1>10. MemoryAhead' /\ AcceptedCommitsSurvive'
  BY <1>1, <1>9 DEF MemoryAhead, AcceptedCommitsSurvive, Ids
<1> QED
  BY <1>4, <1>5, <1>6, <1>7, <1>10

LEMMA FlushDeleteIInv ==
  ASSUME IInv, NEW d \in log, FlushDelete(d)
  PROVE  IInv'
<1> USE DEF IInv
<1>1. /\ UNCHANGED <<pc, mem, tx, deltaSeq, dirtyModels, dirtyEntries, flushTimer, coveredSeq,
                     written, snap, snapseq, ledger, commits, tracked, refused, lastAccepted>>
      /\ log' \subseteq log /\ pendingDeltas' \subseteq pendingDeltas
  BY DEF FlushDelete, history
<1>2. \A c \in Cells : Recovered'[c] = Recovered[c]
  BY RecoveredFlushDelete
<1>3. TypeOK'
  BY <1>1 DEF TypeOK
<1>4. CounterAhead' /\ Issued' /\ CommitIsNewest'
  BY <1>1 DEF CounterAhead, Issued, CommitIsNewest
<1>5. FlushCovers' /\ SavedOrDirty' /\ RefusedOnlyIfRefusable' /\ LedgerFirst'
  BY <1>1 DEF FlushCovers, SavedOrDirty, RefusedOnlyIfRefusable, LedgerFirst, Ledgered
<1>6. MemoryAhead' /\ AcceptedCommitsSurvive'
  BY <1>1, <1>2 DEF MemoryAhead, AcceptedCommitsSurvive
<1> QED
  BY <1>3, <1>4, <1>5, <1>6

LEMMA FlushEdgeIInv ==
  ASSUME IInv, StartFlush \/ FlushDone \/ FlushRefused
  PROVE  IInv'
<1> USE DEF IInv
<1>1. /\ UNCHANGED <<mem, tx, deltaSeq, dirtyModels, dirtyEntries, pendingDeltas, snap, snapseq,
                     log, ledger, commits, tracked, refused, lastAccepted>>
      /\ flushTimer' \in BOOLEAN
      /\ \/ pc = "idle" /\ pc' = "flush" /\ coveredSeq' = deltaSeq - 1 /\ written' = written
         \/ pc = "flush" /\ pc' = "idle" /\ coveredSeq' = -1 /\ written' \in {{}, written}
  BY DEF StartFlush, FlushDone, FlushRefused, disk, history, TypeOK
<1>2. pc' = "idle" => written' = {}
  <2>1. CASE FlushDone
    BY <2>1 DEF FlushDone, FlushCovers
  <2>2. CASE FlushRefused
    BY <2>2 DEF FlushRefused
  <2>3. CASE StartFlush
    BY <2>3 DEF StartFlush
  <2> QED
    BY <2>1, <2>2, <2>3
<1>3. Recovered' = Recovered
  BY <1>1, RecoveredFrame
<1>4. TypeOK'
  <2>1. coveredSeq' \in Int /\ coveredSeq' >= -1 /\ written' \subseteq Entries
    BY <1>1 DEF TypeOK
  <2>2. pc' \in {"down", "idle", "ledger", "delta", "flush"}
    BY <1>1
  <2> QED
    BY <1>1, <2>1, <2>2 DEF TypeOK
<1>5. CounterAhead' /\ Issued' /\ CommitIsNewest' /\ LedgerFirst' /\ RefusedOnlyIfRefusable'
  BY <1>1 DEF CounterAhead, Issued, CommitIsNewest, LedgerFirst, Ledgered, RefusedOnlyIfRefusable
<1>6. FlushCovers' /\ SavedOrDirty'
  BY <1>1, <1>2 DEF FlushCovers, SavedOrDirty
<1>7. MemoryAhead' /\ AcceptedCommitsSurvive'
  BY <1>1, <1>3 DEF MemoryAhead, AcceptedCommitsSurvive
<1> QED
  BY <1>4, <1>5, <1>6, <1>7

LEMMA KillIInv ==
  ASSUME IInv, Kill
  PROVE  IInv'
<1> USE DEF IInv
<1>1. /\ UNCHANGED <<snap, snapseq, log, ledger, commits, tracked, refused, lastAccepted>>
      /\ pc' = "down" /\ mem' = [c \in Cells |-> 0] /\ tx' = NoTx /\ deltaSeq' = 0
      /\ dirtyModels' = {} /\ dirtyEntries' = {} /\ pendingDeltas' = {}
      /\ flushTimer' = FALSE /\ coveredSeq' = -1 /\ written' = {}
  BY DEF Kill, disk, history
<1>2. Recovered' = Recovered
  BY <1>1, RecoveredFrame
<1>3. 0 \in Ids /\ tx' \in [id : Ids, cells : SUBSET Cells] /\ mem' \in [Cells -> Ids]
  BY <1>1, BoundAssumption DEF Ids, NoTx
<1>4. TypeOK'
  <2>1. pc' \in {"down", "idle", "ledger", "delta", "flush"} /\ flushTimer' \in BOOLEAN
    BY <1>1
  <2>2. deltaSeq' \in Nat /\ coveredSeq' \in Int /\ coveredSeq' >= -1
    BY <1>1
  <2>3. dirtyModels' \subseteq Models /\ dirtyEntries' \subseteq Entries
        /\ pendingDeltas' \subseteq Nat /\ written' \subseteq Entries
    BY <1>1
  <2> QED
    BY <1>1, <1>3, <2>1, <2>2, <2>3 DEF TypeOK
<1>5. CounterAhead' /\ CommitIsNewest' /\ FlushCovers' /\ SavedOrDirty' /\ MemoryAhead'
  BY <1>1 DEF CounterAhead, CommitIsNewest, FlushCovers, SavedOrDirty, MemoryAhead
<1>6. Issued'
  BY <1>1 DEF Issued, TypeOK, Ids
<1>7. LedgerFirst' /\ RefusedOnlyIfRefusable' /\ AcceptedCommitsSurvive'
  <2>1. 0 \notin tracked
    BY DEF Issued
  <2> QED
    BY <1>1, <1>2, <2>1 DEF LedgerFirst, Ledgered, RefusedOnlyIfRefusable, AcceptedCommitsSurvive
<1> QED
  BY <1>4, <1>5, <1>6, <1>7

LEMMA BootIInv ==
  ASSUME IInv, Boot
  PROVE  IInv'
<1> USE DEF IInv
<1>1. /\ UNCHANGED <<tx, flushTimer, coveredSeq, written, snap, snapseq, log, ledger,
                     commits, tracked, refused, lastAccepted>>
      /\ pc = "down" /\ pc' = "idle" /\ mem' = Recovered
      /\ deltaSeq' = highestPersistedSeq + 1
  BY DEF Boot, disk, history
<1>2. Recovered' = Recovered
  BY <1>1, RecoveredFrame
<1>3. \A c \in Cells : Recovered[c] \in Ids /\ Recovered[c] <= commits
  BY RecoveredProperty
<1>4. /\ highestPersistedSeq \in Int
      /\ -1 <= highestPersistedSeq /\ highestPersistedSeq <= commits - 1
      /\ \A d \in log : d.seq <= highestPersistedSeq
      /\ \A m \in Models : snapseq[m] <= highestPersistedSeq
  <2>1. commits \in Nat /\ commits - 1 \in Int /\ commits - 1 >= -1
    BY DEF TypeOK, Ids
  <2>2. \A d \in log : d.seq \in Nat /\ d.seq <= commits - 1
    BY <2>1 DEF TypeOK, Deltas, Issued
  <2>3. \A m \in Models : snapseq[m] <= commits - 1
    BY <2>1 DEF TypeOK, Issued
  <2>4. log \subseteq Deltas /\ snapseq \in [Models -> Int]
    BY DEF TypeOK
  <2> QED
    BY <2>1, <2>2, <2>3, <2>4, HighestProperty
<1>5. TypeOK'
  <2>1. mem' \in [Cells -> Ids]
    BY <1>1, <1>3 DEF Recovered
  <2>2. deltaSeq' \in Nat
    BY <1>1, <1>4
  <2>3. pendingDeltas' \subseteq Nat
    BY DEF Boot, Seqs, TypeOK, Deltas
  <2>4. dirtyModels' \subseteq Models /\ dirtyEntries' \subseteq Entries
    BY LayoutAssumption DEF Boot, ModelsOf, CellModel
  <2>5. pc' \in {"down", "idle", "ledger", "delta", "flush"}
    BY <1>1
  <2> QED
    BY <1>1, <2>1, <2>2, <2>3, <2>4, <2>5 DEF TypeOK
<1>6. CounterAhead'
  <2>1. commits \in Nat /\ (\A d \in log : d.seq \in Int) /\ \A m \in Models : snapseq[m] \in Int
    BY DEF TypeOK, Ids, Deltas
  <2> QED
    BY <1>1, <1>4, <2>1 DEF CounterAhead
<1>7. Issued' /\ CommitIsNewest' /\ FlushCovers'
  <2>1. written = {}
    BY <1>1 DEF FlushCovers
  <2> QED
    BY <1>1, <1>3, <2>1 DEF Issued, CommitIsNewest, FlushCovers
<1>8. SavedOrDirty'
  <2>1. written' = {}
    BY <1>1 DEF FlushCovers
  <2>2. ASSUME NEW c \in Cells, EntryOf[c] \notin dirtyEntries'
        PROVE  snap[c] = Recovered[c]
    <3>1. Live(c) = {}
      BY <2>2 DEF Boot
    <3> QED
      BY <3>1 DEF Recovered
  <2> QED
    BY <1>1, <2>1, <2>2 DEF SavedOrDirty
<1>9. MemoryAhead' /\ AcceptedCommitsSurvive' /\ RefusedOnlyIfRefusable'
  BY <1>1, <1>2, <1>3 DEF MemoryAhead, AcceptedCommitsSurvive, RefusedOnlyIfRefusable, Ids
<1>10. LedgerFirst'
  <2>1. \A c \in Cells : Ledgered(Recovered[c])
    <3>1. \A c \in Cells : Live(c) = {} => Ledgered(Recovered[c])
      BY RecoveredProperty DEF LedgerFirst
    <3>2. \A c \in Cells : Live(c) # {} => Ledgered(Recovered[c])
      BY RecoveredProperty DEF LedgerFirst, Live
    <3> QED
      BY <3>1, <3>2
  <2> QED
    BY <1>1, <2>1 DEF LedgerFirst, Ledgered
<1> QED
  BY <1>5, <1>6, <1>7, <1>8, <1>9, <1>10

LEMMA NextIInv == IInv /\ [Next]_vars => IInv'
<1> SUFFICES ASSUME IInv, [Next]_vars
             PROVE  IInv'
  OBVIOUS
<1>1. CASE \E cells \in WriteSets, hasTransitions \in BOOLEAN :
              BeginCommit(cells, hasTransitions)
  BY <1>1, BeginCommitIInv
<1>2. CASE CommitStep
  BY <1>2, LedgerStepIInv, WriteDeltaIInv, UnloggedCommitIInv DEF CommitStep
<1>3. CASE StartFlush
  BY <1>3, FlushEdgeIInv
<1>4. CASE FlushStep
  BY <1>4, FlushEntryIInv, FlushSnapseqIInv, FlushDeleteIInv, FlushEdgeIInv DEF FlushStep
<1>5. CASE Kill
  BY <1>5, KillIInv
<1>6. CASE Boot
  BY <1>6, BootIInv
<1>7. CASE UNCHANGED vars
  <2>1. /\ UNCHANGED <<pc, mem, tx, deltaSeq, dirtyModels, dirtyEntries, pendingDeltas,
                       flushTimer, coveredSeq, written>>
        /\ UNCHANGED <<snap, snapseq, log, ledger>>
        /\ UNCHANGED <<commits, tracked, refused, lastAccepted>>
    BY <1>7 DEF vars, process, disk, history
  <2>2. Recovered' = Recovered
    BY <2>1, RecoveredFrame
  <2>3. TypeOK'
    BY <2>1 DEF IInv, TypeOK
  <2>4. CounterAhead' /\ Issued' /\ CommitIsNewest' /\ FlushCovers'
    BY <2>1 DEF IInv, CounterAhead, Issued, CommitIsNewest, FlushCovers
  <2>5. SavedOrDirty' /\ LedgerFirst' /\ RefusedOnlyIfRefusable'
    BY <2>1 DEF IInv, SavedOrDirty, LedgerFirst, Ledgered, RefusedOnlyIfRefusable
  <2>6. MemoryAhead' /\ AcceptedCommitsSurvive'
    BY <2>1, <2>2 DEF IInv, MemoryAhead, AcceptedCommitsSurvive
  <2> QED
    BY <2>3, <2>4, <2>5, <2>6 DEF IInv
<1> QED
  BY <1>1, <1>2, <1>3, <1>4, <1>5, <1>6, <1>7 DEF Next

(* The inductive invariant holds in every reachable state, for any models, *)
(* entries, cells, refusals and number of commits.                         *)
THEOREM InductiveInvariant == Spec => []IInv
BY InitIInv, NextIInv, PTL DEF Spec

(* Every variable of the apply runtime and of its storage has its type.    *)
THEOREM TypeCorrectness == Spec => []TypeOK
<1>1. IInv => TypeOK
  BY DEF IInv
<1> QED
  BY <1>1, InductiveInvariant, PTL

(* A commit whose delta the storage accepted is never lost, wherever the   *)
(* process is killed and whatever else the storage refuses.                *)
THEOREM AcceptedCommitsAreDurable == Spec => []AcceptedCommitsSurvive
<1>1. IInv => AcceptedCommitsSurvive
  BY DEF IInv
<1> QED
  BY <1>1, InductiveInvariant, PTL

(* A kill loses nothing but commits whose delta the storage refused.       *)
THEOREM KillLosesOnlyRefused == Spec => []OnlyRefusedIsVolatile
<1>1. IInv => OnlyRefusedIsVolatile
  BY DEF IInv, MemoryAhead, OnlyRefusedIsVolatile
<1> QED
  BY <1>1, InductiveInvariant, PTL

(* No row of a tracked commit comes back without its ledger record.        *)
THEOREM LedgerOutlivesRows == Spec => []LedgerPrecedesRows
<1>1. IInv => LedgerPrecedesRows
  <2> SUFFICES ASSUME IInv, NEW c \in Cells
               PROVE  Ledgered(Recovered[c])
    BY DEF LedgerPrecedesRows, Ledgered
  <2>1. Live(c) = {} => Ledgered(Recovered[c])
    BY RecoveredProperty DEF IInv, LedgerFirst
  <2>2. Live(c) # {} => Ledgered(Recovered[c])
    BY RecoveredProperty DEF IInv, LedgerFirst, Live
  <2> QED
    BY <2>1, <2>2
<1> QED
  BY <1>1, InductiveInvariant, PTL

(* What a step does to the state a boot would show: it leaves a cell as it *)
(* was, or moves it to a newer commit.                                     *)
LEMMA StepMovesForward ==
  ASSUME IInv, [Next]_vars, NEW c \in Cells
  PROVE  /\ Recovered[c] \in Ids
         /\ Recovered'[c] = Recovered[c] \/ Recovered'[c] = mem[c] \/ Recovered'[c] = tx.id
         /\ Recovered'[c] >= Recovered[c]
<1> USE DEF IInv
<1>1. Recovered[c] \in Ids /\ Recovered[c] <= commits
  BY RecoveredProperty
<1>2. pc # "down" => Recovered[c] <= mem[c] /\ mem[c] \in Ids
  BY DEF MemoryAhead, TypeOK
<1>3. CASE WriteDelta
  <2>1. tx.id = commits /\ tx.id \in Ids
    BY <1>3 DEF WriteDelta, CommitIsNewest, TypeOK
  <2> QED
    BY <1>1, <1>3, <2>1, RecoveredWriteDelta DEF Ids
<1>4. CASE \E e \in Entries : FlushEntry(e)
  <2>1. pc = "flush"
    BY <1>4 DEF FlushEntry
  <2> QED
    BY <1>1, <1>2, <1>4, <2>1, RecoveredFlushEntry DEF Ids
<1>5. CASE \E m \in Models : FlushSnapseq(m)
  <2>1. PICK m \in Models : FlushSnapseq(m)
    BY <1>5
  <2>2. pc = "flush" /\ written = EntriesOf(m)
    BY <2>1 DEF FlushSnapseq
  <2>3. CellModel(c) = m => snap[c] = mem[c]
    BY <2>2 DEF SavedOrDirty, EntriesOf, CellModel
  <2> QED
    BY <1>1, <1>2, <2>1, <2>2, <2>3, RecoveredFlushSnapseq DEF Ids
<1>6. CASE \E d \in log : FlushDelete(d)
  BY <1>1, <1>6, RecoveredFlushDelete DEF Ids
<1>7. CASE UNCHANGED <<log, snap, snapseq>>
  BY <1>1, <1>7, RecoveredFrame DEF Ids
<1>8. \/ WriteDelta
      \/ \E e \in Entries : FlushEntry(e)
      \/ \E m \in Models : FlushSnapseq(m)
      \/ \E d \in log : FlushDelete(d)
      \/ UNCHANGED <<log, snap, snapseq>>
  BY DEF Next, CommitStep, FlushStep, BeginCommit, WriteLedger, RefuseLedger, RefuseDelta,
         NoDelta, StartFlush, FlushDone, FlushRefused, Kill, Boot, vars, disk
<1> QED
  BY <1>3, <1>4, <1>5, <1>6, <1>7, <1>8

(* What a boot would show never goes back.                                 *)
THEOREM RecoveryIsMonotone == Spec => RecoveryMovesForward
<1>1. IInv /\ [Next]_vars => [\A c \in Cells : Recovered'[c] >= Recovered[c]]_vars
  BY StepMovesForward
<1> QED
  BY <1>1, InductiveInvariant, PTL DEF Spec, RecoveryMovesForward

(* When the storage refuses no delta, the state a boot would show moves by *)
(* whole commits only: the runtime implements DurableStore.                *)
THEOREM ImplementsDurableStore ==
  ASSUME "delta" \notin Refusable
  PROVE  Spec => CommitsAreAtomic
<1>1. Init => Durable!Init
  BY DEF Init, Durable!Init, Recovered, Live
<1>2. IInv /\ [Next]_vars => [Durable!Next]_Recovered
  <2> SUFFICES ASSUME IInv, [Next]_vars
               PROVE  Durable!Next \/ Recovered' = Recovered
    OBVIOUS
  <2> USE DEF IInv
  <2>1. \A c \in Cells : pc # "down" => mem[c] = Recovered[c]
    BY DEF MemoryAhead, RefusedOnlyIfRefusable
  <2>2. CASE WriteDelta
    <3>1. tx.cells # {} /\ tx.cells \in SUBSET Cells /\ tx.id = commits /\ tx.id \in Ids
      BY <2>2 DEF WriteDelta, CommitIsNewest, TypeOK
    <3>2. \A c \in Cells : Recovered[c] < tx.id
      BY <2>1, <2>2 DEF WriteDelta, CommitIsNewest
    <3>3. tx.id \in 1 .. MaxCommits
      BY <2>2, <3>1, BoundAssumption DEF WriteDelta, CommitIsNewest, TypeOK, Ids
    <3>4. Recovered' = [c \in Cells |-> IF c \in tx.cells THEN tx.id ELSE Recovered[c]]
      BY <2>2, RecoveredWriteDelta DEF Recovered
    <3>5. Durable!Commit(tx.id, tx.cells)
      BY <3>1, <3>2, <3>4 DEF Durable!Commit
    <3> QED
      BY <3>1, <3>3, <3>5 DEF Durable!Next
  <2>3. CASE ~ WriteDelta
    <3>1. \A c \in Cells : Recovered'[c] = Recovered[c]
      <4>1. CASE \E e \in Entries : FlushEntry(e)
        BY <2>1, <4>1, RecoveredFlushEntry DEF FlushEntry
      <4>2. CASE \E m \in Models : FlushSnapseq(m)
        <5>1. PICK m \in Models : FlushSnapseq(m)
          BY <4>2
        <5>2. pc = "flush" /\ written = EntriesOf(m)
          BY <5>1 DEF FlushSnapseq
        <5>3. \A c \in Cells : CellModel(c) = m => snap[c] = mem[c]
          BY <5>2 DEF SavedOrDirty, EntriesOf, CellModel
        <5> QED
          BY <2>1, <5>1, <5>2, <5>3, RecoveredFlushSnapseq
      <4>3. CASE \E d \in log : FlushDelete(d)
        BY <4>3, RecoveredFlushDelete
      <4>4. CASE UNCHANGED <<log, snap, snapseq>>
        BY <4>4, RecoveredFrame
      <4> QED
        BY <2>3, <4>1, <4>2, <4>3, <4>4
        DEF Next, CommitStep, FlushStep, BeginCommit, WriteLedger, RefuseLedger, RefuseDelta,
            NoDelta, StartFlush, FlushDone, FlushRefused, Kill, Boot, vars, disk
    <3>2. Recovered = [c \in Cells |-> Recovered[c]] /\ Recovered' = [c \in Cells |-> Recovered'[c]]
      BY DEF Recovered
    <3> QED
      BY <3>1, <3>2
  <2> QED
    BY <2>2, <2>3
<1> QED
  BY <1>1, <1>2, InductiveInvariant, PTL DEF Spec, CommitsAreAtomic, Durable!Spec

=============================================================================
