------------------------------ MODULE TailCut ------------------------------
(***************************************************************************)
(* What boot does with a delta it cannot use (core/apply/deltaLog.ts       *)
(* readDeltaLog, core/apply/transaction.ts replayPersistedDeltas).  The    *)
(* first unusable delta cuts the log: it and every later delta are         *)
(* removed, then every persisted query record, one storage write each.     *)
(*                                                                         *)
(* DeltaLog shows what replay makes of a log whose deltas are all good; a  *)
(* storage write is atomic there as here.  This module has one model, so a *)
(* commit is its number and a store is the set of commits it has applied.  *)
(* The process may be killed at any write, inside the cut too; the history *)
(* variables removed and torn say what a cut cut short has taken away.     *)
(***************************************************************************)
EXTENDS Integers, FiniteSets

CONSTANTS
    Queries,     \* identities of persisted query records
    MaxCommits,  \* bound on the number of commits
    MaxDamage    \* bound on the number of deltas that become unusable

ASSUME BoundAssumption ==
    /\ MaxCommits \in Nat
    /\ MaxDamage \in Nat

VARIABLES
    pc,        \* "down", "cut-deltas", "cut-queries", "replay" or "running"
    mem,       \* the commits the in-memory store has applied
    deltaSeq,  \* sequence number of the next delta
    cut,       \* sequence numbers of the deltas still to be removed
    replayed,  \* replay has run: after the cut the application starts
    snap,      \* the commits in the snapshot
    snapseq,   \* the highest delta the snapshot covers
    log,       \* the delta:<seq> keys
    queries,   \* per identity, the store its query record was written over
    commits,   \* commits so far
    base,      \* history: the store each commit was applied to
    removed,   \* history: the commits whose deltas the running cut has removed
    torn,      \* history: the commits removed by cuts that a kill interrupted
    damaged    \* deltas damaged so far

process == <<pc, mem, deltaSeq, cut, replayed>>
disk    == <<snap, snapseq, log, queries>>
holes   == <<removed, torn>>
vars    == <<process, disk, commits, base, holes, damaged>>

Commits  == 1 .. MaxCommits
NoRecord == {-1}
Damages  == {"stale", "broken", "unappliable"}

Init ==
    /\ pc = "running"
    /\ mem = {}
    /\ deltaSeq = 0
    /\ cut = {}
    /\ replayed = TRUE
    /\ snap = {}
    /\ snapseq = -1
    /\ log = {}
    /\ queries = [q \in Queries |-> NoRecord]
    /\ commits = 0
    /\ base = [t \in Commits |-> {}]
    /\ removed = {}
    /\ torn = {}
    /\ damaged = 0

-----------------------------------------------------------------------------
\* The session: a commit with its delta, as DeltaLog's BeginCommit and WriteDelta.
Commit ==
    /\ pc = "running"
    /\ commits < MaxCommits
    /\ commits' = commits + 1
    /\ base' = [base EXCEPT ![commits + 1] = mem]
    /\ mem' = mem \cup {commits + 1}
    /\ log' = log \cup {[seq |-> deltaSeq, tx |-> commits + 1, state |-> "ok"]}
    /\ deltaSeq' = deltaSeq + 1
    /\ UNCHANGED <<pc, cut, replayed, snap, snapseq, queries, holes, damaged>>

\* A fetch has landed: its record vouches for the rows in the store.
WriteQuery(q) ==
    /\ pc = "running"
    /\ queries' = [queries EXCEPT ![q] = mem]
    /\ UNCHANGED <<process, snap, snapseq, log, commits, base, holes, damaged>>

\* flushCacheSnapshots, up to the marker.
Snapshot ==
    /\ pc = "running"
    /\ snap' = mem
    /\ snapseq' = deltaSeq - 1
    /\ UNCHANGED <<process, log, queries, commits, base, holes, damaged>>

\* flushCacheSnapshots, the deltas the marker covers.
DeleteCovered(d) ==
    /\ pc = "running"
    /\ d.seq <= snapseq
    /\ log' = log \ {d}
    /\ UNCHANGED <<process, snap, snapseq, queries, commits, base, holes, damaged>>

Kill ==
    /\ pc # "down"
    /\ pc' = "down"
    /\ mem' = {}
    /\ cut' = {}
    /\ torn' = torn \cup removed
    /\ removed' = {}
    /\ UNCHANGED <<deltaSeq, replayed, disk, commits, base, damaged>>

(* While the application is down a delta becomes one the next version of   *)
(* the code reads as foreign ("stale"), cannot decode ("broken"), or       *)
(* decodes and fails to apply ("unappliable").                             *)
Damage(d, state) ==
    /\ pc = "down"
    /\ damaged < MaxDamage
    /\ d.state = "ok"
    /\ damaged' = damaged + 1
    /\ log' = (log \ {d}) \cup {[d EXCEPT !.state = state]}
    /\ UNCHANGED <<process, snap, snapseq, queries, commits, base, holes>>

-----------------------------------------------------------------------------
(* The boot. *)

Seqs(deltas) == {d.seq : d \in deltas}
Least(seqs)  == CHOOSE s \in seqs : \A t \in seqs : s <= t

highestPersistedSeq ==
    LET known == Seqs(log) \cup {snapseq, -1}
    IN  CHOOSE s \in known : \A t \in known : t <= s

\* Mutated TailFrom: only the bad delta itself is removed.
TailFromAlone(bad) == {Least(bad)}

\* The first bad delta and everything after it.
TailFrom(bad) == {s \in Seqs(log) : Least(bad) <= s}

\* createApplyRuntime and readDeltaLog's scan.
ReadLog ==
    LET bad == {d.seq : d \in {e \in log : e.state \in {"stale", "broken"}}} IN
    /\ pc = "down"
    /\ deltaSeq' = highestPersistedSeq + 1
    /\ mem' = snap
    /\ replayed' = FALSE
    /\ IF bad = {}
       THEN pc' = "replay" /\ cut' = {}
       ELSE pc' = "cut-deltas" /\ cut' = TailFrom(bad)
    /\ UNCHANGED <<disk, commits, base, holes, damaged>>

\* The keys are removed in ascending order.
CutDelta ==
    /\ pc = "cut-deltas"
    /\ cut # {}
    /\ log' = {d \in log : d.seq # Least(cut)}
    /\ cut' = cut \ {Least(cut)}
    /\ removed' = removed \cup {d.tx : d \in {e \in log : e.seq = Least(cut)}}
    /\ UNCHANGED <<pc, mem, deltaSeq, replayed, snap, snapseq, queries,
                   commits, base, torn, damaged>>

AfterCut == IF replayed THEN "running" ELSE "replay"

\* Mutated DeltasGone: a cut by the replay leaves the query records in place.
DeltasGoneAtOnce ==
    /\ pc = "cut-deltas"
    /\ cut = {}
    /\ pc' = IF replayed THEN "running" ELSE "cut-queries"
    /\ removed' = IF replayed THEN {} ELSE removed
    /\ UNCHANGED <<mem, deltaSeq, cut, replayed, disk, commits, base, torn, damaged>>

DeltasGone ==
    /\ pc = "cut-deltas"
    /\ cut = {}
    /\ pc' = "cut-queries"
    /\ UNCHANGED <<mem, deltaSeq, cut, replayed, disk, commits, base, holes, damaged>>

CutQuery(q) ==
    /\ pc = "cut-queries"
    /\ queries[q] # NoRecord
    /\ queries' = [queries EXCEPT ![q] = NoRecord]
    /\ UNCHANGED <<process, snap, snapseq, log, commits, base, holes, damaged>>

QueriesGone ==
    /\ pc = "cut-queries"
    /\ \A q \in Queries : queries[q] = NoRecord
    /\ pc' = AfterCut
    /\ removed' = {}
    /\ UNCHANGED <<mem, deltaSeq, cut, replayed, disk, commits, base, torn, damaged>>

(* replayPersistedDeltas: the uncovered deltas in order, up to the first   *)
(* one that does not apply.  Its batch is aborted, its tail is cut.        *)
Replay ==
    LET due == {d \in log : snapseq < d.seq}
        bad == {d.seq : d \in {e \in due : e.state = "unappliable"}}
        good == {d \in due : \A s \in bad : d.seq < s}
    IN
    /\ pc = "replay"
    /\ mem' = snap \cup {d.tx : d \in good}
    /\ replayed' = TRUE
    /\ IF bad = {}
       THEN pc' = "running" /\ cut' = {}
       ELSE pc' = "cut-deltas" /\ cut' = TailFrom(bad)
    /\ UNCHANGED <<deltaSeq, disk, commits, base, holes, damaged>>

Next ==
    \/ Commit
    \/ \E q \in Queries : WriteQuery(q)
    \/ Snapshot
    \/ \E d \in log : DeleteCovered(d)
    \/ Kill
    \/ \E d \in log, state \in Damages : Damage(d, state)
    \/ ReadLog
    \/ CutDelta
    \/ DeltasGone
    \/ \E q \in Queries : CutQuery(q)
    \/ QueriesGone
    \/ Replay

Spec == Init /\ [][Next]_vars

-----------------------------------------------------------------------------
(* Every component in range, and the counter past every number in use: a   *)
(* commit never takes the number of a delta or one a marker covers.        *)
TypeOK ==
    /\ \A s \in Seqs(log) \cup {snapseq} : s < deltaSeq
    /\ pc \in {"down", "cut-deltas", "cut-queries", "replay", "running"}
    /\ mem \in SUBSET Commits
    /\ snap \in SUBSET Commits
    /\ deltaSeq \in Nat
    /\ snapseq \in Nat \cup {-1}
    /\ log \subseteq [seq : Nat, tx : Commits, state : Damages \cup {"ok"}]
    /\ cut \in SUBSET Nat
    /\ replayed \in BOOLEAN
    /\ queries \in [Queries -> (SUBSET Commits) \cup {NoRecord}]
    /\ base \in [Commits -> SUBSET Commits]
    /\ removed \in SUBSET Commits
    /\ torn \in SUBSET Commits
    /\ commits \in 0 .. MaxCommits
    /\ damaged \in 0 .. MaxDamage

(* A query record that survived the boot vouches only for commits the      *)
(* store has, so that the reader who trusts it does not look through a     *)
(* hole (deltaLog.ts:41-43), whatever became unusable, over any boots and  *)
(* kills.  The one exception is a commit whose delta a cut had removed     *)
(* when it was killed: the records go last, and the next boot finds no     *)
(* damage that would make it evict them.                                   *)
TrustedIsWhole ==
    pc = "running" =>
        \A q \in Queries : queries[q] # NoRecord => queries[q] \subseteq mem \cup torn

(* The store never holds a commit without the commits it was applied to:   *)
(* replay builds on no delta that is gone, but for those a killed cut had  *)
(* removed (deltaLog.ts:55-56, in ascending order).                        *)
NothingBuiltOnAHole ==
    pc = "running" => \A t \in mem : base[t] \subseteq mem \cup torn

=============================================================================
