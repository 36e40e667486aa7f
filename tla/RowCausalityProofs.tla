-------------------------- MODULE RowCausalityProofs -------------------------
(***************************************************************************)
(* Proofs about RowCausality, for any fields, operations, queries, other   *)
(* clients, kills and events.  Typed and Ledgered describe the components; *)
(* on them stand three invariants, one per property: Shown and Unrivalled  *)
(* for who shows a field, Residue for what a failed patch leaves, Burial   *)
(* for a row the server has deleted.                                       *)
(***************************************************************************)
EXTENDS RowCausalityProps, FiniteSetTheorems, SequenceTheorems, WellFoundedInduction, TLAPS

Phases   == {"idle", "sent", "answered", "done"}
Results  == {"ok", "unknown", "error"}
Values   == Versions \cup {ValueOf[o] : o \in Ops}
Payloads == UNION {[S -> Values] : S \in SUBSET Fields}
Marks    == [row : Nat, existence : Nat, field : [Fields -> Nat]]
Entries  == [status : Statuses, born : Nat, began : Nat, rollbackRow : Rows]
Messages == [phase : Phases, base : Nat, data : Payloads, result : Results]

(* The fields an answer to a patch carries. *)
Scope(o) == IF WholeRow THEN Fields ELSE PatchedBy[o]

(* No revision is ahead of the last commit. *)
Past ==
    /\ epoch \in Nat
    /\ revisions \in Marks
    /\ revisions.row <= epoch /\ revisions.existence <= epoch
    /\ \A f \in Fields : revisions.field[f] <= epoch

(* The components, and what an answer carries. *)
Typed ==
    /\ row \in Rows /\ server \in Rows
    /\ tombstoned \in BOOLEAN /\ (tombstoned => row = NoRow)
    /\ clock \in Nat /\ troubles \in Versions
    /\ ops \in [Ops -> Entries]
    /\ reqs \in [Requests -> Messages]
    /\ \A r \in Requests : reqs[r].base <= epoch
    /\ \A q \in Queries : reqs[q].data \in Rows
    /\ \A o \in Patches :
        Answered(o, "ok") \/ Answered(o, "unknown") => DOMAIN reqs[o].data = Scope(o)
    /\ events \in Seq(Rows) /\ Len(events) <= MaxEvents

(* What the ledger says of an operation: when it began, that it is pending *)
(* while its request is under way, that it has captured a row.             *)
Ledgered ==
    \A o \in Ops :
        /\ ops[o].born <= ops[o].began /\ ops[o].began <= clock
        /\ ops[o].status = "pending" <=> o \in InFlight
        /\ IF ops[o].status = "none"
           THEN ops[o].born = 0 /\ ops[o].rollbackRow = NoRow
           ELSE ops[o].born > 0 /\ ops[o].rollbackRow # NoRow

(* No two operations have the same place in the index of the row. *)
Indexed ==
    \A o, p \in Ops : o # p /\ ops[o].born > 0 /\ ops[p].born > 0 =>
        ops[o].born # ops[p].born /\ ops[o].began # ops[p].began

(* A request that is not under way has no base. *)
Rested == \A r \in Requests : r \in InFlight \/ reqs[r].base = 0

(* Every begin is the first of its operation or a retry. *)
Counted == clock <= Cardinality({o \in Ops : ops[o].born > 0}) + troubles

(* A well-formed state. *)
Base == Past /\ Typed /\ Ledgered /\ Indexed

(* The row came or went under a request exactly when its presence is newer *)
(* than the request.                                                       *)
Causal ==
    \A r \in Requests :
        "row" \in touched[r] <=> r \in InFlight /\ revisions.existence > reqs[r].base

(* A pending patch whose row has not come or gone since. *)
Live(o) == o \in Pending \cap Patches /\ row # NoRow /\ "row" \notin touched[o]

(* A field that has not changed since shows the value of the patch. *)
Shown ==
    \A o \in Ops : Live(o) =>
        \A f \in PatchedBy[o] : revisions.field[f] <= reqs[o].base => row[f] = ValueOf[o]

(* Only a later patch of the field changes it. *)
Unrivalled ==
    \A o \in Ops : Live(o) =>
        \A f \in PatchedBy[o] : Later(o, f, Statuses) = {} => revisions.field[f] <= reqs[o].base

(* No two patches write the same value to the same field. *)
Apart ==
    \A o, p \in Patches : PatchedBy[o] \cap PatchedBy[p] # {} /\ ValueOf[o] = ValueOf[p] => o = p

(* Only o patches f. *)
Alone(o, f) == f \in PatchedBy[o] /\ \A p \in Patches \ {o} : f \notin PatchedBy[p]

(* x does not show the value of o in f. *)
Clean(x, o, f) == f \in DOMAIN x => x[f] # ValueOf[o]

(* The value of a patch the server has not stored is nowhere but in the    *)
(* row while the patch is under way, and in what a destroy has captured.   *)
ResidueOf(o, f) ==
    /\ Clean(server, o, f)
    /\ \A i \in DOMAIN events : Clean(events[i], o, f)
    /\ \A r \in Requests : Clean(reqs[r].data, o, f)
    /\ Clean(ops[o].rollbackRow, o, f)
    /\ ops[o].status = "none" => Clean(row, o, f) /\ \A d \in Ops : Clean(ops[d].rollbackRow, o, f)
    /\ ops[o].status = "failed" =>
        Clean(row, o, f) \/ \E d \in Destroys : ~Clean(ops[d].rollbackRow, o, f)
Residue == \A o \in Patches, f \in Fields : o \notin taken /\ Alone(o, f) => ResidueOf(o, f)

(* No destroy of the row has begun. *)
NoneBorn == \A d \in Destroys : ops[d].born = 0

(* After the burial a row without a destroy of its own is missing and      *)
(* newer than every answer; one with a destroy has its tombstone until the *)
(* destroy fails.                                                          *)
Burial ==
    /\ row = NoRow /\ ~pruned => tombstoned
    /\ \A i \in DOMAIN events : events[i] = NoRow => i = Len(events) /\ server = NoRow
    /\ buried => server = NoRow /\ events = <<>>
    /\ row = NoRow => buried \/ ~NoneBorn
    /\ buried /\ NoneBorn =>
        /\ row = NoRow
        /\ \A q \in Queries :
            reqs[q].phase = "answered" /\ reqs[q].data # NoRow => revisions.row > reqs[q].base
    /\ buried /\ ~pruned /\ row # NoRow =>
        \E d \in Destroys : ops[d].born > 0 /\ ops[d].status \in {"failed", "removed"}

-----------------------------------------------------------------------------
(* Rows and the choices of the model *)

\* A row is a function on the fields, and there are some.
LEMMA RowFacts ==
    /\ NoRow \in Rows /\ NoRow \notin Content /\ DOMAIN NoRow = {}
    /\ \A x \in Rows : x # NoRow => x \in [Fields -> Values]
    /\ \A g \in [Fields -> Values] : g \in Rows /\ g # NoRow
    /\ Rows \subseteq Payloads
<1>1. DOMAIN NoRow = {}
  BY DEF NoRow
<1>2. \A g \in [Fields -> Values] : g # NoRow
  BY <1>1, RowAssumption
<1>3. Content = [Fields -> Values]
  BY DEF Content, Values
<1>4. NoRow \in Payloads
  <2>1. NoRow \in [{} -> Values]
    BY DEF NoRow
  <2>2. {} \in SUBSET Fields
    OBVIOUS
  <2> QED BY <2>1, <2>2 DEF Payloads
<1>5. [Fields -> Values] \subseteq Payloads
  BY DEF Payloads
<1> QED BY <1>1, <1>2, <1>3, <1>4, <1>5 DEF Rows

\* Operations, requests and what they patch.
LEMMA OpFacts ==
    /\ Patches \subseteq Ops /\ Destroys \subseteq Ops /\ Patches \cap Destroys = {}
    /\ Ops = Patches \cup Destroys /\ Ops \subseteq Requests /\ Queries \subseteq Requests
    /\ Ops \cap Queries = {} /\ Requests = Ops \cup Queries
    /\ \A o \in Ops : PatchedBy[o] \subseteq Fields /\ ValueOf[o] \in Values /\ ValueOf[o] \notin Versions
    /\ \A d \in Destroys : PatchedBy[d] = {}
    /\ Versions \subseteq Values /\ Versions \subseteq Nat /\ 0 \in Versions
BY RowAssumption, BoundAssumption DEF Patches, Destroys, Requests, Values, Versions

\* Of some operations one is the oldest, by any age: those not older than
\* an operation are a finite set, and the least of these sets is that of
\* the last operation.
LEMMA LastExists ==
    ASSUME NEW S \in SUBSET Ops, S # {}, NEW age \in [Ops -> Nat]
    PROVE  \E o \in S : \A p \in S : age[p] <= age[o]
<1> DEFINE Since(o) == {p \in S : age[o] <= age[p]}
           T == {Since(o) : o \in S}
           R == StrictSubsetOrdering(Ops)
<1>1. IsWellFoundedOn(R, FiniteSubsetsOf(Ops))
  BY FS_StrictSubsetOrderingWellFounded
<1>2. T \subseteq FiniteSubsetsOf(Ops) /\ T # {}
  <2>1. \A o \in S : Since(o) \subseteq Ops /\ IsFiniteSet(Since(o))
    BY FS_Subset, RowAssumption
  <2>2. T # {}
    OBVIOUS
  <2> QED BY <2>1, <2>2 DEF FiniteSubsetsOf
<1>3. PICK x \in T : \A y \in T : ~ (<<y, x>> \in R)
  <2> HIDE DEF T, R
  <2> QED BY <1>1, <1>2, WFMin
<1>4. PICK o \in S : x = Since(o)
  OBVIOUS
<1>5. ASSUME NEW p \in S, ~ (age[p] <= age[o])
      PROVE  FALSE
  <2>1. age[p] \in Nat /\ age[o] \in Nat /\ \A q \in S : age[q] \in Nat
    OBVIOUS
  <2>2. Since(p) \in T /\ Since(p) \subseteq Since(o) /\ o \in Since(o) /\ o \notin Since(p)
    BY <1>5, <2>1
  <2>3. <<Since(p), Since(o)>> \in R
    BY <2>2 DEF StrictSubsetOrdering
  <2> QED BY <2>2, <2>3, <1>3, <1>4
<1> QED BY <1>5

\* What the two CHOOSEs over operations take.
LEMMA LastFacts ==
    ASSUME Typed, NEW S \in SUBSET Ops, S # {}
    PROVE  /\ LastBorn(S) \in S
           /\ \A ledger \in [Ops -> Entries] :
                /\ LastIndexed(S, ledger) \in S
                /\ \A p \in S : ledger[p].began <= ledger[LastIndexed(S, ledger)].began
<1>1. LastBorn(S) \in S
  <2>1. [p \in Ops |-> ops[p].born] \in [Ops -> Nat]
    BY DEF Typed, Entries
  <2>2. \E o \in S : \A p \in S : ops[p].born <= ops[o].born
    BY <2>1, LastExists
  <2> QED BY <2>2 DEF LastBorn
<1>2. ASSUME NEW ledger \in [Ops -> Entries]
      PROVE  /\ LastIndexed(S, ledger) \in S
             /\ \A p \in S : ledger[p].began <= ledger[LastIndexed(S, ledger)].began
  <2>1. [p \in Ops |-> ledger[p].began] \in [Ops -> Nat]
    BY DEF Entries
  <2>2. \E o \in S : \A p \in S : ledger[p].began <= ledger[o].began
    BY <2>1, LastExists
  <2> QED BY <2>2 DEF LastIndexed
<1> QED BY <1>1, <1>2

-----------------------------------------------------------------------------
(* What the gates return *)

\* An upsert of no operation leaves owned fields alone, and a missing row
\* where a tombstone or a newer destroy is.
LEMMA UpsertedFacts ==
    ASSUME Typed, NEW data \in Rows, NEW base \in Nat, NEW snapshot \in BOOLEAN, NEW new,
           new = Upserted(data, base, snapshot)
    PROVE  /\ new \in Rows
           /\ row # NoRow => new # NoRow
           /\ row = NoRow => new \in {NoRow, data}
           /\ row = NoRow /\ (revisions.row > base \/ (snapshot /\ tombstoned)) => new = NoRow
           /\ row # NoRow => \A f \in Fields : new[f] = row[f] \/ (f \in DOMAIN data /\ new[f] = data[f])
           /\ row # NoRow => \A f \in Fields : Owned(f) => new[f] = row[f]
<1>1. CASE new = row
  BY <1>1 DEF Typed
<1>2. CASE new # row /\ row = NoRow
  BY <1>2 DEF Upserted
<1>3. CASE new # row /\ row # NoRow
  <2>1. data # NoRow
    BY <1>3 DEF Upserted
  <2>2. row \in [Fields -> Values] /\ data \in [Fields -> Values]
    BY <1>3, <2>1, RowFacts DEF Typed
  <2>3. new = [f \in Fields |-> IF revisions.field[f] > base \/ Owned(f) THEN row[f] ELSE data[f]]
    BY <1>3 DEF Upserted
  <2>4. new \in [Fields -> Values]
    BY <2>2, <2>3
  <2>5. new \in Rows /\ new # NoRow
    BY <2>4, RowFacts
  <2> QED BY <1>3, <2>2, <2>3, <2>5
<1> QED BY <1>1, <1>2, <1>3

\* The answer to a patch changes what it carries where nothing is newer.
LEMMA PatchedFacts ==
    ASSUME Typed, Past, NEW data \in Payloads, NEW base \in Nat, NEW new, new = Patched(data, base)
    PROVE  /\ new \in Rows /\ (new = NoRow <=> row = NoRow)
           /\ row # NoRow => \A f \in Fields :
                \/ new[f] = row[f]
                \/ /\ f \in DOMAIN data /\ new[f] = data[f]
                   /\ revisions.field[f] <= base /\ revisions.existence <= base
           /\ row # NoRow /\ revisions.existence <= base => \A f \in DOMAIN data \cap Fields :
                revisions.field[f] <= base => new[f] = data[f]
<1>0. revisions.existence \in Nat
  BY DEF Past, Marks
<1>1. CASE row = NoRow \/ revisions.existence > base
  <2>1. new = row
    BY <1>1 DEF Patched
  <2>2. row = NoRow \/ ~ (revisions.existence <= base)
    BY <1>0, <1>1
  <2> QED BY <2>1, <2>2 DEF Typed
<1>2. CASE row # NoRow /\ ~ (revisions.existence > base)
  <2>1. row \in [Fields -> Values] /\ revisions.existence <= base
    BY <1>0, <1>2, RowFacts DEF Typed
  <2>2. \A f \in DOMAIN data : f \in Fields /\ data[f] \in Values
    BY DEF Payloads
  <2>3. new = [f \in Fields |->
                 IF f \in DOMAIN data /\ revisions.field[f] <= base THEN data[f] ELSE row[f]]
    BY <1>2 DEF Patched
  <2>4. new \in [Fields -> Values]
    BY <2>1, <2>2, <2>3
  <2>5. new \in Rows /\ new # NoRow
    BY <2>4, RowFacts
  <2>6. \A f \in Fields :
          new[f] = row[f] \/ (f \in DOMAIN data /\ new[f] = data[f] /\ revisions.field[f] <= base)
    BY <2>3
  <2>7. \A f \in DOMAIN data \cap Fields : revisions.field[f] <= base => new[f] = data[f]
    BY <2>3
  <2> QED BY <1>2, <2>1, <2>5, <2>6, <2>7
<1> QED BY <1>1, <1>2

\* A destroy takes the row away unless something newer is known of it.
LEMMA DestroyedFacts ==
    ASSUME NEW base
    PROVE  /\ Destroyed(base) \in {row, NoRow}
           /\ ~ (revisions.row > base) /\ ~ (revisions.existence > base) => Destroyed(base) = NoRow
BY DEF Destroyed

\* The optimistic write shows the operation's own values.
LEMMA OptimisticFacts ==
    ASSUME Typed, NEW o \in Ops, NEW new, new = Optimistic(o)
    PROVE  /\ new \in Rows
           /\ o \in Destroys => new = NoRow
           /\ o \in Patches => (new = NoRow <=> row = NoRow)
           /\ o \in Patches /\ row # NoRow =>
                \A f \in Fields : new[f] = IF f \in PatchedBy[o] THEN ValueOf[o] ELSE row[f]
<1>1. CASE o \in Destroys \/ row = NoRow
  BY <1>1, OpFacts, RowFacts DEF Optimistic
<1>2. CASE o \notin Destroys /\ row # NoRow
  <2>1. row \in [Fields -> Values] /\ ValueOf[o] \in Values
    BY <1>2, RowFacts, OpFacts DEF Typed
  <2>2. new = [f \in Fields |-> IF f \in PatchedBy[o] THEN ValueOf[o] ELSE row[f]]
    BY <1>2 DEF Optimistic
  <2>3. new \in [Fields -> Values]
    BY <2>1, <2>2
  <2> QED BY <1>2, <2>2, <2>3, RowFacts
<1> QED BY <1>1, <1>2

(* What a rollback of S makes of a field. *)
Undoes(o, f) == f \in PatchedBy[o] /\ (Rivals(o, f) # {} \/ row[f] = ValueOf[o])

RolledField(S, ledger, new, f) ==
    \/ \E p \in S \cap Patches :
        /\ f \in PatchedBy[p] /\ Rivals(p, f) # {}
        /\ new[f] = ValueOf[LastIndexed(Rivals(p, f), ledger)]
    \/ \E p \in S \cap Patches :
        /\ f \in PatchedBy[p] /\ Rivals(p, f) = {} /\ row[f] = ValueOf[p]
        /\ new[f] = ops[p].rollbackRow[f]
    \/ /\ \A p \in S \cap Patches : ~Undoes(p, f)
       /\ \/ new[f] = row[f]
          \/ ~Owned(f) /\ \E d \in S \cap Destroys : new[f] = ops[d].rollbackRow[f]

\* The fields a rollback restores, and to what.
LEMMA UndoFacts ==
    ASSUME NEW o, NEW ledger, NEW f
    PROVE  /\ f \in DOMAIN Undo(o, ledger) <=> Undoes(o, f)
           /\ Undoes(o, f) => Undo(o, ledger)[f] =
                IF Rivals(o, f) # {} THEN ValueOf[LastIndexed(Rivals(o, f), ledger)]
                ELSE ledger[o].rollbackRow[f]
BY DEF Undo, Undoes

\* A rollback gives a row, keeps a row that is there, and brings a missing
\* one back only with a destroy.
LEMMA RolledFacts ==
    ASSUME Typed, NEW S \in SUBSET Ops, NEW ledger \in [Ops -> Entries],
           \A o \in S : ops[o].rollbackRow # NoRow /\ ledger[o].rollbackRow = ops[o].rollbackRow,
           NEW new, new = RolledBack(S, ledger)
    PROVE  /\ new \in Rows
           /\ row # NoRow => new # NoRow
           /\ row = NoRow /\ S \cap Destroys = {} => new = NoRow
           /\ row = NoRow /\ S \cap Destroys # {} =>
                \E d \in S \cap Destroys : new = ops[d].rollbackRow
           /\ row # NoRow => \A f \in Fields : RolledField(S, ledger, new, f)
<1> DEFINE restored == S \cap Destroys
           undone(f) == {o \in S \cap Patches : f \in DOMAIN Undo(o, ledger)}
<1>1. restored # {} => LastBorn(restored) \in restored
  <2>1. restored \in SUBSET Ops
    OBVIOUS
  <2> QED BY <2>1, LastFacts
<1>2. \A f : undone(f) = {o \in S \cap Patches : Undoes(o, f)}
  BY UndoFacts
<1>3. \A f : undone(f) # {} => LastBorn(undone(f)) \in undone(f)
  <2>1. \A f : undone(f) \in SUBSET Ops
    OBVIOUS
  <2> HIDE DEF undone
  <2> QED BY <2>1, LastFacts
<1>4. \A o \in S : ops[o].rollbackRow \in [Fields -> Values]
  BY RowFacts DEF Typed, Entries
<1>5. CASE row = NoRow
  <2>1. new = IF restored = {} THEN row ELSE ops[LastBorn(restored)].rollbackRow
    BY <1>5 DEF RolledBack
  <2>2. restored # {} => ops[LastBorn(restored)].rollbackRow \in Rows
    BY <1>1 DEF Typed, Entries
  <2> HIDE DEF undone
  <2> QED BY <1>1, <1>5, <2>1, <2>2, RowFacts
<1>6. CASE row # NoRow
  <2>1. new = [f \in Fields |->
            IF undone(f) # {} THEN Undo(LastBorn(undone(f)), ledger)[f]
            ELSE IF restored # {} /\ ~Owned(f) THEN ops[LastBorn(restored)].rollbackRow[f]
            ELSE row[f]]
    BY <1>6 DEF RolledBack
  <2>2. row \in [Fields -> Values]
    BY <1>6, RowFacts DEF Typed
  <2>3. ASSUME NEW f \in Fields
        PROVE  RolledField(S, ledger, new, f) /\ new[f] \in Values
    <3>1. CASE undone(f) # {}
      <4>1. PICK p \in S \cap Patches : p = LastBorn(undone(f)) /\ Undoes(p, f)
        BY <1>2, <1>3, <3>1
      <4>2. new[f] = IF Rivals(p, f) # {} THEN ValueOf[LastIndexed(Rivals(p, f), ledger)]
                     ELSE ledger[p].rollbackRow[f]
        BY <2>1, <3>1, <4>1, UndoFacts
      <4>3. Rivals(p, f) \subseteq Ops
        BY DEF Rivals, Pending
      <4>4. CASE Rivals(p, f) # {}
        <5>1. LastIndexed(Rivals(p, f), ledger) \in Ops
          BY <4>3, <4>4, LastFacts
        <5> QED BY <4>1, <4>2, <4>4, <5>1, OpFacts DEF RolledField, Undoes
      <4>5. CASE Rivals(p, f) = {}
        <5>1. new[f] = ops[p].rollbackRow[f] /\ f \in PatchedBy[p] /\ row[f] = ValueOf[p]
          BY <4>1, <4>2, <4>5 DEF Undoes
        <5>2. new[f] \in Values
          BY <1>4, <5>1
        <5> QED BY <4>1, <4>5, <5>1, <5>2 DEF RolledField
      <4> QED BY <4>4, <4>5
    <3>2. CASE undone(f) = {}
      <4>1. \A p \in S \cap Patches : ~Undoes(p, f)
        BY <1>2, <3>2
      <4>2. new[f] = IF restored # {} /\ ~Owned(f) THEN ops[LastBorn(restored)].rollbackRow[f]
                     ELSE row[f]
        BY <2>1, <3>2
      <4>3. new[f] \in Values
        BY <1>1, <1>4, <2>2, <4>2
      <4> QED BY <1>1, <4>1, <4>2, <4>3 DEF RolledField
    <3> QED BY <3>1, <3>2
  <2>4. new \in [Fields -> Values]
    <3>1. new = [f \in Fields |-> new[f]]
      BY <2>1
    <3> QED BY <2>3, <3>1
  <2>5. new \in Rows /\ new # NoRow
    BY <2>4, RowFacts
  <2> QED BY <1>6, <2>3, <2>5
<1> QED BY <1>5, <1>6

-----------------------------------------------------------------------------
(* A commit *)

(* What a commit of the row new leaves: what it changed is newer than      *)
(* every request under way, the rest is as old as it was.                  *)
Noted(new) ==
    /\ row' = new /\ Past' /\ epoch <= epoch'
    /\ IF (row = NoRow) <=> (new = NoRow) THEN revisions'.existence = revisions.existence
       ELSE revisions'.existence > epoch
    /\ IF new = row THEN revisions'.row = revisions.row ELSE revisions'.row > epoch
    /\ \A f \in Fields :
        IF new = NoRow \/ (row # NoRow /\ row[f] = new[f])
        THEN revisions'.field[f] = revisions.field[f]
        ELSE revisions'.field[f] > epoch
    /\ tombstoned' = (new = NoRow /\ (row # NoRow \/ tombstoned))

\* Every commit is noted.
LEMMA CommitNotes ==
    ASSUME Past, Typed, NEW new \in Rows, NEW transitions \in BOOLEAN, Commit(new, transitions)
    PROVE  Noted(new)
<1>1. PICK n : n = IF new # row \/ transitions THEN epoch + 1 ELSE epoch
  OBVIOUS
<1>2. /\ row' = new /\ epoch' = n /\ revisions' = Revised(new, n)
      /\ tombstoned' = (new = NoRow /\ (row # NoRow \/ tombstoned))
  BY <1>1 DEF Commit
<1>3. n \in Nat /\ epoch \in Nat /\ epoch <= n /\ (new # row => n = epoch + 1)
  BY <1>1 DEF Past
<1>4. \A f \in Changed(row, new) : new # row
  BY DEF Changed
<1>5. "row" \in Moved(row, new) <=> ((row = NoRow) # (new = NoRow))
  BY RowAssumption DEF Moved, Changed
<1>6. \A f \in Fields : f \in Changed(row, new) <=> ~(new = NoRow \/ (row # NoRow /\ row[f] = new[f]))
  BY DEF Changed
<1>7. revisions' = [row |-> IF new # row THEN n ELSE revisions.row,
                    existence |-> IF "row" \in Moved(row, new) THEN n ELSE revisions.existence,
                    field |-> [f \in Fields |-> IF f \in Changed(row, new) THEN n ELSE revisions.field[f]]]
  BY <1>2 DEF Revised
<1>8. \A f \in Fields : revisions'.field[f] = IF f \in Changed(row, new) THEN n ELSE revisions.field[f]
  BY <1>7
<1>9. revisions.row \in Nat /\ revisions.existence \in Nat /\ \A f \in Fields : revisions.field[f] \in Nat
  BY DEF Past, Marks
<1>10. Past'
  <2>1. revisions' \in Marks
    BY <1>3, <1>7, <1>9 DEF Marks
  <2>2. revisions'.row <= n /\ revisions'.existence <= n
    BY <1>3, <1>7, <1>9 DEF Past
  <2>3. \A f \in Fields : revisions'.field[f] <= n
    BY <1>3, <1>8, <1>9 DEF Past
  <2> QED BY <1>2, <1>3, <2>1, <2>2, <2>3 DEF Past
<1>11. IF (row = NoRow) <=> (new = NoRow) THEN revisions'.existence = revisions.existence
       ELSE revisions'.existence > epoch
  BY <1>3, <1>5, <1>7
<1>12. IF new = row THEN revisions'.row = revisions.row ELSE revisions'.row > epoch
  BY <1>3, <1>7
<1>13. \A f \in Fields :
        IF new = NoRow \/ (row # NoRow /\ row[f] = new[f])
        THEN revisions'.field[f] = revisions.field[f]
        ELSE revisions'.field[f] > epoch
  BY <1>3, <1>4, <1>6, <1>8
<1> QED BY <1>2, <1>3, <1>10, <1>11, <1>12, <1>13 DEF Noted

\* What the requests under way see of a commit.
LEMMA WitnessFacts ==
    ASSUME NEW new, NEW r, Witness(new, r)
    PROVE  \A q \in Requests :
            IF q # r /\ q \in InFlight
            THEN "row" \in touched'[q] <=> "row" \in touched[q] \/ ((row = NoRow) # (new = NoRow))
            ELSE touched'[q] = {}
<1>1. "row" \in Moved(row, new) <=> ((row = NoRow) # (new = NoRow))
  BY RowAssumption DEF Moved, Changed
<1> QED BY <1>1 DEF Witness

-----------------------------------------------------------------------------
(* The components stay in range *)

\* The first state is well formed.
LEMMA InitBase == Init => Base
<1> SUFFICES ASSUME Init PROVE Base
  OBVIOUS
<1>1. row \in [Fields -> Values]
  BY OpFacts DEF Init
<1>2. Past
  BY DEF Init, Past, Marks, NoEpochs
<1>3. Typed
  <2>1. row \in Rows /\ row # NoRow
    BY <1>1, RowFacts
  <2>2. ops \in [Ops -> Entries]
    BY RowFacts DEF Init, Entries, Statuses
  <2>3. Idle \in Messages /\ reqs \in [Requests -> Messages]
    BY RowFacts DEF Init, Idle, Messages, Phases, Results
  <2>4. events \in Seq(Rows) /\ Len(events) <= MaxEvents
    BY BoundAssumption DEF Init
  <2>5. \A r \in Requests : reqs[r] = Idle
    BY DEF Init
  <2>6. (\A q \in Queries : reqs[q].data \in Rows) /\ \A r \in Requests : reqs[r].base <= epoch
    BY <2>5, RowFacts, OpFacts DEF Idle, Init
  <2>7. \A o \in Patches : ~Answered(o, "ok") /\ ~Answered(o, "unknown")
    BY <2>5, OpFacts DEF Idle, Answered
  <2> QED BY <2>1, <2>2, <2>3, <2>4, <2>6, <2>7, OpFacts DEF Init, Typed
<1>4. Ledgered
  <2>1. \A o \in Ops : o \notin InFlight
    BY OpFacts DEF Init, InFlight, Idle
  <2> QED BY <2>1 DEF Init, Ledgered
<1>5. Indexed
  BY DEF Init, Indexed
<1> QED BY <1>2, <1>3, <1>4, <1>5 DEF Base

\* The same row, the same ledger and the same clock, seen through Typed.
LEMMA TypedFacts ==
    ASSUME Typed
    PROVE  /\ \A o \in Ops : ops[o].status \in Statuses /\ ops[o].born \in Nat /\ ops[o].began \in Nat
                             /\ ops[o].rollbackRow \in Rows
           /\ \A r \in Requests : reqs[r].phase \in Phases /\ reqs[r].base \in Nat
                                  /\ reqs[r].data \in Payloads /\ reqs[r].result \in Results
BY DEF Typed, Entries, Messages

\* A begin, first or again: the entry of the operation and its request.
Opens(o) ==
    /\ ops'[o].status = "pending" /\ ops'[o].began = clock' /\ clock' = clock + 1
    /\ \/ /\ ops[o].status = "none" /\ row # NoRow /\ troubles' = troubles
          /\ ops'[o].born = clock + 1 /\ ops'[o].rollbackRow = row
       \/ /\ ops[o].status = "failed" /\ troubles' = troubles + 1 /\ troubles' \in Versions
          /\ ops'[o].born = ops[o].born /\ ops'[o].rollbackRow = ops[o].rollbackRow
    /\ ops'[o] \in Entries /\ ops' \in [Ops -> Entries] /\ \A p \in Ops \ {o} : ops'[p] = ops[p]
    /\ reqs'[o] \in Messages /\ reqs'[o].phase = "sent" /\ reqs'[o].base = epoch' /\ reqs'[o].data = NoRow
    /\ reqs' \in [Requests -> Messages] /\ \A r \in Requests \ {o} : reqs'[r] = reqs[r]
    /\ Noted(Optimistic(o)) /\ Optimistic(o) \in Rows /\ Witness(Optimistic(o), o)
    /\ UNCHANGED <<events, server, calls, taken, buried, pruned>>

\* Both begins open the request.
LEMMA OpensFacts ==
    ASSUME Base, NEW o \in Ops, Run(o) \/ Retry(o)
    PROVE  Opens(o)
<1>1. PICK record : BeginAndSend(o, record) /\
        \/ /\ ops[o].status = "none" /\ row # NoRow /\ troubles' = troubles
           /\ record = [Began(o) EXCEPT !.born = clock + 1, !.rollbackRow = row]
        \/ /\ ops[o].status = "failed" /\ Trouble /\ record = Began(o)
  BY DEF Run, Retry
<1>2. Past /\ Typed /\ clock \in Nat /\ row \in Rows /\ ops[o] \in Entries
  BY DEF Base, Typed
<1>3. Began(o) \in Entries /\ Began(o).status = "pending" /\ Began(o).began = clock + 1
      /\ Began(o).born = ops[o].born /\ Began(o).rollbackRow = ops[o].rollbackRow
  <2>1. PICK e : e = ops[o] /\ e \in Entries
    BY <1>2
  <2>2. Began(o) = [e EXCEPT !.status = "pending", !.began = clock + 1]
    BY <2>1 DEF Began
  <2>3. "pending" \in Statuses /\ clock + 1 \in Nat
    BY <1>2 DEF Statuses
  <2> QED BY <2>1, <2>2, <2>3 DEF Entries
<1>4. /\ record \in Entries /\ record.status = "pending" /\ record.began = clock + 1
      /\ \/ /\ ops[o].status = "none" /\ row # NoRow /\ troubles' = troubles
            /\ record.born = clock + 1 /\ record.rollbackRow = row
         \/ /\ ops[o].status = "failed" /\ troubles' = troubles + 1 /\ troubles' \in Versions
            /\ record.born = ops[o].born /\ record.rollbackRow = ops[o].rollbackRow
  <2>1. Trouble => troubles' = troubles + 1 /\ troubles' \in Versions
    BY <1>2, BoundAssumption DEF Trouble, Typed, Versions
  <2> QED BY <1>1, <1>2, <1>3, <2>1 DEF Entries
<1>5. /\ clock' = clock + 1 /\ ops' = [ops EXCEPT ![o] = record] /\ Commit(Optimistic(o), TRUE)
      /\ reqs' = [reqs EXCEPT ![o] = [Idle EXCEPT !.phase = "sent", !.base = epoch']]
      /\ Witness(Optimistic(o), o) /\ UNCHANGED <<events, server, calls, taken, buried, pruned>>
  BY <1>1 DEF BeginAndSend, Sent
<1>6. ops' \in [Ops -> Entries] /\ ops'[o] = record /\ \A p \in Ops \ {o} : ops'[p] = ops[p]
  BY <1>2, <1>4, <1>5 DEF Typed
<1>7. Optimistic(o) \in Rows
  BY <1>2, OptimisticFacts
<1>8. Noted(Optimistic(o))
  BY <1>2, <1>5, <1>7, CommitNotes
<1>9. PICK m : m = [Idle EXCEPT !.phase = "sent", !.base = epoch']
  OBVIOUS
<1>10. m \in Messages /\ m.phase = "sent" /\ m.base = epoch' /\ m.data = NoRow
  <2>1. epoch' \in Nat
    BY <1>8 DEF Noted, Past
  <2> QED BY <1>9, <2>1, RowFacts DEF Idle, Messages, Phases, Results
<1>11. reqs' \in [Requests -> Messages] /\ reqs'[o] = m /\ \A r \in Requests \ {o} : reqs'[r] = reqs[r]
  BY <1>2, <1>5, <1>9, <1>10, OpFacts DEF Typed
<1>12. /\ ops'[o].status = "pending" /\ ops'[o].began = clock' /\ clock' = clock + 1
       /\ \/ /\ ops[o].status = "none" /\ row # NoRow /\ troubles' = troubles
             /\ ops'[o].born = clock + 1 /\ ops'[o].rollbackRow = row
          \/ /\ ops[o].status = "failed" /\ troubles' = troubles + 1 /\ troubles' \in Versions
             /\ ops'[o].born = ops[o].born /\ ops'[o].rollbackRow = ops[o].rollbackRow
       /\ ops'[o] \in Entries
  BY <1>4, <1>5, <1>6
<1>13. reqs'[o] \in Messages /\ reqs'[o].phase = "sent" /\ reqs'[o].base = epoch' /\ reqs'[o].data = NoRow
  BY <1>10, <1>11
<1> QED BY <1>5, <1>6, <1>7, <1>8, <1>11, <1>12, <1>13 DEF Opens

\* A begin keeps the state well formed.
LEMMA OpensBase ==
    ASSUME Base, NEW o \in Ops, Opens(o)
    PROVE  Base'
<1>1. Past' /\ row' = Optimistic(o) /\ epoch <= epoch' /\ epoch \in Nat /\ epoch' \in Nat
  BY DEF Opens, Noted, Past, Base
<1>2. o \in Requests /\ o \notin Queries
  BY OpFacts
<1>3. Typed'
  <2>1. troubles' \in Versions /\ clock' \in Nat
    BY DEF Base, Typed, Opens
  <2>2. tombstoned' \in BOOLEAN /\ (tombstoned' => row' = NoRow)
    BY DEF Opens, Noted
  <2>3. \A r \in Requests : reqs'[r].base <= epoch'
    BY <1>1, TypedFacts DEF Opens, Base, Typed
  <2>4. \A q \in Queries : reqs'[q].data \in Rows
    BY <1>2, OpFacts DEF Opens, Base, Typed
  <2>5. \A p \in Patches : (Answered(p, "ok") \/ Answered(p, "unknown"))' => DOMAIN reqs'[p].data = Scope(p)
    BY OpFacts DEF Opens, Base, Typed, Answered
  <2> QED BY <1>1, <2>1, <2>2, <2>3, <2>4, <2>5 DEF Opens, Base, Typed
<1>4. Ledgered'
  <2>1. \A p \in Requests \ {o} : p \in InFlight' <=> p \in InFlight
    BY DEF Opens, InFlight
  <2>2. o \in InFlight'
    BY <1>2 DEF Opens, InFlight
  <2>3. ASSUME NEW p \in Ops \ {o}
        PROVE  /\ ops'[p].born <= ops'[p].began /\ ops'[p].began <= clock'
               /\ ops'[p].status = "pending" <=> p \in InFlight'
               /\ IF ops'[p].status = "none" THEN ops'[p].born = 0 /\ ops'[p].rollbackRow = NoRow
                  ELSE ops'[p].born > 0 /\ ops'[p].rollbackRow # NoRow
    BY <2>1, OpFacts, TypedFacts DEF Opens, Base, Typed, Ledgered
  <2>4. /\ ops'[o].born <= ops'[o].began /\ ops'[o].began <= clock'
        /\ ops'[o].born > 0 /\ ops'[o].rollbackRow # NoRow
    BY TypedFacts DEF Opens, Base, Typed, Ledgered
  <2>5. ops'[o].status = "pending"
    BY DEF Opens
  <2> QED BY <2>2, <2>3, <2>4, <2>5 DEF Ledgered
<1>5. Indexed'
  <2>1. ASSUME NEW p \in Ops \ {o}, ops'[p].born > 0
        PROVE  ops'[p].born # ops'[o].born /\ ops'[p].began # ops'[o].began
    <3>1. ops'[p] = ops[p] /\ ops[p].born <= clock /\ ops[p].began <= clock
          /\ ops[p].born \in Nat /\ ops[p].began \in Nat /\ clock \in Nat
      BY TypedFacts DEF Opens, Base, Typed, Ledgered
    <3>2. ops[o].status = "failed" => ops[o].born # ops[p].born
      BY <2>1, <3>1 DEF Base, Ledgered, Indexed
    <3> QED BY <3>1, <3>2 DEF Opens
  <2>2. \A p \in Ops \ {o} : ops'[p] = ops[p]
    BY DEF Opens
  <2> QED BY <2>1, <2>2 DEF Base, Indexed
<1> QED BY <1>1, <1>3, <1>4, <1>5 DEF Base

\* The end of a request: the entry, the request and the row of the commit.
Closes(o, new, status) ==
    /\ ops[o].status = "pending" /\ reqs[o].phase = "answered"
    /\ ops' \in [Ops -> Entries] /\ \A p \in Ops \ {o} : ops'[p] = ops[p]
    /\ ops'[o].status = status /\ ops'[o].born = ops[o].born /\ ops'[o].began = ops[o].began
    /\ ops'[o].rollbackRow = ops[o].rollbackRow
    /\ reqs' \in [Requests -> Messages] /\ \A r \in Requests \ {o} : reqs'[r] = reqs[r]
    /\ reqs'[o].phase = "done" /\ reqs'[o].base = 0 /\ reqs'[o].data = NoRow
    /\ Noted(new) /\ new \in Rows /\ Witness(new, o)
    /\ UNCHANGED <<clock, events, server, troubles, calls, taken, buried, pruned>>

\* The request of a finished call has no base and no data.
LEMMA FinishedFacts ==
    ASSUME Typed, NEW r \in Requests, Finished(r)
    PROVE  /\ reqs' \in [Requests -> Messages] /\ \A q \in Requests \ {r} : reqs'[q] = reqs[q]
           /\ reqs'[r].phase = "done" /\ reqs'[r].base = 0 /\ reqs'[r].data = NoRow
<1>1. PICK m : m = [Idle EXCEPT !.phase = "done"]
  OBVIOUS
<1>2. m \in Messages /\ m.phase = "done" /\ m.base = 0 /\ m.data = NoRow
  BY <1>1, RowFacts DEF Idle, Messages, Phases, Results
<1>3. reqs' = [reqs EXCEPT ![r] = m]
  BY <1>1 DEF Finished
<1> QED BY <1>2, <1>3 DEF Typed

\* Closing an operation changes its status only.
LEMMA CloseFacts ==
    ASSUME Typed, NEW o \in Ops, NEW status \in Statuses, Close(o, status)
    PROVE  /\ ops' \in [Ops -> Entries] /\ \A p \in Ops \ {o} : ops'[p] = ops[p]
           /\ ops'[o].status = status /\ ops'[o].born = ops[o].born /\ ops'[o].began = ops[o].began
           /\ ops'[o].rollbackRow = ops[o].rollbackRow
<1>1. PICK e : e = ops[o] /\ e \in Entries
  BY DEF Typed
<1>2. ops' = [ops EXCEPT ![o] = [e EXCEPT !.status = status]]
  BY <1>1 DEF Close
<1>3. PICK n : n = [e EXCEPT !.status = status]
  OBVIOUS
<1>4. n \in Entries /\ n.status = status /\ n.born = e.born /\ n.began = e.began
      /\ n.rollbackRow = e.rollbackRow
  BY <1>1, <1>3 DEF Entries
<1> QED BY <1>1, <1>2, <1>3, <1>4 DEF Typed

\* A settled request closes its pending operation.
LEMMA SettleFacts ==
    ASSUME Base, NEW o \in Ops, NEW new \in Rows, NEW status \in Statuses,
           reqs[o].phase = "answered", Settle(o, new, status)
    PROVE  Closes(o, new, status)
<1>1. Past /\ Typed /\ o \in Requests
  BY OpFacts DEF Base
<1>2. Noted(new)
  BY <1>1, CommitNotes DEF Settle
<1>3. ops[o].status = "pending"
  BY <1>1 DEF Base, Ledgered, InFlight
<1>4. Close(o, status) /\ Finished(o)
  BY DEF Settle
<1> QED BY <1>1, <1>2, <1>3, <1>4, CloseFacts, FinishedFacts DEF Closes, Settle, world

\* The three ways a request ends.
LEMMA AnswerFacts ==
    ASSUME Base, NEW o \in Ops
    PROVE  /\ AnswerOk(o) => Closes(o, Response(o), "committed") /\ reqs[o].result = "ok"
           /\ AnswerError(o) => Closes(o, RolledBack({o}, ops), "failed")
           /\ AnswerUnknown(o) => Closes(o, row, "delivery_unknown")
<1>1. Past /\ Typed /\ row \in Rows /\ ops \in [Ops -> Entries] /\ o \in Requests
  BY OpFacts DEF Base, Typed
<1>2. Response(o) \in Rows
  <2>1. reqs[o].data \in Payloads /\ reqs[o].base \in Nat
    BY <1>1, TypedFacts
  <2>2. Patched(reqs[o].data, reqs[o].base) \in Rows
    BY <1>1, <2>1, PatchedFacts
  <2>3. Destroyed(reqs[o].base) \in Rows
    BY <1>1, DestroyedFacts, RowFacts
  <2> QED BY <2>2, <2>3 DEF Response
<1>3. ASSUME AnswerError(o)
      PROVE  RolledBack({o}, ops) \in Rows
  <2>1. ops[o].rollbackRow # NoRow
    BY <1>1, <1>3 DEF AnswerError, Answered, Base, Ledgered, InFlight
  <2> QED BY <1>1, <2>1, RolledFacts
<1>4. {"committed", "failed", "delivery_unknown"} \subseteq Statuses
  BY DEF Statuses
<1>5. AnswerOk(o) => Closes(o, Response(o), "committed") /\ reqs[o].result = "ok"
  BY <1>2, <1>4, SettleFacts DEF AnswerOk, Answered
<1>6. AnswerError(o) => Closes(o, RolledBack({o}, ops), "failed")
  BY <1>3, <1>4, SettleFacts DEF AnswerError, Answered
<1>7. AnswerUnknown(o) => Closes(o, row, "delivery_unknown")
  BY <1>1, <1>4, SettleFacts DEF AnswerUnknown, Answered
<1> QED BY <1>5, <1>6, <1>7

\* What Base asks of a step that begins nothing.
LEMMA BaseKept ==
    ASSUME Base, Past', epoch <= epoch',
           row' \in Rows, server' \in Rows, tombstoned' \in BOOLEAN, tombstoned' => row' = NoRow,
           clock' = clock, troubles' \in Versions,
           events' \in Seq(Rows), Len(events') <= MaxEvents,
           ops' \in [Ops -> Entries], reqs' \in [Requests -> Messages],
           \A o \in Ops :
               /\ ops'[o].born = ops[o].born /\ ops'[o].rollbackRow = ops[o].rollbackRow
               /\ ops'[o].status = "none" <=> ops[o].status = "none"
               /\ ops'[o].status = "pending" <=> o \in InFlight',
           \/ \A o \in Ops : ops'[o].began = ops[o].began
           \/ \A o \in Ops : ops'[o].began = ops[o].born,
           \A r \in Requests : reqs'[r].base <= epoch',
           \A q \in Queries : reqs'[q].data \in Rows,
           \A o \in Patches : reqs'[o].phase = "answered" /\ reqs'[o].result # "error" =>
               DOMAIN reqs'[o].data = Scope(o)
    PROVE  Base'
<1>1. Typed'
  <2>1. clock' \in Nat
    BY DEF Base, Typed
  <2>2. \A o \in Patches : (Answered(o, "ok") \/ Answered(o, "unknown"))' => DOMAIN reqs'[o].data = Scope(o)
    BY DEF Answered
  <2> QED BY <2>1, <2>2 DEF Typed
<1>2. Ledgered'
  <2>1. ASSUME NEW o \in Ops
        PROVE  ops'[o].born <= ops'[o].began /\ ops'[o].began <= clock'
    <3>1. /\ ops[o].born <= ops[o].began /\ ops[o].began <= clock
          /\ ops[o].born \in Nat /\ ops[o].began \in Nat /\ clock \in Nat
      BY TypedFacts DEF Base, Ledgered, Typed
    <3>2. ops'[o].born = ops[o].born /\ ops'[o].began \in {ops[o].born, ops[o].began}
      OBVIOUS
    <3> QED BY ONLY <3>1, <3>2, clock' = clock
  <2>2. ASSUME NEW o \in Ops
        PROVE  /\ ops'[o].status = "pending" <=> o \in InFlight'
               /\ IF ops'[o].status = "none" THEN ops'[o].born = 0 /\ ops'[o].rollbackRow = NoRow
                  ELSE ops'[o].born > 0 /\ ops'[o].rollbackRow # NoRow
    BY DEF Base, Ledgered
  <2> QED BY <2>1, <2>2 DEF Ledgered
<1>3. Indexed'
  BY DEF Base, Indexed
<1> QED BY <1>1, <1>2, <1>3 DEF Base

\* The end of a request keeps the state well formed.
LEMMA ClosesBase ==
    ASSUME Base, NEW o \in Ops, NEW new \in Rows,
           NEW status \in {"committed", "failed", "delivery_unknown"}, Closes(o, new, status)
    PROVE  Base'
<1>1. Past /\ Typed /\ Ledgered /\ o \in Requests /\ o \notin Queries
  BY OpFacts DEF Base
<1>2. Past' /\ epoch <= epoch' /\ row' = new /\ epoch' \in Nat /\ epoch \in Nat
      /\ tombstoned' \in BOOLEAN /\ (tombstoned' => row' = NoRow)
  BY <1>1 DEF Closes, Noted, Past
<1>3. ASSUME NEW p \in Ops
      PROVE  /\ ops'[p].born = ops[p].born /\ ops'[p].rollbackRow = ops[p].rollbackRow
             /\ ops'[p].began = ops[p].began
             /\ ops'[p].status = "none" <=> ops[p].status = "none"
             /\ ops'[p].status = "pending" <=> p \in InFlight'
  <2>1. p # o => (p \in InFlight' <=> p \in InFlight)
    BY OpFacts DEF Closes, InFlight
  <2>2. o \notin InFlight'
    BY DEF Closes, InFlight
  <2> QED BY <1>1, <2>1, <2>2 DEF Closes, Ledgered
<1>4. \A r \in Requests : reqs'[r].base <= epoch'
  BY <1>1, <1>2, TypedFacts DEF Closes, Typed
<1>5. \A q \in Queries : reqs'[q].data \in Rows
  BY <1>1, OpFacts DEF Closes, Typed
<1>6. \A p \in Patches : reqs'[p].phase = "answered" /\ reqs'[p].result # "error" =>
               DOMAIN reqs'[p].data = Scope(p)
  <2>1. \A p \in Patches : p # o => reqs'[p] = reqs[p]
    BY OpFacts DEF Closes
  <2>2. \A p \in Patches : reqs[p].result \in Results
    BY <1>1, OpFacts, TypedFacts
  <2> QED BY <1>1, <2>1, <2>2 DEF Closes, Typed, Answered, Results
<1> QED BY <1>1, <1>2, <1>3, <1>4, <1>5, <1>6, BaseKept DEF Closes, Typed

\* What Base says of the answers at hand.
LEMMA AnswersBase ==
    ASSUME Base
    PROVE  \A p \in Patches : reqs[p].phase = "answered" /\ reqs[p].result # "error" =>
               DOMAIN reqs[p].data = Scope(p)
<1>1. \A p \in Patches : reqs[p].result \in Results
  BY OpFacts, TypedFacts DEF Base
<1> QED BY <1>1 DEF Base, Typed, Answered, Results

\* A step that lets the ledger and the requests alone.
LEMMA StillBase ==
    ASSUME Base, Past', epoch <= epoch',
           row' \in Rows, server' \in Rows, tombstoned' \in BOOLEAN, tombstoned' => row' = NoRow,
           clock' = clock, troubles' \in Versions,
           events' \in Seq(Rows), Len(events') <= MaxEvents, ops' = ops, reqs' = reqs
    PROVE  Base'
<1>1. \A o \in Ops : ops'[o].status = "pending" <=> o \in InFlight'
  BY DEF Base, Ledgered, InFlight
<1>2. \A r \in Requests : reqs'[r].base <= epoch'
  BY TypedFacts DEF Base, Typed, Past
<1>3. ops' \in [Ops -> Entries] /\ reqs' \in [Requests -> Messages]
      /\ \A q \in Queries : reqs'[q].data \in Rows
  BY DEF Base, Typed
<1> QED BY <1>1, <1>2, <1>3, AnswersBase, BaseKept

\* A discard writes the row as it is.
Discards(o) ==
    /\ ops[o].status \in {"failed", "delivery_unknown"} /\ Noted(row)
    /\ ops' \in [Ops -> Entries] /\ \A p \in Ops \ {o} : ops'[p] = ops[p]
    /\ ops'[o].status = "removed" /\ ops'[o].born = ops[o].born /\ ops'[o].began = ops[o].began
    /\ ops'[o].rollbackRow = ops[o].rollbackRow
    /\ UNCHANGED <<clock, reqs, events, server, troubles, calls, touched, taken, buried, pruned>>

\* A discard does what Discards says.
LEMMA DiscardFacts ==
    ASSUME Base, NEW o \in Ops, Discard(o)
    PROVE  Discards(o)
<1>1. Past /\ Typed /\ row \in Rows /\ "removed" \in Statuses
  BY DEF Base, Typed, Statuses
<1>2. Noted(row)
  BY <1>1, CommitNotes DEF Discard
<1> QED BY <1>1, <1>2, CloseFacts DEF Discard, Discards, world, history

\* A discard keeps the state well formed.
LEMMA DiscardsBase ==
    ASSUME Base, NEW o \in Ops, Discards(o)
    PROVE  Base'
<1>1. Past /\ Typed /\ Ledgered /\ row \in Rows
  BY DEF Base, Typed
<1>2. ASSUME NEW p \in Ops
      PROVE  /\ ops'[p].born = ops[p].born /\ ops'[p].rollbackRow = ops[p].rollbackRow
             /\ ops'[p].began = ops[p].began
             /\ ops'[p].status = "none" <=> ops[p].status = "none"
             /\ ops'[p].status = "pending" <=> p \in InFlight'
  BY <1>1 DEF Discards, Ledgered, InFlight
<1>3. Past' /\ epoch <= epoch' /\ row' = row /\ epoch' \in Nat /\ epoch \in Nat
      /\ tombstoned' \in BOOLEAN /\ (tombstoned' => row' = NoRow)
  BY <1>1 DEF Discards, Noted, Past
<1>4. \A r \in Requests : reqs'[r].base <= epoch'
  BY <1>1, <1>3, TypedFacts DEF Discards, Typed
<1>5. /\ ops' \in [Ops -> Entries] /\ reqs' = reqs /\ server' = server /\ troubles' = troubles
      /\ events' = events /\ clock' = clock
  BY DEF Discards
<1> QED BY <1>1, <1>2, <1>3, <1>4, <1>5, AnswersBase, BaseKept DEF Typed

\* The answer to a query, and an event.
LEMMA LandFacts ==
    ASSUME Base, NEW q \in Queries, NEW new,
           new = Upserted(reqs[q].data, reqs[q].base, TRUE), LandQuery(q)
    PROVE  /\ new \in Rows /\ Noted(new) /\ Witness(new, q) /\ reqs[q].phase = "answered"
           /\ reqs' \in [Requests -> Messages] /\ \A r \in Requests \ {q} : reqs'[r] = reqs[r]
           /\ reqs'[q].phase = "done" /\ reqs'[q].base = 0 /\ reqs'[q].data = NoRow
           /\ UNCHANGED <<ops, clock, events, server, troubles, calls, taken, buried, pruned>>
           /\ Base'
<1>1. Past /\ Typed /\ Ledgered /\ q \in Requests /\ reqs[q].data \in Rows /\ reqs[q].base \in Nat
  BY OpFacts, TypedFacts DEF Base, Typed
<1>2. new \in Rows
  BY <1>1, UpsertedFacts
<1>3. Commit(new, FALSE) /\ Finished(q) /\ Witness(new, q) /\ reqs[q].phase = "answered"
      /\ UNCHANGED <<ops, clock, events, server, troubles, calls, taken, buried, pruned>>
  BY DEF LandQuery, Answered, world
<1>4. Noted(new)
  BY <1>1, <1>2, <1>3, CommitNotes
<1>5. /\ reqs' \in [Requests -> Messages] /\ \A r \in Requests \ {q} : reqs'[r] = reqs[r]
      /\ reqs'[q].phase = "done" /\ reqs'[q].base = 0 /\ reqs'[q].data = NoRow
  BY <1>1, <1>3, FinishedFacts
<1>6. \A o \in Ops : reqs'[o] = reqs[o]
  BY <1>5, OpFacts
<1>7. \A o \in Ops : ops'[o].status = "pending" <=> o \in InFlight'
  BY <1>1, <1>3, <1>6, OpFacts DEF Ledgered, InFlight
<1>8. Past' /\ epoch <= epoch' /\ row' = new /\ epoch' \in Nat /\ epoch \in Nat
      /\ tombstoned' \in BOOLEAN /\ (tombstoned' => row' = NoRow)
  BY <1>1, <1>4 DEF Noted, Past
<1>9. \A r \in Requests : reqs'[r].base <= epoch'
  BY <1>1, <1>5, <1>8, TypedFacts DEF Typed
<1>10. (\A r \in Queries : reqs'[r].data \in Rows)
       /\ \A p \in Patches : reqs'[p].phase = "answered" /\ reqs'[p].result # "error" =>
               DOMAIN reqs'[p].data = Scope(p)
  BY <1>1, <1>5, <1>6, RowFacts, OpFacts, AnswersBase DEF Typed
<1>11. ops' \in [Ops -> Entries] /\ server' \in Rows /\ troubles' \in Versions
       /\ events' \in Seq(Rows) /\ Len(events') <= MaxEvents
  BY <1>1, <1>3 DEF Typed
<1>12. Base'
  BY <1>2, <1>3, <1>5, <1>7, <1>8, <1>9, <1>10, <1>11, BaseKept
<1> QED BY <1>2, <1>3, <1>4, <1>5, <1>12

\* What an event does to the row and to the requests under way.
LEMMA DeliverFacts ==
    ASSUME Base, Deliver
    PROVE  /\ Head(events) \in Rows /\ DeliveredEvent \in Rows /\ Noted(DeliveredEvent)
           /\ Head(events) = NoRow => DeliveredEvent = NoRow
           /\ Head(events) # NoRow => DeliveredEvent = Upserted(Head(events), epoch, FALSE)
           /\ ops' = ops /\ reqs' = reqs /\ server' = server
           /\ \A q \in Requests :
                IF q \in InFlight
                THEN "row" \in touched'[q] <=>
                        "row" \in touched[q] \/ ((row = NoRow) # (DeliveredEvent = NoRow))
                ELSE touched'[q] = {}
           /\ Base'
<1>1. Past /\ Typed /\ events \in Seq(Rows) /\ events # <<>> /\ epoch \in Nat
  BY DEF Base, Typed, Past, Deliver
<1>2. Head(events) \in Rows /\ Tail(events) \in Seq(Rows) /\ Len(Tail(events)) <= MaxEvents
  <2>1. Len(Tail(events)) = Len(events) - 1 /\ Len(events) <= MaxEvents /\ Len(events) \in Nat
        /\ MaxEvents \in Nat
    BY <1>1, BoundAssumption DEF Typed
  <2> QED BY <1>1, <2>1
<1>3. Head(events) = NoRow => DeliveredEvent = NoRow
  <2>1. ~ (revisions.row > epoch) /\ ~ (revisions.existence > epoch)
    BY <1>1 DEF Past, Marks
  <2> QED BY <2>1, DestroyedFacts DEF DeliveredEvent
<1>4. Head(events) # NoRow => DeliveredEvent = Upserted(Head(events), epoch, FALSE)
  BY DEF DeliveredEvent
<1>5. DeliveredEvent \in Rows
  BY <1>1, <1>2, <1>3, <1>4, RowFacts, UpsertedFacts
<1>6. Commit(DeliveredEvent, FALSE) /\ events' = Tail(events)
      /\ UNCHANGED <<ops, clock, reqs, server, troubles, calls, taken, pruned>>
      /\ touched' = [q \in Requests |-> IF q \in InFlight THEN touched[q] \cup Moved(row, DeliveredEvent) ELSE {}]
  BY DEF Deliver, world
<1>7. Noted(DeliveredEvent)
  BY <1>1, <1>5, <1>6, CommitNotes
<1>8. \A q \in Requests :
        IF q \in InFlight
        THEN "row" \in touched'[q] <=>
                "row" \in touched[q] \/ ((row = NoRow) # (DeliveredEvent = NoRow))
        ELSE touched'[q] = {}
  <2>1. "row" \in Moved(row, DeliveredEvent) <=> ((row = NoRow) # (DeliveredEvent = NoRow))
    BY RowAssumption DEF Moved, Changed
  <2> QED BY <1>6, <2>1 DEF InFlight
<1>9. Base'
  BY <1>1, <1>2, <1>5, <1>6, <1>7, StillBase DEF Noted, Typed
<1> QED BY <1>2, <1>3, <1>4, <1>5, <1>6, <1>7, <1>8, <1>9

\* A request leaves the client's state alone while the server answers it.
LEMMA ReplyFacts ==
    ASSUME Typed, NEW r \in Requests, NEW data \in Payloads, NEW result \in Results,
           Reply(r, data, result)
    PROVE  /\ reqs' \in [Requests -> Messages] /\ \A q \in Requests \ {r} : reqs'[q] = reqs[q]
           /\ reqs'[r].phase = "answered" /\ reqs'[r].base = reqs[r].base
           /\ reqs'[r].data = data /\ reqs'[r].result = result
<1>1. PICK m : m = reqs[r] /\ m \in Messages
  BY DEF Typed
<1>2. PICK n : n = [m EXCEPT !.phase = "answered", !.data = data, !.result = result]
  OBVIOUS
<1>3. n \in Messages /\ n.phase = "answered" /\ n.base = m.base /\ n.data = data /\ n.result = result
  BY <1>1, <1>2 DEF Messages, Phases
<1>4. reqs' = [reqs EXCEPT ![r] = n]
  BY <1>1, <1>2 DEF Reply
<1> QED BY <1>1, <1>3, <1>4 DEF Typed

\* A reply keeps the state well formed.
LEMMA ReplyBase ==
    ASSUME Base, NEW r \in Requests, NEW data \in Payloads, NEW result \in Results,
           Reply(r, data, result), reqs[r].phase = "sent", UNCHANGED <<client, troubles>>,
           r \in Queries => data \in Rows,
           r \in Patches /\ result # "error" => DOMAIN data = Scope(r),
           server' \in Rows, events' \in Seq(Rows), Len(events') <= MaxEvents
    PROVE  Base'
<1>1. Past /\ Typed /\ Ledgered
  BY DEF Base
<1>2. /\ reqs' \in [Requests -> Messages] /\ \A q \in Requests \ {r} : reqs'[q] = reqs[q]
      /\ reqs'[r].phase = "answered" /\ reqs'[r].base = reqs[r].base
      /\ reqs'[r].data = data /\ reqs'[r].result = result
  BY <1>1, ReplyFacts
<1>3. UNCHANGED <<row, tombstoned, epoch, revisions, ops, clock, troubles>>
  BY DEF client
<1>4. \A q \in Requests : q \in InFlight' <=> q \in InFlight
  BY <1>2 DEF InFlight
<1>5. \A o \in Ops : ops'[o].status = "pending" <=> o \in InFlight'
  BY <1>1, <1>3, <1>4, OpFacts DEF Ledgered
<1>6. \A q \in Requests : reqs'[q].base <= epoch'
  BY <1>1, <1>2, <1>3 DEF Typed
<1>7. (\A q \in Queries : reqs'[q].data \in Rows)
      /\ \A p \in Patches : reqs'[p].phase = "answered" /\ reqs'[p].result # "error" =>
               DOMAIN reqs'[p].data = Scope(p)
  BY <1>1, <1>2, OpFacts, AnswersBase DEF Typed
<1>8. Past' /\ epoch <= epoch'
  BY <1>1, <1>3 DEF Past
<1> QED BY <1>1, <1>2, <1>3, <1>5, <1>6, <1>7, <1>8, BaseKept DEF Typed

\* An event is appended or not.
LEMMA EmitsFacts ==
    ASSUME Typed, NEW new \in Rows, Emits(new)
    PROVE  /\ events' \in Seq(Rows) /\ Len(events') <= MaxEvents
           /\ \/ events' = events
              \/ /\ new # server /\ Len(events') = Len(events) + 1 /\ events'[Len(events')] = new
                 /\ \A i \in DOMAIN events : events'[i] = events[i]
                 /\ DOMAIN events' = DOMAIN events \cup {Len(events')}
<1>1. events \in Seq(Rows) /\ Len(events) \in Nat /\ Len(events) <= MaxEvents /\ MaxEvents \in Nat
  BY BoundAssumption DEF Typed
<1>2. CASE events' = events
  BY <1>1, <1>2
<1>3. CASE new # server /\ Len(events) < MaxEvents /\ events' = Append(events, new)
  <2>1. events' \in Seq(Rows) /\ Len(events') = Len(events) + 1 /\ events'[Len(events')] = new
        /\ \A i \in DOMAIN events : events'[i] = events[i]
    BY <1>1, <1>3
  <2>2. DOMAIN events' = 1 .. Len(events') /\ DOMAIN events = 1 .. Len(events)
    BY <1>1, <2>1
  <2>3. DOMAIN events' = DOMAIN events \cup {Len(events')}
    BY <1>1, <2>1, <2>2
  <2> QED BY <1>1, <1>3, <2>1, <2>3
<1> QED BY <1>2, <1>3 DEF Emits

\* What the server has, and what it makes of a patch.
LEMMA StoredFacts ==
    ASSUME Typed, server # NoRow
    PROVE  /\ server \in [Fields -> Values]
           /\ \A o \in Ops : Stored(o) \in [Fields -> Values] /\ Stored(o) \in Rows /\ Stored(o) # NoRow
                /\ \A f \in Fields : Stored(o)[f] = IF f \in PatchedBy[o] THEN ValueOf[o] ELSE server[f]
           /\ \A o \in Ops, new \in [Fields -> Values] :
                /\ Carried(o, new) \in Payloads /\ DOMAIN Carried(o, new) = Scope(o)
                /\ \A f \in Scope(o) : Carried(o, new)[f] = new[f]
<1>1. server \in [Fields -> Values]
  BY RowFacts DEF Typed
<1>2. ASSUME NEW o \in Ops
      PROVE  /\ Stored(o) \in [Fields -> Values]
             /\ \A f \in Fields : Stored(o)[f] = IF f \in PatchedBy[o] THEN ValueOf[o] ELSE server[f]
  BY <1>1, OpFacts DEF Stored
<1>3. ASSUME NEW o \in Ops, NEW new \in [Fields -> Values]
      PROVE  /\ Carried(o, new) \in Payloads /\ DOMAIN Carried(o, new) = Scope(o)
             /\ \A f \in Scope(o) : Carried(o, new)[f] = new[f]
  <2>1. Scope(o) \in SUBSET Fields
    BY OpFacts DEF Scope
  <2>2. Carried(o, new) \in [Scope(o) -> Values] /\ \A f \in Scope(o) : Carried(o, new)[f] = new[f]
    BY <2>1 DEF Carried, Scope
  <2> QED BY <2>1, <2>2 DEF Payloads
<1> QED BY <1>1, <1>2, <1>3, RowFacts

(* A step of the server. *)
Serves ==
    \/ \E q \in Queries : HandleQuery(q)
    \/ \E o \in Ops : Refuse(o)
    \/ \E o \in Patches : HandlePatch(o)
    \/ \E o \in Destroys : HandleDestroy(o)
    \/ \E f \in Fields : Write(f)
    \/ Delete

\* A step of the server keeps the state well formed.
LEMMA ServerBase ==
    ASSUME Base, Serves
    PROVE  Base'
<1>1. Typed /\ Past /\ server \in Rows /\ events \in Seq(Rows) /\ Len(events) <= MaxEvents
      /\ troubles \in Versions /\ NoRow \in Payloads /\ NoRow \in Rows
  BY RowFacts DEF Base, Typed
<1>2. ASSUME NEW q \in Queries, HandleQuery(q)
      PROVE  Base'
  <2>1. Reply(q, server, "ok") /\ reqs[q].phase = "sent" /\ q \in Requests /\ q \notin Patches
        /\ UNCHANGED <<client, events, server, troubles>>
    BY <1>2, OpFacts DEF HandleQuery, world
  <2> QED BY <1>1, <2>1, RowFacts, ReplyBase DEF Results
<1>3. ASSUME NEW o \in Ops, Refuse(o)
      PROVE  Base'
  <2>1. Reply(o, NoRow, "error") /\ reqs[o].phase = "sent" /\ o \in Requests
        /\ UNCHANGED <<client, events, server, troubles>>
    BY <1>3, OpFacts DEF Refuse, world
  <2> QED BY <1>1, <2>1, ReplyBase DEF Results
<1>4. ASSUME NEW o \in Patches, HandlePatch(o)
      PROVE  Base'
  <2>1. PICK new \in {Stored(o), server}, result \in {"ok", "unknown"} :
            server' = new /\ Emits(new) /\ Reply(o, Carried(o, new), result)
    BY <1>4 DEF HandlePatch
  <2>2. reqs[o].phase = "sent" /\ server # NoRow /\ UNCHANGED <<client, troubles>>
    BY <1>4 DEF HandlePatch
  <2>3. o \in Ops /\ o \in Requests /\ o \notin Queries /\ result \in Results
    BY OpFacts DEF Results
  <2>4. new \in [Fields -> Values] /\ new \in Rows
    BY <1>1, <2>2, <2>3, StoredFacts
  <2>5. Carried(o, new) \in Payloads /\ DOMAIN Carried(o, new) = Scope(o)
    BY <1>1, <2>2, <2>3, <2>4, StoredFacts
  <2>6. events' \in Seq(Rows) /\ Len(events') <= MaxEvents
    BY <1>1, <2>1, <2>4, EmitsFacts
  <2> QED BY <2>1, <2>2, <2>3, <2>4, <2>5, <2>6, ReplyBase
<1>5. ASSUME NEW o \in Destroys, HandleDestroy(o)
      PROVE  Base'
  <2>1. PICK result \in {"ok", "unknown"} : Reply(o, NoRow, result)
    BY <1>5 DEF HandleDestroy
  <2>2. /\ reqs[o].phase = "sent" /\ server' = NoRow /\ Emits(NoRow) /\ UNCHANGED <<client, troubles>>
        /\ o \in Requests /\ o \notin Patches /\ result \in Results
    BY <1>5, OpFacts DEF HandleDestroy, Results
  <2>3. events' \in Seq(Rows) /\ Len(events') <= MaxEvents
    BY <1>1, <2>2, EmitsFacts
  <2> QED BY <1>1, <2>1, <2>2, <2>3, ReplyBase
<1>6. ASSUME NEW new \in Rows, server' = new, Emits(new), Trouble, UNCHANGED <<client, reqs>>
      PROVE  Base'
  <2>1. events' \in Seq(Rows) /\ Len(events') <= MaxEvents
    BY <1>1, <1>6, EmitsFacts
  <2>2. troubles' \in Versions
    BY <1>1, <1>6, BoundAssumption DEF Trouble, Versions
  <2>3. UNCHANGED <<row, tombstoned, epoch, revisions, ops, clock, reqs>>
    BY <1>6 DEF client
  <2>4. Past' /\ epoch <= epoch'
    BY <1>1, <2>3 DEF Past
  <2> QED BY <1>1, <1>6, <2>1, <2>2, <2>3, <2>4, StillBase DEF Typed
<1>7. ASSUME NEW f \in Fields, Write(f)
      PROVE  Base'
  <2>1. server \in [Fields -> Values]
    BY <1>1, <1>7, StoredFacts DEF Write
  <2>2. troubles' \in Versions /\ server' = [server EXCEPT ![f] = troubles + 1] /\ troubles' = troubles + 1
    BY <1>1, <1>7, BoundAssumption DEF Write, Trouble, Versions
  <2>3. server' \in Rows
    BY <2>1, <2>2, OpFacts, RowFacts
  <2> QED BY <1>6, <1>7, <2>3 DEF Write
<1>8. CASE Delete
  BY <1>1, <1>6, <1>8 DEF Delete
<1> QED BY <1>2, <1>3, <1>4, <1>5, <1>7, <1>8 DEF Serves

\* A query that leaves, a pruned tombstone and a stutter keep the state well formed.
LEMMA SmallBase ==
    ASSUME Base, (\E q \in Queries : SendQuery(q)) \/ Prune \/ UNCHANGED vars
    PROVE  Base'
<1>1. Typed /\ Past
  BY DEF Base
<1>2. CASE UNCHANGED vars
  <2>1. UNCHANGED <<row, tombstoned, epoch, revisions, ops, clock, reqs, events, server, troubles>>
    BY <1>2 DEF vars, client, world
  <2> QED BY <1>1, <2>1, StillBase DEF Past, Typed
<1>3. CASE Prune
  <2>1. UNCHANGED <<row, epoch, revisions, ops, clock, reqs, events, server, troubles>> /\ tombstoned' = FALSE
    BY <1>3 DEF Prune, world
  <2>2. Past' /\ epoch <= epoch'
    BY <1>1, <2>1 DEF Past
  <2> QED BY <1>1, <2>1, <2>2, StillBase DEF Typed
<1>4. ASSUME NEW q \in Queries, SendQuery(q)
      PROVE  Base'
  <2>1. PICK m : m = [Idle EXCEPT !.phase = "sent", !.base = epoch]
    OBVIOUS
  <2>2. m \in Messages /\ m.phase = "sent" /\ m.base = epoch /\ m.data = NoRow
    BY <1>1, <2>1, RowFacts DEF Idle, Messages, Phases, Results, Past
  <2>3. reqs' = [reqs EXCEPT ![q] = m] /\ q \in Requests
        /\ UNCHANGED <<row, tombstoned, epoch, revisions, ops, clock, events, server, troubles>>
    BY <1>4, <2>1, OpFacts DEF SendQuery, client, world
  <2>4. reqs' \in [Requests -> Messages] /\ reqs'[q] = m /\ \A r \in Requests \ {q} : reqs'[r] = reqs[r]
    BY <1>1, <2>2, <2>3 DEF Typed
  <2>5. \A o \in Ops : ops'[o].status = "pending" <=> o \in InFlight'
    BY <2>3, <2>4, OpFacts DEF Base, Ledgered, InFlight
  <2>6. Past' /\ epoch <= epoch'
    BY <1>1, <2>3 DEF Past
  <2>7. \A r \in Requests : reqs'[r].base <= epoch'
    BY <1>1, <2>2, <2>3, <2>4, <2>6 DEF Typed, Past
  <2>8. \A r \in Queries : reqs'[r].data \in Rows
    BY <1>1, <2>2, <2>4, OpFacts, RowFacts DEF Typed
  <2>9. \A p \in Patches : reqs'[p].phase = "answered" /\ reqs'[p].result # "error" =>
               DOMAIN reqs'[p].data = Scope(p)
    BY <2>4, OpFacts, AnswersBase
  <2> QED BY <1>1, <2>3, <2>4, <2>5, <2>6, <2>7, <2>8, <2>9, BaseKept DEF Typed
<1> QED BY <1>2, <1>3, <1>4

\* A kill and the next boot: nothing is under way or pending afterwards.
Restarts(new) ==
    /\ new = RolledBack(Pending, Hydrated) /\ row' = new /\ new \in Rows
    /\ row # NoRow => new # NoRow
    /\ row = NoRow /\ Pending \cap Destroys = {} => new = NoRow
    /\ row = NoRow /\ Pending \cap Destroys # {} =>
        \E d \in Pending \cap Destroys : new = ops[d].rollbackRow
    /\ row # NoRow => \A f \in Fields : RolledField(Pending, Hydrated, new, f)
    /\ tombstoned' = (tombstoned /\ new = NoRow)
    /\ ops' \in [Ops -> Entries]
    /\ \A o \in Ops :
        /\ ops'[o].born = ops[o].born /\ ops'[o].began = ops[o].born
        /\ ops'[o].rollbackRow = ops[o].rollbackRow
        /\ ops'[o].status = IF o \in Pending THEN "failed" ELSE ops[o].status
    /\ \A r \in Requests : r \notin InFlight'
    /\ \A r \in Requests : reqs'[r].data \in {reqs[r].data, NoRow}
    /\ events' = <<>>
    /\ UNCHANGED <<clock, server, calls, taken, buried, pruned>>

\* The boot pass does what Restarts says, and leaves the state well formed.
LEMMA RestartFacts ==
    ASSUME Base, Rested, Restart, NEW new, new = RolledBack(Pending, Hydrated)
    PROVE  Restarts(new) /\ Base'
<1>1. Past /\ Typed /\ Ledgered /\ Pending \in SUBSET Ops
  BY DEF Base, Pending
<1>2. ASSUME NEW o \in Ops
      PROVE  /\ Hydrated[o] \in Entries /\ Hydrated[o].status = ops[o].status
             /\ Hydrated[o].born = ops[o].born /\ Hydrated[o].began = ops[o].born
             /\ Hydrated[o].rollbackRow = ops[o].rollbackRow
  <2>1. PICK e : e = ops[o] /\ e \in Entries
    BY <1>1 DEF Typed
  <2>2. Hydrated[o] = [e EXCEPT !.began = e.born]
    BY <2>1 DEF Hydrated
  <2> QED BY <2>1, <2>2 DEF Entries
<1>3. Hydrated \in [Ops -> Entries]
  <2>1. Hydrated = [o \in Ops |-> Hydrated[o]]
    BY DEF Hydrated
  <2> QED BY <1>2, <2>1
<1>4. \A o \in Pending : ops[o].rollbackRow # NoRow /\ Hydrated[o].rollbackRow = ops[o].rollbackRow
  BY <1>1, <1>2 DEF Ledgered, Pending
<1>5. /\ new \in Rows
      /\ row # NoRow => new # NoRow
      /\ row = NoRow /\ Pending \cap Destroys = {} => new = NoRow
      /\ row = NoRow /\ Pending \cap Destroys # {} =>
            \E d \in Pending \cap Destroys : new = ops[d].rollbackRow
      /\ row # NoRow => \A f \in Fields : RolledField(Pending, Hydrated, new, f)
  BY <1>1, <1>3, <1>4, RolledFacts
<1>6. PICK n \in {0, 1} : n = IF Pending = {} THEN 0 ELSE 1
  OBVIOUS
<1>7. /\ Trouble /\ row' = new /\ epoch' = n
      /\ revisions' = [NoEpochs EXCEPT
                    !.row = IF new # row THEN n ELSE 0,
                    !.existence = IF "row" \in Moved(row, new) THEN n ELSE 0,
                    !.field = [f \in Fields |-> IF f \in Changed(row, new) THEN n ELSE 0]]
      /\ tombstoned' = (tombstoned /\ new = NoRow)
      /\ ops' = [o \in Ops |-> IF o \in Pending THEN [Hydrated[o] EXCEPT !.status = "failed"] ELSE Hydrated[o]]
      /\ reqs' = [r \in Requests |-> IF r \in InFlight THEN [Idle EXCEPT !.phase = "done"] ELSE reqs[r]]
      /\ events' = <<>>
      /\ UNCHANGED <<clock, server, calls, taken, buried, pruned>>
  BY <1>6 DEF Restart
<1>8. ASSUME NEW o \in Ops
      PROVE  /\ ops'[o] \in Entries
             /\ ops'[o].born = ops[o].born /\ ops'[o].began = ops[o].born
             /\ ops'[o].rollbackRow = ops[o].rollbackRow
             /\ ops'[o].status = IF o \in Pending THEN "failed" ELSE ops[o].status
  <2>1. PICK e : e = Hydrated[o] /\ e \in Entries
    BY <1>2
  <2>2. ops'[o] = IF o \in Pending THEN [e EXCEPT !.status = "failed"] ELSE e
    BY <1>7, <2>1
  <2> QED BY <1>2, <2>1, <2>2 DEF Entries, Statuses
<1>9. ops' \in [Ops -> Entries]
  <2>1. ops' = [o \in Ops |-> ops'[o]]
    BY <1>7
  <2> QED BY <1>8, <2>1
<1>10. ASSUME NEW r \in Requests
       PROVE  /\ reqs'[r] \in Messages /\ reqs'[r].phase \notin {"sent", "answered"}
              /\ reqs'[r].base \in {reqs[r].base, 0} /\ reqs'[r].data \in {reqs[r].data, NoRow}
  <2>1. PICK m : m = [Idle EXCEPT !.phase = "done"]
    OBVIOUS
  <2>2. m \in Messages /\ m.phase = "done" /\ m.base = 0 /\ m.data = NoRow
    BY <2>1, RowFacts DEF Idle, Messages, Phases, Results
  <2>3. reqs'[r] = IF r \in InFlight THEN m ELSE reqs[r]
    BY <1>7, <2>1
  <2> QED BY <1>1, <2>2, <2>3 DEF Typed, InFlight
<1>11. reqs' \in [Requests -> Messages]
  <2>1. reqs' = [r \in Requests |-> reqs'[r]]
    BY <1>7
  <2> QED BY <1>10, <2>1
<1>12. Restarts(new)
  <2>1. \A r \in Requests : r \notin InFlight'
    BY <1>10 DEF InFlight
  <2> QED BY <1>5, <1>7, <1>8, <1>9, <1>10, <2>1 DEF Restarts
<1>13. Past'
  <2>1. epoch' \in Nat /\ n \in Nat /\ 0 <= n
    BY <1>7
  <2>2. revisions' = [row |-> IF new # row THEN n ELSE 0,
                      existence |-> IF "row" \in Moved(row, new) THEN n ELSE 0,
                      field |-> [f \in Fields |-> IF f \in Changed(row, new) THEN n ELSE 0]]
    BY <1>7 DEF NoEpochs
  <2>3. revisions' \in Marks
    BY <2>1, <2>2 DEF Marks
  <2>4. revisions'.row <= n /\ revisions'.existence <= n /\ \A f \in Fields : revisions'.field[f] <= n
    BY <2>1, <2>2
  <2> QED BY <1>7, <2>1, <2>3, <2>4 DEF Past
<1>14. \A o \in Ops :
         /\ ops'[o].status = "none" <=> ops[o].status = "none"
         /\ ops'[o].status = "pending" <=> o \in InFlight'
  BY <1>8, <1>10 DEF Pending, InFlight
<1>15. Base'
  <2>1. Typed'
    <3>1. troubles' \in Versions /\ clock' \in Nat
      BY <1>1, <1>7, BoundAssumption DEF Trouble, Versions, Typed
    <3>2. tombstoned' \in BOOLEAN /\ (tombstoned' => row' = NoRow)
      BY <1>1, <1>7 DEF Typed
    <3>3. \A r \in Requests : r \notin InFlight' /\ reqs'[r].phase # "answered"
      BY <1>10 DEF InFlight
    <3>4. \A r \in Requests : reqs'[r].base <= epoch'
      <4>1. \A r \in Requests : reqs'[r].base = IF r \in InFlight THEN 0 ELSE reqs[r].base
        BY <1>7 DEF Idle
      <4>2. \A r \in Requests : reqs'[r].base = 0
        BY <4>1 DEF Rested
      <4> QED BY <1>13, <4>2 DEF Past
    <3>5. \A q \in Queries : reqs'[q].data \in Rows
      BY <1>1, <1>10, RowFacts, OpFacts DEF Typed
    <3>6. \A p \in Patches : ~Answered(p, "ok")' /\ ~Answered(p, "unknown")'
      BY <3>3, OpFacts DEF Answered
    <3>7. events' \in Seq(Rows) /\ Len(events') <= MaxEvents
      BY <1>7, BoundAssumption
    <3> QED BY <1>1, <1>5, <1>7, <1>9, <1>11, <3>1, <3>2, <3>4, <3>5, <3>6, <3>7 DEF Typed
  <2>2. Ledgered'
    <3>1. ASSUME NEW o \in Ops
          PROVE  /\ ops'[o].born <= ops'[o].began /\ ops'[o].began <= clock'
                 /\ ops'[o].status = "pending" <=> o \in InFlight'
                 /\ IF ops'[o].status = "none" THEN ops'[o].born = 0 /\ ops'[o].rollbackRow = NoRow
                    ELSE ops'[o].born > 0 /\ ops'[o].rollbackRow # NoRow
      <4>1. /\ ops[o].born <= ops[o].began /\ ops[o].began <= clock
            /\ ops[o].born \in Nat /\ ops[o].began \in Nat /\ clock \in Nat /\ clock' = clock
        BY <1>1, <1>7, TypedFacts DEF Ledgered, Typed
      <4>2. ops'[o].born = ops[o].born /\ ops'[o].began = ops[o].born
            /\ ops'[o].rollbackRow = ops[o].rollbackRow
        BY <1>8
      <4>3. ops'[o].born <= ops'[o].began /\ ops'[o].began <= clock'
        BY ONLY <4>1, <4>2
      <4> QED BY <1>1, <1>14, <4>2, <4>3 DEF Ledgered
    <3> QED BY <3>1 DEF Ledgered
  <2>3. Indexed'
    BY <1>8 DEF Base, Indexed
  <2> QED BY <1>13, <2>1, <2>2, <2>3 DEF Base
<1> QED BY <1>12, <1>15

\* The kinds of steps there are.
Step ==
    \/ \E o \in Ops : Opens(o) \/ Discards(o)
    \/ \E o \in Ops : AnswerOk(o) \/ AnswerError(o) \/ AnswerUnknown(o)
    \/ \E q \in Queries : LandQuery(q) \/ SendQuery(q)
    \/ Deliver \/ Prune \/ Restart \/ Serves \/ UNCHANGED vars

\* Every step is of one of these kinds.
LEMMA NextIsStep ==
    ASSUME Base, [Next]_vars
    PROVE  Step
<1>1. ASSUME NEW o \in Ops, OpStep(o)
      PROVE  Step
  <2>1. CASE Run(o) \/ Retry(o)
    BY <2>1, OpensFacts DEF Step
  <2>2. CASE Discard(o)
    BY <2>2, DiscardFacts DEF Step
  <2>3. CASE AnswerOk(o) \/ AnswerError(o) \/ AnswerUnknown(o)
    BY <2>3 DEF Step
  <2>4. CASE Refuse(o) \/ (o \in Patches /\ HandlePatch(o)) \/ (o \in Destroys /\ HandleDestroy(o))
    BY <2>4 DEF Step, Serves
  <2> QED BY <1>1, <2>1, <2>2, <2>3, <2>4 DEF OpStep
<1>2. ASSUME NEW q \in Queries, SendQuery(q) \/ HandleQuery(q) \/ LandQuery(q)
      PROVE  Step
  BY <1>2 DEF Step, Serves
<1>3. ASSUME (\E f \in Fields : Write(f)) \/ Deliver \/ Prune \/ Delete \/ Restart \/ UNCHANGED vars
      PROVE  Step
  BY <1>3 DEF Step, Serves
<1> QED BY <1>1, <1>2, <1>3 DEF Next

\* The server changes nothing of the client, and answers what was sent.
LEMMA ServesFacts ==
    ASSUME Base, Serves
    PROVE  /\ UNCHANGED <<row, tombstoned, epoch, revisions, ops, clock, touched, buried, pruned>>
           /\ \/ reqs' = reqs
              \/ \E r \in Requests, data \in Payloads, result \in Results :
                    Reply(r, data, result) /\ reqs[r].phase = "sent"
           /\ \A r \in Requests : reqs'[r].base = reqs[r].base
           /\ \A r \in Requests : r \in InFlight' <=> r \in InFlight
<1>1. NoRow \in Payloads /\ {"ok", "unknown", "error"} = Results /\ Typed
  BY RowFacts DEF Results, Base
<1>2. /\ UNCHANGED <<row, tombstoned, epoch, revisions, ops, clock, touched, buried, pruned>>
      /\ \/ reqs' = reqs
         \/ \E r \in Requests, data \in Payloads, result \in Results :
               Reply(r, data, result) /\ reqs[r].phase = "sent"
  <2>1. ASSUME NEW q \in Queries, HandleQuery(q)
        PROVE  /\ UNCHANGED <<client, history>> /\ q \in Requests /\ server \in Payloads
               /\ Reply(q, server, "ok") /\ reqs[q].phase = "sent"
    BY <1>1, <2>1, RowFacts, OpFacts DEF HandleQuery, Typed
  <2>2. ASSUME NEW o \in Ops, Refuse(o)
        PROVE  /\ UNCHANGED <<client, history>> /\ o \in Requests
               /\ Reply(o, NoRow, "error") /\ reqs[o].phase = "sent"
    BY <2>2, OpFacts DEF Refuse
  <2>3. ASSUME NEW o \in Patches, HandlePatch(o)
        PROVE  /\ UNCHANGED <<client, touched, buried, pruned>> /\ o \in Requests
               /\ \E data \in Payloads, result \in {"ok", "unknown"} :
                    Reply(o, data, result) /\ reqs[o].phase = "sent"
    BY <1>1, <2>3, StoredFacts, OpFacts DEF HandlePatch
  <2>4. ASSUME NEW o \in Destroys, HandleDestroy(o)
        PROVE  /\ UNCHANGED <<client, history>> /\ o \in Requests
               /\ \E result \in {"ok", "unknown"} : Reply(o, NoRow, result) /\ reqs[o].phase = "sent"
    BY <2>4, OpFacts DEF HandleDestroy
  <2>5. (\E f \in Fields : Write(f)) \/ Delete => reqs' = reqs /\ UNCHANGED <<client, history>>
    BY DEF Write, Delete
  <2>6. UNCHANGED <<client, history>> => UNCHANGED <<client, touched, buried, pruned>>
    BY DEF history
  <2>7. UNCHANGED <<client, touched, buried, pruned>>
    BY <2>1, <2>2, <2>3, <2>4, <2>5, <2>6 DEF Serves
  <2>8. UNCHANGED <<row, tombstoned, epoch, revisions, ops, clock, touched, buried, pruned>>
    BY <2>7 DEF client
  <2>9. \/ reqs' = reqs
        \/ \E r \in Requests, data \in Payloads, result \in Results :
               Reply(r, data, result) /\ reqs[r].phase = "sent"
    BY <1>1, <2>1, <2>2, <2>3, <2>4, <2>5 DEF Serves
  <2> QED BY <2>8, <2>9
<1>3. ASSUME NEW r \in Requests, NEW data \in Payloads, NEW result \in Results,
             Reply(r, data, result), reqs[r].phase = "sent"
      PROVE  /\ \A q \in Requests : reqs'[q].base = reqs[q].base
             /\ \A q \in Requests : q \in InFlight' <=> q \in InFlight
  <2>1. /\ \A q \in Requests \ {r} : reqs'[q] = reqs[q]
        /\ reqs'[r].phase = "answered" /\ reqs'[r].base = reqs[r].base
    BY <1>1, <1>3, ReplyFacts
  <2> QED BY <1>3, <2>1 DEF InFlight
<1>4. reqs' = reqs => (\A q \in Requests : q \in InFlight' <=> q \in InFlight)
  BY DEF InFlight
<1> QED BY <1>2, <1>3, <1>4

\* Which requests a step leaves as they are, at rest or under way.
LEMMA StepRested ==
    ASSUME Base, Rested, Step
    PROVE  Rested'
<1>1. ASSUME \A r \in Requests : reqs'[r] = reqs[r] \/ r \in InFlight' \/ reqs'[r].base = 0
      PROVE  Rested'
  BY <1>1 DEF Rested, InFlight
<1>2. ASSUME NEW o \in Ops, Opens(o)
      PROVE  Rested'
  BY <1>1, <1>2 DEF Opens, InFlight
<1>3. ASSUME NEW o \in Ops, AnswerOk(o) \/ AnswerError(o) \/ AnswerUnknown(o)
      PROVE  Rested'
  BY <1>1, <1>3, AnswerFacts DEF Closes
<1>4. ASSUME NEW q \in Queries, LandQuery(q)
      PROVE  Rested'
  BY <1>1, <1>4, LandFacts
<1>5. ASSUME NEW q \in Queries, SendQuery(q)
      PROVE  Rested'
  <2>1. reqs' = [reqs EXCEPT ![q] = [Idle EXCEPT !.phase = "sent", !.base = epoch]]
    BY <1>5 DEF SendQuery
  <2>2. reqs'[q].phase = "sent" /\ \A r \in Requests \ {q} : reqs'[r] = reqs[r]
    BY <2>1, OpFacts DEF Base, Typed, Idle
  <2> QED BY <1>1, <2>2 DEF InFlight
<1>6. CASE Restart
  <2>1. reqs' = [r \in Requests |-> IF r \in InFlight THEN [Idle EXCEPT !.phase = "done"] ELSE reqs[r]]
    BY <1>6 DEF Restart
  <2> QED BY <1>1, <2>1 DEF Idle
<1>7. CASE Serves
  BY <1>7, ServesFacts DEF Rested
<1>8. ASSUME reqs' = reqs
      PROVE  Rested'
  BY <1>1, <1>8
<1>9. (\E o \in Ops : Discards(o)) \/ Deliver \/ Prune \/ UNCHANGED vars => reqs' = reqs
  BY DeliverFacts DEF Discards, Prune, vars
<1> QED BY <1>2, <1>3, <1>4, <1>5, <1>6, <1>7, <1>8, <1>9 DEF Step

\* Every step keeps the state well formed.
LEMMA StepBase ==
    ASSUME Base, Rested, Step
    PROVE  Base'
<1>1. ASSUME NEW o \in Ops, Opens(o)
      PROVE  Base'
  BY <1>1, OpensBase
<1>2. ASSUME NEW o \in Ops, Discards(o)
      PROVE  Base'
  BY <1>2, DiscardsBase
<1>3. ASSUME NEW o \in Ops, AnswerOk(o) \/ AnswerError(o) \/ AnswerUnknown(o)
      PROVE  Base'
  <2>1. \E new : \E status \in {"committed", "failed", "delivery_unknown"} : Closes(o, new, status)
    BY <1>3, AnswerFacts
  <2> QED BY <2>1, ClosesBase DEF Closes
<1>4. ASSUME NEW q \in Queries, LandQuery(q) \/ SendQuery(q)
      PROVE  Base'
  BY <1>4, LandFacts, SmallBase
<1>5. CASE Deliver \/ Prune \/ UNCHANGED vars
  BY <1>5, DeliverFacts, SmallBase
<1>6. CASE Restart
  BY <1>6, RestartFacts
<1>7. CASE Serves
  BY <1>7, ServerBase
<1> QED BY <1>1, <1>2, <1>3, <1>4, <1>5, <1>6, <1>7 DEF Step

-----------------------------------------------------------------------------
(* Who shows a field *)

\* A request that sees a commit notes what it did to the presence of the row.
LEMMA NotedCausal ==
    ASSUME Base, Causal, NEW new, Noted(new), NEW q \in Requests, q \in InFlight,
           reqs'[q].base = reqs[q].base, q \in InFlight',
           "row" \in touched'[q] <=> "row" \in touched[q] \/ ((row = NoRow) # (new = NoRow))
    PROVE  "row" \in touched'[q] <=> q \in InFlight' /\ revisions'.existence > reqs'[q].base
<1>1. reqs[q].base <= epoch /\ epoch \in Nat /\ reqs[q].base \in Nat /\ revisions.existence \in Nat
      /\ revisions'.existence \in Nat
  BY TypedFacts DEF Base, Typed, Past, Marks, Noted
<1>2. "row" \in touched[q] <=> revisions.existence > reqs[q].base
  BY DEF Causal
<1>3. CASE (row = NoRow) <=> (new = NoRow)
  BY <1>2, <1>3 DEF Noted
<1>4. CASE ~((row = NoRow) <=> (new = NoRow))
  <2>1. revisions'.existence > epoch
    BY <1>4 DEF Noted
  <2>2. revisions'.existence > reqs[q].base
    BY <1>1, <2>1
  <2> QED BY <1>4, <2>2
<1> QED BY <1>3, <1>4

\* Every step keeps the witness of the presence of the row.
LEMMA StepCausal ==
    ASSUME Base, Rested, Causal, Step
    PROVE  Causal'
<1>1. ASSUME NEW new, NEW s \in Requests, Noted(new), Witness(new, s),
             \A q \in Requests \ {s} : reqs'[q] = reqs[q],
             s \in InFlight' => reqs'[s].base = epoch'
      PROVE  Causal'
  <2>1. ASSUME NEW q \in Requests, q # s, q \in InFlight
        PROVE  "row" \in touched'[q] <=> q \in InFlight' /\ revisions'.existence > reqs'[q].base
    <3>1. q \in InFlight'
      BY <1>1, <2>1 DEF InFlight
    <3> QED BY <1>1, <2>1, <3>1, WitnessFacts, NotedCausal
  <2>2. ASSUME NEW q \in Requests, q # s, q \notin InFlight
        PROVE  "row" \in touched'[q] <=> q \in InFlight' /\ revisions'.existence > reqs'[q].base
    <3>1. q \notin InFlight' /\ touched'[q] = {}
      BY <1>1, <2>2, WitnessFacts DEF InFlight
    <3> QED BY <3>1
  <2>3. "row" \in touched'[s] <=> s \in InFlight' /\ revisions'.existence > reqs'[s].base
    <3>1. touched'[s] = {}
      BY <1>1, WitnessFacts
    <3>2. revisions'.existence <= epoch' /\ revisions'.existence \in Nat /\ epoch' \in Nat
      BY <1>1 DEF Noted, Past, Marks
    <3> QED BY <1>1, <3>1, <3>2
  <2> QED BY <2>1, <2>2, <2>3 DEF Causal
<1>2. ASSUME NEW o \in Ops, Opens(o)
      PROVE  Causal'
  BY <1>1, <1>2, OpFacts DEF Opens
<1>3. ASSUME NEW o \in Ops, AnswerOk(o) \/ AnswerError(o) \/ AnswerUnknown(o)
      PROVE  Causal'
  <2>1. \E new : \E status \in {"committed", "failed", "delivery_unknown"} : Closes(o, new, status)
    BY <1>3, AnswerFacts
  <2>2. o \notin InFlight'
    BY <2>1 DEF Closes, InFlight
  <2> QED BY <1>1, <2>1, <2>2, OpFacts DEF Closes
<1>4. ASSUME NEW q \in Queries, LandQuery(q)
      PROVE  Causal'
  <2>1. PICK new : new = Upserted(reqs[q].data, reqs[q].base, TRUE)
    OBVIOUS
  <2>2. /\ Noted(new) /\ Witness(new, q) /\ reqs'[q].phase = "done"
        /\ \A r \in Requests \ {q} : reqs'[r] = reqs[r]
    BY <1>4, <2>1, LandFacts
  <2>3. q \notin InFlight' /\ q \in Requests
    BY <2>2, OpFacts DEF InFlight
  <2> QED BY <1>1, <2>2, <2>3
<1>5. CASE Deliver
  <2>1. reqs' = reqs /\ Noted(DeliveredEvent)
        /\ \A q \in Requests :
                IF q \in InFlight
                THEN "row" \in touched'[q] <=>
                        "row" \in touched[q] \/ ((row = NoRow) # (DeliveredEvent = NoRow))
                ELSE touched'[q] = {}
    BY <1>5, DeliverFacts
  <2>2. \A q \in Requests : q \in InFlight' <=> q \in InFlight
    BY <2>1 DEF InFlight
  <2>3. ASSUME NEW q \in Requests
        PROVE  "row" \in touched'[q] <=> q \in InFlight' /\ revisions'.existence > reqs'[q].base
    BY <2>1, <2>2, NotedCausal
  <2> QED BY <2>3 DEF Causal
<1>6. ASSUME revisions'.existence = revisions.existence, touched' = touched,
             \A r \in Requests : /\ r \in InFlight' <=> r \in InFlight
                                 /\ reqs'[r].base = reqs[r].base
      PROVE  Causal'
  BY <1>6 DEF Causal
<1>7. ASSUME NEW o \in Ops, Discards(o)
      PROVE  Causal'
  <2>1. revisions'.existence = revisions.existence /\ touched' = touched /\ reqs' = reqs
    BY <1>7 DEF Discards, Noted
  <2> QED BY <1>6, <2>1 DEF InFlight
<1>8. CASE Serves
  BY <1>6, <1>8, ServesFacts
<1>9. CASE Prune \/ UNCHANGED vars
  <2>1. revisions' = revisions /\ touched' = touched /\ reqs' = reqs
    BY <1>9 DEF Prune, vars, client, history
  <2> QED BY <1>6, <2>1 DEF InFlight
<1>10. CASE Restart
  <2>1. touched' = [r \in Requests |-> {}]
    BY <1>10 DEF Restart
  <2>2. PICK new : Restarts(new)
    BY <1>10, RestartFacts
  <2>3. \A r \in Requests : r \notin InFlight'
    BY <2>2 DEF Restarts
  <2> QED BY <2>1, <2>3 DEF Causal
<1>11. ASSUME NEW q \in Queries, SendQuery(q)
       PROVE  Causal'
  <2>1. /\ reqs' = [reqs EXCEPT ![q] = [Idle EXCEPT !.phase = "sent", !.base = epoch]]
        /\ reqs[q].phase = "idle" /\ revisions' = revisions /\ touched' = touched
    BY <1>11 DEF SendQuery, client, history
  <2>2. /\ reqs'[q].base = epoch /\ q \in Requests /\ q \notin InFlight
        /\ \A r \in Requests \ {q} : reqs'[r] = reqs[r]
    BY <2>1, OpFacts DEF Base, Typed, Idle, InFlight
  <2>3. revisions.existence <= epoch /\ revisions.existence \in Nat /\ epoch \in Nat
    BY DEF Base, Past, Marks
  <2>4. "row" \notin touched[q]
    BY <2>2 DEF Causal
  <2>5. ~ (revisions'.existence > reqs'[q].base) /\ "row" \notin touched'[q]
    BY <2>1, <2>2, <2>3, <2>4
  <2>6. \A r \in Requests \ {q} : r \in InFlight' <=> r \in InFlight
    BY <2>2 DEF InFlight
  <2> QED BY <2>1, <2>2, <2>5, <2>6 DEF Causal
<1> QED BY <1>2, <1>3, <1>4, <1>5, <1>7, <1>8, <1>9, <1>10, <1>11 DEF Step

(* A step rolls back no patch of f and lets none begin. *)
Onward(f) ==
    \A p \in Patches : f \in PatchedBy[p] /\ ops[p].status \notin {"none", "failed"} =>
        /\ ops'[p].began = ops[p].began /\ ops'[p].status \notin {"none", "failed"}
        /\ ops[p].status # "pending" => ops'[p].status # "pending"

(* What a step of another one does to a field of the pending patch o: it   *)
(* leaves it, gives it back to o or to a pending patch after o, or it is   *)
(* the answer to a patch after o, or to one before o that the field shows. *)
Outcome(o, f) ==
    \/ row'[f] = row[f] /\ Onward(f)
    \/ row'[f] = ValueOf[o]
    \/ \E p \in Patches :
        /\ f \in PatchedBy[p] /\ ops'[p].began > ops[o].began
        /\ ops'[p].status = "pending" /\ row'[f] = ValueOf[p]
    \/ \E p \in Patches :
        f \in PatchedBy[p] /\ ops'[p].began > ops[o].began /\ ops'[p].status = "committed"
    \/ /\ Onward(f)
       /\ \E p \in Patches :
            /\ p # o /\ f \in PatchedBy[p] /\ ops[p].status = "pending"
            /\ ops[p].began < ops[o].began /\ row[f] = ValueOf[p]

(* The pending patch o goes through a step of another one. *)
Waits(o) ==
    /\ o \in Patches /\ ops[o].status = "pending" /\ ops'[o].status = "pending"
    /\ ops'[o].began = ops[o].began /\ reqs'[o].base = reqs[o].base
    /\ row' # NoRow /\ "row" \notin touched'[o]

(* A field is as old as it was, or newer than the request of o. *)
Dated(o, f) ==
    IF row'[f] = row[f] THEN revisions'.field[f] = revisions.field[f]
    ELSE revisions'.field[f] > reqs[o].base

\* A patch that waits through a commit has its row before and after.
LEMMA WaitsThroughCommit ==
    ASSUME Base, NEW o \in Ops, Waits(o), NEW new, Noted(new),
           "row" \in touched'[o] <=> "row" \in touched[o] \/ ((row = NoRow) # (new = NoRow))
    PROVE  Live(o) /\ new # NoRow /\ \A f \in PatchedBy[o] : Dated(o, f)
<1>1. Live(o) /\ new # NoRow /\ row # NoRow /\ row' = new
  BY DEF Waits, Noted, Live, Pending
<1>2. ASSUME NEW f \in PatchedBy[o]
      PROVE  Dated(o, f)
  <2>1. f \in Fields /\ o \in Requests
    BY OpFacts
  <2>2. reqs[o].base <= epoch /\ reqs[o].base \in Nat /\ epoch \in Nat /\ revisions'.field[f] \in Nat
    BY <2>1, TypedFacts DEF Base, Typed, Past, Marks, Noted
  <2>3. IF row[f] = new[f] THEN revisions'.field[f] = revisions.field[f]
        ELSE revisions'.field[f] > epoch
    BY <1>1, <2>1 DEF Noted
  <2> QED BY <1>1, <2>2, <2>3 DEF Dated
<1> QED BY <1>1, <1>2

\* Nobody's step: row, ledger and revisions stay.
LEMMA WaitsQuietly ==
    ASSUME Base, NEW o \in Ops, Waits(o), row' = row, revisions' = revisions, touched' = touched,
           ops' = ops
    PROVE  Live(o) /\ \A f \in PatchedBy[o] : Dated(o, f) /\ Outcome(o, f)
BY DEF Waits, Live, Pending, Dated, Outcome, Onward

\* Another operation's begin, seen by a waiting patch.
LEMMA OpensOutcome ==
    ASSUME Base, NEW o \in Ops, Waits(o), NEW p \in Ops, p # o, Opens(p)
    PROVE  Live(o) /\ \A f \in PatchedBy[o] : Dated(o, f) /\ Outcome(o, f)
<1>1. o \in Requests /\ o \in InFlight /\ o \in Patches /\ Typed
  BY OpFacts DEF Base, Ledgered, Waits
<1>2. Live(o) /\ Optimistic(p) # NoRow /\ row # NoRow /\ \A f \in PatchedBy[o] : Dated(o, f)
  BY <1>1, WitnessFacts, WaitsThroughCommit DEF Opens, Live
<1>3. p \in Patches
  BY <1>1, <1>2, OpFacts, OptimisticFacts
<1>4. ASSUME NEW f \in PatchedBy[o]
      PROVE  Outcome(o, f)
  <2>1. f \in Fields /\ row' = Optimistic(p)
    BY OpFacts DEF Opens, Noted
  <2>2. CASE f \in PatchedBy[p]
    <3>1. row'[f] = ValueOf[p]
      BY <1>1, <1>2, <1>3, <2>1, <2>2, OptimisticFacts
    <3>2. ops'[p].began > ops[o].began
      BY TypedFacts DEF Opens, Base, Typed, Ledgered
    <3> QED BY <1>3, <2>2, <3>1, <3>2 DEF Outcome, Opens
  <2>3. CASE f \notin PatchedBy[p]
    <3>1. row'[f] = row[f]
      BY <1>1, <1>2, <1>3, <2>1, <2>3, OptimisticFacts
    <3>2. Onward(f)
      BY <2>3, OpFacts DEF Onward, Opens
    <3> QED BY <3>1, <3>2 DEF Outcome
  <2> QED BY <2>2, <2>3
<1> QED BY <1>2, <1>4

\* The index of two operations that have begun.
LEMMA BeganApart ==
    ASSUME Base, NEW o \in Ops, NEW p \in Ops, o # p,
           ops[o].status # "none", ops[p].status # "none"
    PROVE  ops[o].began < ops[p].began \/ ops[p].began < ops[o].began
<1>1. ops[o].born > 0 /\ ops[p].born > 0 /\ ops[o].began \in Nat /\ ops[p].began \in Nat
  BY TypedFacts DEF Base, Ledgered
<1> QED BY <1>1 DEF Base, Indexed

\* Another operation's answer, seen by a waiting patch.
LEMMA AnswerOkOutcome ==
    ASSUME Base, Causal, Shown, ~WholeRow, NEW o \in Ops, Waits(o), NEW p \in Ops, p # o, AnswerOk(p)
    PROVE  Live(o) /\ \A f \in PatchedBy[o] : Dated(o, f) /\ Outcome(o, f)
<1>1. o \in Requests /\ p \in Requests /\ o \in InFlight /\ o \in Patches /\ Typed /\ Past
      /\ ops[o].status = "pending"
  BY OpFacts DEF Base, Ledgered, Waits
<1>2. Closes(p, Response(p), "committed") /\ reqs[p].result = "ok"
  BY AnswerFacts
<1>3. Live(o) /\ Response(p) # NoRow /\ row # NoRow /\ \A f \in PatchedBy[o] : Dated(o, f)
  BY <1>1, <1>2, WitnessFacts, WaitsThroughCommit DEF Closes, Live
<1>4. row' = Response(p) /\ ops[p].status = "pending" /\ reqs[p].phase = "answered"
      /\ \A w \in Ops \ {p} : ops'[w] = ops[w]
  BY <1>2 DEF Closes, Noted
<1>5. ops'[p].status = "committed" /\ ops'[p].began = ops[p].began
  BY <1>2 DEF Closes
<1>6. \A f : Onward(f)
  BY <1>4, <1>5, OpFacts DEF Onward
<1>7. CASE p \in Destroys
  <2>1. row' = row
    BY <1>3, <1>4, <1>7, DestroyedFacts DEF Response
  <2> QED BY <1>3, <1>6, <2>1 DEF Outcome
<1>8. CASE p \in Patches
  <2>1. PICK data, base : data = reqs[p].data /\ base = reqs[p].base
    OBVIOUS
  <2>2. row' = Patched(data, base) /\ data \in Payloads /\ base \in Nat /\ DOMAIN data = PatchedBy[p]
    <3>1. DOMAIN data = Scope(p)
      BY <1>1, <1>2, <1>4, <1>8, <2>1 DEF Typed, Answered
    <3>2. row' = Patched(data, base)
      BY <1>4, <1>8, <2>1, OpFacts DEF Response
    <3>3. data \in Payloads /\ base \in Nat
      BY <1>1, <2>1, TypedFacts
    <3> QED BY <3>1, <3>2, <3>3 DEF Scope
  <2>3. ASSUME NEW f \in PatchedBy[o]
        PROVE  Outcome(o, f)
    <3>1. f \in Fields
      BY OpFacts
    <3>2. CASE row'[f] = row[f]
      BY <1>6, <3>2 DEF Outcome
    <3>3. CASE row'[f] # row[f]
      <4>1. f \in PatchedBy[p] /\ revisions.field[f] <= base /\ revisions.existence <= base
        BY <1>1, <1>3, <2>2, <3>1, <3>3, PatchedFacts
      <4>2. CASE ops[p].began > ops[o].began
        BY <1>5, <1>8, <4>1, <4>2 DEF Outcome
      <4>3. CASE ~(ops[p].began > ops[o].began)
        <5>1. ops[p].began < ops[o].began
          BY <1>1, <1>4, <4>3, BeganApart, TypedFacts
        <5>2. "row" \notin touched[p]
          <6>1. ~(revisions.existence > base)
            BY <1>1, <2>2, <4>1 DEF Past, Marks
          <6> QED BY <1>1, <2>1, <6>1 DEF Causal
        <5>3. row[f] = ValueOf[p]
          BY <1>3, <1>4, <1>8, <2>1, <4>1, <5>2 DEF Shown, Live, Pending
        <5> QED BY <1>4, <1>6, <1>8, <4>1, <5>1, <5>3 DEF Outcome
      <4> QED BY <4>2, <4>3
    <3> QED BY <3>2, <3>3
  <2> QED BY <1>3, <2>3
<1> QED BY <1>7, <1>8, OpFacts

\* Another operation's rollback, seen by a waiting patch.
LEMMA AnswerErrorOutcome ==
    ASSUME Base, NEW o \in Ops, Waits(o), NEW p \in Ops, p # o, AnswerError(p)
    PROVE  Live(o) /\ \A f \in PatchedBy[o] : Dated(o, f) /\ Outcome(o, f)
<1>1. o \in Requests /\ p \in Requests /\ o \in InFlight /\ o \in Patches /\ Typed
      /\ ops[o].status = "pending" /\ o \in Pending /\ ops \in [Ops -> Entries]
  BY OpFacts DEF Base, Ledgered, Waits, Pending, Typed
<1>2. PICK new : new = RolledBack({p}, ops) /\ Closes(p, new, "failed")
  BY AnswerFacts
<1>3. Live(o) /\ new # NoRow /\ row # NoRow /\ \A f \in PatchedBy[o] : Dated(o, f)
  BY <1>1, <1>2, WitnessFacts, WaitsThroughCommit DEF Closes, Live
<1>4. row' = new /\ ops[p].status = "pending" /\ \A w \in Ops \ {p} : ops'[w] = ops[w]
  BY <1>2 DEF Closes, Noted
<1>5. ops[p].rollbackRow # NoRow
  BY <1>4 DEF Base, Ledgered
<1>6. ASSUME NEW f \in PatchedBy[o]
      PROVE  Outcome(o, f)
  <2>1. f \in Fields /\ RolledField({p}, ops, new, f)
    BY <1>1, <1>2, <1>3, <1>5, OpFacts, RolledFacts
  <2>2. ASSUME p \in Patches, f \in PatchedBy[p]
        PROVE  Rivals(p, f) # {} /\ o \in Rivals(p, f)
    BY <1>1, <2>2 DEF Rivals
  <2>3. CASE p \in Patches /\ f \in PatchedBy[p]
    <3>1. new[f] = ValueOf[LastIndexed(Rivals(p, f), ops)]
      BY <2>1, <2>2, <2>3 DEF RolledField, Undoes
    <3>2. PICK w : w = LastIndexed(Rivals(p, f), ops)
      OBVIOUS
    <3>3. w \in Rivals(p, f) /\ ops[o].began <= ops[w].began
      <4>1. Rivals(p, f) \in SUBSET Ops
        BY DEF Rivals, Pending
      <4> QED BY <1>1, <2>2, <2>3, <3>2, <4>1, LastFacts
    <3>4. w \in Patches /\ w # p /\ f \in PatchedBy[w] /\ ops[w].status = "pending" /\ ops'[w] = ops[w]
      BY <1>4, <3>3, OpFacts DEF Rivals, Pending
    <3>5. CASE w = o
      BY <1>4, <3>1, <3>2, <3>5 DEF Outcome
    <3>6. CASE w # o
      <4>1. ops'[w].began > ops[o].began
        <5>1. ops[o].began < ops[w].began \/ ops[w].began < ops[o].began
          BY <1>1, <3>4, <3>6, OpFacts, BeganApart
        <5>2. ops[o].began \in Nat /\ ops[w].began \in Nat
          BY <1>1, <3>4, OpFacts, TypedFacts
        <5> QED BY <3>3, <3>4, <5>1, <5>2
      <4> QED BY <1>4, <3>1, <3>2, <3>4, <4>1 DEF Outcome
    <3> QED BY <3>5, <3>6
  <2>4. CASE ~(p \in Patches /\ f \in PatchedBy[p])
    <3>1. Owned(f)
      BY <1>1 DEF Owned
    <3>2. new[f] = row[f]
      BY <2>1, <2>4, <3>1 DEF RolledField
    <3>3. Onward(f)
      BY <1>4, <2>4, OpFacts DEF Onward
    <3> QED BY <1>4, <3>2, <3>3 DEF Outcome
  <2> QED BY <2>3, <2>4
<1> QED BY <1>3, <1>6

\* Another operation's unknown outcome, seen by a waiting patch.
LEMMA AnswerUnknownOutcome ==
    ASSUME Base, NEW o \in Ops, Waits(o), NEW p \in Ops, p # o, AnswerUnknown(p)
    PROVE  Live(o) /\ \A f \in PatchedBy[o] : Dated(o, f) /\ Outcome(o, f)
<1>1. o \in Requests /\ o \in InFlight
  BY OpFacts DEF Base, Ledgered, Waits
<1>2. Closes(p, row, "delivery_unknown")
  BY AnswerFacts
<1>3. Live(o) /\ \A f \in PatchedBy[o] : Dated(o, f)
  BY <1>1, <1>2, WitnessFacts, WaitsThroughCommit DEF Closes
<1>4. row' = row /\ \A f : Onward(f)
  BY <1>2, OpFacts DEF Closes, Noted, Onward
<1> QED BY <1>3, <1>4 DEF Outcome

\* An upsert of no operation goes around the fields of pending patches.
LEMMA LandOutcome ==
    ASSUME Base, NEW o \in Ops, Waits(o), (\E q \in Queries : LandQuery(q)) \/ Deliver
    PROVE  Live(o) /\ \A f \in PatchedBy[o] : Dated(o, f) /\ Outcome(o, f)
<1>1. o \in Requests /\ o \in InFlight /\ o \notin Queries /\ Typed /\ epoch \in Nat
      /\ \A f \in PatchedBy[o] : f \in Fields /\ Owned(f)
  BY OpFacts DEF Base, Ledgered, Waits, Owned, Pending, Past
<1>2. ASSUME NEW new, Noted(new), ops' = ops, \A f \in PatchedBy[o] : row # NoRow => new[f] = row[f],
             "row" \in touched'[o] <=> "row" \in touched[o] \/ ((row = NoRow) # (new = NoRow))
      PROVE  Live(o) /\ \A f \in PatchedBy[o] : Dated(o, f) /\ Outcome(o, f)
  <2>1. Live(o) /\ \A f \in PatchedBy[o] : Dated(o, f)
    BY <1>2, WaitsThroughCommit
  <2>2. row' = new /\ \A f : Onward(f)
    BY <1>2 DEF Noted, Onward
  <2> QED BY <1>2, <2>1, <2>2 DEF Outcome, Live
<1>3. ASSUME NEW q \in Queries, LandQuery(q)
      PROVE  Live(o) /\ \A f \in PatchedBy[o] : Dated(o, f) /\ Outcome(o, f)
  <2>1. PICK new : new = Upserted(reqs[q].data, reqs[q].base, TRUE)
    OBVIOUS
  <2>2. Noted(new) /\ Witness(new, q) /\ ops' = ops
    BY <1>3, <2>1, LandFacts
  <2>3. PICK data \in Rows, base \in Nat : data = reqs[q].data /\ base = reqs[q].base
    BY <1>1, OpFacts, TypedFacts DEF Typed
  <2>4. \A f \in PatchedBy[o] : row # NoRow => new[f] = row[f]
    <3>1. new = Upserted(data, base, TRUE)
      BY <2>1, <2>3
    <3>2. PICK snapshot \in BOOLEAN : snapshot = TRUE
      OBVIOUS
    <3>3. new = Upserted(data, base, snapshot)
      BY <3>1, <3>2
    <3>4. row # NoRow => \A f \in Fields : Owned(f) => new[f] = row[f]
      BY <1>1, <3>3, UpsertedFacts
    <3> QED BY <1>1, <3>4
  <2> QED BY <1>1, <1>2, <2>2, <2>4, WitnessFacts
<1>4. CASE Deliver
  <2>1. Noted(DeliveredEvent) /\ ops' = ops
        /\ ("row" \in touched'[o] <=> "row" \in touched[o] \/ ((row = NoRow) # (DeliveredEvent = NoRow)))
    BY <1>1, <1>4, DeliverFacts
  <2>2. DeliveredEvent # NoRow
    BY <2>1 DEF Waits, Noted
  <2>3. Head(events) \in Rows /\ DeliveredEvent = Upserted(Head(events), epoch, FALSE)
    BY <1>4, <2>2, DeliverFacts
  <2>4. \A f \in PatchedBy[o] : row # NoRow => DeliveredEvent[f] = row[f]
    BY <1>1, <2>3, UpsertedFacts
  <2> QED BY <1>2, <2>1, <2>4
<1> QED BY <1>3, <1>4

\* A pending patch has just begun, or has come through a step of another.
LEMMA StepOutcome ==
    ASSUME Base, Rested, Causal, Shown, ~WholeRow, Step,
           NEW o \in Patches, ops'[o].status = "pending", row' # NoRow, "row" \notin touched'[o]
    PROVE  \/ Opens(o)
           \/ Waits(o) /\ Live(o) /\ \A f \in PatchedBy[o] : Dated(o, f) /\ Outcome(o, f)
<1>1. o \in Ops /\ o \in Requests /\ o \notin Queries
  BY OpFacts
<1>2. ASSUME NEW p \in Ops, Opens(p), p # o
      PROVE  Waits(o) /\ Live(o) /\ \A f \in PatchedBy[o] : Dated(o, f) /\ Outcome(o, f)
  <2>1. Waits(o)
    BY <1>1, <1>2 DEF Waits, Opens
  <2> QED BY <1>1, <1>2, <2>1, OpensOutcome
<1>3. ASSUME NEW p \in Ops, Discards(p)
      PROVE  Waits(o) /\ Live(o) /\ \A f \in PatchedBy[o] : Dated(o, f) /\ Outcome(o, f)
  <2>1. p # o /\ Waits(o)
    BY <1>1, <1>3 DEF Waits, Discards
  <2>2. Live(o) /\ \A f \in PatchedBy[o] : Dated(o, f)
    BY <1>1, <1>3, <2>1, WaitsThroughCommit DEF Discards
  <2>3. row' = row /\ \A f : Onward(f)
    BY <1>3, OpFacts DEF Discards, Noted, Onward
  <2> QED BY <2>1, <2>2, <2>3 DEF Outcome
<1>4. ASSUME NEW p \in Ops, AnswerOk(p) \/ AnswerError(p) \/ AnswerUnknown(p)
      PROVE  Waits(o) /\ Live(o) /\ \A f \in PatchedBy[o] : Dated(o, f) /\ Outcome(o, f)
  <2>1. \E new : \E status \in {"committed", "failed", "delivery_unknown"} : Closes(p, new, status)
    BY <1>4, AnswerFacts
  <2>2. p # o /\ Waits(o)
    BY <1>1, <2>1 DEF Waits, Closes
  <2> QED BY <1>1, <1>4, <2>2, AnswerOkOutcome, AnswerErrorOutcome, AnswerUnknownOutcome
<1>5. ASSUME NEW q \in Queries, LandQuery(q)
      PROVE  Waits(o) /\ Live(o) /\ \A f \in PatchedBy[o] : Dated(o, f) /\ Outcome(o, f)
  <2>1. Waits(o)
    BY <1>1, <1>5, LandFacts DEF Waits
  <2> QED BY <1>1, <1>5, <2>1, LandOutcome
<1>6. CASE Deliver
  <2>1. Waits(o)
    BY <1>1, <1>6, DeliverFacts DEF Waits
  <2> QED BY <1>1, <1>6, <2>1, LandOutcome
<1>7. ASSUME row' = row, revisions' = revisions, touched' = touched, ops' = ops,
             reqs'[o].base = reqs[o].base
      PROVE  Waits(o) /\ Live(o) /\ \A f \in PatchedBy[o] : Dated(o, f) /\ Outcome(o, f)
  <2>1. Waits(o)
    BY <1>1, <1>7 DEF Waits
  <2> QED BY <1>1, <1>7, <2>1, WaitsQuietly
<1>8. ASSUME NEW q \in Queries, SendQuery(q)
      PROVE  row' = row /\ revisions' = revisions /\ touched' = touched /\ ops' = ops
             /\ reqs'[o].base = reqs[o].base
  <2>1. /\ reqs' = [reqs EXCEPT ![q] = [Idle EXCEPT !.phase = "sent", !.base = epoch]]
        /\ row' = row /\ revisions' = revisions /\ touched' = touched /\ ops' = ops
    BY <1>8 DEF SendQuery, client, history
  <2>2. reqs'[o] = reqs[o]
    BY <1>1, <2>1 DEF Base, Typed
  <2> QED BY <2>1, <2>2
<1>9. CASE Prune \/ UNCHANGED vars
  <2>1. row' = row /\ revisions' = revisions /\ touched' = touched /\ ops' = ops /\ reqs' = reqs
    BY <1>9 DEF Prune, vars, client, history
  <2> QED BY <1>7, <2>1
<1>10. CASE Restart
  <2>1. PICK new : Restarts(new)
    BY <1>10, RestartFacts
  <2>2. ops'[o].status # "pending"
    BY <1>1, <2>1 DEF Restarts, Pending
  <2> QED BY <2>2
<1>11. CASE Serves
  BY <1>1, <1>7, <1>11, ServesFacts
<1> QED BY <1>2, <1>3, <1>4, <1>5, <1>6, <1>7, <1>8, <1>9, <1>10, <1>11 DEF Step

\* While a patch is pending, operations only move to the end of the index.
LEMMA IndexGrows ==
    ASSUME Base, Rested, Step, NEW o \in Ops, ops'[o].status = "pending", NEW p \in Ops
    PROVE  ops[p].began <= ops'[p].began
<1>1. ops[p].began \in Nat /\ clock \in Nat /\ ops[p].began <= clock
  BY TypedFacts DEF Base, Typed, Ledgered
<1>2. ASSUME ops'[p].began = ops[p].began
      PROVE  ops[p].began <= ops'[p].began
  BY <1>1, <1>2
<1>3. ASSUME NEW w \in Ops, Opens(w)
      PROVE  ops[p].began <= ops'[p].began
  <2>1. ops'[p].began = ops[p].began \/ ops'[p].began = clock + 1
    BY <1>3 DEF Opens
  <2> QED BY <1>1, <2>1
<1>4. ASSUME NEW w \in Ops, Discards(w)
      PROVE  ops'[p].began = ops[p].began
  BY <1>4 DEF Discards
<1>5. ASSUME NEW w \in Ops, AnswerOk(w) \/ AnswerError(w) \/ AnswerUnknown(w)
      PROVE  ops'[p].began = ops[p].began
  BY <1>5, AnswerFacts DEF Closes
<1>6. (\E q \in Queries : LandQuery(q) \/ SendQuery(q)) \/ Deliver \/ Prune \/ Serves \/ UNCHANGED vars
        => ops' = ops
  BY LandFacts, DeliverFacts, ServesFacts DEF SendQuery, Prune, vars, client
<1>7. CASE Restart
  <2>1. PICK new : Restarts(new)
    BY <1>7, RestartFacts
  <2> QED BY <2>1 DEF Restarts, Pending
<1> QED BY <1>2, <1>3, <1>4, <1>5, <1>6, <1>7 DEF Step

\* The entries of the ledger after a step.
LEMMA NextEntries ==
    ASSUME Base, Rested, Step
    PROVE  \A p \in Ops : ops'[p].status \in Statuses /\ ops'[p].began \in Nat
<1>1. Base'
  BY StepBase
<1> QED BY <1>1 DEF Base, Typed, Entries

\* What a patch shows when it begins.
LEMMA OpensShows ==
    ASSUME Base, NEW o \in Patches, Opens(o), row' # NoRow
    PROVE  \A f \in PatchedBy[o] :
            row'[f] = ValueOf[o] /\ revisions'.field[f] <= reqs'[o].base
<1>1. o \in Ops /\ Typed /\ row' = Optimistic(o) /\ Past' /\ reqs'[o].base = epoch'
  BY OpFacts DEF Opens, Noted, Base
<1>2. row # NoRow
  BY <1>1, OptimisticFacts
<1> QED BY <1>1, <1>2, OpFacts, OptimisticFacts DEF Past

\* Every step keeps Shown.
LEMMA StepShown ==
    ASSUME Base, Rested, Causal, Shown, ~WholeRow, Step
    PROVE  Shown'
<1> SUFFICES ASSUME NEW o \in Patches, ops'[o].status = "pending", row' # NoRow,
                    "row" \notin touched'[o], NEW f \in PatchedBy[o],
                    revisions'.field[f] <= reqs'[o].base
             PROVE  row'[f] = ValueOf[o]
  BY OpFacts DEF Shown, Live, Pending
<1>1. CASE Opens(o)
  BY <1>1, OpensShows
<1>2. CASE Waits(o) /\ Live(o) /\ Dated(o, f)
  <2>1. f \in Fields /\ o \in Requests /\ o \in Ops
    BY OpFacts
  <2>2. revisions'.field[f] <= reqs[o].base
    BY <1>2 DEF Waits
  <2>3. revisions'.field[f] \in Nat /\ reqs[o].base \in Nat
    BY <2>1, StepBase, TypedFacts DEF Base, Past, Marks
  <2>4. row'[f] = row[f] /\ revisions'.field[f] = revisions.field[f]
    BY <1>2, <2>2, <2>3 DEF Dated
  <2> QED BY <1>2, <2>1, <2>2, <2>4 DEF Shown
<1> QED BY <1>1, <1>2, StepOutcome

\* Every step keeps Unrivalled.
LEMMA StepUnrivalled ==
    ASSUME Base, Rested, Causal, Shown, ~WholeRow, Apart, Unrivalled, Step
    PROVE  Unrivalled'
<1> SUFFICES ASSUME NEW o \in Patches, ops'[o].status = "pending", row' # NoRow,
                    "row" \notin touched'[o], NEW f \in PatchedBy[o],
                    \A p \in Patches : f \in PatchedBy[p] => ~(ops'[p].began > ops'[o].began)
             PROVE  revisions'.field[f] <= reqs'[o].base
  <2>1. \A p \in Patches : ops'[p].status \in Statuses
    BY NextEntries, OpFacts
  <2> QED BY <2>1, OpFacts DEF Unrivalled, Live, Pending, Later
<1>0. f \in Fields /\ o \in Requests /\ o \in Ops
  BY OpFacts
<1>1. CASE Opens(o)
  BY <1>1, OpensShows
<1>2. CASE Waits(o) /\ Live(o) /\ Dated(o, f) /\ Outcome(o, f)
  <2>1. ops'[o].began = ops[o].began /\ reqs'[o].base = reqs[o].base
    BY <1>2 DEF Waits
  <2>2. Later(o, f, Statuses) = {}
    <3>1. ASSUME NEW p \in Patches, f \in PatchedBy[p], ops[p].began > ops[o].began
          PROVE  FALSE
      <4>1. ops[p].began <= ops'[p].began /\ ops[p].began \in Nat /\ ops[o].began \in Nat
            /\ ops'[p].began \in Nat
        BY <1>0, OpFacts, IndexGrows, NextEntries, TypedFacts DEF Base
      <4> QED BY <2>1, <3>1, <4>1
    <3> QED BY <3>1 DEF Later
  <2>3. revisions.field[f] <= reqs[o].base /\ row[f] = ValueOf[o]
    BY <1>0, <1>2, <2>2 DEF Unrivalled, Shown
  <2>4. row'[f] = row[f]
    BY <1>2, <2>1, <2>3 DEF Outcome, Apart
  <2> QED BY <1>2, <2>1, <2>3, <2>4 DEF Dated
<1> QED BY <1>1, <1>2, StepOutcome

\* Every step keeps PendingHolds.
LEMMA StepPendingHolds ==
    ASSUME Base, Rested, Causal, Shown, ~WholeRow, Apart, PendingHolds, Step
    PROVE  PendingHolds'
<1> DEFINE Settled == {"committed", "delivery_unknown", "removed"}
<1>0. \A p \in Patches : ops[p].status \in Statuses /\ ops'[p].status \in Statuses
  BY NextEntries, OpFacts, TypedFacts DEF Base
<1> SUFFICES ASSUME NEW o \in Patches, ops'[o].status = "pending", row' # NoRow,
                    "row" \notin touched'[o], NEW f \in PatchedBy[o]
             PROVE  \/ row'[f] = ValueOf[o]
                    \/ \E p \in Patches : /\ f \in PatchedBy[p] /\ ops'[p].began > ops'[o].began
                                          /\ ops'[p].status = "pending" /\ row'[f] = ValueOf[p]
                    \/ \E p \in Patches : /\ f \in PatchedBy[p] /\ ops'[p].began > ops'[o].began
                                          /\ ops'[p].status \in Settled
  BY DEF PendingHolds, Pending, Later
<1>1. CASE Opens(o)
  BY <1>1, OpensShows
<1>2. CASE Waits(o) /\ Live(o) /\ Outcome(o, f)
  <2>1. ops'[o].began = ops[o].began
    BY <1>2 DEF Waits
  <2>2. \/ row[f] = ValueOf[o]
        \/ \E p \in Patches : /\ f \in PatchedBy[p] /\ ops[p].began > ops[o].began
                              /\ ops[p].status = "pending" /\ row[f] = ValueOf[p]
        \/ \E p \in Patches : /\ f \in PatchedBy[p] /\ ops[p].began > ops[o].began
                              /\ ops[p].status \in Settled
    BY <1>2 DEF PendingHolds, Pending, Later, Live
  <2>3. ASSUME Onward(f), NEW p \in Patches, f \in PatchedBy[p], ops[p].began > ops[o].began,
               ops[p].status \in Settled
        PROVE  ops'[p].began > ops'[o].began /\ ops'[p].status \in Settled
    BY <1>0, <2>1, <2>3 DEF Onward, Statuses
  <2>4. ASSUME Onward(f), row'[f] = row[f], NEW p \in Patches, f \in PatchedBy[p],
               ops[p].began > ops[o].began, ops[p].status = "pending", row[f] = ValueOf[p]
        PROVE  /\ ops'[p].began > ops'[o].began
               /\ ops'[p].status \in Settled \/ (ops'[p].status = "pending" /\ row'[f] = ValueOf[p])
    BY <1>0, <2>1, <2>4 DEF Onward, Statuses
  <2>5. CASE row'[f] = row[f] /\ Onward(f)
    BY <2>2, <2>3, <2>4, <2>5
  <2>6. ASSUME Onward(f), NEW p \in Patches, p # o, f \in PatchedBy[p], ops[p].status = "pending",
               ops[p].began < ops[o].began, row[f] = ValueOf[p]
        PROVE  \E w \in Patches : /\ f \in PatchedBy[w] /\ ops'[w].began > ops'[o].began
                                  /\ ops'[w].status \in Settled
    <3>1. row[f] # ValueOf[o]
      BY <2>6 DEF Apart
    <3>2. ASSUME NEW w \in Patches, f \in PatchedBy[w], ops[w].began > ops[o].began, row[f] = ValueOf[w]
          PROVE  FALSE
      <4>1. w = p
        BY <2>6, <3>2 DEF Apart
      <4>2. ops[o].began \in Nat /\ ops[p].began \in Nat
        BY OpFacts, TypedFacts DEF Base
      <4> QED BY <2>6, <3>2, <4>1, <4>2
    <3> QED BY <2>2, <2>3, <2>6, <3>1, <3>2
  <2>7. CASE \E p \in Patches :
              f \in PatchedBy[p] /\ ops'[p].began > ops[o].began /\ ops'[p].status = "committed"
    BY <2>1, <2>7
  <2>8. CASE \E p \in Patches :
              /\ f \in PatchedBy[p] /\ ops'[p].began > ops[o].began
              /\ ops'[p].status = "pending" /\ row'[f] = ValueOf[p]
    BY <2>1, <2>8
  <2> QED BY <1>2, <2>5, <2>6, <2>7, <2>8 DEF Outcome
<1> QED BY <1>1, <1>2, StepOutcome

\* The answer to a patch nobody has come after is what the row shows.
LEMMA AnswerWins ==
    ASSUME Base, Causal, Unrivalled, NEW o \in Patches, AnswerOk(o), row # NoRow,
           "row" \notin touched[o], NEW f \in PatchedBy[o], Later(o, f, Statuses) = {}
    PROVE  row'[f] = reqs[o].data[f]
<1>1. o \in Ops /\ o \in Requests /\ f \in Fields /\ Typed /\ Past
  BY OpFacts DEF Base
<1>2. Closes(o, Response(o), "committed") /\ reqs[o].result = "ok"
  BY <1>1, AnswerFacts
<1>3. ops[o].status = "pending" /\ reqs[o].phase = "answered" /\ row' = Response(o)
  BY <1>2 DEF Closes, Noted
<1>4. PICK data \in Payloads, base \in Nat : data = reqs[o].data /\ base = reqs[o].base
  BY <1>1, TypedFacts
<1>5. revisions.field[f] <= base
  BY <1>1, <1>3, <1>4 DEF Unrivalled, Live, Pending
<1>6. revisions.existence <= base
  <2>1. o \in InFlight
    BY <1>1, <1>3 DEF InFlight
  <2>2. ~(revisions.existence > base)
    BY <1>1, <1>4, <2>1 DEF Causal
  <2>3. revisions.existence \in Nat
    BY <1>1 DEF Past, Marks
  <2> QED BY <2>2, <2>3
<1>7. f \in DOMAIN data
  <2>1. DOMAIN data = Scope(o)
    BY <1>2, <1>3, <1>4 DEF Base, Typed, Answered
  <2> QED BY <1>1, <2>1 DEF Scope
<1>8. row' = Patched(data, base)
  BY <1>3, <1>4, OpFacts DEF Response
<1> QED BY <1>1, <1>4, <1>5, <1>6, <1>7, <1>8, PatchedFacts

-----------------------------------------------------------------------------
(* What a patch leaves behind *)

\* A missing row shows nothing, a row shows a value in every field.
LEMMA CleanFacts ==
    ASSUME NEW o \in Ops, NEW f \in Fields
    PROVE  /\ Clean(NoRow, o, f)
           /\ \A x \in [Fields -> Values] : Clean(x, o, f) <=> x[f] # ValueOf[o]
           /\ \A x : x \in Rows /\ ~Clean(x, o, f) => x # NoRow
BY RowFacts DEF Clean

\* A step that captures no row keeps the residue of o in f to the row and
\* to the captures of destroys.
LEMMA ResidueFrame ==
    ASSUME NEW o \in Patches, NEW f \in Fields, ResidueOf(o, f),
           Clean(server', o, f), \A i \in DOMAIN events' : Clean(events'[i], o, f),
           \A r \in Requests : Clean(reqs'[r].data, o, f),
           \A p \in Ops : ops'[p].rollbackRow = ops[p].rollbackRow,
           LET spared == Clean(row', o, f) \/ \E d \in Destroys : ~Clean(ops[d].rollbackRow, o, f) IN
           \/ ops'[o].status = ops[o].status /\ (Clean(row, o, f) => spared)
           \/ ops'[o].status \notin {"none", "failed"}
           \/ ops'[o].status = "failed" /\ spared
    PROVE  ResidueOf(o, f)'
<1>1. o \in Ops /\ Destroys \subseteq Ops
  BY OpFacts
<1>2. Clean(ops'[o].rollbackRow, o, f)
  BY <1>1 DEF ResidueOf
<1>3. ASSUME ops'[o].status = "none"
      PROVE  Clean(row', o, f) /\ \A d \in Ops : Clean(ops'[d].rollbackRow, o, f)
  <2>1. ops[o].status = "none" /\ Clean(row, o, f) /\ \A d \in Ops : Clean(ops[d].rollbackRow, o, f)
    BY <1>3 DEF ResidueOf
  <2> QED BY <1>1, <1>3, <2>1
<1>4. ASSUME ops'[o].status = "failed"
      PROVE  Clean(row', o, f) \/ \E d \in Destroys : ~Clean(ops'[d].rollbackRow, o, f)
  <2>1. Clean(row', o, f) \/ \E d \in Destroys : ~Clean(ops[d].rollbackRow, o, f)
    BY <1>4 DEF ResidueOf
  <2> QED BY <1>1, <2>1
<1>5. ResidueOf(o, f)' <=>
        /\ Clean(server', o, f)
        /\ \A i \in DOMAIN events' : Clean(events'[i], o, f)
        /\ \A r \in Requests : Clean(reqs'[r].data, o, f)
        /\ Clean(ops'[o].rollbackRow, o, f)
        /\ ops'[o].status = "none" =>
            Clean(row', o, f) /\ \A d \in Ops : Clean(ops'[d].rollbackRow, o, f)
        /\ ops'[o].status = "failed" =>
            Clean(row', o, f) \/ \E d \in Destroys : ~Clean(ops'[d].rollbackRow, o, f)
  BY DEF ResidueOf, Clean
<1> QED BY <1>2, <1>3, <1>4, <1>5

\* A rollback takes the value of o away or leaves it to a captured row.
LEMMA RolledResidue ==
    ASSUME Base, NEW o \in Patches, NEW f \in Fields, Alone(o, f), ResidueOf(o, f),
           NEW S, S \subseteq Pending, NEW ledger, NEW new \in Rows,
           row = NoRow /\ S \cap Destroys = {} => new = NoRow,
           row = NoRow /\ S \cap Destroys # {} => \E d \in S \cap Destroys : new = ops[d].rollbackRow,
           row # NoRow => new # NoRow /\ RolledField(S, ledger, new, f),
           o \in S \/ Clean(row, o, f)
    PROVE  Clean(new, o, f) \/ \E d \in Destroys : ~Clean(ops[d].rollbackRow, o, f)
<1>1. o \in Ops /\ S \subseteq Ops /\ Typed /\ Ledgered
  BY OpFacts DEF Base, Pending
<1>2. CASE row = NoRow
  BY <1>1, <1>2, CleanFacts
<1>3. CASE row # NoRow
  <2>1. row \in [Fields -> Values] /\ new \in [Fields -> Values]
    BY <1>1, <1>3, RowFacts DEF Typed
  <2>2. \A p \in S : ops[p].rollbackRow \in [Fields -> Values]
    BY <1>1, RowFacts, TypedFacts DEF Pending, Ledgered
  <2>3. \A p \in S \cap Patches : f \in PatchedBy[p] => p = o
    BY DEF Alone
  <2>4. Rivals(o, f) = {}
    <3>1. \A p \in Ops \ {o} : f \notin PatchedBy[p]
      BY OpFacts DEF Alone
    <3> QED BY <3>1 DEF Rivals, Pending
  <2>5. \A p \in S \cap Patches : f \in PatchedBy[p] => Rivals(p, f) = {}
    BY <2>3, <2>4
  <2>6. CASE \E p \in S \cap Patches : f \in PatchedBy[p] /\ new[f] = ops[p].rollbackRow[f]
    <3>1. o \in S /\ new[f] = ops[o].rollbackRow[f]
      BY <2>3, <2>6
    <3>2. Clean(ops[o].rollbackRow, o, f)
      BY DEF ResidueOf
    <3> QED BY <1>1, <2>1, <2>2, <3>1, <3>2, CleanFacts
  <2>7. CASE (\A p \in S \cap Patches : ~Undoes(p, f)) /\ new[f] = row[f]
    <3>1. o \in S => row[f] # ValueOf[o]
      BY <2>7 DEF Undoes, Alone
    <3>2. Clean(row, o, f)
      BY <1>1, <2>1, <3>1, CleanFacts
    <3> QED BY <1>1, <2>1, <2>7, <3>2, CleanFacts
  <2>8. CASE \E d \in S \cap Destroys : new[f] = ops[d].rollbackRow[f]
    <3>1. PICK d \in S \cap Destroys : new[f] = ops[d].rollbackRow[f]
      BY <2>8
    <3>2. Clean(new, o, f) \/ ~Clean(ops[d].rollbackRow, o, f)
      BY <1>1, <2>1, <2>2, <3>1, CleanFacts
    <3> QED BY <3>1, <3>2
  <2> QED BY <1>3, <2>5, <2>6, <2>7, <2>8 DEF RolledField
<1> QED BY <1>2, <1>3

\* The value of a patch the server has not stored does not come from it.
LEMMA ServesResidue ==
    ASSUME Base, Serves, NEW o \in Patches, NEW f \in Fields, o \notin taken', Alone(o, f),
           ResidueOf(o, f)
    PROVE  /\ Clean(server', o, f) /\ \A i \in DOMAIN events' : Clean(events'[i], o, f)
           /\ \A r \in Requests : Clean(reqs'[r].data, o, f)
<1>1. Typed /\ o \in Ops /\ o \in Requests /\ server \in Rows /\ Clean(server, o, f)
      /\ (\A r \in Requests : Clean(reqs[r].data, o, f))
      /\ Clean(NoRow, o, f) /\ NoRow \in Payloads /\ NoRow \in Rows
  BY OpFacts, CleanFacts, RowFacts DEF Base, Typed, ResidueOf
<1>2. ASSUME NEW new \in Rows, Clean(new, o, f), Emits(new)
      PROVE  \A i \in DOMAIN events' : Clean(events'[i], o, f)
  BY <1>1, <1>2, EmitsFacts DEF ResidueOf
<1>3. ASSUME events' = events
      PROVE  \A i \in DOMAIN events' : Clean(events'[i], o, f)
  BY <1>3 DEF ResidueOf
<1>4. ASSUME NEW r \in Requests, NEW data \in Payloads, NEW result \in Results,
             Reply(r, data, result), Clean(data, o, f)
      PROVE  \A q \in Requests : Clean(reqs'[q].data, o, f)
  BY <1>1, <1>4, ReplyFacts
<1>5. ASSUME NEW q \in Queries, HandleQuery(q)
      PROVE  /\ Clean(server', o, f) /\ \A i \in DOMAIN events' : Clean(events'[i], o, f)
             /\ \A r \in Requests : Clean(reqs'[r].data, o, f)
  <2>1. Reply(q, server, "ok") /\ events' = events /\ server' = server /\ server \in Payloads
        /\ q \in Requests /\ "ok" \in Results
    BY <1>1, <1>5, RowFacts, OpFacts DEF HandleQuery, world, Results
  <2> QED BY <1>1, <1>3, <1>4, <2>1
<1>6. ASSUME NEW p \in Ops, Refuse(p)
      PROVE  /\ Clean(server', o, f) /\ \A i \in DOMAIN events' : Clean(events'[i], o, f)
             /\ \A r \in Requests : Clean(reqs'[r].data, o, f)
  <2>1. Reply(p, NoRow, "error") /\ events' = events /\ server' = server
        /\ p \in Requests /\ "error" \in Results
    BY <1>6, OpFacts DEF Refuse, world, Results
  <2> QED BY <1>1, <1>3, <1>4, <2>1
<1>7. ASSUME NEW p \in Patches, HandlePatch(p)
      PROVE  /\ Clean(server', o, f) /\ \A i \in DOMAIN events' : Clean(events'[i], o, f)
             /\ \A r \in Requests : Clean(reqs'[r].data, o, f)
  <2>1. PICK new \in {Stored(p), server}, result \in {"ok", "unknown"} :
            /\ server' = new /\ Emits(new) /\ Reply(p, Carried(p, new), result)
            /\ taken' = IF new = Stored(p) THEN taken \cup {p} ELSE taken
    BY <1>7 DEF HandlePatch
  <2>2. server # NoRow /\ p \in Ops /\ p \in Requests /\ result \in Results
    BY <1>7, OpFacts DEF HandlePatch, Results
  <2>3. server \in [Fields -> Values] /\ new \in [Fields -> Values] /\ new \in Rows
    BY <1>1, <2>1, <2>2, StoredFacts, RowFacts
  <2>4. new[f] = server[f]
    <3>1. p = o => new = server
      BY <2>1
    <3>2. p # o => f \notin PatchedBy[p]
      BY DEF Alone
    <3> QED BY <1>1, <2>1, <2>2, <3>1, <3>2, StoredFacts
  <2>5. Clean(new, o, f)
    BY <1>1, <2>3, <2>4, CleanFacts
  <2>6. Carried(p, new) \in Payloads /\ Clean(Carried(p, new), o, f)
    BY <1>1, <2>2, <2>3, <2>5, StoredFacts DEF Clean
  <2> QED BY <1>2, <1>4, <2>1, <2>2, <2>3, <2>5, <2>6
<1>8. ASSUME NEW p \in Destroys, HandleDestroy(p)
      PROVE  /\ Clean(server', o, f) /\ \A i \in DOMAIN events' : Clean(events'[i], o, f)
             /\ \A r \in Requests : Clean(reqs'[r].data, o, f)
  <2>1. PICK result \in {"ok", "unknown"} : Reply(p, NoRow, result)
    BY <1>8 DEF HandleDestroy
  <2>2. server' = NoRow /\ Emits(NoRow) /\ p \in Requests /\ result \in Results
    BY <1>8, OpFacts DEF HandleDestroy, Results
  <2> QED BY <1>1, <1>2, <1>4, <2>1, <2>2
<1>9. ASSUME NEW g \in Fields, Write(g)
      PROVE  /\ Clean(server', o, f) /\ \A i \in DOMAIN events' : Clean(events'[i], o, f)
             /\ \A r \in Requests : Clean(reqs'[r].data, o, f)
  <2>1. server \in [Fields -> Values]
    BY <1>1, <1>9, StoredFacts DEF Write
  <2>2. troubles' \in Versions /\ server' = [server EXCEPT ![g] = troubles + 1] /\ troubles' = troubles + 1
        /\ reqs' = reqs /\ Emits(server')
    BY <1>1, <1>9, BoundAssumption DEF Write, Trouble, Versions, Typed
  <2>3. PICK new : new = server'
    OBVIOUS
  <2>4. new \in [Fields -> Values] /\ new \in Rows
    BY <2>1, <2>2, <2>3, OpFacts, RowFacts
  <2>5. new[f] # ValueOf[o]
    <3>1. server[f] # ValueOf[o] /\ ValueOf[o] \notin Versions
      BY <1>1, <2>1, CleanFacts, OpFacts
    <3> QED BY <2>1, <2>2, <2>3, <3>1
  <2>6. Clean(new, o, f)
    BY <1>1, <2>4, <2>5, CleanFacts
  <2> QED BY <1>1, <1>2, <2>2, <2>3, <2>4, <2>6
<1>10. ASSUME Delete
       PROVE  /\ Clean(server', o, f) /\ \A i \in DOMAIN events' : Clean(events'[i], o, f)
              /\ \A r \in Requests : Clean(reqs'[r].data, o, f)
  <2>1. server' = NoRow /\ Emits(NoRow) /\ reqs' = reqs
    BY <1>10 DEF Delete
  <2> QED BY <1>1, <1>2, <2>1
<1> QED BY <1>5, <1>6, <1>7, <1>8, <1>9, <1>10 DEF Serves

\* A begin captures the row before the value of a patch is in it.
LEMMA OpensResidue ==
    ASSUME Base, NEW o \in Patches, NEW f \in Fields, Alone(o, f), ResidueOf(o, f),
           NEW p \in Ops, Opens(p)
    PROVE  ResidueOf(o, f)'
<1>1. o \in Ops /\ Typed /\ Ledgered /\ Destroys \subseteq Ops /\ row' = Optimistic(p)
      /\ Clean(NoRow, o, f)
  BY OpFacts, CleanFacts DEF Base, Opens, Noted
<1>2. p # o /\ Clean(row, o, f) => Clean(row', o, f)
  <2>1. CASE p \in Destroys \/ row = NoRow
    <3>1. row' = NoRow
      BY <1>1, <2>1, OpFacts, OptimisticFacts
    <3> QED BY <1>1, <3>1
  <2>2. CASE p \in Patches /\ row # NoRow /\ p # o
    <3>1. row'[f] = row[f] /\ row' \in Rows /\ row' # NoRow
      BY <1>1, <2>2, OptimisticFacts DEF Alone
    <3>2. row \in [Fields -> Values] /\ row' \in [Fields -> Values]
      BY <1>1, <2>2, <3>1, RowFacts DEF Typed
    <3> QED BY <1>1, <3>1, <3>2, CleanFacts
  <2> QED BY <2>1, <2>2, OpFacts
<1>3. server' = server /\ events' = events /\ (\A r \in Requests : reqs'[r].data \in {reqs[r].data, NoRow})
  BY DEF Opens
<1>4. \A w \in Ops : ops'[w].rollbackRow = ops[w].rollbackRow
                     \/ (w = p /\ ops[w].status = "none" /\ ops'[w].rollbackRow = row)
  BY DEF Opens
<1>5. \A w \in Ops : ops[w].status = "none" => Clean(ops[w].rollbackRow, o, f)
  BY <1>1 DEF Ledgered
<1>6. Clean(ops'[o].rollbackRow, o, f)
  BY <1>1, <1>4 DEF ResidueOf
<1>7. ASSUME ops'[o].status = "none"
      PROVE  Clean(row', o, f) /\ \A d \in Ops : Clean(ops'[d].rollbackRow, o, f)
  <2>1. p # o /\ ops[o].status = "none"
    BY <1>1, <1>7 DEF Opens
  <2>2. Clean(row, o, f) /\ \A d \in Ops : Clean(ops[d].rollbackRow, o, f)
    BY <2>1 DEF ResidueOf
  <2> QED BY <1>2, <1>4, <2>1, <2>2
<1>8. ASSUME ops'[o].status = "failed"
      PROVE  Clean(row', o, f) \/ \E d \in Destroys : ~Clean(ops'[d].rollbackRow, o, f)
  <2>1. p # o /\ ops[o].status = "failed"
    BY <1>1, <1>8 DEF Opens
  <2>2. Clean(row, o, f) \/ \E d \in Destroys : ~Clean(ops[d].rollbackRow, o, f)
    BY <2>1 DEF ResidueOf
  <2> QED BY <1>1, <1>2, <1>4, <1>5, <2>1, <2>2
<1>9. /\ Clean(server', o, f) /\ \A i \in DOMAIN events' : Clean(events'[i], o, f)
      /\ \A r \in Requests : Clean(reqs'[r].data, o, f)
  BY <1>1, <1>3 DEF ResidueOf
<1>10. ResidueOf(o, f)' <=>
        /\ Clean(server', o, f)
        /\ \A i \in DOMAIN events' : Clean(events'[i], o, f)
        /\ \A r \in Requests : Clean(reqs'[r].data, o, f)
        /\ Clean(ops'[o].rollbackRow, o, f)
        /\ ops'[o].status = "none" =>
            Clean(row', o, f) /\ \A d \in Ops : Clean(ops'[d].rollbackRow, o, f)
        /\ ops'[o].status = "failed" =>
            Clean(row', o, f) \/ \E d \in Destroys : ~Clean(ops'[d].rollbackRow, o, f)
  BY DEF ResidueOf, Clean
<1> QED BY <1>6, <1>7, <1>8, <1>9, <1>10

\* What a commit of another one brings into the field.
LEMMA UpsertedResidue ==
    ASSUME Typed, NEW o \in Patches, NEW f \in Fields, Clean(row, o, f),
           NEW data \in Rows, Clean(data, o, f), NEW base \in Nat, NEW snapshot \in BOOLEAN,
           NEW new, new = Upserted(data, base, snapshot)
    PROVE  Clean(new, o, f)
<1>1. o \in Ops /\ Clean(NoRow, o, f) /\ row \in Rows
  BY OpFacts, CleanFacts DEF Typed
<1>2. /\ new \in Rows
      /\ row # NoRow => new # NoRow
      /\ row = NoRow => new \in {NoRow, data}
      /\ row # NoRow => new[f] = row[f] \/ (f \in DOMAIN data /\ new[f] = data[f])
  BY UpsertedFacts
<1>3. CASE row = NoRow
  BY <1>1, <1>2, <1>3
<1>4. CASE row # NoRow
  <2>1. row \in [Fields -> Values] /\ new \in [Fields -> Values]
    BY <1>1, <1>2, <1>4, RowFacts
  <2>2. row[f] # ValueOf[o] /\ (f \in DOMAIN data => data[f] # ValueOf[o])
    BY <1>1, <2>1, CleanFacts DEF Clean
  <2> QED BY <1>1, <1>2, <1>4, <2>1, <2>2, CleanFacts
<1> QED BY <1>3, <1>4

\* No answer brings the value of a patch the server has not stored.
LEMMA ResponseResidue ==
    ASSUME Base, NEW o \in Patches, NEW f \in Fields, Clean(row, o, f), NEW p \in Ops,
           Clean(reqs[p].data, o, f)
    PROVE  Clean(Response(p), o, f)
<1>1. o \in Ops /\ Clean(NoRow, o, f) /\ row \in Rows /\ Typed /\ Past
  BY OpFacts, CleanFacts DEF Base, Typed
<1>2. CASE p \in Destroys
  BY <1>1, <1>2, DestroyedFacts DEF Response
<1>3. CASE p \notin Destroys
  <2>1. PICK data \in Payloads, base \in Nat : data = reqs[p].data /\ base = reqs[p].base
    BY <1>1, OpFacts, TypedFacts
  <2>2. PICK new : new = Response(p) /\ new = Patched(data, base)
    BY <1>3, <2>1 DEF Response
  <2>3. /\ new \in Rows /\ (new = NoRow <=> row = NoRow)
        /\ row # NoRow => new[f] = row[f] \/ (f \in DOMAIN data /\ new[f] = data[f])
    BY <1>1, <2>2, PatchedFacts
  <2>4. CASE row = NoRow
    BY <1>1, <2>2, <2>3, <2>4
  <2>5. CASE row # NoRow
    <3>1. row \in [Fields -> Values] /\ new \in [Fields -> Values]
      BY <1>1, <2>3, <2>5, RowFacts
    <3>2. row[f] # ValueOf[o] /\ (f \in DOMAIN data => data[f] # ValueOf[o])
      BY <1>1, <2>1, <3>1, CleanFacts DEF Clean
    <3> QED BY <1>1, <2>2, <2>3, <2>5, <3>1, <3>2, CleanFacts
  <2> QED BY <2>4, <2>5
<1> QED BY <1>2, <1>3

\* The rollback of one failed request leaves what the rollbacks of a boot leave.
LEMMA FailedResidue ==
    ASSUME Base, NEW o \in Patches, NEW f \in Fields, Alone(o, f), ResidueOf(o, f),
           NEW p \in Pending, NEW new, new = RolledBack({p}, ops), p = o \/ Clean(row, o, f)
    PROVE  Clean(new, o, f) \/ \E d \in Destroys : ~Clean(ops[d].rollbackRow, o, f)
<1>1. Typed /\ Ledgered /\ p \in Ops
  BY DEF Base, Pending
<1>2. ops \in [Ops -> Entries] /\ ops[p].rollbackRow # NoRow
  BY <1>1 DEF Typed, Ledgered, Pending
<1>3. PICK S \in SUBSET Ops, ledger \in [Ops -> Entries] : S = {p} /\ ledger = ops
  BY <1>1, <1>2
<1>4. new = RolledBack(S, ledger) /\ S \subseteq Pending /\ (o \in S \/ Clean(row, o, f))
  BY <1>3
<1>5. \A w \in S : ops[w].rollbackRow # NoRow /\ ledger[w].rollbackRow = ops[w].rollbackRow
  BY <1>2, <1>3
<1>6. /\ new \in Rows
      /\ row # NoRow => new # NoRow
      /\ row = NoRow /\ S \cap Destroys = {} => new = NoRow
      /\ row = NoRow /\ S \cap Destroys # {} => \E d \in S \cap Destroys : new = ops[d].rollbackRow
      /\ row # NoRow => \A g \in Fields : RolledField(S, ledger, new, g)
  <2>1. Typed /\ S \in SUBSET Ops /\ ledger \in [Ops -> Entries] /\ new = RolledBack(S, ledger)
    BY <1>1, <1>4
  <2>2. new \in Rows
    BY ONLY <1>5, <2>1, RolledFacts
  <2>3. row # NoRow => new # NoRow
    BY ONLY <1>5, <2>1, RolledFacts
  <2>4. row = NoRow /\ S \cap Destroys = {} => new = NoRow
    BY ONLY <1>5, <2>1, RolledFacts
  <2>5. row = NoRow /\ S \cap Destroys # {} => \E d \in S \cap Destroys : new = ops[d].rollbackRow
    BY ONLY <1>5, <2>1, RolledFacts
  <2>6. ASSUME row # NoRow, NEW g \in Fields PROVE RolledField(S, ledger, new, g)
    BY ONLY <1>5, <2>1, <2>6, RolledFacts
  <2> QED BY <2>2, <2>3, <2>4, <2>5, <2>6
<1>7. row # NoRow => new # NoRow /\ RolledField(S, ledger, new, f)
  BY <1>6
<1> QED BY <1>4, <1>6, <1>7, RolledResidue

\* Every step keeps Residue.
LEMMA StepResidue ==
    ASSUME Base, Rested, Residue, Step, taken \subseteq taken'
    PROVE  Residue'
<1> SUFFICES ASSUME NEW o \in Patches, NEW f \in Fields, o \notin taken', Alone(o, f), ResidueOf(o, f)
             PROVE  ResidueOf(o, f)'
  BY DEF Residue, Alone
<1>1. o \in Ops /\ Typed /\ Ledgered /\ Clean(NoRow, o, f) /\ Clean(server, o, f)
      /\ (\A i \in DOMAIN events : Clean(events[i], o, f))
      /\ (\A r \in Requests : Clean(reqs[r].data, o, f)) /\ Ops \subseteq Requests
      /\ Queries \subseteq Requests
  BY OpFacts, CleanFacts DEF Base, ResidueOf
<1>2. ASSUME NEW p \in Ops, Opens(p)
      PROVE  ResidueOf(o, f)'
  BY <1>2, OpensResidue
<1>3. ASSUME NEW p \in Ops, Discards(p)
      PROVE  ResidueOf(o, f)'
  <2>1. server' = server /\ events' = events /\ reqs' = reqs /\ row' = row
        /\ (\A w \in Ops : ops'[w].rollbackRow = ops[w].rollbackRow)
        /\ (ops'[o].status = ops[o].status \/ ops'[o].status = "removed")
    BY <1>1, <1>3 DEF Discards, Noted
  <2> QED BY <1>1, <2>1, ResidueFrame
<1>4. ASSUME NEW p \in Ops, NEW new, NEW status, Closes(p, new, status),
             \/ status \notin {"none", "failed"} /\ p = o
             \/ status = "failed" /\ (p = o \/ Clean(row, o, f) => Clean(new, o, f) \/ \E d \in Destroys : ~Clean(ops[d].rollbackRow, o, f))
             \/ p # o /\ (Clean(row, o, f) => Clean(new, o, f))
      PROVE  ResidueOf(o, f)'
  <2>1. server' = server /\ events' = events /\ row' = new
        /\ (\A w \in Ops : ops'[w].rollbackRow = ops[w].rollbackRow)
        /\ (\A r \in Requests : reqs'[r].data \in {reqs[r].data, NoRow})
        /\ (p # o => ops'[o].status = ops[o].status) /\ ops'[p].status = status
    BY <1>1, <1>4 DEF Closes, Noted
  <2> QED BY <1>1, <1>4, <2>1, ResidueFrame
<1>5. ASSUME NEW p \in Ops, AnswerOk(p)
      PROVE  ResidueOf(o, f)'
  <2>1. Closes(p, Response(p), "committed")
    BY <1>5, AnswerFacts
  <2> QED BY <1>1, <1>4, <2>1, ResponseResidue
<1>6. ASSUME NEW p \in Ops, AnswerUnknown(p)
      PROVE  ResidueOf(o, f)'
  <2>1. Closes(p, row, "delivery_unknown")
    BY <1>6, AnswerFacts
  <2> QED BY <1>4, <2>1
<1>7. ASSUME NEW p \in Ops, AnswerError(p)
      PROVE  ResidueOf(o, f)'
  <2>1. PICK new : new = RolledBack({p}, ops) /\ Closes(p, new, "failed")
    BY <1>7, AnswerFacts
  <2>2. p \in Pending
    BY <2>1 DEF Closes, Pending
  <2>3. p = o \/ Clean(row, o, f) =>
            Clean(new, o, f) \/ \E d \in Destroys : ~Clean(ops[d].rollbackRow, o, f)
    BY <2>1, <2>2, FailedResidue
  <2> QED BY <1>4, <2>1, <2>3
<1>8. ASSUME NEW q \in Queries, LandQuery(q)
      PROVE  ResidueOf(o, f)'
  <2>1. PICK data \in Rows, base \in Nat : data = reqs[q].data /\ base = reqs[q].base
    BY <1>1, TypedFacts DEF Typed
  <2>2. PICK new : new = Upserted(data, base, TRUE)
    OBVIOUS
  <2>3. /\ Noted(new) /\ UNCHANGED <<ops, events, server>> /\ reqs'[q].data = NoRow
        /\ \A r \in Requests \ {q} : reqs'[r] = reqs[r]
    BY <1>8, <2>1, <2>2, LandFacts
  <2>4. Clean(row, o, f) => Clean(new, o, f)
    <3>1. PICK snapshot \in BOOLEAN : snapshot = TRUE
      OBVIOUS
    <3>2. new = Upserted(data, base, snapshot) /\ Clean(data, o, f)
      BY <1>1, <2>1, <2>2, <3>1
    <3> QED BY <1>1, <3>2, UpsertedResidue
  <2>5. (\A r \in Requests : Clean(reqs'[r].data, o, f)) /\ row' = new
    BY <1>1, <2>3 DEF Noted
  <2> QED BY <1>1, <2>3, <2>4, <2>5, ResidueFrame
<1>9. CASE Deliver
  <2>1. PICK data : data = Head(events)
    OBVIOUS
  <2>2. /\ data \in Rows /\ Noted(DeliveredEvent) /\ ops' = ops /\ reqs' = reqs /\ server' = server
        /\ data = NoRow => DeliveredEvent = NoRow
        /\ data # NoRow => DeliveredEvent = Upserted(data, epoch, FALSE)
    BY <1>9, <2>1, DeliverFacts
  <2>3. events \in Seq(Rows) /\ events # <<>> /\ events' = Tail(events) /\ epoch \in Nat
    BY <1>1, <1>9 DEF Deliver, Typed, Base, Past
  <2>4. Clean(data, o, f) /\ \A i \in DOMAIN events' : Clean(events'[i], o, f)
    <3>1. 1 \in DOMAIN events /\ data = events[1]
      BY <2>1, <2>3
    <3>2. \A i \in DOMAIN events' : i + 1 \in DOMAIN events /\ events'[i] = events[i + 1]
      BY <2>3
    <3> QED BY <1>1, <3>1, <3>2
  <2>5. Clean(row, o, f) => Clean(DeliveredEvent, o, f)
    BY <1>1, <2>2, <2>3, <2>4, UpsertedResidue
  <2>6. row' = DeliveredEvent
    BY <2>2 DEF Noted
  <2> QED BY <1>1, <2>2, <2>4, <2>5, <2>6, ResidueFrame
<1>10. CASE Serves
  <2>1. /\ Clean(server', o, f) /\ \A i \in DOMAIN events' : Clean(events'[i], o, f)
        /\ \A r \in Requests : Clean(reqs'[r].data, o, f)
    BY <1>10, ServesResidue
  <2>2. row' = row /\ ops' = ops
    BY <1>10, ServesFacts
  <2> QED BY <2>1, <2>2, ResidueFrame
<1>11. CASE Prune \/ UNCHANGED vars
  <2>1. UNCHANGED <<row, ops, reqs, events, server>>
    BY <1>11 DEF Prune, vars, client, world
  <2> QED BY <1>1, <2>1, ResidueFrame
<1>12. ASSUME NEW q \in Queries, SendQuery(q)
       PROVE  ResidueOf(o, f)'
  <2>1. /\ reqs' = [reqs EXCEPT ![q] = [Idle EXCEPT !.phase = "sent", !.base = epoch]]
        /\ UNCHANGED <<row, ops, events, server>>
    BY <1>12 DEF SendQuery, client, world
  <2>2. reqs'[q].data = NoRow /\ \A r \in Requests \ {q} : reqs'[r] = reqs[r]
    BY <1>1, <2>1 DEF Idle, Typed
  <2>3. \A r \in Requests : Clean(reqs'[r].data, o, f)
    BY <1>1, <2>2
  <2> QED BY <1>1, <2>1, <2>3, ResidueFrame
<1>13. CASE Restart
  <2>1. PICK new : new = RolledBack(Pending, Hydrated) /\ Restarts(new)
    BY <1>13, RestartFacts
  <2>2. /\ server' = server /\ events' = <<>> /\ row' = new
        /\ (\A w \in Ops : ops'[w].rollbackRow = ops[w].rollbackRow)
        /\ (\A r \in Requests : reqs'[r].data \in {reqs[r].data, NoRow})
        /\ ops'[o].status = IF o \in Pending THEN "failed" ELSE ops[o].status
    BY <1>1, <2>1 DEF Restarts
  <2>3. o \in Pending \/ Clean(row, o, f) =>
            Clean(new, o, f) \/ \E d \in Destroys : ~Clean(ops[d].rollbackRow, o, f)
    BY <2>1, RolledResidue DEF Restarts
  <2>4. (\A i \in DOMAIN events' : Clean(events'[i], o, f))
        /\ \A r \in Requests : Clean(reqs'[r].data, o, f)
    BY <1>1, <2>2
  <2> QED BY <1>1, <2>2, <2>3, <2>4, ResidueFrame
<1> QED BY <1>2, <1>3, <1>5, <1>6, <1>7, <1>8, <1>9, <1>10, <1>11, <1>12, <1>13 DEF Step

-----------------------------------------------------------------------------
(* What follows a burial *)

\* A deleted row stays deleted on the server, which emits what it stores
\* and answers a query with what it has.
LEMMA ServerFacts ==
    ASSUME Base, Serves
    PROVE  /\ server = NoRow => server' = NoRow /\ events' = events
           /\ \/ events' = events
              \/ /\ events'[Len(events')] = server' /\ \A i \in DOMAIN events : events'[i] = events[i]
                 /\ DOMAIN events' = DOMAIN events \cup {Len(events')}
           /\ \A q \in Queries :
                \/ reqs'[q] = reqs[q]
                \/ reqs'[q].data = server
<1>1. Typed /\ server \in Rows /\ NoRow \in Rows /\ NoRow \in Payloads /\ Queries \subseteq Requests
      /\ \A o \in Ops : o \in Requests /\ o \notin Queries
  BY RowFacts, OpFacts DEF Base, Typed
<1>2. ASSUME NEW o \in Ops, NEW data, NEW result, Reply(o, data, result)
      PROVE  \A q \in Queries : reqs'[q] = reqs[q]
  BY <1>1, <1>2 DEF Reply, Typed
<1>3. ASSUME NEW new \in Rows, server # NoRow, Emits(new), server' = new,
             \A q \in Queries : reqs'[q] = reqs[q]
      PROVE  /\ \/ events' = events
                \/ /\ events'[Len(events')] = server' /\ \A i \in DOMAIN events : events'[i] = events[i]
                   /\ DOMAIN events' = DOMAIN events \cup {Len(events')}
             /\ \A q \in Queries : reqs'[q] = reqs[q]
  BY <1>1, <1>3, EmitsFacts
<1>4. ASSUME NEW q \in Queries, HandleQuery(q)
      PROVE  UNCHANGED <<server, events>> /\ \A w \in Queries : reqs'[w] = reqs[w] \/ reqs'[w].data = server
  <2>1. Reply(q, server, "ok") /\ UNCHANGED <<server, events>>
    BY <1>4 DEF HandleQuery, world
  <2>2. q \in Requests /\ server \in Payloads /\ "ok" \in Results
    BY <1>1, RowFacts DEF Results
  <2>3. reqs'[q].data = server /\ \A w \in Requests \ {q} : reqs'[w] = reqs[w]
    BY <1>1, <2>1, <2>2, ReplyFacts
  <2> QED BY <1>1, <2>1, <2>3
<1>5. ASSUME NEW o \in Ops, Refuse(o)
      PROVE  UNCHANGED <<server, events>> /\ \A q \in Queries : reqs'[q] = reqs[q]
  BY <1>2, <1>5 DEF Refuse, world
<1>6. ASSUME NEW o \in Patches, HandlePatch(o)
      PROVE  server # NoRow /\ (\A q \in Queries : reqs'[q] = reqs[q])
             /\ \E new \in Rows : server' = new /\ Emits(new)
  <2>1. o \in Ops /\ server # NoRow
    BY <1>6, OpFacts DEF HandlePatch
  <2>2. PICK new \in {Stored(o), server}, result \in {"ok", "unknown"} :
            server' = new /\ Emits(new) /\ Reply(o, Carried(o, new), result)
    BY <1>6 DEF HandlePatch
  <2>3. new \in Rows
    BY <1>1, <2>1, <2>2, StoredFacts
  <2> QED BY <1>2, <2>1, <2>2, <2>3
<1>7. ASSUME NEW o \in Destroys, HandleDestroy(o)
      PROVE  server # NoRow /\ (\A q \in Queries : reqs'[q] = reqs[q])
             /\ \E new \in Rows : server' = new /\ Emits(new)
  <2>1. o \in Ops /\ server # NoRow /\ server' = NoRow /\ Emits(NoRow)
    BY <1>7, OpFacts DEF HandleDestroy
  <2>2. \E result \in {"ok", "unknown"} : Reply(o, NoRow, result)
    BY <1>7 DEF HandleDestroy
  <2> QED BY <1>1, <1>2, <2>1, <2>2
<1>8. ASSUME (\E f \in Fields : Write(f)) \/ Delete
      PROVE  server # NoRow /\ (\A q \in Queries : reqs'[q] = reqs[q])
             /\ \E new \in Rows : server' = new /\ Emits(new)
  <2>1. reqs' = reqs /\ server # NoRow /\ Emits(server')
    BY <1>8 DEF Write, Delete
  <2>2. server' \in Rows
    BY ServerBase DEF Base, Typed
  <2> QED BY <2>1, <2>2
<1> QED BY <1>3, <1>4, <1>5, <1>6, <1>7, <1>8 DEF Serves

\* A commit of the client alone.
LEMMA NotedBurial ==
    ASSUME Base, Burial, NEW new, Noted(new), UNCHANGED <<events, server, buried, pruned>>,
           NoneBorn' => NoneBorn,
           \A q \in Queries : reqs'[q].phase = "answered" => reqs'[q] = reqs[q],
           new = NoRow /\ NoneBorn' => row = NoRow,
           buried /\ NoneBorn' /\ row = NoRow => new = NoRow,
           buried /\ ~pruned /\ new # NoRow =>
               \E d \in Destroys : ops'[d].born > 0 /\ ops'[d].status \in {"failed", "removed"}
    PROVE  Burial'
<1>1. row' = new /\ tombstoned' = (new = NoRow /\ (row # NoRow \/ tombstoned))
  BY DEF Noted
<1>2. ASSUME NEW base, revisions.row > base, base \in Nat
      PROVE  revisions'.row > base
  <2>1. revisions.row \in Nat /\ revisions.row <= epoch /\ epoch \in Nat /\ revisions'.row \in Nat
    BY DEF Base, Past, Noted, Marks
  <2>2. revisions'.row = revisions.row \/ revisions'.row > epoch
    BY DEF Noted
  <2> QED BY ONLY <1>2, <2>1, <2>2
<1>3. row' = NoRow /\ ~pruned' => tombstoned'
  BY <1>1 DEF Burial
<1>4. row' = NoRow => buried' \/ ~NoneBorn'
  BY <1>1 DEF Burial
<1>5. ASSUME buried', NoneBorn'
      PROVE  /\ row' = NoRow
             /\ \A q \in Queries :
                   reqs'[q].phase = "answered" /\ reqs'[q].data # NoRow => revisions'.row > reqs'[q].base
  <2>1. \A q \in Queries : reqs[q].base \in Nat
    BY OpFacts, TypedFacts DEF Base
  <2>2. /\ row = NoRow
        /\ \A q \in Queries :
              reqs[q].phase = "answered" /\ reqs[q].data # NoRow => revisions.row > reqs[q].base
    BY <1>5 DEF Burial
  <2>3. ASSUME NEW q \in Queries, reqs'[q].phase = "answered", reqs'[q].data # NoRow
        PROVE  revisions'.row > reqs'[q].base
    <3>1. reqs'[q] = reqs[q]
      BY <2>3
    <3>2. revisions.row > reqs[q].base
      BY <2>2, <2>3, <3>1
    <3> QED BY <1>2, <2>1, <3>1, <3>2
  <2> QED BY <1>1, <1>5, <2>2, <2>3
<1>6. buried' /\ ~pruned' /\ row' # NoRow =>
          \E d \in Destroys : ops'[d].born > 0 /\ ops'[d].status \in {"failed", "removed"}
  BY <1>1
<1>7. /\ \A i \in DOMAIN events' : events'[i] = NoRow => i = Len(events') /\ server' = NoRow
      /\ buried' => server' = NoRow /\ events' = <<>>
  BY DEF Burial
<1> QED BY <1>3, <1>4, <1>5, <1>6, <1>7 DEF Burial

\* A destroy that has begun is born.
LEMMA BornFacts ==
    ASSUME Base, NEW o \in Ops, ops[o].status # "none"
    PROVE  ops[o].born > 0 /\ (o \in Destroys => ~NoneBorn)
<1>1. ops[o].born > 0
  BY DEF Base, Ledgered
<1>2. ~ (ops[o].born = 0)
  BY <1>1
<1> QED BY <1>1, <1>2 DEF NoneBorn

\* A begin, a discard or an answer to an action: only a begin or an answer
\* of a destroy takes the row away, and only a failed destroy brings it back.
LEMMA LedgerBurial ==
    ASSUME Base, Burial, NEW p \in Ops, NEW new, Noted(new), UNCHANGED <<events, server, buried, pruned>>,
           \A o \in Ops : o # p => ops'[o] = ops[o],
           ops'[p].born > 0, p \in Patches => ops[p].born > 0 \/ ops[p].status = "none",
           \A q \in Queries : reqs'[q].phase = "answered" => reqs'[q] = reqs[q],
           p \in Patches => (row # NoRow <=> new # NoRow),
           p \in Destroys /\ new # NoRow =>
               \/ ops'[p].status \in {"failed", "removed"}
               \/ row # NoRow /\ ops[p].status \notin {"failed", "removed"}
    PROVE  Burial'
<1>1. NoneBorn' => NoneBorn /\ p \in Patches
  <2>1. p \in Destroys => ~NoneBorn'
    <3>1. p \in Destroys => ~(ops'[p].born = 0)
      OBVIOUS
    <3> QED BY <3>1 DEF NoneBorn
  <2>2. p \in Patches => \A d \in Destroys : ops'[d] = ops[d]
    BY OpFacts
  <2> QED BY <2>1, <2>2, OpFacts DEF NoneBorn
<1>2. buried /\ ~pruned /\ new # NoRow =>
          \E d \in Destroys : ops'[d].born > 0 /\ ops'[d].status \in {"failed", "removed"}
  <2>1. CASE p \in Destroys /\ ops'[p].status \in {"failed", "removed"}
    BY <2>1
  <2>2. CASE row # NoRow /\ (p \in Destroys => ops[p].status \notin {"failed", "removed"})
    <3>1. ASSUME buried, ~pruned
          PROVE  \E d \in Destroys : ops'[d].born > 0 /\ ops'[d].status \in {"failed", "removed"}
      <4>1. PICK d \in Destroys : ops[d].born > 0 /\ ops[d].status \in {"failed", "removed"}
        BY <2>2, <3>1 DEF Burial
      <4>2. d # p /\ d \in Ops
        BY <2>2, <4>1, OpFacts
      <4> QED BY <4>1, <4>2
    <3> QED BY <3>1
  <2> QED BY <2>1, <2>2, OpFacts
<1> QED BY <1>1, <1>2, NotedBurial

\* The end of a request keeps Burial.
LEMMA AnswersBurial ==
    ASSUME Base, Burial, NEW p \in Ops, AnswerOk(p) \/ AnswerError(p) \/ AnswerUnknown(p)
    PROVE  Burial'
<1>1. Typed /\ Past /\ Ledgered /\ p \in Requests /\ p \notin Queries /\ Queries \subseteq Requests
  BY OpFacts DEF Base
<1>2. ASSUME NEW new, NEW status, Closes(p, new, status),
             p \in Patches => (row # NoRow <=> new # NoRow),
             p \in Destroys /\ new # NoRow => status = "failed" \/ row # NoRow
      PROVE  Burial'
  <2>1. /\ Noted(new) /\ UNCHANGED <<events, server, buried, pruned>> /\ ops[p].status = "pending"
        /\ (\A o \in Ops : o # p => ops'[o] = ops[o]) /\ ops'[p].born = ops[p].born
        /\ ops'[p].status = status /\ \A r \in Requests : r # p => reqs'[r] = reqs[r]
    BY <1>2 DEF Closes
  <2>2. ops[p].born > 0
    BY <2>1, BornFacts
  <2>3. \A q \in Queries : reqs'[q] = reqs[q]
    BY <1>1, <2>1
  <2> QED BY <1>2, <2>1, <2>2, <2>3, LedgerBurial
<1>3. CASE AnswerOk(p)
  <2>1. PICK new : new = Response(p) /\ Closes(p, new, "committed")
    BY <1>3, AnswerFacts
  <2>2. PICK data \in Payloads, base \in Nat : data = reqs[p].data /\ base = reqs[p].base
    BY <1>1, TypedFacts
  <2>3. p \in Patches => (row # NoRow <=> new # NoRow)
    <3>1. p \in Patches => new = Patched(data, base)
      BY <2>1, <2>2, OpFacts DEF Response
    <3> QED BY <1>1, <3>1, PatchedFacts
  <2>4. p \in Destroys => new \in {row, NoRow}
    BY <2>1, DestroyedFacts DEF Response
  <2> QED BY <1>2, <2>1, <2>3, <2>4
<1>4. CASE AnswerError(p)
  <2>1. PICK new : new = RolledBack({p}, ops) /\ Closes(p, new, "failed")
    BY <1>4, AnswerFacts
  <2>2. p \in Pending /\ ops[p].rollbackRow # NoRow /\ ops \in [Ops -> Entries]
    BY <1>1, <2>1 DEF Closes, Pending, Ledgered, Typed
  <2>3. PICK S \in SUBSET Ops, ledger \in [Ops -> Entries] : S = {p} /\ ledger = ops
    BY <2>2
  <2>4. new = RolledBack(S, ledger)
        /\ \A w \in S : ops[w].rollbackRow # NoRow /\ ledger[w].rollbackRow = ops[w].rollbackRow
    BY <2>1, <2>2, <2>3
  <2>5. row # NoRow => new # NoRow
    BY <1>1, <2>4, RolledFacts
  <2>6. row = NoRow /\ S \cap Destroys = {} => new = NoRow
    BY <1>1, <2>4, RolledFacts
  <2>7. p \in Patches => S \cap Destroys = {}
    BY <2>3, OpFacts
  <2> QED BY <1>2, <2>1, <2>5, <2>6, <2>7
<1>5. CASE AnswerUnknown(p)
  <2>1. Closes(p, row, "delivery_unknown")
    BY <1>5, AnswerFacts
  <2> QED BY <1>2, <2>1
<1> QED BY <1>3, <1>4, <1>5

\* An event is the last there is when it says that the row is gone.
LEMMA DeliverBurial ==
    ASSUME Base, Burial, Deliver
    PROVE  Burial'
<1>1. Typed /\ Past /\ events \in Seq(Rows) /\ events # <<>> /\ epoch \in Nat
  BY DEF Base, Typed, Past, Deliver
<1>2. PICK data \in Rows, new \in Rows : data = Head(events) /\ new = DeliveredEvent
  BY DeliverFacts
<1>3. /\ Noted(new) /\ ops' = ops /\ reqs' = reqs /\ server' = server
      /\ data = NoRow => new = NoRow
      /\ data # NoRow => new = Upserted(data, epoch, FALSE)
  BY <1>2, DeliverFacts
<1>4. /\ events' = Tail(events) /\ pruned' = pruned
      /\ buried' = (buried \/ data = NoRow) /\ ~buried
  BY <1>1, <1>2 DEF Deliver, Burial
<1>5. row' = new /\ tombstoned' = (new = NoRow /\ (row # NoRow \/ tombstoned))
  BY <1>3 DEF Noted
<1>6. row' = NoRow /\ ~pruned' => tombstoned'
  BY <1>4, <1>5 DEF Burial
<1>7. NoneBorn' <=> NoneBorn
  BY <1>3 DEF NoneBorn
<1>8. 1 \in DOMAIN events /\ data = events[1] /\ Len(events) \in Nat
      /\ Len(Tail(events)) = Len(events) - 1
      /\ \A i \in DOMAIN Tail(events) : i + 1 \in DOMAIN events /\ Tail(events)[i] = events[i + 1]
                                        /\ i \in Nat
  BY <1>1, <1>2
<1>9. CASE data = NoRow
  <2>1. 1 = Len(events) /\ server = NoRow
    BY <1>8, <1>9 DEF Burial
  <2>2. events' = <<>> /\ buried' /\ server' = NoRow
    <3>1. Tail(events) = <<>>
      <4>1. Tail(events) \in Seq(Rows)
        BY ONLY <1>1
      <4>2. Len(Tail(events)) = 0
        BY ONLY <1>8, <2>1
      <4> QED BY <4>1, <4>2, EmptySeq
    <3> QED BY <1>3, <1>4, <1>9, <2>1, <3>1
  <2>3. row' = NoRow
    BY <1>3, <1>5, <1>9
  <2>4. ASSUME NoneBorn', NEW q \in Queries
        PROVE  revisions'.row > reqs'[q].base
    <3>1. row # NoRow
      BY <1>4, <1>7, <2>4 DEF Burial
    <3>2. revisions'.row > epoch
      BY <1>3, <1>5, <2>3, <3>1 DEF Noted
    <3>3. reqs[q].base \in Nat /\ reqs[q].base <= epoch /\ revisions'.row \in Nat
      BY <1>1, <1>3, OpFacts, TypedFacts DEF Typed, Noted, Past, Marks
    <3>4. revisions'.row > reqs[q].base
      BY ONLY <1>1, <3>2, <3>3
    <3> QED BY <1>3, <3>4
  <2>5. \A i \in DOMAIN events' : FALSE
    BY <2>2
  <2> QED BY <1>6, <2>2, <2>3, <2>4, <2>5 DEF Burial
<1>10. CASE data # NoRow
  <2>1. new = NoRow => row = NoRow
    <3>1. PICK snapshot \in BOOLEAN : snapshot = FALSE
      OBVIOUS
    <3>2. new = Upserted(data, epoch, snapshot)
      BY <1>3, <1>10, <3>1
    <3> QED BY <1>1, <3>2, UpsertedFacts
  <2>2. ~buried'
    BY <1>4, <1>10
  <2>3. ASSUME NEW i \in DOMAIN events', events'[i] = NoRow
        PROVE  i = Len(events') /\ server' = NoRow
    <3>1. i + 1 \in DOMAIN events /\ events[i + 1] = NoRow /\ i \in Nat /\ Len(events') = Len(events) - 1
      BY <1>4, <1>8, <2>3
    <3>2. i + 1 = Len(events) /\ server = NoRow
      BY <3>1 DEF Burial
    <3> QED BY <1>3, <1>8, <3>1, <3>2
  <2>4. row' = NoRow => ~NoneBorn'
    BY <1>4, <1>5, <1>7, <2>1 DEF Burial
  <2> QED BY <1>6, <2>2, <2>3, <2>4 DEF Burial
<1> QED BY <1>9, <1>10

\* The boot pass brings back only what a pending destroy had captured.
LEMMA RestartBurial ==
    ASSUME Base, Rested, Burial, Restart
    PROVE  Burial'
<1>1. PICK new : new = RolledBack(Pending, Hydrated) /\ Restarts(new)
  BY RestartFacts
<1>2. /\ row' = new /\ tombstoned' = (tombstoned /\ new = NoRow)
      /\ events' = <<>> /\ server' = server /\ buried' = buried /\ pruned' = pruned
      /\ row # NoRow => new # NoRow
      /\ \A o \in Ops : ops'[o].born = ops[o].born
                        /\ ops'[o].status = IF o \in Pending THEN "failed" ELSE ops[o].status
  BY <1>1 DEF Restarts
<1>3. NoneBorn' <=> NoneBorn
  BY <1>2, OpFacts DEF NoneBorn
<1>4. row = NoRow /\ NoneBorn => new = NoRow
  <2>1. NoneBorn => Pending \cap Destroys = {}
    <3>1. \A d \in Pending \cap Destroys : d \in Ops /\ ops[d].status # "none"
      BY DEF Pending
    <3> QED BY <3>1, BornFacts
  <2> QED BY <1>1, <2>1 DEF Restarts
<1>5. ASSUME NEW q \in Queries
      PROVE  reqs'[q].phase # "answered"
  <2>1. q \in Requests /\ q \notin InFlight'
    BY <1>1, OpFacts DEF Restarts
  <2> QED BY <2>1 DEF InFlight
<1>6. ASSUME buried, ~pruned, new # NoRow
      PROVE  \E d \in Destroys : ops'[d].born > 0 /\ ops'[d].status \in {"failed", "removed"}
  <2>1. CASE row = NoRow
    <3>1. PICK d \in Pending \cap Destroys : TRUE
      BY <1>1, <1>6, <2>1 DEF Restarts
    <3>2. d \in Ops /\ ops[d].status # "none"
      BY DEF Pending
    <3> QED BY <1>2, <3>2, BornFacts
  <2>2. CASE row # NoRow
    <3>1. PICK d \in Destroys : ops[d].born > 0 /\ ops[d].status \in {"failed", "removed"}
      BY <1>6, <2>2 DEF Burial
    <3> QED BY <1>2, <3>1, OpFacts
  <2> QED BY <2>1, <2>2
<1>7. row' = NoRow /\ ~pruned' => tombstoned'
  BY <1>2 DEF Burial
<1>8. row' = NoRow => buried' \/ ~NoneBorn'
  BY <1>2, <1>3 DEF Burial
<1>9. buried' /\ NoneBorn' => row' = NoRow
  BY <1>2, <1>3, <1>4 DEF Burial
<1>10. (\A i \in DOMAIN events' : FALSE) /\ (buried' => server' = NoRow /\ events' = <<>>)
  BY <1>2 DEF Burial
<1> QED BY <1>2, <1>5, <1>6, <1>7, <1>8, <1>9, <1>10 DEF Burial

\* The server keeps Burial.
LEMMA ServesBurial ==
    ASSUME Base, Burial, Serves
    PROVE  Burial'
<1>1. /\ UNCHANGED <<row, tombstoned, revisions, ops, buried, pruned>>
      /\ \A r \in Requests : reqs'[r].base = reqs[r].base
  BY ServesFacts
<1>2. /\ server = NoRow => server' = NoRow /\ events' = events
      /\ \/ events' = events
         \/ /\ events'[Len(events')] = server' /\ \A i \in DOMAIN events : events'[i] = events[i]
            /\ DOMAIN events' = DOMAIN events \cup {Len(events')}
      /\ \A q \in Queries : reqs'[q] = reqs[q] \/ reqs'[q].data = server
  BY ServerFacts
<1>3. (NoneBorn' <=> NoneBorn) /\ Queries \subseteq Requests
  BY <1>1, OpFacts DEF NoneBorn
<1>4. ASSUME NEW i \in DOMAIN events', events'[i] = NoRow
      PROVE  i = Len(events') /\ server' = NoRow
  BY <1>2, <1>4 DEF Burial
<1>5. ASSUME buried', NoneBorn', NEW q \in Queries, reqs'[q].phase = "answered", reqs'[q].data # NoRow
      PROVE  revisions'.row > reqs'[q].base
  <2>1. server = NoRow /\ reqs'[q] = reqs[q]
    BY <1>1, <1>2, <1>5 DEF Burial
  <2> QED BY <1>1, <1>3, <1>5, <2>1 DEF Burial
<1>6. buried' => server' = NoRow /\ events' = <<>>
  BY <1>1, <1>2 DEF Burial
<1>7. /\ row' = NoRow /\ ~pruned' => tombstoned'
      /\ row' = NoRow => buried' \/ ~NoneBorn'
      /\ buried' /\ NoneBorn' => row' = NoRow
      /\ buried' /\ ~pruned' /\ row' # NoRow =>
            \E d \in Destroys : ops'[d].born > 0 /\ ops'[d].status \in {"failed", "removed"}
  BY <1>1, <1>3 DEF Burial
<1> QED BY <1>4, <1>5, <1>6, <1>7 DEF Burial

\* Every step keeps Burial.
LEMMA StepBurial ==
    ASSUME Base, Rested, Burial, Step
    PROVE  Burial'
<1>1. Typed /\ Past /\ Ledgered /\ Queries \subseteq Requests /\ (\A o \in Ops : o \notin Queries)
  BY OpFacts DEF Base
<1>2. ASSUME NEW p \in Ops, Opens(p)
      PROVE  Burial'
  <2>1. PICK new : new = Optimistic(p)
    OBVIOUS
  <2>2. /\ Noted(new) /\ UNCHANGED <<events, server, buried, pruned>>
        /\ (\A o \in Ops : o # p => ops'[o] = ops[o])
        /\ \A r \in Requests : r # p => reqs'[r] = reqs[r]
    BY <1>2, <2>1 DEF Opens
  <2>3. ops'[p].born > 0 /\ (ops[p].born > 0 \/ ops[p].status = "none")
    <3>1. ops[p].status = "failed" => ops[p].born > 0
      BY BornFacts
    <3>2. clock \in Nat
      BY <1>1 DEF Typed
    <3> QED BY <1>2, <3>1, <3>2 DEF Opens
  <2>4. p \in Patches => (row # NoRow <=> new # NoRow)
    BY <1>1, <2>1, OptimisticFacts
  <2>5. p \in Destroys => new = NoRow
    BY <1>1, <2>1, OptimisticFacts
  <2>6. \A q \in Queries : reqs'[q] = reqs[q]
    BY <1>1, <2>2
  <2> QED BY <2>2, <2>3, <2>4, <2>5, <2>6, LedgerBurial
<1>3. ASSUME NEW p \in Ops, Discards(p)
      PROVE  Burial'
  <2>1. /\ Noted(row) /\ UNCHANGED <<events, server, buried, pruned>> /\ reqs' = reqs
        /\ (\A o \in Ops : o # p => ops'[o] = ops[o]) /\ ops'[p].born = ops[p].born
        /\ ops'[p].status = "removed" /\ ops[p].status # "none"
    BY <1>3 DEF Discards
  <2>2. ops[p].born > 0
    BY <2>1, BornFacts
  <2> QED BY <2>1, <2>2, LedgerBurial
<1>4. ASSUME NEW q \in Queries, LandQuery(q)
      PROVE  Burial'
  <2>1. PICK data \in Rows, base \in Nat : data = reqs[q].data /\ base = reqs[q].base
    BY <1>1, TypedFacts DEF Typed
  <2>2. PICK snapshot \in BOOLEAN : snapshot = TRUE
    OBVIOUS
  <2>3. PICK new : new = Upserted(data, base, snapshot)
    OBVIOUS
  <2>4. /\ Noted(new) /\ UNCHANGED <<ops, events, server, buried, pruned>> /\ reqs'[q].phase = "done"
        /\ (\A r \in Requests \ {q} : reqs'[r] = reqs[r]) /\ reqs[q].phase = "answered"
    BY <1>4, <2>1, <2>2, <2>3, LandFacts
  <2>5. /\ row # NoRow => new # NoRow
        /\ row = NoRow => new \in {NoRow, data}
        /\ row = NoRow /\ (revisions.row > base \/ (snapshot /\ tombstoned)) => new = NoRow
    BY <1>1, <2>3, UpsertedFacts
  <2>6. NoneBorn' <=> NoneBorn
    BY <2>4 DEF NoneBorn
  <2>7. \A w \in Queries : reqs'[w].phase = "answered" => reqs'[w] = reqs[w]
    BY <1>1, <2>4
  <2>8. buried /\ NoneBorn /\ row = NoRow => new = NoRow
    <3>1. buried /\ NoneBorn => data = NoRow \/ revisions.row > base
      BY <2>1, <2>4 DEF Burial
    <3> QED BY <2>5, <3>1
  <2>9. buried /\ ~pruned /\ new # NoRow =>
            \E d \in Destroys : ops'[d].born > 0 /\ ops'[d].status \in {"failed", "removed"}
    <3>1. row = NoRow /\ ~pruned => new = NoRow
      BY <2>2, <2>5 DEF Burial
    <3> QED BY <2>4, <3>1 DEF Burial
  <2> QED BY <2>4, <2>5, <2>6, <2>7, <2>8, <2>9, NotedBurial
<1>5. CASE Prune
  <2>1. /\ UNCHANGED <<row, revisions, ops, reqs, events, server, buried>>
        /\ pruned' = TRUE
    BY <1>5 DEF Prune, world
  <2> QED BY <2>1 DEF Burial, NoneBorn
<1>6. CASE UNCHANGED vars
  BY <1>6 DEF vars, client, world, history, Burial, NoneBorn
<1>7. ASSUME NEW q \in Queries, SendQuery(q)
      PROVE  Burial'
  <2>1. /\ reqs' = [reqs EXCEPT ![q] = [Idle EXCEPT !.phase = "sent", !.base = epoch]]
        /\ UNCHANGED <<row, tombstoned, revisions, ops, events, server, buried, pruned>>
    BY <1>7 DEF SendQuery, client, world, history
  <2>2. reqs'[q].phase = "sent" /\ \A w \in Queries : w # q => reqs'[w] = reqs[w]
    BY <1>1, <2>1 DEF Typed, Idle
  <2>3. \A w \in Queries : reqs'[w].phase = "answered" => reqs'[w] = reqs[w]
    BY <2>2
  <2> QED BY <2>1, <2>3 DEF Burial, NoneBorn
<1> QED BY <1>2, <1>3, <1>4, <1>5, <1>6, <1>7, AnswersBurial, DeliverBurial, RestartBurial, ServesBurial DEF Step

-----------------------------------------------------------------------------
(* The bound of the ledger's clock *)

\* Every step keeps Counted.
LEMMA StepCounted ==
    ASSUME Base, Rested, Counted, Step
    PROVE  Counted'
<1> DEFINE begun == {o \in Ops : ops[o].born > 0}
<1>1. Typed /\ Ledgered /\ clock \in Nat /\ troubles \in Nat
  BY OpFacts DEF Base, Typed
<1>2. IsFiniteSet(begun) /\ Cardinality(begun) \in Nat
  BY RowAssumption, FS_Subset, FS_CardinalityType
<1>3. clock <= Cardinality(begun) + troubles
  BY DEF Counted
<1>4. ASSUME clock' = clock, troubles' \in Nat, troubles <= troubles',
             \A o \in Ops : ops'[o].born = ops[o].born
      PROVE  Counted'
  <2>1. begun' = begun
    BY <1>4
  <2>2. PICK n \in Nat : n = Cardinality(begun)
    BY <1>2
  <2>3. Cardinality(begun') = n
    BY <2>1, <2>2
  <2>4. clock' <= n + troubles'
    BY <1>1, <1>3, <1>4, <2>2
  <2> QED BY <2>3, <2>4 DEF Counted
<1>5. ASSUME NEW o \in Ops, Opens(o)
      PROVE  Counted'
  <2>1. clock' = clock + 1 /\ \A p \in Ops \ {o} : ops'[p] = ops[p]
    BY <1>5 DEF Opens
  <2>2. CASE ops[o].status = "none" /\ troubles' = troubles /\ ops'[o].born = clock + 1
    <3>1. begun' = begun \cup {o} /\ o \notin begun
      BY <1>1, <2>1, <2>2 DEF Ledgered
    <3>2. Cardinality(begun') = Cardinality(begun) + 1
      BY <1>2, <3>1, FS_AddElement
    <3> QED BY <1>1, <1>2, <1>3, <2>1, <2>2, <3>2 DEF Counted
  <2>3. CASE troubles' = troubles + 1 /\ ops'[o].born = ops[o].born
    <3>1. begun' = begun
      BY <2>1, <2>3
    <3>2. PICK n \in Nat : n = Cardinality(begun)
      BY <1>2
    <3>3. Cardinality(begun') = n
      BY <3>1, <3>2
    <3>4. clock' <= n + troubles'
      BY <1>1, <1>3, <2>1, <2>3, <3>2
    <3> QED BY <3>3, <3>4 DEF Counted
  <2> QED BY <1>5, <2>2, <2>3 DEF Opens
<1>6. ASSUME NEW o \in Ops, Discards(o)
      PROVE  Counted'
  <2>1. clock' = clock /\ troubles' = troubles /\ \A p \in Ops : ops'[p].born = ops[p].born
    BY <1>6 DEF Discards
  <2> QED BY <1>1, <1>4, <2>1
<1>7. ASSUME NEW o \in Ops, AnswerOk(o) \/ AnswerError(o) \/ AnswerUnknown(o)
      PROVE  Counted'
  <2>1. clock' = clock /\ troubles' = troubles /\ \A p \in Ops : ops'[p].born = ops[p].born
    BY <1>7, AnswerFacts DEF Closes
  <2> QED BY <1>1, <1>4, <2>1
<1>8. ASSUME NEW q \in Queries, LandQuery(q) \/ SendQuery(q)
      PROVE  Counted'
  <2>1. clock' = clock /\ troubles' = troubles /\ ops' = ops
    BY <1>8 DEF LandQuery, SendQuery, client, world
  <2> QED BY <1>1, <1>4, <2>1
<1>9. CASE Deliver \/ Prune \/ UNCHANGED vars
  <2>1. clock' = clock /\ troubles' = troubles /\ ops' = ops
    BY <1>9 DEF Deliver, Prune, vars, client, world
  <2> QED BY <1>1, <1>4, <2>1
<1>10. CASE Restart
  <2>1. clock' = clock /\ troubles' = troubles + 1
    BY <1>10 DEF Restart, Trouble
  <2>2. \A o \in Ops : ops'[o].born = ops[o].born
    BY <1>10, RestartFacts DEF Restarts
  <2> QED BY <1>1, <1>4, <2>1, <2>2
<1>11. CASE Serves
  <2>1. clock' = clock /\ ops' = ops
    BY <1>11, ServesFacts
  <2>2. troubles' = troubles \/ troubles' = troubles + 1
    BY <1>11 DEF Serves, HandleQuery, Refuse, HandlePatch, HandleDestroy, Write, Delete, Trouble, world
  <2> QED BY <1>1, <1>4, <2>1, <2>2
<1> QED BY <1>5, <1>6, <1>7, <1>8, <1>9, <1>10, <1>11 DEF Step

\* A well-formed state is well typed.
LEMMA BaseTypes == Base /\ Counted => TypeOK
<1> SUFFICES ASSUME Base, Counted PROVE TypeOK
  OBVIOUS
<1> DEFINE begun == {o \in Ops : ops[o].born > 0}
<1>1. Past /\ Typed /\ Ledgered
  BY DEF Base
<1>2. Cardinality(begun) <= Cardinality(Ops) /\ Cardinality(begun) \in Nat /\ Cardinality(Ops) \in Nat
  <2>1. begun \in SUBSET Ops
    OBVIOUS
  <2> QED BY <2>1, RowAssumption, FS_Subset, FS_CardinalityType
<1>3. clock \in Nat /\ troubles \in Nat /\ troubles <= MaxTroubles /\ MaxTroubles \in Nat
  BY <1>1, BoundAssumption DEF Typed, Versions
<1>4. clock <= Cardinality(begun) + troubles
  BY DEF Counted
<1>5. clock \in 0 .. Cardinality(Ops) + MaxTroubles
  BY ONLY <1>2, <1>3, <1>4
<1>6. revisions \in [row : 0 .. epoch, existence : 0 .. epoch, field : [Fields -> 0 .. epoch]]
      /\ epoch \in Nat
  <2>1. revisions \in Marks /\ epoch \in Nat /\ revisions.row <= epoch /\ revisions.existence <= epoch
        /\ \A f \in Fields : revisions.field[f] <= epoch
    BY <1>1 DEF Past
  <2>2. revisions.field \in [Fields -> 0 .. epoch]
    BY <2>1 DEF Marks
  <2> QED BY <2>1, <2>2 DEF Marks
<1>7. \A o \in Ops :
        /\ ops[o].status \in Statuses
        /\ ops[o].born \in 0 .. clock /\ ops[o].began \in ops[o].born .. clock
        /\ ops[o].rollbackRow \in Rows
        /\ ops[o].status = "pending" <=> o \in InFlight
  <2>1. \A o \in Ops : ops[o].status \in Statuses /\ ops[o].born \in Nat /\ ops[o].began \in Nat
                       /\ ops[o].rollbackRow \in Rows
    BY <1>1, TypedFacts
  <2> QED BY <1>1, <1>3, <2>1 DEF Ledgered
<1>8. \A r \in Requests : reqs[r].base \in 0 .. epoch
  BY <1>1, <1>6, TypedFacts DEF Typed
<1> QED BY <1>1, <1>5, <1>6, <1>7, <1>8 DEF TypeOK, Typed

-----------------------------------------------------------------------------
(* The theorems *)

\* The invariants hold at the start.
LEMMA InitRest ==
    Init => Rested /\ Counted /\ Causal /\ Shown /\ Unrivalled /\ PendingHolds /\ Residue /\ Burial
<1> SUFFICES ASSUME Init
             PROVE  Rested /\ Counted /\ Causal /\ Shown /\ Unrivalled /\ PendingHolds /\ Residue /\ Burial
  OBVIOUS
<1>1. Base /\ row \in [Fields -> Values] /\ row # NoRow /\ 0 \in Versions
  BY InitBase, OpFacts, RowFacts DEF Init
<1>2. \A o \in Ops : ops[o].status = "none" /\ ops[o].born = 0 /\ ops[o].rollbackRow = NoRow
  BY DEF Init
<1>3. \A r \in Requests : reqs[r] = Idle /\ touched[r] = {}
  BY DEF Init
<1>4. Pending = {} /\ InFlight = {}
  BY <1>2, <1>3 DEF Pending, InFlight, Idle
<1>5. Rested /\ Causal
  BY <1>3, <1>4 DEF Rested, Causal, Idle
<1>6. Shown /\ Unrivalled /\ PendingHolds
  BY <1>4 DEF Shown, Unrivalled, PendingHolds, Live
<1>7. Counted
  <2>1. clock = 0 /\ troubles = 0
    BY DEF Init
  <2>2. IsFiniteSet({o \in Ops : ops[o].born > 0})
    BY RowAssumption, FS_Subset
  <2>3. Cardinality({o \in Ops : ops[o].born > 0}) \in Nat
    BY <2>2, FS_CardinalityType
  <2> QED BY <2>1, <2>3 DEF Counted
<1>8. Residue
  <2> SUFFICES ASSUME NEW o \in Patches, NEW f \in Fields
               PROVE  ResidueOf(o, f)
    BY DEF Residue
  <2>1. o \in Ops /\ Clean(NoRow, o, f)
    BY OpFacts, CleanFacts
  <2>2. row[f] = 0 /\ ValueOf[o] # 0
    BY <2>1, <1>1, OpFacts DEF Init
  <2>3. Clean(row, o, f) /\ Clean(server, o, f) /\ events = <<>>
    BY <2>2 DEF Clean, Init
  <2>4. \A r \in Requests : Clean(reqs[r].data, o, f)
    BY <1>3, <2>1 DEF Idle
  <2> QED BY <1>2, <2>1, <2>3, <2>4 DEF ResidueOf
<1>9. Burial
  BY <1>1 DEF Init, Burial
<1> QED BY <1>5, <1>6, <1>7, <1>8, <1>9

\* What the server has stored once stays stored.
LEMMA TakenGrows ==
    ASSUME [Next]_vars
    PROVE  taken \subseteq taken'
<1>1. ASSUME NEW o \in Ops, OpStep(o)
      PROVE  taken \subseteq taken'
  BY <1>1 DEF OpStep, Run, Retry, BeginAndSend, Discard, AnswerOk, AnswerError, AnswerUnknown, Settle,
              Refuse, HandlePatch, HandleDestroy, history
<1>2. ASSUME NEW q \in Queries, SendQuery(q) \/ HandleQuery(q) \/ LandQuery(q)
      PROVE  taken \subseteq taken'
  BY <1>2 DEF SendQuery, HandleQuery, LandQuery, history
<1>3. ASSUME (\E f \in Fields : Write(f)) \/ Deliver \/ Prune \/ Delete \/ Restart \/ UNCHANGED vars
      PROVE  taken \subseteq taken'
  BY <1>3 DEF Write, Deliver, Prune, Delete, Restart, vars, history
<1> QED BY <1>1, <1>2, <1>3 DEF Next

(* Every component stays in range, no revision is ahead of the last        *)
(* commit, and an operation is pending exactly while its request is under  *)
(* way (facadeActions.ts).                                                 *)
THEOREM RowTyping == Spec => []TypeOK
<1>1. Init => Base /\ Rested /\ Counted
  BY InitBase, InitRest
<1>2. Base /\ Rested /\ Counted /\ [Next]_vars => (Base /\ Rested /\ Counted)'
  BY NextIsStep, StepBase, StepRested, StepCounted
<1>3. Base /\ Counted => TypeOK
  BY BaseTypes
<1> QED BY <1>1, <1>2, <1>3, PTL DEF Spec

(* A field of a pending patch shows its value, that of a later pending     *)
(* patch, or what a settled later one left (CHANGELOG.md:843): for         *)
(* responses that carry the patched fields only, and patches of a field    *)
(* that write different values.                                            *)
THEOREM PendingIsHeld ==
    ASSUME ~WholeRow, Apart
    PROVE  Spec => []PendingHolds
<1> DEFINE Inv == Base /\ Rested /\ Causal /\ Shown /\ PendingHolds
<1>1. Init => Inv
  BY InitBase, InitRest
<1>2. Inv /\ [Next]_vars => Inv'
  BY NextIsStep, StepBase, StepRested, StepCausal, StepShown, StepPendingHolds
<1>3. Inv => PendingHolds
  OBVIOUS
<1> QED BY <1>1, <1>2, <1>3, PTL DEF Spec

(* The answer to a patch is stored field by field, unless a later patch of *)
(* the field began or the row came or went since it was sent               *)
(* (CHANGELOG.md:843): under the same two hypotheses.                      *)
THEOREM OwnValueIsKept ==
    ASSUME ~WholeRow, Apart
    PROVE  Spec => OwnValueWins
<1> DEFINE Inv == Base /\ Rested /\ Causal /\ Shown /\ Unrivalled
<1>1. Init => Inv
  BY InitBase, InitRest
<1>2. Inv /\ [Next]_vars => Inv'
  BY NextIsStep, StepBase, StepRested, StepCausal, StepShown, StepUnrivalled
<1>3. Inv => \A o \in Patches : AnswerOk(o) =>
        row = NoRow \/ "row" \in touched[o]
        \/ \A f \in PatchedBy[o] :
            \/ Later(o, f, Statuses) # {}
            \/ row'[f] = reqs[o].data[f]
  BY AnswerWins
<1> QED BY <1>1, <1>2, <1>3, PTL DEF Spec, OwnValueWins

(* A failed patch the server never stored leaves no trace in a field no    *)
(* other patch writes (requestRollback.ts:6-13), unless a destroy has      *)
(* captured the row in between.                                            *)
THEOREM NothingIsLeft == Spec => []NoResidue
<1> DEFINE Inv == Base /\ Rested /\ Residue
<1>1. Init => Inv
  BY InitBase, InitRest
<1>2. Inv /\ [Next]_vars => Inv'
  BY NextIsStep, StepBase, StepRested, StepResidue, TakenGrows
<1>3. Inv => NoResidue
  <2> SUFFICES ASSUME Inv, row # NoRow, NEW o \in Patches \ taken, ops[o].status = "failed",
                      NEW f \in PatchedBy[o], \A p \in Patches \ {o} : f \notin PatchedBy[p],
                      \A d \in Destroys :
                          ~(ops[d].rollbackRow # NoRow /\ ops[d].rollbackRow[f] = ValueOf[o])
               PROVE  row[f] # ValueOf[o]
    BY DEF NoResidue
  <2>1. f \in Fields /\ o \in Ops /\ Destroys \subseteq Ops /\ row \in [Fields -> Values]
    BY OpFacts, RowFacts DEF Base, Typed
  <2>2. ResidueOf(o, f)
    BY <2>1 DEF Residue, Alone
  <2>3. \A d \in Destroys : Clean(ops[d].rollbackRow, o, f)
    <3>1. \A d \in Destroys : ops[d].rollbackRow \in Rows
      BY <2>1, TypedFacts DEF Base
    <3> QED BY <3>1, RowFacts DEF Clean
  <2>4. Clean(row, o, f)
    BY <2>2, <2>3 DEF ResidueOf
  <2> QED BY <2>1, <2>4 DEF Clean
<1> QED BY <1>1, <1>2, <1>3, PTL DEF Spec

(* A row the server is known to have deleted comes back only with the      *)
(* rollback of a destroy of the client's own, or once its tombstone is     *)
(* pruned after such a destroy (modelApplyTarget.ts:147-156).              *)
THEOREM GoneIsFinal == Spec => []GoneStaysGone
<1> DEFINE Inv == Base /\ Rested /\ Burial
<1>1. Init => Inv
  BY InitBase, InitRest
<1>2. Inv /\ [Next]_vars => Inv'
  BY NextIsStep, StepBase, StepRested, StepBurial
<1>3. Inv => GoneStaysGone
  <2> SUFFICES ASSUME Inv, buried, row # NoRow
               PROVE  \E d \in Destroys : ops[d].born > 0
                          /\ (pruned \/ ops[d].status \in {"failed", "removed"})
    BY DEF GoneStaysGone
  <2>1. PICK d \in Destroys : ~(ops[d].born = 0)
    BY DEF Burial, NoneBorn
  <2>2. ops[d].born \in Nat
    BY OpFacts, TypedFacts DEF Base
  <2>3. ops[d].born > 0
    BY <2>1, <2>2
  <2> QED BY <2>3 DEF Burial
<1> QED BY <1>1, <1>2, <1>3, PTL DEF Spec
=============================================================================
