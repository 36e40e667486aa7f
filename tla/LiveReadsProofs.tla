-------------------------- MODULE LiveReadsProofs --------------------------
(***************************************************************************)
(* Theorems about the mounted reads of LiveReads, for every set of ids and *)
(* of components.  A relation read is current because what it depends on   *)
(* is told by its dependencies (UnconcernedIsUnchanged): a batch that does *)
(* not concern them changes neither them nor the value.  A declared read   *)
(* is current because the books of the cache balance: the query it listens *)
(* to is there as long as it holds it, built from the declaration it       *)
(* remembers.                                                              *)
(***************************************************************************)
EXTENDS LiveReadsProps, FiniteSetTheorems, TLAPS

Relations == {"belongsTo", "hasMany"}

\* The dependencies of a read tell its row: a changed id is a changed signature.
LEMMA DepsTellId ==
    ASSUME NEW old, NEW now, NEW relation \in Relations,
           NEW i \in Targets(relation), NEW j \in Targets(relation),
           Deps(old, relation, i) = Deps(now, relation, j)
    PROVE  i = j
<1>1. CASE relation = "belongsTo"
  <2>1. CASE i = NoId \/ j = NoId
    BY <1>1, <2>1 DEF Deps, BelongsToDeps, RowDep
  <2>2. CASE i # NoId /\ j # NoId
    <3>1. RowDep("child", i, {"parent"}) \in BelongsToDeps(now, j)
      BY <1>1, <2>2 DEF Deps, BelongsToDeps
    <3>2. RowDep("child", i, {"parent"}) # RowDep("parent", ParentOf(now, j), Whole)
      BY DEF RowDep
    <3>3. RowDep("child", i, {"parent"}) = RowDep("child", j, {"parent"})
      BY <2>2, <3>1, <3>2 DEF BelongsToDeps
    <3> QED BY <3>3 DEF RowDep
  <2> QED BY <2>1, <2>2
<1>2. CASE relation = "hasMany"
  <2>1. CASE i = NoId \/ j = NoId
    BY <1>2, <2>1 DEF Deps, HasManyDeps
  <2>2. CASE i # NoId /\ j # NoId
    <3>1. RowDep("parent", i, Whole) \in HasManyDeps(j)
      BY <1>2, <2>2 DEF Deps, HasManyDeps
    <3>2. RowDep("parent", i, Whole) # ModelDep("child")
      BY DEF RowDep, ModelDep
    <3>3. RowDep("parent", i, Whole) = RowDep("parent", j, Whole)
      BY <2>2, <3>1, <3>2 DEF HasManyDeps
    <3> QED BY <3>3 DEF RowDep
  <2> QED BY <2>1, <2>2
<1> QED BY <1>1, <1>2 DEF Relations

\* No read depends on what stands for no subscription.
LEMMA DepsAreNotNoSub ==
    ASSUME NEW now, NEW relation \in Relations, NEW i
    PROVE  Deps(now, relation, i) # NoSub
<1>1. ModelDep("none") # ModelDep("child")
  BY DEF ModelDep
<1>2. \A m, k, f : ModelDep("none") # RowDep(m, k, f)
  BY DEF ModelDep, RowDep
<1>3. ModelDep("none") \notin Deps(now, relation, i)
  BY <1>1, <1>2 DEF Deps, BelongsToDeps, HasManyDeps
<1> QED BY <1>3 DEF NoSub

\* A batch that does not concern the dependencies of a read changes neither the
\* dependencies nor the value (depMatches and related() agree).
LEMMA UnconcernedIsUnchanged ==
    ASSUME NEW old \in RowSets, NEW now \in RowSets, NEW relation \in Relations,
           NEW i \in Targets(relation),
           ~Concerns(Deps(now, relation, i), Batch(old, now))
    PROVE  /\ Deps(old, relation, i) = Deps(now, relation, i)
           /\ Compute(old, relation, i) = Compute(now, relation, i)
<1>1. CASE relation = "belongsTo"
  <2>1. CASE i = NoId
    <3>1. ParentOf(old, i) = Nobody /\ ParentOf(now, i) = Nobody
      BY <2>1, IdAssumption DEF ParentOf
    <3>2. BelongsTo(old, i) = {} /\ BelongsTo(now, i) = {}
      BY <3>1, IdAssumption DEF BelongsTo, RowSets
    <3> QED BY <1>1, <2>1, <3>2 DEF Deps, BelongsToDeps, Compute
  <2>2. CASE i \in Children /\ i # NoId
    <3>1. RowDep("child", i, {"parent"}) \in Deps(now, relation, i)
      BY <1>1, <2>2 DEF Deps, BelongsToDeps
    <3>2. old.child[i] = now.child[i]
      <4> SUFFICES ASSUME old.child[i] # now.child[i] PROVE FALSE
        OBVIOUS
      <4> DEFINE change == Change("child", i, IF Gone \in {old.child[i], now.child[i]} THEN Whole ELSE {"parent"})
      <4>1. change \in Batch(old, now)
        BY <2>2 DEF Batch
      <4>2. RowMatches(RowDep("child", i, {"parent"}), change)
        BY DEF RowMatches, RowDep, Change, Whole
      <4>3. DepMatches(RowDep("child", i, {"parent"}), Batch(old, now))
        BY <4>1, <4>2 DEF DepMatches, RowDep
      <4> QED BY <3>1, <4>3 DEF Concerns
    <3>3. ParentOf(old, i) = ParentOf(now, i)
      BY <3>2 DEF ParentOf
    <3>4. CASE ParentOf(now, i) = Nobody
      BY <1>1, <3>3, <3>4, IdAssumption DEF Deps, BelongsToDeps, Compute, BelongsTo, RowSets
    <3>5. CASE ParentOf(now, i) # Nobody
      <4> DEFINE p == ParentOf(now, i)
      <4>1. p \in Parents
        BY <3>5 DEF ParentOf
      <4>2. RowDep("parent", p, Whole) \in Deps(now, relation, i)
        BY <1>1, <2>2, <3>5 DEF Deps, BelongsToDeps
      <4>3. (p \in old.parents) = (p \in now.parents)
        <5> SUFFICES ASSUME (p \in old.parents) # (p \in now.parents) PROVE FALSE
          OBVIOUS
        <5>1. Change("parent", p, Whole) \in Batch(old, now)
          BY <4>1 DEF Batch
        <5>2. RowMatches(RowDep("parent", p, Whole), Change("parent", p, Whole))
          BY DEF RowMatches, RowDep, Change
        <5>3. DepMatches(RowDep("parent", p, Whole), Batch(old, now))
          BY <5>1, <5>2 DEF DepMatches, RowDep
        <5> QED BY <4>2, <5>3 DEF Concerns
      <4>4. BelongsTo(old, i) = BelongsTo(now, i)
        BY <3>3, <4>3 DEF BelongsTo
      <4> QED BY <1>1, <3>3, <4>4 DEF Deps, BelongsToDeps, Compute
    <3> QED BY <3>4, <3>5
  <2> QED BY <1>1, <2>1, <2>2 DEF Targets
<1>2. CASE relation = "hasMany"
  <2>1. CASE i = NoId
    BY <1>2, <2>1, IdAssumption DEF Deps, HasManyDeps, Compute, HasMany
  <2>2. CASE i # NoId
    <3>1. ModelDep("child") \in Deps(now, relation, i)
      BY <1>2, <2>2 DEF Deps, HasManyDeps
    <3>2. \A c \in Children : old.child[c] = now.child[c]
      <4> SUFFICES ASSUME NEW c \in Children, old.child[c] # now.child[c] PROVE FALSE
        OBVIOUS
      <4> DEFINE change == Change("child", c, IF Gone \in {old.child[c], now.child[c]} THEN Whole ELSE {"parent"})
      <4>1. change \in Batch(old, now)
        BY DEF Batch
      <4>2. DepMatches(ModelDep("child"), Batch(old, now))
        BY <4>1 DEF DepMatches, ModelDep, Change
      <4> QED BY <3>1, <4>2 DEF Concerns
    <3> QED BY <1>2, <3>2 DEF Deps, HasManyDeps, Compute, HasMany
  <2> QED BY <2>1, <2>2
<1> QED BY <1>1, <1>2 DEF Relations

---------------------------------------------------------------------------
(* The inductive invariant: a read with its subscription in place that     *)
(* names its dependencies has a value of now; so has one that is still to  *)
(* subscribe and behind which nothing was published; and a value not shown *)
(* has asked for a render.                                                 *)

CellInv(c, now) ==
    c.mounted =>
        /\ c.relation \in Relations /\ c.id \in Targets(c.relation)
        /\ \E then \in RowSets : c.deps = Deps(then, c.relation, c.id)
        /\ ~c.effects /\ c.sub = Deps(now, c.relation, c.id) => c.value = Compute(now, c.relation, c.id)
        /\ c.effects /\ ~c.behind => c.value = Compute(now, c.relation, c.id)
        /\ ~c.dirty => c.shown = c.value

IInv == TypeOK /\ \A r \in LiveReaders : CellInv(cell[r], rows)

LEMMA ComputeType ==
    ASSUME NEW now \in RowSets, NEW relation, NEW i
    PROVE  Compute(now, relation, i) \in SUBSET (Children \union Parents)
BY DEF Compute, BelongsTo, HasMany, RowSets

LEMMA DepsType ==
    ASSUME NEW now \in RowSets, NEW relation \in Relations, NEW i \in Targets(relation)
    PROVE  Deps(now, relation, i) \in SUBSET DependencySet
<1>1. \A p \in Parents : RowDep("parent", p, Whole) \in DependencySet
  BY DEF RowDep, DependencySet
<1>2. \A c \in Children : RowDep("child", c, {"parent"}) \in DependencySet
  BY DEF RowDep, DependencySet
<1>3. ModelDep("child") \in DependencySet
  BY DEF ModelDep, DependencySet
<1>4. ParentOf(now, i) = Nobody \/ ParentOf(now, i) \in Parents
  BY DEF ParentOf
<1> QED BY <1>1, <1>2, <1>3, <1>4 DEF Deps, BelongsToDeps, HasManyDeps, Targets, Relations

\* Reading the value again leaves nothing behind.
LEMMA RecomputedKeeps ==
    ASSUME NEW c \in Cells, NEW old \in RowSets, NEW now \in RowSets, c.mounted, CellInv(c, old)
    PROVE  Recomputed(c, now) \in Cells /\ CellInv(Recomputed(c, now), now)
<1> DEFINE d == Recomputed(c, now)
<1>1. Compute(now, c.relation, c.id) \in SUBSET (Children \union Parents)
  BY ComputeType
<1>2. d \in Cells
  BY <1>1 DEF Recomputed, Cells
<1>3. /\ d.mounted = c.mounted /\ d.relation = c.relation /\ d.id = c.id /\ d.deps = c.deps
      /\ d.value = Compute(now, c.relation, c.id) /\ d.shown = c.shown
      /\ d.dirty = (c.dirty \/ Compute(now, c.relation, c.id) # c.value)
  BY DEF Recomputed, Cells
<1> QED BY <1>2, <1>3 DEF CellInv

\* A batch either concerns the subscription and the value is read again, or it leaves
\* what the read depends on alone.
LEMMA PublishedKeeps ==
    ASSUME NEW c \in Cells, NEW old \in RowSets, NEW now \in RowSets, NEW batch,
           CellInv(c, old), old = now \/ batch = Batch(old, now)
    PROVE  Published(c, batch, now) \in Cells /\ CellInv(Published(c, batch, now), now)
<1>1. CASE ~c.mounted
  BY <1>1 DEF Published, CellInv
<1>2. CASE c.mounted /\ c.sub # NoSub /\ Concerns(c.sub, batch)
  BY <1>2, RecomputedKeeps DEF Published
<1>3. CASE c.mounted /\ ~(c.sub # NoSub /\ Concerns(c.sub, batch))
  <2> DEFINE d == [c EXCEPT !.behind = TRUE]
  <2>1. Published(c, batch, now) = d
    BY <1>3 DEF Published
  <2>2. /\ d \in Cells
        /\ d.mounted = c.mounted /\ d.relation = c.relation /\ d.id = c.id /\ d.deps = c.deps
        /\ d.value = c.value /\ d.shown = c.shown /\ d.dirty = c.dirty /\ d.sub = c.sub
        /\ d.effects = c.effects /\ d.behind
    BY DEF Cells
  <2>3. ASSUME ~c.effects, c.sub = Deps(now, c.relation, c.id)
        PROVE  c.value = Compute(now, c.relation, c.id)
    <3>1. c.relation \in Relations /\ c.id \in Targets(c.relation)
      BY <1>3 DEF CellInv
    <3>2. c.sub # NoSub
      BY <2>3, <3>1, DepsAreNotNoSub
    <3>3. ~Concerns(Deps(now, c.relation, c.id), batch)
      BY <1>3, <2>3, <3>2
    <3>4. /\ Deps(old, c.relation, c.id) = Deps(now, c.relation, c.id)
          /\ Compute(old, c.relation, c.id) = Compute(now, c.relation, c.id)
      BY <3>1, <3>3, UnconcernedIsUnchanged
    <3> QED BY <1>3, <2>3, <3>4 DEF CellInv
  <2> QED BY <1>3, <2>1, <2>2, <2>3 DEF CellInv
<1> QED BY <1>1, <1>2, <1>3

LEMMA InitKeeps == Init => IInv
<1> SUFFICES ASSUME Init PROVE IInv
  OBVIOUS
<1>1. NoRows \in RowSets
  BY DEF NoRows, RowSets
<1>2. NoSub \in SUBSET DependencySet
  BY DEF NoSub, ModelDep, DependencySet
<1>3. Unmounted \in Cells
  BY <1>2 DEF Unmounted, Cells
<1>4. TypeOK
  BY <1>1, <1>3 DEF Init, TypeOK
<1>5. ASSUME NEW r \in LiveReaders PROVE ~cell[r].mounted
  BY DEF Init, Unmounted
<1> QED BY <1>4, <1>5 DEF IInv, CellInv

\* The steps that change one cell and no row.
LEMMA OneCellKeeps ==
    ASSUME IInv, NEW r \in LiveReaders, NEW c \in Cells, CellInv(c, rows),
           cell' = [cell EXCEPT ![r] = c], rows' = rows
    PROVE  IInv'
<1>1. TypeOK'
  BY DEF IInv, TypeOK
<1>2. ASSUME NEW s \in LiveReaders PROVE CellInv(cell'[s], rows)
  <2>1. CASE s = r
    BY <2>1 DEF IInv, TypeOK
  <2>2. CASE s # r
    BY <2>2 DEF IInv, TypeOK
  <2> QED BY <2>1, <2>2
<1>3. \A s \in LiveReaders : CellInv(cell[s], rows)'
  BY <1>2 DEF CellInv
<1> QED BY <1>1, <1>3 DEF IInv

LEMMA MountReadKeeps ==
    ASSUME IInv, NEW r \in LiveReaders, NEW relation \in Relations, NEW id \in Targets(relation),
           MountRead(r, relation, id)
    PROVE  IInv'
<1> DEFINE next == Compute(rows, relation, id)
<1> DEFINE c == [Unmounted EXCEPT
                !.mounted = TRUE, !.relation = relation, !.id = id, !.value = next, !.shown = next,
                !.deps = Deps(rows, relation, id), !.effects = TRUE]
<1>1. rows \in RowSets
  BY DEF IInv, TypeOK
<1>2. next \in SUBSET (Children \union Parents) /\ Deps(rows, relation, id) \in SUBSET DependencySet
  BY <1>1, ComputeType, DepsType
<1>3. NoSub \in SUBSET DependencySet
  BY DEF NoSub, ModelDep, DependencySet
<1>4. c \in Cells
  BY <1>2, <1>3 DEF Unmounted, Cells, Targets, Relations
<1>5. /\ c.relation = relation /\ c.id = id /\ c.deps = Deps(rows, relation, id)
      /\ c.effects /\ c.value = next /\ c.shown = next
  BY DEF Unmounted
<1>6. CellInv(c, rows)
  BY <1>1, <1>5 DEF CellInv
<1>7. cell' = [cell EXCEPT ![r] = c] /\ rows' = rows
  BY DEF MountRead
<1> HIDE DEF c
<1> QED BY <1>4, <1>6, <1>7, OneCellKeeps

LEMMA RenderReadKeeps ==
    ASSUME IInv, NEW r \in LiveReaders, NEW id \in Targets(cell[r].relation), RenderRead(r, id)
    PROVE  IInv'
<1> DEFINE c == cell[r]
<1> DEFINE d == Rendered(c, id)
<1> DEFINE deps == Deps(rows, c.relation, id)
<1>1. rows \in RowSets /\ c \in Cells /\ c.mounted /\ ~c.effects /\ CellInv(c, rows)
  BY DEF IInv, TypeOK, RenderRead
<1>2. c.relation \in Relations /\ c.id \in Targets(c.relation)
  BY <1>1 DEF CellInv
<1>3. Compute(rows, c.relation, id) \in SUBSET (Children \union Parents) /\ deps \in SUBSET DependencySet
  BY <1>1, <1>2, ComputeType, DepsType
<1>4. /\ d.mounted /\ d.relation = c.relation /\ d.id = id /\ d.deps = deps /\ d.sub = c.sub
      /\ d.effects = (deps # c.deps) /\ d.shown = d.value
      /\ d.value = IF deps # c.deps THEN Compute(rows, c.relation, id) ELSE c.value
  BY <1>1 DEF Rendered, Cells
<1>5. d \in Cells
  BY <1>1, <1>2, <1>3 DEF Rendered, Cells, Targets, Relations
<1>6. CellInv(d, rows)
  <2>1. CASE deps # c.deps
    BY <1>1, <1>2, <1>4, <2>1 DEF CellInv
  <2>2. CASE deps = c.deps
    <3>1. PICK then \in RowSets : c.deps = Deps(then, c.relation, c.id)
      BY <1>1 DEF CellInv
    <3>2. id = c.id
      BY <1>2, <2>2, <3>1, DepsTellId
    <3> QED BY <1>1, <1>2, <1>4, <2>2, <3>2 DEF CellInv
  <2> QED BY <2>1, <2>2
<1>7. cell' = [cell EXCEPT ![r] = d] /\ rows' = rows
  BY DEF RenderRead
<1> HIDE DEF d
<1> QED BY <1>5, <1>6, <1>7, OneCellKeeps

LEMMA AttachReadKeeps ==
    ASSUME IInv, NEW r \in LiveReaders, AttachRead(r)
    PROVE  IInv'
<1> DEFINE c == cell[r]
<1> DEFINE open == [c EXCEPT !.sub = c.deps, !.effects = FALSE]
<1>1. rows \in RowSets /\ c \in Cells /\ c.effects /\ CellInv(c, rows)
  BY DEF IInv, TypeOK, AttachRead
<1>2. /\ open \in Cells /\ ~open.effects /\ open.mounted = c.mounted /\ open.relation = c.relation
      /\ open.id = c.id /\ open.deps = c.deps /\ open.value = c.value /\ open.shown = c.shown
      /\ open.dirty = c.dirty /\ open.behind = c.behind
  BY <1>1 DEF Cells
<1>3. cell' = [cell EXCEPT ![r] = Attached(c)] /\ rows' = rows
  BY DEF AttachRead
<1>4. CASE ~c.mounted
  <2>1. Attached(c) \in Cells /\ ~Attached(c).mounted
    <3>1. Compute(rows, open.relation, open.id) \in SUBSET (Children \union Parents)
      BY <1>1, ComputeType
    <3> QED BY <1>2, <1>4, <3>1 DEF Attached, Recomputed, Cells
  <2> QED BY <1>3, <2>1, OneCellKeeps DEF CellInv
<1>5. CASE c.mounted /\ c.behind
  <2>1. Attached(c) = Recomputed(open, rows)
    BY <1>5 DEF Attached
  <2>2. /\ Compute(rows, open.relation, open.id) \in SUBSET (Children \union Parents)
        /\ open.relation \in Relations /\ open.id \in Targets(open.relation)
        /\ \E then \in RowSets : open.deps = Deps(then, open.relation, open.id)
        /\ ~open.dirty => open.shown = open.value
    BY <1>1, <1>2, <1>5, ComputeType DEF CellInv
  <2>3. /\ Recomputed(open, rows) \in Cells
        /\ Recomputed(open, rows).relation = open.relation /\ Recomputed(open, rows).id = open.id
        /\ Recomputed(open, rows).deps = open.deps /\ Recomputed(open, rows).shown = open.shown
        /\ Recomputed(open, rows).value = Compute(rows, open.relation, open.id)
        /\ Recomputed(open, rows).dirty = (open.dirty \/ Compute(rows, open.relation, open.id) # open.value)
    BY <1>2, <2>2 DEF Recomputed, Cells
  <2>4. CellInv(Recomputed(open, rows), rows)
    BY <2>2, <2>3 DEF CellInv
  <2> QED BY <1>3, <2>1, <2>3, <2>4, OneCellKeeps
<1>6. CASE c.mounted /\ ~c.behind
  <2>1. Attached(c) = open
    BY <1>2, <1>6 DEF Attached
  <2>2. CellInv(open, rows)
    BY <1>1, <1>2, <1>6 DEF CellInv
  <2> QED BY <1>2, <1>3, <2>1, <2>2, OneCellKeeps
<1> QED BY <1>4, <1>5, <1>6

LEMMA UnmountReadKeeps ==
    ASSUME IInv, NEW r \in LiveReaders, UnmountRead(r)
    PROVE  IInv'
<1>1. NoSub \in SUBSET DependencySet
  BY DEF NoSub, ModelDep, DependencySet
<1>2. Unmounted \in Cells /\ ~Unmounted.mounted
  BY <1>1 DEF Unmounted, Cells
<1>3. CellInv(Unmounted, rows)
  BY <1>2 DEF CellInv
<1>4. cell' = [cell EXCEPT ![r] = Unmounted] /\ rows' = rows
  BY DEF UnmountRead
<1> QED BY <1>2, <1>3, <1>4, OneCellKeeps

LEMMA CommitKeeps ==
    ASSUME IInv, NEW next \in RowSets, NEW batch, next = rows \/ batch = Batch(rows, next),
           Commit(next, batch)
    PROVE  IInv'
<1>1. rows \in RowSets /\ \A r \in LiveReaders : cell[r] \in Cells /\ CellInv(cell[r], rows)
  BY DEF IInv, TypeOK
<1>2. rows' = next /\ cell' = [r \in LiveReaders |-> Published(cell[r], batch, next)]
  BY DEF Commit
<1>3. ASSUME NEW r \in LiveReaders
      PROVE  Published(cell[r], batch, next) \in Cells /\ CellInv(Published(cell[r], batch, next), next)
  BY <1>1, PublishedKeeps
<1>4. TypeOK'
  BY <1>2, <1>3 DEF TypeOK
<1>5. ASSUME NEW r \in LiveReaders PROVE CellInv(cell'[r], rows')
  BY <1>2, <1>3
<1>6. \A r \in LiveReaders : CellInv(cell[r], rows)'
  BY <1>5 DEF CellInv
<1> QED BY <1>4, <1>6 DEF IInv

LEMMA ResetKeeps ==
    ASSUME IInv, Reset
    PROVE  IInv'
<1> DEFINE after(c) == IF ~c.mounted THEN c
                       ELSE IF c.sub # NoSub THEN Recomputed(c, NoRows)
                       ELSE [c EXCEPT !.behind = TRUE]
<1>1. rows \in RowSets /\ \A r \in LiveReaders : cell[r] \in Cells /\ CellInv(cell[r], rows)
  BY DEF IInv, TypeOK
<1>2. NoRows \in RowSets
  BY DEF NoRows, RowSets
<1>3. rows' = NoRows /\ cell' = [r \in LiveReaders |-> after(cell[r])]
  BY DEF Reset
<1>4. ASSUME NEW r \in LiveReaders
      PROVE  after(cell[r]) \in Cells /\ CellInv(after(cell[r]), NoRows)
  <2> DEFINE c == cell[r]
  <2>1. CASE ~c.mounted
    BY <1>1, <2>1 DEF CellInv
  <2>2. CASE c.mounted /\ c.sub # NoSub
    BY <1>1, <1>2, <2>2, RecomputedKeeps
  <2>3. CASE c.mounted /\ c.sub = NoSub
    <3> DEFINE d == [c EXCEPT !.behind = TRUE]
    <3>1. /\ d \in Cells /\ d.mounted /\ d.relation = c.relation /\ d.id = c.id /\ d.deps = c.deps
          /\ d.sub = NoSub /\ d.behind /\ d.dirty = c.dirty /\ d.shown = c.shown /\ d.value = c.value
      BY <1>1, <2>3 DEF Cells
    <3>2. c.relation \in Relations
      BY <1>1, <2>3 DEF CellInv
    <3>3. d.sub # Deps(NoRows, d.relation, d.id)
      BY <3>1, <3>2, DepsAreNotNoSub
    <3> QED BY <1>1, <2>3, <3>1, <3>3 DEF CellInv
  <2> QED BY <2>1, <2>2, <2>3
<1> HIDE DEF after
<1>5. TypeOK'
  BY <1>2, <1>3, <1>4 DEF TypeOK
<1>6. ASSUME NEW r \in LiveReaders PROVE CellInv(cell'[r], rows')
  BY <1>3, <1>4
<1>7. \A r \in LiveReaders : CellInv(cell[r], rows)'
  BY <1>6 DEF CellInv
<1> QED BY <1>5, <1>7 DEF IInv

LEMMA NextKeeps == IInv /\ [Next]_vars => IInv'
<1> SUFFICES ASSUME IInv, [Next]_vars PROVE IInv'
  OBVIOUS
<1>1. rows \in RowSets
  BY DEF IInv, TypeOK
<1>2. CASE \E r \in LiveReaders, relation \in Relations : \E id \in Targets(relation) : MountRead(r, relation, id)
  BY <1>2, MountReadKeeps
<1>3. CASE \E r \in LiveReaders : \E id \in Targets(cell[r].relation) : RenderRead(r, id)
  BY <1>3, RenderReadKeeps
<1>4. CASE \E r \in LiveReaders : AttachRead(r) \/ UnmountRead(r)
  BY <1>4, AttachReadKeeps, UnmountReadKeeps
<1>5. CASE UNCHANGED <<rows, cell>>
  <2>1. TypeOK'
    BY <1>5 DEF IInv, TypeOK
  <2>2. \A r \in LiveReaders : CellInv(cell[r], rows)'
    BY <1>5 DEF IInv, CellInv
  <2> QED BY <2>1, <2>2 DEF IInv
<1>6. CASE \E q \in QueryReaders :
            \/ \E k \in Keys : MountQuery(q, k) \/ RenderQuery(q, k)
            \/ AttachQuery(q) \/ UnmountQuery(q)
  <2>1. UNCHANGED <<rows, cell>>
    BY <1>6 DEF MountQuery, RenderQuery, AttachQuery, UnmountQuery
  <2> QED BY <1>5, <2>1
<1>7. ASSUME NEW next \in RowSets, Land(next) PROVE IInv'
  BY <1>7, CommitKeeps DEF Land
<1>8. CASE \E c \in Children : \E to \in Parents \union {Nobody, Gone} : LandChild(c, to)
  <2>1. PICK c \in Children, to \in Parents \union {Nobody, Gone} : LandChild(c, to)
    BY <1>8
  <2>2. [rows EXCEPT !.child[c] = to] \in RowSets
    BY <1>1 DEF RowSets
  <2> QED BY <1>7, <2>1, <2>2 DEF LandChild
<1>9. CASE \E c \in Children, p \in Parents : LandBoth(c, p)
  <2>1. PICK c \in Children, p \in Parents : LandBoth(c, p)
    BY <1>9
  <2>2. [rows EXCEPT !.child[c] = p, !.parents = @ \union {p}] \in RowSets
    BY <1>1 DEF RowSets
  <2> QED BY <1>7, <2>1, <2>2 DEF LandBoth
<1>10. CASE \E p \in Parents : LandParent(p) \/ LoseParent(p)
  <2>1. PICK p \in Parents : LandParent(p) \/ LoseParent(p)
    BY <1>10
  <2>2. [rows EXCEPT !.parents = @ \union {p}] \in RowSets /\ [rows EXCEPT !.parents = @ \ {p}] \in RowSets
    BY <1>1 DEF RowSets
  <2> QED BY <1>7, <2>1, <2>2 DEF LandParent, LoseParent
<1>11. CASE \E c \in Children : EditChild(c)
  BY <1>1, <1>11, CommitKeeps DEF EditChild
<1>12. CASE Reset
  BY <1>12, ResetKeeps
<1>13. CASE UNCHANGED vars
  BY <1>5, <1>13 DEF vars
<1>14. ASSUME Next
       PROVE  \/ \E r \in LiveReaders, relation \in Relations : \E id \in Targets(relation) : MountRead(r, relation, id)
              \/ \E r \in LiveReaders : \E id \in Targets(cell[r].relation) : RenderRead(r, id)
              \/ \E r \in LiveReaders : AttachRead(r) \/ UnmountRead(r)
              \/ \E q \in QueryReaders :
                    \/ \E k \in Keys : MountQuery(q, k) \/ RenderQuery(q, k)
                    \/ AttachQuery(q) \/ UnmountQuery(q)
              \/ \E c \in Children : \E to \in Parents \union {Nobody, Gone} : LandChild(c, to)
              \/ \E c \in Children, p \in Parents : LandBoth(c, p)
              \/ \E p \in Parents : LandParent(p) \/ LoseParent(p)
              \/ \E c \in Children : EditChild(c)
              \/ Reset
  BY <1>14 DEF Next, Relations
<1> QED BY <1>2, <1>3, <1>4, <1>6, <1>8, <1>9, <1>10, <1>11, <1>12, <1>13, <1>14

---------------------------------------------------------------------------
\* The rows and the relation reads keep their shape (LiveReadState of
\* types/read.liveRead.types.ts), for any ids and any number of mounted components.
THEOREM CellsAreTyped == Spec => []TypeOK
<1>1. IInv => TypeOK
  BY DEF IInv
<1> QED BY <1>1, InitKeeps, NextKeeps, PTL DEF Spec

\* A relation read with nothing left to run, whose subscription names what it depends on
\* now, shows what the rows now say: useLiveRead misses no commit between a render and its
\* subscription, for any ids and any number of mounted components.
THEOREM RelationsAreCurrent == Spec => []RelationIsCurrent
<1>1. IInv => RelationIsCurrent
  BY DEF IInv, CellInv, RelationIsCurrent, Quiet
<1> QED BY <1>1, InitKeeps, NextKeeps, PTL DEF Spec
---------------------------------------------------------------------------
(* The declared reads.  Every query of the cache has as many consumers as  *)
(* there are reads holding it, so that it is disposed of with the last of  *)
(* them and not before: the read that listens to it misses no change.      *)

Counts   == {0} \union {Cardinality(S) : S \in SUBSET Children}
Handles  == [key : Keys \union {NoKey}, spec : Keys \union {NoKey}, alive : BOOLEAN]
Entries  == [spec : Keys \union {NoKey}, consumers : Nat]
Caches   == [Keys -> Entries]
Readings == [mounted : BOOLEAN, key : Keys \union {NoKey}, held : Handles, rendered : BOOLEAN, value : Counts,
             heard : Handles, attached : Keys \union {NoKey}, shown : Counts, effects : BOOLEAN, dirty : BOOLEAN]
QueriesTyped == reading \in [QueryReaders -> Readings] /\ cache \in Caches

\* The handles of the reads, and the reads that hold the query of a key.
Holdings      == [QueryReaders -> Handles]
Held          == [q \in QueryReaders |-> reading[q].held]
Holders(h, k) == {q \in QueryReaders : h[q].alive /\ h[q].key = k}

\* The books of the cache: a query has the consumers that hold it, and they know the
\* declaration it was built from.
Books(entries, h) ==
    /\ \A k \in Keys : entries[k].consumers = Cardinality(Holders(h, k))
    /\ \A q \in QueryReaders : h[q].alive => h[q].key \in Keys /\ h[q].spec = entries[h[q].key].spec

\* A declared read that has subscribed holds and hears the query of its key, and its value
\* is what that query says now; a value not shown has asked for a render.
ReadingInv(c, now) ==
    /\ ~c.mounted => ~c.effects /\ ~c.held.alive /\ c.attached = NoKey
    /\ c.mounted => c.key \in Keys
    /\ c.mounted /\ ~c.effects =>
        /\ c.held.alive /\ c.held.key = c.key /\ c.heard = c.held /\ c.attached = c.key
        /\ c.value = Select(now, c.held.spec)
    /\ c.mounted /\ ~c.dirty => c.shown = c.value

QInv == QueriesTyped /\ Books(cache, Held) /\ \A q \in QueryReaders : ReadingInv(reading[q], rows)

\* Only q may hold something else.
Elsewhere(h, g, q) == \A o \in QueryReaders : o # q => g[o] = h[o]

\* The holders of a key are finitely many, and none where nobody holds it.
LEMMA HoldersFinite ==
    ASSUME NEW h, NEW k
    PROVE  /\ IsFiniteSet(Holders(h, k)) /\ Cardinality(Holders(h, k)) \in Nat
           /\ Cardinality(Holders(h, k)) = 0 <=> Holders(h, k) = {}
<1>1. Holders(h, k) \subseteq QueryReaders
  BY DEF Holders
<1>2. IsFiniteSet(Holders(h, k))
  BY <1>1, ReaderAssumption, FS_Subset
<1> QED BY <1>2, FS_CardinalityType, FS_EmptySet

\* A query somebody holds has a consumer: it is not disposed of.
LEMMA HeldIsConsumed ==
    ASSUME NEW entries, NEW h, Books(entries, h), NEW q \in QueryReaders, h[q].alive
    PROVE  entries[h[q].key].consumers # 0
<1>1. q \in Holders(h, h[q].key)
  BY DEF Holders
<1>2. h[q].key \in Keys
  BY DEF Books
<1> QED BY <1>1, <1>2, HoldersFinite DEF Books

\* Giving a handle back keeps the books, and disposes of the query with its last consumer.
LEMMA ReleasedBooks ==
    ASSUME NEW entries \in Caches, NEW h \in Holdings, NEW g \in Holdings, NEW q \in QueryReaders,
           Books(entries, h), Elsewhere(h, g, q), ~g[q].alive
    PROVE  Released(entries, h[q]) \in Caches /\ Books(Released(entries, h[q]), g)
<1> DEFINE after == Released(entries, h[q])
<1> DEFINE key == h[q].key
<1>1. CASE ~h[q].alive
  <2>1. after = entries
    BY <1>1 DEF Released
  <2>2. \A k : Holders(g, k) = Holders(h, k)
    BY <1>1 DEF Holders, Elsewhere
  <2> QED BY <1>1, <2>1, <2>2 DEF Books, Elsewhere
<1>2. CASE h[q].alive
  <2>1. key \in Keys /\ entries[key] \in Entries /\ entries[key].consumers \in Nat \ {0}
    BY <1>2, HeldIsConsumed DEF Books, Caches, Entries
  <2>2. Holders(g, key) = Holders(h, key) \ {q} /\ q \in Holders(h, key)
    BY <1>2 DEF Holders, Elsewhere
  <2>3. Cardinality(Holders(g, key)) = entries[key].consumers - 1
    <3>1. Cardinality(Holders(h, key)) = entries[key].consumers
      BY <2>1 DEF Books
    <3>2. IsFiniteSet(Holders(h, key))
      BY HoldersFinite
    <3>3. Cardinality(Holders(h, key) \ {q}) = Cardinality(Holders(h, key)) - 1
      BY <2>2, <3>2, FS_RemoveElement
    <3> QED BY <2>2, <3>1, <3>3
  <2>4. \A k : k # key => Holders(g, k) = Holders(h, k)
    BY DEF Holders, Elsewhere
  <2>5. NoEntry \in Entries /\ NoEntry.consumers = 0
    BY DEF NoEntry, Entries
  <2>6. after \in Caches /\ after[key].consumers = entries[key].consumers - 1
    BY <1>2, <2>1, <2>5 DEF Released, Caches, Entries
  <2>7. \A k \in Keys : k # key => after[k] = entries[k]
    BY <1>2, <2>1 DEF Released, Caches
  <2>8. \A k \in Keys : after[k].consumers = Cardinality(Holders(g, k))
    BY <2>3, <2>4, <2>6, <2>7 DEF Books
  <2>9. ASSUME NEW o \in QueryReaders, g[o].alive
        PROVE  g[o].key \in Keys /\ g[o].spec = after[g[o].key].spec
    <3>1. o # q /\ g[o] = h[o] /\ g[o].key \in Keys /\ g[o].spec = entries[g[o].key].spec
      BY <2>9 DEF Elsewhere, Books
    <3>2. CASE g[o].key # key
      BY <2>7, <3>1, <3>2
    <3>3. CASE g[o].key = key
      <4>1. o \in Holders(g, key)
        BY <2>9, <3>3 DEF Holders
      <4>2. entries[key].consumers # 1
        BY <2>3, <4>1, HoldersFinite
      <4>3. after[key].spec = entries[key].spec
        BY <1>2, <2>1, <4>2 DEF Released, Caches, Entries
      <4> QED BY <3>1, <3>3, <4>3
    <3> QED BY <3>2, <3>3
  <2> QED BY <2>6, <2>8, <2>9 DEF Books
<1> QED BY <1>1, <1>2

\* Taking a query keeps the books, and builds it where nobody holds it.
LEMMA AcquiredBooks ==
    ASSUME NEW entries \in Caches, NEW h \in Holdings, NEW g \in Holdings, NEW q \in QueryReaders,
           NEW key \in Keys, NEW spec \in Keys, Books(entries, h), Elsewhere(h, g, q), ~h[q].alive,
           g[q] = HandleOf(Acquired(entries, key, spec), key)
    PROVE  Acquired(entries, key, spec) \in Caches /\ Books(Acquired(entries, key, spec), g)
<1> DEFINE after == Acquired(entries, key, spec)
<1>1. entries[key].consumers \in Nat /\ entries[key].spec \in Keys \union {NoKey}
  BY DEF Caches, Entries
<1>2. /\ after \in Caches
      /\ after[key].consumers = entries[key].consumers + 1
      /\ entries[key].consumers # 0 => after[key].spec = entries[key].spec
      /\ \A k \in Keys : k # key => after[k] = entries[k]
  BY <1>1 DEF Acquired, Caches, Entries
<1>3. g[q].alive /\ g[q].key = key /\ g[q].spec = after[key].spec
  BY DEF HandleOf
<1>4. Holders(g, key) = Holders(h, key) \union {q} /\ q \notin Holders(h, key)
  BY <1>3 DEF Holders, Elsewhere
<1>5. Cardinality(Holders(g, key)) = entries[key].consumers + 1
  BY <1>1, <1>4, HoldersFinite, FS_AddElement DEF Books
<1>6. \A k : k # key => Holders(g, k) = Holders(h, k)
  BY <1>3 DEF Holders, Elsewhere
<1>7. \A k \in Keys : after[k].consumers = Cardinality(Holders(g, k))
  BY <1>2, <1>5, <1>6 DEF Books
<1>8. ASSUME NEW o \in QueryReaders, g[o].alive
      PROVE  g[o].key \in Keys /\ g[o].spec = after[g[o].key].spec
  <2>1. CASE o = q
    BY <1>3, <2>1
  <2>2. CASE o # q
    <3>1. g[o] = h[o] /\ g[o].key \in Keys /\ g[o].spec = entries[g[o].key].spec
      BY <1>8, <2>2 DEF Elsewhere, Books
    <3>2. entries[g[o].key].consumers # 0
      BY <1>8, <3>1, HeldIsConsumed
    <3> QED BY <1>2, <3>1, <3>2
  <2> QED BY <2>1, <2>2
<1> QED BY <1>2, <1>7, <1>8 DEF Books

\* A handle that still fits is kept, another is given back and taken anew.
LEMMA HoldBooks ==
    ASSUME NEW entries \in Caches, NEW h \in Holdings, NEW g \in Holdings, NEW q \in QueryReaders,
           NEW key \in Keys, NEW spec \in Keys, Books(entries, h), Elsewhere(h, g, q),
           g[q] = HandleOf(Hold(entries, h[q], key, spec), key)
    PROVE  Hold(entries, h[q], key, spec) \in Caches /\ Books(Hold(entries, h[q], key, spec), g)
<1>1. CASE Holds(h[q], key)
  <2>1. Hold(entries, h[q], key, spec) = entries
    BY <1>1 DEF Hold
  <2>2. g[q].alive /\ g[q].key = key /\ g[q].spec = entries[key].spec
    BY <2>1 DEF HandleOf
  <2>3. \A k : Holders(g, k) = Holders(h, k)
    BY <1>1, <2>2 DEF Holders, Elsewhere, Holds
  <2> QED BY <2>1, <2>2, <2>3 DEF Books, Elsewhere
<1>2. CASE ~Holds(h[q], key)
  <2> DEFINE mid == [h EXCEPT ![q] = NoHandle]
  <2> DEFINE freed == Released(entries, h[q])
  <2>1. NoHandle \in Handles /\ ~NoHandle.alive
    BY DEF NoHandle, Handles
  <2>2. mid \in Holdings /\ ~mid[q].alive /\ Elsewhere(h, mid, q) /\ Elsewhere(mid, g, q)
    BY <2>1 DEF Holdings, Elsewhere
  <2>3. freed \in Caches /\ Books(freed, mid)
    BY <2>2, ReleasedBooks
  <2>4. Hold(entries, h[q], key, spec) = Acquired(freed, key, spec)
    BY <1>2 DEF Hold
  <2> HIDE DEF mid, freed
  <2> QED BY <2>2, <2>3, <2>4, AcquiredBooks
<1> QED BY <1>1, <1>2

\* What a read counts, and the handle it takes.
LEMMA ReadTypes ==
    /\ \A handle \in Handles : \A now : RowsOf(handle, now) \in Counts
    /\ NoHandle \in Handles /\ ~NoHandle.alive
    /\ \A entries \in Caches, k \in Keys :
        /\ HandleOf(entries, k) \in Handles /\ HandleOf(entries, k).alive
        /\ HandleOf(entries, k).key = k /\ HandleOf(entries, k).spec = entries[k].spec
<1>1. ASSUME NEW handle \in Handles, NEW now PROVE RowsOf(handle, now) \in Counts
  <2>1. HasMany(now, handle.spec) \in SUBSET Children
    BY DEF HasMany
  <2> QED BY <2>1 DEF RowsOf, Select, Counts
<1>2. NoHandle \in Handles /\ ~NoHandle.alive
  BY DEF NoHandle, Handles
<1>3. ASSUME NEW entries \in Caches, NEW k \in Keys
      PROVE  /\ HandleOf(entries, k) \in Handles /\ HandleOf(entries, k).alive
             /\ HandleOf(entries, k).key = k /\ HandleOf(entries, k).spec = entries[k].spec
  BY DEF HandleOf, Handles, Caches, Entries
<1> QED BY <1>1, <1>2, <1>3

\* A read whose query is still consumed keeps hearing it.
LEMMA SilencedKeeps ==
    ASSUME NEW c \in Readings, NEW entries, NEW now, ReadingInv(c, now),
           c.held.alive => entries[c.held.key].consumers # 0
    PROVE  /\ Silenced(c, entries) \in Readings /\ ReadingInv(Silenced(c, entries), now)
           /\ Silenced(c, entries).held = c.held
<1>1. CASE ~(c.heard.alive /\ entries[c.heard.key].consumers = 0)
  BY <1>1 DEF Silenced
<1>2. CASE c.heard.alive /\ entries[c.heard.key].consumers = 0
  <2> DEFINE d == [c EXCEPT !.heard = NoHandle]
  <2>1. Silenced(c, entries) = d
    BY <1>2 DEF Silenced
  <2>2. /\ d \in Readings /\ d.mounted = c.mounted /\ d.key = c.key /\ d.held = c.held /\ d.value = c.value
        /\ d.attached = c.attached /\ d.shown = c.shown /\ d.effects = c.effects /\ d.dirty = c.dirty
    BY ReadTypes DEF Readings
  <2>3. ~(c.mounted /\ ~c.effects)
    BY <1>2 DEF ReadingInv
  <2> QED BY <2>1, <2>2, <2>3 DEF ReadingInv
<1> QED BY <1>1, <1>2

\* A listener that selects again after every change of its rows has the value of now.
LEMMA DeliveredKeeps ==
    ASSUME NEW c \in Readings, NEW old, NEW now, ReadingInv(c, old)
    PROVE  /\ Delivered(c, old, now) \in Readings /\ ReadingInv(Delivered(c, old, now), now)
           /\ Delivered(c, old, now).held = c.held
<1> DEFINE value == RowsOf(c.heard, now)
<1>1. c.heard \in Handles /\ c.held \in Handles
  BY DEF Readings
<1>2. value \in Counts
  BY <1>1, ReadTypes
<1>3. CASE ~c.heard.alive \/ RowsOf(c.heard, old) = value
  <2>1. Delivered(c, old, now) = c
    BY <1>3 DEF Delivered
  <2>2. c.mounted /\ ~c.effects => c.value = Select(now, c.held.spec)
    BY <1>3 DEF ReadingInv, RowsOf
  <2> QED BY <2>1, <2>2 DEF ReadingInv
<1>4. CASE ~(~c.heard.alive \/ RowsOf(c.heard, old) = value)
  <2> DEFINE d == [c EXCEPT !.value = value, !.dirty = @ \/ value # c.value]
  <2>1. Delivered(c, old, now) = d
    BY <1>4 DEF Delivered
  <2>2. /\ d \in Readings /\ d.mounted = c.mounted /\ d.key = c.key /\ d.held = c.held /\ d.heard = c.heard
        /\ d.attached = c.attached /\ d.shown = c.shown /\ d.effects = c.effects
        /\ d.value = value /\ d.dirty = (c.dirty \/ value # c.value)
    BY <1>2 DEF Readings
  <2> QED BY <1>4, <2>1, <2>2 DEF ReadingInv, RowsOf
<1> QED BY <1>3, <1>4

\* Subscribing to the query one holds, under one's own key, and looking at the rows again.
LEMMA HeardKeeps ==
    ASSUME NEW c \in Readings, NEW handle \in Handles, NEW now, c.mounted, c.key \in Keys, handle.alive,
           ~c.effects => handle.key = c.key /\ c.attached = c.key, ~c.dirty => c.shown = c.value
    PROVE  /\ Heard(c, handle, now) \in Readings /\ ReadingInv(Heard(c, handle, now), now)
           /\ Heard(c, handle, now).held = handle
<1> DEFINE value == RowsOf(handle, now)
<1> DEFINE d == [c EXCEPT !.heard = handle, !.held = handle, !.value = value, !.dirty = @ \/ value # c.value]
<1>1. value \in Counts /\ value = Select(now, handle.spec)
  BY ReadTypes DEF RowsOf
<1>2. Heard(c, handle, now) = d
  BY DEF Heard
<1>3. /\ d \in Readings /\ d.mounted /\ d.key = c.key /\ d.held = handle /\ d.heard = handle
      /\ d.attached = c.attached /\ d.shown = c.shown /\ d.effects = c.effects
      /\ d.value = value /\ d.dirty = (c.dirty \/ value # c.value)
  BY <1>1 DEF Readings
<1> QED BY <1>1, <1>2, <1>3 DEF ReadingInv

\* The steps in which the cache moves from books to books and every read is kept.
LEMMA ReadingsKeep ==
    ASSUME NEW entries \in Caches, NEW after, NEW now, cache' = entries, rows' = now,
           reading' = [q \in QueryReaders |-> after[q]],
           \A q \in QueryReaders : after[q] \in Readings /\ ReadingInv(after[q], now),
           Books(entries, [q \in QueryReaders |-> after[q].held])
    PROVE  QInv'
<1>1. Held' = [q \in QueryReaders |-> after[q].held]
  BY DEF Held
<1>2. QueriesTyped'
  BY DEF QueriesTyped
<1>3. Books(cache, Held)'
  <2>1. Books(cache', Held')
    BY <1>1
  <2> QED BY <2>1 DEF Books, Holders
<1>4. \A q \in QueryReaders : ReadingInv(reading[q], rows)'
  <2>1. ASSUME NEW q \in QueryReaders PROVE ReadingInv(reading'[q], rows')
    OBVIOUS
  <2> QED BY <2>1 DEF ReadingInv
<1> QED BY <1>2, <1>3, <1>4 DEF QInv

\* What the invariant says of one read and of its handle.
LEMMA ReadingFacts ==
    ASSUME QInv
    PROVE  /\ Held \in Holdings /\ cache \in Caches /\ Books(cache, Held)
           /\ \A q \in QueryReaders : reading[q] \in Readings /\ ReadingInv(reading[q], rows)
                                      /\ Held[q] = reading[q].held
<1>1. \A q \in QueryReaders : reading[q] \in Readings /\ reading[q].held \in Handles
  BY DEF QInv, QueriesTyped, Readings
<1> QED BY <1>1 DEF QInv, QueriesTyped, Held, Holdings

LEMMA MountQueryKeeps ==
    ASSUME QInv, NEW q \in QueryReaders, NEW key \in Keys, MountQuery(q, key)
    PROVE  QInv'
<1> DEFINE entries == Acquired(cache, key, key)
<1> DEFINE handle == HandleOf(entries, key)
<1> DEFINE value == RowsOf(handle, rows)
<1> DEFINE d == [NotReading EXCEPT !.mounted = TRUE, !.key = key, !.held = handle, !.rendered = TRUE,
                 !.value = value, !.shown = value, !.effects = TRUE]
<1> DEFINE after == [o \in QueryReaders |-> IF o = q THEN d ELSE reading[o]]
<1> DEFINE g == [o \in QueryReaders |-> after[o].held]
<1>1. rows' = rows /\ cache' = entries /\ reading' = [reading EXCEPT ![q] = d] /\ ~reading[q].mounted
  BY DEF MountQuery
<1>2. entries \in Caches
  <2>1. cache[key].consumers + 1 \in Nat /\ cache[key].spec \in Keys \union {NoKey}
    BY ReadingFacts DEF Caches, Entries
  <2> QED BY <2>1, ReadingFacts DEF Acquired, Caches, Entries
<1>3. handle \in Handles /\ handle.alive /\ handle.key = key /\ value \in Counts
  BY <1>2, ReadTypes
<1> HIDE DEF entries, handle, value
<1>4. /\ d \in Readings /\ d.mounted /\ d.key = key /\ d.held = handle /\ d.effects
      /\ d.value = value /\ d.shown = value
  BY <1>3, ReadTypes DEF NotReading, Readings, Counts
<1>5. ReadingInv(d, rows)
  BY <1>4 DEF ReadingInv
<1> HIDE DEF d
<1>6. \A o \in QueryReaders : after[o] \in Readings /\ ReadingInv(after[o], rows)
  BY <1>4, <1>5, ReadingFacts
<1>7. g \in Holdings /\ Elsewhere(Held, g, q) /\ g[q] = handle
  <2>1. \A o \in QueryReaders : after[o].held \in Handles
    BY <1>6 DEF Readings
  <2> QED BY <1>4, <2>1, ReadingFacts DEF Holdings, Elsewhere
<1>8. ~Held[q].alive
  BY <1>1, ReadingFacts DEF ReadingInv
<1>9. Books(entries, g)
  BY <1>7, <1>8, ReadingFacts, AcquiredBooks DEF entries, handle
<1>10. reading' = [o \in QueryReaders |-> after[o]]
  BY <1>1 DEF QInv, QueriesTyped
<1> HIDE DEF after
<1> QED BY <1>1, <1>2, <1>6, <1>9, <1>10, ReadingsKeep

LEMMA RenderQueryKeeps ==
    ASSUME QInv, NEW q \in QueryReaders, NEW key \in Keys, RenderQuery(q, key)
    PROVE  QInv'
<1> DEFINE c == reading[q]
<1> DEFINE entries == Hold(cache, c.held, key, key)
<1> DEFINE handle == HandleOf(entries, key)
<1> DEFINE value == IF ~c.rendered \/ ~Holds(c.held, key) THEN RowsOf(handle, rows) ELSE c.value
<1> DEFINE d == [c EXCEPT !.key = key, !.held = handle, !.rendered = TRUE, !.value = value,
                 !.shown = value, !.dirty = FALSE, !.effects = key # c.key]
<1> DEFINE seen == [o \in QueryReaders |-> IF o # q THEN reading[o] ELSE d]
<1> DEFINE after == [o \in QueryReaders |-> Silenced(seen[o], entries)]
<1> DEFINE g == [o \in QueryReaders |-> seen[o].held]
<1>1. /\ rows' = rows /\ cache' = entries /\ reading' = [o \in QueryReaders |-> after[o]]
      /\ c.mounted /\ ~c.effects
  BY DEF RenderQuery
<1>2. c \in Readings /\ ReadingInv(c, rows) /\ Held[q] = c.held
  BY ReadingFacts
<1>3. c.held \in Handles /\ c.value \in Counts
  BY <1>2 DEF Readings
<1>4. \E x \in Handles : x = [key |-> key, spec |-> entries[key].spec, alive |-> TRUE]
  <2>1. entries[key].spec \in Keys \union {NoKey}
    <3>1. Released(cache, c.held) \in Caches
      <4> DEFINE mid == [Held EXCEPT ![q] = NoHandle]
      <4>1. mid \in Holdings /\ ~mid[q].alive /\ Elsewhere(Held, mid, q)
        BY ReadTypes, ReadingFacts DEF Holdings, Elsewhere
      <4> HIDE DEF mid
      <4> QED BY <1>2, <4>1, ReadingFacts, ReleasedBooks
    <3> QED BY <3>1, ReadingFacts DEF Hold, Acquired, Caches, Entries
  <2> QED BY <2>1 DEF Handles
<1>5. handle \in Handles /\ handle.alive /\ handle.key = key /\ handle.spec = entries[key].spec
  BY <1>4 DEF HandleOf
<1>6. value \in Counts
  BY <1>3, <1>5, ReadTypes
<1> HIDE DEF entries, handle
<1>7. /\ d \in Readings /\ d.mounted /\ d.key = key /\ d.held = handle /\ d.value = value /\ d.shown = value
      /\ d.heard = c.heard /\ d.attached = c.attached /\ d.effects = (key # c.key)
  BY <1>1, <1>2, <1>5, <1>6 DEF Readings
<1>8. ReadingInv(d, rows)
  <2>1. CASE key # c.key
    BY <1>7, <2>1 DEF ReadingInv
  <2>2. CASE key = c.key
    <3>1. c.held.alive /\ c.held.key = key /\ c.heard = c.held /\ c.attached = key /\ c.value = Select(rows, c.held.spec)
      BY <1>1, <1>2, <2>2 DEF ReadingInv
    <3>2. entries = cache
      BY <3>1 DEF entries, Hold, Holds
    <3>3. handle.spec = c.held.spec
      BY <1>2, <1>5, <3>1, <3>2, ReadingFacts DEF Books
    <3>4. handle = c.held
      BY <1>3, <1>5, <3>1, <3>3 DEF Handles
    <3>5. value = Select(rows, handle.spec)
      BY <3>1, <3>4 DEF RowsOf
    <3> QED BY <1>5, <1>7, <2>2, <3>1, <3>4, <3>5 DEF ReadingInv
  <2> QED BY <2>1, <2>2
<1> HIDE DEF d
<1>9. \A o \in QueryReaders : seen[o] \in Readings /\ ReadingInv(seen[o], rows) /\ g[o] = seen[o].held
  BY <1>7, <1>8, ReadingFacts
<1>10. g \in Holdings /\ Elsewhere(Held, g, q) /\ g[q] = handle
  <2>1. \A o \in QueryReaders : seen[o].held \in Handles
    BY <1>9 DEF Readings
  <2> QED BY <1>7, <2>1, ReadingFacts DEF Holdings, Elsewhere
<1>11. entries \in Caches /\ Books(entries, g)
  BY <1>2, <1>10, ReadingFacts, HoldBooks DEF entries, handle
<1> HIDE DEF seen, g
<1>12. \A o \in QueryReaders : seen[o].held.alive => entries[seen[o].held.key].consumers # 0
  BY <1>9, <1>11, HeldIsConsumed
<1>13. \A o \in QueryReaders : after[o] \in Readings /\ ReadingInv(after[o], rows) /\ after[o].held = g[o]
  BY <1>9, <1>12, SilencedKeeps
<1> HIDE DEF after
<1>14. Books(entries, [o \in QueryReaders |-> after[o].held])
  <2>1. g = [o \in QueryReaders |-> after[o].held]
    BY <1>10, <1>13 DEF Holdings
  <2> QED BY <1>11, <2>1
<1> QED BY <1>1, <1>11, <1>13, <1>14, ReadingsKeep

LEMMA UnmountQueryKeeps ==
    ASSUME QInv, NEW q \in QueryReaders, UnmountQuery(q)
    PROVE  QInv'
<1> DEFINE entries == Released(cache, reading[q].held)
<1> DEFINE after == [o \in QueryReaders |-> IF o = q THEN NotReading ELSE Silenced(reading[o], entries)]
<1> DEFINE g == [Held EXCEPT ![q] = NoHandle]
<1>1. rows' = rows /\ cache' = entries /\ reading' = [o \in QueryReaders |-> after[o]]
  BY DEF UnmountQuery
<1>2. g \in Holdings /\ Elsewhere(Held, g, q) /\ ~g[q].alive /\ g[q] = NoHandle
  BY ReadTypes, ReadingFacts DEF Holdings, Elsewhere
<1>3. entries \in Caches /\ Books(entries, g)
  BY <1>2, ReadingFacts, ReleasedBooks
<1>4. NotReading \in Readings /\ ~NotReading.mounted /\ ~NotReading.effects
      /\ NotReading.attached = NoKey /\ NotReading.held = NoHandle
  BY ReadTypes DEF NotReading, Readings, Counts
<1>5. ReadingInv(NotReading, rows)
  BY <1>4, ReadTypes DEF ReadingInv
<1> HIDE DEF entries
<1>6. ASSUME NEW o \in QueryReaders
      PROVE  after[o] \in Readings /\ ReadingInv(after[o], rows) /\ after[o].held = g[o]
  <2>1. CASE o = q
    BY <1>2, <1>4, <1>5, <2>1
  <2>2. CASE o # q
    <3>1. g[o] = reading[o].held
      BY <2>2, ReadingFacts DEF Holdings
    <3>2. reading[o].held.alive => entries[reading[o].held.key].consumers # 0
      BY <1>3, <3>1, HeldIsConsumed
    <3> QED BY <2>2, <3>1, <3>2, ReadingFacts, SilencedKeeps
  <2> QED BY <2>1, <2>2
<1> HIDE DEF after
<1>7. g = [o \in QueryReaders |-> after[o].held]
  BY <1>2, <1>6 DEF Holdings
<1> QED BY <1>1, <1>3, <1>6, <1>7, ReadingsKeep

LEMMA AttachQueryKeeps ==
    ASSUME QInv, NEW q \in QueryReaders, AttachQuery(q)
    PROVE  QInv'
<1> DEFINE c == reading[q]
<1> DEFINE left == c.attached # NoKey
<1> DEFINE kept == IF left THEN Released(cache, c.held) ELSE cache
<1> DEFINE had == IF left THEN NoHandle ELSE c.held
<1> DEFINE mid == [Held EXCEPT ![q] = had]
<1> DEFINE entries == Hold(kept, had, c.key, c.key)
<1> DEFINE handle == HandleOf(entries, c.key)
<1> DEFINE e == [c EXCEPT !.effects = FALSE, !.attached = c.key, !.rendered = @ /\ Holds(had, c.key)]
<1> DEFINE after == [o \in QueryReaders |->
                        IF o # q THEN Silenced(reading[o], kept) ELSE Heard(e, handle, rows)]
<1> DEFINE g == [mid EXCEPT ![q] = handle]
<1>1. rows' = rows /\ cache' = entries /\ c.effects /\ reading' = [o \in QueryReaders |-> after[o]]
  BY DEF AttachQuery
<1>2. c \in Readings /\ ReadingInv(c, rows) /\ Held[q] = c.held /\ c.held \in Handles
  BY ReadingFacts DEF Readings
<1>3. c.mounted /\ c.key \in Keys /\ (~c.dirty => c.shown = c.value)
  BY <1>1, <1>2 DEF ReadingInv
<1>4. had \in Handles /\ mid \in Holdings /\ mid[q] = had /\ Elsewhere(Held, mid, q)
  BY <1>2, ReadTypes, ReadingFacts DEF Holdings, Elsewhere
<1>5. kept \in Caches /\ Books(kept, mid)
  <2>1. CASE left
    <3>1. ~mid[q].alive
      BY <1>4, <2>1, ReadTypes
    <3>2. kept = Released(cache, Held[q])
      BY <1>2, <2>1
    <3> HIDE DEF mid, kept
    <3> QED BY <1>4, <3>1, <3>2, ReadingFacts, ReleasedBooks
  <2>2. CASE ~left
    <3>1. mid = Held
      BY <1>2, <2>2, ReadingFacts DEF Holdings
    <3> QED BY <2>2, <3>1, ReadingFacts
  <2> QED BY <2>1, <2>2
<1> HIDE DEF had, kept
<1>6. entries \in Caches
  <2> DEFINE none == [mid EXCEPT ![q] = NoHandle]
  <2>1. none \in Holdings /\ ~none[q].alive /\ Elsewhere(mid, none, q)
    BY <1>4, ReadTypes DEF Holdings, Elsewhere
  <2>2. Released(kept, had) \in Caches
    <3> HIDE DEF none, mid
    <3> QED BY <1>4, <1>5, <2>1, ReleasedBooks
  <2>3. \A freed \in Caches : Acquired(freed, c.key, c.key) \in Caches
    <3> SUFFICES ASSUME NEW freed \in Caches PROVE Acquired(freed, c.key, c.key) \in Caches
      OBVIOUS
    <3>1. freed[c.key].consumers + 1 \in Nat /\ freed[c.key].spec \in Keys \union {NoKey}
      BY <1>3 DEF Caches, Entries
    <3> QED BY <1>3, <3>1 DEF Acquired, Caches, Entries
  <2> QED BY <1>5, <2>2, <2>3 DEF Hold
<1>7. handle \in Handles /\ handle.alive /\ handle.key = c.key
  BY <1>3, <1>6, ReadTypes
<1>8. g \in Holdings /\ Elsewhere(mid, g, q) /\ g[q] = handle
  BY <1>4, <1>7 DEF Holdings, Elsewhere
<1> HIDE DEF mid, g
<1>9. Books(entries, g)
  BY <1>3, <1>4, <1>5, <1>8, HoldBooks
<1> HIDE DEF entries, handle
<1>10. /\ e \in Readings /\ e.mounted /\ e.key = c.key /\ e.attached = c.key
       /\ e.dirty = c.dirty /\ e.shown = c.shown /\ e.value = c.value
  BY <1>2, <1>3 DEF Readings
<1> HIDE DEF e
<1>11. ASSUME NEW o \in QueryReaders
       PROVE  after[o] \in Readings /\ ReadingInv(after[o], rows) /\ after[o].held = g[o]
  <2>1. CASE o = q
    BY <1>3, <1>7, <1>8, <1>10, <2>1, HeardKeeps
  <2>2. CASE o # q
    <3>1. g[o] = reading[o].held /\ mid[o] = reading[o].held
      BY <1>4, <1>8, <2>2, ReadingFacts DEF Elsewhere
    <3>2. reading[o].held.alive => kept[reading[o].held.key].consumers # 0
      BY <1>5, <3>1, HeldIsConsumed
    <3> QED BY <2>2, <3>1, <3>2, ReadingFacts, SilencedKeeps
  <2> QED BY <2>1, <2>2
<1> HIDE DEF after
<1>12. g = [o \in QueryReaders |-> after[o].held]
  BY <1>8, <1>11 DEF Holdings
<1> QED BY <1>1, <1>6, <1>9, <1>11, <1>12, ReadingsKeep

LEMMA CommitKeepsQueries ==
    ASSUME QInv, NEW next, NEW batch, Commit(next, batch)
    PROVE  QInv'
<1> DEFINE after == [q \in QueryReaders |-> Delivered(reading[q], rows, next)]
<1>1. rows' = next /\ cache' = cache /\ reading' = [q \in QueryReaders |-> after[q]]
  BY DEF Commit
<1>2. \A q \in QueryReaders :
        after[q] \in Readings /\ ReadingInv(after[q], next) /\ after[q].held = Held[q]
  BY ReadingFacts, DeliveredKeeps
<1> HIDE DEF after
<1>3. Held = [q \in QueryReaders |-> after[q].held]
  BY <1>2, ReadingFacts DEF Holdings
<1> QED BY <1>1, <1>2, <1>3, ReadingFacts, ReadingsKeep

\* After a reset a query is held by the reads that had subscribed to its key.
LEMMA ResetKeepsQueries ==
    ASSUME QInv, Reset
    PROVE  QInv'
<1> DEFINE woken(k) == {q \in QueryReaders : reading[q].attached = k}
<1> DEFINE mute(c) == [c EXCEPT !.held.alive = FALSE, !.heard = NoHandle]
<1> DEFINE after == [q \in QueryReaders |->
                        IF reading[q].attached = NoKey THEN mute(reading[q])
                        ELSE Heard([reading[q] EXCEPT !.rendered = TRUE], HandleOf(cache', reading[q].attached), NoRows)]
<1> DEFINE g == [q \in QueryReaders |-> after[q].held]
<1>1. /\ rows' = NoRows /\ reading' = [q \in QueryReaders |-> after[q]]
      /\ \A k \in Keys : cache'[k].consumers = Cardinality(woken(k))
  BY DEF Reset
<1>2. cache' \in Caches
  <2>1. cache' \in [Keys -> [spec : Keys \union {NoKey}, consumers : 0 .. Cardinality(QueryReaders)]]
    BY DEF Reset
  <2>2. \A n \in 0 .. Cardinality(QueryReaders) : n \in Nat
    OBVIOUS
  <2> QED BY <2>1, <2>2 DEF Caches, Entries
<1>3. ASSUME NEW q \in QueryReaders, reading[q].attached = NoKey
      PROVE  after[q] \in Readings /\ ReadingInv(after[q], NoRows) /\ ~after[q].held.alive
  <2> DEFINE c == reading[q]
  <2> DEFINE d == mute(c)
  <2>1. c \in Readings /\ ReadingInv(c, rows) /\ c.held \in Handles
    BY ReadingFacts DEF Readings
  <2>2. after[q] = d
    BY <1>3
  <2>3. /\ d \in Readings /\ d.mounted = c.mounted /\ d.key = c.key /\ ~d.held.alive /\ d.attached = NoKey
        /\ d.shown = c.shown /\ d.value = c.value /\ d.effects = c.effects /\ d.dirty = c.dirty
    BY <1>3, <2>1, ReadTypes DEF Readings, Handles
  <2>4. ~(c.mounted /\ ~c.effects)
    BY <1>3, <2>1, ReaderAssumption DEF ReadingInv, Keys
  <2> QED BY <2>1, <2>2, <2>3, <2>4 DEF ReadingInv
<1>4. ASSUME NEW q \in QueryReaders, reading[q].attached # NoKey
      PROVE  /\ after[q] \in Readings /\ ReadingInv(after[q], NoRows) /\ after[q].held.alive
             /\ after[q].held.key = reading[q].attached /\ reading[q].attached \in Keys
             /\ after[q].held.spec = cache'[reading[q].attached].spec
  <2> DEFINE c == reading[q]
  <2> DEFINE e == [c EXCEPT !.rendered = TRUE]
  <2> DEFINE handle == HandleOf(cache', c.attached)
  <2>1. c \in Readings /\ ReadingInv(c, rows) /\ c.attached \in Keys
    BY <1>4, ReadingFacts DEF Readings
  <2>2. after[q] = Heard(e, handle, NoRows)
    BY <1>4
  <2>3. /\ handle \in Handles /\ handle.alive /\ handle.key = c.attached
        /\ handle.spec = cache'[c.attached].spec
    BY <1>2, <2>1, ReadTypes
  <2>4. /\ e \in Readings /\ e.mounted = c.mounted /\ e.key = c.key /\ e.effects = c.effects
        /\ e.attached = c.attached /\ e.dirty = c.dirty /\ e.shown = c.shown /\ e.value = c.value
    BY <2>1 DEF Readings
  <2>5. /\ c.mounted /\ c.key \in Keys /\ (~c.effects => c.attached = c.key)
        /\ (~c.dirty => c.shown = c.value)
    BY <1>4, <2>1 DEF ReadingInv
  <2>6. /\ e.mounted /\ e.key \in Keys /\ (~e.effects => handle.key = e.key /\ e.attached = e.key)
        /\ (~e.dirty => e.shown = e.value)
    BY <2>3, <2>4, <2>5
  <2> HIDE DEF e, handle, after
  <2>7. Heard(e, handle, NoRows) \in Readings /\ ReadingInv(Heard(e, handle, NoRows), NoRows)
        /\ Heard(e, handle, NoRows).held = handle
    BY <2>3, <2>4, <2>6, HeardKeeps
  <2> QED BY <2>1, <2>2, <2>3, <2>7
<1> HIDE DEF after
<1>5. \A k \in Keys : Holders(g, k) = woken(k)
  <2> SUFFICES ASSUME NEW k \in Keys, NEW q \in QueryReaders
               PROVE  (g[q].alive /\ g[q].key = k) <=> reading[q].attached = k
    BY DEF Holders
  <2>1. NoKey # k
    BY ReaderAssumption DEF Keys
  <2>2. CASE reading[q].attached = NoKey
    BY <1>3, <2>1, <2>2
  <2>3. CASE reading[q].attached # NoKey
    BY <1>4, <2>3
  <2> QED BY <2>2, <2>3
<1>6. Books(cache', g)
  <2>1. \A q \in QueryReaders : g[q].alive => g[q].key \in Keys /\ g[q].spec = cache'[g[q].key].spec
    BY <1>3, <1>4
  <2> QED BY <1>1, <1>5, <2>1 DEF Books
<1>7. \A q \in QueryReaders : after[q] \in Readings /\ ReadingInv(after[q], NoRows)
  BY <1>3, <1>4
<1> QED BY <1>1, <1>2, <1>6, <1>7, ReadingsKeep

LEMMA InitKeepsQueries == Init => QInv
<1> SUFFICES ASSUME Init PROVE QInv
  OBVIOUS
<1>1. NotReading \in Readings /\ ~NotReading.mounted /\ ~NotReading.effects
      /\ NotReading.attached = NoKey /\ NotReading.held = NoHandle
  BY ReadTypes DEF NotReading, Readings, Counts
<1>2. NoEntry \in Entries /\ NoEntry.consumers = 0
  BY DEF NoEntry, Entries
<1>3. QueriesTyped
  BY <1>1, <1>2 DEF Init, QueriesTyped, Caches
<1>4. \A q \in QueryReaders : Held[q] = NoHandle /\ reading[q] = NotReading
  BY <1>1 DEF Init, Held
<1>5. \A k : Holders(Held, k) = {}
  BY <1>4, ReadTypes DEF Holders
<1>6. Books(cache, Held)
  BY <1>2, <1>4, <1>5, ReadTypes, FS_EmptySet DEF Books, Init
<1>7. \A q \in QueryReaders : ReadingInv(reading[q], rows)
  BY <1>1, <1>4, ReadTypes DEF ReadingInv
<1> QED BY <1>3, <1>6, <1>7 DEF QInv

LEMMA NextKeepsQueries == QInv /\ [Next]_vars => QInv'
<1> SUFFICES ASSUME QInv, [Next]_vars PROVE QInv'
  OBVIOUS
<1>1. CASE UNCHANGED <<rows, reading, cache>>
  BY <1>1 DEF QInv, QueriesTyped, Held, Books, Holders, ReadingInv
<1>2. ASSUME NEW q \in QueryReaders, NEW k \in Keys, MountQuery(q, k) \/ RenderQuery(q, k)
      PROVE  QInv'
  BY <1>2, MountQueryKeeps, RenderQueryKeeps
<1>3. ASSUME NEW q \in QueryReaders, AttachQuery(q) \/ UnmountQuery(q)
      PROVE  QInv'
  BY <1>3, AttachQueryKeeps, UnmountQueryKeeps
<1>4. ASSUME NEW next, NEW batch, Commit(next, batch)
      PROVE  QInv'
  BY <1>4, CommitKeepsQueries
<1>5. CASE Reset
  BY <1>5, ResetKeepsQueries
<1>6. CASE \/ \E r \in LiveReaders :
                \/ \E relation \in {"belongsTo", "hasMany"} : \E id \in Targets(relation) : MountRead(r, relation, id)
                \/ \E id \in {NoId} \union Children \union Parents :
                        id \in Targets(cell[r].relation) /\ RenderRead(r, id)
                \/ AttachRead(r) \/ UnmountRead(r)
           \/ UNCHANGED vars
  <2>1. UNCHANGED <<rows, reading, cache>>
    BY <1>6 DEF MountRead, RenderRead, AttachRead, UnmountRead, vars
  <2> QED BY <1>1, <2>1
<1>7. CASE \/ \E c \in Children :
                \/ \E to \in Parents \union {Nobody, Gone} : LandChild(c, to)
                \/ \E p \in Parents : LandBoth(c, p)
                \/ EditChild(c)
           \/ \E p \in Parents : LandParent(p) \/ LoseParent(p)
  <2>1. \E next, batch : Commit(next, batch)
    BY <1>7 DEF LandChild, LandBoth, LandParent, LoseParent, EditChild, Land
  <2> QED BY <1>4, <2>1
<1> QED BY <1>2, <1>3, <1>5, <1>6, <1>7 DEF Next

\* A declared read with nothing left to run shows the rows of its own declaration
\* (useModelQuery.ts), through every order of commits, changed declarations, other readers
\* of the same query and resets, for any number of parents, children and components, as
\* long as the query held under its key was built from its declaration.
THEOREM QueriesAreCurrent == Spec => []QueryIsCurrent
<1>1. QInv => QueryIsCurrent
  BY DEF QInv, ReadingInv, QueryIsCurrent, Quiet
<1> QED BY <1>1, InitKeepsQueries, NextKeepsQueries, PTL DEF Spec
=============================================================================
