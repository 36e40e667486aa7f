--------------------------- MODULE Dependencies ---------------------------
(***************************************************************************)
(* What a mounted read depends on and which batches concern it             *)
(* (core/apply/commitBus.ts, related() of dsl/modelReactiveReads.ts), over *)
(* the rows of a model that belongs to another: of a child which parent it *)
(* names, of a parent whether it is held.                                  *)
(***************************************************************************)
EXTENDS FiniteSets

CONSTANTS
    Children, Parents,  \* the ids of the two models
    Nobody,             \* a child's reference to no parent
    NoId,               \* a read of no row
    Gone                \* a child that is not held

ASSUME IdAssumption ==
    /\ Nobody \notin Parents /\ NoId \notin Children /\ NoId \notin Parents
    /\ Gone \notin Parents /\ Gone # Nobody

RowSets  == [child : [Children -> Parents \union {Nobody, Gone}], parents : SUBSET Parents]
NoRows   == [child |-> [c \in Children |-> Gone], parents |-> {}]

\* No field names in a dependency or a change: the whole row.
Whole == {}

RowDep(m, i, fields) == [kind |-> "row", model |-> m, id |-> i, fields |-> fields]
ModelDep(m)          == [kind |-> "model", model |-> m]
Change(m, i, fields) == [model |-> m, id |-> i, fields |-> fields]

---------------------------------------------------------------------------
(* The changes a commit publishes *)

Batch(old, new) ==
    {Change("child", c, IF Gone \in {old.child[c], new.child[c]} THEN Whole ELSE {"parent"}) :
        c \in {d \in Children : old.child[d] # new.child[d]}}
        \union {Change("parent", p, Whole) : p \in {q \in Parents : (q \in old.parents) # (q \in new.parents)}}

\* Another field of a child.
Aside(c) == {Change("child", c, {"text"})}

RowMatches(dep, change) ==
    /\ dep.model = change.model /\ dep.id = change.id
    /\ dep.fields = Whole \/ change.fields = Whole \/ dep.fields \intersect change.fields # {}

DepMatches(dep, batch) ==
    \E change \in batch : IF dep.kind = "model" THEN change.model = dep.model ELSE RowMatches(dep, change)

Concerns(deps, batch) == \E dep \in deps : DepMatches(dep, batch)

---------------------------------------------------------------------------
(* A relation read: what it computes and what it declares to depend on *)

ParentOf(rows, c) ==
    IF c \in Children /\ rows.child[c] \in Parents THEN rows.child[c] ELSE Nobody

BelongsTo(rows, c) == {ParentOf(rows, c)} \intersect rows.parents

BelongsToDeps(rows, c) ==
    LET p == ParentOf(rows, c)
    IN  IF c = NoId THEN {}
        ELSE {RowDep("child", c, {"parent"})} \union (IF p = Nobody THEN {} ELSE {RowDep("parent", p, Whole)})

HasMany(rows, p) == {c \in Children : p \in Parents /\ rows.child[c] = p}

HasManyDeps(p) == IF p = NoId THEN {} ELSE {RowDep("parent", p, Whole), ModelDep("child")}

Targets(relation) == {NoId} \union (IF relation = "belongsTo" THEN Children ELSE Parents)

Compute(rows, relation, id) == IF relation = "belongsTo" THEN BelongsTo(rows, id) ELSE HasMany(rows, id)
Deps(rows, relation, id)    == IF relation = "belongsTo" THEN BelongsToDeps(rows, id) ELSE HasManyDeps(id)
=============================================================================
