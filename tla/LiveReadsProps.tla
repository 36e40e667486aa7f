--------------------------- MODULE LiveReadsProps ---------------------------
(* What the screen may show of the rows held. *)
EXTENDS LiveReads

DependencySet == [kind : {"row"}, model : {"child", "parent"}, id : Children \union Parents, fields : {Whole, {"parent"}}]
                    \union [kind : {"model"}, model : {"child", "none"}]

Cells == [mounted : BOOLEAN, relation : {"none", "belongsTo", "hasMany"}, id : {NoId} \union Children \union Parents,
          value : SUBSET (Children \union Parents), behind : BOOLEAN, deps : SUBSET DependencySet,
          sub : SUBSET DependencySet, shown : SUBSET (Children \union Parents), effects : BOOLEAN, dirty : BOOLEAN]

\* The rows and the relation reads over them.
TypeOK ==
    /\ rows \in RowSets
    /\ cell \in [LiveReaders -> Cells]

\* Nothing of the read waits to run.
Quiet(c) == c.mounted /\ ~c.effects /\ ~c.dirty

\* A relation read with nothing left to run shows what the rows held now say, as long as its
\* subscription names what the read depends on now: no commit falls between the render, the
\* effect that subscribes and the batches that do not concern it (useLiveRead.ts:74).
RelationIsCurrent ==
    \A r \in LiveReaders : LET c == cell[r] IN
        Quiet(c) /\ c.sub = Deps(rows, c.relation, c.id) => c.shown = Compute(rows, c.relation, c.id)

\* A declared read with nothing left to run shows the rows of its own declaration, through
\* every order of commits, changed declarations, other readers of the same query and resets,
\* as long as the query held under its key was built from its declaration.
QueryIsCurrent ==
    \A q \in QueryReaders : LET c == reading[q] IN
        Quiet(c) /\ c.held.spec = c.key => c.shown = Select(rows, c.key)

=============================================================================
