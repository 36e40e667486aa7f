----------------------------- MODULE LiveReads -----------------------------
(***************************************************************************)
(* The mounted reads of the application: relation reads through            *)
(* useLiveRead (read/useLiveRead.ts), which a commit wakes over the commit *)
(* bus, and declared reads through useModelQuery (read/useModelQuery.ts),  *)
(* which share the live queries of a derived collection cache              *)
(* (core/storeModelQueries.ts, core/storeDerivedCollections.ts) and which  *)
(* only a reset wakes over the bus.                                        *)
(*                                                                         *)
(* A commit, a render with its commit to the screen, and the effects of a  *)
(* render each run to the end; between any two of them anything else may   *)
(* run.  React is external: a read is rendered again after onStoreChange,  *)
(* or with other arguments at any time, never before the effects of its    *)
(* last render.                                                            *)
(***************************************************************************)
EXTENDS Dependencies, Naturals

CONSTANTS
    LiveReaders,   \* the components with a relation read
    QueryReaders,  \* the components with a declared read
    NoKey,         \* the key of no query
    MaxMounted     \* bound on the components mounted at a time

ASSUME ReaderAssumption ==
    /\ LiveReaders \intersect QueryReaders = {} /\ IsFiniteSet(QueryReaders)
    /\ NoKey \notin Parents /\ MaxMounted \in Nat

VARIABLES
    rows,     \* the rows held
    cell,     \* per relation read: its LiveReadState, what React holds of it
    reading,  \* per declared read: its refs, what React holds of it
    cache     \* per query key: the spec its collection was built with, its consumers

vars == <<rows, cell, reading, cache>>

\* A declared read counts the children of one parent; that parent is its key.
Keys          == Parents
Select(r, k)  == Cardinality(HasMany(r, k))
NoSub         == {ModelDep("none")}
NoHandle      == [key |-> NoKey, spec |-> NoKey, alive |-> FALSE]
NoEntry       == [spec |-> NoKey, consumers |-> 0]

Unmounted == [mounted |-> FALSE, relation |-> "none", id |-> NoId, value |-> {}, behind |-> FALSE,
              deps |-> {}, sub |-> NoSub, shown |-> {}, effects |-> FALSE, dirty |-> FALSE]

NotReading == [mounted |-> FALSE, key |-> NoKey, held |-> NoHandle, rendered |-> FALSE, value |-> 0,
               heard |-> NoHandle, attached |-> NoKey, shown |-> 0, effects |-> FALSE, dirty |-> FALSE]

Init ==
    /\ rows = NoRows
    /\ cell = [r \in LiveReaders |-> Unmounted]
    /\ reading = [q \in QueryReaders |-> NotReading]
    /\ cache = [k \in Keys |-> NoEntry]

RoomToMount ==
    Cardinality({r \in LiveReaders : cell[r].mounted}) + Cardinality({q \in QueryReaders : reading[q].mounted})
        < MaxMounted

---------------------------------------------------------------------------
(* useLiveRead *)

\* The value is read again now; a difference asks React for a render.
Recomputed(c, now) ==
    LET next == Compute(now, c.relation, c.id)
    IN  [c EXCEPT !.value = next, !.behind = FALSE, !.dirty = @ \/ next # c.value]

MountRead(r, relation, id) ==
    /\ ~cell[r].mounted /\ RoomToMount
    /\ LET next == Compute(rows, relation, id)
       IN  cell' = [cell EXCEPT ![r] = [Unmounted EXCEPT
                !.mounted = TRUE, !.relation = relation, !.id = id, !.value = next, !.shown = next,
                !.deps = Deps(rows, relation, id), !.effects = TRUE]]
    /\ UNCHANGED <<rows, reading, cache>>

\* Only a changed signature reads the value in the render.
Rendered(c, id) ==
    LET deps  == Deps(rows, c.relation, id)
        again == deps # c.deps
        next  == IF again THEN Compute(rows, c.relation, id) ELSE c.value
    IN  [c EXCEPT !.id = id, !.deps = deps, !.value = next, !.behind = @ /\ ~again,
                  !.shown = next, !.dirty = FALSE, !.effects = again]

RenderRead(r, id) ==
    /\ cell[r].mounted /\ ~cell[r].effects /\ (cell[r].dirty \/ id # cell[r].id)
    /\ cell' = [cell EXCEPT ![r] = Rendered(@, id)]
    /\ UNCHANGED <<rows, reading, cache>>

\* Mutated Attached: no look at what was published since the render.
AttachedBlindly(c) == [c EXCEPT !.sub = c.deps, !.effects = FALSE]

\* The old subscription is closed, the new one opened; a batch published since the value
\* was read means that it is read again.
Attached(c) ==
    LET open == [c EXCEPT !.sub = c.deps, !.effects = FALSE]
    IN  IF c.behind THEN Recomputed(open, rows) ELSE open

AttachRead(r) ==
    /\ cell[r].effects
    /\ cell' = [cell EXCEPT ![r] = Attached(@)]
    /\ UNCHANGED <<rows, reading, cache>>

UnmountRead(r) ==
    /\ cell[r].mounted /\ ~cell[r].effects
    /\ cell' = [cell EXCEPT ![r] = Unmounted]
    /\ UNCHANGED <<rows, reading, cache>>

\* publish, as one subscriber and as one read that has not subscribed see it.
Published(c, batch, now) ==
    IF ~c.mounted THEN c
    ELSE IF c.sub # NoSub /\ Concerns(c.sub, batch) THEN Recomputed(c, now)
    ELSE [c EXCEPT !.behind = TRUE]

---------------------------------------------------------------------------
(* useModelQuery *)

Released(entries, handle) ==
    IF ~handle.alive THEN entries
    ELSE IF entries[handle.key].consumers = 1 THEN [entries EXCEPT ![handle.key] = NoEntry]
    ELSE [entries EXCEPT ![handle.key].consumers = @ - 1]

Acquired(entries, key, spec) ==
    [entries EXCEPT ![key] = [spec |-> IF @.consumers = 0 THEN spec ELSE @.spec, consumers |-> @.consumers + 1]]

HandleOf(entries, key) == [key |-> key, spec |-> entries[key].spec, alive |-> TRUE]

RowsOf(handle, now) == IF handle.alive THEN Select(now, handle.spec) ELSE 0

\* A collection without a consumer is disposed of; who listens to it hears nothing more.
Silenced(c, entries) ==
    IF c.heard.alive /\ entries[c.heard.key].consumers = 0 THEN [c EXCEPT !.heard = NoHandle] ELSE c

\* The handle of a key and of this generation is kept, another is given back and taken anew.
Holds(handle, key) == handle.alive /\ handle.key = key

Hold(entries, handle, key, spec) ==
    IF Holds(handle, key) THEN entries ELSE Acquired(Released(entries, handle), key, spec)

MountQuery(q, key) ==
    /\ ~reading[q].mounted /\ RoomToMount
    /\ cache' = Acquired(cache, key, key)
    /\ LET handle == HandleOf(cache', key)
           value  == RowsOf(handle, rows)
       IN  reading' = [reading EXCEPT ![q] = [NotReading EXCEPT
                !.mounted = TRUE, !.key = key, !.held = handle, !.rendered = TRUE,
                !.value = value, !.shown = value, !.effects = TRUE]]
    /\ UNCHANGED <<rows, cell>>

\* A handle other than the one of the last render is read in the render.
RenderQuery(q, key) ==
    LET c == reading[q] IN
    /\ c.mounted /\ ~c.effects /\ (c.dirty \/ key # c.key)
    /\ cache' = Hold(cache, c.held, key, key)
    /\ LET handle == HandleOf(cache', key)
           again  == ~c.rendered \/ ~Holds(c.held, key)
           value  == IF again THEN RowsOf(handle, rows) ELSE c.value
       IN  reading' = [other \in QueryReaders |-> Silenced(IF other # q THEN reading[other] ELSE [c EXCEPT
                !.key = key, !.held = handle, !.rendered = TRUE, !.value = value,
                !.shown = value, !.dirty = FALSE, !.effects = key # c.key], cache')]
    /\ UNCHANGED <<rows, cell>>

\* Mutated Heard: no second look at the rows.
HeardOnly(c, handle, now) == [c EXCEPT !.heard = handle, !.held = handle]

Heard(c, handle, now) ==
    LET value == RowsOf(handle, now)
    IN  [c EXCEPT !.heard = handle, !.held = handle, !.value = value, !.dirty = @ \/ value # c.value]

\* The cleanup of the old subscription gives the held query back, the new one of the render
\* included; the rows are read again.
AttachQuery(q) ==
    LET c    == reading[q]
        left == c.attached # NoKey
        kept == IF left THEN Released(cache, c.held) ELSE cache
        had  == IF left THEN NoHandle ELSE c.held
    IN  /\ c.effects
        /\ cache' = Hold(kept, had, c.key, c.key)
        /\ reading' = [other \in QueryReaders |->
                IF other # q THEN Silenced(reading[other], kept)
                ELSE Heard([c EXCEPT !.effects = FALSE, !.attached = c.key, !.rendered = @ /\ Holds(had, c.key)],
                           HandleOf(cache', c.key), rows)]
        /\ UNCHANGED <<rows, cell>>

UnmountQuery(q) ==
    /\ reading[q].mounted /\ ~reading[q].effects
    /\ cache' = Released(cache, reading[q].held)
    /\ reading' = [other \in QueryReaders |->
            IF other = q THEN NotReading ELSE Silenced(reading[other], cache')]
    /\ UNCHANGED <<rows, cell>>

\* The listener of a live query selects again when the rows of the query changed.
Delivered(c, old, now) ==
    LET value == RowsOf(c.heard, now)
    IN  IF ~c.heard.alive \/ RowsOf(c.heard, old) = value THEN c
        ELSE [c EXCEPT !.value = value, !.dirty = @ \/ value # c.value]

---------------------------------------------------------------------------
(* Commits and resets *)

Commit(next, batch) ==
    /\ batch # {}
    /\ rows' = next
    /\ reading' = [q \in QueryReaders |-> Delivered(reading[q], rows, next)]
    /\ cell' = [r \in LiveReaders |-> Published(cell[r], batch, next)]
    /\ UNCHANGED cache

Land(next)       == Commit(next, Batch(rows, next))
LandChild(c, to) == Land([rows EXCEPT !.child[c] = to])
LandParent(p)    == Land([rows EXCEPT !.parents = @ \union {p}])
LoseParent(p)    == Land([rows EXCEPT !.parents = @ \ {p}])
LandBoth(c, p)   == Land([rows EXCEPT !.child[c] = p, !.parents = @ \union {p}])
EditChild(c)     == rows.child[c] # Gone /\ Commit(rows, Aside(c))

\* Every query of the old generation is dead, and with it every handle.  The reads with a
\* subscription wake one after the other; the first to hold a key builds the query, with the
\* spec of its last render under the key of its last subscription.
Reset ==
    LET woken(k) == {q \in QueryReaders : reading[q].attached = k}
        mute(c)  == [c EXCEPT !.held.alive = FALSE, !.heard = NoHandle]
    IN  /\ rows' = NoRows
        /\ cell' = [r \in LiveReaders |->
                LET c == cell[r]
                IN  IF ~c.mounted THEN c
                    ELSE IF c.sub # NoSub THEN Recomputed(c, NoRows)
                    ELSE [c EXCEPT !.behind = TRUE]]
        /\ cache' \in [Keys -> [spec : Keys \union {NoKey}, consumers : 0 .. Cardinality(QueryReaders)]]
        /\ \A k \in Keys :
                /\ cache'[k].consumers = Cardinality(woken(k))
                /\ cache'[k].spec \in IF woken(k) = {} THEN {NoKey} ELSE {reading[q].key : q \in woken(k)}
        /\ reading' = [q \in QueryReaders |->
                LET c == reading[q]
                IN  IF c.attached = NoKey THEN mute(c)
                    ELSE Heard([c EXCEPT !.rendered = TRUE], HandleOf(cache', c.attached), NoRows)]

Next ==
    \/ \E r \in LiveReaders :
        \/ \E relation \in {"belongsTo", "hasMany"} : \E id \in Targets(relation) : MountRead(r, relation, id)
        \/ \E id \in {NoId} \union Children \union Parents : id \in Targets(cell[r].relation) /\ RenderRead(r, id)
        \/ AttachRead(r) \/ UnmountRead(r)
    \/ \E q \in QueryReaders :
        \/ \E k \in Keys : MountQuery(q, k) \/ RenderQuery(q, k)
        \/ AttachQuery(q) \/ UnmountQuery(q)
    \/ \E c \in Children :
        \/ \E to \in Parents \union {Nobody, Gone} : LandChild(c, to)
        \/ \E p \in Parents : LandBoth(c, p)
        \/ EditChild(c)
    \/ \E p \in Parents : LandParent(p) \/ LoseParent(p)
    \/ Reset

Spec == Init /\ [][Next]_vars
=============================================================================
