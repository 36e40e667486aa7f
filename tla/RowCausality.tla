--------------------------- MODULE RowCausality ----------------------------
(***************************************************************************)
(* One row, and everybody who writes it: optimistic patches and destroys   *)
(* with their responses and rollbacks (dsl/facadeActions.ts,               *)
(* core/requestRollback.ts), query answers, events, and the boot pass that *)
(* rolls back what a kill left open (core/bootFsck.ts).  What each of them *)
(* may change is decided by three gates: the causal admission of           *)
(* dsl/modelContext.ts (a write with a base revision yields to what was    *)
(* committed since), the overlay of core/storeUpsertResolver.ts (a write   *)
(* of no operation yields to the fields of pending patches), and the       *)
(* tombstone gate of dsl/modelWrites.ts.                                   *)
(*                                                                         *)
(* A commit is one step here; that it is also one step on disk is module   *)
(* DeltaLog.  Write policies are the default ("server"); memberships and   *)
(* the effects on other models are left out.                               *)
(***************************************************************************)
EXTENDS Naturals, FiniteSets, Sequences

CONSTANTS
    Fields,      \* the fields of the row, its id aside
    Ops,         \* calls of optimistic request actions on this row, each of an action of its own
    Calls,       \* the sets of them an application may make in one history
    Queries,     \* the requests of queries whose answer contains this row
    PatchedBy,   \* the fields an operation patches; none: it destroys the row
    ValueOf,     \* the value it patches them with
    WholeRow,    \* a patch response carries the whole row, not the patched fields only
    MaxTroubles, \* bound on the writes and deletes of other clients, kills and retries, together
    MaxEvents,   \* bound on the events under way
    Prunes       \* whether the tombstone may grow old enough to be pruned

NoRow    == [f \in {} |-> 0]
Patches  == {o \in Ops : PatchedBy[o] # {}}
Destroys == Ops \ Patches
Versions == 0 .. MaxTroubles
Content  == [Fields -> Versions \cup {ValueOf[o] : o \in Ops}]
Rows     == Content \cup {NoRow}
Requests == Ops \cup Queries

ASSUME RowAssumption ==
    /\ Fields # {} /\ "row" \notin Fields /\ IsFiniteSet(Ops) /\ Ops \cap Queries = {}
    /\ Calls \subseteq SUBSET Ops
    /\ PatchedBy \in [Ops -> SUBSET Fields]
    /\ ValueOf \in [Ops -> Nat \ Versions]
    /\ WholeRow \in BOOLEAN /\ Prunes \in BOOLEAN
ASSUME OneDestroyAssumption == \A d, e \in Destroys : d = e
ASSUME BoundAssumption == MaxTroubles \in Nat /\ MaxEvents \in Nat

VARIABLES
    (* the client *)
    row,        \* the stored row, or NoRow
    tombstoned,
    epoch,      \* number of commits of this session
    revisions,  \* [row, existence: the commit that last changed it; field: one per field]
    ops,        \* the ledger: [status, born, began, rollbackRow]; began orders the index of the row
    clock,      \* number of begins so far, orders the ledger
    (* the wire *)
    reqs,       \* [phase, base, data, result] of every request
    events,     \* the events under way, oldest first
    (* the server *)
    server,     \* its row, or NoRow
    troubles,   \* writes and deletes of other clients, kills and retries so far
    (* history *)
    calls,      \* the calls the application makes
    touched,    \* what changed in the store since a request was sent: fields, "row"
    taken,      \* operations whose value the server has stored
    buried,     \* the client has been told that the server deleted the row
    pruned      \* a tombstone has been pruned

client  == <<row, tombstoned, epoch, revisions, ops, clock>>
world   == <<server, troubles>>
history == <<calls, touched, taken, buried, pruned>>
vars    == <<client, reqs, events, world, history>>

Statuses == {"none", "pending", "failed", "committed", "delivery_unknown", "removed"}
NoEpochs == [row |-> 0, existence |-> 0, field |-> [f \in Fields |-> 0]]
Idle     == [phase |-> "idle", base |-> 0, data |-> NoRow, result |-> "ok"]

Init ==
    /\ row = [f \in Fields |-> 0]
    /\ tombstoned = FALSE
    /\ epoch = 0
    /\ revisions = NoEpochs
    /\ ops = [o \in Ops |-> [status |-> "none", born |-> 0, began |-> 0, rollbackRow |-> NoRow]]
    /\ clock = 0
    /\ reqs = [r \in Requests |-> Idle]
    /\ events = <<>>
    /\ server = row
    /\ troubles = 0
    /\ calls \in Calls
    /\ touched = [r \in Requests |-> {}]
    /\ taken = {}
    /\ buried = FALSE
    /\ pruned = FALSE

Trouble == troubles < MaxTroubles /\ troubles' = troubles + 1

-----------------------------------------------------------------------------
(* Who owns a field *)

Pending  == {o \in Ops : ops[o].status = "pending"}
Owned(f) == \E o \in Pending : f \in PatchedBy[o]

(* The other pending patches of a field, and the last one in the index. *)
Rivals(o, f)  == {p \in Pending \ {o} : f \in PatchedBy[p]}
LastIndexed(S, ledger) == CHOOSE o \in S : \A p \in S : ledger[p].began <= ledger[o].began
LastBorn(S)   == CHOOSE o \in S : \A p \in S : ops[p].born <= ops[o].born

-----------------------------------------------------------------------------
(* What the gates let through *)

\* Mutated Upserted: no overlay over a live event.
UpsertedLive(data, base, snapshot) ==
    IF \/ data = NoRow
       \/ snapshot /\ tombstoned
       \/ revisions.existence > base
       \/ row = NoRow /\ revisions.row > base
    THEN row
    ELSE IF row = NoRow THEN data
    ELSE [f \in Fields |-> IF revisions.field[f] > base \/ (snapshot /\ Owned(f)) THEN row[f] ELSE data[f]]

(* prepareRow and previewUpsert: an upsert of no operation.  Only a        *)
(* snapshot, which has no origin, stops at the tombstone.                  *)
Upserted(data, base, snapshot) ==
    IF \/ data = NoRow
       \/ snapshot /\ tombstoned
       \/ revisions.existence > base
       \/ row = NoRow /\ revisions.row > base
    THEN row
    ELSE IF row = NoRow THEN data
    ELSE [f \in Fields |-> IF revisions.field[f] > base \/ Owned(f) THEN row[f] ELSE data[f]]

(* preparePatch of an operation: no overlay, its own fields included. *)
Patched(patch, base) ==
    IF row = NoRow \/ revisions.existence > base THEN row
    ELSE [f \in Fields |-> IF f \in DOMAIN patch /\ revisions.field[f] <= base THEN patch[f] ELSE row[f]]

(* admitDestroy *)
Destroyed(base) ==
    IF revisions.row > base \/ revisions.existence > base THEN row ELSE NoRow

-----------------------------------------------------------------------------
(* A commit *)

Changed(old, new) ==
    IF new = NoRow THEN {} ELSE {f \in Fields : old = NoRow \/ old[f] # new[f]}
Moved(old, new) ==
    Changed(old, new) \cup (IF (old = NoRow) # (new = NoRow) THEN {"row"} ELSE {})

\* Mutated Revised: a destroy notes nothing.
RevisedByPuts(new, n) ==
    [row       |-> IF new # row /\ new # NoRow THEN n ELSE revisions.row,
     existence |-> IF "row" \in Moved(row, new) /\ new # NoRow THEN n ELSE revisions.existence,
     field     |-> [f \in Fields |-> IF f \in Changed(row, new) THEN n ELSE revisions.field[f]]]

(* put and destroy note what changed under the epoch of the commit; a      *)
(* commit of nothing has no epoch.                                         *)
Revised(new, n) ==
    [row       |-> IF new # row THEN n ELSE revisions.row,
     existence |-> IF "row" \in Moved(row, new) THEN n ELSE revisions.existence,
     field     |-> [f \in Fields |-> IF f \in Changed(row, new) THEN n ELSE revisions.field[f]]]

Commit(new, transitions) ==
    LET n == IF new # row \/ transitions THEN epoch + 1 ELSE epoch IN
    /\ row' = new
    /\ epoch' = n
    /\ revisions' = Revised(new, n)
    /\ tombstoned' = (new = NoRow /\ (row # NoRow \/ tombstoned))

InFlight == {r \in Requests : reqs[r].phase \in {"sent", "answered"}}

(* The requests under way see the commit pass; r is sent or finished by it. *)
Witness(new, r) ==
    touched' = [q \in Requests |->
        IF q # r /\ q \in InFlight THEN touched[q] \cup Moved(row, new) ELSE {}]

\* Mutated Sent: the base revision is read before the optimistic commit.
SentEarly(r) == reqs' = [reqs EXCEPT ![r] = [Idle EXCEPT !.phase = "sent", !.base = epoch]]

Sent(r)     == reqs' = [reqs EXCEPT ![r] = [Idle EXCEPT !.phase = "sent", !.base = epoch']]
Finished(r) == reqs' = [reqs EXCEPT ![r] = [Idle EXCEPT !.phase = "done"]]
Close(o, status) == ops' = [ops EXCEPT ![o].status = status]

-----------------------------------------------------------------------------
(* An action: the optimistic write and the request, in one turn *)

Optimistic(o) ==
    IF o \in Destroys THEN NoRow
    ELSE IF row = NoRow THEN row
    ELSE [f \in Fields |-> IF f \in PatchedBy[o] THEN ValueOf[o] ELSE row[f]]

Began(o) == [ops[o] EXCEPT !.status = "pending", !.began = clock + 1]

BeginAndSend(o, record) ==
    /\ clock' = clock + 1
    /\ ops' = [ops EXCEPT ![o] = record]
    /\ Commit(Optimistic(o), TRUE)
    /\ Sent(o)
    /\ Witness(Optimistic(o), o)
    /\ UNCHANGED <<events, server, calls, taken, buried, pruned>>

\* Mutated Run: the row is captured after the optimistic write.
RunCapturedLate(o) ==
    /\ o \in calls /\ ops[o].status = "none"
    /\ row # NoRow
    /\ BeginAndSend(o, [Began(o) EXCEPT !.born = clock + 1, !.rollbackRow = Optimistic(o)])
    /\ UNCHANGED troubles

(* run: the target must exist; the row as it is now is what a rollback     *)
(* restores.                                                               *)
Run(o) ==
    /\ o \in calls /\ ops[o].status = "none"
    /\ row # NoRow
    /\ BeginAndSend(o, [Began(o) EXCEPT !.born = clock + 1, !.rollbackRow = row])
    /\ UNCHANGED troubles

(* retry: the plan is made again, the captured row is that of the first    *)
(* begin.                                                                  *)
Retry(o) ==
    /\ ops[o].status = "failed"
    /\ BeginAndSend(o, Began(o))
    /\ Trouble

(* discard of a patch or destroy forgets the operation and writes no row. *)
Discard(o) ==
    /\ ops[o].status \in {"failed", "delivery_unknown"}
    /\ Close(o, "removed")
    /\ Commit(row, TRUE)
    /\ UNCHANGED <<clock, reqs, events, world, history>>

-----------------------------------------------------------------------------
(* Responses of actions *)

Answered(r, result) == reqs[r].phase = "answered" /\ reqs[r].result = result

Settle(o, new, status) ==
    /\ Commit(new, TRUE)
    /\ Close(o, status)
    /\ Finished(o)
    /\ Witness(new, o)
    /\ UNCHANGED <<clock, events, world, calls, taken, buried, pruned>>

Response(o) ==
    IF o \in Destroys THEN Destroyed(reqs[o].base) ELSE Patched(reqs[o].data, reqs[o].base)

AnswerOk(o) ==
    /\ Answered(o, "ok")
    /\ Settle(o, Response(o), "committed")

(* planRequestFailureRollback of a patch: a field another pending patch    *)
(* owns takes that one's value; a field that does not show the             *)
(* operation's own value any more is left alone.                           *)
Undo(o, ledger) ==
    [f \in {g \in PatchedBy[o] : Rivals(o, g) # {} \/ row[g] = ValueOf[o]} |->
        IF Rivals(o, f) # {} THEN ValueOf[LastIndexed(Rivals(o, f), ledger)] ELSE ledger[o].rollbackRow[f]]

(* The rollbacks of S planned on one state and committed together, in the  *)
(* order of the ledger.  A destroy restores the captured row as an event   *)
(* would, around the fields of pending patches.                            *)
RolledBack(S, ledger) ==
    LET restored == S \cap Destroys
        undone(f) == {o \in S \cap Patches : f \in DOMAIN Undo(o, ledger)} IN
    IF row = NoRow
    THEN IF restored = {} THEN row ELSE ops[LastBorn(restored)].rollbackRow
    ELSE [f \in Fields |->
            IF undone(f) # {} THEN Undo(LastBorn(undone(f)), ledger)[f]
            ELSE IF restored # {} /\ ~Owned(f) THEN ops[LastBorn(restored)].rollbackRow[f]
            ELSE row[f]]

AnswerError(o) ==
    /\ Answered(o, "error")
    /\ Settle(o, RolledBack({o}, ops), "failed")

AnswerUnknown(o) ==
    /\ Answered(o, "unknown")
    /\ Settle(o, row, "delivery_unknown")

-----------------------------------------------------------------------------
(* Queries and events *)

(* The base revision is read before the request leaves. *)
SendQuery(q) ==
    /\ reqs[q].phase = "idle"
    /\ reqs' = [reqs EXCEPT ![q] = [Idle EXCEPT !.phase = "sent", !.base = epoch]]
    /\ UNCHANGED <<client, events, world, history>>

LandQuery(q) ==
    LET new == Upserted(reqs[q].data, reqs[q].base, TRUE) IN
    /\ Answered(q, "ok")
    /\ Commit(new, FALSE)
    /\ Finished(q)
    /\ Witness(new, q)
    /\ UNCHANGED <<ops, clock, events, world, calls, taken, buried, pruned>>

(* An event is planned with the current epoch: nothing is newer than it.   *)
DeliveredEvent == IF Head(events) = NoRow THEN Destroyed(epoch) ELSE Upserted(Head(events), epoch, FALSE)

Deliver ==
    /\ events # <<>>
    /\ events' = Tail(events)
    /\ Commit(DeliveredEvent, FALSE)
    /\ touched' = [q \in Requests |-> IF q \in InFlight THEN touched[q] \cup Moved(row, DeliveredEvent) ELSE {}]
    /\ buried' = (buried \/ Head(events) = NoRow)
    /\ UNCHANGED <<ops, clock, reqs, world, calls, taken, pruned>>

(* prune: by age, or past the cap of the map whatever the age. *)
Prune ==
    /\ Prunes /\ tombstoned
    /\ tombstoned' = FALSE
    /\ pruned' = TRUE
    /\ UNCHANGED <<row, epoch, revisions, ops, clock, reqs, events, world, calls, touched, taken, buried>>

-----------------------------------------------------------------------------
(* The server *)

(* Its subscription may carry a change or not. *)
Emits(new) ==
    \/ events' = events
    \/ new # server /\ Len(events) < MaxEvents /\ events' = Append(events, new)

Reply(r, data, result) == reqs' = [reqs EXCEPT ![r].phase = "answered", ![r].data = data, ![r].result = result]

HandleQuery(q) ==
    /\ reqs[q].phase = "sent"
    /\ Reply(q, server, "ok")
    /\ UNCHANGED <<client, events, world, history>>

(* It stores the patch, or answers with what it has: it is the authority.  *)
Stored(o) == [f \in Fields |-> IF f \in PatchedBy[o] THEN ValueOf[o] ELSE server[f]]
Carried(o, data) == IF WholeRow THEN data ELSE [f \in PatchedBy[o] |-> data[f]]

HandlePatch(o) ==
    /\ reqs[o].phase = "sent" /\ server # NoRow
    /\ \E new \in {Stored(o), server}, result \in {"ok", "unknown"} :
        /\ server' = new
        /\ Emits(new)
        /\ taken' = IF new = Stored(o) THEN taken \cup {o} ELSE taken
        /\ Reply(o, Carried(o, new), result)
    /\ UNCHANGED <<client, troubles, calls, touched, buried, pruned>>

HandleDestroy(o) ==
    /\ reqs[o].phase = "sent" /\ server # NoRow
    /\ server' = NoRow
    /\ Emits(NoRow)
    /\ \E result \in {"ok", "unknown"} : Reply(o, NoRow, result)
    /\ UNCHANGED <<client, troubles, history>>

Refuse(o) ==
    /\ reqs[o].phase = "sent"
    /\ Reply(o, NoRow, "error")
    /\ UNCHANGED <<client, events, world, history>>

Write(f) ==
    /\ server # NoRow
    /\ Trouble
    /\ server' = [server EXCEPT ![f] = troubles + 1]
    /\ Emits(server')
    /\ UNCHANGED <<client, reqs, history>>

Delete ==
    /\ server # NoRow
    /\ Trouble
    /\ server' = NoRow
    /\ Emits(NoRow)
    /\ UNCHANGED <<client, reqs, history>>

-----------------------------------------------------------------------------
(* A kill and the next boot.  What is under way is gone, the epochs start  *)
(* again; rows, tombstone and ledger are the persisted ones, and the index *)
(* is rebuilt in the order of the ledger.  The boot pass closes every      *)
(* pending request in one commit.                                          *)
Hydrated == [o \in Ops |-> [ops[o] EXCEPT !.began = ops[o].born]]

Restart ==
    LET new == RolledBack(Pending, Hydrated)
        n   == IF Pending = {} THEN 0 ELSE 1
        fresh == [NoEpochs EXCEPT
                    !.row = IF new # row THEN n ELSE 0,
                    !.existence = IF "row" \in Moved(row, new) THEN n ELSE 0,
                    !.field = [f \in Fields |-> IF f \in Changed(row, new) THEN n ELSE 0]] IN
    /\ Trouble
    /\ row' = new
    /\ epoch' = n
    /\ revisions' = fresh
    /\ tombstoned' = (tombstoned /\ new = NoRow)
    /\ ops' = [o \in Ops |-> IF o \in Pending THEN [Hydrated[o] EXCEPT !.status = "failed"] ELSE Hydrated[o]]
    /\ reqs' = [r \in Requests |-> IF r \in InFlight THEN [Idle EXCEPT !.phase = "done"] ELSE reqs[r]]
    /\ events' = <<>>
    /\ touched' = [r \in Requests |-> {}]
    /\ UNCHANGED <<clock, server, calls, taken, buried, pruned>>

-----------------------------------------------------------------------------
OpStep(o) ==
    \/ Run(o) \/ Retry(o) \/ Discard(o)
    \/ AnswerOk(o) \/ AnswerError(o) \/ AnswerUnknown(o)
    \/ Refuse(o)
    \/ o \in Patches /\ HandlePatch(o)
    \/ o \in Destroys /\ HandleDestroy(o)

Next ==
    \/ \E o \in Ops : OpStep(o)
    \/ \E q \in Queries : SendQuery(q) \/ HandleQuery(q) \/ LandQuery(q)
    \/ \E f \in Fields : Write(f)
    \/ Deliver \/ Prune \/ Delete \/ Restart

Spec == Init /\ [][Next]_vars
=============================================================================
