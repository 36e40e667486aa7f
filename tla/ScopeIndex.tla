----------------------------- MODULE ScopeIndex ----------------------------
(***************************************************************************)
(* The membership and the order of one scope in server order               *)
(* (core/planes/scopeIndex.ts) and all that changes them: query answers    *)
(* (dsl/modelScopeHandle.ts), rows that join or leave as an effect of      *)
(* events and optimistic writes (core/relations.ts,                        *)
(* core/apply/commitEnvelope.ts), the swap of a draft for its server row   *)
(* and the restore of a destroyed row (dsl/modelWrites.ts), and the start  *)
(* of the application after a kill.                                        *)
(*                                                                         *)
(* A commit is one step and is on disk when it ends: that is module        *)
(* DeltaLog.  Scopes with a sort, the generation and the coverage of the   *)
(* value, and the age of tombstones are left out.                          *)
(***************************************************************************)
EXTENDS OrderKeys

CONSTANTS
    Rows,      \* ids of the server
    Drafts,    \* temporary ids of optimistic inserts
    ServerRow, \* the row the server makes of a draft
    MaxRows,   \* retention of the scope
    MaxPage,   \* bound on the rows of an answer
    MaxLandings, MaxArrivals, MaxCalls, MaxFailures, MaxKills

Ids == Rows \cup Drafts

ASSUME ScopeAssumption ==
    /\ Rows \cap Drafts = {} /\ IsFiniteSet(Ids)
    /\ ServerRow \in [Drafts -> Rows]
    /\ \A c, d \in Drafts : ServerRow[c] = ServerRow[d] => c = d
    /\ MaxRows \in Nat /\ MaxPage \in Nat

(* There are far more keys of MaxSequenceLength digits than rows in a page. *)
ASSUME PageAssumption == 2 * (MaxPage + 1) <= Power(Base, MaxSequenceLength) + 1

ASSUME ScopeBounds ==
    \A n \in {MaxLandings, MaxArrivals, MaxCalls, MaxFailures, MaxKills} : n \in Nat

VARIABLES
    entries,    \* the members [id, orderKey], in order
    tombstones, \* rows whose deletion the client has noted
    operation,  \* the insert of a draft, or the destroy of a row
    captured,   \* the key a destroyed row had, or NoBound
    spent,      \* landings, arrivals, calls, failures and kills so far
    expected,   \* history: the members whose place the server or their arrival decides, in order
    collided,   \* history: a row was restored at a key another member has
    refused     \* history: a landing was refused

scopeVars == <<entries, tombstones, operation, captured, spent, expected, collided, refused>>

ScopeInit ==
    /\ entries = <<>>
    /\ tombstones = {}
    /\ operation = [id \in Ids |-> "none"]
    /\ captured = [r \in Rows |-> NoBound]
    /\ spent = [landings |-> 0, arrivals |-> 0, calls |-> 0, failures |-> 0, kills |-> 0]
    /\ expected = <<>>
    /\ collided = FALSE
    /\ refused = FALSE

Spend(what, max) == spent[what] < max /\ spent' = [spent EXCEPT ![what] = @ + 1]

Open    == {id \in Ids : operation[id] \in {"pending", "failed"}}
Pending == {id \in Ids : operation[id] = "pending"}

-----------------------------------------------------------------------------
(* Sequences *)

(* The elements of a set, in the order of a relation on it. *)
Arranged(S, before) ==
    LET rank == [e \in S |-> Cardinality({d \in S : <<d, e>> \in before})]
    IN  [i \in 1 .. Cardinality(S) |-> CHOOSE e \in S : rank[e] = i - 1]

(* The elements of a sequence that are in a set. *)
Those(sequence, S) ==
    LET chosen[i \in 0 .. Len(sequence)] ==
            IF i = 0 THEN <<>>
            ELSE IF sequence[i] \in S THEN Append(chosen[i - 1], sequence[i])
            ELSE chosen[i - 1]
    IN  chosen[Len(sequence)]

-----------------------------------------------------------------------------
(* The value of the index *)

Entry(id, key) == [id |-> id, orderKey |-> key]
IdsOf(value)   == [i \in 1 .. Len(value) |-> value[i].id]
Members        == ToSet(IdsOf(entries))
Without(value, ids) == Those(value, {e \in ToSet(value) : e.id \notin ids})
TailKey(value) == IF value = <<>> THEN NoBound ELSE Last(value).orderKey
KeyOf(id)      == (CHOOSE e \in ToSet(entries) : e.id = id).orderKey

(* compareEntries; ids of one key stand in any fixed order. *)
RankOf == CHOOSE rank \in [Ids -> 1 .. Cardinality(Ids)] : IsInjective(rank)
Before(d, e) ==
    \/ Precedes(d.orderKey, e.orderKey)
    \/ d.orderKey = e.orderKey /\ RankOf[d.id] < RankOf[e.id]

(* A set of entries, sorted. *)
InOrder(members) == Arranged(members, {p \in members \X members : Before(p[1], p[2])})

(* isScopeIndexValue *)
IsScopeIndexValue(value) ==
    /\ \A e \in ToSet(value) : IsOrderKey(e.orderKey)
    /\ \A i, j \in 1 .. Len(value) :
        i < j => value[i].id # value[j].id /\ Precedes(value[i].orderKey, value[j].orderKey)

(* mergeByKey *)
Merged(value, incoming) ==
    InOrder({e \in ToSet(value) : \A i \in incoming : e.id # i.id} \cup incoming)

(* planScopePlacement: ids without keys go behind the last other member. *)
PlacedLast(value, ids) ==
    LET keys == KeysForSequence(Len(ids), TailKey(Without(value, ToSet(ids))), NoBound)
    IN  [i \in 1 .. Len(ids) |-> Entry(ids[i], keys[i])]

(* applyDelta; nothing validates what it makes. *)
Delta(append, detach) ==
    LET left == Without(entries, detach)
        pureAppend == /\ detach \cap Members = {}
                      /\ \A e \in append : /\ e.id \notin Members
                                          /\ Precedes(TailKey(left), e.orderKey)
    IN  IF pureAppend THEN left \o InOrder(append) ELSE Merged(left, append)

-----------------------------------------------------------------------------
(* reconcileNext *)

\* Mutated SameOrder: an answer with the same members changes nothing.
SameMembers(ids) == Members = ToSet(ids)

(* An answer with the members in their order leaves their keys alone. *)
SameOrder(ids) == IdsOf(entries) = ids

(* The first key between key and upper that no member has taken. *)
FreeKey(key, upper, taken) ==
    LET tried[k \in 0 .. Cardinality(taken)] ==
            IF k = 0 THEN key ELSE KeysForSequence(1, tried[k - 1], upper)[1]
    IN  tried[Min({k \in 0 .. Cardinality(taken) : tried[k] \notin taken})]

\* Mutated Complete: generated keys do not steer around the held rows.
CompleteOverHeld(rows, protected) ==
    LET held == {e \in ToSet(entries) : e.id \in protected \ ToSet(rows)}
        keys == KeysForSequence(Len(rows), NoBound, NoBound)
    IN  IF held = {} /\ SameOrder(rows) THEN entries
        ELSE InOrder(held \cup {Entry(rows[i], keys[i]) : i \in 1 .. Len(rows)})

(* A complete answer: rows of open operations that it lacks keep their     *)
(* keys, every other row gets a new one that steers around those.          *)
Complete(rows, protected) ==
    LET held  == {e \in ToSet(entries) : e.id \in protected \ ToSet(rows)}
        keys  == KeysForSequence(Len(rows), NoBound, NoBound)
        above(i) == IF i = Len(rows) THEN NoBound ELSE keys[i + 1]
        placed[i \in 0 .. Len(rows)] ==
            IF i = 0 THEN held
            ELSE placed[i - 1] \cup
                     {Entry(rows[i], FreeKey(keys[i], above(i), {e.orderKey : e \in placed[i - 1]}))}
    IN  IF held = {} /\ SameOrder(rows) THEN entries ELSE InOrder(placed[Len(rows)])

(* A page that resets the order: its rows before all others. *)
FirstPage(rows) ==
    LET rest == Without(entries, ToSet(rows))
        head == IF rest = <<>> THEN NoBound ELSE rest[1].orderKey
        keys == KeysForSequence(Len(rows), NoBound, head)
    IN  IF SameOrder(rows \o IdsOf(rest)) THEN entries
        ELSE [i \in 1 .. Len(rows) |-> Entry(rows[i], keys[i])] \o rest

(* Any other page: members keep their keys, the rest goes to the end. *)
NextPage(rows) ==
    entries \o PlacedLast(entries, Those(rows, Ids \ Members))

\* Mutated Trimmed: rows of open operations are trimmed like any other.
TrimmedAll(value, protected) == SubSeq(value, 1, Min({Len(value), MaxRows}))

(* trimValue: the first MaxRows rows stay, and all that are protected. *)
Trimmed(value, protected) ==
    LET before(i) == {j \in 1 .. i - 1 : value[j].id \notin protected}
        kept == {i \in 1 .. Len(value) : value[i].id \in protected \/ Cardinality(before(i)) < MaxRows}
    IN  IF Len(value) <= MaxRows THEN value
        ELSE Those(value, {value[i] : i \in kept})

-----------------------------------------------------------------------------
(* Answers of queries *)

(* What the server may send: tombstoned rows are dropped on landing, and   *)
(* the row of a draft exists once the draft was sent.                      *)
Payloads ==
    {rows \in BoundedSeq(Rows \ tombstones, MaxPage) :
        /\ IsInjective(rows)
        /\ \A d \in Drafts : operation[d] = "none" => ServerRow[d] \notin ToSet(rows)}

(* correlateIncomingRow: drafts an answer may be recognised as. *)
Correlated(rows) ==
    {d \in Open \cap Drafts : ServerRow[d] \in ToSet(rows) \ Members}

(* planApply: rows, swaps of the drafts they are, and the next value of    *)
(* the scope, which is refused as a whole unless it is valid.              *)
Land(next, order, swapped) ==
    LET value == Without(next, swapped) IN
    /\ Spend("landings", MaxLandings)
    /\ IF IsScopeIndexValue(next)
       THEN /\ entries' = value
            /\ operation' = [id \in Ids |-> IF id \in swapped THEN "committed" ELSE operation[id]]
            /\ expected' = Those(order, ToSet(IdsOf(value)))
            /\ UNCHANGED refused
       ELSE refused' = TRUE /\ UNCHANGED <<entries, operation, expected>>
    /\ UNCHANGED <<tombstones, captured, collided>>

(* The place of a row swapped for its draft is the one of the answer. *)
Behind(rows) == expected \o Those(rows, Ids \ Members)
Ahead(rows)  == rows \o Those(expected, Ids \ ToSet(rows))

LandComplete ==
    \E rows \in Payloads : \E swapped \in SUBSET Correlated(rows) :
        LET protected == Open \ swapped
        IN  Land(Trimmed(Complete(rows, protected), protected), rows, swapped)

LandFirstPage ==
    \E rows \in Payloads : \E swapped \in SUBSET Correlated(rows) :
        Land(Trimmed(FirstPage(rows), Open \ swapped), Ahead(rows), swapped)

LandNextPage ==
    \E rows \in Payloads : \E swapped \in SUBSET Correlated(rows) :
        Land(NextPage(rows), Behind(rows), swapped)

-----------------------------------------------------------------------------
(* Effects of writes: a row that belongs to the scope joins it *)

Joined(ids) == PlacedLast(entries, Those(ids, Ids \ Members))

(* An event with rows of the scope; it wins over their tombstones. *)
Arrive ==
    \E rows \in BoundedSeq(Rows, MaxPage) :
        /\ rows # <<>> /\ IsInjective(rows)
        /\ \A d \in Drafts : operation[d] = "none" => ServerRow[d] \notin ToSet(rows)
        /\ Spend("arrivals", MaxArrivals)
        /\ entries' = Delta(ToSet(Joined(rows)), {})
        /\ tombstones' = tombstones \ ToSet(rows)
        /\ expected' = Behind(rows)
        /\ UNCHANGED <<operation, captured, collided, refused>>

(* An optimistic insert. *)
Insert ==
    \E d \in Drafts :
        /\ operation[d] = "none"
        /\ Spend("calls", MaxCalls)
        /\ entries' = Delta(ToSet(Joined(<<d>>)), {})
        /\ operation' = [operation EXCEPT ![d] = "pending"]
        /\ expected' = Append(expected, d)
        /\ UNCHANGED <<tombstones, captured, collided, refused>>

(* planReplace, by the response or an event recognised as the draft:       *)
(* the server row takes the key of the draft, unless it has been deleted.  *)
Confirm ==
    \E d \in Open \cap Drafts :
        LET r == ServerRow[d]
            swap == IF r \in tombstones \/ d \notin Members THEN {} ELSE {Entry(r, KeyOf(d))}
            join == IF d \in Members \/ r \in tombstones THEN <<>> ELSE Joined(<<r>>)
            others == Those(expected, {id \in Ids : id # r \/ (swap = {} /\ r \in Members)})
        IN  /\ operation[d] = "pending" \/ r \notin Members
            /\ entries' = Delta(swap \cup ToSet(join), {d})
            /\ operation' = [operation EXCEPT ![d] = "committed"]
            /\ expected' = IF swap = {}
                           THEN Those(others, Ids \ {d}) \o IdsOf(join)
                           ELSE [i \in 1 .. Len(others) |-> IF others[i] = d THEN r ELSE others[i]]
            /\ UNCHANGED <<tombstones, captured, spent, collided, refused>>

(* The insert fails: its draft stays, to be retried or discarded. *)
InsertFails ==
    \E d \in Pending \cap Drafts :
        /\ Spend("failures", MaxFailures)
        /\ operation' = [operation EXCEPT ![d] = "failed"]
        /\ UNCHANGED <<entries, tombstones, captured, expected, collided, refused>>

Leave(ids) ==
    /\ entries' = Delta({}, ids)
    /\ expected' = Those(expected, Ids \ ids)

(* retry of a failed insert; a failed destroy is called again. *)
Retry ==
    \E d \in Drafts :
        /\ operation[d] = "failed"
        /\ Spend("calls", MaxCalls)
        /\ operation' = [operation EXCEPT ![d] = "pending"]
        /\ UNCHANGED <<entries, tombstones, captured, expected, collided, refused>>

Discard ==
    \E id \in Ids :
        /\ operation[id] = "failed"
        /\ Leave({id} \cap Drafts)
        /\ operation' = [operation EXCEPT ![id] = IF id \in Drafts THEN "discarded" ELSE "none"]
        /\ UNCHANGED <<tombstones, captured, spent, collided, refused>>

(* A deletion by another client. *)
Depart ==
    \E r \in Rows \cap Members :
        /\ Spend("arrivals", MaxArrivals)
        /\ Leave({r})
        /\ tombstones' = tombstones \cup {r}
        /\ UNCHANGED <<operation, captured, collided, refused>>

(* An optimistic destroy notes the key of the row. *)
Destroy ==
    \E r \in Rows \cap Members :
        /\ operation[r] \in {"none", "failed"}
        /\ Spend("calls", MaxCalls)
        /\ Leave({r})
        /\ captured' = [captured EXCEPT ![r] = KeyOf(r)]
        /\ operation' = [operation EXCEPT ![r] = "pending"]
        /\ tombstones' = tombstones \cup {r}
        /\ UNCHANGED <<collided, refused>>

DestroyConfirmed ==
    \E r \in Pending \cap Rows :
        /\ operation' = [operation EXCEPT ![r] = "none"]
        /\ captured' = [captured EXCEPT ![r] = NoBound]
        /\ UNCHANGED <<entries, tombstones, spent, expected, collided, refused>>

(* planRestore: the rows are back where they were. *)
Restored(value, rows) == Merged(value, {Entry(r, captured[r]) : r \in rows})

Collides(value, rows) ==
    \/ \E r \in rows, e \in ToSet(value) : e.id \notin rows /\ e.orderKey = captured[r]
    \/ \E q, r \in rows : q # r /\ captured[q] = captured[r]

RollBack(value, rows) ==
    /\ entries' = Restored(value, rows)
    /\ collided' = (collided \/ Collides(value, rows))
    /\ tombstones' = tombstones \ rows
    /\ captured' = [r \in Rows |-> IF r \in rows THEN NoBound ELSE captured[r]]

DestroyFails ==
    \E r \in Pending \cap Rows :
        /\ Spend("failures", MaxFailures)
        /\ RollBack(entries, {r})
        /\ operation' = [operation EXCEPT ![r] = "failed"]
        /\ expected' = Those(expected, Ids \ {r})
        /\ UNCHANGED refused

(* A kill and the next start: hydrate drops a value that is not valid, and *)
(* closeCrashedRequests ends open requests as failures do.                 *)
Restart ==
    LET read == IF IsScopeIndexValue(entries) THEN entries ELSE <<>>
        destroyed == Pending \cap Rows
    IN  /\ Spend("kills", MaxKills)
        /\ RollBack(read, destroyed)
        /\ operation' = [id \in Ids |-> IF id \in Pending THEN "failed" ELSE operation[id]]
        /\ expected' = Those(expected, ToSet(IdsOf(read)) \ destroyed)
        /\ UNCHANGED refused

ScopeNext ==
    \/ LandComplete \/ LandFirstPage \/ LandNextPage
    \/ Arrive \/ Depart
    \/ Insert \/ Confirm \/ InsertFails \/ Retry \/ Discard
    \/ Destroy \/ DestroyConfirmed \/ DestroyFails
    \/ Restart

ScopeSpec == ScopeInit /\ [][ScopeNext]_scopeVars
============================================================================
