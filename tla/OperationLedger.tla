-------------------------- MODULE OperationLedger --------------------------
(***************************************************************************)
(* The life of an optimistic insert: the operation ledger                  *)
(* (core/planes/operationState.ts), the actions that move it               *)
(* (dsl/facadeActions.ts), the correlation of incoming server rows with    *)
(* the temporary row they are the answer to (dsl/mutationCorrelation.ts,   *)
(* dsl/modelWrites.ts) and the boot pass that closes what a kill left open *)
(* (core/bootFsck.ts).                                                     *)
(*                                                                         *)
(* Operations are numbered in the order they begin.  Row <<o, 0>> is the   *)
(* temporary row of operation o, row <<o, n>> the row the server made of   *)
(* its n-th request.  The ledger and the rows are each durable once        *)
(* written (module DeltaLog); a commit writes the ledger first, so a kill  *)
(* in between tears it: the ledger moves and the rows do not.              *)
(*                                                                         *)
(* Not here: rollback of patches and destroys, tombstones, causal          *)
(* admission, and writes the storage refuses.                              *)
(***************************************************************************)
EXTENDS Integers, FiniteSets

CONSTANTS
    NumOps,      \* the calls are numbered 1 .. NumOps
    Programs,    \* which of the calls are made: one of these sets, in their order
    KindOf,      \* "insert" (request with an optimistic row), "durable" (insert), or
                 \* "tracked" (request under a key, whose rows are not of interest here)
    KeyOf,       \* the idempotency key of a call
    OnceKeys,    \* keys declared once
    Correlated,  \* calls whose action declares a correlator
    Alike,       \* every two drafts satisfy each other's correlator
    MaxSends     \* bound on the requests of one operation

Ops == 1 .. NumOps
Keys == {KeyOf[o] : o \in Ops}
Kinds == {"insert", "tracked", "durable"}

ASSUME CallAssumption ==
    /\ NumOps \in Nat \ {0}
    /\ KindOf \in [Ops -> Kinds]
    /\ Programs \subseteq SUBSET Ops
    /\ DOMAIN KeyOf = Ops
    /\ OnceKeys \subseteq Keys
    /\ Correlated \subseteq {o \in Ops : KindOf[o] # "tracked"}
    /\ Alike \in BOOLEAN
ASSUME BoundAssumption == MaxSends \in Nat \ {0}

VARIABLES
    (* the storage *)
    ledger,       \* status of every operation
    onceKeys,     \* committedKeys
    rows,         \* the rows a boot recovers: while running, also the rows in memory
    rowKeys,      \* the rows that have a snapshot key; the others are only in deltas
    (* the process *)
    running,
    pendingKeys,  \* the index hasPending reads
    flight,       \* operations whose execution awaits the transport
    (* the server and the wire *)
    sent,         \* requests sent per operation
    wire,         \* requests the server has not settled
    accepted,     \* requests the server turned into a row
    (* history *)
    torn          \* operations a commit of which a kill has torn and no boot repairs

storage == <<ledger, onceKeys, rows, rowKeys>>
process == <<running, pendingKeys, flight>>
server  == <<sent, wire, accepted>>
vars    == <<storage, process, server, torn>>

Temp(o)     == <<o, 0>>
Latest(o)   == <<o, sent[o]>>
HasRow(o)   == KindOf[o] # "tracked"
Request(o)  == KindOf[o] # "durable"
Open        == {"pending", "failed", "delivery_unknown"}
Statuses    == Open \cup {"uncalled", "absent", "committed", "rolledback"}
TempRow(o)  == IF HasRow(o) THEN {Temp(o)} ELSE {}

Init ==
    /\ \E calls \in Programs :
           ledger = [o \in Ops |-> IF o \in calls THEN "uncalled" ELSE "absent"]
    /\ onceKeys = {}
    /\ rows = {}
    /\ rowKeys = {}
    /\ running = TRUE
    /\ pendingKeys = {}
    /\ flight = {}
    /\ sent = [o \in Ops |-> 0]
    /\ wire = {}
    /\ accepted = {}
    /\ torn = {}

-----------------------------------------------------------------------------
(* One commit: statuses is what the ledger holds afterwards, store the     *)
(* rows, keys the pending index.  A torn commit is the end of the process; *)
(* ops are the operations it leaves half written.                          *)
Lands(store, keys) ==
    /\ rows' = store
    /\ pendingKeys' = keys
    /\ UNCHANGED <<running, torn>>

Dies(ops) ==
    /\ running' = FALSE
    /\ pendingKeys' = {}
    /\ flight' = {}
    /\ torn' = torn \cup ops
    /\ UNCHANGED rows

\* Mutated OnceKept: a kept key replaces the keys kept before.
OnceKeptLast(ops) == {KeyOf[o] : o \in ops} \cap OnceKeys

\* Closing as committed keeps the key of a call declared once.
OnceKept(ops) == onceKeys \cup ({KeyOf[o] : o \in ops} \cap OnceKeys)

\* Closing takes the key out of the index; a durable operation has none.
KeysWithout(ops) == pendingKeys \ {KeyOf[o] : o \in {p \in ops : Request(p)}}

Send(o) ==
    /\ sent' = [sent EXCEPT ![o] = @ + 1]
    /\ wire' = wire \cup {<<o, sent[o] + 1>>}
    /\ UNCHANGED accepted

-----------------------------------------------------------------------------
(* The calls of the application. *)

Callable(o) ==
    /\ running
    /\ ledger[o] = "uncalled"
    /\ \A p \in Ops : p < o => ledger[p] # "uncalled"

\* run returns null for a key that is pending, or declared once and committed.
Deduped(o) ==
    \/ KeyOf[o] \in OnceKeys /\ KeyOf[o] \in onceKeys
    \/ KeyOf[o] \in pendingKeys

\* run: the optimistic row and the begin in one commit, then the request.
Run(o) ==
    /\ Callable(o)
    /\ Request(o)
    /\ ~ Deduped(o)
    /\ ledger' = [ledger EXCEPT ![o] = "pending"]
    /\ \/ /\ Lands(rows \cup TempRow(o), pendingKeys \cup {KeyOf[o]})
          /\ flight' = flight \cup {o}
          /\ Send(o)
       \/ /\ HasRow(o)
          /\ Dies({})
          /\ UNCHANGED server
    /\ UNCHANGED <<onceKeys, rowKeys>>

RunDeduped(o) ==
    /\ Callable(o)
    /\ Request(o)
    /\ Deduped(o)
    /\ ledger' = [ledger EXCEPT ![o] = "absent"]
    /\ UNCHANGED <<onceKeys, rows, rowKeys, process, server, torn>>

\* start: as run, without a request.
Start(o) ==
    /\ Callable(o)
    /\ ~ Request(o)
    /\ ledger' = [ledger EXCEPT ![o] = "pending"]
    /\ \/ Lands(rows \cup {Temp(o)}, pendingKeys) /\ UNCHANGED flight
       \/ Dies({o})
    /\ UNCHANGED <<onceKeys, rowKeys, server>>

\* execute of a handle: one execution at a time, and none of unknown delivery.
Executable(o) == ledger[o] \in {"pending", "failed"}

Execute(o) ==
    /\ running
    /\ ~ Request(o)
    /\ Executable(o)
    /\ o \notin flight
    /\ sent[o] < MaxSends
    /\ ledger' = [ledger EXCEPT ![o] = "pending"]
    /\ flight' = flight \cup {o}
    /\ Send(o)
    /\ UNCHANGED <<onceKeys, rows, rowKeys, running, pendingKeys, torn>>

\* retry: begins the same operation again and asks neither hasPending nor hasCommitted.
Retry(o) ==
    /\ running
    /\ KindOf[o] = "insert"
    /\ ledger[o] = "failed"
    /\ sent[o] < MaxSends
    /\ ledger' = [ledger EXCEPT ![o] = "pending"]
    /\ \/ /\ Lands(rows \cup {Temp(o)}, pendingKeys \cup {KeyOf[o]})
          /\ flight' = flight \cup {o}
          /\ Send(o)
       \/ /\ Dies({})
          /\ UNCHANGED server
    /\ UNCHANGED <<onceKeys, rowKeys>>

\* discard of a failed or unknown insert, cancel of an open durable operation.
Drop(o) ==
    /\ running
    /\ HasRow(o)
    /\ ledger[o] \in (IF Request(o) THEN {"failed", "delivery_unknown"} ELSE Open)
    /\ ledger' = [ledger EXCEPT ![o] = "absent"]
    /\ \/ Lands(rows \ {Temp(o)}, pendingKeys) /\ UNCHANGED flight
       \/ Dies({o})
    /\ UNCHANGED <<onceKeys, rowKeys, server>>

-----------------------------------------------------------------------------
(* Correlation of a server row with the draft it is the answer to. *)

\* Mutated Candidates: only operations still pending are considered.
CandidatesPending(r) ==
    {c \in Correlated : ledger[c] = "pending" /\ Temp(c) \in rows /\ (Alike \/ c = r[1])}

\* The open inserts with a temporary row that the server row matches.
Candidates(r) ==
    {c \in Correlated : ledger[c] \in Open /\ Temp(c) \in rows /\ (Alike \/ c = r[1])}

\* correlateIncomingRow: the oldest candidate, and none for a row already there.
Claimed(r) ==
    {c \in Candidates(r) : r \notin rows /\ \A d \in Candidates(r) : c <= d}

\* planReplace: a pending operation is committed, a failed one removed, an unknown one left.
Correlate(drafts) ==
    [o \in Ops |-> CASE o \in drafts /\ ledger[o] = "pending" -> "committed"
                     [] o \in drafts /\ ledger[o] = "failed"  -> "absent"
                     [] OTHER                                 -> ledger[o]]

\* Mutated Replaced: only the destroy leg is planned.
ReplacedByNothing(drafts, r) == rows \ {Temp(o) : o \in drafts}

\* The server row in place of the drafts.
Replaced(drafts, r) == (rows \ {Temp(o) : o \in drafts}) \cup {r}

-----------------------------------------------------------------------------
(* The transport settles an execution. *)

\* currentRequestRecord and currentRecord: may the execution still move its operation?
Active(o) == ledger[o] \in (IF Request(o) THEN {"pending"} ELSE Open)

\* A response whose operation something else has settled is dropped.
AnswerDropped(o) ==
    /\ running
    /\ o \in flight
    /\ ~ Active(o)
    /\ flight' = flight \ {o}
    /\ UNCHANGED <<storage, running, pendingKeys, server, torn>>

\* The response replaces the call's own draft.
Answer(o) ==
    /\ running
    /\ o \in flight
    /\ Active(o)
    /\ Latest(o) \in accepted
    /\ ledger' = [ledger EXCEPT ![o] = "committed"]
    /\ onceKeys' = OnceKept({o})
    /\ \/ /\ Lands(IF HasRow(o) THEN Replaced({o}, Latest(o)) ELSE rows, KeysWithout({o}))
          /\ flight' = flight \ {o}
       \/ HasRow(o) /\ Dies({o})
    /\ UNCHANGED <<rowKeys, server>>

Settled(o, status) ==
    /\ ledger' = [ledger EXCEPT ![o] = status]
    /\ pendingKeys' = KeysWithout({o})
    /\ flight' = flight \ {o}
    /\ UNCHANGED <<onceKeys, rows, rowKeys, running, sent, accepted>>

\* planRequestFailureRollback: with a row to show, the call can be retried.
Failure(o) == IF HasRow(o) THEN "failed" ELSE "rolledback"

\* The transport reports an error: the server has not taken the request.
AnswerError(o) ==
    /\ running
    /\ o \in flight
    /\ Active(o)
    /\ Latest(o) \in wire
    /\ wire' = wire \ {Latest(o)}
    /\ Settled(o, Failure(o))
    /\ UNCHANGED torn

\* The server has taken it, but its payload is missing or cannot be planned.
AnswerUnusable(o) ==
    /\ running
    /\ o \in flight
    /\ Active(o)
    /\ Latest(o) \in accepted
    /\ Settled(o, Failure(o))
    /\ UNCHANGED <<wire, torn>>

\* MutationDeliveryUnknownError.
AnswerUnknown(o) ==
    /\ running
    /\ o \in flight
    /\ Active(o)
    /\ Settled(o, "delivery_unknown")
    /\ UNCHANGED <<wire, torn>>

-----------------------------------------------------------------------------
(* The server, external to the code. *)

\* The server takes a request and makes a row of it; a lost request stays on the wire.
Accept(r) ==
    /\ wire' = wire \ {r}
    /\ accepted' = accepted \cup {r}
    /\ UNCHANGED <<storage, process, sent, torn>>

\* A subscription event or a fetch brings a server row that is not in the store.
Incoming(r) ==
    LET drafts == Claimed(r)
        closed == {c \in drafts : ledger[c] = "pending"}
    IN
    /\ running
    /\ r \in accepted \ rows
    /\ HasRow(r[1])
    /\ ledger' = Correlate(drafts)
    /\ onceKeys' = OnceKept(closed)
    /\ \/ Lands(Replaced(drafts, r), KeysWithout(closed)) /\ UNCHANGED flight
       \/ ledger' # ledger /\ Dies(drafts)
    /\ UNCHANGED <<rowKeys, server>>

-----------------------------------------------------------------------------
\* flushCacheSnapshots: every row gets its snapshot key, see DeltaLog.
Flush ==
    /\ running
    /\ rowKeys' = rows
    /\ UNCHANGED <<ledger, onceKeys, rows, process, server, torn>>

Kill ==
    /\ running
    /\ Dies({})
    /\ UNCHANGED <<ledger, onceKeys, rowKeys, server>>

\* Mutated Crashed: only operations with a row are closed at boot.
CrashedWithRow == {o \in Ops : KindOf[o] = "insert" /\ ledger[o] = "pending" /\ Temp(o) \in rows}

\* The requests a kill interrupted.
Crashed == {o \in Ops : Request(o) /\ ledger[o] = "pending"}

(* runBootFsck: one commit closes the crashed requests and rebuilds the    *)
(* temporary rows they lack; then the temporary rows that have a snapshot  *)
(* key and no open operation are destroyed.                                *)
Boot ==
    LET statuses == [o \in Ops |-> IF o \in Crashed THEN Failure(o) ELSE ledger[o]]
        rebuilt  == UNION {TempRow(o) : o \in Crashed}
        orphans  == {Temp(o) : o \in {p \in Ops : statuses[p] \notin Open}} \cap rowKeys
    IN
    /\ ~ running
    /\ ledger' = statuses
    /\ \/ /\ running' = TRUE
          /\ rows' = (rows \cup rebuilt) \ orphans
          /\ UNCHANGED <<pendingKeys, flight, torn>>
       \/ Crashed # {} /\ Dies(Crashed)
    /\ UNCHANGED <<onceKeys, rowKeys, server>>

-----------------------------------------------------------------------------
Call(o) == Run(o) \/ RunDeduped(o) \/ Start(o) \/ Execute(o) \/ Retry(o) \/ Drop(o)

Settle(o) ==
    Answer(o) \/ AnswerDropped(o) \/ AnswerError(o) \/ AnswerUnusable(o) \/ AnswerUnknown(o)

Next ==
    \/ \E o \in Ops : Call(o) \/ Settle(o)
    \/ \E r \in wire : Accept(r)
    \/ \E r \in accepted : Incoming(r)
    \/ Flush
    \/ Kill
    \/ Boot

Spec == Init /\ [][Next]_vars

(* The transport settles every request it was given, with a response or an *)
(* error, and a killed application is started again.                       *)
Fairness ==
    /\ \A o \in Ops : WF_vars(Settle(o))
    /\ WF_vars(Boot)

FairSpec == Spec /\ Fairness

=============================================================================
