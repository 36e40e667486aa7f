--------------------------- MODULE QueryFreshness ---------------------------
(***************************************************************************)
(* One bucket of a remote relation (dsl/defineQuery.ts): the chain of      *)
(* pages held by react-query, the requests in the air, the calls that wait *)
(* for them, and the record on disk with its invalidation mark             *)
(* (core/queryPersistence.ts, core/fetch/persistedBucket.ts), under        *)
(* invalidations, refreshes, next pages, rows destroyed by other commits   *)
(* (core/fetch/fetchReaderRegistry.ts), kills and resets.                  *)
(*                                                                         *)
(* A landing and the continuations of the calls that waited for it run in  *)
(* one turn of the event loop, so they are one step.  Of a page only its   *)
(* rows count: page p holds row p.  The window of the query is finite and  *)
(* positive, the others are never stored; a chain may be too old at any    *)
(* time.  Connectivity is up: offline, `run' and the observer only wait.   *)
(***************************************************************************)
EXTENDS Integers, FiniteSets, Sequences, FiniteSetsExt

CONSTANTS
    Pages,        \* the pages the server has
    MaxStarts,    \* bound on the fetches, refreshes, next pages, scheduled and resumed fetches
    MaxTold,      \* bound on the invalidations
    MaxFailures,  \* bound on the failed requests
    MaxKills,     \* bound on the kills and resets
    MaxGone       \* bound on the rows destroyed

ASSUME PagesAssumption == Pages \in Nat \ {0}
ASSUME BoundAssumption ==
    /\ MaxStarts \in Nat /\ MaxTold \in Nat /\ MaxFailures \in Nat
    /\ MaxKills \in Nat /\ MaxGone \in Nat

VARIABLES
    memory,       \* what the process knows of the bucket; `told' counts the invalidations
    strays,       \* cancelled requests still in the air
    disk,         \* the record, its mark, the revision of the family, and the rows
    reconciling,  \* the query is registered in `reconcilers'
    (* bounds and history *)
    spent,
    lapses,       \* "overtaken": a call stamped the cached chain in the place of an answer that
                  \* gave way to a later one; "reverted": a cancelled fetch undid a flag
    excused,      \* no mounted reader waits for the last invalidation to be served
    late          \* rows whose loss was dropped because a fetch was in the air

vars == <<memory, strays, disk, reconciling, spent, lapses, excused, late>>

(* A chain: its rows and pages, and how many invalidations had been told   *)
(* when its first page and its last landing were asked for.                *)
NoChain == [ids |-> {}, pages |-> 0, first |-> 0, last |-> 0]
HasMore(chain) == chain.pages > 0 /\ chain.pages < Pages

(* A request in the air.  `page' is 0 for the first page; `got' is what an *)
(* observer's earlier rounds have brought.                                 *)
NoFlight == [by |-> "nobody"]
Request(by, page, issued, m, d, got, before) ==
    [by |-> by, page |-> page, issued |-> issued, seq |-> m.seq, revision |-> d.mark,
     asked |-> m.told, ids |-> {page + 1} \ d.gone, got |-> got, before |-> before]

NoRecord == [chain |-> NoChain, invalidated |-> FALSE, revision |-> 0]
Started == [registered |-> FALSE, mounted |-> FALSE, seq |-> 0, issued |-> 0, applied |-> 0,
            revisionAt |-> -1, chain |-> NoChain, invalidated |-> FALSE, failed |-> FALSE,
            flight |-> NoFlight, waiting |-> <<>>, dirty |-> FALSE, unjudged |-> {}, told |-> 0]
Blank == [record |-> NoRecord, mark |-> 0, revision |-> 0, landed |-> {}, gone |-> {}]

Init ==
    /\ memory = Started /\ strays = {} /\ disk = Blank /\ reconciling = TRUE
    /\ spent = [starts |-> 0, told |-> 0, failures |-> 0, kills |-> 0]
    /\ lapses = {} /\ excused = TRUE /\ late = {}

Spend(what, max) == spent[what] < max /\ spent' = [spent EXCEPT ![what] = @ + 1]

-----------------------------------------------------------------------------
(* Storage: writePersistedQuery writes the record and takes the mark away  *)
(* when the record is at least as recent.                                  *)
Written(d, chain, invalidated, revision) ==
    [d EXCEPT !.record = [chain |-> chain, invalidated |-> invalidated, revision |-> revision],
              !.mark = IF @ <= revision THEN 0 ELSE @]

(* persist without a revision: the one of the observer's last fetch, else  *)
(* the mark of now.                                                        *)
Persisted(m, d) == Written(d, m.chain, m.invalidated, IF m.revisionAt >= 0 THEN m.revisionAt ELSE d.mark)

(* The calls that got a result and no invalidation since they began store  *)
(* the chain one after the other: the last one's revision stays.           *)
Served(calls, m) == {i \in DOMAIN calls : calls[i].seq = m.seq}

PersistedBy(calls, m, d) ==
    LET served == Served(calls, m) IN
    IF served = {} THEN d
    ELSE [Written(d, m.chain, m.invalidated, calls[Max(served)].revision) EXCEPT
              !.mark = IF \E i \in served : d.mark <= calls[i].revision THEN 0 ELSE d.mark]

-----------------------------------------------------------------------------
(* run, up to its await: join the fetch in the air or start one.           *)
Call(m, d) == [seq |-> m.seq, revision |-> d.mark]

Start(m, d, page) ==
    LET issued == IF page = 0 THEN m.issued + 1 ELSE m.issued IN
    [m EXCEPT !.issued = issued,
              !.flight = Request("run", page, issued, m, d, NoChain, m.invalidated),
              !.waiting = <<Call(m, d)>>]

Run(m, d) ==
    IF m.flight = NoFlight THEN Start(m, d, 0)
    ELSE [m EXCEPT !.waiting = Append(@, Call(m, d))]

(* The calls that an invalidation outran: mark again and run once more.    *)
\* Mutated Outrun: run does not compare the sequence after its await.
OutrunNobody(calls, m) == {}

Outrun(calls, m) == {i \in DOMAIN calls : calls[i].seq # m.seq}

\* Mutated Flagged: an outrun call runs again without restoring the mark.
FlaggedNever(calls, m) == m

Flagged(calls, m) == IF Outrun(calls, m) = {} THEN m ELSE [m EXCEPT !.invalidated = TRUE]

(* The first of them starts a fetch where none is in the air, the others   *)
(* join it.                                                                *)
\* Mutated Again: an outrun call restores the mark and leaves it at that.
AgainNever(calls, m, d) == m

Again(calls, m, d) ==
    LET others == 1 .. Cardinality(Outrun(calls, m)) - 1 IN
    IF Outrun(calls, m) = {} THEN m
    ELSE [Run(m, d) EXCEPT !.waiting = @ \o [i \in others |-> Call(m, d)]]

(* What follows a settled fetch: the continuations of `calls'.             *)
Continue(calls, m, d) ==
    \E flagged \in {Flagged(calls, m)} : \E stored \in {PersistedBy(calls, flagged, d)} :
        /\ memory' = Again(calls, flagged, stored)
        /\ disk' = stored

-----------------------------------------------------------------------------
(* judgeChain: drop what is no longer materialized, mark and store the     *)
(* rest, and let a mounted reader fetch again when nothing is left.        *)
\* Mutated Judged: a chain that keeps a row is left as it is.
JudgedWhole(m, d) ==
    IF m.chain.ids \subseteq d.gone
    THEN LET left == [m EXCEPT !.chain.ids = {}, !.invalidated = TRUE, !.failed = FALSE] IN
         [memory |-> left, disk |-> Persisted(left, d)]
    ELSE [memory |-> m, disk |-> d]

Judged(m, d) ==
    LET ids    == m.chain.ids \ d.gone
        left   == [m EXCEPT !.chain.ids = ids, !.invalidated = TRUE, !.failed = FALSE]
        stored == Persisted(left, d)
    IN  IF ids = m.chain.ids THEN [memory |-> m, disk |-> d]
        ELSE [memory |-> IF ids = {} /\ m.mounted THEN Run(left, stored) ELSE left, disk |-> stored]

-----------------------------------------------------------------------------
(* use and read: register the scope and restore the record, without the    *)
(* rows that are gone.                                                     *)
Restored ==
    LET record == disk.record
        ids    == record.chain.ids \intersect (disk.landed \ disk.gone)
        lost   == ids # record.chain.ids
        chain  == [record.chain EXCEPT !.ids = ids]
        marked == record.invalidated \/ disk.mark > record.revision \/ lost
    IN  IF memory.chain # NoChain \/ record = NoRecord
        THEN memory' = [memory EXCEPT !.registered = TRUE] /\ UNCHANGED disk
        ELSE /\ memory' = [memory EXCEPT !.registered = TRUE, !.chain = chain, !.invalidated = marked]
             /\ disk' = IF lost THEN Written(disk, chain, marked, record.revision) ELSE disk

Read ==
    /\ ~memory.registered \/ (memory.chain = NoChain /\ disk.record # NoRecord)
    /\ Restored
    /\ UNCHANGED <<strays, reconciling, spent, lapses, excused, late>>

(* A reader mounts after its read and may persist what it finds; it also   *)
(* unmounts.                                                               *)
Ready == memory.registered /\ (memory.chain # NoChain \/ disk.record = NoRecord)

Mount ==
    /\ Ready /\ ~memory.mounted
    /\ memory' = [memory EXCEPT !.mounted = TRUE, !.dirty = memory.chain # NoChain]
    /\ UNCHANGED <<strays, disk, reconciling, spent, lapses, excused, late>>

Unmount ==
    /\ memory.mounted
    /\ memory' = [memory EXCEPT !.mounted = FALSE, !.dirty = FALSE]
    /\ excused' = TRUE
    /\ UNCHANGED <<strays, disk, reconciling, spent, lapses, late>>

(* The reader's effect that follows dataUpdatedAt.                         *)
Follow ==
    /\ memory.dirty
    /\ memory' = [memory EXCEPT !.dirty = FALSE]
    /\ disk' = Persisted(memory, disk)
    /\ UNCHANGED <<strays, reconciling, spent, lapses, excused, late>>

(* fetch: a fresh chain answers by itself, also while a fetch is in the    *)
(* air, and is stored again.                                               *)
Fetch ==
    /\ Ready /\ Spend("starts", MaxStarts)
    /\ \/ memory' = Run(memory, disk) /\ UNCHANGED disk
       \/ /\ memory.chain # NoChain /\ ~memory.invalidated
          /\ disk' = PersistedBy(<<Call(memory, disk)>>, memory, disk) /\ UNCHANGED memory
    /\ UNCHANGED <<strays, reconciling, lapses, excused, late>>

(* fetchNextPage of a reader: not while anything is in the air.            *)
NextPage ==
    /\ memory.mounted /\ memory.flight = NoFlight /\ HasMore(memory.chain)
    /\ Spend("starts", MaxStarts)
    /\ memory' = Start(memory, disk, memory.chain.pages)
    /\ UNCHANGED <<strays, disk, reconciling, lapses, excused, late>>

(* The observer's own fetch: on mounting, reconnecting or every window.    *)
Scheduled ==
    /\ memory.mounted /\ memory.flight = NoFlight /\ Spend("starts", MaxStarts)
    /\ memory' = [memory EXCEPT
           !.issued = @ + 1,
           !.flight = Request("observer", 0, memory.issued + 1, memory, disk, NoChain, memory.invalidated)]
    /\ UNCHANGED <<strays, disk, reconciling, lapses, excused, late>>

(* refresh: cancel the fetch in the air, which puts the flag back to what  *)
(* it was, and start another.  The call that had started the cancelled one *)
(* goes on with the cached chain, or ends; those that had joined it end.   *)
Refresh ==
    /\ Ready /\ Spend("starts", MaxStarts)
    /\ LET flight == memory.flight
           free   == [memory EXCEPT
                        !.flight = NoFlight, !.waiting = <<>>, !.unjudged = {},
                        !.invalidated = IF flight = NoFlight THEN @ ELSE flight.before]
           judged == IF memory.failed /\ memory.unjudged # {} THEN Judged(free, disk)
                     ELSE [memory |-> free, disk |-> disk]
           ours   == Run(judged.memory, judged.disk)
           opener == IF flight.by = "run" THEN <<Head(memory.waiting)>> ELSE <<>>
       IN  /\ \/ memory' = ours /\ disk' = judged.disk
              \/ opener # <<>> /\ memory.chain # NoChain /\ Continue(opener, ours, judged.disk)
           /\ strays' = IF flight = NoFlight THEN strays ELSE strays \union {flight}
           /\ lapses' = IF memory.invalidated /\ ~free.invalidated
                        THEN lapses \union {"reverted"} ELSE lapses
           /\ late' = IF memory.failed THEN late ELSE late \union memory.unjudged
    /\ UNCHANGED <<reconciling, excused>>

-----------------------------------------------------------------------------
(* The supersession gate of execute, and what an admitted answer makes of  *)
(* the chain.  The first page after a restart is number one: a next page   *)
(* of a restored chain that comes before it has none, which no comparison  *)
(* finds older.                                                            *)
Outdated(f, m) ==
    IF f.page = 0 THEN f.issued < m.applied ELSE f.issued # 0 /\ f.issued < m.issued

Landed(f, m) ==
    IF f.page = 0 THEN [ids |-> f.ids, pages |-> 1, first |-> f.asked, last |-> f.asked]
    ELSE [ids |-> m.chain.ids \union f.ids, pages |-> m.chain.pages + 1,
          first |-> m.chain.first, last |-> f.asked]

(* A request is answered: the rows are committed, and a first page shows   *)
(* which request was the last to land.                                     *)
Stored(f, m, d) ==
    IF Outdated(f, m) THEN d ELSE [d EXCEPT !.landed = @ \union (f.ids \ d.gone)]

(* A call that was overtaken returns what is cached.                       *)
Overtaken(f) == IF Outdated(f, memory) THEN lapses \union {"overtaken"} ELSE lapses

Applied(f, m) ==
    IF Outdated(f, m) \/ f.page # 0 THEN m ELSE [m EXCEPT !.applied = f.issued]

(* react-query takes the result of the fetch: the flag is cleared and what *)
(* was to be judged again is forgotten.                                    *)
Settled(m, chain) ==
    [m EXCEPT !.chain = chain, !.invalidated = FALSE, !.failed = FALSE, !.flight = NoFlight,
              !.waiting = <<>>, !.unjudged = {}, !.dirty = m.mounted]

(* The answer to the fetch that a call started.                            *)
Answered ==
    LET f == memory.flight  m == Applied(f, memory)
        got == IF Outdated(f, memory) THEN m.chain ELSE Landed(f, m)
    IN
    /\ f.by = "run" /\ got # NoChain
    /\ Continue(m.waiting, Settled(m, got), Stored(f, memory, disk))
    /\ lapses' = Overtaken(f) \ (IF Outdated(f, memory) THEN {} ELSE {"reverted"})
    /\ late' = late \union memory.unjudged
    /\ UNCHANGED <<strays, reconciling, spent, excused>>

(* An overtaken answer with nothing cached: the calls end with no result.  *)
Nothing ==
    LET f == memory.flight IN
    /\ f.by = "run" /\ Outdated(f, memory) /\ memory.chain = NoChain
    /\ memory' = [memory EXCEPT !.flight = NoFlight, !.waiting = <<>>, !.unjudged = {},
                                !.failed = TRUE, !.invalidated = TRUE]
    /\ excused' = TRUE
    /\ late' = late \union memory.unjudged
    /\ UNCHANGED <<strays, disk, reconciling, spent, lapses>>

(* The observer reads again while an invalidation has outrun its request.  *)
ReadsAgain(f, m) == m.seq # f.seq

(* Its next round, which keeps what it has got.                            *)
Round(f, m, d) ==
    LET got == IF Outdated(f, m) THEN f.got ELSE Landed(f, m) IN
    Request("observer", 0, m.issued + 1, m, d, got, f.before)

ObserverAnswered ==
    LET f == memory.flight  m == Applied(f, memory)
        got == IF Outdated(f, memory) THEN f.got ELSE Landed(f, m)
    IN
    /\ f.by = "observer"
    /\ IF ReadsAgain(f, m)
       THEN /\ memory' = [m EXCEPT !.flight = Round(f, memory, disk), !.issued = @ + 1]
            /\ disk' = Stored(f, memory, disk)
            /\ UNCHANGED <<lapses, late>>
       ELSE /\ Continue(m.waiting,
                        Settled([m EXCEPT !.revisionAt = f.revision], IF got = NoChain THEN m.chain ELSE got),
                        Stored(f, memory, disk))
            /\ lapses' = Overtaken(f)
            /\ late' = late \union memory.unjudged
    /\ UNCHANGED <<strays, reconciling, spent, excused>>

(* An answer to a cancelled request: its rows land when nothing later has, *)
(* its chain is nobody's; an observer's goes on all the same.              *)
StrayAnswered(f) ==
    LET m == Applied(f, memory) IN
    /\ f \in strays
    /\ disk' = Stored(f, memory, disk)
    /\ IF f.by = "observer" /\ ReadsAgain(f, m)
       THEN /\ strays' = (strays \ {f}) \union {Round(f, memory, disk)}
            /\ memory' = [m EXCEPT !.issued = @ + 1]
       ELSE /\ strays' = strays \ {f}
            /\ memory' = IF f.by = "observer" THEN [m EXCEPT !.revisionAt = f.revision] ELSE m
    /\ UNCHANGED <<reconciling, spent, lapses, excused, late>>

-----------------------------------------------------------------------------
(* Another commit destroys a row, as the server has done.                  *)
Destroy(r) ==
    /\ r \in disk.landed \ disk.gone /\ Cardinality(disk.gone) < MaxGone
    /\ LET d == [disk EXCEPT !.gone = @ \union {r}]
           judged == Judged(memory, d)
       IN  \/ /\ ~reconciling \/ ~memory.registered
              /\ disk' = d /\ UNCHANGED memory
           \/ /\ reconciling /\ memory.registered /\ memory.flight # NoFlight
              /\ memory' = [memory EXCEPT !.unjudged = @ \union {r}] /\ disk' = d
           \/ /\ reconciling /\ memory.registered /\ memory.flight = NoFlight
              /\ memory' = judged.memory /\ disk' = judged.disk
    /\ UNCHANGED <<strays, reconciling, spent, lapses, excused, late>>

(* The fetch in the air fails: react-query flags what it has, the calls    *)
(* end, and a loss that came meanwhile is judged now.                      *)
Fail ==
    /\ memory.flight # NoFlight /\ Spend("failures", MaxFailures)
    /\ LET m == [memory EXCEPT !.flight = NoFlight, !.waiting = <<>>, !.invalidated = TRUE,
                               !.failed = TRUE, !.unjudged = {}]
           judged == IF memory.unjudged = {} THEN [memory |-> m, disk |-> disk] ELSE Judged(m, disk)
       IN  memory' = judged.memory /\ disk' = judged.disk
    /\ excused' = TRUE
    /\ UNCHANGED <<strays, reconciling, lapses, late>>

StrayFails(f) ==
    /\ f \in strays /\ Spend("failures", MaxFailures)
    /\ strays' = strays \ {f}
    /\ UNCHANGED <<memory, disk, reconciling, lapses, excused, late>>

-----------------------------------------------------------------------------
(* invalidate, of a scope or of all.  Storage first: only a record can be  *)
(* marked.  A mounted reader fetches at once.                              *)
MarkedOnDisk(d) ==
    IF d.record = NoRecord THEN d
    ELSE [d EXCEPT !.revision = @ + 1, !.mark = d.revision + 1]

Told(m, d) ==
    LET flagged == [m EXCEPT !.seq = @ + 1, !.invalidated = TRUE] IN
    IF ~m.registered THEN m ELSE IF m.mounted THEN Run(flagged, d) ELSE flagged

Invalidate ==
    /\ Spend("told", MaxTold)
    /\ disk' = MarkedOnDisk(disk)
    /\ memory' = Told([memory EXCEPT !.told = @ + 1], disk')
    /\ excused' = ~memory.mounted
    /\ UNCHANGED <<strays, reconciling, lapses, late>>

(* markResumeStale and the refetch of a reader that returns to the         *)
(* foreground with a chain too old: nothing is marked on disk.             *)
Resume ==
    /\ memory.mounted /\ Spend("starts", MaxStarts)
    /\ memory' = Told(memory, disk)
    /\ UNCHANGED <<strays, disk, reconciling, lapses, excused, late>>

Kill ==
    /\ Spend("kills", MaxKills)
    /\ memory' = [Started EXCEPT !.told = memory.told] /\ strays' = {} /\ reconciling' = TRUE
    /\ excused' = TRUE
    /\ UNCHANGED <<disk, lapses, late>>

(* resetRuntime clears the storage, the client, the keyed state and the    *)
(* reconcilers.                                                            *)
Reset ==
    /\ Spend("kills", MaxKills)
    /\ memory' = [Started EXCEPT !.told = memory.told] /\ strays' = {} /\ disk' = Blank
    /\ reconciling' = FALSE /\ late' = {}
    /\ excused' = TRUE
    /\ UNCHANGED <<lapses>>

Next ==
    \/ Read \/ Mount \/ Unmount \/ Follow \/ Fetch \/ NextPage \/ Scheduled \/ Refresh
    \/ Answered \/ Nothing \/ ObserverAnswered \/ (\E f \in strays : StrayAnswered(f) \/ StrayFails(f))
    \/ (\E r \in 1 .. Pages : Destroy(r)) \/ Fail \/ Invalidate \/ Resume \/ Kill \/ Reset

(* The transport settles what it was asked.                                *)
Settles == Answered \/ Nothing \/ ObserverAnswered \/ Fail
Fairness == WF_vars(Settles)

Spec == Init /\ [][Next]_vars /\ Fairness
=============================================================================
