# A TLA+ model of react-native-dblayer

`react-native-dblayer` is a local-first GraphQL data layer for React Native: a
normalised in-memory store, persisted in a synchronous key-value storage
(MMKV), filled by queries, mutations and subscriptions of an asynchronous
transport. This directory models the parts of it whose correctness depends on
the order of steps: what is on disk when the process is killed, what a boot
makes of it, and how answers, events, retries and restarts meet. All source
paths below are relative to the repository.

## 1. The system

The library runs in one JavaScript thread. Storage calls are synchronous, so a
call of the library is interrupted by nothing but the end of the process. Three
things interleave: the operating system may kill the process between two
storage writes; a storage write may throw; and between an `await` and its
continuation any other call, event, timer or reset may run.

| part | state it keeps | operations | depends on |
|---|---|---|---|
| apply runtime (`core/apply/transaction.ts`, `deltaLog.ts`, `applyExecution.ts`) | delta counter, dirty models, pending deltas, flush timer; on disk `delta:<seq>`, `snapseq:<model>` | `commit`, `flushCacheSnapshots`, `replayPersistedDeltas` | planes, storage, ledger |
| entity store (`core/storeEntities.ts`, `store.ts`, `storeSync.ts`) | rows, tombstones, batch buffer, dirty ids; on disk `row:*`, `tombstones:*` | put, destroy, prune, persist, hydrate, abort | write gate, causal admission |
| scope index (`core/planes/scopeIndex.ts`, `core/orderKey.ts`) | ordered memberships per scope, generations | write, delta, trim, reconcile | apply runtime |
| operation ledger (`core/planes/operationState.ts`) | operations, idempotency keys, indexes; on disk `ops` | transitions `begin`, `close`, `remove`, queries, hydrate (and `prune`, which nothing outside tests calls) | apply runtime |
| actions (`dsl/facadeActions.ts`) | none besides the ledger | run, retry, discard; start, execute, cancel, resume | transport, ledger, rollback planner |
| correlation (`dsl/modelWrites.ts`, `mutationCorrelation.ts`) | none | replace a draft by the server row of a response or an event | ledger, correlators |
| relation effects (`core/apply/commitEnvelope.ts`, `core/relations.ts`, `dsl/modelMembership.ts`) | none besides the overlay of one plan | prepare the operations of a plan, derive counters, touches, cascades and memberships | rows, scopes, tombstones |
| rollback (`core/requestRollback.ts`) | none | plan what a failed request undoes | ledger, store |
| causal admission (`dsl/modelContext.ts`) | per row and field the epoch of the last write | admit rows, patches and destroys of a base revision | apply runtime |
| boot (`dsl/lifecycle.ts`, `core/bootFsck.ts`) | none | reconcile, replay, close crashed requests, quarantine orphans, readmit | all of the above |
| reset and manifest (`core/reset.ts`, `core/schemaManifest.ts`) | on disk `reset-intent`, `manifest` | reset, resume, reconcile | storage, generation |
| queries (`dsl/defineQuery.ts`, `core/queryPersistence.ts`, `core/fetch/*`) | react-query cache, invalidation sequences; on disk `query:*`, `query-invalidation:*` | fetch, invalidate, restore, next page | transport, apply runtime |
| events (`core/subscriptionLifecycle.ts`, `modelEventRegistry.ts`) | subscriptions, retry timers, debounce buckets, owners | activate, deliver, retry, restart | transport, network, generation |
| reads (`core/apply/commitBus.ts`, `read/*`) | subscribers, sequence | publish, subscribe, recompute | store |
| single flight (`utils/singleFlight.ts`) | the flight, the last success | call, settle, reset | generation |

What makes each part correct, and what is hard about it:

- **Apply runtime.** An accepted commit survives every kill; rows and
  memberships of one commit come back together; compaction loses nothing and
  ends. Hard: three kinds of keys (delta, snapshot entry, marker) written one
  after the other, numbers reused after a refused delta, counters derived again
  at boot.
- **Cut of the tail.** Nothing is built on a missing delta, and no reader trusts
  a result whose rows went with it. Hard: the cut itself is many writes.
- **Ledger and actions.** Every request is settled once, a draft is visible
  while it can be retried, keys block exactly what they should, an operation of
  unknown delivery is not sent again. Hard: answers, events, retries, discards
  and kills in any order, with the ledger and the rows in two writes.
- **Rollback and field ownership, causal admission.** A late answer does not
  overwrite what came after it; a failed patch takes back its own value only.
  Hard: overlapping patches, responses that were sent before another write.
- **Reset, manifest.** A reset that is interrupted anywhere is completed by the
  next boot and keeps what it was told to keep.
- **Queries.** A result older than an invalidation never counts as fresh, in
  memory or on disk. **Events.** One live subscription per owned slot, nothing
  delivered across a reset. **Reads.** No reader keeps a value older than the
  last commit of its dependencies.

`PROJECT.json` lists every part with its status, and every hazard at its line.

## 2. Plan

| # | module(s) | what it is about | composes with | state |
|---|---|---|---|---|
| 1 | `DeltaLog`, `DeltaLogProps`, `DurableStore`, `DeltaLogProofs` | durability and atomicity of commits | refines `DurableStore` | checked, proved |
| 2 | `TailCut`; proofs in `ScopeIndexProofs` | the cut of an unreadable or unappliable tail | the storage of `DeltaLog`, with query records | checked, proved |
| 3 | `OperationLedger`, `OperationLedgerProps`, `OperationLedgerProofs` | keys, requests, drafts, correlation, boot | commits of `DeltaLog`, torn between its two writes | checked, proved |
| 4 | `RowCausality`, `RowCausalityProps`, `RowCausalityProofs` | who may overwrite whom in one row | operations of 3 with intents patch and destroy | checked, proved |
| 5 | `StorageReset`, `StorageResetProps`, `StorageResetProofs` | full reset, reset intent, manifest, migrations, key by key | the storage keys of 1 and 3 | checked, proved |
| 6 | `SubscriptionLifecycle`, `EventRegistry`, `EventRegistryProps`, `EventRegistryProofs` | slots, owners, retries, offline gate, deliveries, generations | the registry is built from the life cycle; delivers the events of 4 | checked, proved |
| 7 | `QueryFreshness`, `QueryFreshnessProps`, `QueryFreshnessProofs` | fetch, invalidation, persisted records, lost rows, cancelled requests | lands the answers of 4, writes the records of 2 | checked, proved |
| 8 | `Dependencies`, `LiveReads`, `LiveReadsProps`, `LiveReadsProofs` | publish, subscribe, render and effect, shared queries | commits of 1, one step each | checked, proved |
| 9 | `OrderKeys`, `ScopeIndex`, `ScopeIndexProps`, `ScopeIndexProofs` | placement, renumbering, trimming; order keys with the arithmetic of doubles | commits of 1, the drafts of 3 | checked, proved |
| 10 | `SingleFlight`, `SingleFlightProps`; proofs in `ScopeIndexProofs` | shared and throttled executions of a task across resets | the reset of 5 | checked, proved |
| 11 | `RelationEffects`, `RelationEffectsProps` | what one plan becomes: counters, touches, cascades, memberships | the commits of 1, the drafts of 3, the memberships of 9 | checked |

Left for later: the readmission of quarantined rows, windowed reads, foreign keys
that change, and these theorems: the properties of `RelationEffects`, and an
all-or-nothing register that `StorageReset` implements over kills.

## 3. The modules and the code

**`DeltaLog`.** A cell is what one operation of a delta overwrites (a row, a
tombstone, one membership), an entry is a key of a model snapshot, and the
content of a cell is the number of the commit that wrote it. One action per
storage write: `BeginCommit` prepares and numbers a commit, `WriteLedger` writes
`ops` (`RefuseLedger`: the storage throws, the commit has no effect),
`WriteDelta` writes `delta:<seq>` and lands in memory (`RefuseDelta`: contained,
the commit lives in memory and the number is used again; `NoDelta`: nothing but
transitions). `StartFlush`, `FlushEntry`, `FlushSnapseq`, `FlushDelete`,
`FlushDone`, `FlushRefused` are `flushCacheSnapshots`. `Kill` may happen at every
`pc`; `Boot` derives the counter from the keys and replays what no marker
covers. `Recovered` is what a boot would read from the storage as it is: the
variable the properties speak of. `DurableStore` has one variable, what a boot
would show, and one action, a whole commit.

**`TailCut`.** The storage is a set of deltas, a set of query records that each
vouch for the commits they were written after, and what the snapshots cover.
`Damage` makes a delta stale, broken or unappliable; `ReadLog` is the scan of
`readDeltaLog`, `CutDelta` and `CutQuery` are the single deletes of the cut, in
the code's order, `Replay` either finishes or meets a delta that does not apply
and starts the cut of `replayPersistedDeltas`. `Kill` may fall on any of these steps.
`removed` is what the running cut has taken away so far and `torn` what a kill has
left of such a cut for good: the holes no later boot knows of.

**`OperationLedger`.** Operations are calls of three kinds: a request insert
with a draft, a durable insert (`start`/`execute`), a plain tracked call under a
key. Rows are `<<operation, n>>`: the draft is number 0, the row the server made
of the n-th request is number n. The actions are `Run`, `RunDeduped`, `Start`,
`Execute`, `Retry`, `Drop` (discard and cancel), the settlements `Answer`,
`AnswerDropped`, `AnswerError`, `AnswerUnusable`, `AnswerUnknown`, the server's
`Accept`, an `Incoming` row of any other channel, `Flush`, `Kill` and `Boot`. A commit that moves operations and rows is two writes: every such action has a
second outcome, `Dies`, in which a kill comes between them. `Programs` says which
calls a behaviour makes, and `torn` which operations a kill has left half written in
a way no boot repairs.

**`RowCausality`.** One row with several fields. The revision owner of
`modelContext.ts` is `revisions` (`row`, `existence`, `field`), the admissions
are `Upserted`, `Patched` and `Destroyed`, and `Commit` is the apply with its
notes and its epoch. `Run` and `Retry` are the optimistic commit and the sending
of the request, which are one turn of the thread; `AnswerOk`, `AnswerError` and
`AnswerUnknown` are the three ways `runRequestExecution` ends; `RolledBack` is
`planRequestFailureRollback`, used by `AnswerError` for one operation and by
`Restart` for all the pending ones in one commit. `SendQuery`, `LandQuery` and
`Deliver` are the other channels, `Prune` the pruning of tombstones. The server
is external: one copy of the row that patches, destroys and other clients
change, which answers a patch with what it has (it may have refused the value)
and may or may not emit the change.

**`StorageReset`.** The storage is one value per kind of key: rows, marker and
tombstones of a model, the deltas, the manifest, `ops`, `quarantine`, and the
reset intent. A value is the version of the application that wrote it and how
many resets the user had made. `UserReset`, `ResetIncompatible` and a `Boot` that
finds an intent start the one procedure of `resetRuntimeWithRecovery`:
`WriteIntent`, `ClearKey`, `ForgetMemory` (with whatever a resetter writes back),
`ClearKey` again, `RestoreEntry`, `DropIntent`. `StartMigration`, `MigrateKey` and
`WriteManifest` are the rest of `reconcilePersistence`, `Compatible` its early
end. `BeginOp`, `PutQuarantine` and `WriteCache` are what a session writes. `Boot`
may start any version, newer or older; `Spoil` makes a manifest unreadable; `Refuse` is a
write that throws, with the three ways the code goes on from there.

**`SubscriptionLifecycle`** is the state of one runtime entry and what each
function of `subscriptionLifecycle.ts` makes of it, as operators on a record:
the epoch of the activation, the token of the attempt, the stored handle (none,
the placeholder that stands during `subscribe`, or open), the retry timer and
the connectivity listener, the payload a debounce holds, and the fence.
**`EventRegistry`** builds the registry on it. `calls` is the JavaScript stack:
a frame is a point where foreign code runs (inside the transport's `subscribe`,
inside `plan`, `commit`, invalidations and listeners of a delivery, between the
slots of a loop), and what runs between two such points is one step. So a
payload, an error or a reset may come from inside `subscribe`, and a reset or a
definition from inside a delivery. `Acquire`, `AcquireSlot`, `Release`, `Register`,
`Restart`, `RestartSlot` are the registry's operations, `TransportNext`,
`TransportError`, `SubscribeReturns`, `SubscribeThrows` what the transport does,
`DebounceFires`, `RetryTimer`, `LoseNetwork`, `RegainNetwork`, `NetworkSlot` the
timers and the network, `ResetRuntime` a reset, which the storage may refuse.

**`QueryFreshness`.** One query over one scope. `memory` is what a session
holds: the chain (rows, pages, and when its first and its last page were asked
for, in the order of invalidations), react-query's invalidated flag, the fetch
in the air with the calls that wait on it, the invalidation sequence, the
numbers of issued and applied resets. `disk` is the record, the family's mark and
revision, and the rows that landed and went. `strays` are cancelled requests that
still answer. `Run` joins or starts a fetch, `Continue` is what each waiting call
does when it settles: persist, or flag and run again (`Outrun`, `Flagged`,
`Again`). `Answered`, `ObserverAnswered`, `StrayAnswered`, `Nothing`, `Fail` and
`StrayFails` are the ends of a request, `Judged` prunes a chain that lost rows,
`Restored` reads the record back. `Invalidate` marks the disk and then the
memory, `Resume` is the foreground pass, `Reset` and `Kill` end a session.

**`Dependencies`** is the vocabulary of the commit bus: dependencies, changes,
what concerns whom, and the two relation reads with what they compute and
declare. **`LiveReads`** mounts readers on it. A relation reader has the value and
the dependencies of its last render, whether its effects still have to run, and
the dependencies it subscribes with; a query reader has its key, the handle it
holds, the one it rendered from, the one it listens to. The cache counts the
consumers of each live query. A commit publishes to subscribers and live queries
in one step; a render, an effect and an unmount are steps of their own, so a
commit or a reset falls between any two of them.

**`OrderKeys`** are the keys of a scope as sequences of digits over `Base`, with
`keyBetween` and `keysForSequence` computed as the code does, in doubles of
`Mantissa` bits. **`ScopeIndex`** is one scope: `Complete`, `FirstPage` and `NextPage`
are the three branches of `reconcileNext`, `Trimmed` the retention, `Delta` and
`Merged` what arrivals, departures and restores apply; a sort is `Arranged`, the
elements of a set by rank, and a filter is `Those`. `LandComplete`,
`LandFirstPage`, `LandNextPage` are answers of the server, with drafts correlated
and rows of open operations protected; `Arrive`, `Depart`, `Insert`, `Confirm`,
`InsertFails`, `Retry`, `Discard`, `Destroy`, `DestroyConfirmed`, `DestroyFails` the
other writers; `Restart` a kill and the next start.

**`SingleFlight`.** Both wrappers; which one it is (`throttled`) and whether a reset
clears it (`registered`) are chosen in `Init`. `flights` are the executions of the
task in the order they started, `inFlight` the slot. `Start` is a call that finds the
slot empty. A settlement reaches the slot in two turns of the microtask queue:
`Succeed` and `Fail` are `then` and `catch`, `Finish` is `finally`; calls, ticks of the
clock and `ResetRuntime` may fall between them. A task neither calls its own wrapper
nor resets the runtime before it returns its promise.

**`RelationEffects`.** `rows` are messages (their box), chats (their count and the
message they show) and authors; `seats` the members of every box, a scope by value.
`Prepare` is one turn of `prepareOperations` over the overlay `p`, `Counters`,
`Cascades`, `Touches` and `Memberships` the four parts of `deriveEffects`, and `Compile`
the loop of `compileWritePlan`: effects of effects, until there are none. The
operations that set out are built as the planners build them: `PlanRow` splits off a
correlated draft, `Replace` is `planReplace`, `PlanRestore` the rollback of a destroy.
`Commit` compiles and applies a plan; the actions are its callers: `Deliver` (an event
of up to three facts, or a direct write), `Land` (a query of one box with all its
members), `Respond` (a call without an optimistic part), `Begin`, `Answer`, `Fail` and
`Discard` of an optimistic insert, and `BeginDestroy`, `DestroyAnswered` and
`DestroyFails` of an optimistic destroy. The gate of the touch, the correlator and what
the server says are the application's and external. A commit is one step: nothing
interleaves with compilation, and what is on disk is in `DeltaLog`.

## 4. The runs

| run | shows | bounds and why they are enough |
|---|---|---|
| `delta_log_kill` | no accepted commit is lost, only refused ones are volatile, the ledger precedes the rows, recovery never moves back | two models, three entries, three cells, three commits, all refusals: a refused delta, a commit over its number and a flush over both need three commits; a row with its membership and a commit over two models are among the write sets |
| `delta_log_durable` | with deltas and snapshots never refused the log refines `DurableStore`, and a flush ends with no delta left | as above, `FairSpec` |
| `tail_cut_whole` | nothing is applied over a hole, no surviving record vouches for a lost commit, but over what an interrupted cut had removed | three commits, two damaged deltas, two query records, kills anywhere (128,096 states): a damage in the middle with a good delta after it, a cut of what a killed cut has left |
| `ledger` | a draft is visible until its server row replaces it, no twin, no draft disappears unanswered, a once key succeeds once, requests settle | a request insert beside a durable insert, both correlated, or beside two plain calls under one once key; two requests each, any commit torn (612,068 states): an event for the first request may meet the second, a kill may fall into the commit that begins, settles, drops or recovers an operation |
| `row_causality` | overlay, rollback, causal admission and tombstones together | a row of two fields; two patches that share a field, or a patch and a destroy; one query; one event under way; one of: another client's write or delete, a kill, a retry |
| `reset_carries` | what a reset wipes stays wiped, what it carries arrives, no session reads cache of another schema or data version | three versions (a schema of one of two models, then the data version), started in any order, one reset by the user, two kills or unreadable manifests, one refused write (1,636,818 states): a reset interrupted twice, or interrupted and then met by a newer or an older version |
| `events_served` | no subscription outlives its use, every open one is heard, every owned event is served and reconnects, no payload has an effect across a reset | two events, one of them debounced, two owners, two generations, three mounts or definitions, one payload, two transport errors, one `subscribe` that throws, one loss of connectivity (1,062,668 states): an error inside a reconnection, a second owner that takes over a slot whose first one goes, a definition inside a reset |
| `query_fresh` | no answer older than an invalidation is fresh, in memory or on disk; losses are noticed; invalidations told to a reader are served | two pages, three fetches asked for, and one each of an invalidation, a failure, a kill and a row that goes (851,770 states): a cancelled request beside the one that replaced it, a call that joined a fetch of another, a record written by the one and read after the other |
| `scope_order` | the index can be read back, the order is the server's, drafts stay | base 6, keys of at most 3 digits for a sequence, doubles of 8 bits, three rows and a draft, retention 2, pages of 2, two answers, one arrival, two calls, one failure, one kill (391,691 states): a draft held across a complete answer that renumbers all other rows, a correlated draft, a trim |
| `reads_current` | what the screen shows is what the rows say | two children, two parents, one relation reader, two query readers, two mounted at a time, children and parents symmetric (662,505 states): a reader that leaves or changes its key while the other holds the same query, a reset under both |
| `single_flight` | one execution of an era at a time, a success throttles for its interval | three flights, two resets, an interval of 2 on a clock of 5 (47,607 states), both wrappers with and without the reset option: two flights a reset has forgotten settle in either order beside the one that runs |
| `relation_effects` | counts follow rows, a parent that comes outranks what is derived, previews follow replacements, cascades leave no orphan, every message sits where its row says | a chat, an author, a draft, its row (older by the server's clock) and another message, two boxes, two rows the server may send of the chat, four commits of up to two facts each, or of three when the first two are about one message (60,655 states): a draft, its event, its answer and a deletion in any order; a failed send that is retried and answered; a destroy whose rollback meets an event; a message a plan destroys, brings again and whose chat it destroys |

`MaxTroubles` bounds what would otherwise repeat without end; at 2 and with no
query, `row_causality` has no error either (that is not one of the runs).
Deadlock is not checked where the application may simply have nothing left to
call. Every property has a mutant in `PROJECT.json`, a plausible error in one
mapped definition that makes the run fail; the mutated forms stand beside the
definition they replace, under a comment `Mutated ...`.

Properties that need care when read:

- `OpenIsHeard` and `OwnedIsServed` except what a refused reset leaves behind and
  events whose caller was told (or whose retry threw) that they are not served
  (`LeftBehind`, `forsaken`; section 8).
- `FreshIsAsked` and `StoredIsReread` except what the model records in `lapses`: an
  answer that was overtaken and a flag that a cancellation put back. `LossIsNoticed`
  excepts rows lost during a fetch that succeeded (`late`). `InvalidationIsServed`
  ends when a fetch fails or the reader goes. Section 8 names all of these.
- `IndexIsReadable`, `OrderIsKept` and `DraftsStay` speak of what precedes a
  collision of a restored key (`collided`; section 8).
- `RelationIsCurrent` speaks of reads whose subscription names what they depend on
  now, `QueryIsCurrent` of queries built from the declaration they are held under
  (section 8 says how either may come to be otherwise).
- In `RelationEffects`, `CountFollowsRows` and `SwapIsFollowed` except drafts that are
  `unpaired`: their row came beside them, or they were gone, or the row was deleted,
  when the replacement came. `ToldIsKept` speaks of chats that an event brings with a
  change, in plans without a cascade. `SeatsFollowRows` excepts messages `astray`: a plan
  spoke of them twice or beside a cascade, or a query landed a box while they moved or
  were left out. Without these exceptions the statements do not hold (section 7).
- `DraftsAreVisible`, `NoTwin` and `CommittedIsLanded` except operations whose `start`,
  landing, discard or boot commit a kill has torn (`torn`; section 8). A torn begin of
  a request is not among them: the boot rebuilds its draft.
- `OneAtATime` excepts the throttled wrapper with the reset option (section 7).
- `TrustedIsWhole` and `NothingBuiltOnAHole` except the commits in `torn`, which a cut
  had removed when a kill came. `NoOrphans` excepts
  messages the plan itself had destroyed and brought again (`revived`).
  Section 7 says what the code does there.
- `OnceExecutesOnce` is checked with no retry of a call under a once key, `OwnValueWins` with answers that carry the
  patched fields only; section 8 says what happens otherwise.
- `PendingHolds` allows the value of a later pending patch, or whatever a settled
  later patch left: an answer of an operation goes under the overlay.
- `OwnValueWins` excepts a field that a later patch writes too and a row that was
  removed in between.
- `NoResidue` speaks of fields one patch alone writes; CHANGELOG.md:852 names the
  residue of overlapping ones as a known limitation, and :853 that of a destroy
  beside a patch.
- `GoneStaysGone` excepts two ways back that the code has: the rollback of an
  optimistic destroy, and a destroy event that found no row followed by the
  pruning of the tombstone.

## 5. Fairness

`DeltaLog!Fairness`: a synchronous call runs to its end, a scheduled flush timer
fires, a killed application is started again. The first is what a single thread
does, the second is `setTimeout`, the third is an assumption about the user.
Nothing forces a commit, a kill or a refusal. `CompactionDrains` allows for a
kill, and is checked without refused snapshots, since a storage that refuses
every write never drains. `OperationLedger!Fairness`: the transport settles
every request (its promise resolves or rejects) and a killed application is
started again; nothing forces the server to accept or the user to
retry. `EventRegistry!Fairness`: a synchronous call runs to its end
(`Runs`), a retry timer fires, and connectivity is regained; nothing forces the
transport to deliver, so `Reconnects` speaks of the subscription, not of events.
`QueryFreshness!Fairness`: a request settles and what React has scheduled runs
(`Settles`); nothing forces a fetch, a refresh or an invalidation.
The other modules state safety only.

## 6. What is proved

`DeltaLogProofs`, for any models, entries, cells, write sets, refusals and any
`MaxCommits`, from `LayoutAssumption` and `BoundAssumption` alone:

| theorem | says |
|---|---|
| `InductiveInvariant` | `Spec => []IInv` |
| `TypeCorrectness` | `Spec => []TypeOK` |
| `AcceptedCommitsAreDurable` | `Spec => []AcceptedCommitsSurvive` |
| `KillLosesOnlyRefused` | `Spec => []OnlyRefusedIsVolatile` |
| `LedgerOutlivesRows` | `Spec => []LedgerPrecedesRows` |
| `RecoveryIsMonotone` | `Spec => RecoveryMovesForward` |
| `ImplementsDurableStore` | if no delta may be refused, `Spec => CommitsAreAtomic` |

`AcceptedCommitsSurvive` is not inductive: a flush that writes an entry says
nothing about the deltas that the marker will hide. `IInv` adds what it needs:
the counter is ahead of every number on disk (`CounterAhead`), numbers and
contents name commits begun (`Issued`), the commit in progress is newer than
everything (`CommitIsNewest`), the flush covers all numbers issued
(`FlushCovers`), a clean or just written entry equals the memory
(`SavedOrDirty`), the memory is what a boot shows or a refused commit newer than
that (`MemoryAhead`), and the ledger knows every commit of which there is a
trace (`LedgerFirst`). The proof computes what each storage write does to
`Recovered` (lemmas `Recovered...`), then shows one lemma per action or pair of
actions, with one step per conjunct the action can disturb.

`LiveReadsProofs`, for any children, parents, readers and any number mounted at a
time, from `IdAssumption` and `ReaderAssumption` alone:

| theorem | says |
|---|---|
| `CellsAreTyped` | `Spec => []TypeOK` |
| `RelationsAreCurrent` | `Spec => []RelationIsCurrent` |
| `QueriesAreCurrent` | `Spec => []QueryIsCurrent` |

`RelationIsCurrent` says nothing of a read whose effects have not run, and is not
inductive: a commit between the render and the effect would break it later. The
proof carries, for every cell, that its dependencies are those its relation had
over some rows; that its value is what the relation computes now, before the
effects have run unless a batch has come that it could not hear (`behind`), and
after them as long as the subscription names the dependencies the read has; and
that a read that is not dirty shows its value. The
data fact it rests on is `UnconcernedIsUnchanged`: a batch that concerns none of
the dependencies of a read changes nothing it computes, and those dependencies
stay what they are.

A declared read lives on a shared live query, and what could go wrong with it is
that the query is closed or replaced under it. `QInv` therefore keeps the books of the
cache: the consumers of a query are the readings that hold it alive, finitely many,
and each of them knows the declaration the query was built from (`Books`). Of a
reading whose effects have run it says that it holds and hears the query of its key
and has the value that query has now, and that a value it does not show has asked
for a render (`ReadingInv`). The lemmas
`ReleasedBooks` and `AcquiredBooks` say that releasing the handle of before and
taking one on the query of now, in the order of the code, leave the count right
when both are the same query.

`StorageResetProofs`, for any models, versions, items and any bounds, from
`VersionAssumption` (finitely many versions, numbered; two that agree in everything
are one), `ItemAssumption` and `BoundAssumption`:

| theorem | says |
|---|---|
| `StorageTyping` | `Spec => []TypeOK` |
| `ResetStaysFinal` | `Spec => []ResetIsFinal` |
| `CacheStaysFitting` | `Spec => []CacheFits` |
| `OutboxStays` | `Spec => []OutboxKept` |

The three properties speak of a session that runs without an intent; the invariant
says what each phase before it hands over. A standing intent restores a manifest,
items of this era and no cache (`IntentKept`), and what a running reset restores
agrees with it, or with the disk it is about to take its items from (`RestoreKept`).
The second pass of the clearance ends over an empty storage, and from there on the
storage is exactly what has been restored so far (`Wiped`): what the first pass
leaves behind, what the resetters write back into it and what the ledger in memory
held is gone. With this the storage without an intent is of this era
(`StorageClean`) whoever finishes the reset, and so is the ledger in memory
(`LedgerClean`). For the cache, `ManifestFits` says that the rows fit the manifest
they stand beside, also when no process runs, and `Migrating` that the keys a
migration has passed are gone before the manifest says so; `ManifestCurrent`
that a running session stands beside a manifest of its own version. `ItemsKept` has
the items on the disk, or in the intent as long as there is one.

`ScopeIndexProofs` has the proofs about four modules, none of which reuses a name of another. Its first part
is about the operators of `OrderKeys`, for any alphabet of more than 3
digits, any length of sequences and any width of numbers that holds the keys of that
length, from `KeyAssumption` alone. A bound is an order key or none; the lower one is
before the upper one:

| theorem | says |
|---|---|
| `KeyIsBetween` | `KeyBetween` is an order key strictly between its bounds, whatever their length |
| `WalkIsSpread` | so are the keys of `Walk`, and they increase |
| `SequenceIsSpread` | so are the keys of `KeysForSequence`, if no bound has more than `MaxSequenceLength` digits |

`KeyBetween` goes to the first digit at which the bounds, filled up with the lowest and
the highest digit, differ. For `KeysForSequence` a key of `n` digits is compared by the
values of its beginnings: below `Exact` no sum, product or quotient is rounded
(`PaddedIsExact`), the larger value is the later key (`ValuesOrder`), `ToKey` gives the
key of a value (`KeyOfValue`), and a step of at least 2 leaves room for the nudge past
a multiple of the base (`EvenSteps`). The hypothesis of the last theorem is where the
promise of orderKey.ts:4-5 ends (section 7).

Its second part is about `ScopeIndex`, for any rows and drafts, any retention, any page
and any bounds, from `KeyAssumption`, `ScopeAssumption` and `PageAssumption` (a page has
far fewer rows than there are keys of 8 digits):

| theorem | says |
|---|---|
| `ScopeInductiveInvariant` | `ScopeSpec /\ []KeysAreShort => []ScopeIInv` |
| `IndexStaysReadable` | `ScopeSpec /\ []KeysAreShort => []IndexIsReadable` |
| `OrderStaysKept` | `ScopeSpec /\ []KeysAreShort => []OrderIsKept` |
| `OpenDraftsStay` | `ScopeSpec /\ []KeysAreShort => []DraftsStay` |

`KeysAreShort` says that no member has a key of more than `MaxSequenceLength` digits. It
is the hypothesis of `SequenceIsSpread` for the bounds the code hands to
`keysForSequence`, and nothing in the code ensures it: where it ends, the three
properties end too (section 7). A step needs it of the state it starts from only. The
bounds of `scope_order` keep it true in each of its states.

None of the three properties is inductive. `ScopeIInv` says, until a restored row meets
its key taken: the entries are a value in order, ids and keys apart (`Ordered`); the
rows whose place is decided are members, and any two of them have keys in their order
(`ListKept`), which is kept by taking entries away and by merging entries that are
apart, whatever becomes of the sequence, and gives `OrderIsKept` back by
`KeptIsListed`; the drafts among the members are those of open inserts, and no others
(`OpenIn`); and a row whose destroy is pending has a key to go back to
(`KeysCaptured`). The step with the most content is the complete answer: its rows get new
keys one after the other, each steered past the keys of the held rows. That this ends
(`FreeKeyIsFree`) is a matter of counting: the tries rise strictly, so among one more of
them than there are keys taken, one is free; and that it stays below the next row's key
is what `keysForSequence` promises of one key between two (`NextSteers`,
`CompleteIsOrdered`). `DeltaIsOrdered` covers both ways of `applyDelta`, `TrimmedIsOrdered`
the retention, `SwapKeepsOrder` the row that takes the place of its draft, and
`RestoredAreProper` the rollback. Sorting is `Arranged`, a sequence indexed by rank, so
that `ArrangedIsOrdered` needs no induction over a sorting algorithm.

The third part of `ScopeIndexProofs` is about `TailCut`, for any query records,
`MaxCommits` and `MaxDamage`, from
`BoundAssumption` alone, with kills at any write, inside the cut too:

| theorem | says |
|---|---|
| `CutInvariant` | `Spec => []IInv` |
| `SurvivingRecordsAreWhole` | `Spec => []TrustedIsWhole` |
| `ReplayBuildsOnNoHole` | `Spec => []NothingBuiltOnAHole` |

Both properties speak of a running application and are lost sight of between two
sessions. `IInv` describes the disk instead: outside a cut a record vouches only
for what is in the snapshot, in a delta or in a hole (`RecordsAreBacked`); the
keys marked for removal are a tail (`CutIsATail`); what stays was built on the
snapshot, on earlier deltas and on what interrupted cuts have taken, while a delta that
a cut has marked may also rest on what this cut has removed already (`Grounded`); and
after the replay the store is the snapshot with what stays (`StoreIsReplayed`). A kill
turns what the running cut has removed into holes for good (`Holes`), and only in a cut
is there anything to turn (`RemovedOnlyInCut`): a cut that ends has evicted every record,
so what it removed excuses nothing afterwards. Reading the log and the
replay are the other steps with content: `TailFromProperty` says that the cut leaves
exactly what the replay applied.

Its fourth part is about `SingleFlight`, for any interval and any bounds, from
`IntervalAssumption` alone:

| theorem | says |
|---|---|
| `FlightInvariant` | `FlightSpec => []FlightIInv` |
| `FlightsAreSingle` | `FlightSpec => []OneAtATime` |
| `SlotsAreCurrent` | `FlightSpec => []SlotIsCurrent` |
| `IntervalsHold` | `FlightSpec => []IntervalHolds` |

`OneAtATime` is not inductive: the next call starts a second execution if the slot
may be empty while one runs. `FlightIInv` adds that a flight of the present era that has
not settled is the one in the slot, except under the wrapper that forgets whose slot
it clears (`UnsettledIsHeld`), and that no success of the era is later than the one
noted (`FlightsDated`), from which `IntervalHolds` follows.

`EventRegistryProofs`, for any models, events, owners and any bounds, from
`SlotAssumption` and `CountAssumption` alone:

| theorem | says |
|---|---|
| `RegistryInvariant` | `Spec => []IInv` |
| `OpenHandlesAreHeard` | `Spec => []OpenIsHeard` |
| `NoPayloadCrossesReset` | `Spec => []NothingCrossesReset` |
| `OwnedSlotsAreServed` | `Spec => []OwnedIsServed` |

What makes this hard is that foreign code runs inside the calls. `IInv` therefore
speaks of the call stack: what may stand on what (mounts and network loops only at
the bottom, nothing but calls of `subscribe` and deliveries above a restart), that
a slot whose fence is stale is waited for by the frame of a reset or a restart,
that the slots still to be restarted have no runtime, and that the fence of a
delivery frame is not newer than the generation (`StackKept`); that an attempt
claims no generation before the fence of its runtime (`Tracked`); and that a
runtime has the fence of its slot, an active one has owners, and its capture is
current only if the fence is, unless a reset was refused (`SlotsKept`).

`OwnedIsServed` speaks of the moments between calls. `ServedInv` says who sees to an
owned slot inside them: the frame of a reset or of a restart that still has it
before it, the call of `subscribe` whose attempt the runtime keeps, or the loop of
the regained network that it waits in; and that a runtime that waits for a timer or
for the gate has no handle, so that nothing stands in the way of the retry when the
wait is over. A frame may go only when the slot it saw to is open, waits, was given
up, or has no owners.

`OperationLedgerProofs`, for any calls, kinds, keys, correlated calls and any
bound on requests, from `CallAssumption` and `BoundAssumption`:

| theorem | says |
|---|---|
| `LedgerIsTyped` | `Spec => []TypeOK` |
| `RetryableIsVisible` | `Spec => []DraftsAreVisible` |
| `NoDuplicates` | if no draft satisfies the correlator of another, `Spec => []NoTwin` |
| `NothingClosedUnanswered` | under the same condition, `Spec => []CommittedIsLanded` |
| `SuccessIsSingle` | if only tracked calls are declared once, `Spec => []OnceExecutesOnce` |

The first three properties after the types speak of a running process; the
invariant also says what a stopped one is left with. `DraftsKept` lets a pending
request lack its draft while the process is stopped, because the boot rebuilds it;
`DraftsAreOpen` says that a draft in the store belongs to an open operation, which
is why the correlation finds it; and `Unanswered` says that an operation that can
be sent again has no server row yet. These three need each other: the row that
comes in finds the draft by the first two and closes it, which keeps the third,
and the third is why a retry or a boot that puts a draft back makes no twin. All
torn commits are one lemma, `TornRows`: what was half written is `torn`, the rest
is untouched. `Alike` is a hypothesis and not a convenience: with drafts that match
one another the oldest is taken for the answer of another (section 8), and
`OnceTracked` is one because a retry and an execution begin an operation again
without asking for a success under its key. `OnceInv` says that of the calls under
such a key at most one is pending or successful (`OneAtMost`), which holds because
the index a new call is asked against keeps the key of a pending call
(`PendingKept`) and the storage that of a successful one (`SuccessKept`).

`QueryFreshnessProofs`, for any number of pages and any bounds, from
`PagesAssumption` alone:

| theorem | says |
|---|---|
| `FreshnessInvariant` | `Spec => []IInv` |
| `InRange` | `Spec => []TypeOK` |
| `FreshIsAskedAlways` | `Spec => []FreshIsAsked` |
| `StoredIsRereadAlways` | `Spec => []StoredIsReread` |
| `LossIsNoticedAlways` | `Spec => []LossIsNoticed` |

The properties speak of a bucket at rest, or of its record; `IInv` also says what is
in the air. A request of the present sequence was asked for after the last
invalidation, and the fetch that a call started was started by the first of the calls
that wait for it (`Flying`). So when an answer lands, either the sequence is still the
one of the request and the chain it makes is fresh, or the first call, which compares
only its own sequence, finds itself outrun and flags the chain (`ContinueKeeps`); and
a call that is not outrun is the only one to store, so what it stores is the chain as
it is. What is stored while nothing waits (`Persisted`, by a reader or a judgement) is
stored with the flag of the memory, which is why `FreshIn` holds whatever is in the air
and `FreshOn` follows it. A refresh is the step that does not keep this by itself: it
puts the flag of the cancelled fetch back, which may undo an invalidation. `Excuse`
keeps track of that lapse as long as it lasts: until an answer lands that is not
outdated, whose first call stores the chain over the record. Rows that are gone and
still listed, also by an observer's earlier rounds, wait in `unjudged` while a fetch is
in the air (`Noticed`); a failed or cancelled fetch hands them to `Judged`. The folds
over the waiting calls are sets of their indices in the model, and the only fact about
them the proof needs is that the last call that stores exists (`LastServed`).

`RowCausalityProofs`, for any fields, operations, queries, values and any number of
troubles and events, from `RowAssumption`, `OneDestroyAssumption` and `BoundAssumption`:

| theorem | says |
|---|---|
| `RowTyping` | `Spec => []TypeOK` |
| `PendingIsHeld` | if `~WholeRow` and `Apart`, `Spec => []PendingHolds` |
| `OwnValueIsKept` | under the same two conditions, `Spec => OwnValueWins` |
| `NothingIsLeft` | `Spec => []NoResidue` |
| `GoneIsFinal` | `Spec => []GoneStaysGone` |

`Base` says what a well-formed state is: no revision is ahead of the epoch, what an
answer to a patch carries, when an entry of the ledger is pending, born and has
captured a row, and that no two begins share a place in the index. Every action that
commits is described once by what it notes (`Noted`) and what it does to its entry and
its request (`Opens`, `Closes`, `Discards`, `Restarts`, `Serves`); the other proofs go
over these descriptions and not over the formulas of the model. On `Base` stand three
independent invariants.

Who shows a field: a pending patch whose row has not come or gone has its own
value in every field whose revision is not newer than its request (`Shown`), and a
field is newer only if a later patch wrote it (`Unrivalled`). `Causal` ties the
history variable `touched` to the revision of the row's existence, which is what the
gates read. The first two say with the revisions what `PendingHolds` and
`OwnValueWins` say with values, and only the revisions are kept by a step: an
answer, an event or a rollback that
changes the field is a commit that the gates let through for a reason.

What a failed patch leaves: as long as the server has not stored its value, the value
is in no event, no answer and not on the server, and in the row only while the patch
is under way; a destroy that ran meanwhile may have captured it (`ResidueOf`).

What follows a burial: an event that says that the row is gone is the last one, for
the server has nothing to say of it afterwards; without a destroy of the client's own
the row is missing and its revision is newer than the base of every answer that
carries it; with one, the tombstone stands until the destroy fails (`Burial`).

The two conditions are not for convenience: TLC finds the two properties violated
without either. `~WholeRow` and `Apart` (two patches of one field write different
values) are explained in section 8.

Model-checked only: liveness (`CompactionDrains`, `RequestsSettle`, `Reconnects`,
`InvalidationIsServed`), which is out of the prover's reach, and everything about
`RelationEffects`: what a plan becomes is a recursion over phases (`Compile` is a RECURSIVE
operator: the effects of one phase are the operations of the next, until there are none),
each a fold over its operations, and what these compute needs induction over data. The
`TypeOK` of the modules states the types
for the reader and for the proofs; it is not among the properties of the runs.
`SlotIsCurrent` and `TypeCorrectness` are proved and not among them either.

## 7. Where the code and its documentation differ

What the modelling met. None of it is among the runs, which state what holds. TLC finds
a behaviour for each when the quoted sentence is stated as a property of its module:
the exceptions of section 4 keep them out of the runs, and for the order keys the
bound on arrivals does (30 rows that come one by one are enough for short doubles).

The cut of a tail. It is to evict every query record "so each reader
refetches on its next mount instead of trusting a snapshot with a hole in it"
(deltaLog.ts:41-43). The deltas are deleted first and the records last (:56-57): after a
kill between them no later boot finds anything to cut, and the records vouch for what
is gone. And the deltas go in ascending order (:55-56): with the bad one removed and
good ones behind it still there, the next boot applies those over the hole.

A once key that is sent again. A "committed key" is "never
re-sent" under `once` (CHANGELOG.md:893; docs/mutations.md:34 says the same of
successes). `retry` (facadeActions.ts:487) asks neither `hasCommitted` nor `hasPending`:
when a first call fails, a second one commits and the first is retried, the call is
sent, and can succeed, a second time.

A child that outlives its parent. An ordinary destroy cascades, for
"counters and cascades model logical existence" (relations.ts:278-281). The cascade
leaves out the children its phase has destroyed (:347-349) and does not ask whether the
plan has brought them again: `destroy m, upsert m, destroy chat` leaves `m` without its
chat.

Precision of order keys. orderKey.ts:4-5 promises that between any two keys there is a
third and that precision has no limit. `keysForSequence` computes its bounds in
doubles: the cap of 8 digits is asked for only inside the loop that lengthens
keys, so bounds that are already longer, or lie at the top of 8 digits, lose
their last digits. With the real constants, 56 rows appended one by one to an
empty scope bring the tail to `zzzzzzzzyV`, and the next key is `0000000000`: no
order key, and sorted before every other; the next start drops the scope as
corrupt (scopeIndex.ts:33-40 in `hydrate`). Next pages of 20 rows come to a landing
that `isScopeIndexValue` refuses at the 15th page, of 10 rows at the 18th.

Overlap of throttled flights. singleFlight.ts:13 calls the task
of the throttled wrapper one "to run at most once concurrently". Its settlement clears the slot without asking whose
flight is in it (:45-47, :49-51), where `createSingleFlight` compares (:81). With
`resetOnRuntimeReset`, a flight that a reset has forgotten settles, clears the flight
that replaced it, and the next call runs the task a second time in one generation.

The throttle window. The option is documented to clear the window "so a stale window
never suppresses post-reset callers" (utils.singleFlight.types.ts:5). A forgotten
flight that succeeds after the reset opens the window all the same (:41), and callers
of the new generation get `undefined` although nothing was fetched for them.

Authority of a parent. The tests call for "the authoritative-parent filter that keeps a
same-batch snapshot ahead of derived counters"
(c-relation-effects-edge.test.tsx:17-20, :180). The filter knows parents that were
accepted with an origin (relations.ts:200). A chat whose row equals the stored one is
not accepted (commitEnvelope.ts:51), and the snapshot of an answer has no origin: in
both cases the new message beside it is counted on top of what the server said.

Counts after a swap. "Identity swaps do not create or remove a record"
(relations.ts:281-282). When an author's deletion has taken the draft along and counted
it out, the answer's row still comes in as a swap, with no count. Two more ways lead
there (section 8).

Dangling previews. The touch of a replacement is to keep the parent's preview from
dangling on the destroyed draft (CHANGELOG.md:114). If the server row has come with an
event before, the answer's equal row is not accepted and touches nothing, while the
draft is destroyed.

Two seats. "The FINAL committed row decides where an identity sits"
(defineModelRuntime.ts:133-135). A scope operation in a plan turns off the derived
membership of its model (relations.ts:206, :358), so a query that lands a moved row in
its new box leaves it a member of the old one.

## 8. Known limits of the checked statements

These are runs with other constants that do not hold, or paths left out, so that
nobody reads more into a passing run than it says:

Storage, ledger and rows:

- A torn landing leaves a temporary row that only a delta holds, which
  `quarantineOrphanTempRows` (bootFsck.ts:59-84) does not look at.
- Pin and mute are two patches of one row, pin the later one, and each response
  carries the whole row. Pin's response, made before the server handled mute,
  writes the old value into the field mute owns, since the overlay is not applied
  to writes of an operation (storeUpsertResolver.ts:39), and notes a newer
  revision; mute's own response then loses that field to causal admission, against
  CHANGELOG.md:843.
- Two patches write the same value into a field one after the other. The second
  begin changes nothing and notes no revision (transactions note what differs), so
  the answer to the first, with another value, still passes the causal admission of
  the first one's base: the field shows neither pending value, and the answer to the
  second is then screened out. `PendingHolds` and `OwnValueWins` fail with equal
  `ValueOf`, against CHANGELOG.md:843; the run gives the patches different values.
- A reset of incompatible data carries the outbox over and hydrates the ledger from
  it. If a kill interrupts it, the next boot completes it from the intent: `ops` is
  back on disk, but the ledger in memory has been emptied and is not hydrated
  (reset.ts:177-183). The next commit that moves an operation writes that ledger
  over `ops`, against schemaManifest.ts:94.
- transaction.ts:67-69 says that replaying covered deltas over a fresh snapshot
  converges. After a refused delta the snapshot alone holds the newer row; a kill
  between the entry and its marker lets an older delta overwrite it. No accepted
  commit is lost (`delta_log_kill`); the refused one, already on disk, is.
- Correlation replaces the draft of an operation of unknown delivery and leaves
  the operation open (modelWrites.ts:92-97), although docs/mutations.md:63-64 says
  that correlation resolves it.
- `StorageReset`: `ResetIsFinal` and `OutboxKept` speak of
  sessions in which no intent of a failed reset stands; what is done in such a
  session is wiped by the next boot. `OutboxKept` ends at a commit over a ledger
  that was not read (above). A boot
  that failed ends the session, and models that are only added,
  an intent nobody can read and the compaction of once keys are left out. That a
  schema migration deletes the deltas of all models is the code's intention
  (schemaManifest.ts:123-124).
- `OperationLedger`: a torn `start` or boot commit leaves an operation without its
  row, and nothing rebuilds it (bootFsck.ts:42-57 rebuilds those of pending requests);
  a torn discard leaves a draft without an operation; both are `torn`.
- With `Alike = TRUE` two equal drafts are matched oldest first
  (mutationCorrelation.ts:42 says servers confirm in order); `NoTwin` and
  `CommittedIsLanded` then fail when the server confirms them in the other order.
- With two inserts under one key `hasPending` disagrees with the ledger: `pendingKeys` is a set
  (operationState.ts:219-226).
- A ledger write that is refused while a request settles is not in
  `OperationLedger`; a query record written over a refused delta is not in
  `TailCut`.
- `RowCausality` has one row, the default write policy, no membership and no
  effect on other models, no local update (`Model.update` of an owned field goes
  under the overlay), no point query with `resurrectDestroyed`, and one operation
  per action, so that `retry` and `discard` by row id mean that operation.
  Pruning of closed operations (operationState.ts:405) would rebuild the index of a
  row in the order of the ledger; nothing outside tests calls it, and in the model only
  a boot does.
- A landing that changes nothing notes no revision, so an older answer that
  arrives later may overwrite a confirmed value; a retried patch restores the row
  captured at its first begin; a failed destroy restores a row the server has
  deleted meanwhile. The properties are stated around these.

Events:

- A `subscribe` that throws when a retry timer or a connectivity listener calls it
  reaches nobody and schedules nothing (subscriptionLifecycle.ts:153-167): the event
  stays silent until the next activation, against docs/ingest-live.md:42. One that
  throws at a definition or a restart leaves a slot that has owners without a
  runtime; its caller is told. The model calls both `forsaken`.
- A reset whose intent the storage refuses throws before any resetter has run,
  with the generation already advanced: the slots of the earlier generation stay
  open and deaf until a reset succeeds (`LeftBehind`).
- Not in the model: a reset or a definition that a synchronous delivery makes from
  inside the restart loop of another reset, a mount from inside a delivery, an
  unsubscribe of the transport that throws.

Queries:

- A cancelled observer reads again when an invalidation has outrun it; that request
  may land first and overtake the live call, which then returns the cached chain,
  and react-query stamps it fresh (defineQuery.ts:408-420, `overtaken`).
- A next page of an invalidated chain clears the flag and, persisted, the mark,
  though the first page was not asked for again: the properties speak of the
  request that last extended the chain.
- `reconcilers` is cleared by a reset (fetchReaderRegistry.ts:21) and queries register
  when they are defined: after `resetRuntime`, losses prune no chain until the
  definitions run again (`reconciling`).
- A loss during a fetch that succeeds is dropped (`late`), and a cancellation puts the
  invalidated flag back to what it was when the fetch began (`reverted`).
- Not in the model: the fields of react-query 5.101 beyond what is named, offline
  fetches, windows that are null, zero or infinite, two declarations over one scope,
  a write plan that invalidates its own query.

Scopes:

- A destroyed row is restored at the key it had (modelWrites.ts:71-78). A row that
  joined or was renumbered meanwhile may have that key: nothing validates the
  delta, and the next start drops every membership of the scope, since two members
  may not share a key (scopeIndex.ts:20-31). The model calls it `collided`.
- `keyBetween` does not throw for equal bounds and for bounds one of which begins
  with the other, against orderKey.ts:20.
- Two deltas without keys for one scope in one commit are both placed behind the
  committed tail (commitEnvelope.ts:133-146).
- Not in the model: scopes with a sort, generation and coverage, window reads, order
  revisions, staging inside a commit, and `keyBefore`, `keyAfter` and `remove`, which
  nothing outside tests calls.

Reads:

- The dependencies of a `belongsTo` read follow the data. When the foreign key
  changes but the value does not (no parent before and none after), nothing
  renders, the subscription keeps the old dependencies (modelReactiveReads.ts:117-128),
  and the arrival of the new parent is not noticed.
- A reset between a render with a new key and its effects: the closure of the old
  key holds the old key again, with the new declaration (useModelQuery.ts:40-49,
  84-97), and a query under that key no longer means one declaration.
- A compute or a listener that throws ends the loop of `publish`; interrupted
  concurrent renders, `configureDb`'s `publishAll`, `hasOne`, references, `byIds`, `find`,
  single fields, operation state, projections and scope windows are not in the model.

Relation effects:

- An event that overtakes the answer under no correlator counts its row beside the
  draft, and the replacement takes neither back (`unpaired`). A row deleted before its
  answer comes takes the draft away uncounted (modelWrites.ts:106-108).
- A message inserted and destroyed, or moved there and back, in one plan, and one that
  a cascade takes in the plan that brings it: memberships are derived phase by phase
  against the committed scopes (modelMembership.ts:18-19), and the last derived entry
  wins over what the plan set out with.
- Plans of the model have up to three facts, the first two about one message where
  there are three. Counters are derived once per row and phase (`counted`,
  relations.ts:325-345): a plan that inserts and destroys one row three times in turn moves
  the count by other than the difference, and the model takes its count for what it is
  (`Drifted`). A message destroyed, brought again and left by its chat is an orphan
  (section 7).
- A query that leaves a member out and lands its row elsewhere, and a plan with more
  than one scope operation, are `astray` too.
- Snapshots move no count: a chat's count is what the server last said plus what
  events, drafts and destroys did since. An answer that tells the count while another
  draft is open does not know of that draft, whose failure then counts it out.
- Not in the model: a foreign key or a time that changes (counters do not follow it),
  an author that comes back, counter filters, several relations to one parent, an ensured query that lands as
  events (defineQuery.ts:295), rows in place of the draft's own id, nested payloads,
  causal revisions and owned fields (`RowCausality`), order keys (`ScopeIndex`).

## 9. Not modelled

Schema, codecs, where compilers and serialisation are pure conversions of values
no property tells apart. Diagnostics and logging have no effect on state. The
windowed and merged reads are React hooks over committed state; that a commit
reaches a mounted read is in `LiveReads`. Configuration is wiring; its generations
are in `EventRegistry`. Maintenance deletes rows through ordinary commits.
Quarantine is a list beside the store. The landing of nested payloads
(`dsl/modelLandingGraph.ts`) turns one answer into rows of several models, which
`RelationEffects` takes as plans. The compiled copies under `lib/` are the same
program as `src/`. `PROJECT.json` lists every part.
