---------------------------- MODULE StorageReset ----------------------------
(***************************************************************************)
(* The namespace wipe (core/reset.ts) and the reconciliation of persisted  *)
(* data with the application that opens it (core/schemaManifest.ts).  The  *)
(* user's reset, the reset of incompatible data, which carries operations  *)
(* and quarantine over, and the resumption of a reset a kill interrupted   *)
(* are one procedure under a persisted intent.                             *)
(*                                                                         *)
(* Every storage write is an action, as in DeltaLog: the process may be    *)
(* killed before it and the storage may refuse it.  Between two sessions   *)
(* another version of the application, newer or older, may be installed:   *)
(* reconciliation compares for equality.  The content of a key is what the *)
(* properties tell apart: the version of the application that wrote it,    *)
(* the era it was written in (resets of the user so far), and the items of *)
(* the operation ledger and of the quarantine.                             *)
(***************************************************************************)
EXTENDS Naturals, FiniteSets

CONSTANTS
    Models,      \* the models of the application
    Versions,    \* its versions, 1 .. n
    DataOf,      \* their format and data version
    SchemaOf,    \* their schema fingerprints, model by model
    Operations,  \* what the user puts into the outbox, as positive numbers
    Tickets,     \* what may be quarantined, as positive numbers
    MaxKills,    \* bound on the kills
    MaxResets,   \* bound on the resets of the user
    MaxRefusals  \* bound on the writes the storage refuses

ASSUME VersionAssumption ==
    /\ IsFiniteSet(Versions) /\ Versions # {} /\ Versions = 1 .. Cardinality(Versions)
    /\ DOMAIN DataOf = Versions /\ DOMAIN SchemaOf = Versions
    /\ \A v, w \in Versions : DataOf[v] = DataOf[w] /\ SchemaOf[v] = SchemaOf[w] => v = w
ASSUME ItemAssumption == Operations \cup Tickets \subseteq Nat \ {0}
ASSUME BoundAssumption == MaxKills \in Nat /\ MaxResets \in Nat /\ MaxRefusals \in Nat

Rows      == {<<"rows", m>> : m \in Models}       \* rows, scopes and tombstones
Markers   == {<<"snapseq", m>> : m \in Models}
Deltas    == {<<"delta">>}
CacheKeys == Rows \cup Markers \cup Deltas
Manifest  == <<"manifest">>
Outbox    == <<"ops">>
Quarantine == <<"quarantine">>
Keys      == CacheKeys \cup {Manifest, Outbox, Quarantine}

Nothing          == [version |-> 0, era |-> 0, items |-> {}]
Written(v, e)    == [version |-> v, era |-> e, items |-> {}]
Holding(items)   == [version |-> 0, era |-> 0, items |-> items]
NoIntent         == [k \in {} |-> Nothing]
Unread           == {0}

VARIABLES
    (* the storage *)
    disk,     \* the keys of the namespace, Nothing where there is none
    intent,   \* the reset-intent record: what the reset restores
    (* the process *)
    pc,
    app,      \* the version that runs
    ledger,   \* the operations in memory, Unread before the first access
    why,      \* whose reset is running: "user", "resume" or "incompatible"
    restore,  \* what it restores
    todo,     \* the keys the current loop has still to write
    failed,   \* the storage has refused a write of this reset
    (* bounds *)
    kills, refusals,
    (* history *)
    era,      \* resets of the user
    outbox,   \* operations begun in this era
    tickets,  \* quarantined in this era
    blind     \* a commit has written the ledger without having read it

process == <<pc, app, ledger, why, restore, todo, failed>>
history == <<era, outbox, tickets, blind>>
vars    == <<disk, intent, process, kills, refusals, history>>

Present == {k \in Keys : disk[k] # Nothing}

Init ==
    /\ disk = [k \in Keys |-> Nothing]
    /\ intent = NoIntent
    /\ pc = "down" /\ app = 1 /\ ledger = Unread
    /\ why = "user" /\ restore = NoIntent /\ todo = {} /\ failed = FALSE
    /\ kills = 0 /\ refusals = 0
    /\ era = 0 /\ outbox = {} /\ tickets = {} /\ blind = FALSE

-----------------------------------------------------------------------------
(* The session *)

\* getOperationState reads the ledger at its first use.
Hydrated(items) == IF items = Unread THEN disk[Outbox].items ELSE items

(* A commit that begins an operation writes the whole ledger from memory.  *)
(* What is begun while the intent of a failed reset stands is not counted: *)
(* the next boot completes that reset.                                     *)
BeginOp(o) ==
    /\ pc = "running" /\ o \notin outbox \cup ledger
    /\ ledger' = Hydrated(ledger) \cup {o}
    /\ disk' = [disk EXCEPT ![Outbox] = Holding(ledger')]
    /\ outbox' = IF intent = NoIntent THEN outbox \cup {o} ELSE outbox
    /\ blind' = (blind \/ Hydrated(ledger) # disk[Outbox].items)
    /\ UNCHANGED <<intent, pc, app, why, restore, todo, failed, kills, refusals, era, tickets>>

\* The quarantine is read and written on the storage.
PutQuarantine(t) ==
    /\ pc = "running" /\ intent = NoIntent
    /\ disk' = [disk EXCEPT ![Quarantine] = Holding(@.items \cup {t})]
    /\ tickets' = tickets \cup {t}
    /\ UNCHANGED <<intent, process, kills, refusals, era, outbox, blind>>

\* A delta, or a snapshot entry or marker of the flush.
WriteCache(k) ==
    /\ pc = "running"
    /\ disk' = [disk EXCEPT ![k] = Written(app, era)]
    /\ UNCHANGED <<intent, process, kills, refusals, history>>

-----------------------------------------------------------------------------
(* The reset *)

\* withCurrentManifest: every wipe restores a manifest.
WithManifest(entries) ==
    [k \in DOMAIN entries \cup {Manifest} |-> IF k \in DOMAIN entries THEN entries[k] ELSE Written(app, 0)]

StartReset(entries, reason) ==
    /\ restore' = WithManifest(entries)
    /\ why' = reason
    /\ pc' = "intent"
    /\ todo' = {} /\ failed' = FALSE

UserReset ==
    /\ pc = "running" /\ era < MaxResets
    /\ StartReset(NoIntent, "user")
    /\ UNCHANGED <<disk, intent, app, ledger, kills, refusals, history>>

\* Mutated WriteIntent: the intent names the manifest alone.
WriteBareIntent ==
    /\ pc = "intent"
    /\ intent' = [k \in {Manifest} |-> restore[k]]
    /\ pc' = "clear" /\ todo' = Present
    /\ era' = IF why = "user" THEN era + 1 ELSE era
    /\ outbox' = IF why = "user" THEN {} ELSE outbox
    /\ tickets' = IF why = "user" THEN {} ELSE tickets
    /\ UNCHANGED <<disk, app, ledger, why, restore, failed, kills, refusals, blind>>

WriteIntent ==
    /\ pc = "intent"
    /\ intent' = restore
    /\ pc' = "clear" /\ todo' = Present
    /\ era' = IF why = "user" THEN era + 1 ELSE era
    /\ outbox' = IF why = "user" THEN {} ELSE outbox
    /\ tickets' = IF why = "user" THEN {} ELSE tickets
    /\ UNCHANGED <<disk, app, ledger, why, restore, failed, kills, refusals, blind>>

\* clearStorage, over the keys it has listed when it began.
ClearKey(k) ==
    /\ pc \in {"clear", "clear again"} /\ k \in todo
    /\ disk' = [disk EXCEPT ![k] = Nothing]
    /\ todo' = todo \ {k}
    /\ UNCHANGED <<intent, pc, app, ledger, why, restore, failed, kills, refusals, history>>

\* What a resetter or a reader may write into the namespace of what it still holds.
WriteBack ==
    \/ UNCHANGED disk
    \/ \E k \in CacheKeys, e \in 0 .. era : disk' = [disk EXCEPT ![k] = Written(app, e)]

\* Mutated ForgetMemory: no second pass over the storage.
ForgetMemoryLast ==
    /\ pc = "clear" /\ todo = {}
    /\ ledger' = {}
    /\ WriteBack
    /\ pc' = "restore"
    /\ todo' = DOMAIN restore
    /\ UNCHANGED <<intent, app, why, restore, failed, kills, refusals, history>>

(* The registered resetters, the reset of the ledger and publishAll: what  *)
(* they call may write to the storage.                                     *)
ForgetMemory ==
    /\ pc = "clear" /\ todo = {}
    /\ ledger' = {}
    /\ WriteBack
    /\ pc' = "clear again"
    /\ todo' = {k \in Keys : disk'[k] # Nothing}
    /\ UNCHANGED <<intent, app, why, restore, failed, kills, refusals, history>>

StartRestore ==
    /\ pc = "clear again" /\ todo = {}
    /\ pc' = "restore" /\ todo' = DOMAIN restore
    /\ UNCHANGED <<disk, intent, app, ledger, why, restore, failed, kills, refusals, history>>

RestoreEntry(k) ==
    /\ pc = "restore" /\ k \in todo
    /\ k = Manifest \/ Manifest \notin todo
    /\ disk' = [disk EXCEPT ![k] = restore[k]]
    /\ todo' = todo \ {k}
    /\ UNCHANGED <<intent, pc, app, ledger, why, restore, failed, kills, refusals, history>>

\* A reset that fails throws: into the session that called it, or out of the boot.
Failed == IF why = "user" THEN "running" ELSE "stopped"

(* The reset of incompatible data hydrates the ledger it has carried over; *)
(* a resumed reset goes on with the reconciliation.                        *)
DropIntent ==
    /\ pc = "restore" /\ todo = {}
    /\ intent' = NoIntent
    /\ pc' = CASE failed -> Failed [] why = "resume" -> "reconcile" [] OTHER -> "running"
    /\ ledger' = IF why = "incompatible" /\ ~failed THEN disk[Outbox].items ELSE ledger
    /\ UNCHANGED <<disk, app, why, restore, todo, failed, kills, refusals, history>>

-----------------------------------------------------------------------------
(* The boot *)

(* The application starts, as it was, updated or put back to an older      *)
(* version, and completes the reset that the intent describes.             *)
Boot(v) ==
    /\ pc = "down"
    /\ app' = v
    /\ ledger' = Unread
    /\ IF intent = NoIntent
       THEN pc' = "reconcile" /\ UNCHANGED <<why, restore, todo, failed>>
       ELSE StartReset(intent, "resume")
    /\ UNCHANGED <<disk, intent, kills, refusals, history>>

Stored == disk[Manifest].version

Incompatible ==
    IF disk[Manifest] = Nothing THEN Present # {} ELSE DataOf[Stored] # DataOf[app]

Carried == [k \in {Manifest} \cup ({Outbox, Quarantine} \cap Present) |->
                IF k = Manifest THEN Written(app, 0) ELSE disk[k]]

ResetIncompatible ==
    /\ pc = "reconcile" /\ Incompatible
    /\ StartReset(Carried, "incompatible")
    /\ UNCHANGED <<disk, intent, app, ledger, kills, refusals, history>>

Affected == IF disk[Manifest] = Nothing THEN {} ELSE {m \in Models : SchemaOf[Stored][m] # SchemaOf[app][m]}

\* Mutated MigrationKeys: the deltas stay.
MigrationKeysOfModels == {<<"rows", m>> : m \in Affected} \cup {<<"snapseq", m>> : m \in Affected}

MigrationKeys == {<<"rows", m>> : m \in Affected} \cup {<<"snapseq", m>> : m \in Affected} \cup Deltas

StartMigration ==
    /\ pc = "reconcile" /\ ~Incompatible /\ Affected # {}
    /\ pc' = "migrate" /\ todo' = MigrationKeys
    /\ UNCHANGED <<disk, intent, app, ledger, why, restore, failed, kills, refusals, history>>

\* Models first, then the deltas, then the markers.
MigrateKey(k) ==
    /\ pc = "migrate" /\ k \in todo
    /\ k \in Rows \/ todo \cap Rows = {}
    /\ k \in Markers => Deltas \cap todo = {}
    /\ disk' = [disk EXCEPT ![k] = Nothing]
    /\ todo' = todo \ {k}
    /\ UNCHANGED <<intent, pc, app, ledger, why, restore, failed, kills, refusals, history>>

\* At the end of a migration, and over an empty storage.
WriteManifest ==
    /\ \/ pc = "reconcile" /\ Present = {}
       \/ pc = "migrate" /\ todo = {}
    /\ disk' = [disk EXCEPT ![Manifest] = Written(app, 0)]
    /\ pc' = "running"
    /\ UNCHANGED <<intent, app, ledger, why, restore, todo, failed, kills, refusals, history>>

Compatible ==
    /\ pc = "reconcile" /\ Present # {} /\ ~Incompatible /\ Affected = {}
    /\ pc' = "running"
    /\ UNCHANGED <<disk, intent, app, ledger, why, restore, todo, failed, kills, refusals, history>>

-----------------------------------------------------------------------------
(* Refused writes, kills *)

(* The first pass over the storage ends at a refusal and the reset goes on *)
(* to the memory; any other refusal ends it, and a written intent stays.   *)
Refuse ==
    /\ refusals < MaxRefusals
    /\ refusals' = refusals + 1
    /\ failed' = TRUE
    /\ \/ pc = "intent" /\ pc' = Failed /\ ledger' = Unread
       \/ pc = "clear" /\ todo # {} /\ UNCHANGED <<pc, ledger>>
       \/ pc = "clear again" /\ todo # {} /\ pc' = Failed /\ UNCHANGED ledger
       \/ pc = "restore" /\ pc' = Failed /\ UNCHANGED ledger
       \/ (pc = "migrate" \/ (pc = "reconcile" /\ Present = {})) /\ pc' = "stopped" /\ UNCHANGED ledger
    /\ todo' = {}
    /\ UNCHANGED <<disk, intent, app, why, restore, kills, history>>

Kill ==
    /\ pc # "down" /\ kills < MaxKills
    /\ kills' = kills + 1
    /\ pc' = "down" /\ todo' = {} /\ restore' = NoIntent /\ failed' = FALSE
    /\ UNCHANGED <<disk, intent, app, ledger, why, refusals, history>>

\* A manifest nobody can read, from a format before the present one.
Spoil ==
    /\ pc = "down" /\ disk[Manifest] # Nothing /\ kills < MaxKills
    /\ kills' = kills + 1
    /\ disk' = [disk EXCEPT ![Manifest] = Nothing]
    /\ UNCHANGED <<intent, process, refusals, history>>

-----------------------------------------------------------------------------
Session ==
    \/ \E o \in Operations : BeginOp(o)
    \/ \E t \in Tickets : PutQuarantine(t)
    \/ \E k \in CacheKeys : WriteCache(k)
    \/ UserReset

ResetStep ==
    \/ WriteIntent \/ ForgetMemory \/ StartRestore \/ DropIntent
    \/ \E k \in Keys : ClearKey(k) \/ RestoreEntry(k)

BootStep ==
    \/ \E v \in Versions : Boot(v)
    \/ ResetIncompatible \/ StartMigration \/ WriteManifest \/ Compatible
    \/ \E k \in CacheKeys : MigrateKey(k)

Next == Session \/ ResetStep \/ BootStep \/ Refuse \/ Kill \/ Spoil

Spec == Init /\ [][Next]_vars
=============================================================================
