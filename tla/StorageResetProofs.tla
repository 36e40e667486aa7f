------------------------- MODULE StorageResetProofs -------------------------
(***************************************************************************)
(* Theorems about the reset and the reconciliation, for any models,        *)
(* versions, items and bounds: a reset is final, no session reads cache    *)
(* its schema does not fit, the outbox and the quarantine stay.            *)
(*                                                                         *)
(* Each is about a running session without a standing intent.  The         *)
(* invariant says what every phase of a reset, of a migration and of a     *)
(* stopped process hands on to that session.                               *)
(***************************************************************************)
EXTENDS StorageResetProps, FiniteSetTheorems, TLAPS

Items(entries, k) == IF k \in DOMAIN entries THEN entries[k].items ELSE {}

Wiping  == pc \in {"clear", "clear again", "restore"}
InReset == Wiping \/ pc = "intent"

(* The outbox holds operations, wherever it is at the moment.              *)
OutboxTyped ==
    /\ disk[Outbox].items \subseteq Operations
    /\ Items(intent, Outbox) \subseteq Operations
    /\ Items(restore, Outbox) \subseteq Operations

(* What a standing intent and a running reset restore: a manifest, items   *)
(* of this era, no cache.                                                  *)
Restorable(entries) == Manifest \in DOMAIN entries /\ DOMAIN entries \cap CacheKeys = {}
OfThisEra(entries) ==
    /\ Items(entries, Outbox) \subseteq outbox
    /\ Items(entries, Quarantine) \subseteq tickets
IntentKept ==
    /\ intent = NoIntent \/ Restorable(intent)
    /\ OfThisEra(intent)
    /\ pc \in {"reconcile", "migrate"} => intent = NoIntent
SameItems(entries, others) ==
    /\ Items(entries, Outbox) = Items(others, Outbox)
    /\ Items(entries, Quarantine) = Items(others, Quarantine)
RestoreKept ==
    InReset =>
        /\ Restorable(restore)
        /\ Wiping => intent = restore
        /\ why # "resume" => restore[Manifest] = Written(app, 0)
        /\ why = "user" => DOMAIN restore = {Manifest}
        /\ pc = "intent" /\ why = "user" => era < MaxResets
        /\ pc = "intent" /\ why = "resume" => intent # NoIntent /\ SameItems(restore, intent)
        /\ pc = "intent" /\ why = "incompatible" => intent = NoIntent /\ SameItems(restore, disk)

(* The second pass ends over an empty storage, and from there on the       *)
(* storage is what has been restored so far.                               *)
Wiped ==
    /\ pc = "clear again" => Present \subseteq todo /\ ledger = {}
    /\ pc = "restore" =>
        /\ todo \subseteq DOMAIN restore /\ ledger = {}
        /\ \A k \in Keys : disk[k] = IF k \in DOMAIN restore \ todo THEN restore[k] ELSE Nothing

(* Without an intent the storage is of this era, whatever the process does.*)
StorageClean ==
    intent = NoIntent =>
        /\ \A k \in CacheKeys : disk[k] = Nothing \/ disk[k].era = era
        /\ OfThisEra(disk)
LedgerClean ==
    intent = NoIntent /\ pc \notin {"down", "stopped"} => ledger = Unread \/ ledger \subseteq outbox

(* The cache fits the manifest it stands beside, and the application while *)
(* a session runs or resets on behalf of the user.                         *)
SameSchema(k, v, w) ==
    /\ DataOf[v] = DataOf[w]
    /\ \A m \in Models : k \in {<<"rows", m>>, <<"snapseq", m>>} \cup Deltas => SchemaOf[v][m] = SchemaOf[w][m]
CacheOf(v) == \A k \in CacheKeys : disk[k] = Nothing \/ SameSchema(k, disk[k].version, v)
ManifestFits == intent = NoIntent /\ disk[Manifest] # Nothing => CacheOf(Stored)
Current(v, w) == DataOf[v] = DataOf[w] /\ \A m \in Models : SchemaOf[v][m] = SchemaOf[w][m]
ManifestCurrent ==
    intent = NoIntent /\ (pc = "running" \/ (pc = "intent" /\ why = "user")) =>
        disk[Manifest] # Nothing /\ Current(Stored, app)
SessionFits == pc = "running" \/ (InReset /\ why = "user") => CacheOf(app)
Migrating ==
    pc = "migrate" =>
        /\ disk[Manifest] # Nothing /\ DataOf[Stored] = DataOf[app]
        /\ \A k \in MigrationKeys \ todo : disk[k] = Nothing

(* The items are on the disk, or in the intent that will put them back.    *)
Keeps(entries) == outbox \subseteq Items(entries, Outbox) /\ tickets \subseteq Items(entries, Quarantine)
ItemsKept == ~ blind => IF intent = NoIntent THEN Keeps(disk) ELSE Keeps(intent)

ResetInv   == IntentKept /\ RestoreKept /\ Wiped
EraInv     == StorageClean /\ LedgerClean
VersionInv == ManifestFits /\ ManifestCurrent /\ SessionFits /\ Migrating
IInv       == TypeOK /\ OutboxTyped /\ ResetInv /\ EraInv /\ VersionInv /\ ItemsKept

-----------------------------------------------------------------------------
(* The keys *)

\* A cache key is none of the three others, and these are three.
LEMMA KeysDiffer ==
    /\ Manifest \notin CacheKeys /\ Outbox \notin CacheKeys /\ Quarantine \notin CacheKeys
    /\ Manifest # Outbox /\ Manifest # Quarantine /\ Outbox # Quarantine
    /\ Keys = CacheKeys \cup {Manifest, Outbox, Quarantine}
BY DEF Keys, CacheKeys, Rows, Markers, Deltas, Manifest, Outbox, Quarantine

\* An entry that has been written is something.
LEMMA WrittenFacts ==
    /\ \A v, e : Written(v, e).version = v /\ Written(v, e).era = e /\ Written(v, e).items = {}
    /\ \A items : Holding(items).items = items
    /\ Nothing.items = {}
    /\ \A v \in Versions : \A e : Written(v, e) # Nothing
<1>1. \A v, e : Written(v, e).version = v /\ Written(v, e).era = e /\ Written(v, e).items = {}
  BY DEF Written
<1>2. (\A items : Holding(items).items = items) /\ Nothing.items = {} /\ Nothing.version = 0
  BY DEF Holding, Nothing
<1>3. 0 \notin Versions
  <2>1. \A n : 0 \notin 1 .. n
    OBVIOUS
  <2> QED  BY <2>1, VersionAssumption
<1>4. \A v \in Versions : \A e : Written(v, e) # Nothing
  BY <1>1, <1>2, <1>3
<1> QED  BY <1>1, <1>2, <1>4

\* The empty record of an intent, and what withCurrentManifest adds to a record.
LEMMA RestoredEntries ==
    /\ DOMAIN NoIntent = {}
    /\ DOMAIN WithManifest(NoIntent) = {Manifest}
    /\ WithManifest(NoIntent)[Manifest] = Written(app, 0)
    /\ \A entries :
        /\ DOMAIN WithManifest(entries) = DOMAIN entries \cup {Manifest}
        /\ \A k \in DOMAIN entries : WithManifest(entries)[k] = entries[k]
BY DEF NoIntent, WithManifest

\* What the reset of incompatible data carries over.
LEMMA CarriedEntries ==
    /\ Restorable(Carried) /\ Carried[Manifest] = Written(app, 0)
    /\ disk \in [Keys -> Entries] => SameItems(Carried, disk)
BY KeysDiffer, WrittenFacts DEF Carried, Restorable, SameItems, Items, Present, Keys

-----------------------------------------------------------------------------
(* Types *)

Typed(entries) == \A k \in DOMAIN entries : k \in Keys /\ entries[k] \in Entries
DiskTyped == disk \in [Keys -> Entries]
ScalarsTyped ==
    /\ pc \in {"down", "stopped", "running", "intent", "clear", "clear again", "restore", "reconcile", "migrate"}
    /\ app \in Versions
    /\ ledger \in (SUBSET Operations) \cup {Unread}
    /\ why \in {"user", "resume", "incompatible"}
    /\ todo \subseteq Keys /\ failed \in BOOLEAN
    /\ kills \in 0 .. MaxKills /\ refusals \in 0 .. MaxRefusals /\ era \in 0 .. MaxResets
    /\ outbox \subseteq Operations /\ tickets \subseteq Tickets /\ blind \in BOOLEAN

\* The type invariant, in the parts that steps disturb apart.
LEMMA TypeParts == TypeOK <=>
   /\ DiskTyped /\ Typed(intent) /\ Typed(restore) /\ ScalarsTyped
   /\ pc \in {"clear", "clear again", "restore"} => Manifest \in DOMAIN intent
BY DEF TypeOK, DiskTyped, Typed, ScalarsTyped

\* What the program writes is an entry.
LEMMA EntryTypes ==
   /\ \A v \in Versions, e \in 0 .. MaxResets : Written(v, e) \in Entries
   /\ \A items : items \subseteq Operations \cup Tickets => Holding(items) \in Entries
   /\ Nothing \in Entries
   /\ \A c \in Entries : c.items \subseteq Operations \cup Tickets
BY BoundAssumption DEF Entries, Written, Holding, Nothing

\* A counter below its bound can be raised.
LEMMA Counted == \A n, m : m \in Nat /\ n \in 0 .. m /\ n < m => n + 1 \in 0 .. m
OBVIOUS

\* What the three callers of a reset restore is typed.
LEMMA WithManifestTyped ==
   /\ Typed(NoIntent)
   /\ \A entries : Typed(entries) /\ app \in Versions => Typed(WithManifest(entries))
   /\ DiskTyped /\ app \in Versions => Typed(Carried)
<1>1. Typed(NoIntent)
  BY DEF Typed, NoIntent
<1>2. app \in Versions => Written(app, 0) \in Entries
  BY EntryTypes, BoundAssumption
<1>3. ASSUME NEW entries, Typed(entries), app \in Versions PROVE Typed(WithManifest(entries))
  BY <1>2, <1>3, KeysDiffer DEF Typed, WithManifest
<1>4. DiskTyped /\ app \in Versions => Typed(Carried)
  BY <1>2, KeysDiffer DEF DiskTyped, Typed, Carried
<1> QED  BY <1>1, <1>3, <1>4

\* The typing facts the invariant gives.
LEMMA TypesKept == IInv => TypeOK /\ DiskTyped /\ Typed(intent) /\ Typed(restore) /\ ScalarsTyped
BY TypeParts DEF IInv

\* The ledger a commit writes holds operations.
LEMMA BeginsTyped == ASSUME IInv, NEW o \in Operations, BeginOp(o) PROVE ledger' \subseteq Operations
<1>1. ledger = Unread \/ ledger \subseteq Operations
  BY TypesKept DEF ScalarsTyped
<1>2. disk[Outbox].items \subseteq Operations
  BY DEF IInv, OutboxTyped
<1>3. Hydrated(ledger) \subseteq Operations
  BY <1>1, <1>2 DEF Hydrated
<1> QED  BY <1>3 DEF BeginOp

\* Every write puts a well formed entry under a key of the namespace.
LEMMA DiskTypeStep == IInv /\ Next => DiskTyped'
<1> SUFFICES ASSUME IInv, Next PROVE DiskTyped'
  OBVIOUS
<1> USE TypesKept DEF DiskTyped, process, history
<1>1. CASE \/ UserReset \/ WriteIntent \/ StartRestore \/ DropIntent
           \/ (\E v \in Versions : Boot(v)) \/ ResetIncompatible \/ StartMigration \/ Compatible
           \/ Refuse \/ Kill
  BY <1>1 DEF UserReset, WriteIntent, StartRestore, DropIntent, Boot, ResetIncompatible,
      StartMigration, Compatible, Refuse, Kill
<1>2. ASSUME NEW o \in Operations, BeginOp(o) PROVE DiskTyped'
  BY <1>2, EntryTypes, BeginsTyped DEF BeginOp, Keys
<1>3. ASSUME NEW t \in Tickets, PutQuarantine(t) PROVE DiskTyped'
  BY <1>3, EntryTypes DEF PutQuarantine, Keys
<1>4. ASSUME NEW k \in CacheKeys, WriteCache(k) PROVE DiskTyped'
  BY <1>4, EntryTypes DEF WriteCache, ScalarsTyped, Keys
<1>5. CASE ForgetMemory
  <2>1. \A k \in CacheKeys, e \in 0 .. era : k \in Keys /\ Written(app, e) \in Entries
    <3>1. app \in Versions /\ era \in 0 .. MaxResets
      BY DEF ScalarsTyped
    <3>2. \A e \in 0 .. era : e \in 0 .. MaxResets
      BY <3>1, BoundAssumption
    <3> QED  BY <3>1, <3>2, EntryTypes, KeysDiffer
  <2> QED  BY <1>5, <2>1 DEF ForgetMemory, WriteBack
<1>6. ASSUME NEW k \in Keys, ClearKey(k) PROVE DiskTyped'
  BY <1>6, EntryTypes DEF ClearKey
<1>7. ASSUME NEW k \in Keys, RestoreEntry(k) PROVE DiskTyped'
  BY <1>7 DEF RestoreEntry, Typed, IInv, ResetInv, Wiped
<1>8. CASE WriteManifest
  <2>1. Written(app, 0) \in Entries
    <3>1. app \in Versions
      BY DEF ScalarsTyped
    <3>2. 0 \in 0 .. MaxResets
      BY BoundAssumption
    <3> QED  BY <3>1, <3>2, EntryTypes
  <2> QED  BY <1>8, <2>1 DEF WriteManifest
<1>9. ASSUME NEW k \in CacheKeys, MigrateKey(k) PROVE DiskTyped'
  BY <1>9, EntryTypes DEF MigrateKey, Keys
<1>10. CASE Spoil
  BY <1>10, EntryTypes DEF Spoil
<1> QED
  BY <1>1, <1>2, <1>3, <1>4, <1>5, <1>6, <1>7, <1>8, <1>9, <1>10 DEF Next, Session, ResetStep,
      BootStep

\* The intent record is written from what a reset restores, or dropped.
LEMMA IntentTypeStep == IInv /\ Next => Typed(intent)'
<1> SUFFICES ASSUME IInv, Next PROVE Typed(intent)'
  OBVIOUS
<1> USE TypesKept DEF Typed, process, history
<1>1. CASE \/ (\E o \in Operations : BeginOp(o)) \/ (\E t \in Tickets : PutQuarantine(t))
           \/ (\E k \in CacheKeys : WriteCache(k)) \/ UserReset \/ ForgetMemory \/ StartRestore
           \/ (\E k \in Keys : ClearKey(k)) \/ (\E k \in Keys : RestoreEntry(k))
           \/ (\E v \in Versions : Boot(v)) \/ ResetIncompatible \/ StartMigration \/ WriteManifest
           \/ Compatible \/ (\E k \in CacheKeys : MigrateKey(k)) \/ Refuse \/ Kill \/ Spoil
  BY <1>1 DEF BeginOp, PutQuarantine, WriteCache, UserReset, ForgetMemory, StartRestore,
      ClearKey, RestoreEntry, Boot, ResetIncompatible, StartMigration, WriteManifest,
      Compatible, MigrateKey, Refuse, Kill, Spoil
<1>2. CASE WriteIntent
  BY <1>2 DEF WriteIntent
<1>3. CASE DropIntent
  BY <1>3, RestoredEntries DEF DropIntent
<1> QED
  BY <1>1, <1>2, <1>3 DEF Next, Session, ResetStep, BootStep

\* What a reset restores is empty, a former intent, or what the storage holds.
LEMMA RestoreTypeStep == IInv /\ Next => Typed(restore)'
<1> SUFFICES ASSUME IInv, Next PROVE Typed(restore)'
  OBVIOUS
<1> USE TypesKept DEF process, history
<1>1. CASE \/ (\E o \in Operations : BeginOp(o)) \/ (\E t \in Tickets : PutQuarantine(t))
           \/ (\E k \in CacheKeys : WriteCache(k)) \/ WriteIntent \/ ForgetMemory \/ StartRestore
           \/ DropIntent \/ (\E k \in Keys : ClearKey(k)) \/ (\E k \in Keys : RestoreEntry(k))
           \/ StartMigration \/ WriteManifest \/ Compatible \/ (\E k \in CacheKeys : MigrateKey(k))
           \/ Refuse \/ Spoil
  BY <1>1 DEF BeginOp, PutQuarantine, WriteCache, WriteIntent, ForgetMemory, StartRestore,
      DropIntent, ClearKey, RestoreEntry, StartMigration, WriteManifest, Compatible, MigrateKey,
      Refuse, Spoil, Typed
<1>2. CASE UserReset
  BY <1>2, WithManifestTyped DEF UserReset, StartReset, ScalarsTyped
<1>3. ASSUME NEW v \in Versions, Boot(v) PROVE Typed(restore)'
  BY <1>3, WithManifestTyped DEF Boot, StartReset, ScalarsTyped
<1>4. CASE ResetIncompatible
  BY <1>4, WithManifestTyped DEF ResetIncompatible, StartReset, ScalarsTyped
<1>5. CASE Kill
  BY <1>5, WithManifestTyped DEF Kill
<1> QED
  BY <1>1, <1>2, <1>3, <1>4, <1>5 DEF Next, Session, ResetStep, BootStep

\* The process, the bounds and the history stay in range.
LEMMA ScalarTypeStep == IInv /\ Next => ScalarsTyped'
<1> SUFFICES ASSUME IInv, Next PROVE ScalarsTyped'
  OBVIOUS
<1> USE TypesKept DEF ScalarsTyped, process, history
<1>1. CASE \/ (\E t \in Tickets : PutQuarantine(t)) \/ (\E k \in CacheKeys : WriteCache(k))
           \/ (\E k \in Keys : ClearKey(k)) \/ WriteManifest \/ Compatible
           \/ (\E k \in CacheKeys : MigrateKey(k))
  BY <1>1 DEF PutQuarantine, WriteCache, ClearKey, WriteManifest, Compatible, MigrateKey
<1>2. ASSUME NEW o \in Operations, BeginOp(o) PROVE ScalarsTyped'
  BY <1>2 DEF BeginOp, Hydrated, IInv, OutboxTyped
<1>3. CASE UserReset
  BY <1>3, BoundAssumption DEF UserReset, StartReset
<1>4. CASE WriteIntent
  BY <1>4, BoundAssumption, Counted DEF WriteIntent, Present, IInv, ResetInv, RestoreKept, InReset
<1>5. CASE ForgetMemory
  BY <1>5 DEF ForgetMemory
<1>6. CASE StartRestore
  BY <1>6 DEF StartRestore, Typed
<1>7. CASE DropIntent
  BY <1>7 DEF DropIntent, Failed, IInv, OutboxTyped
<1>8. ASSUME NEW k \in Keys, RestoreEntry(k) PROVE ScalarsTyped'
  BY <1>8 DEF RestoreEntry, Typed
<1>9. ASSUME NEW v \in Versions, Boot(v) PROVE ScalarsTyped'
  <2>1. UNCHANGED <<kills, refusals, era, outbox, tickets, blind>>
    BY <1>9 DEF Boot
  <2>2. app' \in Versions /\ ledger' = Unread
    BY <1>9 DEF Boot
  <2>3. CASE intent = NoIntent
    BY <1>9, <2>1, <2>2, <2>3 DEF Boot
  <2>4. CASE intent # NoIntent
    BY <1>9, <2>1, <2>2, <2>4 DEF Boot, StartReset
  <2> QED  BY <2>3, <2>4
<1>10. CASE ResetIncompatible
  BY <1>10 DEF ResetIncompatible, StartReset
<1>11. CASE StartMigration
  BY <1>11 DEF StartMigration, MigrationKeys, Affected, CacheKeys, Keys, Rows, Markers
<1>12. CASE Refuse
  <2>1. refusals' \in 0 .. MaxRefusals /\ failed' \in BOOLEAN /\ todo' \subseteq Keys
    BY <1>12, BoundAssumption, Counted DEF Refuse
  <2>2. UNCHANGED <<app, why, kills, era, outbox, tickets, blind>>
    BY <1>12 DEF Refuse
  <2>3. pc' \in {pc, "running", "stopped"} /\ ledger' \in {ledger, Unread}
    BY <1>12 DEF Refuse, Failed
  <2> QED  BY <2>1, <2>2, <2>3
<1>13. CASE Kill
  BY <1>13, BoundAssumption, Counted DEF Kill
<1>14. CASE Spoil
  BY <1>14, BoundAssumption DEF Spoil
<1> QED
  BY <1>1, <1>2, <1>3, <1>4, <1>5, <1>6, <1>7, <1>8, <1>9, <1>10, <1>11, <1>12, <1>13,
      <1>14 DEF Next, Session, ResetStep, BootStep

-----------------------------------------------------------------------------
(* The invariant, part by part *)

\* The items of the storage are those of its keys.
LEMMA DiskItems ==
    ASSUME IInv
    PROVE  /\ DOMAIN disk = Keys
           /\ Items(disk, Outbox) = disk[Outbox].items /\ Items(disk, Quarantine) = disk[Quarantine].items
BY TypesKept, KeysDiffer DEF DiskTyped, Items

\* The items of a completed restore: none for a user, else those of the intent.
LEMMA RestoredItems ==
    /\ \A k : Items(NoIntent, k) = {}
    /\ \A k : k # Manifest => Items(WithManifest(NoIntent), k) = {}
    /\ \A entries, k : Manifest \in DOMAIN entries => Items(WithManifest(entries), k) = Items(entries, k)
<1>1. \A k : Items(NoIntent, k) = {}
  BY RestoredEntries DEF Items
<1>2. \A k : k # Manifest => Items(WithManifest(NoIntent), k) = {}
  BY RestoredEntries DEF Items
<1>3. \A entries, k : Manifest \in DOMAIN entries => Items(WithManifest(entries), k) = Items(entries, k)
  BY RestoredEntries DEF Items
<1> QED  BY <1>1, <1>2, <1>3

\* Operations are begun, carried into a restore, into an intent and back, never made.
LEMMA OutboxStep == IInv /\ Next => OutboxTyped'
<1> SUFFICES ASSUME IInv, Next PROVE OutboxTyped'
  OBVIOUS
<1> USE TypesKept, DiskItems, KeysDiffer DEF OutboxTyped, DiskTyped, process, history, IInv
<1>1. CASE \/ WriteIntent \/ StartRestore \/ StartMigration \/ Compatible \/ Refuse
  BY <1>1 DEF WriteIntent, StartRestore, StartMigration, Compatible, Refuse
<1>2. ASSUME NEW o \in Operations, BeginOp(o) PROVE OutboxTyped'
  BY <1>2, BeginsTyped, WrittenFacts DEF BeginOp
<1>3. ASSUME NEW t \in Tickets, PutQuarantine(t) PROVE OutboxTyped'
  BY <1>3 DEF PutQuarantine
<1>4. ASSUME NEW k \in CacheKeys, WriteCache(k) PROVE OutboxTyped'
  BY <1>4 DEF WriteCache
<1>5. CASE UserReset
  BY <1>5, RestoredItems DEF UserReset, StartReset
<1>6. CASE ForgetMemory
  BY <1>6 DEF ForgetMemory, WriteBack
<1>7. CASE DropIntent
  BY <1>7, RestoredItems DEF DropIntent
<1>8. ASSUME NEW k \in Keys, ClearKey(k) PROVE OutboxTyped'
  BY <1>8, WrittenFacts DEF ClearKey
<1>9. ASSUME NEW k \in Keys, RestoreEntry(k) PROVE OutboxTyped'
  BY <1>9 DEF RestoreEntry, ResetInv, Wiped, Items
<1>10. ASSUME NEW v \in Versions, Boot(v) PROVE OutboxTyped'
  BY <1>10, RestoredItems DEF Boot, StartReset, ResetInv, IntentKept, Restorable
<1>11. CASE ResetIncompatible
  BY <1>11, RestoredItems, RestoredEntries, CarriedEntries DEF ResetIncompatible, StartReset,
      SameItems, Restorable
<1>12. CASE WriteManifest
  BY <1>12 DEF WriteManifest
<1>13. ASSUME NEW k \in CacheKeys, MigrateKey(k) PROVE OutboxTyped'
  BY <1>13 DEF MigrateKey
<1>14. CASE Kill
  BY <1>14, RestoredItems DEF Kill
<1>15. CASE Spoil
  BY <1>15 DEF Spoil
<1> QED
  BY <1>1, <1>2, <1>3, <1>4, <1>5, <1>6, <1>7, <1>8, <1>9, <1>10, <1>11, <1>12, <1>13, <1>14,
      <1>15 DEF Next, Session, ResetStep, BootStep

\* An intent is written from a restore of this era and dropped when it is carried out.
LEMMA IntentStep == IInv /\ Next => IntentKept'
<1> SUFFICES ASSUME IInv, Next PROVE IntentKept'
  OBVIOUS
<1> USE KeysDiffer DEF IInv, IntentKept, ResetInv, OfThisEra, process, history
<1>1. CASE \/ (\E o \in Operations : BeginOp(o)) \/ (\E t \in Tickets : PutQuarantine(t))
           \/ (\E k \in CacheKeys : WriteCache(k)) \/ ForgetMemory \/ StartRestore
           \/ (\E k \in Keys : ClearKey(k)) \/ (\E k \in Keys : RestoreEntry(k)) \/ StartMigration
           \/ WriteManifest \/ Compatible \/ (\E k \in CacheKeys : MigrateKey(k)) \/ Spoil
  BY <1>1 DEF BeginOp, PutQuarantine, WriteCache, ForgetMemory, StartRestore, ClearKey,
      RestoreEntry, StartMigration, WriteManifest, Compatible, MigrateKey, Spoil
<1>2. CASE UserReset
  BY <1>2 DEF UserReset, StartReset
<1>3. CASE WriteIntent
  <2>1. Restorable(restore)
    BY <1>3 DEF WriteIntent, RestoreKept, InReset
  <2>2. CASE why = "user"
    <3>1. DOMAIN restore = {Manifest}
      BY <1>3, <2>2 DEF WriteIntent, RestoreKept, InReset
    <3>2. Items(restore, Outbox) = {} /\ Items(restore, Quarantine) = {}
      BY <3>1 DEF Items
    <3> QED  BY <1>3, <2>1, <2>2, <3>2 DEF WriteIntent
  <2>3. CASE why = "resume"
    <3>1. SameItems(restore, intent)
      BY <1>3, <2>3 DEF WriteIntent, RestoreKept, InReset
    <3> QED  BY <1>3, <2>1, <2>3, <3>1 DEF WriteIntent, SameItems
  <2>4. CASE why = "incompatible"
    <3>1. SameItems(restore, disk) /\ intent = NoIntent
      BY <1>3, <2>4 DEF WriteIntent, RestoreKept, InReset
    <3>2. OfThisEra(disk)
      BY <3>1 DEF EraInv, StorageClean
    <3> QED  BY <1>3, <2>1, <2>4, <3>1, <3>2 DEF WriteIntent, SameItems
  <2> QED  BY <2>2, <2>3, <2>4, TypesKept DEF ScalarsTyped
<1>4. CASE DropIntent
  BY <1>4, RestoredItems DEF DropIntent
<1>5. ASSUME NEW v \in Versions, Boot(v) PROVE IntentKept'
  BY <1>5 DEF Boot, StartReset
<1>6. CASE ResetIncompatible
  BY <1>6 DEF ResetIncompatible, StartReset
<1>7. CASE Refuse
  BY <1>7 DEF Refuse, Failed
<1>8. CASE Kill
  BY <1>8, RestoredItems DEF Kill
<1> QED
  BY <1>1, <1>2, <1>3, <1>4, <1>5, <1>6, <1>7, <1>8 DEF Next, Session, ResetStep, BootStep

\* A reset restores what its caller decided until it ends.
LEMMA RestoreStep == IInv /\ Next => RestoreKept'
<1> SUFFICES ASSUME IInv, Next PROVE RestoreKept'
  OBVIOUS
<1> USE KeysDiffer DEF IInv, RestoreKept, ResetInv, InReset, Wiping, process, history
<1>1. CASE \/ (\E o \in Operations : BeginOp(o)) \/ (\E t \in Tickets : PutQuarantine(t))
           \/ (\E k \in CacheKeys : WriteCache(k)) \/ ForgetMemory \/ StartRestore
           \/ (\E k \in Keys : ClearKey(k)) \/ (\E k \in Keys : RestoreEntry(k)) \/ StartMigration
           \/ WriteManifest \/ Compatible \/ (\E k \in CacheKeys : MigrateKey(k)) \/ Kill \/ Spoil
  BY <1>1 DEF BeginOp, PutQuarantine, WriteCache, ForgetMemory, StartRestore, ClearKey,
      RestoreEntry, StartMigration, WriteManifest, Compatible, MigrateKey, Kill, Spoil
<1>2. CASE UserReset
  BY <1>2, RestoredEntries DEF UserReset, StartReset, Restorable
<1>3. CASE WriteIntent
  BY <1>3 DEF WriteIntent
<1>4. CASE DropIntent
  BY <1>4 DEF DropIntent, Failed
<1>5. ASSUME NEW v \in Versions, Boot(v) PROVE RestoreKept'
  BY <1>5, RestoredEntries, RestoredItems DEF Boot, StartReset, IntentKept, Restorable, SameItems
<1>6. CASE ResetIncompatible
  BY <1>6, RestoredEntries, RestoredItems, CarriedEntries, TypesKept DEF ResetIncompatible,
      StartReset, IntentKept, SameItems, Restorable, DiskTyped
<1>7. CASE Refuse
  BY <1>7 DEF Refuse, Failed
<1> QED
  BY <1>1, <1>2, <1>3, <1>4, <1>5, <1>6, <1>7 DEF Next, Session, ResetStep, BootStep

\* The second pass clears every key there is, then the restore puts back its own.
LEMMA WipedStep == IInv /\ Next => Wiped'
<1> SUFFICES ASSUME IInv, Next PROVE Wiped'
  OBVIOUS
<1> USE KeysDiffer DEF IInv, Wiped, ResetInv, process, history
<1>1. CASE \/ (\E o \in Operations : BeginOp(o)) \/ (\E t \in Tickets : PutQuarantine(t))
           \/ (\E k \in CacheKeys : WriteCache(k)) \/ StartMigration \/ WriteManifest \/ Compatible
           \/ (\E k \in CacheKeys : MigrateKey(k)) \/ Kill \/ Spoil
  BY <1>1 DEF BeginOp, PutQuarantine, WriteCache, StartMigration, WriteManifest, Compatible,
      MigrateKey, Kill, Spoil
<1>2. CASE UserReset
  BY <1>2 DEF UserReset, StartReset
<1>3. CASE WriteIntent
  BY <1>3 DEF WriteIntent
<1>4. CASE ForgetMemory
  BY <1>4 DEF ForgetMemory, Present
<1>5. CASE StartRestore
  BY <1>5 DEF StartRestore, Present
<1>6. CASE DropIntent
  BY <1>6 DEF DropIntent, Failed
<1>7. ASSUME NEW k \in Keys, ClearKey(k) PROVE Wiped'
  BY <1>7, TypesKept DEF ClearKey, Present, DiskTyped
<1>8. ASSUME NEW k \in Keys, RestoreEntry(k) PROVE Wiped'
  BY <1>8, TypesKept DEF RestoreEntry, DiskTyped
<1>9. ASSUME NEW v \in Versions, Boot(v) PROVE Wiped'
  BY <1>9 DEF Boot, StartReset
<1>10. CASE ResetIncompatible
  BY <1>10 DEF ResetIncompatible, StartReset
<1>11. CASE Refuse
  BY <1>11 DEF Refuse, Failed
<1> QED
  BY <1>1, <1>2, <1>3, <1>4, <1>5, <1>6, <1>7, <1>8, <1>9, <1>10, <1>11 DEF Next, Session,
      ResetStep, BootStep

\* What a session reads as its ledger is of this era.
LEMMA HydratedClean ==
    ASSUME IInv, pc = "running", intent = NoIntent
    PROVE  Hydrated(ledger) \subseteq outbox
<1>1. ledger = Unread \/ ledger \subseteq outbox
  BY DEF IInv, EraInv, LedgerClean
<1>2. disk[Outbox].items \subseteq outbox
  BY DiskItems DEF IInv, EraInv, StorageClean, OfThisEra
<1> QED  BY <1>1, <1>2 DEF Hydrated

\* When the intent is dropped the storage is what was restored and nothing else.
LEMMA RestoredStorage ==
    ASSUME IInv, DropIntent
    PROVE  /\ \A k \in CacheKeys : disk[k] = Nothing
           /\ disk[Manifest] = restore[Manifest]
           /\ Items(disk, Outbox) = Items(intent, Outbox)
           /\ Items(disk, Quarantine) = Items(intent, Quarantine)
<1>1. Restorable(restore) /\ intent = restore
  BY DEF DropIntent, IInv, ResetInv, RestoreKept, InReset, Wiping
<1>2. \A k \in Keys : disk[k] = IF k \in DOMAIN restore THEN restore[k] ELSE Nothing
  BY DEF DropIntent, IInv, ResetInv, Wiped
<1>3. DOMAIN disk = Keys
  BY DiskItems
<1> QED  BY <1>1, <1>2, <1>3, KeysDiffer, WrittenFacts DEF Items, Restorable

\* Without an intent only this era is written: a user's reset raises the era with the intent.
LEMMA StorageStep == IInv /\ Next => StorageClean'
<1> SUFFICES ASSUME IInv, Next PROVE StorageClean'
  OBVIOUS
<1> USE KeysDiffer, TypesKept, DiskItems DEF IInv, EraInv, StorageClean, OfThisEra, DiskTyped,
    process, history
<1>1. CASE \/ StartRestore \/ StartMigration \/ Compatible \/ Kill
  BY <1>1 DEF StartRestore, StartMigration, Compatible, Kill
<1>2. ASSUME NEW o \in Operations, BeginOp(o) PROVE StorageClean'
  BY <1>2, WrittenFacts, HydratedClean DEF BeginOp, Items
<1>3. ASSUME NEW t \in Tickets, PutQuarantine(t) PROVE StorageClean'
  BY <1>3, WrittenFacts DEF PutQuarantine, Items
<1>4. ASSUME NEW k \in CacheKeys, WriteCache(k) PROVE StorageClean'
  BY <1>4, WrittenFacts DEF WriteCache, Items
<1>5. CASE UserReset
  BY <1>5 DEF UserReset, StartReset
<1>6. CASE WriteIntent
  BY <1>6, RestoredEntries DEF WriteIntent, ResetInv, RestoreKept, InReset, Restorable
<1>7. CASE ForgetMemory
  BY <1>7, RestoredEntries DEF ForgetMemory, ResetInv, IntentKept, RestoreKept, InReset, Wiping,
      Restorable
<1>8. CASE DropIntent
  BY <1>8, RestoredStorage DEF DropIntent, ResetInv, IntentKept
<1>9. ASSUME NEW k \in Keys, ClearKey(k) PROVE StorageClean'
  BY <1>9, RestoredEntries DEF ClearKey, ResetInv, IntentKept, RestoreKept, InReset, Wiping,
      Restorable
<1>10. ASSUME NEW k \in Keys, RestoreEntry(k) PROVE StorageClean'
  BY <1>10, RestoredEntries DEF RestoreEntry, ResetInv, IntentKept, RestoreKept, InReset,
      Wiping, Restorable
<1>11. ASSUME NEW v \in Versions, Boot(v) PROVE StorageClean'
  BY <1>11 DEF Boot, StartReset
<1>12. CASE ResetIncompatible
  BY <1>12 DEF ResetIncompatible, StartReset
<1>13. CASE WriteManifest
  BY <1>13 DEF WriteManifest, Items
<1>14. ASSUME NEW k \in CacheKeys, MigrateKey(k) PROVE StorageClean'
  BY <1>14 DEF MigrateKey, Items
<1>15. CASE Refuse
  BY <1>15 DEF Refuse, Failed
<1>16. CASE Spoil
  BY <1>16 DEF Spoil, Items
<1> QED
  BY <1>1, <1>2, <1>3, <1>4, <1>5, <1>6, <1>7, <1>8, <1>9, <1>10, <1>11, <1>12, <1>13, <1>14,
      <1>15, <1>16 DEF Next, Session, ResetStep, BootStep

\* The ledger in memory is unread, empty after a reset, or what this era holds.
LEMMA LedgerStep == IInv /\ Next => LedgerClean'
<1> SUFFICES ASSUME IInv, Next PROVE LedgerClean'
  OBVIOUS
<1> USE TypesKept DEF IInv, EraInv, LedgerClean, process, history
<1>1. CASE \/ (\E t \in Tickets : PutQuarantine(t)) \/ (\E k \in CacheKeys : WriteCache(k))
           \/ ForgetMemory \/ StartRestore \/ (\E k \in Keys : ClearKey(k))
           \/ (\E k \in Keys : RestoreEntry(k)) \/ StartMigration \/ WriteManifest \/ Compatible
           \/ (\E k \in CacheKeys : MigrateKey(k)) \/ Kill \/ Spoil
  BY <1>1 DEF PutQuarantine, WriteCache, ForgetMemory, StartRestore, ClearKey, RestoreEntry,
      StartMigration, WriteManifest, Compatible, MigrateKey, Kill, Spoil
<1>2. ASSUME NEW o \in Operations, BeginOp(o) PROVE LedgerClean'
  BY <1>2, HydratedClean DEF BeginOp
<1>3. CASE UserReset
  BY <1>3 DEF UserReset, StartReset
<1>4. CASE WriteIntent
  BY <1>4, RestoredEntries DEF WriteIntent, ResetInv, RestoreKept, InReset, Restorable
<1>5. CASE DropIntent
  BY <1>5, RestoredStorage, DiskItems DEF DropIntent, ResetInv, Wiped, IntentKept, OfThisEra
<1>6. ASSUME NEW v \in Versions, Boot(v) PROVE LedgerClean'
  BY <1>6 DEF Boot, StartReset
<1>7. CASE ResetIncompatible
  BY <1>7 DEF ResetIncompatible, StartReset
<1>8. CASE Refuse
  BY <1>8 DEF Refuse, Failed
<1> QED
  BY <1>1, <1>2, <1>3, <1>4, <1>5, <1>6, <1>7, <1>8 DEF Next, Session, ResetStep, BootStep

\* The manifest changes over an empty cache, or once what it no longer fits is gone.
LEMMA ManifestFitsStep == IInv /\ Next => ManifestFits'
<1> SUFFICES ASSUME IInv, Next PROVE ManifestFits'
  OBVIOUS
<1> USE KeysDiffer, TypesKept DEF IInv, VersionInv, ManifestFits, CacheOf, Stored, DiskTyped,
    process, history
<1>1. CASE \/ (\E o \in Operations : BeginOp(o)) \/ (\E t \in Tickets : PutQuarantine(t))
           \/ StartRestore \/ StartMigration \/ Compatible \/ Kill
  BY <1>1 DEF BeginOp, PutQuarantine, StartRestore, StartMigration, Compatible, Kill
<1>2. ASSUME NEW k \in CacheKeys, WriteCache(k) PROVE ManifestFits'
  BY <1>2, WrittenFacts DEF WriteCache, ManifestCurrent, Current, SameSchema
<1>3. CASE UserReset
  BY <1>3 DEF UserReset, StartReset
<1>4. CASE WriteIntent
  BY <1>4, RestoredEntries DEF WriteIntent, ResetInv, RestoreKept, InReset, Restorable
<1>5. CASE ForgetMemory
  BY <1>5, RestoredEntries DEF ForgetMemory, ResetInv, IntentKept, RestoreKept, InReset, Wiping,
      Restorable
<1>6. CASE DropIntent
  BY <1>6, RestoredStorage DEF DropIntent
<1>7. ASSUME NEW k \in Keys, ClearKey(k) PROVE ManifestFits'
  BY <1>7, RestoredEntries DEF ClearKey, ResetInv, IntentKept, RestoreKept, InReset, Wiping,
      Restorable
<1>8. ASSUME NEW k \in Keys, RestoreEntry(k) PROVE ManifestFits'
  BY <1>8, RestoredEntries DEF RestoreEntry, ResetInv, IntentKept, RestoreKept, InReset, Wiping,
      Restorable
<1>9. ASSUME NEW v \in Versions, Boot(v) PROVE ManifestFits'
  BY <1>9 DEF Boot, StartReset
<1>10. CASE ResetIncompatible
  BY <1>10 DEF ResetIncompatible, StartReset
<1>11. CASE WriteManifest
  <2>1. disk'[Manifest].version = app /\ intent' = intent /\ intent = NoIntent
    BY <1>11, WrittenFacts DEF WriteManifest, ResetInv, IntentKept
  <2>2. \A k \in CacheKeys : disk'[k] = disk[k]
    BY <1>11 DEF WriteManifest
  <2>3. CASE pc = "reconcile"
    BY <1>11, <2>2, <2>3 DEF WriteManifest, Present
  <2>4. CASE pc = "migrate"
    <3>1. DataOf[Stored] = DataOf[app] /\ CacheOf(Stored)
      BY <2>1, <2>4 DEF Migrating
    <3>2. \A k \in MigrationKeys : disk[k] = Nothing
      BY <1>11, <2>4 DEF WriteManifest, Migrating
    <3>3. ASSUME NEW k \in CacheKeys, disk[k] # Nothing PROVE SameSchema(k, disk[k].version, app)
      BY <2>4, <3>1, <3>2, <3>3 DEF Migrating, SameSchema, MigrationKeys, Affected
    <3> QED  BY <2>1, <2>2, <3>3
  <2> QED  BY <1>11, <2>3, <2>4 DEF WriteManifest
<1>12. ASSUME NEW k \in CacheKeys, MigrateKey(k) PROVE ManifestFits'
  BY <1>12 DEF MigrateKey
<1>13. CASE Refuse
  BY <1>13 DEF Refuse, Failed
<1>14. CASE Spoil
  BY <1>14, WrittenFacts DEF Spoil
<1> QED
  BY <1>1, <1>2, <1>3, <1>4, <1>5, <1>6, <1>7, <1>8, <1>9, <1>10, <1>11, <1>12, <1>13,
      <1>14 DEF Next, Session, ResetStep, BootStep

\* A session begins when the manifest is the application's, and no session changes it.
LEMMA ManifestCurrentStep == IInv /\ Next => ManifestCurrent'
<1> SUFFICES ASSUME IInv, Next PROVE ManifestCurrent'
  OBVIOUS
<1> USE KeysDiffer, TypesKept DEF IInv, VersionInv, ManifestCurrent, Stored, DiskTyped, process,
    history
<1>1. CASE \/ (\E o \in Operations : BeginOp(o)) \/ (\E t \in Tickets : PutQuarantine(t))
           \/ (\E k \in CacheKeys : WriteCache(k)) \/ ForgetMemory \/ StartRestore
           \/ (\E k \in Keys : ClearKey(k)) \/ (\E k \in Keys : RestoreEntry(k)) \/ StartMigration
           \/ (\E k \in CacheKeys : MigrateKey(k)) \/ Kill \/ Spoil
  BY <1>1 DEF BeginOp, PutQuarantine, WriteCache, ForgetMemory, StartRestore, ClearKey,
      RestoreEntry, StartMigration, MigrateKey, Kill, Spoil
<1>2. CASE UserReset
  BY <1>2 DEF UserReset, StartReset
<1>3. CASE WriteIntent
  BY <1>3 DEF WriteIntent
<1>4. CASE DropIntent
  <2>1. \A v \in Versions : v = app => Current(v, app)
    BY DEF Current
  <2>2. why # "resume" => restore[Manifest] = Written(app, 0)
    BY <1>4 DEF DropIntent, ResetInv, RestoreKept, InReset, Wiping
  <2>3. app \in Versions
    BY DEF ScalarsTyped
  <2> QED  BY <1>4, <2>1, <2>2, <2>3, WrittenFacts, RestoredStorage DEF DropIntent, Failed
<1>5. ASSUME NEW v \in Versions, Boot(v) PROVE ManifestCurrent'
  BY <1>5 DEF Boot, StartReset
<1>6. CASE ResetIncompatible
  BY <1>6 DEF ResetIncompatible, StartReset
<1>7. CASE WriteManifest
  BY <1>7, WrittenFacts DEF WriteManifest, Current, ScalarsTyped
<1>8. CASE Compatible
  BY <1>8 DEF Compatible, Incompatible, Affected, Current, Stored
<1>9. CASE Refuse
  BY <1>9, RestoredEntries DEF Refuse, Failed, ResetInv, RestoreKept, InReset, Wiping, Restorable
<1> QED
  BY <1>1, <1>2, <1>3, <1>4, <1>5, <1>6, <1>7, <1>8, <1>9 DEF Next, Session, ResetStep, BootStep

\* A session writes what fits the application, and starts over what fits the manifest.
LEMMA SessionFitsStep == IInv /\ Next => SessionFits'
<1> SUFFICES ASSUME IInv, Next PROVE SessionFits'
  OBVIOUS
<1> USE KeysDiffer, TypesKept DEF IInv, VersionInv, SessionFits, CacheOf, InReset, Wiping,
    DiskTyped, process, history
<1>1. CASE \/ (\E o \in Operations : BeginOp(o)) \/ (\E t \in Tickets : PutQuarantine(t))
           \/ WriteIntent \/ StartRestore \/ (\E k \in Keys : ClearKey(k)) \/ StartMigration
           \/ (\E k \in CacheKeys : MigrateKey(k)) \/ Kill \/ Spoil
  BY <1>1 DEF BeginOp, PutQuarantine, WriteIntent, StartRestore, ClearKey, StartMigration,
      MigrateKey, Kill, Spoil
<1>2. ASSUME NEW k \in CacheKeys, WriteCache(k) PROVE SessionFits'
  BY <1>2, WrittenFacts DEF WriteCache, SameSchema
<1>3. CASE UserReset
  BY <1>3 DEF UserReset, StartReset
<1>4. CASE ForgetMemory
  <2>1. \A k \in CacheKeys : \A e : SameSchema(k, Written(app, e).version, app)
    BY WrittenFacts DEF SameSchema
  <2>2. \A k \in CacheKeys : disk'[k] = disk[k] \/ \E e : disk'[k] = Written(app, e)
    BY <1>4 DEF ForgetMemory, WriteBack
  <2>3. app' = app /\ why' = why /\ (why = "user" => CacheOf(app))
    BY <1>4 DEF ForgetMemory
  <2>4. why = "user" => CacheOf(app)'
    BY <2>1, <2>2, <2>3
  <2> QED  BY <1>4, <2>3, <2>4 DEF ForgetMemory
<1>5. CASE DropIntent
  BY <1>5, RestoredStorage DEF DropIntent, Failed
<1>6. ASSUME NEW k \in Keys, RestoreEntry(k) PROVE SessionFits'
  BY <1>6 DEF RestoreEntry, ResetInv, RestoreKept, Restorable, Wiped
<1>7. ASSUME NEW v \in Versions, Boot(v) PROVE SessionFits'
  BY <1>7 DEF Boot, StartReset
<1>8. CASE ResetIncompatible
  BY <1>8 DEF ResetIncompatible, StartReset
<1>9. CASE WriteManifest
  <2>1. disk'[Manifest].version = app /\ disk'[Manifest] # Nothing /\ intent' = NoIntent /\ app' = app
    BY <1>9, WrittenFacts DEF WriteManifest, ResetInv, IntentKept, ScalarsTyped
  <2>2. CacheOf(Stored)'
    BY <2>1, ManifestFitsStep DEF ManifestFits
  <2> QED  BY <2>1, <2>2 DEF Stored
<1>10. CASE Compatible
  BY <1>10 DEF Compatible, Incompatible, Affected, Current, Stored, ResetInv, IntentKept,
      ManifestFits, SameSchema
<1>11. CASE Refuse
  BY <1>11 DEF Refuse, Failed
<1> QED
  BY <1>1, <1>2, <1>3, <1>4, <1>5, <1>6, <1>7, <1>8, <1>9, <1>10, <1>11 DEF Next, Session,
      ResetStep, BootStep

\* A migration keeps the old manifest until the last of its keys is gone.
LEMMA MigratingStep == IInv /\ Next => Migrating'
<1> SUFFICES ASSUME IInv, Next PROVE Migrating'
  OBVIOUS
<1> USE KeysDiffer, TypesKept DEF IInv, VersionInv, Migrating, Stored, DiskTyped, process, history
<1>1. CASE \/ (\E o \in Operations : BeginOp(o)) \/ (\E t \in Tickets : PutQuarantine(t))
           \/ (\E k \in CacheKeys : WriteCache(k)) \/ WriteIntent \/ ForgetMemory \/ StartRestore
           \/ (\E k \in Keys : ClearKey(k)) \/ (\E k \in Keys : RestoreEntry(k)) \/ WriteManifest
           \/ Compatible \/ Kill \/ Spoil
  BY <1>1 DEF BeginOp, PutQuarantine, WriteCache, WriteIntent, ForgetMemory, StartRestore,
      ClearKey, RestoreEntry, WriteManifest, Compatible, Kill, Spoil
<1>2. CASE UserReset
  BY <1>2 DEF UserReset, StartReset
<1>3. CASE DropIntent
  BY <1>3 DEF DropIntent, Failed
<1>4. ASSUME NEW v \in Versions, Boot(v) PROVE Migrating'
  BY <1>4 DEF Boot, StartReset
<1>5. CASE ResetIncompatible
  BY <1>5 DEF ResetIncompatible, StartReset
<1>6. CASE StartMigration
  <2>1. disk[Manifest] # Nothing /\ DataOf[Stored] = DataOf[app]
    BY <1>6 DEF StartMigration, Incompatible, Affected
  <2>2. MigrationKeys' = MigrationKeys
    BY <1>6 DEF StartMigration, MigrationKeys, Affected
  <2> QED  BY <1>6, <2>1, <2>2 DEF StartMigration
<1>7. ASSUME NEW k \in CacheKeys, MigrateKey(k) PROVE Migrating'
  <2>1. disk'[Manifest] = disk[Manifest]
    BY <1>7 DEF MigrateKey
  <2>2. MigrationKeys' = MigrationKeys
    BY <1>7, <2>1 DEF MigrateKey, MigrationKeys, Affected, Stored
  <2> QED  BY <1>7, <2>1, <2>2 DEF MigrateKey
<1>8. CASE Refuse
  BY <1>8 DEF Refuse, Failed
<1> QED
  BY <1>1, <1>2, <1>3, <1>4, <1>5, <1>6, <1>7, <1>8 DEF Next, Session, ResetStep, BootStep

\* Items move with the intent and the restore; a commit that has not read them is blind.
LEMMA ItemsStep == IInv /\ Next => ItemsKept'
<1> SUFFICES ASSUME IInv, Next PROVE ItemsKept'
  OBVIOUS
<1> USE KeysDiffer, TypesKept, DiskItems DEF IInv, ItemsKept, Keeps, DiskTyped, process, history
<1>1. CASE \/ StartRestore \/ StartMigration \/ Compatible \/ Refuse \/ Kill
  BY <1>1 DEF StartRestore, StartMigration, Compatible, Refuse, Kill
<1>2. ASSUME NEW o \in Operations, BeginOp(o) PROVE ItemsKept'
  <2>1. disk'[Outbox].items = Hydrated(ledger) \cup {o} /\ disk'[Quarantine] = disk[Quarantine]
    BY <1>2, WrittenFacts DEF BeginOp
  <2>2. ~ blind' => ~ blind /\ Hydrated(ledger) = disk[Outbox].items
    BY <1>2 DEF BeginOp
  <2>3. DOMAIN disk' = Keys
    BY <1>2 DEF BeginOp
  <2>4. Items(disk', Outbox) = disk'[Outbox].items /\ Items(disk', Quarantine) = disk[Quarantine].items
    BY <2>1, <2>3 DEF Items
  <2>5. CASE blind'
    BY <2>5
  <2>6. CASE ~ blind' /\ intent = NoIntent
    <3>1. outbox' = outbox \cup {o} /\ UNCHANGED <<intent, tickets>>
      BY <1>2, <2>6 DEF BeginOp
    <3> QED  BY <2>1, <2>2, <2>4, <2>6, <3>1
  <2>7. CASE ~ blind' /\ intent # NoIntent
    <3>1. UNCHANGED <<outbox, intent, tickets>>
      BY <1>2, <2>7 DEF BeginOp
    <3> QED  BY <2>2, <2>7, <3>1
  <2> QED  BY <2>5, <2>6, <2>7
<1>3. ASSUME NEW t \in Tickets, PutQuarantine(t) PROVE ItemsKept'
  BY <1>3, WrittenFacts DEF PutQuarantine, Items
<1>4. ASSUME NEW k \in CacheKeys, WriteCache(k) PROVE ItemsKept'
  BY <1>4 DEF WriteCache, Items
<1>5. CASE UserReset
  BY <1>5 DEF UserReset, StartReset
<1>6. CASE WriteIntent
  BY <1>6, RestoredEntries DEF WriteIntent, ResetInv, RestoreKept, InReset, Restorable,
      SameItems, ScalarsTyped
<1>7. CASE ForgetMemory
  BY <1>7, RestoredEntries DEF ForgetMemory, ResetInv, RestoreKept, InReset, Wiping, Restorable
<1>8. CASE DropIntent
  BY <1>8, RestoredStorage, RestoredEntries DEF DropIntent, ResetInv, RestoreKept, InReset,
      Wiping, Restorable
<1>9. ASSUME NEW k \in Keys, ClearKey(k) PROVE ItemsKept'
  BY <1>9, RestoredEntries DEF ClearKey, ResetInv, RestoreKept, InReset, Wiping, Restorable
<1>10. ASSUME NEW k \in Keys, RestoreEntry(k) PROVE ItemsKept'
  BY <1>10, RestoredEntries DEF RestoreEntry, ResetInv, RestoreKept, InReset, Wiping, Restorable
<1>11. ASSUME NEW v \in Versions, Boot(v) PROVE ItemsKept'
  BY <1>11 DEF Boot, StartReset
<1>12. CASE ResetIncompatible
  BY <1>12 DEF ResetIncompatible, StartReset
<1>13. CASE WriteManifest
  BY <1>13 DEF WriteManifest, Items
<1>14. ASSUME NEW k \in CacheKeys, MigrateKey(k) PROVE ItemsKept'
  BY <1>14 DEF MigrateKey, Items
<1>15. CASE Spoil
  BY <1>15 DEF Spoil, Items
<1> QED
  BY <1>1, <1>2, <1>3, <1>4, <1>5, <1>6, <1>7, <1>8, <1>9, <1>10, <1>11, <1>12, <1>13, <1>14,
      <1>15 DEF Next, Session, ResetStep, BootStep

-----------------------------------------------------------------------------
(* The theorems *)

\* The application starts with its first version.
LEMMA FirstVersion == 1 \in Versions
<1> DEFINE n == Cardinality(Versions)
<1>1. n \in Nat
  BY VersionAssumption, FS_CardinalityType
<1>2. Versions = 1 .. n /\ Versions # {}
  BY VersionAssumption
<1> HIDE DEF n
<1>3. PICK v \in 1 .. n : TRUE
  BY <1>2
<1>4. 1 \in 1 .. n
  BY <1>1, <1>3
<1> QED  BY <1>2, <1>4

\* The program starts with an empty storage, stopped.
LEMMA InitInv == Init => IInv
<1> SUFFICES ASSUME Init PROVE IInv
  OBVIOUS
<1> USE KeysDiffer, WrittenFacts DEF Init
<1>1. \A k \in Keys : disk[k] = Nothing
  OBVIOUS
<1>2. DiskTyped /\ Typed(intent) /\ Typed(restore)
  BY EntryTypes, WithManifestTyped DEF DiskTyped
<1>3. ScalarsTyped
  <2>1. \A n \in Nat : 0 \in 0 .. n
    OBVIOUS
  <2> QED  BY <2>1, FirstVersion, BoundAssumption DEF ScalarsTyped
<1>4. TypeOK
  BY <1>2, <1>3, TypeParts
<1>5. Items(disk, Outbox) = {} /\ Items(disk, Quarantine) = {}
  BY <1>1 DEF Items
<1>6. OutboxTyped
  BY <1>1, RestoredItems DEF OutboxTyped
<1>7. ResetInv
  BY RestoredItems DEF ResetInv, IntentKept, RestoreKept, Wiped, InReset, Wiping, OfThisEra
<1>8. EraInv
  BY <1>1, <1>5 DEF EraInv, StorageClean, LedgerClean, OfThisEra
<1>9. VersionInv
  BY <1>1 DEF VersionInv, ManifestFits, ManifestCurrent, SessionFits, Migrating, InReset, Wiping
<1>10. ItemsKept
  BY <1>5 DEF ItemsKept, Keeps
<1> QED  BY <1>4, <1>6, <1>7, <1>8, <1>9, <1>10 DEF IInv

\* A step that changes nothing keeps the invariant.
LEMMA StutterInv == IInv /\ UNCHANGED vars => IInv'
<1> SUFFICES ASSUME IInv, UNCHANGED vars PROVE IInv'
  OBVIOUS
<1> USE DEF vars, process, history
<1>1. TypeOK' /\ OutboxTyped'
  BY DEF IInv, TypeOK, OutboxTyped
<1>2. ResetInv'
  BY DEF IInv, ResetInv, IntentKept, RestoreKept, Wiped, InReset, Wiping, OfThisEra, Present,
      Restorable, SameItems
<1>3. EraInv'
  BY DEF IInv, EraInv, StorageClean, LedgerClean, OfThisEra
<1>4. VersionInv'
  BY DEF IInv, VersionInv, ManifestFits, ManifestCurrent, SessionFits, Migrating, InReset,
      Wiping, CacheOf, Stored, MigrationKeys, Affected
<1>5. ItemsKept'
  BY DEF IInv, ItemsKept, Keeps
<1> QED  BY <1>1, <1>2, <1>3, <1>4, <1>5 DEF IInv

\* Every step keeps the invariant.
LEMMA NextInv == IInv /\ [Next]_vars => IInv'
<1> SUFFICES ASSUME IInv, Next PROVE IInv'
  BY StutterInv
<1>1. ResetInv'
  BY IntentStep, RestoreStep, WipedStep DEF ResetInv
<1>2. (pc \in {"clear", "clear again", "restore"} => Manifest \in DOMAIN intent)'
  BY <1>1 DEF ResetInv, RestoreKept, InReset, Wiping, Restorable
<1>3. TypeOK'
  BY <1>2, DiskTypeStep, IntentTypeStep, RestoreTypeStep, ScalarTypeStep, TypeParts, PTL
<1>4. EraInv'
  BY StorageStep, LedgerStep DEF EraInv
<1>5. VersionInv'
  BY ManifestFitsStep, ManifestCurrentStep, SessionFitsStep, MigratingStep DEF VersionInv
<1> QED  BY <1>1, <1>3, <1>4, <1>5, OutboxStep, ItemsStep DEF IInv

\* The invariant holds of every behaviour.
LEMMA Invariance == Spec => []IInv
BY InitInv, NextInv, PTL DEF Spec

(* Every component stays in range, and nothing is cleared before the       *)
(* intent of the clearance is on the storage (core/reset.ts).              *)
THEOREM StorageTyping == Spec => []TypeOK
<1>1. IInv => TypeOK
  BY DEF IInv
<1> QED  BY <1>1, Invariance, PTL

(* After a reset, interrupted however often and resumed at whatever boot,  *)
(* a session without an intent sees nothing of an earlier era: no row, no  *)
(* operation in the storage or in memory, no quarantined entry.            *)
THEOREM ResetStaysFinal == Spec => []ResetIsFinal
<1>1. ASSUME IInv, pc = "running", intent = NoIntent
      PROVE  /\ \A k \in CacheKeys : disk[k] = Nothing \/ disk[k].era = era
             /\ disk[Outbox].items \subseteq outbox /\ disk[Quarantine].items \subseteq tickets
  BY <1>1, DiskItems DEF IInv, EraInv, StorageClean, OfThisEra
<1>2. IInv => ResetIsFinal
  BY <1>1, HydratedClean DEF ResetIsFinal
<1> QED  BY <1>2, Invariance, PTL

(* No session reads rows, markers or deltas that a version with another    *)
(* data version, or another schema of that model, has written.             *)
THEOREM CacheStaysFitting == Spec => []CacheFits
<1>1. \A k, v : SameSchema(k, v, app) <=> Fits(k, v)
  BY DEF SameSchema, Fits
<1>2. IInv => CacheFits
  BY <1>1 DEF IInv, VersionInv, SessionFits, CacheOf, CacheFits
<1> QED  BY <1>2, Invariance, PTL

(* What the user has begun or lost to validation is still on the storage,  *)
(* until the user's own reset or a commit over a ledger it has not read.   *)
THEOREM OutboxStays == Spec => []OutboxKept
<1>1. IInv => OutboxKept
  BY DiskItems DEF IInv, ItemsKept, Keeps, OutboxKept
<1> QED  BY <1>1, Invariance, PTL
=============================================================================
