-------------------------- MODULE StorageResetProps --------------------------
(* What a reset and an application update promise about the storage. *)
EXTENDS StorageReset

Entries == [version : {0} \cup Versions, era : 0 .. MaxResets, items : SUBSET (Operations \cup Tickets)]

(* Every component in range, and nothing cleared without an intent. *)
TypeOK ==
    /\ disk \in [Keys -> Entries]
    /\ \A entries \in {intent, restore} : \A k \in DOMAIN entries : k \in Keys /\ entries[k] \in Entries
    /\ pc \in {"down", "stopped", "running", "intent", "clear", "clear again", "restore", "reconcile", "migrate"}
    /\ app \in Versions
    /\ ledger \in (SUBSET Operations) \cup {Unread}
    /\ why \in {"user", "resume", "incompatible"}
    /\ todo \subseteq Keys /\ failed \in BOOLEAN
    /\ kills \in 0 .. MaxKills /\ refusals \in 0 .. MaxRefusals /\ era \in 0 .. MaxResets
    /\ outbox \subseteq Operations /\ tickets \subseteq Tickets /\ blind \in BOOLEAN
    /\ pc \in {"clear", "clear again", "restore"} => Manifest \in DOMAIN intent

(* Nothing of before a reset is there after it, whenever it was            *)
(* interrupted and whatever a callback wrote back meanwhile: "state is     *)
(* clean the moment the call returns" (reset.ts:164-165).                  *)
ResetIsFinal ==
    pc = "running" /\ intent = NoIntent =>
        /\ \A k \in CacheKeys : disk[k] = Nothing \/ disk[k].era = era
        /\ disk[Outbox].items \subseteq outbox
        /\ Hydrated(ledger) \subseteq outbox
        /\ disk[Quarantine].items \subseteq tickets

(* No session reads cache that a version with another data version, or     *)
(* another schema of its model, has written: a clearance cut short by a    *)
(* kill is done again (schemaManifest.ts:94), by whichever version starts  *)
(* next, newer or older.                                                   *)
Fits(k, v) ==
    /\ DataOf[v] = DataOf[app]
    /\ \A m \in Models : k \in {<<"rows", m>>, <<"snapseq", m>>} \cup Deltas => SchemaOf[v][m] = SchemaOf[app][m]
CacheFits ==
    pc = "running" => \A k \in CacheKeys : disk[k] = Nothing \/ Fits(k, disk[k].version)

(* What the user has sent or lost to validation stays through updates,     *)
(* unreadable manifests, kills and refusals, until the user's own reset or *)
(* a commit over a ledger that was not read.                               *)
OutboxKept ==
    pc = "running" /\ intent = NoIntent /\ ~blind =>
        outbox \subseteq disk[Outbox].items /\ tickets \subseteq disk[Quarantine].items
=============================================================================
