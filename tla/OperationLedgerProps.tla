------------------------ MODULE OperationLedgerProps ------------------------
(* What the operation ledger promises. *)
EXTENDS OperationLedger

(* Every component in range. *)
TypeOK ==
    /\ ledger \in [Ops -> Statuses]
    /\ onceKeys \subseteq OnceKeys
    /\ rows \subseteq Ops \X (0 .. MaxSends)
    /\ rowKeys \subseteq Ops \X (0 .. MaxSends)
    /\ running \in BOOLEAN
    /\ pendingKeys \subseteq Keys
    /\ flight \subseteq Ops
    /\ sent \in [Ops -> 0 .. MaxSends]
    /\ wire \subseteq Ops \X (1 .. MaxSends)
    /\ accepted \subseteq Ops \X (1 .. MaxSends)
    /\ torn \subseteq Ops

(* A draft the user can still send or retry is in the store: after any     *)
(* kill and boot, "a retryable draft is visible, not a ledger entry with   *)
(* no row" (bootFsck.ts:42-44).                                            *)
DraftsAreVisible ==
    running => \A o \in Ops :
        HasRow(o) /\ ledger[o] \in {"pending", "failed"} /\ o \notin torn => Temp(o) \in rows

(* A draft and the server row it became are never in the store together,   *)
(* whichever channel brings the server row first (modelWrites.ts, "no      *)
(* delivery channel can create a duplicate").                              *)
NoTwin ==
    running => \A o \in Correlated \ torn :
        Temp(o) \in rows => \A n \in 1 .. MaxSends : <<o, n>> \notin rows

(* A committed operation is one the server accepted, and its row is in the *)
(* store in place of the draft: no draft disappears unanswered.            *)
CommittedIsLanded ==
    running => \A o \in Ops \ torn : HasRow(o) /\ ledger[o] = "committed" =>
        \E n \in 1 .. MaxSends : <<o, n>> \in rows \cap accepted

(* A call declared once succeeds once, over any restarts                   *)
(* (docs/mutations.md, "Persists successful one-time execution").          *)
OnceExecutesOnce ==
    \A k \in OnceKeys :
        Cardinality({o \in Ops : KeyOf[o] = k /\ ledger[o] = "committed"}) <= 1

(* Every request operation is settled in the end: by the transport, by a   *)
(* correlated row, or by the boot after a kill.                            *)
RequestsSettle ==
    \A o \in Ops : Request(o) => (ledger[o] = "pending" ~> ledger[o] # "pending")

=============================================================================
