----------------------- MODULE OperationLedgerProofs -----------------------
(***************************************************************************)
(* Theorems about the operation ledger, for any calls, keys and bounds: a  *)
(* retryable draft is visible; with correlators that tell the drafts apart *)
(* a draft and its server row never stand together and no draft is closed  *)
(* unanswered; a tracked call declared once succeeds once.                 *)
(*                                                                         *)
(* Each is a statement about a running process.  What makes it inductive   *)
(* is what it leaves behind when it is killed: the state of a stopped      *)
(* process that the boot can repair.                                       *)
(***************************************************************************)
EXTENDS OperationLedgerProps, FiniteSetTheorems, TLAPS

(* A call is known before it is sent, the server holds only what was sent, *)
(* and what the transport still has to settle has not failed.              *)
RequestsKept ==
    /\ \A o \in Ops : ledger[o] = "uncalled" => sent[o] = 0
    /\ \A r \in wire \cup accepted : r[2] <= sent[r[1]]
    /\ \A o \in flight : ledger[o] \notin {"failed", "delivery_unknown"}
    /\ ~ running => flight = {} /\ pendingKeys = {}

(* A row is a draft or the server's; a draft in the store belongs to an    *)
(* open operation, and an operation that can be sent has its draft, unless *)
(* the process is stopped and the boot will rebuild it.                    *)
RowsKept == \A r \in rows : HasRow(r[1]) /\ (r[2] = 0 \/ r \in accepted)
DraftsAreOpen == \A o \in Ops \ torn : Temp(o) \in rows => ledger[o] \in Open
DraftsKept ==
    \A o \in Ops \ torn : HasRow(o) /\ ledger[o] \in {"pending", "failed"} =>
        Temp(o) \in rows \/ (~ running /\ Request(o) /\ ledger[o] = "pending")

(* An operation that can still be sent again has no server row: the row it *)
(* got would have closed it.                                               *)
ServerRow(o, r) == r[1] = o /\ r[2] # 0
Unanswered ==
    \A o \in Correlated \ torn : ledger[o] \in {"pending", "failed"} =>
        \A r \in rows : ~ ServerRow(o, r)
NoTwinEver ==
    \A o \in Correlated \ torn : Temp(o) \in rows => \A r \in rows : ~ ServerRow(o, r)
LandedEver ==
    \A o \in Ops \ torn : HasRow(o) /\ ledger[o] = "committed" =>
        \E r \in rows \cap accepted : ServerRow(o, r)
AnswersKept == Unanswered /\ NoTwinEver /\ LandedEver

RowInv    == RowsKept /\ DraftsAreOpen /\ DraftsKept
AnswerInv == Alike \/ AnswersKept
IInv      == TypeOK /\ RequestsKept /\ RowInv /\ AnswerInv

(* Of the calls under one key at most one is pending or has succeeded,     *)
(* because a call is asked against what is pending and what has succeeded. *)
OnceTracked == \A o \in Ops : KeyOf[o] \in OnceKeys => KindOf[o] = "tracked"
OnceKeyed(o) == KeyOf[o] \in OnceKeys
SuccessKept == \A o \in Ops : OnceKeyed(o) /\ ledger[o] = "committed" => KeyOf[o] \in onceKeys
PendingKept ==
    running => \A o \in Ops : OnceKeyed(o) /\ ledger[o] = "pending" => KeyOf[o] \in pendingKeys
OneAtMost ==
    \A o, p \in Ops :
        /\ OnceKeyed(o) /\ KeyOf[o] = KeyOf[p]
        /\ ledger[o] \in {"pending", "committed"} /\ ledger[p] \in {"pending", "committed"}
        => o = p
OnceInv == SuccessKept /\ PendingKept /\ OneAtMost

-----------------------------------------------------------------------------
(* Rows.                                                                   *)

\* Drafts are told apart by their operations, and no row of the server is one.
LEMMA TempRows ==
    \A o \in Ops :
        /\ Temp(o) \in Ops \X (0 .. MaxSends) /\ Temp(o)[1] = o /\ Temp(o)[2] = 0
        /\ \A p \in Ops : Temp(o) = Temp(p) => o = p
  BY BoundAssumption DEF Temp

\* The requests of a typed state.
LEMMA TypedRequests ==
    ASSUME TypeOK
    PROVE  /\ \A r \in wire \cup accepted : r[1] \in Ops /\ r[2] \in 1 .. MaxSends
           /\ \A r \in rows : r[1] \in Ops /\ r[2] \in 0 .. MaxSends
           /\ \A o \in Ops : sent[o] \in 0 .. MaxSends
  BY BoundAssumption DEF TypeOK

\* The temporary rows of a set of operations.
Drafts(S) == {Temp(o) : o \in S}

\* Drafts of lost went, drafts of gained came, rows of the server were added.
StoreBecomes(lost, gained, added) ==
    /\ \A o \in Ops : Temp(o) \in rows' <=> (Temp(o) \in rows /\ o \notin lost) \/ o \in gained
    /\ \A r : r[2] # 0 => (r \in rows' <=> r \in rows \/ r \in added)
    /\ \A r \in rows' : r \in rows \/ r \in added \/ \E o \in gained : r[1] = o /\ r[2] = 0

\* The store after drafts went, drafts came and rows of the server were added.
LEMMA StoreAfter ==
    ASSUME TypeOK, NEW lost \in SUBSET Ops, NEW gained \in SUBSET Ops, NEW added \in SUBSET accepted,
           rows' = ((rows \ Drafts(lost)) \cup Drafts(gained)) \cup added
    PROVE  StoreBecomes(lost, gained, added)
<1>1. \A r \in added : r[2] # 0
  BY TypedRequests
<1>2. ASSUME NEW o \in Ops
      PROVE  Temp(o) \in rows' <=> (Temp(o) \in rows /\ o \notin lost) \/ o \in gained
  <2>1. Temp(o) \notin added
    BY <1>1, TempRows
  <2>2. Temp(o) \in Drafts(lost) <=> o \in lost
    BY TempRows DEF Drafts
  <2>3. Temp(o) \in Drafts(gained) <=> o \in gained
    BY TempRows DEF Drafts
  <2> QED BY <2>1, <2>2, <2>3
<1>3. ASSUME NEW r, r[2] # 0
      PROVE  r \in rows' <=> r \in rows \/ r \in added
  <2>1. r \notin Drafts(lost) /\ r \notin Drafts(gained)
    BY <1>3, TempRows DEF Drafts
  <2> QED BY <2>1
<1>4. ASSUME NEW r \in rows'
      PROVE  r \in rows \/ r \in added \/ \E o \in gained : r[1] = o /\ r[2] = 0
  BY TempRows DEF Drafts
<1> QED BY <1>2, <1>3, <1>4 DEF StoreBecomes

\* A call not made yet has no row of the server.
LEMMA UncalledHasNone ==
    ASSUME TypeOK, RequestsKept, RowsKept, NEW o \in Ops, ledger[o] = "uncalled"
    PROVE  \A r \in rows : ~ ServerRow(o, r)
  BY TypedRequests DEF RequestsKept, RowsKept, ServerRow

(* What a torn commit leaves: the operations it was about are half written *)
(* and the others untouched, but for a request that is to be rebuilt.      *)
LEMMA TornRows ==
    ASSUME IInv, NEW ops, Dies(ops), UNCHANGED accepted,
           \A o \in Ops \ (torn \cup ops) :
               \/ ledger'[o] = ledger[o]
               \/ ledger'[o] = "pending" /\ Request(o) /\ ledger[o] \in {"uncalled", "failed"}
    PROVE  RowInv' /\ AnswerInv'
<1> USE DEF IInv, RowInv, Dies
<1>1. RowsKept'
  BY DEF RowsKept, HasRow
<1>2. DraftsAreOpen'
  BY DEF DraftsAreOpen, Open, Temp
<1>3. DraftsKept'
  BY DEF DraftsKept, Temp, HasRow, Request
<1>4. ASSUME ~ Alike PROVE AnswersKept'
  <2>1. AnswersKept
    BY <1>4 DEF AnswerInv
  <2>2. Unanswered'
    <3> SUFFICES ASSUME NEW o \in Correlated \ torn', ledger'[o] \in {"pending", "failed"},
                        NEW r \in rows
                 PROVE  ~ ServerRow(o, r)
      BY DEF Unanswered, ServerRow
    <3>1. o \in Ops /\ o \notin torn /\ o \notin ops
      BY CallAssumption
    <3>2. CASE ledger[o] = "uncalled"
      BY <3>1, <3>2, UncalledHasNone
    <3>3. CASE ledger[o] # "uncalled"
      BY <2>1, <3>1, <3>3 DEF AnswersKept, Unanswered
    <3> QED BY <3>2, <3>3
  <2>3. NoTwinEver'
    BY <2>1 DEF AnswersKept, NoTwinEver, Temp, ServerRow
  <2>4. LandedEver'
    BY <2>1 DEF AnswersKept, LandedEver, HasRow, ServerRow
  <2> QED BY <2>2, <2>3, <2>4 DEF AnswersKept
<1> QED BY <1>1, <1>2, <1>3, <1>4 DEF AnswerInv

(* What a status alone may change: to pending from failed, to failed or    *)
(* unknown from pending, to closed where no draft is.                      *)
LEMMA StatusRows ==
    ASSUME IInv, UNCHANGED <<rows, running, torn>>, accepted \subseteq accepted',
           \A o \in Ops :
               \/ ledger'[o] = ledger[o]
               \/ ledger'[o] \in Open \ {"failed"} /\ ledger[o] \in {"pending", "failed"} /\ running
               \/ ledger'[o] = "failed" /\ ledger[o] = "pending" /\ running
               \/ ledger'[o] = "absent" /\ ledger[o] \notin Open
               \/ ledger'[o] \in {"rolledback", "committed"} /\ ~ HasRow(o)
    PROVE  RowInv' /\ AnswerInv'
<1> USE DEF IInv, RowInv
<1>1. RowsKept'
  BY DEF RowsKept, HasRow
<1>2. DraftsAreOpen'
  BY TempRows DEF DraftsAreOpen, RowsKept, Open
<1>3. DraftsKept'
  BY DEF DraftsKept, Temp, HasRow, Request, Open
<1>4. ASSUME ~ Alike PROVE AnswersKept'
  <2>1. AnswersKept
    BY <1>4 DEF AnswerInv
  <2>2. Unanswered'
    BY <2>1, CallAssumption DEF AnswersKept, Unanswered, ServerRow, Open
  <2>3. NoTwinEver'
    BY <2>1 DEF AnswersKept, NoTwinEver, Temp, ServerRow
  <2>4. LandedEver'
    BY <2>1 DEF AnswersKept, LandedEver, HasRow, ServerRow, Open
  <2> QED BY <2>2, <2>3, <2>4 DEF AnswersKept
<1> QED BY <1>1, <1>2, <1>3, <1>4 DEF AnswerInv

(* A call begins, or begins again, with its draft.                         *)
LEMMA DraftedRows ==
    ASSUME IInv, NEW o \in Ops, ledger[o] \in {"uncalled", "failed"},
           ledger' = [ledger EXCEPT ![o] = "pending"], rows' = rows \cup TempRow(o),
           UNCHANGED <<running, torn, accepted>>
    PROVE  RowInv' /\ AnswerInv'
<1> USE DEF IInv, RowInv
<1> DEFINE gained == IF HasRow(o) THEN {o} ELSE {}
<1>1. StoreBecomes({}, gained, {})
  <2>1. rows' = ((rows \ Drafts({})) \cup Drafts(gained)) \cup {}
    BY DEF TempRow, Drafts
  <2>2. {} \in SUBSET Ops /\ gained \in SUBSET Ops /\ {} \in SUBSET accepted
    OBVIOUS
  <2> HIDE DEF gained
  <2> QED BY <2>1, <2>2, StoreAfter
<1>2. ledger'[o] = "pending" /\ \A p \in Ops \ {o} : ledger'[p] = ledger[p]
  BY DEF TypeOK
<1>3. RowsKept'
  BY <1>1 DEF StoreBecomes, RowsKept, HasRow
<1>4. DraftsAreOpen'
  BY <1>1, <1>2 DEF StoreBecomes, DraftsAreOpen, Open, Temp
<1>5. DraftsKept'
  BY <1>1, <1>2 DEF StoreBecomes, DraftsKept, HasRow, Request, Temp
<1>6. ASSUME ~ Alike PROVE AnswersKept'
  <2>1. AnswersKept
    BY <1>6 DEF AnswerInv
  <2>2. o \in Correlated \ torn => \A r \in rows : ~ ServerRow(o, r)
    BY <2>1, UncalledHasNone DEF AnswersKept, Unanswered
  <2>3. Unanswered'
    BY <1>1, <1>2, <2>1, <2>2, CallAssumption DEF StoreBecomes, AnswersKept, Unanswered, ServerRow
  <2>4. NoTwinEver'
    BY <1>1, <2>1, <2>2, CallAssumption DEF StoreBecomes, AnswersKept, NoTwinEver, ServerRow, Temp
  <2>5. LandedEver'
    BY <1>1, <1>2, <2>1 DEF StoreBecomes, AnswersKept, LandedEver, HasRow, ServerRow
  <2> QED BY <2>3, <2>4, <2>5 DEF AnswersKept
<1> QED BY <1>3, <1>4, <1>5, <1>6 DEF AnswerInv

(* A call is given up with its draft.                                      *)
LEMMA DroppedRows ==
    ASSUME IInv, NEW o \in Ops, ledger' = [ledger EXCEPT ![o] = "absent"], rows' = rows \ {Temp(o)},
           UNCHANGED <<running, torn, accepted>>
    PROVE  RowInv' /\ AnswerInv'
<1> USE DEF IInv, RowInv
<1>1. StoreBecomes({o}, {}, {})
  <2>1. rows' = ((rows \ Drafts({o})) \cup Drafts({})) \cup {}
    BY DEF Drafts
  <2>2. {} \in SUBSET Ops /\ {o} \in SUBSET Ops /\ {} \in SUBSET accepted
    OBVIOUS
  <2> QED BY <2>1, <2>2, StoreAfter
<1>2. ledger'[o] = "absent" /\ \A p \in Ops \ {o} : ledger'[p] = ledger[p]
  BY DEF TypeOK
<1>3. RowsKept'
  BY <1>1 DEF StoreBecomes, RowsKept, HasRow
<1>4. DraftsAreOpen'
  BY <1>1, <1>2 DEF StoreBecomes, DraftsAreOpen, Open, Temp
<1>5. DraftsKept'
  BY <1>1, <1>2 DEF StoreBecomes, DraftsKept, HasRow, Request, Temp
<1>6. ASSUME ~ Alike PROVE AnswersKept'
  <2>1. AnswersKept
    BY <1>6 DEF AnswerInv
  <2>2. Unanswered'
    BY <1>1, <1>2, <2>1, CallAssumption DEF StoreBecomes, AnswersKept, Unanswered, ServerRow
  <2>3. NoTwinEver'
    BY <1>1, <2>1, CallAssumption DEF StoreBecomes, AnswersKept, NoTwinEver, ServerRow, Temp
  <2>4. LandedEver'
    BY <1>1, <1>2, <2>1 DEF StoreBecomes, AnswersKept, LandedEver, HasRow, ServerRow
  <2> QED BY <2>2, <2>3, <2>4 DEF AnswersKept
<1> QED BY <1>3, <1>4, <1>5, <1>6 DEF AnswerInv

(* The response takes the place of the draft of its call.                  *)
LEMMA AnsweredRows ==
    ASSUME IInv, NEW o \in Ops, HasRow(o), Latest(o) \in accepted,
           ledger' = [ledger EXCEPT ![o] = "committed"], rows' = Replaced({o}, Latest(o)),
           UNCHANGED <<running, torn, accepted>>
    PROVE  RowInv' /\ AnswerInv'
<1> USE DEF IInv, RowInv
<1> DEFINE s == Latest(o)
<1>1. s \in accepted /\ s[1] = o /\ s[2] # 0
  BY TypedRequests DEF Latest
<1>2. StoreBecomes({o}, {}, {s})
  <2>1. rows' = ((rows \ Drafts({o})) \cup Drafts({})) \cup {s}
    BY DEF Drafts, Replaced
  <2>2. {} \in SUBSET Ops /\ {o} \in SUBSET Ops /\ {s} \in SUBSET accepted
    OBVIOUS
  <2> HIDE DEF s
  <2> QED BY <2>1, <2>2, StoreAfter
<1> HIDE DEF s
<1>3. ledger'[o] = "committed" /\ \A p \in Ops \ {o} : ledger'[p] = ledger[p]
  BY DEF TypeOK
<1>4. RowsKept'
  BY <1>1, <1>2 DEF StoreBecomes, RowsKept, HasRow
<1>5. DraftsAreOpen'
  BY <1>2, <1>3 DEF StoreBecomes, DraftsAreOpen, Open, Temp
<1>6. DraftsKept'
  BY <1>2, <1>3 DEF StoreBecomes, DraftsKept, HasRow, Request, Temp
<1>7. ASSUME ~ Alike PROVE AnswersKept'
  <2>1. AnswersKept
    BY <1>7 DEF AnswerInv
  <2>2. Unanswered'
    BY <1>1, <1>2, <1>3, <2>1, CallAssumption DEF StoreBecomes, AnswersKept, Unanswered, ServerRow
  <2>3. NoTwinEver'
    BY <1>1, <1>2, <2>1, CallAssumption DEF StoreBecomes, AnswersKept, NoTwinEver, ServerRow, Temp
  <2>4. LandedEver'
    BY <1>1, <1>2, <1>3, <2>1 DEF StoreBecomes, AnswersKept, LandedEver, HasRow, ServerRow
  <2> QED BY <2>2, <2>3, <2>4 DEF AnswersKept
<1> QED BY <1>4, <1>5, <1>6, <1>7 DEF AnswerInv

(* A row of the server takes the place of the draft it is the answer to.   *)
LEMMA IncomingRows ==
    ASSUME IInv, running, NEW r \in accepted, r \notin rows, HasRow(r[1]),
           ledger' = Correlate(Claimed(r)), rows' = Replaced(Claimed(r), r),
           UNCHANGED <<running, torn, accepted>>
    PROVE  RowInv' /\ AnswerInv'
<1> USE DEF IInv, RowInv
<1> DEFINE drafts == Claimed(r)
<1>1. r[1] \in Ops /\ r[2] # 0
  BY TypedRequests
<1>2. /\ drafts \in SUBSET Ops
      /\ \A c \in drafts : c \in Correlated /\ ledger[c] \in Open /\ (Alike \/ c = r[1])
      /\ ~ Alike /\ r[1] \in Correlated /\ ledger[r[1]] \in Open /\ Temp(r[1]) \in rows => r[1] \in drafts
  <2>1. Candidates(r) \subseteq Correlated /\ Correlated \subseteq Ops
    BY CallAssumption DEF Candidates
  <2>2. \A c \in Candidates(r) : ledger[c] \in Open /\ (Alike \/ c = r[1])
    BY DEF Candidates
  <2>3. ASSUME ~ Alike, r[1] \in Correlated, ledger[r[1]] \in Open, Temp(r[1]) \in rows
        PROVE  r[1] \in drafts
    <3>1. Candidates(r) = {r[1]}
      BY <2>3 DEF Candidates
    <3>2. r[1] <= r[1]
      BY <1>1 DEF Ops
    <3> QED BY <3>1, <3>2 DEF Claimed
  <2> QED BY <2>1, <2>2, <2>3 DEF Claimed
<1>3. /\ \A c \in drafts : \/ ledger[c] = "pending" /\ ledger'[c] = "committed"
                           \/ ledger'[c] \in {"absent", "delivery_unknown"}
      /\ \A p \in Ops \ drafts : ledger'[p] = ledger[p]
  <2> HIDE DEF drafts
  <2> QED BY <1>2 DEF Correlate, Open, drafts
<1>4. StoreBecomes(drafts, {}, {r})
  <2>1. rows' = ((rows \ Drafts(drafts)) \cup Drafts({})) \cup {r}
    BY DEF Drafts, Replaced
  <2>2. {} \in SUBSET Ops /\ {r} \in SUBSET accepted
    OBVIOUS
  <2> HIDE DEF drafts
  <2> QED BY <1>2, <2>1, <2>2, StoreAfter
<1> HIDE DEF drafts
<1>5. RowsKept'
  BY <1>4 DEF StoreBecomes, RowsKept, HasRow
<1>6. DraftsAreOpen'
  BY <1>3, <1>4 DEF StoreBecomes, DraftsAreOpen, Open, Temp
<1>7. DraftsKept'
  BY <1>2, <1>3, <1>4 DEF StoreBecomes, DraftsKept, HasRow, Request, Temp
<1>8. ASSUME ~ Alike PROVE AnswersKept'
  <2>1. AnswersKept
    BY <1>8 DEF AnswerInv
  <2>2. r[1] \in (Correlated \ torn) \ drafts => Temp(r[1]) \notin rows
    BY <1>1, <1>2, <1>8 DEF DraftsAreOpen
  <2>3. r[1] \in (Correlated \ torn) \ drafts => ledger[r[1]] \notin {"pending", "failed"}
    BY <1>1, <2>2 DEF DraftsKept
  <2>4. Unanswered'
    BY <1>2, <1>3, <1>4, <2>1, <2>3, CallAssumption DEF StoreBecomes, AnswersKept, Unanswered,
       ServerRow
  <2>5. NoTwinEver'
    BY <1>4, <2>1, <2>2, CallAssumption DEF StoreBecomes, AnswersKept, NoTwinEver, ServerRow, Temp
  <2>6. LandedEver'
    BY <1>1, <1>2, <1>3, <1>4, <1>8, <2>1 DEF StoreBecomes, AnswersKept, LandedEver, HasRow,
       ServerRow
  <2> QED BY <2>4, <2>5, <2>6 DEF AnswersKept
<1> QED BY <1>5, <1>6, <1>7, <1>8 DEF AnswerInv

(* The boot closes the requests a kill left open, gives each its draft and *)
(* takes the drafts that have no open operation.                           *)
LEMMA BootRows ==
    ASSUME IInv, Boot, running', UNCHANGED torn
    PROVE  RowInv' /\ AnswerInv'
<1> USE DEF IInv, RowInv
<1> DEFINE gained == {o \in Crashed : HasRow(o)}
           lost   == {o \in Ops : ledger'[o] \notin Open /\ Temp(o) \in rowKeys}
<1>1. /\ \A o \in Crashed : o \in Ops /\ Request(o) /\ ledger[o] = "pending" /\ ledger'[o] = Failure(o)
      /\ \A o \in Ops \ Crashed : ledger'[o] = ledger[o] /\ ~ (Request(o) /\ ledger[o] = "pending")
  BY DEF Boot, Crashed
<1>2. ~ running /\ UNCHANGED accepted
  BY DEF Boot, server
<1>3. StoreBecomes(lost, gained, {})
  <2>1. rows' = (rows \cup Drafts(gained)) \ (Drafts({p \in Ops : ledger'[p] \notin Open}) \cap rowKeys)
    <3>1. UNION {TempRow(o) : o \in Crashed} = Drafts(gained)
      BY DEF TempRow, Drafts
    <3> QED BY <3>1, <1>2 DEF Boot, Drafts, Dies
  <2>2. Drafts({p \in Ops : ledger'[p] \notin Open}) \cap rowKeys = Drafts(lost)
    BY DEF Drafts
  <2>3. Drafts(gained) \cap Drafts(lost) = {}
    <3>1. gained \cap lost = {}
      BY <1>1 DEF Failure, Open
    <3>2. gained \in SUBSET Ops /\ lost \in SUBSET Ops
      BY <1>1
    <3> HIDE DEF gained, lost
    <3> QED BY <3>1, <3>2, TempRows DEF Drafts
  <2>4. rows' = ((rows \ Drafts(lost)) \cup Drafts(gained)) \cup {}
    BY <2>1, <2>2, <2>3
  <2>5. lost \in SUBSET Ops /\ gained \in SUBSET Ops /\ {} \in SUBSET accepted
    BY <1>1
  <2> HIDE DEF gained, lost
  <2> QED BY <2>4, <2>5, StoreAfter
<1>4. /\ \A p \in gained : HasRow(p) /\ ledger'[p] = "failed" /\ ledger[p] = "pending"
      /\ \A p \in Crashed \ gained : ~ HasRow(p) /\ ledger'[p] = "rolledback"
      /\ \A p \in lost : ledger'[p] \notin Open
  BY <1>1 DEF Failure
<1> HIDE DEF gained, lost
<1>5. RowsKept'
  BY <1>2, <1>3, <1>4 DEF StoreBecomes, RowsKept, HasRow
<1>6. DraftsAreOpen'
  BY <1>1, <1>3, <1>4, TempRows DEF StoreBecomes, DraftsAreOpen, RowsKept, Open
<1>7. DraftsKept'
  BY <1>1, <1>2, <1>3, <1>4 DEF StoreBecomes, DraftsKept, HasRow, Request, Temp, Open
<1>8. ASSUME ~ Alike PROVE AnswersKept'
  <2>1. AnswersKept
    BY <1>8 DEF AnswerInv
  <2>2. Unanswered'
    BY <1>1, <1>3, <1>4, <2>1, CallAssumption DEF StoreBecomes, AnswersKept, Unanswered, ServerRow
  <2>3. NoTwinEver'
    BY <1>1, <1>3, <1>4, <2>1, CallAssumption DEF StoreBecomes, AnswersKept, NoTwinEver,
       Unanswered, ServerRow, Temp
  <2>4. LandedEver'
    BY <1>1, <1>2, <1>3, <1>4, <2>1 DEF StoreBecomes, AnswersKept, LandedEver, HasRow, ServerRow
  <2> QED BY <2>2, <2>3, <2>4 DEF AnswersKept
<1> QED BY <1>5, <1>6, <1>7, <1>8 DEF AnswerInv

\* Every step of the specification keeps the rows and their drafts in order.
LEMMA RowsStep ==
    ASSUME IInv, [Next]_vars
    PROVE  RowInv' /\ AnswerInv'
<1> USE DEF vars, storage, process, server
<1>1. CASE UNCHANGED vars
  BY <1>1, StatusRows
<1>2. ASSUME NEW o \in Ops, Run(o) PROVE RowInv' /\ AnswerInv'
  <2>1. /\ ledger[o] = "uncalled" /\ Request(o)
        /\ ledger' = [ledger EXCEPT ![o] = "pending"] /\ UNCHANGED accepted
    BY <1>2 DEF Run, Callable, Send
  <2>2. CASE Lands(rows \cup TempRow(o), pendingKeys \cup {KeyOf[o]})
    BY <2>1, <2>2, DraftedRows DEF Lands
  <2>3. CASE Dies({})
    BY <2>1, <2>3, TornRows DEF IInv, TypeOK
  <2> QED BY <1>2, <2>2, <2>3 DEF Run
<1>3. ASSUME NEW o \in Ops, RunDeduped(o) PROVE RowInv' /\ AnswerInv'
  BY <1>3, StatusRows DEF RunDeduped, Callable, IInv, TypeOK, Open
<1>4. ASSUME NEW o \in Ops, Start(o) PROVE RowInv' /\ AnswerInv'
  <2>1. /\ ledger[o] = "uncalled" /\ ~ Request(o)
        /\ ledger' = [ledger EXCEPT ![o] = "pending"] /\ UNCHANGED accepted
    BY <1>4 DEF Start, Callable
  <2>2. CASE Lands(rows \cup {Temp(o)}, pendingKeys)
    <3>1. TempRow(o) = {Temp(o)}
      BY <2>1 DEF TempRow, HasRow, Request
    <3> QED BY <2>1, <2>2, <3>1, DraftedRows DEF Lands
  <2>3. CASE Dies({o})
    BY <2>1, <2>3, TornRows DEF IInv, TypeOK
  <2> QED BY <1>4, <2>2, <2>3 DEF Start
<1>5. ASSUME NEW o \in Ops, Execute(o) PROVE RowInv' /\ AnswerInv'
  BY <1>5, StatusRows DEF Execute, Executable, Send, IInv, TypeOK, Open
<1>6. ASSUME NEW o \in Ops, Retry(o) PROVE RowInv' /\ AnswerInv'
  <2>1. /\ ledger[o] = "failed" /\ KindOf[o] = "insert"
        /\ ledger' = [ledger EXCEPT ![o] = "pending"] /\ UNCHANGED accepted
    BY <1>6 DEF Retry, Send
  <2>2. CASE Lands(rows \cup {Temp(o)}, pendingKeys \cup {KeyOf[o]})
    <3>1. TempRow(o) = {Temp(o)}
      BY <2>1 DEF TempRow, HasRow
    <3> QED BY <2>1, <2>2, <3>1, DraftedRows DEF Lands
  <2>3. CASE Dies({})
    BY <2>1, <2>3, TornRows DEF IInv, TypeOK, Request
  <2> QED BY <1>6, <2>2, <2>3 DEF Retry
<1>7. ASSUME NEW o \in Ops, Drop(o) PROVE RowInv' /\ AnswerInv'
  <2>1. ledger' = [ledger EXCEPT ![o] = "absent"] /\ UNCHANGED accepted
    BY <1>7 DEF Drop
  <2>2. CASE Lands(rows \ {Temp(o)}, pendingKeys)
    BY <2>1, <2>2, DroppedRows DEF Lands
  <2>3. CASE Dies({o})
    BY <2>1, <2>3, TornRows DEF IInv, TypeOK
  <2> QED BY <1>7, <2>2, <2>3 DEF Drop
<1>8. ASSUME NEW o \in Ops, Answer(o) PROVE RowInv' /\ AnswerInv'
  <2>1. /\ ledger' = [ledger EXCEPT ![o] = "committed"] /\ UNCHANGED accepted
        /\ Latest(o) \in accepted
    BY <1>8 DEF Answer
  <2>2. CASE HasRow(o) /\ Lands(Replaced({o}, Latest(o)), KeysWithout({o}))
    BY <2>1, <2>2, AnsweredRows DEF Lands
  <2>3. CASE ~ HasRow(o) /\ Lands(rows, KeysWithout({o}))
    BY <2>1, <2>3, StatusRows DEF Lands, IInv, TypeOK
  <2>4. CASE Dies({o})
    BY <2>1, <2>4, TornRows DEF IInv, TypeOK
  <2> QED BY <1>8, <2>2, <2>3, <2>4 DEF Answer
<1>9. ASSUME NEW o \in Ops, AnswerDropped(o) PROVE RowInv' /\ AnswerInv'
  BY <1>9, StatusRows DEF AnswerDropped
<1>10. ASSUME NEW o \in Ops, AnswerError(o) \/ AnswerUnusable(o) PROVE RowInv' /\ AnswerInv'
  <2>1. /\ running /\ ledger[o] = "pending"
        /\ ledger' = [ledger EXCEPT ![o] = Failure(o)]
        /\ UNCHANGED <<rows, running, torn, accepted>>
    BY <1>10 DEF AnswerError, AnswerUnusable, Settled, Active, Open, IInv, RequestsKept
  <2> QED BY <2>1, StatusRows DEF Failure, IInv, TypeOK
<1>11. ASSUME NEW o \in Ops, AnswerUnknown(o) PROVE RowInv' /\ AnswerInv'
  <2>1. /\ running /\ ledger[o] = "pending"
        /\ ledger' = [ledger EXCEPT ![o] = "delivery_unknown"]
        /\ UNCHANGED <<rows, running, torn, accepted>>
    BY <1>11 DEF AnswerUnknown, Settled, Active, Open, IInv, RequestsKept
  <2> QED BY <2>1, StatusRows DEF IInv, TypeOK, Open
<1>12. ASSUME NEW r \in wire, Accept(r) PROVE RowInv' /\ AnswerInv'
  BY <1>12, StatusRows DEF Accept
<1>13. ASSUME NEW r \in accepted, Incoming(r) PROVE RowInv' /\ AnswerInv'
  <2> DEFINE drafts == Claimed(r)
             closed == {c \in drafts : ledger[c] = "pending"}
  <2>1. /\ running /\ r \notin rows /\ HasRow(r[1]) /\ UNCHANGED accepted
        /\ ledger' = Correlate(drafts)
    BY <1>13 DEF Incoming
  <2>2. CASE Lands(Replaced(drafts, r), KeysWithout(closed))
    BY <2>1, <2>2, IncomingRows DEF Lands
  <2>3. CASE Dies(drafts)
    <3>1. \A o \in Ops \ drafts : ledger'[o] = ledger[o]
      BY <2>1 DEF Correlate
    <3> HIDE DEF drafts
    <3> QED BY <2>1, <2>3, <3>1, TornRows
  <2> QED BY <1>13, <2>2, <2>3 DEF Incoming
<1>14. CASE Flush
  BY <1>14, StatusRows DEF Flush
<1>15. CASE Kill
  BY <1>15, TornRows DEF Kill
<1>16. CASE Boot
  <2>1. CASE running' /\ UNCHANGED torn
    BY <1>16, <2>1, BootRows
  <2>2. CASE Dies(Crashed)
    <3>1. UNCHANGED accepted /\ \A o \in Ops \ Crashed : ledger'[o] = ledger[o]
      BY <1>16 DEF Boot
    <3> QED BY <2>2, <3>1, TornRows
  <2> QED BY <1>16, <2>1, <2>2 DEF Boot
<1> QED BY <1>1, <1>2, <1>3, <1>4, <1>5, <1>6, <1>7, <1>8, <1>9, <1>10, <1>11, <1>12, <1>13,
           <1>14, <1>15, <1>16 DEF Next, Call, Settle

-----------------------------------------------------------------------------
(* Types, and the requests.                                                *)

\* The commits of a step keep the types of what they write.
LEMMA TypedStore ==
    ASSUME TypeOK
    PROVE  /\ \A o \in Ops : TempRow(o) \subseteq Ops \X (0 .. MaxSends)
           /\ \A r \in accepted : r \in Ops \X (0 .. MaxSends)
  BY BoundAssumption DEF TypeOK, TempRow, Temp

\* A request that is sent within the bound.
LEMMA SendKeeps ==
    ASSUME TypeOK, NEW o \in Ops, Send(o), sent[o] < MaxSends
    PROVE  /\ sent' \in [Ops -> 0 .. MaxSends]
           /\ wire' \subseteq Ops \X (1 .. MaxSends) /\ accepted' \subseteq Ops \X (1 .. MaxSends)
           /\ \A p \in Ops : sent[p] <= sent'[p] /\ (p # o => sent'[p] = sent[p])
           /\ \A r \in wire' \cup accepted' :
                  r \in wire \cup accepted \/ (r[1] = o /\ r[2] = sent'[o])
<1>1. sent[o] \in Nat /\ sent[o] + 1 \in 1 .. MaxSends /\ \A p \in Ops : sent[p] \in Nat
  BY BoundAssumption DEF TypeOK
<1>2. sent'[o] = sent[o] + 1 /\ \A p \in Ops \ {o} : sent'[p] = sent[p]
  BY DEF Send, TypeOK
<1>3. <<o, sent[o] + 1>> \in Ops \X (1 .. MaxSends)
  BY <1>1
<1>4. sent' \in [Ops -> 0 .. MaxSends]
  BY <1>1 DEF Send, TypeOK
<1>5. \A r \in wire' : r \in wire \/ r = <<o, sent[o] + 1>>
  BY DEF Send
<1>6. wire' \subseteq Ops \X (1 .. MaxSends) /\ accepted' \subseteq Ops \X (1 .. MaxSends)
  BY <1>3 DEF Send, TypeOK
<1> QED BY <1>1, <1>2, <1>4, <1>5, <1>6 DEF Send

\* Every step keeps the types and the requests.
LEMMA TypeStep ==
    ASSUME TypeOK, RequestsKept, [Next]_vars
    PROVE  TypeOK' /\ RequestsKept'
<1> USE CallAssumption, BoundAssumption DEF vars, storage, process, server, Statuses, Open, Keys
<1>1. CASE UNCHANGED vars
  BY <1>1 DEF TypeOK, RequestsKept
<1>2. ASSUME NEW o \in Ops, Run(o) PROVE TypeOK' /\ RequestsKept'
  <2>1. /\ ledger[o] = "uncalled" /\ ledger' = [ledger EXCEPT ![o] = "pending"]
        /\ UNCHANGED <<onceKeys, rowKeys>> /\ sent[o] = 0
    BY <1>2 DEF Run, Callable, RequestsKept
  <2>2. CASE /\ Lands(rows \cup TempRow(o), pendingKeys \cup {KeyOf[o]})
             /\ flight' = flight \cup {o} /\ Send(o)
    BY <1>2, <2>1, <2>2, SendKeeps, TypedStore, TypedRequests DEF Run, Callable, Lands, TypeOK,
       RequestsKept
  <2>3. CASE Dies({}) /\ UNCHANGED server
    BY <2>1, <2>3 DEF Dies, TypeOK, RequestsKept
  <2> QED BY <1>2, <2>2, <2>3 DEF Run
<1>3. ASSUME NEW o \in Ops, RunDeduped(o) PROVE TypeOK' /\ RequestsKept'
  BY <1>3 DEF RunDeduped, TypeOK, RequestsKept
<1>4. ASSUME NEW o \in Ops, Start(o) PROVE TypeOK' /\ RequestsKept'
  <2>1. CASE Lands(rows \cup {Temp(o)}, pendingKeys) /\ UNCHANGED flight
    BY <1>4, <2>1, TempRows DEF Start, Callable, Lands, TypeOK, RequestsKept
  <2>2. CASE Dies({o})
    BY <1>4, <2>2 DEF Start, Dies, TypeOK, RequestsKept
  <2> QED BY <1>4, <2>1, <2>2 DEF Start
<1>5. ASSUME NEW o \in Ops, Execute(o) PROVE TypeOK' /\ RequestsKept'
  BY <1>5, SendKeeps, TypedRequests DEF Execute, TypeOK, RequestsKept
<1>6. ASSUME NEW o \in Ops, Retry(o) PROVE TypeOK' /\ RequestsKept'
  <2>1. /\ sent[o] < MaxSends /\ ledger' = [ledger EXCEPT ![o] = "pending"] /\ running
        /\ UNCHANGED <<onceKeys, rowKeys>>
    BY <1>6 DEF Retry
  <2>2. CASE /\ Lands(rows \cup {Temp(o)}, pendingKeys \cup {KeyOf[o]})
             /\ flight' = flight \cup {o} /\ Send(o)
    BY <2>1, <2>2, SendKeeps, TempRows, TypedRequests DEF Lands, TypeOK, RequestsKept
  <2>3. CASE Dies({}) /\ UNCHANGED server
    BY <2>1, <2>3 DEF Dies, TypeOK, RequestsKept
  <2> QED BY <1>6, <2>2, <2>3 DEF Retry
<1>7. ASSUME NEW o \in Ops, Drop(o) PROVE TypeOK' /\ RequestsKept'
  <2>1. CASE Lands(rows \ {Temp(o)}, pendingKeys) /\ UNCHANGED flight
    BY <1>7, <2>1 DEF Drop, Lands, TypeOK, RequestsKept
  <2>2. CASE Dies({o})
    BY <1>7, <2>2 DEF Drop, Dies, TypeOK, RequestsKept
  <2> QED BY <1>7, <2>1, <2>2 DEF Drop
<1>8. ASSUME NEW o \in Ops, Answer(o) PROVE TypeOK' /\ RequestsKept'
  <2>1. /\ ledger' = [ledger EXCEPT ![o] = "committed"] /\ running /\ Latest(o) \in accepted
        /\ onceKeys' \subseteq OnceKeys /\ UNCHANGED <<rowKeys, server>>
    BY <1>8 DEF Answer, OnceKept, TypeOK
  <2>2. CASE /\ Lands(IF HasRow(o) THEN Replaced({o}, Latest(o)) ELSE rows, KeysWithout({o}))
             /\ flight' = flight \ {o}
    <3>1. rows' \subseteq Ops \X (0 .. MaxSends)
      BY <2>1, <2>2, TypedStore DEF Lands, Replaced, TypeOK
    <3> QED BY <2>1, <2>2, <3>1 DEF Lands, KeysWithout, TypeOK, RequestsKept
  <2>3. CASE Dies({o})
    BY <2>1, <2>3 DEF Dies, TypeOK, RequestsKept
  <2> QED BY <1>8, <2>2, <2>3 DEF Answer
<1>9. ASSUME NEW o \in Ops, AnswerDropped(o) PROVE TypeOK' /\ RequestsKept'
  BY <1>9 DEF AnswerDropped, TypeOK, RequestsKept
<1>10. ASSUME NEW o \in Ops, AnswerError(o) PROVE TypeOK' /\ RequestsKept'
  BY <1>10 DEF AnswerError, Settled, Failure, KeysWithout, TypeOK, RequestsKept
<1>11. ASSUME NEW o \in Ops, AnswerUnusable(o) PROVE TypeOK' /\ RequestsKept'
  BY <1>11 DEF AnswerUnusable, Settled, Failure, KeysWithout, TypeOK, RequestsKept
<1>12. ASSUME NEW o \in Ops, AnswerUnknown(o) PROVE TypeOK' /\ RequestsKept'
  BY <1>12 DEF AnswerUnknown, Settled, KeysWithout, TypeOK, RequestsKept
<1>13. ASSUME NEW r \in wire, Accept(r) PROVE TypeOK' /\ RequestsKept'
  BY <1>13 DEF Accept, TypeOK, RequestsKept
<1>14. ASSUME NEW r \in accepted, Incoming(r) PROVE TypeOK' /\ RequestsKept'
  <2> DEFINE drafts == Claimed(r)
             closed == {c \in drafts : ledger[c] = "pending"}
  <2>1. /\ running /\ UNCHANGED <<rowKeys, server>> /\ ledger' = Correlate(drafts)
        /\ onceKeys' \subseteq OnceKeys
    BY <1>14 DEF Incoming, OnceKept, TypeOK
  <2>2. /\ ledger' \in [Ops -> Statuses]
        /\ \A o \in Ops : ledger'[o] = ledger[o] \/ ledger'[o] \in {"committed", "absent"}
    BY <2>1 DEF Correlate, TypeOK
  <2>3. drafts \subseteq Ops
    BY DEF Claimed, Candidates, Ops
  <2>4. CASE Lands(Replaced(drafts, r), KeysWithout(closed)) /\ UNCHANGED flight
    <3>1. rows' \subseteq Ops \X (0 .. MaxSends) /\ pendingKeys' \subseteq Keys
      BY <2>1, <2>4, TypedStore DEF Lands, Replaced, KeysWithout, TypeOK
    <3> QED BY <2>1, <2>2, <2>4, <3>1 DEF Lands, TypeOK, RequestsKept
  <2>5. CASE Dies(drafts)
    BY <2>1, <2>2, <2>3, <2>5 DEF Dies, TypeOK, RequestsKept
  <2> QED BY <1>14, <2>4, <2>5 DEF Incoming
<1>15. CASE Flush
  BY <1>15 DEF Flush, TypeOK, RequestsKept
<1>16. CASE Kill
  BY <1>16 DEF Kill, Dies, TypeOK, RequestsKept
<1>17. CASE Boot
  <2>1. /\ UNCHANGED <<onceKeys, rowKeys, server>> /\ ~ running
        /\ ledger' = [o \in Ops |-> IF o \in Crashed THEN Failure(o) ELSE ledger[o]]
    BY <1>17 DEF Boot
  <2>2. /\ ledger' \in [Ops -> Statuses]
        /\ \A o \in Ops : ledger'[o] = "uncalled" => ledger[o] = "uncalled"
    BY <2>1 DEF Failure, TypeOK
  <2>3. Crashed \subseteq Ops
    BY DEF Crashed
  <2>4. CASE running' = TRUE /\ UNCHANGED <<pendingKeys, flight, torn>>
    <3>1. rows' \subseteq Ops \X (0 .. MaxSends)
      <4>1. UNION {TempRow(o) : o \in Crashed} \subseteq Ops \X (0 .. MaxSends)
        BY <2>3, TypedStore
      <4>2. rows' \subseteq rows \cup UNION {TempRow(o) : o \in Crashed}
        BY <1>17 DEF Boot, Dies
      <4> QED BY <4>1, <4>2 DEF TypeOK
    <3> QED BY <2>1, <2>2, <2>4, <3>1 DEF TypeOK, RequestsKept
  <2>5. CASE Dies(Crashed)
    BY <2>1, <2>2, <2>3, <2>5 DEF Dies, TypeOK, RequestsKept
  <2> QED BY <1>17, <2>4, <2>5 DEF Boot
<1> QED BY <1>1, <1>2, <1>3, <1>4, <1>5, <1>6, <1>7, <1>8, <1>9, <1>10, <1>11, <1>12, <1>13,
           <1>14, <1>15, <1>16, <1>17 DEF Next, Call, Settle

-----------------------------------------------------------------------------
(* Calls declared once.                                                    *)

\* A success of a call declared once stays known.
LEMMA SuccessStep ==
    ASSUME OnceTracked, TypeOK, SuccessKept, [Next]_vars
    PROVE  SuccessKept'
<1> USE CallAssumption, BoundAssumption DEF Ops, Keys, Kinds, HasRow, Request, Open, Statuses,
        vars, storage, process, server, Temp, TypeOK, OnceTracked, OnceKeyed, SuccessKept
<1>1. CASE UNCHANGED vars
  BY <1>1
<1>2. ASSUME NEW o \in Ops, Run(o) PROVE SuccessKept'
  BY <1>2 DEF Run, Callable, Lands, Dies, Send, TempRow
<1>3. ASSUME NEW o \in Ops, RunDeduped(o) PROVE SuccessKept'
  BY <1>3 DEF RunDeduped, Callable
<1>4. ASSUME NEW o \in Ops, Start(o) PROVE SuccessKept'
  BY <1>4 DEF Start, Callable, Lands, Dies
<1>5. ASSUME NEW o \in Ops, Execute(o) PROVE SuccessKept'
  BY <1>5 DEF Execute, Executable, Send
<1>6. ASSUME NEW o \in Ops, Retry(o) PROVE SuccessKept'
  BY <1>6 DEF Retry, Lands, Dies, Send
<1>7. ASSUME NEW o \in Ops, Drop(o) PROVE SuccessKept'
  BY <1>7 DEF Drop, Lands, Dies
<1>8. ASSUME NEW o \in Ops, Answer(o) PROVE SuccessKept'
  BY <1>8 DEF Answer, Active, Lands, Dies, Replaced, KeysWithout, OnceKept
<1>9. ASSUME NEW o \in Ops, AnswerDropped(o) PROVE SuccessKept'
  BY <1>9 DEF AnswerDropped
<1>10. ASSUME NEW o \in Ops, AnswerError(o) PROVE SuccessKept'
  BY <1>10 DEF AnswerError, Settled, Failure, KeysWithout, Active
<1>11. ASSUME NEW o \in Ops, AnswerUnusable(o) PROVE SuccessKept'
  BY <1>11 DEF AnswerUnusable, Settled, Failure, KeysWithout, Active
<1>12. ASSUME NEW o \in Ops, AnswerUnknown(o) PROVE SuccessKept'
  BY <1>12 DEF AnswerUnknown, Settled, KeysWithout, Active
<1>13. ASSUME NEW r \in wire, Accept(r) PROVE SuccessKept'
  BY <1>13 DEF Accept
<1>14. ASSUME NEW r \in accepted, Incoming(r) PROVE SuccessKept'
  BY <1>14 DEF Incoming, Claimed, Candidates, Correlate, Replaced, Lands, Dies, OnceKept,
     KeysWithout
<1>15. CASE Flush
  BY <1>15 DEF Flush
<1>16. CASE Kill
  BY <1>16 DEF Kill, Dies
<1>17. CASE Boot
  BY <1>17 DEF Boot, Crashed, Failure, TempRow, Dies
<1> QED BY <1>1, <1>2, <1>3, <1>4, <1>5, <1>6, <1>7, <1>8, <1>9, <1>10, <1>11, <1>12, <1>13,
           <1>14, <1>15, <1>16, <1>17 DEF Next, Call, Settle

\* Closing a call takes no key from the index that a pending call still needs.
LEMMA PendingStep ==
    ASSUME OnceTracked, TypeOK, OnceInv, [Next]_vars
    PROVE  PendingKept'
<1> USE CallAssumption, BoundAssumption DEF Ops, Keys, Kinds, HasRow, Request, Open, Statuses,
        vars, storage, process, server, Temp, TypeOK, OnceTracked, OnceKeyed, OnceInv,
        PendingKept, OneAtMost
<1>1. CASE UNCHANGED vars
  BY <1>1
<1>2. ASSUME NEW o \in Ops, Run(o) PROVE PendingKept'
  BY <1>2 DEF Run, Callable, Lands, Dies, Send, TempRow
<1>3. ASSUME NEW o \in Ops, RunDeduped(o) PROVE PendingKept'
  BY <1>3 DEF RunDeduped, Callable
<1>4. ASSUME NEW o \in Ops, Start(o) PROVE PendingKept'
  BY <1>4 DEF Start, Callable, Lands, Dies
<1>5. ASSUME NEW o \in Ops, Execute(o) PROVE PendingKept'
  BY <1>5 DEF Execute, Executable, Send
<1>6. ASSUME NEW o \in Ops, Retry(o) PROVE PendingKept'
  BY <1>6 DEF Retry, Lands, Dies, Send
<1>7. ASSUME NEW o \in Ops, Drop(o) PROVE PendingKept'
  BY <1>7 DEF Drop, Lands, Dies
<1>8. ASSUME NEW o \in Ops, Answer(o) PROVE PendingKept'
  BY <1>8 DEF Answer, Active, Lands, Dies, Replaced, KeysWithout, OnceKept
<1>9. ASSUME NEW o \in Ops, AnswerDropped(o) PROVE PendingKept'
  BY <1>9 DEF AnswerDropped
<1>10. ASSUME NEW o \in Ops, AnswerError(o) PROVE PendingKept'
  BY <1>10 DEF AnswerError, Settled, Failure, KeysWithout, Active
<1>11. ASSUME NEW o \in Ops, AnswerUnusable(o) PROVE PendingKept'
  BY <1>11 DEF AnswerUnusable, Settled, Failure, KeysWithout, Active
<1>12. ASSUME NEW o \in Ops, AnswerUnknown(o) PROVE PendingKept'
  BY <1>12 DEF AnswerUnknown, Settled, KeysWithout, Active
<1>13. ASSUME NEW r \in wire, Accept(r) PROVE PendingKept'
  BY <1>13 DEF Accept
<1>14. ASSUME NEW r \in accepted, Incoming(r) PROVE PendingKept'
  BY <1>14 DEF Incoming, Claimed, Candidates, Correlate, Replaced, Lands, Dies, OnceKept,
     KeysWithout
<1>15. CASE Flush
  BY <1>15 DEF Flush
<1>16. CASE Kill
  BY <1>16 DEF Kill, Dies
<1>17. CASE Boot
  BY <1>17 DEF Boot, Crashed, Failure, TempRow, Dies
<1> QED BY <1>1, <1>2, <1>3, <1>4, <1>5, <1>6, <1>7, <1>8, <1>9, <1>10, <1>11, <1>12, <1>13,
           <1>14, <1>15, <1>16, <1>17 DEF Next, Call, Settle

\* A second call under a key finds the first, pending or successful.
LEMMA OneStep ==
    ASSUME OnceTracked, TypeOK, OnceInv, [Next]_vars
    PROVE  OneAtMost'
<1> USE CallAssumption, BoundAssumption DEF Ops, Keys, Kinds, HasRow, Request, Open, Statuses,
        vars, storage, process, server, Temp, TypeOK, OnceTracked, OnceKeyed, OnceInv,
        SuccessKept, PendingKept, OneAtMost, Deduped
<1>1. CASE UNCHANGED vars
  BY <1>1
<1>2. ASSUME NEW o \in Ops, Run(o) PROVE OneAtMost'
  BY <1>2 DEF Run, Callable, Lands, Dies, Send, TempRow
<1>3. ASSUME NEW o \in Ops, RunDeduped(o) PROVE OneAtMost'
  BY <1>3 DEF RunDeduped, Callable
<1>4. ASSUME NEW o \in Ops, Start(o) PROVE OneAtMost'
  BY <1>4 DEF Start, Callable, Lands, Dies
<1>5. ASSUME NEW o \in Ops, Execute(o) PROVE OneAtMost'
  BY <1>5 DEF Execute, Executable, Send
<1>6. ASSUME NEW o \in Ops, Retry(o) PROVE OneAtMost'
  BY <1>6 DEF Retry, Lands, Dies, Send
<1>7. ASSUME NEW o \in Ops, Drop(o) PROVE OneAtMost'
  BY <1>7 DEF Drop, Lands, Dies
<1>8. ASSUME NEW o \in Ops, Answer(o) PROVE OneAtMost'
  BY <1>8 DEF Answer, Active, Lands, Dies, Replaced, KeysWithout, OnceKept
<1>9. ASSUME NEW o \in Ops, AnswerDropped(o) PROVE OneAtMost'
  BY <1>9 DEF AnswerDropped
<1>10. ASSUME NEW o \in Ops, AnswerError(o) PROVE OneAtMost'
  BY <1>10 DEF AnswerError, Settled, Failure, KeysWithout, Active
<1>11. ASSUME NEW o \in Ops, AnswerUnusable(o) PROVE OneAtMost'
  BY <1>11 DEF AnswerUnusable, Settled, Failure, KeysWithout, Active
<1>12. ASSUME NEW o \in Ops, AnswerUnknown(o) PROVE OneAtMost'
  BY <1>12 DEF AnswerUnknown, Settled, KeysWithout, Active
<1>13. ASSUME NEW r \in wire, Accept(r) PROVE OneAtMost'
  BY <1>13 DEF Accept
<1>14. ASSUME NEW r \in accepted, Incoming(r) PROVE OneAtMost'
  BY <1>14 DEF Incoming, Claimed, Candidates, Correlate, Replaced, Lands, Dies, OnceKept,
     KeysWithout
<1>15. CASE Flush
  BY <1>15 DEF Flush
<1>16. CASE Kill
  BY <1>16 DEF Kill, Dies
<1>17. CASE Boot
  BY <1>17 DEF Boot, Crashed, Failure, TempRow, Dies
<1> QED BY <1>1, <1>2, <1>3, <1>4, <1>5, <1>6, <1>7, <1>8, <1>9, <1>10, <1>11, <1>12, <1>13,
           <1>14, <1>15, <1>16, <1>17 DEF Next, Call, Settle

-----------------------------------------------------------------------------
(* The theorems.                                                           *)

\* A fresh installation.
LEMMA Initially == Init => IInv
<1> SUFFICES ASSUME Init PROVE IInv
  OBVIOUS
<1> USE CallAssumption, BoundAssumption
<1>1. ledger \in [Ops -> {"uncalled", "absent"}]
  BY DEF Init
<1>2. TypeOK
  BY <1>1 DEF Init, TypeOK, Statuses, Open
<1>3. RequestsKept
  BY DEF Init, RequestsKept
<1>4. RowInv
  BY <1>1 DEF Init, RowInv, RowsKept, DraftsAreOpen, DraftsKept
<1>5. AnswerInv
  BY <1>1 DEF Init, AnswerInv, AnswersKept, Unanswered, NoTwinEver, LandedEver
<1> QED BY <1>2, <1>3, <1>4, <1>5 DEF IInv

\* The inductive invariant holds.
LEMMA Always == Spec => []IInv
<1>1. IInv /\ [Next]_vars => IInv'
  BY RowsStep, TypeStep DEF IInv
<1> QED BY <1>1, Initially, PTL DEF Spec

(* Every component keeps its range.                                        *)
THEOREM LedgerIsTyped == Spec => []TypeOK
<1>1. IInv => TypeOK
  BY DEF IInv
<1> QED BY <1>1, Always, PTL

(* Whatever is killed and torn, in a running process a draft that can be   *)
(* sent or retried is in the store.                                        *)
THEOREM RetryableIsVisible == Spec => []DraftsAreVisible
<1>1. IInv => DraftsAreVisible
  BY DEF IInv, RowInv, DraftsKept, DraftsAreVisible
<1> QED BY <1>1, Always, PTL

(* Where no draft satisfies the correlator of another, no channel brings a *)
(* row of the server in beside the draft it is the answer to.              *)
THEOREM NoDuplicates == ASSUME ~ Alike PROVE Spec => []NoTwin
<1>1. IInv => NoTwin
  <2> SUFFICES ASSUME IInv, NEW o \in Correlated \ torn, Temp(o) \in rows, NEW n \in 1 .. MaxSends
               PROVE  <<o, n>> \notin rows
    BY DEF NoTwin
  <2>1. \A r \in rows : ~ ServerRow(o, r)
    BY DEF IInv, AnswerInv, AnswersKept, NoTwinEver
  <2>2. ServerRow(o, <<o, n>>)
    BY BoundAssumption DEF ServerRow
  <2> QED BY <2>1, <2>2
<1> QED BY <1>1, Always, PTL

(* Under the same condition a call counted as successful has the row the   *)
(* server made of it in the store.                                         *)
THEOREM NothingClosedUnanswered == ASSUME ~ Alike PROVE Spec => []CommittedIsLanded
<1>1. IInv => CommittedIsLanded
  <2> SUFFICES ASSUME IInv, NEW o \in Ops \ torn, HasRow(o), ledger[o] = "committed"
               PROVE  \E n \in 1 .. MaxSends : <<o, n>> \in rows \cap accepted
    BY DEF CommittedIsLanded
  <2>1. PICK r \in rows \cap accepted : ServerRow(o, r)
    BY DEF IInv, AnswerInv, AnswersKept, LandedEver
  <2>2. r[2] \in 1 .. MaxSends /\ r = <<r[1], r[2]>>
    BY <2>1 DEF IInv, TypeOK
  <2> QED BY <2>1, <2>2 DEF ServerRow
<1> QED BY <1>1, Always, PTL

(* Where only tracked calls are declared once, which neither a retry nor a *)
(* second execution can begin again, a key succeeds once.                  *)
THEOREM SuccessIsSingle == ASSUME OnceTracked PROVE Spec => []OnceExecutesOnce
<1>1. Init => OnceInv
  BY DEF Init, OnceInv, SuccessKept, PendingKept, OneAtMost
<1>2. TypeOK /\ OnceInv /\ [Next]_vars => OnceInv'
  BY SuccessStep, PendingStep, OneStep DEF OnceInv
<1>3. OnceInv => OnceExecutesOnce
  <2> SUFFICES ASSUME OnceInv, NEW k \in OnceKeys
               PROVE  Cardinality({o \in Ops : KeyOf[o] = k /\ ledger[o] = "committed"}) <= 1
    BY DEF OnceExecutesOnce
  <2> DEFINE S == {o \in Ops : KeyOf[o] = k /\ ledger[o] = "committed"}
  <2>1. CASE S = {}
    BY <2>1, FS_EmptySet
  <2>2. CASE S # {}
    <3>1. PICK o \in S : TRUE
      BY <2>2
    <3>2. S = {o}
      BY <3>1 DEF OnceInv, OneAtMost, OnceKeyed
    <3>3. Cardinality({o}) = 1
      BY FS_Singleton
    <3> QED BY <3>2, <3>3
  <2> QED BY <2>1, <2>2
<1> QED BY <1>1, <1>2, <1>3, LedgerIsTyped, PTL DEF Spec
=============================================================================
