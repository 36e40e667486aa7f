-------------------------- MODULE RelationEffects --------------------------
(***************************************************************************)
(* What one commit becomes before it is applied (core/apply/commitEnvelope *)
(* and core/relations): the operations of a plan are prepared one by one   *)
(* over an overlay of the rows, their effects on parents, children and     *)
(* scopes are derived, prepared in turn, and so on until there are none.   *)
(*                                                                         *)
(* Messages belong to a chat, which counts them and shows the newest, and  *)
(* to an author; a chat and an author that go take their messages along.   *)
(* A message is in one box, and the boxes are a scope `by' that field.     *)
(* Chat, author and time of a message never change; its box may.  Drafts   *)
(* are optimistic inserts that the row of an answer or of an event         *)
(* replaces.  Order keys are in ScopeIndex, causal admission and owned     *)
(* fields in RowCausality; here every row is admitted.                     *)
(***************************************************************************)
EXTENDS Integers, Sequences, FiniteSets, SequencesExt

CONSTANTS
    Chats, Authors, Servers, Drafts, Boxes,
    RowOf,        \* the row the server makes of a draft
    BoxOf,        \* the box a draft is put into
    ChatOf, AuthorOf, At,   \* of every message
    Says,         \* rows the server may send of every chat
    Absent,       \* no row
    MaxCommits

Messages == Servers \cup Drafts
Ids == Messages \cup Chats \cup Authors

ASSUME DataAssumption ==
    /\ RowOf \in [Drafts -> Servers] /\ BoxOf \in [Drafts -> Boxes]
    /\ ChatOf \in [Messages -> Chats] /\ AuthorOf \in [Messages -> Authors]
    /\ At \in [Messages -> Nat \ {0}] /\ MaxCommits \in Nat
    /\ \A c \in Chats : Says[c] \subseteq [count : Nat, last : Servers \cup {Absent}]
    /\ \A d \in Drafts : ChatOf[d] = ChatOf[RowOf[d]] /\ AuthorOf[d] = AuthorOf[RowOf[d]]

VARIABLES
    rows,         \* of a message its box, of a chat its count and its newest message
    tombstones,
    seats,        \* the members of every box
    sends,        \* of a draft: "unsent", "sent", "failed" or "settled"
    drops,        \* optimistic destroys that wait for an answer, with the row and its seats
    (* bound and history *)
    commits,
    drift,        \* by how much a chat's count differs from the messages it has, as last told
    overruled,    \* chats whose count the last plan told and left at another
    swapped,      \* drafts whose row was replaced
    unpaired,     \* drafts whose replacement is not one row for one row
    revived,      \* messages the last plan destroyed and brought again
    astray        \* messages a plan may seat wrongly, or a query left out
vars == <<rows, tombstones, seats, sends, drops, commits, drift, overruled, swapped, unpaired, revived, astray>>

(* Operations of a plan.  `base' is the draft a replacing row merges with. *)
Upsert(id, row, origin) ==
    [kind |-> "upsert", id |-> id, row |-> row, origin |-> origin, base |-> Absent]
Touch(c, last) == [kind |-> "touch", id |-> c, last |-> last]
Counter(c, delta) == [kind |-> "counter", id |-> c, delta |-> delta]
Destroy(id) == [kind |-> "destroy", id |-> id, origin |-> "ordinary", tombstone |-> TRUE]
Discarded(d) == [Destroy(d) EXCEPT !.tombstone = FALSE]
Scope(b, ids) == [kind |-> "scope", box |-> b, ids |-> ids]
ScopeDelta(b, append, detach, keyed) ==
    [kind |-> "scope-delta", box |-> b, append |-> append, detach |-> detach, keyed |-> keyed]

OfKind(ops, kinds) == SelectSeq(ops, LAMBDA op : op.kind \in kinds)

(***************************************************************************)
(* Preparation.  `p' is the overlay so far and what of the operations has  *)
(* been accepted, destroyed and is left for the scopes.                    *)
(***************************************************************************)
Accepted(p, id, row, before, origin) ==
    IF p.rows[id] = row THEN p
    ELSE [p EXCEPT !.rows[id] = row,
                   !.tombstones = @ \ {id},
                   !.accepted = Append(@, [id |-> id, before |-> before, after |-> row,
                                           origin |-> origin])]

PrepareUpsert(p, op) ==
    IF op.origin = "snapshot" /\ op.id \in tombstones THEN p
    ELSE LET before == IF op.origin = "replace" THEN op.base ELSE p.rows[op.id]
         IN  Accepted(p, op.id, op.row, before, op.origin)

PreparePatch(p, op) ==
    LET row == p.rows[op.id]
    IN  CASE row = Absent        -> p
          [] op.kind = "touch"   -> Accepted(p, op.id, [row EXCEPT !.last = op.last], row, "patch")
          [] op.kind = "counter" -> Accepted(p, op.id, [row EXCEPT !.count = @ + op.delta], row, "patch")

PrepareDestroy(p, op) ==
    IF p.rows[op.id] = Absent THEN p
    ELSE [p EXCEPT !.rows[op.id] = Absent,
                   !.tombstones = IF op.tombstone THEN @ \cup {op.id} ELSE @,
                   !.destroyed = Append(@, [id |-> op.id, origin |-> op.origin])]

(* An entry whose row belongs elsewhere by now is left out. *)
Belonging(p, b, ids) == {m \in ids : p.rows[m] \in {Absent, b}}

PrepareScope(p, op) ==
    [p EXCEPT !.scopes = Append(@,
        IF op.kind = "scope" THEN [op EXCEPT !.ids = Belonging(p, op.box, @)]
                             ELSE [op EXCEPT !.append = Belonging(p, op.box, @)])]

Prepare(p, op) ==
    CASE op.kind = "upsert"               -> PrepareUpsert(p, op)
      [] op.kind \in {"touch", "counter"} -> PreparePatch(p, op)
      [] op.kind = "destroy"              -> PrepareDestroy(p, op)
      [] OTHER                            -> PrepareScope(p, op)

Phase(p, ops) == FoldLeft(Prepare, [p EXCEPT !.accepted = <<>>, !.destroyed = <<>>], ops)

(***************************************************************************)
(* Effects of a phase.                                                     *)
(***************************************************************************)
(* Mutated: replaced drafts are not named to the gate. *)
MutReplaced(p) == {}
(* Mutated: a replaced draft counts as gone. *)
MutDied(p) == {d.id : d \in ToSet(p.destroyed)}

Brought(p) == {a.id : a \in {x \in ToSet(p.accepted) : x.origin \in {"event", "replace"}}}
Replaced(p) == {d.id : d \in {x \in ToSet(p.destroyed) : x.origin = "replace"}}
Died(p) == {d.id : d \in {x \in ToSet(p.destroyed) : x.origin = "ordinary"}}
Arrived(p) == {a.id : a \in {x \in ToSet(p.accepted) : x.origin = "event" /\ x.before = Absent}}

(* A message counts once when it arrives and once when it goes, whatever   *)
(* a plan does with it in between; the ones of a phase are added up.       *)
Count(p, c) ==
    LET of(ids) == Cardinality({m \in ids \cap Messages : ChatOf[m] = c})
    IN  of(Arrived(p)) - of(Died(p))
(* Mutated: a parent that came is counted on. *)
MutCounters(p) == SetToSeq({Counter(c, Count(p, c)) : c \in {x \in Chats : Count(p, x) # 0}})
Counters(p) == SetToSeq({Counter(c, Count(p, c)) : c \in {x \in Chats \ Brought(p) : Count(p, x) # 0}})

(* Messages accepted by events and answers, in order, may become the one   *)
(* their chat shows.  The application's gate (external): the newer one, or *)
(* the one that comes when the one shown was replaced.                     *)
Since(last) == IF last = Absent THEN 0 ELSE At[last]
Gate(m, last, replaced) == At[m] > Since(last) \/ last \in replaced
Shown(p, c) ==
    FoldLeft(LAMBDA last, a : IF Gate(a.id, last, Replaced(p)) THEN a.id ELSE last,
             p.rows[c].last,
             SelectSeq(p.accepted, LAMBDA a : /\ a.id \in Messages /\ ChatOf[a.id] = c
                                              /\ a.origin \in {"event", "replace"}))
Touches(p) ==
    SetToSeq({Touch(c, Shown(p, c)) :
                 c \in {x \in Chats \ Brought(p) : p.rows[x] # Absent /\ Shown(p, x) # p.rows[x].last}})

(* What goes takes along the messages the overlay has under it, but those  *)
(* this phase has destroyed before it, also when they have come again.     *)
(* Mutated: the children are looked up in the committed rows. *)
MutChildren(p, id) == {m \in Messages : rows[m] # Absent /\ id \in {ChatOf[m], AuthorOf[m]}}
Children(p, id) == {m \in Messages : p.rows[m] # Absent /\ id \in {ChatOf[m], AuthorOf[m]}}
Cascade(p, i) ==
    IF p.destroyed[i].origin = "replace" \/ p.destroyed[i].id \in Messages THEN {}
    ELSE Children(p, p.destroyed[i].id)
         \ {p.destroyed[j].id : j \in {x \in 1 .. i - 1 : p.destroyed[x].origin = "ordinary"}}
Cascades(p) == SetToSeq({Destroy(m) : m \in UNION {Cascade(p, i) : i \in DOMAIN p.destroyed}})

(* Who joins and who leaves which box: the last word of the phase counts.  *)
(* Whether a message is a member is read from the committed scopes.        *)
NoMoves == [b \in Boxes |-> [append |-> {}, detach |-> {}]]
Joins(w, b, m) == [w EXCEPT ![b].append = @ \cup {m}, ![b].detach = @ \ {m}]
Leaves(w, b, m) == [w EXCEPT ![b].append = @ \ {m}, ![b].detach = @ \cup {m}]
(* Mutated: a message that moves stays in the box it leaves. *)
MutMembershipForUpsert(w, a) == IF a.id \in seats[a.after] THEN w ELSE Joins(w, a.after, a.id)
MembershipForUpsert(w, a) ==
    LET moved == a.before \notin {Absent, a.after} /\ a.id \in seats[a.before]
        left  == IF moved THEN Leaves(w, a.before, a.id) ELSE w
    IN  IF a.id \in seats[a.after] THEN left ELSE Joins(left, a.after, a.id)
DetachForDestroy(w, m) ==
    [b \in Boxes |-> IF m \in seats[b] \cup w[b].append THEN Leaves(w, b, m)[b] ELSE w[b]]
Moves(p, source) ==
    LET messages(s) == SelectSeq(s, LAMBDA x : x.id \in Messages)
        joined == IF OfKind(source, {"scope"}) # <<>> THEN NoMoves
                  ELSE FoldLeft(MembershipForUpsert, NoMoves, messages(p.accepted))
    IN  FoldLeft(LAMBDA w, d : DetachForDestroy(w, d.id), joined, messages(p.destroyed))

Placed(source, b) ==
    UNION {op.append : op \in {x \in ToSet(OfKind(source, {"scope-delta"})) : x.keyed /\ x.box = b}}
Memberships(p, source) ==
    LET w == Moves(p, source)
        delta(b) == ScopeDelta(b, w[b].append \ Placed(source, b), w[b].detach, FALSE)
    IN  SetToSeq({d \in {delta(b) : b \in Boxes} : d.append \cup d.detach # {}})

DeriveEffects(p, source) == Counters(p) \o Cascades(p) \o Touches(p) \o Memberships(p, source)

RECURSIVE Compile(_, _, _)
Compile(p, ops, source) ==
    LET phase   == Phase(p, ops)
        effects == DeriveEffects(phase, source)
    IN  IF effects = <<>> THEN phase ELSE Compile(phase, effects, source \o effects)

Compiled(ops) ==
    Compile([rows |-> rows, tombstones |-> tombstones, accepted |-> <<>>, destroyed |-> <<>>,
             scopes |-> <<>>], ops, ops)

(* Scope operations are applied after the rows, in the order of the plan.  *)
Seated(s, op) ==
    [s EXCEPT ![op.box] = IF op.kind = "scope" THEN op.ids ELSE (@ \ op.detach) \cup op.append]

(***************************************************************************)
(* Plans.                                                                  *)
(***************************************************************************)
(* The row `m' takes the place of draft `d': unless it was deleted before  *)
(* it came, and at the places the draft had.                               *)
Swapped(d) == [Destroy(d) EXCEPT !.origin = "replace"]
Replace(d, m, b) ==
    IF m \in tombstones THEN <<Swapped(d)>>
    ELSE <<[Upsert(m, b, "replace") EXCEPT !.base = rows[d]], Swapped(d)>>
         \o SetToSeq({ScopeDelta(x, {m}, {d}, TRUE) : x \in {y \in Boxes : d \in seats[y]}})

(* Drafts an incoming row may be: whether they match is the application's  *)
(* correlator (external).                                                  *)
Open == {d \in Drafts : sends[d] \in {"sent", "failed"}}
Correlated(m) == {d \in Open : RowOf[d] = m /\ rows[d] # Absent /\ rows[m] = Absent}
PlanRow(m, b, origin, matched) ==
    IF matched /\ Correlated(m) # {} THEN Replace(CHOOSE d \in Correlated(m) : TRUE, m, b)
                                     ELSE <<Upsert(m, b, origin)>>

PlanRestore(m, held) ==
    <<Upsert(m, held.row, "event")>> \o SetToSeq({ScopeDelta(b, {m}, {}, TRUE) : b \in held.seats})

Known(m) == \A d \in Drafts : RowOf[d] = m => sends[d] # "unsent"

MessageFacts(matched) == {PlanRow(m, b, "event", matched) : m \in {x \in Servers : Known(x)}, b \in Boxes}
ChatFacts == UNION {{<<Upsert(c, row, "event")>> : row \in Says[c]} : c \in Chats}
Losses(ids) == {<<Destroy(id)>> : id \in ids}
FactsOf(m, matched) ==
    {<<Destroy(m)>>} \cup {PlanRow(m, b, "event", matched) : b \in {x \in Boxes : Known(m)}}
Facts(matched) == MessageFacts(matched) \cup ChatFacts \cup Losses(Servers \cup Chats \cup Authors)

(* What the write plan of an answer or a query says beside its root. *)
Sides == {<<>>} \cup UNION {{<<Upsert(c, row, "snapshot")>> : row \in Says[c]} : c \in Chats}

(***************************************************************************)
(* A commit, and what it says and does that the properties speak of.       *)
(***************************************************************************)
Of(r, c) == {m \in Messages : r[m] # Absent /\ ChatOf[m] = c}
Excess(r, c) == IF r[c] = Absent THEN 0 ELSE r[c].count - Cardinality(Of(r, c))

UpsertsOf(ops, id) == SelectSeq(ops, LAMBDA op : op.kind = "upsert" /\ op.id = id)
Mentions(ops, m) == Len(SelectSeq(ops, LAMBDA op : op.kind \in {"upsert", "destroy"} /\ op.id = m))
(* A plan that brings the chat tells its count anew; messages of a         *)
(* snapshot are not counted.  Where a plan speaks of one message three     *)
(* times, the effects, which count an arrival and a loss of it once each,  *)
(* are taken at their word.                                                *)
Drifted(ops, r, c) ==
    IF \/ Absent \in {rows[c], r[c]} \/ UpsertsOf(ops, c) # <<>>
       \/ \E m \in Messages : ChatOf[m] = c /\ Mentions(ops, m) > 2
    THEN Excess(r, c)
    ELSE drift[c] - Cardinality({m \in Of(r, c) \ Of(rows, c) :
                                    \E op \in ToSet(UpsertsOf(ops, m)) : op.origin = "snapshot"})

ParentLost(ops) == \E op \in ToSet(OfKind(ops, {"destroy"})) : op.id \notin Messages
(* The plan brings a chat, changed, with an event, cascades left aside.    *)
Tells(ops, c) ==
    ~ParentLost(ops) /\ \E op \in ToSet(UpsertsOf(ops, c)) : op.origin = "event" /\ op.row # rows[c]
Overruled(ops, r) ==
    {c \in Chats : /\ Tells(ops, c) /\ r[c] # Absent
                   /\ r[c].count # Last(UpsertsOf(ops, c)).row.count}

Leaving(ops) == {op.id : op \in {x \in ToSet(OfKind(ops, {"destroy"})) : x.origin = "replace"}}
(* Drafts that stand beside their row, that a cascade had taken when it    *)
(* came, or that go because it was deleted before it came.                 *)
Unpaired(ops, r) ==
    {d \in Drafts : \/ Absent \notin {r[d], r[RowOf[d]]}
                    \/ d \in Leaving(ops) /\ (rows[d] = Absent \/ RowOf[d] \in tombstones)}

Revived(ops) ==
    {m \in Messages : \E j \in DOMAIN ops : /\ ops[j].kind = "upsert" /\ ops[j].id = m
                                           /\ Destroy(m) \in {ops[i] : i \in 1 .. j - 1}}

(* Messages a plan speaks of twice, or of beside a cascade; that move, or  *)
(* that it leaves out, while it lands a whole box; or whose draft is       *)
(* unpaired.                                                               *)
Misplaced(ops, r) ==
    {m \in Messages : \/ Mentions(ops, m) > 1
                      \/ Mentions(ops, m) > 0 /\ ParentLost(ops)
                      \/ \E op \in ToSet(OfKind(ops, {"scope"})) :
                            \/ rows[m] \notin {Absent, r[m]}
                            \/ r[m] = op.box /\ m \notin op.ids
                      \/ \E d \in unpaired' : RowOf[d] = m}
Unseated(r, s) == {m \in Messages : r[m] = Absent /\ \A b \in Boxes : m \notin s[b]}

Apply(ops, c) ==
    LET s == FoldLeft(Seated, seats, c.scopes)
    IN  /\ rows' = c.rows /\ tombstones' = c.tombstones /\ seats' = s
        /\ drift' = [x \in Chats |-> Drifted(ops, c.rows, x)]
        /\ overruled' = Overruled(ops, c.rows)
        /\ swapped' = swapped \cup {d \in Leaving(ops) : rows[d] # Absent}
        /\ unpaired' = unpaired \cup Unpaired(ops, c.rows)
        /\ revived' = Revived(ops)
        /\ astray' = (astray \cup Misplaced(ops, c.rows)) \ Unseated(c.rows, s)

Commit(ops) ==
    /\ commits < MaxCommits
    /\ commits' = commits + 1
    /\ \E c \in {Compiled(ops)} : Apply(ops, c)

Settle(ds) == sends' = [d \in Drafts |-> IF d \in ds THEN "settled" ELSE sends[d]]

(***************************************************************************)
(* The callers of `commit'.                                                *)
(***************************************************************************)
(* An event, or a direct write of the application. *)
Deliver(ops) == Commit(ops) /\ Settle(Leaving(ops)) /\ UNCHANGED drops

(* A query of one box with all its members, and what its plan adds. *)
Land(b, ids, matched, side) ==
    LET live     == ids \ tombstones
        plans    == {PlanRow(m, b, "snapshot", matched) : m \in live}
        rowOps   == FlattenSeq(SetToSeq({x \in plans : Len(x) = 1 /\ x[1].kind = "upsert"}))
                    \o FlattenSeq(SetToSeq({x \in plans : ~(Len(x) = 1 /\ x[1].kind = "upsert")}))
        held     == (seats[b] \cap Open) \ Leaving(rowOps)
        ops      == rowOps \o <<Scope(b, live \cup held)>> \o side
    IN  Commit(ops) /\ Settle(Leaving(ops)) /\ UNCHANGED drops

(* A call without an optimistic part: its root, and its write plan, which  *)
(* speaks of other models only.                                            *)
Respond(root, side) == Commit(root \o side) /\ Settle(Leaving(root)) /\ UNCHANGED drops

(* A call or its retry puts the draft in before the request goes out.      *)
Begin(d) ==
    /\ sends[d] \in {"unsent", "failed"}
    /\ Commit(<<Upsert(d, BoxOf[d], "event")>>)
    /\ sends' = [sends EXCEPT ![d] = "sent"]
    /\ UNCHANGED drops

(* The row of the answer replaces the draft, under its box or another.     *)
Answer(d, b, side) ==
    /\ sends[d] = "sent"
    /\ Commit(Replace(d, RowOf[d], b) \o side)
    /\ Settle({d})
    /\ UNCHANGED drops

Fail(d) ==
    /\ sends[d] = "sent"
    /\ sends' = [sends EXCEPT ![d] = "failed"]
    /\ UNCHANGED <<rows, tombstones, seats, drops, commits, drift, overruled, swapped, unpaired, revived, astray>>

Discard(d) ==
    /\ sends[d] = "failed"
    /\ Commit(<<Discarded(d)>>)
    /\ Settle({d})
    /\ UNCHANGED drops

(* An optimistic destroy keeps the row and its places for its rollback.    *)
BeginDestroy(m) ==
    /\ rows[m] # Absent /\ drops[m] = Absent
    /\ Commit(<<Destroy(m)>>)
    /\ drops' = [drops EXCEPT ![m] = [row |-> rows[m], seats |-> {b \in Boxes : m \in seats[b]}]]
    /\ UNCHANGED sends

DestroyAnswered(m, side) ==
    /\ drops[m] # Absent
    /\ Commit(<<Destroy(m)>> \o side)
    /\ drops' = [drops EXCEPT ![m] = Absent]
    /\ UNCHANGED sends

DestroyFails(m) ==
    /\ drops[m] # Absent
    /\ Commit(PlanRestore(m, drops[m]))
    /\ drops' = [drops EXCEPT ![m] = Absent]
    /\ UNCHANGED sends

Init ==
    /\ rows = [id \in Ids |-> IF id \in Chats THEN [count |-> 0, last |-> Absent]
                             ELSE IF id \in Authors THEN "author" ELSE Absent]
    /\ tombstones = {}
    /\ seats = [b \in Boxes |-> {}]
    /\ sends = [d \in Drafts |-> "unsent"] /\ drops = [m \in Servers |-> Absent]
    /\ commits = 0
    /\ drift = [c \in Chats |-> 0] /\ overruled = {}
    /\ swapped = {} /\ unpaired = {} /\ revived = {} /\ astray = {}

(* Whether the correlator matches matters only where it is asked. *)
Matching == {FALSE} \cup {TRUE : m \in {x \in Servers : Correlated(x) # {}}}

Plan(matched) ==
    \/ \E f \in Facts(matched), g \in Facts(matched) \cup {<<>>} : Deliver(f \o g)
    \/ \E m \in Servers : \E f, g \in FactsOf(m, matched), h \in Facts(matched) : Deliver(f \o g \o h)
    \/ \E b \in Boxes, ids \in SUBSET {m \in Servers : Known(m)}, side \in Sides :
          Land(b, ids, matched, side)
    \/ \E root \in MessageFacts(matched) \cup Losses(Servers \cup Authors), side \in Sides \ {<<>>} :
          Respond(root, side)

Next ==
    \/ commits < MaxCommits /\ \E matched \in Matching : Plan(matched)
    \/ \E d \in Drafts : Begin(d) \/ Fail(d) \/ Discard(d)
    \/ \E d \in Drafts, b \in Boxes, side \in Sides : Answer(d, b, side)
    \/ \E m \in Servers : BeginDestroy(m) \/ DestroyFails(m)
    \/ \E m \in Servers, side \in Sides : DestroyAnswered(m, side)

Spec == Init /\ [][Next]_vars
=============================================================================
