----------------------- MODULE QueryFreshnessProofs -----------------------
(***************************************************************************)
(* Proofs about QueryFreshness: what a bucket shows, and what a restart    *)
(* would show, is as fresh as its flags say, for any number of pages and   *)
(* any bounds on requests, invalidations, failures, kills and losses.      *)
(*                                                                         *)
(* The argument: a request carries the sequence number it was asked under, *)
(* and an invalidation moves on from it, so a request of the present       *)
(* sequence was asked for after the last invalidation.  The fetch in the   *)
(* air was started by the first call that waits for it.  An answer that    *)
(* lands either has that sequence, and the chain it makes is fresh, or the *)
(* first call finds itself outrun and restores the flag.  A call stores    *)
(* the chain only when nothing has outrun it.  One lemma per action shows  *)
(* that the step keeps IInv; those about the operators of the model come   *)
(* before.                                                                 *)
(***************************************************************************)
EXTENDS QueryFreshnessProps, FiniteSetTheorems, SequenceTheorems, WellFoundedInduction, TLAPS

(* The values each component ranges over.  A chain of no pages is NoChain; *)
(* an observer asks for first pages only.                                  *)
Chains == {c \in [ids : SUBSET (1 .. Pages), pages : 0 .. Pages, first : Nat, last : Nat] :
               c.pages = 0 => c = NoChain}
Requests ==
    {f \in [by : {"run", "observer"}, page : 0 .. Pages - 1, issued : Nat, seq : Nat, revision : Nat,
            asked : Nat, ids : SUBSET (1 .. Pages), got : Chains, before : BOOLEAN] :
       f.by = "observer" => f.page = 0}
Calls == [seq : Nat, revision : Nat]
Records == [chain : Chains, invalidated : BOOLEAN, revision : Nat]
Memories ==
    [registered : BOOLEAN, mounted : BOOLEAN, seq : Nat, issued : Nat, applied : Nat,
     revisionAt : Nat \cup {-1}, chain : Chains, invalidated : BOOLEAN, failed : BOOLEAN,
     flight : Requests \cup {NoFlight}, waiting : Seq(Calls), dirty : BOOLEAN,
     unjudged : SUBSET (1 .. Pages), told : Nat]
Disks == [record : Records, mark : Nat, revision : Nat,
          landed : SUBSET (1 .. Pages), gone : SUBSET (1 .. Pages)]

(* No mark and no record is of a revision to come. *)
Dated(d) == d.mark <= d.revision /\ d.record.revision <= d.revision /\ d.gone \subseteq d.landed

(* A request was issued, and read a revision, in the past. *)
InAir(f, m, d) == f.issued <= m.issued /\ f.revision <= d.revision

(* The fetch in the air.  A next page follows the chain there is; a        *)
(* request of the present sequence was asked for after the last            *)
(* invalidation; the first call that waits has started the fetch.          *)
Flying(m, d) ==
    /\ InAir(m.flight, m, d)
    /\ m.flight.page > 0 => m.chain.pages = m.flight.page
    /\ m.flight.seq <= m.seq
    /\ m.flight.seq = m.seq => m.flight.asked = m.told
    /\ m.flight.by = "run" => m.waiting # <<>> /\ m.waiting[1].seq = m.flight.seq

(* Nothing of the memory is of the future; a bucket not yet used is empty; *)
(* calls and losses wait only for a fetch.                                 *)
Kept(m, d) ==
    /\ m.applied <= m.issued /\ m.revisionAt <= d.revision
    /\ \A i \in DOMAIN m.waiting : m.waiting[i].revision <= d.revision
    /\ ~m.registered => m.chain = NoChain /\ m.flight = NoFlight /\ ~m.mounted /\ ~m.dirty
    /\ IF m.flight = NoFlight THEN m.waiting = <<>> /\ m.unjudged = {} ELSE Flying(m, d)

Struct(m, d) == m \in Memories /\ d \in Disks /\ Dated(d) /\ Kept(m, d)

(* When a lapse excuses a chain: a flag undone by a cancelled fetch stays  *)
(* an excuse while a call will store the chain of the fetch that is in the *)
(* air.                                                                    *)
Excuse(m, l) ==
    \/ "overtaken" \in l
    \/ "reverted" \in l /\ (m.flight.by = "run" => Served(m.waiting, m) # {})

(* The freshness of the memory, whatever is in the air, and of the record. *)
FreshIn(m, l) ==
    (m.chain # NoChain \/ m.dirty) /\ ~m.invalidated => m.chain.last = m.told \/ Excuse(m, l)
FreshOn(m, d, l) ==
    d.record # NoRecord /\ ~d.record.invalidated /\ d.mark <= d.record.revision
    => d.record.chain.last = m.told \/ Excuse(m, l)

(* The rows a bucket lists or is about to list; those that are gone wait   *)
(* to be judged, or were dropped by a fetch that succeeded.                *)
Listed(m) == m.chain.ids \cup IF m.flight = NoFlight THEN {} ELSE m.flight.ids \cup m.flight.got.ids
Noticed(m, d, lt) == Listed(m) \cap d.gone \subseteq lt \cup m.unjudged

Core ==
    /\ Struct(memory, disk)
    /\ FreshIn(memory, lapses) /\ FreshOn(memory, disk, lapses)
    /\ reconciling => Noticed(memory, disk, late)

(* The inductive invariant. *)
IInv == Core /\ strays \in SUBSET Requests /\ \A f \in strays : InAir(f, memory, disk)

-----------------------------------------------------------------------------
(* No request is the absence of one. *)
LEMMA Absent ==
  ASSUME NEW x \in Requests \cup {NoFlight}
  PROVE  /\ x = NoFlight <=> x.by = "nobody"
         /\ x # NoFlight => x \in Requests
         /\ x \in Requests <=> x.by \in {"run", "observer"}
  BY DEF Requests, NoFlight

(* What the types say of the memory. *)
LEMMA Fields ==
  ASSUME NEW m \in Memories
  PROVE  /\ m.registered \in BOOLEAN /\ m.mounted \in BOOLEAN /\ m.seq \in Nat /\ m.issued \in Nat
         /\ m.applied \in Nat /\ m.revisionAt \in Nat \cup {-1} /\ m.chain \in Chains
         /\ m.invalidated \in BOOLEAN /\ m.failed \in BOOLEAN /\ m.flight \in Requests \cup {NoFlight}
         /\ m.waiting \in Seq(Calls) /\ m.dirty \in BOOLEAN /\ m.unjudged \in SUBSET (1 .. Pages)
         /\ m.told \in Nat
  BY DEF Memories

(* A call is one of the type. *)
LEMMA CallTyped ==
  ASSUME NEW m \in Memories, NEW d \in Disks
  PROVE  /\ Call(m, d) \in Calls
         /\ Call(m, d).seq = m.seq /\ Call(m, d).revision = d.mark
  BY DEF Memories, Disks, Calls, Call

(* A request is one of the type. *)
LEMMA RequestTyped ==
  ASSUME NEW by \in {"run", "observer"}, NEW page \in 0 .. Pages - 1, NEW issued \in Nat,
         NEW m \in Memories, NEW d \in Disks, NEW got \in Chains, NEW before \in BOOLEAN,
         by = "observer" => page = 0
  PROVE  LET f == Request(by, page, issued, m, d, got, before) IN
         /\ f \in Requests
         /\ f.by = by /\ f.page = page /\ f.issued = issued /\ f.seq = m.seq /\ f.revision = d.mark
         /\ f.asked = m.told /\ f.ids = {page + 1} \ d.gone /\ f.got = got /\ f.before = before
  <1>1. Pages \in Nat /\ page + 1 \in 1 .. Pages
    BY PagesAssumption
  <1> QED BY <1>1 DEF Memories, Disks, Requests, Request

(* The chain of no pages. *)
LEMMA NoChainTyped == NoChain \in Chains
  BY PagesAssumption DEF Chains, NoChain

(* What starting a fetch changes. *)
LEMMA StartFields ==
  ASSUME NEW m \in Memories, NEW d \in Disks, NEW page \in 0 .. Pages - 1
  PROVE  LET s == Start(m, d, page) IN
         /\ s \in Memories
         /\ s.issued \in {m.issued, m.issued + 1}
         /\ s.flight = Request("run", page, s.issued, m, d, NoChain, m.invalidated)
         /\ s.flight \in Requests
         /\ s.waiting = <<Call(m, d)>>
         /\ s.registered = m.registered /\ s.mounted = m.mounted /\ s.seq = m.seq /\ s.applied = m.applied
         /\ s.revisionAt = m.revisionAt /\ s.chain = m.chain /\ s.invalidated = m.invalidated
         /\ s.failed = m.failed /\ s.dirty = m.dirty /\ s.unjudged = m.unjudged /\ s.told = m.told
  <1> DEFINE issued == IF page = 0 THEN m.issued + 1 ELSE m.issued
             f == Request("run", page, issued, m, d, NoChain, m.invalidated)
             w == <<Call(m, d)>>
  <1>1. issued \in Nat /\ issued \in {m.issued, m.issued + 1} /\ m.invalidated \in BOOLEAN
    BY Fields
  <1>2. f \in Requests
    BY <1>1, RequestTyped, NoChainTyped
  <1>3. w \in Seq(Calls)
    BY CallTyped
  <1>4. Start(m, d, page) = [m EXCEPT !.issued = issued, !.flight = f, !.waiting = w]
    BY DEF Start
  <1> HIDE DEF issued, f, w
  <1>5. [m EXCEPT !.issued = issued, !.flight = f, !.waiting = w] \in Memories
    BY <1>1, <1>2, <1>3 DEF Memories
  <1>6. Start(m, d, page).issued = issued /\ Start(m, d, page).flight = f /\ Start(m, d, page).waiting = w
    BY <1>4 DEF Memories
  <1>7. LET s == Start(m, d, page) IN
         /\ s.registered = m.registered /\ s.mounted = m.mounted /\ s.seq = m.seq /\ s.applied = m.applied
         /\ s.revisionAt = m.revisionAt /\ s.chain = m.chain /\ s.invalidated = m.invalidated
         /\ s.failed = m.failed /\ s.dirty = m.dirty /\ s.unjudged = m.unjudged /\ s.told = m.told
    BY <1>4 DEF Memories
  <1> QED BY <1>1, <1>2, <1>4, <1>5, <1>6, <1>7 DEF f, w

(* What joining the fetch in the air changes: calls are appended. *)
LEMMA JoinFields ==
  ASSUME NEW m \in Memories, NEW w \in Seq(Calls)
  PROVE  LET s == [m EXCEPT !.waiting = m.waiting \o w] IN
         /\ s \in Memories
         /\ s.waiting = m.waiting \o w /\ s.issued = m.issued /\ s.flight = m.flight
         /\ s.registered = m.registered /\ s.mounted = m.mounted /\ s.seq = m.seq /\ s.applied = m.applied
         /\ s.revisionAt = m.revisionAt /\ s.chain = m.chain /\ s.invalidated = m.invalidated
         /\ s.failed = m.failed /\ s.dirty = m.dirty /\ s.unjudged = m.unjudged /\ s.told = m.told
  <1> DEFINE v == m.waiting \o w
  <1>1. v \in Seq(Calls)
    BY Fields, ConcatProperties
  <1> HIDE DEF v
  <1>2. [m EXCEPT !.waiting = v] \in Memories
    BY <1>1 DEF Memories
  <1>3. LET s == [m EXCEPT !.waiting = v] IN
         /\ s.waiting = v /\ s.issued = m.issued /\ s.flight = m.flight
         /\ s.registered = m.registered /\ s.mounted = m.mounted /\ s.seq = m.seq /\ s.applied = m.applied
         /\ s.revisionAt = m.revisionAt /\ s.chain = m.chain /\ s.invalidated = m.invalidated
         /\ s.failed = m.failed /\ s.dirty = m.dirty /\ s.unjudged = m.unjudged /\ s.told = m.told
    BY DEF Memories
  <1> QED BY <1>2, <1>3 DEF v

(* What the calls of a memory are, before and after others have joined. *)
LEMMA Joined ==
  ASSUME NEW v \in Seq(Calls), NEW w \in Seq(Calls), NEW r \in Nat,
         \A i \in DOMAIN v : v[i].revision <= r, \A i \in DOMAIN w : w[i].revision <= r
  PROVE  /\ v \o w \in Seq(Calls)
         /\ \A i \in DOMAIN (v \o w) : (v \o w)[i].revision <= r
         /\ v # <<>> => v \o w # <<>> /\ (v \o w)[1] = v[1]
         /\ \A i \in DOMAIN v : i \in DOMAIN (v \o w) /\ (v \o w)[i] = v[i]
         /\ \A i \in DOMAIN w : Len(v) + i \in DOMAIN (v \o w) /\ (v \o w)[Len(v) + i] = w[i]
  <1>1. /\ v \o w \in Seq(Calls) /\ Len(v \o w) = Len(v) + Len(w)
        /\ \A i \in 1 .. Len(v) + Len(w) : (v \o w)[i] = IF i <= Len(v) THEN v[i] ELSE w[i - Len(v)]
    BY ConcatProperties
  <1>2. /\ Len(v) \in Nat /\ DOMAIN v = 1 .. Len(v)
        /\ Len(w) \in Nat /\ DOMAIN w = 1 .. Len(w)
        /\ DOMAIN (v \o w) = 1 .. Len(v) + Len(w)
    BY <1>1, LenProperties
  <1>3. \A i \in DOMAIN (v \o w) : (v \o w)[i].revision <= r
    BY <1>1, <1>2
  <1>4. v # <<>> => Len(v) # 0
    BY EmptySeq
  <1> QED BY <1>1, <1>2, <1>3, <1>4, EmptySeq

(* A started fetch is flying as it should. *)
LEMMA StartKeeps ==
  ASSUME NEW m, NEW d, NEW page \in 0 .. Pages - 1, Struct(m, d), m.registered, m.flight = NoFlight,
         page > 0 => m.chain.pages = page
  PROVE  LET s == Start(m, d, page) IN
         /\ Struct(s, d) /\ Served(s.waiting, s) # {}
         /\ \A lt : Noticed(m, d, lt) => Noticed(s, d, lt)
  <1> DEFINE s == Start(m, d, page)
  <1>1. m \in Memories /\ d \in Disks /\ Dated(d) /\ Kept(m, d)
    BY DEF Struct
  <1>2. /\ s \in Memories
        /\ s.issued \in {m.issued, m.issued + 1}
        /\ s.flight = Request("run", page, s.issued, m, d, NoChain, m.invalidated)
        /\ s.flight \in Requests
        /\ s.waiting = <<Call(m, d)>>
        /\ s.registered = m.registered /\ s.mounted = m.mounted /\ s.seq = m.seq /\ s.applied = m.applied
        /\ s.revisionAt = m.revisionAt /\ s.chain = m.chain /\ s.invalidated = m.invalidated
        /\ s.failed = m.failed /\ s.dirty = m.dirty /\ s.unjudged = m.unjudged /\ s.told = m.told
    BY <1>1, StartFields
  <1>3. /\ m.issued \in Nat /\ m.applied \in Nat /\ m.seq \in Nat /\ m.told \in Nat
        /\ d.mark \in Nat /\ d.revision \in Nat /\ d.mark <= d.revision
        /\ s.issued \in Nat /\ s.issued >= m.issued
        /\ m.invalidated \in BOOLEAN
    BY <1>1, <1>2, Fields DEF Disks, Dated
  <1>4. /\ s.flight.by = "run" /\ s.flight.page = page /\ s.flight.issued = s.issued /\ s.flight.seq = m.seq
        /\ s.flight.revision = d.mark /\ s.flight.asked = m.told /\ s.flight.ids = {page + 1} \ d.gone
        /\ s.flight.got = NoChain
    BY <1>1, <1>2, <1>3, RequestTyped, NoChainTyped
  <1>5. /\ DOMAIN s.waiting = {1} /\ s.waiting # <<>> /\ s.waiting[1].seq = m.seq
        /\ s.waiting[1].revision = d.mark
    BY <1>1, <1>2, CallTyped
  <1>6. s.flight # NoFlight
    BY <1>4 DEF NoFlight
  <1> HIDE DEF s
  <1>7. InAir(s.flight, s, d)
    BY <1>3, <1>4 DEF InAir
  <1>8. Flying(s, d)
    BY <1>2, <1>3, <1>4, <1>5, <1>7 DEF Flying
  <1>9. s.applied <= s.issued /\ s.revisionAt <= d.revision
    BY <1>1, <1>2, <1>3 DEF Kept
  <1>10. Kept(s, d)
    BY <1>1, <1>2, <1>3, <1>5, <1>6, <1>8, <1>9 DEF Kept
  <1>11. Served(s.waiting, s) # {}
    BY <1>2, <1>5 DEF Served
  <1>12. ASSUME NEW lt, Noticed(m, d, lt) PROVE Noticed(s, d, lt)
    <2>1. Listed(s) = m.chain.ids \cup ({page + 1} \ d.gone)
      BY <1>2, <1>4, <1>6 DEF Listed, NoChain
    <2> QED BY <1>2, <1>12, <2>1 DEF Noticed, Listed
  <1> QED BY <1>1, <1>2, <1>10, <1>11, <1>12 DEF Struct, s

(* Calls that join leave the memory as it should be. *)
LEMMA JoinKeeps ==
  ASSUME NEW m, NEW d, NEW w \in Seq(Calls), Struct(m, d), m.flight # NoFlight,
         \A i \in DOMAIN w : w[i].revision <= d.revision
  PROVE  LET s == [m EXCEPT !.waiting = m.waiting \o w] IN
         /\ Struct(s, d)
         /\ Served(m.waiting, m) # {} => Served(s.waiting, s) # {}
         /\ Served(w, m) # {} => Served(s.waiting, s) # {}
         /\ \A lt : Noticed(m, d, lt) => Noticed(s, d, lt)
  <1> DEFINE s == [m EXCEPT !.waiting = m.waiting \o w]
  <1>1. m \in Memories /\ d \in Disks /\ Dated(d) /\ Kept(m, d)
    BY DEF Struct
  <1>2. /\ s \in Memories
        /\ s.waiting = m.waiting \o w /\ s.issued = m.issued /\ s.flight = m.flight
        /\ s.registered = m.registered /\ s.mounted = m.mounted /\ s.seq = m.seq /\ s.applied = m.applied
        /\ s.revisionAt = m.revisionAt /\ s.chain = m.chain /\ s.invalidated = m.invalidated
        /\ s.failed = m.failed /\ s.dirty = m.dirty /\ s.unjudged = m.unjudged /\ s.told = m.told
    BY <1>1, JoinFields
  <1> HIDE DEF s
  <1>3. /\ m.waiting \in Seq(Calls) /\ d.revision \in Nat
        /\ \A i \in DOMAIN m.waiting : m.waiting[i].revision <= d.revision
    BY <1>1, Fields DEF Disks, Kept
  <1>4. /\ s.waiting \in Seq(Calls)
        /\ \A i \in DOMAIN s.waiting : s.waiting[i].revision <= d.revision
        /\ m.waiting # <<>> => s.waiting # <<>> /\ s.waiting[1] = m.waiting[1]
        /\ \A i \in DOMAIN m.waiting : i \in DOMAIN s.waiting /\ s.waiting[i] = m.waiting[i]
        /\ \A i \in DOMAIN w : Len(m.waiting) + i \in DOMAIN s.waiting /\ s.waiting[Len(m.waiting) + i] = w[i]
    <2>1. PICK v \in Seq(Calls) : v = m.waiting
      BY <1>3
    <2>2. PICK r \in Nat : r = d.revision
      BY <1>3
    <2>3. (\A i \in DOMAIN v : v[i].revision <= r) /\ \A i \in DOMAIN w : w[i].revision <= r
      BY <1>3, <2>1, <2>2
    <2>4. /\ v \o w \in Seq(Calls)
          /\ \A i \in DOMAIN (v \o w) : (v \o w)[i].revision <= r
          /\ v # <<>> => v \o w # <<>> /\ (v \o w)[1] = v[1]
          /\ \A i \in DOMAIN v : i \in DOMAIN (v \o w) /\ (v \o w)[i] = v[i]
          /\ \A i \in DOMAIN w : Len(v) + i \in DOMAIN (v \o w) /\ (v \o w)[Len(v) + i] = w[i]
      BY <2>3, Joined
    <2>5. s.waiting = v \o w
      BY <1>2, <2>1
    <2> QED BY ONLY <2>1, <2>2, <2>4, <2>5
  <1>5. Flying(s, d)
    BY <1>1, <1>2, <1>4 DEF Kept, Flying, InAir
  <1>6. Kept(s, d)
    BY <1>1, <1>2, <1>4, <1>5 DEF Kept
  <1>7. /\ Served(m.waiting, m) # {} => Served(s.waiting, s) # {}
        /\ Served(w, m) # {} => Served(s.waiting, s) # {}
    <2>1. ASSUME NEW i \in Served(m.waiting, m) PROVE i \in Served(s.waiting, s)
      BY <1>2, <1>4 DEF Served
    <2>2. ASSUME NEW i \in Served(w, m) PROVE Len(m.waiting) + i \in Served(s.waiting, s)
      BY <1>2, <1>4 DEF Served
    <2> QED BY <2>1, <2>2
  <1>8. ASSUME NEW lt, Noticed(m, d, lt) PROVE Noticed(s, d, lt)
    BY <1>2, <1>8 DEF Noticed, Listed
  <1> QED BY <1>1, <1>2, <1>6, <1>7, <1>8 DEF Struct, s

(* What run leaves alone. *)
Same(s, m) ==
    /\ s.registered = m.registered /\ s.mounted = m.mounted /\ s.seq = m.seq /\ s.applied = m.applied
    /\ s.revisionAt = m.revisionAt /\ s.chain = m.chain /\ s.invalidated = m.invalidated
    /\ s.failed = m.failed /\ s.dirty = m.dirty /\ s.unjudged = m.unjudged /\ s.told = m.told
    /\ s.issued >= m.issued

(* run joins the fetch in the air or starts one; a call of now waits for it. *)
LEMMA RunKeeps ==
  ASSUME NEW m, NEW d, Struct(m, d), m.registered
  PROVE  LET s == Run(m, d) IN
         /\ Struct(s, d) /\ Same(s, m) /\ s.flight # NoFlight /\ Served(s.waiting, s) # {}
         /\ \A lt : Noticed(m, d, lt) => Noticed(s, d, lt)
  <1>1. m \in Memories /\ d \in Disks /\ m.issued \in Nat
    BY Fields DEF Struct
  <1>2. CASE m.flight = NoFlight
    <2>1. 0 \in 0 .. Pages - 1
      BY PagesAssumption
    <2>2. Run(m, d) = Start(m, d, 0)
      BY <1>2 DEF Run
    <2> DEFINE s == Start(m, d, 0)
    <2>3. /\ s.flight \in Requests /\ s.issued \in {m.issued, m.issued + 1}
          /\ s.registered = m.registered /\ s.mounted = m.mounted /\ s.seq = m.seq /\ s.applied = m.applied
          /\ s.revisionAt = m.revisionAt /\ s.chain = m.chain /\ s.invalidated = m.invalidated
          /\ s.failed = m.failed /\ s.dirty = m.dirty /\ s.unjudged = m.unjudged /\ s.told = m.told
      BY <1>1, <2>1, StartFields
    <2>4. /\ Struct(s, d) /\ Served(s.waiting, s) # {}
          /\ \A lt : Noticed(m, d, lt) => Noticed(s, d, lt)
      BY <1>2, <2>1, StartKeeps
    <2> HIDE DEF s
    <2>5. s.flight # NoFlight
      BY <2>3, Absent DEF NoFlight
    <2>6. Same(s, m)
      BY <1>1, <2>3 DEF Same
    <2> QED BY <2>2, <2>4, <2>5, <2>6 DEF s
  <1>3. CASE m.flight # NoFlight
    <2> DEFINE w == <<Call(m, d)>>
    <2>1. /\ w \in Seq(Calls) /\ DOMAIN w = {1} /\ w[1].seq = m.seq /\ w[1].revision = d.mark
      BY <1>1, CallTyped
    <2>2. d.mark <= d.revision
      BY DEF Struct, Dated
    <2>3. m.waiting \in Seq(Calls)
      BY <1>1, Fields
    <2>4. Append(m.waiting, Call(m, d)) = m.waiting \o w
      BY <1>1, <2>3, CallTyped, AppendIsConcat
    <2>5. Run(m, d) = [m EXCEPT !.waiting = m.waiting \o w]
      BY <1>3, <2>4 DEF Run
    <2>6. Served(w, m) # {}
      BY <2>1 DEF Served
    <2> HIDE DEF w
    <2>7. \A i \in DOMAIN w : w[i].revision <= d.revision
      BY <2>1, <2>2
    <2> DEFINE s == [m EXCEPT !.waiting = m.waiting \o w]
    <2>8. /\ s.issued = m.issued /\ s.flight = m.flight
          /\ s.registered = m.registered /\ s.mounted = m.mounted /\ s.seq = m.seq /\ s.applied = m.applied
          /\ s.revisionAt = m.revisionAt /\ s.chain = m.chain /\ s.invalidated = m.invalidated
          /\ s.failed = m.failed /\ s.dirty = m.dirty /\ s.unjudged = m.unjudged /\ s.told = m.told
      BY <1>1, <2>1, JoinFields
    <2>9. /\ Struct(s, d)
          /\ Served(w, m) # {} => Served(s.waiting, s) # {}
          /\ \A lt : Noticed(m, d, lt) => Noticed(s, d, lt)
      BY <1>3, <2>1, <2>7, JoinKeeps
    <2> HIDE DEF s
    <2>10. Same(s, m) /\ s.flight # NoFlight
      BY <1>1, <1>3, <2>8 DEF Same
    <2> QED BY <2>5, <2>6, <2>9, <2>10 DEF s
  <1> QED BY <1>2, <1>3

(* A nonempty set of integers with an upper bound has a greatest element:  *)
(* the intervals from its elements up to the bound are finite sets, and    *)
(* the smallest of them under inclusion starts at the greatest element.    *)
LEMMA GreatestExists ==
  ASSUME NEW S \in SUBSET Int, S # {}, NEW hi \in Int, \A s \in S : s <= hi
  PROVE  \E s \in S : \A t \in S : t <= s
<1> DEFINE T == {s .. hi : s \in S}
<1> DEFINE R == StrictSubsetOrdering(Int)
<1>1. IsWellFoundedOn(R, FiniteSubsetsOf(Int))
  BY FS_StrictSubsetOrderingWellFounded
<1>2. T \subseteq FiniteSubsetsOf(Int)
  <2>1. \A s \in S : IsFiniteSet(s .. hi)
    BY FS_Interval
  <2> QED
    BY <2>1 DEF FiniteSubsetsOf
<1>3. T # {}
  OBVIOUS
<1>4. PICK x \in T : \A y \in T : ~ (<<y, x>> \in R)
  <2> HIDE DEF T, R
  <2> QED BY <1>1, <1>2, <1>3, WFMin
<1>5. PICK s \in S : x = s .. hi
  OBVIOUS
<1>6. ASSUME NEW t \in S, ~ (t <= s)
      PROVE  FALSE
  <2>1. t .. hi \in T
    OBVIOUS
  <2>2. t .. hi \subseteq s .. hi /\ s \in s .. hi /\ s \notin t .. hi
    BY <1>6
  <2>3. <<t .. hi, s .. hi>> \in R
    BY <2>2 DEF StrictSubsetOrdering
  <2> QED
    BY <2>1, <2>3, <1>4, <1>5
<1> QED
  BY <1>6


(* The last of the calls served is one of them. *)
LEMMA LastServed ==
  ASSUME NEW calls \in Seq(Calls), NEW m, Served(calls, m) # {}
  PROVE  Max(Served(calls, m)) \in Served(calls, m)
  <1> DEFINE S == Served(calls, m)
  <1>1. Len(calls) \in Nat /\ DOMAIN calls = 1 .. Len(calls)
    BY LenProperties
  <1>2. S \in SUBSET Int /\ S # {} /\ \A i \in S : i <= Len(calls)
    BY <1>1 DEF Served
  <1>3. Len(calls) \in Int
    BY <1>1
  <1> HIDE DEF S
  <1>4. PICK s \in S : \A t \in S : t <= s
    BY <1>2, <1>3, GreatestExists
  <1>5. \E top \in S : \A t \in S : top >= t
    BY <1>2, <1>4
  <1>6. Max(S) \in S
    BY <1>5 DEF Max
  <1> QED BY <1>6 DEF S

(* What the disk means to a memory does not depend on what it holds. *)
LEMMA DiskKeeps ==
  ASSUME NEW m, NEW d, NEW e \in Disks, Struct(m, d), Dated(e), e.revision >= d.revision
  PROVE  Struct(m, e)
  <1>1. /\ m \in Memories /\ d \in Disks /\ Kept(m, d)
        /\ d.revision \in Nat /\ e.revision \in Nat
    BY DEF Struct, Disks
  <1>2. /\ m.revisionAt \in Int /\ m.flight \in Requests \cup {NoFlight}
        /\ \A i \in DOMAIN m.waiting : m.waiting[i].revision \in Nat
    <2>1. m.waiting \in Seq(Calls)
      BY <1>1, Fields
    <2>2. \A i \in DOMAIN m.waiting : m.waiting[i] \in Calls
      BY <2>1, LenProperties, ElementOfSeq
    <2> QED BY <1>1, <2>2, Fields DEF Calls
  <1>3. m.flight # NoFlight => m.flight.revision \in Nat
    BY <1>2 DEF Requests
  <1>4. /\ m.revisionAt <= e.revision
        /\ \A i \in DOMAIN m.waiting : m.waiting[i].revision <= e.revision
    BY <1>1, <1>2 DEF Kept
  <1>5. m.flight # NoFlight => Flying(m, e)
    BY <1>1, <1>3 DEF Kept, Flying, InAir
  <1> QED BY <1>1, <1>4, <1>5 DEF Struct, Kept

(* What a write changes on disk. *)
LEMMA WrittenFields ==
  ASSUME NEW d \in Disks, Dated(d), NEW chain \in Chains, NEW invalidated \in BOOLEAN,
         NEW r \in Nat, r <= d.revision
  PROVE  LET w == Written(d, chain, invalidated, r) IN
         /\ w \in Disks /\ Dated(w)
         /\ w.record = [chain |-> chain, invalidated |-> invalidated, revision |-> r]
         /\ w.mark \in {0, d.mark} /\ w.revision = d.revision /\ w.landed = d.landed /\ w.gone = d.gone
  <1> DEFINE record == [chain |-> chain, invalidated |-> invalidated, revision |-> r]
             mark == IF d.mark <= r THEN 0 ELSE d.mark
  <1>1. record \in Records /\ record.revision = r
    BY DEF Records
  <1>2. mark \in Nat /\ mark \in {0, d.mark}
    BY DEF Disks
  <1>3. Written(d, chain, invalidated, r) = [d EXCEPT !.record = record, !.mark = mark]
    BY DEF Written, Disks
  <1> HIDE DEF record, mark
  <1>4. LET w == [d EXCEPT !.record = record, !.mark = mark] IN
        /\ w \in Disks /\ w.record = record /\ w.mark = mark
        /\ w.revision = d.revision /\ w.landed = d.landed /\ w.gone = d.gone
    BY <1>1, <1>2 DEF Disks
  <1>5. d.revision \in Nat
    BY DEF Disks
  <1>6. Dated(Written(d, chain, invalidated, r))
    BY <1>1, <1>2, <1>3, <1>4, <1>5 DEF Dated
  <1> QED BY <1>2, <1>3, <1>4, <1>6 DEF record

(* What the served calls write. *)
LEMMA PersistedByFields ==
  ASSUME NEW m \in Memories, NEW d \in Disks, Dated(d), NEW calls \in Seq(Calls),
         \A i \in DOMAIN calls : calls[i].revision <= d.revision
  PROVE  LET p == PersistedBy(calls, m, d) IN
         /\ p \in Disks /\ Dated(p)
         /\ p.revision = d.revision /\ p.landed = d.landed /\ p.gone = d.gone
         /\ Served(calls, m) = {} => p = d
         /\ Served(calls, m) # {} => p.record.chain = m.chain /\ p.record.invalidated = m.invalidated
  <1> DEFINE served == Served(calls, m)
             last == Max(served)
             w == Written(d, m.chain, m.invalidated, calls[last].revision)
             mark == IF \E i \in served : d.mark <= calls[i].revision THEN 0 ELSE d.mark
  <1>1. CASE served = {}
    BY <1>1 DEF PersistedBy
  <1>2. CASE served # {}
    <2>1. last \in DOMAIN calls
      BY <1>2, LastServed DEF Served
    <2>2. calls[last] \in Calls
      BY <2>1, LenProperties, ElementOfSeq
    <2>3. calls[last].revision \in Nat /\ calls[last].revision <= d.revision
      BY <2>1, <2>2 DEF Calls
    <2> HIDE DEF last
    <2>4. m.chain \in Chains /\ m.invalidated \in BOOLEAN
      BY Fields
    <2>5. /\ w \in Disks /\ Dated(w)
          /\ w.record = [chain |-> m.chain, invalidated |-> m.invalidated, revision |-> calls[last].revision]
          /\ w.revision = d.revision /\ w.landed = d.landed /\ w.gone = d.gone
      BY <2>3, <2>4, WrittenFields
    <2>6. mark \in {0, d.mark} /\ d.mark \in Nat /\ d.mark <= d.revision /\ d.revision \in Nat
      BY DEF Disks, Dated
    <2>7. PersistedBy(calls, m, d) = [w EXCEPT !.mark = mark]
      BY <1>2 DEF PersistedBy, last
    <2> HIDE DEF w, mark, served
    <2>8. LET p == [w EXCEPT !.mark = mark] IN
          /\ p \in Disks /\ p.mark = mark /\ p.record = w.record
          /\ p.revision = d.revision /\ p.landed = d.landed /\ p.gone = d.gone
      BY <2>5, <2>6 DEF Disks
    <2>9. Dated([w EXCEPT !.mark = mark])
      BY <2>5, <2>6, <2>8 DEF Dated
    <2> QED BY <1>2, <2>5, <2>7, <2>8, <2>9 DEF served
  <1> QED BY <1>1, <1>2

(* A memory that is flagged is as it should be, too. *)
LEMMA FlagKeeps ==
  ASSUME NEW m, NEW d, Struct(m, d), NEW b \in BOOLEAN
  PROVE  LET s == [m EXCEPT !.invalidated = b] IN
         /\ Struct(s, d) /\ s.invalidated = b
         /\ s.registered = m.registered /\ s.mounted = m.mounted /\ s.seq = m.seq /\ s.applied = m.applied
         /\ s.issued = m.issued /\ s.flight = m.flight /\ s.waiting = m.waiting
         /\ s.revisionAt = m.revisionAt /\ s.chain = m.chain
         /\ s.failed = m.failed /\ s.dirty = m.dirty /\ s.unjudged = m.unjudged /\ s.told = m.told
  <1> DEFINE s == [m EXCEPT !.invalidated = b]
  <1>1. m \in Memories
    BY DEF Struct
  <1>2. /\ s \in Memories /\ s.invalidated = b
        /\ s.registered = m.registered /\ s.mounted = m.mounted /\ s.seq = m.seq /\ s.applied = m.applied
        /\ s.issued = m.issued /\ s.flight = m.flight /\ s.waiting = m.waiting
        /\ s.revisionAt = m.revisionAt /\ s.chain = m.chain
        /\ s.failed = m.failed /\ s.dirty = m.dirty /\ s.unjudged = m.unjudged /\ s.told = m.told
    BY <1>1 DEF Memories
  <1> HIDE DEF s
  <1>3. Struct(s, d)
    BY <1>2 DEF Struct, Kept, Flying, InAir
  <1> QED BY <1>2, <1>3 DEF s

(* The calls that were outrun run again: all of them wait for a fetch.     *)
LEMMA AgainKeeps ==
  ASSUME NEW m, NEW d, Struct(m, d), m.registered, NEW calls \in Seq(Calls)
  PROVE  LET s == Again(calls, m, d) IN
         /\ Struct(s, d) /\ Same(s, m)
         /\ Outrun(calls, m) = {} => s = m
         /\ Outrun(calls, m) # {} => Served(s.waiting, s) # {}
         /\ \A lt : Noticed(m, d, lt) => Noticed(s, d, lt)
  <1>1. m \in Memories /\ d \in Disks /\ m.issued \in Nat
    BY Fields DEF Struct
  <1>2. CASE Outrun(calls, m) = {}
    <2>1. Again(calls, m, d) = m
      BY <1>2 DEF Again
    <2>2. Same(m, m)
      BY <1>1 DEF Same
    <2> QED BY <1>2, <2>1, <2>2
  <1>3. CASE Outrun(calls, m) # {}
    <2> DEFINE r == Run(m, d)
               n == Cardinality(Outrun(calls, m)) - 1
               w == [i \in 1 .. n |-> Call(m, d)]
               s == [r EXCEPT !.waiting = r.waiting \o w]
    <2>1. /\ Struct(r, d) /\ Same(r, m) /\ r.flight # NoFlight /\ Served(r.waiting, r) # {}
          /\ \A lt : Noticed(m, d, lt) => Noticed(r, d, lt)
      BY RunKeeps
    <2>2. n \in Nat
      <3>1. DOMAIN calls = 1 .. Len(calls) /\ Len(calls) \in Nat
        BY LenProperties
      <3>2. IsFiniteSet(DOMAIN calls)
        BY <3>1, FS_Interval
      <3>3. IsFiniteSet(Outrun(calls, m))
        BY <3>2, FS_Subset DEF Outrun
      <3>4. Cardinality(Outrun(calls, m)) \in Nat /\ Cardinality(Outrun(calls, m)) # 0
        BY <1>3, <3>3, FS_CardinalityType, FS_EmptySet
      <3> QED BY <3>4
    <2>3. Again(calls, m, d) = s
      BY <1>3 DEF Again
    <2> HIDE DEF n
    <2>4. /\ w \in Seq(Calls) /\ DOMAIN w = 1 .. n
          /\ \A i \in DOMAIN w : w[i].revision = d.mark
      <3>1. Call(m, d) \in Calls /\ Call(m, d).revision = d.mark
        BY <1>1, CallTyped
      <3>2. w \in [1 .. n -> Calls]
        BY <3>1
      <3>3. w \in Seq(Calls)
        BY <2>2, <3>2, SeqDef
      <3> QED BY <3>1, <3>3
    <2>5. \A i \in DOMAIN w : w[i].revision <= d.revision
      BY <2>4 DEF Struct, Dated
    <2> HIDE DEF r, w
    <2>6. /\ Struct(s, d)
          /\ Served(r.waiting, r) # {} => Served(s.waiting, s) # {}
          /\ \A lt : Noticed(r, d, lt) => Noticed(s, d, lt)
      BY <2>1, <2>4, <2>5, JoinKeeps
    <2>7. r \in Memories
      BY <2>1 DEF Struct
    <2>8. /\ s.issued = r.issued
          /\ s.registered = r.registered /\ s.mounted = r.mounted /\ s.seq = r.seq /\ s.applied = r.applied
          /\ s.revisionAt = r.revisionAt /\ s.chain = r.chain /\ s.invalidated = r.invalidated
          /\ s.failed = r.failed /\ s.dirty = r.dirty /\ s.unjudged = r.unjudged /\ s.told = r.told
      BY <2>4, <2>7, JoinFields
    <2> HIDE DEF s
    <2>9. Same(s, m)
      BY <2>1, <2>8 DEF Same
    <2> QED BY <1>3, <2>1, <2>3, <2>6, <2>9
  <1> QED BY <1>2, <1>3

(* An excuse outlives what run does, and so does freshness. *)
LEMMA FreshStays ==
  ASSUME NEW m, NEW s, NEW d, NEW l, Same(s, m), s = m \/ Served(s.waiting, s) # {}
  PROVE  /\ Excuse(m, l) => Excuse(s, l)
         /\ FreshIn(m, l) => FreshIn(s, l)
         /\ FreshOn(m, d, l) => FreshOn(s, d, l)
  <1>1. Excuse(m, l) => Excuse(s, l)
    BY DEF Excuse
  <1> QED BY <1>1 DEF FreshIn, FreshOn, Same

(* The continuations of the calls keep what holds of memory and disk: the  *)
(* chain is fresh unless one of them was outrun, and either the record was *)
(* in order before or one of them writes it.                               *)
LEMMA ContinueKeeps ==
  ASSUME NEW m, NEW d, NEW l, NEW calls \in Seq(Calls), Continue(calls, m, d),
         Struct(m, d), m.registered,
         \A i \in DOMAIN calls : calls[i].revision <= d.revision,
         Outrun(calls, m) = {} => FreshIn(m, l) /\ (~m.invalidated => m.chain.last = m.told \/ Excuse(m, l)),
         FreshOn(m, d, l) \/ Served(calls, m) # {}
  PROVE  /\ Struct(memory', disk') /\ FreshIn(memory', l) /\ FreshOn(memory', disk', l)
         /\ \A lt : Noticed(m, d, lt) => Noticed(memory', disk', lt)
         /\ memory'.issued >= m.issued /\ disk'.revision = d.revision
  <1> DEFINE flagged == Flagged(calls, m)
             stored  == PersistedBy(calls, flagged, d)
             s == Again(calls, flagged, stored)
  <1>1. memory' = s /\ disk' = stored
    BY DEF Continue
  <1>2. /\ Struct(flagged, d)
        /\ Outrun(calls, m) = {} => flagged = m
        /\ Outrun(calls, m) # {} => flagged.invalidated
        /\ flagged.registered = m.registered /\ flagged.chain = m.chain /\ flagged.dirty = m.dirty
        /\ flagged.told = m.told /\ flagged.seq = m.seq /\ flagged.flight = m.flight
        /\ flagged.waiting = m.waiting /\ flagged.unjudged = m.unjudged /\ flagged.issued = m.issued
    BY FlagKeeps DEF Flagged
  <1>3. /\ Served(calls, flagged) = Served(calls, m) /\ Outrun(calls, flagged) = Outrun(calls, m)
        /\ Excuse(m, l) = Excuse(flagged, l)
    BY <1>2 DEF Served, Outrun, Excuse
  <1> HIDE DEF flagged
  <1>4. FreshIn(flagged, l) /\ (~flagged.invalidated => m.chain.last = m.told \/ Excuse(m, l))
    BY <1>2, <1>3 DEF FreshIn
  <1>5. /\ stored \in Disks /\ Dated(stored)
        /\ stored.revision = d.revision /\ stored.gone = d.gone
        /\ Served(calls, m) = {} => stored = d
        /\ Served(calls, m) # {} =>
              stored.record.chain = m.chain /\ stored.record.invalidated = flagged.invalidated
    BY <1>2, <1>3, PersistedByFields DEF Struct
  <1> HIDE DEF stored
  <1>6. FreshOn(flagged, stored, l)
    <2>1. CASE Served(calls, m) = {}
      BY <1>2, <1>3, <1>5, <2>1 DEF FreshOn
    <2>2. CASE Served(calls, m) # {}
      BY <1>2, <1>3, <1>4, <1>5, <2>2 DEF FreshOn
    <2> QED BY <2>1, <2>2
  <1>7. Struct(flagged, stored)
    <2>1. d.revision \in Nat
      BY DEF Struct, Disks
    <2> QED BY <1>2, <1>5, <2>1, DiskKeeps
  <1>8. /\ Struct(s, stored) /\ Same(s, flagged)
        /\ Outrun(calls, flagged) = {} => s = flagged
        /\ Outrun(calls, flagged) # {} => Served(s.waiting, s) # {}
        /\ \A lt : Noticed(flagged, stored, lt) => Noticed(s, stored, lt)
    BY <1>2, <1>7, AgainKeeps
  <1> HIDE DEF s
  <1>9. FreshIn(s, l) /\ FreshOn(s, stored, l)
    BY <1>4, <1>6, <1>8, FreshStays
  <1>10. ASSUME NEW lt, Noticed(m, d, lt) PROVE Noticed(s, stored, lt)
    <2>1. Noticed(flagged, stored, lt)
      BY <1>2, <1>5, <1>10 DEF Noticed, Listed
    <2> QED BY <1>8, <2>1
  <1>11. s.issued >= m.issued
    BY <1>2, <1>8 DEF Same
  <1> QED BY <1>1, <1>5, <1>8, <1>9, <1>10, <1>11

(* What persist writes without a revision of its own. *)
LEMMA PersistedFields ==
  ASSUME NEW m, NEW d, Struct(m, d)
  PROVE  LET p == Persisted(m, d) IN
         /\ p \in Disks /\ Dated(p)
         /\ p.record.chain = m.chain /\ p.record.invalidated = m.invalidated
         /\ p.revision = d.revision /\ p.landed = d.landed /\ p.gone = d.gone
  <1> DEFINE r == IF m.revisionAt >= 0 THEN m.revisionAt ELSE d.mark
  <1>1. m \in Memories /\ d \in Disks /\ Dated(d)
    BY DEF Struct
  <1>2. r \in Nat /\ r <= d.revision
    <2>1. m.revisionAt \in Nat \cup {-1} /\ m.revisionAt <= d.revision /\ d.mark \in Nat /\ d.mark <= d.revision
      BY <1>1, Fields DEF Struct, Kept, Dated, Disks
    <2> QED BY <2>1
  <1>3. m.chain \in Chains /\ m.invalidated \in BOOLEAN
    BY <1>1, Fields
  <1>4. Persisted(m, d) = Written(d, m.chain, m.invalidated, r)
    BY DEF Persisted
  <1> HIDE DEF r
  <1>5. /\ Written(d, m.chain, m.invalidated, r) \in Disks /\ Dated(Written(d, m.chain, m.invalidated, r))
        /\ Written(d, m.chain, m.invalidated, r).record
              = [chain |-> m.chain, invalidated |-> m.invalidated, revision |-> r]
        /\ Written(d, m.chain, m.invalidated, r).revision = d.revision
        /\ Written(d, m.chain, m.invalidated, r).landed = d.landed
        /\ Written(d, m.chain, m.invalidated, r).gone = d.gone
    BY <1>1, <1>2, <1>3, WrittenFields
  <1> QED BY <1>4, <1>5

(* A chain without some of its rows. *)
LEMMA Thinned ==
  ASSUME NEW c \in Chains, NEW ids \in SUBSET c.ids
  PROVE  /\ [c EXCEPT !.ids = ids] \in Chains /\ [c EXCEPT !.ids = ids].ids = ids
         /\ [c EXCEPT !.ids = ids].pages = c.pages /\ [c EXCEPT !.ids = ids].last = c.last
         /\ [c EXCEPT !.ids = ids] = NoChain => c = NoChain \/ c.ids # {}
         /\ c = NoChain => [c EXCEPT !.ids = ids] = NoChain
  BY DEF Chains, NoChain

(* A judged chain lists nothing that is gone, and what is left of it is    *)
(* flagged in memory and on disk.                                          *)
LEMMA JudgedKeeps ==
  ASSUME NEW m, NEW d, NEW l, Struct(m, d), m.registered, m.flight = NoFlight,
         FreshIn(m, l), FreshOn(m, d, l)
  PROVE  LET j == Judged(m, d) IN
         /\ Struct(j.memory, j.disk) /\ j.memory.registered
         /\ FreshIn(j.memory, l) /\ FreshOn(j.memory, j.disk, l)
         /\ \A lt : Noticed(j.memory, j.disk, lt)
         /\ j.memory.issued >= m.issued /\ j.disk.revision = d.revision /\ j.memory.told = m.told
         /\ j.memory.invalidated \/ j.memory.chain = m.chain
  <1> DEFINE ids == m.chain.ids \ d.gone
             chain == [m.chain EXCEPT !.ids = ids]
             left == [m EXCEPT !.chain = chain, !.invalidated = TRUE, !.failed = FALSE]
             stored == Persisted(left, d)
             run == Run(left, stored)
  <1>1. /\ m \in Memories /\ d \in Disks /\ Dated(d) /\ Kept(m, d) /\ m.chain \in Chains
        /\ m.issued \in Nat /\ d.revision \in Nat
    BY Fields DEF Struct, Disks
  <1>2. CASE ids = m.chain.ids
    <2>1. Judged(m, d) = [memory |-> m, disk |-> d]
      BY <1>2 DEF Judged
    <2>2. \A lt : Noticed(m, d, lt)
      BY <1>2 DEF Noticed, Listed
    <2> QED BY <1>1, <2>1, <2>2
  <1>3. CASE ids # m.chain.ids
    <2>1. chain \in Chains /\ chain.ids = ids
      BY <1>1, Thinned
    <2>2. Judged(m, d) = [memory |-> IF ids = {} /\ m.mounted THEN run ELSE left, disk |-> stored]
      BY <1>3 DEF Judged
    <2>3. ids \cap d.gone = {}
      OBVIOUS
    <2> HIDE DEF ids, chain
    <2>4. /\ left \in Memories /\ left.invalidated = TRUE /\ left.chain = chain
          /\ left.registered = m.registered /\ left.mounted = m.mounted /\ left.seq = m.seq
          /\ left.applied = m.applied /\ left.issued = m.issued /\ left.flight = m.flight
          /\ left.waiting = m.waiting /\ left.revisionAt = m.revisionAt /\ left.dirty = m.dirty
          /\ left.unjudged = m.unjudged /\ left.told = m.told
      BY <1>1, <2>1 DEF Memories
    <2> HIDE DEF left
    <2>5. Struct(left, d)
      BY <1>1, <2>4 DEF Struct, Kept
    <2>6. /\ stored \in Disks /\ Dated(stored)
          /\ stored.record.invalidated = TRUE
          /\ stored.revision = d.revision /\ stored.gone = d.gone
      BY <2>4, <2>5, PersistedFields
    <2> HIDE DEF stored
    <2>7. Struct(left, stored)
      BY <1>1, <2>5, <2>6, DiskKeeps
    <2>8. FreshIn(left, l) /\ FreshOn(left, stored, l)
      BY <2>4, <2>6 DEF FreshIn, FreshOn
    <2>9. \A lt : Noticed(left, stored, lt)
      BY <2>1, <2>3, <2>4, <2>6 DEF Noticed, Listed
    <2>10. /\ Struct(run, stored) /\ Same(run, left) /\ Served(run.waiting, run) # {}
           /\ \A lt : Noticed(run, stored, lt)
      BY <2>4, <2>7, <2>9, RunKeeps
    <2> HIDE DEF run
    <2>11. FreshIn(run, l) /\ FreshOn(run, stored, l)
      BY <2>8, <2>10, FreshStays
    <2>12. run.registered /\ run.issued >= m.issued /\ run.told = m.told /\ run.invalidated
      BY <2>4, <2>10 DEF Same
    <2>13. CASE ids = {} /\ m.mounted
      <3>1. Judged(m, d) = [memory |-> run, disk |-> stored]
        BY <2>2, <2>13
      <3>2. Judged(m, d).memory = run /\ Judged(m, d).disk = stored
        BY <3>1
      <3> QED BY <2>6, <2>10, <2>11, <2>12, <3>2
    <2>14. CASE ~(ids = {} /\ m.mounted)
      <3>1. Judged(m, d) = [memory |-> left, disk |-> stored]
        BY <2>2, <2>14
      <3>2. Judged(m, d).memory = left /\ Judged(m, d).disk = stored
        BY <3>1
      <3>3. left.issued >= m.issued
        BY <1>1, <2>4
      <3>4. left.registered /\ left.told = m.told /\ left.invalidated
        BY <2>4
      <3> QED BY ONLY <2>6, <2>7, <2>8, <2>9, <3>2, <3>3, <3>4
    <2> QED BY ONLY <2>13, <2>14
  <1> QED BY <1>2, <1>3

(* Requests in the air stay so while the counters only grow. *)
LEMMA StraysKeep ==
  ASSUME IInv, memory' \in Memories, disk' \in Disks,
         memory'.issued >= memory.issued, disk'.revision >= disk.revision
  PROVE  \A f \in strays : InAir(f, memory', disk')
  <1>1. \A f \in strays : f.issued \in Nat /\ f.revision \in Nat
    BY DEF IInv, Requests
  <1>2. /\ memory.issued \in Nat /\ memory'.issued \in Nat
        /\ disk.revision \in Nat /\ disk'.revision \in Nat
    BY Fields DEF IInv, Core, Struct, Disks
  <1> QED BY <1>1, <1>2 DEF IInv, InAir

(* The steps that leave the history and the strays alone. *)
LEMMA PlainStep ==
  ASSUME IInv, Struct(memory', disk'), FreshIn(memory', lapses), FreshOn(memory', disk', lapses),
         reconciling => Noticed(memory', disk', late),
         memory'.issued >= memory.issued, disk'.revision >= disk.revision,
         UNCHANGED <<strays, reconciling, lapses, late>>
  PROVE  IInv'
  <1>1. \A f \in strays : InAir(f, memory', disk')
    BY StraysKeep DEF Struct
  <1> QED BY <1>1 DEF IInv, Core

(* The start of everything. *)
LEMMA InitKeeps == ASSUME Init PROVE IInv
  <1>1. NoChain \in Chains /\ NoFlight \in Requests \cup {NoFlight}
    BY NoChainTyped
  <1>2. Started \in Memories /\ <<>> \in Seq(Calls)
    BY <1>1, EmptySeq DEF Started, Memories
  <1>3. Blank \in Disks
    BY <1>1 DEF Blank, Disks, Records, NoRecord
  <1>4. Struct(Started, Blank)
    BY <1>2, <1>3 DEF Struct, Dated, Kept, Started, Blank, NoRecord
  <1>5. FreshIn(Started, {}) /\ FreshOn(Started, Blank, {}) /\ Noticed(Started, Blank, {})
    BY DEF FreshIn, FreshOn, Noticed, Listed, Started, Blank, NoRecord, NoChain
  <1> QED BY <1>4, <1>5 DEF Init, IInv, Core

(* What the invariant says of the present, in parts. *)
LEMMA Now ==
  ASSUME IInv
  PROVE  /\ memory \in Memories /\ disk \in Disks /\ Struct(memory, disk)
         /\ Dated(disk) /\ Kept(memory, disk)
         /\ memory.issued \in Nat /\ memory.seq \in Nat /\ memory.told \in Nat /\ memory.applied \in Nat
         /\ disk.revision \in Nat /\ disk.mark \in Nat
         /\ FreshIn(memory, lapses) /\ FreshOn(memory, disk, lapses)
         /\ reconciling => Noticed(memory, disk, late)
  BY Fields DEF IInv, Core, Struct, Disks

(* Restoring a record: unflagged only what is fresh and whole. *)
LEMMA ReadKeeps == ASSUME IInv, Read PROVE IInv'
  <1> DEFINE record == disk.record
             ids    == record.chain.ids \cap (disk.landed \ disk.gone)
             lost   == ids # record.chain.ids
             chain  == [record.chain EXCEPT !.ids = ids]
             marked == record.invalidated \/ disk.mark > record.revision \/ lost
  <1>1. UNCHANGED <<strays, reconciling, lapses, late>> /\ Restored
    BY DEF Read
  <1>2. CASE memory.chain # NoChain \/ record = NoRecord
    <2>1. memory' = [memory EXCEPT !.registered = TRUE] /\ disk' = disk
      BY <1>1, <1>2 DEF Restored
    <2>2. /\ memory' \in Memories /\ memory'.registered = TRUE
          /\ memory'.mounted = memory.mounted /\ memory'.seq = memory.seq /\ memory'.issued = memory.issued
          /\ memory'.applied = memory.applied /\ memory'.revisionAt = memory.revisionAt
          /\ memory'.chain = memory.chain /\ memory'.invalidated = memory.invalidated
          /\ memory'.flight = memory.flight /\ memory'.waiting = memory.waiting
          /\ memory'.dirty = memory.dirty /\ memory'.unjudged = memory.unjudged /\ memory'.told = memory.told
      BY <2>1, Now DEF Memories
    <2>3. Struct(memory', disk')
      BY <2>1, <2>2, Now DEF Struct, Kept, Flying, InAir
    <2>4. FreshIn(memory', lapses) /\ FreshOn(memory', disk', lapses)
      BY <2>1, <2>2, Now DEF FreshIn, FreshOn, Excuse, Served
    <2>5. reconciling => Noticed(memory', disk', late)
      BY <2>1, <2>2, Now DEF Noticed, Listed
    <2> QED BY <1>1, <2>1, <2>2, <2>3, <2>4, <2>5, Now, PlainStep
  <1>3. CASE ~(memory.chain # NoChain \/ record = NoRecord)
    <2>1. /\ memory' = [memory EXCEPT !.registered = TRUE, !.chain = chain, !.invalidated = marked]
          /\ disk' = IF lost THEN Written(disk, chain, marked, record.revision) ELSE disk
          /\ memory.chain = NoChain /\ record # NoRecord
      BY <1>1, <1>3 DEF Restored
    <2>2. record \in Records /\ record.chain \in Chains /\ record.revision \in Nat
          /\ record.revision <= disk.revision
      BY Now DEF Disks, Records, Dated
    <2>3. ids \in SUBSET record.chain.ids /\ marked \in BOOLEAN /\ ids \cap disk.gone = {}
      OBVIOUS
    <2>4. chain \in Chains /\ chain.ids = ids /\ chain.last = record.chain.last /\ chain.pages = record.chain.pages
      BY <2>2, <2>3, Thinned
    <2>5. ~marked => ~record.invalidated /\ disk.mark <= record.revision /\ chain = record.chain
      <3>1. ~lost => chain = record.chain
        BY <2>2 DEF Chains
      <3> QED BY <2>2, <3>1, Now
    <2>6. lost => marked
      OBVIOUS
    <2> HIDE DEF ids, chain, marked, lost
    <2>7. /\ memory' \in Memories /\ memory'.registered = TRUE
          /\ memory'.chain = chain /\ memory'.invalidated = marked
          /\ memory'.mounted = memory.mounted /\ memory'.seq = memory.seq /\ memory'.issued = memory.issued
          /\ memory'.applied = memory.applied /\ memory'.revisionAt = memory.revisionAt
          /\ memory'.flight = memory.flight /\ memory'.waiting = memory.waiting
          /\ memory'.dirty = memory.dirty /\ memory'.unjudged = memory.unjudged /\ memory'.told = memory.told
      BY <2>1, <2>3, <2>4, Now DEF Memories
    <2>8. memory.flight # NoFlight => memory.flight.page = 0
      <3>1. memory.flight # NoFlight => ~(memory.flight.page > 0)
        BY <2>1, Now, PagesAssumption DEF Kept, Flying, NoChain
      <3>2. memory.flight # NoFlight => memory.flight.page \in 0 .. Pages - 1
        BY Now, Fields DEF Requests
      <3> QED BY <3>1, <3>2, PagesAssumption
    <2>9. Struct(memory', disk)
      BY <2>7, <2>8, Now DEF Struct, Kept, Flying, InAir
    <2>10. FreshIn(memory', lapses)
      BY <2>1, <2>5, <2>7, Now DEF FreshIn, FreshOn, Excuse, Served
    <2>11. FreshOn(memory', disk, lapses)
      BY <2>7, Now DEF FreshOn, Excuse, Served
    <2>12. reconciling => Noticed(memory', disk, late)
      BY <2>3, <2>4, <2>7, Now DEF Noticed, Listed
    <2>13. /\ Struct(memory', disk') /\ FreshOn(memory', disk', lapses)
           /\ reconciling => Noticed(memory', disk', late)
           /\ disk'.revision = disk.revision
      <3>1. CASE lost
        <4>1. /\ disk' \in Disks /\ Dated(disk') /\ disk'.record.invalidated = marked
              /\ disk'.revision = disk.revision /\ disk'.gone = disk.gone
          <5>1. disk' = Written(disk, chain, marked, record.revision)
            BY <2>1, <3>1
          <5>2. LET w == Written(disk, chain, marked, record.revision) IN
                /\ w \in Disks /\ Dated(w)
                /\ w.record = [chain |-> chain, invalidated |-> marked, revision |-> record.revision]
                /\ w.revision = disk.revision /\ w.gone = disk.gone
            BY <2>2, <2>3, <2>4, Now, WrittenFields
          <5> QED BY <5>1, <5>2
        <4>2. Struct(memory', disk')
          BY <2>9, <4>1, Now, DiskKeeps
        <4> QED BY <2>6, <2>12, <3>1, <4>1, <4>2 DEF FreshOn, Noticed
      <3>2. CASE ~lost
        BY <2>1, <2>9, <2>11, <2>12, <3>2
      <3> QED BY <3>1, <3>2
    <2> QED BY <1>1, <2>7, <2>10, <2>13, Now, PlainStep
  <1> QED BY <1>2, <1>3

(* A reader comes. *)
LEMMA MountKeeps == ASSUME IInv, Mount PROVE IInv'
  <1>1. /\ memory' = [memory EXCEPT !.mounted = TRUE, !.dirty = memory.chain # NoChain]
        /\ UNCHANGED <<strays, reconciling, lapses, late>> /\ disk' = disk
        /\ memory.registered
    BY DEF Mount, Ready
  <1>2. /\ memory' \in Memories
        /\ memory'.dirty => memory.chain # NoChain
        /\ memory'.registered = memory.registered
        /\ memory'.seq = memory.seq /\ memory'.issued = memory.issued
        /\ memory'.applied = memory.applied /\ memory'.revisionAt = memory.revisionAt
        /\ memory'.chain = memory.chain /\ memory'.invalidated = memory.invalidated
        /\ memory'.flight = memory.flight /\ memory'.waiting = memory.waiting
        /\ memory'.unjudged = memory.unjudged /\ memory'.told = memory.told
    BY <1>1, Now DEF Memories
  <1>3. Struct(memory', disk')
    BY <1>1, <1>2, Now DEF Struct, Kept, Flying, InAir
  <1>4. FreshIn(memory', lapses) /\ FreshOn(memory', disk', lapses)
    BY <1>1, <1>2, Now DEF FreshIn, FreshOn, Excuse, Served
  <1>5. reconciling => Noticed(memory', disk', late)
    BY <1>1, <1>2, Now DEF Noticed, Listed
  <1> QED BY <1>1, <1>2, <1>3, <1>4, <1>5, Now, PlainStep

(* A reader goes. *)
LEMMA UnmountKeeps == ASSUME IInv, Unmount PROVE IInv'
  <1>1. /\ memory' = [memory EXCEPT !.mounted = FALSE, !.dirty = FALSE]
        /\ UNCHANGED <<strays, reconciling, lapses, late>> /\ disk' = disk
    BY DEF Unmount
  <1>2. /\ memory' \in Memories
        /\ memory'.dirty = FALSE /\ memory'.mounted = FALSE
        /\ memory'.registered = memory.registered
        /\ memory'.seq = memory.seq /\ memory'.issued = memory.issued
        /\ memory'.applied = memory.applied /\ memory'.revisionAt = memory.revisionAt
        /\ memory'.chain = memory.chain /\ memory'.invalidated = memory.invalidated
        /\ memory'.flight = memory.flight /\ memory'.waiting = memory.waiting
        /\ memory'.unjudged = memory.unjudged /\ memory'.told = memory.told
    BY <1>1, Now DEF Memories
  <1>3. Struct(memory', disk')
    BY <1>1, <1>2, Now DEF Struct, Kept, Flying, InAir
  <1>4. FreshIn(memory', lapses) /\ FreshOn(memory', disk', lapses)
    BY <1>1, <1>2, Now DEF FreshIn, FreshOn, Excuse, Served
  <1>5. reconciling => Noticed(memory', disk', late)
    BY <1>1, <1>2, Now DEF Noticed, Listed
  <1> QED BY <1>1, <1>2, <1>3, <1>4, <1>5, Now, PlainStep

(* A reader stores what it shows. *)
LEMMA FollowKeeps == ASSUME IInv, Follow PROVE IInv'
  <1>1. /\ memory' = [memory EXCEPT !.dirty = FALSE]
        /\ UNCHANGED <<strays, reconciling, lapses, late>> /\ disk' = Persisted(memory, disk)
        /\ memory.dirty
    BY DEF Follow
  <1>2. /\ memory' \in Memories
        /\ memory'.dirty = FALSE /\ memory'.mounted = memory.mounted
        /\ memory'.registered = memory.registered
        /\ memory'.seq = memory.seq /\ memory'.issued = memory.issued
        /\ memory'.applied = memory.applied /\ memory'.revisionAt = memory.revisionAt
        /\ memory'.chain = memory.chain /\ memory'.invalidated = memory.invalidated
        /\ memory'.flight = memory.flight /\ memory'.waiting = memory.waiting
        /\ memory'.unjudged = memory.unjudged /\ memory'.told = memory.told
    BY <1>1, Now DEF Memories
  <1>3. /\ disk' \in Disks /\ Dated(disk')
        /\ disk'.record.chain = memory.chain /\ disk'.record.invalidated = memory.invalidated
        /\ disk'.revision = disk.revision /\ disk'.gone = disk.gone
    BY <1>1, Now, PersistedFields
  <1>4. Struct(memory', disk)
    BY <1>2, Now DEF Struct, Kept, Flying, InAir
  <1>5. Struct(memory', disk')
    BY <1>3, <1>4, Now, DiskKeeps
  <1>6. FreshIn(memory', lapses) /\ FreshOn(memory', disk', lapses)
    BY <1>1, <1>2, <1>3, Now DEF FreshIn, FreshOn, Excuse, Served
  <1>7. reconciling => Noticed(memory', disk', late)
    BY <1>2, <1>3, Now DEF Noticed, Listed
  <1> QED BY <1>1, <1>2, <1>3, <1>5, <1>6, <1>7, Now, PlainStep

(* A call joins or starts a fetch, or is answered by a fresh chain. *)
LEMMA FetchKeeps == ASSUME IInv, Fetch PROVE IInv'
  <1>1. UNCHANGED <<strays, reconciling, lapses, late>> /\ memory.registered
    BY DEF Fetch, Ready
  <1>2. CASE memory' = Run(memory, disk) /\ disk' = disk
    <2>1. /\ Struct(memory', disk) /\ Same(memory', memory) /\ Served(memory'.waiting, memory') # {}
          /\ \A lt : Noticed(memory, disk, lt) => Noticed(memory', disk, lt)
      BY <1>1, <1>2, Now, RunKeeps
    <2>2. FreshIn(memory', lapses) /\ FreshOn(memory', disk, lapses)
      BY <2>1, Now, FreshStays
    <2>3. memory'.issued >= memory.issued
      BY <2>1 DEF Same
    <2> QED BY <1>1, <1>2, <2>1, <2>2, <2>3, Now, PlainStep
  <1>3. CASE /\ memory.chain # NoChain /\ ~memory.invalidated
             /\ disk' = PersistedBy(<<Call(memory, disk)>>, memory, disk) /\ UNCHANGED memory
    <2> DEFINE calls == <<Call(memory, disk)>>
    <2>1. calls \in Seq(Calls) /\ DOMAIN calls = {1} /\ calls[1].revision = disk.mark /\ calls[1].seq = memory.seq
      BY Now, CallTyped
    <2>2. Served(calls, memory) # {}
      BY <2>1 DEF Served
    <2>3. \A i \in DOMAIN calls : calls[i].revision <= disk.revision
      BY <2>1, Now DEF Dated
    <2> HIDE DEF calls
    <2>4. /\ disk' \in Disks /\ Dated(disk')
          /\ disk'.record.chain = memory.chain /\ disk'.record.invalidated = memory.invalidated
          /\ disk'.revision = disk.revision /\ disk'.gone = disk.gone
      BY <1>3, <2>1, <2>2, <2>3, Now, PersistedByFields DEF calls
    <2>5. Struct(memory, disk')
      BY <2>4, Now, DiskKeeps
    <2>6. FreshOn(memory, disk', lapses)
      BY <1>3, <2>4, Now DEF FreshIn, FreshOn
    <2>7. reconciling => Noticed(memory, disk', late)
      BY <2>4, Now DEF Noticed
    <2> QED BY <1>1, <1>3, <2>4, <2>5, <2>6, <2>7, Now, PlainStep
  <1> QED BY <1>2, <1>3 DEF Fetch

(* A reader asks for the page after its chain. *)
LEMMA NextPageKeeps == ASSUME IInv, NextPage PROVE IInv'
  <1>1. /\ memory' = Start(memory, disk, memory.chain.pages) /\ disk' = disk
        /\ UNCHANGED <<strays, reconciling, lapses, late>>
        /\ memory.mounted /\ memory.flight = NoFlight /\ HasMore(memory.chain)
    BY DEF NextPage
  <1>2. memory.registered
    BY <1>1, Now DEF Kept
  <1>3. memory.chain.pages \in 0 .. Pages - 1
    BY <1>1, Now, Fields, PagesAssumption DEF HasMore, Chains
  <1>4. /\ Struct(memory', disk) /\ Served(memory'.waiting, memory') # {}
        /\ \A lt : Noticed(memory, disk, lt) => Noticed(memory', disk, lt)
    BY <1>1, <1>2, <1>3, Now, StartKeeps
  <1>5. Same(memory', memory)
    <2> DEFINE s == Start(memory, disk, memory.chain.pages)
    <2>1. /\ s.issued \in {memory.issued, memory.issued + 1}
          /\ s.registered = memory.registered /\ s.mounted = memory.mounted /\ s.seq = memory.seq
          /\ s.applied = memory.applied /\ s.revisionAt = memory.revisionAt /\ s.chain = memory.chain
          /\ s.invalidated = memory.invalidated /\ s.failed = memory.failed /\ s.dirty = memory.dirty
          /\ s.unjudged = memory.unjudged /\ s.told = memory.told
      BY <1>3, Now, StartFields
    <2>2. memory' = s
      BY <1>1
    <2> HIDE DEF s
    <2> QED BY <2>1, <2>2, Now DEF Same
  <1>6. FreshIn(memory', lapses) /\ FreshOn(memory', disk, lapses)
    BY <1>4, <1>5, Now, FreshStays
  <1>7. memory'.issued >= memory.issued
    BY <1>5 DEF Same
  <1> QED BY <1>1, <1>4, <1>6, <1>7, Now, PlainStep

(* The observer asks for the first page. *)
LEMMA ScheduledKeeps == ASSUME IInv, Scheduled PROVE IInv'
  <1> DEFINE f == Request("observer", 0, memory.issued + 1, memory, disk, NoChain, memory.invalidated)
             n == memory.issued + 1
  <1>1. /\ memory' = [memory EXCEPT !.issued = n, !.flight = f] /\ disk' = disk
        /\ UNCHANGED <<strays, reconciling, lapses, late>>
        /\ memory.mounted /\ memory.flight = NoFlight
    BY DEF Scheduled
  <1>2. /\ n \in Nat /\ n > memory.issued /\ 0 \in 0 .. Pages - 1 /\ memory.invalidated \in BOOLEAN
        /\ memory.registered
    BY <1>1, Now, Fields, PagesAssumption DEF Kept
  <1>3. /\ f \in Requests
        /\ f.by = "observer" /\ f.page = 0 /\ f.issued = n /\ f.seq = memory.seq /\ f.revision = disk.mark
        /\ f.asked = memory.told /\ f.ids = {0 + 1} \ disk.gone /\ f.got = NoChain
    BY <1>2, Now, NoChainTyped, RequestTyped
  <1> HIDE DEF f, n
  <1>4. /\ memory' \in Memories /\ memory'.flight = f /\ memory'.issued = n
        /\ memory'.dirty = memory.dirty /\ memory'.mounted = memory.mounted
        /\ memory'.registered = memory.registered /\ memory'.seq = memory.seq
        /\ memory'.applied = memory.applied /\ memory'.revisionAt = memory.revisionAt
        /\ memory'.chain = memory.chain /\ memory'.invalidated = memory.invalidated
        /\ memory'.waiting = memory.waiting
        /\ memory'.unjudged = memory.unjudged /\ memory'.told = memory.told
    BY <1>1, <1>2, <1>3, Now DEF Memories
  <1>5. f # NoFlight
    BY <1>3 DEF NoFlight
  <1>6. Struct(memory', disk)
    <2>1. Flying(memory', disk)
      BY <1>2, <1>3, <1>4, Now DEF Flying, InAir, Dated
    <2> QED BY <1>1, <1>2, <1>4, <1>5, <2>1, Now DEF Struct, Kept
  <1>7. FreshIn(memory', lapses) /\ FreshOn(memory', disk, lapses)
    BY <1>1, <1>3, <1>4, Now DEF FreshIn, FreshOn, Excuse
  <1>8. reconciling => Noticed(memory', disk, late)
    BY <1>1, <1>3, <1>4, <1>5, Now DEF Noticed, Listed, NoChain
  <1> QED BY <1>1, <1>2, <1>4, <1>6, <1>7, <1>8, Now, PlainStep

(* A step keeps the invariant when it keeps its parts. *)
LEMMA PartsKeep ==
  ASSUME IInv, Struct(memory', disk'), FreshIn(memory', lapses'), FreshOn(memory', disk', lapses'),
         reconciling' => Noticed(memory', disk', late'),
         memory'.issued >= memory.issued, disk'.revision >= disk.revision,
         \A f \in strays' : f \in strays \/ (f \in Requests /\ InAir(f, memory', disk'))
  PROVE  IInv'
  <1>1. \A f \in strays : InAir(f, memory', disk') /\ f \in Requests
    BY StraysKeep DEF Struct, IInv
  <1> QED BY <1>1 DEF IInv, Core

(* An answer that was not outdated is the latest to have landed. *)
LEMMA AppliedKeeps ==
  ASSUME NEW m, NEW d, NEW f \in Requests, Struct(m, d), InAir(f, m, d)
  PROVE  LET s == Applied(f, m) IN
         /\ Struct(s, d) /\ s.seq = m.seq /\ s.issued = m.issued /\ s.flight = m.flight
         /\ s.registered = m.registered /\ s.mounted = m.mounted /\ s.waiting = m.waiting
         /\ s.revisionAt = m.revisionAt /\ s.chain = m.chain /\ s.invalidated = m.invalidated
         /\ s.dirty = m.dirty /\ s.unjudged = m.unjudged /\ s.told = m.told
  <1>1. CASE Applied(f, m) = m
    BY <1>1
  <1>2. CASE Applied(f, m) = [m EXCEPT !.applied = f.issued]
    <2> DEFINE s == [m EXCEPT !.applied = f.issued]
    <2>1. m \in Memories /\ f.issued \in Nat
      BY DEF Struct, Requests
    <2>2. /\ s \in Memories /\ s.applied = f.issued
          /\ s.seq = m.seq /\ s.issued = m.issued /\ s.flight = m.flight
          /\ s.registered = m.registered /\ s.mounted = m.mounted /\ s.waiting = m.waiting
          /\ s.revisionAt = m.revisionAt /\ s.chain = m.chain /\ s.invalidated = m.invalidated
          /\ s.dirty = m.dirty /\ s.unjudged = m.unjudged /\ s.told = m.told
      BY <2>1 DEF Memories
    <2> HIDE DEF s
    <2>3. Struct(s, d)
      BY <2>1, <2>2 DEF Struct, Kept, Flying, InAir
    <2> QED BY <1>2, <2>2, <2>3 DEF s
  <1> QED BY <1>1, <1>2 DEF Applied

(* react-query has taken a result. *)
LEMMA SettledKeeps ==
  ASSUME NEW m, NEW d, NEW chain \in Chains, Struct(m, d), m.registered
  PROVE  LET s == Settled(m, chain) IN
         /\ Struct(s, d) /\ s.chain = chain /\ s.invalidated = FALSE /\ s.flight = NoFlight
         /\ s.waiting = <<>> /\ s.unjudged = {} /\ s.dirty = m.mounted
         /\ s.seq = m.seq /\ s.issued = m.issued /\ s.registered /\ s.told = m.told
  <1> DEFINE s == Settled(m, chain)
  <1>1. m \in Memories /\ m.mounted \in BOOLEAN
    BY Fields DEF Struct
  <1>2. <<>> \in Seq(Calls)
    BY EmptySeq
  <1>3. /\ s \in Memories /\ s.chain = chain /\ s.invalidated = FALSE /\ s.flight = NoFlight
        /\ s.waiting = <<>> /\ s.unjudged = {} /\ s.dirty = m.mounted
        /\ s.seq = m.seq /\ s.issued = m.issued /\ s.registered = m.registered /\ s.told = m.told
        /\ s.applied = m.applied /\ s.revisionAt = m.revisionAt /\ s.mounted = m.mounted
    BY <1>1, <1>2 DEF Memories, Settled
  <1> HIDE DEF s
  <1>4. Struct(s, d)
    BY <1>3 DEF Struct, Kept
  <1> QED BY <1>3, <1>4 DEF s

(* The chain a landing makes. *)
LEMMA LandedFields ==
  ASSUME NEW m \in Memories, NEW f \in Requests, f.page > 0 => m.chain.pages = f.page
  PROVE  /\ Landed(f, m) \in Chains /\ Landed(f, m) # NoChain
         /\ Landed(f, m).last = f.asked /\ Landed(f, m).ids \subseteq m.chain.ids \cup f.ids
         /\ f.page = 0 => Landed(f, m).ids = f.ids
  <1>1. /\ m.chain \in Chains /\ f.ids \in SUBSET (1 .. Pages) /\ f.asked \in Nat
        /\ f.page \in 0 .. Pages - 1 /\ Pages \in Nat \ {0}
    BY Fields, PagesAssumption DEF Requests
  <1>2. CASE f.page = 0
    <2>1. Landed(f, m) = [ids |-> f.ids, pages |-> 1, first |-> f.asked, last |-> f.asked]
      BY <1>2 DEF Landed
    <2> QED BY <1>1, <1>2, <2>1 DEF Chains, NoChain
  <1>3. CASE f.page # 0
    <2>1. /\ Landed(f, m) = [ids |-> m.chain.ids \cup f.ids, pages |-> m.chain.pages + 1,
                             first |-> m.chain.first, last |-> f.asked]
          /\ m.chain.pages = f.page
      BY <1>1, <1>3 DEF Landed
    <2>2. m.chain.ids \in SUBSET (1 .. Pages) /\ m.chain.first \in Nat /\ m.chain.pages + 1 \in 1 .. Pages
      BY <1>1, <2>1 DEF Chains
    <2> QED BY <1>1, <1>3, <2>1, <2>2 DEF Chains, NoChain
  <1> QED BY <1>2, <1>3

(* The rows of an answer. *)
LEMMA StoredFields ==
  ASSUME NEW m, NEW d \in Disks, NEW f \in Requests, Dated(d)
  PROVE  LET e == Stored(f, m, d) IN
         /\ e \in Disks /\ Dated(e)
         /\ e.record = d.record /\ e.mark = d.mark /\ e.revision = d.revision /\ e.gone = d.gone
  <1> DEFINE landed == d.landed \cup (f.ids \ d.gone)
  <1>1. CASE Stored(f, m, d) = d
    BY <1>1
  <1>2. CASE Stored(f, m, d) = [d EXCEPT !.landed = landed]
    <2>1. landed \in SUBSET (1 .. Pages) /\ d.gone \subseteq d.landed
      BY DEF Disks, Requests, Dated
    <2>2. d.landed \subseteq landed
      OBVIOUS
    <2> HIDE DEF landed
    <2> QED BY <1>2, <2>1, <2>2 DEF Disks, Dated
  <1> QED BY <1>1, <1>2 DEF Stored

(* The flight of the memory. *)
LEMMA FlightNow ==
  ASSUME IInv, memory.flight.by \in {"run", "observer"}
  PROVE  /\ memory.flight \in Requests /\ memory.flight # NoFlight /\ memory.registered
         /\ Flying(memory, disk) /\ InAir(memory.flight, memory, disk)
         /\ memory.waiting \in Seq(Calls)
         /\ \A i \in DOMAIN memory.waiting : memory.waiting[i].revision <= disk.revision
  <1>1. memory.flight \in Requests /\ memory.flight # NoFlight
    BY Now, Fields, Absent DEF NoFlight
  <1> QED BY <1>1, Now, Fields DEF Kept, Flying

(* An answer to a call's fetch: if nothing was told meanwhile the chain is *)
(* fresh; otherwise it is flagged, and asked for again.                    *)
LEMMA AnsweredKeeps == ASSUME IInv, Answered PROVE IInv'
  <1> DEFINE f == memory.flight
             a == Applied(f, memory)
             got == IF Outdated(f, memory) THEN a.chain ELSE Landed(f, a)
             m == Settled(a, got)
             d == Stored(f, memory, disk)
             calls == a.waiting
             l == Overtaken(f) \ (IF Outdated(f, memory) THEN {} ELSE {"reverted"})
  <1>1. /\ f.by = "run" /\ got # NoChain /\ Continue(calls, m, d)
        /\ lapses' = l /\ late' = late \cup memory.unjudged
        /\ UNCHANGED <<strays, reconciling>>
    BY DEF Answered
  <1>2. /\ f \in Requests /\ f # NoFlight /\ memory.registered
        /\ Flying(memory, disk) /\ InAir(f, memory, disk)
        /\ memory.waiting \in Seq(Calls)
        /\ \A i \in DOMAIN memory.waiting : memory.waiting[i].revision <= disk.revision
    BY <1>1, FlightNow
  <1>3. /\ Struct(a, disk) /\ a.seq = memory.seq /\ a.issued = memory.issued
        /\ a.registered = memory.registered /\ a.waiting = memory.waiting
        /\ a.chain = memory.chain /\ a.unjudged = memory.unjudged /\ a.told = memory.told
    BY <1>2, Now, AppliedKeeps
  <1> HIDE DEF a
  <1>4. /\ Landed(f, a) \in Chains /\ Landed(f, a).last = f.asked
        /\ Landed(f, a).ids \subseteq memory.chain.ids \cup f.ids
    BY <1>2, <1>3, LandedFields DEF Flying, Struct
  <1>5. /\ got \in Chains
        /\ ~Outdated(f, memory) => got.last = f.asked
        /\ got.ids \subseteq memory.chain.ids \cup f.ids
    BY <1>3, <1>4, Now, Fields
  <1> HIDE DEF got
  <1>6. /\ Struct(m, disk) /\ m.chain = got /\ m.invalidated = FALSE /\ m.flight = NoFlight
        /\ m.waiting = <<>> /\ m.unjudged = {}
        /\ m.seq = memory.seq /\ m.issued = memory.issued /\ m.registered /\ m.told = memory.told
    <2>1. a.registered
      BY <1>2, <1>3
    <2>2. Struct(a, disk) /\ got \in Chains
      BY <1>3, <1>5
    <2>3. LET s == Settled(a, got) IN
          /\ Struct(s, disk) /\ s.chain = got /\ s.invalidated = FALSE /\ s.flight = NoFlight
          /\ s.waiting = <<>> /\ s.unjudged = {} /\ s.dirty = a.mounted
          /\ s.seq = a.seq /\ s.issued = a.issued /\ s.registered /\ s.told = a.told
      BY ONLY <2>1, <2>2, SettledKeeps
    <2> QED BY <1>3, <2>3
  <1> HIDE DEF m
  <1>7. /\ d \in Disks /\ Dated(d)
        /\ d.record = disk.record /\ d.mark = disk.mark /\ d.revision = disk.revision /\ d.gone = disk.gone
    BY <1>2, Now, StoredFields
  <1> HIDE DEF d
  <1>8. Struct(m, d)
    BY <1>6, <1>7, Now, DiskKeeps
  <1>9. Outdated(f, memory) => "overtaken" \in l
    BY DEF Overtaken
  <1>10. "overtaken" \in lapses => "overtaken" \in l
    BY DEF Overtaken
  <1>11. ASSUME Outrun(calls, m) = {}
         PROVE  m.chain.last = m.told \/ Excuse(m, l)
    <2>1. calls # <<>> /\ calls[1].seq = f.seq
      BY <1>1, <1>2, <1>3 DEF Flying
    <2>2. 1 \in DOMAIN calls
      BY <1>2, <1>3, <2>1, LenProperties, EmptySeq
    <2>3. f.seq = memory.seq
      BY <1>6, <1>11, <2>1, <2>2 DEF Outrun
    <2>4. f.asked = memory.told
      BY <1>2, <2>3 DEF Flying
    <2> QED BY <1>5, <1>6, <1>9, <2>4 DEF Excuse
  <1>12. FreshOn(m, d, l) \/ Served(calls, m) # {}
    <2>1. ASSUME Served(calls, m) = {}, Excuse(memory, lapses) PROVE Excuse(m, l)
      <3>1. Served(memory.waiting, memory) = {}
        BY <1>3, <1>6, <2>1 DEF Served
      <3> QED BY <1>1, <1>10, <2>1, <3>1 DEF Excuse
    <2> QED BY <1>6, <1>7, <2>1, Now DEF FreshOn
  <1>13. ASSUME reconciling PROVE Noticed(m, d, late')
    <2>1. Listed(m) = got.ids /\ Listed(memory) = memory.chain.ids \cup (f.ids \cup f.got.ids)
      BY <1>2, <1>6 DEF Listed
    <2>2. Noticed(memory, disk, late)
      BY <1>13, Now
    <2> QED BY <1>1, <1>5, <1>6, <1>7, <2>1, <2>2 DEF Noticed
  <1>14. /\ calls \in Seq(Calls)
         /\ \A i \in DOMAIN calls : calls[i].revision <= d.revision
    BY <1>2, <1>3, <1>7
  <1>15. Outrun(calls, m) = {} => FreshIn(m, l) /\ (~m.invalidated => m.chain.last = m.told \/ Excuse(m, l))
    BY <1>11 DEF FreshIn
  <1> HIDE DEF calls, l, f
  <1>16. /\ Struct(memory', disk') /\ FreshIn(memory', l) /\ FreshOn(memory', disk', l)
         /\ \A lt : Noticed(m, d, lt) => Noticed(memory', disk', lt)
         /\ memory'.issued >= m.issued /\ disk'.revision = d.revision
    BY <1>1, <1>6, <1>8, <1>12, <1>14, <1>15, ContinueKeeps
  <1>17. memory'.issued >= memory.issued /\ disk'.revision >= disk.revision
    BY <1>6, <1>7, <1>16, Now
  <1>18. \A r \in strays' : r \in strays
    BY <1>1
  <1> QED BY <1>1, <1>13, <1>16, <1>17, <1>18, PartsKeep

(* Nothing cached and nothing landed: the flag stands. *)
LEMMA NothingKeeps == ASSUME IInv, Nothing PROVE IInv'
  <1>1. /\ memory.flight.by = "run"
        /\ memory' = [memory EXCEPT !.flight = NoFlight, !.waiting = <<>>, !.unjudged = {},
                                    !.failed = TRUE, !.invalidated = TRUE]
        /\ late' = late \cup memory.unjudged
        /\ UNCHANGED <<strays, disk, reconciling, lapses>>
    BY DEF Nothing
  <1>2. <<>> \in Seq(Calls) /\ memory.registered /\ memory.flight # NoFlight
    BY <1>1, EmptySeq, FlightNow
  <1>3. /\ memory' \in Memories /\ memory'.flight = NoFlight /\ memory'.waiting = <<>>
        /\ memory'.unjudged = {} /\ memory'.invalidated = TRUE
        /\ memory'.registered = memory.registered /\ memory'.seq = memory.seq
        /\ memory'.issued = memory.issued /\ memory'.applied = memory.applied
        /\ memory'.revisionAt = memory.revisionAt /\ memory'.chain = memory.chain
        /\ memory'.told = memory.told
    BY <1>1, <1>2, Now DEF Memories
  <1>4. Struct(memory', disk')
    BY <1>1, <1>2, <1>3, Now DEF Struct, Kept
  <1>5. FreshIn(memory', lapses') /\ FreshOn(memory', disk', lapses')
    BY <1>1, <1>3, Now DEF FreshIn, FreshOn, Excuse, NoFlight
  <1>6. reconciling' => Noticed(memory', disk', late')
    BY <1>1, <1>3, Now DEF Noticed, Listed
  <1>7. memory'.issued >= memory.issued /\ disk'.revision >= disk.revision
    BY <1>1, <1>3, Now
  <1>8. \A r \in strays' : r \in strays
    BY <1>1
  <1> QED BY <1>4, <1>5, <1>6, <1>7, <1>8, PartsKeep

(* The next round of an observer. *)
LEMMA RoundFields ==
  ASSUME NEW m \in Memories, NEW d \in Disks, NEW f \in Requests, f.by = "observer"
  PROVE  LET r == Round(f, m, d) IN
         /\ r \in Requests /\ r.by = "observer" /\ r.page = 0 /\ r.issued = m.issued + 1
         /\ r.seq = m.seq /\ r.revision = d.mark /\ r.asked = m.told
         /\ (r.ids \cup r.got.ids) \cap d.gone \subseteq f.ids \cup f.got.ids
  <1> DEFINE got == IF Outdated(f, m) THEN f.got ELSE Landed(f, m)
             r == Request("observer", 0, m.issued + 1, m, d, got, f.before)
  <1>1. f.page = 0 /\ f.got \in Chains /\ f.before \in BOOLEAN
    BY DEF Requests
  <1>2. got \in Chains /\ got.ids \subseteq f.ids \cup f.got.ids
    BY <1>1, LandedFields
  <1>3. m.issued + 1 \in Nat /\ 0 \in 0 .. Pages - 1
    BY Fields, PagesAssumption
  <1>4. Round(f, m, d) = r
    BY DEF Round
  <1> HIDE DEF got
  <1>5. /\ r \in Requests /\ r.by = "observer" /\ r.page = 0 /\ r.issued = m.issued + 1
        /\ r.seq = m.seq /\ r.revision = d.mark /\ r.asked = m.told
        /\ r.ids = {0 + 1} \ d.gone /\ r.got = got
    BY <1>1, <1>2, <1>3, RequestTyped
  <1> HIDE DEF r
  <1> QED BY <1>2, <1>4, <1>5

(* The observer's fetch is answered: it takes the result when nothing has  *)
(* outrun it, else it reads again.                                         *)
LEMMA ObserverKeeps == ASSUME IInv, ObserverAnswered PROVE IInv'
  <1> DEFINE f == memory.flight
             a == Applied(f, memory)
             got == IF Outdated(f, memory) THEN f.got ELSE Landed(f, a)
             d == Stored(f, memory, disk)
  <1>1. f.by = "observer" /\ UNCHANGED <<strays, reconciling>>
    BY DEF ObserverAnswered
  <1>2. /\ f \in Requests /\ f # NoFlight /\ memory.registered
        /\ Flying(memory, disk) /\ InAir(f, memory, disk)
        /\ memory.waiting \in Seq(Calls)
        /\ \A i \in DOMAIN memory.waiting : memory.waiting[i].revision <= disk.revision
    BY <1>1, FlightNow
  <1>3. /\ Struct(a, disk) /\ a.seq = memory.seq /\ a.issued = memory.issued /\ a.flight = f
        /\ a.registered = memory.registered /\ a.waiting = memory.waiting
        /\ a.chain = memory.chain /\ a.unjudged = memory.unjudged /\ a.told = memory.told
        /\ a.mounted = memory.mounted /\ a.revisionAt = memory.revisionAt
        /\ a.invalidated = memory.invalidated /\ a.dirty = memory.dirty
    BY <1>2, Now, AppliedKeeps
  <1>4. /\ d \in Disks /\ Dated(d)
        /\ d.record = disk.record /\ d.mark = disk.mark /\ d.revision = disk.revision /\ d.gone = disk.gone
    BY <1>2, Now, StoredFields
  <1>5. strays' = strays
    BY <1>1
  <1>6. CASE ReadsAgain(f, a)
    <2> DEFINE r == Round(f, memory, disk)
               n == a.issued + 1
    <2>1. memory' = [a EXCEPT !.flight = r, !.issued = n] /\ disk' = d /\ UNCHANGED <<lapses, late>>
      BY <1>6 DEF ObserverAnswered
    <2>2. /\ r \in Requests /\ r.by = "observer" /\ r.page = 0 /\ r.issued = memory.issued + 1
          /\ r.seq = memory.seq /\ r.revision = disk.mark /\ r.asked = memory.told
          /\ (r.ids \cup r.got.ids) \cap disk.gone \subseteq f.ids \cup f.got.ids
      BY <1>1, <1>2, Now, RoundFields
    <2>3. a \in Memories /\ n \in Nat /\ n = memory.issued + 1 /\ n >= memory.issued
      BY <1>3, Now DEF Struct
    <2>4. r # NoFlight
      BY <2>2 DEF NoFlight
    <2> HIDE DEF a, f, r, d, n
    <2>5. /\ memory' \in Memories /\ memory'.flight = r /\ memory'.issued = n
          /\ memory'.seq = a.seq /\ memory'.applied = a.applied /\ memory'.registered = a.registered
          /\ memory'.mounted = a.mounted
          /\ memory'.waiting = a.waiting /\ memory'.revisionAt = a.revisionAt /\ memory'.chain = a.chain
          /\ memory'.invalidated = a.invalidated /\ memory'.dirty = a.dirty
          /\ memory'.unjudged = a.unjudged /\ memory'.told = a.told
      BY <2>1, <2>2, <2>3 DEF Memories
    <2>6. Struct(memory', disk)
      <3>1. Flying(memory', disk)
        BY <1>3, <2>2, <2>3, <2>5, Now DEF Flying, InAir, Dated
      <3>2. memory'.applied <= memory'.issued
        <4>1. a.applied <= a.issued /\ a.applied \in Nat /\ a.issued \in Nat
          BY <1>3, <2>3, Fields DEF Struct, Kept
        <4> QED BY <2>5, <4>1 DEF n
      <3> QED BY <1>2, <1>3, <2>4, <2>5, <3>1, <3>2, Now DEF Struct, Kept
    <2>7. Struct(memory', disk')
      BY <1>4, <2>1, <2>6, Now, DiskKeeps
    <2>8. FreshIn(memory', lapses') /\ FreshOn(memory', disk', lapses')
      BY <1>3, <1>4, <2>1, <2>2, <2>5, Now DEF FreshIn, FreshOn, Excuse
    <2>9. reconciling' => Noticed(memory', disk', late')
      <3>1. Listed(memory) = memory.chain.ids \cup (f.ids \cup f.got.ids)
        BY <1>2 DEF Listed, f
      <3>2. Listed(memory') = memory.chain.ids \cup (r.ids \cup r.got.ids)
        BY <1>3, <2>4, <2>5 DEF Listed
      <3> QED BY <1>1, <1>3, <1>4, <2>1, <2>2, <2>5, <3>1, <3>2, Now DEF Noticed
    <2> QED BY <1>4, <1>5, <2>1, <2>3, <2>5, <2>7, <2>8, <2>9, Now, PartsKeep
  <1>7. CASE ~ReadsAgain(f, a)
    <2> DEFINE b == [a EXCEPT !.revisionAt = f.revision]
               chain == IF got = NoChain THEN a.chain ELSE got
               m == Settled(b, chain)
               calls == a.waiting
    <2>1. /\ Continue(calls, m, d) /\ lapses' = Overtaken(f) /\ late' = late \cup memory.unjudged
      BY <1>7 DEF ObserverAnswered
    <2>2. f.revision \in Nat /\ f.revision <= disk.revision /\ f.got \in Chains /\ f.page = 0
      BY <1>1, <1>2 DEF Requests, InAir
    <2>3. /\ Landed(f, a) \in Chains /\ Landed(f, a) # NoChain /\ Landed(f, a).last = f.asked
          /\ Landed(f, a).ids = f.ids
      BY <1>2, <1>3, <2>2, LandedFields DEF Struct
    <2>4. /\ chain \in Chains
          /\ ~Outdated(f, memory) => chain.last = f.asked
          /\ chain.ids \subseteq memory.chain.ids \cup f.ids \cup f.got.ids
      BY <1>3, <2>2, <2>3, Now, Fields
    <2>5. f.seq = memory.seq /\ f.asked = memory.told
      BY <1>2, <1>3, <1>7 DEF ReadsAgain, Flying
    <2>6. "overtaken" \in lapses' \/ ~Outdated(f, memory)
      BY <2>1 DEF Overtaken
    <2>7. lapses \subseteq lapses'
      BY <2>1 DEF Overtaken
    <2> HIDE DEF a, got
    <2>8. /\ Struct(b, disk) /\ b.registered /\ b.seq = a.seq /\ b.issued = a.issued /\ b.told = a.told
      <3>1. /\ b \in Memories /\ b.revisionAt = f.revision
            /\ b.registered = a.registered /\ b.seq = a.seq /\ b.issued = a.issued /\ b.told = a.told
            /\ b.flight = a.flight /\ b.waiting = a.waiting /\ b.applied = a.applied /\ b.chain = a.chain
            /\ b.unjudged = a.unjudged /\ b.mounted = a.mounted
        BY <1>3, <2>2 DEF Struct, Memories
      <3> HIDE DEF b
      <3> QED BY <1>2, <1>3, <2>2, <3>1 DEF Struct, Kept, Flying, InAir
    <2> HIDE DEF b, chain
    <2>9. /\ Struct(m, disk) /\ m.chain = chain /\ m.invalidated = FALSE /\ m.flight = NoFlight
          /\ m.waiting = <<>> /\ m.unjudged = {}
          /\ m.seq = memory.seq /\ m.issued = memory.issued /\ m.registered /\ m.told = memory.told
      <3>1. LET s == Settled(b, chain) IN
            /\ Struct(s, disk) /\ s.chain = chain /\ s.invalidated = FALSE /\ s.flight = NoFlight
            /\ s.waiting = <<>> /\ s.unjudged = {} /\ s.dirty = b.mounted
            /\ s.seq = b.seq /\ s.issued = b.issued /\ s.registered /\ s.told = b.told
        BY <2>4, <2>8, SettledKeeps
      <3> QED BY <1>3, <2>8, <3>1
    <2> HIDE DEF m, d, calls
    <2>10. Struct(m, d)
      BY <1>4, <2>9, Now, DiskKeeps
    <2>11. m.chain.last = m.told \/ Excuse(m, lapses')
      BY <2>4, <2>5, <2>6, <2>9 DEF Excuse
    <2>12. FreshOn(m, d, lapses')
      <3>1. Excuse(memory, lapses) => Excuse(m, lapses')
        BY <2>7, <2>9 DEF Excuse, NoFlight
      <3> QED BY <1>4, <2>9, <3>1, Now DEF FreshOn
    <2>13. ASSUME reconciling PROVE Noticed(m, d, late')
      <3>1. Listed(m) = chain.ids /\ Listed(memory) = memory.chain.ids \cup (f.ids \cup f.got.ids)
        BY <1>2, <2>9 DEF Listed
      <3>2. Noticed(memory, disk, late)
        BY <2>13, Now
      <3> QED BY <1>4, <2>1, <2>4, <2>9, <3>1, <3>2 DEF Noticed
    <2>14. /\ calls \in Seq(Calls)
           /\ \A i \in DOMAIN calls : calls[i].revision <= d.revision
      BY <1>2, <1>3, <1>4 DEF calls
    <2>15. FreshIn(m, lapses') /\ (~m.invalidated => m.chain.last = m.told \/ Excuse(m, lapses'))
      BY <2>11 DEF FreshIn
    <2>16. PICK l : l = lapses'
      OBVIOUS
    <2>17. /\ Struct(memory', disk') /\ FreshIn(memory', l) /\ FreshOn(memory', disk', l)
           /\ \A lt : Noticed(m, d, lt) => Noticed(memory', disk', lt)
           /\ memory'.issued >= m.issued /\ disk'.revision = d.revision
      BY <2>1, <2>9, <2>10, <2>12, <2>14, <2>15, <2>16, ContinueKeeps
    <2>18. memory'.issued >= memory.issued /\ disk'.revision >= disk.revision
      BY <1>4, <2>9, <2>17, Now
    <2> QED BY <1>1, <1>5, <2>13, <2>16, <2>17, <2>18, PartsKeep
  <1> QED BY <1>6, <1>7

(* What the freshness and the losses of a memory depend on. *)
Alike(s, m) ==
    /\ s.chain = m.chain /\ s.dirty = m.dirty /\ s.invalidated = m.invalidated /\ s.told = m.told
    /\ s.flight = m.flight /\ s.waiting = m.waiting /\ s.seq = m.seq /\ s.unjudged = m.unjudged

(* Memories alike are as fresh, and list the same. *)
LEMMA AlikeKeeps ==
  ASSUME NEW m, NEW s, NEW d, NEW e, NEW l, NEW lt, Alike(s, m),
         e.record = d.record, e.mark = d.mark, e.gone = d.gone
  PROVE  /\ FreshIn(m, l) => FreshIn(s, l)
         /\ FreshOn(m, d, l) => FreshOn(s, e, l)
         /\ Noticed(m, d, lt) => Noticed(s, e, lt)
  <1>1. Excuse(s, l) <=> Excuse(m, l)
    BY DEF Alike, Excuse, Served
  <1>2. Listed(s) = Listed(m)
    BY DEF Alike, Listed
  <1> QED BY <1>1, <1>2 DEF Alike, FreshIn, FreshOn, Noticed

(* An answer to a cancelled request: only counters move. *)
LEMMA StrayAnsweredKeeps == ASSUME IInv, NEW f, StrayAnswered(f) PROVE IInv'
  <1> DEFINE a == Applied(f, memory)
             d == Stored(f, memory, disk)
             r == Round(f, memory, disk)
             n == a.issued + 1
  <1>1. f \in strays /\ disk' = d /\ UNCHANGED <<reconciling, lapses, late>>
    BY DEF StrayAnswered
  <1>2. f \in Requests /\ InAir(f, memory, disk) /\ f.revision \in Nat /\ f.revision <= disk.revision
    BY <1>1 DEF IInv, Requests, InAir
  <1>3. /\ Struct(a, disk) /\ a.seq = memory.seq /\ a.issued = memory.issued /\ a.flight = memory.flight
        /\ a.registered = memory.registered /\ a.waiting = memory.waiting
        /\ a.chain = memory.chain /\ a.unjudged = memory.unjudged /\ a.told = memory.told
        /\ a.mounted = memory.mounted /\ a.revisionAt = memory.revisionAt
        /\ a.invalidated = memory.invalidated /\ a.dirty = memory.dirty
    BY <1>2, Now, AppliedKeeps
  <1>4. /\ d \in Disks /\ Dated(d)
        /\ d.record = disk.record /\ d.mark = disk.mark /\ d.revision = disk.revision /\ d.gone = disk.gone
    BY <1>2, Now, StoredFields
  <1>5. a \in Memories /\ Kept(a, disk) /\ a.issued \in Nat /\ n \in Nat /\ n >= a.issued /\ a.applied \in Nat
    BY <1>3, Fields DEF Struct
  <1>6. SUFFICES /\ Struct(memory', disk) /\ Alike(memory', memory) /\ memory'.issued >= memory.issued
                 /\ \A q \in strays' : q \in strays \/ (q \in Requests /\ InAir(q, memory', disk'))
    <2> HIDE DEF d
    <2>1. Struct(memory', disk')
      BY <1>1, <1>4, <1>6, Now, DiskKeeps
    <2>2. FreshIn(memory', lapses') /\ FreshOn(memory', disk', lapses')
      BY <1>1, <1>4, <1>6, Now, AlikeKeeps
    <2>3. reconciling' => Noticed(memory', disk', late')
      BY <1>1, <1>4, <1>6, Now, AlikeKeeps
    <2>4. disk'.revision >= disk.revision
      BY <1>1, <1>4, Now
    <2> QED BY <1>6, <2>1, <2>2, <2>3, <2>4, PartsKeep
  <1>7. CASE f.by = "observer" /\ ReadsAgain(f, a)
    <2>1. memory' = [a EXCEPT !.issued = n] /\ strays' = (strays \ {f}) \cup {r}
      BY <1>7 DEF StrayAnswered
    <2>2. /\ r \in Requests /\ r.issued = memory.issued + 1 /\ r.revision = disk.mark
      BY <1>2, <1>7, Now, RoundFields
    <2> HIDE DEF a, d, r
    <2>3. /\ memory' \in Memories /\ memory'.issued = n
          /\ memory'.seq = a.seq /\ memory'.applied = a.applied /\ memory'.registered = a.registered
          /\ memory'.mounted = a.mounted /\ memory'.flight = a.flight
          /\ memory'.waiting = a.waiting /\ memory'.revisionAt = a.revisionAt /\ memory'.chain = a.chain
          /\ memory'.invalidated = a.invalidated /\ memory'.dirty = a.dirty
          /\ memory'.unjudged = a.unjudged /\ memory'.told = a.told
      BY <1>5, <2>1 DEF Memories
    <2>4. a.flight # NoFlight /\ Flying(a, disk) => Flying(memory', disk)
      <3>1. a.flight # NoFlight => a.flight.issued \in Nat
        BY <1>5, Fields DEF Requests
      <3>2. a.flight # NoFlight /\ a.flight.issued <= a.issued => a.flight.issued <= n
        BY <1>5, <3>1
      <3> QED BY <2>3, <3>2 DEF Flying, InAir
    <2>5. memory'.applied <= memory'.issued
      BY <1>5, <2>3 DEF Kept
    <2>6. Struct(memory', disk)
      BY <1>3, <1>5, <2>3, <2>4, <2>5 DEF Struct, Kept
    <2>7. Alike(memory', memory)
      BY <1>3, <2>3 DEF Alike
    <2>8. InAir(r, memory', disk')
      BY <1>1, <1>3, <1>4, <2>2, <2>3, Now DEF InAir, Dated, n
    <2>9. memory'.issued >= memory.issued
      BY <1>3, <1>5, <2>3
    <2> QED BY <2>1, <2>2, <2>6, <2>7, <2>8, <2>9
  <1>8. CASE f.by = "observer" /\ ~ReadsAgain(f, a)
    <2>1. memory' = [a EXCEPT !.revisionAt = f.revision] /\ strays' = strays \ {f}
      BY <1>8 DEF StrayAnswered
    <2> HIDE DEF a, d, r
    <2>2. /\ memory' \in Memories /\ memory'.issued = a.issued
          /\ memory'.seq = a.seq /\ memory'.applied = a.applied /\ memory'.registered = a.registered
          /\ memory'.mounted = a.mounted /\ memory'.flight = a.flight
          /\ memory'.waiting = a.waiting /\ memory'.revisionAt = f.revision /\ memory'.chain = a.chain
          /\ memory'.invalidated = a.invalidated /\ memory'.dirty = a.dirty
          /\ memory'.unjudged = a.unjudged /\ memory'.told = a.told
      BY <1>2, <1>5, <2>1 DEF Memories
    <2>3. Struct(memory', disk)
      BY <1>2, <1>3, <1>5, <2>2 DEF Struct, Kept, Flying, InAir
    <2>4. Alike(memory', memory) /\ memory'.issued >= memory.issued
      BY <1>3, <1>5, <2>2 DEF Alike
    <2> QED BY <2>1, <2>3, <2>4
  <1>9. CASE f.by # "observer"
    <2>1. memory' = a /\ strays' = strays \ {f}
      BY <1>9 DEF StrayAnswered
    <2> HIDE DEF a
    <2>2. Alike(memory', memory) /\ memory'.issued >= memory.issued
      BY <1>3, <1>5, <2>1 DEF Alike
    <2> QED BY <1>3, <2>1, <2>2
  <1> QED BY <1>7, <1>8, <1>9

(* A cancelled request fails: nobody knows. *)
LEMMA StrayFailsKeeps == ASSUME IInv, NEW f, StrayFails(f) PROVE IInv'
  <1>1. strays' = strays \ {f} /\ UNCHANGED <<memory, disk, reconciling, lapses, late>>
    BY DEF StrayFails
  <1>2. memory'.issued >= memory.issued /\ disk'.revision >= disk.revision
    BY <1>1, Now
  <1>3. \A q \in strays' : q \in strays
    BY <1>1
  <1>4. /\ Struct(memory', disk') /\ FreshIn(memory', lapses') /\ FreshOn(memory', disk', lapses')
        /\ reconciling' => Noticed(memory', disk', late')
    BY <1>1, Now
  <1> QED BY <1>2, <1>3, <1>4, PartsKeep

(* The fetch fails: the flag stands, and what was lost meanwhile is judged. *)
LEMMA FailKeeps == ASSUME IInv, Fail PROVE IInv'
  <1> DEFINE m == [memory EXCEPT !.flight = NoFlight, !.waiting = <<>>, !.invalidated = TRUE,
                                 !.failed = TRUE, !.unjudged = {}]
  <1>1. /\ memory.flight # NoFlight /\ UNCHANGED <<strays, reconciling, lapses, late>>
        /\ \/ memory.unjudged = {} /\ memory' = m /\ disk' = disk
           \/ memory.unjudged # {} /\ memory' = Judged(m, disk).memory /\ disk' = Judged(m, disk).disk
    BY DEF Fail
  <1>2. <<>> \in Seq(Calls) /\ memory.registered
    BY <1>1, Now, EmptySeq DEF Kept
  <1>3. /\ m \in Memories /\ m.flight = NoFlight /\ m.waiting = <<>>
        /\ m.unjudged = {} /\ m.invalidated = TRUE
        /\ m.registered = memory.registered /\ m.seq = memory.seq
        /\ m.issued = memory.issued /\ m.applied = memory.applied
        /\ m.revisionAt = memory.revisionAt /\ m.chain = memory.chain
        /\ m.told = memory.told
    BY <1>2, Now DEF Memories
  <1> HIDE DEF m
  <1>4. Struct(m, disk)
    BY <1>2, <1>3, Now DEF Struct, Kept
  <1>5. FreshIn(m, lapses) /\ FreshOn(m, disk, lapses)
    BY <1>1, <1>3, Now DEF FreshIn, FreshOn, Excuse, NoFlight
  <1>6. CASE memory.unjudged = {} /\ memory' = m /\ disk' = disk
    <2>1. reconciling => Noticed(m, disk, late)
      BY <1>3, <1>6, Now DEF Noticed, Listed
    <2> QED BY <1>1, <1>3, <1>4, <1>5, <1>6, <2>1, Now, PlainStep
  <1>7. CASE memory' = Judged(m, disk).memory /\ disk' = Judged(m, disk).disk
    <2>1. /\ Struct(memory', disk')
          /\ FreshIn(memory', lapses) /\ FreshOn(memory', disk', lapses)
          /\ \A lt : Noticed(memory', disk', lt)
          /\ memory'.issued >= m.issued /\ disk'.revision = disk.revision
      <3>1. PICK l, d : l = lapses /\ d = disk
        OBVIOUS
      <3>2. m.registered
        BY <1>2, <1>3
      <3>3. LET j == Judged(m, d) IN
            /\ Struct(j.memory, j.disk)
            /\ FreshIn(j.memory, l) /\ FreshOn(j.memory, j.disk, l)
            /\ \A lt : Noticed(j.memory, j.disk, lt)
            /\ j.memory.issued >= m.issued /\ j.disk.revision = d.revision
        BY <1>3, <1>4, <1>5, <3>1, <3>2, JudgedKeeps
      <3> QED BY <1>7, <3>1, <3>3
    <2>2. memory'.issued >= memory.issued /\ disk'.revision >= disk.revision
      BY <1>3, <2>1, Now
    <2> QED BY <1>1, <2>1, <2>2, PlainStep
  <1> QED BY <1>1, <1>6, <1>7

(* A row is destroyed: the query is told when it is registered. *)
LEMMA DestroyKeeps == ASSUME IInv, NEW r \in 1 .. Pages, Destroy(r) PROVE IInv'
  <1> DEFINE gone == disk.gone \cup {r}
             d == [disk EXCEPT !.gone = gone]
  <1>1. /\ r \in disk.landed \ disk.gone /\ UNCHANGED <<strays, reconciling, lapses, late>>
        /\ \/ (~reconciling \/ ~memory.registered) /\ disk' = d /\ UNCHANGED memory
           \/ /\ reconciling /\ memory.registered /\ memory.flight # NoFlight
              /\ memory' = [memory EXCEPT !.unjudged = memory.unjudged \cup {r}] /\ disk' = d
           \/ /\ reconciling /\ memory.registered /\ memory.flight = NoFlight
              /\ memory' = Judged(memory, d).memory /\ disk' = Judged(memory, d).disk
    BY DEF Destroy
  <1>2. gone \in SUBSET (1 .. Pages) /\ gone \subseteq disk.landed
    BY <1>1, Now DEF Disks, Dated
  <1>3. gone \subseteq disk.gone \cup {r}
    OBVIOUS
  <1> HIDE DEF gone
  <1>4. /\ d \in Disks /\ d.gone = gone /\ d.record = disk.record /\ d.mark = disk.mark
        /\ d.revision = disk.revision /\ d.landed = disk.landed
    BY <1>2, Now DEF Disks
  <1> HIDE DEF d
  <1>5. Struct(memory, d)
    <2>1. Dated(d)
      BY <1>2, <1>4, Now DEF Dated
    <2> QED BY <1>4, <2>1, Now, DiskKeeps
  <1>6. FreshIn(memory, lapses) /\ FreshOn(memory, d, lapses)
    BY <1>4, Now DEF FreshOn
  <1>7. d.revision >= disk.revision /\ memory.issued >= memory.issued
    BY <1>4, Now
  <1>8. CASE (~reconciling \/ ~memory.registered) /\ disk' = d /\ UNCHANGED memory
    <2>1. ~memory.registered => Listed(memory) = {}
      BY Now DEF Kept, Listed, NoChain
    <2>2. reconciling => Noticed(memory', disk', late)
      BY <1>8, <2>1 DEF Noticed
    <2> QED BY <1>1, <1>5, <1>6, <1>7, <1>8, <2>2, PlainStep
  <1>9. CASE /\ reconciling /\ memory.registered /\ memory.flight # NoFlight
             /\ memory' = [memory EXCEPT !.unjudged = memory.unjudged \cup {r}] /\ disk' = d
    <2>1. memory.unjudged \cup {r} \in SUBSET (1 .. Pages)
      BY Now, Fields
    <2>2. /\ memory' \in Memories /\ memory'.unjudged = memory.unjudged \cup {r}
          /\ memory'.issued = memory.issued
          /\ memory'.seq = memory.seq /\ memory'.applied = memory.applied
          /\ memory'.registered = memory.registered
          /\ memory'.mounted = memory.mounted /\ memory'.flight = memory.flight
          /\ memory'.waiting = memory.waiting /\ memory'.revisionAt = memory.revisionAt
          /\ memory'.chain = memory.chain
          /\ memory'.invalidated = memory.invalidated /\ memory'.dirty = memory.dirty
          /\ memory'.told = memory.told
      BY <1>9, <2>1, Now DEF Memories
    <2>3. Struct(memory', d)
      BY <1>5, <1>9, <2>2 DEF Struct, Kept, Flying, InAir
    <2>4. FreshIn(memory', lapses) /\ FreshOn(memory', d, lapses)
      BY <1>6, <2>2 DEF FreshIn, FreshOn, Excuse, Served
    <2>5. Noticed(memory', d, late)
      <3>1. Listed(memory') = Listed(memory)
        BY <2>2 DEF Listed
      <3>2. Noticed(memory, disk, late)
        BY <1>9, Now
      <3> QED BY <1>3, <1>4, <2>2, <3>1, <3>2 DEF Noticed
    <2>6. memory'.issued >= memory.issued
      BY <2>2, Now
    <2> QED BY <1>1, <1>7, <1>9, <2>3, <2>4, <2>5, <2>6, PlainStep
  <1>10. CASE /\ memory.registered /\ memory.flight = NoFlight
              /\ memory' = Judged(memory, d).memory /\ disk' = Judged(memory, d).disk
    <2>1. PICK l, m : l = lapses /\ m = memory
      OBVIOUS
    <2>2. LET j == Judged(m, d) IN
          /\ Struct(j.memory, j.disk)
          /\ FreshIn(j.memory, l) /\ FreshOn(j.memory, j.disk, l)
          /\ \A lt : Noticed(j.memory, j.disk, lt)
          /\ j.memory.issued >= m.issued /\ j.disk.revision = d.revision
      BY <1>5, <1>6, <1>10, <2>1, JudgedKeeps
    <2>3. /\ Struct(memory', disk')
          /\ FreshIn(memory', lapses) /\ FreshOn(memory', disk', lapses)
          /\ \A lt : Noticed(memory', disk', lt)
          /\ memory'.issued >= memory.issued /\ disk'.revision >= disk.revision
      BY <1>7, <1>10, <2>1, <2>2
    <2> QED BY <1>1, <2>3, PlainStep
  <1> QED BY <1>1, <1>8, <1>9, <1>10

(* What a refresh leaves of the memory when it cancels the fetch. *)
Freed(m) ==
    [m EXCEPT !.flight = NoFlight, !.waiting = <<>>, !.unjudged = {},
              !.invalidated = IF m.flight = NoFlight THEN m.invalidated ELSE m.flight.before]

(* A cancelled fetch undoes a flag: that is the lapse, and it is recorded. *)
LEMMA FreedKeeps ==
  ASSUME NEW m, NEW d, NEW l, NEW k, Struct(m, d), m.registered, FreshIn(m, l), FreshOn(m, d, l),
         k = IF m.invalidated /\ ~Freed(m).invalidated THEN l \cup {"reverted"} ELSE l
  PROVE  LET s == Freed(m) IN
         /\ Struct(s, d) /\ s.registered /\ s.flight = NoFlight /\ s.chain = m.chain
         /\ s.issued = m.issued /\ s.told = m.told
         /\ FreshIn(s, k) /\ FreshOn(s, d, k)
         /\ \A lt : Noticed(m, d, lt) => Noticed(s, d, lt \cup m.unjudged)
  <1> DEFINE s == Freed(m)
             flag == IF m.flight = NoFlight THEN m.invalidated ELSE m.flight.before
  <1>1. m \in Memories /\ flag \in BOOLEAN /\ <<>> \in Seq(Calls) /\ Kept(m, d)
    BY Fields, EmptySeq DEF Struct, Requests
  <1>2. s = [m EXCEPT !.flight = NoFlight, !.waiting = <<>>, !.unjudged = {}, !.invalidated = flag]
    BY DEF Freed
  <1>3. k = IF m.invalidated /\ ~s.invalidated THEN l \cup {"reverted"} ELSE l
    OBVIOUS
  <1> HIDE DEF flag, s
  <1>4. /\ s \in Memories /\ s.flight = NoFlight /\ s.waiting = <<>> /\ s.unjudged = {}
        /\ s.invalidated = flag
        /\ s.registered = m.registered /\ s.mounted = m.mounted /\ s.seq = m.seq /\ s.issued = m.issued
        /\ s.applied = m.applied /\ s.revisionAt = m.revisionAt /\ s.chain = m.chain
        /\ s.dirty = m.dirty /\ s.told = m.told
    BY <1>1, <1>2 DEF Memories
  <1>5. Struct(s, d)
    BY <1>4 DEF Struct, Kept
  <1>6. Excuse(m, l) => Excuse(s, k)
    BY <1>3, <1>4 DEF Excuse, NoFlight
  <1>7. m.invalidated /\ ~s.invalidated => Excuse(s, k)
    BY <1>3, <1>4 DEF Excuse, NoFlight
  <1>8. FreshIn(s, k) /\ FreshOn(s, d, k)
    BY <1>4, <1>6, <1>7 DEF FreshIn, FreshOn
  <1>9. \A lt : Noticed(m, d, lt) => Noticed(s, d, lt \cup m.unjudged)
    BY <1>4 DEF Noticed, Listed
  <1> QED BY <1>4, <1>5, <1>8, <1>9 DEF s

(* The call whose fetch a refresh cancels goes on with what is cached. *)
LEMMA OpenerKeeps ==
  ASSUME NEW m, NEW d, NEW l, NEW call \in Calls, Continue(<<call>>, m, d),
         Struct(m, d), m.registered, call.revision <= d.revision,
         FreshIn(m, l), FreshOn(m, d, l), m.invalidated \/ m.chain # NoChain
  PROVE  /\ Struct(memory', disk') /\ FreshIn(memory', l) /\ FreshOn(memory', disk', l)
         /\ \A lt : Noticed(m, d, lt) => Noticed(memory', disk', lt)
         /\ memory'.issued >= m.issued /\ disk'.revision = d.revision
  <1> DEFINE calls == <<call>>
  <1>1. calls \in Seq(Calls) /\ \A i \in DOMAIN calls : calls[i].revision <= d.revision
    OBVIOUS
  <1>2. ~m.invalidated => m.chain.last = m.told \/ Excuse(m, l)
    BY DEF FreshIn
  <1>3. Continue(calls, m, d)
    OBVIOUS
  <1> HIDE DEF calls
  <1> QED BY <1>1, <1>2, <1>3, ContinueKeeps

(* A refresh cancels, judges what waited to be judged, and starts again. *)
LEMMA RefreshKeeps == ASSUME IInv, Refresh PROVE IInv'
  <1> DEFINE flight == memory.flight
             free == Freed(memory)
             j == IF memory.failed /\ memory.unjudged # {} THEN Judged(free, disk)
                  ELSE [memory |-> free, disk |-> disk]
             opener == IF flight.by = "run" THEN <<Head(memory.waiting)>> ELSE <<>>
  <1>1. /\ memory.registered /\ reconciling' = reconciling
        /\ strays' = IF flight = NoFlight THEN strays ELSE strays \cup {flight}
        /\ lapses' = IF memory.invalidated /\ ~free.invalidated THEN lapses \cup {"reverted"} ELSE lapses
        /\ late' = IF memory.failed THEN late ELSE late \cup memory.unjudged
        /\ \/ memory' = Run(j.memory, j.disk) /\ disk' = j.disk
           \/ /\ opener # <<>> /\ memory.chain # NoChain
              /\ Continue(opener, Run(j.memory, j.disk), j.disk)
    BY DEF Refresh, Ready, Freed
  <1>2. PICK m, d, l, k : m = memory /\ d = disk /\ l = lapses /\ k = lapses'
    OBVIOUS
  <1>3. /\ Struct(free, disk) /\ free.registered /\ free.flight = NoFlight /\ free.chain = memory.chain
        /\ free.issued = memory.issued /\ free.told = memory.told
        /\ FreshIn(free, k) /\ FreshOn(free, disk, k)
        /\ \A lt : Noticed(memory, disk, lt) => Noticed(free, disk, lt \cup memory.unjudged)
    <2>1. k = IF m.invalidated /\ ~Freed(m).invalidated THEN l \cup {"reverted"} ELSE l
      BY <1>1, <1>2
    <2>2. Struct(m, d) /\ m.registered /\ FreshIn(m, l) /\ FreshOn(m, d, l)
      BY <1>1, <1>2, Now
    <2>3. LET s == Freed(m) IN
          /\ Struct(s, d) /\ s.registered /\ s.flight = NoFlight /\ s.chain = m.chain
          /\ s.issued = m.issued /\ s.told = m.told
          /\ FreshIn(s, k) /\ FreshOn(s, d, k)
          /\ \A lt : Noticed(m, d, lt) => Noticed(s, d, lt \cup m.unjudged)
      BY ONLY <2>1, <2>2, FreedKeeps
    <2> QED BY <1>2, <2>3
  <1> HIDE DEF free
  <1>4. /\ Struct(j.memory, j.disk) /\ j.memory.registered
        /\ FreshIn(j.memory, k) /\ FreshOn(j.memory, j.disk, k)
        /\ reconciling => Noticed(j.memory, j.disk, late')
        /\ j.memory.issued >= memory.issued /\ j.disk.revision = disk.revision
        /\ j.memory.invalidated \/ j.memory.chain = memory.chain
    <2>1. CASE memory.failed /\ memory.unjudged # {}
      <3>1. PICK s : s = free
        OBVIOUS
      <3>2. LET h == Judged(s, d) IN
            /\ Struct(h.memory, h.disk) /\ h.memory.registered
            /\ FreshIn(h.memory, k) /\ FreshOn(h.memory, h.disk, k)
            /\ \A lt : Noticed(h.memory, h.disk, lt)
            /\ h.memory.issued >= s.issued /\ h.disk.revision = d.revision /\ h.memory.told = s.told
            /\ h.memory.invalidated \/ h.memory.chain = s.chain
        BY <1>2, <1>3, <3>1, JudgedKeeps
      <3>3. j = Judged(s, d)
        BY <1>2, <2>1, <3>1
      <3> HIDE DEF j
      <3> QED BY <1>2, <1>3, <3>1, <3>2, <3>3
    <2>2. CASE ~(memory.failed /\ memory.unjudged # {})
      <3>1. j = [memory |-> free, disk |-> disk]
        BY <2>2
      <3>2. j.memory = free /\ j.disk = disk
        BY <3>1
      <3>3. reconciling => Noticed(free, disk, late')
        <4>1. reconciling => Noticed(free, disk, late \cup memory.unjudged)
          BY <1>3, Now
        <4>2. late \cup memory.unjudged = late'
          BY <1>1, <2>2
        <4> QED BY <4>1, <4>2
      <3> HIDE DEF j
      <3> QED BY <1>3, <3>2, <3>3, Now
    <2> QED BY <2>1, <2>2
  <1> HIDE DEF j
  <1>5. PICK a, e, r : a = j.memory /\ e = j.disk /\ r = Run(a, e)
    OBVIOUS
  <1>6. /\ Struct(r, e) /\ Same(r, a) /\ r.flight # NoFlight /\ Served(r.waiting, r) # {}
        /\ \A lt : Noticed(a, e, lt) => Noticed(r, e, lt)
    BY <1>4, <1>5, RunKeeps
  <1>7. FreshIn(r, k) /\ FreshOn(r, e, k)
    BY <1>4, <1>5, <1>6, FreshStays
  <1>8. /\ r.issued >= memory.issued /\ r.registered /\ r.chain = a.chain /\ r.invalidated = a.invalidated
        /\ reconciling => Noticed(r, e, late')
    <2>1. r.issued >= a.issued /\ r.issued \in Nat /\ a.issued \in Nat
      BY <1>4, <1>5, <1>6, Fields DEF Same, Struct
    <2>2. r.registered /\ r.chain = a.chain /\ r.invalidated = a.invalidated
      BY <1>4, <1>5, <1>6 DEF Same
    <2>3. r.issued >= memory.issued
      BY <1>4, <1>5, <2>1, Now
    <2> QED BY <1>4, <1>5, <1>6, <2>2, <2>3
  <1>9. SUFFICES /\ Struct(memory', disk') /\ FreshIn(memory', k) /\ FreshOn(memory', disk', k)
                 /\ reconciling => Noticed(memory', disk', late')
                 /\ memory'.issued >= memory.issued /\ disk'.revision = disk.revision
    <2>1. flight # NoFlight => flight \in Requests /\ InAir(flight, memory, disk)
      BY Now, Fields DEF Kept, Flying
    <2>2. flight # NoFlight => InAir(flight, memory', disk')
      <3>1. /\ memory.issued \in Nat /\ memory'.issued \in Nat
            /\ disk.revision \in Nat /\ disk'.revision \in Nat
        BY <1>9, Now, Fields DEF Struct, Disks
      <3>2. flight # NoFlight => flight.issued \in Nat /\ flight.revision \in Nat
        BY <2>1 DEF Requests
      <3> QED BY <1>9, <2>1, <3>1, <3>2 DEF InAir
    <2>3. \A q \in strays' : q \in strays \/ (q \in Requests /\ InAir(q, memory', disk'))
      BY <1>1, <2>1, <2>2
    <2>4. disk'.revision >= disk.revision
      BY <1>9, Now
    <2> QED BY <1>1, <1>2, <1>9, <2>3, <2>4, PartsKeep
  <1>10. CASE memory' = Run(j.memory, j.disk) /\ disk' = j.disk
    BY <1>4, <1>5, <1>6, <1>7, <1>8, <1>10
  <1>11. CASE /\ opener # <<>> /\ memory.chain # NoChain
              /\ Continue(opener, Run(j.memory, j.disk), j.disk)
    <2> DEFINE call == Head(memory.waiting)
    <2>1. flight.by = "run" /\ opener = <<call>>
      BY <1>11
    <2>2. /\ memory.waiting # <<>> /\ memory.waiting \in Seq(Calls)
          /\ \A i \in DOMAIN memory.waiting : memory.waiting[i].revision <= disk.revision
      BY <2>1, FlightNow DEF Flying
    <2>3. call \in Calls /\ call.revision <= disk.revision
      <3>1. call = memory.waiting[1] /\ 1 \in DOMAIN memory.waiting /\ call \in Calls
        BY <2>2
      <3> QED BY <2>2, <3>1
    <2>4. PICK c : c = call
      OBVIOUS
    <2>5. Continue(<<c>>, r, e)
      BY <1>5, <1>11, <2>1, <2>4
    <2> HIDE DEF call, opener, flight
    <2>6. c \in Calls /\ c.revision <= e.revision
      BY <1>4, <1>5, <2>3, <2>4
    <2>7. r.invalidated \/ r.chain # NoChain
      BY <1>4, <1>5, <1>8, <1>11
    <2>8. /\ Struct(memory', disk') /\ FreshIn(memory', k) /\ FreshOn(memory', disk', k)
          /\ \A lt : Noticed(r, e, lt) => Noticed(memory', disk', lt)
          /\ memory'.issued >= r.issued /\ disk'.revision = e.revision
      BY <1>6, <1>7, <1>8, <2>5, <2>6, <2>7, OpenerKeeps
    <2>9. memory'.issued >= memory.issued
      <3>1. memory'.issued \in Nat /\ r.issued \in Nat
        BY <1>6, <2>8, Fields DEF Struct
      <3> QED BY <1>8, <2>8, <3>1, Now
    <2> QED BY <1>4, <1>5, <1>8, <2>8, <2>9
  <1> QED BY <1>1, <1>10, <1>11

(* Storage is told first: a record that is there is marked.                *)
LEMMA MarkedKeeps ==
  ASSUME NEW d \in Disks, Dated(d)
  PROVE  LET e == MarkedOnDisk(d) IN
         /\ e \in Disks /\ Dated(e) /\ e.revision >= d.revision /\ e.record = d.record /\ e.gone = d.gone
         /\ e.record = NoRecord \/ e.mark > e.record.revision
  <1> DEFINE n == d.revision + 1
  <1>1. n \in Nat /\ n > d.revision /\ d.revision \in Nat /\ d.record.revision \in Nat
    BY DEF Disks, Records
  <1>2. CASE d.record = NoRecord
    BY <1>1, <1>2 DEF MarkedOnDisk
  <1>3. CASE d.record # NoRecord
    <2>1. MarkedOnDisk(d) = [d EXCEPT !.revision = n, !.mark = n]
      BY <1>3 DEF MarkedOnDisk
    <2> DEFINE e == [d EXCEPT !.revision = n, !.mark = n]
    <2> HIDE DEF n
    <2>2. /\ e \in Disks /\ e.revision = n /\ e.mark = n /\ e.record = d.record
          /\ e.landed = d.landed /\ e.gone = d.gone
      BY <1>1 DEF Disks
    <2> HIDE DEF e
    <2>3. Dated(e) /\ e.revision >= d.revision /\ e.mark > e.record.revision
      <3>1. n \in Nat /\ n > d.revision /\ d.revision \in Nat /\ d.record.revision \in Nat
        BY <1>1
      <3>2. d.record.revision <= d.revision /\ d.gone \subseteq d.landed
        BY DEF Dated
      <3> QED BY <2>2, <3>1, <3>2 DEF Dated
    <2> QED BY <2>1, <2>2, <2>3 DEF e
  <1> QED BY <1>2, <1>3

(* Telling the bucket: what is in the air was asked for before, and the    *)
(* chain is flagged until something asked for later has landed.            *)
LEMMA ToldKeeps ==
  ASSUME NEW m, NEW d, NEW l, NEW n \in Nat, Struct(m, d),
         FreshOn([m EXCEPT !.told = n], d, l),
         m.mounted \/ d.record = NoRecord \/ d.mark > d.record.revision
  PROVE  LET s == Told([m EXCEPT !.told = n], d) IN
         /\ Struct(s, d) /\ FreshIn(s, l) /\ FreshOn(s, d, l) /\ s.issued >= m.issued
         /\ \A lt : Noticed(m, d, lt) => Noticed(s, d, lt)
  <1> DEFINE t == [m EXCEPT !.told = n]
             flagged == [t EXCEPT !.seq = t.seq + 1, !.invalidated = TRUE]
  <1>1. m \in Memories /\ m.issued \in Nat /\ m.seq \in Nat /\ m.mounted \in BOOLEAN
        /\ m.registered \in BOOLEAN /\ Kept(m, d)
    BY Fields DEF Struct
  <1>2. /\ t \in Memories /\ t.told = n
        /\ t.registered = m.registered /\ t.mounted = m.mounted /\ t.seq = m.seq
        /\ t.applied = m.applied /\ t.issued = m.issued /\ t.flight = m.flight
        /\ t.waiting = m.waiting /\ t.revisionAt = m.revisionAt /\ t.dirty = m.dirty
        /\ t.unjudged = m.unjudged /\ t.chain = m.chain /\ t.invalidated = m.invalidated
    BY <1>1 DEF Memories
  <1>3. Told(t, d) = IF ~m.registered THEN t ELSE IF m.mounted THEN Run(flagged, d) ELSE flagged
    BY <1>2 DEF Told
  <1>4. FreshOn(t, d, l) /\ (m.mounted \/ d.record = NoRecord \/ d.mark > d.record.revision)
    OBVIOUS
  <1> DEFINE q == t.seq + 1
  <1>5. q \in Nat /\ q = m.seq + 1
    BY <1>1, <1>2
  <1> HIDE DEF t, q
  <1>6. flagged = [t EXCEPT !.seq = q, !.invalidated = TRUE]
    BY DEF q
  <1> HIDE DEF flagged
  <1>7. /\ flagged \in Memories /\ flagged.told = n /\ flagged.seq = m.seq + 1 /\ flagged.invalidated = TRUE
        /\ flagged.registered = m.registered /\ flagged.mounted = m.mounted
        /\ flagged.applied = m.applied /\ flagged.issued = m.issued /\ flagged.flight = m.flight
        /\ flagged.waiting = m.waiting /\ flagged.revisionAt = m.revisionAt /\ flagged.dirty = m.dirty
        /\ flagged.unjudged = m.unjudged /\ flagged.chain = m.chain
    BY <1>2, <1>5, <1>6 DEF Memories
  <1>8. CASE ~m.registered
    <2>1. Struct(t, d)
      BY <1>2, <1>8 DEF Struct, Kept
    <2>2. FreshIn(t, l)
      BY <1>1, <1>2, <1>8 DEF Kept, FreshIn
    <2>3. \A lt : Noticed(m, d, lt) => Noticed(t, d, lt)
      BY <1>2 DEF Noticed, Listed
    <2>4. t.issued >= m.issued
      BY <1>1, <1>2
    <2> QED BY <1>3, <1>4, <1>8, <2>1, <2>2, <2>3, <2>4 DEF t
  <1>9. CASE m.registered
    <2>1. m.flight # NoFlight /\ Flying(m, d) => Flying(flagged, d)
      <3>1. m.flight # NoFlight => m.flight.seq \in Nat
        BY <1>1, Fields DEF Requests
      <3>2. m.flight # NoFlight /\ m.flight.seq <= m.seq => m.flight.seq <= m.seq + 1 /\ m.flight.seq # m.seq + 1
        BY <1>1, <3>1
      <3> QED BY <1>7, <3>2 DEF Flying, InAir
    <2>2. Struct(flagged, d)
      BY <1>7, <1>9, <2>1 DEF Struct, Kept
    <2>3. FreshIn(flagged, l)
      BY <1>7 DEF FreshIn
    <2>4. \A lt : Noticed(m, d, lt) => Noticed(flagged, d, lt)
      BY <1>7 DEF Noticed, Listed
    <2>5. CASE m.mounted
      <3> DEFINE s == Run(flagged, d)
      <3>1. /\ Struct(s, d) /\ Same(s, flagged) /\ Served(s.waiting, s) # {}
            /\ \A lt : Noticed(flagged, d, lt) => Noticed(s, d, lt)
        BY <1>7, <1>9, <2>2, RunKeeps
      <3>2. FreshIn(s, l)
        BY <2>3, <3>1, FreshStays
      <3> HIDE DEF s
      <3>3. s.told = n /\ s.issued >= m.issued
        BY <1>7, <3>1 DEF Same
      <3>4. FreshOn(s, d, l)
        BY <1>2, <1>4, <3>1, <3>3 DEF FreshOn, Excuse
      <3>5. Told(t, d) = s
        BY <1>3, <1>9, <2>5 DEF s
      <3> QED BY <2>4, <3>1, <3>2, <3>3, <3>4, <3>5 DEF t
    <2>6. CASE ~m.mounted
      <3>1. FreshOn(flagged, d, l)
        <4>1. d.record = NoRecord \/ d.mark > d.record.revision
          BY <1>4, <2>6
        <4>2. d.mark > d.record.revision => ~(d.mark <= d.record.revision)
          BY DEF Struct, Disks, Records
        <4> QED BY <4>1, <4>2 DEF FreshOn
      <3>2. Told(t, d) = flagged
        BY <1>3, <1>9, <2>6
      <3>3. flagged.issued >= m.issued
        BY <1>1, <1>7
      <3> QED BY <2>2, <2>3, <2>4, <3>1, <3>2, <3>3 DEF t
    <2> QED BY <2>5, <2>6
  <1> QED BY <1>1, <1>8, <1>9

(* An invalidation: on disk first, then in memory.                         *)
LEMMA InvalidateKeeps == ASSUME IInv, Invalidate PROVE IInv'
  <1>1. /\ disk' = MarkedOnDisk(disk)
        /\ memory' = Told([memory EXCEPT !.told = memory.told + 1], disk')
        /\ UNCHANGED <<strays, reconciling, lapses, late>>
    BY DEF Invalidate
  <1>2. /\ disk' \in Disks /\ Dated(disk') /\ disk'.revision >= disk.revision
        /\ disk'.record = disk.record /\ disk'.gone = disk.gone
        /\ disk'.record = NoRecord \/ disk'.mark > disk'.record.revision
    BY <1>1, Now, MarkedKeeps
  <1>3. Struct(memory, disk')
    BY <1>2, Now, DiskKeeps
  <1>4. PICK m, d, l, n : m = memory /\ d = disk' /\ l = lapses /\ n = memory.told + 1
    OBVIOUS
  <1>5. n \in Nat
    BY <1>4, Now
  <1>6. FreshOn([m EXCEPT !.told = n], d, l)
    <2>1. d.mark > d.record.revision => ~(d.mark <= d.record.revision)
      BY <1>2, <1>4 DEF Disks, Records
    <2> QED BY <1>2, <1>4, <2>1 DEF FreshOn
  <1>7. LET s == Told([m EXCEPT !.told = n], d) IN
        /\ Struct(s, d) /\ FreshIn(s, l) /\ FreshOn(s, d, l) /\ s.issued >= m.issued
        /\ \A lt : Noticed(m, d, lt) => Noticed(s, d, lt)
    BY <1>2, <1>3, <1>4, <1>5, <1>6, ToldKeeps
  <1>8. reconciling => Noticed(memory, disk', late)
    BY <1>2, Now DEF Noticed
  <1> QED BY <1>1, <1>2, <1>4, <1>7, <1>8, PlainStep

(* A reader returns from the background: memory alone is told.             *)
LEMMA ResumeKeeps == ASSUME IInv, Resume PROVE IInv'
  <1>1. /\ memory.mounted /\ memory' = Told(memory, disk) /\ disk' = disk
        /\ UNCHANGED <<strays, reconciling, lapses, late>>
    BY DEF Resume
  <1>2. PICK m, d, l, n : m = memory /\ d = disk /\ l = lapses /\ n = memory.told
    OBVIOUS
  <1>3. [m EXCEPT !.told = n] = m /\ n \in Nat
    BY <1>2, Now DEF Memories
  <1>4. Struct(m, d) /\ FreshOn(m, d, l) /\ m.mounted
    BY <1>1, <1>2, Now
  <1>5. LET s == Told([m EXCEPT !.told = n], d) IN
        /\ Struct(s, d) /\ FreshIn(s, l) /\ FreshOn(s, d, l) /\ s.issued >= m.issued
        /\ \A lt : Noticed(m, d, lt) => Noticed(s, d, lt)
    BY <1>3, <1>4, ToldKeeps
  <1>6. disk'.revision >= disk.revision
    BY <1>1, Now
  <1> QED BY <1>1, <1>2, <1>3, <1>5, <1>6, Now, PlainStep

(* A session that starts.                                                  *)
LEMMA StartedKeeps ==
  ASSUME NEW m, NEW d, NEW e \in Disks, NEW l, Struct(m, d), Dated(e),
         e.record = NoRecord \/ (FreshOn(m, d, l) /\ e = d)
  PROVE  LET s == [Started EXCEPT !.told = m.told] IN
         /\ Struct(s, e) /\ FreshIn(s, l) /\ FreshOn(s, e, l) /\ \A lt : Noticed(s, e, lt)
  <1> DEFINE s == [Started EXCEPT !.told = m.told]
  <1>1. m.told \in Nat
    BY Fields DEF Struct
  <1>2. NoChain \in Chains /\ <<>> \in Seq(Calls)
    BY NoChainTyped, EmptySeq
  <1>3. /\ s \in Memories /\ s.told = m.told /\ s.registered = FALSE /\ s.mounted = FALSE /\ s.seq = 0
        /\ s.issued = 0 /\ s.applied = 0 /\ s.revisionAt = -1 /\ s.chain = NoChain
        /\ s.flight = NoFlight /\ s.waiting = <<>> /\ s.dirty = FALSE /\ s.unjudged = {}
    BY <1>1, <1>2 DEF Started, Memories
  <1> HIDE DEF s
  <1>4. Struct(s, e)
    BY <1>3 DEF Struct, Kept, Disks
  <1>5. Excuse(m, l) => Excuse(s, l)
    BY <1>3 DEF Excuse, NoFlight
  <1>6. FreshIn(s, l) /\ FreshOn(s, e, l) /\ \A lt : Noticed(s, e, lt)
    BY <1>3, <1>5 DEF FreshIn, FreshOn, Noticed, Listed, NoChain
  <1> QED BY <1>4, <1>6 DEF s

(* The process dies: the record and its mark are what is left.             *)
LEMMA KillKeeps == ASSUME IInv, Kill PROVE IInv'
  <1>1. /\ memory' = [Started EXCEPT !.told = memory.told] /\ strays' = {}
        /\ UNCHANGED <<disk, lapses, late>>
    BY DEF Kill
  <1>2. /\ Struct(memory', disk) /\ FreshIn(memory', lapses) /\ FreshOn(memory', disk, lapses)
        /\ Noticed(memory', disk, late)
    BY <1>1, Now, StartedKeeps
  <1> QED BY <1>1, <1>2 DEF IInv, Core

(* A reset: nothing is left.                                               *)
LEMMA ResetKeeps == ASSUME IInv, Reset PROVE IInv'
  <1>1. /\ memory' = [Started EXCEPT !.told = memory.told] /\ strays' = {} /\ disk' = Blank
        /\ reconciling' = FALSE /\ UNCHANGED lapses
    BY DEF Reset
  <1>2. Blank \in Disks /\ Dated(Blank) /\ Blank.record = NoRecord
    BY NoChainTyped DEF Blank, Disks, Records, NoRecord, Dated
  <1>3. /\ Struct(memory', Blank) /\ FreshIn(memory', lapses) /\ FreshOn(memory', Blank, lapses)
    BY <1>1, <1>2, Now, StartedKeeps
  <1> QED BY <1>1, <1>3 DEF IInv, Core

(* Every step keeps the invariant.                                         *)
LEMMA NextKeeps == ASSUME IInv, [Next]_vars PROVE IInv'
  <1>1. CASE UNCHANGED vars
    BY <1>1 DEF vars, IInv, Core
  <1>2. CASE Next
    <2>1. ASSUME NEW f \in strays, StrayAnswered(f) \/ StrayFails(f) PROVE IInv'
      BY <2>1, StrayAnsweredKeeps, StrayFailsKeeps
    <2>2. ASSUME NEW r \in 1 .. Pages, Destroy(r) PROVE IInv'
      BY <2>2, DestroyKeeps
    <2> QED BY <1>2, <2>1, <2>2, ReadKeeps, MountKeeps, UnmountKeeps, FollowKeeps, FetchKeeps,
               NextPageKeeps, ScheduledKeeps, RefreshKeeps, AnsweredKeeps, NothingKeeps,
               ObserverKeeps, FailKeeps, InvalidateKeeps, ResumeKeeps, KillKeeps, ResetKeeps DEF Next
  <1> QED BY <1>1, <1>2

(* The inductive invariant.                                                *)
THEOREM FreshnessInvariant == Spec => []IInv
  <1>1. Init => IInv
    BY InitKeeps
  <1>2. IInv /\ [Next]_vars => IInv'
    BY NextKeeps
  <1> QED BY <1>1, <1>2, PTL DEF Spec

(* Every component in range.                                               *)
THEOREM InRange == Spec => []TypeOK
  <1>1. IInv => TypeOK
    <2> HAVE IInv
    <2>1. /\ memory.chain \in Chains /\ disk.mark \in 0 .. disk.revision
          /\ disk.landed \in SUBSET (1 .. Pages) /\ disk.gone \subseteq disk.landed
          /\ memory.applied \in 0 .. memory.issued /\ memory.seq \in Nat
      BY Now, Fields DEF Dated, Kept, Disks
    <2> QED BY <2>1 DEF TypeOK, Chains
  <1> QED BY <1>1, FreshnessInvariant, PTL

(* An unflagged chain was asked for after the last invalidation.           *)
THEOREM FreshIsAskedAlways == Spec => []FreshIsAsked
  <1>1. IInv => FreshIsAsked
    <2> HAVE IInv
    <2> QED BY Now DEF FreshIn, FreshIsAsked, Excuse
  <1> QED BY <1>1, FreshnessInvariant, PTL

(* So was a record that a restart would take for fresh.                    *)
THEOREM StoredIsRereadAlways == Spec => []StoredIsReread
  <1>1. IInv => StoredIsReread
    <2> HAVE IInv
    <2> QED BY Now DEF FreshOn, StoredIsReread, Excuse
  <1> QED BY <1>1, FreshnessInvariant, PTL

(* A registered query lists no row that is gone, the losses of a fetch     *)
(* that succeeded aside.                                                   *)
THEOREM LossIsNoticedAlways == Spec => []LossIsNoticed
  <1>1. IInv => LossIsNoticed
    <2> HAVE IInv
    <2> QED BY Now DEF Noticed, Listed, Kept, LossIsNoticed
  <1> QED BY <1>1, FreshnessInvariant, PTL

=============================================================================
