------------------------ MODULE EventRegistryProofs ------------------------
(***************************************************************************)
(* Theorems about the event registry, for any events, owners and bounds:   *)
(* an open handle of the transport is heard, a payload has no effect in a  *)
(* generation after the one it was subscribed in, and a slot somebody owns *)
(* is subscribed or will be.                                               *)
(*                                                                         *)
(* They rest on the stack of calls: what may run while a call of foreign   *)
(* code is in progress decides which fences are current when it returns,   *)
(* and which frame will see to a slot that is not served now.              *)
(***************************************************************************)
EXTENDS EventRegistryProps, TLAPS

-----------------------------------------------------------------------------
(* The types.                                                              *)

Fences   == [id : Nat, generation : Nat]
Attempts == [slot : Slots, runtime : Nat, epoch : Nat, token : Nat, opened : Nat]
Stored   == {NoHandle, Placeholder} \cup [kind : {"open"}, attempt : Attempts]
Runtimes == [id : Nat, fence : Fences, active : BOOLEAN, epoch : Nat, token : Nat, captured : Nat,
             stored : Stored, timer : BOOLEAN, gate : BOOLEAN, held : Nat]

Subscribing == [kind : {"subscribe"}, attempt : Attempts, by : {"acquire", "register", "retry", "restart"}]
Delivering  == [kind : {"deliver"}, slot : Slots, fence : Fences, opened : Nat,
                step : {"plan", "commit", "invalidate", "notify"}]
Acquiring   == [kind : {"acquire"}, owner : Owners, todo : SUBSET Slots]
Looping     == [kind : {"network", "restart"}, todo : SUBSET Slots]
Resetting   == [kind : {"reset"}]
Frames      == Subscribing \cup Delivering \cup Acquiring \cup Looping \cup Resetting

Typed ==
    /\ generation \in Nat \ {0} /\ refused \in BOOLEAN /\ online \in BOOLEAN
    /\ declared \in [Slots -> Nat]
    /\ fence \in [Slots -> Fences]
    /\ owners \in [Slots -> SUBSET Owners] /\ activeOwners \in SUBSET Owners
    /\ runtime \in [Slots -> Runtimes]
    /\ made \in [Slots -> Nat]
    /\ calls \in Seq(Frames)
    /\ opened \in SUBSET Attempts /\ handles \in SUBSET Attempts

-----------------------------------------------------------------------------
(* The inductive invariant.                                                *)

OnStack(c) == {c[i] : i \in 1 .. Len(c)}

(* A runtime has the fence of its slot; an active one has owners, and what *)
(* it captured is current only if its fence is, a refused reset aside.     *)
RuntimeKept(r, s) ==
    /\ r = NoRuntime \/ r.fence = fence[s]
    /\ r.id <= made[s]
    /\ r.fence.generation <= generation /\ r.captured <= generation
    /\ r.stored # NoHandle => r.active
    /\ r.active => owners[s] # {} /\ r.captured # 0 /\ r.fence.generation <= r.captured
    /\ r.active /\ r.captured = generation => r.fence.generation = generation \/ refused
    /\ r.held # 0 => r.fence.generation <= r.held /\ r.held <= generation

AttemptKept(a) ==
    /\ a.runtime <= made[a.slot] /\ a.opened <= generation
    /\ a.runtime = runtime[a.slot].id => runtime[a.slot].fence.generation <= a.opened

HandleKept(a) ==
    /\ runtime[a.slot].stored = Handle(a)
    /\ LeftBehind(a.slot) \/ /\ IsCurrentAttempt(runtime[a.slot], generation, a)
                             /\ fence[a.slot].generation = generation

(* A fence of an earlier generation is about to be replaced.               *)
Awaits(s, c) == \E f \in OnStack(c) : f.kind = "reset" \/ (f.kind = "restart" /\ s \in f.todo)
FenceKept(s) ==
    /\ fence[s].generation <= generation
    /\ s \in Known => fence[s].generation = generation \/ refused \/ Awaits(s, calls)

FrameKept(f) ==
    /\ f.kind = "acquire" => f.todo \subseteq Known
    /\ f.kind = "restart" => \A s \in f.todo : runtime[s] = NoRuntime
    /\ f.kind = "deliver" => f.fence.generation <= f.opened /\ f.opened <= generation

(* What may stand on what: a mount and the return of the network begin on  *)
(* an empty stack, and nothing but the transport and deliveries runs above *)
(* the restart of a reset.                                                 *)
Shaped(c) ==
    \A i \in 1 .. Len(c) :
        /\ c[i].kind \in {"acquire", "network"} => i = Len(c)
        /\ c[i].kind = "subscribe" /\ c[i].by = "acquire" => i < Len(c) /\ c[i + 1].kind = "acquire"
        /\ c[i].kind \notin {"subscribe", "deliver"} => \A j \in i + 1 .. Len(c) : c[j].kind # "restart"

SlotsKept == \A s \in Slots : RuntimeKept(runtime[s], s) /\ FenceKept(s)
Tracked   == (\A a \in opened : AttemptKept(a)) /\ (\A a \in handles : HandleKept(a))
StackKept == Shaped(calls) /\ \A f \in OnStack(calls) : FrameKept(f)

IInv == Typed /\ SlotsKept /\ Tracked /\ StackKept /\ NothingCrossesReset

-----------------------------------------------------------------------------
(* The stack.                                                              *)

\* What a call put on the stack adds to the calls in progress.
LEMMA PushStack ==
    ASSUME NEW c \in Seq(Frames), NEW f \in Frames
    PROVE  /\ <<f>> \o c \in Seq(Frames)
           /\ OnStack(<<f>> \o c) = {f} \cup OnStack(c)
           /\ <<f>> \o c # <<>> /\ Head(<<f>> \o c) = f /\ Tail(<<f>> \o c) = c
<1> DEFINE d == <<f>> \o c
<1>1. /\ d \in Seq(Frames) /\ Len(d) = Len(c) + 1 /\ d[1] = f
      /\ \A i \in 1 .. Len(c) : d[i + 1] = c[i]
  OBVIOUS
<1>2. ASSUME NEW g \in OnStack(d) PROVE g \in {f} \cup OnStack(c)
  <2>1. PICK i \in 1 .. Len(d) : g = d[i]
    BY <1>2 DEF OnStack
  <2>2. CASE i = 1
    BY <1>1, <2>1, <2>2
  <2>3. CASE i # 1
    <3>1. i - 1 \in 1 .. Len(c) /\ d[(i - 1) + 1] = c[i - 1]
      BY <1>1, <2>1, <2>3
    <3>2. g = c[i - 1]
      BY <2>1, <3>1
    <3> QED BY <3>1, <3>2 DEF OnStack
  <2> QED BY <2>2, <2>3
<1>3. ASSUME NEW g \in {f} \cup OnStack(c) PROVE g \in OnStack(d)
  <2>1. CASE g = f
    <3>1. 1 \in 1 .. Len(d) /\ g = d[1]
      BY <1>1, <2>1
    <3> QED BY <3>1 DEF OnStack
  <2>2. CASE g \in OnStack(c)
    <3>1. PICK i \in 1 .. Len(c) : g = c[i]
      BY <2>2 DEF OnStack
    <3>2. i + 1 \in 1 .. Len(d) /\ g = d[i + 1]
      BY <1>1, <3>1
    <3> QED BY <3>2 DEF OnStack
  <2> QED BY <1>3, <2>1, <2>2
<1>4. d # <<>> /\ Head(d) = f /\ Tail(d) = c
  OBVIOUS
<1> QED BY <1>1, <1>2, <1>3, <1>4

\* What is left when the topmost call ends.
LEMMA PopStack ==
    ASSUME NEW c \in Seq(Frames), c # <<>>
    PROVE  /\ Head(c) \in Frames /\ Tail(c) \in Seq(Frames)
           /\ OnStack(c) = {Head(c)} \cup OnStack(Tail(c))
<1>1. Head(c) \in Frames /\ Tail(c) \in Seq(Frames) /\ c = <<Head(c)>> \o Tail(c)
  OBVIOUS
<1> QED BY <1>1, PushStack

\* A frame that may stand on the stack keeps its shape.
LEMMA PushShape ==
    ASSUME NEW c \in Seq(Frames), NEW f \in Frames, Shaped(c),
           f.kind \in {"acquire", "network"} => c = <<>>,
           f.kind = "subscribe" /\ f.by = "acquire" => c # <<>> /\ Head(c).kind = "acquire",
           f.kind \notin {"subscribe", "deliver"} => \A g \in OnStack(c) : g.kind # "restart"
    PROVE  Shaped(<<f>> \o c)
<1> DEFINE d == <<f>> \o c
<1>1. /\ d \in Seq(Frames) /\ Len(d) = Len(c) + 1 /\ Len(c) \in Nat /\ d[1] = f
      /\ \A i \in 1 .. Len(c) : d[i + 1] = c[i]
  OBVIOUS
<1>2. \A i \in 2 .. Len(d) : i - 1 \in 1 .. Len(c) /\ d[i] = c[i - 1]
  BY <1>1
<1> SUFFICES ASSUME NEW i \in 1 .. Len(d)
             PROVE  /\ d[i].kind \in {"acquire", "network"} => i = Len(d)
                    /\ d[i].kind = "subscribe" /\ d[i].by = "acquire" =>
                           i < Len(d) /\ d[i + 1].kind = "acquire"
                    /\ d[i].kind \notin {"subscribe", "deliver"} =>
                           \A j \in i + 1 .. Len(d) : d[j].kind # "restart"
  BY DEF Shaped
<1> HIDE DEF d
<1>3. CASE i = 1
  <2>1. f.kind \in {"acquire", "network"} => Len(d) = 1
    BY <1>1
  <2>2. c # <<>> => Len(c) > 0 /\ Head(c) = c[1] /\ d[2] = c[1]
    BY <1>1
  <2>3. \A j \in 2 .. Len(d) : d[j] \in OnStack(c)
    BY <1>2 DEF OnStack
  <2> QED BY <1>1, <1>3, <2>1, <2>2, <2>3
<1>4. CASE i # 1
  <2>1. i - 1 \in 1 .. Len(c) /\ d[i] = c[i - 1]
    BY <1>1, <1>2, <1>4
  <2>2. d[i].kind \in {"acquire", "network"} => i = Len(d)
    BY <1>1, <2>1 DEF Shaped
  <2>3. d[i].kind = "subscribe" /\ d[i].by = "acquire" => i < Len(d) /\ d[i + 1].kind = "acquire"
    <3>1. i - 1 < Len(c) => i < Len(d) /\ d[i + 1] = c[(i - 1) + 1]
      BY <1>1, <2>1
    <3> QED BY <2>1, <3>1 DEF Shaped
  <2>4. ASSUME d[i].kind \notin {"subscribe", "deliver"}, NEW j \in i + 1 .. Len(d)
        PROVE  d[j].kind # "restart"
    <3>1. j - 1 \in (i - 1) + 1 .. Len(c) /\ d[j] = c[j - 1]
      BY <1>1, <1>2, <2>1
    <3> QED BY <2>1, <2>4, <3>1 DEF Shaped
  <2> QED BY <2>2, <2>3, <2>4
<1> QED BY <1>3, <1>4

\* The stack keeps its shape when its topmost call ends, and what stood on top
\* tells what is below.
LEMMA PopShape ==
    ASSUME NEW c \in Seq(Frames), c # <<>>, Shaped(c)
    PROVE  /\ Shaped(Tail(c))
           /\ Head(c).kind \in {"acquire", "network"} => Tail(c) = <<>>
           /\ Head(c).kind = "subscribe" /\ Head(c).by = "acquire" =>
                  Tail(c) # <<>> /\ Head(Tail(c)).kind = "acquire"
           /\ Head(c).kind \notin {"subscribe", "deliver"} =>
                  \A g \in OnStack(Tail(c)) : g.kind # "restart"
<1> DEFINE t == Tail(c)
<1>1. /\ t \in Seq(Frames) /\ Len(c) = Len(t) + 1 /\ Len(t) \in Nat /\ Head(c) = c[1]
      /\ \A i \in 1 .. Len(t) : t[i] = c[i + 1]
      /\ Len(t) = 0 => t = <<>>
      /\ Len(t) > 0 => t # <<>> /\ Head(t) = t[1]
  <2>1. t \in Seq(Frames) /\ Len(c) = Len(t) + 1 /\ Len(t) \in Nat /\ Head(c) = c[1]
    OBVIOUS
  <2>2. \A i \in 1 .. Len(t) : t[i] = c[i + 1]
    OBVIOUS
  <2> HIDE DEF t
  <2>3. /\ Len(t) = 0 => t = <<>>
        /\ Len(t) > 0 => t # <<>> /\ Head(t) = t[1]
    BY <2>1
  <2> QED BY <2>1, <2>2, <2>3
<1> HIDE DEF t
<1>2. Shaped(t)
  <2> SUFFICES ASSUME NEW i \in 1 .. Len(t)
               PROVE  /\ t[i].kind \in {"acquire", "network"} => i = Len(t)
                      /\ t[i].kind = "subscribe" /\ t[i].by = "acquire" =>
                             i < Len(t) /\ t[i + 1].kind = "acquire"
                      /\ t[i].kind \notin {"subscribe", "deliver"} =>
                             \A j \in i + 1 .. Len(t) : t[j].kind # "restart"
    BY DEF Shaped
  <2>1. i + 1 \in 1 .. Len(c) /\ t[i] = c[i + 1]
    BY <1>1
  <2>2. t[i].kind \in {"acquire", "network"} => i = Len(t)
    BY <1>1, <2>1 DEF Shaped
  <2>3. t[i].kind = "subscribe" /\ t[i].by = "acquire" => i < Len(t) /\ t[i + 1].kind = "acquire"
    <3>1. i + 1 < Len(c) => i < Len(t) /\ t[i + 1] = c[(i + 1) + 1]
      BY <1>1, <2>1
    <3> QED BY <2>1, <3>1 DEF Shaped
  <2>4. ASSUME t[i].kind \notin {"subscribe", "deliver"}, NEW j \in i + 1 .. Len(t)
        PROVE  t[j].kind # "restart"
    <3>1. j + 1 \in (i + 1) + 1 .. Len(c) /\ t[j] = c[j + 1]
      BY <1>1, <2>1
    <3> QED BY <2>1, <2>4, <3>1 DEF Shaped
  <2> QED BY <2>2, <2>3, <2>4
<1>3. 1 \in 1 .. Len(c)
  BY <1>1
<1>4. Head(c).kind \in {"acquire", "network"} => t = <<>>
  BY <1>1, <1>3 DEF Shaped
<1>5. Head(c).kind = "subscribe" /\ Head(c).by = "acquire" => t # <<>> /\ Head(t).kind = "acquire"
  BY <1>1, <1>3 DEF Shaped
<1>6. ASSUME Head(c).kind \notin {"subscribe", "deliver"}, NEW g \in OnStack(t)
      PROVE  g.kind # "restart"
  <2>1. PICK i \in 1 .. Len(t) : g = t[i]
    BY <1>6 DEF OnStack
  <2>2. i + 1 \in 2 .. Len(c) /\ g = c[i + 1]
    BY <1>1, <2>1
  <2> QED BY <1>1, <1>3, <1>6, <2>2 DEF Shaped
<1> QED BY <1>2, <1>4, <1>5, <1>6 DEF t

-----------------------------------------------------------------------------
(* The life cycle of one subscription.                                     *)

\* The kind of a frame says what it carries.
LEMMA FrameTypes ==
    ASSUME NEW f \in Frames
    PROVE  /\ f.kind = "subscribe" => f \in Subscribing
           /\ f.kind = "deliver" => f \in Delivering
           /\ f.kind = "acquire" => f \in Acquiring
           /\ f.kind \in {"network", "restart"} => f \in Looping
BY DEF Frames, Subscribing, Delivering, Acquiring, Looping, Resetting

LEMMA StoredTypes ==
    /\ NoHandle \in Stored /\ Placeholder \in Stored
    /\ \A a \in Attempts : Handle(a) \in Stored
BY DEF Stored, Handle

LEMMA FreshIsRuntime ==
    /\ NoRuntime \in Runtimes
    /\ \A n \in Nat, f \in Fences : Fresh(n, f) \in Runtimes
BY StoredTypes DEF Runtimes, Fences, Fresh, NoRuntime, NoFence

\* All but the waits and the handle.
SameUse(t, r) ==
    /\ t.id = r.id /\ t.fence = r.fence /\ t.active = r.active /\ t.captured = r.captured
    /\ t.epoch = r.epoch

\* The updates the life cycle makes of a runtime.
LEMMA UpdateWaits ==
    ASSUME NEW r \in Runtimes, NEW t, t = [r EXCEPT !.timer = FALSE, !.gate = FALSE]
    PROVE  t \in Runtimes /\ SameUse(t, r) /\ t.token = r.token /\ t.held = r.held /\ t.stored = r.stored
BY DEF Runtimes, SameUse

LEMMA UpdateHeld ==
    ASSUME NEW r \in Runtimes, NEW h \in Stored, NEW t, t = [r EXCEPT !.held = 0, !.stored = h]
    PROVE  t \in Runtimes /\ SameUse(t, r) /\ t.held = 0 /\ t.stored = h
BY DEF Runtimes, SameUse

LEMMA WithoutWaitFacts ==
    ASSUME NEW r \in Runtimes, NEW t, t = WithoutWait(r)
    PROVE  t \in Runtimes /\ SameUse(t, r) /\ t.token = r.token /\ t.held = r.held /\ t.stored = r.stored
BY UpdateWaits DEF WithoutWait

LEMMA DeactivatedFacts ==
    ASSUME NEW r \in Runtimes, NEW t, t = Deactivated(r)
    PROVE  t \in Runtimes /\ SameUse(t, r) /\ t.held = 0 /\ t.stored = NoHandle
<1>1. PICK w : w = WithoutWait(r)
  OBVIOUS
<1>2. w \in Runtimes /\ SameUse(w, r)
  BY <1>1, WithoutWaitFacts
<1>3. t = [w EXCEPT !.held = 0, !.stored = NoHandle]
  BY <1>1 DEF Deactivated
<1>4. t \in Runtimes /\ SameUse(t, w) /\ t.held = 0 /\ t.stored = NoHandle
  BY <1>2, <1>3, UpdateHeld, StoredTypes
<1> QED BY <1>2, <1>4 DEF SameUse

LEMMA StoppedFacts ==
    ASSUME NEW r \in Runtimes, NEW t, t = Stopped(r)
    PROVE  /\ t \in Runtimes /\ t.id = r.id /\ t.fence = r.fence /\ ~t.active
           /\ t.captured = r.captured /\ t.held = 0 /\ t.stored = NoHandle
<1>1. PICK d : d = Deactivated(r)
  OBVIOUS
<1>2. d \in Runtimes /\ SameUse(d, r) /\ d.held = 0 /\ d.stored = NoHandle
  BY <1>1, DeactivatedFacts
<1>3. PICK k \in Nat : t = [d EXCEPT !.active = FALSE, !.epoch = k]
  <2>1. d.epoch + 1 \in Nat
    BY <1>2 DEF Runtimes
  <2> QED BY <1>1, <2>1 DEF Stopped
<1>4. t \in Runtimes /\ t.id = d.id /\ t.fence = d.fence /\ ~t.active /\ t.captured = d.captured
      /\ t.held = d.held /\ t.stored = d.stored
  BY <1>2, <1>3 DEF Runtimes
<1> QED BY <1>2, <1>4 DEF SameUse

LEMMA ActivatedFacts ==
    ASSUME NEW r \in Runtimes, NEW n \in Nat, NEW t, t = Activated(r, n)
    PROVE  /\ t \in Runtimes /\ t.id = r.id /\ t.fence = r.fence /\ t.active
           /\ t.captured = n /\ t.held \in {0, r.held}
<1>1. PICK d : d = IF r.active THEN Deactivated(r) ELSE r
  OBVIOUS
<1>2. d \in Runtimes /\ SameUse(d, r) /\ d.held \in {0, r.held}
  BY <1>1, DeactivatedFacts DEF SameUse
<1>3. PICK k \in Nat : t = [d EXCEPT !.active = TRUE, !.epoch = k, !.captured = n]
  <2>1. d.epoch + 1 \in Nat
    BY <1>2 DEF Runtimes
  <2> QED BY <1>1, <2>1 DEF Activated
<1>4. t \in Runtimes /\ t.id = d.id /\ t.fence = d.fence /\ t.active
      /\ t.captured = n /\ t.held = d.held
  BY <1>2, <1>3 DEF Runtimes
<1> QED BY <1>2, <1>4 DEF SameUse

LEMMA OpeningFacts ==
    ASSUME NEW r \in Runtimes, NEW t, t = Opening(r)
    PROVE  t \in Runtimes /\ SameUse(t, r) /\ t.held = r.held /\ t.stored = Placeholder
<1>1. PICK w : w = WithoutWait(r)
  OBVIOUS
<1>2. w \in Runtimes /\ SameUse(w, r) /\ w.held = r.held
  BY <1>1, WithoutWaitFacts
<1>3. PICK k \in Nat : t = [w EXCEPT !.token = k, !.stored = Placeholder]
  <2>1. w.token + 1 \in Nat
    BY <1>2 DEF Runtimes
  <2> QED BY <1>1, <2>1 DEF Opening
<1>4. t \in Runtimes /\ SameUse(t, w) /\ t.held = w.held /\ t.stored = Placeholder
  BY <1>2, <1>3, StoredTypes DEF Runtimes, SameUse
<1> QED BY <1>2, <1>4 DEF SameUse

LEMMA FailingFacts ==
    ASSUME NEW r \in Runtimes, NEW b \in BOOLEAN, NEW t, t = Failing(r, b)
    PROVE  t \in Runtimes /\ SameUse(t, r) /\ t.token = r.token /\ t.held = r.held /\ t.stored = NoHandle
<1>1. PICK w : w = WithoutWait(r)
  OBVIOUS
<1>2. w \in Runtimes /\ SameUse(w, r) /\ w.token = r.token /\ w.held = r.held
  BY <1>1, WithoutWaitFacts
<1>3. t = [w EXCEPT !.stored = NoHandle, !.timer = b, !.gate = ~b]
  BY <1>1 DEF Failing
<1>4. t \in Runtimes /\ SameUse(t, w) /\ t.token = w.token /\ t.held = w.held /\ t.stored = NoHandle
  BY <1>2, <1>3, StoredTypes DEF Runtimes, SameUse
<1> QED BY <1>2, <1>4 DEF SameUse

LEMMA NoRuntimeFacts ==
    /\ NoRuntime.id = 0 /\ NoRuntime.fence = NoFence /\ ~NoRuntime.active /\ NoRuntime.captured = 0
    /\ NoRuntime.held = 0 /\ NoRuntime.stored = NoHandle
    /\ NoFence.generation = 0
BY DEF NoRuntime, Fresh, NoFence

\* The three kinds of a stored handle are different.
LEMMA HandleFacts ==
    ASSUME NEW a
    PROVE  /\ NoHandle # Placeholder /\ NoHandle # Handle(a) /\ Placeholder # Handle(a)
           /\ \A b : Handle(a) = Handle(b) => a = b
           /\ \A r : r.stored = Handle(a) => Released(r) = {a}
           /\ \A r : r.stored \in {NoHandle, Placeholder} => Released(r) = {}
BY DEF NoHandle, Placeholder, Handle, Released

-----------------------------------------------------------------------------
(* What a subscription does to the runtimes.                               *)

RuntimesKept == \A s \in Slots : RuntimeKept(runtime[s], s)

\* subscribeEntry for the active runtime of a slot, a new one or that which is
\* there: the others stay as they are, and the handle let go of is closed.
LEMMA SubscribeKeeps ==
    ASSUME Typed, Typed', RuntimesKept, Tracked,
           NEW s \in Slots, NEW r \in Runtimes,
           UNCHANGED <<generation, refused>>,
           \A q \in Slots \ {s} : fence'[q] = fence[q] /\ owners'[q] = owners[q] /\ made'[q] = made[q],
           runtime' = [runtime EXCEPT ![s] = Opening(r)],
           opened' = opened \cup {Attempt(s, Opening(r))},
           handles' = handles \ Released(runtime[s]),
           made[s] <= made'[s], r.id <= made'[s],
           r.id > made[s] \/ (r.id = runtime[s].id /\ r.fence = runtime[s].fence),
           generation \in Nat, r.active, r.captured = generation, generation # 0,
           r.fence = fence'[s], owners'[s] # {},
           r.fence.generation <= generation, r.fence.generation = generation \/ refused,
           r.held # 0 => r.fence.generation <= r.held /\ r.held <= generation
    PROVE  RuntimesKept' /\ Tracked'
<1> DEFINE o == Opening(r)
<1>1. /\ o \in Runtimes
      /\ o.id = r.id /\ o.fence = r.fence /\ o.active = r.active /\ o.captured = r.captured
      /\ o.held = r.held /\ o.stored = Placeholder
  BY OpeningFacts DEF SameUse
<1> HIDE DEF o
<1>2. runtime'[s] = o /\ \A q \in Slots \ {s} : runtime'[q] = runtime[q]
  BY DEF Typed, o
<1>3. RuntimeKept(o, s)'
  <2>1. generation' = generation /\ refused' = refused
    OBVIOUS
  <2> QED BY <1>1, <2>1 DEF RuntimeKept
<1>4. ASSUME NEW q \in Slots \ {s} PROVE RuntimeKept(runtime[q], q)'
  BY <1>2, <1>4 DEF RuntimeKept, RuntimesKept
<1>5. ASSUME NEW a \in opened' PROVE AttemptKept(a)'
  <2>1. CASE a = Attempt(s, o)
    <3>1. a.slot = s /\ a.runtime = o.id /\ a.opened = o.captured
      BY <2>1 DEF Attempt
    <3> QED BY <1>1, <1>2, <3>1 DEF AttemptKept, Typed
  <2>2. CASE a \in opened
    <3>1. AttemptKept(a) /\ a \in Attempts
      BY <2>2 DEF Tracked, Typed
    <3>2. CASE a.slot = s
      <4>1. a.runtime \in Nat /\ made[s] \in Nat /\ made'[s] \in Nat /\ r.id \in Nat
        BY <3>1 DEF Attempts, Typed, Runtimes
      <4>2. a.runtime <= made'[s] /\ a.opened <= generation
        BY <3>1, <3>2, <4>1 DEF AttemptKept
      <4>3. a.runtime = r.id => r.fence.generation <= a.opened
        BY <3>1, <3>2, <4>1 DEF AttemptKept
      <4> QED BY <1>1, <1>2, <3>2, <4>2, <4>3 DEF AttemptKept
    <3>3. CASE a.slot # s
      BY <1>2, <3>1, <3>3 DEF AttemptKept, Attempts
    <3> QED BY <3>2, <3>3
  <2> QED BY <1>5, <2>1, <2>2 DEF o
<1>6. ASSUME NEW a \in handles' PROVE HandleKept(a)'
  <2>1. HandleKept(a) /\ a \in Attempts /\ a \notin Released(runtime[s])
    BY DEF Tracked, Typed
  <2>2. a.slot \in Slots \ {s}
    BY <2>1, HandleFacts DEF HandleKept, Attempts
  <2> QED BY <1>2, <2>1, <2>2 DEF HandleKept, LeftBehind
<1> QED BY <1>2, <1>3, <1>4, <1>5, <1>6 DEF RuntimesKept, Tracked

\* What a runtime may give up without anybody noticing: everything, or its
\* handle, its waits and the payload it holds.
Sheds(r, t) ==
    t = NoRuntime \/ /\ r # NoRuntime
                     /\ t.id = r.id /\ t.fence = r.fence /\ t.active = r.active
                     /\ t.captured = r.captured /\ t.epoch = r.epoch /\ t.token = r.token
                     /\ t.held \in {0, r.held} /\ t.stored \in {NoHandle, r.stored}

\* Runtimes that give something up; a slot left without one may get a new fence.
LEMMA ShedKeeps ==
    ASSUME Typed, Typed', RuntimesKept, Tracked,
           UNCHANGED <<generation, refused, opened>>,
           \A q \in Slots : /\ Sheds(runtime[q], runtime'[q]) /\ made[q] <= made'[q]
                            /\ runtime'[q] = NoRuntime \/ (fence'[q] = fence[q])
                            /\ runtime'[q].active => owners'[q] # {},
           handles' \subseteq handles,
           \A a \in handles' : runtime'[a.slot].stored = runtime[a.slot].stored
    PROVE  RuntimesKept' /\ Tracked'
<1>1. ASSUME NEW q \in Slots PROVE RuntimeKept(runtime[q], q)'
  <2>1. RuntimeKept(runtime[q], q) /\ Sheds(runtime[q], runtime'[q])
    BY DEF RuntimesKept
  <2>2. CASE runtime'[q] = NoRuntime
    BY <2>2, NoRuntimeFacts DEF RuntimeKept, Typed
  <2>3. CASE runtime'[q] # NoRuntime
    <3>1. runtime[q] # NoRuntime
      BY <2>1, <2>3 DEF Sheds
    <3>2. runtime'[q].fence = fence'[q]
      BY <2>1, <2>3, <3>1 DEF RuntimeKept, Sheds
    <3>3. runtime'[q].id <= made'[q]
      <4>1. runtime[q].id \in Nat /\ made[q] \in Nat /\ made'[q] \in Nat /\ runtime'[q].id = runtime[q].id
        BY <2>1, <2>3 DEF Sheds, Typed, Runtimes
      <4> QED BY <2>1, <4>1 DEF RuntimeKept
    <3> QED BY <2>1, <2>3, <3>1, <3>2, <3>3 DEF RuntimeKept, Sheds
  <2> QED BY <2>2, <2>3
<1>2. ASSUME NEW a \in opened' PROVE AttemptKept(a)'
  <2>1. AttemptKept(a) /\ a \in Attempts
    BY DEF Tracked, Typed
  <2>2. CASE runtime'[a.slot] = NoRuntime
    BY <2>1, <2>2, NoRuntimeFacts DEF AttemptKept, Typed, Attempts
  <2>3. CASE runtime'[a.slot] # NoRuntime
    BY <2>1, <2>3 DEF AttemptKept, Typed, Attempts, Sheds
  <2> QED BY <2>2, <2>3
<1>3. ASSUME NEW a \in handles' PROVE HandleKept(a)'
  <2>1. HandleKept(a) /\ a \in Attempts /\ runtime'[a.slot].stored = Handle(a)
    BY DEF Tracked, Typed, HandleKept
  <2>2. runtime'[a.slot] # NoRuntime
    BY <2>1, NoRuntimeFacts, HandleFacts
  <2> QED BY <2>1, <2>2 DEF HandleKept, LeftBehind, IsCurrentAttempt, IsCurrentGeneration, Sheds, Attempts
<1> QED BY <1>1, <1>2, <1>3 DEF RuntimesKept, Tracked

-----------------------------------------------------------------------------
(* What a step does to the fences and to the calls in progress.            *)

\* A fence that waits for its replacement goes on waiting while the frames of
\* the reset stay on the stack.
LEMMA FencesStay ==
    ASSUME \A s \in Slots : FenceKept(s),
           UNCHANGED <<generation, refused, declared, fence>>,
           \A f \in OnStack(calls) :
               f.kind = "reset" \/ (f.kind = "restart" /\ f.todo # {}) => f \in OnStack(calls')
    PROVE  \A s \in Slots : FenceKept(s)'
<1> SUFFICES ASSUME NEW s \in Slots PROVE FenceKept(s)'
  OBVIOUS
<1>1. Awaits(s, calls) => Awaits(s, calls')
  BY DEF Awaits
<1> QED BY <1>1 DEF FenceKept, Known

\* A frame keeps its promise while nothing gives a runtime to a slot it restarts.
LEMMA FrameStays ==
    ASSUME NEW f \in Frames, FrameKept(f),
           generation \in Nat, generation' \in Nat, generation <= generation', Known \subseteq Known',
           f.kind = "restart" => \A s \in f.todo : runtime[s] = NoRuntime => runtime'[s] = NoRuntime
    PROVE  FrameKept(f)'
<1>1. f.kind = "deliver" => f.opened \in Nat
  BY FrameTypes DEF Delivering
<1> QED BY <1>1 DEF FrameKept

\* The stack of one call that is not a subscription, and the empty one.
LEMMA ShortStacks ==
    /\ <<>> \in Seq(Frames) /\ OnStack(<<>>) = {} /\ Shaped(<<>>)
    /\ \A f \in Frames : /\ <<f>> \in Seq(Frames) /\ OnStack(<<f>>) = {f} /\ <<f>> = <<f>> \o <<>>
                         /\ f.kind # "subscribe" => Shaped(<<f>>)
<1>1. <<>> \in Seq(Frames) /\ OnStack(<<>>) = {} /\ Shaped(<<>>)
  BY DEF OnStack, Shaped
<1>2. ASSUME NEW f \in Frames
      PROVE  /\ <<f>> \in Seq(Frames) /\ OnStack(<<f>>) = {f} /\ <<f>> = <<f>> \o <<>>
             /\ f.kind # "subscribe" => Shaped(<<f>>)
  BY <1>2 DEF OnStack, Shaped
<1> QED BY <1>1, <1>2

-----------------------------------------------------------------------------
(* Steps that change the calls in progress only.                           *)

StackStep ==
    /\ UNCHANGED <<generation, declared, fence, owners, runtime, made, opened, handles, refused>>
    /\ online' \in BOOLEAN /\ activeOwners' \in SUBSET Owners
    /\ calls' \in Seq(Frames) /\ Shaped(calls')
    /\ \A f \in OnStack(calls') : f \in OnStack(calls) \/ FrameKept(f)
    /\ \A f \in OnStack(calls) :
           f.kind = "reset" \/ (f.kind = "restart" /\ f.todo # {}) => f \in OnStack(calls')

LEMMA StackStepKeeps ==
    ASSUME IInv, StackStep, NothingCrossesReset'
    PROVE  IInv'
<1> USE DEF StackStep
<1>1. Typed'
  BY DEF IInv, Typed
<1>2. \A s \in Slots : FenceKept(s)'
  BY FencesStay DEF IInv, SlotsKept
<1>3. \A s \in Slots : RuntimeKept(runtime[s], s)'
  BY DEF IInv, SlotsKept, RuntimeKept
<1>4. Tracked'
  BY DEF IInv, Tracked, AttemptKept, HandleKept, LeftBehind
<1>5. ASSUME NEW f \in OnStack(calls') PROVE FrameKept(f)'
  <2>1. FrameKept(f)
    BY <1>5 DEF IInv, StackKept
  <2> QED BY <2>1 DEF FrameKept, Known
<1> QED BY <1>1, <1>2, <1>3, <1>4, <1>5 DEF IInv, SlotsKept, StackKept

LEMMA AcquireStep ==
    ASSUME IInv, NEW o \in Owners, Acquire(o)
    PROVE  IInv'
<1> DEFINE f == [kind |-> "acquire", owner |-> o, todo |-> Known]
<1>1. f \in Frames /\ FrameKept(f)
  BY DEF Frames, Acquiring, Known, FrameKept
<1>2. calls = <<>> /\ calls' = <<f>> /\ activeOwners' = activeOwners \cup {o}
  BY DEF Acquire
<1> HIDE DEF f
<1>3. calls' \in Seq(Frames) /\ OnStack(calls') = {f} /\ OnStack(calls) = {} /\ Shaped(calls')
  <2>1. f.kind = "acquire"
    BY DEF f
  <2> QED BY <1>1, <1>2, <2>1, ShortStacks
<1>4. StackStep
  BY <1>1, <1>2, <1>3 DEF StackStep, Acquire, IInv, Typed, transport
<1>5. NothingCrossesReset'
  BY DEF Acquire, IInv, NothingCrossesReset
<1> QED BY <1>4, <1>5, StackStepKeeps

LEMMA NetworkStep ==
    ASSUME IInv, LoseNetwork \/ RegainNetwork
    PROVE  IInv'
<1>1. NothingCrossesReset'
  BY DEF LoseNetwork, RegainNetwork, IInv, NothingCrossesReset
<1>2. CASE LoseNetwork
  BY <1>1, <1>2, StackStepKeeps DEF LoseNetwork, StackStep, IInv, Typed, StackKept, registry, transport
<1>3. CASE RegainNetwork
  <2> DEFINE f == [kind |-> "network", todo |-> {s \in Slots : runtime[s].gate}]
  <2>1. f \in Frames /\ FrameKept(f) /\ f.kind # "subscribe"
    BY DEF Frames, Looping, FrameKept
  <2>2. calls = <<>> /\ calls' = <<f>>
    BY <1>3 DEF RegainNetwork
  <2> HIDE DEF f
  <2>3. calls' \in Seq(Frames) /\ OnStack(calls') = {f} /\ OnStack(calls) = {} /\ Shaped(calls')
    BY <2>1, <2>2, ShortStacks
  <2>4. StackStep
    BY <1>3, <2>1, <2>3 DEF RegainNetwork, StackStep, IInv, Typed, registry, transport
  <2> QED BY <1>1, <2>4, StackStepKeeps
<1> QED BY <1>2, <1>3

\* The end of a loop or of a delivery takes a frame away that no fence waits for.
LEMMA EndStep ==
    ASSUME IInv, LoopEnds \/ DeliverEnds
    PROVE  IInv'
<1>1. NothingCrossesReset'
  BY DEF LoopEnds, DeliverEnds, IInv, NothingCrossesReset
<1>2. /\ calls # <<>> /\ calls' = Tail(calls)
      /\ Head(calls).kind = "deliver" \/ (Head(calls).kind # "reset" /\ Head(calls).todo = {})
  BY DEF LoopEnds, DeliverEnds, Within
<1>3. /\ calls' \in Seq(Frames) /\ Shaped(calls')
      /\ OnStack(calls) = {Head(calls)} \cup OnStack(calls')
  BY <1>2, PopStack, PopShape DEF IInv, Typed, StackKept
<1>4. StackStep
  BY <1>2, <1>3 DEF LoopEnds, DeliverEnds, StackStep, IInv, Typed, registry, transport
<1> QED BY <1>1, <1>4, StackStepKeeps

LEMMA DeliverStepKeeps ==
    ASSUME IInv, DeliverStep
    PROVE  IInv'
<1> DEFINE call == Head(calls)
           step == NextStep[call.step]
           g    == [call EXCEPT !.step = step]
<1>1. calls # <<>> /\ call.kind = "deliver" /\ call.step # "notify" /\ calls \in Seq(Frames) /\ Shaped(calls)
  BY DEF DeliverStep, Within, IInv, Typed, StackKept
<1>2. call \in Delivering /\ OnStack(calls) = {call} \cup OnStack(Tail(calls)) /\ Tail(calls) \in Seq(Frames)
      /\ Shaped(Tail(calls))
  BY <1>1, PopStack, PopShape, FrameTypes
<1>3. call.fence.generation <= call.opened /\ call.opened <= generation /\ call.opened \in Nat
  BY <1>1, <1>2 DEF IInv, StackKept, FrameKept, Delivering
<1>4. CASE Fenced(call)
  <2>1. call.opened = generation
    BY <1>3, <1>4 DEF Fenced, IInv, Typed
  <2>2. effects' = effects \cup {<<step, call.opened, generation>>} /\ calls' = <<g>> \o Tail(calls)
    BY <1>4 DEF DeliverStep
  <2>3. NothingCrossesReset'
    BY <2>1, <2>2 DEF IInv, NothingCrossesReset
  <2>4. g \in Frames /\ g.kind = "deliver" /\ FrameKept(g)
    <3>1. call.step \in {"plan", "commit", "invalidate"}
      BY <1>1, <1>2 DEF Delivering
    <3>2. step \in {"commit", "invalidate", "notify"}
      BY <3>1 DEF NextStep
    <3>3. g \in Delivering /\ g.kind = "deliver" /\ g.fence = call.fence /\ g.opened = call.opened
      BY <1>2, <3>2 DEF Delivering
    <3> QED BY <1>3, <3>3 DEF Frames, FrameKept
  <2> HIDE DEF g
  <2>5. calls' \in Seq(Frames) /\ Shaped(calls') /\ OnStack(calls') = {g} \cup OnStack(Tail(calls))
    BY <1>2, <2>2, <2>4, PushStack, PushShape
  <2>6. StackStep
    BY <1>1, <1>2, <2>4, <2>5 DEF DeliverStep, StackStep, IInv, Typed, registry, transport
  <2> QED BY <2>3, <2>6, StackStepKeeps
<1>5. CASE ~Fenced(call)
  <2>1. calls' = Tail(calls) /\ effects' = effects
    BY <1>5 DEF DeliverStep
  <2>2. StackStep
    BY <1>1, <1>2, <2>1 DEF DeliverStep, StackStep, IInv, Typed, registry, transport
  <2>3. NothingCrossesReset'
    BY <2>1 DEF DeliverStep, IInv, NothingCrossesReset
  <2> QED BY <2>2, <2>3, StackStepKeeps
<1> QED BY <1>4, <1>5

-----------------------------------------------------------------------------
(* Steps that take something away from the runtimes.                       *)

LEMMA StackFrames ==
    ASSUME NEW c \in Seq(Frames)
    PROVE  OnStack(c) \subseteq Frames
BY DEF OnStack

\* stopSlot leaves nothing of a slot and does not touch the others.
LEMMA StopSlotsFacts ==
    ASSUME Typed, Tracked, NEW S \in SUBSET Slots, StopSlots(S)
    PROVE  /\ runtime' \in [Slots -> Runtimes] /\ handles' \in SUBSET Attempts /\ handles' \subseteq handles
           /\ \A q \in Slots : /\ q \in S => runtime'[q] = NoRuntime
                               /\ q \notin S => runtime'[q] = runtime[q]
                               /\ Sheds(runtime[q], runtime'[q])
           /\ \A a \in handles' : runtime'[a.slot].stored = runtime[a.slot].stored
<1>1. \A q \in Slots : runtime'[q] = IF q \in S THEN NoRuntime ELSE runtime[q]
  BY DEF StopSlots
<1>2. runtime' \in [Slots -> Runtimes]
  BY FreshIsRuntime DEF StopSlots, Typed
<1>3. handles' \in SUBSET Attempts /\ handles' \subseteq handles
  BY DEF StopSlots, Typed
<1>4. ASSUME NEW a \in handles' PROVE a.slot \in Slots \ S
  <2>1. a.slot \in Slots /\ runtime[a.slot].stored = Handle(a)
    BY <1>3, <1>4 DEF Attempts, Tracked, HandleKept
  <2>2. a \in Released(runtime[a.slot])
    BY <2>1, HandleFacts
  <2>3. a.slot \notin S
    BY <2>2, <1>4 DEF StopSlots
  <2> QED BY <2>1, <2>3
<1>5. \A q \in Slots : Sheds(runtime[q], runtime'[q])
  BY <1>1 DEF Sheds
<1> QED BY <1>1, <1>2, <1>3, <1>4, <1>5

\* A step in which runtimes only give something up.
ShedStep ==
    /\ UNCHANGED <<generation, fence, declared, refused, made, opened, effects>>
    /\ online' \in BOOLEAN /\ activeOwners' \in SUBSET Owners /\ owners' \in [Slots -> SUBSET Owners]
    /\ runtime' \in [Slots -> Runtimes]
    /\ \A q \in Slots : Sheds(runtime[q], runtime'[q]) /\ (runtime'[q].active => owners'[q] # {})
    /\ handles' \in SUBSET Attempts /\ handles' \subseteq handles
    /\ \A a \in handles' : runtime'[a.slot].stored = runtime[a.slot].stored
    /\ calls' \in Seq(Frames) /\ Shaped(calls')
    /\ \A f \in OnStack(calls) : f.kind \in {"reset", "restart"} => f \in OnStack(calls')
    /\ \A f \in OnStack(calls') : f \in OnStack(calls) \/ (FrameKept(f) /\ f.kind # "restart")

LEMMA ShedStepKeeps ==
    ASSUME IInv, ShedStep
    PROVE  IInv'
<1> USE DEF ShedStep
<1>1. Typed'
  BY DEF IInv, Typed
<1>2. \A s \in Slots : FenceKept(s)'
  BY FencesStay DEF IInv, SlotsKept
<1>3. RuntimesKept' /\ Tracked'
  <2>1. \A q \in Slots : made[q] <= made'[q]
    BY DEF IInv, Typed
  <2>2. Typed /\ RuntimesKept /\ Tracked
    BY DEF IInv, SlotsKept, RuntimesKept
  <2> QED BY <1>1, <2>1, <2>2, ShedKeeps
<1>4. ASSUME NEW f \in OnStack(calls') PROVE FrameKept(f)'
  <2>1. FrameKept(f) /\ f \in Frames
    BY <1>4, StackFrames DEF IInv, StackKept
  <2>2. f.kind = "restart" => f.todo \subseteq Slots
    BY <2>1, FrameTypes DEF Looping
  <2>3. \A s \in Slots : runtime[s] = NoRuntime => runtime'[s] = NoRuntime
    BY DEF Sheds
  <2> QED BY <2>1, <2>2, <2>3, FrameStays DEF IInv, Typed, Known
<1>5. NothingCrossesReset'
  BY DEF IInv, NothingCrossesReset
<1> QED BY <1>1, <1>2, <1>3, <1>4, <1>5 DEF IInv, SlotsKept, RuntimesKept, StackKept

\* Owners that stay with their slots keep what is active.
LEMMA OwnersStay ==
    ASSUME IInv, NEW q \in Slots, Sheds(runtime[q], runtime'[q]), runtime'[q].active
    PROVE  runtime[q].active /\ owners[q] # {} /\ runtime'[q] # NoRuntime
BY NoRuntimeFacts DEF Sheds, IInv, SlotsKept, RuntimeKept

LEMMA ReleaseStep ==
    ASSUME IInv, NEW o \in Owners, Release(o)
    PROVE  IInv'
<1> DEFINE S == {s \in Slots : owners[s] = {o}}
<1>1. /\ calls = <<>> /\ calls' = calls /\ StopSlots(S)
      /\ owners' = [s \in Slots |-> owners[s] \ {o}] /\ activeOwners' = activeOwners \ {o}
  BY DEF Release, ReleaseOwner
<1>2. /\ runtime' \in [Slots -> Runtimes] /\ handles' \in SUBSET Attempts /\ handles' \subseteq handles
      /\ \A q \in Slots : (q \in S => runtime'[q] = NoRuntime) /\ Sheds(runtime[q], runtime'[q])
      /\ \A a \in handles' : runtime'[a.slot].stored = runtime[a.slot].stored
  BY <1>1, StopSlotsFacts DEF IInv
<1>3. ASSUME NEW q \in Slots, runtime'[q].active PROVE owners'[q] # {}
  <2>1. owners[q] # {} /\ q \notin S
    BY <1>2, <1>3, OwnersStay
  <2> QED BY <1>1, <2>1
<1>4. owners' \in [Slots -> SUBSET Owners]
  BY <1>1 DEF IInv, Typed
<1>5. ShedStep
  BY <1>1, <1>2, <1>3, <1>4, ShortStacks DEF ShedStep, Release, IInv, Typed
<1> QED BY <1>5, ShedStepKeeps

LEMMA ErrorStep ==
    ASSUME IInv, NEW a \in opened, TransportError(a)
    PROVE  IInv'
<1> DEFINE s == a.slot  r == runtime[s]  t == Failing(r, online)
<1>1. s \in Slots /\ r \in Runtimes /\ r.active
  BY DEF IInv, Typed, Attempts, TransportError, IsCurrentAttempt
<1>2. runtime' = [runtime EXCEPT ![s] = t] /\ handles' = handles \ Released(r)
  BY DEF TransportError
<1>3. t \in Runtimes /\ SameUse(t, r) /\ t.token = r.token /\ t.held = r.held /\ t.stored = NoHandle
  BY <1>1, FailingFacts DEF IInv, Typed
<1> HIDE DEF t
<1>4. /\ runtime' \in [Slots -> Runtimes] /\ runtime'[s] = t
      /\ \A q \in Slots \ {s} : runtime'[q] = runtime[q]
  BY <1>1, <1>2, <1>3 DEF IInv, Typed
<1>5. \A q \in Slots : Sheds(runtime[q], runtime'[q])
  <2>1. Sheds(r, t)
    BY <1>1, <1>3, NoRuntimeFacts DEF Sheds, SameUse
  <2>2. \A u : Sheds(u, u)
    BY DEF Sheds
  <2> QED BY <1>4, <2>1, <2>2
<1>6. ASSUME NEW b \in handles' PROVE runtime'[b.slot].stored = runtime[b.slot].stored
  <2>1. b.slot \in Slots /\ runtime[b.slot].stored = Handle(b) /\ b \notin Released(r)
    BY <1>2 DEF IInv, Typed, Attempts, Tracked, HandleKept
  <2>2. b.slot # s
    BY <2>1, HandleFacts
  <2> QED BY <1>4, <2>1, <2>2
<1>7. ASSUME NEW q \in Slots, runtime'[q].active PROVE owners[q] # {}
  BY <1>5, <1>7, OwnersStay
<1>8. ShedStep
  BY <1>2, <1>4, <1>5, <1>6, <1>7 DEF ShedStep, TransportError, IInv, Typed, StackKept, registry
<1> QED BY <1>8, ShedStepKeeps

LEMMA DebounceStep ==
    ASSUME IInv, NEW s \in Slots, DebounceFires(s)
    PROVE  IInv'
<1> DEFINE r == runtime[s]  t == [r EXCEPT !.held = 0]
<1>1. r \in Runtimes /\ r.held # 0 /\ calls = <<>> /\ runtime' = [runtime EXCEPT ![s].held = 0]
  BY DEF IInv, Typed, DebounceFires
<1>2. r # NoRuntime
  BY <1>1, NoRuntimeFacts
<1>3. t \in Runtimes /\ SameUse(t, r) /\ t.token = r.token /\ t.held = 0 /\ t.stored = r.stored
  BY <1>1 DEF Runtimes, SameUse
<1>4. runtime'[s] = t /\ \A q \in Slots \ {s} : runtime'[q] = runtime[q]
  BY <1>1 DEF IInv, Typed
<1>5. runtime' \in [Slots -> Runtimes]
  BY <1>1, <1>3 DEF IInv, Typed
<1> HIDE DEF t
<1>6. \A q \in Slots : Sheds(runtime[q], runtime'[q]) /\ runtime'[q].stored = runtime[q].stored
  <2>1. Sheds(r, t)
    BY <1>2, <1>3 DEF Sheds, SameUse
  <2>2. \A u : Sheds(u, u)
    BY DEF Sheds
  <2> QED BY <1>3, <1>4, <2>1, <2>2
<1>7. ASSUME NEW q \in Slots, runtime'[q].active PROVE owners[q] # {}
  BY <1>6, <1>7, OwnersStay
<1>8. /\ calls' \in Seq(Frames) /\ Shaped(calls') /\ OnStack(calls) = {}
      /\ \A f \in OnStack(calls') : FrameKept(f) /\ f.kind # "restart"
  <2>1. CASE calls' = <<>>
    BY <1>1, <2>1, ShortStacks
  <2>2. CASE calls' # <<>>
    <3> DEFINE f == [kind |-> "deliver", slot |-> s, fence |-> r.fence, opened |-> r.held, step |-> "plan"]
    <3>1. calls' = <<f>>
      BY <2>2 DEF DebounceFires
    <3>2. f \in Delivering
      BY <1>1 DEF Delivering, Runtimes
    <3>3. f \in Frames /\ f.kind = "deliver" /\ f.fence = r.fence /\ f.opened = r.held
      BY <3>2 DEF Frames
    <3> HIDE DEF f
    <3>4. FrameKept(f)
      BY <1>1, <3>3 DEF FrameKept, IInv, SlotsKept, RuntimeKept
    <3> QED BY <1>1, <3>1, <3>3, <3>4, ShortStacks
  <2> QED BY <2>1, <2>2
<1>9. \A a \in handles : a.slot \in Slots
  BY DEF IInv, Typed, Attempts
<1>10. ShedStep
  BY <1>5, <1>6, <1>7, <1>8, <1>9 DEF ShedStep, DebounceFires, IInv, Typed, registry, transport
<1> QED BY <1>10, ShedStepKeeps

LEMMA RestartStep ==
    ASSUME IInv, Restart
    PROVE  IInv'
<1> DEFINE f == [kind |-> "restart", todo |-> Known]
<1>1. /\ calls # <<>> /\ Head(calls).kind = "reset" /\ calls \in Seq(Frames) /\ Shaped(calls)
      /\ calls' = <<f>> \o Tail(calls) /\ StopSlots(Slots)
  BY DEF Restart, Within, IInv, Typed, StackKept
<1>2. f \in Frames /\ f.kind = "restart" /\ f.todo = Known
  BY DEF Frames, Looping, Known
<1>3. /\ Tail(calls) \in Seq(Frames) /\ Shaped(Tail(calls))
      /\ OnStack(calls) = {Head(calls)} \cup OnStack(Tail(calls))
      /\ \A g \in OnStack(Tail(calls)) : g.kind # "restart"
  BY <1>1, PopStack, PopShape
<1> HIDE DEF f
<1>4. /\ calls' \in Seq(Frames) /\ Shaped(calls') /\ OnStack(calls') = {f} \cup OnStack(Tail(calls))
  BY <1>1, <1>2, <1>3, PushStack, PushShape
<1>5. /\ runtime' \in [Slots -> Runtimes] /\ handles' \in SUBSET Attempts /\ handles' \subseteq handles
      /\ \A q \in Slots : runtime'[q] = NoRuntime /\ Sheds(runtime[q], runtime'[q])
      /\ \A a \in handles' : runtime'[a.slot].stored = runtime[a.slot].stored
  BY <1>1, StopSlotsFacts DEF IInv
<1>6. UNCHANGED <<generation, fence, declared, owners, activeOwners, refused, made, online, opened, effects>>
  BY DEF Restart, registry
<1>7. Typed'
  BY <1>4, <1>5, <1>6 DEF IInv, Typed
<1>8. RuntimesKept' /\ Tracked'
  <2>1. \A q \in Slots : made[q] <= made'[q]
    BY <1>6 DEF IInv, Typed
  <2>2. Typed /\ RuntimesKept /\ Tracked
    BY DEF IInv, SlotsKept, RuntimesKept
  <2>3. \A q \in Slots : ~runtime'[q].active
    BY <1>5, NoRuntimeFacts
  <2> QED BY <1>5, <1>6, <1>7, <2>1, <2>2, <2>3, ShedKeeps
<1>9. ASSUME NEW s \in Slots PROVE FenceKept(s)'
  <2>1. s \in Known => Awaits(s, calls')
    BY <1>2, <1>4 DEF Awaits
  <2> QED BY <1>6, <2>1 DEF IInv, SlotsKept, FenceKept, Known
<1>10. ASSUME NEW g \in OnStack(calls') PROVE FrameKept(g)'
  <2>1. CASE g = f
    BY <1>2, <1>5, <2>1 DEF FrameKept, Known
  <2>2. CASE g \in OnStack(Tail(calls))
    BY <1>3, <1>6, <2>2 DEF FrameKept, Known, IInv, StackKept
  <2> QED BY <1>4, <1>10, <2>1, <2>2
<1>11. NothingCrossesReset'
  BY <1>6 DEF IInv, NothingCrossesReset
<1> QED BY <1>4, <1>7, <1>8, <1>9, <1>10, <1>11 DEF IInv, SlotsKept, RuntimesKept, StackKept

\* A payload that is heard: held back by a debounce, or delivered at once.
LEMMA NextStepKeeps ==
    ASSUME IInv, NEW a \in opened, TransportNext(a)
    PROVE  IInv'
<1> DEFINE s == a.slot  r == runtime[s]
<1>1. /\ s \in Slots /\ a \in Attempts /\ a.opened \in Nat /\ r \in Runtimes /\ r.active /\ a.runtime = r.id
      /\ r.stored # NoHandle
  BY DEF IInv, Typed, Attempts, TransportNext, IsCurrentAttempt
<1>2. r.fence.generation <= a.opened /\ a.opened <= generation
  BY <1>1 DEF IInv, Tracked, AttemptKept
<1>3. NothingCrossesReset'
  BY DEF TransportNext, IInv, NothingCrossesReset
<1>4. CASE s \notin Debounced
  <2> DEFINE f == [kind |-> "deliver", slot |-> s, fence |-> r.fence, opened |-> a.opened, step |-> "plan"]
  <2>1. calls' = <<f>> \o calls /\ runtime' = runtime
    BY <1>4 DEF TransportNext
  <2>2. f \in Delivering
    BY <1>1 DEF Delivering, Runtimes
  <2>3. f \in Frames /\ f.kind = "deliver" /\ f.fence = r.fence /\ f.opened = a.opened
    BY <2>2 DEF Frames
  <2> HIDE DEF f
  <2>4. FrameKept(f)
    BY <1>2, <2>3 DEF FrameKept
  <2>5. calls' \in Seq(Frames) /\ Shaped(calls') /\ OnStack(calls') = {f} \cup OnStack(calls)
    BY <2>1, <2>3, PushStack, PushShape DEF IInv, Typed, StackKept
  <2>6. StackStep
    BY <2>1, <2>4, <2>5 DEF TransportNext, StackStep, IInv, Typed, registry, transport
  <2> QED BY <1>3, <2>6, StackStepKeeps
<1>5. CASE s \in Debounced
  <2> DEFINE t == [r EXCEPT !.held = a.opened]
  <2>1. calls' = calls /\ runtime' = [runtime EXCEPT ![s].held = a.opened]
    BY <1>5 DEF TransportNext
  <2>2. t \in Runtimes /\ SameUse(t, r) /\ t.token = r.token /\ t.held = a.opened /\ t.stored = r.stored
    BY <1>1 DEF Runtimes, SameUse
  <2>3. /\ runtime' \in [Slots -> Runtimes] /\ runtime'[s] = t
        /\ \A q \in Slots \ {s} : runtime'[q] = runtime[q]
    BY <1>1, <2>1, <2>2 DEF IInv, Typed
  <2> HIDE DEF t
  <2>4. UNCHANGED <<generation, fence, declared, owners, activeOwners, refused, made, online, opened, handles, effects>>
    BY DEF TransportNext, registry, transport
  <2>5. Typed'
    BY <2>1, <2>3, <2>4 DEF IInv, Typed
  <2>6. r # NoRuntime
    BY <1>1, NoRuntimeFacts
  <2>7. ASSUME NEW q \in Slots PROVE RuntimeKept(runtime[q], q)'
    <3>1. RuntimeKept(runtime[q], q)
      BY DEF IInv, SlotsKept
    <3>2. CASE q = s
      BY <1>1, <1>2, <2>2, <2>3, <2>4, <2>6, <3>1, <3>2 DEF RuntimeKept, SameUse
    <3>3. CASE q # s
      BY <2>3, <2>4, <3>1, <3>3 DEF RuntimeKept
    <3> QED BY <3>2, <3>3
  <2>8. ASSUME NEW q \in Slots
        PROVE  /\ runtime'[q].id = runtime[q].id /\ runtime'[q].fence = runtime[q].fence
               /\ runtime'[q].active = runtime[q].active /\ runtime'[q].captured = runtime[q].captured
               /\ runtime'[q].epoch = runtime[q].epoch /\ runtime'[q].token = runtime[q].token
               /\ runtime'[q].stored = runtime[q].stored
               /\ runtime[q] = NoRuntime => runtime'[q] = NoRuntime
    BY <2>2, <2>3, <2>6 DEF SameUse
  <2>9. Tracked'
    <3>1. ASSUME NEW b \in opened PROVE AttemptKept(b)'
      <4>1. AttemptKept(b) /\ b.slot \in Slots
        BY DEF IInv, Typed, Tracked, Attempts
      <4> QED BY <2>4, <2>8, <4>1 DEF AttemptKept
    <3>2. ASSUME NEW b \in handles PROVE HandleKept(b)'
      <4>1. HandleKept(b) /\ b.slot \in Slots
        BY DEF IInv, Typed, Tracked, Attempts
      <4>2. IsCurrentAttempt(runtime[b.slot], generation, b) =>
                IsCurrentAttempt(runtime'[b.slot], generation, b)
        BY <2>8, <4>1 DEF IsCurrentAttempt, IsCurrentGeneration
      <4> QED BY <2>4, <2>8, <4>1, <4>2 DEF HandleKept, LeftBehind
    <3> QED BY <2>4, <3>1, <3>2 DEF Tracked
  <2>10. \A q \in Slots : FenceKept(q)'
    BY <2>1, <2>4 DEF IInv, SlotsKept, FenceKept, Known, Awaits
  <2>11. ASSUME NEW f \in OnStack(calls') PROVE FrameKept(f)'
    <3>1. FrameKept(f) /\ f \in Frames
      BY <2>1, <2>11, StackFrames DEF IInv, Typed, StackKept
    <3>2. f.kind = "restart" => f.todo \subseteq Slots
      BY <3>1, FrameTypes DEF Looping
    <3> QED BY <2>4, <2>8, <3>1, <3>2 DEF FrameKept, Known
  <2>12. StackKept'
    BY <2>1, <2>11 DEF IInv, StackKept
  <2> QED BY <1>3, <2>5, <2>7, <2>9, <2>10, <2>12 DEF IInv, SlotsKept
<1> QED BY <1>4, <1>5

\* The handle a subscription returns is kept or closed.
LEMMA ReturnsStep ==
    ASSUME IInv, SubscribeReturns
    PROVE  IInv'
<1>0. PICK a : a = Head(calls).attempt
  OBVIOUS
<1> DEFINE s == a.slot  r == runtime[s]
<1>1. calls # <<>> /\ Head(calls).kind = "subscribe" /\ calls' = Tail(calls) /\ calls \in Seq(Frames)
      /\ Shaped(calls)
  BY DEF SubscribeReturns, Within, IInv, Typed, StackKept
<1>2. /\ Head(calls) \in Subscribing /\ calls' \in Seq(Frames) /\ Shaped(calls')
      /\ OnStack(calls) = {Head(calls)} \cup OnStack(calls')
  BY <1>1, PopStack, PopShape, FrameTypes
<1>3. a \in Attempts /\ s \in Slots /\ r \in Runtimes
  BY <1>0, <1>2 DEF Subscribing, Attempts, IInv, Typed
<1>4. NothingCrossesReset'
  BY DEF SubscribeReturns, IInv, NothingCrossesReset
<1>5. CASE ~Keeps(r, generation, a)
  <2>1. StackStep
    BY <1>0, <1>1, <1>2, <1>5 DEF SubscribeReturns, StackStep, IInv, Typed, registry
  <2> QED BY <1>4, <2>1, StackStepKeeps
<1>6. CASE Keeps(r, generation, a)
  <2> DEFINE t == [r EXCEPT !.stored = Handle(a)]
  <2>1. runtime' = [runtime EXCEPT ![s].stored = Handle(a)] /\ handles' = handles \cup {a}
    BY <1>0, <1>6 DEF SubscribeReturns
  <2>2. t \in Runtimes /\ SameUse(t, r) /\ t.token = r.token /\ t.held = r.held /\ t.stored = Handle(a)
    BY <1>3, StoredTypes DEF Runtimes, SameUse
  <2>3. /\ runtime' \in [Slots -> Runtimes] /\ runtime'[s] = t
        /\ \A q \in Slots \ {s} : runtime'[q] = runtime[q]
    BY <1>3, <2>1, <2>2 DEF IInv, Typed
  <2> HIDE DEF t
  <2>4. UNCHANGED <<generation, fence, declared, owners, activeOwners, refused, made, online, opened, effects>>
    BY DEF SubscribeReturns, registry
  <2>5. Typed'
    BY <1>2, <1>3, <2>1, <2>3, <2>4 DEF IInv, Typed
  <2>6. r.active /\ r # NoRuntime /\ r.stored = Placeholder /\ IsCurrentAttempt(r, generation, a)
    BY <1>6, NoRuntimeFacts DEF Keeps, IsCurrentAttempt
  <2>7. ASSUME NEW q \in Slots PROVE RuntimeKept(runtime[q], q)'
    <3>1. RuntimeKept(runtime[q], q)
      BY DEF IInv, SlotsKept
    <3>2. CASE q = s
      BY <2>2, <2>3, <2>4, <2>6, <3>1, <3>2 DEF RuntimeKept, SameUse
    <3>3. CASE q # s
      BY <2>3, <2>4, <3>1, <3>3 DEF RuntimeKept
    <3> QED BY <3>2, <3>3
  <2>8. ASSUME NEW b \in opened' PROVE AttemptKept(b)'
    <3>1. AttemptKept(b) /\ b.slot \in Slots
      BY <2>4 DEF IInv, Typed, Tracked, Attempts
    <3> QED BY <2>2, <2>3, <2>4, <3>1 DEF AttemptKept, SameUse
  <2>9. HandleKept(a)'
    <3>1. RuntimeKept(r, s)
      BY <1>3 DEF IInv, SlotsKept
    <3>2. r.captured = generation /\ r.fence = fence[s]
      BY <2>6, <3>1 DEF RuntimeKept, IsCurrentAttempt, IsCurrentGeneration
    <3>3. fence[s].generation = generation \/ refused
      BY <2>6, <3>1, <3>2 DEF RuntimeKept
    <3>4. IsCurrentAttempt(t, generation, a)
      BY <2>2, <2>6 DEF IsCurrentAttempt, IsCurrentGeneration, SameUse
    <3>5. runtime'[s].stored = Handle(a) /\ fence'[s] = fence[s]
      BY <2>2, <2>3, <2>4
    <3>6. IsCurrentAttempt(runtime'[s], generation', a)
      BY <2>3, <2>4, <3>4
    <3> QED BY <2>4, <3>3, <3>5, <3>6 DEF HandleKept, LeftBehind
  <2>10. ASSUME NEW b \in handles PROVE HandleKept(b)'
    <3>1. HandleKept(b) /\ b.slot \in Slots
      BY DEF IInv, Typed, Tracked, Attempts
    <3>2. b.slot # s
      BY <2>6, <3>1, HandleFacts DEF HandleKept
    <3> QED BY <2>3, <2>4, <3>1, <3>2 DEF HandleKept, LeftBehind
  <2>11. \A q \in Slots : FenceKept(q)'
    BY <1>1, <1>2, <2>4, FencesStay DEF IInv, SlotsKept
  <2>12. ASSUME NEW f \in OnStack(calls') PROVE FrameKept(f)'
    <3>1. FrameKept(f) /\ f \in Frames
      BY <1>2, <2>12, StackFrames DEF IInv, Typed, StackKept
    <3>2. f.kind = "restart" => f.todo \subseteq Slots
      BY <3>1, FrameTypes DEF Looping
    <3>3. \A q \in Slots : runtime[q] = NoRuntime => runtime'[q] = NoRuntime
      BY <2>3, <2>6
    <3> QED BY <2>4, <3>1, <3>2, <3>3 DEF FrameKept, Known
  <2>13. Tracked'
    BY <2>1, <2>8, <2>9, <2>10 DEF Tracked
  <2>14. SlotsKept'
    BY <2>7, <2>11 DEF SlotsKept
  <2>15. StackKept'
    BY <1>2, <2>12 DEF StackKept
  <2> QED BY <1>4, <2>5, <2>13, <2>14, <2>15 DEF IInv
<1> QED BY <1>5, <1>6

LEMMA ThrowsStep ==
    ASSUME IInv, SubscribeThrows
    PROVE  IInv'
<1>0. PICK a, o, below : a = Head(calls).attempt /\ below = Tail(calls) /\ o = Head(below).owner
  OBVIOUS
<1> DEFINE s == a.slot  r == runtime[s]
<1>1. calls # <<>> /\ Head(calls).kind = "subscribe" /\ calls \in Seq(Frames) /\ Shaped(calls)
  BY DEF SubscribeThrows, Within, IInv, Typed, StackKept
<1>2. /\ Head(calls) \in Subscribing /\ below \in Seq(Frames) /\ Shaped(below)
      /\ OnStack(calls) = {Head(calls)} \cup OnStack(below)
      /\ Head(calls).by = "acquire" => below # <<>> /\ Head(below).kind = "acquire"
  BY <1>0, <1>1, PopStack, PopShape, FrameTypes
<1>3. a \in Attempts /\ s \in Slots /\ r \in Runtimes
  BY <1>0, <1>2 DEF Subscribing, Attempts, IInv, Typed
<1>4. UNCHANGED <<generation, fence, declared, refused, made, online, opened, effects>>
  BY DEF SubscribeThrows
<1>5. CASE Head(calls).by = "acquire"
  <2> DEFINE S == {s} \cup {q \in Slots : owners[q] = {o}}
  <2>1. /\ StopSlots(S) /\ calls' = Tail(below)
        /\ owners' = [q \in Slots |-> owners[q] \ {o}] /\ activeOwners' = activeOwners \ {o}
    BY <1>0, <1>5 DEF SubscribeThrows, ReleaseOwner
  <2>2. /\ runtime' \in [Slots -> Runtimes] /\ handles' \in SUBSET Attempts /\ handles' \subseteq handles
        /\ \A q \in Slots : (q \in S => runtime'[q] = NoRuntime) /\ Sheds(runtime[q], runtime'[q])
        /\ \A b \in handles' : runtime'[b.slot].stored = runtime[b.slot].stored
    <3>1. S \in SUBSET Slots
      BY <1>3
    <3> QED BY <2>1, <3>1, StopSlotsFacts DEF IInv
  <2>3. ASSUME NEW q \in Slots, runtime'[q].active PROVE owners'[q] # {}
    <3>1. owners[q] # {} /\ q \notin S
      BY <2>2, <2>3, OwnersStay
    <3> QED BY <2>1, <3>1
  <2>4. owners' \in [Slots -> SUBSET Owners] /\ activeOwners' \in SUBSET Owners
    BY <2>1 DEF IInv, Typed
  <2>5. /\ calls' \in Seq(Frames) /\ Shaped(calls')
        /\ OnStack(below) = {Head(below)} \cup OnStack(calls')
    BY <1>2, <1>5, <2>1, PopStack, PopShape
  <2> HIDE DEF S
  <2>6. ShedStep
    BY <1>1, <1>2, <1>4, <1>5, <2>2, <2>3, <2>4, <2>5 DEF ShedStep, IInv, Typed
  <2> QED BY <2>6, ShedStepKeeps
<1>6. CASE Head(calls).by \in {"register", "restart"}
  <2>1. StopSlots({s}) /\ calls' = below /\ activeOwners' = activeOwners /\ owners' = owners
    BY <1>0, <1>6 DEF SubscribeThrows
  <2>2. /\ runtime' \in [Slots -> Runtimes] /\ handles' \in SUBSET Attempts /\ handles' \subseteq handles
        /\ \A q \in Slots : Sheds(runtime[q], runtime'[q])
        /\ \A b \in handles' : runtime'[b.slot].stored = runtime[b.slot].stored
    BY <1>3, <2>1, StopSlotsFacts DEF IInv
  <2>3. ASSUME NEW q \in Slots, runtime'[q].active PROVE owners[q] # {}
    BY <2>2, <2>3, OwnersStay
  <2>4. ShedStep
    BY <1>1, <1>2, <1>4, <2>1, <2>2, <2>3 DEF ShedStep, IInv, Typed
  <2> QED BY <2>4, ShedStepKeeps
<1>7. CASE Head(calls).by = "retry"
  <2>1. calls' = below /\ activeOwners' = activeOwners /\ owners' = owners /\ handles' = handles
    BY <1>0, <1>7 DEF SubscribeThrows
  <2>2. \A u : Sheds(u, u)
    BY DEF Sheds
  <2>3. \A b \in handles : b.slot \in Slots /\ runtime[b.slot].stored = Handle(b)
    BY DEF IInv, Typed, Attempts, Tracked, HandleKept
  <2>4. /\ runtime' \in [Slots -> Runtimes]
        /\ \A q \in Slots : Sheds(runtime[q], runtime'[q])
        /\ \A b \in handles : runtime'[b.slot].stored = runtime[b.slot].stored
    <3>1. CASE ~Keeps(r, generation, a)
      <4>1. runtime' = runtime
        BY <1>0, <1>7, <3>1 DEF SubscribeThrows
      <4> QED BY <2>2, <4>1 DEF IInv, Typed
    <3>2. CASE Keeps(r, generation, a)
      <4> DEFINE t == [r EXCEPT !.stored = NoHandle]
      <4>1. runtime' = [runtime EXCEPT ![s].stored = NoHandle]
        BY <1>0, <1>7, <3>2 DEF SubscribeThrows
      <4>2. t \in Runtimes /\ SameUse(t, r) /\ t.token = r.token /\ t.held = r.held /\ t.stored = NoHandle
        BY <1>3, StoredTypes DEF Runtimes, SameUse
      <4>3. /\ runtime' \in [Slots -> Runtimes] /\ runtime'[s] = t
            /\ \A q \in Slots \ {s} : runtime'[q] = runtime[q]
        BY <1>3, <4>1, <4>2 DEF IInv, Typed
      <4> HIDE DEF t
      <4>4. r # NoRuntime /\ r.stored = Placeholder
        BY <3>2, NoRuntimeFacts DEF Keeps, IsCurrentAttempt
      <4>5. Sheds(r, t)
        BY <4>2, <4>4 DEF Sheds, SameUse
      <4>6. \A b \in handles : b.slot \in Slots \ {s}
        BY <2>3, <4>4, HandleFacts
      <4> QED BY <2>2, <4>3, <4>5, <4>6
    <3> QED BY <3>1, <3>2
  <2>5. ASSUME NEW q \in Slots, runtime'[q].active PROVE owners[q] # {}
    BY <2>4, <2>5, OwnersStay
  <2>6. ShedStep
    BY <1>1, <1>2, <1>4, <2>1, <2>4, <2>5 DEF ShedStep, IInv, Typed
  <2> QED BY <2>6, ShedStepKeeps
<1> QED BY <1>2, <1>5, <1>6, <1>7 DEF Subscribing

\* A reset stops what an earlier generation left, and its restart waits on the
\* stack; a refused one leaves every fence behind.
LEMMA ResetStep ==
    ASSUME IInv, NEW refuses \in BOOLEAN, ResetRuntime(refuses)
    PROVE  IInv'
<1>1. /\ generation' = generation + 1 /\ refused' = refuses
      /\ UNCHANGED <<fence, declared, owners, activeOwners, made, online, opened, effects>>
  BY DEF ResetRuntime, registry
<1>2. generation \in Nat \ {0} /\ generation' \in Nat \ {0} /\ generation < generation'
  BY <1>1 DEF IInv, Typed
<1>3. calls \in Seq(Frames) /\ \A f \in OnStack(calls) : f.kind # "restart"
  <2>1. DOMAIN calls = 1 .. Len(calls)
    BY DEF IInv, Typed
  <2> QED BY <2>1 DEF ResetRuntime, OnStack, IInv, Typed
<1>4. \A f \in OnStack(calls) : FrameKept(f)'
  <2> SUFFICES ASSUME NEW f \in OnStack(calls) PROVE FrameKept(f)'
    OBVIOUS
  <2>1. f \in Frames /\ FrameKept(f) /\ f.kind # "restart"
    BY <1>3, StackFrames DEF IInv, StackKept
  <2>2. Known' = Known
    BY <1>1 DEF Known
  <2> QED BY <1>2, <2>1, <2>2, FrameStays
<1>5. NothingCrossesReset'
  BY <1>1 DEF IInv, NothingCrossesReset
<1>6. \A q \in Slots : /\ fence[q].generation \in Nat /\ fence[q].generation <= generation
                       /\ runtime[q] \in Runtimes /\ RuntimeKept(runtime[q], q)
                       /\ runtime[q].captured \in Nat /\ runtime[q].fence.generation \in Nat
                       /\ runtime[q].held \in Nat
  BY DEF IInv, Typed, SlotsKept, FenceKept, Fences, Runtimes
<1>7. CASE refuses
  <2>1. UNCHANGED <<runtime, handles, calls>>
    BY <1>7 DEF ResetRuntime
  <2>2. Typed'
    BY <1>1, <1>2, <2>1 DEF IInv, Typed
  <2>3. ASSUME NEW q \in Slots PROVE RuntimeKept(runtime[q], q)' /\ FenceKept(q)'
    <3>1. RuntimeKept(runtime[q], q)'
      BY <1>1, <1>2, <1>6, <1>7, <2>1 DEF RuntimeKept
    <3>2. FenceKept(q)'
      BY <1>1, <1>2, <1>6, <1>7 DEF FenceKept
    <3> QED BY <3>1, <3>2
  <2>4. ASSUME NEW b \in opened PROVE AttemptKept(b)'
    <3>1. AttemptKept(b) /\ b.opened \in Nat
      BY DEF IInv, Typed, Tracked, Attempts
    <3> QED BY <1>1, <1>2, <2>1, <3>1 DEF AttemptKept
  <2>5. ASSUME NEW b \in handles PROVE HandleKept(b)'
    <3>1. HandleKept(b) /\ b.slot \in Slots
      BY DEF IInv, Typed, Tracked, Attempts
    <3> QED BY <1>1, <1>2, <1>6, <1>7, <2>1, <3>1 DEF HandleKept, LeftBehind
  <2>6. Tracked'
    BY <1>1, <2>1, <2>4, <2>5 DEF Tracked
  <2>7. StackKept'
    BY <1>4, <2>1 DEF IInv, StackKept
  <2> QED BY <1>5, <2>2, <2>3, <2>6, <2>7 DEF IInv, SlotsKept
<1>8. CASE ~refuses
  <2> DEFINE f == [kind |-> "reset"]
             stale == {q \in Slots : ~IsCurrentGeneration(runtime[q], generation')}
  <2>1. /\ runtime' = [q \in Slots |-> IF q \in stale THEN Stopped(runtime[q]) ELSE runtime[q]]
        /\ handles' = handles \ UNION {Released(runtime[q]) : q \in stale}
        /\ calls' = <<f>> \o calls
    BY <1>8 DEF ResetRuntime
  <2>2. f \in Frames /\ f.kind = "reset" /\ FrameKept(f)'
    BY DEF Frames, Resetting, FrameKept
  <2>3. calls' \in Seq(Frames) /\ Shaped(calls') /\ OnStack(calls') = {f} \cup OnStack(calls)
    <3> HIDE DEF f
    <3> QED BY <1>3, <2>1, <2>2, PushStack, PushShape DEF IInv, StackKept
  <2>4. ASSUME NEW q \in Slots
        PROVE  /\ runtime'[q] \in Runtimes /\ ~runtime'[q].active /\ runtime'[q].stored = NoHandle
               /\ runtime'[q].id = runtime[q].id /\ runtime'[q].fence = runtime[q].fence
               /\ runtime'[q].captured = runtime[q].captured
               /\ runtime'[q].held \in {0, runtime[q].held}
               /\ runtime[q] = NoRuntime => runtime'[q] = NoRuntime
               /\ runtime[q].stored # NoHandle => q \in stale
    <3>1. CASE q \in stale
      <4>1. runtime'[q] = Stopped(runtime[q])
        BY <2>1, <3>1
      <4>2. runtime[q] # NoRuntime
        BY <3>1, NoRuntimeFacts DEF IsCurrentGeneration
      <4> QED BY <1>6, <3>1, <4>1, <4>2, StoppedFacts
    <3>2. CASE q \notin stale
      <4>1. runtime[q].captured \in {0, generation'}
        BY <3>2 DEF IsCurrentGeneration
      <4>2. runtime[q].captured = 0
        BY <1>2, <1>6, <4>1 DEF RuntimeKept
      <4>3. ~runtime[q].active /\ runtime[q].stored = NoHandle
        BY <1>6, <4>2 DEF RuntimeKept
      <4> QED BY <1>6, <2>1, <3>2, <4>3
    <3> QED BY <3>1, <3>2
  <2>5. handles' = {}
    <3> SUFFICES ASSUME NEW b \in handles' PROVE FALSE
      OBVIOUS
    <3>1. b \in handles /\ b.slot \in Slots /\ runtime[b.slot].stored = Handle(b)
      BY <2>1 DEF IInv, Typed, Attempts, Tracked, HandleKept
    <3>2. b.slot \in stale /\ b \in Released(runtime[b.slot])
      BY <2>4, <3>1, HandleFacts
    <3> QED BY <2>1, <3>2
  <2>6. runtime' \in [Slots -> Runtimes]
    BY <2>1, <2>4
  <2>7. Typed'
    BY <1>1, <1>2, <2>3, <2>5, <2>6, <1>8 DEF IInv, Typed
  <2>8. ASSUME NEW q \in Slots PROVE RuntimeKept(runtime[q], q)' /\ FenceKept(q)'
    <3>1. RuntimeKept(runtime[q], q)'
      BY <1>1, <1>2, <1>6, <2>4 DEF RuntimeKept
    <3>2. Awaits(q, calls')
      BY <2>2, <2>3 DEF Awaits
    <3>3. FenceKept(q)'
      BY <1>1, <1>2, <1>6, <3>2 DEF FenceKept
    <3> QED BY <3>1, <3>3
  <2>9. ASSUME NEW b \in opened PROVE AttemptKept(b)'
    <3>1. AttemptKept(b) /\ b.opened \in Nat /\ b.slot \in Slots
      BY DEF IInv, Typed, Tracked, Attempts
    <3> QED BY <1>1, <1>2, <2>4, <3>1 DEF AttemptKept
  <2>10. Tracked'
    BY <1>1, <2>5, <2>9 DEF Tracked
  <2>11. StackKept'
    BY <1>4, <2>2, <2>3 DEF StackKept
  <2> QED BY <1>5, <2>7, <2>8, <2>10, <2>11 DEF IInv, SlotsKept
<1> QED BY <1>7, <1>8

-----------------------------------------------------------------------------
(* Steps that subscribe, or give a slot a new fence.                       *)

\* What stands below a subscription, and the slots beside it.
Beside(s, below) ==
    /\ UNCHANGED <<generation, refused, effects>>
    /\ online' \in BOOLEAN /\ activeOwners' \in SUBSET Owners
    /\ declared' \in [Slots -> Nat] /\ fence' \in [Slots -> Fences]
    /\ owners' \in [Slots -> SUBSET Owners] /\ made' \in [Slots -> Nat]
    /\ \A q \in Slots \ {s} : fence'[q] = fence[q] /\ owners'[q] = owners[q] /\ made'[q] = made[q]
    /\ made[s] <= made'[s]
    /\ below \in Seq(Frames) /\ Shaped(below)
    /\ \A f \in OnStack(below) : FrameKept(f)'
    /\ \A q \in Slots : /\ fence'[q].generation <= generation
                        /\ declared'[q] # 0 =>
                               fence'[q].generation = generation \/ refused \/ Awaits(q, below)

\* The runtime r that a step subscribes for s: there before, or new.
Subscribes(s, r) ==
    /\ r \in Runtimes /\ r.active /\ r.captured = generation /\ r.fence = fence'[s] /\ owners'[s] # {}
    /\ r.id <= made'[s]
    /\ r.id > made[s] \/ (r.id = runtime[s].id /\ r.fence = runtime[s].fence)
    /\ r.fence.generation = generation \/ refused
    /\ r.held # 0 => r.fence.generation <= r.held /\ r.held <= generation

LEMMA SubscribeStep ==
    ASSUME IInv, NEW s \in Slots, NEW r, NEW by \in {"acquire", "register", "retry", "restart"}, NEW below,
           Subscribe(s, r, by, below), Beside(s, below), Subscribes(s, r),
           handles' = handles \ Released(runtime[s]),
           by = "acquire" => below # <<>> /\ Head(below).kind = "acquire"
    PROVE  IInv'
<1> DEFINE f == [kind |-> "subscribe", attempt |-> Attempt(s, Opening(r)), by |-> by]
<1>1. Opening(r) \in Runtimes
  BY OpeningFacts DEF Subscribes
<1>2. Attempt(s, Opening(r)) \in Attempts
  BY <1>1 DEF Attempt, Attempts, Runtimes
<1>3. f \in Subscribing
  BY <1>2 DEF Subscribing
<1>4. f \in Frames /\ f.kind = "subscribe" /\ f.by = by /\ FrameKept(f)'
  BY <1>3 DEF Frames, FrameKept
<1>5. calls' = <<f>> \o below /\ runtime' = [runtime EXCEPT ![s] = Opening(r)]
      /\ opened' = opened \cup {Attempt(s, Opening(r))}
  BY DEF Subscribe
<1> HIDE DEF f
<1>6. calls' \in Seq(Frames) /\ Shaped(calls') /\ OnStack(calls') = {f} \cup OnStack(below)
  BY <1>4, <1>5, PushStack, PushShape DEF Beside
<1>7. Typed'
  BY <1>1, <1>2, <1>5, <1>6 DEF IInv, Typed, Beside
<1>8. RuntimesKept' /\ Tracked'
  <2>1. Typed /\ RuntimesKept /\ Tracked /\ generation \in Nat /\ generation # 0
    BY DEF IInv, Typed, SlotsKept, RuntimesKept
  <2>2. r.fence.generation <= generation
    BY DEF Beside, Subscribes
  <2> QED BY <1>5, <1>7, <2>1, <2>2, SubscribeKeeps DEF Beside, Subscribes
<1>9. ASSUME NEW q \in Slots PROVE FenceKept(q)'
  <2>1. Awaits(q, below) => Awaits(q, calls')
    BY <1>6 DEF Awaits
  <2> QED BY <2>1 DEF Beside, FenceKept, Known
<1>10. StackKept'
  BY <1>4, <1>6 DEF StackKept, Beside
<1>11. NothingCrossesReset'
  BY DEF Beside, IInv, NothingCrossesReset
<1> QED BY <1>7, <1>8, <1>9, <1>10, <1>11 DEF IInv, SlotsKept, RuntimesKept

\* A slot nobody owns: whatever becomes of its fence, it has no runtime.
LEMMA RefenceStep ==
    ASSUME IInv, NEW s \in Slots, NEW below, Beside(s, below), StopSlots({s}),
           opened' = opened, calls' = below
    PROVE  IInv'
<1>1. /\ runtime' \in [Slots -> Runtimes] /\ handles' \in SUBSET Attempts /\ handles' \subseteq handles
      /\ runtime'[s] = NoRuntime
      /\ \A q \in Slots : /\ q # s => runtime'[q] = runtime[q]
                          /\ Sheds(runtime[q], runtime'[q])
      /\ \A b \in handles' : runtime'[b.slot].stored = runtime[b.slot].stored
  BY StopSlotsFacts DEF IInv
<1>2. Typed'
  BY <1>1 DEF IInv, Typed, Beside
<1>3. RuntimesKept' /\ Tracked'
  <2>1. Typed /\ RuntimesKept /\ Tracked
    BY DEF IInv, SlotsKept, RuntimesKept
  <2>2. ASSUME NEW q \in Slots
        PROVE  /\ made[q] <= made'[q] /\ (runtime'[q] = NoRuntime \/ fence'[q] = fence[q])
               /\ runtime'[q].active => owners'[q] # {}
    <3>1. CASE q = s
      BY <1>1, <3>1, NoRuntimeFacts DEF Beside
    <3>2. CASE q # s
      <4>1. runtime'[q].active => owners[q] # {}
        BY <1>1, OwnersStay
      <4> QED BY <3>2, <4>1 DEF Beside, IInv, Typed
    <3> QED BY <3>1, <3>2
  <2> QED BY <1>1, <1>2, <2>1, <2>2, ShedKeeps DEF Beside
<1>4. \A q \in Slots : FenceKept(q)'
  BY DEF Beside, FenceKept, Known
<1>5. StackKept' /\ NothingCrossesReset'
  BY DEF Beside, StackKept, IInv, NothingCrossesReset
<1> QED BY <1>2, <1>3, <1>4, <1>5 DEF IInv, SlotsKept, RuntimesKept

\* A runtime that is subscribed again.
LEMMA Resubscribes ==
    ASSUME IInv, NEW s \in Slots, NEW r \in Runtimes, SameUse(r, runtime[s]), r.held = runtime[s].held,
           r.stored = runtime[s].stored, UNCHANGED <<fence, owners, made>>, Subscribable(r, generation)
    PROVE  Subscribes(s, r) /\ Released(runtime[s]) = {}
<1>1. RuntimeKept(runtime[s], s)
  BY DEF IInv, SlotsKept
<1>2. r.active /\ r.captured = generation /\ r.stored = NoHandle
  BY <1>1 DEF Subscribable, IsCurrentGeneration, SameUse, RuntimeKept
<1>3. runtime[s] # NoRuntime
  BY <1>2, NoRuntimeFacts DEF SameUse
<1>4. Released(runtime[s]) = {}
  BY <1>2 DEF Released, NoHandle
<1>5. r.fence = fence[s] /\ owners[s] # {} /\ r.id <= made[s]
  BY <1>1, <1>2, <1>3 DEF RuntimeKept, SameUse
<1>6. r.fence.generation = generation \/ refused
  BY <1>1, <1>2 DEF RuntimeKept, SameUse
<1>7. r.held # 0 => r.fence.generation <= r.held /\ r.held <= generation
  BY <1>1 DEF RuntimeKept, SameUse
<1> QED BY <1>2, <1>4, <1>5, <1>6, <1>7 DEF Subscribes, SameUse

LEMMA RetryStep ==
    ASSUME IInv, NEW s \in Slots, RetryTimer(s)
    PROVE  IInv'
<1>0. PICK r : r = [runtime[s] EXCEPT !.timer = FALSE]
  OBVIOUS
<1>1. /\ r \in Runtimes /\ SameUse(r, runtime[s]) /\ r.token = runtime[s].token
      /\ r.held = runtime[s].held /\ r.stored = runtime[s].stored
  BY <1>0 DEF IInv, Typed, Runtimes, SameUse
<1>2. /\ calls = <<>> /\ runtime[s] # NoRuntime
      /\ UNCHANGED <<generation, refused, effects, online, activeOwners, declared, fence, owners, made, handles>>
  BY DEF RetryTimer, registry, NoRuntime, Fresh
<1>3. CASE Subscribable(r, generation)
  <2>1. Subscribe(s, r, "retry", calls)
    BY <1>0, <1>3 DEF RetryTimer
  <2>2. Beside(s, calls)
    <3>1. \A q \in Slots : /\ fence[q].generation <= generation
                           /\ declared[q] # 0 => fence[q].generation = generation \/ refused
      BY <1>2, ShortStacks DEF IInv, SlotsKept, FenceKept, Known, Awaits
    <3>2. made[s] <= made'[s]
      BY <1>2 DEF IInv, Typed
    <3> QED BY <1>2, <3>1, <3>2, ShortStacks DEF Beside, IInv, Typed
  <2>3. Subscribes(s, r) /\ handles' = handles \ Released(runtime[s])
    BY <1>1, <1>2, <1>3, Resubscribes
  <2> QED BY <2>1, <2>2, <2>3, SubscribeStep
<1>4. CASE ~Subscribable(r, generation)
  <2>1. runtime' = [runtime EXCEPT ![s] = r] /\ opened' = opened /\ calls' = calls
    BY <1>0, <1>4 DEF RetryTimer
  <2>2. Sheds(runtime[s], r) /\ \A u : Sheds(u, u)
    BY <1>1, <1>2 DEF Sheds, SameUse
  <2>3. /\ runtime' \in [Slots -> Runtimes]
        /\ \A q \in Slots : Sheds(runtime[q], runtime'[q]) /\ runtime'[q].stored = runtime[q].stored
    BY <1>1, <2>1, <2>2 DEF IInv, Typed
  <2>4. ASSUME NEW q \in Slots, runtime'[q].active PROVE owners[q] # {}
    BY <2>3, <2>4, OwnersStay
  <2>5. \A b \in handles : b.slot \in Slots
    BY DEF IInv, Typed, Attempts
  <2>6. ShedStep
    BY <1>2, <2>1, <2>3, <2>4, <2>5 DEF ShedStep, IInv, Typed, StackKept
  <2> QED BY <2>6, ShedStepKeeps
<1> QED BY <1>3, <1>4

LEMMA NetworkSlotStep ==
    ASSUME IInv, NetworkSlot
    PROVE  IInv'
<1>1. PICK s \in Head(calls).todo :
          LET below == <<[Head(calls) EXCEPT !.todo = @ \ {s}]>> \o Tail(calls)
              r     == [runtime[s] EXCEPT !.gate = FALSE] IN
          IF runtime[s].gate /\ Subscribable(r, generation)
          THEN Subscribe(s, r, "retry", below)
          ELSE /\ runtime' = [runtime EXCEPT ![s] = r]
               /\ calls' = below /\ UNCHANGED opened
  BY DEF NetworkSlot
<1>2. PICK r, g : r = [runtime[s] EXCEPT !.gate = FALSE] /\ g = [Head(calls) EXCEPT !.todo = @ \ {s}]
  OBVIOUS
<1>3. /\ calls # <<>> /\ Head(calls).kind = "network" /\ calls \in Seq(Frames) /\ Shaped(calls)
      /\ UNCHANGED <<generation, refused, effects, online, activeOwners, declared, fence, owners, made, handles>>
  BY DEF NetworkSlot, Within, registry, IInv, Typed, StackKept
<1>4. Head(calls) \in Looping /\ Tail(calls) = <<>> /\ OnStack(calls) = {Head(calls)}
  BY <1>3, PopStack, PopShape, FrameTypes, ShortStacks
<1>5. s \in Slots
  BY <1>4 DEF Looping
<1>6. g \in Looping /\ g.kind = "network"
  BY <1>2, <1>3, <1>4 DEF Looping
<1>7. g \in Frames /\ FrameKept(g) /\ FrameKept(g)'
  BY <1>6 DEF Frames, FrameKept
<1>8. <<g>> \in Seq(Frames) /\ Shaped(<<g>>) /\ OnStack(<<g>>) = {g} /\ <<g>> \o Tail(calls) = <<g>>
  BY <1>4, <1>6, <1>7, ShortStacks
<1>9. /\ r \in Runtimes /\ SameUse(r, runtime[s]) /\ r.token = runtime[s].token
      /\ r.held = runtime[s].held /\ r.stored = runtime[s].stored
  BY <1>2, <1>5 DEF IInv, Typed, Runtimes, SameUse
<1>10. CASE runtime[s].gate /\ Subscribable(r, generation)
  <2>1. Subscribe(s, r, "retry", <<g>>)
    BY <1>1, <1>2, <1>8, <1>10
  <2>2. Beside(s, <<g>>)
    <3>1. \A q \in Slots : /\ fence[q].generation <= generation
                           /\ declared[q] # 0 => fence[q].generation = generation \/ refused
      BY <1>3, <1>4 DEF IInv, SlotsKept, FenceKept, Known, Awaits
    <3>2. made[s] <= made'[s]
      BY <1>3, <1>5 DEF IInv, Typed
    <3> QED BY <1>3, <1>7, <1>8, <3>1, <3>2 DEF Beside, IInv, Typed
  <2>3. Subscribes(s, r) /\ handles' = handles \ Released(runtime[s])
    BY <1>3, <1>5, <1>9, <1>10, Resubscribes
  <2> QED BY <1>5, <2>1, <2>2, <2>3, SubscribeStep
<1>11. CASE ~(runtime[s].gate /\ Subscribable(r, generation))
  <2>1. runtime' = [runtime EXCEPT ![s] = r] /\ opened' = opened /\ calls' = <<g>>
    BY <1>1, <1>2, <1>8, <1>11
  <2>2. Sheds(runtime[s], r)
    <3>1. CASE runtime[s] = NoRuntime
      <4>1. \A u \in Runtimes : u.gate = FALSE => [u EXCEPT !.gate = FALSE] = u
        BY DEF Runtimes
      <4>2. NoRuntime \in Runtimes /\ NoRuntime.gate = FALSE
        BY FreshIsRuntime DEF NoRuntime, Fresh
      <4> QED BY <1>2, <3>1, <4>1, <4>2 DEF Sheds
    <3>2. CASE runtime[s] # NoRuntime
      BY <1>9, <3>2 DEF Sheds, SameUse
    <3> QED BY <3>1, <3>2
  <2>3. \A u : Sheds(u, u)
    BY DEF Sheds
  <2>4. /\ runtime' \in [Slots -> Runtimes]
        /\ \A q \in Slots : Sheds(runtime[q], runtime'[q]) /\ runtime'[q].stored = runtime[q].stored
    BY <1>9, <2>1, <2>2, <2>3 DEF IInv, Typed
  <2>5. ASSUME NEW q \in Slots, runtime'[q].active PROVE owners[q] # {}
    BY <2>4, <2>5, OwnersStay
  <2>6. \A b \in handles : b.slot \in Slots
    BY DEF IInv, Typed, Attempts
  <2>7. ShedStep
    BY <1>3, <1>4, <1>6, <1>7, <1>8, <2>1, <2>4, <2>5, <2>6 DEF ShedStep, IInv, Typed
  <2> QED BY <2>7, ShedStepKeeps
<1> QED BY <1>10, <1>11

\* A runtime made or found for a slot, and activated.
LEMMA Activates ==
    ASSUME IInv, NEW s \in Slots, NEW r \in Runtimes, NEW n,
           n = Activated(r, generation),
           \/ r = runtime[s] /\ r # NoRuntime /\ fence'[s] = fence[s]
           \/ r = Fresh(made[s] + 1, fence'[s]) /\ made'[s] = made[s] + 1,
           made[s] <= made'[s], made'[s] \in Nat, owners'[s] # {},
           fence'[s].generation = generation \/ refused
    PROVE  Subscribes(s, n)
<1>1. generation \in Nat /\ made[s] \in Nat
  BY DEF IInv, Typed
<1>2. n \in Runtimes /\ n.id = r.id /\ n.fence = r.fence /\ n.active /\ n.captured = generation
      /\ n.held \in {0, r.held}
  <2>1. r \in Runtimes /\ n = Activated(r, generation)
    OBVIOUS
  <2> QED BY ONLY <1>1, <2>1, ActivatedFacts
<1>3. CASE r = runtime[s] /\ r # NoRuntime /\ fence'[s] = fence[s]
  <2>1. RuntimeKept(r, s) /\ r.id \in Nat
    BY <1>3 DEF IInv, SlotsKept, Runtimes
  <2>2. r.fence = fence'[s] /\ r.id <= made'[s]
    BY <1>1, <1>3, <2>1 DEF RuntimeKept
  <2>3. n.held # 0 => n.fence.generation <= n.held /\ n.held <= generation
    BY <1>2, <2>1 DEF RuntimeKept
  <2> QED BY <1>2, <1>3, <2>2, <2>3 DEF Subscribes
<1>4. CASE r = Fresh(made[s] + 1, fence'[s]) /\ made'[s] = made[s] + 1
  <2>1. r.id = made[s] + 1 /\ r.fence = fence'[s] /\ r.held = 0
    BY <1>4 DEF Fresh
  <2>2. n.held = 0 /\ n.id > made[s] /\ n.id <= made'[s] /\ n.fence = fence'[s]
    BY <1>1, <1>2, <1>4, <2>1
  <2> QED BY <1>2, <2>2 DEF Subscribes
<1> QED BY <1>3, <1>4

LEMMA AcquireSlotStep ==
    ASSUME IInv, AcquireSlot
    PROVE  IInv'
<1>0. PICK call : call = Head(calls)
  OBVIOUS
<1>1. PICK s \in call.todo :
          /\ owners' = [owners EXCEPT ![s] = @ \cup {call.owner}]
          /\ ActivateSlot(s, RuntimeOf(s, fence[s]), "acquire", <<[call EXCEPT !.todo = @ \ {s}]>> \o Tail(calls))
          /\ made' = [made EXCEPT ![s] = @ + (IF runtime[s] = NoRuntime THEN 1 ELSE 0)]
  BY <1>0 DEF AcquireSlot
<1>2. PICK r, g : r = RuntimeOf(s, fence[s]) /\ g = [call EXCEPT !.todo = @ \ {s}]
  OBVIOUS
<1>3. /\ calls # <<>> /\ call.kind = "acquire" /\ calls \in Seq(Frames) /\ Shaped(calls)
      /\ UNCHANGED <<generation, refused, effects, online, activeOwners, declared, fence>>
  BY <1>0 DEF AcquireSlot, Within, IInv, Typed, StackKept
<1>4. call \in Acquiring /\ Tail(calls) = <<>> /\ OnStack(calls) = {call}
  BY <1>0, <1>3, PopStack, PopShape, FrameTypes, ShortStacks
<1>5. s \in Slots /\ s \in Known /\ call.todo \subseteq Known
  BY <1>3, <1>4 DEF Acquiring, IInv, StackKept, FrameKept
<1>6. g \in Acquiring /\ g.kind = "acquire" /\ g.todo = call.todo \ {s}
  BY <1>2, <1>3, <1>4 DEF Acquiring
<1>7. g \in Frames /\ FrameKept(g) /\ FrameKept(g)'
  BY <1>3, <1>5, <1>6 DEF Frames, FrameKept, Known
<1>8. <<g>> \in Seq(Frames) /\ Shaped(<<g>>) /\ OnStack(<<g>>) = {g} /\ <<g>> \o Tail(calls) = <<g>>
      /\ <<g>> # <<>> /\ Head(<<g>>) = g
  <2>1. <<g>> # <<>> /\ Head(<<g>>) = g
    OBVIOUS
  <2>2. g.kind # "subscribe"
    BY <1>6
  <2> QED BY <1>4, <1>7, <2>1, <2>2, ShortStacks
<1>9. ActivateSlot(s, r, "acquire", <<g>>)
  BY <1>1, <1>2, <1>8
<1>10. owners' \in [Slots -> SUBSET Owners] /\ owners'[s] # {} /\ \A q \in Slots \ {s} : owners'[q] = owners[q]
  BY <1>1, <1>4, <1>5 DEF IInv, Typed, Acquiring
<1>11. /\ made' \in [Slots -> Nat] /\ made[s] <= made'[s] /\ \A q \in Slots \ {s} : made'[q] = made[q]
       /\ runtime[s] = NoRuntime => made'[s] = made[s] + 1
       /\ runtime[s] # NoRuntime => made' = made
  <2>1. made \in [Slots -> Nat]
    BY DEF IInv, Typed
  <2> QED BY <1>1, <1>5, <2>1
<1>12. /\ r \in Runtimes
       /\ runtime[s] # NoRuntime => r = runtime[s]
       /\ runtime[s] = NoRuntime => r = Fresh(made[s] + 1, fence[s])
  <2>1. made[s] + 1 \in Nat /\ fence[s] \in Fences /\ runtime[s] \in Runtimes
    BY <1>5 DEF IInv, Typed
  <2> QED BY <1>2, <2>1, FreshIsRuntime DEF RuntimeOf
<1>13. CASE r.active /\ IsCurrentGeneration(r, generation)
  <2>1. calls' = <<g>> /\ UNCHANGED <<runtime, opened, handles, forsaken>>
    BY <1>9, <1>13 DEF ActivateSlot
  <2>2. runtime[s] # NoRuntime
    BY <1>12, <1>13 DEF Fresh
  <2>3. ASSUME NEW q \in Slots, runtime'[q].active PROVE owners'[q] # {}
    <3>1. owners[q] # {}
      BY <2>1, <2>3 DEF IInv, SlotsKept, RuntimeKept
    <3> QED BY <1>10, <3>1
  <2>4. \A u : Sheds(u, u)
    BY DEF Sheds
  <2>5. ShedStep
    BY <1>3, <1>4, <1>6, <1>7, <1>8, <1>10, <1>11, <2>1, <2>2, <2>3, <2>4 DEF ShedStep, IInv, Typed
  <2> QED BY <2>5, ShedStepKeeps
<1>14. CASE ~(r.active /\ IsCurrentGeneration(r, generation))
  <2>1. Subscribe(s, Activated(r, generation), "acquire", <<g>>) /\ handles' = handles \ Released(r)
    BY <1>9, <1>14 DEF ActivateSlot
  <2>2. handles' = handles \ Released(runtime[s])
    <3>1. CASE runtime[s] = NoRuntime
      <4>1. Released(r) = {} /\ Released(runtime[s]) = {}
        BY <1>12, <3>1 DEF Fresh, NoRuntime, Released, NoHandle
      <4> QED BY <2>1, <4>1
    <3>2. CASE runtime[s] # NoRuntime
      BY <1>12, <2>1, <3>2
    <3> QED BY <3>1, <3>2
  <2>3. \A q \in Slots : /\ fence[q].generation <= generation
                         /\ declared[q] # 0 => fence[q].generation = generation \/ refused
    BY <1>3, <1>4 DEF IInv, SlotsKept, FenceKept, Known, Awaits
  <2>4. Beside(s, <<g>>)
    BY <1>3, <1>7, <1>8, <1>10, <1>11, <2>3 DEF Beside, IInv, Typed
  <2>5. Subscribes(s, Activated(r, generation))
    <3>1. fence'[s] = fence[s] /\ (fence'[s].generation = generation \/ refused)
      BY <1>3, <1>5, <2>3 DEF Known
    <3> QED BY <1>5, <1>10, <1>11, <1>12, <3>1, Activates
  <2> QED BY <1>5, <1>6, <1>8, <2>1, <2>2, <2>4, <2>5, SubscribeStep
<1> QED BY <1>13, <1>14

\* The restart of a reset: the slot has no runtime, and its fence is replaced.
LEMMA RestartSlotStep ==
    ASSUME IInv, RestartSlot
    PROVE  IInv'
<1>0. PICK call : call = Head(calls)
  OBVIOUS
<1>1. PICK s \in call.todo :
          LET f     == [id |-> made[s] + 1, generation |-> generation]
              below == <<[call EXCEPT !.todo = @ \ {s}]>> \o Tail(calls) IN
          /\ fence' = [fence EXCEPT ![s] = f]
          /\ IF owners[s] = {}
             THEN calls' = below /\ UNCHANGED <<runtime, opened, handles, forsaken>>
             ELSE ActivateSlot(s, RuntimeOf(s, f), "restart", below)
          /\ made' = [made EXCEPT ![s] = @ + 1]
  BY <1>0 DEF RestartSlot
<1>2. PICK f, g, below : /\ f = [id |-> made[s] + 1, generation |-> generation]
                         /\ g = [call EXCEPT !.todo = @ \ {s}]
                         /\ below = <<g>> \o Tail(calls)
  OBVIOUS
<1>3. /\ calls # <<>> /\ call.kind = "restart" /\ calls \in Seq(Frames) /\ Shaped(calls)
      /\ UNCHANGED <<generation, refused, effects, online, activeOwners, declared, owners>>
  BY <1>0 DEF RestartSlot, Within, IInv, Typed, StackKept
<1>4. /\ call \in Looping /\ Tail(calls) \in Seq(Frames) /\ Shaped(Tail(calls))
      /\ OnStack(calls) = {call} \cup OnStack(Tail(calls))
      /\ \A h \in OnStack(Tail(calls)) : h.kind # "restart"
  BY <1>0, <1>3, PopStack, PopShape, FrameTypes
<1>5. s \in Slots /\ \A q \in call.todo : runtime[q] = NoRuntime
  BY <1>3, <1>4 DEF Looping, IInv, StackKept, FrameKept
<1>6. g \in Looping /\ g.kind = "restart" /\ g.todo = call.todo \ {s}
  BY <1>2, <1>3, <1>4 DEF Looping
<1>7. g \in Frames
  BY <1>6 DEF Frames
<1>8. below \in Seq(Frames) /\ Shaped(below) /\ OnStack(below) = {g} \cup OnStack(Tail(calls))
  BY <1>2, <1>4, <1>6, <1>7, PushStack, PushShape
<1>9. made \in [Slots -> Nat] /\ generation \in Nat /\ fence \in [Slots -> Fences]
  BY DEF IInv, Typed
<1>10. f \in Fences /\ f.generation = generation
  BY <1>2, <1>5, <1>9 DEF Fences
<1>11. /\ made' \in [Slots -> Nat] /\ made'[s] = made[s] + 1 /\ made[s] <= made'[s]
       /\ \A q \in Slots \ {s} : made'[q] = made[q]
       /\ fence' \in [Slots -> Fences] /\ fence'[s] = f /\ \A q \in Slots \ {s} : fence'[q] = fence[q]
  BY <1>1, <1>2, <1>5, <1>9, <1>10
<1>12. \A q \in Slots : /\ fence'[q].generation <= generation
                        /\ declared'[q] # 0 =>
                               fence'[q].generation = generation \/ refused \/ Awaits(q, below)
  <2> SUFFICES ASSUME NEW q \in Slots
               PROVE  /\ fence'[q].generation <= generation
                      /\ declared'[q] # 0 =>
                             fence'[q].generation = generation \/ refused \/ Awaits(q, below)
    OBVIOUS
  <2>1. CASE q = s
    BY <1>9, <1>10, <1>11, <2>1
  <2>2. CASE q # s
    <3>1. FenceKept(q) /\ fence'[q] = fence[q]
      BY <1>11, <2>2 DEF IInv, SlotsKept
    <3>2. Awaits(q, calls) => Awaits(q, below)
      BY <1>3, <1>4, <1>6, <1>8, <2>2 DEF Awaits
    <3> QED BY <1>3, <3>1, <3>2 DEF FenceKept, Known
  <2> QED BY <2>1, <2>2
<1>13. ASSUME NEW h \in OnStack(below),
              \A q \in Slots \ {s} : runtime[q] = NoRuntime => runtime'[q] = NoRuntime
       PROVE  FrameKept(h)'
  <2>1. CASE h = g
    <3>1. g.todo \subseteq Slots
      BY <1>6 DEF Looping
    <3> QED BY <1>5, <1>6, <1>13, <2>1, <3>1 DEF FrameKept
  <2>2. CASE h \in OnStack(Tail(calls))
    <3>1. FrameKept(h) /\ h.kind # "restart"
      BY <1>4, <2>2 DEF IInv, StackKept
    <3> QED BY <1>3, <3>1 DEF FrameKept, Known
  <2> QED BY <1>8, <1>13, <2>1, <2>2
<1>14. (\A q \in Slots \ {s} : runtime[q] = NoRuntime => runtime'[q] = NoRuntime) => Beside(s, below)
  BY <1>3, <1>8, <1>11, <1>12, <1>13 DEF Beside, IInv, Typed
<1>15. CASE owners[s] = {}
  <2>1. calls' = below /\ UNCHANGED <<runtime, opened, handles>>
    BY <1>1, <1>2, <1>15
  <2>2. StopSlots({s})
    <3>1. runtime[s] = NoRuntime
      BY <1>5
    <3>2. Released(NoRuntime) = {}
      BY NoRuntimeFacts DEF Released, NoHandle
    <3>3. runtime' = [q \in Slots |-> IF q \in {s} THEN NoRuntime ELSE runtime[q]]
      BY <2>1, <3>1 DEF IInv, Typed
    <3>4. handles' = handles \ UNION {Released(runtime[q]) : q \in {s}}
      BY <2>1, <3>1, <3>2
    <3> QED BY <3>3, <3>4 DEF StopSlots
  <2>3. Beside(s, below)
    BY <1>14, <2>1
  <2> QED BY <1>5, <2>1, <2>2, <2>3, RefenceStep
<1>16. CASE owners[s] # {}
  <2>1. PICK r : r = Fresh(made[s] + 1, f)
    OBVIOUS
  <2>2. RuntimeOf(s, f) = r
    BY <1>5, <2>1 DEF RuntimeOf
  <2>3. ActivateSlot(s, r, "restart", below)
    BY <1>1, <1>2, <1>16, <2>2
  <2>4. r \in Runtimes /\ ~r.active /\ Released(r) = {}
    <3>1. r \in Runtimes
      BY <1>5, <1>9, <1>10, <2>1, FreshIsRuntime
    <3> QED BY <2>1, <3>1 DEF Fresh, Released, NoHandle
  <2>5. Subscribe(s, Activated(r, generation), "restart", below) /\ handles' = handles \ Released(r)
    BY <2>3, <2>4 DEF ActivateSlot
  <2>6. handles' = handles \ Released(runtime[s])
    BY <1>5, <2>4, <2>5 DEF NoRuntime, Fresh, Released, NoHandle
  <2>7. Beside(s, below)
    <3>1. \A q \in Slots \ {s} : runtime'[q] = runtime[q]
      BY <2>5 DEF Subscribe, IInv, Typed
    <3> QED BY <1>14, <3>1
  <2>8. Subscribes(s, Activated(r, generation))
    BY <1>3, <1>5, <1>10, <1>11, <1>16, <2>1, <2>4, Activates
  <2> QED BY <1>5, <2>5, <2>6, <2>7, <2>8, SubscribeStep
<1> QED BY <1>15, <1>16

\* A definition: a new fence, and a new runtime for the owners there are.
LEMMA RegisterStep ==
    ASSUME IInv, NEW s \in Slots, Register(s)
    PROVE  IInv'
<1>1. PICK f, own : /\ f = [id |-> made[s] + 1, generation |-> generation]
                    /\ own = IF declared[s] = 0 THEN activeOwners ELSE owners[s]
  OBVIOUS
<1>2. /\ declared' = [declared EXCEPT ![s] = generation]
      /\ fence' = [fence EXCEPT ![s] = f] /\ owners' = [owners EXCEPT ![s] = own]
      /\ made' = [made EXCEPT ![s] = @ + 1]
      /\ UNCHANGED <<generation, refused, effects, online, activeOwners>>
      /\ calls = <<>> \/ (calls # <<>> /\ Head(calls).kind = "reset")
  BY <1>1 DEF Register, Within
<1>3. /\ made \in [Slots -> Nat] /\ generation \in Nat \ {0} /\ fence \in [Slots -> Fences]
      /\ declared \in [Slots -> Nat] /\ owners \in [Slots -> SUBSET Owners]
      /\ activeOwners \in SUBSET Owners /\ calls \in Seq(Frames) /\ Shaped(calls)
  BY DEF IInv, Typed, StackKept
<1>4. f \in Fences /\ f.generation = generation /\ own \in SUBSET Owners
  BY <1>1, <1>3 DEF Fences
<1>5. /\ made' \in [Slots -> Nat] /\ made'[s] = made[s] + 1 /\ made[s] <= made'[s]
      /\ \A q \in Slots \ {s} : made'[q] = made[q]
  BY <1>2, <1>3
<1>6. /\ fence' \in [Slots -> Fences] /\ fence'[s] = f /\ \A q \in Slots \ {s} : fence'[q] = fence[q]
      /\ owners' \in [Slots -> SUBSET Owners] /\ owners'[s] = own
      /\ \A q \in Slots \ {s} : owners'[q] = owners[q]
  BY <1>2, <1>3, <1>4
<1>7. /\ declared' \in [Slots -> Nat] /\ \A q \in Slots \ {s} : declared'[q] = declared[q]
      /\ Known \subseteq Known'
  BY <1>2, <1>3 DEF Known
<1>8. \A h \in OnStack(calls) : h.kind # "restart"
  <2>1. CASE calls = <<>>
    BY <2>1, ShortStacks
  <2>2. CASE calls # <<>> /\ Head(calls).kind = "reset"
    BY <1>3, <2>2, PopStack, PopShape
  <2> QED BY <1>2, <2>1, <2>2
<1>9. ASSUME NEW h \in OnStack(calls) PROVE FrameKept(h)'
  <2>1. h \in Frames /\ FrameKept(h) /\ h.kind # "restart"
    BY <1>3, <1>8, StackFrames DEF IInv, StackKept
  <2> QED BY <1>2, <1>3, <1>7, <2>1, FrameStays
<1>10. ASSUME NEW q \in Slots
       PROVE  /\ fence'[q].generation <= generation
              /\ declared'[q] # 0 =>
                     fence'[q].generation = generation \/ refused \/ Awaits(q, calls)
  <2>1. CASE q = s
    BY <1>3, <1>4, <1>6, <2>1
  <2>2. CASE q # s
    BY <1>6, <1>7, <2>2 DEF IInv, SlotsKept, FenceKept, Known
  <2> QED BY <2>1, <2>2
<1>11. Beside(s, calls)
  BY <1>2, <1>3, <1>5, <1>6, <1>7, <1>9, <1>10 DEF Beside, IInv, Typed
<1>12. CASE own = {}
  <2>1. StopSlots({s}) /\ opened' = opened /\ calls' = calls
    BY <1>1, <1>12 DEF Register
  <2> QED BY <1>11, <2>1, RefenceStep
<1>13. CASE own # {}
  <2>1. PICK r : r = Fresh(made[s] + 1, f)
    OBVIOUS
  <2>2. Subscribe(s, Activated(r, generation), "register", calls) /\ handles' = handles \ Released(runtime[s])
    BY <1>1, <1>13, <2>1 DEF Register
  <2>3. r \in Runtimes
    BY <1>3, <1>4, <2>1, FreshIsRuntime
  <2>4. Subscribes(s, Activated(r, generation))
    BY <1>4, <1>5, <1>6, <1>13, <2>1, <2>3, Activates
  <2> QED BY <1>11, <2>2, <2>4, SubscribeStep
<1> QED BY <1>12, <1>13

-----------------------------------------------------------------------------
(* The theorems.                                                           *)

LEMMA InitKeeps == Init => IInv
<1> SUFFICES ASSUME Init PROVE IInv
  OBVIOUS
<1>1. NoFence \in Fences
  BY DEF NoFence, Fences
<1>2. Typed
  <2>1. generation \in Nat \ {0} /\ refused \in BOOLEAN /\ online \in BOOLEAN
    <3>1. generation = 1
      BY DEF Init
    <3>2. refused \in BOOLEAN /\ online \in BOOLEAN
      BY Zenon DEF Init
    <3> QED BY <3>1, <3>2
  <2>2. /\ declared \in [Slots -> Nat] /\ made \in [Slots -> Nat] /\ fence \in [Slots -> Fences]
        /\ owners \in [Slots -> SUBSET Owners] /\ runtime \in [Slots -> Runtimes]
    BY <1>1, FreshIsRuntime DEF Init
  <2>3. calls \in Seq(Frames) /\ activeOwners \in SUBSET Owners
        /\ opened \in SUBSET Attempts /\ handles \in SUBSET Attempts
    BY ShortStacks DEF Init
  <2> QED BY <2>1, <2>2, <2>3 DEF Typed
<1>3. SlotsKept
  BY NoRuntimeFacts DEF Init, SlotsKept, RuntimeKept, FenceKept, Known
<1>4. StackKept /\ Tracked /\ NothingCrossesReset
  BY ShortStacks DEF Init, StackKept, Tracked, NothingCrossesReset
<1> QED BY <1>2, <1>3, <1>4 DEF IInv

LEMMA NextKeeps == IInv /\ [Next]_vars => IInv'
<1> SUFFICES ASSUME IInv, [Next]_vars PROVE IInv'
  OBVIOUS
<1>1. CASE Runs
  BY <1>1, AcquireSlotStep, RestartSlotStep, RestartStep, NetworkSlotStep, EndStep, ReturnsStep,
     DeliverStepKeeps DEF Runs
<1>2. CASE SubscribeThrows
  BY <1>2, ThrowsStep
<1>3. CASE \E o \in Owners : Acquire(o) \/ Release(o)
  BY <1>3, AcquireStep, ReleaseStep
<1>4. CASE \E s \in Slots : Register(s) \/ DebounceFires(s) \/ RetryTimer(s)
  BY <1>4, RegisterStep, DebounceStep, RetryStep
<1>5. CASE \E a \in opened : TransportNext(a) \/ TransportError(a)
  BY <1>5, NextStepKeeps, ErrorStep
<1>6. CASE LoseNetwork \/ RegainNetwork
  BY <1>6, NetworkStep
<1>7. CASE \E refuses \in BOOLEAN : ResetRuntime(refuses)
  BY <1>7, ResetStep
<1>8. CASE UNCHANGED vars
  <2>1. UNCHANGED <<generation, online, declared, fence, activeOwners, owners, made, runtime, calls,
                    opened, handles, effects, refused>>
    BY <1>8 DEF vars, registry, transport
  <2>2. \A f \in OnStack(calls) : FrameKept(f)
    BY DEF IInv, StackKept
  <2>3. StackStep
    BY <2>1, <2>2 DEF StackStep, IInv, Typed, StackKept
  <2>4. NothingCrossesReset'
    BY <2>1 DEF IInv, NothingCrossesReset
  <2> QED BY <2>3, <2>4, StackStepKeeps
<1> QED BY <1>1, <1>2, <1>3, <1>4, <1>5, <1>6, <1>7, <1>8 DEF Next

\* IInv is an invariant of the registry, for any number of events, owners,
\* generations and failures.
THEOREM RegistryInvariant == Spec => []IInv
<1> QED BY InitKeeps, NextKeeps, PTL DEF Spec

\* An open handle of the transport is the stored handle of a slot with owners,
\* and what arrives on it passes the fence (modelEventRegistry.ts,
\* subscriptionLifecycle.ts); a refused reset aside.
THEOREM OpenHandlesAreHeard == Spec => []OpenIsHeard
<1>1. IInv => OpenIsHeard
  <2> SUFFICES ASSUME IInv, NEW a \in handles
               PROVE  LET s == a.slot  r == runtime[s] IN
                      /\ r.stored = Handle(a) /\ owners[s] # {}
                      /\ LeftBehind(s) \/ /\ IsCurrentAttempt(r, generation, a)
                                          /\ r.fence = fence[s] /\ fence[s].generation = generation
    BY DEF OpenIsHeard
  <2>1. HandleKept(a) /\ a.slot \in Slots
    BY DEF IInv, Typed, Tracked, Attempts
  <2>2. RuntimeKept(runtime[a.slot], a.slot)
    BY <2>1 DEF IInv, SlotsKept
  <2>3. runtime[a.slot].active /\ runtime[a.slot] # NoRuntime
    BY <2>1, <2>2, HandleFacts, NoRuntimeFacts DEF HandleKept, RuntimeKept
  <2> QED BY <2>1, <2>2, <2>3 DEF HandleKept, RuntimeKept
<1> QED BY <1>1, RegistryInvariant, PTL

\* No payload has an effect in a generation after the one it was subscribed in
\* (deliver() in modelEventRegistry.ts), also when its own handler resets.
THEOREM NoPayloadCrossesReset == Spec => []NothingCrossesReset
<1>1. IInv => NothingCrossesReset
  BY DEF IInv
<1> QED BY <1>1, RegistryInvariant, PTL
-----------------------------------------------------------------------------
(* An owned slot is served: the inductive invariant.                       *)

(* A slot that has owners, none of them told otherwise.                    *)
Owned(s) == s \in Known \ forsaken /\ owners[s] # {} /\ ~LeftBehind(s)

(* The call in progress that subscribes a slot, and the loop that will try *)
(* it again after the network came back.                                   *)
Connects(f, s, r) == f.kind = "subscribe" /\ f.attempt.slot = s /\ Keeps(r, generation, f.attempt)
Reaches(f, s, r)  == f.kind = "network" /\ s \in f.todo /\ r.gate

Serving(s, r) ==
    /\ r.active /\ IsCurrentGeneration(r, generation)
    /\ \/ r.stored.kind = "open" \/ r.timer \/ (r.gate /\ ~online)
       \/ \E f \in OnStack(calls) : Connects(f, s, r) \/ Reaches(f, s, r)

(* Who waits has no handle, so that nothing stands in the way when the     *)
(* wait is over.                                                           *)
WaitKept(r) == r.timer \/ r.gate => r.stored = NoHandle

ServedKept(s) ==
    /\ WaitKept(runtime[s])
    /\ Owned(s) => Awaits(s, calls) \/ Serving(s, runtime[s])
ServedInv == \A s \in Slots : ServedKept(s)

(* The frames a slot is owed something by.                                 *)
Needed(f, s, r) ==
    \/ f.kind = "reset" \/ (f.kind = "restart" /\ s \in f.todo)
    \/ Connects(f, s, r) \/ Reaches(f, s, r)
Replaces(g, f, s) == g.kind = f.kind /\ g.kind \in {"restart", "network"} /\ s \in g.todo
Handed(s, r) ==
    \A f \in OnStack(calls) :
        Needed(f, s, r) => \E g \in OnStack(calls') : g = f \/ Replaces(g, f, s)

(* All but what a debounce holds.                                          *)
Twin(t, r) ==
    /\ t.id = r.id /\ t.active = r.active /\ t.captured = r.captured /\ t.epoch = r.epoch
    /\ t.token = r.token /\ t.stored = r.stored /\ t.timer = r.timer /\ t.gate = r.gate

\* A slot that a step does not touch stays served while no frame it needs is lost.
LEMMA StillServed ==
    ASSUME NEW s \in Slots, ServedKept(s), generation' = generation, online' => online,
           Owned(s)' => Owned(s), Twin(runtime'[s], runtime[s]), Handed(s, runtime[s])
    PROVE  ServedKept(s)'
<1> DEFINE r == runtime[s]  t == runtime'[s]
<1>1. WaitKept(t)
  BY DEF ServedKept, WaitKept, Twin
<1>2. ASSUME Owned(s), Awaits(s, calls) PROVE Awaits(s, calls')
  <2>1. PICK f \in OnStack(calls) : f.kind = "reset" \/ (f.kind = "restart" /\ s \in f.todo)
    BY <1>2 DEF Awaits
  <2>2. PICK g \in OnStack(calls') : g = f \/ Replaces(g, f, s)
    BY <2>1 DEF Handed, Needed
  <2> QED BY <2>1, <2>2 DEF Awaits, Replaces
<1>3. ASSUME Serving(s, r) PROVE Serving(s, runtime[s])'
  <2>1. t.active /\ IsCurrentGeneration(t, generation')
    BY <1>3 DEF Serving, Twin, IsCurrentGeneration
  <2>2. CASE r.stored.kind = "open" \/ r.timer \/ (r.gate /\ ~online)
    BY <2>1, <2>2 DEF Serving, Twin
  <2>3. CASE \E f \in OnStack(calls) : Connects(f, s, r) \/ Reaches(f, s, r)
    <3>1. PICK f \in OnStack(calls) : Connects(f, s, r) \/ Reaches(f, s, r)
      BY <2>3
    <3>2. PICK g \in OnStack(calls') : g = f \/ Replaces(g, f, s)
      BY <3>1 DEF Handed, Needed
    <3>3. CASE Connects(f, s, r)
      <4>1. g = f
        BY <3>2, <3>3 DEF Connects, Replaces
      <4>2. Connects(f, s, runtime[s])'
        BY <3>3 DEF Connects, Keeps, IsCurrentAttempt, IsCurrentGeneration, Twin
      <4> QED BY <2>1, <3>2, <4>1, <4>2 DEF Serving
    <3>4. CASE Reaches(f, s, r)
      <4>1. Reaches(g, s, runtime[s])'
        BY <3>2, <3>4 DEF Reaches, Replaces, Twin
      <4> QED BY <2>1, <3>2, <4>1 DEF Serving
    <3> QED BY <3>1, <3>3, <3>4
  <2> QED BY <1>3, <2>2, <2>3 DEF Serving
<1> QED BY <1>1, <1>2, <1>3 DEF ServedKept

\* A step that leaves the registry of a slot alone adds no claim to it.
LEMMA OwnedBefore ==
    ASSUME NEW s \in Slots, UNCHANGED <<generation, refused>>, fence'[s] = fence[s], declared'[s] = declared[s],
           owners'[s] \subseteq owners[s], s \in forsaken => s \in forsaken' \/ owners'[s] = {}
    PROVE  Owned(s)' => Owned(s)
BY DEF Owned, Known, LeftBehind

\* A slot nobody has a claim to needs no more than that its runtime does not wait.
LEMMA Unclaimed ==
    ASSUME NEW s \in Slots, WaitKept(runtime'[s]), ~Owned(s)'
    PROVE  ServedKept(s)'
BY DEF ServedKept, WaitKept

\* Nothing is lost by a call that is added.
LEMMA HandedOn ==
    ASSUME NEW s, NEW r, \A f \in OnStack(calls) : Needed(f, s, r) => f \in OnStack(calls')
    PROVE  Handed(s, r)
BY DEF Handed

\* Steps that touch neither a claim nor a subscription, and take from the
\* stack only what nobody needs.
LEMMA QuietServes ==
    ASSUME ServedInv, UNCHANGED <<generation, refused, fence, declared, owners, forsaken>>,
           online' => online, \A s \in Slots : Twin(runtime'[s], runtime[s]),
           \A f \in OnStack(calls) :
               \/ f \in OnStack(calls') \/ f.kind \in {"acquire", "deliver"}
               \/ f.kind \in {"network", "restart"} /\ f.todo = {}
    PROVE  ServedInv'
<1> SUFFICES ASSUME NEW s \in Slots PROVE ServedKept(s)'
  BY DEF ServedInv
<1>1. Handed(s, runtime[s])
  BY HandedOn DEF Needed, Connects, Reaches
<1>2. Owned(s)' => Owned(s)
  BY OwnedBefore
<1> QED BY <1>1, <1>2, StillServed DEF ServedInv

\* A slot whose subscription is being made.
LEMMA SubscribeServes ==
    ASSUME NEW s \in Slots, NEW r \in Runtimes, NEW by, NEW below \in Seq(Frames),
           Subscribe(s, r, by, below), r.active, IsCurrentGeneration(r, generation), generation' = generation,
           by \in {"acquire", "register", "retry", "restart"}, runtime \in [Slots -> Runtimes]
    PROVE  /\ ServedKept(s)'
           /\ \A q \in Slots \ {s} : runtime'[q] = runtime[q]
           /\ OnStack(below) \subseteq OnStack(calls')
<1>1. PICK t : t = Opening(r)
  OBVIOUS
<1>2. t \in Runtimes /\ SameUse(t, r) /\ t.stored = Placeholder
  BY <1>1, OpeningFacts
<1>3. ~t.timer /\ ~t.gate
  <2>1. PICK w : w = WithoutWait(r)
    OBVIOUS
  <2>2. w \in Runtimes
    BY <2>1, WithoutWaitFacts
  <2>3. ~w.timer /\ ~w.gate
    BY <2>1 DEF WithoutWait, Runtimes
  <2>4. t = [w EXCEPT !.token = @ + 1, !.stored = Placeholder]
    BY <1>1, <2>1 DEF Opening
  <2> QED BY <2>2, <2>3, <2>4 DEF Runtimes
<1>4. PICK f : f = [kind |-> "subscribe", attempt |-> Attempt(s, t), by |-> by]
  OBVIOUS
<1>5. f \in Frames /\ f.kind = "subscribe" /\ f.attempt = Attempt(s, t)
  <2>1. Attempt(s, t) \in Attempts
    BY <1>2 DEF Attempt, Attempts, Runtimes
  <2> QED BY <1>4, <2>1 DEF Frames, Subscribing
<1>6. runtime' = [runtime EXCEPT ![s] = t] /\ calls' = <<f>> \o below
  BY <1>1, <1>4 DEF Subscribe
<1>7. runtime'[s] = t /\ OnStack(calls') = {f} \cup OnStack(below)
  BY <1>5, <1>6, PushStack
<1>8. Connects(f, s, t)'
  BY <1>2, <1>5 DEF Connects, Keeps, IsCurrentAttempt, IsCurrentGeneration, SameUse, Attempt
<1>9. Serving(s, t)'
  BY <1>2, <1>7, <1>8 DEF Serving, IsCurrentGeneration, SameUse
<1>10. ServedKept(s)'
  BY <1>3, <1>7, <1>9 DEF ServedKept, WaitKept
<1> QED BY <1>6, <1>7, <1>10

\* A payload that waits for its debounce changes no subscription.
LEMMA HeldTwins ==
    ASSUME runtime \in [Slots -> Runtimes], NEW s \in Slots, NEW h,
           runtime' = [runtime EXCEPT ![s].held = h] \/ runtime' = runtime
    PROVE  \A q \in Slots : Twin(runtime'[q], runtime[q])
<1>1. ASSUME NEW q \in Slots PROVE Twin(runtime'[q], runtime[q])
  <2>1. \A r \in Runtimes : Twin([r EXCEPT !.held = h], r) /\ Twin(r, r)
    BY DEF Runtimes, Twin
  <2>2. runtime[q] \in Runtimes
    OBVIOUS
  <2>3. runtime'[q] = runtime[q] \/ runtime'[q] = [runtime[q] EXCEPT !.held = h]
    OBVIOUS
  <2> QED BY <2>1, <2>2, <2>3
<1> QED BY <1>1

\* Deliveries, the start of a mount, the end of a loop, and the loss of the network.
LEMMA QuietStep ==
    ASSUME IInv, ServedInv,
           \/ \E o \in Owners : Acquire(o)
           \/ DeliverStep \/ DeliverEnds \/ LoopEnds \/ LoseNetwork
           \/ \E a \in opened : TransportNext(a)
           \/ \E s \in Slots : DebounceFires(s)
    PROVE  ServedInv'
<1>0. runtime \in [Slots -> Runtimes] /\ calls \in Seq(Frames) /\ opened \subseteq Attempts
  BY DEF IInv, Typed
<1>1. \A q \in Slots : Twin(runtime[q], runtime[q])
  BY DEF Twin
<1>2. calls # <<>> => OnStack(calls) = {Head(calls)} \cup OnStack(Tail(calls))
  BY <1>0, PopStack
<1>3. CASE \E o \in Owners : Acquire(o)
  BY <1>1, <1>3, ShortStacks, QuietServes DEF Acquire
<1>4. CASE DeliverStep
  <2>1. PICK call, step : call = Head(calls) /\ step = NextStep[call.step]
    OBVIOUS
  <2>2. /\ calls # <<>> /\ call.kind = "deliver"
        /\ calls' = <<[call EXCEPT !.step = step]>> \o Tail(calls) \/ calls' = Tail(calls)
    BY <1>4, <2>1 DEF DeliverStep, Within
  <2>3. OnStack(Tail(calls)) \subseteq OnStack(calls')
    <3>1. call \in Delivering /\ call.step # "notify"
      BY <1>0, <1>4, <2>1, <2>2, PopStack, FrameTypes DEF DeliverStep
    <3>2. step \in {"commit", "invalidate", "notify"}
      BY <2>1, <3>1 DEF Delivering, NextStep
    <3>3. PICK g \in Frames : g = [call EXCEPT !.step = step]
      BY <3>1, <3>2 DEF Frames, Delivering
    <3>4. calls' = <<g>> \o Tail(calls) \/ calls' = Tail(calls)
      BY <2>2, <3>3
    <3>5. Tail(calls) \in Seq(Frames)
      BY <1>0, <2>2, PopStack
    <3>6. OnStack(Tail(calls)) \subseteq OnStack(<<g>> \o Tail(calls))
      BY <3>5, PushStack
    <3> QED BY <3>4, <3>6
  <2>4. UNCHANGED <<generation, online, refused, fence, declared, owners, forsaken, runtime>>
    BY <1>4 DEF DeliverStep, registry
  <2> QED BY <1>1, <1>2, <2>1, <2>2, <2>3, <2>4, QuietServes
<1>5. CASE DeliverEnds \/ LoopEnds
  <2>1. /\ calls # <<>> /\ calls' = Tail(calls)
        /\ \/ Head(calls).kind \in {"acquire", "deliver"}
           \/ Head(calls).kind \in {"network", "restart"} /\ Head(calls).todo = {}
    BY <1>5 DEF DeliverEnds, LoopEnds, Within
  <2>2. UNCHANGED <<generation, online, refused, fence, declared, owners, forsaken, runtime>>
    BY <1>5 DEF DeliverEnds, LoopEnds, registry
  <2> QED BY <1>1, <1>2, <2>1, <2>2, QuietServes
<1>6. CASE LoseNetwork
  BY <1>1, <1>6, QuietServes DEF LoseNetwork, registry
<1>7. CASE \E a \in opened : TransportNext(a)
  <2>1. PICK a \in opened : TransportNext(a)
    BY <1>7
  <2>2. a.slot \in Slots
    BY <1>0 DEF Attempts
  <2>3. UNCHANGED <<generation, online, refused, fence, declared, owners, forsaken>>
    BY <2>1 DEF TransportNext, registry
  <2>4. \A q \in Slots : Twin(runtime'[q], runtime[q])
    BY <1>0, <2>1, <2>2, HeldTwins DEF TransportNext
  <2>5. OnStack(calls) \subseteq OnStack(calls')
    <3>1. CASE a.slot \in Debounced
      BY <2>1, <3>1 DEF TransportNext
    <3>2. CASE a.slot \notin Debounced
      <4>1. PICK f : f = [kind |-> "deliver", slot |-> a.slot, fence |-> runtime[a.slot].fence,
                          opened |-> a.opened, step |-> "plan"]
        OBVIOUS
      <4>2. f \in Frames
        <5>1. runtime[a.slot].fence \in Fences /\ a.opened \in Nat
          BY <1>0, <2>2 DEF Runtimes, Attempts
        <5> QED BY <2>2, <4>1, <5>1 DEF Frames, Delivering
      <4>3. calls' = <<f>> \o calls
        BY <2>1, <3>2, <4>1 DEF TransportNext
      <4> QED BY <1>0, <4>2, <4>3, PushStack
    <3> QED BY <3>1, <3>2
  <2> QED BY <2>3, <2>4, <2>5, QuietServes
<1>8. CASE \E s \in Slots : DebounceFires(s)
  <2>1. PICK s \in Slots : DebounceFires(s)
    BY <1>8
  <2>2. \A q \in Slots : Twin(runtime'[q], runtime[q])
    BY <1>0, <2>1, HeldTwins DEF DebounceFires
  <2> QED BY <2>1, <2>2, ShortStacks, QuietServes DEF DebounceFires, registry
<1> QED BY <1>3, <1>4, <1>5, <1>6, <1>7, <1>8

\* The transport answers: what it opened is kept, or was not what the slot waits for.
LEMMA ReturnServes ==
    ASSUME IInv, ServedInv, SubscribeReturns
    PROVE  ServedInv'
<1>0. PICK a : a = Head(calls).attempt
  OBVIOUS
<1>1. calls # <<>> /\ Head(calls).kind = "subscribe" /\ calls' = Tail(calls) /\ calls \in Seq(Frames)
      /\ UNCHANGED <<generation, online, refused, fence, declared, owners, forsaken>>
  BY DEF SubscribeReturns, Within, IInv, Typed, registry
<1>2. a.slot \in Slots /\ OnStack(calls) = {Head(calls)} \cup OnStack(calls')
  BY <1>0, <1>1, PopStack, FrameTypes DEF Subscribing, Attempts
<1>3. runtime \in [Slots -> Runtimes]
  BY DEF IInv, Typed
<1> SUFFICES ASSUME NEW s \in Slots PROVE ServedKept(s)'
  BY DEF ServedInv
<1>4. Owned(s)' => Owned(s)
  BY <1>1, OwnedBefore
<1>5. CASE s # a.slot \/ ~Keeps(runtime[a.slot], generation, a)
  <2>1. runtime'[s] = runtime[s]
    BY <1>0, <1>3, <1>5 DEF SubscribeReturns
  <2>2. ~Needed(Head(calls), s, runtime[s])
    BY <1>0, <1>1, <1>5 DEF Needed, Connects, Reaches
  <2>3. Handed(s, runtime[s]) /\ Twin(runtime'[s], runtime[s])
    BY <1>2, <2>1, <2>2, HandedOn DEF Twin
  <2> QED BY <1>1, <1>4, <2>3, StillServed DEF ServedInv
<1>6. CASE s = a.slot /\ Keeps(runtime[a.slot], generation, a)
  <2>1. PICK r \in Runtimes : r = runtime[s]
    BY <1>3
  <2>2. runtime'[s] = [r EXCEPT !.stored = Handle(a)]
    BY <1>0, <1>2, <1>3, <1>6, <2>1 DEF SubscribeReturns
  <2>3. r.active /\ IsCurrentGeneration(r, generation) /\ ~r.timer /\ ~r.gate
    BY <1>6, <2>1, HandleFacts DEF Keeps, IsCurrentAttempt, ServedInv, ServedKept, WaitKept
  <2>4. /\ runtime'[s].active /\ runtime'[s].captured = r.captured
        /\ ~runtime'[s].timer /\ ~runtime'[s].gate /\ runtime'[s].stored.kind = "open"
    BY <2>2, <2>3 DEF Runtimes, Handle
  <2>5. Serving(s, runtime[s])'
    BY <1>1, <2>3, <2>4 DEF Serving, IsCurrentGeneration
  <2> QED BY <2>4, <2>5 DEF ServedKept, WaitKept
<1> QED BY <1>5, <1>6

\* A call that threw: the slot is given up, or nobody owns it any more, or it waited
\* for another call.
LEMMA ThrowServes ==
    ASSUME IInv, ServedInv, SubscribeThrows
    PROVE  ServedInv'
<1>0. PICK a, o, below : a = Head(calls).attempt /\ below = Tail(calls) /\ o = Head(below).owner
  OBVIOUS
<1>1. calls # <<>> /\ Head(calls).kind = "subscribe" /\ calls \in Seq(Frames) /\ Shaped(calls)
      /\ runtime \in [Slots -> Runtimes] /\ owners \in [Slots -> SUBSET Owners]
  BY DEF SubscribeThrows, Within, IInv, Typed, StackKept
<1>2. /\ Head(calls) \in Subscribing /\ below \in Seq(Frames)
      /\ OnStack(calls) = {Head(calls)} \cup OnStack(below)
      /\ Head(calls).by = "acquire" => below # <<>> /\ Head(below).kind = "acquire"
  BY <1>0, <1>1, PopStack, PopShape, FrameTypes
<1>3. a.slot \in Slots /\ Head(calls).by \in {"acquire", "register", "retry", "restart"}
  BY <1>0, <1>2 DEF Subscribing, Attempts
<1>4. UNCHANGED <<generation, fence, declared, refused, online>>
  BY DEF SubscribeThrows
<1> SUFFICES ASSUME NEW s \in Slots PROVE ServedKept(s)'
  BY DEF ServedInv
<1>5. ASSUME \A f \in OnStack(below) : f \in OnStack(calls') \/ f.kind = "acquire",
             runtime'[s] = runtime[s], Owned(s)' => Owned(s),
             s # a.slot \/ ~Keeps(runtime[a.slot], generation, a)
      PROVE  ServedKept(s)'
  <2>1. ~Needed(Head(calls), s, runtime[s])
    BY <1>0, <1>1, <1>5 DEF Needed, Connects, Reaches
  <2>2. \A f : f.kind = "acquire" => ~Needed(f, s, runtime[s])
    BY DEF Needed, Connects, Reaches
  <2>3. Handed(s, runtime[s]) /\ Twin(runtime'[s], runtime[s])
    BY <1>2, <1>5, <2>1, <2>2, HandedOn DEF Twin
  <2> QED BY <1>4, <1>5, <2>3, StillServed DEF ServedInv
<1>6. WaitKept(NoRuntime)
  BY DEF WaitKept, NoRuntime, Fresh
<1>7. CASE Head(calls).by = "acquire"
  <2>1. /\ StopSlots({a.slot} \cup {q \in Slots : owners[q] = {o}}) /\ calls' = Tail(below)
        /\ owners' = [q \in Slots |-> owners[q] \ {o}]
        /\ forsaken' = (forsaken \cup {a.slot}) \ {q \in Slots : owners[q] \subseteq {o}}
    BY <1>0, <1>7 DEF SubscribeThrows, ReleaseOwner
  <2>2. OnStack(below) = {Head(below)} \cup OnStack(calls')
    BY <1>2, <1>7, <2>1, PopStack
  <2>3. CASE s = a.slot \/ owners[s] = {o}
    <3>1. runtime'[s] = NoRuntime
      BY <2>1, <2>3 DEF StopSlots
    <3>2. ~Owned(s)'
      BY <2>1, <2>3 DEF Owned
    <3> QED BY <1>6, <3>1, <3>2, Unclaimed
  <2>4. CASE s # a.slot /\ owners[s] # {o}
    <3>1. runtime'[s] = runtime[s]
      BY <2>1, <2>4 DEF StopSlots
    <3>2. Owned(s)' => Owned(s)
      <4>1. owners'[s] \subseteq owners[s] /\ (owners[s] \subseteq {o} => owners'[s] = {})
        BY <2>1
      <4> QED BY <1>4, <2>1, <4>1, OwnedBefore
    <3> QED BY <1>2, <1>5, <1>7, <2>2, <2>4, <3>1, <3>2
  <2> QED BY <2>3, <2>4
<1>8. CASE Head(calls).by \in {"register", "restart"}
  <2>1. StopSlots({a.slot}) /\ calls' = below /\ owners' = owners /\ forsaken' = forsaken \cup {a.slot}
    BY <1>0, <1>8 DEF SubscribeThrows
  <2>2. CASE s = a.slot
    <3>1. runtime'[s] = NoRuntime /\ ~Owned(s)'
      BY <2>1, <2>2 DEF StopSlots, Owned
    <3> QED BY <1>6, <3>1, Unclaimed
  <2>3. CASE s # a.slot
    <3>1. runtime'[s] = runtime[s]
      BY <2>1, <2>3 DEF StopSlots
    <3>2. Owned(s)' => Owned(s)
      BY <1>4, <2>1, OwnedBefore
    <3> QED BY <1>5, <2>1, <2>3, <3>1, <3>2
  <2> QED BY <2>2, <2>3
<1>9. CASE Head(calls).by = "retry"
  <2>1. calls' = below /\ owners' = owners
    BY <1>0, <1>9 DEF SubscribeThrows
  <2>2. CASE s = a.slot /\ Keeps(runtime[s], generation, a)
    <3>1. runtime' = [runtime EXCEPT ![a.slot].stored = NoHandle] /\ forsaken' = forsaken \cup {a.slot}
      BY <1>0, <1>9, <2>2 DEF SubscribeThrows
    <3>2. PICK r \in Runtimes : r = runtime[s]
      BY <1>1
    <3>3. runtime'[s] = [r EXCEPT !.stored = NoHandle]
      BY <1>1, <1>3, <2>2, <3>1, <3>2
    <3>4. WaitKept(runtime'[s])
      BY <3>3 DEF Runtimes, WaitKept
    <3> QED BY <2>2, <3>1, <3>4, Unclaimed DEF Owned
  <2>3. CASE ~(s = a.slot /\ Keeps(runtime[s], generation, a))
    <3>1. runtime'[s] = runtime[s] /\ forsaken \subseteq forsaken'
      <4>1. CASE Keeps(runtime[a.slot], generation, a)
        <5>1. runtime' = [runtime EXCEPT ![a.slot].stored = NoHandle] /\ forsaken' = forsaken \cup {a.slot}
          BY <1>0, <1>9, <4>1 DEF SubscribeThrows
        <5> QED BY <1>1, <2>3, <4>1, <5>1
      <4>2. CASE ~Keeps(runtime[a.slot], generation, a)
        BY <1>0, <1>9, <4>2 DEF SubscribeThrows
      <4> QED BY <4>1, <4>2
    <3>2. Owned(s)' => Owned(s)
      BY <1>4, <2>1, <3>1, OwnedBefore
    <3> QED BY <1>5, <2>1, <2>3, <3>1, <3>2
  <2> QED BY <2>2, <2>3
<1> QED BY <1>3, <1>7, <1>8, <1>9

\* An error on the open subscription: a timer, or the gate while there is no network.
LEMMA ErrorServes ==
    ASSUME IInv, ServedInv, NEW a \in opened, TransportError(a)
    PROVE  ServedInv'
<1>1. /\ runtime \in [Slots -> Runtimes] /\ a.slot \in Slots /\ online \in BOOLEAN
      /\ runtime' = [runtime EXCEPT ![a.slot] = Failing(runtime[a.slot], online)]
      /\ IsCurrentAttempt(runtime[a.slot], generation, a)
      /\ UNCHANGED <<generation, online, refused, fence, declared, owners, calls, forsaken>>
  BY DEF TransportError, IInv, Typed, Attempts, registry
<1> SUFFICES ASSUME NEW s \in Slots PROVE ServedKept(s)'
  BY DEF ServedInv
<1>2. CASE s # a.slot
  <2>1. Owned(s)' => Owned(s)
    BY <1>1, OwnedBefore
  <2>2. Handed(s, runtime[s]) /\ Twin(runtime'[s], runtime[s])
    BY <1>1, <1>2, HandedOn DEF Twin
  <2> QED BY <1>1, <2>1, <2>2, StillServed DEF ServedInv
<1>3. CASE s = a.slot
  <2>1. PICK r, t : r = runtime[s] /\ t = Failing(r, online)
    OBVIOUS
  <2>2. r \in Runtimes /\ t \in Runtimes /\ SameUse(t, r) /\ t.stored = NoHandle /\ runtime'[s] = t
    BY <1>1, <1>3, <2>1, FailingFacts
  <2>3. t.timer = online /\ t.gate = ~online
    <3>1. PICK w : w = WithoutWait(r)
      OBVIOUS
    <3>2. w \in Runtimes
      BY <2>2, <3>1, WithoutWaitFacts
    <3>3. t = [w EXCEPT !.stored = NoHandle, !.timer = online, !.gate = ~online]
      BY <2>1, <3>1 DEF Failing
    <3> QED BY <3>2, <3>3 DEF Runtimes
  <2>4. t.active /\ IsCurrentGeneration(t, generation)
    BY <1>1, <1>3, <2>1, <2>2 DEF IsCurrentAttempt, SameUse, IsCurrentGeneration
  <2>5. Serving(s, runtime[s])'
    BY <1>1, <2>2, <2>3, <2>4 DEF Serving, IsCurrentGeneration
  <2> QED BY <2>2, <2>5 DEF ServedKept, WaitKept
<1> QED BY <1>2, <1>3

\* An unmount: what loses its last owner has no claim left.
LEMMA ReleaseServes ==
    ASSUME IInv, ServedInv, NEW o \in Owners, Release(o)
    PROVE  ServedInv'
<1>1. /\ StopSlots({q \in Slots : owners[q] = {o}}) /\ owners' = [q \in Slots |-> owners[q] \ {o}]
      /\ forsaken' = forsaken \ {q \in Slots : owners[q] = {o}}
      /\ UNCHANGED <<generation, online, declared, fence, refused, calls>>
  BY DEF Release, ReleaseOwner
<1> SUFFICES ASSUME NEW s \in Slots PROVE ServedKept(s)'
  BY DEF ServedInv
<1>2. CASE owners[s] = {o}
  <2>1. runtime'[s] = NoRuntime /\ ~Owned(s)'
    BY <1>1, <1>2 DEF StopSlots, Owned
  <2> QED BY <2>1, Unclaimed DEF WaitKept, NoRuntime, Fresh
<1>3. CASE owners[s] # {o}
  <2>1. runtime'[s] = runtime[s]
    BY <1>1, <1>3 DEF StopSlots
  <2>2. Owned(s)' => Owned(s)
    <3>1. owners'[s] \subseteq owners[s] /\ (s \in forsaken => s \in forsaken')
      BY <1>1, <1>3
    <3> QED BY <1>1, <3>1, OwnedBefore
  <2>3. Handed(s, runtime[s]) /\ Twin(runtime'[s], runtime[s])
    BY <1>1, <2>1, HandedOn DEF Twin
  <2> QED BY <1>1, <2>2, <2>3, StillServed DEF ServedInv
<1> QED BY <1>2, <1>3

\* A wait that is over: nothing stands in the way of the next attempt, unless the
\* slot has no claim.
LEMMA WaitOver ==
    ASSUME ServedInv, NEW s \in Slots, NEW r \in Runtimes, r.timer = runtime[s].timer \/ ~r.timer,
           r.active = runtime[s].active, r.captured = runtime[s].captured, r.stored = runtime[s].stored,
           runtime[s].timer \/ runtime[s].gate, Serving(s, runtime[s])
    PROVE  Subscribable(r, generation)
BY DEF ServedInv, ServedKept, WaitKept, Serving, Subscribable, IsCurrentGeneration

\* The retry timer fires.
LEMMA RetryServes ==
    ASSUME IInv, ServedInv, NEW s \in Slots, RetryTimer(s)
    PROVE  ServedInv'
<1>0. PICK r : r = [runtime[s] EXCEPT !.timer = FALSE]
  OBVIOUS
<1>1. /\ runtime \in [Slots -> Runtimes] /\ calls = <<>> /\ runtime[s].timer /\ calls \in Seq(Frames)
      /\ UNCHANGED <<generation, online, refused, declared, fence, owners, forsaken>>
  BY DEF RetryTimer, IInv, Typed, registry
<1>2. /\ r \in Runtimes /\ r.active = runtime[s].active /\ r.captured = runtime[s].captured
      /\ r.stored = runtime[s].stored /\ ~r.timer /\ r.gate = runtime[s].gate
  BY <1>0, <1>1 DEF Runtimes
<1>3. \A q \in Slots : Owned(q)' => Owned(q)
  BY <1>1, OwnedBefore
<1>4. ASSUME NEW q \in Slots \ {s}, runtime'[q] = runtime[q], OnStack(calls) \subseteq OnStack(calls')
      PROVE  ServedKept(q)'
  <2>1. Handed(q, runtime[q]) /\ Twin(runtime'[q], runtime[q])
    BY <1>4, HandedOn DEF Twin
  <2> QED BY <1>1, <1>3, <2>1, StillServed DEF ServedInv
<1>5. CASE Subscribable(r, generation)
  <2>1. Subscribe(s, r, "retry", calls)
    BY <1>0, <1>5 DEF RetryTimer
  <2>2. /\ ServedKept(s)' /\ OnStack(calls) \subseteq OnStack(calls')
        /\ \A q \in Slots \ {s} : runtime'[q] = runtime[q]
    BY <1>1, <1>2, <1>5, <2>1, SubscribeServes DEF Subscribable
  <2> QED BY <1>4, <2>2 DEF ServedInv
<1>6. CASE ~Subscribable(r, generation)
  <2>1. runtime' = [runtime EXCEPT ![s] = r] /\ calls' = calls
    BY <1>0, <1>6 DEF RetryTimer
  <2>2. ~Owned(s)
    <3>1. ~Awaits(s, calls)
      BY <1>1, ShortStacks DEF Awaits
    <3>2. ~Serving(s, runtime[s])
      BY <1>1, <1>2, <1>6, WaitOver
    <3> QED BY <3>1, <3>2 DEF ServedInv, ServedKept
  <2>3. WaitKept(runtime'[s])
    BY <1>1, <1>2, <2>1 DEF ServedInv, ServedKept, WaitKept
  <2>4. ServedKept(s)'
    BY <1>3, <2>2, <2>3, Unclaimed
  <2> QED BY <1>1, <1>4, <2>1, <2>4 DEF ServedInv
<1> QED BY <1>5, <1>6

\* The network returns: who waits behind the gate is in the loop.
LEMMA RegainServes ==
    ASSUME IInv, ServedInv, RegainNetwork
    PROVE  ServedInv'
<1>0. PICK f : f = [kind |-> "network", todo |-> {q \in Slots : runtime[q].gate}]
  OBVIOUS
<1>1. /\ calls = <<>> /\ calls' = <<f>> /\ f \in Frames
      /\ UNCHANGED <<generation, refused, declared, fence, owners, runtime, forsaken>>
  BY <1>0 DEF RegainNetwork, registry, Frames, Looping
<1>2. OnStack(calls) = {} /\ OnStack(calls') = {f}
  BY <1>1, ShortStacks
<1> SUFFICES ASSUME NEW s \in Slots PROVE ServedKept(s)'
  BY DEF ServedInv
<1>3. WaitKept(runtime'[s])
  BY <1>1 DEF ServedInv, ServedKept, WaitKept
<1>4. ASSUME Owned(s)' PROVE Serving(s, runtime[s])'
  <2>1. Owned(s)
    BY <1>1, <1>4, OwnedBefore
  <2>2. Serving(s, runtime[s])
    BY <1>2, <2>1 DEF ServedInv, ServedKept, Awaits
  <2>3. runtime[s].gate => Reaches(f, s, runtime[s])
    BY <1>0 DEF Reaches
  <2>4. runtime[s].stored.kind = "open" \/ runtime[s].timer \/ runtime[s].gate
    BY <1>2, <2>2 DEF Serving
  <2>5. runtime'[s] = runtime[s] /\ (runtime[s].gate => Reaches(f, s, runtime[s])')
    BY <1>1, <2>3 DEF Reaches
  <2> QED BY <1>1, <1>2, <2>2, <2>4, <2>5 DEF Serving, IsCurrentGeneration
<1> QED BY <1>3, <1>4 DEF ServedKept, WaitKept

\* Its loop comes to a slot.
LEMMA NetworkServes ==
    ASSUME IInv, ServedInv, NetworkSlot
    PROVE  ServedInv'
<1>1. PICK s \in Head(calls).todo :
          LET below == <<[Head(calls) EXCEPT !.todo = @ \ {s}]>> \o Tail(calls)
              r     == [runtime[s] EXCEPT !.gate = FALSE] IN
          IF runtime[s].gate /\ Subscribable(r, generation)
          THEN Subscribe(s, r, "retry", below)
          ELSE /\ runtime' = [runtime EXCEPT ![s] = r]
               /\ calls' = below /\ UNCHANGED opened
  BY DEF NetworkSlot
<1>2. PICK r, g, below : /\ r = [runtime[s] EXCEPT !.gate = FALSE]
                         /\ g = [Head(calls) EXCEPT !.todo = @ \ {s}]
                         /\ below = <<g>> \o Tail(calls)
  OBVIOUS
<1>3. /\ calls # <<>> /\ Head(calls).kind = "network" /\ calls \in Seq(Frames) /\ Shaped(calls)
      /\ runtime \in [Slots -> Runtimes]
      /\ UNCHANGED <<generation, online, refused, declared, fence, owners, forsaken>>
  BY DEF NetworkSlot, Within, registry, IInv, Typed, StackKept
<1>4. Head(calls) \in Looping /\ Tail(calls) = <<>> /\ OnStack(calls) = {Head(calls)}
  BY <1>3, PopStack, PopShape, FrameTypes, ShortStacks
<1>5. s \in Slots /\ g \in Frames /\ g.kind = "network" /\ g.todo = Head(calls).todo \ {s}
  BY <1>2, <1>3, <1>4 DEF Looping, Frames
<1>6. below \in Seq(Frames) /\ OnStack(below) = {g}
  <2>1. below = <<g>>
    BY <1>2, <1>4, <1>5, ShortStacks
  <2> QED BY <1>5, <2>1, ShortStacks
<1>7. /\ r \in Runtimes /\ r.active = runtime[s].active /\ r.captured = runtime[s].captured
      /\ r.stored = runtime[s].stored /\ r.timer = runtime[s].timer /\ ~r.gate
  BY <1>2, <1>3, <1>5 DEF Runtimes
<1>8. \A q \in Slots : Owned(q)' => Owned(q)
  BY <1>3, OwnedBefore
<1>9. ASSUME NEW q \in Slots \ {s}, runtime'[q] = runtime[q], g \in OnStack(calls')
      PROVE  ServedKept(q)'
  <2>1. Needed(Head(calls), q, runtime[q]) => Replaces(g, Head(calls), q)
    BY <1>3, <1>5 DEF Needed, Replaces, Connects, Reaches
  <2>2. Handed(q, runtime[q]) /\ Twin(runtime'[q], runtime[q])
    BY <1>4, <1>9, <2>1 DEF Handed, Twin
  <2> QED BY <1>3, <1>8, <2>2, StillServed DEF ServedInv
<1>10. CASE runtime[s].gate /\ Subscribable(r, generation)
  <2>1. Subscribe(s, r, "retry", below)
    BY <1>1, <1>2, <1>10
  <2>2. /\ ServedKept(s)' /\ OnStack(below) \subseteq OnStack(calls')
        /\ \A q \in Slots \ {s} : runtime'[q] = runtime[q]
    BY <1>3, <1>5, <1>6, <1>7, <1>10, <2>1, SubscribeServes DEF Subscribable
  <2> QED BY <1>6, <1>9, <2>2 DEF ServedInv
<1>11. CASE ~(runtime[s].gate /\ Subscribable(r, generation))
  <2>1. runtime' = [runtime EXCEPT ![s] = r] /\ calls' = below
    BY <1>1, <1>2, <1>11
  <2>2. runtime'[s] = r /\ \A q \in Slots \ {s} : runtime'[q] = runtime[q]
    BY <1>3, <1>5, <2>1
  <2>3. WaitKept(r)
    BY <1>5, <1>7 DEF ServedInv, ServedKept, WaitKept
  <2>4. ASSUME Owned(s)' PROVE Serving(s, runtime[s])'
    <3>1. Serving(s, runtime[s])
      BY <1>3, <1>4, <1>5, <1>8, <2>4 DEF ServedInv, ServedKept, Awaits
    <3>2. ~runtime[s].gate
      BY <1>5, <1>7, <1>11, <3>1, WaitOver
    <3>3. r.stored.kind = "open" \/ r.timer
      BY <1>3, <1>4, <1>7, <3>1, <3>2 DEF Serving, Connects, Reaches
    <3> QED BY <1>3, <1>7, <2>2, <3>1, <3>3 DEF Serving, IsCurrentGeneration
  <2>5. ServedKept(s)'
    BY <2>2, <2>3, <2>4 DEF ServedKept, WaitKept
  <2> QED BY <1>6, <1>9, <2>1, <2>2, <2>5 DEF ServedInv
<1> QED BY <1>10, <1>11

\* A mount comes to a slot: it is served already, or its subscription begins.
LEMMA AcquireServes ==
    ASSUME IInv, ServedInv, AcquireSlot
    PROVE  ServedInv'
<1>0. PICK call : call = Head(calls)
  OBVIOUS
<1>1. PICK s \in call.todo :
          /\ owners' = [owners EXCEPT ![s] = @ \cup {call.owner}]
          /\ ActivateSlot(s, RuntimeOf(s, fence[s]), "acquire", <<[call EXCEPT !.todo = @ \ {s}]>> \o Tail(calls))
  BY <1>0 DEF AcquireSlot
<1>2. PICK r, g, below : /\ r = RuntimeOf(s, fence[s]) /\ g = [call EXCEPT !.todo = @ \ {s}]
                         /\ below = <<g>> \o Tail(calls)
  OBVIOUS
<1>3. /\ calls # <<>> /\ call.kind = "acquire" /\ calls \in Seq(Frames) /\ Shaped(calls)
      /\ runtime \in [Slots -> Runtimes] /\ owners \in [Slots -> SUBSET Owners]
      /\ fence \in [Slots -> Fences] /\ made \in [Slots -> Nat] /\ generation \in Nat
      /\ UNCHANGED <<generation, online, refused, declared, fence>>
  BY <1>0 DEF AcquireSlot, Within, IInv, Typed, StackKept
<1>4. call \in Acquiring /\ Tail(calls) = <<>> /\ OnStack(calls) = {call}
  BY <1>0, <1>3, PopStack, PopShape, FrameTypes, ShortStacks
<1>5. s \in Slots /\ g \in Frames
  BY <1>2, <1>3, <1>4 DEF Acquiring, Frames
<1>6. below \in Seq(Frames)
  <2>1. below = <<g>>
    BY <1>2, <1>4, <1>5, ShortStacks
  <2> QED BY <1>5, <2>1, ShortStacks
<1>7. ActivateSlot(s, r, "acquire", below)
  BY <1>1, <1>2
<1>8. r \in Runtimes /\ (r = runtime[s] \/ ~r.active)
  <2>1. Fresh(made[s] + 1, fence[s]) \in Runtimes
    BY <1>3, <1>5, FreshIsRuntime
  <2> QED BY <1>2, <1>3, <1>5, <2>1 DEF RuntimeOf, Fresh
<1>9. ASSUME NEW q \in Slots, runtime'[q] = runtime[q], Owned(q)' => Owned(q)
      PROVE  ServedKept(q)'
  <2>1. Handed(q, runtime[q]) /\ Twin(runtime'[q], runtime[q])
    BY <1>3, <1>4, <1>9 DEF Handed, Needed, Connects, Reaches, Twin
  <2> QED BY <1>3, <1>9, <2>1, StillServed DEF ServedInv
<1>10. ASSUME NEW q \in Slots \ {s}, forsaken' = forsaken \ {s} \/ forsaken' = forsaken
       PROVE  Owned(q)' => Owned(q)
  BY <1>1, <1>3, <1>10, OwnedBefore
<1>11. CASE r.active /\ IsCurrentGeneration(r, generation)
  <2>1. UNCHANGED <<runtime, forsaken>>
    BY <1>7, <1>11 DEF ActivateSlot
  <2>2. Owned(s)' => Owned(s)
    <3>1. owners[s] # {}
      BY <1>5, <1>8, <1>11 DEF IInv, SlotsKept, RuntimeKept
    <3> QED BY <1>3, <2>1, <3>1 DEF Owned, Known, LeftBehind
  <2> QED BY <1>9, <1>10, <2>1, <2>2 DEF ServedInv
<1>12. CASE ~(r.active /\ IsCurrentGeneration(r, generation))
  <2>1. PICK n : n = Activated(r, generation)
    OBVIOUS
  <2>2. Subscribe(s, n, "acquire", below) /\ forsaken' = forsaken \ {s}
    BY <1>7, <1>12, <2>1 DEF ActivateSlot
  <2>3. n \in Runtimes /\ n.active /\ IsCurrentGeneration(n, generation)
    <3>1. r \in Runtimes /\ generation \in Nat /\ n = Activated(r, generation)
      BY <1>3, <1>8, <2>1
    <3>2. n \in Runtimes /\ n.active /\ n.captured = generation
      BY ONLY <3>1, ActivatedFacts
    <3> QED BY <3>2 DEF IsCurrentGeneration
  <2>4. ServedKept(s)' /\ \A q \in Slots \ {s} : runtime'[q] = runtime[q]
    BY <1>3, <1>5, <1>6, <2>2, <2>3, SubscribeServes
  <2> QED BY <1>9, <1>10, <2>2, <2>4 DEF ServedInv
<1> QED BY <1>11, <1>12

\* The restart of a reset comes to a slot.
LEMMA RestartSlotServes ==
    ASSUME IInv, ServedInv, RestartSlot
    PROVE  ServedInv'
<1>0. PICK call : call = Head(calls)
  OBVIOUS
<1>1. PICK s \in call.todo :
          LET f     == [id |-> made[s] + 1, generation |-> generation]
              below == <<[call EXCEPT !.todo = @ \ {s}]>> \o Tail(calls) IN
          /\ fence' = [fence EXCEPT ![s] = f]
          /\ IF owners[s] = {}
             THEN calls' = below /\ UNCHANGED <<runtime, opened, handles, forsaken>>
             ELSE ActivateSlot(s, RuntimeOf(s, f), "restart", below)
  BY <1>0 DEF RestartSlot
<1>2. PICK f, g, below : /\ f = [id |-> made[s] + 1, generation |-> generation]
                         /\ g = [call EXCEPT !.todo = @ \ {s}]
                         /\ below = <<g>> \o Tail(calls)
  OBVIOUS
<1>3. /\ calls # <<>> /\ call.kind = "restart" /\ calls \in Seq(Frames)
      /\ runtime \in [Slots -> Runtimes] /\ fence \in [Slots -> Fences] /\ made \in [Slots -> Nat]
      /\ generation \in Nat
      /\ UNCHANGED <<generation, online, refused, declared, owners>>
  BY <1>0 DEF RestartSlot, Within, IInv, Typed
<1>4. /\ call \in Looping /\ Tail(calls) \in Seq(Frames) /\ OnStack(calls) = {call} \cup OnStack(Tail(calls))
  BY <1>0, <1>3, PopStack, FrameTypes
<1>5. s \in Slots /\ runtime[s] = NoRuntime
  BY <1>3, <1>4 DEF Looping, IInv, StackKept, FrameKept
<1>6. g \in Frames /\ g.kind = "restart" /\ g.todo = call.todo \ {s}
  BY <1>2, <1>3, <1>4 DEF Looping, Frames
<1>7. below \in Seq(Frames) /\ OnStack(below) = {g} \cup OnStack(Tail(calls))
  BY <1>2, <1>4, <1>6, PushStack
<1>8. f \in Fences /\ \A q \in Slots \ {s} : fence'[q] = fence[q]
  BY <1>1, <1>2, <1>3, <1>5 DEF Fences
<1>9. ASSUME NEW q \in Slots \ {s}, runtime'[q] = runtime[q], OnStack(below) \subseteq OnStack(calls'),
             q \in forsaken => q \in forsaken'
      PROVE  ServedKept(q)'
  <2>1. Owned(q)' => Owned(q)
    BY <1>3, <1>8, <1>9, OwnedBefore
  <2>2. Needed(call, q, runtime[q]) => Replaces(g, call, q)
    BY <1>3, <1>6 DEF Needed, Replaces, Connects, Reaches
  <2>3. Handed(q, runtime[q]) /\ Twin(runtime'[q], runtime[q])
    BY <1>4, <1>7, <1>9, <2>2 DEF Handed, Twin
  <2> QED BY <1>3, <2>1, <2>3, StillServed DEF ServedInv
<1>10. CASE owners[s] = {}
  <2>1. calls' = below /\ UNCHANGED <<runtime, forsaken>>
    BY <1>1, <1>2, <1>10
  <2>2. ServedKept(s)'
    BY <1>3, <1>5, <1>10, <2>1, Unclaimed DEF Owned, WaitKept, NoRuntime, Fresh
  <2> QED BY <1>9, <2>1, <2>2 DEF ServedInv
<1>11. CASE owners[s] # {}
  <2>1. PICK r, n : r = Fresh(made[s] + 1, f) /\ n = Activated(r, generation)
    OBVIOUS
  <2>2. r \in Runtimes /\ ~r.active
    <3>1. r \in Runtimes
      BY <1>3, <1>5, <1>8, <2>1, FreshIsRuntime
    <3> QED BY <2>1, <3>1 DEF Fresh
  <2>3. ActivateSlot(s, r, "restart", below)
    BY <1>1, <1>2, <1>5, <1>11, <2>1 DEF RuntimeOf
  <2>4. Subscribe(s, n, "restart", below) /\ forsaken' = forsaken \ {s}
    BY <2>1, <2>2, <2>3 DEF ActivateSlot
  <2>5. n \in Runtimes /\ n.active /\ IsCurrentGeneration(n, generation)
    <3>1. n \in Runtimes /\ n.active /\ n.captured = generation
      <4>1. r \in Runtimes /\ generation \in Nat /\ n = Activated(r, generation)
        BY <1>3, <2>1, <2>2
      <4> QED BY ONLY <4>1, ActivatedFacts
    <3> QED BY <3>1 DEF IsCurrentGeneration
  <2>6. /\ ServedKept(s)' /\ OnStack(below) \subseteq OnStack(calls')
        /\ \A q \in Slots \ {s} : runtime'[q] = runtime[q]
    BY <1>3, <1>5, <1>7, <2>4, <2>5, SubscribeServes
  <2> QED BY <1>9, <2>4, <2>6 DEF ServedInv
<1> QED BY <1>10, <1>11

\* A definition: the slot begins anew, or nobody is there to own it.
LEMMA RegisterServes ==
    ASSUME IInv, ServedInv, NEW s \in Slots, Register(s)
    PROVE  ServedInv'
<1>1. PICK f, own : /\ f = [id |-> made[s] + 1, generation |-> generation]
                    /\ own = IF declared[s] = 0 THEN activeOwners ELSE owners[s]
  OBVIOUS
<1>2. /\ declared' = [declared EXCEPT ![s] = generation]
      /\ fence' = [fence EXCEPT ![s] = f] /\ owners' = [owners EXCEPT ![s] = own]
      /\ UNCHANGED <<generation, refused, online>>
  BY <1>1 DEF Register
<1>3. /\ made \in [Slots -> Nat] /\ generation \in Nat /\ fence \in [Slots -> Fences]
      /\ declared \in [Slots -> Nat] /\ owners \in [Slots -> SUBSET Owners]
      /\ runtime \in [Slots -> Runtimes] /\ calls \in Seq(Frames)
  BY DEF IInv, Typed
<1>4. f \in Fences
  BY <1>1, <1>3 DEF Fences
<1>5. ASSUME NEW q \in Slots \ {s}, runtime'[q] = runtime[q], OnStack(calls) \subseteq OnStack(calls'),
             q \in forsaken => q \in forsaken'
      PROVE  ServedKept(q)'
  <2>1. declared'[q] = declared[q] /\ fence'[q] = fence[q] /\ owners'[q] = owners[q]
    BY <1>2, <1>3
  <2>2. Owned(q)' => Owned(q)
    BY <1>2, <1>5, <2>1, OwnedBefore
  <2>3. Handed(q, runtime[q]) /\ Twin(runtime'[q], runtime[q])
    BY <1>5, HandedOn DEF Twin
  <2> QED BY <1>2, <2>2, <2>3, StillServed DEF ServedInv
<1>6. CASE own = {}
  <2>1. StopSlots({s}) /\ calls' = calls /\ forsaken' = forsaken
    BY <1>1, <1>6 DEF Register
  <2>2. runtime'[s] = NoRuntime /\ \A q \in Slots \ {s} : runtime'[q] = runtime[q]
    BY <2>1 DEF StopSlots
  <2>3. owners'[s] = {}
    BY <1>2, <1>3, <1>6
  <2>4. ServedKept(s)'
    BY <2>2, <2>3, Unclaimed DEF Owned, WaitKept, NoRuntime, Fresh
  <2> QED BY <1>5, <2>1, <2>2, <2>4 DEF ServedInv
<1>7. CASE own # {}
  <2>1. PICK r, n : r = Fresh(made[s] + 1, f) /\ n = Activated(r, generation)
    OBVIOUS
  <2>2. r \in Runtimes
    BY <1>3, <1>4, <2>1, FreshIsRuntime
  <2>3. Subscribe(s, n, "register", calls) /\ forsaken' = forsaken \ {s}
    BY <1>1, <1>7, <2>1 DEF Register
  <2>4. n \in Runtimes /\ n.active /\ IsCurrentGeneration(n, generation)
    <3>1. n \in Runtimes /\ n.active /\ n.captured = generation
      <4>1. r \in Runtimes /\ generation \in Nat /\ n = Activated(r, generation)
        BY <1>3, <2>1, <2>2
      <4> QED BY ONLY <4>1, ActivatedFacts
    <3> QED BY <3>1 DEF IsCurrentGeneration
  <2>5. /\ ServedKept(s)' /\ OnStack(calls) \subseteq OnStack(calls')
        /\ \A q \in Slots \ {s} : runtime'[q] = runtime[q]
    BY <1>2, <1>3, <2>3, <2>4, SubscribeServes
  <2> QED BY <1>5, <2>3, <2>5 DEF ServedInv
<1> QED BY <1>6, <1>7

\* The restart stops every slot and has every declared one before it.
LEMMA RestartServes ==
    ASSUME IInv, ServedInv, Restart
    PROVE  ServedInv'
<1>0. PICK f : f = [kind |-> "restart", todo |-> Known]
  OBVIOUS
<1>1. /\ calls # <<>> /\ calls \in Seq(Frames) /\ calls' = <<f>> \o Tail(calls) /\ StopSlots(Slots)
      /\ f \in Frames /\ Known' = Known
  BY <1>0 DEF Restart, Within, IInv, Typed, Frames, Looping, Known, registry
<1>2. f \in OnStack(calls')
  <2>1. Tail(calls) \in Seq(Frames)
    BY <1>1, PopStack
  <2> QED BY <1>1, <2>1, PushStack
<1> SUFFICES ASSUME NEW s \in Slots PROVE ServedKept(s)'
  BY DEF ServedInv
<1>3. WaitKept(runtime'[s])
  BY <1>1 DEF StopSlots, WaitKept, NoRuntime, Fresh
<1>4. ASSUME Owned(s)' PROVE Awaits(s, calls')
  BY <1>0, <1>1, <1>2, <1>4 DEF Owned, Awaits
<1> QED BY <1>3, <1>4 DEF ServedKept, WaitKept

\* A reset has the restart before it; a refused one leaves every fence behind.
LEMMA ResetServes ==
    ASSUME IInv, ServedInv, NEW refuses \in BOOLEAN, ResetRuntime(refuses)
    PROVE  ServedInv'
<1>1. /\ generation' = generation + 1 /\ refused' = refuses /\ generation \in Nat
      /\ runtime \in [Slots -> Runtimes] /\ fence \in [Slots -> Fences] /\ calls \in Seq(Frames)
      /\ fence' = fence
  BY DEF ResetRuntime, IInv, Typed, registry
<1> SUFFICES ASSUME NEW s \in Slots PROVE ServedKept(s)'
  BY DEF ServedInv
<1>2. CASE refuses
  <2>1. runtime' = runtime
    BY <1>2 DEF ResetRuntime
  <2>2. LeftBehind(s)'
    <3>1. fence[s].generation <= generation /\ fence[s].generation \in Nat
      BY <1>1 DEF IInv, SlotsKept, FenceKept, Fences
    <3> QED BY <1>1, <1>2, <3>1 DEF LeftBehind
  <2> QED BY <2>1, <2>2, Unclaimed DEF Owned, ServedInv, ServedKept, WaitKept
<1>3. CASE ~refuses
  <2>1. PICK f : f = [kind |-> "reset"]
    OBVIOUS
  <2>2. /\ calls' = <<f>> \o calls /\ f \in Frames
        /\ runtime'[s] = runtime[s] \/ runtime'[s] = Stopped(runtime[s])
    BY <1>1, <1>3, <2>1 DEF ResetRuntime, Frames, Resetting
  <2>3. Awaits(s, calls')
    BY <1>1, <2>1, <2>2, PushStack DEF Awaits
  <2>4. WaitKept(runtime'[s])
    BY <1>1, <2>2, StoppedFacts DEF ServedInv, ServedKept, WaitKept
  <2> QED BY <2>3, <2>4 DEF ServedKept, WaitKept
<1> QED BY <1>2, <1>3

LEMMA ServedInit == Init => ServedInv
BY DEF Init, ServedInv, ServedKept, Owned, WaitKept, NoRuntime, Fresh

LEMMA ServedNext == IInv /\ ServedInv /\ [Next]_vars => ServedInv'
<1> SUFFICES ASSUME IInv, ServedInv, [Next]_vars PROVE ServedInv'
  OBVIOUS
<1>1. CASE Runs
  BY <1>1, AcquireServes, RestartSlotServes, RestartServes, NetworkServes, ReturnServes, QuietStep DEF Runs
<1>2. CASE SubscribeThrows
  BY <1>2, ThrowServes
<1>3. CASE \E o \in Owners : Acquire(o) \/ Release(o)
  BY <1>3, QuietStep, ReleaseServes
<1>4. CASE \E s \in Slots : Register(s) \/ DebounceFires(s) \/ RetryTimer(s)
  BY <1>4, RegisterServes, QuietStep, RetryServes
<1>5. CASE \E a \in opened : TransportNext(a) \/ TransportError(a)
  BY <1>5, QuietStep, ErrorServes
<1>6. CASE LoseNetwork \/ RegainNetwork
  BY <1>6, QuietStep, RegainServes
<1>7. CASE \E refuses \in BOOLEAN : ResetRuntime(refuses)
  BY <1>7, ResetServes
<1>8. CASE UNCHANGED vars
  <2>1. UNCHANGED <<generation, online, refused, fence, declared, owners, forsaken, runtime, calls>>
    BY <1>8 DEF vars, registry
  <2>2. \A s \in Slots : Twin(runtime'[s], runtime[s])
    BY <2>1 DEF Twin
  <2> QED BY <2>1, <2>2, QuietServes
<1> QED BY <1>1, <1>2, <1>3, <1>4, <1>5, <1>6, <1>7, <1>8 DEF Next

\* A slot that somebody owns is subscribed or will be (activateSlot and
\* subscribeEntry's retries), whatever errors, resets, unmounts and losses of the
\* network came in between; unless its caller was told otherwise, or a refused reset
\* left it behind.
THEOREM OwnedSlotsAreServed == Spec => []OwnedIsServed
<1>1. Spec => []ServedInv
  BY ServedInit, ServedNext, RegistryInvariant, PTL DEF Spec
<1>2. ServedInv => OwnedIsServed
  <2> SUFFICES ASSUME ServedInv, calls = <<>>, NEW s \in Known \ forsaken, owners[s] # {}, ~LeftBehind(s)
               PROVE  LET r == runtime[s] IN
                      /\ r.active /\ IsCurrentGeneration(r, generation)
                      /\ r.stored.kind = "open" \/ r.timer \/ (r.gate /\ ~online)
    BY DEF OwnedIsServed
  <2>1. OnStack(calls) = {} /\ s \in Slots
    BY ShortStacks DEF Known
  <2>2. Serving(s, runtime[s])
    BY <2>1 DEF ServedInv, ServedKept, Owned, Awaits
  <2> QED BY <2>1, <2>2 DEF Serving
<1> QED BY <1>1, <1>2, PTL
=============================================================================
