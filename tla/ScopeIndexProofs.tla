-------------------------- MODULE ScopeIndexProofs --------------------------
(***************************************************************************)
(* Proofs about four modules, none of which reuses a name of another.      *)
(*                                                                         *)
(* OrderKeys: a key between two keys always exists and keyBetween finds    *)
(* it; keysForSequence returns keys that rise strictly between its bounds, *)
(* as long as a double holds the values of these.                          *)
(*                                                                         *)
(* ScopeIndex: whatever answers, events, optimistic writes, failures and   *)
(* restarts do to a scope, its value stays readable, in order, and with    *)
(* its open drafts, until a row is restored at a key another has and as    *)
(* long as no key outgrows a double (KeysAreShort).  ScopeIInv is the      *)
(* inductive invariant; one lemma per action shows that the step keeps it. *)
(*                                                                         *)
(* TailCut: what the cut of an unusable delta tail leaves is whole, for    *)
(* any query records, commits and damage, when the process is not killed   *)
(* inside a cut (the code does not survive that: see the README).          *)
(*                                                                         *)
(* SingleFlight: the promises of the wrappers, for any interval.           *)
(***************************************************************************)
EXTENDS ScopeIndexProps, TailCut, SingleFlightProps, FiniteSetTheorems, FunctionTheorems, SequenceTheorems, WellFoundedInduction, TLAPS

-----------------------------------------------------------------------------
(* Order keys *)

(* A set of natural numbers that is not empty has a least one: the initial *)
(* segment that ends there is the least of those that end in the set.      *)
LEMMA LeastExists ==
  ASSUME NEW S \in SUBSET Nat, S # {}
  PROVE  \E s \in S : \A t \in S : s <= t
<1> DEFINE T == {0 .. s : s \in S}
           R == StrictSubsetOrdering(Nat)
<1>1. IsWellFoundedOn(R, FiniteSubsetsOf(Nat))
  BY FS_StrictSubsetOrderingWellFounded
<1>2. T \subseteq FiniteSubsetsOf(Nat) /\ T # {}
  <2>1. \A s \in S : IsFiniteSet(0 .. s) /\ 0 .. s \subseteq Nat
    BY FS_Interval
  <2>2. T # {}
    OBVIOUS
  <2> QED BY <2>1, <2>2 DEF FiniteSubsetsOf
<1>3. PICK x \in T : \A y \in T : ~ (<<y, x>> \in R)
  <2> HIDE DEF T, R
  <2> QED BY <1>1, <1>2, WFMin
<1>4. PICK s \in S : x = 0 .. s
  OBVIOUS
<1>5. ASSUME NEW t \in S, ~ (s <= t)
      PROVE  FALSE
  <2>1. 0 .. t \in T /\ 0 .. t \subseteq 0 .. s /\ s \in 0 .. s /\ s \notin 0 .. t
    BY <1>5
  <2>2. <<0 .. t, 0 .. s>> \in R
    BY <2>1 DEF StrictSubsetOrdering
  <2> QED BY <2>1, <2>2, <1>3, <1>4
<1> QED
  BY <1>5

(* The least of a set of natural numbers is in it. *)
LEMMA MinOfNats ==
  ASSUME NEW S \in SUBSET Nat, S # {}
  PROVE  Min(S) \in S /\ \A t \in S : Min(S) <= t
  BY LeastExists DEF Min

(* Keys in order. *)
Keys == {key \in Seq(0 .. Base - 1) : IsOrderKey(key)}

(* Between lower and upper there is room for a key. *)
Room(lower, upper) ==
    /\ lower \in Keys \cup {NoBound}
    /\ upper \in Keys \cup {NoBound}
    /\ upper # NoBound => Precedes(lower, upper)

(* A key strictly between two bounds. *)
Between(key, lower, upper) ==
    /\ key \in Keys
    /\ Precedes(lower, key)
    /\ upper # NoBound => Precedes(key, upper)

(* a ends or is smaller where the two part. *)
PartAt(a, b, n) ==
    /\ n \in 1 .. Len(b) /\ n <= Len(a) + 1
    /\ \A i \in 1 .. n - 1 : a[i] = b[i]
    /\ n <= Len(a) => a[n] < b[n]

(* Min of two numbers.                                                     *)
LEMMA MinOfTwo ==
  ASSUME NEW m \in Nat, NEW n \in Nat
  PROVE  /\ Min({m, n}) \in Nat /\ Min({m, n}) <= m /\ Min({m, n}) <= n
         /\ Min({m, n}) = m \/ Min({m, n}) = n
  BY MinOfNats, {m, n} \in SUBSET Nat, {m, n} # {}

(* Where two keys part decides their order.                                *)
LEMMA PrecedesParts ==
  ASSUME NEW a \in Seq(Int), NEW b \in Seq(Int)
  PROVE  Precedes(a, b) <=> \E n \in Nat : PartAt(a, b, n)
  <1> DEFINE shared  == Min({Len(a), Len(b)})
             differs == {i \in 1 .. shared : a[i] # b[i]}
  <1>1. /\ Len(a) \in Nat /\ Len(b) \in Nat
        /\ \A i \in 1 .. Len(a) : a[i] \in Int
        /\ \A i \in 1 .. Len(b) : b[i] \in Int
    BY ElementOfSeq, LenProperties
  <1>2. /\ shared \in Nat /\ shared <= Len(a) /\ shared <= Len(b)
        /\ shared = Len(a) \/ shared = Len(b)
    BY <1>1, MinOfTwo
  <1>3. Precedes(a, b) <=> IF differs = {} THEN Len(a) < Len(b) ELSE a[Min(differs)] < b[Min(differs)]
    BY DEF Precedes
  <1> HIDE DEF shared
  <1>4. CASE differs = {}
    <2>1. \A i \in 1 .. shared : a[i] = b[i]
      BY <1>4
    <2>2. ASSUME Len(a) < Len(b) PROVE PartAt(a, b, Len(a) + 1)
      BY <1>1, <1>2, <2>1, <2>2 DEF PartAt
    <2>3. ASSUME NEW n \in Nat, PartAt(a, b, n) PROVE Len(a) < Len(b)
      BY <1>1, <1>2, <2>1, <2>3 DEF PartAt
    <2> QED BY <1>1, <1>3, <1>4, <2>2, <2>3
  <1>5. CASE differs # {}
    <2>1. PICK d \in differs : d = Min(differs) /\ \A t \in differs : d <= t
      <3>1. differs \in SUBSET Nat
        BY <1>2
      <3> HIDE DEF differs
      <3> QED BY <1>5, <3>1, MinOfNats
    <2>2. /\ d \in 1 .. shared /\ a[d] # b[d]
          /\ \A i \in 1 .. d - 1 : a[i] = b[i]
      <3>1. \A t \in differs : d <= t
        BY <2>1
      <3>2. d \in 1 .. shared /\ shared \in Nat
        BY <1>2
      <3>3. \A i \in 1 .. d - 1 : i \in 1 .. shared /\ ~ (d <= i)
        <4> HIDE DEF shared
        <4> QED BY <3>2
      <3> QED BY <1>2, <3>1, <3>2, <3>3
    <2>3. ASSUME a[d] < b[d] PROVE PartAt(a, b, d)
      BY <1>1, <1>2, <2>2, <2>3 DEF PartAt
    <2>4. ASSUME NEW n \in Nat, PartAt(a, b, n) PROVE a[d] < b[d]
      <3>1. n = d
        <4>1. ~ (n < d)
          <5> SUFFICES ASSUME n < d PROVE FALSE
            OBVIOUS
          <5>1. a[n] = b[n] /\ n <= Len(a) /\ n \in 1 .. Len(b)
            BY <1>1, <1>2, <2>2, <2>4 DEF PartAt
          <5> QED BY <1>1, <2>4, <5>1 DEF PartAt
        <4>2. ~ (d < n)
          BY <1>2, <2>2, <2>4 DEF PartAt
        <4> QED BY <1>2, <2>2, <4>1, <4>2
      <3> QED BY <1>1, <1>2, <2>2, <2>4, <3>1 DEF PartAt
    <2>5. d \in Nat /\ (Precedes(a, b) <=> a[d] < b[d])
      <3>1. Precedes(a, b) <=> a[Min(differs)] < b[Min(differs)]
        BY <1>3, <1>5
      <3>2. d \in Nat
        BY <1>2, <2>2
      <3> HIDE DEF differs
      <3> QED BY <2>1, <3>1, <3>2
    <2> QED BY <2>3, <2>4, <2>5
  <1> QED BY <1>4, <1>5

(* The order of keys is transitive.                                        *)
LEMMA PrecedesIsTransitive ==
  ASSUME NEW a \in Seq(Int), NEW b \in Seq(Int), NEW c \in Seq(Int), Precedes(a, b), Precedes(b, c)
  PROVE  Precedes(a, c)
  <1>1. PICK m \in Nat : PartAt(a, b, m)
    BY PrecedesParts
  <1>2. PICK n \in Nat : PartAt(b, c, n)
    BY PrecedesParts
  <1>3. /\ Len(a) \in Nat /\ Len(b) \in Nat /\ Len(c) \in Nat
        /\ \A i \in 1 .. Len(a) : a[i] \in Int
        /\ \A i \in 1 .. Len(b) : b[i] \in Int
        /\ \A i \in 1 .. Len(c) : c[i] \in Int
    BY ElementOfSeq, LenProperties
  <1>4. CASE m <= n
    <2>1. /\ m >= 1 /\ m <= Len(a) + 1 /\ m <= Len(b) /\ m <= Len(c)
          /\ \A i \in 1 .. m - 1 : a[i] = b[i] /\ b[i] = c[i]
      <3>1. /\ m >= 1 /\ m <= Len(a) + 1 /\ m <= Len(b) /\ n <= Len(b) + 1 /\ n <= Len(c)
        BY <1>1, <1>2, <1>3 DEF PartAt
      <3>2. \A i \in 1 .. m - 1 : a[i] = b[i] /\ i \in 1 .. n - 1
        BY <1>1, <1>4 DEF PartAt
      <3>3. \A i \in 1 .. n - 1 : b[i] = c[i]
        BY <1>2 DEF PartAt
      <3> QED BY <1>3, <1>4, <3>1, <3>2, <3>3
    <2>2. ASSUME m <= Len(a) PROVE a[m] < c[m]
      <3>1. a[m] \in Int /\ b[m] \in Int /\ c[m] \in Int /\ a[m] < b[m]
        BY <1>1, <1>3, <2>1, <2>2 DEF PartAt
      <3>2. b[m] = c[m] \/ b[m] < c[m]
        BY <1>2, <1>4, <2>1 DEF PartAt
      <3> QED BY <3>1, <3>2
    <2>3. PartAt(a, c, m)
      BY <1>3, <2>1, <2>2 DEF PartAt
    <2> QED BY <2>3, PrecedesParts
  <1>5. CASE n < m
    <2>1. /\ n >= 1 /\ n <= Len(a) /\ n <= Len(b) /\ n <= Len(c)
          /\ \A i \in 1 .. n : a[i] = b[i]
      BY <1>1, <1>2, <1>3, <1>5 DEF PartAt
    <2>2. \A i \in 1 .. n - 1 : b[i] = c[i]
      BY <1>2 DEF PartAt
    <2>3. b[n] < c[n]
      BY <1>2, <2>1 DEF PartAt
    <2>4. a[n] < c[n] /\ \A i \in 1 .. n - 1 : a[i] = c[i]
      BY <2>1, <2>2, <2>3
    <2>5. PartAt(a, c, n)
      BY <1>3, <2>1, <2>4 DEF PartAt
    <2> QED BY <2>5, PrecedesParts
  <1> QED BY <1>4, <1>5

(* What a bound is: digits, the last of which is not 0.                    *)
LEMMA KeysAreSequences ==
  ASSUME NEW key \in Keys \cup {NoBound}
  PROVE  /\ key \in Seq(0 .. Base - 1) /\ key \in Seq(Int) /\ Len(key) \in Nat
         /\ \A i \in 1 .. Len(key) : key[i] \in 0 .. Base - 1
         /\ key # NoBound => Len(key) \in 1 .. Len(key) /\ key[Len(key)] # 0
  <1>1. key \in Seq(0 .. Base - 1)
    <2>1. CASE key \in Keys
      BY <2>1 DEF Keys
    <2>2. CASE key = NoBound
      BY <2>2 DEF NoBound
    <2> QED BY <2>1, <2>2
  <1>2. /\ Len(key) \in Nat /\ key \in [1 .. Len(key) -> 0 .. Base - 1]
    BY <1>1, LenProperties
  <1>3. key \in Seq(Int)
    BY <1>1, KeyAssumption
  <1>4. key # NoBound => Len(key) # 0 /\ key[Len(key)] # 0
    BY <1>1, EmptySeq DEF Keys, NoBound, IsOrderKey, Last
  <1> QED BY <1>1, <1>2, <1>3, <1>4

(* The digits of two sequences put together.                               *)
LEMMA Joining ==
  ASSUME NEW D, NEW a \in Seq(D), NEW b \in Seq(D)
  PROVE  /\ a \o b \in Seq(D) /\ Len(a \o b) = Len(a) + Len(b)
         /\ \A i \in 1 .. Len(a) : (a \o b)[i] = a[i]
         /\ \A i \in 1 .. Len(b) : (a \o b)[Len(a) + i] = b[i]
  OBVIOUS

(* keyBetween gives a key strictly between its bounds, for keys of any     *)
(* length: between two keys there is always a third, and it does not end   *)
(* in the minimal digit, so there is one before it too.                    *)
THEOREM KeyIsBetween ==
  ASSUME NEW lower, NEW upper, Room(lower, upper)
  PROVE  Between(KeyBetween(lower, upper), lower, upper)
  <1> DEFINE low(i)  == IF i <= Len(lower) THEN lower[i] ELSE 0
             high(i) == IF i <= Len(upper) THEN upper[i] ELSE Base - 1
             parts   == {i \in 1 .. Len(lower) + Len(upper) + 1 : low(i) # high(i)}
             last    == Len(lower) + Len(upper) + 1
  <1>1. /\ lower \in Seq(Int) /\ Len(lower) \in Nat
        /\ \A i \in 1 .. Len(lower) : lower[i] \in 0 .. Base - 1
        /\ upper \in Seq(Int) /\ Len(upper) \in Nat
        /\ \A i \in 1 .. Len(upper) : upper[i] \in 0 .. Base - 1
        /\ upper # NoBound => Len(upper) \in 1 .. Len(upper) /\ upper[Len(upper)] # 0
        /\ lower \in Seq(0 .. Base - 1)
        /\ Base \in Nat /\ Base > 3
    BY KeysAreSequences, KeyAssumption DEF Room
  <1>2. \A i \in Nat \ {0} : low(i) \in 0 .. Base - 1 /\ high(i) \in 0 .. Base - 1
    BY <1>1
  <1>3. PICK f \in parts : f = Min(parts) /\ \A i \in parts : f <= i
    <2>1. last \in 1 .. last /\ low(last) # high(last)
      BY <1>1
    <2>2. parts \subseteq Nat
      BY <1>1
    <2>3. last \in parts
      BY <2>1
    <2> HIDE DEF parts
    <2> QED BY <2>2, <2>3, MinOfNats
  <1>4. /\ f \in 1 .. last /\ low(f) # high(f)
        /\ \A i \in 1 .. f - 1 : low(i) = high(i)
    <2>1. \A i \in parts : f <= i
      BY <1>3
    <2>2. \A i \in 1 .. f - 1 : i \in 1 .. last /\ ~ (f <= i)
      BY <1>1
    <2> QED BY <1>1, <2>1, <2>2
  <1> HIDE DEF parts, last
  <1>5. low(f) < high(f) /\ (upper # NoBound => f <= Len(upper))
    <2>1. CASE upper = NoBound
      <3>1. high(f) = Base - 1
        BY <1>1, <1>4, <2>1, EmptySeq DEF NoBound
      <3> QED BY <1>2, <1>4, <2>1, <3>1
    <2>2. CASE upper # NoBound
      <3>1. PICK n \in Nat : PartAt(lower, upper, n)
        BY <1>1, <2>2, PrecedesParts DEF Room
      <3>2. CASE n <= Len(lower)
        <4>1. low(n) < high(n) /\ n <= Len(upper) /\ n >= 1 /\ \A i \in 1 .. n - 1 : low(i) = high(i)
          BY <1>1, <3>1, <3>2 DEF PartAt
        <4>2. n \in parts
          <5>1. n \in 1 .. last
            BY <1>1, <4>1 DEF last
          <5>2. low(n) \in Int /\ high(n) \in Int
            BY <1>2, <4>1
          <5>3. low(n) # high(n)
            BY <4>1, <5>2
          <5> QED BY <5>1, <5>3 DEF parts, last
        <4>3. f = n
          BY <1>3, <1>4, <4>1, <4>2
        <4> QED BY <4>1, <4>3
      <3>3. CASE n > Len(lower)
        <4>1. n = Len(lower) + 1 /\ n <= Len(upper) /\ \A i \in 1 .. n - 1 : low(i) = high(i)
          BY <1>1, <3>1, <3>3 DEF PartAt
        <4>2. low(Len(upper)) # high(Len(upper))
          BY <1>1, <2>2, <4>1
        <4>3. Len(upper) \in parts
          BY <1>1, <2>2, <4>2 DEF parts
        <4>4. f <= Len(upper) /\ f > Len(lower)
          BY <1>1, <1>3, <1>4, <4>1, <4>3
        <4> QED BY <1>1, <1>2, <1>4, <4>4
      <3> QED BY <1>1, <3>2, <3>3
    <2> QED BY <2>1, <2>2
  <1> DEFINE prefix == [i \in 1 .. f - 1 |-> low(i)]
  <1>6. /\ f \in Nat /\ f >= 1 /\ low(f) \in 0 .. Base - 1 /\ high(f) \in 0 .. Base - 1
        /\ \A i \in 1 .. f - 1 : low(i) \in 0 .. Base - 1
    BY <1>1, <1>2, <1>4 DEF last
  <1>7. prefix \in Seq(0 .. Base - 1) /\ Len(prefix) = f - 1
    BY <1>6
  <1>8. CASE high(f) - low(f) > 1
    <2> DEFINE middle == (low(f) + high(f)) \div 2
               key    == Append(prefix, middle)
    <2>1. /\ middle \in 1 .. Base - 1 /\ low(f) < middle /\ middle < high(f)
      <3>1. \A l, h \in 0 .. Base - 1 :
               h - l > 1 => (l + h) \div 2 \in 1 .. Base - 1 /\ l < (l + h) \div 2 /\ (l + h) \div 2 < h
        BY <1>1
      <3> HIDE DEF low, high
      <3> QED BY <1>6, <1>8, <3>1
    <2> HIDE DEF middle
    <2>2. /\ key \in Seq(0 .. Base - 1) /\ Len(key) = f /\ key[f] = middle
          /\ \A i \in 1 .. f - 1 : key[i] = low(i)
      BY <1>6, <1>7, <2>1
    <2>3. KeyBetween(lower, upper) = key
      BY <1>3, <1>8 DEF KeyBetween, parts, middle
    <2> HIDE DEF key, prefix
    <2>4. key \in Keys /\ key \in Seq(Int)
      BY <1>1, <1>6, <2>1, <2>2 DEF Keys, IsOrderKey, Last
    <2>5. Precedes(lower, key)
      <3>1. CASE f <= Len(lower)
        <4>1. PartAt(lower, key, f)
          BY <1>1, <1>6, <2>1, <2>2, <3>1 DEF PartAt
        <4> QED BY <1>1, <2>4, <4>1, <1>6, PrecedesParts
      <3>2. CASE f > Len(lower)
        <4>1. PartAt(lower, key, Len(lower) + 1)
          BY <1>1, <1>6, <2>1, <2>2, <3>2 DEF PartAt
        <4> QED BY <1>1, <2>4, <4>1, PrecedesParts
      <3> QED BY <1>1, <1>6, <3>1, <3>2
    <2>6. ASSUME upper # NoBound PROVE Precedes(key, upper)
      <3>1. PartAt(key, upper, f)
        BY <1>1, <1>4, <1>5, <1>6, <2>1, <2>2, <2>6 DEF PartAt
      <3> QED BY <1>1, <1>6, <2>4, <3>1, PrecedesParts
    <2> QED BY <2>3, <2>4, <2>5, <2>6 DEF Between
  <1>9. CASE ~ (high(f) - low(f) > 1)
    <2> DEFINE rest == SubSeq(lower, f + 1, Len(lower))
               key  == prefix \o <<low(f)>> \o rest \o <<Base \div 2>>
               size == IF f <= Len(lower) THEN Len(lower) ELSE f
    <2>1. Base \div 2 \in 1 .. Base - 1
      BY <1>1
    <2>2. /\ rest \in Seq(0 .. Base - 1) /\ Len(rest) = size - f
          /\ \A i \in 1 .. size - f : rest[i] = low(f + i)
      <3> DEFINE D == 0 .. Base - 1
                 m == f + 1
                 n == Len(lower)
      <3>1. n \in Nat /\ m \in Int /\ n \in Int
        BY <1>1, <1>6
      <3>2. \A i \in m .. n : lower[i] \in D
        BY <1>1, <1>6
      <3> HIDE DEF D, m, n
      <3>3. /\ SubSeq(lower, m, n) \in Seq(D)
            /\ Len(SubSeq(lower, m, n)) = IF m <= n THEN n - m + 1 ELSE 0
            /\ \A i \in 1 .. n - m + 1 : SubSeq(lower, m, n)[i] = lower[m + i - 1]
        BY <3>1, <3>2, SubSeqProperties
      <3>4. rest = SubSeq(lower, m, n)
        BY DEF m, n
      <3> HIDE DEF rest
      <3>5. rest \in Seq(D) /\ Len(rest) = size - f
        BY <1>6, <3>1, <3>3, <3>4 DEF m, n
      <3>6. ASSUME NEW i \in 1 .. size - f PROVE rest[i] = low(f + i)
        <4>1. f <= Len(lower) /\ i \in 1 .. n - m + 1
          BY <1>6, <3>1 DEF m, n
        <4>2. rest[i] = lower[m + i - 1] /\ m + i - 1 = f + i /\ f + i <= Len(lower)
          BY <1>6, <3>1, <3>3, <3>4, <4>1 DEF m, n
        <4> QED BY <4>2
      <3> QED BY <3>5, <3>6 DEF D
    <2>3. KeyBetween(lower, upper) = key
      BY <1>3, <1>9 DEF KeyBetween, parts
    <2> HIDE DEF rest
    <2>4. /\ key \in Seq(0 .. Base - 1) /\ Len(key) = size + 1 /\ key[size + 1] = Base \div 2
          /\ \A i \in 1 .. size : key[i] = low(i)
      <3> DEFINE start == Append(prefix, low(f))
                 body  == start \o rest
      <3>1. /\ start \in Seq(0 .. Base - 1) /\ Len(start) = f
            /\ \A i \in 1 .. f : start[i] = low(i)
        <4>1. prefix \in Seq(0 .. Base - 1) /\ low(f) \in 0 .. Base - 1
              /\ \A i \in 1 .. f - 1 : prefix[i] = low(i)
          BY <1>6, <1>7
        <4> HIDE DEF prefix, low
        <4> QED BY <1>6, <1>7, <4>1
      <3>2. prefix \o <<low(f)>> = start
        <4>1. prefix \in Seq(0 .. Base - 1) /\ low(f) \in 0 .. Base - 1
          BY <1>6, <1>7
        <4> HIDE DEF prefix, low
        <4> QED BY <4>1
      <3> HIDE DEF start, low
      <3>3. /\ body \in Seq(0 .. Base - 1) /\ Len(body) = size
            /\ \A i \in 1 .. size : body[i] = low(i)
        <4>1. /\ body \in Seq(0 .. Base - 1) /\ Len(body) = f + (size - f)
              /\ \A i \in 1 .. f : body[i] = start[i]
              /\ \A i \in 1 .. size - f : body[f + i] = rest[i]
          <5>1. size - f \in Nat
            BY <1>1, <1>6
          <5> HIDE DEF size
          <5>2. Len(start) = f /\ Len(rest) = size - f
            BY <2>2, <3>1
          <5>3. start \in Seq(0 .. Base - 1) /\ rest \in Seq(0 .. Base - 1)
            BY <2>2, <3>1
          <5>4. /\ body \in Seq(0 .. Base - 1) /\ Len(body) = Len(start) + Len(rest)
                /\ \A i \in 1 .. Len(start) : body[i] = start[i]
                /\ \A i \in 1 .. Len(rest) : body[Len(start) + i] = rest[i]
            BY <5>3, Joining
          <5> QED BY <5>2, <5>4
        <4>2. size \in Nat /\ size >= f
          BY <1>1, <1>6
        <4> HIDE DEF body, size
        <4>3. ASSUME NEW i \in 1 .. size PROVE body[i] = low(i)
          <5>1. CASE i <= f
            BY <1>6, <3>1, <4>1, <5>1
          <5>2. CASE i > f
            <6>1. i - f \in 1 .. size - f /\ f + (i - f) = i
              BY <1>6, <4>2, <5>2
            <6> QED BY <2>2, <4>1, <6>1
          <5> QED BY <1>6, <5>1, <5>2
        <4> QED BY <1>6, <4>1, <4>2, <4>3
      <3> HIDE DEF body
      <3>4. size \in Nat
        BY <1>1, <1>6
      <3> HIDE DEF size
      <3>5. key = Append(body, Base \div 2)
        <4>1. key = body \o <<Base \div 2>>
          BY <3>2 DEF body
        <4> HIDE DEF key
        <4> QED BY <2>1, <3>3, <4>1
      <3> HIDE DEF key
      <3>6. Base \div 2 \in 0 .. Base - 1
        BY <2>1
      <3>7. /\ key \in Seq(0 .. Base - 1) /\ Len(key) = Len(body) + 1
            /\ key[Len(body) + 1] = Base \div 2
            /\ \A i \in 1 .. Len(body) : key[i] = body[i]
        BY <3>3, <3>5, <3>6, AppendProperties
      <3> QED BY <3>3, <3>7
    <2> HIDE DEF key, prefix
    <2>41. size \in Nat /\ size >= f /\ size >= Len(lower)
      BY <1>1, <1>6
    <2> HIDE DEF size
    <2>5. key \in Keys /\ key \in Seq(Int)
      BY <1>1, <2>1, <2>4, <2>41 DEF Keys, IsOrderKey, Last
    <2>6. Precedes(lower, key)
      <3>1. \A i \in 1 .. Len(lower) : key[i] = lower[i]
        BY <1>1, <2>4, <2>41
      <3>2. PartAt(lower, key, Len(lower) + 1)
        BY <1>1, <2>4, <2>41, <3>1 DEF PartAt
      <3> QED BY <1>1, <2>5, <3>2, PrecedesParts
    <2>7. ASSUME upper # NoBound PROVE Precedes(key, upper)
      <3>1. PartAt(key, upper, f)
        BY <1>1, <1>4, <1>5, <1>6, <2>1, <2>4, <2>41, <2>7 DEF PartAt
      <3> QED BY <1>1, <1>6, <2>5, <3>1, PrecedesParts
    <2> QED BY <2>3, <2>5, <2>6, <2>7 DEF Between
  <1> QED BY <1>8, <1>9

(* f starts with start and goes on by the steps. *)
Recurs(f, n, start, step) == f[0] = start /\ \A i \in 1 .. n : f[i] = step[i][f[i - 1]]

(* A function defined by recursion over 0 .. n exists if its steps stay in *)
(* a set.                                                                  *)
LEMMA RecursionExists ==
  ASSUME NEW n \in Nat, NEW D, NEW start \in D, NEW step \in [1 .. n -> [D -> D]]
  PROVE  \E f \in [0 .. n -> D] : Recurs(f, n, start, step)
  <1> DEFINE Reaches(k, f) == \A i \in 0 .. k : f[i] = IF i = 0 THEN start ELSE step[i][f[i - 1]]
             missed == {k \in 0 .. n : ~ \E f \in [0 .. k -> D] : Reaches(k, f)}
  <1>1. ASSUME missed # {} PROVE FALSE
    <2>1. PICK k \in missed : \A l \in missed : k <= l
      <3>1. missed \in SUBSET Nat
        OBVIOUS
      <3> HIDE DEF missed
      <3> QED BY <1>1, <3>1, LeastExists
    <2>2. CASE k = 0
      <3> DEFINE f == [i \in 0 .. k |-> start]
      <3>1. f \in [0 .. k -> D] /\ Reaches(k, f)
        BY <2>2
      <3> QED BY <2>1, <3>1
    <2>3. CASE k # 0
      <3>1. k \in 1 .. n /\ k - 1 \in 0 .. n /\ k - 1 \notin missed
        <4>1. k \in 1 .. n /\ ~ (k <= k - 1)
          BY <2>1, <2>3
        <4>2. k - 1 \in 0 .. n
          BY <4>1
        <4> QED BY <2>1, <4>1, <4>2
      <3>2. PICK g \in [0 .. k - 1 -> D] : Reaches(k - 1, g)
        BY <3>1
      <3> DEFINE f == [i \in 0 .. k |-> IF i < k THEN g[i] ELSE step[k][g[k - 1]]]
      <3>3. step[k][g[k - 1]] \in D
        BY <3>1, <3>2
      <3>4. f \in [0 .. k -> D]
        BY <3>1, <3>2, <3>3
      <3>5. \A i \in 0 .. k - 1 : f[i] = g[i]
        BY <3>1
      <3>6. f[k] = step[k][f[k - 1]]
        BY <3>1, <3>5
      <3>7. ASSUME NEW i \in 0 .. k
            PROVE  f[i] = IF i = 0 THEN start ELSE step[i][f[i - 1]]
        <4>1. CASE i = k
          BY <3>1, <3>6, <4>1
        <4>2. CASE i # k
          <5>1. i \in 0 .. k - 1 /\ (i # 0 => i - 1 \in 0 .. k - 1)
            BY <3>1, <4>2
          <5> HIDE DEF f
          <5> QED BY <3>2, <3>5, <5>1
        <4> QED BY <4>1, <4>2
      <3>8. Reaches(k, f)
        BY <3>7
      <3> HIDE DEF f, Reaches
      <3> QED BY <2>1, <3>4, <3>8
    <2> QED BY <2>2, <2>3
  <1>2. PICK f \in [0 .. n -> D] : Reaches(n, f)
    BY <1>1
  <1>3. 0 \in 0 .. n /\ \A i \in 1 .. n : i \in 0 .. n /\ i # 0
    OBVIOUS
  <1>4. Recurs(f, n, start, step)
    BY <1>2, <1>3 DEF Recurs
  <1> QED BY <1>4

(* Keys in order between two bounds. *)
Spread(keys, count, lower, upper) ==
    /\ keys \in [1 .. count -> Keys]
    /\ \A i \in 1 .. count : Between(keys[i], lower, upper)
    /\ \A i, j \in 1 .. count : i < j => Precedes(keys[i], keys[j])

(* The fallback of keysForSequence, one keyBetween after the other, gives  *)
(* keys in order between the bounds, for any number of keys and bounds of  *)
(* any length.                                                             *)
THEOREM WalkIsSpread ==
  ASSUME NEW count \in Nat, NEW lower, NEW upper, Room(lower, upper)
  PROVE  Spread(Walk(count, lower, upper), count, lower, upper)
  <1> DEFINE D    == {x \in Keys \cup {NoBound} : Room(x, upper)}
             step == [i \in 1 .. count |-> [x \in D |-> KeyBetween(x, upper)]]
             Walks(f) == f = [i \in 0 .. count |-> IF i = 0 THEN lower ELSE KeyBetween(f[i - 1], upper)]
             walked == CHOOSE f : Walks(f)
  <1>1. \A x \in D : KeyBetween(x, upper) \in D /\ Between(KeyBetween(x, upper), x, upper)
    BY KeyIsBetween DEF Room, Between
  <1>2. PICK f \in [0 .. count -> D] : Recurs(f, count, lower, step)
    <2>1. step \in [1 .. count -> [D -> D]]
      BY <1>1
    <2>2. lower \in D
      BY DEF Room
    <2> HIDE DEF step, D
    <2>3. count \in Nat
      OBVIOUS
    <2> QED BY <2>1, <2>2, <2>3, RecursionExists
  <1>3. Walks(f)
    <2>1. ASSUME NEW i \in 1 .. count PROVE f[i] = KeyBetween(f[i - 1], upper)
      <3>1. i - 1 \in 0 .. count
        OBVIOUS
      <3>2. f[i - 1] \in D
        <4> HIDE DEF D
        <4> QED BY <1>2, <3>1
      <3>3. step[i][f[i - 1]] = KeyBetween(f[i - 1], upper)
        <4> HIDE DEF D
        <4> QED BY <3>2
      <3> HIDE DEF step
      <3> QED BY <1>2, <3>3 DEF Recurs
    <2>2. f = [i \in 0 .. count |-> f[i]]
      <3> HIDE DEF D
      <3> QED BY <1>2
    <2>3. f = [i \in 0 .. count |-> IF i = 0 THEN lower ELSE KeyBetween(f[i - 1], upper)]
      <3>1. \A i \in 0 .. count : i = 0 \/ i \in 1 .. count
        OBVIOUS
      <3>2. \A i \in 0 .. count : f[i] = IF i = 0 THEN lower ELSE KeyBetween(f[i - 1], upper)
        BY <1>2, <2>1, <3>1 DEF Recurs
      <3> QED BY <2>2, <3>2
    <2> QED BY <2>3
  <1> HIDE DEF D
  <1>4. Walks(walked)
    BY <1>3
  <1> HIDE DEF walked
  <1>5. /\ walked[0] = lower /\ DOMAIN walked = 0 .. count
        /\ \A i \in 1 .. count : walked[i] = KeyBetween(walked[i - 1], upper)
    <2>1. walked = [i \in 0 .. count |-> IF i = 0 THEN lower ELSE KeyBetween(walked[i - 1], upper)]
      BY <1>4
    <2>2. 0 \in 0 .. count /\ \A i \in 1 .. count : i \in 0 .. count /\ i # 0
      OBVIOUS
    <2> QED BY <2>1, <2>2
  <1>6. lower \in D
    BY DEF Room, D
  <1>7. \A i \in 0 .. count : walked[i] \in D
    <2> DEFINE outside == {i \in 0 .. count : walked[i] \notin D}
    <2>1. ASSUME outside # {} PROVE FALSE
      <3>1. outside \in SUBSET Nat
        OBVIOUS
      <3>2. PICK k \in outside : \A l \in outside : k <= l
        <4> HIDE DEF outside
        <4> QED BY <2>1, <3>1, LeastExists
      <3>3. k # 0
        BY <1>5, <1>6
      <3>4. k \in 1 .. count /\ k - 1 \in 0 .. count /\ ~ (k <= k - 1)
        BY <3>2, <3>3
      <3>5. walked[k - 1] \in D
        BY <3>2, <3>4
      <3>6. walked[k] \in D
        BY <1>1, <1>5, <3>4, <3>5
      <3> QED BY <3>2, <3>6
    <2> QED BY <2>1
  <1>8. \A i \in 1 .. count : /\ walked[i] \in Keys
                              /\ Precedes(walked[i - 1], walked[i])
                              /\ upper # NoBound => Precedes(walked[i], upper)
    <2> SUFFICES ASSUME NEW i \in 1 .. count
                 PROVE  Between(walked[i], walked[i - 1], upper)
      BY DEF Between
    <2>1. i - 1 \in 0 .. count
      OBVIOUS
    <2>2. walked[i - 1] \in D
      BY <1>7, <2>1
    <2> QED BY <1>1, <1>5, <2>2
  <1>9. \A j \in 0 .. count : \A i \in 0 .. j - 1 : Precedes(walked[i], walked[j])
    <2> DEFINE strays == {j \in 0 .. count : \E i \in 0 .. j - 1 : ~ Precedes(walked[i], walked[j])}
    <2>1. ASSUME strays # {} PROVE FALSE
      <3>1. strays \in SUBSET Nat
        OBVIOUS
      <3>2. PICK k \in strays : \A l \in strays : k <= l
        <4> HIDE DEF strays
        <4> QED BY <2>1, <3>1, LeastExists
      <3>3. PICK i \in 0 .. k - 1 : ~ Precedes(walked[i], walked[k])
        BY <3>2
      <3>4. k \in 1 .. count /\ k - 1 \in 0 .. count /\ ~ (k <= k - 1) /\ i \in 0 .. count
        BY <3>2, <3>3
      <3>5. Precedes(walked[k - 1], walked[k])
        BY <1>8, <3>4
      <3>6. CASE i = k - 1
        BY <3>3, <3>5, <3>6
      <3>7. CASE i # k - 1
        <4>1. k - 1 \notin strays /\ i \in 0 .. (k - 1) - 1
          BY <3>2, <3>4, <3>7
        <4>2. Precedes(walked[i], walked[k - 1])
          BY <3>4, <4>1
        <4>3. walked[i] \in Seq(Int) /\ walked[k - 1] \in Seq(Int) /\ walked[k] \in Seq(Int)
          <5>1. \A x \in D : x \in Seq(Int)
            BY KeysAreSequences DEF D
          <5> QED BY <1>7, <3>2, <3>4, <5>1
        <4> QED BY <3>3, <3>5, <4>2, <4>3, PrecedesIsTransitive
      <3> QED BY <3>6, <3>7
    <2> QED BY <2>1
  <1>10. \A i \in 1 .. count : 0 \in 0 .. i - 1 /\ i \in 0 .. count
    OBVIOUS
  <1>11. \A i \in 1 .. count : Between(walked[i], lower, upper)
    BY <1>5, <1>8, <1>9, <1>10 DEF Between
  <1>12. \A i, j \in 1 .. count : i < j => Precedes(walked[i], walked[j])
    <2> TAKE i, j \in 1 .. count
    <2> HAVE i < j
    <2>1. j \in 0 .. count /\ i \in 0 .. j - 1
      OBVIOUS
    <2> QED BY <1>9, <2>1
  <1>13. Walk(count, lower, upper) = [i \in 1 .. count |-> walked[i]]
    BY DEF Walk, walked
  <1> QED BY <1>8, <1>11, <1>12, <1>13 DEF Spread

(* Induction up to n. *)
LEMMA SegmentInduction ==
  ASSUME NEW n \in Nat, NEW S, 0 \in S, \A i \in 1 .. n : i - 1 \in S => i \in S
  PROVE  \A i \in 0 .. n : i \in S
  <1> DEFINE outside == {i \in 0 .. n : i \notin S}
  <1>1. ASSUME outside # {} PROVE FALSE
    <2>1. outside \in SUBSET Nat
      OBVIOUS
    <2>2. PICK k \in outside : \A l \in outside : k <= l
      <3> HIDE DEF outside
      <3> QED BY <1>1, <2>1, LeastExists
    <2>3. k \in 1 .. n /\ k - 1 \in 0 .. n /\ ~ (k <= k - 1)
      BY <2>2
    <2>4. k - 1 \in S
      BY <2>2, <2>3
    <2> QED BY <2>2, <2>3, <2>4
  <1> QED BY <1>1

(* Power is what it is defined by. *)
Powers(f, b, n) == f[0] = 1 /\ \A i \in 1 .. n : f[i] = b * f[i - 1]

(* There is a function that is.                                            *)
LEMMA PowerFunction ==
  ASSUME NEW b \in Nat, NEW n \in Nat
  PROVE  \E f \in [0 .. n -> Nat] : Powers(f, b, n) /\ Power(b, n) = f[n]
  <1> DEFINE step  == [i \in 1 .. n |-> [x \in Nat |-> b * x]]
             Is(f) == f = [i \in 0 .. n |-> IF i = 0 THEN 1 ELSE b * f[i - 1]]
             f     == CHOOSE g : Is(g)
  <1>1. PICK g \in [0 .. n -> Nat] : Recurs(g, n, 1, step)
    <2>1. step \in [1 .. n -> [Nat -> Nat]]
      OBVIOUS
    <2> HIDE DEF step
    <2> QED BY <2>1, RecursionExists
  <1>2. \A i \in 0 .. n : i = 0 \/ (i \in 1 .. n /\ i - 1 \in 0 .. n)
    OBVIOUS
  <1>3. Is(g)
    <2>1. ASSUME NEW i \in 1 .. n PROVE g[i] = b * g[i - 1]
      <3>1. i - 1 \in 0 .. n
        OBVIOUS
      <3>2. g[i] = step[i][g[i - 1]]
        <4> HIDE DEF step
        <4> QED BY <1>1 DEF Recurs
      <3> QED BY <3>1, <3>2
    <2>2. \A i \in 0 .. n : g[i] = IF i = 0 THEN 1 ELSE b * g[i - 1]
      BY <1>1, <1>2, <2>1 DEF Recurs
    <2>3. g = [i \in 0 .. n |-> g[i]]
      BY <1>1
    <2> QED BY <2>2, <2>3
  <1>4. Is(f)
    BY <1>3
  <1> HIDE DEF f
  <1>5. DOMAIN f = 0 .. n /\ f[0] = 1 /\ \A i \in 1 .. n : f[i] = b * f[i - 1]
    BY <1>4
  <1>6. \A i \in 0 .. n : f[i] \in Nat
    <2> DEFINE S == {i \in 0 .. n : f[i] \in Nat}
    <2>1. 0 \in S
      BY <1>5
    <2>2. \A i \in 1 .. n : i - 1 \in S => i \in S
      BY <1>5
    <2> HIDE DEF S
    <2>3. \A i \in 0 .. n : i \in S
      BY <2>1, <2>2, SegmentInduction
    <2> QED BY <2>3 DEF S
  <1>7. f \in [0 .. n -> Nat]
    BY <1>4, <1>6
  <1>8. Power(b, n) = f[n]
    BY DEF Power, f
  <1> QED BY <1>5, <1>7, <1>8 DEF Powers

(* Powers of a positive base are positive.                                 *)
LEMMA PowerProperty ==
  ASSUME NEW b \in Nat, NEW n \in Nat
  PROVE  /\ Power(b, n) \in Nat
         /\ Power(b, 0) = 1
         /\ Power(b, n + 1) = b * Power(b, n)
  <1>1. PICK f \in [0 .. n -> Nat] : Powers(f, b, n) /\ Power(b, n) = f[n]
    BY PowerFunction
  <1>2. PICK g \in [0 .. n + 1 -> Nat] : Powers(g, b, n + 1) /\ Power(b, n + 1) = g[n + 1]
    BY n + 1 \in Nat, PowerFunction
  <1>3. Power(b, 0) = 1
    BY 0 \in Nat, PowerFunction DEF Powers
  <1>4. \A i \in 0 .. n : f[i] = g[i]
    <2> DEFINE S == {i \in 0 .. n : f[i] = g[i]}
    <2>1. 0 \in S
      BY <1>1, <1>2 DEF Powers
    <2>2. ASSUME NEW i \in 1 .. n, i - 1 \in S PROVE i \in S
      <3>1. i \in 1 .. n + 1 /\ f[i - 1] = g[i - 1]
        BY <2>2
      <3> QED BY <1>1, <1>2, <3>1 DEF Powers
    <2> HIDE DEF S
    <2>3. \A i \in 0 .. n : i \in S
      BY <2>1, <2>2, SegmentInduction
    <2> QED BY <2>3 DEF S
  <1>5. n + 1 \in 1 .. n + 1 /\ n \in 0 .. n /\ (n + 1) - 1 = n
    OBVIOUS
  <1>6. g[n + 1] = b * g[n]
    BY <1>2, <1>5 DEF Powers
  <1> QED BY <1>1, <1>2, <1>3, <1>4, <1>5, <1>6

(* Powers grow with the exponent.                                          *)
LEMMA PowerGrows ==
  ASSUME NEW n \in Nat
  PROVE  \A m \in 0 .. n : Power(Base, m) <= Power(Base, n) /\ Power(Base, m) >= 1
  <1> DEFINE P(i) == Power(Base, i)
             S == {i \in 0 .. n : \A m \in 0 .. i : P(m) <= P(i) /\ P(m) >= 1}
  <1>1. \A i \in Nat : P(i) \in Nat /\ P(0) = 1 /\ P(i + 1) = Base * P(i)
    BY PowerProperty, KeyAssumption
  <1> HIDE DEF P
  <1>2. 0 \in S
    BY <1>1
  <1>3. ASSUME NEW i \in 1 .. n, i - 1 \in S PROVE i \in S
    <2>1. i - 1 \in Nat /\ (i - 1) + 1 = i /\ P(i - 1) \in Nat
      BY <1>1
    <2>2. P(i) = Base * P(i - 1)
      BY <1>1, <2>1
    <2>3. P(i) >= P(i - 1) /\ P(i - 1) >= 1 /\ P(i) \in Nat
      <3>1. P(i - 1) >= 1
        BY <1>3, <2>1
      <3>2. \A p \in Nat : Base * p \in Nat /\ Base * p >= p
        BY KeyAssumption
      <3> QED BY <2>1, <2>2, <3>1, <3>2
    <2>4. ASSUME NEW m \in 0 .. i PROVE P(m) <= P(i) /\ P(m) >= 1
      <3>1. CASE m = i
        BY <2>1, <2>3, <3>1
      <3>2. CASE m # i
        <4>1. m \in 0 .. i - 1 /\ P(m) \in Nat
          BY <1>1, <3>2
        <4> QED BY <1>3, <2>1, <2>3, <4>1
      <3> QED BY <3>1, <3>2
    <2> QED BY <2>4
  <1> HIDE DEF S
  <1>4. n \in S
    BY <1>2, <1>3, SegmentInduction
  <1> QED BY <1>4 DEF S, P

(* The digits of a key that is filled up with zeros, and the values of its *)
(* beginnings.                                                             *)
Digit(key, i) == IF i <= Len(key) THEN key[i] ELSE 0
Values(f, key, n) ==
    /\ f \in [0 .. n -> Nat]
    /\ f[0] = 0
    /\ \A i \in 1 .. n : f[i] = Base * f[i - 1] + Digit(key, i)

(* Missing digits are 0.                                                   *)
LEMMA DigitsAreDigits ==
  ASSUME NEW key \in Seq(0 .. Base - 1), NEW i \in Nat \ {0}
  PROVE  Digit(key, i) \in 0 .. Base - 1 /\ Digit(key, i) \in Nat
  <1>1. Len(key) \in Nat /\ \A j \in 1 .. Len(key) : key[j] \in 0 .. Base - 1
    BY LenProperties, ElementOfSeq
  <1> QED BY <1>1, KeyAssumption DEF Digit

(* Every key has values up to every length.                                *)
LEMMA ValuesExist ==
  ASSUME NEW key \in Seq(0 .. Base - 1), NEW n \in Nat
  PROVE  \E f : Values(f, key, n)
  <1> DEFINE step == [i \in 1 .. n |-> [x \in Nat |-> Base * x + Digit(key, i)]]
  <1>1. step \in [1 .. n -> [Nat -> Nat]]
    <2>1. ASSUME NEW i \in 1 .. n, NEW x \in Nat PROVE Base * x + Digit(key, i) \in Nat
      <3>1. Digit(key, i) \in Nat
        BY DigitsAreDigits
      <3>2. Base * x \in Nat
        BY KeyAssumption
      <3> QED BY <3>1, <3>2
    <2> QED BY <2>1
  <1>2. PICK f \in [0 .. n -> Nat] : Recurs(f, n, 0, step)
    <2> HIDE DEF step
    <2> QED BY <1>1, RecursionExists
  <1>3. \A i \in 1 .. n : i - 1 \in 0 .. n
    OBVIOUS
  <1>4. Values(f, key, n)
    BY <1>2, <1>3 DEF Recurs, Values
  <1> QED BY <1>4

(* A beginning of i digits is worth less than the power i.                 *)
LEMMA ValuesAreSmall ==
  ASSUME NEW key \in Seq(0 .. Base - 1), NEW n \in Nat, NEW f, Values(f, key, n)
  PROVE  \A i \in 0 .. n : f[i] \in Nat /\ f[i] < Power(Base, i) /\ f[i] < Power(Base, n)
  <1> DEFINE S == {i \in 0 .. n : f[i] < Power(Base, i)}
  <1>1. f \in [0 .. n -> Nat] /\ f[0] = 0 /\ \A i \in 1 .. n : f[i] = Base * f[i - 1] + Digit(key, i)
    BY DEF Values
  <1>2. 0 \in S
    BY <1>1, PowerProperty, KeyAssumption
  <1>3. ASSUME NEW i \in 1 .. n, i - 1 \in S PROVE i \in S
    <2>1. /\ i - 1 \in Nat /\ (i - 1) + 1 = i /\ i - 1 \in 0 .. n /\ i \in 0 .. n
          /\ Digit(key, i) \in 0 .. Base - 1
      BY DigitsAreDigits
    <2>2. Power(Base, i) = Base * Power(Base, i - 1) /\ Power(Base, i - 1) \in Nat
      <3> DEFINE j == i - 1
      <3>1. j \in Nat /\ j + 1 = i /\ Base \in Nat
        BY <2>1, KeyAssumption
      <3> HIDE DEF j
      <3>2. Power(Base, j) \in Nat /\ Power(Base, j + 1) = Base * Power(Base, j)
        BY <3>1, PowerProperty
      <3> QED BY <3>1, <3>2 DEF j
    <2>3. f[i - 1] \in Nat /\ f[i - 1] + 1 <= Power(Base, i - 1)
      BY <1>1, <1>3, <2>1, <2>2
    <2>4. \A x, y \in Nat : x + 1 <= y => Base * x + Base <= Base * y
      BY KeyAssumption
    <2>5. Base * f[i - 1] + Base <= Base * Power(Base, i - 1)
      BY <2>2, <2>3, <2>4
    <2>6. Base * f[i - 1] \in Int /\ Base * Power(Base, i - 1) \in Int
      BY <2>2, <2>3, KeyAssumption
    <2>7. f[i] < Power(Base, i)
      <3> DEFINE value == Base * f[i - 1]
                 power == Base * Power(Base, i - 1)
      <3>1. f[i] = value + Digit(key, i) /\ Power(Base, i) = power
        BY <1>1, <2>2
      <3>2. value \in Int /\ power \in Int /\ value + Base <= power
        BY <2>5, <2>6
      <3> HIDE DEF value, power
      <3> QED BY <2>1, <3>1, <3>2, KeyAssumption
    <2> QED BY <2>1, <2>7
  <1> HIDE DEF S
  <1>4. \A i \in 0 .. n : i \in S
    BY <1>2, <1>3, SegmentInduction
  <1>5. ASSUME NEW i \in 0 .. n PROVE f[i] < Power(Base, i)
    BY <1>4 DEF S
  <1>6. ASSUME NEW i \in 0 .. n PROVE f[i] < Power(Base, n)
    <2>1. /\ Power(Base, i) <= Power(Base, n) /\ Power(Base, i) \in Nat /\ Power(Base, n) \in Nat
      BY i \in Nat, PowerGrows, PowerProperty, KeyAssumption
    <2> QED BY <1>1, <1>5, <2>1
  <1> QED BY <1>1, <1>5, <1>6

(* Sequences of digits are sequences of integers.                          *)
LEMMA DigitSequences ==
  ASSUME NEW key \in Seq(0 .. Base - 1)
  PROVE  key \in Seq(Int) /\ Len(key) \in Nat /\ \A i \in 1 .. Len(key) : key[i] \in 0 .. Base - 1
  <1>1. Len(key) \in Nat /\ \A i \in 1 .. Len(key) : key[i] \in 0 .. Base - 1
    BY LenProperties, ElementOfSeq
  <1>2. key \in Seq(Int)
    BY KeyAssumption
  <1> QED BY <1>1, <1>2

(* Beginnings with the same digits have the same values. *)
LEMMA ValuesAgree ==
  ASSUME NEW a \in Seq(0 .. Base - 1), NEW b \in Seq(0 .. Base - 1), NEW n \in Nat,
         NEW f, NEW g, Values(f, a, n), Values(g, b, n),
         NEW p \in 1 .. n + 1, \A i \in 1 .. p - 1 : Digit(a, i) = Digit(b, i)
  PROVE  \A i \in 0 .. p - 1 : f[i] = g[i]
  <1> DEFINE S == {i \in 0 .. p - 1 : f[i] = g[i]}
  <1>1. 0 \in S
    BY DEF Values
  <1>2. ASSUME NEW i \in 1 .. p - 1, i - 1 \in S PROVE i \in S
    <2>1. i \in 1 .. n /\ f[i - 1] = g[i - 1] /\ Digit(a, i) = Digit(b, i)
      BY <1>2
    <2> QED BY <2>1 DEF Values
  <1>3. p - 1 \in Nat
    OBVIOUS
  <1> HIDE DEF S
  <1>4. \A i \in 0 .. p - 1 : i \in S
    BY <1>1, <1>2, <1>3, SegmentInduction
  <1> QED BY <1>4 DEF S

(* The larger digit at the first difference decides. *)
LEMMA ValuesPart ==
  ASSUME NEW a \in Seq(0 .. Base - 1), NEW b \in Seq(0 .. Base - 1), NEW n \in Nat,
         NEW f, NEW g, Values(f, a, n), Values(g, b, n),
         NEW p \in 1 .. n, \A i \in 1 .. p - 1 : Digit(a, i) = Digit(b, i),
         Digit(a, p) < Digit(b, p)
  PROVE  f[n] < g[n]
  <1> DEFINE S == {i \in 0 .. n : i >= p => f[i] < g[i]}
  <1>1. /\ f \in [0 .. n -> Nat] /\ \A i \in 1 .. n : f[i] = Base * f[i - 1] + Digit(a, i)
        /\ g \in [0 .. n -> Nat] /\ \A i \in 1 .. n : g[i] = Base * g[i - 1] + Digit(b, i)
    BY DEF Values
  <1>2. 0 \in S
    OBVIOUS
  <1>3. ASSUME NEW i \in 1 .. n, i - 1 \in S PROVE i \in S
    <2>1. /\ i - 1 \in 0 .. n /\ f[i - 1] \in Nat /\ g[i - 1] \in Nat
          /\ Digit(a, i) \in 0 .. Base - 1 /\ Digit(b, i) \in 0 .. Base - 1
      <3>1. i - 1 \in 0 .. n /\ i \in Nat \ {0}
        OBVIOUS
      <3>2. Digit(a, i) \in 0 .. Base - 1 /\ Digit(b, i) \in 0 .. Base - 1
        BY <3>1, DigitsAreDigits
      <3> QED BY <1>1, <3>1, <3>2
    <2>2. f[i] = Base * f[i - 1] + Digit(a, i) /\ g[i] = Base * g[i - 1] + Digit(b, i)
      BY <1>1
    <2>3. CASE i < p
      BY <2>3
    <2>4. CASE i = p
      <3>1. f[i - 1] = g[i - 1]
        <4>1. p \in 1 .. n + 1
          OBVIOUS
        <4>2. \A j \in 0 .. p - 1 : f[j] = g[j]
          BY <4>1, ValuesAgree
        <4> QED BY <2>1, <2>4, <4>2
      <3>2. Base * f[i - 1] \in Int
        BY <2>1, KeyAssumption
      <3> QED BY <2>1, <2>2, <2>4, <3>1, <3>2
    <2>5. CASE i > p
      <3>1. f[i - 1] < g[i - 1]
        BY <1>3, <2>1, <2>5
      <3>2. \A x, y \in Nat : x < y => Base * x + Base <= Base * y /\ Base * x \in Int /\ Base * y \in Int
        BY KeyAssumption
      <3>3. /\ Base * f[i - 1] + Base <= Base * g[i - 1]
            /\ Base * f[i - 1] \in Int /\ Base * g[i - 1] \in Int
        BY <2>1, <3>1, <3>2
      <3>4. f[i] < g[i]
        <4>1. \A x, y, d, e \in Int :
                 x + Base <= y /\ d \in 0 .. Base - 1 /\ e \in 0 .. Base - 1 => x + d < y + e
          BY KeyAssumption
        <4> QED BY <2>1, <2>2, <3>3, <4>1
      <3> QED BY <3>4
    <2> QED BY <2>3, <2>4, <2>5
  <1> HIDE DEF S
  <1>4. \A i \in 0 .. n : i \in S
    BY <1>2, <1>3, SegmentInduction
  <1>5. f[n] < g[n]
    <2>1. n \in 0 .. n /\ n >= p
      OBVIOUS
    <2> QED BY <1>4, <2>1 DEF S
  <1> QED BY <1>5

(* Keys compare as their values do. *)
LEMMA ValuesOrder ==
  ASSUME NEW a \in Seq(0 .. Base - 1), NEW b \in Seq(0 .. Base - 1), NEW n \in Nat,
         Len(a) <= n, Len(b) <= n,
         NEW f, NEW g, Values(f, a, n), Values(g, b, n), f[n] < g[n]
  PROVE  Precedes(a, b)
  <1> DEFINE parts == {i \in 1 .. n : Digit(a, i) # Digit(b, i)}
  <1>1. f[n] \in Nat /\ g[n] \in Nat
    BY DEF Values
  <1>2. ASSUME parts = {} PROVE FALSE
    <2> DEFINE q == n + 1
    <2>1. q \in 1 .. n + 1 /\ n \in 0 .. q - 1
      OBVIOUS
    <2>2. \A i \in 1 .. q - 1 : Digit(a, i) = Digit(b, i)
      BY <1>2
    <2> HIDE DEF q
    <2>3. \A i \in 0 .. q - 1 : f[i] = g[i]
      BY <2>1, <2>2, ValuesAgree
    <2>4. f[n] = g[n]
      BY <2>1, <2>3
    <2> QED BY <1>1, <2>4
  <1>3. PICK p \in parts : \A i \in parts : p <= i
    <2>1. parts \in SUBSET Nat
      OBVIOUS
    <2> HIDE DEF parts
    <2> QED BY <1>2, <2>1, LeastExists
  <1>4. /\ p \in 1 .. n /\ Digit(a, p) # Digit(b, p)
        /\ \A i \in 1 .. p - 1 : Digit(a, i) = Digit(b, i)
    <2>1. \A i \in 1 .. p - 1 : i \in 1 .. n /\ ~ (p <= i)
      BY <1>3
    <2> QED BY <1>3, <2>1
  <1> HIDE DEF parts
  <1>5. Digit(a, p) \in 0 .. Base - 1 /\ Digit(b, p) \in 0 .. Base - 1
    BY <1>4, DigitsAreDigits
  <1>6. Digit(a, p) < Digit(b, p)
    <2> SUFFICES ASSUME Digit(b, p) < Digit(a, p) PROVE FALSE
      BY <1>4, <1>5
    <2>1. g[n] < f[n]
      BY <1>4, ValuesPart
    <2> QED BY <1>1, <2>1
  <1>7. /\ Len(a) \in Nat /\ Len(b) \in Nat /\ a \in Seq(Int) /\ b \in Seq(Int)
        /\ \A i \in 1 .. Len(a) : a[i] \in 0 .. Base - 1
        /\ \A i \in 1 .. Len(b) : b[i] \in 0 .. Base - 1
    BY DigitSequences
  <1>8. p <= Len(b)
    BY <1>4, <1>5, <1>6, <1>7 DEF Digit
  <1>9. CASE p <= Len(a)
    <2>1. PartAt(a, b, p)
      BY <1>4, <1>6, <1>7, <1>8, <1>9 DEF PartAt, Digit
    <2> QED BY <1>4, <1>7, <2>1, PrecedesParts
  <1>10. CASE p > Len(a)
    <2>1. PartAt(a, b, Len(a) + 1)
      BY <1>4, <1>7, <1>8, <1>10 DEF PartAt, Digit
    <2> QED BY <1>7, <2>1, PrecedesParts
  <1> QED BY <1>4, <1>7, <1>9, <1>10

(* Below Exact nothing is rounded. *)
LEMMA ExactIsNumber == Exact \in Nat
  BY PowerProperty, KeyAssumption DEF Exact

(* Below Exact a number is what it is.                                     *)
LEMMA HeldIsExact == ASSUME NEW x, x < Exact PROVE Held(x) = x
  BY DEF Held

(* paddedValue rounds nothing where the power of the length is exact.      *)
LEMMA PaddedIsExact ==
  ASSUME NEW key \in Seq(0 .. Base - 1), NEW n \in Nat, Power(Base, n) < Exact,
         NEW f, Values(f, key, n)
  PROVE  PaddedValue(key, n) = f[n]
  <1> DEFINE next(x, i) == Held(Held(x * Base) + (IF i <= Len(key) THEN key[i] ELSE 0))
             Is(g) == g = [i \in 0 .. n |-> IF i = 0 THEN 0 ELSE next(g[i - 1], i)]
             value == CHOOSE g : Is(g)
  <1>1. f \in [0 .. n -> Nat] /\ f[0] = 0 /\ \A i \in 1 .. n : f[i] = Base * f[i - 1] + Digit(key, i)
    BY DEF Values
  <1>2. ASSUME NEW i \in 1 .. n PROVE next(f[i - 1], i) = f[i]
    <2>1. /\ i \in 0 .. n /\ i - 1 \in 0 .. n /\ f[i - 1] \in Nat /\ f[i] \in Nat
          /\ Digit(key, i) \in Nat
      BY <1>1, DigitsAreDigits
    <2>2. f[i] < Exact
      <3>1. f[i] < Power(Base, n)
        BY <2>1, ValuesAreSmall
      <3>2. Power(Base, n) \in Nat
        BY PowerProperty, KeyAssumption
      <3> QED BY <2>1, <3>1, <3>2, ExactIsNumber
    <2>3. f[i - 1] * Base = Base * f[i - 1] /\ Base * f[i - 1] \in Nat
      BY <2>1, KeyAssumption
    <2>4. Base * f[i - 1] < Exact
      <3> DEFINE product == Base * f[i - 1]
                 digit   == Digit(key, i)
      <3>1. f[i] = product + digit /\ product \in Nat /\ digit \in Nat
        BY <1>1, <2>1, <2>3
      <3> HIDE DEF product, digit
      <3>2. product < Exact
        BY <2>1, <2>2, <3>1, ExactIsNumber
      <3> QED BY <3>2 DEF product
    <2>5. Held(f[i - 1] * Base) = Base * f[i - 1]
      BY <2>3, <2>4, HeldIsExact
    <2>6. Held(Base * f[i - 1] + Digit(key, i)) = f[i]
      <3>1. Base * f[i - 1] + Digit(key, i) = f[i]
        BY <1>1
      <3> QED BY <2>2, <3>1, HeldIsExact
    <2> QED BY <2>5, <2>6 DEF Digit
  <1> HIDE DEF next
  <1>3. Is(f)
    <2>1. \A i \in 0 .. n : i = 0 \/ i \in 1 .. n
      OBVIOUS
    <2>2. \A i \in 0 .. n : f[i] = IF i = 0 THEN 0 ELSE next(f[i - 1], i)
      BY <1>1, <1>2, <2>1
    <2>3. f = [i \in 0 .. n |-> f[i]]
      BY <1>1
    <2> QED BY <2>2, <2>3
  <1>4. Is(value)
    BY <1>3
  <1> HIDE DEF value
  <1>5. value[0] = 0 /\ \A i \in 1 .. n : value[i] = next(value[i - 1], i)
    BY <1>4
  <1>6. value[n] = f[n]
    <2> DEFINE S == {i \in 0 .. n : value[i] = f[i]}
    <2>1. 0 \in S
      BY <1>1, <1>5
    <2>2. \A i \in 1 .. n : i - 1 \in S => i \in S
      BY <1>2, <1>5
    <2> HIDE DEF S
    <2>3. n \in S
      BY <2>1, <2>2, SegmentInduction
    <2> QED BY <2>3 DEF S
  <1>7. PaddedValue(key, n) = value[n]
    BY DEF PaddedValue, value, next
  <1> QED BY <1>6, <1>7

(* The remainders toKey goes through. *)
LEMMA RemaindersOfKey ==
  ASSUME NEW v \in Nat, NEW n \in Nat, v < Exact
  PROVE  \E r \in [0 .. n -> Nat] :
            /\ r[0] = v
            /\ \A i \in 1 .. n : r[i] = r[i - 1] \div Base
            /\ ToKey(v, n) = [i \in 1 .. n |-> r[n - i] % Base]
  <1> DEFINE step  == [i \in 1 .. n |-> [x \in Nat |-> x \div Base]]
             Is(g) == g = [i \in 0 .. n |-> IF i = 0 THEN v ELSE Quotient(g[i - 1], Base)]
             q     == CHOOSE g : Is(g)
  <1>1. PICK r \in [0 .. n -> Nat] : Recurs(r, n, v, step)
    <2>1. step \in [1 .. n -> [Nat -> Nat]]
      <3>1. \A x \in Nat : x \div Base \in Nat
        BY KeyAssumption
      <3> QED BY <3>1
    <2> HIDE DEF step
    <2> QED BY <2>1, RecursionExists
  <1>2. r[0] = v /\ \A i \in 1 .. n : r[i] = r[i - 1] \div Base
    <2> SUFFICES ASSUME NEW i \in 1 .. n PROVE r[i] = r[i - 1] \div Base
      BY <1>1 DEF Recurs
    <2>1. i - 1 \in 0 .. n
      OBVIOUS
    <2>2. r[i] = step[i][r[i - 1]]
      <3> HIDE DEF step
      <3> QED BY <1>1 DEF Recurs
    <2> QED BY <1>1, <2>1, <2>2
  <1> HIDE DEF step
  <1>3. \A i \in 0 .. n : r[i] <= v
    <2> DEFINE S == {i \in 0 .. n : r[i] <= v}
    <2>1. 0 \in S
      BY <1>2
    <2>2. ASSUME NEW i \in 1 .. n, i - 1 \in S PROVE i \in S
      <3>1. i - 1 \in 0 .. n /\ r[i - 1] \in Nat /\ r[i - 1] <= v
        BY <1>1, <2>2
      <3>2. \A x \in Nat : x \div Base \in Nat /\ x \div Base <= x
        BY KeyAssumption
      <3>3. r[i] <= r[i - 1] /\ r[i] \in Nat
        BY <1>2, <3>1, <3>2
      <3> QED BY <3>1, <3>3
    <2> HIDE DEF S
    <2>3. \A i \in 0 .. n : i \in S
      BY <2>1, <2>2, SegmentInduction
    <2> QED BY <2>3 DEF S
  <1>4. ASSUME NEW i \in 1 .. n PROVE Quotient(r[i - 1], Base) = r[i]
    <2>1. i - 1 \in 0 .. n
      OBVIOUS
    <2>2. r[i - 1] < Exact
      BY <1>1, <1>3, <2>1, ExactIsNumber
    <2> QED BY <1>2, <2>2 DEF Quotient
  <1>5. Is(r)
    <2>1. \A i \in 0 .. n : i = 0 \/ i \in 1 .. n
      OBVIOUS
    <2>2. \A i \in 0 .. n : r[i] = IF i = 0 THEN v ELSE Quotient(r[i - 1], Base)
      BY <1>2, <1>4, <2>1
    <2>3. r = [i \in 0 .. n |-> r[i]]
      BY <1>1
    <2> QED BY <2>2, <2>3
  <1>6. Is(q)
    BY <1>5
  <1> HIDE DEF q
  <1>7. q[0] = v /\ \A i \in 1 .. n : q[i] = Quotient(q[i - 1], Base)
    BY <1>6
  <1>8. \A i \in 0 .. n : q[i] = r[i]
    <2> DEFINE S == {i \in 0 .. n : q[i] = r[i]}
    <2>1. 0 \in S
      BY <1>2, <1>7
    <2>2. \A i \in 1 .. n : i - 1 \in S => i \in S
      BY <1>4, <1>7
    <2> HIDE DEF S
    <2>3. \A i \in 0 .. n : i \in S
      BY <2>1, <2>2, SegmentInduction
    <2> QED BY <2>3 DEF S
  <1>9. ToKey(v, n) = [i \in 1 .. n |-> q[n - i] % Base]
    BY DEF ToKey, q
  <1>10. \A i \in 1 .. n : n - i \in 0 .. n
    OBVIOUS
  <1>11. ToKey(v, n) = [i \in 1 .. n |-> r[n - i] % Base]
    BY <1>8, <1>9, <1>10
  <1> QED BY <1>2, <1>11

(* A key of n digits has the value it was made of. *)
LEMMA KeyOfValue ==
  ASSUME NEW v \in Nat, NEW n \in Nat \ {0}, v < Power(Base, n), Power(Base, n) < Exact
  PROVE  /\ ToKey(v, n) \in Seq(0 .. Base - 1) /\ Len(ToKey(v, n)) = n
         /\ ToKey(v, n)[n] = v % Base
         /\ \E f : Values(f, ToKey(v, n), n) /\ f[n] = v
  <1>1. Power(Base, n) \in Nat /\ v < Exact
    BY PowerProperty, KeyAssumption, ExactIsNumber
  <1>2. PICK r \in [0 .. n -> Nat] :
            /\ r[0] = v
            /\ \A i \in 1 .. n : r[i] = r[i - 1] \div Base
            /\ ToKey(v, n) = [i \in 1 .. n |-> r[n - i] % Base]
    BY <1>1, RemaindersOfKey
  <1> DEFINE key == ToKey(v, n)
             f   == [i \in 0 .. n |-> r[n - i]]
  <1>3. \A x \in Nat : /\ x % Base \in 0 .. Base - 1 /\ x \div Base \in Nat
                       /\ x = Base * (x \div Base) + (x % Base)
    BY KeyAssumption
  <1>4. /\ key \in Seq(0 .. Base - 1) /\ Len(key) = n
        /\ \A i \in 1 .. n : key[i] = r[n - i] % Base
    <2>1. \A i \in 1 .. n : r[n - i] % Base \in 0 .. Base - 1
      <3>1. \A i \in 1 .. n : n - i \in 0 .. n
        OBVIOUS
      <3> QED BY <1>2, <1>3, <3>1
    <2> QED BY <1>2, <2>1
  <1>5. key[n] = v % Base
    BY <1>2, <1>4
  <1>6. r[n] = 0
    <2> DEFINE S == {i \in 0 .. n : r[i] < Power(Base, n - i)}
    <2>1. 0 \in S
      BY <1>2
    <2>2. ASSUME NEW i \in 1 .. n, i - 1 \in S PROVE i \in S
      <3>1. /\ i - 1 \in 0 .. n /\ r[i - 1] \in Nat /\ n - i \in Nat
            /\ n - (i - 1) = (n - i) + 1
        BY <1>2
      <3>2. Power(Base, n - i) \in Nat /\ Power(Base, n - (i - 1)) = Base * Power(Base, n - i)
        BY <3>1, PowerProperty, KeyAssumption
      <3>3. r[i - 1] < Base * Power(Base, n - i)
        BY <2>2, <3>2
      <3>4. \A x, y \in Nat : x < Base * y => x \div Base < y
        BY KeyAssumption
      <3>5. r[i] < Power(Base, n - i)
        BY <1>2, <3>1, <3>2, <3>3, <3>4
      <3> QED BY <3>5
    <2> HIDE DEF S
    <2>3. \A i \in 0 .. n : i \in S
      BY <2>1, <2>2, SegmentInduction
    <2>4. r[n] < Power(Base, 0)
      <3>1. n \in 0 .. n /\ n - n = 0
        OBVIOUS
      <3> QED BY <2>3, <3>1 DEF S
    <2>5. r[n] \in Nat
      BY <1>2
    <2>6. Power(Base, 0) = 1
      BY PowerProperty, KeyAssumption
    <2> QED BY <2>4, <2>5, <2>6
  <1>7. Values(f, key, n)
    <2>1. f \in [0 .. n -> Nat]
      <3>1. \A i \in 0 .. n : n - i \in 0 .. n
        OBVIOUS
      <3> QED BY <1>2, <3>1
    <2>2. f[0] = 0
      BY <1>6
    <2>3. ASSUME NEW i \in 1 .. n PROVE f[i] = Base * f[i - 1] + Digit(key, i)
      <3>1. /\ i \in 0 .. n /\ i - 1 \in 0 .. n /\ n - i \in 0 .. n /\ n - (i - 1) \in 1 .. n
            /\ (n - (i - 1)) - 1 = n - i
        OBVIOUS
      <3>2. f[i] = r[n - i] /\ f[i - 1] = r[n - (i - 1)] /\ r[n - i] \in Nat
        BY <1>2, <3>1
      <3>3. r[n - (i - 1)] = r[n - i] \div Base
        BY <1>2, <3>1
      <3>4. Digit(key, i) = r[n - i] % Base
        <4> HIDE DEF key
        <4> QED BY <1>4, <3>1 DEF Digit
      <3> HIDE DEF f, key
      <3> QED BY <1>3, <3>2, <3>3, <3>4
    <2> HIDE DEF f, key
    <2> QED BY <2>1, <2>2, <2>3 DEF Values
  <1>8. f[n] = v
    BY <1>2
  <1> HIDE DEF f
  <1> QED BY <1>4, <1>5, <1>7, <1>8

(* The number after a multiple of Base is none. *)
LEMMA NoTwoMultiples ==
  ASSUME NEW x \in Nat, x % Base = 0
  PROVE  (x + 1) % Base # 0
  <1> SUFFICES ASSUME (x + 1) % Base = 0 PROVE FALSE
    OBVIOUS
  <1>1. PICK p \in Nat : x = Base * p
    <2>1. x \div Base \in Nat /\ x = Base * (x \div Base)
      BY KeyAssumption
    <2> QED BY <2>1
  <1>2. PICK q \in Nat : x + 1 = Base * q
    <2>1. (x + 1) \div Base \in Nat /\ x + 1 = Base * ((x + 1) \div Base)
      BY KeyAssumption
    <2> QED BY <2>1
  <1>3. CASE q <= p
    <2>1. Base * q <= Base * p
      BY <1>3, KeyAssumption
    <2> QED BY <1>1, <1>2, <2>1
  <1>4. CASE q > p
    <2>1. Base * q >= Base * p + Base
      BY <1>4, KeyAssumption
    <2> QED BY <1>1, <1>2, <2>1, KeyAssumption
  <1> QED BY <1>3, <1>4

(* The numbers that the keys between floor and ceiling are made of: none   *)
(* ends in the minimal digit.                                              *)
Nudged(x) == IF x % Base = 0 THEN x + 1 ELSE x
Evenly(floor, ceiling, count, step) ==
    /\ step \in Nat
    /\ \A i \in 1 .. count :
           /\ step * i \in Nat /\ step * i <= ceiling - floor
           /\ floor + step * i \in Nat /\ floor + step * i + 1 < ceiling
           /\ Nudged(floor + step * i) \in Nat /\ Nudged(floor + step * i) % Base # 0
           /\ floor < Nudged(floor + step * i) /\ Nudged(floor + step * i) < ceiling
    /\ \A i, j \in 1 .. count : i < j => Nudged(floor + step * i) < Nudged(floor + step * j)

(* A step of at least 2 keeps them apart, nudged or not.                   *)
LEMMA EvenSteps ==
  ASSUME NEW floor \in Int, NEW ceiling \in Int, floor >= -1,
         NEW count \in Nat \ {0}, ceiling - floor >= 2 * (count + 1),
         NEW step, step = (ceiling - floor) \div (count + 1)
  PROVE  Evenly(floor, ceiling, count, step)
  <1>1. /\ step \in Nat /\ step >= 2 /\ step * (count + 1) <= ceiling - floor
    <2> DEFINE gap == ceiling - floor
               parts == count + 1
    <2>1. gap \in Nat /\ parts \in Nat /\ parts > 0 /\ gap >= 2 * parts /\ step = gap \div parts
      OBVIOUS
    <2> HIDE DEF gap, parts
    <2>2. step \in Nat /\ gap = parts * step + (gap % parts) /\ gap % parts \in Nat
      BY <2>1
    <2>3. parts * step = step * parts /\ parts * step \in Nat
      BY <2>1, <2>2
    <2>4. step * parts <= gap
      BY <2>1, <2>2, <2>3
    <2>5. step >= 2
      <3>1. gap % parts < parts
        BY <2>1
      <3>2. ASSUME step <= 1 PROVE FALSE
        <4>1. parts * step <= parts
          BY <2>1, <2>2, <3>2
        <4> QED BY <2>1, <2>2, <2>3, <3>1, <4>1
      <3> QED BY <2>2, <3>2
    <2> QED BY <2>2, <2>4, <2>5 DEF gap, parts
  <1>2. \A i, j \in Nat : i < j => step * i + step <= step * j /\ step * i \in Nat /\ step * j \in Nat
    <2> TAKE i, j \in Nat
    <2> HAVE i < j
    <2>1. PICK k \in Nat : j = i + 1 + k
      <3>1. j - i - 1 \in Nat /\ j = i + 1 + (j - i - 1)
        OBVIOUS
      <3> QED BY <3>1
    <2>2. step * j = step * i + step + step * k
      BY <1>1, <2>1
    <2>3. step * i \in Nat /\ step * k \in Nat
      BY <1>1
    <2> QED BY <1>1, <2>2, <2>3
  <1>3. ASSUME NEW i \in 1 .. count
        PROVE  /\ step * i \in Nat /\ step * i <= ceiling - floor
               /\ floor + step * i \in Nat /\ floor + step * i + 1 < ceiling
               /\ Nudged(floor + step * i) \in Nat /\ Nudged(floor + step * i) % Base # 0
               /\ floor < Nudged(floor + step * i) /\ Nudged(floor + step * i) < ceiling
               /\ floor + step * i <= Nudged(floor + step * i)
               /\ Nudged(floor + step * i) < floor + step * i + step
    <2> DEFINE d == step * i
               even == floor + d
    <2>1. d \in Nat /\ d >= step /\ d + step <= step * (count + 1) /\ step * (count + 1) \in Nat
      <3>1. 0 \in Nat /\ i \in Nat /\ count + 1 \in Nat /\ 0 < i /\ i < count + 1
        OBVIOUS
      <3>2. step * 0 + step <= step * i /\ step * 0 = 0
        BY <1>1, <1>2, <3>1
      <3>3. step * i + step <= step * (count + 1) /\ step * i \in Nat /\ step * (count + 1) \in Nat
        BY <1>2, <3>1
      <3> QED BY <1>1, <3>2, <3>3
    <2> HIDE DEF d
    <2>2. even \in Nat /\ even + 1 < ceiling /\ floor < even /\ d <= ceiling - floor
      BY <1>1, <2>1
    <2> HIDE DEF even
    <2>3. even % Base = 0 => (even + 1) % Base # 0
      BY <2>2, NoTwoMultiples
    <2>4. /\ Nudged(even) \in Nat /\ Nudged(even) % Base # 0
          /\ floor < Nudged(even) /\ Nudged(even) < ceiling
          /\ even <= Nudged(even) /\ Nudged(even) < even + step
      BY <1>1, <2>2, <2>3 DEF Nudged
    <2> QED BY <2>1, <2>2, <2>4 DEF d, even
  <1>4. ASSUME NEW i \in 1 .. count, NEW j \in 1 .. count, i < j
        PROVE  Nudged(floor + step * i) < Nudged(floor + step * j)
    <2> DEFINE x == floor + step * i
               y == floor + step * j
    <2>1. x + step <= y
      <3>1. step * i + step <= step * j /\ step * i \in Nat /\ step * j \in Nat
        BY <1>2, <1>4
      <3> QED BY <1>1, <3>1
    <2>2. /\ x \in Nat /\ Nudged(x) \in Nat /\ Nudged(x) < x + step
          /\ y \in Nat /\ Nudged(y) \in Nat /\ y <= Nudged(y)
      BY <1>3
    <2> HIDE DEF x, y
    <2>3. Nudged(x) < Nudged(y)
      BY <1>1, <2>1, <2>2
    <2> QED BY <2>3 DEF x, y
  <1> QED BY <1>1, <1>3, <1>4 DEF Evenly

(* Max of three numbers.                                                   *)
LEMMA MaxOfThree ==
  ASSUME NEW m \in Nat, NEW n \in Nat
  PROVE  /\ Max({1, m, n}) \in Nat
         /\ Max({1, m, n}) >= 1 /\ Max({1, m, n}) >= m /\ Max({1, m, n}) >= n
         /\ Max({1, m, n}) = 1 \/ Max({1, m, n}) = m \/ Max({1, m, n}) = n
  <1>1. \E x \in {1, m, n} : \A y \in {1, m, n} : x >= y
    <2>1. CASE m >= n /\ m >= 1
      BY <2>1
    <2>2. CASE n >= m /\ n >= 1
      BY <2>2
    <2>3. CASE m = 0 /\ n = 0
      BY <2>3
    <2> QED BY <2>1, <2>2, <2>3
  <1>2. Max({1, m, n}) \in {1, m, n} /\ \A y \in {1, m, n} : Max({1, m, n}) >= y
    BY <1>1 DEF Max
  <1> QED BY <1>2

(* The value a bound is filled up to.                                      *)
LEMMA BoundValue ==
  ASSUME NEW key \in Keys \cup {NoBound}, NEW n \in Nat, Len(key) <= n, Power(Base, n) < Exact
  PROVE  \E f : /\ Values(f, key, n) /\ PaddedValue(key, n) = f[n]
                /\ f[n] \in Nat /\ f[n] < Power(Base, n)
  <1>1. key \in Seq(0 .. Base - 1)
    BY KeysAreSequences
  <1>2. PICK f : Values(f, key, n)
    BY <1>1, ValuesExist
  <1>3. PaddedValue(key, n) = f[n]
    BY <1>1, <1>2, PaddedIsExact
  <1>4. n \in 0 .. n
    OBVIOUS
  <1>5. f[n] \in Nat /\ f[n] < Power(Base, n)
    BY <1>1, <1>2, <1>4, ValuesAreSmall
  <1> QED BY <1>2, <1>3, <1>5

(* Keys of n digits spread between two bounds of at most n digits.         *)
LEMMA EvenKeysAreSpread ==
  ASSUME NEW count \in Nat \ {0}, NEW n \in Nat \ {0}, Power(Base, n) + 1 < Exact,
         NEW lower, NEW upper, Room(lower, upper), Len(lower) <= n, Len(upper) <= n,
         NEW floor, floor = IF lower = NoBound THEN -1 ELSE PaddedValue(lower, n),
         NEW ceiling, ceiling = IF upper = NoBound THEN Power(Base, n) ELSE PaddedValue(upper, n),
         ceiling - floor >= 2 * (count + 1),
         NEW step, step = (ceiling - floor) \div (count + 1)
  PROVE  Spread([i \in 1 .. count |-> ToKey(Nudged(floor + step * i), n)], count, lower, upper)
  <1> DEFINE v == [i \in 1 .. count |-> Nudged(floor + step * i)]
  <1>1. Power(Base, n) \in Nat /\ Power(Base, n) >= 1 /\ Power(Base, n) < Exact
    <2>1. Power(Base, n) \in Nat
      BY PowerProperty, KeyAssumption
    <2>2. n \in 0 .. n
      OBVIOUS
    <2> QED BY <2>1, <2>2, PowerGrows, ExactIsNumber
  <1>2. lower \in Keys \cup {NoBound} /\ upper \in Keys \cup {NoBound}
    BY DEF Room
  <1>3. PICK f : /\ Values(f, lower, n) /\ PaddedValue(lower, n) = f[n]
                 /\ f[n] \in Nat /\ f[n] < Power(Base, n)
    BY <1>1, <1>2, BoundValue
  <1>4. PICK g : /\ Values(g, upper, n) /\ PaddedValue(upper, n) = g[n]
                 /\ g[n] \in Nat /\ g[n] < Power(Base, n)
    BY <1>1, <1>2, BoundValue
  <1>5. /\ floor \in Int /\ floor >= -1 /\ ceiling \in Int /\ ceiling <= Power(Base, n)
    BY <1>1, <1>3, <1>4
  <1>6. Evenly(floor, ceiling, count, step)
    BY <1>5, EvenSteps
  <1>61. \A i \in 1 .. count : v[i] = Nudged(floor + step * i)
    OBVIOUS
  <1> HIDE DEF v
  <1>7. /\ \A i \in 1 .. count :
               v[i] \in Nat /\ v[i] % Base # 0 /\ floor < v[i] /\ v[i] < ceiling
        /\ \A i, j \in 1 .. count : i < j => v[i] < v[j]
    BY <1>6, <1>61 DEF Evenly
  <1>8. ASSUME NEW i \in 1 .. count
        PROVE  /\ ToKey(v[i], n) \in Seq(0 .. Base - 1) /\ Len(ToKey(v[i], n)) = n
               /\ ToKey(v[i], n)[n] # 0
               /\ \E h : Values(h, ToKey(v[i], n), n) /\ h[n] = v[i]
    <2>1. v[i] \in Nat /\ v[i] < Power(Base, n) /\ v[i] % Base # 0
      BY <1>1, <1>5, <1>7
    <2> QED BY <1>1, <2>1, KeyOfValue
  <1>9. ASSUME NEW i \in 1 .. count PROVE Between(ToKey(v[i], n), lower, upper)
    <2>1. PICK h : Values(h, ToKey(v[i], n), n) /\ h[n] = v[i]
      BY <1>8
    <2>2. ToKey(v[i], n) \in Seq(0 .. Base - 1) /\ Len(ToKey(v[i], n)) = n /\ ToKey(v[i], n)[n] # 0
      BY <1>8
    <2> DEFINE key == ToKey(v[i], n)
    <2> HIDE DEF key
    <2>3. key \in Keys
      <3>1. key # <<>>
        BY <2>2 DEF key
      <3> QED BY <2>2, <3>1 DEF Keys, IsOrderKey, Last, key
    <2>4. Precedes(lower, key)
      <3>1. CASE lower = NoBound
        <4>1. PartAt(lower, key, 1)
          BY <2>2, <3>1, EmptySeq DEF PartAt, NoBound, key
        <4>2. lower \in Seq(Int) /\ key \in Seq(Int)
          BY <1>2, <2>3, KeysAreSequences
        <4> QED BY <4>1, <4>2, PrecedesParts
      <3>2. CASE lower # NoBound
        <4>1. f[n] < h[n]
          BY <1>3, <1>7, <2>1, <3>2
        <4>2. lower \in Seq(0 .. Base - 1)
          BY <1>2, KeysAreSequences
        <4> QED BY <1>3, <2>1, <2>2, <4>1, <4>2, ValuesOrder DEF key
      <3> QED BY <3>1, <3>2
    <2>5. ASSUME upper # NoBound PROVE Precedes(key, upper)
      <3>1. h[n] < g[n]
        BY <1>4, <1>7, <2>1, <2>5
      <3>2. upper \in Seq(0 .. Base - 1)
        BY <1>2, KeysAreSequences
      <3> QED BY <1>4, <2>1, <2>2, <3>1, <3>2, ValuesOrder DEF key
    <2> QED BY <2>3, <2>4, <2>5 DEF Between, key
  <1>10. ASSUME NEW i \in 1 .. count, NEW j \in 1 .. count, i < j
         PROVE  Precedes(ToKey(v[i], n), ToKey(v[j], n))
    <2>1. PICK h : Values(h, ToKey(v[i], n), n) /\ h[n] = v[i]
      BY <1>8
    <2>2. PICK k : Values(k, ToKey(v[j], n), n) /\ k[n] = v[j]
      BY <1>8
    <2>3. h[n] < k[n]
      BY <1>7, <1>10, <2>1, <2>2
    <2>4. /\ ToKey(v[i], n) \in Seq(0 .. Base - 1) /\ Len(ToKey(v[i], n)) <= n
          /\ ToKey(v[j], n) \in Seq(0 .. Base - 1) /\ Len(ToKey(v[j], n)) <= n
      BY <1>8
    <2> QED BY <2>1, <2>2, <2>3, <2>4, ValuesOrder
  <1> DEFINE keys == [i \in 1 .. count |-> ToKey(v[i], n)]
  <1>11. \A i \in 1 .. count : keys[i] = ToKey(v[i], n)
    OBVIOUS
  <1>12. keys \in [1 .. count -> Keys]
    BY <1>9 DEF Between
  <1> HIDE DEF keys
  <1>13. Spread(keys, count, lower, upper)
    BY <1>9, <1>10, <1>11, <1>12 DEF Spread
  <1>14. keys = [i \in 1 .. count |-> ToKey(Nudged(floor + step * i), n)]
    BY <1>61 DEF keys
  <1> QED BY <1>13, <1>14

(* keysForSequence keeps its promise as long as no bound has more digits   *)
(* than a number holds.                                                    *)
THEOREM SequenceIsSpread ==
  ASSUME NEW count \in Nat \ {0}, NEW lower, NEW upper, Room(lower, upper),
         Len(lower) <= MaxSequenceLength, Len(upper) <= MaxSequenceLength
  PROVE  Spread(KeysForSequence(count, lower, upper), count, lower, upper)
  <1> DEFINE first   == Max({1, Len(lower), Len(upper)})
             floor(n)   == IF lower = NoBound THEN -1 ELSE PaddedValue(lower, n)
             ceiling(n) == IF upper = NoBound THEN Held(Power(Base, n)) ELSE PaddedValue(upper, n)
             gap(n)     == Held(ceiling(n) - floor(n))
             roomy   == {n \in {first} \cup (first + 1 .. MaxSequenceLength) : gap(n) >= 2 * (count + 1)}
             length  == Min(roomy)
             step    == Quotient(gap(length), count + 1)
             even(i) == Held(floor(length) + Held(step * i))
             key(i)  == ToKey(IF even(i) % Base = 0 THEN Held(even(i) + 1) ELSE even(i), length)
  <1>1. KeysForSequence(count, lower, upper) =
            IF roomy = {} THEN Walk(count, lower, upper) ELSE [i \in 1 .. count |-> key(i)]
    BY DEF KeysForSequence
  <1>2. /\ lower \in Keys \cup {NoBound} /\ upper \in Keys \cup {NoBound}
        /\ Len(lower) \in Nat /\ Len(upper) \in Nat
    BY KeysAreSequences DEF Room
  <1>3. first \in 1 .. MaxSequenceLength /\ first >= Len(lower) /\ first >= Len(upper)
    BY <1>2, MaxOfThree, KeyAssumption
  <1> HIDE DEF first
  <1>4. CASE roomy = {}
    BY <1>1, <1>4, WalkIsSpread
  <1>5. CASE roomy # {}
    <2>1. PICK n \in roomy : n = length
      <3>1. roomy \in SUBSET Nat
        BY <1>3, KeyAssumption
      <3> HIDE DEF roomy
      <3> QED BY <1>5, <3>1, MinOfNats
    <2>2. n \in first .. MaxSequenceLength /\ gap(n) >= 2 * (count + 1)
      BY <1>3, <2>1, KeyAssumption
    <2>3. n \in Nat \ {0} /\ Len(lower) <= n /\ Len(upper) <= n
      BY <1>2, <1>3, <2>2, KeyAssumption
    <2>4. Power(Base, n) \in Nat /\ Power(Base, n) + 1 < Exact
      <3>1. Power(Base, MaxSequenceLength) \in Nat /\ Power(Base, n) \in Nat
        BY <2>3, PowerProperty, KeyAssumption
      <3>2. n \in 0 .. MaxSequenceLength /\ MaxSequenceLength \in Nat
        BY <1>3, <2>2, KeyAssumption
      <3>3. Power(Base, n) <= Power(Base, MaxSequenceLength)
        BY <3>2, PowerGrows
      <3> QED BY <3>1, <3>3, KeyAssumption, ExactIsNumber
    <2>5. ceiling(n) = IF upper = NoBound THEN Power(Base, n) ELSE PaddedValue(upper, n)
      <3>1. Power(Base, n) < Exact
        BY <2>4, ExactIsNumber
      <3>2. Held(Power(Base, n)) = Power(Base, n)
        BY <2>4, <3>1, HeldIsExact
      <3> QED BY <3>2
    <2>6. /\ floor(n) \in Int /\ floor(n) >= -1
          /\ ceiling(n) \in Int /\ ceiling(n) <= Power(Base, n)
      <3>1. Power(Base, n) < Exact
        BY <2>4, ExactIsNumber
      <3>2. PaddedValue(lower, n) \in Nat /\ PaddedValue(upper, n) \in Nat
            /\ PaddedValue(upper, n) < Power(Base, n)
        BY <1>2, <2>3, <3>1, BoundValue
      <3> QED BY <2>4, <2>5, <3>2
    <2> DEFINE fl == floor(n)
               ce == ceiling(n)
               st == step
    <2>7. fl \in Int /\ fl >= -1 /\ ce \in Int /\ ce <= Power(Base, n)
      BY <2>6
    <2>8. /\ fl = IF lower = NoBound THEN -1 ELSE PaddedValue(lower, n)
          /\ ce = IF upper = NoBound THEN Power(Base, n) ELSE PaddedValue(upper, n)
      BY <2>5
    <2>9. gap(n) = Held(ce - fl) /\ gap(n) >= 2 * (count + 1)
          /\ st = Quotient(gap(n), count + 1)
          /\ (\A i \in 1 .. count : even(i) = Held(fl + Held(st * i)))
          /\ (\A i \in 1 .. count :
                key(i) = ToKey(IF even(i) % Base = 0 THEN Held(even(i) + 1) ELSE even(i), n))
      BY <2>1, <2>2
    <2> DEFINE ga == gap(n)
    <2>10. ga = Held(ce - fl) /\ ga >= 2 * (count + 1) /\ st = Quotient(ga, count + 1)
      BY <2>9
    <2> HIDE DEF fl, ce, st, ga
    <2>11. ga = ce - fl /\ ga < Exact
      <3>1. ce - fl < Exact
        BY <2>4, <2>7, ExactIsNumber
      <3>2. ce - fl \in Int
        BY <2>7
      <3>3. Held(ce - fl) = ce - fl
        BY <3>1, <3>2, HeldIsExact
      <3> QED BY <2>10, <3>1, <3>3
    <2>12. st = (ce - fl) \div (count + 1) /\ ce - fl >= 2 * (count + 1)
      BY <2>10, <2>11 DEF Quotient
    <2>13. Evenly(fl, ce, count, st)
      BY <2>7, <2>12, EvenSteps
    <2>14. ASSUME NEW i \in 1 .. count
           PROVE  even(i) = fl + st * i /\ (even(i) % Base = 0 => Held(even(i) + 1) = fl + st * i + 1)
      <3>1. st * i \in Nat /\ st * i < Exact
        <4>1. st * i \in Nat /\ st * i <= ce - fl
          BY <2>13 DEF Evenly
        <4> QED BY <2>7, <2>11, <4>1, ExactIsNumber
      <3>2. fl + st * i \in Nat /\ fl + st * i < Exact /\ fl + st * i + 1 < Exact
        <4>1. fl + st * i \in Nat /\ fl + st * i + 1 < ce
          BY <2>13 DEF Evenly
        <4> HIDE DEF even
        <4> QED BY <2>4, <2>7, <4>1, ExactIsNumber
      <3>3. even(i) = Held(fl + Held(st * i))
        BY <2>9
      <3> HIDE DEF even
      <3>4. even(i) = fl + st * i
        BY <3>1, <3>2, <3>3, HeldIsExact
      <3>5. Held(fl + st * i + 1) = fl + st * i + 1
        BY <3>2, HeldIsExact
      <3> QED BY <3>4, <3>5
    <2>15. Spread([i \in 1 .. count |-> ToKey(Nudged(fl + st * i), n)], count, lower, upper)
      BY <2>3, <2>4, <2>8, <2>12, EvenKeysAreSpread
    <2>16. \A i \in 1 .. count : key(i) = ToKey(Nudged(fl + st * i), n)
      <3> SUFFICES ASSUME NEW i \in 1 .. count PROVE key(i) = ToKey(Nudged(fl + st * i), n)
        OBVIOUS
      <3>1. key(i) = ToKey(IF even(i) % Base = 0 THEN Held(even(i) + 1) ELSE even(i), n)
        BY <2>9
      <3> HIDE DEF key, even
      <3> QED BY <2>14, <3>1 DEF Nudged
    <2>17. [i \in 1 .. count |-> key(i)] = [i \in 1 .. count |-> ToKey(Nudged(fl + st * i), n)]
      <3> HIDE DEF key
      <3> QED BY <2>16
    <2> QED BY <1>1, <1>5, <2>15, <2>17
  <1> QED BY <1>4, <1>5

-----------------------------------------------------------------------------
(* A strict order of a set. *)
StrictOrder(S, R) ==
    /\ \A e \in S : <<e, e>> \notin R
    /\ \A d, e \in S : d # e => <<d, e>> \in R \/ <<e, d>> \in R
    /\ \A c, d, e \in S : <<c, d>> \in R /\ <<d, e>> \in R => <<c, e>> \in R

(* An arrangement is a list of the set in that order: in a strict order an *)
(* element is determined by the number of those before it.                 *)
LEMMA ArrangedIsOrdered ==
  ASSUME NEW S, IsFiniteSet(S), NEW R, StrictOrder(S, R)
  PROVE  /\ Cardinality(S) \in Nat
         /\ Arranged(S, R) \in [1 .. Cardinality(S) -> S]
         /\ \A i, j \in 1 .. Cardinality(S) :
                i < j => <<Arranged(S, R)[i], Arranged(S, R)[j]>> \in R
         /\ \A e \in S : \E i \in 1 .. Cardinality(S) : Arranged(S, R)[i] = e
  <1> DEFINE below(e) == {d \in S : <<d, e>> \in R}
             n    == Cardinality(S)
             rank == [e \in S |-> Cardinality(below(e))]
             list == [i \in 1 .. n |-> CHOOSE e \in S : rank[e] = i - 1]
  <1>1. n \in Nat
    BY FS_CardinalityType
  <1>2. ASSUME NEW e \in S
        PROVE  /\ IsFiniteSet(below(e)) /\ Cardinality(below(e)) \in 0 .. n - 1
               /\ rank[e] = Cardinality(below(e))
    <2>1. below(e) \in SUBSET S /\ e \notin below(e)
      BY DEF StrictOrder
    <2>2. IsFiniteSet(below(e)) /\ Cardinality(below(e)) <= n /\ Cardinality(below(e)) # n
      BY <2>1, FS_Subset
    <2>3. Cardinality(below(e)) \in Nat
      BY <2>2, FS_CardinalityType
    <2> QED BY <1>1, <2>2, <2>3
  <1>3. ASSUME NEW d \in S, NEW e \in S, <<d, e>> \in R PROVE rank[d] < rank[e]
    <2>1. below(d) \in SUBSET below(e)
      BY <1>3 DEF StrictOrder
    <2>2. d \in below(e) /\ d \notin below(d)
      BY <1>3 DEF StrictOrder
    <2>3. Cardinality(below(d)) <= Cardinality(below(e)) /\ Cardinality(below(d)) # Cardinality(below(e))
      BY <1>2, <2>1, <2>2, FS_Subset
    <2> HIDE DEF below, rank, n
    <2>4. /\ rank[d] = Cardinality(below(d)) /\ rank[d] \in Int
          /\ rank[e] = Cardinality(below(e)) /\ rank[e] \in Int
      BY <1>1, <1>2
    <2> QED BY <2>3, <2>4
  <1> HIDE DEF below
  <1>4. rank \in [S -> 0 .. n - 1]
    BY <1>2
  <1> HIDE DEF rank
  <1>5. \A d, e \in S : rank[d] = rank[e] => d = e
    <2> SUFFICES ASSUME NEW d \in S, NEW e \in S, d # e PROVE rank[d] # rank[e]
      OBVIOUS
    <2>1. rank[d] \in Int /\ rank[e] \in Int
      BY <1>4
    <2>2. rank[d] < rank[e] \/ rank[e] < rank[d]
      BY <1>3 DEF StrictOrder
    <2> QED BY <2>1, <2>2
  <1>6. \A i \in 1 .. n : \E e \in S : rank[e] = i - 1
    <2>1. rank \in Injection(S, 0 .. n - 1)
      BY <1>4, <1>5 DEF Injection, IsInjective
    <2>2. IsFiniteSet(0 .. n - 1) /\ Cardinality(0 .. n - 1) = n
      BY <1>1, FS_Interval
    <2>3. rank \in Surjection(S, 0 .. n - 1)
      BY <2>1, <2>2, FS_Injection
    <2>4. \A i \in 1 .. n : i - 1 \in 0 .. n - 1
      BY <1>1
    <2> QED BY <2>3, <2>4 DEF Surjection
  <1>7. \A i \in 1 .. n : list[i] \in S /\ rank[list[i]] = i - 1
    BY <1>6
  <1>8. list = Arranged(S, R)
    BY DEF Arranged, rank, below
  <1>9. list \in [1 .. n -> S]
    BY <1>7
  <1> HIDE DEF list, n
  <1>10. ASSUME NEW i \in 1 .. n, NEW j \in 1 .. n, i < j PROVE <<list[i], list[j]>> \in R
    <2>1. list[i] \in S /\ list[j] \in S /\ list[i] # list[j] /\ ~ (rank[list[j]] < rank[list[i]])
      BY <1>1, <1>7, <1>10
    <2> QED BY <1>3, <2>1 DEF StrictOrder
  <1>11. ASSUME NEW e \in S PROVE \E i \in 1 .. n : list[i] = e
    <2>1. rank[e] + 1 \in 1 .. n /\ rank[e] = (rank[e] + 1) - 1
      BY <1>1, <1>4
    <2>2. list[rank[e] + 1] = e
      BY <1>5, <1>7, <2>1
    <2> QED BY <2>1, <2>2
  <1> QED BY <1>1, <1>8, <1>9, <1>10, <1>11 DEF n

-----------------------------------------------------------------------------
(* h lists in order the places at which a sequence up to n has elements of *)
(* S, and t the elements.                                                  *)
Picks(h, t, s, n, S) ==
    /\ Len(t) \in Nat
    /\ h \in [1 .. Len(t) -> 1 .. n]
    /\ \A i, j \in 1 .. Len(t) : i < j => h[i] < h[j]
    /\ \A i \in 1 .. Len(t) : t[i] = s[h[i]] /\ t[i] \in S
    /\ \A i \in 1 .. n : s[i] \in S => \E j \in 1 .. Len(t) : h[j] = i

(* Those picks the chosen elements of a sequence, and no others, in their  *)
(* order.                                                                  *)
LEMMA ThoseArePicked ==
  ASSUME NEW D, NEW s \in Seq(D), NEW S
  PROVE  /\ Those(s, S) \in Seq(D)
         /\ \E h : Picks(h, Those(s, S), s, Len(s), S)
  <1> DEFINE n == Len(s)
             next(x, i) == IF s[i] \in S THEN Append(x, s[i]) ELSE x
             step  == [i \in 1 .. n |-> [x \in Seq(D) |-> next(x, i)]]
             Is(f) == f = [i \in 0 .. n |-> IF i = 0 THEN <<>> ELSE next(f[i - 1], i)]
             f     == CHOOSE g : Is(g)
  <1>1. n \in Nat /\ \A i \in 1 .. n : s[i] \in D
    BY LenProperties, ElementOfSeq
  <1>2. \A i \in 1 .. n : \A x \in Seq(D) : next(x, i) \in Seq(D)
    BY <1>1
  <1>3. PICK g \in [0 .. n -> Seq(D)] : Recurs(g, n, <<>>, step)
    <2>1. step \in [1 .. n -> [Seq(D) -> Seq(D)]]
      BY <1>2
    <2>2. <<>> \in Seq(D)
      OBVIOUS
    <2> HIDE DEF step, n
    <2> QED BY <1>1, <2>1, <2>2, RecursionExists
  <1> HIDE DEF next
  <1>4. \A i \in 0 .. n : i = 0 \/ (i \in 1 .. n /\ i - 1 \in 0 .. n)
    BY <1>1
  <1>5. Is(g)
    <2>1. ASSUME NEW i \in 1 .. n PROVE g[i] = next(g[i - 1], i)
      <3>1. i - 1 \in 0 .. n
        BY <1>1
      <3>2. g[i] = step[i][g[i - 1]]
        <4> HIDE DEF step
        <4> QED BY <1>3 DEF Recurs
      <3> QED BY <1>3, <3>1, <3>2
    <2>2. \A i \in 0 .. n : g[i] = IF i = 0 THEN <<>> ELSE next(g[i - 1], i)
      BY <1>3, <1>4, <2>1 DEF Recurs
    <2>3. g = [i \in 0 .. n |-> g[i]]
      BY <1>3
    <2> QED BY <2>2, <2>3
  <1>6. Is(f)
    BY <1>5
  <1> HIDE DEF f
  <1>7. f[0] = <<>> /\ \A i \in 1 .. n : f[i] = next(f[i - 1], i)
    BY <1>1, <1>6
  <1>8. Those(s, S) = f[n]
    BY DEF Those, f, next
  <1> DEFINE P == {i \in 0 .. n : f[i] \in Seq(D) /\ \E h : Picks(h, f[i], s, i, S)}
  <1>9. 0 \in P
    <2>1. f[0] = <<>> /\ Len(<<>>) = 0
      BY <1>7
    <2>2. Picks(<<>>, <<>>, s, 0, S)
      BY DEF Picks
    <2>3. <<>> \in Seq(D) /\ 0 \in 0 .. n
      BY <1>1
    <2> HIDE DEF n
    <2> QED BY <2>1, <2>2, <2>3
  <1>10. ASSUME NEW i \in 1 .. n, i - 1 \in P PROVE i \in P
    <2>1. PICK h : Picks(h, f[i - 1], s, i - 1, S)
      BY <1>10
    <2> DEFINE t == f[i - 1]
               m == Len(t)
    <2>2. t \in Seq(D) /\ m \in Nat /\ h \in [1 .. m -> 1 .. i - 1]
      BY <1>10, <2>1 DEF Picks
    <2>3. CASE s[i] \in S
      <3> DEFINE k == [j \in 1 .. m + 1 |-> IF j = m + 1 THEN i ELSE h[j]]
                 u == Append(t, s[i])
      <3>1. f[i] = u
        BY <1>7, <2>3 DEF next
      <3>2. /\ u \in Seq(D) /\ Len(u) = m + 1 /\ u[m + 1] = s[i]
            /\ \A j \in 1 .. m : u[j] = t[j]
        BY <1>1, <2>2
      <3>3. /\ k \in [1 .. m + 1 -> 1 .. i] /\ k[m + 1] = i
            /\ \A j \in 1 .. m : k[j] = h[j]
        BY <2>2
      <3>4. \A j \in 1 .. m + 1 : j = m + 1 \/ j \in 1 .. m
        BY <2>2
      <3> HIDE DEF k, u, t
      <3>5. \A a, b \in 1 .. m + 1 : a < b => k[a] < k[b]
        <4> SUFFICES ASSUME NEW a \in 1 .. m + 1, NEW b \in 1 .. m + 1, a < b PROVE k[a] < k[b]
          OBVIOUS
        <4>1. a \in 1 .. m /\ h[a] \in 1 .. i - 1 /\ h[a] < i
          BY <2>2, <3>4
        <4>2. CASE b = m + 1
          BY <3>3, <4>1, <4>2
        <4>3. CASE b \in 1 .. m
          BY <2>1, <3>3, <4>1, <4>3 DEF Picks, t
        <4> QED BY <3>4, <4>2, <4>3
      <3>6. \A j \in 1 .. m + 1 : u[j] = s[k[j]] /\ u[j] \in S
        BY <2>1, <2>3, <3>2, <3>3, <3>4 DEF Picks, t
      <3>7. ASSUME NEW l \in 1 .. i, s[l] \in S PROVE \E j \in 1 .. m + 1 : k[j] = l
        <4>1. CASE l = i
          <5>1. m + 1 \in 1 .. m + 1
            BY <2>2
          <5> QED BY <3>3, <4>1, <5>1
        <4>2. CASE l # i
          <5>1. l \in 1 .. i - 1
            BY <4>2
          <5>2. PICK j \in 1 .. m : h[j] = l
            BY <2>1, <3>7, <5>1 DEF Picks, t
          <5>3. j \in 1 .. m + 1 /\ k[j] = l
            BY <2>2, <3>3, <5>2
          <5> QED BY <5>3
        <4> QED BY <4>1, <4>2
      <3>8. Picks(k, u, s, i, S)
        BY <2>2, <3>2, <3>3, <3>5, <3>6, <3>7 DEF Picks
      <3> QED BY <1>4, <3>1, <3>2, <3>8
    <2>4. CASE s[i] \notin S
      <3>1. f[i] = t
        BY <1>7, <2>4 DEF next
      <3>2. \A l \in 1 .. i : l = i \/ l \in 1 .. i - 1
        OBVIOUS
      <3>3. 1 .. i - 1 \subseteq 1 .. i
        OBVIOUS
      <3>4. Picks(h, t, s, i, S)
        BY <2>1, <2>4, <3>2, <3>3 DEF Picks
      <3> QED BY <1>4, <2>2, <3>1, <3>4
    <2> QED BY <2>3, <2>4
  <1> HIDE DEF P
  <1>11. n \in P
    <2> HIDE DEF n
    <2>1. \A i \in 0 .. n : i \in P
      BY <1>1, <1>9, <1>10, SegmentInduction
    <2> QED BY <1>1, <2>1
  <1> QED BY <1>8, <1>11 DEF P

(* Two lists of the same numbers in order are the same list.               *)
Rising(f, m) == \A i, j \in 1 .. m : i < j => f[i] < f[j]
Covered(f, m, g, n) == \A i \in 1 .. m : \E j \in 1 .. n : f[i] = g[j]

(* Two rising sequences of numbers with the same elements are the same.    *)
LEMMA SameRange ==
  ASSUME NEW m \in Nat, NEW n \in Nat, NEW f \in [1 .. m -> Nat], NEW g \in [1 .. n -> Nat],
         Rising(f, m), Rising(g, n), Covered(f, m, g, n), Covered(g, n, f, m)
  PROVE  m = n /\ f = g
  <1>1. ASSUME NEW i \in 1 .. m, \A k \in 1 .. i - 1 : k \in 1 .. n /\ f[k] = g[k]
        PROVE  i \in 1 .. n /\ f[i] = g[i]
    <2>1. PICK j \in 1 .. n : f[i] = g[j]
      BY DEF Covered
    <2>2. ~ (j < i)
      <3> SUFFICES ASSUME j < i PROVE FALSE
        OBVIOUS
      <3>1. j \in 1 .. i - 1 /\ j \in 1 .. m
        OBVIOUS
      <3>2. f[j] = g[j] /\ f[j] < f[i] /\ f[j] \in Nat /\ f[i] \in Nat
        BY <1>1, <3>1 DEF Rising
      <3> QED BY <2>1, <3>2
    <2>3. i \in 1 .. n
      BY <2>2
    <2>4. PICK k \in 1 .. m : f[k] = g[i]
      BY <2>3 DEF Covered
    <2>5. ~ (k < i)
      <3> SUFFICES ASSUME k < i PROVE FALSE
        OBVIOUS
      <3>1. k \in 1 .. i - 1
        OBVIOUS
      <3>2. k \in 1 .. n /\ f[k] = g[k]
        BY <1>1, <3>1
      <3>3. g[k] < g[i] /\ g[k] \in Nat /\ g[i] \in Nat
        BY <2>3, <3>2 DEF Rising
      <3> QED BY <2>4, <3>2, <3>3
    <2>6. f[i] \in Nat /\ g[i] \in Nat /\ f[k] \in Nat /\ g[j] \in Nat
      BY <2>3
    <2>7. f[i] <= f[k]
      <3>1. CASE k = i
        BY <2>6, <3>1
      <3>2. CASE i < k
        BY <2>6, <3>2 DEF Rising
      <3> QED BY <2>5, <3>1, <3>2
    <2>8. g[i] <= g[j]
      <3>1. CASE j = i
        BY <2>6, <3>1
      <3>2. CASE i < j
        BY <2>3, <2>6, <3>2 DEF Rising
      <3> QED BY <2>2, <3>1, <3>2
    <2>9. f[i] = g[i]
      <3>1. f[i] <= g[i] /\ g[i] <= f[i]
        BY <2>1, <2>4, <2>7, <2>8
      <3> QED BY <2>6, <3>1
    <2> QED BY <2>3, <2>9
  <1>2. \A i \in 1 .. m : i \in 1 .. n /\ f[i] = g[i]
    <2> DEFINE S == {i \in 0 .. m : \A k \in 1 .. i : k \in 1 .. n /\ f[k] = g[k]}
    <2>1. 0 \in S
      OBVIOUS
    <2>2. ASSUME NEW i \in 1 .. m, i - 1 \in S PROVE i \in S
      <3>1. \A k \in 1 .. i - 1 : k \in 1 .. n /\ f[k] = g[k]
        BY <2>2
      <3>2. i \in 1 .. n /\ f[i] = g[i]
        BY <1>1, <3>1
      <3>3. \A k \in 1 .. i : k = i \/ k \in 1 .. i - 1
        OBVIOUS
      <3>4. \A k \in 1 .. i : k \in 1 .. n /\ f[k] = g[k]
        BY <3>1, <3>2, <3>3
      <3>5. i \in 0 .. m
        OBVIOUS
      <3> QED BY <3>4, <3>5
    <2>3. m \in S
      <3> HIDE DEF S
      <3>1. \A i \in 0 .. m : i \in S
        BY <2>1, <2>2, SegmentInduction
      <3>2. m \in 0 .. m
        OBVIOUS
      <3> QED BY <3>1, <3>2
    <2> QED BY <2>3
  <1>3. m = n
    <2>1. m <= n
      BY <1>2
    <2>2. ASSUME m < n PROVE FALSE
      <3>1. m + 1 \in 1 .. n
        BY <2>2
      <3>2. PICK i \in 1 .. m : f[i] = g[m + 1]
        BY <3>1 DEF Covered
      <3>3. i \in 1 .. n /\ f[i] = g[i] /\ i < m + 1
        BY <1>2
      <3>4. g[i] < g[m + 1] /\ g[i] \in Nat /\ g[m + 1] \in Nat
        BY <3>1, <3>3 DEF Rising
      <3> QED BY <3>2, <3>3, <3>4
    <2> QED BY <2>1, <2>2
  <1> QED BY <1>2, <1>3

-----------------------------------------------------------------------------
(* The order of keys is strict.                                            *)
LEMMA KeysAreOrdered ==
  /\ \A a \in Keys : ~ Precedes(a, a)
  /\ \A a, b \in Keys : a # b => Precedes(a, b) \/ Precedes(b, a)
  /\ \A a, b, c \in Keys : Precedes(a, b) /\ Precedes(b, c) => Precedes(a, c)
  <1>1. ASSUME NEW a \in Keys, Precedes(a, a) PROVE FALSE
    <2>1. a \in Seq(Int) /\ \A i \in 1 .. Len(a) : a[i] \in Int
      BY KeysAreSequences
    <2>2. PICK n \in Nat : PartAt(a, a, n)
      BY <1>1, <2>1, PrecedesParts
    <2>3. n \in 1 .. Len(a) /\ a[n] < a[n]
      BY <2>1, <2>2, LenProperties DEF PartAt
    <2> QED BY <2>1, <2>3
  <1>2. ASSUME NEW a \in Keys, NEW b \in Keys, a # b PROVE Precedes(a, b) \/ Precedes(b, a)
    <2> DEFINE parts == {i \in 1 .. Len(a) : i \in 1 .. Len(b) /\ a[i] # b[i]}
    <2>1. /\ a \in Seq(Int) /\ Len(a) \in Nat /\ \A i \in 1 .. Len(a) : a[i] \in Int
          /\ b \in Seq(Int) /\ Len(b) \in Nat /\ \A i \in 1 .. Len(b) : b[i] \in Int
      BY KeysAreSequences
    <2>2. CASE parts # {}
      <3>1. PICK n \in parts : \A i \in parts : n <= i
        <4>1. parts \in SUBSET Nat
          OBVIOUS
        <4> HIDE DEF parts
        <4> QED BY <2>2, <4>1, LeastExists
      <3>2. \A i \in 1 .. n - 1 : i \in 1 .. Len(a) /\ i \in 1 .. Len(b) /\ ~ (n <= i)
        BY <2>1
      <3>3. \A i \in 1 .. n - 1 : a[i] = b[i]
        BY <3>1, <3>2
      <3>4. n \in 1 .. Len(a) /\ n \in 1 .. Len(b) /\ (a[n] < b[n] \/ b[n] < a[n])
        BY <2>1
      <3> HIDE DEF parts
      <3>5. n \in Nat /\ (PartAt(a, b, n) \/ PartAt(b, a, n))
        BY <2>1, <3>3, <3>4 DEF PartAt
      <3> QED BY <2>1, <3>5, PrecedesParts
    <2>3. CASE parts = {}
      <3>1. \A i \in 1 .. Len(a) : i \in 1 .. Len(b) => a[i] = b[i]
        BY <2>3
      <3>2. CASE Len(a) = Len(b)
        BY <1>2, <2>1, <3>1, <3>2, SeqEqual
      <3>3. CASE Len(a) < Len(b)
        <4>1. PartAt(a, b, Len(a) + 1) /\ Len(a) + 1 \in Nat
          BY <2>1, <3>1, <3>3 DEF PartAt
        <4> QED BY <2>1, <4>1, PrecedesParts
      <3>4. CASE Len(b) < Len(a)
        <4>1. PartAt(b, a, Len(b) + 1) /\ Len(b) + 1 \in Nat
          BY <2>1, <3>1, <3>4 DEF PartAt
        <4> QED BY <2>1, <4>1, PrecedesParts
      <3> QED BY <2>1, <3>2, <3>3, <3>4
    <2> QED BY <2>2, <2>3
  <1>3. ASSUME NEW a \in Keys, NEW b \in Keys, NEW c \in Keys, Precedes(a, b), Precedes(b, c)
        PROVE  Precedes(a, c)
    BY <1>3, KeysAreSequences, PrecedesIsTransitive
  <1> QED BY <1>1, <1>2, <1>3

-----------------------------------------------------------------------------
(* The entries a value is made of; a set of entries that can be a value; a *)
(* value.                                                                  *)
Entries == [id : Ids, orderKey : Keys]

Proper(members) ==
    /\ members \subseteq Entries
    /\ IsFiniteSet(members)
    /\ \A d, e \in members : d # e => d.id # e.id /\ d.orderKey # e.orderKey

Ordered(value) ==
    /\ value \in Seq(Entries)
    /\ \A i, j \in 1 .. Len(value) :
           i < j => value[i].id # value[j].id /\ Precedes(value[i].orderKey, value[j].orderKey)

(* A sequence, its indices and the set of its elements.                    *)
LEMMA ToSetOfSeq ==
  ASSUME NEW D, NEW s \in Seq(D)
  PROVE  /\ Len(s) \in Nat /\ DOMAIN s = 1 .. Len(s)
         /\ \A i \in 1 .. Len(s) : s[i] \in D /\ s[i] \in ToSet(s)
         /\ \A e \in ToSet(s) : e \in D /\ \E i \in 1 .. Len(s) : s[i] = e
         /\ ToSet(s) \subseteq D /\ IsFiniteSet(ToSet(s))
  <1>1. Len(s) \in Nat /\ DOMAIN s = 1 .. Len(s) /\ \A i \in 1 .. Len(s) : s[i] \in D
    BY LenProperties, ElementOfSeq
  <1>2. ToSet(s) = {s[i] : i \in 1 .. Len(s)}
    BY <1>1 DEF ToSet
  <1>3. IsFiniteSet(ToSet(s))
    <2> DEFINE f == [i \in 1 .. Len(s) |-> s[i]]
    <2>1. f \in Surjection(1 .. Len(s), ToSet(s))
      BY <1>1, <1>2 DEF Surjection
    <2>2. IsFiniteSet(1 .. Len(s))
      BY <1>1, FS_Interval
    <2> QED BY <2>1, <2>2, FS_Surjection
  <1> QED BY <1>1, <1>2, <1>3

(* A value is read back, and its members can be a value.                   *)
LEMMA OrderedIsValid ==
  ASSUME NEW value, Ordered(value)
  PROVE  IsScopeIndexValue(value) /\ Proper(ToSet(value))
  <1>1. /\ value \in Seq(Entries) /\ Len(value) \in Nat
        /\ \A e \in ToSet(value) : e \in Entries /\ \E i \in 1 .. Len(value) : value[i] = e
        /\ ToSet(value) \subseteq Entries /\ IsFiniteSet(ToSet(value))
    BY ToSetOfSeq DEF Ordered
  <1>2. IsScopeIndexValue(value)
    BY <1>1 DEF IsScopeIndexValue, Ordered, Entries, Keys
  <1>3. ASSUME NEW d \in ToSet(value), NEW e \in ToSet(value), d # e
        PROVE  d.id # e.id /\ d.orderKey # e.orderKey
    <2>1. PICK i \in 1 .. Len(value), j \in 1 .. Len(value) : value[i] = d /\ value[j] = e
      BY <1>1
    <2>2. i # j /\ d.orderKey \in Keys /\ e.orderKey \in Keys
      BY <1>1, <1>3, <2>1 DEF Entries
    <2>3. i < j \/ j < i
      BY <2>2
    <2> QED BY <2>1, <2>2, <2>3, KeysAreOrdered DEF Ordered
  <1> QED BY <1>1, <1>2, <1>3 DEF Proper

(* The ids and keys of the members of an ordered value.                    *)
LEMMA MembersAreEntries ==
  ASSUME NEW value, Ordered(value), NEW e \in ToSet(value)
  PROVE  e \in Entries /\ e.id \in Ids /\ e.orderKey \in Keys
  <1>1. value \in Seq(Entries)
    BY DEF Ordered
  <1>2. e \in Entries
    BY <1>1, ToSetOfSeq
  <1> QED BY <1>2 DEF Entries

(* Ids can be ranked.                                                      *)
LEMMA RankIsNumber == \A id \in Ids : RankOf[id] \in Nat
  <1>1. IsFiniteSet(Ids)
    BY ScopeAssumption
  <1>2. ExistsBijection(Ids, 1 .. Cardinality(Ids))
    BY <1>1, FS_CardinalityType, Fun_ExistsBijSymmetric
  <1>3. \E rank \in [Ids -> 1 .. Cardinality(Ids)] : IsInjective(rank)
    BY <1>2 DEF ExistsBijection, Bijection, Injection
  <1>4. RankOf \in [Ids -> 1 .. Cardinality(Ids)]
    BY <1>3 DEF RankOf
  <1> QED BY <1>4

(* A set of entries that can be a value is one when it is sorted.          *)
LEMMA InOrderIsOrdered ==
  ASSUME NEW members, Proper(members)
  PROVE  Ordered(InOrder(members)) /\ ToSet(InOrder(members)) = members
  <1> DEFINE R == {p \in members \X members : Before(p[1], p[2])}
             n == Cardinality(members)
             list == Arranged(members, R)
  <1>1. \A d, e \in members : <<d, e>> \in R <=> Precedes(d.orderKey, e.orderKey)
    <2> SUFFICES ASSUME NEW d \in members, NEW e \in members
                 PROVE  <<d, e>> \in R <=> Precedes(d.orderKey, e.orderKey)
      OBVIOUS
    <2>1. <<d, e>> \in R <=> Before(d, e)
      OBVIOUS
    <2> HIDE DEF R
    <2>2. CASE d = e
      <3>1. d.orderKey \in Keys /\ RankOf[d.id] = RankOf[e.id]
        BY <2>2 DEF Proper, Entries
      <3>2. RankOf[d.id] \in Nat
        BY RankIsNumber DEF Proper, Entries
      <3>3. ~ Precedes(d.orderKey, e.orderKey)
        BY <2>2, <3>1, KeysAreOrdered
      <3>4. ~ (RankOf[d.id] < RankOf[e.id])
        BY <3>1, <3>2
      <3>5. ~ Before(d, e)
        BY <3>3, <3>4, Zenon DEF Before
      <3> QED BY <2>1, <3>3, <3>5
    <2>3. CASE d # e
      <3>1. d.orderKey # e.orderKey
        BY <2>3 DEF Proper
      <3>2. Before(d, e) <=> Precedes(d.orderKey, e.orderKey)
        BY <3>1, Zenon DEF Before
      <3> QED BY <2>1, <3>2
    <2> QED BY <2>2, <2>3
  <1> HIDE DEF R
  <1>2. StrictOrder(members, R)
    <2>1. \A d \in members : d.orderKey \in Keys
      BY DEF Proper, Entries
    <2> QED BY <1>1, <2>1, KeysAreOrdered DEF StrictOrder, Proper
  <1>3. /\ n \in Nat /\ list \in [1 .. n -> members]
        /\ \A i, j \in 1 .. n : i < j => <<list[i], list[j]>> \in R
        /\ \A e \in members : \E i \in 1 .. n : list[i] = e
    BY <1>2, ArrangedIsOrdered DEF Proper
  <1>4. InOrder(members) = list
    BY DEF InOrder, R
  <1> HIDE DEF list, n
  <1>5. list \in Seq(members) /\ Len(list) = n
    BY <1>3
  <1>6. list \in Seq(Entries)
    BY <1>5, SeqMonotonic DEF Proper
  <1>7. \A i, j \in 1 .. n : i < j => list[i] \in members /\ list[j] \in members
                                     /\ Precedes(list[i].orderKey, list[j].orderKey)
    BY <1>1, <1>3
  <1>8. \A i, j \in 1 .. n : i < j => list[i] # list[j]
    BY <1>2, <1>3 DEF StrictOrder
  <1>9. Ordered(list)
    BY <1>5, <1>6, <1>7, <1>8 DEF Ordered, Proper
  <1>10. ToSet(list) = members
    BY <1>3, <1>5 DEF ToSet
  <1> QED BY <1>4, <1>9, <1>10

-----------------------------------------------------------------------------
(* What remains of a sequence and of a value.                              *)
LEMMA ThoseInSet ==
  ASSUME NEW D, NEW s \in Seq(D), NEW S
  PROVE  /\ Those(s, S) \in Seq(D)
         /\ ToSet(Those(s, S)) = ToSet(s) \cap S
  <1> DEFINE t == Those(s, S)
  <1>1. t \in Seq(D) /\ \E h : Picks(h, t, s, Len(s), S)
    BY ThoseArePicked
  <1> HIDE DEF t
  <1>2. PICK h : Picks(h, t, s, Len(s), S)
    BY <1>1
  <1>3. /\ \A i \in 1 .. Len(t) : t[i] \in ToSet(t)
        /\ \A e \in ToSet(t) : \E i \in 1 .. Len(t) : t[i] = e
    BY <1>1, ToSetOfSeq
  <1>4. /\ \A i \in 1 .. Len(s) : s[i] \in ToSet(s)
        /\ \A e \in ToSet(s) : \E i \in 1 .. Len(s) : s[i] = e
    BY ToSetOfSeq
  <1>5. ASSUME NEW e \in ToSet(t) PROVE e \in ToSet(s) \cap S
    BY <1>2, <1>3, <1>4 DEF Picks
  <1>6. ASSUME NEW e \in ToSet(s) \cap S PROVE e \in ToSet(t)
    <2>1. PICK i \in 1 .. Len(s) : s[i] = e
      BY <1>4
    <2>2. PICK j \in 1 .. Len(t) : h[j] = i
      BY <1>2, <2>1 DEF Picks
    <2> QED BY <1>2, <1>3, <2>1, <2>2 DEF Picks
  <1> QED BY <1>1, <1>5, <1>6 DEF t

(* Nothing is left out of a sequence of the set.                           *)
LEMMA ThoseAreAll ==
  ASSUME NEW D, NEW s \in Seq(D), NEW S, \A i \in 1 .. Len(s) : s[i] \in S
  PROVE  Those(s, S) = s
  <1> DEFINE t == Those(s, S)
             n == Len(s)
             id == [i \in 1 .. n |-> i]
  <1>1. t \in Seq(D) /\ \E h : Picks(h, t, s, n, S)
    BY ThoseArePicked
  <1> HIDE DEF t
  <1>2. PICK h : Picks(h, t, s, n, S)
    BY <1>1
  <1>3. n \in Nat /\ Len(t) \in Nat /\ h \in [1 .. Len(t) -> 1 .. n] /\ Rising(h, Len(t))
    BY <1>2, LenProperties DEF Picks, Rising
  <1>4. h \in [1 .. Len(t) -> Nat] /\ id \in [1 .. n -> Nat] /\ Rising(id, n)
    BY <1>3 DEF Rising
  <1>5. \A i \in 1 .. n : id[i] = i
    OBVIOUS
  <1> HIDE DEF id, n
  <1>6. Covered(h, Len(t), id, n)
    BY <1>3, <1>5 DEF Covered
  <1>7. Covered(id, n, h, Len(t))
    <2> SUFFICES ASSUME NEW i \in 1 .. n PROVE \E j \in 1 .. Len(t) : id[i] = h[j]
      BY DEF Covered
    <2>1. s[i] \in S
      BY DEF n
    <2>2. PICK j \in 1 .. Len(t) : h[j] = i
      BY <1>2, <2>1 DEF Picks
    <2> QED BY <1>5, <2>2
  <1>8. Len(t) = n /\ h = id
    BY <1>3, <1>4, <1>6, <1>7, SameRange
  <1>9. \A i \in 1 .. n : t[i] = s[i]
    BY <1>2, <1>5, <1>8 DEF Picks
  <1>10. t = s
    BY <1>1, <1>8, <1>9, SeqEqual DEF n
  <1> QED BY <1>10 DEF t

(* A part of an ordered value is ordered.                                  *)
LEMMA ThoseIsOrdered ==
  ASSUME NEW value, Ordered(value), NEW S
  PROVE  Ordered(Those(value, S)) /\ ToSet(Those(value, S)) = ToSet(value) \cap S
  <1> DEFINE t == Those(value, S)
  <1>1. value \in Seq(Entries)
    BY DEF Ordered
  <1>2. t \in Seq(Entries) /\ ToSet(t) = ToSet(value) \cap S
    BY <1>1, ThoseInSet
  <1>3. \E h : Picks(h, t, value, Len(value), S)
    BY <1>1, ThoseArePicked
  <1> HIDE DEF t
  <1>4. PICK h : Picks(h, t, value, Len(value), S)
    BY <1>3
  <1>5. ASSUME NEW i \in 1 .. Len(t), NEW j \in 1 .. Len(t), i < j
        PROVE  t[i].id # t[j].id /\ Precedes(t[i].orderKey, t[j].orderKey)
    <2>1. h[i] \in 1 .. Len(value) /\ h[j] \in 1 .. Len(value) /\ h[i] < h[j]
          /\ t[i] = value[h[i]] /\ t[j] = value[h[j]]
      BY <1>4, <1>5 DEF Picks
    <2> QED BY <2>1 DEF Ordered
  <1> QED BY <1>2, <1>5 DEF Ordered, t

(* No bound is before every key.                                           *)
LEMMA EmptyIsLeast == ASSUME NEW key \in Keys PROVE Precedes(NoBound, key)
  <1>1. key \in Seq(Int) /\ NoBound \in Seq(Int) /\ Len(key) \in 1 .. Len(key) /\ Len(key) \in Nat
    <2>1. key # NoBound
      BY DEF Keys, IsOrderKey, NoBound
    <2> QED BY <2>1, KeysAreSequences
  <1>2. Len(NoBound) = 0
    BY DEF NoBound
  <1>3. PartAt(NoBound, key, 1) /\ 1 \in Nat
    BY <1>1, <1>2 DEF PartAt
  <1> QED BY <1>1, <1>3, PrecedesParts

(* What two joined sequences hold.                                         *)
LEMMA ToSetOfJoined ==
  ASSUME NEW D, NEW a \in Seq(D), NEW b \in Seq(D)
  PROVE  ToSet(a \o b) = ToSet(a) \cup ToSet(b)
  <1> DEFINE c == a \o b
  <1>1. /\ Len(a) \in Nat /\ Len(b) \in Nat
        /\ \A i \in 1 .. Len(a) : a[i] \in ToSet(a)
        /\ \A i \in 1 .. Len(b) : b[i] \in ToSet(b)
        /\ \A e \in ToSet(a) : \E i \in 1 .. Len(a) : a[i] = e
        /\ \A e \in ToSet(b) : \E i \in 1 .. Len(b) : b[i] = e
    BY ToSetOfSeq
  <1>2. /\ c \in Seq(D) /\ Len(c) = Len(a) + Len(b)
        /\ \A i \in 1 .. Len(a) : c[i] = a[i]
        /\ \A i \in 1 .. Len(b) : c[Len(a) + i] = b[i]
    BY Joining
  <1> HIDE DEF c
  <1>3. /\ \A i \in 1 .. Len(c) : c[i] \in ToSet(c)
        /\ \A e \in ToSet(c) : \E i \in 1 .. Len(c) : c[i] = e
    <2>1. c \in Seq(D)
      BY <1>2
    <2> QED BY <2>1, ToSetOfSeq
  <1>4. ASSUME NEW e \in ToSet(c) PROVE e \in ToSet(a) \cup ToSet(b)
    <2>1. PICK i \in 1 .. Len(c) : c[i] = e
      BY <1>3
    <2>2. CASE i <= Len(a)
      <3>1. i \in 1 .. Len(a)
        BY <1>1, <2>2
      <3> QED BY <1>1, <1>2, <2>1, <3>1
    <2>3. CASE i > Len(a)
      <3>1. i - Len(a) \in 1 .. Len(b) /\ Len(a) + (i - Len(a)) = i
        BY <1>1, <1>2, <2>3
      <3> QED BY <1>1, <1>2, <2>1, <3>1
    <2> QED BY <1>1, <2>2, <2>3
  <1>5. ToSet(a) \subseteq ToSet(c)
    <2>1. \A i \in 1 .. Len(a) : i \in 1 .. Len(c)
      BY <1>1, <1>2
    <2> QED BY <1>1, <1>2, <1>3, <2>1
  <1>6. ToSet(b) \subseteq ToSet(c)
    <2>1. \A i \in 1 .. Len(b) : Len(a) + i \in 1 .. Len(c)
      BY <1>1, <1>2
    <2> QED BY <1>1, <1>2, <1>3, <2>1
  <1> QED BY <1>4, <1>5, <1>6 DEF c

(* One value behind another.                                               *)
LEMMA JoinedIsOrdered ==
  ASSUME NEW a, Ordered(a), NEW b, Ordered(b),
         \A d \in ToSet(a), e \in ToSet(b) : d.id # e.id /\ Precedes(d.orderKey, e.orderKey)
  PROVE  Ordered(a \o b) /\ ToSet(a \o b) = ToSet(a) \cup ToSet(b)
  <1> DEFINE c == a \o b
  <1>1. /\ a \in Seq(Entries) /\ Len(a) \in Nat /\ b \in Seq(Entries) /\ Len(b) \in Nat
        /\ \A i \in 1 .. Len(a) : a[i] \in ToSet(a)
        /\ \A i \in 1 .. Len(b) : b[i] \in ToSet(b)
        /\ \A e \in ToSet(a) : \E i \in 1 .. Len(a) : a[i] = e
        /\ \A e \in ToSet(b) : \E i \in 1 .. Len(b) : b[i] = e
    BY ToSetOfSeq DEF Ordered
  <1>2. /\ c \in Seq(Entries) /\ Len(c) = Len(a) + Len(b)
        /\ \A i \in 1 .. Len(a) : c[i] = a[i]
        /\ \A i \in 1 .. Len(b) : c[Len(a) + i] = b[i]
    BY <1>1, Joining
  <1> HIDE DEF c
  <1>4. ASSUME NEW i \in 1 .. Len(c)
        PROVE  \/ i \in 1 .. Len(a) /\ c[i] = a[i]
               \/ i > Len(a) /\ i - Len(a) \in 1 .. Len(b) /\ c[i] = b[i - Len(a)]
    <2>1. CASE i <= Len(a)
      <3>1. i \in 1 .. Len(a)
        BY <1>1, <1>2, <2>1
      <3> QED BY <1>2, <3>1
    <2>2. CASE i > Len(a)
      <3>1. i - Len(a) \in 1 .. Len(b) /\ Len(a) + (i - Len(a)) = i
        BY <1>1, <1>2, <2>2
      <3> QED BY <1>2, <2>2, <3>1
    <2> QED BY <1>1, <2>1, <2>2
  <1>5. ASSUME NEW i \in 1 .. Len(c), NEW j \in 1 .. Len(c), i < j
        PROVE  c[i].id # c[j].id /\ Precedes(c[i].orderKey, c[j].orderKey)
    <2>1. CASE i \in 1 .. Len(a) /\ j \in 1 .. Len(a)
      <3>1. c[i] = a[i] /\ c[j] = a[j]
        BY <1>2, <2>1
      <3> QED BY <1>5, <2>1, <3>1 DEF Ordered
    <2>2. CASE i \in 1 .. Len(a) /\ j > Len(a)
      <3>1. c[i] \in ToSet(a)
        BY <1>1, <1>2, <2>2
      <3>2. c[j] \in ToSet(b)
        BY <1>1, <1>4, <2>2
      <3> QED BY <3>1, <3>2
    <2>3. CASE i > Len(a) /\ j > Len(a)
      <3> DEFINE k == i - Len(a)
                 l == j - Len(a)
      <3>1. /\ k \in 1 .. Len(b) /\ c[i] = b[k]
            /\ l \in 1 .. Len(b) /\ c[j] = b[l] /\ k < l
        BY <1>1, <1>4, <1>5, <2>3
      <3> HIDE DEF k, l
      <3> QED BY <3>1 DEF Ordered
    <2> QED BY <1>1, <1>5, <2>1, <2>2, <2>3
  <1>6. ToSet(c) = ToSet(a) \cup ToSet(b)
    BY <1>1, ToSetOfJoined DEF c
  <1> QED BY <1>2, <1>5, <1>6 DEF Ordered, c

-----------------------------------------------------------------------------
(* The ids of a value are those of its members.                            *)
IdSet(members) == {e.id : e \in members}

(* The ids of a value, index by index and as a set.                        *)
LEMMA IdsAreOfMembers ==
  ASSUME NEW value \in Seq(Entries)
  PROVE  /\ IdsOf(value) \in Seq(Ids) /\ Len(IdsOf(value)) = Len(value)
         /\ \A i \in 1 .. Len(value) : IdsOf(value)[i] = value[i].id
         /\ ToSet(IdsOf(value)) = IdSet(ToSet(value))
  <1> DEFINE ids == IdsOf(value)
  <1>1. /\ Len(value) \in Nat
        /\ \A i \in 1 .. Len(value) : value[i] \in Entries /\ value[i] \in ToSet(value)
        /\ \A e \in ToSet(value) : \E i \in 1 .. Len(value) : value[i] = e
    BY ToSetOfSeq
  <1>2. ids = [i \in 1 .. Len(value) |-> value[i].id]
    BY DEF IdsOf
  <1>3. ids \in [1 .. Len(value) -> Ids]
    BY <1>1, <1>2 DEF Entries
  <1>4. ids \in Seq(Ids) /\ Len(ids) = Len(value)
    BY <1>1, <1>3
  <1>5. /\ \A i \in 1 .. Len(ids) : ids[i] \in ToSet(ids)
        /\ \A a \in ToSet(ids) : \E i \in 1 .. Len(ids) : ids[i] = a
    BY <1>4, ToSetOfSeq
  <1>6. \A i \in 1 .. Len(value) : ids[i] = value[i].id
    BY <1>2
  <1> HIDE DEF ids
  <1>7. ToSet(ids) \subseteq IdSet(ToSet(value))
    BY <1>1, <1>4, <1>5, <1>6 DEF IdSet
  <1>8. IdSet(ToSet(value)) \subseteq ToSet(ids)
    BY <1>1, <1>4, <1>5, <1>6 DEF IdSet
  <1> QED BY <1>4, <1>6, <1>7, <1>8 DEF ids

(* A value without some ids is ordered and holds all others.               *)
LEMMA WithoutIsOrdered ==
  ASSUME NEW value, Ordered(value), NEW ids
  PROVE  /\ Ordered(Without(value, ids))
         /\ ToSet(Without(value, ids)) = {e \in ToSet(value) : e.id \notin ids}
  BY ThoseIsOrdered DEF Without

-----------------------------------------------------------------------------
(* The row a stands before the row b in a value, if both are members; a    *)
(* list of rows stands in a value in its order.                            *)
Follows(value, a, b) ==
    \A d, e \in ToSet(value) : d.id = a /\ e.id = b => Precedes(d.orderKey, e.orderKey)

KeptIn(value, order) ==
    \A i, j \in 1 .. Len(order) : i < j => Follows(value, order[i], order[j])

(* Every row of one list stands before every row of another.               *)
AllFollow(value, first, second) ==
    \A a \in ToSet(first), b \in ToSet(second) : Follows(value, a, b)

(* A value keeps a list that another keeps, if the rows of the list it has *)
(* it has from there.                                                      *)
From(w, value, order) == \A e \in ToSet(w) : e.id \in ToSet(order) => e \in ToSet(value)

(* An order kept by a value is kept by what takes its entries of these     *)
(* rows from it.                                                           *)
LEMMA KeptFrom ==
  ASSUME NEW order \in Seq(Ids), NEW value, NEW w, KeptIn(value, order), From(w, value, order)
  PROVE  KeptIn(w, order)
  <1>1. \A i \in 1 .. Len(order) : order[i] \in ToSet(order)
    BY ToSetOfSeq
  <1> QED BY <1>1 DEF KeptIn, Follows, From

(* A part of a kept order is kept.                                         *)
LEMMA KeptThose ==
  ASSUME NEW order \in Seq(Ids), NEW value, KeptIn(value, order), NEW S
  PROVE  KeptIn(value, Those(order, S))
  <1> DEFINE t == Those(order, S)
  <1>1. \E h : Picks(h, t, order, Len(order), S)
    BY ThoseArePicked
  <1> HIDE DEF t
  <1>2. PICK h : Picks(h, t, order, Len(order), S)
    BY <1>1
  <1>3. ASSUME NEW i \in 1 .. Len(t), NEW j \in 1 .. Len(t), i < j PROVE Follows(value, t[i], t[j])
    <2>1. h[i] \in 1 .. Len(order) /\ h[j] \in 1 .. Len(order) /\ h[i] < h[j]
          /\ t[i] = order[h[i]] /\ t[j] = order[h[j]]
      BY <1>2, <1>3 DEF Picks
    <2> QED BY <2>1 DEF KeptIn
  <1> QED BY <1>3 DEF KeptIn, t

(* Two orders joined are kept if each is and the second follows the first. *)
LEMMA KeptJoined ==
  ASSUME NEW a \in Seq(Ids), NEW b \in Seq(Ids), NEW value
  PROVE  KeptIn(value, a \o b) <=> KeptIn(value, a) /\ KeptIn(value, b) /\ AllFollow(value, a, b)
  <1> DEFINE c == a \o b
  <1>1. /\ Len(a) \in Nat /\ Len(b) \in Nat
        /\ \A i \in 1 .. Len(a) : a[i] \in ToSet(a)
        /\ \A i \in 1 .. Len(b) : b[i] \in ToSet(b)
        /\ \A e \in ToSet(a) : \E i \in 1 .. Len(a) : a[i] = e
        /\ \A e \in ToSet(b) : \E i \in 1 .. Len(b) : b[i] = e
    BY ToSetOfSeq
  <1>2. /\ Len(c) = Len(a) + Len(b)
        /\ \A i \in 1 .. Len(a) : c[i] = a[i]
        /\ \A i \in 1 .. Len(b) : c[Len(a) + i] = b[i]
    BY <1>1, Joining
  <1> HIDE DEF c
  <1>3. ASSUME KeptIn(value, c) PROVE KeptIn(value, a) /\ KeptIn(value, b) /\ AllFollow(value, a, b)
    <2>1. KeptIn(value, a)
      <3>1. \A i \in 1 .. Len(a) : i \in 1 .. Len(c) /\ c[i] = a[i]
        BY <1>1, <1>2
      <3> QED BY <1>3, <3>1 DEF KeptIn
    <2>2. KeptIn(value, b)
      <3> SUFFICES ASSUME NEW i \in 1 .. Len(b), NEW j \in 1 .. Len(b), i < j
                   PROVE  Follows(value, b[i], b[j])
        BY DEF KeptIn
      <3>1. /\ Len(a) + i \in 1 .. Len(c) /\ Len(a) + j \in 1 .. Len(c) /\ Len(a) + i < Len(a) + j
            /\ c[Len(a) + i] = b[i] /\ c[Len(a) + j] = b[j]
        BY <1>1, <1>2
      <3>2. Follows(value, c[Len(a) + i], c[Len(a) + j])
        BY <1>3, <3>1 DEF KeptIn
      <3> QED BY <3>1, <3>2
    <2>3. AllFollow(value, a, b)
      <3> SUFFICES ASSUME NEW x \in ToSet(a), NEW y \in ToSet(b) PROVE Follows(value, x, y)
        BY DEF AllFollow
      <3>1. PICK i \in 1 .. Len(a) : a[i] = x
        BY <1>1
      <3>2. PICK j \in 1 .. Len(b) : b[j] = y
        BY <1>1
      <3>3. /\ i \in 1 .. Len(c) /\ Len(a) + j \in 1 .. Len(c) /\ i < Len(a) + j
            /\ c[i] = x /\ c[Len(a) + j] = y
        BY <1>1, <1>2, <3>1, <3>2
      <3>4. Follows(value, c[i], c[Len(a) + j])
        BY <1>3, <3>3 DEF KeptIn
      <3> QED BY <3>3, <3>4
    <2> QED BY <2>1, <2>2, <2>3
  <1>4. ASSUME KeptIn(value, a), KeptIn(value, b), AllFollow(value, a, b) PROVE KeptIn(value, c)
    <2> SUFFICES ASSUME NEW i \in 1 .. Len(c), NEW j \in 1 .. Len(c), i < j
                 PROVE  Follows(value, c[i], c[j])
      BY DEF KeptIn
    <2>1. CASE j <= Len(a)
      <3>1. i \in 1 .. Len(a) /\ j \in 1 .. Len(a)
        BY <1>1, <2>1
      <3>2. c[i] = a[i] /\ c[j] = a[j]
        BY <1>2, <3>1
      <3> QED BY <1>4, <3>1, <3>2 DEF KeptIn
    <2>2. CASE i <= Len(a) /\ j > Len(a)
      <3>1. i \in 1 .. Len(a) /\ j - Len(a) \in 1 .. Len(b) /\ Len(a) + (j - Len(a)) = j
        BY <1>1, <1>2, <2>2
      <3>2. c[i] = a[i] /\ c[j] = b[j - Len(a)]
        BY <1>2, <3>1
      <3>3. c[i] \in ToSet(a) /\ c[j] \in ToSet(b)
        BY <1>1, <3>1, <3>2
      <3> QED BY <1>4, <3>3 DEF AllFollow
    <2>3. CASE i > Len(a)
      <3> DEFINE k == i - Len(a)
                 l == j - Len(a)
      <3>1. /\ k \in 1 .. Len(b) /\ l \in 1 .. Len(b) /\ k < l
            /\ Len(a) + k = i /\ Len(a) + l = j
        BY <1>1, <1>2, <2>3
      <3> HIDE DEF k, l
      <3>2. c[i] = b[k] /\ c[j] = b[l]
        BY <1>2, <3>1
      <3> QED BY <1>4, <3>1, <3>2 DEF KeptIn
    <2> QED BY <1>1, <1>2, <2>1, <2>2, <2>3
  <1> QED BY <1>3, <1>4 DEF c

(* Every value keeps the list of its ids.                                  *)
LEMMA KeptIds ==
  ASSUME NEW value, Ordered(value)
  PROVE  KeptIn(value, IdsOf(value))
  <1> DEFINE ids == IdsOf(value)
  <1>1. value \in Seq(Entries) /\ Proper(ToSet(value))
    BY OrderedIsValid DEF Ordered
  <1>2. /\ Len(ids) = Len(value)
        /\ \A i \in 1 .. Len(value) : ids[i] = value[i].id /\ value[i] \in ToSet(value)
    BY <1>1, IdsAreOfMembers, ToSetOfSeq
  <1> HIDE DEF ids
  <1> SUFFICES ASSUME NEW i \in 1 .. Len(value), NEW j \in 1 .. Len(value), i < j,
                      NEW d \in ToSet(value), NEW e \in ToSet(value), d.id = ids[i], e.id = ids[j]
               PROVE  Precedes(d.orderKey, e.orderKey)
    BY <1>2 DEF KeptIn, Follows, ids
  <1>3. d = value[i] /\ e = value[j]
    BY <1>1, <1>2 DEF Proper
  <1> QED BY <1>3 DEF Ordered

(* A list kept by a value of which all are members is what remains of its  *)
(* ids.                                                                    *)
LEMMA KeptIsListed ==
  ASSUME NEW value, Ordered(value), NEW order \in Seq(Ids), KeptIn(value, order),
         ToSet(order) \subseteq ToSet(IdsOf(value))
  PROVE  Those(IdsOf(value), ToSet(order)) = order
  <1> DEFINE ids == IdsOf(value)
             n == Len(value)
             m == Len(order)
             t == Those(ids, ToSet(order))
  <1>1. value \in Seq(Entries) /\ Proper(ToSet(value))
    BY OrderedIsValid DEF Ordered
  <1>2. /\ n \in Nat /\ ids \in Seq(Ids) /\ Len(ids) = n
        /\ \A i \in 1 .. n : ids[i] = value[i].id /\ value[i] \in ToSet(value)
                             /\ value[i].orderKey \in Keys
    <2>1. /\ n \in Nat
          /\ \A i \in 1 .. n : value[i] \in Entries /\ value[i] \in ToSet(value)
      BY <1>1, ToSetOfSeq
    <2>2. /\ ids \in Seq(Ids) /\ Len(ids) = n
          /\ \A i \in 1 .. n : ids[i] = value[i].id
      BY <1>1, IdsAreOfMembers
    <2> QED BY <2>1, <2>2 DEF Entries
  <1>3. /\ m \in Nat
        /\ \A i \in 1 .. m : order[i] \in ToSet(order)
        /\ \A a \in ToSet(order) : \E i \in 1 .. m : order[i] = a
    BY ToSetOfSeq
  <1>4. \A a \in ToSet(order) : \E i \in 1 .. n : ids[i] = a
    BY <1>2, ToSetOfSeq
  <1>5. t \in Seq(Ids) /\ \E h : Picks(h, t, ids, n, ToSet(order))
    BY <1>2, ThoseArePicked
  <1> HIDE DEF t
  <1>6. PICK h : Picks(h, t, ids, n, ToSet(order))
    BY <1>5
  <1> DEFINE g == [i \in 1 .. m |-> CHOOSE k \in 1 .. n : ids[k] = order[i]]
  <1>7. \A i \in 1 .. m : g[i] \in 1 .. n /\ ids[g[i]] = order[i]
    BY <1>3, <1>4
  <1>8. g \in [1 .. m -> 1 .. n]
    BY <1>7
  <1> HIDE DEF g, n, m, ids
  <1>9. Rising(g, m)
    <2> SUFFICES ASSUME NEW i \in 1 .. m, NEW j \in 1 .. m, i < j PROVE g[i] < g[j]
      BY DEF Rising
    <2>1. g[i] \in 1 .. n /\ g[j] \in 1 .. n
      BY <1>7
    <2>2. Follows(value, order[i], order[j])
      BY DEF KeptIn, m
    <2>3. Precedes(value[g[i]].orderKey, value[g[j]].orderKey)
      BY <1>2, <1>7, <2>1, <2>2 DEF Follows
    <2>4. g[i] # g[j]
      BY <1>2, <2>1, <2>3, KeysAreOrdered
    <2>5. ~ (g[j] < g[i])
      <3> SUFFICES ASSUME g[j] < g[i] PROVE FALSE
        OBVIOUS
      <3>1. Precedes(value[g[j]].orderKey, value[g[i]].orderKey)
        BY <2>1 DEF Ordered, n
      <3>2. value[g[i]].orderKey \in Keys /\ value[g[j]].orderKey \in Keys
        BY <1>2, <2>1
      <3> QED BY <2>3, <3>1, <3>2, KeysAreOrdered
    <2> QED BY <1>2, <2>1, <2>4, <2>5
  <1>10. Len(t) \in Nat /\ h \in [1 .. Len(t) -> 1 .. n] /\ Rising(h, Len(t))
    BY <1>6 DEF Picks, Rising
  <1>11. Covered(h, Len(t), g, m)
    <2> SUFFICES ASSUME NEW i \in 1 .. Len(t) PROVE \E j \in 1 .. m : h[i] = g[j]
      BY DEF Covered
    <2>1. h[i] \in 1 .. n /\ ids[h[i]] \in ToSet(order)
      BY <1>6 DEF Picks
    <2>2. PICK j \in 1 .. m : order[j] = ids[h[i]]
      BY <1>3, <2>1
    <2>3. g[j] \in 1 .. n /\ ids[g[j]] = ids[h[i]]
      BY <1>7, <2>2
    <2>4. g[j] = h[i]
      <3>1. value[g[j]].id = value[h[i]].id
        BY <1>2, <2>1, <2>3
      <3>2. ~ (g[j] < h[i]) /\ ~ (h[i] < g[j])
        BY <2>1, <2>3, <3>1 DEF Ordered, n
      <3> QED BY <1>2, <2>1, <2>3, <3>2
    <2> QED BY <2>4
  <1>12. Covered(g, m, h, Len(t))
    <2> SUFFICES ASSUME NEW i \in 1 .. m PROVE \E j \in 1 .. Len(t) : g[i] = h[j]
      BY DEF Covered
    <2>1. g[i] \in 1 .. n /\ ids[g[i]] \in ToSet(order)
      BY <1>3, <1>7
    <2> QED BY <1>6, <2>1 DEF Picks
  <1>13. h \in [1 .. Len(t) -> Nat] /\ g \in [1 .. m -> Nat]
    BY <1>2, <1>8, <1>10
  <1>14. Len(t) = m /\ h = g
    BY <1>3, <1>9, <1>10, <1>11, <1>12, <1>13, SameRange
  <1>15. \A i \in 1 .. Len(t) : t[i] = order[i]
    BY <1>6, <1>7, <1>14 DEF Picks
  <1>16. t = order
    BY <1>5, <1>14, <1>15, SeqEqual DEF m
  <1> QED BY <1>16 DEF t, ids

-----------------------------------------------------------------------------
(* Keys made without bounds have as many digits as a number holds at most. *)
LEMMA FreshKeysAreShort ==
  ASSUME NEW count \in Nat, count <= MaxPage
  PROVE  \A i \in 1 .. count : Len(KeysForSequence(count, NoBound, NoBound)[i]) <= MaxSequenceLength
  <1> DEFINE first   == Max({1, Len(NoBound), Len(NoBound)})
             floor(n)   == IF NoBound = NoBound THEN -1 ELSE PaddedValue(NoBound, n)
             ceiling(n) == IF NoBound = NoBound THEN Held(Power(Base, n)) ELSE PaddedValue(NoBound, n)
             gap(n)     == Held(ceiling(n) - floor(n))
             roomy   == {n \in {first} \cup (first + 1 .. MaxSequenceLength) : gap(n) >= 2 * (count + 1)}
             length  == Min(roomy)
             step    == Quotient(gap(length), count + 1)
             even(i) == Held(floor(length) + Held(step * i))
             key(i)  == ToKey(IF even(i) % Base = 0 THEN Held(even(i) + 1) ELSE even(i), length)
  <1>1. KeysForSequence(count, NoBound, NoBound) =
            IF roomy = {} THEN Walk(count, NoBound, NoBound) ELSE [i \in 1 .. count |-> key(i)]
    BY DEF KeysForSequence
  <1>2. first = 1
    <2>1. Len(NoBound) = 0
      BY DEF NoBound
    <2>2. 0 \in Nat
      OBVIOUS
    <2> QED BY <2>1, <2>2, MaxOfThree
  <1>3. gap(MaxSequenceLength) >= 2 * (count + 1)
    <2> DEFINE P == Power(Base, MaxSequenceLength)
    <2>1. P \in Nat /\ P + 1 < Exact /\ Exact \in Nat
      BY PowerProperty, KeyAssumption, ExactIsNumber
    <2>2. 2 * (MaxPage + 1) <= P + 1 /\ MaxPage \in Nat
      BY PageAssumption, ScopeAssumption
    <2> HIDE DEF P
    <2>3. P < Exact
      BY <2>1
    <2>4. Held(P) = P
      BY <2>3, HeldIsExact
    <2>5. Held(P + 1) = P + 1
      BY <2>1, HeldIsExact
    <2>6. ceiling(MaxSequenceLength) = P /\ floor(MaxSequenceLength) = -1
      BY <2>4 DEF P
    <2>7. gap(MaxSequenceLength) = P + 1
      <3>1. P - (-1) = P + 1
        BY <2>1
      <3> QED BY <2>5, <2>6, <3>1
    <2> QED BY <2>1, <2>2, <2>7
  <1> HIDE DEF first, gap
  <1>4. MaxSequenceLength \in roomy
    BY <1>2, <1>3, KeyAssumption
  <1>5. roomy \in SUBSET Nat /\ \A n \in roomy : n <= MaxSequenceLength
    BY <1>2, KeyAssumption
  <1> HIDE DEF roomy
  <1>6. length \in Nat /\ length <= MaxSequenceLength
    <2>1. length \in roomy
      BY <1>4, <1>5, MinOfNats
    <2> QED BY <1>5, <2>1
  <1> HIDE DEF length, even
  <1>7. \A i \in 1 .. count : Len(key(i)) = length
    BY <1>6 DEF ToKey
  <1> HIDE DEF key
  <1> QED BY <1>1, <1>4, <1>6, <1>7

(* A list that is longer than what it lists repeats an element.            *)
LEMMA OneIsRepeated ==
  ASSUME NEW T, IsFiniteSet(T), NEW n \in Nat, n = Cardinality(T), NEW f \in [0 .. n -> T]
  PROVE  \E k, l \in 0 .. n : k # l /\ f[k] = f[l]
  <1> DEFINE S == 0 .. n
  <1>1. IsFiniteSet(S) /\ Cardinality(T) < Cardinality(S)
    BY FS_Interval
  <1>2. f \in [S -> T]
    OBVIOUS
  <1> HIDE DEF S
  <1>3. \E k, l \in S : k # l /\ f[k] = f[l]
    BY <1>1, <1>2, FS_PigeonHole
  <1> QED BY <1>3 DEF S

-----------------------------------------------------------------------------
(* A key that starts at key, ends before upper and is not taken.           *)
Reached(x, key, upper) ==
    /\ x \in Keys
    /\ x = key \/ Precedes(key, x)
    /\ upper # NoBound => Precedes(x, upper)

(* The search of a complete answer for a free key ends with one: the keys  *)
(* it tries increase, so it tries more of them than are taken.             *)
LEMMA FreeKeyIsFree ==
  ASSUME NEW key \in Keys, NEW upper, Room(key, upper), Len(upper) <= MaxSequenceLength,
         NEW taken \in SUBSET Keys, IsFiniteSet(taken),
         \A t \in taken : Reached(t, key, upper) => Len(t) <= MaxSequenceLength
  PROVE  Reached(FreeKey(key, upper, taken), key, upper) /\ FreeKey(key, upper, taken) \notin taken
  <1> DEFINE n == Cardinality(taken)
             next(x) == KeysForSequence(1, x, upper)[1]
             Tries(f, m) == f = [k \in 0 .. m |-> IF k = 0 THEN key ELSE next(f[k - 1])]
             tried == CHOOSE f : Tries(f, n)
             hits  == {k \in 0 .. n : tried[k] \notin taken}
  <1>1. n \in Nat
    BY FS_CardinalityType
  <1>2. FreeKey(key, upper, taken) = tried[Min(hits)]
    BY DEF FreeKey
  <1>3. ASSUME NEW x, Reached(x, key, upper), x \in taken
        PROVE  Reached(next(x), key, upper) /\ Precedes(x, next(x))
    <2>1. Room(x, upper) /\ Len(x) <= MaxSequenceLength
      BY <1>3 DEF Room, Reached
    <2>2. Spread(KeysForSequence(1, x, upper), 1, x, upper)
      BY <2>1, SequenceIsSpread
    <2>3. Between(next(x), x, upper)
      BY <2>2 DEF Spread
    <2> HIDE DEF next
    <2>4. next(x) \in Keys /\ Precedes(x, next(x)) /\ (upper # NoBound => Precedes(next(x), upper))
      BY <2>3 DEF Between
    <2>5. Precedes(key, next(x))
      BY <1>3, <2>4, KeysAreOrdered DEF Reached
    <2> QED BY <2>4, <2>5 DEF Reached
  <1> HIDE DEF next, n
  <1>4. \E f : Tries(f, n)
    <2> DEFINE S == {m \in 0 .. n : \E f : Tries(f, m)}
    <2>1. 0 \in S
      <3>1. Tries([k \in 0 .. 0 |-> key], 0) /\ 0 \in 0 .. n
        BY <1>1
      <3> HIDE DEF Tries
      <3> QED BY <3>1
    <2>2. ASSUME NEW m \in 1 .. n, m - 1 \in S PROVE m \in S
      <3>1. PICK f : Tries(f, m - 1)
        BY <2>2
      <3> DEFINE g == [k \in 0 .. m |-> IF k = m THEN next(f[m - 1]) ELSE f[k]]
      <3>2. g[0] = key
        BY <1>1, <3>1
      <3>3. ASSUME NEW k \in 1 .. m PROVE g[k] = next(g[k - 1])
        <4>1. k - 1 \in 0 .. m /\ k - 1 # m /\ k \in 0 .. m
          BY <1>1
        <4>2. g[k - 1] = f[k - 1]
          BY <4>1
        <4>3. CASE k = m
          BY <4>1, <4>2, <4>3
        <4>4. CASE k # m
          <5>1. k \in 0 .. m - 1 /\ k # 0
            BY <1>1, <4>4
          <5>2. f[k] = next(f[k - 1])
            BY <3>1, <5>1
          <5> QED BY <4>1, <4>2, <4>4, <5>2
        <4> QED BY <4>3, <4>4
      <3>4. \A k \in 0 .. m : k = 0 \/ k \in 1 .. m
        BY <1>1
      <3>5. g = [k \in 0 .. m |-> g[k]]
        OBVIOUS
      <3> HIDE DEF g
      <3>6. Tries(g, m)
        BY <3>2, <3>3, <3>4, <3>5
      <3>7. m \in 0 .. n
        BY <1>1
      <3> QED BY <3>6, <3>7
    <2> HIDE DEF S, Tries
    <2>3. n \in S
      <3>1. \A m \in 0 .. n : m \in S
        BY <1>1, <2>1, <2>2, SegmentInduction
      <3>2. n \in 0 .. n
        BY <1>1
      <3> QED BY <3>1, <3>2
    <2> QED BY <2>3 DEF S
  <1>5. Tries(tried, n)
    <2> HIDE DEF Tries
    <2> QED BY <1>4
  <1> HIDE DEF tried
  <1>6. tried[0] = key /\ \A k \in 1 .. n : tried[k] = next(tried[k - 1])
    BY <1>1, <1>5
  <1>7. ASSUME NEW m \in 0 .. n, \A k \in 0 .. m - 1 : tried[k] \in taken
        PROVE  Reached(tried[m], key, upper)
    <2> DEFINE S == {k \in 0 .. m : Reached(tried[k], key, upper)}
    <2>1. 0 \in S
      <3>1. Reached(key, key, upper)
        BY DEF Reached, Room
      <3>2. 0 \in 0 .. m
        BY <1>1
      <3> QED BY <1>6, <3>1, <3>2
    <2>2. ASSUME NEW k \in 1 .. m, k - 1 \in S PROVE k \in S
      <3>1. k - 1 \in 0 .. m - 1 /\ k \in 1 .. n /\ k \in 0 .. m
        BY <1>1
      <3>2. Reached(next(tried[k - 1]), key, upper)
        BY <1>3, <1>7, <2>2, <3>1
      <3> QED BY <1>6, <3>1, <3>2
    <2>3. m \in Nat /\ m \in 0 .. m
      BY <1>1
    <2> HIDE DEF S
    <2>4. m \in S
      BY <2>1, <2>2, <2>3, SegmentInduction
    <2> QED BY <2>4 DEF S
  <1>8. hits # {}
    <2> SUFFICES ASSUME hits = {} PROVE FALSE
      OBVIOUS
    <2>1. \A k \in 0 .. n : tried[k] \in taken
      OBVIOUS
    <2>2. \A k \in 0 .. n : Reached(tried[k], key, upper) /\ tried[k] \in Keys
      <3> SUFFICES ASSUME NEW k \in 0 .. n PROVE Reached(tried[k], key, upper)
        BY DEF Reached
      <3>1. \A l \in 0 .. k - 1 : l \in 0 .. n
        BY <1>1
      <3> QED BY <1>7, <2>1, <3>1
    <2>3. \A k \in 1 .. n : Precedes(tried[k - 1], tried[k])
      <3> SUFFICES ASSUME NEW k \in 1 .. n PROVE Precedes(tried[k - 1], tried[k])
        OBVIOUS
      <3>1. k - 1 \in 0 .. n
        BY <1>1
      <3> QED BY <1>3, <1>6, <2>1, <2>2, <3>1
    <2> DEFINE S == {k \in 0 .. n : \A l \in 0 .. k - 1 : Precedes(tried[l], tried[k])}
    <2>4. 0 \in S
      BY <1>1
    <2>5. ASSUME NEW k \in 1 .. n, k - 1 \in S PROVE k \in S
      <3>1. k - 1 \in 0 .. n /\ k \in 0 .. n
        BY <1>1
      <3>2. ASSUME NEW l \in 0 .. k - 1 PROVE Precedes(tried[l], tried[k])
        <4>1. CASE l = k - 1
          BY <2>3, <4>1
        <4>2. CASE l # k - 1
          <5>1. l \in 0 .. (k - 1) - 1 /\ l \in 0 .. n
            BY <1>1, <4>2
          <5>2. Precedes(tried[l], tried[k - 1])
            BY <2>5, <5>1
          <5> QED BY <2>2, <2>3, <3>1, <5>1, <5>2, KeysAreOrdered
        <4> QED BY <4>1, <4>2
      <3> QED BY <3>1, <3>2
    <2>6. \A k \in 0 .. n : k \in S
      <3> HIDE DEF S
      <3> QED BY <1>1, <2>4, <2>5, SegmentInduction
    <2>7. \A k, l \in 0 .. n : k # l => tried[k] # tried[l]
      <3> SUFFICES ASSUME NEW k \in 0 .. n, NEW l \in 0 .. n, l < k PROVE tried[l] # tried[k]
        BY <1>1
      <3>1. l \in 0 .. k - 1
        BY <1>1
      <3>2. Precedes(tried[l], tried[k])
        BY <2>6, <3>1
      <3> QED BY <2>2, <3>2, KeysAreOrdered
    <2> DEFINE f == [k \in 0 .. n |-> tried[k]]
    <2>8. f \in [0 .. n -> taken]
      BY <2>1
    <2>9. n = Cardinality(taken)
      BY DEF n
    <2>10. \A k \in 0 .. n : f[k] = tried[k]
      OBVIOUS
    <2> HIDE DEF f, n
    <2>11. \E k, l \in 0 .. n : k # l /\ f[k] = f[l]
      BY <1>1, <2>8, <2>9, OneIsRepeated
    <2> QED BY <2>7, <2>10, <2>11
  <1>9. Min(hits) \in hits /\ \A k \in hits : Min(hits) <= k
    <2>1. hits \in SUBSET Nat
      BY <1>1
    <2> HIDE DEF hits
    <2> QED BY <1>8, <2>1, MinOfNats
  <1>10. PICK m \in hits : m = Min(hits)
    BY <1>9
  <1>11. m \in 0 .. n /\ \A k \in 0 .. m - 1 : tried[k] \in taken
    <2>1. m \in 0 .. n
      OBVIOUS
    <2>2. ASSUME NEW k \in 0 .. m - 1 PROVE tried[k] \in taken
      <3>1. k \in 0 .. n /\ ~ (m <= k)
        BY <1>1, <2>1
      <3>2. k \notin hits
        BY <1>9, <1>10, <3>1
      <3> QED BY <3>1, <3>2
    <2> QED BY <2>1, <2>2
  <1>12. Reached(tried[m], key, upper) /\ tried[m] \notin taken
    BY <1>7, <1>11
  <1> QED BY <1>2, <1>10, <1>12

-----------------------------------------------------------------------------
(* No id twice.                                                            *)
Distinct(ids) == \A i, j \in 1 .. Len(ids) : i < j => ids[i] # ids[j]

(* Keys in order for a list of ids make a value with the ids in that order. *)
Keyed(ids, keys) == [i \in 1 .. Len(ids) |-> Entry(ids[i], keys[i])]

Increasing(keys, n) ==
    /\ \A i \in 1 .. n : keys[i] \in Keys
    /\ \A i, j \in 1 .. n : i < j => Precedes(keys[i], keys[j])

(* Rows that get rising keys in their order are an ordered value.          *)
LEMMA KeyedIsOrdered ==
  ASSUME NEW ids \in Seq(Ids), Distinct(ids), NEW keys, Increasing(keys, Len(ids))
  PROVE  /\ Ordered(Keyed(ids, keys)) /\ IdsOf(Keyed(ids, keys)) = ids
         /\ ToSet(Keyed(ids, keys)) = {Entry(ids[i], keys[i]) : i \in 1 .. Len(ids)}
         /\ Len(Keyed(ids, keys)) = Len(ids)
  <1> DEFINE n == Len(ids)
             value == Keyed(ids, keys)
  <1>1. n \in Nat /\ \A i \in 1 .. n : ids[i] \in Ids
    BY ToSetOfSeq
  <1>2. value = [i \in 1 .. n |-> [id |-> ids[i], orderKey |-> keys[i]]]
    BY DEF Keyed, Entry
  <1>3. \A i \in 1 .. n : [id |-> ids[i], orderKey |-> keys[i]] \in Entries
    BY <1>1 DEF Entries, Increasing
  <1>4. value \in [1 .. n -> Entries]
    BY <1>2, <1>3
  <1>5. value \in Seq(Entries) /\ Len(value) = n
    BY <1>1, <1>4
  <1>6. \A i \in 1 .. n : value[i] = Entry(ids[i], keys[i])
                          /\ value[i].id = ids[i] /\ value[i].orderKey = keys[i]
    BY <1>2 DEF Entry
  <1> HIDE DEF value
  <1>7. Ordered(value)
    BY <1>5, <1>6 DEF Ordered, Distinct, Increasing
  <1>8. IdsOf(value) = ids
    <2>1. IdsOf(value) \in Seq(Ids) /\ Len(IdsOf(value)) = n
          /\ \A i \in 1 .. n : IdsOf(value)[i] = ids[i]
      BY <1>5, <1>6, IdsAreOfMembers
    <2> QED BY <2>1, SeqEqual
  <1>9. ToSet(value) = {Entry(ids[i], keys[i]) : i \in 1 .. n}
    <2>1. ToSet(value) = {value[i] : i \in 1 .. n}
      BY <1>5 DEF ToSet
    <2> QED BY <1>6, <2>1
  <1> QED BY <1>5, <1>7, <1>8, <1>9 DEF value

-----------------------------------------------------------------------------
(* The key of the last member is the greatest, that of the first the least. *)
LEMMA TailIsGreatest ==
  ASSUME NEW value, Ordered(value)
  PROVE  /\ TailKey(value) \in Keys \cup {NoBound}
         /\ \A e \in ToSet(value) : e.orderKey = TailKey(value) \/ Precedes(e.orderKey, TailKey(value))
         /\ TailKey(value) # NoBound => \E e \in ToSet(value) : e.orderKey = TailKey(value)
  <1> DEFINE n == Len(value)
  <1>1. /\ n \in Nat
        /\ \A i \in 1 .. n : value[i] \in Entries /\ value[i] \in ToSet(value)
        /\ \A e \in ToSet(value) : \E i \in 1 .. n : value[i] = e
    BY ToSetOfSeq DEF Ordered
  <1>2. CASE value = <<>>
    <2>1. n = 0 /\ TailKey(value) = NoBound
      BY <1>2 DEF TailKey
    <2> QED BY <1>1, <2>1
  <1>3. CASE value # <<>>
    <2>1. n \in 1 .. n /\ TailKey(value) = value[n].orderKey
      <3>1. n # 0
        BY <1>3, EmptySeq DEF Ordered
      <3>2. TailKey(value) = value[n].orderKey
        BY <1>3 DEF TailKey, Last
      <3> QED BY <1>1, <3>1, <3>2
    <2>2. ASSUME NEW e \in ToSet(value)
          PROVE  e.orderKey = TailKey(value) \/ Precedes(e.orderKey, TailKey(value))
      <3>1. PICK i \in 1 .. n : value[i] = e
        BY <1>1
      <3>2. i = n \/ i < n
        BY <1>1
      <3> QED BY <2>1, <3>1, <3>2 DEF Ordered
    <2>3. TailKey(value) \in Keys
      BY <1>1, <2>1 DEF Entries
    <2> QED BY <1>1, <2>1, <2>2, <2>3
  <1> QED BY <1>2, <1>3

HeadKey(value) == IF value = <<>> THEN NoBound ELSE value[1].orderKey

(* The key of the first entry is below that of every other.                *)
LEMMA HeadIsLeast ==
  ASSUME NEW value, Ordered(value)
  PROVE  /\ HeadKey(value) \in Keys \cup {NoBound}
         /\ \A e \in ToSet(value) : HeadKey(value) # NoBound
                /\ (e.orderKey = HeadKey(value) \/ Precedes(HeadKey(value), e.orderKey))
         /\ HeadKey(value) # NoBound => \E e \in ToSet(value) : e.orderKey = HeadKey(value)
  <1> DEFINE n == Len(value)
  <1>1. /\ n \in Nat
        /\ \A i \in 1 .. n : value[i] \in Entries /\ value[i] \in ToSet(value)
        /\ \A e \in ToSet(value) : \E i \in 1 .. n : value[i] = e
    BY ToSetOfSeq DEF Ordered
  <1>2. CASE value = <<>>
    <2>1. n = 0 /\ HeadKey(value) = NoBound
      BY <1>2 DEF HeadKey
    <2> QED BY <1>1, <2>1
  <1>3. CASE value # <<>>
    <2>1. 1 \in 1 .. n /\ HeadKey(value) = value[1].orderKey
      <3>1. n # 0
        BY <1>3, EmptySeq DEF Ordered
      <3>2. HeadKey(value) = value[1].orderKey
        BY <1>3 DEF HeadKey
      <3> QED BY <1>1, <3>1, <3>2
    <2>2. ASSUME NEW e \in ToSet(value)
          PROVE  e.orderKey = HeadKey(value) \/ Precedes(HeadKey(value), e.orderKey)
      <3>1. PICK i \in 1 .. n : value[i] = e
        BY <1>1
      <3>2. i = 1 \/ 1 < i
        BY <1>1
      <3> QED BY <2>1, <3>1, <3>2 DEF Ordered
    <2>3. HeadKey(value) \in Keys
      BY <1>1, <2>1 DEF Entries
    <2>4. HeadKey(value) # NoBound
      BY <2>3 DEF Keys, IsOrderKey, NoBound
    <2> QED BY <1>1, <2>1, <2>2, <2>3, <2>4
  <1> QED BY <1>2, <1>3

-----------------------------------------------------------------------------
(* Keys for any number of ids, between bounds that a number holds.         *)
Short(members) == \A e \in members : Len(e.orderKey) <= MaxSequenceLength

(* keysForSequence between short bounds: the keys rise strictly between    *)
(* them.                                                                   *)
LEMMA SequenceIsIncreasing ==
  ASSUME NEW count \in Nat, NEW lower, NEW upper, Room(lower, upper),
         Len(lower) <= MaxSequenceLength, Len(upper) <= MaxSequenceLength
  PROVE  /\ Increasing(KeysForSequence(count, lower, upper), count)
         /\ \A i \in 1 .. count : Between(KeysForSequence(count, lower, upper)[i], lower, upper)
  <1>1. CASE count = 0
    BY <1>1 DEF Increasing
  <1>2. CASE count # 0
    <2>1. Spread(KeysForSequence(count, lower, upper), count, lower, upper)
      BY <1>2, SequenceIsSpread
    <2> QED BY <2>1 DEF Spread, Increasing
  <1> QED BY <1>1, <1>2

(* No bound is as short as any key.                                        *)
LEMMA NoBoundIsShort == Len(NoBound) <= MaxSequenceLength
  <1>1. Len(NoBound) = 0
    BY DEF NoBound
  <1> QED BY <1>1, KeyAssumption

(* Ids without keys go behind all members.                                 *)
LEMMA PlacedLastIsBehind ==
  ASSUME NEW value, Ordered(value), Short(ToSet(value)), NEW ids \in Seq(Ids), Distinct(ids),
         ToSet(ids) \cap IdSet(ToSet(value)) = {}
  PROVE  /\ Ordered(PlacedLast(value, ids)) /\ IdsOf(PlacedLast(value, ids)) = ids
         /\ \A d \in ToSet(value), e \in ToSet(PlacedLast(value, ids)) :
                d.id # e.id /\ Precedes(d.orderKey, e.orderKey)
         /\ \A e \in ToSet(PlacedLast(value, ids)) : Precedes(TailKey(value), e.orderKey)
  <1> DEFINE rest == Without(value, ToSet(ids))
             lower == TailKey(rest)
             keys == KeysForSequence(Len(ids), lower, NoBound)
             n == Len(ids)
             p == PlacedLast(value, ids)
  <1>1. rest = value
    <2>1. /\ value \in Seq(Entries) /\ Len(value) \in Nat
          /\ \A i \in 1 .. Len(value) : value[i] \in ToSet(value)
      BY ToSetOfSeq DEF Ordered
    <2>2. \A i \in 1 .. Len(value) : value[i] \in {e \in ToSet(value) : e.id \notin ToSet(ids)}
      BY <2>1 DEF IdSet
    <2> QED BY <2>1, <2>2, ThoseAreAll DEF Without
  <1>2. p = Keyed(ids, keys)
    BY DEF PlacedLast, Keyed
  <1>3. lower = TailKey(value)
    BY <1>1
  <1> HIDE DEF rest, lower, keys, p
  <1>4. Room(lower, NoBound) /\ Len(lower) <= MaxSequenceLength
    BY <1>3, TailIsGreatest, NoBoundIsShort DEF Room, Short
  <1>5. Increasing(keys, n) /\ \A i \in 1 .. n : Between(keys[i], lower, NoBound)
    <2>1. n \in Nat
      BY ToSetOfSeq
    <2> QED BY <1>4, <2>1, NoBoundIsShort, SequenceIsIncreasing DEF keys
  <1>6. /\ Ordered(p) /\ IdsOf(p) = ids
        /\ ToSet(p) = {Entry(ids[i], keys[i]) : i \in 1 .. n}
    BY <1>2, <1>5, KeyedIsOrdered
  <1>7. ASSUME NEW e \in ToSet(p)
        PROVE  e.id \in ToSet(ids) /\ Precedes(lower, e.orderKey) /\ e.orderKey \in Keys
    <2>1. PICK i \in 1 .. n : e = Entry(ids[i], keys[i])
      BY <1>6
    <2>2. e.id = ids[i] /\ e.orderKey = keys[i]
      BY <2>1 DEF Entry
    <2>3. ids[i] \in ToSet(ids)
      BY ToSetOfSeq
    <2> QED BY <1>5, <2>2, <2>3 DEF Between
  <1>8. ASSUME NEW d \in ToSet(value), NEW e \in ToSet(p)
        PROVE  d.id # e.id /\ Precedes(d.orderKey, e.orderKey)
    <2>1. d.id # e.id
      BY <1>7 DEF IdSet
    <2>2. d.orderKey \in Keys
      BY MembersAreEntries
    <2>3. d.orderKey = lower \/ Precedes(d.orderKey, lower)
      BY <1>3, TailIsGreatest
    <2>4. d.orderKey \in Seq(Int) /\ e.orderKey \in Seq(Int) /\ lower \in Seq(Int)
      BY <1>4, <1>7, <2>2, KeysAreSequences DEF Room
    <2> QED BY <1>7, <2>1, <2>3, <2>4, PrecedesIsTransitive
  <1> QED BY <1>3, <1>6, <1>7, <1>8 DEF p

-----------------------------------------------------------------------------
(* A function has finitely many values on a finite set.                    *)
LEMMA ImageIsFinite ==
  ASSUME NEW S, IsFiniteSet(S), NEW f
  PROVE  IsFiniteSet({f[x] : x \in S})
  <1> DEFINE g == [x \in S |-> f[x]]
  <1>1. g \in Surjection(S, {f[x] : x \in S})
    BY DEF Surjection
  <1> QED BY <1>1, FS_Surjection

(* The keys of a complete answer up to its row i: each is at the generated *)
(* key or above it, before the next one, and no key that is held.          *)
Steers(k, i, keys, n, held) ==
    /\ k \in [1 .. i -> Keys]
    /\ \A j \in 1 .. i :
           /\ k[j] = keys[j] \/ Precedes(keys[j], k[j])
           /\ j < n => Precedes(k[j], keys[j + 1])
           /\ k[j] \notin held

KeySet(members) == {e.orderKey : e \in members}

Placed(rows, k, i) == {Entry(rows[j], k[j]) : j \in 1 .. i}

(* Keys that steer are in order.                                           *)
LEMMA SteeredIsIncreasing ==
  ASSUME NEW n \in Nat, NEW keys, Increasing(keys, n), NEW held,
         NEW i \in 0 .. n, NEW k, Steers(k, i, keys, n, held)
  PROVE  /\ Increasing(k, i)
         /\ i < n => \A j \in 1 .. i : Precedes(k[j], keys[i + 1])
  <1>1. \A j \in 1 .. i : k[j] \in Keys
    BY DEF Steers
  <1>2. ASSUME NEW j \in 1 .. i, NEW l \in 1 .. n, j < l PROVE Precedes(k[j], keys[l])
    <2>1. j < n /\ j + 1 \in 1 .. n /\ (j + 1 = l \/ j + 1 < l)
      BY <1>2
    <2>2. Precedes(k[j], keys[j + 1])
      BY <2>1 DEF Steers
    <2>3. keys[j + 1] = keys[l] \/ Precedes(keys[j + 1], keys[l])
      BY <2>1 DEF Increasing
    <2>4. k[j] \in Keys /\ keys[j + 1] \in Keys /\ keys[l] \in Keys
      BY <1>1, <2>1 DEF Increasing
    <2> QED BY <2>2, <2>3, <2>4, KeysAreOrdered
  <1>3. ASSUME NEW j \in 1 .. i, NEW l \in 1 .. i, j < l PROVE Precedes(k[j], k[l])
    <2>1. l \in 1 .. n
      OBVIOUS
    <2>2. Precedes(k[j], keys[l])
      BY <1>2, <1>3, <2>1
    <2>3. k[l] = keys[l] \/ Precedes(keys[l], k[l])
      BY DEF Steers
    <2>4. k[j] \in Keys /\ k[l] \in Keys /\ keys[l] \in Keys
      BY <1>1, <2>1 DEF Increasing
    <2> QED BY <2>2, <2>3, <2>4, KeysAreOrdered
  <1>4. ASSUME i < n, NEW j \in 1 .. i PROVE Precedes(k[j], keys[i + 1])
    <2>1. i + 1 \in 1 .. n /\ j < i + 1
      BY <1>4
    <2> QED BY <1>2, <2>1
  <1> QED BY <1>1, <1>3, <1>4 DEF Increasing

ShortKeys(keys, n) == \A j \in 1 .. n : Len(keys[j]) <= MaxSequenceLength

(* The next row gets key, and the keys still steer.                        *)
SteersOn(rows, k, i, keys, n, held, key) ==
    \E l : /\ Steers(l, i, keys, n, KeySet(held))
           /\ Placed(rows, l, i) = Placed(rows, k, i - 1) \cup {Entry(rows[i], key)}

(* One more row of a complete answer is placed clear of those before it    *)
(* and of the held ones.                                                   *)
LEMMA NextSteers ==
  ASSUME NEW n \in Nat, NEW keys, Increasing(keys, n), ShortKeys(keys, n),
         NEW held, Proper(held), Short(held), NEW rows,
         NEW i \in 1 .. n, NEW k, Steers(k, i - 1, keys, n, KeySet(held)),
         NEW above, above = IF i = n THEN NoBound ELSE keys[i + 1],
         NEW key, key = FreeKey(keys[i], above, KeySet(held \cup Placed(rows, k, i - 1)))
  PROVE  SteersOn(rows, k, i, keys, n, held, key)
  <1> DEFINE taken == KeySet(held \cup Placed(rows, k, i - 1))
  <1>1. taken = KeySet(held) \cup {k[j] : j \in 1 .. i - 1}
    <2>1. \A j \in 1 .. i - 1 : Entry(rows[j], k[j]).orderKey = k[j]
      BY DEF Entry
    <2>2. ASSUME NEW t \in taken PROVE t \in KeySet(held) \cup {k[j] : j \in 1 .. i - 1}
      BY <2>1 DEF KeySet, Placed
    <2>3. ASSUME NEW t \in KeySet(held) PROVE t \in taken
      BY DEF KeySet
    <2>4. ASSUME NEW j \in 1 .. i - 1 PROVE k[j] \in taken
      <3>1. Entry(rows[j], k[j]) \in Placed(rows, k, i - 1)
        BY DEF Placed
      <3> QED BY <2>1, <3>1 DEF KeySet
    <2> HIDE DEF taken
    <2> QED BY <2>2, <2>3, <2>4
  <1>2. /\ i - 1 \in 0 .. n /\ i \in 1 .. n /\ i - 1 < n /\ (i - 1) + 1 = i
        /\ (i # n => i + 1 \in 1 .. n /\ i < n)
    OBVIOUS
  <1>3. KeySet(held) \subseteq Keys /\ IsFiniteSet(KeySet(held))
    <2>1. KeySet(held) \subseteq Keys
      BY DEF KeySet, Proper, Entries
    <2>2. IsFiniteSet(held)
      BY DEF Proper
    <2>3. IsFiniteSet(KeySet(held))
      <3> DEFINE f == [e \in held |-> e.orderKey]
      <3>1. KeySet(held) = {f[e] : e \in held}
        BY DEF KeySet
      <3> HIDE DEF f
      <3> QED BY <2>2, <3>1, ImageIsFinite
    <2> QED BY <2>1, <2>3
  <1>4. taken \in SUBSET Keys /\ IsFiniteSet(taken)
    <2>1. \A j \in 1 .. i - 1 : k[j] \in Keys
      BY DEF Steers
    <2>2. IsFiniteSet({k[j] : j \in 1 .. i - 1})
      <3>1. IsFiniteSet(1 .. i - 1)
        BY <1>2, FS_Interval
      <3> QED BY <3>1, ImageIsFinite
    <2>3. IsFiniteSet(taken)
      BY <1>1, <1>3, <2>2, FS_Union
    <2>4. taken \subseteq Keys
      BY <1>1, <1>3, <2>1
    <2> QED BY <2>3, <2>4
  <1>5. keys[i] \in Keys /\ Room(keys[i], above) /\ Len(above) <= MaxSequenceLength
    <2>1. CASE i = n
      BY <2>1, NoBoundIsShort DEF Room, Increasing
    <2>2. CASE i # n
      BY <1>2, <2>2 DEF Room, Increasing, ShortKeys
    <2> QED BY <2>1, <2>2
  <1>6. ASSUME NEW t \in taken, Reached(t, keys[i], above) PROVE Len(t) <= MaxSequenceLength
    <2>1. CASE t \in KeySet(held)
      BY <2>1 DEF KeySet, Short
    <2>2. CASE t \notin KeySet(held)
      <3>1. PICK j \in 1 .. i - 1 : t = k[j]
        BY <1>1, <2>2
      <3>2. Precedes(t, keys[i])
        BY <1>2, <3>1, SteeredIsIncreasing
      <3>3. t \in Keys /\ (t = keys[i] \/ Precedes(keys[i], t))
        BY <1>6 DEF Reached
      <3> QED BY <1>5, <3>2, <3>3, KeysAreOrdered
    <2> QED BY <2>1, <2>2
  <1>7. Reached(key, keys[i], above) /\ key \notin taken
    <2> HIDE DEF taken
    <2>1. key = FreeKey(keys[i], above, taken)
      BY DEF taken
    <2> QED BY <1>4, <1>5, <1>6, <2>1, FreeKeyIsFree
  <1> HIDE DEF taken
  <1> DEFINE l == [j \in 1 .. i |-> IF j = i THEN key ELSE k[j]]
  <1>8. \A j \in 1 .. i : j = i \/ j \in 1 .. i - 1
    OBVIOUS
  <1>9. l[i] = key /\ \A j \in 1 .. i - 1 : l[j] = k[j]
    OBVIOUS
  <1>10. l \in [1 .. i -> Keys]
    <2>1. \A j \in 1 .. i : l[j] \in Keys
      BY <1>7, <1>8, <1>9 DEF Reached, Steers
    <2> QED BY <2>1
  <1> HIDE DEF l
  <1>11. ASSUME NEW j \in 1 .. i
         PROVE  /\ l[j] = keys[j] \/ Precedes(keys[j], l[j])
                /\ j < n => Precedes(l[j], keys[j + 1])
                /\ l[j] \notin KeySet(held)
    <2>1. CASE j = i
      <3>1. i < n => Precedes(key, keys[i + 1])
        <4>1. keys[i + 1] \in Keys => keys[i + 1] # NoBound
          BY DEF Keys, IsOrderKey, NoBound
        <4> QED BY <1>2, <1>7, <4>1 DEF Reached, Increasing
      <3> QED BY <1>1, <1>7, <1>9, <2>1, <3>1 DEF Reached
    <2>2. CASE j \in 1 .. i - 1
      BY <1>9, <2>2 DEF Steers
    <2> QED BY <1>8, <2>1, <2>2
  <1>12. Steers(l, i, keys, n, KeySet(held))
    BY <1>10, <1>11 DEF Steers
  <1>13. Placed(rows, l, i) = Placed(rows, k, i - 1) \cup {Entry(rows[i], key)}
    <2>1. ASSUME NEW e \in Placed(rows, l, i)
          PROVE  e \in Placed(rows, k, i - 1) \cup {Entry(rows[i], key)}
      <3>1. PICK j \in 1 .. i : e = Entry(rows[j], l[j])
        BY DEF Placed
      <3> QED BY <1>8, <1>9, <3>1 DEF Placed
    <2>2. ASSUME NEW e \in Placed(rows, k, i - 1) PROVE e \in Placed(rows, l, i)
      <3>1. PICK j \in 1 .. i - 1 : e = Entry(rows[j], k[j])
        BY DEF Placed
      <3>2. j \in 1 .. i /\ l[j] = k[j]
        BY <1>9
      <3> QED BY <3>1, <3>2 DEF Placed
    <2>3. Entry(rows[i], key) \in Placed(rows, l, i)
      <3>1. i \in 1 .. i
        OBVIOUS
      <3> QED BY <1>9, <3>1 DEF Placed
    <2> QED BY <2>1, <2>2, <2>3
  <1> QED BY <1>12, <1>13 DEF SteersOn

-----------------------------------------------------------------------------
(* Entries with keys that steer around others can be one value with them.  *)
LEMMA SteeredIsProper ==
  ASSUME NEW held, Proper(held), NEW rows \in Seq(Ids), Distinct(rows),
         ToSet(rows) \cap IdSet(held) = {}, NEW keys, Increasing(keys, Len(rows)),
         NEW k, Steers(k, Len(rows), keys, Len(rows), KeySet(held))
  PROVE  /\ Proper(held \cup Placed(rows, k, Len(rows)))
         /\ \A value : ToSet(value) = held \cup Placed(rows, k, Len(rows)) => KeptIn(value, rows)
  <1> DEFINE n == Len(rows)
             placed == Placed(rows, k, n)
  <1>1. n \in Nat /\ n \in 0 .. n /\ \A i \in 1 .. n : rows[i] \in ToSet(rows)
    BY ToSetOfSeq
  <1>2. Increasing(k, n)
    BY <1>1, SteeredIsIncreasing
  <1>3. Ordered(Keyed(rows, k)) /\ IdsOf(Keyed(rows, k)) = rows /\ ToSet(Keyed(rows, k)) = placed
    BY <1>2, KeyedIsOrdered DEF Placed
  <1>4. Proper(placed) /\ KeptIn(Keyed(rows, k), rows)
    BY <1>3, OrderedIsValid, KeptIds
  <1>5. ASSUME NEW d \in held, NEW e \in placed PROVE d.id # e.id /\ d.orderKey # e.orderKey
    <2>1. PICK i \in 1 .. n : e = Entry(rows[i], k[i])
      BY DEF Placed
    <2>2. e.id = rows[i] /\ e.orderKey = k[i]
      BY <2>1 DEF Entry
    <2>3. k[i] \notin KeySet(held)
      BY <1>1 DEF Steers
    <2> QED BY <1>1, <2>2, <2>3 DEF IdSet, KeySet
  <1> HIDE DEF placed
  <1>6. Proper(held \cup placed)
    <2>1. IsFiniteSet(held \cup placed)
      BY <1>4, FS_Union DEF Proper
    <2>2. held \cup placed \subseteq Entries
      BY <1>4 DEF Proper
    <2>3. \A d, e \in held \cup placed : d # e => d.id # e.id /\ d.orderKey # e.orderKey
      BY <1>4, <1>5 DEF Proper
    <2> QED BY <2>1, <2>2, <2>3 DEF Proper
  <1>7. ASSUME NEW value, ToSet(value) = held \cup placed PROVE KeptIn(value, rows)
    <2>1. From(value, Keyed(rows, k), rows)
      <3>1. \A e \in held : e.id \notin ToSet(rows)
        BY DEF IdSet
      <3> QED BY <1>3, <1>7, <3>1 DEF From
    <2> QED BY <1>4, <2>1, KeptFrom
  <1> QED BY <1>6, <1>7 DEF placed

(* A complete answer leaves a value of its rows, in its order, and of the  *)
(* rows of open operations.                                                *)
LEMMA CompleteIsOrdered ==
  ASSUME Ordered(entries), Short(ToSet(entries)), NEW protected,
         NEW rows \in Seq(Ids), Distinct(rows), Len(rows) <= MaxPage
  PROVE  /\ Ordered(Complete(rows, protected)) /\ KeptIn(Complete(rows, protected), rows)
         /\ IdSet(ToSet(Complete(rows, protected))) =
                ToSet(rows) \cup (IdSet(ToSet(entries)) \cap protected)
  <1> DEFINE n     == Len(rows)
             held  == {e \in ToSet(entries) : e.id \in protected \ ToSet(rows)}
             keys  == KeysForSequence(n, NoBound, NoBound)
             above(i) == IF i = n THEN NoBound ELSE keys[i + 1]
             next(x, i) == x \cup {Entry(rows[i], FreeKey(keys[i], above(i), {e.orderKey : e \in x}))}
             Is(f, m) == f = [i \in 0 .. m |-> IF i = 0 THEN held ELSE next(f[i - 1], i)]
             placed == CHOOSE f : Is(f, n)
             value == Complete(rows, protected)
  <1>1. value = IF held = {} /\ SameOrder(rows) THEN entries ELSE InOrder(placed[n])
    BY DEF Complete
  <1>2. n \in Nat /\ \A i \in 1 .. n : rows[i] \in ToSet(rows)
    BY ToSetOfSeq
  <1>3. Proper(held) /\ Short(held) /\ ToSet(rows) \cap IdSet(held) = {}
    <2>1. Proper(ToSet(entries))
      BY OrderedIsValid
    <2>2. IsFiniteSet(held)
      BY <2>1, FS_Subset DEF Proper
    <2>3. Proper(held)
      BY <2>1, <2>2 DEF Proper
    <2> QED BY <2>3 DEF Short, IdSet
  <1>4. Increasing(keys, n) /\ \A i \in 1 .. n : Len(keys[i]) <= MaxSequenceLength
    <2>1. Room(NoBound, NoBound)
      BY DEF Room
    <2> QED BY <1>2, <2>1, NoBoundIsShort, SequenceIsIncreasing, FreshKeysAreShort
  <1>5. CASE held = {} /\ SameOrder(rows)
    <2>1. value = entries /\ rows = IdsOf(entries)
      BY <1>1, <1>5 DEF SameOrder
    <2>2. ToSet(rows) = IdSet(ToSet(entries))
      BY <2>1, IdsAreOfMembers DEF Ordered
    <2> QED BY <2>1, <2>2, KeptIds
  <1>6. CASE ~ (held = {} /\ SameOrder(rows))
    <2> HIDE DEF keys, held
    <2> DEFINE Steered(f, i) ==
                 \E k : /\ Steers(k, i, keys, n, KeySet(held))
                        /\ f = held \cup Placed(rows, k, i)
    <2>1. \A k : Placed(rows, k, 0) = {}
      BY DEF Placed
    <2>2. Steered(held, 0)
      <3>1. Steers(<<>>, 0, keys, n, KeySet(held))
        BY DEF Steers
      <3> QED BY <2>1, <3>1
    <2>3. ASSUME NEW i \in 1 .. n, NEW f, Steered(f, i - 1) PROVE Steered(next(f, i), i)
      <3>1. PICK k : Steers(k, i - 1, keys, n, KeySet(held)) /\ f = held \cup Placed(rows, k, i - 1)
        BY <2>3
      <3> DEFINE key == FreeKey(keys[i], above(i), KeySet(held \cup Placed(rows, k, i - 1)))
      <3>2. next(f, i) = f \cup {Entry(rows[i], key)}
        BY <3>1 DEF KeySet
      <3>3. above(i) = IF i = n THEN NoBound ELSE keys[i + 1]
        OBVIOUS
      <3> DEFINE ab == above(i)
      <3>4. ab = IF i = n THEN NoBound ELSE keys[i + 1]
        BY <3>3
      <3>5. key = FreeKey(keys[i], ab, KeySet(held \cup Placed(rows, k, i - 1)))
        OBVIOUS
      <3> HIDE DEF ab, key, above, next, n, Is, Steered, placed, value
      <3>6. SteersOn(rows, k, i, keys, n, held, key)
        BY <1>2, <1>3, <1>4, <3>1, <3>4, <3>5, NextSteers DEF ShortKeys
      <3>7. PICK l : /\ Steers(l, i, keys, n, KeySet(held))
                     /\ Placed(rows, l, i) = Placed(rows, k, i - 1) \cup {Entry(rows[i], key)}
        BY <3>6 DEF SteersOn
      <3>8. next(f, i) = held \cup Placed(rows, l, i)
        BY <3>1, <3>2, <3>7
      <3> QED BY <3>7, <3>8 DEF Steered
    <2> HIDE DEF next, Steered
    <2>4. \E f : Is(f, n) /\ Steered(f[n], n)
      <3> DEFINE S == {m \in 0 .. n : \E f : Is(f, m) /\ Steered(f[m], m)}
      <3>1. 0 \in S
        <4> DEFINE g == [i \in 0 .. 0 |-> held]
        <4>1. Is(g, 0) /\ Steered(g[0], 0) /\ 0 \in 0 .. n
          BY <1>2, <2>2
        <4> HIDE DEF Is, g
        <4> QED BY <4>1
      <3>2. ASSUME NEW m \in 1 .. n, m - 1 \in S PROVE m \in S
        <4>1. PICK f : Is(f, m - 1) /\ Steered(f[m - 1], m - 1)
          BY <3>2
        <4> DEFINE g == [i \in 0 .. m |-> IF i = m THEN next(f[m - 1], m) ELSE f[i]]
        <4>2. g[0] = held
          BY <1>2, <4>1
        <4>3. ASSUME NEW i \in 1 .. m PROVE g[i] = next(g[i - 1], i)
          <5>1. i - 1 \in 0 .. m /\ i - 1 # m /\ i \in 0 .. m
            BY <1>2
          <5>2. g[i - 1] = f[i - 1]
            BY <5>1
          <5>3. CASE i = m
            BY <5>1, <5>2, <5>3
          <5>4. CASE i # m
            <6>1. i \in 0 .. m - 1 /\ i # 0
              BY <1>2, <5>4
            <6>2. f[i] = next(f[i - 1], i)
              BY <4>1, <6>1
            <6> QED BY <5>1, <5>2, <5>4, <6>2
          <5> QED BY <5>3, <5>4
        <4>4. \A i \in 0 .. m : i = 0 \/ i \in 1 .. m
          BY <1>2
        <4>5. g = [i \in 0 .. m |-> g[i]]
          OBVIOUS
        <4>6. m \in 0 .. n /\ m \in 0 .. m
          BY <1>2
        <4>7. g[m] = next(f[m - 1], m)
          BY <4>6
        <4> HIDE DEF g
        <4>8. Is(g, m)
          BY <4>2, <4>3, <4>4, <4>5
        <4> HIDE DEF Is
        <4>9. Steered(g[m], m)
          BY <2>3, <4>1, <4>7
        <4> QED BY <4>6, <4>8, <4>9
      <3>3. n \in 0 .. n
        BY <1>2
      <3> HIDE DEF S, Is
      <3>4. n \in S
        BY <1>2, <3>1, <3>2, <3>3, SegmentInduction
      <3> QED BY <3>4 DEF S
    <2>5. \A f, g : Is(f, n) /\ Is(g, n) => f[n] = g[n]
      <3> SUFFICES ASSUME NEW f, NEW g, Is(f, n), Is(g, n) PROVE f[n] = g[n]
        OBVIOUS
      <3> DEFINE S == {m \in 0 .. n : f[m] = g[m]}
      <3>1. 0 \in S
        BY <1>2
      <3>2. ASSUME NEW m \in 1 .. n, m - 1 \in S PROVE m \in S
        <4>1. m \in 0 .. n /\ m # 0
          BY <1>2
        <4>2. f[m] = next(f[m - 1], m) /\ g[m] = next(g[m - 1], m)
          BY <4>1
        <4> QED BY <3>2, <4>1, <4>2
      <3>3. n \in 0 .. n
        BY <1>2
      <3> HIDE DEF S
      <3>4. n \in S
        BY <1>2, <3>1, <3>2, <3>3, SegmentInduction
      <3> QED BY <3>4 DEF S
    <2> HIDE DEF Is
    <2>6. Steered(placed[n], n)
      BY <2>4, <2>5
    <2> HIDE DEF placed
    <2>7. PICK k : Steers(k, n, keys, n, KeySet(held)) /\ placed[n] = held \cup Placed(rows, k, n)
      BY <2>6 DEF Steered
    <2>8. /\ Proper(placed[n])
          /\ \A v : ToSet(v) = placed[n] => KeptIn(v, rows)
      BY <1>3, <1>4, <2>7, SteeredIsProper
    <2>9. Ordered(value) /\ ToSet(value) = placed[n]
      BY <1>1, <1>6, <2>8, InOrderIsOrdered
    <2>10. KeptIn(value, rows)
      BY <2>8, <2>9
    <2>11. IdSet(Placed(rows, k, n)) = ToSet(rows)
      <3>1. \A i \in 1 .. n : Entry(rows[i], k[i]).id = rows[i]
        BY DEF Entry
      <3>2. \A a \in ToSet(rows) : \E i \in 1 .. n : rows[i] = a
        BY ToSetOfSeq
      <3>3. ASSUME NEW a \in ToSet(rows) PROVE a \in IdSet(Placed(rows, k, n))
        BY <3>1, <3>2 DEF IdSet, Placed
      <3>4. ASSUME NEW a \in IdSet(Placed(rows, k, n)) PROVE a \in ToSet(rows)
        BY <1>2, <3>1 DEF IdSet, Placed
      <3> QED BY <3>3, <3>4
    <2>12. IdSet(ToSet(value)) = IdSet(held) \cup ToSet(rows)
      BY <2>7, <2>9, <2>11 DEF IdSet
    <2>13. IdSet(held) = (IdSet(ToSet(entries)) \cap protected) \ ToSet(rows)
      BY DEF IdSet, held
    <2> QED BY <2>9, <2>10, <2>12, <2>13
  <1> QED BY <1>5, <1>6

-----------------------------------------------------------------------------
(* What the operations on a value make of it.                              *)
Apart(members, incoming) ==
    \A d \in members, e \in incoming : d.id # e.id /\ d.orderKey # e.orderKey

(* Members that differ in ids and keys can be put together.                *)
LEMMA UnionIsProper ==
  ASSUME NEW members, Proper(members), NEW incoming, Proper(incoming), Apart(members, incoming)
  PROVE  Proper(members \cup incoming)
  <1>1. IsFiniteSet(members \cup incoming)
    BY FS_Union DEF Proper
  <1>2. members \cup incoming \subseteq Entries
    BY DEF Proper
  <1>3. \A d, e \in members \cup incoming : d # e => d.id # e.id /\ d.orderKey # e.orderKey
    BY DEF Proper, Apart
  <1> QED BY <1>1, <1>2, <1>3 DEF Proper

(* mergeByKey: incoming entries replace those of their ids; the result is  *)
(* ordered.                                                                *)
LEMMA MergedIsOrdered ==
  ASSUME NEW value, Ordered(value), NEW incoming, Proper(incoming),
         NEW left, left = {d \in ToSet(value) : d.id \notin IdSet(incoming)}, Apart(left, incoming)
  PROVE  Ordered(Merged(value, incoming)) /\ ToSet(Merged(value, incoming)) = left \cup incoming
  <1>1. Proper(ToSet(value))
    BY OrderedIsValid
  <1>2. Proper(left)
    <2>1. left \in SUBSET ToSet(value)
      OBVIOUS
    <2>2. IsFiniteSet(left)
      BY <1>1, <2>1, FS_Subset DEF Proper
    <2> QED BY <1>1, <2>1, <2>2 DEF Proper
  <1>3. Proper(left \cup incoming)
    BY <1>2, UnionIsProper
  <1>4. left = {e \in ToSet(value) : \A i \in incoming : e.id # i.id}
    BY DEF IdSet
  <1>5. Merged(value, incoming) = InOrder(left \cup incoming)
    BY <1>4 DEF Merged
  <1> QED BY <1>3, <1>5, InOrderIsOrdered

(* applyDelta, by its append and by its merge: the result is ordered and   *)
(* holds what is left and what came.                                       *)
LEMMA DeltaIsOrdered ==
  ASSUME Ordered(entries), NEW append, Proper(append), NEW detach,
         NEW left, left = {d \in ToSet(entries) : d.id \notin detach /\ d.id \notin IdSet(append)},
         Apart(left, append)
  PROVE  Ordered(Delta(append, detach)) /\ ToSet(Delta(append, detach)) = left \cup append
  <1> DEFINE rest == Without(entries, detach)
             pure == /\ detach \cap Members = {}
                     /\ \A e \in append : e.id \notin Members /\ Precedes(TailKey(rest), e.orderKey)
  <1>1. Delta(append, detach) = IF pure THEN rest \o InOrder(append) ELSE Merged(rest, append)
    BY DEF Delta
  <1>2. Ordered(rest) /\ ToSet(rest) = {e \in ToSet(entries) : e.id \notin detach}
    BY WithoutIsOrdered
  <1> HIDE DEF rest
  <1>3. left = {d \in ToSet(rest) : d.id \notin IdSet(append)}
    BY <1>2
  <1>4. CASE pure
    <2>1. Ordered(InOrder(append)) /\ ToSet(InOrder(append)) = append
      BY InOrderIsOrdered
    <2>2. ASSUME NEW d \in ToSet(rest), NEW e \in append
          PROVE  d.id # e.id /\ Precedes(d.orderKey, e.orderKey)
      <3>1. d.id \in Members
        BY <1>2, IdsAreOfMembers DEF Members, IdSet, Ordered
      <3>2. d.orderKey \in Keys /\ e.orderKey \in Keys
        BY <1>2, MembersAreEntries DEF Proper, Entries
      <3>3. d.orderKey = TailKey(rest) \/ Precedes(d.orderKey, TailKey(rest))
        BY <1>2, TailIsGreatest
      <3>4. TailKey(rest) \in Keys \cup {NoBound}
        BY <1>2, TailIsGreatest
      <3>5. d.orderKey \in Seq(Int) /\ e.orderKey \in Seq(Int) /\ TailKey(rest) \in Seq(Int)
        BY <3>2, <3>4, KeysAreSequences
      <3> QED BY <1>4, <3>1, <3>3, <3>5, PrecedesIsTransitive
    <2>3. Ordered(rest \o InOrder(append)) /\ ToSet(rest \o InOrder(append)) = ToSet(rest) \cup append
      BY <1>2, <2>1, <2>2, JoinedIsOrdered
    <2>4. left = ToSet(rest)
      BY <1>3, <2>2 DEF IdSet
    <2> QED BY <1>1, <1>4, <2>3, <2>4
  <1>5. CASE ~ pure
    BY <1>1, <1>2, <1>3, <1>5, MergedIsOrdered
  <1> QED BY <1>4, <1>5

(* trimValue keeps the order, and all that is protected.                   *)
LEMMA TrimmedIsOrdered ==
  ASSUME NEW value, Ordered(value), NEW protected
  PROVE  /\ Ordered(Trimmed(value, protected))
         /\ ToSet(Trimmed(value, protected)) \subseteq ToSet(value)
         /\ \A e \in ToSet(value) : e.id \in protected => e \in ToSet(Trimmed(value, protected))
  <1> DEFINE before(i) == {j \in 1 .. i - 1 : value[j].id \notin protected}
             kept == {i \in 1 .. Len(value) : value[i].id \in protected \/ Cardinality(before(i)) < MaxRows}
             S == {value[i] : i \in kept}
  <1>1. Trimmed(value, protected) = IF Len(value) <= MaxRows THEN value ELSE Those(value, S)
    BY DEF Trimmed
  <1> HIDE DEF before
  <1>2. \A e \in ToSet(value) : e.id \in protected => e \in S
    <2>1. \A e \in ToSet(value) : \E i \in 1 .. Len(value) : value[i] = e
      BY ToSetOfSeq DEF Ordered
    <2> QED BY <2>1
  <1> HIDE DEF S
  <1>3. Ordered(Those(value, S)) /\ ToSet(Those(value, S)) = ToSet(value) \cap S
    BY ThoseIsOrdered
  <1> QED BY <1>1, <1>2, <1>3

-----------------------------------------------------------------------------
(* Two values one behind the other have the ids of both.                   *)
LEMMA IdsOfJoined ==
  ASSUME NEW a \in Seq(Entries), NEW b \in Seq(Entries)
  PROVE  IdsOf(a \o b) = IdsOf(a) \o IdsOf(b)
  <1> DEFINE c == a \o b
             x == IdsOf(a)
             y == IdsOf(b)
             ids == x \o y
  <1>1. /\ IdsOf(a) \in Seq(Ids) /\ Len(IdsOf(a)) = Len(a) /\ Len(a) \in Nat
        /\ \A i \in 1 .. Len(a) : IdsOf(a)[i] = a[i].id
    BY IdsAreOfMembers, LenProperties
  <1>2. /\ IdsOf(b) \in Seq(Ids) /\ Len(IdsOf(b)) = Len(b) /\ Len(b) \in Nat
        /\ \A i \in 1 .. Len(b) : IdsOf(b)[i] = b[i].id
    BY IdsAreOfMembers, LenProperties
  <1>3. /\ c \in Seq(Entries) /\ Len(c) = Len(a) + Len(b)
        /\ \A i \in 1 .. Len(a) : c[i] = a[i]
        /\ \A i \in 1 .. Len(b) : c[Len(a) + i] = b[i]
    BY Joining
  <1>4. /\ ids \in Seq(Ids) /\ Len(ids) = Len(a) + Len(b)
        /\ \A i \in 1 .. Len(a) : ids[i] = a[i].id
        /\ \A i \in 1 .. Len(b) : ids[Len(a) + i] = b[i].id
    <2>1. /\ x \in Seq(Ids) /\ Len(x) = Len(a)
          /\ y \in Seq(Ids) /\ Len(y) = Len(b)
          /\ \A i \in 1 .. Len(a) : x[i] = a[i].id
          /\ \A i \in 1 .. Len(b) : y[i] = b[i].id
      BY <1>1, <1>2
    <2> HIDE DEF x, y
    <2>2. /\ ids \in Seq(Ids) /\ Len(ids) = Len(a) + Len(b)
          /\ \A i \in 1 .. Len(a) : ids[i] = x[i]
          /\ \A i \in 1 .. Len(b) : ids[Len(a) + i] = y[i]
      BY <2>1, Joining
    <2> QED BY <2>1, <2>2
  <1>5. /\ IdsOf(c) \in Seq(Ids) /\ Len(IdsOf(c)) = Len(a) + Len(b)
        /\ \A i \in 1 .. Len(a) + Len(b) : IdsOf(c)[i] = c[i].id
    BY <1>3, IdsAreOfMembers
  <1> HIDE DEF c, ids
  <1>6. ASSUME NEW i \in 1 .. Len(a) + Len(b) PROVE IdsOf(c)[i] = ids[i]
    <2>1. CASE i <= Len(a)
      <3>1. i \in 1 .. Len(a)
        BY <1>1, <2>1
      <3> QED BY <1>3, <1>4, <1>5, <3>1
    <2>2. CASE i > Len(a)
      <3>1. i - Len(a) \in 1 .. Len(b) /\ Len(a) + (i - Len(a)) = i
        BY <1>1, <1>2, <2>2
      <3> QED BY <1>3, <1>4, <1>5, <3>1
    <2> QED BY <1>1, <2>1, <2>2
  <1>7. IdsOf(c) = ids
    BY <1>4, <1>5, <1>6, SeqEqual
  <1> QED BY <1>7 DEF c, ids

(* A page that resets the order puts its rows before all others.           *)
LEMMA FirstPageIsOrdered ==
  ASSUME Ordered(entries), Short(ToSet(entries)), NEW rows \in Seq(Ids), Distinct(rows)
  PROVE  /\ Ordered(FirstPage(rows))
         /\ IdsOf(FirstPage(rows)) = rows \o IdsOf(Without(entries, ToSet(rows)))
         /\ \A e \in ToSet(FirstPage(rows)) : e.id \notin ToSet(rows) => e \in ToSet(entries)
         /\ IdSet(ToSet(FirstPage(rows))) = ToSet(rows) \cup IdSet(ToSet(entries))
  <1> DEFINE rest == Without(entries, ToSet(rows))
             head == HeadKey(rest)
             n    == Len(rows)
             keys == KeysForSequence(n, NoBound, head)
             page == Keyed(rows, keys)
             value == FirstPage(rows)
  <1>1. value = IF IdsOf(entries) = rows \o IdsOf(rest) THEN entries ELSE page \o rest
    BY DEF FirstPage, SameOrder, HeadKey, Keyed
  <1>2. /\ Ordered(rest) /\ rest \in Seq(Entries)
        /\ ToSet(rest) = {e \in ToSet(entries) : e.id \notin ToSet(rows)}
    BY WithoutIsOrdered DEF Ordered
  <1> HIDE DEF rest, value
  <1>3. /\ head \in Keys \cup {NoBound} /\ Len(head) <= MaxSequenceLength
        /\ \A e \in ToSet(rest) : head # NoBound
               /\ (e.orderKey = head \/ Precedes(head, e.orderKey))
    <2>1. head \in Keys \cup {NoBound}
          /\ \A e \in ToSet(rest) : head # NoBound
                 /\ (e.orderKey = head \/ Precedes(head, e.orderKey))
      BY <1>2, HeadIsLeast
    <2>2. Len(head) <= MaxSequenceLength
      <3>1. CASE head = NoBound
        BY <3>1, NoBoundIsShort
      <3>2. CASE head # NoBound
        <4>1. PICK e \in ToSet(rest) : e.orderKey = head
          BY <1>2, <3>2, HeadIsLeast
        <4> QED BY <1>2, <4>1 DEF Short
      <3> QED BY <3>1, <3>2
    <2> QED BY <2>1, <2>2
  <1> HIDE DEF head
  <1>4. n \in Nat /\ Increasing(keys, n) /\ \A i \in 1 .. n : Between(keys[i], NoBound, head)
    <2>1. n \in Nat
      BY ToSetOfSeq
    <2>2. Room(NoBound, head)
      <3>1. head # NoBound => Precedes(NoBound, head)
        BY <1>3, EmptyIsLeast
      <3> QED BY <1>3, <3>1 DEF Room
    <2> QED BY <1>3, <2>1, <2>2, NoBoundIsShort, SequenceIsIncreasing
  <1> HIDE DEF keys
  <1>5. /\ Ordered(page) /\ IdsOf(page) = rows /\ page \in Seq(Entries)
        /\ ToSet(page) = {Entry(rows[i], keys[i]) : i \in 1 .. n}
    BY <1>4, KeyedIsOrdered DEF Ordered
  <1> HIDE DEF page
  <1>6. ASSUME NEW d \in ToSet(page), NEW e \in ToSet(rest)
        PROVE  d.id # e.id /\ Precedes(d.orderKey, e.orderKey)
    <2>1. PICK i \in 1 .. n : d = Entry(rows[i], keys[i])
      BY <1>5
    <2>2. d.id = rows[i] /\ d.orderKey = keys[i]
      BY <2>1 DEF Entry
    <2>3. rows[i] \in ToSet(rows)
      BY ToSetOfSeq
    <2>4. keys[i] \in Keys /\ head \in Keys /\ Precedes(keys[i], head)
      BY <1>3, <1>4 DEF Between
    <2>5. e.orderKey \in Keys
      BY <1>2, MembersAreEntries
    <2>6. e.orderKey = head \/ Precedes(head, e.orderKey)
      BY <1>3
    <2>7. Precedes(keys[i], e.orderKey)
      BY <2>4, <2>5, <2>6, KeysAreOrdered
    <2> QED BY <1>2, <2>2, <2>3, <2>7
  <1>7. /\ Ordered(page \o rest) /\ IdsOf(page \o rest) = rows \o IdsOf(rest)
        /\ ToSet(page \o rest) = ToSet(page) \cup ToSet(rest)
    BY <1>2, <1>5, <1>6, JoinedIsOrdered, IdsOfJoined
  <1>8. Ordered(value) /\ IdsOf(value) = rows \o IdsOf(rest)
    BY <1>1, <1>7
  <1>9. ASSUME NEW e \in ToSet(value), e.id \notin ToSet(rows) PROVE e \in ToSet(entries)
    <2>1. CASE value = entries
      BY <2>1
    <2>2. CASE value = page \o rest
      <3>1. \A d \in ToSet(page) : d.id \in ToSet(rows)
        BY <1>5, IdsAreOfMembers DEF IdSet
      <3> QED BY <1>2, <1>7, <1>9, <2>2, <3>1
    <2> QED BY <1>1, <2>1, <2>2
  <1>10. IdSet(ToSet(value)) = ToSet(rows) \cup IdSet(ToSet(entries))
    <2>1. IdSet(ToSet(value)) = ToSet(rows \o IdsOf(rest))
      BY <1>8, IdsAreOfMembers DEF Ordered
    <2>2. ToSet(rows \o IdsOf(rest)) = ToSet(rows) \cup IdSet(ToSet(rest))
      <3>1. IdsOf(rest) \in Seq(Ids) /\ ToSet(IdsOf(rest)) = IdSet(ToSet(rest))
        BY <1>2, IdsAreOfMembers
      <3> QED BY <3>1, ToSetOfJoined
    <2>3. ToSet(rows) \cup IdSet(ToSet(rest)) = ToSet(rows) \cup IdSet(ToSet(entries))
      BY <1>2 DEF IdSet
    <2> QED BY <2>1, <2>2, <2>3
  <1> QED BY <1>8, <1>9, <1>10 DEF value, rest

-----------------------------------------------------------------------------
(* All rows of a list are members, and stand in its order.                 *)
ListKept(value, order) ==
    /\ order \in Seq(Ids)
    /\ ToSet(order) \subseteq IdSet(ToSet(value))
    /\ KeptIn(value, order)

(* The part of a list that stays in a value is kept.                       *)
LEMMA PartIsKept ==
  ASSUME NEW value, NEW order \in Seq(Ids), KeptIn(value, order), NEW w, NEW S,
         ToSet(order) \cap S \subseteq IdSet(ToSet(w)),
         \A e \in ToSet(w) : e.id \in ToSet(order) \cap S => e \in ToSet(value)
  PROVE  ListKept(w, Those(order, S))
  <1> DEFINE part == Those(order, S)
  <1>1. part \in Seq(Ids) /\ ToSet(part) = ToSet(order) \cap S
    BY ThoseInSet
  <1>2. KeptIn(value, part)
    BY KeptThose
  <1> HIDE DEF part
  <1>3. From(w, value, part)
    BY <1>1 DEF From
  <1>4. KeptIn(w, part)
    BY <1>1, <1>2, <1>3, KeptFrom
  <1> QED BY <1>1, <1>4 DEF ListKept, part

(* The members of the scope are the ids of its entries.                    *)
LEMMA MembersAreIds == ASSUME Ordered(entries) PROVE Members = IdSet(ToSet(entries))
  BY IdsAreOfMembers DEF Members, Ordered

(* A part of a sequence without repetition has none.                       *)
LEMMA PartIsDistinct ==
  ASSUME NEW ids \in Seq(Ids), Distinct(ids), NEW S
  PROVE  Distinct(Those(ids, S))
  <1> DEFINE t == Those(ids, S)
  <1>1. \E h : Picks(h, t, ids, Len(ids), S)
    BY ThoseArePicked
  <1> HIDE DEF t
  <1>2. PICK h : Picks(h, t, ids, Len(ids), S)
    BY <1>1
  <1>3. ASSUME NEW i \in 1 .. Len(t), NEW j \in 1 .. Len(t), i < j PROVE t[i] # t[j]
    <2>1. h[i] \in 1 .. Len(ids) /\ h[j] \in 1 .. Len(ids) /\ h[i] < h[j]
          /\ t[i] = ids[h[i]] /\ t[j] = ids[h[j]]
      BY <1>2, <1>3 DEF Picks
    <2> QED BY <2>1 DEF Distinct
  <1> QED BY <1>3 DEF Distinct, t

-----------------------------------------------------------------------------
(* Rows that join the scope at its end, and a value of them all.           *)
JoinsBehind(p, new, ids) ==
    /\ new \in Seq(Ids) /\ ToSet(new) = ToSet(ids) \ IdSet(ToSet(entries))
    /\ Ordered(p) /\ IdsOf(p) = new /\ IdSet(ToSet(p)) = ToSet(new)
    /\ \A d \in ToSet(entries), e \in ToSet(p) : d.id # e.id /\ Precedes(d.orderKey, e.orderKey)
    /\ Apart(ToSet(entries), ToSet(p))

(* planScopePlacement: rows that are no members get keys behind all        *)
(* members.                                                                *)
LEMMA NewRowsAreBehind ==
  ASSUME Ordered(entries), Short(ToSet(entries)), NEW ids \in Seq(Ids), Distinct(ids),
         NEW new, new = Those(ids, Ids \ Members),
         NEW p, p = PlacedLast(entries, new)
  PROVE  JoinsBehind(p, new, ids)
  <1>1. new \in Seq(Ids) /\ ToSet(new) = ToSet(ids) \ IdSet(ToSet(entries))
    <2>1. new \in Seq(Ids) /\ ToSet(new) = ToSet(ids) \cap (Ids \ Members)
      BY ThoseInSet
    <2>2. ToSet(ids) \subseteq Ids
      BY ToSetOfSeq
    <2> QED BY <2>1, <2>2, MembersAreIds
  <1>2. Distinct(new)
    BY PartIsDistinct
  <1>3. ToSet(new) \cap IdSet(ToSet(entries)) = {}
    BY <1>1
  <1>4. /\ Ordered(p) /\ IdsOf(p) = new
        /\ \A d \in ToSet(entries), e \in ToSet(p) : d.id # e.id /\ Precedes(d.orderKey, e.orderKey)
    BY <1>1, <1>2, <1>3, PlacedLastIsBehind
  <1>5. IdSet(ToSet(p)) = ToSet(new)
    BY <1>4, IdsAreOfMembers DEF Ordered
  <1>6. Apart(ToSet(entries), ToSet(p))
    <2> SUFFICES ASSUME NEW d \in ToSet(entries), NEW e \in ToSet(p)
                 PROVE  d.id # e.id /\ d.orderKey # e.orderKey
      BY DEF Apart
    <2>1. d.orderKey \in Keys
      BY MembersAreEntries
    <2> QED BY <1>4, <2>1, KeysAreOrdered
  <1> QED BY <1>1, <1>4, <1>5, <1>6 DEF JoinsBehind

(* The order goes on with the rows that joined behind.                     *)
LEMMA NewRowsAreKept ==
  ASSUME Ordered(entries), Short(ToSet(entries)), ListKept(entries, expected),
         NEW ids \in Seq(Ids), Distinct(ids),
         NEW new, new = Those(ids, Ids \ Members),
         NEW p, p = PlacedLast(entries, new),
         NEW value, ToSet(value) = ToSet(entries) \cup ToSet(p)
  PROVE  ListKept(value, expected \o new)
  <1>1. /\ new \in Seq(Ids) /\ ToSet(new) = ToSet(ids) \ IdSet(ToSet(entries))
        /\ Ordered(p) /\ IdsOf(p) = new /\ IdSet(ToSet(p)) = ToSet(new)
        /\ \A d \in ToSet(entries), e \in ToSet(p) : d.id # e.id /\ Precedes(d.orderKey, e.orderKey)
    <2>1. JoinsBehind(p, new, ids)
      BY NewRowsAreBehind
    <2> QED BY <2>1 DEF JoinsBehind
  <1>2. expected \in Seq(Ids) /\ ToSet(expected) \subseteq IdSet(ToSet(entries)) /\ KeptIn(entries, expected)
    BY DEF ListKept
  <1>3. \A e \in ToSet(p) : e.id \notin IdSet(ToSet(entries)) /\ e.id \in ToSet(new)
    BY <1>1 DEF IdSet
  <1>4. \A e \in ToSet(entries) : e.id \in IdSet(ToSet(entries)) /\ e.id \notin ToSet(new)
    BY <1>1 DEF IdSet
  <1>5. KeptIn(value, expected)
    <2>1. From(value, entries, expected)
      BY <1>2, <1>3 DEF From
    <2> QED BY <1>2, <2>1, KeptFrom
  <1>6. KeptIn(value, new)
    <2>1. From(value, p, new)
      BY <1>4 DEF From
    <2>2. KeptIn(p, new)
      BY <1>1, KeptIds
    <2> QED BY <1>1, <2>1, <2>2, KeptFrom
  <1>7. AllFollow(value, expected, new)
    <2> SUFFICES ASSUME NEW d \in ToSet(value), NEW e \in ToSet(value),
                        d.id \in ToSet(expected), e.id \in ToSet(new)
                 PROVE  Precedes(d.orderKey, e.orderKey)
      BY DEF AllFollow, Follows
    <2>1. d \in ToSet(entries) /\ e \in ToSet(p)
      BY <1>2, <1>3, <1>4
    <2> QED BY <1>1, <2>1
  <1>8. KeptIn(value, expected \o new)
    BY <1>1, <1>2, <1>5, <1>6, <1>7, KeptJoined
  <1>9. expected \o new \in Seq(Ids) /\ ToSet(expected \o new) = ToSet(expected) \cup ToSet(new)
    <2>1. expected \in Seq(Ids) /\ new \in Seq(Ids)
      BY <1>1, <1>2
    <2>2. expected \o new \in Seq(Ids)
      BY <2>1
    <2>3. ToSet(expected \o new) = ToSet(expected) \cup ToSet(new)
      BY <2>1, ToSetOfJoined
    <2> QED BY <2>2, <2>3
  <1>10. IdSet(ToSet(value)) = IdSet(ToSet(entries)) \cup ToSet(new)
    BY <1>1 DEF IdSet
  <1> QED BY <1>2, <1>8, <1>9, <1>10 DEF ListKept

(* The rows of a page that resets the order, and the others behind them.   *)
LEMMA FirstRowsAreKept ==
  ASSUME Ordered(entries), Short(ToSet(entries)), ListKept(entries, expected),
         NEW rows \in Seq(Ids), Distinct(rows)
  PROVE  ListKept(FirstPage(rows), Ahead(rows))
  <1> DEFINE value == FirstPage(rows)
             rest  == Without(entries, ToSet(rows))
             other == Those(expected, Ids \ ToSet(rows))
  <1>1. /\ Ordered(value) /\ IdsOf(value) = rows \o IdsOf(rest)
        /\ \A e \in ToSet(value) : e.id \notin ToSet(rows) => e \in ToSet(entries)
        /\ IdSet(ToSet(value)) = ToSet(rows) \cup IdSet(ToSet(entries))
    BY FirstPageIsOrdered
  <1>2. rest \in Seq(Entries) /\ ToSet(rest) = {e \in ToSet(entries) : e.id \notin ToSet(rows)}
    BY WithoutIsOrdered DEF Ordered
  <1>3. IdsOf(rest) \in Seq(Ids) /\ ToSet(IdsOf(rest)) = IdSet(ToSet(rest))
    BY <1>2, IdsAreOfMembers
  <1>4. expected \in Seq(Ids) /\ ToSet(expected) \subseteq IdSet(ToSet(entries)) /\ KeptIn(entries, expected)
    BY DEF ListKept
  <1>5. other \in Seq(Ids) /\ ToSet(other) = ToSet(expected) \ ToSet(rows)
    <2>1. other \in Seq(Ids) /\ ToSet(other) = ToSet(expected) \cap (Ids \ ToSet(rows))
      BY <1>4, ThoseInSet
    <2>2. ToSet(expected) \subseteq Ids
      BY <1>4, ToSetOfSeq
    <2> QED BY <2>1, <2>2
  <1> HIDE DEF rest, value
  <1>6. KeptIn(value, rows \o IdsOf(rest))
    BY <1>1, KeptIds
  <1>7. KeptIn(value, rows) /\ AllFollow(value, rows, IdsOf(rest))
    BY <1>3, <1>6, KeptJoined
  <1>8. KeptIn(value, other)
    <2>1. KeptIn(entries, other)
      BY <1>4, KeptThose
    <2> HIDE DEF other
    <2>2. From(value, entries, other)
      BY <1>1, <1>5 DEF From
    <2> QED BY <1>5, <2>1, <2>2, KeptFrom
  <1>9. Ahead(rows) = rows \o other
    BY DEF Ahead
  <1> HIDE DEF other
  <1>10. AllFollow(value, rows, other)
    <2>1. ToSet(other) \subseteq ToSet(IdsOf(rest))
      BY <1>2, <1>3, <1>4, <1>5 DEF IdSet
    <2> QED BY <1>7, <2>1 DEF AllFollow
  <1>11. KeptIn(value, rows \o other)
    BY <1>5, <1>7, <1>8, <1>10, KeptJoined
  <1>12. rows \o other \in Seq(Ids) /\ ToSet(rows \o other) = ToSet(rows) \cup ToSet(other)
    BY <1>5, Joining, ToSetOfJoined
  <1> QED BY <1>1, <1>4, <1>5, <1>9, <1>11, <1>12 DEF ListKept, value

-----------------------------------------------------------------------------
(* Unless a row was restored at a key that another has: the entries are a  *)
(* value, no landing was refused, the rows whose place is decided stand in *)
(* their order, the drafts among the members are those of open inserts,    *)
(* and a row whose destroy is pending has a key to be restored at.         *)
ScopeTypeOK ==
    /\ operation \in [Ids -> {"none", "pending", "failed", "committed", "discarded"}]
    /\ captured \in [Rows -> Keys \cup {NoBound}]

OpenIn(value, operations) ==
    \A d \in Drafts : d \in IdSet(ToSet(value)) <=> operations[d] \in {"pending", "failed"}

KeysCaptured == \A r \in Rows : operation[r] = "pending" => captured[r] \in Keys

Calm ==
    /\ ScopeTypeOK
    /\ Ordered(entries) /\ ~ refused
    /\ ListKept(entries, expected)
    /\ OpenIn(entries, operation)
    /\ KeysCaptured

ScopeIInv == collided \/ Calm

(* No row is a draft.                                                      *)
LEMMA IdsAreRowsAndDrafts == Ids = Rows \cup Drafts /\ Rows \cap Drafts = {}
  BY ScopeAssumption DEF Ids

-----------------------------------------------------------------------------
(* A landing of a value.                                                   *)
LEMMA LandKeeps ==
  ASSUME Calm, NEW next, Ordered(next), NEW order \in Seq(Ids), KeptIn(next, order),
         NEW swapped \in SUBSET Drafts,
         \A d \in Drafts \ swapped :
             d \in IdSet(ToSet(next)) <=> operation[d] \in {"pending", "failed"},
         Land(next, order, swapped)
  PROVE  Calm'
  <1> DEFINE value == Without(next, swapped)
             S == ToSet(IdsOf(value))
             part == Those(order, S)
             operations == [id \in Ids |-> IF id \in swapped THEN "committed" ELSE operation[id]]
  <1>1. IsScopeIndexValue(next)
    BY OrderedIsValid
  <1>2. /\ entries' = value /\ operation' = operations /\ expected' = part
        /\ refused' = refused /\ captured' = captured
    BY <1>1, Zenon DEF Land
  <1>3. Ordered(value) /\ ToSet(value) = {e \in ToSet(next) : e.id \notin swapped}
    BY WithoutIsOrdered
  <1>4. S = IdSet(ToSet(value))
    BY <1>3, IdsAreOfMembers DEF Ordered
  <1> HIDE DEF value, S
  <1>5. ListKept(value, part)
    <2>1. ToSet(order) \cap S \subseteq IdSet(ToSet(value))
      BY <1>4
    <2>2. \A e \in ToSet(value) : e.id \in ToSet(order) \cap S => e \in ToSet(next)
      BY <1>3
    <2> QED BY <2>1, <2>2, PartIsKept
  <1> HIDE DEF part
  <1>6. /\ \A id \in Ids : operations[id] = IF id \in swapped THEN "committed" ELSE operation[id]
        /\ operations \in [Ids -> {"none", "pending", "failed", "committed", "discarded"}]
    BY DEF Calm, ScopeTypeOK
  <1> HIDE DEF operations
  <1>7. OpenIn(value, operations)
    <2> SUFFICES ASSUME NEW d \in Drafts
                 PROVE  d \in IdSet(ToSet(value)) <=> operations[d] \in {"pending", "failed"}
      BY DEF OpenIn
    <2>1. d \in Ids
      BY IdsAreRowsAndDrafts
    <2>2. CASE d \in swapped
      BY <1>3, <1>6, <2>1, <2>2 DEF IdSet
    <2>3. CASE d \notin swapped
      <3>1. d \in IdSet(ToSet(value)) <=> d \in IdSet(ToSet(next))
        BY <1>3, <2>3 DEF IdSet
      <3> QED BY <1>6, <2>1, <2>3, <3>1
    <2> QED BY <2>2, <2>3
  <1>8. \A r \in Rows : operations[r] = operation[r]
    BY <1>6, IdsAreRowsAndDrafts
  <1> QED BY <1>2, <1>3, <1>5, <1>6, <1>7, <1>8 DEF Calm, ScopeTypeOK, KeysCaptured

(* What an answer or an event may hold.                                    *)
LEMMA RowsAreListed ==
  ASSUME NEW S, NEW rows \in BoundedSeq(S, MaxPage), S \subseteq Rows, IsInjective(rows)
  PROVE  /\ rows \in Seq(Ids) /\ Distinct(rows) /\ Len(rows) \in Nat /\ Len(rows) <= MaxPage
         /\ ToSet(rows) \cap Drafts = {}
  <1>1. PICK m \in 0 .. MaxPage : rows \in [1 .. m -> S]
    BY DEF BoundedSeq, SeqOf
  <1>2. m \in Nat /\ m <= MaxPage
    BY ScopeAssumption
  <1>3. rows \in Seq(S) /\ Len(rows) = m /\ DOMAIN rows = 1 .. m
    BY <1>1, <1>2
  <1>4. rows \in Seq(Ids)
    BY <1>1, <1>2, IdsAreRowsAndDrafts
  <1>5. Distinct(rows)
    <2> SUFFICES ASSUME NEW i \in 1 .. m, NEW j \in 1 .. m, i < j, rows[i] = rows[j] PROVE FALSE
      BY <1>3 DEF Distinct
    <2>1. i = j
      BY <1>3 DEF IsInjective
    <2> QED BY <1>2, <2>1
  <1>6. ToSet(rows) \subseteq S
    BY <1>3, ToSetOfSeq
  <1> QED BY <1>2, <1>3, <1>4, <1>5, <1>6, IdsAreRowsAndDrafts

(* The same of what the server answers.                                    *)
LEMMA PayloadsAreListed ==
  ASSUME NEW rows \in Payloads
  PROVE  /\ rows \in Seq(Ids) /\ Distinct(rows) /\ Len(rows) \in Nat /\ Len(rows) <= MaxPage
         /\ ToSet(rows) \cap Drafts = {}
  <1>1. rows \in BoundedSeq(Rows \ tombstones, MaxPage) /\ IsInjective(rows)
    BY DEF Payloads
  <1> QED BY <1>1, RowsAreListed

(* What is swapped for a row is a draft.                                   *)
LEMMA SwappedAreOpen ==
  ASSUME NEW rows, NEW swapped \in SUBSET Correlated(rows)
  PROVE  swapped \in SUBSET Drafts
  BY DEF Correlated

(* A complete answer.                                                      *)
LEMMA LandCompleteKeeps ==
  ASSUME Calm, Short(ToSet(entries)), LandComplete
  PROVE  Calm'
  <1>0. PICK rows \in Payloads : \E swapped \in SUBSET Correlated(rows) :
          Land(Trimmed(Complete(rows, Open \ swapped), Open \ swapped), rows, swapped)
    BY DEF LandComplete
  <1>1. PICK swapped \in SUBSET Correlated(rows) :
          Land(Trimmed(Complete(rows, Open \ swapped), Open \ swapped), rows, swapped)
    BY <1>0
  <1> DEFINE protected == Open \ swapped
             whole == Complete(rows, protected)
             next == Trimmed(whole, protected)
  <1>2. /\ rows \in Seq(Ids) /\ Distinct(rows) /\ Len(rows) <= MaxPage
        /\ ToSet(rows) \cap Drafts = {} /\ swapped \in SUBSET Drafts
    BY PayloadsAreListed, SwappedAreOpen
  <1>3. /\ Ordered(whole) /\ KeptIn(whole, rows)
        /\ IdSet(ToSet(whole)) = ToSet(rows) \cup (IdSet(ToSet(entries)) \cap protected)
    BY <1>2, CompleteIsOrdered DEF Calm
  <1>4. /\ Ordered(next) /\ ToSet(next) \subseteq ToSet(whole)
        /\ \A e \in ToSet(whole) : e.id \in protected => e \in ToSet(next)
    <2> HIDE DEF whole
    <2> QED BY <1>3, TrimmedIsOrdered
  <1> HIDE DEF whole, next
  <1>5. KeptIn(next, rows)
    BY <1>2, <1>3, <1>4, KeptFrom DEF From
  <1>6. ASSUME NEW d \in Drafts \ swapped
        PROVE  d \in IdSet(ToSet(next)) <=> operation[d] \in {"pending", "failed"}
    <2>1. d \in Open <=> operation[d] \in {"pending", "failed"}
      BY IdsAreRowsAndDrafts DEF Open
    <2>2. d \in IdSet(ToSet(entries)) <=> d \in Open
      BY <2>1 DEF Calm, OpenIn
    <2>3. ASSUME d \in Open PROVE d \in IdSet(ToSet(next))
      <3>1. d \in protected /\ d \in IdSet(ToSet(whole))
        BY <1>3, <2>2, <2>3
      <3> QED BY <1>4, <3>1 DEF IdSet
    <2>4. ASSUME d \in IdSet(ToSet(next)) PROVE d \in Open
      <3>1. d \in IdSet(ToSet(whole))
        BY <1>4, <2>4 DEF IdSet
      <3> QED BY <1>2, <1>3, <3>1
    <2> QED BY <2>1, <2>3, <2>4
  <1>7. Land(next, rows, swapped)
    BY <1>1 DEF next, whole
  <1> QED BY <1>2, <1>4, <1>5, <1>6, <1>7, LandKeeps

(* A page that resets the order.                                           *)
LEMMA LandFirstPageKeeps ==
  ASSUME Calm, Short(ToSet(entries)), LandFirstPage
  PROVE  Calm'
  <1>0. PICK rows \in Payloads : \E swapped \in SUBSET Correlated(rows) :
          Land(Trimmed(FirstPage(rows), Open \ swapped), Ahead(rows), swapped)
    BY DEF LandFirstPage
  <1>1. PICK swapped \in SUBSET Correlated(rows) :
          Land(Trimmed(FirstPage(rows), Open \ swapped), Ahead(rows), swapped)
    BY <1>0
  <1> DEFINE protected == Open \ swapped
             whole == FirstPage(rows)
             next == Trimmed(whole, protected)
             order == Ahead(rows)
  <1>2. /\ rows \in Seq(Ids) /\ Distinct(rows)
        /\ ToSet(rows) \cap Drafts = {} /\ swapped \in SUBSET Drafts
    BY PayloadsAreListed, SwappedAreOpen
  <1>3. Ordered(whole) /\ IdSet(ToSet(whole)) = ToSet(rows) \cup IdSet(ToSet(entries))
    BY <1>2, FirstPageIsOrdered DEF Calm
  <1>4. order \in Seq(Ids) /\ KeptIn(whole, order)
    BY <1>2, FirstRowsAreKept DEF Calm, ListKept
  <1>5. /\ Ordered(next) /\ ToSet(next) \subseteq ToSet(whole)
        /\ \A e \in ToSet(whole) : e.id \in protected => e \in ToSet(next)
    <2> HIDE DEF whole
    <2> QED BY <1>3, TrimmedIsOrdered
  <1> HIDE DEF whole, next, order
  <1>6. KeptIn(next, order)
    BY <1>4, <1>5, KeptFrom DEF From
  <1>7. ASSUME NEW d \in Drafts \ swapped
        PROVE  d \in IdSet(ToSet(next)) <=> operation[d] \in {"pending", "failed"}
    <2>1. d \in Open <=> operation[d] \in {"pending", "failed"}
      BY IdsAreRowsAndDrafts DEF Open
    <2>2. d \in IdSet(ToSet(entries)) <=> d \in Open
      BY <2>1 DEF Calm, OpenIn
    <2>3. ASSUME d \in Open PROVE d \in IdSet(ToSet(next))
      <3>1. d \in protected /\ d \in IdSet(ToSet(whole))
        BY <1>3, <2>2, <2>3
      <3> QED BY <1>5, <3>1 DEF IdSet
    <2>4. ASSUME d \in IdSet(ToSet(next)) PROVE d \in Open
      <3>1. d \in IdSet(ToSet(whole))
        BY <1>5, <2>4 DEF IdSet
      <3> QED BY <1>2, <1>3, <2>2, <3>1
    <2> QED BY <2>1, <2>3, <2>4
  <1>8. Land(next, order, swapped)
    BY <1>1 DEF next, whole, order
  <1> QED BY <1>2, <1>4, <1>5, <1>6, <1>7, <1>8, LandKeeps

(* Any other page.                                                         *)
LEMMA LandNextPageKeeps ==
  ASSUME Calm, Short(ToSet(entries)), LandNextPage
  PROVE  Calm'
  <1>0. PICK rows \in Payloads : \E swapped \in SUBSET Correlated(rows) :
          Land(NextPage(rows), Behind(rows), swapped)
    BY DEF LandNextPage
  <1>1. PICK swapped \in SUBSET Correlated(rows) :
          Land(NextPage(rows), Behind(rows), swapped)
    BY <1>0
  <1> DEFINE new == Those(rows, Ids \ Members)
             p == PlacedLast(entries, new)
             next == NextPage(rows)
             order == Behind(rows)
  <1>2. /\ rows \in Seq(Ids) /\ Distinct(rows)
        /\ ToSet(rows) \cap Drafts = {} /\ swapped \in SUBSET Drafts
    BY PayloadsAreListed, SwappedAreOpen
  <1>3. next = entries \o p /\ order = expected \o new
    BY DEF NextPage, Behind
  <1>4. JoinsBehind(p, new, rows)
    BY <1>2, NewRowsAreBehind DEF Calm
  <1>5. Ordered(next) /\ ToSet(next) = ToSet(entries) \cup ToSet(p)
    <2> HIDE DEF next, p, new
    <2> QED BY <1>3, <1>4, JoinedIsOrdered DEF JoinsBehind, Calm
  <1>6. ListKept(next, order)
    <2> HIDE DEF next, order
    <2> QED BY <1>2, <1>3, <1>5, NewRowsAreKept DEF Calm
  <1> HIDE DEF next, order, p, new
  <1>7. ASSUME NEW d \in Drafts \ swapped
        PROVE  d \in IdSet(ToSet(next)) <=> operation[d] \in {"pending", "failed"}
    <2>1. IdSet(ToSet(next)) = IdSet(ToSet(entries)) \cup IdSet(ToSet(p))
      BY <1>5 DEF IdSet
    <2>2. d \notin IdSet(ToSet(p))
      BY <1>2, <1>4 DEF JoinsBehind
    <2> QED BY <2>1, <2>2 DEF Calm, OpenIn
  <1>8. Land(next, order, swapped)
    BY <1>1 DEF next, order
  <1> QED BY <1>2, <1>5, <1>6, <1>7, <1>8, LandKeeps DEF ListKept

-----------------------------------------------------------------------------
(* Rows join at the end.                                                   *)
LEMMA NewRowsAreAdded ==
  ASSUME Calm, Short(ToSet(entries)), NEW ids \in Seq(Ids), Distinct(ids),
         NEW value, value = Delta(ToSet(Joined(ids)), {})
  PROVE  /\ Ordered(value) /\ ListKept(value, Behind(ids))
         /\ IdSet(ToSet(value)) = IdSet(ToSet(entries)) \cup ToSet(ids)
  <1> DEFINE new == Those(ids, Ids \ Members)
             p == PlacedLast(entries, new)
             append == ToSet(p)
             left == {d \in ToSet(entries) : d.id \notin {} /\ d.id \notin IdSet(append)}
  <1>1. Joined(ids) = p /\ Behind(ids) = expected \o new
    BY DEF Joined, Behind
  <1>2. JoinsBehind(p, new, ids)
    BY NewRowsAreBehind DEF Calm
  <1> HIDE DEF p, new
  <1>3. Proper(append) /\ Ordered(p)
    BY <1>2, OrderedIsValid DEF JoinsBehind
  <1>4. left = ToSet(entries)
    BY <1>2 DEF JoinsBehind, IdSet
  <1>5. Apart(left, append)
    BY <1>2, <1>4 DEF JoinsBehind
  <1>6. Ordered(Delta(append, {})) /\ ToSet(Delta(append, {})) = left \cup append
    <2> DEFINE detach == {}
    <2>1. left = {d \in ToSet(entries) : d.id \notin detach /\ d.id \notin IdSet(append)}
      OBVIOUS
    <2> HIDE DEF left, append, detach
    <2>2. Ordered(Delta(append, detach)) /\ ToSet(Delta(append, detach)) = left \cup append
      BY <1>3, <1>5, <2>1, DeltaIsOrdered DEF Calm
    <2> QED BY <2>2 DEF detach
  <1>7. Ordered(value) /\ ToSet(value) = ToSet(entries) \cup ToSet(p)
    BY <1>1, <1>4, <1>6
  <1>8. ListKept(value, Behind(ids))
    BY <1>1, <1>7, NewRowsAreKept DEF Calm, p, new
  <1>9. IdSet(ToSet(value)) = IdSet(ToSet(entries)) \cup ToSet(ids)
    <2>1. IdSet(ToSet(value)) = IdSet(ToSet(entries)) \cup IdSet(ToSet(p))
      BY <1>7 DEF IdSet
    <2> QED BY <1>2, <2>1 DEF JoinsBehind
  <1> QED BY <1>7, <1>8, <1>9

(* An event with rows of the scope.                                        *)
LEMMA ArriveKeeps ==
  ASSUME Calm, Short(ToSet(entries)), Arrive
  PROVE  Calm'
  <1>1. PICK rows \in BoundedSeq(Rows, MaxPage) :
          /\ IsInjective(rows)
          /\ entries' = Delta(ToSet(Joined(rows)), {})
          /\ expected' = Behind(rows)
          /\ UNCHANGED <<operation, captured, collided, refused>>
    BY DEF Arrive
  <1>2. rows \in Seq(Ids) /\ Distinct(rows) /\ ToSet(rows) \cap Drafts = {}
    BY <1>1, RowsAreListed
  <1>3. /\ Ordered(entries') /\ ListKept(entries', expected')
        /\ IdSet(ToSet(entries')) = IdSet(ToSet(entries)) \cup ToSet(rows)
    BY <1>1, <1>2, NewRowsAreAdded
  <1>4. OpenIn(entries', operation)
    BY <1>2, <1>3 DEF Calm, OpenIn
  <1> QED BY <1>1, <1>3, <1>4 DEF Calm, ScopeTypeOK, KeysCaptured

(* An optimistic insert.                                                   *)
LEMMA InsertKeeps ==
  ASSUME Calm, Short(ToSet(entries)), Insert
  PROVE  Calm'
  <1>1. PICK d \in Drafts :
          /\ operation[d] = "none"
          /\ entries' = Delta(ToSet(Joined(<<d>>)), {})
          /\ operation' = [operation EXCEPT ![d] = "pending"]
          /\ expected' = Append(expected, d)
          /\ UNCHANGED <<tombstones, captured, collided, refused>>
    BY DEF Insert
  <1> DEFINE ids == <<d>>
  <1>2. ids \in Seq(Ids) /\ Len(ids) = 1 /\ ids[1] = d /\ d \in Ids
    BY IdsAreRowsAndDrafts
  <1>3. Distinct(ids) /\ ToSet(ids) = {d}
    <2>1. Distinct(ids)
      BY <1>2 DEF Distinct
    <2>2. ToSet(ids) = {d}
      BY <1>2 DEF ToSet
    <2> QED BY <2>1, <2>2
  <1> HIDE DEF ids
  <1>4. d \notin Members
    BY <1>1, MembersAreIds DEF Calm, OpenIn
  <1>5. expected' = Behind(ids)
    <2>1. \A i \in 1 .. Len(ids) : ids[i] \in Ids \ Members
      BY <1>2, <1>4
    <2>2. Those(ids, Ids \ Members) = ids
      BY <1>2, <2>1, ThoseAreAll
    <2>3. Append(expected, d) = expected \o ids
      BY <1>2, AppendIsConcat DEF Calm, ListKept, ids
    <2> QED BY <1>1, <2>2, <2>3 DEF Behind
  <1>6. /\ Ordered(entries') /\ ListKept(entries', expected')
        /\ IdSet(ToSet(entries')) = IdSet(ToSet(entries)) \cup {d}
    BY <1>1, <1>2, <1>3, <1>5, NewRowsAreAdded DEF ids
  <1>7. /\ operation' \in [Ids -> {"none", "pending", "failed", "committed", "discarded"}]
        /\ operation'[d] = "pending"
        /\ \A id \in Ids : id # d => operation'[id] = operation[id]
    BY <1>1, <1>2 DEF Calm, ScopeTypeOK
  <1>8. OpenIn(entries', operation')
    BY <1>6, <1>7, IdsAreRowsAndDrafts DEF Calm, OpenIn
  <1>9. \A r \in Rows : operation'[r] = operation[r]
    BY <1>7, IdsAreRowsAndDrafts
  <1> QED BY <1>1, <1>6, <1>7, <1>8, <1>9 DEF Calm, ScopeTypeOK, KeysCaptured

-----------------------------------------------------------------------------
(* Rows leave.                                                             *)
LEMMA LeaveKeeps ==
  ASSUME Calm, NEW ids, Leave(ids)
  PROVE  /\ Ordered(entries') /\ ListKept(entries', expected')
         /\ ToSet(entries') = {e \in ToSet(entries) : e.id \notin ids}
  <1> DEFINE append == {}
             left == {d \in ToSet(entries) : d.id \notin ids /\ d.id \notin IdSet(append)}
             S == Ids \ ids
  <1>1. entries' = Delta(append, ids) /\ expected' = Those(expected, S)
    BY DEF Leave
  <1>2. Proper(append) /\ Apart(left, append) /\ IdSet(append) = {}
    BY FS_EmptySet DEF Proper, Apart, IdSet
  <1>3. left = {e \in ToSet(entries) : e.id \notin ids}
    BY <1>2
  <1>4. left = {d \in ToSet(entries) : d.id \notin ids /\ d.id \notin IdSet(append)}
    OBVIOUS
  <1> HIDE DEF append, left
  <1>5. Ordered(entries') /\ ToSet(entries') = left \cup append
    BY <1>1, <1>2, <1>4, DeltaIsOrdered DEF Calm
  <1>6. ToSet(entries') = left
    BY <1>5 DEF append
  <1>7. ListKept(entries', Those(expected, S))
    <2>1. expected \in Seq(Ids) /\ ToSet(expected) \subseteq IdSet(ToSet(entries)) /\ KeptIn(entries, expected)
      BY DEF Calm, ListKept
    <2>2. ToSet(expected) \cap S \subseteq IdSet(ToSet(entries'))
      BY <1>3, <1>6, <2>1 DEF IdSet
    <2>3. \A e \in ToSet(entries') : e.id \in ToSet(expected) \cap S => e \in ToSet(entries)
      BY <1>3, <1>6
    <2> HIDE DEF S
    <2> QED BY <2>1, <2>2, <2>3, PartIsKept
  <1> QED BY <1>1, <1>3, <1>5, <1>6, <1>7

(* A failed operation is discarded.                                        *)
LEMMA DiscardKeeps ==
  ASSUME Calm, Discard
  PROVE  Calm'
  <1>1. PICK id \in Ids :
          /\ operation[id] = "failed"
          /\ Leave({id} \cap Drafts)
          /\ operation' = [operation EXCEPT ![id] = IF id \in Drafts THEN "discarded" ELSE "none"]
          /\ UNCHANGED <<tombstones, captured, spent, collided, refused>>
    BY DEF Discard
  <1>2. /\ Ordered(entries') /\ ListKept(entries', expected')
        /\ ToSet(entries') = {e \in ToSet(entries) : e.id \notin {id} \cap Drafts}
    BY <1>1, LeaveKeeps
  <1>3. /\ operation' \in [Ids -> {"none", "pending", "failed", "committed", "discarded"}]
        /\ operation'[id] = IF id \in Drafts THEN "discarded" ELSE "none"
        /\ \A a \in Ids : a # id => operation'[a] = operation[a]
    BY <1>1 DEF Calm, ScopeTypeOK
  <1>4. OpenIn(entries', operation')
    <2> SUFFICES ASSUME NEW d \in Drafts
                 PROVE  d \in IdSet(ToSet(entries')) <=> operation'[d] \in {"pending", "failed"}
      BY DEF OpenIn
    <2>1. CASE d = id
      BY <1>2, <1>3, <2>1 DEF IdSet
    <2>2. CASE d # id
      <3>1. operation'[d] = operation[d]
        BY <1>3, <2>2, IdsAreRowsAndDrafts
      <3>2. d \in IdSet(ToSet(entries')) <=> d \in IdSet(ToSet(entries))
        BY <1>2, <2>2 DEF IdSet
      <3> QED BY <3>1, <3>2 DEF Calm, OpenIn
    <2> QED BY <2>1, <2>2
  <1>5. \A r \in Rows : operation'[r] = "pending" => operation[r] = "pending"
    BY <1>3, IdsAreRowsAndDrafts
  <1> QED BY <1>1, <1>2, <1>3, <1>4, <1>5 DEF Calm, ScopeTypeOK, KeysCaptured

(* A deletion by another client.                                           *)
LEMMA DepartKeeps ==
  ASSUME Calm, Depart
  PROVE  Calm'
  <1>1. PICK r \in Rows \cap Members :
          Leave({r}) /\ UNCHANGED <<operation, captured, collided, refused>>
    BY DEF Depart
  <1>2. /\ Ordered(entries') /\ ListKept(entries', expected')
        /\ ToSet(entries') = {e \in ToSet(entries) : e.id \notin {r}}
    BY <1>1, LeaveKeeps
  <1>3. OpenIn(entries', operation)
    <2> SUFFICES ASSUME NEW d \in Drafts
                 PROVE  d \in IdSet(ToSet(entries')) <=> operation[d] \in {"pending", "failed"}
      BY DEF OpenIn
    <2>1. d # r
      BY IdsAreRowsAndDrafts
    <2>2. d \in IdSet(ToSet(entries')) <=> d \in IdSet(ToSet(entries))
      BY <1>2, <2>1 DEF IdSet
    <2> QED BY <2>2 DEF Calm, OpenIn
  <1> QED BY <1>1, <1>2, <1>3 DEF Calm, ScopeTypeOK, KeysCaptured

(* A member is found by its id.                                            *)
LEMMA KeyOfMember ==
  ASSUME Ordered(entries), NEW e \in ToSet(entries)
  PROVE  KeyOf(e.id) = e.orderKey
  <1>1. Proper(ToSet(entries))
    BY OrderedIsValid
  <1>2. \A d \in ToSet(entries) : d.id = e.id => d = e
    BY <1>1 DEF Proper
  <1> QED BY <1>2 DEF KeyOf

(* An optimistic destroy: the key it notes is one.                         *)
LEMMA DestroyKeeps ==
  ASSUME Calm, Destroy
  PROVE  Calm'
  <1>1. PICK r \in Rows \cap Members :
          /\ Leave({r})
          /\ captured' = [captured EXCEPT ![r] = KeyOf(r)]
          /\ operation' = [operation EXCEPT ![r] = "pending"]
          /\ UNCHANGED <<collided, refused>>
    BY DEF Destroy
  <1>2. /\ Ordered(entries') /\ ListKept(entries', expected')
        /\ ToSet(entries') = {e \in ToSet(entries) : e.id \notin {r}}
    BY <1>1, LeaveKeeps
  <1>3. KeyOf(r) \in Keys
    <2>1. r \in IdSet(ToSet(entries)) /\ Ordered(entries)
      BY MembersAreIds DEF Calm
    <2>2. PICK e \in ToSet(entries) : e.id = r
      BY <2>1 DEF IdSet
    <2> QED BY <2>1, <2>2, KeyOfMember, MembersAreEntries
  <1>4. /\ operation' \in [Ids -> {"none", "pending", "failed", "committed", "discarded"}]
        /\ \A id \in Ids : id # r => operation'[id] = operation[id]
    BY <1>1, IdsAreRowsAndDrafts DEF Calm, ScopeTypeOK
  <1>5. /\ captured' \in [Rows -> Keys \cup {NoBound}] /\ captured'[r] = KeyOf(r)
        /\ \A q \in Rows : q # r => captured'[q] = captured[q]
    BY <1>1, <1>3 DEF Calm, ScopeTypeOK
  <1>6. OpenIn(entries', operation')
    <2> SUFFICES ASSUME NEW d \in Drafts
                 PROVE  d \in IdSet(ToSet(entries')) <=> operation'[d] \in {"pending", "failed"}
      BY DEF OpenIn
    <2>1. d # r /\ d \in Ids
      BY IdsAreRowsAndDrafts
    <2>2. d \in IdSet(ToSet(entries')) <=> d \in IdSet(ToSet(entries))
      BY <1>2, <2>1 DEF IdSet
    <2> QED BY <1>4, <2>1, <2>2 DEF Calm, OpenIn
  <1>7. \A q \in Rows : operation'[q] = "pending" => captured'[q] \in Keys
    <2> SUFFICES ASSUME NEW q \in Rows, operation'[q] = "pending" PROVE captured'[q] \in Keys
      OBVIOUS
    <2>1. CASE q = r
      BY <1>3, <1>5, <2>1
    <2>2. CASE q # r
      <3>1. operation[q] = "pending"
        BY <1>4, <2>2, IdsAreRowsAndDrafts
      <3> QED BY <1>5, <2>2, <3>1 DEF Calm, KeysCaptured
    <2> QED BY <2>1, <2>2
  <1> QED BY <1>1, <1>2, <1>4, <1>5, <1>6, <1>7 DEF Calm, ScopeTypeOK, KeysCaptured

-----------------------------------------------------------------------------
(* The steps that change operations only.                                  *)
LEMMA DraftFails ==
  ASSUME Calm, NEW d \in Drafts, operation[d] \in {"pending", "failed"},
         NEW s \in {"pending", "failed"}, operation' = [operation EXCEPT ![d] = s],
         UNCHANGED <<entries, captured, expected, refused>>
  PROVE  Calm'
  <1>1. d \in Ids
    BY IdsAreRowsAndDrafts
  <1>2. /\ operation' \in [Ids -> {"none", "pending", "failed", "committed", "discarded"}]
        /\ operation'[d] = s
        /\ \A id \in Ids : id # d => operation'[id] = operation[id]
    BY <1>1 DEF Calm, ScopeTypeOK
  <1>3. OpenIn(entries, operation')
    BY <1>2, IdsAreRowsAndDrafts DEF Calm, OpenIn
  <1>4. \A r \in Rows : operation'[r] = operation[r]
    BY <1>2, IdsAreRowsAndDrafts
  <1> QED BY <1>2, <1>3, <1>4 DEF Calm, ScopeTypeOK, KeysCaptured

(* An insert fails.                                                        *)
LEMMA InsertFailsKeeps == ASSUME Calm, InsertFails PROVE Calm'
  <1>1. PICK d \in Pending \cap Drafts :
          /\ operation' = [operation EXCEPT ![d] = "failed"]
          /\ UNCHANGED <<entries, tombstones, captured, expected, collided, refused>>
    BY DEF InsertFails
  <1>2. d \in Drafts /\ operation[d] = "pending"
    BY DEF Pending
  <1> QED BY <1>1, <1>2, DraftFails

(* A failed insert is sent again.                                          *)
LEMMA RetryKeeps == ASSUME Calm, Retry PROVE Calm'
  <1>1. PICK d \in Drafts :
          /\ operation[d] = "failed"
          /\ operation' = [operation EXCEPT ![d] = "pending"]
          /\ UNCHANGED <<entries, tombstones, captured, expected, collided, refused>>
    BY DEF Retry
  <1> QED BY <1>1, DraftFails

(* A destroy succeeds.                                                     *)
LEMMA DestroyConfirmedKeeps == ASSUME Calm, DestroyConfirmed PROVE Calm'
  <1>1. PICK r \in Pending \cap Rows :
          /\ operation' = [operation EXCEPT ![r] = "none"]
          /\ captured' = [captured EXCEPT ![r] = NoBound]
          /\ UNCHANGED <<entries, tombstones, spent, expected, collided, refused>>
    BY DEF DestroyConfirmed
  <1>2. /\ operation' \in [Ids -> {"none", "pending", "failed", "committed", "discarded"}]
        /\ operation'[r] = "none"
        /\ \A id \in Ids : id # r => operation'[id] = operation[id]
    BY <1>1, IdsAreRowsAndDrafts DEF Calm, ScopeTypeOK
  <1>3. /\ captured' \in [Rows -> Keys \cup {NoBound}]
        /\ \A q \in Rows : q # r => captured'[q] = captured[q]
    BY <1>1 DEF Calm, ScopeTypeOK
  <1>4. OpenIn(entries, operation')
    <2>1. \A d \in Drafts : d # r /\ d \in Ids
      BY IdsAreRowsAndDrafts
    <2> QED BY <1>2, <2>1 DEF Calm, OpenIn
  <1>5. \A q \in Rows : operation'[q] = "pending" => captured'[q] \in Keys
    <2> SUFFICES ASSUME NEW q \in Rows, operation'[q] = "pending" PROVE captured'[q] \in Keys
      OBVIOUS
    <2>1. q # r
      BY <1>2
    <2>2. operation[q] = "pending" /\ captured'[q] = captured[q]
      BY <1>2, <1>3, <2>1, IdsAreRowsAndDrafts
    <2> QED BY <2>2 DEF Calm, KeysCaptured
  <1> QED BY <1>1, <1>2, <1>3, <1>4, <1>5 DEF Calm, ScopeTypeOK, KeysCaptured

-----------------------------------------------------------------------------
(* A server row takes the place of its draft.                              *)
SwappedFor(value, d, f) ==
    ToSet(value) = {c \in ToSet(entries) : c.id # d /\ c.id # f.id} \cup {f}

Renamed(order, others, d, r) ==
    /\ order \in Seq(Ids) /\ Len(order) = Len(others)
    /\ \A i \in 1 .. Len(others) : order[i] = IF others[i] = d THEN r ELSE others[i]

(* The row is alone at the key of the draft, which is gone.                *)
LEMMA SwapIsOrdered ==
  ASSUME Ordered(entries), NEW d \in Ids, NEW e \in ToSet(entries), e.id = d,
         NEW f \in Entries, f.id # d, f.orderKey = e.orderKey
  PROVE  Ordered(Delta({f}, {d})) /\ SwappedFor(Delta({f}, {d}), d, f)
  <1> DEFINE append == {f}
             gone == {d}
             left == {c \in ToSet(entries) : c.id \notin gone /\ c.id \notin IdSet(append)}
  <1>1. Proper(append) /\ IdSet(append) = {f.id}
    BY FS_Singleton DEF Proper, IdSet
  <1>2. left = {c \in ToSet(entries) : c.id # d /\ c.id # f.id}
    BY <1>1
  <1>3. Proper(ToSet(entries))
    BY OrderedIsValid
  <1>4. Apart(left, append)
    <2> SUFFICES ASSUME NEW c \in ToSet(entries), c.id # d, c.id # f.id
                 PROVE  c.orderKey # f.orderKey
      BY <1>2 DEF Apart
    <2> QED BY <1>3 DEF Proper
  <1> HIDE DEF append, gone
  <1>5. Ordered(Delta(append, gone)) /\ ToSet(Delta(append, gone)) = left \cup append
    BY <1>1, <1>4, DeltaIsOrdered
  <1> QED BY <1>2, <1>5 DEF SwappedFor, append, gone

(* The members after the swap.                                             *)
LEMMA SwapKeepsIds ==
  ASSUME NEW value, NEW d, NEW e \in ToSet(entries), e.id = d, NEW f, f.id # d,
         SwappedFor(value, d, f)
  PROVE  IdSet(ToSet(value)) = (IdSet(ToSet(entries)) \ {d}) \cup {f.id}
  <1>1. ASSUME NEW a \in IdSet(ToSet(value))
        PROVE  a \in (IdSet(ToSet(entries)) \ {d}) \cup {f.id}
    <2>1. PICK c \in ToSet(value) : c.id = a
      BY DEF IdSet
    <2>2. c = f \/ (c \in ToSet(entries) /\ c.id # d)
      BY DEF SwappedFor
    <2> QED BY <2>1, <2>2 DEF IdSet
  <1>2. ASSUME NEW a \in IdSet(ToSet(entries)), a # d, a # f.id PROVE a \in IdSet(ToSet(value))
    <2>1. PICK c \in ToSet(entries) : c.id = a
      BY DEF IdSet
    <2>2. c \in ToSet(value)
      BY <1>2, <2>1 DEF SwappedFor
    <2> QED BY <2>1, <2>2 DEF IdSet
  <1>3. f.id \in IdSet(ToSet(value))
    BY DEF SwappedFor, IdSet
  <1> QED BY <1>1, <1>2, <1>3

(* The row stands in the order where the draft stood.                      *)
LEMMA SwapKeepsOrder ==
  ASSUME NEW value, NEW d \in Ids, NEW e \in ToSet(entries), e.id = d,
         NEW f, f.id # d, f.orderKey = e.orderKey, SwappedFor(value, d, f),
         NEW others \in Seq(Ids), ListKept(entries, others), f.id \notin ToSet(others),
         NEW order, Renamed(order, others, d, f.id)
  PROVE  ListKept(value, order)
  <1>1. /\ Len(others) \in Nat
        /\ \A i \in 1 .. Len(others) : others[i] \in Ids /\ others[i] \in ToSet(others)
    BY ToSetOfSeq
  <1>2. /\ order \in Seq(Ids) /\ Len(order) = Len(others)
        /\ \A i \in 1 .. Len(others) : order[i] = IF others[i] = d THEN f.id ELSE others[i]
    BY DEF Renamed
  <1>3. \A a \in ToSet(order) : \E i \in 1 .. Len(others) : order[i] = a
    BY <1>2, ToSetOfSeq
  <1>4. ToSet(order) \subseteq IdSet(ToSet(value))
    <2> SUFFICES ASSUME NEW a \in ToSet(order) PROVE a \in IdSet(ToSet(value))
      OBVIOUS
    <2>1. PICK i \in 1 .. Len(others) : order[i] = a
      BY <1>3
    <2>2. others[i] \in IdSet(ToSet(entries))
      BY <1>1 DEF ListKept
    <2>3. IdSet(ToSet(value)) = (IdSet(ToSet(entries)) \ {d}) \cup {f.id}
      BY SwapKeepsIds
    <2>4. order[i] = IF others[i] = d THEN f.id ELSE others[i]
      BY <1>2
    <2> QED BY <2>1, <2>2, <2>3, <2>4
  <1>5. ASSUME NEW k \in 1 .. Len(others), NEW z \in ToSet(value), z.id = order[k]
        PROVE  \E w \in ToSet(entries) : w.id = others[k] /\ w.orderKey = z.orderKey
    <2>1. others[k] # f.id /\ order[k] = IF others[k] = d THEN f.id ELSE others[k]
      BY <1>1, <1>2
    <2>2. z = f \/ (z \in ToSet(entries) /\ z.id # d /\ z.id # f.id)
      BY DEF SwappedFor
    <2>3. CASE others[k] = d
      <3>1. z = f
        BY <1>5, <2>1, <2>2, <2>3
      <3> QED BY <2>3, <3>1
    <2>4. CASE others[k] # d
      <3>1. z.id = others[k] /\ z \in ToSet(entries)
        BY <1>5, <2>1, <2>2, <2>4
      <3> QED BY <3>1
    <2> QED BY <2>3, <2>4
  <1>6. ASSUME NEW i \in 1 .. Len(others), NEW j \in 1 .. Len(others), i < j
        PROVE  Follows(value, order[i], order[j])
    <2> SUFFICES ASSUME NEW x \in ToSet(value), NEW y \in ToSet(value),
                        x.id = order[i], y.id = order[j]
                 PROVE  Precedes(x.orderKey, y.orderKey)
      BY DEF Follows
    <2>1. PICK u \in ToSet(entries) : u.id = others[i] /\ u.orderKey = x.orderKey
      BY <1>5
    <2>2. PICK v \in ToSet(entries) : v.id = others[j] /\ v.orderKey = y.orderKey
      BY <1>5
    <2>3. Follows(entries, others[i], others[j])
      BY <1>6 DEF ListKept, KeptIn
    <2>4. Precedes(u.orderKey, v.orderKey)
      BY <2>1, <2>2, <2>3 DEF Follows
    <2> QED BY <2>1, <2>2, <2>4
  <1>7. KeptIn(value, order)
    BY <1>2, <1>6 DEF KeptIn
  <1> QED BY <1>2, <1>4, <1>7 DEF ListKept

SwapIsKept(value, order, d, r) ==
    /\ Ordered(value) /\ ListKept(value, order)
    /\ IdSet(ToSet(value)) = (IdSet(ToSet(entries)) \ {d}) \cup {r}

(* The swap as Confirm makes it, from what it notes as the order.          *)
LEMMA SwapKeeps ==
  ASSUME Calm, NEW d \in Drafts, NEW r \in Rows, NEW e \in ToSet(entries), e.id = d,
         NEW others, others = Those(expected, {id \in Ids : id # r})
  PROVE  SwapIsKept(Delta({Entry(r, e.orderKey)}, {d}),
                    [i \in 1 .. Len(others) |-> IF others[i] = d THEN r ELSE others[i]], d, r)
  <1> DEFINE f == Entry(r, e.orderKey)
             S == {id \in Ids : id # r}
             order == [i \in 1 .. Len(others) |-> IF others[i] = d THEN r ELSE others[i]]
             value == Delta({f}, {d})
  <1>1. Ordered(entries) /\ e.orderKey \in Keys /\ d # r /\ r \in Ids /\ d \in Ids
    BY MembersAreEntries, IdsAreRowsAndDrafts DEF Calm
  <1>2. f.id = r /\ f.orderKey = e.orderKey /\ f \in Entries
    BY <1>1 DEF Entry, Entries
  <1>3. expected \in Seq(Ids) /\ ListKept(entries, expected)
    BY DEF Calm, ListKept
  <1>4. others \in Seq(Ids) /\ ToSet(others) = ToSet(expected) \cap S
    BY <1>3, ThoseInSet
  <1>5. ListKept(entries, others) /\ r \notin ToSet(others)
    <2>1. KeptIn(entries, others)
      BY <1>3, KeptThose DEF ListKept
    <2> QED BY <1>3, <1>4, <2>1 DEF ListKept
  <1>6. Renamed(order, others, d, r)
    <2>1. Len(others) \in Nat /\ \A i \in 1 .. Len(others) : others[i] \in Ids
      BY <1>4, ToSetOfSeq
    <2>2. order \in [1 .. Len(others) -> Ids]
      BY <1>1, <2>1
    <2>3. order \in Seq(Ids) /\ Len(order) = Len(others)
      BY <2>1, <2>2
    <2> QED BY <2>3 DEF Renamed
  <1> HIDE DEF f, order, S
  <1>7. Ordered(value) /\ SwappedFor(value, d, f)
    BY <1>1, <1>2, SwapIsOrdered
  <1> HIDE DEF value
  <1>8. IdSet(ToSet(value)) = (IdSet(ToSet(entries)) \ {d}) \cup {r}
    BY <1>1, <1>2, <1>7, SwapKeepsIds
  <1>9. ListKept(value, order)
    BY <1>1, <1>2, <1>4, <1>5, <1>6, <1>7, SwapKeepsOrder
  <1> QED BY <1>7, <1>8, <1>9 DEF SwapIsKept, value, order, f

(* The draft is gone, and its server row has been deleted.                 *)
LEMMA DropKeeps ==
  ASSUME Calm, NEW d \in Drafts, NEW T, NEW others, others = Those(expected, T),
         NEW order, order = Those(others, Ids \ {d}),
         NEW value, value = Delta({}, {d})
  PROVE  /\ Ordered(value) /\ ListKept(value, order)
         /\ IdSet(ToSet(value)) = IdSet(ToSet(entries)) \ {d}
  <1> DEFINE append == {}
             gone == {d}
             left == {c \in ToSet(entries) : c.id \notin gone /\ c.id \notin IdSet(append)}
             S == Ids \ {d}
  <1>1. Proper(append) /\ Apart(left, append) /\ IdSet(append) = {}
    BY FS_EmptySet DEF Proper, Apart, IdSet
  <1>2. left = {c \in ToSet(entries) : c.id # d}
    BY <1>1
  <1>3. Ordered(value) /\ ToSet(value) = left
    <2>1. value = Delta(append, gone) /\ append = {} /\ Ordered(entries)
      BY DEF Calm
    <2> HIDE DEF append, gone
    <2>2. Ordered(Delta(append, gone)) /\ ToSet(Delta(append, gone)) = left \cup append
      BY <1>1, <2>1, DeltaIsOrdered
    <2> HIDE DEF left
    <2> QED BY <2>1, <2>2
  <1> HIDE DEF left
  <1>4. expected \in Seq(Ids) /\ ToSet(expected) \subseteq IdSet(ToSet(entries)) /\ KeptIn(entries, expected)
    BY DEF Calm, ListKept
  <1>5. /\ others \in Seq(Ids) /\ KeptIn(entries, others)
        /\ ToSet(others) \subseteq IdSet(ToSet(entries))
    <2>1. others \in Seq(Ids) /\ ToSet(others) = ToSet(expected) \cap T
      BY <1>4, ThoseInSet
    <2>2. KeptIn(entries, others)
      BY <1>4, KeptThose
    <2> QED BY <1>4, <2>1, <2>2
  <1>6. ListKept(value, order)
    <2>1. ToSet(others) \cap S \subseteq IdSet(ToSet(value))
      BY <1>2, <1>3, <1>5 DEF IdSet
    <2>2. \A c \in ToSet(value) : c.id \in ToSet(others) \cap S => c \in ToSet(entries)
      BY <1>2, <1>3
    <2>3. order = Those(others, S)
      OBVIOUS
    <2> HIDE DEF S
    <2> QED BY <1>5, <2>1, <2>2, <2>3, PartIsKept
  <1> QED BY <1>2, <1>3, <1>6 DEF IdSet

(* An insert is confirmed, by its response or by an event.                 *)
LEMMA ConfirmKeeps ==
  ASSUME Calm, Confirm
  PROVE  Calm'
  <1>1. PICK d \in Open \cap Drafts :
          LET r == ServerRow[d]
              swap == IF r \in tombstones \/ d \notin Members THEN {} ELSE {Entry(r, KeyOf(d))}
              join == IF d \in Members \/ r \in tombstones THEN <<>> ELSE Joined(<<r>>)
              others == Those(expected, {id \in Ids : id # r \/ (swap = {} /\ r \in Members)})
          IN  /\ entries' = Delta(swap \cup ToSet(join), {d})
              /\ operation' = [operation EXCEPT ![d] = "committed"]
              /\ expected' = IF swap = {}
                             THEN Those(others, Ids \ {d}) \o IdsOf(join)
                             ELSE [i \in 1 .. Len(others) |-> IF others[i] = d THEN r ELSE others[i]]
              /\ UNCHANGED <<tombstones, captured, spent, collided, refused>>
    BY DEF Confirm
  <1> DEFINE r == ServerRow[d]
  <1>2. r \in Rows /\ d \in Drafts /\ d \in Ids /\ d # r
    BY ScopeAssumption, IdsAreRowsAndDrafts
  <1>3. d \in IdSet(ToSet(entries)) /\ d \in Members
    <2>1. operation[d] \in {"pending", "failed"}
      BY DEF Open
    <2> QED BY <2>1, MembersAreIds DEF Calm, OpenIn
  <1>4. PICK e \in ToSet(entries) : e.id = d
    BY <1>3 DEF IdSet
  <1>5. KeyOf(d) = e.orderKey
    BY <1>4, KeyOfMember DEF Calm
  <1>6. /\ operation' = [operation EXCEPT ![d] = "committed"]
        /\ UNCHANGED <<captured, refused>>
    BY <1>1
  <1>7. /\ Ordered(entries') /\ ListKept(entries', expected')
        /\ IdSet(ToSet(entries')) \in {IdSet(ToSet(entries)) \ {d}, (IdSet(ToSet(entries)) \ {d}) \cup {r}}
    <2> HIDE DEF r
    <2>1. CASE r \in tombstones
      <3> DEFINE T == {id \in Ids : id # r \/ ({} = {} /\ r \in Members)}
                 append == {}
                 others == Those(expected, T)
                 order == Those(others, Ids \ {d})
      <3>1. /\ entries' = Delta(append \cup ToSet(<<>>), {d})
            /\ expected' = order \o IdsOf(<<>>)
        BY <1>1, <2>1 DEF r
      <3>2. append \cup ToSet(<<>>) = append
        BY DEF ToSet
      <3>3. IdsOf(<<>>) = <<>>
        BY DEF IdsOf
      <3>4. entries' = Delta({}, {d})
        BY <3>1, <3>2
      <3> HIDE DEF append, others, order, T
      <3>5. others = Those(expected, T) /\ order = Those(others, Ids \ {d})
        BY DEF others, order
      <3>6. /\ Ordered(entries') /\ ListKept(entries', order)
            /\ IdSet(ToSet(entries')) = IdSet(ToSet(entries)) \ {d}
        BY <1>2, <3>4, <3>5, DropKeeps
      <3>7. expected' = order
        <4>1. order \in Seq(Ids)
          BY <3>6 DEF ListKept
        <4> QED BY <3>1, <3>3, <4>1, ConcatEmptySeq
      <3> QED BY <3>6, <3>7
    <2>2. CASE r \notin tombstones
      <3> DEFINE append == {Entry(r, KeyOf(d))}
                 T == {id \in Ids : id # r \/ (append = {} /\ r \in Members)}
                 others == Those(expected, T)
                 order == [i \in 1 .. Len(others) |-> IF others[i] = d THEN r ELSE others[i]]
      <3>1. append # {}
        OBVIOUS
      <3>2. /\ entries' = Delta(append \cup ToSet(<<>>), {d})
            /\ expected' = order
        BY <1>1, <1>3, <2>2, <3>1 DEF r
      <3>3. append \cup ToSet(<<>>) = append
        BY DEF ToSet
      <3>4. T = {id \in Ids : id # r}
        BY <3>1
      <3>5. others = Those(expected, {id \in Ids : id # r})
        BY <3>4
      <3>6. entries' = Delta({Entry(r, e.orderKey)}, {d})
        BY <1>5, <3>2, <3>3
      <3> HIDE DEF append, T, others
      <3>7. SwapIsKept(Delta({Entry(r, e.orderKey)}, {d}), order, d, r)
        BY <1>2, <1>4, <3>5, SwapKeeps
      <3> QED BY <3>2, <3>6, <3>7 DEF SwapIsKept
    <2> QED BY <2>1, <2>2
  <1> HIDE DEF r
  <1>8. /\ operation' \in [Ids -> {"none", "pending", "failed", "committed", "discarded"}]
        /\ operation'[d] = "committed"
        /\ \A id \in Ids : id # d => operation'[id] = operation[id]
    BY <1>2, <1>6 DEF Calm, ScopeTypeOK
  <1>9. OpenIn(entries', operation')
    <2> SUFFICES ASSUME NEW c \in Drafts
                 PROVE  c \in IdSet(ToSet(entries')) <=> operation'[c] \in {"pending", "failed"}
      BY DEF OpenIn
    <2>1. c \in Ids /\ c # r
      BY <1>2, IdsAreRowsAndDrafts
    <2>2. CASE c = d
      BY <1>2, <1>7, <1>8, <2>2
    <2>3. CASE c # d
      <3>1. c \in IdSet(ToSet(entries')) <=> c \in IdSet(ToSet(entries))
        BY <1>7, <2>1, <2>3
      <3> QED BY <1>8, <2>1, <2>3, <3>1 DEF Calm, OpenIn
    <2> QED BY <2>2, <2>3
  <1>10. \A q \in Rows : operation'[q] = operation[q]
    BY <1>2, <1>8, IdsAreRowsAndDrafts
  <1> QED BY <1>6, <1>7, <1>8, <1>9, <1>10 DEF Calm, ScopeTypeOK, KeysCaptured

-----------------------------------------------------------------------------
(* Destroyed rows are back at the keys they had, unless these are taken.   *)
RollBackIsKept(rows) ==
    /\ Ordered(entries')
    /\ \A e \in ToSet(entries') : e.id \notin rows => e \in ToSet(entries)
    /\ IdSet(ToSet(entries')) = IdSet(ToSet(entries)) \cup rows
    /\ captured' \in [Rows -> Keys \cup {NoBound}]
    /\ \A r \in Rows \ rows : captured'[r] = captured[r]

RestoredRows(rows) == {Entry(r, captured[r]) : r \in rows}

(* Rows with a destroy that is pending have keys of their own to go back   *)
(* to.                                                                     *)
LEMMA RestoredAreProper ==
  ASSUME Calm, NEW rows, rows \subseteq Pending \cap Rows, ~ Collides(entries, rows)
  PROVE  /\ Proper(RestoredRows(rows)) /\ IdSet(RestoredRows(rows)) = rows
         /\ \A e \in RestoredRows(rows) : e.id \in rows /\ e.orderKey = captured[e.id]
  <1>1. ASSUME NEW r \in rows
        PROVE  r \in Ids /\ r \in Rows /\ captured[r] \in Keys
    <2>1. r \in Rows /\ operation[r] = "pending"
      BY DEF Pending
    <2> QED BY <2>1, IdsAreRowsAndDrafts DEF Calm, KeysCaptured
  <1>2. ASSUME NEW e \in RestoredRows(rows)
        PROVE  e \in Entries /\ e.id \in rows /\ e.orderKey = captured[e.id]
    <2>1. PICK r \in rows : e = Entry(r, captured[r])
      BY DEF RestoredRows
    <2>2. e.id = r /\ e.orderKey = captured[r]
      BY <2>1 DEF Entry
    <2>3. e \in Entries
      BY <1>1, <2>1 DEF Entry, Entries
    <2> QED BY <2>2, <2>3
  <1>3. IsFiniteSet(RestoredRows(rows))
    <2>1. IsFiniteSet(Ids) /\ rows \subseteq Ids
      BY <1>1, ScopeAssumption
    <2>2. IsFiniteSet(rows)
      BY <2>1, FS_Subset
    <2> DEFINE f == [r \in rows |-> Entry(r, captured[r])]
    <2>3. RestoredRows(rows) = {f[r] : r \in rows}
      BY DEF RestoredRows
    <2> HIDE DEF f
    <2>4. IsFiniteSet({f[r] : r \in rows})
      BY <2>2, ImageIsFinite
    <2> QED BY <2>3, <2>4
  <1>4. ASSUME NEW d \in RestoredRows(rows), NEW e \in RestoredRows(rows), d # e
        PROVE  d.id # e.id /\ d.orderKey # e.orderKey
    <2>1. PICK q \in rows : d = Entry(q, captured[q])
      BY DEF RestoredRows
    <2>2. PICK r \in rows : e = Entry(r, captured[r])
      BY DEF RestoredRows
    <2>3. q # r
      BY <1>4, <2>1, <2>2
    <2>4. captured[q] # captured[r]
      BY <2>3 DEF Collides
    <2> QED BY <2>1, <2>2, <2>3, <2>4 DEF Entry
  <1>5. ASSUME NEW r \in rows PROVE r \in IdSet(RestoredRows(rows))
    <2>1. Entry(r, captured[r]) \in RestoredRows(rows) /\ Entry(r, captured[r]).id = r
      BY DEF RestoredRows, Entry
    <2> QED BY <2>1 DEF IdSet
  <1>6. \A r \in IdSet(RestoredRows(rows)) : r \in rows
    BY <1>2 DEF IdSet
  <1>7. IdSet(RestoredRows(rows)) = rows
    BY <1>5, <1>6
  <1> QED BY <1>2, <1>3, <1>4, <1>7 DEF Proper

(* planRestore without a collision.                                        *)
LEMMA RollBackKeeps ==
  ASSUME Calm, NEW rows, rows \subseteq Pending \cap Rows,
         RollBack(entries, rows), ~ collided'
  PROVE  RollBackIsKept(rows)
  <1> DEFINE incoming == RestoredRows(rows)
             left == {d \in ToSet(entries) : d.id \notin IdSet(incoming)}
  <1>1. /\ entries' = Merged(entries, incoming)
        /\ captured' = [r \in Rows |-> IF r \in rows THEN NoBound ELSE captured[r]]
        /\ ~ Collides(entries, rows)
    BY DEF RollBack, Restored, RestoredRows
  <1>2. /\ Proper(incoming) /\ IdSet(incoming) = rows
        /\ \A e \in incoming : e.id \in rows /\ e.orderKey = captured[e.id]
    BY <1>1, RestoredAreProper
  <1> HIDE DEF incoming
  <1>3. left = {d \in ToSet(entries) : d.id \notin rows}
    BY <1>2
  <1>4. Apart(left, incoming)
    <2> SUFFICES ASSUME NEW d \in ToSet(entries), d.id \notin rows, NEW e \in incoming
                 PROVE  d.id # e.id /\ d.orderKey # e.orderKey
      BY <1>3 DEF Apart
    <2>1. e.id \in rows /\ e.orderKey = captured[e.id]
      BY <1>2
    <2>2. d.orderKey # captured[e.id]
      BY <1>1, <2>1 DEF Collides
    <2> QED BY <2>1, <2>2
  <1>5. Ordered(Merged(entries, incoming)) /\ ToSet(Merged(entries, incoming)) = left \cup incoming
    <2>1. Ordered(entries)
      BY DEF Calm
    <2> QED BY <1>2, <1>4, <2>1, MergedIsOrdered
  <1>6. Ordered(entries') /\ ToSet(entries') = left \cup incoming
    BY <1>1, <1>5
  <1> HIDE DEF left
  <1>7. IdSet(ToSet(entries')) = IdSet(ToSet(entries)) \cup rows
    <2>1. ASSUME NEW a \in IdSet(ToSet(entries')) PROVE a \in IdSet(ToSet(entries)) \cup rows
      <3>1. PICK c \in ToSet(entries') : c.id = a
        BY DEF IdSet
      <3>2. c \in ToSet(entries) \/ c \in incoming
        BY <1>3, <1>6, <3>1
      <3> QED BY <1>2, <3>1, <3>2 DEF IdSet
    <2>2. ASSUME NEW a \in IdSet(ToSet(entries)), a \notin rows PROVE a \in IdSet(ToSet(entries'))
      <3>1. PICK c \in ToSet(entries) : c.id = a
        BY DEF IdSet
      <3>2. c \in ToSet(entries')
        BY <1>3, <1>6, <2>2, <3>1
      <3> QED BY <3>1, <3>2 DEF IdSet
    <2>3. ASSUME NEW a \in rows PROVE a \in IdSet(ToSet(entries'))
      <3>1. PICK c \in incoming : c.id = a
        BY <1>2 DEF IdSet
      <3>2. c \in ToSet(entries')
        BY <1>6
      <3> QED BY <3>1, <3>2 DEF IdSet
    <2> QED BY <2>1, <2>2, <2>3
  <1>8. \A e \in ToSet(entries') : e.id \notin rows => e \in ToSet(entries)
    BY <1>2, <1>3, <1>6
  <1>9. /\ captured' \in [Rows -> Keys \cup {NoBound}]
        /\ \A r \in Rows \ rows : captured'[r] = captured[r]
    BY <1>1 DEF Calm, ScopeTypeOK
  <1> QED BY <1>6, <1>7, <1>8, <1>9 DEF RollBackIsKept

(* The rows that were not destroyed stand as before.                       *)
LEMMA RestKeepsOrder ==
  ASSUME Calm, NEW rows, RollBackIsKept(rows), NEW S, S \cap rows = {}
  PROVE  ListKept(entries', Those(expected, S))
  <1>1. /\ expected \in Seq(Ids) /\ KeptIn(entries, expected)
        /\ ToSet(expected) \subseteq IdSet(ToSet(entries))
    BY DEF Calm, ListKept
  <1>2. ToSet(expected) \cap S \subseteq IdSet(ToSet(entries'))
    BY <1>1 DEF RollBackIsKept
  <1>3. \A e \in ToSet(entries') : e.id \in ToSet(expected) \cap S => e \in ToSet(entries)
    BY DEF RollBackIsKept
  <1> QED BY <1>1, <1>2, <1>3, PartIsKept

(* A destroy fails and its row is restored.                                *)
LEMMA DestroyFailsKeeps ==
  ASSUME Calm, DestroyFails, ~ collided'
  PROVE  Calm'
  <1>1. PICK r \in Pending \cap Rows :
          /\ RollBack(entries, {r})
          /\ operation' = [operation EXCEPT ![r] = "failed"]
          /\ expected' = Those(expected, Ids \ {r})
          /\ UNCHANGED refused
    BY DEF DestroyFails
  <1>2. r \in Rows /\ r \in Ids /\ r \notin Drafts
    BY IdsAreRowsAndDrafts
  <1>3. RollBackIsKept({r})
    <2> DEFINE rows == {r}
    <2>1. rows \subseteq Pending \cap Rows
      OBVIOUS
    <2>2. RollBack(entries, rows)
      BY <1>1
    <2> HIDE DEF rows
    <2>3. RollBackIsKept(rows)
      BY <2>1, <2>2, RollBackKeeps
    <2> QED BY <2>3 DEF rows
  <1>4. /\ Ordered(entries')
        /\ IdSet(ToSet(entries')) = IdSet(ToSet(entries)) \cup {r}
        /\ captured' \in [Rows -> Keys \cup {NoBound}]
        /\ \A q \in Rows \ {r} : captured'[q] = captured[q]
    BY <1>3 DEF RollBackIsKept
  <1>5. ListKept(entries', expected')
    <2> DEFINE rows == {r}
               S == Ids \ {r}
    <2>1. S \cap rows = {} /\ RollBackIsKept(rows)
      BY <1>3
    <2> HIDE DEF rows, S
    <2>2. ListKept(entries', Those(expected, S))
      BY <2>1, RestKeepsOrder
    <2> QED BY <1>1, <2>2 DEF S
  <1>6. /\ operation' \in [Ids -> {"none", "pending", "failed", "committed", "discarded"}]
        /\ operation'[r] = "failed"
        /\ \A id \in Ids : id # r => operation'[id] = operation[id]
    BY <1>1, <1>2 DEF Calm, ScopeTypeOK
  <1>7. OpenIn(entries', operation')
    <2> SUFFICES ASSUME NEW d \in Drafts
                 PROVE  d \in IdSet(ToSet(entries')) <=> operation'[d] \in {"pending", "failed"}
      BY DEF OpenIn
    <2>1. d # r /\ d \in Ids
      BY <1>2, IdsAreRowsAndDrafts
    <2>2. d \in IdSet(ToSet(entries')) <=> d \in IdSet(ToSet(entries))
      BY <1>4, <2>1
    <2> QED BY <1>6, <2>1, <2>2 DEF Calm, OpenIn
  <1>8. \A q \in Rows : operation'[q] = "pending" => captured'[q] \in Keys
    <2> SUFFICES ASSUME NEW q \in Rows, operation'[q] = "pending" PROVE captured'[q] \in Keys
      OBVIOUS
    <2>1. q # r
      BY <1>6
    <2>2. operation[q] = "pending" /\ captured'[q] = captured[q]
      BY <1>4, <1>6, <2>1, IdsAreRowsAndDrafts
    <2> QED BY <2>2 DEF Calm, KeysCaptured
  <1> QED BY <1>1, <1>4, <1>5, <1>6, <1>7, <1>8 DEF Calm, ScopeTypeOK, KeysCaptured

(* The next start reads the value, as it is valid, and ends what was       *)
(* pending.                                                                *)
LEMMA RestartKeeps ==
  ASSUME Calm, Restart, ~ collided'
  PROVE  Calm'
  <1> DEFINE destroyed == Pending \cap Rows
             operations == [id \in Ids |-> IF id \in Pending THEN "failed" ELSE operation[id]]
             T == ToSet(IdsOf(entries)) \ destroyed
  <1>1. Ordered(entries) /\ IsScopeIndexValue(entries)
    BY OrderedIsValid DEF Calm
  <1>2. /\ RollBack(entries, destroyed) /\ operation' = operations
        /\ expected' = Those(expected, T) /\ UNCHANGED refused
    BY <1>1 DEF Restart
  <1> HIDE DEF operations
  <1>3. destroyed \subseteq Pending \cap Rows
    OBVIOUS
  <1> HIDE DEF destroyed, T
  <1>4. RollBackIsKept(destroyed)
    BY <1>2, <1>3, RollBackKeeps
  <1>5. /\ Ordered(entries')
        /\ IdSet(ToSet(entries')) = IdSet(ToSet(entries)) \cup destroyed
        /\ captured' \in [Rows -> Keys \cup {NoBound}]
        /\ \A q \in Rows \ destroyed : captured'[q] = captured[q]
    BY <1>4 DEF RollBackIsKept
  <1>6. ListKept(entries', expected')
    <2>1. T \cap destroyed = {}
      BY DEF T
    <2>2. ListKept(entries', Those(expected, T))
      BY <1>4, <2>1, RestKeepsOrder
    <2> QED BY <1>2, <2>2
  <1>7. /\ operation' \in [Ids -> {"none", "pending", "failed", "committed", "discarded"}]
        /\ \A id \in Ids : operation'[id] = IF id \in Pending THEN "failed" ELSE operation[id]
    BY <1>2 DEF Calm, ScopeTypeOK, operations
  <1>8. OpenIn(entries', operation')
    <2> SUFFICES ASSUME NEW d \in Drafts
                 PROVE  d \in IdSet(ToSet(entries')) <=> operation'[d] \in {"pending", "failed"}
      BY DEF OpenIn
    <2>1. d \notin Rows /\ d \in Ids
      BY IdsAreRowsAndDrafts
    <2>2. d \in IdSet(ToSet(entries')) <=> d \in IdSet(ToSet(entries))
      BY <1>3, <1>5, <2>1
    <2>3. operation'[d] \in {"pending", "failed"} <=> operation[d] \in {"pending", "failed"}
      BY <1>7, <2>1 DEF Pending
    <2> QED BY <2>2, <2>3 DEF Calm, OpenIn
  <1>9. \A q \in Rows : operation'[q] # "pending"
    BY <1>7, IdsAreRowsAndDrafts DEF Pending
  <1> QED BY <1>2, <1>5, <1>6, <1>7, <1>8, <1>9 DEF Calm, ScopeTypeOK, KeysCaptured

(* An empty scope.                                                         *)
LEMMA ScopeInitIsCalm == ScopeInit => Calm
  <1> SUFFICES ASSUME ScopeInit PROVE Calm
    OBVIOUS
  <1>1. Ordered(entries) /\ ToSet(entries) = {}
    BY DEF ScopeInit, Ordered, ToSet
  <1>2. ListKept(entries, expected)
    <2>1. expected = <<>> /\ expected \in Seq(Ids) /\ ToSet(expected) = {}
      BY DEF ScopeInit, ToSet
    <2>2. KeptIn(entries, expected)
      BY <2>1 DEF KeptIn
    <2> QED BY <2>1, <2>2 DEF ListKept
  <1>3. \A id \in Ids : operation[id] = "none"
    BY DEF ScopeInit
  <1>4. OpenIn(entries, operation)
    BY <1>1, <1>3, IdsAreRowsAndDrafts DEF OpenIn, IdSet
  <1>5. KeysCaptured
    BY <1>3, IdsAreRowsAndDrafts DEF KeysCaptured
  <1>6. ScopeTypeOK
    BY DEF ScopeInit, ScopeTypeOK
  <1>7. ~ refused
    BY DEF ScopeInit
  <1> QED BY <1>1, <1>2, <1>4, <1>5, <1>6, <1>7 DEF Calm

(* Every step that makes no collision.                                     *)
LEMMA ScopeNextIsCalm ==
  ASSUME Calm, Short(ToSet(entries)), ScopeNext, ~ collided'
  PROVE  Calm'
  <1>1. CASE LandComplete
    BY <1>1, LandCompleteKeeps
  <1>2. CASE LandFirstPage
    BY <1>2, LandFirstPageKeeps
  <1>3. CASE LandNextPage
    BY <1>3, LandNextPageKeeps
  <1>4. CASE Arrive
    BY <1>4, ArriveKeeps
  <1>5. CASE Depart
    BY <1>5, DepartKeeps
  <1>6. CASE Insert
    BY <1>6, InsertKeeps
  <1>7. CASE Confirm
    BY <1>7, ConfirmKeeps
  <1>8. CASE InsertFails
    BY <1>8, InsertFailsKeeps
  <1>9. CASE Retry
    BY <1>9, RetryKeeps
  <1>10. CASE Discard
    BY <1>10, DiscardKeeps
  <1>11. CASE Destroy
    BY <1>11, DestroyKeeps
  <1>12. CASE DestroyConfirmed
    BY <1>12, DestroyConfirmedKeeps
  <1>13. CASE DestroyFails
    BY <1>13, DestroyFailsKeeps
  <1>14. CASE Restart
    BY <1>14, RestartKeeps
  <1> QED BY <1>1, <1>2, <1>3, <1>4, <1>5, <1>6, <1>7, <1>8, <1>9, <1>10, <1>11, <1>12,
             <1>13, <1>14, Zenon DEF ScopeNext

(* A collision is never forgotten.                                         *)
LEMMA CollidedStays ==
  ASSUME collided, [ScopeNext]_scopeVars
  PROVE  collided'
  <1>1. CASE UNCHANGED scopeVars
    BY <1>1 DEF scopeVars
  <1>2. CASE LandComplete
    BY <1>2 DEF LandComplete, Land
  <1>3. CASE LandFirstPage
    BY <1>3 DEF LandFirstPage, Land
  <1>4. CASE LandNextPage
    BY <1>4 DEF LandNextPage, Land
  <1>5. CASE Arrive
    BY <1>5 DEF Arrive
  <1>6. CASE Depart
    BY <1>6 DEF Depart
  <1>7. CASE Insert
    BY <1>7 DEF Insert
  <1>8. CASE Confirm
    BY <1>8 DEF Confirm
  <1>9. CASE InsertFails
    BY <1>9 DEF InsertFails
  <1>10. CASE Retry
    BY <1>10 DEF Retry
  <1>11. CASE Discard
    BY <1>11 DEF Discard
  <1>12. CASE Destroy
    BY <1>12 DEF Destroy
  <1>13. CASE DestroyConfirmed
    BY <1>13 DEF DestroyConfirmed
  <1>14. CASE DestroyFails
    BY <1>14 DEF DestroyFails, RollBack
  <1>15. CASE Restart
    BY <1>15 DEF Restart, RollBack
  <1> QED BY <1>1, <1>2, <1>3, <1>4, <1>5, <1>6, <1>7, <1>8, <1>9, <1>10, <1>11, <1>12,
             <1>13, <1>14, <1>15, Zenon DEF ScopeNext

(* The invariant is inductive while keys are short.                        *)
LEMMA ScopeNextKeeps == ScopeIInv /\ KeysAreShort /\ [ScopeNext]_scopeVars => ScopeIInv'
  <1> SUFFICES ASSUME ScopeIInv, KeysAreShort, [ScopeNext]_scopeVars PROVE ScopeIInv'
    OBVIOUS
  <1>1. CASE collided
    BY <1>1, CollidedStays DEF ScopeIInv
  <1>2. CASE collided'
    BY <1>2 DEF ScopeIInv
  <1>3. CASE ~ collided /\ ~ collided' /\ ScopeNext
    <2>1. Calm'
      BY <1>3, ScopeNextIsCalm DEF ScopeIInv, KeysAreShort, Short
    <2> QED BY <2>1 DEF ScopeIInv
  <1>4. CASE ~ collided /\ UNCHANGED scopeVars
    <2>1. Calm'
      BY <1>4 DEF ScopeIInv, Calm, ScopeTypeOK, KeysCaptured, scopeVars
    <2> QED BY <2>1 DEF ScopeIInv
  <1> QED BY <1>1, <1>2, <1>3, <1>4, Zenon

(* What the invariant says of the value,                                   *)
LEMMA CalmIsReadable == Calm => IsScopeIndexValue(entries) /\ ~ refused
  BY OrderedIsValid DEF Calm

(* of the order,                                                           *)
LEMMA CalmIsInOrder == Calm => Those(IdsOf(entries), ToSet(expected)) = expected
  <1> SUFFICES ASSUME Calm PROVE Those(IdsOf(entries), ToSet(expected)) = expected
    OBVIOUS
  <1>1. /\ Ordered(entries) /\ expected \in Seq(Ids) /\ KeptIn(entries, expected)
        /\ ToSet(expected) \subseteq IdSet(ToSet(entries))
    BY DEF Calm, ListKept
  <1>2. entries \in Seq(Entries)
    BY <1>1 DEF Ordered
  <1>3. ToSet(IdsOf(entries)) = IdSet(ToSet(entries))
    BY <1>2, IdsAreOfMembers
  <1> QED BY <1>1, <1>3, KeptIsListed

(* and of drafts.                                                          *)
LEMMA CalmKeepsDrafts == Calm => Open \cap Drafts \subseteq Members
  <1> SUFFICES ASSUME Calm, NEW d \in Open \cap Drafts PROVE d \in Members
    OBVIOUS
  <1>1. Ordered(entries)
    BY DEF Calm
  <1>2. operation[d] \in {"pending", "failed"}
    BY DEF Open
  <1> QED BY <1>1, <1>2, MembersAreIds DEF Calm, OpenIn

(* ScopeIInv holds in every state, for all rows, drafts, pages, retentions *)
(* and bounds.                                                             *)
THEOREM ScopeInductiveInvariant == ScopeSpec /\ []KeysAreShort => []ScopeIInv
  <1>1. ScopeInit => ScopeIInv
    BY ScopeInitIsCalm DEF ScopeIInv
  <1> QED BY <1>1, ScopeNextKeeps, PTL DEF ScopeSpec

(* hydrate never drops the value of a scope and no landing is refused, for *)
(* every constant: unless a restored row met its key taken or a key        *)
(* outgrew a double.                                                       *)
THEOREM IndexStaysReadable == ScopeSpec /\ []KeysAreShort => []IndexIsReadable
  <1>1. ScopeIInv => IndexIsReadable
    BY CalmIsReadable DEF ScopeIInv, IndexIsReadable
  <1> QED BY <1>1, ScopeInductiveInvariant, PTL

(* The rows stand in the order of the server and of their arrival, under   *)
(* the same condition.                                                     *)
THEOREM OrderStaysKept == ScopeSpec /\ []KeysAreShort => []OrderIsKept
  <1>1. ScopeIInv => OrderIsKept
    BY CalmIsInOrder DEF ScopeIInv, OrderIsKept
  <1> QED BY <1>1, ScopeInductiveInvariant, PTL

(* No answer, retention or restart takes the draft of an open insert out   *)
(* of the scope, under the same condition.                                 *)
THEOREM OpenDraftsStay == ScopeSpec /\ []KeysAreShort => []DraftsStay
  <1>1. ScopeIInv => DraftsStay
    BY CalmKeepsDrafts DEF ScopeIInv, DraftsStay
  <1> QED BY <1>1, ScopeInductiveInvariant, PTL

-----------------------------------------------------------------------------
(* The cut of an unusable delta tail: IInv describes what is in a log      *)
(* between the damage and the cut.                                         *)

(* The deltas a replay has to apply, those of them the cut will leave, and *)
(* the commits of a set of deltas.                                         *)
Due     == {d \in log : snapseq < d.seq}
Kept    == {d \in Due : d.seq \notin cut}
Txs(ds) == {d.tx : d \in ds}

(* No commit is in use before it is issued. *)
Issued ==
    /\ snap \subseteq 1 .. commits
    /\ mem \subseteq 1 .. commits
    /\ \A d \in log : d.tx <= commits

(* Keys are marked for removal only while they are being removed, and with *)
(* a key everything above it.                                              *)
CutOnlyInCut == cut # {} => pc = "cut-deltas"
CutIsATail ==
    \A d, e \in log : e.seq \in cut /\ e.seq <= d.seq => d.seq \in cut

(* A cut remembers what it has removed until it ends, or is killed. *)
RemovedOnlyInCut == removed # {} => pc \in {"cut-deltas", "cut-queries"}

(* What a cut has taken away, now or when it was killed. *)
Holes == torn \cup removed

(* A query record vouches for nothing that is not in the snapshot, in a    *)
(* delta or in a hole.                                                     *)
RecordsAreBacked ==
    \A q \in Queries :
        queries[q] # NoRecord => queries[q] \subseteq snap \cup Txs(Due) \cup Holes

(* After the replay the store is the snapshot and the deltas that stay.    *)
StoreIsReplayed ==
    pc = "running" \/ (pc \in {"cut-deltas", "cut-queries"} /\ replayed) =>
        mem = snap \cup Txs(Kept)

(* What a commit was applied to is in the snapshot, in earlier deltas or   *)
(* in a hole: for a delta the cut will leave, in the hole of a killed cut. *)
Earlier(d) == {e \in Due : e.seq < d.seq}
Grounded ==
    /\ \A t \in snap : base[t] \subseteq snap \cup torn
    /\ \A d \in Kept : base[d.tx] \subseteq snap \cup Txs(Earlier(d)) \cup torn
    /\ \A d \in Due : base[d.tx] \subseteq snap \cup Txs(Earlier(d)) \cup Holes

IInv ==
    /\ TypeOK
    /\ Issued
    /\ CutOnlyInCut
    /\ CutIsATail
    /\ RemovedOnlyInCut
    /\ RecordsAreBacked
    /\ StoreIsReplayed
    /\ Grounded

-----------------------------------------------------------------------------
(* The choices of the boot. *)

(* Least of a set of natural numbers is in it and below the others.        *)
LEMMA LeastProperty ==
  ASSUME NEW S \in SUBSET Nat, S # {}
  PROVE  Least(S) \in S /\ \A t \in S : Least(S) <= t
BY LeastExists DEF Least

(* The counter of the next session is above every number on disk.          *)
LEMMA HighestProperty ==
  ASSUME TypeOK
  PROVE  /\ highestPersistedSeq \in Int
         /\ highestPersistedSeq >= -1
         /\ \A s \in Seqs(log) \cup {snapseq} : s <= highestPersistedSeq
<1> DEFINE known == Seqs(log) \cup {snapseq, -1}
<1>1. known \in SUBSET Int
  BY DEF TypeOK, Seqs
<1>2. \A s \in known : s <= deltaSeq - 1
  <2>1. deltaSeq \in Nat /\ \A s \in Seqs(log) \cup {snapseq} : s < deltaSeq
    BY DEF TypeOK
  <2>2. \A s \in known : s < deltaSeq
    BY <2>1
  <2> HIDE DEF known
  <2> QED BY <1>1, <2>1, <2>2
<1>3. \E s \in known : \A t \in known : t <= s
  <2> DEFINE top == deltaSeq - 1
             below == {top - s : s \in known}
  <2>1. known # {} /\ top \in Int
    BY DEF TypeOK
  <2>2. below \in SUBSET Nat /\ below # {}
    <3>1. \A s \in known : s \in Int /\ s <= top
      <4> HIDE DEF known
      <4> QED BY <1>1, <1>2
    <3> HIDE DEF known, top
    <3>2. \A s \in known : top - s \in Nat
      BY <2>1, <3>1
    <3> QED BY <2>1, <3>2
  <2>3. PICK b \in below : \A c \in below : b <= c
    <3> HIDE DEF below
    <3> QED BY <2>2, LeastProperty
  <2> HIDE DEF known, top
  <2>4. PICK s \in known : b = top - s
    OBVIOUS
  <2>5. \A t \in known : top - s <= top - t
    BY <2>3, <2>4
  <2>6. \A t \in known : t <= s
    BY <1>1, <2>1, <2>5
  <2> QED BY <2>6
<1>4. highestPersistedSeq \in known /\ \A t \in known : t <= highestPersistedSeq
  BY <1>3 DEF highestPersistedSeq
<1> QED
  BY <1>1, <1>4

-----------------------------------------------------------------------------
(* Every step preserves the inductive invariant.                           *)

(* A new installation.                                                     *)
LEMMA InitIInv == Init => IInv
<1> SUFFICES ASSUME Init PROVE IInv
  OBVIOUS
<1> USE DEF Init
<1>1. TypeOK
  <2>1. \A s \in Seqs(log) \cup {snapseq} : s < deltaSeq
    BY DEF Seqs
  <2>2. /\ mem \in SUBSET Commits /\ snap \in SUBSET Commits
        /\ deltaSeq \in Nat /\ snapseq \in Nat \cup {-1} /\ cut \in SUBSET Nat
        /\ commits \in 0 .. MaxCommits /\ damaged \in 0 .. MaxDamage
        /\ removed \in SUBSET Commits /\ torn \in SUBSET Commits
    BY BoundAssumption
  <2>3. queries \in [Queries -> (SUBSET Commits) \cup {NoRecord}]
    OBVIOUS
  <2>4. base \in [Commits -> SUBSET Commits]
    OBVIOUS
  <2>5. log \subseteq [seq : Nat, tx : Commits, state : Damages \cup {"ok"}]
    OBVIOUS
  <2> QED
    BY <2>1, <2>2, <2>3, <2>4, <2>5 DEF TypeOK
<1>2. Issued /\ CutOnlyInCut /\ CutIsATail /\ RemovedOnlyInCut
  BY DEF Issued, CutOnlyInCut, CutIsATail, RemovedOnlyInCut
<1>3. RecordsAreBacked /\ Grounded
  BY DEF RecordsAreBacked, Grounded, Kept, Due
<1>4. StoreIsReplayed
  BY DEF StoreIsReplayed, Kept, Due, Txs
<1> QED
  BY <1>1, <1>2, <1>3, <1>4 DEF IInv

(* A commit appends a delta and is grounded in all before it.              *)
LEMMA CommitIInv ==
  ASSUME IInv, Commit
  PROVE  IInv'
<1> DEFINE t == commits + 1
<1>0. PICK new : new = [seq |-> deltaSeq, tx |-> t, state |-> "ok"]
  OBVIOUS
<1> USE <1>0 DEF IInv, Commit, holes
<1>1. /\ t \in Commits /\ t \in Nat /\ commits \in Nat
      /\ new \in [seq : Nat, tx : Commits, state : Damages \cup {"ok"}]
      /\ deltaSeq \in Nat /\ snapseq \in Int /\ snapseq < deltaSeq
      /\ \A d \in log : d.seq \in Nat /\ d.seq < deltaSeq
  BY BoundAssumption DEF TypeOK, Commits, Seqs, Damages
<1>2. TypeOK'
  <2>1. \A s \in Seqs(log') \cup {snapseq'} : s < deltaSeq'
    <3>1. \A d \in log' : d.seq < deltaSeq'
      BY <1>1
    <3> QED BY <3>1, <1>1 DEF Seqs
  <2>2. mem' \in SUBSET Commits /\ base' \in [Commits -> SUBSET Commits]
    BY <1>1 DEF TypeOK
  <2>3. log' \subseteq [seq : Nat, tx : Commits, state : Damages \cup {"ok"}]
    BY <1>1 DEF TypeOK
  <2>4. deltaSeq' \in Nat /\ commits' \in 0 .. MaxCommits
    BY BoundAssumption DEF TypeOK
  <2> QED
    BY <2>1, <2>2, <2>3, <2>4 DEF TypeOK
<1>3. cut = {} /\ cut' = {}
  BY DEF CutOnlyInCut
<1>4. Issued'
  <2>1. 1 .. commits \subseteq 1 .. commits' /\ t \in 1 .. commits'
    BY <1>1
  <2>2. \A d \in log' : d.tx <= commits'
    <3>1. \A d \in log : d.tx <= commits /\ d.tx \in Nat
      BY DEF Issued, TypeOK, Commits
    <3> QED BY <3>1, <1>1
  <2> QED
    BY <2>1, <2>2 DEF Issued
<1>5. CutOnlyInCut' /\ CutIsATail' /\ RemovedOnlyInCut' /\ Holes' = Holes
  BY <1>3 DEF CutOnlyInCut, CutIsATail, RemovedOnlyInCut, Holes
<1>6. Due' = Due \cup {new} /\ Kept = Due /\ Kept' = Due'
  BY <1>1, <1>3 DEF Due, Kept
<1>7. Txs(Due') = Txs(Due) \cup {t}
  <2>1. new.tx = t
    OBVIOUS
  <2> QED BY ONLY <1>6, <2>1 DEF Txs
<1>8. mem = snap \cup Txs(Due)
  BY <1>6 DEF StoreIsReplayed
<1>9. RecordsAreBacked'
  BY <1>5, <1>7 DEF RecordsAreBacked
<1>10. StoreIsReplayed'
  BY <1>6, <1>7, <1>8 DEF StoreIsReplayed
<1>11. Grounded'
  <2>1. \A i \in 1 .. commits : base'[i] = base[i]
    BY <1>1 DEF TypeOK, Commits
  <2>2. \A i \in snap : base'[i] \subseteq snap' \cup torn'
    BY <2>1 DEF Grounded, Issued
  <2>3. ASSUME NEW d \in Due
        PROVE  base'[d.tx] \subseteq snap' \cup Txs(Earlier(d)') \cup torn'
    <3>1. d.tx \in 1 .. commits
      BY DEF Due, Issued, TypeOK, Commits
    <3>2. base[d.tx] \subseteq snap \cup Txs(Earlier(d)) \cup torn
      BY <1>6 DEF Grounded
    <3>3. Earlier(d) \subseteq Earlier(d)'
      BY <1>6 DEF Earlier
    <3>4. Txs(Earlier(d)) \subseteq Txs(Earlier(d)')
      BY <3>3 DEF Txs
    <3> QED
      BY <2>1, <3>1, <3>2, <3>4
  <2>4. base'[new.tx] \subseteq snap' \cup Txs(Earlier(new)')
    <3>1. base'[new.tx] = mem
      BY <1>1 DEF TypeOK
    <3>2. Due \subseteq Earlier(new)'
      BY <1>1, <1>6 DEF Earlier, Due
    <3>3. Txs(Due) \subseteq Txs(Earlier(new)')
      BY <3>2 DEF Txs
    <3> QED
      BY <3>1, <3>3, <1>8
  <2>5. ASSUME NEW d \in Due'
        PROVE  base'[d.tx] \subseteq snap' \cup Txs(Earlier(d)') \cup torn'
    <3>1. CASE d \in Due
      BY <3>1, <2>3
    <3>2. CASE d = new
      BY ONLY <3>2, <2>4
    <3> QED
      BY ONLY <1>6, <3>1, <3>2
  <2>6. torn' \subseteq Holes' /\ snap' = snap
    BY DEF Holes
  <2> QED
    BY ONLY <1>6, <2>2, <2>5, <2>6 DEF Grounded
<1> QED
  BY <1>2, <1>4, <1>5, <1>9, <1>10, <1>11

(* A record written over the store vouches for what the disk backs. *)
LEMMA WriteQueryIInv ==
  ASSUME IInv, NEW q \in Queries, WriteQuery(q)
  PROVE  IInv'
<1> USE DEF IInv, WriteQuery, process, holes
<1>1. TypeOK'
  BY DEF TypeOK
<1>2. Issued' /\ CutOnlyInCut' /\ CutIsATail' /\ RemovedOnlyInCut'
  BY DEF Issued, CutOnlyInCut, CutIsATail, RemovedOnlyInCut, holes
<1>3. Due' = Due /\ Kept' = Kept
  BY DEF Due, Kept
<1>4. Kept = Due
  BY DEF Kept, CutOnlyInCut
<1>5. mem = snap \cup Txs(Due)
  BY <1>4 DEF StoreIsReplayed
<1>6. RecordsAreBacked'
  <2>1. Txs(Due)' = Txs(Due) /\ Holes' = Holes
    BY <1>3 DEF Txs, Holes
  <2>2. \A r \in Queries :
          queries'[r] # NoRecord => queries'[r] \subseteq snap \cup Txs(Due) \cup Holes
    BY <1>5 DEF RecordsAreBacked, TypeOK
  <2> QED
    BY <2>1, <2>2 DEF RecordsAreBacked
<1>7. StoreIsReplayed' /\ Grounded'
  BY <1>3 DEF StoreIsReplayed, Grounded, Txs, Earlier, Holes
<1> QED
  BY <1>1, <1>2, <1>6, <1>7

(* The snapshot takes over the whole store, and no delta is due. *)
LEMMA SnapshotIInv ==
  ASSUME IInv, Snapshot
  PROVE  IInv'
<1> USE DEF IInv, Snapshot, process, holes
<1>1. TypeOK'
  <2>1. snapseq' \in Nat \cup {-1} /\ snapseq' < deltaSeq
    BY DEF TypeOK
  <2>2. \A s \in Seqs(log) \cup {snapseq'} : s < deltaSeq
    BY <2>1 DEF TypeOK
  <2> QED
    BY <2>1, <2>2 DEF TypeOK, Seqs
<1>2. Issued' /\ CutOnlyInCut' /\ CutIsATail' /\ RemovedOnlyInCut'
  BY DEF Issued, CutOnlyInCut, CutIsATail, RemovedOnlyInCut, holes
<1>3. Due' = {} /\ Kept' = {}
  <2>1. \A d \in log : d.seq \in Nat /\ d.seq < deltaSeq /\ deltaSeq \in Nat
    BY DEF TypeOK, Seqs
  <2>2. \A d \in log : ~ (snapseq' < d.seq)
    BY <2>1
  <2> QED
    BY <2>2 DEF Due, Kept
<1>4. Txs(Due)' = {} /\ Txs(Kept)' = {}
  BY <1>3 DEF Txs
<1>5. Kept = Due
  BY DEF Kept, CutOnlyInCut
<1>6. mem = snap \cup Txs(Due)
  BY <1>5 DEF StoreIsReplayed
<1>7. RecordsAreBacked'
  <2>1. Holes' = Holes
    BY DEF Holes
  <2> QED
    BY <1>6, <2>1 DEF RecordsAreBacked
<1>8. StoreIsReplayed'
  BY <1>4 DEF StoreIsReplayed
<1>9. Grounded'
  <2>1. ASSUME NEW i \in Txs(Due)
        PROVE  base[i] \subseteq mem \cup torn
    <3>1. PICK d \in Due : i = d.tx
      BY DEF Txs
    <3>2. base[i] \subseteq snap \cup Txs(Earlier(d)) \cup torn
      BY <1>5, <3>1 DEF Grounded
    <3>3. Txs(Earlier(d)) \subseteq Txs(Due)
      BY DEF Txs, Earlier
    <3> QED
      BY <1>6, <3>2, <3>3
  <2>2. \A i \in snap : base[i] \subseteq mem \cup torn
    BY <1>6 DEF Grounded
  <2> QED
    BY <1>3, <1>6, <2>1, <2>2 DEF Grounded
<1> QED
  BY <1>1, <1>2, <1>7, <1>8, <1>9

(* A covered delta is not due. *)
LEMMA DeleteCoveredIInv ==
  ASSUME IInv, NEW d \in log, DeleteCovered(d)
  PROVE  IInv'
<1> USE DEF IInv, DeleteCovered, process, holes
<1>1. TypeOK'
  BY DEF TypeOK, Seqs
<1>2. Issued' /\ CutOnlyInCut' /\ CutIsATail' /\ RemovedOnlyInCut'
  BY DEF Issued, CutOnlyInCut, CutIsATail, RemovedOnlyInCut, holes
<1>3. Due' = Due /\ Kept' = Kept
  <2>1. d.seq \in Int /\ snapseq \in Int
    BY DEF TypeOK
  <2>2. d \notin Due
    BY <2>1 DEF Due
  <2>3. Due' = Due
    BY <2>2 DEF Due
  <2> QED
    BY <2>3 DEF Kept
<1>4. RecordsAreBacked' /\ StoreIsReplayed' /\ Grounded'
  BY <1>3 DEF RecordsAreBacked, StoreIsReplayed, Grounded, Txs, Earlier, Holes
<1> QED
  BY <1>1, <1>2, <1>4

(* The process is killed: what it knew was on the disk, and what a cut had *)
(* removed is now a hole that stays.                                       *)
LEMMA KillIInv ==
  ASSUME IInv, Kill
  PROVE  IInv'
<1> USE DEF IInv, Kill, disk
<1>1. TypeOK'
  BY DEF TypeOK, Seqs
<1>2. Issued' /\ CutOnlyInCut' /\ CutIsATail' /\ RemovedOnlyInCut'
  BY DEF Issued, CutOnlyInCut, CutIsATail, RemovedOnlyInCut
<1>3. Due' = Due /\ Kept' = Due /\ Holes' = Holes /\ torn' = Holes
  BY DEF Due, Kept, Holes
<1>4. RecordsAreBacked' /\ StoreIsReplayed'
  BY <1>3 DEF RecordsAreBacked, StoreIsReplayed, Txs
<1>5. Grounded'
  <2>1. \A t \in snap : base[t] \subseteq snap \cup Holes
    BY DEF Grounded, Holes
  <2>2. \A d \in Due : base[d.tx] \subseteq snap \cup Txs(Earlier(d)) \cup Holes
    BY DEF Grounded
  <2>3. base' = base /\ snap' = snap /\ \A d \in Due : Earlier(d)' = Earlier(d)
    BY <1>3 DEF Earlier
  <2> QED
    BY <1>3, <2>1, <2>2, <2>3 DEF Grounded
<1> QED
  BY <1>1, <1>2, <1>4, <1>5

(* A damaged delta keeps its key and its commit. *)
LEMMA DamageIInv ==
  ASSUME IInv, NEW d \in log, NEW state \in Damages, Damage(d, state)
  PROVE  IInv'
<1>0. PICK bad : bad = [d EXCEPT !.state = state]
  OBVIOUS
<1> USE <1>0 DEF IInv, Damage, process, holes
<1>1. /\ d \in [seq : Nat, tx : Commits, state : Damages \cup {"ok"}]
      /\ bad \in [seq : Nat, tx : Commits, state : Damages \cup {"ok"}]
      /\ bad.seq = d.seq /\ bad.tx = d.tx
  BY DEF TypeOK
<1>2. log' = (log \ {d}) \cup {bad}
  OBVIOUS
<1>3. Seqs(log') = Seqs(log)
  BY ONLY <1>1, <1>2, d \in log DEF Seqs
<1>4. TypeOK'
  <2>1. damaged' \in 0 .. MaxDamage
    BY BoundAssumption DEF TypeOK
  <2>2. log' \subseteq [seq : Nat, tx : Commits, state : Damages \cup {"ok"}]
    BY <1>1, <1>2 DEF TypeOK
  <2> QED
    BY <1>3, <2>1, <2>2 DEF TypeOK
<1>5. cut = {} /\ cut' = {}
  BY DEF CutOnlyInCut
<1>6. Issued' /\ CutOnlyInCut' /\ CutIsATail' /\ RemovedOnlyInCut'
  <2>1. \A e \in log' : e.tx <= commits
    BY <1>1, <1>2 DEF Issued
  <2> QED
    BY <2>1, <1>5 DEF Issued, CutOnlyInCut, CutIsATail, RemovedOnlyInCut
<1>7. Kept = Due /\ Kept' = Due'
  BY <1>5 DEF Kept
<1>8. Due' = IF d \in Due THEN (Due \ {d}) \cup {bad} ELSE Due
  BY ONLY <1>1, <1>2, d \in log, snapseq' = snapseq DEF Due
<1>9. Txs(Due') = Txs(Due)
  BY ONLY <1>1, <1>8 DEF Txs
<1>10. RecordsAreBacked'
  <2>1. Holes' = Holes
    BY DEF Holes
  <2> QED
    BY <1>9, <2>1 DEF RecordsAreBacked
<1>11. StoreIsReplayed'
  BY DEF StoreIsReplayed
<1>12. Grounded'
  <2>1. ASSUME NEW e \in Due
        PROVE  base[e.tx] \subseteq snap \cup Txs({g \in Due' : g.seq < e.seq}) \cup torn
    <3>1. base[e.tx] \subseteq snap \cup Txs(Earlier(e)) \cup torn
      BY <1>7 DEF Grounded
    <3>2. Txs({g \in Due' : g.seq < e.seq}) = Txs({g \in Due : g.seq < e.seq})
      BY ONLY <1>1, <1>8 DEF Txs
    <3> QED
      BY <3>1, <3>2 DEF Earlier
  <2>2. ASSUME NEW e \in Due'
        PROVE  base[e.tx] \subseteq snap \cup Txs({g \in Due' : g.seq < e.seq}) \cup torn
    <3>1. CASE e \in Due
      BY <3>1, <2>1
    <3>2. CASE e = bad /\ d \in Due
      BY ONLY <3>2, <1>1, <2>1
    <3> QED
      BY ONLY <3>1, <3>2, <2>2, <1>8
  <2>3. \A i \in snap : base[i] \subseteq snap \cup torn
    BY DEF Grounded
  <2>4. base' = base /\ snap' = snap /\ torn' = torn /\ torn' \subseteq Holes'
    BY DEF Holes
  <2> QED
    BY ONLY <1>7, <2>2, <2>3, <2>4 DEF Grounded, Earlier
<1> QED
  BY <1>4, <1>6, <1>10, <1>11, <1>12

-----------------------------------------------------------------------------
(* The boot. *)

(* What a cut from the lowest bad key leaves: the deltas below it. *)
LEMMA TailFromProperty ==
  ASSUME TypeOK, NEW bad \in SUBSET Seqs(log), bad # {}
  PROVE  /\ TailFrom(bad) \in SUBSET Nat
         /\ \A d \in log : d.seq \in TailFrom(bad) <=> ~ \A s \in bad : d.seq < s
         /\ \A d, e \in log : e.seq \in TailFrom(bad) /\ e.seq <= d.seq
                                => d.seq \in TailFrom(bad)
<1>1. \A d \in log : d.seq \in Nat
  BY DEF TypeOK
<1>2. Seqs(log) \in SUBSET Nat
  BY <1>1 DEF Seqs
<1>3. PICK least : least = Least(bad)
  OBVIOUS
<1>4. least \in bad /\ least \in Nat /\ \A s \in bad : s \in Nat /\ least <= s
  BY <1>2, <1>3, LeastProperty
<1>5. TailFrom(bad) = {s \in Seqs(log) : least <= s}
  BY <1>3 DEF TailFrom
<1>6. \A d \in log : d.seq \in TailFrom(bad) <=> least <= d.seq
  BY <1>5 DEF Seqs
<1>7. \A d \in log : least <= d.seq <=> ~ \A s \in bad : d.seq < s
  BY <1>1, <1>4
<1>8. \A d, e \in log : least <= e.seq /\ e.seq <= d.seq => least <= d.seq
  BY <1>1, <1>4
<1> QED
  BY <1>2, <1>5, <1>6, <1>7, <1>8

(* The boot reads the log: what it finds foreign or broken begins a tail. *)
LEMMA ReadLogIInv ==
  ASSUME IInv, ReadLog
  PROVE  IInv'
<1>0. PICK bad : bad = {d.seq : d \in {e \in log : e.state \in {"stale", "broken"}}}
  OBVIOUS
<1>1. /\ pc = "down"
      /\ deltaSeq' = highestPersistedSeq + 1
      /\ mem' = snap
      /\ replayed' = FALSE
      /\ bad = {} => pc' = "replay" /\ cut' = {}
      /\ bad # {} => pc' = "cut-deltas" /\ cut' = TailFrom(bad)
      /\ UNCHANGED <<snap, snapseq, log, queries, commits, base, removed, torn, damaged>>
  BY <1>0 DEF ReadLog, disk, holes
<1>2. bad \in SUBSET Seqs(log)
  BY <1>0 DEF Seqs
<1> USE DEF IInv
<1>3. /\ cut' \in SUBSET Nat
      /\ \A d, e \in log : e.seq \in cut' /\ e.seq <= d.seq => d.seq \in cut'
  BY <1>1, <1>2, TailFromProperty
<1>4. TypeOK'
  <2>1. deltaSeq' \in Nat /\ \A s \in Seqs(log) \cup {snapseq} : s < deltaSeq'
    <3>1. \A s \in Seqs(log) \cup {snapseq} : s \in Int
      BY DEF TypeOK, Seqs
    <3>2. PICK high \in Int : high = highestPersistedSeq
      BY HighestProperty
    <3>3. high >= -1 /\ \A s \in Seqs(log) \cup {snapseq} : s <= high
      BY <3>2, HighestProperty
    <3>4. deltaSeq' = high + 1
      BY <1>1, <3>2
    <3> QED
      BY ONLY <3>1, <3>3, <3>4, high \in Int
  <2>2. Seqs(log)' = Seqs(log)
    BY <1>1 DEF Seqs
  <2> QED
    BY <1>1, <1>3, <2>1, <2>2 DEF TypeOK
<1>5. Issued'
  BY <1>1 DEF Issued
<1>6. CutOnlyInCut' /\ CutIsATail' /\ RemovedOnlyInCut'
  BY <1>1, <1>3 DEF CutOnlyInCut, CutIsATail, RemovedOnlyInCut
<1>7. cut = {} /\ Due' = Due
  BY <1>1 DEF CutOnlyInCut, Due
<1>8. Kept = Due /\ Kept' \subseteq Due
  BY <1>7 DEF Kept
<1>9. RecordsAreBacked'
  <2>1. Txs(Due)' = Txs(Due) /\ Holes' = Holes
    BY <1>1, <1>7 DEF Txs, Holes
  <2> QED
    BY <1>1, <2>1 DEF RecordsAreBacked
<1>10. StoreIsReplayed'
  BY <1>1 DEF StoreIsReplayed
<1>11. Grounded'
  BY <1>1, <1>7, <1>8 DEF Grounded, Txs, Earlier, Holes
<1> QED
  BY <1>4, <1>5, <1>6, <1>9, <1>10, <1>11

(* Keys go one by one; the deltas that stay are the same throughout. *)
LEMMA CutDeltaIInv ==
  ASSUME IInv, CutDelta
  PROVE  IInv'
<1>0. PICK least : least = Least(cut)
  OBVIOUS
<1>. DEFINE goes == {e \in log : e.seq = least}
<1> USE DEF IInv
<1>1. /\ pc = "cut-deltas" /\ cut # {}
      /\ log' = {d \in log : d.seq # least}
      /\ cut' = cut \ {least}
      /\ removed' = removed \cup Txs(goes)
      /\ UNCHANGED <<pc, mem, deltaSeq, replayed, snap, snapseq, queries, commits, base, torn, damaged>>
  BY <1>0 DEF CutDelta, Txs
<1>2. least \in cut
  BY <1>0, <1>1, LeastProperty DEF TypeOK
<1>3. TypeOK'
  <2>1. Txs(goes) \in SUBSET Commits
    BY DEF TypeOK, Txs
  <2>2. Seqs(log') \subseteq Seqs(log) /\ log' \subseteq log
    BY <1>1 DEF Seqs
  <2>3. removed' \in SUBSET Commits
    BY ONLY <1>1, <2>1, TypeOK DEF TypeOK
  <2> HIDE DEF goes
  <2> QED
    BY <1>1, <2>2, <2>3 DEF TypeOK
<1>4. Issued' /\ CutOnlyInCut' /\ RemovedOnlyInCut'
  BY <1>1 DEF Issued, CutOnlyInCut, RemovedOnlyInCut
<1>5. CutIsATail'
  BY <1>1 DEF CutIsATail
<1>6. Due' = {d \in Due : d.seq # least}
  BY <1>1 DEF Due
<1>7. Kept' = Kept
  BY <1>1, <1>2, <1>6 DEF Kept
<1>8. /\ \A ds \in SUBSET Due : Txs(ds) \subseteq Txs({d \in ds : d.seq # least}) \cup Txs(goes)
      /\ Holes' = Holes \cup Txs(goes)
  <2>1. Due \subseteq log
    BY DEF Due
  <2>2. ASSUME NEW ds \in SUBSET Due
        PROVE  Txs(ds) \subseteq Txs({d \in ds : d.seq # least}) \cup Txs(goes)
    BY ONLY <2>1, ds \in SUBSET Due DEF Txs
  <2>3. Holes' = Holes \cup Txs(goes)
    BY ONLY <1>1 DEF Holes
  <2> QED
    BY ONLY <2>2, <2>3
<1> HIDE DEF goes
<1>9. RecordsAreBacked'
  <2>1. Txs(Due) \subseteq Txs(Due') \cup Txs(goes)
    BY ONLY <1>6, <1>8
  <2> QED
    BY ONLY <1>1, <1>8, <2>1, RecordsAreBacked DEF RecordsAreBacked
<1>10. StoreIsReplayed'
  BY <1>1, <1>7 DEF StoreIsReplayed, Txs
<1>11. Grounded'
  <2>1. ASSUME NEW d \in Kept
        PROVE  Earlier(d)' = Earlier(d)
    <3>1. \A e \in Earlier(d) : e.seq # least
      <4>1. \A e \in Earlier(d) : e.seq <= d.seq
        BY DEF Earlier, Kept, Due, TypeOK
      <4> QED
        BY <4>1, <1>2 DEF CutIsATail, Earlier, Kept, Due
    <3> QED
      BY <1>6, <3>1 DEF Earlier
  <2>2. \A d \in Kept : base[d.tx] \subseteq snap \cup Txs(Earlier(d)') \cup torn
    BY <2>1 DEF Grounded
  <2>3. ASSUME NEW d \in Due
        PROVE  base[d.tx] \subseteq snap \cup Txs(Earlier(d)') \cup Holes'
    <3>1. base[d.tx] \subseteq snap \cup Txs(Earlier(d)) \cup Holes
      BY DEF Grounded
    <3>2. Earlier(d)' = {e \in Earlier(d) : e.seq # least} /\ Earlier(d) \in SUBSET Due
      BY <1>6 DEF Earlier
    <3>3. Txs(Earlier(d)) \subseteq Txs(Earlier(d)') \cup Txs(goes)
      BY ONLY <1>8, <3>2
    <3> QED
      BY ONLY <1>8, <3>1, <3>3
  <2>4. \A i \in snap : base[i] \subseteq snap \cup torn
    BY DEF Grounded
  <2>5. Due' \subseteq Due
    BY <1>6
  <2> QED
    BY ONLY <1>1, <1>7, <2>2, <2>3, <2>4, <2>5 DEF Grounded
<1> QED
  BY <1>3, <1>4, <1>5, <1>9, <1>10, <1>11

(* The keys are gone, or a record is: neither touches the deltas. *)
LEMMA CutEdgeIInv ==
  ASSUME IInv, DeltasGone \/ \E q \in Queries : CutQuery(q)
  PROVE  IInv'
<1> USE DEF IInv, DeltasGone, CutQuery, process, disk, holes
<1>1. /\ pc \in {"cut-deltas", "cut-queries"} /\ pc' = "cut-queries" /\ cut = {}
      /\ UNCHANGED <<mem, deltaSeq, cut, replayed, snap, snapseq, log, commits, base, removed, torn, damaged>>
  BY DEF CutOnlyInCut
<1>2. queries' \in [Queries -> (SUBSET Commits) \cup {NoRecord}]
  BY DEF TypeOK
<1>3. TypeOK'
  BY <1>1, <1>2 DEF TypeOK, Seqs
<1>4. Issued' /\ CutOnlyInCut' /\ CutIsATail' /\ RemovedOnlyInCut'
  BY <1>1 DEF Issued, CutOnlyInCut, CutIsATail, RemovedOnlyInCut
<1>5. Due' = Due /\ Kept' = Kept
  BY <1>1 DEF Due, Kept
<1>6. RecordsAreBacked'
  <2>1. Txs(Due)' = Txs(Due) /\ Holes' = Holes /\ snap' = snap
    BY <1>1, <1>5 DEF Txs, Holes
  <2>2. \A q \in Queries : queries'[q] # NoRecord => queries'[q] = queries[q]
    BY DEF TypeOK
  <2> QED
    BY ONLY <2>1, <2>2, RecordsAreBacked DEF RecordsAreBacked
<1>7. StoreIsReplayed'
  BY <1>1, <1>5 DEF StoreIsReplayed, Txs
<1>8. Grounded'
  BY ONLY <1>1, <1>5, Grounded DEF Grounded, Txs, Earlier, Holes
<1> QED
  BY <1>3, <1>4, <1>6, <1>7, <1>8

(* No record is left that could vouch for what was cut. *)
LEMMA QueriesGoneIInv ==
  ASSUME IInv, QueriesGone
  PROVE  IInv'
<1> USE DEF IInv, QueriesGone, AfterCut, disk
<1>1. /\ pc = "cut-queries" /\ pc' = AfterCut /\ cut = {}
      /\ UNCHANGED <<mem, deltaSeq, cut, replayed, snap, snapseq, log, queries, commits, base, torn, damaged>>
      /\ removed' = {}
  BY DEF CutOnlyInCut
<1>2. TypeOK'
  BY <1>1 DEF TypeOK, Seqs
<1>3. Issued' /\ CutOnlyInCut' /\ CutIsATail' /\ RemovedOnlyInCut'
  BY <1>1 DEF Issued, CutOnlyInCut, CutIsATail, RemovedOnlyInCut
<1>4. Due' = Due /\ Kept' = Kept /\ Kept = Due /\ torn \subseteq Holes'
  BY <1>1 DEF Due, Kept, Holes
<1>5. RecordsAreBacked'
  BY <1>1 DEF RecordsAreBacked
<1>6. StoreIsReplayed' /\ Grounded'
  BY <1>1, <1>4 DEF StoreIsReplayed, Grounded, Txs, Earlier
<1> QED
  BY <1>2, <1>3, <1>5, <1>6

(* The replay applies what is due up to the first delta that fails. *)
LEMMA ReplayIInv ==
  ASSUME IInv, Replay
  PROVE  IInv'
<1>0. PICK bad : bad = {d.seq : d \in {e \in Due : e.state = "unappliable"}}
  OBVIOUS
<1>1. /\ pc = "replay"
      /\ mem' = snap \cup Txs({d \in Due : \A s \in bad : d.seq < s})
      /\ replayed' = TRUE
      /\ bad = {} => pc' = "running" /\ cut' = {}
      /\ bad # {} => pc' = "cut-deltas" /\ cut' = TailFrom(bad)
      /\ UNCHANGED <<deltaSeq, snap, snapseq, log, queries, commits, base, removed, torn, damaged>>
  BY <1>0 DEF Replay, disk, holes, Due, Txs
<1>2. bad \in SUBSET Seqs(log)
  BY <1>0 DEF Seqs, Due
<1> USE DEF IInv
<1>3. /\ cut' \in SUBSET Nat
      /\ \A d \in log : d.seq \in cut' <=> ~ \A s \in bad : d.seq < s
      /\ \A d, e \in log : e.seq \in cut' /\ e.seq <= d.seq => d.seq \in cut'
  BY <1>1, <1>2, TailFromProperty
<1>4. cut = {} /\ Due' = Due
  BY <1>1 DEF CutOnlyInCut, Due
<1>5. Kept = Due /\ Kept' \subseteq Due
  BY <1>4 DEF Kept
<1>6. Kept' = {d \in Due : \A s \in bad : d.seq < s}
  BY <1>3, <1>4 DEF Kept, Due
<1>7. Issued' /\ mem' \in SUBSET Commits
  <2>1. snap \subseteq 1 .. commits /\ snap \in SUBSET Commits
    BY DEF Issued, TypeOK
  <2>2. \A d \in Due : d.tx \in 1 .. commits /\ d.tx \in Commits
    BY DEF Issued, TypeOK, Due, Commits
  <2>3. mem' \subseteq 1 .. commits /\ mem' \in SUBSET Commits
    BY ONLY <1>1, <2>1, <2>2 DEF Txs
  <2> QED
    BY <1>1, <2>3 DEF Issued
<1>8. TypeOK'
  <2>1. Seqs(log)' = Seqs(log)
    BY <1>1 DEF Seqs
  <2> QED
    BY <1>1, <1>3, <1>7, <2>1 DEF TypeOK
<1>9. CutOnlyInCut' /\ CutIsATail' /\ RemovedOnlyInCut'
  BY <1>1, <1>3 DEF CutOnlyInCut, CutIsATail, RemovedOnlyInCut
<1>10. RecordsAreBacked'
  <2>1. Txs(Due)' = Txs(Due) /\ Holes' = Holes
    BY <1>1, <1>4 DEF Txs, Holes
  <2> QED
    BY <1>1, <2>1 DEF RecordsAreBacked
<1>11. StoreIsReplayed'
  BY <1>1, <1>6 DEF StoreIsReplayed, Txs
<1>12. Grounded'
  BY <1>1, <1>4, <1>5 DEF Grounded, Txs, Earlier, Holes
<1> QED
  BY <1>7, <1>8, <1>9, <1>10, <1>11, <1>12

-----------------------------------------------------------------------------

(* Every step, and stuttering. *)
LEMMA NextIInv == IInv /\ [Next]_vars => IInv'
<1> SUFFICES ASSUME IInv, [Next]_vars
             PROVE  IInv'
  OBVIOUS
<1>1. CASE Commit \/ Snapshot \/ \E q \in Queries : WriteQuery(q)
  BY <1>1, CommitIInv, SnapshotIInv, WriteQueryIInv
<1>2. CASE \E d \in log : DeleteCovered(d)
  BY <1>2, DeleteCoveredIInv
<1>3. CASE Kill
  BY <1>3, KillIInv
<1>4. CASE \E d \in log, state \in Damages : Damage(d, state)
  BY <1>4, DamageIInv
<1>5. CASE ReadLog \/ Replay
  BY <1>5, ReadLogIInv, ReplayIInv
<1>6. CASE CutDelta \/ DeltasGone \/ (\E q \in Queries : CutQuery(q)) \/ QueriesGone
  BY <1>6, CutDeltaIInv, CutEdgeIInv, QueriesGoneIInv
<1>7. CASE UNCHANGED vars
  <2>1. UNCHANGED <<pc, mem, deltaSeq, cut, replayed, snap, snapseq, log, queries,
                    commits, base, removed, torn, damaged>>
    BY <1>7 DEF vars, process, disk, holes
  <2>2. Due' = Due /\ Kept' = Kept
    BY <2>1 DEF Due, Kept
  <2>3. TypeOK' /\ Issued' /\ CutOnlyInCut' /\ CutIsATail' /\ RemovedOnlyInCut'
    BY <2>1 DEF IInv, TypeOK, Seqs, Issued, CutOnlyInCut, CutIsATail, RemovedOnlyInCut
  <2>4. RecordsAreBacked' /\ StoreIsReplayed' /\ Grounded'
    BY <2>1, <2>2 DEF IInv, RecordsAreBacked, StoreIsReplayed, Grounded, Txs, Earlier, Holes
  <2> QED
    BY <2>3, <2>4 DEF IInv
<1> QED
  BY <1>1, <1>2, <1>3, <1>4, <1>5, <1>6, <1>7 DEF Next

(* The inductive invariant holds in every reachable state, whatever is     *)
(* damaged and wherever the process is killed.                             *)
THEOREM CutInvariant == Spec => []IInv
BY InitIInv, NextIInv, PTL DEF Spec

(* A query record that survived a boot vouches only for commits the store  *)
(* has, however many deltas became unusable, in whatever way, and however  *)
(* many boots were killed: the only holes a record can look through are    *)
(* those of a cut that a kill interrupted.                                 *)
THEOREM SurvivingRecordsAreWhole == Spec => []TrustedIsWhole
<1>1. IInv => TrustedIsWhole
  <2> SUFFICES ASSUME IInv, pc = "running"
               PROVE  \A q \in Queries : queries[q] # NoRecord => queries[q] \subseteq mem \cup torn
    BY DEF TrustedIsWhole
  <2>1. Kept = Due /\ Holes = torn
    BY DEF IInv, CutOnlyInCut, RemovedOnlyInCut, Kept, Holes
  <2> QED
    BY <2>1 DEF IInv, RecordsAreBacked, StoreIsReplayed
<1> QED
  BY <1>1, CutInvariant, PTL

(* The replay builds on no delta that is gone, but for those a killed cut  *)
(* had removed.                                                            *)
THEOREM ReplayBuildsOnNoHole == Spec => []NothingBuiltOnAHole
<1>1. IInv => NothingBuiltOnAHole
  <2> SUFFICES ASSUME IInv, pc = "running", NEW t \in mem
               PROVE  base[t] \subseteq mem \cup torn
    BY DEF NothingBuiltOnAHole
  <2>1. Kept = Due
    BY DEF IInv, CutOnlyInCut, Kept
  <2>2. mem = snap \cup Txs(Due)
    BY <2>1 DEF IInv, StoreIsReplayed
  <2>3. CASE t \in snap
    BY <2>2, <2>3 DEF IInv, Grounded
  <2>4. CASE t \in Txs(Due)
    <3>1. PICK d \in Due : t = d.tx
      BY <2>4 DEF Txs
    <3>2. base[t] \subseteq snap \cup Txs(Earlier(d)) \cup torn
      BY <2>1, <3>1 DEF IInv, Grounded
    <3>3. Txs(Earlier(d)) \subseteq Txs(Due)
      BY DEF Txs, Earlier
    <3> QED
      BY <2>2, <3>2, <3>3
  <2> QED
    BY <2>2, <2>3, <2>4
<1> QED
  BY <1>1, CutInvariant, PTL

-----------------------------------------------------------------------------
(* The wrappers of utils/singleFlight.ts: their promises hold for any      *)
(* interval and any number of flights, resets and ticks.                   *)

(* A flight that has not settled is the flight of the slot, of the present *)
(* era and outside the wrapper that forgets whose slot it clears.          *)
UnsettledIsHeld ==
    ~(throttled /\ registered) =>
        \A f \in DOMAIN flights :
            flights[f].stage # "settled" /\ SameEra(flights[f].generation, generation) => inFlight = f

(* No flight is of a generation to come, no success in the future, and in  *)
(* the present era none is later than the one noted.                       *)
FlightsDated ==
    \A f \in DOMAIN flights :
        /\ flights[f].generation <= generation
        /\ flights[f].succeeded <= now
        /\ throttled /\ flights[f].succeeded # Never
           /\ SameEra(flights[f].generation, generation)
           => flights[f].succeeded <= lastSuccessAt

FlightIInv == FlightTypeOK /\ OneAtATime /\ SlotIsCurrent /\ UnsettledIsHeld /\ FlightsDated

(* What the types say of one flight. *)
LEMMA FlightTyped ==
  ASSUME FlightIInv
  PROVE  /\ DOMAIN flights = 1 .. Len(flights) /\ Len(flights) \in Nat
         /\ \A f \in DOMAIN flights :
               /\ flights[f] \in Flights
               /\ flights[f].generation \in Nat /\ flights[f].stage \in Stages
               /\ flights[f].succeeded = Never \/ flights[f].succeeded \in Nat
         /\ inFlight # 0 => inFlight \in DOMAIN flights
         /\ generation \in Nat /\ now \in Nat /\ lastSuccessAt \in Nat
         /\ throttled \in BOOLEAN /\ registered \in BOOLEAN
  <1>1. flights \in Seq(Flights)
    BY DEF FlightIInv, FlightTypeOK
  <1>2. /\ DOMAIN flights = 1 .. Len(flights) /\ Len(flights) \in Nat
        /\ \A f \in DOMAIN flights : flights[f] \in Flights
    BY <1>1, ElementOfSeq
  <1>3. \A r \in Flights :
           /\ r.generation \in Nat /\ r.stage \in Stages
           /\ r.succeeded = Never \/ r.succeeded \in Nat
    BY DEF Flights
  <1> QED BY <1>2, <1>3 DEF FlightIInv, FlightTypeOK

(* The noted success is the latest one, so its window covers all others.   *)
LEMMA WindowFollows == ASSUME IntervalAssumption, FlightIInv PROVE IntervalHolds
  BY FlightTyped
     DEF IntervalAssumption, FlightIInv, FlightsDated, IntervalHolds, Suppressed, Never

(* Nothing has started. *)
LEMMA FlightInitKeeps == ASSUME IntervalAssumption, FlightInit PROVE FlightIInv
  BY DEF IntervalAssumption, FlightInit, FlightIInv, FlightTypeOK, OneAtATime, Alone,
         SlotIsCurrent, UnsettledIsHeld, FlightsDated

(* A call starts a flight only in an empty slot. *)
LEMMA FlightStartKeeps ==
  ASSUME FlightIInv, NEW forced \in BOOLEAN, NEW stage \in {"running", "failed"}, Start(forced, stage)
  PROVE  FlightIInv'
  <1> DEFINE new == Flight(stage)
             n == Len(flights) + 1
  <1>1. /\ Len(flights) \in Nat
        /\ new \in Flights
        /\ flights \in Seq(Flights)
    BY FlightTyped DEF FlightIInv, FlightTypeOK, Flight, Flights, Stages
  <1>2. /\ flights' \in Seq(Flights)
        /\ Len(flights') = n /\ inFlight' = n
        /\ DOMAIN flights' = DOMAIN flights \cup {n} /\ n \notin DOMAIN flights
        /\ flights'[n] = new /\ \A f \in DOMAIN flights : flights'[f] = flights[f]
        /\ UNCHANGED <<throttled, registered, generation, now, lastSuccessAt>>
    BY <1>1 DEF Start
  <1>3. new.generation = generation /\ new.succeeded = Never
    BY DEF Flight
  <1> HIDE DEF new
  <1>4. FlightTypeOK'
    BY <1>1, <1>2 DEF FlightIInv, FlightTypeOK
  <1>5. SlotIsCurrent'
    BY <1>2, <1>3 DEF SlotIsCurrent, SameEra
  <1>6. UnsettledIsHeld'
    BY <1>1, <1>2 DEF FlightIInv, UnsettledIsHeld, Start, SameEra
  <1>7. OneAtATime'
    BY <1>1, <1>2, <1>3
       DEF FlightIInv, OneAtATime, Alone, UnsettledIsHeld, Start, SameEra, Stages
  <1>8. FlightsDated'
    BY <1>1, <1>2, <1>3 DEF FlightIInv, FlightTypeOK, FlightsDated, Never, SameEra
  <1> QED BY <1>4, <1>5, <1>6, <1>7, <1>8 DEF FlightIInv

(* What the settling of one flight changes in the list of flights.         *)
LEMMA Settling ==
  ASSUME FlightIInv, NEW f \in DOMAIN flights, NEW new \in Flights, flights' = [flights EXCEPT ![f] = new]
  PROVE  /\ flights' \in Seq(Flights)
         /\ Len(flights') = Len(flights) /\ DOMAIN flights' = DOMAIN flights
         /\ \A g \in DOMAIN flights : flights'[g] = IF g = f THEN new ELSE flights[g]
  <1>1. flights \in Seq(Flights) /\ f \in 1 .. Len(flights)
    BY FlightTyped DEF FlightIInv, FlightTypeOK
  <1>2. /\ [flights EXCEPT ![f] = new] \in Seq(Flights)
        /\ Len([flights EXCEPT ![f] = new]) = Len(flights)
    BY <1>1, ExceptSeq
  <1> QED BY <1>1, <1>2

(* The ends of a task, and the turn that clears the slot. *)
LEMMA FlightEndKeeps ==
  ASSUME FlightIInv, NEW f \in DOMAIN flights, Succeed(f) \/ Fail(f) \/ Finish(f)
  PROVE  FlightIInv'
  <1>1. /\ flights[f] \in Flights
        /\ now \in Nat
    BY FlightTyped
  <1>2. CASE Succeed(f)
    <2>1. /\ flights' = [flights EXCEPT ![f] = [flights[f] EXCEPT !.stage = "succeeded", !.succeeded = now]]
          /\ UNCHANGED <<throttled, registered, generation, now, inFlight>>
          /\ flights[f].stage = "running"
          /\ lastSuccessAt' = IF throttled THEN now ELSE lastSuccessAt
      BY <1>2 DEF Succeed
    <2>2. /\ flights' \in Seq(Flights)
          /\ Len(flights') = Len(flights) /\ DOMAIN flights' = DOMAIN flights
          /\ \A g \in DOMAIN flights :
                /\ flights'[g].generation = flights[g].generation
                /\ flights'[g].stage = IF g = f THEN "succeeded" ELSE flights[g].stage
                /\ flights'[g].succeeded = IF g = f THEN now ELSE flights[g].succeeded
      <3> DEFINE new == [flights[f] EXCEPT !.stage = "succeeded", !.succeeded = now]
      <3>1. /\ new \in Flights /\ new.generation = flights[f].generation
            /\ new.stage = "succeeded" /\ new.succeeded = now
        BY <1>1 DEF Flights, Stages
      <3>2. flights' = [flights EXCEPT ![f] = new]
        BY <2>1
      <3> HIDE DEF new
      <3> QED BY <3>1, <3>2, Settling
    <2>3. FlightTypeOK' BY <1>1, <2>1, <2>2 DEF FlightIInv, FlightTypeOK, Stages
    <2>4. SlotIsCurrent'
        BY <1>1, <2>1, <2>2, FlightTyped
           DEF FlightIInv, SlotIsCurrent, SameEra, Stages
    <2>5. UnsettledIsHeld'
        BY <1>1, <2>1, <2>2
           DEF FlightIInv, UnsettledIsHeld, SameEra, Stages
    <2>6. OneAtATime'
        BY <1>1, <2>1, <2>2, FlightTyped
           DEF FlightIInv, OneAtATime, Alone, SameEra, Stages
    <2>7. FlightsDated'
        BY <1>1, <2>1, <2>2, FlightTyped
           DEF FlightIInv, FlightsDated, SameEra, Never, Stages
    <2> QED BY <2>3, <2>4, <2>5, <2>6, <2>7 DEF FlightIInv
  <1>3. CASE Fail(f)
    <2>1. /\ flights' = [flights EXCEPT ![f] = [flights[f] EXCEPT !.stage = "failed"]]
          /\ UNCHANGED <<throttled, registered, generation, now, inFlight, lastSuccessAt>>
          /\ flights[f].stage = "running"
      BY <1>1, <1>3 DEF Fail
    <2>2. /\ flights' \in Seq(Flights)
          /\ Len(flights') = Len(flights) /\ DOMAIN flights' = DOMAIN flights
          /\ \A g \in DOMAIN flights :
                /\ flights'[g].generation = flights[g].generation
                /\ flights'[g].stage = IF g = f THEN "failed" ELSE flights[g].stage
                /\ flights'[g].succeeded = IF g = f THEN flights[f].succeeded ELSE flights[g].succeeded
      <3> DEFINE new == [flights[f] EXCEPT !.stage = "failed"]
      <3>1. /\ new \in Flights /\ new.generation = flights[f].generation
            /\ new.stage = "failed" /\ new.succeeded = flights[f].succeeded
        BY <1>1 DEF Flights, Stages
      <3>2. flights' = [flights EXCEPT ![f] = new]
        BY <2>1
      <3> HIDE DEF new
      <3> QED BY <3>1, <3>2, Settling
    <2>3. FlightTypeOK' BY <1>1, <2>1, <2>2 DEF FlightIInv, FlightTypeOK, Stages
    <2>4. SlotIsCurrent'
        BY <1>1, <2>1, <2>2, FlightTyped
           DEF FlightIInv, SlotIsCurrent, SameEra, Stages
    <2>5. UnsettledIsHeld'
        BY <1>1, <2>1, <2>2
           DEF FlightIInv, UnsettledIsHeld, SameEra, Stages
    <2>6. OneAtATime'
        BY <1>1, <2>1, <2>2, FlightTyped
           DEF FlightIInv, OneAtATime, Alone, SameEra, Stages
    <2>7. FlightsDated'
        BY <1>1, <2>1, <2>2, FlightTyped
           DEF FlightIInv, FlightsDated, SameEra, Never, Stages
    <2> QED BY <2>3, <2>4, <2>5, <2>6, <2>7 DEF FlightIInv
  <1>4. CASE Finish(f)
    <2>1. /\ flights' = [flights EXCEPT ![f] = [flights[f] EXCEPT !.stage = "settled"]]
          /\ UNCHANGED <<throttled, registered, generation, now, lastSuccessAt>>
          /\ flights[f].stage # "settled"
          /\ inFlight' = IF throttled \/ inFlight = f THEN 0 ELSE inFlight
      BY <1>1, <1>4 DEF Finish, Cleared
    <2>2. /\ flights' \in Seq(Flights)
          /\ Len(flights') = Len(flights) /\ DOMAIN flights' = DOMAIN flights
          /\ \A g \in DOMAIN flights :
                /\ flights'[g].generation = flights[g].generation
                /\ flights'[g].stage = IF g = f THEN "settled" ELSE flights[g].stage
                /\ flights'[g].succeeded = IF g = f THEN flights[f].succeeded ELSE flights[g].succeeded
      <3> DEFINE new == [flights[f] EXCEPT !.stage = "settled"]
      <3>1. /\ new \in Flights /\ new.generation = flights[f].generation
            /\ new.stage = "settled" /\ new.succeeded = flights[f].succeeded
        BY <1>1 DEF Flights, Stages
      <3>2. flights' = [flights EXCEPT ![f] = new]
        BY <2>1
      <3> HIDE DEF new
      <3> QED BY <3>1, <3>2, Settling
    <2>3. FlightTypeOK' BY <1>1, <2>1, <2>2 DEF FlightIInv, FlightTypeOK, Stages
    <2>4. SlotIsCurrent'
        BY <1>1, <2>1, <2>2, FlightTyped
           DEF FlightIInv, SlotIsCurrent, SameEra, Stages
    <2>5. UnsettledIsHeld'
        BY <1>1, <2>1, <2>2, FlightTyped
           DEF FlightIInv, UnsettledIsHeld, SameEra, Stages
    <2>6. OneAtATime'
        BY <1>1, <2>1, <2>2, FlightTyped
           DEF FlightIInv, OneAtATime, Alone, SameEra, Stages
    <2>7. FlightsDated'
        BY <1>1, <2>1, <2>2, FlightTyped
           DEF FlightIInv, FlightsDated, SameEra, Never, Stages
    <2> QED BY <2>3, <2>4, <2>5, <2>6, <2>7 DEF FlightIInv
  <1> QED BY <1>2, <1>3, <1>4

(* No flight is of the era a reset opens. *)
LEMMA FlightResetKeeps == ASSUME FlightIInv, ResetRuntime PROVE FlightIInv'
  <1>1. /\ generation' = generation + 1 /\ generation \in Nat
        /\ UNCHANGED <<throttled, registered, now, flights>>
        /\ ~registered => inFlight' = inFlight /\ lastSuccessAt' = lastSuccessAt
        /\ registered => inFlight' = 0 /\ lastSuccessAt' = 0
    BY DEF ResetRuntime, FlightIInv, FlightTypeOK
  <1>2. \A f \in DOMAIN flights : flights[f].generation \in Nat /\ flights[f].generation <= generation
    BY FlightTyped DEF FlightIInv, FlightsDated
  <1>3. FlightTypeOK' BY <1>1 DEF FlightIInv, FlightTypeOK
  <1>4. SlotIsCurrent' BY <1>1 DEF FlightIInv, SlotIsCurrent, SameEra
  <1>5. UnsettledIsHeld' BY <1>1, <1>2 DEF FlightIInv, UnsettledIsHeld, SameEra
  <1>6. OneAtATime' BY <1>1 DEF FlightIInv, OneAtATime, Alone, SameEra
  <1>7. FlightsDated' BY <1>1, <1>2 DEF FlightIInv, FlightsDated, SameEra
  <1> QED BY <1>3, <1>4, <1>5, <1>6, <1>7 DEF FlightIInv

(* The clock only moves away from the successes noted. *)
LEMMA FlightTickKeeps == ASSUME FlightIInv, Tick PROVE FlightIInv'
  <1>1. /\ now' = now + 1 /\ now \in Nat
        /\ UNCHANGED <<throttled, registered, generation, flights, inFlight, lastSuccessAt>>
    BY DEF Tick, FlightIInv, FlightTypeOK
  <1>2. FlightTypeOK' BY <1>1 DEF FlightIInv, FlightTypeOK
  <1>3. SlotIsCurrent' /\ UnsettledIsHeld' /\ OneAtATime'
    BY <1>1
       DEF FlightIInv, SlotIsCurrent, UnsettledIsHeld, OneAtATime, Alone, SameEra
  <1>4. FlightsDated' BY <1>1, FlightTyped DEF FlightIInv, FlightsDated, SameEra, Never
  <1> QED BY <1>2, <1>3, <1>4 DEF FlightIInv

(* Every step keeps the invariant. *)
LEMMA FlightStepKeeps == ASSUME FlightIInv, [FlightNext]_flightVars PROVE FlightIInv'
  <1>1. CASE UNCHANGED flightVars
    BY <1>1 DEF flightVars, FlightIInv, FlightTypeOK, OneAtATime, Alone,
                SlotIsCurrent, UnsettledIsHeld, FlightsDated, SameEra
  <1>2. CASE FlightNext
    <2>1. ASSUME NEW forced \in BOOLEAN, NEW stage \in {"running", "failed"}, Start(forced, stage)
          PROVE  FlightIInv'
      BY <2>1, FlightStartKeeps
    <2>2. ASSUME NEW f \in DOMAIN flights, Succeed(f) \/ Fail(f) \/ Finish(f)
          PROVE  FlightIInv'
      BY <2>2, FlightEndKeeps
    <2> QED BY <1>2, <2>1, <2>2, FlightResetKeeps, FlightTickKeeps DEF FlightNext
  <1> QED BY <1>1, <1>2

(* The invariant of both wrappers, with every reset and every order of     *)
(* settlements.                                                            *)
THEOREM FlightInvariant == FlightSpec => []FlightIInv
  <1>1. FlightInit => FlightIInv BY IntervalAssumption, FlightInitKeeps
  <1>2. FlightIInv /\ [FlightNext]_flightVars => FlightIInv' BY FlightStepKeeps
  <1> QED BY <1>1, <1>2, PTL DEF FlightSpec

(* createSingleFlight, and a throttled task that resets leave alone, run   *)
(* one execution of an era at a time.                                      *)
THEOREM FlightsAreSingle == FlightSpec => []OneAtATime
  <1>1. FlightIInv => OneAtATime BY DEF FlightIInv
  <1> QED BY <1>1, FlightInvariant, PTL

(* No execution of before a reset answers a call after it. *)
THEOREM SlotsAreCurrent == FlightSpec => []SlotIsCurrent
  <1>1. FlightIInv => SlotIsCurrent BY DEF FlightIInv
  <1> QED BY <1>1, FlightInvariant, PTL

(* The throttle holds for every success of the era, in every order.        *)
THEOREM IntervalsHold == FlightSpec => []IntervalHolds
  <1>1. FlightIInv => IntervalHolds BY IntervalAssumption, WindowFollows
  <1> QED BY <1>1, FlightInvariant, PTL
=============================================================================
