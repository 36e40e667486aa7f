----------------------------- MODULE OrderKeys -----------------------------
(***************************************************************************)
(* Fractional order keys (core/orderKey.ts).  A key is a sequence of       *)
(* digits, compared as the code compares its strings; no bound at all is   *)
(* the empty sequence.  The code has 62 digits, sizes sequences up to 8 of *)
(* them and computes in doubles, whose integers are exact below 2^53: the  *)
(* three constants.  What a double cannot hold is rounded to the nearest   *)
(* one that it can, ties to even, in every sum, product and quotient.      *)
(***************************************************************************)
EXTENDS Integers, Sequences, SequencesExt, FiniteSetsExt

CONSTANTS
    Base,              \* the digits are 0 .. Base - 1
    MaxSequenceLength, \* MAX_SEQUENCE_KEY_LENGTH
    Mantissa           \* the bits of an integer that a number holds

Power(base, n) ==
    LET power[i \in 0 .. n] == IF i = 0 THEN 1 ELSE base * power[i - 1]
    IN  power[n]

(* The integers below this are exact. *)
Exact == Power(2, Mantissa)

ASSUME KeyAssumption ==
    /\ Base \in Nat /\ Base > 3
    /\ MaxSequenceLength \in Nat \ {0} /\ Mantissa \in Nat
    /\ Power(Base, MaxSequenceLength) + 1 < Exact

NoBound == <<>>

(* isOrderKey: no key ends in the minimal digit. *)
IsOrderKey(key) == key # <<>> /\ Last(key) # 0

(* compareCodepoints *)
Precedes(a, b) ==
    LET shared  == Min({Len(a), Len(b)})
        differs == {i \in 1 .. shared : a[i] # b[i]}
    IN  IF differs = {} THEN Len(a) < Len(b) ELSE a[Min(differs)] < b[Min(differs)]

-----------------------------------------------------------------------------
(* Arithmetic on the integers a number holds *)

Nearest(n, d) ==
    LET down == n \div d
        rest == n % d
    IN  IF 2 * rest > d \/ (2 * rest = d /\ down % 2 = 1) THEN down + 1 ELSE down

Spacing(n) == 2 ^ Min({k \in 0 .. 30 - Mantissa : n < 2 ^ (Mantissa + k)})

Rounded(n) == Spacing(n) * Nearest(n, Spacing(n))

Held(n) == IF n < Exact THEN n ELSE Rounded(n)

(* floor(n / d): the quotient is rounded before it is floored, which makes *)
(* no difference to an n that is exact.                                    *)
Quotient(n, d) ==
    LET whole    == n \div d
        fraction == 2 ^ Max({k \in 0 .. Mantissa : (n * 2 ^ k) \div d < Exact})
    IN  IF n < Exact THEN whole
        ELSE IF whole < Exact THEN Nearest(n * fraction, d) \div fraction
        ELSE Spacing(whole) * Nearest(n, d * Spacing(whole))

(* paddedValue *)
PaddedValue(key, length) ==
    LET digit(i) == IF i <= Len(key) THEN key[i] ELSE 0
        value[i \in 0 .. length] ==
            IF i = 0 THEN 0 ELSE Held(Held(value[i - 1] * Base) + digit(i))
    IN  value[length]

(* toKey *)
ToKey(value, length) ==
    LET remaining[i \in 0 .. length] ==
            IF i = 0 THEN value ELSE Quotient(remaining[i - 1], Base)
    IN  [i \in 1 .. length |-> remaining[length - i] % Base]

-----------------------------------------------------------------------------
(* keyBetween.  Bounds out of order are refused by the code, and none of   *)
(* its callers has them.                                                   *)
KeyBetween(lower, upper) ==
    LET low(i)  == IF i <= Len(lower) THEN lower[i] ELSE 0
        high(i) == IF i <= Len(upper) THEN upper[i] ELSE Base - 1
        fork    == Min({i \in 1 .. Len(lower) + Len(upper) + 1 : low(i) # high(i)})
        prefix  == [i \in 1 .. fork - 1 |-> low(i)]
    IN  IF high(fork) - low(fork) > 1
        THEN Append(prefix, (low(fork) + high(fork)) \div 2)
        ELSE prefix \o <<low(fork)>> \o SubSeq(lower, fork + 1, Len(lower)) \o <<Base \div 2>>

(* The last resort of keysForSequence: one key after the other. *)
Walk(count, lower, upper) ==
    LET walked[i \in 0 .. count] ==
            IF i = 0 THEN lower ELSE KeyBetween(walked[i - 1], upper)
    IN  [i \in 1 .. count |-> walked[i]]

(* keysForSequence: count keys spread evenly between the bounds, in the    *)
(* first length that leaves room for them.                                 *)
KeysForSequence(count, lower, upper) ==
    LET first   == Max({1, Len(lower), Len(upper)})
        floor(n)   == IF lower = NoBound THEN -1 ELSE PaddedValue(lower, n)
        ceiling(n) == IF upper = NoBound THEN Held(Power(Base, n)) ELSE PaddedValue(upper, n)
        gap(n)     == Held(ceiling(n) - floor(n))
        roomy   == {n \in {first} \cup (first + 1 .. MaxSequenceLength) : gap(n) >= 2 * (count + 1)}
        length  == Min(roomy)
        step    == Quotient(gap(length), count + 1)
        even(i) == Held(floor(length) + Held(step * i))
        key(i)  == ToKey(IF even(i) % Base = 0 THEN Held(even(i) + 1) ELSE even(i), length)
    IN  IF roomy = {} THEN Walk(count, lower, upper) ELSE [i \in 1 .. count |-> key(i)]
============================================================================
