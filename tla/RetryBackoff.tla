---------------------------- MODULE RetryBackoff ----------------------------
(***************************************************************************)
(* How long a handler of the sync worker waits before it tries a target    *)
(* again: doubling from BASE_BACKOFF up to MAX_BACKOFF.  Durations are     *)
(* signed integers of a fixed width that wrap around.                      *)
(***************************************************************************)
EXTENDS Integers

CONSTANT Largest     \* the largest duration: 2^63 - 1 in the program

ASSUME LargestAssumption == Largest \in Nat \ {0}

Durations == -(Largest + 1) .. Largest

\* What n is as a duration.
Wrap(n) == ((n + Largest + 1) % (2 * (Largest + 1))) - (Largest + 1)

\* Faulty variant (BackoffIsCapped): the cap is looked at after the doubling,
\* which may have wrapped around.
BackoffFor_Late(attempt, base, max) ==
  LET cap == IF max <= 0 THEN base ELSE max
      d[i \in 0 .. attempt] ==
        IF i = 0 THEN base
        ELSE IF d[i - 1] > cap THEN cap ELSE Wrap(2 * d[i - 1])
  IN IF base <= 0 THEN 0
     ELSE IF d[attempt] > cap THEN cap ELSE d[attempt]

\* Once d is more than half the cap the loop is left with the cap: it stays the
\* cap, whose half it exceeds.
BackoffFor(attempt, base, max) ==
  LET cap == IF max <= 0 THEN base ELSE max
      d[i \in 0 .. attempt] ==
        IF i = 0 THEN base
        ELSE IF d[i - 1] > cap \div 2 THEN cap ELSE Wrap(2 * d[i - 1])
  IN IF base <= 0 THEN 0
     ELSE IF d[attempt] > cap THEN cap ELSE d[attempt]

\* What it should be: the base doubled for every failed attempt, or the cap if
\* that is more, in numbers that do not wrap.
Reference(attempt, base, max) ==
  LET cap == IF max <= 0 THEN base ELSE max
      full[i \in 0 .. attempt] == IF i = 0 THEN base ELSE 2 * full[i - 1]
  IN IF base <= 0 THEN 0
     ELSE IF full[attempt] > cap THEN cap ELSE full[attempt]
=============================================================================
