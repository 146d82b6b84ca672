------------------------------ MODULE Backoff ------------------------------
(***************************************************************************)
(* The pause before a retry (calculateBackoff), in the 64-bit arithmetic   *)
(* of time.Duration.  A 64-bit word is the set of its bits that are 1, so  *)
(* that a product by a power of two is a shift that drops high bits.       *)
(***************************************************************************)
EXTENDS Integers

Bits == 0 .. 63
Word(n) == {b \in 0 .. 30 : (n \div 2^b) % 2 = 1}
Shift(word, k) == {b + k : b \in word} \cap Bits

Negative(word) == 63 \in word
\* word > limit, for a limit that is not negative.
Exceeds(word, limit) ==
  ~Negative(word) /\ \E b \in word \ limit : \A c \in limit \ word : c < b

Second == Word(1000000000)
FiveSeconds == Shift(Word(312500000), 4)
ThirtySeconds == Shift(Word(1875000000), 4)

Exponential_ShiftByAttempt(n) == Shift(Second, n)

(* 1 << uint(attempt - 1): for attempt 0 the shift is by 2^64 - 1.         *)
Exponential(n) ==
  IF n = 0 THEN {} ELSE Shift(Second, n - 1)

CalculateBackoff_Uncapped(n, kind) ==
  IF kind = "exponential" THEN Exponential(n) ELSE FiveSeconds

CalculateBackoff(n, kind) ==
  IF kind # "exponential" THEN FiveSeconds
  ELSE IF Exceeds(Exponential(n), ThirtySeconds) THEN ThirtySeconds
  ELSE Exponential(n)
=============================================================================
