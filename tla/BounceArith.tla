---------------------------- MODULE BounceArith ------------------------------
(***************************************************************************)
(* The arithmetic that bounce1d.c and tbounce1d.c share: the tests of the  *)
(* two sides of the screen, and what the keys f and s make of the delay.   *)
(***************************************************************************)
EXTENDS Integers

CONSTANTS COLS,          \* the width of the screen
          Len,           \* strlen of the word
          FirstDelay,    \* the first delay, 200 in the programs
          IntMax,        \* INT_MAX
          MaxKeys        \* bound on the keys pressed

ASSUME ArithAssumption ==
  /\ Len \in Nat \ {0} /\ COLS \in Nat /\ COLS > Len + 1
  /\ IntMax \in Nat /\ FirstDelay \in 1..IntMax
  /\ MaxKeys \in Nat

\* Slip, for ScreenKept: dir == -1 not tested at the left edge.
TurnAtLeft(c, d) == IF c <= 0 THEN -d
                    ELSE IF d = 1 /\ (c + Len < 0 \/ c + Len >= COLS) THEN -1
                    ELSE d

\* Slip, for WordBounded: > COLS for >= COLS.
TurnBehind(c, d) == IF c <= 0 /\ d = -1 THEN 1
                    ELSE IF d = 1 /\ (c + Len < 0 \/ c + Len > COLS) THEN -1
                    ELSE d

\* The direction the tests of the edges leave.  col + strlen(word) is a size_t,
\* in which a negative sum is a huge one.
AtEdge(c, d) == IF c <= 0 /\ d = -1 THEN 1
                ELSE IF d = 1 /\ (c + Len < 0 \/ c + Len >= COLS) THEN -1
                ELSE d

\* The product of an int and 2, in an int.
Twice(n) == IF 2 * n > IntMax THEN 2 * n - 2 * (IntMax + 1) ELSE 2 * n

\* Slip, for TimerArmed: if (newdelay > 0) left out.
SetDelayAlways(delay, newdelay) == newdelay

\* if (newdelay > 0) delay = newdelay
SetDelay(delay, newdelay) == IF newdelay > 0 THEN newdelay ELSE delay

Faster(delay) == SetDelay(delay, IF delay > 2 THEN delay \div 2 ELSE 0)
Slower(delay) == SetDelay(delay, Twice(delay))
=============================================================================
