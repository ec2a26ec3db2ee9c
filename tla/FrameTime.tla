------------------------------ MODULE FrameTime ------------------------------
(***************************************************************************)
(* The arithmetic that the compiler and both renderers share: moments are  *)
(* whole ticks (the code's microseconds), Second of them to a second, and  *)
(* a division is rounded to the nearest tick or frame, halves up.          *)
(***************************************************************************)
EXTENDS Integers

CONSTANT Second      \* ticks to the second

ASSUME SecondAssumption == Second \in Nat \ {0}

Abs(x) == IF x < 0 THEN -x ELSE x
Round(a, b) == (2 * a + b) \div (2 * b)
=============================================================================
