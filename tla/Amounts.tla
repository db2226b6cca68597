------------------------------- MODULE Amounts -------------------------------
(***************************************************************************)
(* The integer arithmetic the contracts share, and sums of amounts.        *)
(***************************************************************************)
EXTENDS Integers, FiniteSets

(* OpenZeppelin's Math.mulDiv, rounding down and up; c is never 0.         *)
MulDivFloor(a, b, c) == (a * b) \div c

MulDivCeil(a, b, c) == (a * b + c - 1) \div c

PosPart(i) == IF i > 0 THEN i ELSE 0

Lesser(a, b) == IF a < b THEN a ELSE b

-----------------------------------------------------------------------------
(* The sum of a natural-valued function with a finite domain, defined as   *)
(* the size of the region under its graph rather than by recursion, so     *)
(* that TLC can evaluate it and the proofs can reason about it with the    *)
(* facts on cardinality alone (see AmountProofs).                          *)
Column(f, x) == {x} \X (1..f[x])

Region(f) == UNION {Column(f, x) : x \in DOMAIN f}

SumOf(f) == Cardinality(Region(f))
=============================================================================
