----------------------------- MODULE MCExpenseClaim -----------------------------
(***************************************************************************)
(* The claims in which TLC explores ExpenseClaim.                          *)
(***************************************************************************)
EXTENDS ExpenseClaim, TLC

CONSTANTS c1, c2, i1, i2

\* The callers are interchangeable.
MCSymmetry == Permutations({c1, c2})
=============================================================================
