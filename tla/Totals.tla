------------------------------- MODULE Totals -------------------------------
(***************************************************************************)
(* The sum of a finite function with natural values, as the number of      *)
(* pairs it covers.  It has no recursion, so the provers can reason about  *)
(* it from the theorems on cardinalities.                                  *)
(***************************************************************************)
EXTENDS Integers, FiniteSets

\* The unit pairs that element x of a function f contributes.
Units(f, x) == {x} \X (1 .. f[x])

\* The sum of f[x] over the domain of f.
Total(f) == Cardinality(UNION {Units(f, x) : x \in DOMAIN f})
=============================================================================
