-------------------------------- MODULE Loops --------------------------------
(***************************************************************************)
(* A loop over the elements of an array, as a recursive function: what the *)
(* code's for statements compute.  Step makes the value after element k    *)
(* from the value before it; context is what the loop only reads.          *)
(***************************************************************************)
EXTENDS Integers

\* for (k = m + 1; k <= n; k++) value = Step(context, value, k)
Loop(Step(_, _, _), context, first, m, n) ==
  LET after[k \in m..n] == IF k = m THEN first ELSE Step(context, after[k - 1], k)
  IN after[n]
=============================================================================
