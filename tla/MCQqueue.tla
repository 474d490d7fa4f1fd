------------------------------ MODULE MCQqueue ------------------------------
(* Qqueue with two values, which are interchangeable.                       *)
EXTENDS Qqueue, TLC

CONSTANTS u, v

ValueSymmetry == Permutations(Values)
=============================================================================
