------------------------------ MODULE MCRcuMap ------------------------------
(* Instances of RcuMap for TLC. *)
EXTENDS RcuMap, TLC

Symmetric == Permutations(Keys) \cup Permutations(Values)
               \cup Permutations(Cells) \cup Permutations(Readers)
=============================================================================
