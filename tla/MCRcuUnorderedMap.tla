------------------------- MODULE MCRcuUnorderedMap --------------------------
(* Instances of RcuUnorderedMap for TLC. *)
EXTENDS RcuUnorderedMap, TLC

Symmetric == Permutations(Keys) \cup Permutations(Values)
               \cup Permutations(Cells) \cup Permutations(Readers)

(* Entries of two keys with nested sections and no clock skew; stalls of   *)
(* one tick against a grace period of one tick.                            *)
PassSetups ==
  {[grace |-> 0, nested |-> TRUE, stall |-> 0, maxTime |-> 2, objects |-> 3,
    keys |-> Keys]}
  \cup {[grace |-> 1, nested |-> FALSE, stall |-> 1, maxTime |-> 4, objects |-> 2,
         keys |-> {k}] : k \in Keys}
FreshSetups ==
  {[grace |-> 1, nested |-> FALSE, stall |-> 1, maxTime |-> 4, objects |-> 2,
    keys |-> Keys]}
=============================================================================
