------------------------ MODULE MCRateLimitConnector ------------------------
(* Instances of RateLimitConnector for TLC. *)
EXTENDS RateLimitConnector

(* Lost answers, timeouts and closed connections *)
Failures ==
  [target |-> [w \in Windows |-> IF w = "w1" THEN "t1" ELSE "t2"],
   order |-> <<"w1", "w2">>, start |-> {"s1"}, faults |-> 3, moves |-> 0,
   calm |-> TRUE, single |-> TRUE, reuse |-> FALSE, expiring |-> {}]

(* Windows that change servers *)
Moved == [Failures EXCEPT !.faults = 0, !.moves = 2, !.start = {"s1", "s2"}]

(* Failure, change of server and expiry together *)
Changes == [Failures EXCEPT !.faults = 1, !.moves = 2, !.expiring = {"w1"}]

(* An expired window that is used again *)
Reused == [Failures EXCEPT !.faults = 1, !.reuse = TRUE, !.expiring = {"w1"}]

(* One window replaces the other when their rule changes.                  *)
Replaced ==
  [Failures EXCEPT !.target = [w \in Windows |-> "t1"], !.faults = 1, !.expiring = {"w1"}]

SyncSetups == {Failures, Moved, Changes, Reused, Replaced}
ReplacedSetup == {Replaced}
LiveSetups == {[Failures EXCEPT !.faults = 2]}
=============================================================================
