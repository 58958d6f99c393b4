----------------------------- MODULE MCQpsBucket ----------------------------
(* Instances of QpsBucket for TLC. *)
EXTENDS QpsBucket, TLC

OnePeriod == 2 :> 2
TwoPeriods == 2 :> 2 @@ 4 :> 3

Local == [amount |-> TwoPeriods, asked |-> {1, 2}, global |-> FALSE,
          pass |-> FALSE, quiet |-> TRUE, degrade |-> FALSE,
          threads |-> 2, maxTime |-> 7, maxLost |-> 0, maxOthers |-> 0]
Remote == [Local EXCEPT !.amount = OnePeriod, !.asked = {1}, !.global = TRUE,
                        !.maxTime = 3, !.maxOthers = 1]

(* A local rule of two periods; a global rule with another client; a       *)
(* global rule whose report or answer is lost.                             *)
PassSetups ==
  {Local, Remote,
   [Remote EXCEPT !.threads = 1, !.maxTime = 5, !.maxLost = 1, !.maxOthers = 0]}

CallerSymmetry == Permutations(Callers)
=============================================================================
