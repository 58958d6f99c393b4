-------------------------- MODULE MCServerConnector --------------------------
(* Instances of ServerConnector for TLC. *)
EXTENDS ServerConnector

(* Failures while the discover service "d" and another one are sought      *)
Failures ==
  [discover |-> "d", start |-> {"r1"}, disk |-> {Empty}, faults |-> 3, moves |-> 1, calls |-> 1]

(* The discover service is missing at first.                               *)
Missing == [Failures EXCEPT !.start = {NotFound}, !.faults = 1]

(* The other service expires and comes back.                               *)
Expiry == [Failures EXCEPT !.faults = 1, !.calls = 3]

(* Seed servers only, data from files that may be out of date              *)
Seeds ==
  [discover |-> NULL, start |-> {"r1"}, disk |-> {"r1", "r2"},
   faults |-> 1, moves |-> 1, calls |-> 3]

(* Data that disappears and comes back                                     *)
Flapping == [Seeds EXCEPT !.disk = {Empty}, !.faults = 2, !.moves = 2, !.calls = 1]

AllSetups == {Failures, Missing, Expiry, Seeds, Flapping}
=============================================================================
