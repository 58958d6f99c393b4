--------------------------- MODULE MCLocalRegistry ---------------------------
(* Instances of LocalRegistry for TLC. *)
EXTENDS LocalRegistry

Bounds(moves, expiries, crashes, failures) ==
  [moves |-> moves, expiries |-> expiries, crashes |-> crashes, failures |-> failures]

Asks(first, second) == [u \in Users |-> IF u = "u1" THEN first ELSE second]

(* A thread routes; nothing else happens to the service while it expires.  *)
Routing ==
  [asks |-> Asks(<<"Instances", "RouteRule">>, <<>>), types |-> {"Instances"},
   start |-> {"r1", NotFound}, disk |-> {NULL, "r1"}, up |-> TRUE, calm |-> TRUE,
   bounds |-> Bounds(1, 1, 0, 0)]

(* Two threads ask for the same data.                                      *)
Together ==
  [Routing EXCEPT !.asks = Asks(<<"Instances">>, <<"Instances">>), !.bounds = Bounds(0, 1, 0, 0)]

(* Rate limit rules expire at any time, even while they are loaded again.  *)
Limiting ==
  [Routing EXCEPT !.asks = Asks(<<"RateLimit">>, <<>>), !.types = {"RateLimit"},
                  !.calm = FALSE, !.bounds = Bounds(1, 1, 0, 1)]
LimitingTogether ==
  [Limiting EXCEPT !.asks = Asks(<<"RateLimit">>, <<"RateLimit">>),
                   !.start = {"r1"}, !.bounds = Bounds(0, 1, 0, 0)]

(* The process is started again, with and without servers.                 *)
Restarted ==
  [Limiting EXCEPT !.bounds = Bounds(1, 0, 1, 1)]
Unreachable ==
  [Together EXCEPT !.start = {"r1"}, !.up = FALSE, !.bounds = Bounds(0, 0, 1, 0)]

AllSetups == {Routing, Together, Limiting, LimitingTogether, Restarted, Unreachable}

(* Calls and answers meet the expiry of the service.                       *)
Raced == {[Routing EXCEPT !.calm = FALSE]}
=============================================================================
