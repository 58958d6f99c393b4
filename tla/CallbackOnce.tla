---------------------------- MODULE CallbackOnce ----------------------------
(* What an asynchronous operation promises: after a caller has asked, its  *)
(* callback is called exactly once, with a result or with a timeout.       *)

CONSTANT Callers

VARIABLE status

Init == status = [c \in Callers |-> "idle"]

Ask(c) == status[c] = "idle" /\ status' = [status EXCEPT ![c] = "asked"]

(* An operation may also end while it is being started.                    *)
Answer(c) ==
  /\ status[c] \in {"idle", "asked"}
  /\ \E result \in {"ready", "timeout"} : status' = [status EXCEPT ![c] = result]

(* One event may end the operations of several callers.                    *)
AnswerAll(cs) ==
  /\ \A c \in cs : status[c] = "asked"
  /\ \E result \in {"ready", "timeout"} :
       status' = [c \in Callers |-> IF c \in cs THEN result ELSE status[c]]

Next == (\E c \in Callers : Ask(c) \/ Answer(c)) \/ (\E cs \in SUBSET Callers : AnswerAll(cs))

Answered == \A c \in Callers : status[c] = "asked" ~> status[c] \in {"ready", "timeout"}

Spec == Init /\ [][Next]_status /\ Answered
=============================================================================
