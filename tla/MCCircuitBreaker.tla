-------------------------- MODULE MCCircuitBreaker --------------------------
(* Instances of CircuitBreaker for TLC. *)
EXTENDS CircuitBreaker, TLC

Basic == [when |-> "never", threshold |-> 2, volume |-> 2, results |-> BOOLEAN, longWait |-> 2, threads |-> 1,
          maxCalls |-> 3, maxVersion |-> 4, maxGen |-> 0, stall |-> FALSE,
          expiry |-> FALSE]

Small == [Basic EXCEPT !.threshold = 1, !.volume = 1, !.maxCalls = 2]

(* Two callers whose calls fail: they reopen an instance twice and may     *)
(* leave errorCount half-open.                                             *)
Failing == [Small EXCEPT !.threads = 2, !.longWait = 1, !.maxVersion = 6,
                         !.volume = 3, !.results = {FALSE}]

(* One caller through several trips; two callers; entries that expire; a   *)
(* service that expires; health checks always and on recovery.             *)
SafetySetups ==
  {Basic, Failing,
   [Small EXCEPT !.threads = 2, !.longWait = 1],
   [Small EXCEPT !.longWait = 1, !.maxVersion = 2, !.maxGen = 1],
   [Small EXCEPT !.longWait = 1, !.maxVersion = 2, !.expiry = TRUE],
   [Small EXCEPT !.when = "always", !.maxVersion = 3],
   [Small EXCEPT !.when = "on_recover", !.maxVersion = 3],
   [Small EXCEPT !.when = "on_recover", !.longWait = 1, !.results = {FALSE}]}

LiveSetups ==
  {Small, Failing,
   [Small EXCEPT !.when = "on_recover", !.longWait = 1, !.maxVersion = 3,
                 !.volume = 3, !.results = {FALSE}]}

CallerSymmetry == Permutations(Callers)
=============================================================================
