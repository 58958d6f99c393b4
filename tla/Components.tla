----------------------------- MODULE Components -----------------------------
(* Components that share no state with each other: a behaviour runs one of *)
(* them, which its initial state chooses, in one of its setups.  Each uses *)
(* as many of the variables v1 .. v12 as it has, in the order in which its *)
(* module declares them; the others stay <<>>.                             *)
EXTENDS Integers, FiniteSets, Sequences

CONSTANTS NULL, MaxWindows,
          BalancerSetups, QuotaSetups, SetSetups, MonitorSetups

(* An instance that is half open has at most the requests left that the    *)
(* breaker allows.                                                         *)
ASSUME BalancersAssumption ==
  \A s \in BalancerSetups : /\ s.requests \in Nat /\ s.start \in Int
                            /\ \A i \in DOMAIN s.data : s.data[i] \in 0..s.requests

(* Callers are finitely many; rules are ordered by two numbers, their       *)
(* priority and the order of their ids.                                     *)
QuotasFit ==
  /\ NULL \notin Nat
  /\ \A s \in QuotaSetups :
       /\ IsFiniteSet(s.callers) /\ NULL \notin s.callers /\ s.lru \in Nat
       /\ s.rules # <<>> /\ s.rules \in Seq({s.rules[v] : v \in DOMAIN s.rules})
       /\ \A v \in DOMAIN s.rules : \A rule \in s.rules[v] :
            rule.priority \in Nat /\ s.order[rule.id] \in Nat
ASSUME QuotasAssumption == QuotasFit

VARIABLES part, setup, v1, v2, v3, v4, v5, v6, v7, v8, v9, v10, v11, v12

all == <<part, setup, v1, v2, v3, v4, v5, v6, v7, v8, v9, v10, v11, v12>>

-----------------------------------------------------------------------------
Balancers == INSTANCE LoadBalancers WITH Setups <- BalancerSetups, halfData <- v1,
  tries <- v2, released <- v3, clock <- v4, thread <- v5, response <- v6, given <- v7,
  releases <- v8

Quota == INSTANCE QuotaManager WITH Setups <- QuotaSetups, version <- v1, clock <- v2,
  win <- v3, cache <- v4, recent <- v5, size <- v6, garbage <- v7, lock <- v8,
  caller <- v9, reactor <- v10, collector <- v11

Sets == INSTANCE SetCircuitBreaker WITH Setups <- SetSetups, revision <- v1, held <- v2,
  windows <- v3, win <- v4, server <- v5, conn <- v6, sets <- v7, registry <- v8,
  clock <- v9

Reports == INSTANCE Monitor WITH Setups <- MonitorSetups, now <- v1, worker <- v2,
  tls <- v3, statMap <- v4, prepare <- v5, gathered <- v6, counted <- v7, source <- v8,
  record <- v9, cached <- v10, report <- v11

-----------------------------------------------------------------------------
(* The variables after the nth are not used. *)
Rest(n) ==
  /\ IF n < 3 THEN v3 = <<>> ELSE TRUE
  /\ IF n < 4 THEN v4 = <<>> ELSE TRUE
  /\ IF n < 5 THEN v5 = <<>> ELSE TRUE
  /\ IF n < 6 THEN v6 = <<>> ELSE TRUE
  /\ IF n < 7 THEN v7 = <<>> ELSE TRUE
  /\ IF n < 8 THEN v8 = <<>> ELSE TRUE
  /\ IF n < 9 THEN v9 = <<>> ELSE TRUE
  /\ IF n < 10 THEN v10 = <<>> ELSE TRUE
  /\ IF n < 11 THEN v11 = <<>> ELSE TRUE
  /\ IF n < 12 THEN v12 = <<>> ELSE TRUE

Init ==
  \/ part = "balancers" /\ Balancers!Init /\ Rest(8)
  \/ part = "quota" /\ Quota!Init /\ Rest(11)
  \/ part = "sets" /\ Sets!Init /\ Rest(9)
  \/ part = "monitor" /\ Reports!Init /\ Rest(11)

Next ==
  \/ part = "balancers" /\ Balancers!Next /\ UNCHANGED <<part, v9, v10, v11, v12>>
  \/ part = "quota" /\ Quota!Next /\ UNCHANGED <<part, v12>>
  \/ part = "sets" /\ Sets!Next /\ UNCHANGED <<part, v10, v11, v12>>
  \/ part = "monitor" /\ Reports!Next /\ UNCHANGED <<part, v12>>

Spec == Init /\ [][Next]_all

-----------------------------------------------------------------------------
(* LoadBalancers: half-open instances get no more requests than allowed.   *)
HalfOpenBudget == part = "balancers" => Balancers!HalfOpenBudget

(* LoadBalancers: backups are complete and shares follow the weights.      *)
ChoicesFair == part = "balancers" => Balancers!ChoicesFair

(* QuotaManager: references to windows are exact, the cache keeps its size. *)
WindowCacheSound == part = "quota" => Quota!WindowCacheSound

(* SetCircuitBreaker: each window has one query and one report timer.      *)
OneLoop == part = "sets" => Sets!OneLoop

(* SetCircuitBreaker: a set closes no sooner than its windows allow, if    *)
(* the clocks of the metric servers agree.                                 *)
RecoveryTakesItsTime == [][part = "sets" => Sets!ClosesInTime]_all


(* Monitor: every report has exactly one timer.                            *)
OneTimerPerReport == part = "monitor" => Reports!OneTimerPerReport
=============================================================================
