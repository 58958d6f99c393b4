--------------------------- MODULE ComponentsProof ---------------------------
(***************************************************************************)
(* Proofs about the components that MCComponents runs side by side, each   *)
(* for any setups.  They share no state: the specification of each is      *)
(* proved about on its own.                                                *)
(***************************************************************************)
EXTENDS Components, SequenceTheorems, FiniteSetTheorems, WellFoundedInduction,
        TLAPS

(* A behaviour runs one part.                                              *)
LEMMA PartStep ==
  ASSUME [Next]_all
  PROVE  /\ UNCHANGED part
         /\ part = "monitor" => [Reports!Next]_(Reports!monVars)
         /\ part = "balancers" => [Balancers!Next]_(Balancers!vars)
         /\ part = "sets" => [Sets!Next]_(Sets!vars)
         /\ part = "quota" => [Quota!Next]_(Quota!vars)
<1>1. CASE UNCHANGED all
  BY <1>1 DEF all, Reports!monVars, Balancers!vars, Sets!vars, Quota!vars
<1>2. CASE Next
  BY <1>2 DEF Next
<1> QED
  BY <1>1, <1>2

LEMMA PartInit ==
  ASSUME Init
  PROVE  /\ part = "monitor" => Reports!Init
         /\ part = "balancers" => Balancers!Init
         /\ part = "sets" => Sets!Init
         /\ part = "quota" => Quota!Init
  BY DEF Init

-----------------------------------------------------------------------------
(***************************************************************************)
(* Monitor: one timer for each report                                      *)
(***************************************************************************)
(* The variables of Monitor that its timers depend on. *)
prepare == v5
source == v8
report == v11
USE DEF prepare, source, report

(* A report between two steps of the reactor. *)
Timed(k, r) ==
  /\ DOMAIN r = DOMAIN Reports!ReportBase
  /\ \/ r.due = 1 /\ r.check = 0 /\ r.wait \in 1..Reports!ReportInterval(k)
        /\ r.flag = FALSE /\ r.instance = FALSE /\ r.client = FALSE
     \/ r.due = 0 /\ r.check = 1 /\ r.flag = TRUE /\ r.instance = TRUE /\ r.client = TRUE
  /\ k \in Reports!UnaryReport /\ r.check = 1 => r.limit = Reports!message_timeout

(* A report whose task the reactor has taken off. *)
Fired(k, r) ==
  /\ DOMAIN r = DOMAIN Reports!ReportBase
  /\ r.due = 0 /\ r.check = 0 /\ r.flag = FALSE /\ r.instance = FALSE /\ r.client = FALSE

TimerInv ==
  /\ DOMAIN report = setup.reports
  /\ \A k \in setup.reports : Timed(k, report[k])
  /\ "step" \in DOMAIN prepare /\ prepare.step \in {"idle", "swapped"}
  /\ prepare.step = "swapped" => "stat" \in setup.reports /\ report["stat"].due = 1

LEMMA IntervalLong == \A k : Reports!ReportInterval(k) \in Int /\ Reports!ReportInterval(k) >= 60000
  BY DEF Reports!ReportInterval

LEMMA FiredRearmed ==
  ASSUME NEW k, NEW r, Fired(k, r), NEW d \in 1..Reports!ReportInterval(k)
  PROVE  Timed(k, Reports!SetUpTimingReport(r, d))
  BY DEF Fired, Timed, Reports!SetUpTimingReport, Reports!ReportBase

LEMMA FiredSent ==
  ASSUME NEW k, NEW r, Fired(k, r), NEW p \in Reports!PrepareGrpcClient(r),
         NEW n, NEW t, k \in Reports!UnaryReport => t = Reports!message_timeout
  PROVE  Timed(k, IF p.ok THEN Reports!Await(p.report, n, t)
                          ELSE Reports!SetUpTimingReport(p.report, Reports!ReportInterval(k)))
<1>1. CASE p = [ok |-> FALSE, report |-> r]
  BY <1>1, IntervalLong, FiredRearmed
<1>2. CASE p = [ok |-> FALSE, report |-> Reports!UpdateCallResult(Reports!GetInstance(r))]
  <2>1. Fired(k, p.report)
    BY <1>2 DEF Fired, Reports!UpdateCallResult, Reports!GetInstance, Reports!ReportBase
  <2> QED
    BY <1>2, <2>1, IntervalLong, FiredRearmed
<1>3. CASE p = [ok |-> TRUE, report |-> [Reports!GetInstance(r) EXCEPT !.client = TRUE]]
  <2> DEFINE q == [Reports!GetInstance(r) EXCEPT !.client = TRUE]
  <2>1. /\ DOMAIN q = DOMAIN Reports!ReportBase
        /\ q.due = 0 /\ q.check = 0 /\ q.flag = FALSE /\ q.instance = TRUE /\ q.client = TRUE
    BY DEF Fired, Reports!GetInstance, Reports!ReportBase
  <2> HIDE DEF q
  <2>2. Timed(k, Reports!Await(q, n, t))
    BY <2>1 DEF Timed, Reports!Await, Reports!ReportBase
  <2> QED
    BY <1>3, <2>2 DEF q
<1> QED
  BY <1>1, <1>2, <1>3 DEF Reports!PrepareGrpcClient

LEMMA FiredReport ==
  ASSUME NEW k, k \notin Reports!UnaryReport, NEW r, Fired(k, r), NEW n, NEW s \in Reports!Send(k, r, n)
  PROVE  Timed(k, s)
<1>1. CASE n = 0
  BY <1>1, IntervalLong, FiredRearmed DEF Reports!Send
<1>2. CASE n # 0
  BY <1>2, FiredSent DEF Reports!Send, Reports!SendMessages, Reports!PerpareStream
<1> QED
  BY <1>1, <1>2

(* The reactor fires a report task that is due. *)
LEMMA FireFired ==
  ASSUME TimerInv, NEW k \in setup.reports, report[k].due > 0
  PROVE  Fired(k, Reports!Fire(k))
<1>1. Timed(k, report[k]) /\ report[k].due = 1
  BY DEF TimerInv, Timed
<1> QED
  BY <1>1 DEF Timed, Fired, Reports!Fire, Reports!ReportBase

(* A report that replaces another fits as well. *)
LEMMA ReportSet ==
  ASSUME TimerInv, UNCHANGED setup, NEW k \in setup.reports, NEW r, Timed(k, r),
         report' = [report EXCEPT ![k] = r], "step" \in DOMAIN prepare', prepare'.step = "idle"
  PROVE  TimerInv'
  BY DEF TimerInv, Timed, Reports!ReportInterval

LEMMA TimerFired ==
  ASSUME TimerInv,
         \/ Reports!ReportSdkConfig \/ Reports!ReportSdkApiStat \/ Reports!ReportServiceCache
         \/ Reports!ReportCircuitStat \/ Reports!ReportSetCircuitStat \/ Reports!ReportRateLimit
         \/ Reports!ReportServiceRouterStat
  PROVE  TimerInv'
<1> USE DEF Reports!statVars
<1>1. CASE Reports!ReportSdkConfig
  <2>1. PICK p \in Reports!PrepareGrpcClient(Reports!Fire("config")) :
           report' = [report EXCEPT !["config"] =
                         IF p.ok THEN Reports!Await(p.report, 1, Reports!message_timeout)
                                 ELSE Reports!SetUpTimingReport(p.report, Reports!ReportInterval("config"))]
    BY <1>1 DEF Reports!ReportSdkConfig
  <2>2. Fired("config", Reports!Fire("config"))
    BY <1>1, FireFired DEF Reports!ReportSdkConfig, Reports!CanFire
  <2>3. "step" \in DOMAIN prepare' /\ prepare'.step = "idle"
    BY <1>1 DEF Reports!ReportSdkConfig, Reports!CanFire, TimerInv
  <2> QED
    BY <1>1, <2>1, <2>2, <2>3, FiredSent, ReportSet DEF Reports!ReportSdkConfig, Reports!CanFire
<1>2. ASSUME NEW k \in Reports!StreamReport, Reports!CanFire(k), UNCHANGED <<setup, prepare>>,
             NEW n, NEW r \in Reports!Send(k, Reports!Fire(k), n), report' = [report EXCEPT ![k] = r]
      PROVE  TimerInv'
  <2>1. Fired(k, Reports!Fire(k))
    BY <1>2, FireFired DEF Reports!CanFire
  <2>2. Timed(k, r)
    BY <1>2, <2>1, FiredReport DEF Reports!StreamReport
  <2>3. "step" \in DOMAIN prepare' /\ prepare'.step = "idle"
    BY <1>2 DEF Reports!CanFire, TimerInv
  <2> QED
    BY <1>2, <2>2, <2>3, ReportSet DEF Reports!CanFire
<1> USE DEF Reports!StreamReport, Reports!UnaryReport, Reports!ReportTaskType
<1>3. CASE Reports!ReportSdkApiStat
  BY <1>2, <1>3 DEF Reports!ReportSdkApiStat
<1>4. CASE Reports!ReportServiceCache
  BY <1>2, <1>4 DEF Reports!ReportServiceCache
<1>5. CASE Reports!ReportCircuitStat
  BY <1>2, <1>5 DEF Reports!ReportCircuitStat
<1>6. CASE Reports!ReportSetCircuitStat
  BY <1>2, <1>6 DEF Reports!ReportSetCircuitStat
<1>7. CASE Reports!ReportRateLimit
  BY <1>2, <1>7 DEF Reports!ReportRateLimit
<1>8. CASE Reports!ReportServiceRouterStat
  BY <1>2, <1>8 DEF Reports!ReportServiceRouterStat
<1> QED
  BY <1>1, <1>3, <1>4, <1>5, <1>6, <1>7, <1>8

(* The collector of the calls: its report task is due until it is done. *)
LEMMA TimerCollected ==
  ASSUME TimerInv, Reports!SwapMaps \/ Reports!ReportServiceStat
  PROVE  TimerInv'
<1>1. CASE Reports!SwapMaps
  <2>1. UNCHANGED <<setup, report>> /\ "step" \in DOMAIN prepare' /\ prepare'.step = "swapped" /\ "stat" \in setup.reports /\ report["stat"].due > 0
    BY <1>1 DEF Reports!SwapMaps, Reports!CanFire
  <2> QED
    BY <2>1 DEF TimerInv, Timed
<1>2. CASE Reports!ReportServiceStat
  <2>1. "stat" \in setup.reports /\ report["stat"].due > 0
    <3>1. prepare.step = "swapped" \/ Reports!CanFire("stat")
      BY <1>2, Zenon DEF Reports!ReportServiceStat
    <3> QED
      BY <3>1 DEF Reports!CanFire, TimerInv
  <2>2. Fired("stat", Reports!Fire("stat"))
    BY <2>1, FireFired
  <2>3. UNCHANGED setup /\ "step" \in DOMAIN prepare' /\ prepare'.step = "idle"
    <3>1. UNCHANGED setup /\ (Reports!CollectData \/ \E t : prepare' = [prepare EXCEPT !.time = t, !.step = "idle"])
      BY <1>2, Zenon DEF Reports!ReportServiceStat
    <3>2. Reports!CollectData => prepare' = [time |-> 0, data |-> {}, step |-> "idle"]
      BY Zenon DEF Reports!CollectData
    <3>3. ASSUME NEW t, prepare' = [prepare EXCEPT !.time = t, !.step = "idle"]
          PROVE  "step" \in DOMAIN prepare' /\ prepare'.step = "idle"
      BY <3>3 DEF TimerInv
    <3>4. CASE Reports!CollectData
      BY <3>1, <3>2, <3>4
    <3> QED
      BY <3>1, <3>3, <3>4
  <2>4. \E r : Timed("stat", r) /\ report' = [report EXCEPT !["stat"] = r]
    <3>1. \/ report' = [report EXCEPT !["stat"] = Reports!SetUpTimingReport(Reports!Fire("stat"), 100)]
          \/ \E total :
                \E r \in IF total = Reports!NoCalls
                         THEN {Reports!SetUpTimingReport(Reports!Fire("stat"), Reports!ReportInterval("stat"))}
                         ELSE Reports!SendMessages("stat", Reports!Fire("stat"), Reports!BuildServiceStat(total)) :
                    report' = [report EXCEPT !["stat"] = r]
      BY <1>2, Zenon DEF Reports!ReportServiceStat
    <3>2. Timed("stat", Reports!SetUpTimingReport(Reports!Fire("stat"), 100))
      BY <2>2, FiredRearmed, IntervalLong
    <3>3. Timed("stat", Reports!SetUpTimingReport(Reports!Fire("stat"), Reports!ReportInterval("stat")))
      BY <2>2, FiredRearmed, IntervalLong
    <3>4. ASSUME NEW n, NEW r \in Reports!SendMessages("stat", Reports!Fire("stat"), n)
          PROVE  Timed("stat", r)
      BY <2>2, <3>4, FiredSent DEF Reports!SendMessages, Reports!PerpareStream, Reports!UnaryReport
    <3> QED
      BY <3>1, <3>2, <3>3, <3>4
  <2> QED
    BY <2>1, <2>3, <2>4, ReportSet
<1> QED
  BY <1>1, <1>2

(* The answers, and the timeouts that stand for them. *)
LEMMA TimerAnswered ==
  ASSUME TimerInv, NEW k \in setup.reports,
         \/ Reports!DeferDelete(k) \/ Reports!OnSuccess(k) \/ Reports!OnFailure(k)
         \/ Reports!UnaryTimeoutCheck(k) \/ Reports!OnReceiveMessage(k) \/ Reports!OnRemoteClose(k)
         \/ Reports!StreamTimeoutCheck(k)
  PROVE  TimerInv'
<1>1. CASE Reports!DeferDelete(k)
  <2>1. report' = [report EXCEPT ![k] = [report[k] EXCEPT !.doomed = FALSE]] /\ UNCHANGED <<setup, prepare>>
    BY <1>1 DEF Reports!DeferDelete, Reports!statVars, TimerInv
  <2>2. Timed(k, [report[k] EXCEPT !.doomed = FALSE]) /\ [report[k] EXCEPT !.doomed = FALSE].due = report[k].due
    BY DEF TimerInv, Timed, Reports!ReportBase
  <2> QED
    BY <2>1, <2>2 DEF TimerInv, Timed, Reports!ReportInterval
<1>2. ASSUME NEW r, Timed(k, r), Reports!Answer(k, r)
      PROVE  TimerInv'
  <2>1. "step" \in DOMAIN prepare' /\ prepare'.step = "idle" /\ UNCHANGED setup
    BY <1>2 DEF Reports!Answer, Reports!statVars, TimerInv
  <2> QED
    BY <1>2, <2>1, ReportSet DEF Reports!Answer
<1> DEFINE Done(r) == Reports!SetUpTimingReport(Reports!UpdateCallResult(r), Reports!ReportInterval(k))
<1>3. ASSUME NEW r, DOMAIN r = DOMAIN Reports!ReportBase, r.due = 0, r.check = 0, r.flag = FALSE,
             NEW d \in 1..Reports!ReportInterval(k)
      PROVE  Timed(k, Reports!SetUpTimingReport(Reports!UpdateCallResult(r), d))
  <2>1. Fired(k, Reports!UpdateCallResult(r))
    BY <1>3 DEF Fired, Reports!UpdateCallResult, Reports!ReportBase
  <2> QED
    BY <2>1, FiredRearmed
<1>4. report[k].client =>
        /\ DOMAIN report[k] = DOMAIN Reports!ReportBase
        /\ report[k].due = 0 /\ report[k].check = 1 /\ report[k].flag = TRUE
        /\ k \in Reports!UnaryReport => report[k].limit = Reports!message_timeout
  BY DEF TimerInv, Timed
<1>5. CASE Reports!OnSuccess(k) \/ Reports!OnFailure(k)
  <2> DEFINE r == Reports!CancelTimingTask(report[k])
  <2>1. report[k].client /\ Reports!Answer(k, Done(r))
    BY <1>5 DEF Reports!OnSuccess, Reports!OnFailure, Reports!Answer
  <2>2. DOMAIN r = DOMAIN Reports!ReportBase /\ r.due = 0 /\ r.check = 0 /\ r.flag = FALSE
    BY <1>4, <2>1 DEF Reports!CancelTimingTask, Reports!ReportBase
  <2> HIDE DEF r
  <2>3. Reports!ReportInterval(k) \in 1..Reports!ReportInterval(k)
    BY IntervalLong
  <2>4. Timed(k, Done(r))
    BY <1>3, <2>2, <2>3
  <2> HIDE DEF Done
  <2> QED
    BY <1>2, <2>1, <2>4
<1>6. CASE Reports!OnRemoteClose(k)
  <2> DEFINE r == [Reports!CancelTimingTask(report[k]) EXCEPT !.succ = 0, !.fail = 0]
  <2>1. report[k].client /\ Reports!Answer(k, Done(r))
    BY <1>6 DEF Reports!OnRemoteClose, Reports!Answer
  <2>2. DOMAIN r = DOMAIN Reports!ReportBase /\ r.due = 0 /\ r.check = 0 /\ r.flag = FALSE
    BY <1>4, <2>1 DEF Reports!CancelTimingTask, Reports!ReportBase
  <2> HIDE DEF r
  <2>3. Reports!ReportInterval(k) \in 1..Reports!ReportInterval(k)
    BY IntervalLong
  <2>4. Timed(k, Done(r))
    BY <1>3, <2>2, <2>3
  <2> HIDE DEF Done
  <2> QED
    BY <1>2, <2>1, <2>4
<1>7. CASE Reports!OnReceiveMessage(k)
  <2>1. PICK r \in {[report[k] EXCEPT !.succ = @ + 1], [report[k] EXCEPT !.fail = @ + 1]} : Reports!Answer(k, r)
    BY <1>7 DEF Reports!OnReceiveMessage
  <2>2. Timed(k, r)
    BY <2>1 DEF TimerInv, Timed, Reports!ReportBase
  <2> QED
    BY <1>2, <2>1, <2>2
<1> DEFINE e == Reports!Expire(k)
<1>8. report[k].client => /\ DOMAIN e = DOMAIN Reports!ReportBase
                          /\ e.due = 0 /\ e.check = 0
                          /\ e.flag = FALSE
  BY <1>4 DEF e, Reports!Expire, Reports!ReportBase
<1> HIDE DEF e
<1>9. CASE Reports!StreamTimeoutCheck(k)
  <2> DEFINE r == Reports!SetUpTimingReport(Reports!UpdateCallResult(e), Reports!ReportInterval(k) - 2000)
  <2>1. report[k].client /\ Reports!Answer(k, r)
    BY <1>9 DEF e, Reports!StreamTimeoutCheck, Reports!Answer, Reports!message_timeout
  <2>2. PICK d \in 1..Reports!ReportInterval(k) : d = Reports!ReportInterval(k) - 2000
    BY IntervalLong
  <2>3. Timed(k, Reports!SetUpTimingReport(Reports!UpdateCallResult(e), d))
    <3>1. DOMAIN e = DOMAIN Reports!ReportBase /\ e.due = 0 /\ e.check = 0 /\ e.flag = FALSE
      BY <1>8, <2>1
    <3> QED
      BY <1>3, <3>1
  <2> QED
    BY <1>2, <2>1, <2>2, <2>3
<1>10. CASE Reports!UnaryTimeoutCheck(k)
  <2>1. PICK delay \in {report[k].limit, report[k].limit + Reports!connect_timeout} :
           Reports!Answer(k, Reports!SetUpTimingReport(Reports!UpdateCallResult(e),
                                IF Reports!ReportInterval(k) > delay THEN Reports!ReportInterval(k) - delay ELSE 1000))
    BY <1>10 DEF e, Reports!UnaryTimeoutCheck
  <2>2. report[k].client /\ report[k].limit = 2000
    BY <1>4, <1>10, <2>1 DEF Reports!UnaryTimeoutCheck, Reports!Answer, Reports!message_timeout
  <2>3. PICK d \in 1..Reports!ReportInterval(k) : d = Reports!ReportInterval(k) - delay
    BY <2>1, <2>2, IntervalLong DEF Reports!connect_timeout
  <2>4. Reports!ReportInterval(k) > delay
    BY <2>1, <2>2, IntervalLong DEF Reports!connect_timeout
  <2>5. Reports!Answer(k, Reports!SetUpTimingReport(Reports!UpdateCallResult(e), d))
    BY <2>1, <2>3, <2>4
  <2>6. Timed(k, Reports!SetUpTimingReport(Reports!UpdateCallResult(e), d))
    <3>1. DOMAIN e = DOMAIN Reports!ReportBase /\ e.due = 0 /\ e.check = 0 /\ e.flag = FALSE
      BY <1>8, <2>2
    <3> QED
      BY <1>3, <3>1
  <2> QED
    BY <1>2, <2>5, <2>6
<1> QED
  BY <1>1, <1>5, <1>6, <1>7, <1>9, <1>10

LEMMA TimerUntouched ==
  ASSUME TimerInv, UNCHANGED <<setup, report, prepare>>
  PROVE  TimerInv'
  BY DEF TimerInv, Timed, Reports!ReportInterval

LEMMA TimerStep == TimerInv /\ [Reports!Next]_(Reports!monVars) => TimerInv'
<1> SUFFICES ASSUME TimerInv, [Reports!Next]_(Reports!monVars) PROVE TimerInv'
  OBVIOUS
<1>1. CASE UNCHANGED Reports!monVars
  BY <1>1, TimerUntouched DEF Reports!monVars
<1>2. CASE Reports!Tick
  BY <1>2, TimerUntouched DEF Reports!Tick, Reports!statVars
<1>3. CASE \E t \in setup.threads : Reports!ReportStat(t) \/ Reports!OnThreadExit(t)
  BY <1>3, TimerUntouched, Zenon DEF Reports!ReportStat, Reports!OnThreadExit, Reports!EnterStat, Reports!LoadMap, Reports!CountCall
<1>4. CASE \E c \in DOMAIN source.api : Reports!Record(c)
  BY <1>4, TimerUntouched DEF Reports!Record, Reports!statVars
<1>5. CASE \E d \in Reports!ServiceDataType, b \in BOOLEAN :
              Reports!UpdateServiceData(d, b) \/ Reports!ServiceDataUpdate(d, b) \/ Reports!ServiceDataDelete(d, b)
  BY <1>5, TimerUntouched, Zenon
     DEF Reports!UpdateServiceData, Reports!ServiceDataUpdate, Reports!ServiceDataDelete, Reports!Drop, Reports!statVars
<1>6. CASE Reports!UnsupportedUpdate \/ Reports!InstanceRecoverAll
  BY <1>6, TimerUntouched DEF Reports!UnsupportedUpdate, Reports!InstanceRecoverAll, Reports!statVars
<1>7. CASE \E c \in Reports!Callers : Reports!InstanceCircuitBreak(c)
                                     \/ \E id \in Reports!CircuitIds : Reports!TranslateStatus(c, id)
  BY <1>7, TimerUntouched, Zenon DEF Reports!InstanceCircuitBreak, Reports!TranslateStatus, Reports!statVars
<1>8. CASE \E id \in Reports!CircuitIds : Reports!SetCircuitBreak(id)
  BY <1>8, TimerUntouched, Zenon DEF Reports!SetCircuitBreak, Reports!statVars
<1> QED
  BY <1>1, <1>2, <1>3, <1>4, <1>5, <1>6, <1>7, <1>8, TimerFired, TimerCollected, TimerAnswered DEF Reports!Next

(***************************************************************************)
(* Between two steps of the reactor every report has exactly one timer:    *)
(* its next report or the timeout check of the call it waits for, which    *)
(* alone holds an instance and a client.                                   *)
(***************************************************************************)
THEOREM ReportsHaveOneTimer == Spec => []OneTimerPerReport
<1>1. Reports!Init => TimerInv
  <2> SUFFICES ASSUME Reports!Init PROVE TimerInv
    OBVIOUS
  <2>1. DOMAIN report = setup.reports /\ prepare = [time |-> 0, data |-> {}, step |-> "idle"]
    BY DEF Reports!Init, Reports!SetupWork
  <2>2. ASSUME NEW k \in setup.reports PROVE Timed(k, report[k])
    <3>1. PICK d \in 1..Reports!ReportInterval(k) : report[k] = Reports!SetUpTimingReport(Reports!ReportBase, d)
      BY IntervalLong DEF Reports!Init, Reports!SetupWork
    <3>2. Fired(k, Reports!ReportBase)
      BY DEF Fired, Reports!ReportBase
    <3> QED
      BY <3>1, <3>2, FiredRearmed
  <2> QED
    BY <2>1, <2>2 DEF TimerInv
<1>2. TimerInv => Reports!OneTimerPerReport
  BY IntervalLong DEF TimerInv, Timed, Reports!OneTimerPerReport
<1> DEFINE Inv == part = "monitor" => TimerInv
<1>3. Init => Inv
  BY <1>1, PartInit
<1>4. Inv /\ [Next]_all => Inv'
  BY PartStep, TimerStep
<1>5. Inv => OneTimerPerReport
  BY <1>2 DEF OneTimerPerReport
<1> QED
  BY <1>3, <1>4, <1>5, PTL DEF Spec

-----------------------------------------------------------------------------
(***************************************************************************)
(* LoadBalancers: the budget of half-open instances                        *)
(***************************************************************************)
(* The variables of LoadBalancers. *)
halfData == v1
released == v3
clock == v4
thread == v5
given == v7
releases == v8
USE DEF halfData, released, clock, thread, given, releases

(* A thread that is about to claim read a time two seconds after the last   *)
(* release that it knows of.                                                *)
ThreadFits(r, start, time) ==
  /\ DOMAIN r = DOMAIN Balancers!Idle
  /\ r.pc = "claim" => r.last \in Int /\ r.now \in start..time /\ r.now >= r.last + 2000

(* Releases are two seconds apart by the times that are stored; what an     *)
(* instance was given and has left is within its budget.                    *)
BudgetInv ==
  /\ setup.requests \in Nat /\ setup.start \in Int /\ clock \in Int /\ released \in Int /\ releases \in Nat
  /\ clock >= setup.start
  /\ releases > 0 => released <= clock /\ released >= setup.start + 2000 * (releases - 1)
  /\ DOMAIN given = Balancers!Instances
  /\ \A i \in Balancers!Instances : given[i] \in 0..setup.requests
  /\ \A i \in DOMAIN halfData : halfData[i] \in 0..setup.requests
  /\ \A i \in Balancers!Instances \cap DOMAIN halfData : given[i] + halfData[i] <= setup.requests
  /\ \A t \in DOMAIN thread : ThreadFits(thread[t], setup.start, clock)

LEMMA ChosenEnds ==
  ASSUME NEW t, NEW i, NEW key, Balancers!Chosen(t, i, key)
  PROVE  \E r : thread' = [thread EXCEPT ![t] = r] /\ ThreadFits(r, setup.start, clock)
<1> DEFINE more == [Balancers!Idle EXCEPT !.found = Balancers!Found(thread[t].found, i), !.key = key,
                                          !.index = thread[t].index + 1]
<1>1. thread' = [thread EXCEPT ![t] = more] \/ thread' = [thread EXCEPT ![t] = Balancers!Idle]
  BY Zenon DEF Balancers!Chosen
<1>2. DOMAIN more = DOMAIN Balancers!Idle /\ more.pc = "idle" /\ Balancers!Idle.pc = "idle"
  BY DEF Balancers!Idle
<1> HIDE DEF more
<1>3. ThreadFits(more, setup.start, clock) /\ ThreadFits(Balancers!Idle, setup.start, clock)
  BY <1>2 DEF ThreadFits
<1> QED
  BY <1>1, <1>3, Zenon

LEMMA BudgetStep == BudgetInv /\ [Balancers!Next]_(Balancers!vars) => BudgetInv'
<1> SUFFICES ASSUME BudgetInv, [Balancers!Next]_(Balancers!vars) PROVE BudgetInv'
  OBVIOUS
<1>1. CASE UNCHANGED Balancers!vars
  BY <1>1 DEF Balancers!vars, BudgetInv, ThreadFits, Balancers!Instances
<1>2. ASSUME NEW t \in DOMAIN thread, NEW pc \in {"choose", "time", "reset", "take"}, Balancers!Goto(t, pc),
             UNCHANGED <<setup, clock>>
      PROVE  \A u \in DOMAIN thread' : ThreadFits(thread'[u], setup'.start, clock')
  <2>1. \A u \in DOMAIN thread : ThreadFits(thread[u], setup.start, clock)
    BY DEF BudgetInv
  <2>2. ThreadFits([thread[t] EXCEPT !.pc = pc], setup.start, clock)
    BY <1>2, <2>1 DEF ThreadFits, Balancers!Idle
  <2> QED
    BY <1>2, <2>1, <2>2 DEF Balancers!Goto
<1>3. ASSUME NEW t \in DOMAIN thread, Balancers!CountTry(t) PROVE BudgetInv'
  <2>1. /\ Balancers!Goto(t, "choose") \/ Balancers!Goto(t, "time")
        /\ UNCHANGED <<setup, halfData, released, clock, given, releases>>
    BY <1>3 DEF Balancers!CountTry
  <2> QED
    BY <1>2, <2>1 DEF BudgetInv, Balancers!Instances
<1>4. ASSUME NEW t \in DOMAIN thread, Balancers!CheckTime(t) PROVE BudgetInv'
  <2>1. /\ UNCHANGED <<setup, halfData, released, clock, given, releases>>
        /\ thread' = [thread EXCEPT ![t] = [thread[t] EXCEPT
                         !.pc = IF clock < released + 2000 THEN "choose" ELSE "claim", !.last = released, !.now = clock]]
    BY <1>4 DEF Balancers!CheckTime, Balancers!kHalfOpenInterval, Balancers!counters
  <2> DEFINE r == [thread[t] EXCEPT !.pc = IF clock < released + 2000 THEN "choose" ELSE "claim",
                                    !.last = released, !.now = clock]
  <2>2. DOMAIN thread[t] = DOMAIN Balancers!Idle
    BY DEF BudgetInv, ThreadFits
  <2>3. /\ DOMAIN r = DOMAIN Balancers!Idle /\ r.last = released /\ r.now = clock
        /\ r.pc = IF clock < released + 2000 THEN "choose" ELSE "claim"
    BY <2>2 DEF Balancers!Idle
  <2> HIDE DEF r
  <2>4. ThreadFits(r, setup.start, clock)
    BY <2>3 DEF ThreadFits, BudgetInv
  <2>5. \A u \in DOMAIN thread' : ThreadFits(thread'[u], setup'.start, clock')
    BY <2>1, <2>4 DEF BudgetInv, r
  <2> QED
    BY <2>1, <2>5 DEF BudgetInv, Balancers!Instances
<1>5. ASSUME NEW t \in DOMAIN thread, Balancers!Claim(t) PROVE BudgetInv'
  <2>1. UNCHANGED <<setup, halfData, clock, given>>
    BY <1>5 DEF Balancers!Claim
  <2>2. CASE thread[t].last = released
    <3>1. /\ released' = thread[t].now /\ releases' = releases + 1 /\ Balancers!Goto(t, "reset")
          /\ thread[t].pc = "claim"
      BY <1>5, <2>2 DEF Balancers!Claim, Balancers!At
    <3>2. /\ thread[t].now \in Int /\ thread[t].now >= setup.start /\ thread[t].now <= clock
          /\ thread[t].now >= released + 2000
      BY <2>2, <3>1 DEF BudgetInv, ThreadFits
    <3>3. released' >= setup.start + 2000 * (releases' - 1)
      BY <3>1, <3>2 DEF BudgetInv
    <3> QED
      BY <1>2, <2>1, <3>1, <3>2, <3>3 DEF BudgetInv, Balancers!Instances
  <2>3. CASE thread[t].last # released
    <3>1. UNCHANGED <<released, releases>> /\ Balancers!Goto(t, "choose")
      BY <1>5, <2>3 DEF Balancers!Claim
    <3> QED
      BY <1>2, <2>1, <3>1 DEF BudgetInv, Balancers!Instances
  <2> QED
    BY <2>2, <2>3
<1>6. ASSUME NEW t \in DOMAIN thread, Balancers!ResetTries(t) PROVE BudgetInv'
  BY <1>2, <1>6 DEF Balancers!ResetTries, BudgetInv, Balancers!Instances
<1>7. ASSUME NEW t \in DOMAIN thread, NEW i, NEW key, Balancers!Chosen(t, i, key), UNCHANGED <<setup, clock>>
      PROVE  \A u \in DOMAIN thread' : ThreadFits(thread'[u], setup'.start, clock')
  <2>1. PICK r : thread' = [thread EXCEPT ![t] = r] /\ ThreadFits(r, setup.start, clock)
    BY <1>7, ChosenEnds
  <2> QED
    BY <1>7, <2>1 DEF BudgetInv
<1>8. ASSUME NEW t \in DOMAIN thread, Balancers!TakeHalfOpen(t) PROVE BudgetInv'
  <2>1. UNCHANGED <<setup, clock, released, releases>>
    BY <1>8 DEF Balancers!TakeHalfOpen
  <2>2. CASE UNCHANGED <<halfData, given>> /\ Balancers!Goto(t, "choose")
    BY <1>2, <2>1, <2>2 DEF BudgetInv, Balancers!Instances
  <2>3. ASSUME NEW i \in DOMAIN halfData, halfData[i] > 0, NEW key, Balancers!Chosen(t, i, key),
               halfData' = [halfData EXCEPT ![i] = @ - 1], given' = [given EXCEPT ![i] = @ + 1]
        PROVE  BudgetInv'
    <3>1. \A j \in DOMAIN halfData' : halfData'[j] \in 0..setup.requests
      BY <2>3 DEF BudgetInv
    <3>2. \A j \in Balancers!Instances : given'[j] = IF j = i THEN given[j] + 1 ELSE given[j]
      BY <2>3 DEF BudgetInv
    <3>3. \A j \in Balancers!Instances \cap DOMAIN halfData : given'[j] + halfData'[j] <= setup.requests
      BY <2>3, <3>2 DEF BudgetInv
    <3>4. \A j \in Balancers!Instances : given'[j] \in 0..setup.requests
      BY <2>3, <3>2 DEF BudgetInv
    <3>5. \A u \in DOMAIN thread' : ThreadFits(thread'[u], setup'.start, clock')
      BY <1>7, <2>1, <2>3
    <3> QED
      BY <2>1, <2>3, <3>1, <3>3, <3>4, <3>5 DEF BudgetInv, Balancers!Instances
  <2>4. \/ UNCHANGED <<halfData, given>> /\ Balancers!Goto(t, "choose")
        \/ \E i \in DOMAIN halfData, key \in Balancers!Keys(t) :
              /\ halfData[i] > 0 /\ Balancers!Chosen(t, i, key)
              /\ halfData' = [halfData EXCEPT ![i] = @ - 1]
              /\ given' = [given EXCEPT ![i] = @ + 1]
    BY <1>8 DEF Balancers!TakeHalfOpen
  <2> QED
    BY <2>2, <2>3, <2>4, Zenon
<1>9. ASSUME NEW t \in DOMAIN thread, Balancers!GetOneInstance(t) PROVE BudgetInv'
  <2>1. PICK key, i : Balancers!Chosen(t, i, key)
    BY <1>9 DEF Balancers!GetOneInstance
  <2>2. UNCHANGED <<setup, halfData, released, clock, given, releases>>
    BY <1>9 DEF Balancers!GetOneInstance, Balancers!counters
  <2> QED
    BY <1>7, <2>1, <2>2 DEF BudgetInv, Balancers!Instances
<1>10. ASSUME NEW half, Balancers!SetCircuitBreakerData(half) PROVE BudgetInv'
  <2>1. /\ halfData' = [i \in half |-> IF i \in DOMAIN halfData THEN halfData[i] ELSE setup.requests]
        /\ given' = [i \in Balancers!Instances |-> IF i \in half /\ i \in DOMAIN halfData THEN given[i] ELSE 0]
        /\ UNCHANGED <<setup, released, clock, thread, releases>>
    BY <1>10 DEF Balancers!SetCircuitBreakerData
  <2>2. \A i \in DOMAIN halfData' :
          /\ i \in half /\ halfData'[i] \in 0..setup.requests
          /\ halfData'[i] = IF i \in DOMAIN halfData THEN halfData[i] ELSE setup.requests
    BY <2>1 DEF BudgetInv
  <2>3. \A i \in Balancers!Instances :
          /\ given'[i] \in 0..setup.requests
          /\ given'[i] = IF i \in half /\ i \in DOMAIN halfData THEN given[i] ELSE 0
    BY <2>1 DEF BudgetInv
  <2>4. \A i \in Balancers!Instances \cap DOMAIN halfData' : given'[i] + halfData'[i] <= setup.requests
    BY <2>2, <2>3 DEF BudgetInv
  <2>5. DOMAIN given' = Balancers!Instances
    BY <2>1
  <2> QED
    BY <2>1, <2>2, <2>3, <2>4, <2>5 DEF BudgetInv, ThreadFits, Balancers!Instances
<1>11. CASE Balancers!Tick
  BY <1>11 DEF Balancers!Tick, Balancers!counters, BudgetInv, ThreadFits, Balancers!Instances
<1> QED
  BY <1>1, <1>3, <1>4, <1>5, <1>6, <1>8, <1>9, <1>10, <1>11, Zenon DEF Balancers!Next

(***************************************************************************)
(* Whatever threads choose at a time, and however long one stalls between  *)
(* reading the time and claiming a release by it, half-open instances are  *)
(* released at most once in two seconds on average from the start on, and  *)
(* no instance gets more requests than its breaker allowed, also across    *)
(* updates of the breaker's data.                                          *)
(***************************************************************************)
THEOREM HalfOpenKeepsBudget == Spec => []HalfOpenBudget
<1>1. Balancers!Init => BudgetInv
  BY BalancersAssumption DEF Balancers!Init, BudgetInv, ThreadFits, Balancers!Idle
<1>2. BudgetInv => Balancers!HalfOpenBudget
  BY DEF BudgetInv, Balancers!HalfOpenBudget, Balancers!kHalfOpenInterval
<1> DEFINE Inv == part = "balancers" => BudgetInv
<1>3. Init => Inv
  BY <1>1, PartInit
<1>4. Inv /\ [Next]_all => Inv'
  BY PartStep, BudgetStep
<1>5. Inv => HalfOpenBudget
  BY <1>2 DEF HalfOpenBudget
<1> QED
  BY <1>3, <1>4, <1>5, PTL DEF Spec

-----------------------------------------------------------------------------
(***************************************************************************)
(* SetCircuitBreaker: one loop for each window                             *)
(***************************************************************************)
(* The variables of SetCircuitBreaker. *)
revision == v1
held == v2
windows == v3
win == v4
server == v5
conn == v6
USE DEF revision, held, windows, win, server, conn

CountType == [total : Int, err : Int, slow : Int, special : Int]
Labels == setup.labels \cup {{}}
WindowType == [key : Labels, rev : Int, deleted : BOOLEAN, counts : CountType, query : Int, report : {0, 1}]

(* Requests under way are of windows 1..N, queries among them once.        *)
BagFits(b, N) ==
  \A r \in DOMAIN b :
    /\ b[r] \in Nat \ {0} /\ r.w \in 1..N
    /\ r.type = "query" => r = Sets!Request("query", r.w, 1) /\ b[r] = 1
ConnFits(cs, N) ==
  /\ DOMAIN cs = setup.servers
  /\ \A s \in setup.servers : cs[s] # NULL =>
       DOMAIN cs[s] = {"open", "inflight", "init"} /\ BagFits(cs[s].inflight, N)

(* Window n waits at server s for the answer to its query.                 *)
Asks(cs, s, n) == cs[s] # NULL /\ Sets!Request("query", n, 1) \in DOMAIN cs[s].inflight

(* The query of a window is a task or under way at one server; a window in  *)
(* use has the timer of its report.                                        *)
LoopFits(w, cs, n) ==
  /\ w.query \in {0, 1}
  /\ \A s, t \in setup.servers : Asks(cs, s, n) /\ Asks(cs, t, n) => s = t
  /\ w.query = 1 => \A s \in setup.servers : ~Asks(cs, s, n)
  /\ ~w.deleted => w.report = IF setup.global THEN 1 ELSE 0
  /\ ~w.deleted => IF setup.global THEN w.query = 1 \/ \E s \in setup.servers : Asks(cs, s, n)
                                  ELSE w.query = 0 /\ \A s \in setup.servers : ~Asks(cs, s, n)

(* The windows ws, and wd, which names the current one of each key.        *)
WindowsFit(ws, wd) ==
  /\ ws \in Seq(WindowType) /\ DOMAIN wd = Labels
  /\ \A n \in DOMAIN ws : ~ws[n].deleted => wd[ws[n].key] = n
  /\ \A k \in Labels : wd[k] # NULL => wd[k] \in DOMAIN ws /\ ws[wd[k]].key = k

(* The rule and the label a caller works with.                             *)
HeldFits(h) == \A c \in DOMAIN h : h[c] # NULL => h[c].label \in Labels /\ h[c].rev \in Int

SetInv ==
  /\ WindowsFit(win, windows)
  /\ ConnFits(conn, Len(win))
  /\ \A n \in DOMAIN win : LoopFits(win[n], conn, n)
  /\ server \in setup.servers \cup {NULL}
  /\ revision \in Int
  /\ HeldFits(held)

NullApart == NULL \notin Nat /\ \A o, i, k : NULL # [open |-> o, inflight |-> i, init |-> k]

(* Requests are told apart by their fields.                                *)
LEMMA RequestFields ==
  ASSUME NEW type, NEW n, NEW tries0
  PROVE  /\ Sets!Request(type, n, tries0).type = type
         /\ Sets!Request(type, n, tries0).w = n
  BY DEF Sets!Request

LEMMA BagAdded ==
  ASSUME NEW N, NEW b, BagFits(b, N), NEW r, r.w \in 1..N,
         r.type = "query" => r = Sets!Request("query", r.w, 1) /\ r \notin DOMAIN b
  PROVE  BagFits(Sets!BagAdd(b, r), N) /\ DOMAIN Sets!BagAdd(b, r) = DOMAIN b \cup {r}
<1>1. CASE r \in DOMAIN b
  <2> DEFINE g == [e \in DOMAIN b |-> IF e = r THEN b[e] + 1 ELSE b[e]]
  <2>1. Sets!BagAdd(b, r) = g
    BY <1>1 DEF Sets!BagAdd
  <2>2. DOMAIN g = DOMAIN b /\ \A e \in DOMAIN g : g[e] = IF e = r THEN b[e] + 1 ELSE b[e]
    OBVIOUS
  <2> HIDE DEF g
  <2>3. ASSUME NEW e \in DOMAIN g
        PROVE  /\ g[e] \in Nat \ {0} /\ e.w \in 1..N
               /\ e.type = "query" => e = Sets!Request("query", e.w, 1) /\ g[e] = 1
    <3>1. b[e] \in Nat \ {0} /\ e.w \in 1..N /\ (e.type = "query" => e = Sets!Request("query", e.w, 1) /\ b[e] = 1)
      BY <2>2 DEF BagFits
    <3>2. CASE e = r
      BY <1>1, <2>2, <3>1, <3>2
    <3>3. CASE e # r
      BY <2>2, <3>1, <3>3
    <3> QED
      BY <3>2, <3>3
  <2> QED
    BY <1>1, <2>1, <2>2, <2>3 DEF BagFits
<1>2. CASE r \notin DOMAIN b
  <2> DEFINE g == [e \in DOMAIN b \union {r} |-> IF e = r THEN 1 ELSE b[e]]
  <2>1. Sets!BagAdd(b, r) = g
    BY <1>2 DEF Sets!BagAdd
  <2>2. DOMAIN g = DOMAIN b \cup {r} /\ \A e \in DOMAIN g : g[e] = IF e = r THEN 1 ELSE b[e]
    OBVIOUS
  <2> HIDE DEF g
  <2> QED
    BY <1>2, <2>1, <2>2 DEF BagFits
<1> QED
  BY <1>1, <1>2

LEMMA BagRemoved ==
  ASSUME NEW N, NEW b, BagFits(b, N), NEW r \in DOMAIN b
  PROVE  /\ BagFits(Sets!BagRemove(b, r), N)
         /\ \A q : q.type = "query" => (q \in DOMAIN Sets!BagRemove(b, r) <=> q \in DOMAIN b /\ q # r)
<1>1. CASE b[r] = 1
  BY <1>1 DEF Sets!BagRemove, BagFits
<1>2. CASE b[r] # 1
  BY <1>2 DEF Sets!BagRemove, BagFits
<1> QED
  BY <1>1, <1>2

LEMMA NoBag ==
  ASSUME NEW N, NEW b, DOMAIN b = {}
  PROVE  BagFits(b, N)
  BY DEF BagFits

(* SelectConnection adds a connection without requests.                     *)
LEMMA ConnSelected ==
  ASSUME NullApart, NEW N, NEW cs, ConnFits(cs, N), server \in setup.servers \cup {NULL}
  PROVE  /\ ConnFits(Sets!Selected(cs), N)
         /\ server # NULL => Sets!Selected(cs)[server] # NULL
         /\ \A s \in setup.servers : \A n : Asks(Sets!Selected(cs), s, n) <=> Asks(cs, s, n)
<1>1. CASE server # NULL /\ cs[server] = NULL
  <2> DEFINE c == Sets!Connecting
  <2>1. c # NULL /\ DOMAIN c = {"open", "inflight", "init"} /\ DOMAIN c.inflight = {}
    <3>1. c = [open |-> FALSE, inflight |-> [e \in {} |-> 1], init |-> {}]
      BY DEF Sets!Connecting, Sets!EmptyBag, Sets!SetToBag
    <3>2. c # NULL
      BY <3>1, Zenon DEF NullApart
    <3> HIDE DEF c
    <3> QED
      BY <3>1, <3>2
  <2> HIDE DEF c
  <2>2. Sets!Selected(cs) = [cs EXCEPT ![server] = c]
    BY <1>1 DEF Sets!Selected, c
  <2> QED
    BY <1>1, <2>1, <2>2, NoBag DEF ConnFits, Asks
<1>2. CASE ~(server # NULL /\ cs[server] = NULL)
  BY <1>2 DEF Sets!Selected
<1> QED
  BY <1>1, <1>2

LEMMA ConnSent ==
  ASSUME NullApart, NEW N, NEW cs, ConnFits(cs, N), server \in setup.servers \cup {NULL},
         NEW r, r.w \in 1..N,
         r.type = "query" => r = Sets!Request("query", r.w, 1) /\ \A s \in setup.servers : ~Asks(cs, s, r.w)
  PROVE  /\ ConnFits(Sets!Send(cs, r), N)
         /\ \A s \in setup.servers : \A n :
              Asks(Sets!Send(cs, r), s, n) <=> Asks(cs, s, n) \/ (s = server /\ server # NULL /\ r = Sets!Request("query", n, 1))
<1>1. CASE server = NULL
  BY <1>1 DEF Sets!Send
<1>2. CASE server # NULL
  <2> DEFINE c == Sets!Selected(cs)
             b == Sets!BagAdd(c[server].inflight, r)
             d == [c[server] EXCEPT !.inflight = b]
  <2>1. /\ ConnFits(c, N) /\ server \in setup.servers /\ c[server] # NULL
        /\ \A s \in setup.servers : \A n : Asks(c, s, n) <=> Asks(cs, s, n)
    BY <1>2, ConnSelected
  <2>2. Sets!Send(cs, r) = [c EXCEPT ![server] = d]
    BY <1>2, <2>1 DEF Sets!Send, ConnFits
  <2> HIDE DEF c
  <2>3. BagFits(b, N) /\ DOMAIN b = DOMAIN c[server].inflight \cup {r}
    <3>1. BagFits(c[server].inflight, N)
      BY <2>1 DEF ConnFits
    <3>2. r.type = "query" => r \notin DOMAIN c[server].inflight
      BY <2>1 DEF Asks
    <3> QED
      BY <3>1, <3>2, BagAdded
  <2> HIDE DEF b
  <2>4. DOMAIN d = {"open", "inflight", "init"} /\ d.inflight = b
    BY <2>1 DEF ConnFits
  <2>5. d # NULL
    <3>1. d = [open |-> d.open, inflight |-> d.inflight, init |-> d.init]
      BY <2>1 DEF ConnFits
    <3> HIDE DEF d
    <3> QED
      BY <3>1, Zenon DEF NullApart
  <2> HIDE DEF d
  <2>6. ConnFits(Sets!Send(cs, r), N)
    BY <2>1, <2>2, <2>3, <2>4, <2>5 DEF ConnFits
  <2>7. ASSUME NEW s \in setup.servers, NEW n
        PROVE  Asks(Sets!Send(cs, r), s, n) <=> Asks(cs, s, n) \/ (s = server /\ server # NULL /\ r = Sets!Request("query", n, 1))
    <3>1. CASE s = server
      BY <1>2, <2>1, <2>2, <2>3, <2>4, <2>5, <3>1 DEF ConnFits, Asks
    <3>2. CASE s # server
      BY <2>1, <2>2, <3>2 DEF ConnFits, Asks
    <3> QED
      BY <3>1, <3>2
  <2> QED
    BY <2>6, <2>7
<1> QED
  BY <1>1, <1>2

(* A step that keeps the windows in place.                                  *)
LEMMA SetKept ==
  ASSUME SetInv, UNCHANGED <<setup, windows>>, win' \in Seq(WindowType), Len(win') = Len(win),
         \A n \in DOMAIN win : win'[n].key = win[n].key /\ win'[n].deleted = win[n].deleted,
         ConnFits(conn', Len(win)), \A n \in DOMAIN win : LoopFits(win'[n], conn', n),
         server' \in setup.servers \cup {NULL}, revision' \in Int, HeldFits(held')
  PROVE  SetInv'
<1>1. DOMAIN win' = DOMAIN win
  BY DEF SetInv, WindowsFit
<1>2. WindowsFit(win, windows)'
  BY <1>1 DEF SetInv, WindowsFit, WindowType, Labels
<1>3. ConnFits(conn, Len(win))'
  BY DEF ConnFits
<1>4. (\A n \in DOMAIN win : LoopFits(win[n], conn, n))'
  BY <1>1 DEF LoopFits
<1> QED
  BY <1>2, <1>3, <1>4 DEF SetInv, HeldFits, Labels

(* Counting, and marking runs of tasks.                                     *)
LEMMA CountFits ==
  ASSUME NEW counts \in CountType, NEW call
  PROVE  Sets!AddCount(counts, call) \in CountType
<1>1. CASE call = "unknown"
  BY <1>1 DEF Sets!AddCount
<1>2. CASE call # "unknown"
  <2>1. /\ counts.total \in Int /\ counts.slow \in Int /\ counts.err \in Int /\ counts.special \in Int
    BY DEF CountType
  <2> DEFINE a == counts.total + 1
             b == IF call = "slow" /\ setup.policy.slow # NULL THEN counts.slow + 1 ELSE counts.slow
             c == IF call = "err" /\ setup.policy.err # NULL THEN counts.err + 1 ELSE counts.err
             d == IF call = "special" /\ setup.policy.err # NULL THEN counts.special + 1 ELSE counts.special
  <2>2. Sets!AddCount(counts, call) = [counts EXCEPT !.total = a, !.slow = b, !.err = c, !.special = d]
    BY <1>2 DEF Sets!AddCount
  <2>3. a \in Int /\ b \in Int /\ c \in Int /\ d \in Int
    BY <2>1
  <2> HIDE DEF a, b, c, d
  <2>4. [counts EXCEPT !.total = a, !.slow = b, !.err = c, !.special = d] \in CountType
    BY <2>3 DEF CountType
  <2> QED
    BY <2>2, <2>4
<1> QED
  BY <1>1, <1>2

(* One window changes; its query does not.                                  *)
LEMMA OneChanged ==
  ASSUME SetInv, NEW n \in DOMAIN win, NEW w \in WindowType
  PROVE  /\ [win EXCEPT ![n] = w] \in Seq(WindowType)
         /\ Len([win EXCEPT ![n] = w]) = Len(win)
         /\ \A m \in DOMAIN win : [win EXCEPT ![n] = w][m] = IF m = n THEN w ELSE win[m]
  BY DEF SetInv, WindowsFit

LEMMA LoopDeleted ==
  ASSUME NEW w, NEW v, NEW cs, NEW n, LoopFits(w, cs, n), v.query = w.query, w.deleted => v.deleted,
         v.deleted \/ v.report = w.report
  PROVE  LoopFits(v, cs, n)
  BY DEF LoopFits

LEMMA LoopAsks ==
  ASSUME NEW w, NEW cs, NEW ds, NEW n, LoopFits(w, cs, n),
         \A s \in setup.servers : Asks(ds, s, n) <=> Asks(cs, s, n)
  PROVE  LoopFits(w, ds, n)
  BY DEF LoopFits

LEMMA ConnWider ==
  ASSUME NEW N \in Nat, NEW M \in Nat, N <= M, NEW cs, ConnFits(cs, N)
  PROVE  ConnFits(cs, M)
  BY DEF ConnFits, BagFits

(* A window replaces that of its key.                                       *)
Renewed(ws, wd, key, w) == Append(IF wd[key] = NULL THEN ws ELSE [ws EXCEPT ![wd[key]].deleted = TRUE], w)

LEMMA WindowMade ==
  ASSUME NullApart, NEW ws, NEW wd, WindowsFit(ws, wd), NEW key \in Labels, NEW w \in WindowType,
         w.key = key
  PROVE  /\ WindowsFit(Renewed(ws, wd, key, w), [wd EXCEPT ![key] = Len(ws) + 1])
         /\ Len(Renewed(ws, wd, key, w)) = Len(ws) + 1 /\ Renewed(ws, wd, key, w)[Len(ws) + 1] = w
         /\ \A n \in DOMAIN ws : /\ Renewed(ws, wd, key, w)[n].query = ws[n].query /\ Renewed(ws, wd, key, w)[n].report = ws[n].report
                                 /\ ws[n].deleted => Renewed(ws, wd, key, w)[n].deleted
<1> DEFINE ws2 == Renewed(ws, wd, key, w)
           wd2 == [wd EXCEPT ![key] = Len(ws) + 1]
<1> DEFINE ws1 == IF wd[key] = NULL THEN ws ELSE [ws EXCEPT ![wd[key]].deleted = TRUE]
<1>1. /\ ws1 \in Seq(WindowType) /\ Len(ws1) = Len(ws)
      /\ \A n \in DOMAIN ws : /\ ws1[n].key = ws[n].key /\ ws1[n].query = ws[n].query /\ ws1[n].report = ws[n].report
                              /\ ws1[n].deleted <=> ws[n].deleted \/ (wd[key] # NULL /\ n = wd[key])
  <2>1. CASE wd[key] = NULL
    BY <2>1 DEF WindowsFit
  <2>2. CASE wd[key] # NULL
    <3> DEFINE v == [ws[wd[key]] EXCEPT !.deleted = TRUE]
    <3>1. wd[key] \in DOMAIN ws /\ ws \in Seq(WindowType)
      BY <2>2 DEF WindowsFit
    <3>2. ws[wd[key]] \in WindowType
      BY <3>1
    <3>3. v \in WindowType /\ v.deleted = TRUE /\ v.key = ws[wd[key]].key /\ v.query = ws[wd[key]].query
          /\ v.report = ws[wd[key]].report
      BY <3>2 DEF WindowType
    <3>4. ws1 = [ws EXCEPT ![wd[key]] = v]
      BY <2>2, <3>1
    <3> HIDE DEF v, ws1
    <3>5. ws1 \in Seq(WindowType) /\ Len(ws1) = Len(ws) /\ \A n \in DOMAIN ws : ws1[n] = IF n = wd[key] THEN v ELSE ws[n]
      BY <3>1, <3>3, <3>4
    <3> QED
      BY <2>2, <3>3, <3>5
  <2> QED
    BY <2>1, <2>2
<1> HIDE DEF ws1
<1>2. ws \in Seq(WindowType) /\ Len(ws) \in Nat /\ DOMAIN ws = 1..Len(ws) /\ DOMAIN wd = Labels
  BY DEF WindowsFit
<1>3. ws2 = Append(ws1, w)
  BY DEF ws1, Renewed
<1> HIDE DEF ws2
<1>4. /\ ws2 \in Seq(WindowType) /\ Len(ws2) = Len(ws) + 1 /\ DOMAIN ws2 = 1..(Len(ws) + 1)
      /\ ws2[Len(ws) + 1] = w /\ \A n \in DOMAIN ws : ws2[n] = ws1[n]
  <2>1. /\ Append(ws1, w) \in Seq(WindowType) /\ Len(Append(ws1, w)) = Len(ws1) + 1
        /\ \A n \in 1..Len(ws1) : Append(ws1, w)[n] = ws1[n]
        /\ Append(ws1, w)[Len(ws1) + 1] = w
    BY <1>1, AppendProperties
  <2>2. ws2 \in Seq(WindowType) /\ Len(ws2) = Len(ws) + 1 /\ ws2[Len(ws) + 1] = w
    BY <1>1, <1>3, <2>1
  <2>3. DOMAIN ws2 = 1..(Len(ws) + 1)
    BY <2>2
  <2>4. \A n \in DOMAIN ws : ws2[n] = ws1[n]
    BY <1>1, <1>2, <1>3, <2>1
  <2> QED
    BY <2>2, <2>3, <2>4
<1>5. ASSUME NEW n \in DOMAIN ws2, ~ws2[n].deleted PROVE wd2[ws2[n].key] = n
  <2>1. CASE n = Len(ws) + 1
    BY <1>2, <1>4, <2>1
  <2>2. CASE n \in DOMAIN ws
    <3>1. ~ws[n].deleted /\ wd[ws[n].key] = n /\ n # NULL
      BY <1>1, <1>2, <1>4, <1>5, <2>2 DEF WindowsFit, NullApart
    <3>2. ws2[n].key = ws[n].key /\ ws[n].key # key
      BY <1>1, <1>4, <1>5, <2>2, <3>1
    <3>3. ws[n].key \in Labels
      <4>1. ws[n] \in WindowType
        BY <1>2, <2>2
      <4> QED
        BY <4>1 DEF WindowType
    <3> QED
      BY <1>2, <3>1, <3>2, <3>3
  <2> QED
    BY <1>2, <1>4, <2>1, <2>2
<1>6. ASSUME NEW k \in Labels, wd2[k] # NULL PROVE wd2[k] \in DOMAIN ws2 /\ ws2[wd2[k]].key = k
  <2>1. CASE k = key
    BY <1>2, <1>4, <2>1
  <2>2. CASE k # key
    <3>1. wd2[k] = wd[k] /\ wd[k] \in DOMAIN ws /\ ws[wd[k]].key = k
      BY <1>2, <1>6, <2>2 DEF WindowsFit
    <3> QED
      BY <1>1, <1>2, <1>4, <3>1
  <2> QED
    BY <2>1, <2>2
<1>7. DOMAIN wd2 = Labels
  BY <1>2
<1> HIDE DEF wd2
<1>8. WindowsFit(ws2, wd2)
  BY <1>4, <1>5, <1>6, <1>7 DEF WindowsFit
<1>9. \A n \in DOMAIN ws : ws2[n].query = ws[n].query /\ ws2[n].report = ws[n].report /\ (ws[n].deleted => ws2[n].deleted)
  BY <1>1, <1>4
<1> QED
  BY <1>4, <1>8, <1>9 DEF ws2, wd2

(* The callbacks of ended requests: the window whose query has ended goes  *)
(* on with the next.                                                       *)
LEMMA CalledBack ==
  ASSUME SetInv, NEW ended, NEW cs,
         \A n \in DOMAIN win : Sets!Request("query", n, 1) \in ended => \E s \in setup.servers : Asks(conn, s, n),
         \A n \in DOMAIN win, s \in setup.servers :
            Asks(cs, s, n) <=> Asks(conn, s, n) /\ Sets!Request("query", n, 1) \notin ended
  PROVE  LET ws == Sets!MetricQueryCallback(win, ended)
         IN /\ ws \in Seq(WindowType) /\ Len(ws) = Len(win)
            /\ \A n \in DOMAIN win : /\ ws[n].key = win[n].key /\ ws[n].deleted = win[n].deleted
                                     /\ LoopFits(ws[n], cs, n)
<1> DEFINE ws == Sets!MetricQueryCallback(win, ended)
<1>1. win \in Seq(WindowType) /\ DOMAIN win = 1..Len(win) /\ Len(win) \in Nat
  BY DEF SetInv, WindowsFit
<1>2. ASSUME NEW n \in DOMAIN win
      PROVE  /\ ws[n] \in WindowType /\ ws[n].key = win[n].key /\ ws[n].deleted = win[n].deleted
             /\ LoopFits(ws[n], cs, n)
  <2>1. win[n] \in WindowType /\ LoopFits(win[n], conn, n)
    BY <1>1 DEF SetInv
  <2>2. CASE Sets!Request("query", n, 1) \in ended /\ ~win[n].deleted
    <3>1. ws[n] = [win[n] EXCEPT !.query = @ + 1]
      BY <2>2 DEF Sets!MetricQueryCallback, Sets!QueryCallback
    <3>2. win[n].query = 0
      BY <2>1, <2>2 DEF LoopFits
    <3>3. /\ ws[n] \in WindowType /\ ws[n].query = 1 /\ ws[n].report = win[n].report
          /\ ws[n].key = win[n].key /\ ws[n].deleted = win[n].deleted
      BY <2>1, <3>1, <3>2 DEF WindowType
    <3>4. setup.global
      BY <2>1, <2>2 DEF LoopFits
    <3>5. LoopFits(ws[n], cs, n)
      BY <2>1, <2>2, <3>3, <3>4 DEF LoopFits
    <3> QED
      BY <3>3, <3>5
  <2>3. CASE ~(Sets!Request("query", n, 1) \in ended /\ ~win[n].deleted)
    <3>1. ws[n] = win[n]
      BY <2>3 DEF Sets!MetricQueryCallback
    <3>2. LoopFits(win[n], cs, n)
      BY <2>1, <2>3 DEF LoopFits
    <3> QED
      BY <2>1, <3>1, <3>2
  <2> QED
    BY <2>2, <2>3
<1>3. DOMAIN ws = 1..Len(win) /\ ws = [n \in 1..Len(win) |-> ws[n]]
  BY <1>1 DEF Sets!MetricQueryCallback
<1> HIDE DEF ws
<1>4. ws \in [1..Len(win) -> WindowType]
  BY <1>1, <1>2, <1>3
<1>5. ws \in Seq(WindowType) /\ Len(ws) = Len(win)
  BY <1>1, <1>4, SeqDef, LenProperties
<1> QED
  BY <1>2, <1>5 DEF ws

(* Callers count and make windows.                                          *)
LEMMA CallerCounts ==
  ASSUME NullApart, SetInv, NEW c \in DOMAIN held, NEW call, Sets!AddToWindow(c, call)
  PROVE  SetInv'
<1> DEFINE n == windows[held[c].label]
           w == [win[n] EXCEPT !.counts = Sets!AddCount(@, call)]
<1>1. /\ UNCHANGED <<setup, revision, windows, server, conn>>
      /\ held' = [held EXCEPT ![c] = NULL] /\ held[c] # NULL /\ n # NULL
      /\ win' = [win EXCEPT ![n].counts = Sets!AddCount(@, call)]
  BY DEF Sets!AddToWindow, Sets!CountInto, Sets!Current, Sets!network
<1>2. n \in DOMAIN win /\ win \in Seq(WindowType)
  BY <1>1 DEF SetInv, WindowsFit, HeldFits
<1>3. win[n] \in WindowType
  BY <1>2
<1>4. Sets!AddCount(win[n].counts, call) \in CountType
  BY <1>3, CountFits DEF WindowType
<1>5. w \in WindowType /\ w.key = win[n].key /\ w.deleted = win[n].deleted /\ w.query = win[n].query /\ w.report = win[n].report
  BY <1>3, <1>4 DEF WindowType
<1>6. win' = [win EXCEPT ![n] = w]
  BY <1>1, <1>2
<1> HIDE DEF w, n
<1>7. /\ win' \in Seq(WindowType) /\ Len(win') = Len(win)
      /\ \A m \in DOMAIN win : win'[m] = IF m = n THEN w ELSE win[m]
  BY <1>2, <1>5, <1>6, OneChanged
<1>8. \A m \in DOMAIN win : LoopFits(win'[m], conn', m)
  BY <1>1, <1>5, <1>7, LoopDeleted DEF SetInv
<1>9. HeldFits(held')
  BY <1>1 DEF SetInv, HeldFits
<1> QED
  BY <1>1, <1>5, <1>7, <1>8, <1>9, SetKept DEF SetInv

LEMMA NewWindowFits ==
  ASSUME NEW key \in Labels, NEW rev \in Int
  PROVE  LET w == Sets!MetricWindow(key, rev)
         IN w \in WindowType /\ w.key = key /\ w.deleted = FALSE /\ w.query = Sets!Loops /\ w.report = Sets!Loops
  BY DEF Sets!MetricWindow, WindowType, CountType, Sets!None, Sets!Loops

(* Nobody has asked for a window that is not there yet.                     *)
LEMMA NobodyAsks ==
  ASSUME NEW N \in Nat, NEW cs, ConnFits(cs, N), NEW n \in Nat, n > N, NEW s \in setup.servers
  PROVE  ~Asks(cs, s, n)
  BY RequestFields DEF ConnFits, BagFits, Asks

(* The windows that UpdateWindow leaves fit, however many it made.          *)
LEMMA WindowsReplaced ==
  ASSUME SetInv, NEW ws, NEW wd, WindowsFit(ws, wd), Len(ws) >= Len(win),
         \A n \in DOMAIN win : ws[n].query = win[n].query /\ ws[n].report = win[n].report /\ (win[n].deleted => ws[n].deleted),
         \A n \in DOMAIN ws : n \notin DOMAIN win => ws[n].query = Sets!Loops /\ ws[n].report = Sets!Loops
  PROVE  ConnFits(conn, Len(ws)) /\ \A n \in DOMAIN ws : LoopFits(ws[n], conn, n)
<1>1. Len(win) \in Nat /\ DOMAIN win = 1..Len(win) /\ Len(ws) \in Nat /\ DOMAIN ws = 1..Len(ws)
  BY DEF SetInv, WindowsFit
<1>2. ConnFits(conn, Len(ws))
  BY <1>1, ConnWider DEF SetInv
<1>3. ASSUME NEW n \in DOMAIN ws PROVE LoopFits(ws[n], conn, n)
  <2>1. CASE n \in DOMAIN win
    BY <2>1, LoopDeleted DEF SetInv
  <2>2. CASE n \notin DOMAIN win
    <3>1. n \in Nat /\ n > Len(win)
      BY <1>1, <2>2
    <3>2. \A s \in setup.servers : ~Asks(conn, s, n)
      BY <1>1, <3>1, NobodyAsks DEF SetInv
    <3>3. ws[n].query = Sets!Loops /\ ws[n].report = Sets!Loops
      BY <2>2
    <3> QED
      BY <3>2, <3>3 DEF LoopFits, Sets!Loops
  <2> QED
    BY <2>1, <2>2
<1> QED
  BY <1>2, <1>3

(* The count of a call into a window leaves everything else.                *)
LEMMA WindowCounted ==
  ASSUME NEW ws, NEW wd, WindowsFit(ws, wd), NEW n \in DOMAIN ws, NEW call
  PROVE  LET vs == Sets!CountInto(ws, n, call)
         IN /\ WindowsFit(vs, wd) /\ Len(vs) = Len(ws)
            /\ \A m \in DOMAIN ws : vs[m].query = ws[m].query /\ vs[m].report = ws[m].report /\ vs[m].deleted = ws[m].deleted
<1> DEFINE w == [ws[n] EXCEPT !.counts = Sets!AddCount(@, call)]
           vs == Sets!CountInto(ws, n, call)
<1>1. ws \in Seq(WindowType) /\ ws[n] \in WindowType
  BY DEF WindowsFit
<1>2. Sets!AddCount(ws[n].counts, call) \in CountType
  BY <1>1, CountFits DEF WindowType
<1>3. w \in WindowType /\ w.key = ws[n].key /\ w.deleted = ws[n].deleted /\ w.query = ws[n].query /\ w.report = ws[n].report
  BY <1>1, <1>2 DEF WindowType
<1>4. vs = [ws EXCEPT ![n] = w]
  BY <1>1 DEF Sets!CountInto
<1> HIDE DEF w, vs
<1>5. /\ vs \in Seq(WindowType) /\ Len(vs) = Len(ws) /\ DOMAIN vs = DOMAIN ws
      /\ \A m \in DOMAIN ws : vs[m] = IF m = n THEN w ELSE ws[m]
  BY <1>1, <1>3, <1>4
<1>6. WindowsFit(vs, wd)
  BY <1>3, <1>5 DEF WindowsFit
<1> QED
  BY <1>3, <1>5, <1>6 DEF vs

LEMMA WindowUpdated ==
  ASSUME NullApart, SetInv, NEW c \in DOMAIN held, NEW call, Sets!UpdateWindow(c, call)
  PROVE  SetInv'
<1> DEFINE key == held[c].label
           rev == held[c].rev
           both == setup.scopeAll /\ key # {} /\ ~Sets!Current({}, rev)
           n == Len(win) + 1
           made == Append(Sets!Replaced(win, key), Sets!MetricWindow(key, rev))
           wd == [windows EXCEPT ![key] = n]
           made2 == Append(Sets!Replaced(made, {}), Sets!MetricWindow({}, rev))
           wd2 == [wd EXCEPT ![{}] = n + 1]
<1>1. /\ held[c] # NULL /\ UNCHANGED <<setup, revision, server, conn>>
      /\ win' = Sets!CountInto(IF both THEN made2 ELSE made, n, call)
      /\ windows' = IF both THEN [windows EXCEPT ![key] = n, ![{}] = n + 1] ELSE wd
      /\ held' = [held EXCEPT ![c] = NULL]
  BY Zenon DEF Sets!UpdateWindow, Sets!network
<1>2. key \in Labels /\ rev \in Int /\ {} \in Labels
  BY <1>1 DEF SetInv, HeldFits, Labels
<1>3. Len(win) \in Nat /\ DOMAIN win = 1..Len(win) /\ DOMAIN windows = Labels
  BY DEF SetInv, WindowsFit
<1>4. /\ WindowsFit(made, wd) /\ Len(made) = n /\ made[n].query = Sets!Loops /\ made[n].report = Sets!Loops
      /\ \A m \in DOMAIN win : made[m].query = win[m].query /\ made[m].report = win[m].report /\ (win[m].deleted => made[m].deleted)
  <2> DEFINE w == Sets!MetricWindow(key, rev)
  <2>1. w \in WindowType /\ w.key = key /\ w.query = Sets!Loops /\ w.report = Sets!Loops
    BY <1>2, NewWindowFits
  <2> HIDE DEF w
  <2>2. made = Renewed(win, windows, key, w)
    BY DEF Sets!Replaced, Renewed, w
  <2> HIDE DEF made, wd
  <2>3. wd = [windows EXCEPT ![key] = Len(win) + 1]
    BY DEF wd
  <2>4. WindowsFit(win, windows)
    BY DEF SetInv
  <2>5. /\ WindowsFit(made, wd)
        /\ Len(made) = Len(win) + 1 /\ made[Len(win) + 1] = w
        /\ \A m \in DOMAIN win : made[m].query = win[m].query /\ made[m].report = win[m].report /\ (win[m].deleted => made[m].deleted)
    <3>1. /\ WindowsFit(Renewed(win, windows, key, w), [windows EXCEPT ![key] = Len(win) + 1])
          /\ Len(Renewed(win, windows, key, w)) = Len(win) + 1 /\ Renewed(win, windows, key, w)[Len(win) + 1] = w
          /\ \A n0 \in DOMAIN win : Renewed(win, windows, key, w)[n0].query = win[n0].query /\ Renewed(win, windows, key, w)[n0].report = win[n0].report /\ (win[n0].deleted => Renewed(win, windows, key, w)[n0].deleted)
      BY <1>2, <2>1, <2>4, WindowMade, Zenon
    <3> QED
      BY <2>2, <2>3, <3>1, Zenon
  <2> QED
    BY <2>1, <2>5
<1>5. key # {} => /\ WindowsFit(made2, wd2) /\ Len(made2) = n + 1 /\ made2[n + 1].query = Sets!Loops /\ made2[n + 1].report = Sets!Loops
                  /\ \A m \in DOMAIN made : made2[m].query = made[m].query /\ made2[m].report = made[m].report /\ (made[m].deleted => made2[m].deleted)
  <2> SUFFICES ASSUME key # {}
               PROVE  /\ WindowsFit(made2, wd2) /\ Len(made2) = n + 1 /\ made2[n + 1].query = Sets!Loops /\ made2[n + 1].report = Sets!Loops
                      /\ \A m \in DOMAIN made : made2[m].query = made[m].query /\ made2[m].report = made[m].report /\ (made[m].deleted => made2[m].deleted)
    OBVIOUS
  <2> DEFINE w == Sets!MetricWindow({}, rev)
  <2>1. w \in WindowType /\ w.key = {} /\ w.query = Sets!Loops /\ w.report = Sets!Loops
    BY <1>2, NewWindowFits
  <2> HIDE DEF w
  <2>2. wd[{}] = windows[{}]
    BY <1>2, <1>3
  <2> HIDE DEF made, wd
  <2>3. made2 = Renewed(made, wd, {}, w)
    BY <2>2 DEF Sets!Replaced, Renewed, w
  <2> HIDE DEF made2
  <2>4. wd2 = [wd EXCEPT ![{}] = Len(made) + 1]
    BY <1>4
  <2> HIDE DEF wd2
  <2>5. /\ WindowsFit(made2, wd2)
        /\ Len(made2) = Len(made) + 1 /\ made2[Len(made) + 1] = w
        /\ \A m \in DOMAIN made : made2[m].query = made[m].query /\ made2[m].report = made[m].report /\ (made[m].deleted => made2[m].deleted)
    <3>1. /\ WindowsFit(Renewed(made, wd, {}, w), [wd EXCEPT ![{}] = Len(made) + 1])
          /\ Len(Renewed(made, wd, {}, w)) = Len(made) + 1 /\ Renewed(made, wd, {}, w)[Len(made) + 1] = w
          /\ \A n0 \in DOMAIN made : Renewed(made, wd, {}, w)[n0].query = made[n0].query /\ Renewed(made, wd, {}, w)[n0].report = made[n0].report /\ (made[n0].deleted => Renewed(made, wd, {}, w)[n0].deleted)
      BY <1>2, <1>4, <2>1, WindowMade, Zenon
    <3> QED
      BY <2>3, <2>4, <3>1, Zenon
  <2> QED
    BY <1>4, <2>1, <2>5
<1>6. both => windows' = wd2
  BY <1>1, <1>2, <1>3
<1> DEFINE ws == IF both THEN made2 ELSE made
<1> HIDE DEF made, made2, wd, wd2
<1>7. /\ WindowsFit(ws, windows') /\ Len(ws) >= n
      /\ \A m \in DOMAIN win : ws[m].query = win[m].query /\ ws[m].report = win[m].report /\ (win[m].deleted => ws[m].deleted)
      /\ \A m \in DOMAIN ws : m \notin DOMAIN win => ws[m].query = Sets!Loops /\ ws[m].report = Sets!Loops
  <2>1. DOMAIN made = 1..n
    BY <1>4 DEF WindowsFit
  <2>2. CASE ~both
    BY <1>1, <1>3, <1>4, <2>1, <2>2
  <2>3. CASE both
    <3>1. DOMAIN made2 = 1..(n + 1)
      BY <1>5, <2>3 DEF WindowsFit
    <3>2. ws = made2 /\ key # {} /\ windows' = wd2
      BY <1>6, <2>3
    <3>3. \A m \in DOMAIN win : ws[m].query = win[m].query /\ ws[m].report = win[m].report /\ (win[m].deleted => ws[m].deleted)
      BY <1>3, <1>4, <1>5, <2>1, <3>2
    <3>4. \A m \in DOMAIN ws : m \notin DOMAIN win => ws[m].query = Sets!Loops /\ ws[m].report = Sets!Loops
      BY <1>3, <1>4, <1>5, <2>1, <3>1, <3>2
    <3> QED
      BY <1>3, <1>5, <3>2, <3>3, <3>4
  <2> QED
    BY <2>2, <2>3
<1> HIDE DEF ws
<1>8. /\ WindowsFit(win', windows') /\ Len(win') = Len(ws) /\ DOMAIN win' = DOMAIN ws
      /\ \A m \in DOMAIN ws : win'[m].query = ws[m].query /\ win'[m].report = ws[m].report /\ win'[m].deleted = ws[m].deleted
  <2>1. n \in DOMAIN ws
    BY <1>3, <1>7 DEF WindowsFit
  <2>2. win' = Sets!CountInto(ws, n, call)
    BY <1>1 DEF ws
  <2>3. /\ WindowsFit(win', windows') /\ Len(win') = Len(ws)
        /\ \A m \in DOMAIN ws : win'[m].query = ws[m].query /\ win'[m].report = ws[m].report /\ win'[m].deleted = ws[m].deleted
    BY <1>7, <2>1, <2>2, WindowCounted
  <2> QED
    BY <1>7, <2>3 DEF WindowsFit
<1>9. ConnFits(conn, Len(win')) /\ \A m \in DOMAIN win' : LoopFits(win'[m], conn, m)
  <2>1. \A m \in DOMAIN win : m \in DOMAIN ws
    BY <1>3, <1>7 DEF WindowsFit
  <2>2. Len(win') >= Len(win)
    BY <1>3, <1>7, <1>8 DEF WindowsFit
  <2> QED
    BY <1>7, <1>8, <2>1, <2>2, WindowsReplaced
<1>10. WindowsFit(win, windows)'
  BY <1>1, <1>8 DEF WindowsFit, WindowType, Labels
<1>11. ConnFits(conn, Len(win))' /\ (\A m \in DOMAIN win : LoopFits(win[m], conn, m))'
  BY <1>1, <1>9 DEF ConnFits, LoopFits
<1>12. HeldFits(held)'
  BY <1>1 DEF SetInv, HeldFits, Labels
<1> QED
  BY <1>1, <1>10, <1>11, <1>12 DEF SetInv

(* A window with one run of a task less, or without calls.                  *)
LEMMA WindowFields ==
  ASSUME NEW v \in WindowType
  PROVE  /\ LET w == [v EXCEPT !.report = @ - 1]
            IN v.report > 0 => w \in WindowType /\ w.key = v.key /\ w.deleted = v.deleted /\ w.query = v.query
         /\ LET w == [v EXCEPT !.query = @ - 1]
            IN /\ w \in WindowType /\ w.key = v.key /\ w.deleted = v.deleted
               /\ w.query = v.query - 1 /\ w.report = v.report
         /\ LET w == Sets!AssembleReportReq(v)
            IN /\ w \in WindowType /\ w.key = v.key /\ w.deleted = v.deleted
               /\ w.query = v.query /\ w.report = v.report
<1>1. v.query - 1 \in Int /\ (v.report > 0 => v.report - 1 \in {0, 1})
  BY DEF WindowType
<1>2. ASSUME NEW i \in {0, 1}
      PROVE  /\ [v EXCEPT !.report = i] \in WindowType /\ [v EXCEPT !.report = i].key = v.key
             /\ [v EXCEPT !.report = i].deleted = v.deleted /\ [v EXCEPT !.report = i].query = v.query
  BY DEF WindowType
<1>3. ASSUME NEW i \in Int
      PROVE  /\ [v EXCEPT !.query = i] \in WindowType /\ [v EXCEPT !.query = i].key = v.key
             /\ [v EXCEPT !.query = i].deleted = v.deleted /\ [v EXCEPT !.query = i].query = i
             /\ [v EXCEPT !.query = i].report = v.report
  BY DEF WindowType
<1>4. Sets!None \in CountType
  BY DEF Sets!None, CountType
<1>5. ASSUME NEW c \in CountType
      PROVE  /\ [v EXCEPT !.counts = c] \in WindowType /\ [v EXCEPT !.counts = c].key = v.key
             /\ [v EXCEPT !.counts = c].deleted = v.deleted /\ [v EXCEPT !.counts = c].query = v.query
             /\ [v EXCEPT !.counts = c].report = v.report
  BY DEF WindowType
<1> QED
  BY <1>1, <1>2, <1>3, <1>4, <1>5 DEF Sets!AssembleReportReq

(* Window n becomes w, the connections cs.                                  *)
LEMMA OneStep ==
  ASSUME SetInv, NEW n \in DOMAIN win, NEW w \in WindowType, w.key = win[n].key, w.deleted = win[n].deleted,
         win' = [win EXCEPT ![n] = w], UNCHANGED <<setup, revision, held, windows, server>>,
         ConnFits(conn', Len(win)), LoopFits(w, conn', n),
         \A m \in DOMAIN win \ {n} : \A s \in setup.servers : Asks(conn', s, m) <=> Asks(conn, s, m)
  PROVE  SetInv'
<1>1. /\ win' \in Seq(WindowType) /\ Len(win') = Len(win)
      /\ \A m \in DOMAIN win : win'[m] = IF m = n THEN w ELSE win[m]
  BY OneChanged
<1>2. ASSUME NEW m \in DOMAIN win PROVE LoopFits(win'[m], conn', m)
  <2>1. CASE m = n
    BY <1>1, <2>1
  <2>2. CASE m # n
    BY <1>1, <2>2, LoopAsks DEF SetInv
  <2> QED
    BY <2>1, <2>2
<1>3. server' \in setup.servers \cup {NULL} /\ revision' \in Int /\ HeldFits(held')
  BY DEF SetInv
<1> QED
  BY <1>1, <1>2, <1>3, SetKept

(* The connections change, the queries under way do not.                    *)
LEMMA ConnStep ==
  ASSUME SetInv, UNCHANGED <<setup, revision, held, windows, win, server>>, ConnFits(conn', Len(win)),
         \A m \in DOMAIN win : \A s \in setup.servers : Asks(conn', s, m) <=> Asks(conn, s, m)
  PROVE  SetInv'
<1>1. \A m \in DOMAIN win : LoopFits(win'[m], conn', m)
  BY LoopAsks DEF SetInv
<1>2. server' \in setup.servers \cup {NULL} /\ revision' \in Int /\ HeldFits(held') /\ win' \in Seq(WindowType)
  BY DEF SetInv, WindowsFit
<1> QED
  BY <1>1, <1>2, SetKept

LEMMA InitSent ==
  ASSUME NullApart, SetInv, NEW n \in DOMAIN win, conn' = Sets!AsyncInit(n),
         UNCHANGED <<setup, revision, held, windows, win, server>>
  PROVE  SetInv'
<1> DEFINE cs == Sets!Selected(conn)
           r == Sets!Request("init", n, 1)
<1>1. n \in 1..Len(win) /\ ConnFits(conn, Len(win)) /\ server \in setup.servers \cup {NULL}
  BY DEF SetInv, WindowsFit
<1>2. ConnFits(cs, Len(win)) /\ \A s \in setup.servers : \A m : Asks(cs, s, m) <=> Asks(conn, s, m)
  BY <1>1, ConnSelected
<1>3. r.w = n /\ r.type = "init" /\ \A m : r # Sets!Request("query", m, 1)
  BY RequestFields
<1> HIDE DEF cs, r
<1>4. /\ ConnFits(Sets!Send(cs, r), Len(win))
      /\ \A s \in setup.servers : \A m : Asks(Sets!Send(cs, r), s, m) <=> Asks(cs, s, m)
  BY <1>1, <1>2, <1>3, ConnSent
<1>5. conn' = Sets!Send(cs, r)
  BY DEF Sets!AsyncInit, cs, r
<1> QED
  BY <1>2, <1>4, <1>5, ConnStep

LEMMA ReportTimed ==
  ASSUME NullApart, SetInv, NEW n \in DOMAIN win, Sets!TimingMetricReport(n)
  PROVE  SetInv'
<1>1. UNCHANGED <<setup, revision, held, windows, server>>
  BY DEF Sets!TimingMetricReport, Sets!callers
<1>2. /\ n \in 1..Len(win) /\ ConnFits(conn, Len(win)) /\ server \in setup.servers \cup {NULL}
      /\ win \in Seq(WindowType) /\ win[n] \in WindowType /\ LoopFits(win[n], conn, n)
  BY DEF SetInv, WindowsFit
<1>3. CASE win[n].deleted
  <2> DEFINE w == [win[n] EXCEPT !.report = @ - 1]
  <2>1. w \in WindowType /\ w.key = win[n].key /\ w.deleted = win[n].deleted /\ w.query = win[n].query
    BY <1>2, WindowFields DEF Sets!TimingMetricReport
  <2>2. win' = [win EXCEPT ![n] = w] /\ UNCHANGED conn
    BY <1>3 DEF Sets!TimingMetricReport
  <2> HIDE DEF w
  <2>3. LoopFits(w, conn, n)
    BY <1>2, <1>3, <2>1, LoopDeleted
  <2> QED
    BY <1>1, <1>2, <2>1, <2>2, <2>3, OneStep
<1>4. CASE ~win[n].deleted /\ Sets!IsMetricInit(n)
  <2> DEFINE w == Sets!AssembleReportReq(win[n])
             r == Sets!Request("report", n, 1)
  <2>1. /\ w \in WindowType /\ w.key = win[n].key /\ w.deleted = win[n].deleted
        /\ w.query = win[n].query /\ w.report = win[n].report
    BY <1>2, WindowFields
  <2>2. win' = [win EXCEPT ![n] = w] /\ conn' = Sets!Send(conn, r)
    BY <1>4 DEF Sets!TimingMetricReport
  <2>3. r.w = n /\ r.type = "report" /\ \A m : r # Sets!Request("query", m, 1)
    BY RequestFields
  <2> HIDE DEF w, r
  <2>4. /\ ConnFits(conn', Len(win))
        /\ \A s \in setup.servers : \A m : Asks(conn', s, m) <=> Asks(conn, s, m)
    BY <1>2, <2>2, <2>3, ConnSent
  <2>5. LoopFits(w, conn', n)
    <3>1. LoopFits(w, conn, n)
      BY <1>2, <2>1, LoopDeleted
    <3> QED
      BY <2>4, <3>1, LoopAsks
  <2> QED
    BY <1>1, <2>1, <2>2, <2>4, <2>5, OneStep
<1>5. CASE ~win[n].deleted /\ ~Sets!IsMetricInit(n)
  BY <1>1, <1>5, InitSent DEF Sets!TimingMetricReport
<1> QED
  BY <1>3, <1>4, <1>5

LEMMA QueryTimed ==
  ASSUME NullApart, SetInv, NEW n \in DOMAIN win, Sets!TimingMetricQuery(n)
  PROVE  SetInv'
<1>1. UNCHANGED <<setup, revision, held, windows, server>>
  BY DEF Sets!TimingMetricQuery, Sets!callers
<1>2. /\ n \in 1..Len(win) /\ ConnFits(conn, Len(win)) /\ server \in setup.servers \cup {NULL}
      /\ win \in Seq(WindowType) /\ win[n] \in WindowType /\ LoopFits(win[n], conn, n)
  BY DEF SetInv, WindowsFit
<1>3. win[n].query = 1 /\ \A s \in setup.servers : ~Asks(conn, s, n)
  BY <1>2 DEF LoopFits, Sets!TimingMetricQuery
<1> DEFINE w == [win[n] EXCEPT !.query = @ - 1]
<1>4. /\ w \in WindowType /\ w.key = win[n].key /\ w.deleted = win[n].deleted
      /\ w.query = 0 /\ w.report = win[n].report
  <2>1. win[n] \in WindowType
    BY <1>2
  <2>2. /\ w \in WindowType /\ w.key = win[n].key /\ w.deleted = win[n].deleted
        /\ w.query = win[n].query - 1 /\ w.report = win[n].report
    BY <2>1, WindowFields, Zenon
  <2> HIDE DEF w
  <2> QED
    BY <1>3, <2>2
<1>5. CASE win[n].deleted
  <2>1. win' = [win EXCEPT ![n] = w] /\ UNCHANGED conn
    BY <1>5 DEF Sets!TimingMetricQuery
  <2> HIDE DEF w
  <2>2. LoopFits(w, conn, n)
    BY <1>3, <1>4, <1>5 DEF LoopFits
  <2> QED
    BY <1>1, <1>2, <1>4, <2>1, <2>2, OneStep
<1>6. CASE ~win[n].deleted /\ Sets!IsMetricInit(n)
  <2> DEFINE r == Sets!Request("query", n, 1)
  <2>1. win' = [win EXCEPT ![n] = w] /\ conn' = Sets!Send(conn, r) /\ server # NULL
    BY <1>6 DEF Sets!TimingMetricQuery, Sets!MetricQuery, Sets!IsMetricInit
  <2>2. r.w = n /\ r = Sets!Request("query", r.w, 1) /\ \A m : r = Sets!Request("query", m, 1) <=> m = n
    BY RequestFields
  <2> HIDE DEF w, r
  <2>3. /\ ConnFits(conn', Len(win))
        /\ \A s \in setup.servers : \A m : Asks(conn', s, m) <=> Asks(conn, s, m) \/ (s = server /\ m = n)
    BY <1>2, <1>3, <2>1, <2>2, ConnSent
  <2>4. LoopFits(w, conn', n)
    <3>1. setup.global
      BY <1>2, <1>3, <1>6 DEF LoopFits
    <3>2. server \in setup.servers
      BY <1>2, <2>1
    <3> QED
      BY <1>2, <1>3, <1>4, <2>3, <3>1, <3>2 DEF LoopFits
  <2> QED
    BY <1>1, <1>4, <2>1, <2>3, <2>4, OneStep
<1>7. CASE ~win[n].deleted /\ ~Sets!IsMetricInit(n)
  BY <1>1, <1>7, InitSent DEF Sets!TimingMetricQuery
<1> QED
  BY <1>5, <1>6, <1>7

(* A connection with one field changed is a connection.                     *)
LEMMA ConnFields ==
  ASSUME NullApart, NEW c, DOMAIN c = {"open", "inflight", "init"}, NEW v
  PROVE  /\ LET d == [c EXCEPT !.open = v]
            IN d # NULL /\ DOMAIN d = {"open", "inflight", "init"} /\ d.inflight = c.inflight
         /\ LET d == [c EXCEPT !.init = v]
            IN d # NULL /\ DOMAIN d = {"open", "inflight", "init"} /\ d.inflight = c.inflight
         /\ LET d == [c EXCEPT !.inflight = v]
            IN d # NULL /\ DOMAIN d = {"open", "inflight", "init"} /\ d.inflight = v /\ d.init = c.init
<1>1. /\ [c EXCEPT !.open = v] = [open |-> v, inflight |-> c.inflight, init |-> c.init]
      /\ [c EXCEPT !.init = v] = [open |-> c.open, inflight |-> c.inflight, init |-> v]
      /\ [c EXCEPT !.inflight = v] = [open |-> c.open, inflight |-> v, init |-> c.init]
  OBVIOUS
<1>2. /\ NULL # [open |-> v, inflight |-> c.inflight, init |-> c.init]
      /\ NULL # [open |-> c.open, inflight |-> c.inflight, init |-> v]
      /\ NULL # [open |-> c.open, inflight |-> v, init |-> c.init]
  BY Zenon DEF NullApart
<1> QED
  BY <1>1, <1>2

(* Connections come up, idle ones and unused keys go.                       *)
LEMMA ConnChanged ==
  ASSUME NullApart, SetInv, NEW s \in setup.servers, Sets!OnConnect(s) \/ Sets!ConnectionIdleCheck(s)
  PROVE  SetInv'
<1>1. UNCHANGED <<setup, revision, held, windows, win, server>> /\ conn[s] # NULL
  BY DEF Sets!OnConnect, Sets!ConnectionIdleCheck, Sets!callers
<1>2. ConnFits(conn, Len(win))
  BY DEF SetInv
<1>3. CASE conn' = [conn EXCEPT ![s] = NULL] /\ DOMAIN conn[s].inflight = {}
  BY <1>1, <1>2, <1>3, ConnStep DEF ConnFits, Asks
<1>4. ASSUME NEW d, conn' = [conn EXCEPT ![s] = d], d # NULL, DOMAIN d = {"open", "inflight", "init"},
             d.inflight = conn[s].inflight
      PROVE  SetInv'
  <2>1. ConnFits(conn', Len(win))
    BY <1>1, <1>2, <1>4 DEF ConnFits
  <2>2. \A m \in DOMAIN win : \A t \in setup.servers : Asks(conn', t, m) <=> Asks(conn, t, m)
    BY <1>1, <1>2, <1>4 DEF ConnFits, Asks
  <2> QED
    BY <1>1, <2>1, <2>2, ConnStep
<1>5. DOMAIN conn[s] = {"open", "inflight", "init"} /\ DOMAIN conn = setup.servers
  BY <1>1, <1>2 DEF ConnFits
<1>6. CASE conn' = [conn EXCEPT ![s].open = TRUE]
  <2> DEFINE d == [conn[s] EXCEPT !.open = TRUE]
  <2>1. conn' = [conn EXCEPT ![s] = d]
    BY <1>5, <1>6
  <2>2. d # NULL /\ DOMAIN d = {"open", "inflight", "init"} /\ d.inflight = conn[s].inflight
    BY <1>5, ConnFields, Zenon
  <2> HIDE DEF d
  <2> QED
    BY <1>4, <2>1, <2>2
<1>7. CASE conn' = [conn EXCEPT ![s].init = {}]
  <2> DEFINE d == [conn[s] EXCEPT !.init = {}]
  <2>1. conn' = [conn EXCEPT ![s] = d]
    BY <1>5, <1>7
  <2>2. d # NULL /\ DOMAIN d = {"open", "inflight", "init"} /\ d.inflight = conn[s].inflight
    BY <1>5, ConnFields, Zenon
  <2> HIDE DEF d
  <2> QED
    BY <1>4, <2>1, <2>2
<1>8. Sets!ConnectionIdleCheck(s) => (conn' = [conn EXCEPT ![s] = NULL] /\ DOMAIN conn[s].inflight = {}) \/ conn' = [conn EXCEPT ![s].init = {}]
  BY DEF Sets!ConnectionIdleCheck, Sets!EmptyBag, Sets!SetToBag
<1>9. Sets!OnConnect(s) => conn' = [conn EXCEPT ![s].open = TRUE]
  BY DEF Sets!OnConnect
<1> QED
  BY <1>3, <1>6, <1>7, <1>8, <1>9

LEMMA EndedStep ==
  ASSUME SetInv, NEW ended, ConnFits(conn', Len(win)), UNCHANGED <<setup, revision, held, windows, server>>,
         win' = Sets!MetricQueryCallback(win, ended),
         \A n \in DOMAIN win : Sets!Request("query", n, 1) \in ended => \E s \in setup.servers : Asks(conn, s, n),
         \A n \in DOMAIN win, s \in setup.servers :
            Asks(conn', s, n) <=> Asks(conn, s, n) /\ Sets!Request("query", n, 1) \notin ended
  PROVE  SetInv'
<1>1. /\ win' \in Seq(WindowType) /\ Len(win') = Len(win)
      /\ \A n \in DOMAIN win : /\ win'[n].key = win[n].key /\ win'[n].deleted = win[n].deleted
                               /\ LoopFits(win'[n], conn', n)
  BY CalledBack
<1>2. server' \in setup.servers \cup {NULL} /\ revision' \in Int /\ HeldFits(held')
  BY DEF SetInv
<1> QED
  BY <1>1, <1>2, SetKept

(* A connection goes, with all its requests.                                *)
LEMMA ConnLost ==
  ASSUME NullApart, SetInv, NEW s \in setup.servers, conn[s] # NULL, conn' = [conn EXCEPT ![s] = NULL],
         win' = Sets!MetricQueryCallback(win, DOMAIN conn[s].inflight),
         UNCHANGED <<setup, revision, held, windows, server>>
  PROVE  SetInv'
<1> DEFINE ended == DOMAIN conn[s].inflight
<1>1. ConnFits(conn, Len(win)) /\ ConnFits(conn', Len(win))
  BY DEF SetInv, ConnFits
<1>2. \A n : Sets!Request("query", n, 1) \in ended <=> Asks(conn, s, n)
  BY DEF Asks
<1>3. ASSUME NEW n \in DOMAIN win, NEW t \in setup.servers
      PROVE  Asks(conn', t, n) <=> Asks(conn, t, n) /\ Sets!Request("query", n, 1) \notin ended
  <2>1. LoopFits(win[n], conn, n)
    BY DEF SetInv
  <2>2. Asks(conn', t, n) <=> Asks(conn, t, n) /\ t # s
    BY <1>1 DEF ConnFits, Asks
  <2> HIDE DEF ended
  <2> QED
    BY <1>2, <2>1, <2>2 DEF LoopFits
<1> HIDE DEF ended
<1>4. win' = Sets!MetricQueryCallback(win, ended)
  BY DEF ended
<1> QED
  BY <1>1, <1>2, <1>3, <1>4, EndedStep

LEMMA ConnFailed ==
  ASSUME NullApart, SetInv, NEW s \in setup.servers, Sets!OnFailure(s)
  PROVE  SetInv'
  BY ConnLost DEF Sets!OnFailure, Sets!CloseForError, Sets!InFlight, Sets!BagToSet, Sets!callers

(* A request that timed out is called back before the others; together they *)
(* are the requests of the connection, each once.                           *)
LEMMA ConnExpired ==
  ASSUME NullApart, SetInv, NEW s \in setup.servers, NEW r \in Sets!InFlight(s),
         Sets!MetricRequestTimeoutCheck(s, r)
  PROVE  SetInv'
<1> DEFINE b == conn[s].inflight
           rest == DOMAIN Sets!BagRemove(b, r)
           first == Sets!MetricQueryCallback(win, {r})
<1>1. conn[s] # NULL /\ r \in DOMAIN b
  BY DEF Sets!InFlight, Sets!BagToSet
<1>2. /\ UNCHANGED <<setup, revision, held, windows, server>>
      /\ conn' = [conn EXCEPT ![s] = NULL] /\ win' = Sets!MetricQueryCallback(first, rest)
  BY DEF Sets!MetricRequestTimeoutCheck, Sets!Expire, Sets!callers, Sets!BagToSet
<1>3. BagFits(b, Len(win))
  BY <1>1 DEF SetInv, ConnFits
<1>4. \A n : Sets!Request("query", n, 1) \in rest <=> Sets!Request("query", n, 1) \in DOMAIN b \ {r}
  BY <1>1, <1>3, BagRemoved, RequestFields
<1> HIDE DEF b, rest
<1>5. DOMAIN first = DOMAIN win
  BY DEF Sets!MetricQueryCallback
<1>6. ASSUME NEW n \in DOMAIN win
      PROVE  Sets!MetricQueryCallback(first, rest)[n] = Sets!MetricQueryCallback(win, DOMAIN b)[n]
  <2> DEFINE q == Sets!Request("query", n, 1)
  <2>1. win[n] \in WindowType
    BY DEF SetInv, WindowsFit
  <2>2. CASE q = r
    <3>1. q \notin rest /\ q \in DOMAIN b
      BY <1>1, <1>4, <2>2 DEF b
    <3>2. Sets!MetricQueryCallback(first, rest)[n] = first[n]
      BY <1>5, <3>1 DEF Sets!MetricQueryCallback
    <3>3. first[n] = Sets!MetricQueryCallback(win, DOMAIN b)[n]
      BY <2>2, <3>1 DEF Sets!MetricQueryCallback
    <3> QED
      BY <3>2, <3>3
  <2>3. CASE q # r
    <3>1. first[n] = win[n]
      BY <2>3 DEF Sets!MetricQueryCallback
    <3>2. q \in rest <=> q \in DOMAIN b
      BY <1>4, <2>3
    <3> HIDE DEF first
    <3> QED
      BY <1>5, <3>1, <3>2 DEF Sets!MetricQueryCallback
  <2> QED
    BY <2>2, <2>3
<1>7. Sets!MetricQueryCallback(first, rest) = Sets!MetricQueryCallback(win, DOMAIN b)
  BY <1>5, <1>6 DEF Sets!MetricQueryCallback
<1> QED
  BY <1>1, <1>2, <1>7, ConnLost DEF b

(* An answer ends its request.                                              *)
LEMMA ConnAnswered ==
  ASSUME NullApart, SetInv, NEW s \in setup.servers, NEW r \in Sets!InFlight(s), NEW code,
         Sets!OnSuccess(s, r, code)
  PROVE  SetInv'
<1> DEFINE b == Sets!BagRemove(conn[s].inflight, r)
           d == [conn[s] EXCEPT !.inflight = b]
           done == [conn EXCEPT ![s] = d]
           N == Len(win)
           q(n) == Sets!Request("query", n, 1)
<1>1. /\ conn[s] # NULL /\ r \in DOMAIN conn[s].inflight
      /\ DOMAIN conn[s] = {"open", "inflight", "init"} /\ BagFits(conn[s].inflight, N)
      /\ DOMAIN conn = setup.servers /\ ConnFits(conn, N)
      /\ server \in setup.servers \cup {NULL}
  BY DEF Sets!InFlight, Sets!BagToSet, SetInv, ConnFits
<1>2. r.w \in 1..N
  BY <1>1 DEF BagFits
<1>3. BagFits(b, N) /\ \A n : q(n) \in DOMAIN b <=> q(n) \in DOMAIN conn[s].inflight /\ q(n) # r
  BY <1>1, BagRemoved, RequestFields
<1>4. /\ UNCHANGED <<setup, revision, held, windows, server>>
      /\ win' = Sets!MetricQueryCallback(win, {r})
      /\ conn' = IF r.type = "init" /\ code = "ok" THEN [done EXCEPT ![s].init = @ \cup {Sets!MetricKey(r.w)}]
                 ELSE Sets!MetricReportCallBack(done, r, code)
  BY <1>1 DEF Sets!OnSuccess, Sets!callers
<1> HIDE DEF b
<1>5. d # NULL /\ DOMAIN d = {"open", "inflight", "init"} /\ d.inflight = b
  <2>1. d = [open |-> conn[s].open, inflight |-> b, init |-> conn[s].init]
    BY <1>1
  <2> HIDE DEF d
  <2>2. d # NULL
    BY <2>1, Zenon DEF NullApart
  <2> QED
    BY <2>1, <2>2
<1> HIDE DEF d
<1>6. /\ DOMAIN done = setup.servers /\ done[s] = d
      /\ \A t \in setup.servers \ {s} : done[t] = conn[t]
  BY <1>1
<1> HIDE DEF done
<1>7. ConnFits(done, N)
  BY <1>1, <1>3, <1>5, <1>6 DEF ConnFits
<1>8. ASSUME NEW n \in DOMAIN win, NEW t \in setup.servers
      PROVE  Asks(done, t, n) <=> Asks(conn, t, n) /\ q(n) # r
  <2>1. LoopFits(win[n], conn, n)
    BY DEF SetInv
  <2>2. q(n) = r => Asks(conn, s, n)
    BY <1>1 DEF Asks
  <2>3. CASE t = s
    BY <1>1, <1>3, <1>5, <1>6, <2>3 DEF Asks
  <2>4. CASE t # s
    <3>1. Asks(done, t, n) <=> Asks(conn, t, n)
      BY <1>6, <2>4 DEF Asks
    <3>2. q(n) = r => ~Asks(conn, t, n)
      BY <2>1, <2>2, <2>4 DEF LoopFits
    <3> QED
      BY <3>1, <3>2
  <2> QED
    BY <2>3, <2>4
<1>9. ConnFits(conn', N) /\ \A t \in setup.servers : \A n : Asks(conn', t, n) <=> Asks(done, t, n)
  <2>1. CASE r.type = "init" /\ code = "ok"
    <3> DEFINE k == d.init \cup {Sets!MetricKey(r.w)}
               e == [d EXCEPT !.init = k]
    <3>1. conn' = [done EXCEPT ![s] = e]
      BY <1>4, <1>5, <1>6, <2>1
    <3> HIDE DEF k
    <3>2. e # NULL /\ DOMAIN e = {"open", "inflight", "init"} /\ e.inflight = b
      <4>1. e # NULL /\ DOMAIN e = {"open", "inflight", "init"} /\ e.inflight = d.inflight
        BY <1>5, ConnFields, Zenon
      <4> QED
        BY <1>5, <4>1
    <3> HIDE DEF e
    <3> QED
      BY <1>3, <1>5, <1>6, <1>7, <3>1, <3>2 DEF ConnFits, Asks
  <2>2. CASE ~(r.type = "init" /\ code = "ok")
    <3> DEFINE p == Sets!Request("report", r.w, r.tries + 1)
    <3>1. conn' = done \/ conn' = Sets!Send(done, p)
      BY <1>4, <2>2 DEF Sets!MetricReportCallBack
    <3>2. p.w \in 1..N /\ p.type = "report" /\ \A n : p # q(n)
      BY <1>2, RequestFields
    <3> HIDE DEF p
    <3>3. /\ ConnFits(Sets!Send(done, p), N)
          /\ \A t \in setup.servers : \A n : Asks(Sets!Send(done, p), t, n) <=> Asks(done, t, n)
      BY <1>1, <1>7, <3>2, ConnSent
    <3> QED
      BY <1>7, <3>1, <3>3
  <2> QED
    BY <2>1, <2>2
<1>10. \A n \in DOMAIN win : q(n) \in {r} => \E t \in setup.servers : Asks(conn, t, n)
  BY <1>1 DEF Asks
<1>11. \A n \in DOMAIN win, t \in setup.servers : Asks(conn', t, n) <=> Asks(conn, t, n) /\ q(n) \notin {r}
  BY <1>8, <1>9
<1> QED
  BY <1>4, <1>9, <1>10, <1>11, EndedStep, Zenon

(* Windows and connections stay as they are.                                *)
LEMMA SetUntouched ==
  ASSUME SetInv, UNCHANGED <<setup, windows, win, conn>>,
         server' \in setup.servers \cup {NULL}, revision' \in Int, HeldFits(held')
  PROVE  SetInv'
<1>1. win' \in Seq(WindowType) /\ ConnFits(conn', Len(win)) /\ \A n \in DOMAIN win : LoopFits(win'[n], conn', n)
  BY DEF SetInv, WindowsFit
<1> QED
  BY <1>1, SetKept

LEMMA SetStep == NullApart /\ SetInv /\ [Sets!Next]_(Sets!vars) => SetInv'
<1> SUFFICES ASSUME NullApart, SetInv, [Sets!Next]_(Sets!vars) PROVE SetInv'
  OBVIOUS
<1>1. server \in setup.servers \cup {NULL} /\ revision \in Int /\ HeldFits(held)
  BY DEF SetInv
<1>2. CASE Sets!UpdateRule
  BY <1>1, <1>2, SetUntouched DEF Sets!UpdateRule, Sets!network
<1>3. CASE Sets!SelectInstance
  BY <1>1, <1>3, SetUntouched DEF Sets!SelectInstance, Sets!callers
<1>4. CASE Sets!CheckAndSyncToRegistry \/ Sets!Tick \/ UNCHANGED Sets!vars
  BY <1>1, <1>4, SetUntouched DEF Sets!CheckAndSyncToRegistry, Sets!Tick, Sets!network, Sets!callers, Sets!vars
<1>5. ASSUME NEW c \in DOMAIN held, Sets!GetCbPConfPbFromLocalRegistry(c) PROVE SetInv'
  <2>1. UNCHANGED <<setup, revision, windows, win, server, conn>>
    BY <1>5 DEF Sets!GetCbPConfPbFromLocalRegistry, Sets!network
  <2>2. PICK label \in setup.labels : held' = [held EXCEPT ![c] = [label |-> label, rev |-> revision]]
    BY <1>5 DEF Sets!GetCbPConfPbFromLocalRegistry
  <2>3. HeldFits(held')
    BY <1>1, <2>2 DEF HeldFits, Labels
  <2> QED
    BY <1>1, <2>1, <2>3, SetUntouched
<1>6. ASSUME NEW c \in DOMAIN held, Sets!NoMatch(c) PROVE SetInv'
  <2>1. UNCHANGED <<setup, revision, windows, win, server, conn>> /\ held' = [held EXCEPT ![c] = NULL]
    BY <1>6 DEF Sets!NoMatch, Sets!network
  <2>2. HeldFits(held')
    BY <1>1, <2>1 DEF HeldFits
  <2> QED
    BY <1>1, <2>1, <2>2, SetUntouched
<1>7. ASSUME NEW c \in DOMAIN held, NEW call, Sets!AddToWindow(c, call) \/ Sets!UpdateWindow(c, call) PROVE SetInv'
  BY <1>7, CallerCounts, WindowUpdated
<1>8. ASSUME NEW n \in DOMAIN win, Sets!TimingMetricReport(n) \/ Sets!TimingMetricQuery(n) PROVE SetInv'
  BY <1>8, ReportTimed, QueryTimed
<1>9. ASSUME NEW s \in setup.servers, Sets!OnConnect(s) \/ Sets!OnFailure(s) \/ Sets!ConnectionIdleCheck(s) PROVE SetInv'
  BY <1>9, ConnChanged, ConnFailed
<1>10. ASSUME NEW s \in setup.servers, NEW r \in Sets!InFlight(s), NEW code,
              Sets!MetricRequestTimeoutCheck(s, r) \/ Sets!OnSuccess(s, r, code)
       PROVE  SetInv'
  BY <1>10, ConnExpired, ConnAnswered
<1> QED
  BY <1>2, <1>3, <1>4, <1>5, <1>6, <1>7, <1>8, <1>9, <1>10 DEF Sets!Next

(* The instance counts as the theorems on finite sets do.                   *)
LEMMA SameCardinality == \A S : Sets!Cardinality(S) = Cardinality(S)
  BY DEF Sets!Cardinality, Cardinality

(* The set that OneLoop counts is empty or a single server.                 *)
LEMMA OneAsked ==
  ASSUME NEW n, NEW w, LoopFits(w, conn, n)
  PROVE  LET asked == {s \in setup.servers : Sets!Request("query", n, 1) \in Sets!InFlight(s)}
         IN Cardinality(asked) = IF \E s \in setup.servers : Asks(conn, s, n) THEN 1 ELSE 0
<1> DEFINE asked == {s \in setup.servers : Sets!Request("query", n, 1) \in Sets!InFlight(s)}
<1>1. \A s \in setup.servers : s \in asked <=> Asks(conn, s, n)
  BY DEF Asks, Sets!InFlight, Sets!BagToSet
<1>2. \A s \in asked : s \in setup.servers
  OBVIOUS
<1> HIDE DEF asked
<1>3. CASE \E s \in setup.servers : Asks(conn, s, n)
  <2>1. PICK s \in setup.servers : Asks(conn, s, n)
    BY <1>3
  <2>2. asked = {s}
    BY <1>1, <1>2, <2>1 DEF LoopFits
  <2> QED
    BY <1>3, <2>2, FS_Singleton DEF asked
<1>4. CASE ~\E s \in setup.servers : Asks(conn, s, n)
  <2>1. asked = {}
    BY <1>1, <1>2, <1>4
  <2> QED
    BY <1>4, <2>1, FS_EmptySet DEF asked
<1> QED
  BY <1>3, <1>4

(***************************************************************************)
(* Each metric window in use asks exactly once at a time and has one timer *)
(* for its report; one that was replaced has at most one of each left,     *)
(* through every loss of a connection, timeout, answer and change of the   *)
(* metric server: no callback is lost, none comes twice, and no window     *)
(* keeps a loop without being the current one.                             *)
(***************************************************************************)
THEOREM WindowsHaveOneLoop ==
  ASSUME NullApart
  PROVE  Spec => []OneLoop
<1>1. Sets!Init => SetInv
  <2> SUFFICES ASSUME Sets!Init PROVE SetInv
    OBVIOUS
  <2>1. /\ win = <<>> /\ windows = [k \in Labels |-> NULL] /\ conn = [s \in setup.servers |-> NULL]
        /\ server \in setup.servers /\ revision = 1 /\ held = [c \in setup.callers |-> NULL]
    BY DEF Sets!Init, Labels
  <2>2. WindowsFit(win, windows) /\ \A n \in DOMAIN win : LoopFits(win[n], conn, n)
    BY <2>1 DEF WindowsFit
  <2>3. ConnFits(conn, Len(win)) /\ HeldFits(held)
    BY <2>1 DEF ConnFits, HeldFits
  <2> QED
    BY <2>1, <2>2, <2>3 DEF SetInv
<1>2. SetInv => Sets!OneLoop
  <2> SUFFICES ASSUME SetInv, NEW n \in DOMAIN win
               PROVE  /\ IF win[n].deleted THEN Sets!Queries(n) <= 1 ELSE Sets!Queries(n) = Sets!Loops
                      /\ IF win[n].deleted THEN win[n].report \in {0, 1} ELSE win[n].report = Sets!Loops
                      /\ \A s \in setup.servers : Sets!Request("query", n, 1) \in Sets!InFlight(s) =>
                           conn[s].inflight[Sets!Request("query", n, 1)] = 1
                      /\ ~win[n].deleted => \E k \in DOMAIN windows : windows[k] = n
    BY DEF Sets!OneLoop
  <2>1. LoopFits(win[n], conn, n) /\ WindowsFit(win, windows) /\ ConnFits(conn, Len(win))
    BY DEF SetInv
  <2>2. Sets!Queries(n) = win[n].query + IF \E s \in setup.servers : Asks(conn, s, n) THEN 1 ELSE 0
    <3> DEFINE asked == {s \in setup.servers : Sets!Request("query", n, 1) \in Sets!InFlight(s)}
    <3>1. Sets!Queries(n) = win[n].query + Cardinality(asked)
      BY SameCardinality DEF Sets!Queries
    <3>2. Cardinality(asked) = IF \E s \in setup.servers : Asks(conn, s, n) THEN 1 ELSE 0
      BY <2>1, OneAsked, Zenon
    <3> HIDE DEF asked
    <3> QED
      BY <3>1, <3>2
  <2>3. IF win[n].deleted THEN Sets!Queries(n) <= 1 ELSE Sets!Queries(n) = Sets!Loops
    BY <2>1, <2>2 DEF LoopFits, Sets!Loops
  <2>6. IF win[n].deleted THEN win[n].report \in {0, 1} ELSE win[n].report = Sets!Loops
    <3>1. win[n] \in WindowType
      BY <2>1 DEF WindowsFit
    <3> QED
      BY <2>1, <3>1 DEF LoopFits, Sets!Loops, WindowType
  <2>4. ASSUME NEW s \in setup.servers, Sets!Request("query", n, 1) \in Sets!InFlight(s)
        PROVE  conn[s].inflight[Sets!Request("query", n, 1)] = 1
    BY <2>1, <2>4, RequestFields DEF ConnFits, BagFits, Sets!InFlight, Sets!BagToSet
  <2>5. ~win[n].deleted => \E k \in DOMAIN windows : windows[k] = n
    <3>1. win[n] \in WindowType
      BY <2>1 DEF WindowsFit
    <3> QED
      BY <2>1, <3>1 DEF WindowsFit, WindowType
  <2> QED
    BY <2>3, <2>4, <2>5, <2>6
<1> DEFINE Inv == part = "sets" => SetInv
<1>3. Init => Inv
  BY <1>1, PartInit
<1>4. Inv /\ [Next]_all => Inv'
  BY PartStep, SetStep
<1>5. Inv => OneLoop
  BY <1>2 DEF OneLoop
<1> QED
  BY <1>3, <1>4, <1>5, PTL DEF Spec
-----------------------------------------------------------------------------
(***************************************************************************)
(* QuotaManager: who holds a window, and what the cache keeps              *)
(***************************************************************************)
version == v1
ticks == v2
made == v3
cache == v4
recent == v5
size == v6
garbage == v7
lock == v8
caller == v9
reactor == v10
collector == v11
USE DEF version, ticks, made, cache, recent, size, garbage, lock, caller, reactor, collector

(* All windows ever made, with the keys they had.                           *)
QuotaFields == {"key", "rule", "deleted", "used", "limited", "sync", "granted", "refs"}
MadeFit(ws) ==
  /\ Len(ws) \in Nat /\ ws = [i \in 1..Len(ws) |-> ws[i]]
  /\ \A w \in DOMAIN ws : DOMAIN ws[w] = QuotaFields /\ ws[w].refs \in Int /\ ws[w].key \in Quota!Keys

Cached(ch, w) == \E key \in Quota!Keys : ch[key] = w
CachedKeys == {key \in Quota!Keys : cache[key] # NULL}

(* The cache has a window under its key; what it let go of, it let go of    *)
(* once.                                                                    *)
CacheFits ==
  /\ DOMAIN cache = Quota!Keys
  /\ \A key \in CachedKeys : cache[key] \in DOMAIN made /\ made[cache[key]].key = key
  /\ garbage \subseteq DOMAIN made
  /\ \A w \in garbage : ~Cached(cache, w)

(* Who else holds windows.                                                  *)
ReactorFits ==
  /\ collector \subseteq DOMAIN made
  /\ DOMAIN reactor = {"pc", "todo", "w"} /\ reactor.pc \in {"idle", "next", "mark", "delete"}
  /\ reactor.todo \subseteq DOMAIN made
  /\ reactor.pc = "idle" => reactor.todo = {}
  /\ IF reactor.pc \in {"mark", "delete"} THEN reactor.w \in DOMAIN made ELSE reactor.w = NULL

(* A call; the lock belongs to the one that makes a window.                 *)
CallFits(r, ids) ==
  /\ DOMAIN r = {"pc", "rule", "key", "w"}
  /\ r.pc \in {"idle", "lookup", "lock", "create", "evict", "evicting", "use"}
  /\ r.pc \in {"idle", "lookup", "lock"} => r.w = NULL
  /\ r.pc = "create" => r.w \in ids \cup {NULL}
  /\ r.pc \in {"evict", "evicting", "use"} => r.w \in ids
  /\ r.pc # "idle" => r.key \in Quota!Keys
Locked(r) == r.pc \in {"create", "evict", "evicting"}
CallersFit ==
  /\ IsFiniteSet(DOMAIN caller) /\ NULL \notin DOMAIN caller
  /\ \A c \in DOMAIN caller : /\ CallFits(caller[c], DOMAIN made)
                              /\ Locked(caller[c]) <=> lock = c
                              /\ caller[c].pc = "create" => cache[caller[c].key] = NULL

(* The recency list names the keys of the table but the one that is being   *)
(* evicted; one key at most is too many, and only until it is evicted.      *)
Evicted == {caller[c].key : c \in {d \in DOMAIN caller : caller[d].pc = "evicting"}}
RecencyFits ==
  Quota!Lru =>
    /\ recent \in Seq(Quota!Keys) /\ Quota!IsInjective(recent)
    /\ Quota!ToSet(recent) = CachedKeys \ Evicted
    /\ Evicted \subseteq CachedKeys
    /\ size \in Int /\ IsFiniteSet(CachedKeys) /\ Cardinality(CachedKeys) <= size
    /\ \/ size <= setup.lru
       \/ /\ size = setup.lru + 1
          /\ \E c \in DOMAIN caller : caller[c].pc \in {"evict", "evicting"}
    /\ \A c \in DOMAIN caller : /\ caller[c].pc = "evict" /\ size > setup.lru => CachedKeys # {}
                                /\ caller[c].pc = "evicting" => size > setup.lru

QuotaInv ==
  /\ setup \in QuotaSetups /\ version \in DOMAIN setup.rules
  /\ MadeFit(made) /\ CacheFits /\ ReactorFits /\ CallersFit /\ RecencyFits
  /\ Quota!WindowRefs

LEMMA QuotaCardinality == \A S : Quota!Cardinality(S) = Cardinality(S)
  BY DEF Quota!Cardinality, Cardinality

(* Sequences by their shape.                                                *)
LEMMA SeqShape ==
  ASSUME NEW s, NEW n \in Nat, s = [i \in 1..n |-> s[i]], NEW S, \A i \in 1..n : s[i] \in S
  PROVE  s \in Seq(S) /\ Len(s) = n
<1>1. s \in [1..n -> S]
  OBVIOUS
<1> QED
  BY <1>1, SeqDef, LenProperties

Shaped(f) == f = [i \in DOMAIN f |-> f[i]]

LEMMA MadeLen ==
  ASSUME NEW ws, MadeFit(ws)
  PROVE  DOMAIN ws = 1..Len(ws) /\ Len(ws) \in Nat /\ ws \in Seq({ws[i] : i \in DOMAIN ws})
<1>1. DOMAIN ws = 1..Len(ws) /\ Len(ws) \in Nat /\ ws = [i \in 1..Len(ws) |-> ws[i]]
  BY DEF MadeFit
<1>2. \A i \in 1..Len(ws) : ws[i] \in {ws[j] : j \in DOMAIN ws}
  BY <1>1
<1> QED
  BY <1>1, <1>2, SeqShape

(* Windows change in place.                                                 *)
LEMMA MadeKept ==
  ASSUME NEW ws, MadeFit(ws), NEW vs, Shaped(vs), DOMAIN vs = DOMAIN ws,
         \A w \in DOMAIN ws : DOMAIN vs[w] = QuotaFields /\ vs[w].refs \in Int /\ vs[w].key = ws[w].key
  PROVE  MadeFit(vs) /\ Len(vs) = Len(ws) /\ DOMAIN vs = DOMAIN ws
<1>1. DOMAIN ws = 1..Len(ws) /\ Len(ws) \in Nat
  BY MadeLen
<1>2. vs = [i \in 1..Len(ws) |-> vs[i]] /\ DOMAIN vs = DOMAIN ws
  BY <1>1 DEF Shaped
<1>3. \A i \in 1..Len(ws) : vs[i] \in {vs[j] : j \in DOMAIN ws}
  BY <1>1
<1>4. Len(vs) = Len(ws)
  BY <1>1, <1>2, <1>3, SeqShape
<1> QED
  BY <1>1, <1>2, <1>4 DEF MadeFit

(* One window changes, its key stays.                                       *)
LEMMA MadeChanged ==
  ASSUME NEW ws, MadeFit(ws), NEW w \in DOMAIN ws, NEW v, DOMAIN v = QuotaFields, v.refs \in Int, v.key = ws[w].key,
         NEW vs, vs = [ws EXCEPT ![w] = v]
  PROVE  /\ MadeFit(vs) /\ Len(vs) = Len(ws) /\ DOMAIN vs = DOMAIN ws
         /\ \A i \in DOMAIN ws : vs[i] = IF i = w THEN v ELSE ws[i]
<1>1. /\ Shaped(vs) /\ DOMAIN vs = DOMAIN ws
      /\ \A i \in DOMAIN ws : vs[i] = IF i = w THEN v ELSE ws[i]
  BY DEF Shaped
<1>2. \A i \in DOMAIN ws : DOMAIN vs[i] = QuotaFields /\ vs[i].refs \in Int /\ vs[i].key = ws[i].key
  BY <1>1 DEF MadeFit
<1>3. MadeFit(vs) /\ Len(vs) = Len(ws) /\ DOMAIN vs = DOMAIN ws
  BY <1>1, <1>2, MadeKept
<1> QED
  BY <1>1, <1>3

LEMMA NullNoWindow ==
  ASSUME QuotasFit, NEW ws, MadeFit(ws)
  PROVE  NULL \notin DOMAIN ws
<1>1. DOMAIN ws = 1..Len(ws)
  BY MadeLen
<1>2. NULL \notin Nat
  BY DEF QuotasFit
<1> QED
  BY <1>1, <1>2

LEMMA RefTaken ==
  ASSUME NEW ws, MadeFit(ws), NEW w \in DOMAIN ws, NEW vs, vs = Quota!IncrementRef(ws, w)
  PROVE  /\ MadeFit(vs) /\ Len(vs) = Len(ws) /\ DOMAIN vs = DOMAIN ws
         /\ \A i \in DOMAIN ws : /\ vs[i].key = ws[i].key /\ vs[i].sync = ws[i].sync
                                  /\ vs[i].refs = ws[i].refs + (IF i = w THEN 1 ELSE 0)
<1>1. \A i \in DOMAIN ws : DOMAIN ws[i] = QuotaFields /\ ws[i].refs \in Int
  BY DEF MadeFit
<1> DEFINE v == [ws[w] EXCEPT !.refs = ws[w].refs + 1]
<1>2. vs = [ws EXCEPT ![w] = v]
  BY DEF Quota!IncrementRef
<1>3. DOMAIN v = QuotaFields /\ v.refs = ws[w].refs + 1 /\ v.key = ws[w].key /\ v.sync = ws[w].sync
  BY <1>1 DEF QuotaFields
<1>4. v.refs \in Int
  BY <1>1, <1>3
<1> HIDE DEF v
<1>5. /\ MadeFit(vs) /\ Len(vs) = Len(ws) /\ DOMAIN vs = DOMAIN ws
      /\ \A i \in DOMAIN ws : vs[i] = IF i = w THEN v ELSE ws[i]
  BY <1>2, <1>3, <1>4, MadeChanged
<1> QED
  BY <1>1, <1>3, <1>5

LEMMA RefGiven ==
  ASSUME NEW ws, MadeFit(ws), NEW w \in DOMAIN ws, NEW vs, vs = Quota!DecrementRef(ws, w)
  PROVE  /\ MadeFit(vs) /\ Len(vs) = Len(ws) /\ DOMAIN vs = DOMAIN ws
         /\ \A i \in DOMAIN ws : /\ vs[i].key = ws[i].key /\ vs[i].sync = ws[i].sync
                                  /\ vs[i].refs = ws[i].refs - (IF i = w THEN 1 ELSE 0)
<1>1. \A i \in DOMAIN ws : DOMAIN ws[i] = QuotaFields /\ ws[i].refs \in Int
  BY DEF MadeFit
<1> DEFINE v == [ws[w] EXCEPT !.refs = ws[w].refs - 1]
<1>2. vs = [ws EXCEPT ![w] = v]
  BY DEF Quota!DecrementRef
<1>3. DOMAIN v = QuotaFields /\ v.refs = ws[w].refs - 1 /\ v.key = ws[w].key /\ v.sync = ws[w].sync
  BY <1>1 DEF QuotaFields
<1>4. v.refs \in Int
  BY <1>1, <1>3
<1> HIDE DEF v
<1>5. /\ MadeFit(vs) /\ Len(vs) = Len(ws) /\ DOMAIN vs = DOMAIN ws
      /\ \A i \in DOMAIN ws : vs[i] = IF i = w THEN v ELSE ws[i]
  BY <1>2, <1>3, <1>4, MadeChanged
<1> QED
  BY <1>1, <1>3, <1>5

(* The calls that hold a window.                                            *)
Users(cs, w) == Quota!Cardinality({c \in DOMAIN cs : cs[c].w = w})

(* A call lets its window go and takes another, or none.                    *)
Moves(c, r) ==
  DOMAIN caller' = DOMAIN caller /\ \A d \in DOMAIN caller : caller'[d] = IF d = c THEN r ELSE caller[d]

LEMMA UsersMoved ==
  ASSUME CallersFit, NEW c \in DOMAIN caller, NEW r, Moves(c, r), NEW w
  PROVE  /\ Users(caller, w) \in Nat
         /\ Users(caller', w) = Users(caller, w) - (IF caller[c].w = w THEN 1 ELSE 0) + (IF r.w = w THEN 1 ELSE 0)
<1> DEFINE A == {d \in DOMAIN caller : caller[d].w = w}
           B == {d \in DOMAIN caller' : caller'[d].w = w}
<1>1. IsFiniteSet(A) /\ Cardinality(A) \in Nat
  <2>1. A \in SUBSET DOMAIN caller /\ IsFiniteSet(DOMAIN caller)
    BY DEF CallersFit
  <2> HIDE DEF A
  <2> QED
    BY <2>1, FS_Subset, FS_CardinalityType
<1>2. DOMAIN caller' = DOMAIN caller /\ \A d \in DOMAIN caller : caller'[d] = IF d = c THEN r ELSE caller[d]
  BY DEF Moves
<1>3. c \in A <=> caller[c].w = w
  OBVIOUS
<1>4. B = IF r.w = w THEN A \cup {c} ELSE A \ {c}
  BY <1>2
<1> HIDE DEF A, B
<1>5. Cardinality(B) = Cardinality(A) - (IF caller[c].w = w THEN 1 ELSE 0) + (IF r.w = w THEN 1 ELSE 0)
  <2>1. CASE r.w = w
    <3>1. Cardinality(A \cup {c}) = IF c \in A THEN Cardinality(A) ELSE Cardinality(A) + 1
      BY <1>1, FS_AddElement
    <3>2. B = A \cup {c}
      BY <1>4, <2>1
    <3>3. Cardinality(B) = IF caller[c].w = w THEN Cardinality(A) ELSE Cardinality(A) + 1
      BY <1>3, <3>1, <3>2
    <3> QED
      BY <1>1, <2>1, <3>3
  <2>2. CASE r.w # w
    <3>1. Cardinality(A \ {c}) = IF c \in A THEN Cardinality(A) - 1 ELSE Cardinality(A)
      BY <1>1, FS_RemoveElement
    <3>2. B = A \ {c}
      BY <1>4, <2>2
    <3>3. Cardinality(B) = IF caller[c].w = w THEN Cardinality(A) - 1 ELSE Cardinality(A)
      BY <1>3, <3>1, <3>2
    <3> QED
      BY <1>1, <2>2, <3>3
  <2> QED
    BY <2>1, <2>2
<1> QED
  BY <1>1, <1>5, QuotaCardinality DEF A, B, Users

(* A key leaves the recency list, or moves to its end.                      *)
LEMMA RecencyWithout ==
  ASSUME NEW K, NEW s \in Seq(K), Quota!IsInjective(s), NEW k
  PROVE  /\ Quota!Without(s, k) \in Seq(K) /\ Quota!IsInjective(Quota!Without(s, k))
         /\ Quota!ToSet(Quota!Without(s, k)) = Quota!ToSet(s) \ {k}
<1>1. Len(s) \in Nat /\ DOMAIN s = 1..Len(s)
  OBVIOUS
<1>2. CASE \A i \in 1..Len(s) : s[i] # k
  <2>1. Quota!Without(s, k) = s
    BY <1>2 DEF Quota!Without, Quota!RemoveFirst
  <2> QED
    BY <1>1, <1>2, <2>1 DEF Quota!ToSet
<1>3. CASE \E i \in 1..Len(s) : s[i] = k
  <2>1. PICK i \in 1..Len(s) : s[i] = k
    BY <1>3
  <2> DEFINE I == {j \in 1..Len(s) : s[j] = k}
             a == SubSeq(s, 1, i - 1)
             b == SubSeq(s, i + 1, Len(s))
             t == a \o b
  <2>2. I = {i}
    BY <1>1, <2>1 DEF Quota!IsInjective
  <2>3. Quota!Min(I) = i
    BY <2>2 DEF Quota!Min
  <2>4. Quota!Without(s, k) = t
    BY <2>1, <2>2, <2>3 DEF Quota!Without, Quota!RemoveFirst, Quota!SelectInSeq, Quota!RemoveAt
  <2>5. /\ a \in Seq(K) /\ Len(a) = i - 1 /\ \A j \in 1..(i - 1) : a[j] = s[j]
        /\ b \in Seq(K) /\ Len(b) = Len(s) - i /\ \A j \in 1..(Len(s) - i) : b[j] = s[i + j]
    <3>1. /\ a \in Seq(K) /\ Len(a) = (IF 1 <= i - 1 THEN (i - 1) - 1 + 1 ELSE 0)
          /\ \A j \in 1..((i - 1) - 1 + 1) : a[j] = s[1 + j - 1]
      BY <1>1, SubSeqProperties
    <3>2. /\ b \in Seq(K) /\ Len(b) = (IF i + 1 <= Len(s) THEN Len(s) - (i + 1) + 1 ELSE 0)
          /\ \A j \in 1..(Len(s) - (i + 1) + 1) : b[j] = s[(i + 1) + j - 1]
      BY <1>1, SubSeqProperties
    <3> HIDE DEF a, b
    <3>3. i \in Int /\ 1 <= i /\ i <= Len(s) /\ Len(s) \in Int
      BY <1>1
    <3>4. Len(a) = i - 1 /\ Len(b) = Len(s) - i
      BY <3>1, <3>2, <3>3
    <3>5. ASSUME NEW j \in 1..(i - 1) PROVE a[j] = s[j]
      <4>1. 1 + j - 1 = j /\ j \in 1..((i - 1) - 1 + 1)
        BY <3>3
      <4> QED
        BY <3>1, <4>1
    <3>6. ASSUME NEW j \in 1..(Len(s) - i) PROVE b[j] = s[i + j]
      <4>1. (i + 1) + j - 1 = i + j /\ j \in 1..(Len(s) - (i + 1) + 1)
        BY <3>3
      <4> QED
        BY <3>2, <4>1
    <3> QED
      BY <3>1, <3>2, <3>4, <3>5, <3>6
  <2> HIDE DEF a, b
  <2>6. /\ t \in Seq(K) /\ Len(t) = Len(s) - 1
        /\ \A j \in 1..(Len(s) - 1) : t[j] = IF j < i THEN s[j] ELSE s[j + 1]
    <3>1. /\ t \in Seq(K) /\ Len(t) = Len(a) + Len(b)
          /\ \A j \in 1..(Len(a) + Len(b)) : t[j] = IF j <= Len(a) THEN a[j] ELSE b[j - Len(a)]
      BY <2>5, ConcatProperties
    <3> HIDE DEF t
    <3>2. Len(t) = Len(s) - 1
      BY <1>1, <2>5, <3>1
    <3>3. ASSUME NEW j \in 1..(Len(s) - 1) PROVE t[j] = IF j < i THEN s[j] ELSE s[j + 1]
      <4>0. i \in Int /\ 1 <= i /\ i <= Len(s) /\ Len(s) \in Int /\ j \in Int /\ 1 <= j /\ j <= Len(s) - 1
        BY <1>1
      <4>1. CASE j < i
        <5>1. j \in 1..(Len(a) + Len(b)) /\ j <= Len(a) /\ j \in 1..(i - 1)
          BY <2>5, <4>0, <4>1
        <5> QED
          BY <2>5, <3>1, <4>1, <5>1
      <4>2. CASE j >= i
        <5>1. t[j] = b[j - (i - 1)] /\ j - (i - 1) \in 1..(Len(s) - i)
          <6>1. j \in 1..(Len(a) + Len(b)) /\ ~(j <= Len(a)) /\ Len(a) = i - 1 /\ j - (i - 1) \in 1..(Len(s) - i)
            BY <2>5, <4>0, <4>2
          <6> QED
            BY <3>1, <6>1
        <5>2. i + (j - (i - 1)) = j + 1
          BY <1>1
        <5> QED
          BY <1>1, <2>5, <4>2, <5>1, <5>2
      <4> QED
        BY <1>1, <4>1, <4>2
    <3> QED
      BY <3>1, <3>2, <3>3
  <2> HIDE DEF t
  <2>7. DOMAIN t = 1..(Len(s) - 1)
    BY <2>6
  <2>8. Quota!IsInjective(t)
    BY <1>1, <2>6, <2>7 DEF Quota!IsInjective
  <2>9. Quota!ToSet(t) = Quota!ToSet(s) \ {k}
    <3>1. ASSUME NEW j \in DOMAIN t PROVE t[j] \in Quota!ToSet(s) \ {k}
      <4>1. PICK m \in 1..Len(s) : m # i /\ t[j] = s[m]
        <5>1. CASE j < i
          BY <1>1, <2>6, <2>7, <5>1
        <5>2. CASE j >= i
          <6>1. j + 1 \in 1..Len(s) /\ j + 1 # i /\ t[j] = s[j + 1]
            BY <1>1, <2>6, <2>7, <5>2
          <6> QED
            BY <6>1
        <5> QED
          BY <2>7, <5>1, <5>2
      <4>2. s[m] # k
        BY <1>1, <2>1, <4>1 DEF Quota!IsInjective
      <4> QED
        BY <1>1, <4>1, <4>2 DEF Quota!ToSet
    <3>2. ASSUME NEW j \in DOMAIN s, s[j] # k PROVE s[j] \in Quota!ToSet(t)
      <4>1. CASE j < i
        BY <1>1, <2>6, <2>7, <4>1 DEF Quota!ToSet
      <4>2. CASE j > i
        <5>1. j - 1 \in DOMAIN t /\ t[j - 1] = s[j]
          BY <1>1, <2>6, <2>7, <4>2
        <5> QED
          BY <5>1 DEF Quota!ToSet
      <4> QED
        BY <1>1, <2>1, <3>2, <4>1, <4>2
    <3> QED
      BY <3>1, <3>2 DEF Quota!ToSet
  <2> QED
    BY <2>4, <2>6, <2>8, <2>9
<1> QED
  BY <1>2, <1>3

LEMMA RecencyAdded ==
  ASSUME NEW K, NEW s \in Seq(K), Quota!IsInjective(s), NEW k \in K, k \notin Quota!ToSet(s)
  PROVE  /\ Append(s, k) \in Seq(K) /\ Quota!IsInjective(Append(s, k))
         /\ Quota!ToSet(Append(s, k)) = Quota!ToSet(s) \cup {k}
<1> DEFINE t == Append(s, k)
<1>1. /\ t \in Seq(K) /\ Len(t) = Len(s) + 1 /\ t[Len(s) + 1] = k
      /\ \A j \in 1..Len(s) : t[j] = s[j]
  OBVIOUS
<1> HIDE DEF t
<1>2. Len(s) \in Nat /\ DOMAIN s = 1..Len(s) /\ DOMAIN t = 1..(Len(s) + 1)
  BY <1>1
<1>3. Quota!ToSet(t) = Quota!ToSet(s) \cup {k}
  <2>1. ASSUME NEW j \in DOMAIN t PROVE t[j] \in Quota!ToSet(s) \cup {k}
    BY <1>1, <1>2 DEF Quota!ToSet
  <2>2. ASSUME NEW j \in DOMAIN s PROVE s[j] \in Quota!ToSet(t)
    BY <1>1, <1>2 DEF Quota!ToSet
  <2>3. k \in Quota!ToSet(t)
    BY <1>1, <1>2 DEF Quota!ToSet
  <2> QED
    BY <2>1, <2>2, <2>3 DEF Quota!ToSet
<1>4. Quota!IsInjective(t)
  <2>1. \A j \in 1..Len(s) : s[j] # k
    BY <1>2 DEF Quota!ToSet
  <2> QED
    BY <1>1, <1>2, <2>1 DEF Quota!IsInjective
<1> QED
  BY <1>1, <1>3, <1>4 DEF t

LEMMA RecencyMoved ==
  ASSUME NEW K, recent \in Seq(K), Quota!IsInjective(recent), NEW k
  PROVE  /\ Quota!MoveToEnd(k) \in Seq(K) /\ Quota!IsInjective(Quota!MoveToEnd(k))
         /\ Quota!ToSet(Quota!MoveToEnd(k)) = Quota!ToSet(recent)
<1>1. CASE k \in Quota!ToSet(recent)
  <2> DEFINE t == Quota!Without(recent, k)
  <2>1. t \in Seq(K) /\ Quota!IsInjective(t) /\ Quota!ToSet(t) = Quota!ToSet(recent) \ {k}
    BY RecencyWithout
  <2>2. k \in K
    BY <1>1 DEF Quota!ToSet
  <2> HIDE DEF t
  <2>3. /\ Append(t, k) \in Seq(K) /\ Quota!IsInjective(Append(t, k))
        /\ Quota!ToSet(Append(t, k)) = Quota!ToSet(t) \cup {k}
    BY <2>1, <2>2, RecencyAdded
  <2>4. Quota!MoveToEnd(k) = Append(t, k)
    BY <1>1 DEF Quota!MoveToEnd, t
  <2> QED
    BY <1>1, <2>1, <2>3, <2>4
<1>2. CASE k \notin Quota!ToSet(recent)
  BY <1>2 DEF Quota!MoveToEnd
<1> QED
  BY <1>1, <1>2

(* The references of the cache, and of the reactor and the collector.       *)
Kept(ch, old, w) == (IF Cached(ch, w) THEN 1 ELSE 0) + (IF w \in old THEN 1 ELSE 0)
Held(col, re, w) == (IF w \in col THEN 1 ELSE 0) + (IF w \in re.todo THEN 1 ELSE 0) + (IF w = re.w THEN 1 ELSE 0)
Books(ch, old, col, re, w) == Kept(ch, old, w) + Held(col, re, w)

LEMMA KeptHeldNat == \A ch, old, col, re, w : Kept(ch, old, w) \in Nat /\ Held(col, re, w) \in Nat
  BY DEF Kept, Held

LEMMA BooksNat == \A ch, old, col, re, w : Books(ch, old, col, re, w) \in Nat
  BY KeptHeldNat DEF Books

LEMMA UsersNat == CallersFit => \A w : Users(caller, w) \in Nat
<1> SUFFICES ASSUME CallersFit, NEW w PROVE Users(caller, w) \in Nat
  OBVIOUS
<1> DEFINE A == {d \in DOMAIN caller : caller[d].w = w}
<1>1. A \in SUBSET DOMAIN caller /\ IsFiniteSet(DOMAIN caller)
  BY DEF CallersFit
<1> HIDE DEF A
<1>2. Cardinality(A) \in Nat
  BY <1>1, FS_Subset, FS_CardinalityType
<1> QED
  BY <1>2, QuotaCardinality DEF A, Users

RefsAdd == \A w \in DOMAIN made : made[w].refs = Books(cache, garbage, collector, reactor, w) + (IF made[w].sync THEN 1 ELSE 0) + Users(caller, w)

LEMMA RefsMean == CallersFit => (Quota!WindowRefs <=> RefsAdd)
<1> SUFFICES ASSUME CallersFit PROVE Quota!WindowRefs <=> RefsAdd
  OBVIOUS
<1> DEFINE Sum(w) == Quota!One(\E key \in Quota!Keys : cache[key] = w) + Quota!One(w \in garbage)
               + Quota!One(w \in collector) + Quota!One(made[w].sync)
               + Quota!One(w \in reactor.todo) + Quota!One(w = reactor.w)
               + Quota!Cardinality({c \in DOMAIN caller : caller[c].w = w})
           Total(w) == Books(cache, garbage, collector, reactor, w) + (IF made[w].sync THEN 1 ELSE 0) + Users(caller, w)
<1>1. ASSUME NEW w \in DOMAIN made
      PROVE  Sum(w) = Books(cache, garbage, collector, reactor, w) + (IF made[w].sync THEN 1 ELSE 0) + Users(caller, w)
  <2> DEFINE a == IF \E key \in Quota!Keys : cache[key] = w THEN 1 ELSE 0
             b == IF w \in garbage THEN 1 ELSE 0
             c == IF w \in collector THEN 1 ELSE 0
             d == IF made[w].sync THEN 1 ELSE 0
             e == IF w \in reactor.todo THEN 1 ELSE 0
             f == IF w = reactor.w THEN 1 ELSE 0
             u == Quota!Cardinality({x \in DOMAIN caller : caller[x].w = w})
  <2>1. a \in {0, 1} /\ b \in {0, 1} /\ c \in {0, 1} /\ d \in {0, 1} /\ e \in {0, 1} /\ f \in {0, 1}
    OBVIOUS
  <2>2. u \in Nat /\ Users(caller, w) = u
    BY UsersNat DEF Users
  <2>3. Books(cache, garbage, collector, reactor, w) = a + b + c + e + f
    BY DEF Books, Kept, Held, Cached
  <2>4. /\ Quota!One(\E key \in Quota!Keys : cache[key] = w) = a /\ Quota!One(w \in garbage) = b
        /\ Quota!One(w \in collector) = c /\ Quota!One(made[w].sync) = d
        /\ Quota!One(w \in reactor.todo) = e /\ Quota!One(w = reactor.w) = f
    BY DEF Quota!One
  <2> HIDE DEF a, b, c, d, e, f
  <2>5. a + b + c + d + e + f + u = (a + b + c + e + f) + d + u
    <3> HIDE DEF u
    <3> QED
      BY <2>1, <2>2
  <2>6. Quota!One(\E key \in Quota!Keys : cache[key] = w) + Quota!One(w \in garbage)
               + Quota!One(w \in collector) + Quota!One(made[w].sync)
               + Quota!One(w \in reactor.todo) + Quota!One(w = reactor.w)
               + Quota!Cardinality({x \in DOMAIN caller : caller[x].w = w}) = a + b + c + d + e + f + u
    BY <2>4, Zenon
  <2> QED
    BY <2>2, <2>3, <2>5, <2>6, Zenon DEF d
<1>2. \A w \in DOMAIN made : Sum(w) = Total(w)
  BY <1>1, Zenon
<1>3. Quota!WindowRefs <=> \A w \in DOMAIN made : made[w].refs = Sum(w)
  BY Zenon DEF Quota!WindowRefs
<1>4. RefsAdd <=> \A w \in DOMAIN made : made[w].refs = Total(w)
  BY Zenon DEF RefsAdd
<1> HIDE DEF Sum, Total
<1> QED
  BY <1>2, <1>3, <1>4

LEMMA KeysKept == UNCHANGED setup => Quota!Keys' = Quota!Keys
  BY DEF Quota!Keys, Quota!GetWindowKey

(* What a step leaves in place.                                             *)
LEMMA QuotaKept ==
  ASSUME QuotaInv, UNCHANGED setup, version' \in DOMAIN setup.rules, MadeFit(made'),
         CacheFits', ReactorFits', CallersFit', RecencyFits',
         \A w \in DOMAIN made' : made'[w].refs = Books(cache', garbage', collector', reactor', w) + (IF made'[w].sync THEN 1 ELSE 0) + Users(caller', w)
  PROVE  QuotaInv'
<1>1. MadeFit(made)'
  BY KeysKept DEF MadeFit
<1>2. Quota!WindowRefs'
  <2>1. (CallersFit => (Quota!WindowRefs <=> RefsAdd))'
    BY RefsMean, PTL
  <2>2. RefsAdd'
    BY KeysKept DEF RefsAdd, Books, Kept, Held, Cached, Users
  <2> QED
    BY <2>1, <2>2
<1> QED
  BY <1>1, <1>2 DEF QuotaInv

LEMMA CacheKept ==
  ASSUME CacheFits, UNCHANGED <<setup, cache, garbage>>, DOMAIN made' = DOMAIN made,
         \A w \in DOMAIN made : made'[w].key = made[w].key
  PROVE  CacheFits' /\ \A w : Cached(cache', w) <=> Cached(cache, w)
<1>1. CachedKeys' = CachedKeys /\ Quota!Keys' = Quota!Keys
  BY KeysKept DEF CachedKeys
<1>2. \A w : Cached(cache', w) <=> Cached(cache, w)
  BY <1>1 DEF Cached
<1> QED
  BY <1>1, <1>2 DEF CacheFits, Cached

LEMMA ReactorKept ==
  ASSUME ReactorFits, UNCHANGED <<collector, reactor>>, DOMAIN made \subseteq DOMAIN made'
  PROVE  ReactorFits'
  BY DEF ReactorFits

LEMMA CallersKept ==
  ASSUME CallersFit, UNCHANGED <<setup, caller, lock>>, DOMAIN made' = DOMAIN made,
         \A key : cache[key] = NULL => cache'[key] = NULL
  PROVE  CallersFit'
<1>1. \A r : CallFits(r, DOMAIN made) => CallFits(r, DOMAIN made)'
  BY KeysKept DEF CallFits
<1> QED
  BY <1>1 DEF CallersFit, Locked

LEMMA CallerMoved ==
  ASSUME CallersFit, UNCHANGED setup, NEW c \in DOMAIN caller, NEW r, Moves(c, r),
         DOMAIN made \subseteq DOMAIN made', CallFits(r, DOMAIN made'), Locked(r) <=> lock' = c,
         \A d \in DOMAIN caller \ {c} : lock' = d <=> lock = d,
         r.pc = "create" => cache'[r.key] = NULL,
         \A d \in DOMAIN caller \ {c} : caller[d].pc = "create" => cache'[caller[d].key] = NULL
  PROVE  CallersFit'
<1>1. DOMAIN caller' = DOMAIN caller /\ \A d \in DOMAIN caller : caller'[d] = IF d = c THEN r ELSE caller[d]
  BY DEF Moves
<1>2. ASSUME NEW d \in DOMAIN caller
      PROVE  /\ CallFits(caller[d], DOMAIN made)' /\ (Locked(caller'[d]) <=> lock' = d)
             /\ caller'[d].pc = "create" => cache'[caller'[d].key] = NULL
  <2>1. CASE d = c
    BY <1>1, <2>1, KeysKept DEF CallFits
  <2>2. CASE d # c
    <3>1. CallFits(caller[d], DOMAIN made) /\ (Locked(caller[d]) <=> lock = d)
      BY DEF CallersFit
    <3> QED
      BY <1>1, <2>2, <3>1, KeysKept DEF CallFits
  <2> QED
    BY <2>1, <2>2
<1> QED
  BY <1>1, <1>2 DEF CallersFit, Locked

LEMMA RecencyKept ==
  ASSUME RecencyFits, UNCHANGED <<setup, cache, size>>, recent' = recent \/ \E k : recent' = Quota!MoveToEnd(k),
         DOMAIN caller' = DOMAIN caller,
         \A c \in DOMAIN caller :
           caller'[c].pc \in {"evict", "evicting"} \/ caller[c].pc \in {"evict", "evicting"} =>
             caller'[c].pc = caller[c].pc /\ caller'[c].key = caller[c].key
  PROVE  RecencyFits'
<1>1. CachedKeys' = CachedKeys /\ Quota!Keys' = Quota!Keys /\ (Quota!Lru' <=> Quota!Lru)
  BY KeysKept DEF CachedKeys, Quota!Lru
<1>2. Evicted' = Evicted
  <2>1. ASSUME NEW c \in DOMAIN caller, caller'[c].pc = "evicting" PROVE caller[c].pc = "evicting" /\ caller'[c].key = caller[c].key
    BY <2>1
  <2>2. ASSUME NEW c \in DOMAIN caller, caller[c].pc = "evicting" PROVE caller'[c].pc = "evicting" /\ caller'[c].key = caller[c].key
    BY <2>2
  <2> QED
    BY <2>1, <2>2 DEF Evicted
<1> SUFFICES ASSUME Quota!Lru PROVE RecencyFits'
  BY <1>1 DEF RecencyFits
<1>3. recent' \in Seq(Quota!Keys) /\ Quota!IsInjective(recent') /\ Quota!ToSet(recent') = Quota!ToSet(recent)
  BY RecencyMoved DEF RecencyFits
<1>4. Quota!IsInjective(recent)' /\ Quota!ToSet(recent)' = Quota!ToSet(recent)
  BY <1>3 DEF Quota!IsInjective, Quota!ToSet
<1>5. \/ size' <= setup'.lru
      \/ size' = setup'.lru + 1 /\ \E c \in DOMAIN caller' : caller'[c].pc \in {"evict", "evicting"}
  BY DEF RecencyFits
<1>6. \A c \in DOMAIN caller' : /\ caller'[c].pc = "evict" /\ size' > setup'.lru => CachedKeys' # {}
                                /\ caller'[c].pc = "evicting" => size' > setup'.lru
  BY <1>1 DEF RecencyFits
<1> QED
  BY <1>1, <1>2, <1>3, <1>4, <1>5, <1>6 DEF RecencyFits

(* A rule that matches is one of the rules: there is a first one.           *)
LEMMA LeastNatural ==
  ASSUME NEW S, S \subseteq Nat, S # {}
  PROVE  \E x \in S : \A y \in S : x <= y
<1> DEFINE R == OpToRel(<, Nat)
<1>1. IsWellFoundedOn(R, Nat)
  BY NatLessThanWellFounded
<1>2. PICK x \in S : \A y \in S : ~(<<y, x>> \in R)
  <2> HIDE DEF R
  <2> QED
    BY <1>1, WFMin
<1>3. \A y \in Nat : y < x => <<y, x>> \in R
  BY DEF OpToRel
<1>4. \A y \in S : x <= y
  <2> SUFFICES ASSUME NEW y \in S PROVE x <= y
    OBVIOUS
  <2>1. x \in Nat /\ y \in Nat
    OBVIOUS
  <2>2. ~(y < x)
    <3> HIDE DEF R
    <3> QED
      BY <1>2, <1>3, <2>1
  <2> QED
    BY <2>1, <2>2
<1> QED
  BY <1>4

LEMMA MatchedKey ==
  ASSUME QuotasFit, setup \in QuotaSetups, version \in DOMAIN setup.rules, NEW request \in setup.requests,
         Quota!MatchRule(version, request) # NULL
  PROVE  Quota!GetWindowKey(Quota!MatchRule(version, request), request) \in Quota!Keys
<1> DEFINE M == {rule \in Quota!Rules(version) : Quota!IsMatch(rule, request)}
<1>1. /\ M \subseteq setup.rules[version] /\ M # {}
      /\ Quota!MatchRule(version, request) = CHOOSE rule \in M : \A other \in M : Quota!Before(rule, other)
  BY DEF Quota!MatchRule, Quota!Rules
<1> HIDE DEF M
<1>2. \A rule \in M : rule.priority \in Nat /\ setup.order[rule.id] \in Nat
  BY <1>1 DEF QuotasFit
<1>3. PICK p \in {rule.priority : rule \in M} : \A x \in {rule.priority : rule \in M} : p <= x
  <2> DEFINE P == {rule.priority : rule \in M}
  <2>1. P \subseteq Nat /\ P # {}
    BY <1>1, <1>2
  <2> HIDE DEF P
  <2>2. \E x \in P : \A y \in P : x <= y
    BY <2>1, LeastNatural
  <2> QED
    BY <2>2 DEF P
<1> DEFINE F == {rule \in M : rule.priority = p}
           O == {setup.order[rule.id] : rule \in F}
<1>4. O \subseteq Nat /\ O # {}
  BY <1>2, <1>3
<1>5. PICK o \in O : \A x \in O : o <= x
  <2> HIDE DEF O
  <2> QED
    BY <1>4, LeastNatural
<1>6. PICK first \in F : setup.order[first.id] = o
  BY <1>5
<1>7. first \in M /\ \A other \in M : Quota!Before(first, other)
  BY <1>2, <1>3, <1>5, <1>6 DEF Quota!Before
<1>8. Quota!MatchRule(version, request) \in M
  BY <1>1, <1>7
<1>9. Quota!MatchRule(version, request) \in UNION {setup.rules[v] : v \in DOMAIN setup.rules}
  BY <1>1, <1>8
<1> QED
  BY <1>9 DEF Quota!Keys, Quota!GetWindowKey

(* A call moves, and with it the references to the windows it inside and holds. *)
RefsMove(c, r) ==
  \A w \in DOMAIN made :
    /\ made'[w].key = made[w].key /\ made'[w].sync = made[w].sync
    /\ made'[w].refs = made[w].refs - (IF caller[c].w = w THEN 1 ELSE 0) + (IF r.w = w THEN 1 ELSE 0)

LEMMA CallStep ==
  ASSUME QuotaInv, UNCHANGED <<setup, version, cache, garbage, collector, reactor>>,
         NEW c \in DOMAIN caller, NEW r, Moves(c, r), MadeFit(made'), DOMAIN made' = DOMAIN made, RefsMove(c, r),
         CallersFit', RecencyFits'
  PROVE  QuotaInv'
<1>1. CacheFits' /\ \A w : Cached(cache', w) <=> Cached(cache, w)
  BY CacheKept DEF QuotaInv, RefsMove
<1>2. ReactorFits'
  BY ReactorKept DEF QuotaInv
<1>3. \A w : Books(cache', garbage', collector', reactor', w) = Books(cache, garbage, collector, reactor, w)
  BY <1>1 DEF Books, Kept
<1>4. ASSUME NEW w
      PROVE  /\ Users(caller, w) \in Nat
             /\ Users(caller', w) = Users(caller, w) - (IF caller[c].w = w THEN 1 ELSE 0) + (IF r.w = w THEN 1 ELSE 0)
  <2>1. CallersFit
    BY DEF QuotaInv
  <2> QED
    BY <2>1, UsersMoved
<1>5. RefsAdd
  BY RefsMean DEF QuotaInv
<1>6. ASSUME NEW w \in DOMAIN made
      PROVE  made'[w].refs = Books(cache', garbage', collector', reactor', w) + (IF made'[w].sync THEN 1 ELSE 0) + Users(caller', w)
  <2>1. made[w].refs = Books(cache, garbage, collector, reactor, w) + (IF made[w].sync THEN 1 ELSE 0) + Users(caller, w)
    BY <1>5 DEF RefsAdd
  <2>2. Books(cache, garbage, collector, reactor, w) \in Nat /\ Users(caller, w) \in Nat
    BY <1>4, BooksNat
  <2> DEFINE out == IF caller[c].w = w THEN 1 ELSE 0
             in == IF r.w = w THEN 1 ELSE 0
             inside == IF made[w].sync THEN 1 ELSE 0
             old == Books(cache, garbage, collector, reactor, w)
             new == Books(cache', garbage', collector', reactor', w)
             u == Users(caller, w)
             v == Users(caller', w)
  <2>3. out \in {0, 1} /\ in \in {0, 1} /\ inside \in {0, 1}
    OBVIOUS
  <2>4. new = old /\ v = u - out + in /\ made[w].refs = old + inside + u
    BY <1>3, <1>4, <2>1
  <2>5. made'[w].refs = made[w].refs - out + in /\ (IF made'[w].sync THEN 1 ELSE 0) = inside
    BY DEF RefsMove
  <2> HIDE DEF out, in, inside, old, new, u, v
  <2>6. made'[w].refs = new + inside + v
    BY <2>2, <2>3, <2>4, <2>5 DEF old, u
  <2> QED
    BY <2>5, <2>6 DEF new, v
<1> QED
  BY <1>1, <1>2, <1>6, QuotaKept DEF QuotaInv

LEMMA CallOnly ==
  ASSUME QuotaInv, UNCHANGED <<setup, version, made, cache, garbage, collector, reactor>>,
         NEW c \in DOMAIN caller, NEW r, Moves(c, r), r.w = caller[c].w,
         CallersFit', RecencyFits'
  PROVE  QuotaInv'
<1>1. MadeFit(made') /\ \A w \in DOMAIN made : made[w].refs \in Int
  BY DEF QuotaInv, MadeFit
<1>2. RefsMove(c, r)
  BY <1>1 DEF RefsMove
<1> QED
  BY <1>1, <1>2, CallStep

LEMMA QuotaQuiet ==
  ASSUME QuotaInv, UNCHANGED <<setup, made, cache, garbage, collector, reactor, caller, lock, size>>,
         version' \in DOMAIN setup.rules, recent' = recent \/ \E k : recent' = Quota!MoveToEnd(k)
  PROVE  QuotaInv'
<1>1. CacheFits' /\ \A w : Cached(cache', w) <=> Cached(cache, w)
  BY CacheKept DEF QuotaInv
<1>2. ReactorFits' /\ CallersFit' /\ RecencyFits'
  BY ReactorKept, CallersKept, RecencyKept DEF QuotaInv
<1>3. \A w : Books(cache', garbage', collector', reactor', w) = Books(cache, garbage, collector, reactor, w) /\ Users(caller', w) = Users(caller, w)
  BY <1>1 DEF Books, Kept, Users
<1>4. RefsAdd
  BY RefsMean DEF QuotaInv
<1>5. \A w \in DOMAIN made' : made'[w].refs = Books(cache', garbage', collector', reactor', w) + (IF made'[w].sync THEN 1 ELSE 0) + Users(caller', w)
  BY <1>3, <1>4 DEF RefsAdd
<1> QED
  BY <1>1, <1>2, <1>5, QuotaKept DEF QuotaInv

(* The rule and the key of a request.                                       *)
LEMMA QuotaPrepared ==
  ASSUME QuotasFit, QuotaInv, NEW c \in DOMAIN caller, NEW request \in setup.requests, Quota!PrepareQuotaInfo(c, request)
  PROVE  QuotaInv'
<1> DEFINE rule == Quota!MatchRule(version, request)
           r == [pc |-> "lookup", rule |-> rule, key |-> Quota!GetWindowKey(rule, request), w |-> NULL]
<1>1. /\ UNCHANGED <<setup, version, made, cache, recent, size, garbage, lock, reactor, collector>>
      /\ caller[c].pc = "idle" /\ rule # NULL /\ Moves(c, r)
  BY DEF Moves, Quota!PrepareQuotaInfo, Quota!At, Quota!environment, Quota!map
<1>2. Quota!GetWindowKey(rule, request) \in Quota!Keys
  BY <1>1, MatchedKey DEF QuotaInv
<1>3. CallersFit /\ CallFits(caller[c], DOMAIN made) /\ (Locked(caller[c]) <=> lock = c)
  BY DEF QuotaInv, CallersFit
<1>4. CallFits(r, DOMAIN made') /\ ~Locked(r) /\ r.w = caller[c].w /\ r.pc = "lookup"
  BY <1>1, <1>2, <1>3 DEF CallFits, Locked
<1> HIDE DEF r
<1>5. CallersFit'
  BY <1>1, <1>3, <1>4, CallerMoved DEF CallersFit, Locked
<1>6. RecencyFits'
  BY <1>1, <1>4, RecencyKept DEF QuotaInv, Moves
<1> QED
  BY <1>1, <1>4, <1>5, <1>6, CallOnly

(* The window is not there, or is not the one of the rule.                  *)
LEMMA QuotaMissed ==
  ASSUME QuotaInv, NEW c \in DOMAIN caller, Quota!Lookup(c), ~Quota!Get(c)
  PROVE  QuotaInv'
<1> DEFINE r == [caller[c] EXCEPT !.pc = "lock"]
<1>1. /\ UNCHANGED <<setup, version, made, cache, size, garbage, lock, reactor, collector>>
      /\ caller[c].pc = "lookup" /\ Moves(c, r) /\ recent' = Quota!MoveToEnd(caller[c].key)
  BY DEF Moves, Quota!Lookup, Quota!At, Quota!Goto, Quota!environment
<1>2. CallersFit /\ CallFits(caller[c], DOMAIN made) /\ (Locked(caller[c]) <=> lock = c)
  BY DEF QuotaInv, CallersFit
<1>3. CallFits(r, DOMAIN made') /\ ~Locked(r) /\ r.w = caller[c].w /\ r.pc = "lock"
  BY <1>1, <1>2 DEF CallFits, Locked
<1> HIDE DEF r
<1>4. CallersFit'
  BY <1>1, <1>2, <1>3, CallerMoved DEF CallersFit, Locked
<1>5. RecencyFits'
  BY <1>1, <1>3, RecencyKept DEF QuotaInv, Moves
<1> QED
  BY <1>1, <1>3, <1>4, <1>5, CallOnly

(* The window is there: the call takes a reference.                         *)
LEMMA QuotaFound ==
  ASSUME QuotasFit, QuotaInv, NEW c \in DOMAIN caller, Quota!Get(c), caller[c].pc \in {"lookup", "lock"},
         UNCHANGED <<setup, version, cache, size, garbage, lock, reactor, collector>>
  PROVE  QuotaInv'
<1> DEFINE v == cache[caller[c].key]
           r == [caller[c] EXCEPT !.pc = "use", !.w = v]
<1>1. /\ v # NULL /\ made' = Quota!IncrementRef(made, v) /\ recent' = Quota!MoveToEnd(caller[c].key)
      /\ Moves(c, r)
  BY DEF Moves, Quota!Get, Quota!Found
<1>2. CallersFit /\ CallFits(caller[c], DOMAIN made) /\ (Locked(caller[c]) <=> lock = c)
  BY DEF QuotaInv, CallersFit
<1>3. v \in DOMAIN made /\ MadeFit(made)
  BY <1>1, <1>2 DEF QuotaInv, CacheFits, CachedKeys, CallFits
<1>4. caller[c].w = NULL /\ NULL \notin DOMAIN made
  BY <1>2, <1>3, NullNoWindow DEF CallFits
<1>5. /\ MadeFit(made') /\ DOMAIN made' = DOMAIN made
      /\ \A w \in DOMAIN made : /\ made'[w].key = made[w].key /\ made'[w].sync = made[w].sync
                                /\ made'[w].refs = made[w].refs + (IF w = v THEN 1 ELSE 0)
  BY <1>1, <1>3, RefTaken
<1>6. CallFits(r, DOMAIN made') /\ ~Locked(r) /\ r.w = v /\ r.pc = "use"
  BY <1>2, <1>3, <1>5 DEF CallFits, Locked
<1> HIDE DEF r, v
<1>7. CallersFit'
  BY <1>1, <1>2, <1>5, <1>6, CallerMoved DEF CallersFit, Locked
<1>8. RecencyFits'
  BY <1>1, <1>6, RecencyKept DEF QuotaInv, Moves
<1>9. RefsMove(c, r)
  BY <1>3, <1>4, <1>5, <1>6 DEF MadeFit, RefsMove
<1> QED
  BY <1>1, <1>5, <1>7, <1>8, <1>9, CallStep

(* The end of a call gives its window back, used or not.                    *)
LEMMA QuotaEnded ==
  ASSUME QuotasFit, QuotaInv, NEW c \in DOMAIN caller, caller[c].pc = "use", caller' = [caller EXCEPT ![c] = Quota!Idle],
         NEW ws, MadeFit(ws), DOMAIN ws = DOMAIN made,
         \A w \in DOMAIN made : ws[w].key = made[w].key /\ ws[w].sync = made[w].sync /\ ws[w].refs = made[w].refs,
         made' = Quota!DecrementRef(ws, caller[c].w),
         UNCHANGED <<setup, version, cache, recent, size, garbage, lock, reactor, collector>>
  PROVE  QuotaInv'
<1> DEFINE r == Quota!Idle
<1>1. CallersFit /\ CallFits(caller[c], DOMAIN made) /\ (Locked(caller[c]) <=> lock = c) /\ MadeFit(made)
  BY DEF QuotaInv, CallersFit
<1>2. caller[c].w \in DOMAIN made /\ NULL \notin DOMAIN made
  BY <1>1, NullNoWindow DEF CallFits
<1>3. /\ MadeFit(made') /\ DOMAIN made' = DOMAIN made
      /\ \A w \in DOMAIN made : /\ made'[w].key = ws[w].key /\ made'[w].sync = ws[w].sync
                                /\ made'[w].refs = ws[w].refs - (IF w = caller[c].w THEN 1 ELSE 0)
  BY <1>2, RefGiven
<1>4. CallFits(r, DOMAIN made') /\ ~Locked(r) /\ r.w = NULL /\ r.pc = "idle"
  BY DEF CallFits, Locked, Quota!Idle
<1>5. Moves(c, r)
  BY DEF Moves
<1> HIDE DEF r
<1>6. CallersFit'
  BY <1>1, <1>3, <1>4, <1>5, CallerMoved DEF CallersFit, Locked
<1>7. RecencyFits'
  BY <1>4, <1>5, RecencyKept DEF QuotaInv, Moves
<1>8. RefsMove(c, r)
  BY <1>1, <1>2, <1>3, <1>4 DEF MadeFit, RefsMove
<1> QED
  BY <1>3, <1>5, <1>6, <1>7, <1>8, CallStep

LEMMA QuotaGiven ==
  ASSUME QuotasFit, QuotaInv, NEW c \in DOMAIN caller, Quota!InitWindow(c) \/ Quota!GetQuotaResponse(c)
  PROVE  QuotaInv'
<1>1. /\ UNCHANGED <<setup, version, cache, recent, size, garbage, lock, reactor, collector>>
      /\ caller[c].pc = "use" /\ caller' = [caller EXCEPT ![c] = Quota!Idle]
  BY DEF Quota!InitWindow, Quota!GetQuotaResponse, Quota!AllocateQuota, Quota!At, Quota!environment, Quota!map
<1>2. MadeFit(made) /\ caller[c].w \in DOMAIN made
  BY <1>1 DEF QuotaInv, CallersFit, CallFits
<1>3. CASE made' = Quota!DecrementRef(made, caller[c].w)
  BY <1>1, <1>2, <1>3, QuotaEnded
<1>4. CASE Quota!AllocateQuota(c)
  <2> DEFINE v == caller[c].w
             g == Quota!TrafficShaping(v).granted
  <2>1. PICK limited : made' = Quota!DecrementRef([made EXCEPT ![v].used = ticks, ![v].granted = g, ![v].limited = limited], v)
    BY <1>4 DEF Quota!AllocateQuota
  <2> DEFINE x == [made[v] EXCEPT !.used = ticks, !.granted = g, !.limited = limited]
             ws == [made EXCEPT ![v] = x]
  <2>2. made' = Quota!DecrementRef(ws, v)
    BY <1>2, <2>1
  <2> HIDE DEF g
  <2>3. DOMAIN x = QuotaFields /\ x.refs = made[v].refs /\ x.key = made[v].key /\ x.sync = made[v].sync /\ x.refs \in Int
    BY <1>2 DEF MadeFit, QuotaFields
  <2> HIDE DEF x
  <2>4. /\ MadeFit(ws) /\ DOMAIN ws = DOMAIN made
        /\ \A w \in DOMAIN made : ws[w] = IF w = v THEN x ELSE made[w]
    BY <1>2, <2>3, MadeChanged
  <2> HIDE DEF ws
  <2>5. \A w \in DOMAIN made : ws[w].key = made[w].key /\ ws[w].sync = made[w].sync /\ ws[w].refs = made[w].refs
    BY <2>3, <2>4
  <2> QED
    BY <1>1, <2>2, <2>4, <2>5, QuotaEnded
<1> QED
  BY <1>3, <1>4 DEF Quota!InitWindow, Quota!GetQuotaResponse

(* A step that changes what is referred to by as much as the counts.        *)
RefsFollow ==
  \A w \in DOMAIN made :
    /\ made'[w].key = made[w].key /\ made'[w].sync = made[w].sync
    /\ made'[w].refs = made[w].refs + (Books(cache', garbage', collector', reactor', w) - Books(cache, garbage, collector, reactor, w))

LEMMA HoldersStep ==
  ASSUME QuotaInv, UNCHANGED <<setup, version, cache, recent, size, lock, caller>>, garbage' \subseteq garbage,
         MadeFit(made'), DOMAIN made' = DOMAIN made, RefsFollow, ReactorFits'
  PROVE  QuotaInv'
<1>1. CacheFits'
  <2>1. CachedKeys' = CachedKeys /\ Quota!Keys' = Quota!Keys
    BY KeysKept DEF CachedKeys
  <2>2. \A w : Cached(cache, w)' <=> Cached(cache, w)
    BY <2>1 DEF Cached
  <2> QED
    BY <2>1, <2>2 DEF QuotaInv, CacheFits, RefsFollow
<1>2. CallersFit' /\ RecencyFits'
  BY CallersKept, RecencyKept DEF QuotaInv
<1>3. RefsAdd /\ \A w : Users(caller, w) \in Nat /\ Users(caller', w) = Users(caller, w)
  BY RefsMean, UsersNat DEF QuotaInv, Users
<1>4. ASSUME NEW w \in DOMAIN made
      PROVE  made'[w].refs = Books(cache', garbage', collector', reactor', w) + (IF made'[w].sync THEN 1 ELSE 0) + Users(caller', w)
  <2> DEFINE old == Books(cache, garbage, collector, reactor, w)
             new == Books(cache', garbage', collector', reactor', w)
             s == IF made[w].sync THEN 1 ELSE 0
             u == Users(caller, w)
  <2>1. made[w].refs = old + s + u /\ Users(caller', w) = u /\ s \in {0, 1}
    BY <1>3 DEF RefsAdd
  <2>2. made'[w].refs = made[w].refs + (new - old) /\ (IF made'[w].sync THEN 1 ELSE 0) = s
    BY DEF RefsFollow
  <2>3. old \in Nat /\ new \in Nat /\ u \in Nat
    BY <1>3, BooksNat
  <2> HIDE DEF old, new, s, u
  <2>4. made'[w].refs = new + s + u
    BY <2>1, <2>2, <2>3
  <2> QED
    BY <2>1, <2>2, <2>4 DEF new
<1> QED
  BY <1>1, <1>2, <1>4, QuotaKept DEF QuotaInv

LEMMA RefsTaken ==
  ASSUME MadeFit(made), NEW S, NEW vs, vs = Quota!Referenced(S)
  PROVE  /\ MadeFit(vs) /\ DOMAIN vs = DOMAIN made
         /\ \A i \in DOMAIN made : /\ vs[i].key = made[i].key /\ vs[i].sync = made[i].sync
                                   /\ vs[i].refs = made[i].refs + (IF i \in S THEN 1 ELSE 0)
<1>1. \A i \in DOMAIN made : DOMAIN made[i] = QuotaFields /\ made[i].refs \in Int
  BY DEF MadeFit
<1>2. /\ Shaped(vs) /\ DOMAIN vs = DOMAIN made
      /\ \A i \in DOMAIN made : vs[i] = IF i \in S THEN [made[i] EXCEPT !.refs = made[i].refs + 1] ELSE made[i]
  BY DEF Shaped, Quota!Referenced
<1>3. ASSUME NEW i \in DOMAIN made
      PROVE  /\ DOMAIN vs[i] = QuotaFields /\ vs[i].key = made[i].key /\ vs[i].sync = made[i].sync
             /\ vs[i].refs = made[i].refs + (IF i \in S THEN 1 ELSE 0)
  BY <1>1, <1>2 DEF QuotaFields
<1>4. \A i \in DOMAIN made : vs[i].refs \in Int
  BY <1>1, <1>3
<1> QED
  BY <1>2, <1>3, <1>4, MadeKept

LEMMA RefsGiven ==
  ASSUME MadeFit(made), NEW S, NEW vs, vs = Quota!Released(S)
  PROVE  /\ MadeFit(vs) /\ DOMAIN vs = DOMAIN made
         /\ \A i \in DOMAIN made : /\ vs[i].key = made[i].key /\ vs[i].sync = made[i].sync
                                   /\ vs[i].refs = made[i].refs - (IF i \in S THEN 1 ELSE 0)
<1>1. \A i \in DOMAIN made : DOMAIN made[i] = QuotaFields /\ made[i].refs \in Int
  BY DEF MadeFit
<1>2. /\ Shaped(vs) /\ DOMAIN vs = DOMAIN made
      /\ \A i \in DOMAIN made : vs[i] = IF i \in S THEN [made[i] EXCEPT !.refs = made[i].refs - 1] ELSE made[i]
  BY DEF Shaped, Quota!Released
<1>3. ASSUME NEW i \in DOMAIN made
      PROVE  /\ DOMAIN vs[i] = QuotaFields /\ vs[i].key = made[i].key /\ vs[i].sync = made[i].sync
             /\ vs[i].refs = made[i].refs - (IF i \in S THEN 1 ELSE 0)
  BY <1>1, <1>2 DEF QuotaFields
<1>4. \A i \in DOMAIN made : vs[i].refs \in Int
  BY <1>1, <1>3
<1> QED
  BY <1>2, <1>3, <1>4, MadeKept

LEMMA AllCached ==
  ASSUME CacheFits
  PROVE  Quota!GetAllValuesWithRef \subseteq DOMAIN made
  BY DEF CacheFits, CachedKeys, Quota!GetAllValuesWithRef

(* The reactor takes all windows, to look at them.                          *)
LEMMA QuotaClearing == QuotasFit /\ QuotaInv /\ Quota!ClearExpiredWindow => QuotaInv'
<1> SUFFICES ASSUME QuotasFit, QuotaInv, Quota!ClearExpiredWindow PROVE QuotaInv'
  OBVIOUS
<1> DEFINE S == Quota!GetAllValuesWithRef
<1>1. /\ UNCHANGED <<setup, version, cache, recent, size, garbage, lock, caller, collector>>
      /\ reactor.pc = "idle" /\ made' = Quota!Referenced(S) /\ reactor' = [pc |-> "next", todo |-> S, w |-> NULL]
  BY DEF Quota!ClearExpiredWindow, Quota!environment, Quota!map
<1>2. MadeFit(made) /\ ReactorFits /\ S \subseteq DOMAIN made
  BY AllCached DEF QuotaInv
<1>3. NULL \notin DOMAIN made
  BY <1>2, NullNoWindow
<1>4. reactor.todo = {} /\ reactor.w = NULL
  BY <1>1, <1>2 DEF ReactorFits
<1> HIDE DEF S
<1>5. /\ MadeFit(made') /\ DOMAIN made' = DOMAIN made
      /\ \A i \in DOMAIN made : /\ made'[i].key = made[i].key /\ made'[i].sync = made[i].sync
                                /\ made'[i].refs = made[i].refs + (IF i \in S THEN 1 ELSE 0)
  BY <1>1, <1>2, RefsTaken
<1>6. ReactorFits'
  BY <1>1, <1>2, <1>5 DEF ReactorFits
<1>7. ASSUME NEW w \in DOMAIN made
      PROVE  Books(cache', garbage', collector', reactor', w) - Books(cache, garbage, collector, reactor, w) = IF w \in S THEN 1 ELSE 0
  <2>1. Held(collector', reactor', w) = Held(collector, reactor, w) + (IF w \in S THEN 1 ELSE 0)
    BY <1>1, <1>3, <1>4 DEF Held
  <2>2. Kept(cache', garbage', w) = Kept(cache, garbage, w)
    BY <1>1, KeysKept DEF Kept, Cached
  <2> QED
    BY <2>1, <2>2, KeptHeldNat DEF Books
<1>8. RefsFollow
  BY <1>5, <1>7 DEF RefsFollow
<1> QED
  BY <1>1, <1>5, <1>6, <1>8, HoldersStep

LEMMA HeldOnly ==
  ASSUME UNCHANGED <<setup, cache, garbage>>, NEW w, NEW d \in Int,
         Held(collector', reactor', w) = Held(collector, reactor, w) + d
  PROVE  Books(cache', garbage', collector', reactor', w) - Books(cache, garbage, collector, reactor, w) = d
<1>1. Kept(cache', garbage', w) = Kept(cache, garbage, w)
  BY KeysKept DEF Kept, Cached
<1> QED
  BY <1>1, KeptHeldNat DEF Books

(* A window that is kept is given back at once.                             *)
LEMMA QuotaChecked == QuotasFit /\ QuotaInv /\ Quota!CheckWindow => QuotaInv'
<1> SUFFICES ASSUME QuotasFit, QuotaInv, NEW v \in reactor.todo, reactor.pc = "next",
                    \/ reactor' = [pc |-> "mark", todo |-> reactor.todo \ {v}, w |-> v] /\ made' = made
                    \/ reactor' = [reactor EXCEPT !.todo = reactor.todo \ {v}] /\ made' = Quota!DecrementRef(made, v),
                    UNCHANGED <<setup, version, cache, recent, size, garbage, lock, caller, collector>>
             PROVE  QuotaInv'
  BY DEF Quota!CheckWindow, Quota!environment, Quota!map
<1>1. MadeFit(made) /\ ReactorFits /\ v \in DOMAIN made
  BY DEF QuotaInv, ReactorFits
<1>2. NULL \notin DOMAIN made /\ reactor.w = NULL /\ \A w \in DOMAIN made : made[w].refs \in Int
  BY <1>1, NullNoWindow DEF ReactorFits, MadeFit
<1>3. CASE reactor' = [pc |-> "mark", todo |-> reactor.todo \ {v}, w |-> v] /\ made' = made
  <2>1. MadeFit(made') /\ DOMAIN made' = DOMAIN made /\ ReactorFits'
    BY <1>1, <1>3 DEF ReactorFits
  <2>2. ASSUME NEW w \in DOMAIN made
        PROVE  Books(cache', garbage', collector', reactor', w) - Books(cache, garbage, collector, reactor, w) = 0
    <3>1. Held(collector', reactor', w) = Held(collector, reactor, w) + 0
      BY <1>2, <1>3 DEF Held
    <3> QED
      BY <3>1, HeldOnly
  <2>3. \A w \in DOMAIN made : made'[w] = made[w] /\ made[w].refs \in Int
    BY <1>2, <1>3
  <2>4. RefsFollow
    BY <2>2, <2>3 DEF RefsFollow
  <2> QED
    BY <2>1, <2>4, HoldersStep
<1>4. CASE reactor' = [reactor EXCEPT !.todo = reactor.todo \ {v}] /\ made' = Quota!DecrementRef(made, v)
  <2>1. /\ MadeFit(made') /\ DOMAIN made' = DOMAIN made
        /\ \A i \in DOMAIN made : /\ made'[i].key = made[i].key /\ made'[i].sync = made[i].sync
                                  /\ made'[i].refs = made[i].refs - (IF i = v THEN 1 ELSE 0)
    BY <1>1, <1>4, RefGiven
  <2>2. ReactorFits'
    BY <1>1, <1>4, <2>1 DEF ReactorFits
  <2>3. ASSUME NEW w \in DOMAIN made
        PROVE  Books(cache', garbage', collector', reactor', w) - Books(cache, garbage, collector, reactor, w) = IF w = v THEN -1 ELSE 0
    <3>1. reactor'.todo = reactor.todo \ {v} /\ reactor'.w = reactor.w
      BY <1>1, <1>4 DEF ReactorFits
    <3>2. Held(collector', reactor', w) = Held(collector, reactor, w) + (IF w = v THEN -1 ELSE 0)
      BY <1>2, <3>1 DEF Held
    <3> QED
      BY <3>2, HeldOnly
  <2>4. ASSUME NEW w \in DOMAIN made PROVE made'[w].refs = made[w].refs + (IF w = v THEN -1 ELSE 0)
    BY <1>2, <2>1
  <2>5. RefsFollow
    BY <2>1, <2>3, <2>4 DEF RefsFollow
  <2> QED
    BY <2>1, <2>2, <2>5, HoldersStep
<1> QED
  BY <1>3, <1>4

LEMMA QuotaMarked == QuotaInv /\ Quota!MakeDeleted => QuotaInv'
<1> SUFFICES ASSUME QuotaInv, Quota!MakeDeleted PROVE QuotaInv'
  OBVIOUS
<1> DEFINE v == reactor.w
           x == [made[v] EXCEPT !.deleted = TRUE]
<1>1. /\ UNCHANGED <<setup, version, cache, recent, size, garbage, lock, caller, collector>>
      /\ reactor.pc = "mark" /\ made' = [made EXCEPT ![v] = x] /\ reactor' = [reactor EXCEPT !.pc = "delete"]
  BY DEF Quota!MakeDeleted, Quota!environment, Quota!map
<1>2. MadeFit(made) /\ ReactorFits /\ v \in DOMAIN made
  BY <1>1 DEF QuotaInv, ReactorFits
<1>3. /\ DOMAIN x = QuotaFields /\ x.refs = made[v].refs /\ x.key = made[v].key /\ x.sync = made[v].sync /\ x.refs \in Int
      /\ \A w \in DOMAIN made : made[w].refs \in Int
  BY <1>2 DEF MadeFit, QuotaFields
<1> HIDE DEF x
<1>4. MadeFit(made') /\ DOMAIN made' = DOMAIN made /\ \A w \in DOMAIN made : made'[w] = IF w = v THEN x ELSE made[w]
  BY <1>1, <1>2, <1>3, MadeChanged
<1>5. ReactorFits' /\ reactor'.todo = reactor.todo /\ reactor'.w = reactor.w
  BY <1>1, <1>2, <1>4 DEF ReactorFits
<1>6. ASSUME NEW w \in DOMAIN made
      PROVE  Books(cache', garbage', collector', reactor', w) - Books(cache, garbage, collector, reactor, w) = 0
  <2>1. Held(collector', reactor', w) = Held(collector, reactor, w) + 0
    BY <1>1, <1>5 DEF Held
  <2> QED
    BY <1>1, <2>1, HeldOnly
<1>7. RefsFollow
  BY <1>3, <1>4, <1>6 DEF RefsFollow
<1> QED
  BY <1>1, <1>4, <1>5, <1>7, HoldersStep

LEMMA QuotaCollects == QuotaInv /\ Quota!CollectRecord => QuotaInv'
<1> SUFFICES ASSUME QuotaInv, Quota!CollectRecord PROVE QuotaInv'
  OBVIOUS
<1> DEFINE S == Quota!GetAllValuesWithRef
<1>1. /\ UNCHANGED <<setup, version, cache, recent, size, garbage, lock, caller, reactor>>
      /\ collector = {} /\ collector' = S /\ made' = Quota!Referenced(S)
  BY DEF Quota!CollectRecord, Quota!environment, Quota!map, Quota!Referenced
<1>2. MadeFit(made) /\ ReactorFits /\ S \subseteq DOMAIN made
  BY AllCached DEF QuotaInv
<1> HIDE DEF S
<1>3. /\ MadeFit(made') /\ DOMAIN made' = DOMAIN made
      /\ \A i \in DOMAIN made : /\ made'[i].key = made[i].key /\ made'[i].sync = made[i].sync
                                /\ made'[i].refs = made[i].refs + (IF i \in S THEN 1 ELSE 0)
  BY <1>1, <1>2, RefsTaken
<1>4. ReactorFits'
  BY <1>1, <1>2, <1>3 DEF ReactorFits
<1>5. ASSUME NEW w \in DOMAIN made
      PROVE  Books(cache', garbage', collector', reactor', w) - Books(cache, garbage, collector, reactor, w) = IF w \in S THEN 1 ELSE 0
  <2>1. Held(collector', reactor', w) = Held(collector, reactor, w) + (IF w \in S THEN 1 ELSE 0)
    BY <1>1 DEF Held
  <2> QED
    BY <1>1, <2>1, HeldOnly
<1>6. RefsFollow
  BY <1>3, <1>5 DEF RefsFollow
<1> QED
  BY <1>1, <1>3, <1>4, <1>6, HoldersStep

LEMMA QuotaCollected == QuotaInv /\ Quota!Collected => QuotaInv'
<1> SUFFICES ASSUME QuotaInv, Quota!Collected PROVE QuotaInv'
  OBVIOUS
<1>1. /\ UNCHANGED <<setup, version, cache, recent, size, garbage, lock, caller, reactor>>
      /\ collector' = {} /\ made' = Quota!Released(collector)
  BY DEF Quota!Collected, Quota!environment, Quota!map
<1>2. MadeFit(made) /\ ReactorFits /\ \A w \in DOMAIN made : made[w].refs \in Int
  BY DEF QuotaInv, MadeFit
<1>3. /\ MadeFit(made') /\ DOMAIN made' = DOMAIN made
      /\ \A i \in DOMAIN made : /\ made'[i].key = made[i].key /\ made'[i].sync = made[i].sync
                                /\ made'[i].refs = made[i].refs - (IF i \in collector THEN 1 ELSE 0)
  BY <1>1, <1>2, RefsGiven
<1>4. ReactorFits'
  BY <1>1, <1>2, <1>3 DEF ReactorFits
<1>5. ASSUME NEW w \in DOMAIN made
      PROVE  Books(cache', garbage', collector', reactor', w) - Books(cache, garbage, collector, reactor, w) = IF w \in collector THEN -1 ELSE 0
  <2>1. Held(collector', reactor', w) = Held(collector, reactor, w) + (IF w \in collector THEN -1 ELSE 0)
    BY <1>1 DEF Held
  <2> QED
    BY <1>1, <2>1, HeldOnly
<1>6. RefsFollow
  BY <1>2, <1>3, <1>5 DEF RefsFollow
<1> QED
  BY <1>1, <1>3, <1>4, <1>6, HoldersStep

(* CheckGc releases what it removes from the list.                          *)
LEMMA QuotaCleared == QuotaInv /\ Quota!ClearedAll => QuotaInv'
<1> SUFFICES ASSUME QuotaInv, NEW old \in SUBSET garbage, garbage' = garbage \ old, made' = Quota!Released(old),
                    reactor.pc = "next", reactor.todo = {}, reactor' = [reactor EXCEPT !.pc = "idle"],
                    UNCHANGED <<setup, version, cache, recent, size, lock, caller, collector>>
             PROVE  QuotaInv'
  BY DEF Quota!ClearedAll, Quota!environment
<1>1. MadeFit(made) /\ ReactorFits /\ \A w \in DOMAIN made : made[w].refs \in Int
  BY DEF QuotaInv, MadeFit
<1>2. /\ MadeFit(made') /\ DOMAIN made' = DOMAIN made
      /\ \A i \in DOMAIN made : /\ made'[i].key = made[i].key /\ made'[i].sync = made[i].sync
                                /\ made'[i].refs = made[i].refs - (IF i \in old THEN 1 ELSE 0)
  BY <1>1, RefsGiven
<1>3. ReactorFits' /\ reactor'.todo = reactor.todo /\ reactor'.w = reactor.w
  BY <1>1, <1>2 DEF ReactorFits
<1>4. ASSUME NEW w \in DOMAIN made
      PROVE  Books(cache', garbage', collector', reactor', w) - Books(cache, garbage, collector, reactor, w) = IF w \in old THEN -1 ELSE 0
  <2>1. Held(collector', reactor', w) = Held(collector, reactor, w)
    BY <1>3 DEF Held
  <2>2. Kept(cache', garbage', w) = Kept(cache, garbage, w) + (IF w \in old THEN -1 ELSE 0)
    BY KeysKept DEF Kept, Cached
  <2> QED
    BY <2>1, <2>2, KeptHeldNat DEF Books
<1>5. ASSUME NEW w \in DOMAIN made PROVE made'[w].refs = made[w].refs + (IF w \in old THEN -1 ELSE 0)
  BY <1>1, <1>2
<1>6. RefsFollow
  BY <1>2, <1>4, <1>5 DEF RefsFollow
<1> QED
  BY <1>2, <1>3, <1>6, HoldersStep

(* The connector gives a window up.                                         *)
LEMMA QuotaSynced == ASSUME QuotaInv, NEW v \in DOMAIN made, Quota!SyncTask(v) PROVE QuotaInv'
<1> DEFINE x == [made[v] EXCEPT !.sync = FALSE]
           ws == [made EXCEPT ![v] = x]
<1>1. /\ UNCHANGED <<setup, version, cache, recent, size, garbage, lock, caller, reactor, collector>>
      /\ made[v].sync /\ made' = Quota!DecrementRef(ws, v)
  BY DEF Quota!SyncTask, Quota!environment, Quota!map
<1>2. MadeFit(made) /\ \A w \in DOMAIN made : made[w].refs \in Int
  BY DEF QuotaInv, MadeFit
<1>3. DOMAIN x = QuotaFields /\ x.refs = made[v].refs /\ x.key = made[v].key /\ x.sync = FALSE /\ x.refs \in Int
  BY <1>2 DEF MadeFit, QuotaFields
<1> HIDE DEF x
<1>4. MadeFit(ws) /\ DOMAIN ws = DOMAIN made /\ \A w \in DOMAIN made : ws[w] = IF w = v THEN x ELSE made[w]
  BY <1>2, <1>3, MadeChanged
<1> HIDE DEF ws
<1>5. /\ MadeFit(made') /\ DOMAIN made' = DOMAIN made
      /\ \A i \in DOMAIN made : /\ made'[i].key = ws[i].key /\ made'[i].sync = ws[i].sync
                                /\ made'[i].refs = ws[i].refs - (IF i = v THEN 1 ELSE 0)
  BY <1>1, <1>4, RefGiven
<1>6. ASSUME NEW w \in DOMAIN made
      PROVE  /\ made'[w].key = made[w].key
             /\ made'[w].refs - (IF made'[w].sync THEN 1 ELSE 0) = made[w].refs - (IF made[w].sync THEN 1 ELSE 0)
  BY <1>1, <1>2, <1>3, <1>4, <1>5
<1>7. CacheFits' /\ \A w : Cached(cache', w) <=> Cached(cache, w)
  BY <1>1, <1>5, <1>6, CacheKept DEF QuotaInv
<1>8. ReactorFits' /\ CallersFit' /\ RecencyFits'
  BY <1>1, <1>5, ReactorKept, CallersKept, RecencyKept DEF QuotaInv
<1>9. \A w : Books(cache', garbage', collector', reactor', w) = Books(cache, garbage, collector, reactor, w) /\ Users(caller', w) = Users(caller, w)
  BY <1>1, <1>7 DEF Books, Kept, Users
<1>10. RefsAdd /\ \A w : Users(caller, w) \in Nat
  BY RefsMean, UsersNat DEF QuotaInv
<1>11. ASSUME NEW w \in DOMAIN made
       PROVE  made'[w].refs = Books(cache', garbage', collector', reactor', w) + (IF made'[w].sync THEN 1 ELSE 0) + Users(caller', w)
  <2> DEFINE b == Books(cache, garbage, collector, reactor, w)
             s == IF made[w].sync THEN 1 ELSE 0
             t == IF made'[w].sync THEN 1 ELSE 0
             u == Users(caller, w)
  <2>1. made[w].refs = b + s + u /\ made'[w].refs - t = made[w].refs - s
    BY <1>6, <1>10 DEF RefsAdd
  <2>2. b \in Nat /\ s \in {0, 1} /\ t \in {0, 1} /\ u \in Nat /\ made'[w].refs \in Int
    BY <1>5, <1>10, BooksNat DEF MadeFit
  <2> HIDE DEF b, s, t, u
  <2>3. made'[w].refs = b + t + u
    BY <2>1, <2>2
  <2> QED
    BY <1>9, <2>3 DEF b, t, u
<1> QED
  BY <1>1, <1>5, <1>7, <1>8, <1>11, QuotaKept DEF QuotaInv

(* A key leaves the cache. Its window is under no other key, so that the    *)
(* cache gives up one reference, or has it on its list of garbage.          *)
LEMMA KeyDeleted ==
  ASSUME QuotasFit, QuotaInv, UNCHANGED setup, NEW key \in Quota!Keys, Quota!Delete(key),
         NEW ws, MadeFit(ws), DOMAIN ws = DOMAIN made, \A w \in DOMAIN made : ws[w].key = made[w].key,
         NEW vs, vs = Quota!Deleted(ws, key)
  PROVE  /\ MadeFit(vs) /\ DOMAIN vs = DOMAIN made
         /\ \A w \in DOMAIN made :
              /\ vs[w].key = made[w].key /\ vs[w].sync = ws[w].sync
              /\ vs[w].refs = ws[w].refs + (Kept(cache', garbage', w) - Kept(cache, garbage, w))
         /\ DOMAIN cache' = Quota!Keys /\ \A k \in Quota!Keys : cache'[k] = IF k = key THEN NULL ELSE cache[k]
         /\ CachedKeys' = CachedKeys \ {key}
         /\ garbage' \subseteq DOMAIN made /\ \A w \in garbage' : ~Cached(cache', w)
<1>1. MadeFit(made) /\ CacheFits /\ NULL \notin DOMAIN made
  BY NullNoWindow DEF QuotaInv
<1> DEFINE v == cache[key]
<1>2. /\ cache' = [cache EXCEPT ![key] = NULL]
      /\ garbage' = IF Quota!Lru \/ v = NULL THEN garbage ELSE garbage \cup {v}
      /\ vs = IF Quota!Lru /\ v # NULL THEN Quota!DecrementRef(ws, v) ELSE ws
  BY DEF Quota!Delete, Quota!Deleted
<1>3. DOMAIN cache' = Quota!Keys /\ \A k \in Quota!Keys : cache'[k] = IF k = key THEN NULL ELSE cache[k]
  BY <1>1, <1>2 DEF CacheFits
<1>4. CachedKeys' = CachedKeys \ {key}
  BY <1>3, KeysKept DEF CachedKeys
<1>5. /\ v # NULL => v \in DOMAIN made /\ made[v].key = key
      /\ \A k \in Quota!Keys : cache[k] # NULL => made[cache[k]].key = k
  BY <1>1 DEF CacheFits, CachedKeys
<1>6. \A w \in DOMAIN made : Cached(cache', w) <=> Cached(cache, w) /\ w # v
  BY <1>1, <1>3, <1>5 DEF Cached
<1>7. v # NULL => Cached(cache, v) /\ v \notin garbage
  BY <1>1 DEF CacheFits, Cached
<1>8. \A w \in DOMAIN ws : ws[w].refs \in Int
  BY DEF MadeFit
<1> HIDE DEF v
<1>9. garbage' \subseteq DOMAIN made /\ \A w \in garbage' : ~Cached(cache', w)
  BY <1>1, <1>2, <1>5, <1>6 DEF CacheFits
<1>10. \A w \in DOMAIN made : w \in garbage' <=> w \in garbage \/ (~Quota!Lru /\ w = v)
  BY <1>1, <1>2
<1>11. CASE Quota!Lru /\ v # NULL
  <2>1. /\ MadeFit(vs) /\ DOMAIN vs = DOMAIN made
        /\ \A i \in DOMAIN made : /\ vs[i].key = ws[i].key /\ vs[i].sync = ws[i].sync
                                  /\ vs[i].refs = ws[i].refs - (IF i = v THEN 1 ELSE 0)
    BY <1>2, <1>5, <1>11, RefGiven
  <2>2. ASSUME NEW w \in DOMAIN made PROVE Kept(cache', garbage', w) - Kept(cache, garbage, w) = IF w = v THEN -1 ELSE 0
    <3>1. w # v => (Cached(cache', w) <=> Cached(cache, w)) /\ (w \in garbage' <=> w \in garbage)
      BY <1>6, <1>11, <1>10
    <3>2. w = v => ~Cached(cache', w) /\ Cached(cache, w) /\ w \notin garbage' /\ w \notin garbage
      BY <1>6, <1>7, <1>11, <1>10
    <3> QED
      BY <3>1, <3>2 DEF Kept
  <2>3. ASSUME NEW w \in DOMAIN made PROVE vs[w].refs = ws[w].refs + (IF w = v THEN -1 ELSE 0)
    BY <1>8, <2>1
  <2> QED
    BY <1>3, <1>4, <1>9, <2>1, <2>2, <2>3
<1>12. CASE ~(Quota!Lru /\ v # NULL)
  <2>1. vs = ws
    BY <1>2, <1>12
  <2>2. ASSUME NEW w \in DOMAIN made PROVE Kept(cache', garbage', w) - Kept(cache, garbage, w) = 0
    <3>1. w # v => (Cached(cache', w) <=> Cached(cache, w)) /\ (w \in garbage' <=> w \in garbage)
      BY <1>6, <1>10
    <3>2. w = v => ~Cached(cache', w) /\ Cached(cache, w) /\ w \in garbage' /\ w \notin garbage
      BY <1>1, <1>6, <1>7, <1>12, <1>10
    <3> QED
      BY <3>1, <3>2 DEF Kept
  <2> QED
    BY <1>3, <1>4, <1>8, <1>9, <2>1, <2>2
<1> QED
  BY <1>11, <1>12

LEMMA CacheShrunk ==
  ASSUME QuotaInv, UNCHANGED setup, DOMAIN made' = DOMAIN made, \A w \in DOMAIN made : made'[w].key = made[w].key,
         NEW key, DOMAIN cache' = Quota!Keys, \A k \in Quota!Keys : cache'[k] = IF k = key THEN NULL ELSE cache[k],
         CachedKeys' = CachedKeys \ {key},
         garbage' \subseteq DOMAIN made, \A w \in garbage' : ~Cached(cache', w)
  PROVE  CacheFits'
<1>1. Quota!Keys' = Quota!Keys /\ CacheFits
  BY KeysKept DEF QuotaInv
<1>2. ASSUME NEW k \in CachedKeys' PROVE cache'[k] \in DOMAIN made' /\ made'[cache'[k]].key = k
  <2>1. k \in Quota!Keys /\ k # key /\ k \in CachedKeys
    BY DEF CachedKeys
  <2> QED
    BY <1>1, <2>1 DEF CacheFits
<1>3. \A w \in garbage' : ~Cached(cache, w)'
  BY <1>1 DEF Cached
<1> QED
  BY <1>1, <1>2, <1>3 DEF CacheFits

(* A key that nobody evicts leaves table and list.                          *)
LEMMA RecencyShrunk ==
  ASSUME RecencyFits, UNCHANGED <<setup, size>>, NEW key, recent' = Quota!Without(recent, key), CachedKeys' = CachedKeys \ {key},
         DOMAIN caller' = DOMAIN caller,
         Quota!Lru => \A c \in DOMAIN caller : caller[c].pc \notin {"evict", "evicting"} /\ caller'[c].pc \notin {"evict", "evicting"}
  PROVE  RecencyFits'
<1>1. Quota!Keys' = Quota!Keys /\ (Quota!Lru' <=> Quota!Lru)
  BY KeysKept DEF Quota!Lru
<1> SUFFICES ASSUME Quota!Lru PROVE RecencyFits'
  BY <1>1 DEF RecencyFits
<1>2. Evicted = {} /\ Evicted' = {}
  BY DEF Evicted
<1>3. /\ recent' \in Seq(Quota!Keys) /\ Quota!IsInjective(recent')
      /\ Quota!ToSet(recent') = Quota!ToSet(recent) \ {key}
  BY RecencyWithout DEF RecencyFits
<1>4. Quota!IsInjective(recent)' /\ Quota!ToSet(recent)' = Quota!ToSet(recent) \ {key}
  BY <1>3 DEF Quota!IsInjective, Quota!ToSet
<1>5. IsFiniteSet(CachedKeys') /\ Cardinality(CachedKeys') <= size'
  <2>1. IsFiniteSet(CachedKeys) /\ Cardinality(CachedKeys) <= size /\ size \in Int
    BY DEF RecencyFits
  <2>2. IsFiniteSet(CachedKeys') /\ Cardinality(CachedKeys') <= Cardinality(CachedKeys)
    BY <2>1, FS_Subset
  <2>3. Cardinality(CachedKeys) \in Nat /\ Cardinality(CachedKeys') \in Nat
    BY <2>1, <2>2, FS_CardinalityType
  <2> QED
    BY <2>1, <2>2, <2>3
<1>6. size' \in Int /\ size' <= setup'.lru /\ Quota!ToSet(recent)' = CachedKeys' \ Evicted'
  BY <1>2, <1>4 DEF RecencyFits
<1> QED
  BY <1>1, <1>2, <1>3, <1>4, <1>5, <1>6 DEF RecencyFits

(* The reactor deletes the key of an expired window.                        *)
LEMMA QuotaDeleted == QuotasFit /\ QuotaInv /\ Quota!DeleteKey => QuotaInv'
<1> SUFFICES ASSUME QuotasFit, QuotaInv, Quota!DeleteKey PROVE QuotaInv'
  OBVIOUS
<1> DEFINE v == reactor.w
           key == made[v].key
           ws == Quota!Deleted(made, key)
<1>1. /\ UNCHANGED <<setup, version, size, lock, caller, collector>> /\ reactor.pc = "delete" /\ Quota!NotEvicting
      /\ Quota!Delete(key) /\ made' = Quota!DecrementRef(ws, v) /\ reactor' = [reactor EXCEPT !.pc = "next", !.w = NULL]
  BY DEF Quota!DeleteKey, Quota!environment
<1>2. MadeFit(made) /\ ReactorFits /\ CallersFit /\ RecencyFits /\ v \in DOMAIN made /\ key \in Quota!Keys
  BY <1>1 DEF QuotaInv, ReactorFits, MadeFit
<1>3. NULL \notin DOMAIN made
  BY <1>2, NullNoWindow
<1> HIDE DEF key, ws
<1>4. /\ MadeFit(ws) /\ DOMAIN ws = DOMAIN made
      /\ \A w \in DOMAIN made :
           /\ ws[w].key = made[w].key /\ ws[w].sync = made[w].sync
           /\ ws[w].refs = made[w].refs + (Kept(cache', garbage', w) - Kept(cache, garbage, w))
      /\ DOMAIN cache' = Quota!Keys /\ \A k \in Quota!Keys : cache'[k] = IF k = key THEN NULL ELSE cache[k]
      /\ CachedKeys' = CachedKeys \ {key}
      /\ garbage' \subseteq DOMAIN made /\ \A w \in garbage' : ~Cached(cache', w)
  BY <1>1, <1>2, KeyDeleted DEF ws
<1>5. /\ MadeFit(made') /\ DOMAIN made' = DOMAIN made
      /\ \A i \in DOMAIN made : /\ made'[i].key = ws[i].key /\ made'[i].sync = ws[i].sync
                                /\ made'[i].refs = ws[i].refs - (IF i = v THEN 1 ELSE 0)
  BY <1>1, <1>2, <1>4, RefGiven
<1>6. CacheFits'
  BY <1>1, <1>4, <1>5, CacheShrunk
<1>7. ReactorFits' /\ reactor'.todo = reactor.todo /\ reactor'.w = NULL
  BY <1>1, <1>2, <1>5 DEF ReactorFits
<1>8. CallersFit'
  <2>1. \A r : CallFits(r, DOMAIN made) => CallFits(r, DOMAIN made)'
    BY <1>1, <1>5, KeysKept DEF CallFits
  <2>2. \A c \in DOMAIN caller : caller[c].pc = "create" => cache'[caller[c].key] = NULL
    BY <1>2, <1>4 DEF CallersFit, CallFits
  <2> QED
    BY <1>1, <1>2, <2>1, <2>2 DEF CallersFit, Locked
<1>9. RecencyFits'
  <2>1. recent' = Quota!Without(recent, key)
    BY <1>1 DEF Quota!Delete
  <2>2. Quota!Lru => \A c \in DOMAIN caller : caller[c].pc \notin {"evict", "evicting"} /\ caller'[c].pc \notin {"evict", "evicting"}
    BY <1>1 DEF Quota!NotEvicting, Quota!At
  <2> QED
    BY <1>1, <1>2, <1>4, <2>1, <2>2, RecencyShrunk
<1>10. RefsAdd /\ \A w : Users(caller, w) \in Nat /\ Users(caller', w) = Users(caller, w)
  BY <1>1, RefsMean, UsersNat DEF QuotaInv, Users
<1>11. ASSUME NEW w \in DOMAIN made
       PROVE  made'[w].refs = Books(cache', garbage', collector', reactor', w) + (IF made'[w].sync THEN 1 ELSE 0) + Users(caller', w)
  <2> DEFINE k == Kept(cache, garbage, w)
             l == Kept(cache', garbage', w)
             h == Held(collector, reactor, w)
             i == Held(collector', reactor', w)
             d == IF w = v THEN 1 ELSE 0
             s == IF made[w].sync THEN 1 ELSE 0
             u == Users(caller, w)
  <2>1. made[w].refs = (k + h) + s + u /\ (IF made'[w].sync THEN 1 ELSE 0) = s
    BY <1>4, <1>5, <1>10 DEF RefsAdd, Books
  <2>2. made'[w].refs = (made[w].refs + (l - k)) - d
    BY <1>4, <1>5
  <2>3. i = h - d
    BY <1>1, <1>3, <1>7 DEF Held
  <2>4. k \in Nat /\ l \in Nat /\ h \in Nat /\ i \in Nat /\ d \in {0, 1} /\ s \in {0, 1} /\ u \in Nat
    BY <1>10, KeptHeldNat
  <2> HIDE DEF k, l, h, i, d, s, u
  <2>5. made'[w].refs = (l + i) + s + u
    BY <2>1, <2>2, <2>3, <2>4
  <2> QED
    BY <1>10, <2>1, <2>5 DEF l, i, u, Books
<1> QED
  BY <1>1, <1>5, <1>6, <1>7, <1>8, <1>9, <1>11, QuotaKept DEF QuotaInv

(* The caller with the lock is the only one past the lookup.                *)
LEMMA OneEvicts ==
  ASSUME CallersFit, NEW c \in DOMAIN caller, Locked(caller[c]) \/ lock = NULL
  PROVE  /\ \A d \in DOMAIN caller \ {c} : ~Locked(caller[d])
         /\ caller[c].pc # "evicting" => Evicted = {}
         /\ caller[c].pc = "evicting" => Evicted = {caller[c].key}
<1>1. \A d \in DOMAIN caller \ {c} : ~Locked(caller[d])
  BY DEF CallersFit
<1>2. \A d \in DOMAIN caller : d # c => caller[d].pc # "evicting"
  BY <1>1 DEF Locked
<1> QED
  BY <1>1, <1>2 DEF Evicted

(* The evicted keys after a step of the caller with the lock.               *)
LEMMA EvictedMoved ==
  ASSUME NEW c \in DOMAIN caller, NEW r, Moves(c, r), \A d \in DOMAIN caller \ {c} : ~Locked(caller[d])
  PROVE  /\ r.pc # "evicting" => Evicted' = {}
         /\ r.pc = "evicting" => Evicted' = {r.key}
         /\ \A d \in DOMAIN caller' : caller'[d].pc \in {"evict", "evicting"} => d = c /\ caller'[d] = r
<1>1. \A d \in DOMAIN caller' : d # c => ~Locked(caller'[d])
  BY DEF Moves
<1>2. DOMAIN caller' = DOMAIN caller /\ caller'[c] = r
  BY DEF Moves
<1> QED
  BY <1>1, <1>2 DEF Evicted, Locked

(* The oldest key leaves the list.                                          *)
LEMMA RecencyTail ==
  ASSUME NEW K, NEW s \in Seq(K), Quota!IsInjective(s), s # <<>>
  PROVE  /\ Tail(s) \in Seq(K) /\ Quota!IsInjective(Tail(s)) /\ Head(s) \in Quota!ToSet(s)
         /\ Quota!ToSet(Tail(s)) = Quota!ToSet(s) \ {Head(s)}
<1> DEFINE t == Tail(s)
<1>1. /\ t \in Seq(K) /\ Len(t) = Len(s) - 1 /\ Head(s) = s[1] /\ Len(s) \in Nat /\ Len(s) >= 1
      /\ \A j \in 1..Len(t) : t[j] = s[j + 1]
  BY HeadTailProperties, EmptySeq
<1> HIDE DEF t
<1>2. DOMAIN s = 1..Len(s) /\ DOMAIN t = 1..(Len(s) - 1)
  BY <1>1
<1>3. Head(s) \in Quota!ToSet(s)
  BY <1>1, <1>2 DEF Quota!ToSet
<1>4. Quota!IsInjective(t)
  BY <1>1, <1>2 DEF Quota!IsInjective
<1>5. Quota!ToSet(t) = Quota!ToSet(s) \ {Head(s)}
  <2>1. ASSUME NEW j \in DOMAIN t PROVE t[j] \in Quota!ToSet(s) \ {Head(s)}
    <3>1. j + 1 \in 1..Len(s) /\ j + 1 # 1 /\ 1 \in 1..Len(s) /\ t[j] = s[j + 1]
      BY <1>1, <1>2
    <3> QED
      BY <1>1, <1>2, <3>1 DEF Quota!ToSet, Quota!IsInjective
  <2>2. ASSUME NEW j \in DOMAIN s, s[j] # Head(s) PROVE s[j] \in Quota!ToSet(t)
    <3>1. j - 1 \in DOMAIN t /\ t[j - 1] = s[j]
      BY <1>1, <1>2, <2>2
    <3> QED
      BY <3>1 DEF Quota!ToSet
  <2> QED
    BY <2>1, <2>2 DEF Quota!ToSet
<1> QED
  BY <1>1, <1>3, <1>4, <1>5 DEF t

LEMMA QuotaTailed ==
  ASSUME QuotasFit, QuotaInv, NEW c \in DOMAIN caller, Quota!RemoveHead(c)
  PROVE  QuotaInv'
<1> DEFINE r == [caller[c] EXCEPT !.pc = "evicting", !.key = Head(recent)]
<1>1. /\ UNCHANGED <<setup, version, made, cache, size, garbage, lock, reactor, collector>>
      /\ caller[c].pc = "evict" /\ Quota!Lru /\ size > setup.lru /\ Moves(c, r) /\ recent' = Tail(recent)
  BY DEF Moves, Quota!RemoveHead, Quota!At, Quota!environment
<1>2. CallersFit /\ CallFits(caller[c], DOMAIN made) /\ (Locked(caller[c]) <=> lock = c) /\ RecencyFits
  BY DEF QuotaInv, CallersFit
<1>3. Locked(caller[c]) /\ lock = c
  BY <1>1, <1>2 DEF Locked
<1>4. Evicted = {} /\ \A d \in DOMAIN caller \ {c} : ~Locked(caller[d])
  BY <1>1, <1>2, <1>3, OneEvicts
<1>5. /\ recent \in Seq(Quota!Keys) /\ Quota!IsInjective(recent) /\ Quota!ToSet(recent) = CachedKeys
      /\ CachedKeys # {} /\ size = setup.lru + 1
  <2>1. setup.lru \in Nat
    BY DEF QuotasFit, QuotaInv
  <2> QED
    BY <1>1, <1>2, <1>4, <2>1 DEF RecencyFits
<1>6. recent # <<>>
  BY <1>5 DEF Quota!ToSet
<1>7. /\ recent' \in Seq(Quota!Keys) /\ Quota!IsInjective(recent') /\ Head(recent) \in CachedKeys
      /\ Quota!ToSet(recent') = CachedKeys \ {Head(recent)}
  BY <1>1, <1>5, <1>6, RecencyTail
<1>8. CallFits(r, DOMAIN made') /\ Locked(r) /\ r.w = caller[c].w /\ r.pc = "evicting" /\ r.key = Head(recent)
  <2>1. Head(recent) \in Quota!Keys
    BY <1>7 DEF CachedKeys
  <2> QED
    BY <1>1, <1>2, <2>1 DEF CallFits, Locked
<1> HIDE DEF r
<1>9. CallersFit'
  BY <1>1, <1>2, <1>3, <1>8, CallerMoved DEF CallersFit
<1>10. /\ Evicted' = {Head(recent)}
       /\ \A d \in DOMAIN caller' : caller'[d].pc \in {"evict", "evicting"} => d = c /\ caller'[d] = r
  BY <1>1, <1>4, <1>8, EvictedMoved
<1>11. CachedKeys' = CachedKeys /\ Quota!Keys' = Quota!Keys
  BY <1>1, KeysKept DEF CachedKeys
<1>12. Quota!IsInjective(recent)' /\ Quota!ToSet(recent)' = CachedKeys' \ Evicted'
  BY <1>7, <1>10, <1>11 DEF Quota!IsInjective, Quota!ToSet
<1>13. c \in DOMAIN caller' /\ caller'[c] = r
  BY <1>1 DEF Moves
<1>14. RecencyFits'
  BY <1>1, <1>2, <1>5, <1>7, <1>8, <1>10, <1>11, <1>12, <1>13 DEF RecencyFits
<1> QED
  BY <1>1, <1>8, <1>9, <1>14, CallOnly

LEMMA QuotaUnlocked ==
  ASSUME QuotasFit, QuotaInv, NEW c \in DOMAIN caller, Quota!Unlock(c)
  PROVE  QuotaInv'
<1> DEFINE r == [caller[c] EXCEPT !.pc = "use"]
<1>1. /\ UNCHANGED <<setup, version, made, cache, recent, size, garbage, reactor, collector>>
      /\ caller[c].pc = "evict" /\ ~(Quota!Lru /\ size > setup.lru) /\ Moves(c, r) /\ lock' = NULL
  BY DEF Moves, Quota!Unlock, Quota!At, Quota!Goto, Quota!environment, Quota!map
<1>2. CallersFit /\ CallFits(caller[c], DOMAIN made) /\ (Locked(caller[c]) <=> lock = c) /\ RecencyFits /\ NULL \notin DOMAIN caller
  BY DEF QuotaInv, CallersFit
<1>3. Locked(caller[c]) /\ lock = c
  BY <1>1, <1>2 DEF Locked
<1>4. Evicted = {} /\ \A d \in DOMAIN caller \ {c} : ~Locked(caller[d])
  BY <1>1, <1>2, <1>3, OneEvicts
<1>5. CallFits(r, DOMAIN made') /\ ~Locked(r) /\ r.w = caller[c].w /\ r.pc = "use"
  BY <1>1, <1>2 DEF CallFits, Locked
<1> HIDE DEF r
<1>6. CallersFit'
  <2>1. \A d \in DOMAIN caller \ {c} : (lock' = d <=> lock = d) /\ caller[d].pc # "create"
    BY <1>1, <1>2, <1>3, <1>4 DEF Locked
  <2> QED
    BY <1>1, <1>2, <1>5, <2>1, CallerMoved
<1>7. Evicted' = {} /\ \A d \in DOMAIN caller' : caller'[d].pc \notin {"evict", "evicting"}
  BY <1>1, <1>4, <1>5, EvictedMoved
<1>8. CachedKeys' = CachedKeys /\ Quota!Keys' = Quota!Keys /\ (Quota!Lru' <=> Quota!Lru)
  BY <1>1, KeysKept DEF CachedKeys, Quota!Lru
<1>9. (Quota!IsInjective(recent)' <=> Quota!IsInjective(recent)) /\ Quota!ToSet(recent)' = Quota!ToSet(recent)
  BY <1>1 DEF Quota!IsInjective, Quota!ToSet
<1>10. RecencyFits'
  <2>1. setup.lru \in Nat
    BY DEF QuotasFit, QuotaInv
  <2>2. Quota!Lru => size <= setup.lru
    BY <1>1, <1>2, <2>1 DEF RecencyFits
  <2> QED
    BY <1>1, <1>2, <1>4, <1>7, <1>8, <1>9, <2>2 DEF RecencyFits
<1> QED
  BY <1>1, <1>5, <1>6, <1>10, CallOnly

(* A window of another revision leaves the cache; the call holds it.        *)
LEMMA QuotaDropped ==
  ASSUME QuotasFit, QuotaInv, NEW c \in DOMAIN caller, Quota!DropOld(c)
  PROVE  QuotaInv'
<1> DEFINE key == caller[c].key
           v == cache[key]
           r == [caller[c] EXCEPT !.pc = "create", !.w = v]
           ws == IF v = NULL THEN made ELSE Quota!IncrementRef(made, v)
<1>1. /\ UNCHANGED <<setup, version, size, reactor, collector>>
      /\ caller[c].pc = "lock" /\ lock = NULL /\ lock' = c /\ Moves(c, r) /\ Quota!Delete(key)
      /\ made' = Quota!Deleted(ws, key)
  BY DEF Moves, Quota!DropOld, Quota!At, Quota!environment, Quota!Deleted
<1>2. /\ CallersFit /\ CallFits(caller[c], DOMAIN made) /\ (Locked(caller[c]) <=> lock = c) /\ RecencyFits
      /\ NULL \notin DOMAIN caller /\ MadeFit(made) /\ CacheFits /\ ReactorFits
  BY DEF QuotaInv, CallersFit
<1>3. NULL \notin DOMAIN made /\ caller[c].w = NULL /\ key \in Quota!Keys
  BY <1>1, <1>2, NullNoWindow DEF CallFits
<1>4. v # NULL => v \in DOMAIN made
  BY <1>2, <1>3 DEF CacheFits, CachedKeys
<1>5. \A w \in DOMAIN made : made[w].refs \in Int
  BY <1>2 DEF MadeFit
<1>6. CallFits(r, DOMAIN made) /\ Locked(r) /\ r.w = v /\ r.pc = "create" /\ r.key = key
  BY <1>1, <1>2, <1>4 DEF CallFits, Locked
<1> HIDE DEF key, v, r
<1>7. /\ MadeFit(ws) /\ DOMAIN ws = DOMAIN made
      /\ \A i \in DOMAIN made : /\ ws[i].key = made[i].key /\ ws[i].sync = made[i].sync
                                /\ ws[i].refs = made[i].refs + (IF i = v THEN 1 ELSE 0)
  <2>1. CASE v = NULL
    BY <1>2, <1>3, <1>5, <2>1
  <2>2. CASE v # NULL
    BY <1>2, <1>4, <2>2, RefTaken
  <2> QED
    BY <2>1, <2>2
<1> HIDE DEF ws
<1>8. /\ MadeFit(made') /\ DOMAIN made' = DOMAIN made
      /\ \A w \in DOMAIN made :
           /\ made'[w].key = made[w].key /\ made'[w].sync = ws[w].sync
           /\ made'[w].refs = ws[w].refs + (Kept(cache', garbage', w) - Kept(cache, garbage, w))
      /\ DOMAIN cache' = Quota!Keys /\ \A k \in Quota!Keys : cache'[k] = IF k = key THEN NULL ELSE cache[k]
      /\ CachedKeys' = CachedKeys \ {key}
      /\ garbage' \subseteq DOMAIN made /\ \A w \in garbage' : ~Cached(cache', w)
  BY <1>1, <1>3, <1>7, KeyDeleted
<1>9. CacheFits'
  BY <1>1, <1>8, CacheShrunk
<1>10. ReactorFits'
  BY <1>1, <1>2, <1>8, ReactorKept
<1>11. \A d \in DOMAIN caller \ {c} : ~Locked(caller[d])
  BY <1>1, <1>2, OneEvicts
<1>12. CallersFit'
  <2>1. \A d \in DOMAIN caller \ {c} : (lock' = d <=> lock = d) /\ caller[d].pc # "create"
    BY <1>1, <1>2, <1>11 DEF Locked
  <2>2. cache'[r.key] = NULL /\ CallFits(r, DOMAIN made')
    BY <1>3, <1>6, <1>8
  <2> QED
    BY <1>1, <1>2, <1>6, <1>8, <2>1, <2>2, CallerMoved
<1>13. RecencyFits'
  <2>1. recent' = Quota!Without(recent, key)
    BY <1>1 DEF Quota!Delete
  <2>2. \A d \in DOMAIN caller : caller[d].pc \notin {"evict", "evicting"}
    BY <1>1, <1>11 DEF Locked
  <2>3. DOMAIN caller' = DOMAIN caller /\ \A d \in DOMAIN caller : caller'[d].pc \notin {"evict", "evicting"}
    BY <1>1, <1>6, <2>2 DEF Moves
  <2> QED
    BY <1>1, <1>2, <1>8, <2>1, <2>2, <2>3, RecencyShrunk
<1>14. RefsAdd
  BY <1>2, RefsMean DEF QuotaInv
<1>15. ASSUME NEW w \in DOMAIN made
       PROVE  made'[w].refs = Books(cache', garbage', collector', reactor', w) + (IF made'[w].sync THEN 1 ELSE 0) + Users(caller', w)
  <2> DEFINE k == Kept(cache, garbage, w)
             l == Kept(cache', garbage', w)
             h == Held(collector, reactor, w)
             d == IF w = v THEN 1 ELSE 0
             s == IF made[w].sync THEN 1 ELSE 0
             u == Users(caller, w)
             x == Users(caller', w)
  <2>1. made[w].refs = (k + h) + s + u /\ (IF made'[w].sync THEN 1 ELSE 0) = s
    BY <1>7, <1>8, <1>14 DEF RefsAdd, Books
  <2>2. made'[w].refs = (made[w].refs + d) + (l - k) /\ Held(collector', reactor', w) = h
    BY <1>1, <1>7, <1>8
  <2>3. u \in Nat /\ x = u + d
    <3>1. u \in Nat /\ x = u - (IF caller[c].w = w THEN 1 ELSE 0) + (IF r.w = w THEN 1 ELSE 0)
      BY <1>1, <1>2, UsersMoved
    <3> HIDE DEF u, x
    <3>2. x = u - 0 + d
      BY <1>3, <1>6, <3>1
    <3>3. d \in {0, 1}
      OBVIOUS
    <3> HIDE DEF d
    <3> QED
      BY <3>1, <3>2, <3>3
  <2>4. k \in Nat /\ l \in Nat /\ h \in Nat /\ d \in {0, 1} /\ s \in {0, 1}
    BY KeptHeldNat
  <2> HIDE DEF k, l, h, d, s, u, x
  <2>5. made'[w].refs = (l + h) + s + x
    BY <2>1, <2>2, <2>3, <2>4
  <2> QED
    BY <2>1, <2>2, <2>5 DEF l, x, Books
<1> QED
  BY <1>1, <1>8, <1>9, <1>10, <1>12, <1>13, <1>15, QuotaKept DEF QuotaInv

(* The key that was taken off the list leaves the table.                    *)
LEMMA QuotaEvicted ==
  ASSUME QuotasFit, QuotaInv, NEW c \in DOMAIN caller, Quota!Evict(c)
  PROVE  QuotaInv'
<1> DEFINE key == caller[c].key
           r == [caller[c] EXCEPT !.pc = "evict"]
<1>1. /\ UNCHANGED <<setup, version, lock, reactor, collector>>
      /\ caller[c].pc = "evicting" /\ Moves(c, r) /\ Quota!Delete(key)
      /\ made' = Quota!Deleted(made, key) /\ size' = size - 1
  BY DEF Moves, Quota!Evict, Quota!At, Quota!Goto, Quota!environment
<1>2. /\ CallersFit /\ CallFits(caller[c], DOMAIN made) /\ (Locked(caller[c]) <=> lock = c) /\ RecencyFits
      /\ NULL \notin DOMAIN caller /\ MadeFit(made) /\ CacheFits /\ ReactorFits
  BY DEF QuotaInv, CallersFit
<1>3. Locked(caller[c]) /\ lock = c /\ key \in Quota!Keys
  BY <1>1, <1>2 DEF Locked, CallFits
<1>4. Evicted = {key} /\ \A d \in DOMAIN caller \ {c} : ~Locked(caller[d])
  BY <1>1, <1>2, <1>3, OneEvicts
<1>5. CallFits(r, DOMAIN made) /\ Locked(r) /\ r.w = caller[c].w /\ r.pc = "evict" /\ r.key = key
  BY <1>1, <1>2 DEF CallFits, Locked
<1> HIDE DEF key, r
<1>6. /\ MadeFit(made') /\ DOMAIN made' = DOMAIN made
      /\ \A w \in DOMAIN made :
           /\ made'[w].key = made[w].key /\ made'[w].sync = made[w].sync
           /\ made'[w].refs = made[w].refs + (Kept(cache', garbage', w) - Kept(cache, garbage, w))
      /\ DOMAIN cache' = Quota!Keys /\ \A k \in Quota!Keys : cache'[k] = IF k = key THEN NULL ELSE cache[k]
      /\ CachedKeys' = CachedKeys \ {key}
      /\ garbage' \subseteq DOMAIN made /\ \A w \in garbage' : ~Cached(cache', w)
  BY <1>1, <1>2, <1>3, KeyDeleted
<1>7. CacheFits' /\ ReactorFits'
  BY <1>1, <1>2, <1>6, CacheShrunk, ReactorKept
<1>8. CallersFit'
  <2>1. \A d \in DOMAIN caller \ {c} : (lock' = d <=> lock = d) /\ caller[d].pc # "create"
    BY <1>1, <1>4 DEF Locked
  <2> QED
    BY <1>1, <1>2, <1>3, <1>5, <1>6, <2>1, CallerMoved
<1>9. /\ Evicted' = {} /\ \A d \in DOMAIN caller' : caller'[d].pc \in {"evict", "evicting"} => d = c /\ caller'[d] = r
  BY <1>1, <1>4, <1>5, EvictedMoved
<1>10. RecencyFits'
  <2>1. Quota!Keys' = Quota!Keys /\ (Quota!Lru' <=> Quota!Lru) /\ setup.lru \in Nat /\ setup' = setup
    BY <1>1, KeysKept DEF Quota!Lru, QuotaInv, QuotasFit
  <2> SUFFICES ASSUME Quota!Lru PROVE RecencyFits'
    BY <2>1 DEF RecencyFits
  <2>2. /\ recent \in Seq(Quota!Keys) /\ Quota!IsInjective(recent) /\ Quota!ToSet(recent) = CachedKeys \ {key} /\ key \in CachedKeys
        /\ size \in Int /\ size = setup.lru + 1 /\ IsFiniteSet(CachedKeys) /\ Cardinality(CachedKeys) <= size
    BY <1>1, <1>2, <1>4, <2>1 DEF RecencyFits
  <2>3. recent' = Quota!Without(recent, key)
    BY <1>1 DEF Quota!Delete
  <2>4. /\ recent' \in Seq(Quota!Keys) /\ Quota!IsInjective(recent')
        /\ Quota!ToSet(recent') = CachedKeys \ {key}
    BY <2>2, <2>3, RecencyWithout
  <2>5. Quota!IsInjective(recent)' /\ Quota!ToSet(recent)' = CachedKeys' \ Evicted'
    BY <1>6, <1>9, <2>4 DEF Quota!IsInjective, Quota!ToSet
  <2>6. IsFiniteSet(CachedKeys') /\ Cardinality(CachedKeys') = Cardinality(CachedKeys) - 1 /\ Cardinality(CachedKeys) \in Nat
    BY <1>6, <2>2, FS_RemoveElement, FS_CardinalityType
  <2>7. size' \in Int /\ size' <= setup'.lru /\ Cardinality(CachedKeys') <= size'
    BY <1>1, <2>1, <2>2, <2>6
  <2>8. \A d \in DOMAIN caller' : caller'[d].pc # "evicting"
    BY <1>5, <1>9
  <2>9. ~(size' > setup'.lru)
    BY <2>1, <2>7
  <2> QED
    BY <1>9, <2>1, <2>4, <2>5, <2>6, <2>7, <2>8, <2>9 DEF RecencyFits
<1>11. RefsAdd
  BY <1>2, RefsMean DEF QuotaInv
<1>12. ASSUME NEW w \in DOMAIN made
       PROVE  made'[w].refs = Books(cache', garbage', collector', reactor', w) + (IF made'[w].sync THEN 1 ELSE 0) + Users(caller', w)
  <2> DEFINE k == Kept(cache, garbage, w)
             l == Kept(cache', garbage', w)
             h == Held(collector, reactor, w)
             d == IF caller[c].w = w THEN 1 ELSE 0
             s == IF made[w].sync THEN 1 ELSE 0
             u == Users(caller, w)
             x == Users(caller', w)
  <2>1. made[w].refs = (k + h) + s + u /\ (IF made'[w].sync THEN 1 ELSE 0) = s
    BY <1>6, <1>11 DEF RefsAdd, Books
  <2>2. made'[w].refs = made[w].refs + (l - k) /\ Held(collector', reactor', w) = h
    BY <1>1, <1>6
  <2>3. u \in Nat /\ x = u - d + d
    BY <1>1, <1>2, <1>5, UsersMoved
  <2>4. k \in Nat /\ l \in Nat /\ h \in Nat /\ d \in {0, 1} /\ s \in {0, 1}
    BY KeptHeldNat
  <2> HIDE DEF k, l, h, d, s, u, x
  <2>5. made'[w].refs = (l + h) + s + x
    BY <2>1, <2>2, <2>3, <2>4
  <2> QED
    BY <2>1, <2>2, <2>5 DEF l, x, Books
<1> QED
  BY <1>1, <1>6, <1>7, <1>8, <1>10, <1>12, QuotaKept DEF QuotaInv

FreshWindow(x) == DOMAIN x = QuotaFields /\ x.refs \in Int /\ x.key \in Quota!Keys
Adds(vs, ws, x) == vs = Append(ws, x)
Grown(vs, ws, x) ==
  /\ DOMAIN vs = DOMAIN ws \cup {Len(ws) + 1}
  /\ vs[Len(ws) + 1] = x /\ \A i \in DOMAIN ws : vs[i] = ws[i]
LEMMA MadeAdded ==
  ASSUME NEW ws, MadeFit(ws), NEW x, FreshWindow(x), NEW vs, Adds(vs, ws, x)
  PROVE  MadeFit(vs) /\ Grown(vs, ws, x)
<1> DEFINE S == {ws[i] : i \in DOMAIN ws} \cup {x}
           n == Len(ws)
<1>1. ws \in Seq({ws[i] : i \in DOMAIN ws}) /\ n \in Nat /\ DOMAIN ws = 1..n
  BY MadeLen
<1>2. ws \in Seq(S) /\ x \in S
  BY <1>1
<1> HIDE DEF S
<1>3. vs \in Seq(S) /\ Len(vs) = n + 1 /\ vs[n + 1] = x /\ \A i \in 1..n : vs[i] = ws[i]
  BY <1>2, AppendProperties DEF Adds
<1>4. DOMAIN vs = 1..(n + 1) /\ vs = [i \in 1..(n + 1) |-> vs[i]]
  <2>1. DOMAIN vs = 1..Len(vs) /\ vs \in [1..Len(vs) -> S]
    BY <1>3, LenProperties
  <2> QED
    BY <1>3, <2>1, Zenon
<1>5. n + 1 \in Nat /\ DOMAIN vs = DOMAIN ws \cup {n + 1} /\ n + 1 \notin DOMAIN ws
  BY <1>1, <1>4
<1>6. \A i \in DOMAIN vs : DOMAIN vs[i] = QuotaFields /\ vs[i].refs \in Int /\ vs[i].key \in Quota!Keys
  BY <1>1, <1>3, <1>5 DEF MadeFit, FreshWindow
<1>7. MadeFit(vs)
  BY <1>3, <1>4, <1>5, <1>6 DEF MadeFit
<1> QED
  BY <1>1, <1>3, <1>5, <1>7 DEF Grown

(* The new window, with the references of the cache, of the call and of its *)
(* sync task; the one it replaces loses the reference of the call.          *)
LEMMA QuotaCreated ==
  ASSUME QuotasFit, QuotaInv, NEW c \in DOMAIN caller, Quota!Create(c)
  PROVE  QuotaInv'
<1> DEFINE key == caller[c].key
           rule == caller[c].rule
           v == caller[c].w
           n == Len(made) + 1
           ws == Quota!Marked(made, v)
           y == [Quota!RateLimitWindow(key, rule) EXCEPT !.refs = @ + 1]
           r == [caller[c] EXCEPT !.pc = "evict", !.w = n]
<1>1. /\ UNCHANGED <<setup, version, lock, reactor, collector>>
      /\ caller[c].pc = "create" /\ Moves(c, r) /\ made' = Append(ws, y) /\ Quota!Update(key, n)
  BY DEF Moves, Quota!Create, Quota!At, Quota!environment
<1>2. /\ CallersFit /\ CallFits(caller[c], DOMAIN made) /\ (Locked(caller[c]) <=> lock = c) /\ RecencyFits
      /\ NULL \notin DOMAIN caller /\ MadeFit(made) /\ CacheFits /\ ReactorFits
  BY DEF QuotaInv, CallersFit
<1>3. /\ Locked(caller[c]) /\ lock = c /\ key \in Quota!Keys /\ cache[key] = NULL /\ v \in DOMAIN made \cup {NULL}
      /\ NULL \notin DOMAIN made
  BY <1>1, <1>2, NullNoWindow DEF Locked, CallFits, CallersFit
<1>4. Len(made) \in Nat /\ DOMAIN made = 1..Len(made)
  BY <1>2, MadeLen
<1>5. n \in Nat /\ n \notin DOMAIN made /\ n # NULL
  BY <1>4 DEF QuotasFit
<1>6. Evicted = {} /\ \A d \in DOMAIN caller \ {c} : ~Locked(caller[d])
  BY <1>1, <1>2, <1>3, OneEvicts
<1>7. DOMAIN r = {"pc", "rule", "key", "w"} /\ Locked(r) /\ r.w = n /\ r.pc = "evict" /\ r.key = key
  BY <1>2 DEF CallFits, Locked
<1>8. /\ DOMAIN y = QuotaFields /\ y.key = key /\ y.sync = rule.global /\ y.refs = IF rule.global THEN 3 ELSE 2
  BY DEF QuotaFields, Quota!RateLimitWindow
<1> HIDE DEF key, rule, v, y, r
<1>9. /\ MadeFit(ws) /\ DOMAIN ws = DOMAIN made /\ Len(ws) = Len(made)
      /\ \A i \in DOMAIN made : /\ ws[i].key = made[i].key /\ ws[i].sync = made[i].sync
                                /\ ws[i].refs = made[i].refs - (IF i = v THEN 1 ELSE 0)
  <2>1. \A i \in DOMAIN made : DOMAIN made[i] = QuotaFields /\ made[i].refs \in Int
    BY <1>2 DEF MadeFit
  <2>2. CASE v = NULL
    <3>1. ws = made
      BY <2>2 DEF Quota!Marked
    <3> HIDE DEF ws
    <3> QED
      BY <1>2, <1>3, <2>1, <2>2, <3>1
  <2>3. CASE v # NULL
    <3> DEFINE x == [made[v] EXCEPT !.deleted = TRUE]
               xs == [made EXCEPT ![v] = x]
    <3>1. v \in DOMAIN made /\ ws = Quota!DecrementRef(xs, v)
      BY <1>3, <2>3 DEF Quota!Marked
    <3>2. DOMAIN x = QuotaFields /\ x.refs = made[v].refs /\ x.key = made[v].key /\ x.sync = made[v].sync /\ x.refs \in Int
      BY <2>1, <3>1 DEF QuotaFields
    <3> HIDE DEF x
    <3>3. MadeFit(xs) /\ Len(xs) = Len(made) /\ DOMAIN xs = DOMAIN made /\ \A w \in DOMAIN made : xs[w] = IF w = v THEN x ELSE made[w]
      BY <1>2, <3>1, <3>2, MadeChanged
    <3> HIDE DEF xs, ws
    <3>4. /\ MadeFit(ws) /\ Len(ws) = Len(made) /\ DOMAIN ws = DOMAIN made
          /\ \A i \in DOMAIN made : /\ ws[i].key = xs[i].key /\ ws[i].sync = xs[i].sync
                                    /\ ws[i].refs = xs[i].refs - (IF i = v THEN 1 ELSE 0)
      BY <3>1, <3>3, RefGiven
    <3>5. \A i \in DOMAIN made : xs[i].key = made[i].key /\ xs[i].sync = made[i].sync /\ xs[i].refs = made[i].refs
      BY <3>2, <3>3
    <3> QED
      BY <3>4, <3>5
  <2> QED
    BY <2>2, <2>3
<1> HIDE DEF ws
<1>10. /\ MadeFit(made') /\ DOMAIN made' = DOMAIN made \cup {n} /\ made'[n] = y
       /\ \A i \in DOMAIN made : made'[i] = ws[i]
  <2>1. FreshWindow(y)
    BY <1>3, <1>8 DEF FreshWindow
  <2>2. Adds(made', ws, y)
    BY <1>1 DEF Adds
  <2>3. MadeFit(ws)
    BY <1>9
  <2>5. MadeFit(made') /\ Grown(made', ws, y)
    BY <2>1, <2>2, <2>3, MadeAdded, Zenon
  <2>4. Len(ws) + 1 = n
    BY <1>9
  <2> QED
    BY <1>9, <2>4, <2>5 DEF Grown
<1>11. /\ cache' = [cache EXCEPT ![key] = n] /\ garbage' = garbage
       /\ recent' = (IF Quota!Lru THEN Append(recent, key) ELSE recent)
       /\ size' = IF Quota!Lru THEN size + 1 ELSE size
  BY <1>1 DEF Quota!Update, Quota!AddToEnd
<1> HIDE DEF n
<1>12. /\ DOMAIN cache' = Quota!Keys /\ Quota!Keys' = Quota!Keys
       /\ \A k \in Quota!Keys : cache'[k] = IF k = key THEN n ELSE cache[k]
  BY <1>1, <1>2, <1>11, KeysKept DEF CacheFits
<1>13. CachedKeys' = CachedKeys \cup {key} /\ key \notin CachedKeys
  BY <1>3, <1>5, <1>12 DEF CachedKeys
<1>14. /\ \A w \in DOMAIN made : Cached(cache', w) <=> Cached(cache, w)
       /\ Cached(cache', n)
  BY <1>3, <1>5, <1>12 DEF Cached
<1>15. CacheFits'
  <2>1. ASSUME NEW k \in CachedKeys' PROVE cache'[k] \in DOMAIN made' /\ made'[cache'[k]].key = k
    <3>1. CASE k = key
      BY <1>3, <1>8, <1>10, <1>12, <3>1
    <3>2. CASE k # key
      <4>1. k \in CachedKeys /\ k \in Quota!Keys
        BY <1>13, <3>2 DEF CachedKeys
      <4>2. cache'[k] = cache[k] /\ cache[k] \in DOMAIN made /\ made[cache[k]].key = k
        BY <1>2, <1>12, <3>2, <4>1 DEF CacheFits
      <4> QED
        BY <1>9, <1>10, <4>2
    <3> QED
      BY <3>1, <3>2
  <2>2. garbage' \subseteq DOMAIN made' /\ \A w \in garbage' : ~Cached(cache', w)
    BY <1>2, <1>10, <1>11, <1>14 DEF CacheFits
  <2>3. \A w : Cached(cache, w)' <=> Cached(cache', w)
    BY <1>12 DEF Cached
  <2> QED
    BY <1>12, <2>1, <2>2, <2>3 DEF CacheFits
<1>16. ReactorFits'
  BY <1>1, <1>2, <1>10, ReactorKept
<1>17. CallersFit'
  <2>1. \A d \in DOMAIN caller \ {c} : (lock' = d <=> lock = d) /\ caller[d].pc # "create"
    BY <1>1, <1>6 DEF Locked
  <2>2. CallFits(r, DOMAIN made')
    BY <1>3, <1>7, <1>10 DEF CallFits
  <2>3. DOMAIN made \subseteq DOMAIN made'
    BY <1>10
  <2> QED
    BY <1>1, <1>2, <1>3, <1>7, <2>1, <2>2, <2>3, CallerMoved
<1>18. Evicted' = {} /\ \A d \in DOMAIN caller' : caller'[d].pc \in {"evict", "evicting"} => d = c /\ caller'[d] = r
  BY <1>1, <1>6, <1>7, EvictedMoved
<1>19. c \in DOMAIN caller' /\ caller'[c] = r
  BY <1>1 DEF Moves
<1>20. RecencyFits'
  <2>1. (Quota!Lru' <=> Quota!Lru) /\ setup.lru \in Nat /\ setup' = setup
    BY <1>1 DEF Quota!Lru, QuotaInv, QuotasFit
  <2> SUFFICES ASSUME Quota!Lru PROVE RecencyFits'
    BY <2>1 DEF RecencyFits
  <2>2. \A d \in DOMAIN caller : caller[d].pc \notin {"evict", "evicting"}
    BY <1>1, <1>6 DEF Locked
  <2>3. /\ recent \in Seq(Quota!Keys) /\ Quota!IsInjective(recent) /\ Quota!ToSet(recent) = CachedKeys
        /\ size \in Int /\ size <= setup.lru /\ IsFiniteSet(CachedKeys) /\ Cardinality(CachedKeys) <= size
    BY <1>2, <1>6, <2>1, <2>2 DEF RecencyFits
  <2>4. recent' = Append(recent, key) /\ size' = size + 1
    BY <1>11
  <2>5. /\ recent' \in Seq(Quota!Keys) /\ Quota!IsInjective(recent')
        /\ Quota!ToSet(recent') = CachedKeys \cup {key}
    BY <1>3, <1>13, <2>3, <2>4, RecencyAdded
  <2>6. Quota!IsInjective(recent)' /\ Quota!ToSet(recent)' = CachedKeys' \ Evicted'
    BY <1>13, <1>18, <2>5 DEF Quota!IsInjective, Quota!ToSet
  <2>7. IsFiniteSet(CachedKeys') /\ Cardinality(CachedKeys') = Cardinality(CachedKeys) + 1 /\ Cardinality(CachedKeys) \in Nat
    BY <1>13, <2>3, FS_AddElement, FS_CardinalityType
  <2>8. size' \in Int /\ (size' <= setup'.lru \/ size' = setup'.lru + 1) /\ Cardinality(CachedKeys') <= size'
    BY <2>1, <2>3, <2>4, <2>7
  <2>9. \A d \in DOMAIN caller' : caller'[d].pc # "evicting"
    BY <1>7, <1>18
  <2>10. CachedKeys' # {}
    BY <1>13
  <2>11. caller'[c].pc \in {"evict", "evicting"}
    BY <1>7, <1>19
  <2> QED
    BY <1>12, <1>18, <1>19, <2>1, <2>5, <2>6, <2>7, <2>8, <2>9, <2>10, <2>11 DEF RecencyFits
<1>21. RefsAdd
  BY <1>2, RefsMean DEF QuotaInv
<1>22. ASSUME NEW w \in DOMAIN made
       PROVE  made'[w].refs = Books(cache', garbage', collector', reactor', w) + (IF made'[w].sync THEN 1 ELSE 0) + Users(caller', w)
  <2> DEFINE k == Kept(cache, garbage, w)
             h == Held(collector, reactor, w)
             d == IF w = v THEN 1 ELSE 0
             s == IF made[w].sync THEN 1 ELSE 0
             u == Users(caller, w)
             x == Users(caller', w)
  <2>1. made[w].refs = (k + h) + s + u /\ (IF made'[w].sync THEN 1 ELSE 0) = s
    BY <1>9, <1>10, <1>21 DEF RefsAdd, Books
  <2>2. made'[w].refs = made[w].refs - d
    BY <1>9, <1>10
  <2>3. Held(collector', reactor', w) = h /\ Kept(cache', garbage', w) = k
    BY <1>1, <1>11, <1>14 DEF Kept
  <2>4. u \in Nat /\ x = u - d
    <3>1. u \in Nat /\ x = u - (IF caller[c].w = w THEN 1 ELSE 0) + (IF r.w = w THEN 1 ELSE 0)
      BY <1>1, <1>2, UsersMoved
    <3> HIDE DEF u, x
    <3>2. x = u - d + 0
      BY <1>5, <1>7, <3>1 DEF v
    <3>3. d \in {0, 1}
      OBVIOUS
    <3> HIDE DEF d
    <3> QED
      BY <3>1, <3>2, <3>3
  <2>5. k \in Nat /\ h \in Nat /\ d \in {0, 1} /\ s \in {0, 1}
    BY KeptHeldNat
  <2> HIDE DEF k, h, d, s, u, x
  <2>6. made'[w].refs = (k + h) + s + x
    BY <2>1, <2>2, <2>4, <2>5
  <2> QED
    BY <2>1, <2>3, <2>6 DEF x, Books
<1>23. made'[n].refs = Books(cache', garbage', collector', reactor', n) + (IF made'[n].sync THEN 1 ELSE 0) + Users(caller', n)
  <2>1. Kept(cache', garbage', n) = 1
    BY <1>2, <1>5, <1>11, <1>14 DEF Kept, CacheFits
  <2>2. Held(collector', reactor', n) = 0
    BY <1>1, <1>2, <1>5 DEF Held, ReactorFits
  <2>3. Users(caller', n) = 1
    <3>1. Users(caller', n) = Users(caller, n) - (IF caller[c].w = n THEN 1 ELSE 0) + (IF r.w = n THEN 1 ELSE 0)
      BY <1>1, <1>2, UsersMoved
    <3>2. \A d \in DOMAIN caller : caller[d].w # n
      BY <1>2, <1>5 DEF CallersFit, CallFits
    <3>3. Users(caller, n) = 0
      <4>1. {d \in DOMAIN caller : caller[d].w = n} = {}
        BY <3>2
      <4> QED
        BY <4>1, QuotaCardinality, FS_EmptySet DEF Users
    <3> QED
      BY <1>7, <3>1, <3>2, <3>3
  <2>4. made'[n].refs = (IF made'[n].sync THEN 1 ELSE 0) + 2
    BY <1>8, <1>10
  <2>5. (IF made'[n].sync THEN 1 ELSE 0) \in {0, 1}
    OBVIOUS
  <2> DEFINE s == IF made'[n].sync THEN 1 ELSE 0
  <2> HIDE DEF s
  <2>6. made'[n].refs = (1 + 0) + s + 1
    BY <2>4, <2>5 DEF s
  <2> QED
    BY <2>1, <2>2, <2>3, <2>6 DEF s, Books
<1> QED
  BY <1>1, <1>10, <1>15, <1>16, <1>17, <1>20, <1>22, <1>23, QuotaKept DEF QuotaInv

LEMMA QuotaStep ==
  ASSUME QuotasFit, QuotaInv, [Quota!Next]_(Quota!vars)
  PROVE  QuotaInv'
<1>1. CASE UNCHANGED Quota!vars
  <2>1. UNCHANGED <<setup, version, made, cache, recent, size, garbage, lock, caller, reactor, collector>>
    BY <1>1 DEF Quota!vars
  <2> QED
    BY <2>1, QuotaQuiet DEF QuotaInv
<1>2. ASSUME NEW c \in DOMAIN caller, Quota!GetQuota(c) \/ Quota!InitWindow(c) PROVE QuotaInv'
  <2>1. CASE \E request \in setup.requests : Quota!PrepareQuotaInfo(c, request)
    BY <2>1, QuotaPrepared
  <2>2. CASE Quota!Lookup(c)
    <3>1. caller[c].pc = "lookup" /\ UNCHANGED <<setup, version, cache, size, garbage, lock, reactor, collector>>
      BY <2>2 DEF Quota!Lookup, Quota!At, Quota!environment
    <3> QED
      BY <2>2, <3>1, QuotaFound, QuotaMissed
  <2>3. CASE Quota!LookupAgain(c)
    <3>1. caller[c].pc = "lock" /\ Quota!Get(c) /\ UNCHANGED <<setup, version, cache, size, garbage, lock, reactor, collector>>
      BY <2>3 DEF Quota!LookupAgain, Quota!At, Quota!environment
    <3> QED
      BY <3>1, QuotaFound
  <2> QED
    BY <1>2, <2>1, <2>2, <2>3, QuotaDropped, QuotaCreated, QuotaTailed, QuotaEvicted, QuotaUnlocked, QuotaGiven
       DEF Quota!GetQuota, Quota!GetRateLimitWindow
<1>3. ASSUME NEW request \in setup.requests, Quota!UpdateCallResult(request) PROVE QuotaInv'
  <2>1. UNCHANGED <<setup, version, made, cache, size, garbage, lock, caller, reactor, collector>> /\ \E k : recent' = Quota!MoveToEnd(k)
    BY <1>3 DEF Quota!UpdateCallResult, Quota!environment
  <2> QED
    BY <2>1, QuotaQuiet DEF QuotaInv
<1>4. CASE Quota!NewRules \/ Quota!Tick
  <2>1. UNCHANGED <<setup, made, cache, recent, size, garbage, lock, caller, reactor, collector>>
    BY <1>4 DEF Quota!NewRules, Quota!Tick, Quota!map
  <2>2. version' \in DOMAIN setup.rules
    <3>1. version \in DOMAIN setup.rules /\ setup.rules \in Seq({setup.rules[i] : i \in DOMAIN setup.rules})
      BY DEF QuotaInv, QuotasFit
    <3>2. DOMAIN setup.rules = 1..Len(setup.rules) /\ Len(setup.rules) \in Nat
      BY <3>1
    <3> QED
      BY <1>4, <3>1, <3>2 DEF Quota!NewRules, Quota!Tick
  <2> QED
    BY <2>1, <2>2, QuotaQuiet
<1> QED
  BY <1>1, <1>2, <1>3, <1>4, QuotaClearing, QuotaChecked, QuotaMarked, QuotaDeleted, QuotaCleared, QuotaSynced,
     QuotaCollects, QuotaCollected DEF Quota!Next

LEMMA QuotaStart == QuotasFit /\ Quota!Init => QuotaInv
<1> SUFFICES ASSUME QuotasFit, Quota!Init PROVE QuotaInv
  OBVIOUS
<1>1. /\ setup \in QuotaSetups /\ version = 1 /\ made = <<>> /\ cache = [key \in Quota!Keys |-> NULL] /\ recent = <<>> /\ size = 0
      /\ garbage = {} /\ lock = NULL /\ caller = [c \in setup.callers |-> Quota!Idle]
      /\ reactor = [pc |-> "idle", todo |-> {}, w |-> NULL] /\ collector = {}
  BY DEF Quota!Init, Quota!LruHashMap
<1>2. version \in DOMAIN setup.rules /\ IsFiniteSet(setup.callers) /\ NULL \notin setup.callers /\ setup.lru \in Nat
  <2>1. setup.rules \in Seq({setup.rules[i] : i \in DOMAIN setup.rules}) /\ setup.rules # <<>>
    BY <1>1 DEF QuotasFit
  <2>2. 1 \in DOMAIN setup.rules
    BY <2>1
  <2> QED
    BY <1>1, <2>2 DEF QuotasFit
<1>3. MadeFit(made) /\ CacheFits /\ ReactorFits /\ CachedKeys = {}
  BY <1>1 DEF MadeFit, CacheFits, CachedKeys, ReactorFits
<1>4. CallersFit
  BY <1>1, <1>2 DEF CallersFit, CallFits, Locked, Quota!Idle
<1>5. Evicted = {}
  BY <1>1 DEF Evicted, Quota!Idle
<1>6. RecencyFits
  <2>1. recent \in Seq(Quota!Keys) /\ Quota!IsInjective(recent) /\ Quota!ToSet(recent) = {}
    BY <1>1 DEF Quota!IsInjective, Quota!ToSet
  <2>2. IsFiniteSet(CachedKeys) /\ Cardinality(CachedKeys) = 0
    BY <1>3, FS_EmptySet
  <2>3. \A c \in DOMAIN caller : caller[c].pc = "idle"
    BY <1>1 DEF Quota!Idle
  <2> QED
    BY <1>1, <1>2, <1>3, <1>5, <2>1, <2>2, <2>3 DEF RecencyFits
<1>7. Quota!WindowRefs
  BY <1>1 DEF Quota!WindowRefs
<1> QED
  BY <1>1, <1>2, <1>3, <1>4, <1>6, <1>7 DEF QuotaInv

LEMMA QuotaSafe == QuotasFit /\ QuotaInv => Quota!WindowCacheSound
<1> SUFFICES ASSUME QuotasFit, QuotaInv PROVE Quota!LruBounded
  BY DEF QuotaInv, Quota!WindowCacheSound
<1> SUFFICES ASSUME Quota!Lru
             PROVE  /\ lock = NULL => Quota!Cardinality(CachedKeys) <= setup.lru /\ Quota!ToSet(recent) = CachedKeys
                    /\ Quota!Cardinality(CachedKeys) <= size
                    /\ Quota!IsInjective(recent)
  BY DEF Quota!LruBounded, CachedKeys
<1>1. /\ Quota!IsInjective(recent) /\ Quota!ToSet(recent) = CachedKeys \ Evicted /\ size \in Int
      /\ IsFiniteSet(CachedKeys) /\ Cardinality(CachedKeys) <= size
  BY DEF QuotaInv, RecencyFits
<1>2. Cardinality(CachedKeys) \in Nat /\ setup.lru \in Nat
  BY <1>1, FS_CardinalityType DEF QuotaInv, QuotasFit
<1>3. ASSUME lock = NULL PROVE Evicted = {} /\ size <= setup.lru
  <2>1. \A c \in DOMAIN caller : caller[c].pc \notin {"evict", "evicting"}
    BY <1>3 DEF QuotaInv, CallersFit, Locked
  <2> QED
    BY <2>1 DEF QuotaInv, RecencyFits, Evicted
<1> QED
  BY <1>1, <1>2, <1>3, QuotaCardinality

(***************************************************************************)
(* A rate limit window has exactly as many references as there are holders *)
(* of it: the cache's table and its garbage, the reactor's clearing and    *)
(* collecting, its sync task and the calls that use it.  So none is freed  *)
(* while one holds it and none is forgotten, whatever calls, evictions,    *)
(* expiries and new rules interleave.  The cache never counts less than it *)
(* keeps, and with nobody inside it keeps at most its size, each key once  *)
(* in the order of use.                                                    *)
(***************************************************************************)
THEOREM WindowCacheAlwaysSound == Spec => []WindowCacheSound
<1> DEFINE Inv == part = "quota" => QuotaInv
<1>1. Init => Inv
  BY QuotaStart, PartInit, QuotasAssumption
<1>2. Inv /\ [Next]_all => Inv'
  BY QuotaStep, PartStep, QuotasAssumption
<1>3. Inv => WindowCacheSound
  BY QuotaSafe, QuotasAssumption DEF WindowCacheSound
<1> QED
  BY <1>1, <1>2, <1>3, PTL DEF Spec
=============================================================================
