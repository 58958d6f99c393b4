------------------------------- MODULE Monitor -------------------------------
(***************************************************************************)
(* What the SDK tells the monitor server (polaris/monitor and              *)
(* polaris/plugin/stat_reporter).  Any thread counts the calls it made in  *)
(* a map of its own, without a lock; the monitor thread takes the maps     *)
(* away, waits until no thread can still write to them, adds them up and   *)
(* sends the sums.  Seven more reports are collected and sent by the same  *)
(* thread, each by a chain of timers: a report is either waiting for its   *)
(* period to end, or for its answer under a timeout check.  The history of *)
(* the cached data (ServiceRecord) numbers every revision.                 *)
(*                                                                         *)
(* The atomics are modelled as sequentially consistent.                    *)
(***************************************************************************)
EXTENDS Integers, FiniteSets, Sequences, FiniteSetsExt

CONSTANTS NULL,      \* no TLS, no map, no revision
          Setups     \* the instances: threads, kinds of calls, reports, events, ticks

VARIABLES setup,     \* the instance, chosen once
          now,       \* the coarse steady clock; 0 is never read
          worker,    \* the map a thread that reports a call has loaded
          tls,       \* tls_stat_set_: the TlsInstanceStat of each thread
          statMap,   \* the ServiceStat objects that exist
          prepare,   \* perpare_time_, perpare_data_ and the collector's step
          gathered,  \* what CollectData has added up, ever
          counted,   \* what the threads have counted, ever
          source,    \* what the other reports will find
          record,    \* ServiceRecord: ids and the pending history of a service
          cached,    \* the service data the local registry holds
          report     \* the ReportBase objects

monVars == <<setup, now, worker, tls, statMap, prepare, gathered, counted, source, record, cached, report>>
statVars == <<worker, tls, statMap, prepare, gathered, counted>>

kMaxTime == setup.ticks + 1

(***************************************************************************)
(* The calls, by what their report tells apart: a success or a failure of  *)
(* an instance the registry knows, a call of an instance it has dropped.   *)
(***************************************************************************)
InstanceCodeStat == {"ok", "error", "gone"}
NoCalls == [c \in InstanceCodeStat |-> 0]
Plus(a, b) == [c \in InstanceCodeStat |-> a[c] + b[c]]

MapIds == 1..(2 * Cardinality(setup.threads))
Held == {worker[t].map : t \in setup.threads} \cup prepare.data
NewMap(taken) == CHOOSE m \in MapIds : m \notin DOMAIN statMap \cup Held \cup taken

TlsInstanceStat(m) == [map |-> m, access |-> now, active |-> TRUE]

Tick ==
    /\ now < setup.ticks
    /\ now' = now + 1
    /\ UNCHANGED <<setup, statVars, source, record, cached, report>>

----------------------------------------------------------------------------
(***************************************************************************)
(* ReportStat in a thread: publish the time of access, load the map, count *)
(* and publish that the map is no longer used.                             *)
(***************************************************************************)
CreateTlsStat(t) ==
    LET m == NewMap({}) IN
    /\ tls[t] = NULL
    /\ tls' = [tls EXCEPT ![t] = TlsInstanceStat(m)]
    /\ statMap' = [i \in DOMAIN statMap \cup {m} |-> IF i = m THEN NoCalls ELSE statMap[i]]

EnterStat(t) ==
    /\ worker[t].step = "out"
    /\ FoldSet(LAMBDA c, s : s + counted[c], 0, InstanceCodeStat) < setup.calls
    /\ \/ CreateTlsStat(t)
       \/ /\ tls[t] # NULL
          /\ tls[t].active
          /\ tls' = [tls EXCEPT ![t].access = now]
          /\ UNCHANGED statMap
    /\ worker' = [worker EXCEPT ![t].step = "entered"]
    /\ UNCHANGED <<setup, now, prepare, gathered, counted, source, record, cached, report>>

LoadMap(t) ==
    /\ worker[t].step = "entered"
    /\ worker' = [worker EXCEPT ![t] = [step |-> "loaded", map |-> tls[t].map]]
    /\ UNCHANGED <<setup, now, tls, statMap, prepare, gathered, counted, source, record, cached, report>>

CountCall(t) ==
    /\ worker[t].step = "loaded"
    /\ worker[t].map \in DOMAIN statMap
    /\ \E c \in InstanceCodeStat :
          /\ statMap' = [statMap EXCEPT ![worker[t].map][c] = @ + 1]
          /\ counted' = [counted EXCEPT ![c] = @ + 1]
    /\ tls' = [tls EXCEPT ![t].access = kMaxTime]
    /\ worker' = [worker EXCEPT ![t] = [step |-> "out", map |-> NULL]]
    /\ UNCHANGED <<setup, now, prepare, gathered, source, record, cached, report>>

\* A thread ends; its TLS stays until the next collection. (A later thread
\* under the same name starts without one.)
OnThreadExit(t) ==
    /\ worker[t].step = "out"
    /\ tls[t] # NULL /\ tls[t].active
    /\ tls' = [tls EXCEPT ![t].active = FALSE]
    /\ UNCHANGED <<setup, now, worker, statMap, prepare, gathered, counted, source, record, cached, report>>

ReportStat(t) == EnterStat(t) \/ LoadMap(t) \/ CountCall(t)

----------------------------------------------------------------------------
(***************************************************************************)
(* The chain of timers of a report.  due and check count the report tasks  *)
(* and the timeout checks in the reactor, wait is the delay of the report  *)
(* task; flag is timeout_check_flag_.                                      *)
(***************************************************************************)
ReportTaskType == {"config", "api", "stat", "cache", "circuit", "set", "limit", "router"}
UnaryReport == {"config"}
StreamReport == ReportTaskType \ UnaryReport

ReportInterval(k) ==
    CASE k \in {"config", "router"} -> 300000
      [] k \in {"api", "stat"} -> 60000
      [] OTHER -> 120000

connect_timeout == 500
message_timeout == 2000
GetMessageTimeout(count) == LET t == message_timeout * (1 + count \div 10) IN IF t > 10000 THEN 10000 ELSE t

ReportBase == [due |-> 0, wait |-> 0, check |-> 0, limit |-> 0, flag |-> FALSE, instance |-> FALSE,
               client |-> FALSE, doomed |-> FALSE, sent |-> 0, succ |-> 0, fail |-> 0]

SetUpTimingReport(r, delay) == [r EXCEPT !.due = @ + 1, !.wait = delay]
CancelTimingTask(r) == [r EXCEPT !.check = @ - 1, !.flag = FALSE]

GetInstance(r) == [r EXCEPT !.instance = TRUE]

\* The instance and the client are given back; the client is deleted by a
\* task, for this may run in a callback of one of its streams.
UpdateCallResult(r) == [r EXCEPT !.instance = FALSE, !.client = FALSE, !.doomed = TRUE]

\* No monitor server is found, connecting fails, or the client is connected.
PrepareGrpcClient(r) ==
    {[ok |-> FALSE, report |-> r],
     [ok |-> FALSE, report |-> UpdateCallResult(GetInstance(r))],
     [ok |-> TRUE, report |-> [GetInstance(r) EXCEPT !.client = TRUE]]}

PerpareStream(r) == PrepareGrpcClient(r)

Await(r, count, timeout) == [r EXCEPT !.sent = count, !.check = @ + 1, !.limit = timeout, !.flag = TRUE]

\* What every report function does with the messages it has built.
SendMessages(k, r, messages) ==
    {IF p.ok THEN Await(p.report, messages, GetMessageTimeout(messages))
             ELSE SetUpTimingReport(p.report, ReportInterval(k)) : p \in PerpareStream(r)}

Send(k, r, messages) ==
    IF messages = 0 THEN {SetUpTimingReport(r, ReportInterval(k))} ELSE SendMessages(k, r, messages)

\* The reactor takes the report task off and runs it. It has run its pending
\* tasks, the deletion of the last client among them, long before.
Fire(k) == [report[k] EXCEPT !.due = @ - 1]
CanFire(k) == k \in setup.reports /\ report[k].due > 0 /\ ~report[k].doomed /\ prepare.step = "idle"

DeferDelete(k) ==
    /\ report[k].doomed
    /\ report' = [report EXCEPT ![k].doomed = FALSE]
    /\ UNCHANGED <<setup, now, statVars, source, record, cached>>

----------------------------------------------------------------------------
(***************************************************************************)
(* The reports                                                             *)
(***************************************************************************)
\* SetupWork runs before the thread starts.
SetupWork == [k \in setup.reports |->
                 SetUpTimingReport(ReportBase, IF k = "config" THEN 10000 ELSE ReportInterval(k))]

ReportSdkConfig ==
    /\ CanFire("config")
    /\ \E p \in PrepareGrpcClient(Fire("config")) :
          report' = [report EXCEPT !["config"] =
                        IF p.ok THEN Await(p.report, 1, message_timeout)
                                ELSE SetUpTimingReport(p.report, ReportInterval("config"))]
    /\ UNCHANGED <<setup, now, statVars, source, record, cached>>

\* Counters by API, return code and delay: exchanged with 0 one by one.
DelayIndex(delay) ==
    CASE delay < 2 -> 0
      [] delay >= 2 /\ delay < 10 -> 1
      [] delay >= 10 /\ delay < 50 -> 2
      [] OTHER -> LET i == delay \div 50 + 2 IN IF i >= 7 THEN 6 ELSE i

GetApiStatistics == Cardinality({c \in DOMAIN source.api : source.api[c] > 0})

Record(c) ==
    /\ "api" \in setup.reports
    /\ source.api[c] < setup.events
    /\ source' = [source EXCEPT !.api[c] = @ + 1]
    /\ UNCHANGED <<setup, now, statVars, record, cached, report>>

ReportSdkApiStat ==
    /\ CanFire("api")
    /\ \E r \in Send("api", Fire("api"), GetApiStatistics) : report' = [report EXCEPT !["api"] = r]
    /\ source' = [source EXCEPT !.api = [c \in DOMAIN @ |-> 0]]
    /\ UNCHANGED <<setup, now, statVars, record, cached>>

\* One message for each kind of outcome of a known instance.
AddInstancesCodeStat(total) == {c \in {"ok", "error"} : total[c] > 0}
BuildServiceStat(total) == Cardinality(AddInstancesCodeStat(total))

\* PerpareReport, first half: every thread gets an empty map for its old one.
SwapMaps ==
    LET live == {t \in setup.threads : tls[t] # NULL}
        stay == {t \in live : tls[t].active}
        fresh == CHOOSE f \in [stay -> MapIds] :
                     /\ \A t \in stay : f[t] \notin DOMAIN statMap \cup Held
                     /\ \A t, u \in stay : t # u => f[t] # f[u]
    IN /\ CanFire("stat")
       /\ prepare.time = 0
       /\ prepare' = [time |-> 0, data |-> {tls[t].map : t \in live}, step |-> "swapped"]
       /\ statMap' = [m \in DOMAIN statMap \cup {fresh[t] : t \in stay} |->
                         IF m \in DOMAIN statMap THEN statMap[m] ELSE NoCalls]
       /\ tls' = [t \in setup.threads |->
                     IF t \in stay THEN [tls[t] EXCEPT !.map = fresh[t]] ELSE NULL]
       /\ UNCHANGED <<setup, now, worker, gathered, counted, source, record, cached, report>>

\* PerpareReport, second half: the time is read after the maps are swapped,
\* and no thread may have entered before it.
QuietSince(time) == \A t \in setup.threads : tls[t] # NULL => tls[t].access >= time
Quiet(time) == \A t \in setup.threads : tls[t] # NULL => tls[t].access > time

CollectData ==
    /\ gathered' = FoldSet(LAMBDA m, s : Plus(s, statMap[m]), gathered, prepare.data)
    /\ statMap' = [m \in DOMAIN statMap \ prepare.data |-> statMap[m]]
    /\ prepare' = [time |-> 0, data |-> {}, step |-> "idle"]

ReportServiceStat ==
    LET time == IF prepare.time = 0 THEN now ELSE prepare.time
        total == FoldSet(LAMBDA m, s : Plus(s, statMap[m]), NoCalls, prepare.data)
    IN /\ \/ prepare.step = "swapped"
          \/ CanFire("stat") /\ prepare.time > 0
       /\ \/ /\ ~Quiet(time)
             /\ prepare' = [prepare EXCEPT !.time = time, !.step = "idle"]
             /\ report' = [report EXCEPT !["stat"] = SetUpTimingReport(Fire("stat"), 100)]
             /\ UNCHANGED <<statMap, gathered>>
          \/ /\ Quiet(time)
             /\ CollectData
             /\ \E r \in IF total = NoCalls
                         THEN {SetUpTimingReport(Fire("stat"), ReportInterval("stat"))}
                         ELSE SendMessages("stat", Fire("stat"), BuildServiceStat(total)) :
                    report' = [report EXCEPT !["stat"] = r]
       /\ UNCHANGED <<setup, now, worker, tls, counted, source, record, cached>>

----------------------------------------------------------------------------
(***************************************************************************)
(* ServiceRecord: the history of the cached data of a service, numbered by *)
(* kind of data.  The registry loads data from disk only when it has none, *)
(* and what it loads and what expires is cached or dropped and recorded    *)
(* under one lock.  The connector's thread stores what the server answers  *)
(* without that lock and records it later: the data may expire in between. *)
(* late says of which kinds this has ever happened; their records then     *)
(* count a revision nobody holds.                                          *)
(***************************************************************************)
ServiceDataType == {"instances", "route"}
ServiceRecordId == [d \in ServiceDataType |-> 1]
Ids == IF record.ids = NULL THEN ServiceRecordId ELSE record.ids
Revision(d, seq, gone) == [type |-> d, seq |-> seq, gone |-> gone]
CanRecord == "cache" \in setup.reports /\ Len(record.history) < setup.events

\* UpdateServiceData in the connector's thread: found, or not found.
UpdateServiceData(d, found) ==
    /\ CanRecord
    /\ record.storing = NULL
    /\ found => Ids[d] < setup.events
    /\ cached' = [cached EXCEPT ![d] = "live"]
    /\ record' = [record EXCEPT !.storing = [type |-> d, found |-> found]]
    /\ UNCHANGED <<setup, now, statVars, source, report>>

ServiceDataUpdate(d, fromDisk) ==
    /\ CanRecord
    /\ IF fromDisk THEN cached[d] = "none" ELSE record.storing = [type |-> d, found |-> TRUE]
    /\ cached' = [cached EXCEPT ![d] = IF fromDisk THEN "live" ELSE @]
    /\ LET ids == IF fromDisk THEN Ids ELSE [Ids EXCEPT ![d] = @ + 1] IN
       record' = [record EXCEPT !.ids = ids, !.info = TRUE, !.storing = IF fromDisk THEN @ ELSE NULL,
                                !.history = Append(@, Revision(d, ids[d], FALSE))]
    /\ UNCHANGED <<setup, now, statVars, source, report>>

\* The data expires, or the server did not find the service.
Drop(d, expired) ==
    /\ CanRecord
    /\ expired \/ record.storing = [type |-> d, found |-> FALSE]
    /\ cached' = [cached EXCEPT ![d] = IF expired THEN "none" ELSE @]
    /\ UNCHANGED <<setup, now, statVars, source, report>>

Dropped(d, expired, ids) ==
    [ids |-> IF ids = ServiceRecordId THEN NULL ELSE ids, info |-> TRUE,
     history |-> Append(record.history, Revision(d, Ids[d] + 1, TRUE)),
     storing |-> IF expired THEN record.storing ELSE NULL,
     late |-> IF expired /\ record.storing # NULL /\ record.storing.type = d THEN record.late \cup {d} ELSE record.late]


ServiceDataDelete(d, expired) ==
    /\ Drop(d, expired)
    /\ record' = Dropped(d, expired, [Ids EXCEPT ![d] = 1])

\* Data of a kind that is not recorded creates the entries all the same.
UnsupportedUpdate ==
    /\ CanRecord
    /\ record' = [record EXCEPT !.ids = Ids, !.info = TRUE]
    /\ UNCHANGED <<setup, now, statVars, source, cached, report>>

TakeServiceInfo == record' = [record EXCEPT !.info = FALSE, !.history = <<>>]

ReportServiceCache ==
    /\ CanFire("cache")
    /\ \E r \in Send("cache", Fire("cache"), IF record.info THEN 1 ELSE 0) :
          report' = [report EXCEPT !["cache"] = r]
    /\ TakeServiceInfo
    /\ UNCHANGED <<setup, now, statVars, source, cached>>

----------------------------------------------------------------------------
(***************************************************************************)
(* Changes of circuit breakers, of instances and of sets; swapped away     *)
(* under the lock.  A change of a set is recorded under the lock it was    *)
(* made under.  A change of an instance is recorded after the chain's lock *)
(* is released: the changes of two callers may be recorded in the other    *)
(* order than they were made.                                              *)
(***************************************************************************)
CircuitStatusToChange(from, to) ==
    CASE from = "close" /\ to = "open" -> "CloseToOpen"
      [] from = "open" /\ to = "half" -> "OpenToHalfOpen"
      [] from = "half" /\ to = "open" -> "HalfOpenToOpen"
      [] from = "half" /\ to = "close" -> "HalfOpenToClose"
      [] OTHER -> "Unknown"

\* The breaker of an instance: an open one whose detection succeeds, or that is
\* not used any more, may close at once. The breaker of a set may be preserved.
NextStatus(s) ==
    CASE s = "close" -> {"open"}
      [] s = "open" -> {"half", "close"}
      [] s = "half" -> {"open", "close"}
NextSetStatus(s) ==
    CASE s = "close" -> {"open", "preserved"}
      [] s = "open" -> {"half"}
      [] s = "half" -> {"open", "close"}
      [] s = "preserved" -> {"open", "close"}

CircuitIds == {"i1", "i2"}
Callers == {"c1", "c2"}
NoChanges == [id \in CircuitIds |-> <<>>]

TranslateStatus(c, id) ==
    /\ "circuit" \in setup.reports
    /\ source.made[c] = NULL
    /\ Len(source.circuit[id]) < setup.events
    /\ \E to \in NextStatus(source.status.circuit[id]) :
          source' = [source EXCEPT !.made[c] = [id |-> id, from |-> source.status.circuit[id], to |-> to],
                                   !.status.circuit[id] = to]
    /\ UNCHANGED <<setup, now, statVars, record, cached, report>>

InstanceCircuitBreak(c) ==
    /\ source.made[c] # NULL
    /\ LET m == source.made[c] IN
       source' = [source EXCEPT !.made[c] = NULL, !.circuit[m.id] = Append(@, [from |-> m.from, to |-> m.to])]
    /\ UNCHANGED <<setup, now, statVars, record, cached, report>>

SetCircuitBreak(id) ==
    /\ "set" \in setup.reports
    /\ Len(source.set[id]) < setup.events
    /\ \E to \in NextSetStatus(source.status.set[id]) :
          source' = [source EXCEPT !.set[id] = Append(@, [from |-> source.status.set[id], to |-> to]),
                                   !.status.set[id] = to]
    /\ UNCHANGED <<setup, now, statVars, record, cached, report>>

InstanceRecoverAll ==
    /\ "circuit" \in setup.reports
    /\ source' = [source EXCEPT !.recover = TRUE]
    /\ UNCHANGED <<setup, now, statVars, record, cached, report>>

\* The changes of each instance, or of each set and rule, make one history.
BuildHistory(changes) == [i \in DOMAIN changes |-> CircuitStatusToChange(changes[i].from, changes[i].to)]

\* The instances the registry no longer knows are left out of the message.
BuildServiceCircuitStat(changes, known) == [id \in {i \in known : changes[i] # <<>>} |-> BuildHistory(changes[id])]
BuildServiceSetCircuitStat(changes) == [id \in {i \in CircuitIds : changes[i] # <<>>} |-> BuildHistory(changes[id])]

\* One message for the service, unless the registry has dropped it.
BuildCircuitStat(exists, known) ==
    IF exists /\ (source.recover \/ source.circuit # NoChanges)
    THEN {BuildServiceCircuitStat(source.circuit, known)} ELSE {}
BuildSetCircuitStat == IF source.set = NoChanges THEN {} ELSE {BuildServiceSetCircuitStat(source.set)}

TakeInstanceRecords == source' = [source EXCEPT !.circuit = NoChanges, !.recover = FALSE]
TakeSetRecords == source' = [source EXCEPT !.set = NoChanges]

ReportCircuitStat ==
    /\ CanFire("circuit")
    /\ \E exists \in BOOLEAN, known \in SUBSET CircuitIds :
          \E r \in Send("circuit", Fire("circuit"), Cardinality(BuildCircuitStat(exists, known))) :
              report' = [report EXCEPT !["circuit"] = r]
    /\ TakeInstanceRecords
    /\ UNCHANGED <<setup, now, statVars, record, cached>>

ReportSetCircuitStat ==
    /\ CanFire("set")
    /\ \E r \in Send("set", Fire("set"), Cardinality(BuildSetCircuitStat)) : report' = [report EXCEPT !["set"] = r]
    /\ TakeSetRecords
    /\ UNCHANGED <<setup, now, statVars, record, cached>>

\* What the quota manager and the router chains give is up to them.
ReportRateLimit ==
    /\ CanFire("limit")
    /\ \E n \in {0, 1, 25} : \E r \in Send("limit", Fire("limit"), n) : report' = [report EXCEPT !["limit"] = r]
    /\ UNCHANGED <<setup, now, statVars, source, record, cached>>

ReportServiceRouterStat ==
    /\ CanFire("router")
    /\ \E n \in {0, 1, 60} : \E r \in Send("router", Fire("router"), n) : report' = [report EXCEPT !["router"] = r]
    /\ UNCHANGED <<setup, now, statVars, source, record, cached>>

----------------------------------------------------------------------------
(***************************************************************************)
(* The answers.  A closed client calls nobody back.                        *)
(***************************************************************************)
Answer(k, r) ==
    /\ prepare.step = "idle"
    /\ report[k].client
    /\ report' = [report EXCEPT ![k] = r]
    /\ UNCHANGED <<setup, now, statVars, source, record, cached>>

OnSuccess(k) ==
    /\ k \in UnaryReport
    /\ Answer(k, SetUpTimingReport(UpdateCallResult(CancelTimingTask(report[k])), ReportInterval(k)))

OnFailure(k) ==
    /\ k \in UnaryReport
    /\ Answer(k, SetUpTimingReport(UpdateCallResult(CancelTimingTask(report[k])), ReportInterval(k)))

OnReceiveMessage(k) ==
    /\ k \in StreamReport
    /\ report[k].sent < 3 /\ report[k].succ + report[k].fail < report[k].sent
    /\ \/ Answer(k, [report[k] EXCEPT !.succ = @ + 1])
       \/ Answer(k, [report[k] EXCEPT !.fail = @ + 1])

OnRemoteCloseUncancelled(k) ==
    /\ k \in StreamReport
    /\ Answer(k, SetUpTimingReport(UpdateCallResult([report[k] EXCEPT !.succ = 0, !.fail = 0, !.flag = FALSE]),
                                   ReportInterval(k)))

OnRemoteClose(k) ==
    /\ k \in StreamReport
    /\ Answer(k, SetUpTimingReport(UpdateCallResult([CancelTimingTask(report[k]) EXCEPT !.succ = 0, !.fail = 0]),
                                   ReportInterval(k)))

Expire(k) == [report[k] EXCEPT !.check = @ - 1, !.flag = FALSE, !.succ = 0, !.fail = 0]

UnaryTimeoutCheck(k) ==
    /\ k \in UnaryReport
    /\ report[k].check > 0
    /\ \E delay \in {report[k].limit, report[k].limit + connect_timeout} :
          Answer(k, SetUpTimingReport(UpdateCallResult(Expire(k)),
                                      IF ReportInterval(k) > delay THEN ReportInterval(k) - delay ELSE 1000))

StreamTimeoutCheck(k) ==
    /\ k \in StreamReport
    /\ report[k].check > 0
    /\ Answer(k, SetUpTimingReport(UpdateCallResult(Expire(k)), ReportInterval(k) - message_timeout))

----------------------------------------------------------------------------
Init ==
    /\ setup \in Setups
    /\ now = 1
    /\ worker = [t \in setup.threads |-> [step |-> "out", map |-> NULL]]
    /\ tls = [t \in setup.threads |-> NULL]
    /\ statMap = <<>>
    /\ prepare = [time |-> 0, data |-> {}, step |-> "idle"]
    /\ gathered = NoCalls
    /\ counted = NoCalls
    /\ source = [api |-> [c \in {DelayIndex(d) : d \in {1, 10, 250}} |-> 0],
                 circuit |-> NoChanges, set |-> NoChanges, recover |-> FALSE,
                 made |-> [c \in Callers |-> NULL],
                 status |-> [k \in {"circuit", "set"} |-> [id \in CircuitIds |-> "close"]]]
    /\ record = [ids |-> NULL, info |-> FALSE, history |-> <<>>, storing |-> NULL, late |-> {}]
    /\ cached = [d \in ServiceDataType |-> "none"]
    /\ report = SetupWork

Next ==
    \/ Tick
    \/ \E t \in setup.threads : ReportStat(t) \/ OnThreadExit(t)
    \/ \E c \in DOMAIN source.api : Record(c)
    \/ \E d \in ServiceDataType, b \in BOOLEAN : UpdateServiceData(d, b) \/ ServiceDataUpdate(d, b) \/ ServiceDataDelete(d, b)
    \/ UnsupportedUpdate \/ InstanceRecoverAll
    \/ \E c \in Callers : InstanceCircuitBreak(c) \/ \E id \in CircuitIds : TranslateStatus(c, id)
    \/ \E id \in CircuitIds : SetCircuitBreak(id)
    \/ ReportSdkConfig \/ ReportSdkApiStat \/ SwapMaps \/ ReportServiceStat \/ ReportServiceCache
    \/ ReportCircuitStat \/ ReportSetCircuitStat \/ ReportRateLimit \/ ReportServiceRouterStat
    \/ \E k \in setup.reports : \/ DeferDelete(k)
                                \/ OnSuccess(k) \/ OnFailure(k) \/ UnaryTimeoutCheck(k)
                                \/ OnReceiveMessage(k) \/ OnRemoteClose(k) \/ StreamTimeoutCheck(k)

Spec == Init /\ [][Next]_monVars

----------------------------------------------------------------------------
\* The map a thread writes to exists: the collector has not added it up and
\* deleted it while the thread was between loading and counting. And every
\* call counted is in one place: in a map that exists or in the sums.
CallsCountedOnce ==
    /\ \A t \in setup.threads : worker[t].step = "loaded" => worker[t].map \in DOMAIN statMap
    /\ counted = FoldSet(LAMBDA m, s : Plus(s, statMap[m]), gathered, DOMAIN statMap)

\* Between two steps of the reactor every report has exactly one timer: the
\* report task, due within a period, or the timeout check of a call that holds
\* its instance and its client. So no report is ever sent twice in a period,
\* none stops, and the assertions on flag, instance and client hold.
OneTimerPerReport ==
    prepare.step = "idle" =>
        \A k \in setup.reports : LET r == report[k] IN
            /\ r.due + r.check = 1
            /\ r.flag <=> r.check = 1
            /\ r.instance <=> r.flag
            /\ r.client <=> r.flag
            /\ r.due = 1 => r.wait > 0 /\ r.wait <= ReportInterval(k)

\* The revisions of a kind of data are numbered without a gap while the data
\* lives, whatever happens to the other kinds, and data from disk is numbered 1
\* (ServiceDataUpdate asserts it) as long as no revision of the kind expired
\* between being stored and being recorded.
RevisionsInOrder ==
    /\ \A i, j \in DOMAIN record.history :
          LET a == record.history[i]
              b == record.history[j]
          IN i < j /\ a.type = b.type /\ a.type \notin record.late
                   /\ (\A m \in i+1..j-1 : record.history[m].type # a.type)
                => b.seq = a.seq + 1 \/ (a.gone /\ b.seq \in {1, 2})
    /\ \A d \in ServiceDataType \ record.late : cached[d] = "none" => Ids[d] = 1

=============================================================================
