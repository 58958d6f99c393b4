--------------------------- MODULE CircuitBreaker ---------------------------
(***************************************************************************)
(* The per-service circuit breaker chain: CircuitBreakerChain and its      *)
(* CircuitBreakerChainData (plugin/circuit_breaker/chain.cpp), the two     *)
(* breakers it runs (error_count.cpp, error_rate.cpp) and the health       *)
(* checker that may change the chain as well (health_checker.cpp).         *)
(*                                                                         *)
(* Three kinds of thread meet here: callers reporting call results         *)
(* (RealTimeCircuitBreak), the circuit breaker executor (TimingCircuit-    *)
(* Break) and the health check executor (DetectInstance).  Only the chain  *)
(* status is changed under a lock.  Each breaker keeps a status of its own *)
(* per instance, which the winner of a transition writes after the lock is *)
(* released; a step here ends where another thread can observe the state.  *)
(***************************************************************************)
EXTENDS Naturals, FiniteSets

CONSTANTS
    Instances,              \* instances of the service
    Callers,                \* threads that report call results
    None,
    RequestAfterHalfOpen,   \* request_count_after_half_open_
    SuccessAfterHalfOpen,   \* success_count_after_half_open_
    RatePercent,            \* error_rate_threshold_ in percent
    Setups                  \* the configurations and bounds to consider

\* when       : healthCheck "when"
\* threshold  : continue_error_threshold_
\* volume     : request_volume_threshold_
\* results    : how calls may end
\* longWait   : the factor 100 of 100 * sleep_window_
\* threads    : bound on the calls under way
\* maxCalls   : bound on the calls a counter holds
\* maxVersion : bound on current_version_
\* maxGen     : bound on CleanStatus of one instance
\* stall      : may a caller's call outlast check_period_?
\* expiry     : may the service expire from the registry?
SetupType ==
    [when : {"never", "always", "on_recover"}, threshold : Nat \ {0},
     volume : Nat \ {0}, results : SUBSET BOOLEAN,
     longWait : Nat \ {0}, threads : Nat \ {0}, maxCalls : Nat \ {0},
     maxVersion : Nat \ {0}, maxGen : Nat, stall : BOOLEAN, expiry : BOOLEAN]

ASSUME ConstantsAssumption ==
    /\ None \notin Instances
    /\ IsFiniteSet(Instances) /\ IsFiniteSet(Callers)
    /\ SuccessAfterHalfOpen \in Nat \ {0}
    /\ RequestAfterHalfOpen \in Nat /\ RatePercent \in Nat
    /\ SuccessAfterHalfOpen <= RequestAfterHalfOpen
    /\ \A s \in Setups : s \in SetupType /\ RequestAfterHalfOpen <= s.maxCalls

VARIABLES
    setup,       \* the configuration of this process, never changed
    chain,       \* chain_status_map_; an absent entry is the default one
    version,     \* current_version_
    lastUpdate,  \* last_update_version_
    stat,        \* status objects of the breakers
    gen,         \* which status object the map of a breaker holds ...
    live,        \* ... and whether it holds one
    reg,         \* Service in the local registry: breaker data and version
    expiring,    \* CheckExpireService has dropped the Service, not yet the context
    submitted,   \* versions of the ServiceCacheUpdateTasks: the last one's, the newest
    call,        \* RealTimeCircuitBreak of every caller
    timing,      \* TimingCircuitBreak of the circuit breaker executor
    detect,      \* DetectInstance of the health check executor
    earned       \* history: successes the owner counted while half-open

chainVars == <<chain, version, earned>>
statVars  == <<stat, gen, live>>
regVars   == <<lastUpdate, reg, submitted, expiring>>
vars == <<setup, chain, version, lastUpdate, stat, gen, live, reg, submitted, expiring,
          call, timing, detect, earned>>

When       == setup.when
LongWait   == setup.longWait
MaxCalls   == setup.maxCalls
MaxVersion == setup.maxVersion
MaxGen     == setup.maxGen
Expiry     == setup.expiry
ErrorThreshold  == setup.threshold
VolumeThreshold == setup.volume
CallersStall    == setup.stall

Count  == 1     \* plugin index of errorCount
Rate   == 2     \* plugin index of errorRate
Health == 3     \* plugin index of the health check, when "always"
Breakers == {Count, Rate}
Status == {"close", "open", "half"}

\* Times are counted in sleep windows and saturate at LongWait: the code only
\* asks whether one, or a hundred, have passed since last_update_time.
Ages == 0 .. LongWait
Older(a) == IF a < LongWait THEN a + 1 ELSE a
Least(a, b) == IF a < b THEN a ELSE b

ErrorCountHalfOpenToOpen == RequestAfterHalfOpen - SuccessAfterHalfOpen + 1

\* Counters that are only compared with a limit saturate at it.
MaxErrors == IF ErrorThreshold > ErrorCountHalfOpenToOpen THEN ErrorThreshold
             ELSE ErrorCountHalfOpenToOpen

DefaultChainStatus == [status |-> "close", owner |-> 0]

\* ErrorCountStatus uses err and succ; ErrorRateStatus uses err and total
\* while half-open and wtotal, werr for what its buckets hold.
NewStatus == [st |-> "close", err |-> 0, succ |-> 0, total |-> 0,
              wtotal |-> 0, werr |-> 0, age |-> LongWait]

IdleCall   == [pc |-> "idle", inst |-> None, ok |-> TRUE, gen |-> 0, seen |-> "close",
               old |-> FALSE, read |-> 0]
IdleTiming == [pc |-> "idle", k |-> Count, todo |-> {}, inst |-> None,
               from |-> "close", to |-> "close", read |-> 0]
IdleDetect == [pc |-> "idle", k |-> Count, inst |-> None, from |-> "close", to |-> "close"]

NothingSubmitted == [last |-> 0, newest |-> 0]

FreshService == [known |-> TRUE, version |-> 0, open |-> {}, half |-> {}]

\* A new ServiceContext, with no status object in the map of any breaker.
NoStatuses == [k \in Breakers |-> [i \in Instances |-> [g \in 0 .. MaxGen |-> NewStatus]]]
EachEntry(x) == [k \in Breakers |-> [i \in Instances |-> x]]
EachInstance(x) == [i \in Instances |-> x]

Init ==
    /\ setup \in Setups
    /\ chain = EachInstance(DefaultChainStatus)
    /\ version = 0
    /\ lastUpdate = 0
    /\ stat = NoStatuses
    /\ gen = EachEntry(0)
    /\ live = EachEntry(FALSE)
    /\ earned = EachInstance(0)
    /\ reg = FreshService
    /\ submitted = NothingSubmitted
    /\ expiring = FALSE
    /\ call = [r \in Callers |-> IdleCall]
    /\ timing = IdleTiming
    /\ detect = IdleDetect

-----------------------------------------------------------------------------
\* CircuitBreakerChainData, under its lock.

\* Faulty: any breaker may move an instance on.
TranslatableByAnyone(k, i, from) == chain[i].status = from

\* The early returns of TranslateStatus.
Translatable(k, i, from) == chain[i].owner \in {0, k} /\ chain[i].status = from

\* Faulty: closing an instance is not a new version.
TranslatedSilently(k, i, to) ==
    /\ version < MaxVersion
    /\ version' = IF to = "close" THEN version ELSE version + 1
    /\ chain' = [chain EXCEPT ![i] = IF to = "close" THEN DefaultChainStatus
                                     ELSE [status |-> to, owner |-> k]]
    /\ earned' = IF to = "half" THEN [earned EXCEPT ![i] = 0] ELSE earned

\* The rest of TranslateStatus: closing erases the entry.
Translated(k, i, to) ==
    /\ version < MaxVersion
    /\ version' = version + 1
    /\ chain' = [chain EXCEPT ![i] = IF to = "close" THEN DefaultChainStatus
                                     ELSE [status |-> to, owner |-> k]]
    /\ earned' = IF to = "half" THEN [earned EXCEPT ![i] = 0] ELSE earned

\* A transition that may be refused, when nothing depends on the outcome.
TryTranslate(k, i, from, to) ==
    IF Translatable(k, i, from) THEN Translated(k, i, to) ELSE UNCHANGED chainVars

OpenIn(c) == {i \in Instances : c[i].status = "open"}
HalfIn(c) == {i \in Instances : c[i].status = "half"}

\* Service::SetCircuitBreakerData: an older version is skipped.
SetCircuitBreakerData ==
    IF reg.known /\ version > reg.version
      THEN reg' = [known |-> TRUE, version |-> version, open |-> OpenIn(chain), half |-> HalfIn(chain)]
      ELSE reg' = reg

\* CheckAndSyncToLocalRegistry when it has something to write.
SyncToLocalRegistry ==
    /\ lastUpdate # version
    /\ SetCircuitBreakerData
    /\ lastUpdate' = version
    /\ UNCHANGED <<submitted, expiring>>

\* SubmitUpdateCache(v): the reactor runs the tasks in the order in which they
\* are pushed, and UpdateCircuitBreaker takes each version as it comes.
SubmitUpdateCache(v) ==
    /\ submitted' = [last |-> v, newest |-> IF v > submitted.newest THEN v ELSE submitted.newest]
    /\ UNCHANGED <<lastUpdate, reg, expiring>>

-----------------------------------------------------------------------------
\* RealTimeCircuitBreak of a caller.

GetOrCreate(k, i) == live' = [live EXCEPT ![k][i] = TRUE]

StatOf(r, k) == stat[k][call[r].inst][call[r].gen]
WriteStat(r, k, s) == stat' = [stat EXCEPT ![k][call[r].inst][call[r].gen] = s]
Goto(r, pc) == call' = [call EXCEPT ![r].pc = pc]

\* What a breaker read of an instance is forgotten when it returns.
ReturnTo(r, pc) == call' = [call EXCEPT ![r] = [@ EXCEPT !.pc = pc, !.gen = 0, !.seen = "close"]]

Counted(k, i) == stat[k][i][gen[k][i]]
HasRoom(i) ==
    LET s == Counted(Rate, i)
    IN  (IF s.st = "half" THEN s.total ELSE s.wtotal) + setup.threads <= MaxCalls

Calling == {r \in Callers : call[r].pc # "idle"}

Report(r) ==
    /\ call[r].pc = "idle" /\ Cardinality(Calling) < setup.threads
    /\ \E i \in Instances, ok \in setup.results :
          /\ HasRoom(i)
          /\ call' = [call EXCEPT ![r] = [IdleCall EXCEPT !.pc = "count", !.inst = i, !.ok = ok]]
    /\ UNCHANGED <<chainVars, statVars, regVars, timing, detect>>

\* A caller fetches its status object and branches on the status it holds now.
ReadStatus(r, k, pc, next) ==
    LET i == call[r].inst
        s == Counted(k, i).st
    IN  /\ call[r].pc = pc
        /\ GetOrCreate(k, i)
        /\ call' = [call EXCEPT ![r].gen = gen[k][i], ![r].seen = s, ![r].pc = next[s]]
        /\ UNCHANGED <<chainVars, stat, gen, regVars, timing, detect>>

CountRead(r) ==
    LET next == [s \in Status |-> IF s = "open" /\ ~call[r].ok THEN "rate" ELSE "count_add"]
    IN  ReadStatus(r, Count, "count", next)

CountSuccess(r) ==
    LET s == StatOf(r, Count)
        i == call[r].inst
    IN  /\ call[r].pc = "count_add" /\ call[r].ok
        /\ IF call[r].seen = "half"
             THEN /\ WriteStat(r, Count, [s EXCEPT !.succ = Least(s.succ + 1, SuccessAfterHalfOpen)])
                  /\ earned' = [earned EXCEPT ![i] = IF chain[i].owner = Count
                                                       THEN Least(@ + 1, SuccessAfterHalfOpen) ELSE @]
             ELSE /\ WriteStat(r, Count, [s EXCEPT !.err = 0])
                  /\ UNCHANGED earned
        /\ ReturnTo(r, "rate")
        /\ UNCHANGED <<chain, version, gen, live, regVars, timing, detect>>

CountLimit(seen) == IF seen = "half" THEN ErrorCountHalfOpenToOpen ELSE ErrorThreshold

CountFailure(r) ==
    LET s == StatOf(r, Count)
    IN  /\ call[r].pc = "count_add" /\ ~call[r].ok
        /\ WriteStat(r, Count, [s EXCEPT !.err = Least(s.err + 1, MaxErrors)])
        /\ IF s.err + 1 >= CountLimit(call[r].seen) THEN Goto(r, "count_trip") ELSE ReturnTo(r, "rate")
        /\ UNCHANGED <<chainVars, gen, live, regVars, timing, detect>>

\* Faulty: the caller takes the transition for granted.
CountTripUnchecked(r) ==
    LET i == call[r].inst
    IN  /\ call[r].pc = "count_trip"
        /\ TryTranslate(Count, i, call[r].seen, "open")
        /\ Goto(r, "count_status")
        /\ UNCHANGED <<statVars, regVars, timing, detect>>

CountTrip(r) ==
    LET i == call[r].inst
    IN  /\ call[r].pc = "count_trip"
        /\ TryTranslate(Count, i, call[r].seen, "open")
        /\ IF Translatable(Count, i, call[r].seen) THEN Goto(r, "count_status") ELSE ReturnTo(r, "rate")
        /\ UNCHANGED <<statVars, regVars, timing, detect>>

\* The winner writes its own status, then last_update_time.
CountStatus(r) ==
    /\ call[r].pc = "count_status"
    /\ WriteStat(r, Count, [StatOf(r, Count) EXCEPT !.st = "open"])
    /\ Goto(r, "count_time")
    /\ UNCHANGED <<chainVars, gen, live, regVars, timing, detect>>

CountTime(r) ==
    /\ call[r].pc = "count_time"
    /\ WriteStat(r, Count, [StatOf(r, Count) EXCEPT !.age = 0])
    /\ ReturnTo(r, "rate")
    /\ UNCHANGED <<chainVars, gen, live, regVars, timing, detect>>

RateRead(r) == ReadStatus(r, Rate, "rate", [s \in Status |-> "rate_total"])

RateTotal(r) ==
    LET s == StatOf(r, Rate)
        i == call[r].inst
    IN  /\ call[r].pc = "rate_total"
        /\ IF call[r].seen = "half"
             THEN /\ WriteStat(r, Rate, [s EXCEPT !.total = @ + 1])
                  /\ earned' = [earned EXCEPT ![i] = IF call[r].ok /\ chain[i].owner = Rate
                                                       THEN Least(@ + 1, SuccessAfterHalfOpen) ELSE @]
             ELSE /\ WriteStat(r, Rate, [s EXCEPT !.wtotal = @ + 1])
                  /\ UNCHANGED earned
        /\ IF call[r].ok THEN ReturnTo(r, "sync") ELSE Goto(r, "rate_err")
        /\ UNCHANGED <<chain, version, gen, live, regVars, timing, detect>>

RateErr(r) ==
    LET s == StatOf(r, Rate)
    IN  /\ call[r].pc = "rate_err"
        /\ WriteStat(r, Rate, IF call[r].seen = "half" THEN [s EXCEPT !.err = @ + 1]
                                                      ELSE [s EXCEPT !.werr = @ + 1])
        /\ ReturnTo(r, "sync")
        /\ UNCHANGED <<chainVars, gen, live, regVars, timing, detect>>

CallSync(r) ==
    /\ call[r].pc = "sync"
    /\ \/ SyncToLocalRegistry /\ Goto(r, "submit")
       \/ lastUpdate = version /\ call' = [call EXCEPT ![r] = IdleCall] /\ UNCHANGED regVars
    /\ UNCHANGED <<chainVars, statVars, timing, detect>>

\* The version is read after the lock is released, and pushed later still.
CallRead(r) ==
    /\ call[r].pc = "submit"
    /\ call' = [call EXCEPT ![r].pc = "push", ![r].read = version]
    /\ UNCHANGED <<chainVars, statVars, regVars, timing, detect>>

CallSubmit(r) ==
    /\ call[r].pc = "push"
    /\ SubmitUpdateCache(call[r].read)
    /\ call' = [call EXCEPT ![r] = IdleCall]
    /\ UNCHANGED <<chainVars, statVars, timing, detect>>

CallerStep(r) ==
    \/ CountRead(r) \/ CountSuccess(r) \/ CountFailure(r) \/ CountTrip(r)
    \/ CountStatus(r) \/ CountTime(r)
    \/ RateRead(r) \/ RateTotal(r) \/ RateErr(r)
    \/ CallSync(r) \/ CallRead(r) \/ CallSubmit(r)

-----------------------------------------------------------------------------
\* TimingCircuitBreak of the circuit breaker executor.

ExecutorGoto(pc) == timing' = [timing EXCEPT !.pc = pc]

StartBreaker(k) == timing' = [IdleTiming EXCEPT !.pc = "scan", !.k = k,
                                                !.todo = {i \in Instances : live[k][i]}]

\* next_check_time_ keeps two passes check_period_ apart.  Unless CallersStall,
\* a call that was under way when the previous pass ended has ended by then.
TimingStart ==
    /\ timing.pc = "idle"
    /\ CallersStall \/ \A r \in Callers : ~call[r].old
    /\ StartBreaker(Count)
    /\ UNCHANGED <<chainVars, statVars, regVars, call, detect>>

\* Faulty: only errors reopen.
RelapsedOnErrors(k, s) == k = Rate /\ s.err > RequestAfterHalfOpen - SuccessAfterHalfOpen

\* Where a breaker wants to take an instance whose status it has read.
Recovered(k, s) == (IF k = Count THEN s.succ ELSE s.total - s.err) >= SuccessAfterHalfOpen

Relapsed(k, s) ==
    \/ k = Rate /\ s.err > RequestAfterHalfOpen - SuccessAfterHalfOpen
    \/ s.age >= LongWait

RateReached(s) == s.wtotal >= VolumeThreshold /\ 100 * s.werr >= RatePercent * s.wtotal

AutoHalfOpenEnable == When = "never"

Target(k, s) ==
    CASE s.st = "open" /\ AutoHalfOpenEnable /\ s.age >= 1    -> "half"
      [] s.st = "close" /\ k = Rate /\ RateReached(s)         -> "open"
      [] s.st = "half" /\ Recovered(k, s)                     -> "close"
      [] s.st = "half" /\ ~Recovered(k, s) /\ Relapsed(k, s)  -> "open"
      [] OTHER                                                -> s.st

TimingLook ==
    /\ timing.pc = "scan"
    /\ \E i \in timing.todo :
          LET s == Counted(timing.k, i)
              t == Target(timing.k, s)
          IN  timing' = IF t = s.st
                          THEN [timing EXCEPT !.todo = @ \ {i}]
                          ELSE [timing EXCEPT !.pc = "translate", !.todo = @ \ {i},
                                              !.inst = i, !.from = s.st, !.to = t]
    /\ UNCHANGED <<chainVars, statVars, regVars, call, detect>>

TimingTranslate ==
    /\ timing.pc = "translate"
    /\ TryTranslate(timing.k, timing.inst, timing.from, timing.to)
    /\ ExecutorGoto(IF Translatable(timing.k, timing.inst, timing.from) THEN "status" ELSE "scan")
    /\ UNCHANGED <<statVars, regVars, call, detect>>

WriteCounted(k, i, s) == stat' = [stat EXCEPT ![k][i][gen[k][i]] = s]

TimingStatus ==
    /\ timing.pc = "status"
    /\ WriteCounted(timing.k, timing.inst,
                    [Counted(timing.k, timing.inst) EXCEPT !.st = timing.to])
    /\ ExecutorGoto("reset")
    /\ UNCHANGED <<chainVars, gen, live, regVars, call, detect>>

\* Faulty: success_count survives into the next half-open period.
AfterTransitionKeepsSuccess(k, s, from, to) ==
    [s EXCEPT !.age    = 0,
              !.total  = IF to = "half" THEN 0 ELSE @,
              !.err    = IF to = "half" \/ (k = Count /\ to = "close") THEN 0 ELSE @,
              !.wtotal = IF from = "close" THEN @ ELSE 0,
              !.werr   = IF from = "close" THEN @ ELSE 0]

\* Counters after a transition: errorCount keeps err when it opens, errorRate
\* keeps its buckets when it opens from closed.
AfterTransition(k, s, from, to) ==
    [s EXCEPT !.age    = 0,
              !.succ   = IF to = "half" THEN 0 ELSE @,
              !.total  = IF to = "half" THEN 0 ELSE @,
              !.err    = IF to = "half" \/ (k = Count /\ to = "close") THEN 0 ELSE @,
              !.wtotal = IF from = "close" THEN @ ELSE 0,
              !.werr   = IF from = "close" THEN @ ELSE 0]

TimingReset ==
    /\ timing.pc = "reset"
    /\ WriteCounted(timing.k, timing.inst,
                    AfterTransition(timing.k, Counted(timing.k, timing.inst), timing.from, timing.to))
    /\ ExecutorGoto("scan")
    /\ UNCHANGED <<chainVars, gen, live, regVars, call, detect>>

\* CleanStatus finds an entry nobody used for metric_expired_time_ whose
\* instance has left the service ...
Unused(k, i) == \A r \in Callers : call[r].inst # i

CleanExpired ==
    /\ timing.pc = "scan" /\ timing.todo = {}
    /\ \E i \in Instances :
          /\ live[timing.k][i] /\ gen[timing.k][i] < MaxGen /\ Unused(timing.k, i)
          /\ timing' = [timing EXCEPT !.pc = "clean_open", !.inst = i]
    /\ UNCHANGED <<chainVars, statVars, regVars, call, detect>>

\* ... closes it in the chain, from either status ...
CleanOpen ==
    /\ timing.pc = "clean_open"
    /\ TryTranslate(timing.k, timing.inst, "open", "close")
    /\ ExecutorGoto("clean_half")
    /\ UNCHANGED <<statVars, regVars, call, detect>>

CleanHalf ==
    /\ timing.pc = "clean_half"
    /\ TryTranslate(timing.k, timing.inst, "half", "close")
    /\ ExecutorGoto("clean_delete")
    /\ UNCHANGED <<statVars, regVars, call, detect>>

\* ... and deletes it.  The next caller will create a new object.
CleanDelete ==
    /\ timing.pc = "clean_delete"
    /\ live' = [live EXCEPT ![timing.k][timing.inst] = FALSE]
    /\ gen' = [gen EXCEPT ![timing.k][timing.inst] = @ + 1]
    /\ ExecutorGoto("scan")
    /\ UNCHANGED <<chainVars, stat, regVars, call, detect>>

EndPass ==
    /\ timing' = IdleTiming
    /\ call' = [r \in Callers |-> [call[r] EXCEPT !.old = ~CallersStall /\ call[r].pc # "idle"]]

\* Faulty: the pass ends without CheckAndSyncToLocalRegistry.
BreakerDoneNoSync ==
    /\ timing.pc = "scan" /\ timing.todo = {}
    /\ IF timing.k = Count THEN StartBreaker(Rate) /\ UNCHANGED call ELSE EndPass
    /\ UNCHANGED <<chainVars, statVars, regVars, detect>>

BreakerDone ==
    /\ timing.pc = "scan" /\ timing.todo = {}
    /\ IF timing.k = Count THEN StartBreaker(Rate) ELSE ExecutorGoto("sync")
    /\ UNCHANGED <<chainVars, statVars, regVars, call, detect>>

TimingSync ==
    /\ timing.pc = "sync"
    /\ \/ SyncToLocalRegistry /\ ExecutorGoto("submit") /\ UNCHANGED call
       \/ lastUpdate = version /\ EndPass /\ UNCHANGED regVars
    /\ UNCHANGED <<chainVars, statVars, detect>>

TimingRead ==
    /\ timing.pc = "submit"
    /\ timing' = [timing EXCEPT !.pc = "push", !.read = version]
    /\ UNCHANGED <<chainVars, statVars, regVars, call, detect>>

TimingSubmit ==
    /\ timing.pc = "push"
    /\ SubmitUpdateCache(timing.read)
    /\ EndPass
    /\ UNCHANGED <<chainVars, statVars, detect>>

ExecutorStep ==
    \/ TimingStart \/ TimingLook \/ TimingTranslate \/ TimingStatus \/ TimingReset
    \/ CleanExpired \/ CleanOpen \/ CleanHalf \/ CleanDelete
    \/ BreakerDone \/ TimingSync \/ TimingRead \/ TimingSubmit

-----------------------------------------------------------------------------
\* DetectInstance of the health check executor.

\* Instances that are probed, and what a probe asks of the chain.
Probed == CASE When = "always"     -> Instances
            [] When = "on_recover" -> reg.open
            [] OTHER               -> {}

ProbeSucceeds == IF When = "always" THEN "close" ELSE "half"

DetectProbe ==
    /\ detect.pc = "idle" /\ reg.known
    /\ \E i \in Probed :
          \/ detect' = [pc |-> "translate", k |-> Count, inst |-> i,
                        from |-> "open", to |-> ProbeSucceeds]
          \/ /\ When = "always"        \* a failed probe
             /\ detect' = [pc |-> "translate", k |-> Health, inst |-> i,
                           from |-> "close", to |-> "open"]
    /\ UNCHANGED <<chainVars, statVars, regVars, call, timing>>

LastIndex == IF When = "always" THEN Health ELSE Rate

NextIndex == IF detect.k = LastIndex THEN IdleDetect
             ELSE [detect EXCEPT !.k = @ + 1, !.pc = "translate"]

\* CircuitBreakerChain::TranslateStatus tries every plugin index in turn.
DetectTranslate ==
    /\ detect.pc = "translate"
    /\ TryTranslate(detect.k, detect.inst, detect.from, detect.to)
    /\ detect' = IF Translatable(detect.k, detect.inst, detect.from) /\ detect.to = "half"
                   THEN [detect EXCEPT !.pc = "half_status"] ELSE NextIndex
    /\ UNCHANGED <<statVars, regVars, call, timing>>

\* DetectToHalfOpen of the breaker whose index was accepted.
DetectHalfStatus ==
    LET s == Counted(detect.k, detect.inst)
    IN  /\ detect.pc = "half_status"
        /\ IF live[detect.k][detect.inst] /\ s.st = "open"
             THEN /\ WriteCounted(detect.k, detect.inst, [s EXCEPT !.st = "half"])
                  /\ detect' = [detect EXCEPT !.pc = "half_reset"]
             ELSE detect' = NextIndex /\ UNCHANGED stat
        /\ UNCHANGED <<chainVars, gen, live, regVars, call, timing>>

\* errorRate clears its buckets but not total_count and error_count.
DetectedHalf(k, s) ==
    IF k = Count THEN [s EXCEPT !.succ = 0, !.err = 0, !.age = 0]
                 ELSE [s EXCEPT !.wtotal = 0, !.werr = 0, !.age = 0]

DetectHalfReset ==
    /\ detect.pc = "half_reset"
    /\ WriteCounted(detect.k, detect.inst,
                    DetectedHalf(detect.k, Counted(detect.k, detect.inst)))
    /\ detect' = NextIndex
    /\ UNCHANGED <<chainVars, gen, live, regVars, call, timing>>

DetectorStep == DetectProbe \/ DetectTranslate \/ DetectHalfStatus \/ DetectHalfReset

-----------------------------------------------------------------------------
\* The environment.

\* Another sleep window passes, in the middle of calls too.  A pass of the
\* executor reads the clock once and is shorter than that.
Tick ==
    /\ timing.pc = "idle"
    /\ stat' = [k \in Breakers |-> [i \in Instances |-> [g \in 0 .. MaxGen |->
                  [stat[k][i][g] EXCEPT !.age = Older(@)]]]]
    /\ UNCHANGED <<chain, version, earned, gen, live, regVars, call, timing, detect>>

\* The calls counted in the buckets of errorRate fall out of its window.
WindowSlides(i) ==
    /\ Counted(Rate, i).wtotal > 0
    /\ WriteCounted(Rate, i, [Counted(Rate, i) EXCEPT !.wtotal = 0, !.werr = 0])
    /\ UNCHANGED <<chainVars, gen, live, regVars, call, timing, detect>>

AllIdle == (\A r \in Callers : call[r].pc = "idle") /\ timing.pc = "idle" /\ detect.pc = "idle"

\* CheckExpireService: nobody has used the context for service_expire_time_.
\* It drops the Service of the local registry ...
ExpireService ==
    /\ Expiry /\ ~expiring /\ \A r \in Callers : call[r].pc = "idle"
    /\ reg' = [FreshService EXCEPT !.known = FALSE]
    /\ expiring' = TRUE
    /\ UNCHANGED <<chainVars, statVars, lastUpdate, submitted, call, timing, detect>>

\* ... and then the context, in use again or not.  The next call creates one
\* with a new chain.  Threads still inside the old chain are not followed.
ExpireContext ==
    /\ expiring /\ AllIdle
    /\ chain' = EachInstance(DefaultChainStatus)
    /\ version' = 0
    /\ lastUpdate' = 0
    /\ submitted' = NothingSubmitted
    /\ stat' = NoStatuses
    /\ gen' = EachEntry(0)
    /\ live' = EachEntry(FALSE)
    /\ earned' = EachInstance(0)
    /\ expiring' = FALSE
    /\ UNCHANGED <<reg, call, timing, detect>>

\* Discovery of the service creates its Service again.
LoadService ==
    /\ ~reg.known
    /\ reg' = FreshService
    /\ UNCHANGED <<chainVars, statVars, lastUpdate, submitted, expiring, call, timing, detect>>

Environment == Tick \/ (\E i \in Instances : WindowSlides(i))
               \/ ExpireService \/ ExpireContext \/ LoadService

\* The model stops where the bound on changes of the chain cuts it off.
BoundReached == version = MaxVersion /\ UNCHANGED vars

Step ==
    \/ \E r \in Callers : Report(r) \/ CallerStep(r)
    \/ ExecutorStep
    \/ DetectorStep
    \/ Environment
    \/ BoundReached

Next == Step /\ UNCHANGED setup

\* Threads that are inside a call finish it, both executors run their periodic
\* task again and again, and time passes.  Nobody has to make a call.
Fairness ==
    /\ \A r \in Callers : WF_vars(CallerStep(r) /\ UNCHANGED setup)
    /\ WF_vars(ExecutorStep /\ UNCHANGED setup)
    /\ WF_vars(DetectorStep /\ UNCHANGED setup)
    /\ SF_vars(Tick /\ UNCHANGED setup)

Spec == Init /\ [][Next]_vars
FairSpec == Spec /\ Fairness

-----------------------------------------------------------------------------
\* Properties.

\* Every variable has its type.
TypeOK ==
    /\ setup \in Setups
    /\ chain \in [Instances -> [status : Status, owner : 0 .. Health]]
    /\ version \in 0 .. MaxVersion /\ lastUpdate \in 0 .. MaxVersion
    /\ submitted \in [last : 0 .. MaxVersion, newest : 0 .. MaxVersion]
    /\ expiring \in BOOLEAN
    /\ stat \in [Breakers -> [Instances -> [0 .. MaxGen ->
          [st : Status, err : Nat, succ : Nat, total : Nat, wtotal : Nat, werr : Nat, age : Ages]]]]
    /\ gen \in [Breakers -> [Instances -> 0 .. MaxGen]]
    /\ live \in [Breakers -> [Instances -> BOOLEAN]]
    /\ reg \in [known : BOOLEAN, version : 0 .. MaxVersion,
                open : SUBSET Instances, half : SUBSET Instances]
    /\ call \in [Callers -> [pc : {"idle", "count", "count_add", "count_trip", "count_status",
                                   "count_time", "rate", "rate_total", "rate_err", "sync", "submit",
                                   "push"},
                             inst : Instances \cup {None}, ok : BOOLEAN, gen : 0 .. MaxGen,
                             seen : Status, old : BOOLEAN, read : 0 .. MaxVersion]]
    /\ timing \in [pc : {"idle", "scan", "translate", "status", "reset", "clean_open",
                         "clean_half", "clean_delete", "sync", "submit", "push"},
                   k : Breakers, todo : SUBSET Instances, inst : Instances \cup {None},
                   from : Status, to : Status, read : 0 .. MaxVersion]
    /\ detect \in [pc : {"idle", "translate", "half_status", "half_reset"}, k : 1 .. Health,
                   inst : Instances \cup {None}, from : Status, to : Status]
    /\ earned \in [Instances -> Nat]

\* A thread has changed the chain for an instance and has not yet told the
\* breaker that owns the change.
Settling(i) ==
    \/ \E r \in Callers : call[r].pc = "count_status" /\ call[r].inst = i
    \/ timing.pc = "status" /\ timing.inst = i
    \/ detect.pc = "half_status" /\ detect.inst = i

\* Rules 1 and 2 of chain.cpp:45-48 make the owner the only breaker that may
\* recover an instance, so the owner has to know: unless a transition is being
\* written, the breaker that owns an instance has the status of the chain and
\* every other breaker believes the instance closed.  Health checks, callers
\* that outlast a check period and CleanStatus each break this, and so do two
\* callers in one way only: errorCount stays half-open under an open chain when
\* a pass looks between the two writes of a caller that reopens the instance
\* and a second caller reopens it again (see README).
Undisturbed == When = "never" /\ ~CallersStall /\ MaxGen = 0

StatusFor(k, i) == IF chain[i].owner = k THEN chain[i].status ELSE "close"

LeftHalfOpen(k, i) ==
    /\ setup.threads > 1 /\ k = Count
    /\ chain[i] = [status |-> "open", owner |-> Count] /\ Counted(k, i).st = "half"

BreakerFollowsChain ==
    Undisturbed => \A i \in Instances : ~Settling(i) => \A k \in Breakers :
       live[k][i] => Counted(k, i).st = StatusFor(k, i) \/ LeftHalfOpen(k, i)

\* A breaker decides to close a half-open instance only after
\* SuccessAfterHalfOpen calls have succeeded since the instance became half-open.
\* errorRate adds to total_count before error_count, so a failed call that is
\* between the two passes for a success.  Health checks that half-open an
\* instance keep the counters of errorRate and break this.
CountedAsSuccess(i) == {r \in Callers : call[r].pc = "rate_err" /\ call[r].inst = i}
Earned(i) == earned[i] + Cardinality(CountedAsSuccess(i)) >= SuccessAfterHalfOpen
DecidesToClose == timing.pc = "scan" /\ timing'.pc = "translate" /\ timing'.to = "close"
CloseIsEarned ==
    [][DecidesToClose /\ When # "on_recover" => Earned(timing'.inst)]_vars

\* A thread is about to submit the current version.
Submits(t) == t.pc = "submit" \/ (t.pc = "push" /\ t.read = version)

\* When the chain believes the local registry up to date, the router sees the
\* open and half-open instances of the chain, and the service cache has been
\* told of that version or a thread is about to tell it.  Two threads may push
\* their tasks in the other order than they read their versions, so an older
\* version may come after it (see README).  While the service is not in the
\* registry the chain's updates are lost.
RegistryIsCurrent ==
    ~Expiry /\ lastUpdate = version /\ reg.known /\ ~expiring =>
      /\ reg.open = OpenIn(chain) /\ reg.half = HalfIn(chain)
      /\ \/ submitted.newest = version
         \/ Submits(timing) \/ \E r \in Callers : Submits(call[r])

\* Rules 1 and 2: an instance becomes half-open only from open, and as long as
\* it is not closed again no other breaker takes it over.
OwnerKeepsInstance ==
    [][\A i \in Instances :
         /\ chain'[i].status = "half" => chain[i].status \in {"open", "half"}
         /\ chain[i].owner # 0 /\ chain'[i].owner # 0 => chain'[i].owner = chain[i].owner]_vars

\* No instance stays half-open: enough successes close it, errors or the long
\* wait reopen it.
HalfOpenEnds ==
    \A i \in Instances : []<>(chain[i].status # "half" \/ When # "never" \/ version = MaxVersion)

\* No instance stays open when the breakers recover by themselves, except one
\* that two callers have left with errorCount half-open.
OpenEnds ==
    \A i \in Instances :
       []<>(chain[i].status # "open" \/ LeftHalfOpen(Count, i) \/ When # "never" \/ version = MaxVersion)

\* What a breaker may do to an instance: close it only when that was earned,
\* and take it over from no other breaker.
RulesKept == CloseIsEarned /\ OwnerKeepsInstance

\* No instance stays half-open or open: the breakers try it again and decide.
PeriodsEnd == HalfOpenEnds /\ OpenEnds

\* Every change of the chain reaches the local registry.
ChangesAreSynced == []<>(version = lastUpdate \/ version = MaxVersion)
=============================================================================
