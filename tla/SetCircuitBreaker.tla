------------------------- MODULE SetCircuitBreaker -------------------------
(* Breaking whole subsets and labels: callers count their results in metric *)
(* windows, each window initialises its key at the metric server, reports   *)
(* its counts and queries the sums of all callers, and the answers move the *)
(* sets through open, half-open and closed.  Tasks, timers, the connection  *)
(* to the metric server and the sets belong to the breaker's reactor        *)
(* thread; callers come from any thread.                                    *)
EXTENDS Integers, Sequences, BagsExt, Bags, FiniteSets

CONSTANTS NULL, Setups, MaxWindows

(* setup: the bounds, the rule and the policy; revision: of the rule in the *)
(* registry; held: the rule and label a caller is working with; windows:    *)
(* the current window of a key; win: all windows made; server: the metric   *)
(* server the hash selects; conn: the connections; sets: unhealthy_sets_;   *)
(* registry: the copy the routers read; clock: the time, which the clock of *)
(* a metric server may be behind by setup.behind.                           *)
VARIABLES setup, revision, held, windows, win, server, conn, sets, registry, clock

vars == <<setup, revision, held, windows, win, server, conn, sets, registry, clock>>
callers == <<revision, held>>
network == <<server, conn>>

-----------------------------------------------------------------------------
(* The rule *)

(* Rules name all labels of a call, or all metadata of a subset; what names *)
(* nothing matches calls without any.                                       *)
MetadataMatch(rule, metadata) == rule = metadata

MatchDestinationSet(label) ==
  \E n \in DOMAIN setup.inbounds : /\ \E s \in setup.inbounds[n].sources : MetadataMatch(s, label)
                                   /\ \E d \in setup.inbounds[n].destinations : MetadataMatch(d, setup.subset)

-----------------------------------------------------------------------------
(* Counting *)

None == [total |-> 0, err |-> 0, slow |-> 0, special |-> 0]

(* AddCount: an error with a special code counts only as that.              *)
AddCount(counts, call) ==
  IF call = "unknown" THEN counts
  ELSE [counts EXCEPT !.total = @ + 1,
                      !.slow = IF call = "slow" /\ setup.policy.slow # NULL THEN @ + 1 ELSE @,
                      !.err = IF call = "err" /\ setup.policy.err # NULL THEN @ + 1 ELSE @,
                      !.special = IF call = "special" /\ setup.policy.err # NULL THEN @ + 1 ELSE @]

(* A window with its pending runs of TimingMetricQuery and                  *)
(* TimingMetricReport, as tasks or timers; a LOCAL window has none.         *)
MetricWindow(key, rev) ==
  [key |-> key, rev |-> rev, deleted |-> FALSE, counts |-> None,
   query |-> IF setup.global THEN 1 ELSE 0, report |-> IF setup.global THEN 1 ELSE 0]

Current(key, rev) == windows[key] # NULL /\ win[windows[key]].rev = rev

-----------------------------------------------------------------------------
(* Judging an answer *)

Rate(part, total) == (part * 100) \div total

Graded(rate, limits) == IF rate >= limits.open THEN "Open"
                        ELSE IF rate >= limits.preserved THEN "Preserved" ELSE "Close"

(* ComputeUnhealthyInfo: the error rate, then the special errors, then the  *)
(* slow rate; the first that opens ends it, a later one may only add.       *)
ComputeUnhealthyInfo(sum) ==
  LET err == setup.policy.err
      slow == setup.policy.slow
      byErr == IF err # NULL /\ sum.total >= err.volume
               THEN <<Graded(Rate(sum.err, sum.total), err), Graded(Rate(sum.special, sum.total), err.special)>>
               ELSE <<>>
      bySlow == IF slow # NULL THEN <<Graded(Rate(sum.slow, sum.total), slow)>> ELSE <<>>
      found == {(byErr \o bySlow)[n] : n \in DOMAIN (byErr \o bySlow)}
  IN IF sum.total = 0 \/ found = {} THEN "Close"
     ELSE IF "Open" \in found THEN "Open" ELSE IF "Preserved" \in found THEN "Preserved" ELSE "Close"

(* A set that opens: release is 0 until it is half open.                    *)
Opened(status, time) == [status |-> status, release |-> 0, begin |-> time, released |-> 0]

(* time: the timestamp of the answer, by the clock of the server that gave  *)
(* it.  It may be less than one that another server gave before.            *)
JudgeOpenTranslate(info, time) ==
  IF time >= info.begin /\ time - info.begin >= setup.sleep
  THEN [info EXCEPT !.status = "HalfOpen", !.released = time,
                    !.release = IF setup.rates = <<>> THEN 100 ELSE setup.rates[1]]
  ELSE info

(* The percentage is kept as a binary32 fraction; times 100, those of 53    *)
(* and 59 come out below what they were.                                    *)
RoundedDown == {53, 59}
Above(release) == {n \in DOMAIN setup.rates : \/ setup.rates[n] > release
                                              \/ setup.rates[n] = release /\ release \in RoundedDown}

(* A faulty variant: no metric window passes between two releases.          *)
JudgeHalfOpenTranslateAtOnce(info, sum, now, time) ==
  IF now = "Close" /\ sum.total > 0
  THEN IF Above(info.release) = {} THEN NULL
       ELSE [info EXCEPT !.release = setup.rates[CHOOSE n \in Above(info.release) :
                                                   \A m \in Above(info.release) : n <= m], !.released = time]
  ELSE IF now = "Open" THEN Opened("Open", time) ELSE info

(* After a metric window with traffic and without trouble, the next rate, or *)
(* closed after the last; NULL stands for closed.  The difference of two     *)
(* uint64_t: a time before the last release is more than any window after.   *)
JudgeHalfOpenTranslate(info, sum, now, time) ==
  IF now = "Close" /\ sum.total > 0
  THEN IF time >= info.released /\ time - info.released < setup.window THEN info
       ELSE IF Above(info.release) = {} THEN NULL
       ELSE [info EXCEPT !.release = setup.rates[CHOOSE n \in Above(info.release) :
                                                   \A m \in Above(info.release) : n <= m], !.released = time]
  ELSE IF now = "Open" THEN Opened("Open", time) ELSE info

JudgePreservedTranslate(info, sum, now, time) ==
  IF now = "Close" /\ sum.total # 0 THEN NULL ELSE IF now = "Open" THEN Opened("Open", time) ELSE info

ChangeSubsetOneLabel(all, key, sum, now, time) ==
  [all EXCEPT ![key] =
     IF @ = NULL THEN IF now = "Close" THEN NULL ELSE Opened(now, time)
     ELSE CASE @.status = "Open" -> JudgeOpenTranslate(@, time)
            [] @.status = "HalfOpen" -> JudgeHalfOpenTranslate(@, sum, now, time)
            [] @.status = "Preserved" -> JudgePreservedTranslate(@, sum, now, time)]

(* Scope ALL: one label that opens also opens the subset as a whole.         *)
CircuitBreakSubsetAll(all, time) ==
  [all EXCEPT ![{}] = IF @ # NULL /\ @.status = "Open" THEN @ ELSE Opened("Open", time)]

JudgeAndTranslateStatus(key, sum, time) ==
  LET now == ComputeUnhealthyInfo(sum)
  IN ChangeSubsetOneLabel(IF setup.scopeAll /\ now = "Open" THEN CircuitBreakSubsetAll(sets, time) ELSE sets,
                          key, sum, now, time)

-----------------------------------------------------------------------------
(* The connection to a metric server *)

Connecting == [open |-> FALSE, inflight |-> EmptyBag, init |-> {}]

(* SelectConnection makes a connection for the selected server.  It is made  *)
(* in the background: a connect that fails at once is left out (see README). *)
Selected(cs) == IF server # NULL /\ cs[server] = NULL THEN [cs EXCEPT ![server] = Connecting] ELSE cs

(* Windows of different revisions with the same labels have the same key.    *)
MetricKey(n) == win[n].key

IsMetricInit(n) == server # NULL /\ conn[server] # NULL /\ MetricKey(n) \in conn[server].init

(* Initialize, Query, Report                                                 *)
Request(type, n, tries) == [type |-> type, w |-> n, tries |-> tries]

(* SendInitRequest, SendQueryStream, SendReportStream; without connection    *)
(* they wait in the inflight map until it is there.                          *)
Send(cs, request) ==
  IF server = NULL THEN cs
  ELSE LET selected == Selected(cs)
       IN [selected EXCEPT ![server].inflight = BagAdd(@, request)]

AsyncInit(n) == Send(Selected(conn), Request("init", n, 1))
MetricQuery(n) == Send(conn, Request("query", n, 1))

(* AssembleReportReq empties every bucket.                                   *)
AssembleReportReq(w) == [w EXCEPT !.counts = None]

(* MetricReportCallBack: after a server's error a report of a window in use  *)
(* goes out again, at most three times in all.                               *)
MetricReportCallBack(cs, r, code) ==
  IF r.type = "report" /\ code = "500" /\ r.tries < 3 /\ ~win[r.w].deleted
  THEN Send(cs, Request("report", r.w, r.tries + 1)) ELSE cs

InFlight(s) == IF conn[s] = NULL THEN {} ELSE BagToSet(conn[s].inflight)

(* The next query is submitted at once.                                      *)
QueryCallback(w) == [w EXCEPT !.query = @ + 1]

(* The end of a query, with or without answer, reaches a window in use.      *)
MetricQueryCallback(ws, ended) ==
  [n \in DOMAIN ws |-> IF Request("query", n, 1) \in ended /\ ~ws[n].deleted THEN QueryCallback(ws[n]) ELSE ws[n]]

(* CloseForError: every request in the map fails, the connection goes.       *)
CloseForError(s, ws) ==
  /\ win' = MetricQueryCallback(ws, InFlight(s))
  /\ conn' = [conn EXCEPT ![s] = NULL]

(* Bounds: requests in the map of a connection, calls a window has counted.   *)
Room == \A s \in setup.servers : conn[s] # NULL => BagCardinality(conn[s].inflight) < setup.inflight
Countable(n) == win[n].counts.total < setup.counted

-----------------------------------------------------------------------------
Init ==
  /\ setup \in Setups
  /\ revision = 1
  /\ held = [c \in setup.callers |-> NULL]
  /\ windows = [k \in setup.labels \cup {{}} |-> NULL]
  /\ win = <<>>
  /\ server \in setup.servers
  /\ conn = [s \in setup.servers |-> NULL]
  /\ sets = [k \in DOMAIN windows |-> NULL]
  /\ registry = sets
  /\ clock = 0

UpdateRule ==
  /\ revision < setup.revisions
  /\ revision' = revision + 1
  /\ UNCHANGED <<setup, held, windows, win, network, sets, registry, clock>>

(* RealTimeCircuitBreak: the caller takes the rule from the registry ...     *)
GetCbPConfPbFromLocalRegistry(c) ==
  /\ held[c] = NULL
  /\ \E label \in setup.labels :
       /\ setup.subset # {} \/ label # {}
       /\ held' = [held EXCEPT ![c] = [label |-> label, rev |-> revision]]
  /\ UNCHANGED <<setup, revision, windows, win, network, sets, registry, clock>>

(* ... and then finds the window of that rule, or makes it, and counts.      *)
Replaced(ws, key) ==
  IF windows[key] = NULL THEN ws ELSE [ws EXCEPT ![windows[key]].deleted = TRUE]

CountInto(ws, n, call) == [ws EXCEPT ![n].counts = AddCount(@, call)]

AddToWindow(c, call) ==
  /\ held[c] # NULL /\ Current(held[c].label, held[c].rev)
  /\ Countable(windows[held[c].label])
  /\ win' = CountInto(win, windows[held[c].label], call)
  /\ held' = [held EXCEPT ![c] = NULL]
  /\ UNCHANGED <<setup, revision, windows, network, sets, registry, clock>>

NoMatch(c) ==
  /\ held[c] # NULL /\ ~Current(held[c].label, held[c].rev)
  /\ ~MatchDestinationSet(held[c].label)
  /\ held' = [held EXCEPT ![c] = NULL]
  /\ UNCHANGED <<setup, revision, windows, win, network, sets, registry, clock>>

(* A faulty variant: the window that is replaced is not marked.              *)
ReplacedSilently(ws, key) == ws

UpdateWindow(c, call) ==
  LET key == held[c].label
      rev == held[c].rev
      both == setup.scopeAll /\ key # {} /\ ~Current({}, rev)
      n == Len(win) + 1
      made == Append(Replaced(win, key), MetricWindow(key, rev))
  IN /\ held[c] # NULL /\ ~Current(key, rev) /\ MatchDestinationSet(held[c].label)
     /\ Len(win) + 2 <= MaxWindows
     /\ win' = CountInto(IF both THEN Append(Replaced(made, {}), MetricWindow({}, rev)) ELSE made, n, call)
     /\ windows' = IF both THEN [windows EXCEPT ![key] = n, ![{}] = n + 1] ELSE [windows EXCEPT ![key] = n]
     /\ held' = [held EXCEPT ![c] = NULL]
     /\ UNCHANGED <<setup, revision, network, sets, registry, clock>>

(* A faulty variant: after an Init the timer of the report is set twice.      *)
TimingMetricReportTwice(n) ==
  /\ win[n].report > 0
  /\ IF win[n].deleted
     THEN win' = [win EXCEPT ![n].report = @ - 1] /\ UNCHANGED conn
     ELSE /\ Room
          /\ IF IsMetricInit(n)
             THEN /\ conn' = Send(conn, Request("report", n, 1))
                  /\ win' = [win EXCEPT ![n] = AssembleReportReq(@)]
             ELSE conn' = AsyncInit(n) /\ win' = [win EXCEPT ![n].report = @ + 1]
  /\ UNCHANGED <<setup, callers, windows, server, sets, registry, clock>>

(* A window that is not yet initialised sends an Init and comes back later;  *)
(* otherwise a report goes out and the timer is set again, while a query     *)
(* comes back with its answer.                                               *)
TimingMetricReport(n) ==
  /\ win[n].report > 0
  /\ IF win[n].deleted
     THEN win' = [win EXCEPT ![n].report = @ - 1] /\ UNCHANGED conn
     ELSE /\ Room
          /\ IF IsMetricInit(n)
             THEN /\ conn' = Send(conn, Request("report", n, 1))
                  /\ win' = [win EXCEPT ![n] = AssembleReportReq(@)]
             ELSE conn' = AsyncInit(n) /\ UNCHANGED win
  /\ UNCHANGED <<setup, callers, windows, server, sets, registry, clock>>

TimingMetricQuery(n) ==
  /\ win[n].query > 0
  /\ IF win[n].deleted
     THEN win' = [win EXCEPT ![n].query = @ - 1] /\ UNCHANGED conn
     ELSE IF IsMetricInit(n)
     THEN /\ conn' = MetricQuery(n)
          /\ win' = [win EXCEPT ![n].query = @ - 1]
     ELSE Room /\ conn' = AsyncInit(n) /\ UNCHANGED win
  /\ UNCHANGED <<setup, callers, windows, server, sets, registry, clock>>

-----------------------------------------------------------------------------
OnConnect(s) ==
  /\ conn[s] # NULL /\ ~conn[s].open
  /\ conn' = [conn EXCEPT ![s].open = TRUE]
  /\ UNCHANGED <<setup, callers, windows, win, server, sets, registry, clock>>

(* OnFailure, OnRemoteClose, a connection that cannot be made                *)
OnFailure(s) ==
  /\ setup.faults /\ conn[s] # NULL
  /\ CloseForError(s, win)
  /\ UNCHANGED <<setup, callers, windows, server, sets, registry, clock>>

(* A faulty variant: the request that timed out fails again with the others. *)
TimeoutTwice(s, r) ==
  /\ win' = MetricQueryCallback(MetricQueryCallback(win, {r}), InFlight(s))
  /\ conn' = [conn EXCEPT ![s] = NULL]

Expire(s, r) ==
  /\ win' = MetricQueryCallback(MetricQueryCallback(win, {r}), BagToSet(BagRemove(conn[s].inflight, r)))
  /\ conn' = [conn EXCEPT ![s] = NULL]

MetricRequestTimeoutCheck(s, r) ==
  /\ setup.faults /\ conn[s].open /\ Expire(s, r)
  /\ UNCHANGED <<setup, callers, windows, server, sets, registry, clock>>

(* What the clock of a server says when it answers                            *)
Timestamp(s) == clock - setup.behind[s]

(* OnSuccess with the answers of the server: a success judges or initialises. *)
(* ResponseErrHandler, after a 404, erases nothing: it looks for the key and  *)
(* erases only if it is not there.                                            *)
OnSuccess(s, r, code) ==
  LET done == [conn EXCEPT ![s].inflight = BagRemove(@, r)]
  IN /\ conn[s].open
     /\ conn' = IF r.type = "init" /\ code = "ok" THEN [done EXCEPT ![s].init = @ \cup {MetricKey(r.w)}]
                ELSE MetricReportCallBack(done, r, code)
     /\ win' = MetricQueryCallback(win, {r})
     /\ \E sum \in setup.sums :
          sets' = IF r.type = "query" /\ code = "ok" /\ ~win[r.w].deleted
                  THEN JudgeAndTranslateStatus(win[r.w].key, sum, Timestamp(s)) ELSE sets
     /\ UNCHANGED <<setup, callers, windows, server, registry, clock>>

(* ConnectionIdleCheck frees a connection without requests and forgets keys   *)
(* that were not used for a while.                                            *)
ConnectionIdleCheck(s) ==
  /\ setup.faults /\ conn[s] # NULL
  /\ \/ conn[s].inflight = EmptyBag /\ conn' = [conn EXCEPT ![s] = NULL]
     \/ conn[s].init # {} /\ conn' = [conn EXCEPT ![s].init = {}]
  /\ UNCHANGED <<setup, callers, windows, win, server, sets, registry, clock>>

SelectInstance ==
  /\ setup.moves
  /\ server' \in setup.servers \cup {NULL} /\ server' # server
  /\ UNCHANGED <<setup, callers, windows, win, conn, sets, registry, clock>>

-----------------------------------------------------------------------------
(* TimingCircuitBreak: CheckAndSyncToRegistry and WindowGc, which frees       *)
(* nothing: CheckGc wants a point in time and is given a duration.            *)
CheckAndSyncToRegistry ==
  /\ registry # sets
  /\ registry' = sets
  /\ UNCHANGED <<setup, callers, windows, win, network, sets, clock>>

Tick ==
  /\ clock < setup.time
  /\ clock' = clock + 1
  /\ UNCHANGED <<setup, callers, windows, win, network, sets, registry>>

Codes == {"ok", "500", "404"}

Next ==
  \/ UpdateRule \/ SelectInstance \/ CheckAndSyncToRegistry \/ Tick
  \/ \E c \in DOMAIN held : \/ GetCbPConfPbFromLocalRegistry(c) \/ NoMatch(c)
                            \/ \E call \in setup.calls : AddToWindow(c, call) \/ UpdateWindow(c, call)
  \/ \E n \in DOMAIN win : TimingMetricReport(n) \/ TimingMetricQuery(n)
  \/ \E s \in setup.servers : \/ OnConnect(s) \/ OnFailure(s) \/ ConnectionIdleCheck(s)
                              \/ \E r \in InFlight(s) : \/ MetricRequestTimeoutCheck(s, r)
                                                        \/ \E code \in setup.codes : OnSuccess(s, r, code)

Spec == Init /\ [][Next]_vars

-----------------------------------------------------------------------------
Queries(n) == win[n].query + Cardinality({s \in setup.servers : Request("query", n, 1) \in InFlight(s)})

(* Each window in use asks exactly once at a time and has exactly one timer   *)
(* for its next report, through lost connections, timeouts and servers that   *)
(* change; a window that was replaced has at most one of each left.           *)
Loops == IF setup.global THEN 1 ELSE 0
OneLoop ==
  \A n \in DOMAIN win :
    /\ IF win[n].deleted THEN Queries(n) <= 1 ELSE Queries(n) = Loops
    /\ IF win[n].deleted THEN win[n].report \in {0, 1} ELSE win[n].report = Loops
    /\ \A s \in setup.servers : Request("query", n, 1) \in InFlight(s) =>
         conn[s].inflight[Request("query", n, 1)] = 1
    /\ ~win[n].deleted => \E k \in DOMAIN windows : windows[k] = n

(* A set that was open closes no sooner than its sleep window and one metric  *)
(* window for each rate after it opened, if the clocks of the servers that    *)
(* answer agree.  If they do not a set may close at once (see README).        *)
ClosesInTime ==
  (\A s \in setup.servers : setup.behind[s] = 0) =>
    \A k \in DOMAIN sets : sets[k] # NULL /\ sets[k].status # "Preserved" /\ sets'[k] = NULL =>
      clock - sets[k].begin >= setup.sleep + Len(setup.rates) * setup.window
RecoveryTakesItsTime == [][ClosesInTime]_vars

(* The comment in JudgeHalfOpenTranslate says that traffic goes on to be      *)
(* released: each further release is larger.                                  *)
ReleaseRises ==
  [][\A k \in DOMAIN sets : sets[k] # NULL /\ sets'[k] # NULL /\ sets[k].status = "HalfOpen"
       /\ sets'[k].status = "HalfOpen" /\ sets'[k].released # sets[k].released =>
         sets'[k].release > sets[k].release]_vars

(* A 404 says the server does not know the key, and the comment that it has   *)
(* to be initialised again.                                                   *)
UnknownKeyForgotten ==
  [][\A s \in setup.servers : \A r \in InFlight(s) :
       conn[s].open /\ "404" \in setup.codes /\ OnSuccess(s, r, "404") /\ r.type # "report" =>
         win[r.w].key \notin conn'[s].init]_vars
=============================================================================
