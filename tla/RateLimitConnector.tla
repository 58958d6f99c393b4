-------------------------- MODULE RateLimitConnector --------------------------
(***************************************************************************)
(* Synchronisation of rate limit windows with the limit servers:           *)
(* RateLimitConnector, RateLimitConnection and the tasks they give to the  *)
(* reactor (quota/rate_limit_connector.cpp).                               *)
(*                                                                         *)
(* Everything here runs on the one thread of the reactor, so each event (a *)
(* task, a timer, an answer, a lost connection) is one action.  A handler  *)
(* calls others in sequence; they are operators from a state q of the      *)
(* connector to the next one.  API threads create windows, use them and    *)
(* replace them when their rule changes.                                   *)
(*                                                                         *)
(* Every window is EnableBatch(): rate_limit_rule.cpp:185 sets             *)
(* enable_batch_ for every rule, and the branches for other windows are    *)
(* not modelled.  Quota values are the subject of QpsBucket.               *)
(***************************************************************************)
EXTENDS Integers, Sequences, FiniteSets, FiniteSetsExt, SequencesExt

CONSTANTS
  Windows, Servers, Targets,
  NULL,
  MaxConn,      \* bound: connections that exist at a time
  Setups        \* configurations Init chooses from, see TypeOK

ASSUME ConstantsAssumption ==
  /\ MaxConn \in Nat \ {0}
  /\ NULL \notin Windows \cup Servers \cup Targets

VARIABLES
  setup,   \* [target, order, start, faults, moves, calm, single, reuse, expiring]
  s,       \* state of connector, connections and tasks, see Connector
  life,    \* [Windows -> state of the window as its users and ClearExpiredWindow set it]
  ring,    \* [Windows -> the server consistent hashing yields, or NULL]
  faults,  \* bound: failures of connections and requests still to come
  moves    \* bound: changes of ring still to come

vars == <<setup, s, life, ring, faults, moves>>

Conns == 1 .. MaxConn
Target(w) == setup.target[w]

(***************************************************************************)
(* One connection.  init and report are init_task_map_ and                 *)
(* report_task_map_: "no" is no entry, "end" an entry without a timeout    *)
(* check, "armed" one with a check in the reactor.  lost holds the checks  *)
(* in the reactor that no map entry refers to any more.  out are the       *)
(* requests the server has not answered.                                   *)
(***************************************************************************)
Closed ==
  [st |-> "none", server |-> NULL,
   init |-> [w \in Windows |-> "no"], report |-> [w \in Windows |-> "no"],
   target |-> [t \in Targets |-> NULL], counter |-> [t \in Targets |-> NULL],
   batch |-> "end", pending |-> <<>>, inflight |-> <<>>,
   sync |-> "end", lost |-> {}, out |-> {}]

Fresh(server) == [Closed EXCEPT !.st = "connecting", !.server = server]

Request(kind, ts) == [kind |-> kind, ts |-> ts]

(* tasks counts WindowSyncTasks, sets the windows of the WindowSyncTaskSet *)
(* a closed connection left, refs the references to a window, conId is the *)
(* connection_id_ of a window.                                             *)
Connector ==
  [conn |-> [c \in Conns |-> Closed], mgr |-> [v \in Servers |-> 0],
   conId |-> [w \in Windows |-> NULL], tasks |-> [w \in Windows |-> 0],
   sets |-> [c \in Conns |-> {}], refs |-> [w \in Windows |-> 0], fault |-> {}]

Init ==
  /\ setup \in Setups
  /\ s = Connector
  /\ life = [w \in Windows |-> "new"]
  /\ ring \in [Windows -> setup.start]
  /\ faults = setup.faults
  /\ moves = setup.moves

-----------------------------------------------------------------------------
(* References and the history of what must not happen *)

Fail(q, what) == [q EXCEPT !.fault = @ \cup {what}]
PolarisAssert(q, holds) == IF holds THEN q ELSE Fail(q, "assert")
Touch(q, w) == IF q.refs[w] > 0 THEN q ELSE Fail(q, "freed")
IncrementRef(q, w) == [Touch(q, w) EXCEPT !.refs[w] = @ + 1]
DecrementRef(q, w) ==
  IF q.refs[w] > 0 THEN [q EXCEPT !.refs[w] = @ - 1] ELSE Fail(q, "freed")

(* new WindowSyncTask, given to AddTimingTask or SubmitTask *)
AddSyncTask(q, w) == [IncrementRef(q, w) EXCEPT !.tasks[w] = @ + 1]

Gone(w) == life[w] \in {"expired", "deleted"}

(* A connection object may be reused when nothing refers to the old one.   *)
Free(q) == {c \in Conns : q.conn[c].st = "none" /\ q.sets[c] = {}}

SelectConnection(q, w) ==
  IF ring[w] = NULL \/ q.mgr[ring[w]] # 0 THEN q
  ELSE LET c == Min(Free(q))
       IN [q EXCEPT !.conn[c] = Fresh(ring[w]), !.mgr[ring[w]] = c]

-----------------------------------------------------------------------------
(* RateLimitConnection *)

(* A check of w for request kind is no longer referred to by its map entry *)
Abandon(q, c, w, kind) ==
  LET armed == IF kind = "init" THEN q.conn[c].init[w] ELSE q.conn[c].report[w]
  IN IF armed = "armed" THEN [q EXCEPT !.conn[c].lost = @ \cup {<<kind, w>>}] ELSE q

SendMessage(q, c, request) ==
  IF q.conn[c].st = "open"
  THEN [q EXCEPT !.conn[c].out = @ \cup {request}]
  ELSE Fail(q, "null_stream")

SendInit(q, c, w) ==
  [Abandon(SendMessage(Touch(q, w), c, Request("init", {Target(w)})), c, w, "init")
     EXCEPT !.conn[c].target[Target(w)] = w, !.conn[c].init[w] = "armed"]

SendReport(q, c, w) ==
  [Abandon(SendMessage(Touch(q, w), c, Request("report", {Target(w)})), c, w, "report")
     EXCEPT !.conn[c].report[w] = "armed"]

(* A faulty variant: the init is sent before the stream exists.             *)
DoSyncTaskUnconnected(q, c, w) ==
  IF q.conn[c].report[w] # "no" THEN SendReport(q, c, w)
  ELSE IF q.conn[c].init[w] # "no" THEN SendInit(q, c, w)
  ELSE SendInit(IncrementRef(q, w), c, w)

DoSyncTask(q, c, w) ==
  IF q.conn[c].report[w] # "no" THEN SendReport(q, c, w)
  ELSE IF q.conn[c].init[w] # "no" THEN SendInit(q, c, w)
  ELSE IF q.conn[c].st = "open" THEN SendInit(IncrementRef(q, w), c, w)
  ELSE [IncrementRef(q, w) EXCEPT !.conn[c].init[w] = "end"]

(* A faulty variant: the map's reference is not given back.                 *)
RemoveWindowKeepingRef(q, c, w) ==
  [q EXCEPT !.conn[c].report[w] = "no", !.conn[c].init[w] = "no",
            !.conn[c].counter[Target(w)] = IF @ = w THEN NULL ELSE @]

RemoveWindow(q, c, w) ==
  LET k == q.conn[c]
      t == Target(w)
  IN IF k.report[w] # "no"
     THEN DecrementRef(
            [q EXCEPT !.conn[c].report[w] = "no",
                      !.conn[c].counter[t] = IF @ = w THEN NULL ELSE @], w)
     ELSE IF k.init[w] # "no"
     THEN DecrementRef([q EXCEPT !.conn[c].init[w] = "no"], w)
     ELSE q

(* IsConnectionChange may open the connection to the new server.           *)
SetReportTask(q, c, w, batch) ==
  LET p == PolarisAssert(q, q.conn[c].init[w] = "no" /\ q.conn[c].report[w] # "no")
      r == IF Gone(w) THEN p ELSE SelectConnection(p, w)
  IN IF ~batch THEN AddSyncTask(p, w)
     ELSE IF Gone(w) \/ ring[w] = NULL \/ r.conId[w] # ring[w]
     THEN AddSyncTask(r, w)
     ELSE [r EXCEPT !.conn[c].pending = Append(@, w)]

ClearTaskAndWindow(q, c) ==
  LET k == q.conn[c]
      inits == {w \in Windows : k.init[w] # "no"}
      reports == {w \in Windows : k.report[w] # "no"}
      dec(w, p) == DecrementRef(p, w)
  IN [FoldSet(dec, FoldSet(dec, q, inits), reports)
        EXCEPT !.conn[c].init = Closed.init, !.conn[c].report = Closed.report,
               !.conn[c].batch = "end", !.conn[c].sync = "end"]

(* A faulty variant: windows without a request are left out.                *)
OnlyRequestsToResync(k) ==
  {w \in Windows : k.init[w] = "armed" \/ k.report[w] = "armed"}

(* Windows with a request in flight, and all windows as they are batched.  *)
WindowsToResync(k) ==
  {w \in Windows : k.init[w] # "no" \/ (k.st = "open" /\ k.report[w] # "no")}

CloseForError(q, c) ==
  LET ws == WindowsToResync(q.conn[c])
      inc(w, p) == IncrementRef(p, w)
  IN IF q.conn[c].st = "closing" THEN q
     ELSE ClearTaskAndWindow(
            [FoldSet(inc, q, ws) EXCEPT !.sets[c] = ws,
                                        !.mgr[q.conn[c].server] = 0,
                                        !.conn[c].st = "closing",
                                        !.conn[c].out = {}], c)

DoSyncTimeTask(q, c) ==
  [q EXCEPT !.conn[c].sync = "check", !.conn[c].out = @ \cup {Request("time", {})}]

(* std::map is ordered by the address of the windows; the last one wins.   *)
Later(ws) == setup.order[Max({i \in DOMAIN setup.order : setup.order[i] \in ws})]

SendPendingInit(q, c) ==
  LET ws == {w \in Windows : q.conn[c].init[w] # "no"}
      ts == {Target(w) : w \in ws}
      filled == [t \in Targets |->
                   IF t \in ts THEN Later({w \in ws : Target(w) = t})
                   ELSE q.conn[c].target[t]]
  IN IF ws = {} THEN [q EXCEPT !.conn[c].batch = "interval"]
     ELSE [SendMessage(q, c, Request("batch_init", ts))
             EXCEPT !.conn[c].target = filled, !.conn[c].batch = "init"]

OnConnect(q, c) ==
  SendPendingInit(DoSyncTimeTask([q EXCEPT !.conn[c].st = "open"], c), c)

(* The init of w was answered: w moves from init_task_map_ to report_task_map_ *)
MoveToReport(q, c, w) ==
  [Abandon(q, c, w, "report")
     EXCEPT !.conn[c].init[w] = "no", !.conn[c].report[w] = "end",
            !.conn[c].counter[Target(w)] = w, !.conn[c].target[Target(w)] = NULL]

OnInitResponse(q, c, t) ==
  LET w == q.conn[c].target[t]
  IN IF w = NULL THEN q
     ELSE IF q.conn[c].init[w] = "armed"
     THEN SetReportTask(MoveToReport(q, c, w), c, w, TRUE)
     ELSE [q EXCEPT !.conn[c].target[t] = NULL]

(* A report nobody waits for was pushed by the server: only quota changes. *)
OnReportResponse(q, c, t, batch) ==
  LET w == q.conn[c].counter[t]
  IN IF w # NULL /\ q.conn[c].report[w] = "armed"
     THEN SetReportTask([q EXCEPT !.conn[c].report[w] = "end"], c, w, batch)
     ELSE q

(* Init of target t failed within a batch: try again.                      *)
RetryInit(q, c, t) ==
  LET w == q.conn[c].target[t]
      p == [q EXCEPT !.conn[c].target[t] = NULL]
  IN IF w = NULL \/ q.conn[c].init[w] = "no" THEN p
     ELSE AddSyncTask(PolarisAssert(p, q.conn[c].init[w] = "end"), w)

BatchInited(q, c, t) ==
  LET w == q.conn[c].target[t]
      p == [q EXCEPT !.conn[c].target[t] = NULL]
  IN IF w = NULL \/ q.conn[c].init[w] = "no" THEN p
     ELSE SetReportTask(
            MoveToReport(Abandon(PolarisAssert(p, q.conn[c].init[w] = "end"), c, w, "init"), c, w),
            c, w, TRUE)

(* A faulty variant: no batch report timer is set.                          *)
OnBatchInitResponseNoTimer(q, c, ts, failed) ==
  LET retry(t, r) == RetryInit(r, c, t)
      done(t, r) == BatchInited(r, c, t)
  IN [FoldSet(done, FoldSet(retry, q, failed), ts \ failed) EXCEPT !.conn[c].batch = "end"]

OnBatchInitResponse(q, c, ts, failed) ==
  LET p == PolarisAssert(q, q.conn[c].batch # "end")
      retry(t, r) == RetryInit(r, c, t)
      done(t, r) == BatchInited(r, c, t)
  IN [FoldSet(done, FoldSet(retry, p, failed), ts \ failed)
        EXCEPT !.conn[c].batch = "interval"]

OnBatchReportResponse(q, c, ts, single) ==
  LET k == q.conn[c]
      ws == {w \in {k.counter[t] : t \in ts} \ {NULL} : k.report[w] # "no"}
      next(w, r) == SetReportTask(Touch(r, w), c, w, w \notin single)
  IN [FoldSet(next, PolarisAssert(q, k.batch # "end"), ws)
        EXCEPT !.conn[c].inflight = <<>>, !.conn[c].batch = "interval"]

SendBatchReport(q, c) ==
  LET k == q.conn[c]
      ws == ToSet(k.pending)
      read(w, r) == Touch(r, w)
      p == FoldSet(read, PolarisAssert(q, k.inflight = <<>>), ws)
  IN [SendMessage(p, c, Request("batch_report", {Target(w) : w \in ws}))
        EXCEPT !.conn[c].inflight = k.pending, !.conn[c].pending = <<>>,
               !.conn[c].batch = "report"]

(* The check for a request of window w, or for a batch, expired.           *)
OnResponseTimeout(q, c, kind, w) ==
  LET p == IF kind \in {"init", "report"} THEN Touch(q, w) ELSE q
      r == CASE kind = "batch_init" ->
                  [PolarisAssert(p, \E v \in Windows : p.conn[c].init[v] # "no")
                     EXCEPT !.conn[c].batch = "end"]
             [] kind = "batch_report" -> [p EXCEPT !.conn[c].batch = "end"]
             [] kind = "init" -> [p EXCEPT !.conn[c].init[w] = "end"]
             [] kind = "report" ->
                  [p EXCEPT !.conn[c].report[w] = "no", !.conn[c].init[w] = "end"]
  IN CloseForError(r, c)

(* ~RateLimitConnection; checks still in the reactor keep pointing to it.  *)
DeleteConnection(q, c) ==
  LET p == ClearTaskAndWindow(q, c)
  IN [p EXCEPT !.conn[c] =
        [Closed EXCEPT !.st = IF p.conn[c].lost = {} THEN "none" ELSE "gone",
                       !.lost = p.conn[c].lost]]

-----------------------------------------------------------------------------
(* RateLimitConnector *)

SyncTask(q, w) ==
  LET Leave(p) == IF p.conId[w] # NULL /\ p.mgr[p.conId[w]] # 0
                  THEN RemoveWindow(p, p.mgr[p.conId[w]], w) ELSE p
      p == SelectConnection(Touch(q, w), w)
      r == IF p.conId[w] = ring[w] THEN p
           ELSE [Leave(p) EXCEPT !.conId[w] = ring[w]]
  IN IF Gone(w) THEN Leave(Touch(q, w))
     ELSE IF ring[w] = NULL THEN AddSyncTask(q, w)
     ELSE DoSyncTask(r, r.mgr[ring[w]], w)

-----------------------------------------------------------------------------
(* Windows, as API threads and ClearExpiredWindow change them *)

(* A rule change replaces a window by another one with the same target.    *)
Create(w) ==
  /\ life[w] = "new"
  /\ \A v \in Windows : v # w /\ Target(v) = Target(w) => life[v] \in {"new", "deleted"}
  /\ life' = [life EXCEPT ![w] = "live"]
  /\ s' = AddSyncTask([s EXCEPT !.refs[w] = 1], w)
  /\ UNCHANGED <<setup, ring, faults, moves>>

Expire(w) ==
  /\ w \in setup.expiring /\ life[w] = "live"
  /\ life' = [life EXCEPT ![w] = "expired"]
  /\ UNCHANGED <<setup, s, ring, faults, moves>>

(* AllocateQuota sets last_use_time_ of a window that ClearExpiredWindow   *)
(* has not deleted.                                                        *)
Use(w) ==
  /\ setup.reuse /\ life[w] = "expired"
  /\ life' = [life EXCEPT ![w] = "live"]
  /\ UNCHANGED <<setup, s, ring, faults, moves>>

(* MakeDeleted, by ClearExpiredWindow or because the rule changed.  The    *)
(* cache gives its reference back when its retired values are collected;   *)
(* here at once, which is the earliest a window can be freed.              *)
MakeDeleted(w) ==
  /\ w \in setup.expiring
  /\ life[w] \in {"live", "expired"}
  /\ life' = [life EXCEPT ![w] = "deleted"]
  /\ s' = DecrementRef(s, w)
  /\ UNCHANGED <<setup, ring, faults, moves>>

(* The ring changes, or no instance is available.                          *)
Move(w) ==
  /\ moves > 0
  /\ moves' = moves - 1
  /\ \E v \in Servers \cup {NULL} : v # ring[w] /\ ring' = [ring EXCEPT ![w] = v]
  /\ UNCHANGED <<setup, s, life, faults>>

-----------------------------------------------------------------------------
(* Events of the reactor *)

(* Bound: a handler may open a connection to every server.                 *)
Room == Cardinality(Free(s)) >= Cardinality({v \in Servers : s.mgr[v] = 0})

Step(q) ==
  /\ Room /\ s.fault = {}
  /\ s' = q /\ UNCHANGED <<setup, life, ring, faults, moves>>

(* An event that needs one of the failures left *)
Failing(q) ==
  /\ faults > 0 /\ faults' = faults - 1
  /\ Room /\ s.fault = {}
  /\ s' = q /\ UNCHANGED <<setup, life, ring, moves>>

(* Bound of a setup: connections fail only while no window of theirs has a *)
(* WindowSyncTask of its own in the reactor.                               *)
MayClose(c) ==
  setup.calm => \A w \in WindowsToResync(s.conn[c]) : s.tasks[w] = 0

RunSyncTask(w) ==
  /\ s.tasks[w] > 0
  /\ Step(DecrementRef(SyncTask([s EXCEPT !.tasks[w] = @ - 1], w), w))

(* 100 ms later: the closed connection was deleted in the meantime.        *)
RunSyncTaskSet(c) ==
  LET sync(w, q) == SyncTask(q, w)
      drop(w, q) == DecrementRef(q, w)
  IN /\ s.sets[c] # {} /\ s.conn[c].st # "closing"
     /\ Step([FoldSet(drop, FoldSet(sync, s, s.sets[c]), s.sets[c])
                EXCEPT !.sets[c] = {}])

Connected(c) == s.conn[c].st = "connecting" /\ Step(OnConnect(s, c))

ConnectFailed(c) ==
  s.conn[c].st = "connecting" /\ MayClose(c) /\ Failing(CloseForError(s, c))

(* OnRemoteClose of the stream, or OnFailure of the time request *)
RemoteClose(c) ==
  s.conn[c].st = "open" /\ MayClose(c) /\ Failing(CloseForError(s, c))

(* Answered is the connector after an answer to request m was taken.       *)
Taken(c, m) == [s EXCEPT !.conn[c].out = @ \ {m}]

(* OnReceiveMessage: the quota a server returns decides whether a window   *)
(* reports with the batch or, near the end of its period, by itself.       *)
OnReceiveMessage(c, m) ==
  /\ s.conn[c].st = "open" /\ m \in s.conn[c].out
  /\ \/ m.kind = "init" /\ \E t \in m.ts : Step(OnInitResponse(Taken(c, m), c, t))
     \/ /\ m.kind = "report"
        /\ \E batch \in {TRUE, ~setup.single}, t \in m.ts :
             Step(OnReportResponse(Taken(c, m), c, t, batch))
     \/ /\ m.kind = "batch_init"
        /\ Step(OnBatchInitResponse(Taken(c, m), c, m.ts, {}))
     \/ /\ m.kind = "batch_report"
        /\ \E single \in SUBSET (IF setup.single THEN Windows ELSE {}) :
             Step(OnBatchReportResponse(Taken(c, m), c, m.ts, single))

(* A batch init answer with an error code for some of its targets *)
BatchInitFailed(c, m) ==
  /\ s.conn[c].st = "open" /\ m \in s.conn[c].out /\ m.kind = "batch_init"
  /\ \E failed \in SUBSET m.ts \ {{}} :
       Failing(OnBatchInitResponse(Taken(c, m), c, m.ts, failed))

(* An answer is lost, carries an error code or has no quota: logged only.  *)
NoAnswer(c, m) ==
  s.conn[c].st = "open" /\ m \in s.conn[c].out /\ Failing(Taken(c, m))

(* A report the server sends on its own is taken for the answer if one is  *)
(* expected.                                                               *)
Push(c) ==
  /\ s.conn[c].st = "open"
  /\ \E t \in Targets : s.conn[c].counter[t] # NULL /\ Failing(OnReportResponse(s, c, t, TRUE))

(* OnSuccess of the time request, and the next request 60 seconds later *)
OnTimeSuccess(c) ==
  /\ s.conn[c].st = "open" /\ Request("time", {}) \in s.conn[c].out
  /\ s.conn[c].sync = "check"
  /\ Step([Taken(c, Request("time", {})) EXCEPT !.conn[c].sync = "timing"])

SyncTimeAgain(c) ==
  s.conn[c].sync = "timing" /\ Step(DoSyncTimeTask(s, c))

(* Timeout of the request m: the check fires before the answer comes, or   *)
(* because none will.                                                      *)
Timeout(c, m, q) ==
  /\ MayClose(c)
  /\ IF m \in s.conn[c].out THEN Failing(q) ELSE Step(q)

OnSyncTimeTimeout(c) ==
  /\ s.conn[c].sync = "check"
  /\ Timeout(c, Request("time", {}), CloseForError([s EXCEPT !.conn[c].sync = "end"], c))

WindowTimeout(c, w) ==
  \/ /\ s.conn[c].init[w] = "armed"
     /\ Timeout(c, Request("init", {Target(w)}), OnResponseTimeout(s, c, "init", w))
  \/ /\ s.conn[c].report[w] = "armed"
     /\ Timeout(c, Request("report", {Target(w)}), OnResponseTimeout(s, c, "report", w))

BatchTimeout(c) ==
  \E kind \in {"init", "report"} :
    /\ s.conn[c].batch = kind
    /\ LET m == IF \E n \in s.conn[c].out : n.kind = "batch_" \o kind
                THEN CHOOSE n \in s.conn[c].out : n.kind = "batch_" \o kind
                ELSE Request("none", {})
       IN Timeout(c, m, OnResponseTimeout(s, c, "batch_" \o kind, NULL))

(* A check no map entry refers to still holds the pointer of its connection *)
LostTimeout(c, kind, w) ==
  /\ <<kind, w>> \in s.conn[c].lost
  /\ LET q == [s EXCEPT !.conn[c].lost = @ \ {<<kind, w>>}]
     IN Step(IF s.conn[c].st = "gone" THEN Fail(q, "freed")
             ELSE OnResponseTimeout(q, c, kind, w))

(* With nothing to report the timer is only set again.                     *)
RunBatchReport(c) ==
  /\ s.conn[c].batch = "interval" /\ s.conn[c].pending # <<>>
  /\ Step(SendBatchReport(s, c))

DeferDelete(c) ==
  s.conn[c].st = "closing" /\ Step(DeleteConnection(s, c))

(* Nothing used the connection for a minute, so nothing was under way.     *)
Unused(k) ==
  /\ k.st = "open" /\ k.out \subseteq {Request("time", {})} /\ k.pending = <<>>
  /\ k.batch = "interval"
  /\ \A w \in Windows : k.init[w] # "armed" /\ k.report[w] # "armed"
  /\ \A w \in WindowsToResync(k) : s.tasks[w] = 0

ConnectionIdleCheck(c) ==
  /\ Unused(s.conn[c])
  /\ Step(DeleteConnection([s EXCEPT !.mgr[s.conn[c].server] = 0], c))

(* What the reactor does sooner or later *)
Reactor(c) ==
  \/ RunSyncTaskSet(c) \/ Connected(c) \/ RunBatchReport(c)
  \/ OnTimeSuccess(c) \/ SyncTimeAgain(c) \/ DeferDelete(c)
  \/ \E m \in s.conn[c].out : OnReceiveMessage(c, m)

(* An assertion or an invalid pointer ended the process.                   *)
Crashed == s.fault # {} /\ UNCHANGED vars

Next ==
  \/ Crashed
  \/ \E w \in Windows :
       \/ Create(w) \/ Expire(w) \/ Use(w) \/ MakeDeleted(w) \/ Move(w)
       \/ RunSyncTask(w)
  \/ \E c \in Conns :
       \/ Reactor(c)
       \/ ConnectFailed(c) \/ RemoteClose(c) \/ OnSyncTimeTimeout(c) \/ BatchTimeout(c)
       \/ ConnectionIdleCheck(c) \/ Push(c)
       \/ \E m \in s.conn[c].out : BatchInitFailed(c, m) \/ NoAnswer(c, m)
       \/ \E w \in Windows :
            WindowTimeout(c, w) \/ \E kind \in {"init", "report"} : LostTimeout(c, kind, w)

Spec == Init /\ [][Next]_vars

(* The reactor runs what is due.  The server answers, or the check for the *)
(* request it leaves unanswered expires, at the latest when the reactor    *)
(* has been through the tasks before it.                                   *)
Fairness ==
  /\ \A w \in Windows : WF_vars(RunSyncTask(w))
  /\ \A c \in Conns :
       /\ WF_vars(RunSyncTaskSet(c) \/ Connected(c) \/ DeferDelete(c))
       /\ WF_vars(RunBatchReport(c))
       /\ \A kinds \in {{"init", "batch_init"}, {"report"}, {"batch_report"}} :
            WF_vars(\E m \in s.conn[c].out : m.kind \in kinds /\ OnReceiveMessage(c, m))
       /\ SF_vars(BatchTimeout(c) \/ \E w \in Windows : WindowTimeout(c, w))

FairSpec == Spec /\ Fairness

-----------------------------------------------------------------------------
(* Types of the state the environment sees and of the bookkeeping *)
TypeOK ==
  /\ life \in [Windows -> {"new", "live", "expired", "deleted"}]
  /\ ring \in [Windows -> Servers \cup {NULL}]
  /\ faults \in Nat /\ moves \in Nat
  /\ s.mgr \in [Servers -> 0 .. MaxConn]
  /\ s.conId \in [Windows -> Servers \cup {NULL}]
  /\ s.tasks \in [Windows -> Nat] /\ s.refs \in [Windows -> Nat]
  /\ s.sets \in [Conns -> SUBSET Windows]
  /\ \A c \in Conns :
       /\ s.conn[c].st \in {"none", "connecting", "open", "closing", "gone"}
       /\ s.conn[c].init \in [Windows -> {"no", "end", "armed"}]
       /\ s.conn[c].report \in [Windows -> {"no", "end", "armed"}]
       /\ s.conn[c].batch \in {"end", "init", "interval", "report"}

Count(P) == IF P THEN 1 ELSE 0
Times(w, seq) == Cardinality({i \in DOMAIN seq : seq[i] = w})

(* Ways in which connection c will come back to window w *)
WaysOn(c, w) ==
  LET k == s.conn[c]
  IN Count(w \in s.sets[c])
     + Count(k.init[w] = "end" /\ (k.st = "connecting" \/ k.batch = "init"))
     + Count(k.init[w] = "armed") + Count(k.report[w] = "armed")
     + Count(<<"init", w>> \in k.lost) + Count(<<"report", w>> \in k.lost)
     + (IF k.st = "open" THEN Times(w, k.pending) + Times(w, k.inflight) ELSE 0)

Ways(w) == LET on(c) == WaysOn(c, w) IN s.tasks[w] + MapThenSumSet(on, Conns)

-----------------------------------------------------------------------------
(* Properties *)

(* The cases in which the code keeps the properties below: connections fail *)
(* while none of their windows waits for a task of its own, and no window   *)
(* takes over the target of another one.                                    *)
Undisturbed ==
  setup.calm /\ \A v, w \in Windows : Target(v) = Target(w) => v = w

(* A window in use always has a task, a request or a batch that leads to   *)
(* its next report: no order of answers, timeouts, closed connections and  *)
(* server changes drops it (CloseForError and SetReportTask hand it on).   *)
NeverForgotten ==
  Undisturbed /\ ~setup.reuse => \A w \in Windows : life[w] = "live" => Ways(w) > 0

(* A window is never synchronised along two ways at once: a second task    *)
(* would send on a connection that is still connecting and would overwrite *)
(* the timeout check of the first (DoSyncTask, SendInit, SendReport).      *)
SyncedOnce == Undisturbed => \A w \in Windows : Ways(w) <= 1

(* No handler fails an assertion, sends without a stream, uses a window    *)
(* whose last reference is gone or a connection that was deleted.          *)
HandlersSafe == Undisturbed => s.fault = {}

(* Each window has as many references as there are tasks, map entries of   *)
(* connections and caches that hold it, so that it is freed, and once.     *)
RefsExact ==
  Undisturbed =>
    \A w \in Windows :
      LET held(c) == Count(w \in s.sets[c]) + Count(s.conn[c].init[w] # "no")
                     + Count(s.conn[c].report[w] # "no")
      IN s.refs[w] = s.tasks[w] + MapThenSumSet(held, Conns)
                     + Count(life[w] \in {"live", "expired"})

(* A window is registered with the connection of its connection_id_ only,  *)
(* which is where SyncTask removes it from when the server changes.        *)
RegisteredWhereItSays ==
  Undisturbed =>
    \A c \in Conns, w \in Windows :
      s.conn[c].init[w] # "no" \/ s.conn[c].report[w] # "no" =>
        s.conId[w] = s.conn[c].server /\ s.mgr[s.conId[w]] = c

(* Each window in use has exactly one way to its next report, on the       *)
(* connection it is registered with.                                       *)
ScheduledOnce == NeverForgotten /\ SyncedOnce /\ RegisteredWhereItSays

(* The POLARIS_ASSERTs of the handlers hold, also when a window takes over *)
(* the target of one whose init is under way (OnBatchInitResponse).        *)
AssertsHold == "assert" \notin s.fault

Reporting(w) ==
  \E c \in Conns : s.conn[c].report[w] = "armed" \/ w \in ToSet(s.conn[c].inflight)

(* A window that stays in use, with a server to report to, reports again   *)
(* and again, whatever connections and answers were lost before.           *)
KeepsReporting ==
  Undisturbed /\ ~setup.reuse =>
    \A w \in Windows :
      <>[](life[w] = "live" /\ ring[w] # NULL) => []<>Reporting(w)

(* No handler goes wrong and no window is leaked or freed twice, whatever  *)
(* order answers, failures and deletions arrive in.                        *)
WindowsSafe == HandlersSafe /\ RefsExact
===============================================================================
