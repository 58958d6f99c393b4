------------------------------ MODULE Requests ------------------------------
(***************************************************************************)
(* Requests to a Polaris server outside the discovery stream, each on a    *)
(* connection of its own (grpc_server_connector.cpp, provider/api.cpp,     *)
(* report_client.cpp, sync/future.h).  A BlockRequest is made by a thread  *)
(* that registers, deregisters or beats and waits on a Future; an          *)
(* AsyncRequest has a callback, and serves heartbeats and the report of    *)
(* the client's own address, which goes on for ever.                       *)
(*                                                                         *)
(* The objects pass from thread to task to timer, and each must be deleted *)
(* by its last holder, also when the connector ends.  Handlers are         *)
(* operators from the objects (a record w) to the objects, because they    *)
(* call each other.  Servers and the network are external: an answer may   *)
(* come at any time, or never.                                             *)
(***************************************************************************)
EXTENDS Integers, Sequences, FiniteSets, SequencesExt

(* setup: attempts (BlockRequests there may be), calls, tries (the         *)
(* retries of a call), time (the time a call has), heartbeats and reports  *)
(* (AsyncRequests), seeds (no system service is configured), wrap (the     *)
(* request ids have come round).                                           *)
CONSTANTS NULL, Setups

VARIABLES setup, caller, objects

requestVars == <<setup, caller, objects>>

Asyncs == setup.heartbeats \cup setup.reports

(* What a server answers, and the codes made of it                         *)
Responses == {"Ok", "NoLocation", "Existed", "NotFound", "ServerError"}

ToClientReturnCode(response) == IF response = "NoLocation" THEN "Ok" ELSE response
ToPolarisServerCode(response) ==
    CASE response \in {"Ok", "NoLocation"} -> "ReturnOk"
      [] response = "ServerError" -> "ServerError"
      [] response \in {"Existed", "NotFound"} -> "InvalidRequest"

ErrorCodes == {"ConnectError", "ServerError", "RpcError", "RpcTimeout", "InvalidResponse"}

(* The system service that serves a request, if one is configured          *)
GetPolarisService == IF setup.seeds THEN NULL ELSE "service"

(* An object that is used or deleted after its deletion                    *)
Free(o) == [o EXCEPT !.mem = IF @ = "live" THEN "freed" ELSE "fault"]
Use(o) == IF o.mem = "live" THEN o ELSE [o EXCEPT !.mem = "fault"]

UpdateServerResult(o, code) == [o EXCEPT !.results = Append(@, code)]

SubmitTask(w, task) == [w EXCEPT !.queue = Append(@, task)]

----------------------------------------------------------------------------
(***************************************************************************)
(* Promise and Future: two ends of a SharedState                           *)
(***************************************************************************)
Promise == [mem |-> "live", refs |-> 1, ready |-> FALSE, value |-> NULL, error |-> NULL]

NotifyAll(s) == [s EXCEPT !.ready = TRUE]
WaitFor(s) == s.ready

SetValue(s, value) == NotifyAll([Use(s) EXCEPT !.value = value])
SetError(s, code) == NotifyAll([Use(s) EXCEPT !.error = code])
GetFuture(s) == [Use(s) EXCEPT !.refs = @ + 1]

\* What the future says: the timeout, the error, or the value, which is taken.
Result(s) ==
    IF ~WaitFor(s) THEN "Timeout" ELSE IF s.error # NULL THEN s.error ELSE ToClientReturnCode(s.value)
GetValue(s) == IF WaitFor(s) THEN [s EXCEPT !.value = NULL] ELSE s

\* The last to let go deletes the state, with a value nobody has taken.
Release(s) == IF s.refs = 1 THEN [Free(s) EXCEPT !.refs = 0, !.value = NULL] ELSE [Use(s) EXCEPT !.refs = @ - 1]

----------------------------------------------------------------------------
(***************************************************************************)
(* BlockRequest                                                            *)
(***************************************************************************)
NoRequest == [mem |-> "none", instance |-> FALSE, chosen |-> FALSE, code |-> "ReturnOk", net |-> "none",
              timer |-> FALSE, told |-> NULL, results |-> <<>>, state |-> NULL]

\* GetInstance: a seed server has no instance whose calls are counted.
NewBlockRequest ==
    LET instance == GetPolarisService # NULL
    IN [NoRequest EXCEPT !.mem = "live", !.instance = instance, !.chosen = instance]

\* The instance goes with the report of its call.
UpdateCallResult(b) ==
    IF b.instance THEN [UpdateServerResult(b, b.code) EXCEPT !.instance = FALSE] ELSE b

DeleteBlockRequest(b) ==
    [Free(b) EXCEPT !.net = "closed", !.instance = FALSE, !.state = IF @ = NULL THEN NULL ELSE Release(@)]

OnSuccess(b, response) ==
    LET code == ToPolarisServerCode(response)
        told == [Use(b) EXCEPT !.code = code, !.net = "told", !.told = ToClientReturnCode(response),
                               !.state = IF code = "ServerError" THEN SetError(@, code) ELSE SetValue(@, response)]
    IN UpdateCallResult(told)

OnFailure(b) ==
    UpdateCallResult([Use(b) EXCEPT !.code = "RpcError", !.net = "told", !.told = "NetworkFailed",
                                    !.state = SetError(@, "NetworkFailed")])

\* A faulty variant: the timer leaves the code of a request as it is.
BlockRequestTaskUncoded(b, fails) ==
    LET sent == [Use(b) EXCEPT !.net = "sent"]
    IN [(IF fails THEN OnFailure(sent) ELSE sent) EXCEPT !.timer = TRUE]

\* The connection joins the reactor and the request is sent, which may fail at
\* once; then the timer that deletes the request is set.
BlockRequestTask(b, fails) ==
    LET sent == [Use(b) EXCEPT !.net = "sent"]
    IN [(IF fails THEN OnFailure(sent) ELSE sent) EXCEPT !.timer = TRUE, !.code = "RpcTimeout"]

BlockRequestTimeout(b) == DeleteBlockRequest([UpdateCallResult(Use(b)) EXCEPT !.timer = FALSE])

----------------------------------------------------------------------------
(***************************************************************************)
(* ReportClient: its tasks run in the cache thread                         *)
(***************************************************************************)
ReportClient == [queue |-> IF setup.reports = {} THEN <<>> ELSE <<"do">>, timers |-> 0,
                 notFound |-> setup.tries, init |-> setup.tries, location |-> FALSE]

\* A budget that is used up stays used up.
Spend(n) == IF n < 0 THEN n ELSE n - 1

ReportCallback(p, code, located) ==
    LET missing == (code = "Ok" /\ ~located) \/ code = "NotFound"
        failed == code # "Ok" /\ ~missing
    IN [p EXCEPT !.location = @ \/ (code = "Ok" /\ located),
                 !.notFound = IF missing THEN Spend(@) ELSE @,
                 !.init = IF failed THEN Spend(@) ELSE @,
                 !.queue = Append(@, IF failed /\ p.init > 0 THEN "do" ELSE "arm")]

----------------------------------------------------------------------------
(***************************************************************************)
(* AsyncRequest                                                            *)
(***************************************************************************)
NoAsync == [mem |-> "none", late |-> FALSE, server |-> FALSE, net |-> "none", timer |-> FALSE,
            retry |-> FALSE, called |-> <<>>, results |-> <<>>]

Id(r) == IF setup.wrap THEN 0 ELSE r

Callback(w, r, code, located) ==
    LET called == [w EXCEPT !.async[r] = [Use(@) EXCEPT !.called = Append(@, code)]]
    IN IF r \in setup.reports THEN [called EXCEPT !.report = ReportCallback(@, code, located)] ELSE called

DeleteAsync(w, r) == [w EXCEPT !.async[r] = [Free(@) EXCEPT !.net = "closed"]]

Complete(w, r, code) ==
    LET reported == IF w.async[r].server THEN [w EXCEPT !.async[r] = UpdateServerResult(@, code)] ELSE w
    IN SubmitTask([reported EXCEPT !.listed = {x \in @ : Id(x) # Id(r)}], <<"delete", r>>)

\* A failure before the timer is set, or after it, is left to the timer.
AsyncFailure(w, r) ==
    LET told == [w EXCEPT !.async[r] = [Use(@) EXCEPT !.net = "told"]]
    IN IF ~told.async[r].timer THEN told
       ELSE Complete(Callback([told EXCEPT !.async[r].timer = FALSE], r, "NetworkFailed", FALSE), r, "RpcError")

AsyncSuccess(w, r, response) ==
    LET told == [w EXCEPT !.async[r] = [Use(@) EXCEPT !.net = "told"]]
    IN IF ~told.async[r].timer THEN told
       ELSE Complete(Callback([told EXCEPT !.async[r].timer = FALSE], r, ToClientReturnCode(response), response = "Ok"),
                     r, ToPolarisServerCode(response))

RequsetTimeoutCheck(w, r) ==
    Complete([Callback(w, r, "NetworkFailed", FALSE) EXCEPT !.async[r].timer = FALSE], r, "RpcTimeout")

OnConnect(w, r, code, fails) ==
    IF code # "Ok" THEN Complete(Callback(w, r, "NetworkFailed", FALSE), r,
                                 IF code = "Timeout" THEN "RpcTimeout" ELSE "ConnectError")
    ELSE IF w.async[r].late THEN Complete(Callback(w, r, "NetworkFailed", FALSE), r, "RpcTimeout")
    ELSE LET sent == [w EXCEPT !.async[r].net = "sent"]
         IN [(IF fails THEN AsyncFailure(sent, r) ELSE sent) EXCEPT !.async[r].timer = TRUE]

\* A request that is not submitted is deleted with the task that tried.
Submit(w, r, found, connects) ==
    IF \E x \in w.listed : Id(x) = Id(r) THEN DeleteAsync(Callback(w, r, "RateLimit", FALSE), r)
    ELSE IF GetPolarisService # NULL /\ ~found THEN DeleteAsync(Callback(w, r, "SelectFailed", FALSE), r)
    ELSE LET listed == [w EXCEPT !.listed = @ \cup {r}, !.async[r].server = GetPolarisService # NULL,
                                 !.async[r].net = "connecting"]
         IN IF connects THEN listed
            ELSE OnConnect([listed EXCEPT !.async[r].net = "connected"], r, "NetworkFailed", FALSE)

\* The data of the system service may be there or not.
CheckServiceReady == BOOLEAN

AsyncRequestSubmit(w, r, ready, found, connects) ==
    LET run == [w EXCEPT !.async[r] = [Use(@) EXCEPT !.retry = FALSE]]
    IN IF run.async[r].late THEN DeleteAsync(Callback(run, r, "Timeout", FALSE), r)
       ELSE IF ~ready THEN [run EXCEPT !.async[r].retry = TRUE]
       ELSE Submit(run, r, found, connects)

NewAsyncRequest(w, r) == SubmitTask([w EXCEPT !.async[r] = [NoAsync EXCEPT !.mem = "live"]], <<"submit", r>>)

----------------------------------------------------------------------------
(***************************************************************************)
(* The provider's thread                                                   *)
(***************************************************************************)
Init ==
    /\ setup \in Setups
    /\ caller = [pc |-> "idle", op |-> NULL, calls |-> 0, tries |-> 0, left |-> 0, attempt |-> 0,
                 got |-> NULL, known |-> FALSE]
    /\ objects = [block |-> [a \in 1..setup.attempts |-> NoRequest], async |-> [r \in Asyncs |-> NoAsync],
                  queue |-> <<>>, listed |-> {}, report |-> ReportClient, phase |-> "running"]

Become(w) == objects' = w /\ UNCHANGED <<setup, caller>>

\* A call of the ProviderApi. A request that fails its check ends at once.
Call(op) ==
    /\ caller.pc = "idle" /\ caller.calls < setup.calls /\ objects.phase = "running"
    /\ \E valid \in BOOLEAN :
          caller' = [caller EXCEPT !.pc = IF valid THEN "try" ELSE "idle", !.op = op, !.calls = @ + 1,
                                   !.tries = setup.tries, !.left = setup.time, !.got = IF valid THEN NULL ELSE "InvalidArgument"]
    /\ UNCHANGED <<setup, objects>>

Register == Call("Register")
Deregister == Call("Deregister")
Heartbeat == Call("Heartbeat")

\* registeredInstances_ follows the calls that succeed.
Registered(c) ==
    CASE c.got = "Ok" /\ c.op = "Register" -> TRUE
      [] c.got = "Ok" /\ c.op = "Deregister" -> FALSE
      [] OTHER -> c.known

\* What follows an attempt that returned c.got: a retry of a failure of the
\* network or the server after a pause, while there is time.
Return(c) ==
    LET ended == [c EXCEPT !.pc = "idle", !.tries = 0, !.left = 0, !.known = Registered(c)]
    IN IF c.got \notin {"NetworkFailed", "ServerError"} THEN {ended}
       ELSE {ended} \cup {[c EXCEPT !.pc = "try", !.left = left - 1] : left \in 1..c.left}

\* The retry that is not made for lack of tries or time.
Exhausted ==
    /\ caller.pc = "try" /\ (caller.tries = 0 \/ caller.left = 0)
    /\ caller' = [caller EXCEPT !.pc = "idle", !.tries = 0, !.left = 0, !.known = Registered(caller)]
    /\ UNCHANGED <<setup, objects>>

\* The instance is chosen and connected to in this thread; it may not be found,
\* not answer, or answer when the time is over. Then the request is left to the
\* reactor.
PrepareClient ==
    /\ caller.pc = "try" /\ caller.tries > 0 /\ caller.left > 0 /\ caller.attempt < setup.attempts
    /\ LET a == caller.attempt + 1
           c == [caller EXCEPT !.tries = @ - 1, !.attempt = a]
           failed == Return([c EXCEPT !.got = "NetworkFailed"])
       IN \/ /\ GetPolarisService # NULL
             /\ objects' = [objects EXCEPT !.block[a] = DeleteBlockRequest([NoRequest EXCEPT !.mem = "live"])]
             /\ caller' \in failed
          \/ /\ objects' = [objects EXCEPT !.block[a] =
                                DeleteBlockRequest(UpdateCallResult([NewBlockRequest EXCEPT !.code = "ConnectError"]))]
             /\ caller' \in failed
          \/ /\ objects' = SubmitTask([objects EXCEPT !.block[a] = [NewBlockRequest EXCEPT !.state = Promise]],
                                   <<"block", a>>)
             /\ caller' = [c EXCEPT !.pc = "submitted"]
    /\ UNCHANGED setup

\* The end of SendRequest, and GetTimeout: the thread reads the request that
\* the reactor has.
SendRequest ==
    /\ caller.pc = "submitted"
    /\ objects' = [objects EXCEPT !.block[caller.attempt] = [Use(@) EXCEPT !.state = GetFuture(@)]]
    /\ caller' = [caller EXCEPT !.pc = "waiting"]
    /\ UNCHANGED setup

\* The wait ends with the answer or the timeout, and the future is deleted.
WaitEnds ==
    /\ caller.pc = "waiting"
    /\ LET s == Use(objects.block[caller.attempt].state)
       IN /\ objects' = [objects EXCEPT !.block[caller.attempt].state = Release(GetValue(s))]
          /\ caller' \in Return([caller EXCEPT !.got = Result(s)])
    /\ UNCHANGED setup

RegisterInstance == caller.op = "Register" /\ (PrepareClient \/ SendRequest \/ WaitEnds)
DeregisterInstance == caller.op = "Deregister" /\ (PrepareClient \/ SendRequest \/ WaitEnds)
InstanceHeartbeat == caller.op = "Heartbeat" /\ (PrepareClient \/ SendRequest \/ WaitEnds)

\* ProviderApi::AsyncHeartbeat; one that is refused has no callback.
AsyncHeartbeat(r) ==
    /\ r \in setup.heartbeats /\ objects.async[r].mem = "none" /\ objects.phase = "running"
    /\ Become(NewAsyncRequest(objects, r))

----------------------------------------------------------------------------
(***************************************************************************)
(* The cache thread                                                        *)
(***************************************************************************)
\* The memory of the next request: the one before it may still be waiting to be
\* deleted.
Vacant == CHOOSE r \in setup.reports : objects.async[r].mem \in {"none", "freed"}

AsyncReportClient(w) == NewAsyncRequest(w, Vacant)

\* Without an address to report, or when the connector refuses, it tries again
\* after the interval.
DoTask(w) == {[w EXCEPT !.report.timers = @ + 1], AsyncReportClient(w)}

RunReportTask ==
    /\ objects.phase = "running" /\ objects.report.queue # <<>>
    /\ LET w == [objects EXCEPT !.report.queue = Tail(@)]
       IN \E next \in (IF Head(objects.report.queue) = "do" THEN DoTask(w) ELSE {[w EXCEPT !.report.timers = @ + 1]}) :
             Become(next)

ReportTimer ==
    /\ objects.phase = "running" /\ objects.report.timers > 0
    /\ \E next \in DoTask([objects EXCEPT !.report.timers = @ - 1]) : Become(next)

----------------------------------------------------------------------------
(***************************************************************************)
(* The thread of the connector's reactor                                   *)
(***************************************************************************)
Running == objects.phase # "destroyed"

RunPendingTask ==
    /\ Running /\ objects.queue # <<>>
    /\ LET task == Head(objects.queue)
           w == [objects EXCEPT !.queue = Tail(@)]
       IN \/ /\ task[1] = "block"
             /\ \E fails \in BOOLEAN : Become([w EXCEPT !.block[task[2]] = BlockRequestTask(@, fails)])
          \/ /\ task[1] = "submit"
             /\ \E ready \in CheckServiceReady, found, connects \in BOOLEAN :
                   Become(AsyncRequestSubmit(w, task[2], ready, found, connects))
          \/ task[1] = "delete" /\ Become(DeleteAsync(w, task[2]))

SubmitAgain(r) ==
    /\ Running /\ objects.async[r].retry
    /\ \E ready \in CheckServiceReady, found, connects \in BOOLEAN :
          Become(AsyncRequestSubmit(objects, r, ready, found, connects))

Connected(r) ==
    /\ Running /\ objects.async[r].net = "connecting"
    /\ \E code \in {"Ok", "NetworkFailed", "Timeout"}, fails \in BOOLEAN :
          Become(OnConnect([objects EXCEPT !.async[r].net = "connected"], r, code, fails))

\* The time of a request runs out. What is late stays late.
TimePasses(r) ==
    /\ Running /\ objects.async[r].mem = "live" /\ objects.async[r].called = <<>> /\ ~objects.async[r].late
    /\ ~objects.async[r].timer
    /\ Become([objects EXCEPT !.async[r].late = TRUE])

RequestTimer(r) == Running /\ objects.async[r].timer /\ Become(RequsetTimeoutCheck(objects, r))

\* Answers and failures; the GrpcRequest passes on one of them.
Answered(r) ==
    /\ Running /\ objects.async[r].net = "sent"
    /\ \/ \E response \in Responses : Become(AsyncSuccess(objects, r, response))
       \/ Become(AsyncFailure(objects, r))

BlockAnswered(a) ==
    /\ Running /\ objects.block[a].net = "sent"
    /\ \/ \E response \in Responses \ {"NoLocation"} : Become([objects EXCEPT !.block[a] = OnSuccess(@, response)])
       \/ Become([objects EXCEPT !.block[a] = OnFailure(@)])

\* The timer of request_timeout_ ms is taken to be longer than the few
\* statements between SubmitTask and Wait: nothing else keeps the request alive
\* for them.
BlockTimer(a) ==
    /\ Running /\ objects.block[a].timer
    /\ ~(caller.pc = "submitted" /\ caller.attempt = a)
    /\ Become([objects EXCEPT !.block[a] = BlockRequestTimeout(@)])

----------------------------------------------------------------------------
(***************************************************************************)
(* The end of the context, when no call is under way: the cache thread     *)
(* ends first, then the connector with its thread, its map and its reactor *)
(***************************************************************************)
StopEngine ==
    /\ objects.phase = "running" /\ caller.pc = "idle" /\ setup.stops
    /\ Become([objects EXCEPT !.phase = "stopping"])

\* A task that has not run deletes the request it holds.
DropTask(w, task) ==
    IF task[1] = "block" THEN [w EXCEPT !.block[task[2]] = DeleteBlockRequest(@)] ELSE DeleteAsync(w, task[2])

Destroyed(w) ==
    LET delete(x, rs) == FoldSet(LAMBDA r, y : DeleteAsync(y, r), x, rs)
        mapped == delete(w, w.listed)
        timers == [delete(mapped, {r \in Asyncs : w.async[r].retry}) EXCEPT
                      !.block = [a \in DOMAIN @ |-> IF @[a].timer THEN DeleteBlockRequest(@[a]) ELSE @[a]]]
    IN [FoldLeft(DropTask, timers, w.queue) EXCEPT !.phase = "destroyed", !.queue = <<>>, !.listed = {}]

DestroyConnector == objects.phase = "stopping" /\ Become(Destroyed(objects))

----------------------------------------------------------------------------
Next ==
    \/ Register \/ Deregister \/ Heartbeat \/ Exhausted
    \/ RegisterInstance \/ DeregisterInstance \/ InstanceHeartbeat
    \/ RunReportTask \/ ReportTimer \/ RunPendingTask \/ StopEngine \/ DestroyConnector
    \/ \E r \in Asyncs : \/ AsyncHeartbeat(r) \/ SubmitAgain(r) \/ Connected(r) \/ TimePasses(r)
                         \/ RequestTimer(r) \/ Answered(r)
    \/ \E a \in DOMAIN objects.block : BlockAnswered(a) \/ BlockTimer(a)

Spec == Init /\ [][Next]_requestVars

----------------------------------------------------------------------------
(***************************************************************************)
(* Properties                                                              *)
(***************************************************************************)
Queued(task) == Cardinality({i \in DOMAIN objects.queue : objects.queue[i] = task})
One(condition) == IF condition THEN 1 ELSE 0

Asked(r) == objects.async[r].mem = "live" /\ objects.async[r].called = <<>>

\* Every request that is alive has exactly one holder that will delete it,
\* whatever has happened to it, none is touched after its deletion, and the
\* end of the connector deletes all of them. A submitted request never waits
\* for nothing: its connection or its own timer calls it.
RequestsOwned ==
    /\ \A a \in DOMAIN objects.block :
          LET b == objects.block[a] IN
          /\ b.mem # "fault"
          /\ b.mem = "live" => Running /\ Queued(<<"block", a>>) + One(b.timer) = 1
    /\ \A r \in Asyncs :
          LET o == objects.async[r] IN
          /\ o.mem # "fault"
          /\ o.mem = "live" => /\ Running
                               /\ Queued(<<"submit", r>>) + Queued(<<"delete", r>>)
                                    + One(o.retry) + One(r \in objects.listed) = 1
                               /\ r \in objects.listed => o.net = "connecting" \/ o.timer

\* The state between promise and future lives as long as either end, and the
\* caller gets what the server's answer was turned into, or a timeout.
FuturesSound ==
    /\ caller.pc \in {"idle", "try"} /\ caller.got \notin {NULL, "InvalidArgument", "Timeout"} =>
          LET told == objects.block[caller.attempt].told
          IN told = caller.got \/ (told = NULL /\ caller.got = "NetworkFailed")
    /\ \A a \in DOMAIN objects.block :
          LET b == objects.block[a]
              waiting == caller.pc = "waiting" /\ caller.attempt = a
          IN b.state # NULL =>
                /\ b.state.mem # "fault"
                /\ b.state.refs = One(b.mem = "live") + One(waiting)
                /\ (b.state.mem = "freed") = (b.state.refs = 0)
                /\ b.state.ready /\ waiting => (b.state.error = NULL) = (b.state.value # NULL)

\* The call to a server instance is counted exactly once, and as a success only
\* when the server has answered: a request whose answer never comes must not
\* keep a broken server in use.
CallsCounted ==
    /\ \A a \in DOMAIN objects.block :
          LET b == objects.block[a] IN
          /\ Len(b.results) <= 1
          /\ b.chosen /\ b.mem = "freed" /\ Running => Len(b.results) = 1
          /\ \A i \in DOMAIN b.results :
                (b.results[i] \in ErrorCodes) = (b.told \in {NULL, "NetworkFailed", "ServerError"})
    /\ \A r \in Asyncs :
          LET o == objects.async[r] IN
          /\ Len(o.results) = One(o.server /\ o.called # <<>>)
          /\ o.mem = "freed" /\ Running => Len(o.called) = 1
          /\ Len(o.called) <= 1

\* The report of the client goes on, by one request, task or timer at a time.
OneReport ==
    setup.reports # {} /\ objects.phase = "running" =>
        Len(objects.report.queue) + objects.report.timers + Cardinality({r \in setup.reports : Asked(r)}) = 1

\* What this module shows of blocking and asynchronous requests
RequestsSound == RequestsOwned /\ FuturesSound /\ CallsCounted /\ OneReport
=============================================================================
