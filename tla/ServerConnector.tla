--------------------------- MODULE ServerConnector ---------------------------
(***************************************************************************)
(* Discovery over one stream: the listeners of GrpcServerConnector, their  *)
(* requests and timers, and the state machine that moves the stream from   *)
(* server to server (plugin/server_connector/grpc_server_connector.cpp),   *)
(* with the connect callback of the Http2Client below it.                  *)
(*                                                                         *)
(* Handlers run one at a time on the reactor thread, so each event is one  *)
(* action; a handler that calls others is an operator from a state q of    *)
(* the connector to the next one.  Timers have no clock: one that is in    *)
(* the reactor may run.  API threads only submit DiscoverEventTasks.       *)
(*                                                                         *)
(* A service stands for a ServiceKeyWithType.  Left out: the length of     *)
(* timeouts, UpdateCallResult's statistics, cache_version_, and requests   *)
(* that do not use the stream (BlockRequest, AsyncRequest).                *)
(***************************************************************************)
EXTENDS Integers, Sequences, FiniteSets

CONSTANTS
  Services,
  Revisions,    \* of the data servers have
  NULL,
  Setups        \* configurations Init chooses from: [discover, start, disk, faults, moves, calls]

NotFound == "NotFound"
Empty == "empty"           \* the empty revision string

(* State of a Http2Client. *)
ClientType ==
  [state : {"connecting", "failed", "connected"}, callback : BOOLEAN, at : {"seed", "instance"}]

ASSUME ConstantsAssumption ==
  /\ NULL \notin Services \cup Revisions \cup ClientType
  /\ Revisions \cap {NotFound, Empty} = {}
  /\ Setups \subseteq [discover : Services \cup {NULL}, start : SUBSET (Revisions \cup {NotFound}),
                       disk : SUBSET (Revisions \cup {Empty}), faults : Nat, moves : Nat, calls : Nat]

VARIABLES
  setup,
  q,        \* state of the connector, see Connector
  server,   \* [Services -> revision of the data, or NotFound]
  files,    \* [Services -> revision in the file of a service, or Empty]
  asked,    \* services whose last call was RegisterEventHandler
  faults,   \* bound: failures, timeouts and periodic switches still to come
  moves,    \* bound: changes of the servers' data still to come
  calls     \* bound: calls of API threads still to come

vars == <<setup, q, server, files, asked, faults, moves, calls>>

(* GetDiscoverService(), NULL when the configuration names none *)
discover_service == setup.discover

Task(s, handler, revision) == [service |-> s, handler |-> handler, revision |-> revision]

(* ServiceListener; discover and timeout tell whether discover_task_iter_  *)
(* and timeout_task_iter_ are other than TimingTaskEnd().                  *)
Listener(revision) ==
  [revision |-> revision, ret_code |-> "0", discover |-> FALSE, timeout |-> FALSE]

(* Http2Client: callback tells whether callback_ is set *)
Client(at) == [state |-> "connecting", callback |-> TRUE, at |-> at]

(* tasks and switches count what the reactor holds: TimingDiscover and     *)
(* DiscoverTimoutCheck of each service, TimingServerSwitch.  sent are the  *)
(* requests of a service on the current stream that are not answered,      *)
(* data what the handlers gave to the registry, dying a client that waits  *)
(* for its DeferDeleteTask.                                                *)
Connector ==
  [queue |-> <<>>, listeners |-> <<>>, pending |-> {},
   tasks |-> [s \in Services |-> [discover |-> 0, timeout |-> 0]], switches |-> 0,
   stream_state |-> "NotInit", switch_state |-> "Init",
   client |-> NULL, dying |-> NULL, stream |-> FALSE,
   sent |-> [s \in Services |-> <<>>], data |-> [s \in Services |-> NULL],
   fault |-> FALSE]

PolarisAssert(p, holds) == IF holds THEN p ELSE [p EXCEPT !.fault = TRUE]
Registered(p) == DOMAIN p.listeners
Erase(f, x) == [y \in DOMAIN f \ {x} |-> f[y]]
Insert(f, x, v) == [y \in DOMAIN f \cup {x} |-> IF y = x THEN v ELSE f[y]]

-----------------------------------------------------------------------------
(* Requests *)

(* A faulty variant: other services do not wait for the discover service.  *)
SendableAnyway(p, s) == p.stream

(* SendDiscoverRequest returns true; without a discover service it moves   *)
(* discover_stream_state_ on the way.                                      *)
Sendable(p, s) ==
  p.stream /\ (p.stream_state = "Init" \/ discover_service \in {NULL, s})

(* Timeout checks of the services of S come to the reactor or go (n), and  *)
(* the iterators of the listeners: those in keep stay, those in set begin. *)
Timeouts(p, S, n) ==
  [s \in Services |-> [discover |-> p.tasks[s].discover,
                       timeout |-> p.tasks[s].timeout + (IF s \in S THEN n ELSE 0)]]
TimeoutFlags(p, keep, set) ==
  [s \in Registered(p) |->
     [p.listeners[s] EXCEPT !.timeout = (s \in keep /\ p.listeners[s].timeout) \/ s \in set]]

(* SendDiscoverRequest for the services of S                               *)
SendDiscoverRequest(p, S) ==
  LET ready == {s \in S : Sendable(p, s)}
      new   == {s \in ready : ~p.listeners[s].timeout}
  IN [p EXCEPT
        !.stream_state = IF p.stream /\ S # {} /\ discover_service = NULL THEN "Init" ELSE @,
        !.sent  = [s \in Services |-> IF s \in new
                                      THEN Append(p.sent[s], p.listeners[s].revision)
                                      ELSE p.sent[s]],
        !.tasks = Timeouts(p, new, 1),
        !.listeners = TimeoutFlags(p, Registered(p), ready)]

(* A request that cannot be sent waits for the next connection.            *)
SendOrWait(p, s) ==
  [SendDiscoverRequest(p, {s}) EXCEPT !.pending = IF Sendable(p, s) THEN @ ELSE @ \cup {s}]

CancelTimeout(p, S) ==
  [p EXCEPT
     !.tasks = Timeouts(p, {s \in S : p.listeners[s].timeout}, -1),
     !.listeners = TimeoutFlags(p, Registered(p) \ S, {})]

-----------------------------------------------------------------------------
(* Change of server *)

(* A faulty variant: the callback is not cancelled.                        *)
DeleteClientKeepingCallback(p) ==
  [p EXCEPT !.dying = p.client,
            !.stream = FALSE, !.sent = [s \in Services |-> <<>>]]

(* ~GrpcClient and CancalConnect: the Http2Client lives on until its       *)
(* DeferDeleteTask, without callback.                                      *)
DeleteClient(p) ==
  [p EXCEPT !.dying = IF p.client = NULL THEN NULL ELSE [p.client EXCEPT !.callback = FALSE],
            !.stream = FALSE, !.sent = [s \in Services |-> <<>>]]

(* Faulty variants: the timer of a connection in use is left, and services *)
(* whose request is under way are not sent again.                          *)
ServerSwitchKeepingTimer(p, found) ==
  LET waiting == {s \in Registered(p) : p.listeners[s].timeout}
  IN [DeleteClient(CancelTimeout(p, waiting)) EXCEPT
        !.pending = @ \cup waiting,
        !.switches = @ + 1,
        !.switch_state = "Begin",
        !.stream_state = IF found THEN "Init" ELSE "NotInit",
        !.client = Client(IF found THEN "instance" ELSE "seed")]
ServerSwitchNoPending(p, found) ==
  LET waiting == {s \in Registered(p) : p.listeners[s].timeout}
      kept    == IF p.switch_state \in {"Normal", "Begin"} THEN p.switches - 1 ELSE p.switches
  IN [DeleteClient(CancelTimeout(p, waiting)) EXCEPT
        !.switches = kept + 1,
        !.switch_state = "Begin",
        !.stream_state = IF found THEN "Init" ELSE "NotInit",
        !.client = Client(IF found THEN "instance" ELSE "seed")]

(* ServerSwitch, when SelectInstance finds an instance (found) or is not   *)
(* called or finds none.                                                   *)
ServerSwitch(p, found) ==
  LET waiting == {s \in Registered(p) : p.listeners[s].timeout}
      kept    == IF p.switch_state \in {"Normal", "Begin"} THEN p.switches - 1 ELSE p.switches
  IN [DeleteClient(CancelTimeout(p, waiting)) EXCEPT
        !.pending = @ \cup waiting,
        !.switches = kept + 1,
        !.switch_state = "Begin",
        !.stream_state = IF found THEN "Init" ELSE "NotInit",
        !.client = Client(IF found THEN "instance" ELSE "seed")]

(* The registry has instances of the discover service to choose from.      *)
Selectable(p) ==
  /\ discover_service # NULL
  /\ p.stream_state # "NotInit"
  /\ p.data[discover_service] \in Revisions

(* The event that led to state p ends with ServerSwitch.  cost is what it  *)
(* takes from the bound on failures; so does a SelectInstance that fails   *)
(* though there are instances.                                             *)
Switch(p, cost) ==
  /\ p.dying = NULL      \* bound: one client to be deleted at a time
  /\ \E found \in BOOLEAN :
       /\ found => Selectable(p)
       /\ faults' = faults - cost - (IF Selectable(p) /\ ~found THEN 1 ELSE 0)
       /\ faults' >= 0
       /\ q' = ServerSwitch(p, found)
  /\ UNCHANGED <<setup, server, files, asked, moves, calls>>

(* OnDiscoverConnect(begin_time, kReturnOk) *)
OnDiscoverConnect(p) ==
  LET ok   == PolarisAssert(p, p.client # NULL /\ ~p.stream /\ p.switch_state = "Begin")
      open == [ok EXCEPT !.switch_state = "Normal", !.stream = TRUE]
  IN [SendDiscoverRequest(open, open.pending) EXCEPT
        !.pending = {s \in @ : ~Sendable(open, s)}]

-----------------------------------------------------------------------------
(* Answers *)

Code(s, revision) ==
  CASE server[s] = NotFound -> "NotFound"
    [] server[s] = revision -> "DataNoChange"
    [] OTHER                -> "ExecuteSuccess"

(* UpdateRevision: the listener after the answer, and whether its handler  *)
(* gets new data.                                                          *)
IsUpdate(l, code, revision) ==
  CASE code = "DataNoChange"   -> FALSE
    [] code = "ExecuteSuccess" -> l.ret_code # code \/ l.revision # revision
    [] code = "NotFound"       -> l.ret_code # code

(* A faulty variant: "not found" leaves the revision of the data before it.*)
UpdateRevisionKept(l, code, revision) ==
  [l EXCEPT !.ret_code = code,
            !.revision = IF code = "ExecuteSuccess" THEN revision ELSE @]

UpdateRevision(l, code, revision) ==
  [l EXCEPT !.ret_code = code,
            !.revision = CASE code = "ExecuteSuccess" -> revision
                           [] code = "NotFound" /\ l.ret_code # code -> Empty
                           [] OTHER -> @]

(* The discover service is known: the stream leaves the seed server at     *)
(* once.  The timer of the switch is cancelled and set to 0.               *)
SwitchFromSeed(p, s, code) ==
  IF code # "NotFound" /\ p.stream_state = "NotInit" /\ s = discover_service
  THEN [p EXCEPT !.switch_state = "Default", !.stream_state = "GetInstance"]
  ELSE p

SetDiscoverTask(p, s) ==
  IF p.listeners[s].discover THEN p
  ELSE [p EXCEPT !.listeners[s].discover = TRUE, !.tasks[s].discover = @ + 1,
                 !.pending = @ \ {s}]

ProcessDiscoverResponse(p, s, code) ==
  IF s \notin Registered(p) THEN p
  ELSE LET l    == p.listeners[s]
           told == [CancelTimeout(p, {s}) EXCEPT
                      !.listeners[s] = UpdateRevision(@, code, server[s]),
                      !.data[s] = IF IsUpdate(l, code, server[s]) THEN server[s] ELSE @]
       IN SetDiscoverTask(SwitchFromSeed(told, s, code), s)

Receive(p, s) == [p EXCEPT !.sent[s] = Tail(@)]

-----------------------------------------------------------------------------
(* Calls of API threads *)

(* LoadServiceDataWithNotify gives the registry what is in the file of the *)
(* service before it registers the handler.                                *)
Load(p, s) ==
  [p EXCEPT !.queue = Append(@, Task(s, TRUE, files[s])),
            !.data[s] = IF files[s] = Empty THEN @ ELSE files[s]]

RegisterEventHandler(s) ==
  /\ calls > 0 /\ s \notin asked
  /\ q' = Load(q, s)
  /\ asked' = asked \cup {s}
  /\ calls' = calls - 1
  /\ UNCHANGED <<setup, server, files, faults, moves>>

(* CheckExpireServiceData; the file goes too.  The discover service does   *)
(* not expire: each periodic switch uses it.                               *)
DeregisterEventHandler(s) ==
  /\ calls > 0 /\ s \in asked /\ s # discover_service
  /\ q' = [q EXCEPT !.queue = Append(@, Task(s, FALSE, Empty)), !.data[s] = NULL]
  /\ files' = [files EXCEPT ![s] = Empty]
  /\ asked' = asked \ {s}
  /\ calls' = calls - 1
  /\ UNCHANGED <<setup, server, faults, moves>>

-----------------------------------------------------------------------------
(* Events of the reactor *)

Quiet == UNCHANGED <<setup, server, files, asked, faults, moves, calls>>

Fault == /\ faults > 0
         /\ faults' = faults - 1
         /\ UNCHANGED <<setup, server, files, asked, moves, calls>>

(* ThreadFunction: the first connection, before the event loop runs        *)
Start == q.client = NULL /\ Switch(q, 0)
Running == q.client # NULL

Deregister(p, s) ==
  LET known == PolarisAssert(p, s \in Registered(p))
      l     == p.listeners[s]
  IN IF s \notin Registered(p) THEN known
     ELSE [CancelTimeout(p, {s}) EXCEPT
             !.tasks[s].discover = IF l.discover THEN @ - 1 ELSE @,
             !.pending = @ \ {s},
             !.data[s] = NULL,
             !.listeners = Erase(@, s)]

Register(p, s, revision) ==
  IF s \in Registered(p) THEN PolarisAssert(p, FALSE)
  ELSE SendOrWait([p EXCEPT !.listeners = Insert(@, s, Listener(revision))], s)

ProcessQueuedListener ==
  /\ Running /\ q.queue # <<>>
  /\ LET t    == Head(q.queue)
         rest == [q EXCEPT !.queue = Tail(@)]
     IN q' = IF t.handler THEN Register(rest, t.service, t.revision)
                          ELSE Deregister(rest, t.service)
  /\ Quiet

TimingDiscover(s) ==
  /\ q.tasks[s].discover > 0
  /\ q' = SendOrWait([q EXCEPT !.tasks[s].discover = @ - 1,
                               !.listeners[s].discover = FALSE], s)
  /\ Quiet

(* The check costs nothing when the answer will not come.                  *)
DiscoverTimoutCheck(s) ==
  /\ q.tasks[s].timeout > 0
  /\ Switch([q EXCEPT !.tasks[s].timeout = @ - 1, !.listeners[s].timeout = FALSE,
                      !.pending = @ \cup {s}],
            IF q.sent[s] = <<>> THEN 0 ELSE 1)

(* OnReceiveMessage with data or "not found"                               *)
OnReceiveMessage(s) ==
  /\ q.sent[s] # <<>>
  /\ q' = ProcessDiscoverResponse(Receive(q, s), s, Code(s, Head(q.sent[s])))
  /\ Quiet

(* A code that is neither, or an unknown type: the answer is dropped and   *)
(* the timeout check stays.  So it is when the answer is lost.             *)
OnReceiveInvalid(s) ==
  /\ q.sent[s] # <<>>
  /\ q' = Receive(q, s)
  /\ Fault

OnReceiveServerError(s) ==
  /\ q.sent[s] # <<>>
  /\ Switch(Receive(q, s), 1)

OnRemoteClose == q.stream /\ Switch(q, 1)

(* A switch that is due at once, or after a failed connect, costs nothing. *)
TimingServerSwitch ==
  /\ Running /\ q.switches > 0
  /\ Switch([q EXCEPT !.switches = @ - 1,
                      !.switch_state = IF @ = "Begin" THEN "Timeout" ELSE "Periodic"],
            IF q.switch_state = "Default" \/ q.client.state = "failed" THEN 0 ELSE 1)

(* Http2Client::OnConnectCallback *)
Connected ==
  /\ Running /\ q.client.state = "connecting"
  /\ q' = OnDiscoverConnect([q EXCEPT !.client.state = "connected",
                                      !.client.callback = FALSE])
  /\ Quiet

(* OnDiscoverConnect with an error returns: the switch timer will retry.   *)
ConnectFailed ==
  /\ Running /\ q.client.state = "connecting"
  /\ q' = [q EXCEPT !.client.state = "failed", !.client.callback = FALSE]
  /\ Fault

(* The socket of a client that waits to be deleted becomes writable.       *)
DyingConnected ==
  /\ q.dying # NULL /\ q.dying.state = "connecting"
  /\ LET p == [q EXCEPT !.dying.state = "connected"]
     IN q' = IF q.dying.callback THEN OnDiscoverConnect(p) ELSE p
  /\ Quiet

DeferDelete ==
  /\ q.dying # NULL
  /\ q' = [q EXCEPT !.dying = NULL]
  /\ Quiet

(* The servers' data changes. *)
Change(s) ==
  /\ moves > 0
  /\ \E d \in (Revisions \cup {NotFound}) \ {server[s]} : server' = [server EXCEPT ![s] = d]
  /\ moves' = moves - 1
  /\ UNCHANGED <<setup, q, files, asked, faults, calls>>

-----------------------------------------------------------------------------
Init ==
  /\ setup \in Setups
  /\ server \in [Services -> setup.start]
  /\ files \in [Services -> setup.disk]
  /\ q = IF setup.discover = NULL THEN Connector ELSE Load(Connector, setup.discover)
  /\ asked = {setup.discover} \ {NULL}
  /\ faults = setup.faults /\ moves = setup.moves /\ calls = setup.calls

Next ==
  \/ Start \/ ProcessQueuedListener \/ OnRemoteClose \/ TimingServerSwitch
  \/ Connected \/ ConnectFailed \/ DyingConnected \/ DeferDelete
  \/ \E s \in Services :
       \/ RegisterEventHandler(s) \/ DeregisterEventHandler(s) \/ Change(s)
       \/ TimingDiscover(s) \/ DiscoverTimoutCheck(s) \/ OnReceiveMessage(s)
       \/ OnReceiveInvalid(s) \/ OnReceiveServerError(s)

Spec == Init /\ [][Next]_vars

(* The event loop runs: tasks and timers of the reactor get their turn, a  *)
(* connect that does not fail succeeds and a server that does not fail     *)
(* answers.  Calls, changes of data and failures are not forced.           *)
Fairness ==
  /\ WF_vars(Start) /\ WF_vars(ProcessQueuedListener) /\ WF_vars(TimingServerSwitch)
  /\ WF_vars(Connected) /\ WF_vars(DeferDelete)
  /\ \A s \in Services : /\ WF_vars(TimingDiscover(s))
                         /\ WF_vars(DiscoverTimoutCheck(s))
                         /\ WF_vars(OnReceiveMessage(s))

FairSpec == Spec /\ Fairness

-----------------------------------------------------------------------------
(* Type of the connector's state, with the counts of timers bounded by the *)
(* iterators a listener has for them.                                      *)
TypeOK ==
  /\ setup \in Setups
  /\ server \in [Services -> Revisions \cup {NotFound}]
  /\ files \in [Services -> Revisions \cup {Empty}]
  /\ asked \subseteq Services
  /\ faults \in Nat /\ moves \in Nat /\ calls \in Nat
  /\ Registered(q) \subseteq Services
  /\ \A s \in Registered(q) :
       q.listeners[s] \in [revision : Revisions \cup {Empty},
                           ret_code : {"0", "DataNoChange", "ExecuteSuccess", "NotFound"},
                           discover : BOOLEAN, timeout : BOOLEAN]
  /\ q.pending \subseteq Registered(q)
  /\ q.tasks \in [Services -> [discover : 0 .. 1, timeout : 0 .. 1]]
  /\ q.switches \in Nat
  /\ q.stream_state \in {"NotInit", "GetInstance", "Init"}
  /\ q.switch_state \in {"Init", "Begin", "Normal", "Default"}
  /\ {q.client, q.dying} \subseteq ClientType \cup {NULL}
  /\ q.stream \in BOOLEAN
  /\ \A s \in Services : q.data[s] \in Revisions \cup {NotFound, NULL}

(* What ProcessQueuedListener asserts of registrations (each is of a new   *)
(* service, each deregistration of a known one) and OnDiscoverConnect of   *)
(* the switch (no stream yet, a connection is awaited) holds whatever      *)
(* callbacks of clients already deleted come late.                         *)
AssertsHold == ~q.fault

(* Each registered listener is in exactly one of three places: a timer     *)
(* until its next request, a check of the request under way, or the set    *)
(* pending_for_connected_; and the reactor holds no other timer for it,    *)
(* nor one for a listener that was deleted.                                *)
OneWayForward ==
  \A s \in Services :
    LET next == q.tasks[s].discover + q.tasks[s].timeout
                  + (IF s \in q.pending THEN 1 ELSE 0)
    IN IF s \in Registered(q)
       THEN /\ next = 1
            /\ q.listeners[s].discover <=> q.tasks[s].discover = 1
            /\ q.listeners[s].timeout <=> q.tasks[s].timeout = 1
       ELSE next = 0

(* When a discover service is configured, a seed server is asked for that  *)
(* service and for nothing else, whichever way the stream came to it, and  *)
(* a stream to an instance is open to all services.                        *)
SeedServesDiscoverOnly ==
  q.client # NULL /\ discover_service # NULL =>
    /\ q.client.at = "seed" => \A s \in Services \ {discover_service} : q.sent[s] = <<>>
    /\ q.client.at = "instance" <=> q.stream_state = "Init"

(* There is always a timer that will change or retry the connection.  One  *)
(* more than before comes about in two ways only: at the start, and when   *)
(* an error arrives after the discover service was found and before the    *)
(* timer set for 0 ms has run (ServerSwitch does not cancel it in state    *)
(* kServerSwitchDefault).                                                  *)
SwitchPending == q.client # NULL => q.switches > 0
OneMoreSwitch == q'.switches > q.switches => q.switch_state \in {"Init", "Default"}
SwitchTimers == []SwitchPending /\ [][OneMoreSwitch]_vars

(* Once servers answer and their data stays as it is, the registry gets    *)
(* that data for each registered service, the last failure, registration   *)
(* and change of data included.  A discover service that is configured     *)
(* must exist: the others wait for it.                                     *)
Current(s) ==
  /\ q.queue = <<>> /\ s \in Registered(q)
  /\ discover_service = NULL \/ server[discover_service] # NotFound
  => q.data[s] = server[s]
Converges == \A s \in Services : <>[]Current(s)
=============================================================================
