----------------------------- MODULE MCDiscovery -----------------------------
(* What goes to the servers and who waits for it, in three parts that TLC  *)
(* takes one at a time: the connector's discovery stream                   *)
(* (ServerConnector), asynchronous queries that wait for its answers       *)
(* (InstancesFuture), and the requests of providers and of the client      *)
(* itself (Requests).  The initial state chooses the part; the variables   *)
(* of the others stay <<>>.                                                *)
EXTENDS MCServerConnector

VARIABLES part, store, notified, future, watcher, listening, tasks, called, caller, objects

connectorVars == <<q, server, files, asked, faults, moves, calls>>
queryVars == <<store, notified, future, watcher, listening, tasks, called>>
requestVars == <<caller, objects>>

(* One query that also needs the rules of another service, or of its own;  *)
(* two queries for instances alone.                                        *)
Other == [futures |-> {1}, rule |-> TRUE, source |-> "other", data |-> {"none"}]
Same == [Other EXCEPT !.source = "same", !.data = {"none", "disk", "ok", "gone"}]
Two == [Same EXCEPT !.futures = {1, 2}, !.rule = FALSE, !.source = NULL]

Query == INSTANCE InstancesFuture WITH Setups <- {Other, Same, Two}

(* Two calls of a provider with a retry, and one that knows only seed      *)
(* servers; two heartbeats, also when their ids are the same; the report   *)
(* of the client with one retry of each kind.                              *)
Calls ==
  [attempts |-> 2, calls |-> 2, tries |-> 2, time |-> 2, heartbeats |-> {}, reports |-> {},
   seeds |-> FALSE, wrap |-> FALSE, stops |-> TRUE]
Seeded == [Calls EXCEPT !.attempts = 1, !.calls = 1, !.seeds = TRUE]
Beats == [Calls EXCEPT !.attempts = 0, !.calls = 0, !.heartbeats = {1, 2}]
Wrapped == [Beats EXCEPT !.wrap = TRUE, !.seeds = TRUE]
Reports == [Beats EXCEPT !.heartbeats = {}, !.reports = {1, 2}, !.tries = 1, !.seeds = TRUE]

Requests == INSTANCE Requests WITH Setups <- {Calls, Seeded, Beats, Wrapped, Reports}

NoConnector ==
  /\ q = <<>> /\ server = <<>> /\ files = <<>> /\ asked = <<>>
  /\ faults = <<>> /\ moves = <<>> /\ calls = <<>>
NoQuery ==
  /\ store = <<>> /\ notified = <<>> /\ future = <<>> /\ watcher = <<>>
  /\ listening = <<>> /\ tasks = <<>> /\ called = <<>>
NoRequests == caller = <<>> /\ objects = <<>>

DiscoveryInit ==
  \/ part = "connector" /\ Init /\ NoQuery /\ NoRequests
  \/ part = "query" /\ Query!Init /\ NoConnector /\ NoRequests
  \/ part = "requests" /\ Requests!Init /\ NoConnector /\ NoQuery

DiscoveryNext ==
  \/ part = "connector" /\ Next /\ UNCHANGED <<part, queryVars, requestVars>>
  \/ part = "query" /\ Query!Next /\ UNCHANGED <<part, connectorVars, requestVars>>
  \/ part = "requests" /\ Requests!Next /\ UNCHANGED <<part, connectorVars, queryVars>>

(* The fairness of the parts that have liveness properties *)
InConnector == part = "connector"
InRequests == part = "requests"
DiscoveryFairness ==
  /\ WF_vars(InConnector /\ Start) /\ WF_vars(InConnector /\ ProcessQueuedListener)
  /\ WF_vars(InConnector /\ TimingServerSwitch) /\ WF_vars(InConnector /\ Connected)
  /\ WF_vars(InConnector /\ DeferDelete)
  /\ \A s \in Services : /\ WF_vars(InConnector /\ TimingDiscover(s))
                         /\ WF_vars(InConnector /\ DiscoverTimoutCheck(s))
                         /\ WF_vars(InConnector /\ OnReceiveMessage(s))
  /\ Query!Fairness

DiscoverySpec ==
  DiscoveryInit /\ [][DiscoveryNext]_<<part, vars, queryVars, requestVars>> /\ DiscoveryFairness

-----------------------------------------------------------------------------
(* ServerConnector: each listener has exactly one way to its next request, *)
(* the assertions of the handlers hold, and seed servers are asked for the *)
(* discover service only.                                                  *)
ListenersServed == InConnector => OneWayForward /\ AssertsHold /\ SeedServesDiscoverOnly

(* ServerConnector: a timer that changes the server is always there, and   *)
(* only one comes to it but in two known cases.                            *)
ServerSwitches ==
  [](InConnector => SwitchPending) /\ [][InConnector => OneMoreSwitch]_vars

(* ServerConnector: the registry gets the data the servers end up with.    *)
ConnectorConverges == \A s \in Services : <>[](InConnector => Current(s))

(* InstancesFuture: a watcher, its timer and the sets it is in agree.      *)
WatcherSound == part = "query" => Query!WatcherSound

(* Requests: each request has one holder that deletes it and one event     *)
(* that ends it, each call is counted once, futures are sound and the      *)
(* client report goes on.                                                  *)
RequestsSound == InRequests => Requests!RequestsSound

(* InstancesFuture implements CallbackOnce.                                *)
CalledOnce == Query!CalledOnce
=============================================================================
