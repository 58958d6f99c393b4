---------------------------- MODULE MCComponents ----------------------------
(* The components and five more for TLC, each with its setups; these too    *)
(* share no state with the others.                                          *)
EXTENDS Components

-----------------------------------------------------------------------------
Meta(a) == [k \in {"a"} |-> a]
At(a, near) == [meta |-> Meta(a), canary |-> NULL, set |-> NULL, near |-> near,
                blank |-> IF near = 0 THEN 3 ELSE 0]

RouteInstances == <<At("v1", 2), At("v1", 1), At("v2", 2), At("v2", 0)>>

RouteRequest == [caller |-> NULL, flags |-> {}, labels |-> NULL, random |-> 0,
            meta |-> <<>>, failover |-> "None"]
Flagged == {[RouteRequest EXCEPT !.flags = f] : f \in {{}, {"unhealthy"}, {"broken"}}}

Caller == [service |-> "s", meta |-> Meta("v1"), set |-> NULL, canary |-> NULL, force |-> FALSE]

Plain == [inst |-> RouteInstances, chain |-> <<"nearby">>, service |-> "d", keys |-> <<"a", "b">>,
          nearby |-> [enable |-> TRUE, match |-> 2, max |-> 0, percent |-> 100,
                      degrade |-> TRUE, recover |-> TRUE],
          canary |-> FALSE, inbounds |-> <<>>, outbounds |-> <<>>, percent |-> 0, recover |-> TRUE,
          requests |-> Flagged, changes |-> 1, subsetChanges |-> 0, broken |-> {{}}, revisions |-> 2, keyed |-> TRUE, located |-> TRUE, calls |-> 2,
          failing |-> {{}, {1}, {2, 3}, {1, 2, 3}}]

Dest(a, priority, weight, isolate) ==
  [meta |-> Meta(a), priority |-> priority, order |-> 0, weight |-> weight, isolate |-> isolate,
   service |-> "*", transfer |-> NULL]
RouteRule(dests) == [valid |-> TRUE, sources |-> <<>>, dests |-> dests]

Breakers ==
  {{}} \cup {{[subset |-> Meta(a), labels |-> l, status |-> st, percent |-> 50]} :
               a \in {"v1", "v2"}, l \in {NULL, "l"}, st \in {"Open", "HalfOpen", "Preserved"}}
       \cup {{[subset |-> Meta("v1"), labels |-> NULL, status |-> st, percent |-> 50],
              [subset |-> Meta("v2"), labels |-> NULL, status |-> "Open", percent |-> 50]} :
               st \in {"Open", "HalfOpen"}}

Randoms == {[RouteRequest EXCEPT !.random = r, !.labels = l] : r \in {0, 3}, l \in {NULL, "l"}}

(* Two subsets at two priorities, isolated or not; of equal priority        *)
Ruled(dests) ==
  [Plain EXCEPT !.chain = <<"rule", "nearby">>, !.inbounds = <<RouteRule(dests)>>,
                !.requests = Randoms, !.broken = Breakers, !.revisions = 1,
                !.changes = 0, !.subsetChanges = 1]
RuleSetups == {Ruled(<<Dest("v1", 0, 4, i), Dest("v2", p, 2, j)>>) :
            i, j \in BOOLEAN, p \in {0, 1}}

(* A rule with a parameter the caller binds; a rule that transfers          *)
Parametrised ==
  [Plain EXCEPT !.chain = <<"rule", "nearby">>,
     !.outbounds = <<[RouteRule(<<>>) EXCEPT !.valid = FALSE],
                     [valid |-> TRUE, sources |-> <<[service |-> "s", to |-> "*", meta |-> Meta("parameter")]>>,
                      dests |-> <<Dest("parameter", 0, 1, FALSE)>>]>>,
     !.requests = {[RouteRequest EXCEPT !.caller = [Caller EXCEPT !.meta = Meta(v)], !.flags = f] :
                     v \in {"v1", "v2", "v3"}, f \in {{}, {"broken"}}},
     !.revisions = 1, !.failing = {{}, {1}, {1, 2, 3}}]
Transferring ==
  [Parametrised EXCEPT !.outbounds[2].dests =
     <<[Dest("v1", 0, 1, FALSE) EXCEPT !.transfer = "other"]>>]

Named(set, canary, near) == [meta |-> <<>>, canary |-> canary, set |-> set, near |-> near,
                            blank |-> 0]

Divided ==
  [Plain EXCEPT !.chain = <<"set", "nearby">>,
     !.inst = <<Named(<<"n", "x", "1">>, NULL, 1), Named(<<"n", "x", "*">>, NULL, 0), Named(NULL, NULL, 2)>>,
     !.requests = {[RouteRequest EXCEPT !.caller = [Caller EXCEPT !.set = s, !.force = f], !.flags = fl] :
                     s \in {NULL, <<"n", "x", "1">>, <<"n", "x", "2">>, <<"n", "x", "*">>, <<"m", "x", "1">>},
                     f \in BOOLEAN, fl \in {{}, {"unhealthy"}}}, !.revisions = 1,
     !.failing = {{}, {1}, {1, 2}}]

Canaries ==
  [Plain EXCEPT !.chain = <<"canary", "nearby">>, !.canary = TRUE,
     !.inst = <<Named(NULL, "c1", 1), Named(NULL, "c2", 2), Named(NULL, NULL, 0)>>,
     !.requests = {[RouteRequest EXCEPT !.caller = [Caller EXCEPT !.canary = c]] : c \in {NULL, "c1", "c3"}}]

Metadatas ==
  [Plain EXCEPT !.chain = <<"metadata", "nearby">>,
     !.inst = <<At("v1", 2), At("v2", 1), Named(NULL, NULL, 0)>>,
     !.requests = {[RouteRequest EXCEPT !.meta = m, !.failover = f] :
                     m \in {<<>>, Meta("v1"), Meta("v3")}, f \in {"None", "All", "NotKey"}},
     !.revisions = 1, !.failing = {{}, {1}, {1, 2, 3}}]

(* Both kinds of breakers over rules *)
BothBreakers ==
  [Ruled(<<Dest("v1", 0, 4, FALSE), Dest("v2", 1, 2, FALSE)>>) EXCEPT
     !.changes = 1, !.requests = {RouteRequest}, !.failing = {{}, {1}},
     !.broken = {{}, {[subset |-> Meta("v1"), labels |-> NULL, status |-> "Open", percent |-> 50]}}]

(* Tasks that come in another order, or ahead of their data *)
Tasks == [Plain EXCEPT !.requests = {RouteRequest}, !.changes = 2, !.revisions = 1,
                       !.failing = {{}, {1}, {1, 2}}, !.calls = 3]

RoutingSetups == RuleSetups \cup {Plain, Tasks, BothBreakers, [Plain EXCEPT !.located = FALSE, !.revisions = 1], Parametrised, Transferring, Divided, Canaries, Metadatas}

Routing == INSTANCE Routing WITH Setups <- RoutingSetups, data <- v1, bad <- v2,
  open <- v3, version <- v4, sets <- v5, caches <- v6, calls <- v7, last <- v8,
  located <- v9, tasks <- v10, recorded <- v11, ahead <- v12

-----------------------------------------------------------------------------
(* Threads that try half-open instances, and one thread with each balancer *)
(* over all small rings, lists and tables.                                 *)
HalfOpening ==
  [type |-> "simple", weight |-> <<1, 1, 1>>, halfOpen |-> {1, 2}, data |-> <<2, 1>>, tries |-> 18,
   threads |-> {1, 2}, keys |-> {0}, backups |-> 0, changes |-> {{}, {1}, {1, 2}}, requests |-> 2,
   start |-> 2000, end |-> 5000, vnodes |-> 2, table |-> 5, hash |-> <<>>,
   offset |-> <<>>, skip |-> <<>>]
Alone == [HalfOpening EXCEPT !.data = <<>>, !.threads = {1}, !.changes = {}, !.end = 2000]

Pairs == {p \in (1..6) \X (1..6) : p[1] < p[2]}
Apart(p, q) == {p[1], p[2]} \cap {q[1], q[2]} = {}
Rings ==
  {[Alone EXCEPT !.type = type, !.weight = weight, !.halfOpen = half, !.backups = backups,
                 !.vnodes = IF type = "ketama" /\ weight[1] = 4 THEN 1 ELSE 2,
                 !.hash = <<p, q, r>>, !.keys = {1, 3, 7}] :
     type \in {"ketama", "ketamaGo"}, weight \in {<<1, 1, 1>>, <<4, 1, 1>>},
     half \in {{}, {1}, {1, 2}, {1, 2, 3}}, backups \in {1, 2},
     p \in {<<1, 2>>, <<1, 4>>}, q \in Pairs, r \in Pairs}
DistinctRings ==
  {s \in Rings : \A i, j \in 1..3 : i # j => Apart(s.hash[i], s.hash[j])}
L5Rings ==
  {[s EXCEPT !.type = "l5", !.weight = <<2, 1, 1>>] :
     s \in {x \in Rings : x.type = "ketama" /\ x.hash[2][2] <= 3 /\ x.hash[3][2] <= 4}}
(* Two L5 calls that try a half-open instance for each backup *)
L5Tries ==
  {[HalfOpening EXCEPT !.type = "l5", !.halfOpen = {1}, !.data = <<2>>, !.changes = {{1}}, !.backups = backups,
                       !.end = 4000, !.keys = {1}, !.hash = <<<<1>>, <<2>>, <<3>>>>] : backups \in {1, 2}}
Lists ==
  {[Alone EXCEPT !.type = type, !.weight = weight, !.halfOpen = half, !.backups = backups, !.keys = 0..3] :
     type \in {"simple", "random"}, weight \in {<<2, 1, 3, 1>>, <<0, 2, 0, 1>>},
     half \in {{}, {1}, {2, 4}, {1, 3}, {1, 2, 3, 4}}, backups \in 0..4}
Tables ==
  {[Alone EXCEPT !.type = "maglev", !.weight = weight, !.halfOpen = {}, !.keys = 0..4,
                 !.offset = offset, !.skip = skip] :
     weight \in {<<1, 1>>, <<3, 1>>, <<1, 2, 1>>}, offset \in {<<0, 0, 0>>, <<0, 3, 1>>},
     skip \in [1..3 -> 1..4]}
MCBalancerSetups == {HalfOpening} \cup DistinctRings \cup L5Rings \cup L5Tries \cup Lists \cup Tables

-----------------------------------------------------------------------------
(* Trees of four, of three with two readers, and of none                   *)
Node(id, v) == [id |-> id, value |-> v]
FourNodes ==
  [start |-> <<Node("a", 1), Node("b", 2), Node("c", 1), Node("d", 3)>>, values |-> {1, 3},
   initial |-> 2, threads |-> {1}, ids |-> {"b", "d"}, weights |-> 5, steps |-> 3]
ThreeNodes ==
  [FourNodes EXCEPT !.start = <<Node("a", 2), Node("b", 1), Node("c", 3)>>, !.threads = {1, 2},
                    !.ids = {"b"}, !.weights = 3]
LocalitySetups ==
  {FourNodes, ThreeNodes, [FourNodes EXCEPT !.start = <<>>, !.ids = {"a", "b"}, !.weights = 2]}

Locality == INSTANCE LocalityAware WITH Setups <- LocalitySetups, tree <- v1, front <- v2,
  weight <- v3, leftSum <- v4, total <- v5, wrapped <- v6, reader <- v7, writer <- v8,
  calls <- v9, steps <- v10

-----------------------------------------------------------------------------
(* Updates that do not meet the task, that do, and that delete the service *)
Calm == [ids |-> 1..3, window |-> 2, min |-> 10, calm |-> TRUE, nulls |-> FALSE, updates |-> 3, clock |-> 4]
SlowStartSetups ==
  {Calm, [Calm EXCEPT !.calm = FALSE, !.clock = 2, !.ids = 1..2],
   [Calm EXCEPT !.nulls = TRUE, !.ids = 1..2]}

Slow == INSTANCE SlowStart WITH Setups <- SlowStartSetups, now <- v1, local <- v2,
  datas <- v3, current <- v4, slowMap <- v5, tasks <- v6, updater <- v7, run <- v8

-----------------------------------------------------------------------------
(* Two callers while a window expires; rules that change; an LRU map of    *)
(* one window; shaping, refusing, odd and disabled rules.                  *)
QuotaRule(id, revision) ==
  [id |-> id, revision |-> revision, priority |-> 0, disable |-> FALSE, methods |-> {"m"},
   labels |-> {"x", "y"}, regex |-> TRUE, action |-> "reject", global |-> FALSE, percent |-> NULL,
   amounts |-> {[duration |-> 1000, max |-> 10, soft |-> NULL]}]
QuotaRequest(l) == [method |-> "m", label |-> l]

WindowExpiry ==
  [order |-> [r |-> 1, s |-> 2, t |-> 3, u |-> 4, v |-> 5], rules |-> <<{QuotaRule("r", 1)}>>,
   requests |-> {QuotaRequest("x")}, callers |-> {1, 2}, lru |-> 0, collect |-> FALSE, windows |-> 4,
   start |-> 1000000, end |-> 1020000, tick |-> 20000]
WindowRevisions ==
  [WindowExpiry EXCEPT !.rules = <<{[QuotaRule("r", 1) EXCEPT !.global = TRUE]},
                                   {[QuotaRule("r", 2) EXCEPT !.regex = FALSE]}>>,
                       !.callers = {1}, !.windows = 3, !.collect = TRUE]
WindowRecency ==
  [WindowExpiry EXCEPT !.lru = 1, !.requests = {QuotaRequest("x"), QuotaRequest("y")},
                       !.callers = {1}, !.windows = 3]
WindowShapes ==
  [WindowExpiry EXCEPT !.callers = {1}, !.tick = 500, !.end = 1001500, !.windows = 2,
     !.rules = <<{[QuotaRule("r", 1) EXCEPT !.action = "unirate", !.priority = 1,
                     !.amounts = {[duration |-> 1000, max |-> 10, soft |-> 1]}],
                  [QuotaRule("s", 1) EXCEPT !.action = "unirate", !.labels = {"x"},
                     !.amounts = {[duration |-> 30000, max |-> 0, soft |-> NULL]}],
                  [QuotaRule("t", 1) EXCEPT !.action = "other"],
                  [QuotaRule("u", 1) EXCEPT !.percent = 101],
                  [QuotaRule("v", 1) EXCEPT !.disable = TRUE]}>>,
     !.requests = {QuotaRequest("x"), QuotaRequest("y")}]
MCQuotaSetups == {WindowExpiry, WindowRevisions, WindowRecency, WindowShapes}

-----------------------------------------------------------------------------
(* The two loops of a window under failures; two callers and two rules;    *)
(* metrics that open, keep and close a set; all labels together; a policy  *)
(* that is judged locally.                                                 *)
ErrorRate == [open |-> 50, preserved |-> 20, volume |-> 2, special |-> [open |-> 50, preserved |-> 20]]
SlowRate == [open |-> 50, preserved |-> 20]
Sum(t, e, s, x) == [total |-> t, err |-> e, slow |-> s, special |-> x]
NoCalls == Sum(0, 0, 0, 0)
Loops ==
  [callers |-> {1}, labels |-> {{"a"}}, revisions |-> 1, servers |-> {"s", "t"}, subset |-> {"x"},
   inbounds |-> <<[sources |-> {{"a"}}, destinations |-> {{"x"}}]>>, global |-> TRUE, scopeAll |-> FALSE,
   policy |-> [err |-> ErrorRate, slow |-> NULL], calls |-> {"err"}, counted |-> 1, sums |-> {NoCalls},
   codes |-> {"ok", "500"}, faults |-> TRUE, moves |-> TRUE, sleep |-> 2, window |-> 1, rates |-> <<20, 100>>,
   behind |-> [s |-> 0, t |-> 0], time |-> 0, inflight |-> 2]
SetRules == [Loops EXCEPT !.callers = {1, 2}, !.revisions = 2, !.servers = {"s"}, !.codes = {"ok"}]
Judge ==
  [Loops EXCEPT !.servers = {"s"}, !.faults = FALSE, !.moves = FALSE, !.codes = {"ok"}, !.time = 7, !.inflight = 2,
                !.policy = [err |-> ErrorRate, slow |-> SlowRate],
                !.sums = {NoCalls, Sum(4, 0, 0, 0), Sum(4, 1, 0, 0), Sum(4, 2, 0, 0), Sum(1, 1, 0, 0),
                          Sum(4, 0, 3, 0), Sum(4, 0, 0, 3)}]
AllLabels ==
  [Judge EXCEPT !.labels = {{"a"}, {"b"}}, !.scopeAll = TRUE, !.time = 4, !.inflight = 1,
                !.sums = {NoCalls, Sum(4, 0, 0, 0), Sum(4, 2, 0, 0)},
                !.inbounds = <<[sources |-> {{"c"}}, destinations |-> {{"x"}}],
                               [sources |-> {{"a"}, {}}, destinations |-> {{}, {"x"}}]>>]
(* The hash selects another server, whose clock is behind. *)
BehindTimes ==
  [AllLabels EXCEPT !.scopeAll = FALSE, !.labels = {{"a"}}, !.servers = {"s", "t"}, !.moves = TRUE,
                    !.behind = [s |-> 0, t |-> 2]]
JudgedHere ==
  [SetRules EXCEPT !.global = FALSE, !.calls = {"ok", "slow", "err", "special", "unknown"},
                   !.counted = 2, !.policy = [err |-> ErrorRate, slow |-> SlowRate]]
MCSetSetups == {Loops, SetRules, Judge, AllLabels, BehindTimes, JudgedHere}

-----------------------------------------------------------------------------
(* Threads and the collector; the history of a service; each report alone  *)
NoReport == [reports |-> {}, threads |-> {}, ticks |-> 1, calls |-> 0, events |-> 0]
MCMonitorSetups ==
  {[NoReport EXCEPT !.reports = {"stat"}, !.threads = {1, 2}, !.ticks = 2, !.calls = 2],
   [NoReport EXCEPT !.reports = {"cache"}, !.events = 3],
   [NoReport EXCEPT !.reports = {"api", "config"}, !.events = 1],
   [NoReport EXCEPT !.reports = {"circuit"}, !.events = 1],
   [NoReport EXCEPT !.reports = {"set"}, !.events = 1],
   [NoReport EXCEPT !.reports = {"limit", "router"}]}

-----------------------------------------------------------------------------
(* A request and a stream of two messages over one connection              *)
GrpcSetups == {[streams |-> {1, 2}, requests |-> {1}, messages |-> 2]}

Calls == INSTANCE Grpc WITH Setups <- GrpcSetups, objects <- v1, peer <- v2

-----------------------------------------------------------------------------
(* Short reads of what was written at once and the other way round, and    *)
(* messages of other encoders                                              *)
Msg(f, b) == [flag |-> f, bytes |-> b]
ShortReads ==
  [page |-> 6, frames |-> {4, 20}, takes |-> {50}, gives |-> {0, 2, 50}, read |-> 7, writev |-> 4,
   messages |-> <<Msg(0, <<11, 12, 13>>), Msg(0, <<>>), Msg(0, <<31>>)>>]
Foreign == [ShortReads EXCEPT !.frames = {20}, !.gives = {0, 3}]
CodecSetups ==
  {ShortReads,
   [ShortReads EXCEPT !.takes = {3, 50}, !.gives = {0, 50}, !.writev = 2,
                      !.messages = <<Msg(0, <<11, 12, 13>>), Msg(0, <<21>>)>>],
   [Foreign EXCEPT !.messages = <<Msg(0, <<11>>), Msg(1, <<21>>)>>],
   [Foreign EXCEPT !.messages = <<Msg(1, <<>>), Msg(2, <<21>>)>>]}

Codec == INSTANCE GrpcCodec WITH Setups <- CodecSetups, sent <- v1, pending <- v2,
  socket <- v3, wire <- v4, data <- v5, input <- v6, left <- v7, recv <- v8, decoder <- v9,
  room <- v10, handed <- v11, ok <- v12
-----------------------------------------------------------------------------
AllInit ==
  \/ Init
  \/ part = "routing" /\ Routing!Init
  \/ part = "locality" /\ Locality!Init /\ Rest(10)
  \/ part = "slow start" /\ Slow!Init /\ Rest(8)
  \/ part = "grpc" /\ Calls!Init /\ Rest(2)
  \/ part = "codec" /\ Codec!Init /\ Rest(12)

AllNext ==
  \/ Next
  \/ part = "routing" /\ Routing!Next /\ UNCHANGED part
  \/ part = "locality" /\ Locality!Next /\ UNCHANGED <<part, v11, v12>>
  \/ part = "slow start" /\ Slow!Next /\ UNCHANGED <<part, v9, v10, v11, v12>>
  \/ part = "grpc" /\ Calls!Next /\ UNCHANGED <<part, v3, v4, v5, v6, v7, v8, v9, v10, v11, v12>>
  \/ part = "codec" /\ Codec!Next /\ UNCHANGED <<part>>

AllSpec == AllInit /\ [][AllNext]_all

-----------------------------------------------------------------------------
(* Routing: a cached route is the one a fresh computation gives.           *)
CacheIsFresh == part = "routing" => Routing!CacheIsFresh

(* Routing: what is healthy and allowed comes before what is not.          *)
PrefersHealthy == part = "routing" => Routing!PrefersHealthy

(* LocalityAware: selections see a whole tree that keeps to the weights.   *)
TreeSound == part = "locality" => Locality!TreeSound

(* SlowStart: an instance with a reduced weight has a task that raises it. *)
SlowStartKept == part = "slow start" => Slow!SlowStartKept

(* Grpc: callbacks come at most once and no deleted object is used.        *)
CallbacksSafe == part = "grpc" => Calls!CallbacksSafe

(* Grpc: no event reaches the caller of a closed stream.                   *)
ClosedIsSilent == [][part = "grpc" => Calls!SilentWhenClosed]_all

(* GrpcCodec: messages arrive whole and in order, however they are cut.    *)
DecodedAsSent == part = "codec" => Codec!DecodedAsSent
=============================================================================
