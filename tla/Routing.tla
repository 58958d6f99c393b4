------------------------------ MODULE Routing ------------------------------
(* The service router chain: rule, set division, canary, metadata and      *)
(* nearby router, each with its cache of results, and RouteMatch of the    *)
(* rules of two services.  A router turns the available instances into a   *)
(* smaller set; the chain hands the InstancesSet of one on to the next.    *)
EXTENDS Integers, FiniteSets, FiniteSetsExt, Sequences, SequencesExt, TLC

CONSTANTS NULL, Setups

(* setup: instances, rules and chain; bad: the instances that are unhealthy *)
(* in the current data (its revision is data); open: the instances that the *)
(* breakers opened and the version of that data; sets: the same for         *)
(* subsets; version: circuit_breaker_version_ of the ServiceContext, which  *)
(* the keys have; tasks: versions of the ServiceCacheUpdateTasks under way; *)
(* recorded: the requests whose routes such a task prepares; caches:        *)
(* results by key; calls: calls left to make; last: the result of the last  *)
(* one and the result without caches; located: whether the client knows     *)
(* where it is.  ahead (history): the highest version that keys had before  *)
(* its data came.                                                           *)
VARIABLES setup, data, bad, open, version, sets, caches, calls, last, located,
          tasks, recorded, ahead

vars == <<setup, data, bad, open, version, sets, caches, calls, last, located,
          tasks, recorded, ahead>>

inst == setup.inst
All == DOMAIN inst

(* The first group that has members                                        *)
FirstNonEmpty(groups) ==
  LET used == {n \in DOMAIN groups : groups[n] # {}}
  IN IF used = {} THEN {} ELSE groups[Min(used)]

(* Each group without its unhealthy members; then those only               *)
HealthyThenRest(groups, unhealthy) ==
  FirstNonEmpty([n \in DOMAIN groups |-> groups[n] \ unhealthy]
                \o [n \in DOMAIN groups |-> groups[n] \cap unhealthy])

CalculateUnhealthySet(req, unhealthy) ==
  (IF "unhealthy" \in req.flags THEN {} ELSE unhealthy)
  \cup (IF "broken" \in req.flags THEN {} ELSE open.instances)

-----------------------------------------------------------------------------
(* Canary and metadata router *)

Canary(insts, value, unhealthy) ==
  LET own    == {i \in insts : inst[i].canary = value}
      normal == {i \in insts : inst[i].canary = NULL}
  IN HealthyThenRest(IF value = NULL THEN <<normal, insts \ normal>>
                     ELSE <<own, normal, insts \ (own \cup normal)>>, unhealthy)

MetadataMatch(wanted, meta) ==
  \A k \in DOMAIN wanted : k \in DOMAIN meta /\ meta[k] = wanted[k]

MetadataMatchNotKey(wanted, meta) == DOMAIN wanted \cap DOMAIN meta = {}

Failover(insts, wanted, type) ==
  CASE type = "All"    -> insts
    [] type = "NotKey" -> {i \in insts : MetadataMatchNotKey(wanted, inst[i].meta)}
    [] type = "None"   -> {}

Metadata(insts, wanted, type, unhealthy) ==
  LET match == {i \in insts : MetadataMatch(wanted, inst[i].meta)}
      other == Failover(insts, wanted, type)
  IN FirstNonEmpty(<<match \ unhealthy, match \cap unhealthy,
                     other \ unhealthy, other \cap unhealthy>>)

-----------------------------------------------------------------------------
(* Nearby router.  near: how many of region, zone and campus an instance   *)
(* shares with the client, each only after the one before it; blank: the   *)
(* same for a client that does not know its location, whose region, zone   *)
(* and campus are empty.                                                   *)

NearbyRouterConfig ==
  {c \in [enable : BOOLEAN, match : 0 .. 3, max : 0 .. 3, percent : 1 .. 100,
          degrade : BOOLEAN, recover : BOOLEAN] : c.max <= c.match}

Near(i) == IF ~setup.nearby.enable THEN setup.nearby.match
           ELSE Min({IF located THEN inst[i].near ELSE inst[i].blank, setup.nearby.match})

Within(insts, from, to) == {i \in insts : Near(i) \in from .. to}

(* The share of unhealthy instances asks for a larger neighbourhood.       *)
Degrades(insts, unhealthy) ==
  Cardinality(insts \cap unhealthy) * 100 >= Cardinality(insts) * setup.nearby.percent

(* A faulty variant: degradation stops before the farthest level.          *)
NearbyStopsEarly(insts, unhealthy) ==
  LET c == setup.nearby
      levels == {l \in c.max .. c.match : Within(insts, l, l) # {}}
      own == Max(levels)
      wide == {l \in c.max + 1 .. own - 1 : ~Degrades(Within(insts, l, own), unhealthy)}
  IN IF levels = {} THEN {}
     ELSE IF Degrades(Within(insts, own, own), unhealthy) /\ wide # {}
     THEN Within(insts, Max(wide), own) \ unhealthy
     ELSE HealthyThenRest(<<Within(insts, own, own)>>, unhealthy)

Nearby(insts, unhealthy) ==
  LET c == setup.nearby
      levels == {l \in c.max .. c.match : Within(insts, l, l) # {}}
      own == Max(levels)
      wide == {l \in c.max .. own - 1 : ~Degrades(Within(insts, l, own), unhealthy)}
  IN IF levels = {} THEN {}
     ELSE IF c.degrade /\ Degrades(Within(insts, own, own), unhealthy) /\ wide # {}
     THEN Within(insts, Max(wide), own) \ unhealthy
     ELSE IF c.recover THEN HealthyThenRest(<<Within(insts, own, own)>>, unhealthy)
     ELSE Within(insts, own, own) \ unhealthy

-----------------------------------------------------------------------------
(* Set division router.  A set name is a sequence name, area, group; group *)
(* "*" of the caller stands for all of them, of an instance for itself.    *)

IsSetDivisionRouterEnable(insts, caller) ==
  \E i \in insts : inst[i].set # NULL /\ inst[i].set[1] = caller[1]

CalculateMatchResult(insts, caller) ==
  LET named(name) == {i \in insts : inst[i].set = name}
  IN IF caller[3] = "*"
     THEN {i \in insts : inst[i].set # NULL /\ SubSeq(inst[i].set, 1, 2) = SubSeq(caller, 1, 2)}
     ELSE FirstNonEmpty(<<named(caller), named(<<caller[1], caller[2], "*">>)>>)

SetDivision(insts, caller, unhealthy) ==
  IF IsSetDivisionRouterEnable(insts, caller)
  THEN [enable |-> TRUE,
        to |-> HealthyThenRest(<<CalculateMatchResult(insts, caller)>>, unhealthy)]
  ELSE [enable |-> FALSE, to |-> {}]

-----------------------------------------------------------------------------
(* Rules.  A condition on metadata is a function from keys to a value,     *)
(* AnyValue or Parameter; a parameter of a source condition binds a value  *)
(* of the caller that a destination condition of the same key refers to.   *)
AnyValue == "*"
Parameter == "parameter"

MapMatch(rule, meta, parameters) ==
  \A k \in DOMAIN rule :
    /\ k \in DOMAIN meta
    /\ \/ rule[k] = AnyValue
       \/ rule[k] = Parameter /\ k \in DOMAIN parameters /\ parameters[k] = meta[k]
       \/ rule[k] = meta[k]

(* What MapMatch of a source leaves in parameters: the value of the last   *)
(* parameter only, in the order of the keys.                               *)
ParameterString(rule, meta) ==
  LET keys == {n \in DOMAIN setup.keys :
                 setup.keys[n] \in DOMAIN rule /\ rule[setup.keys[n]] = Parameter}
  IN IF keys = {} THEN NULL ELSE meta[setup.keys[Max(keys)]]

MatchService(rule, service) == rule \in {AnyValue, service}

SourceMatch(source, caller) ==
  /\ MatchService(source.service, caller.service)
  /\ MatchService(source.to, setup.service)
  /\ MapMatch([k \in DOMAIN source.meta |->
                 IF source.meta[k] = Parameter THEN AnyValue ELSE source.meta[k]],
              caller.meta, <<>>)

IsWildcardRule(source) == source.service = AnyValue /\ DOMAIN source.meta = {}

(* The sources of a rule that match; NULL stands for a rule without any.   *)
MatchingSources(rule, caller) ==
  IF rule.sources = <<>> THEN {NULL}
  ELSE {rule.sources[n] : n \in
          {n \in DOMAIN rule.sources :
             IF caller = NULL THEN IsWildcardRule(rule.sources[n])
             ELSE SourceMatch(rule.sources[n], caller)}}

(* A rule that could not be read, or that has a variable without a value,  *)
(* is not valid.                                                           *)
MatchSource(rule, caller) == rule.valid /\ MatchingSources(rule, caller) # {}

Parameters(rule, caller) ==
  LET first == rule.sources[Min({n \in DOMAIN rule.sources : SourceMatch(rule.sources[n], caller)})]
  IN IF caller = NULL \/ rule.sources = <<>> THEN NULL ELSE ParameterString(first.meta, caller.meta)

(* The inbound rules of the callee come first; if it has any, the outbound *)
(* rules of the caller do not count.                                       *)
RouteMatch(caller) ==
  LET matching(rules) == {n \in DOMAIN rules : MatchSource(rules[n], caller)}
      first(rules, out) == [code |-> "Match", rule |-> rules[Min(matching(rules))], out |-> out]
      outbounds == IF caller = NULL THEN <<>>
                   ELSE IF caller.service = NULL THEN <<>> ELSE setup.outbounds
  IN IF matching(setup.inbounds) # {} THEN first(setup.inbounds, FALSE)
     ELSE IF setup.inbounds # <<>> THEN [code |-> "NotMatch"]
     ELSE IF matching(outbounds) # {} THEN first(outbounds, TRUE)
     ELSE IF outbounds # <<>> THEN [code |-> "NotMatch"]
     ELSE [code |-> "NoRule"]

(* The destinations in the order of CalculateSet: by priority, then as     *)
(* they are written.                                                       *)
Ordered(rule) ==
  SortSeq([n \in DOMAIN rule.dests |-> [rule.dests[n] EXCEPT !.order = n]],
          LAMBDA a, b : a.priority < b.priority \/ (a.priority = b.priority /\ a.order < b.order))

Candidates(match) ==
  SelectSeq(Ordered(match.rule), LAMBDA d : match.out => MatchService(d.service, setup.service))

(* One RuleRouterSet for each combination of values that the keys of the   *)
(* condition have among the matching instances.                            *)
SubsetsOf(d, insts, unhealthy, parameters) ==
  LET match == {i \in insts : MapMatch(d.meta, inst[i].meta, parameters)}
      subset(i) == [k \in DOMAIN d.meta |-> inst[i].meta[k]]
  IN {[subset |-> s, priority |-> d.priority, order |-> d.order, isolated |-> d.isolate,
       weight |-> d.weight,
       healthy |-> {i \in match : subset(i) = s} \ unhealthy,
       unhealthy |-> {i \in match : subset(i) = s} \cap unhealthy] : s \in {subset(i) : i \in match}}

CalculateSet(match, insts, unhealthy, parameters) ==
  LET dests == Candidates(match)
  IN UNION {SubsetsOf(dests[n], insts, unhealthy, parameters) : n \in DOMAIN dests}

(* A destination that transfers to another service ends the calculation.   *)
Transfer(match) ==
  LET dests == SelectSeq(Candidates(match), LAMBDA d : d.transfer # NULL)
  IN IF dests = <<>> THEN NULL ELSE dests[1].transfer

-----------------------------------------------------------------------------
(* Subsets under circuit breaking *)

(* An entry for the whole subset hides the one for the labels.             *)
GetSetBreakerInfo(s, labels) ==
  LET of(l) == {b \in sets.subsets : b.subset = s.subset /\ b.labels = l}
  IN FirstNonEmpty(<<of(NULL), of(labels)>>)

Status(s, labels) ==
  LET info == GetSetBreakerInfo(s, labels)
  IN IF info = {} THEN "Close" ELSE (CHOOSE b \in info : TRUE).status

PassRate(s, labels) == (CHOOSE b \in GetSetBreakerInfo(s, labels) : TRUE).percent

Priorities(cluster) == {s.priority : s \in cluster}
Cluster(cluster, p) == {s \in cluster : s.priority = p}

InOrder(cluster) ==
  SetToSortSeq(cluster, LAMBDA a, b :
    \/ a.priority < b.priority
    \/ a.priority = b.priority /\ a.order < b.order
    \/ a.priority = b.priority /\ a.order = b.order /\ Min(a.healthy \cup a.unhealthy) < Min(b.healthy \cup b.unhealthy))

(* A faulty variant: an isolated subset may stand in.                       *)
MayReplaceIsolated(s, labels) == Status(s, labels) = "Close"

(* A subset that may take the traffic of another one                       *)
MayReplace(s, labels) == ~s.isolated /\ Status(s, labels) = "Close"

(* Half-open subsets hand a part of their weight to closed ones of lower   *)
(* priority, the first to the first and so on.                             *)
Downgraded(half, lower, labels) ==
  LET from == InOrder(half)
      to   == InOrder({s \in lower : MayReplace(s, labels)})
      shared(n) == {[from[n] EXCEPT !.weight = (@ * PassRate(from[n], labels)) \div 100],
                    [to[n] EXCEPT !.weight = (@ * (100 - PassRate(from[n], labels))) \div 100]}
  IN UNION {IF n \in DOMAIN to THEN shared(n) ELSE {from[n]} : n \in DOMAIN from}

CalculateSubset(cluster, labels) ==
  LET top  == Cluster(cluster, Min(Priorities(cluster)))
      live == {s \in top : ~s.isolated}
      half == {s \in live : Status(s, labels) = "HalfOpen"}
      well == {s \in live : Status(s, labels) \in {"Close", "Preserved"}}
      good == {p \in Priorities(cluster \ top) :
                 \E s \in Cluster(cluster, p) : MayReplace(s, labels)}
  IN IF cluster = {} THEN {}
     ELSE IF half \cup well # {} THEN well \cup Downgraded(half, cluster \ top, labels)
     ELSE IF good # {} THEN {s \in Cluster(cluster, Min(good)) : MayReplace(s, labels)}
     ELSE live

(* Subsets with enough healthy instances; if there are none, all of them   *)
(* with their unhealthy instances.                                         *)
CalculateRouteResult(cluster) ==
  LET size(s) == Cardinality(s.healthy) + Cardinality(s.unhealthy)
      enough == {s \in cluster : s.healthy # {} /\ Cardinality(s.healthy) * 100 >= setup.percent * size(s)}
  IN IF enough # {} THEN enough
     ELSE IF setup.recover THEN {[s EXCEPT !.healthy = @ \cup s.unhealthy] : s \in cluster}
     ELSE {}

SumWeight(cluster) == MapThenSumSet(LAMBDA s : s.weight, cluster)

(* Without any weight all count the same, otherwise those without are out. *)
Weighted(cluster) ==
  IF SumWeight(cluster) = 0 THEN {[s EXCEPT !.weight = 100] : s \in cluster}
  ELSE {s \in cluster : s.weight > 0}

RuleSubsets(match, insts, unhealthy, req) ==
  Weighted(CalculateRouteResult(CalculateSubset(
    CalculateSet(match, insts, unhealthy, IF req.caller = NULL THEN <<>> ELSE req.caller.meta),
    req.labels)))

(* Which subset a random weight falls into: the first whose running sum is *)
(* above it.                                                               *)
SelectSet(cluster, random) ==
  LET seq == InOrder(cluster)
      sum(n) == SumWeight({seq[m] : m \in 1 .. n})
  IN seq[Min({n \in DOMAIN seq : sum(n) > random % SumWeight(cluster)})]

-----------------------------------------------------------------------------
(* The chain.  q: the InstancesSet that is available (its identity and its *)
(* members), what of the data is unhealthy, the caches, and what the call  *)
(* returns if it ends here.  The identity of a router's result is the      *)
(* cache entry that owns it.                                               *)

CanaryName(req) == IF req.caller = NULL THEN NULL ELSE req.caller.canary

(* GetWithRcuTime, and CreateOrGet when that finds nothing                 *)
Lookup(q, key, value) ==
  IF key \in DOMAIN q.caches THEN q ELSE [q EXCEPT !.caches = q.caches @@ (key :> value)]

UpdateAvailableInstances(q, key, insts) == [q EXCEPT !.prior = <<key, insts>>]

(* What the results are cached under: the router, the set it starts from,  *)
(* the version of the breakers, and what else its key holds.  The set and  *)
(* the rule are pointers in the code; here each object has an identity     *)
(* that is never used again.                                               *)
Key(router, q, rest) == <<router, q.prior[1], q.version, rest>>

(* A faulty variant: the key leaves out the version of the subset breakers. *)
RuleRouteCacheKeyNoSubsets(q, req, match) ==
  Key("rule", q, <<match, req.flags, req.labels, Parameters(match.rule, req.caller)>>)

RuleRouteCacheKey(q, req, match) ==
  Key("rule", q, <<match, req.flags, sets.version, req.labels, Parameters(match.rule, req.caller)>>)
SetDivisionCacheKey(q, req) == Key("set", q, <<req.caller.set, req.flags>>)
CanaryCacheKey(q, req) == Key("canary", q, CanaryName(req))
MetadataCacheKey(q, req, type) == Key("metadata", q, <<req.meta, type>>)

(* A faulty variant: the key does not tell requests with flags apart.       *)
NearbyCacheKeyNoFlags(q, req) == Key("nearby", q, located)

NearbyCacheKey(q, req) == Key("nearby", q, <<req.flags, setup.nearby.enable /\ located>>)

RuleRouter(q, req) ==
  LET match == RouteMatch(req.caller)
      key   == RuleRouteCacheKey(q, req, match)
      value == [to |-> Transfer(match),
                subsets |-> RuleSubsets(match, q.prior[2], CalculateUnhealthySet(req, q.unhealthy), req)]
      p     == Lookup(q, key, value)
      got   == p.caches[key]
  IN IF match.code = "NotMatch" THEN [q EXCEPT !.code = "NotMatch"]
     ELSE IF match.code = "NoRule" THEN q
     ELSE IF got.to # NULL THEN [p EXCEPT !.code = got.to]
     ELSE IF got.subsets = {} THEN [p EXCEPT !.code = "NotMatch"]
     ELSE LET s == SelectSet(got.subsets, req.random)
          IN UpdateAvailableInstances(p, <<key, s>>, s.healthy)

SetRouter(q, req) ==
  LET caller == req.caller.set
      key   == SetDivisionCacheKey(q, req)
      p     == Lookup(q, key, SetDivision(q.prior[2], caller, CalculateUnhealthySet(req, q.unhealthy)))
  IN IF req.caller = NULL THEN q
     ELSE IF caller = NULL THEN q
     ELSE IF p.caches[key].enable \/ req.caller.force
     THEN [UpdateAvailableInstances(p, key, p.caches[key].to) EXCEPT !.nearby = FALSE]
     ELSE p

CanaryRouter(q, req) ==
  LET key == CanaryCacheKey(q, req)
      p   == Lookup(q, key, Canary(q.prior[2], CanaryName(req), CalculateUnhealthySet(req, q.unhealthy)))
  IN IF setup.canary THEN UpdateAvailableInstances(p, key, p.caches[key]) ELSE q

MetadataRouter(q, req) ==
  LET type == IF DOMAIN req.meta = {} THEN "None" ELSE req.failover
      key  == MetadataCacheKey(q, req, type)
      p    == Lookup(q, key, Metadata(q.prior[2], req.meta, type, CalculateUnhealthySet(req, q.unhealthy)))
  IN UpdateAvailableInstances(p, key, p.caches[key])

NearbyRouter(q, req) ==
  LET key == NearbyCacheKey(q, req)
      p   == Lookup(q, key, Nearby(q.prior[2], CalculateUnhealthySet(req, q.unhealthy)))
  IN IF q.nearby THEN UpdateAvailableInstances(p, key, p.caches[key]) ELSE q

Router(name, q, req) ==
  CASE name = "rule"     -> RuleRouter(q, req)
    [] name = "set"      -> SetRouter(q, req)
    [] name = "canary"   -> CanaryRouter(q, req)
    [] name = "metadata" -> MetadataRouter(q, req)
    [] name = "nearby"   -> NearbyRouter(q, req)

(* ServiceRouterChain::DoRoute: an error or a transfer ends the chain.     *)
DoRoute(req, cached, v, revision, unhealthy) ==
  LET start == [prior |-> <<<<"data", revision>>, All>>, unhealthy |-> unhealthy,
                version |-> v, caches |-> cached, nearby |-> TRUE, code |-> "Ok"]
      step(q, name) == IF q.code = "Ok" THEN Router(name, q, req) ELSE q
  IN FoldLeft(step, start, setup.chain)

Outcome(q) == [code |-> q.code, to |-> IF q.code = "Ok" THEN q.prior[2] ELSE {}]

-----------------------------------------------------------------------------
Init ==
  /\ setup \in Setups /\ setup.nearby \in NearbyRouterConfig
  /\ located = setup.located
  /\ data = 1 /\ version = 0 /\ ahead = -1
  /\ bad \in setup.failing
  /\ open = [version |-> 0, instances |-> {}] /\ sets = [version |-> 0, subsets |-> {}]
  /\ caches = <<>> /\ tasks = {} /\ recorded = {}
  /\ calls = setup.calls /\ last = NULL

(* AddCacheUpdate keeps what a request has but its labels.                 *)
CacheUpdateParam(req) == [req EXCEPT !.labels = NULL, !.random = 0]

Route ==
  \E req \in setup.requests :
    LET q == DoRoute(req, caches, version, data, bad)
    IN /\ calls > 0 /\ calls' = calls - 1
       /\ caches' = q.caches
       /\ recorded' = IF q.caches = caches THEN recorded ELSE recorded \cup {CacheUpdateParam(req)}
       /\ last' = [got |-> Outcome(q), fresh |-> Outcome(DoRoute(req, <<>>, version, data, bad)),
                   settled |-> version = open.version /\ version > ahead]
       /\ UNCHANGED <<setup, data, bad, open, version, sets, located, tasks, ahead>>

(* Service::SetCircuitBreakerData with the chain's data of version n, and   *)
(* the task that follows: its version is read from the chain later, and     *)
(* more than n if the chain has gone on in between.                         *)
SetCircuitBreakerData ==
  \E n \in 1 .. setup.changes :
    /\ IF n > open.version
       THEN \E instances \in setup.failing : open' = [version |-> n, instances |-> instances]
       ELSE UNCHANGED open
    /\ \E m \in Max({n, open.version}) .. setup.changes : tasks' = tasks \cup {m}
    /\ UNCHANGED <<setup, data, bad, version, sets, caches, calls, last, located, recorded, ahead>>

(* UpdateCache for every recorded request: what it routes to fills the       *)
(* caches, under version v of the keys and with the instances of a revision. *)
UpdateCache(v, revision, unhealthy, random) ==
  LET prepare(req, filled) ==
        DoRoute([req EXCEPT !.random = random], filled, v, revision, unhealthy).caches
  IN FoldSet(prepare, caches, recorded)

(* ServiceContext::UpdateCircuitBreaker in the reactor, in the order in     *)
(* which the tasks were pushed: the task's version becomes that of all keys *)
(* when the caches are filled.                                              *)
UpdateCircuitBreaker ==
  \E m \in tasks, random \in {req.random : req \in setup.requests} :
    /\ caches' = UpdateCache(m, data, bad, random)
    /\ version' = m
    /\ tasks' = tasks \ {m}
    /\ ahead' = IF m > open.version THEN Max({m, ahead}) ELSE ahead
    /\ UNCHANGED <<setup, data, bad, open, sets, calls, last, located, recorded>>

(* Service::WriteCircuitBreakerUnhealthySets; its version is read for the   *)
(* keys where it is kept.                                                   *)
WriteCircuitBreakerUnhealthySets ==
  /\ sets.version < setup.subsetChanges
  /\ \E subsets \in setup.broken : sets' = [version |-> sets.version + 1, subsets |-> subsets]
  /\ UNCHANGED <<setup, data, bad, open, version, caches, calls, last, located, tasks, recorded, ahead>>

(* ServiceContext::UpdateInstances with new data, another InstancesSet: the *)
(* caches are filled with it at once.                                       *)
UpdateInstances ==
  \E unhealthy \in setup.failing, random \in {req.random : req \in setup.requests} :
    /\ data < setup.revisions
    /\ data' = data + 1 /\ bad' = unhealthy
    /\ caches' = UpdateCache(version, data + 1, unhealthy, random)
    /\ UNCHANGED <<setup, open, version, sets, calls, last, located, tasks, recorded, ahead>>

(* ServiceCache::Clear of one cache drops the entries not used recently.   *)
ClearCache ==
  \E name \in ToSet(setup.chain) :
    /\ \E key \in DOMAIN caches : key[1] = name
    /\ caches' = [key \in {k \in DOMAIN caches : k[1] # name} |-> caches[key]]
    /\ UNCHANGED <<setup, data, bad, open, version, sets, calls, last, located, tasks, recorded, ahead>>

(* ClientLocation::Update: the location reported by a server arrives.       *)
UpdateLocation ==
  /\ ~located /\ located' = TRUE
  /\ UNCHANGED <<setup, data, bad, open, version, sets, caches, calls, last, tasks, recorded, ahead>>

Next == Route \/ SetCircuitBreakerData \/ UpdateCircuitBreaker \/ WriteCircuitBreakerUnhealthySets
        \/ UpdateInstances \/ ClearCache \/ UpdateLocation

Spec == Init /\ [][Next]_vars

-----------------------------------------------------------------------------
(* A route served from the caches is what the routers would compute now,   *)
(* whatever other callers, breakers, tasks and updates of the data filled  *)
(* them with, once the version of the keys has caught up with the data of  *)
(* the instance breakers and unless keys had that version before its data  *)
(* came (see README): subset breakers, flags, rules and locations are told *)
(* apart at once.  The keys of canary and metadata router leave out the    *)
(* flags of the request, and a rule's key only has the last of several     *)
(* parameters; requests that differ in nothing else are excluded by        *)
(* setup.keyed.                                                            *)
CacheIsFresh == setup.keyed /\ last # NULL => (last.settled => last.got = last.fresh)

(* The canary router hands an unhealthy instance on only when none it      *)
(* starts from is healthy; the nearby router (with the default share of    *)
(* 100 per cent) only when none is within the levels it may use.  The      *)
(* metadata router offers unhealthy matches before it falls back at all:   *)
(* then and only then no match is healthy, and among what it may fall back *)
(* to the healthy ones come first.                                         *)
HealthyFirst ==
  last = NULL => \A insts \in SUBSET All : \A unhealthy \in SUBSET insts :
    /\ \A value \in {inst[i].canary : i \in All} \cup {NULL} :
         Canary(insts, value, unhealthy) \cap unhealthy # {} => insts \subseteq unhealthy
    /\ insts # {} => Canary(insts, NULL, unhealthy) # {}
    /\ \A req \in setup.requests :
         LET got   == Metadata(insts, req.meta, req.failover, unhealthy)
             match == {i \in insts : MetadataMatch(req.meta, inst[i].meta)}
         IN IF match # {}
            THEN got \subseteq match /\ (got \cap unhealthy # {} <=> match \subseteq unhealthy)
            ELSE got \cap unhealthy # {} =>
                   Failover(insts, req.meta, req.failover) \subseteq unhealthy
    /\ setup.nearby.percent = 100 /\ setup.nearby.degrade =>
         LET within == Within(insts, setup.nearby.max, setup.nearby.match)
             got    == Nearby(insts, unhealthy)
         IN /\ got \cap unhealthy # {} => within \subseteq unhealthy
            /\ setup.nearby.recover /\ within # {} => got # {}
            /\ \A i \in got, j \in within \ unhealthy : Near(j) > Near(i) => j \in got

(* Traffic of a rule goes to the subsets the breakers allow: never to an   *)
(* isolated one; to an open one only if no subset of any priority is       *)
(* closed; to a lower priority only if the highest has no closed subset    *)
(* left to itself.                                                         *)
RuleChoosesBest ==
  last = NULL => \A req \in setup.requests :
    LET match   == RouteMatch(req.caller)
        cluster == CalculateSet(match, All, CalculateUnhealthySet(req, bad),
                                IF req.caller = NULL THEN <<>> ELSE req.caller.meta)
        chosen  == CalculateSubset(cluster, req.labels)
        top     == Cluster(cluster, Min(Priorities(cluster)))
        closed  == {s \in cluster : MayReplace(s, req.labels)}
    IN match.code = "Match" /\ cluster # {} =>
         /\ \A s \in chosen : ~s.isolated
         /\ \A s \in chosen : Status(s, req.labels) = "Open" => closed = {}
         /\ (\E s \in chosen : s.priority > Min(Priorities(top))) =>
              \A s \in top : s.isolated \/ Status(s, req.labels) \in {"Open", "HalfOpen"}
                             \/ s \in chosen
         /\ chosen = {} => \A s \in top : s.isolated

(* Each router prefers what is healthy and allowed to what is not.         *)
PrefersHealthy == HealthyFirst /\ RuleChoosesBest
=============================================================================
