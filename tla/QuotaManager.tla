---------------------------- MODULE QuotaManager ----------------------------
(* Rate limit windows between their users: callers look their window up     *)
(* without a lock and create it under one, the reactor clears expired ones, *)
(* and the cache, an RcuMap or an LruHashMap, owns them.                    *)
EXTENDS Integers, Sequences, SequencesExt, FiniteSets

CONSTANTS NULL, Setups

(* setup: the bounds; version: which rules the registry has; clock: in ms;  *)
(* win: all windows made; cache: table_, the window of each key; recent and *)
(* size: lru_link_ and size_; garbage: values an RcuMap has still to        *)
(* release; lock: holder of window_init_lock_; caller: the calls under way; *)
(* reactor: windows ClearExpiredWindow has to look at; *)
(* collector: those CollectRecord holds.                                    *)
VARIABLES setup, version, clock, win, cache, recent, size, garbage, lock, caller, reactor, collector

vars == <<setup, version, clock, win, cache, recent, size, garbage, lock, caller, reactor, collector>>
map == <<cache, recent, size, garbage>>
environment == <<setup, version, clock>>

-----------------------------------------------------------------------------
(* Rules *)

(* A rule says how long each of its amounts is valid, in ms, with how much; *)
(* soft, when set, replaces the amount.                                     *)
InitAmount(rule) ==
  {[duration |-> a.duration, max |-> IF a.soft = NULL THEN a.max ELSE a.soft] : a \in rule.amounts}

InitReportConfig(rule) == rule.percent = NULL \/ rule.percent \in 1..100

(* Only rules that Init accepts are kept.                                   *)
Accepted(rule) == /\ ~rule.disable
                  /\ rule.amounts # {}
                  /\ \A a \in rule.amounts : a.duration >= 1000
                  /\ rule.action \in {"reject", "unirate"}
                  /\ InitReportConfig(rule)

Rules(v) == {rule \in setup.rules[v] : Accepted(rule)}

IsMatch(rule, request) == request.method \in rule.methods /\ request.label \in rule.labels

Before(lhs, rhs) == lhs.priority < rhs.priority \/ (lhs.priority = rhs.priority /\ setup.order[lhs.id] <= setup.order[rhs.id])

MatchRule(v, request) ==
  LET matching == {rule \in Rules(v) : IsMatch(rule, request)}
  IN IF matching = {} THEN NULL ELSE CHOOSE rule \in matching : \A other \in matching : Before(rule, other)

GetWindowKey(rule, request) ==
  <<rule.id, request.method, IF rule.regex THEN request.label ELSE NULL>>

Keys == {GetWindowKey(rule, request) : rule \in UNION {setup.rules[v] : v \in DOMAIN setup.rules}, request \in setup.requests}

IsRuleEnable(rule) == \E other \in Rules(version) : other.id = rule.id /\ other.revision = rule.revision

MaxOf(S) == CHOOSE x \in S : \A y \in S : x >= y

FindMaxValidDuration(rule) == MaxOf({a.duration : a \in rule.amounts})

-----------------------------------------------------------------------------
(* Windows *)

kMinExpireDuration == 10000
kMaxExpireDuration == 60000

ExpireTime(rule) ==
  LET wanted == FindMaxValidDuration(rule) * 3
  IN IF wanted < kMinExpireDuration THEN kMinExpireDuration
     ELSE IF wanted > kMaxExpireDuration THEN IF rule.global THEN kMaxExpireDuration ELSE FindMaxValidDuration(rule)
     ELSE wanted

IsExpired(w) == win[w].used + ExpireTime(win[w].rule) < clock

(* Unirate: one request per effective_rate_, the slowest of the amounts;    *)
(* NULL stands for reject_all_.                                             *)
EffectiveRate(rule) ==
  IF \E a \in InitAmount(rule) : a.max = 0 THEN NULL ELSE MaxOf({a.duration \div a.max : a \in InitAmount(rule)})

max_queuing_duration_ == 1000

(* What the shaping bucket answers to a request for one, with its new       *)
(* last_grant_time_.                                                        *)
UnirateGetQuota(rule, granted) ==
  LET next == granted + EffectiveRate(rule)
  IN IF EffectiveRate(rule) = NULL THEN [ok |-> TRUE, granted |-> granted]
     ELSE IF next < clock THEN [ok |-> TRUE, granted |-> clock]
     ELSE IF next - clock > max_queuing_duration_ THEN [ok |-> FALSE, granted |-> granted]
     ELSE [ok |-> TRUE, granted |-> next]

TrafficShaping(w) ==
  IF win[w].rule.action = "reject" THEN [ok |-> TRUE, granted |-> win[w].granted]
  ELSE UnirateGetQuota(win[w].rule, win[w].granted)

(* A new window: referenced by the caller and, when global, by its          *)
(* WindowSyncTask.                                                          *)
RateLimitWindow(key, rule) ==
  [key |-> key, rule |-> rule, deleted |-> FALSE, used |-> clock, limited |-> FALSE, sync |-> rule.global,
   granted |-> clock - FindMaxValidDuration(rule), refs |-> IF rule.global THEN 2 ELSE 1]

CheckRateLimitRuleRevision(w, rule) == ~win[w].deleted /\ win[w].rule.revision = rule.revision

IncrementRef(ws, w) == [ws EXCEPT ![w].refs = @ + 1]
DecrementRef(ws, w) == [ws EXCEPT ![w].refs = @ - 1]

-----------------------------------------------------------------------------
(* The cache *)

Lru == setup.lru > 0

Without(list, key) == RemoveFirst(list, key)

MoveToEnd(key) == IF key \in ToSet(recent) THEN Append(Without(recent, key), key) ELSE recent

AddToEnd(key) == IF Lru THEN Append(recent, key) ELSE recent

LruHashMap == recent = <<>> /\ size = 0

(* A faulty variant: the new key is not counted.                            *)
UpdateUncounted(key, w) ==
  /\ cache' = [cache EXCEPT ![key] = w]
  /\ recent' = AddToEnd(key)
  /\ UNCHANGED <<size, garbage>>

(* Update: insertion of a key that is not there, the only case since every  *)
(* caller looks for it under window_init_lock_.                             *)
Update(key, w) ==
  /\ cache' = [cache EXCEPT ![key] = w]
  /\ recent' = AddToEnd(key)
  /\ size' = IF Lru THEN size + 1 ELSE size
  /\ UNCHANGED garbage

(* Delete leaves size_ to the caller. An LruHashMap releases its reference  *)
(* at once, an RcuMap when it collects its garbage.                         *)
Deleted(ws, key) == IF Lru /\ cache[key] # NULL THEN DecrementRef(ws, cache[key]) ELSE ws

Delete(key) ==
  /\ cache' = [cache EXCEPT ![key] = NULL]
  /\ recent' = Without(recent, key)
  /\ garbage' = IF Lru \/ cache[key] = NULL THEN garbage ELSE garbage \cup {cache[key]}

GetAllValuesWithRef == {cache[key] : key \in Keys} \ {NULL}

Referenced(held) == [w \in DOMAIN win |-> IF w \in held THEN [win[w] EXCEPT !.refs = @ + 1] ELSE win[w]]
Released(held) == [w \in DOMAIN win |-> IF w \in held THEN [win[w] EXCEPT !.refs = @ - 1] ELSE win[w]]

-----------------------------------------------------------------------------
Idle == [pc |-> "idle", rule |-> NULL, key |-> NULL, w |-> NULL]

Init == /\ setup \in Setups
        /\ version = 1
        /\ clock = setup.start
        /\ win = <<>>
        /\ cache = [key \in Keys |-> NULL]
        /\ LruHashMap /\ garbage = {}
        /\ lock = NULL
        /\ caller = [c \in setup.callers |-> Idle]
        /\ reactor = [pc |-> "idle", todo |-> {}, w |-> NULL]
        /\ collector = {}

-----------------------------------------------------------------------------
(* Calls *)

At(c, pc) == caller[c].pc = pc
Goto(c, pc) == caller' = [caller EXCEPT ![c].pc = pc]

CheckRequest(request) == request.method # NULL

(* The rules at that time, the rule for the request and its window key.     *)
(* A request without rule is not limited.                                   *)
PrepareQuotaInfo(c, request) ==
  LET rule == MatchRule(version, request)
  IN /\ At(c, "idle") /\ CheckRequest(request) /\ rule # NULL
     /\ caller' = [caller EXCEPT ![c] = [pc |-> "lookup", rule |-> rule, key |-> GetWindowKey(rule, request), w |-> NULL]]
     /\ UNCHANGED <<environment, win, map, lock, reactor, collector>>

(* Get of a key: its window, with a reference, becomes the most recent.     *)
Found(c) == cache[caller[c].key] # NULL /\ CheckRateLimitRuleRevision(cache[caller[c].key], caller[c].rule)

Get(c) ==
  /\ Found(c)
  /\ win' = IncrementRef(win, cache[caller[c].key])
  /\ recent' = MoveToEnd(caller[c].key)
  /\ caller' = [caller EXCEPT ![c].pc = "use", ![c].w = cache[caller[c].key]]

Lookup(c) ==
  /\ At(c, "lookup")
  /\ \/ Get(c)
     \/ ~Found(c) /\ Goto(c, "lock") /\ recent' = MoveToEnd(caller[c].key) /\ win' = win
  /\ UNCHANGED <<environment, cache, size, garbage, lock, reactor, collector>>

(* Under the lock: another thread may have created it meanwhile.            *)
LookupAgain(c) ==
  /\ At(c, "lock") /\ lock = NULL
  /\ Get(c)
  /\ UNCHANGED <<environment, cache, size, garbage, lock, reactor, collector>>

(* A window of another revision, or a deleted one, leaves the cache ...     *)
DropOld(c) ==
  LET old == cache[caller[c].key]
  IN /\ At(c, "lock") /\ lock = NULL /\ ~Found(c)
     /\ lock' = c
     /\ Delete(caller[c].key)
     /\ win' = IF old = NULL THEN win ELSE Deleted(IncrementRef(win, old), caller[c].key)
     /\ caller' = [caller EXCEPT ![c].pc = "create", ![c].w = old]
     /\ UNCHANGED <<environment, size, reactor, collector>>

(* ... and is marked, before the new one is made and inserted.              *)
Marked(ws, w) == IF w = NULL THEN ws ELSE DecrementRef([ws EXCEPT ![w].deleted = TRUE], w)

Create(c) ==
  LET w == Len(win) + 1
  IN /\ At(c, "create") /\ w <= setup.windows
     /\ win' = Append(Marked(win, caller[c].w), [RateLimitWindow(caller[c].key, caller[c].rule) EXCEPT !.refs = @ + 1])
     /\ Update(caller[c].key, w)
     /\ caller' = [caller EXCEPT ![c].pc = "evict", ![c].w = w]
     /\ UNCHANGED <<environment, lock, reactor, collector>>

(* Evict: the oldest key leaves the recency list, then the table.           *)
RemoveHead(c) ==
  /\ At(c, "evict") /\ Lru /\ size > setup.lru
  /\ caller' = [caller EXCEPT ![c].pc = "evicting", ![c].key = Head(recent)]
  /\ recent' = Tail(recent)
  /\ UNCHANGED <<environment, win, cache, size, garbage, lock, reactor, collector>>

Evict(c) ==
  /\ At(c, "evicting")
  /\ Delete(caller[c].key) /\ win' = Deleted(win, caller[c].key)
  /\ size' = size - 1
  /\ Goto(c, "evict")
  /\ UNCHANGED <<environment, lock, reactor, collector>>

Unlock(c) ==
  /\ At(c, "evict") /\ ~(Lru /\ size > setup.lru)
  /\ lock' = NULL
  /\ Goto(c, "use")
  /\ UNCHANGED <<environment, win, map, reactor, collector>>

GetRateLimitWindow(c) ==
  Lookup(c) \/ LookupAgain(c) \/ DropOld(c) \/ Create(c) \/ RemoveHead(c) \/ Evict(c) \/ Unlock(c)

(* InitWindow only waits for the window.                                    *)
InitWindow(c) ==
  /\ At(c, "use") /\ caller' = [caller EXCEPT ![c] = Idle]
  /\ win' = DecrementRef(win, caller[c].w)
  /\ UNCHANGED <<environment, map, lock, reactor, collector>>

(* AllocateQuota: the shaping bucket, then the QPS bucket, which may refuse. *)
AllocateQuota(c) ==
  LET w == caller[c].w
      shaped == TrafficShaping(w)
  IN /\ At(c, "use") /\ caller' = [caller EXCEPT ![c] = Idle]
     /\ \E limited \in IF shaped.ok THEN BOOLEAN ELSE {win[w].limited} :
          win' = DecrementRef([win EXCEPT ![w].used = clock, ![w].granted = shaped.granted, ![w].limited = limited], w)
     /\ UNCHANGED <<environment, map, lock, reactor, collector>>

(* A faulty variant: a call that ran out of time keeps its window.          *)
GetQuotaResponseKeeping(c) ==
  \/ AllocateQuota(c)
  \/ /\ At(c, "use") /\ caller' = [caller EXCEPT ![c] = Idle]
     /\ UNCHANGED <<environment, win, map, lock, reactor, collector>>

(* With a window: quota from it, or too late for that.                      *)
GetQuotaResponse(c) ==
  \/ AllocateQuota(c)
  \/ /\ At(c, "use") /\ caller' = [caller EXCEPT ![c] = Idle]
     /\ win' = DecrementRef(win, caller[c].w)
     /\ UNCHANGED <<environment, map, lock, reactor, collector>>

GetQuota(c) ==
  \/ \E request \in setup.requests : PrepareQuotaInfo(c, request)
  \/ GetRateLimitWindow(c) \/ GetQuotaResponse(c)

(* UpdateCallResult only looks the window up.                               *)
UpdateCallResult(request) ==
  LET rule == MatchRule(version, request)
  IN /\ rule # NULL /\ cache[GetWindowKey(rule, request)] # NULL
     /\ recent' = MoveToEnd(GetWindowKey(rule, request))
     /\ UNCHANGED <<environment, win, cache, size, garbage, lock, caller, reactor, collector>>

-----------------------------------------------------------------------------
(* ClearExpiredWindow, on the quota manager's reactor *)

ClearExpiredWindow ==
  /\ reactor.pc = "idle" /\ GetAllValuesWithRef # {}
  /\ win' = Referenced(GetAllValuesWithRef)
  /\ reactor' = [pc |-> "next", todo |-> GetAllValuesWithRef, w |-> NULL]
  /\ UNCHANGED <<environment, map, lock, caller, collector>>

(* One window: kept if not expired, or if limited by a rule in force.       *)
CheckWindow ==
  \E w \in reactor.todo :
    /\ reactor.pc = "next"
    /\ IF IsExpired(w) /\ ~(win[w].limited /\ IsRuleEnable(win[w].rule))
       THEN reactor' = [pc |-> "mark", todo |-> reactor.todo \ {w}, w |-> w] /\ win' = win
       ELSE reactor' = [reactor EXCEPT !.todo = @ \ {w}] /\ win' = DecrementRef(win, w)
    /\ UNCHANGED <<environment, map, lock, caller, collector>>

MakeDeleted ==
  /\ reactor.pc = "mark"
  /\ win' = [win EXCEPT ![reactor.w].deleted = TRUE]
  /\ reactor' = [reactor EXCEPT !.pc = "delete"]
  /\ UNCHANGED <<environment, map, lock, caller, collector>>

(* Left out: a Delete while another thread evicts. Evict reads the key of   *)
(* the node it took off the list after unlocking it, and takes the sentinel *)
(* off an empty list.                                                       *)
NotEvicting == Lru => \A c \in DOMAIN caller : ~At(c, "evict") /\ ~At(c, "evicting")

DeleteKey ==
  LET key == win[reactor.w].key
  IN /\ reactor.pc = "delete" /\ NotEvicting
     /\ Delete(key) /\ win' = DecrementRef(Deleted(win, key), reactor.w)
     /\ reactor' = [reactor EXCEPT !.pc = "next", !.w = NULL]
     /\ UNCHANGED <<environment, size, lock, caller, collector>>

(* At the end CheckGc releases what was deleted long enough ago.            *)
ClearedAll ==
  /\ reactor.pc = "next" /\ reactor.todo = {}
  /\ reactor' = [reactor EXCEPT !.pc = "idle"]
  /\ \E old \in SUBSET garbage : garbage' = garbage \ old /\ win' = Released(old)
  /\ UNCHANGED <<environment, cache, recent, size, lock, caller, collector>>

(* RateLimitConnector::SyncTask gives a deleted or expired window up.        *)
SyncTask(w) ==
  /\ win[w].sync /\ (win[w].deleted \/ IsExpired(w))
  /\ win' = DecrementRef([win EXCEPT ![w].sync = FALSE], w)
  /\ UNCHANGED <<environment, map, lock, caller, reactor, collector>>

(* CollectRecord, on the monitor's thread                                   *)
CollectRecord ==
  /\ setup.collect /\ collector = {} /\ GetAllValuesWithRef # {}
  /\ collector' = GetAllValuesWithRef /\ win' = Referenced(collector')
  /\ UNCHANGED <<environment, map, lock, caller, reactor>>

Collected ==
  /\ collector # {}
  /\ collector' = {} /\ win' = Released(collector)
  /\ UNCHANGED <<environment, map, lock, caller, reactor>>

-----------------------------------------------------------------------------
NewRules == /\ version < Len(setup.rules) /\ version' = version + 1
            /\ UNCHANGED <<setup, clock, win, map, lock, caller, reactor, collector>>

Tick == /\ clock < setup.end /\ clock' = clock + setup.tick
        /\ UNCHANGED <<setup, version, win, map, lock, caller, reactor, collector>>

Next ==
  \/ \E c \in DOMAIN caller : GetQuota(c) \/ InitWindow(c)
  \/ Lru /\ \E request \in setup.requests : UpdateCallResult(request)
  \/ ClearExpiredWindow \/ CheckWindow \/ MakeDeleted \/ DeleteKey \/ ClearedAll
  \/ \E w \in DOMAIN win : SyncTask(w)
  \/ CollectRecord \/ Collected
  \/ NewRules \/ Tick

Spec == Init /\ [][Next]_vars

-----------------------------------------------------------------------------
(* Properties *)

TypeOK == /\ version \in DOMAIN setup.rules
          /\ \A w \in DOMAIN win : win[w].refs \in Nat
          /\ \A key \in Keys : cache[key] \in DOMAIN win \cup {NULL}

One(holds) == IF holds THEN 1 ELSE 0

(* The references of a window are exactly those of the cache, of calls, of  *)
(* the clearing reactor, of the record collector and of its sync task,      *)
(* whoever replaced, evicted or deleted it when: none leaks, and nobody     *)
(* uses a freed window (GetRateLimitWindow, ClearExpiredWindow, Evict).     *)
WindowRefs ==
  \A w \in DOMAIN win :
    win[w].refs = One(\E key \in Keys : cache[key] = w) + One(w \in garbage) + One(w \in collector) + One(win[w].sync)
                  + One(w \in reactor.todo) + One(w = reactor.w)
                  + Cardinality({c \in DOMAIN caller : caller[c].w = w})

(* Between two updates the LRU map holds no more keys than it was made for, *)
(* its recency list names exactly the keys of its table, and size_ never    *)
(* counts less than there are (LruHashMap::Update, Evict, Delete).          *)
LruBounded ==
  Lru => LET keys == {key \in Keys : cache[key] # NULL}
         IN /\ lock = NULL => Cardinality(keys) <= setup.lru /\ ToSet(recent) = keys
            /\ Cardinality(keys) <= size
            /\ IsInjective(recent)

(* quota_manager.cpp:171: ClearExpiredWindow deletes no window that is      *)
(* limited by a rule in force.                                              *)
LimitedWindowKept ==
  [][\A key \in Keys : DeleteKey /\ cache[key] # NULL /\ cache'[key] = NULL
                       => ~(win[cache[key]].limited /\ IsRuleEnable(win[cache[key]].rule))]_vars

(* The window cache keeps what it holds alive, lets go of the rest, and     *)
(* keeps to its size.                                                       *)
WindowCacheSound == WindowRefs /\ LruBounded
=============================================================================
