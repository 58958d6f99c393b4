-------------------------- MODULE InstancesFuture --------------------------
(* Asynchronous queries: AsyncGetInstances and AsyncGetOneInstance prepare *)
(* a future, SetServiceCacheNotify registers a callback for the moment all *)
(* data is there, and the cache thread calls it when the data arrives or a *)
(* timer expires.  The callback does what examples/consumer/               *)
(* async_get_route.cpp does: Get without waiting, and the end of the       *)
(* callback object deletes the future.                                     *)
EXTENDS Integers, FiniteSets, FiniteSetsExt, Sequences

CONSTANTS NULL, Setups

(* setup: futures, whether rules are routed by, and who the caller is;     *)
(* store: the data of the registry; notified: what the notify objects hold; *)
(* future, watcher: the objects; listening: service_watchers_;             *)
(* tasks: pending tasks of the cache thread; called: callbacks made.       *)
VARIABLES setup, store, notified, future, watcher, listening, tasks, called

vars == <<setup, store, notified, future, watcher, listening, tasks, called>>

Futures == UNION {s.futures : s \in Setups}

Kinds == <<"instances", "rule", "source">>

(* A caller that names the callee as its own service asks for one rule     *)
(* twice.                                                                  *)
Key(k) == IF k = "source" /\ setup.source = "same" THEN "rule" ELSE k

Wanted == {"instances"} \cup (IF setup.rule THEN {"rule"} ELSE {})
                        \cup (IF setup.rule /\ setup.source # NULL THEN {"source"} ELSE {})

(* What a future keeps: a notify for each kind of waits, and the data that *)
(* came with it                                                            *)
Future(waits, held) == [waits |-> waits, held |-> held, ready |-> FALSE, refs |-> 1, result |-> NULL]

-----------------------------------------------------------------------------
(* RouteInfoNotify *)

IsDataReady(fu, disk) ==
  fu.ready \/ \A k \in fu.waits : fu.held[k] = "ok" \/ (disk /\ fu.held[k] # NULL)

(* WaitData without time to wait: the kinds in order, up to the first that *)
(* has neither data in its notify nor a copy from disk.                    *)
WaitData(fu) ==
  LET open(n) == Kinds[n] \in fu.waits /\ fu.held[Kinds[n]] # "ok"
      fails == {n \in DOMAIN Kinds : /\ open(n)
                                     /\ notified[Key(Kinds[n])] = NULL
                                     /\ fu.held[Kinds[n]] # "disk"}
      until == IF fails = {} THEN Len(Kinds) ELSE Min(fails) - 1
      got(n) == IF n <= until /\ open(n) /\ notified[Key(Kinds[n])] # NULL
                THEN notified[Key(Kinds[n])] ELSE fu.held[Kinds[n]]
  IN [fu EXCEPT !.ready = fails = {},
                !.held = [k \in DOMAIN fu.held |-> got(CHOOSE n \in DOMAIN Kinds : Kinds[n] = k)]]

CheckReady(fu) == IF IsDataReady(fu, FALSE) THEN [fu EXCEPT !.ready = TRUE] ELSE WaitData(fu)

SetDataToRouteInfo(fu) ==
  [fu EXCEPT !.waits = {},
             !.result = IF \E k \in fu.waits : fu.held[k] = "gone" THEN "NotFound" ELSE "Ok"]

(* InstancesFuture::Get(0)                                                 *)
Get(fu) ==
  LET w == CheckReady(fu)
  IN IF w.ready \/ IsDataReady(w, TRUE) THEN SetDataToRouteInfo(w) ELSE [w EXCEPT !.result = "Timeout"]

(* The references to the future that go when a callback object goes: the   *)
(* user's, and the watcher's if there is one.                              *)
Release(fu, n) == [fu EXCEPT !.refs = @ - n]

-----------------------------------------------------------------------------
Init ==
  /\ setup \in Setups
  /\ store \in [{Key(k) : k \in Wanted} -> setup.data]
  /\ notified = [k \in DOMAIN store |-> IF store[k] \in {"ok", "gone"} THEN store[k] ELSE NULL]
  /\ future = [f \in setup.futures |-> NULL]
  /\ watcher = [f \in setup.futures |-> NULL]
  /\ listening = [k \in DOMAIN store |-> {}]
  /\ tasks = <<>>
  /\ called = [f \in setup.futures |-> <<>>]

(* AsyncGetInstances, AsyncGetOneInstance: PrepareRouteInfoWithNotify      *)
AsyncGetInstances(f) ==
  LET waits == {k \in Wanted : store[Key(k)] # "ok"}
  IN /\ future[f] = NULL
     /\ future' = [future EXCEPT ![f] = Future(waits, [k \in waits |->
                     IF store[Key(k)] = "none" THEN NULL ELSE store[Key(k)]])]
     /\ UNCHANGED <<setup, store, notified, watcher, listening, tasks, called>>

(* The future's user asks for a callback; it is called at once if the data *)
(* is there.                                                               *)
SetServiceCacheNotify(f) ==
  /\ future[f] # NULL /\ watcher[f] = NULL /\ called[f] = <<>>
  /\ LET fu == CheckReady(future[f])
     IN \/ /\ fu.ready
           /\ called' = [called EXCEPT ![f] = <<"ready">>]
           /\ future' = [future EXCEPT ![f] = Release(Get(fu), 1)]
           /\ UNCHANGED <<watcher, tasks>>
        \/ /\ ~fu.ready
           /\ future' = [future EXCEPT ![f] = [fu EXCEPT !.refs = @ + 1]]
           /\ watcher' = [watcher EXCEPT ![f] = [flags |-> {}, refs |-> 1, timer |-> FALSE]]
           /\ tasks' = Append(tasks, [type |-> "add", of |-> f])
           /\ UNCHANGED called
  /\ UNCHANGED <<setup, store, notified, listening>>

-----------------------------------------------------------------------------
(* The cache thread *)

(* A watcher registers for every kind the query wants, whether it is       *)
(* missing or not.  The early return is never taken: nothing fills the     *)
(* future's data between the two steps.                                    *)
AddTimeoutWatcher ==
  /\ tasks # <<>> /\ Head(tasks).type = "add"
  /\ tasks' = Tail(tasks)
  /\ LET f == Head(tasks).of
     IN IF IsDataReady(future[f], FALSE)
        THEN /\ called' = [called EXCEPT ![f] = Append(@, "ready")]
             /\ future' = [future EXCEPT ![f] = Release(Get(@), 2)]
             /\ watcher' = [watcher EXCEPT ![f] = [@ EXCEPT !.refs = 0]]
             /\ UNCHANGED listening
        ELSE /\ listening' = [k \in DOMAIN listening |->
                                IF \E w \in Wanted : Key(w) = k THEN listening[k] \cup {f}
                                ELSE listening[k]]
             /\ watcher' = [watcher EXCEPT ![f] = [flags |-> Wanted, refs |-> Cardinality(Wanted),
                                                   timer |-> TRUE]]
             /\ UNCHANGED <<called, future>>
  /\ UNCHANGED <<setup, store, notified>>

(* A faulty variant: the last data leaves the timer running.               *)
NotifyReadyKeepingTimer(w, key) ==
  [w EXCEPT !.flags = @ \ {key}, !.refs = @ - 1]

(* TimeoutWatcher::NotifyReady and DecrementRef for data under a key; the  *)
(* rule of the callee's own service counts as the callee's.                *)
NotifyReady(w, key) ==
  [w EXCEPT !.flags = @ \ {key}, !.refs = @ - 1, !.timer = w.flags # {key}]

OnServiceDataChange ==
  /\ tasks # <<>> /\ Head(tasks).type = "change"
  /\ tasks' = Tail(tasks)
  /\ LET key == Head(tasks).of
         done == {f \in listening[key] : watcher[f].flags = {key}}
     IN /\ watcher' = [f \in DOMAIN watcher |->
                         IF f \in listening[key] THEN NotifyReady(watcher[f], key) ELSE watcher[f]]
        /\ called' = [f \in DOMAIN called |-> IF f \in done THEN Append(called[f], "ready") ELSE called[f]]
        /\ future' = [f \in DOMAIN future |-> IF f \in done THEN Release(Get(future[f]), 2) ELSE future[f]]
        /\ listening' = [listening EXCEPT ![key] = {}]
  /\ UNCHANGED <<setup, store, notified>>

(* A faulty variant: a watcher leaves only the first set it is in.         *)
RemoveTimeoutWatcherOnce(f) ==
  [k \in DOMAIN listening |-> IF k = "instances" THEN listening[k] \ {f} ELSE listening[k]]

(* RemoveTimeoutWatcher takes a reference for each flag that is left; if   *)
(* the source flag is not among them, the last test reads the flags of the *)
(* object it has just freed, which free() leaves as they were.             *)
RemoveTimeoutWatcher(f) ==
  [k \in DOMAIN listening |->
     IF \E w \in watcher[f].flags : Key(w) = k THEN listening[k] \ {f} ELSE listening[k]]

ServiceCacheTimeout(f) ==
  /\ watcher[f] # NULL /\ watcher[f].timer
  /\ called' = [called EXCEPT ![f] = Append(@, "timeout")]
  /\ listening' = RemoveTimeoutWatcher(f)
  /\ watcher' = [watcher EXCEPT ![f] = [watcher[f] EXCEPT !.refs = @ - Cardinality(watcher[f].flags),
                                                          !.timer = FALSE]]
  /\ future' = [future EXCEPT ![f] = Release(@, 2)]
  /\ UNCHANGED <<setup, store, notified, tasks>>

-----------------------------------------------------------------------------
(* The servers' answers: UpdateServiceData stores and submits the change,  *)
(* the handler notifies after that.                                        *)
UpdateServiceData(k) ==
  /\ store[k] \in {"none", "disk"}
  /\ \E data \in {"ok", "gone"} : store' = [store EXCEPT ![k] = data]
  /\ tasks' = Append(tasks, [type |-> "change", of |-> k])
  /\ UNCHANGED <<setup, notified, future, watcher, listening, called>>

Notify(k) ==
  /\ store[k] \in {"ok", "gone"} /\ notified[k] = NULL
  /\ notified' = [notified EXCEPT ![k] = store[k]]
  /\ UNCHANGED <<setup, store, future, watcher, listening, tasks, called>>

Cache == AddTimeoutWatcher \/ OnServiceDataChange

Next ==
  \/ \E f \in DOMAIN future : AsyncGetInstances(f) \/ SetServiceCacheNotify(f) \/ ServiceCacheTimeout(f)
  \/ \E k \in DOMAIN store : UpdateServiceData(k) \/ Notify(k)
  \/ Cache

(* The cache thread runs its pending tasks, and timers expire.             *)
Fairness == WF_vars(Cache) /\ \A f \in Futures : WF_vars(f \in DOMAIN future /\ ServiceCacheTimeout(f))

Spec == Init /\ [][Next]_vars /\ Fairness

-----------------------------------------------------------------------------
(* Watchers, timers and the sets they are listed in agree: a watcher that  *)
(* is alive holds a reference for each kind it waits for and has a timer,  *)
(* nothing refers to one that is gone, and its future outlives it.         *)
WatcherSound ==
  \A f \in DOMAIN watcher : LET w == watcher[f] IN
    /\ w # NULL => /\ w.refs >= 0
                   /\ w.timer => w.refs = Cardinality(w.flags) /\ w.refs > 0
                   /\ w.refs > 0 => future[f].refs > 0
                   /\ w.refs = 0 => future[f].refs = 0 /\ ~w.timer
    /\ \A k \in DOMAIN listening : f \in listening[k] => w # NULL /\ w.timer /\ k \in w.flags

(* What the users are told                                                 *)
Status == [f \in Futures |->
             IF f \notin DOMAIN called THEN "idle"
             ELSE IF Len(called[f]) > 1 THEN "twice"
             ELSE IF called[f] # <<>> THEN called[f][1]
             ELSE IF watcher[f] # NULL THEN "asked" ELSE "idle"]

(* Each user's callback is called once: asynchronous queries implement     *)
(* CallbackOnce.                                                           *)
Callback == INSTANCE CallbackOnce WITH Callers <- Futures, status <- Status
CalledOnce == Callback!Spec

(* consumer.h says of NotifyTimeout that it is called when the data the    *)
(* query waits for has timed out: then some of it is missing.              *)
TimeoutMeansMissing ==
  \A f \in DOMAIN called : called[f] # <<>> /\ called[f][1] = "timeout" =>
    \E k \in Wanted : store[Key(k)] \in {"none", "disk"}
=============================================================================
