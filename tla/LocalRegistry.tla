---------------------------- MODULE LocalRegistry ----------------------------
(***************************************************************************)
(* The cache of one service: InMemoryRegistry (plugin/local_registry/      *)
(* local_registry.cpp), the calls that wait for its data (ServiceDataNotify*)
(* in model/model.cpp, ServiceRouterChain, QuotaManager), its files        *)
(* (cache/cache_persist.cpp, persist_task.cpp) and its expiry.             *)
(*                                                                         *)
(* Three kinds of threads interleave: API threads that ask for data, the   *)
(* reactor of the server connector that runs event handlers, and the cache *)
(* manager's thread that writes files and removes what expired.            *)
(* notify_rwlock_ is held between the actions of a thread; rwlock_ and the *)
(* locks of the maps only inside one action.                               *)
(*                                                                         *)
(* RateLimit stands for kCircuitBreakerConfig too, which is kept in the    *)
(* same way.  The connector is reduced to its queue and listeners (module  *)
(* ServerConnector has the rest) and the RcuMaps to what they hold (module *)
(* RcuMap).  Left out: time (a file read may be too old to use at once;    *)
(* a timeout may come at any time), TimeoutWatchers, dynamic weights, the  *)
(* route caches that UpdateInstances refreshes, and the ServiceRecord.     *)
(***************************************************************************)
EXTENDS Integers, Sequences, FiniteSets, SequencesExt

CONSTANTS
  Users,        \* API threads
  Revisions,    \* of the data servers have
  NULL,
  Setups        \* configurations Init chooses from, see MCLocalRegistry

DataTypes == {"Instances", "RouteRule", "RateLimit"}
NotFound == "NotFound"
Timeout == "Timeout"
Empty == "empty"           \* the empty revision string

DataSet == [revision : Revisions \cup {Empty}, status : {"Disk", "Syncing", NotFound},
            available : BOOLEAN]
MaybeData == DataSet \cup {NULL}

ASSUME ConstantsAssumption ==
  /\ NULL \notin Revisions /\ NULL \notin Users /\ "expire" \notin Users \cup {NULL}
  /\ Revisions \cap {NotFound, Timeout, Empty} = {}
  /\ \A x \in Setups :
       /\ x.calm \in BOOLEAN /\ x.asks \in [Users -> Seq(DataTypes)]
       /\ x.bounds \in [moves : Nat, expiries : Nat, crashes : Nat, failures : Nat]

(* The null pointer is none of the objects. *)
ASSUME NullAssumption ==
  /\ NULL \notin Nat \cup DataSet \cup [instances : MaybeData]
  /\ NULL \notin [type : DataTypes, data : MaybeData, service : Nat \cup {NULL}]
  /\ NULL \notin [number : Nat, revision : Revisions \cup {Empty}, missing : BOOLEAN]

VARIABLES
  setup,
  reg,       \* InMemoryRegistry, see Registry
  notifies,  \* [DataTypes -> sequence of the ServiceDataNotify objects created]
  conn,      \* queue, listeners and running handler of the server connector
  files,     \* [DataTypes -> revision in the file, or NULL]
  persist,   \* persist tasks in the reactor of the cache manager
  expire,    \* where TimingLocalRegistryTask is
  user,      \* [Users -> state of the call, see User]
  breaker,   \* Service a circuit breaker is about to write to, or NULL
  server,    \* [DataTypes -> revision of the data, or NotFound]
  bounds,    \* [moves, expiries, crashes, failures] still to come
  fault      \* what went wrong, or "none"

vars == <<setup, reg, notifies, conn, files, persist, expire, user, breaker,
          server, bounds, fault>>

(* ServiceData; available is IsAvailable().                                *)
Data(revision, status, available) ==
  [revision |-> revision, status |-> status, available |-> available]

Synced(r) == IF r = NotFound THEN Data(Empty, NotFound, FALSE) ELSE Data(r, "Syncing", TRUE)
IsNotFound(d) == d.status = NotFound

(* notify is service_data_notify_map_ with the number of the object,       *)
(* service the number of the Service in service_cache_, which is created   *)
(* with the notify of Instances.  A context is the ServiceContext.  recent *)
(* are the calls that were under way when the context, or the rate limit   *)
(* data, was last used: as calls are shorter than service_expire_time_,    *)
(* what has recent calls has not expired.                                  *)
Registry ==
  [notify |-> [t \in DataTypes |-> NULL], service |-> NULL,
   data |-> [t \in DataTypes |-> NULL], context |-> NULL,
   recent |-> [context |-> {}, limit |-> {}], lock |-> NULL]

Connector ==
  [queue |-> <<>>, listeners |-> [t \in DataTypes |-> NULL], handler |-> NULL]

(* A call prepares the types of todo, then waits for those in waits.  data *)
(* is what it has, file what it loaded, found its results.                *)
User == [pc |-> "idle", todo |-> <<>>, waits |-> <<>>, data |-> NULL, file |-> NULL,
         service |-> NULL, found |-> <<>>]

InCall == {u \in Users : user[u].pc # "idle"}
-----------------------------------------------------------------------------
(* Parts of the handlers *)

(* GetServiceContext *)
UseContext(g, calls) ==
  [g EXCEPT !.context = IF @ = NULL THEN [instances |-> NULL] ELSE @,
            !.recent.context = calls]

(* RcuMap::Get sets the time of use; so does Update when it inserts.       *)
UseLimit(g, calls) == [g EXCEPT !.recent.limit = calls]

(* UpdateServiceData drops instances of a service that is gone.            *)
Dropped(t, service) == t = "Instances" /\ service = NULL

(* A faulty variant: data is left when the handler is deregistered.        *)
StoreUnlessNull(g, t, d, service, calls) ==
  LET used == UseContext(g, calls)
  IN IF d = NULL \/ Dropped(t, service) THEN used
     ELSE IF t = "Instances" THEN [used EXCEPT !.data[t] = d, !.context.instances = d]
     ELSE [used EXCEPT !.data[t] = d]

(* What UpdateServiceData changes in the registry, after GetServiceInLock  *)
(* returned service                                                        *)
Store(g, t, d, service, calls) ==
  LET used   == UseContext(g, calls)
      stored == [used EXCEPT !.data[t] = d]
  IN IF Dropped(t, service) THEN used
     ELSE CASE t = "Instances" -> [stored EXCEPT !.context.instances = d]
            [] t = "RateLimit" /\ d # NULL /\ g.data[t] = NULL -> UseLimit(stored, calls)
            [] OTHER           -> stored

(* Service::UpdateData numbers the instances with the members of a Service *)
(* that must not have been deleted since GetServiceInLock; dropped data is *)
(* released though the caller goes on to use it.                           *)
UpdateFault(t, d, service) ==
  IF d = NULL \/ t # "Instances" THEN fault
  ELSE IF service = NULL THEN "released data"
  ELSE IF service # reg.service THEN "deleted service" ELSE fault

PersistTask(t, revision) == [type |-> t, revision |-> revision]

(* The file follows what servers say: "not found" deletes it.              *)
PersistServiceData(t, d) ==
  IF d = NULL THEN <<>>
  ELSE <<PersistTask(t, IF IsNotFound(d) THEN NULL ELSE d.revision)>>

(* DiscoverEventTask; one without handler deregisters.                     *)
Task(t, number, revision) == [type |-> t, number |-> number, revision |-> revision]

-----------------------------------------------------------------------------
(* Calls of API threads *)

(* Something of an expired service is still to be removed.                 *)
Expiring ==
  \/ expire # "idle"
  \/ conn.handler # NULL /\ conn.handler.data = NULL
  \/ \E i \in DOMAIN conn.queue : conn.queue[i].number = NULL

Step(u, c, g) ==
  /\ user' = [user EXCEPT ![u] = c]
  /\ reg' = IF c.pc = "idle"
            THEN [g EXCEPT !.recent = [x \in DOMAIN @ |-> @[x] \ {u}]] ELSE g

(* The next type to prepare, or the first wait, or the end of the call     *)
Proceed(c) ==
  [c EXCEPT !.pc = IF c.todo # <<>> THEN "get" ELSE IF c.waits # <<>> THEN "wait" ELSE "idle",
            !.data = NULL, !.file = NULL, !.service = NULL]

(* The result for type t *)
Found(c, t, result) ==
  [c EXCEPT !.found = [x \in DOMAIN @ \cup {t} |-> IF x = t THEN result ELSE @[x]]]
Result(d) == IF IsNotFound(d) THEN NotFound ELSE d.revision

(* Type t will be waited for with d, which may be NULL.                    *)
AddWait(c, t, n, d) ==
  Proceed([c EXCEPT !.todo = Tail(@),
                    !.waits = Append(@, [type |-> t, number |-> n, data |-> d])])

(* GetOneInstance uses the service context before anything else.           *)
Call(u) ==
  /\ user[u].pc = "idle" /\ setup.asks[u] # <<>>
  /\ setup.calm => ~Expiring
  /\ Step(u, [user[u] EXCEPT !.pc = "get", !.todo = setup.asks[u], !.found = <<>>],
          IF Head(setup.asks[u]) = "Instances" THEN UseContext(reg, InCall \cup {u}) ELSE reg)
  /\ UNCHANGED <<setup, notifies, conn, files, persist, expire, breaker, server, bounds, fault>>

Lookup(t) ==
  IF t = "Instances" /\ reg.context # NULL /\ reg.context.instances # NULL
  THEN reg.context.instances ELSE reg.data[t]

(* GetServiceDataWithRef, and what its caller does: the router chain loads *)
(* "not found" again, the quota manager takes it.                          *)
GetServiceDataWithRef(u) ==
  /\ user[u].pc = "get"
  /\ LET c  == user[u]
         t  == Head(c.todo)
         d  == Lookup(t)
         ok == d # NULL /\ (d.available \/ (IsNotFound(d) /\ t = "RateLimit"))
     IN Step(u, IF ok THEN Proceed(Found([c EXCEPT !.todo = Tail(@)], t, Result(d)))
                      ELSE [c EXCEPT !.pc = "load", !.data = d],
             CASE t = "Instances"             -> UseContext(reg, InCall)
               [] t = "RateLimit" /\ d # NULL -> UseLimit(reg, InCall)
               [] OTHER                       -> reg)
  /\ UNCHANGED <<setup, notifies, conn, files, persist, expire, breaker, server, bounds, fault>>

(* LoadServiceDataWithNotify.  The first call of a type creates the notify *)
(* and, for instances, the Service that CreateServiceInLock asserts is not *)
(* there; it keeps the lock.                                               *)
LoadServiceDataWithNotify(u) ==
  /\ user[u].pc = "load" /\ reg.lock = NULL
  /\ LET c == user[u]
         t == Head(c.todo)
         n == Len(notifies[t]) + 1
     IN IF reg.notify[t] # NULL
        THEN /\ Step(u, AddWait(c, t, reg.notify[t], c.data), reg)
             /\ UNCHANGED <<notifies, fault>>
        ELSE /\ Step(u, [c EXCEPT !.pc = "file"],
                     [reg EXCEPT !.lock = u, !.notify[t] = n,
                                 !.service = IF t = "Instances" THEN n ELSE @])
             /\ notifies' = [notifies EXCEPT ![t] = Append(@, [live |-> TRUE, data |-> NULL])]
             /\ fault' = IF t = "Instances" /\ reg.service # NULL THEN "assertion" ELSE fault
  /\ UNCHANGED <<setup, conn, files, persist, expire, breaker, server, bounds>>

(* CachePersist::LoadServiceData, and GetServiceInLock of UpdateServiceData*)
(* for the data in the file.  The age of the file tells whether its data   *)
(* is available at once.                                                   *)
LoadServiceData(u) ==
  /\ user[u].pc = "file"
  /\ LET c == user[u]
         t == Head(c.todo)
     IN \E d \in IF files[t] = NULL THEN {NULL}
                 ELSE {Data(files[t], "Disk", available) : available \in BOOLEAN} :
          Step(u, [c EXCEPT !.pc = "register", !.file = d, !.service = reg.service], reg)
  /\ UNCHANGED <<setup, notifies, conn, files, persist, expire, breaker, server, bounds, fault>>

(* A faulty variant: the data of the file is not given to the notify.      *)
RegisterWithoutNotify(u) ==
  /\ user[u].pc = "register"
  /\ LET c == user[u]
         t == Head(c.todo)
         n == reg.notify[t]
         d == c.file
         revision == IF d # NULL /\ d.available THEN d.revision ELSE Empty
     IN /\ Step(u, AddWait(c, t, n, IF c.data = NULL THEN d ELSE c.data),
                [IF d = NULL THEN reg ELSE Store(reg, t, d, c.service, InCall)
                   EXCEPT !.lock = NULL])
        /\ conn' = [conn EXCEPT !.queue = Append(@, Task(t, n, revision))]
        /\ fault' = UpdateFault(t, d, c.service)
  /\ UNCHANGED <<setup, notifies, files, persist, expire, breaker, server, bounds>>

(* The rest of LoadServiceDataWithNotify: UpdateServiceData and Notify with*)
(* the data of the file, and RegisterEventHandler                          *)
RegisterEventHandler(u) ==
  /\ user[u].pc = "register"
  /\ LET c == user[u]
         t == Head(c.todo)
         n == reg.notify[t]
         d == c.file
         usable == d # NULL /\ d.available
     IN /\ Step(u, AddWait(c, t, n, IF c.data = NULL THEN d ELSE c.data),
                [IF d = NULL THEN reg ELSE Store(reg, t, d, c.service, InCall)
                   EXCEPT !.lock = NULL])
        /\ notifies' = IF usable THEN [notifies EXCEPT ![t][n].data = d] ELSE notifies
        /\ conn' = [conn EXCEPT !.queue =
                      Append(@, Task(t, n, IF usable THEN d.revision ELSE Empty))]
        /\ fault' = UpdateFault(t, d, c.service)
  /\ UNCHANGED <<setup, files, persist, expire, breaker, server, bounds>>

NotifyFault(w) == IF notifies[w.type][w.number].live THEN fault ELSE "deleted notify"

(* The first wait of a call ends with data d.                              *)
WaitEnds(c, d) ==
  Proceed(Found([c EXCEPT !.waits = Tail(@)], Head(c.waits).type, Result(d)))

(* WaitData skips a type whose data is available by now; otherwise         *)
(* WaitDataWithRefUtil looks into the notify before it blocks.             *)
WaitData(u) ==
  /\ user[u].pc = "wait"
  /\ LET c     == user[u]
         w     == Head(c.waits)
         ready == w.data # NULL /\ w.data.available
         skip  == ready /\ w.type # "RateLimit"
         told  == notifies[w.type][w.number].data
     IN /\ Step(u, IF ~skip /\ told # NULL THEN WaitEnds(c, told)
                   ELSE IF ready THEN WaitEnds(c, w.data)
                   ELSE [c EXCEPT !.pc = "blocked"], reg)
        /\ fault' = IF skip THEN fault ELSE NotifyFault(w)
  /\ UNCHANGED <<setup, notifies, conn, files, persist, expire, breaker, server, bounds>>

(* The router chain uses what it has when a wait timed out, if it has      *)
(* something for each type.                                                *)
TimedOut(c) ==
  LET waited == {c.waits[i].type : i \in DOMAIN c.waits}
      has(t) == CHOOSE w \in Range(c.waits) : w.type = t
      enough == "RateLimit" \notin waited /\ \A t \in waited : has(t).data # NULL
  IN Proceed([c EXCEPT !.waits = <<>>,
        !.found = [x \in DOMAIN @ \cup waited |->
                     IF x \notin waited THEN @[x]
                     ELSE IF enough THEN Result(has(x).data) ELSE Timeout]])

(* The wait is over, by Notify or by its timeout.                          *)
WakeUp(u) ==
  /\ user[u].pc = "blocked"
  /\ LET c    == user[u]
         w    == Head(c.waits)
         told == notifies[w.type][w.number].data
     IN /\ Step(u, IF told # NULL THEN WaitEnds(c, told)
                   ELSE IF w.data # NULL /\ w.data.status = "Disk" THEN WaitEnds(c, w.data)
                   ELSE TimedOut(c), reg)
        /\ fault' = NotifyFault(w)
  /\ UNCHANGED <<setup, notifies, conn, files, persist, expire, breaker, server, bounds>>

(* UpdateCircuitBreakerData finds the Service and writes to it after the   *)
(* lock is released.                                                       *)
UpdateCircuitBreakerData ==
  /\ breaker = NULL /\ reg.service # NULL
  /\ setup.calm => ~Expiring
  /\ breaker' = reg.service
  /\ UNCHANGED <<setup, reg, notifies, conn, files, persist, expire, user, server, bounds, fault>>

SetCircuitBreakerData ==
  /\ breaker # NULL
  /\ breaker' = NULL
  /\ fault' = IF breaker = reg.service THEN fault ELSE "deleted service"
  /\ UNCHANGED <<setup, reg, notifies, conn, files, persist, expire, user, server, bounds>>

-----------------------------------------------------------------------------
(* Event handlers, on the reactor of the server connector *)

(* ProcessQueuedListener asserts that a type is registered once.           *)
Register ==
  /\ conn.handler = NULL /\ conn.queue # <<>>
  /\ LET task == Head(conn.queue)
     IN /\ task.number # NULL
        /\ conn' = [conn EXCEPT !.queue = Tail(@), !.listeners[task.type] =
                      [number |-> task.number, revision |-> task.revision, missing |-> FALSE]]
        /\ fault' = IF conn.listeners[task.type] = NULL THEN fault ELSE "assertion"
  /\ UNCHANGED <<setup, reg, notifies, files, persist, expire, user, breaker, server, bounds>>

(* OnEventUpdate up to GetServiceInLock: data is what the handler got.     *)
Handler(t, d) == [type |-> t, data |-> d, service |-> reg.service]

Deregister ==
  /\ conn.handler = NULL /\ conn.queue # <<>>
  /\ LET task == Head(conn.queue)
     IN /\ task.number = NULL
        /\ conn' = [conn EXCEPT !.queue = Tail(@), !.handler = Handler(task.type, NULL)]
        /\ fault' = IF conn.listeners[task.type] # NULL THEN fault ELSE "assertion"
  /\ UNCHANGED <<setup, reg, notifies, files, persist, expire, user, breaker, server, bounds>>

(* An answer that UpdateRevision takes as new                              *)
ProcessDiscoverResponse(t) ==
  /\ conn.handler = NULL /\ conn.listeners[t] # NULL
  /\ setup.up /\ (setup.calm => ~Expiring)
  /\ IF server[t] = NotFound THEN ~conn.listeners[t].missing
                             ELSE server[t] # conn.listeners[t].revision
  /\ conn' = [conn EXCEPT
       !.listeners[t].missing = server[t] = NotFound,
       !.listeners[t].revision = IF server[t] = NotFound THEN Empty ELSE server[t],
       !.handler = Handler(t, Synced(server[t]))]
  /\ UNCHANGED <<setup, reg, notifies, files, persist, expire, user, breaker, server, bounds, fault>>

(* The rest of UpdateServiceData and OnEventUpdate: Notify, or after a     *)
(* deregistration the end of notify, handler and listener                  *)
OnEventUpdate ==
  /\ conn.handler # NULL
  /\ LET t == conn.handler.type
         d == conn.handler.data
         n == conn.listeners[t].number
     IN /\ reg' = Store(reg, t, d, conn.handler.service, InCall)
        /\ notifies' = [notifies EXCEPT ![t][n] = [live |-> d # NULL, data |-> d]]
        /\ persist' = persist \o PersistServiceData(t, d)
        /\ conn' = [conn EXCEPT !.handler = NULL,
                                !.listeners[t] = IF d = NULL THEN NULL ELSE @]
        /\ fault' = UpdateFault(t, d, conn.handler.service)
  /\ UNCHANGED <<setup, files, expire, user, breaker, server, bounds>>

-----------------------------------------------------------------------------
(* The cache manager's thread *)

(* No task is as old as expired data: those of the types in T have run.    *)
Settled(T) ==
  /\ \A i \in DOMAIN conn.queue : conn.queue[i].type \notin T
  /\ \A i \in DOMAIN persist : persist[i].type \notin T
  /\ conn.handler # NULL /\ conn.handler.type \in T => conn.handler.data # NULL

(* service_context_map.CheckExpired, and CheckExpired of rate limit data;  *)
(* upgradeWaitTime is over long before data expires.                       *)
ServiceExpired ==
  reg.context # NULL /\ reg.recent.context = {} /\ Settled({"Instances", "RouteRule"})
LimitExpired ==
  LET d == reg.data["RateLimit"]
  IN /\ d # NULL /\ reg.recent.limit = {} /\ Settled({"RateLimit"})
     /\ d.status = "Disk" => d.available

(* TimingLocalRegistryTask with CheckExpireService; without an expired     *)
(* service it goes on with the rate limit data.                            *)
RemoveExpireServiceData ==
  /\ expire = "idle" /\ bounds.expiries > 0
  /\ setup.calm => ~Expiring /\ InCall = {} /\ conn.handler = NULL /\ breaker = NULL
  /\ \/ ServiceExpired /\ expire' = "Instances"
     \/ LimitExpired /\ expire' = "limit"
  /\ bounds' = [bounds EXCEPT !.expiries = @ - 1]
  /\ UNCHANGED <<setup, reg, notifies, conn, files, persist, user, breaker, server, fault>>

(* Faulty variants: the notify stays in the map, and the handler stays     *)
(* registered.                                                             *)
ExpireKeepingNotify(t, next, lock) ==
  /\ expire = t /\ reg.lock \in {NULL, "expire"}
  /\ conn' = IF reg.notify[t] = NULL THEN conn
             ELSE [conn EXCEPT !.queue = Append(@, Task(t, NULL, Empty))]
  /\ reg' = [reg EXCEPT !.data[t] = NULL, !.lock = lock]
  /\ persist' = Append(persist, PersistTask(t, NULL))
  /\ expire' = next
  /\ UNCHANGED <<setup, notifies, files, user, breaker, server, bounds, fault>>
ExpireKeepingHandler(t, next, lock) ==
  /\ expire = t /\ reg.lock \in {NULL, "expire"}
  /\ reg' = [reg EXCEPT !.notify[t] = NULL, !.data[t] = NULL, !.lock = lock]
  /\ persist' = Append(persist, PersistTask(t, NULL))
  /\ expire' = next
  /\ UNCHANGED <<setup, notifies, conn, files, user, breaker, server, bounds, fault>>

(* Data of type t is removed in notify_rwlock_: the notify from its map,   *)
(* the handler by a task, the data and the file.                           *)
ExpireData(t, next, lock) ==
  /\ expire = t /\ reg.lock \in {NULL, "expire"}
  /\ conn' = IF reg.notify[t] = NULL THEN conn
             ELSE [conn EXCEPT !.queue = Append(@, Task(t, NULL, Empty))]
  /\ reg' = [reg EXCEPT !.notify[t] = NULL, !.data[t] = NULL, !.lock = lock]
  /\ persist' = Append(persist, PersistTask(t, NULL))
  /\ expire' = next
  /\ UNCHANGED <<setup, notifies, files, user, breaker, server, bounds, fault>>

ExpireInstances == ExpireData("Instances", "RouteRule", "expire")
ExpireRouteRule == ExpireData("RouteRule", "service", NULL)
ExpireRateLimit == ExpireData("RateLimit", "idle", NULL)

DeleteServiceInLock ==
  /\ expire = "service"
  /\ reg' = [reg EXCEPT !.service = NULL]
  /\ expire' = "context"
  /\ UNCHANGED <<setup, notifies, conn, files, persist, user, breaker, server, bounds, fault>>

DeleteContext ==
  /\ expire = "context"
  /\ reg' = [reg EXCEPT !.context = NULL, !.recent.context = {}]
  /\ expire' = "limit"
  /\ UNCHANGED <<setup, notifies, conn, files, persist, user, breaker, server, bounds, fault>>

(* CheckExpireServiceData; rate limit data may be younger.                 *)
CheckExpireServiceData ==
  /\ expire = "limit"
  /\ \/ LimitExpired /\ expire' = "RateLimit"
     \/ expire' = "idle"
  /\ UNCHANGED <<setup, reg, notifies, conn, files, persist, user, breaker, server, bounds, fault>>

(* PersistTask::Run; one that fails is deleted all the same.               *)
RunPersistTask ==
  /\ expire = "idle" /\ persist # <<>>
  /\ persist' = Tail(persist)
  /\ \/ /\ files' = [files EXCEPT ![Head(persist).type] = Head(persist).revision]
        /\ UNCHANGED bounds
     \/ /\ bounds.failures > 0
        /\ bounds' = [bounds EXCEPT !.failures = @ - 1]
        /\ UNCHANGED files
  /\ UNCHANGED <<setup, reg, notifies, conn, expire, user, breaker, server, fault>>

-----------------------------------------------------------------------------
(* Environment *)

(* Data of a file is available once upgradeWaitTime has passed.            *)
Upgraded(d) == IF d = NULL \/ d.status # "Disk" THEN d ELSE [d EXCEPT !.available = TRUE]
UpgradedWait(w, t) == IF w.type = t THEN [w EXCEPT !.data = Upgraded(@)] ELSE w

(* upgradeWaitTime has passed since data of type t was loaded.             *)
Upgrade(t) ==
  /\ \/ reg.data[t] # Upgraded(reg.data[t])
     \/ \E u \in Users : \E i \in DOMAIN user[u].waits :
          user[u].waits[i].type = t /\ user[u].waits[i].data # Upgraded(user[u].waits[i].data)
  /\ reg' = [reg EXCEPT !.data[t] = Upgraded(@),
                        !.context = IF t = "Instances" /\ @ # NULL
                                    THEN [instances |-> Upgraded(@.instances)] ELSE @]
  /\ user' = [u \in Users |-> [user[u] EXCEPT
       !.data = IF user[u].todo # <<>> /\ Head(user[u].todo) = t THEN Upgraded(@) ELSE @,
       !.waits = [i \in DOMAIN @ |-> UpgradedWait(@[i], t)]]]
  /\ UNCHANGED <<setup, notifies, conn, files, persist, expire, breaker, server, bounds, fault>>

(* The process ends and is started again: only the files are left.         *)
Crash ==
  /\ bounds.crashes > 0
  /\ bounds' = [bounds EXCEPT !.crashes = @ - 1]
  /\ reg' = Registry /\ conn' = Connector
  /\ notifies' = [t \in DataTypes |-> <<>>]
  /\ user' = [u \in Users |-> User]
  /\ persist' = <<>> /\ expire' = "idle" /\ breaker' = NULL
  /\ UNCHANGED <<setup, files, server, fault>>

(* The servers' data changes.                                              *)
Change(t) ==
  /\ bounds.moves > 0 /\ t \in setup.types
  /\ \E r \in (Revisions \cup {NotFound}) \ {server[t]} : server' = [server EXCEPT ![t] = r]
  /\ bounds' = [bounds EXCEPT !.moves = @ - 1]
  /\ UNCHANGED <<setup, reg, notifies, conn, files, persist, expire, user, breaker, fault>>

-----------------------------------------------------------------------------
Init ==
  /\ setup \in Setups
  /\ server \in [DataTypes -> Revisions \cup {NotFound}]
  /\ files \in [DataTypes -> Revisions \cup {NULL}]
  /\ \A t \in DataTypes :
       IF t \in setup.types THEN server[t] \in setup.start /\ files[t] \in setup.disk
                            ELSE server[t] = NotFound /\ files[t] = NULL
  /\ reg = Registry /\ conn = Connector
  /\ notifies = [t \in DataTypes |-> <<>>]
  /\ user = [u \in Users |-> User]
  /\ persist = <<>> /\ expire = "idle" /\ breaker = NULL
  /\ bounds = setup.bounds
  /\ fault = "none"

UserStep(u) ==
  \/ Call(u) \/ GetServiceDataWithRef(u) \/ LoadServiceDataWithNotify(u)
  \/ LoadServiceData(u) \/ RegisterEventHandler(u) \/ WaitData(u) \/ WakeUp(u)

ReactorStep ==
  \/ Register \/ Deregister \/ OnEventUpdate
  \/ \E t \in DataTypes : ProcessDiscoverResponse(t)

CacheStep ==
  \/ ExpireInstances \/ ExpireRouteRule \/ DeleteServiceInLock \/ DeleteContext
  \/ CheckExpireServiceData \/ ExpireRateLimit \/ RunPersistTask

Next ==
  /\ fault = "none"
  /\ \/ \E u \in Users : UserStep(u)
     \/ ReactorStep \/ CacheStep
     \/ UpdateCircuitBreakerData \/ SetCircuitBreakerData
     \/ RemoveExpireServiceData \/ Crash
     \/ \E t \in DataTypes : Upgrade(t) \/ Change(t)

Spec == Init /\ [][Next]_vars

(* Users keep asking, and the two reactors run their tasks.  Expiry, time, *)
(* crashes and changes of data are not forced.                             *)
Fairness ==
  /\ \A u \in Users : WF_vars(UserStep(u))
  /\ WF_vars(ReactorStep) /\ WF_vars(CacheStep) /\ WF_vars(SetCircuitBreakerData)

FairSpec == Spec /\ Fairness

-----------------------------------------------------------------------------
(* Type of the registry's state                                            *)
TypeOK ==
  /\ setup \in Setups
  /\ server \in [DataTypes -> Revisions \cup {NotFound}]
  /\ files \in [DataTypes -> Revisions \cup {NULL}]
  /\ reg.notify \in [DataTypes -> Nat \cup {NULL}]
  /\ reg.service \in Nat \cup {NULL}
  /\ reg.data \in [DataTypes -> MaybeData]
  /\ reg.context \in [instances : MaybeData] \cup {NULL}
  /\ reg.recent \in [context : SUBSET Users, limit : SUBSET Users]
  /\ reg.lock \in Users \cup {NULL, "expire"}
  /\ \A t \in DataTypes : notifies[t] \in Seq([live : BOOLEAN, data : MaybeData])
  /\ conn.queue \in Seq([type : DataTypes, number : Nat \cup {NULL},
                         revision : Revisions \cup {Empty}])
  /\ conn.listeners \in [DataTypes ->
       [number : Nat, revision : Revisions \cup {Empty}, missing : BOOLEAN] \cup {NULL}]
  /\ conn.handler \in
       [type : DataTypes, data : MaybeData, service : Nat \cup {NULL}] \cup {NULL}
  /\ persist \in Seq([type : DataTypes, revision : Revisions \cup {NULL}])
  /\ expire \in {"idle", "Instances", "RouteRule", "service", "context", "limit", "RateLimit"}
  /\ \A u \in Users :
       /\ user[u].pc \in {"idle", "get", "load", "file", "register", "wait", "blocked"}
       /\ user[u].todo \in Seq(DataTypes)
       /\ user[u].waits \in Seq([type : DataTypes, number : Nat, data : MaybeData])
       /\ {user[u].data, user[u].file} \subseteq MaybeData
       /\ \A t \in DOMAIN user[u].found :
            user[u].found[t] \in Revisions \cup {NotFound, Timeout}
  /\ bounds \in [moves : Nat, expiries : Nat, crashes : Nat, failures : Nat]

(* No thread uses a ServiceDataNotify, Service or ServiceData that another *)
(* one has deleted, and the assertions of CreateServiceInLock and          *)
(* ProcessQueuedListener hold: notify objects are handed to calls without  *)
(* a reference, and Service pointers are used outside rwlock_.             *)
HandlersSafe == fault = "none"

(* The handler that will be registered for t once the queue is empty       *)
TasksOf(t) == {i \in DOMAIN conn.queue : conn.queue[i].type = t}
LastTask(t) == CHOOSE i \in TasksOf(t) : \A j \in TasksOf(t) : j <= i
HandlerOf(t) ==
  LET leaving == conn.handler # NULL /\ conn.handler.type = t /\ conn.handler.data = NULL
  IN IF TasksOf(t) # {} THEN conn.queue[LastTask(t)].number
     ELSE IF conn.listeners[t] = NULL \/ leaving THEN NULL ELSE conn.listeners[t].number

(* service_data_notify_map_ and the server connector agree at every point, *)
(* whatever is still queued: the map has a notify exactly when the handler *)
(* that owns it is or will be registered, so that a call never waits on a  *)
(* notify nobody notifies, and no handler outlives its entry.              *)
NotifyHasHandler ==
  \A t \in DataTypes :
    \/ reg.notify[t] = HandlerOf(t)
    \/ \E u \in Users : reg.lock = u /\ Head(user[u].todo) = t

(* Data in the cache has a handler that keeps it up to date or a           *)
(* deregistration that will remove it; nothing is left that callers would  *)
(* take for current although no server updates it any more.                *)
NoOrphanData ==
  \A t \in DataTypes :
    (reg.data[t] # NULL \/ (t = "Instances" /\ reg.context # NULL /\ reg.context.instances # NULL))
      => \/ conn.listeners[t] # NULL \/ TasksOf(t) # {}
         \/ expire # "idle"
         \/ \E u \in Users : reg.lock = u /\ Head(user[u].todo) = t

(* What calls get in the end: the data of the servers, or while none can   *)
(* be reached the data of the file                                         *)
Answer(t) ==
  IF setup.up THEN server[t] ELSE IF files[t] # NULL THEN files[t] ELSE Timeout

(* What is cached, waited for and registered with the servers agrees: the  *)
(* notify of a call is one a registered handler will notify, and cached    *)
(* data is kept up to date by one.                                         *)
HandlersMatch == NotifyHasHandler /\ NoOrphanData

(* Whatever expired, changed, crashed or failed to be written before,      *)
(* threads that keep asking end up with the data the servers have, and     *)
(* with the data of the files when no server answers.                      *)
Served(u) ==
  user[u].pc = "idle" => \A t \in Range(setup.asks[u]) :
                           t \in DOMAIN user[u].found /\ user[u].found[t] = Answer(t)
AskersAreServed ==
  \A u \in Users : []<>(user[u].pc = "idle") /\ <>[]Served(u)
=============================================================================
