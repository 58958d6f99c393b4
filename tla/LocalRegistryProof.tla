------------------------- MODULE LocalRegistryProof -------------------------
(***************************************************************************)
(* Proofs about LocalRegistry, for any number of API threads, revisions    *)
(* and any order of calls, answers, expiries, failed writes and restarts:  *)
(* no thread uses an object another one deleted, and the notify map, the   *)
(* cached data and the handlers of the server connector agree.             *)
(*                                                                         *)
(* The argument is about the life of a handler: created under the lock by  *)
(* the first call of a type (Holder), queued, registered as listener, and  *)
(* given up by a deregistration (Dereg) that is queued or runs.  A second  *)
(* handler of the type may be created as soon as the first is given up, so *)
(* the queue may hold a deregistration followed by a registration, never   *)
(* the other way round.  That a deregistration finds nobody using what it  *)
(* deletes rests on the times of use (CallInv) for rate limit data, and    *)
(* for the other types on nothing else happening to the service meanwhile  *)
(* (CalmInv), which is what AllSheltered asks of the setups.               *)
(***************************************************************************)
EXTENDS LocalRegistry, SequenceTheorems, TLAPS

(* While a service expires no call, answer or circuit breaker uses it, or  *)
(* only rate limit rules are asked for.                                    *)
AllSheltered ==
  \A x \in Setups : x.calm \/ \A u \in Users : x.asks[u] \in Seq({"RateLimit"})

-----------------------------------------------------------------------------
(* Types.  Only "not found" comes without revision, and what servers send  *)
(* is available at once.                                                   *)
DataType ==
  {d \in DataSet : (d.status # NotFound => d.revision \in Revisions)
                   /\ (d.status = "Syncing" => d.available)}
OptData == DataType \cup {NULL}
OptNat == Nat \cup {NULL}
RegistryType ==
  [notify : [DataTypes -> OptNat], service : OptNat, data : [DataTypes -> OptData],
   context : [instances : OptData] \cup {NULL},
   recent : [context : SUBSET Users, limit : SUBSET Users], lock : Users \cup {NULL, "expire"}]
NotifyType == [live : BOOLEAN, data : OptData]
TaskType == [type : DataTypes, number : OptNat, revision : Revisions \cup {Empty}]
ListenerType == [number : Nat, revision : Revisions \cup {Empty}, missing : BOOLEAN]
HandlerType == [type : DataTypes, data : OptData, service : OptNat]
ConnectorType ==
  [queue : Seq(TaskType), listeners : [DataTypes -> ListenerType \cup {NULL}],
   handler : HandlerType \cup {NULL}]
WaitType == [type : DataTypes, number : Nat, data : OptData]
FoundType == UNION {[T -> Revisions \cup {NotFound, Timeout}] : T \in SUBSET DataTypes}
UserType ==
  [pc : {"idle", "get", "load", "file", "register", "wait", "blocked"},
   todo : Seq(DataTypes), waits : Seq(WaitType), data : OptData, file : OptData,
   service : OptNat, found : FoundType]
PersistType == [type : DataTypes, revision : Revisions \cup {NULL}]
BoundsType == [moves : Nat, expiries : Nat, crashes : Nat, failures : Nat]

TypeInv ==
  /\ setup \in Setups
  /\ server \in [DataTypes -> Revisions \cup {NotFound}]
  /\ files \in [DataTypes -> Revisions \cup {NULL}]
  /\ reg \in RegistryType
  /\ notifies \in [DataTypes -> Seq(NotifyType)]
  /\ conn \in ConnectorType
  /\ persist \in Seq(PersistType)
  /\ expire \in {"idle", "Instances", "RouteRule", "service", "context", "limit", "RateLimit"}
  /\ user \in [Users -> UserType]
  /\ breaker \in OptNat
  /\ bounds \in BoundsType

-----------------------------------------------------------------------------
(* A call has created the handler of t and not registered it yet. *)
Holder(t) == \E u \in Users : reg.lock = u /\ Head(user[u].todo) = t

(* A call c will use the notify of t, or may create it. *)
Loads(c, t) == c.pc \in {"load", "file", "register"} /\ Head(c.todo) = t
Waits(c, t) == \E i \in 1 .. Len(c.waits) : c.waits[i].type = t
Uses(c, t) == Loads(c, t) \/ Waits(c, t)

(* The handler of t is being deregistered, or will be. *)
Leaving(t) == conn.handler # NULL /\ conn.handler.type = t /\ conn.handler.data = NULL
RegAt(i, t) == conn.queue[i].type = t /\ conn.queue[i].number # NULL
DeregAt(i, t) == conn.queue[i].type = t /\ conn.queue[i].number = NULL
Queued == 1 .. Len(conn.queue)
Dereg(t) == Leaving(t) \/ \E i \in Queued : DeregAt(i, t)
NoTask(t) == ~Leaving(t) /\ \A i \in Queued : conn.queue[i].type # t

(* The tasks of a type: a deregistration, a registration, or both in this  *)
(* order.                                                                  *)
OrderInv ==
  /\ \A i, j \in Queued :
       i < j /\ conn.queue[i].type = conn.queue[j].type =>
         conn.queue[i].number = NULL /\ conn.queue[j].number # NULL
  /\ \A t \in DataTypes : Leaving(t) => \A i \in Queued : ~DeregAt(i, t)
  /\ conn.handler # NULL => conn.listeners[conn.handler.type] # NULL

(* The stages of the handler of t. *)
HandlerInv(t) ==
  /\ \A i \in Queued :
       RegAt(i, t) => /\ conn.queue[i].number = reg.notify[t] /\ ~Holder(t)
                      /\ conn.listeners[t] = NULL \/ Dereg(t)
  /\ Dereg(t) => conn.listeners[t] # NULL /\ conn.listeners[t].number # reg.notify[t]
  /\ Holder(t) => conn.listeners[t] = NULL \/ Dereg(t)
  /\ reg.notify[t] # NULL =>
       \/ Holder(t) \/ \E i \in Queued : RegAt(i, t)
       \/ conn.listeners[t] # NULL /\ ~Dereg(t)
  /\ conn.listeners[t] # NULL /\ ~Dereg(t) => reg.notify[t] = conn.listeners[t].number
HandlersInv == \A t \in DataTypes : HandlerInv(t)

(* The notify in the map is the newest one, and lives. *)
NumberInv ==
  \A t \in DataTypes :
    /\ reg.notify[t] # NULL =>
         /\ reg.notify[t] = Len(notifies[t]) /\ reg.notify[t] \in 1 .. Len(notifies[t])
         /\ notifies[t][reg.notify[t]].live
    /\ conn.listeners[t] # NULL => conn.listeners[t].number \in 1 .. Len(notifies[t])

(* The call c of thread u, with g as the registry: it holds the lock from  *)
(* the creation of a notify to its registration, waits on the notify that  *)
(* is in the map, and was under way when rate limit data it may use was    *)
(* used last.                                                              *)
CallInv(u, c, g) ==
  /\ c.pc \in {"file", "register"} <=> g.lock = u
  /\ g.lock = u => g.notify[Head(c.todo)] # NULL
  /\ c.pc \in {"get", "load", "file", "register"} => c.todo # <<>>
  /\ c.pc \in {"wait", "blocked"} => c.waits # <<>>
  /\ c.pc = "idle" => c.waits = <<>>
  /\ \A i \in 1 .. Len(c.waits) :
       g.notify[c.waits[i].type] # NULL /\ c.waits[i].number = g.notify[c.waits[i].type]
  /\ c.pc = "register" /\ Head(c.todo) = "Instances" => c.service = g.service
  /\ g.data["RateLimit"] # NULL /\ Uses(c, "RateLimit") => u \in g.recent.limit
  /\ expire = "RateLimit" => ~Uses(c, "RateLimit")
  /\ ~setup.calm => c.todo \in Seq({"RateLimit"})
CallsInv == \A u \in Users : CallInv(u, user[u], reg)

(* While a service expires nobody else is concerned with it.               *)
CalmInv ==
  setup.calm /\ Expiring =>
    InCall = {} /\ breaker = NULL /\ (conn.handler # NULL => conn.handler.data = NULL)

(* Otherwise nothing but rate limit rules is there. *)
QuietInv ==
  ~setup.calm =>
    /\ \A t \in DataTypes \ {"RateLimit"} :
         /\ reg.notify[t] = NULL /\ reg.data[t] = NULL /\ conn.listeners[t] = NULL /\ NoTask(t)
         /\ conn.handler # NULL => conn.handler.type # t
    /\ reg.service = NULL /\ breaker = NULL
    /\ reg.context # NULL => reg.context.instances = NULL

(* What the expiry found still holds when it comes to remove the data.     *)
Usable(d) == d # NULL /\ (d.available \/ IsNotFound(d))
ExpireInv ==
  /\ expire = "RateLimit" =>
       /\ Usable(reg.data["RateLimit"]) /\ NoTask("RateLimit")
  /\ expire = "Instances" => NoTask("Instances")
  /\ expire \in {"Instances", "RouteRule"} => NoTask("RouteRule")
  /\ reg.lock = "expire" <=> expire = "RouteRule"
  /\ expire \in {"RouteRule", "service"} => reg.notify["Instances"] = NULL

(* The Service goes with the notify of the instances. *)
ServiceInv ==
  /\ reg.notify["Instances"] # NULL => reg.service = reg.notify["Instances"]
  /\ reg.service # NULL =>
       reg.notify["Instances"] # NULL \/ (setup.calm /\ expire \in {"RouteRule", "service"})
  /\ conn.handler # NULL /\ conn.handler.type = "Instances" /\ conn.handler.data # NULL =>
       conn.handler.service = reg.service /\ reg.service # NULL
  /\ breaker # NULL => breaker = reg.service

(* Data has a notify or will be removed.                                   *)
DataInv ==
  /\ \A t \in DataTypes : reg.data[t] # NULL => reg.notify[t] # NULL \/ Dereg(t)
  /\ Dereg("Instances") => reg.data["Instances"] = NULL
  /\ reg.context # NULL /\ reg.context.instances # NULL =>
       reg.notify["Instances"] # NULL \/ expire \in {"RouteRule", "service", "context"}
  /\ conn.handler # NULL /\ conn.handler.data # NULL => Usable(conn.handler.data)

RegistryInv ==
  /\ TypeInv /\ CallsInv /\ OrderInv /\ HandlersInv /\ NumberInv /\ CalmInv /\ QuietInv
  /\ ExpireInv /\ ServiceInv /\ DataInv /\ fault = "none"

-----------------------------------------------------------------------------
(* NULL is none of the objects of the types. *)
LEMMA NullIsNoObject ==
  /\ NULL \notin Nat /\ NULL \notin DataType /\ NULL \notin [instances : OptData]
  /\ NULL \notin HandlerType /\ NULL \notin ListenerType /\ NULL \notin Users
  /\ "expire" \notin Users /\ NULL # "expire" /\ OptData \subseteq MaybeData
<1>1. OptData \subseteq MaybeData
  BY DEF OptData, DataType, MaybeData
<1>2. NULL \notin HandlerType /\ NULL \notin [instances : OptData]
  BY <1>1, NullAssumption DEF HandlerType, OptNat
<1> QED
  BY <1>1, <1>2, NullAssumption, ConstantsAssumption DEF DataType, ListenerType

(* What Append and Tail do with a sequence. *)
LEMMA AppendIs ==
  ASSUME NEW S, NEW q \in Seq(S), NEW x \in S
  PROVE  LET a == Append(q, x)
         IN /\ a \in Seq(S) /\ Len(q) \in Nat /\ Len(a) = Len(q) + 1 /\ a[Len(q) + 1] = x
            /\ a[Len(a)] = x /\ a # <<>> /\ \A i \in 1 .. Len(q) : a[i] = q[i]
BY AppendProperties

LEMMA TailIs ==
  ASSUME NEW S, NEW q \in Seq(S), q # <<>>
  PROVE  LET a == Tail(q)
         IN /\ a \in Seq(S) /\ Len(q) \in Nat \ {0} /\ Len(a) = Len(q) - 1 /\ Head(q) = q[1]
            /\ Head(q) \in S
            /\ \A i \in 1 .. Len(a) : i + 1 \in 1 .. Len(q) /\ a[i] = q[i + 1]
            /\ \A j \in 1 .. Len(q) : j = 1 \/ (j - 1 \in 1 .. Len(a) /\ a[j - 1] = q[j])
OBVIOUS

LEMMA SyncedData ==
  ASSUME NEW r \in Revisions \cup {NotFound}
  PROVE  Synced(r) \in DataType /\ Usable(Synced(r))
<1>1. Synced(r) \in DataType
  BY ConstantsAssumption DEF Synced, DataType, DataSet, Data, NotFound, Empty
<1>2. Synced(r) # NULL
  BY <1>1, NullIsNoObject
<1> QED
  BY <1>1, <1>2 DEF Usable, Synced, Data, IsNotFound

(* The data of a file. *)
LEMMA FileData ==
  ASSUME NEW r \in Revisions, NEW available \in BOOLEAN
  PROVE  Data(r, "Disk", available) \in DataType
BY DEF Data, DataType, DataSet, NotFound

LEMMA ResultType ==
  ASSUME NEW d \in DataType PROVE Result(d) \in Revisions \cup {NotFound, Timeout}
BY DEF Result, IsNotFound, DataType

(* What UseContext and UseLimit leave alone. *)
LEMMA UseContextEffect ==
  ASSUME NEW g \in RegistryType, NEW calls \in SUBSET Users
  PROVE  LET h == UseContext(g, calls)
         IN /\ h \in RegistryType
            /\ h.notify = g.notify /\ h.service = g.service /\ h.data = g.data /\ h.lock = g.lock
            /\ h.recent.limit = g.recent.limit
            /\ h.context # NULL
            /\ h.context.instances = IF g.context = NULL THEN NULL ELSE g.context.instances
<1> DEFINE x == IF g.context = NULL THEN [instances |-> NULL] ELSE g.context
           rc == [g.recent EXCEPT !.context = calls]
           h == [g EXCEPT !.context = x, !.recent = rc]
<1>1. UseContext(g, calls) = h
  BY DEF UseContext, RegistryType
<1>2. /\ x \in [instances : OptData] /\ x # NULL
      /\ x.instances = IF g.context = NULL THEN NULL ELSE g.context.instances
  BY NullIsNoObject DEF RegistryType, OptData
<1>3. rc \in [context : SUBSET Users, limit : SUBSET Users] /\ rc.limit = g.recent.limit
  BY DEF RegistryType
<1> HIDE DEF x, rc
<1>4. /\ h \in RegistryType
      /\ h.notify = g.notify /\ h.service = g.service /\ h.data = g.data /\ h.lock = g.lock
      /\ h.recent = rc /\ h.context = x
  BY <1>2, <1>3 DEF RegistryType
<1> QED
  BY <1>1, <1>2, <1>3, <1>4

LEMMA UseLimitEffect ==
  ASSUME NEW g \in RegistryType, NEW calls \in SUBSET Users
  PROVE  LET h == UseLimit(g, calls)
         IN /\ h \in RegistryType
            /\ h.notify = g.notify /\ h.service = g.service /\ h.data = g.data /\ h.lock = g.lock
            /\ h.recent.limit = calls /\ h.context = g.context
<1> DEFINE rc == [g.recent EXCEPT !.limit = calls]
           h == [g EXCEPT !.recent = rc]
<1>1. UseLimit(g, calls) = h
  BY DEF UseLimit, RegistryType
<1>2. rc \in [context : SUBSET Users, limit : SUBSET Users] /\ rc.limit = calls
  BY DEF RegistryType
<1> HIDE DEF rc
<1> QED
  BY <1>1, <1>2 DEF RegistryType

(* What UpdateServiceData changes. *)
LEMMA StoreEffect ==
  ASSUME NEW g \in RegistryType, NEW t \in DataTypes, NEW d \in OptData, NEW service \in OptNat,
         NEW calls \in SUBSET Users
  PROVE  LET h == Store(g, t, d, service, calls)
         IN /\ h \in RegistryType
            /\ h.notify = g.notify /\ h.service = g.service /\ h.lock = g.lock
            /\ h.data = IF Dropped(t, service) THEN g.data ELSE [g.data EXCEPT ![t] = d]
            /\ h.context # NULL
            /\ h.context.instances = IF t = "Instances" /\ service # NULL THEN d
                                     ELSE IF g.context = NULL THEN NULL ELSE g.context.instances
            /\ h.recent.limit = IF t = "RateLimit" /\ d # NULL /\ g.data[t] = NULL
                                THEN calls ELSE g.recent.limit
<1> DEFINE used == UseContext(g, calls)
           data == [g.data EXCEPT ![t] = d]
           stored == [used EXCEPT !.data = data]
           shared == [stored EXCEPT !.context = [instances |-> d]]
<1>1. /\ used \in RegistryType
      /\ used.notify = g.notify /\ used.service = g.service /\ used.data = g.data
      /\ used.lock = g.lock /\ used.recent.limit = g.recent.limit /\ used.context # NULL
      /\ used.context.instances = IF g.context = NULL THEN NULL ELSE g.context.instances
  BY UseContextEffect
<1> HIDE DEF used
<1>2. data \in [DataTypes -> OptData]
  BY DEF RegistryType
<1>3. stored = [used EXCEPT !.data[t] = d]
  BY <1>1 DEF RegistryType
<1> HIDE DEF data
<1>4. /\ stored \in RegistryType
      /\ stored.notify = g.notify /\ stored.service = g.service /\ stored.data = data
      /\ stored.lock = g.lock /\ stored.recent.limit = g.recent.limit
      /\ stored.context = used.context
  BY <1>1, <1>2 DEF RegistryType
<1> HIDE DEF stored
<1>5. used.context \in [instances : OptData]
  BY <1>1 DEF RegistryType
<1>6. [stored EXCEPT !.context.instances = d] = shared
  BY <1>4, <1>5 DEF RegistryType
<1>7. /\ shared \in RegistryType
      /\ shared.notify = g.notify /\ shared.service = g.service /\ shared.data = data
      /\ shared.lock = g.lock /\ shared.recent.limit = g.recent.limit
      /\ shared.context = [instances |-> d] /\ shared.context # NULL
  BY <1>4, NullIsNoObject DEF RegistryType
<1> HIDE DEF shared
<1>8. CASE Dropped(t, service)
  <2>1. Store(g, t, d, service, calls) = used
    BY <1>8 DEF Store, used
  <2> QED
    BY <1>8, <1>1, <2>1 DEF Dropped
<1>9. CASE ~Dropped(t, service) /\ t = "Instances"
  <2>1. Store(g, t, d, service, calls) = shared
    BY <1>9, <1>3, <1>6 DEF Store, used
  <2> QED
    BY <1>9, <1>7, <2>1 DEF Dropped, data
<1>10. CASE t # "Instances" /\ t = "RateLimit" /\ d # NULL /\ g.data[t] = NULL
  <2>1. Store(g, t, d, service, calls) = UseLimit(stored, calls)
    BY <1>10, <1>3 DEF Store, used, Dropped
  <2> QED
    BY <1>10, <1>1, <1>4, <2>1, UseLimitEffect DEF Dropped, data
<1>11. CASE t # "Instances" /\ ~(t = "RateLimit" /\ d # NULL /\ g.data[t] = NULL)
  <2>1. Store(g, t, d, service, calls) = stored
    BY <1>11, <1>3 DEF Store, used, Dropped
  <2> QED
    BY <1>11, <1>1, <1>4, <2>1 DEF Dropped, data
<1> QED
  BY <1>8, <1>9, <1>10, <1>11

(* The end of a call takes it from the recent ones. *)
LEMMA StepEffect ==
  ASSUME NEW u \in Users, NEW c \in UserType, NEW g \in RegistryType, Step(u, c, g)
  PROVE  /\ reg' \in RegistryType
         /\ reg'.notify = g.notify /\ reg'.service = g.service /\ reg'.data = g.data
         /\ reg'.lock = g.lock /\ reg'.context = g.context
         /\ reg'.recent.limit = IF c.pc = "idle" THEN g.recent.limit \ {u} ELSE g.recent.limit
<1> DEFINE rc == [x \in DOMAIN g.recent |-> g.recent[x] \ {u}]
           h == [g EXCEPT !.recent = rc]
<1>1. reg' = IF c.pc = "idle" THEN h ELSE g
  BY DEF Step
<1>2. rc \in [context : SUBSET Users, limit : SUBSET Users] /\ rc.limit = g.recent.limit \ {u}
  <2>1. g.recent \in [context : SUBSET Users, limit : SUBSET Users]
    BY DEF RegistryType
  <2>2. DOMAIN g.recent = {"context", "limit"}
    BY <2>1
  <2>3. rc = [x \in {"context", "limit"} |-> g.recent[x] \ {u}]
    BY <2>2
  <2>4. rc["limit"] = g.recent.limit \ {u} /\ rc["context"] = g.recent.context \ {u}
    BY <2>3
  <2>5. rc = [context |-> g.recent.context \ {u}, limit |-> g.recent.limit \ {u}]
    BY <2>3
  <2> HIDE DEF rc
  <2> QED
    BY <2>1, <2>4, <2>5
<1> HIDE DEF rc
<1>3. /\ h \in RegistryType /\ h.notify = g.notify /\ h.service = g.service /\ h.data = g.data
      /\ h.lock = g.lock /\ h.context = g.context /\ h.recent = rc
  BY <1>2 DEF RegistryType
<1> QED
  BY <1>1, <1>2, <1>3

(* The next step of a call, after c was prepared. *)
LEMMA ProceedEffect ==
  ASSUME NEW c \in UserType
  PROVE  LET e == Proceed(c)
         IN /\ e \in UserType /\ e.todo = c.todo /\ e.waits = c.waits
            /\ e.pc = IF c.todo # <<>> THEN "get" ELSE IF c.waits # <<>> THEN "wait" ELSE "idle"
BY DEF Proceed, UserType, OptData, OptNat

LEMMA FoundEffect ==
  ASSUME NEW c \in UserType, NEW t \in DataTypes, NEW d \in DataType
  PROVE  LET e == Found(c, t, Result(d))
         IN e \in UserType /\ e.todo = c.todo /\ e.waits = c.waits
<1> DEFINE f == [x \in DOMAIN c.found \cup {t} |-> IF x = t THEN Result(d) ELSE c.found[x]]
<1>1. PICK T \in SUBSET DataTypes : c.found \in [T -> Revisions \cup {NotFound, Timeout}]
  BY DEF UserType, FoundType
<1>2. f \in [T \cup {t} -> Revisions \cup {NotFound, Timeout}]
  BY <1>1, ResultType
<1>3. f \in FoundType
  BY <1>2 DEF FoundType
<1> HIDE DEF f
<1>4. [c EXCEPT !.found = f] \in UserType
  BY <1>3 DEF UserType
<1>5. Found(c, t, Result(d)) = [c EXCEPT !.found = f]
  BY DEF Found, f
<1> QED
  BY <1>4, <1>5 DEF UserType

LEMMA AddWaitEffect ==
  ASSUME NEW c \in UserType, NEW t \in DataTypes, NEW n \in Nat, NEW d \in OptData, c.todo # <<>>
  PROVE  LET e == AddWait(c, t, n, d)
         IN /\ e \in UserType /\ e.todo = Tail(c.todo)
            /\ e.waits = Append(c.waits, [type |-> t, number |-> n, data |-> d])
            /\ e.pc = IF e.todo # <<>> THEN "get" ELSE "wait"
<1> DEFINE w == [type |-> t, number |-> n, data |-> d]
           b == [c EXCEPT !.todo = Tail(@), !.waits = Append(@, w)]
<1>1. w \in WaitType
  BY DEF WaitType
<1> HIDE DEF w
<1>2. c.waits \in Seq(WaitType) /\ c.todo \in Seq(DataTypes)
  BY DEF UserType
<1>3. /\ Append(c.waits, w) \in Seq(WaitType) /\ Append(c.waits, w) # <<>>
      /\ Tail(c.todo) \in Seq(DataTypes)
  BY <1>1, <1>2
<1>4. b \in UserType /\ b.todo = Tail(c.todo) /\ b.waits = Append(c.waits, w)
  BY <1>3 DEF UserType
<1>5. AddWait(c, t, n, d) = Proceed(b)
  BY DEF AddWait, w
<1> HIDE DEF b
<1> QED
  BY <1>3, <1>4, <1>5, ProceedEffect DEF w

LEMMA WaitEndsEffect ==
  ASSUME NEW c \in UserType, NEW d \in DataType, c.waits # <<>>
  PROVE  LET e == WaitEnds(c, d)
         IN /\ e \in UserType /\ e.todo = c.todo /\ e.waits = Tail(c.waits)
            /\ e.pc = IF e.todo # <<>> THEN "get" ELSE IF e.waits # <<>> THEN "wait" ELSE "idle"
<1> DEFINE b == [c EXCEPT !.waits = Tail(@)]
           t == Head(c.waits).type
<1>1. c.waits \in Seq(WaitType)
  BY DEF UserType
<1>2. Tail(c.waits) \in Seq(WaitType) /\ Head(c.waits) \in WaitType
  BY <1>1
<1>3. b \in UserType /\ b.todo = c.todo /\ b.waits = Tail(c.waits)
  BY <1>2 DEF UserType
<1>4. t \in DataTypes
  BY <1>2 DEF WaitType
<1> HIDE DEF b, t
<1>5. WaitEnds(c, d) = Proceed(Found(b, t, Result(d)))
  BY DEF WaitEnds, b, t
<1> QED
  BY <1>3, <1>4, <1>5, FoundEffect, ProceedEffect

LEMMA TimedOutEffect ==
  ASSUME NEW c \in UserType
  PROVE  LET e == TimedOut(c)
         IN /\ e \in UserType /\ e.todo = c.todo /\ e.waits = <<>>
            /\ e.pc = IF e.todo # <<>> THEN "get" ELSE "idle"
<1> DEFINE waited == {c.waits[i].type : i \in DOMAIN c.waits}
           has(t) == CHOOSE w \in Range(c.waits) : w.type = t
           enough == "RateLimit" \notin waited /\ \A t \in waited : has(t).data # NULL
           f == [x \in DOMAIN c.found \cup waited |->
                   IF x \notin waited THEN c.found[x]
                   ELSE IF enough THEN Result(has(x).data) ELSE Timeout]
           b == [c EXCEPT !.waits = <<>>, !.found = f]
<1>1. c.waits \in Seq(WaitType)
  BY DEF UserType
<1>2. waited \subseteq DataTypes
  <2>1. \A i \in DOMAIN c.waits : c.waits[i] \in WaitType
    BY <1>1
  <2> QED
    BY <2>1 DEF WaitType
<1>3. ASSUME NEW x \in waited, enough PROVE Result(has(x).data) \in Revisions \cup {NotFound, Timeout}
  <2>1. PICK i \in DOMAIN c.waits : c.waits[i].type = x
    OBVIOUS
  <2>2. c.waits[i] \in Range(c.waits)
    BY DEF Range
  <2>3. has(x) \in Range(c.waits)
    BY <2>1, <2>2
  <2>4. has(x) \in WaitType
    BY <1>1, <2>3 DEF Range
  <2>5. has(x).data \in DataType
    BY <1>3, <2>4 DEF WaitType, OptData
  <2> QED
    BY <2>5, ResultType
<1>4. PICK T \in SUBSET DataTypes : c.found \in [T -> Revisions \cup {NotFound, Timeout}]
  BY DEF UserType, FoundType
<1>5. f \in [T \cup waited -> Revisions \cup {NotFound, Timeout}]
  BY <1>3, <1>4
<1>6. f \in FoundType
  BY <1>2, <1>4, <1>5 DEF FoundType
<1>7. TimedOut(c) = Proceed(b)
  BY DEF TimedOut
<1> HIDE DEF f
<1>8. b \in UserType /\ b.todo = c.todo /\ b.waits = <<>>
  <2>1. <<>> \in Seq(WaitType)
    OBVIOUS
  <2> QED
    BY <1>6, <2>1 DEF UserType
<1> HIDE DEF b
<1> QED
  BY <1>7, <1>8, ProceedEffect

-----------------------------------------------------------------------------
(* Calls that leave the notifies and the connector alone. *)

(* A call that uses a notify has begun. *)
LEMMA UsersAreInCall ==
  ASSUME NEW u \in Users, CallInv(u, user[u], reg), NEW t, Uses(user[u], t), user \in [Users -> UserType]
  PROVE  u \in InCall
<1>1. user[u].waits \in Seq(WaitType)
  BY DEF UserType
<1>2. user[u].waits = <<>> => ~Waits(user[u], t)
  BY <1>1 DEF Waits
<1>3. user[u].pc = "idle" => user[u].waits = <<>>
  BY DEF CallInv
<1>4. Loads(user[u], t) => user[u].pc # "idle"
  BY DEF Loads
<1> QED
  BY <1>2, <1>3, <1>4 DEF Uses, InCall

(* What Expiring says, in terms of deregistrations. *)
LEMMA ExpiringIs ==
  /\ conn \in ConnectorType =>
       (Expiring <=> expire # "idle" \/ \E t \in DataTypes : Dereg(t))
  /\ conn' \in ConnectorType =>
       (Expiring' <=> expire' # "idle" \/ \E t \in DataTypes : Dereg(t)')
<1>1. ASSUME conn \in ConnectorType
      PROVE  Expiring <=> expire # "idle" \/ \E t \in DataTypes : Dereg(t)
  <2>1. DOMAIN conn.queue = Queued /\ \A i \in Queued : conn.queue[i].type \in DataTypes
    <3>1. conn.queue \in Seq(TaskType)
      BY <1>1 DEF ConnectorType
    <3>2. DOMAIN conn.queue = Queued /\ \A i \in Queued : conn.queue[i] \in TaskType
      BY <3>1 DEF Queued
    <3> QED
      BY <3>2 DEF TaskType
  <2>2. conn.handler # NULL => conn.handler.type \in DataTypes
    BY <1>1 DEF ConnectorType, HandlerType
  <2> QED
    BY <2>1, <2>2 DEF Expiring, Dereg, Leaving, DeregAt
<1>2. ASSUME conn' \in ConnectorType
      PROVE  Expiring' <=> expire' # "idle" \/ \E t \in DataTypes : Dereg(t)'
  <2>1. DOMAIN conn'.queue = Queued' /\ \A i \in Queued' : conn'.queue[i].type \in DataTypes
    <3>1. conn'.queue \in Seq(TaskType)
      BY <1>2 DEF ConnectorType
    <3>2. DOMAIN conn'.queue = Queued' /\ \A i \in Queued' : conn'.queue[i] \in TaskType
      BY <3>1 DEF Queued
    <3> QED
      BY <3>2 DEF TaskType
  <2>2. conn'.handler # NULL => conn'.handler.type \in DataTypes
    BY <1>2 DEF ConnectorType, HandlerType
  <2> QED
    BY <2>1, <2>2 DEF Expiring, Dereg, Leaving, DeregAt
<1> QED
  BY <1>1, <1>2

(* The stages of the handlers depend on the connector, the notify map and  *)
(* who is about to register.                                               *)
LEMMA HandlersFrame ==
  ASSUME HandlersInv, OrderInv, conn' = conn, reg'.notify = reg.notify,
         \A t \in DataTypes : Holder(t)' = Holder(t)
  PROVE  HandlersInv' /\ OrderInv'
<1>1. OrderInv'
  BY DEF OrderInv, Queued, Leaving, DeregAt
<1>2. ASSUME NEW t \in DataTypes PROVE HandlerInv(t)'
  <2>1. HandlerInv(t) /\ Holder(t)' = Holder(t)
    BY DEF HandlersInv
  <2> QED
    BY <2>1 DEF HandlerInv, Dereg, Queued, Leaving, DeregAt, RegAt
<1> QED
  BY <1>1, <1>2 DEF HandlersInv

(* Only the call of u, the context and the times of use change. *)
LEMMA CallStep ==
  ASSUME RegistryInv, NEW u \in Users, NEW c \in UserType, NEW g \in RegistryType, Step(u, c, g),
         UNCHANGED <<setup, notifies, conn, files, persist, expire, breaker, server, bounds, fault>>,
         g.notify = reg.notify, g.service = reg.service, g.data = reg.data, g.lock = reg.lock,
         \/ g.context = reg.context
         \/ g.context.instances = IF reg.context = NULL THEN NULL ELSE reg.context.instances,
         g.recent.limit \in {reg.recent.limit, InCall},
         CallInv(u, c, g),
         reg.lock = u => Head(c.todo) = Head(user[u].todo),
         setup.calm /\ Expiring => c.pc = "idle"
  PROVE  RegistryInv'
<1>1. /\ reg' \in RegistryType
      /\ reg'.notify = reg.notify /\ reg'.service = reg.service /\ reg'.data = reg.data
      /\ reg'.lock = reg.lock /\ reg'.context = g.context
      /\ reg'.recent.limit = IF c.pc = "idle" THEN g.recent.limit \ {u} ELSE g.recent.limit
  <2>1. /\ reg' \in RegistryType
        /\ reg'.notify = g.notify /\ reg'.service = g.service /\ reg'.data = g.data
        /\ reg'.lock = g.lock /\ reg'.context = g.context
        /\ reg'.recent.limit = IF c.pc = "idle" THEN g.recent.limit \ {u} ELSE g.recent.limit
    BY StepEffect
  <2> QED
    BY <2>1
<1>2. user' = [user EXCEPT ![u] = c]
  BY DEF Step
<1>3. TypeInv /\ user \in [Users -> UserType]
  BY DEF RegistryInv, TypeInv
<1>4. user' \in [Users -> UserType] /\ user'[u] = c /\ \A v \in Users \ {u} : user'[v] = user[v]
  BY <1>2, <1>3
<1>5. TypeInv'
  BY <1>1, <1>3, <1>4 DEF TypeInv
<1>6. CallsInv'
  <2>1. ASSUME NEW v \in Users \ {u} PROVE CallInv(v, user[v], reg)'
    <3>1. CallInv(v, user[v], reg)
      BY DEF RegistryInv, CallsInv
    <3>2. Uses(user[v], "RateLimit") => v \in InCall
      BY <1>3, <3>1, UsersAreInCall
    <3>3. reg'.data["RateLimit"] # NULL /\ Uses(user[v], "RateLimit") => v \in reg'.recent.limit
      BY <1>1, <3>1, <3>2 DEF CallInv
    <3>4. CallInv(v, user[v], reg') /\ setup' = setup /\ expire' = expire
      BY <1>1, <3>1, <3>3 DEF CallInv
    <3>5. user'[v] = user[v]
      BY <1>4
    <3> HIDE DEF Uses
    <3> QED
      BY <3>4, <3>5 DEF CallInv, Uses, Loads, Waits
  <2>2. CallInv(u, user[u], reg)'
    <3>1. c.pc = "idle" => ~Uses(c, "RateLimit")
      <4>1. c.waits \in Seq(WaitType)
        BY DEF UserType
      <4> QED
        BY <4>1 DEF CallInv, Uses, Loads, Waits
    <3>2. reg'.data["RateLimit"] # NULL /\ Uses(c, "RateLimit") => u \in reg'.recent.limit
      BY <1>1, <3>1 DEF CallInv
    <3>3. CallInv(u, c, reg') /\ setup' = setup /\ expire' = expire
      BY <1>1, <3>2 DEF CallInv
    <3>4. user'[u] = c
      BY <1>4
    <3> QED
      BY <3>3, <3>4 DEF CallInv, Uses, Loads, Waits
  <2> QED
    BY <2>1, <2>2 DEF CallsInv
<1>7. OrderInv' /\ HandlersInv'
  <2>1. \A t \in DataTypes : Holder(t)' = Holder(t)
    BY <1>1, <1>4 DEF Holder
  <2> QED
    BY <1>1, <2>1, HandlersFrame DEF RegistryInv
<1>8. NumberInv' /\ QuietInv' /\ ExpireInv' /\ ServiceInv' /\ DataInv'
  <2>1. conn' = conn /\ notifies' = notifies /\ setup' = setup /\ expire' = expire /\ breaker' = breaker
    OBVIOUS
  <2>2. reg'.context # NULL /\ reg'.context.instances # NULL =>
          reg.context # NULL /\ reg.context.instances # NULL
    BY <1>1
  <2>3. NumberInv' /\ ExpireInv' /\ ServiceInv'
    BY <1>1, <2>1 DEF RegistryInv, NumberInv, ExpireInv, ServiceInv, NoTask, Leaving, Queued
  <2>4. QuietInv'
    BY <1>1, <2>1, <2>2 DEF RegistryInv, QuietInv, NoTask, Leaving, Queued
  <2>5. DataInv'
    BY <1>1, <2>1, <2>2 DEF RegistryInv, DataInv, Dereg, Leaving, DeregAt, Queued
  <2> QED
    BY <2>3, <2>4, <2>5
<1>9. CalmInv'
  <2>1. Expiring' = Expiring /\ setup' = setup /\ breaker' = breaker /\ conn' = conn
    BY DEF Expiring
  <2>2. c.pc = "idle" /\ InCall = {} => InCall' = {}
    BY <1>4 DEF InCall
  <2> QED
    BY <2>1, <2>2 DEF RegistryInv, CalmInv
<1>10. fault' = "none"
  BY DEF RegistryInv
<1> QED
  BY <1>5, <1>6, <1>7, <1>8, <1>9, <1>10 DEF RegistryInv

LEMMA CallFacts ==
  ASSUME RegistryInv, NEW u \in Users
  PROVE  /\ user[u] \in UserType /\ CallInv(u, user[u], reg)
         /\ user[u].todo \in Seq(DataTypes) /\ user[u].waits \in Seq(WaitType)
         /\ reg \in RegistryType /\ conn \in ConnectorType /\ setup \in Setups
         /\ notifies \in [DataTypes -> Seq(NotifyType)]
         /\ InCall \in SUBSET Users /\ fault = "none"
<1>1. user[u] \in UserType
  BY DEF RegistryInv, TypeInv
<1> QED
  BY <1>1 DEF RegistryInv, TypeInv, CallsInv, InCall, UserType

LEMMA EmptyFound == <<>> \in FoundType
<1>1. <<>> \in [{} -> Revisions \cup {NotFound, Timeout}]
  OBVIOUS
<1> QED
  BY <1>1 DEF FoundType

LEMMA CallKeeps ==
  ASSUME RegistryInv, AllSheltered, NEW u \in Users, Call(u)
  PROVE  RegistryInv'
<1> DEFINE c == [user[u] EXCEPT !.pc = "get", !.todo = setup.asks[u], !.found = <<>>]
           g == IF Head(setup.asks[u]) = "Instances" THEN UseContext(reg, InCall \cup {u}) ELSE reg
<1>1. /\ user[u] \in UserType /\ CallInv(u, user[u], reg) /\ reg \in RegistryType
      /\ InCall \in SUBSET Users /\ setup \in Setups
  BY CallFacts
<1>2. setup.asks[u] \in Seq(DataTypes)
  BY <1>1, ConstantsAssumption
<1>3. c \in UserType /\ c.pc = "get" /\ c.todo = setup.asks[u] /\ c.waits = user[u].waits
  BY <1>1, <1>2, EmptyFound DEF UserType
<1>4. /\ g \in RegistryType
      /\ g.notify = reg.notify /\ g.service = reg.service /\ g.data = reg.data /\ g.lock = reg.lock
      /\ g.recent.limit = reg.recent.limit
      /\ \/ g.context = reg.context
         \/ g.context.instances = IF reg.context = NULL THEN NULL ELSE reg.context.instances
  BY <1>1, UseContextEffect
<1>5. Step(u, c, g)
  BY DEF Call
<1>6. user[u].pc = "idle" /\ setup.asks[u] # <<>> /\ (setup.calm => ~Expiring)
  BY DEF Call
<1>7. ~setup.calm => setup.asks[u] \in Seq({"RateLimit"})
  BY <1>1 DEF AllSheltered
<1> HIDE DEF c, g
<1>8. c.waits = <<>> /\ reg.lock # u /\ ~Uses(c, "RateLimit")
  BY <1>1, <1>3, <1>6 DEF CallInv, Uses, Loads, Waits
<1>9. CallInv(u, c, g)
  BY <1>3, <1>4, <1>6, <1>7, <1>8 DEF CallInv
<1>10. UNCHANGED <<setup, notifies, conn, files, persist, expire, breaker, server, bounds, fault>>
  BY DEF Call
<1> QED
  BY <1>3, <1>4, <1>5, <1>6, <1>8, <1>9, <1>10, CallStep

(* A cached object that a lookup returns. *)
LEMMA LookupType ==
  ASSUME reg \in RegistryType, NEW t \in DataTypes
  PROVE  Lookup(t) \in OptData /\ (t = "RateLimit" => Lookup(t) = reg.data["RateLimit"])
BY DEF Lookup, RegistryType

LEMMA GetKeeps ==
  ASSUME RegistryInv, NEW u \in Users, GetServiceDataWithRef(u)
  PROVE  RegistryInv'
<1> DEFINE t == Head(user[u].todo)
           d == Lookup(t)
           ok == d # NULL /\ (d.available \/ (IsNotFound(d) /\ t = "RateLimit"))
           b == [user[u] EXCEPT !.todo = Tail(@)]
           c == IF ok THEN Proceed(Found(b, t, Result(d))) ELSE [user[u] EXCEPT !.pc = "load", !.data = d]
           g == CASE t = "Instances"             -> UseContext(reg, InCall)
                  [] t = "RateLimit" /\ d # NULL -> UseLimit(reg, InCall)
                  [] OTHER                       -> reg
<1>1. /\ user[u] \in UserType /\ CallInv(u, user[u], reg) /\ reg \in RegistryType
      /\ InCall \in SUBSET Users /\ setup \in Setups /\ user[u].todo \in Seq(DataTypes)
  BY CallFacts
<1>2. user[u].pc = "get" /\ Step(u, c, g)
  BY DEF GetServiceDataWithRef
<1>3. user[u].todo # <<>> /\ reg.lock # u
  BY <1>1, <1>2 DEF CallInv
<1>4. t \in DataTypes /\ Tail(user[u].todo) \in Seq(DataTypes)
  BY <1>1, <1>3
<1>5. d \in OptData /\ (t = "RateLimit" => d = reg.data["RateLimit"])
  BY <1>1, <1>4, LookupType
<1>6. b \in UserType /\ b.todo = Tail(user[u].todo) /\ b.waits = user[u].waits
  BY <1>1, <1>4 DEF UserType
<1>7. /\ g \in RegistryType
      /\ g.notify = reg.notify /\ g.service = reg.service /\ g.data = reg.data /\ g.lock = reg.lock
      /\ g.recent.limit = IF t = "RateLimit" /\ d # NULL THEN InCall ELSE reg.recent.limit
      /\ \/ g.context = reg.context
         \/ g.context.instances = IF reg.context = NULL THEN NULL ELSE reg.context.instances
  <2>1. CASE t = "Instances"
    <3>1. g = UseContext(reg, InCall)
      BY <2>1
    <3> QED
      BY <1>1, <2>1, <3>1, UseContextEffect
  <2>2. CASE t = "RateLimit" /\ d # NULL
    <3>1. g = UseLimit(reg, InCall)
      BY <2>2
    <3> QED
      BY <1>1, <2>2, <3>1, UseLimitEffect
  <2>3. CASE t # "Instances" /\ ~(t = "RateLimit" /\ d # NULL)
    <3>1. g = reg
      BY <2>3
    <3> QED
      BY <1>1, <2>3, <3>1
  <2> QED
    BY <2>1, <2>2, <2>3
<1> HIDE DEF d, b, g, t
<1>8. u \in InCall
  BY <1>2 DEF InCall
<1>9. /\ c \in UserType /\ c.waits = user[u].waits
      /\ ok => /\ c.todo = Tail(user[u].todo)
               /\ c.pc = IF c.todo # <<>> THEN "get" ELSE IF c.waits # <<>> THEN "wait" ELSE "idle"
      /\ ~ok => c.todo = user[u].todo /\ c.pc = "load"
  <2>1. CASE ok
    <3>1. d \in DataType
      BY <1>5, <2>1 DEF OptData
    <3> QED
      BY <1>4, <1>6, <2>1, <3>1, FoundEffect, ProceedEffect
  <2>2. CASE ~ok
    BY <1>1, <1>5, <2>2 DEF UserType
  <2> QED
    BY <2>1, <2>2
<1>10. expire = "RateLimit" /\ t = "RateLimit" => ok
  BY <1>5 DEF RegistryInv, ExpireInv, Usable
<1> HIDE DEF c, ok
<1>11. Uses(c, "RateLimit") =>
         Uses(user[u], "RateLimit") \/ (~ok /\ t = "RateLimit")
  BY <1>9 DEF Uses, Loads, Waits, t
<1>12. g.data["RateLimit"] # NULL /\ Uses(c, "RateLimit") => u \in g.recent.limit
  BY <1>1, <1>5, <1>7, <1>8, <1>11 DEF CallInv
<1>13. expire = "RateLimit" => ~Uses(c, "RateLimit")
  BY <1>1, <1>10, <1>11 DEF CallInv
<1>14. ~setup.calm => c.todo \in Seq({"RateLimit"})
  <2>1. ~setup.calm => user[u].todo \in Seq({"RateLimit"})
    BY <1>1 DEF CallInv
  <2>2. ~setup.calm => Tail(user[u].todo) \in Seq({"RateLimit"})
    BY <1>3, <2>1
  <2> QED
    BY <1>9, <2>1, <2>2
<1>15. CallInv(u, c, g)
  BY <1>1, <1>2, <1>3, <1>7, <1>9, <1>12, <1>13, <1>14 DEF CallInv
<1>16. ~(setup.calm /\ Expiring)
  BY <1>8 DEF RegistryInv, CalmInv
<1>17. UNCHANGED <<setup, notifies, conn, files, persist, expire, breaker, server, bounds, fault>>
  BY DEF GetServiceDataWithRef
<1> QED
  BY <1>2, <1>3, <1>7, <1>9, <1>15, <1>16, <1>17, CallStep

(* The notify exists: the call will wait on it. *)
LEMMA JoinKeeps ==
  ASSUME RegistryInv, NEW u \in Users, LoadServiceDataWithNotify(u),
         reg.notify[Head(user[u].todo)] # NULL
  PROVE  RegistryInv'
<1> DEFINE t == Head(user[u].todo)
           w == [type |-> t, number |-> reg.notify[t], data |-> user[u].data]
           c == AddWait(user[u], t, reg.notify[t], user[u].data)
<1>1. /\ user[u] \in UserType /\ CallInv(u, user[u], reg) /\ reg \in RegistryType
      /\ InCall \in SUBSET Users /\ setup \in Setups /\ user[u].todo \in Seq(DataTypes)
      /\ user[u].waits \in Seq(WaitType)
  BY CallFacts
<1>2. user[u].pc = "load" /\ Step(u, c, reg) /\ fault' = fault /\ notifies' = notifies
  BY DEF LoadServiceDataWithNotify
<1>3. user[u].todo # <<>> /\ reg.lock # u
  BY <1>1, <1>2 DEF CallInv
<1>4. t \in DataTypes /\ Tail(user[u].todo) \in Seq(DataTypes)
  BY <1>1, <1>3
<1>5. reg.notify[t] \in Nat /\ reg.notify[t] # NULL
  BY <1>1, <1>4, NullIsNoObject DEF RegistryType, OptNat
<1>6. user[u].data \in OptData
  BY <1>1 DEF UserType
<1>7. /\ c \in UserType /\ c.todo = Tail(user[u].todo)
      /\ c.waits = Append(user[u].waits, w)
      /\ c.pc = IF c.todo # <<>> THEN "get" ELSE "wait"
  BY <1>1, <1>3, <1>4, <1>5, <1>6, AddWaitEffect
<1>8. w.type = t /\ w.number = reg.notify[t] /\ w \in WaitType
  BY <1>4, <1>5, <1>6 DEF WaitType
<1> HIDE DEF c, w
<1>9. /\ Len(c.waits) = Len(user[u].waits) + 1 /\ c.waits[Len(c.waits)] = w
      /\ \A i \in 1 .. Len(user[u].waits) : c.waits[i] = user[u].waits[i]
      /\ c.waits # <<>> /\ Len(user[u].waits) \in Nat
  <2> DEFINE q == user[u].waits
  <2>1. q \in Seq(WaitType) /\ w \in WaitType /\ c.waits = Append(q, w)
    BY <1>1, <1>7, <1>8
  <2> HIDE DEF q
  <2>2. /\ Len(q) \in Nat /\ Len(c.waits) = Len(q) + 1 /\ c.waits[Len(c.waits)] = w
        /\ c.waits # <<>> /\ \A i \in 1 .. Len(q) : c.waits[i] = q[i]
    BY ONLY <2>1, AppendIs
  <2> QED
    BY <2>2 DEF q
<1> DEFINE m == Len(user[u].waits)
<1>a. \A i \in 1 .. Len(c.waits) : i \in 1 .. m \/ i = m + 1
  BY <1>9
<1>10. Uses(c, "RateLimit") => Uses(user[u], "RateLimit")
  <2>1. ASSUME Waits(c, "RateLimit") PROVE Uses(user[u], "RateLimit")
    <3>1. PICK i \in 1 .. Len(c.waits) : c.waits[i].type = "RateLimit"
      BY <2>1 DEF Waits
    <3>2. CASE i \in 1 .. m
      BY <1>9, <3>1, <3>2 DEF Uses, Waits
    <3>3. CASE i = m + 1
      <4>1. t = "RateLimit"
        BY <1>8, <1>9, <3>1, <3>3
      <4> QED
        BY <1>2, <4>1 DEF Uses, Loads
    <3> QED
      BY <1>a, <3>2, <3>3
  <2>2. ~Loads(c, "RateLimit")
    BY <1>7 DEF Loads
  <2> QED
    BY <2>1, <2>2 DEF Uses
<1>11. \A i \in 1 .. Len(c.waits) :
         reg.notify[c.waits[i].type] # NULL /\ c.waits[i].number = reg.notify[c.waits[i].type]
  <2>1. ASSUME NEW i \in 1 .. m
        PROVE  reg.notify[c.waits[i].type] # NULL /\ c.waits[i].number = reg.notify[c.waits[i].type]
    BY <1>1, <1>9, <2>1 DEF CallInv
  <2>2. /\ reg.notify[c.waits[m + 1].type] # NULL
        /\ c.waits[m + 1].number = reg.notify[c.waits[m + 1].type]
    BY <1>5, <1>8, <1>9
  <2> QED
    BY <1>a, <2>1, <2>2
<1>12. ~setup.calm => c.todo \in Seq({"RateLimit"})
  <2>1. ~setup.calm => user[u].todo \in Seq({"RateLimit"})
    BY <1>1 DEF CallInv
  <2>2. ~setup.calm => Tail(user[u].todo) \in Seq({"RateLimit"})
    BY <1>3, <2>1
  <2> QED
    BY <1>7, <2>2
<1>13. CallInv(u, c, reg)
  BY <1>1, <1>3, <1>7, <1>9, <1>10, <1>11, <1>12 DEF CallInv
<1>14. ~(setup.calm /\ Expiring)
  BY <1>2 DEF RegistryInv, CalmInv, InCall
<1>15. UNCHANGED <<setup, notifies, conn, files, persist, expire, breaker, server, bounds, fault>>
  BY <1>2 DEF LoadServiceDataWithNotify
<1> QED
  BY <1>1, <1>2, <1>3, <1>7, <1>13, <1>14, <1>15, CallStep

LEMMA LoadServiceDataKeeps ==
  ASSUME RegistryInv, NEW u \in Users, LoadServiceData(u)
  PROVE  RegistryInv'
<1> DEFINE t == Head(user[u].todo)
<1>1. /\ user[u] \in UserType /\ CallInv(u, user[u], reg) /\ reg \in RegistryType
      /\ InCall \in SUBSET Users /\ user[u].todo \in Seq(DataTypes)
      /\ user[u].waits \in Seq(WaitType)
  BY CallFacts
<1>2. user[u].pc = "file"
  BY DEF LoadServiceData
<1>3. user[u].todo # <<>> /\ reg.lock = u
  BY <1>1, <1>2 DEF CallInv
<1>4. PICK d \in IF files[t] = NULL THEN {NULL}
                 ELSE {Data(files[t], "Disk", available) : available \in BOOLEAN} :
        Step(u, [user[u] EXCEPT !.pc = "register", !.file = d, !.service = reg.service], reg)
  BY DEF LoadServiceData
<1>5. d \in OptData
  <2>1. t \in DataTypes
    BY <1>1, <1>3
  <2>2. files[t] \in Revisions \cup {NULL}
    BY <2>1 DEF RegistryInv, TypeInv
  <2> QED
    BY <2>2, FileData DEF OptData
<1> DEFINE c == [user[u] EXCEPT !.pc = "register", !.file = d, !.service = reg.service]
<1>6. /\ c \in UserType /\ c.pc = "register" /\ c.todo = user[u].todo /\ c.waits = user[u].waits
      /\ c.service = reg.service
  BY <1>1, <1>5 DEF UserType, RegistryType
<1>7. Step(u, c, reg)
  BY <1>4
<1> HIDE DEF c
<1>8. Uses(c, "RateLimit") <=> Uses(user[u], "RateLimit")
  BY <1>2, <1>6 DEF Uses, Loads, Waits
<1>9. CallInv(u, c, reg)
  BY <1>1, <1>2, <1>3, <1>6, <1>8 DEF CallInv
<1>10. ~(setup.calm /\ Expiring)
  BY <1>2 DEF RegistryInv, CalmInv, InCall
<1>11. UNCHANGED <<setup, notifies, conn, files, persist, expire, breaker, server, bounds, fault>>
  BY DEF LoadServiceData
<1> QED
  BY <1>1, <1>6, <1>7, <1>9, <1>10, <1>11, CallStep

(* The notify a call waits on lives. *)
LEMMA FirstWait ==
  ASSUME RegistryInv, NEW u \in Users, user[u].pc \in {"wait", "blocked"}
  PROVE  LET w == Head(user[u].waits)
         IN /\ user[u].waits # <<>> /\ w \in WaitType /\ NotifyFault(w) = fault
            /\ notifies[w.type][w.number].data \in OptData
<1> DEFINE w == Head(user[u].waits)
<1>1. /\ CallInv(u, user[u], reg) /\ user[u].waits \in Seq(WaitType) /\ reg \in RegistryType
      /\ notifies \in [DataTypes -> Seq(NotifyType)]
  BY CallFacts
<1>2. user[u].waits # <<>>
  BY <1>1 DEF CallInv
<1>3. w \in WaitType /\ w = user[u].waits[1] /\ 1 \in 1 .. Len(user[u].waits)
  BY <1>1, <1>2
<1>4. reg.notify[w.type] # NULL /\ w.number = reg.notify[w.type]
  BY <1>1, <1>3 DEF CallInv
<1>5. w.type \in DataTypes
  BY <1>3 DEF WaitType
<1>6. w.number \in 1 .. Len(notifies[w.type]) /\ notifies[w.type][w.number].live
  BY <1>4, <1>5 DEF RegistryInv, NumberInv
<1>7. notifies[w.type][w.number] \in NotifyType
  BY <1>1, <1>5, <1>6
<1> QED
  BY <1>2, <1>3, <1>6, <1>7 DEF NotifyFault, NotifyType

(* The first wait of a call is over, or all of them. *)
LEMMA WaitOverKeeps ==
  ASSUME RegistryInv, NEW u \in Users, user[u].pc \in {"wait", "blocked"}, NEW c \in UserType,
         c.todo = user[u].todo, c.waits \in {<<>>, Tail(user[u].waits), user[u].waits},
         \/ c.pc = IF c.todo # <<>> THEN "get" ELSE IF c.waits # <<>> THEN "wait" ELSE "idle"
         \/ c.pc = "blocked" /\ c.waits = user[u].waits,
         Step(u, c, reg),
         UNCHANGED <<setup, notifies, conn, files, persist, expire, breaker, server, bounds, fault>>
  PROVE  RegistryInv'
<1>1. /\ user[u] \in UserType /\ CallInv(u, user[u], reg) /\ reg \in RegistryType
      /\ user[u].waits \in Seq(WaitType)
  BY CallFacts
<1>2. user[u].waits # <<>> /\ reg.lock # u
  BY <1>1 DEF CallInv
<1>3. \A i \in 1 .. Len(c.waits) : \E j \in 1 .. Len(user[u].waits) : c.waits[i] = user[u].waits[j]
  <2>1. CASE c.waits = Tail(user[u].waits)
    <3> DEFINE q == user[u].waits
    <3>1. q \in Seq(WaitType) /\ q # <<>> /\ c.waits = Tail(q)
      BY <1>1, <1>2, <2>1
    <3> HIDE DEF q
    <3>2. \A i \in 1 .. Len(c.waits) : i + 1 \in 1 .. Len(q) /\ c.waits[i] = q[i + 1]
      BY ONLY <3>1, TailIs
    <3> QED
      BY <3>2 DEF q
  <2>2. CASE c.waits = <<>>
    BY <2>2
  <2>3. CASE c.waits = user[u].waits
    BY <2>3
  <2> QED
    BY <2>1, <2>2, <2>3
<1>4. Uses(c, "RateLimit") => Uses(user[u], "RateLimit")
  BY <1>3 DEF Uses, Loads, Waits
<1>5. CallInv(u, c, reg)
  BY <1>1, <1>2, <1>3, <1>4 DEF CallInv
<1>6. ~(setup.calm /\ Expiring)
  BY DEF RegistryInv, CalmInv, InCall
<1> QED
  BY <1>1, <1>2, <1>5, <1>6, CallStep

LEMMA WaitDataKeeps ==
  ASSUME RegistryInv, NEW u \in Users, WaitData(u)
  PROVE  RegistryInv'
<1> DEFINE w == Head(user[u].waits)
           ready == w.data # NULL /\ w.data.available
           skip == ready /\ w.type # "RateLimit"
           told == notifies[w.type][w.number].data
           c == IF ~skip /\ told # NULL THEN WaitEnds(user[u], told)
                ELSE IF ready THEN WaitEnds(user[u], w.data)
                ELSE [user[u] EXCEPT !.pc = "blocked"]
<1>1. user[u].pc = "wait" /\ Step(u, c, reg) /\ fault' = IF skip THEN fault ELSE NotifyFault(w)
  BY DEF WaitData
<1>2. user[u].waits # <<>> /\ w \in WaitType /\ NotifyFault(w) = fault /\ told \in OptData
  BY <1>1, FirstWait
<1>3. user[u] \in UserType
  BY CallFacts
<1>4. w.data \in OptData
  BY <1>2 DEF WaitType
<1> HIDE DEF told, w
<1>5. /\ c \in UserType /\ c.todo = user[u].todo
      /\ c.waits \in {Tail(user[u].waits), user[u].waits}
      /\ \/ c.pc = IF c.todo # <<>> THEN "get" ELSE IF c.waits # <<>> THEN "wait" ELSE "idle"
         \/ c.pc = "blocked" /\ c.waits = user[u].waits
  <2>1. CASE ~skip /\ told # NULL
    <3>1. told \in DataType
      BY <1>2, <2>1 DEF OptData
    <3> QED
      BY <1>2, <1>3, <2>1, <3>1, WaitEndsEffect
  <2>2. CASE ~(~skip /\ told # NULL) /\ ready
    <3>1. w.data \in DataType
      BY <1>4, <2>2 DEF OptData
    <3> QED
      BY <1>2, <1>3, <2>2, <3>1, WaitEndsEffect
  <2>3. CASE ~(~skip /\ told # NULL) /\ ~ready
    BY <1>3, <2>3 DEF UserType
  <2> QED
    BY <2>1, <2>2, <2>3
<1>6. UNCHANGED <<setup, notifies, conn, files, persist, expire, breaker, server, bounds, fault>>
  BY <1>1, <1>2 DEF WaitData
<1> HIDE DEF c
<1> QED
  BY <1>1, <1>5, <1>6, WaitOverKeeps

LEMMA WakeUpKeeps ==
  ASSUME RegistryInv, NEW u \in Users, WakeUp(u)
  PROVE  RegistryInv'
<1> DEFINE w == Head(user[u].waits)
           told == notifies[w.type][w.number].data
           disk == w.data # NULL /\ w.data.status = "Disk"
           c == IF told # NULL THEN WaitEnds(user[u], told)
                ELSE IF disk THEN WaitEnds(user[u], w.data) ELSE TimedOut(user[u])
<1>1. user[u].pc = "blocked" /\ Step(u, c, reg) /\ fault' = NotifyFault(w)
  BY DEF WakeUp
<1>2. user[u].waits # <<>> /\ w \in WaitType /\ NotifyFault(w) = fault /\ told \in OptData
  BY <1>1, FirstWait
<1>3. user[u] \in UserType
  BY CallFacts
<1>4. w.data \in OptData
  BY <1>2 DEF WaitType
<1> HIDE DEF told, w
<1>5. /\ c \in UserType /\ c.todo = user[u].todo
      /\ c.waits \in {<<>>, Tail(user[u].waits)}
      /\ c.pc = IF c.todo # <<>> THEN "get" ELSE IF c.waits # <<>> THEN "wait" ELSE "idle"
  <2>1. CASE told # NULL
    <3>1. told \in DataType
      BY <1>2, <2>1 DEF OptData
    <3> QED
      BY <1>2, <1>3, <2>1, <3>1, WaitEndsEffect
  <2>2. CASE told = NULL /\ disk
    <3>1. w.data \in DataType
      BY <1>4, <2>2 DEF OptData
    <3> QED
      BY <1>2, <1>3, <2>2, <3>1, WaitEndsEffect
  <2>3. CASE told = NULL /\ ~disk
    BY <1>3, <2>3, TimedOutEffect
  <2> QED
    BY <2>1, <2>2, <2>3
<1>6. UNCHANGED <<setup, notifies, conn, files, persist, expire, breaker, server, bounds, fault>>
  BY <1>1, <1>2 DEF WakeUp
<1> HIDE DEF c
<1> QED
  BY <1>1, <1>5, <1>6, WaitOverKeeps

-----------------------------------------------------------------------------
(* Creation and registration of a handler. *)

(* Calls of the other threads, when the data of the rate limit is replaced *)
(* by data whose use is recorded.                                          *)
LEMMA OtherCall ==
  ASSUME RegistryInv, NEW v \in Users, NEW g \in RegistryType,
         setup' = setup, expire' = expire, user'[v] = user[v],
         g.lock = v <=> reg.lock = v, reg.lock = v => g.service = reg.service,
         \A t \in DataTypes : reg.notify[t] # NULL => g.notify[t] = reg.notify[t],
         g.data["RateLimit"] # NULL =>
           \/ InCall \subseteq g.recent.limit
           \/ reg.data["RateLimit"] # NULL /\ g.recent.limit = reg.recent.limit
  PROVE  CallInv(v, user[v], g) /\ (reg' = g => CallInv(v, user[v], reg)')
<1>1. /\ user[v] \in UserType /\ CallInv(v, user[v], reg) /\ reg \in RegistryType
      /\ user[v].waits \in Seq(WaitType)
  BY CallFacts
<1>2. user \in [Users -> UserType]
  BY DEF RegistryInv, TypeInv
<1>3. Uses(user[v], "RateLimit") => v \in InCall
  BY <1>1, <1>2, UsersAreInCall
<1>4. \A i \in 1 .. Len(user[v].waits) : user[v].waits[i].type \in DataTypes
  <2>1. \A i \in 1 .. Len(user[v].waits) : user[v].waits[i] \in WaitType
    BY <1>1
  <2> QED
    BY <2>1 DEF WaitType
<1>5. g.data["RateLimit"] # NULL /\ Uses(user[v], "RateLimit") => v \in g.recent.limit
  BY <1>1, <1>3 DEF CallInv
<1>6. user[v].todo # <<>> => Head(user[v].todo) \in DataTypes
  BY <1>1, CallFacts
<1>7. CallInv(v, user[v], g)
  BY <1>1, <1>4, <1>5, <1>6 DEF CallInv
<1> QED
  BY <1>7 DEF CallInv, Uses, Loads, Waits

LEMMA CreateKeeps ==
  ASSUME RegistryInv, NEW u \in Users, LoadServiceDataWithNotify(u),
         NEW t \in DataTypes, t = Head(user[u].todo), reg.notify[t] = NULL
  PROVE  RegistryInv'
<1> DEFINE n == Len(notifies[t]) + 1
           c == [user[u] EXCEPT !.pc = "file"]
           f == [reg.notify EXCEPT ![t] = n]
           s == IF t = "Instances" THEN n ELSE reg.service
           g == [reg EXCEPT !.lock = u, !.notify = f, !.service = s]
           x == [live |-> TRUE, data |-> NULL]
<1>1. /\ user[u] \in UserType /\ CallInv(u, user[u], reg) /\ reg \in RegistryType
      /\ InCall \in SUBSET Users /\ setup \in Setups /\ user[u].todo \in Seq(DataTypes)
      /\ user[u].waits \in Seq(WaitType) /\ notifies \in [DataTypes -> Seq(NotifyType)]
      /\ conn \in ConnectorType /\ fault = "none"
  BY CallFacts
<1>2. user[u].pc = "load" /\ reg.lock = NULL
  BY DEF LoadServiceDataWithNotify
<1>3. user[u].todo # <<>> /\ t \in DataTypes
  BY <1>1, <1>2 DEF CallInv
<1>4. ~(setup.calm /\ Expiring) /\ u \in InCall
  BY <1>2 DEF RegistryInv, CalmInv, InCall
<1>5. n \in Nat /\ n # NULL /\ Len(notifies[t]) \in Nat /\ notifies[t] \in Seq(NotifyType)
  BY <1>1, <1>3, NullIsNoObject
<1>6. t = "Instances" => reg.service = NULL
  BY <1>4 DEF RegistryInv, ServiceInv, Expiring
<1>7. /\ Step(u, c, g) /\ fault' = "none"
      /\ notifies' = [notifies EXCEPT ![t] = Append(@, x)]
  <2>1. [reg EXCEPT !.lock = u, !.notify[t] = n, !.service = IF t = "Instances" THEN n ELSE @] = g
    BY <1>1 DEF RegistryType
  <2>2. LoadServiceDataWithNotify(u) =>
          /\ Step(u, [user[u] EXCEPT !.pc = "file"],
                  [reg EXCEPT !.lock = u, !.notify[t] = n, !.service = IF t = "Instances" THEN n ELSE @])
          /\ notifies' = [notifies EXCEPT ![t] = Append(@, [live |-> TRUE, data |-> NULL])]
          /\ fault' = IF t = "Instances" /\ reg.service # NULL THEN "assertion" ELSE fault
    BY DEF LoadServiceDataWithNotify
  <2> QED
    BY <1>1, <1>6, <2>1, <2>2
<1>8. /\ f \in [DataTypes -> OptNat] /\ f[t] = n
      /\ \A y \in DataTypes \ {t} : f[y] = reg.notify[y]
  BY <1>1, <1>3, <1>5 DEF RegistryType, OptNat
<1>9. s \in OptNat /\ (t = "Instances" => s = n) /\ (t # "Instances" => s = reg.service)
  BY <1>1, <1>5 DEF RegistryType, OptNat
<1>10. x \in NotifyType /\ x.live
  BY DEF NotifyType, OptData
<1> HIDE DEF f, s, n, x
<1>11. /\ g \in RegistryType /\ g.lock = u /\ g.notify = f /\ g.service = s
       /\ g.data = reg.data /\ g.recent = reg.recent /\ g.context = reg.context
  BY <1>1, <1>8, <1>9 DEF RegistryType
<1>12. c \in UserType /\ c.pc = "file" /\ c.todo = user[u].todo /\ c.waits = user[u].waits
  BY <1>1 DEF UserType
<1> HIDE DEF c, g
<1>13. /\ reg' \in RegistryType /\ reg'.lock = u /\ reg'.notify = f /\ reg'.service = s
       /\ reg'.data = reg.data /\ reg'.recent.limit = reg.recent.limit /\ reg'.context = reg.context
       /\ user' = [user EXCEPT ![u] = c] /\ reg' = g
  BY <1>7, <1>11, <1>12 DEF Step
<1>14. user \in [Users -> UserType]
  BY DEF RegistryInv, TypeInv
<1>15. user' \in [Users -> UserType] /\ user'[u] = c /\ \A v \in Users \ {u} : user'[v] = user[v]
  BY <1>12, <1>13, <1>14
<1>16. UNCHANGED <<setup, conn, files, persist, expire, breaker, server, bounds>>
  BY DEF LoadServiceDataWithNotify
<1>17. /\ notifies' \in [DataTypes -> Seq(NotifyType)]
       /\ \A y \in DataTypes \ {t} : notifies'[y] = notifies[y]
       /\ Len(notifies'[t]) = n /\ notifies'[t][n].live
  <2>1. /\ Append(notifies[t], x) \in Seq(NotifyType) /\ Len(Append(notifies[t], x)) = n
        /\ Append(notifies[t], x)[n] = x
    BY <1>5, <1>10, AppendProperties DEF n
  <2> QED
    BY <1>1, <1>3, <1>7, <1>10, <2>1
<1>18. TypeInv'
  BY <1>13, <1>15, <1>16, <1>17 DEF RegistryInv, TypeInv
<1>19. CallsInv'
  <2>1. \A y \in DataTypes : reg.notify[y] # NULL => g.notify[y] = reg.notify[y]
    BY <1>8, <1>11
  <2>2. ASSUME NEW v \in Users \ {u} PROVE CallInv(v, user[v], reg)'
    <3>1. ~(reg.lock = v) /\ ~(g.lock = v)
      BY <1>2, <1>11, NullIsNoObject
    <3> QED
      BY <1>11, <1>13, <1>15, <1>16, <2>1, <3>1, OtherCall
  <2>3. Uses(c, "RateLimit") <=> Uses(user[u], "RateLimit")
    BY <1>2, <1>12 DEF Uses, Loads, Waits
  <2>4. \A i \in 1 .. Len(c.waits) :
          g.notify[c.waits[i].type] # NULL /\ c.waits[i].number = g.notify[c.waits[i].type]
    <3>1. \A i \in 1 .. Len(c.waits) : c.waits[i] \in WaitType
      BY <1>1, <1>12
    <3> QED
      BY <1>1, <1>12, <2>1, <3>1 DEF CallInv, WaitType
  <2>5. CallInv(u, c, g)
    BY <1>1, <1>2, <1>3, <1>5, <1>8, <1>11, <1>12, <2>3, <2>4 DEF CallInv
  <2>6. CallInv(u, user[u], reg)'
    BY <1>13, <1>15, <1>16, <2>5 DEF CallInv, Uses, Loads, Waits
  <2> QED
    BY <2>2, <2>6 DEF CallsInv
<1>20. \A y \in DataTypes : ~Holder(y) /\ (Holder(y)' <=> y = t)
  BY <1>2, <1>12, <1>13, <1>15, NullIsNoObject DEF Holder
<1>21. OrderInv' /\ HandlersInv'
  <2>1. OrderInv'
    BY <1>16 DEF RegistryInv, OrderInv, Queued, Leaving, DeregAt
  <2>2. ASSUME NEW y \in DataTypes \ {t} PROVE HandlerInv(y)'
    <3>1. HandlerInv(y) /\ ~Holder(y)' /\ ~Holder(y) /\ reg'.notify[y] = reg.notify[y] /\ conn' = conn
      BY <1>8, <1>13, <1>16, <1>20 DEF RegistryInv, HandlersInv
    <3> QED
      BY <3>1 DEF HandlerInv, Dereg, Queued, Leaving, DeregAt, RegAt
  <2>3. HandlerInv(t)'
    <3>1. /\ HandlerInv(t) /\ Holder(t)' /\ ~Holder(t) /\ reg'.notify[t] = n
          /\ reg.notify[t] = NULL /\ conn' = conn
      BY <1>3, <1>8, <1>13, <1>16, <1>20 DEF RegistryInv, HandlersInv
    <3>2. conn.listeners[t] # NULL => conn.listeners[t].number \in 1 .. Len(notifies[t])
      BY <1>3 DEF RegistryInv, NumberInv
    <3>3. conn.listeners[t] # NULL => conn.listeners[t].number # n /\ conn.listeners[t].number # NULL
      BY <1>5, <3>2, NullIsNoObject DEF n
    <3>4. \A i \in Queued : ~RegAt(i, t)
      BY <3>1 DEF HandlerInv, RegAt
    <3>5. conn.listeners[t] # NULL => Dereg(t)
      BY <3>1, <3>3 DEF HandlerInv
    <3>6. Dereg(t)' = Dereg(t) /\ Queued' = Queued /\ \A i \in Queued : RegAt(i, t)' = RegAt(i, t)
      BY <3>1 DEF Dereg, Queued, Leaving, DeregAt, RegAt
    <3>7. Dereg(t) => conn.listeners[t] # NULL
      BY <3>1 DEF HandlerInv
    <3> QED
      BY <3>1, <3>3, <3>4, <3>5, <3>6, <3>7 DEF HandlerInv
  <2> QED
    BY <2>1, <2>2, <2>3 DEF HandlersInv
<1>22. NumberInv'
  <2>1. NumberInv
    BY DEF RegistryInv
  <2>2. ASSUME NEW y \in DataTypes \ {t}
        PROVE  /\ reg'.notify[y] = reg.notify[y] /\ notifies'[y] = notifies[y]
               /\ conn'.listeners[y] = conn.listeners[y]
    BY <1>8, <1>13, <1>16, <1>17
  <2>3. reg'.notify[t] = n /\ n \in 1 .. n
    BY <1>5, <1>8, <1>13 DEF n
  <2>4. conn'.listeners[t] # NULL => conn'.listeners[t].number \in 1 .. n
    BY <1>5, <1>16, <2>1 DEF NumberInv, n
  <2> QED
    BY <1>17, <2>1, <2>2, <2>3, <2>4 DEF NumberInv
<1>23. CalmInv'
  BY <1>4, <1>16 DEF CalmInv, Expiring
<1>24. QuietInv'
  <2>1. ~setup.calm => t = "RateLimit"
    BY <1>1, <1>3 DEF CallInv
  <2> QED
    BY <1>8, <1>9, <1>13, <1>16, <2>1 DEF RegistryInv, QuietInv, NoTask, Leaving, Queued
<1>25. ExpireInv'
  <2>1. ~setup.calm => t = "RateLimit"
    BY <1>1, <1>3 DEF CallInv
  <2>2. expire \in {"RouteRule", "service"} => t # "Instances"
    BY <1>4, <2>1 DEF Expiring
  <2>3. expire \in {"RouteRule", "service"} => reg'.notify["Instances"] = NULL
    BY <1>8, <1>13, <2>2 DEF RegistryInv, ExpireInv, DataTypes
  <2> QED
    BY <1>2, <1>13, <1>16, <2>3, NullIsNoObject DEF RegistryInv, ExpireInv, NoTask, Leaving, Queued
<1>26. ServiceInv'
  <2>1. "Instances" \in DataTypes
    BY DEF DataTypes
  <2> QED
    BY <1>5, <1>6, <1>8, <1>9, <1>13, <1>16, <2>1 DEF RegistryInv, ServiceInv
<1>27. DataInv'
  <2>1. \A y \in DataTypes : reg.notify[y] # NULL => reg'.notify[y] # NULL
    BY <1>5, <1>8, <1>13
  <2>2. \A y \in DataTypes : Dereg(y)' = Dereg(y)
    BY <1>16 DEF Dereg, Leaving, DeregAt, Queued
  <2>3. "Instances" \in DataTypes
    BY DEF DataTypes
  <2> QED
    BY <1>13, <1>16, <2>1, <2>2, <2>3 DEF RegistryInv, DataInv
<1> QED
  BY <1>7, <1>18, <1>19, <1>21, <1>22, <1>23, <1>24, <1>25, <1>26, <1>27 DEF RegistryInv

(* A task is added to the queue of the connector. *)
LEMMA QueueAppend ==
  ASSUME conn \in ConnectorType, NEW x \in TaskType,
         conn' = [conn EXCEPT !.queue = Append(@, x)]
  PROVE  /\ conn' \in ConnectorType
         /\ conn'.listeners = conn.listeners /\ conn'.handler = conn.handler
         /\ Len(conn.queue) \in Nat
         /\ Queued' = Queued \cup {Len(conn.queue) + 1} /\ Len(conn.queue) + 1 \notin Queued
         /\ conn'.queue[Len(conn.queue) + 1] = x
         /\ \A i \in Queued : conn'.queue[i] = conn.queue[i] /\ i < Len(conn.queue) + 1
<1> DEFINE q == conn.queue
<1>1. q \in Seq(TaskType)
  BY DEF ConnectorType
<1>a. Append(q, x) \in Seq(TaskType)
  BY <1>1, AppendProperties
<1>b. conn' = [conn EXCEPT !.queue = Append(q, x)]
  OBVIOUS
<1>2. /\ conn' \in ConnectorType /\ conn'.queue = Append(q, x)
      /\ conn'.listeners = conn.listeners /\ conn'.handler = conn.handler
  <2> DEFINE r == Append(q, x)
  <2> HIDE DEF r
  <2> QED
    BY <1>a, <1>b DEF ConnectorType, r
<1> HIDE DEF q
<1>3. /\ Len(q) \in Nat /\ Len(Append(q, x)) = Len(q) + 1 /\ Append(q, x)[Len(q) + 1] = x
      /\ \A i \in 1 .. Len(q) : Append(q, x)[i] = q[i]
  BY ONLY <1>1, x \in TaskType, AppendIs
<1> QED
  BY <1>2, <1>3 DEF Queued, q

(* The first task is taken from it. *)
LEMMA QueueTail ==
  ASSUME conn \in ConnectorType, conn.queue # <<>>, conn'.queue = Tail(conn.queue)
  PROVE  /\ conn'.queue \in Seq(TaskType) /\ Head(conn.queue) \in TaskType
         /\ 1 \in Queued /\ Head(conn.queue) = conn.queue[1]
         /\ \A i \in Queued : i = 1 \/ (i - 1 \in Queued' /\ conn'.queue[i - 1] = conn.queue[i])
         /\ \A i \in Queued' : /\ i \in Int /\ i + 1 \in Queued /\ i + 1 # 1
                               /\ conn'.queue[i] = conn.queue[i + 1]
<1> DEFINE q == conn.queue
<1>1. q \in Seq(TaskType) /\ q # <<>> /\ conn'.queue = Tail(q)
  BY DEF ConnectorType
<1> HIDE DEF q
<1>2. /\ Tail(q) \in Seq(TaskType) /\ Len(q) \in Nat \ {0} /\ Len(Tail(q)) = Len(q) - 1
      /\ Head(q) = q[1] /\ Head(q) \in TaskType
      /\ \A i \in 1 .. Len(Tail(q)) : i + 1 \in 1 .. Len(q) /\ Tail(q)[i] = q[i + 1]
      /\ \A j \in 1 .. Len(q) : j = 1 \/ (j - 1 \in 1 .. Len(Tail(q)) /\ Tail(q)[j - 1] = q[j])
  BY ONLY <1>1, TailIs
<1>3. Queued = 1 .. Len(q) /\ Queued' = 1 .. Len(Tail(q)) /\ conn'.queue = Tail(q) /\ conn.queue = q
  BY <1>1 DEF Queued, q
<1> QED
  BY <1>2, <1>3

LEMMA RegisterEventHandlerKeeps ==
  ASSUME RegistryInv, NEW u \in Users, RegisterEventHandler(u),
         NEW t \in DataTypes, t = Head(user[u].todo), NEW n, n = reg.notify[t],
         NEW d, d = user[u].file
  PROVE  RegistryInv'
<1> DEFINE usable == d # NULL /\ d.available
           e == IF user[u].data = NULL THEN d ELSE user[u].data
           c == AddWait(user[u], t, n, e)
           w == [type |-> t, number |-> n, data |-> e]
           h == IF d = NULL THEN reg ELSE Store(reg, t, d, user[u].service, InCall)
           g == [h EXCEPT !.lock = NULL]
           x == Task(t, n, IF usable THEN d.revision ELSE Empty)
<1>1. /\ user[u] \in UserType /\ CallInv(u, user[u], reg) /\ reg \in RegistryType
      /\ InCall \in SUBSET Users /\ setup \in Setups /\ user[u].todo \in Seq(DataTypes)
      /\ user[u].waits \in Seq(WaitType) /\ notifies \in [DataTypes -> Seq(NotifyType)]
      /\ conn \in ConnectorType /\ fault = "none"
  BY CallFacts
<1>2. /\ user[u].pc = "register" /\ Step(u, c, g)
      /\ notifies' = IF usable THEN [notifies EXCEPT ![t][n].data = d] ELSE notifies
      /\ conn' = [conn EXCEPT !.queue = Append(@, x)]
      /\ fault' = UpdateFault(t, d, user[u].service)
      /\ UNCHANGED <<setup, files, persist, expire, breaker, server, bounds>>
  BY DEF RegisterEventHandler
<1>3. reg.lock = u /\ user[u].todo # <<>> /\ n # NULL
  BY <1>1, <1>2 DEF CallInv
<1>4. ~(setup.calm /\ Expiring) /\ u \in InCall
  BY <1>2 DEF RegistryInv, CalmInv, InCall
<1>5. n \in Nat /\ n \in 1 .. Len(notifies[t])
  BY <1>1, <1>3 DEF RegistryInv, NumberInv, RegistryType, OptNat
<1>6. d \in OptData /\ e \in OptData /\ user[u].service \in OptNat
  BY <1>1 DEF UserType
<1> HIDE DEF e
<1>7. t = "Instances" => user[u].service = reg.service /\ reg.service # NULL
  BY <1>1, <1>2, <1>3 DEF CallInv, RegistryInv, ServiceInv
<1>8. fault' = "none" /\ ~Dropped(t, user[u].service)
  BY <1>1, <1>2, <1>7 DEF UpdateFault, Dropped
<1>9. /\ h \in RegistryType
      /\ h.notify = reg.notify /\ h.service = reg.service
      /\ h.data = IF d = NULL THEN reg.data ELSE [reg.data EXCEPT ![t] = d]
      /\ h.context # NULL /\ h.context.instances # NULL =>
           (t = "Instances" \/ (reg.context # NULL /\ reg.context.instances # NULL))
      /\ h.recent.limit = IF t = "RateLimit" /\ d # NULL /\ reg.data[t] = NULL
                          THEN InCall ELSE reg.recent.limit
  <2>1. CASE d = NULL
    BY <1>1, <2>1
  <2>2. CASE d # NULL
    <3>1. h = Store(reg, t, d, user[u].service, InCall)
      BY <2>2
    <3> HIDE DEF h
    <3> DEFINE sv == user[u].service
    <3>2. sv \in OptNat /\ ~Dropped(t, sv) /\ h = Store(reg, t, d, sv, InCall)
      BY <1>6, <1>8, <3>1
    <3> HIDE DEF sv
    <3>3. /\ h \in RegistryType
          /\ h.notify = reg.notify /\ h.service = reg.service /\ h.lock = reg.lock
          /\ h.data = IF Dropped(t, sv) THEN reg.data ELSE [reg.data EXCEPT ![t] = d]
          /\ h.context # NULL
          /\ h.context.instances = IF t = "Instances" /\ sv # NULL THEN d
                                   ELSE IF reg.context = NULL THEN NULL ELSE reg.context.instances
          /\ h.recent.limit = IF t = "RateLimit" /\ d # NULL /\ reg.data[t] = NULL
                              THEN InCall ELSE reg.recent.limit
      BY <1>1, <1>6, <3>2, StoreEffect
    <3> QED
      BY <2>2, <3>2, <3>3
  <2> QED
    BY <2>1, <2>2
<1>10. x \in TaskType /\ x.type = t /\ x.number = n
  BY <1>5, <1>6 DEF Task, TaskType, OptNat, OptData, DataType, DataSet
<1>11. /\ c \in UserType /\ c.todo = Tail(user[u].todo)
       /\ c.waits = Append(user[u].waits, w)
       /\ c.pc = IF c.todo # <<>> THEN "get" ELSE "wait"
  <2> DEFINE o == user[u]
  <2>1. o \in UserType /\ o.todo # <<>> /\ n \in Nat /\ e \in OptData /\ t \in DataTypes
    BY <1>1, <1>3, <1>5, <1>6
  <2>2. c = AddWait(o, t, n, e)
    OBVIOUS
  <2> HIDE DEF o, c
  <2>3. /\ c \in UserType /\ c.todo = Tail(o.todo)
        /\ c.waits = Append(o.waits, [type |-> t, number |-> n, data |-> e])
        /\ c.pc = IF c.todo # <<>> THEN "get" ELSE "wait"
    BY ONLY <2>1, <2>2, AddWaitEffect
  <2> QED
    BY <2>3 DEF o
<1>12. w.type = t /\ w.number = n /\ w \in WaitType
  BY <1>5, <1>6 DEF WaitType
<1> HIDE DEF h, x, c, w
<1>13. /\ g \in RegistryType /\ g.lock = NULL
       /\ g.notify = h.notify /\ g.service = h.service /\ g.data = h.data
       /\ g.context = h.context /\ g.recent = h.recent
  BY <1>9 DEF RegistryType
<1> HIDE DEF g
<1>14. reg' = g /\ user' = [user EXCEPT ![u] = c]
  BY <1>2, <1>11 DEF Step
<1>15. user \in [Users -> UserType]
  BY DEF RegistryInv, TypeInv
<1>16. user' \in [Users -> UserType] /\ user'[u] = c /\ \A v \in Users \ {u} : user'[v] = user[v]
  BY <1>11, <1>14, <1>15
<1>17. /\ reg' \in RegistryType /\ reg'.lock = NULL
       /\ reg'.notify = reg.notify /\ reg'.service = reg.service
       /\ \A y \in DataTypes \ {t} : reg'.data[y] = reg.data[y]
       /\ reg'.data[t] = IF d = NULL THEN reg.data[t] ELSE d
       /\ reg'.context # NULL /\ reg'.context.instances # NULL =>
           (t = "Instances" \/ (reg.context # NULL /\ reg.context.instances # NULL))
       /\ reg'.recent.limit = IF t = "RateLimit" /\ d # NULL /\ reg.data[t] = NULL
                              THEN InCall ELSE reg.recent.limit
  BY <1>1, <1>9, <1>13, <1>14 DEF RegistryType
<1>18. /\ notifies' \in [DataTypes -> Seq(NotifyType)]
       /\ \A y \in DataTypes : /\ Len(notifies'[y]) = Len(notifies[y])
                               /\ \A i \in 1 .. Len(notifies[y]) :
                                    notifies'[y][i].live = notifies[y][i].live
  <2>1. CASE ~usable
    BY <1>1, <1>2, <2>1
  <2>2. CASE usable
    <3> DEFINE q == notifies[t]
               b == [q[n] EXCEPT !.data = d]
               r == [q EXCEPT ![n] = b]
    <3>1. q \in Seq(NotifyType) /\ n \in 1 .. Len(q) /\ q[n] \in NotifyType
      BY <1>1, <1>5
    <3>2. b \in NotifyType /\ b.live = q[n].live
      BY <1>6, <3>1 DEF NotifyType
    <3>3. notifies' = [notifies EXCEPT ![t] = r]
      BY <1>1, <1>2, <2>2
    <3> HIDE DEF b, q
    <3>4. /\ r \in Seq(NotifyType) /\ Len(r) = Len(q)
          /\ \A i \in 1 .. Len(q) : r[i] = IF i = n THEN b ELSE q[i]
      BY <3>1, <3>2, ExceptSeq
    <3> HIDE DEF r
    <3>5. notifies' \in [DataTypes -> Seq(NotifyType)]
      BY <1>1, <3>3, <3>4
    <3>6. \A y \in DataTypes \ {t} : notifies'[y] = notifies[y]
      BY <1>1, <3>3
    <3>7. notifies'[t] = r
      BY <1>1, <3>3
    <3> QED
      BY <3>2, <3>4, <3>5, <3>6, <3>7 DEF q
  <2> QED
    BY <2>1, <2>2
<1>m. PICK m : m = Len(conn.queue) + 1
  OBVIOUS
<1>19. /\ conn' \in ConnectorType
       /\ conn'.listeners = conn.listeners /\ conn'.handler = conn.handler
       /\ Queued' = Queued \cup {m} /\ m \notin Queued /\ conn'.queue[m] = x
       /\ \A i \in Queued : conn'.queue[i] = conn.queue[i] /\ i < m
  BY <1>1, <1>2, <1>10, <1>m, QueueAppend
<1>20. TypeInv'
  BY <1>2, <1>16, <1>17, <1>18, <1>19 DEF RegistryInv, TypeInv
<1>21. /\ Len(user[u].waits) \in Nat /\ Len(c.waits) = Len(user[u].waits) + 1
       /\ c.waits[Len(user[u].waits) + 1] = w /\ c.waits # <<>>
       /\ \A i \in 1 .. Len(user[u].waits) : c.waits[i] = user[u].waits[i]
  <2> DEFINE q == user[u].waits
  <2>1. q \in Seq(WaitType) /\ w \in WaitType /\ c.waits = Append(q, w)
    BY <1>1, <1>11, <1>12
  <2> HIDE DEF q
  <2>2. /\ Len(q) \in Nat /\ Len(c.waits) = Len(q) + 1 /\ c.waits[Len(q) + 1] = w
        /\ c.waits # <<>> /\ \A i \in 1 .. Len(q) : c.waits[i] = q[i]
    BY ONLY <2>1, AppendIs
  <2> QED
    BY <2>2 DEF q
<1>22. Uses(c, "RateLimit") => Uses(user[u], "RateLimit")
  <2>1. ASSUME NEW i \in 1 .. Len(c.waits), c.waits[i].type = "RateLimit"
        PROVE  Uses(user[u], "RateLimit")
    <3>1. CASE i = Len(user[u].waits) + 1
      <4>1. t = "RateLimit"
        BY <1>12, <1>21, <2>1, <3>1
      <4> QED
        BY <1>2, <4>1 DEF Uses, Loads
    <3>2. CASE i \in 1 .. Len(user[u].waits)
      BY <1>21, <2>1, <3>2 DEF Uses, Waits
    <3> QED
      BY <1>21, <3>1, <3>2
  <2>2. ~Loads(c, "RateLimit")
    BY <1>11 DEF Loads
  <2> QED
    BY <2>1, <2>2 DEF Uses, Waits
<1>23. reg'.data["RateLimit"] # NULL =>
         \/ InCall \subseteq reg'.recent.limit
         \/ reg.data["RateLimit"] # NULL /\ reg'.recent.limit = reg.recent.limit
  <2>1. "RateLimit" \in DataTypes
    BY DEF DataTypes
  <2> QED
    BY <1>17, <2>1
<1>24. CallsInv'
  <2>1. ASSUME NEW v \in Users \ {u} PROVE CallInv(v, user[v], reg)'
    <3>1. reg.lock # v /\ g.lock # v
      BY <1>3, <1>13, NullIsNoObject
    <3> QED
      BY <1>2, <1>13, <1>14, <1>16, <1>17, <1>23, <3>1, OtherCall
  <2>2. \A i \in 1 .. Len(c.waits) :
          g.notify[c.waits[i].type] # NULL /\ c.waits[i].number = g.notify[c.waits[i].type]
    <3>1. ASSUME NEW i \in 1 .. Len(user[u].waits)
          PROVE  g.notify[c.waits[i].type] # NULL /\ c.waits[i].number = g.notify[c.waits[i].type]
      BY <1>1, <1>14, <1>17, <1>21 DEF CallInv
    <3>2. /\ g.notify[c.waits[Len(user[u].waits) + 1].type] # NULL
          /\ c.waits[Len(user[u].waits) + 1].number = g.notify[c.waits[Len(user[u].waits) + 1].type]
      BY <1>3, <1>12, <1>14, <1>17, <1>21
    <3> QED
      BY <1>21, <3>1, <3>2
  <2>3. g.data["RateLimit"] # NULL /\ Uses(c, "RateLimit") => u \in g.recent.limit
    BY <1>1, <1>4, <1>14, <1>22, <1>23 DEF CallInv
  <2>4. ~setup.calm => c.todo \in Seq({"RateLimit"})
    <3>1. ~setup.calm => user[u].todo \in Seq({"RateLimit"})
      BY <1>1 DEF CallInv
    <3>2. ~setup.calm => Tail(user[u].todo) \in Seq({"RateLimit"})
      BY <1>3, <3>1
    <3> QED
      BY <1>11, <3>2
  <2>5. CallInv(u, c, g)
    BY <1>1, <1>11, <1>13, <1>21, <1>22, <2>2, <2>3, <2>4, NullIsNoObject DEF CallInv
  <2>6. CallInv(u, user[u], reg)'
    BY <1>2, <1>14, <1>16, <2>5 DEF CallInv, Uses, Loads, Waits
  <2> QED
    BY <2>1, <2>6 DEF CallsInv
<1>25. \A y \in DataTypes : ~Holder(y)' /\ (Holder(y) <=> y = t)
  BY <1>3, <1>17, NullIsNoObject DEF Holder
<1>26. /\ \A y \in DataTypes : Leaving(y)' <=> Leaving(y)
       /\ \A i \in Queued, y \in DataTypes : 
         (DeregAt(i, y)' <=> DeregAt(i, y)) /\ (RegAt(i, y)' <=> RegAt(i, y))
       /\ \A y \in DataTypes : ~DeregAt(m, y)' /\ (RegAt(m, y)' <=> y = t)
  BY <1>3, <1>10, <1>19 DEF Leaving, DeregAt, RegAt
<1>27. \A y \in DataTypes : Dereg(y)' <=> Dereg(y)
  BY <1>19, <1>26 DEF Dereg
<1>28. \A i \in Queued : conn.queue[i].type = t => conn.queue[i].number = NULL
  <2>1. HandlerInv(t) /\ Holder(t)
    BY <1>25 DEF RegistryInv, HandlersInv
  <2> QED
    BY <2>1 DEF HandlerInv, RegAt
<1>29. OrderInv'
  <2>1. OrderInv
    BY DEF RegistryInv
  <2>2. ASSUME NEW i \in Queued', NEW j \in Queued', i < j,
               conn'.queue[i].type = conn'.queue[j].type
        PROVE  conn'.queue[i].number = NULL /\ conn'.queue[j].number # NULL
    <3>1. i \in Queued
      BY <1>19, <2>2 DEF Queued
    <3>2. CASE j = m
      BY <1>3, <1>10, <1>19, <1>28, <2>2, <3>1, <3>2
    <3>3. CASE j \in Queued
      BY <1>19, <2>1, <2>2, <3>1, <3>3 DEF OrderInv
    <3> QED
      BY <1>19, <3>2, <3>3
  <2>3. \A y \in DataTypes : Leaving(y)' => \A i \in Queued' : ~DeregAt(i, y)'
    BY <1>19, <1>26, <2>1 DEF OrderInv
  <2> QED
    BY <1>19, <2>1, <2>2, <2>3 DEF OrderInv
<1>30. HandlersInv'
  <2>1. ASSUME NEW y \in DataTypes PROVE HandlerInv(y)'
    <3>1. HandlerInv(y)
      BY DEF RegistryInv, HandlersInv
    <3>2. \A i \in Queued : RegAt(i, y) =>
            /\ conn'.queue[i].number = reg'.notify[y]
            /\ conn'.listeners[y] = NULL \/ Dereg(y)'
      BY <1>17, <1>19, <1>27, <3>1 DEF HandlerInv
    <3>3. y = t => /\ conn'.queue[m].number = reg'.notify[y]
                   /\ conn'.listeners[y] = NULL \/ Dereg(y)'
      BY <1>10, <1>17, <1>19, <1>25, <1>27, <3>1 DEF HandlerInv
    <3>4. reg'.notify[y] # NULL =>
            \/ \E i \in Queued' : RegAt(i, y)'
            \/ conn'.listeners[y] # NULL /\ ~Dereg(y)'
      BY <1>17, <1>19, <1>25, <1>26, <1>27, <3>1 DEF HandlerInv
    <3>5. /\ Dereg(y)' => conn'.listeners[y] # NULL /\ conn'.listeners[y].number # reg'.notify[y]
          /\ conn'.listeners[y] # NULL /\ ~Dereg(y)' => reg'.notify[y] = conn'.listeners[y].number
      BY <1>17, <1>19, <1>27, <3>1 DEF HandlerInv
    <3> QED
      BY <1>19, <1>25, <1>26, <3>2, <3>3, <3>4, <3>5 DEF HandlerInv
  <2> QED
    BY <2>1 DEF HandlersInv
<1>31. NumberInv'
  BY <1>17, <1>18, <1>19 DEF RegistryInv, NumberInv
<1>32. ~setup.calm => t = "RateLimit"
  BY <1>1, <1>3 DEF CallInv
<1>33. \A y \in DataTypes \ {t} : NoTask(y)' <=> NoTask(y)
  BY <1>10, <1>19, <1>26 DEF NoTask
<1>34. CalmInv'
  <2>1. Expiring' => Expiring
    BY <1>1, <1>2, <1>19, <1>27, ExpiringIs
  <2> QED
    BY <1>2, <1>4, <2>1 DEF CalmInv
<1>35. QuietInv'
  BY <1>2, <1>17, <1>19, <1>32, <1>33 DEF RegistryInv, QuietInv
<1>36. ExpireInv'
  <2>1. expire = "RateLimit" => t # "RateLimit"
    BY <1>1, <1>2 DEF CallInv, Uses, Loads
  <2>2. expire \in {"Instances", "RouteRule"} => t = "RateLimit"
    BY <1>4, <1>32 DEF Expiring
  <2> QED
    BY <1>2, <1>3, <1>17, <1>33, <2>1, <2>2, NullIsNoObject
    DEF RegistryInv, ExpireInv, DataTypes
<1>37. ServiceInv'
  BY <1>2, <1>17, <1>19 DEF RegistryInv, ServiceInv
<1>38. DataInv'
  <2>1. Dereg("Instances") => t # "Instances"
    <3>1. Dereg("Instances") => Expiring
      BY <1>1, ExpiringIs DEF DataTypes
    <3> QED
      BY <1>4, <1>32, <3>1
  <2>2. \A y \in DataTypes : reg'.data[y] # NULL => reg'.notify[y] # NULL \/ Dereg(y)'
    BY <1>3, <1>17, <1>27 DEF RegistryInv, DataInv
  <2> QED
    BY <1>2, <1>3, <1>17, <1>19, <1>27, <2>1, <2>2 DEF RegistryInv, DataInv, DataTypes
<1> QED
  BY <1>8, <1>20, <1>24, <1>29, <1>30, <1>31, <1>34, <1>35, <1>36, <1>37, <1>38 DEF RegistryInv

-----------------------------------------------------------------------------
(* The reactor of the server connector. *)

LEMMA CallsFrame ==
  ASSUME CallsInv, UNCHANGED <<setup, reg, expire, user>>
  PROVE  CallsInv' /\ (\A t \in DataTypes : Holder(t)' <=> Holder(t)) /\ InCall' = InCall
BY DEF CallsInv, CallInv, Uses, Loads, Waits, Holder, InCall

(* The first task and what is behind it. *)
LEMMA FirstTask ==
  ASSUME RegistryInv, conn.queue # <<>>, conn.handler = NULL,
         NEW t, t = Head(conn.queue).type, NEW n, n = Head(conn.queue).number
  PROVE  /\ t \in DataTypes /\ n \in OptNat /\ 1 \in Queued /\ conn.queue[1] = Head(conn.queue)
         /\ Head(conn.queue) \in TaskType
         /\ \A i \in Queued : i # 1 /\ conn.queue[i].type = t => n = NULL /\ conn.queue[i].number # NULL
         /\ n # NULL => n = reg.notify[t] /\ ~Holder(t) /\ conn.listeners[t] = NULL /\ ~Dereg(t)
         /\ n = NULL => Dereg(t) /\ conn.listeners[t] # NULL
         /\ ~NoTask(t)
         /\ ~setup.calm => t = "RateLimit"
<1>1. conn \in ConnectorType /\ OrderInv /\ HandlersInv /\ QuietInv
  BY DEF RegistryInv, TypeInv
<1>2. /\ conn.queue \in Seq(TaskType) /\ Len(conn.queue) \in Nat \ {0}
      /\ Head(conn.queue) = conn.queue[1] /\ Head(conn.queue) \in TaskType
  <2>1. conn.queue \in Seq(TaskType)
    BY <1>1 DEF ConnectorType
  <2> QED
    BY <2>1
<1>3. 1 \in Queued /\ \A i \in Queued : i # 1 => 1 < i
  BY <1>2 DEF Queued
<1>4. t \in DataTypes /\ n \in OptNat
  BY <1>2 DEF TaskType
<1>5. \A i \in Queued : i # 1 /\ conn.queue[i].type = t => n = NULL /\ conn.queue[i].number # NULL
  BY <1>1, <1>2, <1>3 DEF OrderInv
<1>6. ~Leaving(t) /\ HandlerInv(t)
  BY <1>1, <1>4 DEF Leaving, HandlersInv
<1>7. n # NULL => RegAt(1, t) /\ \A i \in Queued : ~DeregAt(i, t)
  BY <1>2, <1>5 DEF RegAt, DeregAt
<1>8. n = NULL => DeregAt(1, t)
  BY <1>2 DEF DeregAt
<1>9. n # NULL => ~Dereg(t)
  BY <1>6, <1>7 DEF Dereg
<1>10. n = NULL => Dereg(t)
  BY <1>3, <1>8 DEF Dereg
<1>11. n # NULL => n = reg.notify[t] /\ ~Holder(t) /\ conn.listeners[t] = NULL
  BY <1>2, <1>3, <1>6, <1>7, <1>9 DEF HandlerInv
<1>12. n = NULL => conn.listeners[t] # NULL
  BY <1>6, <1>10 DEF HandlerInv
<1>13. ~NoTask(t)
  BY <1>2, <1>3 DEF NoTask
<1>14. ~setup.calm => t = "RateLimit"
  BY <1>1, <1>4, <1>13 DEF QuietInv
<1> QED
  BY <1>2, <1>3, <1>4, <1>5, <1>9, <1>10, <1>11, <1>12, <1>13, <1>14

(* The tasks of another type when the first one is taken. *)
LEMMA OthersBehind ==
  ASSUME conn \in ConnectorType, conn.queue # <<>>, conn'.queue = Tail(conn.queue)
  PROVE  /\ \A i \in Queued', y \in DataTypes :
              (RegAt(i, y)' <=> RegAt(i + 1, y)) /\ (DeregAt(i, y)' <=> DeregAt(i + 1, y))
         /\ \A y \in DataTypes : y # Head(conn.queue).type =>
              /\ (\E i \in Queued' : DeregAt(i, y)') <=> (\E i \in Queued : DeregAt(i, y))
              /\ (\E i \in Queued' : RegAt(i, y)') <=> (\E i \in Queued : RegAt(i, y))
              /\ (\A i \in Queued' : conn'.queue[i].type # y) <=> (\A i \in Queued : conn.queue[i].type # y)
<1>1. /\ conn'.queue \in Seq(TaskType) /\ Head(conn.queue) \in TaskType
      /\ 1 \in Queued /\ Head(conn.queue) = conn.queue[1]
      /\ \A i \in Queued : i = 1 \/ (i - 1 \in Queued' /\ conn'.queue[i - 1] = conn.queue[i])
      /\ \A i \in Queued' : i + 1 \in Queued /\ conn'.queue[i] = conn.queue[i + 1]
  BY QueueTail
<1>2. ASSUME NEW y \in DataTypes, y # Head(conn.queue).type
      PROVE  \A i \in Queued : conn.queue[i].type = y =>
               i - 1 \in Queued' /\ conn'.queue[i - 1] = conn.queue[i]
  BY <1>1, <1>2
<1>3. \A i \in Queued', y \in DataTypes :
        (RegAt(i, y)' <=> RegAt(i + 1, y)) /\ (DeregAt(i, y)' <=> DeregAt(i + 1, y))
  BY <1>1 DEF RegAt, DeregAt
<1>4. ASSUME NEW y \in DataTypes, y # Head(conn.queue).type
      PROVE  /\ (\E i \in Queued' : DeregAt(i, y)') <=> (\E i \in Queued : DeregAt(i, y))
             /\ (\E i \in Queued' : RegAt(i, y)') <=> (\E i \in Queued : RegAt(i, y))
             /\ (\A i \in Queued' : conn'.queue[i].type # y) <=> (\A i \in Queued : conn.queue[i].type # y)
  <2>1. \A i \in Queued : conn.queue[i].type = y => i - 1 \in Queued' /\ conn'.queue[i - 1] = conn.queue[i]
    BY <1>2, <1>4
  <2>2. \A i \in Queued : conn.queue[i].type = y => \E j \in Queued' : conn'.queue[j] = conn.queue[i]
    BY <2>1
  <2>3. \A j \in Queued' : \E i \in Queued : conn'.queue[j] = conn.queue[i]
    BY <1>1
  <2>4. (\E i \in Queued' : DeregAt(i, y)') <=> (\E i \in Queued : DeregAt(i, y))
    <3>1. ASSUME NEW i \in Queued, DeregAt(i, y) PROVE \E j \in Queued' : DeregAt(j, y)'
      <4>1. PICK j \in Queued' : conn'.queue[j] = conn.queue[i]
        BY <2>2, <3>1 DEF DeregAt
      <4> QED
        BY <3>1, <4>1 DEF DeregAt
    <3>2. ASSUME NEW j \in Queued', DeregAt(j, y)' PROVE \E i \in Queued : DeregAt(i, y)
      <4>1. PICK i \in Queued : conn'.queue[j] = conn.queue[i]
        BY <2>3
      <4> QED
        BY <3>2, <4>1 DEF DeregAt
    <3> QED
      BY <3>1, <3>2
  <2>5. (\E i \in Queued' : RegAt(i, y)') <=> (\E i \in Queued : RegAt(i, y))
    <3>1. ASSUME NEW i \in Queued, RegAt(i, y) PROVE \E j \in Queued' : RegAt(j, y)'
      <4>1. PICK j \in Queued' : conn'.queue[j] = conn.queue[i]
        BY <2>2, <3>1 DEF RegAt
      <4> QED
        BY <3>1, <4>1 DEF RegAt
    <3>2. ASSUME NEW j \in Queued', RegAt(j, y)' PROVE \E i \in Queued : RegAt(i, y)
      <4>1. PICK i \in Queued : conn'.queue[j] = conn.queue[i]
        BY <2>3
      <4> QED
        BY <3>2, <4>1 DEF RegAt
    <3> QED
      BY <3>1, <3>2
  <2>6. (\A i \in Queued' : conn'.queue[i].type # y) <=> (\A i \in Queued : conn.queue[i].type # y)
    BY <2>2, <2>3
  <2> QED
    BY <2>4, <2>5, <2>6
<1> QED
  BY <1>3, <1>4

LEMMA OrderBehind ==
  ASSUME RegistryInv, conn.queue # <<>>, conn'.queue = Tail(conn.queue)
  PROVE  \A i, j \in Queued' :
           i < j /\ conn'.queue[i].type = conn'.queue[j].type =>
             conn'.queue[i].number = NULL /\ conn'.queue[j].number # NULL
<1>1. conn \in ConnectorType
  BY DEF RegistryInv, TypeInv
<1>2. \A i \in Queued' : i + 1 \in Queued /\ conn'.queue[i] = conn.queue[i + 1] /\ i \in Int
  BY <1>1, QueueTail
<1>3. ASSUME NEW i \in Queued', NEW j \in Queued', i < j,
             conn'.queue[i].type = conn'.queue[j].type
      PROVE  conn'.queue[i].number = NULL /\ conn'.queue[j].number # NULL
  <2>1. i + 1 \in Queued /\ j + 1 \in Queued /\ i + 1 < j + 1
    BY <1>2, <1>3
  <2>2. conn.queue[i + 1].type = conn.queue[j + 1].type
    BY <1>2, <1>3
  <2>3. conn.queue[i + 1].number = NULL /\ conn.queue[j + 1].number # NULL
    BY <2>1, <2>2 DEF RegistryInv, OrderInv
  <2> QED
    BY <1>2, <2>3
<1> QED
  BY <1>3

LEMMA RegisterKeeps ==
  ASSUME RegistryInv, Register, NEW t, t = Head(conn.queue).type, NEW n, n = Head(conn.queue).number
  PROVE  RegistryInv'
<1> DEFINE l == [number |-> n, revision |-> Head(conn.queue).revision, missing |-> FALSE]
           f == [conn.listeners EXCEPT ![t] = l]
<1>1. conn \in ConnectorType /\ TypeInv
  BY DEF RegistryInv, TypeInv
<1>2. /\ conn.handler = NULL /\ conn.queue # <<>> /\ n # NULL
      /\ conn' = [conn EXCEPT !.queue = Tail(@), !.listeners[t] = l]
      /\ fault' = IF conn.listeners[t] = NULL THEN fault ELSE "assertion"
      /\ UNCHANGED <<setup, reg, notifies, files, persist, expire, user, breaker, server, bounds>>
  BY DEF Register
<1>3. /\ t \in DataTypes /\ n \in OptNat /\ Head(conn.queue) \in TaskType
      /\ \A i \in Queued : i # 1 => conn.queue[i].type # t
      /\ n = reg.notify[t] /\ ~Holder(t) /\ conn.listeners[t] = NULL /\ ~Dereg(t)
      /\ ~NoTask(t) /\ (~setup.calm => t = "RateLimit")
  BY <1>2, FirstTask
<1>4. fault' = "none"
  BY <1>2, <1>3 DEF RegistryInv
<1>5. l \in ListenerType /\ l.number = n /\ l # NULL
  <2>1. n \in Nat /\ Head(conn.queue).revision \in Revisions \cup {Empty}
    BY <1>2, <1>3 DEF OptNat, TaskType
  <2>2. l \in ListenerType /\ l.number = n
    BY <2>1 DEF ListenerType
  <2> QED
    BY <2>2, NullIsNoObject
<1>6. /\ f \in [DataTypes -> ListenerType \cup {NULL}] /\ f[t] = l
      /\ \A y \in DataTypes \ {t} : f[y] = conn.listeners[y]
  BY <1>1, <1>3, <1>5 DEF ConnectorType
<1>7. Tail(conn.queue) \in Seq(TaskType)
  <2>1. conn.queue \in Seq(TaskType)
    BY <1>1 DEF ConnectorType
  <2> QED
    BY <1>2, <2>1
<1>8. conn' = [conn EXCEPT !.queue = Tail(conn.queue), !.listeners = f]
  BY <1>1, <1>2 DEF ConnectorType
<1> HIDE DEF l, f
<1>9. /\ conn' \in ConnectorType /\ conn'.queue = Tail(conn.queue) /\ conn'.listeners = f
      /\ conn'.handler = NULL
  BY <1>1, <1>2, <1>6, <1>7, <1>8 DEF ConnectorType
<1>10. TypeInv'
  BY <1>1, <1>2, <1>9 DEF TypeInv
<1>11. CallsInv' /\ (\A y \in DataTypes : Holder(y)' <=> Holder(y)) /\ InCall' = InCall
  BY <1>2, CallsFrame DEF RegistryInv
<1>12. /\ \A i \in Queued' : conn'.queue[i].type # t /\ i + 1 \in Queued /\ conn'.queue[i] = conn.queue[i + 1]
       /\ \A i \in Queued', y \in DataTypes : RegAt(i, y)' <=> RegAt(i + 1, y)
       /\ \A y \in DataTypes \ {t} :
            /\ (\E i \in Queued' : DeregAt(i, y)') <=> (\E i \in Queued : DeregAt(i, y))
            /\ (\E i \in Queued' : RegAt(i, y)') <=> (\E i \in Queued : RegAt(i, y))
            /\ (\A i \in Queued' : conn'.queue[i].type # y) <=> (\A i \in Queued : conn.queue[i].type # y)
  <2>1. \A i \in Queued' : i + 1 \in Queued /\ i + 1 # 1 /\ conn'.queue[i] = conn.queue[i + 1]
    BY <1>1, <1>2, <1>9, QueueTail
  <2>2. \A i \in Queued' : conn'.queue[i].type # t
    BY <1>3, <2>1
  <2>3. /\ \A i \in Queued', y \in DataTypes : RegAt(i, y)' <=> RegAt(i + 1, y)
        /\ \A y \in DataTypes \ {t} :
             /\ (\E i \in Queued' : DeregAt(i, y)') <=> (\E i \in Queued : DeregAt(i, y))
             /\ (\E i \in Queued' : RegAt(i, y)') <=> (\E i \in Queued : RegAt(i, y))
             /\ (\A i \in Queued' : conn'.queue[i].type # y) <=> (\A i \in Queued : conn.queue[i].type # y)
    BY <1>1, <1>2, <1>9, OthersBehind
  <2> QED
    BY <2>1, <2>2, <2>3
<1>13. \A y \in DataTypes : ~Leaving(y) /\ ~Leaving(y)'
  BY <1>2, <1>9 DEF Leaving
<1>14. \A y \in DataTypes : Dereg(y)' <=> Dereg(y)
  <2>1. ~Dereg(t)'
    BY <1>3, <1>12, <1>13 DEF Dereg, DeregAt
  <2> QED
    BY <1>3, <1>12, <1>13, <2>1 DEF Dereg
<1>15. OrderInv'
  BY <1>2, <1>9, <1>13, OrderBehind DEF OrderInv
<1>16. HandlersInv'
  <2>1. ASSUME NEW y \in DataTypes, y # t PROVE HandlerInv(y)'
    <3>1. HandlerInv(y)
      BY DEF RegistryInv, HandlersInv
    <3>2. conn'.listeners[y] = conn.listeners[y] /\ reg' = reg
      BY <1>2, <1>6, <1>9, <2>1
    <3>3. \A i \in Queued' : RegAt(i, y)' =>
            /\ conn'.queue[i].number = reg'.notify[y] /\ ~Holder(y)
            /\ conn.listeners[y] = NULL \/ Dereg(y)
      BY <1>12, <3>1, <3>2 DEF HandlerInv
    <3> QED
      BY <1>11, <1>12, <1>14, <2>1, <3>1, <3>2, <3>3 DEF HandlerInv
  <2>2. HandlerInv(t)'
    <3>1. \A i \in Queued' : ~RegAt(i, t)'
      BY <1>12 DEF RegAt
    <3>2. ~Dereg(t)' /\ ~Holder(t)'
      BY <1>3, <1>11, <1>14
    <3>3. conn'.listeners[t] = l /\ reg' = reg
      BY <1>2, <1>6, <1>9
    <3> QED
      BY <1>3, <1>5, <3>1, <3>2, <3>3 DEF HandlerInv
  <2> QED
    BY <2>1, <2>2 DEF HandlersInv
<1>17. NumberInv'
  BY <1>2, <1>3, <1>5, <1>6, <1>9 DEF RegistryInv, NumberInv
<1>18. CalmInv'
  <2>1. Expiring' => Expiring
    BY <1>1, <1>2, <1>9, <1>14, ExpiringIs
  <2> QED
    BY <1>2, <1>9, <1>11, <2>1 DEF RegistryInv, CalmInv
<1>19. \A y \in DataTypes : NoTask(y) => y # t /\ NoTask(y)'
  BY <1>3, <1>12, <1>13 DEF NoTask
<1>20. QuietInv'
  BY <1>2, <1>3, <1>6, <1>9, <1>19 DEF RegistryInv, QuietInv
<1>21. ExpireInv'
  BY <1>2, <1>19 DEF RegistryInv, ExpireInv, DataTypes
<1>22. ServiceInv' /\ DataInv'
  BY <1>2, <1>9, <1>14 DEF RegistryInv, ServiceInv, DataInv, DataTypes
<1> QED
  BY <1>4, <1>10, <1>11, <1>15, <1>16, <1>17, <1>18, <1>20, <1>21, <1>22 DEF RegistryInv

LEMMA DeregisterKeeps ==
  ASSUME RegistryInv, Deregister, NEW t, t = Head(conn.queue).type
  PROVE  RegistryInv'
<1> DEFINE h == [type |-> t, data |-> NULL, service |-> reg.service]
<1>1. conn \in ConnectorType /\ TypeInv /\ reg \in RegistryType
  BY DEF RegistryInv, TypeInv
<1>2. /\ conn.handler = NULL /\ conn.queue # <<>> /\ Head(conn.queue).number = NULL
      /\ conn' = [conn EXCEPT !.queue = Tail(@), !.handler = h]
      /\ fault' = IF conn.listeners[t] # NULL THEN fault ELSE "assertion"
      /\ UNCHANGED <<setup, reg, notifies, files, persist, expire, user, breaker, server, bounds>>
  BY DEF Deregister, Handler
<1>3. /\ t \in DataTypes
      /\ \A i \in Queued : i # 1 /\ conn.queue[i].type = t => conn.queue[i].number # NULL
      /\ Dereg(t) /\ conn.listeners[t] # NULL
      /\ ~NoTask(t) /\ (~setup.calm => t = "RateLimit")
  BY <1>2, FirstTask
<1>4. fault' = "none"
  BY <1>2, <1>3 DEF RegistryInv
<1>5. h \in HandlerType /\ h # NULL /\ h.type = t /\ h.data = NULL
  <2>1. h \in HandlerType /\ h.type = t /\ h.data = NULL
    BY <1>1, <1>3 DEF HandlerType, RegistryType, OptData
  <2> QED
    BY <2>1, NullIsNoObject
<1>6. Tail(conn.queue) \in Seq(TaskType)
  <2>1. conn.queue \in Seq(TaskType)
    BY <1>1 DEF ConnectorType
  <2> QED
    BY <1>2, <2>1
<1> HIDE DEF h
<1>7. /\ conn' \in ConnectorType /\ conn'.queue = Tail(conn.queue)
      /\ conn'.listeners = conn.listeners /\ conn'.handler = h
  BY <1>1, <1>2, <1>5, <1>6 DEF ConnectorType
<1>8. TypeInv'
  BY <1>1, <1>2, <1>7 DEF TypeInv
<1>9. CallsInv' /\ (\A y \in DataTypes : Holder(y)' <=> Holder(y)) /\ InCall' = InCall
  BY <1>2, CallsFrame DEF RegistryInv
<1>10. /\ \A i \in Queued' : i + 1 \in Queued /\ i + 1 # 1 /\ conn'.queue[i] = conn.queue[i + 1]
       /\ \A i \in Queued : i = 1 \/ (i - 1 \in Queued' /\ conn'.queue[i - 1] = conn.queue[i])
       /\ conn.queue[1].number = NULL
  BY <1>1, <1>2, <1>7, QueueTail
<1>11. /\ \A i \in Queued', y \in DataTypes : RegAt(i, y)' <=> RegAt(i + 1, y)
       /\ \A y \in DataTypes \ {t} :
            /\ (\E i \in Queued' : DeregAt(i, y)') <=> (\E i \in Queued : DeregAt(i, y))
            /\ (\A i \in Queued' : conn'.queue[i].type # y) <=> (\A i \in Queued : conn.queue[i].type # y)
  BY <1>1, <1>2, <1>7, OthersBehind
<1>12. \A y \in DataTypes : (\E i \in Queued : RegAt(i, y)) => \E i \in Queued' : RegAt(i, y)'
  <2>1. ASSUME NEW y \in DataTypes, NEW i \in Queued, RegAt(i, y)
        PROVE  \E j \in Queued' : RegAt(j, y)'
    <3>1. i - 1 \in Queued' /\ conn'.queue[i - 1] = conn.queue[i]
      BY <1>10, <2>1 DEF RegAt
    <3>2. RegAt(i - 1, y)'
      BY <2>1, <3>1 DEF RegAt
    <3> QED
      BY <3>1, <3>2
  <2> QED
    BY <2>1
<1>13. \A i \in Queued' : ~DeregAt(i, t)'
  BY <1>3, <1>10 DEF DeregAt
<1>14. \A y \in DataTypes : ~Leaving(y) /\ (Leaving(y)' <=> y = t)
  BY <1>2, <1>5, <1>7 DEF Leaving
<1>15. \A y \in DataTypes : Dereg(y)' <=> Dereg(y)
  BY <1>3, <1>11, <1>14 DEF Dereg
<1>16. OrderInv'
  BY <1>2, <1>3, <1>5, <1>7, <1>13, <1>14, OrderBehind DEF OrderInv
<1>17. HandlersInv'
  <2>1. ASSUME NEW y \in DataTypes PROVE HandlerInv(y)'
    <3>1. HandlerInv(y)
      BY DEF RegistryInv, HandlersInv
    <3>2. \A i \in Queued' : RegAt(i, y)' =>
            /\ conn'.queue[i].number = reg.notify[y] /\ ~Holder(y)
            /\ conn.listeners[y] = NULL \/ Dereg(y)
      BY <1>10, <1>11, <3>1 DEF HandlerInv
    <3> QED
      BY <1>2, <1>7, <1>9, <1>12, <1>15, <3>1, <3>2 DEF HandlerInv
  <2> QED
    BY <2>1 DEF HandlersInv
<1>18. NumberInv'
  BY <1>2, <1>7 DEF RegistryInv, NumberInv
<1>19. CalmInv'
  <2>1. Expiring' => Expiring
    BY <1>1, <1>2, <1>7, <1>15, ExpiringIs
  <2> QED
    BY <1>2, <1>5, <1>7, <1>9, <2>1 DEF RegistryInv, CalmInv
<1>20. \A y \in DataTypes : NoTask(y) => y # t /\ NoTask(y)'
  BY <1>3, <1>11, <1>14 DEF NoTask
<1>21. QuietInv'
  BY <1>2, <1>3, <1>5, <1>7, <1>20 DEF RegistryInv, QuietInv
<1>22. ExpireInv'
  BY <1>2, <1>20 DEF RegistryInv, ExpireInv, DataTypes
<1>23. ServiceInv' /\ DataInv'
  BY <1>2, <1>5, <1>7, <1>15 DEF RegistryInv, ServiceInv, DataInv, DataTypes
<1> QED
  BY <1>4, <1>8, <1>9, <1>16, <1>17, <1>18, <1>19, <1>21, <1>22, <1>23 DEF RegistryInv

LEMMA ProcessDiscoverResponseKeeps ==
  ASSUME RegistryInv, NEW t \in DataTypes, ProcessDiscoverResponse(t)
  PROVE  RegistryInv'
<1> DEFINE o == conn.listeners[t]
           l == [o EXCEPT !.missing = server[t] = NotFound,
                          !.revision = IF server[t] = NotFound THEN Empty ELSE server[t]]
           f == [conn.listeners EXCEPT ![t] = l]
           h == [type |-> t, data |-> Synced(server[t]), service |-> reg.service]
<1>1. conn \in ConnectorType /\ TypeInv /\ reg \in RegistryType /\ server[t] \in Revisions \cup {NotFound}
  BY DEF RegistryInv, TypeInv
<1>2. /\ conn.handler = NULL /\ o # NULL /\ (setup.calm => ~Expiring)
      /\ conn' = [conn EXCEPT
           !.listeners[t].missing = server[t] = NotFound,
           !.listeners[t].revision = IF server[t] = NotFound THEN Empty ELSE server[t],
           !.handler = h]
      /\ UNCHANGED <<setup, reg, notifies, files, persist, expire, user, breaker, server, bounds, fault>>
  BY DEF ProcessDiscoverResponse, Handler
<1>3. o \in ListenerType
  BY <1>1, <1>2 DEF ConnectorType
<1>4. l \in ListenerType /\ l.number = o.number /\ l # NULL
  <2>1. (server[t] = NotFound) \in BOOLEAN
    OBVIOUS
  <2>2. l \in ListenerType /\ l.number = o.number
    BY <1>1, <1>3, <2>1 DEF ListenerType
  <2> QED
    BY <2>2, NullIsNoObject
<1>5. /\ f \in [DataTypes -> ListenerType \cup {NULL}] /\ f[t] = l
      /\ \A y \in DataTypes \ {t} : f[y] = conn.listeners[y]
  BY <1>1, <1>4 DEF ConnectorType
<1>6. h \in HandlerType /\ h # NULL /\ h.type = t /\ h.data # NULL /\ Usable(h.data) /\ h.service = reg.service
  <2>1. Synced(server[t]) \in DataType /\ Usable(Synced(server[t]))
    BY <1>1, SyncedData
  <2>2. h \in HandlerType /\ h.type = t /\ h.data = Synced(server[t]) /\ h.service = reg.service
    BY <1>1, <2>1 DEF HandlerType, RegistryType, OptData
  <2> QED
    BY <2>1, <2>2, NullIsNoObject
<1>7. conn' = [conn EXCEPT !.listeners = f, !.handler = h]
  BY <1>1, <1>2 DEF ConnectorType
<1> HIDE DEF o, l, f, h
<1>8. /\ conn' \in ConnectorType /\ conn'.queue = conn.queue
      /\ conn'.listeners = f /\ conn'.handler = h
  BY <1>1, <1>5, <1>6, <1>7 DEF ConnectorType
<1>9. TypeInv'
  BY <1>1, <1>2, <1>8 DEF TypeInv
<1>10. CallsInv' /\ (\A y \in DataTypes : Holder(y)' <=> Holder(y)) /\ InCall' = InCall
  BY <1>2, CallsFrame DEF RegistryInv
<1>11. /\ Queued' = Queued /\ \A y \in DataTypes : ~Leaving(y) /\ ~Leaving(y)'
       /\ \A i \in Queued, y \in DataTypes :
            (RegAt(i, y)' <=> RegAt(i, y)) /\ (DeregAt(i, y)' <=> DeregAt(i, y))
  BY <1>2, <1>6, <1>8 DEF Queued, Leaving, RegAt, DeregAt
<1>12. \A y \in DataTypes : (Dereg(y)' <=> Dereg(y)) /\ (NoTask(y)' <=> NoTask(y))
  BY <1>8, <1>11 DEF Dereg, NoTask
<1>13. \A y \in DataTypes :
         /\ conn'.listeners[y] = NULL <=> conn.listeners[y] = NULL
         /\ conn'.listeners[y].number = conn.listeners[y].number
  BY <1>2, <1>4, <1>5, <1>8 DEF o
<1>14. OrderInv'
  BY <1>4, <1>5, <1>6, <1>8, <1>11 DEF RegistryInv, OrderInv
<1>15. HandlersInv'
  <2>1. ASSUME NEW y \in DataTypes PROVE HandlerInv(y)'
    <3>1. HandlerInv(y)
      BY DEF RegistryInv, HandlersInv
    <3> QED
      BY <1>2, <1>8, <1>10, <1>11, <1>12, <1>13, <3>1 DEF HandlerInv
  <2> QED
    BY <2>1 DEF HandlersInv
<1>16. NumberInv'
  BY <1>2, <1>13 DEF RegistryInv, NumberInv
<1>17. Expiring' <=> Expiring
  BY <1>1, <1>2, <1>8, <1>12, ExpiringIs
<1>18. CalmInv'
  BY <1>2, <1>17 DEF CalmInv
<1>19. ~setup.calm => t = "RateLimit"
  BY <1>2 DEF RegistryInv, QuietInv, o
<1>20. QuietInv'
  BY <1>2, <1>6, <1>8, <1>12, <1>13, <1>19 DEF RegistryInv, QuietInv
<1>21. ExpireInv'
  BY <1>2, <1>12 DEF RegistryInv, ExpireInv, DataTypes
<1>22. t = "Instances" => reg.service # NULL
  <2>1. t = "Instances" => ~Expiring
    BY <1>2, <1>19
  <2>2. t = "Instances" => ~Dereg(t)
    BY <1>1, <2>1, ExpiringIs
  <2>3. conn.listeners[t] # NULL /\ ~Dereg(t) => reg.notify[t] = conn.listeners[t].number
    BY DEF RegistryInv, HandlersInv, HandlerInv
  <2>4. conn.listeners[t].number # NULL /\ conn.listeners[t] # NULL
    BY <1>2, <1>3, NullIsNoObject DEF ListenerType, o
  <2> QED
    BY <2>2, <2>3, <2>4 DEF RegistryInv, ServiceInv
<1>23. ServiceInv'
  BY <1>2, <1>6, <1>8, <1>22 DEF RegistryInv, ServiceInv
<1>24. DataInv'
  BY <1>2, <1>6, <1>8, <1>12 DEF RegistryInv, DataInv, DataTypes
<1> QED
  BY <1>2, <1>9, <1>10, <1>14, <1>15, <1>16, <1>18, <1>20, <1>21, <1>23, <1>24 DEF RegistryInv

LEMMA OnEventUpdateKeeps ==
  ASSUME RegistryInv, OnEventUpdate, NEW t, t = conn.handler.type, NEW d, d = conn.handler.data,
         NEW n, n = conn.listeners[t].number
  PROVE  RegistryInv'
<1> DEFINE sv == conn.handler.service
           b == [live |-> d # NULL, data |-> d]
           r == [notifies[t] EXCEPT ![n] = b]
           f == [conn.listeners EXCEPT ![t] = IF d = NULL THEN NULL ELSE @]
<1>1. conn \in ConnectorType /\ TypeInv /\ reg \in RegistryType /\ InCall \in SUBSET Users
  BY DEF RegistryInv, TypeInv, InCall
<1>2. /\ conn.handler # NULL
      /\ reg' = Store(reg, t, d, sv, InCall)
      /\ notifies' = [notifies EXCEPT ![t][n] = b]
      /\ persist' = persist \o PersistServiceData(t, d)
      /\ conn' = [conn EXCEPT !.handler = NULL, !.listeners[t] = IF d = NULL THEN NULL ELSE @]
      /\ fault' = UpdateFault(t, d, sv)
      /\ UNCHANGED <<setup, files, expire, user, breaker, server, bounds>>
  BY DEF OnEventUpdate
<1>3. conn.handler \in HandlerType
  BY <1>1, <1>2 DEF ConnectorType
<1>4. t \in DataTypes /\ d \in OptData /\ sv \in OptNat
  BY <1>3 DEF HandlerType
<1>5. conn.listeners[t] # NULL /\ conn.listeners[t] \in ListenerType
  BY <1>1, <1>2, <1>4 DEF RegistryInv, OrderInv, ConnectorType
<1>6. n \in Nat /\ n # NULL /\ n \in 1 .. Len(notifies[t])
  BY <1>4, <1>5, NullIsNoObject DEF RegistryInv, NumberInv, ListenerType
<1>7. d # NULL => ~(setup.calm /\ Expiring) /\ Usable(d)
  BY <1>2 DEF RegistryInv, CalmInv, DataInv
<1>8. d = NULL <=> Leaving(t)
  BY <1>2 DEF Leaving
<1>9. ~setup.calm => t = "RateLimit"
  BY <1>2, <1>4 DEF RegistryInv, QuietInv
<1>10. t = "Instances" /\ d # NULL => sv = reg.service /\ sv # NULL /\ reg.notify["Instances"] # NULL
  <2>1. t = "Instances" /\ d # NULL => sv = reg.service /\ sv # NULL
    BY <1>2 DEF RegistryInv, ServiceInv
  <2>2. t = "Instances" /\ d # NULL => ~Expiring
    BY <1>7, <1>9
  <2>3. ~Expiring => expire = "idle"
    BY DEF Expiring
  <2> QED
    BY <2>1, <2>2, <2>3 DEF RegistryInv, ServiceInv
<1>11. fault' = "none"
  BY <1>2, <1>10 DEF UpdateFault, RegistryInv
<1> HIDE DEF sv
<1>12. /\ reg' \in RegistryType
       /\ reg'.notify = reg.notify /\ reg'.service = reg.service /\ reg'.lock = reg.lock
       /\ reg'.data = IF Dropped(t, sv) THEN reg.data ELSE [reg.data EXCEPT ![t] = d]
       /\ reg'.context # NULL
       /\ reg'.context.instances = IF t = "Instances" /\ sv # NULL THEN d
                                   ELSE IF reg.context = NULL THEN NULL ELSE reg.context.instances
       /\ reg'.recent.limit = IF t = "RateLimit" /\ d # NULL /\ reg.data[t] = NULL
                              THEN InCall ELSE reg.recent.limit
  <2>1. reg' = Store(reg, t, d, sv, InCall)
    BY <1>2
  <2> QED
    BY <1>1, <1>4, <2>1, StoreEffect
<1>13. \A y \in DataTypes \ {t} : reg'.data[y] = reg.data[y]
  BY <1>1, <1>12 DEF RegistryType
<1>14. reg'.data[t] = d
  <2>1. CASE ~Dropped(t, sv)
    BY <1>1, <1>4, <1>12, <2>1 DEF RegistryType
  <2>2. CASE Dropped(t, sv)
    <3>1. t = "Instances" /\ d = NULL
      BY <1>10, <2>2 DEF Dropped
    <3>2. Dereg("Instances")
      BY <1>8, <3>1 DEF Dereg
    <3>3. reg.data["Instances"] = NULL
      BY <3>2 DEF RegistryInv, DataInv
    <3> QED
      BY <1>12, <2>2, <3>1, <3>3
  <2> QED
    BY <2>1, <2>2
<1>15. /\ notifies' \in [DataTypes -> Seq(NotifyType)]
       /\ \A y \in DataTypes : Len(notifies'[y]) = Len(notifies[y])
       /\ \A y \in DataTypes \ {t} : notifies'[y] = notifies[y]
       /\ \A i \in 1 .. Len(notifies[t]) : i # n => notifies'[t][i] = notifies[t][i]
       /\ d # NULL => notifies'[t][n].live
  <2> DEFINE q == notifies[t]
  <2>1. notifies \in [DataTypes -> Seq(NotifyType)] /\ q \in Seq(NotifyType)
    BY <1>1, <1>4 DEF TypeInv
  <2>2. b \in NotifyType /\ (d # NULL => b.live)
    BY <1>4 DEF NotifyType
  <2> HIDE DEF b
  <2>3. notifies' = [notifies EXCEPT ![t] = r]
    BY <1>2, <1>4, <2>1
  <2>4. /\ r \in Seq(NotifyType) /\ Len(r) = Len(q)
        /\ \A i \in 1 .. Len(q) : r[i] = IF i = n THEN b ELSE q[i]
    BY <1>6, <2>1, <2>2, ExceptSeq
  <2> HIDE DEF r
  <2>5. notifies'[t] = r /\ notifies' \in [DataTypes -> Seq(NotifyType)]
        /\ \A y \in DataTypes \ {t} : notifies'[y] = notifies[y]
    BY <1>4, <2>1, <2>3, <2>4
  <2> QED
    BY <1>6, <2>2, <2>4, <2>5
<1>16. /\ f \in [DataTypes -> ListenerType \cup {NULL}]
       /\ f[t] = IF d = NULL THEN NULL ELSE conn.listeners[t]
       /\ \A y \in DataTypes \ {t} : f[y] = conn.listeners[y]
  BY <1>1, <1>4 DEF ConnectorType
<1>17. conn' = [conn EXCEPT !.handler = NULL, !.listeners = f]
  BY <1>1, <1>2 DEF ConnectorType
<1> HIDE DEF f
<1>18. /\ conn' \in ConnectorType /\ conn'.queue = conn.queue
       /\ conn'.listeners = f /\ conn'.handler = NULL
  BY <1>1, <1>16, <1>17 DEF ConnectorType
<1>19. persist' \in Seq(PersistType)
  <2>1. PersistServiceData(t, d) \in Seq(PersistType)
    <3>1. CASE d = NULL
      BY <3>1 DEF PersistServiceData
    <3>2. CASE d # NULL
      <4> DEFINE p == PersistTask(t, IF IsNotFound(d) THEN NULL ELSE d.revision)
      <4>1. d \in DataType
        BY <1>4, <3>2 DEF OptData
      <4>2. p \in PersistType
        BY <1>4, <4>1 DEF PersistTask, PersistType, DataType, IsNotFound
      <4> HIDE DEF p
      <4>3. PersistServiceData(t, d) = <<p>>
        BY <3>2 DEF PersistServiceData, p
      <4> QED
        BY <4>2, <4>3
    <3> QED
      BY <3>1, <3>2
  <2>2. persist \in Seq(PersistType)
    BY <1>1 DEF TypeInv
  <2> QED
    BY <1>2, <2>1, <2>2, ConcatProperties
<1>20. TypeInv'
  BY <1>1, <1>2, <1>12, <1>15, <1>18, <1>19 DEF TypeInv
<1>21. CallsInv'
  <2>1. reg'.data["RateLimit"] # NULL =>
          \/ InCall \subseteq reg'.recent.limit
          \/ reg.data["RateLimit"] # NULL /\ reg'.recent.limit = reg.recent.limit
    <3>1. "RateLimit" \in DataTypes
      BY DEF DataTypes
    <3> QED
      BY <1>12, <1>13, <1>14, <3>1
  <2>2. PICK g \in RegistryType : g = reg'
    BY <1>12
  <2>3. ASSUME NEW v \in Users PROVE CallInv(v, user[v], reg)'
    <3>1. /\ setup' = setup /\ expire' = expire /\ user'[v] = user[v]
          /\ (g.lock = v <=> reg.lock = v) /\ g.service = reg.service
          /\ \A y \in DataTypes : g.notify[y] = reg.notify[y]
          /\ g.data["RateLimit"] # NULL =>
               \/ InCall \subseteq g.recent.limit
               \/ reg.data["RateLimit"] # NULL /\ g.recent.limit = reg.recent.limit
      BY <1>2, <1>12, <2>1, <2>2
    <3> QED
      BY <2>2, <3>1, OtherCall
  <2> QED
    BY <2>3 DEF CallsInv
<1>22. (\A y \in DataTypes : Holder(y)' <=> Holder(y)) /\ InCall' = InCall
  BY <1>2, <1>12 DEF Holder, InCall
<1>23. /\ Queued' = Queued /\ \A y \in DataTypes : ~Leaving(y)'
       /\ \A i \in Queued, y \in DataTypes :
            (RegAt(i, y)' <=> RegAt(i, y)) /\ (DeregAt(i, y)' <=> DeregAt(i, y))
  BY <1>18 DEF Queued, Leaving, RegAt, DeregAt
<1>24. \A y \in DataTypes : Leaving(y) => y = t
  BY DEF Leaving
<1>25. /\ \A y \in DataTypes \ {t} : Dereg(y)' <=> Dereg(y)
       /\ d # NULL => (Dereg(t)' <=> Dereg(t))
       /\ d = NULL => Dereg(t) /\ ~Dereg(t)'
  <2>1. \A y \in DataTypes \ {t} : Dereg(y)' <=> Dereg(y)
    BY <1>23, <1>24 DEF Dereg
  <2>2. d # NULL => (Dereg(t)' <=> Dereg(t))
    BY <1>4, <1>8, <1>23 DEF Dereg
  <2>3. d = NULL => Dereg(t) /\ \A i \in Queued : ~DeregAt(i, t)
    BY <1>4, <1>8 DEF RegistryInv, OrderInv, Dereg
  <2> QED
    BY <1>4, <1>23, <2>1, <2>2, <2>3 DEF Dereg
<1>26. OrderInv'
  BY <1>18, <1>23 DEF RegistryInv, OrderInv
<1>27. HandlersInv'
  <2>1. ASSUME NEW y \in DataTypes, y # t \/ d # NULL PROVE HandlerInv(y)'
    <3>1. HandlerInv(y)
      BY DEF RegistryInv, HandlersInv
    <3>2. /\ conn'.listeners[y] = conn.listeners[y] /\ (Dereg(y)' <=> Dereg(y))
          /\ reg'.notify[y] = reg.notify[y]
      BY <1>12, <1>16, <1>18, <1>25, <2>1
    <3> QED
      BY <1>18, <1>22, <1>23, <3>1, <3>2 DEF HandlerInv
  <2>2. ASSUME d = NULL PROVE HandlerInv(t)'
    <3>1. HandlerInv(t) /\ Dereg(t) /\ ~Dereg(t)' /\ conn'.listeners[t] = NULL
      BY <1>4, <1>16, <1>18, <1>25, <2>2 DEF RegistryInv, HandlersInv
    <3>2. reg'.notify[t] = reg.notify[t]
      BY <1>12
    <3> QED
      BY <1>4, <1>18, <1>22, <1>23, <3>1, <3>2 DEF HandlerInv
  <2> QED
    BY <1>4, <2>1, <2>2 DEF HandlersInv
<1>28. d = NULL => reg.notify[t] # n
  BY <1>4, <1>25 DEF RegistryInv, HandlersInv, HandlerInv
<1>29. NumberInv'
  <2>1. NumberInv
    BY DEF RegistryInv
  <2>2. ASSUME NEW y \in DataTypes, reg'.notify[y] # NULL
        PROVE  /\ reg'.notify[y] = Len(notifies'[y]) /\ reg'.notify[y] \in 1 .. Len(notifies'[y])
               /\ notifies'[y][reg'.notify[y]].live
    <3>1. /\ reg.notify[y] = Len(notifies[y]) /\ reg.notify[y] \in 1 .. Len(notifies[y])
          /\ notifies[y][reg.notify[y]].live /\ reg'.notify[y] = reg.notify[y]
      BY <1>12, <2>1, <2>2 DEF NumberInv
    <3>2. notifies'[y][reg.notify[y]].live
      BY <1>15, <1>28, <3>1
    <3> QED
      BY <1>15, <3>1, <3>2
  <2>3. ASSUME NEW y \in DataTypes, conn'.listeners[y] # NULL
        PROVE  conn'.listeners[y].number \in 1 .. Len(notifies'[y])
    <3>1. conn'.listeners[y] = conn.listeners[y]
      BY <1>16, <1>18, <2>3
    <3> QED
      BY <1>15, <2>1, <2>3, <3>1 DEF NumberInv
  <2> QED
    BY <2>2, <2>3 DEF NumberInv
<1>30. CalmInv'
  <2>1. Expiring' => Expiring
    BY <1>1, <1>2, <1>18, <1>25, ExpiringIs
  <2> QED
    BY <1>2, <1>18, <1>22, <2>1 DEF RegistryInv, CalmInv
<1>31. \A y \in DataTypes : NoTask(y) => NoTask(y)'
  BY <1>18, <1>23 DEF NoTask
<1>32. QuietInv'
  BY <1>2, <1>9, <1>12, <1>13, <1>16, <1>18, <1>31 DEF RegistryInv, QuietInv
<1>33. ExpireInv'
  <2>1. expire = "RateLimit" => Usable(reg'.data["RateLimit"])
    <3>1. expire = "RateLimit" => Usable(reg.data["RateLimit"]) /\ NoTask("RateLimit")
      BY DEF RegistryInv, ExpireInv
    <3>2. expire = "RateLimit" /\ t = "RateLimit" => d # NULL
      BY <1>8, <3>1 DEF NoTask
    <3>3. "RateLimit" \in DataTypes
      BY DEF DataTypes
    <3> QED
      BY <1>7, <1>13, <1>14, <3>1, <3>2, <3>3
  <2> QED
    BY <1>2, <1>12, <1>31, <2>1 DEF RegistryInv, ExpireInv, DataTypes
<1>34. ServiceInv'
  BY <1>2, <1>12, <1>18 DEF RegistryInv, ServiceInv
<1>35. DataInv'
  <2>1. ASSUME NEW y \in DataTypes, reg'.data[y] # NULL
        PROVE  reg'.notify[y] # NULL \/ Dereg(y)'
    <3>1. CASE y # t
      BY <1>12, <1>13, <1>25, <2>1, <3>1 DEF RegistryInv, DataInv
    <3>2. CASE y = t
      <4>1. d # NULL
        BY <1>14, <2>1, <3>2
      <4>2. ~Dereg(t) => reg.notify[t] = n
        BY <1>4, <1>5 DEF RegistryInv, HandlersInv, HandlerInv
      <4> QED
        BY <1>6, <1>12, <1>25, <3>2, <4>1, <4>2
    <3> QED
      BY <3>1, <3>2
  <2>2. Dereg("Instances")' => reg'.data["Instances"] = NULL
    <3>1. "Instances" \in DataTypes
      BY DEF DataTypes
    <3>2. Dereg("Instances") /\ t = "Instances" => d = NULL
      BY <1>1, <1>7, <1>9, <3>1, ExpiringIs
    <3> QED
      BY <1>13, <1>14, <1>25, <3>1, <3>2 DEF RegistryInv, DataInv
  <2>3. reg'.context # NULL /\ reg'.context.instances # NULL =>
          reg'.notify["Instances"] # NULL \/ expire' \in {"RouteRule", "service", "context"}
    BY <1>2, <1>10, <1>12 DEF RegistryInv, DataInv
  <2> QED
    BY <1>18, <2>1, <2>2, <2>3 DEF DataInv
<1> QED
  BY <1>11, <1>20, <1>21, <1>26, <1>27, <1>29, <1>30, <1>32, <1>33, <1>34, <1>35 DEF RegistryInv

-----------------------------------------------------------------------------
(* The circuit breaker, the environment and what the cache manager does    *)
(* besides removing data.                                                  *)

(* Registry, connector and calls stay as they are. *)
LEMMA RestKeeps ==
  ASSUME RegistryInv, TypeInv', UNCHANGED <<setup, reg, notifies, conn, user, fault>>,
         breaker' \in {NULL, reg.service}, setup.calm \/ breaker' = NULL,
         setup.calm /\ Expiring' => InCall = {} /\ breaker' = NULL
                                    /\ (conn.handler # NULL => conn.handler.data = NULL),
         expire' = "RateLimit" => /\ Usable(reg.data["RateLimit"]) /\ NoTask("RateLimit")
                                  /\ \A u \in Users : ~Uses(user[u], "RateLimit"),
         expire' = "Instances" => NoTask("Instances"),
         expire' \in {"Instances", "RouteRule"} => NoTask("RouteRule"),
         expire' # expire => /\ expire \in {"idle", "limit"}
                             /\ expire' \notin {"RouteRule", "service", "context"}
  PROVE  RegistryInv'
<1>1. InCall' = InCall /\ \A t \in DataTypes : Holder(t)' = Holder(t)
  BY DEF InCall, Holder
<1>2. CallsInv'
  <2>1. ASSUME NEW u \in Users PROVE CallInv(u, user[u], reg)'
    <3>1. CallInv(u, user[u], reg)
      BY DEF RegistryInv, CallsInv
    <3>2. Uses(user[u], "RateLimit")' <=> Uses(user[u], "RateLimit")
      BY DEF Uses, Loads, Waits
    <3> QED
      BY <3>1, <3>2 DEF CallInv
  <2> QED
    BY <2>1 DEF CallsInv
<1>3. OrderInv' /\ HandlersInv'
  BY <1>1, HandlersFrame DEF RegistryInv
<1>4. CalmInv'
  BY <1>1 DEF CalmInv
<1>5. \A t : (NoTask(t)' <=> NoTask(t)) /\ (Dereg(t)' <=> Dereg(t))
  BY DEF NoTask, Dereg, DeregAt, Leaving, Queued
<1>6. NumberInv' /\ QuietInv'
  BY <1>5 DEF RegistryInv, NumberInv, QuietInv
<1>7. ExpireInv'
  BY <1>5 DEF RegistryInv, ExpireInv
<1>8. ServiceInv'
  BY DEF RegistryInv, ServiceInv
<1>9. DataInv'
  BY <1>5 DEF RegistryInv, DataInv
<1> QED
  BY <1>2, <1>3, <1>4, <1>6, <1>7, <1>8, <1>9 DEF RegistryInv

LEMMA UpdateCircuitBreakerDataKeeps ==
  ASSUME RegistryInv, UpdateCircuitBreakerData PROVE RegistryInv'
<1>1. TypeInv'
  BY DEF UpdateCircuitBreakerData, RegistryInv, TypeInv, RegistryType
<1>2. setup.calm
  BY DEF RegistryInv, QuietInv, UpdateCircuitBreakerData
<1>3. ~Expiring'
  BY <1>2 DEF UpdateCircuitBreakerData, Expiring
<1>4. expire = "idle"
  BY <1>2 DEF UpdateCircuitBreakerData, Expiring
<1> QED
  BY <1>1, <1>2, <1>3, <1>4, RestKeeps DEF UpdateCircuitBreakerData

(* ... and so does the expiry. *)
LEMMA RestAndExpiryKeep ==
  ASSUME RegistryInv, TypeInv', UNCHANGED <<setup, reg, notifies, conn, user, expire, fault>>,
         breaker' \in {NULL, breaker}
  PROVE  RegistryInv'
<1>1. Expiring' = Expiring
  BY DEF Expiring
<1>2. setup.calm /\ Expiring => InCall = {} /\ breaker' = NULL /\ (conn.handler # NULL => conn.handler.data = NULL)
  BY DEF RegistryInv, CalmInv
<1>3. /\ expire = "RateLimit" => /\ Usable(reg.data["RateLimit"]) /\ NoTask("RateLimit")
                                 /\ \A u \in Users : ~Uses(user[u], "RateLimit")
      /\ expire = "Instances" => NoTask("Instances")
      /\ expire \in {"Instances", "RouteRule"} => NoTask("RouteRule")
  BY DEF RegistryInv, CallsInv, CallInv, ExpireInv
<1>4. breaker' \in {NULL, reg.service} /\ (setup.calm \/ breaker' = NULL)
  BY DEF RegistryInv, ServiceInv, QuietInv
<1>5. UNCHANGED <<setup, reg, notifies, conn, user, fault>> /\ expire' = expire
  OBVIOUS
<1> QED
  BY <1>1, <1>2, <1>3, <1>4, <1>5, RestKeeps

LEMMA SetCircuitBreakerDataKeeps ==
  ASSUME RegistryInv, SetCircuitBreakerData PROVE RegistryInv'
<1>1. TypeInv'
  BY DEF SetCircuitBreakerData, RegistryInv, TypeInv, OptNat
<1>2. fault' = fault
  BY DEF RegistryInv, ServiceInv, SetCircuitBreakerData
<1> QED
  BY <1>1, <1>2, RestAndExpiryKeep DEF SetCircuitBreakerData

LEMMA ChangeKeeps ==
  ASSUME RegistryInv, NEW t \in DataTypes, Change(t) PROVE RegistryInv'
<1>1. /\ bounds.moves > 0 /\ bounds' = [bounds EXCEPT !.moves = @ - 1]
      /\ UNCHANGED <<setup, reg, notifies, conn, files, persist, expire, user, breaker, fault>>
  BY DEF Change
<1>2. PICK r \in (Revisions \cup {NotFound}) \ {server[t]} : server' = [server EXCEPT ![t] = r]
  BY DEF Change
<1>3. bounds' \in BoundsType
  <2>1. bounds \in BoundsType
    BY DEF RegistryInv, TypeInv
  <2> QED
    BY <1>1, <2>1 DEF BoundsType
<1>4. TypeInv'
  BY <1>1, <1>2, <1>3 DEF RegistryInv, TypeInv
<1> QED
  BY <1>1, <1>4, RestAndExpiryKeep

LEMMA RunPersistTaskKeeps ==
  ASSUME RegistryInv, RunPersistTask PROVE RegistryInv'
<1>1. /\ persist # <<>> /\ persist' = Tail(persist)
      /\ UNCHANGED <<setup, reg, notifies, conn, expire, user, breaker, server, fault>>
      /\ \/ /\ files' = [files EXCEPT ![Head(persist).type] = Head(persist).revision]
            /\ bounds' = bounds
         \/ /\ bounds.failures > 0
            /\ bounds' = [bounds EXCEPT !.failures = @ - 1]
            /\ files' = files
  BY DEF RunPersistTask
<1>2. persist \in Seq(PersistType) /\ files \in [DataTypes -> Revisions \cup {NULL}] /\ bounds \in BoundsType
  BY DEF RegistryInv, TypeInv
<1>3. persist' \in Seq(PersistType) /\ Head(persist) \in PersistType
  BY <1>1, <1>2
<1>4. files' \in [DataTypes -> Revisions \cup {NULL}]
  BY <1>1, <1>2, <1>3 DEF PersistType
<1>5. bounds' \in BoundsType
  BY <1>1, <1>2 DEF BoundsType
<1>6. TypeInv'
  BY <1>1, <1>3, <1>4, <1>5 DEF RegistryInv, TypeInv
<1> QED
  BY <1>1, <1>6, RestAndExpiryKeep

(* Data that expired has no task. *)
LEMMA SettledIs ==
  ASSUME conn \in ConnectorType, NEW T, Settled(T), NEW t \in T PROVE NoTask(t)
<1>1. conn.queue \in Seq(TaskType)
  BY DEF ConnectorType
<1>2. DOMAIN conn.queue = Queued
  BY <1>1 DEF Queued
<1> QED
  BY <1>2 DEF Settled, NoTask, Leaving

LEMMA RemoveExpireServiceDataKeeps ==
  ASSUME RegistryInv, RemoveExpireServiceData PROVE RegistryInv'
<1>1. /\ expire = "idle" /\ bounds.expiries > 0
      /\ setup.calm => InCall = {} /\ conn.handler = NULL /\ breaker = NULL
      /\ (ServiceExpired /\ expire' = "Instances") \/ expire' = "limit"
      /\ bounds' = [bounds EXCEPT !.expiries = @ - 1]
      /\ UNCHANGED <<setup, reg, notifies, conn, files, persist, user, breaker, server, fault>>
  BY DEF RemoveExpireServiceData
<1>2. bounds' \in BoundsType
  <2>1. bounds \in BoundsType
    BY DEF RegistryInv, TypeInv
  <2> QED
    BY <1>1, <2>1 DEF BoundsType
<1>3. TypeInv'
  BY <1>1, <1>2 DEF RegistryInv, TypeInv
<1>4. expire' = "Instances" => NoTask("Instances") /\ NoTask("RouteRule")
  <2>1. conn \in ConnectorType
    BY DEF RegistryInv, TypeInv
  <2>2. ServiceExpired => Settled({"Instances", "RouteRule"})
    BY DEF ServiceExpired
  <2>3. Settled({"Instances", "RouteRule"}) => NoTask("Instances") /\ NoTask("RouteRule")
    BY <2>1, SettledIs
  <2> QED
    BY <1>1, <2>2, <2>3
<1>5. breaker' \in {NULL, reg.service} /\ (setup.calm \/ breaker' = NULL)
  BY <1>1 DEF RegistryInv, ServiceInv, QuietInv
<1> QED
  BY <1>1, <1>3, <1>4, <1>5, RestKeeps

LEMMA CheckExpireServiceDataKeeps ==
  ASSUME RegistryInv, CheckExpireServiceData PROVE RegistryInv'
<1>1. /\ expire = "limit"
      /\ (LimitExpired /\ expire' = "RateLimit") \/ expire' = "idle"
      /\ UNCHANGED <<setup, reg, notifies, conn, files, persist, user, breaker, server, bounds, fault>>
  BY DEF CheckExpireServiceData
<1>2. TypeInv'
  BY <1>1 DEF RegistryInv, TypeInv
<1>3. setup.calm => InCall = {} /\ breaker = NULL /\ (conn.handler # NULL => conn.handler.data = NULL)
  BY <1>1 DEF RegistryInv, CalmInv, Expiring
<1>4. ASSUME LimitExpired
      PROVE  /\ Usable(reg.data["RateLimit"]) /\ NoTask("RateLimit")
             /\ \A u \in Users : ~Uses(user[u], "RateLimit")
  <2>1. conn \in ConnectorType /\ reg \in RegistryType
    BY DEF RegistryInv, TypeInv
  <2>2. /\ reg.data["RateLimit"] # NULL /\ reg.recent.limit = {} /\ Settled({"RateLimit"})
        /\ reg.data["RateLimit"].status = "Disk" => reg.data["RateLimit"].available
    BY <1>4 DEF LimitExpired
  <2>3. reg.data["RateLimit"] \in DataType
    BY <2>1, <2>2 DEF RegistryType, DataTypes, OptData
  <2>4. Usable(reg.data["RateLimit"])
    BY <2>2, <2>3 DEF Usable, DataType, DataSet, IsNotFound
  <2>5. NoTask("RateLimit")
    BY <2>1, <2>2, SettledIs
  <2>6. \A u \in Users : ~Uses(user[u], "RateLimit")
    BY <2>2 DEF RegistryInv, CallsInv, CallInv
  <2> QED
    BY <2>4, <2>5, <2>6
<1>5. breaker' \in {NULL, reg.service} /\ (setup.calm \/ breaker' = NULL)
  BY <1>1 DEF RegistryInv, ServiceInv, QuietInv
<1> QED
  BY <1>1, <1>2, <1>3, <1>4, <1>5, RestKeeps

-----------------------------------------------------------------------------
(* The removal of expired data. *)

(* When data of type t is removed no task or call is concerned with t. *)
LEMMA ExpiredIsUnused ==
  ASSUME RegistryInv, NEW t \in DataTypes, expire = t
  PROVE  NoTask(t) /\ \A u \in Users : ~Uses(user[u], t)
<1>1. NoTask(t)
  BY DEF RegistryInv, ExpireInv, DataTypes
<1>2. ASSUME NEW u \in Users, Uses(user[u], t) PROVE FALSE
  <2>1. /\ user[u] \in UserType /\ CallInv(u, user[u], reg)
        /\ user[u].todo \in Seq(DataTypes) /\ user[u].waits \in Seq(WaitType)
        /\ user \in [Users -> UserType]
    BY CallFacts DEF RegistryInv, TypeInv
  <2>2. t # "RateLimit"
    BY <1>2, <2>1 DEF CallInv
  <2>3. u \in InCall
    BY <1>2, <2>1, UsersAreInCall
  <2>4. Expiring
    BY DEF Expiring, DataTypes
  <2>5. ~setup.calm
    BY <2>3, <2>4 DEF RegistryInv, CalmInv
  <2>6. reg.notify[t] = NULL
    BY <2>2, <2>5 DEF RegistryInv, QuietInv
  <2>7. ~Waits(user[u], t)
    BY <2>1, <2>6 DEF Waits, CallInv
  <2>8. ~Loads(user[u], t)
    BY <2>1, <2>2, <2>5 DEF Loads, CallInv
  <2> QED
    BY <1>2, <2>7, <2>8 DEF Uses
<1> QED
  BY <1>1, <1>2

LEMMA ExpireDataKeeps ==
  ASSUME RegistryInv, NEW t \in DataTypes, NEW next, NEW lock, ExpireData(t, next, lock),
         \/ t = "Instances" /\ next = "RouteRule" /\ lock = "expire"
         \/ t = "RouteRule" /\ next = "service" /\ lock = NULL
         \/ t = "RateLimit" /\ next = "idle" /\ lock = NULL
  PROVE  RegistryInv'
<1> DEFINE x == Task(t, NULL, Empty)
           f == [reg.notify EXCEPT ![t] = NULL]
           h == [reg.data EXCEPT ![t] = NULL]
<1>1. TypeInv /\ conn \in ConnectorType /\ reg \in RegistryType
  BY DEF RegistryInv, TypeInv
<1>2. /\ expire = t /\ reg.lock \in {NULL, "expire"} /\ expire' = next
      /\ conn' = IF reg.notify[t] = NULL THEN conn ELSE [conn EXCEPT !.queue = Append(@, x)]
      /\ reg' = [reg EXCEPT !.notify[t] = NULL, !.data[t] = NULL, !.lock = lock]
      /\ persist' = Append(persist, PersistTask(t, NULL))
      /\ UNCHANGED <<setup, notifies, files, user, breaker, server, bounds, fault>>
  BY DEF ExpireData
<1>3. NoTask(t) /\ \A u \in Users : ~Uses(user[u], t)
  BY <1>2, ExpiredIsUnused
<1>4. /\ f \in [DataTypes -> OptNat] /\ f[t] = NULL /\ \A y \in DataTypes \ {t} : f[y] = reg.notify[y]
      /\ h \in [DataTypes -> OptData] /\ h[t] = NULL /\ \A y \in DataTypes \ {t} : h[y] = reg.data[y]
  BY <1>1 DEF RegistryType, OptNat, OptData
<1>5. reg' = [reg EXCEPT !.notify = f, !.data = h, !.lock = lock]
  BY <1>1, <1>2 DEF RegistryType
<1> HIDE DEF f, h
<1>6. /\ reg' \in RegistryType /\ reg'.notify = f /\ reg'.data = h /\ reg'.lock = lock
      /\ reg'.service = reg.service /\ reg'.context = reg.context /\ reg'.recent = reg.recent
  BY <1>1, <1>4, <1>5 DEF RegistryType
<1>7. x \in TaskType /\ x.type = t /\ x.number = NULL
  BY DEF Task, TaskType, OptNat
<1> HIDE DEF x
<1>8. PICK m : m = Len(conn.queue) + 1
  OBVIOUS
<1>9. /\ conn' \in ConnectorType
      /\ conn'.listeners = conn.listeners /\ conn'.handler = conn.handler
      /\ reg.notify[t] = NULL => Queued' = Queued
      /\ reg.notify[t] # NULL => Queued' = Queued \cup {m} /\ conn'.queue[m] = x
      /\ m \notin Queued
      /\ \A i \in Queued : conn'.queue[i] = conn.queue[i] /\ i < m
  <2>1. CASE reg.notify[t] = NULL
    <3>1. conn' = conn /\ conn.queue \in Seq(TaskType)
      BY <1>1, <1>2, <2>1 DEF ConnectorType
    <3>2. Len(conn.queue) \in Nat
      BY <3>1
    <3>3. m \notin Queued /\ \A i \in Queued : i < m
      BY <1>8, <3>2 DEF Queued
    <3> QED
      BY <1>1, <2>1, <3>1, <3>3 DEF Queued
  <2>2. CASE reg.notify[t] # NULL
    BY <1>1, <1>2, <1>7, <1>8, <2>2, QueueAppend
  <2> QED
    BY <2>1, <2>2
<1>10. persist' \in Seq(PersistType)
  <2>1. PersistTask(t, NULL) \in PersistType
    BY DEF PersistTask, PersistType
  <2>2. persist \in Seq(PersistType)
    BY <1>1 DEF TypeInv
  <2> QED
    BY <1>2, <2>1, <2>2, AppendIs
<1>11. TypeInv'
  BY <1>1, <1>2, <1>6, <1>9, <1>10 DEF TypeInv
<1>12. \A y \in DataTypes : ~Holder(y) /\ ~Holder(y)'
  BY <1>2, <1>6, NullIsNoObject DEF Holder
<1>13. \A v \in Users : reg.lock # v /\ reg'.lock # v
  BY <1>2, <1>6, NullIsNoObject
<1>14. CallsInv'
  <2>1. ASSUME NEW v \in Users PROVE CallInv(v, user[v], reg)'
    <3>1. CallInv(v, user[v], reg) /\ user'[v] = user[v] /\ setup' = setup /\ expire' # "RateLimit"
      BY <1>2 DEF RegistryInv, CallsInv
    <3>2. user[v].waits \in Seq(WaitType)
      BY CallFacts
    <3>3. \A i \in 1 .. Len(user[v].waits) : user[v].waits[i].type \in DataTypes \ {t}
      <4>1. \A i \in 1 .. Len(user[v].waits) : user[v].waits[i] \in WaitType
        BY <3>2
      <4>2. \A i \in 1 .. Len(user[v].waits) : user[v].waits[i].type # t
        BY <1>3 DEF Uses, Waits
      <4> QED
        BY <4>1, <4>2 DEF WaitType
    <3>4. \A i \in 1 .. Len(user[v].waits) :
            /\ reg'.notify[user[v].waits[i].type] # NULL
            /\ user[v].waits[i].number = reg'.notify[user[v].waits[i].type]
      BY <1>4, <1>6, <3>1, <3>3 DEF CallInv
    <3>5. reg'.data["RateLimit"] # NULL /\ Uses(user[v], "RateLimit") => v \in reg'.recent.limit
      BY <1>4, <1>6, <3>1 DEF CallInv, DataTypes
    <3>6. Uses(user[v], "RateLimit")' <=> Uses(user[v], "RateLimit")
      BY <3>1 DEF Uses, Loads, Waits
    <3> QED
      BY <1>13, <3>1, <3>4, <3>5, <3>6 DEF CallInv
  <2> QED
    BY <2>1 DEF CallsInv
<1>15. InCall' = InCall /\ \A y \in DataTypes : Leaving(y)' <=> Leaving(y)
  BY <1>2, <1>9 DEF InCall, Leaving
<1>16. /\ \A i \in Queued, y \in DataTypes :
            (DeregAt(i, y)' <=> DeregAt(i, y)) /\ (RegAt(i, y)' <=> RegAt(i, y))
       /\ reg.notify[t] # NULL =>
            \A y \in DataTypes : (DeregAt(m, y)' <=> y = t) /\ ~RegAt(m, y)'
  BY <1>7, <1>9 DEF DeregAt, RegAt
<1>17. ~Dereg(t) /\ \A i \in Queued : ~RegAt(i, t)
  BY <1>3 DEF NoTask, Dereg, DeregAt, RegAt
<1>18. /\ \A y \in DataTypes \ {t} : Dereg(y)' <=> Dereg(y)
       /\ Dereg(t)' <=> reg.notify[t] # NULL
  <2>1. ASSUME NEW y \in DataTypes \ {t} PROVE Dereg(y)' <=> Dereg(y)
    BY <1>9, <1>15, <1>16 DEF Dereg
  <2>2. Dereg(t)' <=> reg.notify[t] # NULL
    BY <1>9, <1>15, <1>16, <1>17 DEF Dereg
  <2> QED
    BY <2>1, <2>2
<1>19. OrderInv'
  <2>1. OrderInv
    BY DEF RegistryInv
  <2>2. ASSUME NEW i \in Queued', NEW j \in Queued', i < j,
               conn'.queue[i].type = conn'.queue[j].type
        PROVE  conn'.queue[i].number = NULL /\ conn'.queue[j].number # NULL
    <3>1. i \in Queued
      BY <1>9, <2>2 DEF Queued
    <3>2. j # m
      BY <1>3, <1>7, <1>9, <2>2, <3>1 DEF NoTask
    <3>3. j \in Queued
      BY <1>9, <3>2
    <3> QED
      BY <1>9, <2>1, <2>2, <3>1, <3>3 DEF OrderInv
  <2>3. \A y \in DataTypes : Leaving(y)' => \A i \in Queued' : ~DeregAt(i, y)'
    BY <1>3, <1>9, <1>15, <1>16, <2>1 DEF OrderInv, NoTask
  <2> QED
    BY <1>9, <2>1, <2>2, <2>3 DEF OrderInv
<1>20. HandlersInv'
  <2>1. ASSUME NEW y \in DataTypes \ {t} PROVE HandlerInv(y)'
    <3>1. HandlerInv(y) /\ (Dereg(y)' <=> Dereg(y)) /\ ~Holder(y) /\ ~Holder(y)'
      BY <1>12, <1>18 DEF RegistryInv, HandlersInv
    <3>2. reg'.notify[y] = reg.notify[y] /\ conn'.listeners[y] = conn.listeners[y]
      BY <1>4, <1>6, <1>9
    <3>3. \A i \in Queued' : RegAt(i, y)' => i \in Queued /\ RegAt(i, y) /\ conn'.queue[i] = conn.queue[i]
      BY <1>9, <1>16
    <3>4. (\E i \in Queued : RegAt(i, y)) => \E i \in Queued' : RegAt(i, y)'
      BY <1>9, <1>16
    <3> QED
      BY <3>1, <3>2, <3>3, <3>4 DEF HandlerInv
  <2>2. HandlerInv(t)'
    <3>1. HandlerInv(t) /\ ~Dereg(t) /\ ~Holder(t) /\ ~Holder(t)' /\ reg'.notify[t] = NULL
      BY <1>4, <1>6, <1>12, <1>17 DEF RegistryInv, HandlersInv
    <3>2. \A i \in Queued' : ~RegAt(i, t)'
      BY <1>9, <1>16, <1>17
    <3>3. conn.listeners[t] # NULL => conn.listeners[t].number # NULL
      BY <1>1, NullIsNoObject DEF ConnectorType, ListenerType
    <3>4. reg.notify[t] # NULL <=> conn.listeners[t] # NULL
      BY <1>17, <3>1, <3>3 DEF HandlerInv
    <3> QED
      BY <1>9, <1>18, <3>1, <3>2, <3>3, <3>4 DEF HandlerInv
  <2> QED
    BY <2>1, <2>2 DEF HandlersInv
<1>21. NumberInv'
  BY <1>2, <1>4, <1>6, <1>9 DEF RegistryInv, NumberInv
<1>22. setup.calm => InCall = {} /\ breaker = NULL /\ (conn.handler # NULL => conn.handler.data = NULL)
  <2>1. Expiring
    BY <1>2 DEF Expiring, DataTypes
  <2> QED
    BY <2>1 DEF RegistryInv, CalmInv
<1>23. CalmInv'
  BY <1>2, <1>9, <1>15, <1>22 DEF CalmInv
<1>24. ~setup.calm /\ t # "RateLimit" => reg.notify[t] = NULL
  BY DEF RegistryInv, QuietInv
<1>25. \A y \in DataTypes : (y # t \/ reg.notify[t] = NULL) => (NoTask(y)' <=> NoTask(y))
  BY <1>7, <1>9, <1>15 DEF NoTask
<1>26. QuietInv'
  BY <1>2, <1>4, <1>6, <1>9, <1>24, <1>25 DEF RegistryInv, QuietInv
<1>27. ExpireInv'
  <2>1. next = "RouteRule" => NoTask("RouteRule")'
    BY <1>2, <1>25 DEF RegistryInv, ExpireInv, DataTypes
  <2>2. next \in {"RouteRule", "service"} => reg'.notify["Instances"] = NULL
    BY <1>2, <1>4, <1>6 DEF RegistryInv, ExpireInv, DataTypes
  <2> QED
    BY <1>2, <1>6, <2>1, <2>2, NullIsNoObject DEF ExpireInv
<1>28. ServiceInv'
  <2>1. reg'.notify["Instances"] # NULL => reg'.notify["Instances"] = reg.notify["Instances"]
    BY <1>4, <1>6 DEF DataTypes
  <2>2. reg.service # NULL => setup.calm
    BY DEF RegistryInv, QuietInv
  <2>3. reg.service # NULL /\ reg'.notify["Instances"] = NULL => next \in {"RouteRule", "service"}
    <3>1. t # "Instances" => reg'.notify["Instances"] = reg.notify["Instances"]
      BY <1>4, <1>6 DEF DataTypes
    <3> QED
      BY <1>2, <3>1 DEF RegistryInv, ServiceInv
  <2> QED
    BY <1>2, <1>6, <1>9, <2>1, <2>2, <2>3 DEF RegistryInv, ServiceInv
<1>29. DataInv'
  <2>1. \A y \in DataTypes : reg'.data[y] # NULL => reg'.notify[y] # NULL \/ Dereg(y)'
    BY <1>4, <1>6, <1>18 DEF RegistryInv, DataInv
  <2>2. Dereg("Instances")' => reg'.data["Instances"] = NULL
    BY <1>4, <1>6, <1>18 DEF RegistryInv, DataInv, DataTypes
  <2>3. t # "Instances" => reg'.notify["Instances"] = reg.notify["Instances"]
    BY <1>4, <1>6 DEF DataTypes
  <2> QED
    BY <1>2, <1>6, <1>9, <2>1, <2>2, <2>3 DEF RegistryInv, DataInv
<1> QED
  BY <1>2, <1>11, <1>14, <1>19, <1>20, <1>21, <1>23, <1>26, <1>27, <1>28, <1>29 DEF RegistryInv

LEMMA DeleteServiceKeeps ==
  ASSUME RegistryInv, DeleteServiceInLock PROVE RegistryInv'
<1>1. TypeInv /\ reg \in RegistryType /\ conn \in ConnectorType
  BY DEF RegistryInv, TypeInv
<1>2. /\ expire = "service" /\ reg' = [reg EXCEPT !.service = NULL] /\ expire' = "context"
      /\ UNCHANGED <<setup, notifies, conn, files, persist, user, breaker, server, bounds, fault>>
  BY DEF DeleteServiceInLock
<1>3. /\ reg' \in RegistryType /\ reg'.service = NULL
      /\ reg'.notify = reg.notify /\ reg'.data = reg.data /\ reg'.lock = reg.lock
      /\ reg'.context = reg.context /\ reg'.recent = reg.recent
  BY <1>1, <1>2 DEF RegistryType, OptNat
<1>4. TypeInv'
  BY <1>1, <1>2, <1>3 DEF TypeInv
<1>5. setup.calm => InCall = {} /\ breaker = NULL /\ (conn.handler # NULL => conn.handler.data = NULL)
  BY <1>2 DEF RegistryInv, CalmInv, Expiring
<1>6. CallsInv'
  <2>1. ASSUME NEW v \in Users PROVE CallInv(v, user[v], reg)'
    <3>1. CallInv(v, user[v], reg) /\ user'[v] = user[v] /\ setup' = setup /\ expire' # "RateLimit"
      BY <1>2 DEF RegistryInv, CallsInv
    <3>2. ~(user[v].pc = "register" /\ Head(user[v].todo) = "Instances")
      <4>1. user[v].pc = "register" => v \in InCall /\ user[v].todo # <<>>
        BY <3>1 DEF InCall, CallInv
      <4> QED
        BY <1>5, <3>1, <4>1 DEF CallInv
    <3>3. Uses(user[v], "RateLimit")' <=> Uses(user[v], "RateLimit")
      BY <3>1 DEF Uses, Loads, Waits
    <3> QED
      BY <1>3, <3>1, <3>2, <3>3 DEF CallInv
  <2> QED
    BY <2>1 DEF CallsInv
<1>7. InCall' = InCall /\ \A t \in DataTypes : Holder(t)' = Holder(t)
  BY <1>2, <1>3 DEF InCall, Holder
<1>8. OrderInv' /\ HandlersInv'
  BY <1>2, <1>3, <1>7, HandlersFrame DEF RegistryInv
<1>9. CalmInv'
  BY <1>2, <1>5, <1>7 DEF CalmInv
<1>10. \A t : (NoTask(t)' <=> NoTask(t)) /\ (Dereg(t)' <=> Dereg(t))
  BY <1>2 DEF NoTask, Dereg, DeregAt, Leaving, Queued
<1>11. NumberInv' /\ QuietInv'
  BY <1>2, <1>3, <1>10 DEF RegistryInv, NumberInv, QuietInv
<1>12. ExpireInv'
  BY <1>2, <1>3, <1>10 DEF RegistryInv, ExpireInv
<1>13. ServiceInv'
  BY <1>2, <1>3, <1>5 DEF RegistryInv, ServiceInv, ExpireInv, QuietInv, DataTypes
<1>14. DataInv'
  BY <1>2, <1>3, <1>10 DEF RegistryInv, DataInv
<1> QED
  BY <1>2, <1>4, <1>6, <1>8, <1>9, <1>11, <1>12, <1>13, <1>14 DEF RegistryInv

LEMMA DeleteContextKeeps ==
  ASSUME RegistryInv, DeleteContext PROVE RegistryInv'
<1> DEFINE rc == [reg.recent EXCEPT !.context = {}]
<1>1. TypeInv /\ reg \in RegistryType /\ conn \in ConnectorType
  BY DEF RegistryInv, TypeInv
<1>2. /\ expire = "context" /\ reg' = [reg EXCEPT !.context = NULL, !.recent.context = {}]
      /\ expire' = "limit"
      /\ UNCHANGED <<setup, notifies, conn, files, persist, user, breaker, server, bounds, fault>>
  BY DEF DeleteContext
<1>3. reg' = [reg EXCEPT !.context = NULL, !.recent = rc]
  BY <1>1, <1>2 DEF RegistryType
<1>4. rc \in [context : SUBSET Users, limit : SUBSET Users] /\ rc.limit = reg.recent.limit
  BY <1>1 DEF RegistryType
<1> HIDE DEF rc
<1>5. /\ reg' \in RegistryType /\ reg'.service = reg.service
      /\ reg'.notify = reg.notify /\ reg'.data = reg.data /\ reg'.lock = reg.lock
      /\ reg'.context = NULL /\ reg'.recent.limit = reg.recent.limit
  BY <1>1, <1>3, <1>4 DEF RegistryType
<1>6. TypeInv'
  BY <1>1, <1>2, <1>5 DEF TypeInv
<1>7. CallsInv'
  <2>1. ASSUME NEW v \in Users PROVE CallInv(v, user[v], reg)'
    <3>1. CallInv(v, user[v], reg) /\ user'[v] = user[v] /\ setup' = setup /\ expire' # "RateLimit"
      BY <1>2 DEF RegistryInv, CallsInv
    <3>2. Uses(user[v], "RateLimit")' <=> Uses(user[v], "RateLimit")
      BY <3>1 DEF Uses, Loads, Waits
    <3> QED
      BY <1>5, <3>1, <3>2 DEF CallInv
  <2> QED
    BY <2>1 DEF CallsInv
<1>8. InCall' = InCall /\ \A t \in DataTypes : Holder(t)' = Holder(t)
  BY <1>2, <1>5 DEF InCall, Holder
<1>9. OrderInv' /\ HandlersInv'
  BY <1>2, <1>5, <1>8, HandlersFrame DEF RegistryInv
<1>10. CalmInv'
  BY <1>2, <1>8 DEF RegistryInv, CalmInv, Expiring
<1>11. \A t : (NoTask(t)' <=> NoTask(t)) /\ (Dereg(t)' <=> Dereg(t))
  BY <1>2 DEF NoTask, Dereg, DeregAt, Leaving, Queued
<1>12. NumberInv' /\ QuietInv'
  BY <1>2, <1>5, <1>11 DEF RegistryInv, NumberInv, QuietInv
<1>13. ExpireInv' /\ ServiceInv'
  BY <1>2, <1>5, <1>11 DEF RegistryInv, ExpireInv, ServiceInv
<1>14. DataInv'
  BY <1>2, <1>5, <1>11 DEF RegistryInv, DataInv
<1> QED
  BY <1>2, <1>6, <1>7, <1>9, <1>10, <1>12, <1>13, <1>14 DEF RegistryInv

-----------------------------------------------------------------------------
(* Time, restarts and the beginning. *)

LEMMA UpgradedData ==
  ASSUME NEW d \in OptData
  PROVE  Upgraded(d) \in OptData /\ (Upgraded(d) = NULL <=> d = NULL) /\ (Usable(d) => Usable(Upgraded(d)))
<1>1. CASE d = NULL \/ d.status # "Disk"
  BY <1>1 DEF Upgraded
<1>2. CASE d # NULL /\ d.status = "Disk"
  <2> DEFINE e == [d EXCEPT !.available = TRUE]
  <2>1. d \in DataType
    BY <1>2 DEF OptData
  <2>2. e \in DataType /\ e.available
    BY <2>1 DEF DataType, DataSet
  <2>3. Upgraded(d) = e
    BY <1>2 DEF Upgraded
  <2> HIDE DEF e
  <2> QED
    BY <1>2, <2>2, <2>3, NullIsNoObject DEF OptData, Usable
<1> QED
  BY <1>1, <1>2

LEMMA UpgradeKeeps ==
  ASSUME RegistryInv, NEW t \in DataTypes, Upgrade(t) PROVE RegistryInv'
<1> DEFINE h == [reg.data EXCEPT ![t] = Upgraded(@)]
           k == IF t = "Instances" /\ reg.context # NULL
                THEN [instances |-> Upgraded(reg.context.instances)] ELSE reg.context
           W(u) == [i \in DOMAIN user[u].waits |-> UpgradedWait(user[u].waits[i], t)]
           D(u) == IF user[u].todo # <<>> /\ Head(user[u].todo) = t
                   THEN Upgraded(user[u].data) ELSE user[u].data
<1>1. TypeInv /\ reg \in RegistryType /\ user \in [Users -> UserType] /\ conn \in ConnectorType
  BY DEF RegistryInv, TypeInv
<1>2. /\ reg' = [reg EXCEPT !.data[t] = Upgraded(@), !.context = k]
      /\ DOMAIN user' = Users /\ user' = [u \in Users |-> user'[u]]
      /\ \A u \in Users : user'[u] = [user[u] EXCEPT !.data = D(u), !.waits = W(u)]
      /\ UNCHANGED <<setup, notifies, conn, files, persist, expire, breaker, server, bounds, fault>>
  <2>1. reg' = [reg EXCEPT !.data[t] = Upgraded(@), !.context = k]
    BY <1>1 DEF Upgrade, RegistryType
  <2>2. user' = [u \in Users |-> [user[u] EXCEPT
          !.data = IF user[u].todo # <<>> /\ Head(user[u].todo) = t THEN Upgraded(@) ELSE @,
          !.waits = [i \in DOMAIN @ |-> UpgradedWait(@[i], t)]]]
    BY DEF Upgrade
  <2>3. \A u \in Users : user'[u] = [user[u] EXCEPT !.data = D(u), !.waits = W(u)]
    BY <2>2, Zenon
  <2> QED
    BY <2>1, <2>2, <2>3 DEF Upgrade
<1>3. h \in [DataTypes -> OptData] /\ (\A y \in DataTypes : h[y] = NULL <=> reg.data[y] = NULL)
      /\ \A y \in DataTypes : Usable(reg.data[y]) => Usable(h[y])
  <2>1. reg.data \in [DataTypes -> OptData]
    BY <1>1 DEF RegistryType
  <2>2. ASSUME NEW y \in DataTypes
        PROVE  h[y] \in OptData /\ (h[y] = NULL <=> reg.data[y] = NULL) /\ (Usable(reg.data[y]) => Usable(h[y]))
    BY <2>1, UpgradedData
  <2> QED
    BY <2>1, <2>2
<1>4. /\ k \in [instances : OptData] \cup {NULL} /\ (k = NULL <=> reg.context = NULL)
      /\ k # NULL => (k.instances = NULL <=> reg.context.instances = NULL)
  BY <1>1, UpgradedData, NullIsNoObject DEF RegistryType
<1>5. reg' = [reg EXCEPT !.data = h, !.context = k]
  BY <1>1, <1>2 DEF RegistryType
<1> HIDE DEF h, k
<1>6. /\ reg' \in RegistryType /\ reg'.service = reg.service
      /\ reg'.notify = reg.notify /\ reg'.data = h /\ reg'.lock = reg.lock
      /\ reg'.context = k /\ reg'.recent = reg.recent
  BY <1>1, <1>3, <1>4, <1>5 DEF RegistryType
<1>7. ASSUME NEW u \in Users
      PROVE  /\ user'[u] \in UserType /\ user'[u].pc = user[u].pc /\ user'[u].todo = user[u].todo
             /\ user'[u].service = user[u].service /\ Len(user'[u].waits) = Len(user[u].waits)
             /\ user'[u].waits \in Seq(WaitType) /\ user[u].waits \in Seq(WaitType)
             /\ \A i \in 1 .. Len(user[u].waits) :
                  /\ user'[u].waits[i].type = user[u].waits[i].type
                  /\ user'[u].waits[i].number = user[u].waits[i].number
  <2> DEFINE q == user[u].waits
             w == W(u)
             e == D(u)
  <2>1. user[u] \in UserType /\ q \in Seq(WaitType) /\ user[u].data \in OptData
    BY <1>1 DEF UserType
  <2>2. e \in OptData
    BY <2>1, UpgradedData
  <2>3. DOMAIN q = 1 .. Len(q) /\ Len(q) \in Nat /\ \A i \in 1 .. Len(q) : q[i] \in WaitType
    BY <2>1
  <2>4. ASSUME NEW i \in 1 .. Len(q)
        PROVE  w[i] \in WaitType /\ w[i].type = q[i].type /\ w[i].number = q[i].number
    <3> DEFINE b == q[i]
    <3>1. b \in WaitType /\ b.data \in OptData
      BY <2>3 DEF WaitType
    <3>2. w[i] = IF b.type = t THEN [b EXCEPT !.data = Upgraded(b.data)] ELSE b
      BY <2>3, <3>1 DEF WaitType, UpgradedWait
    <3> HIDE DEF b, w
    <3>3. Upgraded(b.data) \in OptData
      BY <3>1, UpgradedData
    <3>4. w[i] \in WaitType /\ w[i].type = b.type /\ w[i].number = b.number
      BY <3>1, <3>2, <3>3 DEF WaitType
    <3> QED
      BY <3>4 DEF b
  <2>5. w \in [1 .. Len(q) -> WaitType]
    <3>1. w = [i \in 1 .. Len(q) |-> w[i]]
      BY <2>3
    <3> HIDE DEF w, q
    <3> QED
      BY <2>4, <3>1
  <2> HIDE DEF w, q
  <2>6. w \in Seq(WaitType) /\ Len(w) = Len(q)
    BY <2>3, <2>5
  <2>7. user'[u] = [user[u] EXCEPT !.data = e, !.waits = w]
    BY <1>2 DEF w
  <2> HIDE DEF e
  <2>8. /\ user'[u] \in UserType /\ user'[u].pc = user[u].pc /\ user'[u].todo = user[u].todo
        /\ user'[u].service = user[u].service /\ user'[u].waits = w
    BY <2>1, <2>2, <2>6, <2>7 DEF UserType
  <2> QED
    BY <2>1, <2>4, <2>6, <2>8 DEF q
<1> HIDE DEF W, D
<1>8. user' \in [Users -> UserType]
  BY <1>2, <1>7
<1>9. TypeInv'
  BY <1>1, <1>2, <1>6, <1>8 DEF TypeInv
<1>10. CallsInv'
  <2>1. ASSUME NEW v \in Users PROVE CallInv(v, user[v], reg)'
    <3>1. CallInv(v, user[v], reg) /\ setup' = setup /\ expire' = expire
      BY <1>2 DEF RegistryInv, CallsInv
    <3>2. Uses(user[v], "RateLimit")' <=> Uses(user[v], "RateLimit")
      BY <1>7 DEF Uses, Loads, Waits
    <3>3. user'[v].waits = <<>> <=> user[v].waits = <<>>
      BY <1>7
    <3>4. \A i \in 1 .. Len(user'[v].waits) :
            /\ reg'.notify[user'[v].waits[i].type] # NULL
            /\ user'[v].waits[i].number = reg'.notify[user'[v].waits[i].type]
      BY <1>6, <1>7, <3>1 DEF CallInv
    <3>5. reg'.data["RateLimit"] # NULL <=> reg.data["RateLimit"] # NULL
      BY <1>3, <1>6 DEF DataTypes
    <3> QED
      BY <1>6, <1>7, <3>1, <3>2, <3>3, <3>4, <3>5 DEF CallInv
  <2> QED
    BY <2>1 DEF CallsInv
<1>11. InCall' = InCall /\ \A y \in DataTypes : Holder(y)' = Holder(y)
  BY <1>6, <1>7 DEF InCall, Holder
<1>12. OrderInv' /\ HandlersInv'
  BY <1>2, <1>6, <1>11, HandlersFrame DEF RegistryInv
<1>13. CalmInv'
  BY <1>2, <1>11 DEF RegistryInv, CalmInv, Expiring
<1>14. \A y : (NoTask(y)' <=> NoTask(y)) /\ (Dereg(y)' <=> Dereg(y))
  BY <1>2 DEF NoTask, Dereg, DeregAt, Leaving, Queued
<1>15. NumberInv' /\ QuietInv'
  BY <1>2, <1>3, <1>4, <1>6, <1>14 DEF RegistryInv, NumberInv, QuietInv
<1>16. ExpireInv' /\ ServiceInv'
  BY <1>2, <1>3, <1>6, <1>14 DEF RegistryInv, ExpireInv, ServiceInv, DataTypes
<1>17. DataInv'
  BY <1>2, <1>3, <1>4, <1>6, <1>14 DEF RegistryInv, DataInv, DataTypes
<1> QED
  BY <1>2, <1>9, <1>10, <1>12, <1>13, <1>15, <1>16, <1>17 DEF RegistryInv

(* A process that has just started. *)
Started ==
  /\ reg = Registry /\ conn = Connector
  /\ notifies = [t \in DataTypes |-> <<>>] /\ user = [u \in Users |-> User]
  /\ persist = <<>> /\ expire = "idle" /\ breaker = NULL /\ fault = "none"
  /\ setup \in Setups /\ server \in [DataTypes -> Revisions \cup {NotFound}]
  /\ files \in [DataTypes -> Revisions \cup {NULL}] /\ bounds \in BoundsType

LEMMA StartedInv == Started => RegistryInv
<1> SUFFICES ASSUME Started PROVE RegistryInv
  OBVIOUS
<1>1. /\ reg.notify = [t \in DataTypes |-> NULL] /\ reg.service = NULL
      /\ reg.data = [t \in DataTypes |-> NULL] /\ reg.context = NULL
      /\ reg.recent = [context |-> {}, limit |-> {}] /\ reg.lock = NULL
  BY DEF Started, Registry
<1>2. conn.queue = <<>> /\ conn.listeners = [t \in DataTypes |-> NULL] /\ conn.handler = NULL
  BY DEF Started, Connector
<1>3. reg \in RegistryType
  BY DEF Started, Registry, RegistryType, OptNat, OptData
<1>4. conn \in ConnectorType
  BY DEF Started, Connector, ConnectorType
<1>5. User \in UserType
  BY EmptyFound DEF User, UserType, OptNat, OptData
<1>6. TypeInv
  BY <1>3, <1>4, <1>5 DEF Started, TypeInv, OptNat
<1>7. Queued = {} /\ \A t : ~Leaving(t) /\ ~Dereg(t) /\ NoTask(t)
  BY <1>2 DEF Queued, Leaving, Dereg, NoTask
<1>8. \A u \in Users : user[u].pc = "idle" /\ user[u].todo = <<>> /\ user[u].waits = <<>>
  BY DEF Started, User
<1>9. CallsInv
  <2>1. ASSUME NEW u \in Users PROVE CallInv(u, user[u], reg)
    <3>1. ~Uses(user[u], "RateLimit")
      BY <1>8 DEF Uses, Loads, Waits
    <3>2. reg.lock # u
      BY <1>1, NullIsNoObject
    <3>3. <<>> \in Seq({"RateLimit"}) /\ 1 .. Len(user[u].waits) = {}
      BY <1>8
    <3> QED
      BY <1>8, <3>1, <3>2, <3>3 DEF CallInv
  <2> QED
    BY <2>1 DEF CallsInv
<1>10. OrderInv /\ HandlersInv
  <2>1. \A t \in DataTypes : ~Holder(t)
    BY <1>1, NullIsNoObject DEF Holder
  <2> QED
    BY <1>1, <1>2, <1>7, <2>1 DEF OrderInv, HandlersInv, HandlerInv
<1>11. NumberInv /\ QuietInv
  BY <1>1, <1>2, <1>7 DEF NumberInv, QuietInv, Started
<1>12. CalmInv
  BY <1>2, <1>8 DEF CalmInv, InCall, Started
<1>13. ExpireInv /\ ServiceInv /\ DataInv
  BY <1>1, <1>2, <1>7, NullIsNoObject DEF ExpireInv, ServiceInv, DataInv, Started, DataTypes
<1> QED
  BY <1>6, <1>9, <1>10, <1>11, <1>12, <1>13 DEF RegistryInv, Started

LEMMA InitKeeps == Init => RegistryInv
<1>1. \A x \in Setups : x.bounds \in BoundsType
  BY ConstantsAssumption DEF BoundsType
<1>2. Init => Started
  BY <1>1 DEF Init, Started
<1> QED
  BY <1>2, StartedInv

LEMMA CrashKeeps ==
  ASSUME RegistryInv, Crash PROVE RegistryInv'
<1>1. bounds \in BoundsType /\ bounds' = [bounds EXCEPT !.crashes = @ - 1] /\ bounds.crashes > 0
  BY DEF Crash, RegistryInv, TypeInv
<1>2. bounds' \in BoundsType
  BY <1>1 DEF BoundsType
<1>3. Started'
  BY <1>2 DEF Crash, Started, RegistryInv, TypeInv, Registry, Connector, User
<1> QED
  BY <1>3, StartedInv, PTL

-----------------------------------------------------------------------------
(* The invariant is inductive. *)
LEMMA StepKeeps ==
  ASSUME AllSheltered, RegistryInv, [Next]_vars PROVE RegistryInv'
<1>1. ASSUME NEW u \in Users, UserStep(u) PROVE RegistryInv'
  <2>1. CASE Call(u)
    BY <2>1, CallKeeps
  <2>2. CASE GetServiceDataWithRef(u)
    BY <2>2, GetKeeps
  <2>3. CASE LoadServiceDataWithNotify(u)
    <3>1. CASE reg.notify[Head(user[u].todo)] # NULL
      BY <2>3, <3>1, JoinKeeps
    <3>2. CASE reg.notify[Head(user[u].todo)] = NULL
      <4>1. Head(user[u].todo) \in DataTypes
        <5>1. user[u].todo # <<>> /\ user[u].todo \in Seq(DataTypes)
          BY <2>3, CallFacts DEF CallInv, LoadServiceDataWithNotify
        <5> QED
          BY <5>1
      <4> QED
        BY <2>3, <3>2, <4>1, CreateKeeps
    <3> QED
      BY <3>1, <3>2
  <2>4. CASE LoadServiceData(u)
    BY <2>4, LoadServiceDataKeeps
  <2>5. CASE RegisterEventHandler(u)
    <3>1. Head(user[u].todo) \in DataTypes
      <4>1. user[u].todo # <<>> /\ user[u].todo \in Seq(DataTypes)
        BY <2>5, CallFacts DEF CallInv, RegisterEventHandler
      <4> QED
        BY <4>1
    <3> QED
      BY <2>5, <3>1, RegisterEventHandlerKeeps
  <2>6. CASE WaitData(u)
    BY <2>6, WaitDataKeeps
  <2>7. CASE WakeUp(u)
    BY <2>7, WakeUpKeeps
  <2> QED
    BY <1>1, <2>1, <2>2, <2>3, <2>4, <2>5, <2>6, <2>7 DEF UserStep
<1>2. ASSUME ReactorStep PROVE RegistryInv'
  <2>1. CASE Register
    BY <2>1, RegisterKeeps
  <2>2. CASE Deregister
    BY <2>2, DeregisterKeeps
  <2>3. CASE OnEventUpdate
    BY <2>3, OnEventUpdateKeeps
  <2>4. ASSUME NEW t \in DataTypes, ProcessDiscoverResponse(t) PROVE RegistryInv'
    BY <2>4, ProcessDiscoverResponseKeeps
  <2> QED
    BY <1>2, <2>1, <2>2, <2>3, <2>4 DEF ReactorStep
<1>3. ASSUME CacheStep PROVE RegistryInv'
  <2>1. CASE ExpireInstances
    BY <2>1, ExpireDataKeeps DEF ExpireInstances, DataTypes
  <2>2. CASE ExpireRouteRule
    BY <2>2, ExpireDataKeeps DEF ExpireRouteRule, DataTypes
  <2>3. CASE ExpireRateLimit
    BY <2>3, ExpireDataKeeps DEF ExpireRateLimit, DataTypes
  <2>4. CASE DeleteServiceInLock
    BY <2>4, DeleteServiceKeeps
  <2>5. CASE DeleteContext
    BY <2>5, DeleteContextKeeps
  <2>6. CASE CheckExpireServiceData
    BY <2>6, CheckExpireServiceDataKeeps
  <2>7. CASE RunPersistTask
    BY <2>7, RunPersistTaskKeeps
  <2> QED
    BY <1>3, <2>1, <2>2, <2>3, <2>4, <2>5, <2>6, <2>7 DEF CacheStep
<1>4. ASSUME NEW t \in DataTypes, Upgrade(t) \/ Change(t) PROVE RegistryInv'
  BY <1>4, UpgradeKeeps, ChangeKeeps
<1>5. CASE UNCHANGED vars
  <2>1. TypeInv'
    BY <1>5 DEF RegistryInv, TypeInv, vars
  <2>2. UNCHANGED <<setup, reg, notifies, conn, user, expire, fault>> /\ breaker' = breaker
    BY <1>5 DEF vars
  <2> QED
    BY <2>1, <2>2, RestAndExpiryKeep
<1> QED
  BY <1>1, <1>2, <1>3, <1>4, <1>5, UpdateCircuitBreakerDataKeeps, SetCircuitBreakerDataKeeps,
     RemoveExpireServiceDataKeeps, CrashKeeps DEF Next

(* The last task of a type, if there is one. *)
LEMMA LastTaskIs ==
  ASSUME RegistryInv, NEW t \in DataTypes, TasksOf(t) # {}
  PROVE  LET l == LastTask(t)
         IN /\ l \in Queued /\ conn.queue[l].type = t
            /\ \A i \in Queued : conn.queue[i].type = t /\ i # l => conn.queue[i].number = NULL
<1> DEFINE Newest(l) == l \in TasksOf(t) /\ \A j \in TasksOf(t) : j <= l
<1>1. conn.queue \in Seq(TaskType)
  BY DEF RegistryInv, TypeInv, ConnectorType
<1>2. DOMAIN conn.queue = Queued /\ Queued \subseteq Int
  BY <1>1 DEF Queued
<1>3. \A i, j \in TasksOf(t) : i < j => conn.queue[i].number = NULL /\ conn.queue[j].number # NULL
  BY <1>2 DEF TasksOf, RegistryInv, OrderInv
<1>4. \E l : Newest(l)
  <2>1. PICK i \in TasksOf(t) : TRUE
    OBVIOUS
  <2>2. TasksOf(t) \subseteq Int
    BY <1>2 DEF TasksOf
  <2>3. CASE \E j \in TasksOf(t) : i < j
    <3>1. PICK j \in TasksOf(t) : i < j
      BY <2>3
    <3>2. \A k \in TasksOf(t) : ~(j < k)
      BY <1>3, <2>1, <3>1
    <3> QED
      BY <2>2, <3>1, <3>2
  <2>4. CASE \A j \in TasksOf(t) : ~(i < j)
    BY <2>1, <2>2, <2>4
  <2> QED
    BY <2>3, <2>4
<1>5. Newest(LastTask(t))
  BY <1>4 DEF LastTask
<1>6. PICK l : l = LastTask(t) /\ Newest(l)
  BY <1>5
<1>7. \A i \in TasksOf(t) : i # l => conn.queue[i].number = NULL
  <2>1. l \in TasksOf(t) /\ l \in Int /\ \A i \in TasksOf(t) : i \in Int /\ i <= l
    BY <1>2, <1>6 DEF TasksOf
  <2>2. \A i \in TasksOf(t) : i # l => i < l
    BY <2>1
  <2> QED
    BY <1>3, <2>1, <2>2
<1> QED
  BY <1>2, <1>6, <1>7 DEF TasksOf

LEMMA MatchFromInv == RegistryInv => HandlersMatch
<1> SUFFICES ASSUME RegistryInv PROVE HandlersMatch
  OBVIOUS
<1>1. conn.queue \in Seq(TaskType)
  BY DEF RegistryInv, TypeInv, ConnectorType
<1>2. DOMAIN conn.queue = Queued
  BY <1>1 DEF Queued
<1>3. ASSUME NEW t \in DataTypes PROVE reg.notify[t] = HandlerOf(t) \/ Holder(t)
  <2>1. HandlerInv(t)
    BY DEF RegistryInv, HandlersInv
  <2>2. CASE TasksOf(t) # {}
    <3>1. PICK l : /\ l = LastTask(t) /\ l \in Queued /\ conn.queue[l].type = t
                   /\ \A i \in Queued : conn.queue[i].type = t /\ i # l => conn.queue[i].number = NULL
      BY <2>2, LastTaskIs
    <3>2. HandlerOf(t) = conn.queue[l].number
      BY <2>2, <3>1 DEF HandlerOf
    <3>3. CASE conn.queue[l].number # NULL
      BY <2>1, <3>1, <3>2, <3>3 DEF HandlerInv, RegAt
    <3>4. CASE conn.queue[l].number = NULL
      <4>1. Dereg(t) /\ \A i \in Queued : ~RegAt(i, t)
        BY <3>1, <3>4 DEF Dereg, DeregAt, RegAt
      <4> QED
        BY <2>1, <3>2, <3>4, <4>1 DEF HandlerInv
    <3> QED
      BY <3>3, <3>4
  <2>3. CASE TasksOf(t) = {}
    <3>1. \A i \in Queued : ~RegAt(i, t) /\ ~DeregAt(i, t)
      BY <1>2, <2>3 DEF TasksOf, RegAt, DeregAt
    <3>2. Dereg(t) <=> Leaving(t)
      BY <3>1 DEF Dereg
    <3>3. HandlerOf(t) = IF conn.listeners[t] = NULL \/ Leaving(t) THEN NULL ELSE conn.listeners[t].number
      BY <2>3 DEF HandlerOf, Leaving
    <3> QED
      BY <2>1, <3>1, <3>2, <3>3 DEF HandlerInv
  <2> QED
    BY <2>2, <2>3
<1>4. NotifyHasHandler
  BY <1>3 DEF NotifyHasHandler, Holder
<1>5. ASSUME NEW t \in DataTypes,
             reg.data[t] # NULL \/ (t = "Instances" /\ reg.context # NULL /\ reg.context.instances # NULL)
      PROVE  conn.listeners[t] # NULL \/ TasksOf(t) # {} \/ expire # "idle" \/ Holder(t)
  <2>1. HandlerInv(t)
    BY DEF RegistryInv, HandlersInv
  <2>2. reg.notify[t] # NULL \/ Dereg(t) \/ expire # "idle"
    BY <1>5 DEF RegistryInv, DataInv
  <2>3. \A i \in Queued : RegAt(i, t) => TasksOf(t) # {}
    BY <1>2 DEF TasksOf, RegAt
  <2> QED
    BY <2>1, <2>2, <2>3 DEF HandlerInv
<1>6. NoOrphanData
  BY <1>5 DEF NoOrphanData, Holder
<1> QED
  BY <1>4, <1>6 DEF HandlersMatch

(* A sequence of members of a set is one of members of a larger set. *)
LEMMA SeqOfLarger ==
  ASSUME NEW S, NEW T, S \subseteq T, NEW q \in Seq(S) PROVE q \in Seq(T)
OBVIOUS

LEMMA TypeFromInv == RegistryInv => TypeOK
<1> SUFFICES ASSUME TypeInv PROVE TypeOK
  BY DEF RegistryInv
<1>1. OptData \subseteq MaybeData /\ OptNat = Nat \cup {NULL}
  BY NullIsNoObject DEF OptNat
<1>2. /\ reg.notify \in [DataTypes -> Nat \cup {NULL}] /\ reg.service \in Nat \cup {NULL}
      /\ reg.data \in [DataTypes -> MaybeData]
      /\ reg.context \in [instances : MaybeData] \cup {NULL}
      /\ reg.recent \in [context : SUBSET Users, limit : SUBSET Users]
      /\ reg.lock \in Users \cup {NULL, "expire"}
  <2>1. reg \in RegistryType
    BY DEF TypeInv
  <2>2. /\ reg.notify \in [DataTypes -> OptNat] /\ reg.service \in OptNat
        /\ reg.data \in [DataTypes -> OptData] /\ reg.context \in [instances : OptData] \cup {NULL}
        /\ reg.recent \in [context : SUBSET Users, limit : SUBSET Users]
        /\ reg.lock \in Users \cup {NULL, "expire"}
    BY <2>1 DEF RegistryType
  <2> QED
    BY <1>1, <2>2
<1>3. \A t \in DataTypes : notifies[t] \in Seq([live : BOOLEAN, data : MaybeData])
  <2> DEFINE T == [live : BOOLEAN, data : MaybeData]
  <2>1. NotifyType \subseteq T
    BY <1>1 DEF NotifyType
  <2>2. \A t \in DataTypes : notifies[t] \in Seq(NotifyType)
    BY DEF TypeInv
  <2> HIDE DEF T
  <2>3. \A t \in DataTypes : notifies[t] \in Seq(T)
    BY <2>1, <2>2, SeqOfLarger
  <2> QED
    BY <2>3 DEF T
<1>4. /\ conn.queue \in Seq([type : DataTypes, number : Nat \cup {NULL},
                             revision : Revisions \cup {Empty}])
      /\ conn.listeners \in [DataTypes ->
           [number : Nat, revision : Revisions \cup {Empty}, missing : BOOLEAN] \cup {NULL}]
      /\ conn.handler \in
           [type : DataTypes, data : MaybeData, service : Nat \cup {NULL}] \cup {NULL}
  <2>1. HandlerType \subseteq [type : DataTypes, data : MaybeData, service : Nat \cup {NULL}]
    BY <1>1 DEF HandlerType
  <2>2. TaskType = [type : DataTypes, number : Nat \cup {NULL}, revision : Revisions \cup {Empty}]
    BY <1>1 DEF TaskType
  <2>3. conn \in ConnectorType
    BY DEF TypeInv
  <2>4. /\ conn.queue \in Seq(TaskType) /\ conn.handler \in HandlerType \cup {NULL}
        /\ conn.listeners \in [DataTypes -> ListenerType \cup {NULL}]
    BY <2>3 DEF ConnectorType
  <2> QED
    BY <2>1, <2>2, <2>4 DEF ListenerType
<1>5. ASSUME NEW u \in Users
      PROVE  /\ user[u].pc \in {"idle", "get", "load", "file", "register", "wait", "blocked"}
             /\ user[u].todo \in Seq(DataTypes)
             /\ user[u].waits \in Seq([type : DataTypes, number : Nat, data : MaybeData])
             /\ {user[u].data, user[u].file} \subseteq MaybeData
             /\ \A t \in DOMAIN user[u].found :
                  user[u].found[t] \in Revisions \cup {NotFound, Timeout}
  <2>1. user[u] \in UserType
    BY DEF TypeInv
  <2>2. WaitType \subseteq [type : DataTypes, number : Nat, data : MaybeData]
    BY <1>1 DEF WaitType
  <2>3. /\ user[u].pc \in {"idle", "get", "load", "file", "register", "wait", "blocked"}
        /\ user[u].todo \in Seq(DataTypes) /\ user[u].waits \in Seq(WaitType)
        /\ user[u].data \in OptData /\ user[u].file \in OptData /\ user[u].found \in FoundType
    BY <2>1 DEF UserType
  <2>4. user[u].waits \in Seq([type : DataTypes, number : Nat, data : MaybeData])
    <3> DEFINE T == [type : DataTypes, number : Nat, data : MaybeData]
               q == user[u].waits
    <3>1. WaitType \subseteq T /\ q \in Seq(WaitType)
      BY <2>2, <2>3
    <3> HIDE DEF T, q
    <3>2. q \in Seq(T)
      BY <3>1, SeqOfLarger
    <3> QED
      BY <3>2 DEF T, q
  <2>5. \A t \in DOMAIN user[u].found : user[u].found[t] \in Revisions \cup {NotFound, Timeout}
    BY <2>3 DEF FoundType
  <2> QED
    BY <1>1, <2>3, <2>4, <2>5
<1> QED
  BY <1>2, <1>3, <1>4, <1>5 DEF TypeInv, TypeOK, PersistType, BoundsType

-----------------------------------------------------------------------------
(* RegistryInv holds in every state. *)
LEMMA RegistryInvariant ==
  ASSUME AllSheltered PROVE Spec => []RegistryInv
<1>1. RegistryInv /\ [Next]_vars => RegistryInv'
  BY StepKeeps
<1> QED
  BY <1>1, InitKeeps, PTL DEF Spec

(* The registry's state has its type, in the setups that AllSheltered      *)
(* allows.                                                                 *)
THEOREM RegistryTypeCorrect ==
  ASSUME AllSheltered PROVE Spec => []TypeOK
BY RegistryInvariant, TypeFromInv, PTL

(* No thread uses a ServiceDataNotify, Service or ServiceData that another *)
(* one has deleted, and the assertions of CreateServiceInLock and          *)
(* ProcessQueuedListener hold, however many threads ask and in whichever   *)
(* order calls, answers, expiries and restarts come, as long as the        *)
(* expiry of a service meets no call or answer in the middle (calm) or     *)
(* only rate limit rules are asked for.                                    *)
THEOREM RegistrySafe ==
  ASSUME AllSheltered PROVE Spec => []HandlersSafe
<1>1. RegistryInv => HandlersSafe
  BY DEF RegistryInv, HandlersSafe
<1> QED
  BY <1>1, RegistryInvariant, PTL

(* service_data_notify_map_, the cached data and the handlers registered   *)
(* with the server connector agree in every state, whatever is queued,     *)
(* in the same setups: a call never waits on a notify nobody notifies, and *)
(* no data stays that no server updates.                                   *)
THEOREM RegistryAgrees ==
  ASSUME AllSheltered PROVE Spec => []HandlersMatch
BY RegistryInvariant, MatchFromInv, PTL
=============================================================================
