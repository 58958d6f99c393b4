------------------------ MODULE InstancesFutureProof ------------------------
(***************************************************************************)
(* Proofs about InstancesFuture, for any number of queries and any data:   *)
(* watchers, timers and references agree, and the callbacks of the users   *)
(* are called as CallbackOnce allows.                                      *)
(*                                                                         *)
(* The argument follows the stage each query is in: not asked (the future  *)
(* alone), answered at once, waiting for AddTimeoutWatcher, listening with *)
(* a timer, and over.  What has to be shown is that no step can take a     *)
(* query through two of the ends: the last data, the timer and the task    *)
(* that adds the watcher each find it in the stage they expect.            *)
(***************************************************************************)
EXTENDS InstancesFuture, SequenceTheorems, FiniteSetTheorems, TLAPS

AllKinds == {"instances", "rule", "source"}
DataKeys == {Key(k) : k \in Wanted}
WatcherType == [flags : SUBSET AllKinds, refs : Int, timer : BOOLEAN]
TaskType == [type : {"add"}, of : setup.futures] \cup [type : {"change"}, of : DataKeys]

(* A future, whatever data it holds. *)
FutureWith(data) ==
  [waits : SUBSET AllKinds, held : data, ready : BOOLEAN, refs : Int,
   result : {NULL, "Ok", "NotFound", "Timeout"}]
IsFuture(fu) == \E data : fu \in FutureWith(data)

(* NULL is none of the objects. *)
NullIsNoObject ==
  /\ NULL \notin WatcherType
  /\ \A fu : IsFuture(fu) => fu # NULL

TypeInv ==
  /\ setup \in Setups
  /\ DOMAIN store = DataKeys
  /\ future = [f \in setup.futures |-> future[f]]
  /\ watcher \in [setup.futures -> WatcherType \cup {NULL}]
  /\ called = [f \in setup.futures |-> called[f]]
  /\ listening \in [DataKeys -> SUBSET setup.futures]
  /\ tasks \in Seq(TaskType)

(* The task that will add the watcher of f. *)
AddsAt(i, f) == tasks[i].type = "add" /\ tasks[i].of = f

HasFuture(f, refs) == IsFuture(future[f]) /\ future[f].refs = refs

NotAsked(f) ==
  watcher[f] = NULL /\ called[f] = <<>> /\ (future[f] = NULL \/ HasFuture(f, 1))
AtOnce(f) == watcher[f] = NULL /\ called[f] = <<"ready">> /\ HasFuture(f, 0)
Added(f) ==
  /\ watcher[f] = [flags |-> {}, refs |-> 1, timer |-> FALSE]
  /\ called[f] = <<>> /\ HasFuture(f, 2)
  /\ \E i \in 1 .. Len(tasks) : AddsAt(i, f)
Listens(f) ==
  /\ watcher[f] # NULL /\ watcher[f].timer
  /\ watcher[f].flags # {} /\ watcher[f].refs = Cardinality(watcher[f].flags)
  /\ called[f] = <<>> /\ HasFuture(f, 2)
Over(f) ==
  /\ watcher[f] # NULL /\ ~watcher[f].timer /\ watcher[f].refs = 0
  /\ called[f] \in {<<"ready">>, <<"timeout">>} /\ HasFuture(f, 0)

StageInv ==
  \A f \in setup.futures : NotAsked(f) \/ AtOnce(f) \/ Added(f) \/ Listens(f) \/ Over(f)

(* Only a listening watcher is in a set, under a key it still waits for;   *)
(* a watcher is added once.                                                *)
ListedInv ==
  \A k \in DataKeys : \A f \in listening[k] : Listens(f) /\ k \in watcher[f].flags
TasksInv ==
  /\ \A i \in 1 .. Len(tasks) : tasks[i].type = "add" => Added(tasks[i].of)
  /\ \A i, j \in 1 .. Len(tasks) :
       tasks[i].type = "add" /\ tasks[j].type = "add" /\ tasks[i].of = tasks[j].of => i = j

QueryInv == TypeInv /\ StageInv /\ ListedInv /\ TasksInv

-----------------------------------------------------------------------------
(* The own rule of a service has one key, and only that. *)
LEMMA KeyOfKey == \A k \in Wanted : Key(k) \in AllKinds /\ Key(Key(k)) = Key(k)
BY DEF Key, Wanted, AllKinds

LEMMA WantedKinds == Wanted \subseteq AllKinds /\ Wanted # {}
BY DEF Wanted, AllKinds

LEMMA FlagsFinite == \A flags \in SUBSET AllKinds : IsFiniteSet(flags) /\ Cardinality(flags) \in Nat
<1>1. IsFiniteSet({"instances"}) /\ IsFiniteSet({"rule"}) /\ IsFiniteSet({"source"})
  BY FS_Singleton
<1>2. IsFiniteSet({"instances"} \cup {"rule"})
  BY <1>1, FS_Union
<1>3. IsFiniteSet(({"instances"} \cup {"rule"}) \cup {"source"})
  BY <1>1, <1>2, FS_Union
<1>4. AllKinds = ({"instances"} \cup {"rule"}) \cup {"source"}
  BY DEF AllKinds
<1> QED
  BY <1>3, <1>4, FS_Subset, FS_CardinalityType

(* What CheckReady, Get and Release do with the references of a future. *)
LEMMA FutureRefs ==
  ASSUME NEW fu, IsFuture(fu)
  PROVE  /\ IsFuture(CheckReady(fu)) /\ CheckReady(fu).refs = fu.refs
         /\ IsFuture(Get(fu)) /\ Get(fu).refs = fu.refs
         /\ \A n \in Int : IsFuture(Release(fu, n)) /\ Release(fu, n).refs = fu.refs - n
<1>1. PICK data : fu \in FutureWith(data)
  BY DEF IsFuture
<1>2. \E more : CheckReady(fu) \in FutureWith(more) /\ CheckReady(fu).refs = fu.refs
  <2>1. PICK ready \in BOOLEAN : \E held : WaitData(fu) = [fu EXCEPT !.ready = ready, !.held = held]
    BY DEF WaitData
  <2>2. PICK held : WaitData(fu) = [fu EXCEPT !.ready = ready, !.held = held]
    BY <2>1
  <2>3. fu \in FutureWith(data \cup {held}) /\ held \in data \cup {held}
    BY <1>1 DEF FutureWith
  <2>4. PICK more : fu \in FutureWith(more) /\ held \in more
    BY <2>3
  <2>5. [fu EXCEPT !.ready = ready, !.held = held] \in FutureWith(more)
    BY <2>4 DEF FutureWith
  <2>6. [fu EXCEPT !.ready = ready, !.held = held].refs = fu.refs
    BY <2>4 DEF FutureWith
  <2>7. [fu EXCEPT !.ready = TRUE] \in FutureWith(more) /\ [fu EXCEPT !.ready = TRUE].refs = fu.refs
    BY <2>4 DEF FutureWith
  <2> QED
    BY <2>2, <2>5, <2>6, <2>7 DEF CheckReady
<1>3. PICK w, more : w = CheckReady(fu) /\ w \in FutureWith(more) /\ w.refs = fu.refs
  BY <1>2
<1>4. Get(fu) \in FutureWith(more) /\ Get(fu).refs = w.refs
  <2>1. PICK result \in {"Ok", "NotFound"} :
          SetDataToRouteInfo(w) = [w EXCEPT !.waits = {}, !.result = result]
    BY DEF SetDataToRouteInfo
  <2>2. [w EXCEPT !.waits = {}, !.result = result] \in FutureWith(more)
    BY <1>3 DEF FutureWith
  <2>3. [w EXCEPT !.waits = {}, !.result = result].refs = w.refs
    BY <1>3 DEF FutureWith
  <2>4. [w EXCEPT !.result = "Timeout"] \in FutureWith(more) /\ [w EXCEPT !.result = "Timeout"].refs = w.refs
    BY <1>3 DEF FutureWith
  <2> QED
    BY <1>3, <2>1, <2>2, <2>3, <2>4 DEF Get
<1>5. ASSUME NEW n \in Int
      PROVE  Release(fu, n) \in FutureWith(data) /\ Release(fu, n).refs = fu.refs - n
  BY <1>1 DEF FutureWith, Release
<1> QED
  BY <1>2, <1>3, <1>4, <1>5 DEF IsFuture

LEMMA InitInv == Init => QueryInv
<1> SUFFICES ASSUME Init PROVE QueryInv
  OBVIOUS
<1>1. TypeInv
  BY DEF Init, TypeInv, DataKeys
<1>2. StageInv
  BY DEF Init, StageInv, NotAsked
<1>3. ListedInv /\ TasksInv
  BY DEF Init, ListedInv, TasksInv, DataKeys
<1> QED
  BY <1>1, <1>2, <1>3 DEF QueryInv

-----------------------------------------------------------------------------
LEMMA SetupFrame ==
  ASSUME UNCHANGED setup
  PROVE  Wanted' = Wanted /\ DataKeys' = DataKeys /\ TaskType' = TaskType
BY DEF Wanted, DataKeys, Key, TaskType

LEMMA KeysWanted == DataKeys \subseteq Wanted /\ DataKeys \subseteq AllKinds
BY DEF DataKeys, Key, Wanted, AllKinds

(* A query keeps its stage while its objects and its task stay. *)
StageKept(f) ==
  /\ NotAsked(f) => NotAsked(f)'
  /\ AtOnce(f) => AtOnce(f)'
  /\ Added(f) => Added(f)'
  /\ Listens(f) => Listens(f)'
  /\ Over(f) => Over(f)'

LEMMA StageFrame ==
  ASSUME NEW f, watcher'[f] = watcher[f], called'[f] = called[f], future'[f] = future[f],
         \A i \in 1 .. Len(tasks) : AddsAt(i, f) => \E j \in 1 .. Len(tasks') : AddsAt(j, f)'
  PROVE  StageKept(f)
BY DEF StageKept, NotAsked, AtOnce, Added, Listens, Over, HasFuture, IsFuture, FutureWith

LEMMA CalledDiffer == <<"ready">> # <<>> /\ <<"timeout">> # <<>>
OBVIOUS

(* The stages exclude each other. *)
LEMMA StagesDiffer ==
  ASSUME NullIsNoObject, NEW f, watcher[f] \in WatcherType \cup {NULL}
  PROVE  /\ NotAsked(f) \/ AtOnce(f) <=> watcher[f] = NULL /\ (NotAsked(f) \/ AtOnce(f))
         /\ Added(f) => watcher[f] # NULL /\ ~watcher[f].timer /\ ~Listens(f)
         /\ future[f] = NULL => ~(AtOnce(f) \/ Added(f) \/ Listens(f) \/ Over(f))
<1>1. [flags |-> {}, refs |-> 1, timer |-> FALSE] \in WatcherType
  BY DEF WatcherType
<1> QED
  BY <1>1 DEF NullIsNoObject, NotAsked, AtOnce, Added, Listens, Over, HasFuture

(* Tasks wait in a queue. *)
LEMMA TaskAdded ==
  ASSUME TypeInv, UNCHANGED setup, NEW t \in TaskType, tasks' = Append(tasks, t)
  PROVE  /\ tasks' \in Seq(TaskType') /\ Len(tasks') = Len(tasks) + 1 /\ tasks'[Len(tasks) + 1] = t
         /\ \A i \in 1 .. Len(tasks) : i \in 1 .. Len(tasks') /\ tasks'[i] = tasks[i]
         /\ \A f : \A i \in 1 .. Len(tasks) : AddsAt(i, f) => \E j \in 1 .. Len(tasks') : AddsAt(j, f)'
<1>1. TaskType' = TaskType
  BY SetupFrame
<1>2. /\ tasks' \in Seq(TaskType') /\ Len(tasks') = Len(tasks) + 1 /\ tasks'[Len(tasks) + 1] = t
      /\ \A i \in 1 .. Len(tasks) : i \in 1 .. Len(tasks') /\ tasks'[i] = tasks[i]
  BY <1>1 DEF TypeInv
<1> QED
  BY <1>2 DEF AddsAt

LEMMA TaskTaken ==
  ASSUME TypeInv, UNCHANGED setup, tasks # <<>>, tasks' = Tail(tasks)
  PROVE  /\ tasks' \in Seq(TaskType') /\ Len(tasks') = Len(tasks) - 1
         /\ 1 \in 1 .. Len(tasks) /\ tasks[1] = Head(tasks) /\ tasks[1] \in TaskType
         /\ \A i \in 1 .. Len(tasks') : i + 1 \in 1 .. Len(tasks) /\ tasks'[i] = tasks[i + 1]
         /\ \A f : \A i \in 1 .. Len(tasks) :
              AddsAt(i, f) /\ ~AddsAt(1, f) => \E j \in 1 .. Len(tasks') : AddsAt(j, f)'
<1>1. TaskType' = TaskType
  BY SetupFrame
<1>2. /\ tasks' \in Seq(TaskType') /\ Len(tasks') = Len(tasks) - 1 /\ Len(tasks) \in Nat
      /\ 1 \in 1 .. Len(tasks) /\ tasks[1] = Head(tasks) /\ tasks[1] \in TaskType
      /\ \A i \in 1 .. Len(tasks') : i + 1 \in 1 .. Len(tasks) /\ tasks'[i] = tasks[i + 1]
  BY <1>1 DEF TypeInv
<1>3. ASSUME NEW f, NEW i \in 1 .. Len(tasks), AddsAt(i, f), ~AddsAt(1, f)
      PROVE  \E j \in 1 .. Len(tasks') : AddsAt(j, f)'
  <2>1. i # 1
    BY <1>3
  <2>2. i - 1 \in 1 .. Len(tasks') /\ (i - 1) + 1 = i
    BY <1>2, <2>1
  <2>3. AddsAt(i - 1, f)'
    BY <1>2, <1>3, <2>2 DEF AddsAt
  <2> QED
    BY <2>2, <2>3
<1> QED
  BY <1>2, <1>3

-----------------------------------------------------------------------------
LEMMA AsyncGetInstancesInv ==
  ASSUME NullIsNoObject, QueryInv, NEW f \in setup.futures, AsyncGetInstances(f)
  PROVE  QueryInv'
<1>1. /\ UNCHANGED <<setup, store, notified, watcher, listening, tasks, called>>
      /\ future[f] = NULL
  BY DEF AsyncGetInstances
<1>2. NotAsked(f)
  BY <1>1, StagesDiffer DEF QueryInv, TypeInv, StageInv
<1>3. PICK waits, held : waits \in SUBSET AllKinds /\ future' = [future EXCEPT ![f] = Future(waits, held)]
  BY WantedKinds DEF AsyncGetInstances
<1>4. IsFuture(Future(waits, held)) /\ Future(waits, held).refs = 1
  <2>1. Future(waits, held) \in FutureWith({held}) /\ Future(waits, held).refs = 1
    BY <1>3 DEF Future, FutureWith
  <2> QED
    BY <2>1 DEF IsFuture
<1>5. /\ future' = [g \in setup.futures |-> future'[g]] /\ future'[f] = Future(waits, held)
      /\ \A g \in setup.futures \ {f} : future'[g] = future[g]
  BY <1>3 DEF QueryInv, TypeInv
<1>6. TypeInv'
  BY <1>1, <1>5, SetupFrame DEF QueryInv, TypeInv
<1>7. \A i, g : AddsAt(i, g) => AddsAt(i, g)'
  BY <1>1 DEF AddsAt
<1>8. NotAsked(f)' /\ ~Added(f) /\ ~Listens(f)
  BY <1>1, <1>2, <1>4, <1>5, StagesDiffer DEF NotAsked, HasFuture, IsFuture, FutureWith, Listens, QueryInv, TypeInv
<1>9. \A g \in setup.futures \ {f} : StageKept(g)
  BY <1>1, <1>5, <1>7, StageFrame
<1>10. StageInv'
  BY <1>1, <1>8, <1>9 DEF QueryInv, StageInv, StageKept
<1>11. ListedInv'
  BY <1>1, <1>8, <1>9, SetupFrame DEF QueryInv, ListedInv, TypeInv, StageKept
<1>12. TasksInv'
  BY <1>1, <1>8, <1>9 DEF QueryInv, TasksInv, TypeInv, TaskType, StageKept
<1> QED
  BY <1>6, <1>10, <1>11, <1>12 DEF QueryInv

(* Steps that concern one query: the others keep their stages. *)
LEMMA OthersFrame ==
  ASSUME NEW f,
         \A g \in setup.futures \ {f} :
           /\ watcher'[g] = watcher[g] /\ called'[g] = called[g] /\ future'[g] = future[g]
           /\ \A i \in 1 .. Len(tasks) : AddsAt(i, g) => \E j \in 1 .. Len(tasks') : AddsAt(j, g)'
  PROVE  \A g \in setup.futures \ {f} : StageKept(g)
BY StageFrame

LEMMA SetServiceCacheNotifyInv ==
  ASSUME NullIsNoObject, QueryInv, NEW f \in setup.futures, SetServiceCacheNotify(f)
  PROVE  QueryInv'
<1>1. /\ UNCHANGED <<setup, store, notified, listening>>
      /\ future[f] # NULL /\ watcher[f] = NULL /\ called[f] = <<>>
  BY DEF SetServiceCacheNotify
<1>2. NotAsked(f) /\ HasFuture(f, 1) /\ ~Added(f) /\ ~Listens(f)
  <2>1. ~Added(f)
    BY <1>1, StagesDiffer DEF QueryInv, TypeInv
  <2>2. ~AtOnce(f)
    BY <1>1, CalledDiffer DEF AtOnce
  <2> QED
    BY <1>1, <2>1, <2>2 DEF QueryInv, StageInv, NotAsked, Listens, Over
<1>3. PICK fu : fu = CheckReady(future[f]) /\ IsFuture(fu) /\ fu.refs = 1
  BY <1>2, FutureRefs DEF HasFuture
<1>4. \A k \in DataKeys : f \notin listening[k]
  BY <1>2 DEF QueryInv, ListedInv
<1>5. \A i \in 1 .. Len(tasks) : tasks[i].type = "add" => tasks[i].of # f
  BY <1>2 DEF QueryInv, TasksInv, StageKept
<1>6. CASE fu.ready
  <2>1. /\ called' = [called EXCEPT ![f] = <<"ready">>] /\ UNCHANGED <<watcher, tasks>>
        /\ future' = [future EXCEPT ![f] = Release(Get(fu), 1)]
    BY <1>3, <1>6 DEF SetServiceCacheNotify
  <2>2. IsFuture(Get(fu)) /\ Get(fu).refs = 1
    BY <1>3, FutureRefs
  <2>3. IsFuture(Release(Get(fu), 1)) /\ Release(Get(fu), 1).refs = 0
    BY <2>2, FutureRefs
  <2>4. /\ future' = [g \in setup.futures |-> future'[g]] /\ future'[f] = Release(Get(fu), 1)
        /\ \A g \in setup.futures \ {f} : future'[g] = future[g] /\ called'[g] = called[g]
        /\ called' = [g \in setup.futures |-> called'[g]] /\ called'[f] = <<"ready">>
    BY <2>1 DEF QueryInv, TypeInv
  <2>5. TypeInv'
    BY <1>1, <2>1, <2>4, SetupFrame DEF QueryInv, TypeInv
  <2>6. AtOnce(f)'
    BY <1>1, <2>1, <2>3, <2>4 DEF AtOnce, HasFuture, IsFuture, FutureWith
  <2>7. \A g \in setup.futures \ {f} :
          \A i \in 1 .. Len(tasks) : AddsAt(i, g) => \E j \in 1 .. Len(tasks') : AddsAt(j, g)'
    BY <2>1 DEF AddsAt
  <2>9. StageInv' /\ ListedInv' /\ TasksInv'
    <3>1. \A g \in setup.futures \ {f} : StageKept(g)
      BY <2>1, <2>4, <2>7, OthersFrame
    <3>2. StageInv'
      BY <1>1, <2>6, <3>1 DEF QueryInv, StageInv, StageKept
    <3>3. ListedInv'
      BY <1>1, <1>4, <2>1, <3>1, SetupFrame DEF QueryInv, ListedInv, TypeInv, StageKept
    <3>4. TasksInv'
      BY <1>1, <1>5, <2>1, <3>1 DEF QueryInv, TasksInv, TypeInv, TaskType, StageKept
    <3> QED
      BY <3>2, <3>3, <3>4
  <2> QED
    BY <2>5, <2>9 DEF QueryInv
<1>7. CASE ~fu.ready
  <2>1. /\ UNCHANGED called /\ future' = [future EXCEPT ![f] = [fu EXCEPT !.refs = @ + 1]]
        /\ watcher' = [watcher EXCEPT ![f] = [flags |-> {}, refs |-> 1, timer |-> FALSE]]
        /\ tasks' = Append(tasks, [type |-> "add", of |-> f])
    BY <1>3, <1>7 DEF SetServiceCacheNotify
  <2>2. PICK new : new = [fu EXCEPT !.refs = @ + 1] /\ IsFuture(new) /\ new.refs = 2
    <3>1. PICK data : fu \in FutureWith(data)
      BY <1>3 DEF IsFuture
    <3>2. [fu EXCEPT !.refs = @ + 1] \in FutureWith(data) /\ [fu EXCEPT !.refs = @ + 1].refs = 2
      BY <1>3, <3>1 DEF FutureWith
    <3> QED
      BY <3>2 DEF IsFuture
  <2>3. [flags |-> {}, refs |-> 1, timer |-> FALSE] \in WatcherType
    BY DEF WatcherType
  <2>4. /\ future' = [g \in setup.futures |-> future'[g]] /\ future'[f] = new
        /\ watcher' \in [setup.futures -> WatcherType \cup {NULL}]
        /\ watcher'[f] = [flags |-> {}, refs |-> 1, timer |-> FALSE]
        /\ \A g \in setup.futures \ {f} : future'[g] = future[g] /\ watcher'[g] = watcher[g]
    BY <2>1, <2>2, <2>3 DEF QueryInv, TypeInv
  <2>5. PICK t \in TaskType : t = [type |-> "add", of |-> f] /\ t.type = "add" /\ t.of = f
    <3>1. [type |-> "add", of |-> f] \in TaskType
      BY DEF TaskType
    <3> QED
      BY <3>1
  <2>6. tasks' = Append(tasks, t) /\ TypeInv
    BY <2>1, <2>5 DEF QueryInv
  <2>7. TypeInv'
    BY <1>1, <2>1, <2>4, <2>6, TaskAdded, SetupFrame DEF TypeInv
  <2>8. PICK n \in Nat : n = Len(tasks)
    BY <2>6 DEF TypeInv
  <2>9. Added(f)'
    <3>1. AddsAt(n + 1, f)' /\ n + 1 \in 1 .. Len(tasks')
      <4>1. tasks'[n + 1] = t /\ Len(tasks') = n + 1
        BY <1>1, <2>6, <2>8, TaskAdded
      <4> QED
        BY <2>5, <2>8, <4>1 DEF AddsAt
    <3>2. HasFuture(f, 2)'
      BY <2>2, <2>4 DEF HasFuture, IsFuture, FutureWith
    <3>3. called'[f] = <<>>
      BY <1>1, <2>1
    <3> QED
      BY <2>4, <3>1, <3>2, <3>3 DEF Added
  <2>10. \A g \in setup.futures \ {f} :
           /\ watcher'[g] = watcher[g] /\ called'[g] = called[g] /\ future'[g] = future[g]
           /\ \A i \in 1 .. Len(tasks) : AddsAt(i, g) => \E j \in 1 .. Len(tasks') : AddsAt(j, g)'
    BY <1>1, <2>1, <2>4, <2>6, TaskAdded
  <2>11. \A g \in setup.futures \ {f} : StageKept(g)
    BY <2>10, OthersFrame
  <2>12. StageInv'
    BY <1>1, <2>9, <2>11 DEF QueryInv, StageInv, StageKept
  <2>13. ListedInv'
    BY <1>1, <1>4, <2>10, <2>11, SetupFrame DEF QueryInv, ListedInv, TypeInv, StageKept
  <2>14. TasksInv'
    <3>1. /\ Len(tasks') = Len(tasks) + 1 /\ tasks'[Len(tasks) + 1] = t
          /\ \A i \in 1 .. Len(tasks) : tasks'[i] = tasks[i] /\ tasks[i] \in TaskType
      BY <1>1, <2>6, TaskAdded DEF TypeInv
    <3>2. \A i \in 1 .. Len(tasks') : i = Len(tasks) + 1 \/ i \in 1 .. Len(tasks)
      BY <2>8, <3>1
    <3>3. \A i \in 1 .. Len(tasks') : tasks'[i].type = "add" => Added(tasks[i].of)'
      <4> SUFFICES ASSUME NEW i \in 1 .. Len(tasks'), tasks'[i].type = "add"
                   PROVE  Added(tasks[i].of)'
        OBVIOUS
      <4>1. PICK g : g = tasks'[i].of
        OBVIOUS
      <4>2. Added(g)'
        <5>1. CASE i = Len(tasks) + 1
          BY <2>5, <2>9, <3>1, <4>1, <5>1
        <5>2. CASE i \in 1 .. Len(tasks)
          <6>1. g = tasks[i].of /\ tasks[i].type = "add" /\ g \in setup.futures
            BY <3>1, <4>1, <5>2 DEF TaskType
          <6> QED
            BY <1>5, <2>11, <5>2, <6>1 DEF QueryInv, TasksInv, StageKept
        <5> QED
          BY <3>2, <5>1, <5>2
      <4> QED
        BY <4>1, <4>2 DEF Added, HasFuture, AddsAt
    <3>4. \A i, j \in 1 .. Len(tasks') :
            tasks'[i].type = "add" /\ tasks'[j].type = "add" /\ tasks'[i].of = tasks'[j].of => i = j
      BY <1>5, <2>5, <3>1, <3>2 DEF QueryInv, TasksInv, StageKept
    <3> QED
      BY <3>3, <3>4 DEF TasksInv
  <2> QED
    BY <2>7, <2>12, <2>13, <2>14 DEF QueryInv
<1> QED
  BY <1>6, <1>7

LEMMA TasksKept ==
  ASSUME \A i \in 1 .. Len(tasks') : tasks'[i].type = "add" => \E g : g = tasks'[i].of /\ Added(g)',
         \A i, j \in 1 .. Len(tasks') :
           tasks'[i].type = "add" /\ tasks'[j].type = "add" /\ tasks'[i].of = tasks'[j].of => i = j
  PROVE  TasksInv'
<1> SUFFICES ASSUME NEW i \in 1 .. Len(tasks'), tasks'[i].type = "add"
             PROVE  Added(tasks[i].of)'
  BY DEF TasksInv
<1>1. PICK g : g = tasks'[i].of /\ Added(g)'
  OBVIOUS
<1> QED
  BY <1>1 DEF Added, HasFuture, AddsAt

LEMMA AddTimeoutWatcherInv ==
  ASSUME NullIsNoObject, QueryInv, AddTimeoutWatcher
  PROVE  QueryInv'
<1>1. /\ UNCHANGED <<setup, store, notified>> /\ TypeInv
      /\ tasks # <<>> /\ Head(tasks).type = "add" /\ tasks' = Tail(tasks)
  BY DEF AddTimeoutWatcher, QueryInv
<1>2. PICK f : f = Head(tasks).of
  OBVIOUS
<1>3. AddsAt(1, f) /\ f \in setup.futures /\ Added(f)
  <2>1. 1 \in 1 .. Len(tasks) /\ tasks[1] = Head(tasks) /\ tasks[1] \in TaskType
    BY <1>1, TaskTaken
  <2> QED
    BY <1>1, <1>2, <2>1 DEF AddsAt, TaskType, QueryInv, TasksInv
<1>4. watcher[f] \in WatcherType /\ ~watcher[f].timer /\ ~Listens(f) /\ called[f] = <<>> /\ HasFuture(f, 2)
  BY <1>1, <1>3, StagesDiffer DEF TypeInv, Added
<1>5. \A k \in DataKeys : f \notin listening[k]
  BY <1>4 DEF QueryInv, ListedInv
<1>6. ASSUME NEW g \in setup.futures \ {f}, NEW i \in 1 .. Len(tasks), AddsAt(i, g)
      PROVE  \E j \in 1 .. Len(tasks') : AddsAt(j, g)'
  <2>1. ~AddsAt(1, g)
    BY <1>3, <1>6 DEF AddsAt
  <2> QED
    BY <1>1, <1>6, <2>1, TaskTaken
<1>7. \A i \in 1 .. Len(tasks') :
        tasks'[i].type = "add" => /\ tasks'[i].of \in setup.futures \ {f} /\ Added(tasks'[i].of)
                                  /\ i + 1 \in 1 .. Len(tasks) /\ tasks'[i] = tasks[i + 1]
  <2> SUFFICES ASSUME NEW i \in 1 .. Len(tasks'), tasks'[i].type = "add"
               PROVE  /\ tasks'[i].of \in setup.futures \ {f} /\ Added(tasks'[i].of)
                      /\ i + 1 \in 1 .. Len(tasks) /\ tasks'[i] = tasks[i + 1]
    OBVIOUS
  <2>1. i + 1 \in 1 .. Len(tasks) /\ tasks'[i] = tasks[i + 1] /\ 1 \in 1 .. Len(tasks)
    BY <1>1, TaskTaken
  <2>2. tasks[i + 1] \in TaskType /\ i + 1 # 1
    BY <1>1, <2>1 DEF TypeInv
  <2>3. tasks[i + 1].of # f
    BY <1>3, <2>1, <2>2 DEF QueryInv, TasksInv, AddsAt
  <2> QED
    BY <2>1, <2>2, <2>3 DEF QueryInv, TasksInv, TaskType
<1>8. \A i, j \in 1 .. Len(tasks') :
         tasks'[i].type = "add" /\ tasks'[j].type = "add" /\ tasks'[i].of = tasks'[j].of => i = j
  <2> SUFFICES ASSUME NEW i \in 1 .. Len(tasks'), NEW j \in 1 .. Len(tasks'), tasks'[i].type = "add",
                      tasks'[j].type = "add", tasks'[i].of = tasks'[j].of
               PROVE  i = j
    OBVIOUS
  <2>1. i + 1 = j + 1
    BY <1>7 DEF QueryInv, TasksInv
  <2> QED
    BY <2>1
<1>9. CASE IsDataReady(future[f], FALSE)
  <2>1. /\ called' = [called EXCEPT ![f] = Append(@, "ready")] /\ UNCHANGED listening
        /\ future' = [future EXCEPT ![f] = Release(Get(@), 2)]
        /\ watcher' = [watcher EXCEPT ![f] = [@ EXCEPT !.refs = 0]]
    BY <1>2, <1>9 DEF AddTimeoutWatcher
  <2>2. /\ [watcher[f] EXCEPT !.refs = 0] \in WatcherType
        /\ [watcher[f] EXCEPT !.refs = 0].refs = 0 /\ ~[watcher[f] EXCEPT !.refs = 0].timer
    BY <1>4 DEF WatcherType
  <2>3. IsFuture(Get(future[f])) /\ Get(future[f]).refs = 2
    BY <1>4, FutureRefs DEF HasFuture
  <2>4. PICK new : new = Release(Get(future[f]), 2) /\ IsFuture(new) /\ new.refs = 0
    BY <2>3, FutureRefs
  <2>5. /\ future' = [g \in setup.futures |-> future'[g]] /\ future'[f] = new
        /\ watcher' \in [setup.futures -> WatcherType \cup {NULL}]
        /\ watcher'[f] = [watcher[f] EXCEPT !.refs = 0]
        /\ called' = [g \in setup.futures |-> called'[g]] /\ called'[f] = Append(<<>>, "ready")
        /\ \A g \in setup.futures \ {f} :
             future'[g] = future[g] /\ watcher'[g] = watcher[g] /\ called'[g] = called[g]
    BY <1>1, <1>3, <1>4, <2>1, <2>2, <2>4 DEF TypeInv
  <2>6. TypeInv'
    BY <1>1, <2>1, <2>5, TaskTaken, SetupFrame DEF TypeInv
  <2>7. Over(f)'
    <3>1. watcher'[f] # NULL /\ called'[f] = <<"ready">>
      BY <2>2, <2>5 DEF NullIsNoObject
    <3> QED
      BY <2>2, <2>4, <2>5, <3>1 DEF Over, HasFuture, IsFuture, FutureWith
  <2>8. \A g \in setup.futures \ {f} : StageKept(g)
    BY <1>6, <2>5, OthersFrame
  <2>9. StageInv'
    BY <1>1, <2>7, <2>8 DEF QueryInv, StageInv, StageKept
  <2>10. ListedInv'
    BY <1>1, <1>5, <2>1, <2>5, <2>8, SetupFrame DEF QueryInv, ListedInv, TypeInv, StageKept
  <2>11. TasksInv'
    <3>1. \A i \in 1 .. Len(tasks') : tasks'[i].type = "add" => \E g : g = tasks'[i].of /\ Added(g)'
      BY <1>7, <2>8 DEF StageKept
    <3> QED
      BY <1>8, <3>1, TasksKept
  <2> QED
    BY <2>6, <2>9, <2>10, <2>11 DEF QueryInv
<1>10. CASE ~IsDataReady(future[f], FALSE)
  <2>1. /\ listening' = [k \in DOMAIN listening |->
                           IF \E w \in Wanted : Key(w) = k THEN listening[k] \cup {f} ELSE listening[k]]
        /\ watcher' = [watcher EXCEPT ![f] = [flags |-> Wanted, refs |-> Cardinality(Wanted), timer |-> TRUE]]
        /\ UNCHANGED <<called, future>>
    BY <1>2, <1>10 DEF AddTimeoutWatcher
  <2>2. PICK w \in WatcherType : w = [flags |-> Wanted, refs |-> Cardinality(Wanted), timer |-> TRUE]
    <3>1. [flags |-> Wanted, refs |-> Cardinality(Wanted), timer |-> TRUE] \in WatcherType
      BY WantedKinds, FlagsFinite DEF WatcherType
    <3> QED
      BY <3>1
  <2>3. w # NULL /\ w.timer /\ w.flags = Wanted /\ w.refs = Cardinality(w.flags) /\ w.flags # {}
    BY <2>2, WantedKinds DEF NullIsNoObject
  <2>4. /\ watcher' \in [setup.futures -> WatcherType \cup {NULL}] /\ watcher'[f] = w
        /\ \A g \in setup.futures \ {f} : watcher'[g] = watcher[g]
    BY <1>1, <1>3, <2>1, <2>2 DEF TypeInv
  <2>5. /\ listening' \in [DataKeys -> SUBSET setup.futures]
        /\ \A k \in DataKeys : listening'[k] \subseteq listening[k] \cup {f}
    BY <1>1, <1>3, <2>1 DEF TypeInv
  <2>6. TypeInv'
    BY <1>1, <2>1, <2>4, <2>5, TaskTaken, SetupFrame DEF TypeInv
  <2>7. Listens(f)' /\ watcher'[f].flags = Wanted
    BY <1>4, <2>1, <2>3, <2>4 DEF Listens, HasFuture, IsFuture, FutureWith
  <2>8. \A g \in setup.futures \ {f} : StageKept(g)
    BY <1>6, <2>1, <2>4, OthersFrame
  <2>9. StageInv'
    BY <1>1, <2>7, <2>8 DEF QueryInv, StageInv, StageKept
  <2>10. ListedInv'
    BY <1>1, <2>4, <2>5, <2>7, <2>8, SetupFrame, KeysWanted DEF QueryInv, ListedInv, TypeInv, StageKept
  <2>11. TasksInv'
    <3>1. \A i \in 1 .. Len(tasks') : tasks'[i].type = "add" => \E g : g = tasks'[i].of /\ Added(g)'
      BY <1>7, <2>8 DEF StageKept
    <3> QED
      BY <1>8, <3>1, TasksKept
  <2> QED
    BY <2>6, <2>9, <2>10, <2>11 DEF QueryInv
<1> QED
  BY <1>9, <1>10

LEMMA NotifyReadyFields ==
  ASSUME NEW w \in WatcherType, NEW key \in w.flags
  PROVE  /\ NotifyReady(w, key) \in WatcherType
         /\ NotifyReady(w, key).flags = w.flags \ {key} /\ NotifyReady(w, key).refs = w.refs - 1
         /\ NotifyReady(w, key).timer <=> w.flags # {key}
<1>1. w.refs - 1 \in Int /\ w.flags \ {key} \in SUBSET AllKinds /\ (w.flags # {key}) \in BOOLEAN
  BY DEF WatcherType
<1>2. PICK flags \in SUBSET AllKinds, refs \in Int, timer \in BOOLEAN :
        flags = w.flags \ {key} /\ refs = w.refs - 1 /\ timer = (w.flags # {key})
  BY <1>1
<1>3. NotifyReady(w, key) = [w EXCEPT !.flags = flags, !.refs = refs, !.timer = timer]
  BY <1>2 DEF NotifyReady, WatcherType
<1>4. [w EXCEPT !.flags = flags, !.refs = refs, !.timer = timer] \in WatcherType
  BY DEF WatcherType
<1>5. LET v == [w EXCEPT !.flags = flags, !.refs = refs, !.timer = timer]
      IN v.flags = flags /\ v.refs = refs /\ v.timer = timer
  BY DEF WatcherType
<1> QED
  BY <1>2, <1>3, <1>4, <1>5

LEMMA OnServiceDataChangeInv ==
  ASSUME NullIsNoObject, QueryInv, OnServiceDataChange
  PROVE  QueryInv'
<1>1. /\ UNCHANGED <<setup, store, notified>> /\ TypeInv
      /\ tasks # <<>> /\ Head(tasks).type = "change" /\ tasks' = Tail(tasks)
  BY DEF OnServiceDataChange, QueryInv
<1>2. /\ 1 \in 1 .. Len(tasks) /\ tasks[1] = Head(tasks) /\ tasks[1] \in TaskType
      /\ \A i \in 1 .. Len(tasks') : i + 1 \in 1 .. Len(tasks) /\ tasks'[i] = tasks[i + 1]
  BY <1>1, TaskTaken
<1>3. PICK key \in DataKeys : key = Head(tasks).of
  BY <1>1, <1>2 DEF TaskType
<1>4. PICK done \in SUBSET setup.futures : done = {f \in listening[key] : watcher[f].flags = {key}}
  BY <1>1 DEF TypeInv
<1>5. /\ watcher' = [f \in setup.futures |->
                       IF f \in listening[key] THEN NotifyReady(watcher[f], key) ELSE watcher[f]]
      /\ called' = [f \in setup.futures |-> IF f \in done THEN Append(called[f], "ready") ELSE called[f]]
      /\ future' = [f \in setup.futures |-> IF f \in done THEN Release(Get(future[f]), 2) ELSE future[f]]
      /\ listening' = [listening EXCEPT ![key] = {}]
  <2>1. DOMAIN watcher = setup.futures /\ DOMAIN called = setup.futures /\ DOMAIN future = setup.futures
    BY <1>1 DEF TypeInv
  <2> QED
    BY <1>3, <1>4, <2>1 DEF OnServiceDataChange
<1>6. /\ listening' \in [DataKeys -> SUBSET setup.futures]
      /\ \A k \in DataKeys : listening'[k] = IF k = key THEN {} ELSE listening[k]
  BY <1>1, <1>5 DEF TypeInv
<1>7. ASSUME NEW f \in listening[key]
      PROVE  /\ f \in setup.futures /\ watcher[f] \in WatcherType /\ Listens(f) /\ key \in watcher[f].flags
             /\ watcher'[f] \in WatcherType
             /\ watcher'[f].flags = watcher[f].flags \ {key} /\ watcher'[f].refs = watcher[f].refs - 1
             /\ watcher'[f].timer <=> watcher[f].flags # {key}
  <2>1. f \in setup.futures /\ Listens(f) /\ key \in watcher[f].flags
    BY <1>1, <1>7 DEF TypeInv, QueryInv, ListedInv
  <2>2. watcher[f] \in WatcherType
    BY <1>1, <2>1 DEF TypeInv, Listens
  <2>3. watcher'[f] = NotifyReady(watcher[f], key)
    BY <1>5, <1>7, <2>1
  <2> QED
    BY <2>1, <2>2, <2>3, NotifyReadyFields
<1>8. \A f : \A i \in 1 .. Len(tasks) : AddsAt(i, f) => \E j \in 1 .. Len(tasks') : AddsAt(j, f)'
  <2>1. \A f : ~AddsAt(1, f)
    BY <1>1, <1>2 DEF AddsAt
  <2> QED
    BY <1>1, <2>1, TaskTaken
<1>9. \A f \in setup.futures : f \notin listening[key] => StageKept(f)
  BY <1>4, <1>5, <1>8, StageFrame
<1>10. ASSUME NEW f \in listening[key], watcher[f].flags = {key} PROVE Over(f)'
  <2>1. f \in done /\ f \in setup.futures
    BY <1>4, <1>7, <1>10
  <2>2. called[f] = <<>> /\ HasFuture(f, 2) /\ watcher[f].refs = 1
    <3>1. Cardinality({key}) = 1
      BY FS_Singleton
    <3>2. Listens(f)
      BY <1>7
    <3> QED
      BY <1>10, <3>1, <3>2 DEF Listens
  <2>3. called'[f] = <<"ready">>
    <3>1. called'[f] = Append(<<>>, "ready")
      BY <1>5, <2>1, <2>2
    <3> QED
      BY <3>1
  <2>4. IsFuture(Get(future[f])) /\ Get(future[f]).refs = 2
    BY <2>2, FutureRefs DEF HasFuture
  <2>5. PICK new : new = Release(Get(future[f]), 2) /\ IsFuture(new) /\ new.refs = 0
    BY <2>4, FutureRefs
  <2>6. HasFuture(f, 0)'
    BY <1>5, <2>1, <2>5 DEF HasFuture, IsFuture, FutureWith
  <2> QED
    BY <1>7, <1>10, <2>2, <2>3, <2>6 DEF Over, NullIsNoObject
<1>11. ASSUME NEW f \in listening[key], watcher[f].flags # {key} PROVE Listens(f)'
  <2>1. f \notin done /\ f \in setup.futures
    BY <1>4, <1>7, <1>11
  <2>2. /\ called[f] = <<>> /\ HasFuture(f, 2) /\ watcher[f].refs = Cardinality(watcher[f].flags)
        /\ called'[f] = called[f] /\ future'[f] = future[f]
    BY <1>5, <1>7, <2>1 DEF Listens
  <2>3. PICK flags \in SUBSET AllKinds : flags = watcher[f].flags /\ key \in flags
    BY <1>7 DEF WatcherType
  <2>4. Cardinality(flags \ {key}) = Cardinality(flags) - 1
    BY <2>3, FlagsFinite, FS_RemoveElement
  <2>5. watcher[f].flags \ {key} # {}
    BY <1>7, <1>11
  <2> QED
    BY <1>7, <1>11, <2>2, <2>3, <2>4, <2>5 DEF Listens, HasFuture, IsFuture, FutureWith, NullIsNoObject
<1>12. TypeInv'
  <2>1. watcher' \in [setup.futures -> WatcherType \cup {NULL}]
    BY <1>1, <1>5, <1>7 DEF TypeInv
  <2> QED
    BY <1>1, <1>5, <1>6, <2>1, TaskTaken, SetupFrame DEF TypeInv
<1>13. StageInv'
  BY <1>1, <1>9, <1>10, <1>11 DEF QueryInv, StageInv, StageKept
<1>14. ListedInv'
  <2> SUFFICES ASSUME NEW k \in DataKeys, k # key, NEW f \in listening[k]
               PROVE  Listens(f)' /\ k \in watcher'[f].flags
    BY <1>1, <1>6, SetupFrame DEF ListedInv
  <2>1. Listens(f) /\ k \in watcher[f].flags /\ f \in setup.futures
    BY <1>1 DEF QueryInv, ListedInv, TypeInv
  <2>2. CASE f \in listening[key]
    BY <1>7, <1>11, <2>1, <2>2
  <2>3. CASE f \notin listening[key]
    BY <1>5, <1>9, <2>1, <2>3 DEF StageKept
  <2> QED
    BY <2>2, <2>3
<1>15. TasksInv'
  <2>1. ASSUME NEW i \in 1 .. Len(tasks'), tasks'[i].type = "add"
        PROVE  \E g : g = tasks'[i].of /\ Added(g)'
    <3>1. i + 1 \in 1 .. Len(tasks) /\ tasks'[i] = tasks[i + 1] /\ tasks[i + 1] \in TaskType
      BY <1>1, <1>2 DEF TypeInv
    <3>2. PICK g \in setup.futures : g = tasks'[i].of /\ Added(g)
      BY <2>1, <3>1 DEF TaskType, QueryInv, TasksInv
    <3>3. g \notin listening[key]
      BY <1>1, <1>7, <3>2, StagesDiffer DEF TypeInv
    <3> QED
      BY <1>9, <3>2, <3>3 DEF StageKept
  <2>2. ASSUME NEW i \in 1 .. Len(tasks'), NEW j \in 1 .. Len(tasks'), tasks'[i].type = "add",
               tasks'[j].type = "add", tasks'[i].of = tasks'[j].of
        PROVE  i = j
    <3>1. i + 1 = j + 1
      BY <1>2, <2>2 DEF QueryInv, TasksInv
    <3> QED
      BY <3>1
  <2> QED
    BY <2>1, <2>2, TasksKept
<1> QED
  BY <1>12, <1>13, <1>14, <1>15 DEF QueryInv

LEMMA ServiceCacheTimeoutInv ==
  ASSUME NullIsNoObject, QueryInv, NEW f \in setup.futures, ServiceCacheTimeout(f)
  PROVE  QueryInv'
<1>1. /\ UNCHANGED <<setup, store, notified, tasks>> /\ TypeInv
      /\ watcher[f] # NULL /\ watcher[f].timer
  BY DEF ServiceCacheTimeout, QueryInv
<1>2. Listens(f) /\ ~Added(f)
  BY <1>1, StagesDiffer DEF QueryInv, TypeInv, StageInv, NotAsked, AtOnce, Over
<1>3. watcher[f] \in WatcherType
  BY <1>1 DEF TypeInv
<1>4. PICK flags \in SUBSET AllKinds : flags = watcher[f].flags /\ watcher[f].refs = Cardinality(flags)
  BY <1>2, <1>3 DEF WatcherType, Listens
<1>5. PICK refs \in Int : refs = watcher[f].refs - Cardinality(flags) /\ refs = 0
  BY <1>4, FlagsFinite
<1>6. PICK w \in WatcherType : w = [watcher[f] EXCEPT !.refs = refs, !.timer = FALSE] /\ w.refs = 0 /\ ~w.timer
  <2>1. [watcher[f] EXCEPT !.refs = refs, !.timer = FALSE] \in WatcherType
    BY <1>3 DEF WatcherType
  <2>2. /\ [watcher[f] EXCEPT !.refs = refs, !.timer = FALSE].refs = refs
        /\ ~[watcher[f] EXCEPT !.refs = refs, !.timer = FALSE].timer
    BY <1>3 DEF WatcherType
  <2> QED
    BY <1>5, <2>1, <2>2
<1>7. PICK new : new = Release(future[f], 2) /\ IsFuture(new) /\ new.refs = 0
  BY <1>2, FutureRefs DEF Listens, HasFuture
<1>8. /\ called' = [called EXCEPT ![f] = Append(@, "timeout")]
      /\ listening' = RemoveTimeoutWatcher(f)
      /\ watcher' = [watcher EXCEPT ![f] = w]
      /\ future' = [future EXCEPT ![f] = new]
  <2>1. watcher' = [watcher EXCEPT ![f] = [watcher[f] EXCEPT !.refs = watcher[f].refs - Cardinality(flags),
                                                            !.timer = FALSE]]
    BY <1>1, <1>4 DEF ServiceCacheTimeout, TypeInv
  <2> QED
    BY <1>1, <1>5, <1>6, <1>7, <2>1 DEF ServiceCacheTimeout, TypeInv
<1>9. /\ future' = [g \in setup.futures |-> future'[g]] /\ future'[f] = new
      /\ watcher' \in [setup.futures -> WatcherType \cup {NULL}] /\ watcher'[f] = w
      /\ called' = [g \in setup.futures |-> called'[g]] /\ called'[f] = Append(called[f], "timeout")
      /\ \A g \in setup.futures \ {f} :
           future'[g] = future[g] /\ watcher'[g] = watcher[g] /\ called'[g] = called[g]
  BY <1>1, <1>8 DEF TypeInv
<1>10. /\ listening' \in [DataKeys -> SUBSET setup.futures]
       /\ \A k \in DataKeys : listening'[k] \subseteq listening[k] \ {f}
  <2>1. DOMAIN listening = DataKeys /\ \A k \in DataKeys : listening[k] \subseteq setup.futures
    BY <1>1 DEF TypeInv
  <2>2. \A k \in DataKeys : f \in listening[k] => \E v \in watcher[f].flags : Key(v) = k
    BY KeyOfKey DEF QueryInv, ListedInv, DataKeys
  <2> QED
    BY <1>8, <2>1, <2>2 DEF RemoveTimeoutWatcher
<1>11. TypeInv'
  BY <1>1, <1>9, <1>10, SetupFrame DEF TypeInv
<1>12. Over(f)'
  <2>1. called'[f] = <<"timeout">>
    BY <1>2, <1>9 DEF Listens
  <2>2. w # NULL
    BY DEF NullIsNoObject
  <2> QED
    BY <1>6, <1>7, <1>9, <2>1, <2>2 DEF Over, HasFuture, IsFuture, FutureWith
<1>13. \A g \in setup.futures \ {f} : StageKept(g)
  <2>1. \A g : \A i \in 1 .. Len(tasks) : AddsAt(i, g) => \E j \in 1 .. Len(tasks') : AddsAt(j, g)'
    BY <1>1 DEF AddsAt
  <2> QED
    BY <1>9, <2>1, OthersFrame
<1>14. StageInv'
  BY <1>1, <1>12, <1>13 DEF QueryInv, StageInv, StageKept
<1>15. ListedInv'
  BY <1>1, <1>9, <1>10, <1>13, SetupFrame DEF QueryInv, ListedInv, TypeInv, StageKept
<1>16. TasksInv'
  BY <1>1, <1>2, <1>13 DEF QueryInv, TasksInv, TypeInv, TaskType, StageKept
<1> QED
  BY <1>11, <1>14, <1>15, <1>16 DEF QueryInv

LEMMA UpdateServiceDataInv ==
  ASSUME QueryInv, NEW k \in DataKeys, UpdateServiceData(k)
  PROVE  QueryInv'
<1>1. /\ UNCHANGED <<setup, notified, future, watcher, listening, called>> /\ TypeInv
      /\ tasks' = Append(tasks, [type |-> "change", of |-> k]) /\ DOMAIN store' = DOMAIN store
  BY DEF UpdateServiceData, QueryInv
<1>2. PICK t \in TaskType : t = [type |-> "change", of |-> k] /\ t.type = "change"
  <2>1. [type |-> "change", of |-> k] \in TaskType
    BY DEF TaskType
  <2> QED
    BY <2>1
<1>3. PICK n \in Nat : n = Len(tasks)
  BY <1>1 DEF TypeInv
<1>4. /\ tasks' \in Seq(TaskType') /\ Len(tasks') = n + 1 /\ tasks'[n + 1] = t
      /\ \A i \in 1 .. n : tasks'[i] = tasks[i] /\ tasks[i] \in TaskType
      /\ \A f : \A i \in 1 .. Len(tasks) : AddsAt(i, f) => \E j \in 1 .. Len(tasks') : AddsAt(j, f)'
  BY <1>1, <1>2, <1>3, TaskAdded DEF TypeInv
<1>5. TypeInv'
  BY <1>1, <1>4, SetupFrame DEF TypeInv
<1>6. \A f \in setup.futures : StageKept(f)
  BY <1>1, <1>4, StageFrame
<1>7. StageInv' /\ ListedInv'
  BY <1>1, <1>6, SetupFrame DEF QueryInv, StageInv, ListedInv, TypeInv, StageKept
<1>8. \A i \in 1 .. Len(tasks') : tasks'[i].type = "add" =>
        i \in 1 .. n /\ tasks'[i] = tasks[i] /\ tasks[i].of \in setup.futures
  BY <1>2, <1>4 DEF TaskType
<1>9. TasksInv'
  <2>1. \A i \in 1 .. Len(tasks') : tasks'[i].type = "add" => \E g : g = tasks'[i].of /\ Added(g)'
    BY <1>3, <1>6, <1>8 DEF QueryInv, TasksInv, StageKept
  <2>2. \A i, j \in 1 .. Len(tasks') :
          tasks'[i].type = "add" /\ tasks'[j].type = "add" /\ tasks'[i].of = tasks'[j].of => i = j
    BY <1>3, <1>8 DEF QueryInv, TasksInv
  <2> QED
    BY <2>1, <2>2, TasksKept
<1> QED
  BY <1>5, <1>7, <1>9 DEF QueryInv

LEMMA SameQueries ==
  ASSUME QueryInv, UNCHANGED <<setup, store, future, watcher, listening, tasks, called>>
  PROVE  QueryInv'
<1>1. TypeInv'
  BY SetupFrame DEF QueryInv, TypeInv
<1>2. \A f : StageKept(f)
  BY StageFrame DEF AddsAt
<1>3. StageInv' /\ ListedInv'
  BY <1>2, SetupFrame DEF QueryInv, StageInv, ListedInv, TypeInv, StageKept
<1>4. TasksInv'
  BY <1>2 DEF QueryInv, TasksInv, StageKept
<1> QED
  BY <1>1, <1>3, <1>4 DEF QueryInv

LEMMA NextInv ==
  ASSUME NullIsNoObject, QueryInv, [Next]_vars
  PROVE  QueryInv'
<1>1. DOMAIN future = setup.futures /\ DOMAIN store = DataKeys
  BY DEF QueryInv, TypeInv
<1>2. ASSUME NEW f \in setup.futures,
             AsyncGetInstances(f) \/ SetServiceCacheNotify(f) \/ ServiceCacheTimeout(f)
      PROVE  QueryInv'
  BY <1>2, AsyncGetInstancesInv, SetServiceCacheNotifyInv, ServiceCacheTimeoutInv
<1>3. ASSUME NEW k \in DataKeys, Notify(k) PROVE QueryInv'
  BY <1>3, SameQueries DEF Notify
<1>4. CASE UNCHANGED vars
  BY <1>4, SameQueries DEF vars
<1> QED
  BY <1>1, <1>2, <1>3, <1>4, UpdateServiceDataInv, AddTimeoutWatcherInv, OnServiceDataChangeInv
     DEF Next, Cache

LEMMA QueryInvHolds ==
  ASSUME NullIsNoObject
  PROVE  Spec => []QueryInv
<1>1. QueryInv /\ [Next]_vars => QueryInv'
  BY NextInv
<1> QED
  BY <1>1, InitInv, PTL DEF Spec

(* The invariant gives WatcherSound. *)
LEMMA InvIsSound == QueryInv => WatcherSound
<1> SUFFICES ASSUME QueryInv PROVE WatcherSound
  OBVIOUS
<1>1. ASSUME NEW f \in setup.futures
      PROVE  /\ watcher[f] # NULL =>
                  /\ watcher[f].refs >= 0
                  /\ watcher[f].timer => watcher[f].refs = Cardinality(watcher[f].flags) /\ watcher[f].refs > 0
                  /\ watcher[f].refs > 0 => future[f].refs > 0
                  /\ watcher[f].refs = 0 => future[f].refs = 0 /\ ~watcher[f].timer
             /\ \A k \in DataKeys : f \in listening[k] =>
                  watcher[f] # NULL /\ watcher[f].timer /\ k \in watcher[f].flags
  <2>1. CASE NotAsked(f) \/ AtOnce(f)
    BY <2>1 DEF NotAsked, AtOnce, QueryInv, ListedInv, Listens
  <2>2. CASE Added(f)
    <3>1. watcher[f].refs = 1 /\ ~watcher[f].timer
      BY <2>2 DEF Added
    <3> QED
      BY <2>2, <3>1 DEF Added, HasFuture, QueryInv, ListedInv, Listens
  <2>3. CASE Listens(f)
    <3>1. PICK flags \in SUBSET AllKinds :
            flags = watcher[f].flags /\ watcher[f].refs = Cardinality(flags) /\ flags # {}
      <4>1. watcher[f] \in WatcherType
        BY <2>3 DEF QueryInv, TypeInv, Listens
      <4> QED
        BY <2>3, <4>1 DEF Listens, WatcherType
    <3>2. Cardinality(flags) \in Nat /\ Cardinality(flags) # 0
      BY <3>1, FlagsFinite, FS_EmptySet
    <3> QED
      BY <2>3, <3>1, <3>2 DEF Listens, HasFuture, QueryInv, ListedInv
  <2>4. CASE Over(f)
    BY <2>4 DEF Over, HasFuture, QueryInv, ListedInv, Listens
  <2> QED
    BY <2>1, <2>2, <2>3, <2>4 DEF QueryInv, StageInv
<1>2. DOMAIN watcher = setup.futures /\ DOMAIN listening = DataKeys
  BY DEF QueryInv, TypeInv
<1> QED
  BY <1>1, <1>2 DEF WatcherSound

-----------------------------------------------------------------------------
(* The theorems *)

(* WatcherSound for every set of queries: a watcher that is alive holds a  *)
(* reference for each kind of data it waits for and has a timer, no set of *)
(* the cache manager lists one that is gone, and the future outlives the   *)
(* watcher.                                                                *)
THEOREM WatchersAreSound ==
  ASSUME NullIsNoObject
  PROVE  Spec => []WatcherSound
BY InvIsSound, QueryInvHolds, PTL

(* A user who asked and was not called yet will be: the task that adds the *)
(* watcher is in the queue, or the timer is running.                       *)
AskedIsServed ==
  \A f \in setup.futures : watcher[f] # NULL /\ called[f] = <<>> =>
    watcher[f].timer \/ \E i \in 1 .. Len(tasks) : tasks[i].type = "add" /\ tasks[i].of = f

(* AskedIsServed for every set of queries: no interleaving of data that    *)
(* arrives, timers and tasks loses the callback of a query.                *)
THEOREM NoQueryIsLost ==
  ASSUME NullIsNoObject
  PROVE  Spec => []AskedIsServed
<1>1. QueryInv => AskedIsServed
  BY CalledDiffer DEF QueryInv, StageInv, NotAsked, AtOnce, Added, Listens, Over, AskedIsServed, AddsAt
<1> QED
  BY <1>1, QueryInvHolds, PTL

-----------------------------------------------------------------------------
(* InstancesFuture implements CallbackOnce. *)

(* The status of a query from its callbacks and its watcher. *)
StatusOf(c, w) ==
  IF Len(c) > 1 THEN "twice" ELSE IF c # <<>> THEN c[1] ELSE IF w # NULL THEN "asked" ELSE "idle"

LEMMA StatusValues ==
  ASSUME NEW w
  PROVE  /\ StatusOf(<<>>, w) = IF w # NULL THEN "asked" ELSE "idle"
         /\ StatusOf(<<"ready">>, w) = "ready" /\ StatusOf(<<"timeout">>, w) = "timeout"
<1>1. StatusOf(<<>>, w) = IF w # NULL THEN "asked" ELSE "idle"
  BY DEF StatusOf
<1>2. StatusOf(<<"ready">>, w) = "ready"
  BY CalledDiffer DEF StatusOf
<1>3. StatusOf(<<"timeout">>, w) = "timeout"
  BY CalledDiffer DEF StatusOf
<1> QED
  BY <1>1, <1>2, <1>3

LEMMA StatusKept ==
  ASSUME DOMAIN called' = DOMAIN called, NEW f \in Futures,
         f \in DOMAIN called => called'[f] = called[f] /\ (watcher'[f] = NULL <=> watcher[f] = NULL)
  PROVE  Status'[f] = Status[f]
BY DEF Status

LEMMA InitImplements == Init => Callback!Init
BY DEF Init, Callback!Init, Status

LEMMA StepImplements ==
  ASSUME NullIsNoObject, QueryInv, QueryInv', [Next]_vars
  PROVE  [Callback!Next]_Status
<1>1. /\ DOMAIN future = setup.futures /\ DOMAIN store = DataKeys /\ DOMAIN called = setup.futures
      /\ DOMAIN called' = setup'.futures /\ setup' = setup
  <2>1. setup' = setup
    BY DEF Next, Cache, AsyncGetInstances, SetServiceCacheNotify, ServiceCacheTimeout, UpdateServiceData,
           Notify, AddTimeoutWatcher, OnServiceDataChange, vars
  <2> QED
    BY <2>1 DEF QueryInv, TypeInv
<1>2. /\ Status = [f \in Futures |-> Status[f]] /\ Status' = [f \in Futures |-> Status'[f]]
  BY DEF Status
<1>3. \A f \in setup.futures : /\ f \in Futures /\ Status[f] = StatusOf(called[f], watcher[f])
                                /\ Status'[f] = StatusOf(called'[f], watcher'[f])
  <2>1. setup.futures \subseteq Futures
    BY DEF QueryInv, TypeInv, Futures
  <2> QED
    BY <1>1, <2>1 DEF Status, StatusOf
<1>4. ASSUME UNCHANGED <<watcher, called>> PROVE Status' = Status
  BY <1>2, <1>4, StatusKept
<1>5. ASSUME NEW f \in setup.futures, called[f] = <<>>,
             \/ watcher[f] = NULL /\ watcher'[f] # NULL /\ called'[f] = <<>>
             \/ called'[f] \in {<<"ready">>, <<"timeout">>},
             \A g \in setup.futures \ {f} : called'[g] = called[g] /\ watcher'[g] = watcher[g]
      PROVE  Callback!Next
  <2>1. /\ Status[f] = IF watcher[f] # NULL THEN "asked" ELSE "idle"
        /\ called'[f] = <<>> /\ watcher'[f] # NULL => Status'[f] = "asked"
        /\ called'[f] = <<"ready">> => Status'[f] = "ready"
        /\ called'[f] = <<"timeout">> => Status'[f] = "timeout"
    BY <1>3, <1>5, StatusValues
  <2>2. \A g \in Futures \ {f} : Status'[g] = Status[g]
    BY <1>1, <1>5, StatusKept
  <2>3. PICK st : st = Status'[f] /\ Status' = [Status EXCEPT ![f] = st]
    BY <1>2, <2>2
  <2>4. Callback!Ask(f) \/ Callback!Answer(f)
    BY <1>5, <2>1, <2>3 DEF Callback!Ask, Callback!Answer
  <2> QED
    BY <1>3, <2>4 DEF Callback!Next
<1>6. ASSUME NEW f \in setup.futures, SetServiceCacheNotify(f) PROVE Callback!Next
  <2>1. watcher[f] = NULL /\ called[f] = <<>>
    BY <1>6 DEF SetServiceCacheNotify
  <2>2. CASE CheckReady(future[f]).ready
    <3>1. called' = [called EXCEPT ![f] = <<"ready">>] /\ UNCHANGED watcher
      BY <1>6, <2>2 DEF SetServiceCacheNotify
    <3> QED
      BY <1>1, <1>5, <2>1, <3>1
  <2>3. CASE ~CheckReady(future[f]).ready
    <3>1. PICK w : /\ w = [flags |-> {}, refs |-> 1, timer |-> FALSE]
                   /\ watcher' = [watcher EXCEPT ![f] = w] /\ UNCHANGED called
      BY <1>6, <2>3 DEF SetServiceCacheNotify
    <3>2. w \in WatcherType
      BY <3>1 DEF WatcherType
    <3>3. w # NULL /\ DOMAIN watcher = setup.futures
      BY <3>2 DEF NullIsNoObject, QueryInv, TypeInv
    <3> QED
      BY <1>5, <2>1, <3>1, <3>3
  <2> QED
    BY <2>2, <2>3
<1>7. ASSUME AddTimeoutWatcher PROVE Callback!Next \/ Status' = Status
  <2>1. PICK f \in setup.futures : f = Head(tasks).of /\ Added(f)
    <3>1. tasks # <<>> /\ Head(tasks).type = "add" /\ tasks' = Tail(tasks) /\ TypeInv
      BY <1>7 DEF AddTimeoutWatcher, QueryInv
    <3>2. 1 \in 1 .. Len(tasks) /\ tasks[1] = Head(tasks) /\ tasks[1] \in TaskType
      BY <1>1, <3>1, TaskTaken
    <3> QED
      BY <3>1, <3>2 DEF TaskType, QueryInv, TasksInv
  <2>2. watcher[f] # NULL /\ called[f] = <<>>
    BY <2>1, StagesDiffer DEF Added, QueryInv, TypeInv
  <2>3. \A g \in setup.futures \ {f} : called'[g] = called[g] /\ watcher'[g] = watcher[g]
    BY <1>1, <1>7, <2>1 DEF AddTimeoutWatcher, QueryInv, TypeInv
  <2>4. CASE IsDataReady(future[f], FALSE)
    <3>1. called' = [called EXCEPT ![f] = Append(@, "ready")]
      BY <1>7, <2>1, <2>4 DEF AddTimeoutWatcher
    <3>2. called'[f] = Append(<<>>, "ready")
      BY <1>1, <2>2, <3>1
    <3>3. called'[f] = <<"ready">>
      BY <3>2
    <3> QED
      BY <1>5, <2>2, <2>3, <3>3
  <2>5. CASE ~IsDataReady(future[f], FALSE)
    <3>1. PICK w : /\ w = [flags |-> Wanted, refs |-> Cardinality(Wanted), timer |-> TRUE]
                   /\ watcher' = [watcher EXCEPT ![f] = w] /\ UNCHANGED called
      BY <1>7, <2>1, <2>5 DEF AddTimeoutWatcher
    <3>2. w \in WatcherType
      BY <3>1, WantedKinds, FlagsFinite DEF WatcherType
    <3>3. watcher'[f] # NULL
      BY <3>1, <3>2 DEF NullIsNoObject, QueryInv, TypeInv
    <3> QED
      BY <1>1, <1>2, <2>2, <2>3, <3>1, <3>3, StatusKept
  <2> QED
    BY <2>4, <2>5
<1>8. ASSUME OnServiceDataChange PROVE Callback!Next
  <2>1. PICK key \in DataKeys : key = Head(tasks).of
    <3>1. tasks # <<>> /\ Head(tasks).type = "change" /\ tasks' = Tail(tasks) /\ TypeInv
      BY <1>8 DEF OnServiceDataChange, QueryInv
    <3>2. tasks[1] = Head(tasks) /\ tasks[1] \in TaskType
      BY <1>1, <3>1, TaskTaken
    <3> QED
      BY <3>1, <3>2 DEF TaskType
  <2>2. PICK done \in SUBSET setup.futures : done = {f \in listening[key] : watcher[f].flags = {key}}
    BY DEF QueryInv, TypeInv
  <2>3. /\ called' = [f \in setup.futures |-> IF f \in done THEN Append(called[f], "ready") ELSE called[f]]
        /\ watcher' = [f \in setup.futures |->
                         IF f \in listening[key] THEN NotifyReady(watcher[f], key) ELSE watcher[f]]
    <3>1. DOMAIN watcher = setup.futures
      BY DEF QueryInv, TypeInv
    <3> QED
      BY <1>1, <1>8, <2>1, <2>2, <3>1 DEF OnServiceDataChange
  <2>4. ASSUME NEW f \in done PROVE Status[f] = "asked" /\ Status'[f] = "ready"
    <3>1. f \in setup.futures /\ watcher[f] # NULL /\ called[f] = <<>>
      BY <2>1, <2>2 DEF QueryInv, ListedInv, Listens
    <3>2. called'[f] = Append(<<>>, "ready")
      BY <2>3, <3>1
    <3>3. called'[f] = <<"ready">>
      BY <3>2
    <3> QED
      BY <1>3, <3>1, <3>3, StatusValues
  <2>5. ASSUME NEW f \in setup.futures \ done PROVE Status'[f] = Status[f]
    <3>1. CASE f \in listening[key]
      <4>1. watcher[f] \in WatcherType /\ watcher[f] # NULL /\ key \in watcher[f].flags
        <5>1. Listens(f) /\ key \in watcher[f].flags
          BY <3>1 DEF QueryInv, ListedInv
        <5>2. watcher[f] # NULL
          BY <5>1 DEF Listens
        <5> QED
          BY <5>1, <5>2, <2>5 DEF QueryInv, TypeInv
      <4>2. NotifyReady(watcher[f], key) \in WatcherType
        BY <4>1, NotifyReadyFields
      <4>3. watcher'[f] # NULL
        BY <2>3, <2>5, <3>1, <4>2 DEF NullIsNoObject
      <4> QED
        BY <1>1, <1>3, <2>3, <2>5, <4>1, <4>3, StatusKept
    <3>2. CASE f \notin listening[key]
      BY <1>1, <1>3, <2>3, <2>5, <3>2, StatusKept
    <3> QED
      BY <3>1, <3>2
  <2>6. \A f \in Futures \ setup.futures : Status'[f] = Status[f]
    BY <1>1, StatusKept
  <2>7. Status' = [f \in Futures |-> IF f \in done THEN "ready" ELSE Status[f]]
    BY <1>2, <1>3, <2>4, <2>5, <2>6
  <2>8. done \in SUBSET Futures
    BY <1>3
  <2>9. Callback!AnswerAll(done)
    BY <2>4, <2>7 DEF Callback!AnswerAll
  <2> QED
    BY <2>8, <2>9 DEF Callback!Next
<1>9. ASSUME NEW f \in setup.futures, ServiceCacheTimeout(f) PROVE Callback!Next
  <2>1. watcher[f] # NULL /\ called[f] = <<>>
    BY <1>9, StagesDiffer DEF ServiceCacheTimeout, QueryInv, StageInv, NotAsked, AtOnce, Listens, Over, Added
  <2>2. called' = [called EXCEPT ![f] = Append(@, "timeout")]
    BY <1>9 DEF ServiceCacheTimeout
  <2>3. called'[f] = Append(<<>>, "timeout")
    BY <1>1, <2>1, <2>2
  <2>4. called'[f] = <<"timeout">>
    BY <2>3
  <2>5. \A g \in setup.futures \ {f} : called'[g] = called[g] /\ watcher'[g] = watcher[g]
    BY <1>1, <1>9 DEF ServiceCacheTimeout, QueryInv, TypeInv
  <2> QED
    BY <1>5, <2>1, <2>4, <2>5
<1> QED
  BY <1>1, <1>4, <1>6, <1>7, <1>8, <1>9
     DEF Next, Cache, AsyncGetInstances, UpdateServiceData, Notify, vars

(* The safety part of CallbackOnce. *)
CalledAsAllowed == Callback!Init /\ [][Callback!Next]_Status

(* The safety part of CalledOnce for every set of queries: whatever comes  *)
(* first, the data or the timer, the callback of a query that asked is     *)
(* called once and never again, and one arrival of data may answer several *)
(* queries.                                                                *)
THEOREM CallbacksImplementOnce ==
  ASSUME NullIsNoObject
  PROVE  Spec => CalledAsAllowed
<1>1. QueryInv /\ QueryInv' /\ [Next]_vars => [Callback!Next]_Status
  BY StepImplements
<1> QED
  BY <1>1, InitImplements, QueryInvHolds, PTL DEF Spec, CalledAsAllowed
=============================================================================
