-------------------------- MODULE RcuUnorderedMap ---------------------------
(***************************************************************************)
(* The double-buffered hash map of polaris/cache/rcu_unordered_map.h, as   *)
(* the context uses it for its ServiceContext objects: looked up inside    *)
(* RcuEnter/RcuExit sections, deleted by the expiry task, collected with   *)
(* the oldest section time minus a grace period.                           *)
(*                                                                         *)
(* Memory is owned by shared_ptr and unique_ptr, so what is alive is not   *)
(* stored but derived: a MapValue lives while a live map has it, a value   *)
(* while a live MapValue, deleted_value_list_ or a caller's shared_ptr     *)
(* holds it.                                                               *)
(***************************************************************************)
EXTENDS Integers, Sequences, FiniteSets

CONSTANTS
  Keys, Values, Cells, Readers, NULL,
  ExpireTime,  \* age at which CheckExpired reports a key
  Setups       \* the configurations and bounds to consider

(* grace   : subtracted from MinTime() before CheckGc                      *)
(* nested  : a call made inside a section opens its own section            *)
(* stall   : longest time a lock holder loses after reading the clock      *)
(* maxTime : bound on the coarse steady clock                              *)
(* objects : bound on the values ever stored                               *)
(* keys    : the keys in use                                               *)
SetupType ==
  [grace : Nat, nested : BOOLEAN, stall : Nat, maxTime : Nat, objects : Nat,
   keys : SUBSET Keys]

ASSUME ConstantsAssumption ==
  /\ ExpireTime \in Nat /\ Setups \subseteq SetupType
  /\ NULL \notin Values /\ NULL \notin Cells

VARIABLES
  setup,               \* never changed
  now,
  cellVal, cellUsed,   \* MapValue::value_ and MapValue::used_time_
  usedCells, usedValues,
  gen, readMap,        \* identity and content of *read_map_
  dirtyMap, dirtyFlag, missTime,
  deletedValues,       \* deleted_value_list_: a multimap ordered by time
  deletedMaps,         \* deleted_map_list_
  lock,                \* the holder of dirty_lock_
  expired,             \* what CheckExpired reported to the expiry task
  threadTime,          \* thread_time_ of every reader
  rd,                  \* the readers
  gc                   \* the collector: running minimum, threads to visit

mapVars == <<gen, readMap, dirtyMap, dirtyFlag, missTime>>
vars == <<setup, now, cellVal, cellUsed, usedCells, usedValues, mapVars,
          deletedValues, deletedMaps, lock, expired, threadTime, rd, gc>>

Grace == setup.grace
kMaxTime == setup.maxTime + 1

EmptyMap == [k \in Keys |-> NULL]
KeysOf(m) == {k \in Keys : m[k] # NULL}
CellsOf(m) == {m[k] : k \in KeysOf(m)}

Free == [pc |-> "free", key |-> NULL, val |-> NULL, time |-> 0]
Idle == [pc |-> "out", op |-> "none", key |-> NULL, time |-> 0, gen |-> 0,
         map |-> EmptyMap, val |-> NULL, src |-> "none", own |-> {}]
GcIdle == [pc |-> "idle", min |-> 0, todo |-> {}]

(* The steady clock has been running for longer than the grace period, so  *)
(* that the unsigned subtraction of MinGcTime does not wrap.               *)
Init ==
  /\ setup \in Setups
  /\ now = Grace
  /\ cellVal = [c \in Cells |-> NULL] /\ cellUsed = [c \in Cells |-> 0]
  /\ usedCells = {} /\ usedValues = {}
  /\ gen = 0 /\ readMap = EmptyMap /\ dirtyMap = EmptyMap
  /\ dirtyFlag = FALSE /\ missTime = 0
  /\ deletedValues = {} /\ deletedMaps = <<>>
  /\ lock = Free /\ expired = {}
  /\ threadTime = [r \in Readers |-> kMaxTime]
  /\ rd = [r \in Readers |-> Idle]
  /\ gc = GcIdle

(* The coarse clock; a thread that read it and holds dirty_lock_ finishes  *)
(* within the bound on stalls.                                             *)
Tick ==
  /\ now < setup.maxTime
  /\ lock.pc # "free" => now < lock.time + setup.stall
  /\ now' = now + 1
  /\ UNCHANGED <<cellVal, cellUsed, usedCells, usedValues, mapVars,
                 deletedValues, deletedMaps, lock, expired, threadTime, rd, gc>>

-----------------------------------------------------------------------------
(* What is alive. *)

LiveMaps == {readMap, dirtyMap} \cup {deletedMaps[i].map : i \in 1 .. Len(deletedMaps)}
LiveCells == UNION {CellsOf(m) : m \in LiveMaps}
HeldValues ==
  {cellVal[c] : c \in LiveCells} \cup {d.val : d \in deletedValues}
LiveValues == HeldValues \cup UNION {rd[r].own : r \in Readers}

-----------------------------------------------------------------------------
(* Sections. *)

RcuEnterClock(r) ==
  /\ rd[r].pc = "out"
  /\ rd' = [rd EXCEPT ![r].pc = "enter", ![r].time = now]
  /\ UNCHANGED <<now, cellVal, cellUsed, usedCells, usedValues, mapVars,
                 deletedValues, deletedMaps, lock, expired, threadTime, gc>>

RcuEnterStore(r) ==
  /\ rd[r].pc = "enter"
  /\ threadTime' = [threadTime EXCEPT ![r] = rd[r].time]
  /\ rd' = [rd EXCEPT ![r].pc = "in", ![r].time = 0]
  /\ UNCHANGED <<now, cellVal, cellUsed, usedCells, usedValues, mapVars,
                 deletedValues, deletedMaps, lock, expired, gc>>

RcuExit(r) ==
  /\ rd[r].pc \in {"in", "hold"}
  /\ threadTime' = [threadTime EXCEPT ![r] = kMaxTime]
  /\ rd' = [rd EXCEPT ![r] = Idle]
  /\ UNCHANGED <<now, cellVal, cellUsed, usedCells, usedValues, mapVars,
                 deletedValues, deletedMaps, lock, expired, gc>>

(* A caller that holds a ServiceContext calls LoadServiceDataWithNotify,   *)
(* which loads disk data through UpdateServiceData: its RcuEnter and       *)
(* RcuExit write the same thread_time_ and leave it at kMaxTime.           *)
NestedSection(r) ==
  /\ setup.nested
  /\ rd[r].pc = "hold"
  /\ threadTime[r] # kMaxTime
  /\ threadTime' = [threadTime EXCEPT ![r] = kMaxTime]
  /\ UNCHANGED <<now, cellVal, cellUsed, usedCells, usedValues, mapVars,
                 deletedValues, deletedMaps, lock, expired, rd, gc>>

-----------------------------------------------------------------------------
(* Get and GetWithRcuTime. *)

LoadReadMap(r, k, op) ==
  /\ rd[r].pc = "in"
  /\ rd' = [rd EXCEPT ![r] = [@ EXCEPT !.pc = "find", !.op = op, !.key = k,
                                       !.gen = gen, !.map = readMap]]
  /\ UNCHANGED <<now, cellVal, cellUsed, usedCells, usedValues, mapVars,
                 deletedValues, deletedMaps, lock, expired, threadTime, gc>>

(* The key is in the loaded map: set used_time_, load value_ ... *)
LoadValue(r) ==
  LET c == rd[r].map[rd[r].key]
  IN /\ rd[r].pc = "find"
     /\ c # NULL
     /\ cellUsed' = [cellUsed EXCEPT ![c] = now]
     /\ rd' = [rd EXCEPT ![r].pc = "deref", ![r].val = cellVal[c]]
     /\ UNCHANGED <<now, cellVal, usedCells, usedValues, mapVars,
                    deletedValues, deletedMaps, lock, expired, threadTime, gc>>

(* What is left of a lookup that obtained v from src: Get owns a copy of   *)
(* the shared_ptr, GetWithRcuTime has the raw pointer.                     *)
Result(r, v, src) ==
  [Idle EXCEPT !.pc = "hold",
               !.own = IF rd[r].op = "Get" /\ v # NULL THEN {v} ELSE {},
               !.val = IF rd[r].op = "Get" THEN NULL ELSE v,
               !.src = src]

(* ... and dereference the shared_ptr it points at. *)
DerefValue(r) ==
  /\ rd[r].pc = "deref"
  /\ rd' = [rd EXCEPT ![r] = Result(r, rd[r].val, "read")]
  /\ UNCHANGED <<now, cellVal, cellUsed, usedCells, usedValues, mapVars,
                 deletedValues, deletedMaps, lock, expired, threadTime, gc>>

(* Under dirty_lock_: nothing was added since the last swap, or no entry.  *)
FindNowhere(r) ==
  /\ rd[r].pc = "find"
  /\ rd[r].map[rd[r].key] = NULL
  /\ lock.pc = "free"
  /\ ~dirtyFlag \/ dirtyMap[rd[r].key] = NULL
  /\ rd' = [rd EXCEPT ![r] = Result(r, NULL, "none")]
  /\ UNCHANGED <<now, cellVal, cellUsed, usedCells, usedValues, mapVars,
                 deletedValues, deletedMaps, lock, expired, threadTime, gc>>

(* The hit in the dirty map counts as a miss of the read map; with as many *)
(* misses as entries CheckSwapInLock stamps the read map for deletion.     *)
FindInDirtyMap(r) ==
  LET c == dirtyMap[rd[r].key]
      miss == missTime + 1
  IN /\ rd[r].pc = "find"
     /\ rd[r].map[rd[r].key] = NULL
     /\ lock.pc = "free"
     /\ dirtyFlag
     /\ c # NULL
     /\ cellUsed' = [cellUsed EXCEPT ![c] = now]
     /\ rd' = [rd EXCEPT ![r] = Result(r, cellVal[c], "dirty")]
     /\ missTime' = miss
     /\ lock' = IF miss < Cardinality(KeysOf(dirtyMap)) THEN Free
                ELSE [Free EXCEPT !.pc = "publish", !.time = now]
     /\ UNCHANGED <<now, cellVal, usedCells, usedValues, gen, readMap, dirtyMap,
                    dirtyFlag, deletedValues, deletedMaps, expired, threadTime,
                    gc>>

(* Faulty variant: the replaced read map is destroyed at once. *)
PublishDirtyFrees ==
  /\ lock.pc = "publish"
  /\ gen' = gen + 1 /\ readMap' = dirtyMap
  /\ missTime' = 0 /\ dirtyFlag' = FALSE
  /\ lock' = Free
  /\ UNCHANGED <<now, cellVal, cellUsed, usedCells, usedValues, dirtyMap,
                 deletedMaps, deletedValues, expired, threadTime, rd, gc>>

(* The end of CheckSwapInLock and of Delete: a map equal to the dirty map  *)
(* is published, the old one joins the list with the earlier stamp.        *)
PublishDirty ==
  /\ lock.pc = "publish"
  /\ gen' = gen + 1 /\ readMap' = dirtyMap
  /\ deletedMaps' = Append(deletedMaps,
                      [gen |-> gen, map |-> readMap, time |-> lock.time])
  /\ missTime' = 0 /\ dirtyFlag' = FALSE
  /\ lock' = Free
  /\ UNCHANGED <<now, cellVal, cellUsed, usedCells, usedValues, dirtyMap,
                 deletedValues, expired, threadTime, rd, gc>>

-----------------------------------------------------------------------------
(* Writers. *)

(* Faulty variant of Insert: the dirty flag is not raised. *)
InsertNoFlag(k, v) ==
  /\ lock.pc = "free"
  /\ v \notin usedValues /\ Cardinality(usedValues) < setup.objects
  /\ dirtyMap[k] = NULL
  /\ \E c \in Cells \ usedCells :
       /\ usedCells' = usedCells \cup {c}
       /\ cellVal' = [cellVal EXCEPT ![c] = v]
       /\ cellUsed' = [cellUsed EXCEPT ![c] = now]
       /\ dirtyMap' = [dirtyMap EXCEPT ![k] = c]
  /\ usedValues' = usedValues \cup {v}
  /\ UNCHANGED <<now, gen, readMap, missTime, deletedValues, deletedMaps, lock,
                 expired, threadTime, gc, dirtyFlag>>

(* Update and CreateOrGet of an absent key: a new MapValue in the dirty map. *)
Insert(k, v) ==
  /\ lock.pc = "free"
  /\ v \notin usedValues /\ Cardinality(usedValues) < setup.objects
  /\ dirtyMap[k] = NULL
  /\ \E c \in Cells \ usedCells :
       /\ usedCells' = usedCells \cup {c}
       /\ cellVal' = [cellVal EXCEPT ![c] = v]
       /\ cellUsed' = [cellUsed EXCEPT ![c] = now]
       /\ dirtyMap' = [dirtyMap EXCEPT ![k] = c]
  /\ usedValues' = usedValues \cup {v}
  /\ dirtyFlag' = TRUE
  /\ UNCHANGED <<now, gen, readMap, missTime, deletedValues, deletedMaps, lock,
                 expired, threadTime, gc>>

UpdateInsert(k, v) == Insert(k, v) /\ UNCHANGED rd

(* GetServiceContext after a lookup that found nothing: CreateOrGet makes  *)
(* the value and the raw pointer of its result is kept.                    *)
CreateOrGetNew(r, k, v) ==
  /\ rd[r].pc = "in"
  /\ Insert(k, v)
  /\ rd' = [rd EXCEPT ![r] = Result(r, v, "dirty")]

(* ... or finds one that another thread created meanwhile. *)
CreateOrGetFound(r, k) ==
  /\ rd[r].pc = "in"
  /\ lock.pc = "free"
  /\ dirtyMap[k] # NULL
  /\ rd' = [rd EXCEPT ![r] = Result(r, cellVal[dirtyMap[k]], "dirty")]
  /\ UNCHANGED <<now, cellVal, cellUsed, usedCells, usedValues, mapVars,
                 deletedValues, deletedMaps, lock, expired, threadTime, gc>>

(* Update of a present key (the predicate of the second overload holds):   *)
(* the old value is stamped and listed, then replaced.                     *)
UpdateStamp(k, v) ==
  /\ lock.pc = "free"
  /\ v \notin usedValues /\ Cardinality(usedValues) < setup.objects
  /\ dirtyMap[k] # NULL
  /\ lock' = [pc |-> "update", key |-> k, val |-> v, time |-> now]
  /\ usedValues' = usedValues \cup {v}
  /\ UNCHANGED <<now, cellVal, cellUsed, usedCells, mapVars, deletedValues,
                 deletedMaps, expired, threadTime, rd, gc>>

(* Faulty variant: the replaced value is destroyed at once. *)
UpdateStoreFrees ==
  /\ lock.pc = "update"
  /\ cellUsed' = [cellUsed EXCEPT ![dirtyMap[lock.key]] = lock.time]
  /\ cellVal' = [cellVal EXCEPT ![dirtyMap[lock.key]] = lock.val]
  /\ lock' = Free
  /\ UNCHANGED <<now, usedCells, usedValues, mapVars, deletedValues, deletedMaps,
                 expired, threadTime, rd, gc>>

UpdateStore ==
  LET c == dirtyMap[lock.key]
  IN /\ lock.pc = "update"
     /\ deletedValues' =
          deletedValues \cup {[val |-> cellVal[c], time |-> lock.time]}
     /\ cellUsed' = [cellUsed EXCEPT ![c] = lock.time]
     /\ cellVal' = [cellVal EXCEPT ![c] = lock.val]
     /\ lock' = Free
     /\ UNCHANGED <<now, usedCells, usedValues, mapVars, deletedMaps, expired,
                    threadTime, rd, gc>>

(* The expiry task collects the keys nobody used for ExpireTime ... *)
CheckExpired ==
  /\ lock.pc = "free"
  /\ expired = {}
  /\ now >= ExpireTime
  /\ expired' = {k \in KeysOf(dirtyMap) :
                   cellUsed[dirtyMap[k]] <= now - ExpireTime}
  /\ expired' # {}
  /\ UNCHANGED <<now, cellVal, cellUsed, usedCells, usedValues, mapVars,
                 deletedValues, deletedMaps, lock, threadTime, rd, gc>>

(* ... and later deletes them one call at a time.  The entry is erased     *)
(* from the dirty map (an entry the read map does not share dies here),    *)
(* the read map is stamped, then replaced by a copy of the dirty map.      *)
Delete(k) ==
  /\ lock.pc = "free"
  /\ k \in expired
  /\ expired' = expired \ {k}
  /\ IF dirtyMap[k] = NULL
     THEN UNCHANGED <<dirtyMap, lock>>
     ELSE /\ dirtyMap' = [dirtyMap EXCEPT ![k] = NULL]
          /\ lock' = [Free EXCEPT !.pc = "publish", !.time = now]
  /\ UNCHANGED <<now, cellVal, cellUsed, usedCells, usedValues, gen, readMap,
                 dirtyFlag, missTime, deletedValues, deletedMaps, threadTime,
                 rd, gc>>

-----------------------------------------------------------------------------
(* The collector. *)

MinTimeClock ==
  /\ gc.pc = "idle"
  /\ gc' = [pc |-> "scan", min |-> now, todo |-> Readers]
  /\ UNCHANGED <<now, cellVal, cellUsed, usedCells, usedValues, mapVars,
                 deletedValues, deletedMaps, lock, expired, threadTime, rd>>

MinTimeScan(r) ==
  /\ gc.pc = "scan"
  /\ r \in gc.todo
  /\ gc' = [gc EXCEPT !.todo = @ \ {r},
                      !.min = IF threadTime[r] < @ THEN threadTime[r] ELSE @]
  /\ UNCHANGED <<now, cellVal, cellUsed, usedCells, usedValues, mapVars,
                 deletedValues, deletedMaps, lock, expired, threadTime, rd>>

MinGcTime == gc.min - Grace

CheckGcValues ==
  /\ gc.pc = "scan" /\ gc.todo = {}
  /\ lock.pc = "free"
  /\ deletedValues' = {d \in deletedValues : d.time >= MinGcTime}
  /\ gc' = [gc EXCEPT !.pc = "maps"]
  /\ UNCHANGED <<now, cellVal, cellUsed, usedCells, usedValues, mapVars,
                 deletedMaps, lock, expired, threadTime, rd>>

CheckGcMaps ==
  /\ gc.pc = "maps"
  /\ lock.pc = "free"
  /\ \E n \in 0 .. Len(deletedMaps) :
       /\ \A i \in 1 .. n : deletedMaps[i].time < MinGcTime
       /\ n < Len(deletedMaps) => deletedMaps[n + 1].time >= MinGcTime
       /\ deletedMaps' = SubSeq(deletedMaps, n + 1, Len(deletedMaps))
  /\ gc' = GcIdle
  /\ UNCHANGED <<now, cellVal, cellUsed, usedCells, usedValues, mapVars,
                 deletedValues, lock, expired, threadTime, rd>>

-----------------------------------------------------------------------------
Step ==
  \/ Tick
  \/ \E r \in Readers :
       \/ RcuEnterClock(r) \/ RcuEnterStore(r) \/ RcuExit(r) \/ NestedSection(r)
       \/ \E k \in setup.keys, op \in {"Get", "GetWithRcuTime"} : LoadReadMap(r, k, op)
       \/ LoadValue(r) \/ DerefValue(r) \/ FindNowhere(r) \/ FindInDirtyMap(r)
       \/ \E k \in setup.keys, v \in Values : CreateOrGetNew(r, k, v)
       \/ \E k \in setup.keys : CreateOrGetFound(r, k)
       \/ MinTimeScan(r)
  \/ PublishDirty
  \/ \E k \in setup.keys, v \in Values : UpdateInsert(k, v) \/ UpdateStamp(k, v)
  \/ UpdateStore
  \/ CheckExpired
  \/ \E k \in setup.keys : Delete(k)
  \/ MinTimeClock \/ CheckGcValues \/ CheckGcMaps

Next == Step /\ UNCHANGED setup

Spec == Init /\ [][Next]_vars

-----------------------------------------------------------------------------
(* Properties *)

(* The read map a reader searches, and the shared_ptr it dereferences, are *)
(* still allocated.                                                        *)
LookupMemoryLive ==
  \A r \in Readers :
    /\ rd[r].pc = "find" =>
         \/ rd[r].gen = gen
         \/ \E i \in 1 .. Len(deletedMaps) : deletedMaps[i].gen = rd[r].gen
    /\ rd[r].pc = "deref" /\ rd[r].val # NULL => rd[r].val \in HeldValues

(* A pointer GetWithRcuTime took from the read map stays valid until the   *)
(* caller leaves its section, unless a nested section ended it before.     *)
ReadMapValueProtected ==
  ~setup.nested => \A r \in Readers :
    rd[r].val # NULL /\ rd[r].src = "read" => rd[r].val \in LiveValues

(* What the comment of GetWithRcuTime says: used by a thread that set its  *)
(* rcu time, it keeps the value it returns from being released.            *)
RcuTimeProtectsValue ==
  \A r \in Readers : rd[r].val # NULL => rd[r].val \in LiveValues

(* The header comment: every entry of the read map is the same entry of    *)
(* the dirty map and holds a value, and with the flag down the dirty map   *)
(* has no other entry (3.1), so the early return of a lookup misses none.  *)
MapsAgree ==
  lock.pc = "free" =>
    /\ \A k \in KeysOf(readMap) : readMap[k] = dirtyMap[k]
    /\ \A c \in CellsOf(dirtyMap) : cellVal[c] # NULL
    /\ ~dirtyFlag => readMap = dirtyMap

(* Lock-free lookups touch no released memory, and neither does what they  *)
(* hand out, until the section ends.                                       *)
LookupsSafe == LookupMemoryLive /\ ReadMapValueProtected
=============================================================================
