------------------------------- MODULE RcuMap -------------------------------
(***************************************************************************)
(* The double-buffered map of polaris/cache/rcu_map.h together with the    *)
(* reclamation clock of polaris/cache/rcu_time.cpp.                        *)
(*                                                                         *)
(* read_map_ is read without a lock, dirty_map_ is read and written under  *)
(* dirty_lock_; both point at the same MapValue cells.  Removed values and *)
(* replaced read maps are put on time-stamped lists and released by a      *)
(* collector that uses the oldest entry time of the threads that are       *)
(* inside a RcuEnter/RcuExit section, minus a grace period.                *)
(*                                                                         *)
(* Every access that another thread can observe without the lock is a step *)
(* of its own: the clock read and the store of RcuEnter, the load of       *)
(* read_map_, the store of used_time_ and the load of value_ by a reader,  *)
(* the stores of value_ by Update and Delete, and each thread_time_ load   *)
(* of MinTime.  What happens between lock and unlock and touches nothing a *)
(* lock-free reader sees is one step.                                      *)
(*                                                                         *)
(* Addresses are never reused in the model (Values, Cells and map          *)
(* generations are handed out once): the first access to a released object *)
(* is already the error.                                                   *)
(***************************************************************************)
EXTENDS Integers, Sequences, FiniteSets

CONSTANTS
  Keys,      \* the keys of the map
  Values,    \* the Value objects that are ever inserted
  Cells,     \* the MapValue objects that are ever allocated
  Readers,   \* threads that look keys up inside a RCU section
  NULL,      \* nullptr
  Grace,     \* the constant that RunGcTask subtracts from RcuMinTime()
  MaxStall,  \* longest time a thread may lose between reading the clock and
             \* the store that publishes or depends on that reading
  MaxTime    \* bound on the coarse steady clock

ASSUME ConstantsAssumption ==
  /\ Grace \in Nat /\ MaxStall \in Nat /\ MaxTime \in Nat
  /\ NULL \notin Values /\ NULL \notin Cells
  /\ IsFiniteSet(Readers)

VARIABLES
  now,          \* Time::GetCoarseSteadyTimeMs()
  cellVal,      \* MapValue::value_
  cellUsed,     \* MapValue::used_time_
  usedCells,    \* cells that were ever allocated
  freedCells,   \* cells that were deleted
  usedValues,   \* values that were ever inserted
  refs,         \* reference count of every value; 0 once it is released
  gen,          \* identity of the map read_map_ points at
  readMap,      \* *read_map_
  dirtyMap,     \* *dirty_map_
  missTime,     \* miss_time_
  deletedKeys,  \* deleted_keys_
  deletedValues,\* deleted_value_list_
  deletedMaps,  \* deleted_map_list_
  lockPc,       \* where the holder of dirty_lock_ is
  lockKey,      \* the key it works on
  lockVal,      \* the value it is replacing or deleting
  lockTime,     \* the clock reading of a Delete in progress
  threadTime,   \* ThreadTime::thread_time_ of every reader
  rdPc,         \* where each reader is
  rdKey,        \* the key it looks up
  rdOp,         \* the lookup it performs
  rdTime,       \* its last clock reading
  rdGen,        \* the map it loaded from read_map_ ...
  rdMap,        \* ... and what it finds there
  rdVal,        \* the raw pointer it obtained
  rdOwn,        \* the values it holds a reference on
  gcPc,         \* where the collector is
  gcMin,        \* MinTime()'s running minimum
  gcTodo        \* the threads MinTime() has not looked at yet

cellVars == <<cellVal, cellUsed, usedCells, freedCells>>
valVars  == <<usedValues, refs>>
mapVars  == <<gen, readMap, dirtyMap, missTime, deletedKeys>>
listVars == <<deletedValues, deletedMaps>>
lockVars == <<lockPc, lockKey, lockVal, lockTime>>
rdVars   == <<rdPc, rdKey, rdOp, rdTime, rdGen, rdMap, rdVal, rdOwn>>
gcVars   == <<gcPc, gcMin, gcTodo>>
vars == <<now, cellVars, valVars, mapVars, listVars, lockVars, threadTime,
          rdVars, gcVars>>

-----------------------------------------------------------------------------
(* Time::kMaxTime: later than every clock reading. *)
kMaxTime == MaxTime + 1

(* An InnerMap; NULL stands for an absent key. *)
InnerMap == [Keys -> Cells \cup {NULL}]
EmptyMap == [k \in Keys |-> NULL]
KeysOf(m) == {k \in Keys : m[k] # NULL}

Init ==
  /\ now = 0
  /\ cellVal = [c \in Cells |-> NULL]
  /\ cellUsed = [c \in Cells |-> 0]
  /\ usedCells = {} /\ freedCells = {}
  /\ usedValues = {} /\ refs = [v \in Values |-> 0]
  /\ gen = 0 /\ readMap = EmptyMap /\ dirtyMap = EmptyMap
  /\ missTime = 0 /\ deletedKeys = {}
  /\ deletedValues = <<>> /\ deletedMaps = <<>>
  /\ lockPc = "free" /\ lockKey = NULL /\ lockVal = NULL /\ lockTime = 0
  /\ threadTime = [r \in Readers |-> kMaxTime]
  /\ rdPc = [r \in Readers |-> "out"]
  /\ rdKey = [r \in Readers |-> NULL]
  /\ rdOp = [r \in Readers |-> "none"]
  /\ rdTime = [r \in Readers |-> 0]
  /\ rdGen = [r \in Readers |-> 0]
  /\ rdMap = [r \in Readers |-> EmptyMap]
  /\ rdVal = [r \in Readers |-> NULL]
  /\ rdOwn = [r \in Readers |-> {}]
  /\ gcPc = "idle" /\ gcMin = 0 /\ gcTodo = {}

-----------------------------------------------------------------------------
(* The clock.  It may not run away from a thread that is between a clock   *)
(* reading and the store that depends on it by more than MaxStall.         *)
Tick ==
  /\ now < MaxTime
  /\ lockPc \in {"del_push", "del_unlink"} => now < lockTime + MaxStall
  /\ \A r \in Readers : rdPc[r] = "touch" => now < rdTime[r] + MaxStall
  /\ now' = now + 1
  /\ UNCHANGED <<cellVars, valVars, mapVars, listVars, lockVars, threadTime,
                 rdVars, gcVars>>

-----------------------------------------------------------------------------
(* Sections: ThreadTimeMgr::RcuEnter and RcuExit. *)

RcuEnterClock(r) ==
  /\ rdPc[r] = "out"
  /\ rdPc' = [rdPc EXCEPT ![r] = "enter"]
  /\ rdTime' = [rdTime EXCEPT ![r] = now]
  /\ UNCHANGED <<now, cellVars, valVars, mapVars, listVars, lockVars,
                 threadTime, rdKey, rdOp, rdGen, rdMap, rdVal, rdOwn, gcVars>>

RcuEnterStore(r) ==
  /\ rdPc[r] = "enter"
  /\ rdPc' = [rdPc EXCEPT ![r] = "in"]
  /\ threadTime' = [threadTime EXCEPT ![r] = rdTime[r]]
  /\ rdTime' = [rdTime EXCEPT ![r] = 0]
  /\ UNCHANGED <<now, cellVars, valVars, mapVars, listVars, lockVars,
                 rdKey, rdOp, rdGen, rdMap, rdVal, rdOwn, gcVars>>

(* The section ends; references obtained by Get outlive it. *)
RcuExit(r) ==
  /\ rdPc[r] \in {"in", "hold"}
  /\ rdPc' = [rdPc EXCEPT ![r] = "out"]
  /\ threadTime' = [threadTime EXCEPT ![r] = kMaxTime]
  /\ rdVal' = [rdVal EXCEPT ![r] = NULL]
  /\ UNCHANGED <<now, cellVars, valVars, mapVars, listVars, lockVars,
                 rdKey, rdOp, rdTime, rdGen, rdMap, rdOwn, gcVars>>

-----------------------------------------------------------------------------
(* Lookups. *)

(* What a reader keeps once its lookup is over. *)
EndLookup(r, pc, v) ==
  /\ rdPc' = [rdPc EXCEPT ![r] = pc]
  /\ rdVal' = [rdVal EXCEPT ![r] = v]
  /\ rdKey' = [rdKey EXCEPT ![r] = NULL]
  /\ rdOp' = [rdOp EXCEPT ![r] = "none"]
  /\ rdTime' = [rdTime EXCEPT ![r] = 0]
  /\ rdGen' = [rdGen EXCEPT ![r] = 0]
  /\ rdMap' = [rdMap EXCEPT ![r] = EmptyMap]

(* InnerMap* current_read = read_map_.  A reader makes one lookup in each  *)
(* section, and takes a reference only while it owns none: the bounds on   *)
(* what one thread holds.                                                  *)
LoadReadMap(r, k, op) ==
  /\ rdPc[r] = "in"
  /\ op = "Get" => rdOwn[r] = {}
  /\ rdPc' = [rdPc EXCEPT ![r] = "find"]
  /\ rdKey' = [rdKey EXCEPT ![r] = k]
  /\ rdOp' = [rdOp EXCEPT ![r] = op]
  /\ rdGen' = [rdGen EXCEPT ![r] = gen]
  /\ rdMap' = [rdMap EXCEPT ![r] = readMap]
  /\ UNCHANGED <<now, cellVars, valVars, mapVars, listVars, lockVars,
                 threadTime, rdTime, rdVal, rdOwn, gcVars>>

(* The key is in the loaded map; the clock is read before used_time_ is set. *)
FindInReadMap(r) ==
  /\ rdPc[r] = "find"
  /\ rdMap[r][rdKey[r]] # NULL
  /\ rdPc' = [rdPc EXCEPT ![r] = "touch"]
  /\ rdTime' = [rdTime EXCEPT ![r] = now]
  /\ UNCHANGED <<now, cellVars, valVars, mapVars, listVars, lockVars,
                 threadTime, rdKey, rdOp, rdGen, rdMap, rdVal, rdOwn, gcVars>>

RdCell(r) == rdMap[r][rdKey[r]]

(* it->second->used_time_ = ... *)
TouchCell(r) ==
  /\ rdPc[r] = "touch"
  /\ cellUsed' = [cellUsed EXCEPT ![RdCell(r)] = rdTime[r]]
  /\ rdPc' = [rdPc EXCEPT ![r] = "load"]
  /\ UNCHANGED <<now, cellVal, usedCells, freedCells, valVars, mapVars, listVars,
                 lockVars, threadTime, rdKey, rdOp, rdTime, rdGen, rdMap, rdVal,
                 rdOwn, gcVars>>

(* read_result = it->second->value_; Get still has to take its reference. *)
LoadValue(r) ==
  /\ rdPc[r] = "load"
  /\ LET v == cellVal[RdCell(r)]
         pc == IF rdOp[r] = "Get" /\ v # NULL THEN "ref" ELSE "hold"
     IN EndLookup(r, pc, v)
  /\ UNCHANGED <<now, cellVars, valVars, mapVars, listVars, lockVars,
                 threadTime, rdOwn, gcVars>>

(* Faulty variant of CheckSwapInLock: deleted_keys_ is cleared, not moved. *)
CheckSwapInLockForgets(miss) ==
  IF miss < Cardinality(KeysOf(dirtyMap))
  THEN /\ missTime' = miss
       /\ UNCHANGED <<gen, readMap, deletedKeys, deletedMaps>>
  ELSE /\ missTime' = 0
       /\ gen' = gen + 1
       /\ readMap' = dirtyMap
       /\ deletedMaps' = Append(deletedMaps,
            [gen |-> gen, map |-> readMap, dels |-> {}, time |-> now])
       /\ deletedKeys' = {}

(* CheckSwapInLock: once as many lookups missed as there are entries, the  *)
(* dirty map becomes the read map and the old read map is retired.         *)
CheckSwapInLock(miss) ==
  IF miss < Cardinality(KeysOf(dirtyMap))
  THEN /\ missTime' = miss
       /\ UNCHANGED <<gen, readMap, deletedKeys, deletedMaps>>
  ELSE /\ missTime' = 0
       /\ gen' = gen + 1
       /\ readMap' = dirtyMap
       /\ deletedMaps' = Append(deletedMaps,
            [gen |-> gen, map |-> readMap, dels |-> deletedKeys, time |-> now])
       /\ deletedKeys' = {}

(* The key is not in the loaded map but in the dirty map. *)
FindInDirtyMap(r) ==
  /\ rdPc[r] = "find"
  /\ rdMap[r][rdKey[r]] = NULL
  /\ lockPc = "free"
  /\ dirtyMap[rdKey[r]] # NULL
  /\ LET c == dirtyMap[rdKey[r]]
     IN /\ cellUsed' = [cellUsed EXCEPT ![c] = now]
        /\ EndLookup(r, IF rdOp[r] = "Get" THEN "ref" ELSE "hold", cellVal[c])
  /\ CheckSwapInLock(missTime + (IF rdGen[r] = gen THEN 1 ELSE 0))
  /\ UNCHANGED <<now, cellVal, usedCells, freedCells, valVars, dirtyMap,
                 deletedValues, lockVars, threadTime, rdOwn, gcVars>>

(* The key is in neither map. *)
FindNowhere(r) ==
  /\ rdPc[r] = "find"
  /\ rdMap[r][rdKey[r]] = NULL
  /\ lockPc = "free"
  /\ dirtyMap[rdKey[r]] = NULL
  /\ EndLookup(r, "hold", NULL)
  /\ UNCHANGED <<now, cellVars, valVars, mapVars, listVars, lockVars,
                 threadTime, rdOwn, gcVars>>

(* Get: allocator_(read_result) *)
IncrementRef(r) ==
  /\ rdPc[r] = "ref"
  /\ refs' = [refs EXCEPT ![rdVal[r]] = @ + 1]
  /\ rdOwn' = [rdOwn EXCEPT ![r] = @ \cup {rdVal[r]}]
  /\ rdPc' = [rdPc EXCEPT ![r] = "hold"]
  /\ rdVal' = [rdVal EXCEPT ![r] = NULL]
  /\ UNCHANGED <<now, cellVars, usedValues, mapVars, listVars, lockVars,
                 threadTime, rdKey, rdOp, rdTime, rdGen, rdMap, gcVars>>

(* The caller of Get gives its reference back, inside or after the section. *)
DecrementRef(r, v) ==
  /\ v \in rdOwn[r]
  /\ rdPc[r] \in {"out", "hold"}
  /\ refs' = [refs EXCEPT ![v] = @ - 1]
  /\ rdOwn' = [rdOwn EXCEPT ![r] = @ \ {v}]
  /\ UNCHANGED <<now, cellVars, usedValues, mapVars, listVars, lockVars,
                 threadTime, rdPc, rdKey, rdOp, rdTime, rdGen, rdMap, rdVal,
                 gcVars>>

-----------------------------------------------------------------------------
(* Writers.  All of them hold dirty_lock_. *)

(* Faulty variant of InsertInLock: the key stays in deleted_keys_. *)
InsertInLockKeepsDeleted(k, v) ==
  /\ dirtyMap[k] = NULL
  /\ \E c \in Cells :
       /\ IF readMap[k] # NULL
          THEN c = readMap[k] /\ UNCHANGED usedCells
          ELSE c \notin usedCells /\ usedCells' = usedCells \cup {c}
       /\ cellVal' = [cellVal EXCEPT ![c] = v]
       /\ cellUsed' = [cellUsed EXCEPT ![c] = now]
       /\ dirtyMap' = [dirtyMap EXCEPT ![k] = c]
  /\ usedValues' = usedValues \cup {v}
  /\ refs' = [refs EXCEPT ![v] = 1]
  /\ UNCHANGED <<freedCells, gen, readMap, missTime, deletedKeys>>

(* The dirty map has no entry for k: reuse the emptied cell that the read  *)
(* map still holds, or allocate one.                                       *)
InsertInLock(k, v) ==
  /\ dirtyMap[k] = NULL
  /\ \E c \in Cells :
       /\ IF readMap[k] # NULL
          THEN c = readMap[k] /\ UNCHANGED usedCells
          ELSE c \notin usedCells /\ usedCells' = usedCells \cup {c}
       /\ cellVal' = [cellVal EXCEPT ![c] = v]
       /\ cellUsed' = [cellUsed EXCEPT ![c] = now]
       /\ dirtyMap' = [dirtyMap EXCEPT ![k] = c]
  /\ deletedKeys' = deletedKeys \ {k}
  /\ usedValues' = usedValues \cup {v}
  /\ refs' = [refs EXCEPT ![v] = 1]
  /\ UNCHANGED <<freedCells, gen, readMap, missTime>>

(* Update of an absent key. *)
UpdateInsert(k, v) ==
  /\ lockPc = "free"
  /\ v \notin usedValues
  /\ InsertInLock(k, v)
  /\ UNCHANGED <<now, listVars, lockVars, threadTime, rdVars, gcVars>>

(* Update of a present key: the new value is published first ... *)
UpdateStore(k, v) ==
  /\ lockPc = "free"
  /\ v \notin usedValues
  /\ dirtyMap[k] # NULL
  /\ cellVal' = [cellVal EXCEPT ![dirtyMap[k]] = v]
  /\ usedValues' = usedValues \cup {v}
  /\ refs' = [refs EXCEPT ![v] = 1]
  /\ lockPc' = "upd_retire"
  /\ lockVal' = cellVal[dirtyMap[k]]
  /\ UNCHANGED <<now, cellUsed, usedCells, freedCells, mapVars, listVars,
                 lockKey, lockTime, threadTime, rdVars, gcVars>>

Unlock ==
  /\ lockPc' = "free" /\ lockKey' = NULL /\ lockVal' = NULL /\ lockTime' = 0

(* ... and the old one is stamped and listed after that. *)
UpdateRetire ==
  /\ lockPc = "upd_retire"
  /\ deletedValues' = Append(deletedValues, [val |-> lockVal, time |-> now])
  /\ Unlock
  /\ UNCHANGED <<now, cellVars, valVars, mapVars, deletedMaps, threadTime,
                 rdVars, gcVars>>

(* CreateOrGet, called by a reader inside its section. *)
CreateOrGetFound(r, k) ==
  /\ rdPc[r] = "in"
  /\ lockPc = "free"
  /\ dirtyMap[k] # NULL
  /\ cellUsed' = [cellUsed EXCEPT ![dirtyMap[k]] = now]
  /\ EndLookup(r, "hold", cellVal[dirtyMap[k]])
  /\ UNCHANGED <<now, cellVal, usedCells, freedCells, valVars, mapVars, listVars,
                 lockVars, threadTime, rdOwn, gcVars>>

CreateOrGetNew(r, k, v) ==
  /\ rdPc[r] = "in"
  /\ lockPc = "free"
  /\ v \notin usedValues
  /\ InsertInLock(k, v)
  /\ EndLookup(r, "hold", v)
  /\ UNCHANGED <<now, listVars, lockVars, threadTime, rdOwn, gcVars>>

(* Delete: the cell leaves the dirty map and is stamped, ... *)
DeleteStamp(k) ==
  /\ lockPc = "free"
  /\ dirtyMap[k] # NULL
  /\ dirtyMap' = [dirtyMap EXCEPT ![k] = NULL]
  /\ cellUsed' = [cellUsed EXCEPT ![dirtyMap[k]] = now]
  /\ lockPc' = "del_push" /\ lockKey' = k /\ lockTime' = now
  /\ lockVal' = dirtyMap[k]
  /\ UNCHANGED <<now, cellVal, usedCells, freedCells, valVars, gen, readMap,
                 missTime, deletedKeys, listVars, threadTime, rdVars, gcVars>>

(* ... copied to the list with whatever used_time_ holds by then, ... *)
DeletePush ==
  /\ lockPc = "del_push"
  /\ deletedValues' = Append(deletedValues,
       [val |-> cellVal[lockVal], time |-> cellUsed[lockVal]])
  /\ lockPc' = "del_unlink"
  /\ UNCHANGED <<now, cellVars, valVars, mapVars, deletedMaps, lockKey, lockVal,
                 lockTime, threadTime, rdVars, gcVars>>

(* Faulty variants of DeleteUnlink: the cell is deleted although the read  *)
(* map still has it; the read map keeps the value.                         *)
DeleteUnlinkFreesShared ==
  /\ lockPc = "del_unlink"
  /\ freedCells' = freedCells \cup {lockVal}
  /\ Unlock
  /\ UNCHANGED <<now, cellVal, cellUsed, usedCells, valVars, mapVars, listVars,
                 threadTime, rdVars, gcVars>>

DeleteUnlinkKeepsValue ==
  /\ lockPc = "del_unlink"
  /\ deletedKeys' = IF readMap[lockKey] # NULL
                    THEN deletedKeys \cup {lockKey} ELSE deletedKeys
  /\ Unlock
  /\ UNCHANGED <<now, cellVars, valVars, gen, readMap, dirtyMap, missTime,
                 listVars, threadTime, rdVars, gcVars>>

(* ... and only then hidden from the lock-free readers. *)
DeleteUnlink ==
  /\ lockPc = "del_unlink"
  /\ IF readMap[lockKey] # NULL
     THEN /\ cellVal' = [cellVal EXCEPT ![readMap[lockKey]] = NULL]
          /\ deletedKeys' = deletedKeys \cup {lockKey}
          /\ UNCHANGED freedCells
     ELSE /\ freedCells' = freedCells \cup {lockVal}
          /\ UNCHANGED <<cellVal, deletedKeys>>
  /\ Unlock
  /\ UNCHANGED <<now, cellUsed, usedCells, valVars, gen, readMap, dirtyMap,
                 missTime, listVars, threadTime, rdVars, gcVars>>

(* GetAllValuesWithRef: a reference on every value of the dirty map. *)
GetAllValuesWithRef(r) ==
  /\ rdPc[r] = "out"
  /\ rdOwn[r] = {}
  /\ lockPc = "free"
  /\ LET all == {cellVal[dirtyMap[k]] : k \in KeysOf(dirtyMap)}
     IN /\ all # {}
        /\ refs' = [v \in Values |-> IF v \in all THEN refs[v] + 1 ELSE refs[v]]
        /\ rdOwn' = [rdOwn EXCEPT ![r] = all]
  /\ UNCHANGED <<now, cellVars, usedValues, mapVars, listVars, lockVars,
                 threadTime, rdPc, rdKey, rdOp, rdTime, rdGen, rdMap, rdVal,
                 gcVars>>

-----------------------------------------------------------------------------
(* The collector: RunGcTask computes MinTime() and calls CheckGc. *)

MinTimeClock ==
  /\ gcPc = "idle"
  /\ gcPc' = "scan" /\ gcMin' = now /\ gcTodo' = Readers
  /\ UNCHANGED <<now, cellVars, valVars, mapVars, listVars, lockVars,
                 threadTime, rdVars>>

MinTimeScan(r) ==
  /\ gcPc = "scan"
  /\ r \in gcTodo
  /\ gcMin' = IF threadTime[r] < gcMin THEN threadTime[r] ELSE gcMin
  /\ gcTodo' = gcTodo \ {r}
  /\ UNCHANGED <<now, cellVars, valVars, mapVars, listVars, lockVars,
                 threadTime, rdVars, gcPc>>

(* Faulty variant: no grace period. *)
MinGcTimeNoGrace == gcMin

(* rcu_min_time > 2000 ? rcu_min_time - 2000 : 0 *)
MinGcTime == IF gcMin > Grace THEN gcMin - Grace ELSE 0

(* CheckGc takes the first n entries of a list: it stops at the first one  *)
(* that is not older than the limit.                                       *)
TakesFirst(n, list, lim) ==
  /\ \A i \in 1 .. n : list[i].time < lim
  /\ n < Len(list) => ~(list[n + 1].time < lim)

CheckGcValues ==
  /\ gcPc = "scan" /\ gcTodo = {}
  /\ lockPc = "free"
  /\ \E n \in 0 .. Len(deletedValues) :
       LET dead == {deletedValues[i].val : i \in 1 .. n}
       IN /\ TakesFirst(n, deletedValues, MinGcTime)
          /\ refs' = [v \in Values |->
                        IF v \in dead THEN refs[v] - 1 ELSE refs[v]]
          /\ deletedValues' = SubSeq(deletedValues, n + 1, Len(deletedValues))
  /\ gcPc' = "maps"
  /\ UNCHANGED <<now, cellVars, usedValues, mapVars, deletedMaps, lockVars,
                 threadTime, rdVars, gcMin, gcTodo>>

(* A retired map is deleted with the cells of its deleted_keys_. *)
RetiredCells(i) == {deletedMaps[i].map[k] : k \in deletedMaps[i].dels}

CheckGcMaps ==
  /\ gcPc = "maps"
  /\ lockPc = "free"
  /\ \E n \in 0 .. Len(deletedMaps) :
       /\ TakesFirst(n, deletedMaps, MinGcTime)
       /\ freedCells' = freedCells \cup UNION {RetiredCells(i) : i \in 1 .. n}
       /\ deletedMaps' = SubSeq(deletedMaps, n + 1, Len(deletedMaps))
  /\ gcPc' = "idle" /\ gcMin' = 0
  /\ UNCHANGED <<now, cellVal, cellUsed, usedCells, valVars, mapVars,
                 deletedValues, lockVars, threadTime, rdVars, gcTodo>>

-----------------------------------------------------------------------------
Section(r) == RcuEnterClock(r) \/ RcuEnterStore(r) \/ RcuExit(r)

Lookup(r) ==
  \/ \E k \in Keys, op \in {"Get", "GetWithRcuTime"} : LoadReadMap(r, k, op)
  \/ FindInReadMap(r) \/ TouchCell(r) \/ LoadValue(r)
  \/ FindInDirtyMap(r) \/ FindNowhere(r) \/ IncrementRef(r)
  \/ \E v \in Values : DecrementRef(r, v)

LockedCall(r) ==
  \/ \E k \in Keys : CreateOrGetFound(r, k)
  \/ \E k \in Keys, v \in Values : CreateOrGetNew(r, k, v)
  \/ GetAllValuesWithRef(r)

Reader(r) == Section(r) \/ Lookup(r) \/ LockedCall(r)

Writer ==
  \/ \E k \in Keys, v \in Values : UpdateInsert(k, v) \/ UpdateStore(k, v)
  \/ UpdateRetire
  \/ \E k \in Keys : DeleteStamp(k)
  \/ DeletePush \/ DeleteUnlink

Collector ==
  \/ MinTimeClock
  \/ \E r \in Readers : MinTimeScan(r)
  \/ CheckGcValues \/ CheckGcMaps

Next == Tick \/ (\E r \in Readers : Reader(r)) \/ Writer \/ Collector

Spec == Init /\ [][Next]_vars

-----------------------------------------------------------------------------
(* Properties *)

RetiredValue == [val : Values \cup {NULL}, time : Nat]
RetiredMap == [gen : Nat, map : InnerMap, dels : SUBSET Keys, time : Nat]

CellTypes ==
  /\ now \in Nat
  /\ cellVal \in [Cells -> Values \cup {NULL}]
  /\ cellUsed \in [Cells -> Nat]
  /\ usedCells \subseteq Cells /\ freedCells \subseteq Cells
  /\ usedValues \subseteq Values /\ refs \in [Values -> Int]

MapTypes ==
  /\ gen \in Nat /\ readMap \in InnerMap /\ dirtyMap \in InnerMap
  /\ missTime \in Nat /\ deletedKeys \subseteq Keys

ListTypes ==
  /\ deletedValues \in Seq(RetiredValue)
  /\ deletedMaps \in Seq(RetiredMap)

LockTypes ==
  /\ lockPc \in {"free", "upd_retire", "del_push", "del_unlink"}
  /\ lockKey \in Keys \cup {NULL}
  /\ lockVal \in Values \cup Cells \cup {NULL} /\ lockTime \in Nat

ReaderTypes ==
  /\ threadTime \in [Readers -> Nat]
  /\ rdPc \in [Readers -> {"out", "enter", "in", "find", "touch", "load",
                           "ref", "hold"}]
  /\ rdKey \in [Readers -> Keys \cup {NULL}]
  /\ rdOp \in [Readers -> {"none", "Get", "GetWithRcuTime"}]
  /\ rdTime \in [Readers -> Nat] /\ rdGen \in [Readers -> Nat]
  /\ rdMap \in [Readers -> InnerMap]
  /\ rdVal \in [Readers -> Values \cup {NULL}]
  /\ rdOwn \in [Readers -> SUBSET Values]

CollectorTypes ==
  /\ gcPc \in {"idle", "scan", "maps"} /\ gcMin \in Nat
  /\ gcTodo \subseteq Readers

(* Every variable stays in its range; the only sequences are the lists of  *)
(* retired values and of retired maps.                                     *)
TypeOK ==
  /\ CellTypes /\ MapTypes /\ ListTypes
  /\ LockTypes /\ ReaderTypes /\ CollectorTypes

(* The cells a reader dereferences are not deleted under it: not the one   *)
(* whose used_time_ it is about to set, nor the one whose value_ it loads. *)
NoFreedCellRead ==
  \A r \in Readers :
    rdPc[r] \in {"touch", "load"} => RdCell(r) \notin freedCells

(* The read map a reader searches is the current one or still on           *)
(* deleted_map_list_: CheckGc has not deleted it.                          *)
NoFreedMapRead ==
  \A r \in Readers :
    rdPc[r] = "find" =>
      \/ rdGen[r] = gen
      \/ \E i \in 1 .. Len(deletedMaps) : deletedMaps[i].gen = rdGen[r]

(* No lock-free reader touches memory that Delete or CheckGc freed.        *)
MemoryLive == NoFreedCellRead /\ NoFreedMapRead

(* A raw pointer handed out inside a section, and a pointer Get is about   *)
(* to take its reference on, point at a live value.                        *)
NoFreedValueRead ==
  \A r \in Readers :
    /\ rdVal[r] # NULL => refs[rdVal[r]] > 0
    /\ \A v \in rdOwn[r] : refs[v] > 0

(* What the header comment promises about the two maps whenever            *)
(* dirty_lock_ is free: an entry of the read map holds a value exactly if  *)
(* the dirty map has the key (2.1, 2.2, 4.2), with the same cell; a dirty  *)
(* entry always holds one (4.1); deleted_keys_ are the entries emptied in  *)
(* the read map.                                                           *)
MapsAgree ==
  lockPc = "free" =>
    \A k \in Keys :
      /\ readMap[k] # NULL =>
           (dirtyMap[k] # NULL <=> cellVal[readMap[k]] # NULL)
      /\ readMap[k] # NULL /\ dirtyMap[k] # NULL => readMap[k] = dirtyMap[k]
      /\ dirtyMap[k] # NULL => cellVal[dirtyMap[k]] # NULL
      /\ k \in deletedKeys <=> (readMap[k] # NULL /\ dirtyMap[k] = NULL)

(* Who deletes a cell: the dirty map's entry, the read map's deleted_keys_ *)
(* or the deleted_keys_ of one retired map.                                *)
DirtyCells == {dirtyMap[k] : k \in KeysOf(dirtyMap)}
EmptiedCells == {readMap[k] : k \in deletedKeys}

(* No cell is deleted twice and none is lost: between operations, every    *)
(* allocated cell has been deleted or has exactly one of the three owners  *)
(* that will delete it.                                                    *)
OneOwnerPerCell ==
  lockPc = "free" =>
    LET owned == DirtyCells \cup EmptiedCells
                   \cup UNION {RetiredCells(i) : i \in 1 .. Len(deletedMaps)}
    IN /\ usedCells = owned \cup freedCells
       /\ owned \cap freedCells = {}
       /\ DirtyCells \cap EmptiedCells = {}
       /\ \A i \in 1 .. Len(deletedMaps) :
            /\ RetiredCells(i) \cap (DirtyCells \cup EmptiedCells) = {}
            /\ \A j \in 1 .. Len(deletedMaps) :
                 i # j => RetiredCells(i) \cap RetiredCells(j) = {}

(* Reference counts are exact between operations: one for the map or for   *)
(* the list of retired values, one for each reader that owns the value.    *)
(* So no value is released early, released twice or leaked.                *)
RefsExact ==
  lockPc = "free" =>
    \A v \in Values :
      refs[v] = Cardinality({r \in Readers : v \in rdOwn[r]})
                + (IF \E k \in KeysOf(dirtyMap) : cellVal[dirtyMap[k]] = v
                   THEN 1 ELSE 0)
                + Cardinality({i \in 1 .. Len(deletedValues) :
                                 deletedValues[i].val = v})

(* Between operations every cell and every reference has exactly one owner *)
(* that will give it up.                                                   *)
OwnershipExact == OneOwnerPerCell /\ RefsExact
=============================================================================
