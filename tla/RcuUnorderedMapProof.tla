------------------------ MODULE RcuUnorderedMapProof ------------------------
(***************************************************************************)
(* Proofs about RcuUnorderedMap, for any keys, values, readers, clock      *)
(* bounds and configurations.                                              *)
(***************************************************************************)
EXTENDS RcuUnorderedMap, SequenceTheorems, TLAPS

InnerMap == [Keys -> Cells \cup {NULL}]
RetiredMap == [gen : Nat, map : InnerMap, time : Nat]
RetiredValue == [val : Values \cup {NULL}, time : Nat]
LockType ==
  [pc : {"free", "publish", "update"}, key : Keys \cup {NULL},
   val : Values \cup {NULL}, time : Nat]
ReaderType ==
  [pc : {"out", "enter", "in", "find", "deref", "hold"},
   op : {"none", "Get", "GetWithRcuTime"}, key : Keys \cup {NULL}, time : Nat,
   gen : Nat, map : InnerMap, val : Values \cup {NULL},
   src : {"none", "read", "dirty"}, own : SUBSET Values]
GcType == [pc : {"idle", "scan", "maps"}, min : Nat, todo : SUBSET Readers]

(* The variables that the argument is about have their types. *)
TypeInv ==
  /\ setup \in Setups /\ setup \in SetupType /\ now \in Nat
  /\ cellVal \in [Cells -> Values \cup {NULL}] /\ usedCells \subseteq Cells
  /\ gen \in Nat /\ readMap \in InnerMap /\ dirtyMap \in InnerMap
  /\ deletedValues \subseteq RetiredValue /\ deletedMaps \in Seq(RetiredMap)
  /\ lock \in LockType /\ threadTime \in [Readers -> Nat]
  /\ rd \in [Readers -> ReaderType] /\ gc \in GcType

(* The two maps, while the lock is held too: a Delete has taken its key    *)
(* out of the dirty map and not yet published the rest.                    *)
MapInv ==
  /\ lock.pc # "publish" =>
       /\ \A k \in Keys : readMap[k] # NULL => readMap[k] = dirtyMap[k]
       /\ ~dirtyFlag => readMap = dirtyMap
  /\ \A k \in Keys : dirtyMap[k] # NULL =>
       dirtyMap[k] \in usedCells /\ cellVal[dirtyMap[k]] # NULL
  /\ \A k \in Keys : readMap[k] # NULL => readMap[k] \in usedCells
  /\ \A i \in 1 .. Len(deletedMaps) : \A k \in Keys :
       deletedMaps[i].map[k] # NULL => deletedMaps[i].map[k] \in usedCells
  /\ lock.pc = "update" =>
       lock.key \in Keys /\ dirtyMap[lock.key] # NULL /\ lock.val \in Values

(* Readers whose thread_time_ is the start of their section. *)
InSection(r) ==
  rd[r].pc \in {"in", "find", "deref"} \/ (rd[r].pc = "hold" /\ ~setup.nested)

(* Clock readings are of the past, and the lock holder's is at most a      *)
(* stall old.                                                              *)
ClockInv ==
  /\ \A r \in Readers : rd[r].pc = "enter" => rd[r].time <= now
  /\ \A r \in Readers : InSection(r) => threadTime[r] <= now
  /\ gc.pc # "idle" => gc.min <= now
  /\ gc.pc = "maps" => gc.todo = {}
  /\ lock.pc # "free" => lock.time <= now /\ now <= lock.time + setup.stall

(* What was stamped at this time is collected after the section of r only. *)
Outlives(r, time) ==
  /\ threadTime[r] <= time + setup.stall
  /\ gc.pc # "idle" /\ r \notin gc.todo => gc.min <= time + setup.stall

(* The map a reader searches is the read map, or the list keeps it, if the *)
(* grace period covers the stalls of the lock holders.                     *)
HasMap(r, i) ==
  /\ deletedMaps[i].gen = rd[r].gen
  /\ deletedMaps[i].map = rd[r].map
  /\ Outlives(r, deletedMaps[i].time)

SearchInv ==
  \A r \in Readers : rd[r].pc = "find" =>
    /\ rd[r].key \in Keys
    /\ \/ rd[r].gen = gen /\ rd[r].map = readMap
       \/ \E i \in 1 .. Len(deletedMaps) : HasMap(r, i)
       \/ setup.grace < setup.stall

(* The pointer it took from there is in a cell of the read map, in a cell  *)
(* that a map on the list keeps, or on the list of retired values.         *)
CellHas(m, v) == \E k \in Keys : m[k] # NULL /\ cellVal[m[k]] = v
Keeps(r, v) ==
  \/ CellHas(readMap, v)
  \/ \E i \in 1 .. Len(deletedMaps) :
       CellHas(deletedMaps[i].map, v) /\ Outlives(r, deletedMaps[i].time)
  \/ \E d \in deletedValues : d.val = v /\ Outlives(r, d.time)
  \/ setup.grace < setup.stall

FromReadMap(r) ==
  \/ rd[r].pc = "deref"
  \/ rd[r].pc = "hold" /\ rd[r].src = "read" /\ ~setup.nested

HoldInv ==
  \A r \in Readers :
    /\ rd[r].src = "read" => rd[r].pc = "hold"
    /\ FromReadMap(r) /\ rd[r].val # NULL => Keeps(r, rd[r].val)

UnorderedInv == TypeInv /\ MapInv /\ ClockInv /\ SearchInv /\ HoldInv

-----------------------------------------------------------------------------
LEMMA InitInv == Init => UnorderedInv
<1> SUFFICES ASSUME Init PROVE UnorderedInv
  OBVIOUS
<1> USE ConstantsAssumption DEF Init, EmptyMap, Free, Idle, GcIdle
<1>1. setup \in Setups /\ setup \in SetupType /\ setup.grace \in Nat /\ setup.maxTime \in Nat
  BY DEF SetupType
<1>2. TypeInv
  BY <1>1 DEF TypeInv, InnerMap, LockType, ReaderType, GcType, kMaxTime, Grace
<1>3. MapInv
  BY DEF MapInv
<1>4. ClockInv /\ SearchInv /\ HoldInv
  BY DEF ClockInv, InSection, SearchInv, HoldInv, FromReadMap
<1> QED
  BY <1>2, <1>3, <1>4 DEF UnorderedInv

LEMMA RetiredTypes ==
  ASSUME TypeInv
  PROVE  /\ \A i \in 1 .. Len(deletedMaps) :
              deletedMaps[i].time \in Nat /\ deletedMaps[i].map \in InnerMap
         /\ \A d \in deletedValues : d.time \in Nat
<1>1. \A i \in 1 .. Len(deletedMaps) : deletedMaps[i] \in RetiredMap
  BY DEF TypeInv
<1> QED
  BY <1>1 DEF TypeInv, RetiredMap, RetiredValue

(* Steps that leave the maps, the cells and the lock alone. *)
LEMMA MapFrame ==
  ASSUME MapInv, UNCHANGED <<cellVal, usedCells, readMap, dirtyMap, dirtyFlag, deletedMaps, lock>>
  PROVE  MapInv'
BY DEF MapInv

(* The cells that lock-free readers may reach keep their values. *)
CellsKept ==
  /\ \A k \in Keys : readMap[k] # NULL => cellVal'[readMap[k]] = cellVal[readMap[k]]
  /\ \A i \in 1 .. Len(deletedMaps) : \A k \in Keys :
       deletedMaps[i].map[k] # NULL =>
         cellVal'[deletedMaps[i].map[k]] = cellVal[deletedMaps[i].map[k]]

(* A reader keeps what it has as long as its own section and the lists stay. *)
LEMMA KeepFrame ==
  ASSUME UNCHANGED <<setup, readMap, deletedMaps, deletedValues, gc>>, CellsKept,
         NEW q \in Readers, threadTime'[q] = threadTime[q]
  PROVE  /\ \A i \in 1 .. Len(deletedMaps) :
              HasMap(q, i) /\ rd'[q].gen = rd[q].gen /\ rd'[q].map = rd[q].map => HasMap(q, i)'
         /\ \A v : Keeps(q, v) => Keeps(q, v)'
BY DEF HasMap, Keeps, CellHas, Outlives, CellsKept

(* Steps of one reader that take nothing out of the read map. *)
LEMMA ReaderFrame ==
  ASSUME UnorderedInv, NEW r \in Readers,
         UNCHANGED <<setup, now, gen, readMap, deletedMaps, deletedValues, gc>>, CellsKept,
         \A q \in Readers \ {r} : rd'[q] = rd[q] /\ threadTime'[q] = threadTime[q],
         rd'[r].pc \notin {"find", "deref"}, rd'[r].src # "read",
         rd'[r].pc = "enter" => rd'[r].time <= now,
         InSection(r)' => threadTime'[r] <= now,
         lock'.pc # "free" => lock'.time <= now /\ now <= lock'.time + setup.stall
  PROVE  ClockInv' /\ SearchInv' /\ HoldInv'
<1>1. ClockInv'
  BY DEF UnorderedInv, ClockInv, InSection
<1>2. SearchInv'
  BY KeepFrame DEF UnorderedInv, SearchInv
<1>3. HoldInv'
  <2> SUFFICES ASSUME NEW q \in Readers
               PROVE  /\ rd'[q].src = "read" => rd'[q].pc = "hold"
                      /\ FromReadMap(q)' /\ rd'[q].val # NULL => Keeps(q, rd[q].val)'
    BY DEF HoldInv
  <2>1. CASE q = r
    BY <2>1 DEF FromReadMap
  <2>2. CASE q # r
    <3>1. PICK v : v = rd[q].val /\ v = rd'[q].val
      BY <2>2
    <3>2. Keeps(q, v) => Keeps(q, v)'
      BY <2>2, KeepFrame
    <3>3. Keeps(q, v)' => Keeps(q, rd[q].val)'
      BY <3>1 DEF Keeps, CellHas, Outlives
    <3> QED
      BY <2>2, <3>1, <3>2, <3>3 DEF UnorderedInv, HoldInv, FromReadMap
  <2> QED
    BY <2>1, <2>2
<1> QED
  BY <1>1, <1>2, <1>3

LEMMA ResultType ==
  ASSUME TypeInv, NEW r \in Readers, NEW v \in Values \cup {NULL}, NEW src \in {"none", "read", "dirty"}
  PROVE  /\ Result(r, v, src) \in ReaderType
         /\ Result(r, v, src).pc = "hold" /\ Result(r, v, src).src = src
         /\ Result(r, v, src).val \in {v, NULL}
BY DEF Result, Idle, EmptyMap, ReaderType, InnerMap

-----------------------------------------------------------------------------
LEMMA TickInv ==
  ASSUME UnorderedInv, Tick, UNCHANGED setup
  PROVE  UnorderedInv'
<1> USE DEF Tick, mapVars
<1>1. TypeInv' /\ MapInv'
  BY MapFrame DEF UnorderedInv, TypeInv
<1>2. ClockInv'
  BY DEF UnorderedInv, TypeInv, SetupType, ReaderType, GcType, LockType, ClockInv, InSection
<1>3. SearchInv' /\ HoldInv'
  BY DEF UnorderedInv, SearchInv, HoldInv, HasMap, Outlives, FromReadMap, Keeps, CellHas
<1> QED
  BY <1>1, <1>2, <1>3 DEF UnorderedInv

LEMMA SectionInv ==
  ASSUME UnorderedInv, NEW r \in Readers, UNCHANGED setup,
         RcuEnterClock(r) \/ RcuEnterStore(r) \/ RcuExit(r) \/ NestedSection(r)
  PROVE  UnorderedInv'
<1> USE DEF RcuEnterClock, RcuEnterStore, RcuExit, NestedSection, mapVars
<1>1. kMaxTime \in Nat
  BY DEF UnorderedInv, TypeInv, SetupType, kMaxTime
<1>2. TypeInv' /\ MapInv'
  <2>1. MapInv'
    BY MapFrame DEF UnorderedInv
  <2>2. threadTime' \in [Readers -> Nat]
    BY <1>1 DEF UnorderedInv, TypeInv, ReaderType
  <2>3. rd' \in [Readers -> ReaderType]
    <3>1. Idle \in ReaderType
      BY DEF Idle, EmptyMap, ReaderType, InnerMap
    <3>2. CASE RcuExit(r) \/ NestedSection(r)
      BY <3>1, <3>2 DEF UnorderedInv, TypeInv
    <3>3. ASSUME NEW pc \in {"enter", "in"}, NEW t \in Nat,
                 rd' = [rd EXCEPT ![r].pc = pc, ![r].time = t]
          PROVE  rd' \in [Readers -> ReaderType]
      <4>1. [rd[r] EXCEPT !.pc = pc, !.time = t] \in ReaderType
        <5>1. rd[r] \in ReaderType /\ pc \in {"out", "enter", "in", "find", "deref", "hold"}
          BY DEF UnorderedInv, TypeInv
        <5> QED
          BY <5>1 DEF ReaderType
      <4>2. rd' = [rd EXCEPT ![r] = [rd[r] EXCEPT !.pc = pc, !.time = t]]
        BY <3>3 DEF UnorderedInv, TypeInv
      <4> QED
        BY <4>1, <4>2 DEF UnorderedInv, TypeInv
    <3>4. CASE RcuEnterClock(r) \/ RcuEnterStore(r)
      BY <3>3, <3>4 DEF UnorderedInv, TypeInv
    <3> QED
      BY <3>2, <3>3, <3>4
  <2> QED
    BY <2>1, <2>2, <2>3 DEF UnorderedInv, TypeInv
<1>3. /\ \A q \in Readers \ {r} : rd'[q] = rd[q] /\ threadTime'[q] = threadTime[q]
      /\ rd'[r].pc \notin {"find", "deref"}
      /\ rd'[r].pc = "enter" => rd'[r].time <= now
      /\ InSection(r)' => threadTime'[r] <= now
  BY DEF UnorderedInv, TypeInv, ReaderType, Idle, ClockInv, InSection
<1>4. ~NestedSection(r) => rd'[r].src # "read"
  BY DEF UnorderedInv, TypeInv, ReaderType, Idle, HoldInv
<1>5. CASE ~NestedSection(r)
  BY <1>2, <1>3, <1>4, <1>5, ReaderFrame DEF UnorderedInv, ClockInv, CellsKept
<1>6. CASE NestedSection(r)
  <2>1. ClockInv' /\ SearchInv'
    BY <1>3, <1>6, KeepFrame DEF UnorderedInv, ClockInv, InSection, SearchInv, CellsKept
  <2>2. HoldInv'
    <3>1. \A q \in Readers : FromReadMap(q)' => q # r
      BY <1>6 DEF FromReadMap
    <3>2. \A q \in Readers \ {r} : \A v : Keeps(q, v) => Keeps(q, v)'
      BY <1>3, <1>6, KeepFrame DEF CellsKept
    <3>3. rd' = rd
      BY <1>6
    <3> QED
      BY <3>1, <3>2, <3>3 DEF UnorderedInv, HoldInv, FromReadMap
  <2> QED
    BY <1>2, <2>1, <2>2 DEF UnorderedInv
<1> QED
  BY <1>5, <1>6

LEMMA LoadReadMapInv ==
  ASSUME UnorderedInv, NEW r \in Readers, NEW k \in Keys, NEW op \in {"Get", "GetWithRcuTime"},
         LoadReadMap(r, k, op), UNCHANGED setup
  PROVE  UnorderedInv'
<1> USE DEF LoadReadMap, mapVars
<1>1. MapInv'
  BY MapFrame DEF UnorderedInv
<1>2. TypeInv'
  <2>1. [rd[r] EXCEPT !.pc = "find", !.op = op, !.key = k, !.gen = gen, !.map = readMap] \in ReaderType
    BY DEF UnorderedInv, TypeInv, ReaderType
  <2>2. rd' \in [Readers -> ReaderType]
    BY <2>1 DEF UnorderedInv, TypeInv
  <2> QED
    BY <2>2 DEF UnorderedInv, TypeInv
<1>3. /\ rd'[r].pc = "find" /\ rd'[r].key = k /\ rd'[r].gen = gen /\ rd'[r].map = readMap
      /\ rd'[r].src = rd[r].src /\ rd[r].pc = "in"
      /\ \A q \in Readers \ {r} : rd'[q] = rd[q]
  BY DEF UnorderedInv, TypeInv, ReaderType
<1>4. ClockInv'
  BY <1>3 DEF UnorderedInv, ClockInv, InSection
<1>5. SearchInv'
  BY <1>3, KeepFrame DEF UnorderedInv, SearchInv, CellsKept
<1>6. HoldInv'
  BY <1>3, KeepFrame DEF UnorderedInv, HoldInv, FromReadMap, CellsKept
<1> QED
  BY <1>1, <1>2, <1>4, <1>5, <1>6 DEF UnorderedInv

LEMMA LoadValueInv ==
  ASSUME UnorderedInv, NEW r \in Readers, LoadValue(r), UNCHANGED setup
  PROVE  UnorderedInv'
<1>1. PICK k \in Keys : k = rd[r].key
  BY DEF UnorderedInv, SearchInv, LoadValue
<1>2. PICK c \in Cells : c = rd[r].map[k] /\ c # NULL
  BY <1>1 DEF UnorderedInv, TypeInv, ReaderType, InnerMap, LoadValue
<1>3. PICK v \in Values \cup {NULL} : v = cellVal[c]
  BY DEF UnorderedInv, TypeInv
<1>4. /\ rd[r].pc = "find" /\ rd' = [rd EXCEPT ![r].pc = "deref", ![r].val = v]
      /\ UNCHANGED <<setup, now, cellVal, usedCells, gen, readMap, dirtyMap, dirtyFlag,
                     deletedValues, deletedMaps, lock, threadTime, gc>>
  BY <1>1, <1>2, <1>3 DEF LoadValue, mapVars
<1>5. rd[r] \in ReaderType
  BY DEF UnorderedInv, TypeInv
<1>6. /\ rd'[r] = [rd[r] EXCEPT !.pc = "deref", !.val = v]
      /\ \A q \in Readers \ {r} : rd'[q] = rd[q]
      /\ rd' = [rd EXCEPT ![r] = [rd[r] EXCEPT !.pc = "deref", !.val = v]]
  BY <1>4 DEF UnorderedInv, TypeInv
<1>7. /\ [rd[r] EXCEPT !.pc = "deref", !.val = v] \in ReaderType
      /\ rd'[r].pc = "deref" /\ rd'[r].val = v /\ rd'[r].src = rd[r].src
  <2>1. [rd[r] EXCEPT !.pc = "deref", !.val = v] \in ReaderType
    BY <1>5 DEF ReaderType
  <2>2. rd'[r].pc = "deref" /\ rd'[r].val = v /\ rd'[r].src = rd[r].src
    BY <1>5, <1>6 DEF ReaderType
  <2> QED
    BY <2>1, <2>2
<1>8. TypeInv' /\ MapInv'
  BY <1>4, <1>6, <1>7, MapFrame DEF UnorderedInv, TypeInv
<1>9. CellsKept
  BY <1>4 DEF CellsKept
<1>10. ClockInv' /\ SearchInv'
  BY <1>4, <1>6, <1>7, <1>9, KeepFrame DEF UnorderedInv, ClockInv, InSection, SearchInv
<1>11. Keeps(r, v)
  BY <1>1, <1>2, <1>3, <1>4 DEF UnorderedInv, SearchInv, HasMap, Keeps, CellHas
<1>12. HoldInv'
  <2>1. \A q \in Readers : \A w : Keeps(q, w) => Keeps(q, w)'
    BY <1>4, <1>9, KeepFrame
  <2>2. \A q \in Readers : rd'[q].src = "read" => rd'[q].pc = "hold"
    <3>1. \A q \in Readers : rd[q].src = "read" => rd[q].pc = "hold"
      BY DEF UnorderedInv, HoldInv
    <3>2. rd'[r].src # "read"
      BY <1>4, <1>7, <3>1
    <3>3. \A q \in Readers \ {r} : rd'[q].src = "read" => rd'[q].pc = "hold"
      BY <1>6, <3>1
    <3> QED
      BY <3>2, <3>3
  <2>3. Keeps(r, rd[r].val)'
    <3>1. Keeps(r, v)'
      BY <1>11, <2>1
    <3> QED
      BY <1>7, <3>1 DEF Keeps, CellHas, Outlives
  <2>4. \A q \in Readers \ {r} : FromReadMap(q)' /\ rd'[q].val # NULL => Keeps(q, rd[q].val)'
    BY <1>4, <1>6, <2>1 DEF UnorderedInv, HoldInv, FromReadMap
  <2> QED
    BY <2>2, <2>3, <2>4 DEF HoldInv
<1> QED
  BY <1>8, <1>10, <1>12 DEF UnorderedInv

LEMMA DerefValueInv ==
  ASSUME UnorderedInv, NEW r \in Readers, DerefValue(r), UNCHANGED setup
  PROVE  UnorderedInv'
<1>1. PICK v \in Values \cup {NULL} : v = rd[r].val
  BY DEF UnorderedInv, TypeInv, ReaderType
<1>2. /\ rd[r].pc = "deref" /\ rd' = [rd EXCEPT ![r] = Result(r, v, "read")]
      /\ UNCHANGED <<setup, now, cellVal, usedCells, gen, readMap, dirtyMap, dirtyFlag,
                     deletedValues, deletedMaps, lock, threadTime, gc>>
  BY <1>1 DEF DerefValue, mapVars
<1>3. /\ Result(r, v, "read") \in ReaderType /\ rd'[r].pc = "hold" /\ rd'[r].val \in {v, NULL}
      /\ \A q \in Readers \ {r} : rd'[q] = rd[q]
  BY <1>2, ResultType DEF UnorderedInv, TypeInv
<1>4. TypeInv' /\ MapInv'
  BY <1>2, <1>3, MapFrame DEF UnorderedInv, TypeInv
<1>5. CellsKept
  BY <1>2 DEF CellsKept
<1>6. ClockInv' /\ SearchInv'
  BY <1>2, <1>3, <1>5, KeepFrame DEF UnorderedInv, ClockInv, InSection, SearchInv
<1>7. HoldInv'
  <2>1. \A q \in Readers : \A w : Keeps(q, w) => Keeps(q, w)'
    BY <1>2, <1>5, KeepFrame
  <2> QED
    BY <1>1, <1>2, <1>3, <2>1 DEF UnorderedInv, HoldInv, FromReadMap
<1> QED
  BY <1>4, <1>6, <1>7 DEF UnorderedInv

(* Lookups that end without the read map. *)
LEMMA FoundInv ==
  ASSUME UnorderedInv, NEW r \in Readers, UNCHANGED setup,
         FindNowhere(r) \/ FindInDirtyMap(r) \/ \E k \in Keys : CreateOrGetFound(r, k)
  PROVE  UnorderedInv'
<1>1. /\ UNCHANGED <<setup, now, cellVal, usedCells, gen, readMap, dirtyMap, dirtyFlag,
                     deletedValues, deletedMaps, threadTime, gc>>
      /\ lock.pc = "free" /\ rd[r].pc \in {"in", "find"}
  BY DEF FindNowhere, FindInDirtyMap, CreateOrGetFound, mapVars
<1>2. PICK v \in Values \cup {NULL}, src \in {"none", "dirty"} :
        rd' = [rd EXCEPT ![r] = Result(r, v, src)]
  <2>1. CASE FindNowhere(r)
    BY <2>1 DEF FindNowhere
  <2>2. CASE FindInDirtyMap(r)
    <3>1. rd[r].key \in Keys
      BY <2>2 DEF FindInDirtyMap, UnorderedInv, SearchInv
    <3>2. cellVal[dirtyMap[rd[r].key]] \in Values \cup {NULL}
      BY <2>2, <3>1 DEF FindInDirtyMap, UnorderedInv, TypeInv, InnerMap
    <3> QED
      BY <2>2, <3>2 DEF FindInDirtyMap
  <2>3. ASSUME NEW k \in Keys, CreateOrGetFound(r, k)
        PROVE  \E w \in Values \cup {NULL} : rd' = [rd EXCEPT ![r] = Result(r, w, "dirty")]
    <3>1. cellVal[dirtyMap[k]] \in Values \cup {NULL}
      BY <2>3 DEF CreateOrGetFound, UnorderedInv, TypeInv, InnerMap
    <3> QED
      BY <2>3, <3>1 DEF CreateOrGetFound
  <2> QED
    BY <2>1, <2>2, <2>3
<1>3. /\ Result(r, v, src) \in ReaderType /\ rd'[r].pc = "hold" /\ rd'[r].src # "read"
      /\ \A q \in Readers \ {r} : rd'[q] = rd[q]
  BY <1>2, ResultType DEF UnorderedInv, TypeInv
<1>4. lock' = lock \/ (lock' = [Free EXCEPT !.pc = "publish", !.time = now])
        \/ lock' = Free
  BY DEF FindNowhere, FindInDirtyMap, CreateOrGetFound
<1>5. /\ lock' \in LockType /\ lock'.pc \in {"free", "publish"}
      /\ lock'.pc # "free" => lock'.time = now
  <2>1. Free \in LockType /\ Free.pc = "free"
    BY DEF LockType, Free
  <2>2. CASE lock' = [Free EXCEPT !.pc = "publish", !.time = now]
    BY <2>2 DEF LockType, Free, UnorderedInv, TypeInv
  <2>3. CASE lock' = lock
    BY <1>1, <2>3 DEF UnorderedInv, TypeInv
  <2> QED
    BY <1>4, <2>1, <2>2, <2>3
<1>6. now <= now + setup.stall
  BY DEF UnorderedInv, TypeInv, SetupType
<1>7. TypeInv' /\ MapInv'
  BY <1>1, <1>2, <1>3, <1>5 DEF UnorderedInv, TypeInv, MapInv
<1>8. /\ InSection(r)' => threadTime'[r] <= now
      /\ lock'.pc # "free" => lock'.time <= now /\ now <= lock'.time + setup.stall
  BY <1>1, <1>3, <1>5, <1>6 DEF UnorderedInv, TypeInv, ClockInv, InSection
<1>9. CellsKept
  BY <1>1 DEF CellsKept
<1>10. ClockInv' /\ SearchInv' /\ HoldInv'
  BY <1>1, <1>3, <1>8, <1>9, ReaderFrame
<1> QED
  BY <1>7, <1>10 DEF UnorderedInv

(* A new entry has a new cell, which no lock-free reader can reach. *)
LEMMA InsertInv ==
  ASSUME UnorderedInv, NEW k \in Keys, NEW v \in Values, Insert(k, v), UNCHANGED setup
  PROVE  MapInv' /\ CellsKept /\ cellVal' \in [Cells -> Values \cup {NULL}]
           /\ usedCells' \subseteq Cells /\ dirtyMap' \in InnerMap
           /\ UNCHANGED <<now, gen, readMap, deletedValues, deletedMaps, lock, threadTime, gc>>
<1>1. PICK c \in Cells \ usedCells :
        /\ usedCells' = usedCells \cup {c}
        /\ cellVal' = [cellVal EXCEPT ![c] = v]
        /\ dirtyMap' = [dirtyMap EXCEPT ![k] = c]
  BY DEF Insert
<1>2. /\ UNCHANGED <<now, gen, readMap, deletedValues, deletedMaps, lock, threadTime, gc>>
      /\ lock.pc = "free" /\ dirtyMap[k] = NULL /\ dirtyFlag' = TRUE
  BY DEF Insert
<1>3. /\ dirtyMap'[k] = c /\ \A l \in Keys \ {k} : dirtyMap'[l] = dirtyMap[l]
      /\ cellVal'[c] = v /\ \A d \in Cells \ {c} : cellVal'[d] = cellVal[d]
      /\ v # NULL /\ c # NULL
  BY <1>1, ConstantsAssumption DEF UnorderedInv, TypeInv, InnerMap
<1>4. CellsKept
  BY <1>1, <1>3 DEF CellsKept, UnorderedInv, MapInv, TypeInv
<1>5. MapInv'
  BY <1>1, <1>2, <1>3 DEF UnorderedInv, MapInv, TypeInv
<1> QED
  BY <1>1, <1>2, <1>4, <1>5 DEF UnorderedInv, TypeInv, InnerMap

LEMMA UpdateInsertInv ==
  ASSUME UnorderedInv, NEW k \in Keys, NEW v \in Values, UpdateInsert(k, v), UNCHANGED setup
  PROVE  UnorderedInv'
<1>1. MapInv' /\ CellsKept /\ cellVal' \in [Cells -> Values \cup {NULL}]
        /\ usedCells' \subseteq Cells /\ dirtyMap' \in InnerMap /\ UNCHANGED rd
        /\ UNCHANGED <<now, gen, readMap, deletedValues, deletedMaps, lock, threadTime, gc>>
  BY InsertInv DEF UpdateInsert
<1>2. TypeInv' /\ ClockInv'
  BY <1>1 DEF UnorderedInv, TypeInv, ClockInv, InSection
<1>3. SearchInv' /\ HoldInv'
  BY <1>1, KeepFrame DEF UnorderedInv, SearchInv, HoldInv, FromReadMap
<1> QED
  BY <1>1, <1>2, <1>3 DEF UnorderedInv

LEMMA CreateOrGetNewInv ==
  ASSUME UnorderedInv, NEW r \in Readers, NEW k \in Keys, NEW v \in Values,
         CreateOrGetNew(r, k, v), UNCHANGED setup
  PROVE  UnorderedInv'
<1>1. MapInv' /\ CellsKept /\ cellVal' \in [Cells -> Values \cup {NULL}]
        /\ usedCells' \subseteq Cells /\ dirtyMap' \in InnerMap
        /\ UNCHANGED <<now, gen, readMap, deletedValues, deletedMaps, lock, threadTime, gc>>
        /\ rd' = [rd EXCEPT ![r] = Result(r, v, "dirty")] /\ rd[r].pc = "in"
  BY InsertInv DEF CreateOrGetNew
<1>2. /\ Result(r, v, "dirty") \in ReaderType /\ rd'[r].pc = "hold" /\ rd'[r].src # "read"
      /\ \A q \in Readers \ {r} : rd'[q] = rd[q]
  BY <1>1, ResultType DEF UnorderedInv, TypeInv
<1>3. TypeInv'
  BY <1>1, <1>2 DEF UnorderedInv, TypeInv
<1>4. /\ InSection(r)' => threadTime'[r] <= now
      /\ lock'.pc # "free" => lock'.time <= now /\ now <= lock'.time + setup.stall
  BY <1>1, <1>2 DEF UnorderedInv, ClockInv, InSection
<1>5. ClockInv' /\ SearchInv' /\ HoldInv'
  BY <1>1, <1>2, <1>4, ReaderFrame
<1> QED
  BY <1>1, <1>3, <1>5 DEF UnorderedInv

(* Writers and the expiry task before they touch what readers see. *)
LEMMA StampInv ==
  ASSUME UnorderedInv, UNCHANGED setup,
         \/ \E k \in Keys, v \in Values : UpdateStamp(k, v)
         \/ CheckExpired
         \/ \E k \in Keys : Delete(k)
  PROVE  UnorderedInv'
<1>1. /\ UNCHANGED <<now, cellVal, usedCells, gen, readMap, dirtyFlag, deletedValues, deletedMaps,
                     threadTime, rd, gc>>
      /\ lock.pc = "free"
  BY DEF UpdateStamp, CheckExpired, Delete, mapVars
<1>2. now \in Nat /\ now <= now + setup.stall
  BY DEF UnorderedInv, TypeInv, SetupType
<1>3. /\ lock' \in LockType /\ dirtyMap' \in InnerMap
      /\ lock'.pc # "free" => lock'.time = now
      /\ MapInv'
  <2>1. ASSUME NEW k \in Keys, NEW v \in Values, UpdateStamp(k, v)
        PROVE  <1>3!:
    <3>1. /\ lock' = [pc |-> "update", key |-> k, val |-> v, time |-> now]
          /\ dirtyMap[k] # NULL /\ UNCHANGED dirtyMap
      BY <2>1 DEF UpdateStamp, mapVars
    <3>2. lock' \in LockType /\ lock'.pc = "update" /\ lock'.key = k /\ lock'.val = v /\ lock'.time = now
      BY <1>2, <3>1 DEF LockType
    <3>3. MapInv'
      BY <1>1, <3>1, <3>2 DEF UnorderedInv, MapInv
    <3> QED
      BY <3>1, <3>2, <3>3 DEF UnorderedInv, TypeInv
  <2>2. CASE UNCHANGED <<dirtyMap, lock>>
    BY <1>1, <2>2, MapFrame DEF UnorderedInv, TypeInv
  <2>3. ASSUME NEW k \in Keys, dirtyMap' = [dirtyMap EXCEPT ![k] = NULL],
               lock' = [Free EXCEPT !.pc = "publish", !.time = now]
        PROVE  <1>3!:
    <3>1. lock' \in LockType /\ lock'.pc = "publish" /\ lock'.time = now
      BY <1>2, <2>3 DEF Free, LockType
    <3>2. dirtyMap' \in InnerMap /\ dirtyMap'[k] = NULL /\ \A l \in Keys \ {k} : dirtyMap'[l] = dirtyMap[l]
      BY <2>3 DEF UnorderedInv, TypeInv, InnerMap
    <3>3. MapInv'
      BY <1>1, <3>1, <3>2 DEF UnorderedInv, MapInv
    <3> QED
      BY <3>1, <3>2, <3>3
  <2> QED
    BY <2>1, <2>2, <2>3 DEF CheckExpired, Delete, mapVars
<1>4. TypeInv' /\ ClockInv'
  BY <1>1, <1>2, <1>3 DEF UnorderedInv, TypeInv, ClockInv, InSection
<1>5. CellsKept
  BY <1>1 DEF CellsKept
<1>6. SearchInv' /\ HoldInv'
  BY <1>1, <1>5, KeepFrame DEF UnorderedInv, SearchInv, HoldInv, FromReadMap
<1> QED
  BY <1>3, <1>4, <1>6 DEF UnorderedInv

(* The old read map goes on the list with a stamp that is at most a stall  *)
(* old: who searches it, or has a pointer from it, entered before now.     *)
LEMMA PublishDirtyInv ==
  ASSUME UnorderedInv, PublishDirty, UNCHANGED setup
  PROVE  UnorderedInv'
<1> DEFINE m == [gen |-> gen, map |-> readMap, time |-> lock.time]
<1>1. /\ UNCHANGED <<now, cellVal, usedCells, dirtyMap, deletedValues, threadTime, rd, gc>>
      /\ lock.pc = "publish" /\ lock' = Free /\ gen' = gen + 1 /\ readMap' = dirtyMap
      /\ deletedMaps' = Append(deletedMaps, m)
  BY DEF PublishDirty
<1>2. PICK n \in Nat : n = Len(deletedMaps)
  BY DEF UnorderedInv, TypeInv
<1>3. m \in RetiredMap /\ m.gen = gen /\ m.map = readMap /\ m.time = lock.time
  BY DEF UnorderedInv, TypeInv, RetiredMap, LockType
<1>4. /\ Len(deletedMaps') = n + 1 /\ deletedMaps'[n + 1] = m
      /\ \A i \in 1 .. n : deletedMaps'[i] = deletedMaps[i]
      /\ deletedMaps' \in Seq(RetiredMap)
  BY <1>1, <1>2, <1>3 DEF UnorderedInv, TypeInv
<1> HIDE DEF m
<1>5. lock' \in LockType /\ lock'.pc = "free"
  BY <1>1 DEF Free, LockType
<1>6. TypeInv'
  BY <1>1, <1>4, <1>5 DEF UnorderedInv, TypeInv
<1>7. MapInv'
  <2>1. \A i \in 1 .. n + 1 : \A k \in Keys :
          deletedMaps'[i].map[k] # NULL => deletedMaps'[i].map[k] \in usedCells
    BY <1>2, <1>3, <1>4 DEF UnorderedInv, MapInv
  <2> QED
    BY <1>1, <1>4, <1>5, <2>1 DEF UnorderedInv, MapInv
<1>8. ClockInv'
  BY <1>1, <1>5 DEF UnorderedInv, ClockInv, InSection
<1>9. PICK t \in Nat : t = lock.time /\ \A q \in Readers : InSection(q) => Outlives(q, t)'
  BY <1>1 DEF UnorderedInv, TypeInv, ClockInv, Outlives, GcType, LockType, SetupType
<1>10. \A q \in Readers : \A u : Outlives(q, u)' = Outlives(q, u)
  BY <1>1 DEF Outlives
<1>11. SearchInv'
  <2> SUFFICES ASSUME NEW q \in Readers, rd[q].pc = "find"
               PROVE  /\ rd[q].key \in Keys
                      /\ \/ \E i \in 1 .. n + 1 : HasMap(q, i)'
                         \/ setup.grace < setup.stall
    BY <1>1, <1>4 DEF SearchInv
  <2>1. CASE rd[q].gen = gen /\ rd[q].map = readMap
    <3>1. HasMap(q, n + 1)'
      BY <1>1, <1>3, <1>4, <1>9, <2>1 DEF HasMap, InSection, Outlives
    <3> QED
      BY <3>1 DEF UnorderedInv, SearchInv
  <2>2. ASSUME NEW i \in 1 .. n, HasMap(q, i) PROVE HasMap(q, i)'
    BY <1>1, <1>4, <2>2 DEF HasMap, Outlives
  <2> QED
    BY <1>2, <2>1, <2>2 DEF UnorderedInv, SearchInv
<1>12. HoldInv'
  <2>1. \A q \in Readers : \A v : InSection(q) /\ Keeps(q, v) => Keeps(q, v)'
    <3> SUFFICES ASSUME NEW q \in Readers, NEW v, InSection(q), Keeps(q, v) PROVE Keeps(q, v)'
      OBVIOUS
    <3>1. CASE CellHas(readMap, v)
      <4>1. CellHas(deletedMaps[n + 1].map, v)' /\ Outlives(q, deletedMaps[n + 1].time)'
        BY <1>1, <1>3, <1>4, <1>9, <3>1 DEF CellHas, Outlives
      <4> QED
        BY <1>4, <4>1 DEF Keeps
    <3>2. ASSUME NEW i \in 1 .. n, CellHas(deletedMaps[i].map, v), Outlives(q, deletedMaps[i].time)
          PROVE  Keeps(q, v)'
      <4>1. CellHas(deletedMaps[i].map, v)' /\ Outlives(q, deletedMaps[i].time)'
        BY <1>1, <1>4, <3>2 DEF CellHas, Outlives
      <4> QED
        BY <1>4, <4>1 DEF Keeps
    <3>3. CASE \E d \in deletedValues : d.val = v /\ Outlives(q, d.time)
      BY <1>1, <3>3 DEF Keeps, Outlives
    <3> QED
      BY <1>2, <3>1, <3>2, <3>3 DEF Keeps
  <2>2. \A q \in Readers : FromReadMap(q) => InSection(q)
    BY DEF FromReadMap, InSection
  <2> QED
    BY <1>1, <2>1, <2>2 DEF UnorderedInv, HoldInv, FromReadMap
<1> QED
  BY <1>6, <1>7, <1>8, <1>11, <1>12 DEF UnorderedInv

(* The replaced value goes on the list in the same way. *)
LEMMA UpdateStoreInv ==
  ASSUME UnorderedInv, UpdateStore, UNCHANGED setup
  PROVE  UnorderedInv'
<1>1. /\ UNCHANGED <<now, usedCells, gen, readMap, dirtyMap, dirtyFlag, deletedMaps, threadTime, rd,
                     gc>>
      /\ lock.pc = "update" /\ lock' = Free
  BY DEF UpdateStore, mapVars
<1>2. PICK k \in Keys : k = lock.key /\ dirtyMap[k] # NULL
  BY <1>1 DEF UnorderedInv, MapInv
<1>3. PICK c \in Cells : c = dirtyMap[k]
  BY <1>2 DEF UnorderedInv, TypeInv, InnerMap
<1>4. PICK new \in Values : new = lock.val
  BY <1>1 DEF UnorderedInv, MapInv
<1>5. PICK old \in Values \cup {NULL}, t \in Nat : old = cellVal[c] /\ t = lock.time
  BY DEF UnorderedInv, TypeInv, LockType
<1>6. /\ deletedValues' = deletedValues \cup {[val |-> old, time |-> t]}
      /\ cellVal' = [cellVal EXCEPT ![c] = new]
  BY <1>1, <1>2, <1>3, <1>4, <1>5 DEF UpdateStore
<1>7. /\ cellVal'[c] = new /\ \A d \in Cells \ {c} : cellVal'[d] = cellVal[d]
      /\ new # NULL
  BY <1>6, ConstantsAssumption DEF UnorderedInv, TypeInv
<1>8. lock' \in LockType /\ lock'.pc = "free"
  BY <1>1 DEF Free, LockType
<1>9. TypeInv'
  BY <1>1, <1>6, <1>8 DEF UnorderedInv, TypeInv, RetiredValue
<1>10. MapInv'
  BY <1>1, <1>7, <1>8 DEF UnorderedInv, MapInv, TypeInv, InnerMap
<1>11. ClockInv'
  BY <1>1, <1>8 DEF UnorderedInv, ClockInv, InSection
<1>12. \A q \in Readers : \A u : Outlives(q, u)' = Outlives(q, u)
  BY <1>1 DEF Outlives
<1>13. SearchInv'
  BY <1>1, <1>12 DEF UnorderedInv, SearchInv, HasMap, Outlives
<1>14. \A q \in Readers : InSection(q) => Outlives(q, t)
  BY <1>1, <1>5 DEF UnorderedInv, TypeInv, ClockInv, Outlives, GcType, LockType, SetupType
<1>15. HoldInv'
  <2>1. \A q \in Readers : InSection(q) => Keeps(q, old)'
    <3> SUFFICES ASSUME NEW q \in Readers, InSection(q) PROVE Keeps(q, old)'
      OBVIOUS
    <3>1. [val |-> old, time |-> t] \in deletedValues' /\ [val |-> old, time |-> t].val = old
            /\ [val |-> old, time |-> t].time = t
      BY <1>6
    <3>2. \E d \in deletedValues' : d.val = old /\ d.time = t
      BY <3>1
    <3>3. Outlives(q, t)'
      BY <1>12, <1>14
    <3> QED
      BY <3>2, <3>3 DEF Keeps
  <2>2. \A m \in InnerMap : \A v : CellHas(m, v) => v = old \/ CellHas(m, v)'
    BY <1>5, <1>7 DEF CellHas, InnerMap
  <2>3. ASSUME NEW q \in Readers, NEW v, v # old, Keeps(q, v) PROVE Keeps(q, v)'
    <3>1. CASE CellHas(readMap, v)
      <4>1. CellHas(readMap, v)'
        BY <1>1, <1>5, <1>7, <2>3, <3>1 DEF CellHas, UnorderedInv, TypeInv, InnerMap
      <4> QED
        BY <4>1 DEF Keeps
    <3>2. ASSUME NEW i \in 1 .. Len(deletedMaps), CellHas(deletedMaps[i].map, v),
                 Outlives(q, deletedMaps[i].time)
          PROVE  Keeps(q, v)'
      <4>1. deletedMaps[i].map \in InnerMap
        BY RetiredTypes DEF UnorderedInv
      <4>2. CellHas(deletedMaps[i].map, v)' /\ Outlives(q, deletedMaps[i].time)'
        BY <1>1, <1>5, <1>7, <2>3, <3>2, <4>1 DEF CellHas, InnerMap, Outlives
      <4> QED
        BY <1>1, <4>2 DEF Keeps
    <3>3. CASE \E d \in deletedValues : d.val = v /\ Outlives(q, d.time)
      BY <1>1, <1>6, <3>3 DEF Keeps, Outlives
    <3> QED
      BY <2>3, <3>1, <3>2, <3>3 DEF Keeps
  <2>4. \A q \in Readers : FromReadMap(q) => InSection(q)
    BY DEF FromReadMap, InSection
  <2>5. \A q \in Readers : FromReadMap(q) /\ rd[q].val # NULL => Keeps(q, rd[q].val)'
    <3> SUFFICES ASSUME NEW q \in Readers, FromReadMap(q), rd[q].val # NULL
                 PROVE  Keeps(q, rd[q].val)'
      OBVIOUS
    <3>1. PICK v : v = rd[q].val /\ Keeps(q, v)
      BY DEF UnorderedInv, HoldInv
    <3>2. Keeps(q, v)'
      BY <2>1, <2>3, <2>4, <3>1
    <3> QED
      BY <1>1, <3>1, <3>2 DEF Keeps, CellHas, Outlives
  <2> QED
    BY <1>1, <2>5 DEF UnorderedInv, HoldInv, FromReadMap
<1> QED
  BY <1>9, <1>10, <1>11, <1>13, <1>15 DEF UnorderedInv

(* The collector takes the sections it scans into account ... *)
LEMMA MinTimeInv ==
  ASSUME UnorderedInv, UNCHANGED setup, MinTimeClock \/ \E r \in Readers : MinTimeScan(r)
  PROVE  UnorderedInv'
<1>1. UNCHANGED <<now, cellVal, usedCells, gen, readMap, dirtyMap, dirtyFlag, deletedValues,
                  deletedMaps, lock, threadTime, rd>>
  BY DEF MinTimeClock, MinTimeScan, mapVars
<1>2. /\ gc' \in GcType /\ gc'.pc = "scan" /\ gc'.min <= now
      /\ \A q \in Readers : \A t \in Nat : Outlives(q, t) => Outlives(q, t)'
  <2>1. now \in Nat /\ setup.stall \in Nat /\ gc \in GcType /\ threadTime \in [Readers -> Nat]
    BY DEF UnorderedInv, TypeInv, SetupType
  <2>2. CASE MinTimeClock
    BY <1>1, <2>1, <2>2 DEF MinTimeClock, GcType, Outlives
  <2>3. ASSUME NEW r \in Readers, MinTimeScan(r)
        PROVE  <1>2!:
    <3>1. /\ gc'.pc = "scan" /\ gc'.todo = gc.todo \ {r} /\ gc.pc = "scan"
          /\ gc'.min = IF threadTime[r] < gc.min THEN threadTime[r] ELSE gc.min
          /\ gc' \in GcType
      BY <2>1, <2>3 DEF MinTimeScan, GcType
    <3>2. gc.min <= now /\ gc.min \in Nat
      BY <2>1, <3>1 DEF UnorderedInv, ClockInv, GcType
    <3> QED
      BY <1>1, <2>1, <3>1, <3>2 DEF Outlives
  <2> QED
    BY <2>2, <2>3
<1>3. TypeInv' /\ MapInv' /\ ClockInv'
  BY <1>1, <1>2, MapFrame DEF UnorderedInv, TypeInv, ClockInv, InSection
<1>4. \A q \in Readers : \A i \in 1 .. Len(deletedMaps) :
        Outlives(q, deletedMaps[i].time) => Outlives(q, deletedMaps[i].time)'
  BY <1>1, <1>2, RetiredTypes DEF UnorderedInv
<1>5. SearchInv'
  BY <1>1, <1>4 DEF UnorderedInv, SearchInv, HasMap
<1>6. \A q \in Readers : \A d \in deletedValues : Outlives(q, d.time) => Outlives(q, d.time)'
  BY <1>1, <1>2, RetiredTypes DEF UnorderedInv
<1>7. \A q \in Readers : \A v : Keeps(q, v) => Keeps(q, v)'
  BY <1>1, <1>4, <1>6 DEF Keeps, CellHas
<1>8. HoldInv'
  BY <1>1, <1>7 DEF UnorderedInv, HoldInv, FromReadMap
<1> QED
  BY <1>3, <1>5, <1>8 DEF UnorderedInv

(* ... and a grace period of one stall makes up for the age of the stamps. *)
LEMMA CheckGcValuesInv ==
  ASSUME UnorderedInv, CheckGcValues, UNCHANGED setup
  PROVE  UnorderedInv'
<1>1. /\ UNCHANGED <<now, cellVal, usedCells, gen, readMap, dirtyMap, dirtyFlag, deletedMaps, lock,
                     threadTime, rd>>
      /\ gc.pc = "scan" /\ gc.todo = {}
      /\ deletedValues' = {d \in deletedValues : d.time >= MinGcTime}
  BY DEF CheckGcValues, mapVars
<1>2. gc' \in GcType /\ gc'.pc = "maps" /\ gc'.min = gc.min /\ gc'.todo = gc.todo
  BY DEF CheckGcValues, UnorderedInv, TypeInv, GcType
<1>3. TypeInv' /\ MapInv' /\ ClockInv'
  BY <1>1, <1>2, MapFrame DEF UnorderedInv, TypeInv, ClockInv, InSection
<1>4. \A q \in Readers : \A t : Outlives(q, t) => Outlives(q, t)'
  BY <1>1, <1>2 DEF Outlives
<1>5. SearchInv'
  BY <1>1, <1>2 DEF UnorderedInv, SearchInv, HasMap, Outlives
<1>6. \A q \in Readers : \A d \in deletedValues :
        Outlives(q, d.time) => d \in deletedValues' \/ setup.grace < setup.stall
  BY <1>1, RetiredTypes DEF UnorderedInv, TypeInv, SetupType, GcType, Outlives, MinGcTime, Grace
<1>7. \A q \in Readers : \A v : Keeps(q, v) => Keeps(q, v)'
  BY <1>1, <1>2, <1>6 DEF Keeps, CellHas, Outlives
<1>8. HoldInv'
  BY <1>1, <1>7 DEF UnorderedInv, HoldInv, FromReadMap
<1> QED
  BY <1>3, <1>5, <1>8 DEF UnorderedInv

LEMMA CheckGcMapsInv ==
  ASSUME UnorderedInv, CheckGcMaps, UNCHANGED setup
  PROVE  UnorderedInv'
<1>1. /\ UNCHANGED <<now, cellVal, usedCells, gen, readMap, dirtyMap, dirtyFlag, deletedValues,
                     lock, threadTime, rd>>
      /\ gc.pc = "maps" /\ gc.todo = {} /\ gc' = GcIdle
  BY DEF CheckGcMaps, mapVars, UnorderedInv, ClockInv
<1>2. PICK n \in 0 .. Len(deletedMaps) :
        /\ \A i \in 1 .. n : deletedMaps[i].time < MinGcTime
        /\ deletedMaps' = SubSeq(deletedMaps, n + 1, Len(deletedMaps))
  BY DEF CheckGcMaps
<1>3. PICK len \in Nat : len = Len(deletedMaps) /\ n \in 0 .. len
  BY DEF UnorderedInv, TypeInv
<1>4. /\ deletedMaps' \in Seq(RetiredMap) /\ Len(deletedMaps') = len - n
      /\ \A i \in 1 .. len - n : n + i \in 1 .. len /\ deletedMaps'[i] = deletedMaps[n + i]
  <2>1. deletedMaps \in Seq(RetiredMap) /\ \A i \in n + 1 .. len : deletedMaps[i] \in RetiredMap
    BY <1>3 DEF UnorderedInv, TypeInv
  <2>2. /\ deletedMaps' \in Seq(RetiredMap)
        /\ Len(deletedMaps') = IF n + 1 <= len THEN len - (n + 1) + 1 ELSE 0
        /\ \A i \in 1 .. len - (n + 1) + 1 : deletedMaps'[i] = deletedMaps[n + 1 + i - 1]
    BY <1>2, <1>3, <2>1, SubSeqProperties
  <2> QED
    BY <1>3, <2>2
<1>5. gc' \in GcType /\ gc'.pc = "idle"
  BY <1>1 DEF GcIdle, GcType
<1>6. TypeInv' /\ ClockInv'
  BY <1>1, <1>4, <1>5 DEF UnorderedInv, TypeInv, ClockInv, InSection
<1>7. MapInv'
  BY <1>1, <1>3, <1>4 DEF UnorderedInv, MapInv
<1>8. ASSUME NEW q \in Readers, NEW i \in 1 .. len, Outlives(q, deletedMaps[i].time),
             ~(setup.grace < setup.stall)
      PROVE  \E j \in 1 .. len - n : deletedMaps'[j] = deletedMaps[i]
  <2>1. deletedMaps[i].time \in Nat /\ gc.min <= deletedMaps[i].time + setup.stall
    BY <1>1, <1>3, <1>8, RetiredTypes DEF UnorderedInv, Outlives
  <2>2. ~(deletedMaps[i].time < MinGcTime)
    BY <1>8, <2>1 DEF UnorderedInv, TypeInv, SetupType, GcType, MinGcTime, Grace
  <2>3. i > n
    BY <1>2, <1>3, <2>2
  <2>4. i - n \in 1 .. len - n /\ n + (i - n) = i
    BY <1>3, <2>3
  <2> QED
    BY <1>4, <2>4
<1>9. \A q \in Readers : \A t : Outlives(q, t) => Outlives(q, t)'
  BY <1>1, <1>5 DEF Outlives
<1>10. SearchInv'
  <2> SUFFICES ASSUME NEW q \in Readers, rd[q].pc = "find"
               PROVE  /\ rd[q].key \in Keys
                      /\ \/ rd[q].gen = gen /\ rd[q].map = readMap
                         \/ \E j \in 1 .. len - n : HasMap(q, j)'
                         \/ setup.grace < setup.stall
    BY <1>1, <1>4 DEF SearchInv
  <2>1. ASSUME NEW i \in 1 .. len, HasMap(q, i), ~(setup.grace < setup.stall)
        PROVE  \E j \in 1 .. len - n : HasMap(q, j)'
    <3>1. PICK j \in 1 .. len - n : deletedMaps'[j] = deletedMaps[i]
      BY <1>8, <2>1 DEF HasMap
    <3>2. HasMap(q, j)'
      BY <1>1, <1>5, <2>1, <3>1 DEF HasMap, Outlives
    <3> QED
      BY <3>2
  <2> QED
    BY <1>3, <2>1 DEF UnorderedInv, SearchInv
<1>11. \A q \in Readers : \A v : Keeps(q, v) => Keeps(q, v)'
  <2> SUFFICES ASSUME NEW q \in Readers, NEW v, Keeps(q, v) PROVE Keeps(q, v)'
    OBVIOUS
  <2>1. ASSUME NEW i \in 1 .. len, CellHas(deletedMaps[i].map, v), Outlives(q, deletedMaps[i].time),
               ~(setup.grace < setup.stall)
        PROVE  Keeps(q, v)'
    <3>1. PICK j \in 1 .. len - n : deletedMaps'[j] = deletedMaps[i]
      BY <1>8, <2>1
    <3>2. CellHas(deletedMaps[j].map, v)' /\ Outlives(q, deletedMaps[j].time)'
      BY <1>1, <1>5, <2>1, <3>1 DEF CellHas, Outlives
    <3> QED
      BY <1>4, <3>2 DEF Keeps
  <2>2. CASE CellHas(readMap, v) \/ \E d \in deletedValues : d.val = v /\ Outlives(q, d.time)
    BY <1>1, <1>5, <2>2 DEF Keeps, CellHas, Outlives
  <2> QED
    BY <1>3, <2>1, <2>2 DEF Keeps
<1>12. HoldInv'
  BY <1>1, <1>11 DEF UnorderedInv, HoldInv, FromReadMap
<1> QED
  BY <1>6, <1>7, <1>10, <1>12 DEF UnorderedInv

-----------------------------------------------------------------------------
LEMMA NextInv ==
  ASSUME UnorderedInv, [Next]_vars
  PROVE  UnorderedInv'
<1>1. setup.keys \subseteq Keys
  BY DEF UnorderedInv, TypeInv, SetupType
<1>2. CASE UNCHANGED vars
  <2>1. UNCHANGED <<setup, now, cellVal, usedCells, gen, readMap, dirtyMap, dirtyFlag,
                    deletedValues, deletedMaps, lock, threadTime, rd, gc>>
    BY <1>2 DEF vars, mapVars
  <2>2. TypeInv' /\ MapInv' /\ ClockInv'
    BY <2>1, MapFrame DEF UnorderedInv, TypeInv, ClockInv, InSection
  <2>3. CellsKept
    BY <2>1 DEF CellsKept
  <2>4. SearchInv' /\ HoldInv'
    BY <2>1, <2>3, KeepFrame DEF UnorderedInv, SearchInv, HoldInv, FromReadMap
  <2> QED
    BY <2>2, <2>4 DEF UnorderedInv
<1>3. CASE Next
  <2>1. Step /\ UNCHANGED setup
    BY <1>3 DEF Next
  <2>2. ASSUME NEW r \in Readers,
               \/ RcuEnterClock(r) \/ RcuEnterStore(r) \/ RcuExit(r) \/ NestedSection(r)
               \/ \E k \in setup.keys, op \in {"Get", "GetWithRcuTime"} : LoadReadMap(r, k, op)
               \/ LoadValue(r) \/ DerefValue(r) \/ FindNowhere(r) \/ FindInDirtyMap(r)
               \/ \E k \in setup.keys, v \in Values : CreateOrGetNew(r, k, v)
               \/ \E k \in setup.keys : CreateOrGetFound(r, k)
               \/ MinTimeScan(r)
        PROVE  UnorderedInv'
    BY <1>1, <2>1, <2>2, SectionInv, LoadReadMapInv, LoadValueInv, DerefValueInv, FoundInv,
       CreateOrGetNewInv, MinTimeInv
  <2>3. ASSUME \/ PublishDirty
               \/ \E k \in setup.keys, v \in Values : UpdateInsert(k, v) \/ UpdateStamp(k, v)
               \/ UpdateStore \/ CheckExpired \/ \E k \in setup.keys : Delete(k)
        PROVE  UnorderedInv'
    BY <1>1, <2>1, <2>3, PublishDirtyInv, UpdateInsertInv, UpdateStoreInv, StampInv
  <2>4. ASSUME Tick \/ MinTimeClock \/ CheckGcValues \/ CheckGcMaps
        PROVE  UnorderedInv'
    BY <1>1, <2>1, <2>4, TickInv, MinTimeInv, CheckGcValuesInv, CheckGcMapsInv
  <2> QED
    BY <2>1, <2>2, <2>3, <2>4 DEF Step
<1> QED
  BY <1>2, <1>3

LEMMA UnorderedInvHolds == Spec => []UnorderedInv
<1>1. UnorderedInv /\ [Next]_vars => UnorderedInv'
  BY NextInv
<1> QED
  BY <1>1, InitInv, PTL DEF Spec

(* The stamps of a lock holder are no older than the collector's grace     *)
(* period in any configuration.                                            *)
StallsCovered == \A s \in Setups : s.stall <= s.grace

(* LookupsSafe for every instance whose grace period covers the stall of a *)
(* lock holder: a lock-free lookup searches a map and dereferences a       *)
(* shared_ptr that are still allocated, and the pointer GetWithRcuTime     *)
(* took from the read map is valid until its section ends.                 *)
THEOREM LookupsAreSafe ==
  ASSUME StallsCovered
  PROVE  Spec => []LookupsSafe
<1>1. UnorderedInv => LookupsSafe
  <2> SUFFICES ASSUME UnorderedInv PROVE LookupsSafe
    OBVIOUS
  <2>0. ~(setup.grace < setup.stall)
    BY DEF StallsCovered, UnorderedInv, TypeInv, SetupType
  <2>1. \A m : m \in LiveMaps <=>
          m = readMap \/ m = dirtyMap \/ \E i \in 1 .. Len(deletedMaps) : deletedMaps[i].map = m
    BY DEF LiveMaps
  <2>2. \A m \in LiveMaps : \A v : CellHas(m, v) => v \in HeldValues
    BY DEF CellHas, HeldValues, LiveCells, CellsOf, KeysOf
  <2>3. \A r \in Readers : \A v : Keeps(r, v) => v \in HeldValues
    BY <2>0, <2>1, <2>2 DEF Keeps, HeldValues
  <2>4. LookupMemoryLive
    BY <2>0, <2>3 DEF LookupMemoryLive, UnorderedInv, SearchInv, HasMap, HoldInv, FromReadMap
  <2>5. ReadMapValueProtected
    BY <2>3 DEF ReadMapValueProtected, UnorderedInv, HoldInv, FromReadMap, LiveValues
  <2> QED
    BY <2>4, <2>5 DEF LookupsSafe
<1> QED
  BY <1>1, UnorderedInvHolds, PTL

(* MapsAgree for every instance: while dirty_lock_ is free each entry of   *)
(* the read map is the same entry of the dirty map, and with the flag down *)
(* the dirty map has no other, so that the early return of a lookup misses *)
(* no key.                                                                 *)
THEOREM MapsAlwaysAgree == Spec => []MapsAgree
<1>1. UnorderedInv => MapsAgree
  BY DEF UnorderedInv, MapInv, MapsAgree, KeysOf, CellsOf
<1> QED
  BY <1>1, UnorderedInvHolds, PTL
=============================================================================
