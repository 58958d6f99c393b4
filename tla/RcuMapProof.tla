---------------------------- MODULE RcuMapProof -----------------------------
(***************************************************************************)
(* Proofs about RcuMap: types, the agreement of the read and the dirty map *)
(* that the header comment of rcu_map.h promises, its memory, and that its *)
(* lookups are linearizable, for any number of keys, values, cells and     *)
(* readers, any interleaving and any number of swaps during one lookup.    *)
(***************************************************************************)
EXTENDS RcuMapLookup, SequenceTheorems, FiniteSetTheorems, TLAPS

(* Agreement of the two maps at one key. *)
AgreeAt(k) ==
  /\ readMap[k] # NULL => (dirtyMap[k] # NULL <=> cellVal[readMap[k]] # NULL)
  /\ readMap[k] # NULL /\ dirtyMap[k] # NULL => readMap[k] = dirtyMap[k]
  /\ dirtyMap[k] # NULL => cellVal[dirtyMap[k]] # NULL
  /\ k \in deletedKeys <=> (readMap[k] # NULL /\ dirtyMap[k] = NULL)

(* No cell serves two keys: storing value_ of one key cannot disturb       *)
(* another one.                                                            *)
CellsApart ==
  \A k, l \in Keys :
    /\ readMap[k] # NULL => readMap[k] \in usedCells
    /\ dirtyMap[k] # NULL => dirtyMap[k] \in usedCells
    /\ k # l /\ readMap[k] # NULL => readMap[k] # readMap[l]
    /\ k # l /\ dirtyMap[k] # NULL => dirtyMap[k] # dirtyMap[l]
    /\ k # l /\ readMap[k] # NULL => readMap[k] # dirtyMap[l]

InDelete == lockPc \in {"del_push", "del_unlink"}

(* What the holder of dirty_lock_ has done so far. *)
LockInv ==
  /\ lockPc = "upd_retire" => lockVal \in Values
  /\ InDelete =>
       /\ lockKey \in Keys /\ lockVal \in Cells
       /\ lockVal \in usedCells
       /\ dirtyMap[lockKey] = NULL
       /\ readMap[lockKey] # NULL => readMap[lockKey] = lockVal
       /\ lockKey \notin deletedKeys
       /\ cellVal[lockVal] # NULL
       /\ \A k \in Keys : dirtyMap[k] # lockVal
       /\ \A k \in Keys : k # lockKey => readMap[k] # lockVal

(* A reader past the search of its map has a cell, Get a value to retain. *)
ReaderInv ==
  \A r \in Readers :
    /\ rdPc[r] \in {"find", "touch", "load"} => rdKey[r] \in Keys
    /\ rdPc[r] \in {"touch", "load"} => RdCell(r) \in Cells
    /\ rdPc[r] = "ref" => rdVal[r] \in Values

(* The deleted_keys_ of a retired map are keys of that map. *)
RetiredInv ==
  \A i \in 1 .. Len(deletedMaps) : \A k \in deletedMaps[i].dels :
    deletedMaps[i].map[k] # NULL

MapsPart ==
  /\ CellsApart
  /\ LockInv
  /\ \A k \in Keys : (InDelete /\ k = lockKey) \/ AgreeAt(k)

(* The inductive invariant. *)
MapsInv == TypeOK /\ MapsPart /\ ReaderInv /\ RetiredInv

-----------------------------------------------------------------------------
LEMMA InitMapsInv == Init => MapsInv
<1> SUFFICES ASSUME Init PROVE MapsInv
  OBVIOUS
<1> USE ConstantsAssumption DEF Init, EmptyMap
<1>1. TypeOK
  BY DEF TypeOK, CellTypes, MapTypes, ListTypes, LockTypes, ReaderTypes,
     CollectorTypes, InnerMap, kMaxTime, RetiredValue, RetiredMap
<1>2. MapsPart
  BY DEF MapsPart, CellsApart, LockInv, InDelete, AgreeAt
<1>3. ReaderInv /\ RetiredInv
  BY DEF ReaderInv, RetiredInv
<1> QED
  BY <1>1, <1>2, <1>3 DEF MapsInv

(* What a step leaves alone keeps its part of the invariant. *)
LEMMA CellFrame ==
  ASSUME CellTypes, UNCHANGED <<now, cellVars, valVars>>
  PROVE  CellTypes'
BY DEF CellTypes, cellVars, valVars

LEMMA MapFrame ==
  ASSUME MapTypes, UNCHANGED mapVars
  PROVE  MapTypes'
BY DEF MapTypes, mapVars

LEMMA ListFrame ==
  ASSUME ListTypes, UNCHANGED listVars
  PROVE  ListTypes'
BY DEF ListTypes, listVars

LEMMA LockFrame ==
  ASSUME LockTypes, UNCHANGED lockVars
  PROVE  LockTypes'
BY DEF LockTypes, lockVars

LEMMA ReaderFrame ==
  ASSUME ReaderTypes, ReaderInv, UNCHANGED <<threadTime, rdVars>>
  PROVE  ReaderTypes' /\ ReaderInv'
BY DEF ReaderTypes, ReaderInv, RdCell, rdVars

LEMMA CollectorFrame ==
  ASSUME CollectorTypes, UNCHANGED gcVars
  PROVE  CollectorTypes'
BY DEF CollectorTypes, gcVars

LEMMA RetiredFrame ==
  ASSUME RetiredInv, UNCHANGED deletedMaps
  PROVE  RetiredInv'
BY DEF RetiredInv

(* In particular, the agreement of the two maps depends on nothing but the *)
(* maps, the values in their cells and the lock.                           *)
LEMMA MapsPartFrame ==
  ASSUME MapsPart, UNCHANGED <<cellVal, usedCells, readMap, dirtyMap,
                               deletedKeys, lockVars>>
  PROVE  MapsPart'
BY DEF MapsPart, CellsApart, LockInv, InDelete, AgreeAt, lockVars

(* Sections: the clock readings and stores of a reader. *)
LEMMA SectionStep ==
  ASSUME MapsInv, NEW r \in Readers,
         RcuEnterClock(r) \/ RcuEnterStore(r) \/ RcuExit(r)
  PROVE  MapsInv'
<1>1. CellTypes' /\ MapTypes' /\ ListTypes' /\ LockTypes' /\ CollectorTypes'
  BY CellFrame, MapFrame, ListFrame, LockFrame, CollectorFrame
     DEF MapsInv, TypeOK, RcuEnterClock, RcuEnterStore, RcuExit
<1>2. ReaderTypes'
  BY ConstantsAssumption DEF MapsInv, TypeOK, CellTypes, ReaderTypes,
     RcuEnterClock, RcuEnterStore, RcuExit, kMaxTime
<1>3. MapsPart'
  BY MapsPartFrame
     DEF MapsInv, RcuEnterClock, RcuEnterStore, RcuExit, cellVars, mapVars
<1>4. ReaderInv' /\ RetiredInv'
  BY RetiredFrame DEF MapsInv, TypeOK, ReaderTypes, ReaderInv, RdCell,
     RcuEnterClock, RcuEnterStore, RcuExit, listVars
<1> QED
  BY <1>1, <1>2, <1>3, <1>4 DEF MapsInv, TypeOK

(* The clock. *)
LEMMA TickStep ==
  ASSUME MapsInv, Tick
  PROVE  MapsInv'
<1>1. MapTypes' /\ ListTypes' /\ LockTypes' /\ CollectorTypes'
  BY MapFrame, ListFrame, LockFrame, CollectorFrame DEF MapsInv, TypeOK, Tick
<1>2. CellTypes'
  BY ConstantsAssumption
     DEF MapsInv, TypeOK, CellTypes, Tick, cellVars, valVars
<1>3. MapsPart'
  BY MapsPartFrame DEF MapsInv, Tick, cellVars, mapVars
<1>4. ReaderTypes' /\ ReaderInv' /\ RetiredInv'
  BY ReaderFrame, RetiredFrame DEF MapsInv, TypeOK, Tick, listVars
<1> QED
  BY <1>1, <1>2, <1>3, <1>4 DEF MapsInv, TypeOK

(* The lock-free part of a lookup and the reference counts it leads to:    *)
(* the maps and the values of their cells are only read.                   *)
LEMMA LockFreeLookupStep ==
  ASSUME MapsInv, NEW r \in Readers,
         \/ \E k \in Keys, op \in {"Get", "GetWithRcuTime"} :
              LoadReadMap(r, k, op)
         \/ FindInReadMap(r)
         \/ FindNowhere(r)
  PROVE  MapsInv'
<1>1. CellTypes' /\ MapTypes' /\ ListTypes' /\ LockTypes' /\ CollectorTypes'
  BY CellFrame, MapFrame, ListFrame, LockFrame, CollectorFrame
     DEF MapsInv, TypeOK, LoadReadMap, FindInReadMap, FindNowhere
<1>2. ReaderTypes'
  <2>1. ASSUME NEW k \in Keys, NEW op \in {"Get", "GetWithRcuTime"},
               LoadReadMap(r, k, op)
        PROVE  ReaderTypes'
    BY <2>1 DEF MapsInv, TypeOK, MapTypes, ReaderTypes, LoadReadMap
  <2>2. CASE FindInReadMap(r)
    BY <2>2 DEF MapsInv, TypeOK, CellTypes, ReaderTypes, FindInReadMap
  <2>3. CASE FindNowhere(r)
    BY <2>3 DEF MapsInv, TypeOK, ReaderTypes, FindNowhere, EndLookup,
       EmptyMap, InnerMap
  <2> QED
    BY <2>1, <2>2, <2>3
<1>3. MapsPart'
  BY MapsPartFrame
     DEF MapsInv, LoadReadMap, FindInReadMap, FindNowhere, cellVars, mapVars
<1>4. ReaderInv' /\ RetiredInv'
  BY RetiredFrame DEF MapsInv, TypeOK, ReaderTypes, ReaderInv, RdCell,
     LoadReadMap, FindInReadMap, FindNowhere, EndLookup, InnerMap, listVars
<1> QED
  BY <1>1, <1>2, <1>3, <1>4 DEF MapsInv, TypeOK

LEMMA TouchCellStep ==
  ASSUME MapsInv, NEW r \in Readers, TouchCell(r)
  PROVE  MapsInv'
<1>1. MapTypes' /\ ListTypes' /\ LockTypes' /\ CollectorTypes'
  BY MapFrame, ListFrame, LockFrame, CollectorFrame
     DEF MapsInv, TypeOK, TouchCell
<1>2. CellTypes'
  BY DEF MapsInv, TypeOK, CellTypes, ReaderTypes, ReaderInv, TouchCell, valVars
<1>3. MapsPart'
  BY MapsPartFrame DEF MapsInv, TouchCell, mapVars
<1>4. ReaderTypes' /\ ReaderInv' /\ RetiredInv'
  BY RetiredFrame DEF MapsInv, TypeOK, ReaderTypes, ReaderInv, RdCell,
     TouchCell, listVars
<1> QED
  BY <1>1, <1>2, <1>3, <1>4 DEF MapsInv, TypeOK

LEMMA LoadValueStep ==
  ASSUME MapsInv, NEW r \in Readers, LoadValue(r)
  PROVE  MapsInv'
<1>1. CellTypes' /\ MapTypes' /\ ListTypes' /\ LockTypes' /\ CollectorTypes'
  BY CellFrame, MapFrame, ListFrame, LockFrame, CollectorFrame
     DEF MapsInv, TypeOK, LoadValue
<1>2. cellVal[RdCell(r)] \in Values \cup {NULL}
  BY DEF MapsInv, TypeOK, CellTypes, ReaderInv, LoadValue
<1>3. ReaderTypes'
  BY <1>2 DEF MapsInv, TypeOK, ReaderTypes, LoadValue, EndLookup, EmptyMap,
     InnerMap
<1>4. MapsPart'
  BY MapsPartFrame DEF MapsInv, LoadValue, cellVars, mapVars
<1>5. ReaderInv' /\ RetiredInv'
  BY <1>2, RetiredFrame DEF MapsInv, TypeOK, ReaderTypes, ReaderInv, RdCell,
     LoadValue, EndLookup, listVars
<1> QED
  BY <1>1, <1>3, <1>4, <1>5 DEF MapsInv, TypeOK

(* References taken and given back by readers. *)
LEMMA RefStep ==
  ASSUME MapsInv, NEW r \in Readers,
         \/ IncrementRef(r)
         \/ \E v \in Values : DecrementRef(r, v)
         \/ GetAllValuesWithRef(r)
  PROVE  MapsInv'
<1>1. MapTypes' /\ ListTypes' /\ LockTypes' /\ CollectorTypes'
  BY MapFrame, ListFrame, LockFrame, CollectorFrame
     DEF MapsInv, TypeOK, IncrementRef, DecrementRef, GetAllValuesWithRef
<1>2. CellTypes'
  BY DEF MapsInv, TypeOK, CellTypes, ReaderTypes, IncrementRef, DecrementRef,
     GetAllValuesWithRef, cellVars
<1>3. MapsPart'
  BY MapsPartFrame DEF MapsInv, IncrementRef, DecrementRef,
     GetAllValuesWithRef, cellVars, mapVars
<1>4. ReaderTypes'
  <2>1. CASE IncrementRef(r)
    BY <2>1 DEF MapsInv, TypeOK, ReaderTypes, ReaderInv, IncrementRef
  <2>2. CASE \E v \in Values : DecrementRef(r, v)
    BY <2>2 DEF MapsInv, TypeOK, ReaderTypes, DecrementRef
  <2>3. CASE GetAllValuesWithRef(r)
    <3>1. \A k \in KeysOf(dirtyMap) : cellVal[dirtyMap[k]] \in Values
      BY <2>3 DEF MapsInv, TypeOK, CellTypes, MapTypes, MapsPart, AgreeAt,
         InDelete, KeysOf, InnerMap, GetAllValuesWithRef
    <3> QED
      BY <2>3, <3>1 DEF MapsInv, TypeOK, ReaderTypes, GetAllValuesWithRef
  <2> QED
    BY <2>1, <2>2, <2>3
<1>5. ReaderInv' /\ RetiredInv'
  BY RetiredFrame DEF MapsInv, TypeOK, ReaderTypes, ReaderInv, RdCell,
     IncrementRef, DecrementRef, GetAllValuesWithRef, listVars
<1> QED
  BY <1>1, <1>2, <1>3, <1>4, <1>5 DEF MapsInv, TypeOK

(* The swap: the dirty map becomes the read map. *)
LEMMA SwapStep ==
  ASSUME MapsInv, lockPc = "free", NEW miss \in Nat, CheckSwapInLock(miss),
         UNCHANGED <<now, cellVal, usedCells, dirtyMap, deletedValues, lockVars>>
  PROVE  MapTypes' /\ ListTypes' /\ RetiredInv' /\ MapsPart'
<1>1. CASE miss < Cardinality(KeysOf(dirtyMap))
  <2>1. MapTypes' /\ ListTypes' /\ RetiredInv'
    BY <1>1 DEF MapsInv, TypeOK, MapTypes, ListTypes, RetiredInv,
       CheckSwapInLock
  <2> QED
    BY <1>1, <2>1, MapsPartFrame DEF MapsInv, CheckSwapInLock
<1>2. CASE ~(miss < Cardinality(KeysOf(dirtyMap)))
  <2> DEFINE m == [gen |-> gen, map |-> readMap, dels |-> deletedKeys,
                   time |-> now]
  <2>1. m \in RetiredMap /\ deletedMaps' = Append(deletedMaps, m)
    BY <1>2 DEF MapsInv, TypeOK, CellTypes, MapTypes, RetiredMap,
       CheckSwapInLock
  <2>2. MapTypes' /\ ListTypes'
    BY <1>2, <2>1 DEF MapsInv, TypeOK, MapTypes, ListTypes, CheckSwapInLock
  <2>3. \A k \in m.dels : m.map[k] # NULL
    BY DEF MapsInv, TypeOK, MapTypes, MapsPart, AgreeAt, InDelete
  <2>4. RetiredInv'
    BY <2>1, <2>3 DEF MapsInv, TypeOK, ListTypes, RetiredInv
  <2>5. MapsPart'
    BY <1>2 DEF MapsInv, TypeOK, MapTypes, CheckSwapInLock, MapsPart,
       CellsApart, LockInv, InDelete, AgreeAt, lockVars
  <2> QED
    BY <2>2, <2>4, <2>5
<1> QED
  BY <1>1, <1>2

LEMMA FindInDirtyMapStep ==
  ASSUME MapsInv, NEW r \in Readers, FindInDirtyMap(r)
  PROVE  MapsInv'
<1> DEFINE c == dirtyMap[rdKey[r]]
<1>1. /\ rdKey[r] \in Keys /\ c \in Cells
      /\ cellVal[c] \in Values
  BY DEF MapsInv, TypeOK, CellTypes, MapTypes, MapsPart, AgreeAt, InDelete,
     InnerMap, ReaderInv, FindInDirtyMap
<1>2. CellTypes'
  BY <1>1 DEF MapsInv, TypeOK, CellTypes, FindInDirtyMap, valVars
<1>3. LockTypes' /\ CollectorTypes'
  BY LockFrame, CollectorFrame DEF MapsInv, TypeOK, FindInDirtyMap
<1>4. MapTypes' /\ ListTypes' /\ RetiredInv' /\ MapsPart'
  <2>1. missTime + (IF rdGen[r] = gen THEN 1 ELSE 0) \in Nat
    BY DEF MapsInv, TypeOK, MapTypes
  <2> QED
    BY <2>1, SwapStep DEF FindInDirtyMap
<1>5. ReaderTypes'
  BY <1>1 DEF MapsInv, TypeOK, ReaderTypes, FindInDirtyMap, EndLookup,
     EmptyMap, InnerMap
<1>6. ReaderInv'
  BY <1>1 DEF MapsInv, TypeOK, ReaderTypes, ReaderInv, RdCell, FindInDirtyMap,
     EndLookup
<1> QED
  BY <1>2, <1>3, <1>4, <1>5, <1>6 DEF MapsInv, TypeOK

(* Insertion: the cell taken is the emptied one of the same key or fresh,  *)
(* so it belongs to no other key.                                          *)
LEMMA InsertStep ==
  ASSUME MapsInv, lockPc = "free", NEW k \in Keys, NEW v \in Values,
         InsertInLock(k, v), UNCHANGED <<now, lockVars>>
  PROVE  CellTypes' /\ MapTypes' /\ MapsPart'
<1>1. PICK c \in Cells :
        /\ IF readMap[k] # NULL
           THEN c = readMap[k] /\ UNCHANGED usedCells
           ELSE c \notin usedCells /\ usedCells' = usedCells \cup {c}
        /\ cellVal' = [cellVal EXCEPT ![c] = v]
        /\ cellUsed' = [cellUsed EXCEPT ![c] = now]
        /\ dirtyMap' = [dirtyMap EXCEPT ![k] = c]
  BY DEF InsertInLock
<1>2. CellTypes'
  BY <1>1 DEF MapsInv, TypeOK, CellTypes, InsertInLock
<1>3. MapTypes'
  BY <1>1 DEF MapsInv, TypeOK, MapTypes, InnerMap, InsertInLock
<1>4. c # NULL /\ v # NULL
  BY ConstantsAssumption
<1>5. CellsApart'
  BY <1>1, <1>4 DEF MapsInv, TypeOK, MapTypes, InnerMap, MapsPart, CellsApart,
     AgreeAt, InDelete, InsertInLock
<1>6. LockInv'
  BY DEF MapsInv, MapsPart, LockInv, InDelete, lockVars
<1>7. \A l \in Keys : AgreeAt(l)'
  <2> TAKE l \in Keys
  <2>1. AgreeAt(l)
    BY DEF MapsInv, MapsPart, InDelete
  <2>2. CASE l = k
    BY <1>1, <1>4, <2>1, <2>2 DEF MapsInv, TypeOK, CellTypes, MapTypes,
       InnerMap, AgreeAt, InsertInLock
  <2>3. CASE l # k
    <3>1. /\ readMap[l] # NULL => readMap[l] # c
          /\ dirtyMap[l] # NULL => dirtyMap[l] # c
      BY <1>1, <2>3 DEF MapsInv, MapsPart, CellsApart
    <3> QED
      BY <1>1, <2>1, <2>3, <3>1 DEF MapsInv, TypeOK, CellTypes, MapTypes,
         InnerMap, AgreeAt, InsertInLock
  <2> QED
    BY <2>2, <2>3
<1> QED
  BY <1>2, <1>3, <1>5, <1>6, <1>7 DEF MapsPart

LEMMA UpdateInsertStep ==
  ASSUME MapsInv, NEW k \in Keys, NEW v \in Values, UpdateInsert(k, v)
  PROVE  MapsInv'
<1>1. CellTypes' /\ MapTypes' /\ MapsPart'
  BY InsertStep DEF UpdateInsert
<1>2. ListTypes' /\ LockTypes' /\ CollectorTypes'
  BY ListFrame, LockFrame, CollectorFrame DEF MapsInv, TypeOK, UpdateInsert
<1>3. ReaderTypes' /\ ReaderInv' /\ RetiredInv'
  BY ReaderFrame, RetiredFrame DEF MapsInv, TypeOK, UpdateInsert, listVars
<1> QED
  BY <1>1, <1>2, <1>3 DEF MapsInv, TypeOK

LEMMA CreateOrGetNewStep ==
  ASSUME MapsInv, NEW r \in Readers, NEW k \in Keys, NEW v \in Values,
         CreateOrGetNew(r, k, v)
  PROVE  MapsInv'
<1>1. CellTypes' /\ MapTypes' /\ MapsPart'
  BY InsertStep DEF CreateOrGetNew
<1>2. ListTypes' /\ LockTypes' /\ CollectorTypes'
  BY ListFrame, LockFrame, CollectorFrame DEF MapsInv, TypeOK, CreateOrGetNew
<1>3. ReaderTypes'
  BY DEF MapsInv, TypeOK, ReaderTypes, CreateOrGetNew, EndLookup, EmptyMap,
     InnerMap
<1>4. ReaderInv' /\ RetiredInv'
  BY RetiredFrame DEF MapsInv, TypeOK, ReaderTypes, ReaderInv, RdCell,
     CreateOrGetNew, EndLookup, listVars
<1> QED
  BY <1>1, <1>2, <1>3, <1>4 DEF MapsInv, TypeOK

LEMMA CreateOrGetFoundStep ==
  ASSUME MapsInv, NEW r \in Readers, NEW k \in Keys, CreateOrGetFound(r, k)
  PROVE  MapsInv'
<1>1. dirtyMap[k] \in Cells /\ cellVal[dirtyMap[k]] \in Values \cup {NULL}
  BY DEF MapsInv, TypeOK, CellTypes, MapTypes, InnerMap, CreateOrGetFound
<1>2. CellTypes'
  BY <1>1 DEF MapsInv, TypeOK, CellTypes, CreateOrGetFound, valVars
<1>3. MapTypes' /\ ListTypes' /\ LockTypes' /\ CollectorTypes'
  BY MapFrame, ListFrame, LockFrame, CollectorFrame
     DEF MapsInv, TypeOK, CreateOrGetFound
<1>4. MapsPart'
  BY MapsPartFrame DEF MapsInv, CreateOrGetFound, mapVars
<1>5. ReaderTypes'
  BY <1>1 DEF MapsInv, TypeOK, ReaderTypes, CreateOrGetFound, EndLookup,
     EmptyMap, InnerMap
<1>6. ReaderInv' /\ RetiredInv'
  BY RetiredFrame DEF MapsInv, TypeOK, ReaderTypes, ReaderInv, RdCell,
     CreateOrGetFound, EndLookup, listVars
<1> QED
  BY <1>2, <1>3, <1>4, <1>5, <1>6 DEF MapsInv, TypeOK

(* Update of a present key stores into a cell no other key uses. *)
LEMMA UpdateStoreStep ==
  ASSUME MapsInv, NEW k \in Keys, NEW v \in Values, UpdateStore(k, v)
  PROVE  MapsInv'
<1>1. /\ dirtyMap[k] \in Cells
      /\ cellVal[dirtyMap[k]] \in Values
      /\ v # NULL
  BY ConstantsAssumption DEF MapsInv, TypeOK, CellTypes, MapTypes, InnerMap,
     MapsPart, AgreeAt, InDelete, UpdateStore
<1>2. CellTypes'
  BY <1>1 DEF MapsInv, TypeOK, CellTypes, UpdateStore
<1>3. LockTypes'
  BY <1>1 DEF MapsInv, TypeOK, LockTypes, UpdateStore
<1>4. MapTypes' /\ ListTypes' /\ CollectorTypes'
  BY MapFrame, ListFrame, CollectorFrame DEF MapsInv, TypeOK, UpdateStore
<1>5. ReaderTypes' /\ ReaderInv' /\ RetiredInv'
  BY ReaderFrame, RetiredFrame DEF MapsInv, TypeOK, UpdateStore, listVars
<1>6. MapsPart'
  <2>1. CellsApart'
    BY DEF MapsInv, MapsPart, CellsApart, UpdateStore, mapVars
  <2>2. LockInv'
    BY <1>1 DEF LockInv, InDelete, UpdateStore
  <2>3. \A l \in Keys : AgreeAt(l)'
    <3> TAKE l \in Keys
    <3>1. AgreeAt(l)
      BY DEF MapsInv, MapsPart, InDelete, UpdateStore
    <3>2. /\ readMap[l] # NULL /\ l # k => readMap[l] # dirtyMap[k]
          /\ dirtyMap[l] # NULL /\ l # k => dirtyMap[l] # dirtyMap[k]
      BY DEF MapsInv, MapsPart, CellsApart
    <3> QED
      BY <1>1, <3>1, <3>2 DEF MapsInv, TypeOK, CellTypes, MapTypes, InnerMap,
         AgreeAt, UpdateStore, mapVars
  <2> QED
    BY <2>1, <2>2, <2>3 DEF MapsPart
<1> QED
  BY <1>2, <1>3, <1>4, <1>5, <1>6 DEF MapsInv, TypeOK

LEMMA UpdateRetireStep ==
  ASSUME MapsInv, UpdateRetire
  PROVE  MapsInv'
<1>1. CellTypes' /\ MapTypes' /\ CollectorTypes'
  BY CellFrame, MapFrame, CollectorFrame DEF MapsInv, TypeOK, UpdateRetire
<1>2. ReaderTypes' /\ ReaderInv' /\ RetiredInv'
  BY ReaderFrame, RetiredFrame DEF MapsInv, TypeOK, UpdateRetire
<1>3. LockTypes'
  BY DEF LockTypes, UpdateRetire, Unlock
<1>4. ListTypes'
  <2>1. [val |-> lockVal, time |-> now] \in RetiredValue
    BY DEF MapsInv, TypeOK, CellTypes, MapsPart, LockInv, UpdateRetire,
       RetiredValue
  <2> QED
    BY <2>1 DEF MapsInv, TypeOK, ListTypes, UpdateRetire
<1>5. MapsPart'
  BY DEF MapsInv, MapsPart, CellsApart, LockInv, InDelete, AgreeAt,
     UpdateRetire, Unlock, mapVars, cellVars
<1> QED
  BY <1>1, <1>2, <1>3, <1>4, <1>5 DEF MapsInv, TypeOK

(* Delete, step by step: between the two the key alone is out of step. *)
LEMMA DeleteStampStep ==
  ASSUME MapsInv, NEW k \in Keys, DeleteStamp(k)
  PROVE  MapsInv'
<1>1. dirtyMap[k] \in Cells /\ AgreeAt(k)
  BY DEF MapsInv, TypeOK, MapTypes, InnerMap, MapsPart, InDelete, DeleteStamp
<1>2. CellTypes' /\ MapTypes' /\ LockTypes'
  BY <1>1 DEF MapsInv, TypeOK, CellTypes, MapTypes, LockTypes, InnerMap,
     DeleteStamp, valVars
<1>3. ListTypes' /\ CollectorTypes'
  BY ListFrame, CollectorFrame DEF MapsInv, TypeOK, DeleteStamp
<1>4. ReaderTypes' /\ ReaderInv' /\ RetiredInv'
  BY ReaderFrame, RetiredFrame DEF MapsInv, TypeOK, DeleteStamp, listVars
<1>5. MapsPart'
  <2>1. CellsApart'
    BY DEF MapsInv, TypeOK, MapTypes, InnerMap, MapsPart, CellsApart,
       DeleteStamp
  <2>2. LockInv'
    BY <1>1, ConstantsAssumption DEF MapsInv, TypeOK, MapTypes, InnerMap,
       MapsPart, CellsApart, AgreeAt, LockInv, InDelete, DeleteStamp
  <2>3. \A l \in Keys : l = k \/ AgreeAt(l)'
    BY DEF MapsInv, TypeOK, MapTypes, InnerMap, MapsPart, InDelete, AgreeAt,
       DeleteStamp
  <2> QED
    BY <2>1, <2>2, <2>3 DEF MapsPart, InDelete, DeleteStamp
<1> QED
  BY <1>2, <1>3, <1>4, <1>5 DEF MapsInv, TypeOK

LEMMA DeletePushStep ==
  ASSUME MapsInv, DeletePush
  PROVE  MapsInv'
<1>1. CellTypes' /\ MapTypes' /\ CollectorTypes'
  BY CellFrame, MapFrame, CollectorFrame DEF MapsInv, TypeOK, DeletePush
<1>2. ReaderTypes' /\ ReaderInv' /\ RetiredInv'
  BY ReaderFrame, RetiredFrame DEF MapsInv, TypeOK, DeletePush
<1>3. LockTypes'
  BY DEF MapsInv, TypeOK, LockTypes, DeletePush
<1>4. ListTypes'
  <2>1. [val |-> cellVal[lockVal], time |-> cellUsed[lockVal]] \in RetiredValue
    BY DEF MapsInv, TypeOK, CellTypes, MapsPart, LockInv, InDelete, DeletePush,
       RetiredValue
  <2> QED
    BY <2>1 DEF MapsInv, TypeOK, ListTypes, DeletePush
<1>5. MapsPart'
  BY DEF MapsInv, MapsPart, CellsApart, LockInv, InDelete, AgreeAt,
     DeletePush, mapVars, cellVars
<1> QED
  BY <1>1, <1>2, <1>3, <1>4, <1>5 DEF MapsInv, TypeOK

LEMMA DeleteUnlinkStep ==
  ASSUME MapsInv, DeleteUnlink
  PROVE  MapsInv'
<1>1. LockInv /\ InDelete /\ lockKey \in Keys /\ lockVal \in Cells
  BY DEF MapsInv, MapsPart, LockInv, InDelete, DeleteUnlink
<1>2. CellTypes' /\ MapTypes' /\ LockTypes'
  BY <1>1 DEF MapsInv, TypeOK, CellTypes, MapTypes, LockTypes, DeleteUnlink,
     Unlock, valVars
<1>3. ListTypes' /\ CollectorTypes'
  BY ListFrame, CollectorFrame DEF MapsInv, TypeOK, DeleteUnlink
<1>4. ReaderTypes' /\ ReaderInv' /\ RetiredInv'
  BY ReaderFrame, RetiredFrame DEF MapsInv, TypeOK, DeleteUnlink, listVars
<1>5. MapsPart'
  <2>1. CellsApart'
    BY DEF MapsInv, MapsPart, CellsApart, DeleteUnlink
  <2>2. LockInv'
    BY DEF LockInv, InDelete, DeleteUnlink, Unlock
  <2>3. \A l \in Keys : AgreeAt(l)'
    <3> TAKE l \in Keys
    <3>1. CASE l = lockKey
      BY <1>1, <3>1 DEF MapsInv, TypeOK, CellTypes, MapTypes, InnerMap,
         LockInv, AgreeAt, DeleteUnlink
    <3>2. CASE l # lockKey
      <4>1. AgreeAt(l)
        BY <3>2 DEF MapsInv, MapsPart
      <4>2. readMap[l] # lockVal /\ dirtyMap[l] # lockVal
        BY <1>1, <3>2 DEF LockInv
      <4> QED
        BY <1>1, <3>2, <4>1, <4>2 DEF MapsInv, TypeOK, CellTypes, MapTypes,
           InnerMap, LockInv, AgreeAt, DeleteUnlink
    <3> QED
      BY <3>1, <3>2
  <2> QED
    BY <2>1, <2>2, <2>3 DEF MapsPart
<1> QED
  BY <1>2, <1>3, <1>4, <1>5 DEF MapsInv, TypeOK

(* The collector: it shortens the lists from the front. *)
LEMMA DropFirst ==
  ASSUME NEW S, NEW s \in Seq(S), NEW n \in 0 .. Len(s)
  PROVE  LET t == SubSeq(s, n + 1, Len(s))
         IN /\ t \in Seq(S)
            /\ \A i \in 1 .. Len(t) : n + i \in 1 .. Len(s) /\ t[i] = s[n + i]
<1> DEFINE t == SubSeq(s, n + 1, Len(s))
<1>1. \A i \in n + 1 .. Len(s) : s[i] \in S
  OBVIOUS
<1>2. /\ t \in Seq(S)
      /\ Len(t) = IF n + 1 <= Len(s) THEN Len(s) - (n + 1) + 1 ELSE 0
      /\ \A i \in 1 .. Len(s) - (n + 1) + 1 : t[i] = s[n + 1 + i - 1]
  BY <1>1, SubSeqProperties
<1> QED
  BY <1>2

LEMMA MinTimeStep ==
  ASSUME MapsInv, MinTimeClock \/ \E r \in Readers : MinTimeScan(r)
  PROVE  MapsInv'
<1>1. CellTypes' /\ MapTypes' /\ ListTypes' /\ LockTypes'
  BY CellFrame, MapFrame, ListFrame, LockFrame
     DEF MapsInv, TypeOK, MinTimeClock, MinTimeScan
<1>2. ReaderTypes' /\ ReaderInv' /\ RetiredInv'
  BY ReaderFrame, RetiredFrame
     DEF MapsInv, TypeOK, MinTimeClock, MinTimeScan, listVars
<1>3. CollectorTypes'
  BY DEF MapsInv, TypeOK, CellTypes, ReaderTypes, CollectorTypes, MinTimeClock,
     MinTimeScan
<1>4. MapsPart'
  BY MapsPartFrame DEF MapsInv, MinTimeClock, MinTimeScan, cellVars, mapVars
<1> QED
  BY <1>1, <1>2, <1>3, <1>4 DEF MapsInv, TypeOK

LEMMA CheckGcValuesStep ==
  ASSUME MapsInv, CheckGcValues
  PROVE  MapsInv'
<1>1. MapTypes' /\ LockTypes'
  BY MapFrame, LockFrame DEF MapsInv, TypeOK, CheckGcValues
<1>2. CellTypes' /\ CollectorTypes'
  BY DEF MapsInv, TypeOK, CellTypes, CollectorTypes, CheckGcValues, cellVars
<1>3. ListTypes'
  BY DropFirst DEF MapsInv, TypeOK, ListTypes, CheckGcValues
<1>4. ReaderTypes' /\ ReaderInv' /\ RetiredInv'
  BY ReaderFrame, RetiredFrame DEF MapsInv, TypeOK, CheckGcValues
<1>5. MapsPart'
  BY MapsPartFrame DEF MapsInv, CheckGcValues, cellVars, mapVars
<1> QED
  BY <1>1, <1>2, <1>3, <1>4, <1>5 DEF MapsInv, TypeOK

LEMMA CheckGcMapsStep ==
  ASSUME MapsInv, CheckGcMaps
  PROVE  MapsInv'
<1>1. MapTypes' /\ LockTypes'
  BY MapFrame, LockFrame DEF MapsInv, TypeOK, CheckGcMaps
<1>2. PICK n \in 0 .. Len(deletedMaps) :
        /\ freedCells' = freedCells \cup UNION {RetiredCells(i) : i \in 1 .. n}
        /\ deletedMaps' = SubSeq(deletedMaps, n + 1, Len(deletedMaps))
  BY DEF CheckGcMaps
<1>3. deletedMaps \in Seq(RetiredMap)
  BY DEF MapsInv, TypeOK, ListTypes
<1>4. \A i \in 1 .. n : RetiredCells(i) \subseteq Cells
  <2> TAKE i \in 1 .. n
  <2>1. i \in 1 .. Len(deletedMaps) /\ deletedMaps[i] \in RetiredMap
    BY <1>3
  <2> QED
    BY <2>1 DEF MapsInv, RetiredInv, RetiredMap, RetiredCells, InnerMap
<1>5. CellTypes' /\ CollectorTypes'
  BY <1>2, <1>4 DEF MapsInv, TypeOK, CellTypes, CollectorTypes, CheckGcMaps,
     valVars
<1>6. ListTypes' /\ RetiredInv'
  <2>1. /\ deletedMaps' \in Seq(RetiredMap)
        /\ \A i \in 1 .. Len(deletedMaps') :
             /\ n + i \in 1 .. Len(deletedMaps)
             /\ deletedMaps'[i] = deletedMaps[n + i]
    BY <1>2, <1>3, DropFirst
  <2>2. ListTypes'
    BY <2>1 DEF MapsInv, TypeOK, ListTypes, CheckGcMaps
  <2>3. RetiredInv'
    BY <2>1, Zenon DEF MapsInv, RetiredInv
  <2> QED
    BY <2>2, <2>3
<1>7. ReaderTypes' /\ ReaderInv'
  BY ReaderFrame DEF MapsInv, TypeOK, CheckGcMaps
<1>8. MapsPart'
  BY MapsPartFrame DEF MapsInv, CheckGcMaps, mapVars
<1> QED
  BY <1>1, <1>5, <1>6, <1>7, <1>8 DEF MapsInv, TypeOK

-----------------------------------------------------------------------------
LEMMA NextMapsInv == MapsInv /\ [Next]_vars => MapsInv'
<1> SUFFICES ASSUME MapsInv, [Next]_vars PROVE MapsInv'
  OBVIOUS
<1>1. CASE Tick
  BY <1>1, TickStep
<1>2. ASSUME NEW r \in Readers, Reader(r) PROVE MapsInv'
  BY <1>2, SectionStep, LockFreeLookupStep, TouchCellStep, LoadValueStep,
     FindInDirtyMapStep, RefStep, CreateOrGetFoundStep, CreateOrGetNewStep
     DEF Reader, Section, Lookup, LockedCall
<1>3. CASE Writer
  BY <1>3, UpdateInsertStep, UpdateStoreStep, UpdateRetireStep,
     DeleteStampStep, DeletePushStep, DeleteUnlinkStep DEF Writer
<1>4. CASE Collector
  BY <1>4, MinTimeStep, CheckGcValuesStep, CheckGcMapsStep DEF Collector
<1>5. CASE UNCHANGED vars
  <2>1. /\ UNCHANGED <<now, cellVars, valVars, mapVars, listVars, lockVars>>
        /\ UNCHANGED <<threadTime, rdVars, gcVars>>
    BY <1>5 DEF vars
  <2>2. TypeOK' /\ ReaderInv'
    BY <2>1, CellFrame, MapFrame, ListFrame, LockFrame, ReaderFrame,
       CollectorFrame DEF MapsInv, TypeOK
  <2>3. MapsPart' /\ RetiredInv'
    BY <2>1, MapsPartFrame, RetiredFrame
       DEF MapsInv, cellVars, mapVars, listVars
  <2> QED
    BY <2>2, <2>3 DEF MapsInv
<1> QED
  BY <1>1, <1>2, <1>3, <1>4, <1>5 DEF Next

LEMMA MapsInvHolds == Spec => []MapsInv
BY InitMapsInv, NextMapsInv, PTL DEF Spec

(* TypeOK for every instance: every store a reader, a writer or the        *)
(* collector makes goes to an existing cell, and every cell CheckGc        *)
(* deletes exists.                                                         *)
THEOREM TypeCorrect == Spec => []TypeOK
<1>1. MapsInv => TypeOK
  BY DEF MapsInv
<1> QED
  BY <1>1, MapsInvHolds, PTL

(* The promise of the header comment of rcu_map.h (2.1, 2.2, 4.1, 4.2) for *)
(* every instance: whenever dirty_lock_ is free the read map holds a value *)
(* exactly for the keys of the dirty map, in the same cell, and            *)
(* deleted_keys_ are the emptied keys of the read map.                     *)
THEOREM MapsAlwaysAgree == Spec => []MapsAgree
<1>1. MapsInv => MapsAgree
  BY DEF MapsInv, MapsPart, MapsAgree, AgreeAt, InDelete
<1> QED
  BY <1>1, MapsInvHolds, PTL

-----------------------------------------------------------------------------
(***************************************************************************)
(* The memory of RcuMap, and its lookups                                   *)
(***************************************************************************)
(* Readers between RcuEnter and RcuExit, and those that search a map.      *)
InSection(r) == rdPc[r] \in {"in", "find", "touch", "load", "ref", "hold"}
Searching(r) == rdPc[r] \in {"find", "touch", "load"}

(* The clock readings that threads keep are readings of the past.          *)
ClockInv ==
  /\ \A r \in Readers : rdPc[r] \in {"enter", "touch"} => rdTime[r] <= now
  /\ \A r \in Readers : InSection(r) => threadTime[r] <= now
  /\ gcPc # "idle" => gcMin <= now
  /\ gcPc = "maps" => gcTodo = {}

(* The collector has not passed over r: what was stamped at this time      *)
(* outlives the section of r.                                              *)
Outlives(r, time) ==
  /\ threadTime[r] <= time
  /\ gcPc # "idle" /\ r \notin gcTodo => gcMin <= time

(* A reader searches the current map, or one that the list keeps for it.   *)
HasMap(r, i) ==
  /\ deletedMaps[i].gen = rdGen[r]
  /\ deletedMaps[i].map = rdMap[r]
  /\ Outlives(r, deletedMaps[i].time)

SearchInv ==
  \A r \in Readers : Searching(r) =>
    \/ rdGen[r] = gen /\ rdMap[r] = readMap
    \/ \E i \in 1 .. Len(deletedMaps) : HasMap(r, i)

(* A cell of a retired map is in the read map too, or will be deleted with *)
(* this map or a later one.                                                *)
KeptBy(i, j, k) ==
  k \in deletedMaps[j].dels /\ deletedMaps[j].map[k] = deletedMaps[i].map[k]

RetiredKept ==
  \A i \in 1 .. Len(deletedMaps) : \A k \in Keys :
    deletedMaps[i].map[k] # NULL =>
      \/ readMap[k] = deletedMaps[i].map[k]
      \/ \E j \in i .. Len(deletedMaps) : KeptBy(i, j, k)

(* Cells that are in use are not deleted, and each has one owner.          *)
InUse(c) == c \in usedCells /\ c \notin freedCells

MapCellsInv ==
  /\ \A k \in Keys : readMap[k] # NULL => InUse(readMap[k])
  /\ \A k \in Keys : dirtyMap[k] # NULL => InUse(dirtyMap[k])
  /\ InDelete => InUse(lockVal)
  /\ freedCells \subseteq usedCells

(* A cell that only a retired map has is empty and belongs to it alone.    *)
Abandoned(c) ==
  /\ InUse(c) /\ cellVal[c] = NULL
  /\ \A k \in Keys : readMap[k] # c /\ dirtyMap[k] # c
  /\ InDelete => lockVal # c

RetiredCellsInv ==
  \A i \in 1 .. Len(deletedMaps) : \A k \in deletedMaps[i].dels :
    /\ Abandoned(deletedMaps[i].map[k])
    /\ \A j \in 1 .. Len(deletedMaps) : \A l \in deletedMaps[j].dels :
         deletedMaps[j].map[l] = deletedMaps[i].map[k] => i = j

(* No cell is lost.                                                        *)
HasOwner(c) ==
  \/ \E k \in Keys : dirtyMap[k] = c
  \/ \E k \in deletedKeys : readMap[k] = c
  \/ \E i \in 1 .. Len(deletedMaps) : \E k \in deletedMaps[i].dels : deletedMaps[i].map[k] = c
  \/ InDelete /\ lockVal = c

OwnersInv == \A c \in usedCells : c \in freedCells \/ HasOwner(c)

CellsPart == RetiredKept /\ MapCellsInv /\ RetiredCellsInv /\ OwnersInv

CellInv == ClockInv /\ SearchInv /\ CellsPart

-----------------------------------------------------------------------------
LEMMA InitCellInv == Init => CellInv
<1> SUFFICES ASSUME Init PROVE CellInv
  OBVIOUS
<1> USE DEF Init, EmptyMap
<1>1. ClockInv /\ SearchInv
  BY DEF ClockInv, SearchInv, InSection, Searching
<1>2. CellsPart
  BY DEF CellsPart, RetiredKept, MapCellsInv, RetiredCellsInv, OwnersInv, InDelete
<1> QED
  BY <1>1, <1>2 DEF CellInv

LEMMA RetiredTypes ==
  ASSUME MapsInv, NEW i \in 1 .. Len(deletedMaps)
  PROVE  /\ deletedMaps[i].time \in Nat
         /\ deletedMaps[i].map \in InnerMap
         /\ deletedMaps[i].dels \subseteq Keys
<1>1. deletedMaps[i] \in RetiredMap
  BY DEF MapsInv, TypeOK, ListTypes
<1> QED
  BY <1>1 DEF RetiredMap

LEMMA CellsPartFrame ==
  ASSUME CellsPart,
         UNCHANGED <<cellVal, usedCells, freedCells, readMap, dirtyMap,
                     deletedKeys, deletedMaps, lockPc, lockVal>>
  PROVE  CellsPart'
BY DEF CellsPart, RetiredKept, KeptBy, MapCellsInv, RetiredCellsInv, OwnersInv,
   HasOwner, Abandoned, InUse, InDelete

LEMMA SearchFrame ==
  ASSUME ClockInv, SearchInv,
         UNCHANGED <<now, gen, readMap, deletedMaps, threadTime, rdVars, gcVars>>
  PROVE  ClockInv' /\ SearchInv'
BY DEF ClockInv, SearchInv, InSection, Searching, HasMap, Outlives, rdVars, gcVars

(* Readers that go on searching with what they have keep it.              *)
LEMMA SearchKept ==
  ASSUME SearchInv, UNCHANGED <<gen, readMap, deletedMaps, gcVars>>,
         \A q \in Readers : Searching(q)' =>
           \/ rdGen'[q] = gen /\ rdMap'[q] = readMap
           \/ /\ Searching(q)
              /\ rdGen'[q] = rdGen[q] /\ rdMap'[q] = rdMap[q]
              /\ threadTime'[q] = threadTime[q]
  PROVE  SearchInv'
BY DEF SearchInv, HasMap, Outlives, gcVars

(* Time passes. *)
LEMMA TickCells ==
  ASSUME MapsInv, CellInv, Tick
  PROVE  CellInv'
<1>1. CellsPart'
  BY CellsPartFrame DEF CellInv, Tick, cellVars, mapVars, listVars, lockVars
<1>2. ClockInv'
  BY DEF MapsInv, TypeOK, CellTypes, ReaderTypes, CollectorTypes, CellInv, ClockInv,
     InSection, Tick, rdVars, gcVars
<1>3. SearchInv'
  BY SearchKept DEF CellInv, Searching, Tick, rdVars, mapVars, listVars
<1> QED
  BY <1>1, <1>2, <1>3 DEF CellInv

(* A reader enters or leaves a section or goes on with a lookup: only what *)
(* it holds itself changes.                                                *)
LEMMA SectionCells ==
  ASSUME MapsInv, CellInv, NEW r \in Readers, Section(r)
  PROVE  CellInv'
<1>1. CellsPart'
  BY CellsPartFrame DEF CellInv, Section, RcuEnterClock, RcuEnterStore, RcuExit,
     cellVars, mapVars, listVars, lockVars
<1>2. ClockInv'
  BY DEF MapsInv, TypeOK, CellTypes, ReaderTypes, CellInv, ClockInv, InSection,
     Section, RcuEnterClock, RcuEnterStore, RcuExit, gcVars
<1>3. SearchInv'
  BY SearchKept DEF MapsInv, TypeOK, ReaderTypes, CellInv, Searching, Section,
     RcuEnterClock, RcuEnterStore, RcuExit, mapVars, listVars
<1> QED
  BY <1>1, <1>2, <1>3 DEF CellInv

LEMMA LoadReadMapCells ==
  ASSUME MapsInv, CellInv, NEW r \in Readers, NEW k \in Keys, NEW op, LoadReadMap(r, k, op)
  PROVE  CellInv'
<1>1. CellsPart'
  BY CellsPartFrame DEF CellInv, LoadReadMap, cellVars, mapVars, listVars, lockVars
<1>2. ClockInv'
  BY DEF MapsInv, TypeOK, CellTypes, ReaderTypes, CellInv, ClockInv, InSection,
     LoadReadMap, gcVars
<1>3. SearchInv'
  BY SearchKept DEF MapsInv, TypeOK, ReaderTypes, CellInv, Searching, LoadReadMap,
     mapVars, listVars
<1> QED
  BY <1>1, <1>2, <1>3 DEF CellInv

LEMMA LookupCells ==
  ASSUME MapsInv, CellInv, NEW r \in Readers,
         \/ FindInReadMap(r) \/ TouchCell(r) \/ LoadValue(r) \/ FindNowhere(r)
         \/ IncrementRef(r) \/ \E v \in Values : DecrementRef(r, v)
         \/ \E k \in Keys : CreateOrGetFound(r, k)
         \/ GetAllValuesWithRef(r)
  PROVE  CellInv'
<1> USE DEF FindInReadMap, TouchCell, LoadValue, FindNowhere, IncrementRef,
     DecrementRef, CreateOrGetFound, GetAllValuesWithRef
<1>1. CellsPart'
  BY CellsPartFrame DEF CellInv, cellVars, mapVars, listVars, lockVars
<1>2. /\ UNCHANGED <<now, gen, readMap, deletedMaps, threadTime, gcVars>>
      /\ \A q \in Readers \ {r} :
           rdPc'[q] = rdPc[q] /\ rdTime'[q] = rdTime[q] /\ rdGen'[q] = rdGen[q] /\ rdMap'[q] = rdMap[q]
      /\ InSection(r)' => InSection(r)
      /\ rdPc'[r] # "enter" \/ UNCHANGED <<rdPc, rdTime>>
      /\ rdPc'[r] = "touch" => rdTime'[r] = now
      /\ Searching(r)' => Searching(r) /\ rdGen'[r] = rdGen[r] /\ rdMap'[r] = rdMap[r]
  BY DEF MapsInv, TypeOK, ReaderTypes, EndLookup, InSection, Searching, mapVars, listVars
<1>3. ClockInv'
  BY <1>2 DEF MapsInv, TypeOK, CellTypes, CellInv, ClockInv, InSection, gcVars
<1>4. SearchInv'
  BY <1>2, SearchKept DEF CellInv, Searching
<1> QED
  BY <1>1, <1>3, <1>4 DEF CellInv

(* The swap retires the read map with the cells of deleted_keys_: a reader *)
(* that has the map loaded finds it on the list, stamped no earlier than   *)
(* its own section.                                                        *)
LEMMA SwapCells ==
  ASSUME MapsInv, CellInv, lockPc = "free", NEW miss \in Nat, CheckSwapInLock(miss),
         UNCHANGED <<now, cellVal, usedCells, freedCells, dirtyMap, lockVars, gcVars>>,
         \A q \in Readers : Searching(q)' =>
           /\ Searching(q)
           /\ rdGen'[q] = rdGen[q] /\ rdMap'[q] = rdMap[q]
           /\ threadTime'[q] = threadTime[q]
  PROVE  SearchInv' /\ CellsPart'
<1>1. CASE miss < Cardinality(KeysOf(dirtyMap))
  BY <1>1, CellsPartFrame, SearchKept DEF CellInv, CheckSwapInLock, lockVars
<1>2. CASE ~(miss < Cardinality(KeysOf(dirtyMap)))
  <2> DEFINE m == [gen |-> gen, map |-> readMap, dels |-> deletedKeys, time |-> now]
  <2>0. PICK n \in Nat : n = Len(deletedMaps)
    BY DEF MapsInv, TypeOK, ListTypes
  <2>1. /\ gen' = gen + 1 /\ readMap' = dirtyMap /\ deletedKeys' = {}
        /\ deletedMaps' = Append(deletedMaps, m)
    BY <1>2 DEF CheckSwapInLock
  <2>2. /\ Len(deletedMaps') = n + 1
        /\ deletedMaps'[n + 1] = m
        /\ \A i \in 1 .. n : deletedMaps'[i] = deletedMaps[i]
    BY <2>0, <2>1 DEF MapsInv, TypeOK, ListTypes
  <2>3. /\ m.gen = gen /\ m.map = readMap /\ m.dels = deletedKeys /\ m.time = now
    OBVIOUS
  <2>4. \A k \in Keys : AgreeAt(k)
    BY DEF MapsInv, MapsPart, InDelete
  <2> HIDE DEF m
  <2>5. SearchInv'
    <3> SUFFICES ASSUME NEW q \in Readers, Searching(q)'
                 PROVE  \E i \in 1 .. n + 1 : HasMap(q, i)'
      BY <2>2 DEF SearchInv
    <3>1. CASE rdGen[q] = gen /\ rdMap[q] = readMap
      <4>1. HasMap(q, n + 1)'
        BY <2>2, <2>3, <3>1 DEF CellInv, ClockInv, InSection, Searching, HasMap, Outlives, gcVars
      <4> QED
        BY <4>1, <2>2
    <3>2. ASSUME NEW i \in 1 .. n, HasMap(q, i) PROVE HasMap(q, i)'
      BY <2>2, <3>2 DEF HasMap, Outlives, gcVars
    <3> QED
      BY <2>0, <2>2, <3>1, <3>2 DEF CellInv, SearchInv
  <2>6. RetiredKept'
    <3> SUFFICES ASSUME NEW i \in 1 .. n + 1, NEW k \in Keys, deletedMaps'[i].map[k] # NULL
                 PROVE  \/ dirtyMap[k] = deletedMaps'[i].map[k]
                        \/ \E j \in i .. n + 1 : KeptBy(i, j, k)'
      BY <2>1, <2>2 DEF RetiredKept
    <3>1. CASE deletedMaps'[i].map[k] = readMap[k]
      <4>1. dirtyMap[k] = readMap[k] \/ k \in deletedKeys
        BY <2>4, <3>1 DEF AgreeAt
      <4>2. k \in deletedKeys => KeptBy(i, n + 1, k)'
        BY <2>2, <2>3, <3>1 DEF KeptBy
      <4> QED
        BY <2>2, <3>1, <4>1, <4>2
    <3>2. CASE deletedMaps'[i].map[k] # readMap[k]
      <4>1. i \in 1 .. n
        BY <2>2, <2>3, <3>2
      <4>2. PICK j \in i .. n : KeptBy(i, j, k)
        BY <2>0, <2>2, <3>2, <4>1 DEF CellInv, CellsPart, RetiredKept
      <4>3. KeptBy(i, j, k)' /\ j \in i .. n + 1
        BY <2>2, <4>1, <4>2 DEF KeptBy
      <4> QED
        BY <4>3
    <3> QED
      BY <3>1, <3>2
  <2>7. MapCellsInv'
    BY <2>1 DEF CellInv, CellsPart, MapCellsInv, InUse, InDelete, lockVars
  <2>8. RetiredCellsInv'
    <3>1. \A c : (\E k \in deletedKeys : readMap[k] = c) => Abandoned(c)'
      BY <2>1, <2>4 DEF MapsInv, TypeOK, MapTypes, MapsPart, CellsApart, AgreeAt, CellInv,
         CellsPart, MapCellsInv, Abandoned, InUse, InDelete, lockVars
    <3>2. \A c : (\E i \in 1 .. n : \E k \in deletedMaps[i].dels : deletedMaps[i].map[k] = c)
                   => Abandoned(c) /\ Abandoned(c)'
      BY <2>0, <2>1 DEF CellInv, CellsPart, RetiredCellsInv, Abandoned, InUse, InDelete, lockVars
    <3>3. \A i \in 1 .. n : \A k \in deletedMaps[i].dels : \A l \in deletedKeys :
             deletedMaps[i].map[k] # readMap[l]
      BY <3>2 DEF MapsInv, TypeOK, MapTypes, Abandoned
    <3>4. \A i, j \in 1 .. n : \A k \in deletedMaps[i].dels : \A l \in deletedMaps[j].dels :
             deletedMaps[j].map[l] = deletedMaps[i].map[k] => i = j
      BY <2>0 DEF CellInv, CellsPart, RetiredCellsInv
    <3>5. \A c : (\E i \in 1 .. n + 1 : \E k \in deletedMaps'[i].dels : deletedMaps'[i].map[k] = c)
                   => Abandoned(c)'
      BY <2>2, <2>3, <3>1, <3>2
    <3>6. \A i, j \in 1 .. n + 1 : \A k \in deletedMaps'[i].dels : \A l \in deletedMaps'[j].dels :
             deletedMaps'[j].map[l] = deletedMaps'[i].map[k] => i = j
      BY <2>2, <2>3, <3>3, <3>4
    <3> QED
      BY <2>2, <3>5, <3>6 DEF RetiredCellsInv
  <2>9. OwnersInv'
    <3> SUFFICES ASSUME NEW c \in usedCells, c \notin freedCells
                 PROVE  HasOwner(c)'
      BY DEF OwnersInv
    <3>1. HasOwner(c) /\ ~InDelete
      BY DEF CellInv, CellsPart, OwnersInv, InDelete
    <3>2. CASE \E k \in Keys : dirtyMap[k] = c
      BY <3>2 DEF HasOwner
    <3>3. CASE \E k \in deletedKeys : readMap[k] = c
      BY <2>2, <2>3, <3>3 DEF HasOwner
    <3>4. CASE \E i \in 1 .. n : \E k \in deletedMaps[i].dels : deletedMaps[i].map[k] = c
      BY <2>2, <3>4 DEF HasOwner
    <3> QED
      BY <2>0, <3>1, <3>2, <3>3, <3>4 DEF HasOwner
  <2> QED
    BY <2>5, <2>6, <2>7, <2>8, <2>9 DEF CellsPart
<1> QED
  BY <1>1, <1>2

LEMMA FindInDirtyMapCells ==
  ASSUME MapsInv, CellInv, NEW r \in Readers, FindInDirtyMap(r)
  PROVE  CellInv'
<1>1. \A q \in Readers : Searching(q)' =>
        /\ Searching(q)
        /\ rdGen'[q] = rdGen[q] /\ rdMap'[q] = rdMap[q]
        /\ threadTime'[q] = threadTime[q]
  BY DEF MapsInv, TypeOK, ReaderTypes, Searching, FindInDirtyMap, EndLookup
<1>2. missTime + (IF rdGen[r] = gen THEN 1 ELSE 0) \in Nat
  BY DEF MapsInv, TypeOK, MapTypes
<1>3. SearchInv' /\ CellsPart'
  BY <1>1, <1>2, SwapCells DEF FindInDirtyMap
<1>4. ClockInv'
  BY DEF MapsInv, TypeOK, ReaderTypes, CellInv, ClockInv, InSection,
     FindInDirtyMap, EndLookup, gcVars
<1> QED
  BY <1>3, <1>4 DEF CellInv

(* A cell taken for an insertion is the emptied one the read map has, or   *)
(* was never in use, so that no retired map owns it.                       *)
LEMMA InsertCells ==
  ASSUME MapsInv, CellInv, lockPc = "free", NEW k \in Keys, NEW v \in Values,
         InsertInLock(k, v), UNCHANGED <<deletedMaps, lockVars>>
  PROVE  CellsPart'
<1>1. PICK c \in Cells :
        /\ IF readMap[k] # NULL
           THEN c = readMap[k] /\ UNCHANGED usedCells
           ELSE c \notin usedCells /\ usedCells' = usedCells \cup {c}
        /\ cellVal' = [cellVal EXCEPT ![c] = v]
        /\ dirtyMap' = [dirtyMap EXCEPT ![k] = c]
  BY DEF InsertInLock
<1>2. /\ deletedKeys' = deletedKeys \ {k} /\ UNCHANGED <<freedCells, readMap>>
      /\ ~InDelete /\ ~InDelete' /\ dirtyMap[k] = NULL /\ c # NULL
      /\ dirtyMap'[k] = c /\ \A l \in Keys \ {k} : dirtyMap'[l] = dirtyMap[l]
      /\ usedCells \subseteq usedCells' /\ InUse(c)' /\ usedCells' \subseteq usedCells \cup {c}
  BY <1>1, ConstantsAssumption DEF InsertInLock, InDelete, lockVars, InUse, MapsInv, TypeOK,
     MapTypes, InnerMap, CellInv, CellsPart, MapCellsInv
<1>3. RetiredKept'
  BY <1>2 DEF CellInv, CellsPart, RetiredKept, KeptBy
<1>4. MapCellsInv'
  BY <1>2 DEF CellInv, CellsPart, MapCellsInv, InUse
<1>5. \A d : Abandoned(d) => Abandoned(d)'
  <2> SUFFICES ASSUME NEW d, Abandoned(d) PROVE Abandoned(d)'
    OBVIOUS
  <2>1. d # c
    BY <1>1 DEF Abandoned, InUse
  <2> QED
    BY <1>1, <1>2, <2>1 DEF MapsInv, TypeOK, CellTypes, Abandoned, InUse
<1>6. RetiredCellsInv'
  BY <1>5 DEF CellInv, CellsPart, RetiredCellsInv
<1>7. OwnersInv'
  <2> SUFFICES ASSUME NEW d \in usedCells', d \notin freedCells
               PROVE  HasOwner(d)'
    BY <1>2 DEF OwnersInv
  <2>1. CASE d = c
    BY <1>2, <2>1 DEF HasOwner
  <2>2. CASE d # c
    <3>1. HasOwner(d) /\ (readMap[k] # NULL => readMap[k] # d)
      BY <1>1, <1>2, <2>2 DEF CellInv, CellsPart, OwnersInv
    <3>2. CASE \E l \in Keys : dirtyMap[l] = d
      <4>1. d # NULL
        BY <1>2, <2>2, ConstantsAssumption DEF MapsInv, TypeOK, CellTypes
      <4> QED
        BY <1>2, <3>2, <4>1 DEF HasOwner
    <3>3. CASE \E l \in deletedKeys : readMap[l] = d
      BY <1>2, <3>1, <3>3 DEF HasOwner, MapsInv, MapsPart, AgreeAt
    <3>4. CASE \E i \in 1 .. Len(deletedMaps) : \E l \in deletedMaps[i].dels : deletedMaps[i].map[l] = d
      BY <3>4 DEF HasOwner
    <3> QED
      BY <1>2, <3>1, <3>2, <3>3, <3>4 DEF HasOwner
  <2> QED
    BY <2>1, <2>2
<1> QED
  BY <1>3, <1>4, <1>6, <1>7 DEF CellsPart

LEMMA UpdateInsertCells ==
  ASSUME MapsInv, CellInv, NEW k \in Keys, NEW v \in Values, UpdateInsert(k, v)
  PROVE  CellInv'
<1>1. CellsPart'
  BY InsertCells DEF UpdateInsert, listVars
<1>2. ClockInv' /\ SearchInv'
  BY SearchFrame DEF CellInv, UpdateInsert, InsertInLock, listVars
<1> QED
  BY <1>1, <1>2 DEF CellInv

LEMMA CreateOrGetNewCells ==
  ASSUME MapsInv, CellInv, NEW r \in Readers, NEW k \in Keys, NEW v \in Values,
         CreateOrGetNew(r, k, v)
  PROVE  CellInv'
<1>1. CellsPart'
  BY InsertCells DEF CreateOrGetNew, listVars
<1>2. ClockInv'
  BY DEF MapsInv, TypeOK, ReaderTypes, CellInv, ClockInv, InSection, CreateOrGetNew,
     EndLookup, gcVars
<1>3. SearchInv'
  BY SearchKept DEF MapsInv, TypeOK, ReaderTypes, CellInv, Searching, CreateOrGetNew,
     InsertInLock, EndLookup, listVars
<1> QED
  BY <1>1, <1>2, <1>3 DEF CellInv

LEMMA UpdateCells ==
  ASSUME MapsInv, CellInv,
         UpdateRetire \/ \E k \in Keys, v \in Values : UpdateStore(k, v)
  PROVE  CellInv'
<1>1. ClockInv' /\ SearchInv'
  BY SearchFrame DEF CellInv, UpdateStore, UpdateRetire, mapVars, listVars
<1>2. /\ UNCHANGED <<usedCells, freedCells, readMap, dirtyMap, deletedKeys, deletedMaps>>
      /\ ~InDelete /\ ~InDelete'
  BY DEF UpdateStore, UpdateRetire, Unlock, InDelete, cellVars, mapVars, listVars
<1>3. \A d : Abandoned(d) => Abandoned(d)'
  <2>1. CASE UpdateRetire
    BY <1>2, <2>1 DEF UpdateRetire, cellVars, Abandoned, InUse
  <2>2. ASSUME NEW k \in Keys, NEW v \in Values, UpdateStore(k, v)
        PROVE  \A d : Abandoned(d) => Abandoned(d)'
    BY <1>2, <2>2 DEF UpdateStore, Abandoned, InUse, MapsInv, TypeOK, CellTypes
  <2> QED
    BY <2>1, <2>2
<1>4. CellsPart'
  BY <1>2, <1>3 DEF CellInv, CellsPart, RetiredKept, KeptBy, MapCellsInv, RetiredCellsInv,
     OwnersInv, HasOwner, InUse
<1> QED
  BY <1>1, <1>4 DEF CellInv

(* Delete takes the cell out of the dirty map; until it is unlinked the    *)
(* delete itself is its owner.                                             *)
LEMMA DeleteStampCells ==
  ASSUME MapsInv, CellInv, NEW k \in Keys, DeleteStamp(k)
  PROVE  CellInv'
<1>1. ClockInv' /\ SearchInv'
  BY SearchFrame DEF CellInv, DeleteStamp, listVars
<1>2. /\ UNCHANGED <<cellVal, usedCells, freedCells, readMap, deletedKeys, deletedMaps>>
      /\ dirtyMap'[k] = NULL /\ \A l \in Keys \ {k} : dirtyMap'[l] = dirtyMap[l]
      /\ dirtyMap[k] # NULL
      /\ ~InDelete /\ InDelete' /\ lockVal' = dirtyMap[k] /\ InUse(dirtyMap[k])
  BY DEF MapsInv, TypeOK, MapTypes, InnerMap, CellInv, CellsPart, MapCellsInv,
     DeleteStamp, InDelete, listVars
<1>3. RetiredKept' /\ MapCellsInv'
  BY <1>2 DEF CellInv, CellsPart, RetiredKept, KeptBy, MapCellsInv, InUse
<1>4. RetiredCellsInv'
  <2>1. \A d : Abandoned(d) => Abandoned(d)'
    BY <1>2, ConstantsAssumption DEF Abandoned, InUse, MapsInv, TypeOK, CellTypes
  <2> QED
    BY <1>2, <2>1 DEF CellInv, CellsPart, RetiredCellsInv
<1>5. OwnersInv'
  BY <1>2 DEF CellInv, CellsPart, OwnersInv, HasOwner
<1> QED
  BY <1>1, <1>3, <1>4, <1>5 DEF CellInv, CellsPart

LEMMA DeletePushCells ==
  ASSUME MapsInv, CellInv, DeletePush
  PROVE  CellInv'
<1>1. ClockInv' /\ SearchInv'
  BY SearchFrame DEF CellInv, DeletePush, mapVars
<1>2. CellsPart'
  BY DEF CellInv, CellsPart, RetiredKept, KeptBy, MapCellsInv, RetiredCellsInv, OwnersInv,
     HasOwner, Abandoned, InUse, InDelete, DeletePush, cellVars, mapVars
<1> QED
  BY <1>1, <1>2 DEF CellInv

LEMMA DeleteUnlinkCells ==
  ASSUME MapsInv, CellInv, DeleteUnlink
  PROVE  CellInv'
<1>1. ClockInv' /\ SearchInv'
  BY SearchFrame DEF CellInv, DeleteUnlink, listVars
<1>2. /\ UNCHANGED <<usedCells, readMap, dirtyMap, deletedMaps>>
      /\ InDelete /\ ~InDelete' /\ LockInv /\ InUse(lockVal)
      /\ lockKey \in Keys /\ lockVal \in Cells
  BY DEF MapsInv, MapsPart, LockInv, CellInv, CellsPart, MapCellsInv, DeleteUnlink, Unlock,
     InDelete, listVars
<1>3. CASE readMap[lockKey] # NULL
  <2>1. /\ cellVal' = [cellVal EXCEPT ![lockVal] = NULL]
        /\ deletedKeys' = deletedKeys \cup {lockKey} /\ UNCHANGED freedCells
        /\ readMap[lockKey] = lockVal
    BY <1>2, <1>3 DEF DeleteUnlink, LockInv
  <2>2. \A d : Abandoned(d) => Abandoned(d)'
    BY <1>2, <2>1 DEF Abandoned, InUse, MapsInv, TypeOK, CellTypes
  <2>3. CellsPart'
    BY <1>2, <2>1, <2>2 DEF CellInv, CellsPart, RetiredKept, KeptBy, MapCellsInv,
       RetiredCellsInv, OwnersInv, HasOwner, InUse
  <2> QED
    BY <1>1, <2>3 DEF CellInv
<1>4. CASE readMap[lockKey] = NULL
  <2>1. /\ UNCHANGED <<cellVal, deletedKeys>>
        /\ freedCells' = freedCells \cup {lockVal}
        /\ \A k \in Keys : readMap[k] # lockVal /\ dirtyMap[k] # lockVal
    BY <1>2, <1>4, ConstantsAssumption DEF DeleteUnlink, LockInv
  <2>2. \A d : Abandoned(d) => Abandoned(d)'
    BY <1>2, <2>1 DEF Abandoned, InUse
  <2>3. RetiredKept' /\ MapCellsInv' /\ RetiredCellsInv'
    BY <1>2, <2>1, <2>2 DEF CellInv, CellsPart, RetiredKept, KeptBy, MapCellsInv,
       RetiredCellsInv, InUse
  <2>4. OwnersInv'
    BY <1>2, <2>1 DEF CellInv, CellsPart, OwnersInv, HasOwner
  <2> QED
    BY <1>1, <2>3, <2>4 DEF CellInv, CellsPart
<1> QED
  BY <1>3, <1>4

(* The collector: scanning a reader takes its section into account.        *)
LEMMA MinTimeCells ==
  ASSUME MapsInv, CellInv, MinTimeClock \/ \E r \in Readers : MinTimeScan(r)
  PROVE  CellInv'
<1>1. CellsPart'
  BY CellsPartFrame DEF CellInv, MinTimeClock, MinTimeScan, cellVars, mapVars, listVars, lockVars
<1>2. ClockInv'
  BY DEF MapsInv, TypeOK, CellTypes, ReaderTypes, CollectorTypes, CellInv, ClockInv,
     InSection, MinTimeClock, MinTimeScan, rdVars
<1>3. SearchInv'
  <2>1. UNCHANGED <<gen, readMap, deletedMaps, threadTime, rdPc, rdGen, rdMap>>
    BY DEF MinTimeClock, MinTimeScan, mapVars, listVars, rdVars
  <2>2. ASSUME NEW q \in Readers, NEW time \in Nat, Outlives(q, time) PROVE Outlives(q, time)'
    BY <2>1, <2>2 DEF Outlives, MinTimeClock, MinTimeScan, MapsInv, TypeOK, ReaderTypes,
       CollectorTypes
  <2>3. \A i \in 1 .. Len(deletedMaps) : deletedMaps[i].time \in Nat
    BY RetiredTypes
  <2>4. \A q \in Readers : \A i \in 1 .. Len(deletedMaps) : HasMap(q, i) => HasMap(q, i)'
    BY <2>1, <2>2, <2>3 DEF HasMap
  <2> QED
    BY <2>1, <2>4 DEF CellInv, SearchInv, Searching
<1> QED
  BY <1>1, <1>2, <1>3 DEF CellInv

LEMMA CheckGcValuesCells ==
  ASSUME MapsInv, CellInv, CheckGcValues
  PROVE  CellInv'
<1>1. CellsPart'
  BY CellsPartFrame DEF CellInv, CheckGcValues, cellVars, mapVars, lockVars
<1>2. ClockInv'
  BY DEF CellInv, ClockInv, InSection, CheckGcValues, rdVars
<1>3. SearchInv'
  BY DEF CellInv, SearchInv, Searching, HasMap, Outlives, CheckGcValues, rdVars, mapVars
<1> QED
  BY <1>1, <1>2, <1>3 DEF CellInv

(* A map is deleted only when no reader that may search it is left: its    *)
(* stamp is older than every section.                                      *)
LEMMA CheckGcMapsCells ==
  ASSUME MapsInv, CellInv, CheckGcMaps
  PROVE  CellInv'
<1>1. PICK n \in 0 .. Len(deletedMaps) :
        /\ TakesFirst(n, deletedMaps, MinGcTime)
        /\ freedCells' = freedCells \cup UNION {RetiredCells(i) : i \in 1 .. n}
        /\ deletedMaps' = SubSeq(deletedMaps, n + 1, Len(deletedMaps))
  BY DEF CheckGcMaps
<1>2. PICK len \in Nat : len = Len(deletedMaps)
  BY DEF MapsInv, TypeOK, ListTypes
<1>3. /\ n \in 0 .. len /\ Len(deletedMaps') = len - n
      /\ \A i \in 1 .. len - n : n + i \in 1 .. len /\ deletedMaps'[i] = deletedMaps[n + i]
  BY <1>1, <1>2, DropFirst DEF MapsInv, TypeOK, ListTypes
<1>4. UNCHANGED <<now, cellVal, usedCells, readMap, dirtyMap, deletedKeys, gen,
                  lockPc, lockVal, threadTime, rdPc, rdTime, rdGen, rdMap, gcTodo>>
  BY DEF CheckGcMaps, mapVars, lockVars, rdVars
<1>5. gcPc = "maps" /\ gcPc' = "idle" /\ gcTodo = {} /\ ~InDelete /\ ~InDelete'
  BY DEF CheckGcMaps, CellInv, ClockInv, InDelete, lockVars
<1>6. ClockInv'
  BY <1>4, <1>5 DEF CellInv, ClockInv, InSection
<1>7. SearchInv'
  <2> SUFFICES ASSUME NEW q \in Readers, Searching(q)', ~(rdGen[q] = gen /\ rdMap[q] = readMap)
               PROVE  \E i \in 1 .. len - n : HasMap(q, i)'
    BY <1>3, <1>4 DEF SearchInv
  <2>1. PICK i \in 1 .. len : HasMap(q, i)
    BY <1>2, <1>4 DEF CellInv, SearchInv, Searching
  <2>2. deletedMaps[i].time \in Nat /\ gcMin <= deletedMaps[i].time /\ gcMin \in Nat
    BY <1>2, <1>5, <2>1, RetiredTypes DEF HasMap, Outlives, MapsInv, TypeOK, CollectorTypes
  <2>3. ~(deletedMaps[i].time < MinGcTime)
    BY <2>2, ConstantsAssumption DEF MinGcTime
  <2>4. i > n
    BY <1>1, <1>3, <2>3 DEF TakesFirst
  <2>5. PICK j \in 1 .. len - n : i = n + j
    BY <1>3, <2>4
  <2>6. HasMap(q, j)'
    BY <1>3, <1>4, <1>5, <2>1, <2>5 DEF HasMap, Outlives
  <2> QED
    BY <2>6
<1>8. RetiredKept'
  <2> SUFFICES ASSUME NEW i \in 1 .. len - n, NEW k \in Keys, deletedMaps'[i].map[k] # NULL,
                      readMap[k] # deletedMaps'[i].map[k]
               PROVE  \E j \in i .. len - n : KeptBy(i, j, k)'
    BY <1>3, <1>4 DEF RetiredKept
  <2>1. n + i \in 1 .. len /\ deletedMaps'[i] = deletedMaps[n + i]
    BY <1>3
  <2>2. PICK j \in n + i .. len : KeptBy(n + i, j, k)
    BY <1>2, <2>1 DEF CellInv, CellsPart, RetiredKept
  <2>3. PICK h \in i .. len - n : j = n + h
    <3>1. j \in Int /\ n \in Int /\ len \in Int /\ n + i <= j /\ j <= len
      BY <1>3, <2>1, <2>2
    <3>2. j - n \in i .. len - n /\ j = n + (j - n)
      BY <3>1
    <3> QED
      BY <3>2
  <2>4. KeptBy(i, h, k)'
    BY <1>3, <2>1, <2>2, <2>3 DEF KeptBy
  <2> QED
    BY <2>4
<1>9. \A c : c \in freedCells' <=>
        c \in freedCells \/ \E i \in 1 .. n : \E k \in deletedMaps[i].dels : deletedMaps[i].map[k] = c
  BY <1>1 DEF RetiredCells
<1>10. \A c : (\E i \in 1 .. n : \E k \in deletedMaps[i].dels : deletedMaps[i].map[k] = c) => Abandoned(c)
  BY <1>2, <1>3 DEF CellInv, CellsPart, RetiredCellsInv
<1>11. MapCellsInv'
  BY <1>4, <1>5, <1>9, <1>10 DEF CellInv, CellsPart, MapCellsInv, InUse, Abandoned
<1>12. RetiredCellsInv'
  <2>1. \A i, j \in 1 .. len : \A k \in deletedMaps[i].dels : \A l \in deletedMaps[j].dels :
          deletedMaps[j].map[l] = deletedMaps[i].map[k] => i = j
    BY <1>2 DEF CellInv, CellsPart, RetiredCellsInv
  <2>2. \A c : (\E i \in 1 .. len - n : \E k \in deletedMaps'[i].dels : deletedMaps'[i].map[k] = c)
                 => c \notin freedCells'
    <3> SUFFICES ASSUME NEW c, NEW i \in 1 .. len - n, NEW k \in deletedMaps'[i].dels,
                        deletedMaps'[i].map[k] = c, c \in freedCells'
                 PROVE  FALSE
      OBVIOUS
    <3>1. n + i \in 1 .. len /\ k \in deletedMaps[n + i].dels /\ deletedMaps[n + i].map[k] = c
      BY <1>3
    <3>2. c \notin freedCells
      BY <1>2, <3>1 DEF CellInv, CellsPart, RetiredCellsInv, Abandoned, InUse
    <3>3. PICK j \in 1 .. n : \E l \in deletedMaps[j].dels : deletedMaps[j].map[l] = c
      BY <1>9, <3>2
    <3>4. j \in 1 .. len /\ j # n + i
      BY <1>3, <3>3
    <3> QED
      BY <2>1, <3>1, <3>3, <3>4
  <2>3. \A c : (\E i \in 1 .. len - n : \E k \in deletedMaps'[i].dels : deletedMaps'[i].map[k] = c)
                 => Abandoned(c)
    BY <1>2, <1>3 DEF CellInv, CellsPart, RetiredCellsInv
  <2>4. \A c : (\E i \in 1 .. len - n : \E k \in deletedMaps'[i].dels : deletedMaps'[i].map[k] = c)
                 => Abandoned(c)'
    BY <1>4, <1>5, <2>2, <2>3 DEF Abandoned, InUse
  <2>5. \A i, j \in 1 .. len - n : \A k \in deletedMaps'[i].dels : \A l \in deletedMaps'[j].dels :
          deletedMaps'[j].map[l] = deletedMaps'[i].map[k] => i = j
    <3> SUFFICES ASSUME NEW i \in 1 .. len - n, NEW j \in 1 .. len - n,
                        NEW k \in deletedMaps'[i].dels, NEW l \in deletedMaps'[j].dels,
                        deletedMaps'[j].map[l] = deletedMaps'[i].map[k]
                 PROVE  i = j
      OBVIOUS
    <3>1. /\ n + i \in 1 .. len /\ deletedMaps'[i] = deletedMaps[n + i]
          /\ n + j \in 1 .. len /\ deletedMaps'[j] = deletedMaps[n + j]
      BY <1>3
    <3>2. n + i = n + j
      BY <2>1, <3>1
    <3> QED
      BY <1>3, <3>2
  <2> QED
    BY <1>3, <2>4, <2>5 DEF RetiredCellsInv
<1>13. OwnersInv'
  <2> SUFFICES ASSUME NEW c \in usedCells, c \notin freedCells' PROVE HasOwner(c)'
    BY <1>4 DEF OwnersInv
  <2>1. HasOwner(c)
    BY <1>9 DEF CellInv, CellsPart, OwnersInv
  <2>2. ASSUME NEW i \in 1 .. len, NEW k \in deletedMaps[i].dels, deletedMaps[i].map[k] = c
        PROVE  \E j \in 1 .. len - n : \E l \in deletedMaps'[j].dels : deletedMaps'[j].map[l] = c
    <3>1. ~(i \in 1 .. n)
      BY <1>9, <2>2
    <3>2. PICK j \in 1 .. len - n : i = n + j
      BY <1>3, <3>1
    <3> QED
      BY <1>3, <2>2, <3>2
  <2> QED
    BY <1>2, <1>3, <1>4, <1>5, <2>1, <2>2 DEF HasOwner
<1> QED
  BY <1>6, <1>7, <1>8, <1>11, <1>12, <1>13 DEF CellInv, CellsPart

-----------------------------------------------------------------------------
LEMMA NextCellInv == MapsInv /\ CellInv /\ [Next]_vars => CellInv'
<1> SUFFICES ASSUME MapsInv, CellInv, [Next]_vars PROVE CellInv'
  OBVIOUS
<1>1. CASE Tick
  BY <1>1, TickCells
<1>2. ASSUME NEW r \in Readers, Reader(r) PROVE CellInv'
  BY <1>2, SectionCells, LoadReadMapCells, LookupCells, FindInDirtyMapCells,
     CreateOrGetNewCells DEF Reader, Lookup, LockedCall
<1>3. CASE Writer
  BY <1>3, UpdateInsertCells, UpdateCells, DeleteStampCells, DeletePushCells,
     DeleteUnlinkCells DEF Writer
<1>4. CASE Collector
  BY <1>4, MinTimeCells, CheckGcValuesCells, CheckGcMapsCells DEF Collector
<1>5. CASE UNCHANGED vars
  <2>1. UNCHANGED <<cellVal, usedCells, freedCells, readMap, dirtyMap, deletedKeys,
                    deletedMaps, lockPc, lockVal>>
    BY <1>5 DEF vars, cellVars, mapVars, listVars, lockVars
  <2>2. UNCHANGED <<now, gen, readMap, deletedMaps, threadTime, rdVars, gcVars>>
    BY <1>5 DEF vars, mapVars, listVars
  <2> QED
    BY <2>1, <2>2, CellsPartFrame, SearchFrame DEF CellInv
<1> QED
  BY <1>1, <1>2, <1>3, <1>4, <1>5 DEF Next

LEMMA CellInvHolds == Spec => []CellInv
BY InitCellInv, NextCellInv, MapsInvHolds, PTL DEF Spec

(* MemoryLive for every instance: CheckGc and Delete free neither a map a  *)
(* lock-free reader searches nor a cell it is about to touch.              *)
THEOREM ReadersMemoryLive == Spec => []MemoryLive
<1>1. MapsInv /\ CellInv => MemoryLive
  <2> SUFFICES ASSUME MapsInv, CellInv, NEW r \in Readers
               PROVE  /\ rdPc[r] \in {"touch", "load"} => RdCell(r) \notin freedCells
                      /\ rdPc[r] = "find" =>
                           \/ rdGen[r] = gen
                           \/ \E i \in 1 .. Len(deletedMaps) : deletedMaps[i].gen = rdGen[r]
    BY DEF MemoryLive, NoFreedCellRead, NoFreedMapRead
  <2>1. rdPc[r] = "find" =>
          rdGen[r] = gen \/ \E i \in 1 .. Len(deletedMaps) : deletedMaps[i].gen = rdGen[r]
    BY DEF CellInv, SearchInv, Searching, HasMap
  <2>2. ASSUME rdPc[r] \in {"touch", "load"} PROVE RdCell(r) \notin freedCells
    <3> DEFINE k == rdKey[r]
    <3>1. k \in Keys /\ RdCell(r) \in Cells /\ RdCell(r) # NULL
      BY <2>2, ConstantsAssumption DEF MapsInv, ReaderInv
    <3>2. CASE rdMap[r] = readMap
      BY <3>1, <3>2 DEF CellInv, CellsPart, MapCellsInv, InUse, RdCell
    <3>3. ASSUME NEW i \in 1 .. Len(deletedMaps), deletedMaps[i].map = rdMap[r]
          PROVE  RdCell(r) \notin freedCells
      <4>1. \/ readMap[k] = RdCell(r)
            \/ \E j \in i .. Len(deletedMaps) : KeptBy(i, j, k)
        BY <3>1, <3>3 DEF CellInv, CellsPart, RetiredKept, RdCell
      <4>2. ASSUME NEW j \in i .. Len(deletedMaps), KeptBy(i, j, k)
            PROVE  RdCell(r) \notin freedCells
        <5>1. j \in 1 .. Len(deletedMaps) /\ k \in deletedMaps[j].dels
                /\ deletedMaps[j].map[k] = RdCell(r)
          BY <3>3, <4>2 DEF KeptBy, RdCell, MapsInv, TypeOK, ListTypes
        <5> QED
          BY <5>1 DEF CellInv, CellsPart, RetiredCellsInv, Abandoned, InUse
      <4> QED
        BY <3>1, <4>1, <4>2 DEF CellInv, CellsPart, MapCellsInv, InUse
    <3> QED
      BY <2>2, <3>2, <3>3 DEF CellInv, SearchInv, Searching, HasMap
  <2> QED
    BY <2>1, <2>2
<1> QED
  BY <1>1, MapsInvHolds, CellInvHolds, PTL

(* OneOwnerPerCell for every instance: no cell is deleted twice or lost.   *)
LEMMA CellsOwned == MapsInv /\ CellInv => OneOwnerPerCell
<1> SUFFICES ASSUME MapsInv, CellInv, lockPc = "free"
             PROVE  LET owned == DirtyCells \cup EmptiedCells
                                   \cup UNION {RetiredCells(i) : i \in 1 .. Len(deletedMaps)}
                    IN /\ usedCells = owned \cup freedCells
                       /\ owned \cap freedCells = {}
                       /\ DirtyCells \cap EmptiedCells = {}
                       /\ \A i \in 1 .. Len(deletedMaps) :
                            /\ RetiredCells(i) \cap (DirtyCells \cup EmptiedCells) = {}
                            /\ \A j \in 1 .. Len(deletedMaps) :
                                 i # j => RetiredCells(i) \cap RetiredCells(j) = {}
  BY DEF OneOwnerPerCell
<1> DEFINE Retired(c) ==
             \E i \in 1 .. Len(deletedMaps) : \E k \in deletedMaps[i].dels : deletedMaps[i].map[k] = c
           owned == DirtyCells \cup EmptiedCells
                      \cup UNION {RetiredCells(i) : i \in 1 .. Len(deletedMaps)}
<1>1. ~InDelete /\ \A k \in Keys : AgreeAt(k)
  BY DEF MapsInv, MapsPart, InDelete
<1>2. \A c : c \in DirtyCells <=> c # NULL /\ \E k \in Keys : dirtyMap[k] = c
  BY DEF DirtyCells, KeysOf
<1>3. /\ deletedKeys \subseteq Keys
      /\ \A k \in deletedKeys : readMap[k] # NULL /\ dirtyMap[k] = NULL
  BY <1>1 DEF AgreeAt, MapsInv, TypeOK, MapTypes
<1>4. \A c \in DirtyCells \cup EmptiedCells : InUse(c)
  BY <1>2, <1>3 DEF CellInv, CellsPart, MapCellsInv, EmptiedCells
<1>5. \A c : Retired(c) => Abandoned(c)
  BY DEF CellInv, CellsPart, RetiredCellsInv
<1>6. \A c : c \in owned <=> c \in DirtyCells \/ c \in EmptiedCells \/ Retired(c)
  BY DEF RetiredCells
<1>7. DirtyCells \cap EmptiedCells = {}
  <2>1. \A k \in Keys : \A l \in deletedKeys : readMap[l] # dirtyMap[k]
    BY <1>3 DEF MapsInv, MapsPart, CellsApart
  <2> QED
    BY <1>2, <2>1 DEF EmptiedCells
<1>8. usedCells = owned \cup freedCells
  <2>1. \A c \in usedCells : c # NULL
    BY ConstantsAssumption DEF MapsInv, TypeOK, CellTypes
  <2>2. \A c \in usedCells : c \in freedCells \/ c \in owned
    BY <1>1, <1>2, <1>6, <2>1 DEF CellInv, CellsPart, OwnersInv, HasOwner, EmptiedCells
  <2>3. \A c : c \in owned \/ c \in freedCells => c \in usedCells
    BY <1>4, <1>5, <1>6 DEF Abandoned, InUse, CellInv, CellsPart, MapCellsInv
  <2> HIDE DEF owned
  <2> QED
    BY <2>2, <2>3
<1>9. owned \cap freedCells = {}
  BY <1>4, <1>5, <1>6 DEF Abandoned, InUse
<1>10. ASSUME NEW i \in 1 .. Len(deletedMaps)
       PROVE  RetiredCells(i) \cap (DirtyCells \cup EmptiedCells) = {}
  <2>1. \A c \in RetiredCells(i) : Abandoned(c)
    BY <1>5, <1>10 DEF RetiredCells
  <2>2. \A c \in DirtyCells \cup EmptiedCells : ~Abandoned(c)
    BY <1>2, <1>3 DEF Abandoned, EmptiedCells
  <2> QED
    BY <2>1, <2>2
<1>11. ASSUME NEW i \in 1 .. Len(deletedMaps), NEW j \in 1 .. Len(deletedMaps), i # j
       PROVE  RetiredCells(i) \cap RetiredCells(j) = {}
  BY <1>11 DEF CellInv, CellsPart, RetiredCellsInv, RetiredCells
<1> QED
  BY <1>7, <1>8, <1>9, <1>10, <1>11

-----------------------------------------------------------------------------
(***************************************************************************)
(* Values                                                                  *)
(***************************************************************************)

(* Where the reference of the map is: with an entry of the dirty map, on   *)
(* the list of retired values, or with the lock holder on the way there.   *)
InDirty(v) == \E k \in Keys : dirtyMap[k] # NULL /\ cellVal[dirtyMap[k]] = v
Listed(v) == \E i \in 1 .. Len(deletedValues) : deletedValues[i].val = v
InHand(v) ==
  \/ lockPc = "upd_retire" /\ lockVal = v
  \/ lockPc = "del_push" /\ cellVal[lockVal] = v
Placed(v) == InDirty(v) \/ Listed(v) \/ InHand(v)

(* It is in one place only.                                                *)
PlacesInv ==
  /\ \A v \in Values : Placed(v) => v \in usedValues
  /\ \A v \in Values : ~(InDirty(v) /\ Listed(v)) /\ ~(InDirty(v) /\ InHand(v))
                       /\ ~(Listed(v) /\ InHand(v))
  /\ \A i, j \in 1 .. Len(deletedValues) :
       deletedValues[i].val = deletedValues[j].val => i = j
  /\ \A k, l \in Keys :
       dirtyMap[k] # NULL /\ dirtyMap[l] # NULL /\ cellVal[dirtyMap[k]] = cellVal[dirtyMap[l]] => k = l
  /\ \A i \in 1 .. Len(deletedValues) : deletedValues[i].val # NULL

Owners(v) == {r \in Readers : v \in rdOwn[r]}

RefsInv ==
  \A v \in Values : refs[v] = Cardinality(Owners(v)) + (IF Placed(v) THEN 1 ELSE 0)

(* Get takes its reference while its reader owns nothing.                  *)
OwnInv ==
  \A r \in Readers :
    /\ rdOwn[r] \subseteq usedValues
    /\ Searching(r) /\ rdOp[r] = "Get" => rdOwn[r] = {}
    /\ rdPc[r] = "ref" => rdOwn[r] = {}
    /\ rdVal[r] # NULL => rdPc[r] \in {"ref", "hold"} /\ rdVal[r] \in usedValues

(* How old a stamp may be: a reader stores a reading of the clock that is  *)
(* at most MaxStall old, and a Delete unlinks the value within MaxStall.   *)
StallInv ==
  /\ \A r \in Readers : rdPc[r] = "touch" => now <= rdTime[r] + MaxStall
  /\ InDelete => lockTime <= now /\ now <= lockTime + MaxStall
  /\ lockPc = "del_push" => lockTime <= cellUsed[lockVal] + MaxStall
  /\ lockPc = "del_unlink" =>
       \E i \in 1 .. Len(deletedValues) :
         /\ deletedValues[i].val = cellVal[lockVal]
         /\ lockTime <= deletedValues[i].time + MaxStall

(* A pointer handed out is in the map, in the hand of the lock holder, or  *)
(* on the list with a stamp that its reader's section outlives by no more  *)
(* than two stalls.                                                        *)
HasValue(r, i) ==
  /\ deletedValues[i].val = rdVal[r]
  /\ threadTime[r] <= deletedValues[i].time + 2 * MaxStall
  /\ gcPc = "scan" /\ r \notin gcTodo => gcMin <= deletedValues[i].time + 2 * MaxStall

HoldInv ==
  \A r \in Readers : rdVal[r] # NULL =>
    \/ InDirty(rdVal[r]) \/ InHand(rdVal[r])
    \/ \E i \in 1 .. Len(deletedValues) : HasValue(r, i)

ValueInv == PlacesInv /\ RefsInv /\ OwnInv /\ StallInv

-----------------------------------------------------------------------------
LEMMA InitValueInv == Init => ValueInv /\ HoldInv
<1> SUFFICES ASSUME Init PROVE ValueInv /\ HoldInv
  OBVIOUS
<1> USE DEF Init, EmptyMap
<1>1. \A v : ~Placed(v)
  BY DEF Placed, InDirty, Listed, InHand
<1>2. PlacesInv
  BY <1>1 DEF PlacesInv, Placed
<1>3. RefsInv
  <2>1. \A v : Owners(v) = {}
    BY DEF Owners
  <2> QED
    BY <1>1, <2>1, FS_EmptySet DEF RefsInv
<1>4. OwnInv /\ StallInv /\ HoldInv
  BY DEF OwnInv, Searching, StallInv, InDelete, HoldInv
<1> QED
  BY <1>2, <1>3, <1>4 DEF ValueInv

LEMMA OwnersFinite ==
  ASSUME NEW v
  PROVE  IsFiniteSet(Owners(v)) /\ Cardinality(Owners(v)) \in Nat
BY ConstantsAssumption, FS_Subset, FS_CardinalityType DEF Owners

(* Steps that move no value. *)
LEMMA PlacesFrame ==
  ASSUME UNCHANGED <<cellVal, dirtyMap, deletedValues, lockPc, lockVal>>
  PROVE  /\ \A v : Placed(v)' = Placed(v)
         /\ \A v : InDirty(v)' = InDirty(v)
         /\ \A v : InHand(v)' = InHand(v)
         /\ PlacesInv /\ usedValues \subseteq usedValues' => PlacesInv'
BY DEF Placed, InDirty, Listed, InHand, PlacesInv

(* Reference counts follow the places and the owners. *)
LEMMA RefsKept ==
  ASSUME RefsInv, UNCHANGED <<refs, rdOwn>>, \A v \in Values : Placed(v)' = Placed(v)
  PROVE  RefsInv'
BY DEF RefsInv, Owners

(* A value held by a reader stays where it is, or on the list. *)
LEMMA HoldKept ==
  ASSUME HoldInv, UNCHANGED <<deletedValues, gcVars>>,
         \A v : (InDirty(v) \/ InHand(v)) => (InDirty(v) \/ InHand(v))',
         \A q \in Readers : rdVal'[q] # NULL =>
           \/ rdVal'[q] = rdVal[q] /\ threadTime'[q] = threadTime[q]
           \/ \E v : v = rdVal'[q] /\ (InDirty(v) \/ InHand(v))
           \/ \E i \in 1 .. Len(deletedValues) : HasValue(q, i)'
  PROVE  HoldInv'
<1> SUFFICES ASSUME NEW q \in Readers, rdVal'[q] # NULL
             PROVE  \/ InDirty(rdVal[q])' \/ InHand(rdVal[q])'
                    \/ \E i \in 1 .. Len(deletedValues) : HasValue(q, i)'
  BY DEF HoldInv
<1>1. CASE rdVal'[q] = rdVal[q] /\ threadTime'[q] = threadTime[q]
  <2>1. CASE \E i \in 1 .. Len(deletedValues) : HasValue(q, i)
    BY <1>1, <2>1 DEF HasValue, gcVars
  <2>2. CASE InDirty(rdVal[q]) \/ InHand(rdVal[q])
    <3>1. PICK v : v = rdVal[q]
      OBVIOUS
    <3>2. (InDirty(v) \/ InHand(v))'
      BY <2>2, <3>1
    <3> QED
      BY <1>1, <3>1, <3>2 DEF InDirty, InHand
  <2> QED
    BY <1>1, <2>1, <2>2 DEF HoldInv
<1>2. ASSUME NEW v, v = rdVal'[q], InDirty(v) \/ InHand(v)
      PROVE  InDirty(rdVal[q])' \/ InHand(rdVal[q])'
  <2>1. (InDirty(v) \/ InHand(v))'
    BY <1>2
  <2> QED
    BY <1>2, <2>1 DEF InDirty, InHand
<1> QED
  BY <1>1, <1>2

LEMMA TickValues ==
  ASSUME MapsInv, CellInv, ValueInv, Tick
  PROVE  ValueInv' /\ (HoldInv => HoldInv')
<1>1. UNCHANGED <<cellVal, cellUsed, dirtyMap, deletedValues, lockPc, lockVal, lockTime,
                  usedValues, refs, threadTime, rdPc, rdOp, rdTime, rdVal, rdOwn, gcVars>>
  BY DEF Tick, cellVars, valVars, mapVars, listVars, lockVars, rdVars
<1>2. PlacesInv' /\ RefsInv' /\ (HoldInv => HoldInv')
  BY <1>1, PlacesFrame, RefsKept, HoldKept DEF ValueInv
<1>3. OwnInv'
  BY <1>1 DEF ValueInv, OwnInv, Searching
<1>4. StallInv'
  BY <1>1, ConstantsAssumption DEF ValueInv, StallInv, InDelete, Tick, MapsInv, TypeOK, CellTypes, LockTypes, ReaderTypes
<1> QED
  BY <1>2, <1>3, <1>4 DEF ValueInv

LEMMA SectionValues ==
  ASSUME MapsInv, CellInv, ValueInv, NEW r \in Readers,
         Section(r) \/ (\E k \in Keys, op \in {"Get", "GetWithRcuTime"} : LoadReadMap(r, k, op))
           \/ FindInReadMap(r) \/ FindNowhere(r)
  PROVE  ValueInv' /\ (HoldInv => HoldInv')
<1> USE DEF Section, RcuEnterClock, RcuEnterStore, RcuExit, LoadReadMap, FindInReadMap,
     FindNowhere, EndLookup
<1>1. UNCHANGED <<now, cellVal, cellUsed, dirtyMap, deletedValues, lockPc, lockVal, lockTime,
                  usedValues, refs, rdOwn, gcVars>>
  BY DEF cellVars, valVars, mapVars, listVars, lockVars
<1>2. \A q \in Readers : rdVal'[q] # NULL => rdVal'[q] = rdVal[q] /\ threadTime'[q] = threadTime[q]
  BY DEF MapsInv, TypeOK, ReaderTypes, ValueInv, OwnInv
<1>3. PlacesInv' /\ RefsInv' /\ (HoldInv => HoldInv')
  BY <1>1, <1>2, PlacesFrame, RefsKept, HoldKept DEF ValueInv
<1>4. OwnInv'
  BY <1>1 DEF MapsInv, TypeOK, ReaderTypes, ValueInv, OwnInv, Searching
<1>5. \A q \in Readers : rdPc'[q] = "touch" => now <= rdTime'[q] + MaxStall
  BY ConstantsAssumption DEF MapsInv, TypeOK, CellTypes, ReaderTypes, ValueInv, StallInv
<1>6. StallInv'
  BY <1>1, <1>5 DEF ValueInv, StallInv, InDelete
<1> QED
  BY <1>3, <1>4, <1>6 DEF ValueInv

(* A reader that lost time stores an old reading of the clock. *)
LEMMA TouchCellValues ==
  ASSUME MapsInv, CellInv, ValueInv, NEW r \in Readers, TouchCell(r)
  PROVE  ValueInv' /\ (HoldInv => HoldInv')
<1>1. UNCHANGED <<now, cellVal, dirtyMap, deletedValues, lockPc, lockVal, lockTime,
                  usedValues, refs, threadTime, rdTime, rdOp, rdVal, rdOwn, gcVars>>
  BY DEF TouchCell, valVars, mapVars, listVars, lockVars
<1>2. PlacesInv' /\ RefsInv' /\ (HoldInv => HoldInv')
  BY <1>1, PlacesFrame, RefsKept, HoldKept DEF ValueInv
<1>3. OwnInv'
  BY <1>1 DEF MapsInv, TypeOK, ReaderTypes, ValueInv, OwnInv, Searching, TouchCell
<1>4. lockPc = "del_push" => lockTime <= cellUsed'[lockVal] + MaxStall
  <2> SUFFICES ASSUME lockPc = "del_push" PROVE lockTime <= cellUsed'[lockVal] + MaxStall
    OBVIOUS
  <2>1. /\ lockTime <= cellUsed[lockVal] + MaxStall
        /\ lockTime <= now /\ now <= rdTime[r] + MaxStall
    BY DEF ValueInv, StallInv, InDelete, TouchCell
  <2>2. lockVal \in Cells /\ RdCell(r) \in Cells
    BY DEF MapsInv, MapsPart, LockInv, InDelete, ReaderInv, TouchCell
  <2>3. cellUsed'[lockVal] = IF lockVal = RdCell(r) THEN rdTime[r] ELSE cellUsed[lockVal]
    BY <2>2 DEF TouchCell, MapsInv, TypeOK, CellTypes
  <2> QED
    BY <2>1, <2>2, <2>3, ConstantsAssumption DEF MapsInv, TypeOK, CellTypes, LockTypes, ReaderTypes
<1>5. StallInv'
  BY <1>1, <1>4 DEF MapsInv, TypeOK, ReaderTypes, ValueInv, StallInv, InDelete, TouchCell
<1> QED
  BY <1>2, <1>3, <1>5 DEF ValueInv

(* What a lock-free reader finds in its cell is in the map, or is being    *)
(* deleted.                                                                *)
LEMMA LoadedValue ==
  ASSUME MapsInv, CellInv, NEW r \in Readers, rdPc[r] \in {"touch", "load"},
         NEW v, v = cellVal[RdCell(r)], v # NULL
  PROVE  InDirty(v) \/ InHand(v) \/ (lockPc = "del_unlink" /\ v = cellVal[lockVal])
<1>1. PICK k \in Keys : k = rdKey[r]
  BY DEF MapsInv, ReaderInv
<1>2. RdCell(r) \in Cells /\ RdCell(r) # NULL /\ RdCell(r) = rdMap[r][k]
  BY <1>1, ConstantsAssumption DEF MapsInv, ReaderInv, RdCell
<1>3. readMap[k] = RdCell(r)
  <2>1. CASE rdMap[r] = readMap
    BY <1>2, <2>1
  <2>2. ASSUME NEW i \in 1 .. Len(deletedMaps), deletedMaps[i].map = rdMap[r],
               readMap[k] # RdCell(r)
        PROVE  FALSE
    <3>1. PICK j \in i .. Len(deletedMaps) : KeptBy(i, j, k)
      BY <1>2, <2>2 DEF CellInv, CellsPart, RetiredKept
    <3>2. /\ j \in 1 .. Len(deletedMaps) /\ k \in deletedMaps[j].dels
          /\ deletedMaps[j].map[k] = RdCell(r)
      BY <1>2, <2>2, <3>1 DEF KeptBy, MapsInv, TypeOK, ListTypes
    <3> QED
      BY <3>2 DEF CellInv, CellsPart, RetiredCellsInv, Abandoned
  <2> QED
    BY <2>1, <2>2 DEF CellInv, SearchInv, Searching, HasMap
<1>4. CASE InDelete /\ k = lockKey
  BY <1>2, <1>3, <1>4 DEF MapsInv, MapsPart, LockInv, InDelete, InHand
<1>5. CASE AgreeAt(k)
  BY <1>2, <1>3, <1>5 DEF AgreeAt, InDirty
<1> QED
  BY <1>4, <1>5 DEF MapsInv, MapsPart

LEMMA LoadValueValues ==
  ASSUME MapsInv, CellInv, ValueInv, NEW r \in Readers, LoadValue(r)
  PROVE  ValueInv' /\ (HoldInv => HoldInv')
<1>1. UNCHANGED <<now, cellVal, cellUsed, dirtyMap, deletedValues, lockPc, lockVal, lockTime,
                  usedValues, refs, threadTime, rdOwn, gcVars>>
  BY DEF LoadValue, cellVars, valVars, mapVars, listVars, lockVars
<1>2. PlacesInv' /\ RefsInv'
  BY <1>1, PlacesFrame, RefsKept DEF ValueInv
<1>3. PICK v \in Values \cup {NULL} : v = cellVal[RdCell(r)]
  BY DEF MapsInv, TypeOK, CellTypes, ReaderInv, LoadValue
<1>4. v # NULL => v \in usedValues
  <2>1. v # NULL => InDirty(v) \/ InHand(v) \/ (lockPc = "del_unlink" /\ v = cellVal[lockVal])
    BY <1>3, LoadedValue DEF LoadValue
  <2>2. v # NULL => Placed(v)
    BY <2>1 DEF Placed, Listed, ValueInv, StallInv
  <2> QED
    BY <2>2 DEF ValueInv, PlacesInv
<1>5. OwnInv' /\ StallInv'
  <2>1. OwnInv'
    BY <1>1, <1>3, <1>4 DEF MapsInv, TypeOK, ReaderTypes, ValueInv, OwnInv, Searching, LoadValue,
       EndLookup
  <2>2. StallInv'
    BY <1>1 DEF MapsInv, TypeOK, ReaderTypes, ValueInv, StallInv, InDelete, LoadValue, EndLookup
  <2> QED
    BY <2>1, <2>2
<1>6. /\ rdVal'[r] = v /\ \A q \in Readers \ {r} : rdVal'[q] = rdVal[q]
  BY <1>3 DEF MapsInv, TypeOK, ReaderTypes, LoadValue, EndLookup
<1>7. ASSUME v # NULL, lockPc = "del_unlink", v = cellVal[lockVal]
      PROVE  \E i \in 1 .. Len(deletedValues) : HasValue(r, i)'
  <2>1. PICK i \in 1 .. Len(deletedValues) :
          deletedValues[i].val = v /\ lockTime <= deletedValues[i].time + MaxStall
    BY <1>7 DEF ValueInv, StallInv
  <2>2. threadTime[r] <= now /\ now <= lockTime + MaxStall /\ (gcPc = "scan" => gcMin <= now)
    BY <1>7 DEF CellInv, ClockInv, InSection, LoadValue, ValueInv, StallInv, InDelete
  <2>3. deletedValues[i].time \in Nat
    <3>1. deletedValues[i] \in RetiredValue
      BY DEF MapsInv, TypeOK, ListTypes
    <3> QED
      BY <3>1 DEF RetiredValue
  <2>4. HasValue(r, i)'
    BY <1>1, <1>6, <2>1, <2>2, <2>3, ConstantsAssumption
       DEF HasValue, gcVars, MapsInv, TypeOK, CellTypes, LockTypes, ReaderTypes, CollectorTypes
  <2> QED
    BY <2>4
<1>8. v # NULL => InDirty(v) \/ InHand(v) \/ (lockPc = "del_unlink" /\ v = cellVal[lockVal])
  BY <1>3, LoadedValue DEF LoadValue
<1>9. HoldInv => HoldInv'
  BY <1>1, <1>6, <1>7, <1>8, PlacesFrame, HoldKept DEF ValueInv
<1> QED
  BY <1>2, <1>5, <1>9 DEF ValueInv

LEMMA FoundValues ==
  ASSUME MapsInv, CellInv, ValueInv, NEW r \in Readers,
         FindInDirtyMap(r) \/ \E k \in Keys : CreateOrGetFound(r, k)
  PROVE  ValueInv' /\ (HoldInv => HoldInv')
<1> USE DEF FindInDirtyMap, CreateOrGetFound
<1>1. /\ UNCHANGED <<now, cellVal, dirtyMap, deletedValues, lockPc, lockVal, lockTime,
                     usedValues, refs, threadTime, rdOwn, gcVars>>
      /\ lockPc = "free"
  BY DEF valVars, mapVars, listVars, lockVars
<1>2. PlacesInv' /\ RefsInv'
  BY <1>1, PlacesFrame, RefsKept DEF ValueInv
<1>3. PICK k \in Keys :
        /\ dirtyMap[k] # NULL /\ rdVal'[r] = cellVal[dirtyMap[k]]
        /\ rdPc'[r] = "hold" \/ (rdPc'[r] = "ref" /\ rdOp[r] = "Get" /\ rdPc[r] = "find")
  BY DEF MapsInv, TypeOK, ReaderTypes, ReaderInv, EndLookup
<1>4. \A q \in Readers \ {r} :
        /\ rdPc'[q] = rdPc[q] /\ rdOp'[q] = rdOp[q] /\ rdTime'[q] = rdTime[q]
        /\ rdVal'[q] = rdVal[q]
  BY DEF MapsInv, TypeOK, ReaderTypes, EndLookup
<1>5. PICK v : v = cellVal[dirtyMap[k]] /\ InDirty(v) /\ v \in usedValues
  <2>1. dirtyMap[k] \in Cells /\ cellVal[dirtyMap[k]] \in Values
    BY <1>1, <1>3 DEF MapsInv, TypeOK, CellTypes, MapTypes, InnerMap, MapsPart, AgreeAt, InDelete
  <2>2. InDirty(cellVal[dirtyMap[k]])
    BY <1>3 DEF InDirty
  <2> QED
    BY <2>1, <2>2 DEF ValueInv, PlacesInv, Placed
<1> HIDE DEF FindInDirtyMap, CreateOrGetFound
<1>6. OwnInv'
  BY <1>1, <1>3, <1>4, <1>5 DEF ValueInv, OwnInv, Searching
<1>7. StallInv'
  BY <1>1, <1>3, <1>4 DEF ValueInv, StallInv, InDelete
<1>8. HoldInv => HoldInv'
  <2>1. \A q \in Readers : rdVal'[q] # NULL =>
           \/ rdVal'[q] = rdVal[q] /\ threadTime'[q] = threadTime[q]
           \/ \E w : w = rdVal'[q] /\ (InDirty(w) \/ InHand(w))
    BY <1>1, <1>3, <1>4, <1>5
  <2> QED
    BY <1>1, <2>1, PlacesFrame, HoldKept
<1> QED
  BY <1>2, <1>6, <1>7, <1>8 DEF ValueInv

(* References that readers take and give back. *)
LEMMA RefsValues ==
  ASSUME MapsInv, CellInv, ValueInv, NEW r \in Readers,
         \/ IncrementRef(r)
         \/ \E v \in Values : DecrementRef(r, v)
         \/ GetAllValuesWithRef(r)
  PROVE  ValueInv' /\ (HoldInv => HoldInv')
<1>1. UNCHANGED <<now, cellVal, cellUsed, dirtyMap, deletedValues, lockPc, lockVal, lockTime,
                  usedValues, threadTime, rdTime, rdOp, gcVars>>
  BY DEF IncrementRef, DecrementRef, GetAllValuesWithRef, cellVars, mapVars, listVars, lockVars
<1>2. \A q \in Readers : rdVal'[q] # NULL => rdVal'[q] = rdVal[q]
  BY DEF IncrementRef, DecrementRef, GetAllValuesWithRef, MapsInv, TypeOK, ReaderTypes
<1>3. PlacesInv' /\ (HoldInv => HoldInv')
  BY <1>1, <1>2, PlacesFrame, HoldKept DEF ValueInv
<1>4. StallInv'
  BY <1>1 DEF IncrementRef, DecrementRef, GetAllValuesWithRef, MapsInv, TypeOK, ReaderTypes,
     ValueInv, StallInv, InDelete
<1>5. ASSUME IncrementRef(r) PROVE OwnInv' /\ RefsInv'
  <2>1. PICK v \in Values : v = rdVal[r]
    BY <1>5 DEF IncrementRef, MapsInv, ReaderInv
  <2>2. rdOwn[r] = {} /\ v # NULL
    BY <1>5, ConstantsAssumption DEF IncrementRef, ValueInv, OwnInv
  <2>3. v \in usedValues
    BY <2>1, <2>2 DEF ValueInv, OwnInv
  <2>4. OwnInv'
    BY <1>1, <1>5, <2>1, <2>2, <2>3 DEF IncrementRef, MapsInv, TypeOK, ReaderTypes, ValueInv,
       OwnInv, Searching
  <2>5. Owners(v)' = Owners(v) \cup {r} /\ r \notin Owners(v)
    BY <1>5, <2>1, <2>2 DEF Owners, IncrementRef, MapsInv, TypeOK, ReaderTypes
  <2>6. \A w \in Values \ {v} : Owners(w)' = Owners(w)
    BY <1>5, <2>1 DEF Owners, IncrementRef, MapsInv, TypeOK, ReaderTypes
  <2>7. Cardinality(Owners(v)') = Cardinality(Owners(v)) + 1
    BY <2>5, OwnersFinite, FS_AddElement
  <2>8. \A w \in Values : refs'[w] = IF w = v THEN refs[w] + 1 ELSE refs[w]
    BY <1>5, <2>1 DEF IncrementRef, MapsInv, TypeOK, CellTypes
  <2>9. RefsInv'
    BY <1>1, <2>6, <2>7, <2>8, PlacesFrame, OwnersFinite DEF ValueInv, RefsInv
  <2> QED
    BY <2>4, <2>9
<1>6. ASSUME NEW v \in Values, DecrementRef(r, v) PROVE OwnInv' /\ RefsInv'
  <2>1. OwnInv'
    BY <1>1, <1>6 DEF DecrementRef, MapsInv, TypeOK, ReaderTypes, ValueInv, OwnInv, Searching
  <2>2. Owners(v)' = Owners(v) \ {r} /\ r \in Owners(v)
    BY <1>6 DEF Owners, DecrementRef, MapsInv, TypeOK, ReaderTypes
  <2>3. \A w \in Values \ {v} : Owners(w)' = Owners(w)
    BY <1>6 DEF Owners, DecrementRef, MapsInv, TypeOK, ReaderTypes
  <2>4. Cardinality(Owners(v)') = Cardinality(Owners(v)) - 1
    BY <2>2, OwnersFinite, FS_RemoveElement
  <2>5. \A w \in Values : refs'[w] = IF w = v THEN refs[w] - 1 ELSE refs[w]
    BY <1>6 DEF DecrementRef, MapsInv, TypeOK, CellTypes
  <2>6. RefsInv'
    BY <1>1, <2>3, <2>4, <2>5, PlacesFrame, OwnersFinite DEF ValueInv, RefsInv
  <2> QED
    BY <2>1, <2>6
<1>7. ASSUME GetAllValuesWithRef(r) PROVE OwnInv' /\ RefsInv'
  <2> DEFINE all == {cellVal[dirtyMap[k]] : k \in KeysOf(dirtyMap)}
  <2>1. /\ rdOwn[r] = {} /\ rdOwn' = [rdOwn EXCEPT ![r] = all]
        /\ refs' = [v \in Values |-> IF v \in all THEN refs[v] + 1 ELSE refs[v]]
        /\ UNCHANGED <<rdPc, rdVal>> /\ rdPc[r] = "out"
    BY <1>7 DEF GetAllValuesWithRef
  <2>2. all \subseteq usedValues
    <3>1. \A k \in KeysOf(dirtyMap) : InDirty(cellVal[dirtyMap[k]]) /\ cellVal[dirtyMap[k]] \in Values
      BY <1>7 DEF InDirty, KeysOf, GetAllValuesWithRef, MapsInv, TypeOK, MapTypes, CellTypes, InnerMap,
         MapsPart, AgreeAt, InDelete
    <3> QED
      BY <3>1 DEF ValueInv, PlacesInv, Placed
  <2> HIDE DEF all
  <2>3. OwnInv'
    BY <1>1, <2>1, <2>2 DEF MapsInv, TypeOK, ReaderTypes, ValueInv, OwnInv, Searching
  <2>4. \A v \in Values : v \in all => Owners(v)' = Owners(v) \cup {r} /\ r \notin Owners(v)
    BY <2>1 DEF Owners, MapsInv, TypeOK, ReaderTypes
  <2>5. \A v \in Values : v \notin all => Owners(v)' = Owners(v)
    BY <2>1 DEF Owners, MapsInv, TypeOK, ReaderTypes
  <2>6. \A v \in Values : v \in all => Cardinality(Owners(v)') = Cardinality(Owners(v)) + 1
    BY <2>4, OwnersFinite, FS_AddElement
  <2>7. RefsInv'
    BY <1>1, <2>1, <2>5, <2>6, PlacesFrame, OwnersFinite DEF ValueInv, RefsInv
  <2> QED
    BY <2>3, <2>7
<1> QED
  BY <1>3, <1>4, <1>5, <1>6, <1>7 DEF ValueInv

LEMMA IndexAfter ==
  ASSUME NEW len \in Nat, NEW n \in 0 .. len, NEW i \in 1 .. len, i > n
  PROVE  \E j \in 1 .. len - n : i = n + j
<1>1. i - n \in 1 .. len - n /\ i = n + (i - n)
  OBVIOUS
<1> QED
  BY <1>1

LEMMA ListedTypes ==
  ASSUME MapsInv, NEW i \in 1 .. Len(deletedValues)
  PROVE  deletedValues[i].time \in Nat
<1>1. deletedValues[i] \in RetiredValue
  BY DEF MapsInv, TypeOK, ListTypes
<1> QED
  BY <1>1 DEF RetiredValue

(* The entries of the dirty map hold values. *)
LEMMA DirtyValues ==
  ASSUME MapsInv, lockPc = "free", NEW k \in Keys, dirtyMap[k] # NULL
  PROVE  dirtyMap[k] \in Cells /\ cellVal[dirtyMap[k]] \in Values
BY DEF MapsInv, TypeOK, CellTypes, MapTypes, InnerMap, MapsPart, AgreeAt, InDelete

(* A new value: nobody has it yet, and nothing else moves. *)
LEMMA NewValue ==
  ASSUME MapsInv, ValueInv, NEW v \in Values, v \notin usedValues,
         usedValues' = usedValues \cup {v}, refs' = [refs EXCEPT ![v] = 1],
         UNCHANGED <<deletedValues, rdOwn>>,
         \A x : Placed(x)' <=> Placed(x) \/ x = v
  PROVE  /\ \A x : Placed(x) /\ x \in Values => x # v
         /\ \A x \in Values : Placed(x)' => x \in usedValues'
         /\ RefsInv'
<1>1. ~Placed(v)
  BY DEF ValueInv, PlacesInv
<1>2. \A x \in Values : Placed(x)' => x \in usedValues'
  BY DEF ValueInv, PlacesInv
<1>3. Owners(v) = {} /\ \A x : Owners(x)' = Owners(x)
  BY DEF Owners, ValueInv, OwnInv
<1>4. \A x \in Values : refs'[x] = IF x = v THEN 1 ELSE refs[x]
  BY DEF MapsInv, TypeOK, CellTypes
<1>5. RefsInv'
  BY <1>1, <1>3, <1>4, FS_EmptySet DEF ValueInv, RefsInv
<1> QED
  BY <1>1, <1>2, <1>5

(* An insertion puts it into a cell that no entry of the dirty map has.    *)
LEMMA InsertValues ==
  ASSUME MapsInv, CellInv, ValueInv, lockPc = "free", NEW k \in Keys, NEW v \in Values,
         v \notin usedValues, InsertInLock(k, v),
         UNCHANGED <<deletedValues, lockVars, rdOwn>>
  PROVE  /\ PlacesInv' /\ RefsInv' /\ InDirty(v)'
         /\ \A x : (InDirty(x) \/ InHand(x)) => (InDirty(x) \/ InHand(x))'
<1>1. PICK c \in Cells :
        /\ IF readMap[k] # NULL THEN c = readMap[k] ELSE c \notin usedCells
        /\ cellVal' = [cellVal EXCEPT ![c] = v]
        /\ dirtyMap' = [dirtyMap EXCEPT ![k] = c]
  BY DEF InsertInLock
<1>2. /\ dirtyMap[k] = NULL /\ c # NULL
      /\ dirtyMap'[k] = c /\ \A l \in Keys \ {k} : dirtyMap'[l] = dirtyMap[l]
      /\ cellVal'[c] = v /\ \A d \in Cells \ {c} : cellVal'[d] = cellVal[d]
  BY <1>1, ConstantsAssumption DEF InsertInLock, MapsInv, TypeOK, MapTypes, InnerMap, CellTypes
<1>3. \A l \in Keys : dirtyMap[l] # NULL => dirtyMap[l] \in Cells \ {c} /\ l # k
  BY <1>1, <1>2 DEF MapsInv, TypeOK, MapTypes, InnerMap, MapsPart, CellsApart
<1>4. \A l \in Keys : dirtyMap[l] # NULL => cellVal[dirtyMap[l]] # v
  <2>1. ~InDirty(v)
    BY DEF ValueInv, PlacesInv, Placed
  <2> QED
    BY <2>1 DEF InDirty
<1>5. \A l \in Keys : dirtyMap'[l] # NULL =>
        \/ l = k /\ cellVal'[dirtyMap'[l]] = v
        \/ l # k /\ dirtyMap[l] # NULL /\ cellVal'[dirtyMap'[l]] = cellVal[dirtyMap[l]]
  BY <1>2, <1>3
<1>6. \A x : InDirty(x)' <=> InDirty(x) \/ x = v
  BY <1>2, <1>3, <1>5 DEF InDirty
<1>7. \A x : Listed(x)' = Listed(x) /\ ~InHand(x)' /\ ~InHand(x)
  BY DEF Listed, InHand, lockVars
<1>8. \A x : Placed(x)' <=> Placed(x) \/ x = v
  BY <1>6, <1>7 DEF Placed
<1>9. usedValues' = usedValues \cup {v} /\ refs' = [refs EXCEPT ![v] = 1]
  BY DEF InsertInLock
<1>10. RefsInv' /\ \A x \in Values : Placed(x)' => x \in usedValues'
  BY <1>8, <1>9, NewValue
<1>11. \A l, m \in Keys : dirtyMap'[l] # NULL /\ dirtyMap'[m] # NULL
          /\ cellVal'[dirtyMap'[l]] = cellVal'[dirtyMap'[m]] => l = m
  BY <1>4, <1>5 DEF ValueInv, PlacesInv
<1>12. ~Listed(v)
  BY DEF ValueInv, PlacesInv, Placed
<1>13. PlacesInv'
  BY <1>6, <1>7, <1>10, <1>11, <1>12 DEF ValueInv, PlacesInv
<1> QED
  BY <1>6, <1>7, <1>10, <1>13

LEMMA UpdateInsertValues ==
  ASSUME MapsInv, CellInv, ValueInv, NEW k \in Keys, NEW v \in Values, UpdateInsert(k, v)
  PROVE  ValueInv' /\ (HoldInv => HoldInv')
<1>1. UNCHANGED <<now, deletedValues, lockPc, lockVal, lockTime, threadTime, rdPc, rdOp, rdTime,
                  rdVal, rdOwn, gcVars>> /\ lockPc = "free" /\ usedValues \subseteq usedValues'
  BY DEF UpdateInsert, InsertInLock, listVars, lockVars, rdVars
<1>2. /\ PlacesInv' /\ RefsInv'
      /\ \A x : (InDirty(x) \/ InHand(x)) => (InDirty(x) \/ InHand(x))'
  BY <1>1, InsertValues DEF UpdateInsert
<1>3. OwnInv' /\ StallInv'
  BY <1>1 DEF ValueInv, OwnInv, StallInv, InDelete, Searching
<1>4. HoldInv => HoldInv'
  BY <1>1, <1>2, HoldKept
<1> QED
  BY <1>2, <1>3, <1>4 DEF ValueInv

LEMMA CreateOrGetNewValues ==
  ASSUME MapsInv, CellInv, ValueInv, NEW r \in Readers, NEW k \in Keys, NEW v \in Values,
         CreateOrGetNew(r, k, v)
  PROVE  ValueInv' /\ (HoldInv => HoldInv')
<1>1. UNCHANGED <<now, deletedValues, lockPc, lockVal, lockTime, threadTime, rdOwn, gcVars>>
        /\ lockPc = "free" /\ usedValues' = usedValues \cup {v}
  BY DEF CreateOrGetNew, InsertInLock, listVars, lockVars
<1>2. /\ rdPc'[r] = "hold" /\ rdVal'[r] = v
      /\ \A q \in Readers \ {r} :
           /\ rdPc'[q] = rdPc[q] /\ rdOp'[q] = rdOp[q] /\ rdTime'[q] = rdTime[q]
           /\ rdVal'[q] = rdVal[q]
  BY DEF CreateOrGetNew, EndLookup, MapsInv, TypeOK, ReaderTypes
<1>3. /\ PlacesInv' /\ RefsInv' /\ InDirty(v)'
      /\ \A x : (InDirty(x) \/ InHand(x)) => (InDirty(x) \/ InHand(x))'
  BY <1>1, InsertValues DEF CreateOrGetNew
<1>4. OwnInv' /\ StallInv'
  BY <1>1, <1>2 DEF ValueInv, OwnInv, StallInv, InDelete, Searching
<1>5. ASSUME HoldInv PROVE HoldInv'
  <2> SUFFICES ASSUME NEW q \in Readers, rdVal'[q] # NULL
               PROVE  \/ InDirty(rdVal[q])' \/ InHand(rdVal[q])'
                      \/ \E i \in 1 .. Len(deletedValues) : HasValue(q, i)'
    BY <1>1 DEF HoldInv
  <2>1. CASE q = r
    BY <1>2, <1>3, <2>1 DEF InDirty
  <2>2. CASE q # r
    <3>1. PICK x : x = rdVal[q] /\ x = rdVal'[q]
      BY <1>2, <2>2
    <3>2. CASE InDirty(x) \/ InHand(x)
      <4>1. (InDirty(x) \/ InHand(x))'
        BY <1>3, <3>2
      <4> QED
        BY <3>1, <4>1 DEF InDirty, InHand
    <3>3. CASE \E i \in 1 .. Len(deletedValues) : HasValue(q, i)
      BY <1>1, <3>1, <3>3 DEF HasValue, gcVars
    <3> QED
      BY <1>5, <3>1, <3>2, <3>3 DEF HoldInv
  <2> QED
    BY <2>1, <2>2
<1> QED
  BY <1>3, <1>4, <1>5 DEF ValueInv

(* Update publishes the new value and holds the old one in its hand ...    *)
LEMMA UpdateStoreValues ==
  ASSUME MapsInv, CellInv, ValueInv, NEW k \in Keys, NEW v \in Values, UpdateStore(k, v)
  PROVE  ValueInv' /\ (HoldInv => HoldInv')
<1>1. /\ UNCHANGED <<now, dirtyMap, deletedValues, threadTime, rdPc, rdOp, rdTime, rdVal, rdOwn,
                     gcVars>>
      /\ lockPc = "free" /\ lockPc' = "upd_retire" /\ lockVal' = cellVal[dirtyMap[k]]
      /\ v \notin usedValues /\ usedValues' = usedValues \cup {v}
      /\ refs' = [refs EXCEPT ![v] = 1] /\ dirtyMap[k] # NULL
      /\ cellVal' = [cellVal EXCEPT ![dirtyMap[k]] = v]
  BY DEF UpdateStore, mapVars, listVars, rdVars
<1>2. PICK w \in Values : w = cellVal[dirtyMap[k]]
  BY <1>1, DirtyValues
<1>3. InDirty(w) /\ ~InDirty(v) /\ ~Listed(v) /\ ~Listed(w) /\ w # v
  <2>1. InDirty(w)
    BY <1>1, <1>2 DEF InDirty
  <2>2. ~Placed(v)
    BY <1>1 DEF ValueInv, PlacesInv
  <2> QED
    BY <2>1, <2>2 DEF Placed, ValueInv, PlacesInv
<1>4. \A l \in Keys : dirtyMap[l] # NULL => dirtyMap[l] \in Cells
  BY <1>1, DirtyValues
<1>5. \A l \in Keys \ {k} : dirtyMap[l] # NULL =>
         cellVal'[dirtyMap[l]] = cellVal[dirtyMap[l]] /\ cellVal[dirtyMap[l]] # w
         /\ cellVal[dirtyMap[l]] # v
  <2> SUFFICES ASSUME NEW l \in Keys \ {k}, dirtyMap[l] # NULL
               PROVE  cellVal'[dirtyMap[l]] = cellVal[dirtyMap[l]] /\ cellVal[dirtyMap[l]] # w
                      /\ cellVal[dirtyMap[l]] # v
    OBVIOUS
  <2>1. dirtyMap[l] # dirtyMap[k] /\ dirtyMap[l] \in Cells
    BY <1>4 DEF MapsInv, MapsPart, CellsApart
  <2>2. cellVal[dirtyMap[l]] # w
    BY <1>1, <1>2 DEF ValueInv, PlacesInv
  <2>3. cellVal[dirtyMap[l]] # v
    BY <1>3 DEF InDirty
  <2> QED
    BY <1>1, <2>1, <2>2, <2>3 DEF MapsInv, TypeOK, CellTypes
<1>6. cellVal'[dirtyMap[k]] = v
  BY <1>1, <1>4 DEF MapsInv, TypeOK, CellTypes
<1>7. \A x : InDirty(x)' <=> (InDirty(x) /\ x # w) \/ x = v
  BY <1>1, <1>2, <1>5, <1>6 DEF InDirty
<1>8. \A x : /\ Listed(x)' = Listed(x) /\ ~InHand(x)
             /\ InHand(x)' <=> x = w
  BY <1>1, <1>2 DEF Listed, InHand
<1>9. \A x : Placed(x)' <=> Placed(x) \/ x = v
  BY <1>3, <1>7, <1>8 DEF Placed
<1>10. RefsInv' /\ \A x \in Values : Placed(x)' => x \in usedValues'
  BY <1>1, <1>9, NewValue
<1>11. \A l, m \in Keys : dirtyMap'[l] # NULL /\ dirtyMap'[m] # NULL
          /\ cellVal'[dirtyMap'[l]] = cellVal'[dirtyMap'[m]] => l = m
  BY <1>1, <1>5, <1>6 DEF ValueInv, PlacesInv
<1>12. PlacesInv'
  BY <1>1, <1>3, <1>7, <1>8, <1>10, <1>11 DEF ValueInv, PlacesInv
<1>13. OwnInv' /\ StallInv'
  BY <1>1 DEF ValueInv, OwnInv, StallInv, InDelete, Searching
<1>14. HoldInv => HoldInv'
  <2>1. \A x : (InDirty(x) \/ InHand(x)) => (InDirty(x) \/ InHand(x))'
    BY <1>7, <1>8
  <2> QED
    BY <1>1, <2>1, HoldKept
<1> QED
  BY <1>10, <1>12, <1>13, <1>14 DEF ValueInv

(* A value goes from the hand of the lock holder to the list, with a stamp *)
(* that is at most two stalls old: who holds the pointer is in a section   *)
(* that began before now.                                                  *)
LEMMA RetireValue ==
  ASSUME MapsInv, CellInv, ValueInv, NEW v \in Values, NEW u \in Nat, InHand(v),
         now <= u + 2 * MaxStall, lockPc \in {"upd_retire", "del_push"},
         deletedValues' = Append(deletedValues, [val |-> v, time |-> u]),
         lockPc' \in {"free", "del_unlink"},
         UNCHANGED <<now, cellVal, dirtyMap, usedValues, refs, threadTime, rdPc, rdVal, rdOwn,
                     gcVars>>
  PROVE  PlacesInv' /\ RefsInv' /\ (HoldInv => HoldInv')
<1>1. PICK n \in Nat : n = Len(deletedValues)
  BY DEF MapsInv, TypeOK, ListTypes
<1>2. /\ Len(deletedValues') = n + 1
      /\ deletedValues'[n + 1].val = v /\ deletedValues'[n + 1].time = u
      /\ \A i \in 1 .. n : deletedValues'[i] = deletedValues[i]
  BY <1>1 DEF MapsInv, TypeOK, ListTypes
<1>3. \A x : /\ InDirty(x)' = InDirty(x)
             /\ Listed(x)' <=> Listed(x) \/ x = v
             /\ InHand(x) <=> x = v
             /\ ~InHand(x)'
  <2>1. \A x : InDirty(x)' = InDirty(x)
    BY DEF InDirty
  <2>2. \A x : Listed(x)' <=> Listed(x) \/ x = v
    BY <1>1, <1>2 DEF Listed
  <2>3. \A x : (InHand(x) <=> x = v) /\ ~InHand(x)'
    BY DEF InHand
  <2> QED
    BY <2>1, <2>2, <2>3
<1>4. \A x : Placed(x)' = Placed(x)
  BY <1>3 DEF Placed
<1>5. RefsInv'
  BY <1>4, RefsKept DEF ValueInv
<1>6. v # NULL /\ ~Listed(v) /\ ~InDirty(v)
  BY ConstantsAssumption DEF ValueInv, PlacesInv
<1>7. \A i, j \in 1 .. n + 1 : deletedValues'[i].val = deletedValues'[j].val => i = j
  <2>1. \A i \in 1 .. n : deletedValues[i].val # v
    BY <1>1, <1>6 DEF Listed
  <2>2. \A i, j \in 1 .. n : deletedValues[i].val = deletedValues[j].val => i = j
    BY <1>1 DEF ValueInv, PlacesInv
  <2> QED
    BY <1>2, <2>1, <2>2
<1>8. \A i \in 1 .. n + 1 : deletedValues'[i].val # NULL
  BY <1>1, <1>2, <1>6 DEF ValueInv, PlacesInv
<1>9. \A k, l \in Keys : dirtyMap'[k] # NULL /\ dirtyMap'[l] # NULL
         /\ cellVal'[dirtyMap'[k]] = cellVal'[dirtyMap'[l]] => k = l
  BY DEF ValueInv, PlacesInv
<1>10. \A x \in Values : /\ Placed(x)' => x \in usedValues'
                         /\ ~(InDirty(x)' /\ Listed(x)') /\ ~(InDirty(x)' /\ InHand(x)')
                         /\ ~(Listed(x)' /\ InHand(x)')
  BY <1>3, <1>4, <1>6 DEF ValueInv, PlacesInv
<1>11. PlacesInv'
  BY <1>2, <1>7, <1>8, <1>9, <1>10 DEF PlacesInv
<1>12. ASSUME HoldInv PROVE HoldInv'
  <2> SUFFICES ASSUME NEW q \in Readers, rdVal'[q] # NULL
               PROVE  InDirty(rdVal[q])' \/ \E i \in 1 .. n + 1 : HasValue(q, i)'
    BY <1>2 DEF HoldInv
  <2>1. CASE InDirty(rdVal[q])
    BY <2>1 DEF InDirty
  <2>2. CASE InHand(rdVal[q])
    <3>1. rdVal'[q] = v
      BY <1>3, <2>2
    <3>2. threadTime[q] <= now /\ (gcPc = "scan" => gcMin <= now)
      BY DEF ValueInv, OwnInv, CellInv, ClockInv, InSection
    <3>3. HasValue(q, n + 1)'
      BY <1>2, <3>1, <3>2, ConstantsAssumption DEF HasValue, gcVars, MapsInv, TypeOK, CellTypes, ReaderTypes,
         CollectorTypes
    <3> QED
      BY <3>3
  <2>3. CASE \E i \in 1 .. n : HasValue(q, i)
    BY <1>2, <2>3 DEF HasValue, gcVars
  <2> QED
    BY <1>1, <1>12, <2>1, <2>2, <2>3 DEF HoldInv
<1> QED
  BY <1>5, <1>11, <1>12

(* ... and retires it with the time of the retirement.                     *)
LEMMA UpdateRetireValues ==
  ASSUME MapsInv, CellInv, ValueInv, UpdateRetire
  PROVE  ValueInv' /\ (HoldInv => HoldInv')
<1>1. UNCHANGED <<now, cellVal, cellUsed, dirtyMap, usedValues, refs, threadTime, rdPc, rdOp,
                  rdTime, rdVal, rdOwn, gcVars>> /\ lockPc = "upd_retire" /\ lockPc' = "free"
        /\ deletedValues' = Append(deletedValues, [val |-> lockVal, time |-> now])
  BY DEF UpdateRetire, Unlock, cellVars, valVars, mapVars, rdVars
<1>2. PICK v \in Values : v = lockVal
  BY <1>1 DEF MapsInv, MapsPart, LockInv
<1>3. now \in Nat /\ now <= now + 2 * MaxStall
  BY ConstantsAssumption DEF MapsInv, TypeOK, CellTypes
<1>4. InHand(v)
  BY <1>1, <1>2 DEF InHand
<1>5. PlacesInv' /\ RefsInv' /\ (HoldInv => HoldInv')
  BY <1>1, <1>2, <1>3, <1>4, RetireValue
<1>6. OwnInv' /\ StallInv'
  BY <1>1 DEF ValueInv, OwnInv, StallInv, InDelete, Searching
<1> QED
  BY <1>5, <1>6 DEF ValueInv

LEMMA DeleteStampValues ==
  ASSUME MapsInv, CellInv, ValueInv, NEW k \in Keys, DeleteStamp(k)
  PROVE  ValueInv' /\ (HoldInv => HoldInv')
<1>1. /\ UNCHANGED <<now, cellVal, deletedValues, usedValues, refs, threadTime, rdPc, rdOp, rdTime,
                     rdVal, rdOwn, gcVars>>
      /\ lockPc = "free" /\ lockPc' = "del_push" /\ lockVal' = dirtyMap[k] /\ lockTime' = now
      /\ dirtyMap[k] # NULL /\ dirtyMap[k] \in Cells /\ cellUsed'[dirtyMap[k]] = now
      /\ dirtyMap'[k] = NULL /\ \A l \in Keys \ {k} : dirtyMap'[l] = dirtyMap[l]
  BY DirtyValues DEF DeleteStamp, MapsInv, TypeOK, CellTypes, MapTypes, InnerMap, valVars, listVars, rdVars
<1>2. PICK w \in Values : w = cellVal[dirtyMap[k]]
  BY <1>1, DirtyValues
<1>3. InDirty(w) /\ ~Listed(w)
  BY <1>1, <1>2 DEF InDirty, ValueInv, PlacesInv
<1>4. \A l \in Keys \ {k} : dirtyMap[l] # NULL => cellVal[dirtyMap[l]] # w
  BY <1>1, <1>2 DEF ValueInv, PlacesInv
<1>5. \A x : InDirty(x)' <=> InDirty(x) /\ x # w
  BY <1>1, <1>2, <1>4 DEF InDirty
<1>6. \A x : Listed(x)' = Listed(x) /\ ~InHand(x) /\ (InHand(x)' <=> x = w)
  BY <1>1, <1>2 DEF Listed, InHand
<1>7. \A x : Placed(x)' = Placed(x)
  BY <1>3, <1>5, <1>6 DEF Placed
<1>8. RefsInv'
  BY <1>1, <1>7, RefsKept DEF ValueInv
<1>9. \A l, m \in Keys : dirtyMap'[l] # NULL /\ dirtyMap'[m] # NULL
          /\ cellVal'[dirtyMap'[l]] = cellVal'[dirtyMap'[m]] => l = m
  BY <1>1 DEF ValueInv, PlacesInv
<1>10. PlacesInv'
  BY <1>1, <1>3, <1>5, <1>6, <1>7, <1>9 DEF ValueInv, PlacesInv
<1>11. OwnInv'
  BY <1>1 DEF ValueInv, OwnInv, Searching
<1>12. StallInv'
  BY <1>1, ConstantsAssumption DEF ValueInv, StallInv, InDelete, MapsInv, TypeOK, CellTypes
<1>13. HoldInv => HoldInv'
  <2>1. \A x : (InDirty(x) \/ InHand(x)) => (InDirty(x) \/ InHand(x))'
    BY <1>5, <1>6
  <2> QED
    BY <1>1, <2>1, HoldKept
<1> QED
  BY <1>8, <1>10, <1>11, <1>12, <1>13 DEF ValueInv

(* Delete lists the value with whatever used_time_ holds: a reader that    *)
(* lost time may have put it back, by no more than a stall.                *)
LEMMA DeletePushValues ==
  ASSUME MapsInv, CellInv, ValueInv, DeletePush
  PROVE  ValueInv' /\ (HoldInv => HoldInv')
<1>1. /\ UNCHANGED <<now, cellVal, cellUsed, dirtyMap, lockVal, lockTime, usedValues, refs,
                     threadTime, rdPc, rdOp, rdTime, rdVal, rdOwn, gcVars>>
      /\ lockPc = "del_push" /\ lockPc' = "del_unlink"
      /\ deletedValues' = Append(deletedValues,
                            [val |-> cellVal[lockVal], time |-> cellUsed[lockVal]])
  BY DEF DeletePush, cellVars, valVars, mapVars, rdVars
<1>2. lockVal \in Cells /\ cellVal[lockVal] # NULL
  BY <1>1 DEF MapsInv, MapsPart, LockInv, InDelete
<1>3. PICK v \in Values : v = cellVal[lockVal]
  BY <1>2 DEF MapsInv, TypeOK, CellTypes
<1>4. PICK u \in Nat : u = cellUsed[lockVal]
  BY <1>2 DEF MapsInv, TypeOK, CellTypes
<1>5. lockTime <= u + MaxStall /\ now <= lockTime + MaxStall
  BY <1>1, <1>4 DEF ValueInv, StallInv, InDelete
<1>6. now <= u + 2 * MaxStall
  BY <1>5, ConstantsAssumption DEF MapsInv, TypeOK, CellTypes, LockTypes
<1>7. InHand(v)
  BY <1>1, <1>3 DEF InHand
<1>8. PlacesInv' /\ RefsInv' /\ (HoldInv => HoldInv')
  BY <1>1, <1>3, <1>4, <1>6, <1>7, RetireValue
<1>9. OwnInv'
  BY <1>1 DEF ValueInv, OwnInv, Searching
<1>10. StallInv'
  <2>1. PICK n \in Nat : n = Len(deletedValues)
    BY DEF MapsInv, TypeOK, ListTypes
  <2>2. /\ Len(deletedValues') = n + 1
        /\ deletedValues'[n + 1].val = v /\ deletedValues'[n + 1].time = u
    BY <1>1, <1>3, <1>4, <2>1 DEF MapsInv, TypeOK, ListTypes
  <2>3. \E i \in 1 .. Len(deletedValues') :
          /\ deletedValues'[i].val = cellVal'[lockVal']
          /\ lockTime' <= deletedValues'[i].time + MaxStall
    BY <1>1, <1>3, <1>5, <2>2
  <2> QED
    BY <1>1, <2>3 DEF ValueInv, StallInv, InDelete
<1> QED
  BY <1>8, <1>9, <1>10 DEF ValueInv

LEMMA DeleteUnlinkValues ==
  ASSUME MapsInv, CellInv, ValueInv, DeleteUnlink
  PROVE  ValueInv' /\ (HoldInv => HoldInv')
<1>1. /\ UNCHANGED <<now, dirtyMap, deletedValues, usedValues, refs,
                     threadTime, rdPc, rdOp, rdTime, rdVal, rdOwn, gcVars>>
      /\ lockPc = "del_unlink" /\ lockPc' = "free"
  BY DEF DeleteUnlink, Unlock, valVars, listVars, rdVars
<1>2. \A k \in Keys : dirtyMap[k] # NULL => cellVal'[dirtyMap[k]] = cellVal[dirtyMap[k]]
  BY <1>1 DEF DeleteUnlink, MapsInv, TypeOK, CellTypes, MapTypes, InnerMap, MapsPart, LockInv, InDelete
<1>3. \A x : /\ InDirty(x)' = InDirty(x) /\ Listed(x)' = Listed(x)
             /\ ~InHand(x) /\ ~InHand(x)'
  BY <1>1, <1>2 DEF InDirty, Listed, InHand
<1>4. \A x : Placed(x)' = Placed(x)
  BY <1>3 DEF Placed
<1>5. PlacesInv' /\ RefsInv'
  <2>1. \A l, m \in Keys : dirtyMap'[l] # NULL /\ dirtyMap'[m] # NULL
          /\ cellVal'[dirtyMap'[l]] = cellVal'[dirtyMap'[m]] => l = m
    BY <1>1, <1>2 DEF ValueInv, PlacesInv
  <2> QED
    BY <1>1, <1>3, <1>4, <2>1, RefsKept DEF ValueInv, PlacesInv
<1>6. OwnInv' /\ StallInv'
  BY <1>1 DEF ValueInv, OwnInv, StallInv, InDelete, Searching
<1>7. HoldInv => HoldInv'
  BY <1>1, <1>3, HoldKept
<1> QED
  BY <1>5, <1>6, <1>7 DEF ValueInv

(* The collector takes every reader it scans into account ... *)
LEMMA MinTimeValues ==
  ASSUME MapsInv, CellInv, ValueInv,
         MinTimeClock \/ (\E r \in Readers : MinTimeScan(r)) \/ CheckGcMaps
  PROVE  ValueInv' /\ (HoldInv => HoldInv')
<1>1. UNCHANGED <<now, cellVal, cellUsed, dirtyMap, deletedValues, lockPc, lockVal, lockTime,
                  usedValues, refs, threadTime, rdPc, rdOp, rdTime, rdVal, rdOwn>>
  BY DEF MinTimeClock, MinTimeScan, CheckGcMaps, cellVars, valVars, mapVars, listVars, lockVars,
     rdVars
<1>2. PlacesInv' /\ RefsInv'
  BY <1>1, PlacesFrame, RefsKept DEF ValueInv
<1>3. OwnInv' /\ StallInv'
  BY <1>1 DEF ValueInv, OwnInv, StallInv, InDelete, Searching
<1>4. \A q \in Readers : \A i \in 1 .. Len(deletedValues) : HasValue(q, i) => HasValue(q, i)'
  <2> SUFFICES ASSUME NEW q \in Readers, NEW i \in 1 .. Len(deletedValues), HasValue(q, i)
               PROVE  HasValue(q, i)'
    OBVIOUS
  <2>1. deletedValues[i].time \in Nat
    BY ListedTypes
  <2> QED
    BY <1>1, <2>1, ConstantsAssumption DEF HasValue, MinTimeClock, MinTimeScan, CheckGcMaps,
       MapsInv, TypeOK, ReaderTypes, CollectorTypes
<1>5. HoldInv => HoldInv'
  BY <1>1, <1>4 DEF HoldInv, InDirty, InHand
<1> QED
  BY <1>2, <1>3, <1>5 DEF ValueInv

(* ... so that with a grace period of two stalls it releases no value that *)
(* a reader still has.                                                     *)
LEMMA CheckGcValuesValues ==
  ASSUME MapsInv, CellInv, ValueInv, CheckGcValues
  PROVE  ValueInv' /\ (2 * MaxStall <= Grace /\ HoldInv => HoldInv')
<1>1. /\ UNCHANGED <<now, cellVal, cellUsed, dirtyMap, lockPc, lockVal, lockTime,
                     usedValues, threadTime, rdPc, rdOp, rdTime, rdVal, rdOwn, gcMin, gcTodo>>
      /\ lockPc = "free" /\ gcPc = "scan" /\ gcTodo = {} /\ gcPc' = "maps"
  BY DEF CheckGcValues, cellVars, mapVars, lockVars, rdVars
<1>2. PICK n \in 0 .. Len(deletedValues) :
        /\ TakesFirst(n, deletedValues, MinGcTime)
        /\ refs' = [v \in Values |->
                      IF v \in {deletedValues[i].val : i \in 1 .. n} THEN refs[v] - 1 ELSE refs[v]]
        /\ deletedValues' = SubSeq(deletedValues, n + 1, Len(deletedValues))
  BY DEF CheckGcValues
<1>3. PICK len \in Nat : len = Len(deletedValues)
  BY DEF MapsInv, TypeOK, ListTypes
<1>4. /\ n \in 0 .. len /\ Len(deletedValues') = len - n
      /\ \A i \in 1 .. len - n : n + i \in 1 .. len /\ deletedValues'[i] = deletedValues[n + i]
  BY <1>2, <1>3, DropFirst DEF MapsInv, TypeOK, ListTypes
<1> DEFINE Dead(x) == \E i \in 1 .. n : deletedValues[i].val = x
<1>5. \A x : Listed(x)' <=> Listed(x) /\ ~Dead(x)
  <2>1. ASSUME NEW x, Listed(x), ~Dead(x) PROVE Listed(x)'
    <3>1. PICK i \in 1 .. len : deletedValues[i].val = x
      BY <1>3, <2>1 DEF Listed
    <3>2. i > n
      BY <1>4, <2>1, <3>1
    <3>3. PICK j \in 1 .. len - n : i = n + j
      BY <1>4, <3>2, IndexAfter
    <3> QED
      BY <1>4, <3>1, <3>3 DEF Listed
  <2>2. ASSUME NEW x, Listed(x)' PROVE Listed(x) /\ ~Dead(x)
    <3>1. PICK j \in 1 .. len - n : deletedValues'[j].val = x
      BY <1>4, <2>2 DEF Listed
    <3>2. n + j \in 1 .. len /\ deletedValues[n + j].val = x
      BY <1>4, <3>1
    <3>3. \A i \in 1 .. n : i \in 1 .. len /\ i # n + j
      BY <1>4, <3>1
    <3>4. ~Dead(x)
      BY <1>3, <3>2, <3>3 DEF ValueInv, PlacesInv
    <3> QED
      BY <1>3, <3>2, <3>4 DEF Listed
  <2> QED
    BY <2>1, <2>2
<1>6. \A x : InDirty(x)' = InDirty(x) /\ InHand(x)' = InHand(x)
  BY <1>1 DEF InDirty, InHand
<1>7. \A x : Dead(x) => Listed(x)
  BY <1>3, <1>4 DEF Listed
<1>8. \A x \in Values : Placed(x)' <=> Placed(x) /\ ~Dead(x)
  BY <1>5, <1>6, <1>7 DEF Placed, ValueInv, PlacesInv
<1>9. RefsInv'
  <2>1. \A x \in Values : refs'[x] = IF Dead(x) THEN refs[x] - 1 ELSE refs[x]
    BY <1>2
  <2>2. \A x \in Values : Dead(x) => Placed(x)
    BY <1>7 DEF Placed
  <2>3. \A x : Owners(x)' = Owners(x)
    BY <1>1 DEF Owners
  <2> HIDE DEF Dead
  <2> QED
    BY <1>8, <2>1, <2>2, <2>3, OwnersFinite DEF ValueInv, RefsInv
<1>10. PlacesInv'
  <2>1. \A i, j \in 1 .. len - n : deletedValues'[i].val = deletedValues'[j].val => i = j
    <3> SUFFICES ASSUME NEW i \in 1 .. len - n, NEW j \in 1 .. len - n,
                        deletedValues'[i].val = deletedValues'[j].val
                 PROVE  i = j
      OBVIOUS
    <3>1. n + i \in 1 .. len /\ n + j \in 1 .. len /\ deletedValues[n + i].val = deletedValues[n + j].val
      BY <1>4
    <3>2. n + i = n + j
      BY <1>3, <3>1 DEF ValueInv, PlacesInv
    <3> QED
      BY <1>4, <3>2
  <2>2. \A i \in 1 .. len - n : deletedValues'[i].val # NULL
    BY <1>3, <1>4 DEF ValueInv, PlacesInv
  <2>3. \A l, m \in Keys : dirtyMap'[l] # NULL /\ dirtyMap'[m] # NULL
          /\ cellVal'[dirtyMap'[l]] = cellVal'[dirtyMap'[m]] => l = m
    BY <1>1 DEF ValueInv, PlacesInv
  <2>4. \A x \in Values : /\ Placed(x)' => x \in usedValues'
                          /\ ~(InDirty(x)' /\ Listed(x)') /\ ~(InDirty(x)' /\ InHand(x)')
                          /\ ~(Listed(x)' /\ InHand(x)')
    BY <1>1, <1>5, <1>6, <1>8 DEF ValueInv, PlacesInv
  <2> QED
    BY <1>4, <2>1, <2>2, <2>3, <2>4 DEF PlacesInv
<1>11. OwnInv' /\ StallInv'
  BY <1>1 DEF ValueInv, OwnInv, StallInv, InDelete, Searching
<1>12. ASSUME 2 * MaxStall <= Grace, HoldInv PROVE HoldInv'
  <2> SUFFICES ASSUME NEW q \in Readers, rdVal'[q] # NULL, ~InDirty(rdVal[q]), ~InHand(rdVal[q])
               PROVE  \E j \in 1 .. len - n : HasValue(q, j)'
    BY <1>1, <1>4 DEF HoldInv, InDirty, InHand
  <2>1. PICK i \in 1 .. len : HasValue(q, i)
    BY <1>1, <1>3, <1>12 DEF HoldInv
  <2>2. deletedValues[i].time \in Nat /\ gcMin <= deletedValues[i].time + 2 * MaxStall
    BY <1>1, <1>3, <2>1, ListedTypes DEF HasValue
  <2>3. ~(deletedValues[i].time < MinGcTime)
    BY <1>12, <2>2, ConstantsAssumption DEF MinGcTime, MapsInv, TypeOK, CollectorTypes
  <2>4. i > n
    BY <1>2, <1>4, <2>3 DEF TakesFirst
  <2>5. PICK j \in 1 .. len - n : i = n + j
    BY <1>4, <2>4, IndexAfter
  <2>6. HasValue(q, j)'
    BY <1>1, <1>4, <2>1, <2>5 DEF HasValue
  <2> QED
    BY <2>6
<1> QED
  BY <1>9, <1>10, <1>11, <1>12 DEF ValueInv

-----------------------------------------------------------------------------
LEMMA NextValueInv ==
  MapsInv /\ CellInv /\ ValueInv /\ [Next]_vars =>
    ValueInv' /\ (2 * MaxStall <= Grace /\ HoldInv => HoldInv')
<1> SUFFICES ASSUME MapsInv, CellInv, ValueInv, [Next]_vars
             PROVE  ValueInv' /\ (2 * MaxStall <= Grace /\ HoldInv => HoldInv')
  OBVIOUS
<1>1. CASE Tick
  BY <1>1, TickValues
<1>2. ASSUME NEW r \in Readers, Reader(r)
      PROVE  ValueInv' /\ (HoldInv => HoldInv')
  BY <1>2, SectionValues, TouchCellValues, LoadValueValues, FoundValues, RefsValues,
     CreateOrGetNewValues DEF Reader, Lookup, LockedCall
<1>3. CASE Writer
  BY <1>3, UpdateInsertValues, UpdateStoreValues, UpdateRetireValues, DeleteStampValues,
     DeletePushValues, DeleteUnlinkValues DEF Writer
<1>4. CASE Collector
  BY <1>4, MinTimeValues, CheckGcValuesValues DEF Collector
<1>5. CASE UNCHANGED vars
  <2>1. UNCHANGED <<now, cellVal, cellUsed, dirtyMap, deletedValues, lockPc, lockVal, lockTime,
                    usedValues, refs, threadTime, rdPc, rdOp, rdTime, rdVal, rdOwn, gcVars>>
    BY <1>5 DEF vars, cellVars, valVars, mapVars, listVars, lockVars, rdVars
  <2>2. PlacesInv' /\ RefsInv' /\ (HoldInv => HoldInv')
    BY <2>1, PlacesFrame, RefsKept, HoldKept DEF ValueInv
  <2>3. OwnInv' /\ StallInv'
    BY <2>1 DEF ValueInv, OwnInv, StallInv, InDelete, Searching
  <2> QED
    BY <2>2, <2>3 DEF ValueInv
<1> QED
  BY <1>1, <1>2, <1>3, <1>4, <1>5 DEF Next

LEMMA ValueInvHolds == Spec => []ValueInv
<1>1. Init => ValueInv
  BY InitValueInv
<1>2. MapsInv /\ CellInv /\ ValueInv /\ [Next]_vars => ValueInv'
  BY NextValueInv
<1> QED
  BY <1>1, <1>2, MapsInvHolds, CellInvHolds, PTL DEF Spec

(* Between operations every value has one place at most: the two ways in   *)
(* which RefsExact counts agree.                                           *)
LEMMA RefsCounted == MapsInv /\ ValueInv => RefsExact
<1> SUFFICES ASSUME MapsInv, ValueInv, lockPc = "free", NEW v \in Values
             PROVE  refs[v] = Cardinality({r \in Readers : v \in rdOwn[r]})
                      + (IF \E k \in KeysOf(dirtyMap) : cellVal[dirtyMap[k]] = v THEN 1 ELSE 0)
                      + Cardinality({i \in 1 .. Len(deletedValues) : deletedValues[i].val = v})
  BY DEF RefsExact
<1> DEFINE at == {i \in 1 .. Len(deletedValues) : deletedValues[i].val = v}
<1>0. Owners(v) = {r \in Readers : v \in rdOwn[r]} /\ Cardinality(Owners(v)) \in Nat
  BY OwnersFinite DEF Owners
<1>1. refs[v] = Cardinality(Owners(v)) + (IF InDirty(v) \/ Listed(v) THEN 1 ELSE 0)
  BY DEF ValueInv, RefsInv, Placed, InHand
<1>2. (\E k \in KeysOf(dirtyMap) : cellVal[dirtyMap[k]] = v) <=> InDirty(v)
  BY DEF InDirty, KeysOf
<1>3. CASE Listed(v)
  <2>1. PICK i \in 1 .. Len(deletedValues) : deletedValues[i].val = v
    BY <1>3 DEF Listed
  <2>2. at = {i}
    BY <2>1 DEF ValueInv, PlacesInv
  <2>3. Cardinality(at) = 1
    BY <2>2, FS_Singleton
  <2>4. ~InDirty(v)
    BY <1>3 DEF ValueInv, PlacesInv
  <2> QED
    BY <1>0, <1>1, <1>2, <1>3, <2>3, <2>4
<1>4. CASE ~Listed(v)
  <2>1. at = {}
    BY <1>4 DEF Listed
  <2>2. Cardinality(at) = 0
    BY <2>1, FS_EmptySet
  <2> QED
    BY <1>0, <1>1, <1>2, <1>4, <2>2
<1> QED
  BY <1>3, <1>4

(* OwnershipExact for every instance: no cell and no value is released     *)
(* twice, early or never, whatever the stalls and the grace period.        *)
THEOREM OwnersAreExact == Spec => []OwnershipExact
<1>1. MapsInv /\ CellInv /\ ValueInv => OwnershipExact
  BY CellsOwned, RefsCounted DEF OwnershipExact
<1> QED
  BY <1>1, MapsInvHolds, CellInvHolds, ValueInvHolds, PTL

(* NoFreedValueRead for every instance whose grace period covers two       *)
(* stalls (the code's 2000 ms): a pointer that a lookup handed out is      *)
(* alive until its section ends, an owned value until it is given back.    *)
THEOREM ReadersValuesLive ==
  ASSUME 2 * MaxStall <= Grace
  PROVE  Spec => []NoFreedValueRead
<1>1. Init => HoldInv
  BY InitValueInv
<1>2. MapsInv /\ CellInv /\ ValueInv /\ HoldInv /\ [Next]_vars => HoldInv'
  BY NextValueInv
<1>3. Spec => []HoldInv
  BY <1>1, <1>2, MapsInvHolds, CellInvHolds, ValueInvHolds, PTL DEF Spec
<1>4. MapsInv /\ ValueInv /\ HoldInv => NoFreedValueRead
  <2> SUFFICES ASSUME MapsInv, ValueInv, HoldInv, NEW r \in Readers
               PROVE  /\ rdVal[r] # NULL => refs[rdVal[r]] > 0
                      /\ \A v \in rdOwn[r] : refs[v] > 0
    BY DEF NoFreedValueRead
  <2>1. \A v \in Values : Cardinality(Owners(v)) \in Nat
    BY OwnersFinite
  <2>2. ASSUME rdVal[r] # NULL PROVE refs[rdVal[r]] > 0
    <3>1. rdVal[r] \in Values
      BY <2>2 DEF MapsInv, TypeOK, ReaderTypes
    <3>2. Placed(rdVal[r])
      BY <2>2 DEF HoldInv, Placed, Listed, HasValue
    <3> QED
      BY <2>1, <3>1, <3>2 DEF ValueInv, RefsInv
  <2>3. ASSUME NEW v \in rdOwn[r] PROVE refs[v] > 0
    <3>1. v \in Values /\ r \in Owners(v)
      BY DEF Owners, MapsInv, TypeOK, ReaderTypes
    <3>2. Cardinality(Owners(v)) # 0
      BY <3>1, OwnersFinite, FS_EmptySet
    <3> QED
      BY <2>1, <3>1, <3>2 DEF ValueInv, RefsInv
  <2> QED
    BY <2>2, <2>3
<1> QED
  BY <1>3, <1>4, MapsInvHolds, ValueInvHolds, PTL

-----------------------------------------------------------------------------
(* Lookups.  The argument rests on the agreement of the two maps (MapsInv) *)
(* and on the fate of the cells of replaced maps (CellInv): the cell a     *)
(* reader found is the one the read map has, or it was given up after the  *)
(* key had been deleted, and is empty for good.                            *)

(* The history has the current content, and nullptr if the reader's cell   *)
(* is no longer the cell of its key.                                       *)
SeenInv ==
  \A r \in Readers : InLookup(r) =>
    /\ Content(rdKey[r]) \in seen[r]
    /\ RdCell(r) # NULL /\ readMap[rdKey[r]] # RdCell(r) => NULL \in seen[r]

(* The history runs along with the behaviours of RcuMap. *)
LEMMA LookupImplementsMap == LookupSpec => Spec
<1>1. LookupInit => Init
  BY DEF LookupInit
<1>2. [LookupNext]_LookupVars => [Next]_vars
  BY DEF LookupNext, LookupVars
<1> QED
  BY <1>1, <1>2, PTL DEF LookupSpec, Spec

(* The read map changes in a swap only, which makes it the dirty map.      *)
LEMMA ReadMapChange ==
  ASSUME Next
  PROVE  readMap' = readMap \/ (readMap' = dirtyMap /\ lockPc = "free")
<1>1. CASE Tick
  BY <1>1 DEF Tick, mapVars
<1>2. ASSUME NEW r \in Readers, Reader(r)
      PROVE  readMap' = readMap \/ (readMap' = dirtyMap /\ lockPc = "free")
  <2>1. CASE FindInDirtyMap(r)
    BY <2>1 DEF FindInDirtyMap, CheckSwapInLock
  <2>2. CASE Section(r)
    BY <2>2 DEF Section, RcuEnterClock, RcuEnterStore, RcuExit, mapVars
  <2>3. CASE LockedCall(r)
    BY <2>3 DEF LockedCall, CreateOrGetFound, CreateOrGetNew, InsertInLock, GetAllValuesWithRef,
       mapVars
  <2> QED
    BY <1>2, <2>1, <2>2, <2>3 DEF Reader, Lookup, LoadReadMap, FindInReadMap, TouchCell,
       LoadValue, FindNowhere, IncrementRef, DecrementRef, mapVars
<1>3. CASE Writer
  BY <1>3 DEF Writer, UpdateInsert, InsertInLock, UpdateStore, UpdateRetire, DeleteStamp,
     DeletePush, DeleteUnlink, mapVars
<1>4. CASE Collector
  BY <1>4 DEF Collector, MinTimeClock, MinTimeScan, CheckGcValues, CheckGcMaps, mapVars
<1> QED
  BY <1>1, <1>2, <1>3, <1>4 DEF Next

(* A reader goes on with its lookup, starts one with the current read map, *)
(* or ends it in one of three ways.                                        *)
LEMMA LookupChange ==
  ASSUME MapsInv, Next, NEW q \in Readers
  PROVE  \/ /\ InLookup(q) /\ InLookup(q)'
            /\ rdKey'[q] = rdKey[q] /\ rdMap'[q] = rdMap[q]
         \/ ~InLookup(q) /\ InLookup(q)' /\ rdMap'[q] = readMap'
         \/ ~InLookup(q) /\ ~InLookup(q)'
         \/ LoadValue(q) \/ FindInDirtyMap(q) \/ FindNowhere(q)
<1> DEFINE Goal == \/ /\ InLookup(q) /\ InLookup(q)'
                      /\ rdKey'[q] = rdKey[q] /\ rdMap'[q] = rdMap[q]
                   \/ ~InLookup(q) /\ InLookup(q)' /\ rdMap'[q] = readMap'
                   \/ ~InLookup(q) /\ ~InLookup(q)'
                   \/ LoadValue(q) \/ FindInDirtyMap(q) \/ FindNowhere(q)
<1>1. CASE UNCHANGED <<rdPc, rdKey, rdMap>>
  BY <1>1 DEF InLookup
<1>2. CASE Tick \/ Writer \/ Collector
  <2>1. UNCHANGED <<rdPc, rdKey, rdMap>>
    BY <1>2 DEF Tick, Writer, UpdateInsert, UpdateStore, UpdateRetire, DeleteStamp, DeletePush,
       DeleteUnlink, Collector, MinTimeClock, MinTimeScan, CheckGcValues, CheckGcMaps, rdVars
  <2> QED
    BY <1>1, <2>1
<1>3. ASSUME NEW r \in Readers, Reader(r) PROVE Goal
  <2> USE DEF MapsInv, TypeOK, ReaderTypes, InLookup
  <2>1. CASE Section(r)
    BY <2>1 DEF Section, RcuEnterClock, RcuEnterStore, RcuExit
  <2>2. CASE LockedCall(r)
    BY <2>2 DEF LockedCall, CreateOrGetFound, CreateOrGetNew, EndLookup, GetAllValuesWithRef
  <2>3. CASE \E k \in Keys, op \in {"Get", "GetWithRcuTime"} : LoadReadMap(r, k, op)
    BY <2>3 DEF LoadReadMap, mapVars
  <2>4. CASE FindInReadMap(r) \/ TouchCell(r) \/ IncrementRef(r) \/ \E v \in Values : DecrementRef(r, v)
    BY <2>4 DEF FindInReadMap, TouchCell, IncrementRef, DecrementRef
  <2>5. CASE LoadValue(r) \/ FindInDirtyMap(r) \/ FindNowhere(r)
    BY <2>5 DEF LoadValue, FindInDirtyMap, FindNowhere, EndLookup
  <2> QED
    BY <1>3, <2>1, <2>2, <2>3, <2>4, <2>5 DEF Reader, Lookup
<1> QED
  BY <1>2, <1>3 DEF Next

-----------------------------------------------------------------------------
(* The cell a reader found is the cell of its key, or empty for good. *)
LEMMA CellFound ==
  ASSUME MapsInv, CellInv, NEW r \in Readers, InLookup(r), RdCell(r) # NULL,
         readMap[rdKey[r]] # RdCell(r)
  PROVE  cellVal[RdCell(r)] = NULL
<1>1. PICK k \in Keys : k = rdKey[r]
  BY DEF MapsInv, ReaderInv, InLookup
<1>2. PICK i \in 1 .. Len(deletedMaps) : deletedMaps[i].map = rdMap[r]
  BY DEF CellInv, SearchInv, Searching, InLookup, HasMap, RdCell
<1>3. PICK j \in i .. Len(deletedMaps) : KeptBy(i, j, k)
  BY <1>1, <1>2 DEF CellInv, CellsPart, RetiredKept, RdCell
<1>4. /\ j \in 1 .. Len(deletedMaps) /\ k \in deletedMaps[j].dels
      /\ deletedMaps[j].map[k] = RdCell(r)
  BY <1>1, <1>2, <1>3 DEF KeptBy, RdCell, MapsInv, TypeOK, ListTypes
<1> QED
  BY <1>4 DEF CellInv, CellsPart, RetiredCellsInv, Abandoned

LEMMA InitSeenInv == LookupInit => SeenInv
BY DEF LookupInit, Init, SeenInv, InLookup

LEMMA NextSeenInv ==
  ASSUME MapsInv, CellInv, SeenInv, [LookupNext]_LookupVars
  PROVE  SeenInv'
<1>1. CASE UNCHANGED LookupVars
  BY <1>1 DEF LookupVars, vars, cellVars, mapVars, lockVars, rdVars, SeenInv, InLookup, Content,
     RdCell
<1>2. CASE LookupNext
  <2> SUFFICES ASSUME NEW r \in Readers, InLookup(r)'
               PROVE  /\ Content(rdKey[r])' \in seen'[r]
                      /\ RdCell(r)' # NULL /\ readMap'[rdKey'[r]] # RdCell(r)' => NULL \in seen'[r]
    BY DEF SeenInv
  <2>1. seen'[r] = seen[r] \cup {Content(rdKey[r])'} /\ Next
    BY <1>2 DEF LookupNext
  <2>2. ASSUME RdCell(r)' # NULL, readMap'[rdKey'[r]] # RdCell(r)' PROVE NULL \in seen[r]
    <3>1. ~(LoadValue(r) \/ FindInDirtyMap(r) \/ FindNowhere(r))
      BY DEF LoadValue, FindInDirtyMap, FindNowhere, EndLookup, InLookup, MapsInv, TypeOK,
         ReaderTypes
    <3>2. InLookup(r) /\ rdKey'[r] = rdKey[r] /\ rdMap'[r] = rdMap[r]
      BY <2>1, <2>2, <3>1, LookupChange DEF RdCell
    <3>3. PICK k \in Keys : k = rdKey[r]
      BY <3>2 DEF MapsInv, ReaderInv, InLookup
    <3>4. RdCell(r)' = RdCell(r)
      BY <3>2 DEF RdCell
    <3>5. CASE readMap[k] # RdCell(r)
      BY <2>2, <3>2, <3>3, <3>4, <3>5 DEF SeenInv
    <3>6. CASE readMap[k] = RdCell(r)
      <4>1. readMap' = dirtyMap /\ lockPc = "free" /\ dirtyMap[k] # readMap[k]
        BY <2>1, <2>2, <3>2, <3>3, <3>4, <3>6, ReadMapChange
      <4>2. dirtyMap[k] = NULL
        BY <2>2, <3>4, <3>6, <4>1 DEF MapsInv, MapsPart, InDelete, AgreeAt
      <4>3. Content(k) = NULL
        BY <4>1, <4>2 DEF Content
      <4> QED
        BY <3>2, <3>3, <4>3 DEF SeenInv
    <3> QED
      BY <3>5, <3>6
  <2> QED
    BY <2>1, <2>2
<1> QED
  BY <1>1, <1>2

(* What the three ends of a lookup answer. *)
LEMMA AnswerSeen ==
  ASSUME MapsInv, CellInv, SeenInv, NEW r \in Readers, InLookup(r),
         LoadValue(r) \/ FindInDirtyMap(r) \/ FindNowhere(r)
  PROVE  rdVal'[r] \in seen[r]
<1>1. PICK k \in Keys : k = rdKey[r]
  BY DEF MapsInv, ReaderInv, InLookup
<1>2. Content(k) \in seen[r]
  BY <1>1 DEF SeenInv
<1>3. CASE LoadValue(r)
  <2>1. PICK c \in Cells : c = RdCell(r)
    BY <1>3 DEF LoadValue, MapsInv, ReaderInv
  <2>2. rdVal'[r] = cellVal[c] /\ c # NULL
    BY <1>3, <2>1, ConstantsAssumption DEF LoadValue, EndLookup, MapsInv, TypeOK, ReaderTypes
  <2>3. CASE readMap[k] # c
    BY <1>1, <2>1, <2>2, <2>3, CellFound DEF SeenInv
  <2>4. CASE readMap[k] = c
    <3>1. CASE InDelete /\ k = lockKey
      BY <1>2, <2>2, <2>4, <3>1 DEF MapsInv, MapsPart, LockInv, InDelete, Content
    <3>2. CASE ~(InDelete /\ k = lockKey)
      BY <1>2, <2>2, <2>4, <3>2 DEF MapsInv, MapsPart, InDelete, AgreeAt, Content
    <3> QED
      BY <3>1, <3>2
  <2> QED
    BY <2>3, <2>4
<1>4. CASE FindInDirtyMap(r)
  BY <1>1, <1>2, <1>4 DEF FindInDirtyMap, EndLookup, Content, MapsInv, TypeOK, ReaderTypes
<1>5. CASE FindNowhere(r)
  BY <1>1, <1>2, <1>5 DEF FindNowhere, EndLookup, Content, MapsInv, TypeOK, ReaderTypes
<1> QED
  BY <1>3, <1>4, <1>5

(* LookupIsLinearizable for every instance: Get and GetWithRcuTime answer  *)
(* with a content the key had between the load of read_map_ and the        *)
(* return, however often the maps were swapped meanwhile.                  *)
THEOREM LookupsLinearize == LookupSpec => LookupIsLinearizable
<1>1. LookupInit => SeenInv
  BY InitSeenInv
<1>2. MapsInv /\ CellInv /\ SeenInv /\ [LookupNext]_LookupVars => SeenInv'
  BY NextSeenInv
<1>3. LookupSpec => [](MapsInv /\ CellInv)
  BY LookupImplementsMap, MapsInvHolds, CellInvHolds, PTL
<1>4. MapsInv /\ CellInv /\ SeenInv /\ [LookupNext]_LookupVars
        => [\A r \in Readers : InLookup(r) /\ ~InLookup(r)' => rdVal'[r] \in seen[r]]_LookupVars
  <2> SUFFICES ASSUME MapsInv, CellInv, SeenInv, LookupNext, NEW r \in Readers,
                      InLookup(r), ~InLookup(r)'
               PROVE  rdVal'[r] \in seen[r]
    OBVIOUS
  <2>1. LoadValue(r) \/ FindInDirtyMap(r) \/ FindNowhere(r)
    BY LookupChange DEF LookupNext
  <2> QED
    BY <2>1, AnswerSeen
<1> QED
  BY <1>1, <1>2, <1>3, <1>4, PTL DEF LookupSpec, LookupIsLinearizable
=============================================================================
