---------------------------- MODULE RcuMapLookup ----------------------------
(***************************************************************************)
(* What a lookup of RcuMap may answer.  The history variable seen collects *)
(* for every reader the contents the looked-up key had since the reader    *)
(* loaded read_map_.  A lock-free lookup may use a read map that was       *)
(* replaced meanwhile, and a cell that was emptied and abandoned, so its   *)
(* answer need not be the newest content; it must be one the key had       *)
(* during the lookup.                                                      *)
(***************************************************************************)
EXTENDS RcuMap

VARIABLE seen

(* The content of the map as the sequence of writers produced it.  A key   *)
(* being deleted is removed by the store that empties its cell.            *)
Content(k) ==
  IF lockPc \in {"del_push", "del_unlink"} /\ k = lockKey
  THEN cellVal[lockVal]
  ELSE IF dirtyMap[k] # NULL THEN cellVal[dirtyMap[k]] ELSE NULL

InLookup(r) == rdPc[r] \in {"find", "touch", "load"}

LookupInit == Init /\ seen = [r \in Readers |-> {}]

LookupNext ==
  /\ Next
  /\ seen' = [r \in Readers |->
       IF InLookup(r)' THEN seen[r] \cup {Content(rdKey[r])'} ELSE {}]

LookupVars == <<vars, seen>>
LookupSpec == LookupInit /\ [][LookupNext]_LookupVars

(* Get and GetWithRcuTime answer with a content the key had at some moment *)
(* between the load of read_map_ and the return: no value of a deleted or  *)
(* replaced generation, and no nullptr for a key that was present all the  *)
(* time.                                                                   *)
LookupIsLinearizable ==
  [][\A r \in Readers :
       InLookup(r) /\ ~InLookup(r)' => rdVal'[r] \in seen[r]]_LookupVars
=============================================================================
