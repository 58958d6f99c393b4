--------------------------- MODULE MCRcuMapLookup ---------------------------
(* Instance of RcuMapLookup for TLC. *)
EXTENDS RcuMapLookup, TLC

Symmetric == Permutations(Keys) \cup Permutations(Readers)

(* Which unused cell or value a writer takes makes no difference.          *)
CellOrder == <<"c1", "c2", "c3">>
ValueOrder == <<"v1", "v2", "v3">>
InOrder(used, order) == used = {order[i] : i \in 1 .. Cardinality(used)}

(* Bounds: the second reader stays away once the third value is in use,    *)
(* time passes or a reader owns a value, and then that reader starts no    *)
(* other lookup; the collector starts when time has passed (it finds       *)
(* nothing before) and scans the idle reader first; no third value enters  *)
(* the map after that.                                                     *)
Active == {r \in Readers : rdPc[r] # "out" \/ rdOwn[r] # {}}
Quiet == now = 0 /\ Cardinality(usedValues) < 3 /\ \A r \in Readers : rdOwn[r] = {}
Collecting == gcPc = "idle" \/ (now > 0 /\ (gcTodo = {} \/ Active \subseteq gcTodo))

BoundedNext ==
  /\ LookupNext
  /\ InOrder(usedCells', CellOrder) /\ InOrder(usedValues', ValueOrder)
  /\ Quiet' \/ Cardinality(Active') <= 1
  /\ \A r \in Readers : rdOwn[r] # {} => rdPc'[r] \notin {"find", "enter"}
  /\ Collecting'
  /\ now > 0 => usedValues' = usedValues \/ Cardinality(usedValues') < 3
BoundedSpec == LookupInit /\ [][BoundedNext]_LookupVars
=============================================================================
