--------------------------- MODULE LocalityAware ---------------------------
(* LocalityAwareSelector: a tree of instance weights kept in two buffers.   *)
(* Readers walk the front buffer under a lock of their own and change       *)
(* weights as they go; a writer changes the back buffer, makes it the front,*)
(* waits for every reader's lock once, and repeats the change on the other. *)
EXTENDS Integers, Sequences, FiniteSets, SequencesExt

CONSTANTS NULL, Setups

(* tree: data_[0..1], nodes [id, w]; front: index_; weight: Weight objects; *)
(* leftSum: left_weights_; total: total_; wrapped: threads with a Wrapper;  *)
(* reader, writer: the calls under way; calls: selected, not fed back.      *)
VARIABLES setup, tree, front, weight, leftSum, total, wrapped, reader, writer, calls, steps

vars == <<setup, tree, front, weight, leftSum, total, wrapped, reader, writer, calls, steps>>
sums == <<leftSum, total>>

(* Positions count from 1: position i has the children 2i and 2i + 1.       *)
InLeft(p, i) == \E depth \in 0..2 : 2 * p * 2^depth <= i /\ i < (2 * p + 1) * 2^depth

Sum(t, S) == FoldLeft(LAMBDA sum, i : IF i \in S THEN sum + weight[t[i].w].value ELSE sum, 0, [i \in DOMAIN t |-> i])

UpdateParentWeights(lefts, diff, i) == [p \in DOMAIN lefts |-> IF InLeft(p, i) THEN lefts[p] + diff ELSE lefts[p]]

Places(b, id) == {i \in DOMAIN tree[b] : tree[b][i].id = id}
PlaceOf(b, id) == CHOOSE i \in Places(b, id) : TRUE

back == 1 - front

NewWeight(v) == [value |-> v, disabled |-> FALSE, oldIndex |-> 0, oldDiff |-> 0, oldWeight |-> 0, freed |-> FALSE]
Resting == [pc |-> "idle", buf |-> 0, index |-> 0, diff |-> 0, chosen |-> FALSE, tries |-> 0, id |-> NULL]
NoChange == [pc |-> "idle", id |-> NULL, place |-> 0, gone |-> 0, lost |-> 0, waiting |-> {}]

-----------------------------------------------------------------------------
(* DoublyBufferedData::Read, and the end of a read.                         *)

At(t, pc) == reader[t].pc = pc
Reading(t) == ~At(t, "idle")

(* wrappers_mutex_ is held by the writer while it waits for the readers.    *)
AddWrapper(t) ==
  /\ At(t, "idle") /\ t \notin wrapped /\ writer.pc \notin {"wait", "destroyed"}
  /\ wrapped' = wrapped \cup {t}
  /\ UNCHANGED <<setup, tree, front, weight, sums, reader, writer, calls, steps>>

(* Called when the thread quits.                                            *)
RemoveWrapper(t) ==
  /\ At(t, "idle") /\ t \in wrapped /\ writer.pc # "wait"
  /\ wrapped' = wrapped \ {t}
  /\ UNCHANGED <<setup, tree, front, weight, sums, reader, writer, calls, steps>>

BeginRead(t) ==
  /\ At(t, "idle") /\ t \in wrapped /\ writer.pc # "destroyed" /\ steps > 0
  /\ steps' = steps - 1
  /\ \E id \in {NULL} \cup calls :
       /\ reader' = [reader EXCEPT ![t] = [Resting EXCEPT !.pc = "locked", !.id = id]]
       /\ calls' = calls \ {id}
  /\ UNCHANGED <<setup, tree, front, weight, sums, wrapped, writer>>

(* UnsafeRead: index_ is loaded once.  A call without an id selects.        *)
UnsafeRead(t) ==
  /\ At(t, "locked")
  /\ reader' = [reader EXCEPT ![t].buf = front, ![t].pc = IF reader[t].id = NULL THEN "walk" ELSE "find"]
  /\ UNCHANGED <<setup, tree, front, weight, sums, wrapped, writer, calls, steps>>

EndRead(t) == reader' = [reader EXCEPT ![t] = Resting]

-----------------------------------------------------------------------------
(* The node a dice leads to in buffer b, 0 if it leaves the tree.           *)
Locate(b, dice) ==
  LET walk[i \in 1..2 * Len(tree[b]) + 1, d \in 0..total] ==
        IF i > Len(tree[b]) THEN 0
        ELSE LET self == weight[tree[b][i].w].value
             IN IF d < leftSum[i] THEN walk[2 * i, d]
                ELSE IF d >= leftSum[i] + self THEN walk[2 * i + 1, d - leftSum[i] - self]
                ELSE i
  IN walk[1, dice]

(* SelectInstance: the loads of a walk are not atomic together, so the dice *)
(* may lead to any node, or out of the tree until too many tries failed.    *)
Walk(t) ==
  /\ At(t, "walk")
  /\ \/ \E i \in DOMAIN tree[reader[t].buf] : reader' = [reader EXCEPT ![t].index = i, ![t].pc = "inflight"]
     \/ EndRead(t)
  /\ UNCHANGED <<setup, tree, front, weight, sums, wrapped, writer, calls, steps>>

(* ResetWeight: at least min_weight_; which value follows from latency and  *)
(* calls in flight.  A weight being moved remembers what the old place got. *)
ResetWeight(w, i, v) ==
  [weight EXCEPT ![w].value = v, ![w].oldDiff = IF weight[w].oldIndex = i THEN @ + v - weight[w].value ELSE @]

NodeOf(t) == tree[reader[t].buf][reader[t].index]

(* Weight::AddInflight; too light a weight is not chosen for its dice.      *)
AddInflight(t) ==
  LET w == NodeOf(t).w
  IN /\ At(t, "inflight")
     /\ IF weight[w].disabled
        THEN reader' = [reader EXCEPT ![t].diff = 0, ![t].chosen = FALSE, ![t].pc = "parents"] /\ UNCHANGED weight
        ELSE \E v \in setup.values :
               /\ weight' = ResetWeight(w, reader[t].index, v)
               /\ \E chosen \in IF v + 1 < weight[w].value THEN BOOLEAN ELSE {TRUE} :
                    reader' = [reader EXCEPT ![t].diff = v - weight[w].value, ![t].chosen = chosen, ![t].pc = "parents"]
     /\ UNCHANGED <<setup, tree, front, sums, wrapped, writer, calls, steps>>

(* Feedback: Weight::Update for an instance that is still there; a weight   *)
(* stays when it is disabled or the latencies say nothing.                  *)
Feedback(t) ==
  LET here == Places(reader[t].buf, reader[t].id)
      i == PlaceOf(reader[t].buf, reader[t].id)
      w == tree[reader[t].buf][i].w
  IN /\ At(t, "find")
     /\ \/ here = {} /\ EndRead(t) /\ UNCHANGED weight
        \/ here # {} /\ EndRead(t) /\ UNCHANGED weight
        \/ /\ here # {} /\ ~weight[w].disabled
           /\ \E v \in setup.values : /\ weight' = ResetWeight(w, i, v)
                                      /\ reader' = [reader EXCEPT ![t].index = i, ![t].diff = v - weight[w].value, ![t].pc = "parents"]
     /\ UNCHANGED <<setup, tree, front, sums, wrapped, writer, calls, steps>>

(* The difference goes to the sums above the node, ...                      *)
AddToParents(t) ==
  /\ At(t, "parents")
  /\ leftSum' = UpdateParentWeights(leftSum, reader[t].diff, reader[t].index)
  /\ reader' = [reader EXCEPT ![t].pc = "total"]
  /\ UNCHANGED <<setup, tree, front, weight, total, wrapped, writer, calls, steps>>

(* ... then to the total; a node not chosen is another try, of n at most.   *)
AddToTotal(t) ==
  LET r == reader[t]
  IN /\ At(t, "total")
     /\ total' = total + r.diff
     /\ IF r.id = NULL /\ ~r.chosen /\ r.tries + 1 < Len(tree[r.buf])
        THEN reader' = [reader EXCEPT ![t].tries = @ + 1, ![t].diff = 0, ![t].pc = "walk"] /\ UNCHANGED calls
        ELSE EndRead(t) /\ calls' = IF r.id = NULL /\ r.chosen THEN calls \cup {NodeOf(t).id} ELSE calls
     /\ UNCHANGED <<setup, tree, front, weight, leftSum, wrapped, writer, steps>>

(* Feedback for a cache value that is no longer found by its route key, or  *)
(* that never comes.                                                        *)
LoseCall(id) ==
  /\ id \in calls /\ calls' = calls \ {id}
  /\ UNCHANGED <<setup, tree, front, weight, sums, wrapped, reader, writer, steps>>

-----------------------------------------------------------------------------
(* Modify, with modify_mutex_ held: Add ...  The balancer adds instances    *)
(* before it publishes the selector, so no reader is in the middle of one.  *)

AddInstance(id) ==
  LET t == tree[back]
      v == IF t = <<>> THEN setup.initial ELSE total \div Len(t)
      node == [id |-> id, w |-> Len(weight) + 1]
  IN /\ writer.pc = "idle" /\ Places(back, id) = {} /\ Len(weight) < setup.weights
     /\ \A r \in setup.threads : ~Reading(r)
     /\ weight' = Append(weight, NewWeight(v))
     /\ tree' = [tree EXCEPT ![back] = Append(t, node)]
     /\ leftSum' = UpdateParentWeights(Append(leftSum, 0), v, Len(t) + 1)
     /\ total' = total + v
     /\ writer' = [NoChange EXCEPT !.pc = "flip", !.id = id]
     /\ UNCHANGED <<setup, front, wrapped, reader, calls, steps>>

(* ... and Remove: the last node takes the place of the removed one.        *)
(* Weights are positive, as with any minWeight above 0.                     *)
Shift(t, i) == IF i = Len(t) THEN Front(t) ELSE [Front(t) EXCEPT ![i] = Last(t)]

Disable(w) == [weight EXCEPT ![w].value = 0, ![w].disabled = TRUE]

RemoveInstance(id) ==
  LET i == PlaceOf(back, id)
      w == tree[back][i].w
      last == i = Len(tree[back])
  IN /\ writer.pc = "idle" /\ Places(back, id) # {} /\ steps > 0
     /\ steps' = steps - 1
     /\ weight' = Disable(w)
     /\ tree' = [tree EXCEPT ![back] = Shift(@, i)]
     /\ writer' = [pc |-> IF last THEN "flip" ELSE "mark", id |-> id, place |-> i, gone |-> w, lost |-> weight[w].value, waiting |-> {}]
     /\ IF last THEN leftSum' = UpdateParentWeights(leftSum, -weight[w].value, i) /\ total' = total - weight[w].value
                ELSE UNCHANGED sums
     /\ UNCHANGED <<setup, front, wrapped, reader, calls>>

(* A faulty variant: the old place of the moved weight is not remembered.   *)
MarkOldUnmarked ==
  LET w == tree[back][writer.place].w
  IN /\ writer.pc = "mark"
     /\ weight' = [weight EXCEPT ![w].oldWeight = weight[w].value, ![w].oldDiff = 0]
     /\ leftSum' = UpdateParentWeights(leftSum, weight[w].value - writer.lost, writer.place)
     /\ total' = total + weight[w].value - writer.lost
     /\ writer' = [writer EXCEPT !.pc = "flip"]
     /\ UNCHANGED <<setup, tree, front, wrapped, reader, calls, steps>>

(* MarkOld: the moved weight counts at both places until the second change. *)
MarkOld ==
  LET w == tree[back][writer.place].w
  IN /\ writer.pc = "mark"
     /\ weight' = [weight EXCEPT ![w].oldWeight = weight[w].value, ![w].oldDiff = 0, ![w].oldIndex = Len(tree[back]) + 1]
     /\ leftSum' = UpdateParentWeights(leftSum, weight[w].value - writer.lost, writer.place)
     /\ total' = total + weight[w].value - writer.lost
     /\ writer' = [writer EXCEPT !.pc = "flip"]
     /\ UNCHANGED <<setup, tree, front, wrapped, reader, calls, steps>>

Flip ==
  /\ writer.pc = "flip"
  /\ front' = back
  /\ writer' = [writer EXCEPT !.pc = "wrappers"]
  /\ UNCHANGED <<setup, tree, weight, sums, wrapped, reader, calls, steps>>

(* A faulty variant: the readers of the old front are not waited for.       *)
LockWrappersOnly ==
  /\ writer.pc = "wrappers"
  /\ writer' = [writer EXCEPT !.pc = "wait", !.waiting = {}]
  /\ UNCHANGED <<setup, tree, front, weight, sums, wrapped, reader, calls, steps>>

LockWrappers ==
  /\ writer.pc = "wrappers"
  /\ writer' = [writer EXCEPT !.pc = "wait", !.waiting = wrapped]
  /\ UNCHANGED <<setup, tree, front, weight, sums, wrapped, reader, calls, steps>>

WaitReadDone ==
  /\ writer.pc = "wait"
  /\ \E t \in writer.waiting : ~Reading(t) /\ writer' = [writer EXCEPT !.waiting = @ \ {t}]
  /\ UNCHANGED <<setup, tree, front, weight, sums, wrapped, reader, calls, steps>>

Waited == writer.pc = "wait" /\ writer.waiting = {}

(* The second buffer: copy the new node, or ...                             *)
AddSecond ==
  /\ Waited /\ writer.gone = 0
  /\ tree' = [tree EXCEPT ![back] = Append(@, Last(tree[front]))]
  /\ writer' = NoChange
  /\ UNCHANGED <<setup, front, weight, sums, wrapped, reader, calls, steps>>

(* ... remove the node here too.  ClearOld moves to the new place what the  *)
(* old one was given since MarkOld, and the weight leaves the old place.    *)
RemoveSecond ==
  LET i == writer.place
      old == Len(tree[back])
      moved == Last(tree[back]).w
      w2 == weight[moved]
      freed == [weight EXCEPT ![writer.gone].freed = TRUE]
  IN /\ Waited /\ writer.gone # 0
     /\ tree' = [tree EXCEPT ![back] = Shift(@, i)]
     /\ IF i = old
        THEN weight' = freed /\ leftSum' = Front(leftSum) /\ total' = total
        ELSE /\ weight' = [freed EXCEPT ![moved].oldWeight = 0, ![moved].oldDiff = 0, ![moved].oldIndex = 0]
             /\ leftSum' = Front(UpdateParentWeights(UpdateParentWeights(leftSum, w2.oldDiff, i), -w2.oldWeight - w2.oldDiff, old))
             /\ total' = total - w2.oldWeight
     /\ writer' = NoChange
     /\ UNCHANGED <<setup, front, wrapped, reader, calls, steps>>

(* ~LocalityAwareSelector, with RemoveAll, when nobody holds the cache      *)
(* value any more.                                                          *)
Destroy ==
  /\ writer.pc = "idle" /\ \A t \in setup.threads : At(t, "idle")
  /\ weight' = [w \in DOMAIN weight |-> [weight[w] EXCEPT !.freed = TRUE]]
  /\ tree' = [b \in 0..1 |-> <<>>]
  /\ writer' = [NoChange EXCEPT !.pc = "destroyed"]
  /\ UNCHANGED <<setup, front, sums, wrapped, reader, calls, steps>>

-----------------------------------------------------------------------------
(* A selector that instances have been added to and nobody has used.        *)
Init == /\ setup \in Setups
        /\ weight = [w \in DOMAIN setup.start |-> NewWeight(setup.start[w].value)]
        /\ tree = [b \in 0..1 |-> [i \in DOMAIN setup.start |-> [id |-> setup.start[i].id, w |-> i]]]
        /\ leftSum = [i \in DOMAIN setup.start |-> Sum(tree[0], {j \in DOMAIN setup.start : InLeft(i, j)})]
        /\ total = Sum(tree[0], DOMAIN setup.start)
        /\ front = 0 /\ wrapped = {}
        /\ reader = [t \in setup.threads |-> Resting]
        /\ writer = NoChange
        /\ calls = {} /\ steps = setup.steps

Next == \/ \E t \in DOMAIN reader :
             AddWrapper(t) \/ RemoveWrapper(t) \/ BeginRead(t) \/ UnsafeRead(t) \/ Walk(t) \/ AddInflight(t) \/ Feedback(t)
             \/ AddToParents(t) \/ AddToTotal(t)
        \/ \E id \in setup.ids : AddInstance(id) \/ RemoveInstance(id)
        \/ \E id \in calls : LoseCall(id)
        \/ MarkOld \/ Flip \/ LockWrappers \/ WaitReadDone \/ AddSecond \/ RemoveSecond \/ Destroy

Spec == Init /\ [][Next]_vars

-----------------------------------------------------------------------------
(* Properties *)

Quiet == writer.pc = "idle" /\ \A t \in DOMAIN reader : ~At(t, "parents") /\ ~At(t, "total")

(* When no change is under way the two buffers agree and every instance is  *)
(* reached by as many dice as it has weight, however selections, feedback   *)
(* and removals overlapped ("the final state is consistent",                *)
(* locality_aware_selector.cpp:221).                                        *)
DiceFollowWeights ==
  Quiet => /\ tree[0] = tree[1] /\ Len(leftSum) = Len(tree[0])
           /\ total = Sum(tree[0], DOMAIN tree[0])
           /\ \A i \in DOMAIN tree[0] : Cardinality({d \in 0..total - 1 : Locate(front, d) = i}) = weight[tree[0][i].w].value

(* A reader never comes to a deleted Weight, past the end of its tree or    *)
(* past the sums: the writer takes away only what no reader can still see   *)
(* (DoublyBufferedData::Modify).                                            *)
WeightsLive ==
  \A t \in DOMAIN reader : Reading(t) /\ ~At(t, "locked") =>
    /\ reader[t].index <= Len(tree[reader[t].buf])
    /\ \A i \in DOMAIN tree[reader[t].buf] : ~weight[tree[reader[t].buf][i].w].freed /\ i \in DOMAIN leftSum

(* Selections see a whole tree, and the dice keep to the weights.           *)
TreeSound == DiceFollowWeights /\ WeightsLive
=============================================================================
