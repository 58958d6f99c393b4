------------------------------ MODULE SlowStart ------------------------------
(***************************************************************************)
(* The slow start of new instances (plugin/weight_adjuster/slow_start) in  *)
(* a ServiceContext.  An update of the instances gives those it adds a     *)
(* small dynamic weight and enters them in slow_start_map_; a task of the  *)
(* cache manager's reactor raises the weights step by step.  The ring hash *)
(* balancer builds its rings from the dynamic weights and caches them by   *)
(* the version the adjuster counts up.                                     *)
(*                                                                         *)
(* The update runs in the thread of the server connector and the task in   *)
(* its own: `calm` setups keep them apart, the others let them interleave. *)
(***************************************************************************)
EXTENDS Integers, Sequences, FiniteSets, TLC

CONSTANTS NULL, Setups      \* an instance: ids, window, min, calm, nulls, updates, clock

VARIABLES setup, now,
          local,      \* InstanceLocalValue: the dynamic weight, shared by the revisions of an instance
          datas,      \* the revisions: local value by id, dynamic_weight_version_, rings by version
          current,    \* ServiceContext::service_instance_: a revision or NULL
          slowMap,    \* slow_start_map_: when each instance was added
          tasks,      \* when each SlowStartAdjustTask is due
          updater,    \* UpdateInstances under way, or NULL
          run         \* the task under way, or NULL

slowVars == <<setup, now, local, datas, current, slowMap, tasks, updater, run>>

Weight == 100
Ids(d) == DOMAIN datas[d].loc

\* The weights a ring is built from: the dynamic ones once there is a version.
RingOf(d, version) ==
    [i \in Ids(d) |-> IF version > 0 THEN local[datas[d].loc[i]] ELSE Weight]

WithRing(d, version) ==
    IF version \in DOMAIN datas[d].rings THEN datas
    ELSE [datas EXCEPT ![d].rings = (version :> RingOf(d, version)) @@ @]

calm == setup.calm => updater = NULL /\ run = NULL

----------------------------------------------------------------------------
(***************************************************************************)
(* An update of the instances                                              *)
(***************************************************************************)
\* KetamaLoadBalancer::OnInstanceUpdate: an instance that stays keeps its
\* local value, a new one starts with its full weight.
OnInstanceUpdate(ids, old) ==
    LET kept == IF old = NULL THEN {} ELSE ids \intersect Ids(old)
        Rank(i) == Cardinality({j \in ids \ kept : j <= i})
    IN [i \in ids |-> IF i \in kept THEN datas[old].loc[i] ELSE Len(local) + Rank(i)]

Added(ids, old) == IF old = NULL \/ Ids(old) = {} THEN {} ELSE ids \ Ids(old)

NeedCreateTaskAfter(added) == added # {} /\ DOMAIN slowMap \union added = {}

NeedCreateTask(added) == added # {} /\ DOMAIN slowMap = {}

\* Nothing is slow started with the first revision.  An instance that is still
\* in the map keeps its time.
ServiceInstanceUpdate ==
    \E ids \in SUBSET setup.ids :
        LET loc == OnInstanceUpdate(ids, current)
            added == Added(ids, current)
            fresh == {loc[i] : i \in ids} \ 1..Len(local)
        IN /\ updater = NULL /\ calm /\ Len(datas) < setup.updates
           /\ local' = local \o [k \in 1..Cardinality(fresh) |->
                  IF \E i \in added : loc[i] = Len(local) + k THEN setup.min ELSE Weight]
           /\ datas' = Append(datas, [loc |-> loc, version |-> 0, rings |-> <<>>])
           /\ slowMap' = slowMap @@ [i \in added |-> now]
           /\ updater' = [step |-> "submit", old |-> current, create |-> NeedCreateTask(added), added |-> added # {}]
           /\ UNCHANGED <<setup, now, current, tasks, run>>

\* The task is submitted to its reactor, then the version is set.
SubmitAdjust ==
    /\ updater # NULL /\ updater.step = "submit"
    /\ tasks' = IF updater.create THEN Append(tasks, now + 1) ELSE tasks
    /\ datas' = IF updater.added THEN [datas EXCEPT ![Len(datas)].version = datas[updater.old].version + 1] ELSE datas
    /\ updater' = [updater EXCEPT !.step = "cache"]
    /\ UNCHANGED <<setup, now, local, current, slowMap, run>>

\* UpdateInstances builds the caches of the new revision, then makes it current.
UpdateInstances ==
    /\ updater # NULL /\ updater.step \in {"cache", "exchange"}
    /\ IF updater.step = "cache"
       THEN /\ datas' = IF current # NULL THEN WithRing(Len(datas), datas[Len(datas)].version) ELSE datas
            /\ updater' = [updater EXCEPT !.step = "exchange"] /\ UNCHANGED current
       ELSE current' = Len(datas) /\ updater' = NULL /\ UNCHANGED datas
    /\ UNCHANGED <<setup, now, local, slowMap, tasks, run>>

\* The handler of the service is deregistered: its instances become null.
UpdateNull ==
    /\ setup.nulls /\ updater = NULL /\ current # NULL
    /\ current' = NULL
    /\ UNCHANGED <<setup, now, local, datas, slowMap, tasks, updater, run>>

----------------------------------------------------------------------------
(***************************************************************************)
(* SlowStartAdjustTask::Run                                                *)
(***************************************************************************)
\* The task that finds no instances ends, whatever is in the map.
DoAdjustWithRcuTime ==
    /\ run = NULL /\ calm /\ tasks # <<>> /\ Head(tasks) <= now
    /\ tasks' = Tail(tasks)
    /\ run' = IF current = NULL THEN NULL
              ELSE [step |-> "adjust", data |-> current, map |-> slowMap, deleted |-> {}, more |-> TRUE]
    /\ UNCHANGED <<setup, now, local, datas, current, slowMap, updater>>

\* aggression 1: the factor is the share of the window that has passed.
AggressionFactor(elapsed) == (Weight * elapsed) \div setup.window
Adjusted(since) ==
    IF now - since >= setup.window THEN Weight
    ELSE IF AggressionFactor(now - since) > setup.min THEN AggressionFactor(now - since) ELSE setup.min

\* The copy of the map is walked: instances that left, or whose window has
\* passed, are done.
DoAdjust ==
    LET there == DOMAIN run.map \intersect Ids(run.data)
        done == {i \in DOMAIN run.map : i \notin there \/ now - run.map[i] >= setup.window}
    IN /\ run # NULL /\ run.step = "adjust"
       /\ local' = [k \in DOMAIN local |->
              IF \E i \in there : datas[run.data].loc[i] = k
              THEN Adjusted(run.map[CHOOSE i \in there : datas[run.data].loc[i] = k]) ELSE local[k]]
       /\ run' = [run EXCEPT !.step = "erase", !.deleted = done]
       /\ UNCHANGED <<setup, now, datas, current, slowMap, tasks, updater>>

EraseDone ==
    LET left == [i \in DOMAIN slowMap \ run.deleted |-> slowMap[i]]
    IN /\ run # NULL /\ run.step = "erase"
       /\ slowMap' = left
       /\ run' = [run EXCEPT !.step = "commit", !.more = (run.deleted # {} => DOMAIN left # {})]
       /\ UNCHANGED <<setup, now, local, datas, current, tasks, updater>>

\* BuildCacheForDynamicWeight builds for the revision that is current now; the
\* version is that of the revision the task has.
CommitDynamicWeightVersion ==
    /\ run # NULL /\ run.step = "commit"
    /\ LET version == datas[run.data].version + 1
           built == IF current = NULL THEN datas ELSE WithRing(current, version)
       IN datas' = [built EXCEPT ![run.data].version = version]
    /\ tasks' = IF run.more THEN Append(tasks, now + 1) ELSE tasks
    /\ run' = NULL
    /\ UNCHANGED <<setup, now, local, current, slowMap, updater>>

----------------------------------------------------------------------------
\* A caller chooses: a ring that is missing is built.
ChooseInstance ==
    /\ current # NULL /\ datas[current].version \notin DOMAIN datas[current].rings
    /\ datas' = WithRing(current, datas[current].version)
    /\ UNCHANGED <<setup, now, local, current, slowMap, tasks, updater, run>>

Tick ==
    /\ now < setup.clock /\ calm
    /\ now' = now + 1
    /\ UNCHANGED <<setup, local, datas, current, slowMap, tasks, updater, run>>

Init ==
    /\ setup \in Setups
    /\ now = 0 /\ local = <<>> /\ datas = <<>> /\ current = NULL /\ slowMap = <<>> /\ tasks = <<>>
    /\ updater = NULL /\ run = NULL

Next == \/ ServiceInstanceUpdate \/ SubmitAdjust \/ UpdateInstances \/ UpdateNull
        \/ DoAdjustWithRcuTime \/ DoAdjust \/ EraseDone \/ CommitDynamicWeightVersion
        \/ ChooseInstance \/ Tick

Spec == Init /\ [][Next]_slowVars

----------------------------------------------------------------------------
\* While the map holds an instance exactly one task is there to serve it, also
\* when updates and the task interleave.  When they do not, an instance with a
\* reduced weight is in the map, so that its weight will be raised, and the
\* ring that callers use at the current version has the current weights.
SlowStartKept ==
    LET serving == Len(tasks) + (IF run # NULL /\ run.more THEN 1 ELSE 0)
                     + (IF updater # NULL /\ updater.step = "submit" /\ updater.create THEN 1 ELSE 0)
        d == datas[current]
    IN ~setup.nulls =>
         /\ DOMAIN slowMap # {} => serving = 1
         /\ setup.calm /\ updater = NULL /\ run = NULL /\ current # NULL =>
               /\ \A i \in Ids(current) : local[d.loc[i]] < Weight => i \in DOMAIN slowMap
               /\ d.version > 0 /\ d.version \in DOMAIN d.rings => d.rings[d.version] = RingOf(current, d.version)
=============================================================================
