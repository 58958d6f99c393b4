---------------------------- MODULE LoadBalancers ----------------------------
(* Choosing among the instances the routers left: the balancers as functions *)
(* of instances, weights and hash values, the backup instances of a         *)
(* response, and the budget of requests for half-open instances that the    *)
(* choosing threads share.                                                  *)
EXTENDS Integers, Sequences, SequencesExt, FiniteSets

CONSTANTS NULL, Setups

(* setup: instances, weights and hash values; halfData: half_open_data_,    *)
(* requests left per instance; tries: try_half_open_count_; released: the   *)
(* last_half_open_time_; clock: in ms; thread: calls under way; response:   *)
(* the last answer; given, releases (history): requests handed to half-open *)
(* instances since they became so, and times anyone was allowed to do that. *)
VARIABLES setup, halfData, tries, released, clock, thread, response, given, releases

vars == <<setup, halfData, tries, released, clock, thread, response, given, releases>>
counters == <<halfData, tries, released, given, releases>>

Instances == 1..Len(setup.weight)
HalfOpen == setup.halfOpen
Weight(i) == setup.weight[i]

SumOf(S) == FoldLeft(LAMBDA sum, i : IF i \in S THEN sum + Weight(i) ELSE sum, 0, [i \in Instances |-> i])
MaxOf(S) == CHOOSE x \in S : \A y \in S : x >= y
MinOf(S) == CHOOSE x \in S : \A y \in S : x <= y

-----------------------------------------------------------------------------
(* Weighted random: half-open instances only when there is no other.        *)

RandomPool ==
  LET normal == {i \in Instances \ HalfOpen : Weight(i) > 0}
  IN IF normal # {} THEN normal ELSE {i \in HalfOpen : Weight(i) > 0}

Cumulative(i) == SumOf({j \in RandomPool : j <= i})

(* A faulty variant: lower_bound, the first not below the number.           *)
WeightedRandomLower(number) == MinOf({i \in RandomPool : Cumulative(i) >= number})

(* upper_bound: the first instance whose running sum exceeds the number.    *)
WeightedRandom(number) == MinOf({i \in RandomPool : Cumulative(i) > number})

(* Simple hash: from the hashed place on, the first that is not half open.  *)
SimpleHash(key) ==
  LET n == Len(setup.weight)
      place(k) == ((key + k) % n) + 1
      normal == {k \in 0..n - 1 : place(k) \notin HalfOpen}
  IN place(IF normal = {} THEN 0 ELSE MinOf(normal))

-----------------------------------------------------------------------------
(* Maglev.  Weights are compared as numbers of the total.                   *)

(* A table being filled: slot numbers per entry, next and target per slot.  *)
EmptyTable == [entry |-> [e \in 0..setup.table - 1 |-> NULL], next |-> [i \in Instances |-> 0],
               target |-> [i \in Instances |-> 0]]

Permutation(i, next) == (setup.offset[i] + setup.skip[i] * next) % setup.table

Full(t) == \A e \in DOMAIN t.entry : t.entry[e] # NULL

(* The first free entry of the slot's permutation; next moves one further.  *)
Turn(t, iteration, i) ==
  LET free == CHOOSE n \in t.next[i]..t.next[i] + setup.table :
                /\ t.entry[Permutation(i, n)] = NULL
                /\ \A m \in t.next[i]..n - 1 : t.entry[Permutation(i, m)] # NULL
  IN IF Full(t) \/ iteration * Weight(i) < t.target[i] THEN t
     ELSE [entry |-> [t.entry EXCEPT ![Permutation(i, free)] = i],
           next |-> [t.next EXCEPT ![i] = free + 2],
           target |-> [t.target EXCEPT ![i] = @ + MaxOf({Weight(j) : j \in Instances})]]

MaglevTable ==
  FoldLeft(LAMBDA t, n : Turn(t, (n \div Len(setup.weight)) + 1, (n % Len(setup.weight)) + 1),
           EmptyTable, [n \in 1..setup.table * Len(setup.weight) |-> n - 1]).entry

Maglev(hash) == MaglevTable[hash % setup.table]

-----------------------------------------------------------------------------
(* Rings: functions from positions to instances.                            *)

(* ContinuumSelector: real and virtual nodes by weight. Conflicts are       *)
(* hashed again, so the hash values of a setup are distinct here.           *)
VirtualNodes(i) ==
  CASE setup.type = "ketamaGo" -> (Weight(i) * setup.vnodes) \div MaxOf({Weight(j) : j \in Instances})
    [] setup.type = "ketama" -> MaxOf({1, (Weight(i) * setup.vnodes * Len(setup.weight)) \div SumOf(Instances)})
    [] OTHER -> Weight(i)

Continuum(members) ==
  LET points == UNION {{<<setup.hash[i][k], i>> : k \in 1..VirtualNodes(i)} : i \in members}
  IN [position \in {p[1] : p \in points} |-> (CHOOSE p \in points : p[1] = position)[2]]

(* L5: of two instances with the same hash the heavier stays, then the one  *)
(* with the lower address.                                                  *)
InstanceCmp(a, b) == Weight(a) > Weight(b) \/ (Weight(a) = Weight(b) /\ a <= b)

Heaviest(members) == CHOOSE i \in members : \A j \in members : InstanceCmp(i, j)

BuildHashRing(members) ==
  LET points == UNION {{<<setup.hash[i][k], i>> : k \in 1..VirtualNodes(i)} : i \in members}
  IN [position \in {p[1] : p \in points} |-> Heaviest({i \in members : <<position, i>> \in points})]

RingOf(members) == IF setup.type = "l5" THEN BuildHashRing(members) ELSE Continuum(members)

(* Half-open instances are on the ring only if it would be empty.           *)
OrElseAll(ring) == IF DOMAIN ring # {} THEN ring ELSE RingOf(Instances)
Ring == OrElseAll(RingOf(Instances \ HalfOpen))

(* The ring from the hash value on, wrapping around.                        *)
Sorted(S) == [n \in 1..Cardinality(S) |-> CHOOSE p \in S : Cardinality({q \in S : q <= p}) = n]
From(order, hash) == SelectSeq(order, LAMBDA p : p >= hash) \o SelectSeq(order, LAMBDA p : p < hash)
WalkOn(ring, hash) ==
  LET order == From(Sorted(DOMAIN ring), hash)
  IN [n \in 1..Cardinality(DOMAIN ring) |-> ring[order[n]]]
Walk(hash) == WalkOn(Ring, hash)

Select(hash) == Head(Walk(hash))

Distinct(seq) ==
  FoldLeft(LAMBDA found, i : IF i \in ToSet(found) THEN found ELSE Append(found, i), <<>>, seq)

Replicate(found, index) ==
  IF index = 0 \/ Len(found) <= index THEN Head(found) ELSE found[index + 1]

(* A faulty variant: the next nodes, which may be of an instance again.     *)
SelectReplicateNode(hash, replicate) == Replicate(Walk(hash), replicate % Len(setup.weight))

(* The replicate-th other instance along the ring, or else the first again. *)
SelectReplicate(hash, replicate) == Replicate(Distinct(Walk(hash)), replicate % Len(setup.weight))

-----------------------------------------------------------------------------
RingTypes == {"ketama", "ketamaGo", "l5"}

(* ChooseInstance without half-open instances: all it may answer.           *)
ChooseInstance(key, index) ==
  CASE setup.type = "random" -> {WeightedRandom(number) : number \in 0..SumOf(RandomPool) - 1}
    [] setup.type = "simple" -> {SimpleHash(key)}
    [] setup.type = "maglev" -> {Maglev(key)}
    [] setup.type \in RingTypes -> {IF index = 0 THEN Select(key) ELSE SelectReplicate(key, index)}

(* GetBackupInstances: how many are wanted along the ring, one chosen more, *)
(* and all of them where no backup is half open ...                         *)
RingTarget == MinOf({setup.backups + 1, Len(setup.weight)})

Found(found, i) == IF Len(found) >= RingTarget \/ i \in ToSet(found) THEN found ELSE Append(found, i)

RingBackups(first, key) ==
  FoldLeft(Found, <<first>>, [i \in 1..Len(setup.weight) |-> SelectReplicate(key, i)])

(* ... or, for the others, from a random place through the list.            *)
ListBackups(first, start) ==
  LET n == Len(setup.weight)
      target == MinOf({setup.backups + 1, Cardinality(Instances \ HalfOpen)})
  IN FoldLeft(LAMBDA found, i : IF Len(found) >= target \/ i = first \/ i \in HalfOpen THEN found ELSE Append(found, i),
              <<first>>, [k \in 1..n |-> ((start + k) % n) + 1])

GetBackupInstances(first, key) ==
  IF setup.backups = 0 THEN {<<first>>}
  ELSE IF setup.type \in RingTypes THEN {RingBackups(first, key)}
  ELSE {ListBackups(first, start) : start \in Instances}

-----------------------------------------------------------------------------
kHalfOpenRequests == 20
kHalfOpenInterval == 2000

(* last, now: last_half_open_time_ and the time when a thread read them;    *)
(* found, index, key: the instances of the answer, replicate_index_ and     *)
(* hash key of an L5 call.                                                  *)
Idle == [pc |-> "idle", last |-> 0, now |-> 0, found |-> <<>>, index |-> 0, key |-> 0]

Init == /\ setup \in Setups
        /\ halfData = setup.data
        /\ tries = setup.tries
        /\ released = 0 /\ clock = setup.start
        /\ thread = [t \in setup.threads |-> Idle]
        /\ response = <<>>
        /\ given = [i \in Instances |-> 0] /\ releases = 0

At(t, pc) == thread[t].pc = pc
Goto(t, pc) == thread' = [thread EXCEPT ![t].pc = pc]

(* TryChooseHalfOpenInstance: one request in twenty, here counted up to     *)
(* twenty, ...                                                              *)
CountTry(t) ==
  /\ At(t, "idle")
  /\ IF DOMAIN halfData = {} \/ HalfOpen = {} THEN Goto(t, "choose") /\ tries' = tries
     ELSE tries' = MinOf({tries + 1, kHalfOpenRequests}) /\ Goto(t, IF tries + 1 < kHalfOpenRequests THEN "choose" ELSE "time")
  /\ UNCHANGED <<setup, halfData, released, clock, response, given, releases>>

(* ... and one in two seconds by the time that is read here, ...            *)
CheckTime(t) ==
  /\ At(t, "time")
  /\ thread' = [thread EXCEPT ![t] =
                   [@ EXCEPT !.pc = IF clock < released + kHalfOpenInterval THEN "choose" ELSE "claim",
                             !.last = released, !.now = clock]]
  /\ UNCHANGED <<setup, counters, clock, response>>

(* A faulty variant: the time is stored, not compared and exchanged.        *)
ClaimByStore(t) ==
  /\ At(t, "claim")
  /\ released' = thread[t].now /\ releases' = releases + 1 /\ Goto(t, "reset")
  /\ UNCHANGED <<setup, halfData, tries, clock, response, given>>

(* ... whoever stores the time it has read first.                           *)
Claim(t) ==
  /\ At(t, "claim")
  /\ IF thread[t].last = released
     THEN released' = thread[t].now /\ releases' = releases + 1 /\ Goto(t, "reset")
     ELSE Goto(t, "choose") /\ UNCHANGED <<released, releases>>
  /\ UNCHANGED <<setup, halfData, tries, clock, response, given>>

ResetTries(t) ==
  /\ At(t, "reset")
  /\ tries' = 0 /\ Goto(t, "take")
  /\ UNCHANGED <<setup, halfData, released, clock, response, given, releases>>

(* An instance was chosen.  The L5 balancer tries half-open instances for   *)
(* every backup again; the others choose the backups without them.          *)
Keys(t) == IF thread[t].index = 0 THEN setup.keys ELSE {thread[t].key}

Chosen(t, i, key) ==
  LET found == Found(thread[t].found, i)
  IN IF setup.type = "l5"
     THEN IF Len(found) < RingTarget /\ thread[t].index < Len(setup.weight)
          THEN /\ thread' = [thread EXCEPT ![t] = [Idle EXCEPT !.found = found, !.key = key,
                                                               !.index = thread[t].index + 1]]
               /\ UNCHANGED response
          ELSE response' = found /\ thread' = [thread EXCEPT ![t] = Idle]
     ELSE response' \in GetBackupInstances(i, key) /\ thread' = [thread EXCEPT ![t] = Idle]

(* With half_open_lock_: an instance with requests left, if there is one.   *)
TakeHalfOpen(t) ==
  LET open == {i \in HalfOpen \cap DOMAIN halfData : halfData[i] > 0}
  IN /\ At(t, "take")
     /\ \/ open = {} /\ Goto(t, "choose") /\ UNCHANGED <<halfData, given, response>>
        \/ \E i \in open : /\ halfData' = [halfData EXCEPT ![i] = @ - 1]
                           /\ given' = [given EXCEPT ![i] = @ + 1]
                           /\ \E key \in Keys(t) : Chosen(t, i, key)
     /\ UNCHANGED <<setup, tries, released, clock, releases>>

(* GetOneInstance: a chosen instance and its backups.                       *)
GetOneInstance(t) ==
  /\ At(t, "choose")
  /\ \E key \in Keys(t) : \E i \in ChooseInstance(key, thread[t].index) : Chosen(t, i, key)
  /\ UNCHANGED <<setup, counters, clock>>

(* SetCircuitBreakerData: an instance that stays half open keeps what it    *)
(* has left; when none is half open the first request after tries at once.  *)
SetCircuitBreakerData(half) ==
  /\ halfData' = [i \in half |-> IF i \in DOMAIN halfData THEN halfData[i] ELSE setup.requests]
  /\ given' = [i \in Instances |-> IF i \in half /\ i \in DOMAIN halfData THEN given[i] ELSE 0]
  /\ tries' = IF half = {} THEN kHalfOpenRequests ELSE tries
  /\ UNCHANGED <<setup, released, clock, thread, response, releases>>

Tick == /\ clock < setup.end /\ clock' = clock + 1000
        /\ UNCHANGED <<setup, counters, thread, response>>

Next == \/ \E t \in DOMAIN thread : CountTry(t) \/ CheckTime(t) \/ Claim(t) \/ ResetTries(t)
                                  \/ TakeHalfOpen(t) \/ GetOneInstance(t)
        \/ \E half \in setup.changes : SetCircuitBreakerData(half)
        \/ Tick

Spec == Init /\ [][Next]_vars

-----------------------------------------------------------------------------
(* Properties *)

TypeOK == tries \in 0..kHalfOpenRequests /\ DOMAIN halfData \subseteq Instances

(* Whatever threads choose at a time and however long one stalls between    *)
(* reading the time and storing it, half-open instances are released no     *)
(* more than once in two seconds from the start on (two releases may be     *)
(* closer when the first was late), and an instance gets no more requests   *)
(* while it stays half open than the breaker allowed, also across updates   *)
(* of the breaker's data (Service::TryChooseHalfOpenInstance).              *)
HalfOpenBudget ==
  /\ kHalfOpenInterval * (releases - 1) <= clock - setup.start
  /\ \A i \in Instances : given[i] <= setup.requests

(* A response names no instance twice, no half-open one as backup unless    *)
(* there are no others, and as many as asked for if there are enough.  The  *)
(* backups of the L5 balancer may be half open, each taken from the budget, *)
(* and then one that was asked for may be missing.                          *)
(* (ConsumerApiImpl::GetBackupInstances with SelectReplicate)               *)
BackupsComplete ==
  LET normal == IF setup.type \in RingTypes THEN {Ring[p] : p \in DOMAIN Ring} ELSE Instances \ HalfOpen
      enough == Len(response) >= MinOf({setup.backups + 1, Cardinality(normal)})
  IN response # <<>> => /\ IsInjective(response)
                        /\ Len(response) <= setup.backups + 1
                        /\ IF setup.type = "l5"
                           THEN ToSet(response) \subseteq normal => enough
                           ELSE enough /\ ToSet(Tail(response)) \subseteq normal

(* Weighted random answers each instance to as many numbers as it has       *)
(* weight; a maglev table leaves no entry empty and gives a heavier         *)
(* instance at most one entry less than a lighter one.                      *)
SharesFollowWeights ==
  /\ setup.type = "random" =>
       \A i \in RandomPool : Cardinality({n \in 0..SumOf(RandomPool) - 1 : WeightedRandom(n) = i}) = Weight(i)
  /\ setup.type = "maglev" =>
       LET table == MaglevTable
           entries(i) == Cardinality({e \in DOMAIN table : table[e] = i})
       IN /\ \A e \in DOMAIN table : table[e] # NULL
          /\ \A i, j \in Instances : Weight(i) >= Weight(j) => entries(i) + 1 >= entries(j)

(* Each balancer answers with the instances, and in the shares, it is      *)
(* configured for.                                                          *)
ChoicesFair == BackupsComplete /\ SharesFollowWeights
=============================================================================
