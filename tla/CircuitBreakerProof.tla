------------------------ MODULE CircuitBreakerProof ------------------------
(***************************************************************************)
(* Proofs about CircuitBreaker, for any number of instances and callers    *)
(* and every configuration.  BaseInv says where each thread can be; on it  *)
(* rest three inductive invariants that do not need each other:            *)
(*   RegistryInv  what the local registry and the chain know of each other *)
(*   FollowInv    what the threads know of the status the chain has, which *)
(*                each of them writes to a breaker in a later step         *)
(*   EarnedInv    what a half-open object has counted and who owns it      *)
(* Every action is first shown to do what its "Does" lemma says, with its  *)
(* record updates written out; the invariants are proved from those.       *)
(***************************************************************************)
EXTENDS CircuitBreaker, FiniteSetTheorems, TLAPS

-----------------------------------------------------------------------------
\* Where the threads are

StatusType == [st : Status, err : Nat, succ : Nat, total : Nat, wtotal : Nat, werr : Nat, age : Ages]
CallPc == {"idle", "count", "count_add", "count_trip", "count_status", "count_time",
           "rate", "rate_total", "rate_err", "sync", "submit", "push"}
CallType == [pc : CallPc, inst : Instances \cup {None}, ok : BOOLEAN, gen : 0 .. MaxGen,
             seen : Status, old : BOOLEAN, read : 0 .. MaxVersion]
Cleaning == {"clean_open", "clean_half", "clean_delete"}
Deciding == {"translate", "status"}

\* What a thread is about, wherever it stands.
CallInv ==
    \A r \in Callers :
      /\ call[r].pc # "idle" => call[r].inst \in Instances
      /\ call[r].pc = "count_add" /\ call[r].seen = "open" => call[r].ok
      /\ call[r].pc = "count_trip" => call[r].seen # "open"

TimingInv ==
    /\ timing.pc \in Deciding \cup Cleaning \cup {"reset"} => timing.inst \in Instances
    /\ timing.pc \in Deciding \cup {"reset"} => timing.inst \notin timing.todo
    /\ timing.pc \in Cleaning => gen[timing.k][timing.inst] < MaxGen
    /\ timing.pc \in Deciding =>
         /\ timing.to = "half" => timing.from = "open" /\ When = "never"
         /\ timing.to = "close" => timing.from = "half"
         /\ timing.from = "close" => timing.k = Rate
         /\ timing.from # timing.to

DetectInv ==
    /\ detect.pc # "idle" => detect.inst \in Instances /\ detect.k <= LastIndex /\ When # "never"
    /\ detect.pc # "idle" /\ detect.to = "half" => detect.from = "open" /\ When = "on_recover"
    /\ detect.pc # "idle" /\ When = "on_recover" => detect.to = "half"
    /\ detect.pc \in {"half_status", "half_reset"} => detect.to = "half"

ChainInv == \A i \in Instances : chain[i].owner = 0 <=> chain[i].status = "close"

BaseInv == TypeOK /\ CallInv /\ TimingInv /\ DetectInv /\ ChainInv

-----------------------------------------------------------------------------
\* The local registry

\* A thread is about to submit a version the registry has, or a later one.
Tells(t) == t.pc = "submit" \/ (t.pc = "push" /\ lastUpdate <= t.read)

RegistryInv ==
    ~Expiry =>
      /\ reg.known /\ ~expiring
      /\ reg.version = lastUpdate /\ lastUpdate <= version /\ submitted.newest <= version
      /\ timing.pc = "push" => timing.read <= version
      /\ \A r \in Callers : call[r].pc = "push" => call[r].read <= version
      /\ lastUpdate = version => reg.open = OpenIn(chain) /\ reg.half = HalfIn(chain)
      /\ lastUpdate <= submitted.newest \/ Tells(timing) \/ \E r \in Callers : Tells(call[r])

-----------------------------------------------------------------------------
\* What a breaker knows of the chain

Opened == [status |-> "open", owner |-> Count]
CSt(i) == stat[Count][i][0].st
RSt(i) == stat[Rate][i][0].st

\* The executor has changed the chain for breaker k and not yet its status.
Pending(k, i) == timing.pc = "status" /\ timing.k = k /\ timing.inst = i
Decided(k, i) == timing.pc \in Deciding /\ timing.k = k /\ timing.inst = i
Tripped(r, i) == call[r].pc = "count_status" /\ call[r].inst = i

\* A caller that read status s of errorCount and may act on it.
Saw(r, i, s) == call[r].pc \in {"count_add", "count_trip"} /\ call[r].inst = i /\ call[r].seen = s

\* No pass looks at errorCount's status x of an instance while r is inside.
NotLooked(r, i, x) ==
    /\ timing.pc = "idle" => call[r].old \/ CSt(i) # x
    /\ timing.pc # "idle" /\ timing.k = Count /\ i \in timing.todo => CSt(i) # x
    /\ Decided(Count, i) => timing.from # x

AloneInv ==
    /\ \A k \in Breakers, i \in Instances : gen[k][i] = 0
    /\ setup.threads = 1 =>
         \A r, q \in Callers : call[r].pc # "idle" /\ call[q].pc # "idle" => r = q

SeenAt(r, i) ==
    /\ Saw(r, i, "close") => NotLooked(r, i, "half")
    /\ setup.threads = 1 /\ Saw(r, i, "half") => NotLooked(r, i, "open")

TrippedAt(r, i) ==
    Tripped(r, i) =>
      /\ chain[i] = Opened
      /\ \A q \in Callers : Tripped(q, i) => q = r
      /\ Pending(Count, i) => timing.to = "half"
      /\ ~Pending(Count, i) => CSt(i) # "open"

PendingAt(i) ==
    /\ Decided(Count, i) /\ timing.from = "open" => CSt(i) = "open"
    /\ Decided(Count, i) /\ timing.from = "half" => CSt(i) # "close"
    /\ Pending(Count, i) =>
         /\ timing.to = "half"  => \/ chain[i] = [status |-> "half", owner |-> Count]
                                   \/ chain[i] = Opened /\ setup.threads > 1
         /\ timing.to = "close" => chain[i].owner = 0
         /\ timing.to = "open"  => chain[i] = Opened
    /\ Pending(Rate, i) =>
         /\ timing.to = "close" => chain[i].owner # Rate
         /\ timing.to # "close" => chain[i] = [status |-> timing.to, owner |-> Rate]

KnownAt(i) ==
    /\ ~Pending(Count, i) /\ (\A r \in Callers : ~Tripped(r, i)) =>
         CSt(i) = StatusFor(Count, i) \/ LeftHalfOpen(Count, i)
    /\ ~Pending(Rate, i) => RSt(i) = StatusFor(Rate, i)

SeenInv    == \A r \in Callers, i \in Instances : SeenAt(r, i)
TrippedInv == \A r \in Callers, i \in Instances : TrippedAt(r, i)
PendingInv == \A i \in Instances : PendingAt(i)
KnownInv   == \A i \in Instances : KnownAt(i)

FollowCore == AloneInv /\ SeenInv /\ TrippedInv /\ PendingInv /\ KnownInv

FollowInv == Undisturbed => FollowCore

-----------------------------------------------------------------------------
\* What a breaker has counted

\* The executor is about to rewrite the object, or to give it up.
Busy(k, i) ==
    timing.pc \in {"status", "reset", "clean_half", "clean_delete"} /\ timing.k = k /\ timing.inst = i

\* Failed calls that errorRate has in total_count and not in error_count.
Uncounted(i) ==
    {r \in Callers : /\ call[r].pc = "rate_err" /\ call[r].inst = i
                     /\ call[r].seen = "half" /\ call[r].gen = gen[Rate][i]}

HalfAt(k, i) ==
    /\ \A g \in 0 .. MaxGen : stat[k][i][g].st = "half" => g <= gen[k][i] /\ When = "never"
    /\ Counted(k, i).st = "half" /\ ~Busy(k, i) => chain[i].owner = k
    /\ timing.pc = "status" /\ Busy(k, i) /\ timing.to = "half" => chain[i].owner = k
    /\ timing.pc = "reset" /\ Busy(k, i) /\ Counted(k, i).st = "half" =>
         timing.to = "half" /\ chain[i].owner = k

CountAt(i) ==
    Counted(Count, i).st = "half" /\ ~Busy(Count, i) => Counted(Count, i).succ <= earned[i]

RateAt(i) ==
    Counted(Rate, i).st = "half" /\ ~Busy(Rate, i) =>
      \/ earned[i] = SuccessAfterHalfOpen
      \/ Counted(Rate, i).total <= Counted(Rate, i).err + earned[i] + Cardinality(Uncounted(i))

HalfInv == \A k \in Breakers, i \in Instances : HalfAt(k, i)
CountedInv == \A i \in Instances : earned[i] <= SuccessAfterHalfOpen /\ CountAt(i) /\ RateAt(i)

EarnedInv == When # "on_recover" => HalfInv /\ CountedInv

-----------------------------------------------------------------------------
\* How an action changes the state, with its updates written out.

StatsType == [Breakers -> [Instances -> [0 .. MaxGen -> StatusType]]]

\* Caller r goes on to p with an object and a status it has read.
Moved(r, p, g, s) ==
    /\ call' \in [Callers -> CallType]
    /\ call'[r] = [pc |-> p, inst |-> call[r].inst, ok |-> call[r].ok, gen |-> g, seen |-> s,
                   old |-> call[r].old, read |-> call'[r].read]
    /\ \A q \in Callers \ {r} : call'[q] = call[q]

\* Breaker k's object g of instance i becomes s.
Wrote(k, i, g, s) ==
    /\ stat' \in StatsType /\ s \in StatusType
    /\ \A b \in Breakers, j \in Instances, h \in 0 .. MaxGen :
         stat'[b][j][h] = IF b = k /\ j = i /\ h = g THEN s ELSE stat[b][j][h]

\* What TryTranslate does to the chain.
Tried(k, i, from, to) ==
    /\ chain' \in [Instances -> [status : Status, owner : 0 .. Health]]
    /\ version' \in 0 .. MaxVersion /\ version <= version'
    /\ earned' \in [Instances -> Nat]
    /\ \A j \in Instances : j # i => chain'[j] = chain[j] /\ earned'[j] = earned[j]
    /\ Translatable(k, i, from) =>
         /\ version' = version + 1
         /\ chain'[i] = IF to = "close" THEN DefaultChainStatus ELSE [status |-> to, owner |-> k]
         /\ earned'[i] = IF to = "half" THEN 0 ELSE earned[i]
    /\ ~Translatable(k, i, from) => UNCHANGED chainVars

LEMMA SetupTyped ==
    ASSUME setup \in Setups
    PROVE  /\ setup \in SetupType /\ MaxGen \in Nat /\ LongWait \in Nat \ {0} /\ MaxVersion \in Nat \ {0}
           /\ When \in {"never", "always", "on_recover"} /\ setup.threads \in Nat \ {0}
           /\ CallersStall \in BOOLEAN /\ Expiry \in BOOLEAN
BY ConstantsAssumption DEF SetupType, MaxGen, LongWait, MaxVersion, When, CallersStall, Expiry

LEMMA StatWritten ==
    ASSUME stat \in StatsType, NEW k \in Breakers, NEW i \in Instances, NEW g \in 0 .. MaxGen,
           NEW s \in StatusType, stat' = [stat EXCEPT ![k][i][g] = s]
    PROVE  Wrote(k, i, g, s)
<1> DEFINE G == 0 .. MaxGen
           f == [stat[k][i] EXCEPT ![g] = s]
           h == [stat[k] EXCEPT ![i] = f]
<1>1. stat \in [Breakers -> [Instances -> [G -> StatusType]]]
  BY DEF StatsType
<1>2. g \in G
  OBVIOUS
<1> HIDE DEF G
<1>3. stat[k] \in [Instances -> [G -> StatusType]] /\ stat[k][i] \in [G -> StatusType]
  BY <1>1
<1>4. f \in [G -> StatusType] /\ f[g] = s /\ \A x \in G : x # g => f[x] = stat[k][i][x]
  BY <1>2, <1>3
<1>5. stat' = [stat EXCEPT ![k] = h]
  OBVIOUS
<1> HIDE DEF f
<1>6. h \in [Instances -> [G -> StatusType]] /\ h[i] = f /\ \A y \in Instances : y # i => h[y] = stat[k][y]
  BY <1>3, <1>4
<1> HIDE DEF h
<1>7. /\ stat' \in [Breakers -> [Instances -> [G -> StatusType]]] /\ stat'[k] = h
      /\ \A x \in Breakers : x # k => stat'[x] = stat[x]
  BY <1>1, <1>5, <1>6
<1>8. ASSUME NEW b \in Breakers, NEW j \in Instances, NEW x \in G
      PROVE  stat'[b][j][x] = IF b = k /\ j = i /\ x = g THEN s ELSE stat[b][j][x]
  BY <1>4, <1>6, <1>7
<1> QED
  BY <1>7, <1>8 DEF Wrote, G, StatsType

LEMMA CallMoved ==
    ASSUME call \in [Callers -> CallType], NEW r \in Callers
    PROVE  /\ \A p \in CallPc : Goto(r, p) => Moved(r, p, call[r].gen, call[r].seen)
           /\ \A p \in CallPc : setup \in Setups /\ ReturnTo(r, p) => Moved(r, p, 0, "close")
           /\ \A p \in CallPc, g \in 0 .. MaxGen, s \in Status :
                call' = [call EXCEPT ![r].gen = g, ![r].seen = s, ![r].pc = p] => Moved(r, p, g, s)
<1>1. call[r] \in CallType
  OBVIOUS
<1>2. \A c \in CallType : call' = [call EXCEPT ![r] = c] =>
        /\ call' \in [Callers -> CallType] /\ call'[r] = c /\ \A q \in Callers \ {r} : call'[q] = call[q]
  OBVIOUS
<1>3. ASSUME NEW p \in CallPc, Goto(r, p) PROVE Moved(r, p, call[r].gen, call[r].seen)
  <2>1. [call[r] EXCEPT !.pc = p] = [pc |-> p, inst |-> call[r].inst, ok |-> call[r].ok,
           gen |-> call[r].gen, seen |-> call[r].seen, old |-> call[r].old, read |-> call[r].read]
    BY <1>1 DEF CallType
  <2>2. [call[r] EXCEPT !.pc = p] \in CallType
    BY <1>1 DEF CallType
  <2>3. call' = [call EXCEPT ![r] = [call[r] EXCEPT !.pc = p]]
    BY <1>3 DEF Goto
  <2> QED
    BY <1>2, <2>1, <2>2, <2>3 DEF Moved
<1>4. ASSUME NEW p \in CallPc, NEW g \in 0 .. MaxGen, NEW s \in Status,
             \/ call' = [call EXCEPT ![r] = [call[r] EXCEPT !.pc = p, !.gen = g, !.seen = s]]
             \/ call' = [call EXCEPT ![r] = [call[r] EXCEPT !.gen = g, !.seen = s, !.pc = p]]
      PROVE  Moved(r, p, g, s)
  <2> DEFINE c == [pc |-> p, inst |-> call[r].inst, ok |-> call[r].ok, gen |-> g, seen |-> s,
                   old |-> call[r].old, read |-> call[r].read]
  <2>1. c \in CallType
    BY <1>1 DEF CallType
  <2>2. /\ [call[r] EXCEPT !.pc = p, !.gen = g, !.seen = s] = c
        /\ [call[r] EXCEPT !.gen = g, !.seen = s, !.pc = p] = c
    <3>1. PICK x \in CallType : x = call[r]
      BY <1>1
    <3>2. /\ [x EXCEPT !.pc = p, !.gen = g, !.seen = s] =
                [pc |-> p, inst |-> x.inst, ok |-> x.ok, gen |-> g, seen |-> s, old |-> x.old, read |-> x.read]
          /\ [x EXCEPT !.gen = g, !.seen = s, !.pc = p] =
                [pc |-> p, inst |-> x.inst, ok |-> x.ok, gen |-> g, seen |-> s, old |-> x.old, read |-> x.read]
      <4>1. \A d \in CallType : [d EXCEPT !.pc = p] =
              [pc |-> p, inst |-> d.inst, ok |-> d.ok, gen |-> d.gen, seen |-> d.seen, old |-> d.old, read |-> d.read]
        BY DEF CallType
      <4>2. \A d \in CallType : [d EXCEPT !.gen = g] =
              [pc |-> d.pc, inst |-> d.inst, ok |-> d.ok, gen |-> g, seen |-> d.seen, old |-> d.old, read |-> d.read]
        BY DEF CallType
      <4>3. \A d \in CallType : [d EXCEPT !.seen = s] =
              [pc |-> d.pc, inst |-> d.inst, ok |-> d.ok, gen |-> d.gen, seen |-> s, old |-> d.old, read |-> d.read]
        BY DEF CallType
      <4> DEFINE a == [x EXCEPT !.pc = p]
                 b == [a EXCEPT !.gen = g]
                 u == [x EXCEPT !.gen = g]
                 v == [u EXCEPT !.seen = s]
      <4>4. a \in CallType /\ a = [pc |-> p, inst |-> x.inst, ok |-> x.ok, gen |-> x.gen, seen |-> x.seen, old |-> x.old, read |-> x.read]
        BY <4>1 DEF CallType
      <4>5. u \in CallType /\ u = [pc |-> x.pc, inst |-> x.inst, ok |-> x.ok, gen |-> g, seen |-> x.seen, old |-> x.old, read |-> x.read]
        BY <4>2 DEF CallType
      <4>6. [x EXCEPT !.pc = p, !.gen = g, !.seen = s] = [b EXCEPT !.seen = s]
        OBVIOUS
      <4>7. [x EXCEPT !.gen = g, !.seen = s, !.pc = p] = [v EXCEPT !.pc = p]
        OBVIOUS
      <4> HIDE DEF a, u
      <4>8. b \in CallType /\ b = [pc |-> p, inst |-> x.inst, ok |-> x.ok, gen |-> g, seen |-> x.seen, old |-> x.old, read |-> x.read]
        BY <4>2, <4>4 DEF CallType
      <4>9. v \in CallType /\ v = [pc |-> x.pc, inst |-> x.inst, ok |-> x.ok, gen |-> g, seen |-> s, old |-> x.old, read |-> x.read]
        BY <4>3, <4>5 DEF CallType
      <4> HIDE DEF b, v
      <4> QED
        BY <4>1, <4>3, <4>6, <4>7, <4>8, <4>9
    <3> QED
      BY <3>1, <3>2
  <2>3. call' = [call EXCEPT ![r] = c]
    BY <1>4, <2>2
  <2> HIDE DEF c
  <2>4. call' \in [Callers -> CallType] /\ call'[r] = c /\ \A q \in Callers \ {r} : call'[q] = call[q]
    BY <1>2, <2>1, <2>3
  <2> QED
    BY <2>4 DEF Moved, c
<1>5. ASSUME NEW p \in CallPc, setup \in Setups, ReturnTo(r, p) PROVE Moved(r, p, 0, "close")
  <2>1. 0 \in 0 .. MaxGen /\ "close" \in Status
    BY <1>5, SetupTyped DEF Status
  <2>2. call' = [call EXCEPT ![r] = [call[r] EXCEPT !.pc = p, !.gen = 0, !.seen = "close"]]
    BY <1>5 DEF ReturnTo
  <2> QED
    BY <1>4, <2>1, <2>2
<1>6. ASSUME NEW p \in CallPc, NEW g \in 0 .. MaxGen, NEW s \in Status,
             call' = [call EXCEPT ![r].gen = g, ![r].seen = s, ![r].pc = p]
      PROVE  Moved(r, p, g, s)
  <2>1. call' = [call EXCEPT ![r] = [call[r] EXCEPT !.gen = g, !.seen = s, !.pc = p]]
    BY <1>6
  <2> QED
    BY <1>4, <2>1
<1> QED
  BY <1>3, <1>5, <1>6

LEMMA ChainTried ==
    ASSUME BaseInv, NEW k \in 1 .. Health, NEW i \in Instances, NEW from, NEW to \in Status,
           TryTranslate(k, i, from, to)
    PROVE  Tried(k, i, from, to)
<1> USE DEF Health
<1>1. /\ chain \in [Instances -> [status : Status, owner : 0 .. Health]] /\ earned \in [Instances -> Nat]
      /\ version \in 0 .. MaxVersion /\ MaxVersion \in Nat
  BY SetupTyped DEF BaseInv, TypeOK
<1>2. CASE Translatable(k, i, from)
  <2> DEFINE c == IF to = "close" THEN DefaultChainStatus ELSE [status |-> to, owner |-> k]
  <2>1. c \in [status : Status, owner : 0 .. Health]
    BY DEF DefaultChainStatus, Status
  <2>2. /\ version < MaxVersion /\ version' = version + 1 /\ chain' = [chain EXCEPT ![i] = c]
        /\ earned' = IF to = "half" THEN [earned EXCEPT ![i] = 0] ELSE earned
    BY <1>2 DEF TryTranslate, Translated
  <2> HIDE DEF c
  <2>3. /\ chain' \in [Instances -> [status : Status, owner : 0 .. Health]] /\ chain'[i] = c
        /\ \A j \in Instances : j # i => chain'[j] = chain[j]
    BY <1>1, <2>1, <2>2
  <2>4. /\ earned' \in [Instances -> Nat] /\ earned'[i] = IF to = "half" THEN 0 ELSE earned[i]
        /\ \A j \in Instances : j # i => earned'[j] = earned[j]
    BY <1>1, <2>2
  <2>5. version' \in 0 .. MaxVersion /\ version <= version'
    BY <1>1, <2>2
  <2> QED
    BY <1>2, <2>2, <2>3, <2>4, <2>5 DEF Tried, c
<1>3. CASE ~Translatable(k, i, from)
  BY <1>1, <1>3 DEF TryTranslate, Tried, chainVars
<1> QED
  BY <1>2, <1>3

LEMMA Typed ==
    ASSUME BaseInv
    PROVE  /\ call \in [Callers -> CallType] /\ stat \in StatsType
           /\ gen \in [Breakers -> [Instances -> 0 .. MaxGen]] /\ live \in [Breakers -> [Instances -> BOOLEAN]]
           /\ MaxGen \in Nat /\ LongWait \in Nat \ {0} /\ MaxVersion \in Nat \ {0}
           /\ \A k \in Breakers, i \in Instances, g \in 0 .. MaxGen : stat[k][i][g] \in StatusType
           /\ \A k \in Breakers, i \in Instances :
                gen[k][i] \in 0 .. MaxGen /\ Counted(k, i) \in StatusType
           /\ \A r \in Callers : call[r] \in CallType
<1>1. /\ call \in [Callers -> CallType] /\ stat \in StatsType
      /\ gen \in [Breakers -> [Instances -> 0 .. MaxGen]] /\ live \in [Breakers -> [Instances -> BOOLEAN]]
  <2>1. call \in [Callers -> CallType]
    BY DEF BaseInv, TypeOK, CallType, CallPc
  <2>2. stat \in StatsType
    BY DEF BaseInv, TypeOK, StatsType, StatusType
  <2>3. gen \in [Breakers -> [Instances -> 0 .. MaxGen]] /\ live \in [Breakers -> [Instances -> BOOLEAN]]
    BY DEF BaseInv, TypeOK
  <2> QED
    BY <2>1, <2>2, <2>3
<1>2. MaxGen \in Nat /\ LongWait \in Nat \ {0} /\ MaxVersion \in Nat \ {0}
  <2>1. setup \in Setups
    BY DEF BaseInv, TypeOK
  <2> QED
    BY <2>1, SetupTyped
<1>3. \A k \in Breakers, i \in Instances, g \in 0 .. MaxGen : stat[k][i][g] \in StatusType
  <2> TAKE k \in Breakers, i \in Instances, g \in 0 .. MaxGen
  <2>1. stat[k] \in [Instances -> [0 .. MaxGen -> StatusType]]
    BY <1>1 DEF StatsType
  <2>2. stat[k][i] \in [0 .. MaxGen -> StatusType]
    BY <2>1
  <2> QED
    BY <2>2
<1>4. \A k \in Breakers, i \in Instances : gen[k][i] \in 0 .. MaxGen
  BY <1>1
<1>5. \A k \in Breakers, i \in Instances : Counted(k, i) \in StatusType
  BY <1>3, <1>4 DEF Counted
<1> QED
  BY <1>1, <1>2, <1>3, <1>4, <1>5

LEMMA ReportDoes ==
    ASSUME BaseInv, NEW r \in Callers, Report(r)
    PROVE  /\ call' \in [Callers -> CallType]
           /\ call[r].pc = "idle" /\ Cardinality(Calling) < setup.threads
           /\ call'[r].pc = "count" /\ call'[r].inst \in Instances /\ ~call'[r].old
           /\ \A q \in Callers \ {r} : call'[q] = call[q]
           /\ UNCHANGED <<chainVars, statVars, regVars, timing, detect>>
<1>1. setup.results \in SUBSET BOOLEAN
  BY SetupTyped DEF SetupType, BaseInv, TypeOK
<1>2. PICK i \in Instances, ok \in BOOLEAN :
         call' = [call EXCEPT ![r] = [IdleCall EXCEPT !.pc = "count", !.inst = i, !.ok = ok]]
  BY <1>1 DEF Report
<1> DEFINE a == [IdleCall EXCEPT !.pc = "count"]
           b == [a EXCEPT !.inst = i]
           c == [b EXCEPT !.ok = ok]
<1>3. IdleCall \in CallType
  BY Typed DEF IdleCall, CallType, CallPc, Status
<1>4. a \in CallType /\ a.pc = "count" /\ ~a.old
  BY <1>3 DEF CallType, CallPc, IdleCall
<1>5. call' = [call EXCEPT ![r] = c]
  BY <1>2
<1> HIDE DEF a
<1>6. b \in CallType /\ b.pc = "count" /\ b.inst = i /\ ~b.old
  BY <1>4 DEF CallType
<1> HIDE DEF b
<1>7. c \in CallType /\ c.pc = "count" /\ c.inst = i /\ ~c.old
  BY <1>6 DEF CallType
<1> HIDE DEF c
<1>8. call' \in [Callers -> CallType] /\ call'[r] = c /\ \A q \in Callers \ {r} : call'[q] = call[q]
  BY <1>5, <1>7, Typed
<1>9. /\ call[r].pc = "idle" /\ Cardinality(Calling) < setup.threads
      /\ UNCHANGED <<chainVars, statVars, regVars, timing, detect>>
  BY DEF Report
<1> QED
  BY <1>7, <1>8, <1>9

LEMMA ReadDoes ==
    ASSUME BaseInv, NEW r \in Callers, NEW k \in Breakers, NEW p \in CallPc \ {"idle"}, NEW next \in [Status -> CallPc],
           ReadStatus(r, k, p, next)
    PROVE  LET s == Counted(k, call[r].inst).st
           IN  /\ call[r].pc = p /\ call[r].inst \in Instances /\ s \in Status
               /\ Moved(r, next[s], gen[k][call[r].inst], s)
               /\ live' \in [Breakers -> [Instances -> BOOLEAN]]
               /\ UNCHANGED <<chainVars, stat, gen, regVars, timing, detect>>
<1> DEFINE i == call[r].inst
           s == Counted(k, i).st
<1>1. /\ call[r].pc = p /\ GetOrCreate(k, i)
      /\ call' = [call EXCEPT ![r].gen = gen[k][i], ![r].seen = s, ![r].pc = next[s]]
      /\ UNCHANGED <<chainVars, stat, gen, regVars, timing, detect>>
  BY DEF ReadStatus
<1>2. i \in Instances
  BY <1>1 DEF BaseInv, CallInv
<1>3. s \in Status /\ gen[k][i] \in 0 .. MaxGen
  BY <1>2, Typed DEF StatusType
<1>4. live' \in [Breakers -> [Instances -> BOOLEAN]]
  BY <1>1, <1>2, Typed DEF GetOrCreate
<1>5. PICK t \in Status, g \in 0 .. MaxGen : t = s /\ g = gen[k][i]
  BY <1>3
<1>6. next[t] \in CallPc
  OBVIOUS
<1>7. call' = [call EXCEPT ![r].gen = g, ![r].seen = t, ![r].pc = next[t]]
  BY <1>1, <1>5
<1>8. Moved(r, next[t], g, t)
  BY <1>6, <1>7, Typed, CallMoved
<1> QED
  BY <1>1, <1>2, <1>3, <1>4, <1>5, <1>8

LEMMA CountReadDoes ==
    ASSUME BaseInv, NEW r \in Callers, CountRead(r)
    PROVE  LET s == Counted(Count, call[r].inst).st
           IN  /\ call[r].pc = "count" /\ call[r].inst \in Instances /\ s \in Status
               /\ Moved(r, IF s = "open" /\ ~call[r].ok THEN "rate" ELSE "count_add", gen[Count][call[r].inst], s)
               /\ live' \in [Breakers -> [Instances -> BOOLEAN]]
               /\ UNCHANGED <<chainVars, stat, gen, regVars, timing, detect>>
<1> DEFINE next == [s \in Status |-> IF s = "open" /\ ~call[r].ok THEN "rate" ELSE "count_add"]
<1>1. next \in [Status -> CallPc] /\ Count \in Breakers
  BY DEF CallPc, Breakers
<1>2. ReadStatus(r, Count, "count", next)
  BY DEF CountRead
<1>3. \A s \in Status : next[s] = IF s = "open" /\ ~call[r].ok THEN "rate" ELSE "count_add"
  OBVIOUS
<1> HIDE DEF next
<1>4. LET s == Counted(Count, call[r].inst).st
      IN  /\ call[r].pc = "count" /\ call[r].inst \in Instances /\ s \in Status
          /\ Moved(r, next[s], gen[Count][call[r].inst], s)
          /\ live' \in [Breakers -> [Instances -> BOOLEAN]]
          /\ UNCHANGED <<chainVars, stat, gen, regVars, timing, detect>>
  BY <1>1, <1>2, ReadDoes DEF CallPc
<1> QED
  BY <1>3, <1>4

LEMMA RateReadDoes ==
    ASSUME BaseInv, NEW r \in Callers, RateRead(r)
    PROVE  LET s == Counted(Rate, call[r].inst).st
           IN  /\ call[r].pc = "rate" /\ call[r].inst \in Instances /\ s \in Status
               /\ Moved(r, "rate_total", gen[Rate][call[r].inst], s)
               /\ live' \in [Breakers -> [Instances -> BOOLEAN]]
               /\ UNCHANGED <<chainVars, stat, gen, regVars, timing, detect>>
<1> DEFINE next == [s \in Status |-> "rate_total"]
<1>1. next \in [Status -> CallPc] /\ Rate \in Breakers
  BY DEF CallPc, Breakers
<1>2. ReadStatus(r, Rate, "rate", next)
  BY DEF RateRead
<1>3. \A s \in Status : next[s] = "rate_total"
  OBVIOUS
<1> HIDE DEF next
<1>4. LET s == Counted(Rate, call[r].inst).st
      IN  /\ call[r].pc = "rate" /\ call[r].inst \in Instances /\ s \in Status
          /\ Moved(r, next[s], gen[Rate][call[r].inst], s)
          /\ live' \in [Breakers -> [Instances -> BOOLEAN]]
          /\ UNCHANGED <<chainVars, stat, gen, regVars, timing, detect>>
  BY <1>1, <1>2, ReadDoes DEF CallPc
<1> QED
  BY <1>3, <1>4

\* A caller that counts a success of a half-open instance for its owner k.
Counts(r, k) ==
    /\ earned' \in [Instances -> Nat]
    /\ \A j \in Instances : j # call[r].inst => earned'[j] = earned[j]
    /\ earned'[call[r].inst] = IF chain[call[r].inst].owner = k
                                 THEN Least(earned[call[r].inst] + 1, SuccessAfterHalfOpen)
                                 ELSE earned[call[r].inst]

LEMMA CallerAt ==
    ASSUME BaseInv, NEW r \in Callers, call[r].pc # "idle"
    PROVE  /\ call[r].inst \in Instances /\ call[r].gen \in 0 .. MaxGen
           /\ \A k \in Breakers : /\ StatOf(r, k) \in StatusType
                                  /\ \A s \in StatusType : WriteStat(r, k, s) =>
                                       Wrote(k, call[r].inst, call[r].gen, s)
           /\ earned \in [Instances -> Nat] /\ SuccessAfterHalfOpen \in Nat
<1>1. call[r].inst \in Instances /\ call[r].gen \in 0 .. MaxGen
  BY Typed DEF BaseInv, CallInv, CallType
<1>2. \A k \in Breakers : StatOf(r, k) \in StatusType
  BY <1>1, Typed DEF StatOf
<1>3. ASSUME NEW k \in Breakers, NEW s \in StatusType, WriteStat(r, k, s)
      PROVE  Wrote(k, call[r].inst, call[r].gen, s)
  <2>1. PICK i \in Instances, g \in 0 .. MaxGen : i = call[r].inst /\ g = call[r].gen
    BY <1>1
  <2>2. stat' = [stat EXCEPT ![k][i][g] = s]
    BY <1>3, <2>1 DEF WriteStat
  <2>3. Wrote(k, i, g, s)
    BY <2>2, StatWritten, Typed
  <2> QED
    BY <2>1, <2>3
<1>4. earned \in [Instances -> Nat] /\ SuccessAfterHalfOpen \in Nat
  BY ConstantsAssumption DEF BaseInv, TypeOK
<1> QED
  BY <1>1, <1>2, <1>3, <1>4

LEMMA CountSuccessDoes ==
    ASSUME BaseInv, NEW r \in Callers, CountSuccess(r)
    PROVE  /\ call[r].pc = "count_add" /\ Moved(r, "rate", 0, "close")
           /\ UNCHANGED <<chain, version, gen, live, regVars, timing, detect>>
           /\ \E s \in StatusType :
                /\ Wrote(Count, call[r].inst, call[r].gen, s) /\ s.st = StatOf(r, Count).st
                /\ IF call[r].seen = "half"
                     THEN /\ s.succ = Least(StatOf(r, Count).succ + 1, SuccessAfterHalfOpen)
                          /\ Counts(r, Count)
                     ELSE s.succ = StatOf(r, Count).succ /\ UNCHANGED earned
<1> DEFINE o == StatOf(r, Count)
           i == call[r].inst
           y == [o EXCEPT !.succ = Least(o.succ + 1, SuccessAfterHalfOpen)]
           n == [o EXCEPT !.err = 0]
<1>0. /\ call[r].pc = "count_add" /\ call[r].ok /\ ReturnTo(r, "rate")
      /\ UNCHANGED <<chain, version, gen, live, regVars, timing, detect>>
      /\ IF call[r].seen = "half"
           THEN /\ WriteStat(r, Count, y)
                /\ earned' = [earned EXCEPT ![i] = IF chain[i].owner = Count
                                                     THEN Least(@ + 1, SuccessAfterHalfOpen) ELSE @]
           ELSE WriteStat(r, Count, n) /\ UNCHANGED earned
  BY DEF CountSuccess
<1>1. Count \in Breakers /\ o \in StatusType
  BY <1>0, CallerAt DEF Breakers
<1>2. Moved(r, "rate", 0, "close")
  BY <1>0, Typed, CallMoved DEF CallPc, BaseInv, TypeOK
<1>3. CASE call[r].seen = "half"
  <2>1. o.succ \in Nat /\ SuccessAfterHalfOpen \in Nat
    BY <1>0, <1>1, CallerAt DEF StatusType
  <2>2. Least(o.succ + 1, SuccessAfterHalfOpen) \in Nat
    BY <2>1 DEF Least
  <2>3. /\ y \in StatusType /\ y.st = o.st
        /\ y.succ = Least(o.succ + 1, SuccessAfterHalfOpen)
    BY <1>1, <2>2 DEF StatusType
  <2>4. Wrote(Count, i, call[r].gen, y)
    BY <1>0, <1>1, <1>3, <2>3, CallerAt
  <2>5. Counts(r, Count)
    <3>1. i \in Instances /\ earned \in [Instances -> Nat] /\ SuccessAfterHalfOpen \in Nat
      BY <1>0, CallerAt
    <3>2. earned' = [earned EXCEPT ![i] = IF chain[i].owner = Count
                                            THEN Least(earned[i] + 1, SuccessAfterHalfOpen) ELSE earned[i]]
      BY <1>0, <1>3
    <3>3. Least(earned[i] + 1, SuccessAfterHalfOpen) \in Nat
      BY <3>1 DEF Least
    <3> QED
      BY <3>1, <3>2, <3>3 DEF Counts
  <2> HIDE DEF y
  <2> QED
    BY <1>0, <1>2, <1>3, <2>3, <2>4, <2>5
<1>4. CASE call[r].seen # "half"
  <2>1. n \in StatusType /\ n.st = o.st /\ n.succ = o.succ
    BY <1>1 DEF StatusType
  <2>2. Wrote(Count, i, call[r].gen, n)
    BY <1>0, <1>1, <1>4, <2>1, CallerAt
  <2> HIDE DEF n
  <2> QED
    BY <1>0, <1>2, <1>4, <2>1, <2>2
<1> QED
  BY <1>3, <1>4

LEMMA CountFailureDoes ==
    ASSUME BaseInv, NEW r \in Callers, CountFailure(r)
    PROVE  /\ call[r].pc = "count_add" /\ ~call[r].ok
           /\ \/ Moved(r, "count_trip", call[r].gen, call[r].seen) \/ Moved(r, "rate", 0, "close")
           /\ UNCHANGED <<chainVars, gen, live, regVars, timing, detect>>
           /\ \E s \in StatusType :
                /\ Wrote(Count, call[r].inst, call[r].gen, s)
                /\ s.st = StatOf(r, Count).st /\ s.succ = StatOf(r, Count).succ
<1> DEFINE o == StatOf(r, Count)
           s == [o EXCEPT !.err = Least(o.err + 1, MaxErrors)]
<1>0. /\ call[r].pc = "count_add" /\ ~call[r].ok /\ WriteStat(r, Count, s)
      /\ Goto(r, "count_trip") \/ ReturnTo(r, "rate")
      /\ UNCHANGED <<chainVars, gen, live, regVars, timing, detect>>
  BY DEF CountFailure
<1>1. Count \in Breakers /\ o \in StatusType
  BY <1>0, CallerAt DEF Breakers
<1>2. Least(o.err + 1, MaxErrors) \in Nat
  <2>1. setup \in SetupType
    BY ConstantsAssumption DEF BaseInv, TypeOK
  <2>2. setup.threshold \in Nat
    BY <2>1 DEF SetupType
  <2>3. RequestAfterHalfOpen - SuccessAfterHalfOpen + 1 \in Nat
    BY ConstantsAssumption
  <2>4. MaxErrors \in Nat
    BY <2>2, <2>3 DEF MaxErrors, ErrorThreshold, ErrorCountHalfOpenToOpen
  <2>5. o.err \in Nat
    BY <1>1 DEF StatusType
  <2> QED
    BY <2>4, <2>5 DEF Least
<1>3. s \in StatusType /\ s.st = o.st /\ s.succ = o.succ
  BY <1>1, <1>2 DEF StatusType
<1>4. Wrote(Count, call[r].inst, call[r].gen, s)
  BY <1>0, <1>1, <1>3, CallerAt
<1>5. Moved(r, "count_trip", call[r].gen, call[r].seen) \/ Moved(r, "rate", 0, "close")
  BY <1>0, Typed, CallMoved DEF CallPc, BaseInv, TypeOK
<1> HIDE DEF s
<1> QED
  BY <1>0, <1>3, <1>4, <1>5

LEMMA CountTripDoes ==
    ASSUME BaseInv, NEW r \in Callers, CountTrip(r)
    PROVE  /\ call[r].pc = "count_trip"
           /\ Tried(Count, call[r].inst, call[r].seen, "open")
           /\ IF Translatable(Count, call[r].inst, call[r].seen)
                THEN Moved(r, "count_status", call[r].gen, call[r].seen) ELSE Moved(r, "rate", 0, "close")
           /\ UNCHANGED <<statVars, regVars, timing, detect>>
<1>0. /\ call[r].pc = "count_trip" /\ TryTranslate(Count, call[r].inst, call[r].seen, "open")
      /\ IF Translatable(Count, call[r].inst, call[r].seen) THEN Goto(r, "count_status") ELSE ReturnTo(r, "rate")
      /\ UNCHANGED <<statVars, regVars, timing, detect>>
  BY DEF CountTrip
<1>1. call[r].inst \in Instances /\ Count \in 1 .. Health /\ "open" \in Status
  BY <1>0, CallerAt DEF Count, Health, Status
<1>2. Tried(Count, call[r].inst, call[r].seen, "open")
  BY <1>0, <1>1, ChainTried
<1>3. IF Translatable(Count, call[r].inst, call[r].seen)
        THEN Moved(r, "count_status", call[r].gen, call[r].seen) ELSE Moved(r, "rate", 0, "close")
  BY <1>0, Typed, CallMoved DEF CallPc, BaseInv, TypeOK
<1> QED
  BY <1>0, <1>2, <1>3

LEMMA CountStatusDoes ==
    ASSUME BaseInv, NEW r \in Callers, CountStatus(r)
    PROVE  /\ call[r].pc = "count_status" /\ Moved(r, "count_time", call[r].gen, call[r].seen)
           /\ UNCHANGED <<chainVars, gen, live, regVars, timing, detect>>
           /\ \E s \in StatusType :
                /\ Wrote(Count, call[r].inst, call[r].gen, s)
                /\ s.st = "open" /\ s.succ = StatOf(r, Count).succ
<1> DEFINE s == [StatOf(r, Count) EXCEPT !.st = "open"]
<1>0. /\ call[r].pc = "count_status" /\ WriteStat(r, Count, s) /\ Goto(r, "count_time")
      /\ UNCHANGED <<chainVars, gen, live, regVars, timing, detect>>
  BY DEF CountStatus
<1>1. Count \in Breakers /\ StatOf(r, Count) \in StatusType
  BY <1>0, CallerAt DEF Breakers
<1>2. s \in StatusType /\ s.st = "open" /\ s.succ = StatOf(r, Count).succ
  BY <1>1 DEF StatusType, Status
<1>3. Wrote(Count, call[r].inst, call[r].gen, s)
  BY <1>0, <1>1, <1>2, CallerAt
<1>4. Moved(r, "count_time", call[r].gen, call[r].seen)
  BY <1>0, Typed, CallMoved DEF CallPc
<1> HIDE DEF s
<1> QED
  BY <1>0, <1>2, <1>3, <1>4

LEMMA CountTimeDoes ==
    ASSUME BaseInv, NEW r \in Callers, CountTime(r)
    PROVE  /\ call[r].pc = "count_time" /\ Moved(r, "rate", 0, "close")
           /\ UNCHANGED <<chainVars, gen, live, regVars, timing, detect>>
           /\ \E s \in StatusType :
                /\ Wrote(Count, call[r].inst, call[r].gen, s)
                /\ s.st = StatOf(r, Count).st /\ s.succ = StatOf(r, Count).succ
<1> DEFINE s == [StatOf(r, Count) EXCEPT !.age = 0]
<1>0. /\ call[r].pc = "count_time" /\ WriteStat(r, Count, s) /\ ReturnTo(r, "rate")
      /\ UNCHANGED <<chainVars, gen, live, regVars, timing, detect>>
  BY DEF CountTime
<1>1. Count \in Breakers /\ StatOf(r, Count) \in StatusType
  BY <1>0, CallerAt DEF Breakers
<1>2. 0 \in Ages
  BY Typed DEF Ages
<1>3. s \in StatusType /\ s.st = StatOf(r, Count).st /\ s.succ = StatOf(r, Count).succ
  BY <1>1, <1>2 DEF StatusType
<1>4. Wrote(Count, call[r].inst, call[r].gen, s)
  BY <1>0, <1>1, <1>3, CallerAt
<1>5. Moved(r, "rate", 0, "close")
  BY <1>0, Typed, CallMoved DEF CallPc, BaseInv, TypeOK
<1> HIDE DEF s
<1> QED
  BY <1>0, <1>3, <1>4, <1>5

LEMMA RateTotalDoes ==
    ASSUME BaseInv, NEW r \in Callers, RateTotal(r)
    PROVE  /\ call[r].pc = "rate_total"
           /\ IF call[r].ok THEN Moved(r, "sync", 0, "close")
                            ELSE Moved(r, "rate_err", call[r].gen, call[r].seen)
           /\ UNCHANGED <<chain, version, gen, live, regVars, timing, detect>>
           /\ \E s \in StatusType :
                /\ Wrote(Rate, call[r].inst, call[r].gen, s)
                /\ s.st = StatOf(r, Rate).st /\ s.err = StatOf(r, Rate).err
                /\ IF call[r].seen = "half"
                     THEN /\ s.total = StatOf(r, Rate).total + 1
                          /\ Counts(r, IF call[r].ok THEN Rate ELSE Health + 1)
                     ELSE s.total = StatOf(r, Rate).total /\ UNCHANGED earned
<1> DEFINE o == StatOf(r, Rate)
           i == call[r].inst
           y == [o EXCEPT !.total = o.total + 1]
           n == [o EXCEPT !.wtotal = o.wtotal + 1]
<1>0. /\ call[r].pc = "rate_total" /\ (IF call[r].ok THEN ReturnTo(r, "sync") ELSE Goto(r, "rate_err"))
      /\ UNCHANGED <<chain, version, gen, live, regVars, timing, detect>>
      /\ IF call[r].seen = "half"
           THEN /\ WriteStat(r, Rate, y)
                /\ earned' = [earned EXCEPT ![i] = IF call[r].ok /\ chain[i].owner = Rate
                                                     THEN Least(@ + 1, SuccessAfterHalfOpen) ELSE @]
           ELSE WriteStat(r, Rate, n) /\ UNCHANGED earned
  BY DEF RateTotal
<1>1. Rate \in Breakers /\ o \in StatusType
  BY <1>0, CallerAt DEF Breakers
<1>2. IF call[r].ok THEN Moved(r, "sync", 0, "close") ELSE Moved(r, "rate_err", call[r].gen, call[r].seen)
  BY <1>0, Typed, CallMoved DEF CallPc, BaseInv, TypeOK
<1>3. CASE call[r].seen = "half"
  <2>1. y \in StatusType /\ y.st = o.st /\ y.err = o.err /\ y.total = o.total + 1
    BY <1>1 DEF StatusType
  <2>2. Wrote(Rate, i, call[r].gen, y)
    BY <1>0, <1>1, <1>3, <2>1, CallerAt
  <2>3. Counts(r, IF call[r].ok THEN Rate ELSE Health + 1)
    <3>1. i \in Instances /\ earned \in [Instances -> Nat] /\ SuccessAfterHalfOpen \in Nat
      BY <1>0, CallerAt
    <3>2. earned' = [earned EXCEPT ![i] = IF call[r].ok /\ chain[i].owner = Rate
                                            THEN Least(earned[i] + 1, SuccessAfterHalfOpen) ELSE earned[i]]
      BY <1>0, <1>3
    <3>3. Least(earned[i] + 1, SuccessAfterHalfOpen) \in Nat
      BY <3>1 DEF Least
    <3>4. chain[i].owner \in 0 .. Health
      BY <3>1 DEF BaseInv, TypeOK
    <3>5. chain[i].owner # Health + 1
      BY <3>4 DEF Health
    <3> QED
      BY <3>1, <3>2, <3>3, <3>5 DEF Counts
  <2> HIDE DEF y
  <2> QED
    BY <1>0, <1>2, <1>3, <2>1, <2>2, <2>3
<1>4. CASE call[r].seen # "half"
  <2>1. n \in StatusType /\ n.st = o.st /\ n.err = o.err /\ n.total = o.total
    BY <1>1 DEF StatusType
  <2>2. Wrote(Rate, i, call[r].gen, n)
    BY <1>0, <1>1, <1>4, <2>1, CallerAt
  <2> HIDE DEF n
  <2> QED
    BY <1>0, <1>2, <1>4, <2>1, <2>2
<1> QED
  BY <1>3, <1>4

LEMMA RateErrDoes ==
    ASSUME BaseInv, NEW r \in Callers, RateErr(r)
    PROVE  /\ call[r].pc = "rate_err" /\ Moved(r, "sync", 0, "close")
           /\ UNCHANGED <<chainVars, gen, live, regVars, timing, detect>>
           /\ \E s \in StatusType :
                /\ Wrote(Rate, call[r].inst, call[r].gen, s)
                /\ s.st = StatOf(r, Rate).st /\ s.total = StatOf(r, Rate).total
                /\ s.err = IF call[r].seen = "half" THEN StatOf(r, Rate).err + 1 ELSE StatOf(r, Rate).err
<1> DEFINE o == StatOf(r, Rate)
           s == IF call[r].seen = "half" THEN [o EXCEPT !.err = o.err + 1] ELSE [o EXCEPT !.werr = o.werr + 1]
<1>0. /\ call[r].pc = "rate_err" /\ WriteStat(r, Rate, s) /\ ReturnTo(r, "sync")
      /\ UNCHANGED <<chainVars, gen, live, regVars, timing, detect>>
  BY DEF RateErr
<1>1. Rate \in Breakers /\ o \in StatusType
  BY <1>0, CallerAt DEF Breakers
<1>2. /\ s \in StatusType /\ s.st = o.st /\ s.total = o.total
      /\ s.err = IF call[r].seen = "half" THEN o.err + 1 ELSE o.err
  <2>1. CASE call[r].seen = "half"
    BY <1>1, <2>1 DEF StatusType
  <2>2. CASE call[r].seen # "half"
    BY <1>1, <2>2 DEF StatusType
  <2> QED
    BY <2>1, <2>2
<1>3. Wrote(Rate, call[r].inst, call[r].gen, s)
  BY <1>0, <1>1, <1>2, CallerAt
<1>4. Moved(r, "sync", 0, "close")
  BY <1>0, Typed, CallMoved DEF CallPc, BaseInv, TypeOK
<1> HIDE DEF s
<1> QED
  BY <1>0, <1>2, <1>3, <1>4

-----------------------------------------------------------------------------
TimingType ==
    [pc : {"idle", "scan", "translate", "status", "reset", "clean_open",
           "clean_half", "clean_delete", "sync", "submit", "push"},
     k : Breakers, todo : SUBSET Instances, inst : Instances \cup {None},
     from : Status, to : Status, read : 0 .. MaxVersion]

RegType == [known : BOOLEAN, version : 0 .. MaxVersion, open : SUBSET Instances, half : SUBSET Instances]

DetectType == [pc : {"idle", "translate", "half_status", "half_reset"}, k : 1 .. Health,
               inst : Instances \cup {None}, from : Status, to : Status]

\* A caller's call ends.
Ended(r) ==
    /\ call' \in [Callers -> CallType] /\ call'[r] = IdleCall
    /\ \A q \in Callers \ {r} : call'[q] = call[q]

\* The registry and the chain's idea of it after a sync.
Synced ==
    /\ lastUpdate # version /\ lastUpdate' = version
    /\ reg' \in RegType
    /\ reg.known /\ version > reg.version =>
         reg'.known /\ reg'.version = version /\ reg'.open = OpenIn(chain) /\ reg'.half = HalfIn(chain)
    /\ ~(reg.known /\ version > reg.version) => reg' = reg
    /\ UNCHANGED <<submitted, expiring>>

\* The executor stands at p; it looks after instance i, or after none.
ExecutorAt(p, k, todo, i, from, to) ==
    /\ timing' \in TimingType
    /\ timing' = [pc |-> p, k |-> k, todo |-> todo, inst |-> i, from |-> from, to |-> to,
                  read |-> timing'.read]

PassEnded ==
    /\ timing' = IdleTiming /\ timing' \in TimingType
    /\ call' \in [Callers -> CallType]
    /\ \A r \in Callers :
         call'[r] = [pc |-> call[r].pc, inst |-> call[r].inst, ok |-> call[r].ok, gen |-> call[r].gen,
                     seen |-> call[r].seen, old |-> ~CallersStall /\ call[r].pc # "idle",
                     read |-> call[r].read]

LEMMA OthersTyped ==
    ASSUME BaseInv
    PROVE  timing \in TimingType /\ reg \in RegType /\ detect \in DetectType
<1>1. timing \in TimingType
  BY DEF BaseInv, TypeOK, TimingType
<1>2. reg \in RegType
  BY DEF BaseInv, TypeOK, RegType
<1>3. detect \in DetectType
  BY DEF BaseInv, TypeOK, DetectType
<1> QED
  BY <1>1, <1>2, <1>3

LEMMA CallEnded ==
    ASSUME BaseInv, NEW r \in Callers, call' = [call EXCEPT ![r] = IdleCall]
    PROVE  Ended(r)
<1>1. IdleCall \in CallType
  BY Typed DEF IdleCall, CallType, CallPc, Status
<1> QED
  BY <1>1, Typed DEF Ended

LEMMA RegistrySynced ==
    ASSUME BaseInv, SyncToLocalRegistry
    PROVE  Synced
<1> DEFINE n == [known |-> TRUE, version |-> version, open |-> OpenIn(chain), half |-> HalfIn(chain)]
<1>1. /\ lastUpdate # version /\ SetCircuitBreakerData /\ lastUpdate' = version
      /\ UNCHANGED <<submitted, expiring>>
  BY DEF SyncToLocalRegistry
<1>2. reg' = IF reg.known /\ version > reg.version THEN n ELSE reg
  BY <1>1 DEF SetCircuitBreakerData
<1>3. n \in RegType
  BY DEF RegType, OpenIn, HalfIn, BaseInv, TypeOK
<1>4. reg' \in RegType
  BY <1>2, <1>3, OthersTyped
<1> QED
  BY <1>1, <1>2, <1>4 DEF Synced

LEMMA CallSyncDoes ==
    ASSUME BaseInv, NEW r \in Callers, CallSync(r)
    PROVE  /\ call[r].pc = "sync"
           /\ \/ Synced /\ Moved(r, "submit", call[r].gen, call[r].seen)
              \/ lastUpdate = version /\ Ended(r) /\ UNCHANGED regVars
           /\ UNCHANGED <<chainVars, statVars, timing, detect>>
<1>1. /\ call[r].pc = "sync"
      /\ UNCHANGED <<chainVars, statVars, timing, detect>>
  BY DEF CallSync
<1>2. CASE SyncToLocalRegistry /\ Goto(r, "submit")
  BY <1>1, <1>2, RegistrySynced, CallMoved, Typed DEF CallPc
<1>3. CASE lastUpdate = version /\ call' = [call EXCEPT ![r] = IdleCall] /\ UNCHANGED regVars
  BY <1>1, <1>3, CallEnded
<1> QED
  BY <1>1, <1>2, <1>3 DEF CallSync

LEMMA CallReadDoes ==
    ASSUME BaseInv, NEW r \in Callers, CallRead(r)
    PROVE  /\ call[r].pc = "submit" /\ Moved(r, "push", call[r].gen, call[r].seen) /\ call'[r].read = version
           /\ UNCHANGED <<chainVars, statVars, regVars, timing, detect>>
<1>1. /\ call[r].pc = "submit" /\ call' = [call EXCEPT ![r].pc = "push", ![r].read = version]
      /\ UNCHANGED <<chainVars, statVars, regVars, timing, detect>>
  BY DEF CallRead
<1>2. PICK x \in CallType : x = call[r]
  BY Typed
<1>3. version \in 0 .. MaxVersion
  BY DEF BaseInv, TypeOK
<1> DEFINE a == [x EXCEPT !.pc = "push"]
           c == [a EXCEPT !.read = version]
<1>4. call' = [call EXCEPT ![r] = c]
  BY <1>1, <1>2
<1>5. a \in CallType /\ a = [pc |-> "push", inst |-> x.inst, ok |-> x.ok, gen |-> x.gen, seen |-> x.seen,
                             old |-> x.old, read |-> x.read]
  BY DEF CallType, CallPc
<1> HIDE DEF a
<1>6. c \in CallType /\ c = [pc |-> "push", inst |-> x.inst, ok |-> x.ok, gen |-> x.gen, seen |-> x.seen,
                             old |-> x.old, read |-> version]
  BY <1>3, <1>5 DEF CallType
<1> HIDE DEF c
<1>7. call' \in [Callers -> CallType] /\ call'[r] = c /\ \A q \in Callers \ {r} : call'[q] = call[q]
  BY <1>4, <1>6, Typed
<1>8. call'[r].read = version
  BY <1>6, <1>7
<1>9. Moved(r, "push", call[r].gen, call[r].seen)
  BY <1>2, <1>6, <1>7, <1>8 DEF Moved
<1> QED
  BY <1>1, <1>8, <1>9

\* A task with version v is pushed.
Pushed(v) ==
    /\ submitted' \in [last : 0 .. MaxVersion, newest : 0 .. MaxVersion]
    /\ submitted'.newest = IF v > submitted.newest THEN v ELSE submitted.newest

LEMMA SubmitPushes ==
    ASSUME BaseInv, NEW v \in 0 .. MaxVersion, SubmitUpdateCache(v)
    PROVE  Pushed(v) /\ UNCHANGED <<lastUpdate, reg, expiring>>
<1>1. submitted \in [last : 0 .. MaxVersion, newest : 0 .. MaxVersion]
  BY DEF BaseInv, TypeOK
<1> DEFINE n == IF v > submitted.newest THEN v ELSE submitted.newest
<1>2. n \in 0 .. MaxVersion
  BY <1>1
<1>3. submitted' = [last |-> v, newest |-> n] /\ UNCHANGED <<lastUpdate, reg, expiring>>
  BY DEF SubmitUpdateCache
<1> QED
  BY <1>2, <1>3 DEF Pushed

LEMMA CallSubmitDoes ==
    ASSUME BaseInv, NEW r \in Callers, CallSubmit(r)
    PROVE  /\ call[r].pc = "push" /\ Pushed(call[r].read) /\ Ended(r)
           /\ UNCHANGED <<chainVars, statVars, timing, detect, lastUpdate, reg, expiring>>
<1>1. call' = [call EXCEPT ![r] = IdleCall]
  BY DEF CallSubmit
<1>2. Ended(r)
  BY <1>1, CallEnded
<1>3. call[r].read \in 0 .. MaxVersion
  BY Typed DEF CallType
<1> QED
  BY <1>2, <1>3, SubmitPushes DEF CallSubmit

LEMMA ExecutorMoved ==
    ASSUME BaseInv, NEW p, ExecutorGoto(p),
           p \in {"idle", "scan", "translate", "status", "reset", "clean_open",
                  "clean_half", "clean_delete", "sync", "submit", "push"}
    PROVE  ExecutorAt(p, timing.k, timing.todo, timing.inst, timing.from, timing.to)
<1>1. timing' = [timing EXCEPT !.pc = p]
  BY DEF ExecutorGoto
<1>2. timing \in TimingType
  BY OthersTyped
<1> QED
  BY <1>1, <1>2 DEF TimingType, ExecutorAt

LEMMA PassEnds ==
    ASSUME BaseInv, EndPass
    PROVE  PassEnded
<1>1. /\ timing' = IdleTiming
      /\ call' = [r \in Callers |-> [call[r] EXCEPT !.old = ~CallersStall /\ call[r].pc # "idle"]]
  BY DEF EndPass
<1>2. timing' \in TimingType
  BY <1>1, Typed DEF IdleTiming, TimingType, Breakers, Status
<1>3. ASSUME NEW r \in Callers
      PROVE  /\ call'[r] \in CallType
             /\ call'[r] = [pc |-> call[r].pc, inst |-> call[r].inst, ok |-> call[r].ok, gen |-> call[r].gen,
                            seen |-> call[r].seen, old |-> ~CallersStall /\ call[r].pc # "idle",
                     read |-> call[r].read]
  <2>1. PICK c \in CallType : c = call[r]
    BY Typed
  <2>2. PICK b \in BOOLEAN : b = (~CallersStall /\ call[r].pc # "idle")
    OBVIOUS
  <2>3. [c EXCEPT !.old = b] = [pc |-> c.pc, inst |-> c.inst, ok |-> c.ok, gen |-> c.gen,
                                seen |-> c.seen, old |-> b, read |-> c.read]
    BY DEF CallType
  <2>4. [pc |-> c.pc, inst |-> c.inst, ok |-> c.ok, gen |-> c.gen, seen |-> c.seen, old |-> b, read |-> c.read] \in CallType
    BY DEF CallType
  <2>5. call'[r] = [c EXCEPT !.old = b]
    BY <1>1, <2>1, <2>2
  <2> QED
    BY <2>1, <2>2, <2>3, <2>4, <2>5
<1>4. call' \in [Callers -> CallType]
  BY <1>1, <1>3
<1> QED
  BY <1>1, <1>2, <1>3, <1>4 DEF PassEnded

LEMMA StartDoes ==
    ASSUME BaseInv, NEW k \in Breakers, StartBreaker(k)
    PROVE  ExecutorAt("scan", k, {i \in Instances : live[k][i]}, None, "close", "close")
<1> DEFINE todo == {i \in Instances : live[k][i]}
           a == [IdleTiming EXCEPT !.pc = "scan"]
           b == [a EXCEPT !.k = k]
           c == [b EXCEPT !.todo = todo]
<1>1. timing' = c
  BY DEF StartBreaker
<1>2. IdleTiming \in TimingType
  BY Typed DEF IdleTiming, TimingType, Breakers, Status
<1>3. /\ a \in TimingType /\ a.pc = "scan" /\ a.inst = None /\ a.from = "close" /\ a.to = "close"
  BY <1>2 DEF TimingType, IdleTiming
<1> HIDE DEF a
<1>4. /\ b \in TimingType /\ b.pc = "scan" /\ b.inst = None /\ b.from = "close" /\ b.to = "close" /\ b.k = k
  BY <1>3 DEF TimingType
<1> HIDE DEF b
<1>5. todo \in SUBSET Instances
  OBVIOUS
<1> HIDE DEF todo
<1>6. /\ c \in TimingType
      /\ c = [pc |-> "scan", k |-> k, todo |-> todo, inst |-> None, from |-> "close", to |-> "close",
              read |-> c.read]
  BY <1>4, <1>5 DEF TimingType
<1> HIDE DEF c
<1> QED
  BY <1>1, <1>6 DEF ExecutorAt, todo

LEMMA TargetIs ==
    ASSUME NEW k \in Breakers, NEW s \in StatusType, Target(k, s) # s.st
    PROVE  /\ Target(k, s) \in Status
           /\ Target(k, s) = "half" => s.st = "open" /\ When = "never"
           /\ Target(k, s) = "close" => s.st = "half" /\ Recovered(k, s)
           /\ s.st = "close" => k = Rate
<1>1. s.st \in Status
  BY DEF StatusType
<1>2. CASE s.st = "open"
  <2>1. Target(k, s) = IF AutoHalfOpenEnable /\ s.age >= 1 THEN "half" ELSE s.st
    BY <1>2 DEF Target
  <2> QED
    BY <1>2, <2>1 DEF AutoHalfOpenEnable, Status
<1>3. CASE s.st = "close"
  <2>1. Target(k, s) = IF k = Rate /\ RateReached(s) THEN "open" ELSE s.st
    BY <1>3 DEF Target
  <2> QED
    BY <1>3, <2>1 DEF Status
<1>4. CASE s.st = "half"
  <2>1. Target(k, s) = IF Recovered(k, s) THEN "close" ELSE IF Relapsed(k, s) THEN "open" ELSE s.st
    BY <1>4 DEF Target
  <2> QED
    BY <1>4, <2>1 DEF Status
<1> QED
  BY <1>1, <1>2, <1>3, <1>4 DEF Status

LEMMA CountedWritten ==
    ASSUME BaseInv, NEW k \in Breakers, NEW i \in Instances, NEW s \in StatusType, WriteCounted(k, i, s)
    PROVE  Wrote(k, i, gen[k][i], s)
<1>1. PICK g \in 0 .. MaxGen : g = gen[k][i]
  BY Typed
<1>2. stat' = [stat EXCEPT ![k][i][g] = s]
  BY <1>1 DEF WriteCounted
<1> QED
  BY <1>1, <1>2, StatWritten, Typed

LEMMA ExecutorIn ==
    ASSUME BaseInv
    PROVE  /\ timing.k \in Breakers /\ timing.k \in 1 .. Health /\ timing.todo \subseteq Instances
           /\ timing.from \in Status /\ timing.to \in Status
           /\ timing.pc \in {"translate", "status", "reset", "clean_open", "clean_half", "clean_delete"} =>
                timing.inst \in Instances
<1>1. timing \in TimingType
  BY OthersTyped
<1>2. /\ timing.k \in Breakers /\ timing.todo \subseteq Instances /\ timing.from \in Status /\ timing.to \in Status
  BY <1>1 DEF TimingType
<1>3. timing.k \in 1 .. Health
  BY <1>2 DEF Breakers, Count, Rate, Health
<1>4. timing.pc \in Deciding \cup Cleaning \cup {"reset"} => timing.inst \in Instances
  BY DEF BaseInv, TimingInv
<1> QED
  BY <1>2, <1>3, <1>4 DEF Deciding, Cleaning

LEMMA LookDoes ==
    ASSUME BaseInv, TimingLook
    PROVE  /\ timing.pc = "scan"
           /\ \E i \in timing.todo :
                /\ i \in Instances /\ Counted(timing.k, i) \in StatusType
                /\ \/ ExecutorAt("scan", timing.k, timing.todo \ {i}, timing.inst, timing.from, timing.to)
                   \/ /\ Target(timing.k, Counted(timing.k, i)) # Counted(timing.k, i).st
                      /\ ExecutorAt("translate", timing.k, timing.todo \ {i}, i, Counted(timing.k, i).st,
                                    Target(timing.k, Counted(timing.k, i)))
           /\ UNCHANGED <<chainVars, statVars, regVars, call, detect>>
<1>1. PICK i \in timing.todo :
        LET s == Counted(timing.k, i)
            t == Target(timing.k, s)
        IN  timing' = IF t = s.st
                        THEN [timing EXCEPT !.todo = timing.todo \ {i}]
                        ELSE [timing EXCEPT !.pc = "translate", !.todo = timing.todo \ {i},
                                            !.inst = i, !.from = s.st, !.to = t]
  BY DEF TimingLook
<1> DEFINE s == Counted(timing.k, i)
           t == Target(timing.k, s)
           todo == timing.todo \ {i}
<1>2. timing.pc = "scan" /\ UNCHANGED <<chainVars, statVars, regVars, call, detect>>
  BY DEF TimingLook
<1>3. timing.k \in Breakers /\ i \in Instances /\ timing \in TimingType
  BY ExecutorIn, OthersTyped
<1>4. s \in StatusType
  BY <1>3, Typed
<1>5. CASE t = s.st
  <2>1. timing' = [timing EXCEPT !.todo = todo]
    BY <1>1, <1>5
  <2>2. todo \in SUBSET Instances
    BY <1>3 DEF TimingType
  <2> HIDE DEF todo
  <2>3. ExecutorAt(timing.pc, timing.k, todo, timing.inst, timing.from, timing.to)
    BY <1>3, <2>1, <2>2 DEF TimingType, ExecutorAt
  <2> QED
    BY <1>2, <1>3, <1>4, <2>3 DEF todo
<1>6. CASE t # s.st
  <2>1. timing' = [timing EXCEPT !.pc = "translate", !.todo = todo, !.inst = i, !.from = s.st, !.to = t]
    BY <1>1, <1>6
  <2>2. t \in Status /\ s.st \in Status
    BY <1>3, <1>4, <1>6, TargetIs DEF StatusType
  <2>3. todo \in SUBSET Instances
    BY <1>3 DEF TimingType
  <2>4. PICK f \in Status, u \in Status, d \in SUBSET Instances : f = s.st /\ u = t /\ d = todo
    BY <2>2, <2>3
  <2>5. ExecutorAt("translate", timing.k, d, i, f, u)
    <3> DEFINE b == [timing EXCEPT !.pc = "translate"]
               c == [b EXCEPT !.todo = d]
               e == [c EXCEPT !.inst = i]
               h == [e EXCEPT !.from = f]
               m == [h EXCEPT !.to = u]
    <3>1. timing' = m
      BY <2>1, <2>4
    <3>2. b \in TimingType /\ b.pc = "translate" /\ b.k = timing.k
      BY <1>3 DEF TimingType
    <3> HIDE DEF b
    <3>3. c \in TimingType /\ c.pc = "translate" /\ c.k = timing.k /\ c.todo = d
      BY <3>2 DEF TimingType
    <3> HIDE DEF c
    <3>4. e \in TimingType /\ e.pc = "translate" /\ e.k = timing.k /\ e.todo = d /\ e.inst = i
      BY <1>3, <3>3 DEF TimingType
    <3> HIDE DEF e
    <3>5. h \in TimingType /\ h.pc = "translate" /\ h.k = timing.k /\ h.todo = d /\ h.inst = i /\ h.from = f
      BY <3>4 DEF TimingType
    <3> HIDE DEF h
    <3>6. m \in TimingType /\ m.pc = "translate" /\ m.k = timing.k /\ m.todo = d /\ m.inst = i /\ m.from = f /\ m.to = u
      BY <3>5 DEF TimingType
    <3> HIDE DEF m
    <3> QED
      BY <3>1, <3>6 DEF TimingType, ExecutorAt
  <2> QED
    BY <1>2, <1>3, <1>4, <1>6, <2>4, <2>5
<1> QED
  BY <1>5, <1>6

LEMMA TranslateDoes ==
    ASSUME BaseInv, TimingTranslate
    PROVE  /\ timing.pc = "translate" /\ Tried(timing.k, timing.inst, timing.from, timing.to)
           /\ ExecutorAt(IF Translatable(timing.k, timing.inst, timing.from) THEN "status" ELSE "scan",
                         timing.k, timing.todo, timing.inst, timing.from, timing.to)
           /\ UNCHANGED <<statVars, regVars, call, detect>>
<1>1. /\ timing.pc = "translate" /\ TryTranslate(timing.k, timing.inst, timing.from, timing.to)
      /\ ExecutorGoto(IF Translatable(timing.k, timing.inst, timing.from) THEN "status" ELSE "scan")
      /\ UNCHANGED <<statVars, regVars, call, detect>>
  BY DEF TimingTranslate
<1>2. Tried(timing.k, timing.inst, timing.from, timing.to)
  BY <1>1, ExecutorIn, ChainTried
<1> QED
  BY <1>1, <1>2, ExecutorMoved

LEMMA TimingStatusDoes ==
    ASSUME BaseInv, TimingStatus
    PROVE  /\ timing.pc = "status"
           /\ \E s \in StatusType :
                /\ Wrote(timing.k, timing.inst, gen[timing.k][timing.inst], s) /\ s.st = timing.to
           /\ ExecutorAt("reset", timing.k, timing.todo, timing.inst, timing.from, timing.to)
           /\ UNCHANGED <<chainVars, gen, live, regVars, call, detect>>
<1> DEFINE s == [Counted(timing.k, timing.inst) EXCEPT !.st = timing.to]
<1>1. /\ timing.pc = "status" /\ WriteCounted(timing.k, timing.inst, s) /\ ExecutorGoto("reset")
      /\ UNCHANGED <<chainVars, gen, live, regVars, call, detect>>
  BY DEF TimingStatus
<1>2. timing.k \in Breakers /\ timing.inst \in Instances /\ timing.to \in Status
  BY <1>1, ExecutorIn
<1>3. s \in StatusType /\ s.st = timing.to
  BY <1>2, Typed DEF StatusType
<1>4. Wrote(timing.k, timing.inst, gen[timing.k][timing.inst], s)
  BY <1>1, <1>2, <1>3, CountedWritten
<1>5. ExecutorAt("reset", timing.k, timing.todo, timing.inst, timing.from, timing.to)
  BY <1>1, ExecutorMoved
<1> HIDE DEF s
<1> QED
  BY <1>1, <1>3, <1>4, <1>5

LEMMA AfterTransitionIs ==
    ASSUME BaseInv, NEW k, NEW s \in StatusType, NEW from, NEW to
    PROVE  /\ AfterTransition(k, s, from, to) \in StatusType
           /\ AfterTransition(k, s, from, to).st = s.st
           /\ to = "half" => /\ AfterTransition(k, s, from, to).succ = 0
                             /\ AfterTransition(k, s, from, to).total = 0
                             /\ AfterTransition(k, s, from, to).err = 0
<1> DEFINE a == [s EXCEPT !.age = 0]
           b == [a EXCEPT !.succ = IF to = "half" THEN 0 ELSE @]
           c == [b EXCEPT !.total = IF to = "half" THEN 0 ELSE @]
           d == [c EXCEPT !.err = IF to = "half" \/ (k = Count /\ to = "close") THEN 0 ELSE @]
           e == [d EXCEPT !.wtotal = IF from = "close" THEN @ ELSE 0]
           f == [e EXCEPT !.werr = IF from = "close" THEN @ ELSE 0]
<1>1. AfterTransition(k, s, from, to) = f
  BY DEF AfterTransition
<1>2. 0 \in Ages
  BY Typed DEF Ages
<1>3. a \in StatusType /\ a.st = s.st
  BY <1>2 DEF StatusType
<1> HIDE DEF a
<1>4. b \in StatusType /\ b.st = s.st /\ (to = "half" => b.succ = 0)
  BY <1>3 DEF StatusType
<1> HIDE DEF b
<1>5. c \in StatusType /\ c.st = s.st /\ (to = "half" => c.succ = 0 /\ c.total = 0)
  BY <1>4 DEF StatusType
<1> HIDE DEF c
<1>6. d \in StatusType /\ d.st = s.st /\ (to = "half" => d.succ = 0 /\ d.total = 0 /\ d.err = 0)
  BY <1>5 DEF StatusType
<1> HIDE DEF d
<1>7. e \in StatusType /\ e.st = s.st /\ (to = "half" => e.succ = 0 /\ e.total = 0 /\ e.err = 0)
  BY <1>6 DEF StatusType
<1> HIDE DEF e
<1>8. f \in StatusType /\ f.st = s.st /\ (to = "half" => f.succ = 0 /\ f.total = 0 /\ f.err = 0)
  BY <1>7 DEF StatusType
<1> HIDE DEF f
<1> QED
  BY <1>1, <1>8

LEMMA TimingResetDoes ==
    ASSUME BaseInv, TimingReset
    PROVE  /\ timing.pc = "reset"
           /\ \E s \in StatusType :
                /\ Wrote(timing.k, timing.inst, gen[timing.k][timing.inst], s)
                /\ s.st = Counted(timing.k, timing.inst).st
                /\ timing.to = "half" => s.succ = 0 /\ s.total = 0 /\ s.err = 0
           /\ ExecutorAt("scan", timing.k, timing.todo, timing.inst, timing.from, timing.to)
           /\ UNCHANGED <<chainVars, gen, live, regVars, call, detect>>
<1> DEFINE o == Counted(timing.k, timing.inst)
           s == AfterTransition(timing.k, o, timing.from, timing.to)
<1>1. /\ timing.pc = "reset" /\ WriteCounted(timing.k, timing.inst, s) /\ ExecutorGoto("scan")
      /\ UNCHANGED <<chainVars, gen, live, regVars, call, detect>>
  BY DEF TimingReset
<1>2. timing.k \in Breakers /\ timing.inst \in Instances
  BY <1>1, ExecutorIn
<1>3. o \in StatusType
  BY <1>2, Typed
<1>4. s \in StatusType /\ s.st = o.st /\ (timing.to = "half" => s.succ = 0 /\ s.total = 0 /\ s.err = 0)
  BY <1>3, AfterTransitionIs
<1> HIDE DEF s
<1>5. Wrote(timing.k, timing.inst, gen[timing.k][timing.inst], s)
  BY <1>1, <1>2, <1>4, CountedWritten
<1>6. ExecutorAt("scan", timing.k, timing.todo, timing.inst, timing.from, timing.to)
  BY <1>1, ExecutorMoved
<1> QED
  BY <1>1, <1>4, <1>5, <1>6

LEMMA CleanExpiredDoes ==
    ASSUME BaseInv, CleanExpired
    PROVE  /\ timing.pc = "scan"
           /\ \E i \in Instances :
                /\ gen[timing.k][i] < MaxGen
                /\ ExecutorAt("clean_open", timing.k, timing.todo, i, timing.from, timing.to)
           /\ UNCHANGED <<chainVars, statVars, regVars, call, detect>>
<1>1. PICK i \in Instances :
         /\ gen[timing.k][i] < MaxGen
         /\ timing' = [timing EXCEPT !.pc = "clean_open", !.inst = i]
  BY DEF CleanExpired
<1>2. timing \in TimingType
  BY OthersTyped
<1> DEFINE a == [timing EXCEPT !.pc = "clean_open"]
           b == [a EXCEPT !.inst = i]
<1>3. timing' = b
  BY <1>1
<1>4. a \in TimingType /\ a.pc = "clean_open" /\ a.k = timing.k /\ a.todo = timing.todo
      /\ a.from = timing.from /\ a.to = timing.to
  BY <1>2 DEF TimingType
<1> HIDE DEF a
<1>5. b \in TimingType /\ b.pc = "clean_open" /\ b.k = timing.k /\ b.todo = timing.todo
      /\ b.from = timing.from /\ b.to = timing.to /\ b.inst = i
  BY <1>4 DEF TimingType
<1> HIDE DEF b
<1>6. ExecutorAt("clean_open", timing.k, timing.todo, i, timing.from, timing.to)
  BY <1>3, <1>5 DEF TimingType, ExecutorAt
<1>7. timing.pc = "scan" /\ UNCHANGED <<chainVars, statVars, regVars, call, detect>>
  BY DEF CleanExpired
<1> QED
  BY <1>1, <1>6, <1>7

LEMMA CleanChainDoes ==
    ASSUME BaseInv, CleanOpen \/ CleanHalf
    PROVE  /\ UNCHANGED <<statVars, regVars, call, detect>>
           /\ \/ /\ timing.pc = "clean_open" /\ Tried(timing.k, timing.inst, "open", "close")
                 /\ ExecutorAt("clean_half", timing.k, timing.todo, timing.inst, timing.from, timing.to)
              \/ /\ timing.pc = "clean_half" /\ Tried(timing.k, timing.inst, "half", "close")
                 /\ ExecutorAt("clean_delete", timing.k, timing.todo, timing.inst, timing.from, timing.to)
<1>1. CASE CleanOpen
  <2>1. /\ timing.pc = "clean_open" /\ TryTranslate(timing.k, timing.inst, "open", "close")
        /\ ExecutorGoto("clean_half") /\ UNCHANGED <<statVars, regVars, call, detect>>
    BY <1>1 DEF CleanOpen
  <2>2. Tried(timing.k, timing.inst, "open", "close")
    BY <2>1, ExecutorIn, ChainTried DEF Status
  <2> QED
    BY <2>1, <2>2, ExecutorMoved
<1>2. CASE CleanHalf
  <2>1. /\ timing.pc = "clean_half" /\ TryTranslate(timing.k, timing.inst, "half", "close")
        /\ ExecutorGoto("clean_delete") /\ UNCHANGED <<statVars, regVars, call, detect>>
    BY <1>2 DEF CleanHalf
  <2>2. Tried(timing.k, timing.inst, "half", "close")
    BY <2>1, ExecutorIn, ChainTried DEF Status
  <2> QED
    BY <2>1, <2>2, ExecutorMoved
<1> QED
  BY <1>1, <1>2

LEMMA CleanDeleteDoes ==
    ASSUME BaseInv, CleanDelete
    PROVE  /\ timing.pc = "clean_delete"
           /\ live' \in [Breakers -> [Instances -> BOOLEAN]]
           /\ gen' \in [Breakers -> [Instances -> 0 .. MaxGen]]
           /\ gen[timing.k][timing.inst] < MaxGen
           /\ \A k \in Breakers, i \in Instances :
                gen'[k][i] = IF k = timing.k /\ i = timing.inst THEN gen[k][i] + 1 ELSE gen[k][i]
           /\ ExecutorAt("scan", timing.k, timing.todo, timing.inst, timing.from, timing.to)
           /\ UNCHANGED <<chainVars, stat, regVars, call, detect>>
<1>1. /\ timing.pc = "clean_delete" /\ ExecutorGoto("scan") /\ UNCHANGED <<chainVars, stat, regVars, call, detect>>
      /\ live' = [live EXCEPT ![timing.k][timing.inst] = FALSE]
      /\ gen' = [gen EXCEPT ![timing.k][timing.inst] = gen[timing.k][timing.inst] + 1]
  BY DEF CleanDelete
<1>2. PICK k \in Breakers, i \in Instances : k = timing.k /\ i = timing.inst
  BY <1>1, ExecutorIn
<1>3. live' \in [Breakers -> [Instances -> BOOLEAN]]
  BY <1>1, <1>2, Typed
<1>4. gen[k][i] < MaxGen
  BY <1>1, <1>2 DEF BaseInv, TimingInv, Cleaning
<1>5. PICK g \in 0 .. MaxGen : g = gen[k][i] + 1
  BY <1>4, Typed
<1>6. gen' = [gen EXCEPT ![k][i] = g]
  BY <1>1, <1>2, <1>5
<1>7. gen' \in [Breakers -> [Instances -> 0 .. MaxGen]]
  BY <1>6, Typed
<1>8. \A b \in Breakers, j \in Instances : gen'[b][j] = IF b = k /\ j = i THEN g ELSE gen[b][j]
  BY <1>6, Typed
<1>9. ExecutorAt("scan", timing.k, timing.todo, timing.inst, timing.from, timing.to)
  BY <1>1, ExecutorMoved
<1> QED
  BY <1>1, <1>2, <1>3, <1>4, <1>5, <1>7, <1>8, <1>9

LEMMA BreakerDoneDoes ==
    ASSUME BaseInv, BreakerDone
    PROVE  /\ timing.pc = "scan"
           /\ \/ ExecutorAt("scan", Rate, {i \in Instances : live[Rate][i]}, None, "close", "close")
              \/ ExecutorAt("sync", timing.k, timing.todo, timing.inst, timing.from, timing.to)
           /\ UNCHANGED <<chainVars, statVars, regVars, call, detect>>
<1>1. /\ timing.pc = "scan"
      /\ StartBreaker(Rate) \/ ExecutorGoto("sync")
      /\ UNCHANGED <<chainVars, statVars, regVars, call, detect>>
  BY DEF BreakerDone
<1>2. timing.pc = "scan"
  BY DEF BreakerDone
<1>3. Rate \in Breakers
  BY DEF Breakers
<1> QED
  BY <1>1, <1>2, <1>3, StartDoes, ExecutorMoved

LEMMA TimingSyncDoes ==
    ASSUME BaseInv, TimingSync
    PROVE  /\ timing.pc = "sync"
           /\ \/ /\ Synced /\ UNCHANGED call
                 /\ ExecutorAt("submit", timing.k, timing.todo, timing.inst, timing.from, timing.to)
              \/ lastUpdate = version /\ PassEnded /\ UNCHANGED regVars
           /\ UNCHANGED <<chainVars, statVars, detect>>
<1>1. /\ timing.pc = "sync" /\ UNCHANGED <<chainVars, statVars, detect>>
  BY DEF TimingSync
<1>2. CASE SyncToLocalRegistry /\ ExecutorGoto("submit") /\ UNCHANGED call
  BY <1>1, <1>2, RegistrySynced, ExecutorMoved
<1>3. CASE lastUpdate = version /\ EndPass /\ UNCHANGED regVars
  BY <1>1, <1>3, PassEnds
<1> QED
  BY <1>2, <1>3 DEF TimingSync

LEMMA TimingReadDoes ==
    ASSUME BaseInv, TimingRead
    PROVE  /\ timing.pc = "submit" /\ timing'.read = version
           /\ ExecutorAt("push", timing.k, timing.todo, timing.inst, timing.from, timing.to)
           /\ UNCHANGED <<chainVars, statVars, regVars, call, detect>>
<1>1. /\ timing.pc = "submit" /\ timing' = [timing EXCEPT !.pc = "push", !.read = version]
      /\ UNCHANGED <<chainVars, statVars, regVars, call, detect>>
  BY DEF TimingRead
<1>2. timing \in TimingType /\ version \in 0 .. MaxVersion
  BY OthersTyped DEF BaseInv, TypeOK
<1> DEFINE a == [timing EXCEPT !.pc = "push"]
<1>3. timing' = [a EXCEPT !.read = version]
  BY <1>1
<1>4. /\ a \in TimingType /\ a.pc = "push" /\ a.k = timing.k /\ a.todo = timing.todo
      /\ a.inst = timing.inst /\ a.from = timing.from /\ a.to = timing.to
  BY <1>2 DEF TimingType
<1> HIDE DEF a
<1>5. timing'.read = version /\ ExecutorAt("push", a.k, a.todo, a.inst, a.from, a.to)
  BY <1>2, <1>3, <1>4 DEF TimingType, ExecutorAt
<1> QED
  BY <1>1, <1>4, <1>5

LEMMA TimingSubmitDoes ==
    ASSUME BaseInv, TimingSubmit
    PROVE  /\ timing.pc = "push" /\ Pushed(timing.read) /\ PassEnded
           /\ UNCHANGED <<chainVars, statVars, detect, lastUpdate, reg, expiring>>
<1>1. EndPass
  BY DEF TimingSubmit
<1>2. timing.read \in 0 .. MaxVersion
  BY OthersTyped DEF TimingType
<1> QED
  BY <1>1, <1>2, PassEnds, SubmitPushes DEF TimingSubmit

-----------------------------------------------------------------------------
\* The detector stands at p for breaker k; or it is done with the instance.
DetectorAt(p, k) ==
    /\ detect' \in DetectType
    /\ detect' = [pc |-> p, k |-> k, inst |-> detect.inst, from |-> detect.from, to |-> detect.to]

DetectorNext ==
    \/ detect' = IdleDetect /\ detect' \in DetectType
    \/ detect.k < LastIndex /\ DetectorAt("translate", detect.k + 1)

LEMMA DetectorIn ==
    ASSUME BaseInv, detect.pc # "idle"
    PROVE  /\ detect \in DetectType /\ detect.k \in 1 .. Health /\ detect.inst \in Instances
           /\ detect.to \in Status /\ detect.from \in Status
           /\ detect.k <= LastIndex /\ LastIndex \in 1 .. Health
           /\ detect.pc \in {"half_status", "half_reset"} => detect.k \in Breakers
<1>1. detect \in DetectType
  BY OthersTyped
<1>2. /\ detect.k \in 1 .. Health /\ detect.to \in Status /\ detect.from \in Status
  BY <1>1 DEF DetectType
<1>3. detect.inst \in Instances /\ detect.k <= LastIndex
  BY DEF BaseInv, DetectInv
<1>4. LastIndex \in 1 .. Health
  BY DEF LastIndex, Health, Rate
<1>5. detect.pc \in {"half_status", "half_reset"} => detect.k \in Breakers
  <2>1. detect.pc \in {"half_status", "half_reset"} => LastIndex = Rate
    BY DEF BaseInv, DetectInv, LastIndex
  <2> QED
    BY <1>2, <1>3, <2>1 DEF Breakers, Rate, Count, Health
<1> QED
  BY <1>1, <1>2, <1>3, <1>4, <1>5

LEMMA DetectorMoved ==
    ASSUME BaseInv, detect.pc # "idle"
    PROVE  /\ \A p \in {"idle", "translate", "half_status", "half_reset"} :
                detect' = [detect EXCEPT !.pc = p] => DetectorAt(p, detect.k)
           /\ detect' = NextIndex => DetectorNext
<1>1. \A p \in {"idle", "translate", "half_status", "half_reset"} :
        detect' = [detect EXCEPT !.pc = p] => DetectorAt(p, detect.k)
  BY DetectorIn DEF DetectType, DetectorAt
<1>2. ASSUME detect' = NextIndex PROVE DetectorNext
  <2>1. CASE detect.k = LastIndex
    <3>1. detect' = IdleDetect
      BY <1>2, <2>1 DEF NextIndex
    <3>2. IdleDetect \in DetectType
      BY DEF IdleDetect, DetectType, Count, Health, Status
    <3> QED
      BY <3>1, <3>2 DEF DetectorNext
  <2>2. CASE detect.k # LastIndex
    <3>1. detect.k < LastIndex /\ detect.k + 1 \in 1 .. Health
      BY <2>2, DetectorIn DEF Health
    <3>2. PICK n \in 1 .. Health : n = detect.k + 1
      BY <3>1
    <3> DEFINE a == [detect EXCEPT !.k = n]
    <3>3. detect' = [a EXCEPT !.pc = "translate"]
      BY <1>2, <2>2, <3>2 DEF NextIndex
    <3>4. /\ a \in DetectType /\ a.k = n /\ a.inst = detect.inst /\ a.from = detect.from /\ a.to = detect.to
      BY DetectorIn DEF DetectType
    <3> HIDE DEF a
    <3>5. DetectorAt("translate", n)
      BY <3>3, <3>4 DEF DetectType, DetectorAt
    <3> QED
      BY <3>1, <3>2, <3>5 DEF DetectorNext
  <2> QED
    BY <2>1, <2>2
<1> QED
  BY <1>1, <1>2

LEMMA DetectProbeDoes ==
    ASSUME BaseInv, DetectProbe
    PROVE  /\ detect.pc = "idle" /\ When # "never" /\ detect' \in DetectType
           /\ detect'.pc = "translate" /\ detect'.inst \in Instances /\ detect'.k <= LastIndex
           /\ detect'.to = "half" => detect'.from = "open" /\ When = "on_recover"
           /\ When = "on_recover" => detect'.to = "half"
           /\ UNCHANGED <<chainVars, statVars, regVars, call, timing>>
<1>1. PICK i \in Probed :
         \/ detect' = [pc |-> "translate", k |-> Count, inst |-> i,
                       from |-> "open", to |-> ProbeSucceeds]
         \/ /\ When = "always"
            /\ detect' = [pc |-> "translate", k |-> Health, inst |-> i,
                          from |-> "close", to |-> "open"]
  BY DEF DetectProbe
<1>2. When \in {"never", "always", "on_recover"}
  <2>1. setup \in Setups
    BY DEF BaseInv, TypeOK
  <2> QED
    BY <2>1, SetupTyped
<1>3. When # "never" /\ i \in Instances
  <2>1. reg.open \in SUBSET Instances
    BY OthersTyped DEF RegType
  <2>2. CASE When = "always"
    BY <1>1, <2>2 DEF Probed
  <2>3. CASE When = "on_recover"
    BY <1>1, <2>1, <2>3 DEF Probed
  <2>4. CASE When = "never"
    BY <1>1, <2>4 DEF Probed
  <2> QED
    BY <1>2, <2>2, <2>3, <2>4
<1>4. /\ detect.pc = "idle" /\ UNCHANGED <<chainVars, statVars, regVars, call, timing>>
  BY DEF DetectProbe
<1>5. ProbeSucceeds \in Status /\ (ProbeSucceeds = "half" => When = "on_recover")
      /\ (When = "on_recover" => ProbeSucceeds = "half")
  BY <1>2, <1>3 DEF ProbeSucceeds, Status
<1>6. LastIndex \in {Rate, Health} /\ (When = "always" => LastIndex = Health)
  BY DEF LastIndex
<1>7. CASE detect' = [pc |-> "translate", k |-> Count, inst |-> i, from |-> "open", to |-> ProbeSucceeds]
  BY <1>3, <1>4, <1>5, <1>6, <1>7 DEF DetectType, Count, Rate, Health, Status
<1>8. CASE /\ When = "always"
           /\ detect' = [pc |-> "translate", k |-> Health, inst |-> i, from |-> "close", to |-> "open"]
  BY <1>3, <1>4, <1>6, <1>8 DEF DetectType, Count, Rate, Health, Status
<1> QED
  BY <1>1, <1>7, <1>8

LEMMA DetectTranslateDoes ==
    ASSUME BaseInv, DetectTranslate
    PROVE  /\ detect.pc = "translate" /\ Tried(detect.k, detect.inst, detect.from, detect.to)
           /\ \/ detect.to = "half" /\ DetectorAt("half_status", detect.k)
              \/ DetectorNext
           /\ UNCHANGED <<statVars, regVars, call, timing>>
<1>1. /\ detect.pc = "translate" /\ TryTranslate(detect.k, detect.inst, detect.from, detect.to)
      /\ detect' = IF Translatable(detect.k, detect.inst, detect.from) /\ detect.to = "half"
                     THEN [detect EXCEPT !.pc = "half_status"] ELSE NextIndex
      /\ UNCHANGED <<statVars, regVars, call, timing>>
  BY DEF DetectTranslate
<1>2. Tried(detect.k, detect.inst, detect.from, detect.to)
  BY <1>1, DetectorIn, ChainTried
<1> QED
  BY <1>1, <1>2, DetectorMoved

\* The writes of DetectToHalfOpen, which only health checks on recovery reach.
LEMMA DetectHalfDoes ==
    ASSUME BaseInv, DetectHalfStatus \/ DetectHalfReset
    PROVE  /\ When = "on_recover" /\ detect.pc # "idle" /\ stat' \in StatsType
           /\ DetectorNext \/ (detect.to = "half" /\ DetectorAt("half_reset", detect.k))
           /\ UNCHANGED <<chainVars, gen, live, regVars, call, timing>>
<1>0. /\ detect.pc \in {"half_status", "half_reset"}
      /\ UNCHANGED <<chainVars, gen, live, regVars, call, timing>>
  BY DEF DetectHalfStatus, DetectHalfReset
<1>1. When = "on_recover" /\ detect.to = "half"
  BY <1>0 DEF BaseInv, DetectInv
<1> DEFINE s == Counted(detect.k, detect.inst)
<1>2. detect.k \in Breakers /\ detect.inst \in Instances /\ s \in StatusType
  BY <1>0, DetectorIn, Typed
<1>3. CASE DetectHalfStatus
  <2> DEFINE n == [s EXCEPT !.st = "half"]
  <2>1. n \in StatusType
    BY <1>2 DEF StatusType, Status
  <2>2. CASE live[detect.k][detect.inst] /\ s.st = "open"
    <3>1. WriteCounted(detect.k, detect.inst, n) /\ detect' = [detect EXCEPT !.pc = "half_reset"]
      BY <1>3, <2>2 DEF DetectHalfStatus
    <3> HIDE DEF n
    <3>2. stat' \in StatsType
      BY <1>2, <2>1, <3>1, CountedWritten DEF Wrote
    <3> QED
      BY <1>0, <1>1, <3>1, <3>2, DetectorMoved
  <2>3. CASE ~(live[detect.k][detect.inst] /\ s.st = "open")
    <3>1. detect' = NextIndex /\ stat' = stat
      BY <1>3, <2>3 DEF DetectHalfStatus
    <3>2. stat' \in StatsType
      BY <3>1, Typed DEF StatsType
    <3> QED
      BY <1>0, <1>1, <3>1, <3>2, DetectorMoved
  <2> QED
    BY <2>2, <2>3
<1>4. CASE DetectHalfReset
  <2> DEFINE n == DetectedHalf(detect.k, s)
  <2>1. WriteCounted(detect.k, detect.inst, n) /\ detect' = NextIndex
    BY <1>4 DEF DetectHalfReset
  <2>2. n \in StatusType
    <3>1. 0 \in Ages
      BY Typed DEF Ages
    <3> DEFINE a == [s EXCEPT !.succ = 0]
               b == [a EXCEPT !.err = 0]
               c == [s EXCEPT !.wtotal = 0]
               d == [c EXCEPT !.werr = 0]
    <3>3. n = IF detect.k = Count THEN [b EXCEPT !.age = 0] ELSE [d EXCEPT !.age = 0]
      BY DEF DetectedHalf
    <3>4. a \in StatusType /\ c \in StatusType
      BY <1>2 DEF StatusType
    <3> HIDE DEF a, c
    <3>5. b \in StatusType /\ d \in StatusType
      BY <3>4 DEF StatusType
    <3> HIDE DEF b, d
    <3>6. [b EXCEPT !.age = 0] \in StatusType /\ [d EXCEPT !.age = 0] \in StatusType
      BY <3>1, <3>5 DEF StatusType
    <3> QED
      BY <3>3, <3>6
  <2> HIDE DEF n
  <2>3. stat' \in StatsType
    BY <1>2, <2>1, <2>2, CountedWritten DEF Wrote
  <2> QED
    BY <1>0, <1>1, <2>1, <2>3, DetectorMoved
<1> QED
  BY <1>3, <1>4

-----------------------------------------------------------------------------
\* The calls an object has counted are left alone.
CountersKept ==
    /\ stat' \in StatsType
    /\ \A k \in Breakers, i \in Instances, g \in 0 .. MaxGen :
         /\ stat'[k][i][g].st = stat[k][i][g].st /\ stat'[k][i][g].succ = stat[k][i][g].succ
         /\ stat'[k][i][g].total = stat[k][i][g].total /\ stat'[k][i][g].err = stat[k][i][g].err

LEMMA TimeDoes ==
    ASSUME BaseInv, Tick \/ \E i \in Instances : WindowSlides(i)
    PROVE  CountersKept /\ UNCHANGED <<chainVars, gen, live, regVars, call, timing, detect>>
<1>1. CASE Tick
  <2>1. /\ stat' = [k \in Breakers |-> [i \in Instances |-> [g \in 0 .. MaxGen |->
                      [stat[k][i][g] EXCEPT !.age = Older(@)]]]]
        /\ UNCHANGED <<chain, version, earned, gen, live, regVars, call, timing, detect>>
    BY <1>1 DEF Tick
  <2>2. ASSUME NEW k \in Breakers, NEW i \in Instances, NEW g \in 0 .. MaxGen
        PROVE  /\ [stat[k][i][g] EXCEPT !.age = Older(@)] \in StatusType
               /\ stat'[k][i][g].st = stat[k][i][g].st /\ stat'[k][i][g].succ = stat[k][i][g].succ
               /\ stat'[k][i][g].total = stat[k][i][g].total /\ stat'[k][i][g].err = stat[k][i][g].err
    <3>1. PICK s \in StatusType : s = stat[k][i][g]
      BY Typed
    <3>2. stat'[k][i][g] = [s EXCEPT !.age = Older(s.age)]
      BY <2>1, <3>1
    <3>3. Older(s.age) \in Ages
      BY Typed DEF StatusType, Older, Ages
    <3> DEFINE n == [s EXCEPT !.age = Older(s.age)]
    <3>4. n \in StatusType /\ n.st = s.st /\ n.succ = s.succ /\ n.total = s.total /\ n.err = s.err
      BY <3>3 DEF StatusType
    <3>5. [stat[k][i][g] EXCEPT !.age = Older(@)] = n
      BY <3>1
    <3> HIDE DEF n
    <3> QED
      BY <3>1, <3>2, <3>4, <3>5 DEF n
  <2>3. stat' \in StatsType
    BY <2>1, <2>2 DEF StatsType
  <2> QED
    BY <2>1, <2>2, <2>3 DEF CountersKept, chainVars
<1>2. CASE \E i \in Instances : WindowSlides(i)
  <2>1. PICK i \in Instances : WindowSlides(i)
    BY <1>2
  <2> DEFINE s == Counted(Rate, i)
             n == [[s EXCEPT !.wtotal = 0] EXCEPT !.werr = 0]
  <2>2. /\ WriteCounted(Rate, i, n)
        /\ UNCHANGED <<chainVars, gen, live, regVars, call, timing, detect>>
    BY <2>1 DEF WindowSlides
  <2>3. s \in StatusType /\ Rate \in Breakers
    BY Typed DEF Breakers
  <2>4. n \in StatusType /\ n.st = s.st /\ n.succ = s.succ /\ n.total = s.total /\ n.err = s.err
    <3> DEFINE m == [s EXCEPT !.wtotal = 0]
    <3>1. m \in StatusType /\ m.st = s.st /\ m.succ = s.succ /\ m.total = s.total /\ m.err = s.err
      BY <2>3 DEF StatusType
    <3> HIDE DEF m
    <3>2. LET q == [m EXCEPT !.werr = 0] IN
          q \in StatusType /\ q.st = s.st /\ q.succ = s.succ /\ q.total = s.total /\ q.err = s.err
      BY <3>1 DEF StatusType
    <3> QED
      BY <3>2 DEF m
  <2> HIDE DEF n
  <2>5. Wrote(Rate, i, gen[Rate][i], n)
    BY <2>2, <2>3, <2>4, CountedWritten
  <2>6. CountersKept
    BY <2>4, <2>5 DEF CountersKept, Wrote, Counted
  <2> QED
    BY <2>2, <2>6
<1> QED
  BY <1>1, <1>2

LEMMA FreshTyped ==
    ASSUME setup \in Setups
    PROVE  /\ NoStatuses \in StatsType /\ EachEntry(0) \in [Breakers -> [Instances -> 0 .. MaxGen]]
           /\ EachEntry(FALSE) \in [Breakers -> [Instances -> BOOLEAN]]
           /\ EachInstance(DefaultChainStatus) \in [Instances -> [status : Status, owner : 0 .. Health]]
           /\ EachInstance(0) \in [Instances -> Nat]
           /\ FreshService \in RegType /\ [FreshService EXCEPT !.known = FALSE] \in RegType
           /\ 0 \in 0 .. MaxVersion /\ IdleCall \in CallType /\ IdleTiming \in TimingType
           /\ IdleDetect \in DetectType
           /\ NothingSubmitted \in [last : 0 .. MaxVersion, newest : 0 .. MaxVersion]
<1>1. 0 \in 0 .. MaxGen /\ 0 \in 0 .. MaxVersion /\ LongWait \in Ages
  BY SetupTyped DEF Ages
<1>2. NewStatus \in StatusType
  BY <1>1 DEF NewStatus, StatusType, Status
<1>3. NoStatuses \in StatsType
  BY <1>2 DEF NoStatuses, StatsType
<1>4. DefaultChainStatus \in [status : Status, owner : 0 .. Health]
  BY DEF DefaultChainStatus, Status, Health
<1>5. FreshService \in RegType
  BY <1>1 DEF FreshService, RegType
<1>6. [FreshService EXCEPT !.known = FALSE] \in RegType
  BY <1>5 DEF RegType
<1>7. IdleCall \in CallType
  BY <1>1 DEF IdleCall, CallType, CallPc, Status
<1>8. IdleTiming \in TimingType
  BY <1>1 DEF IdleTiming, TimingType, Breakers, Status
<1>9. IdleDetect \in DetectType
  BY DEF IdleDetect, DetectType, Status, Count, Health
<1>10. NothingSubmitted \in [last : 0 .. MaxVersion, newest : 0 .. MaxVersion]
  BY <1>1 DEF NothingSubmitted
<1> QED
  BY <1>1, <1>3, <1>4, <1>5, <1>6, <1>7, <1>8, <1>9, <1>10 DEF EachEntry, EachInstance

-----------------------------------------------------------------------------
LEMMA InitBase ==
    ASSUME Init
    PROVE  BaseInv
<1>1. setup \in Setups
  BY DEF Init
<1>2. TypeOK
  <2>1. /\ chain = EachInstance(DefaultChainStatus) /\ version = 0 /\ lastUpdate = 0 /\ stat = NoStatuses
        /\ gen = EachEntry(0) /\ live = EachEntry(FALSE) /\ earned = EachInstance(0) /\ reg = FreshService
        /\ submitted = NothingSubmitted /\ expiring = FALSE /\ call = [r \in Callers |-> IdleCall]
        /\ timing = IdleTiming /\ detect = IdleDetect
    BY DEF Init
  <2>2. call \in [Callers -> CallType]
    BY <1>1, <2>1, FreshTyped
  <2> QED
    BY <1>1, <2>1, <2>2, FreshTyped
       DEF TypeOK, StatsType, StatusType, RegType, CallType, CallPc, TimingType, DetectType
<1>3. CallInv
  BY DEF Init, CallInv, IdleCall
<1>4. TimingInv /\ DetectInv
  BY DEF Init, TimingInv, DetectInv, IdleTiming, IdleDetect, Deciding, Cleaning
<1>5. ChainInv
  BY DEF Init, ChainInv, EachInstance, DefaultChainStatus
<1> QED
  BY <1>2, <1>3, <1>4, <1>5 DEF BaseInv

LEMMA TypeFrom ==
    ASSUME setup \in Setups, setup' = setup,
           chain' \in [Instances -> [status : Status, owner : 0 .. Health]],
           version' \in 0 .. MaxVersion, lastUpdate' \in 0 .. MaxVersion,
           submitted' \in [last : 0 .. MaxVersion, newest : 0 .. MaxVersion],
           expiring' \in BOOLEAN, stat' \in StatsType,
           gen' \in [Breakers -> [Instances -> 0 .. MaxGen]], live' \in [Breakers -> [Instances -> BOOLEAN]],
           reg' \in RegType, call' \in [Callers -> CallType], timing' \in TimingType, detect' \in DetectType,
           earned' \in [Instances -> Nat]
    PROVE  TypeOK'
BY DEF TypeOK, StatsType, StatusType, RegType, CallType, CallPc, TimingType, DetectType,
       MaxGen, MaxVersion, LongWait, Ages

\* The types of what an action leaves alone.
LEMMA TypesNow ==
    ASSUME BaseInv
    PROVE  /\ setup \in Setups /\ chain \in [Instances -> [status : Status, owner : 0 .. Health]]
           /\ version \in 0 .. MaxVersion /\ lastUpdate \in 0 .. MaxVersion
           /\ submitted \in [last : 0 .. MaxVersion, newest : 0 .. MaxVersion]
           /\ expiring \in BOOLEAN /\ earned \in [Instances -> Nat]
           /\ gen \in [Breakers -> [Instances -> 0 .. MaxGen]] /\ live \in [Breakers -> [Instances -> BOOLEAN]]
BY DEF BaseInv, TypeOK

LEMMA CallKept ==
    ASSUME BaseInv, NEW r \in Callers, NEW p, NEW g, NEW s, Moved(r, p, g, s),
           call[r].pc # "idle", p = "count_add" /\ s = "open" => call[r].ok, p = "count_trip" => s # "open"
    PROVE  CallInv'
BY DEF BaseInv, CallInv, Moved

LEMMA CallEndKept ==
    ASSUME BaseInv, NEW r \in Callers, Ended(r)
    PROVE  CallInv'
BY DEF BaseInv, CallInv, Ended, IdleCall

LEMMA ChainKept ==
    ASSUME BaseInv, NEW k \in 1 .. Health, NEW i, NEW from, NEW to \in Status, Tried(k, i, from, to)
    PROVE  ChainInv'
<1>1. CASE Translatable(k, i, from)
  <2>1. /\ chain'[i] = IF to = "close" THEN DefaultChainStatus ELSE [status |-> to, owner |-> k]
        /\ \A j \in Instances : j # i => chain'[j] = chain[j]
    BY <1>1 DEF Tried
  <2>2. chain'[i].owner = 0 <=> chain'[i].status = "close"
    BY <2>1 DEF DefaultChainStatus, Health
  <2> QED
    BY <2>1, <2>2 DEF ChainInv, BaseInv
<1>2. CASE ~Translatable(k, i, from)
  BY <1>2 DEF Tried, chainVars, ChainInv, BaseInv
<1> QED
  BY <1>1, <1>2

LEMMA SameTiming ==
    ASSUME BaseInv, UNCHANGED <<timing, gen, setup>>
    PROVE  TimingInv'
BY DEF BaseInv, TimingInv, MaxGen, When

LEMMA SameDetect ==
    ASSUME BaseInv, UNCHANGED <<detect, setup>>
    PROVE  DetectInv'
BY DEF BaseInv, DetectInv, When, LastIndex

LEMMA SameCall ==
    ASSUME BaseInv, UNCHANGED call
    PROVE  CallInv'
BY DEF BaseInv, CallInv

LEMMA SameChain ==
    ASSUME BaseInv, UNCHANGED chain
    PROVE  ChainInv'
BY DEF BaseInv, ChainInv

-----------------------------------------------------------------------------
LEMMA CallerBase ==
    ASSUME BaseInv, setup' = setup, NEW r \in Callers, Report(r) \/ CallerStep(r)
    PROVE  BaseInv'
<1> USE DEF chainVars, statVars, regVars
<1>1. CASE Report(r)
  <2>1. CallInv'
    BY <1>1, ReportDoes DEF BaseInv, CallInv
  <2>2. TypeOK'
    BY <1>1, ReportDoes, TypesNow, OthersTyped, Typed, TypeFrom
  <2> QED
    BY <1>1, <2>1, <2>2, ReportDoes, SameTiming, SameDetect, SameChain DEF BaseInv
<1>2. CASE CountRead(r)
  <2>1. CallInv'
    BY <1>2, CountReadDoes, CallKept
  <2>2. TypeOK'
    BY <1>2, CountReadDoes, TypesNow, OthersTyped, Typed, TypeFrom DEF Moved
  <2> QED
    BY <1>2, <2>1, <2>2, CountReadDoes, SameTiming, SameDetect, SameChain DEF BaseInv
<1>3. CASE CountSuccess(r)
  <2>1. CallInv'
    BY <1>3, CountSuccessDoes, CallKept
  <2>2. TypeOK'
    <3>1. call' \in [Callers -> CallType] /\ stat' \in StatsType
      BY <1>3, CountSuccessDoes DEF Moved, Wrote
    <3>2. earned' \in [Instances -> Nat]
      BY <1>3, CountSuccessDoes, TypesNow DEF Counts
    <3> QED
      BY <1>3, <3>1, <3>2, CountSuccessDoes, TypesNow, OthersTyped, TypeFrom
  <2> QED
    BY <1>3, <2>1, <2>2, CountSuccessDoes, SameTiming, SameDetect, SameChain DEF BaseInv
<1>4. CASE CountFailure(r)
  <2>1. CallInv'
    BY <1>4, CountFailureDoes, CallKept DEF BaseInv, CallInv
  <2>2. TypeOK'
    <3>1. call' \in [Callers -> CallType] /\ stat' \in StatsType
      BY <1>4, CountFailureDoes DEF Moved, Wrote
    <3> QED
      BY <1>4, <3>1, CountFailureDoes, TypesNow, OthersTyped, TypeFrom
  <2> QED
    BY <1>4, <2>1, <2>2, CountFailureDoes, SameTiming, SameDetect, SameChain DEF BaseInv
<1>5. CASE CountTrip(r)
  <2>1. CallInv'
    BY <1>5, CountTripDoes, CallKept
  <2>2. TypeOK'
    BY <1>5, CountTripDoes, TypesNow, OthersTyped, Typed, TypeFrom DEF Moved, Tried
  <2>3. ChainInv'
    BY <1>5, CountTripDoes, ChainKept DEF Count, Health, Status
  <2> QED
    BY <1>5, <2>1, <2>2, <2>3, CountTripDoes, SameTiming, SameDetect DEF BaseInv
<1>6. CASE CountStatus(r)
  <2>1. CallInv'
    BY <1>6, CountStatusDoes, CallKept
  <2>2. TypeOK'
    <3>1. call' \in [Callers -> CallType] /\ stat' \in StatsType
      BY <1>6, CountStatusDoes DEF Moved, Wrote
    <3> QED
      BY <1>6, <3>1, CountStatusDoes, TypesNow, OthersTyped, TypeFrom
  <2> QED
    BY <1>6, <2>1, <2>2, CountStatusDoes, SameTiming, SameDetect, SameChain DEF BaseInv
<1>7. CASE CountTime(r)
  <2>1. CallInv'
    BY <1>7, CountTimeDoes, CallKept
  <2>2. TypeOK'
    <3>1. call' \in [Callers -> CallType] /\ stat' \in StatsType
      BY <1>7, CountTimeDoes DEF Moved, Wrote
    <3> QED
      BY <1>7, <3>1, CountTimeDoes, TypesNow, OthersTyped, TypeFrom
  <2> QED
    BY <1>7, <2>1, <2>2, CountTimeDoes, SameTiming, SameDetect, SameChain DEF BaseInv
<1>8. CASE RateRead(r)
  <2>1. CallInv'
    BY <1>8, RateReadDoes, CallKept
  <2>2. TypeOK'
    BY <1>8, RateReadDoes, TypesNow, OthersTyped, Typed, TypeFrom DEF Moved
  <2> QED
    BY <1>8, <2>1, <2>2, RateReadDoes, SameTiming, SameDetect, SameChain DEF BaseInv
<1>9. CASE RateTotal(r)
  <2>1. CallInv'
    BY <1>9, RateTotalDoes, CallKept
  <2>2. TypeOK'
    <3>1. call' \in [Callers -> CallType] /\ stat' \in StatsType
      BY <1>9, RateTotalDoes DEF Moved, Wrote
    <3>2. earned' \in [Instances -> Nat]
      BY <1>9, RateTotalDoes, TypesNow DEF Counts
    <3> QED
      BY <1>9, <3>1, <3>2, RateTotalDoes, TypesNow, OthersTyped, TypeFrom
  <2> QED
    BY <1>9, <2>1, <2>2, RateTotalDoes, SameTiming, SameDetect, SameChain DEF BaseInv
<1>10. CASE RateErr(r)
  <2>1. CallInv'
    BY <1>10, RateErrDoes, CallKept
  <2>2. TypeOK'
    <3>1. call' \in [Callers -> CallType] /\ stat' \in StatsType
      BY <1>10, RateErrDoes DEF Moved, Wrote
    <3> QED
      BY <1>10, <3>1, RateErrDoes, TypesNow, OthersTyped, TypeFrom
  <2> QED
    BY <1>10, <2>1, <2>2, RateErrDoes, SameTiming, SameDetect, SameChain DEF BaseInv
<1>11. CASE CallSync(r)
  <2>1. CallInv'
    BY <1>11, CallSyncDoes, CallKept, CallEndKept
  <2>2. TypeOK'
    BY <1>11, CallSyncDoes, TypesNow, OthersTyped, Typed, TypeFrom DEF Moved, Ended, Synced
  <2> QED
    BY <1>11, <2>1, <2>2, CallSyncDoes, SameTiming, SameDetect, SameChain DEF BaseInv
<1>12. CASE CallRead(r)
  <2>1. CallInv'
    BY <1>12, CallReadDoes, CallKept
  <2>2. TypeOK'
    BY <1>12, CallReadDoes, TypesNow, OthersTyped, Typed, TypeFrom DEF Moved
  <2> QED
    BY <1>12, <2>1, <2>2, CallReadDoes, SameTiming, SameDetect, SameChain DEF BaseInv
<1>13. CASE CallSubmit(r)
  <2>1. CallInv'
    BY <1>13, CallSubmitDoes, CallEndKept
  <2>2. TypeOK'
    BY <1>13, CallSubmitDoes, TypesNow, OthersTyped, Typed, TypeFrom DEF Ended, Pushed
  <2> QED
    BY <1>13, <2>1, <2>2, CallSubmitDoes, SameTiming, SameDetect, SameChain DEF BaseInv
<1> QED
  BY <1>1, <1>2, <1>3, <1>4, <1>5, <1>6, <1>7, <1>8, <1>9, <1>10, <1>11, <1>12, <1>13 DEF CallerStep

LEMMA ExecutorBase ==
    ASSUME BaseInv, setup' = setup, ExecutorStep
    PROVE  BaseInv'
<1> USE DEF chainVars, statVars, regVars
<1>1. CASE TimingStart
  <2>1. StartBreaker(Count) /\ UNCHANGED <<chainVars, statVars, regVars, call, detect>> /\ Count \in Breakers
    BY <1>1 DEF TimingStart, Breakers
  <2>2. ExecutorAt("scan", Count, {i \in Instances : live[Count][i]}, None, "close", "close")
    BY <2>1, StartDoes
  <2>3. TimingInv'
    BY <2>2 DEF ExecutorAt, TimingInv, Deciding, Cleaning
  <2>4. TypeOK'
    BY <2>1, <2>2, TypesNow, OthersTyped, Typed, TypeFrom DEF ExecutorAt
  <2> QED
    BY <2>1, <2>3, <2>4, SameCall, SameDetect, SameChain DEF BaseInv
<1>2. CASE TimingLook
  <2>1. PICK i \in timing.todo :
          /\ i \in Instances /\ Counted(timing.k, i) \in StatusType
          /\ \/ ExecutorAt("scan", timing.k, timing.todo \ {i}, timing.inst, timing.from, timing.to)
             \/ /\ Target(timing.k, Counted(timing.k, i)) # Counted(timing.k, i).st
                /\ ExecutorAt("translate", timing.k, timing.todo \ {i}, i, Counted(timing.k, i).st,
                              Target(timing.k, Counted(timing.k, i)))
    BY <1>2, LookDoes
  <2>2. UNCHANGED <<chainVars, statVars, regVars, call, detect>>
    BY <1>2, LookDoes
  <2>3. TimingInv'
    <3>1. CASE ExecutorAt("scan", timing.k, timing.todo \ {i}, timing.inst, timing.from, timing.to)
      BY <3>1 DEF ExecutorAt, TimingInv, Deciding, Cleaning
    <3>2. CASE /\ Target(timing.k, Counted(timing.k, i)) # Counted(timing.k, i).st
               /\ ExecutorAt("translate", timing.k, timing.todo \ {i}, i, Counted(timing.k, i).st,
                             Target(timing.k, Counted(timing.k, i)))
      <4> DEFINE s == Counted(timing.k, i)
                 t == Target(timing.k, s)
      <4>1. /\ t = "half" => s.st = "open" /\ When = "never"
            /\ t = "close" => s.st = "half"
            /\ s.st = "close" => timing.k = Rate
            /\ t # s.st
        BY <2>1, <3>2, ExecutorIn, TargetIs
      <4>2. timing' = [pc |-> "translate", k |-> timing.k, todo |-> timing.todo \ {i}, inst |-> i,
                       from |-> s.st, to |-> t, read |-> timing'.read]
        BY <3>2 DEF ExecutorAt
      <4> HIDE DEF s, t
      <4> QED
        BY <2>1, <4>1, <4>2 DEF TimingInv, Deciding, Cleaning, When
    <3> QED
      BY <2>1, <3>1, <3>2
  <2>4. timing' \in TimingType
    BY <2>1 DEF ExecutorAt
  <2>5. TypeOK'
    BY <2>2, <2>4, TypesNow, OthersTyped, Typed, TypeFrom
  <2> QED
    BY <2>2, <2>3, <2>5, SameCall, SameDetect, SameChain DEF BaseInv
<1>3. CASE TimingTranslate
  <2>1. timing.pc = "translate" /\ timing.inst \in Instances /\ timing.inst \notin timing.todo
    BY <1>3, TranslateDoes DEF BaseInv, TimingInv, Deciding
  <2>2. TimingInv'
    BY <1>3, <2>1, TranslateDoes DEF BaseInv, ExecutorAt, TimingInv, Deciding, Cleaning, When
  <2>3. TypeOK'
    BY <1>3, TranslateDoes, TypesNow, OthersTyped, Typed, TypeFrom DEF ExecutorAt, Tried
  <2>4. ChainInv'
    BY <1>3, TranslateDoes, ChainKept, ExecutorIn
  <2> QED
    BY <1>3, <2>2, <2>3, <2>4, TranslateDoes, SameCall, SameDetect DEF BaseInv
<1>4. CASE TimingStatus
  <2>1. timing.pc = "status" /\ timing.inst \in Instances /\ timing.inst \notin timing.todo
    BY <1>4, TimingStatusDoes DEF BaseInv, TimingInv, Deciding
  <2>2. TimingInv'
    BY <1>4, <2>1, TimingStatusDoes DEF ExecutorAt, TimingInv, Deciding, Cleaning
  <2>3. stat' \in StatsType /\ timing' \in TimingType
    BY <1>4, TimingStatusDoes DEF Wrote, ExecutorAt
  <2>4. TypeOK'
    BY <1>4, <2>3, TimingStatusDoes, TypesNow, OthersTyped, Typed, TypeFrom
  <2> QED
    BY <1>4, <2>2, <2>4, TimingStatusDoes, SameCall, SameDetect, SameChain DEF BaseInv
<1>5. CASE TimingReset
  <2>1. TimingInv'
    BY <1>5, TimingResetDoes DEF ExecutorAt, TimingInv, Deciding, Cleaning
  <2>2. stat' \in StatsType /\ timing' \in TimingType
    BY <1>5, TimingResetDoes DEF Wrote, ExecutorAt
  <2>3. TypeOK'
    BY <1>5, <2>2, TimingResetDoes, TypesNow, OthersTyped, Typed, TypeFrom
  <2> QED
    BY <1>5, <2>1, <2>3, TimingResetDoes, SameCall, SameDetect, SameChain DEF BaseInv
<1>6. CASE CleanExpired
  <2>1. PICK i \in Instances : /\ gen[timing.k][i] < MaxGen
                               /\ ExecutorAt("clean_open", timing.k, timing.todo, i, timing.from, timing.to)
    BY <1>6, CleanExpiredDoes
  <2>2. TimingInv'
    BY <1>6, <2>1, CleanExpiredDoes DEF ExecutorAt, TimingInv, Deciding, Cleaning, MaxGen
  <2>3. TypeOK'
    BY <1>6, <2>1, CleanExpiredDoes, TypesNow, OthersTyped, Typed, TypeFrom DEF ExecutorAt
  <2> QED
    BY <1>6, <2>2, <2>3, CleanExpiredDoes, SameCall, SameDetect, SameChain DEF BaseInv
<1>7. CASE CleanOpen \/ CleanHalf
  <2>1. timing.pc \in Cleaning /\ timing.inst \in Instances /\ gen[timing.k][timing.inst] < MaxGen
    BY <1>7, CleanChainDoes DEF BaseInv, TimingInv, Cleaning
  <2>2. TimingInv'
    BY <1>7, <2>1, CleanChainDoes DEF ExecutorAt, TimingInv, Deciding, Cleaning, MaxGen
  <2>3. TypeOK'
    BY <1>7, CleanChainDoes, TypesNow, OthersTyped, Typed, TypeFrom DEF ExecutorAt, Tried
  <2>4. ChainInv'
    BY <1>7, CleanChainDoes, ChainKept, ExecutorIn DEF Status
  <2> QED
    BY <1>7, <2>2, <2>3, <2>4, CleanChainDoes, SameCall, SameDetect DEF BaseInv
<1>8. CASE CleanDelete
  <2>1. TimingInv'
    BY <1>8, CleanDeleteDoes DEF ExecutorAt, TimingInv, Deciding, Cleaning
  <2>2. TypeOK'
    BY <1>8, CleanDeleteDoes, TypesNow, OthersTyped, Typed, TypeFrom DEF ExecutorAt
  <2> QED
    BY <1>8, <2>1, <2>2, CleanDeleteDoes, SameCall, SameDetect, SameChain DEF BaseInv
<1>9. CASE BreakerDone
  <2>1. TimingInv'
    BY <1>9, BreakerDoneDoes DEF ExecutorAt, TimingInv, Deciding, Cleaning
  <2>2. TypeOK'
    BY <1>9, BreakerDoneDoes, TypesNow, OthersTyped, Typed, TypeFrom DEF ExecutorAt
  <2> QED
    BY <1>9, <2>1, <2>2, BreakerDoneDoes, SameCall, SameDetect, SameChain DEF BaseInv
<1>10. ASSUME PassEnded PROVE CallInv' /\ TimingInv' /\ timing' \in TimingType /\ call' \in [Callers -> CallType]
  BY <1>10 DEF PassEnded, IdleTiming, BaseInv, CallInv, TimingInv, Deciding, Cleaning
<1>11. CASE TimingSync
  <2>1. CASE /\ Synced /\ UNCHANGED call
             /\ ExecutorAt("submit", timing.k, timing.todo, timing.inst, timing.from, timing.to)
    <3>1. TimingInv'
      BY <2>1 DEF ExecutorAt, TimingInv, Deciding, Cleaning
    <3>2. TypeOK'
      BY <1>11, <2>1, TimingSyncDoes, TypesNow, OthersTyped, Typed, TypeFrom DEF ExecutorAt, Synced
    <3> QED
      BY <1>11, <2>1, <3>1, <3>2, TimingSyncDoes, SameCall, SameDetect, SameChain DEF BaseInv
  <2>2. CASE PassEnded /\ UNCHANGED regVars
    <3>1. TypeOK'
      BY <1>10, <1>11, <2>2, TimingSyncDoes, TypesNow, OthersTyped, Typed, TypeFrom
    <3> QED
      BY <1>10, <1>11, <2>2, <3>1, TimingSyncDoes, SameDetect, SameChain DEF BaseInv
  <2> QED
    BY <1>11, <2>1, <2>2, TimingSyncDoes
<1>12. CASE TimingRead
  <2>1. TimingInv'
    BY <1>12, TimingReadDoes DEF ExecutorAt, TimingInv, Deciding, Cleaning
  <2>2. TypeOK'
    BY <1>12, TimingReadDoes, TypesNow, OthersTyped, Typed, TypeFrom DEF ExecutorAt
  <2> QED
    BY <1>12, <2>1, <2>2, TimingReadDoes, SameCall, SameDetect, SameChain DEF BaseInv
<1>13. CASE TimingSubmit
  <2>1. TypeOK'
    BY <1>10, <1>13, TimingSubmitDoes, TypesNow, OthersTyped, Typed, TypeFrom DEF Pushed
  <2> QED
    BY <1>10, <1>13, <2>1, TimingSubmitDoes, SameDetect, SameChain DEF BaseInv
<1> QED
  BY <1>1, <1>2, <1>3, <1>4, <1>5, <1>6, <1>7, <1>8, <1>9, <1>11, <1>12, <1>13 DEF ExecutorStep

LEMMA DetectorBase ==
    ASSUME BaseInv, setup' = setup, DetectorStep
    PROVE  BaseInv'
<1> USE DEF chainVars, statVars, regVars
<1>1. CASE DetectProbe
  <2>1. DetectInv'
    BY <1>1, DetectProbeDoes DEF DetectInv, When, LastIndex
  <2>2. TypeOK'
    BY <1>1, DetectProbeDoes, TypesNow, OthersTyped, Typed, TypeFrom
  <2> QED
    BY <1>1, <2>1, <2>2, DetectProbeDoes, SameCall, SameTiming, SameChain DEF BaseInv
<1>2. ASSUME detect.pc # "idle",
             DetectorNext \/ \E p \in {"half_status", "half_reset"} : detect.to = "half" /\ DetectorAt(p, detect.k)
      PROVE  DetectInv' /\ detect' \in DetectType
  <2>1. detect.k \in 1 .. Health /\ LastIndex \in 1 .. Health /\ detect.k <= LastIndex
    BY <1>2, DetectorIn
  <2>2. detect' \in DetectType
    BY <1>2 DEF DetectorNext, DetectorAt
  <2>3. /\ detect'.pc # "idle" => detect'.k <= LastIndex
        /\ detect'.pc # "idle" => detect'.inst = detect.inst /\ detect'.from = detect.from /\ detect'.to = detect.to
        /\ detect'.pc \in {"half_status", "half_reset"} => detect.to = "half"
    BY <1>2, <2>1 DEF DetectorNext, DetectorAt, IdleDetect, Health
  <2>4. DetectInv'
    BY <1>2, <2>3 DEF BaseInv, DetectInv, When, LastIndex
  <2> QED
    BY <2>2, <2>4
<1>3. CASE DetectTranslate
  <2>1. DetectInv' /\ detect' \in DetectType
    BY <1>2, <1>3, DetectTranslateDoes
  <2>2. TypeOK'
    BY <1>3, <2>1, DetectTranslateDoes, TypesNow, OthersTyped, Typed, TypeFrom DEF Tried
  <2>3. ChainInv'
    BY <1>3, DetectTranslateDoes, ChainKept, DetectorIn
  <2> QED
    BY <1>3, <2>1, <2>2, <2>3, DetectTranslateDoes, SameCall, SameTiming DEF BaseInv
<1>4. CASE DetectHalfStatus \/ DetectHalfReset
  <2>1. DetectInv' /\ detect' \in DetectType
    BY <1>2, <1>4, DetectHalfDoes
  <2>2. TypeOK'
    BY <1>4, <2>1, DetectHalfDoes, TypesNow, OthersTyped, Typed, TypeFrom
  <2> QED
    BY <1>4, <2>1, <2>2, DetectHalfDoes, SameCall, SameTiming, SameChain DEF BaseInv
<1> QED
  BY <1>1, <1>3, <1>4 DEF DetectorStep

LEMMA EnvironmentBase ==
    ASSUME BaseInv, setup' = setup, Environment
    PROVE  BaseInv'
<1> USE DEF chainVars, statVars, regVars
<1>1. CASE Tick \/ \E i \in Instances : WindowSlides(i)
  <2>1. TypeOK'
    BY <1>1, TimeDoes, TypesNow, OthersTyped, Typed, TypeFrom DEF CountersKept
  <2> QED
    BY <1>1, <2>1, TimeDoes, SameCall, SameTiming, SameDetect, SameChain DEF BaseInv
<1>2. CASE ExpireService \/ LoadService
  <2>1. /\ reg' \in RegType /\ expiring' \in BOOLEAN
        /\ UNCHANGED <<chainVars, statVars, lastUpdate, submitted, call, timing, detect>>
    BY <1>2, TypesNow, FreshTyped DEF ExpireService, LoadService
  <2>2. TypeOK'
    BY <2>1, TypesNow, OthersTyped, Typed, TypeFrom
  <2> QED
    BY <2>1, <2>2, SameCall, SameTiming, SameDetect, SameChain DEF BaseInv
<1>3. CASE ExpireContext
  <2>1. /\ AllIdle /\ chain' = EachInstance(DefaultChainStatus) /\ version' = 0 /\ lastUpdate' = 0
        /\ submitted' = NothingSubmitted
        /\ stat' = NoStatuses /\ gen' = EachEntry(0) /\ live' = EachEntry(FALSE)
        /\ earned' = EachInstance(0) /\ expiring' = FALSE /\ UNCHANGED <<reg, call, timing, detect>>
    BY <1>3 DEF ExpireContext
  <2>2. TypeOK'
    BY <2>1, TypesNow, OthersTyped, Typed, FreshTyped, TypeFrom
  <2>3. TimingInv'
    BY <2>1 DEF AllIdle, TimingInv, Deciding, Cleaning
  <2>4. ChainInv'
    BY <2>1 DEF ChainInv, EachInstance, DefaultChainStatus
  <2> QED
    BY <2>1, <2>2, <2>3, <2>4, SameCall, SameDetect DEF BaseInv
<1> QED
  BY <1>1, <1>2, <1>3 DEF Environment

LEMMA BaseStep ==
    ASSUME BaseInv, [Next]_vars
    PROVE  BaseInv'
<1>1. CASE UNCHANGED vars
  <2>1. UNCHANGED <<call, timing, gen, setup, detect, chain>>
    BY <1>1 DEF vars
  <2>2. TypeOK'
    BY <1>1, TypesNow, OthersTyped, Typed, TypeFrom DEF vars
  <2> QED
    BY <2>1, <2>2, SameCall, SameTiming, SameDetect, SameChain DEF BaseInv
<1>2. CASE Next
  BY <1>1, <1>2, CallerBase, ExecutorBase, DetectorBase, EnvironmentBase DEF Next, Step, BoundReached
<1> QED
  BY <1>1, <1>2

\* Every variable of CircuitBreaker keeps its type, whatever the threads do, for
\* any number of instances and callers and all configurations.
THEOREM TypeCorrect == Spec => []TypeOK
<1>1. Init => BaseInv
  BY InitBase
<1>2. BaseInv /\ [Next]_vars => BaseInv'
  BY BaseStep
<1>3. BaseInv => TypeOK
  BY DEF BaseInv
<1> QED
  BY <1>1, <1>2, <1>3, PTL DEF Spec

-----------------------------------------------------------------------------
\* The local registry.

\* A step that leaves the registry alone and ends no submission.
StillTells(t, u) ==
    /\ t.pc = "submit" => u.pc = "submit"
    /\ t.pc = "push" \/ u.pc = "push" => t.pc = "push" /\ u.pc = "push" /\ u.read = t.read

RegistryQuiet ==
    /\ UNCHANGED <<regVars, setup>>
    /\ UNCHANGED <<chain, version>> \/ version' = version + 1
    /\ StillTells(timing, timing')
    /\ \A r \in Callers : StillTells(call[r], call'[r])

LEMMA VersionsTyped ==
    ASSUME BaseInv
    PROVE  /\ version \in Nat /\ lastUpdate \in Nat /\ submitted.newest \in Nat /\ timing.read \in Nat
           /\ \A r \in Callers : call[r].read \in Nat
<1>1. version \in Nat /\ lastUpdate \in Nat /\ submitted.newest \in Nat
  BY TypesNow, Typed
<1>2. timing.read \in Nat
  BY OthersTyped, Typed DEF TimingType
<1>3. \A r \in Callers : call[r].read \in Nat
  BY Typed DEF CallType
<1> QED
  BY <1>1, <1>2, <1>3

LEMMA QuietKeepsRegistry ==
    ASSUME BaseInv, RegistryInv, RegistryQuiet
    PROVE  RegistryInv'
<1>1. /\ timing'.pc = "push" => timing.pc = "push" /\ timing'.read = timing.read
      /\ \A r \in Callers : call'[r].pc = "push" => call[r].pc = "push" /\ call'[r].read = call[r].read
      /\ UNCHANGED <<lastUpdate, submitted, reg, expiring, setup>>
      /\ UNCHANGED <<chain, version>> \/ version' = version + 1
  BY DEF RegistryQuiet, StillTells, regVars
<1>2. /\ Tells(timing) => Tells(timing)'
      /\ \A r \in Callers : Tells(call[r]) => Tells(call[r])'
  BY <1>1 DEF RegistryQuiet, StillTells, Tells
<1> QED
  BY <1>1, <1>2, VersionsTyped DEF RegistryInv, Expiry, OpenIn, HalfIn

LEMMA SyncKeepsRegistry ==
    ASSUME BaseInv, RegistryInv, setup' = setup, Synced, UNCHANGED chainVars,
           timing'.pc = "submit" \/ \E r \in Callers : call'[r].pc = "submit",
           timing'.pc = "push" => timing' = timing,
           \A r \in Callers : call'[r].pc = "push" => call'[r] = call[r]
    PROVE  RegistryInv'
<1>1. Tells(timing)' \/ \E r \in Callers : Tells(call[r])'
  BY DEF Tells
<1>2. /\ timing'.pc = "push" => timing.pc = "push" /\ timing'.read = timing.read
      /\ \A r \in Callers : call'[r].pc = "push" => call[r].pc = "push" /\ call'[r].read = call[r].read
  OBVIOUS
<1> QED
  BY <1>1, <1>2, VersionsTyped DEF RegistryInv, Synced, chainVars, Expiry, OpenIn, HalfIn

\* A thread reads the version it is to submit.
LEMMA ReadKeepsRegistry ==
    ASSUME BaseInv, RegistryInv, setup' = setup, UNCHANGED <<chainVars, regVars>>,
           \/ timing'.pc = "push" /\ timing'.read = version /\ UNCHANGED call
           \/ \E r \in Callers : /\ call'[r].pc = "push" /\ call'[r].read = version /\ timing' = timing
                                 /\ \A q \in Callers \ {r} : call'[q] = call[q]
    PROVE  RegistryInv'
<1>1. /\ timing'.pc = "push" => (timing.pc = "push" /\ timing'.read = timing.read) \/ timing'.read = version
      /\ \A r \in Callers : call'[r].pc = "push" =>
           (call[r].pc = "push" /\ call'[r].read = call[r].read) \/ call'[r].read = version
  OBVIOUS
<1>2. ~Expiry => Tells(timing)' \/ \E r \in Callers : Tells(call[r])'
  BY DEF Tells, RegistryInv, regVars
<1> QED
  BY <1>1, <1>2, VersionsTyped DEF RegistryInv, chainVars, regVars, Expiry, OpenIn, HalfIn

\* The thread that submitted may have been the one that had to tell.
LEMMA SubmitKeepsRegistry ==
    ASSUME BaseInv, RegistryInv, setup' = setup, UNCHANGED <<chainVars, lastUpdate, reg, expiring>>,
           \/ /\ timing.pc = "push" /\ Pushed(timing.read) /\ PassEnded
           \/ \E r \in Callers : call[r].pc = "push" /\ Pushed(call[r].read) /\ Ended(r) /\ timing' = timing
    PROVE  RegistryInv'
<1> SUFFICES ASSUME ~Expiry PROVE RegistryInv'
  BY DEF RegistryInv, Expiry
<1>1. CASE timing.pc = "push" /\ Pushed(timing.read) /\ PassEnded
  <2>1. timing'.pc = "idle" /\ \A r \in Callers : call'[r].pc = call[r].pc /\ call'[r].read = call[r].read
    BY <1>1 DEF PassEnded, IdleTiming
  <2>2. timing.read <= version
    BY <1>1 DEF RegistryInv
  <2>3. /\ submitted'.newest \in Nat /\ submitted'.newest <= version
        /\ timing.read <= submitted'.newest /\ submitted.newest <= submitted'.newest
    BY <1>1, <2>2, VersionsTyped DEF Pushed, RegistryInv
  <2>4. lastUpdate <= submitted'.newest \/ \E r \in Callers : Tells(call[r])'
    BY <1>1, <2>1, <2>3, VersionsTyped DEF RegistryInv, Tells
  <2> QED
    BY <2>1, <2>3, <2>4 DEF RegistryInv, chainVars, Expiry, OpenIn, HalfIn
<1>2. CASE \E r \in Callers : call[r].pc = "push" /\ Pushed(call[r].read) /\ Ended(r) /\ timing' = timing
  <2>1. PICK r \in Callers : call[r].pc = "push" /\ Pushed(call[r].read) /\ Ended(r) /\ timing' = timing
    BY <1>2
  <2>2. call'[r].pc = "idle" /\ \A q \in Callers \ {r} : call'[q] = call[q]
    BY <2>1 DEF Ended, IdleCall
  <2>3. call[r].read <= version
    BY <2>1 DEF RegistryInv
  <2>4. /\ submitted'.newest \in Nat /\ submitted'.newest <= version
        /\ call[r].read <= submitted'.newest /\ submitted.newest <= submitted'.newest
    BY <2>1, <2>3, VersionsTyped DEF Pushed, RegistryInv
  <2>5. \A q \in Callers : call'[q].pc = "push" => call[q].pc = "push" /\ call'[q].read = call[q].read
    BY <2>2
  <2>6. lastUpdate <= submitted'.newest \/ Tells(timing)' \/ \E q \in Callers : Tells(call[q])'
    BY <2>1, <2>2, <2>4, VersionsTyped DEF RegistryInv, Tells
  <2> QED
    BY <2>1, <2>4, <2>5, <2>6 DEF RegistryInv, chainVars, Expiry, OpenIn, HalfIn
<1> QED
  BY <1>1, <1>2

LEMMA TriedIsNew ==
    ASSUME NEW k, NEW i, NEW from, NEW to, Tried(k, i, from, to)
    PROVE  UNCHANGED <<chain, version>> \/ version' = version + 1
BY DEF Tried, chainVars

LEMMA CallerRegistry ==
    ASSUME BaseInv, RegistryInv, setup' = setup, NEW r \in Callers, Report(r) \/ CallerStep(r)
    PROVE  RegistryInv'
<1> USE DEF chainVars, regVars
<1>1. ASSUME NEW p, NEW g, NEW s, Moved(r, p, g, s), call[r].pc \notin {"submit", "push"}, p # "push"
      PROVE  \A q \in Callers : StillTells(call[q], call'[q])
  BY <1>1 DEF Moved, StillTells
<1>2. CASE Report(r)
  BY <1>2, ReportDoes, QuietKeepsRegistry DEF RegistryQuiet, StillTells
<1>3. CASE CountRead(r)
  BY <1>1, <1>3, CountReadDoes, QuietKeepsRegistry DEF RegistryQuiet, StillTells
<1>4. CASE CountSuccess(r)
  BY <1>1, <1>4, CountSuccessDoes, QuietKeepsRegistry DEF RegistryQuiet, StillTells
<1>5. CASE CountFailure(r)
  BY <1>1, <1>5, CountFailureDoes, QuietKeepsRegistry DEF RegistryQuiet, StillTells
<1>6. CASE CountTrip(r)
  BY <1>1, <1>6, CountTripDoes, TriedIsNew, QuietKeepsRegistry DEF RegistryQuiet, StillTells
<1>7. CASE CountStatus(r)
  BY <1>1, <1>7, CountStatusDoes, QuietKeepsRegistry DEF RegistryQuiet, StillTells
<1>8. CASE CountTime(r)
  BY <1>1, <1>8, CountTimeDoes, QuietKeepsRegistry DEF RegistryQuiet, StillTells
<1>9. CASE RateRead(r)
  BY <1>1, <1>9, RateReadDoes, QuietKeepsRegistry DEF RegistryQuiet, StillTells
<1>10. CASE RateTotal(r)
  BY <1>1, <1>10, RateTotalDoes, QuietKeepsRegistry DEF RegistryQuiet, StillTells
<1>11. CASE RateErr(r)
  BY <1>1, <1>11, RateErrDoes, QuietKeepsRegistry DEF RegistryQuiet, StillTells
<1>12. CASE CallSync(r)
  <2>1. CASE Synced /\ Moved(r, "submit", call[r].gen, call[r].seen)
    BY <1>12, <2>1, CallSyncDoes, SyncKeepsRegistry DEF Moved
  <2>2. CASE Ended(r) /\ UNCHANGED regVars
    BY <1>12, <2>2, CallSyncDoes, QuietKeepsRegistry DEF RegistryQuiet, StillTells, Ended, IdleCall
  <2> QED
    BY <1>12, <2>1, <2>2, CallSyncDoes
<1>13. CASE CallRead(r)
  <2>1. /\ Moved(r, "push", call[r].gen, call[r].seen) /\ call'[r].read = version
        /\ UNCHANGED <<chainVars, regVars, timing>>
    BY <1>13, CallReadDoes
  <2>2. call'[r].pc = "push" /\ \A q \in Callers \ {r} : call'[q] = call[q]
    BY <2>1 DEF Moved
  <2> QED
    BY <2>1, <2>2, ReadKeepsRegistry
<1>14. CASE CallSubmit(r)
  BY <1>14, CallSubmitDoes, SubmitKeepsRegistry
<1> QED
  BY <1>2, <1>3, <1>4, <1>5, <1>6, <1>7, <1>8, <1>9, <1>10, <1>11, <1>12, <1>13, <1>14 DEF CallerStep

LEMMA ExecutorRegistry ==
    ASSUME BaseInv, RegistryInv, setup' = setup, ExecutorStep
    PROVE  RegistryInv'
<1> USE DEF chainVars, regVars
<1>1. CASE TimingStart
  BY <1>1, QuietKeepsRegistry DEF RegistryQuiet, StillTells, TimingStart, StartBreaker, IdleTiming
<1>2. CASE TimingLook
  BY <1>2, LookDoes, QuietKeepsRegistry DEF RegistryQuiet, StillTells, ExecutorAt
<1>3. CASE TimingTranslate
  BY <1>3, TranslateDoes, TriedIsNew, QuietKeepsRegistry DEF RegistryQuiet, StillTells, ExecutorAt
<1>4. CASE TimingStatus
  BY <1>4, TimingStatusDoes, QuietKeepsRegistry DEF RegistryQuiet, StillTells, ExecutorAt
<1>5. CASE TimingReset
  BY <1>5, TimingResetDoes, QuietKeepsRegistry DEF RegistryQuiet, StillTells, ExecutorAt
<1>6. CASE CleanExpired
  BY <1>6, CleanExpiredDoes, QuietKeepsRegistry DEF RegistryQuiet, StillTells, ExecutorAt
<1>7. CASE CleanOpen \/ CleanHalf
  BY <1>7, CleanChainDoes, TriedIsNew, QuietKeepsRegistry DEF RegistryQuiet, StillTells, ExecutorAt
<1>8. CASE CleanDelete
  BY <1>8, CleanDeleteDoes, QuietKeepsRegistry DEF RegistryQuiet, StillTells, ExecutorAt
<1>9. CASE BreakerDone
  BY <1>9, BreakerDoneDoes, QuietKeepsRegistry DEF RegistryQuiet, StillTells, ExecutorAt
<1>10. CASE TimingSync
  <2>1. CASE /\ Synced /\ UNCHANGED call
             /\ ExecutorAt("submit", timing.k, timing.todo, timing.inst, timing.from, timing.to)
    BY <1>10, <2>1, TimingSyncDoes, SyncKeepsRegistry DEF ExecutorAt
  <2>2. CASE PassEnded /\ UNCHANGED regVars
    BY <1>10, <2>2, TimingSyncDoes, QuietKeepsRegistry DEF RegistryQuiet, StillTells, PassEnded, IdleTiming
  <2> QED
    BY <1>10, <2>1, <2>2, TimingSyncDoes
<1>11. CASE TimingRead
  BY <1>11, TimingReadDoes, ReadKeepsRegistry DEF ExecutorAt
<1>12. CASE TimingSubmit
  BY <1>12, TimingSubmitDoes, SubmitKeepsRegistry
<1> QED
  BY <1>1, <1>2, <1>3, <1>4, <1>5, <1>6, <1>7, <1>8, <1>9, <1>10, <1>11, <1>12 DEF ExecutorStep

LEMMA RegistryStep ==
    ASSUME BaseInv, RegistryInv, [Next]_vars
    PROVE  RegistryInv'
<1> USE DEF chainVars, regVars
<1>1. CASE UNCHANGED vars
  BY <1>1, QuietKeepsRegistry DEF RegistryQuiet, StillTells, vars
<1>2. ASSUME setup' = setup, DetectorStep PROVE RegistryInv'
  <2>1. CASE DetectProbe
    BY <1>2, <2>1, DetectProbeDoes, QuietKeepsRegistry DEF RegistryQuiet, StillTells
  <2>2. CASE DetectTranslate
    BY <1>2, <2>2, DetectTranslateDoes, TriedIsNew, QuietKeepsRegistry DEF RegistryQuiet, StillTells, ExecutorAt
  <2>3. CASE DetectHalfStatus \/ DetectHalfReset
    BY <1>2, <2>3, DetectHalfDoes, QuietKeepsRegistry DEF RegistryQuiet, StillTells
  <2> QED
    BY <1>2, <2>1, <2>2, <2>3 DEF DetectorStep
<1>3. ASSUME setup' = setup, Environment PROVE RegistryInv'
  <2>1. CASE Tick \/ \E i \in Instances : WindowSlides(i)
    BY <1>3, <2>1, TimeDoes, QuietKeepsRegistry DEF RegistryQuiet, StillTells
  <2>2. CASE ExpireService \/ ExpireContext \/ LoadService
    BY <1>3, <2>2 DEF ExpireService, ExpireContext, LoadService, RegistryInv, Expiry
  <2> QED
    BY <1>3, <2>1, <2>2 DEF Environment
<1> QED
  BY <1>1, <1>2, <1>3, CallerRegistry, ExecutorRegistry DEF Next, Step, BoundReached

\* As long as the service does not expire, the router sees the instances the
\* chain holds open and half-open whenever the chain believes the registry up
\* to date, and the service cache has been told or is about to be.
THEOREM RegistryStaysCurrent == Spec => []RegistryIsCurrent
<1>1. Init => BaseInv /\ RegistryInv
  <2> SUFFICES ASSUME Init PROVE RegistryInv
    BY InitBase
  <2> QED
    BY DEF Init, RegistryInv, NothingSubmitted, IdleTiming, IdleCall, FreshService, OpenIn, HalfIn, EachInstance, DefaultChainStatus
<1>2. BaseInv /\ RegistryInv /\ [Next]_vars => (BaseInv /\ RegistryInv)'
  BY BaseStep, RegistryStep
<1>3. BaseInv /\ RegistryInv => RegistryIsCurrent
  <2> SUFFICES ASSUME BaseInv, RegistryInv, ~Expiry, lastUpdate = version
               PROVE  /\ reg.open = OpenIn(chain) /\ reg.half = HalfIn(chain)
                      /\ \/ submitted.newest = version
                         \/ Submits(timing) \/ \E r \in Callers : Submits(call[r])
    BY DEF RegistryIsCurrent
  <2> QED
    BY VersionsTyped DEF RegistryInv, Tells, Submits
<1> QED
  BY <1>1, <1>2, <1>3, PTL DEF Spec

-----------------------------------------------------------------------------
\* Whose transitions are accepted.

OwnerKept(i) ==
    /\ chain'[i].status = "half" => chain[i].status \in {"open", "half"}
    /\ chain[i].owner # 0 /\ chain'[i].owner # 0 => chain'[i].owner = chain[i].owner

LEMMA TriedKeepsOwner ==
    ASSUME BaseInv, NEW k \in 1 .. Health, NEW i \in Instances, NEW from, NEW to,
           to = "half" => from = "open", Tried(k, i, from, to), NEW j \in Instances
    PROVE  OwnerKept(j)
<1>1. CASE Translatable(k, i, from) /\ j = i
  BY <1>1 DEF Tried, Translatable, OwnerKept, DefaultChainStatus
<1>2. CASE ~Translatable(k, i, from) \/ j # i
  <2>1. chain'[j] = chain[j]
    BY <1>2 DEF Tried, chainVars
  <2> QED
    BY <2>1 DEF OwnerKept
<1> QED
  BY <1>1, <1>2

LEMMA OwnerStep ==
    ASSUME BaseInv, [Next]_vars, NEW i \in Instances
    PROVE  OwnerKept(i)
<1>1. ASSUME UNCHANGED chain PROVE OwnerKept(i)
  BY <1>1 DEF OwnerKept
<1>2. ASSUME NEW r \in Callers, Report(r) \/ CallerStep(r) PROVE OwnerKept(i)
  <2>1. CASE CountTrip(r)
    <3>1. call[r].inst \in Instances /\ Count \in 1 .. Health
      BY <2>1, CountTripDoes, CallerAt DEF Count, Health
    <3> QED
      BY <2>1, <3>1, CountTripDoes, TriedKeepsOwner
  <2>2. CASE ~CountTrip(r)
    BY <1>1, <1>2, <2>2 DEF CallerStep, Report, CountRead, RateRead, ReadStatus, CountSuccess, CountFailure,
       CountStatus, CountTime, RateTotal, RateErr, CallSync, CallRead, CallSubmit, chainVars
  <2> QED
    BY <2>1, <2>2
<1>3. ASSUME ExecutorStep PROVE OwnerKept(i)
  <2>1. CASE TimingTranslate
    <3>1. timing.inst \in Instances /\ timing.k \in 1 .. Health /\ (timing.to = "half" => timing.from = "open")
      BY <2>1, TranslateDoes, ExecutorIn DEF BaseInv, TimingInv, Deciding
    <3> QED
      BY <2>1, <3>1, TranslateDoes, TriedKeepsOwner
  <2>2. CASE CleanOpen \/ CleanHalf
    <3>1. timing.inst \in Instances /\ timing.k \in 1 .. Health
      BY <2>2, CleanChainDoes, ExecutorIn
    <3> QED
      BY <2>2, <3>1, CleanChainDoes, TriedKeepsOwner
  <2>3. CASE ~TimingTranslate /\ ~CleanOpen /\ ~CleanHalf
    BY <1>1, <1>3, <2>3 DEF ExecutorStep, TimingStart, TimingLook, TimingStatus, TimingReset, CleanExpired,
       CleanDelete, BreakerDone, TimingSync, TimingRead, TimingSubmit, chainVars
  <2> QED
    BY <2>1, <2>2, <2>3
<1>4. ASSUME DetectorStep PROVE OwnerKept(i)
  <2>1. CASE DetectTranslate
    <3>1. detect.inst \in Instances /\ detect.k \in 1 .. Health /\ (detect.to = "half" => detect.from = "open")
      BY <2>1, DetectTranslateDoes, DetectorIn DEF BaseInv, DetectInv
    <3> QED
      BY <2>1, <3>1, DetectTranslateDoes, TriedKeepsOwner
  <2>2. CASE ~DetectTranslate
    BY <1>1, <1>4, <2>2 DEF DetectorStep, DetectProbe, DetectHalfStatus, DetectHalfReset, chainVars
  <2> QED
    BY <2>1, <2>2
<1>5. ASSUME Environment PROVE OwnerKept(i)
  <2>1. CASE ExpireContext
    BY <2>1 DEF ExpireContext, OwnerKept, EachInstance, DefaultChainStatus
  <2>2. CASE ~ExpireContext
    BY <1>1, <1>5, <2>2 DEF Environment, Tick, WindowSlides, ExpireService, LoadService, chainVars
  <2> QED
    BY <2>1, <2>2
<1>6. CASE UNCHANGED vars
  BY <1>1, <1>6 DEF vars
<1> QED
  BY <1>2, <1>3, <1>4, <1>5, <1>6 DEF Next, Step, BoundReached

\* Rules 1 and 2 of chain.cpp:45-48: only an open instance becomes half-open, and
\* no breaker takes an instance over from the breaker that opened it.
THEOREM OwnersKeepInstances == Spec => OwnerKeepsInstance
<1>1. BaseInv /\ [Next]_vars =>
        [\A i \in Instances :
           /\ chain'[i].status = "half" => chain[i].status \in {"open", "half"}
           /\ chain[i].owner # 0 /\ chain'[i].owner # 0 => chain'[i].owner = chain[i].owner]_vars
  BY OwnerStep DEF OwnerKept
<1>2. BaseInv /\ [Next]_vars => BaseInv'
  BY BaseStep
<1>3. Init => BaseInv
  BY InitBase
<1> QED
  BY <1>1, <1>2, <1>3, PTL DEF Spec, OwnerKeepsInstance

-----------------------------------------------------------------------------
\* The owner of an instance knows the status of the chain.

SameStatuses == \A k \in Breakers, i \in Instances : stat'[k][i][0].st = stat[k][i][0].st

\* The calls under way learn nothing new.
CallsFollow ==
    \A q \in Callers :
      /\ (call'[q].pc = "count_status") <=> (call[q].pc = "count_status")
      /\ call'[q].pc = "count_status" => call'[q].inst = call[q].inst
      /\ call'[q].pc \in {"count_add", "count_trip"} =>
           /\ call[q].pc \in {"count_add", "count_trip"}
           /\ call'[q].inst = call[q].inst /\ call'[q].seen = call[q].seen

\* The executor takes no decision.
ExecutorFollows ==
    /\ timing.pc = "status" \/ timing'.pc \in Deciding => timing' = timing
    /\ timing'.pc # "idle" => timing.pc # "idle"
    /\ \A i \in Instances : timing'.pc # "idle" /\ timing'.k = Count /\ i \in timing'.todo =>
                              timing.k = Count /\ i \in timing.todo
    /\ timing'.pc = "idle" =>
         \A q \in Callers : call'[q].pc \in {"count_add", "count_trip"} /\ ~call'[q].old =>
                              timing.pc = "idle" /\ ~call[q].old

LEMMA AllZero ==
    ASSUME BaseInv, Undisturbed
    PROVE  /\ MaxGen = 0 /\ \A r \in Callers : call[r].gen = 0
           /\ \A k \in Breakers, i \in Instances : gen[k][i] = 0 /\ Counted(k, i) = stat[k][i][0]
           /\ detect.pc = "idle" /\ timing.pc \notin Cleaning /\ ~CallersStall /\ When = "never"
<1>1. MaxGen = 0 /\ ~CallersStall /\ When = "never"
  BY DEF Undisturbed
<1>2. \A k \in Breakers, i \in Instances : gen[k][i] = 0
  BY <1>1, Typed
<1>3. \A r \in Callers : call[r].gen = 0
  BY <1>1, Typed DEF CallType
<1>4. detect.pc = "idle"
  BY <1>1 DEF BaseInv, DetectInv
<1>5. timing.pc \notin Cleaning
  <2>1. ASSUME timing.pc \in Cleaning PROVE FALSE
    <3>1. timing.inst \in Instances /\ timing.k \in Breakers
      BY <2>1, ExecutorIn DEF Cleaning
    <3>2. gen[timing.k][timing.inst] < MaxGen
      BY <2>1 DEF BaseInv, TimingInv
    <3> QED
      BY <1>1, <1>2, <3>1, <3>2
  <2> QED
    BY <2>1
<1> QED
  BY <1>1, <1>2, <1>3, <1>4, <1>5 DEF Counted

LEMMA AloneKept ==
    ASSUME AloneInv, UNCHANGED <<gen, setup>>,
           \A q \in Callers : call'[q].pc # "idle" => call[q].pc # "idle"
    PROVE  AloneInv'
BY DEF AloneInv

LEMMA QuietFollows ==
    ASSUME BaseInv, FollowCore, AloneInv', UNCHANGED <<chain, gen, setup>>,
           SameStatuses, CallsFollow, ExecutorFollows
    PROVE  FollowCore'
<1> USE DEF CSt, RSt
<1>1. /\ Count \in Breakers /\ Rate \in Breakers
      /\ \A i \in Instances : CSt(i)' = CSt(i) /\ RSt(i)' = RSt(i)
  BY DEF SameStatuses, Breakers
<1>2. SeenInv'
  <2> SUFFICES ASSUME NEW r \in Callers, NEW i \in Instances, NEW x \in Status, NEW y \in Status,
                      call'[r].pc \in {"count_add", "count_trip"} /\ call'[r].inst = i /\ call'[r].seen = y,
                      NotLooked(r, i, x)
               PROVE  NotLooked(r, i, x)'
    BY DEF SeenInv, SeenAt, Saw, CallsFollow, FollowCore, Status
  <2>1. timing'.pc = "idle" => call'[r].old \/ CSt(i)' # x
    <3> SUFFICES ASSUME timing'.pc = "idle", ~call'[r].old
                 PROVE  CSt(i)' # x
      OBVIOUS
    <3>1. timing.pc = "idle" /\ ~call[r].old
      BY DEF ExecutorFollows
    <3> QED
      BY <1>1, <3>1 DEF NotLooked
  <2>2. timing'.pc # "idle" /\ timing'.k = Count /\ i \in timing'.todo => CSt(i)' # x
    BY <1>1 DEF NotLooked, ExecutorFollows
  <2>3. Decided(Count, i)' => timing'.from # x
    BY DEF NotLooked, ExecutorFollows, Decided
  <2> QED
    BY <2>1, <2>2, <2>3 DEF NotLooked
<1>3. /\ \A r \in Callers, i \in Instances : Tripped(r, i)' <=> Tripped(r, i)
      /\ \A k \in Breakers, i \in Instances : Pending(k, i)' <=> Pending(k, i)
      /\ timing.pc = "status" => timing' = timing
      /\ \A i \in Instances : Decided(Count, i)' => Decided(Count, i) /\ timing' = timing
  BY DEF CallsFollow, ExecutorFollows, Tripped, Pending, Decided, Deciding
<1>4. TrippedInv'
  BY <1>1, <1>3 DEF TrippedInv, TrippedAt, FollowCore, Pending
<1>5. PendingInv'
  <2>1. PendingInv
    BY DEF FollowCore
  <2>2. \A k \in Breakers, i \in Instances : Pending(k, i) => timing' = timing
    BY <1>3 DEF Pending
  <2> QED
    BY <1>1, <1>3, <2>1, <2>2 DEF PendingInv, PendingAt
<1>6. KnownInv'
  <2>1. \A i \in Instances : StatusFor(Count, i)' = StatusFor(Count, i) /\ StatusFor(Rate, i)' = StatusFor(Rate, i)
    BY DEF StatusFor
  <2>2. \A i \in Instances : LeftHalfOpen(Count, i)' <=> LeftHalfOpen(Count, i)
    <3> TAKE i \in Instances
    <3>1. gen[Count][i] = 0
      BY <1>1 DEF FollowCore, AloneInv
    <3>2. Counted(Count, i).st = CSt(i) /\ Counted(Count, i).st' = CSt(i)'
      BY <3>1 DEF Counted
    <3> QED
      BY <1>1, <3>2 DEF LeftHalfOpen
  <2>3. KnownInv
    BY DEF FollowCore
  <2> QED
    BY <1>1, <1>3, <2>1, <2>2, <2>3 DEF KnownInv, KnownAt
<1> QED
  BY <1>2, <1>4, <1>5, <1>6 DEF FollowCore

\* What one instance, or one caller and one instance, depend on.
LEMMA SeenFrame ==
    ASSUME NEW q, NEW i, SeenAt(q, i), UNCHANGED <<setup, timing>>, call'[q] = call[q], CSt(i)' = CSt(i)
    PROVE  SeenAt(q, i)'
BY DEF SeenAt, Saw, NotLooked, Decided

LEMMA TrippedFrame ==
    ASSUME NEW q \in Callers, NEW i, TrippedAt(q, i), \A p \in Callers : Tripped(p, i)' <=> Tripped(p, i),
           Pending(Count, i)' <=> Pending(Count, i), Pending(Count, i) => timing' = timing,
           chain'[i] = chain[i], CSt(i)' = CSt(i)
    PROVE  TrippedAt(q, i)'
BY DEF TrippedAt, Opened, Pending

LEMMA PendingFrame ==
    ASSUME NEW i, PendingAt(i), UNCHANGED <<setup, timing>>, chain'[i] = chain[i], CSt(i)' = CSt(i)
    PROVE  PendingAt(i)'
BY DEF PendingAt, Opened, Pending, Decided

LEMMA KnownSame ==
    ASSUME FollowCore, NEW i \in Instances, KnownAt(i), UNCHANGED <<setup, gen>>, chain'[i] = chain[i],
           CSt(i)' = CSt(i), RSt(i)' = RSt(i), \A q \in Callers : Tripped(q, i)' <=> Tripped(q, i),
           Pending(Count, i)' <=> Pending(Count, i), Pending(Rate, i)' <=> Pending(Rate, i)
    PROVE  KnownAt(i)'
<1>1. gen[Count][i] = 0
  BY DEF FollowCore, AloneInv, Breakers
<1>2. Counted(Count, i).st = CSt(i) /\ Counted(Count, i).st' = CSt(i)'
  BY <1>1 DEF Counted, CSt
<1>3. /\ LeftHalfOpen(Count, i)' <=> LeftHalfOpen(Count, i)
      /\ StatusFor(Count, i)' = StatusFor(Count, i) /\ StatusFor(Rate, i)' = StatusFor(Rate, i)
  BY <1>2 DEF LeftHalfOpen, StatusFor
<1> QED
  BY <1>3 DEF KnownAt

LEMMA MoveFollows ==
    ASSUME BaseInv, FollowCore, UNCHANGED <<setup, chain, gen, timing>>, SameStatuses,
           NEW r \in Callers, NEW p, NEW g, NEW s, Moved(r, p, g, s),
           call[r].pc \notin {"idle", "count_status"}, p # "count_status",
           p \in {"count_add", "count_trip"} => call[r].pc \in {"count_add", "count_trip"} /\ s = call[r].seen
    PROVE  FollowCore'
<1>1. /\ call'[r].pc = p /\ call'[r].inst = call[r].inst /\ call'[r].seen = s /\ (call[r].old <=> call'[r].old)
      /\ \A q \in Callers \ {r} : call'[q] = call[q]
  BY DEF Moved
<1>2. AloneInv'
  BY <1>1, AloneKept DEF FollowCore
<1>3. CallsFollow
  BY <1>1 DEF CallsFollow
<1>4. ExecutorFollows
  BY <1>1 DEF ExecutorFollows
<1> QED
  BY <1>2, <1>3, <1>4, QuietFollows

LEMMA EndFollows ==
    ASSUME BaseInv, FollowCore, UNCHANGED <<setup, chain, gen, timing>>, SameStatuses,
           NEW r \in Callers, Ended(r), call[r].pc \in {"sync", "push"}
    PROVE  FollowCore'
<1>1. call'[r].pc = "idle" /\ \A q \in Callers \ {r} : call'[q] = call[q]
  BY DEF Ended, IdleCall
<1>2. AloneInv'
  BY <1>1, AloneKept DEF FollowCore
<1>3. CallsFollow
  BY <1>1 DEF CallsFollow
<1>4. ExecutorFollows
  BY <1>1 DEF ExecutorFollows
<1> QED
  BY <1>2, <1>3, <1>4, QuietFollows

LEMMA WriteSameStatus ==
    ASSUME BaseInv, NEW k \in Breakers, NEW i \in Instances, NEW g \in 0 .. MaxGen, NEW s,
           Wrote(k, i, g, s), s.st = stat[k][i][g].st
    PROVE  SameStatuses
<1>1. 0 \in 0 .. MaxGen
  BY Typed
<1> QED
  BY <1>1 DEF Wrote, SameStatuses

\* A call begins only when fewer than setup.threads are under way.
LEMMA ReportFollows ==
    ASSUME BaseInv, FollowCore, setup' = setup, NEW r \in Callers, Report(r)
    PROVE  FollowCore'
<1>1. /\ call[r].pc = "idle" /\ Cardinality(Calling) < setup.threads
      /\ call'[r].pc = "count" /\ \A q \in Callers \ {r} : call'[q] = call[q]
      /\ UNCHANGED <<chain, stat, gen, timing>>
  BY ReportDoes DEF chainVars, statVars
<1>2. AloneInv'
  <2>1. ASSUME setup.threads = 1 PROVE \A q \in Callers : call[q].pc = "idle"
    <3>1. IsFiniteSet(Calling)
      BY ConstantsAssumption, FS_Subset DEF Calling
    <3>2. Cardinality(Calling) = 0
      BY <1>1, <2>1, <3>1, FS_CardinalityType
    <3>3. Calling = {}
      BY <3>1, <3>2, FS_EmptySet
    <3> QED
      BY <3>3 DEF Calling
  <2>2. AloneInv
    BY DEF FollowCore
  <2>3. ASSUME setup.threads = 1, NEW p \in Callers, NEW q \in Callers,
               call'[p].pc # "idle", call'[q].pc # "idle"
        PROVE  p = q
    BY <1>1, <2>1, <2>3
  <2> QED
    BY <1>1, <2>2, <2>3 DEF AloneInv
<1>3. SameStatuses /\ CallsFollow /\ ExecutorFollows
  BY <1>1 DEF SameStatuses, CallsFollow, ExecutorFollows
<1> QED
  BY <1>1, <1>2, <1>3, QuietFollows

\* A caller reads the status the breaker has now.
LEMMA CountReadFollows ==
    ASSUME BaseInv, Undisturbed, FollowCore, setup' = setup, NEW r \in Callers, CountRead(r)
    PROVE  FollowCore'
<1>1. PICK j \in Instances, x \in Status : j = call[r].inst /\ x = Counted(Count, call[r].inst).st
  BY CountReadDoes
<1>2. /\ call[r].pc = "count" /\ x = CSt(j)
      /\ UNCHANGED <<chain, stat, gen, timing>>
  BY <1>1, CountReadDoes, AllZero DEF chainVars, CSt, Breakers
<1>3. /\ call'[r].pc \in {"rate", "count_add"} /\ call'[r].inst = j /\ call'[r].seen = x
      /\ \A q \in Callers \ {r} : call'[q] = call[q]
  <2>1. PICK p, g : p \in {"rate", "count_add"} /\ Moved(r, p, g, x)
    BY <1>1, CountReadDoes
  <2> QED
    BY <1>1, <2>1 DEF Moved
<1>4. AloneInv'
  BY <1>2, <1>3, AloneKept DEF FollowCore
<1>5. SeenInv'
  <2> SUFFICES ASSUME NEW q \in Callers, NEW i \in Instances
               PROVE  /\ Saw(q, i, "close")' => NotLooked(q, i, "half")'
                      /\ setup'.threads = 1 /\ Saw(q, i, "half")' => NotLooked(q, i, "open")'
    BY DEF SeenInv, SeenAt
  <2>1. CASE q # r
    <3>1. call'[q] = call[q]
      BY <1>3, <2>1
    <3>2. /\ Saw(q, i, "close") => NotLooked(q, i, "half")
          /\ setup.threads = 1 /\ Saw(q, i, "half") => NotLooked(q, i, "open")
      BY DEF FollowCore, SeenInv, SeenAt
    <3> QED
      BY <1>2, <3>1, <3>2 DEF Saw, NotLooked, CSt, Decided
  <2>2. CASE q = r
    <3>1. CASE i # j
      BY <1>3, <2>2, <3>1 DEF Saw
    <3>2. CASE i = j
      <4>1. /\ Decided(Count, j) /\ timing.from = "open" => x = "open"
            /\ Decided(Count, j) /\ timing.from = "half" => x # "close"
        BY <1>2 DEF FollowCore, PendingInv, PendingAt
      <4>2. CSt(j)' = x /\ (Decided(Count, j)' <=> Decided(Count, j))
        BY <1>2 DEF CSt, Decided
      <4>3. Saw(q, i, "close")' => x = "close"
        BY <1>3, <2>2 DEF Saw
      <4>4. Saw(q, i, "half")' => x = "half"
        BY <1>3, <2>2 DEF Saw
      <4> QED
        BY <1>2, <3>2, <4>1, <4>2, <4>3, <4>4 DEF NotLooked
    <3> QED
      BY <3>1, <3>2
  <2> QED
    BY <2>1, <2>2
<1>6. /\ \A q \in Callers, i \in Instances : Tripped(q, i)' <=> Tripped(q, i)
      /\ \A k \in Breakers, i \in Instances : Pending(k, i)' <=> Pending(k, i)
      /\ \A k \in Breakers, i \in Instances : Decided(k, i)' <=> Decided(k, i)
      /\ \A i \in Instances : CSt(i)' = CSt(i) /\ RSt(i)' = RSt(i)
  BY <1>2, <1>3 DEF Tripped, Pending, Decided, CSt, RSt
<1>7. TrippedInv'
  BY <1>2, <1>6 DEF FollowCore, TrippedInv, TrippedAt, Breakers
<1>8. PendingInv'
  BY <1>2, <1>6 DEF FollowCore, PendingInv, PendingAt, Breakers
<1>9. KnownInv'
  BY <1>2, <1>6 DEF FollowCore, KnownInv, KnownAt, Breakers, StatusFor, LeftHalfOpen, Counted
<1> QED
  BY <1>4, <1>5, <1>7, <1>8, <1>9 DEF FollowCore

\* A caller that opens an instance in the chain: nobody else has, and the
\* executor can only be about to write half-open.
LEMMA CountTripFollows ==
    ASSUME BaseInv, Undisturbed, FollowCore, setup' = setup, NEW r \in Callers, CountTrip(r)
    PROVE  FollowCore'
<1>1. PICK j \in Instances, x \in Status : j = call[r].inst /\ x = call[r].seen
  BY CountTripDoes, CallerAt, Typed DEF CallType
<1>2. /\ call[r].pc = "count_trip" /\ x # "open" /\ UNCHANGED <<stat, gen, timing>>
      /\ Tried(Count, j, x, "open")
      /\ IF Translatable(Count, j, x) THEN Moved(r, "count_status", call[r].gen, x) ELSE Moved(r, "rate", 0, "close")
  BY <1>1, CountTripDoes DEF statVars, BaseInv, CallInv
<1>3. CASE ~Translatable(Count, j, x)
  <2>1. UNCHANGED chain /\ Moved(r, "rate", 0, "close") /\ SameStatuses
    BY <1>2, <1>3 DEF Tried, chainVars, SameStatuses
  <2> QED
    BY <1>2, <2>1, MoveFollows
<1>4. CASE Translatable(Count, j, x)
  <2>1. /\ chain[j].owner \in {0, Count} /\ chain[j].status = x /\ chain'[j] = Opened
        /\ \A i \in Instances : i # j => chain'[i] = chain[i]
    BY <1>2, <1>4 DEF Translatable, Tried, Opened
  <2>2. /\ call'[r].pc = "count_status" /\ call'[r].inst = j
        /\ \A q \in Callers \ {r} : call'[q] = call[q]
    BY <1>1, <1>2, <1>4 DEF Moved
  <2>3. AloneInv'
    BY <1>2, <2>2, AloneKept DEF FollowCore
  <2>4. /\ \A i \in Instances : CSt(i)' = CSt(i) /\ RSt(i)' = RSt(i)
        /\ \A k \in Breakers, i \in Instances : Pending(k, i)' <=> Pending(k, i)
        /\ \A k \in Breakers, i \in Instances : Decided(k, i)' <=> Decided(k, i)
        /\ Count \in Breakers /\ Rate \in Breakers /\ Count # Rate /\ Count # 0 /\ Rate # 0
    BY <1>2 DEF CSt, RSt, Pending, Decided, Breakers, Count, Rate
  <2>5. /\ \A q \in Callers, i \in Instances : Tripped(q, i)' <=> Tripped(q, i) \/ (q = r /\ i = j)
        /\ \A q \in Callers : ~Tripped(q, j)
    <3>1. \A q \in Callers : ~Tripped(q, j)
      BY <1>2, <2>1 DEF FollowCore, TrippedInv, TrippedAt, Opened
    <3> QED
      BY <1>2, <2>2, <3>1 DEF Tripped
  <2>6. SeenInv'
    <3> SUFFICES ASSUME NEW q \in Callers, NEW i \in Instances
                 PROVE  SeenAt(q, i)'
      BY DEF SeenInv
    <3>1. CASE q # r
      <4>1. call'[q] = call[q]
        BY <2>2, <3>1
      <4>2. SeenAt(q, i)
        BY DEF FollowCore, SeenInv
      <4> QED
        BY <1>2, <2>4, <4>1, <4>2, SeenFrame
    <3>2. CASE q = r
      BY <2>2, <3>2 DEF Saw, SeenAt
    <3> QED
      BY <3>1, <3>2
  <2>7. Pending(Count, j) => timing.to = "half" /\ setup.threads > 1
    <3> SUFFICES ASSUME Pending(Count, j) PROVE timing.to = "half" /\ setup.threads > 1
      OBVIOUS
    <3>1. Decided(Count, j) /\ timing.pc \in Deciding
      BY DEF Pending, Decided, Deciding
    <3>2. /\ timing.to = "half" => chain[j] = [status |-> "half", owner |-> Count] \/ chain[j] = Opened
          /\ timing.to = "close" => chain[j].owner = 0
          /\ timing.to = "open"  => chain[j] = Opened
      BY DEF FollowCore, PendingInv, PendingAt
    <3>3. timing.to # "open"
      BY <1>2, <2>1, <3>2 DEF Opened
    <3>4. timing.to # "close"
      <4> SUFFICES ASSUME timing.to = "close" PROVE FALSE
        OBVIOUS
      <4>1. x = "close" /\ timing.from = "half"
        BY <2>1, <3>1, <3>2 DEF BaseInv, ChainInv, TimingInv
      <4>2. NotLooked(r, j, "half")
        BY <1>1, <1>2, <4>1 DEF FollowCore, SeenInv, SeenAt, Saw
      <4> QED
        BY <3>1, <4>1, <4>2 DEF NotLooked
    <3>5. timing.to = "half"
      BY <3>3, <3>4, ExecutorIn DEF Status
    <3>6. ASSUME setup.threads = 1 PROVE FALSE
      <4>1. x = "half" /\ timing.from = "open"
        BY <1>2, <2>1, <3>1, <3>2, <3>5 DEF BaseInv, TimingInv, Opened
      <4>2. NotLooked(r, j, "open")
        BY <1>1, <1>2, <3>6, <4>1 DEF FollowCore, SeenInv, SeenAt, Saw
      <4> QED
        BY <3>1, <4>1, <4>2 DEF NotLooked
    <3>7. setup.threads \in Nat \ {0}
      BY TypesNow, SetupTyped
    <3> QED
      BY <3>5, <3>6, <3>7
  <2>8. ~Pending(Count, j) => CSt(j) # "open"
    <3> SUFFICES ASSUME ~Pending(Count, j) PROVE CSt(j) # "open"
      OBVIOUS
    <3>1. CSt(j) = StatusFor(Count, j) \/ LeftHalfOpen(Count, j)
      BY <2>5 DEF FollowCore, KnownInv, KnownAt
    <3>2. ~LeftHalfOpen(Count, j)
      BY <1>2, <2>1 DEF LeftHalfOpen
    <3> QED
      BY <1>2, <2>1, <3>1, <3>2 DEF StatusFor
  <2>9. TrippedInv'
    <3> SUFFICES ASSUME NEW q \in Callers, NEW i \in Instances PROVE TrippedAt(q, i)'
      BY DEF TrippedInv
    <3>1. CASE i = j
      BY <1>2, <2>1, <2>4, <2>5, <2>7, <2>8, <3>1 DEF TrippedAt, Opened
    <3>2. CASE i # j
      <4>1. \A p \in Callers : Tripped(p, i)' <=> Tripped(p, i)
        BY <2>5, <3>2
      <4>2. TrippedAt(q, i)
        BY DEF FollowCore, TrippedInv
      <4> QED
        BY <1>2, <2>1, <2>4, <3>2, <4>1, <4>2, TrippedFrame
    <3> QED
      BY <3>1, <3>2
  <2>10. PendingInv'
    <3> SUFFICES ASSUME NEW i \in Instances PROVE PendingAt(i)'
      BY DEF PendingInv
    <3>1. PendingAt(i)
      BY DEF FollowCore, PendingInv
    <3>2. CASE i = j
      <4>1. Pending(Rate, j) => timing.to = "close"
        BY <2>1, <2>4, <3>1, <3>2 DEF PendingAt
      <4> QED
        BY <1>2, <2>1, <2>4, <2>7, <3>1, <3>2, <4>1 DEF Opened, PendingAt
    <3>3. CASE i # j
      BY <1>2, <2>1, <2>4, <3>1, <3>3, PendingFrame
    <3> QED
      BY <3>2, <3>3
  <2>11. KnownInv'
    <3> SUFFICES ASSUME NEW i \in Instances PROVE KnownAt(i)'
      BY DEF KnownInv
    <3>1. KnownAt(i)
      BY DEF FollowCore, KnownInv
    <3>2. CASE i = j
      <4>1. StatusFor(Rate, i) = "close" /\ StatusFor(Rate, i)' = "close"
        BY <2>1, <2>4, <3>2 DEF StatusFor, Opened
      <4> QED
        BY <2>4, <2>5, <3>1, <3>2, <4>1 DEF KnownAt
    <3>3. CASE i # j
      <4>1. \A q \in Callers : Tripped(q, i)' <=> Tripped(q, i)
        BY <2>5, <3>3
      <4> QED
        BY <1>2, <2>1, <2>4, <3>1, <3>3, <4>1, KnownSame
    <3> QED
      BY <3>2, <3>3
  <2> QED
    BY <2>3, <2>6, <2>9, <2>10, <2>11 DEF FollowCore
<1> QED
  BY <1>3, <1>4

\* Object 0 of breaker k for instance j gets status x; the others keep theirs.
LEMMA StatusWritten ==
    ASSUME BaseInv, NEW k \in Breakers, NEW j \in Instances, NEW s, Wrote(k, j, 0, s)
    PROVE  \A b \in Breakers, i \in Instances :
             stat'[b][i][0].st = IF b = k /\ i = j THEN s.st ELSE stat[b][i][0].st
<1>1. 0 \in 0 .. MaxGen
  BY Typed
<1> QED
  BY <1>1 DEF Wrote

\* The caller that opened an instance writes so.
LEMMA CountStatusFollows ==
    ASSUME BaseInv, Undisturbed, FollowCore, setup' = setup, NEW r \in Callers, CountStatus(r)
    PROVE  FollowCore'
<1>1. PICK j \in Instances : j = call[r].inst
  BY CountStatusDoes, CallerAt
<1>2. PICK s \in StatusType : Wrote(Count, j, 0, s) /\ s.st = "open"
  BY <1>1, CountStatusDoes, AllZero
<1>3. /\ call[r].pc = "count_status" /\ call'[r].pc = "count_time" /\ call'[r].inst = j
      /\ \A q \in Callers \ {r} : call'[q] = call[q]
      /\ UNCHANGED <<chain, gen, timing>>
  <2>1. call[r].pc = "count_status" /\ Moved(r, "count_time", call[r].gen, call[r].seen)
    BY CountStatusDoes
  <2>2. UNCHANGED <<chain, gen, timing>>
    BY CountStatusDoes DEF chainVars
  <2> QED
    BY <1>1, <2>1, <2>2 DEF Moved
<1>4. /\ CSt(j)' = "open" /\ \A i \in Instances : i # j => CSt(i)' = CSt(i)
      /\ \A i \in Instances : RSt(i)' = RSt(i)
      /\ Count \in Breakers /\ Rate \in Breakers
  BY <1>2, StatusWritten DEF CSt, RSt, Breakers, Count, Rate
<1>5. /\ Tripped(r, j) /\ chain[j] = Opened /\ \A q \in Callers : Tripped(q, j) => q = r
      /\ Pending(Count, j) => timing.to = "half"
  BY <1>1, <1>3 DEF Tripped, FollowCore, TrippedInv, TrippedAt
<1>6. /\ \A q \in Callers, i \in Instances : Tripped(q, i)' <=> Tripped(q, i) /\ i # j
      /\ \A k \in Breakers, i \in Instances : Pending(k, i)' <=> Pending(k, i)
      /\ \A k \in Breakers, i \in Instances : Decided(k, i)' <=> Decided(k, i)
  BY <1>1, <1>3, <1>5 DEF Tripped, Pending, Decided
<1>7. AloneInv'
  BY <1>3, AloneKept DEF FollowCore
<1>8. SeenInv'
  <2> SUFFICES ASSUME NEW q \in Callers, NEW i \in Instances PROVE SeenAt(q, i)'
    BY DEF SeenInv
  <2>1. SeenAt(q, i)
    BY DEF FollowCore, SeenInv
  <2>2. CASE q = r
    BY <1>3, <2>2 DEF SeenAt, Saw
  <2>3. CASE q # r /\ i # j
    BY <1>3, <1>4, <2>1, <2>3, SeenFrame
  <2>4. CASE q # r /\ i = j
    <3>1. call'[q] = call[q]
      BY <1>3, <2>4
    <3>2. ~(setup.threads = 1 /\ call[q].pc # "idle")
      BY <1>3, <2>4 DEF FollowCore, AloneInv
    <3>3. ~(setup'.threads = 1 /\ Saw(q, i, "half")')
      BY <3>1, <3>2 DEF Saw
    <3>4. Saw(q, i, "close")' => NotLooked(q, i, "half")
      BY <2>1, <3>1 DEF SeenAt, Saw
    <3>5. Saw(q, i, "close")' => NotLooked(q, i, "half")'
      BY <1>3, <1>4, <1>6, <2>4, <3>1, <3>4 DEF NotLooked
    <3> QED
      BY <3>3, <3>5 DEF SeenAt
  <2> QED
    BY <2>2, <2>3, <2>4
<1>9. TrippedInv'
  <2> SUFFICES ASSUME NEW q \in Callers, NEW i \in Instances PROVE TrippedAt(q, i)'
    BY DEF TrippedInv
  <2>1. CASE i = j
    BY <1>6, <2>1 DEF TrippedAt
  <2>2. CASE i # j
    <3>1. TrippedAt(q, i)
      BY DEF FollowCore, TrippedInv
    <3> QED
      BY <1>3, <1>4, <1>6, <2>2, <3>1, TrippedFrame
  <2> QED
    BY <2>1, <2>2
<1>10. PendingInv'
  <2> SUFFICES ASSUME NEW i \in Instances PROVE PendingAt(i)'
    BY DEF PendingInv
  <2>1. PendingAt(i)
    BY DEF FollowCore, PendingInv
  <2>2. CASE i = j
    BY <1>3, <1>4, <1>6, <2>1, <2>2 DEF PendingAt, Opened
  <2>3. CASE i # j
    BY <1>3, <1>4, <2>1, <2>3, PendingFrame
  <2> QED
    BY <2>2, <2>3
<1>11. KnownInv'
  <2> SUFFICES ASSUME NEW i \in Instances PROVE KnownAt(i)'
    BY DEF KnownInv
  <2>1. KnownAt(i)
    BY DEF FollowCore, KnownInv
  <2>2. CASE i = j
    <3>1. StatusFor(Count, j)' = "open" /\ StatusFor(Rate, j)' = StatusFor(Rate, j)
      BY <1>3, <1>5 DEF StatusFor, Opened
    <3> QED
      BY <1>3, <1>4, <1>6, <2>1, <2>2, <3>1 DEF KnownAt
  <2>3. CASE i # j
    BY <1>3, <1>4, <1>6, <2>1, <2>3, KnownSame
  <2> QED
    BY <2>2, <2>3
<1> QED
  BY <1>7, <1>8, <1>9, <1>10, <1>11 DEF FollowCore

LEMMA CallerFollows ==
    ASSUME BaseInv, Undisturbed, FollowCore, setup' = setup, NEW r \in Callers, Report(r) \/ CallerStep(r)
    PROVE  FollowCore'
<1> USE DEF chainVars, statVars
<1>1. CASE Report(r) \/ CountRead(r) \/ CountTrip(r) \/ CountStatus(r)
  BY <1>1, ReportFollows, CountReadFollows, CountTripFollows, CountStatusFollows
<1>2. ASSUME NEW k \in Breakers, NEW s, Wrote(k, call[r].inst, call[r].gen, s), s.st = StatOf(r, k).st,
             call[r].pc # "idle"
      PROVE  SameStatuses
  BY <1>2, CallerAt, WriteSameStatus DEF StatOf
<1>3. UNCHANGED stat => SameStatuses
  BY DEF SameStatuses
<1>4. Count \in Breakers /\ Rate \in Breakers
  BY DEF Breakers
<1>5. CASE CountSuccess(r)
  BY <1>2, <1>4, <1>5, CountSuccessDoes, MoveFollows
<1>6. CASE CountFailure(r)
  BY <1>2, <1>4, <1>6, CountFailureDoes, MoveFollows
<1>7. CASE CountTime(r)
  BY <1>2, <1>4, <1>7, CountTimeDoes, MoveFollows
<1>8. CASE RateRead(r)
  BY <1>3, <1>8, RateReadDoes, MoveFollows
<1>9. CASE RateTotal(r)
  BY <1>2, <1>4, <1>9, RateTotalDoes, MoveFollows
<1>10. CASE RateErr(r)
  BY <1>2, <1>4, <1>10, RateErrDoes, MoveFollows
<1>11. CASE CallSync(r)
  BY <1>3, <1>11, CallSyncDoes, MoveFollows, EndFollows
<1>12. CASE CallSubmit(r)
  BY <1>3, <1>12, CallSubmitDoes, EndFollows
<1>13. CASE CallRead(r)
  BY <1>3, <1>13, CallReadDoes, MoveFollows
<1> QED
  BY <1>1, <1>5, <1>6, <1>7, <1>8, <1>9, <1>10, <1>11, <1>12, <1>13 DEF CallerStep

\* A pass begins: the calls it may have missed have ended.
LEMMA StartFollows ==
    ASSUME BaseInv, Undisturbed, FollowCore, setup' = setup, TimingStart
    PROVE  FollowCore'
<1>1. /\ timing.pc = "idle" /\ \A r \in Callers : ~call[r].old
      /\ UNCHANGED <<chain, stat, gen, call>> /\ StartBreaker(Count) /\ Count \in Breakers
  BY AllZero DEF TimingStart, chainVars, statVars, Breakers
<1>2. timing'.pc = "scan"
  BY <1>1, StartDoes DEF ExecutorAt
<1>3. /\ \A i \in Instances : CSt(i)' = CSt(i) /\ RSt(i)' = RSt(i)
      /\ \A q \in Callers, i \in Instances : Tripped(q, i)' <=> Tripped(q, i)
      /\ \A k \in Breakers, i \in Instances : ~Pending(k, i) /\ ~Pending(k, i)' /\ ~Decided(k, i)'
      /\ Rate \in Breakers
  BY <1>1, <1>2 DEF CSt, RSt, Tripped, Pending, Decided, Deciding, Breakers
<1>4. AloneInv'
  BY <1>1, AloneKept DEF FollowCore
<1>5. SeenInv'
  <2> SUFFICES ASSUME NEW q \in Callers, NEW i \in Instances PROVE SeenAt(q, i)'
    BY DEF SeenInv
  <2>1. SeenAt(q, i)
    BY DEF FollowCore, SeenInv
  <2>2. ASSUME NEW x, NotLooked(q, i, x) PROVE NotLooked(q, i, x)'
    BY <1>1, <1>2, <1>3, <2>2 DEF NotLooked
  <2> QED
    BY <1>1, <2>1, <2>2 DEF SeenAt, Saw
<1>6. TrippedInv'
  <2> SUFFICES ASSUME NEW q \in Callers, NEW i \in Instances PROVE TrippedAt(q, i)'
    BY DEF TrippedInv
  <2>1. TrippedAt(q, i)
    BY DEF FollowCore, TrippedInv
  <2> QED
    BY <1>1, <1>3, <2>1, TrippedFrame
<1>7. PendingInv'
  BY <1>1, <1>3 DEF PendingInv, PendingAt
<1>8. KnownInv'
  <2> SUFFICES ASSUME NEW i \in Instances PROVE KnownAt(i)'
    BY DEF KnownInv
  <2>1. KnownAt(i)
    BY DEF FollowCore, KnownInv
  <2> QED
    BY <1>1, <1>3, <2>1, KnownSame
<1> QED
  BY <1>4, <1>5, <1>6, <1>7, <1>8 DEF FollowCore

\* The executor decides on the status it reads.
LEMMA LookFollows ==
    ASSUME BaseInv, Undisturbed, FollowCore, setup' = setup, TimingLook
    PROVE  FollowCore'
<1>1. timing.pc = "scan" /\ UNCHANGED <<chain, stat, gen, call>>
  BY LookDoes DEF chainVars, statVars
<1>2. PICK j \in Instances :
        /\ j \in timing.todo
        /\ \/ ExecutorAt("scan", timing.k, timing.todo \ {j}, timing.inst, timing.from, timing.to)
           \/ ExecutorAt("translate", timing.k, timing.todo \ {j}, j, Counted(timing.k, j).st,
                         Target(timing.k, Counted(timing.k, j)))
  BY LookDoes
<1>3. /\ timing'.k = timing.k /\ timing'.todo = timing.todo \ {j} /\ timing'.pc \in {"scan", "translate"}
      /\ timing'.pc = "translate" => timing'.inst = j /\ timing'.from = Counted(timing.k, j).st
  BY <1>2 DEF ExecutorAt
<1>4. /\ \A i \in Instances : CSt(i)' = CSt(i) /\ RSt(i)' = RSt(i)
      /\ \A q \in Callers, i \in Instances : Tripped(q, i)' <=> Tripped(q, i)
      /\ \A k \in Breakers, i \in Instances : ~Pending(k, i) /\ ~Pending(k, i)'
      /\ Rate \in Breakers /\ Count \in Breakers
  BY <1>1, <1>3 DEF CSt, RSt, Tripped, Pending, Breakers
<1>5. \A i \in Instances : Decided(Count, i)' => i = j /\ timing.k = Count /\ timing'.from = CSt(i)
  <2>1. Counted(Count, j).st = CSt(j)
    BY <1>4, AllZero DEF CSt
  <2> QED
    BY <1>3, <2>1 DEF Decided, Deciding
<1>6. AloneInv'
  BY <1>1, AloneKept DEF FollowCore
<1>7. SeenInv'
  <2> SUFFICES ASSUME NEW q \in Callers, NEW i \in Instances PROVE SeenAt(q, i)'
    BY DEF SeenInv
  <2>1. SeenAt(q, i)
    BY DEF FollowCore, SeenInv
  <2>2. ASSUME NEW x, NotLooked(q, i, x) PROVE NotLooked(q, i, x)'
    BY <1>1, <1>2, <1>3, <1>4, <1>5, <2>2 DEF NotLooked
  <2> QED
    BY <1>1, <2>1, <2>2 DEF SeenAt, Saw
<1>8. TrippedInv'
  <2> SUFFICES ASSUME NEW q \in Callers, NEW i \in Instances PROVE TrippedAt(q, i)'
    BY DEF TrippedInv
  <2>1. TrippedAt(q, i)
    BY DEF FollowCore, TrippedInv
  <2> QED
    BY <1>1, <1>4, <2>1, TrippedFrame
<1>9. PendingInv'
  BY <1>4, <1>5 DEF PendingInv, PendingAt
<1>10. KnownInv'
  <2> SUFFICES ASSUME NEW i \in Instances PROVE KnownAt(i)'
    BY DEF KnownInv
  <2>1. KnownAt(i)
    BY DEF FollowCore, KnownInv
  <2> QED
    BY <1>1, <1>4, <2>1, KnownSame
<1> QED
  BY <1>6, <1>7, <1>8, <1>9, <1>10 DEF FollowCore

\* Steps of the executor that neither look at a breaker nor decide.
LEMMA ExecutorQuiet ==
    ASSUME BaseInv, FollowCore, UNCHANGED <<setup, chain, gen, call>>, SameStatuses,
           timing.pc \notin {"idle", "status"}, timing'.pc \notin Deciding \cup {"idle"},
           timing'.k = Count => timing.k = Count /\ timing'.todo \subseteq timing.todo
    PROVE  FollowCore'
<1>1. AloneInv'
  BY AloneKept DEF FollowCore
<1>2. CallsFollow /\ ExecutorFollows
  BY DEF CallsFollow, ExecutorFollows
<1> QED
  BY <1>1, <1>2, QuietFollows

\* The pass ends: the calls under way are marked.
LEMMA PassEndFollows ==
    ASSUME BaseInv, Undisturbed, FollowCore, UNCHANGED <<setup, chain, gen, stat>>,
           timing.pc \in {"sync", "push"}, PassEnded
    PROVE  FollowCore'
<1>1. \A q \in Callers : /\ call'[q].pc = call[q].pc /\ call'[q].inst = call[q].inst
                         /\ call'[q].seen = call[q].seen
                         /\ call[q].pc # "idle" => call'[q].old
  <2> TAKE q \in Callers
  <2>1. ~CallersStall
    BY AllZero
  <2>2. call'[q] = [pc |-> call[q].pc, inst |-> call[q].inst, ok |-> call[q].ok, gen |-> call[q].gen,
                    seen |-> call[q].seen, old |-> ~CallersStall /\ call[q].pc # "idle",
                    read |-> call[q].read]
    BY DEF PassEnded
  <2>3. call'[q].old = (~CallersStall /\ call[q].pc # "idle")
    BY <2>2
  <2>4. call'[q].pc = call[q].pc /\ call'[q].inst = call[q].inst /\ call'[q].seen = call[q].seen
    BY <2>2
  <2> QED
    BY <2>1, <2>3, <2>4
<1>2. timing'.pc = "idle"
  BY DEF PassEnded, IdleTiming
<1>3. AloneInv'
  BY <1>1, AloneKept DEF FollowCore
<1>4. SameStatuses /\ CallsFollow
  BY <1>1 DEF SameStatuses, CallsFollow
<1>5. ExecutorFollows
  BY <1>1, <1>2 DEF ExecutorFollows, Deciding
<1> QED
  BY <1>3, <1>4, <1>5, QuietFollows

\* The executor changes the chain.
LEMMA TranslateFollows ==
    ASSUME BaseInv, Undisturbed, FollowCore, setup' = setup, TimingTranslate
    PROVE  FollowCore'
<1>1. PICK j \in Instances, k \in Breakers, x \in Status, y \in Status :
        j = timing.inst /\ k = timing.k /\ x = timing.from /\ y = timing.to
  BY TranslateDoes, ExecutorIn
<1>2. timing.pc = "translate" /\ Tried(k, j, x, y) /\ UNCHANGED <<stat, gen, call>>
  BY <1>1, TranslateDoes DEF statVars
<1>3. /\ timing'.k = k /\ timing'.todo = timing.todo /\ timing'.inst = j /\ timing'.from = x /\ timing'.to = y
      /\ timing'.pc = IF Translatable(k, j, x) THEN "status" ELSE "scan"
  <2>1. ExecutorAt(IF Translatable(k, j, x) THEN "status" ELSE "scan", k, timing.todo, j, x, y)
    BY <1>1, TranslateDoes
  <2> QED
    BY <2>1 DEF ExecutorAt
<1>4. CASE ~Translatable(k, j, x)
  <2>1. UNCHANGED chain /\ SameStatuses
    BY <1>2, <1>4 DEF Tried, chainVars, SameStatuses
  <2> QED
    BY <1>1, <1>2, <1>3, <1>4, <2>1, ExecutorQuiet DEF Deciding
<1>5. CASE Translatable(k, j, x)
  <2>1. /\ chain[j].owner \in {0, k} /\ chain[j].status = x
        /\ chain'[j] = IF y = "close" THEN DefaultChainStatus ELSE [status |-> y, owner |-> k]
        /\ \A i \in Instances : i # j => chain'[i] = chain[i]
    BY <1>2, <1>5 DEF Translatable, Tried
  <2>2. /\ timing'.pc = "status"
        /\ \A i \in Instances : CSt(i)' = CSt(i) /\ RSt(i)' = RSt(i)
        /\ \A q \in Callers, i \in Instances : Tripped(q, i)' <=> Tripped(q, i)
        /\ \A b \in Breakers, i \in Instances : ~Pending(b, i) /\ (Pending(b, i)' <=> b = k /\ i = j)
        /\ \A b \in Breakers, i \in Instances : Decided(b, i)' <=> Decided(b, i)
        /\ Decided(k, j)
    BY <1>1, <1>2, <1>3, <1>5 DEF CSt, RSt, Tripped, Pending, Decided, Deciding
  <2>3. /\ Rate \in Breakers /\ Count \in Breakers /\ Count # Rate /\ Count # 0 /\ Rate # 0 /\ k \in {Count, Rate}
        /\ 0 \notin Breakers
    BY DEF Breakers, Count, Rate
  <2>4. \A q \in Callers : ~Tripped(q, j)
    <3> SUFFICES ASSUME NEW q \in Callers, Tripped(q, j) PROVE FALSE
      OBVIOUS
    <3>1. chain[j] = Opened /\ CSt(j) # "open"
      BY <2>2, <2>3 DEF FollowCore, TrippedInv, TrippedAt
    <3>2. k = Count /\ x = "open"
      BY <2>1, <2>3, <3>1 DEF Opened
    <3>3. CSt(j) = "open"
      BY <1>1, <2>2, <3>2 DEF FollowCore, PendingInv, PendingAt
    <3> QED
      BY <3>1, <3>3
  <2>5. AloneInv'
    BY <1>2, AloneKept DEF FollowCore
  <2>6. SeenInv'
    <3> SUFFICES ASSUME NEW q \in Callers, NEW i \in Instances PROVE SeenAt(q, i)'
      BY DEF SeenInv
    <3>1. SeenAt(q, i)
      BY DEF FollowCore, SeenInv
    <3>2. ASSUME NEW z, NotLooked(q, i, z) PROVE NotLooked(q, i, z)'
      BY <1>1, <1>2, <1>3, <2>2, <2>3, <3>2 DEF NotLooked
    <3> QED
      BY <1>2, <3>1, <3>2 DEF SeenAt, Saw
  <2>7. TrippedInv'
    <3> SUFFICES ASSUME NEW q \in Callers, NEW i \in Instances PROVE TrippedAt(q, i)'
      BY DEF TrippedInv
    <3>1. CASE i = j
      BY <2>2, <2>4, <3>1 DEF TrippedAt
    <3>2. CASE i # j
      <4>1. TrippedAt(q, i)
        BY DEF FollowCore, TrippedInv
      <4> QED
        BY <2>1, <2>2, <2>3, <3>2, <4>1, TrippedFrame
    <3> QED
      BY <3>1, <3>2
  <2>8. PendingInv'
    <3> SUFFICES ASSUME NEW i \in Instances PROVE PendingAt(i)'
      BY DEF PendingInv
    <3>1. /\ Decided(Count, i)' /\ timing'.from = "open" => CSt(i)' = "open"
          /\ Decided(Count, i)' /\ timing'.from = "half" => CSt(i)' # "close"
      <4>1. PendingAt(i)
        BY DEF FollowCore, PendingInv
      <4> QED
        BY <1>1, <1>3, <2>2, <2>3, <4>1 DEF PendingAt
    <3>2. CASE i # j
      BY <2>2, <2>3, <3>1, <3>2 DEF PendingAt
    <3>3. CASE i = j
      BY <1>3, <2>1, <2>2, <2>3, <3>1, <3>3 DEF PendingAt, DefaultChainStatus, Opened
    <3> QED
      BY <3>2, <3>3
  <2>9. KnownInv'
    <3> SUFFICES ASSUME NEW i \in Instances PROVE KnownAt(i)'
      BY DEF KnownInv
    <3>1. KnownAt(i)
      BY DEF FollowCore, KnownInv
    <3>2. CASE i = j
      <4>1. \A b \in Breakers : b # k =>
              StatusFor(b, j) = "close" /\ StatusFor(b, j)' = "close" /\ ~LeftHalfOpen(b, j)
        BY <2>1, <2>3 DEF StatusFor, LeftHalfOpen, DefaultChainStatus
      <4> QED
        BY <2>2, <2>3, <2>4, <3>1, <3>2, <4>1 DEF KnownAt
    <3>3. CASE i # j
      BY <1>2, <2>1, <2>2, <2>3, <3>1, <3>3, KnownSame
    <3> QED
      BY <3>2, <3>3
  <2> QED
    BY <2>5, <2>6, <2>7, <2>8, <2>9 DEF FollowCore
<1> QED
  BY <1>4, <1>5

\* The executor tells the breaker.
LEMMA TimingStatusFollows ==
    ASSUME BaseInv, Undisturbed, FollowCore, setup' = setup, TimingStatus
    PROVE  FollowCore'
<1>1. PICK j \in Instances, k \in Breakers, y \in Status : j = timing.inst /\ k = timing.k /\ y = timing.to
  BY TimingStatusDoes, ExecutorIn
<1>2. PICK s \in StatusType : Wrote(k, j, 0, s) /\ s.st = y
  BY <1>1, TimingStatusDoes, AllZero
<1>3. timing.pc = "status" /\ UNCHANGED <<chain, gen, call>> /\ j \notin timing.todo
  BY <1>1, TimingStatusDoes DEF chainVars, BaseInv, TimingInv, Deciding
<1>4. timing'.pc = "reset" /\ timing'.k = k /\ timing'.todo = timing.todo
  BY <1>1, TimingStatusDoes DEF ExecutorAt
<1>5. /\ \A i \in Instances : CSt(i)' = IF k = Count /\ i = j THEN y ELSE CSt(i)
      /\ \A i \in Instances : RSt(i)' = IF k = Rate /\ i = j THEN y ELSE RSt(i)
  BY <1>2, StatusWritten DEF CSt, RSt, Breakers
<1>6. /\ \A q \in Callers, i \in Instances : Tripped(q, i)' <=> Tripped(q, i)
      /\ \A b \in Breakers, i \in Instances : ~Pending(b, i)' /\ (Pending(b, i) <=> b = k /\ i = j)
      /\ \A b \in Breakers, i \in Instances : ~Decided(b, i)'
      /\ Rate \in Breakers /\ Count \in Breakers /\ Count # Rate /\ k \in {Count, Rate}
  BY <1>1, <1>3, <1>4 DEF Tripped, Pending, Decided, Deciding, Breakers, Count, Rate
<1>7. AloneInv'
  BY <1>3, AloneKept DEF FollowCore
<1>8. SeenInv'
  <2> SUFFICES ASSUME NEW q \in Callers, NEW i \in Instances PROVE SeenAt(q, i)'
    BY DEF SeenInv
  <2>1. SeenAt(q, i)
    BY DEF FollowCore, SeenInv
  <2>2. ASSUME NEW z, NotLooked(q, i, z) PROVE NotLooked(q, i, z)'
    BY <1>1, <1>3, <1>4, <1>5, <1>6, <2>2 DEF NotLooked
  <2> QED
    BY <1>3, <2>1, <2>2 DEF SeenAt, Saw
<1>9. TrippedInv'
  <2> SUFFICES ASSUME NEW q \in Callers, NEW i \in Instances PROVE TrippedAt(q, i)'
    BY DEF TrippedInv
  <2>1. TrippedAt(q, i)
    BY DEF FollowCore, TrippedInv
  <2> QED
    BY <1>1, <1>3, <1>5, <1>6, <2>1 DEF TrippedAt, Opened
<1>10. PendingInv'
  BY <1>6 DEF PendingInv, PendingAt
<1>11. KnownInv'
  <2> SUFFICES ASSUME NEW i \in Instances PROVE KnownAt(i)'
    BY DEF KnownInv
  <2>1. KnownAt(i) /\ PendingAt(i)
    BY DEF FollowCore, KnownInv, PendingInv
  <2>2. CASE i # j
    BY <1>3, <1>5, <1>6, <2>1, <2>2, KnownSame
  <2>3. CASE i = j /\ k = Rate
    <3>1. RSt(i)' = StatusFor(Rate, i)'
      BY <1>1, <1>3, <1>5, <1>6, <2>1, <2>3 DEF PendingAt, StatusFor
    <3>2. /\ CSt(i)' = CSt(i) /\ StatusFor(Count, i)' = StatusFor(Count, i)
          /\ LeftHalfOpen(Count, i)' <=> LeftHalfOpen(Count, i)
      <4>1. gen[Count][i] = 0
        BY <1>6, AllZero
      <4>2. Counted(Count, i).st = CSt(i) /\ Counted(Count, i).st' = CSt(i)'
        BY <1>3, <4>1 DEF Counted, CSt
      <4> QED
        BY <1>3, <1>5, <1>6, <2>3, <4>2 DEF StatusFor, LeftHalfOpen
    <3> QED
      BY <1>6, <2>1, <2>3, <3>1, <3>2 DEF KnownAt
  <2>4. CASE i = j /\ k = Count
    <3>1. RSt(i)' = RSt(i) /\ StatusFor(Rate, i)' = StatusFor(Rate, i)
      BY <1>3, <1>5, <1>6, <2>4 DEF StatusFor
    <3>2. CSt(i)' = StatusFor(Count, i)' \/ LeftHalfOpen(Count, i)'
      <4>1. gen[Count][i] = 0
        BY <1>6, AllZero
      <4>2. Counted(Count, i).st' = CSt(i)'
        BY <1>3, <4>1 DEF Counted, CSt
      <4>3. /\ y = "half"  => \/ chain[i] = [status |-> "half", owner |-> Count]
                              \/ chain[i] = Opened /\ setup.threads > 1
            /\ y = "close" => chain[i].owner = 0
            /\ y = "open"  => chain[i] = Opened
        BY <1>1, <1>6, <2>1, <2>4 DEF PendingAt
      <4>4. CASE y = "half"
        BY <1>3, <1>5, <2>4, <4>2, <4>3, <4>4 DEF StatusFor, LeftHalfOpen, Opened
      <4>5. CASE y # "half"
        BY <1>3, <1>5, <2>4, <4>3, <4>5 DEF StatusFor, Opened, Count, Status
      <4> QED
        BY <4>4, <4>5
    <3> QED
      BY <1>6, <2>1, <2>4, <3>1, <3>2 DEF KnownAt
  <2> QED
    BY <1>6, <2>2, <2>3, <2>4
<1> QED
  BY <1>7, <1>8, <1>9, <1>10, <1>11 DEF FollowCore

LEMMA ExecutorFollowsChain ==
    ASSUME BaseInv, Undisturbed, FollowCore, setup' = setup, ExecutorStep
    PROVE  FollowCore'
<1> USE DEF chainVars, statVars
<1>1. UNCHANGED stat => SameStatuses
  BY DEF SameStatuses
<1>2. CASE TimingStart \/ TimingLook \/ TimingTranslate \/ TimingStatus
  BY <1>2, StartFollows, LookFollows, TranslateFollows, TimingStatusFollows
<1>3. CASE TimingReset
  <2>1. /\ timing.pc = "reset" /\ UNCHANGED <<chain, gen, call>>
        /\ timing'.pc = "scan" /\ timing'.k = timing.k /\ timing'.todo = timing.todo
    BY <1>3, TimingResetDoes DEF ExecutorAt
  <2>2. PICK j \in Instances, k \in Breakers : j = timing.inst /\ k = timing.k
    BY <2>1, ExecutorIn
  <2>3. gen[k][j] \in 0 .. MaxGen
    BY Typed
  <2>4. SameStatuses
    BY <1>3, <2>2, <2>3, TimingResetDoes, WriteSameStatus DEF Counted
  <2> QED
    BY <2>1, <2>4, ExecutorQuiet DEF Deciding
<1>4. CASE CleanExpired
  <2>1. PICK i \in Instances : gen[timing.k][i] < MaxGen
    BY <1>4, CleanExpiredDoes
  <2> QED
    BY <2>1, ExecutorIn, AllZero
<1>5. CASE CleanOpen \/ CleanHalf \/ CleanDelete
  BY <1>5, CleanChainDoes, CleanDeleteDoes, AllZero DEF Cleaning
<1>6. CASE BreakerDone
  <2>1. /\ timing.pc = "scan" /\ UNCHANGED <<chain, gen, call, stat>>
        /\ timing'.pc \in {"scan", "sync"}
        /\ timing'.k = Rate \/ (timing'.k = timing.k /\ timing'.todo = timing.todo)
    BY <1>6, BreakerDoneDoes DEF ExecutorAt
  <2>2. Rate # Count
    BY DEF Rate, Count
  <2> QED
    BY <1>1, <2>1, <2>2, ExecutorQuiet DEF Deciding
<1>7. CASE TimingSync
  <2>1. timing.pc = "sync" /\ UNCHANGED <<chain, gen, stat>>
    BY <1>7, TimingSyncDoes
  <2>2. CASE /\ UNCHANGED call
             /\ ExecutorAt("submit", timing.k, timing.todo, timing.inst, timing.from, timing.to)
    <3>1. timing'.pc = "submit" /\ timing'.k = timing.k /\ timing'.todo = timing.todo
      BY <2>2 DEF ExecutorAt
    <3> QED
      BY <1>1, <2>1, <2>2, <3>1, ExecutorQuiet DEF Deciding
  <2>3. CASE PassEnded
    BY <2>1, <2>3, PassEndFollows
  <2> QED
    BY <1>7, <2>2, <2>3, TimingSyncDoes
<1>8. CASE TimingSubmit
  BY <1>8, TimingSubmitDoes, PassEndFollows
<1>9. CASE TimingRead
  <2>1. timing.pc = "submit" /\ UNCHANGED <<chain, gen, stat, call>>
    BY <1>9, TimingReadDoes
  <2>2. timing'.pc = "push" /\ timing'.k = timing.k /\ timing'.todo = timing.todo
    BY <1>9, TimingReadDoes DEF ExecutorAt
  <2> QED
    BY <1>1, <2>1, <2>2, ExecutorQuiet DEF Deciding
<1> QED
  BY <1>2, <1>3, <1>4, <1>5, <1>6, <1>7, <1>8, <1>9 DEF ExecutorStep

\* A state in which nothing has happened yet.
Fresh ==
    /\ setup \in Setups /\ stat = NoStatuses /\ chain = EachInstance(DefaultChainStatus) /\ gen = EachEntry(0)
    /\ timing.pc = "idle" /\ \A r \in Callers : call[r].pc = "idle"

LEMMA FreshFollows == Fresh => FollowCore
<1> SUFFICES ASSUME Fresh PROVE FollowCore
  OBVIOUS
<1> USE DEF Fresh
<1>1. 0 \in 0 .. MaxGen /\ Count \in Breakers /\ Rate \in Breakers
  BY SetupTyped DEF Breakers
<1>2. \A i \in Instances : CSt(i) = "close" /\ RSt(i) = "close"
  <2> TAKE i \in Instances
  <2>1. stat[Count][i][0] = NewStatus /\ stat[Rate][i][0] = NewStatus
    BY <1>1 DEF NoStatuses
  <2> QED
    BY <2>1 DEF NewStatus, CSt, RSt
<1>3. \A k \in Breakers, i \in Instances : ~Pending(k, i) /\ ~Decided(k, i) /\ StatusFor(k, i) = "close"
  BY DEF Pending, Decided, Deciding, StatusFor, EachInstance, DefaultChainStatus
<1>4. \A r \in Callers, i \in Instances : ~Tripped(r, i) /\ \A s \in Status : ~Saw(r, i, s)
  BY DEF Tripped, Saw
<1>5. AloneInv
  BY DEF AloneInv, EachEntry
<1>6. SeenInv /\ TrippedInv
  BY <1>4 DEF SeenInv, TrippedInv, SeenAt, TrippedAt, Status
<1>7. PendingInv /\ KnownInv
  BY <1>1, <1>2, <1>3 DEF PendingInv, KnownInv, PendingAt, KnownAt
<1> QED
  BY <1>5, <1>6, <1>7 DEF FollowCore

LEMMA FollowStep ==
    ASSUME BaseInv, FollowInv, [Next]_vars
    PROVE  FollowInv'
<1> USE DEF chainVars, statVars
<1> SUFFICES ASSUME Undisturbed, setup' = setup PROVE FollowCore'
  BY DEF FollowInv, Undisturbed, When, CallersStall, MaxGen, Next, vars
<1>1. FollowCore
  BY DEF FollowInv
<1>2. ASSUME UNCHANGED <<chain, gen, call, timing>>, SameStatuses PROVE FollowCore'
  <2>1. AloneInv'
    BY <1>1, <1>2, AloneKept DEF FollowCore
  <2>2. CallsFollow /\ ExecutorFollows
    BY <1>2 DEF CallsFollow, ExecutorFollows
  <2> QED
    BY <1>1, <1>2, <2>1, <2>2, QuietFollows
<1>3. UNCHANGED stat => SameStatuses
  BY DEF SameStatuses
<1>4. CASE UNCHANGED vars
  BY <1>2, <1>3, <1>4 DEF vars
<1>5. ASSUME DetectorStep PROVE FALSE
  BY <1>5, AllZero, DetectProbeDoes, DetectTranslateDoes, DetectHalfDoes DEF DetectorStep
<1>6. ASSUME Environment PROVE FollowCore'
  <2>1. CASE Tick \/ \E i \in Instances : WindowSlides(i)
    <3>1. 0 \in 0 .. MaxGen
      BY Typed
    <3>2. SameStatuses /\ UNCHANGED <<chain, gen, call, timing>>
      BY <2>1, <3>1, TimeDoes DEF CountersKept, SameStatuses
    <3> QED
      BY <1>2, <3>2
  <2>2. CASE ExpireService \/ LoadService
    BY <1>2, <1>3, <2>2 DEF ExpireService, LoadService
  <2>3. CASE ExpireContext
    <3>1. /\ setup' \in Setups /\ stat' = NoStatuses /\ chain' = EachInstance(DefaultChainStatus)
          /\ gen' = EachEntry(0) /\ UNCHANGED <<call, timing>> /\ AllIdle
      BY <2>3, TypesNow DEF ExpireContext
    <3>2. stat' = NoStatuses'
      BY <3>1 DEF NoStatuses, MaxGen, NewStatus, LongWait
    <3>3. Fresh'
      BY <3>1, <3>2 DEF AllIdle, Fresh
    <3>4. (Fresh => FollowCore)'
      BY FreshFollows, PTL
    <3> QED
      BY <3>3, <3>4
  <2> QED
    BY <1>6, <2>1, <2>2, <2>3 DEF Environment
<1> QED
  BY <1>1, <1>4, <1>5, <1>6, CallerFollows, ExecutorFollowsChain DEF Next, Step, BoundReached

\* Without health checks, stalled callers and CleanStatus, the breaker that owns
\* an instance has the status of the chain, and the others believe it closed,
\* whenever no transition is being written; the one exception is named.
THEOREM BreakersFollowChain == Spec => []BreakerFollowsChain
<1>1. Init => BaseInv /\ FollowInv
  <2> SUFFICES ASSUME Init PROVE FollowCore
    BY InitBase DEF FollowInv
  <2>1. Fresh
    BY DEF Init, Fresh, IdleTiming, IdleCall
  <2> QED
    BY <2>1, FreshFollows
<1>2. BaseInv /\ FollowInv /\ [Next]_vars => (BaseInv /\ FollowInv)'
  BY BaseStep, FollowStep
<1>3. BaseInv /\ FollowInv => BreakerFollowsChain
  <2> SUFFICES ASSUME BaseInv, FollowInv, Undisturbed, NEW i \in Instances, ~Settling(i), NEW k \in Breakers
               PROVE  Counted(k, i).st = StatusFor(k, i) \/ LeftHalfOpen(k, i)
    BY DEF BreakerFollowsChain
  <2>1. KnownAt(i)
    BY DEF FollowInv, FollowCore, KnownInv
  <2>2. ~Pending(Count, i) /\ ~Pending(Rate, i) /\ \A r \in Callers : ~Tripped(r, i)
    BY DEF Settling, Pending, Tripped
  <2>3. Counted(Count, i).st = CSt(i) /\ Counted(Rate, i).st = RSt(i)
    BY AllZero DEF CSt, RSt, Breakers
  <2> QED
    BY <2>1, <2>2, <2>3 DEF KnownAt, Breakers
<1> QED
  BY <1>1, <1>2, <1>3, PTL DEF Spec

-----------------------------------------------------------------------------
\* A half-open instance is closed for its successes only.

\* No object becomes half-open, and what decides on one is not counted.
CountsKept ==
    /\ \A k \in Breakers, i \in Instances, g \in 0 .. MaxGen :
         stat'[k][i][g].st = "half" => stat[k][i][g].st = "half"
    /\ \A i \in Instances, g \in 0 .. MaxGen :
         /\ stat'[Count][i][g].succ = stat[Count][i][g].succ
         /\ stat'[Rate][i][g].total = stat[Rate][i][g].total
         /\ stat'[Rate][i][g].err = stat[Rate][i][g].err

\* Breaker k keeps instance i.
Keeps(k, i) == chain[i].owner = k => chain'[i].owner = k

\* The executor releases no object, and writes none.
BusyKept ==
    /\ \A k \in Breakers, i \in Instances : ~Busy(k, i)' => ~Busy(k, i) /\ Keeps(k, i)
    /\ timing'.pc \in {"status", "reset"} =>
         timing' = timing /\ \A k \in Breakers, i \in Instances : Keeps(k, i)

LEMMA CountedNow ==
    ASSUME BaseInv, setup' = setup, NEW k \in Breakers, NEW i \in Instances
    PROVE  /\ gen[k][i] \in 0 .. MaxGen /\ Counted(k, i) = stat[k][i][gen[k][i]]
           /\ gen'[k][i] = gen[k][i] => Counted(k, i)' = stat'[k][i][gen[k][i]]
BY Typed DEF Counted

LEMMA HalfFrame ==
    ASSUME BaseInv, NEW k \in Breakers, NEW i \in Instances, HalfAt(k, i), setup' = setup,
           gen'[k][i] = gen[k][i],
           \A g \in 0 .. MaxGen : stat'[k][i][g].st = "half" => stat[k][i][g].st = "half",
           ~Busy(k, i)' => ~Busy(k, i) /\ Keeps(k, i),
           timing'.pc \in {"status", "reset"} /\ Busy(k, i)' => timing' = timing /\ Keeps(k, i)
    PROVE  HalfAt(k, i)'
<1>1. Counted(k, i)'.st = "half" => Counted(k, i).st = "half"
  BY CountedNow
<1>2. \A g \in 0 .. MaxGen : stat'[k][i][g].st = "half" => g <= gen'[k][i] /\ When = "never"
  BY DEF HalfAt
<1>3. MaxGen' = MaxGen /\ When' = When
  BY DEF MaxGen, When
<1>4. Counted(k, i)'.st = "half" /\ ~Busy(k, i)' => chain'[i].owner = k
  BY <1>1 DEF HalfAt, Keeps
<1>5. timing'.pc \in {"status", "reset"} /\ Busy(k, i)' => Busy(k, i)
  BY DEF Busy
<1>6. timing'.pc = "status" /\ Busy(k, i)' /\ timing'.to = "half" => chain'[i].owner = k
  BY <1>5 DEF HalfAt, Keeps
<1>7. timing'.pc = "reset" /\ Busy(k, i)' /\ Counted(k, i)'.st = "half" =>
        timing'.to = "half" /\ chain'[i].owner = k
  BY <1>1, <1>5 DEF HalfAt, Keeps
<1> QED
  BY <1>2, <1>3, <1>4, <1>6, <1>7 DEF HalfAt

LEMMA CountFrame ==
    ASSUME BaseInv, NEW i \in Instances, CountAt(i), setup' = setup, gen'[Count][i] = gen[Count][i],
           \A g \in 0 .. MaxGen : /\ stat'[Count][i][g].st = "half" => stat[Count][i][g].st = "half"
                                  /\ stat'[Count][i][g].succ = stat[Count][i][g].succ,
           ~Busy(Count, i)' => ~Busy(Count, i), earned'[i] \in Nat, earned[i] <= earned'[i]
    PROVE  CountAt(i)'
<1>1. Count \in Breakers /\ earned[i] \in Nat
  BY TypesNow DEF Breakers
<1>2. Counted(Count, i)'.succ = Counted(Count, i).succ /\ Counted(Count, i).succ \in Nat
  <2>1. Counted(Count, i).succ \in Nat
    <3>1. Counted(Count, i) \in StatusType
      BY <1>1, Typed
    <3> QED
      BY <3>1 DEF StatusType
  <2>2. Counted(Count, i)'.succ = Counted(Count, i).succ
    BY <1>1, CountedNow
  <2> QED
    BY <2>1, <2>2
<1>3. Counted(Count, i)'.st = "half" => Counted(Count, i).st = "half"
  BY <1>1, CountedNow
<1> QED
  BY <1>1, <1>2, <1>3 DEF CountAt

LEMMA UncountedFinite ==
    \A i \in Instances : /\ IsFiniteSet(Uncounted(i)) /\ Cardinality(Uncounted(i)) \in Nat
                         /\ Cardinality(Uncounted(i)) <= Cardinality(CountedAsSuccess(i))
                         /\ Cardinality(CountedAsSuccess(i)) \in Nat
<1> TAKE i \in Instances
<1>1. Uncounted(i) \subseteq CountedAsSuccess(i) /\ CountedAsSuccess(i) \subseteq Callers
  BY DEF Uncounted, CountedAsSuccess
<1>2. IsFiniteSet(CountedAsSuccess(i))
  BY <1>1, ConstantsAssumption, FS_Subset
<1>3. IsFiniteSet(Uncounted(i)) /\ Cardinality(Uncounted(i)) <= Cardinality(CountedAsSuccess(i))
  BY <1>1, <1>2, FS_Subset
<1> QED
  BY <1>2, <1>3, FS_CardinalityType

LEMMA RateFrame ==
    ASSUME BaseInv, NEW i \in Instances, RateAt(i), setup' = setup, gen'[Rate][i] = gen[Rate][i],
           \A g \in 0 .. MaxGen : /\ stat'[Rate][i][g].st = "half" => stat[Rate][i][g].st = "half"
                                  /\ stat'[Rate][i][g].total = stat[Rate][i][g].total
                                  /\ stat'[Rate][i][g].err = stat[Rate][i][g].err,
           ~Busy(Rate, i)' => ~Busy(Rate, i), Uncounted(i)' = Uncounted(i),
           earned'[i] \in Nat, earned[i] <= earned'[i], earned'[i] <= SuccessAfterHalfOpen
    PROVE  RateAt(i)'
<1>1. Rate \in Breakers /\ earned[i] \in Nat /\ SuccessAfterHalfOpen \in Nat
  BY TypesNow, ConstantsAssumption DEF Breakers
<1>2. /\ Counted(Rate, i)'.total = Counted(Rate, i).total /\ Counted(Rate, i).total \in Nat
      /\ Counted(Rate, i)'.err = Counted(Rate, i).err /\ Counted(Rate, i).err \in Nat
  <2>1. Counted(Rate, i).total \in Nat /\ Counted(Rate, i).err \in Nat
    <3>1. Counted(Rate, i) \in StatusType
      BY <1>1, Typed
    <3> QED
      BY <3>1 DEF StatusType
  <2>2. Counted(Rate, i)'.total = Counted(Rate, i).total /\ Counted(Rate, i)'.err = Counted(Rate, i).err
    BY <1>1, CountedNow
  <2> QED
    BY <2>1, <2>2
<1>3. Counted(Rate, i)'.st = "half" => Counted(Rate, i).st = "half"
  BY <1>1, CountedNow
<1>4. Cardinality(Uncounted(i)) \in Nat /\ Cardinality(Uncounted(i))' = Cardinality(Uncounted(i))
  BY UncountedFinite
<1> QED
  BY <1>1, <1>2, <1>3, <1>4 DEF RateAt

\* A step that counts nothing and releases nothing.
LEMMA QuietEarns ==
    ASSUME BaseInv, HalfInv, CountedInv, UNCHANGED <<setup, gen, earned>>, CountsKept, BusyKept,
           \A i \in Instances : Uncounted(i)' = Uncounted(i)
    PROVE  HalfInv' /\ CountedInv'
<1>1. Count \in Breakers /\ Rate \in Breakers
  BY DEF Breakers
<1>2. ASSUME NEW k \in Breakers, NEW i \in Instances PROVE HalfAt(k, i)'
  <2>1. HalfAt(k, i)
    BY DEF HalfInv
  <2>2. /\ \A g \in 0 .. MaxGen : stat'[k][i][g].st = "half" => stat[k][i][g].st = "half"
        /\ ~Busy(k, i)' => ~Busy(k, i) /\ Keeps(k, i)
        /\ timing'.pc \in {"status", "reset"} /\ Busy(k, i)' => timing' = timing /\ Keeps(k, i)
    BY DEF CountsKept, BusyKept
  <2> QED
    BY <2>1, <2>2, HalfFrame
<1>3. ASSUME NEW i \in Instances PROVE (earned[i] <= SuccessAfterHalfOpen /\ CountAt(i) /\ RateAt(i))'
  <2>1. earned[i] \in Nat /\ earned[i] <= SuccessAfterHalfOpen /\ CountAt(i) /\ RateAt(i)
    BY TypesNow DEF CountedInv
  <2>2. CountAt(i)'
    BY <1>1, <2>1, CountFrame DEF CountsKept, BusyKept
  <2>3. RateAt(i)'
    BY <1>1, <2>1, RateFrame DEF CountsKept, BusyKept
  <2> QED
    BY <2>1, <2>2, <2>3
<1> QED
  BY <1>2, <1>3 DEF HalfInv, CountedInv

\* The set of failed calls in between changes only where errorRate counts.
LEMMA UncountedKept ==
    ASSUME UNCHANGED gen,
           \A q \in Callers : \/ call'[q] = call[q]
                              \/ call'[q].pc # "rate_err" /\ call[q].pc # "rate_err"
                              \/ /\ call'[q].pc = call[q].pc /\ call'[q].inst = call[q].inst
                                 /\ call'[q].seen = call[q].seen /\ call'[q].gen = call[q].gen
    PROVE  \A i \in Instances : Uncounted(i)' = Uncounted(i)
BY DEF Uncounted

LEMMA StillBusy ==
    ASSUME UNCHANGED timing, \A k \in Breakers, i \in Instances : Keeps(k, i)
    PROVE  BusyKept
BY DEF BusyKept, Busy

LEMMA ObjectKept ==
    ASSUME BaseInv, NEW k \in Breakers, NEW j, NEW g, NEW s, Wrote(k, j, g, s),
           s.st = "half" => stat[k][j][g].st = "half", k = Count => s.succ = stat[k][j][g].succ,
           k = Rate => s.total = stat[k][j][g].total /\ s.err = stat[k][j][g].err
    PROVE  CountsKept
<1>1. Count \in Breakers /\ Rate \in Breakers
  BY DEF Breakers
<1>2. \A b \in Breakers, i \in Instances, h \in 0 .. MaxGen :
        stat'[b][i][h] = IF b = k /\ i = j /\ h = g THEN s ELSE stat[b][i][h]
  BY DEF Wrote
<1> QED
  BY <1>1, <1>2 DEF CountsKept

\* Callers that do not count while half-open.
LEMMA CallerQuietEarns ==
    ASSUME BaseInv, HalfInv, CountedInv, setup' = setup, NEW r \in Callers,
           \/ Report(r) \/ CountRead(r) \/ CountFailure(r) \/ CountTrip(r) \/ CountStatus(r) \/ CountTime(r)
           \/ RateRead(r) \/ CallSync(r) \/ CallRead(r) \/ CallSubmit(r)
    PROVE  HalfInv' /\ CountedInv'
<1> USE DEF chainVars, statVars, regVars
<1>1. ASSUME UNCHANGED stat PROVE CountsKept
  BY <1>1 DEF CountsKept
<1>2. ASSUME UNCHANGED chain, UNCHANGED timing PROVE BusyKept
  BY <1>2, StillBusy DEF Keeps
<1>3. ASSUME NEW p, NEW g, NEW s, Moved(r, p, g, s), p # "rate_err", call[r].pc # "rate_err", UNCHANGED gen
      PROVE  \A i \in Instances : Uncounted(i)' = Uncounted(i)
  <2>1. call'[r].pc = p /\ \A q \in Callers \ {r} : call'[q] = call[q]
    BY <1>3 DEF Moved
  <2> QED
    BY <1>3, <2>1, UncountedKept
<1>4. ASSUME Ended(r), call[r].pc # "rate_err", UNCHANGED gen
      PROVE  \A i \in Instances : Uncounted(i)' = Uncounted(i)
  <2>1. call'[r].pc = "idle" /\ \A q \in Callers \ {r} : call'[q] = call[q]
    BY <1>4 DEF Ended, IdleCall
  <2> QED
    BY <1>4, <2>1, UncountedKept
<1>5. CASE Report(r)
  <2>1. \A i \in Instances : Uncounted(i)' = Uncounted(i)
    BY <1>5, ReportDoes, UncountedKept
  <2> QED
    BY <1>1, <1>2, <1>5, <2>1, ReportDoes, QuietEarns
<1>6. CASE CountRead(r)
  <2>1. \A i \in Instances : Uncounted(i)' = Uncounted(i)
    BY <1>3, <1>6, CountReadDoes
  <2> QED
    BY <1>1, <1>2, <1>6, <2>1, CountReadDoes, QuietEarns
<1>7. Count \in Breakers /\ Rate \in Breakers /\ Count # Rate /\ Count # 0 /\ Rate # 0
  BY DEF Breakers, Count, Rate
<1>8. ASSUME NEW s, Wrote(Count, call[r].inst, call[r].gen, s), s.succ = StatOf(r, Count).succ,
             s.st = "half" => StatOf(r, Count).st = "half"
      PROVE  CountsKept
  BY <1>7, <1>8, ObjectKept DEF StatOf
<1>9. CASE CountFailure(r)
  <2>1. \A i \in Instances : Uncounted(i)' = Uncounted(i)
    BY <1>3, <1>9, CountFailureDoes
  <2>2. CountsKept
    BY <1>8, <1>9, CountFailureDoes
  <2> QED
    BY <1>2, <1>9, <2>1, <2>2, CountFailureDoes, QuietEarns
<1>10. CASE CountTrip(r)
  <2>1. \A i \in Instances : Uncounted(i)' = Uncounted(i)
    BY <1>3, <1>10, CountTripDoes
  <2>2. PICK j \in Instances, x \in Status : j = call[r].inst /\ x = call[r].seen
    <3>1. call[r].inst \in Instances
      BY <1>10, CountTripDoes, CallerAt
    <3>2. call[r].seen \in Status
      BY Typed DEF CallType
    <3> QED
      BY <3>1, <3>2
  <2>3. Tried(Count, j, x, "open")
    BY <1>10, <2>2, CountTripDoes
  <2>4. UNCHANGED earned /\ \A k \in Breakers, i \in Instances : Keeps(k, i)
    <3>1. CASE Translatable(Count, j, x)
      <4>1. /\ earned'[j] = earned[j] /\ chain'[j].owner = Count /\ chain[j].owner \in {0, Count}
            /\ \A i \in Instances : i # j => chain'[i] = chain[i] /\ earned'[i] = earned[i]
        BY <2>3, <3>1 DEF Tried, Translatable
      <4>2. earned' \in [Instances -> Nat] /\ earned \in [Instances -> Nat]
        BY <2>3, TypesNow DEF Tried
      <4>3. \A i \in Instances : earned'[i] = earned[i]
        BY <4>1
      <4>4. UNCHANGED earned
        BY <4>2, <4>3
      <4> QED
        BY <1>7, <4>1, <4>4 DEF Keeps, Breakers, Count, Rate
    <3>2. CASE ~Translatable(Count, j, x)
      BY <2>3, <3>2 DEF Tried, Keeps
    <3> QED
      BY <3>1, <3>2
  <2>5. BusyKept
    BY <1>10, <2>4, CountTripDoes, StillBusy
  <2> QED
    BY <1>1, <1>10, <2>1, <2>4, <2>5, CountTripDoes, QuietEarns
<1>11. CASE CountStatus(r)
  <2>1. \A i \in Instances : Uncounted(i)' = Uncounted(i)
    BY <1>3, <1>11, CountStatusDoes
  <2>2. CountsKept
    BY <1>8, <1>11, CountStatusDoes
  <2> QED
    BY <1>2, <1>11, <2>1, <2>2, CountStatusDoes, QuietEarns
<1>12. CASE CountTime(r)
  <2>1. \A i \in Instances : Uncounted(i)' = Uncounted(i)
    BY <1>3, <1>12, CountTimeDoes
  <2>2. CountsKept
    BY <1>8, <1>12, CountTimeDoes
  <2> QED
    BY <1>2, <1>12, <2>1, <2>2, CountTimeDoes, QuietEarns
<1>13. CASE RateRead(r)
  <2>1. \A i \in Instances : Uncounted(i)' = Uncounted(i)
    BY <1>3, <1>13, RateReadDoes
  <2> QED
    BY <1>1, <1>2, <1>13, <2>1, RateReadDoes, QuietEarns
<1>14. CASE CallSync(r)
  <2>1. \A i \in Instances : Uncounted(i)' = Uncounted(i)
    BY <1>3, <1>4, <1>14, CallSyncDoes
  <2> QED
    BY <1>1, <1>2, <1>14, <2>1, CallSyncDoes, QuietEarns
<1>15. CASE CallSubmit(r)
  <2>1. \A i \in Instances : Uncounted(i)' = Uncounted(i)
    BY <1>4, <1>15, CallSubmitDoes
  <2> QED
    BY <1>1, <1>2, <1>15, <2>1, CallSubmitDoes, QuietEarns
<1>16. CASE CallRead(r)
  <2>1. \A i \in Instances : Uncounted(i)' = Uncounted(i)
    BY <1>3, <1>16, CallReadDoes
  <2> QED
    BY <1>1, <1>2, <1>16, <2>1, CallReadDoes, QuietEarns
<1> QED
  BY <1>5, <1>6, <1>9, <1>10, <1>11, <1>12, <1>13, <1>14, <1>15, <1>16

LEMMA WriteKeepsHalf ==
    ASSUME BaseInv, HalfInv, UNCHANGED <<setup, chain, gen, timing>>, NEW k, NEW j, NEW g, NEW s,
           Wrote(k, j, g, s), s.st = stat[k][j][g].st
    PROVE  HalfInv'
<1> SUFFICES ASSUME NEW b \in Breakers, NEW i \in Instances PROVE HalfAt(b, i)'
  BY DEF HalfInv
<1>1. HalfAt(b, i)
  BY DEF HalfInv
<1>2. \A h \in 0 .. MaxGen : stat'[b][i][h].st = "half" => stat[b][i][h].st = "half"
  BY DEF Wrote
<1>3. Keeps(b, i) /\ (Busy(b, i)' <=> Busy(b, i)) /\ gen'[b][i] = gen[b][i]
  BY DEF Keeps, Busy
<1> QED
  BY <1>1, <1>2, <1>3, HalfFrame

\* What is counted for a half-open instance.
LEMMA EarnedGrows ==
    ASSUME BaseInv, CountedInv, NEW r \in Callers, call[r].inst \in Instances, NEW k, Counts(r, k)
    PROVE  \A i \in Instances : /\ earned[i] \in Nat /\ earned'[i] \in Nat /\ earned[i] <= earned'[i]
                                /\ earned'[i] <= SuccessAfterHalfOpen
                                /\ i = call[r].inst /\ chain[i].owner = k =>
                                     earned'[i] = Least(earned[i] + 1, SuccessAfterHalfOpen)
<1> TAKE i \in Instances
<1>1. /\ earned[i] \in Nat /\ earned'[i] \in Nat /\ SuccessAfterHalfOpen \in Nat
      /\ earned[i] <= SuccessAfterHalfOpen
  BY TypesNow, ConstantsAssumption DEF Counts, CountedInv
<1>2. CASE i = call[r].inst
  <2>1. earned'[i] = IF chain[i].owner = k THEN Least(earned[i] + 1, SuccessAfterHalfOpen) ELSE earned[i]
    BY <1>2 DEF Counts
  <2> QED
    BY <1>1, <2>1 DEF Least
<1>3. CASE i # call[r].inst
  BY <1>1, <1>3 DEF Counts
<1> QED
  BY <1>2, <1>3

LEMMA CountSuccessEarns ==
    ASSUME BaseInv, HalfInv, CountedInv, setup' = setup, NEW r \in Callers, CountSuccess(r)
    PROVE  HalfInv' /\ CountedInv'
<1>1. PICK j \in Instances, h \in 0 .. MaxGen : j = call[r].inst /\ h = call[r].gen
  BY CountSuccessDoes, CallerAt
<1>2. /\ call[r].pc = "count_add" /\ Moved(r, "rate", 0, "close") /\ UNCHANGED <<chain, gen, timing>>
  BY CountSuccessDoes
<1>3. PICK s \in StatusType :
        /\ Wrote(Count, j, h, s) /\ s.st = stat[Count][j][h].st
        /\ IF call[r].seen = "half"
             THEN s.succ = Least(stat[Count][j][h].succ + 1, SuccessAfterHalfOpen) /\ Counts(r, Count)
             ELSE s.succ = stat[Count][j][h].succ /\ UNCHANGED earned
  BY <1>1, CountSuccessDoes DEF StatOf
<1>4. Count \in Breakers /\ Rate \in Breakers /\ Count # Rate
  BY DEF Breakers, Count, Rate
<1>5. \A i \in Instances : Uncounted(i)' = Uncounted(i)
  <2>1. call'[r].pc = "rate" /\ \A q \in Callers \ {r} : call'[q] = call[q]
    BY <1>2 DEF Moved
  <2> QED
    BY <1>2, <2>1, UncountedKept
<1>6. CASE call[r].seen # "half"
  <2>1. CountsKept
    BY <1>3, <1>4, <1>6, ObjectKept
  <2>2. BusyKept
    BY <1>2, StillBusy DEF Keeps
  <2> QED
    BY <1>2, <1>3, <1>5, <1>6, <2>1, <2>2, QuietEarns
<1>7. CASE call[r].seen = "half"
  <2>1. HalfInv'
    BY <1>2, <1>3, WriteKeepsHalf
  <2>2. /\ \A i \in Instances, g \in 0 .. MaxGen :
             stat'[Count][i][g] = IF i = j /\ g = h THEN s ELSE stat[Count][i][g]
        /\ \A i \in Instances, g \in 0 .. MaxGen : stat'[Rate][i][g] = stat[Rate][i][g]
    BY <1>3, <1>4 DEF Wrote
  <2>3. ASSUME NEW i \in Instances PROVE (earned[i] <= SuccessAfterHalfOpen /\ CountAt(i) /\ RateAt(i))'
    <3>1. /\ earned[i] \in Nat /\ earned'[i] \in Nat /\ earned[i] <= earned'[i]
          /\ earned'[i] <= SuccessAfterHalfOpen
          /\ i = j /\ chain[i].owner = Count => earned'[i] = Least(earned[i] + 1, SuccessAfterHalfOpen)
      BY <1>1, <1>3, <1>7, EarnedGrows
    <3>2. CountAt(i) /\ RateAt(i) /\ HalfAt(Count, i)
      BY <1>4 DEF CountedInv, HalfInv
    <3>3. \A k \in Breakers : (Busy(k, i)' <=> Busy(k, i)) /\ gen'[k][i] = gen[k][i]
      BY <1>2 DEF Busy
    <3>4. RateAt(i)'
      BY <1>4, <1>5, <2>2, <3>1, <3>2, <3>3, RateFrame
    <3>5. CASE i = j /\ h = gen[Count][j]
      <4>1. Counted(Count, i)' = s /\ Counted(Count, i) = stat[Count][j][h] /\ Counted(Count, i) \in StatusType
        BY <1>2, <1>4, <2>2, <3>5, CountedNow, Typed
      <4>2. Counted(Count, i).succ \in Nat /\ SuccessAfterHalfOpen \in Nat
        BY <4>1, ConstantsAssumption DEF StatusType
      <4> SUFFICES ASSUME Counted(Count, i)'.st = "half", ~Busy(Count, i)'
                   PROVE  Counted(Count, i)'.succ <= earned'[i]
        BY <3>1, <3>4 DEF CountAt
      <4>3. Counted(Count, i).st = "half" /\ ~Busy(Count, i)
        BY <1>3, <1>4, <3>3, <4>1
      <4>4. chain[i].owner = Count /\ Counted(Count, i).succ <= earned[i]
        BY <3>2, <4>3 DEF HalfAt, CountAt
      <4>5. Counted(Count, i)'.succ = Least(Counted(Count, i).succ + 1, SuccessAfterHalfOpen)
        BY <1>3, <1>7, <4>1
      <4> QED
        BY <3>1, <3>5, <4>2, <4>4, <4>5 DEF Least
    <3>6. CASE ~(i = j /\ h = gen[Count][j])
      <4>1. Counted(Count, i)' = Counted(Count, i) /\ Counted(Count, i) \in StatusType
        BY <1>2, <1>4, <2>2, <3>6, CountedNow, Typed
      <4>2. Counted(Count, i).succ \in Nat
        BY <4>1 DEF StatusType
      <4> QED
        BY <1>4, <3>1, <3>2, <3>3, <3>4, <4>1, <4>2 DEF CountAt
    <3> QED
      BY <3>5, <3>6
  <2> QED
    BY <2>1, <2>3 DEF CountedInv
<1> QED
  BY <1>6, <1>7

\* A failed call enters the total before the errors.
LEMMA RateTotalEarns ==
    ASSUME BaseInv, HalfInv, CountedInv, setup' = setup, NEW r \in Callers, RateTotal(r)
    PROVE  HalfInv' /\ CountedInv'
<1>1. PICK j \in Instances, h \in 0 .. MaxGen : j = call[r].inst /\ h = call[r].gen
  BY RateTotalDoes, CallerAt
<1>2. call[r].pc = "rate_total" /\ UNCHANGED <<chain, gen, timing>>
  BY RateTotalDoes
<1>3. PICK s \in StatusType :
        /\ Wrote(Rate, j, h, s) /\ s.st = stat[Rate][j][h].st /\ s.err = stat[Rate][j][h].err
        /\ IF call[r].seen = "half"
             THEN s.total = stat[Rate][j][h].total + 1 /\ Counts(r, IF call[r].ok THEN Rate ELSE Health + 1)
             ELSE s.total = stat[Rate][j][h].total /\ UNCHANGED earned
  BY <1>1, RateTotalDoes DEF StatOf
<1>4. Count \in Breakers /\ Rate \in Breakers /\ Count # Rate
  BY DEF Breakers, Count, Rate
<1>5. /\ \A q \in Callers \ {r} : call'[q] = call[q]
      /\ call[r].ok => call'[r].pc # "rate_err"
      /\ ~call[r].ok => /\ call'[r].pc = "rate_err" /\ call'[r].inst = j /\ call'[r].gen = h
                        /\ call'[r].seen = call[r].seen
  <2>1. CASE call[r].ok
    <3>1. Moved(r, "sync", 0, "close")
      BY <2>1, RateTotalDoes
    <3> QED
      BY <2>1, <3>1 DEF Moved
  <2>2. CASE ~call[r].ok
    <3>1. Moved(r, "rate_err", h, call[r].seen)
      BY <1>1, <2>2, RateTotalDoes
    <3> QED
      BY <1>1, <2>2, <3>1 DEF Moved
  <2> QED
    BY <2>1, <2>2
<1>6. \A i \in Instances :
        \/ i = j /\ h = gen[Rate][j] /\ call[r].seen = "half" /\ ~call[r].ok
        \/ Uncounted(i)' = Uncounted(i)
  BY <1>2, <1>5 DEF Uncounted
<1>7. HalfInv'
  BY <1>2, <1>3, WriteKeepsHalf
<1>8. CASE call[r].seen # "half"
  <2>1. CountsKept
    BY <1>3, <1>4, <1>8, ObjectKept
  <2>2. BusyKept
    BY <1>2, StillBusy DEF Keeps
  <2> QED
    BY <1>2, <1>3, <1>6, <1>8, <2>1, <2>2, QuietEarns
<1>9. CASE call[r].seen = "half"
  <2>1. /\ \A i \in Instances, g \in 0 .. MaxGen :
             stat'[Rate][i][g] = IF i = j /\ g = h THEN s ELSE stat[Rate][i][g]
        /\ \A i \in Instances, g \in 0 .. MaxGen : stat'[Count][i][g] = stat[Count][i][g]
    BY <1>3, <1>4 DEF Wrote
  <2>2. ASSUME NEW i \in Instances PROVE (earned[i] <= SuccessAfterHalfOpen /\ CountAt(i) /\ RateAt(i))'
    <3>1. /\ earned[i] \in Nat /\ earned'[i] \in Nat /\ earned[i] <= earned'[i]
          /\ earned'[i] <= SuccessAfterHalfOpen
      BY <1>1, <1>3, <1>9, EarnedGrows
    <3>2. i = j /\ call[r].ok /\ chain[i].owner = Rate =>
            earned'[i] = Least(earned[i] + 1, SuccessAfterHalfOpen)
      <4> SUFFICES ASSUME call[r].ok PROVE i = j /\ chain[i].owner = Rate =>
                            earned'[i] = Least(earned[i] + 1, SuccessAfterHalfOpen)
        OBVIOUS
      <4>1. Counts(r, Rate)
        BY <1>3, <1>9
      <4> QED
        BY <1>1, <4>1, EarnedGrows
    <3>3. CountAt(i) /\ RateAt(i) /\ HalfAt(Rate, i)
      BY <1>4 DEF CountedInv, HalfInv
    <3>4. \A k \in Breakers : (Busy(k, i)' <=> Busy(k, i)) /\ gen'[k][i] = gen[k][i]
      BY <1>2 DEF Busy
    <3>5. CountAt(i)'
      BY <1>4, <2>1, <3>1, <3>3, <3>4, CountFrame
    <3>6. /\ Counted(Rate, i) \in StatusType /\ Counted(Rate, i).total \in Nat /\ Counted(Rate, i).err \in Nat
          /\ SuccessAfterHalfOpen \in Nat /\ Cardinality(Uncounted(i)) \in Nat
      BY <1>4, Typed, UncountedFinite, ConstantsAssumption DEF StatusType
    <3>7. CASE i = j /\ h = gen[Rate][j]
      <4> SUFFICES ASSUME Counted(Rate, i)'.st = "half", ~Busy(Rate, i)'
                   PROVE  \/ earned'[i] = SuccessAfterHalfOpen
                          \/ Counted(Rate, i)'.total <=
                               Counted(Rate, i)'.err + earned'[i] + Cardinality(Uncounted(i))'
        BY <3>1, <3>5 DEF RateAt
      <4>1. Counted(Rate, i)' = s /\ Counted(Rate, i) = stat[Rate][j][h]
        BY <1>2, <1>4, <2>1, <3>7, CountedNow
      <4>2. Counted(Rate, i).st = "half" /\ ~Busy(Rate, i)
        BY <1>3, <1>4, <3>4, <4>1
      <4>3. /\ chain[i].owner = Rate
            /\ \/ earned[i] = SuccessAfterHalfOpen
               \/ Counted(Rate, i).total <= Counted(Rate, i).err + earned[i] + Cardinality(Uncounted(i))
        BY <3>3, <4>2 DEF HalfAt, RateAt
      <4>4. Counted(Rate, i)'.total = Counted(Rate, i).total + 1 /\ Counted(Rate, i)'.err = Counted(Rate, i).err
        BY <1>3, <1>9, <4>1
      <4>5. CASE call[r].ok
        <5>1. Cardinality(Uncounted(i))' = Cardinality(Uncounted(i))
          BY <1>6, <4>5
        <5>2. earned'[i] = Least(earned[i] + 1, SuccessAfterHalfOpen)
          BY <3>2, <3>7, <4>3, <4>5
        <5> QED
          BY <3>1, <3>6, <4>3, <4>4, <5>1, <5>2 DEF Least
      <4>6. CASE ~call[r].ok
        <5>1. Uncounted(i)' = Uncounted(i) \cup {r} /\ r \notin Uncounted(i)
          BY <1>2, <1>5, <1>9, <3>7, <4>6 DEF Uncounted
        <5>2. Cardinality(Uncounted(i) \cup {r}) = Cardinality(Uncounted(i)) + 1
          BY <5>1, UncountedFinite, FS_AddElement
        <5>3. Cardinality(Uncounted(i))' = Cardinality(Uncounted(i)) + 1
          BY <5>1, <5>2
        <5> QED
          BY <3>1, <3>6, <4>3, <4>4, <5>3
      <4> QED
        BY <4>5, <4>6
    <3>8. CASE ~(i = j /\ h = gen[Rate][j])
      <4>1. Counted(Rate, i)' = Counted(Rate, i)
        BY <1>2, <1>4, <2>1, <3>8, CountedNow
      <4>2. Uncounted(i)' = Uncounted(i)
        BY <1>6, <3>8
      <4>3. Cardinality(Uncounted(i))' = Cardinality(Uncounted(i))
        BY <4>2
      <4> QED
        BY <1>4, <3>1, <3>3, <3>4, <3>5, <3>6, <4>1, <4>3 DEF RateAt
    <3> QED
      BY <3>7, <3>8
  <2> QED
    BY <1>7, <2>2 DEF CountedInv
<1> QED
  BY <1>8, <1>9

LEMMA RateErrEarns ==
    ASSUME BaseInv, HalfInv, CountedInv, setup' = setup, NEW r \in Callers, RateErr(r)
    PROVE  HalfInv' /\ CountedInv'
<1>1. PICK j \in Instances, h \in 0 .. MaxGen : j = call[r].inst /\ h = call[r].gen
  BY RateErrDoes, CallerAt
<1>2. call[r].pc = "rate_err" /\ Moved(r, "sync", 0, "close") /\ UNCHANGED <<chain, gen, timing, earned>>
  BY RateErrDoes DEF chainVars
<1>3. PICK s \in StatusType :
        /\ Wrote(Rate, j, h, s) /\ s.st = stat[Rate][j][h].st /\ s.total = stat[Rate][j][h].total
        /\ s.err = IF call[r].seen = "half" THEN stat[Rate][j][h].err + 1 ELSE stat[Rate][j][h].err
  BY <1>1, RateErrDoes DEF StatOf
<1>4. Count \in Breakers /\ Rate \in Breakers /\ Count # Rate
  BY DEF Breakers, Count, Rate
<1>5. call'[r].pc = "sync" /\ \A q \in Callers \ {r} : call'[q] = call[q]
  BY <1>2 DEF Moved
<1>6. HalfInv'
  BY <1>2, <1>3, WriteKeepsHalf
<1>7. /\ \A i \in Instances, g \in 0 .. MaxGen :
           stat'[Rate][i][g] = IF i = j /\ g = h THEN s ELSE stat[Rate][i][g]
      /\ \A i \in Instances, g \in 0 .. MaxGen : stat'[Count][i][g] = stat[Count][i][g]
  BY <1>3, <1>4 DEF Wrote
<1>8. ASSUME NEW i \in Instances PROVE (earned[i] <= SuccessAfterHalfOpen /\ CountAt(i) /\ RateAt(i))'
  <2>1. /\ earned[i] \in Nat /\ earned'[i] = earned[i] /\ earned[i] <= SuccessAfterHalfOpen
        /\ CountAt(i) /\ RateAt(i)
    BY <1>2, TypesNow DEF CountedInv
  <2>2. \A k \in Breakers : (Busy(k, i)' <=> Busy(k, i)) /\ gen'[k][i] = gen[k][i]
    BY <1>2 DEF Busy
  <2>3. CountAt(i)'
    BY <1>4, <1>7, <2>1, <2>2, CountFrame
  <2>4. /\ Counted(Rate, i) \in StatusType /\ Counted(Rate, i).total \in Nat /\ Counted(Rate, i).err \in Nat
        /\ Cardinality(Uncounted(i)) \in Nat
    BY <1>4, Typed, UncountedFinite DEF StatusType
  <2>5. CASE i = j /\ h = gen[Rate][j] /\ call[r].seen = "half"
    <3>1. Uncounted(i)' = Uncounted(i) \ {r} /\ r \in Uncounted(i)
      BY <1>1, <1>2, <1>5, <2>5 DEF Uncounted
    <3>2. Cardinality(Uncounted(i) \ {r}) = Cardinality(Uncounted(i)) - 1
      BY <3>1, UncountedFinite, FS_RemoveElement
    <3>3. Cardinality(Uncounted(i))' = Cardinality(Uncounted(i)) - 1
      BY <3>1, <3>2
    <3>4. /\ Counted(Rate, i)'.st = Counted(Rate, i).st /\ Counted(Rate, i)'.total = Counted(Rate, i).total
          /\ Counted(Rate, i)'.err = Counted(Rate, i).err + 1
      BY <1>2, <1>3, <1>4, <1>7, <2>5, CountedNow
    <3>5. RateAt(i)'
      BY <1>4, <2>1, <2>2, <2>4, <3>3, <3>4 DEF RateAt
    <3> QED
      BY <2>1, <2>3, <3>5
  <2>6. CASE ~(i = j /\ h = gen[Rate][j] /\ call[r].seen = "half")
    <3>1. Uncounted(i)' = Uncounted(i)
      BY <1>1, <1>2, <1>5, <2>6 DEF Uncounted
    <3>2. Cardinality(Uncounted(i))' = Cardinality(Uncounted(i))
      BY <3>1
    <3>3. /\ Counted(Rate, i)'.st = Counted(Rate, i).st /\ Counted(Rate, i)'.total = Counted(Rate, i).total
          /\ Counted(Rate, i)'.err = Counted(Rate, i).err
      BY <1>2, <1>3, <1>4, <1>7, <2>6, CountedNow
    <3>4. RateAt(i)'
      BY <1>4, <2>1, <2>2, <2>4, <3>2, <3>3 DEF RateAt
    <3> QED
      BY <2>1, <2>3, <3>4
  <2> QED
    BY <2>5, <2>6
<1> QED
  BY <1>6, <1>8 DEF CountedInv

\* One breaker's transition in the chain: no other breaker is half-open there.
LEMMA TranslateEarns ==
    ASSUME BaseInv, HalfInv, CountedInv, setup' = setup, TimingTranslate
    PROVE  HalfInv' /\ CountedInv'
<1>1. PICK j \in Instances, k \in Breakers, x \in Status, y \in Status :
        j = timing.inst /\ k = timing.k /\ x = timing.from /\ y = timing.to
  BY TranslateDoes, ExecutorIn
<1>2. timing.pc = "translate" /\ Tried(k, j, x, y) /\ UNCHANGED <<stat, gen, call>>
  BY <1>1, TranslateDoes DEF statVars
<1>3. /\ timing'.k = k /\ timing'.inst = j /\ timing'.to = y
      /\ timing'.pc = IF Translatable(k, j, x) THEN "status" ELSE "scan"
  <2>1. ExecutorAt(IF Translatable(k, j, x) THEN "status" ELSE "scan", k, timing.todo, j, x, y)
    BY <1>1, TranslateDoes
  <2> QED
    BY <2>1 DEF ExecutorAt
<1>4. \A i \in Instances : Uncounted(i)' = Uncounted(i)
  BY <1>2, UncountedKept
<1>5. CASE ~Translatable(k, j, x)
  <2>1. UNCHANGED <<chain, earned>> /\ CountsKept
    BY <1>2, <1>5 DEF Tried, chainVars, CountsKept
  <2>2. BusyKept
    BY <1>2, <1>3, <1>5, <2>1 DEF BusyKept, Busy, Keeps
  <2> QED
    BY <1>2, <1>4, <2>1, <2>2, QuietEarns
<1>6. CASE Translatable(k, j, x)
  <2>1. /\ chain[j].owner \in {0, k} /\ (y = "half" => chain'[j].owner = k) /\ earned'[j] \in {0, earned[j]}
        /\ \A i \in Instances : i # j => chain'[i] = chain[i] /\ earned'[i] = earned[i]
    BY <1>2, <1>6 DEF Translatable, Tried
  <2>2. /\ \A b \in Breakers, i \in Instances : ~Busy(b, i) /\ (Busy(b, i)' <=> b = k /\ i = j)
        /\ timing'.pc = "status"
    BY <1>1, <1>2, <1>3, <1>6 DEF Busy
  <2>3. Count \in Breakers /\ Rate \in Breakers /\ 0 \notin Breakers /\ \A b \in Breakers : b = Count \/ b = Rate
    BY DEF Breakers, Count, Rate
  <2>4. \A b \in Breakers : b # k => Counted(b, j).st # "half"
    BY <2>1, <2>2, <2>3 DEF HalfInv, HalfAt
  <2>5. \A b \in Breakers, i \in Instances : Counted(b, i)' = Counted(b, i)
    BY <1>2 DEF Counted
  <2>6. ASSUME NEW b \in Breakers, NEW i \in Instances PROVE HalfAt(b, i)'
    <3>1. HalfAt(b, i)
      BY DEF HalfInv
    <3>2. \A g \in 0 .. MaxGen : stat'[b][i][g].st = "half" => stat[b][i][g].st = "half"
      BY <1>2
    <3>3. CASE i # j
      BY <1>2, <2>1, <2>2, <3>1, <3>2, <3>3, HalfFrame DEF Keeps
    <3>4. CASE i = j
      <4>1. MaxGen' = MaxGen /\ When' = When
        BY DEF MaxGen, When
      <4>2. \A g \in 0 .. MaxGen : stat'[b][i][g].st = "half" => g <= gen'[b][i] /\ When = "never"
        BY <1>2, <3>1 DEF HalfAt
      <4>3. Counted(b, i)'.st = "half" => Busy(b, i)'
        BY <2>2, <2>4, <2>5, <3>4
      <4>4. Busy(b, i)' /\ timing'.to = "half" => chain'[i].owner = b
        BY <1>3, <2>1, <2>2, <3>4
      <4> QED
        BY <2>2, <4>1, <4>2, <4>3, <4>4 DEF HalfAt
    <3> QED
      BY <3>3, <3>4
  <2>7. ASSUME NEW i \in Instances PROVE (earned[i] <= SuccessAfterHalfOpen /\ CountAt(i) /\ RateAt(i))'
    <3>1. /\ earned[i] \in Nat /\ earned[i] <= SuccessAfterHalfOpen /\ SuccessAfterHalfOpen \in Nat
          /\ CountAt(i) /\ RateAt(i)
      BY TypesNow, ConstantsAssumption DEF CountedInv
    <3>2. CASE i = j
      BY <2>1, <2>2, <2>3, <2>4, <2>5, <3>1, <3>2 DEF CountAt, RateAt
    <3>3. CASE i # j
      <4>1. earned'[i] = earned[i] /\ Cardinality(Uncounted(i))' = Cardinality(Uncounted(i))
        BY <1>4, <2>1, <3>3
      <4> QED
        BY <2>2, <2>3, <2>5, <3>1, <4>1 DEF CountAt, RateAt
    <3> QED
      BY <3>2, <3>3
  <2> QED
    BY <2>6, <2>7 DEF HalfInv, CountedInv
<1> QED
  BY <1>5, <1>6

\* The object the executor writes is its own until the counters are reset.
LEMMA TimingStatusEarns ==
    ASSUME BaseInv, HalfInv, CountedInv, setup' = setup, TimingStatus
    PROVE  HalfInv' /\ CountedInv'
<1>1. PICK j \in Instances, k \in Breakers, y \in Status : j = timing.inst /\ k = timing.k /\ y = timing.to
  BY TimingStatusDoes, ExecutorIn
<1>2. timing.pc = "status" /\ UNCHANGED <<chain, earned, gen, call>> /\ (y = "half" => When = "never")
  BY <1>1, TimingStatusDoes DEF chainVars, BaseInv, TimingInv, Deciding
<1>3. PICK s \in StatusType : Wrote(k, j, gen[k][j], s) /\ s.st = y
  BY <1>1, TimingStatusDoes
<1>4. timing'.pc = "reset" /\ timing'.k = k /\ timing'.inst = j /\ timing'.to = y
  BY <1>1, TimingStatusDoes DEF ExecutorAt
<1>5. \A b \in Breakers, i \in Instances : (Busy(b, i) <=> b = k /\ i = j) /\ (Busy(b, i)' <=> Busy(b, i))
  BY <1>1, <1>2, <1>4 DEF Busy
<1>6. \A b \in Breakers, i \in Instances, g \in 0 .. MaxGen :
        stat'[b][i][g] = IF b = k /\ i = j /\ g = gen[k][j] THEN s ELSE stat[b][i][g]
  BY <1>3 DEF Wrote
<1>7. ASSUME NEW b \in Breakers, NEW i \in Instances PROVE HalfAt(b, i)'
  <2>1. HalfAt(b, i)
    BY DEF HalfInv
  <2>2. CASE ~(b = k /\ i = j)
    <3>1. \A g \in 0 .. MaxGen : stat'[b][i][g] = stat[b][i][g]
      BY <1>6, <2>2
    <3> QED
      BY <1>2, <1>5, <2>1, <2>2, <3>1, HalfFrame DEF Keeps
  <2>3. CASE b = k /\ i = j
    <3>1. MaxGen' = MaxGen /\ When' = When
      BY DEF MaxGen, When
    <3>2. gen[k][j] \in 0 .. MaxGen /\ MaxGen \in Nat
      BY Typed
    <3>3. \A g \in 0 .. MaxGen : stat'[b][i][g].st = "half" => g <= gen'[b][i] /\ When = "never"
      BY <1>2, <1>3, <1>6, <2>1, <2>3, <3>2 DEF HalfAt
    <3>4. Counted(b, i)' = s
      BY <1>2, <1>6, <2>3, CountedNow
    <3>5. s.st = "half" => timing'.to = "half" /\ chain'[i].owner = b
      BY <1>1, <1>2, <1>3, <1>4, <1>5, <2>1, <2>3 DEF HalfAt
    <3> QED
      BY <1>4, <1>5, <2>3, <3>1, <3>3, <3>4, <3>5 DEF HalfAt
  <2> QED
    BY <2>2, <2>3
<1>8. ASSUME NEW i \in Instances PROVE (earned[i] <= SuccessAfterHalfOpen /\ CountAt(i) /\ RateAt(i))'
  <2>1. earned[i] <= SuccessAfterHalfOpen /\ CountAt(i) /\ RateAt(i)
    BY DEF CountedInv
  <2>2. \A b \in Breakers : ~Busy(b, i)' => ~Busy(b, i) /\ Counted(b, i)' = Counted(b, i)
    BY <1>2, <1>5, <1>6, CountedNow
  <2>3. Uncounted(i)' = Uncounted(i)
    BY <1>2, UncountedKept
  <2>4. Count \in Breakers /\ Rate \in Breakers /\ earned'[i] = earned[i]
        /\ Cardinality(Uncounted(i))' = Cardinality(Uncounted(i))
    BY <1>2, <2>3 DEF Breakers
  <2> QED
    BY <2>1, <2>2, <2>4 DEF CountAt, RateAt
<1> QED
  BY <1>7, <1>8 DEF HalfInv, CountedInv

\* A breaker that has become half-open starts to count from zero.
LEMMA TimingResetEarns ==
    ASSUME BaseInv, HalfInv, CountedInv, setup' = setup, TimingReset
    PROVE  HalfInv' /\ CountedInv'
<1>1. PICK j \in Instances, k \in Breakers, y \in Status : j = timing.inst /\ k = timing.k /\ y = timing.to
  BY TimingResetDoes, ExecutorIn
<1>2. timing.pc = "reset" /\ UNCHANGED <<chain, earned, gen, call>>
  BY <1>1, TimingResetDoes DEF chainVars
<1>3. PICK s \in StatusType : /\ Wrote(k, j, gen[k][j], s) /\ s.st = Counted(k, j).st
                              /\ y = "half" => s.succ = 0 /\ s.total = 0 /\ s.err = 0
  BY <1>1, TimingResetDoes
<1>4. timing'.pc = "scan"
  BY TimingResetDoes DEF ExecutorAt
<1>5. \A b \in Breakers, i \in Instances : (Busy(b, i) <=> b = k /\ i = j) /\ ~Busy(b, i)'
  BY <1>1, <1>2, <1>4 DEF Busy
<1>6. \A b \in Breakers, i \in Instances, g \in 0 .. MaxGen :
        stat'[b][i][g] = IF b = k /\ i = j /\ g = gen[k][j] THEN s ELSE stat[b][i][g]
  BY <1>3 DEF Wrote
<1>7. Counted(k, j)' = s /\ (s.st = "half" => y = "half" /\ chain[j].owner = k)
  <2>1. Counted(k, j)' = s
    BY <1>2, <1>6, CountedNow
  <2> QED
    BY <1>1, <1>2, <1>3, <1>5, <2>1 DEF HalfInv, HalfAt
<1>8. \A b \in Breakers, i \in Instances : ~(b = k /\ i = j) => Counted(b, i)' = Counted(b, i)
  BY <1>2, <1>6, CountedNow
<1>9. ASSUME NEW b \in Breakers, NEW i \in Instances PROVE HalfAt(b, i)'
  <2>1. HalfAt(b, i)
    BY DEF HalfInv
  <2>2. MaxGen' = MaxGen /\ When' = When
    BY DEF MaxGen, When
  <2>3. \A g \in 0 .. MaxGen : stat'[b][i][g].st = "half" => stat[b][i][g].st = "half"
    BY <1>3, <1>6 DEF Counted
  <2>4. \A g \in 0 .. MaxGen : stat'[b][i][g].st = "half" => g <= gen'[b][i] /\ When = "never"
    BY <1>2, <2>1, <2>3 DEF HalfAt
  <2>5. Counted(b, i)'.st = "half" => chain'[i].owner = b
    BY <1>2, <1>5, <1>7, <1>8, <2>1 DEF HalfAt
  <2> QED
    BY <1>4, <2>2, <2>4, <2>5 DEF HalfAt
<1>10. ASSUME NEW i \in Instances PROVE (earned[i] <= SuccessAfterHalfOpen /\ CountAt(i) /\ RateAt(i))'
  <2>1. earned[i] \in Nat /\ earned[i] <= SuccessAfterHalfOpen /\ CountAt(i) /\ RateAt(i)
    BY TypesNow DEF CountedInv
  <2>2. Uncounted(i)' = Uncounted(i)
    BY <1>2, UncountedKept
  <2>3. /\ Count \in Breakers /\ Rate \in Breakers /\ earned'[i] = earned[i]
        /\ Cardinality(Uncounted(i))' = Cardinality(Uncounted(i)) /\ Cardinality(Uncounted(i)) \in Nat
    BY <1>2, <2>2, UncountedFinite DEF Breakers
  <2>4. CountAt(i)'
    <3>1. CASE k = Count /\ i = j
      BY <1>3, <1>7, <2>1, <2>3, <3>1 DEF CountAt
    <3>2. CASE ~(k = Count /\ i = j)
      BY <1>5, <1>8, <2>1, <2>3, <3>2 DEF CountAt
    <3> QED
      BY <3>1, <3>2
  <2>5. RateAt(i)'
    <3>1. CASE k = Rate /\ i = j
      BY <1>3, <1>7, <2>1, <2>3, <3>1 DEF RateAt
    <3>2. CASE ~(k = Rate /\ i = j)
      BY <1>5, <1>8, <2>1, <2>3, <3>2 DEF RateAt
    <3> QED
      BY <3>1, <3>2
  <2> QED
    BY <2>1, <2>3, <2>4, <2>5
<1> QED
  BY <1>9, <1>10 DEF HalfInv, CountedInv

\* CleanStatus gives an object up before it closes the instance for good.
LEMMA CleanEarns ==
    ASSUME BaseInv, HalfInv, CountedInv, setup' = setup, CleanOpen \/ CleanHalf
    PROVE  HalfInv' /\ CountedInv'
<1>1. PICK j \in Instances, k \in Breakers : j = timing.inst /\ k = timing.k
  BY CleanChainDoes, ExecutorIn
<1>2. PICK x : /\ timing.pc \in {"clean_open", "clean_half"} /\ Tried(k, j, x, "close")
               /\ timing'.pc \in {"clean_half", "clean_delete"} /\ timing'.k = k /\ timing'.inst = j
  <2>1. PICK x \in {"open", "half"}, p \in {"clean_half", "clean_delete"} :
          /\ timing.pc \in {"clean_open", "clean_half"} /\ Tried(k, j, x, "close")
          /\ ExecutorAt(p, k, timing.todo, j, timing.from, timing.to)
    BY <1>1, CleanChainDoes
  <2> QED
    BY <2>1 DEF ExecutorAt
<1>3. UNCHANGED <<stat, gen, call>>
  BY CleanChainDoes DEF statVars
<1>4. UNCHANGED earned
  <2>1. \A i \in Instances : earned'[i] = earned[i]
    BY <1>2 DEF Tried, chainVars
  <2>2. earned' \in [Instances -> Nat] /\ earned \in [Instances -> Nat]
    BY <1>2, TypesNow DEF Tried
  <2> QED
    BY <2>1, <2>2
<1>5. BusyKept
  <2>1. \A b \in Breakers, i \in Instances : ~Busy(b, i)' => ~Busy(b, i) /\ ~(b = k /\ i = j)
    BY <1>1, <1>2 DEF Busy
  <2>2. \A b \in Breakers, i \in Instances : ~(b = k /\ i = j) => Keeps(b, i)
    <3>1. 0 \notin Breakers
      BY DEF Breakers, Count, Rate
    <3> QED
      BY <1>2, <3>1 DEF Tried, Translatable, Keeps, chainVars
  <2> QED
    BY <1>2, <2>1, <2>2 DEF BusyKept
<1>6. CountsKept
  BY <1>3 DEF CountsKept
<1>7. \A i \in Instances : Uncounted(i)' = Uncounted(i)
  BY <1>3, UncountedKept
<1> QED
  BY <1>3, <1>4, <1>5, <1>6, <1>7, QuietEarns

\* The next object of an instance has never been half-open.
LEMMA CleanDeleteEarns ==
    ASSUME BaseInv, HalfInv, CountedInv, setup' = setup, CleanDelete
    PROVE  HalfInv' /\ CountedInv'
<1>1. PICK j \in Instances, k \in Breakers : j = timing.inst /\ k = timing.k
  BY CleanDeleteDoes, ExecutorIn
<1>2. /\ timing.pc = "clean_delete" /\ UNCHANGED <<chain, earned, stat, call>> /\ timing'.pc = "scan"
  BY CleanDeleteDoes DEF chainVars, ExecutorAt
<1>3. /\ gen[k][j] < MaxGen /\ MaxGen \in Nat /\ gen[k][j] \in 0 .. MaxGen
      /\ \A b \in Breakers, i \in Instances :
           gen'[b][i] = IF b = k /\ i = j THEN gen[b][i] + 1 ELSE gen[b][i]
  BY <1>1, CleanDeleteDoes, Typed
<1>4. \A b \in Breakers, i \in Instances : (Busy(b, i) <=> b = k /\ i = j) /\ ~Busy(b, i)'
  BY <1>1, <1>2 DEF Busy
<1>5. Counted(k, j)'.st # "half"
  <2>1. gen[k][j] + 1 \in 0 .. MaxGen /\ ~(gen[k][j] + 1 <= gen[k][j])
    BY <1>3
  <2>2. stat[k][j][gen[k][j] + 1].st # "half"
    BY <2>1 DEF HalfInv, HalfAt
  <2>3. Counted(k, j)' = stat[k][j][gen[k][j] + 1]
    BY <1>2, <1>3 DEF Counted
  <2> QED
    BY <2>2, <2>3
<1>6. \A b \in Breakers, i \in Instances : ~(b = k /\ i = j) => Counted(b, i)' = Counted(b, i)
  BY <1>2, <1>3 DEF Counted
<1>7. ASSUME NEW b \in Breakers, NEW i \in Instances PROVE HalfAt(b, i)'
  <2>1. HalfAt(b, i)
    BY DEF HalfInv
  <2>2. MaxGen' = MaxGen /\ When' = When
    BY DEF MaxGen, When
  <2>3. \A g \in 0 .. MaxGen : stat'[b][i][g].st = "half" => g <= gen'[b][i] /\ When = "never"
    <3>1. gen[b][i] \in 0 .. MaxGen /\ gen'[b][i] \in {gen[b][i], gen[b][i] + 1}
      BY <1>3, Typed
    <3> QED
      BY <1>2, <1>3, <2>1, <3>1 DEF HalfAt
  <2>4. Counted(b, i)'.st = "half" => chain'[i].owner = b
    BY <1>2, <1>4, <1>5, <1>6, <2>1 DEF HalfAt
  <2> QED
    BY <1>2, <2>2, <2>3, <2>4 DEF HalfAt
<1>8. ASSUME NEW i \in Instances PROVE (earned[i] <= SuccessAfterHalfOpen /\ CountAt(i) /\ RateAt(i))'
  <2>1. /\ earned[i] <= SuccessAfterHalfOpen /\ CountAt(i) /\ RateAt(i) /\ earned'[i] = earned[i]
        /\ Count \in Breakers /\ Rate \in Breakers
    BY <1>2 DEF CountedInv, Breakers
  <2>2. CountAt(i)'
    BY <1>4, <1>5, <1>6, <2>1 DEF CountAt
  <2>3. RateAt(i)'
    <3>1. CASE k = Rate /\ i = j
      BY <1>5, <3>1 DEF RateAt
    <3>2. CASE ~(k = Rate /\ i = j)
      <4>1. gen'[Rate][i] = gen[Rate][i]
        BY <1>3, <2>1, <3>2
      <4>2. Uncounted(i)' = Uncounted(i)
        BY <1>2, <4>1 DEF Uncounted
      <4>3. Cardinality(Uncounted(i))' = Cardinality(Uncounted(i))
        BY <4>2
      <4> QED
        BY <1>4, <1>6, <2>1, <3>2, <4>3 DEF RateAt
    <3> QED
      BY <3>1, <3>2
  <2> QED
    BY <2>1, <2>2, <2>3
<1> QED
  BY <1>7, <1>8 DEF HalfInv, CountedInv

LEMMA ExecutorEarns ==
    ASSUME BaseInv, HalfInv, CountedInv, setup' = setup, ExecutorStep
    PROVE  HalfInv' /\ CountedInv'
<1> USE DEF chainVars, statVars, regVars
<1>1. CASE TimingTranslate \/ TimingStatus \/ TimingReset \/ CleanOpen \/ CleanHalf \/ CleanDelete
  BY <1>1, TranslateEarns, TimingStatusEarns, TimingResetEarns, CleanEarns, CleanDeleteEarns
<1>2. ASSUME UNCHANGED <<chain, earned, stat, gen>>,
             timing.pc \notin {"status", "reset", "clean_half", "clean_delete"},
             timing'.pc \notin {"status", "reset", "clean_half", "clean_delete"},
             UNCHANGED call \/ PassEnded
      PROVE  HalfInv' /\ CountedInv'
  <2>1. CountsKept /\ BusyKept
    BY <1>2 DEF CountsKept, BusyKept, Busy, Keeps
  <2>2. \A i \in Instances : Uncounted(i)' = Uncounted(i)
    <3>1. CASE PassEnded
      <4>1. \A q \in Callers : /\ call'[q].pc = call[q].pc /\ call'[q].inst = call[q].inst
                               /\ call'[q].seen = call[q].seen /\ call'[q].gen = call[q].gen
        BY <3>1 DEF PassEnded
      <4> QED
        BY <1>2, <4>1, UncountedKept
    <3>2. CASE UNCHANGED call
      BY <1>2, <3>2, UncountedKept
    <3> QED
      BY <1>2, <3>1, <3>2
  <2> QED
    BY <1>2, <2>1, <2>2, QuietEarns
<1>3. CASE TimingStart
  <2>1. timing'.pc = "scan"
    BY <1>3, StartDoes DEF TimingStart, ExecutorAt, Breakers
  <2> QED
    BY <1>2, <1>3, <2>1 DEF TimingStart
<1>4. CASE TimingLook
  <2>1. timing'.pc \in {"scan", "translate"}
    BY <1>4, LookDoes DEF ExecutorAt
  <2> QED
    BY <1>2, <1>4, <2>1, LookDoes
<1>5. CASE CleanExpired
  <2>1. timing'.pc = "clean_open"
    BY <1>5, CleanExpiredDoes DEF ExecutorAt
  <2> QED
    BY <1>2, <1>5, <2>1, CleanExpiredDoes
<1>6. CASE BreakerDone
  <2>1. timing'.pc \in {"scan", "sync"}
    BY <1>6, BreakerDoneDoes DEF ExecutorAt
  <2> QED
    BY <1>2, <1>6, <2>1, BreakerDoneDoes
<1>7. CASE TimingSync
  <2>1. timing'.pc \in {"submit", "idle"}
    BY <1>7, TimingSyncDoes DEF ExecutorAt, PassEnded, IdleTiming
  <2> QED
    BY <1>2, <1>7, <2>1, TimingSyncDoes
<1>8. CASE TimingSubmit
  <2>1. timing'.pc = "idle"
    BY <1>8, TimingSubmitDoes DEF PassEnded, IdleTiming
  <2> QED
    BY <1>2, <1>8, <2>1, TimingSubmitDoes
<1>9. CASE TimingRead
  <2>1. timing'.pc = "push"
    BY <1>9, TimingReadDoes DEF ExecutorAt
  <2> QED
    BY <1>2, <1>9, <2>1, TimingReadDoes
<1> QED
  BY <1>1, <1>3, <1>4, <1>5, <1>6, <1>7, <1>8, <1>9 DEF ExecutorStep

\* Health checks act on the chain when they are made always, and then nothing
\* is half-open.
LEMMA DetectorEarns ==
    ASSUME BaseInv, HalfInv, CountedInv, When # "on_recover", setup' = setup, DetectorStep
    PROVE  HalfInv' /\ CountedInv'
<1> USE DEF chainVars, statVars, regVars
<1>1. CASE DetectProbe
  <2>1. UNCHANGED <<chain, earned, stat, gen, call, timing>>
    BY <1>1, DetectProbeDoes
  <2>2. CountsKept /\ BusyKept
    BY <2>1, StillBusy DEF CountsKept, Keeps
  <2>3. \A i \in Instances : Uncounted(i)' = Uncounted(i)
    BY <2>1, UncountedKept
  <2> QED
    BY <2>1, <2>2, <2>3, QuietEarns
<1>2. CASE DetectTranslate
  <2>1. PICK k, j, x, y : k = detect.k /\ j = detect.inst /\ x = detect.from /\ y = detect.to
    OBVIOUS
  <2>2. /\ Tried(k, j, x, y) /\ UNCHANGED <<stat, gen, call, timing>> /\ y # "half" /\ When # "never"
    BY <1>2, <2>1, DetectTranslateDoes DEF BaseInv, DetectInv
  <2>3. \A i \in Instances : earned'[i] = earned[i]
    BY <2>2 DEF Tried
  <2>4. /\ \A b \in Breakers, i \in Instances : Counted(b, i).st # "half" /\ Counted(b, i)' = Counted(b, i)
        /\ Count \in Breakers /\ Rate \in Breakers
    BY <2>2, Typed DEF HalfInv, HalfAt, Counted, Breakers
  <2>5. ASSUME NEW b \in Breakers, NEW i \in Instances PROVE HalfAt(b, i)'
    <3>1. HalfAt(b, i)
      BY DEF HalfInv
    <3>2. MaxGen' = MaxGen /\ When' = When
      BY DEF MaxGen, When
    <3>3. timing.pc = "status" => timing.to # "half"
      BY <2>2 DEF BaseInv, TimingInv, Deciding
    <3> QED
      BY <2>2, <2>4, <3>1, <3>2, <3>3 DEF HalfAt
  <2>6. CountedInv'
    BY <2>3, <2>4 DEF CountedInv, CountAt, RateAt
  <2> QED
    BY <2>5, <2>6 DEF HalfInv
<1>3. CASE DetectHalfStatus \/ DetectHalfReset
  BY <1>3, DetectHalfDoes
<1> QED
  BY <1>1, <1>2, <1>3 DEF DetectorStep

\* No breaker has a half-open object and nothing has been earned.
NothingHalf ==
    /\ setup \in Setups /\ stat = NoStatuses /\ gen = EachEntry(0) /\ earned = EachInstance(0)
    /\ timing.pc = "idle"

LEMMA NothingEarned == NothingHalf => HalfInv /\ CountedInv
<1> SUFFICES ASSUME NothingHalf PROVE HalfInv /\ CountedInv
  OBVIOUS
<1>1. \A k \in Breakers, i \in Instances, g \in 0 .. MaxGen : stat[k][i][g].st = "close"
  <2> TAKE k \in Breakers, i \in Instances, g \in 0 .. MaxGen
  <2>1. stat[k][i][g] = NewStatus
    BY DEF NothingHalf, NoStatuses
  <2> QED
    BY <2>1 DEF NewStatus
<1>2. \A k \in Breakers, i \in Instances : gen[k][i] = 0 /\ 0 \in 0 .. MaxGen
  BY SetupTyped DEF NothingHalf, EachEntry
<1>3. \A k \in Breakers, i \in Instances : Counted(k, i).st = "close"
  BY <1>1, <1>2 DEF Counted
<1>4. \A i \in Instances : earned[i] <= SuccessAfterHalfOpen
  BY ConstantsAssumption DEF NothingHalf, EachInstance
<1>5. HalfInv
  BY <1>1, <1>3 DEF HalfInv, HalfAt, NothingHalf
<1>6. CountedInv
  BY <1>3, <1>4 DEF CountedInv, CountAt, RateAt, Breakers
<1> QED
  BY <1>5, <1>6

LEMMA EarnedStep ==
    ASSUME BaseInv, EarnedInv, [Next]_vars
    PROVE  EarnedInv'
<1> USE DEF chainVars, statVars, regVars
<1> SUFFICES ASSUME When # "on_recover", setup' = setup PROVE HalfInv' /\ CountedInv'
  BY DEF EarnedInv, When, Next, vars
<1>1. HalfInv /\ CountedInv
  BY DEF EarnedInv
<1>2. ASSUME UNCHANGED <<chain, earned, gen, call, timing>>, CountsKept
      PROVE  HalfInv' /\ CountedInv'
  <2>1. BusyKept
    BY <1>2, StillBusy DEF Keeps
  <2>2. \A i \in Instances : Uncounted(i)' = Uncounted(i)
    BY <1>2, UncountedKept
  <2> QED
    BY <1>1, <1>2, <2>1, <2>2, QuietEarns
<1>3. UNCHANGED stat => CountsKept
  BY DEF CountsKept
<1>4. CASE UNCHANGED vars
  BY <1>2, <1>3, <1>4 DEF vars
<1>5. ASSUME NEW r \in Callers, Report(r) \/ CallerStep(r) PROVE HalfInv' /\ CountedInv'
  BY <1>1, <1>5, CallerQuietEarns, CountSuccessEarns, RateTotalEarns, RateErrEarns DEF CallerStep
<1>6. ASSUME Environment PROVE HalfInv' /\ CountedInv'
  <2>1. CASE Tick \/ \E i \in Instances : WindowSlides(i)
    <3>1. CountsKept
      BY <2>1, TimeDoes DEF CountersKept, CountsKept, Breakers
    <3> QED
      BY <1>2, <2>1, <3>1, TimeDoes
  <2>2. CASE ExpireService \/ LoadService
    BY <1>2, <1>3, <2>2 DEF ExpireService, LoadService
  <2>3. CASE ExpireContext
    <3>1. NothingHalf'
      BY <2>3, TypesNow DEF ExpireContext, AllIdle, NothingHalf, NoStatuses, MaxGen, NewStatus, LongWait
    <3>2. (NothingHalf => HalfInv /\ CountedInv)'
      BY NothingEarned, PTL
    <3> QED
      BY <3>1, <3>2
  <2> QED
    BY <1>6, <2>1, <2>2, <2>3 DEF Environment
<1> QED
  BY <1>1, <1>4, <1>5, <1>6, ExecutorEarns, DetectorEarns DEF Next, Step, BoundReached

\* Only a pass that looks at an instance decides to close it.
LEMMA CloseEarned ==
    ASSUME BaseInv, EarnedInv, [Next]_vars, DecidesToClose, When # "on_recover"
    PROVE  Earned(timing'.inst)
<1> USE DEF chainVars, statVars, regVars
<1>1. timing.pc = "scan" /\ timing'.pc = "translate" /\ timing'.to = "close"
  BY DEF DecidesToClose
<1>2. HalfInv /\ CountedInv
  BY DEF EarnedInv
<1>3. TimingLook
  <2>1. timing' # timing
    BY <1>1
  <2>2. ASSUME NEW r \in Callers, Report(r) \/ CallerStep(r) PROVE timing' = timing
    BY <2>2 DEF CallerStep, Report, CountRead, RateRead, ReadStatus, CountSuccess, CountFailure, CountTrip,
       CountStatus, CountTime, RateTotal, RateErr, CallSync, CallRead, CallSubmit
  <2>3. ASSUME DetectorStep \/ Environment PROVE timing' = timing
    BY <2>3 DEF DetectorStep, DetectProbe, DetectTranslate, DetectHalfStatus, DetectHalfReset,
       Environment, Tick, WindowSlides, ExpireService, ExpireContext, LoadService
  <2>4. ExecutorStep
    BY <2>1, <2>2, <2>3 DEF Next, Step, BoundReached, vars
  <2>5. ~TimingStart /\ ~TimingTranslate /\ ~TimingStatus /\ ~TimingReset
    BY <1>1 DEF TimingStart, TimingTranslate, TimingStatus, TimingReset
  <2>6. ~CleanExpired
    BY <1>1, CleanExpiredDoes DEF ExecutorAt
  <2>7. ~CleanOpen /\ ~CleanHalf /\ ~CleanDelete /\ ~TimingSync /\ ~TimingRead /\ ~TimingSubmit
    BY <1>1 DEF CleanOpen, CleanHalf, CleanDelete, TimingSync, TimingRead, TimingSubmit
  <2>8. ~BreakerDone
    BY <1>1, BreakerDoneDoes DEF ExecutorAt
  <2> QED
    BY <2>4, <2>5, <2>6, <2>7, <2>8 DEF ExecutorStep
<1>4. PICK k \in Breakers : k = timing.k
  BY ExecutorIn
<1>5. PICK j \in Instances :
        /\ Target(k, Counted(k, j)) # Counted(k, j).st /\ Counted(k, j) \in StatusType
        /\ Target(k, Counted(k, j)) = "close" /\ timing'.inst = j
  <2>1. PICK j \in Instances :
          /\ Counted(k, j) \in StatusType
          /\ \/ ExecutorAt("scan", k, timing.todo \ {j}, timing.inst, timing.from, timing.to)
             \/ /\ Target(k, Counted(k, j)) # Counted(k, j).st
                /\ ExecutorAt("translate", k, timing.todo \ {j}, j, Counted(k, j).st, Target(k, Counted(k, j)))
    BY <1>3, <1>4, LookDoes
  <2> QED
    BY <1>1, <2>1 DEF ExecutorAt
<1>6. Counted(k, j).st = "half" /\ Recovered(k, Counted(k, j))
  BY <1>5, TargetIs
<1>7. ~Busy(k, j) /\ earned[j] \in Nat /\ SuccessAfterHalfOpen \in Nat
  BY <1>1, TypesNow, ConstantsAssumption DEF Busy
<1>8. /\ Cardinality(Uncounted(j)) \in Nat /\ Cardinality(CountedAsSuccess(j)) \in Nat
      /\ Cardinality(Uncounted(j)) <= Cardinality(CountedAsSuccess(j))
  BY UncountedFinite
<1>9. Counted(k, j).succ \in Nat /\ Counted(k, j).total \in Nat /\ Counted(k, j).err \in Nat
  BY <1>5 DEF StatusType
<1>10. CASE k = Count
  <2>1. Counted(k, j).succ <= earned[j] /\ Counted(k, j).succ >= SuccessAfterHalfOpen
    BY <1>2, <1>6, <1>7, <1>10 DEF CountedInv, CountAt, Recovered
  <2> QED
    BY <1>5, <1>7, <1>8, <1>9, <2>1 DEF Earned
<1>11. CASE k = Rate
  <2>1. Counted(k, j).total - Counted(k, j).err >= SuccessAfterHalfOpen
    BY <1>6, <1>11 DEF Recovered, Rate, Count
  <2>2. \/ earned[j] = SuccessAfterHalfOpen
        \/ Counted(k, j).total <= Counted(k, j).err + earned[j] + Cardinality(Uncounted(j))
    BY <1>2, <1>6, <1>7, <1>11 DEF CountedInv, RateAt
  <2>3. earned[j] + Cardinality(CountedAsSuccess(j)) >= SuccessAfterHalfOpen
    BY <1>7, <1>8, <1>9, <2>1, <2>2
  <2> QED
    BY <1>5, <2>3 DEF Earned
<1> QED
  BY <1>10, <1>11 DEF Breakers

\* A breaker closes a half-open instance only after enough calls have succeeded
\* since it became half-open (health checks on recovery aside), and no breaker
\* takes an instance over from its owner.
THEOREM RulesAreKept == Spec => RulesKept
<1>1. Init => BaseInv /\ EarnedInv
  <2> SUFFICES ASSUME Init PROVE HalfInv /\ CountedInv
    BY InitBase DEF EarnedInv
  <2>1. NothingHalf
    BY DEF Init, NothingHalf, IdleTiming
  <2> QED
    BY <2>1, NothingEarned
<1>2. BaseInv /\ EarnedInv /\ [Next]_vars => (BaseInv /\ EarnedInv)'
  BY BaseStep, EarnedStep
<1>3. BaseInv /\ EarnedInv /\ [Next]_vars =>
        [DecidesToClose /\ When # "on_recover" => Earned(timing'.inst)]_vars
  BY CloseEarned
<1>4. Spec => CloseIsEarned
  BY <1>1, <1>2, <1>3, PTL DEF Spec, CloseIsEarned
<1> QED
  BY <1>4, OwnersKeepInstances DEF RulesKept
=============================================================================
