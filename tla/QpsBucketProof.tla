--------------------------- MODULE QpsBucketProof ---------------------------
(***************************************************************************)
(* Proofs about QpsBucket.  For every rule and every race, the types and   *)
(* that no bucket is ahead of the clock (QuotaTypeCorrect).  For rules     *)
(* under the hypothesis AllCovered, that a client never grants more than   *)
(* the rule's amount in a period (GrantedWithinLimit), and that neither    *)
(* bucket_stat_ nor quota_need_sync_ loses or invents a token              *)
(* (UsageExact).  All are for any finite set of callers, any periods,      *)
(* amounts, asked quotas, clock, number of lost messages and use by other  *)
(* clients.                                                                *)
(*                                                                         *)
(* AllCovered asks for more than the code ensures: quiet turnovers, no     *)
(* FAILOVER_PASS, and for a GLOBAL rule one period and a server that       *)
(* answers within it.  Without the first, the second or the last the       *)
(* client may exceed the amount: a racing turnover resets a counter others *)
(* already counted in, a pass grants what was refused, a degraded client   *)
(* counts locally what it took remotely.  GLOBAL rules of several periods  *)
(* are left out since a token of the short bucket may be reported and then *)
(* given back, when the long one refuses, and the ledger below does not    *)
(* hold for them.  What is proved under AllCovered are lemmas, therefore.  *)
(*                                                                         *)
(* The inductive invariant QuotaInv has four parts.  TypeInv is types.     *)
(* Shape says who may be where around the start of a period.  Counts ties  *)
(* bucket_stat_ to what was granted and what callers under way have        *)
(* counted.  RemoteOK is the ledger of a GLOBAL rule: tokens left, tokens  *)
(* out, usage waiting, under way and known to the server.  Sums over the   *)
(* callers are cardinalities of sets of units, so that no induction over   *)
(* the callers is needed.                                                  *)
(***************************************************************************)
EXTENDS QpsBucket, FiniteSetTheorems, TLAPS

-----------------------------------------------------------------------------
(* Arithmetic of periods, minima and sums.                                 *)

LEMMA DivType ==
  \A a \in Nat, d \in Nat \ {0} : a \div d \in Nat /\ a \div d <= a
OBVIOUS

LEMMA DivMono ==
  \A a, b \in Nat, d \in Nat \ {0} : a <= b => a \div d <= b \div d
OBVIOUS

LEMMA DivStep ==
  \A a \in Nat, d \in Nat \ {0} : (a + 1) % d # 0 => (a + 1) \div d = a \div d
OBVIOUS

LEMMA DivZero == \A d \in Nat \ {0} : 0 \div d = 0
OBVIOUS

LEMMA MinOf == ASSUME NEW S \in SUBSET Nat, S # {} PROVE Min(S) \in S /\ \A y \in S : Min(S) <= y
<1>0. OpToRel(<, Nat) = {ss \in Nat \X Nat : ss[1] < ss[2]}
  BY Zenon DEF OpToRel
<1>1. PICK m \in S : \A y \in S : ~(<<y, m>> \in {ss \in Nat \X Nat : ss[1] < ss[2]})
  <2> DEFINE R == {ss \in Nat \X Nat : ss[1] < ss[2]}
  <2>1. IsWellFoundedOn(R, Nat)
    BY <1>0, NatLessThanWellFounded, Zenon
  <2> HIDE DEF R
  <2>2. \E m \in S : \A y \in S : ~(<<y, m>> \in R)
    BY <2>1, WFMin, Zenon
  <2> QED BY <2>2, Zenon DEF R
<1>2. ASSUME NEW y \in S PROVE m <= y
  <2>1. <<y, m>> \in Nat \X Nat /\ <<y, m>>[1] = y /\ <<y, m>>[2] = m
    OBVIOUS
  <2>2. ~(y < m)
    BY <1>1, <2>1, Zenon
  <2> QED BY <2>2
<1> QED BY <1>2 DEF Min

(* The sum of f over A, as the size of a set with f[a] units for each a.   *)
Units(A, f) == UNION {{a} \X (1 .. f[a]) : a \in A}
Sum(A, f) == Cardinality(Units(A, f))

(* A column of n units. *)
LEMMA Bar ==
  ASSUME NEW a, NEW n \in Nat
  PROVE  IsFiniteSet({a} \X (1 .. n)) /\ Cardinality({a} \X (1 .. n)) = n
<1> DEFINE I == 1 .. n
<1>1. IsFiniteSet({a}) /\ Cardinality({a}) = 1
  BY FS_Singleton
<1>2. IsFiniteSet(I) /\ Cardinality(I) = n
  BY FS_Interval
<1> HIDE DEF I
<1>3. IsFiniteSet({a} \X I) /\ Cardinality({a} \X I) = Cardinality({a}) * Cardinality(I)
  BY <1>1, <1>2, FS_Product
<1>4. Cardinality({a} \X I) = 1 * n
  BY <1>1, <1>2, <1>3, Zenon
<1>5. 1 * n = n
  OBVIOUS
<1> QED BY <1>3, <1>4, <1>5 DEF I

(* A finite sum of naturals is a natural.                                  *)
LEMMA UnitsFinite ==
  ASSUME NEW A, IsFiniteSet(A), NEW f \in [A -> Nat]
  PROVE  IsFiniteSet(Units(A, f)) /\ Sum(A, f) \in Nat
<1> DEFINE T == {{a} \X (1 .. f[a]) : a \in A}
<1> DEFINE g == [a \in A |-> {a} \X (1 .. f[a])]
<1>1. g \in Surjection(A, T)
  BY DEF Surjection
<1>2. IsFiniteSet(T)
  BY <1>1, FS_Surjection
<1>3. ASSUME NEW a \in A PROVE IsFiniteSet({a} \X (1 .. f[a]))
  BY Bar
<1>4. IsFiniteSet(UNION T)
  BY <1>2, <1>3, FS_UNION
<1> QED BY <1>4, FS_CardinalityType DEF Units, Sum

(* One summand apart. *)
LEMMA SumSplit ==
  ASSUME NEW A, IsFiniteSet(A), NEW f \in [A -> Nat], NEW a \in A
  PROVE  Sum(A, f) = Sum(A \ {a}, [x \in A \ {a} |-> f[x]]) + f[a]
<1> DEFINE h == [x \in A \ {a} |-> f[x]]
           V == {a} \X (1 .. f[a])
<1>1. Units(A, f) = Units(A \ {a}, h) \cup V
  BY DEF Units
<1>2. Units(A \ {a}, h) \cap V = {}
  BY DEF Units
<1>3. IsFiniteSet(V) /\ Cardinality(V) = f[a]
  BY Bar
<1>4. IsFiniteSet(A \ {a}) /\ h \in [A \ {a} -> Nat]
  BY FS_RemoveElement
<1>5. IsFiniteSet(Units(A \ {a}, h)) /\ Sum(A \ {a}, h) \in Nat
  BY <1>4, UnitsFinite
<1> HIDE DEF h, V
<1>6. Cardinality(Units(A, f)) = Cardinality(Units(A \ {a}, h)) + Cardinality(V) - Cardinality({})
  <2> DEFINE W == Units(A \ {a}, h)
  <2>1. Cardinality(W \cup V) = Cardinality(W) + Cardinality(V) - Cardinality(W \cap V)
    BY <1>3, <1>5, FS_Union, Zenon
  <2> QED BY <1>1, <1>2, <2>1, Zenon
<1>7. Cardinality({}) = 0
  BY FS_EmptySet
<1> QED BY <1>3, <1>5, <1>6, <1>7 DEF Sum, h

(* One summand changed: the sum changes by the difference.                 *)
LEMMA SumStep ==
  ASSUME NEW A, IsFiniteSet(A), NEW f \in [A -> Nat], NEW g \in [A -> Nat], NEW a \in A,
         \A x \in A \ {a} : g[x] = f[x]
  PROVE  Sum(A, g) = Sum(A, f) - f[a] + g[a]
<1> DEFINE h == [x \in A \ {a} |-> f[x]]
<1>1. h = [x \in A \ {a} |-> g[x]]
  OBVIOUS
<1>2. Sum(A, f) = Sum(A \ {a}, h) + f[a]
  BY SumSplit
<1>3. Sum(A, g) = Sum(A \ {a}, h) + g[a]
  <2>1. Sum(A, g) = Sum(A \ {a}, [x \in A \ {a} |-> g[x]]) + g[a]
    BY SumSplit
  <2> QED BY <2>1, <1>1
<1>4. Sum(A \ {a}, h) \in Nat
  <2>1. IsFiniteSet(A \ {a}) /\ h \in [A \ {a} -> Nat]
    BY FS_RemoveElement
  <2> HIDE DEF h
  <2> QED BY <2>1, UnitsFinite
<1> HIDE DEF h
<1> QED BY <1>2, <1>3, <1>4

(* A sum of zeros.                                                         *)
LEMMA SumZero ==
  ASSUME NEW A, NEW f \in [A -> Nat], \A x \in A : f[x] = 0
  PROVE  Sum(A, f) = 0
<1>1. Units(A, f) = {}
  BY DEF Units
<1> QED BY <1>1, FS_EmptySet DEF Sum

(* Larger summands, larger sum.                                            *)
LEMMA SumMono ==
  ASSUME NEW A, IsFiniteSet(A), NEW f \in [A -> Nat], NEW g \in [A -> Nat],
         \A x \in A : f[x] <= g[x]
  PROVE  Sum(A, f) <= Sum(A, g)
<1>1. Units(A, f) \subseteq Units(A, g)
  BY DEF Units
<1> QED BY <1>1, UnitsFinite, FS_Subset DEF Sum

-----------------------------------------------------------------------------
(* The rules the theorems are about: a call alone starts a period, the     *)
(* failover is local, a GLOBAL rule has one period and a prompt server.    *)
Covered(s) ==
  /\ s.quiet /\ ~s.pass
  /\ s.global => ~s.degrade /\ \E d : DOMAIN s.amount = {d}

AllCovered == \A s \in Setups : Covered(s)

(* Types: where callers and the sync task stand, and what they carry.      *)
CallPcs == TurnoverSteps \union
  {"idle", "mode", "load", "cas", "count", "take", "note", "return", "give"}
RxPcs == RefreshSteps \union {"init", "wait", "ready", "check", "collect"}
Messages == [kind : {"none", "init", "report", "inited", "reported"},
             time : Nat, amount : [Durations -> Int]]
CallType == [pc : CallPcs, time : Nat, n : Nat, d : Durations, seen : Nat,
             remote : BOOLEAN, fail : Durations]
RxType == [pc : RxPcs, time : Nat, used : [Durations -> Nat], answer : Messages,
           d : Durations, seen : Nat, last : Int, left : Int, total : Int]
BucketType == [time : Periods, stat : Int, total : Int, left : Int, sync : Nat]
TypeInv ==
  /\ setup \in Setups
  /\ now \in Nat /\ now <= MaxTime /\ lastSync \in Nat /\ lost \in Nat
  /\ bkt \in [Durations -> BucketType]
  /\ call \in [Callers -> CallType] /\ rx \in RxType /\ net \in Messages
  /\ srv \in [Durations -> [Periods -> Nat]]
  /\ granted \in [Durations -> [Periods -> Nat]]
  /\ net.kind \in {"init", "report"} =>
       net.amount \in [Durations -> Nat] /\ net.time <= now

(* Times: neither a caller, the sync task nor a bucket is ahead of the     *)
(* clock, and tokens go back no farther than the bucket that refused.      *)
CallTimely(k) ==
  k.pc # "idle" => /\ k.time <= now
                   /\ k.pc \in {"return", "give"} => k.d <= k.fail
NoneAhead == \A e \in Durations : bkt[e].time <= now \div e
Timely ==
  /\ rx.time <= now /\ lastSync <= now /\ NoneAhead
  /\ \A c \in Callers : CallTimely(call[c])

(* A caller under way belongs to the current period; the buckets it has    *)
(* passed, and the one it works on, have been turned over to it.           *)
Forward == TurnoverSteps \union {"mode", "load", "cas", "count"}
CallOK(k) ==
  k.pc # "idle" =>
  /\ k.time <= now
  /\ \A e \in Durations : k.time \div e = now \div e
  /\ k.pc # "mode" => k.remote = Global
  /\ k.pc \in {"take", "note", "give"} => Global
  /\ k.pc = "mode" => k.d = First
  /\ k.pc \in Forward \union {"take", "note"} =>
       \A e \in Durations : e < k.d => bkt[e].time = now \div e
  /\ k.pc \in TurnoverSteps \union {"count", "take", "note"} =>
       bkt[k.d].time = now \div k.d
  /\ k.pc \in {"return", "give"} =>
       k.d <= k.fail /\ \A e \in Durations : e <= k.fail => bkt[e].time = now \div e
  /\ k.pc = "cas" => k.seen = bkt[k.d].time /\ k.seen # now \div k.d
  /\ k.pc \in TurnoverSteps => granted[k.d][bkt[k.d].time] = 0

(* The sync task: the last answer is younger than a period, a message is   *)
(* under way exactly while it waits, and a refresh is of this period.      *)
SyncOK ==
  /\ rx.time <= now /\ lastSync <= now
  /\ Global => now < lastSync + First
  /\ rx.pc # "init" => Global
  /\ net.kind = "none" <=> rx.pc # "wait"
  /\ Syncing => \A e \in Durations : rx.time \div e = now \div e
  /\ rx.pc \in RefreshSteps => lastSync <= rx.time
  /\ rx.pc = "cas" => rx.seen = bkt[rx.d].time /\ rx.seen # now \div rx.d
  /\ rx.pc \in {"clear", "sync", "read", "store", "look", "set"} =>
       bkt[rx.d].time = now \div rx.d
  /\ rx.pc \in {"clear", "sync"} => granted[rx.d][bkt[rx.d].time] = 0

(* While a bucket is of an old period or being reset, at most one caller   *)
(* is inside, and the sync task is not.                                    *)
Alone ==
  TurningOver \/ PeriodStarts(now) =>
    /\ \A c1, c2 \in Allocating : c1 = c2
    /\ Allocating # {} => ~Syncing

(* No bucket is ahead of the clock, nothing is granted in the future.      *)
BucketOK ==
  \A e \in Durations :
    /\ bkt[e].time <= now \div e
    /\ \A p \in Periods : p > bkt[e].time => granted[e][p] = 0

Shape == SyncOK /\ Alone /\ BucketOK /\ \A c \in Callers : CallOK(call[c])

(* What a caller k under way has done in bucket d: added its quota to      *)
(* bucket_stat_ (Counted), and found it within the limit (Passed); and     *)
(* whether it holds a remote token (Held).                                 *)
Counted(k, d) ==
  \/ k.pc \in Forward /\ d < k.d
  \/ k.pc \in {"take", "note"} /\ d <= k.d
  \/ k.pc = "return" /\ k.d <= d /\ d <= k.fail
  \/ k.pc = "give" /\ k.d < d /\ d <= k.fail
Passed(k, d) ==
  \/ k.pc \in Forward \union {"take"} /\ d < k.d
  \/ k.pc = "note" /\ d <= k.d
Held(k) == k.pc \in {"note", "return", "give"}
CountedBy(k, d) == IF Counted(k, d) THEN k.n ELSE 0
PassedBy(k, d) == IF Passed(k, d) THEN k.n ELSE 0
HeldBy(k) == IF Held(k) THEN k.n ELSE 0
CountedIn(d) == Sum(Callers, [c \in Callers |-> CountedBy(call[c], d)])
PassedIn(d) == Sum(Callers, [c \in Callers |-> PassedBy(call[c], d)])
HeldTokens == Sum(Callers, [c \in Callers |-> HeldBy(call[c])])
(* The first reset of a turnover is still to come.                         *)
Clearing(d) ==
  \/ rx.pc = "clear" /\ rx.d = d
  \/ \E c \in Callers : call[c].pc = "clear" /\ call[c].d = d
(* bucket_stat_ is what was granted and what is counted by callers under   *)
(* way; grants and passed requests together stay within the amount.        *)
StatOK(d) == ~Clearing(d) => bkt[d].stat = granted[d][bkt[d].time] + CountedIn(d)
LimitOK(d) ==
  /\ granted[d][bkt[d].time] + PassedIn(d) <= MaxAmount[d]
  /\ \A p \in Periods : granted[d][p] <= MaxAmount[d]
Counts == \A d \in Durations : StatOK(d) /\ LimitOK(d)

(* The single period of a GLOBAL rule.                                     *)
Period == bkt[First].time
Turning == \E c \in Callers : call[c].pc \in TurnoverSteps
Refilling == \E c \in Callers : call[c].pc \in {"clear", "total"}
Refilled == \E c \in Callers : call[c].pc \in {"left", "sync"}
Answered == net.kind \in {"inited", "reported"}
Reporting == net.kind \in {"report", "reported"}
(* remote_token_total_ as RefreshToken still has to see it: once it has    *)
(* read the total and until it stores the tokens left, what it read.       *)
Total == IF rx.pc \in {"store", "look", "set"} THEN rx.last ELSE bkt[First].total
(* Tokens of this period in use: granted, or held by a caller under way.   *)
TokensOut == granted[First][Period] + HeldTokens
(* Messages: a request carries the usage the task remembers, an answer     *)
(* leaves at least the amount when added to what the server counted.       *)
MessageOK ==
  /\ net.kind \in {"init", "report"} => net.time = rx.time
  /\ net.kind = "report" => net.amount[First] = rx.used[First]
  /\ net.kind = "init" => net.amount[First] = 0
  /\ Answered => /\ net.time <= now /\ net.time >= rx.time
                 /\ net.amount[First] <= MaxAmount[First]
                 /\ net.amount[First] + srv[First][net.time \div First] >= MaxAmount[First]
(* The usage being reported is of the bucket's period or an earlier one.   *)
UsedOK ==
  /\ rx.pc \in {"check", "collect"} => rx.used[First] = 0
  /\ rx.pc = "collect" => rx.time \div First = Period
  /\ Reporting /\ rx.used[First] # 0 => rx.time \div First <= Period
  /\ Turning /\ Reporting /\ rx.used[First] # 0 => rx.time \div First < Period
  /\ rx.pc \in RefreshSteps /\ rx.used[First] # 0 => rx.time \div First = Period
(* The tokens left and the tokens in use are within the amount.            *)
LeftOK == bkt[First].left + TokensOut <= MaxAmount[First]
(* What the total exceeds the tokens left by covers the tokens held, the   *)
(* usage waiting in quota_need_sync_ and the usage being reported.         *)
Pending ==
  IF (rx.pc \in RefreshSteps \/ Reporting) /\ rx.time \div First = Period
  THEN rx.used[First] ELSE 0
SpentOK == ~Turning => Total - bkt[First].left >= HeldTokens + bkt[First].sync + Pending
(* Outside a refresh the total and the server's count cover the amount;    *)
(* when an answer is on its way, the total covers what the answer leaves   *)
(* and the usage it acknowledges.                                          *)
Credit == IF net.kind = "reported" /\ rx.time \div First = Period THEN rx.used[First] ELSE 0
TotalOK ==
  rx.pc \notin RefreshSteps /\ ~Refilling =>
    /\ ~Answered \/ net.time \div First > Period =>
         bkt[First].total + srv[First][Period] >= MaxAmount[First]
    /\ Answered /\ net.time \div First = Period =>
         bkt[First].total >= net.amount[First] + Credit
    /\ Answered /\ net.time \div First < Period => bkt[First].total >= MaxAmount[First]
(* A reset total is the full amount.                                       *)
RefillOK == Refilled => bkt[First].total >= MaxAmount[First]
(* During a refresh: the new total is what the answer left, and either the *)
(* old total covers it and the reported usage, or what was taken from the  *)
(* old total covers the tokens in use, so that the CAS on the tokens left  *)
(* keeps LeftOK.                                                           *)
Decided ==
  \/ Total >= RemoteLeft + rx.used[First]
  \/ Total - bkt[First].left - rx.used[First] >= TokensOut
RefreshOK ==
  rx.pc \in RefreshSteps =>
    /\ RemoteLeft <= MaxAmount[First]
    /\ RemoteLeft + srv[First][RefreshPeriod] >= MaxAmount[First]
    /\ rx.pc \in {"look", "set"} => bkt[First].total = RemoteLeft
    /\ rx.pc = "set" => rx.total = RemoteLeft
    /\ (rx.pc \in {"read", "store", "look", "set"}
        \/ (rx.pc = "load" /\ Period = RefreshPeriod)) => Decided
(* Nothing granted is forgotten: unless a message was lost, the server     *)
(* knows it, a report carries it, or it waits in quota_need_sync_.         *)
InReport ==
  IF net.kind = "report" /\ net.time \div First = Period THEN net.amount[First] ELSE 0
Accounted ==
  lost = 0 => granted[First][Period] <= srv[First][Period] + bkt[First].sync + InReport
RemoteOK ==
  /\ MessageOK /\ UsedOK /\ LeftOK /\ SpentOK
  /\ TotalOK /\ RefillOK /\ RefreshOK /\ Accounted

LEMMA SetupFacts ==
  ASSUME TypeInv
  PROVE  /\ Durations \subseteq Nat \ {0} /\ First \in Durations
         /\ \A d \in Durations : First <= d /\ MaxAmount[d] \in Nat
         /\ MaxTime \in Nat /\ setup.asked \subseteq Nat
         /\ Global \in BOOLEAN /\ QuietTurnover \in BOOLEAN
         /\ setup.degrade \in BOOLEAN /\ setup.pass \in BOOLEAN
<1>1. /\ Durations \subseteq Nat \ {0} /\ Durations # {}
      /\ \A d \in Durations : MaxAmount[d] \in Nat
      /\ setup.asked \subseteq Nat
  BY ConstantsAssumption DEF TypeInv, Durations, MaxAmount
<1>2. /\ MaxTime \in Nat /\ Global \in BOOLEAN /\ QuietTurnover \in BOOLEAN
      /\ setup.degrade \in BOOLEAN /\ setup.pass \in BOOLEAN
  BY ConstantsAssumption DEF TypeInv, MaxTime, Global, QuietTurnover, Flags, Bounds
<1>3. First \in Durations /\ \A d \in Durations : First <= d
  <2>1. Durations \in SUBSET Nat /\ Durations # {}
    BY <1>1
  <2> QED BY <2>1, MinOf DEF First
<1> QED BY <1>1, <1>2, <1>3

LEMMA LaterFacts ==
  ASSUME TypeInv, NEW d \in Durations
  PROVE  /\ Later(d) = {} => \A e \in Durations : e <= d
         /\ Later(d) # {} =>
              /\ Min(Later(d)) \in Durations /\ d < Min(Later(d))
              /\ \A e \in Durations : e < Min(Later(d)) => e <= d
<1>1. Durations \subseteq Nat \ {0}
  BY SetupFacts
<1>2. Later(d) \in SUBSET Nat
  BY <1>1 DEF Later
<1>3. CASE Later(d) = {}
  <2>1. ASSUME NEW e \in Durations PROVE e <= d
    BY <1>1, <1>3 DEF Later
  <2> QED BY <1>3, <2>1
<1>4. CASE Later(d) # {}
  <2>1. Min(Later(d)) \in Later(d) /\ \A y \in Later(d) : Min(Later(d)) <= y
    BY <1>2, <1>4, MinOf
  <2> DEFINE m == Min(Later(d))
  <2>2. m \in Later(d) /\ \A y \in Later(d) : m <= y
    BY <2>1
  <2> HIDE DEF m
  <2>3. m \in Durations /\ d < m
    BY <2>2 DEF Later
  <2>4. ASSUME NEW e \in Durations, e < m PROVE e <= d
    <3>1. e \notin Later(d)
      BY <1>1, <2>2, <2>3, <2>4
    <3> QED BY <1>1, <3>1 DEF Later
  <2> QED BY <1>4, <2>3, <2>4 DEF m
<1> QED BY <1>3, <1>4

LEMMA CoveredFacts ==
  ASSUME TypeInv, AllCovered
  PROVE  /\ QuietTurnover /\ ~setup.pass
         /\ Global => ~setup.degrade /\ Durations = {First} /\ Later(First) = {}
<1>1. Covered(setup)
  BY DEF AllCovered, TypeInv
<1>2. Global => Durations = {First}
  BY <1>1, SetupFacts DEF Covered, Global, Durations, MaxAmount
<1> QED BY <1>1, <1>2, SetupFacts DEF Covered, QuietTurnover, Global, Later

(* What the constant setup fixes. *)
LEMMA SetupStable ==
  ASSUME UNCHANGED setup
  PROVE  /\ Durations' = Durations /\ MaxAmount' = MaxAmount /\ First' = First
         /\ MaxTime' = MaxTime /\ Periods' = Periods /\ Global' = Global
         /\ QuietTurnover' = QuietTurnover /\ Messages' = Messages
         /\ CallType' = CallType /\ RxType' = RxType /\ BucketType' = BucketType
         /\ NoUse' = NoUse
<1>1. MaxAmount' = MaxAmount /\ MaxTime' = MaxTime
  BY DEF MaxAmount, MaxTime
<1>2. Durations' = Durations /\ Periods' = Periods
  BY <1>1 DEF Durations, Periods
<1>3. First' = First /\ Messages' = Messages /\ NoUse' = NoUse
  BY <1>2 DEF First, Messages, NoUse
<1> QED BY <1>1, <1>2, <1>3 DEF Global, QuietTurnover, CallType, RxType, BucketType

-----------------------------------------------------------------------------
(* Types.                                                                  *)

LEMMA PeriodsFacts ==
  ASSUME TypeInv, NEW t \in Nat, t <= now, NEW d \in Durations
  PROVE  t \div d \in Periods /\ t \div d <= now \div d /\ now \div d \in Nat
<1>1. d \in Nat \ {0} /\ MaxTime \in Nat
  BY SetupFacts
<1>2. t \div d \in Nat /\ t \div d <= t /\ t \div d <= now \div d
  BY <1>1, DivType, DivMono DEF TypeInv
<1>3. now \div d \in Nat
  BY <1>1, DivType DEF TypeInv
<1> QED BY <1>1, <1>2, <1>3 DEF Periods, TypeInv

LEMMA TypeInit == ASSUME Init PROVE TypeInv
<1>1. setup \in Setups
  BY DEF Init
<1>2. /\ Durations \subseteq Nat \ {0} /\ Durations # {} /\ MaxTime \in Nat
      /\ \A d \in Durations : MaxAmount[d] \in Nat
  BY <1>1, ConstantsAssumption DEF Durations, MaxAmount, MaxTime, Bounds
<1>3. First \in Durations
  <2>1. Durations \in SUBSET Nat /\ Durations # {}
    BY <1>2
  <2> QED BY <2>1, MinOf DEF First
<1>4. 0 \in Periods
  BY <1>2 DEF Periods
<1>5. bkt \in [Durations -> BucketType]
  BY <1>2, <1>4 DEF Init, BucketType
<1>6. call \in [Callers -> CallType]
  BY <1>3 DEF Init, Idle, CallType, CallPcs
<1>7. NoUse \in [Durations -> Nat] /\ NoMessage \in Messages /\ net = NoMessage
  BY DEF NoUse, NoMessage, Messages, Init
<1>8. rx \in RxType
  BY <1>3, <1>7 DEF Init, Reactor, RxType, RxPcs
<1>9. /\ srv \in [Durations -> [Periods -> Nat]]
      /\ granted \in [Durations -> [Periods -> Nat]]
  BY DEF Init
<1>10. net.kind \notin {"init", "report"}
  BY <1>7 DEF NoMessage
<1> QED BY <1>1, <1>2, <1>5, <1>6, <1>7, <1>8, <1>9, <1>10 DEF TypeInv, Init

(* What the callers' steps do to the shared counters and to the record of  *)
(* the caller.                                                             *)
LEMMA SomePcs ==
  {"idle", "mode", "load", "cas", "clear", "total", "left", "sync", "count",
   "take", "note", "return", "give"} \subseteq CallPcs
BY DEF CallPcs, TurnoverSteps

(* One field of a bucket or of a caller's record gets a new value.         *)
LEMMA BucketSet ==
  ASSUME bkt \in [Durations -> BucketType], NEW d \in Durations
  PROVE  /\ \A p \in Periods : [bkt EXCEPT ![d].time = p] \in [Durations -> BucketType]
         /\ \A i \in Int : [bkt EXCEPT ![d].stat = i] \in [Durations -> BucketType]
         /\ \A i \in Int : [bkt EXCEPT ![d].total = i] \in [Durations -> BucketType]
         /\ \A i \in Int : [bkt EXCEPT ![d].left = i] \in [Durations -> BucketType]
         /\ \A i \in Nat : [bkt EXCEPT ![d].sync = i] \in [Durations -> BucketType]
<1>1. bkt[d] \in BucketType
  OBVIOUS
<1>2. /\ \A p \in Periods : [bkt[d] EXCEPT !.time = p] \in BucketType
      /\ \A i \in Int : [bkt[d] EXCEPT !.stat = i] \in BucketType
      /\ \A i \in Int : [bkt[d] EXCEPT !.total = i] \in BucketType
      /\ \A i \in Int : [bkt[d] EXCEPT !.left = i] \in BucketType
      /\ \A i \in Nat : [bkt[d] EXCEPT !.sync = i] \in BucketType
  BY <1>1 DEF BucketType
<1>3. ASSUME NEW b \in BucketType PROVE [bkt EXCEPT ![d] = b] \in [Durations -> BucketType]
  OBVIOUS
<1> QED BY <1>2, <1>3, Zenon

LEMMA CallIs ==
  ASSUME NEW c \in Callers, call \in [Callers -> CallType], NEW x, NEW d
  PROVE  /\ [call EXCEPT ![c].pc = x, ![c].d = d]
              = [call EXCEPT ![c] = [call[c] EXCEPT !.pc = x, !.d = d]]
         /\ \A e : [call EXCEPT ![c].pc = x, ![c].d = d, ![c].fail = e]
                     = [call EXCEPT ![c] = [call[c] EXCEPT !.pc = x, !.d = d, !.fail = e]]
<1>1. call[c] \in CallType
  OBVIOUS
<1> QED BY <1>1 DEF CallType

LEMMA CallSet ==
  ASSUME NEW c \in Callers, call \in [Callers -> CallType]
  PROVE  /\ \A x \in CallPcs : [call EXCEPT ![c].pc = x] \in [Callers -> CallType]
         /\ \A x \in CallPcs, d \in Durations :
              [call EXCEPT ![c].pc = x, ![c].d = d] \in [Callers -> CallType]
         /\ \A x \in CallPcs, d, e \in Durations :
              [call EXCEPT ![c].pc = x, ![c].d = d, ![c].fail = e] \in [Callers -> CallType]
         /\ \A x \in CallPcs, b \in BOOLEAN :
              [call EXCEPT ![c].pc = x, ![c].remote = b] \in [Callers -> CallType]
         /\ \A x \in CallPcs, n \in Nat :
              [call EXCEPT ![c].seen = n, ![c].pc = x] \in [Callers -> CallType]
<1> DEFINE k == call[c]
<1>0. call[c] \in CallType
  OBVIOUS
<1>1. k \in CallType
  BY <1>0
<1> SUFFICES ASSUME NEW x \in CallPcs, NEW d \in Durations, NEW e \in Durations,
                    NEW b \in BOOLEAN, NEW n \in Nat
             PROVE  /\ [call EXCEPT ![c].pc = x] \in [Callers -> CallType]
                    /\ [call EXCEPT ![c].pc = x, ![c].d = d] \in [Callers -> CallType]
                    /\ [call EXCEPT ![c].pc = x, ![c].d = d, ![c].fail = e] \in [Callers -> CallType]
                    /\ [call EXCEPT ![c].pc = x, ![c].remote = b] \in [Callers -> CallType]
                    /\ [call EXCEPT ![c].seen = n, ![c].pc = x] \in [Callers -> CallType]
  <2>1. k.d \in Durations /\ TRUE \in BOOLEAN /\ 0 \in Nat
    BY <1>1 DEF CallType
  <2> QED BY <2>1, Zenon
<1>2. /\ [k EXCEPT !.pc = x] \in CallType
      /\ [k EXCEPT !.pc = x, !.d = d] \in CallType
      /\ [k EXCEPT !.pc = x, !.d = d, !.fail = e] \in CallType
      /\ [k EXCEPT !.pc = x, !.remote = b] \in CallType
      /\ [k EXCEPT !.seen = n, !.pc = x] \in CallType
  <2> HIDE DEF k
  <2> QED BY <1>1 DEF CallType
<1>3. ASSUME NEW j \in CallType PROVE [call EXCEPT ![c] = j] \in [Callers -> CallType]
  OBVIOUS
<1>4. /\ [call EXCEPT ![c].pc = x] = [call EXCEPT ![c] = [k EXCEPT !.pc = x]]
      /\ [call EXCEPT ![c].pc = x, ![c].d = d] = [call EXCEPT ![c] = [k EXCEPT !.pc = x, !.d = d]]
      /\ [call EXCEPT ![c].pc = x, ![c].d = d, ![c].fail = e]
           = [call EXCEPT ![c] = [k EXCEPT !.pc = x, !.d = d, !.fail = e]]
      /\ [call EXCEPT ![c].pc = x, ![c].remote = b]
           = [call EXCEPT ![c] = [k EXCEPT !.pc = x, !.remote = b]]
      /\ [call EXCEPT ![c].seen = n, ![c].pc = x]
           = [call EXCEPT ![c] = [k EXCEPT !.seen = n, !.pc = x]]
  BY <1>0 DEF CallType
<1> HIDE DEF k
<1> QED BY <1>2, <1>3, <1>4, Zenon

LEMMA GrantType ==
  ASSUME TypeInv, NEW c \in Callers, call[c].time <= now, Grant(c)
  PROVE  granted' \in [Durations -> [Periods -> Nat]]
<1>1. ASSUME NEW d \in Durations
      PROVE  [granted[d] EXCEPT ![call[c].time \div d] = @ + call[c].n] \in [Periods -> Nat]
  <2> DEFINE p == call[c].time \div d
  <2>1. granted[d] \in [Periods -> Nat] /\ call[c].n \in Nat /\ call[c].time \in Nat
    BY DEF TypeInv, CallType
  <2>2. p \in Periods
    BY <2>1, PeriodsFacts
  <2> HIDE DEF p
  <2>3. [granted[d] EXCEPT ![p] = @ + call[c].n] \in [Periods -> Nat]
    BY <2>1, <2>2
  <2> QED BY <2>3 DEF p
<1> QED BY <1>1 DEF Grant

LEMMA TakenType ==
  ASSUME TypeInv, NEW c \in Callers, call[c].time <= now, Taken(c)
  PROVE  /\ call' \in [Callers -> CallType]
         /\ granted' \in [Durations -> [Periods -> Nat]]
<1>1. CASE Later(call[c].d) = {}
  <2>1. call' = [call EXCEPT ![c] = Idle] /\ Grant(c)
    BY <1>1 DEF Taken
  <2>2. Idle \in CallType
    BY SetupFacts DEF Idle, CallType, CallPcs
  <2> QED BY <2>1, <2>2, GrantType DEF TypeInv
<1>2. CASE Later(call[c].d) # {}
  <2>1. /\ call' = [call EXCEPT ![c].pc = "load", ![c].d = Min(Later(call[c].d))]
        /\ UNCHANGED granted
    BY <1>2 DEF Taken
  <2>2. Min(Later(call[c].d)) \in Durations
    BY <1>2, LaterFacts DEF TypeInv, CallType
  <2>3. "load" \in CallPcs
    BY SomePcs
  <2>4. call' \in [Callers -> CallType]
    BY <2>1, <2>2, <2>3, CallSet DEF TypeInv
  <2> QED BY <2>1, <2>4 DEF TypeInv
<1> QED BY <1>1, <1>2

LEMMA ReturnedType ==
  ASSUME TypeInv, NEW c \in Callers, call[c].time <= now, Returned(c),
         call[c].d <= call[c].fail
  PROVE  /\ call' \in [Callers -> CallType]
         /\ granted' \in [Durations -> [Periods -> Nat]]
<1>0. /\ call[c].d \in Durations /\ call[c].fail \in Durations
      /\ call[c].d \in Nat /\ call[c].fail \in Nat
  <2>1. call[c].d \in Durations /\ call[c].fail \in Durations
    BY DEF TypeInv, CallType
  <2> QED BY <2>1, SetupFacts
<1>1. CASE call[c].d # call[c].fail
  <2>1. /\ call' = [call EXCEPT ![c].pc = "return", ![c].d = Min(Later(call[c].d))]
        /\ UNCHANGED granted
    BY <1>1 DEF Returned
  <2>2. Later(call[c].d) # {}
    <3>1. call[c].fail > call[c].d
      BY <1>0, <1>1
    <3>2. call[c].fail \in Later(call[c].d)
      BY <1>0, <3>1 DEF Later
    <3> QED BY <3>2
  <2>3. Min(Later(call[c].d)) \in Durations
    BY <1>0, <2>2, LaterFacts
  <2>4. "return" \in CallPcs
    BY SomePcs
  <2>5. call' \in [Callers -> CallType]
    BY <2>1, <2>3, <2>4, CallSet DEF TypeInv
  <2> QED BY <2>1, <2>5 DEF TypeInv
<1>2. CASE call[c].d = call[c].fail
  <2>1. /\ call' = [call EXCEPT ![c] = Idle]
        /\ Grant(c) \/ UNCHANGED granted
    BY <1>2 DEF Returned
  <2>2. Idle \in CallType
    BY SetupFacts DEF Idle, CallType, CallPcs
  <2> QED BY <2>1, <2>2, GrantType DEF TypeInv
<1> QED BY <1>1, <1>2

LEMMA GotoType ==
  ASSUME TypeInv, NEW c \in Callers, NEW pc \in CallPcs, Goto(c, pc)
  PROVE  call' \in [Callers -> CallType]
BY DEF Goto, TypeInv, CallType

LEMMA ViolatedType ==
  ASSUME TypeInv, NEW c \in Callers, Violated(c)
  PROVE  call' \in [Callers -> CallType] /\ granted' = granted
<1>1. "return" \in CallPcs /\ First \in Durations
  BY SomePcs, SetupFacts
<1>2. call[c].d \in Durations /\ call \in [Callers -> CallType]
  BY DEF TypeInv, CallType
<1> QED BY <1>1, <1>2, CallSet DEF Violated

LEMMA CallerTypes ==
  ASSUME TypeInv, NEW c \in Callers, CallTimely(call[c]), GetQuota(c)
  PROVE  /\ call' \in [Callers -> CallType]
         /\ bkt' \in [Durations -> BucketType]
         /\ granted' \in [Durations -> [Periods -> Nat]]
<1> DEFINE k == call[c]
<1>1. k \in CallType /\ k.d \in Durations /\ k.n \in Nat /\ k.time \in Nat
  BY DEF TypeInv, CallType
<1>2. /\ bkt \in [Durations -> BucketType] /\ call \in [Callers -> CallType]
      /\ granted \in [Durations -> [Periods -> Nat]] /\ now \in Nat
  BY DEF TypeInv
<1>3. k.pc # "idle" => k.time <= now
  BY DEF CallTimely
<1>4. MaxAmount[k.d] \in Nat
  BY <1>1, SetupFacts
<1> HIDE DEF k
<1>5. CASE Allocate(c)
  <2>1. PICK n \in setup.asked :
          call' = [call EXCEPT ![c] = [Idle EXCEPT !.pc = "mode", !.time = now, !.n = n]]
    BY <1>5 DEF Allocate
  <2>2. n \in Nat /\ First \in Durations
    BY SetupFacts
  <2>3. [Idle EXCEPT !.pc = "mode", !.time = now, !.n = n] \in CallType
    BY <1>2, <2>2 DEF Idle, CallType, CallPcs
  <2> QED BY <1>2, <1>5, <2>1, <2>3 DEF Allocate
<1>6. CASE UseRemoteQuota(c)
  <2>1. (Global /\ call[c].time < lastSync + First) \in BOOLEAN
    BY SetupFacts
  <2>2. PICK b \in BOOLEAN : call' = [call EXCEPT ![c].pc = "load", ![c].remote = b]
    BY <1>6, <2>1, Zenon DEF UseRemoteQuota
  <2>3. call' \in [Callers -> CallType]
    <3>1. "load" \in CallPcs
      BY SomePcs
    <3> QED BY <1>2, <2>2, <3>1, CallSet
  <2> QED BY <1>2, <1>6, <2>3 DEF UseRemoteQuota
<1>7. CASE LoadBucketTime(c)
  <2>1. bkt[k.d].time \in Nat
    BY <1>1, <1>2 DEF BucketType, Periods
  <2>2. "count" \in CallPcs /\ "cas" \in CallPcs
    BY SomePcs
  <2>3. PICK x \in CallPcs :
          call' = [call EXCEPT ![c].seen = bkt[k.d].time, ![c].pc = x]
    BY <1>7, <2>2, Zenon DEF LoadBucketTime, k
  <2>4. call' \in [Callers -> CallType]
    BY <1>2, <2>1, <2>3, CallSet
  <2> QED BY <1>2, <1>7, <2>4 DEF LoadBucketTime
<1>8. CASE SwapBucketTime(c)
  <2>1. Expect(c) \in Periods
    BY <1>1, <1>3, <1>8, PeriodsFacts DEF Expect, SwapBucketTime, At, k
  <2>2. granted' = granted
    BY <1>8 DEF SwapBucketTime
  <2>3. CASE bkt[call[c].d].time = call[c].seen
    <3>1. bkt' = [bkt EXCEPT ![k.d].time = Expect(c)] /\ Goto(c, "clear")
      BY <1>8, <2>3 DEF SwapBucketTime, k
    <3>2. bkt' \in [Durations -> BucketType]
      BY <1>1, <1>2, <2>1, <3>1, BucketSet
    <3> QED BY <2>2, <3>1, <3>2, GotoType, SomePcs DEF TypeInv
  <2>4. CASE bkt[call[c].d].time # call[c].seen
    BY <1>2, <1>8, <2>2, <2>4, GotoType DEF SwapBucketTime, CallPcs
  <2> QED BY <2>3, <2>4
<1>9. CASE ResetStat(c)
  <2>1. bkt' = [bkt EXCEPT ![k.d].stat = 0]
    BY <1>9 DEF ResetStat, k
  <2>2. bkt' \in [Durations -> BucketType]
    BY <1>1, <1>2, <2>1, BucketSet, 0 \in Int
  <2> QED BY <1>2, <1>9, <2>2, GotoType, SomePcs DEF ResetStat
<1>10. CASE ResetRemoteTotal(c)
  <2>1. bkt' = [bkt EXCEPT ![k.d].total = MaxAmount[k.d]]
    BY <1>10 DEF ResetRemoteTotal, k
  <2>2. bkt' \in [Durations -> BucketType]
    BY <1>1, <1>2, <1>4, <2>1 DEF BucketType
  <2> QED BY <1>2, <1>10, <2>2, GotoType, SomePcs DEF ResetRemoteTotal
<1>11. CASE ResetRemoteLeft(c)
  <2>1. bkt' = [bkt EXCEPT ![k.d].left = MaxAmount[k.d]]
    BY <1>11 DEF ResetRemoteLeft, k
  <2>2. bkt' \in [Durations -> BucketType]
    BY <1>1, <1>2, <1>4, <2>1 DEF BucketType
  <2> QED BY <1>2, <1>11, <2>2, GotoType, SomePcs DEF ResetRemoteLeft
<1>12. CASE ResetNeedSync(c)
  <2>1. bkt' \in [Durations -> BucketType]
    BY <1>2, <1>12 DEF ResetNeedSync, BucketType
  <2> QED BY <1>2, <1>12, <2>1, GotoType, SomePcs DEF ResetNeedSync
<1>13. CASE CountRequest(c)
  <2>1. bkt' = [bkt EXCEPT ![k.d].stat = bkt[k.d].stat + k.n]
    BY <1>13 DEF CountRequest, k
  <2>2. bkt' \in [Durations -> BucketType]
    <3>1. bkt[k.d].stat \in Int
      BY <1>1, <1>2 DEF BucketType
    <3>2. (bkt[k.d].stat + k.n) \in Int
      BY <1>1, <3>1
    <3> QED BY <1>1, <1>2, <2>1, <3>2, BucketSet
  <2>3. k.time <= now
    BY <1>3, <1>13 DEF CountRequest, At, k
  <2>4. \/ Goto(c, "take") /\ UNCHANGED granted
        \/ Violated(c) \/ Taken(c)
    BY <1>13 DEF CountRequest
  <2> QED BY <1>2, <2>2, <2>3, <2>4, GotoType, ViolatedType, TakenType DEF k, CallPcs
<1>14. CASE TakeRemoteToken(c)
  <2>1. bkt' = [bkt EXCEPT ![k.d].left = bkt[k.d].left - k.n]
    BY <1>14 DEF TakeRemoteToken, k
  <2>2. bkt' \in [Durations -> BucketType]
    <3>1. bkt[k.d].left \in Int
      BY <1>1, <1>2 DEF BucketType
    <3>2. (bkt[k.d].left - k.n) \in Int
      BY <1>1, <3>1
    <3> QED BY <1>1, <1>2, <2>1, <3>2, BucketSet
  <2>4. Violated(c) \/ (Goto(c, "note") /\ UNCHANGED granted)
    BY <1>14 DEF TakeRemoteToken
  <2> QED BY <1>2, <2>2, <2>4, GotoType, ViolatedType DEF CallPcs
<1>15. CASE AddNeedSync(c)
  <2>1. bkt' = [bkt EXCEPT ![k.d].sync = bkt[k.d].sync + k.n]
    BY <1>15 DEF AddNeedSync, k
  <2>2. bkt' \in [Durations -> BucketType]
    <3>1. bkt[k.d].sync \in Nat
      BY <1>1, <1>2 DEF BucketType
    <3>2. (bkt[k.d].sync + k.n) \in Nat
      BY <1>1, <3>1
    <3> QED BY <1>1, <1>2, <2>1, <3>2, BucketSet
  <2> QED BY <1>3, <1>15, <2>2, TakenType DEF AddNeedSync, At, k
<1>16. CASE ReturnStat(c)
  <2>1. bkt' = [bkt EXCEPT ![k.d].stat = bkt[k.d].stat - k.n]
    BY <1>16 DEF ReturnStat, k
  <2>2. bkt' \in [Durations -> BucketType]
    <3>1. bkt[k.d].stat \in Int
      BY <1>1, <1>2 DEF BucketType
    <3>2. (bkt[k.d].stat - k.n) \in Int
      BY <1>1, <3>1
    <3> QED BY <1>1, <1>2, <2>1, <3>2, BucketSet
  <2>3. k.time <= now /\ k.d <= k.fail
    BY <1>16 DEF ReturnStat, At, CallTimely, k
  <2>4. (Goto(c, "give") /\ UNCHANGED granted) \/ Returned(c)
    BY <1>16 DEF ReturnStat
  <2> QED BY <1>2, <2>2, <2>3, <2>4, GotoType, ReturnedType DEF k, CallPcs
<1>17. CASE ReturnRemoteToken(c)
  <2>1. bkt' = [bkt EXCEPT ![k.d].left = bkt[k.d].left + k.n]
    BY <1>17 DEF ReturnRemoteToken, k
  <2>2. bkt' \in [Durations -> BucketType]
    <3>1. bkt[k.d].left \in Int
      BY <1>1, <1>2 DEF BucketType
    <3>2. (bkt[k.d].left + k.n) \in Int
      BY <1>1, <3>1
    <3> QED BY <1>1, <1>2, <2>1, <3>2, BucketSet
  <2>3. k.time <= now /\ k.d <= k.fail
    BY <1>17 DEF ReturnRemoteToken, At, CallTimely, k
  <2> QED BY <1>17, <2>2, <2>3, ReturnedType DEF ReturnRemoteToken, k
<1> QED BY <1>5, <1>6, <1>7, <1>8, <1>9, <1>10, <1>11, <1>12, <1>13, <1>14,
           <1>15, <1>16, <1>17 DEF GetQuota

(* The sync task of a covered rule has one bucket.                         *)
LEMMA SingleBucket ==
  ASSUME TypeInv, AllCovered, Global
  PROVE  /\ Durations = {First} /\ rx.d = First /\ Later(rx.d) = {}
         /\ First \in Nat \ {0} /\ MaxAmount[First] \in Nat
         /\ now \div First \in Periods
<1>1. Durations = {First} /\ Later(First) = {}
  BY CoveredFacts
<1>2. rx.d = First
  BY <1>1 DEF TypeInv, RxType
<1>3. First \in Nat \ {0} /\ MaxAmount[First] \in Nat /\ First \in Durations
  BY SetupFacts
<1>4. now \div First \in Periods
  BY <1>3, PeriodsFacts DEF TypeInv
<1> QED BY <1>1, <1>2, <1>3, <1>4

LEMMA ReactorType ==
  ASSUME TypeInv
  PROVE  /\ NoUse \in [Durations -> Nat] /\ NoMessage \in Messages
         /\ NoMessage.kind = "none" /\ Reactor \in RxType
         /\ [Reactor EXCEPT !.pc = "ready"] \in RxType
<1>1. NoUse \in [Durations -> Nat] /\ NoMessage \in Messages /\ NoMessage.kind = "none"
  BY DEF NoUse, NoMessage, Messages
<1>2. "init" \in RxPcs /\ "ready" \in RxPcs
  BY DEF RxPcs
<1>3. First \in Durations
  BY SetupFacts
<1>4. Reactor \in RxType
  BY <1>1, <1>2, <1>3 DEF Reactor, RxType
<1>5. [Reactor EXCEPT !.pc = "ready"] \in RxType
  BY <1>2, <1>4 DEF RxType
<1> QED BY <1>1, <1>4, <1>5

LEMMA SomeRxPcs ==
  {"init", "wait", "ready", "check", "collect", "load", "cas", "clear", "sync",
   "read", "store", "look", "set"} \subseteq RxPcs
BY DEF RxPcs, RefreshSteps

LEMMA MaxOfTwo == \A a \in Int : Max({0, a}) \in Nat /\ Max({0, a}) = IF a > 0 THEN a ELSE 0
<1>1. ASSUME NEW a \in Int PROVE Max({0, a}) = IF a > 0 THEN a ELSE 0
  <2> DEFINE m == IF a > 0 THEN a ELSE 0
  <2>1. m \in {0, a} /\ \A y \in {0, a} : m >= y
    OBVIOUS
  <2>2. \A x \in {0, a} : (\A y \in {0, a} : x >= y) => x = m
    OBVIOUS
  <2> HIDE DEF m
  <2>3. Max({0, a}) = m
    BY <2>1, <2>2 DEF Max
  <2> QED BY <2>3 DEF m
<1> QED BY <1>1

LEMMA NewLeftType ==
  ASSUME TypeInv
  PROVE  NewRemoteLeft \in Int
<1>1. rx.last \in Int /\ rx.left \in Int /\ rx.total \in Int /\ rx.used[rx.d] \in Int
  BY DEF TypeInv, RxType
<1>2. UsedWhenAcquire \in Int
  BY <1>1, MaxOfTwo DEF UsedWhenAcquire
<1> QED BY <1>1, <1>2 DEF NewRemoteLeft

LEMMA SyncTypes ==
  ASSUME TypeInv, rx.time <= now, Sync
  PROVE  /\ rx' \in RxType /\ net' \in Messages /\ lastSync' \in Nat /\ lost' \in Nat
         /\ bkt' \in [Durations -> BucketType]
         /\ net'.kind \in {"init", "report"} =>
              net'.amount \in [Durations -> Nat] /\ net'.time <= now
<1>2. /\ bkt \in [Durations -> BucketType] /\ rx \in RxType /\ net \in Messages
      /\ lastSync \in Nat /\ lost \in Nat /\ now \in Nat
      /\ net.kind \in {"init", "report"} =>
           net.amount \in [Durations -> Nat] /\ net.time <= now
  BY DEF TypeInv
<1>3. rx.d \in Durations /\ rx.time <= now /\ rx.time \in Nat
  BY <1>2 DEF RxType
<1>4. bkt[rx.d] \in BucketType
  BY <1>2, <1>3
<1>5. /\ NoUse \in [Durations -> Nat] /\ NoMessage \in Messages
      /\ NoMessage.kind = "none" /\ [Reactor EXCEPT !.pc = "ready"] \in RxType
  BY ReactorType
<1>6. /\ First \in Durations /\ MaxAmount[rx.d] \in Nat
      /\ Later(rx.d) # {} => Min(Later(rx.d)) \in Durations
  BY <1>3, SetupFacts, LaterFacts
<1>7. RemoteLeft \in Int
  <2>1. rx.answer.amount[rx.d] \in Int
    BY <1>2, <1>3 DEF RxType, Messages
  <2> QED BY <1>6, <2>1 DEF RemoteLeft
<1>8. CASE SendInit
  <2>1. net' = [kind |-> "init", time |-> now, amount |-> NoUse]
    BY <1>8 DEF SendInit
  <2>2. net' \in Messages /\ net'.amount = NoUse /\ net'.time = now
    BY <1>2, <1>5, <2>1 DEF Messages
  <2>3. rx' = [rx EXCEPT !.pc = "wait", !.time = now] /\ UNCHANGED <<bkt, lastSync, lost>>
    BY <1>8 DEF SendInit
  <2>4. rx' \in RxType
    BY <1>2, <2>3, SomeRxPcs DEF RxType
  <2> QED BY <1>2, <1>5, <2>2, <2>3, <2>4
<1>9. CASE StartReport
  <2>1. /\ rx' = [rx EXCEPT !.pc = "check", !.time = now, !.used = NoUse, !.d = First]
        /\ UNCHANGED <<bkt, lastSync, net, lost>>
    BY <1>9 DEF StartReport
  <2>2. rx' \in RxType
    BY <1>2, <1>5, <1>6, <2>1, SomeRxPcs DEF RxType
  <2> QED BY <1>2, <2>1, <2>2
<1>10. ASSUME NEW used \in [Durations -> Nat], Reported(used)
       PROVE  /\ rx' \in RxType /\ net' \in Messages
              /\ net'.kind \in {"init", "report"} =>
                   net'.amount \in [Durations -> Nat] /\ net'.time <= now
  <2>1. CASE Later(rx.d) = {}
    <3>1. /\ rx' = [rx EXCEPT !.pc = "wait", !.used = used]
          /\ net' = [kind |-> "report", time |-> rx.time, amount |-> used]
      BY <1>10, <2>1 DEF Reported
    <3>2. rx' \in RxType
      BY <1>2, <3>1, SomeRxPcs DEF RxType
    <3>3. net' \in Messages /\ net'.amount = used /\ net'.time = rx.time
      BY <1>3, <3>1 DEF Messages
    <3> QED BY <1>3, <3>2, <3>3
  <2>2. CASE Later(rx.d) # {}
    <3>1. /\ rx' = [rx EXCEPT !.pc = "check", !.used = used, !.d = Min(Later(rx.d))]
          /\ UNCHANGED net
      BY <1>10, <2>2 DEF Reported
    <3>2. rx' \in RxType
      BY <1>2, <1>6, <2>2, <3>1, SomeRxPcs DEF RxType
    <3> QED BY <1>2, <3>1, <3>2
  <2> QED BY <2>1, <2>2
<1>11. CASE CheckPendingTime
  <2>0. UNCHANGED <<bkt, lastSync, lost>>
    BY <1>11 DEF CheckPendingTime
  <2>1. CASE bkt[rx.d].time = rx.time \div rx.d
    <3>1. rx' = [rx EXCEPT !.pc = "collect"] /\ UNCHANGED net
      BY <1>11, <2>1 DEF CheckPendingTime
    <3>2. rx' \in RxType
      BY <1>2, <3>1, SomeRxPcs DEF RxType
    <3> QED BY <1>2, <2>0, <3>1, <3>2
  <2>2. CASE bkt[rx.d].time # rx.time \div rx.d
    <3>1. Reported(rx.used)
      BY <1>11, <2>2 DEF CheckPendingTime
    <3>2. rx.used \in [Durations -> Nat]
      BY <1>2 DEF RxType
    <3> QED BY <1>2, <1>10, <2>0, <3>1, <3>2
  <2> QED BY <2>1, <2>2
<1>12. CASE CollectNeedSync
  <2> DEFINE used == [rx.used EXCEPT ![rx.d] = bkt[rx.d].sync]
  <2>1. used \in [Durations -> Nat]
    BY <1>2, <1>3, <1>4 DEF RxType, BucketType
  <2>2. /\ Reported(used) /\ bkt' = [bkt EXCEPT ![rx.d].sync = 0]
        /\ UNCHANGED <<lastSync, lost>>
    BY <1>12 DEF CollectNeedSync
  <2> HIDE DEF used
  <2>3. bkt' \in [Durations -> BucketType]
    BY <1>2, <2>2 DEF BucketType
  <2> QED BY <1>2, <1>10, <2>1, <2>2, <2>3
<1>13. CASE ResponseTimeout
  <2>1. /\ net' = NoMessage /\ lost' = lost + 1 /\ rx' = [rx EXCEPT !.pc = "init"]
        /\ UNCHANGED <<bkt, lastSync>>
    BY <1>13 DEF ResponseTimeout
  <2>2. rx' \in RxType
    BY <1>2, <2>1, SomeRxPcs DEF RxType
  <2> QED BY <1>2, <1>5, <2>1, <2>2
<1>14. CASE ReceiveAnswer
  <2> DEFINE used == IF net.kind = "inited" THEN NoUse
                     ELSE [d \in Durations |->
                             IF rx.time \div d = now \div d THEN rx.used[d] ELSE 0]
  <2>1. used \in [Durations -> Nat]
    <3>1. \A d \in Durations : rx.used[d] \in Nat
      BY <1>2 DEF RxType
    <3> QED BY <1>5, <3>1
  <2>2. /\ rx' = [rx EXCEPT !.pc = "load", !.d = First, !.answer = net, !.used = used,
                            !.time = now]
        /\ net' = NoMessage /\ UNCHANGED <<bkt, lastSync, lost>>
    BY <1>14 DEF ReceiveAnswer
  <2> HIDE DEF used
  <2>3. rx' \in RxType
    BY <1>2, <1>6, <2>1, <2>2, SomeRxPcs DEF RxType
  <2> QED BY <1>2, <1>5, <2>2, <2>3
<1>15. CASE LoadRefreshTime
  <2>1. bkt[rx.d].time \in Nat
    BY <1>4 DEF BucketType, Periods
  <2>2. PICK x \in RxPcs : rx' = [rx EXCEPT !.seen = bkt[rx.d].time, !.pc = x]
    BY <1>15, SomeRxPcs DEF LoadRefreshTime
  <2>3. rx' \in RxType
    BY <1>2, <2>1, <2>2 DEF RxType
  <2> QED BY <1>2, <1>15, <2>3 DEF LoadRefreshTime, refreshFrame
<1>16. CASE SwapRefreshTime
  <2>1. RefreshPeriod \in Periods
    BY <1>3, PeriodsFacts DEF RefreshPeriod
  <2>2. PICK x \in RxPcs : rx' = [rx EXCEPT !.pc = x]
    BY <1>16, SomeRxPcs DEF SwapRefreshTime
  <2>3. rx' \in RxType
    BY <1>2, <2>2 DEF RxType
  <2>4. bkt' = bkt \/ bkt' = [bkt EXCEPT ![rx.d].time = RefreshPeriod]
    BY <1>16 DEF SwapRefreshTime
  <2>5. bkt' \in [Durations -> BucketType]
    BY <1>2, <2>1, <2>4 DEF BucketType
  <2> QED BY <1>2, <1>16, <2>3, <2>5 DEF SwapRefreshTime, refreshFrame
<1>17. CASE RefreshResetStat
  <2>1. bkt' = [bkt EXCEPT ![rx.d].stat = 0] /\ rx' = [rx EXCEPT !.pc = "sync"]
    BY <1>17 DEF RefreshResetStat
  <2>2. bkt' \in [Durations -> BucketType] /\ rx' \in RxType
    BY <1>2, <2>1, SomeRxPcs DEF BucketType, RxType
  <2> QED BY <1>2, <1>17, <2>2 DEF RefreshResetStat, refreshFrame
<1>18. CASE RefreshResetNeedSync
  <2>1. bkt' = [bkt EXCEPT ![rx.d].sync = 0] /\ rx' = [rx EXCEPT !.pc = "read"]
    BY <1>18 DEF RefreshResetNeedSync
  <2>2. bkt' \in [Durations -> BucketType] /\ rx' \in RxType
    BY <1>2, <2>1, SomeRxPcs DEF BucketType, RxType
  <2> QED BY <1>2, <1>18, <2>2 DEF RefreshResetNeedSync, refreshFrame
<1>19. CASE ReadRemoteTotal
  <2>1. rx' = [rx EXCEPT !.pc = "store", !.last = bkt[rx.d].total]
    BY <1>19 DEF ReadRemoteTotal
  <2>2. rx' \in RxType
    BY <1>2, <1>4, <2>1, SomeRxPcs DEF BucketType, RxType
  <2> QED BY <1>2, <1>19, <2>2 DEF ReadRemoteTotal, refreshFrame
<1>20. CASE StoreRemoteTotal
  <2>1. bkt' = [bkt EXCEPT ![rx.d].total = RemoteLeft] /\ rx' = [rx EXCEPT !.pc = "look"]
    BY <1>20 DEF StoreRemoteTotal
  <2>2. bkt' \in [Durations -> BucketType] /\ rx' \in RxType
    BY <1>2, <1>7, <2>1, SomeRxPcs DEF BucketType, RxType
  <2> QED BY <1>2, <1>20, <2>2 DEF StoreRemoteTotal, refreshFrame
<1>21. CASE LookAtTokens
  <2>1. rx' = [rx EXCEPT !.pc = "set", !.left = bkt[rx.d].left, !.total = bkt[rx.d].total]
    BY <1>21 DEF LookAtTokens
  <2>2. rx' \in RxType
    BY <1>2, <1>4, <2>1, SomeRxPcs DEF BucketType, RxType
  <2> QED BY <1>2, <1>21, <2>2 DEF LookAtTokens, refreshFrame
<1>22. CASE SetTokens
  <2>1. UNCHANGED <<net, lost>>
    BY <1>22 DEF SetTokens
  <2>2. CASE bkt[rx.d].left # rx.left
    <3>1. rx' = [rx EXCEPT !.pc = "look"] /\ UNCHANGED <<bkt, lastSync>>
      BY <1>22, <2>2 DEF SetTokens
    <3>2. rx' \in RxType
      BY <1>2, <3>1, SomeRxPcs DEF RxType
    <3> QED BY <1>2, <2>1, <3>1, <3>2
  <2>3. CASE bkt[rx.d].left = rx.left
    <3>1. /\ bkt' = [bkt EXCEPT ![rx.d].left = NewRemoteLeft]
          /\ \/ rx' = [Reactor EXCEPT !.pc = "ready"] /\ lastSync' = rx.time
             \/ /\ Later(rx.d) # {} /\ UNCHANGED lastSync
                /\ rx' = [rx EXCEPT !.pc = "load", !.d = Min(Later(rx.d))]
      BY <1>22, <2>3 DEF SetTokens
    <3>2. NewRemoteLeft \in Int
      BY NewLeftType
    <3>3. bkt' \in [Durations -> BucketType]
      BY <1>2, <3>1, <3>2 DEF BucketType
    <3>4. rx' \in RxType
      BY <1>2, <1>5, <1>6, <3>1, SomeRxPcs DEF RxType
    <3> QED BY <1>2, <1>3, <2>1, <3>1, <3>3, <3>4
  <2> QED BY <2>2, <2>3
<1> QED BY <1>8, <1>9, <1>11, <1>12, <1>13, <1>14, <1>15, <1>16, <1>17, <1>18,
           <1>19, <1>20, <1>21, <1>22 DEF Sync

LEMMA TypeStep ==
  ASSUME TypeInv, Timely, Next
  PROVE  TypeInv'
<1>1. UNCHANGED setup /\ Step
  BY DEF Next
<1>2. /\ Durations' = Durations /\ MaxTime' = MaxTime /\ Periods' = Periods
      /\ Messages' = Messages /\ CallType' = CallType /\ RxType' = RxType
      /\ BucketType' = BucketType
  BY <1>1, SetupStable
<1>3. rx.time <= now /\ \A c \in Callers : CallTimely(call[c])
  BY DEF Timely
<1>4. CASE Tick
  <2>1. now' \in Nat /\ now' <= MaxTime
    BY <1>4, SetupFacts DEF Tick, TypeInv
  <2>2. net.kind \in {"init", "report"} => net.time <= now'
    <3>1. net.time \in Nat /\ now \in Nat /\ now' = now + 1
      BY <1>4 DEF Tick, TypeInv, Messages
    <3> QED BY <3>1 DEF TypeInv
  <2> QED BY <1>1, <1>2, <1>4, <2>1, <2>2 DEF Tick, TypeInv
<1>5. CASE Sync
  <2>1. UNCHANGED <<now, call, srv, granted>>
    BY <1>5 DEF Sync, syncFrame, refreshFrame, SendInit, StartReport, CheckPendingTime,
         CollectNeedSync, ResponseTimeout, ReceiveAnswer, LoadRefreshTime,
         SwapRefreshTime, RefreshResetStat, RefreshResetNeedSync, ReadRemoteTotal,
         StoreRemoteTotal, LookAtTokens, SetTokens
  <2> QED BY <1>1, <1>2, <1>3, <1>5, <2>1, SyncTypes DEF TypeInv
<1>6. CASE Answer
  <2>1. \A d \in Durations : net.amount[d] \in Nat /\ net.time \div d \in Periods
    BY <1>6, PeriodsFacts DEF Answer, TypeInv, Messages
  <2>2. srv' \in [Durations -> [Periods -> Nat]]
    <3>1. ASSUME NEW d \in Durations
          PROVE  [srv[d] EXCEPT ![net.time \div d] = @ + net.amount[d]] \in [Periods -> Nat]
      <4> DEFINE p == net.time \div d
      <4>1. p \in Periods /\ srv[d] \in [Periods -> Nat] /\ net.amount[d] \in Nat
        BY <2>1 DEF TypeInv
      <4> HIDE DEF p
      <4>2. [srv[d] EXCEPT ![p] = @ + net.amount[d]] \in [Periods -> Nat]
        BY <4>1
      <4> QED BY <4>2 DEF p
    <3> QED BY <1>6, <3>1 DEF Answer
  <2>3. \A d \in Durations : MaxAmount[d] - srv'[d][now \div d] \in Int
    <3>1. ASSUME NEW d \in Durations PROVE MaxAmount[d] - srv'[d][now \div d] \in Int
      <4>1. MaxAmount[d] \in Nat /\ now \div d \in Periods
        BY SetupFacts, PeriodsFacts DEF TypeInv
      <4> QED BY <2>2, <4>1
    <3> QED BY <3>1
  <2>4. net' \in Messages /\ net'.kind \notin {"init", "report"}
    <3>1. PICK k \in {"inited", "reported"} :
            net' = [kind |-> k, time |-> now,
                    amount |-> [d \in Durations |-> MaxAmount[d] - srv'[d][now \div d]]]
      BY <1>6 DEF Answer
    <3>2. [d \in Durations |-> MaxAmount[d] - srv'[d][now \div d]] \in [Durations -> Int]
      BY <2>3
    <3> QED BY <3>1, <3>2 DEF Messages, TypeInv
  <2> QED BY <1>1, <1>2, <1>6, <2>2, <2>4 DEF TypeInv, Answer
<1>7. CASE OtherClient
  <2>1. srv' \in [Durations -> [Periods -> Nat]]
    <3>1. ASSUME NEW d \in Durations
          PROVE  [srv[d] EXCEPT ![now \div d] = @ + 1] \in [Periods -> Nat]
      <4> DEFINE p == now \div d
      <4>1. srv[d] \in [Periods -> Nat] /\ p \in Periods
        BY PeriodsFacts DEF TypeInv
      <4> HIDE DEF p
      <4>2. [srv[d] EXCEPT ![p] = @ + 1] \in [Periods -> Nat]
        BY <4>1
      <4> QED BY <4>2 DEF p
    <3> QED BY <1>7, <3>1 DEF OtherClient
  <2> QED BY <1>1, <1>2, <1>7, <2>1 DEF TypeInv, OtherClient
<1>8. ASSUME NEW c \in Callers, GetQuota(c) PROVE TypeInv'
  <2>1. UNCHANGED callFrame
    BY <1>8 DEF GetQuota, Allocate, UseRemoteQuota, LoadBucketTime, SwapBucketTime,
         ResetStat, ResetRemoteTotal, ResetRemoteLeft, ResetNeedSync, CountRequest,
         TakeRemoteToken, AddNeedSync, ReturnStat, ReturnRemoteToken
  <2>2. /\ call' \in [Callers -> CallType] /\ bkt' \in [Durations -> BucketType]
        /\ granted' \in [Durations -> [Periods -> Nat]]
    BY <1>3, <1>8, CallerTypes
  <2> QED BY <1>1, <1>2, <2>1, <2>2 DEF TypeInv, callFrame
<1> QED BY <1>1, <1>4, <1>5, <1>6, <1>7, <1>8 DEF Step

(* The other counters of a bucket leave its period alone.                  *)
LEMMA TimeKept ==
  ASSUME bkt \in [Durations -> BucketType], NEW d \in Durations, NEW v,
         \/ bkt' = [bkt EXCEPT ![d].stat = v] \/ bkt' = [bkt EXCEPT ![d].total = v]
         \/ bkt' = [bkt EXCEPT ![d].left = v] \/ bkt' = [bkt EXCEPT ![d].sync = v]
  PROVE  \A e \in Durations : bkt'[e].time = bkt[e].time
<1>1. bkt[d] \in BucketType
  OBVIOUS
<1>2. /\ [bkt[d] EXCEPT !.stat = v].time = bkt[d].time
      /\ [bkt[d] EXCEPT !.total = v].time = bkt[d].time
      /\ [bkt[d] EXCEPT !.left = v].time = bkt[d].time
      /\ [bkt[d] EXCEPT !.sync = v].time = bkt[d].time
  BY <1>1 DEF BucketType
<1>3. ASSUME NEW b, bkt' = [bkt EXCEPT ![d] = b], b.time = bkt[d].time
      PROVE  \A e \in Durations : bkt'[e].time = bkt[e].time
  BY <1>3
<1> QED BY <1>2, <1>3

(* What a caller's step leaves in its own record, and in the buckets.      *)
LEMMA CallerTimely ==
  ASSUME TypeInv, Timely, UNCHANGED setup, NEW c \in Callers, GetQuota(c)
  PROVE  Timely'
<1>1. /\ call \in [Callers -> CallType] /\ bkt \in [Durations -> BucketType]
      /\ call[c] \in CallType /\ call[c].d \in Durations /\ call[c].fail \in Durations
      /\ call[c].time \in Nat /\ bkt[call[c].d] \in BucketType /\ CallTimely(call[c])
  BY DEF TypeInv, CallType, Timely
<1>2. UNCHANGED <<now, lastSync, rx>> /\ Durations' = Durations
  BY SetupStable DEF GetQuota, Allocate, UseRemoteQuota, LoadBucketTime, SwapBucketTime,
     ResetStat, ResetRemoteTotal, ResetRemoteLeft, ResetNeedSync, CountRequest,
     TakeRemoteToken, AddNeedSync, ReturnStat, ReturnRemoteToken, callFrame
<1>3. ASSUME NEW k, call' = [call EXCEPT ![c] = k], CallTimely(k)
      PROVE  \A b \in Callers : CallTimely(call[b])'
  BY <1>1, <1>2, <1>3 DEF Timely, CallTimely
<1>4. Durations \subseteq Nat /\ First \in Durations /\ \A e \in Durations : First <= e
  BY SetupFacts
<1>5. ASSUME NEW x, x \notin {"return", "give"}, Goto(c, x), call[c].pc # "idle"
      PROVE  \A b \in Callers : CallTimely(call[b])'
  <2>1. call' = [call EXCEPT ![c] = [call[c] EXCEPT !.pc = x]]
    BY <1>1, <1>5 DEF Goto
  <2>2. CallTimely([call[c] EXCEPT !.pc = x])
    BY <1>1, <1>5 DEF CallTimely, CallType
  <2> QED BY <1>3, <2>1, <2>2
<1>6. ASSUME call' = [call EXCEPT ![c] = Idle]
      PROVE  \A b \in Callers : CallTimely(call[b])'
  <2>1. CallTimely(Idle)
    BY DEF CallTimely, Idle
  <2> QED BY <1>3, <1>6, <2>1
<1>7. ASSUME call[c].pc # "idle", Taken(c) PROVE \A b \in Callers : CallTimely(call[b])'
  <2>1. CASE Later(call[c].d) = {}
    BY <1>6, <1>7, <2>1 DEF Taken
  <2>2. CASE Later(call[c].d) # {}
    <3> DEFINE m == Min(Later(call[c].d))
    <3>1. call' = [call EXCEPT ![c].pc = "load", ![c].d = m]
      BY <1>7, <2>2 DEF Taken
    <3> HIDE DEF m
    <3>2. call' = [call EXCEPT ![c] = [call[c] EXCEPT !.pc = "load", !.d = m]]
      BY <1>1, <3>1, CallIs
    <3>3. CallTimely([call[c] EXCEPT !.pc = "load", !.d = m])
      BY <1>1, <1>7 DEF CallTimely, CallType
    <3> QED BY <1>3, <3>2, <3>3
  <2> QED BY <2>1, <2>2
<1>8. ASSUME call[c].pc # "idle", Violated(c) PROVE \A b \in Callers : CallTimely(call[b])'
  <2> DEFINE k == [call[c] EXCEPT !.pc = "return", !.d = First, !.fail = call[c].d]
  <2>1. call' = [call EXCEPT ![c] = k]
    BY <1>1, <1>8, CallIs DEF Violated
  <2>2. k.time = call[c].time /\ k.d = First /\ k.fail = call[c].d
    BY <1>1 DEF CallType
  <2>3. CallTimely(k)
    BY <1>1, <1>4, <1>8, <2>2 DEF CallTimely
  <2> HIDE DEF k
  <2> QED BY <1>3, <2>1, <2>3
<1>9. ASSUME call[c].pc \in {"return", "give"}, Returned(c)
      PROVE  \A b \in Callers : CallTimely(call[b])'
  <2>1. CASE call[c].d = call[c].fail
    BY <1>6, <1>9, <2>1 DEF Returned
  <2>2. CASE call[c].d # call[c].fail
    <3> DEFINE m == Min(Later(call[c].d))
               k == [call[c] EXCEPT !.pc = "return", !.d = m]
    <3>0. call[c].d < call[c].fail /\ call[c].time <= now
      <4>1. call[c].d \in Nat /\ call[c].fail \in Nat
        BY <1>1, <1>4
      <4>2. call[c].pc # "idle"
        BY <1>9
      <4>3. call[c].d <= call[c].fail /\ call[c].time <= now
        BY <1>1, <1>9, <4>2 DEF CallTimely
      <4> QED BY <2>2, <4>1, <4>3
    <3>1. m <= call[c].fail
      <4>1. call[c].fail \in Later(call[c].d) /\ Later(call[c].d) \in SUBSET Nat
        BY <1>1, <1>4, <3>0 DEF Later
      <4> QED BY <4>1, MinOf
    <3>2. call' = [call EXCEPT ![c].pc = "return", ![c].d = m]
      BY <1>9, <2>2 DEF Returned
    <3> HIDE DEF m
    <3>3. call' = [call EXCEPT ![c] = k]
      BY <1>1, <3>2, CallIs
    <3>4. k.pc = "return" /\ k.d = m /\ k.fail = call[c].fail /\ k.time = call[c].time
      BY <1>1 DEF CallType
    <3>5. CallTimely(k)
      BY <3>0, <3>1, <3>4 DEF CallTimely
    <3> HIDE DEF k
    <3> QED BY <1>3, <3>3, <3>5
  <2> QED BY <2>1, <2>2
<1>10. \A b \in Callers : CallTimely(call[b])'
  <2>1. CASE Allocate(c)
    <3>1. PICK n \in setup.asked :
            call' = [call EXCEPT ![c] = [Idle EXCEPT !.pc = "mode", !.time = now, !.n = n]]
      BY <2>1 DEF Allocate
    <3>2. CallTimely([Idle EXCEPT !.pc = "mode", !.time = now, !.n = n])
      BY DEF CallTimely, Idle, TypeInv
    <3> QED BY <1>3, <3>1, <3>2
  <2>2. CASE UseRemoteQuota(c)
    <3> DEFINE b == Global /\ call[c].time < lastSync + First
               k == [call[c] EXCEPT !.pc = "load", !.remote = b]
    <3>1. call' = [call EXCEPT ![c].pc = "load", ![c].remote = b] /\ call[c].pc = "mode"
      BY <2>2 DEF UseRemoteQuota, At
    <3> HIDE DEF b
    <3>2. call' = [call EXCEPT ![c] = k]
      BY <1>1, <3>1 DEF CallType
    <3>3. CallTimely(k)
      BY <1>1, <3>1 DEF CallTimely, CallType
    <3> HIDE DEF k
    <3> QED BY <1>3, <3>2, <3>3
  <2>3. CASE LoadBucketTime(c)
    <3>1. PICK x \in {"count", "cas"} :
            /\ call' = [call EXCEPT ![c].seen = bkt[call[c].d].time, ![c].pc = x]
            /\ call[c].pc = "load"
      BY <2>3, Zenon DEF LoadBucketTime, At
    <3> DEFINE t == bkt[call[c].d].time
               k == [call[c] EXCEPT !.seen = t, !.pc = x]
    <3>2. call' = [call EXCEPT ![c].seen = t, ![c].pc = x]
      BY <3>1
    <3> HIDE DEF t
    <3>3. call' = [call EXCEPT ![c] = k]
      BY <1>1, <3>2 DEF CallType
    <3>4. CallTimely(k)
      BY <1>1, <3>1 DEF CallTimely, CallType
    <3> HIDE DEF k
    <3> QED BY <1>3, <3>3, <3>4
  <2>4. CASE \/ SwapBucketTime(c) \/ ResetStat(c) \/ ResetRemoteTotal(c)
             \/ ResetRemoteLeft(c) \/ ResetNeedSync(c)
    <3>1. \E x \in {"clear", "count", "total", "left", "sync"} :
            Goto(c, x) /\ call[c].pc # "idle"
      BY <2>4 DEF SwapBucketTime, ResetStat, ResetRemoteTotal, ResetRemoteLeft,
         ResetNeedSync, At
    <3> QED BY <1>5, <3>1
  <2>5. CASE CountRequest(c) \/ TakeRemoteToken(c) \/ AddNeedSync(c)
    <3>1. /\ call[c].pc # "idle"
          /\ Goto(c, "take") \/ Goto(c, "note") \/ Violated(c) \/ Taken(c)
      BY <2>5 DEF CountRequest, TakeRemoteToken, AddNeedSync, At
    <3> QED BY <1>5, <1>7, <1>8, <3>1
  <2>6. CASE ReturnStat(c) \/ ReturnRemoteToken(c)
    <3>1. /\ call[c].pc \in {"return", "give"}
          /\ (Goto(c, "give") /\ call[c].pc = "return") \/ Returned(c)
      BY <2>6 DEF ReturnStat, ReturnRemoteToken, At
    <3>2. CASE Goto(c, "give")
      <4>1. call' = [call EXCEPT ![c] = [call[c] EXCEPT !.pc = "give"]]
        BY <1>1, <3>2 DEF Goto
      <4>2. CallTimely([call[c] EXCEPT !.pc = "give"])
        BY <1>1, <3>1 DEF CallTimely, CallType
      <4> QED BY <1>3, <4>1, <4>2
    <3> QED BY <1>9, <3>1, <3>2
  <2> QED BY <2>1, <2>2, <2>3, <2>4, <2>5, <2>6 DEF GetQuota
<1>11. NoneAhead'
  <2>1. CASE SwapBucketTime(c) /\ bkt' # bkt
    <3>1. /\ bkt' = [bkt EXCEPT ![call[c].d].time = Expect(c)] /\ call[c].time <= now
      BY <1>1, <2>1 DEF SwapBucketTime, At, CallTimely
    <3>2. Expect(c) <= now \div call[c].d
      BY <1>1, <3>1, PeriodsFacts DEF Expect
    <3> DEFINE d == call[c].d
               t == Expect(c)
    <3>3. bkt' = [bkt EXCEPT ![d].time = t] /\ t <= now \div d
      BY <3>1, <3>2
    <3> HIDE DEF d, t
    <3>4. \A e \in Durations : bkt'[e].time = IF e = d THEN t ELSE bkt[e].time
      BY <1>1, <3>3 DEF BucketType
    <3> QED BY <1>2, <3>3, <3>4 DEF NoneAhead, Timely
  <2>2. CASE ~(SwapBucketTime(c) /\ bkt' # bkt)
    <3>1. \/ bkt' = bkt
          \/ \E v : \/ bkt' = [bkt EXCEPT ![call[c].d].stat = v]
                   \/ bkt' = [bkt EXCEPT ![call[c].d].total = v]
                   \/ bkt' = [bkt EXCEPT ![call[c].d].left = v]
                   \/ bkt' = [bkt EXCEPT ![call[c].d].sync = v]
      BY <2>2, Zenon DEF GetQuota, Allocate, UseRemoteQuota, LoadBucketTime,
         ResetStat, ResetRemoteTotal, ResetRemoteLeft, ResetNeedSync, CountRequest,
         TakeRemoteToken, AddNeedSync, ReturnStat, ReturnRemoteToken
    <3>2. \A e \in Durations : bkt'[e].time = bkt[e].time
      <4>1. CASE bkt' # bkt
        <5>1. PICK v : \/ bkt' = [bkt EXCEPT ![call[c].d].stat = v]
                       \/ bkt' = [bkt EXCEPT ![call[c].d].total = v]
                       \/ bkt' = [bkt EXCEPT ![call[c].d].left = v]
                       \/ bkt' = [bkt EXCEPT ![call[c].d].sync = v]
          BY <3>1, <4>1, Zenon
        <5> QED BY <1>1, <5>1, TimeKept
      <4> QED BY <4>1
    <3> QED BY <1>2, <3>2 DEF NoneAhead, Timely
  <2> QED BY <2>1, <2>2
<1> QED BY <1>2, <1>10, <1>11 DEF Timely

LEMMA SyncTimely ==
  ASSUME TypeInv, Timely, UNCHANGED setup, Sync
  PROVE  Timely'
<1>1. /\ rx \in RxType /\ rx.d \in Durations /\ rx.time \in Nat /\ now \in Nat
      /\ bkt \in [Durations -> BucketType] /\ rx.time <= now /\ lastSync <= now
  BY DEF TypeInv, RxType, Timely
<1>2. UNCHANGED <<now, call>> /\ Durations' = Durations
  BY SetupStable DEF Sync, syncFrame, refreshFrame, SendInit, StartReport,
     CheckPendingTime, CollectNeedSync, ResponseTimeout, ReceiveAnswer, LoadRefreshTime,
     SwapRefreshTime, RefreshResetStat, RefreshResetNeedSync, ReadRemoteTotal,
     StoreRemoteTotal, LookAtTokens, SetTokens
<1>3. rx'.time \in {rx.time, now, 0} /\ lastSync' \in {lastSync, rx.time}
  BY <1>1, Zenon DEF RxType, Sync, refreshFrame, SendInit, StartReport, CheckPendingTime,
     CollectNeedSync, ResponseTimeout, ReceiveAnswer, LoadRefreshTime, SwapRefreshTime,
     RefreshResetStat, RefreshResetNeedSync, ReadRemoteTotal, StoreRemoteTotal,
     LookAtTokens, SetTokens, Reported, Reactor
<1>4. NoneAhead'
  <2>1. CASE SwapRefreshTime /\ bkt' # bkt
    <3> DEFINE d == rx.d
               t == RefreshPeriod
    <3>1. bkt' = [bkt EXCEPT ![d].time = t]
      BY <2>1 DEF SwapRefreshTime
    <3>2. t <= now \div d
      BY <1>1, PeriodsFacts DEF RefreshPeriod
    <3> HIDE DEF d, t
    <3>3. \A e \in Durations : bkt'[e].time = IF e = d THEN t ELSE bkt[e].time
      BY <1>1, <3>1 DEF BucketType
    <3> QED BY <1>2, <3>2, <3>3 DEF NoneAhead, Timely
  <2>2. CASE ~(SwapRefreshTime /\ bkt' # bkt)
    <3>1. \/ bkt' = bkt
          \/ \E v : \/ bkt' = [bkt EXCEPT ![rx.d].stat = v]
                   \/ bkt' = [bkt EXCEPT ![rx.d].total = v]
                   \/ bkt' = [bkt EXCEPT ![rx.d].left = v]
                   \/ bkt' = [bkt EXCEPT ![rx.d].sync = v]
      BY <2>2, Zenon DEF Sync, SendInit, StartReport, CheckPendingTime, CollectNeedSync,
         ResponseTimeout, ReceiveAnswer, LoadRefreshTime, RefreshResetStat,
         RefreshResetNeedSync, ReadRemoteTotal, StoreRemoteTotal, LookAtTokens, SetTokens
    <3>2. \A e \in Durations : bkt'[e].time = bkt[e].time
      <4>1. CASE bkt' # bkt
        <5>1. PICK v : \/ bkt' = [bkt EXCEPT ![rx.d].stat = v]
                       \/ bkt' = [bkt EXCEPT ![rx.d].total = v]
                       \/ bkt' = [bkt EXCEPT ![rx.d].left = v]
                       \/ bkt' = [bkt EXCEPT ![rx.d].sync = v]
          BY <3>1, <4>1, Zenon
        <5> QED BY <1>1, <5>1, TimeKept
      <4> QED BY <4>1
    <3> QED BY <1>2, <3>2 DEF NoneAhead, Timely
  <2> QED BY <2>1, <2>2
<1> QED BY <1>1, <1>2, <1>3, <1>4 DEF Timely, CallTimely

LEMMA TimelyStep ==
  ASSUME TypeInv, Timely, Next
  PROVE  Timely'
<1>1. UNCHANGED setup /\ Step /\ Durations' = Durations
  BY SetupStable DEF Next
<1>2. CASE Tick
  <2>1. now \in Nat /\ now' = now + 1 /\ UNCHANGED <<bkt, lastSync, call, rx>>
    BY <1>2 DEF Tick, TypeInv
  <2>2. NoneAhead'
    <3>1. ASSUME NEW d \in Durations PROVE bkt[d].time <= (now + 1) \div d
      <4>1. /\ d \in Nat \ {0} /\ bkt[d].time \in Nat /\ bkt[d].time <= now \div d
        <5>1. bkt[d] \in BucketType /\ d \in Nat \ {0}
          BY SetupFacts DEF TypeInv
        <5> QED BY <5>1 DEF BucketType, Periods, Timely, NoneAhead
      <4>2. now \div d \in Nat /\ (now + 1) \div d \in Nat
        BY <2>1, <4>1, DivType
      <4>3. now \div d <= (now + 1) \div d
        BY <2>1, <4>1, DivMono
      <4> QED BY <4>1, <4>2, <4>3
    <3> QED BY <1>1, <2>1, <3>1 DEF NoneAhead
  <2>3. rx.time \in Nat /\ lastSync \in Nat /\ \A c \in Callers : call[c].time \in Nat
    BY DEF TypeInv, RxType, CallType
  <2> QED BY <2>1, <2>2, <2>3 DEF Timely, CallTimely
<1>3. CASE Answer \/ OtherClient
  <2>1. UNCHANGED <<now, bkt, lastSync, call, rx>>
    BY <1>3 DEF Answer, OtherClient
  <2> QED BY <1>1, <2>1 DEF Timely, CallTimely, NoneAhead
<1> QED BY <1>1, <1>2, <1>3, CallerTimely, SyncTimely DEF Step

(* Types and times hold for every rule, whatever races.                    *)
LEMMA TimelyInvariant == Spec => [](TypeInv /\ Timely)
<1>1. Init => TypeInv /\ Timely
  <2>1. ASSUME Init PROVE Timely
    <3>1. TypeInv /\ \A d \in Durations : 0 \div d = 0
      BY <2>1, TypeInit, SetupFacts, DivZero
    <3> QED BY <2>1, <3>1 DEF Init, Timely, CallTimely, NoneAhead, Idle, Reactor
  <2> QED BY <2>1, TypeInit
<1>2. TypeInv /\ Timely /\ [Next]_vars => TypeInv' /\ Timely'
  <2>1. ASSUME TypeInv, Timely, UNCHANGED vars PROVE TypeInv' /\ Timely'
    <3>1. /\ UNCHANGED setup
          /\ UNCHANGED <<now, bkt, lastSync, call, rx, net, srv, granted, lost, others>>
      BY <2>1 DEF vars
    <3>2. /\ Durations' = Durations /\ MaxTime' = MaxTime /\ Periods' = Periods
          /\ Messages' = Messages /\ CallType' = CallType /\ RxType' = RxType
          /\ BucketType' = BucketType
      BY <3>1, SetupStable
    <3> QED BY <2>1, <3>1, <3>2 DEF TypeInv, Timely, CallTimely, NoneAhead
  <2> QED BY <2>1, TypeStep, TimelyStep
<1> QED BY <1>1, <1>2, PTL DEF Spec

-----------------------------------------------------------------------------
(* Who is where: the shape of a quiet bucket.                              *)

LEMMA ShapeInit ==
  ASSUME Init, AllCovered
  PROVE  Shape
<1>0. TypeInv
  BY TypeInit
<1>1. /\ now = 0 /\ lastSync = 0 /\ rx.pc = "init" /\ rx.time = 0 /\ net.kind = "none"
      /\ \A c \in Callers : call[c].pc = "idle"
  BY DEF Init, Reactor, NoMessage, Idle
<1>2. First \in Nat \ {0} /\ Durations \subseteq Nat \ {0}
  BY <1>0, SetupFacts
<1>3. \A e \in Durations : bkt[e].time = 0 /\ \A p \in Periods : granted[e][p] = 0
  BY DEF Init
<1>4. SyncOK
  BY <1>1, <1>2 DEF SyncOK, Syncing, RefreshSteps
<1>5. Alone
  BY <1>1 DEF Alone, Allocating
<1>6. BucketOK
  <2>1. ASSUME NEW e \in Durations PROVE bkt[e].time <= now \div e
    BY <1>1, <1>2, <1>3, DivZero
  <2> QED BY <1>3, <2>1 DEF BucketOK
<1>7. \A c \in Callers : CallOK(call[c])
  BY <1>1 DEF CallOK
<1> QED BY <1>4, <1>5, <1>6, <1>7 DEF Shape

LEMMA CallKept ==
  ASSUME TypeInv, UNCHANGED <<setup, now>>, NEW x \in Callers, NEW k \in CallType,
         call'[x] = k, CallOK(k),
         \A e \in Durations : bkt'[e].time = bkt[e].time,
         k.pc \in TurnoverSteps => granted'[k.d][bkt[k.d].time] = 0
  PROVE  CallOK(call[x])'
<1>1. Durations' = Durations /\ First' = First /\ Global' = Global
  BY SetupStable
<1>2. k.d \in Durations /\ k.fail \in Durations
  BY DEF CallType
<1> QED BY <1>1, <1>2 DEF CallOK

LEMMA SyncKept ==
  ASSUME TypeInv, UNCHANGED <<setup, now, lastSync, rx, net>>, SyncOK,
         \A e \in Durations : bkt'[e].time = bkt[e].time,
         rx.pc \in {"clear", "sync"} => granted' = granted
  PROVE  SyncOK'
<1>1. Durations' = Durations /\ First' = First /\ Global' = Global
  BY SetupStable
<1>2. rx.d \in Durations
  BY DEF TypeInv, RxType
<1>3. Syncing' = Syncing
  BY DEF Syncing
<1>4. bkt'[rx.d].time = bkt[rx.d].time
  BY <1>2
<1> QED BY <1>1, <1>2, <1>3, <1>4 DEF SyncOK

LEMMA AloneKept ==
  ASSUME TypeInv, UNCHANGED <<setup, now>>, Alone,
         \A e \in Durations : bkt'[e].time = bkt[e].time,
         Allocating' \subseteq Allocating, Syncing' => Syncing,
         TurningOver' => TurningOver \/ PeriodStarts(now)
  PROVE  Alone'
<1>1. Durations' = Durations
  BY SetupStable
<1>2. PeriodStarts(now)' => PeriodStarts(now)
  BY <1>1 DEF PeriodStarts
<1> QED BY <1>2 DEF Alone

LEMMA BucketKept ==
  ASSUME TypeInv, UNCHANGED <<setup, now, granted>>, BucketOK,
         \A e \in Durations : bkt'[e].time = bkt[e].time
  PROVE  BucketOK'
<1>1. Durations' = Durations /\ Periods' = Periods
  BY SetupStable
<1> QED BY <1>1 DEF BucketOK

(* A caller goes on; nothing but counters change.                          *)
LEMMA MoveShape ==
  ASSUME TypeInv, Shape, UNCHANGED <<setup, callFrame>>, granted' = granted,
         NEW c \in Callers, NEW k \in CallType, call' = [call EXCEPT ![c] = k],
         call[c].pc # "idle", CallOK(k),
         k.pc \in TurnoverSteps => call[c].pc \in TurnoverSteps,
         \A e \in Durations : bkt'[e].time = bkt[e].time
  PROVE  Shape'
<1>0. /\ UNCHANGED <<now, lastSync, rx, net>>
      /\ call \in [Callers -> CallType]
  BY DEF callFrame, TypeInv
<1>1. call'[c] = k /\ \A x \in Callers \ {c} : call'[x] = call[x]
  BY <1>0
<1>2. SyncOK'
  BY <1>0, SyncKept DEF Shape
<1>3. Alone'
  <2>1. Allocating' \subseteq Allocating
    BY <1>1 DEF Allocating
  <2>2. Syncing' = Syncing
    BY <1>0 DEF Syncing
  <2>3. TurningOver' => TurningOver
    BY <1>0, <1>1 DEF TurningOver
  <2> QED BY <1>0, <2>1, <2>2, <2>3, AloneKept DEF Shape
<1>4. BucketOK'
  BY <1>0, BucketKept DEF Shape
<1>5. ASSUME NEW x \in Callers PROVE CallOK(call[x])'
  <2> DEFINE j == call'[x]
  <2>1. j \in CallType /\ CallOK(j)
    BY <1>0, <1>1 DEF Shape
  <2>2. j.pc \in TurnoverSteps => granted'[j.d][bkt[j.d].time] = 0
    BY <2>1 DEF CallOK, TurnoverSteps
  <2> HIDE DEF j
  <2>3. call'[x] = j
    BY DEF j
  <2> QED BY <1>0, <2>1, <2>2, <2>3, CallKept
<1> QED BY <1>2, <1>3, <1>4, <1>5 DEF Shape

(* Whoever grants stands in the current period of every bucket.            *)
LEMMA GrantPlace ==
  ASSUME TypeInv, NEW c \in Callers, CallOK(call[c]), Grant(c),
         call[c].pc \in {"count", "note"}, Later(call[c].d) = {}
  PROVE  \A e \in Durations :
           /\ bkt[e].time = now \div e /\ bkt[e].time \in Periods
           /\ granted'[e] = [granted[e] EXCEPT ![bkt[e].time] = @ + call[c].n]
<1>1. call[c].d \in Durations /\ Durations \subseteq Nat \ {0}
  BY SetupFacts DEF TypeInv, CallType
<1>2. \A e \in Durations : e <= call[c].d
  BY <1>1, LaterFacts
<1>3. ASSUME NEW e \in Durations PROVE bkt[e].time = now \div e
  <2>0. e \in Nat /\ call[c].d \in Nat
    BY <1>1
  <2>1. e < call[c].d \/ e = call[c].d
    BY <1>2, <2>0
  <2> QED BY <2>1 DEF CallOK, Forward
<1>4. ASSUME NEW e \in Durations
      PROVE  /\ bkt[e].time \in Periods
             /\ granted'[e] = [granted[e] EXCEPT ![bkt[e].time] = @ + call[c].n]
  <2>1. call[c].time \div e = bkt[e].time
    BY <1>3 DEF CallOK
  <2>2. granted'[e] = [granted[e] EXCEPT ![call[c].time \div e] = @ + call[c].n]
    BY DEF Grant
  <2> QED BY <2>1, <2>2 DEF TypeInv, BucketType
<1> QED BY <1>3, <1>4

LEMMA GrantShape ==
  ASSUME TypeInv, AllCovered, Shape, UNCHANGED <<setup, callFrame>>, NEW c \in Callers,
         call[c].pc \in {"count", "note"}, Later(call[c].d) = {},
         call' = [call EXCEPT ![c] = Idle], Grant(c),
         \A e \in Durations : bkt'[e].time = bkt[e].time
  PROVE  Shape'
<1>0. /\ UNCHANGED <<now, lastSync, rx, net>>
      /\ call \in [Callers -> CallType] /\ Idle.pc = "idle"
  BY DEF callFrame, TypeInv, Idle
<1>1. call'[c] = Idle /\ \A x \in Callers \ {c} : call'[x] = call[x]
  BY <1>0
<1>2. c \in Allocating
  BY DEF Allocating
<1>3. \A x \in Callers : call[x].pc \notin TurnoverSteps
  <2>1. ASSUME NEW x \in Callers, call[x].pc \in TurnoverSteps PROVE FALSE
    <3>1. TurningOver /\ x \in Allocating
      BY <2>1 DEF TurningOver, Allocating, TurnoverSteps
    <3>2. x = c
      BY <1>2, <3>1 DEF Shape, Alone
    <3> QED BY <2>1, <3>2 DEF TurnoverSteps
  <2> QED BY <2>1
<1>4. rx.pc \notin {"clear", "sync"}
  <2>1. ASSUME rx.pc \in {"clear", "sync"} PROVE FALSE
    <3>1. TurningOver /\ Syncing
      BY <2>1 DEF TurningOver, Syncing, RefreshSteps
    <3> QED BY <1>2, <3>1 DEF Shape, Alone
  <2> QED BY <2>1
<1>5. SyncOK'
  BY <1>0, <1>4, SyncKept DEF Shape
<1>6. Alone'
  <2>1. Allocating' \subseteq Allocating
    BY <1>0, <1>1 DEF Allocating
  <2>2. Syncing' = Syncing
    BY <1>0 DEF Syncing
  <2>3. ~TurningOver'
    BY <1>0, <1>1, <1>3, <1>4 DEF TurningOver, TurnoverSteps
  <2> QED BY <1>0, <2>1, <2>2, <2>3, AloneKept DEF Shape
<1>7. BucketOK'
  <2>1. Durations' = Durations /\ Periods' = Periods
    BY SetupStable
  <2>2. CallOK(call[c])
    BY DEF Shape
  <2>3. ASSUME NEW e \in Durations, NEW p \in Periods, p > bkt'[e].time
        PROVE  granted'[e][p] = 0
    <3>1. bkt[e].time \in Nat /\ p \in Nat /\ granted[e] \in [Periods -> Nat]
      BY DEF TypeInv, BucketType, Periods
    <3>2. p # bkt[e].time
      BY <2>3, <3>1
    <3>3. granted'[e][p] = granted[e][p]
      BY <2>2, <3>1, <3>2, GrantPlace
    <3> QED BY <2>3, <3>3 DEF Shape, BucketOK
  <2>4. \A e \in Durations : bkt'[e].time <= now' \div e
    BY <1>0 DEF Shape, BucketOK
  <2> QED BY <2>1, <2>3, <2>4 DEF BucketOK
<1>8. ASSUME NEW x \in Callers PROVE CallOK(call[x])'
  <2>1. CASE x = c
    BY <1>0, <1>1, <2>1 DEF CallOK
  <2>2. CASE x # c
    <3> DEFINE j == call[x]
    <3>1. /\ j \in CallType /\ CallOK(j) /\ j.pc \notin TurnoverSteps /\ call'[x] = j
      BY <1>0, <1>1, <1>3, <2>2 DEF Shape
    <3> HIDE DEF j
    <3> QED BY <1>0, <3>1, CallKept
  <2> QED BY <2>1, <2>2
<1> QED BY <1>5, <1>6, <1>7, <1>8 DEF Shape

LEMMA AllocateShape ==
  ASSUME TypeInv, AllCovered, Shape, UNCHANGED setup, NEW c \in Callers, Allocate(c)
  PROVE  Shape'
<1>0. PICK n \in setup.asked :
        call' = [call EXCEPT ![c] = [Idle EXCEPT !.pc = "mode", !.time = now, !.n = n]]
  BY DEF Allocate
<1> DEFINE k == [Idle EXCEPT !.pc = "mode", !.time = now, !.n = n]
<1>1. /\ UNCHANGED <<now, lastSync, rx, net, bkt, granted>> /\ MayEnter
      /\ call \in [Callers -> CallType] /\ n \in Nat /\ First \in Durations
      /\ Durations \subseteq Nat \ {0} /\ QuietTurnover
  BY SetupFacts, CoveredFacts DEF Allocate, callFrame, TypeInv
<1>2. /\ k \in CallType /\ k.pc = "mode" /\ k.time = now /\ k.d = First
  BY <1>1 DEF Idle, CallType, CallPcs, TypeInv
<1>3. call'[c] = k /\ \A x \in Callers \ {c} : call'[x] = call[x]
  BY <1>0, <1>1
<1> HIDE DEF k
<1>4. SyncOK' /\ BucketOK'
  BY <1>1, SyncKept, BucketKept DEF Shape
<1>5. Alone'
  <2>1. Durations' = Durations
    BY SetupStable
  <2>2. ~TurningOver'
    BY <1>1, <1>2, <1>3 DEF MayEnter, TurningOver, TurnoverSteps
  <2>3. ASSUME PeriodStarts(now)' PROVE Allocating' = {c} /\ ~Syncing'
    <3>1. PeriodStarts(now)
      BY <1>1, <2>1, <2>3 DEF PeriodStarts
    <3>2. Allocating = {} /\ ~Syncing
      BY <1>1, <3>1 DEF MayEnter
    <3> QED BY <1>1, <1>2, <1>3, <3>2 DEF Allocating, Syncing
  <2> QED BY <2>2, <2>3 DEF Alone
<1>6. CallOK(k)
  BY <1>1, <1>2, SetupFacts DEF CallOK, Forward, TurnoverSteps, TypeInv
<1>7. ASSUME NEW x \in Callers PROVE CallOK(call[x])'
  <2> DEFINE j == call'[x]
  <2>1. j \in CallType /\ CallOK(j)
    BY <1>1, <1>2, <1>3, <1>6 DEF Shape
  <2>2. j.pc \in TurnoverSteps => granted'[j.d][bkt[j.d].time] = 0
    BY <1>1, <2>1 DEF CallOK, TurnoverSteps
  <2> HIDE DEF j
  <2>3. call'[x] = j
    BY DEF j
  <2> QED BY <1>1, <2>1, <2>2, <2>3, CallKept
<1> QED BY <1>4, <1>5, <1>7 DEF Shape

(* Under a quiet turnover the exchange of bucket_time_ succeeds, and       *)
(* nobody else is in the bucket.                                           *)
LEMMA SwapPlace ==
  ASSUME TypeInv, Shape, NEW c \in Callers, SwapBucketTime(c)
  PROVE  /\ bkt' = [bkt EXCEPT ![call[c].d].time = now \div call[c].d]
         /\ call' = [call EXCEPT ![c].pc = "clear"]
         /\ granted' = granted /\ UNCHANGED callFrame
         /\ bkt[call[c].d].time < now \div call[c].d /\ now \div call[c].d \in Periods
         /\ \A x \in Callers : call[x].pc # "idle" => x = c
         /\ ~Syncing
<1>1. call[c].pc = "cas" /\ CallOK(call[c]) /\ call[c].d \in Durations
  BY DEF SwapBucketTime, At, Shape, TypeInv, CallType
<1>2. /\ bkt[call[c].d].time = call[c].seen /\ call[c].seen # now \div call[c].d
      /\ Expect(c) = now \div call[c].d
  BY <1>1 DEF CallOK, Expect
<1>3. bkt[call[c].d].time < now \div call[c].d /\ now \div call[c].d \in Periods
  <2>1. bkt[call[c].d].time <= now \div call[c].d /\ bkt[call[c].d].time \in Nat
    BY <1>1 DEF Shape, BucketOK, TypeInv, BucketType, Periods
  <2>2. now \div call[c].d \in Periods /\ now \div call[c].d \in Nat
    BY <1>1, PeriodsFacts DEF TypeInv
  <2> QED BY <1>2, <2>1, <2>2
<1>4. PeriodStarts(now) /\ c \in Allocating
  BY <1>1, <1>2 DEF PeriodStarts, Allocating
<1>5. ~Syncing /\ \A x \in Allocating : x = c
  BY <1>4 DEF Shape, Alone
<1> QED BY <1>2, <1>3, <1>5 DEF SwapBucketTime, Goto, Allocating

LEMMA SwapShape ==
  ASSUME TypeInv, AllCovered, Shape, UNCHANGED setup, NEW c \in Callers, SwapBucketTime(c)
  PROVE  Shape'
<1> DEFINE d == call[c].d
<1>0. /\ bkt' = [bkt EXCEPT ![d].time = now \div d]
      /\ call' = [call EXCEPT ![c].pc = "clear"]
      /\ granted' = granted /\ UNCHANGED <<now, lastSync, rx, net>>
      /\ bkt[d].time < now \div d /\ now \div d \in Periods
      /\ \A x \in Callers : call[x].pc # "idle" => x = c
      /\ ~Syncing
  BY SwapPlace DEF callFrame
<1>1. /\ d \in Durations /\ call[c].pc = "cas" /\ CallOK(call[c])
      /\ call \in [Callers -> CallType] /\ bkt \in [Durations -> BucketType]
  BY DEF SwapBucketTime, At, Shape, TypeInv, CallType
<1>2. /\ call'[c] = [call[c] EXCEPT !.pc = "clear"]
      /\ \A x \in Callers \ {c} : call'[x] = call[x]
  BY <1>0, <1>1
<1>3. /\ bkt'[d].time = now \div d
      /\ \A e \in Durations \ {d} : bkt'[e].time = bkt[e].time
  BY <1>0, <1>1 DEF BucketType
<1>4. /\ call'[c].pc = "clear" /\ call'[c].d = d /\ call'[c].time = call[c].time
      /\ call'[c].remote = call[c].remote
  BY <1>1, <1>2 DEF CallType
<1>5. Durations' = Durations /\ Periods' = Periods /\ First' = First /\ Global' = Global
  BY SetupStable
<1> HIDE DEF d
<1>6. SyncOK'
  <2>1. Syncing' = Syncing
    BY <1>0 DEF Syncing
  <2> QED BY <1>0, <1>5, <2>1 DEF SyncOK, Shape, Syncing, RefreshSteps
<1>7. Alone'
  <2>1. Allocating' \subseteq {c}
    BY <1>0, <1>2 DEF Allocating
  <2>2. ~Syncing'
    BY <1>0 DEF Syncing
  <2> QED BY <2>1, <2>2 DEF Alone
<1>8. granted[d][now \div d] = 0
  BY <1>0, <1>1 DEF Shape, BucketOK
<1>9. BucketOK'
  <2>1. ASSUME NEW e \in Durations PROVE bkt'[e].time <= now \div e
    <3>1. now \div e \in Nat
      BY PeriodsFacts DEF TypeInv
    <3> QED BY <1>3, <3>1 DEF Shape, BucketOK
  <2>2. ASSUME NEW e \in Durations, NEW p \in Periods, p > bkt'[e].time
        PROVE  granted[e][p] = 0
    <3>1. bkt[e].time \in Nat /\ p \in Nat
      BY <1>1 DEF BucketType, Periods
    <3>2. now \div d \in Nat
      BY <1>0 DEF Periods
    <3>3. p > bkt[e].time
      BY <1>0, <1>3, <2>2, <3>1, <3>2
    <3> QED BY <3>3 DEF Shape, BucketOK
  <2> QED BY <1>0, <1>5, <2>1, <2>2 DEF BucketOK
<1>10. ASSUME NEW x \in Callers PROVE CallOK(call[x])'
  <2>1. CASE x # c
    BY <1>0, <1>2, <2>1 DEF CallOK
  <2>2. CASE x = c
    <3>1. \A e \in Durations : call[c].time \div e = now \div e
      BY <1>1 DEF CallOK
    <3>2. \A e \in Durations : e < d => bkt[e].time = now \div e
      BY <1>1 DEF CallOK, Forward, d
    <3>3. \A e \in Durations : e < d => bkt'[e].time = now \div e
      BY <1>1, <1>3, <3>2, SetupFacts
    <3>4. call[c].time <= now /\ call[c].remote = Global
      BY <1>1 DEF CallOK
    <3> QED BY <1>0, <1>3, <1>4, <1>5, <1>8, <2>2, <3>1, <3>3, <3>4
            DEF CallOK, TurnoverSteps, Forward
  <2> QED BY <2>1, <2>2
<1> QED BY <1>6, <1>7, <1>9, <1>10 DEF Shape

LEMMA GotoShape ==
  ASSUME TypeInv, AllCovered, Shape, UNCHANGED <<setup, callFrame>>, granted' = granted,
         NEW c \in Callers, NEW pc \in CallPcs, Goto(c, pc), call[c].pc # "idle",
         CallOK([call[c] EXCEPT !.pc = pc]),
         pc \in TurnoverSteps => call[c].pc \in TurnoverSteps,
         \A e \in Durations : bkt'[e].time = bkt[e].time
  PROVE  Shape'
<1> DEFINE k == [call[c] EXCEPT !.pc = pc]
<1>1. call \in [Callers -> CallType]
  BY DEF TypeInv
<1>2. k \in CallType /\ k.pc = pc /\ call' = [call EXCEPT ![c] = k]
  BY <1>1 DEF CallType, Goto
<1>3. CallOK(k)
  OBVIOUS
<1> HIDE DEF k
<1> QED BY <1>2, <1>3, MoveShape

LEMMA ViolatedShape ==
  ASSUME TypeInv, AllCovered, Shape, UNCHANGED <<setup, callFrame>>,
         NEW c \in Callers, Violated(c), call[c].pc \in {"count", "take"},
         \A e \in Durations : bkt'[e].time = bkt[e].time
  PROVE  Shape'
<1> DEFINE k == [call[c] EXCEPT !.pc = "return", !.d = First, !.fail = call[c].d]
<1>1. /\ call \in [Callers -> CallType] /\ call[c].d \in Durations /\ First \in Durations
      /\ Durations \subseteq Nat \ {0} /\ First <= call[c].d
  BY SetupFacts DEF TypeInv, CallType
<1>2. call' = [call EXCEPT ![c] = k] /\ granted' = granted
  BY <1>1, CallIs DEF Violated
<1>3. /\ k \in CallType /\ k.pc = "return" /\ k.d = First /\ k.fail = call[c].d
      /\ k.time = call[c].time /\ k.remote = call[c].remote
  <2>1. call[c] \in CallType /\ "return" \in CallPcs
    BY <1>1, SomePcs
  <2> QED BY <1>1, <2>1 DEF CallType
<1>4. CallOK(call[c])
  BY DEF Shape
<1>5. ASSUME NEW e \in Durations, e <= call[c].d PROVE bkt[e].time = now \div e
  <2>1. e \in Nat /\ call[c].d \in Nat
    BY <1>1
  <2>2. e < call[c].d \/ e = call[c].d
    BY <1>5, <2>1
  <2> QED BY <1>4, <2>2 DEF CallOK, Forward
<1> HIDE DEF k
<1>6. CallOK(k)
  BY <1>1, <1>3, <1>4, <1>5 DEF CallOK, TurnoverSteps, Forward
<1> QED BY <1>2, <1>3, <1>6, MoveShape DEF TurnoverSteps

LEMMA TakenShape ==
  ASSUME TypeInv, AllCovered, Shape, UNCHANGED <<setup, callFrame>>,
         NEW c \in Callers, Taken(c), call[c].pc \in {"count", "note"},
         \A e \in Durations : bkt'[e].time = bkt[e].time
  PROVE  Shape'
<1>1. CASE Later(call[c].d) = {}
  BY <1>1, GrantShape DEF Taken
<1>2. CASE Later(call[c].d) # {}
  <2> DEFINE m == Min(Later(call[c].d))
             k == [call[c] EXCEPT !.pc = "load", !.d = m]
  <2>1. /\ call \in [Callers -> CallType] /\ call[c].d \in Durations
        /\ Durations \subseteq Nat \ {0} /\ CallOK(call[c])
    BY SetupFacts DEF TypeInv, CallType, Shape
  <2>2. m \in Durations /\ \A e \in Durations : e < m => e <= call[c].d
    BY <1>2, <2>1, LaterFacts
  <2>3. /\ call' = [call EXCEPT ![c].pc = "load", ![c].d = m]
        /\ granted' = granted
    BY <1>2 DEF Taken
  <2> HIDE DEF m
  <2>4. call' = [call EXCEPT ![c] = k]
    BY <2>1, <2>3, CallIs
  <2>5. /\ k \in CallType /\ k.pc = "load" /\ k.d = m
        /\ k.time = call[c].time /\ k.remote = call[c].remote
    <3>1. call[c] \in CallType /\ "load" \in CallPcs
      BY <2>1, <2>2, SomePcs
    <3> QED BY <2>1, <2>2, <3>1 DEF CallType
  <2>6. ASSUME NEW e \in Durations, e < m PROVE bkt[e].time = now \div e
    <3>1. e \in Nat /\ call[c].d \in Nat /\ e <= call[c].d
      BY <2>1, <2>2, <2>6
    <3>2. e < call[c].d \/ e = call[c].d
      BY <3>1
    <3> QED BY <2>1, <3>2 DEF CallOK, Forward
  <2> HIDE DEF k
  <2>7. CallOK(k)
    BY <2>1, <2>5, <2>6 DEF CallOK, TurnoverSteps, Forward
  <2> QED BY <2>3, <2>4, <2>5, <2>7, MoveShape DEF TurnoverSteps
<1> QED BY <1>1, <1>2

LEMMA ReturnedShape ==
  ASSUME TypeInv, AllCovered, Shape, UNCHANGED <<setup, callFrame>>,
         NEW c \in Callers, Returned(c), call[c].pc \in {"return", "give"},
         \A e \in Durations : bkt'[e].time = bkt[e].time
  PROVE  Shape'
<1>0. /\ call \in [Callers -> CallType] /\ call[c].d \in Durations
      /\ call[c].fail \in Durations
      /\ Durations \subseteq Nat \ {0} /\ CallOK(call[c]) /\ ~setup.pass
  BY SetupFacts, CoveredFacts DEF TypeInv, CallType, Shape
<1>1. call[c].d <= call[c].fail /\ call[c].d \in Nat /\ call[c].fail \in Nat
  BY <1>0 DEF CallOK
<1>2. CASE call[c].d = call[c].fail
  <2>1. call' = [call EXCEPT ![c] = Idle] /\ granted' = granted
    BY <1>0, <1>2 DEF Returned
  <2>2. Idle \in CallType /\ Idle.pc = "idle"
    BY SetupFacts DEF Idle, CallType, CallPcs
  <2>3. CallOK(Idle)
    BY <2>2 DEF CallOK
  <2> HIDE DEF Idle
  <2> QED BY <2>1, <2>2, <2>3, MoveShape DEF TurnoverSteps
<1>3. CASE call[c].d # call[c].fail
  <2> DEFINE m == Min(Later(call[c].d))
             k == [call[c] EXCEPT !.pc = "return", !.d = m]
  <2>1. /\ call' = [call EXCEPT ![c].pc = "return", ![c].d = m]
        /\ granted' = granted
    BY <1>3 DEF Returned
  <2>2. call[c].fail \in Later(call[c].d)
    <3>1. call[c].fail > call[c].d
      BY <1>1, <1>3
    <3> QED BY <1>0, <3>1 DEF Later
  <2>3. m \in Durations /\ \A e \in Durations : e < m => e <= call[c].d
    BY <1>0, <2>2, LaterFacts
  <2>4. m <= call[c].fail
    <3>1. m \in Nat
      BY <1>0, <2>3
    <3>2. call[c].fail < m => call[c].fail <= call[c].d
      BY <1>0, <2>3
    <3> HIDE DEF m
    <3> QED BY <1>1, <1>3, <3>1, <3>2
  <2> HIDE DEF m
  <2>5. call' = [call EXCEPT ![c] = k]
    BY <1>0, <2>1, CallIs
  <2>6. /\ k \in CallType /\ k.pc = "return" /\ k.d = m /\ k.fail = call[c].fail
        /\ k.time = call[c].time /\ k.remote = call[c].remote
    <3>1. call[c] \in CallType /\ "return" \in CallPcs
      BY <1>0, <2>3, SomePcs
    <3> QED BY <1>0, <2>3, <3>1 DEF CallType
  <2> HIDE DEF k
  <2>7. CallOK(k)
    BY <1>0, <2>4, <2>6 DEF CallOK, TurnoverSteps, Forward
  <2> QED BY <2>1, <2>5, <2>6, <2>7, MoveShape DEF TurnoverSteps
<1> QED BY <1>2, <1>3

(* Only the exchange of bucket_time_ moves a bucket to another period.     *)
LEMMA TimesKept ==
  ASSUME TypeInv, NEW d,
         \/ bkt' = bkt
         \/ \E v : bkt' = [bkt EXCEPT ![d].stat = v]
         \/ \E v : bkt' = [bkt EXCEPT ![d].total = v]
         \/ \E v : bkt' = [bkt EXCEPT ![d].left = v]
         \/ \E v : bkt' = [bkt EXCEPT ![d].sync = v]
  PROVE  \A e \in Durations : bkt'[e].time = bkt[e].time
<1>1. bkt \in [Durations -> BucketType]
  BY DEF TypeInv
<1> QED BY <1>1 DEF BucketType

LEMMA CallerShape ==
  ASSUME TypeInv, AllCovered, Shape, UNCHANGED setup, NEW c \in Callers, GetQuota(c)
  PROVE  Shape'
<1> DEFINE k == call[c]
<1>1. /\ k \in CallType /\ k.d \in Durations /\ CallOK(k)
      /\ call \in [Callers -> CallType] /\ bkt \in [Durations -> BucketType]
      /\ k.time \in Nat /\ now \in Nat /\ lastSync \in Nat
  BY DEF TypeInv, CallType, Shape
<1>2. \A x \in CallPcs : LET j == [k EXCEPT !.pc = x]
                         IN  /\ j.pc = x /\ j.d = k.d /\ j.time = k.time
                             /\ j.remote = k.remote /\ j.fail = k.fail /\ j.seen = k.seen
  BY <1>1 DEF CallType
<1> HIDE DEF k
<1>3. CASE Allocate(c)
  BY <1>3, AllocateShape
<1>4. CASE UseRemoteQuota(c)
  <2> DEFINE r == Global /\ call[c].time < lastSync + First
             j == [call[c] EXCEPT !.pc = "load", !.remote = r]
  <2>1. /\ call' = [call EXCEPT ![c].pc = "load", ![c].remote = r]
        /\ k.pc = "mode" /\ UNCHANGED <<bkt, granted, callFrame>>
    BY <1>4 DEF UseRemoteQuota, At, k
  <2>2. r \in BOOLEAN /\ r = Global
    <3>1. First \in Nat /\ Global \in BOOLEAN /\ k.time <= now
      BY <1>1, <2>1, SetupFacts DEF CallOK
    <3>2. Global => now < lastSync + First
      BY DEF Shape, SyncOK
    <3>3. Global => call[c].time < lastSync + First
      BY <1>1, <3>1, <3>2 DEF k
    <3> QED BY <3>1, <3>3
  <2> HIDE DEF r
  <2>3. call' = [call EXCEPT ![c] = j]
    BY <1>1, <2>1, <2>2 DEF CallType
  <2>4. /\ j \in CallType /\ j.pc = "load" /\ j.d = k.d /\ j.time = k.time
        /\ j.remote = Global
    BY <1>1, <2>2, SomePcs DEF CallType, k
  <2> HIDE DEF j
  <2>5. CallOK(j)
    BY <1>1, <2>1, <2>4 DEF CallOK, Forward, TurnoverSteps
  <2> QED BY <2>1, <2>3, <2>4, <2>5, MoveShape DEF TurnoverSteps, k
<1>5. CASE LoadBucketTime(c)
  <2> DEFINE x == IF bkt[k.d].time = Expect(c) THEN "count" ELSE "cas"
             j == [call[c] EXCEPT !.seen = bkt[k.d].time, !.pc = x]
  <2>1. /\ call' = [call EXCEPT ![c].seen = bkt[k.d].time, ![c].pc = x]
        /\ k.pc = "load" /\ UNCHANGED <<bkt, granted, callFrame>>
    BY <1>5 DEF LoadBucketTime, At, k
  <2>2. x \in CallPcs /\ bkt[k.d].time \in Nat /\ x \in {"count", "cas"}
    BY <1>1, SomePcs DEF BucketType, Periods
  <2>3. Expect(c) = now \div k.d
    BY <1>1, <2>1 DEF Expect, CallOK, k
  <2>4. x = "count" => bkt[k.d].time = now \div k.d
    BY <2>3
  <2>5. x = "cas" => bkt[k.d].time # now \div k.d
    BY <2>3
  <2> HIDE DEF x
  <2>6. call' = [call EXCEPT ![c] = j]
    BY <1>1, <2>1, <2>2 DEF CallType
  <2>7. /\ j \in CallType /\ j.pc = x /\ j.d = k.d /\ j.time = k.time
        /\ j.remote = k.remote /\ j.seen = bkt[k.d].time
    BY <1>1, <2>2 DEF CallType, k
  <2> HIDE DEF j
  <2>8. CallOK(j)
    BY <1>1, <2>1, <2>2, <2>4, <2>5, <2>7 DEF CallOK, Forward, TurnoverSteps
  <2> QED BY <2>1, <2>2, <2>6, <2>7, <2>8, MoveShape DEF TurnoverSteps, k
<1>6. CASE SwapBucketTime(c)
  BY <1>6, SwapShape
<1>7. ASSUME NEW x \in {"total", "left", "sync", "count"}, k.pc \in TurnoverSteps,
             Goto(c, x), UNCHANGED <<granted, callFrame>>,
             \A e \in Durations : bkt'[e].time = bkt[e].time
      PROVE  Shape'
  <2>1. x \in CallPcs
    BY SomePcs
  <2>2. CallOK([k EXCEPT !.pc = x])
    BY <1>1, <1>2, <1>7, <2>1 DEF CallOK, TurnoverSteps, Forward
  <2> QED BY <1>7, <2>1, <2>2, GotoShape DEF k, TurnoverSteps
<1>8. CASE ResetStat(c)
  BY <1>7, <1>8, TimesKept DEF ResetStat, At, TurnoverSteps, k
<1>9. CASE ResetRemoteTotal(c)
  BY <1>7, <1>9, TimesKept DEF ResetRemoteTotal, At, TurnoverSteps, k
<1>10. CASE ResetRemoteLeft(c)
  BY <1>7, <1>10, TimesKept DEF ResetRemoteLeft, At, TurnoverSteps, k
<1>11. CASE ResetNeedSync(c)
  BY <1>7, <1>11, TimesKept DEF ResetNeedSync, At, TurnoverSteps, k
<1>12. CASE CountRequest(c)
  <2>1. /\ k.pc = "count" /\ UNCHANGED callFrame
        /\ bkt' = [bkt EXCEPT ![k.d].stat = bkt[k.d].stat + k.n]
        /\ \/ k.remote /\ Goto(c, "take") /\ UNCHANGED granted
           \/ Violated(c) \/ Taken(c)
    BY <1>12 DEF CountRequest, At, k
  <2>2. \A e \in Durations : bkt'[e].time = bkt[e].time
    BY <2>1, TimesKept
  <2>3. CASE k.remote /\ Goto(c, "take") /\ UNCHANGED granted
    <3>1. Global
      BY <1>1, <2>1, <2>3 DEF CallOK
    <3>2. CallOK([k EXCEPT !.pc = "take"])
      BY <1>1, <1>2, <2>1, <3>1, SomePcs DEF CallOK, TurnoverSteps, Forward
    <3> QED BY <2>1, <2>2, <2>3, <3>2, GotoShape, SomePcs DEF k, TurnoverSteps
  <2> QED BY <2>1, <2>2, <2>3, ViolatedShape, TakenShape DEF k
<1>13. CASE TakeRemoteToken(c)
  <2>1. /\ k.pc = "take" /\ UNCHANGED callFrame
        /\ bkt' = [bkt EXCEPT ![k.d].left = bkt[k.d].left - k.n]
        /\ Violated(c) \/ (Goto(c, "note") /\ UNCHANGED granted)
    BY <1>13 DEF TakeRemoteToken, At, k
  <2>2. \A e \in Durations : bkt'[e].time = bkt[e].time
    BY <2>1, TimesKept
  <2>3. CASE Goto(c, "note") /\ UNCHANGED granted
    <3>1. CallOK([k EXCEPT !.pc = "note"])
      BY <1>1, <1>2, <2>1, SomePcs DEF CallOK, TurnoverSteps, Forward
    <3> QED BY <2>1, <2>2, <2>3, <3>1, GotoShape, SomePcs DEF k, TurnoverSteps
  <2> QED BY <2>1, <2>2, <2>3, ViolatedShape DEF k
<1>14. CASE AddNeedSync(c)
  <2>1. /\ k.pc = "note" /\ UNCHANGED callFrame /\ Taken(c)
        /\ bkt' = [bkt EXCEPT ![k.d].sync = bkt[k.d].sync + k.n]
    BY <1>14 DEF AddNeedSync, At, k
  <2> QED BY <2>1, TimesKept, TakenShape DEF k
<1>15. CASE ReturnStat(c)
  <2>1. /\ k.pc = "return" /\ UNCHANGED callFrame
        /\ bkt' = [bkt EXCEPT ![k.d].stat = bkt[k.d].stat - k.n]
        /\ (k.remote /\ Goto(c, "give") /\ UNCHANGED granted) \/ Returned(c)
    BY <1>15 DEF ReturnStat, At, k
  <2>2. \A e \in Durations : bkt'[e].time = bkt[e].time
    BY <2>1, TimesKept
  <2>3. CASE k.remote /\ Goto(c, "give") /\ UNCHANGED granted
    <3>1. Global
      BY <1>1, <2>1, <2>3 DEF CallOK
    <3>2. CallOK([k EXCEPT !.pc = "give"])
      BY <1>1, <1>2, <2>1, <3>1, SomePcs DEF CallOK, TurnoverSteps, Forward
    <3> QED BY <2>1, <2>2, <2>3, <3>2, GotoShape, SomePcs DEF k, TurnoverSteps
  <2> QED BY <2>1, <2>2, <2>3, ReturnedShape DEF k
<1>16. CASE ReturnRemoteToken(c)
  <2>1. /\ k.pc = "give" /\ UNCHANGED callFrame /\ Returned(c)
        /\ bkt' = [bkt EXCEPT ![k.d].left = bkt[k.d].left + k.n]
    BY <1>16 DEF ReturnRemoteToken, At, k
  <2> QED BY <2>1, TimesKept, ReturnedShape DEF k
<1> QED BY <1>3, <1>4, <1>5, <1>6, <1>8, <1>9, <1>10, <1>11, <1>12, <1>13, <1>14,
           <1>15, <1>16 DEF GetQuota

(* A step of the sync task that stays out of, or inside, the bucket.       *)
LEMMA SyncMove ==
  ASSUME TypeInv, Shape, UNCHANGED <<setup, now, call, granted>>, SyncOK',
         \A e \in Durations : bkt'[e].time = bkt[e].time,
         Syncing' => Syncing \/ MayEnter, QuietTurnover,
         rx'.pc \in {"clear", "sync"} => rx.pc \in {"clear", "sync"}
  PROVE  Shape'
<1>1. Allocating' = Allocating
  BY DEF Allocating
<1>2. TurningOver' => TurningOver
  BY DEF TurningOver
<1>3. Alone'
  <2>1. CASE Syncing' => Syncing
    BY <1>1, <1>2, <2>1, AloneKept DEF Shape
  <2>2. CASE MayEnter
    <3>1. ~TurningOver'
      BY <1>2, <2>2 DEF MayEnter
    <3>2. Durations' = Durations
      BY SetupStable
    <3>3. PeriodStarts(now)' => PeriodStarts(now)
      BY <3>2 DEF PeriodStarts
    <3>4. PeriodStarts(now)' => Allocating' = {}
      BY <1>1, <2>2, <3>3 DEF MayEnter
    <3> QED BY <3>1, <3>4 DEF Alone
  <2> QED BY <2>1, <2>2
<1>4. BucketOK'
  BY BucketKept DEF Shape
<1>5. ASSUME NEW x \in Callers PROVE CallOK(call[x])'
  <2> DEFINE j == call[x]
  <2>1. j \in CallType /\ CallOK(j) /\ call'[x] = j
    BY DEF Shape, TypeInv
  <2>2. j.pc \in TurnoverSteps => granted'[j.d][bkt[j.d].time] = 0
    BY <2>1 DEF CallOK, TurnoverSteps
  <2> HIDE DEF j
  <2> QED BY <2>1, <2>2, CallKept
<1> QED BY <1>3, <1>4, <1>5 DEF Shape

LEMMA RefreshPlace ==
  ASSUME TypeInv, Shape, SwapRefreshTime
  PROVE  /\ bkt' = [bkt EXCEPT ![rx.d].time = now \div rx.d]
         /\ rx' = [rx EXCEPT !.pc = "clear"]
         /\ UNCHANGED <<now, call, granted, lastSync, net>>
         /\ bkt[rx.d].time < now \div rx.d /\ now \div rx.d \in Periods
         /\ \A x \in Callers : call[x].pc = "idle"
<1>1. rx.pc = "cas" /\ rx.d \in Durations /\ Syncing
  BY DEF SwapRefreshTime, TypeInv, RxType, Syncing, RefreshSteps
<1>2. /\ bkt[rx.d].time = rx.seen /\ rx.seen # now \div rx.d
      /\ RefreshPeriod = now \div rx.d
  BY <1>1 DEF Shape, SyncOK, RefreshPeriod
<1>3. bkt[rx.d].time < now \div rx.d /\ now \div rx.d \in Periods
  <2>1. bkt[rx.d].time <= now \div rx.d /\ bkt[rx.d].time \in Nat
    BY <1>1 DEF Shape, BucketOK, TypeInv, BucketType, Periods
  <2>2. now \div rx.d \in Periods /\ now \div rx.d \in Nat
    BY <1>1, PeriodsFacts DEF TypeInv
  <2> QED BY <1>2, <2>1, <2>2
<1>4. PeriodStarts(now)
  BY <1>1, <1>2 DEF PeriodStarts
<1>5. Allocating = {}
  BY <1>1, <1>4 DEF Shape, Alone
<1> QED BY <1>2, <1>3, <1>5 DEF SwapRefreshTime, refreshFrame, syncFrame, Allocating

LEMMA RefreshSwapShape ==
  ASSUME TypeInv, AllCovered, Shape, UNCHANGED setup, SwapRefreshTime
  PROVE  Shape'
<1> DEFINE d == rx.d
<1>0. /\ bkt' = [bkt EXCEPT ![d].time = now \div d]
      /\ rx' = [rx EXCEPT !.pc = "clear"]
      /\ UNCHANGED <<now, call, granted, lastSync, net>>
      /\ bkt[d].time < now \div d /\ now \div d \in Periods
      /\ \A x \in Callers : call[x].pc = "idle"
  BY RefreshPlace
<1>1. /\ d \in Durations /\ rx.pc = "cas" /\ rx \in RxType
      /\ bkt \in [Durations -> BucketType]
  BY DEF SwapRefreshTime, TypeInv, RxType
<1>2. rx'.pc = "clear" /\ rx'.d = d /\ rx'.time = rx.time
  BY <1>0, <1>1 DEF RxType
<1>3. /\ bkt'[d].time = now \div d
      /\ \A e \in Durations \ {d} : bkt'[e].time = bkt[e].time
  BY <1>0, <1>1 DEF BucketType
<1>4. Durations' = Durations /\ Periods' = Periods /\ First' = First /\ Global' = Global
  BY SetupStable
<1> HIDE DEF d
<1>5. granted[d][now \div d] = 0
  BY <1>0, <1>1 DEF Shape, BucketOK
<1>6. SyncOK'
  <2>1. Syncing /\ SyncOK
    BY <1>1 DEF Syncing, RefreshSteps, Shape
  <2>2. \A e \in Durations : rx.time \div e = now \div e
    BY <2>1 DEF SyncOK
  <2> QED BY <1>0, <1>1, <1>2, <1>3, <1>4, <1>5, <2>1, <2>2 DEF SyncOK, RefreshSteps
<1>7. Alone'
  BY <1>0 DEF Alone, Allocating
<1>8. BucketOK'
  <2>1. ASSUME NEW e \in Durations PROVE bkt'[e].time <= now \div e
    <3>1. now \div e \in Nat
      BY PeriodsFacts DEF TypeInv
    <3> QED BY <1>3, <3>1 DEF Shape, BucketOK
  <2>2. ASSUME NEW e \in Durations, NEW p \in Periods, p > bkt'[e].time
        PROVE  granted[e][p] = 0
    <3>1. bkt[e].time \in Nat /\ p \in Nat
      BY <1>1 DEF BucketType, Periods
    <3>2. now \div d \in Nat
      BY <1>0 DEF Periods
    <3>3. p > bkt[e].time
      BY <1>0, <1>3, <2>2, <3>1, <3>2
    <3> QED BY <3>3 DEF Shape, BucketOK
  <2> QED BY <1>0, <1>4, <2>1, <2>2 DEF BucketOK
<1>9. \A x \in Callers : CallOK(call[x])'
  BY <1>0 DEF CallOK
<1> QED BY <1>6, <1>7, <1>8, <1>9 DEF Shape

LEMMA SyncShape ==
  ASSUME TypeInv, AllCovered, Shape, UNCHANGED setup, Sync
  PROVE  Shape'
<1>0. SyncOK
  BY DEF Shape
<1>1. Global
  BY <1>0 DEF Sync, SyncOK, SendInit, StartReport, CheckPendingTime, CollectNeedSync,
         ResponseTimeout, ReceiveAnswer, LoadRefreshTime, SwapRefreshTime,
         RefreshResetStat, RefreshResetNeedSync, ReadRemoteTotal, StoreRemoteTotal,
         LookAtTokens, SetTokens
<1>2. /\ rx \in RxType /\ rx.d = First /\ Later(rx.d) = {} /\ First \in Durations
      /\ First \in Nat /\ now \in Nat /\ lastSync \in Nat /\ rx.time \in Nat
      /\ QuietTurnover /\ bkt \in [Durations -> BucketType]
  BY <1>1, SingleBucket, CoveredFacts, SetupFacts DEF TypeInv, RxType
<1>3. /\ Durations' = Durations /\ First' = First /\ Global' = Global /\ NoUse' = NoUse
  BY SetupStable
<1>4. UNCHANGED <<now, call, granted>>
  BY DEF Sync, syncFrame, refreshFrame, SendInit, StartReport, CheckPendingTime,
         CollectNeedSync, ResponseTimeout, ReceiveAnswer, LoadRefreshTime,
         SwapRefreshTime, RefreshResetStat, RefreshResetNeedSync, ReadRemoteTotal,
         StoreRemoteTotal, LookAtTokens, SetTokens
<1>5. CASE SendInit
  <2>1. /\ rx' = [rx EXCEPT !.pc = "wait", !.time = now] /\ net'.kind = "init"
        /\ UNCHANGED <<bkt, lastSync>>
    BY <1>5 DEF SendInit
  <2>2. rx'.pc = "wait" /\ rx'.time = now
    BY <1>2, <2>1 DEF RxType
  <2>3. SyncOK'
    BY <1>0, <1>1, <1>2, <1>3, <1>4, <2>1, <2>2 DEF SyncOK, Syncing, RefreshSteps
  <2> QED BY <1>2, <1>4, <2>1, <2>2, <2>3, SyncMove DEF Syncing, RefreshSteps
<1>6. CASE StartReport
  <2>1. /\ rx' = [rx EXCEPT !.pc = "check", !.time = now, !.used = NoUse, !.d = First]
        /\ UNCHANGED <<bkt, lastSync, net>> /\ MayEnter /\ rx.pc = "ready"
    BY <1>6 DEF StartReport
  <2>2. rx'.pc = "check" /\ rx'.time = now
    BY <1>2, <2>1 DEF RxType
  <2>3. SyncOK'
    BY <1>0, <1>1, <1>2, <1>3, <1>4, <2>1, <2>2 DEF SyncOK, Syncing, RefreshSteps
  <2> QED BY <1>2, <1>4, <2>1, <2>2, <2>3, SyncMove
<1>7. ASSUME NEW used, Reported(used), UNCHANGED lastSync,
             \A e \in Durations : bkt'[e].time = bkt[e].time
      PROVE  Shape'
  <2>1. rx' = [rx EXCEPT !.pc = "wait", !.used = used] /\ net'.kind = "report"
    BY <1>2, <1>7 DEF Reported
  <2>2. rx'.pc = "wait" /\ rx'.time = rx.time
    BY <1>2, <2>1 DEF RxType
  <2>3. SyncOK'
    BY <1>0, <1>1, <1>2, <1>3, <1>4, <1>7, <2>1, <2>2 DEF SyncOK, Syncing, RefreshSteps
  <2> QED BY <1>2, <1>4, <1>7, <2>2, <2>3, SyncMove DEF Syncing, RefreshSteps
<1>8. CASE CheckPendingTime
  <2>1. /\ UNCHANGED <<bkt, lastSync>> /\ rx.pc = "check"
        /\ \/ rx' = [rx EXCEPT !.pc = "collect"] /\ UNCHANGED net
           \/ Reported(rx.used)
    BY <1>8 DEF CheckPendingTime
  <2>2. CASE Reported(rx.used)
    BY <1>7, <2>1, <2>2
  <2>3. CASE rx' = [rx EXCEPT !.pc = "collect"] /\ UNCHANGED net
    <3>1. rx'.pc = "collect" /\ rx'.time = rx.time
      BY <1>2, <2>3 DEF RxType
    <3>2. Syncing' /\ Syncing
      BY <2>1, <3>1 DEF Syncing
    <3>3. SyncOK'
      BY <1>0, <1>1, <1>2, <1>3, <1>4, <2>1, <2>3, <3>1, <3>2 DEF SyncOK, RefreshSteps
    <3> QED BY <1>2, <1>4, <2>1, <3>1, <3>2, <3>3, SyncMove
  <2> QED BY <2>1, <2>2, <2>3
<1>9. CASE CollectNeedSync
  <2>1. /\ bkt' = [bkt EXCEPT ![rx.d].sync = 0] /\ UNCHANGED lastSync
        /\ \E used : Reported(used)
    BY <1>9 DEF CollectNeedSync
  <2>2. \A e \in Durations : bkt'[e].time = bkt[e].time
    BY <2>1, TimesKept
  <2> QED BY <1>7, <2>1, <2>2
<1>10. CASE ResponseTimeout
  <2>1. /\ rx' = [rx EXCEPT !.pc = "init"] /\ net' = NoMessage /\ UNCHANGED <<bkt, lastSync>>
    BY <1>10 DEF ResponseTimeout
  <2>2. rx'.pc = "init" /\ rx'.time = rx.time /\ net'.kind = "none"
    BY <1>2, <2>1 DEF RxType, NoMessage
  <2>3. SyncOK'
    BY <1>0, <1>1, <1>2, <1>3, <1>4, <2>1, <2>2 DEF SyncOK, Syncing, RefreshSteps
  <2> QED BY <1>2, <1>4, <2>1, <2>2, <2>3, SyncMove DEF Syncing, RefreshSteps
<1>11. CASE ReceiveAnswer
  <2>1. PICK used : rx' = [rx EXCEPT !.pc = "load", !.d = First, !.answer = net,
                                     !.used = used, !.time = now]
    BY <1>11 DEF ReceiveAnswer
  <2>2. net' = NoMessage /\ UNCHANGED <<bkt, lastSync>> /\ MayEnter
    BY <1>11 DEF ReceiveAnswer
  <2>3. rx'.pc = "load" /\ rx'.time = now /\ net'.kind = "none"
    BY <1>2, <2>1, <2>2 DEF RxType, NoMessage
  <2>4. SyncOK'
    BY <1>0, <1>1, <1>2, <1>3, <1>4, <2>2, <2>3 DEF SyncOK, Syncing, RefreshSteps
  <2> QED BY <1>2, <1>4, <2>2, <2>3, <2>4, SyncMove

<1>12. ASSUME rx.pc \in RefreshSteps, rx'.pc \in RefreshSteps,
              rx'.time = rx.time, rx'.d = rx.d, UNCHANGED <<net, lastSync>>,
              \A e \in Durations : bkt'[e].time = bkt[e].time,
              rx'.pc = "cas" => rx'.seen = bkt[rx.d].time /\ rx'.seen # now \div rx.d,
              rx'.pc \in {"clear", "sync", "read", "store", "look", "set"} =>
                bkt[rx.d].time = now \div rx.d,
              rx'.pc \in {"clear", "sync"} => rx.pc \in {"clear", "sync"}
       PROVE  Shape'
  <2>1. Syncing /\ Syncing'
    BY <1>12 DEF Syncing
  <2>2. rx'.pc \notin {"init", "wait"} /\ rx.pc \notin {"init", "wait"}
    BY <1>12 DEF RefreshSteps
  <2>3. bkt'[rx.d].time = bkt[rx.d].time
    BY <1>2, <1>12
  <2>4. SyncOK'
    BY <1>0, <1>1, <1>2, <1>3, <1>4, <1>12, <2>1, <2>2, <2>3 DEF SyncOK
  <2> QED BY <1>2, <1>4, <1>12, <2>1, <2>4, SyncMove
<1>13. CASE LoadRefreshTime
  <2> DEFINE x == IF bkt[rx.d].time = RefreshPeriod THEN "read" ELSE "cas"
  <2>1. /\ rx' = [rx EXCEPT !.seen = bkt[rx.d].time, !.pc = x] /\ rx.pc = "load"
        /\ UNCHANGED <<bkt, net, lastSync>>
    BY <1>13 DEF LoadRefreshTime, refreshFrame
  <2>2. RefreshPeriod = now \div rx.d
    BY <1>0, <1>2, <2>1 DEF SyncOK, Syncing, RefreshSteps, RefreshPeriod
  <2>3. /\ x = "cas" => bkt[rx.d].time # now \div rx.d
        /\ x = "read" => bkt[rx.d].time = now \div rx.d
        /\ x \in {"cas", "read"}
    BY <2>2
  <2> HIDE DEF x
  <2>4. rx'.pc = x /\ rx'.time = rx.time /\ rx'.d = rx.d /\ rx'.seen = bkt[rx.d].time
    BY <1>2, <2>1 DEF RxType
  <2> QED BY <1>12, <2>1, <2>3, <2>4 DEF RefreshSteps
<1>14. CASE SwapRefreshTime
  BY <1>14, RefreshSwapShape
<1>15. ASSUME NEW x \in {"sync", "read", "store", "look", "set"}, rx'.pc = x,
              rx.pc \in {"clear", "sync", "read", "store", "look", "set"},
              x = "sync" => rx.pc = "clear",
              rx'.time = rx.time, rx'.d = rx.d, UNCHANGED <<net, lastSync>>,
              \A e \in Durations : bkt'[e].time = bkt[e].time
       PROVE  Shape'
  <2>1. bkt[rx.d].time = now \div rx.d
    BY <1>0, <1>15 DEF SyncOK
  <2> QED BY <1>12, <1>15, <2>1 DEF RefreshSteps
<1>16. CASE RefreshResetStat
  <2>1. /\ rx' = [rx EXCEPT !.pc = "sync"] /\ rx.pc = "clear"
        /\ bkt' = [bkt EXCEPT ![rx.d].stat = 0] /\ UNCHANGED <<net, lastSync>>
    BY <1>16 DEF RefreshResetStat, refreshFrame
  <2>2. rx'.pc = "sync" /\ rx'.time = rx.time /\ rx'.d = rx.d
    BY <1>2, <2>1 DEF RxType
  <2> QED BY <1>15, <2>1, <2>2, TimesKept
<1>17. CASE RefreshResetNeedSync
  <2>1. /\ rx' = [rx EXCEPT !.pc = "read"] /\ rx.pc = "sync"
        /\ bkt' = [bkt EXCEPT ![rx.d].sync = 0] /\ UNCHANGED <<net, lastSync>>
    BY <1>17 DEF RefreshResetNeedSync, refreshFrame
  <2>2. rx'.pc = "read" /\ rx'.time = rx.time /\ rx'.d = rx.d
    BY <1>2, <2>1 DEF RxType
  <2> QED BY <1>15, <2>1, <2>2, TimesKept
<1>18. CASE ReadRemoteTotal
  <2>1. /\ rx' = [rx EXCEPT !.pc = "store", !.last = bkt[rx.d].total] /\ rx.pc = "read"
        /\ UNCHANGED <<bkt, net, lastSync>>
    BY <1>18 DEF ReadRemoteTotal, refreshFrame
  <2>2. rx'.pc = "store" /\ rx'.time = rx.time /\ rx'.d = rx.d
    BY <1>2, <2>1 DEF RxType
  <2> QED BY <1>15, <2>1, <2>2
<1>19. CASE StoreRemoteTotal
  <2>1. /\ rx' = [rx EXCEPT !.pc = "look"] /\ rx.pc = "store"
        /\ bkt' = [bkt EXCEPT ![rx.d].total = RemoteLeft] /\ UNCHANGED <<net, lastSync>>
    BY <1>19 DEF StoreRemoteTotal, refreshFrame
  <2>2. rx'.pc = "look" /\ rx'.time = rx.time /\ rx'.d = rx.d
    BY <1>2, <2>1 DEF RxType
  <2> QED BY <1>15, <2>1, <2>2, TimesKept
<1>20. CASE LookAtTokens
  <2>1. /\ rx' = [rx EXCEPT !.pc = "set", !.left = bkt[rx.d].left,
                            !.total = bkt[rx.d].total]
        /\ rx.pc = "look" /\ UNCHANGED <<bkt, net, lastSync>>
    BY <1>20 DEF LookAtTokens, refreshFrame
  <2>2. rx'.pc = "set" /\ rx'.time = rx.time /\ rx'.d = rx.d
    BY <1>2, <2>1 DEF RxType
  <2> QED BY <1>15, <2>1, <2>2
<1>21. CASE SetTokens
  <2>1. rx.pc = "set" /\ UNCHANGED net
    BY <1>21 DEF SetTokens
  <2>2. CASE bkt[rx.d].left # rx.left
    <3>1. rx' = [rx EXCEPT !.pc = "look"] /\ UNCHANGED <<bkt, lastSync>>
      BY <1>21, <2>2 DEF SetTokens
    <3>2. rx'.pc = "look" /\ rx'.time = rx.time /\ rx'.d = rx.d
      BY <1>2, <3>1 DEF RxType
    <3> QED BY <1>15, <2>1, <3>1, <3>2
  <2>3. CASE bkt[rx.d].left = rx.left
    <3>1. /\ bkt' = [bkt EXCEPT ![rx.d].left = NewRemoteLeft]
          /\ rx' = [Reactor EXCEPT !.pc = "ready"] /\ lastSync' = rx.time
      BY <1>2, <1>21, <2>3 DEF SetTokens
    <3>2. rx'.pc = "ready" /\ rx'.time = 0
      BY <3>1 DEF Reactor
    <3>3. \A e \in Durations : bkt'[e].time = bkt[e].time
      BY <3>1, TimesKept
    <3>4. lastSync <= rx.time /\ rx.time <= now
      BY <1>0, <2>1 DEF SyncOK, RefreshSteps
    <3>5. now < lastSync' + First
      BY <1>0, <1>1, <1>2, <3>1, <3>4 DEF SyncOK
    <3>6. SyncOK'
      BY <1>0, <1>1, <1>2, <1>3, <1>4, <2>1, <3>1, <3>2, <3>4, <3>5
         DEF SyncOK, Syncing, RefreshSteps
    <3> QED BY <1>2, <1>4, <3>2, <3>3, <3>6, SyncMove DEF Syncing, RefreshSteps
  <2> QED BY <2>2, <2>3
<1> QED BY <1>5, <1>6, <1>8, <1>9, <1>10, <1>11, <1>13, <1>14, <1>16, <1>17, <1>18,
           <1>19, <1>20, <1>21 DEF Sync

LEMMA ServerShape ==
  ASSUME TypeInv, Shape, UNCHANGED setup, Answer \/ OtherClient
  PROVE  Shape'
<1>1. UNCHANGED <<now, call, granted, bkt, rx, lastSync>>
  BY DEF Answer, OtherClient
<1>2. SyncOK'
  <2>1. UNCHANGED net \/ (net.kind # "none" /\ net'.kind # "none")
    BY DEF Answer, OtherClient
  <2>2. First' = First /\ Global' = Global /\ Durations' = Durations
    BY SetupStable
  <2> QED BY <1>1, <2>1, <2>2 DEF Shape, SyncOK, Syncing
<1>3. Syncing' = Syncing /\ TurningOver' = TurningOver /\ Allocating' = Allocating
  BY <1>1 DEF Syncing, TurningOver, Allocating
<1>4. Alone' /\ BucketOK'
  BY <1>1, <1>3, AloneKept, BucketKept DEF Shape
<1>5. ASSUME NEW x \in Callers PROVE CallOK(call[x])'
  <2> DEFINE j == call[x]
  <2>1. j \in CallType /\ CallOK(j) /\ call'[x] = j
    BY <1>1 DEF Shape, TypeInv
  <2>2. j.pc \in TurnoverSteps => granted'[j.d][bkt[j.d].time] = 0
    BY <1>1, <2>1 DEF CallOK, TurnoverSteps
  <2> HIDE DEF j
  <2> QED BY <1>1, <2>1, <2>2, CallKept
<1> QED BY <1>2, <1>4, <1>5 DEF Shape

LEMMA TickShape ==
  ASSUME TypeInv, AllCovered, Shape, UNCHANGED setup, Tick
  PROVE  Shape'
<1>1. /\ now' = now + 1 /\ UNCHANGED <<bkt, lastSync, call, rx, net, granted>>
      /\ QuietTurnover /\ now \in Nat /\ lastSync \in Nat
      /\ Durations \subseteq Nat \ {0} /\ First \in Nat
      /\ Durations' = Durations /\ First' = First /\ Global' = Global
      /\ Periods' = Periods
      /\ rx.time \in Nat /\ call \in [Callers -> CallType]
  BY CoveredFacts, SetupFacts, SetupStable DEF Tick, TypeInv, RxType
<1>2. (\E d \in Durations : (now + 1) % d = 0) => Allocating = {} /\ ~Syncing
  BY <1>1 DEF Tick
<1>3. ASSUME NEW d \in Durations, (now + 1) % d # 0 PROVE now' \div d = now \div d
  BY <1>1, <1>3, DivStep
<1>4. \A d \in Durations : now \div d <= now' \div d
  BY <1>1, DivMono
<1>5. Syncing' = Syncing /\ TurningOver' = TurningOver /\ Allocating' = Allocating
  BY <1>1 DEF Syncing, TurningOver, Allocating
<1>6. Allocating # {} \/ Syncing => \A d \in Durations : now' \div d = now \div d
  BY <1>2, <1>3
<1>7. SyncOK'
  <2>1. Global => now' < lastSync + First
    BY <1>1, CoveredFacts DEF Tick
  <2>2. rx.pc \in RefreshSteps => Syncing
    BY DEF Syncing
  <2>3. rx.d \in Durations
    BY DEF TypeInv, RxType
  <2>4. rx.pc \in {"cas", "clear", "sync", "read", "store", "look", "set"} =>
          now' \div rx.d = now \div rx.d
    BY <1>6, <2>2, <2>3 DEF RefreshSteps
  <2>5. rx.time <= now' /\ lastSync <= now'
    BY <1>1 DEF Shape, SyncOK
  <2> QED BY <1>1, <1>5, <1>6, <2>1, <2>4, <2>5 DEF Shape, SyncOK
<1>8. Alone'
  <2>1. CASE Allocating = {}
    BY <1>5, <2>1 DEF Alone
  <2>2. CASE Allocating # {}
    <3>1. PeriodStarts(now)' => PeriodStarts(now)
      BY <1>1, <1>6, <2>2 DEF PeriodStarts
    <3> QED BY <1>5, <3>1 DEF Shape, Alone
  <2> QED BY <2>1, <2>2
<1>9. BucketOK'
  <2>1. ASSUME NEW e \in Durations PROVE bkt[e].time <= now' \div e
    <3>1. bkt[e].time \in Nat /\ now \div e \in Nat /\ now' \div e \in Nat
      <4>1. now' \in Nat /\ e \in Nat \ {0}
        BY <1>1
      <4>2. bkt[e].time \in Nat
        BY DEF TypeInv, BucketType, Periods
      <4> QED BY <1>1, <4>1, <4>2, DivType
    <3> QED BY <1>4, <3>1 DEF Shape, BucketOK
  <2> QED BY <1>1, <2>1 DEF Shape, BucketOK
<1>10. ASSUME NEW x \in Callers PROVE CallOK(call[x])'
  <2>1. CASE call[x].pc = "idle"
    BY <1>1, <2>1 DEF CallOK
  <2>2. CASE call[x].pc # "idle"
    <3>1. \A d \in Durations : now' \div d = now \div d
      BY <1>6, <2>2 DEF Allocating
    <3>2. /\ call[x].d \in Durations /\ call[x].fail \in Durations
          /\ call[x].time \in Nat /\ CallOK(call[x])
      BY <1>1 DEF CallType, Shape
    <3>3. call[x].time <= now'
      BY <1>1, <2>2, <3>2 DEF CallOK
    <3> QED BY <1>1, <2>2, <3>1, <3>2, <3>3 DEF CallOK
  <2> QED BY <2>1, <2>2
<1> QED BY <1>7, <1>8, <1>9, <1>10 DEF Shape

LEMMA ShapeStep ==
  ASSUME TypeInv, AllCovered, Shape, Next
  PROVE  Shape'
BY CallerShape, SyncShape, ServerShape, TickShape DEF Next, Step

-----------------------------------------------------------------------------
(* The counts.                                                             *)

LEMMA ByType ==
  ASSUME NEW k, k.n \in Nat, k.d \in Nat, NEW d \in Nat
  PROVE  /\ CountedBy(k, d) \in Nat /\ PassedBy(k, d) \in Nat /\ HeldBy(k) \in Nat
         /\ PassedBy(k, d) <= CountedBy(k, d)
<1>1. Passed(k, d) => Counted(k, d)
  BY DEF Passed, Counted, Forward, TurnoverSteps
<1> QED BY <1>1 DEF CountedBy, PassedBy, HeldBy

LEMMA SumsType ==
  ASSUME TypeInv, NEW d \in Durations
  PROVE  /\ CountedIn(d) \in Nat /\ PassedIn(d) \in Nat /\ HeldTokens \in Nat
         /\ PassedIn(d) <= CountedIn(d)
<1>1. d \in Nat /\ \A c \in Callers : call[c].n \in Nat /\ call[c].d \in Nat
  BY SetupFacts DEF TypeInv, CallType
<1> DEFINE f == [c \in Callers |-> CountedBy(call[c], d)]
           g == [c \in Callers |-> PassedBy(call[c], d)]
           h == [c \in Callers |-> HeldBy(call[c])]
<1>2. /\ f \in [Callers -> Nat] /\ g \in [Callers -> Nat] /\ h \in [Callers -> Nat]
      /\ \A c \in Callers : g[c] <= f[c]
  BY <1>1, ByType
<1>3. IsFiniteSet(Callers)
  BY ConstantsAssumption
<1>4. CountedIn(d) = Sum(Callers, f) /\ PassedIn(d) = Sum(Callers, g)
      /\ HeldTokens = Sum(Callers, h)
  BY DEF CountedIn, PassedIn, HeldTokens
<1> HIDE DEF f, g, h
<1>5. Sum(Callers, f) \in Nat /\ Sum(Callers, g) \in Nat /\ Sum(Callers, h) \in Nat
  BY <1>2, <1>3, UnitsFinite
<1>6. Sum(Callers, g) <= Sum(Callers, f)
  BY <1>2, <1>3, SumMono
<1> QED BY <1>4, <1>5, <1>6

LEMMA SumsMove ==
  ASSUME TypeInv, NEW c \in Callers, NEW k \in CallType, call' = [call EXCEPT ![c] = k],
         NEW d \in Durations
  PROVE  /\ CountedIn(d)' = CountedIn(d) - CountedBy(call[c], d) + CountedBy(k, d)
         /\ PassedIn(d)' = PassedIn(d) - PassedBy(call[c], d) + PassedBy(k, d)
         /\ HeldTokens' = HeldTokens - HeldBy(call[c]) + HeldBy(k)
<1>1. /\ \A x \in Callers : call[x].n \in Nat /\ call'[x].n \in Nat
      /\ call'[c] = k /\ \A x \in Callers \ {c} : call'[x] = call[x]
      /\ d \in Nat /\ \A x \in Callers : call[x].d \in Nat /\ call'[x].d \in Nat
  BY SetupFacts DEF TypeInv, CallType
<1>2. IsFiniteSet(Callers)
  BY ConstantsAssumption
<1>3. CountedIn(d)' = CountedIn(d) - CountedBy(call[c], d) + CountedBy(k, d)
  <2> DEFINE f == [x \in Callers |-> CountedBy(call[x], d)]
             g == [x \in Callers |-> CountedBy(call'[x], d)]
  <2>1. f \in [Callers -> Nat] /\ g \in [Callers -> Nat]
    BY <1>1, ByType
  <2>2. /\ \A x \in Callers \ {c} : g[x] = f[x]
        /\ f[c] = CountedBy(call[c], d) /\ g[c] = CountedBy(k, d)
    BY <1>1
  <2>3. CountedIn(d) = Sum(Callers, f) /\ CountedIn(d)' = Sum(Callers, g)
    BY DEF CountedIn, CountedBy, Counted
  <2> HIDE DEF f, g
  <2>4. Sum(Callers, g) = Sum(Callers, f) - f[c] + g[c]
    BY <1>2, <2>1, <2>2, SumStep
  <2> QED BY <2>2, <2>3, <2>4
<1>4. PassedIn(d)' = PassedIn(d) - PassedBy(call[c], d) + PassedBy(k, d)
  <2> DEFINE f == [x \in Callers |-> PassedBy(call[x], d)]
             g == [x \in Callers |-> PassedBy(call'[x], d)]
  <2>1. f \in [Callers -> Nat] /\ g \in [Callers -> Nat]
    BY <1>1, ByType
  <2>2. /\ \A x \in Callers \ {c} : g[x] = f[x]
        /\ f[c] = PassedBy(call[c], d) /\ g[c] = PassedBy(k, d)
    BY <1>1
  <2>3. PassedIn(d) = Sum(Callers, f) /\ PassedIn(d)' = Sum(Callers, g)
    BY DEF PassedIn, PassedBy, Passed
  <2> HIDE DEF f, g
  <2>4. Sum(Callers, g) = Sum(Callers, f) - f[c] + g[c]
    BY <1>2, <2>1, <2>2, SumStep
  <2> QED BY <2>2, <2>3, <2>4
<1>5. HeldTokens' = HeldTokens - HeldBy(call[c]) + HeldBy(k)
  <2> DEFINE f == [x \in Callers |-> HeldBy(call[x])]
             g == [x \in Callers |-> HeldBy(call'[x])]
  <2>1. f \in [Callers -> Nat] /\ g \in [Callers -> Nat]
    BY <1>1, ByType
  <2>2. /\ \A x \in Callers \ {c} : g[x] = f[x]
        /\ f[c] = HeldBy(call[c]) /\ g[c] = HeldBy(k)
    BY <1>1
  <2>3. HeldTokens = Sum(Callers, f) /\ HeldTokens' = Sum(Callers, g)
    BY DEF HeldTokens, HeldBy, Held
  <2> HIDE DEF f, g
  <2>4. Sum(Callers, g) = Sum(Callers, f) - f[c] + g[c]
    BY <1>2, <2>1, <2>2, SumStep
  <2> QED BY <2>2, <2>3, <2>4
<1> QED BY <1>3, <1>4, <1>5

LEMMA SumsSame ==
  ASSUME UNCHANGED call, NEW d
  PROVE  CountedIn(d)' = CountedIn(d) /\ PassedIn(d)' = PassedIn(d) /\ HeldTokens' = HeldTokens
BY DEF CountedIn, PassedIn, HeldTokens, CountedBy, PassedBy, HeldBy, Counted, Passed, Held

(* Nobody has counted in a bucket that turns over.                         *)
LEMMA SumsEmpty ==
  ASSUME TypeInv, NEW d \in Durations,
         \A x \in Callers : \/ call[x].pc = "idle"
                            \/ call[x].pc \in Forward /\ call[x].d = d
  PROVE  CountedIn(d) = 0 /\ PassedIn(d) = 0 /\ HeldTokens = 0
<1>1. ASSUME NEW x \in Callers
      PROVE  CountedBy(call[x], d) = 0 /\ PassedBy(call[x], d) = 0 /\ HeldBy(call[x]) = 0
  <2>1. call[x].pc \notin {"take", "note", "return", "give"}
    BY DEF Forward, TurnoverSteps
  <2>2. call[x].d \in Nat
    BY SetupFacts DEF TypeInv, CallType
  <2>3. ~(call[x].pc \in Forward /\ d < call[x].d)
    BY <2>2 DEF Forward, TurnoverSteps
  <2> QED BY <2>1, <2>3 DEF CountedBy, PassedBy, HeldBy, Counted, Passed, Held
<1> DEFINE f == [c \in Callers |-> CountedBy(call[c], d)]
           g == [c \in Callers |-> PassedBy(call[c], d)]
           h == [c \in Callers |-> HeldBy(call[c])]
<1>2. /\ f \in [Callers -> Nat] /\ g \in [Callers -> Nat] /\ h \in [Callers -> Nat]
      /\ \A c \in Callers : f[c] = 0 /\ g[c] = 0 /\ h[c] = 0
  BY <1>1
<1>3. CountedIn(d) = Sum(Callers, f) /\ PassedIn(d) = Sum(Callers, g)
      /\ HeldTokens = Sum(Callers, h)
  BY DEF CountedIn, PassedIn, HeldTokens
<1> HIDE DEF f, g, h
<1> QED BY <1>2, <1>3, SumZero

LEMMA InBound ==
  ASSUME TypeInv, NEW d \in Durations, NEW c \in Callers
  PROVE  PassedIn(d) >= PassedBy(call[c], d) /\ HeldTokens >= HeldBy(call[c])
<1>1. d \in Nat /\ \A x \in Callers : call[x].n \in Nat /\ call[x].d \in Nat
  BY SetupFacts DEF TypeInv, CallType
<1>2. IsFiniteSet(Callers) /\ IsFiniteSet(Callers \ {c})
  BY ConstantsAssumption, FS_RemoveElement
<1>3. ASSUME NEW f \in [Callers -> Nat] PROVE Sum(Callers, f) >= f[c]
  <2> DEFINE g == [x \in Callers \ {c} |-> f[x]]
  <2>1. g \in [Callers \ {c} -> Nat]
    OBVIOUS
  <2>2. Sum(Callers, f) = Sum(Callers \ {c}, g) + f[c]
    BY <1>2, SumSplit
  <2> HIDE DEF g
  <2>3. Sum(Callers \ {c}, g) \in Nat
    BY <1>2, <2>1, UnitsFinite
  <2> QED BY <2>2, <2>3
<1>4. PassedIn(d) >= PassedBy(call[c], d)
  <2> DEFINE f == [x \in Callers |-> PassedBy(call[x], d)]
  <2>1. f \in [Callers -> Nat] /\ f[c] = PassedBy(call[c], d) /\ PassedIn(d) = Sum(Callers, f)
    BY <1>1, ByType DEF PassedIn
  <2> HIDE DEF f
  <2> QED BY <1>3, <2>1
<1>5. HeldTokens >= HeldBy(call[c])
  <2> DEFINE f == [x \in Callers |-> HeldBy(call[x])]
  <2>1. f \in [Callers -> Nat] /\ f[c] = HeldBy(call[c]) /\ HeldTokens = Sum(Callers, f)
    BY <1>1, ByType DEF HeldTokens
  <2> HIDE DEF f
  <2> QED BY <1>3, <2>1
<1> QED BY <1>4, <1>5

LEMMA ByTable ==
  ASSUME NEW k, NEW d
  PROVE  /\ k.pc = "idle" =>
              CountedBy(k, d) = 0 /\ PassedBy(k, d) = 0 /\ HeldBy(k) = 0
         /\ k.pc \in Forward =>
              /\ CountedBy(k, d) = IF d < k.d THEN k.n ELSE 0
              /\ PassedBy(k, d) = IF d < k.d THEN k.n ELSE 0
              /\ HeldBy(k) = 0
         /\ k.pc = "take" =>
              /\ CountedBy(k, d) = IF d <= k.d THEN k.n ELSE 0
              /\ PassedBy(k, d) = IF d < k.d THEN k.n ELSE 0
              /\ HeldBy(k) = 0
         /\ k.pc = "note" =>
              /\ CountedBy(k, d) = IF d <= k.d THEN k.n ELSE 0
              /\ PassedBy(k, d) = IF d <= k.d THEN k.n ELSE 0
              /\ HeldBy(k) = k.n
         /\ k.pc = "return" =>
              /\ CountedBy(k, d) = IF k.d <= d /\ d <= k.fail THEN k.n ELSE 0
              /\ PassedBy(k, d) = 0 /\ HeldBy(k) = k.n
         /\ k.pc = "give" =>
              /\ CountedBy(k, d) = IF k.d < d /\ d <= k.fail THEN k.n ELSE 0
              /\ PassedBy(k, d) = 0 /\ HeldBy(k) = k.n
BY DEF CountedBy, PassedBy, HeldBy, Counted, Passed, Held, Forward, TurnoverSteps

LEMMA NobodyTurns ==
  ASSUME TypeInv, Shape, NEW c \in Callers, call[c].pc # "idle",
         call[c].pc \notin TurnoverSteps
  PROVE  /\ \A x \in Callers : call[x].pc \notin TurnoverSteps
         /\ rx.pc \notin {"clear", "sync"}
         /\ \A d : ~Clearing(d)
<1>1. c \in Allocating
  BY DEF Allocating
<1>2. ASSUME NEW x \in Callers, call[x].pc \in TurnoverSteps PROVE FALSE
  <2>1. TurningOver /\ x \in Allocating
    BY <1>2 DEF TurningOver, Allocating, TurnoverSteps
  <2>2. x = c
    BY <1>1, <2>1 DEF Shape, Alone
  <2> QED BY <1>2, <2>2
<1>3. ASSUME rx.pc \in {"clear", "sync"} PROVE FALSE
  <2>1. TurningOver /\ Syncing
    BY <1>3 DEF TurningOver, Syncing, RefreshSteps
  <2> QED BY <1>1, <2>1 DEF Shape, Alone
<1> QED BY <1>2, <1>3 DEF Clearing, TurnoverSteps

(* A caller in the steps of a turnover is alone in the bucket.             *)
LEMMA TurnsAlone ==
  ASSUME TypeInv, Shape, NEW c \in Callers, call[c].pc \in TurnoverSteps
  PROVE  /\ \A x \in Callers : call[x].pc = "idle" \/ x = c
         /\ ~Syncing
<1>1. TurningOver /\ c \in Allocating
  BY DEF TurningOver, Allocating, TurnoverSteps
<1> QED BY <1>1 DEF Shape, Alone, Allocating

LEMMA CountMove ==
  ASSUME TypeInv, Counts, UNCHANGED setup, granted' = granted,
         NEW c \in Callers, NEW k \in CallType, call' = [call EXCEPT ![c] = k],
         \A d \in Durations : bkt'[d].time = bkt[d].time,
         \A d \in Durations :
           ~Clearing(d)' =>
             /\ ~Clearing(d)
             /\ bkt'[d].stat = bkt[d].stat - CountedBy(call[c], d) + CountedBy(k, d),
         \A d \in Durations :
           granted[d][bkt[d].time] + PassedIn(d) - PassedBy(call[c], d) + PassedBy(k, d)
             <= MaxAmount[d]
  PROVE  Counts'
<1>1. Durations' = Durations /\ Periods' = Periods /\ MaxAmount' = MaxAmount
  BY SetupStable
<1>2. ASSUME NEW d \in Durations PROVE StatOK(d)' /\ LimitOK(d)'
  <2>1. /\ CountedIn(d)' = CountedIn(d) - CountedBy(call[c], d) + CountedBy(k, d)
        /\ PassedIn(d)' = PassedIn(d) - PassedBy(call[c], d) + PassedBy(k, d)
    BY SumsMove
  <2>2. /\ CountedIn(d) \in Nat /\ PassedIn(d) \in Nat
    BY SumsType
  <2>3. /\ CountedBy(k, d) \in Nat /\ CountedBy(call[c], d) \in Nat
        /\ PassedBy(k, d) \in Nat /\ PassedBy(call[c], d) \in Nat
    <3>1. call[c] \in CallType
      BY DEF TypeInv
    <3>2. /\ call[c].n \in Nat /\ k.n \in Nat /\ call[c].d \in Nat /\ k.d \in Nat
          /\ d \in Nat
      BY <3>1, SetupFacts DEF CallType
    <3> QED BY <3>2, ByType
  <2>4. granted[d][bkt[d].time] \in Nat /\ MaxAmount[d] \in Nat
    BY SetupFacts DEF TypeInv, BucketType
  <2>5. StatOK(d) /\ LimitOK(d)
    BY DEF Counts
  <2>6. StatOK(d)'
    <3>1. ASSUME ~Clearing(d)'
          PROVE  bkt'[d].stat = granted'[d][bkt'[d].time] + CountedIn(d)'
      <4>1. bkt[d].stat = granted[d][bkt[d].time] + CountedIn(d)
        BY <2>5, <3>1 DEF StatOK
      <4> QED BY <2>1, <2>2, <2>3, <2>4, <3>1, <4>1
    <3> QED BY <3>1 DEF StatOK
  <2>7. LimitOK(d)'
    <3>1. granted'[d][bkt'[d].time] + PassedIn(d)' <= MaxAmount'[d]
      BY <1>1, <2>1, <2>2, <2>3, <2>4
    <3> QED BY <1>1, <2>5, <3>1 DEF LimitOK
  <2> QED BY <2>6, <2>7
<1> QED BY <1>1, <1>2 DEF Counts

LEMMA CountGrant ==
  ASSUME TypeInv, Shape, Counts, UNCHANGED setup,
         NEW c \in Callers, call[c].pc \in {"count", "note"}, Later(call[c].d) = {},
         call' = [call EXCEPT ![c] = Idle], Grant(c),
         \A d \in Durations : bkt'[d].time = bkt[d].time,
         \A d \in Durations :
           bkt'[d].stat = bkt[d].stat - CountedBy(call[c], d) + call[c].n,
         \A d \in Durations :
           granted[d][bkt[d].time] + PassedIn(d) - PassedBy(call[c], d) + call[c].n
             <= MaxAmount[d]
  PROVE  Counts'
<1>1. Durations' = Durations /\ Periods' = Periods /\ MaxAmount' = MaxAmount
  BY SetupStable
<1>2. Idle \in CallType /\ Idle.pc = "idle"
  BY SetupFacts DEF Idle, CallType, CallPcs
<1>3. CallOK(call[c])
  BY DEF Shape
<1>4. ASSUME NEW d \in Durations PROVE StatOK(d)' /\ LimitOK(d)'
  <2> DEFINE k == Idle
  <2>0. k \in CallType /\ k.pc = "idle" /\ call' = [call EXCEPT ![c] = k]
    BY <1>2
  <2> HIDE DEF k
  <2>1. /\ CountedIn(d)' = CountedIn(d) - CountedBy(call[c], d) + CountedBy(k, d)
        /\ PassedIn(d)' = PassedIn(d) - PassedBy(call[c], d) + PassedBy(k, d)
    BY <2>0, SumsMove
  <2>2. CountedBy(k, d) = 0 /\ PassedBy(k, d) = 0
    BY <2>0, ByTable
  <2>3. CountedIn(d) \in Nat /\ PassedIn(d) \in Nat
    BY SumsType
  <2>4. /\ CountedBy(call[c], d) \in Nat /\ PassedBy(call[c], d) \in Nat
        /\ call[c].n \in Nat
    <3>1. call[c] \in CallType
      BY DEF TypeInv
    <3>2. call[c].n \in Nat /\ call[c].d \in Nat /\ d \in Nat
      BY <3>1, SetupFacts DEF CallType
    <3> QED BY <3>2, ByType
  <2>5. granted[d][bkt[d].time] \in Nat /\ MaxAmount[d] \in Nat
    BY SetupFacts DEF TypeInv, BucketType
  <2>6. StatOK(d) /\ LimitOK(d) /\ ~Clearing(d)
    BY NobodyTurns DEF Counts, TurnoverSteps
  <2>7. /\ granted'[d] = [granted[d] EXCEPT ![bkt[d].time] = @ + call[c].n]
        /\ bkt[d].time \in Periods /\ granted[d] \in [Periods -> Nat]
    BY <1>3, GrantPlace DEF TypeInv
  <2>8. granted'[d][bkt'[d].time] = granted[d][bkt[d].time] + call[c].n
    BY <2>7
  <2>9. StatOK(d)'
    <3>1. bkt[d].stat = granted[d][bkt[d].time] + CountedIn(d)
      BY <2>6 DEF StatOK
    <3>2. bkt'[d].stat = granted'[d][bkt'[d].time] + CountedIn(d)'
      BY <2>1, <2>2, <2>3, <2>4, <2>5, <2>8, <3>1
    <3> QED BY <3>2 DEF StatOK
  <2>10. LimitOK(d)'
    <3>1. granted'[d][bkt'[d].time] + PassedIn(d)' <= MaxAmount[d]
      BY <2>1, <2>2, <2>3, <2>4, <2>5, <2>8
    <3>2. PassedIn(d)' \in Nat
      <4>2. PassedIn(d) >= PassedBy(call[c], d)
        BY InBound
      <4> QED BY <2>1, <2>2, <2>3, <2>4, <4>2
    <3>3. ASSUME NEW p \in Periods PROVE granted'[d][p] <= MaxAmount[d]
      <4>1. CASE p = bkt[d].time
        BY <2>4, <2>5, <2>8, <3>1, <3>2, <4>1
      <4>2. CASE p # bkt[d].time
        BY <2>6, <2>7, <4>2 DEF LimitOK
      <4> QED BY <4>1, <4>2
    <3> QED BY <1>1, <3>1, <3>3 DEF LimitOK
  <2> QED BY <2>9, <2>10
<1> QED BY <1>1, <1>4 DEF Counts

(* Under a global rule what is promised has been taken from the tokens.    *)
LEMMA PassedIsHeld ==
  ASSUME TypeInv, AllCovered, Global
  PROVE  PassedIn(First) <= HeldTokens
<1>1. Durations = {First} /\ First \in Nat
  BY SingleBucket
<1>2. \A x \in Callers : call[x].n \in Nat /\ call[x].d = First
  BY <1>1 DEF TypeInv, CallType
<1> DEFINE g == [c \in Callers |-> PassedBy(call[c], First)]
           h == [c \in Callers |-> HeldBy(call[c])]
<1>3. /\ g \in [Callers -> Nat] /\ h \in [Callers -> Nat]
      /\ \A c \in Callers : g[c] <= h[c]
  <2>1. ASSUME NEW c \in Callers
        PROVE  /\ PassedBy(call[c], First) \in Nat /\ HeldBy(call[c]) \in Nat
               /\ PassedBy(call[c], First) <= HeldBy(call[c])
    <3>1. ~(First < call[c].d)
      BY <1>1, <1>2
    <3>2. call[c].n \in Nat
      BY <1>2
    <3> QED BY <3>1, <3>2 DEF PassedBy, HeldBy, Passed, Held
  <2> QED BY <2>1
<1>4. PassedIn(First) = Sum(Callers, g) /\ HeldTokens = Sum(Callers, h)
  BY DEF PassedIn, HeldTokens
<1> HIDE DEF g, h
<1> QED BY <1>3, <1>4, SumMono, ConstantsAssumption

(* The steps that move a caller on without touching a count.               *)
LEMMA CountSame ==
  ASSUME TypeInv, Counts, UNCHANGED <<setup, rx>>, granted' = granted,
         NEW c \in Callers, NEW k \in CallType, call' = [call EXCEPT ![c] = k],
         \A d \in Durations : bkt'[d].time = bkt[d].time,
         \A d \in Durations : bkt'[d].stat = bkt[d].stat,
         call[c].pc # "clear",
         \A d \in Durations : CountedBy(k, d) = CountedBy(call[c], d),
         \A d \in Durations : PassedBy(k, d) = PassedBy(call[c], d) \/ PassedBy(k, d) = 0
  PROVE  Counts'
<1>1. \A x \in Callers \ {c} : call'[x] = call[x]
  BY DEF TypeInv
<1>2. ASSUME NEW d \in Durations
      PROVE  /\ ~Clearing(d)' => ~Clearing(d)
             /\ bkt'[d].stat = bkt[d].stat - CountedBy(call[c], d) + CountedBy(k, d)
             /\ granted[d][bkt[d].time] + PassedIn(d) - PassedBy(call[c], d)
                  + PassedBy(k, d) <= MaxAmount[d]
  <2>1. ~Clearing(d)' => ~Clearing(d)
    BY <1>1 DEF Clearing
  <2>2. /\ bkt[d].stat \in Int /\ granted[d][bkt[d].time] \in Nat /\ MaxAmount[d] \in Nat
    BY SetupFacts DEF TypeInv, BucketType
  <2>3. CountedBy(call[c], d) \in Nat /\ PassedBy(call[c], d) \in Nat
    <3>1. call[c].n \in Nat /\ call[c].d \in Nat /\ d \in Nat
      BY SetupFacts DEF TypeInv, CallType
    <3> QED BY <3>1, ByType
  <2>4. PassedIn(d) \in Nat
    BY SumsType
  <2>5. granted[d][bkt[d].time] + PassedIn(d) <= MaxAmount[d]
    BY DEF Counts, LimitOK
  <2> QED BY <2>1, <2>2, <2>3, <2>4, <2>5
<1> QED BY <1>2, CountMove

LEMMA GotoCounts ==
  ASSUME TypeInv, Counts, UNCHANGED <<setup, rx>>, granted' = granted,
         NEW c \in Callers, NEW x \in CallPcs, Goto(c, x),
         \A d \in Durations : bkt'[d].time = bkt[d].time,
         \A d \in Durations : bkt'[d].stat = bkt[d].stat,
         call[c].pc # "clear", call[c].pc \in Forward, x \in Forward
  PROVE  Counts'
<1> DEFINE k == [call[c] EXCEPT !.pc = x]
<1>1. call \in [Callers -> CallType]
  BY DEF TypeInv
<1>2. /\ k \in CallType /\ k.pc = x /\ call' = [call EXCEPT ![c] = k]
      /\ k.d = call[c].d /\ k.n = call[c].n
  BY <1>1 DEF CallType, Goto
<1> HIDE DEF k
<1>3. \A d \in Durations : /\ CountedBy(k, d) = CountedBy(call[c], d)
                           /\ PassedBy(k, d) = PassedBy(call[c], d)
  BY <1>2, ByTable
<1> QED BY <1>2, <1>3, CountSame

(* Which counter a step of a bucket changes.                               *)
LEMMA FieldKept ==
  ASSUME TypeInv, NEW d \in Durations, NEW v
  PROVE  /\ bkt' = [bkt EXCEPT ![d].stat = v] =>
              /\ bkt'[d].stat = v /\ \A e \in Durations \ {d} : bkt'[e] = bkt[e]
              /\ \A e \in Durations :
                   /\ bkt'[e].time = bkt[e].time /\ bkt'[e].total = bkt[e].total
                   /\ bkt'[e].left = bkt[e].left /\ bkt'[e].sync = bkt[e].sync
         /\ bkt' = [bkt EXCEPT ![d].total = v] =>
              /\ bkt'[d].total = v /\ \A e \in Durations \ {d} : bkt'[e] = bkt[e]
              /\ \A e \in Durations :
                   /\ bkt'[e].time = bkt[e].time /\ bkt'[e].stat = bkt[e].stat
                   /\ bkt'[e].left = bkt[e].left /\ bkt'[e].sync = bkt[e].sync
         /\ bkt' = [bkt EXCEPT ![d].left = v] =>
              /\ bkt'[d].left = v /\ \A e \in Durations \ {d} : bkt'[e] = bkt[e]
              /\ \A e \in Durations :
                   /\ bkt'[e].time = bkt[e].time /\ bkt'[e].stat = bkt[e].stat
                   /\ bkt'[e].total = bkt[e].total /\ bkt'[e].sync = bkt[e].sync
         /\ bkt' = [bkt EXCEPT ![d].sync = v] =>
              /\ bkt'[d].sync = v /\ \A e \in Durations \ {d} : bkt'[e] = bkt[e]
              /\ \A e \in Durations :
                   /\ bkt'[e].time = bkt[e].time /\ bkt'[e].stat = bkt[e].stat
                   /\ bkt'[e].total = bkt[e].total /\ bkt'[e].left = bkt[e].left
         /\ bkt' = [bkt EXCEPT ![d].time = v] =>
              /\ bkt'[d].time = v /\ \A e \in Durations \ {d} : bkt'[e] = bkt[e]
              /\ \A e \in Durations :
                   /\ bkt'[e].stat = bkt[e].stat /\ bkt'[e].total = bkt[e].total
                   /\ bkt'[e].left = bkt[e].left /\ bkt'[e].sync = bkt[e].sync
<1>1. bkt \in [Durations -> BucketType]
  BY DEF TypeInv
<1> QED BY <1>1 DEF BucketType

(* A bucket that nobody has counted in goes to a new period.               *)
LEMMA SwapCounts ==
  ASSUME TypeInv, Shape, Counts, UNCHANGED setup, granted' = granted,
         NEW d \in Durations, bkt' = [bkt EXCEPT ![d].time = now \div d],
         bkt[d].time < now \div d, now \div d \in Periods,
         \A e \in Durations : CountedIn(e)' = CountedIn(e) /\ PassedIn(e)' = PassedIn(e),
         PassedIn(d) = 0, Clearing(d)',
         \A e \in Durations : ~Clearing(e)' => ~Clearing(e)
  PROVE  Counts'
<1>1. Durations' = Durations /\ Periods' = Periods /\ MaxAmount' = MaxAmount
  BY SetupStable
<1>2. /\ bkt'[d].time = now \div d /\ \A e \in Durations \ {d} : bkt'[e] = bkt[e]
  BY FieldKept
<1>3. granted[d][now \div d] = 0
  BY DEF Shape, BucketOK
<1>4. ASSUME NEW e \in Durations PROVE StatOK(e)' /\ LimitOK(e)'
  <2>1. StatOK(e) /\ LimitOK(e) /\ MaxAmount[e] \in Nat
    BY SetupFacts DEF Counts
  <2>2. CASE e = d
    <3>1. granted'[e][bkt'[e].time] + PassedIn(e)' <= MaxAmount[e]
      BY <1>2, <1>3, <2>1, <2>2
    <3> QED BY <1>1, <2>1, <2>2, <3>1 DEF StatOK, LimitOK
  <2>3. CASE e # d
    BY <1>1, <1>2, <2>1, <2>3 DEF StatOK, LimitOK
  <2> QED BY <2>2, <2>3
<1> QED BY <1>1, <1>4 DEF Counts

LEMMA StatZeroed ==
  ASSUME TypeInv, NEW d \in Durations, bkt' = [bkt EXCEPT ![d].stat = 0]
  PROVE  /\ bkt'[d].stat = 0 /\ \A e \in Durations \ {d} : bkt'[e] = bkt[e]
         /\ \A e \in Durations : bkt'[e].time = bkt[e].time
BY FieldKept

(* The count of a period starts from nothing.                              *)
LEMMA ResetCounts ==
  ASSUME TypeInv, Counts, UNCHANGED setup, granted' = granted,
         NEW d \in Durations, bkt' = [bkt EXCEPT ![d].stat = 0],
         granted[d][bkt[d].time] = 0, CountedIn(d) = 0,
         \A e \in Durations : CountedIn(e)' = CountedIn(e) /\ PassedIn(e)' = PassedIn(e),
         \A e \in Durations \ {d} : ~Clearing(e)' => ~Clearing(e)
  PROVE  Counts'
<1>1. Durations' = Durations /\ Periods' = Periods /\ MaxAmount' = MaxAmount
  BY SetupStable
<1>2. /\ bkt'[d].stat = 0 /\ \A e \in Durations \ {d} : bkt'[e] = bkt[e]
      /\ \A e \in Durations : bkt'[e].time = bkt[e].time
  BY StatZeroed, Zenon
<1>3. ASSUME NEW e \in Durations PROVE StatOK(e)' /\ LimitOK(e)'
  <2>1. StatOK(e) /\ LimitOK(e)
    BY DEF Counts
  <2>2. LimitOK(e)'
    BY <1>1, <1>2, <2>1 DEF LimitOK
  <2>3. CASE e = d
    <3>1. bkt'[e].stat = granted'[e][bkt'[e].time] + CountedIn(e)'
      BY <1>2, <2>3
    <3> QED BY <2>2, <3>1 DEF StatOK
  <2>4. CASE e # d
    BY <1>2, <2>1, <2>2, <2>4 DEF StatOK
  <2> QED BY <2>3, <2>4
<1> QED BY <1>1, <1>3 DEF Counts

LEMMA ViolatedCounts ==
  ASSUME TypeInv, Shape, Counts, UNCHANGED <<setup, rx>>, NEW c \in Callers, Violated(c),
         call[c].pc \in {"count", "take"},
         \A d \in Durations : bkt'[d].time = bkt[d].time,
         \A d \in Durations :
           bkt'[d].stat = bkt[d].stat
             + (IF call[c].pc = "count" /\ d = call[c].d THEN call[c].n ELSE 0)
  PROVE  Counts'
<1> DEFINE k == [call[c] EXCEPT !.pc = "return", !.d = First, !.fail = call[c].d]
<1>1. /\ call \in [Callers -> CallType] /\ call[c].d \in Durations /\ First \in Durations
      /\ call[c].n \in Nat /\ call[c].d \in Nat /\ First \in Nat
  BY SetupFacts DEF TypeInv, CallType
<1>2. call' = [call EXCEPT ![c] = k] /\ granted' = granted
  BY <1>1, CallIs DEF Violated
<1>3. /\ k \in CallType /\ k.pc = "return" /\ k.d = First /\ k.fail = call[c].d
      /\ k.n = call[c].n
  <2>1. call[c] \in CallType /\ "return" \in CallPcs
    BY <1>1, SomePcs
  <2> QED BY <1>1, <2>1 DEF CallType
<1> HIDE DEF k
<1>4. \A d : ~Clearing(d)
  BY NobodyTurns DEF TurnoverSteps
<1>5. ASSUME NEW d \in Durations
      PROVE  /\ bkt'[d].stat = bkt[d].stat - CountedBy(call[c], d) + CountedBy(k, d)
             /\ granted[d][bkt[d].time] + PassedIn(d) - PassedBy(call[c], d)
                  + PassedBy(k, d) <= MaxAmount[d]
  <2>1. d \in Nat /\ First <= d
    BY SetupFacts
  <2>2. /\ CountedBy(k, d) = IF d <= call[c].d THEN call[c].n ELSE 0
        /\ PassedBy(k, d) = 0
    BY <1>3, <2>1, ByTable
  <2>3. /\ call[c].pc = "count" => CountedBy(call[c], d) = IF d < call[c].d THEN call[c].n ELSE 0
        /\ call[c].pc = "take" => CountedBy(call[c], d) = IF d <= call[c].d THEN call[c].n ELSE 0
    BY ByTable DEF Forward
  <2>4. bkt[d].stat \in Int /\ granted[d][bkt[d].time] \in Nat /\ MaxAmount[d] \in Nat
    BY SetupFacts DEF TypeInv, BucketType
  <2>5. PassedBy(call[c], d) \in Nat /\ PassedIn(d) \in Nat
    BY <1>1, <2>1, ByType, SumsType
  <2>6. granted[d][bkt[d].time] + PassedIn(d) <= MaxAmount[d]
    BY DEF Counts, LimitOK
  <2>7. bkt'[d].stat = bkt[d].stat - CountedBy(call[c], d) + CountedBy(k, d)
    BY <1>1, <2>1, <2>2, <2>3, <2>4
  <2> QED BY <2>2, <2>4, <2>5, <2>6, <2>7
<1> QED BY <1>2, <1>3, <1>4, <1>5, CountMove

(* GetToken answers yes: the request passes the bucket.                    *)
LEMMA TakenCounts ==
  ASSUME TypeInv, Shape, Counts, UNCHANGED <<setup, rx>>, NEW c \in Callers, Taken(c),
         call[c].pc \in {"count", "note"},
         \A d \in Durations : bkt'[d].time = bkt[d].time,
         \A d \in Durations :
           bkt'[d].stat = bkt[d].stat
             + (IF call[c].pc = "count" /\ d = call[c].d THEN call[c].n ELSE 0),
         call[c].pc = "count" => bkt[call[c].d].stat + call[c].n <= MaxAmount[call[c].d]
  PROVE  Counts'
<1>1. /\ call \in [Callers -> CallType] /\ call[c].d \in Durations
      /\ call[c].n \in Nat /\ call[c].d \in Nat
  BY SetupFacts DEF TypeInv, CallType
<1>2. \A d : ~Clearing(d)
  BY NobodyTurns DEF TurnoverSteps
<1>3. ASSUME NEW d \in Durations
      PROVE  /\ d \in Nat
             /\ bkt[d].stat \in Int /\ granted[d][bkt[d].time] \in Nat
             /\ MaxAmount[d] \in Nat
             /\ CountedIn(d) \in Nat /\ PassedIn(d) \in Nat /\ PassedIn(d) <= CountedIn(d)
             /\ CountedBy(call[c], d) \in Nat /\ PassedBy(call[c], d) \in Nat
             /\ granted[d][bkt[d].time] + PassedIn(d) <= MaxAmount[d]
             /\ bkt[d].stat = granted[d][bkt[d].time] + CountedIn(d)
             /\ CountedBy(call[c], d) =
                  IF d < call[c].d \/ (call[c].pc = "note" /\ d = call[c].d)
                  THEN call[c].n ELSE 0
             /\ PassedBy(call[c], d) = CountedBy(call[c], d)
  <2>1. d \in Nat
    BY SetupFacts
  <2>2. bkt[d].stat \in Int /\ granted[d][bkt[d].time] \in Nat /\ MaxAmount[d] \in Nat
    BY SetupFacts DEF TypeInv, BucketType
  <2>3. /\ CountedBy(call[c], d) \in Nat /\ PassedBy(call[c], d) \in Nat
        /\ CountedIn(d) \in Nat /\ PassedIn(d) \in Nat /\ PassedIn(d) <= CountedIn(d)
    BY <1>1, <2>1, ByType, SumsType
  <2>4. /\ granted[d][bkt[d].time] + PassedIn(d) <= MaxAmount[d]
        /\ bkt[d].stat = granted[d][bkt[d].time] + CountedIn(d)
    BY <1>2 DEF Counts, LimitOK, StatOK
  <2>5. /\ call[c].pc = "count" =>
             /\ CountedBy(call[c], d) = IF d < call[c].d THEN call[c].n ELSE 0
             /\ PassedBy(call[c], d) = IF d < call[c].d THEN call[c].n ELSE 0
        /\ call[c].pc = "note" =>
             /\ CountedBy(call[c], d) = IF d <= call[c].d THEN call[c].n ELSE 0
             /\ PassedBy(call[c], d) = IF d <= call[c].d THEN call[c].n ELSE 0
    BY ByTable DEF Forward
  <2>6. /\ CountedBy(call[c], d) =
             IF d < call[c].d \/ (call[c].pc = "note" /\ d = call[c].d)
             THEN call[c].n ELSE 0
        /\ PassedBy(call[c], d) = CountedBy(call[c], d)
    BY <1>1, <2>1, <2>5
  <2> QED BY <2>1, <2>2, <2>3, <2>4, <2>6

<1>4. ASSUME NEW d \in Durations, d <= call[c].d
      PROVE  /\ bkt'[d].stat = bkt[d].stat - CountedBy(call[c], d) + call[c].n
             /\ granted[d][bkt[d].time] + PassedIn(d) - PassedBy(call[c], d) + call[c].n
                  <= MaxAmount[d]
  <2>1. CASE d = call[c].d /\ call[c].pc = "count"
    <3>1. CountedBy(call[c], d) = 0 /\ PassedBy(call[c], d) = 0
      BY <1>3, <2>1
    <3>2. bkt'[d].stat = bkt[d].stat + call[c].n
      BY <2>1
    <3>3. bkt[d].stat + call[c].n <= MaxAmount[d]
      BY <2>1
    <3> QED BY <1>1, <1>3, <3>1, <3>2, <3>3
  <2>2. CASE ~(d = call[c].d /\ call[c].pc = "count")
    <3>1. CountedBy(call[c], d) = call[c].n /\ PassedBy(call[c], d) = call[c].n
      BY <1>1, <1>3, <1>4, <2>2
    <3>2. bkt'[d].stat = bkt[d].stat + 0
      BY <2>2
    <3> QED BY <1>1, <1>3, <3>1, <3>2
  <2> QED BY <2>1, <2>2
<1>5. CASE Later(call[c].d) = {}
  <2>1. call' = [call EXCEPT ![c] = Idle] /\ Grant(c)
    BY <1>5 DEF Taken
  <2>2. \A d \in Durations : d <= call[c].d
    BY <1>1, <1>5, LaterFacts
  <2> QED BY <1>4, <1>5, <2>1, <2>2, CountGrant
<1>6. CASE Later(call[c].d) # {}
  <2> DEFINE m == Min(Later(call[c].d))
             k == [call[c] EXCEPT !.pc = "load", !.d = m]
  <2>1. m \in Durations /\ call[c].d < m /\ \A e \in Durations : e < m => e <= call[c].d
    BY <1>1, <1>6, LaterFacts
  <2>2. /\ call' = [call EXCEPT ![c].pc = "load", ![c].d = m]
        /\ granted' = granted
    BY <1>6 DEF Taken
  <2> HIDE DEF m
  <2>3. call' = [call EXCEPT ![c] = k]
    BY <1>1, <2>2, CallIs
  <2>4. k \in CallType /\ k.pc = "load" /\ k.d = m /\ k.n = call[c].n
    <3>1. call[c] \in CallType /\ "load" \in CallPcs
      BY <1>1, <2>1, SomePcs
    <3> QED BY <1>1, <2>1, <3>1 DEF CallType
  <2> HIDE DEF k
  <2>5. m \in Nat
    BY <2>1, SetupFacts
  <2>6. ASSUME NEW d \in Durations
        PROVE  /\ bkt'[d].stat = bkt[d].stat - CountedBy(call[c], d) + CountedBy(k, d)
               /\ granted[d][bkt[d].time] + PassedIn(d) - PassedBy(call[c], d)
                    + PassedBy(k, d) <= MaxAmount[d]
    <3>1. d < m <=> d <= call[c].d
      BY <1>1, <1>3, <2>1, <2>5
    <3>2. /\ CountedBy(k, d) = IF d < m THEN call[c].n ELSE 0
          /\ PassedBy(k, d) = IF d < m THEN call[c].n ELSE 0
      BY <2>4, ByTable DEF Forward
    <3>3. CASE d <= call[c].d
      BY <1>4, <3>1, <3>2, <3>3
    <3>4. CASE ~(d <= call[c].d)
      <4>1. /\ CountedBy(k, d) = 0 /\ PassedBy(k, d) = 0
            /\ CountedBy(call[c], d) = 0 /\ PassedBy(call[c], d) = 0
        BY <1>1, <1>3, <3>1, <3>2, <3>4
      <4>2. bkt'[d].stat = bkt[d].stat + 0
        BY <1>1, <1>3, <3>4
      <4> QED BY <1>3, <4>1, <4>2
    <3> QED BY <3>3, <3>4
  <2> QED BY <1>2, <2>2, <2>3, <2>4, <2>6, CountMove
<1> QED BY <1>5, <1>6

(* ReturnToken: the counts go back bucket by bucket.                       *)
LEMMA ReturnedCounts ==
  ASSUME TypeInv, AllCovered, Shape, Counts, UNCHANGED <<setup, rx>>, NEW c \in Callers,
         Returned(c), call[c].pc \in {"return", "give"},
         \A d \in Durations : bkt'[d].time = bkt[d].time,
         \A d \in Durations :
           bkt'[d].stat = bkt[d].stat
             - (IF call[c].pc = "return" /\ d = call[c].d THEN call[c].n ELSE 0)
  PROVE  Counts'
<1>1. /\ call \in [Callers -> CallType] /\ call[c].d \in Durations
      /\ call[c].fail \in Durations /\ call[c].n \in Nat /\ CallOK(call[c]) /\ ~setup.pass
  BY CoveredFacts DEF TypeInv, CallType, Shape
<1>2. call[c].d <= call[c].fail /\ call[c].d \in Nat /\ call[c].fail \in Nat
  BY <1>1, SetupFacts DEF CallOK
<1>3. \A d : ~Clearing(d)
  BY NobodyTurns DEF TurnoverSteps
<1>4. ASSUME NEW d \in Durations
      PROVE  /\ d \in Nat /\ bkt[d].stat \in Int
             /\ PassedBy(call[c], d) = 0
             /\ granted[d][bkt[d].time] + PassedIn(d) - 0 + 0 <= MaxAmount[d]
             /\ CountedBy(call[c], d) =
                  IF (call[c].d < d \/ (call[c].pc = "return" /\ d = call[c].d))
                     /\ d <= call[c].fail
                  THEN call[c].n ELSE 0
  <2>1. d \in Nat /\ bkt[d].stat \in Int /\ granted[d][bkt[d].time] \in Nat
    BY SetupFacts DEF TypeInv, BucketType
  <2>2. PassedIn(d) \in Nat /\ granted[d][bkt[d].time] + PassedIn(d) <= MaxAmount[d]
    BY SumsType DEF Counts, LimitOK
  <2>3. PassedBy(call[c], d) = 0
    BY ByTable
  <2>4. /\ call[c].pc = "return" =>
             CountedBy(call[c], d) =
               IF call[c].d <= d /\ d <= call[c].fail THEN call[c].n ELSE 0
        /\ call[c].pc = "give" =>
             CountedBy(call[c], d) =
               IF call[c].d < d /\ d <= call[c].fail THEN call[c].n ELSE 0
    BY ByTable
  <2>5. CountedBy(call[c], d) =
          IF (call[c].d < d \/ (call[c].pc = "return" /\ d = call[c].d))
             /\ d <= call[c].fail
          THEN call[c].n ELSE 0
    BY <1>2, <2>1, <2>4
  <2> QED BY <2>1, <2>2, <2>3, <2>5
<1>5. CASE call[c].d = call[c].fail
  <2> DEFINE k == Idle
  <2>1. call' = [call EXCEPT ![c] = k] /\ granted' = granted
    BY <1>1, <1>5 DEF Returned
  <2>2. k \in CallType /\ k.pc = "idle"
    BY SetupFacts DEF Idle, CallType, CallPcs
  <2> HIDE DEF k
  <2>3. ASSUME NEW d \in Durations
        PROVE  /\ bkt'[d].stat = bkt[d].stat - CountedBy(call[c], d) + CountedBy(k, d)
               /\ granted[d][bkt[d].time] + PassedIn(d) - PassedBy(call[c], d)
                    + PassedBy(k, d) <= MaxAmount[d]
    <3>1. CountedBy(k, d) = 0 /\ PassedBy(k, d) = 0
      BY <2>2, ByTable
    <3>2. CountedBy(call[c], d) =
            IF call[c].pc = "return" /\ d = call[c].d THEN call[c].n ELSE 0
      BY <1>2, <1>4, <1>5
    <3> QED BY <1>1, <1>4, <3>1, <3>2
  <2> QED BY <1>3, <2>1, <2>2, <2>3, CountMove
<1>6. CASE call[c].d # call[c].fail
  <2> DEFINE m == Min(Later(call[c].d))
             k == [call[c] EXCEPT !.pc = "return", !.d = m]
  <2>1. /\ call' = [call EXCEPT ![c].pc = "return", ![c].d = m]
        /\ granted' = granted
    BY <1>6 DEF Returned
  <2>2. call[c].fail \in Later(call[c].d)
    <3>1. call[c].fail > call[c].d
      BY <1>2, <1>6
    <3> QED BY <1>1, <3>1 DEF Later
  <2>3. m \in Durations /\ call[c].d < m /\ \A e \in Durations : e < m => e <= call[c].d
    BY <1>1, <2>2, LaterFacts
  <2> HIDE DEF m
  <2>4. call' = [call EXCEPT ![c] = k]
    BY <1>1, <2>1, CallIs
  <2>5. /\ k \in CallType /\ k.pc = "return" /\ k.d = m /\ k.n = call[c].n
        /\ k.fail = call[c].fail
    <3>1. call[c] \in CallType /\ "return" \in CallPcs
      BY <1>1, <2>3, SomePcs
    <3> QED BY <1>1, <2>3, <3>1 DEF CallType
  <2> HIDE DEF k
  <2>6. m \in Nat
    BY <2>3, SetupFacts
  <2>7. ASSUME NEW d \in Durations
        PROVE  /\ bkt'[d].stat = bkt[d].stat - CountedBy(call[c], d) + CountedBy(k, d)
               /\ granted[d][bkt[d].time] + PassedIn(d) - PassedBy(call[c], d)
                    + PassedBy(k, d) <= MaxAmount[d]
    <3>1. m <= d <=> call[c].d < d
      BY <1>2, <1>4, <2>3, <2>6
    <3>2. /\ CountedBy(k, d) = IF m <= d /\ d <= call[c].fail THEN call[c].n ELSE 0
          /\ PassedBy(k, d) = 0
      BY <2>5, ByTable
    <3>3. CountedBy(k, d) = IF call[c].d < d /\ d <= call[c].fail THEN call[c].n ELSE 0
      BY <3>1, <3>2
    <3>4. bkt'[d].stat = bkt[d].stat - CountedBy(call[c], d) + CountedBy(k, d)
      <4>1. CASE call[c].pc = "return" /\ d = call[c].d
        <5>1. CountedBy(call[c], d) = call[c].n /\ CountedBy(k, d) = 0
          BY <1>2, <1>4, <3>3, <4>1
        <5>2. bkt'[d].stat = bkt[d].stat - call[c].n
          BY <4>1
        <5> QED BY <1>1, <1>4, <5>1, <5>2
      <4>2. CASE ~(call[c].pc = "return" /\ d = call[c].d)
        <5>1. CountedBy(call[c], d) = CountedBy(k, d) /\ CountedBy(k, d) \in Nat
          BY <1>1, <1>4, <3>3, <4>2
        <5>2. bkt'[d].stat = bkt[d].stat - 0
          BY <4>2
        <5> QED BY <1>4, <5>1, <5>2
      <4> QED BY <4>1, <4>2
    <3> QED BY <1>4, <3>2, <3>4
  <2> QED BY <1>3, <2>1, <2>4, <2>5, <2>7, CountMove
<1> QED BY <1>5, <1>6

LEMMA CountsInit ==
  ASSUME Init
  PROVE  Counts
<1>1. TypeInv
  BY TypeInit
<1>2. \A c \in Callers : call[c].pc = "idle"
  BY DEF Init, Idle
<1>3. ASSUME NEW d \in Durations PROVE StatOK(d) /\ LimitOK(d)
  <2>1. CountedIn(d) = 0 /\ PassedIn(d) = 0
    BY <1>1, <1>2, SumsEmpty
  <2>2. bkt[d].stat = 0 /\ bkt[d].time = 0
    BY DEF Init
  <2>3. 0 \in Periods /\ MaxAmount[d] \in Nat
    BY <1>1, SetupFacts DEF Periods
  <2>4. \A p \in Periods : granted[d][p] = 0
    BY DEF Init
  <2> QED BY <2>1, <2>2, <2>3, <2>4 DEF StatOK, LimitOK
<1> QED BY <1>3 DEF Counts

LEMMA SwapCallerCounts ==
  ASSUME TypeInv, Shape, Counts, UNCHANGED setup, NEW c \in Callers, SwapBucketTime(c)
  PROVE  Counts'
<1> DEFINE k == [call[c] EXCEPT !.pc = "clear"]
<1>0. PICK d \in Durations : d = call[c].d
  BY DEF TypeInv, CallType
<1>1. /\ bkt' = [bkt EXCEPT ![d].time = now \div d]
      /\ call' = [call EXCEPT ![c].pc = "clear"]
      /\ granted' = granted /\ UNCHANGED rx
      /\ bkt[d].time < now \div d /\ now \div d \in Periods
      /\ \A x \in Callers : call[x].pc # "idle" => x = c
  BY <1>0, SwapPlace DEF callFrame
<1>2. call \in [Callers -> CallType] /\ call[c].pc = "cas" /\ d \in Durations
  BY DEF TypeInv, CallType, SwapBucketTime, At
<1>3. /\ k \in CallType /\ call' = [call EXCEPT ![c] = k] /\ k.pc = "clear"
      /\ k.d = d /\ k.n = call[c].n
  BY <1>0, <1>1, <1>2, SomePcs DEF CallType
<1> HIDE DEF k
<1>4. call'[c] = k /\ \A x \in Callers \ {c} : call'[x] = call[x]
  BY <1>2, <1>3
<1>5. ASSUME NEW e \in Durations
      PROVE  CountedIn(e)' = CountedIn(e) /\ PassedIn(e)' = PassedIn(e)
  <2>1. /\ CountedIn(e)' = CountedIn(e) - CountedBy(call[c], e) + CountedBy(k, e)
        /\ PassedIn(e)' = PassedIn(e) - PassedBy(call[c], e) + PassedBy(k, e)
    BY <1>3, SumsMove
  <2>2. CountedBy(call[c], e) = CountedBy(k, e) /\ PassedBy(call[c], e) = PassedBy(k, e)
    BY <1>0, <1>2, <1>3, ByTable DEF Forward, TurnoverSteps
  <2>3. CountedIn(e) \in Nat /\ PassedIn(e) \in Nat
    BY SumsType
  <2>4. CountedBy(k, e) \in Nat /\ PassedBy(k, e) \in Nat
    <3>1. k.n \in Nat /\ k.d \in Nat /\ e \in Nat
      BY <1>3, SetupFacts DEF CallType
    <3> QED BY <3>1, ByType
  <2> QED BY <2>1, <2>2, <2>3, <2>4
<1>6. \A x \in Callers : \/ call[x].pc = "idle"
                         \/ call[x].pc \in Forward /\ call[x].d = d
  BY <1>0, <1>1, <1>2 DEF Forward
<1>7. PassedIn(d) = 0
  BY <1>2, <1>6, SumsEmpty
<1>8. Clearing(d)'
  BY <1>3, <1>4 DEF Clearing
<1>9. \A e \in Durations : ~Clearing(e)' => ~Clearing(e)
  BY <1>1, <1>2, <1>4 DEF Clearing
<1> QED BY <1>1, <1>2, <1>5, <1>7, <1>8, <1>9, SwapCounts

LEMMA ResetCallerCounts ==
  ASSUME TypeInv, Shape, Counts, UNCHANGED setup, NEW c \in Callers, ResetStat(c)
  PROVE  Counts'
<1> DEFINE d == call[c].d
           k == [call[c] EXCEPT !.pc = "total"]
<1>1. /\ bkt' = [bkt EXCEPT ![d].stat = 0] /\ call[c].pc = "clear"
      /\ call' = [call EXCEPT ![c].pc = "total"]
      /\ granted' = granted /\ UNCHANGED rx
  BY DEF callFrame, ResetStat, At, Goto
<1>2. call \in [Callers -> CallType] /\ d \in Durations /\ CallOK(call[c])
  BY DEF TypeInv, CallType, Shape
<1>3. /\ k \in CallType /\ call' = [call EXCEPT ![c] = k] /\ k.pc = "total"
      /\ k.d = d /\ k.n = call[c].n
  BY <1>1, <1>2, SomePcs DEF CallType
<1> HIDE DEF k
<1>4. call'[c] = k /\ \A x \in Callers \ {c} : call'[x] = call[x]
  BY <1>2, <1>3
<1>5. ASSUME NEW e \in Durations
      PROVE  CountedIn(e)' = CountedIn(e) /\ PassedIn(e)' = PassedIn(e)
  <2>1. /\ CountedIn(e)' = CountedIn(e) - CountedBy(call[c], e) + CountedBy(k, e)
        /\ PassedIn(e)' = PassedIn(e) - PassedBy(call[c], e) + PassedBy(k, e)
    BY <1>3, SumsMove
  <2>2. CountedBy(call[c], e) = CountedBy(k, e) /\ PassedBy(call[c], e) = PassedBy(k, e)
    BY <1>1, <1>3, ByTable DEF Forward, TurnoverSteps
  <2>3. CountedIn(e) \in Nat /\ PassedIn(e) \in Nat
    BY SumsType
  <2>4. CountedBy(k, e) \in Nat /\ PassedBy(k, e) \in Nat
    <3>1. k.n \in Nat /\ k.d \in Nat /\ e \in Nat
      BY <1>3, SetupFacts DEF CallType
    <3> QED BY <3>1, ByType
  <2> QED BY <2>1, <2>2, <2>3, <2>4
<1>6. \A x \in Callers : \/ call[x].pc = "idle"
                         \/ call[x].pc \in Forward /\ call[x].d = d
  BY <1>1, TurnsAlone DEF Forward, TurnoverSteps
<1>7. CountedIn(d) = 0
  BY <1>2, <1>6, SumsEmpty
<1>8. granted[d][bkt[d].time] = 0
  BY <1>1, <1>2 DEF CallOK, TurnoverSteps
<1>9. \A e \in Durations \ {d} : ~Clearing(e)' => ~Clearing(e)
  BY <1>1, <1>4 DEF Clearing
<1> HIDE DEF d
<1> QED BY <1>1, <1>2, <1>5, <1>7, <1>8, <1>9, ResetCounts

LEMMA CallerCounts ==
  ASSUME TypeInv, AllCovered, Shape, Counts, Global => LeftOK, UNCHANGED setup,
         NEW c \in Callers, GetQuota(c)
  PROVE  Counts'
<1> DEFINE d == call[c].d
<1>1. /\ call \in [Callers -> CallType] /\ call[c] \in CallType /\ d \in Durations
      /\ d \in Nat /\ call[c].n \in Nat /\ CallOK(call[c]) /\ UNCHANGED rx
      /\ bkt \in [Durations -> BucketType]
  BY SetupFacts DEF TypeInv, CallType, Shape, callFrame, GetQuota, Allocate,
     UseRemoteQuota, LoadBucketTime, SwapBucketTime, ResetStat, ResetRemoteTotal,
     ResetRemoteLeft, ResetNeedSync, CountRequest, TakeRemoteToken, AddNeedSync,
     ReturnStat, ReturnRemoteToken
<1>2. ASSUME NEW e \in Durations
      PROVE  /\ bkt[e].stat \in Int /\ e \in Nat /\ MaxAmount[e] \in Nat
             /\ granted[e][bkt[e].time] \in Nat /\ PassedIn(e) \in Nat
             /\ PassedBy(call[c], e) \in Nat /\ CountedBy(call[c], e) \in Nat
             /\ granted[e][bkt[e].time] + PassedIn(e) <= MaxAmount[e]
  <2>1. e \in Nat /\ MaxAmount[e] \in Nat /\ call[c].d \in Nat /\ call[c].n \in Nat
    BY <1>1, SetupFacts
  <2> QED BY <1>1, <2>1, SumsType, ByType DEF TypeInv, BucketType, Counts, LimitOK
<1> HIDE DEF d
<1>3. CASE Allocate(c)
  <2>1. PICK n \in setup.asked :
          call' = [call EXCEPT ![c] = [Idle EXCEPT !.pc = "mode", !.time = now, !.n = n]]
    BY <1>3 DEF Allocate
  <2> DEFINE k == [Idle EXCEPT !.pc = "mode", !.time = now, !.n = n]
  <2>2. call[c].pc = "idle" /\ bkt' = bkt /\ granted' = granted
    BY <1>3 DEF Allocate, At
  <2>3. /\ First \in Durations /\ n \in Nat /\ now \in Nat
    BY SetupFacts DEF TypeInv
  <2>4. k \in CallType /\ k.pc = "mode" /\ k.d = First
    BY <2>3, SomePcs DEF CallType, Idle
  <2>5. call' = [call EXCEPT ![c] = k]
    BY <2>1
  <2> HIDE DEF k
  <2>6. ASSUME NEW e \in Durations
        PROVE  /\ CountedBy(k, e) = CountedBy(call[c], e)
               /\ PassedBy(k, e) = PassedBy(call[c], e)
    <3>1. ~(e < k.d)
      BY <1>2, <2>4, SetupFacts
    <3>2. /\ CountedBy(k, e) = 0 /\ PassedBy(k, e) = 0
      BY <2>4, <3>1, ByTable DEF Forward
    <3>3. CountedBy(call[c], e) = 0 /\ PassedBy(call[c], e) = 0
      BY <2>2, ByTable
    <3> QED BY <3>2, <3>3
  <2> QED BY <1>1, <2>2, <2>4, <2>5, <2>6, CountSame
<1>4. CASE UseRemoteQuota(c)
  <2> DEFINE r == Global /\ call[c].time < lastSync + First
             j == [call[c] EXCEPT !.pc = "load", !.remote = r]
  <2>1. /\ call' = [call EXCEPT ![c].pc = "load", ![c].remote = r]
        /\ call[c].pc = "mode" /\ bkt' = bkt /\ granted' = granted
    BY <1>4 DEF UseRemoteQuota, At
  <2>2. r \in BOOLEAN
    BY SetupFacts
  <2> HIDE DEF r
  <2>3. call' = [call EXCEPT ![c] = j]
    BY <1>1, <2>1, <2>2 DEF CallType
  <2>4. /\ j \in CallType /\ j.pc = "load" /\ j.d = call[c].d /\ j.n = call[c].n
    BY <1>1, <2>2, SomePcs DEF CallType
  <2> HIDE DEF j
  <2>5. \A e \in Durations : /\ CountedBy(j, e) = CountedBy(call[c], e)
                             /\ PassedBy(j, e) = PassedBy(call[c], e)
    BY <2>1, <2>4, ByTable DEF Forward
  <2>6. /\ UNCHANGED <<setup, rx>> /\ granted' = granted /\ call[c].pc # "clear"
        /\ \A e \in Durations : bkt'[e].time = bkt[e].time /\ bkt'[e].stat = bkt[e].stat
    BY <1>1, <2>1
  <2> QED BY <2>3, <2>4, <2>5, <2>6, CountSame
<1>5. CASE LoadBucketTime(c)
  <2> DEFINE x == IF bkt[d].time = Expect(c) THEN "count" ELSE "cas"
             j == [call[c] EXCEPT !.seen = bkt[d].time, !.pc = x]
  <2>1. /\ call' = [call EXCEPT ![c].seen = bkt[d].time, ![c].pc = x]
        /\ call[c].pc = "load" /\ bkt' = bkt /\ granted' = granted
    BY <1>5 DEF LoadBucketTime, At, d
  <2>2. x \in CallPcs /\ bkt[d].time \in Nat /\ x \in {"count", "cas"}
    BY <1>1, SomePcs DEF BucketType, Periods
  <2> HIDE DEF x
  <2>3. call' = [call EXCEPT ![c] = j]
    BY <1>1, <2>1, <2>2 DEF CallType
  <2>4. /\ j \in CallType /\ j.pc = x /\ j.d = call[c].d /\ j.n = call[c].n
    BY <1>1, <2>2 DEF CallType
  <2> HIDE DEF j
  <2>5. \A e \in Durations : /\ CountedBy(j, e) = CountedBy(call[c], e)
                             /\ PassedBy(j, e) = PassedBy(call[c], e)
    BY <2>1, <2>2, <2>4, ByTable DEF Forward
  <2>6. \A e \in Durations : bkt'[e].time = bkt[e].time /\ bkt'[e].stat = bkt[e].stat
    BY <2>1
  <2>7. call[c].pc # "clear" /\ granted' = granted
    BY <2>1
  <2> QED BY <1>1, <2>3, <2>4, <2>5, <2>6, <2>7, CountSame
<1>6. CASE SwapBucketTime(c)
  BY <1>6, SwapCallerCounts
<1>7. CASE ResetStat(c)
  BY <1>7, ResetCallerCounts
<1>8. CASE ResetRemoteTotal(c)
  <2>1. /\ bkt' = [bkt EXCEPT ![d].total = MaxAmount[d]] /\ call[c].pc = "total"
        /\ Goto(c, "left") /\ granted' = granted
    BY <1>8 DEF ResetRemoteTotal, At, d
  <2>2. \A e \in Durations : bkt'[e].time = bkt[e].time /\ bkt'[e].stat = bkt[e].stat
    BY <1>1, <2>1, FieldKept
  <2> QED BY <1>1, <2>1, <2>2, GotoCounts, SomePcs DEF Forward, TurnoverSteps
<1>9. CASE ResetRemoteLeft(c)
  <2>1. /\ bkt' = [bkt EXCEPT ![d].left = MaxAmount[d]] /\ call[c].pc = "left"
        /\ Goto(c, "sync") /\ granted' = granted
    BY <1>9 DEF ResetRemoteLeft, At, d
  <2> QED BY <1>1, <2>1, FieldKept, GotoCounts, SomePcs DEF Forward, TurnoverSteps
<1>10. CASE ResetNeedSync(c)
  <2>1. /\ bkt' = [bkt EXCEPT ![d].sync = 0] /\ call[c].pc = "sync"
        /\ Goto(c, "count") /\ granted' = granted
    BY <1>10 DEF ResetNeedSync, At, d
  <2> QED BY <1>1, <2>1, FieldKept, GotoCounts, SomePcs DEF Forward, TurnoverSteps

<1>11. CASE CountRequest(c)
  <2> DEFINE used == bkt[d].stat + call[c].n
  <2>1. /\ call[c].pc = "count" /\ bkt' = [bkt EXCEPT ![d].stat = used]
        /\ \/ Goto(c, "take") /\ granted' = granted
           \/ Violated(c)
           \/ ~(MaxAmount[d] - used < 0) /\ Taken(c)
    BY <1>11 DEF CountRequest, At, d
  <2>2. \A e \in Durations : bkt'[e].time = bkt[e].time
    BY <1>1, <2>1, FieldKept
  <2>3. ASSUME NEW e \in Durations
        PROVE  bkt'[e].stat = bkt[e].stat
                 + (IF call[c].pc = "count" /\ e = call[c].d THEN call[c].n ELSE 0)
    <3>1. bkt'[d].stat = used /\ \A x \in Durations \ {d} : bkt'[x] = bkt[x]
      BY <1>1, <2>1, FieldKept
    <3> QED BY <1>1, <1>2, <2>1, <3>1 DEF d
  <2>4. CASE Violated(c)
    BY <1>1, <2>1, <2>2, <2>3, <2>4, ViolatedCounts
  <2>5. CASE ~(MaxAmount[d] - used < 0) /\ Taken(c)
    <3>1. bkt[call[c].d].stat + call[c].n <= MaxAmount[call[c].d]
      BY <1>1, <1>2, <2>5 DEF d
    <3> QED BY <1>1, <2>1, <2>2, <2>3, <2>5, <3>1, TakenCounts
  <2>6. CASE Goto(c, "take") /\ granted' = granted
    <3> DEFINE k == [call[c] EXCEPT !.pc = "take"]
    <3>1. /\ k \in CallType /\ k.pc = "take" /\ call' = [call EXCEPT ![c] = k]
          /\ k.d = call[c].d /\ k.n = call[c].n
      BY <1>1, <2>6, SomePcs DEF CallType, Goto
    <3> HIDE DEF k
    <3>2. \A e : ~Clearing(e)
      BY <2>1, NobodyTurns DEF TurnoverSteps
    <3>3. ASSUME NEW e \in Durations
          PROVE  /\ bkt'[e].stat = bkt[e].stat - CountedBy(call[c], e) + CountedBy(k, e)
                 /\ granted[e][bkt[e].time] + PassedIn(e) - PassedBy(call[c], e)
                      + PassedBy(k, e) <= MaxAmount[e]
      <4>1. /\ CountedBy(k, e) = IF e <= call[c].d THEN call[c].n ELSE 0
            /\ PassedBy(k, e) = IF e < call[c].d THEN call[c].n ELSE 0
        BY <3>1, ByTable
      <4>2. /\ CountedBy(call[c], e) = IF e < call[c].d THEN call[c].n ELSE 0
            /\ PassedBy(call[c], e) = IF e < call[c].d THEN call[c].n ELSE 0
        BY <2>1, ByTable DEF Forward
      <4>3. bkt'[e].stat = bkt[e].stat - CountedBy(call[c], e) + CountedBy(k, e)
        BY <1>1, <1>2, <2>1, <2>3, <4>1, <4>2 DEF d
      <4> QED BY <1>2, <4>1, <4>2, <4>3
    <3> QED BY <2>2, <2>6, <3>1, <3>2, <3>3, CountMove
  <2> QED BY <2>1, <2>4, <2>5, <2>6
<1>12. CASE TakeRemoteToken(c)
  <2> DEFINE left == bkt[d].left - call[c].n
  <2>1. /\ call[c].pc = "take" /\ bkt' = [bkt EXCEPT ![d].left = left]
        /\ \/ Violated(c)
           \/ ~(left < 0) /\ Goto(c, "note") /\ granted' = granted
    BY <1>12 DEF TakeRemoteToken, At, d
  <2>2. \A e \in Durations : bkt'[e].time = bkt[e].time /\ bkt'[e].stat = bkt[e].stat
    BY <1>1, <2>1, FieldKept
  <2>3. CASE Violated(c)
    <3>1. ASSUME NEW e \in Durations
          PROVE  bkt'[e].stat = bkt[e].stat
                   + (IF call[c].pc = "count" /\ e = call[c].d THEN call[c].n ELSE 0)
      BY <1>2, <2>1, <2>2
    <3> QED BY <1>1, <2>1, <2>2, <2>3, <3>1, ViolatedCounts
  <2>4. CASE ~(left < 0) /\ Goto(c, "note") /\ granted' = granted
    <3> DEFINE k == [call[c] EXCEPT !.pc = "note"]
    <3>1. /\ k \in CallType /\ k.pc = "note" /\ call' = [call EXCEPT ![c] = k]
          /\ k.d = call[c].d /\ k.n = call[c].n
      BY <1>1, <2>4, SomePcs DEF CallType, Goto
    <3> HIDE DEF k
    <3>2. \A e : ~Clearing(e)
      BY <2>1, NobodyTurns DEF TurnoverSteps
    <3>3. Global /\ Durations = {First} /\ d = First /\ LeftOK
      <4>1. Global
        BY <1>1, <2>1 DEF CallOK
      <4> QED BY <1>1, <4>1, SingleBucket
    <3>4. /\ granted[First][bkt[First].time] + PassedIn(First) + call[c].n
               <= MaxAmount[First]
      <4>1. PassedIn(First) <= HeldTokens /\ HeldTokens \in Nat
        BY <1>1, <3>3, PassedIsHeld, SumsType
      <4>2. bkt[First].left + (granted[First][bkt[First].time] + HeldTokens)
              <= MaxAmount[First]
        BY <3>3 DEF LeftOK, TokensOut, Period
      <4>3. bkt[First].left \in Int /\ bkt[First].left - call[c].n >= 0
        BY <1>1, <2>4, <3>3 DEF BucketType
      <4> QED BY <1>1, <1>2, <3>3, <4>1, <4>2, <4>3
    <3>5. ASSUME NEW e \in Durations
          PROVE  /\ bkt'[e].stat = bkt[e].stat - CountedBy(call[c], e) + CountedBy(k, e)
                 /\ granted[e][bkt[e].time] + PassedIn(e) - PassedBy(call[c], e)
                      + PassedBy(k, e) <= MaxAmount[e]
      <4>1. e = First /\ call[c].d = First
        BY <1>1, <3>3 DEF d
      <4>2. /\ CountedBy(k, e) = call[c].n /\ PassedBy(k, e) = call[c].n
        BY <1>2, <3>1, <4>1, ByTable
      <4>3. /\ CountedBy(call[c], e) = call[c].n /\ PassedBy(call[c], e) = 0
        BY <1>2, <2>1, <4>1, ByTable
      <4> QED BY <1>1, <1>2, <2>2, <3>4, <4>1, <4>2, <4>3
    <3> QED BY <2>2, <2>4, <3>1, <3>2, <3>5, CountMove
  <2> QED BY <2>1, <2>3, <2>4
<1>13. CASE AddNeedSync(c)
  <2>1. /\ call[c].pc = "note" /\ Taken(c)
        /\ \E v : bkt' = [bkt EXCEPT ![d].sync = v]
    BY <1>13 DEF AddNeedSync, At, d
  <2>2. \A e \in Durations : bkt'[e].time = bkt[e].time /\ bkt'[e].stat = bkt[e].stat
    BY <1>1, <2>1, FieldKept
  <2>3. ASSUME NEW e \in Durations
        PROVE  bkt'[e].stat = bkt[e].stat
                 + (IF call[c].pc = "count" /\ e = call[c].d THEN call[c].n ELSE 0)
    BY <1>2, <2>1, <2>2
  <2> QED BY <1>1, <2>1, <2>2, <2>3, TakenCounts
<1>14. CASE ReturnStat(c)
  <2>1. /\ call[c].pc = "return" /\ bkt' = [bkt EXCEPT ![d].stat = bkt[d].stat - call[c].n]
        /\ (call[c].remote /\ Goto(c, "give") /\ granted' = granted) \/ Returned(c)
    BY <1>14 DEF ReturnStat, At, d
  <2>2. \A e \in Durations : bkt'[e].time = bkt[e].time
    BY <1>1, <2>1, FieldKept
  <2>3. ASSUME NEW e \in Durations
        PROVE  bkt'[e].stat = bkt[e].stat
                 - (IF call[c].pc = "return" /\ e = call[c].d THEN call[c].n ELSE 0)
    <3> DEFINE v == bkt[d].stat - call[c].n
    <3>0. bkt' = [bkt EXCEPT ![d].stat = v]
      BY <2>1
    <3> HIDE DEF v
    <3>1. bkt'[d].stat = v /\ \A x \in Durations \ {d} : bkt'[x] = bkt[x]
      BY <1>1, <3>0, FieldKept
    <3> QED BY <1>1, <1>2, <2>1, <3>1 DEF d, v
  <2>4. CASE Returned(c)
    BY <1>1, <2>1, <2>2, <2>3, <2>4, ReturnedCounts
  <2>5. CASE call[c].remote /\ Goto(c, "give") /\ granted' = granted
    <3> DEFINE k == [call[c] EXCEPT !.pc = "give"]
    <3>1. /\ k \in CallType /\ k.pc = "give" /\ call' = [call EXCEPT ![c] = k]
          /\ k.d = call[c].d /\ k.n = call[c].n /\ k.fail = call[c].fail
      BY <1>1, <2>5, SomePcs DEF CallType, Goto
    <3> HIDE DEF k
    <3>2. \A e : ~Clearing(e)
      BY <2>1, NobodyTurns DEF TurnoverSteps
    <3>3. call[c].d <= call[c].fail /\ call[c].fail \in Nat
      BY <1>1, <2>1, SetupFacts DEF CallOK, CallType
    <3>4. ASSUME NEW e \in Durations
          PROVE  /\ bkt'[e].stat = bkt[e].stat - CountedBy(call[c], e) + CountedBy(k, e)
                 /\ granted[e][bkt[e].time] + PassedIn(e) - PassedBy(call[c], e)
                      + PassedBy(k, e) <= MaxAmount[e]
      <4>1. /\ CountedBy(k, e) = IF call[c].d < e /\ e <= call[c].fail THEN call[c].n ELSE 0
            /\ PassedBy(k, e) = 0
        BY <3>1, ByTable
      <4>2. /\ CountedBy(call[c], e) =
                 IF call[c].d <= e /\ e <= call[c].fail THEN call[c].n ELSE 0
            /\ PassedBy(call[c], e) = 0
        BY <2>1, ByTable
      <4>3. bkt'[e].stat = bkt[e].stat - CountedBy(call[c], e) + CountedBy(k, e)
        BY <1>1, <1>2, <2>1, <2>3, <3>3, <4>1, <4>2 DEF d
      <4> QED BY <1>2, <4>1, <4>2, <4>3
    <3> QED BY <2>2, <2>5, <3>1, <3>2, <3>4, CountMove
  <2> QED BY <2>1, <2>4, <2>5
<1>15. CASE ReturnRemoteToken(c)
  <2>1. /\ call[c].pc = "give" /\ Returned(c)
        /\ \E v : bkt' = [bkt EXCEPT ![d].left = v]
    BY <1>15 DEF ReturnRemoteToken, At, d
  <2>2. \A e \in Durations : bkt'[e].time = bkt[e].time /\ bkt'[e].stat = bkt[e].stat
    BY <1>1, <2>1, FieldKept
  <2>3. ASSUME NEW e \in Durations
        PROVE  bkt'[e].stat = bkt[e].stat
                 - (IF call[c].pc = "return" /\ e = call[c].d THEN call[c].n ELSE 0)
    BY <1>2, <2>1, <2>2
  <2> QED BY <1>1, <2>1, <2>2, <2>3, ReturnedCounts
<1> QED BY <1>3, <1>4, <1>5, <1>6, <1>7, <1>8, <1>9, <1>10, <1>11, <1>12, <1>13,
           <1>14, <1>15 DEF GetQuota

(* Steps of others than the callers that leave the count alone.            *)
LEMMA CountsKept ==
  ASSUME TypeInv, Counts, UNCHANGED <<setup, call, granted>>, rx.pc # "clear",
         \A e \in Durations : bkt'[e].time = bkt[e].time /\ bkt'[e].stat = bkt[e].stat
  PROVE  Counts'
<1>1. Durations' = Durations /\ Periods' = Periods /\ MaxAmount' = MaxAmount
  BY SetupStable
<1>2. ASSUME NEW e \in Durations PROVE StatOK(e)' /\ LimitOK(e)'
  <2>1. StatOK(e) /\ LimitOK(e)
    BY DEF Counts
  <2>2. CountedIn(e)' = CountedIn(e) /\ PassedIn(e)' = PassedIn(e)
    BY SumsSame
  <2>3. ~Clearing(e)' => ~Clearing(e)
    BY DEF Clearing
  <2>4. bkt'[e].time = bkt[e].time /\ bkt'[e].stat = bkt[e].stat
    OBVIOUS
  <2> QED BY <1>1, <2>1, <2>2, <2>3, <2>4 DEF StatOK, LimitOK
<1> QED BY <1>1, <1>2 DEF Counts

LEMMA SyncCounts ==
  ASSUME TypeInv, AllCovered, Shape, Counts, UNCHANGED setup, Sync
  PROVE  Counts'
<1>1. UNCHANGED <<call, granted>> /\ rx.d \in Durations
  BY DEF Sync, syncFrame, refreshFrame, SendInit, StartReport, CheckPendingTime,
         CollectNeedSync, ResponseTimeout, ReceiveAnswer, LoadRefreshTime,
         SwapRefreshTime, RefreshResetStat, RefreshResetNeedSync, ReadRemoteTotal,
         StoreRemoteTotal, LookAtTokens, SetTokens, TypeInv, RxType
<1>2. CASE SwapRefreshTime
  <2>1. PICK d \in Durations : d = rx.d
    BY <1>1
  <2>2. /\ bkt' = [bkt EXCEPT ![d].time = now \div d] /\ rx' = [rx EXCEPT !.pc = "clear"]
        /\ bkt[d].time < now \div d /\ now \div d \in Periods
        /\ \A x \in Callers : call[x].pc = "idle"
    BY <1>2, <2>1, RefreshPlace
  <2>3. PassedIn(d) = 0
    BY <2>2, SumsEmpty
  <2>4. \A e : CountedIn(e)' = CountedIn(e) /\ PassedIn(e)' = PassedIn(e)
    BY <1>1, SumsSame
  <2>5. rx'.pc = "clear" /\ rx'.d = d /\ rx.pc = "cas"
    BY <1>2, <2>1, <2>2 DEF TypeInv, RxType, SwapRefreshTime
  <2>6. Clearing(d)' /\ \A e \in Durations : ~Clearing(e)' => ~Clearing(e)
    BY <1>1, <2>5 DEF Clearing
  <2> QED BY <1>1, <2>2, <2>3, <2>4, <2>6, SwapCounts
<1>3. CASE RefreshResetStat
  <2>1. PICK d \in Durations : d = rx.d
    BY <1>1
  <2>2. /\ bkt' = [bkt EXCEPT ![d].stat = 0] /\ rx' = [rx EXCEPT !.pc = "sync"]
        /\ rx.pc = "clear"
    BY <1>3, <2>1 DEF RefreshResetStat
  <2>3. granted[d][bkt[d].time] = 0
    BY <2>1, <2>2 DEF Shape, SyncOK
  <2>4. TurningOver /\ Syncing
    BY <2>2 DEF TurningOver, Syncing, RefreshSteps
  <2>5. \A x \in Callers : call[x].pc = "idle"
    BY <2>4 DEF Shape, Alone, Allocating
  <2>6. CountedIn(d) = 0
    BY <2>5, SumsEmpty
  <2>7. \A e : CountedIn(e)' = CountedIn(e) /\ PassedIn(e)' = PassedIn(e)
    BY <1>1, SumsSame
  <2>8. \A e \in Durations \ {d} : ~Clearing(e)' => ~Clearing(e)
    BY <1>1, <2>1 DEF Clearing
  <2> QED BY <1>1, <2>2, <2>3, <2>6, <2>7, <2>8, ResetCounts
<1>4. CASE ~SwapRefreshTime /\ ~RefreshResetStat
  <2>1. /\ rx.pc # "clear"
        /\ \/ bkt' = bkt
           \/ \E v : bkt' = [bkt EXCEPT ![rx.d].total = v]
           \/ \E v : bkt' = [bkt EXCEPT ![rx.d].left = v]
           \/ \E v : bkt' = [bkt EXCEPT ![rx.d].sync = v]
    BY <1>4 DEF Sync, syncFrame, refreshFrame, SendInit, StartReport, CheckPendingTime,
         CollectNeedSync, ResponseTimeout, ReceiveAnswer, LoadRefreshTime,
         RefreshResetNeedSync, ReadRemoteTotal,
         StoreRemoteTotal, LookAtTokens, SetTokens
  <2>2. PICK d \in Durations : d = rx.d
    BY <1>1
  <2>3. CASE \E v : bkt' = [bkt EXCEPT ![d].total = v]
    BY <1>1, <2>1, <2>3, FieldKept, CountsKept
  <2>4. CASE \E v : bkt' = [bkt EXCEPT ![d].left = v]
    BY <1>1, <2>1, <2>4, FieldKept, CountsKept
  <2>5. CASE \E v : bkt' = [bkt EXCEPT ![d].sync = v]
    BY <1>1, <2>1, <2>5, FieldKept, CountsKept
  <2>6. CASE bkt' = bkt
    BY <1>1, <2>1, <2>6, CountsKept
  <2> QED BY <2>1, <2>2, <2>3, <2>4, <2>5, <2>6
<1> QED BY <1>2, <1>3, <1>4

LEMMA CountsStep ==
  ASSUME TypeInv, AllCovered, Shape, Counts, Global => LeftOK, Next
  PROVE  Counts'
<1>1. UNCHANGED setup
  BY DEF Next
<1>2. CASE Tick \/ Answer \/ OtherClient
  <2>1. UNCHANGED <<call, granted, rx, bkt>>
    BY <1>2 DEF Tick, Answer, OtherClient
  <2>2. ASSUME NEW e \in Durations
        PROVE  /\ CountedIn(e)' = CountedIn(e) /\ PassedIn(e)' = PassedIn(e)
               /\ Clearing(e)' = Clearing(e)
    BY <2>1, SumsSame DEF Clearing
  <2>3. Durations' = Durations /\ Periods' = Periods /\ MaxAmount' = MaxAmount
    BY <1>1, SetupStable
  <2> QED BY <2>1, <2>2, <2>3 DEF Counts, StatOK, LimitOK
<1> QED BY <1>1, <1>2, CallerCounts, SyncCounts DEF Next, Step

-----------------------------------------------------------------------------
(* Remote quota.                                                           *)

LEMMA RemoteTypes ==
  ASSUME TypeInv, AllCovered, Global
  PROVE  /\ Durations = {First} /\ First \in Nat \ {0} /\ First \in Durations
         /\ MaxAmount[First] \in Nat
         /\ Period \in Nat /\ Period \in Periods /\ bkt[First].sync \in Nat
         /\ bkt[First].total \in Int /\ bkt[First].left \in Int
         /\ HeldTokens \in Nat /\ granted[First][Period] \in Nat
         /\ \A p \in Periods : srv[First][p] \in Nat
         /\ rx.used[First] \in Nat /\ rx.time \in Nat /\ rx.d = First
         /\ rx.last \in Int /\ rx.left \in Int /\ rx.total \in Int
         /\ net.time \in Nat /\ net.amount[First] \in Int
         /\ RemoteLeft \in Int /\ Total \in Int /\ TokensOut \in Nat
         /\ Pending \in Nat /\ Credit \in Nat /\ InReport \in Nat
         /\ now \in Nat /\ lost \in Nat
<1>1. /\ Durations = {First} /\ First \in Nat \ {0} /\ First \in Durations
      /\ MaxAmount[First] \in Nat /\ rx.d = First
  BY SingleBucket
<1>2. /\ Period \in Nat /\ Period \in Periods /\ bkt[First].sync \in Nat
      /\ bkt[First].total \in Int /\ bkt[First].left \in Int
  BY <1>1 DEF TypeInv, BucketType, Period, Periods
<1>3. HeldTokens \in Nat /\ granted[First][Period] \in Nat
  BY <1>1, <1>2, SumsType DEF TypeInv
<1>4. \A p \in Periods : srv[First][p] \in Nat
  BY <1>1 DEF TypeInv
<1>5. /\ rx.used[First] \in Nat /\ rx.time \in Nat
      /\ rx.last \in Int /\ rx.left \in Int /\ rx.total \in Int
      /\ rx.answer \in Messages
  BY <1>1 DEF TypeInv, RxType
<1>6. net.time \in Nat /\ net.amount[First] \in Int /\ rx.answer.amount[First] \in Int
  BY <1>1, <1>5 DEF TypeInv, Messages
<1>7. RemoteLeft \in Int /\ Total \in Int /\ TokensOut \in Nat
  BY <1>1, <1>2, <1>3, <1>5, <1>6 DEF RemoteLeft, Total, TokensOut
<1>8. Pending \in Nat /\ Credit \in Nat
  BY <1>5 DEF Pending, Credit
<1>9. InReport \in Nat
  BY <1>1 DEF TypeInv, InReport
<1> QED BY <1>1, <1>2, <1>3, <1>4, <1>5, <1>6, <1>7, <1>8, <1>9 DEF TypeInv

(* What a caller's step may do to the tokens: take x of them, or give them *)
(* back, and turn y that it holds into granted ones to be reported.        *)
LEMMA CallerRemote ==
  ASSUME TypeInv, AllCovered, Global, RemoteOK, UNCHANGED <<setup, callFrame>>,
         NEW x \in Int, NEW y \in Nat,
         bkt'[First].time = bkt[First].time, bkt'[First].total = bkt[First].total,
         bkt'[First].left = bkt[First].left - x, bkt'[First].sync = bkt[First].sync + y,
         granted'[First][Period] = granted[First][Period] + y,
         HeldTokens' = HeldTokens + x - y,
         Turning' <=> Turning, Refilling' <=> Refilling, Refilled' => Refilled
  PROVE  RemoteOK'
<1>1. /\ MaxAmount[First] \in Nat /\ Period \in Nat
      /\ bkt[First].sync \in Nat /\ bkt[First].total \in Int /\ bkt[First].left \in Int
      /\ HeldTokens \in Nat /\ granted[First][Period] \in Nat
      /\ srv[First][Period] \in Nat
      /\ rx.used[First] \in Nat /\ rx.d = First
      /\ RemoteLeft \in Int /\ Total \in Int /\ TokensOut \in Nat
      /\ Pending \in Nat /\ Credit \in Nat /\ InReport \in Nat
  BY RemoteTypes
<1>2. /\ First' = First /\ MaxAmount' = MaxAmount /\ Period' = Period
      /\ UNCHANGED <<now, rx, net, srv, lost>>
  BY SetupStable DEF Period, callFrame
<1>3. Answered' = Answered /\ Reporting' = Reporting /\ InReport' = InReport
  BY <1>2 DEF Answered, Reporting, InReport
<1>4. Pending' = Pending /\ Credit' = Credit
  BY <1>2, <1>3 DEF Pending, Credit
<1>5. RemoteLeft' = RemoteLeft /\ RefreshPeriod' = RefreshPeriod /\ Total' = Total
  BY <1>2 DEF RemoteLeft, RefreshPeriod, Total
<1>6. TokensOut' = TokensOut + x
  BY <1>1, <1>2 DEF TokensOut
<1>7. MessageOK'
  BY <1>2, <1>3 DEF RemoteOK, MessageOK
<1>8. UsedOK'
  BY <1>2, <1>3 DEF RemoteOK, UsedOK
<1>9. LeftOK'
  BY <1>1, <1>2, <1>6 DEF RemoteOK, LeftOK
<1>10. SpentOK'
  BY <1>1, <1>2, <1>4, <1>5 DEF RemoteOK, SpentOK
<1>11. TotalOK'
  BY <1>2, <1>3, <1>4 DEF RemoteOK, TotalOK
<1>12. RefillOK'
  BY <1>2 DEF RemoteOK, RefillOK
<1>13. Decided => Decided'
  BY <1>1, <1>2, <1>5, <1>6 DEF Decided
<1>14. RefreshOK'
  BY <1>2, <1>5, <1>13 DEF RemoteOK, RefreshOK
<1>15. Accounted'
  BY <1>1, <1>2, <1>3 DEF RemoteOK, Accounted
<1> QED BY <1>7, <1>8, <1>9, <1>10, <1>11, <1>12, <1>14, <1>15 DEF RemoteOK

(* Who is in a turnover after one caller moved.                            *)
LEMMA TurningMove ==
  ASSUME TypeInv, NEW c \in Callers, NEW k, call' = [call EXCEPT ![c] = k]
  PROVE  /\ (call[c].pc \in TurnoverSteps <=> k.pc \in TurnoverSteps) =>
              (Turning' <=> Turning)
         /\ (call[c].pc \in {"clear", "total"} <=> k.pc \in {"clear", "total"}) =>
              (Refilling' <=> Refilling)
         /\ (k.pc \in {"left", "sync"} => call[c].pc \in {"left", "sync"}) =>
              (Refilled' => Refilled)
<1>1. call'[c] = k /\ \A x \in Callers \ {c} : call'[x] = call[x]
  BY DEF TypeInv
<1> QED BY <1>1 DEF Turning, Refilling, Refilled, TurnoverSteps

(* A turnover by a caller: nobody else is inside, so the tokens of the old *)
(* period are all granted, reported or lost.                               *)
LEMMA TurnoverRemote ==
  ASSUME TypeInv, AllCovered, Shape, Global, RemoteOK, UNCHANGED setup, NEW c \in Callers,
         \/ SwapBucketTime(c) \/ ResetRemoteTotal(c) \/ ResetRemoteLeft(c)
         \/ ResetNeedSync(c)
  PROVE  RemoteOK'
<1>1. /\ Durations = {First} /\ First \in Durations /\ MaxAmount[First] \in Nat
      /\ Period \in Nat /\ Period \in Periods /\ bkt[First].sync \in Nat
      /\ bkt[First].total \in Int /\ bkt[First].left \in Int
      /\ HeldTokens \in Nat /\ granted[First][Period] \in Nat
      /\ \A p \in Periods : srv[First][p] \in Nat
      /\ rx.used[First] \in Nat /\ rx.time \in Nat
      /\ net.amount[First] \in Int /\ InReport \in Nat
  BY RemoteTypes
<1>2. /\ call \in [Callers -> CallType] /\ call[c] \in CallType
      /\ call[c].d = First /\ CallOK(call[c])
  BY <1>1 DEF TypeInv, CallType, Shape
<1>3. /\ granted' = granted /\ UNCHANGED <<now, rx, net, srv, lost>>
      /\ call[c].pc \in {"cas", "total", "left", "sync"}
  BY DEF SwapBucketTime, ResetRemoteTotal, ResetRemoteLeft, ResetNeedSync, callFrame, At
<1>4. First' = First /\ MaxAmount' = MaxAmount
  BY SetupStable
<1>5. /\ \A z \in Callers : call[z].pc = "idle" \/ z = c
      /\ ~Syncing
  <2>1. CASE SwapBucketTime(c)
    BY <2>1, SwapPlace
  <2>2. CASE call[c].pc \in TurnoverSteps
    BY <2>2, TurnsAlone
  <2> QED BY <1>3, <2>1, <2>2 DEF TurnoverSteps, ResetRemoteTotal, ResetRemoteLeft,
          ResetNeedSync, At
<1>6. rx.pc \notin RefreshSteps /\ rx.pc \notin {"check", "collect"}
  BY <1>5 DEF Syncing
<1>7. Answered' = Answered /\ Reporting' = Reporting
  BY <1>3 DEF Answered, Reporting
<1>8. RefreshOK'
  BY <1>3, <1>6 DEF RefreshOK
<1>9. MessageOK'
  BY <1>3, <1>4, <1>7 DEF RemoteOK, MessageOK
<1>10. Total = bkt[First].total /\ Total' = bkt'[First].total
  BY <1>3, <1>4, <1>6 DEF Total, RefreshSteps
<1>11. ASSUME NEW pc \in CallPcs, call' = [call EXCEPT ![c].pc = pc], pc \in Forward
       PROVE  /\ HeldTokens' = 0 /\ HeldTokens = 0
              /\ Turning' <=> pc \in TurnoverSteps
              /\ Refilling' <=> pc \in {"clear", "total"}
              /\ Refilled' <=> pc \in {"left", "sync"}
  <2> DEFINE k == [call[c] EXCEPT !.pc = pc]
  <2>1. k \in CallType /\ k.pc = pc /\ call' = [call EXCEPT ![c] = k]
    BY <1>2, <1>11 DEF CallType
  <2> HIDE DEF k
  <2>2. call'[c] = k /\ \A z \in Callers \ {c} : call'[z] = call[z]
    BY <1>2, <2>1
  <2>3. HeldTokens = 0
    <3>1. \A z \in Callers : \/ call[z].pc = "idle"
                             \/ call[z].pc \in Forward /\ call[z].d = First
      BY <1>2, <1>3, <1>5 DEF Forward, TurnoverSteps
    <3> QED BY <1>1, <3>1, SumsEmpty
  <2>4. HeldTokens' = HeldTokens - HeldBy(call[c]) + HeldBy(k)
    BY <1>1, <2>1, SumsMove
  <2>5. HeldBy(call[c]) = 0 /\ HeldBy(k) = 0
    BY <1>3, <1>11, <2>1, ByTable DEF Forward, TurnoverSteps
  <2>6. HeldTokens' = 0
    BY <2>3, <2>4, <2>5
  <2> QED BY <1>5, <2>1, <2>2, <2>3, <2>6 DEF Turning, Refilling, Refilled, TurnoverSteps
<1>12. CASE SwapBucketTime(c)
  <2>1. /\ bkt' = [bkt EXCEPT ![First].time = now \div First]
        /\ call' = [call EXCEPT ![c].pc = "clear"]
        /\ bkt[First].time < now \div First /\ now \div First \in Periods
    BY <1>2, <1>12, SwapPlace
  <2>2. /\ bkt'[First].time = now \div First /\ bkt'[First].left = bkt[First].left
        /\ bkt'[First].total = bkt[First].total /\ bkt'[First].sync = bkt[First].sync
    BY <1>1, <2>1, FieldKept
  <2>3. HeldTokens' = 0 /\ Turning' /\ Refilling' /\ ~Refilled'
    BY <1>11, <2>1, SomePcs DEF Forward, TurnoverSteps
  <2>4. Period' = now \div First /\ Period < now \div First /\ now \div First \in Nat
    BY <1>4, <2>1, <2>2 DEF Period, Periods
  <2>5. granted[First][now \div First] = 0
    BY <1>1, <2>1 DEF Shape, BucketOK
  <2>6. TokensOut' = 0
    BY <1>3, <1>4, <2>3, <2>4, <2>5 DEF TokensOut
  <2>7. UsedOK'
    <3>1. rx.time \div First \in Nat
      BY <1>1, DivType, RemoteTypes
    <3> QED BY <1>1, <1>3, <1>4, <1>6, <1>7, <2>4, <3>1 DEF RemoteOK, UsedOK
  <2>8. LeftOK'
    BY <1>1, <1>4, <2>2, <2>6, RemoteTypes DEF RemoteOK, LeftOK
  <2>9. InReport' \in Nat /\ srv[First][now \div First] \in Nat
    <3>1. net.kind = "report" => net.amount[First] \in Nat
      BY <1>1 DEF TypeInv
    <3> QED BY <1>1, <1>3, <1>4, <2>1, <3>1 DEF InReport
  <2>10. Accounted'
    BY <1>1, <1>3, <1>4, <2>2, <2>4, <2>5, <2>9 DEF Accounted
  <2> QED BY <1>8, <1>9, <2>3, <2>7, <2>8, <2>10
          DEF RemoteOK, SpentOK, TotalOK, RefillOK
<1>13. ASSUME bkt'[First].time = bkt[First].time, call[c].pc \in TurnoverSteps,
              Turning' => Turning
       PROVE  /\ Period' = Period /\ UsedOK' /\ granted[First][Period] = 0
              /\ InReport' = InReport /\ Turning
              /\ Pending = 0 /\ Credit' = 0 /\ Pending' = 0
  <2>1. Period' = Period
    BY <1>4, <1>13 DEF Period
  <2>2. granted[First][Period] = 0
    BY <1>2, <1>13 DEF CallOK, TurnoverSteps, Period
  <2>3. Turning
    BY <1>13 DEF Turning
  <2>4. UsedOK'
    BY <1>3, <1>4, <1>7, <1>13, <2>1, <2>3 DEF RemoteOK, UsedOK
  <2>5. InReport' = InReport
    BY <1>3, <1>4, <2>1 DEF InReport
  <2>6. rx.time \div First \in Nat
    BY <1>1, DivType, RemoteTypes
  <2>7. Reporting /\ rx.used[First] # 0 => rx.time \div First # Period
    BY <1>1, <2>3, <2>6 DEF RemoteOK, UsedOK
  <2>8. Pending = 0 /\ Pending' = 0
    BY <1>1, <1>3, <1>4, <1>6, <1>7, <2>1, <2>7 DEF Pending
  <2>9. Credit' = 0
    BY <1>1, <1>3, <1>4, <2>1, <2>7 DEF Credit, Reporting
  <2> QED BY <2>1, <2>2, <2>3, <2>4, <2>5, <2>8, <2>9

<1>14. CASE ResetRemoteTotal(c)
  <2> DEFINE m == MaxAmount[First]
  <2>1. /\ bkt' = [bkt EXCEPT ![First].total = m] /\ call[c].pc = "total"
        /\ call' = [call EXCEPT ![c].pc = "left"]
    BY <1>2, <1>14 DEF ResetRemoteTotal, At, Goto
  <2>2. /\ bkt'[First].time = bkt[First].time /\ bkt'[First].left = bkt[First].left
        /\ bkt'[First].total = m /\ bkt'[First].sync = bkt[First].sync
    BY <1>1, <2>1, FieldKept
  <2>3. HeldTokens' = HeldTokens /\ Turning' /\ Turning
    BY <1>11, <2>1, SomePcs DEF Forward, TurnoverSteps, Turning
  <2>4. /\ Period' = Period /\ UsedOK' /\ granted[First][Period] = 0
        /\ InReport' = InReport /\ Credit' = 0
    BY <1>13, <2>1, <2>2, <2>3 DEF TurnoverSteps
  <2>5. LeftOK'
    BY <1>3, <1>4, <2>2, <2>3, <2>4 DEF RemoteOK, LeftOK, TokensOut
  <2>6. Accounted'
    BY <1>3, <1>4, <2>2, <2>4 DEF RemoteOK, Accounted
  <2>7. TotalOK'
    <3>1. srv[First][Period] \in Nat
      BY <1>1
    <3>2. m \in Nat /\ Answered => net.amount[First] <= m
      BY <1>1 DEF RemoteOK, MessageOK
    <3> QED BY <1>1, <1>3, <1>4, <1>7, <2>2, <2>4, <3>1, <3>2 DEF TotalOK
  <2>8. RefillOK' /\ SpentOK'
    BY <1>1, <1>4, <2>2, <2>3 DEF RefillOK, SpentOK
  <2> QED BY <1>8, <1>9, <2>4, <2>5, <2>6, <2>7, <2>8 DEF RemoteOK
<1>15. CASE ResetRemoteLeft(c)
  <2> DEFINE m == MaxAmount[First]
  <2>1. /\ bkt' = [bkt EXCEPT ![First].left = m] /\ call[c].pc = "left"
        /\ call' = [call EXCEPT ![c].pc = "sync"]
    BY <1>2, <1>15 DEF ResetRemoteLeft, At, Goto
  <2>2. /\ bkt'[First].time = bkt[First].time /\ bkt'[First].left = m
        /\ bkt'[First].total = bkt[First].total /\ bkt'[First].sync = bkt[First].sync
    BY <1>1, <2>1, FieldKept
  <2>3. /\ HeldTokens' = 0 /\ Turning' /\ Turning /\ ~Refilling' /\ Refilled
        /\ ~Refilling
    <3>1. HeldTokens' = 0 /\ Turning' /\ Turning /\ ~Refilling' /\ Refilled
      BY <1>11, <2>1, SomePcs DEF Forward, TurnoverSteps, Turning, Refilled
    <3>2. ~Refilling
      BY <1>5, <2>1 DEF Refilling
    <3> QED BY <3>1, <3>2
  <2>4. /\ Period' = Period /\ UsedOK' /\ granted[First][Period] = 0
        /\ InReport' = InReport /\ Credit' = 0
    BY <1>13, <2>1, <2>2, <2>3 DEF TurnoverSteps
  <2>5. LeftOK'
    <3>1. TokensOut' = 0
      BY <1>3, <1>4, <2>3, <2>4 DEF TokensOut
    <3> QED BY <1>1, <1>4, <2>2, <3>1 DEF LeftOK
  <2>6. Accounted'
    BY <1>3, <1>4, <2>2, <2>4 DEF RemoteOK, Accounted
  <2>7. TotalOK'
    <3>1. Credit' <= Credit /\ Credit \in Nat
      BY <2>4, RemoteTypes
    <3> QED BY <1>1, <1>3, <1>4, <1>6, <1>7, <2>2, <2>3, <2>4, <3>1 DEF RemoteOK, TotalOK
  <2>8. RefillOK' /\ SpentOK'
    BY <1>4, <2>2, <2>3 DEF RemoteOK, RefillOK, SpentOK
  <2> QED BY <1>8, <1>9, <2>4, <2>5, <2>6, <2>7, <2>8 DEF RemoteOK
<1>16. CASE ResetNeedSync(c)
  <2>1. /\ bkt' = [bkt EXCEPT ![First].sync = 0] /\ call[c].pc = "sync"
        /\ call' = [call EXCEPT ![c].pc = "count"]
    BY <1>2, <1>16 DEF ResetNeedSync, At, Goto
  <2>2. /\ bkt'[First].time = bkt[First].time /\ bkt'[First].left = bkt[First].left
        /\ bkt'[First].total = bkt[First].total /\ bkt'[First].sync = 0
    BY <1>1, <2>1, FieldKept
  <2>3. /\ HeldTokens' = 0 /\ HeldTokens = 0 /\ ~Turning' /\ Turning
        /\ ~Refilling' /\ ~Refilled' /\ Refilled /\ ~Refilling
    <3>1. /\ HeldTokens' = 0 /\ HeldTokens = 0 /\ ~Turning' /\ Turning
          /\ ~Refilling' /\ ~Refilled' /\ Refilled
      BY <1>11, <2>1, SomePcs DEF Forward, TurnoverSteps, Turning, Refilled
    <3>2. ~Refilling
      BY <1>5, <2>1 DEF Refilling
    <3> QED BY <3>1, <3>2
  <2>4. /\ Period' = Period /\ UsedOK' /\ granted[First][Period] = 0
        /\ InReport' = InReport /\ Credit' = 0 /\ Pending' = 0
    BY <1>13, <2>1, <2>2, <2>3 DEF TurnoverSteps
  <2>5. LeftOK'
    BY <1>3, <1>4, <2>2, <2>3, <2>4 DEF RemoteOK, LeftOK, TokensOut
  <2>6. Accounted'
    BY <1>1, <1>3, <1>4, <2>2, <2>4 DEF RemoteOK, Accounted
  <2>7. TotalOK'
    <3>1. Credit' <= Credit /\ Credit \in Nat
      BY <2>4, RemoteTypes
    <3> QED BY <1>1, <1>3, <1>4, <1>6, <1>7, <2>2, <2>3, <2>4, <3>1 DEF RemoteOK, TotalOK
  <2>8. RefillOK'
    BY <2>3 DEF RefillOK
  <2>9. SpentOK'
    <3>1. bkt[First].left <= MaxAmount[First]
      BY <1>1, RemoteTypes DEF RemoteOK, LeftOK
    <3>2. bkt[First].total >= MaxAmount[First]
      BY <2>3 DEF RemoteOK, RefillOK
    <3> QED BY <1>1, <1>4, <1>10, <2>2, <2>3, <2>4, <3>1, <3>2 DEF SpentOK
  <2> QED BY <1>8, <1>9, <2>4, <2>5, <2>6, <2>7, <2>8, <2>9 DEF RemoteOK
<1> QED BY <1>12, <1>14, <1>15, <1>16

LEMMA CallerRemoteStep ==
  ASSUME TypeInv, AllCovered, Shape, Global, RemoteOK, UNCHANGED setup,
         NEW c \in Callers, GetQuota(c)
  PROVE  RemoteOK'
<1>1. /\ Durations = {First} /\ First \in Durations /\ Later(First) = {}
      /\ bkt \in [Durations -> BucketType]
      /\ Period \in Periods /\ bkt[First].left \in Int /\ bkt[First].sync \in Nat
      /\ HeldTokens \in Nat /\ granted[First][Period] \in Nat
      /\ granted \in [Durations -> [Periods -> Nat]]
  BY RemoteTypes, CoveredFacts DEF TypeInv
<1>2. /\ call \in [Callers -> CallType] /\ call[c] \in CallType /\ call[c].n \in Nat
      /\ call[c].d = First /\ call[c].fail = First /\ CallOK(call[c])
      /\ UNCHANGED callFrame /\ Idle \in CallType /\ Idle.pc = "idle"
  <2>1. UNCHANGED callFrame
    BY DEF GetQuota, Allocate, UseRemoteQuota, LoadBucketTime, SwapBucketTime, ResetStat,
       ResetRemoteTotal, ResetRemoteLeft, ResetNeedSync, CountRequest, TakeRemoteToken,
       AddNeedSync, ReturnStat, ReturnRemoteToken
  <2>2. Idle \in CallType /\ Idle.pc = "idle"
    BY <1>1, SomePcs DEF Idle, CallType
  <2> QED BY <1>1, <2>1, <2>2 DEF TypeInv, CallType, Shape
<1>3. ASSUME NEW k \in CallType, call' = [call EXCEPT ![c] = k],
             call[c].pc \in TurnoverSteps <=> k.pc \in TurnoverSteps,
             call[c].pc \in {"clear", "total"} <=> k.pc \in {"clear", "total"},
             k.pc \in {"left", "sync"} => call[c].pc \in {"left", "sync"},
             NEW x \in Int, NEW y \in Nat, HeldBy(k) = HeldBy(call[c]) + x - y,
             bkt'[First].time = bkt[First].time, bkt'[First].total = bkt[First].total,
             bkt'[First].left = bkt[First].left - x,
             bkt'[First].sync = bkt[First].sync + y,
             granted'[First][Period] = granted[First][Period] + y
      PROVE  RemoteOK'
  <2>1. Turning' <=> Turning
    BY <1>3, TurningMove
  <2>2. (Refilling' <=> Refilling) /\ (Refilled' => Refilled)
    BY <1>3, TurningMove
  <2>3. HeldTokens' = HeldTokens - HeldBy(call[c]) + HeldBy(k)
    BY <1>1, <1>3, SumsMove
  <2>4. HeldBy(call[c]) \in Nat /\ HeldBy(k) \in Nat
    BY <1>2 DEF HeldBy, CallType
  <2>5. HeldTokens' = HeldTokens + x - y
    BY <1>1, <1>3, <2>3, <2>4
  <2> QED BY <1>2, <1>3, <2>1, <2>2, <2>5, CallerRemote
<1>4. ASSUME NEW k \in CallType, call' = [call EXCEPT ![c] = k],
             call[c].pc \in TurnoverSteps <=> k.pc \in TurnoverSteps,
             call[c].pc \in {"clear", "total"} <=> k.pc \in {"clear", "total"},
             k.pc \in {"left", "sync"} => call[c].pc \in {"left", "sync"},
             HeldBy(k) = HeldBy(call[c]), granted' = granted,
             bkt' = bkt \/ \E v : bkt' = [bkt EXCEPT ![First].stat = v]
      PROVE  RemoteOK'
  <2>1. /\ bkt'[First].time = bkt[First].time /\ bkt'[First].total = bkt[First].total
        /\ bkt'[First].left = bkt[First].left /\ bkt'[First].sync = bkt[First].sync
    BY <1>1, <1>4, FieldKept
  <2>2. HeldBy(call[c]) \in Nat
    BY <1>2 DEF HeldBy
  <2> DEFINE z == 0
  <2>3. /\ HeldBy(k) = HeldBy(call[c]) + z - z /\ z \in Int /\ z \in Nat
        /\ bkt'[First].left = bkt[First].left - z
        /\ bkt'[First].sync = bkt[First].sync + z
        /\ granted'[First][Period] = granted[First][Period] + z
    BY <1>1, <1>4, <2>1, <2>2
  <2> HIDE DEF z
  <2> QED BY <1>3, <1>4, <2>1, <2>3
<1>5. CASE Allocate(c)
  <2>1. PICK n \in setup.asked :
          call' = [call EXCEPT ![c] = [Idle EXCEPT !.pc = "mode", !.time = now, !.n = n]]
    BY <1>5 DEF Allocate
  <2> DEFINE k == [Idle EXCEPT !.pc = "mode", !.time = now, !.n = n]
  <2>2. call[c].pc = "idle" /\ bkt' = bkt /\ granted' = granted
    BY <1>5 DEF Allocate, At
  <2>3. k \in CallType /\ k.pc = "mode"
    <3>1. n \in Nat /\ now \in Nat
      BY SetupFacts DEF TypeInv
    <3> QED BY <1>2, <3>1, SomePcs DEF CallType
  <2>4. call' = [call EXCEPT ![c] = k]
    BY <2>1
  <2> HIDE DEF k
  <2>5. HeldBy(k) = HeldBy(call[c])
    BY <2>2, <2>3, ByTable DEF Forward
  <2>6. /\ k.pc \notin TurnoverSteps /\ call[c].pc \notin TurnoverSteps
        /\ k.pc \notin {"clear", "total"} /\ call[c].pc \notin {"clear", "total"}
        /\ k.pc \notin {"left", "sync"}
    BY <2>2, <2>3 DEF TurnoverSteps
  <2> QED BY <1>4, <2>2, <2>3, <2>4, <2>5, <2>6
<1>6. CASE UseRemoteQuota(c)
  <2> DEFINE r == Global /\ call[c].time < lastSync + First
             j == [call[c] EXCEPT !.pc = "load", !.remote = r]
  <2>1. /\ call' = [call EXCEPT ![c].pc = "load", ![c].remote = r]
        /\ call[c].pc = "mode" /\ bkt' = bkt /\ granted' = granted
    BY <1>6 DEF UseRemoteQuota, At
  <2>2. r \in BOOLEAN
    BY SetupFacts
  <2> HIDE DEF r
  <2>3. call' = [call EXCEPT ![c] = j]
    BY <1>2, <2>1, <2>2 DEF CallType
  <2>4. j \in CallType /\ j.pc = "load"
    BY <1>2, <2>2, SomePcs DEF CallType
  <2> HIDE DEF j
  <2>5. HeldBy(j) = HeldBy(call[c])
    BY <2>1, <2>4, ByTable DEF Forward
  <2> QED BY <1>4, <2>1, <2>3, <2>4, <2>5 DEF TurnoverSteps
<1>7. CASE LoadBucketTime(c)
  <2> DEFINE x == IF bkt[First].time = Expect(c) THEN "count" ELSE "cas"
             j == [call[c] EXCEPT !.seen = bkt[First].time, !.pc = x]
  <2>1. /\ call' = [call EXCEPT ![c].seen = bkt[First].time, ![c].pc = x]
        /\ call[c].pc = "load" /\ bkt' = bkt /\ granted' = granted
    BY <1>2, <1>7 DEF LoadBucketTime, At
  <2>2. x \in CallPcs /\ bkt[First].time \in Nat /\ x \in {"count", "cas"}
    BY <1>1, SomePcs DEF BucketType, Periods
  <2> HIDE DEF x
  <2>3. call' = [call EXCEPT ![c] = j]
    BY <1>2, <2>1, <2>2 DEF CallType
  <2>4. j \in CallType /\ j.pc = x
    BY <1>2, <2>2 DEF CallType
  <2> HIDE DEF j
  <2>5. HeldBy(j) = HeldBy(call[c])
    BY <2>1, <2>2, <2>4, ByTable DEF Forward
  <2>6. /\ j.pc \notin TurnoverSteps /\ call[c].pc \notin TurnoverSteps
        /\ j.pc \notin {"clear", "total"} /\ call[c].pc \notin {"clear", "total"}
        /\ j.pc \notin {"left", "sync"}
    BY <2>1, <2>2, <2>4 DEF TurnoverSteps
  <2> QED BY <1>4, <2>1, <2>3, <2>4, <2>5, <2>6
<1>8. CASE SwapBucketTime(c) \/ ResetRemoteTotal(c) \/ ResetRemoteLeft(c)
           \/ ResetNeedSync(c)
  BY <1>8, TurnoverRemote
<1>9. ASSUME NEW pc \in CallPcs, Goto(c, pc)
      PROVE  \E k \in CallType : /\ call' = [call EXCEPT ![c] = k] /\ k.pc = pc
                                 /\ k.n = call[c].n
  <2> DEFINE k == [call[c] EXCEPT !.pc = pc]
  <2>1. k \in CallType /\ call' = [call EXCEPT ![c] = k] /\ k.pc = pc /\ k.n = call[c].n
    BY <1>2, <1>9 DEF CallType, Goto
  <2> QED BY <2>1
<1>10. CASE ResetStat(c)
  <2>1. call[c].pc = "clear" /\ Goto(c, "total") /\ granted' = granted
        /\ \E v : bkt' = [bkt EXCEPT ![First].stat = v]
    BY <1>2, <1>10 DEF ResetStat, At
  <2>2. PICK k \in CallType : call' = [call EXCEPT ![c] = k] /\ k.pc = "total"
    BY <1>9, <2>1, SomePcs
  <2>3. HeldBy(k) = HeldBy(call[c])
    BY <2>1, <2>2, ByTable DEF Forward, TurnoverSteps
  <2> QED BY <1>4, <2>1, <2>2, <2>3 DEF TurnoverSteps
<1>11. CASE CountRequest(c)
  <2>1. call[c].pc = "count" /\ \E v : bkt' = [bkt EXCEPT ![First].stat = v]
    BY <1>2, <1>11 DEF CountRequest, At
  <2>2. call[c].remote
    BY <1>2, <2>1 DEF CallOK
  <2>3. Goto(c, "take") /\ granted' = granted
    BY <1>11, <2>2 DEF CountRequest
  <2>4. PICK k \in CallType : call' = [call EXCEPT ![c] = k] /\ k.pc = "take"
    BY <1>9, <2>3, SomePcs
  <2>5. HeldBy(k) = HeldBy(call[c])
    BY <2>1, <2>4, ByTable DEF Forward
  <2> QED BY <1>4, <2>1, <2>3, <2>4, <2>5 DEF TurnoverSteps
<1>12. CASE TakeRemoteToken(c)
  <2> DEFINE v == bkt[First].left - call[c].n
  <2>1. /\ call[c].pc = "take" /\ bkt' = [bkt EXCEPT ![First].left = v]
        /\ Violated(c) \/ (Goto(c, "note") /\ granted' = granted)
    BY <1>2, <1>12 DEF TakeRemoteToken, At
  <2>2. /\ bkt'[First].time = bkt[First].time /\ bkt'[First].total = bkt[First].total
        /\ bkt'[First].left = v /\ bkt'[First].sync = bkt[First].sync
    BY <1>1, <2>1, FieldKept
  <2>3. PICK k \in CallType : /\ call' = [call EXCEPT ![c] = k] /\ k.n = call[c].n
                              /\ k.pc \in {"note", "return"} /\ granted' = granted
    <3>1. CASE Violated(c)
      <4> DEFINE k == [call[c] EXCEPT !.pc = "return", !.d = First, !.fail = call[c].d]
      <4>1. /\ k \in CallType /\ k.pc = "return" /\ k.n = call[c].n
            /\ call' = [call EXCEPT ![c] = k] /\ granted' = granted
        BY <1>1, <1>2, <3>1, SomePcs DEF Violated, CallType
      <4> HIDE DEF k
      <4> QED BY <4>1
    <3>2. CASE Goto(c, "note") /\ granted' = granted
      BY <1>9, <3>2, SomePcs
    <3> QED BY <2>1, <3>1, <3>2
  <2>4. HeldBy(k) = call[c].n /\ HeldBy(call[c]) = 0
    BY <2>1, <2>3, ByTable
  <2>5. /\ HeldBy(k) = HeldBy(call[c]) + call[c].n - 0
        /\ bkt'[First].sync = bkt[First].sync + 0
        /\ granted'[First][Period] = granted[First][Period] + 0
        /\ call[c].n \in Int
    BY <1>1, <1>2, <2>2, <2>3, <2>4
  <2>6. /\ k.pc \notin TurnoverSteps /\ call[c].pc \notin TurnoverSteps
        /\ k.pc \notin {"clear", "total"} /\ call[c].pc \notin {"clear", "total"}
        /\ k.pc \notin {"left", "sync"}
    BY <2>1, <2>3 DEF TurnoverSteps
  <2> QED BY <1>3, <2>2, <2>3, <2>5, <2>6
<1>13. CASE AddNeedSync(c)
  <2> DEFINE v == bkt[First].sync + call[c].n
             k == Idle
  <2>1. /\ call[c].pc = "note" /\ bkt' = [bkt EXCEPT ![First].sync = v]
        /\ call' = [call EXCEPT ![c] = k] /\ Grant(c)
    BY <1>1, <1>2, <1>13 DEF AddNeedSync, At, Taken
  <2>2. /\ bkt'[First].time = bkt[First].time /\ bkt'[First].total = bkt[First].total
        /\ bkt'[First].left = bkt[First].left /\ bkt'[First].sync = v
    BY <1>1, <2>1, FieldKept
  <2>3. granted'[First] = [granted[First] EXCEPT ![Period] = @ + call[c].n]
    BY <1>1, <1>2, <2>1, GrantPlace DEF Period
  <2>4. granted'[First][Period] = granted[First][Period] + call[c].n
    BY <1>1, <2>3
  <2>5. k \in CallType /\ k.pc = "idle"
    BY <1>2
  <2> HIDE DEF k
  <2>6. HeldBy(k) = 0 /\ HeldBy(call[c]) = call[c].n
    BY <2>1, <2>5, ByTable
  <2> DEFINE z == 0
  <2>7. /\ HeldBy(k) = HeldBy(call[c]) + z - call[c].n /\ z \in Int
        /\ bkt'[First].left = bkt[First].left - z
        /\ bkt'[First].sync = bkt[First].sync + call[c].n
    BY <1>1, <1>2, <2>2, <2>6
  <2> HIDE DEF z
  <2>8. /\ k.pc \notin TurnoverSteps /\ call[c].pc \notin TurnoverSteps
        /\ k.pc \notin {"clear", "total"} /\ call[c].pc \notin {"clear", "total"}
        /\ k.pc \notin {"left", "sync"}
    BY <2>1, <2>5 DEF TurnoverSteps
  <2>9. call' = [call EXCEPT ![c] = k]
    BY <2>1
  <2> QED BY <1>2, <1>3, <2>2, <2>4, <2>5, <2>7, <2>8, <2>9
<1>14. CASE ReturnStat(c)
  <2>1. call[c].pc = "return" /\ \E v : bkt' = [bkt EXCEPT ![First].stat = v]
    BY <1>2, <1>14 DEF ReturnStat, At
  <2>2. call[c].remote
    BY <1>2, <2>1 DEF CallOK
  <2>3. Goto(c, "give") /\ granted' = granted
    BY <1>14, <2>2 DEF ReturnStat
  <2>4. PICK k \in CallType : /\ call' = [call EXCEPT ![c] = k] /\ k.pc = "give"
                              /\ k.n = call[c].n
    BY <1>9, <2>3, SomePcs
  <2>5. HeldBy(k) = HeldBy(call[c])
    BY <2>1, <2>4, ByTable
  <2> QED BY <1>4, <2>1, <2>3, <2>4, <2>5 DEF TurnoverSteps
<1>15. CASE ReturnRemoteToken(c)
  <2> DEFINE v == bkt[First].left + call[c].n
             x == 0 - call[c].n
             k == Idle
  <2>1. call[c].pc = "give" /\ bkt' = [bkt EXCEPT ![First].left = v] /\ Returned(c)
    BY <1>2, <1>15 DEF ReturnRemoteToken, At
  <2>2. call' = [call EXCEPT ![c] = k] /\ granted' = granted
    <3>1. ~setup.pass
      BY CoveredFacts
    <3> QED BY <1>2, <2>1, <3>1 DEF Returned
  <2>3. /\ bkt'[First].time = bkt[First].time /\ bkt'[First].total = bkt[First].total
        /\ bkt'[First].left = v /\ bkt'[First].sync = bkt[First].sync
    BY <1>1, <2>1, FieldKept
  <2>4. k \in CallType /\ k.pc = "idle"
    BY <1>2
  <2> HIDE DEF k
  <2>5. HeldBy(k) = 0 /\ HeldBy(call[c]) = call[c].n
    BY <2>1, <2>4, ByTable
  <2>6. /\ HeldBy(k) = HeldBy(call[c]) + x - 0 /\ x \in Int
        /\ bkt'[First].left = bkt[First].left - x
        /\ bkt'[First].sync = bkt[First].sync + 0
        /\ granted'[First][Period] = granted[First][Period] + 0
    BY <1>1, <1>2, <2>2, <2>3, <2>5
  <2> HIDE DEF x, v
  <2> QED BY <1>3, <2>1, <2>2, <2>3, <2>4, <2>6 DEF TurnoverSteps
<1> QED BY <1>5, <1>6, <1>7, <1>8, <1>10, <1>11, <1>12, <1>13, <1>14, <1>15 DEF GetQuota

(* What the sync task cannot change.                                       *)
LEMMA SyncFrame ==
  ASSUME UNCHANGED <<setup, syncFrame>>
  PROVE  /\ First' = First /\ MaxAmount' = MaxAmount /\ UNCHANGED <<now, srv, granted>>
         /\ HeldTokens' = HeldTokens
         /\ Turning' = Turning /\ Refilling' = Refilling /\ Refilled' = Refilled
<1>1. UNCHANGED <<now, call, srv, granted>> /\ First' = First /\ MaxAmount' = MaxAmount
  BY SetupStable DEF syncFrame
<1>2. HeldTokens' = HeldTokens
  BY <1>1, SumsSame
<1> QED BY <1>1, <1>2 DEF Turning, Refilling, Refilled

(* Outside of a refresh the server has counted what is missing from the    *)
(* total.                                                                  *)
LEMMA TotalBound ==
  ASSUME TypeInv, AllCovered, Shape, Global, RemoteOK, rx.pc \notin RefreshSteps,
         ~Refilling
  PROVE  bkt[First].total + srv[First][Period] >= MaxAmount[First]
<1>1. /\ MaxAmount[First] \in Nat /\ Period \in Nat /\ Period \in Periods
      /\ bkt[First].total \in Int /\ srv[First][Period] \in Nat
      /\ net.amount[First] \in Int /\ Credit \in Nat /\ net.time \in Nat
      /\ First \in Nat \ {0}
  BY RemoteTypes
<1>2. net.time \div First \in Nat
  BY <1>1, DivType
<1>3. CASE ~Answered \/ net.time \div First > Period
  BY <1>3 DEF RemoteOK, TotalOK
<1>4. CASE Answered /\ net.time \div First = Period
  <2>1. bkt[First].total >= net.amount[First] + Credit
    BY <1>4 DEF RemoteOK, TotalOK
  <2>2. net.amount[First] + srv[First][Period] >= MaxAmount[First]
    BY <1>4 DEF RemoteOK, MessageOK
  <2> QED BY <1>1, <2>1, <2>2
<1>5. CASE Answered /\ net.time \div First < Period
  <2>1. bkt[First].total >= MaxAmount[First]
    BY <1>5 DEF RemoteOK, TotalOK
  <2> QED BY <1>1, <2>1
<1> QED BY <1>1, <1>2, <1>3, <1>4, <1>5

(* The sync task outside of a refresh: tokens to be reported may become    *)
(* reported ones.                                                          *)
LEMMA OutsideRemote ==
  ASSUME TypeInv, AllCovered, Shape, Global, RemoteOK, UNCHANGED <<setup, syncFrame>>,
         rx.pc \notin RefreshSteps, rx'.pc \notin RefreshSteps, ~Answered',
         bkt'[First].time = bkt[First].time, bkt'[First].total = bkt[First].total,
         bkt'[First].left = bkt[First].left, bkt'[First].sync \in Nat, Pending' \in Nat,
         InReport' \in Nat, MessageOK', UsedOK',
         bkt'[First].sync + Pending' <= bkt[First].sync + Pending,
         lost' = 0 =>
           lost = 0 /\ bkt'[First].sync + InReport' >= bkt[First].sync + InReport
  PROVE  RemoteOK'
<1>1. /\ MaxAmount[First] \in Nat /\ Period \in Nat /\ Period \in Periods
      /\ bkt[First].sync \in Nat /\ bkt[First].total \in Int /\ bkt[First].left \in Int
      /\ HeldTokens \in Nat /\ granted[First][Period] \in Nat
      /\ srv[First][Period] \in Nat /\ Pending \in Nat /\ InReport \in Nat
  BY RemoteTypes
<1>2. /\ First' = First /\ MaxAmount' = MaxAmount /\ UNCHANGED <<now, srv, granted>>
      /\ HeldTokens' = HeldTokens
      /\ Turning' = Turning /\ Refilling' = Refilling /\ Refilled' = Refilled
  BY SyncFrame
<1>3. Period' = Period /\ TokensOut' = TokensOut
  <2>1. Period' = Period
    BY <1>2 DEF Period
  <2> QED BY <1>2, <2>1 DEF TokensOut
<1>4. Total = bkt[First].total /\ Total' = bkt'[First].total
  BY <1>2 DEF Total, RefreshSteps
<1>5. LeftOK'
  BY <1>2, <1>3 DEF RemoteOK, LeftOK
<1>6. SpentOK'
  BY <1>1, <1>2, <1>4 DEF RemoteOK, SpentOK
<1>7. TotalOK'
  <2>1. ~Refilling => bkt[First].total + srv[First][Period] >= MaxAmount[First]
    BY TotalBound
  <2> QED BY <1>2, <1>3, <2>1 DEF TotalOK
<1>8. RefillOK' /\ RefreshOK'
  BY <1>2 DEF RemoteOK, RefillOK, RefreshOK
<1>9. Accounted'
  BY <1>1, <1>2, <1>3 DEF RemoteOK, Accounted
<1> QED BY <1>5, <1>6, <1>7, <1>8, <1>9 DEF RemoteOK

(* A step of RefreshToken that changes no token.                           *)
LEMMA RefreshKept ==
  ASSUME TypeInv, AllCovered, Shape, Global, RemoteOK, UNCHANGED <<setup, refreshFrame>>,
         rx.pc \in RefreshSteps, rx'.pc \in RefreshSteps,
         rx'.time = rx.time, rx'.used = rx.used, rx'.answer = rx.answer, rx'.d = rx.d,
         bkt'[First].time = bkt[First].time, bkt'[First].left = bkt[First].left,
         bkt'[First].sync = bkt[First].sync, Total' = Total,
         rx'.pc \in {"look", "set"} => bkt'[First].total = RemoteLeft,
         rx'.pc = "set" => rx'.total = RemoteLeft,
         bkt'[First].total = bkt[First].total \/ ~Turning,
         \/ rx'.pc \notin {"read", "store", "look", "set", "load"}
         \/ rx.pc \in {"read", "store", "look", "set"}
         \/ rx.pc = "load" /\ Period = RefreshPeriod
  PROVE  RemoteOK'
<1>1. /\ First' = First /\ MaxAmount' = MaxAmount /\ UNCHANGED <<now, srv, granted>>
      /\ HeldTokens' = HeldTokens /\ UNCHANGED <<net, lost>>
      /\ Turning' = Turning /\ Refilling' = Refilling /\ Refilled' = Refilled
  BY SyncFrame DEF refreshFrame
<1>2. Period' = Period /\ TokensOut' = TokensOut
  <2>1. Period' = Period
    BY <1>1 DEF Period
  <2> QED BY <1>1, <2>1 DEF TokensOut
<1>3. RemoteLeft' = RemoteLeft /\ RefreshPeriod' = RefreshPeriod
  BY <1>1 DEF RemoteLeft, RefreshPeriod
<1>4. Answered' = Answered /\ Reporting' = Reporting /\ InReport' = InReport
  BY <1>1, <1>2 DEF Answered, Reporting, InReport
<1>5. Pending' = Pending
  BY <1>1, <1>2, <1>4 DEF Pending
<1>6. MessageOK'
  BY <1>1, <1>4 DEF RemoteOK, MessageOK
<1>7. UsedOK'
  BY <1>1, <1>2, <1>4 DEF RemoteOK, UsedOK, RefreshSteps
<1>8. LeftOK' /\ SpentOK'
  BY <1>1, <1>2, <1>5 DEF RemoteOK, LeftOK, SpentOK
<1>9. TotalOK'
  BY DEF TotalOK
<1>10. RefillOK'
  <2>1. Refilled => Turning
    BY DEF Refilled, Turning, TurnoverSteps
  <2> QED BY <1>1, <2>1 DEF RemoteOK, RefillOK
<1>11. Decided => Decided'
  BY <1>1, <1>2, <1>3 DEF Decided
<1>12. RefreshOK'
  BY <1>1, <1>2, <1>3, <1>11 DEF RemoteOK, RefreshOK
<1>13. Accounted'
  BY <1>1, <1>2, <1>4 DEF RemoteOK, Accounted
<1> QED BY <1>6, <1>7, <1>8, <1>9, <1>10, <1>12, <1>13 DEF RemoteOK

(* Init requests and reports.                                              *)
LEMMA RequestRemote ==
  ASSUME TypeInv, AllCovered, Shape, Global, RemoteOK, UNCHANGED setup,
         \/ SendInit \/ StartReport \/ CheckPendingTime \/ CollectNeedSync
         \/ ResponseTimeout
  PROVE  RemoteOK'
<1>1. /\ Durations = {First} /\ First \in Durations /\ Later(First) = {}
      /\ Period \in Nat /\ bkt[First].sync \in Nat /\ rx \in RxType
      /\ rx.used \in [Durations -> Nat] /\ rx.used[First] \in Nat /\ rx.d = First
      /\ Pending \in Nat /\ InReport \in Nat /\ net.amount[First] \in Int
      /\ bkt \in [Durations -> BucketType] /\ lost \in Nat
  BY RemoteTypes, CoveredFacts DEF TypeInv, RxType
<1>2. UNCHANGED syncFrame /\ rx.pc \notin RefreshSteps
  BY DEF SendInit, StartReport, CheckPendingTime, CollectNeedSync, ResponseTimeout,
     RefreshSteps
<1>3. /\ First' = First /\ MaxAmount' = MaxAmount /\ UNCHANGED <<now, srv, granted>>
      /\ Turning' = Turning
  BY <1>2, SyncFrame
<1>4. NoUse[First] = 0 /\ NoMessage.kind = "none"
  BY <1>1 DEF NoUse, NoMessage
<1>5. rx.pc # "wait" => net.kind = "none"
  BY DEF Shape, SyncOK
<1>6. ASSUME bkt' = bkt, rx'.pc \notin RefreshSteps, ~Answered',
             MessageOK', UsedOK', Pending' = 0, InReport' = 0,
             (lost' = lost /\ rx.pc # "wait") \/ lost' = lost + 1
      PROVE  RemoteOK'
  <2>1. lost' = 0 => InReport = 0 /\ lost = 0
    BY <1>1, <1>5, <1>6 DEF InReport
  <2> QED BY <1>1, <1>2, <1>6, <2>1, OutsideRemote
<1>7. CASE SendInit
  <2>1. /\ net' = [kind |-> "init", time |-> now, amount |-> NoUse]
        /\ rx' = [rx EXCEPT !.pc = "wait", !.time = now] /\ bkt' = bkt /\ lost' = lost
        /\ rx.pc = "init"
    BY <1>7 DEF SendInit
  <2>2. rx'.pc = "wait" /\ rx'.time = now
    BY <1>1, <2>1 DEF RxType
  <2>3. net'.kind = "init" /\ net'.time = now /\ net'.amount = NoUse
    BY <2>1
  <2>4. ~Answered' /\ ~Reporting'
    BY <2>3 DEF Answered, Reporting
  <2>5. rx'.pc \notin RefreshSteps /\ rx'.pc \notin {"check", "collect"}
    BY <2>2 DEF RefreshSteps
  <2>6. MessageOK' /\ UsedOK'
    BY <1>3, <1>4, <2>2, <2>3, <2>4, <2>5 DEF MessageOK, UsedOK
  <2>7. Pending' = 0 /\ InReport' = 0
    BY <2>3, <2>4, <2>5 DEF Pending, InReport
  <2> QED BY <1>6, <2>1, <2>4, <2>5, <2>6, <2>7
<1>8. CASE StartReport
  <2>1. /\ rx' = [rx EXCEPT !.pc = "check", !.time = now, !.used = NoUse, !.d = First]
        /\ rx.pc = "ready" /\ bkt' = bkt /\ lost' = lost /\ net' = net
    BY <1>8 DEF StartReport
  <2>2. rx'.pc = "check" /\ rx'.used = NoUse
    BY <1>1, <2>1 DEF RxType
  <2>3. net'.kind = "none"
    BY <1>5, <2>1
  <2>4. ~Answered' /\ ~Reporting'
    BY <2>3 DEF Answered, Reporting
  <2>5. rx'.pc \notin RefreshSteps
    BY <2>2 DEF RefreshSteps
  <2>6. MessageOK' /\ UsedOK'
    BY <1>3, <1>4, <2>2, <2>3, <2>4, <2>5 DEF MessageOK, UsedOK
  <2>7. Pending' = 0 /\ InReport' = 0
    BY <2>3, <2>4, <2>5 DEF Pending, InReport
  <2> QED BY <1>6, <2>1, <2>4, <2>5, <2>6, <2>7
<1>9. CASE ResponseTimeout
  <2>1. /\ rx' = [rx EXCEPT !.pc = "init"] /\ bkt' = bkt /\ lost' = lost + 1
        /\ net' = NoMessage
    BY <1>9 DEF ResponseTimeout
  <2>2. rx'.pc = "init" /\ net'.kind = "none"
    BY <1>1, <1>4, <2>1 DEF RxType
  <2>4. ~Answered' /\ ~Reporting'
    BY <2>2 DEF Answered, Reporting
  <2>5. rx'.pc \notin RefreshSteps /\ rx'.pc \notin {"check", "collect"}
    BY <2>2 DEF RefreshSteps
  <2>6. MessageOK' /\ UsedOK'
    BY <2>2, <2>4, <2>5 DEF MessageOK, UsedOK
  <2>7. Pending' = 0 /\ InReport' = 0
    BY <2>2, <2>4, <2>5 DEF Pending, InReport
  <2> QED BY <1>6, <2>1, <2>4, <2>5, <2>6, <2>7
<1>10. ASSUME NEW used \in [Durations -> Nat], Reported(used), lost' = lost,
              rx.pc \in {"check", "collect"}, used[First] # 0 => rx.pc = "collect"
       PROVE  /\ ~Answered' /\ MessageOK' /\ rx'.pc \notin RefreshSteps
              /\ net'.kind = "report" /\ net'.amount[First] = used[First]
              /\ net'.time = rx.time /\ rx'.time = rx.time /\ rx'.used = used
              /\ bkt'[First].time = bkt[First].time =>
                   /\ UsedOK' /\ Period' = Period
                   /\ Pending' = IF rx.time \div First = Period THEN used[First] ELSE 0
                   /\ InReport' = IF rx.time \div First = Period THEN used[First] ELSE 0
  <2>1. /\ rx' = [rx EXCEPT !.pc = "wait", !.used = used]
        /\ net' = [kind |-> "report", time |-> rx.time, amount |-> used]
    BY <1>1, <1>10 DEF Reported
  <2>2. rx'.pc = "wait" /\ rx'.used = used /\ rx'.time = rx.time
    BY <1>1, <1>10, <2>1 DEF RxType
  <2>3. net'.kind = "report" /\ net'.time = rx.time /\ net'.amount = used
    BY <2>1
  <2>4. ~Answered' /\ Reporting' /\ rx'.pc \notin RefreshSteps
    BY <2>2, <2>3 DEF Answered, Reporting, RefreshSteps
  <2>5. MessageOK'
    BY <1>3, <2>2, <2>3, <2>4 DEF MessageOK
  <2>6. ASSUME bkt'[First].time = bkt[First].time
        PROVE  /\ UsedOK' /\ Period' = Period
               /\ Pending' = IF rx.time \div First = Period THEN used[First] ELSE 0
               /\ InReport' = IF rx.time \div First = Period THEN used[First] ELSE 0
    <3>1. Period' = Period
      BY <1>3, <2>6 DEF Period
    <3>2. ~Turning
      <4>1. Syncing
        BY <1>10 DEF Syncing
      <4> QED BY <4>1, TurnsAlone DEF Turning
    <3>3. used[First] # 0 => rx.time \div First = Period
      BY <1>10 DEF RemoteOK, UsedOK
    <3>4. UsedOK'
      BY <1>1, <1>3, <2>2, <2>4, <3>1, <3>2, <3>3 DEF UsedOK
    <3> QED BY <1>3, <2>2, <2>3, <2>4, <3>1, <3>4 DEF Pending, InReport
  <2> QED BY <2>2, <2>3, <2>4, <2>5, <2>6
<1>11. CASE CheckPendingTime
  <2>0. /\ rx.pc = "check" /\ bkt' = bkt /\ lost' = lost /\ net.kind = "none"
        /\ rx.used[First] = 0
    BY <1>5, <1>11 DEF CheckPendingTime, RemoteOK, UsedOK
  <2>1. CASE Reported(rx.used)
    <3>1. /\ ~Answered' /\ MessageOK' /\ rx'.pc \notin RefreshSteps /\ UsedOK'
          /\ Pending' = 0 /\ InReport' = 0
      BY <1>1, <1>10, <2>0, <2>1
    <3> QED BY <1>6, <2>0, <3>1
  <2>2. CASE rx' = [rx EXCEPT !.pc = "collect"] /\ UNCHANGED net
             /\ bkt[rx.d].time = rx.time \div rx.d
    <3>1. rx'.pc = "collect" /\ rx'.used = rx.used /\ rx'.time = rx.time
      BY <1>1, <2>2 DEF RxType
    <3>2. net'.kind = "none"
      BY <2>0, <2>2
    <3>3. ~Answered' /\ ~Reporting' /\ rx'.pc \notin RefreshSteps
      BY <3>1, <3>2 DEF Answered, Reporting, RefreshSteps
    <3>4. Period' = rx.time \div First
      BY <1>1, <1>3, <2>0, <2>2 DEF Period
    <3>5. MessageOK' /\ UsedOK'
      BY <1>3, <2>0, <3>1, <3>2, <3>3, <3>4 DEF MessageOK, UsedOK
    <3>6. Pending' = 0 /\ InReport' = 0
      BY <3>2, <3>3 DEF Pending, InReport
    <3> QED BY <1>6, <2>0, <3>3, <3>5, <3>6
  <2> QED BY <1>11, <2>1, <2>2 DEF CheckPendingTime
<1>12. CASE CollectNeedSync
  <2> DEFINE used == [rx.used EXCEPT ![rx.d] = bkt[rx.d].sync]
  <2>1. /\ rx.pc = "collect" /\ Reported(used) /\ lost' = lost
        /\ bkt' = [bkt EXCEPT ![First].sync = 0]
    BY <1>1, <1>12 DEF CollectNeedSync
  <2>2. used \in [Durations -> Nat] /\ used[First] = bkt[First].sync
    BY <1>1
  <2> HIDE DEF used
  <2>3. /\ bkt'[First].time = bkt[First].time /\ bkt'[First].total = bkt[First].total
        /\ bkt'[First].left = bkt[First].left /\ bkt'[First].sync = 0
    BY <1>1, <2>1, FieldKept
  <2>4. rx.time \div First = Period
    BY <2>1 DEF RemoteOK, UsedOK
  <2>5. /\ ~Answered' /\ MessageOK' /\ rx'.pc \notin RefreshSteps /\ UsedOK'
        /\ Pending' = bkt[First].sync /\ InReport' = bkt[First].sync
    BY <1>10, <2>1, <2>2, <2>3, <2>4
  <2>6. net.kind = "none"
    BY <1>5, <2>1
  <2>7. InReport = 0
    BY <2>6 DEF InReport
  <2> QED BY <1>1, <1>2, <2>1, <2>3, <2>5, <2>7, OutsideRemote
<1> QED BY <1>7, <1>8, <1>9, <1>11, <1>12

(* An answer enters the bucket: what was reported in its period is still   *)
(* part of the old total.                                                  *)
LEMMA AnswerRemote ==
  ASSUME TypeInv, AllCovered, Shape, Global, RemoteOK, UNCHANGED setup, ReceiveAnswer
  PROVE  RemoteOK'
<1>1. /\ Durations = {First} /\ First \in Durations /\ First \in Nat \ {0}
      /\ MaxAmount[First] \in Nat
      /\ Period \in Nat /\ Period \in Periods /\ bkt[First].sync \in Nat
      /\ bkt[First].total \in Int /\ bkt[First].left \in Int /\ HeldTokens \in Nat
      /\ \A p \in Periods : srv[First][p] \in Nat
      /\ rx \in RxType /\ rx.used[First] \in Nat /\ rx.time \in Nat /\ rx.d = First
      /\ net.time \in Nat /\ net.amount[First] \in Int
      /\ Pending \in Nat /\ Credit \in Nat /\ now \in Nat
  BY RemoteTypes DEF TypeInv
<1> DEFINE used == IF net.kind = "inited" THEN NoUse
                   ELSE [d \in Durations |->
                           IF rx.time \div d = now \div d THEN rx.used[d] ELSE 0]
<1>2. /\ rx' = [rx EXCEPT !.pc = "load", !.d = First, !.answer = net, !.used = used,
                          !.time = now]
      /\ net' = NoMessage /\ bkt' = bkt /\ lost' = lost /\ rx.pc = "wait" /\ MayEnter
      /\ UNCHANGED syncFrame /\ Answered
  BY DEF ReceiveAnswer, Answered
<1>3. used[First] = IF net.kind # "inited" /\ rx.time \div First = now \div First
                    THEN rx.used[First] ELSE 0
  BY <1>1 DEF NoUse
<1> HIDE DEF used
<1>4. /\ rx'.pc = "load" /\ rx'.d = First /\ rx'.answer = net /\ rx'.used = used
      /\ rx'.time = now
  BY <1>1, <1>2 DEF RxType
<1>5. /\ First' = First /\ MaxAmount' = MaxAmount /\ UNCHANGED <<now, srv, granted>>
      /\ HeldTokens' = HeldTokens
      /\ Turning' = Turning /\ Refilling' = Refilling /\ Refilled' = Refilled
  BY <1>2, SyncFrame
<1>6. Period' = Period /\ TokensOut' = TokensOut
  <2>1. Period' = Period
    BY <1>2, <1>5 DEF Period
  <2> QED BY <1>5, <2>1 DEF TokensOut
<1>7. ~Turning /\ ~Refilling /\ ~Refilled
  <2>1. ~TurningOver
    BY <1>2, CoveredFacts DEF MayEnter
  <2> QED BY <2>1 DEF TurningOver, Turning, Refilling, Refilled, TurnoverSteps
<1>8. /\ net.time \div First \in Nat /\ now \div First \in Nat
      /\ now \div First \in Periods /\ rx.time \div First \in Nat
      /\ Period <= now \div First
      /\ net.time \div First <= now \div First
      /\ rx.time \div First <= net.time \div First
      /\ net.time <= now /\ net.time >= rx.time
  <2>1. net.time <= now /\ net.time >= rx.time
    BY <1>2 DEF RemoteOK, MessageOK
  <2>2. Period <= now \div First
    BY <1>1 DEF Shape, BucketOK, Period
  <2>3. now \div First \in Periods
    BY SingleBucket
  <2> QED BY <1>1, <2>1, <2>2, <2>3, DivType, DivMono
<1>9. net'.kind = "none" /\ ~Answered' /\ ~Reporting' /\ InReport' = 0 /\ InReport = 0
  BY <1>2 DEF NoMessage, Answered, Reporting, InReport
<1>10. rx'.pc \in RefreshSteps /\ rx.pc \notin RefreshSteps
  BY <1>2, <1>4 DEF RefreshSteps
<1>11. /\ used[First] \in Nat
       /\ used[First] # 0 =>
            /\ now \div First = Period /\ rx.time \div First = Period
            /\ used[First] = rx.used[First] /\ net.kind = "reported"
  <2>1. used[First] # 0 => Reporting /\ rx.used[First] # 0
    BY <1>2, <1>3 DEF Answered, Reporting
  <2>2. used[First] # 0 => rx.time \div First <= Period
    BY <2>1 DEF RemoteOK, UsedOK
  <2> QED BY <1>1, <1>2, <1>3, <1>8, <2>2 DEF Answered
<1>12. MessageOK'
  BY <1>9 DEF MessageOK
<1>13. UsedOK'
  BY <1>4, <1>5, <1>6, <1>9, <1>11 DEF UsedOK
<1>14. LeftOK'
  BY <1>2, <1>5, <1>6 DEF RemoteOK, LeftOK
<1>15. Total' = Total /\ Total = bkt[First].total
  BY <1>2, <1>4, <1>5 DEF Total
<1>16. SpentOK'
  <2>1. Pending' = used[First] /\ used[First] <= Pending
    <3>1. Pending' = IF now \div First = Period THEN used[First] ELSE 0
      BY <1>4, <1>5, <1>6, <1>10 DEF Pending
    <3>2. used[First] # 0 => Pending = used[First]
      BY <1>11 DEF Pending, Reporting
    <3> QED BY <1>1, <1>11, <3>1, <3>2
  <2> QED BY <1>1, <1>2, <1>5, <1>7, <1>11, <1>15, <2>1 DEF RemoteOK, SpentOK
<1>17. /\ RemoteLeft' = IF net.time \div First = now \div First
                        THEN net.amount[First] ELSE MaxAmount[First]
       /\ RefreshPeriod' = now \div First
  BY <1>4, <1>5 DEF RemoteLeft, RefreshPeriod
<1>18. /\ RemoteLeft' <= MaxAmount[First]
       /\ RemoteLeft' + srv[First][now \div First] >= MaxAmount[First]
  <2>1. /\ net.amount[First] <= MaxAmount[First]
        /\ net.amount[First] + srv[First][net.time \div First] >= MaxAmount[First]
    BY <1>2 DEF RemoteOK, MessageOK
  <2>2. srv[First][now \div First] \in Nat
    BY <1>1, <1>8
  <2>3. CASE net.time \div First = now \div First
    BY <1>17, <2>1, <2>3
  <2>4. CASE net.time \div First # now \div First
    BY <1>1, <1>17, <2>2, <2>4
  <2> QED BY <2>3, <2>4
<1>19. Period = now \div First => Decided'
  <2>1. ASSUME Period = now \div First
        PROVE  bkt[First].total >= RemoteLeft' + used[First]
    <3>1. CASE net.time \div First = Period
      <4>1. bkt[First].total >= net.amount[First] + Credit
        BY <1>2, <1>7, <1>10, <3>1 DEF RemoteOK, TotalOK
      <4>2. used[First] <= Credit
        BY <1>1, <1>11 DEF Credit
      <4> QED BY <1>1, <1>11, <1>17, <2>1, <3>1, <4>1, <4>2
    <3>2. CASE net.time \div First < Period
      <4>1. bkt[First].total >= MaxAmount[First]
        BY <1>2, <1>7, <1>10, <3>2 DEF RemoteOK, TotalOK
      <4>2. used[First] = 0
        BY <1>1, <1>8, <1>11, <2>1, <3>2
      <4> QED BY <1>1, <1>8, <1>17, <2>1, <3>2, <4>1, <4>2
    <3> QED BY <1>1, <1>8, <2>1, <3>1, <3>2
  <2> QED BY <1>4, <1>5, <1>15, <2>1 DEF Decided
<1>20. RefreshOK'
  BY <1>4, <1>5, <1>6, <1>17, <1>18, <1>19 DEF RefreshOK
<1>21. TotalOK' /\ RefillOK'
  BY <1>5, <1>7, <1>10 DEF TotalOK, RefillOK
<1>22. Accounted'
  BY <1>2, <1>5, <1>6, <1>9 DEF RemoteOK, Accounted
<1> QED BY <1>12, <1>13, <1>14, <1>16, <1>20, <1>21, <1>22 DEF RemoteOK

(* RefreshToken.                                                           *)
LEMMA RefreshRemote ==
  ASSUME TypeInv, AllCovered, Shape, Global, RemoteOK, UNCHANGED setup,
         \/ LoadRefreshTime \/ SwapRefreshTime \/ RefreshResetStat
         \/ RefreshResetNeedSync \/ ReadRemoteTotal \/ StoreRemoteTotal
         \/ LookAtTokens \/ SetTokens
  PROVE  RemoteOK'
<1>1. /\ Durations = {First} /\ First \in Durations /\ First \in Nat \ {0}
      /\ MaxAmount[First] \in Nat /\ Later(First) = {}
      /\ Period \in Nat /\ Period \in Periods /\ bkt[First].sync \in Nat
      /\ bkt[First].total \in Int /\ bkt[First].left \in Int /\ HeldTokens \in Nat
      /\ granted[First][Period] \in Nat
      /\ \A p \in Periods : srv[First][p] \in Nat
      /\ rx \in RxType /\ rx.used[First] \in Nat /\ rx.time \in Nat /\ rx.d = First
      /\ rx.last \in Int /\ rx.left \in Int /\ rx.total \in Int
      /\ RemoteLeft \in Int /\ TokensOut \in Nat
      /\ Pending \in Nat /\ now \in Nat /\ lastSync \in Nat
      /\ bkt \in [Durations -> BucketType]
  BY RemoteTypes, CoveredFacts DEF TypeInv
<1>2. /\ UNCHANGED <<syncFrame, net, lost>> /\ rx.pc \in RefreshSteps
      /\ SetTokens \/ UNCHANGED refreshFrame
  BY DEF LoadRefreshTime, SwapRefreshTime, RefreshResetStat, RefreshResetNeedSync,
     ReadRemoteTotal, StoreRemoteTotal, LookAtTokens, SetTokens, RefreshSteps, refreshFrame
<1>3. /\ First' = First /\ MaxAmount' = MaxAmount /\ UNCHANGED <<now, srv, granted>>
      /\ HeldTokens' = HeldTokens
      /\ Turning' = Turning /\ Refilling' = Refilling /\ Refilled' = Refilled
  BY <1>2, SyncFrame
<1>4. /\ Syncing /\ rx.time \div First = now \div First /\ net.kind = "none"
      /\ rx.time <= now /\ now < lastSync + First /\ RefreshPeriod = now \div First
  <2>1. Syncing /\ rx.pc # "wait"
    BY <1>2 DEF Syncing, RefreshSteps
  <2> QED BY <1>1, <2>1 DEF Shape, SyncOK, RefreshPeriod
<1>5. ~Turning /\ ~Refilled /\ ~Answered /\ ~Reporting
  BY <1>4, TurnsAlone DEF Turning, Refilled, TurnoverSteps, Answered, Reporting
<1>6. rx.pc \in {"clear", "sync", "read", "store", "look", "set"} =>
        Period = now \div First
  BY <1>1 DEF Shape, SyncOK, Period
<1>7. CASE LoadRefreshTime
  <2> DEFINE x == IF bkt[First].time = RefreshPeriod THEN "read" ELSE "cas"
  <2>1. /\ rx' = [rx EXCEPT !.seen = bkt[First].time, !.pc = x] /\ rx.pc = "load"
        /\ bkt' = bkt /\ UNCHANGED refreshFrame
    BY <1>1, <1>7 DEF LoadRefreshTime
  <2>2. x \in {"read", "cas"} /\ (x = "read" => Period = RefreshPeriod)
    BY DEF Period
  <2> HIDE DEF x
  <2>3. /\ rx'.pc = x /\ rx'.time = rx.time /\ rx'.used = rx.used
        /\ rx'.answer = rx.answer /\ rx'.d = rx.d
    BY <1>1, <2>1 DEF RxType
  <2>4. rx'.pc \in RefreshSteps /\ Total' = Total
    BY <1>3, <2>1, <2>2, <2>3 DEF RefreshSteps, Total
  <2>5. rx'.pc \notin {"read", "store", "look", "set", "load"}
        \/ (rx.pc = "load" /\ Period = RefreshPeriod)
    BY <2>1, <2>2, <2>3
  <2>6. rx'.pc \notin {"look", "set"}
    BY <2>2, <2>3
  <2> QED BY <1>2, <2>1, <2>3, <2>4, <2>5, <2>6, RefreshKept
<1>8. CASE RefreshResetStat
  <2>1. /\ rx' = [rx EXCEPT !.pc = "sync"] /\ rx.pc = "clear" /\ UNCHANGED refreshFrame
        /\ bkt' = [bkt EXCEPT ![First].stat = 0]
    BY <1>1, <1>8 DEF RefreshResetStat
  <2>2. /\ rx'.pc = "sync" /\ rx'.time = rx.time /\ rx'.used = rx.used
        /\ rx'.answer = rx.answer /\ rx'.d = rx.d
    BY <1>1, <2>1 DEF RxType
  <2>3. /\ bkt'[First].time = bkt[First].time /\ bkt'[First].total = bkt[First].total
        /\ bkt'[First].left = bkt[First].left /\ bkt'[First].sync = bkt[First].sync
    BY <1>1, <2>1, FieldKept
  <2>4. rx'.pc \in RefreshSteps /\ Total' = Total
    BY <1>3, <2>1, <2>2, <2>3 DEF RefreshSteps, Total
  <2> QED BY <1>2, <2>1, <2>2, <2>3, <2>4, RefreshKept
<1>9. CASE ReadRemoteTotal
  <2>1. /\ rx' = [rx EXCEPT !.pc = "store", !.last = bkt[First].total] /\ rx.pc = "read"
        /\ bkt' = bkt /\ UNCHANGED refreshFrame
    BY <1>1, <1>9 DEF ReadRemoteTotal
  <2>2. /\ rx'.pc = "store" /\ rx'.time = rx.time /\ rx'.used = rx.used
        /\ rx'.answer = rx.answer /\ rx'.d = rx.d /\ rx'.last = bkt[First].total
    BY <1>1, <2>1 DEF RxType
  <2>3. rx'.pc \in RefreshSteps /\ Total' = Total
    BY <2>1, <2>2 DEF RefreshSteps, Total
  <2> QED BY <1>2, <2>1, <2>2, <2>3, RefreshKept
<1>10. CASE StoreRemoteTotal
  <2> DEFINE v == RemoteLeft
  <2>1. /\ rx' = [rx EXCEPT !.pc = "look"] /\ rx.pc = "store" /\ UNCHANGED refreshFrame
        /\ bkt' = [bkt EXCEPT ![First].total = v]
    BY <1>1, <1>10 DEF StoreRemoteTotal
  <2>2. /\ rx'.pc = "look" /\ rx'.time = rx.time /\ rx'.used = rx.used
        /\ rx'.answer = rx.answer /\ rx'.d = rx.d /\ rx'.last = rx.last
    BY <1>1, <2>1 DEF RxType
  <2> HIDE DEF v
  <2>3. /\ bkt'[First].time = bkt[First].time /\ bkt'[First].total = v
        /\ bkt'[First].left = bkt[First].left /\ bkt'[First].sync = bkt[First].sync
    BY <1>1, <2>1, FieldKept
  <2>4. rx'.pc \in RefreshSteps /\ Total' = Total
    BY <2>1, <2>2 DEF RefreshSteps, Total
  <2> QED BY <1>2, <1>5, <2>1, <2>2, <2>3, <2>4, RefreshKept DEF v
<1>11. CASE LookAtTokens
  <2>1. /\ rx' = [rx EXCEPT !.pc = "set", !.left = bkt[First].left,
                            !.total = bkt[First].total]
        /\ rx.pc = "look" /\ bkt' = bkt /\ UNCHANGED refreshFrame
    BY <1>1, <1>11 DEF LookAtTokens
  <2>2. /\ rx'.pc = "set" /\ rx'.time = rx.time /\ rx'.used = rx.used
        /\ rx'.answer = rx.answer /\ rx'.d = rx.d /\ rx'.last = rx.last
        /\ rx'.total = bkt[First].total
    BY <1>1, <2>1 DEF RxType
  <2>3. rx'.pc \in RefreshSteps /\ Total' = Total
    BY <2>1, <2>2 DEF RefreshSteps, Total
  <2>4. bkt[First].total = RemoteLeft
    BY <1>2, <2>1 DEF RemoteOK, RefreshOK
  <2> QED BY <1>2, <2>1, <2>2, <2>3, <2>4, RefreshKept

<1>12. CASE SwapRefreshTime
  <2>1. /\ bkt' = [bkt EXCEPT ![First].time = now \div First]
        /\ rx' = [rx EXCEPT !.pc = "clear"]
        /\ bkt[First].time < now \div First /\ now \div First \in Periods
        /\ \A z \in Callers : call[z].pc = "idle"
    BY <1>1, <1>12, RefreshPlace
  <2>2. /\ bkt'[First].time = now \div First /\ bkt'[First].total = bkt[First].total
        /\ bkt'[First].left = bkt[First].left /\ bkt'[First].sync = bkt[First].sync
    BY <1>1, <2>1, FieldKept
  <2>3. /\ rx'.pc = "clear" /\ rx'.time = rx.time /\ rx'.used = rx.used
        /\ rx'.answer = rx.answer /\ rx'.d = rx.d /\ rx.pc = "cas"
    BY <1>1, <1>12, <2>1 DEF RxType, SwapRefreshTime
  <2>4. Period' = now \div First /\ Period < now \div First /\ now \div First \in Nat
    BY <1>3, <2>1, <2>2 DEF Period, Periods
  <2>5. rx.used[First] = 0
    BY <1>1, <1>2, <1>4, <2>4 DEF RemoteOK, UsedOK
  <2>6. granted[First][now \div First] = 0 /\ HeldTokens = 0
    <3>1. HeldTokens = 0
      BY <1>1, <2>1, SumsEmpty
    <3> QED BY <1>1, <2>1, <3>1 DEF Shape, BucketOK
  <2>7. TokensOut' = 0
    BY <1>3, <2>4, <2>6 DEF TokensOut
  <2>8. RemoteLeft' = RemoteLeft /\ RefreshPeriod' = RefreshPeriod
    BY <1>3, <2>3 DEF RemoteLeft, RefreshPeriod
  <2>9. ~Answered' /\ ~Reporting' /\ net'.kind = "none" /\ rx'.pc \in RefreshSteps
    BY <1>2, <1>4, <2>3 DEF Answered, Reporting, RefreshSteps
  <2>10. MessageOK' /\ UsedOK'
    BY <1>3, <2>3, <2>5, <2>9 DEF MessageOK, UsedOK
  <2>11. LeftOK'
    BY <1>1, <1>3, <2>2, <2>7 DEF RemoteOK, LeftOK
  <2>12. SpentOK'
    <3>1. Pending' = 0
      BY <1>3, <2>3, <2>5 DEF Pending
    <3>2. Total' = bkt[First].total /\ Total = bkt[First].total
      BY <1>3, <2>2, <2>3 DEF Total
    <3> QED BY <1>1, <1>3, <1>5, <2>2, <3>1, <3>2 DEF RemoteOK, SpentOK
  <2>13. TotalOK' /\ RefillOK'
    BY <1>3, <1>5, <2>9 DEF TotalOK, RefillOK
  <2>14. RefreshOK'
    BY <1>2, <1>3, <2>3, <2>8 DEF RemoteOK, RefreshOK
  <2>15. Accounted'
    <3>1. InReport' = 0 /\ srv[First][now \div First] \in Nat
      BY <1>1, <2>1, <2>9 DEF InReport
    <3> QED BY <1>1, <1>3, <2>2, <2>4, <2>6, <3>1 DEF Accounted
  <2> QED BY <2>10, <2>11, <2>12, <2>13, <2>14, <2>15 DEF RemoteOK
<1>13. ASSUME bkt'[First].time = bkt[First].time
       PROVE  Period' = Period /\ TokensOut' = TokensOut
  <2>1. Period' = Period
    BY <1>3, <1>13 DEF Period
  <2> QED BY <1>3, <2>1 DEF TokensOut
<1>14. rx.pc \in {"sync", "set"} => Pending = rx.used[First]
  BY <1>2, <1>4, <1>6 DEF Pending
<1>15. CASE RefreshResetNeedSync
  <2>1. /\ bkt' = [bkt EXCEPT ![First].sync = 0] /\ rx' = [rx EXCEPT !.pc = "read"]
        /\ rx.pc = "sync"
    BY <1>1, <1>15 DEF RefreshResetNeedSync
  <2>2. /\ bkt'[First].time = bkt[First].time /\ bkt'[First].total = bkt[First].total
        /\ bkt'[First].left = bkt[First].left /\ bkt'[First].sync = 0
    BY <1>1, <2>1, FieldKept
  <2>3. /\ rx'.pc = "read" /\ rx'.time = rx.time /\ rx'.used = rx.used
        /\ rx'.answer = rx.answer /\ rx'.d = rx.d
    BY <1>1, <2>1 DEF RxType
  <2>4. Period' = Period /\ TokensOut' = TokensOut
    BY <1>13, <2>2
  <2>5. granted[First][Period] = 0
    BY <1>1, <2>1 DEF Shape, SyncOK, Period
  <2>6. RemoteLeft' = RemoteLeft /\ RefreshPeriod' = RefreshPeriod
    BY <1>3, <2>3 DEF RemoteLeft, RefreshPeriod
  <2>7. ~Answered' /\ ~Reporting' /\ net'.kind = "none" /\ rx'.pc \in RefreshSteps
    BY <1>2, <1>4, <2>3 DEF Answered, Reporting, RefreshSteps
  <2>8. Total' = bkt[First].total /\ Total = bkt[First].total
    BY <1>3, <2>1, <2>2, <2>3 DEF Total
  <2>9. bkt[First].total - bkt[First].left
          >= HeldTokens + bkt[First].sync + rx.used[First]
    BY <1>5, <1>14, <2>1, <2>8 DEF RemoteOK, SpentOK
  <2>10. MessageOK' /\ UsedOK'
    BY <1>2, <1>3, <2>3, <2>4, <2>7 DEF RemoteOK, MessageOK, UsedOK
  <2>11. LeftOK'
    BY <1>3, <2>2, <2>4 DEF RemoteOK, LeftOK
  <2>12. SpentOK'
    <3>1. Pending' <= rx.used[First] /\ Pending' \in Nat
      BY <1>1, <1>3, <2>3 DEF Pending
    <3> QED BY <1>1, <1>3, <2>2, <2>8, <2>9, <3>1 DEF SpentOK
  <2>13. TotalOK' /\ RefillOK'
    BY <1>3, <1>5, <2>7 DEF TotalOK, RefillOK
  <2>14. Decided'
    <3>1. TokensOut = HeldTokens
      BY <1>1, <2>5 DEF TokensOut
    <3> QED BY <1>1, <1>3, <2>2, <2>3, <2>4, <2>8, <2>9, <3>1 DEF Decided
  <2>15. RefreshOK'
    BY <1>2, <1>3, <2>3, <2>6, <2>14 DEF RemoteOK, RefreshOK
  <2>16. Accounted'
    <3>1. InReport' = 0 /\ srv[First][Period] \in Nat
      BY <1>1, <2>7 DEF InReport
    <3> QED BY <1>1, <1>3, <2>2, <2>4, <2>5, <3>1 DEF Accounted
  <2> QED BY <2>10, <2>11, <2>12, <2>13, <2>15, <2>16 DEF RemoteOK

<1>16. CASE SetTokens /\ bkt[First].left # rx.left
  <2>1. /\ rx' = [rx EXCEPT !.pc = "look"] /\ rx.pc = "set" /\ bkt' = bkt
        /\ UNCHANGED refreshFrame
    BY <1>1, <1>16 DEF SetTokens, refreshFrame
  <2>2. /\ rx'.pc = "look" /\ rx'.time = rx.time /\ rx'.used = rx.used
        /\ rx'.answer = rx.answer /\ rx'.d = rx.d /\ rx'.last = rx.last
    BY <1>1, <2>1 DEF RxType
  <2>3. rx'.pc \in RefreshSteps /\ Total' = Total
    BY <2>1, <2>2 DEF RefreshSteps, Total
  <2>4. bkt[First].total = RemoteLeft
    BY <1>2, <2>1 DEF RemoteOK, RefreshOK
  <2> QED BY <1>2, <2>1, <2>2, <2>3, <2>4, RefreshKept
<1>17. CASE SetTokens /\ bkt[First].left = rx.left
  <2> DEFINE v == NewRemoteLeft
             w == UsedWhenAcquire
             h == rx.last - bkt[First].left - rx.used[First]
  <2>1. /\ bkt' = [bkt EXCEPT ![First].left = v] /\ rx.pc = "set"
        /\ rx' = [Reactor EXCEPT !.pc = "ready"] /\ lastSync' = rx.time
    BY <1>1, <1>17 DEF SetTokens
  <2>2. rx'.pc = "ready"
    BY <2>1 DEF Reactor
  <2>3. w = (IF h > 0 THEN h ELSE 0) /\ h \in Int
    <3>1. h \in Int
      BY <1>1
    <3>2. w = Max({0, h})
      BY <1>1, <1>17 DEF UsedWhenAcquire
    <3> HIDE DEF h, w
    <3> QED BY <3>1, <3>2, MaxOfTwo
  <2>4. v = RemoteLeft - w
    <3>1. ~QuotaExpired
      BY <1>1, <1>4 DEF QuotaExpired
    <3>2. rx.total = RemoteLeft
      BY <1>2, <2>1 DEF RemoteOK, RefreshOK
    <3> QED BY <3>1, <3>2 DEF NewRemoteLeft
  <2> HIDE DEF v, w
  <2>5. /\ bkt'[First].time = bkt[First].time /\ bkt'[First].total = bkt[First].total
        /\ bkt'[First].left = v /\ bkt'[First].sync = bkt[First].sync
    BY <1>1, <2>1, FieldKept
  <2>6. Period' = Period /\ TokensOut' = TokensOut
    BY <1>13, <2>5
  <2>7. /\ Total = rx.last /\ bkt[First].total = RemoteLeft /\ Decided
        /\ RemoteLeft <= MaxAmount[First]
        /\ RemoteLeft + srv[First][Period] >= MaxAmount[First]
    <3>1. /\ bkt[First].total = RemoteLeft /\ Decided
          /\ RemoteLeft <= MaxAmount[First]
          /\ RemoteLeft + srv[First][RefreshPeriod] >= MaxAmount[First]
      BY <1>2, <2>1 DEF RemoteOK, RefreshOK
    <3> QED BY <1>4, <1>6, <2>1, <3>1 DEF Total
  <2>8. ~Answered' /\ ~Reporting' /\ net'.kind = "none" /\ rx'.pc \notin RefreshSteps
    BY <1>2, <1>4, <2>2 DEF Answered, Reporting, RefreshSteps
  <2>9. MessageOK' /\ UsedOK'
    BY <2>2, <2>8 DEF MessageOK, UsedOK
  <2>10. LeftOK'
    <3>1. bkt[First].left + TokensOut <= MaxAmount[First]
      BY DEF RemoteOK, LeftOK
    <3>2. v + TokensOut <= MaxAmount[First]
      <4>1. CASE rx.last >= RemoteLeft + rx.used[First]
        BY <1>1, <2>3, <2>4, <3>1, <4>1
      <4>2. CASE rx.last - bkt[First].left - rx.used[First] >= TokensOut
        BY <1>1, <2>3, <2>4, <2>7, <4>2
      <4> QED BY <2>7, <4>1, <4>2 DEF Decided
    <3> QED BY <1>3, <2>5, <2>6, <3>2 DEF LeftOK
  <2>11. SpentOK'
    <3>1. rx.last - bkt[First].left >= HeldTokens + bkt[First].sync + rx.used[First]
      BY <1>5, <1>14, <2>1, <2>7 DEF RemoteOK, SpentOK
    <3>2. Pending' = 0 /\ Total' = RemoteLeft
      BY <1>3, <2>2, <2>5, <2>7, <2>8 DEF Pending, Total
    <3>3. RemoteLeft - v >= HeldTokens + bkt[First].sync
      BY <1>1, <2>3, <2>4, <3>1
    <3> QED BY <1>1, <1>3, <2>5, <3>2, <3>3 DEF SpentOK
  <2>12. TotalOK' /\ RefillOK' /\ RefreshOK'
    BY <1>3, <1>5, <2>5, <2>6, <2>7, <2>8 DEF TotalOK, RefillOK, RefreshOK
  <2>13. Accounted'
    <3>1. InReport' = 0 /\ InReport = 0
      BY <1>4, <2>8 DEF InReport
    <3> QED BY <1>2, <1>3, <2>5, <2>6, <3>1 DEF RemoteOK, Accounted
  <2> QED BY <2>9, <2>10, <2>11, <2>12, <2>13 DEF RemoteOK
<1> QED BY <1>7, <1>8, <1>9, <1>10, <1>11, <1>12, <1>15, <1>16, <1>17

LEMMA SyncRemote ==
  ASSUME TypeInv, AllCovered, Shape, Global, RemoteOK, UNCHANGED setup, Sync
  PROVE  RemoteOK'
BY RequestRemote, AnswerRemote, RefreshRemote DEF Sync

(* The server counts more and answers what is left; time passes.           *)
LEMMA ServerRemote ==
  ASSUME TypeInv, AllCovered, Shape, Global, RemoteOK, UNCHANGED setup,
         Tick \/ Answer \/ OtherClient
  PROVE  RemoteOK'
<1>1. /\ Durations = {First} /\ First \in Durations /\ First \in Nat \ {0}
      /\ MaxAmount[First] \in Nat
      /\ Period \in Nat /\ Period \in Periods /\ bkt[First].sync \in Nat
      /\ bkt[First].total \in Int /\ bkt[First].left \in Int
      /\ granted[First][Period] \in Nat
      /\ \A p \in Periods : srv[First][p] \in Nat
      /\ rx.used[First] \in Nat /\ rx.time \in Nat /\ rx.d = First
      /\ net.time \in Nat /\ net.amount[First] \in Int
      /\ RemoteLeft \in Int /\ Credit \in Nat /\ InReport \in Nat /\ now \in Nat
  BY RemoteTypes
<1>2. UNCHANGED <<bkt, call, rx, granted, lost>>
  BY DEF Tick, Answer, OtherClient
<1>3. /\ First' = First /\ MaxAmount' = MaxAmount /\ HeldTokens' = HeldTokens
      /\ Period' = Period
  BY <1>2, SetupStable, SumsSame DEF Period
<1>4. /\ Turning' = Turning /\ Refilling' = Refilling /\ Refilled' = Refilled
      /\ TokensOut' = TokensOut /\ Total' = Total
      /\ RemoteLeft' = RemoteLeft /\ RefreshPeriod' = RefreshPeriod
  BY <1>2, <1>3 DEF Turning, Refilling, Refilled, TokensOut, Total, RemoteLeft,
     RefreshPeriod
<1>5. Decided' = Decided
  BY <1>2, <1>3, <1>4 DEF Decided
<1>6. LeftOK' /\ RefillOK'
  BY <1>2, <1>3, <1>4 DEF RemoteOK, LeftOK, RefillOK
<1>7. now \div First \in Periods /\ now \div First \in Nat
  BY <1>1, SingleBucket, DivType
<1>8. rx.pc \in RefreshSteps => RefreshPeriod \in Periods
  <2>1. rx.time \div First \in Periods
    <3>1. rx.time <= now
      BY DEF Shape, SyncOK
    <3> QED BY <1>1, <3>1, PeriodsFacts
  <2> QED BY <1>1, <2>1 DEF RefreshPeriod
<1>9. ASSUME \A p \in Periods : srv'[First][p] >= srv[First][p] /\ srv'[First][p] \in Nat
      PROVE  RefreshOK'
  <2>1. rx.pc \in RefreshSteps =>
          RemoteLeft + srv'[First][RefreshPeriod] >= MaxAmount[First]
    <3>1. ASSUME rx.pc \in RefreshSteps
          PROVE  RemoteLeft + srv'[First][RefreshPeriod] >= MaxAmount[First]
      <4>1. RemoteLeft + srv[First][RefreshPeriod] >= MaxAmount[First]
        BY <3>1 DEF RemoteOK, RefreshOK
      <4>2. /\ srv'[First][RefreshPeriod] >= srv[First][RefreshPeriod]
            /\ srv'[First][RefreshPeriod] \in Nat /\ srv[First][RefreshPeriod] \in Nat
        BY <1>1, <1>8, <1>9, <3>1
      <4> QED BY <1>1, <4>1, <4>2
    <3> QED BY <3>1
  <2> QED BY <1>2, <1>3, <1>4, <1>5, <2>1 DEF RemoteOK, RefreshOK
<1>10. ASSUME UNCHANGED net
       PROVE  /\ Answered' = Answered /\ Reporting' = Reporting
              /\ Pending' = Pending /\ Credit' = Credit /\ InReport' = InReport
              /\ UsedOK' /\ SpentOK'
  <2>1. Answered' = Answered /\ Reporting' = Reporting
    BY <1>10 DEF Answered, Reporting
  <2>2. Pending' = Pending /\ Credit' = Credit /\ InReport' = InReport
    BY <1>2, <1>3, <1>10, <2>1 DEF Pending, Credit, InReport
  <2> QED BY <1>2, <1>3, <1>4, <2>1, <2>2 DEF RemoteOK, UsedOK, SpentOK
<1>11. Answered => net.time \div First \in Periods
  <2>1. Answered => net.time <= now
    BY DEF RemoteOK, MessageOK
  <2> QED BY <1>1, <2>1, PeriodsFacts
<1>12. CASE Tick
  <2>1. UNCHANGED <<net, srv>> /\ now' = now + 1
    BY <1>12 DEF Tick
  <2>2. MessageOK'
    BY <1>1, <1>2, <1>3, <1>10, <2>1 DEF RemoteOK, MessageOK
  <2>3. TotalOK' /\ Accounted'
    BY <1>2, <1>3, <1>4, <1>10, <2>1 DEF RemoteOK, TotalOK, Accounted
  <2>4. \A p \in Periods : srv'[First][p] >= srv[First][p] /\ srv'[First][p] \in Nat
    <3>1. srv' = srv
      BY <2>1
    <3>2. ASSUME NEW p \in Periods
          PROVE  srv[First][p] >= srv[First][p] /\ srv[First][p] \in Nat
      <4>1. srv[First][p] \in Nat
        BY <1>1
      <4> QED BY <4>1
    <3> QED BY <3>1, <3>2
  <2>5. RefreshOK'
    BY <1>9, <2>4
  <2> QED BY <1>6, <1>10, <2>1, <2>2, <2>3, <2>5 DEF RemoteOK
<1>13. CASE OtherClient
  <2>1. /\ UNCHANGED <<net, now>>
        /\ srv'[First] = [srv[First] EXCEPT ![now \div First] = @ + 1]
    BY <1>1, <1>13 DEF OtherClient
  <2>2. \A p \in Periods : srv'[First][p] >= srv[First][p] /\ srv'[First][p] \in Nat
    <3>1. srv[First] \in [Periods -> Nat]
      BY <1>1 DEF TypeInv
    <3>2. ASSUME NEW p \in Periods
          PROVE  srv'[First][p] = srv[First][p] + (IF p = now \div First THEN 1 ELSE 0)
      BY <1>1, <1>7, <2>1, <3>1
    <3> QED BY <1>1, <3>2
  <2>3. MessageOK'
    BY <1>1, <1>2, <1>3, <1>10, <1>11, <2>1, <2>2 DEF RemoteOK, MessageOK
  <2>4. TotalOK'
    BY <1>1, <1>2, <1>3, <1>4, <1>10, <2>1, <2>2 DEF RemoteOK, TotalOK
  <2>5. Accounted'
    BY <1>1, <1>2, <1>3, <1>10, <2>1, <2>2 DEF RemoteOK, Accounted
  <2> QED BY <1>6, <1>9, <1>10, <2>1, <2>2, <2>3, <2>4, <2>5 DEF RemoteOK
<1>14. CASE Answer
  <2> DEFINE q == net.time \div First
             a == net.amount[First]
             p0 == now \div First
  <2>1. /\ net.kind \in {"init", "report"} /\ now' = now
        /\ srv'[First] = [srv[First] EXCEPT ![q] = @ + a]
        /\ net'.kind = (IF net.kind = "init" THEN "inited" ELSE "reported")
        /\ net'.time = now
        /\ net'.amount[First] = MaxAmount[First] - srv'[First][p0]
    BY <1>1, <1>14 DEF Answer
  <2>2. a \in Nat /\ q \in Periods /\ q \in Nat /\ net.time = rx.time /\ rx.time <= now
    <3>1. net.amount \in [Durations -> Nat] /\ net.time <= now
      BY <2>1 DEF TypeInv
    <3>2. q \in Periods
      BY <1>1, <3>1, PeriodsFacts
    <3>3. net.time = rx.time
      BY <2>1 DEF RemoteOK, MessageOK
    <3> QED BY <1>1, <3>1, <3>2, <3>3 DEF Periods
  <2>3. /\ net.kind = "init" => a = 0
        /\ net.kind = "report" => a = rx.used[First]
    BY DEF RemoteOK, MessageOK
  <2>4. srv[First] \in [Periods -> Nat] /\ p0 \in Periods /\ p0 \in Nat /\ Period <= p0
    BY <1>1, <1>7 DEF TypeInv, Shape, BucketOK, Period
  <2>5. \A p \in Periods : srv'[First][p] = srv[First][p] + (IF p = q THEN a ELSE 0)
    <3>1. srv'[First] = [srv[First] EXCEPT ![q] = srv[First][q] + a]
      BY <2>1
    <3> HIDE DEF q, a
    <3>2. ASSUME NEW p \in Periods
          PROVE  srv'[First][p] = srv[First][p] + (IF p = q THEN a ELSE 0)
      <4>1. srv[First][p] \in Nat
        BY <2>4
      <4> QED BY <2>2, <2>4, <3>1, <4>1
    <3> QED BY <3>2
  <2>6. \A p \in Periods : srv'[First][p] >= srv[First][p] /\ srv'[First][p] \in Nat
    <3> HIDE DEF q, a
    <3>1. ASSUME NEW p \in Periods
          PROVE  srv'[First][p] >= srv[First][p] /\ srv'[First][p] \in Nat
      <4>1. srv[First][p] \in Nat
        BY <2>4
      <4>2. srv'[First][p] = srv[First][p] + (IF p = q THEN a ELSE 0)
        BY <2>5
      <4> QED BY <2>2, <4>1, <4>2
    <3> QED BY <3>1
  <2>7. /\ ~Answered /\ Answered' /\ Reporting' = Reporting
        /\ net'.kind \in {"inited", "reported"}
        /\ net'.kind = "reported" <=> net.kind = "report"
    BY <2>1 DEF Answered, Reporting
  <2>8. MessageOK'
    <3>1. net'.time \div First = p0
      BY <2>1
    <3> HIDE DEF p0, q, a
    <3>2. srv'[First][p0] \in Nat
      BY <2>4, <2>6
    <3> QED BY <1>1, <1>2, <1>3, <2>1, <2>2, <2>7, <3>1, <3>2 DEF MessageOK
  <2>9. Pending' = Pending
    BY <1>2, <1>3, <2>7 DEF Pending
  <2>10. UsedOK' /\ SpentOK'
    BY <1>2, <1>3, <1>4, <2>7, <2>9 DEF RemoteOK, UsedOK, SpentOK
  <2>11. Credit' = (IF net.kind = "report" /\ q = Period THEN a ELSE 0)
    BY <1>2, <1>3, <2>2, <2>3, <2>7 DEF Credit
  <2>12. TotalOK'
    <3>1. ASSUME rx.pc \notin RefreshSteps, ~Refilling
          PROVE  /\ p0 > Period => bkt[First].total + srv'[First][Period] >= MaxAmount[First]
                 /\ p0 = Period => bkt[First].total >= net'.amount[First] + Credit'
      <4>1. bkt[First].total + srv[First][Period] >= MaxAmount[First]
        BY <2>7, <3>1 DEF RemoteOK, TotalOK
      <4> HIDE DEF p0, q, a
      <4>2. srv'[First][Period] = srv[First][Period] + (IF Period = q THEN a ELSE 0)
        BY <1>1, <2>5
      <4>3. srv[First][Period] \in Nat
        BY <1>1
      <4>4. CASE p0 = Period
        <5>1. net'.amount[First] = MaxAmount[First] - srv'[First][Period]
          BY <2>1, <4>4
        <5>2. Credit' <= IF Period = q THEN a ELSE 0
          BY <2>2, <2>11
        <5> QED BY <1>1, <2>2, <2>4, <2>11, <4>1, <4>2, <4>3, <4>4, <5>1, <5>2
      <4>5. CASE p0 # Period
        BY <1>1, <2>2, <4>1, <4>2, <4>3, <4>5
      <4> QED BY <4>4, <4>5
    <3>2. net'.time \div First = p0
      BY <2>1
    <3> HIDE DEF p0
    <3> QED BY <1>1, <1>2, <1>3, <1>4, <2>4, <2>7, <3>1, <3>2 DEF TotalOK
  <2>13. Accounted'
    <3>1. InReport' = 0
      BY <2>7 DEF InReport
    <3>2. InReport = (IF net.kind = "report" /\ q = Period THEN a ELSE 0)
      BY DEF InReport
    <3> HIDE DEF q, a
    <3>3. srv'[First][Period] >= srv[First][Period] + InReport
      BY <1>1, <2>2, <2>5, <3>2
    <3>4. srv'[First][Period] \in Nat /\ srv[First][Period] \in Nat
      BY <1>1, <2>6
    <3> QED BY <1>1, <1>2, <1>3, <3>1, <3>3, <3>4 DEF RemoteOK, Accounted
  <2> QED BY <1>6, <1>9, <2>6, <2>8, <2>10, <2>12, <2>13 DEF RemoteOK
<1> QED BY <1>12, <1>13, <1>14

LEMMA RemoteInit ==
  ASSUME Init, AllCovered, Global
  PROVE  RemoteOK
<1>1. TypeInv
  BY TypeInit
<1>2. /\ Durations = {First} /\ First \in Durations /\ First \in Nat \ {0}
      /\ MaxAmount[First] \in Nat /\ HeldTokens \in Nat
  BY <1>1, RemoteTypes
<1>3. \A c \in Callers : call[c].pc = "idle"
  BY DEF Init, Idle
<1>4. HeldTokens = 0
  BY <1>1, <1>2, <1>3, SumsEmpty
<1>5. /\ bkt[First].time = 0 /\ bkt[First].total = MaxAmount[First]
      /\ bkt[First].left = MaxAmount[First] /\ bkt[First].sync = 0
      /\ rx.pc = "init" /\ net.kind = "none" /\ 0 \in Periods
      /\ srv[First][0] = 0 /\ granted[First][0] = 0
  <2>1. 0 \in Periods
    BY <1>1, SetupFacts DEF Periods
  <2> QED BY <1>2, <2>1 DEF Init, Reactor, NoMessage
<1>6. /\ Period = 0 /\ ~Turning /\ ~Refilling /\ ~Refilled /\ ~Answered /\ ~Reporting
      /\ rx.pc \notin RefreshSteps
  BY <1>3, <1>5 DEF Period, Turning, Refilling, Refilled, Answered, Reporting,
     TurnoverSteps, RefreshSteps
<1>7. /\ Total = bkt[First].total /\ TokensOut = 0 /\ Pending = 0 /\ InReport = 0
  BY <1>4, <1>5, <1>6 DEF Total, TokensOut, Pending, InReport
<1>8. MessageOK /\ UsedOK /\ RefillOK /\ RefreshOK
  BY <1>5, <1>6 DEF MessageOK, UsedOK, RefillOK, RefreshOK
<1>9. LeftOK /\ SpentOK /\ TotalOK /\ Accounted
  BY <1>2, <1>4, <1>5, <1>6, <1>7 DEF LeftOK, SpentOK, TotalOK, Accounted
<1> QED BY <1>8, <1>9 DEF RemoteOK

LEMMA RemoteStep ==
  ASSUME TypeInv, AllCovered, Shape, Global, RemoteOK, Next
  PROVE  RemoteOK'
BY CallerRemoteStep, SyncRemote, ServerRemote DEF Next, Step

-----------------------------------------------------------------------------
(* The theorems.                                                           *)

(* The inductive invariant.                                                *)
QuotaInv == TypeInv /\ Shape /\ Counts /\ (Global => RemoteOK)

LEMMA QuotaStutter ==
  ASSUME QuotaInv, UNCHANGED vars
  PROVE  QuotaInv'
<1>1. UNCHANGED <<setup, now, bkt, lastSync, call, rx, net, srv, granted, lost>>
  BY DEF vars
<1>2. /\ Durations' = Durations /\ MaxAmount' = MaxAmount /\ First' = First
      /\ MaxTime' = MaxTime /\ Periods' = Periods /\ Global' = Global
      /\ CallType' = CallType /\ RxType' = RxType /\ BucketType' = BucketType
      /\ Messages' = Messages
  BY <1>1, SetupStable
<1>3. TypeInv'
  BY <1>1, <1>2 DEF QuotaInv, TypeInv
<1>4. Shape'
  BY <1>1, <1>2 DEF QuotaInv, Shape, SyncOK, Alone, BucketOK, CallOK, Syncing,
     TurningOver, PeriodStarts, Allocating
<1>5. \A d : CountedIn(d)' = CountedIn(d) /\ PassedIn(d)' = PassedIn(d)
  BY <1>1, SumsSame
<1>6. HeldTokens' = HeldTokens
  BY <1>1, SumsSame
<1>7. Counts'
  BY <1>1, <1>2, <1>5 DEF QuotaInv, Counts, StatOK, LimitOK, Clearing
<1>8. Global => RemoteOK'
  <2>1. /\ Period' = Period /\ Turning' = Turning /\ Refilling' = Refilling
        /\ Refilled' = Refilled /\ Answered' = Answered /\ Reporting' = Reporting
        /\ Total' = Total /\ RemoteLeft' = RemoteLeft /\ RefreshPeriod' = RefreshPeriod
    BY <1>1, <1>2 DEF Period, Turning, Refilling, Refilled, Answered, Reporting, Total,
       RemoteLeft, RefreshPeriod
  <2>2. /\ TokensOut' = TokensOut /\ Pending' = Pending /\ Credit' = Credit
        /\ InReport' = InReport
    BY <1>1, <1>2, <1>6, <2>1 DEF TokensOut, Pending, Credit, InReport
  <2> QED BY <1>1, <1>2, <1>6, <2>1, <2>2 DEF QuotaInv, RemoteOK, MessageOK, UsedOK,
          LeftOK, SpentOK, TotalOK, RefillOK, RefreshOK, Decided, Accounted
<1> QED BY <1>2, <1>3, <1>4, <1>7, <1>8 DEF QuotaInv

(* QuotaInv is inductive.                                                  *)
LEMMA QuotaInvariant ==
  ASSUME AllCovered
  PROVE  Spec => []QuotaInv
<1>1. Init => QuotaInv
  BY TypeInit, ShapeInit, CountsInit, RemoteInit DEF QuotaInv
<1>2. QuotaInv /\ [Next]_vars => QuotaInv'
  <2>1. ASSUME QuotaInv, Next PROVE QuotaInv'
    <3>1. Global' = Global
      BY <2>1, SetupStable DEF Next
    <3>2. Global => LeftOK
      BY <2>1 DEF QuotaInv, RemoteOK
    <3>3. TypeInv' /\ Shape'
      <4>1. Timely
        BY <2>1 DEF QuotaInv, Shape, SyncOK, BucketOK, CallOK, Timely, CallTimely, NoneAhead
      <4> QED BY <2>1, <4>1, TypeStep, ShapeStep DEF QuotaInv
    <3>4. Counts'
      BY <2>1, <3>2, CountsStep DEF QuotaInv
    <3>5. Global => RemoteOK'
      BY <2>1, RemoteStep DEF QuotaInv
    <3> QED BY <3>1, <3>3, <3>4, <3>5 DEF QuotaInv
  <2> QED BY <2>1, QuotaStutter
<1> QED BY <1>1, <1>2, PTL DEF Spec

LEMMA InvIsExact == QuotaInv /\ AllCovered => UsageExact
<1> SUFFICES ASSUME QuotaInv, AllCovered PROVE UsageExact
  OBVIOUS
<1>0. TypeInv /\ Shape /\ Counts /\ (Global => RemoteOK)
  BY DEF QuotaInv
<1>1. StatIsGranted
  <2>1. ASSUME Allocating = {}, ~Syncing, NEW d \in Durations
        PROVE  bkt[d].stat = granted[d][bkt[d].time]
    <3>1. \A c \in Callers : call[c].pc = "idle"
      BY <2>1 DEF Allocating
    <3>2. ~Clearing(d)
      BY <2>1, <3>1 DEF Clearing, Syncing, RefreshSteps
    <3>3. CountedIn(d) = 0
      BY <1>0, <3>1, SumsEmpty
    <3>4. granted[d][bkt[d].time] \in Nat
      BY <1>0 DEF TypeInv, BucketType
    <3>5. bkt[d].stat = granted[d][bkt[d].time] + CountedIn(d)
      BY <1>0, <3>2 DEF Counts, StatOK
    <3> QED BY <3>3, <3>4, <3>5
  <2> QED BY <2>1 DEF StatIsGranted
<1>2. UsageIsAccounted
  <2>1. ASSUME Global, lost = 0, NEW d \in Durations, bkt[d].time = now \div d
        PROVE  srv[d][now \div d] + UnderWay(d) + bkt[d].sync >= granted[d][now \div d]
    <3>1. d = First /\ Period = now \div First
      BY <1>0, <2>1, RemoteTypes DEF Period
    <3>2. granted[First][Period] <= srv[First][Period] + bkt[First].sync + InReport
      BY <1>0, <2>1 DEF RemoteOK, Accounted
    <3>3. /\ granted[First][Period] \in Nat /\ srv[First][Period] \in Nat
          /\ bkt[First].sync \in Nat /\ InReport \in Nat /\ rx.used[First] \in Nat
      BY <1>0, <2>1, RemoteTypes
    <3>4. UnderWay(First) \in Nat /\ UnderWay(First) >= InReport
      <4> DEFINE u == IF rx.pc \in {"check", "collect"}
                         /\ rx.time \div First = now \div First
                      THEN rx.used[First] ELSE 0
      <4>1. UnderWay(First) = InReport + u
        BY <3>1 DEF UnderWay, InReport
      <4>2. u \in Nat
        BY <3>3
      <4> HIDE DEF u
      <4> QED BY <3>3, <4>1, <4>2
    <3> QED BY <3>1, <3>2, <3>3, <3>4
  <2> QED BY <2>1 DEF UsageIsAccounted
<1> QED BY <1>1, <1>2 DEF UsageExact

(* For every rule, GLOBAL or LOCAL, with any number of periods, whatever    *)
(* calls, turnovers, refreshes, losses and late answers race: the counters  *)
(* and the steps of Allocate, RefreshToken and the sync task keep their     *)
(* types (quota_need_sync_ is never negative), and no caller, sync task or  *)
(* bucket_time_ is ahead of the clock.                                      *)
THEOREM QuotaTypeCorrect == Spec => [](TypeOK /\ NoneAhead)
<1>1. ASSUME TypeInv, Timely PROVE TypeOK /\ NoneAhead
  <2>1. MaxTime \in Nat
    BY <1>1, SetupFacts
  <2>2. now \in 0 .. MaxTime /\ lastSync \in 0 .. MaxTime
    BY <1>1, <2>1 DEF TypeInv, Timely
  <2>3. /\ \A c \in Callers : /\ call[c].pc \in CallPcs /\ call[c].d \in Durations
                              /\ call[c].fail \in Durations
        /\ rx.pc \in RxPcs /\ net.kind \in {"none", "init", "report", "inited", "reported"}
    BY <1>1 DEF TypeInv, CallType, RxType, Messages
  <2> QED BY <1>1, <2>2, <2>3 DEF TypeOK, TypeInv, Timely, BucketType, CallPcs, RxPcs
<1> QED BY <1>1, TimelyInvariant, PTL

(* Under AllCovered, TokenBucket::GetToken never lets a client grant more  *)
(* than the rule's amount in one period: for any number of callers, any    *)
(* amounts, asked quotas and clocks, local rules of any number of periods, *)
(* global rules of one, whatever the reports, answers and losses.          *)
LEMMA CoveredNeverExceeded ==
  ASSUME AllCovered
  PROVE  Spec => []GrantedWithinLimit
<1>1. QuotaInv => GrantedWithinLimit
  BY DEF QuotaInv, Counts, LimitOK, GrantedWithinLimit
<1> QED BY <1>1, QuotaInvariant, PTL

(* Under AllCovered, ReturnToken takes back exactly what GetToken counted, *)
(* and what was granted on remote quota is known to the server, under way  *)
(* to it or waiting in quota_need_sync_ unless a connection was lost.      *)
LEMMA CoveredCountsExact ==
  ASSUME AllCovered
  PROVE  Spec => []UsageExact
<1>1. QuotaInv => UsageExact
  BY InvIsExact
<1> QED BY <1>1, QuotaInvariant, PTL
=============================================================================
