----------------------------- MODULE QpsBucket ------------------------------
(***************************************************************************)
(* The quota of one rate limit window: RemoteAwareQpsBucket and its        *)
(* TokenBuckets (polaris/quota/quota_bucket_qps.cpp), one per period of    *)
(* the rule.  API threads take tokens in Allocate; the reactor thread      *)
(* reports what was taken to the limit server and refreshes the tokens     *)
(* from its answers.  Both work on the same atomics without a lock, and    *)
(* one step below is one access to one of them.                            *)
(*                                                                         *)
(* Left out: limit_request_, pending_bucket_* and use_up_time_, which only *)
(* feed statistics and the choice of the next report time; a report may    *)
(* start at any moment here.  The clock difference to the server is        *)
(* constant.                                                               *)
(***************************************************************************)
EXTENDS Integers, FiniteSets, FiniteSetsExt

CONSTANTS
  Callers,       \* threads in Allocate
  Setups         \* the rules and bounds to consider

(* amount  : the quota of each period of the rule, periods in ticks        *)
(* asked   : what one call may ask for                                     *)
(* global  : the rule's type is GLOBAL, not LOCAL                          *)
(* pass    : the rule's failover is FAILOVER_PASS                          *)
(* quiet   : a period starts with one call alone, none spans its end       *)
(* degrade : the server may stay silent longer than a period               *)
(* Bounds: calls under way, the clock, lost messages, other clients' use.  *)
Flags == {"global", "pass", "quiet", "degrade"}
Bounds == {"threads", "maxTime", "maxLost", "maxOthers"}

ASSUME ConstantsAssumption ==
  /\ IsFiniteSet(Callers)
  /\ \A s \in Setups :
       /\ DOMAIN s = {"amount", "asked"} \union Flags \union Bounds
       /\ \A f \in Flags : s[f] \in BOOLEAN
       /\ \A b \in Bounds : s[b] \in Nat
       /\ DOMAIN s.amount # {} /\ IsFiniteSet(DOMAIN s.amount)
       /\ DOMAIN s.amount \subseteq Nat \ {0}
       /\ \A d \in DOMAIN s.amount : s.amount[d] \in Nat
       /\ s.asked \subseteq Nat \ {0}

VARIABLES
  setup,     \* never changed
  now,
  bkt,       \* the TokenBucket of each period
  lastSync,  \* last_remote_sync_time_
  call,      \* the callers
  rx,        \* the reactor: the window's sync task
  net,       \* the message between the window and the server
  srv,       \* what the server has counted per period
  granted,   \* history: what this client granted per period
  lost, others

vars == <<setup, now, bkt, lastSync, call, rx, net, srv, granted, lost, others>>

MaxAmount == setup.amount
Durations == DOMAIN MaxAmount
Global == setup.global
QuietTurnover == setup.quiet
MaxTime == setup.maxTime

First == Min(Durations)
Later(d) == {e \in Durations : e > d}

Periods == 0 .. MaxTime
Idle == [pc |-> "idle", time |-> 0, n |-> 0, d |-> First, seen |-> 0,
         remote |-> FALSE, fail |-> First]
NoUse == [d \in Durations |-> 0]
NoMessage == [kind |-> "none", time |-> 0, amount |-> NoUse]
Reactor == [pc |-> "init", time |-> 0, used |-> NoUse, answer |-> NoMessage,
            d |-> First, seen |-> 0, last |-> 0, left |-> 0, total |-> 0]

(* The constructor, and Window::Init which submits the first sync task.    *)
Init ==
  /\ setup \in Setups
  /\ now = 0
  /\ bkt = [d \in Durations |->
              [time |-> 0, stat |-> 0, total |-> MaxAmount[d],
               left |-> MaxAmount[d], sync |-> 0]]
  /\ lastSync = 0
  /\ call = [c \in Callers |-> Idle]
  /\ rx = Reactor /\ net = NoMessage
  /\ srv = [d \in Durations |-> [p \in Periods |-> 0]]
  /\ granted = [d \in Durations |-> [p \in Periods |-> 0]]
  /\ lost = 0 /\ others = 0

-----------------------------------------------------------------------------
(* Who is inside the bucket.                                               *)

TurnoverSteps == {"clear", "total", "left", "sync"}
RefreshSteps == {"load", "cas", "clear", "sync", "read", "store", "look", "set"}

Allocating == {c \in Callers : call[c].pc # "idle"}
Syncing == rx.pc \in RefreshSteps \union {"check", "collect"}
TurningOver ==
  (\E c \in Callers : call[c].pc \in TurnoverSteps) \/ rx.pc \in {"clear", "sync"}
PeriodStarts(t) == \E d \in Durations : bkt[d].time # t \div d

(* Under QuietTurnover, the first user of a period is alone until the      *)
(* counters are reset.                                                     *)
MayEnter ==
  QuietTurnover => /\ ~TurningOver
                   /\ PeriodStarts(now) => Allocating = {} /\ ~Syncing

(* Unless the server may fall silent, it answers within the shortest       *)
(* period.                                                                 *)
Tick ==
  /\ now < MaxTime
  /\ QuietTurnover /\ (\E d \in Durations : (now + 1) % d = 0) =>
       Allocating = {} /\ ~Syncing
  /\ Global /\ ~setup.degrade => now + 1 < lastSync + First
  /\ now' = now + 1
  /\ UNCHANGED <<bkt, lastSync, call, rx, net, srv, granted, lost, others>>

-----------------------------------------------------------------------------
(* Allocate and GetToken.                                                  *)

callFrame == <<now, lastSync, rx, net, srv, lost, others>>

At(c, pc) == call[c].pc = pc
Goto(c, pc) == call' = [call EXCEPT ![c].pc = pc]
Expect(c) == call[c].time \div call[c].d

(* RateLimitWindow::AllocateQuota reads the server time.                   *)
Allocate(c) ==
  /\ At(c, "idle") /\ MayEnter /\ Cardinality(Allocating) < setup.threads
  /\ \E n \in setup.asked :
       call' = [call EXCEPT ![c] = [Idle EXCEPT !.pc = "mode", !.time = now, !.n = n]]
  /\ UNCHANGED <<bkt, granted, callFrame>>

(* Remote quota is used by a global rule whose server answered lately.     *)
UseRemoteQuota(c) ==
  /\ At(c, "mode")
  /\ call' = [call EXCEPT ![c].pc = "load",
                ![c].remote = Global /\ call[c].time < lastSync + First]
  /\ UNCHANGED <<bkt, granted, callFrame>>

LoadBucketTime(c) ==
  /\ At(c, "load")
  /\ LET seen == bkt[call[c].d].time
     IN  call' = [call EXCEPT ![c].seen = seen,
                    ![c].pc = IF seen = Expect(c) THEN "count" ELSE "cas"]
  /\ UNCHANGED <<bkt, granted, callFrame>>

SwapBucketTime(c) ==
  /\ At(c, "cas")
  /\ \/ /\ bkt[call[c].d].time = call[c].seen
        /\ bkt' = [bkt EXCEPT ![call[c].d].time = Expect(c)]
        /\ Goto(c, "clear")
     \/ /\ bkt[call[c].d].time # call[c].seen
        /\ Goto(c, "count") /\ UNCHANGED bkt
  /\ UNCHANGED <<granted, callFrame>>

(* A faulty variant: the count of the last period is kept.                 *)
ResetStatForgotten(c) ==
  /\ At(c, "clear") /\ Goto(c, "total")
  /\ UNCHANGED <<bkt, granted, callFrame>>

ResetStat(c) ==
  /\ At(c, "clear") /\ Goto(c, "total")
  /\ bkt' = [bkt EXCEPT ![call[c].d].stat = 0]
  /\ UNCHANGED <<granted, callFrame>>

ResetRemoteTotal(c) ==
  /\ At(c, "total") /\ Goto(c, "left")
  /\ bkt' = [bkt EXCEPT ![call[c].d].total = MaxAmount[call[c].d]]
  /\ UNCHANGED <<granted, callFrame>>

ResetRemoteLeft(c) ==
  /\ At(c, "left") /\ Goto(c, "sync")
  /\ bkt' = [bkt EXCEPT ![call[c].d].left = MaxAmount[call[c].d]]
  /\ UNCHANGED <<granted, callFrame>>

ResetNeedSync(c) ==
  /\ At(c, "sync") /\ Goto(c, "count")
  /\ bkt' = [bkt EXCEPT ![call[c].d].sync = 0]
  /\ UNCHANGED <<granted, callFrame>>

(* Every bucket the request counts in.                                     *)
Grant(c) ==
  granted' = [d \in Durations |->
                [granted[d] EXCEPT ![call[c].time \div d] = @ + call[c].n]]

(* GetToken returned true: the next bucket, or the answer kQuotaResultOk.  *)
Taken(c) ==
  IF Later(call[c].d) = {}
  THEN call' = [call EXCEPT ![c] = Idle] /\ Grant(c)
  ELSE /\ call' = [call EXCEPT ![c].pc = "load", ![c].d = Min(Later(@))]
       /\ UNCHANGED granted

(* GetToken returned false: the tokens go back, this bucket's included.    *)
Violated(c) ==
  /\ call' = [call EXCEPT ![c].pc = "return", ![c].d = First,
                          ![c].fail = call[c].d]
  /\ UNCHANGED granted

(* A faulty variant: the count before the request is compared.             *)
CountRequestOffByOne(c) ==
  /\ At(c, "count")
  /\ LET d == call[c].d
         used == bkt[d].stat + call[c].n
     IN  /\ bkt' = [bkt EXCEPT ![d].stat = used]
         /\ IF call[c].remote THEN Goto(c, "take") /\ UNCHANGED granted
            ELSE IF MaxAmount[d] - bkt[d].stat < 0 THEN Violated(c) ELSE Taken(c)
  /\ UNCHANGED callFrame

CountRequest(c) ==
  /\ At(c, "count")
  /\ LET d == call[c].d
         used == bkt[d].stat + call[c].n
     IN  /\ bkt' = [bkt EXCEPT ![d].stat = used]
         /\ IF call[c].remote THEN Goto(c, "take") /\ UNCHANGED granted
            ELSE IF MaxAmount[d] - used < 0 THEN Violated(c) ELSE Taken(c)
  /\ UNCHANGED callFrame

TakeRemoteToken(c) ==
  /\ At(c, "take")
  /\ LET left == bkt[call[c].d].left - call[c].n
     IN  /\ bkt' = [bkt EXCEPT ![call[c].d].left = left]
         /\ IF left < 0 THEN Violated(c) ELSE Goto(c, "note") /\ UNCHANGED granted
  /\ UNCHANGED callFrame

(* A faulty variant: assignment instead of addition.                       *)
StoreNeedSync(c) ==
  /\ At(c, "note")
  /\ bkt' = [bkt EXCEPT ![call[c].d].sync = call[c].n]
  /\ Taken(c)
  /\ UNCHANGED callFrame

AddNeedSync(c) ==
  /\ At(c, "note")
  /\ bkt' = [bkt EXCEPT ![call[c].d].sync = @ + call[c].n]
  /\ Taken(c)
  /\ UNCHANGED callFrame

(* ReturnToken, bucket by bucket up to the violated one; then the answer,  *)
(* which is kQuotaResultOk all the same when the failover is to pass.      *)
Returned(c) ==
  IF call[c].d # call[c].fail
  THEN /\ call' = [call EXCEPT ![c].pc = "return", ![c].d = Min(Later(@))]
       /\ UNCHANGED granted
  ELSE /\ call' = [call EXCEPT ![c] = Idle]
       /\ IF ~call[c].remote /\ setup.pass THEN Grant(c) ELSE UNCHANGED granted

ReturnStat(c) ==
  /\ At(c, "return")
  /\ bkt' = [bkt EXCEPT ![call[c].d].stat = @ - call[c].n]
  /\ IF call[c].remote THEN Goto(c, "give") /\ UNCHANGED granted ELSE Returned(c)
  /\ UNCHANGED callFrame

ReturnRemoteToken(c) ==
  /\ At(c, "give")
  /\ bkt' = [bkt EXCEPT ![call[c].d].left = @ + call[c].n]
  /\ Returned(c)
  /\ UNCHANGED callFrame

GetQuota(c) ==
  \/ Allocate(c) \/ UseRemoteQuota(c) \/ LoadBucketTime(c) \/ SwapBucketTime(c)
  \/ ResetStat(c) \/ ResetRemoteTotal(c) \/ ResetRemoteLeft(c) \/ ResetNeedSync(c)
  \/ CountRequest(c) \/ TakeRemoteToken(c) \/ AddNeedSync(c)
  \/ ReturnStat(c) \/ ReturnRemoteToken(c)

-----------------------------------------------------------------------------
(* The sync task: init request, reports, answers.  A LOCAL rule has none.  *)

syncFrame == <<now, call, srv, granted, others>>

SendInit ==
  /\ Global /\ rx.pc = "init"
  /\ net' = [kind |-> "init", time |-> now, amount |-> NoUse]
  /\ rx' = [rx EXCEPT !.pc = "wait", !.time = now]
  /\ UNCHANGED <<bkt, lastSync, lost, syncFrame>>

(* GetReportRequest: GetQuotaUsage reads the time once and visits the      *)
(* buckets.                                                                *)
StartReport ==
  /\ rx.pc = "ready" /\ MayEnter
  /\ rx' = [rx EXCEPT !.pc = "check", !.time = now, !.used = NoUse, !.d = First]
  /\ UNCHANGED <<bkt, lastSync, net, lost, syncFrame>>

Reported(used) ==
  IF Later(rx.d) = {}
  THEN /\ rx' = [rx EXCEPT !.pc = "wait", !.used = used]
       /\ net' = [kind |-> "report", time |-> rx.time, amount |-> used]
  ELSE /\ rx' = [rx EXCEPT !.pc = "check", !.used = used, !.d = Min(Later(@))]
       /\ UNCHANGED net

(* PreparePendingQuota reports nothing of a bucket of another period.      *)
CheckPendingTime ==
  /\ rx.pc = "check"
  /\ \/ /\ bkt[rx.d].time = rx.time \div rx.d
        /\ rx' = [rx EXCEPT !.pc = "collect"] /\ UNCHANGED net
     \/ /\ bkt[rx.d].time # rx.time \div rx.d
        /\ Reported(rx.used)
  /\ UNCHANGED <<bkt, lastSync, lost, syncFrame>>

CollectNeedSync ==
  /\ rx.pc = "collect"
  /\ Reported([rx.used EXCEPT ![rx.d] = bkt[rx.d].sync])
  /\ bkt' = [bkt EXCEPT ![rx.d].sync = 0]
  /\ UNCHANGED <<lastSync, lost, syncFrame>>

(* The request or its answer never arrives: OnResponseTimeout closes the   *)
(* connection and the window is initialised anew on another one.           *)
ResponseTimeout ==
  /\ rx.pc = "wait" /\ lost < setup.maxLost
  /\ net' = NoMessage /\ lost' = lost + 1
  /\ rx' = [rx EXCEPT !.pc = "init"]
  /\ UNCHANGED <<bkt, lastSync, syncFrame>>

(* OnInitResponse and OnReportResponse call SetRemoteQuota with the time   *)
(* of the answer and, after a report, the usage that was reported.         *)
ReceiveAnswer ==
  /\ rx.pc = "wait" /\ net.kind \in {"inited", "reported"} /\ MayEnter
  /\ rx' = [rx EXCEPT !.pc = "load", !.d = First, !.answer = net,
              !.used = IF net.kind = "inited" THEN NoUse
                       ELSE [d \in Durations |->
                               IF rx.time \div d = now \div d THEN @[d] ELSE 0],
              !.time = now]
  /\ net' = NoMessage
  /\ UNCHANGED <<bkt, lastSync, lost, syncFrame>>

-----------------------------------------------------------------------------
(* RefreshToken on the bucket rx.d.                                        *)

refreshFrame == <<lastSync, net, lost, syncFrame>>

RefreshPeriod == rx.time \div rx.d
(* An answer about an earlier period stands for a full quota.              *)
RemoteLeft ==
  IF rx.answer.time \div rx.d = RefreshPeriod
  THEN rx.answer.amount[rx.d] ELSE MaxAmount[rx.d]
QuotaExpired == rx.time >= lastSync + rx.d

LoadRefreshTime ==
  /\ rx.pc = "load"
  /\ rx' = [rx EXCEPT !.seen = bkt[rx.d].time,
              !.pc = IF bkt[rx.d].time = RefreshPeriod THEN "read" ELSE "cas"]
  /\ UNCHANGED <<bkt, refreshFrame>>

SwapRefreshTime ==
  /\ rx.pc = "cas"
  /\ \/ /\ bkt[rx.d].time = rx.seen
        /\ bkt' = [bkt EXCEPT ![rx.d].time = RefreshPeriod]
        /\ rx' = [rx EXCEPT !.pc = "clear"]
     \/ /\ bkt[rx.d].time # rx.seen
        /\ rx' = [rx EXCEPT !.pc = "read"] /\ UNCHANGED bkt
  /\ UNCHANGED refreshFrame

RefreshResetStat ==
  /\ rx.pc = "clear"
  /\ bkt' = [bkt EXCEPT ![rx.d].stat = 0]
  /\ rx' = [rx EXCEPT !.pc = "sync"]
  /\ UNCHANGED refreshFrame

RefreshResetNeedSync ==
  /\ rx.pc = "sync"
  /\ bkt' = [bkt EXCEPT ![rx.d].sync = 0]
  /\ rx' = [rx EXCEPT !.pc = "read"]
  /\ UNCHANGED refreshFrame

ReadRemoteTotal ==
  /\ rx.pc = "read"
  /\ rx' = [rx EXCEPT !.pc = "store", !.last = bkt[rx.d].total]
  /\ UNCHANGED <<bkt, refreshFrame>>

StoreRemoteTotal ==
  /\ rx.pc = "store"
  /\ bkt' = [bkt EXCEPT ![rx.d].total = RemoteLeft]
  /\ rx' = [rx EXCEPT !.pc = "look"]
  /\ UNCHANGED refreshFrame

LookAtTokens ==
  /\ rx.pc = "look"
  /\ rx' = [rx EXCEPT !.pc = "set", !.left = bkt[rx.d].left,
                      !.total = bkt[rx.d].total]
  /\ UNCHANGED <<bkt, refreshFrame>>

(* What was taken while the report was under way stays taken.              *)
UsedWhenAcquire == Max({0, rx.last - rx.left - rx.used[rx.d]})
NewRemoteLeft == IF QuotaExpired THEN rx.total ELSE rx.total - UsedWhenAcquire

SetTokens ==
  /\ rx.pc = "set"
  /\ \/ /\ bkt[rx.d].left # rx.left
        /\ rx' = [rx EXCEPT !.pc = "look"] /\ UNCHANGED <<bkt, lastSync>>
     \/ /\ bkt[rx.d].left = rx.left
        /\ bkt' = [bkt EXCEPT ![rx.d].left = NewRemoteLeft]
        /\ IF Later(rx.d) = {}
           THEN rx' = [Reactor EXCEPT !.pc = "ready"] /\ lastSync' = rx.time
           ELSE /\ rx' = [rx EXCEPT !.pc = "load", !.d = Min(Later(@))]
                /\ UNCHANGED lastSync
  /\ UNCHANGED <<net, lost, syncFrame>>

Sync ==
  \/ SendInit \/ StartReport \/ CheckPendingTime \/ CollectNeedSync
  \/ ResponseTimeout \/ ReceiveAnswer \/ LoadRefreshTime \/ SwapRefreshTime
  \/ RefreshResetStat \/ RefreshResetNeedSync \/ ReadRemoteTotal
  \/ StoreRemoteTotal \/ LookAtTokens \/ SetTokens

-----------------------------------------------------------------------------
(* The limit server: it counts a report in the period of its timestamp and *)
(* answers with what is left of its current period.                        *)

Answer ==
  /\ net.kind \in {"init", "report"}
  /\ srv' = [d \in Durations |->
               [srv[d] EXCEPT ![net.time \div d] = @ + net.amount[d]]]
  /\ net' = [kind |-> IF net.kind = "init" THEN "inited" ELSE "reported",
             time |-> now,
             amount |-> [d \in Durations |-> MaxAmount[d] - srv'[d][now \div d]]]
  /\ UNCHANGED <<now, bkt, lastSync, call, rx, granted, lost, others>>

OtherClient ==
  /\ Global /\ others < setup.maxOthers
  /\ others' = others + 1
  /\ srv' = [d \in Durations |-> [srv[d] EXCEPT ![now \div d] = @ + 1]]
  /\ UNCHANGED <<now, bkt, lastSync, call, rx, net, granted, lost>>

Step ==
  \/ Tick \/ Sync \/ Answer \/ OtherClient
  \/ \E c \in Callers : GetQuota(c)

Next == Step /\ UNCHANGED setup

Spec == Init /\ [][Next]_vars

-----------------------------------------------------------------------------
(* Types: counters may be negative for a moment, tokens left as well.      *)
TypeOK ==
  /\ now \in 0 .. MaxTime /\ lastSync \in 0 .. MaxTime
  /\ bkt \in [Durations -> [time : Periods, stat : Int, total : Int,
                            left : Int, sync : Nat]]
  /\ \A c \in Callers :
       /\ call[c].pc \in TurnoverSteps \union
            {"idle", "mode", "load", "cas", "count", "take", "note", "return", "give"}
       /\ call[c].d \in Durations /\ call[c].fail \in Durations
  /\ rx.pc \in RefreshSteps \union {"init", "wait", "ready", "check", "collect"}
  /\ net.kind \in {"none", "init", "report", "inited", "reported"}

(* A client never grants more than the rule's amount in one period,        *)
(* whatever callers, reports and answers interleave (GetToken counts       *)
(* before it compares, RefreshToken keeps what was taken meanwhile).       *)
GrantedWithinLimit ==
  \A d \in Durations, p \in Periods : granted[d][p] <= MaxAmount[d]

(* Nothing granted on remote quota is forgotten: in the current period it  *)
(* is known to the server, under way to it, lost with a connection, or     *)
(* waiting in quota_need_sync_ (GetToken, PreparePendingQuota).            *)
UnderWay(d) ==
  (IF net.kind = "report" /\ net.time \div d = now \div d THEN net.amount[d] ELSE 0)
  + (IF rx.pc \in {"check", "collect"} /\ rx.time \div d = now \div d
     THEN rx.used[d] ELSE 0)
UsageIsAccounted ==
  Global /\ lost = 0 /\ Allocating = {} =>
    \A d \in Durations :
      bkt[d].time = now \div d =>
        srv[d][now \div d] + UnderWay(d) + bkt[d].sync >= granted[d][now \div d]

(* Once everybody has left the bucket of the current period, bucket_stat_  *)
(* is what was granted in it: refused calls took back exactly what they    *)
(* counted (GetToken, ReturnToken).                                        *)
StatIsGranted ==
  Allocating = {} /\ ~Syncing =>
    \A d \in Durations : bkt[d].stat = granted[d][bkt[d].time]

(* The bucket's two counts, what was granted and what is to be reported,   *)
(* neither lose nor invent a token.                                        *)
UsageExact == StatIsGranted /\ UsageIsAccounted
=============================================================================
