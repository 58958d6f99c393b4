--------------------------- MODULE DiscoveryProof ---------------------------
(***************************************************************************)
(* Proofs about MCDiscovery.  The connector's part is proved for any       *)
(* services, revisions and configurations: each listener has one way to    *)
(* its next request, the assertions of the handlers hold, seed servers are *)
(* asked for the discover service only, and the timer that changes the     *)
(* server is there.  The queries' part follows from InstancesFutureProof.  *)
(*                                                                         *)
(* Handlers are operators from a state of the connector to the next one,   *)
(* so the lemmas say what an operator does to a state p that fits (Good)   *)
(* or that lacks one thing, the way forward of the listener it is about.   *)
(***************************************************************************)
EXTENDS MCDiscovery, SequenceTheorems, TLAPS

(* Types of the parts of the connector; D are the registered services. *)
ListenerType ==
  [revision : Revisions \cup {Empty},
   ret_code : {"0", "DataNoChange", "ExecuteSuccess", "NotFound"},
   discover : BOOLEAN, timeout : BOOLEAN]
TaskType == [service : Services, handler : BOOLEAN, revision : Revisions \cup {Empty}]
DataType == Revisions \cup {NotFound, NULL}
ConnectorType(D) ==
  [queue : Seq(TaskType), listeners : [D -> ListenerType], pending : SUBSET D,
   tasks : [Services -> [discover : Int, timeout : Int]], switches : Int,
   stream_state : {"NotInit", "GetInstance", "Init"},
   switch_state : {"Init", "Begin", "Normal", "Default", "Timeout", "Periodic"},
   client : ClientType \cup {NULL}, dying : ClientType \cup {NULL}, stream : BOOLEAN,
   sent : [Services -> Seq(Revisions \cup {Empty})], data : [Services -> DataType],
   fault : BOOLEAN]

(* The places a listener can be in: a timer until its next request, the     *)
(* check of a request under way, or pending_for_connected_.                *)
OneWay(p, s) ==
  \/ p.tasks[s].discover = 1 /\ p.tasks[s].timeout = 0 /\ s \notin p.pending
  \/ p.tasks[s].discover = 0 /\ p.tasks[s].timeout = 1 /\ s \notin p.pending
  \/ p.tasks[s].discover = 0 /\ p.tasks[s].timeout = 0 /\ s \in p.pending
NoWay(p, s) == p.tasks[s].discover = 0 /\ p.tasks[s].timeout = 0 /\ s \notin p.pending
FlagsAgree(p, s) ==
  /\ p.listeners[s].discover <=> p.tasks[s].discover = 1
  /\ p.listeners[s].timeout <=> p.tasks[s].timeout = 1
(* OneWayForward for one service. *)
WayOf(p, s, D) == IF s \in D THEN OneWay(p, s) /\ FlagsAgree(p, s) ELSE NoWay(p, s)


(* A flag of one listener is set or cleared. *)
LEMMA ListenersSet ==
  ASSUME NEW D, NEW f \in [D -> ListenerType], NEW s \in D
  PROVE  /\ LET g == [f EXCEPT ![s].discover = TRUE]
            IN /\ g \in [D -> ListenerType] /\ \A t \in D \ {s} : g[t] = f[t]
               /\ g[s].discover /\ g[s].timeout = f[s].timeout
         /\ LET g == [f EXCEPT ![s].discover = FALSE]
            IN /\ g \in [D -> ListenerType] /\ \A t \in D \ {s} : g[t] = f[t]
               /\ ~g[s].discover /\ g[s].timeout = f[s].timeout
         /\ LET g == [f EXCEPT ![s].timeout = FALSE]
            IN /\ g \in [D -> ListenerType] /\ \A t \in D \ {s} : g[t] = f[t]
               /\ ~g[s].timeout /\ g[s].discover = f[s].discover
<1>1. f[s] \in ListenerType
  OBVIOUS
<1> DEFINE l == [f[s] EXCEPT !.discover = TRUE]
           m == [f[s] EXCEPT !.discover = FALSE]
           k == [f[s] EXCEPT !.timeout = FALSE]
<1>2. /\ l \in ListenerType /\ l.discover /\ l.timeout = f[s].timeout
      /\ m \in ListenerType /\ ~m.discover /\ m.timeout = f[s].timeout
      /\ k \in ListenerType /\ ~k.timeout /\ k.discover = f[s].discover
  BY <1>1 DEF ListenerType
<1>3. /\ [f EXCEPT ![s].discover = TRUE] = [f EXCEPT ![s] = l]
      /\ [f EXCEPT ![s].discover = FALSE] = [f EXCEPT ![s] = m]
      /\ [f EXCEPT ![s].timeout = FALSE] = [f EXCEPT ![s] = k]
  OBVIOUS
<1> HIDE DEF l, m, k
<1> QED BY <1>2, <1>3

(* The timers of one service are counted anew. *)
LEMMA TasksSet ==
  ASSUME NEW f \in [Services -> [discover : Int, timeout : Int]], NEW s \in Services, NEW n \in Int
  PROVE  /\ LET g == [f EXCEPT ![s].discover = n]
            IN /\ g \in [Services -> [discover : Int, timeout : Int]] /\ \A t \in Services \ {s} : g[t] = f[t]
               /\ g[s].discover = n /\ g[s].timeout = f[s].timeout
         /\ LET g == [f EXCEPT ![s].timeout = n]
            IN /\ g \in [Services -> [discover : Int, timeout : Int]] /\ \A t \in Services \ {s} : g[t] = f[t]
               /\ g[s].timeout = n /\ g[s].discover = f[s].discover
<1> DEFINE l == [f[s] EXCEPT !.discover = n]
           k == [f[s] EXCEPT !.timeout = n]
           R == [discover : Int, timeout : Int]
<1>1. f[s] \in R
  OBVIOUS
<1>2. l \in R /\ l.discover = n /\ l.timeout = f[s].timeout
  BY <1>1
<1>3. [f EXCEPT ![s].discover = n] = [f EXCEPT ![s] = l]
  OBVIOUS
<1>4. k \in R /\ k.timeout = n /\ k.discover = f[s].discover
  BY <1>1
<1>5. [f EXCEPT ![s].timeout = n] = [f EXCEPT ![s] = k]
  OBVIOUS
<1>6. f \in [Services -> R]
  OBVIOUS
<1> HIDE DEF l, k, R
<1>7. /\ LET g == [f EXCEPT ![s] = l]
         IN g \in [Services -> R] /\ g[s] = l /\ \A t \in Services \ {s} : g[t] = f[t]
      /\ LET g == [f EXCEPT ![s] = k]
         IN g \in [Services -> R] /\ g[s] = k /\ \A t \in Services \ {s} : g[t] = f[t]
  BY <1>2, <1>4, <1>6
<1> QED BY <1>2, <1>3, <1>4, <1>5, <1>7 DEF R

(* What Timeouts and TimeoutFlags change. *)
LEMMA TimeoutsAre ==
  ASSUME NEW D \in SUBSET Services, NEW p \in ConnectorType(D), NEW S, NEW n \in Int
  PROVE  /\ Timeouts(p, S, n) \in [Services -> [discover : Int, timeout : Int]]
         /\ \A s \in Services :
              /\ Timeouts(p, S, n)[s].discover = p.tasks[s].discover
              /\ s \in S => Timeouts(p, S, n)[s].timeout = p.tasks[s].timeout + n
              /\ s \notin S => Timeouts(p, S, n)[s].timeout = p.tasks[s].timeout
<1>1. \A s \in Services : p.tasks[s].discover \in Int /\ p.tasks[s].timeout \in Int
  BY DEF ConnectorType
<1> QED BY <1>1 DEF Timeouts

LEMMA FlagsAre ==
  ASSUME NEW D \in SUBSET Services, NEW p \in ConnectorType(D), NEW keep, NEW set
  PROVE  /\ TimeoutFlags(p, keep, set) \in [D -> ListenerType]
         /\ \A s \in D :
              /\ TimeoutFlags(p, keep, set)[s].discover = p.listeners[s].discover
              /\ TimeoutFlags(p, keep, set)[s].timeout
                   <=> ((s \in keep /\ p.listeners[s].timeout) \/ s \in set)
<1>0. Registered(p) = D
  BY DEF Registered, ConnectorType
<1> SUFFICES ASSUME NEW s \in D
             PROVE  /\ TimeoutFlags(p, keep, set)[s] \in ListenerType
                    /\ TimeoutFlags(p, keep, set)[s].discover = p.listeners[s].discover
                    /\ TimeoutFlags(p, keep, set)[s].timeout
                         <=> ((s \in keep /\ p.listeners[s].timeout) \/ s \in set)
  BY <1>0 DEF TimeoutFlags
<1> DEFINE b == (s \in keep /\ p.listeners[s].timeout) \/ s \in set
<1>1. TimeoutFlags(p, keep, set)[s] = [p.listeners[s] EXCEPT !.timeout = b]
  BY <1>0 DEF TimeoutFlags
<1>2. p.listeners[s] \in ListenerType /\ b \in BOOLEAN
  BY DEF ConnectorType
<1> HIDE DEF b
<1>3. /\ TimeoutFlags(p, keep, set)[s] \in ListenerType
      /\ TimeoutFlags(p, keep, set)[s].discover = p.listeners[s].discover
      /\ TimeoutFlags(p, keep, set)[s].timeout = b
  BY <1>1, <1>2 DEF ListenerType
<1> QED BY <1>3 DEF b

(* Two states of the connector agree on the connection. *)
SameServer(r, p) ==
  /\ r.queue = p.queue /\ r.switches = p.switches
  /\ r.switch_state = p.switch_state /\ r.client = p.client /\ r.dying = p.dying
  /\ r.stream = p.stream /\ r.fault = p.fault

(* SendDiscoverRequest: a request that can be sent starts its timeout check, unless one is running. *)
LEMMA Send ==
  ASSUME NEW D \in SUBSET Services, NEW p \in ConnectorType(D), NEW S \in SUBSET D
  PROVE  LET r == SendDiscoverRequest(p, S)
             new(s) == s \in S /\ Sendable(p, s) /\ ~p.listeners[s].timeout
         IN /\ r \in ConnectorType(D)
            /\ SameServer(r, p) /\ r.pending = p.pending /\ r.data = p.data
            /\ discover_service # NULL => r.stream_state = p.stream_state
            /\ \A s \in Services :
                 /\ r.tasks[s].discover = p.tasks[s].discover
                 /\ ~new(s) => r.sent[s] = p.sent[s] /\ r.tasks[s].timeout = p.tasks[s].timeout
                 /\ new(s) => r.tasks[s].timeout = p.tasks[s].timeout + 1
            /\ \A s \in D :
                 /\ r.listeners[s].discover = p.listeners[s].discover
                 /\ r.listeners[s].timeout <=> (p.listeners[s].timeout \/ (s \in S /\ Sendable(p, s)))
<1> DEFINE r == SendDiscoverRequest(p, S)
           ready == {s \in S : Sendable(p, s)}
           new == {s \in ready : ~p.listeners[s].timeout}
           sent == [s \in Services |-> IF s \in new THEN Append(p.sent[s], p.listeners[s].revision) ELSE p.sent[s]]
           state == IF p.stream /\ S # {} /\ discover_service = NULL THEN "Init" ELSE p.stream_state
           ts == Timeouts(p, new, 1)
           listeners == TimeoutFlags(p, D, ready)
<1>0. Registered(p) = D
  BY DEF Registered, ConnectorType
<1>1. r = [p EXCEPT !.stream_state = state, !.sent = sent, !.tasks = ts, !.listeners = listeners]
  BY <1>0 DEF SendDiscoverRequest
<1>2. sent \in [Services -> Seq(Revisions \cup {Empty})]
  <2> SUFFICES ASSUME NEW s \in Services PROVE sent[s] \in Seq(Revisions \cup {Empty})
    OBVIOUS
  <2>1. p.sent[s] \in Seq(Revisions \cup {Empty})
    BY DEF ConnectorType
  <2>2. CASE s \in new
    <3>1. p.listeners[s].revision \in Revisions \cup {Empty}
      BY <2>2 DEF ConnectorType, ListenerType
    <3> QED BY <2>1, <2>2, <3>1, AppendProperties
  <2> QED BY <2>1, <2>2
<1>3. ts \in [Services -> [discover : Int, timeout : Int]] /\ listeners \in [D -> ListenerType]
  BY TimeoutsAre, FlagsAre
<1>4. state \in {"NotInit", "GetInstance", "Init"} /\ (discover_service # NULL => state = p.stream_state)
  BY DEF ConnectorType
<1> HIDE DEF sent, ts, listeners, state
<1>5. /\ r \in ConnectorType(D)
      /\ SameServer(r, p) /\ r.pending = p.pending /\ r.data = p.data
      /\ r.stream_state = state /\ r.sent = sent /\ r.tasks = ts /\ r.listeners = listeners
  BY <1>1, <1>2, <1>3, <1>4, ZenonT(60) DEF ConnectorType, SameServer
<1>6. ASSUME NEW s \in Services
      PROVE  /\ r.tasks[s].discover = p.tasks[s].discover
             /\ s \notin new => r.sent[s] = p.sent[s] /\ r.tasks[s].timeout = p.tasks[s].timeout
             /\ s \in new => r.tasks[s].timeout = p.tasks[s].timeout + 1
  BY <1>5, TimeoutsAre DEF sent, ts
<1>7. ASSUME NEW s \in D
      PROVE  /\ r.listeners[s].discover = p.listeners[s].discover
             /\ r.listeners[s].timeout <=> (p.listeners[s].timeout \/ (s \in S /\ Sendable(p, s)))
  BY <1>5, FlagsAre DEF listeners
<1> QED
  BY <1>4, <1>5, <1>6, <1>7

(* CancelTimeout. *)
LEMMA Cancel ==
  ASSUME NEW D \in SUBSET Services, NEW p \in ConnectorType(D), NEW S \in SUBSET D
  PROVE  LET r == CancelTimeout(p, S)
         IN /\ r \in ConnectorType(D)
            /\ SameServer(r, p) /\ r.pending = p.pending /\ r.data = p.data
            /\ r.stream_state = p.stream_state /\ r.sent = p.sent
            /\ \A s \in Services :
                 /\ r.tasks[s].discover = p.tasks[s].discover
                 /\ s \in S /\ p.listeners[s].timeout => r.tasks[s].timeout = p.tasks[s].timeout - 1
                 /\ ~(s \in S /\ p.listeners[s].timeout) => r.tasks[s].timeout = p.tasks[s].timeout
            /\ \A s \in D :
                 /\ r.listeners[s].discover = p.listeners[s].discover
                 /\ r.listeners[s].timeout <=> (s \notin S /\ p.listeners[s].timeout)
<1> DEFINE r == CancelTimeout(p, S)
           gone == {s \in S : p.listeners[s].timeout}
           ts == Timeouts(p, gone, -1)
           listeners == TimeoutFlags(p, D \ S, {})
<1>0. Registered(p) = D
  BY DEF Registered, ConnectorType
<1>1. r = [p EXCEPT !.tasks = ts, !.listeners = listeners]
  BY <1>0 DEF CancelTimeout
<1>2. /\ ts \in [Services -> [discover : Int, timeout : Int]]
      /\ \A s \in Services :
              /\ ts[s].discover = p.tasks[s].discover
              /\ s \in gone => ts[s].timeout = p.tasks[s].timeout - 1
              /\ s \notin gone => ts[s].timeout = p.tasks[s].timeout
  <2>1. \A s \in Services : p.tasks[s].timeout \in Int
    BY DEF ConnectorType
  <2> QED BY <2>1, TimeoutsAre, -1 \in Int
<1>3. listeners \in [D -> ListenerType]
  BY FlagsAre
<1> HIDE DEF ts, listeners
<1>5. /\ r \in ConnectorType(D)
      /\ SameServer(r, p) /\ r.pending = p.pending /\ r.data = p.data
      /\ r.stream_state = p.stream_state /\ r.sent = p.sent /\ r.tasks = ts /\ r.listeners = listeners
  BY <1>1, <1>2, <1>3 DEF ConnectorType, SameServer
<1>7. ASSUME NEW s \in D
      PROVE  /\ r.listeners[s].discover = p.listeners[s].discover
             /\ r.listeners[s].timeout <=> (s \notin S /\ p.listeners[s].timeout)
  BY <1>5, FlagsAre DEF listeners
<1> QED
  BY <1>5, <1>2, <1>7

(* A listener between two places. *)
Free(p, s) == NoWay(p, s) /\ ~p.listeners[s].discover /\ ~p.listeners[s].timeout
Ways(p, D) == \A s \in Services : WayOf(p, s, D)
(* The connection: a client that is connecting has no stream and its switch *)
(* has begun, only an open stream has requests on it, a client that waits   *)
(* to be deleted has no callback, and a seed server is asked for the        *)
(* discover service alone.                                                  *)
StreamOK(p) ==
  /\ p.client = NULL <=> p.switch_state = "Init"
  /\ p.switches >= 0 /\ (p.client # NULL => p.switches > 0)
  /\ p.client # NULL /\ p.client.state = "connecting" => p.switch_state = "Begin"
  /\ p.stream => p.client # NULL /\ p.client.state = "connected"
  /\ ~p.stream => \A s \in Services : p.sent[s] = <<>>
  /\ p.dying # NULL => ~p.dying.callback
  /\ p.client # NULL /\ discover_service # NULL =>
       /\ p.client.at = "seed" => \A s \in Services \ {discover_service} : p.sent[s] = <<>>
       /\ p.client.at = "instance" <=> p.stream_state = "Init"
  /\ p.switch_state \in {"Init", "Begin", "Normal", "Default"}
  /\ ~p.fault

LEMMA TasksAreInt ==
  ASSUME NEW D, NEW p \in ConnectorType(D)
  PROVE  \A s \in Services : p.tasks[s].discover \in Int /\ p.tasks[s].timeout \in Int
BY DEF ConnectorType

(* A request goes only where Sendable allows it. *)
LEMMA SendKeepsStream ==
  ASSUME NEW D \in SUBSET Services, NEW p \in ConnectorType(D), NEW S \in SUBSET D, StreamOK(p)
  PROVE  StreamOK(SendDiscoverRequest(p, S))
<1> DEFINE r == SendDiscoverRequest(p, S)
<1>1. /\ SameServer(r, p)
      /\ discover_service # NULL => r.stream_state = p.stream_state
      /\ \A s \in Services : ~Sendable(p, s) => r.sent[s] = p.sent[s]
  BY Send
<1> HIDE DEF r
<1>2. \A s \in Services : ~p.stream => ~Sendable(p, s)
  BY DEF Sendable
<1>3. \A s \in Services : p.client # NULL /\ discover_service # NULL /\ p.client.at = "seed" /\ s # discover_service => ~Sendable(p, s)
  <2>1. p.client # NULL => p.client \in ClientType
    BY DEF ConnectorType
  <2>2. p.client # NULL /\ p.client.at = "seed" => p.client.at # "instance"
    BY <2>1 DEF ClientType
  <2> QED BY <2>2 DEF Sendable, StreamOK
<1>4. StreamOK(r)
  BY <1>1, <1>2, <1>3 DEF SameServer, StreamOK
<1> QED
  BY <1>4 DEF r

(* A listener that has no way forward gets one. *)
LEMMA SendOrWaitInv ==
  ASSUME NEW D \in SUBSET Services, NEW p \in ConnectorType(D), NEW x \in D,
         Free(p, x), \A s \in Services \ {x} : WayOf(p, s, D), StreamOK(p)
  PROVE  LET r == SendOrWait(p, x)
         IN r \in ConnectorType(D) /\ Ways(r, D) /\ StreamOK(r) /\ r.queue = p.queue /\ r.switches = p.switches
<1> DEFINE m == SendDiscoverRequest(p, {x})
           r == SendOrWait(p, x)
           pending == IF Sendable(p, x) THEN m.pending ELSE m.pending \cup {x}
<1>1. /\ m \in ConnectorType(D)
      /\ SameServer(m, p) /\ m.pending = p.pending
      /\ \A s \in Services :
           /\ m.tasks[s].discover = p.tasks[s].discover
           /\ ~(s = x /\ Sendable(p, s) /\ ~p.listeners[s].timeout) => m.tasks[s].timeout = p.tasks[s].timeout
           /\ (s = x /\ Sendable(p, s) /\ ~p.listeners[s].timeout) => m.tasks[s].timeout = p.tasks[s].timeout + 1
      /\ \A s \in D :
           /\ m.listeners[s].discover = p.listeners[s].discover
           /\ m.listeners[s].timeout <=> (p.listeners[s].timeout \/ (s = x /\ Sendable(p, s)))
  BY Send
<1>2. StreamOK(m)
  BY SendKeepsStream
<1>3. r = [m EXCEPT !.pending = pending]
  BY DEF SendOrWait
<1>4. pending \in SUBSET D
  BY <1>1 DEF ConnectorType
<1> HIDE DEF m, pending, r
<1>5. r \in ConnectorType(D) /\ SameServer(r, m) /\ r.pending = pending /\ r.tasks = m.tasks /\ r.listeners = m.listeners
      /\ r.sent = m.sent /\ r.stream_state = m.stream_state
  BY <1>1, <1>3, <1>4 DEF ConnectorType, SameServer
<1>6. StreamOK(r)
  BY <1>2, <1>5 DEF StreamOK, SameServer
<1>7. ASSUME NEW s \in Services, s # x PROVE WayOf(r, s, D)
  <2>1. WayOf(p, s, D) /\ (s \in pending <=> s \in p.pending)
    BY <1>7, <1>1 DEF pending
  <2> QED BY <1>1, <1>5, <1>7, <2>1 DEF WayOf, OneWay, NoWay, FlagsAgree
<1>8. WayOf(r, x, D)
  <2>0. x \in Services OBVIOUS
  <2>1. p.tasks[x].discover = 0 /\ p.tasks[x].timeout = 0 /\ x \notin p.pending /\ ~p.listeners[x].discover /\ ~p.listeners[x].timeout
    BY DEF Free, NoWay
  <2>2. x \in pending <=> ~Sendable(p, x)
    BY <1>1, <2>1 DEF pending
  <2>3. CASE Sendable(p, x)
    BY <1>1, <1>5, <2>0, <2>1, <2>2, <2>3 DEF WayOf, OneWay, FlagsAgree
  <2>4. CASE ~Sendable(p, x)
    BY <1>1, <1>5, <2>0, <2>1, <2>2, <2>4 DEF WayOf, OneWay, FlagsAgree
  <2> QED BY <2>3, <2>4
<1>9. r.queue = p.queue /\ r.switches = p.switches
  BY <1>1, <1>5 DEF SameServer
<1> QED
  BY <1>5, <1>6, <1>7, <1>8, <1>9 DEF Ways, r

(* The new client is connecting. *)
LEMMA ClientIs ==
  ASSUME NEW at \in {"seed", "instance"}
  PROVE  /\ Client(at) \in ClientType /\ Client(at).state = "connecting" /\ Client(at).at = at
         /\ Client(at) # NULL
<1>1. Client(at) \in ClientType /\ Client(at).state = "connecting" /\ Client(at).at = at
  BY DEF Client, ClientType
<1>2. NULL \notin ClientType
  BY ConstantsAssumption
<1> QED BY <1>1, <1>2

(* ServerSwitch: the requests under way wait for the new connection, which   *)
(* nothing has been sent on; the old client loses its callback.            *)
LEMMA SwitchInv ==
  ASSUME NEW D \in SUBSET Services, NEW p \in ConnectorType(D), Ways(p, D), ~p.fault,
         p.switches >= 0, p.switch_state \in {"Normal", "Begin"} => p.switches > 0,
         NEW found \in BOOLEAN
  PROVE  LET r == ServerSwitch(p, found)
         IN /\ r \in ConnectorType(D) /\ Ways(r, D) /\ StreamOK(r) /\ r.queue = p.queue
            /\ p.switch_state \in {"Normal", "Begin"} => r.switches = p.switches
            /\ p.switch_state \notin {"Normal", "Begin"} => r.switches = p.switches + 1
<1> DEFINE waiting == {s \in D : p.listeners[s].timeout}
           c == CancelTimeout(p, waiting)
           dying == IF c.client = NULL THEN NULL ELSE [c.client EXCEPT !.callback = FALSE]
           none == [s \in Services |-> <<>>]
           kept == IF p.switch_state \in {"Normal", "Begin"} THEN p.switches - 1 ELSE p.switches
           pending == c.pending \cup waiting
           state == IF found THEN "Init" ELSE "NotInit"
           at == IF found THEN "instance" ELSE "seed"
           r == ServerSwitch(p, found)
<1>0. Registered(p) = D
  BY DEF Registered, ConnectorType
<1>1. /\ c \in ConnectorType(D) /\ SameServer(c, p) /\ c.pending = p.pending
      /\ \A s \in Services :
            /\ c.tasks[s].discover = p.tasks[s].discover
            /\ s \in waiting /\ p.listeners[s].timeout => c.tasks[s].timeout = p.tasks[s].timeout - 1
            /\ ~(s \in waiting /\ p.listeners[s].timeout) => c.tasks[s].timeout = p.tasks[s].timeout
      /\ \A s \in D :
            /\ c.listeners[s].discover = p.listeners[s].discover
            /\ c.listeners[s].timeout <=> (s \notin waiting /\ p.listeners[s].timeout)
  BY Cancel
<1>2. /\ dying \in ClientType \cup {NULL}
      /\ dying # NULL => ~dying.callback
  <2>1. CASE c.client = NULL
    BY <2>1
  <2>2. CASE c.client # NULL
    <3>1. c.client \in ClientType
      BY <1>1, <2>2 DEF ConnectorType
    <3>2. dying = [c.client EXCEPT !.callback = FALSE]
      BY <2>2
    <3> QED BY <3>1, <3>2 DEF ClientType
  <2> QED BY <2>1, <2>2
<1>3. none \in [Services -> Seq(Revisions \cup {Empty})] /\ \A s \in Services : none[s] = <<>>
  OBVIOUS
<1>4. pending \in SUBSET D
  BY <1>1 DEF ConnectorType
<1>5. kept \in Int /\ kept >= 0 /\ kept + 1 > 0
      /\ (p.switch_state \in {"Normal", "Begin"} => kept + 1 = p.switches)
      /\ (p.switch_state \notin {"Normal", "Begin"} => kept + 1 = p.switches + 1)
  BY DEF ConnectorType
<1>6. Client(at) \in ClientType /\ Client(at).state = "connecting" /\ Client(at).at = at /\ Client(at) # NULL
  BY ClientIs
<1>7. state \in {"NotInit", "Init"} /\ (at = "instance" <=> state = "Init")
  OBVIOUS
<1> DEFINE d == [c EXCEPT !.dying = dying, !.stream = FALSE, !.sent = none]
<1> HIDE DEF dying, none
<1>8. /\ d = DeleteClient(c) /\ d \in ConnectorType(D)
      /\ d.queue = c.queue /\ d.fault = c.fault /\ d.listeners = c.listeners /\ d.tasks = c.tasks
      /\ d.dying = dying /\ d.stream = FALSE /\ d.sent = none /\ d.pending = c.pending
  <2>1. d = DeleteClient(c)
    BY DEF DeleteClient, dying, none
  <2> HIDE DEF c
  <2> QED BY <1>1, <1>2, <1>3, <2>1 DEF ConnectorType
<1> HIDE DEF c, d, kept, at, state
<1>9. /\ r \in ConnectorType(D)
      /\ r.queue = c.queue /\ r.fault = c.fault /\ r.listeners = c.listeners /\ r.tasks = c.tasks
      /\ r.dying = dying /\ r.stream = FALSE /\ r.sent = none /\ r.pending = pending
      /\ r.switches = kept + 1 /\ r.switch_state = "Begin" /\ r.stream_state = state
      /\ r.client = Client(at)
  <2>1. r = [d EXCEPT !.pending = d.pending \cup waiting, !.switches = kept + 1, !.switch_state = "Begin",
                      !.stream_state = state, !.client = Client(at)]
    BY <1>0, <1>8 DEF ServerSwitch, c, kept, at, state
  <2>2. d.pending \cup waiting = pending
    BY <1>8
  <2>3. r = [d EXCEPT !.pending = pending, !.switches = kept + 1, !.switch_state = "Begin",
                      !.stream_state = state, !.client = Client(at)]
    BY <2>1, <2>2
  <2> HIDE DEF r, pending
  <2>4. r \in ConnectorType(D)
    <3>1. PICK n, cl, st : n = kept + 1 /\ n \in Int /\ cl = Client(at) /\ cl \in ClientType \cup {NULL}
                           /\ st = state /\ st \in {"NotInit", "GetInstance", "Init"}
      BY <1>5, <1>6, <1>7
    <3>2. r = [d EXCEPT !.pending = pending, !.switches = n, !.switch_state = "Begin",
                        !.stream_state = st, !.client = cl]
      BY <2>3, <3>1
    <3> QED BY <1>4, <1>8, <3>1, <3>2, ZenonT(60) DEF ConnectorType
  <2> QED BY <1>8, <2>3, <2>4, SMTT(30) DEF ConnectorType
<1> HIDE DEF pending, r
<1>10. StreamOK(r)
  BY <1>1, <1>2, <1>3, <1>5, <1>6, <1>7, <1>9 DEF StreamOK, SameServer
<1>11. ASSUME NEW s \in Services PROVE WayOf(r, s, D)
  <2>0. WayOf(p, s, D) /\ p.tasks[s].timeout \in Int
    BY TasksAreInt DEF Ways
  <2>1. CASE s \in waiting
    BY <1>1, <1>9, <2>0, <2>1 DEF WayOf, OneWay, NoWay, FlagsAgree, pending
  <2>2. CASE s \notin waiting
    <3>1. s \in pending <=> s \in p.pending
      BY <1>1, <2>2 DEF pending
    <3> QED BY <1>1, <1>9, <2>0, <2>2, <3>1 DEF WayOf, OneWay, NoWay, FlagsAgree
  <2> QED BY <2>1, <2>2
<1> QED
  BY <1>1, <1>5, <1>9, <1>10, <1>11 DEF Ways, SameServer, r

(* OnDiscoverConnect: requests that waited for the connection are sent, or  *)
(* wait on.                                                                *)
LEMMA OnDiscoverConnectInv ==
  ASSUME NEW D \in SUBSET Services, NEW p \in ConnectorType(D), Ways(p, D), StreamOK(p),
         p.client # NULL, ~p.stream, p.switch_state = "Begin", p.client.state = "connected"
  PROVE  LET r == OnDiscoverConnect(p)
         IN r \in ConnectorType(D) /\ Ways(r, D) /\ StreamOK(r) /\ r.queue = p.queue /\ r.switches = p.switches
<1> DEFINE open == [p EXCEPT !.switch_state = "Normal", !.stream = TRUE]
           m == SendDiscoverRequest(open, open.pending)
           pending == {s \in m.pending : ~Sendable(open, s)}
           r == OnDiscoverConnect(p)
<1>1. r = [m EXCEPT !.pending = pending]
  BY DEF OnDiscoverConnect, PolarisAssert
<1>2. /\ open \in ConnectorType(D)
      /\ open.queue = p.queue /\ open.switches = p.switches /\ open.switch_state = "Normal" /\ open.stream = TRUE
      /\ open.client = p.client /\ open.dying = p.dying /\ open.fault = p.fault /\ open.pending = p.pending
      /\ open.tasks = p.tasks /\ open.listeners = p.listeners /\ open.sent = p.sent
      /\ open.stream_state = p.stream_state
  BY DEF ConnectorType
<1> HIDE DEF open
<1>3. StreamOK(open) /\ open.pending \in SUBSET D
  BY <1>2 DEF StreamOK, ConnectorType
<1>4. /\ m \in ConnectorType(D) /\ SameServer(m, open) /\ m.pending = open.pending
      /\ \A s \in Services :
           LET new == s \in open.pending /\ Sendable(open, s) /\ ~open.listeners[s].timeout IN
           /\ m.tasks[s].discover = open.tasks[s].discover
           /\ ~new => m.tasks[s].timeout = open.tasks[s].timeout
           /\ new => m.tasks[s].timeout = open.tasks[s].timeout + 1
      /\ \A s \in D :
           /\ m.listeners[s].discover = open.listeners[s].discover
           /\ m.listeners[s].timeout <=> (open.listeners[s].timeout \/ (s \in open.pending /\ Sendable(open, s)))
  BY <1>2, <1>3, Send
<1>5. StreamOK(m)
  BY <1>2, <1>3, SendKeepsStream
<1>6. pending \in SUBSET D
  BY <1>3, <1>4
<1> HIDE DEF m, pending, r
<1>7. /\ r \in ConnectorType(D) /\ SameServer(r, m) /\ r.pending = pending /\ r.tasks = m.tasks /\ r.listeners = m.listeners
      /\ r.sent = m.sent /\ r.stream_state = m.stream_state
  BY <1>1, <1>4, <1>6 DEF ConnectorType, SameServer
<1>8. StreamOK(r)
  BY <1>5, <1>7 DEF StreamOK, SameServer
<1>9. ASSUME NEW s \in Services PROVE WayOf(r, s, D)
  <2>0. WayOf(p, s, D)
    BY DEF Ways
  <2>1. s \in pending <=> s \in p.pending /\ ~Sendable(open, s)
    BY <1>2, <1>4 DEF pending
  <2>2. CASE s \in p.pending /\ Sendable(open, s)
    <3>1. s \in D
      BY <2>2 DEF ConnectorType
    <3>2. p.tasks[s].timeout = 0 /\ p.tasks[s].discover = 0 /\ ~p.listeners[s].timeout /\ ~p.listeners[s].discover
      BY <2>0, <2>2, <3>1 DEF WayOf, OneWay, FlagsAgree
    <3> QED BY <1>2, <1>4, <1>7, <2>1, <2>2, <3>1, <3>2 DEF WayOf, OneWay, FlagsAgree
  <2>3. CASE ~(s \in p.pending /\ Sendable(open, s))
    BY <1>2, <1>4, <1>7, <2>0, <2>1, <2>3 DEF WayOf, OneWay, NoWay, FlagsAgree
  <2> QED BY <2>2, <2>3
<1>10. r.queue = p.queue /\ r.switches = p.switches
  BY <1>2, <1>4, <1>7 DEF SameServer
<1> QED
  BY <1>7, <1>8, <1>9, <1>10 DEF Ways, r

(* UpdateRevision leaves the timers alone. *)
LEMMA UpdateRevisionIs ==
  ASSUME NEW l \in ListenerType, NEW code \in {"DataNoChange", "ExecuteSuccess", "NotFound"},
         NEW revision, code = "ExecuteSuccess" => revision \in Revisions
  PROVE  LET u == UpdateRevision(l, code, revision)
         IN u \in ListenerType /\ u.discover = l.discover /\ u.timeout = l.timeout
<1> DEFINE rev == CASE code = "ExecuteSuccess" -> revision
                    [] code = "NotFound" /\ l.ret_code # code -> Empty
                    [] OTHER -> l.revision
<1>1. rev \in Revisions \cup {Empty}
  <2>1. l.revision \in Revisions \cup {Empty}
    BY DEF ListenerType
  <2> QED BY <2>1
<1>2. UpdateRevision(l, code, revision) = [l EXCEPT !.ret_code = code, !.revision = rev]
  BY DEF UpdateRevision, ListenerType
<1> HIDE DEF rev
<1> QED
  BY <1>1, <1>2 DEF ListenerType

(* An answer, whatever the listener waits for when it comes: it has a timer until its next request then. *)
LEMMA ResponseInv ==
  ASSUME NEW D \in SUBSET Services, NEW p \in ConnectorType(D), Ways(p, D), StreamOK(p),
         p.client # NULL, p.client.state = "connected", NEW s \in Services,
         NEW code \in {"DataNoChange", "ExecuteSuccess", "NotFound"},
         server[s] \in Revisions \cup {NotFound}, code = "ExecuteSuccess" => server[s] \in Revisions
  PROVE  LET r == ProcessDiscoverResponse(p, s, code)
         IN r \in ConnectorType(D) /\ Ways(r, D) /\ StreamOK(r) /\ r.queue = p.queue /\ r.switches = p.switches
<1> DEFINE r == ProcessDiscoverResponse(p, s, code)
<1>0. Registered(p) = D
  BY DEF Registered, ConnectorType
<1>1. CASE s \notin D
  BY <1>0, <1>1 DEF ProcessDiscoverResponse
<1>2. CASE s \in D
  <2> DEFINE c == CancelTimeout(p, {s})
             l == UpdateRevision(c.listeners[s], code, server[s])
             told == [c EXCEPT !.listeners[s] = l,
                               !.data[s] = IF IsUpdate(p.listeners[s], code, server[s]) THEN server[s] ELSE @]
             u == SwitchFromSeed(told, s, code)
  <2>1. r = SetDiscoverTask(u, s)
    BY <1>0, <1>2 DEF ProcessDiscoverResponse
  <2>2. /\ c \in ConnectorType(D) /\ SameServer(c, p) /\ c.pending = p.pending
        /\ c.stream_state = p.stream_state /\ c.sent = p.sent
        /\ \A t \in Services :
             /\ c.tasks[t].discover = p.tasks[t].discover
             /\ t = s /\ p.listeners[t].timeout => c.tasks[t].timeout = p.tasks[t].timeout - 1
             /\ ~(t = s /\ p.listeners[t].timeout) => c.tasks[t].timeout = p.tasks[t].timeout
        /\ \A t \in D :
             /\ c.listeners[t].discover = p.listeners[t].discover
             /\ c.listeners[t].timeout <=> (t # s /\ p.listeners[t].timeout)
    BY <1>2, Cancel
  <2> HIDE DEF c
  <2>3. c.listeners[s] \in ListenerType
    BY <1>2, <2>2 DEF ConnectorType
  <2>4. l \in ListenerType /\ l.discover = c.listeners[s].discover /\ l.timeout = c.listeners[s].timeout
    BY <2>3, UpdateRevisionIs
  <2> HIDE DEF l
  <2>5. /\ told \in ConnectorType(D) /\ SameServer(told, c) /\ told.pending = c.pending /\ told.stream_state = c.stream_state
        /\ told.sent = c.sent /\ told.tasks = c.tasks /\ told.listeners = [c.listeners EXCEPT ![s] = l]
    <3>1. PICK d \in DataType : d = IF IsUpdate(p.listeners[s], code, server[s]) THEN server[s] ELSE c.data[s]
      BY <2>2 DEF ConnectorType, DataType
    <3>2. PICK data \in [Services -> DataType] : data = [c.data EXCEPT ![s] = d]
      BY <2>2 DEF ConnectorType
    <3>3. PICK ls \in [D -> ListenerType] : ls = [c.listeners EXCEPT ![s] = l]
      BY <2>2, <2>4 DEF ConnectorType
    <3>4. told = [c EXCEPT !.listeners = ls, !.data = data]
      BY <2>2, <3>1, <3>2, <3>3 DEF ConnectorType
    <3> HIDE DEF told
    <3> QED BY <2>2, <3>3, <3>4 DEF ConnectorType, SameServer
  <2>6. \A t \in D : told.listeners[t].discover = p.listeners[t].discover
                     /\ (told.listeners[t].timeout <=> (t # s /\ p.listeners[t].timeout))
    <3>1. c.listeners \in [D -> ListenerType]
      BY <2>2 DEF ConnectorType
    <3> QED BY <1>2, <2>2, <2>4, <2>5, <3>1
  <2> HIDE DEF told
  <2>7. /\ u \in ConnectorType(D) /\ u.queue = told.queue /\ u.switches = told.switches /\ u.client = told.client
        /\ u.dying = told.dying /\ u.stream = told.stream /\ u.fault = told.fault /\ u.pending = told.pending
        /\ u.sent = told.sent /\ u.tasks = told.tasks /\ u.listeners = told.listeners
        /\ \/ u.switch_state = told.switch_state /\ u.stream_state = told.stream_state
           \/ u.switch_state = "Default" /\ u.stream_state = "GetInstance" /\ told.stream_state = "NotInit"
    BY <2>5, ZenonT(60) DEF SwitchFromSeed, ConnectorType
  <2> HIDE DEF u
  <2>8. StreamOK(u)
    BY <2>2, <2>5, <2>7 DEF StreamOK, SameServer
  <2>9. u.queue = p.queue /\ u.switches = p.switches /\ u.pending = p.pending
    BY <2>2, <2>5, <2>7 DEF SameServer
  <2>w. \A t \in Services :
             /\ u.tasks[t].discover = p.tasks[t].discover
             /\ t = s /\ p.listeners[t].timeout => u.tasks[t].timeout = p.tasks[t].timeout - 1
             /\ ~(t = s /\ p.listeners[t].timeout) => u.tasks[t].timeout = p.tasks[t].timeout
    BY <2>2, <2>5, <2>7
  <2>x. \A t \in D : u.listeners[t].discover = p.listeners[t].discover
                     /\ (u.listeners[t].timeout <=> (t # s /\ p.listeners[t].timeout))
    BY <2>6, <2>7
  <2>y. \A t \in Services \ {s} : WayOf(u, t, D)
    BY <2>9, <2>w, <2>x DEF Ways, WayOf, OneWay, NoWay, FlagsAgree
  <2>z. u.tasks[s].timeout = 0 /\ (u.listeners[s].discover <=> u.tasks[s].discover = 1) /\ ~u.listeners[s].timeout
        /\ (u.tasks[s].discover = 1 => s \notin u.pending) /\ u.tasks[s].discover \in {0, 1}
    <3>1. WayOf(p, s, D)
      BY DEF Ways
    <3> QED BY <1>2, <2>9, <2>w, <2>x, <3>1 DEF WayOf, OneWay, FlagsAgree
  <2>10. CASE u.listeners[s].discover
    <3>1. r = u
      BY <2>1, <2>10 DEF SetDiscoverTask
    <3>2. WayOf(u, s, D)
      BY <1>2, <2>10, <2>z DEF WayOf, OneWay, FlagsAgree
    <3> QED BY <2>7, <2>8, <2>9, <2>y, <3>1, <3>2 DEF Ways
  <2>11. CASE ~u.listeners[s].discover
    <3>a. u.listeners \in [D -> ListenerType] /\ u.tasks \in [Services -> [discover : Int, timeout : Int]]
          /\ u.tasks[s].discover + 1 \in Int
      BY <2>7 DEF ConnectorType
    <3> DEFINE ls == [u.listeners EXCEPT ![s].discover = TRUE]
               ts == [u.tasks EXCEPT ![s].discover = u.tasks[s].discover + 1]
               pe == u.pending \ {s}
    <3>0. /\ ls \in [D -> ListenerType] /\ \A t \in D \ {s} : ls[t] = u.listeners[t]
          /\ ls[s].discover /\ ls[s].timeout = u.listeners[s].timeout
      <4>1. \A f \in [D -> ListenerType] :
              LET g == [f EXCEPT ![s].discover = TRUE]
              IN /\ g \in [D -> ListenerType] /\ \A t \in D \ {s} : g[t] = f[t]
                 /\ g[s].discover /\ g[s].timeout = f[s].timeout
        BY <1>2, ListenersSet
      <4> QED BY <3>a, <4>1
    <3>1. /\ ts \in [Services -> [discover : Int, timeout : Int]]
          /\ \A t \in Services \ {s} : ts[t] = u.tasks[t]
          /\ ts[s].discover = u.tasks[s].discover + 1 /\ ts[s].timeout = u.tasks[s].timeout
      BY <3>a, TasksSet
    <3>2. pe \in SUBSET D
      BY <2>7 DEF ConnectorType
    <3> HIDE DEF ls, ts, pe
    <3>3. r = [u EXCEPT !.listeners = ls, !.tasks = ts, !.pending = pe]
      BY <2>1, <2>7, <2>11 DEF SetDiscoverTask, ConnectorType, ls, ts, pe
    <3> HIDE DEF r
    <3>4. /\ r \in ConnectorType(D) /\ SameServer(r, u) /\ r.stream_state = u.stream_state /\ r.sent = u.sent
          /\ r.listeners = ls /\ r.tasks = ts /\ r.pending = pe
      BY <2>7, <3>0, <3>1, <3>2, <3>3 DEF ConnectorType, SameServer
    <3>5. StreamOK(r)
      BY <2>8, <3>4 DEF StreamOK, SameServer
    <3>6. ASSUME NEW t \in Services \ {s} PROVE WayOf(r, t, D)
      <4>1. r.tasks[t] = u.tasks[t] /\ (t \in r.pending <=> t \in u.pending)
        BY <3>1, <3>4, <3>6 DEF pe
      <4>2. t \in D => r.listeners[t] = u.listeners[t]
        BY <3>0, <3>4, <3>6
      <4> QED BY <2>y, <4>1, <4>2 DEF WayOf, OneWay, NoWay, FlagsAgree
    <3>7. WayOf(r, s, D)
      <4>1. r.tasks[s].discover = u.tasks[s].discover + 1 /\ r.tasks[s].timeout = u.tasks[s].timeout /\ s \notin r.pending
        BY <3>1, <3>4 DEF pe
      <4>2. r.listeners[s].discover /\ r.listeners[s].timeout = u.listeners[s].timeout
        BY <3>0, <3>4
      <4> QED BY <1>2, <2>11, <2>z, <4>1, <4>2 DEF WayOf, OneWay, FlagsAgree
    <3>8. r.queue = p.queue /\ r.switches = p.switches
      BY <2>9, <3>4 DEF SameServer
    <3> QED BY <3>4, <3>5, <3>6, <3>7, <3>8 DEF Ways, r
  <2> QED BY <2>10, <2>11
<1> QED
  BY <1>1, <1>2

-----------------------------------------------------------------------------
(* The queue of calls *)
(* The tasks of one service register and deregister in turn: the first fits *)
(* the listeners (R), the last what was asked for (A).  So no task finds a  *)
(* service it registers registered, or one it deregisters unknown.          *)
NoneOf(Q, from, to, s) == \A k \in from .. to : Q[k].service # s
QueueOK(Q, R, A) ==
  /\ \A i \in 1 .. Len(Q) : NoneOf(Q, 1, i - 1, Q[i].service) => (Q[i].handler <=> Q[i].service \notin R)
  /\ \A i \in 1 .. Len(Q) : NoneOf(Q, i + 1, Len(Q), Q[i].service) => (Q[i].handler <=> Q[i].service \in A)
  /\ \A i, j \in 1 .. Len(Q) :
       i < j /\ Q[i].service = Q[j].service /\ NoneOf(Q, i + 1, j - 1, Q[i].service)
         => (Q[i].handler <=> ~Q[j].handler)
  /\ \A s \in Services : NoneOf(Q, 1, Len(Q), s) => (s \in A <=> s \in R)

(* The task of a call goes to the end of the queue. *)
LEMMA QueueAppend ==
  ASSUME NEW Q \in Seq(TaskType), NEW R, NEW A, NEW B, QueueOK(Q, R, A), NEW t \in TaskType,
         t.handler <=> t.service \notin A, \A s : s # t.service => (s \in B <=> s \in A),
         t.service \in B <=> t.handler
  PROVE  QueueOK(Append(Q, t), R, B)
<1> DEFINE P == Append(Q, t)
           n == Len(Q)
<1>1. /\ Len(P) = n + 1 /\ n \in Nat /\ P[n + 1] = t /\ \A i \in 1 .. n : P[i] = Q[i]
      /\ P \in Seq(TaskType)
  BY AppendProperties, LenProperties
<1> HIDE DEF P, n
<1>2. \A from, to, s : from \in Int /\ from >= 1 /\ to \in Int /\ to <= n => (NoneOf(P, from, to, s) <=> NoneOf(Q, from, to, s))
  BY <1>1 DEF NoneOf
<1>3. \A from, s : from \in 1 .. n + 1 => (NoneOf(P, from, n + 1, s) <=> (NoneOf(Q, from, n, s) /\ s # t.service))
  <2> SUFFICES ASSUME NEW s, NEW from \in 1 .. n + 1 
      PROVE  NoneOf(P, from, n + 1, s) <=> (NoneOf(Q, from, n, s) /\ s # t.service)
    OBVIOUS
  <2>1. from .. n + 1 = (from .. n) \cup {n + 1}
    BY <1>1
  <2> QED BY <1>1, <2>1 DEF NoneOf
<1>4. ASSUME NEW i \in 1 .. n + 1, NoneOf(P, 1, i - 1, P[i].service)
      PROVE  P[i].handler <=> P[i].service \notin R
  <2>1. CASE i = n + 1
    <3>1. NoneOf(Q, 1, n, t.service) /\ t.service \in Services
      BY <1>1, <1>2, <1>4, <2>1 DEF TaskType
    <3> QED BY <1>1, <2>1, <3>1 DEF QueueOK, n
  <2>2. CASE i \in 1 .. n
    <3>1. NoneOf(Q, 1, i - 1, Q[i].service)
      BY <1>1, <1>2, <1>4, <2>2
    <3> QED BY <1>1, <2>2, <3>1 DEF QueueOK, n
  <2> QED BY <1>1, <2>1, <2>2
<1>5. ASSUME NEW i \in 1 .. n + 1, NoneOf(P, i + 1, n + 1, P[i].service)
      PROVE  P[i].handler <=> P[i].service \in B
  <2>1. CASE i = n + 1
    BY <1>1, <2>1
  <2>2. CASE i \in 1 .. n
    <3>1. NoneOf(Q, i + 1, n, Q[i].service) /\ Q[i].service # t.service
      BY <1>1, <1>3, <1>5, <2>2
    <3>2. Q[i].handler <=> Q[i].service \in A
      BY <2>2, <3>1 DEF QueueOK, n
    <3> QED BY <1>1, <2>2, <3>1, <3>2
  <2> QED BY <1>1, <2>1, <2>2
<1>6. ASSUME NEW i \in 1 .. n + 1, NEW j \in 1 .. n + 1, i < j, P[i].service = P[j].service,
             NoneOf(P, i + 1, j - 1, P[i].service)
      PROVE  P[i].handler <=> ~P[j].handler
  <2>1. i \in 1 .. n /\ P[i] = Q[i] /\ NoneOf(Q, i + 1, j - 1, Q[i].service)
    BY <1>1, <1>2, <1>6
  <2>2. CASE j = n + 1
    <3>1. Q[i].handler <=> Q[i].service \in A
      BY <1>1, <2>1, <2>2 DEF QueueOK, n
    <3>2. Q[i].service = t.service
      BY <1>1, <1>6, <2>1, <2>2
    <3> QED BY <1>1, <2>1, <2>2, <3>1, <3>2
  <2>3. CASE j \in 1 .. n
    BY <1>1, <1>6, <2>1, <2>3 DEF QueueOK, n
  <2> QED BY <1>1, <2>2, <2>3
<1>7. ASSUME NEW s \in Services, NoneOf(P, 1, n + 1, s)
      PROVE  s \in B <=> s \in R
  BY <1>1, <1>3, <1>7 DEF QueueOK, n
<1>8. QueueOK(P, R, B)
  BY <1>1, <1>4, <1>5, <1>6, <1>7 DEF QueueOK
<1> QED BY <1>8 DEF P

(* The first task fits the listeners; when it is done the others do. *)
LEMMA QueueTail ==
  ASSUME NEW Q \in Seq(TaskType), NEW R, NEW B, NEW A, QueueOK(Q, R, A), Q # <<>>,
         \A s : s # Head(Q).service => (s \in B <=> s \in R),
         Head(Q).service \in B <=> Head(Q).handler
  PROVE  /\ Head(Q).handler <=> Head(Q).service \notin R
         /\ QueueOK(Tail(Q), B, A)
<1> DEFINE P == Tail(Q)
           n == Len(Q)
           t == Q[1]
<1>1. /\ n \in Nat /\ n >= 1 /\ Len(P) = n - 1 /\ Head(Q) = t /\ \A i \in 1 .. n - 1 : P[i] = Q[i + 1]
      /\ \A i \in 1 .. n : Q[i] \in TaskType
  BY HeadTailProperties, LenProperties, EmptySeq, ElementOfSeq
<1> HIDE DEF P, n, t
<1>2. \A from, to, s : from \in Int /\ from >= 1 /\ to \in Int /\ to <= n - 1
        => (NoneOf(P, from, to, s) <=> NoneOf(Q, from + 1, to + 1, s))
  <2> SUFFICES ASSUME NEW from \in Int, NEW to \in Int, NEW s, from >= 1, to <= n - 1
               PROVE  NoneOf(P, from, to, s) <=> NoneOf(Q, from + 1, to + 1, s)
    OBVIOUS
  <2>1. \A k \in from .. to : k + 1 \in from + 1 .. to + 1 /\ P[k] = Q[k + 1]
    BY <1>1
  <2>2. \A k \in from + 1 .. to + 1 : k - 1 \in from .. to /\ P[k - 1] = Q[k]
    BY <1>1
  <2> QED BY <2>1, <2>2 DEF NoneOf
<1>3. t.handler <=> t.service \notin R
  <2>1. NoneOf(Q, 1, 0, t.service) /\ 1 \in 1 .. n
    BY <1>1 DEF NoneOf
  <2> QED BY <1>1, <2>1 DEF QueueOK, n, t
<1>4. ASSUME NEW i \in 1 .. n - 1, NoneOf(P, 1, i - 1, P[i].service)
      PROVE  P[i].handler <=> P[i].service \notin B
  <2>0. P[i] = Q[i + 1] /\ i + 1 \in 1 .. n /\ 1 \in 1 .. n
    BY <1>1
  <2>1. NoneOf(Q, 2, i, P[i].service)
    BY <1>1, <1>2, <1>4
  <2>2. CASE P[i].service = t.service
    <3>1. t.handler <=> ~Q[i + 1].handler
      BY <1>1, <2>0, <2>1, <2>2 DEF QueueOK, n, t
    <3> QED BY <1>1, <2>0, <2>2, <3>1
  <2>3. CASE P[i].service # t.service
    <3>1. NoneOf(Q, 1, i, P[i].service)
      BY <1>1, <2>1, <2>3 DEF NoneOf, t
    <3>2. Q[i + 1].handler <=> Q[i + 1].service \notin R
      BY <1>1, <2>0, <3>1 DEF QueueOK, n
    <3> QED BY <1>1, <2>0, <2>3, <3>2
  <2> QED BY <2>2, <2>3
<1>5. ASSUME NEW i \in 1 .. n - 1, NoneOf(P, i + 1, n - 1, P[i].service)
      PROVE  P[i].handler <=> P[i].service \in A
  <2>0. P[i] = Q[i + 1] /\ i + 1 \in 1 .. n
    BY <1>1
  <2>1. NoneOf(Q, (i + 1) + 1, n, P[i].service)
    <3>1. i + 1 \in Int /\ i + 1 >= 1 /\ n - 1 \in Int /\ n - 1 <= n - 1 /\ (n - 1) + 1 = n
      BY <1>1
    <3>2. NoneOf(Q, (i + 1) + 1, (n - 1) + 1, P[i].service)
      BY <1>2, <1>5, <3>1
    <3> QED BY <3>1, <3>2
  <2> QED BY <2>0, <2>1 DEF QueueOK, n
<1>6. ASSUME NEW i \in 1 .. n - 1, NEW j \in 1 .. n - 1, i < j, P[i].service = P[j].service,
             NoneOf(P, i + 1, j - 1, P[i].service)
      PROVE  P[i].handler <=> ~P[j].handler
  <2>0. P[i] = Q[i + 1] /\ i + 1 \in 1 .. n /\ P[j] = Q[j + 1] /\ j + 1 \in 1 .. n /\ i + 1 < j + 1
    BY <1>1, <1>6
  <2>1. NoneOf(Q, (i + 1) + 1, (j + 1) - 1, P[i].service)
    <3>1. i + 1 \in Int /\ i + 1 >= 1 /\ j - 1 \in Int /\ j - 1 <= n - 1 /\ (j - 1) + 1 = (j + 1) - 1
      BY <1>1
    <3>2. NoneOf(Q, (i + 1) + 1, (j - 1) + 1, P[i].service)
      BY <1>2, <1>6, <3>1
    <3> QED BY <3>1, <3>2
  <2> QED BY <1>6, <2>0, <2>1 DEF QueueOK, n
<1>7. ASSUME NEW s \in Services, NoneOf(P, 1, n - 1, s)
      PROVE  s \in A <=> s \in B
  <2>1. NoneOf(Q, 1 + 1, n, s)
    <3>1. 1 \in Int /\ 1 >= 1 /\ n - 1 \in Int /\ n - 1 <= n - 1 /\ (n - 1) + 1 = n
      BY <1>1
    <3>2. NoneOf(Q, 1 + 1, (n - 1) + 1, s)
      BY <1>2, <1>7, <3>1
    <3> QED BY <3>1, <3>2
  <2>2. CASE s = t.service
    <3>1. t.handler <=> t.service \in A
      BY <1>1, <2>1, <2>2 DEF QueueOK, n, t
    <3> QED BY <1>1, <2>2, <3>1
  <2>3. CASE s # t.service
    <3>1. NoneOf(Q, 1, n, s)
      BY <1>1, <2>1, <2>3 DEF NoneOf, t
    <3>2. s \in A <=> s \in R
      BY <3>1 DEF QueueOK, n
    <3> QED BY <1>1, <2>3, <3>2
  <2> QED BY <2>2, <2>3
<1>8. QueueOK(P, B, A)
  BY <1>1, <1>4, <1>5, <1>6, <1>7 DEF QueueOK
<1> QED BY <1>1, <1>3, <1>8 DEF P

-----------------------------------------------------------------------------
Good(p, D) == p \in ConnectorType(D) /\ Ways(p, D) /\ StreamOK(p)

(* The inductive invariant *)
ConnectorInv ==
  /\ setup \in Setups
  /\ server \in [Services -> Revisions \cup {NotFound}]
  /\ files \in [Services -> Revisions \cup {Empty}]
  /\ asked \subseteq Services
  /\ faults \in Nat /\ moves \in Nat /\ calls \in Nat
  /\ \E D \in SUBSET Services : Good(q, D) /\ QueueOK(q.queue, D, asked)

(* What ConstantsAssumption says of the configuration. *)
LEMMA SetupIs ==
  ASSUME setup \in Setups
  PROVE  /\ discover_service \in Services \cup {NULL}
         /\ setup.start \subseteq Revisions \cup {NotFound} /\ setup.disk \subseteq Revisions \cup {Empty}
         /\ setup.faults \in Nat /\ setup.moves \in Nat /\ setup.calls \in Nat
BY ConstantsAssumption DEF discover_service

(* Two states differ in the queue and in the data at most: StreamOK and    *)
(* Ways do not see these.                                                  *)
SameConnection(r, p) ==
  /\ r.switches = p.switches
  /\ r.switch_state = p.switch_state /\ r.client = p.client /\ r.dying = p.dying
  /\ r.stream = p.stream /\ r.fault = p.fault /\ r.stream_state = p.stream_state /\ r.sent = p.sent
  /\ r.tasks = p.tasks /\ r.listeners = p.listeners /\ r.pending = p.pending

LEMMA GoodFrame ==
  ASSUME NEW D \in SUBSET Services, NEW p, Good(p, D), NEW r \in ConnectorType(D), SameConnection(r, p)
  PROVE  Good(r, D)
<1>2. Ways(r, D)
  BY DEF Good, Ways, WayOf, OneWay, NoWay, FlagsAgree, SameConnection
<1>3. StreamOK(r)
  BY DEF Good, StreamOK, SameConnection
<1> QED BY <1>2, <1>3 DEF Good

(* The first half of RegisterEventHandler. *)
LEMMA LoadIs ==
  ASSUME NEW D \in SUBSET Services, NEW p, Good(p, D), NEW s \in Services,
         files \in [Services -> Revisions \cup {Empty}]
  PROVE  /\ Good(Load(p, s), D) /\ Load(p, s).queue = Append(p.queue, Task(s, TRUE, files[s]))
         /\ Task(s, TRUE, files[s]) \in TaskType
         /\ Task(s, TRUE, files[s]).service = s /\ Task(s, TRUE, files[s]).handler
<1> DEFINE t == Task(s, TRUE, files[s])
           data == [p.data EXCEPT ![s] = IF files[s] = Empty THEN @ ELSE files[s]]
           Q == Append(p.queue, t)
<1>1. t \in TaskType /\ t.service = s /\ t.handler
  BY DEF Task, TaskType
<1>2. p.queue \in Seq(TaskType) /\ p.data \in [Services -> DataType]
  BY DEF Good, ConnectorType
<1>3. Q \in Seq(TaskType)
  BY <1>1, <1>2, AppendProperties
<1>4. data \in [Services -> DataType]
  BY <1>2 DEF DataType
<1>5. Load(p, s) = [p EXCEPT !.queue = Q, !.data = data]
  BY DEF Load, Good, ConnectorType
<1> HIDE DEF t, data, Q
<1>6. Load(p, s) \in ConnectorType(D) /\ SameConnection(Load(p, s), p) /\ Load(p, s).queue = Q
  BY <1>3, <1>4, <1>5 DEF Good, ConnectorType, SameConnection
<1>7. Good(Load(p, s), D)
  BY <1>6, GoodFrame
<1> QED BY <1>1, <1>6, <1>7 DEF t, Q

(* The invariant holds at the start. *)
LEMMA InitConnector == Init => ConnectorInv
<1> SUFFICES ASSUME Init PROVE ConnectorInv
  OBVIOUS
<1>1. setup \in Setups
  BY DEF Init
<1>2. /\ server \in [Services -> Revisions \cup {NotFound}]
      /\ files \in [Services -> Revisions \cup {Empty}]
      /\ asked \subseteq Services
      /\ faults \in Nat /\ moves \in Nat /\ calls \in Nat
  BY <1>1, SetupIs DEF Init, discover_service
<1>3. Good(Connector, {})
  <2>1. /\ Connector.queue = <<>> /\ Connector.listeners = <<>> /\ Connector.pending = {}
        /\ Connector.tasks = [s \in Services |-> [discover |-> 0, timeout |-> 0]] /\ Connector.switches = 0
        /\ Connector.client = NULL /\ Connector.dying = NULL /\ Connector.stream = FALSE
        /\ Connector.switch_state = "Init" /\ Connector.stream_state = "NotInit"
        /\ Connector.sent = [s \in Services |-> <<>>] /\ Connector.fault = FALSE
    BY DEF Connector
  <2>2. <<>> \in [{} -> ListenerType]
    OBVIOUS
  <2>3. [s \in Services |-> <<>>] \in [Services -> Seq(Revisions \cup {Empty})]
    OBVIOUS
  <2>4. Connector \in ConnectorType({})
    BY <2>2, <2>3 DEF Connector, ConnectorType, DataType
  <2>5. Ways(Connector, {})
    BY <2>1 DEF Ways, WayOf, NoWay
  <2>6. StreamOK(Connector)
    BY <2>1 DEF StreamOK
  <2> QED BY <2>4, <2>5, <2>6 DEF Good
<1>4. Connector.queue = <<>>
  BY DEF Connector
<1>5. QueueOK(<<>>, {}, {})
  BY DEF QueueOK
<1>6. CASE setup.discover = NULL
  <2>1. q = Connector /\ asked = {}
    BY <1>6 DEF Init
  <2> QED BY <1>1, <1>2, <1>3, <1>4, <1>5, <2>1 DEF ConnectorInv
<1>7. CASE setup.discover # NULL
  <2>1. q = Load(Connector, setup.discover) /\ asked = {setup.discover} /\ setup.discover \in Services
    BY <1>1, <1>7, SetupIs DEF Init, discover_service
  <2> DEFINE s == setup.discover
             t == Task(s, TRUE, files[s])
  <2>2. Good(q, {}) /\ q.queue = Append(<<>>, t) /\ t \in TaskType /\ t.service = s /\ t.handler
    <3>1. {} \in SUBSET Services OBVIOUS
    <3>2. /\ Good(Load(Connector, s), {}) /\ Load(Connector, s).queue = Append(Connector.queue, t)
          /\ t \in TaskType /\ t.service = s /\ t.handler
      BY <1>2, <1>3, <2>1, <3>1, LoadIs, ZenonT(60)
    <3> QED BY <1>4, <2>1, <3>2
  <2> HIDE DEF t
  <2>3. <<>> \in Seq(TaskType)
    OBVIOUS
  <2>4. QueueOK(Append(<<>>, t), {}, asked)
    <3>1. /\ t.handler <=> t.service \notin {}
          /\ \A x : x # t.service => (x \in asked <=> x \in {})
          /\ t.service \in asked <=> t.handler
      BY <2>1, <2>2
    <3>2. \A A, B : QueueOK(<<>>, {}, A) /\ (t.handler <=> t.service \notin A)
                    /\ (\A x : x # t.service => (x \in B <=> x \in A)) /\ (t.service \in B <=> t.handler)
                    => QueueOK(Append(<<>>, t), {}, B)
      BY <2>2, <2>3, QueueAppend
    <3> QED BY <1>5, <3>1, <3>2
  <2> QED BY <1>1, <1>2, <2>2, <2>4 DEF ConnectorInv
<1> QED BY <1>6, <1>7

-----------------------------------------------------------------------------
(* The steps *)
LEMMA Close ==
  ASSUME ConnectorInv, UNCHANGED setup,
         server' \in [Services -> Revisions \cup {NotFound}],
         files' \in [Services -> Revisions \cup {Empty}], asked' \subseteq Services,
         faults' \in Nat, moves' \in Nat, calls' \in Nat,
         NEW D \in SUBSET Services, Good(q', D), QueueOK(q'.queue, D, asked')
  PROVE  ConnectorInv'
<1>1. Good(q, D)'
  BY DEF Good, StreamOK, discover_service
<1> QED BY <1>1 DEF ConnectorInv

LEMMA CloseQuiet ==
  ASSUME ConnectorInv, UNCHANGED <<setup, server, files, asked, moves, calls>>, faults' \in Nat,
         NEW D \in SUBSET Services, Good(q', D), QueueOK(q'.queue, D, asked)
  PROVE  ConnectorInv'
BY Close DEF ConnectorInv

(* The steps that end in ServerSwitch. *)
LEMMA CloseSwitch ==
  ASSUME ConnectorInv, NEW D \in SUBSET Services, NEW p \in ConnectorType(D), Ways(p, D), ~p.fault,
         p.switches >= 0, p.switch_state \in {"Normal", "Begin"} => p.switches > 0,
         QueueOK(p.queue, D, asked), NEW cost \in 0 .. 1, Switch(p, cost)
  PROVE  /\ ConnectorInv'
         /\ p.switch_state \in {"Normal", "Begin"} => q'.switches = p.switches
         /\ p.switch_state \notin {"Normal", "Begin"} => q'.switches = p.switches + 1
<1>1. PICK found \in BOOLEAN : /\ faults' = faults - cost - (IF Selectable(p) /\ ~found THEN 1 ELSE 0)
                               /\ faults' >= 0 /\ q' = ServerSwitch(p, found)
  BY DEF Switch
<1>2. /\ q' \in ConnectorType(D) /\ Ways(q', D) /\ StreamOK(q') /\ q'.queue = p.queue
      /\ p.switch_state \in {"Normal", "Begin"} => q'.switches = p.switches
      /\ p.switch_state \notin {"Normal", "Begin"} => q'.switches = p.switches + 1
  BY <1>1, SwitchInv
<1>3. faults' \in Nat
  BY <1>1 DEF ConnectorInv
<1>4. UNCHANGED <<setup, server, files, asked, moves, calls>>
  BY DEF Switch
<1>5. Good(q', D) /\ QueueOK(q'.queue, D, asked)
  BY <1>2 DEF Good
<1>6. ConnectorInv'
  BY <1>3, <1>4, <1>5, CloseQuiet
<1> QED BY <1>2, <1>6

(* Calls of API threads. *)
LEMMA RegisterCallInv ==
  ASSUME ConnectorInv, NEW s \in Services, RegisterEventHandler(s)
  PROVE  ConnectorInv' /\ q'.switches = q.switches
<1>1. PICK D \in SUBSET Services : Good(q, D) /\ QueueOK(q.queue, D, asked)
  BY DEF ConnectorInv
<1> DEFINE t == Task(s, TRUE, files[s])
<1>2. /\ Good(Load(q, s), D) /\ Load(q, s).queue = Append(q.queue, t)
      /\ t \in TaskType /\ t.service = s /\ t.handler
  BY <1>1, LoadIs, ZenonT(60) DEF ConnectorInv
<1>3. q' = Load(q, s) /\ asked' = asked \cup {s} /\ s \notin asked /\ calls' = calls - 1 /\ calls > 0
      /\ UNCHANGED <<setup, server, files, faults, moves>>
  BY DEF RegisterEventHandler
<1> HIDE DEF t
<1>4. QueueOK(q'.queue, D, asked')
  <2>1. q.queue \in Seq(TaskType)
    BY <1>1 DEF Good, ConnectorType
  <2>2. /\ t.handler <=> t.service \notin asked
        /\ \A x : x # t.service => (x \in asked' <=> x \in asked)
        /\ t.service \in asked' <=> t.handler
    BY <1>2, <1>3
  <2>3. QueueOK(Append(q.queue, t), D, asked')
    BY <1>1, <1>2, <2>1, <2>2, QueueAppend
  <2> QED BY <1>2, <1>3, <2>3
<1>5. ConnectorInv'
  <2>1. calls' \in Nat /\ asked' \subseteq Services
    BY <1>3 DEF ConnectorInv
  <2> QED BY <1>2, <1>3, <1>4, <2>1, Close DEF ConnectorInv
<1>6. Load(q, s).switches = q.switches
  BY <1>1 DEF Load, Good, ConnectorType
<1> QED BY <1>3, <1>5, <1>6

LEMMA DeregisterCallInv ==
  ASSUME ConnectorInv, NEW s \in Services, DeregisterEventHandler(s)
  PROVE  ConnectorInv' /\ q'.switches = q.switches
<1>1. PICK D \in SUBSET Services : Good(q, D) /\ QueueOK(q.queue, D, asked)
  BY DEF ConnectorInv
<1> DEFINE t == Task(s, FALSE, Empty)
           Q == Append(q.queue, t)
           data == [q.data EXCEPT ![s] = NULL]
<1>2. t \in TaskType /\ t.service = s /\ ~t.handler
  BY DEF Task, TaskType
<1>3. q' = [q EXCEPT !.queue = Q, !.data = data] /\ asked' = asked \ {s} /\ s \in asked /\ calls' = calls - 1 /\ calls > 0
      /\ files' = [files EXCEPT ![s] = Empty] /\ UNCHANGED <<setup, server, faults, moves>>
  BY <1>1 DEF DeregisterEventHandler, Good, ConnectorType
<1>4. q.queue \in Seq(TaskType) /\ q.data \in [Services -> DataType]
  BY <1>1 DEF Good, ConnectorType
<1>5. Q \in Seq(TaskType) /\ data \in [Services -> DataType]
  BY <1>2, <1>4, AppendProperties DEF DataType
<1> HIDE DEF t, Q, data
<1>6. q' \in ConnectorType(D) /\ SameConnection(q', q) /\ q'.queue = Q
  BY <1>1, <1>3, <1>5 DEF Good, ConnectorType, SameConnection
<1>7. Good(q', D)
  BY <1>1, <1>6, GoodFrame
<1>8. QueueOK(q'.queue, D, asked')
  <2>2. /\ t.handler <=> t.service \notin asked
        /\ \A x : x # t.service => (x \in asked' <=> x \in asked)
        /\ t.service \in asked' <=> t.handler
    BY <1>2, <1>3
  <2>3. QueueOK(Q, D, asked')
    BY <1>1, <1>2, <1>4, <2>2, QueueAppend DEF Q
  <2> QED BY <1>6, <2>3
<1>9. calls' \in Nat /\ asked' \subseteq Services /\ files' \in [Services -> Revisions \cup {Empty}]
  BY <1>3 DEF ConnectorInv
<1> QED BY <1>3, <1>6, <1>7, <1>8, <1>9, Close DEF ConnectorInv, SameConnection

(* The queue is processed. *)
LEMMA RegisterInv ==
  ASSUME NEW D \in SUBSET Services, NEW p, Good(p, D), NEW s \in Services \ D,
         NEW revision \in Revisions \cup {Empty}
  PROVE  LET r == Register(p, s, revision)
         IN Good(r, D \cup {s}) /\ r.queue = p.queue /\ r.switches = p.switches
<1> DEFINE E == D \cup {s}
           ls == Insert(p.listeners, s, Listener(revision))
           m == [p EXCEPT !.listeners = ls]
           r == Register(p, s, revision)
<1>0. Registered(p) = D /\ p \in ConnectorType(D) /\ p.listeners \in [D -> ListenerType]
  BY DEF Registered, ConnectorType, Good
<1>1. r = SendOrWait(m, s)
  BY <1>0 DEF Register
<1>2. Listener(revision) \in ListenerType /\ ~Listener(revision).discover /\ ~Listener(revision).timeout
  BY DEF Listener, ListenerType
<1>3. ls \in [E -> ListenerType] /\ ls[s] = Listener(revision) /\ \A t \in D : ls[t] = p.listeners[t]
  BY <1>0, <1>2 DEF Insert
<1> HIDE DEF ls
<1>4. /\ m \in ConnectorType(E) /\ SameServer(m, p) /\ m.listeners = ls /\ m.tasks = p.tasks /\ m.pending = p.pending
      /\ m.sent = p.sent /\ m.stream_state = p.stream_state
  BY <1>0, <1>3 DEF ConnectorType, SameServer
<1> HIDE DEF m
<1>5. StreamOK(m)
  BY <1>4 DEF Good, StreamOK, SameServer
<1>6. Free(m, s)
  <2>1. NoWay(p, s)
    BY DEF Good, Ways, WayOf
  <2> QED BY <1>2, <1>3, <1>4, <2>1 DEF Free, NoWay
<1>7. ASSUME NEW t \in Services \ {s} PROVE WayOf(m, t, E)
  <2>1. WayOf(p, t, D)
    BY DEF Good, Ways
  <2> QED BY <1>3, <1>4, <1>7, <2>1 DEF WayOf, OneWay, NoWay, FlagsAgree
<1>8. E \in SUBSET Services /\ s \in E
  OBVIOUS
<1> HIDE DEF E
<1>9. r \in ConnectorType(E) /\ Ways(r, E) /\ StreamOK(r) /\ r.queue = m.queue /\ r.switches = m.switches
  BY <1>1, <1>4, <1>5, <1>6, <1>7, <1>8, SendOrWaitInv
<1> QED BY <1>4, <1>9 DEF Good, SameServer, E

LEMMA DeregisterInv ==
  ASSUME NEW D \in SUBSET Services, NEW p, Good(p, D), NEW s \in D
  PROVE  LET r == Deregister(p, s)
         IN Good(r, D \ {s}) /\ r.queue = p.queue /\ r.switches = p.switches
<1> DEFINE E == D \ {s}
           c == CancelTimeout(p, {s})
           n == IF p.listeners[s].discover THEN c.tasks[s].discover - 1 ELSE c.tasks[s].discover
           ts == [c.tasks EXCEPT ![s].discover = n]
           data == [c.data EXCEPT ![s] = NULL]
           pe == c.pending \ {s}
           ls == Erase(c.listeners, s)
           r == Deregister(p, s)
<1>0. Registered(p) = D /\ p \in ConnectorType(D)
  BY DEF Registered, ConnectorType, Good
<1>1. /\ c \in ConnectorType(D) /\ SameServer(c, p) /\ c.pending = p.pending
      /\ c.stream_state = p.stream_state /\ c.sent = p.sent
      /\ \A t \in Services :
           /\ c.tasks[t].discover = p.tasks[t].discover
           /\ t = s /\ p.listeners[t].timeout => c.tasks[t].timeout = p.tasks[t].timeout - 1
           /\ ~(t = s /\ p.listeners[t].timeout) => c.tasks[t].timeout = p.tasks[t].timeout
      /\ \A t \in D :
           /\ c.listeners[t].discover = p.listeners[t].discover
           /\ c.listeners[t].timeout <=> (t # s /\ p.listeners[t].timeout)
  BY <1>0, Cancel
<1>2. /\ c.tasks \in [Services -> [discover : Int, timeout : Int]] /\ c.listeners \in [D -> ListenerType]
      /\ c.pending \in SUBSET D /\ c.data \in [Services -> DataType] /\ n \in Int
  <2> HIDE DEF c
  <2>1. /\ c.tasks \in [Services -> [discover : Int, timeout : Int]] /\ c.listeners \in [D -> ListenerType]
        /\ c.pending \in SUBSET D /\ c.data \in [Services -> DataType]
    BY <1>1 DEF ConnectorType
  <2> QED BY <2>1
<1> HIDE DEF c
<1>3. r = [c EXCEPT !.tasks = ts, !.pending = pe, !.data = data, !.listeners = ls]
  BY <1>0, <1>1 DEF Deregister, c, ConnectorType
<1> HIDE DEF n, r
<1>4. /\ ts \in [Services -> [discover : Int, timeout : Int]]
      /\ \A t \in Services \ {s} : ts[t] = c.tasks[t]
      /\ ts[s].discover = n /\ ts[s].timeout = c.tasks[s].timeout
  BY <1>2, TasksSet
<1>5. ls \in [E -> ListenerType] /\ \A t \in E : ls[t] = c.listeners[t]
  BY <1>2 DEF Erase
<1>6. data \in [Services -> DataType] /\ pe \in SUBSET E
  BY <1>2 DEF DataType
<1> HIDE DEF ts, data, pe, ls, E
<1>7. /\ r \in ConnectorType(E) /\ SameServer(r, c) /\ r.stream_state = c.stream_state /\ r.sent = c.sent
      /\ r.tasks = ts /\ r.pending = pe /\ r.listeners = ls
  BY <1>1, <1>3, <1>4, <1>5, <1>6 DEF ConnectorType, SameServer
<1>8. StreamOK(r)
  BY <1>1, <1>7 DEF Good, StreamOK, SameServer
<1>9. ASSUME NEW t \in Services \ {s} PROVE WayOf(r, t, E)
  <2>1. WayOf(p, t, D) /\ (t \in pe <=> t \in p.pending) /\ (t \in E <=> t \in D)
    BY <1>1, <1>9 DEF Good, Ways, pe, E
  <2> QED BY <1>1, <1>4, <1>5, <1>7, <1>9, <2>1 DEF WayOf, OneWay, NoWay, FlagsAgree
<1>10. WayOf(r, s, E)
  <2>1. WayOf(p, s, D) /\ s \notin pe /\ s \notin E /\ s \in Services
    BY DEF Good, Ways, pe, E
  <2> QED BY <1>1, <1>4, <1>7, <2>1 DEF WayOf, OneWay, NoWay, FlagsAgree, n
<1>11. r.queue = p.queue /\ r.switches = p.switches
  BY <1>1, <1>7 DEF SameServer
<1> QED BY <1>7, <1>8, <1>9, <1>10, <1>11 DEF Good, Ways, E, r

LEMMA ProcessQueuedInv ==
  ASSUME ConnectorInv, ProcessQueuedListener
  PROVE  ConnectorInv' /\ q'.switches = q.switches
<1>1. PICK D \in SUBSET Services : Good(q, D) /\ QueueOK(q.queue, D, asked)
  BY DEF ConnectorInv
<1> DEFINE t == Head(q.queue)
           rest == [q EXCEPT !.queue = Tail(q.queue)]
           s == t.service
<1>2. q.queue \in Seq(TaskType) /\ q.queue # <<>>
  BY <1>1 DEF Good, ConnectorType, ProcessQueuedListener
<1>3. t \in TaskType /\ Tail(q.queue) \in Seq(TaskType)
  BY <1>2, HeadTailProperties
<1>4. rest \in ConnectorType(D) /\ SameConnection(rest, q) /\ rest.queue = Tail(q.queue)
  BY <1>1, <1>3 DEF Good, ConnectorType, SameConnection
<1>5. q' = IF t.handler THEN Register(rest, t.service, t.revision) ELSE Deregister(rest, t.service)
  BY DEF ProcessQueuedListener
<1> HIDE DEF rest, t
<1>6. Good(rest, D) /\ rest.switches = q.switches
  BY <1>1, <1>4, GoodFrame DEF SameConnection
<1>7. UNCHANGED <<setup, server, files, asked, moves, calls>> /\ faults' \in Nat
  BY DEF ProcessQueuedListener, Quiet, ConnectorInv
<1>8. t.service \in Services /\ t.revision \in Revisions \cup {Empty}
  BY <1>3 DEF TaskType
<1>9. CASE t.handler
  <2> DEFINE B == D \cup {s}
  <2>1. s \notin D /\ QueueOK(Tail(q.queue), B, asked)
    <3>1. \A x : x # t.service => (x \in B <=> x \in D)
      OBVIOUS
    <3>2. t.service \in B <=> t.handler
      BY <1>9
    <3> HIDE DEF B
    <3> QED BY <1>1, <1>2, <1>9, <3>1, <3>2, QueueTail DEF t
  <2>2. Good(q', B) /\ q'.queue = rest.queue /\ q'.switches = rest.switches
    <3>1. t.service \in Services \ D /\ q' = Register(rest, t.service, t.revision)
      BY <1>5, <1>8, <1>9, <2>1
    <3> QED BY <1>6, <1>8, <3>1, RegisterInv
  <2>3. B \in SUBSET Services
    BY <1>8
  <2> HIDE DEF B
  <2> QED BY <1>4, <1>6, <1>7, <2>1, <2>2, <2>3, CloseQuiet
<1>10. CASE ~t.handler
  <2> DEFINE B == D \ {s}
  <2>1. s \in D /\ QueueOK(Tail(q.queue), B, asked)
    <3>1. \A x : x # t.service => (x \in B <=> x \in D)
      OBVIOUS
    <3>2. t.service \in B <=> t.handler
      BY <1>10
    <3> HIDE DEF B
    <3> QED BY <1>1, <1>2, <1>10, <3>1, <3>2, QueueTail DEF t
  <2>2. Good(q', B) /\ q'.queue = rest.queue /\ q'.switches = rest.switches
    BY <1>5, <1>6, <1>10, <2>1, DeregisterInv
  <2>3. B \in SUBSET Services
    BY <1>8
  <2> HIDE DEF B
  <2> QED BY <1>4, <1>6, <1>7, <2>1, <2>2, <2>3, CloseQuiet
<1> QED BY <1>9, <1>10

(* Timers. *)
LEMMA TimingDiscoverInv ==
  ASSUME ConnectorInv, NEW s \in Services, TimingDiscover(s)
  PROVE  ConnectorInv' /\ q'.switches = q.switches
<1>1. PICK D \in SUBSET Services : Good(q, D) /\ QueueOK(q.queue, D, asked)
  BY DEF ConnectorInv
<1> DEFINE n == q.tasks[s].discover - 1
           ts == [q.tasks EXCEPT ![s].discover = n]
           ls == [q.listeners EXCEPT ![s].discover = FALSE]
           p == [q EXCEPT !.tasks = ts, !.listeners = ls]
<1>2. q \in ConnectorType(D) /\ q.listeners \in [D -> ListenerType]
      /\ q.tasks \in [Services -> [discover : Int, timeout : Int]] /\ n \in Int
  <2>1. q \in ConnectorType(D)
    BY <1>1 DEF Good
  <2>2. q.listeners \in [D -> ListenerType] /\ q.tasks \in [Services -> [discover : Int, timeout : Int]]
    BY <2>1 DEF ConnectorType
  <2> QED BY <2>1, <2>2
<1>3. WayOf(q, s, D) /\ q.tasks[s].discover > 0
  BY <1>1 DEF Good, Ways, TimingDiscover
<1>4. s \in D /\ n = 0 /\ q.tasks[s].timeout = 0 /\ s \notin q.pending /\ ~q.listeners[s].timeout
  BY <1>3 DEF WayOf, OneWay, NoWay, FlagsAgree
<1>5. q' = SendOrWait(p, s)
  BY <1>2 DEF TimingDiscover, ConnectorType
<1>6. /\ ts \in [Services -> [discover : Int, timeout : Int]]
      /\ \A t \in Services \ {s} : ts[t] = q.tasks[t]
      /\ ts[s].discover = n /\ ts[s].timeout = q.tasks[s].timeout
  BY <1>2, TasksSet
<1>7. /\ ls \in [D -> ListenerType] /\ \A t \in D \ {s} : ls[t] = q.listeners[t]
      /\ ~ls[s].discover /\ ls[s].timeout = q.listeners[s].timeout
  <2>1. \A f \in [D -> ListenerType] :
          LET g == [f EXCEPT ![s].discover = FALSE]
          IN /\ g \in [D -> ListenerType] /\ \A t \in D \ {s} : g[t] = f[t]
             /\ ~g[s].discover /\ g[s].timeout = f[s].timeout
    BY <1>4, ListenersSet
  <2> QED BY <1>2, <2>1
<1> HIDE DEF ts, ls, n
<1>8. /\ p \in ConnectorType(D) /\ SameServer(p, q) /\ p.listeners = ls /\ p.tasks = ts /\ p.pending = q.pending
      /\ p.sent = q.sent /\ p.stream_state = q.stream_state
  BY <1>2, <1>6, <1>7 DEF ConnectorType, SameServer
<1> HIDE DEF p
<1>9. StreamOK(p)
  BY <1>1, <1>8 DEF Good, StreamOK, SameServer
<1>10. Free(p, s)
  BY <1>4, <1>6, <1>7, <1>8 DEF Free, NoWay
<1>11. ASSUME NEW t \in Services \ {s} PROVE WayOf(p, t, D)
  <2>1. WayOf(q, t, D)
    BY <1>1 DEF Good, Ways
  <2> QED BY <1>6, <1>7, <1>8, <1>11, <2>1 DEF WayOf, OneWay, NoWay, FlagsAgree
<1>12. q' \in ConnectorType(D) /\ Ways(q', D) /\ StreamOK(q') /\ q'.queue = p.queue /\ q'.switches = p.switches
  BY <1>4, <1>5, <1>8, <1>9, <1>10, <1>11, SendOrWaitInv
<1>13. Good(q', D) /\ QueueOK(q'.queue, D, asked) /\ q'.switches = q.switches
  BY <1>1, <1>8, <1>12 DEF Good, SameServer
<1>14. UNCHANGED <<setup, server, files, asked, moves, calls>> /\ faults' \in Nat
  BY DEF TimingDiscover, Quiet, ConnectorInv
<1> QED BY <1>13, <1>14, CloseQuiet

LEMMA TimeoutCheckInv ==
  ASSUME ConnectorInv, NEW s \in Services, DiscoverTimoutCheck(s)
  PROVE  ConnectorInv' /\ (q'.switches > q.switches => q.switch_state \in {"Init", "Default"})
<1>1. PICK D \in SUBSET Services : Good(q, D) /\ QueueOK(q.queue, D, asked)
  BY DEF ConnectorInv
<1> DEFINE n == q.tasks[s].timeout - 1
           ts == [q.tasks EXCEPT ![s].timeout = n]
           ls == [q.listeners EXCEPT ![s].timeout = FALSE]
           pe == q.pending \cup {s}
           p == [q EXCEPT !.tasks = ts, !.listeners = ls, !.pending = pe]
           cost == IF q.sent[s] = <<>> THEN 0 ELSE 1
<1>2. q \in ConnectorType(D) /\ q.listeners \in [D -> ListenerType]
      /\ q.tasks \in [Services -> [discover : Int, timeout : Int]] /\ n \in Int /\ q.pending \in SUBSET D
  <2>1. q \in ConnectorType(D)
    BY <1>1 DEF Good
  <2>2. q.listeners \in [D -> ListenerType] /\ q.tasks \in [Services -> [discover : Int, timeout : Int]]
        /\ q.pending \in SUBSET D
    BY <2>1 DEF ConnectorType
  <2> QED BY <2>1, <2>2
<1>3. WayOf(q, s, D) /\ q.tasks[s].timeout > 0
  BY <1>1 DEF Good, Ways, DiscoverTimoutCheck
<1>4. s \in D /\ n = 0 /\ q.tasks[s].discover = 0 /\ s \notin q.pending /\ ~q.listeners[s].discover
  BY <1>3 DEF WayOf, OneWay, NoWay, FlagsAgree
<1>5. Switch(p, cost)
  BY <1>2 DEF DiscoverTimoutCheck, ConnectorType
<1>6. /\ ts \in [Services -> [discover : Int, timeout : Int]]
      /\ \A t \in Services \ {s} : ts[t] = q.tasks[t]
      /\ ts[s].timeout = n /\ ts[s].discover = q.tasks[s].discover
  BY <1>2, TasksSet
<1>7. /\ ls \in [D -> ListenerType] /\ \A t \in D \ {s} : ls[t] = q.listeners[t]
      /\ ~ls[s].timeout /\ ls[s].discover = q.listeners[s].discover
  <2>1. \A f \in [D -> ListenerType] :
          LET g == [f EXCEPT ![s].timeout = FALSE]
          IN /\ g \in [D -> ListenerType] /\ \A t \in D \ {s} : g[t] = f[t]
             /\ ~g[s].timeout /\ g[s].discover = f[s].discover
    BY <1>4, ListenersSet
  <2> QED BY <1>2, <2>1
<1>a. cost \in 0 .. 1 /\ pe \in SUBSET D
  BY <1>2, <1>4
<1> HIDE DEF ts, ls, n, cost, pe
<1>8. /\ p \in ConnectorType(D) /\ SameServer(p, q) /\ p.listeners = ls /\ p.tasks = ts /\ p.pending = pe
  BY <1>2, <1>6, <1>7, <1>a DEF ConnectorType, SameServer
<1> HIDE DEF p
<1>9. ASSUME NEW t \in Services \ {s} PROVE WayOf(p, t, D)
  <2>1. WayOf(q, t, D) /\ (t \in pe <=> t \in q.pending)
    BY <1>1, <1>9 DEF Good, Ways, pe
  <2> QED BY <1>6, <1>7, <1>8, <1>9, <2>1 DEF WayOf, OneWay, NoWay, FlagsAgree
<1>10. WayOf(p, s, D)
  BY <1>4, <1>6, <1>7, <1>8 DEF WayOf, OneWay, FlagsAgree, pe
<1>11. Ways(p, D)
  BY <1>9, <1>10 DEF Ways
<1>12. /\ ~p.fault /\ p.switches = q.switches /\ p.switch_state = q.switch_state /\ p.switches >= 0
       /\ p.switch_state \in {"Normal", "Begin"} => p.switches > 0
       /\ QueueOK(p.queue, D, asked)
       /\ q.switch_state \in {"Init", "Begin", "Normal", "Default"}
  BY <1>1, <1>8 DEF Good, StreamOK, SameServer
<1>13. q.switches \in Int
  BY <1>2 DEF ConnectorType
<1> QED BY <1>5, <1>8, <1>11, <1>12, <1>13, <1>a, CloseSwitch

(* A switch from the state as it is. *)
LEMMA SwitchNowInv ==
  ASSUME ConnectorInv, NEW cost \in 0 .. 1, Switch(q, cost)
  PROVE  ConnectorInv' /\ (q'.switches > q.switches => q.switch_state \in {"Init", "Default"})
<1>1. PICK D \in SUBSET Services : Good(q, D) /\ QueueOK(q.queue, D, asked)
  BY DEF ConnectorInv
<1>2. /\ q \in ConnectorType(D) /\ Ways(q, D) /\ ~q.fault /\ q.switches >= 0
      /\ q.switch_state \in {"Normal", "Begin"} => q.switches > 0
      /\ q.switch_state \in {"Init", "Begin", "Normal", "Default"}
  BY <1>1 DEF Good, StreamOK
<1>3. q.switches \in Int
  BY <1>2 DEF ConnectorType
<1> QED BY <1>1, <1>2, <1>3, CloseSwitch

(* An answer is taken off the stream: there is one, and its client is connected. *)
LEMMA ReceiveInv ==
  ASSUME NEW D \in SUBSET Services, Good(q, D), NEW s \in Services, q.sent[s] # <<>>
  PROVE  LET r == Receive(q, s)
         IN /\ Good(r, D) /\ r.queue = q.queue /\ r.switches = q.switches /\ r.switch_state = q.switch_state
            /\ r.client # NULL /\ r.client.state = "connected"
<1> DEFINE r == Receive(q, s)
           sent == [q.sent EXCEPT ![s] = Tail(q.sent[s])]
<1>1. q \in ConnectorType(D) /\ StreamOK(q) /\ Ways(q, D)
  BY DEF Good
<1>2. q.sent \in [Services -> Seq(Revisions \cup {Empty})]
  BY <1>1 DEF ConnectorType
<1>3. Tail(q.sent[s]) \in Seq(Revisions \cup {Empty})
  BY <1>2, HeadTailProperties
<1>4. sent \in [Services -> Seq(Revisions \cup {Empty})] /\ \A t \in Services \ {s} : sent[t] = q.sent[t]
  BY <1>2, <1>3
<1>5. r = [q EXCEPT !.sent = sent]
  BY <1>1 DEF Receive, ConnectorType
<1> HIDE DEF sent, r
<1>6. /\ r \in ConnectorType(D) /\ SameServer(r, q) /\ r.listeners = q.listeners /\ r.tasks = q.tasks
      /\ r.pending = q.pending /\ r.sent = sent /\ r.stream_state = q.stream_state
  BY <1>1, <1>4, <1>5 DEF ConnectorType, SameServer
<1>7. q.stream /\ q.client # NULL /\ q.client.state = "connected"
      /\ (discover_service # NULL /\ q.client.at = "seed" => s = discover_service)
  BY <1>1 DEF StreamOK
<1>8. StreamOK(r)
  BY <1>1, <1>4, <1>6, <1>7 DEF StreamOK, SameServer
<1>9. Ways(r, D)
  BY <1>1, <1>6 DEF Ways, WayOf, OneWay, NoWay, FlagsAgree
<1> QED BY <1>6, <1>7, <1>8, <1>9 DEF Good, SameServer, r

LEMMA ReceiveMessageInv ==
  ASSUME ConnectorInv, NEW s \in Services, OnReceiveMessage(s)
  PROVE  ConnectorInv' /\ q'.switches = q.switches
<1>1. PICK D \in SUBSET Services : Good(q, D) /\ QueueOK(q.queue, D, asked)
  BY DEF ConnectorInv
<1> DEFINE p == Receive(q, s)
           code == Code(s, Head(q.sent[s]))
<1>2. /\ Good(p, D) /\ p.queue = q.queue /\ p.switches = q.switches
      /\ p.client # NULL /\ p.client.state = "connected"
  BY <1>1, ReceiveInv DEF OnReceiveMessage
<1>3. q' = ProcessDiscoverResponse(p, s, code)
  BY DEF OnReceiveMessage
<1>4. /\ code \in {"DataNoChange", "ExecuteSuccess", "NotFound"} /\ server[s] \in Revisions \cup {NotFound}
      /\ code = "ExecuteSuccess" => server[s] \in Revisions
  BY DEF Code, ConnectorInv, NotFound
<1> HIDE DEF p, code
<1>5. q' \in ConnectorType(D) /\ Ways(q', D) /\ StreamOK(q') /\ q'.queue = p.queue /\ q'.switches = p.switches
  BY <1>2, <1>3, <1>4, ResponseInv DEF Good
<1>6. Good(q', D) /\ QueueOK(q'.queue, D, asked) /\ q'.switches = q.switches
  BY <1>1, <1>2, <1>5 DEF Good
<1>7. UNCHANGED <<setup, server, files, asked, moves, calls>> /\ faults' \in Nat
  BY DEF OnReceiveMessage, Quiet, ConnectorInv
<1> QED BY <1>6, <1>7, CloseQuiet

LEMMA ReceiveInvalidInv ==
  ASSUME ConnectorInv, NEW s \in Services, OnReceiveInvalid(s)
  PROVE  ConnectorInv' /\ q'.switches = q.switches
<1>1. PICK D \in SUBSET Services : Good(q, D) /\ QueueOK(q.queue, D, asked)
  BY DEF ConnectorInv
<1>2. Good(q', D) /\ QueueOK(q'.queue, D, asked) /\ q'.switches = q.switches
  BY <1>1, ReceiveInv DEF OnReceiveInvalid
<1>3. UNCHANGED <<setup, server, files, asked, moves, calls>> /\ faults' \in Nat
  BY DEF OnReceiveInvalid, Fault, ConnectorInv
<1> QED BY <1>2, <1>3, CloseQuiet

LEMMA ReceiveErrorInv ==
  ASSUME ConnectorInv, NEW s \in Services, OnReceiveServerError(s)
  PROVE  ConnectorInv' /\ (q'.switches > q.switches => q.switch_state \in {"Init", "Default"})
<1>1. PICK D \in SUBSET Services : Good(q, D) /\ QueueOK(q.queue, D, asked)
  BY DEF ConnectorInv
<1> DEFINE p == Receive(q, s)
<1>2. Good(p, D) /\ p.queue = q.queue /\ p.switches = q.switches /\ p.switch_state = q.switch_state
  BY <1>1, ReceiveInv DEF OnReceiveServerError
<1>3. Switch(p, 1)
  BY DEF OnReceiveServerError
<1> HIDE DEF p
<1>4. /\ p \in ConnectorType(D) /\ Ways(p, D) /\ ~p.fault /\ p.switches >= 0
      /\ p.switch_state \in {"Normal", "Begin"} => p.switches > 0
      /\ p.switch_state \in {"Init", "Begin", "Normal", "Default"} /\ QueueOK(p.queue, D, asked)
  BY <1>1, <1>2 DEF Good, StreamOK
<1>5. p.switches \in Int
  BY <1>4 DEF ConnectorType
<1> QED BY <1>2, <1>3, <1>4, <1>5, CloseSwitch

(* The timer of the switch replaces itself. *)
LEMMA TimingSwitchInv ==
  ASSUME ConnectorInv, TimingServerSwitch
  PROVE  ConnectorInv' /\ q'.switches = q.switches
<1>1. PICK D \in SUBSET Services : Good(q, D) /\ QueueOK(q.queue, D, asked)
  BY DEF ConnectorInv
<1> DEFINE n == q.switches - 1
           state == IF q.switch_state = "Begin" THEN "Timeout" ELSE "Periodic"
           cost == IF q.switch_state = "Default" \/ q.client.state = "failed" THEN 0 ELSE 1
           p == [q EXCEPT !.switches = n, !.switch_state = state]
<1>2. q \in ConnectorType(D) /\ Ways(q, D) /\ ~q.fault
  BY <1>1 DEF Good, StreamOK
<1>3. q.switches > 0 /\ Switch(p, cost)
  BY <1>2 DEF TimingServerSwitch, ConnectorType
<1>4. q.switches \in Int /\ n \in Int /\ n >= 0 /\ state \in {"Timeout", "Periodic"} /\ cost \in 0 .. 1
  BY <1>2, <1>3 DEF ConnectorType
<1> HIDE DEF n, state, cost
<1>5. /\ p \in ConnectorType(D) /\ p.switches = n /\ p.switch_state = state /\ p.queue = q.queue
      /\ p.fault = q.fault /\ p.tasks = q.tasks /\ p.listeners = q.listeners /\ p.pending = q.pending
  BY <1>2, <1>4 DEF ConnectorType
<1> HIDE DEF p
<1>6. Ways(p, D)
  BY <1>2, <1>5 DEF Ways, WayOf, OneWay, NoWay, FlagsAgree
<1>7. ConnectorInv' /\ q'.switches = p.switches + 1
  BY <1>1, <1>2, <1>3, <1>4, <1>5, <1>6, CloseSwitch
<1> QED BY <1>4, <1>5, <1>7 DEF n

(* The end of a connect. *)
LEMMA ClientSet ==
  ASSUME NEW c \in ClientType, NEW state \in {"failed", "connected"}
  PROVE  LET d == [c EXCEPT !.state = state, !.callback = FALSE]
             e == [c EXCEPT !.state = state]
         IN /\ d \in ClientType /\ d.state = state /\ ~d.callback /\ d.at = c.at /\ d # NULL
            /\ e \in ClientType /\ e.callback = c.callback /\ e # NULL
<1> DEFINE d == [c EXCEPT !.state = state, !.callback = FALSE]
           e == [c EXCEPT !.state = state]
<1>1. d \in ClientType /\ d.state = state /\ ~d.callback /\ d.at = c.at
  BY DEF ClientType
<1>2. e \in ClientType /\ e.callback = c.callback
  BY DEF ClientType
<1>3. NULL \notin ClientType
  BY ConstantsAssumption
<1> HIDE DEF d, e
<1>4. d # NULL /\ e # NULL
  BY <1>1, <1>2, <1>3
<1> QED BY <1>1, <1>2, <1>4 DEF d, e

(* The connect of the client succeeds or fails. *)
LEMMA ClientConnects ==
  ASSUME NEW D \in SUBSET Services, Good(q, D), q.client # NULL, q.client.state = "connecting",
         NEW state \in {"failed", "connected"}
  PROVE  LET p == [q EXCEPT !.client.state = state, !.client.callback = FALSE]
         IN /\ Good(p, D) /\ p.client # NULL /\ ~p.stream /\ p.switch_state = "Begin" /\ p.client.state = state
            /\ p.queue = q.queue /\ p.switches = q.switches
<1> DEFINE c == [q.client EXCEPT !.state = state, !.callback = FALSE]
           p == [q EXCEPT !.client.state = state, !.client.callback = FALSE]
<1>1. q \in ConnectorType(D) /\ Ways(q, D) /\ StreamOK(q)
  BY DEF Good
<1>2. q.client \in ClientType
  BY <1>1 DEF ConnectorType
<1>3. c \in ClientType /\ c.state = state /\ c.at = q.client.at /\ c # NULL
  BY <1>2, ClientSet
<1>4. p = [q EXCEPT !.client = c]
  BY <1>1 DEF ConnectorType
<1>5. ~q.stream /\ q.switch_state = "Begin" /\ q.switches > 0
  BY <1>1 DEF StreamOK
<1> HIDE DEF c, p
<1>6. /\ p \in ConnectorType(D) /\ p.queue = q.queue /\ p.switches = q.switches /\ p.switch_state = q.switch_state
      /\ p.client = c /\ p.dying = q.dying /\ p.stream = q.stream /\ p.fault = q.fault
      /\ p.listeners = q.listeners /\ p.tasks = q.tasks
      /\ p.pending = q.pending /\ p.sent = q.sent /\ p.stream_state = q.stream_state
  BY <1>1, <1>3, <1>4 DEF ConnectorType
<1>7. Ways(p, D)
  BY <1>1, <1>6 DEF Ways, WayOf, OneWay, NoWay, FlagsAgree
<1>8. StreamOK(p)
  BY <1>1, <1>3, <1>5, <1>6 DEF StreamOK
<1> QED BY <1>3, <1>5, <1>6, <1>7, <1>8 DEF Good, p

LEMMA ConnectedInv ==
  ASSUME ConnectorInv, Connected
  PROVE  ConnectorInv' /\ q'.switches = q.switches
<1>1. PICK D \in SUBSET Services : Good(q, D) /\ QueueOK(q.queue, D, asked)
  BY DEF ConnectorInv
<1> DEFINE p == [q EXCEPT !.client.state = "connected", !.client.callback = FALSE]
<1>2. /\ Good(p, D) /\ p.client # NULL /\ ~p.stream /\ p.switch_state = "Begin" /\ p.client.state = "connected"
      /\ p.queue = q.queue /\ p.switches = q.switches
  BY <1>1, ClientConnects DEF Connected, Running
<1>3. q' = OnDiscoverConnect(p)
  BY DEF Connected
<1> HIDE DEF p
<1>4. Good(q', D) /\ QueueOK(q'.queue, D, asked) /\ q'.switches = q.switches
  BY <1>1, <1>2, <1>3, OnDiscoverConnectInv DEF Good
<1>5. UNCHANGED <<setup, server, files, asked, moves, calls>> /\ faults' \in Nat
  BY DEF Connected, Quiet, ConnectorInv
<1> QED BY <1>4, <1>5, CloseQuiet

LEMMA ConnectFailedInv ==
  ASSUME ConnectorInv, ConnectFailed
  PROVE  ConnectorInv' /\ q'.switches = q.switches
<1>1. PICK D \in SUBSET Services : Good(q, D) /\ QueueOK(q.queue, D, asked)
  BY DEF ConnectorInv
<1>2. Good(q', D) /\ q'.queue = q.queue /\ q'.switches = q.switches
  BY <1>1, ClientConnects DEF ConnectFailed, Running
<1>3. UNCHANGED <<setup, server, files, asked, moves, calls>> /\ faults' \in Nat
  BY DEF ConnectFailed, Fault, ConnectorInv
<1> QED BY <1>1, <1>2, <1>3, CloseQuiet

(* A client that waits to be deleted calls nobody back. *)
LEMMA DyingInv ==
  ASSUME ConnectorInv, DyingConnected \/ DeferDelete
  PROVE  ConnectorInv' /\ q'.switches = q.switches
<1>1. PICK D \in SUBSET Services : Good(q, D) /\ QueueOK(q.queue, D, asked)
  BY DEF ConnectorInv
<1>2. q \in ConnectorType(D) /\ Ways(q, D) /\ StreamOK(q)
  BY <1>1 DEF Good
<1>3. q.dying # NULL /\ q.dying \in ClientType /\ ~q.dying.callback
  BY <1>2 DEF ConnectorType, DyingConnected, DeferDelete, StreamOK
<1> DEFINE e == [q.dying EXCEPT !.state = "connected"]
<1>4. e \in ClientType /\ ~e.callback /\ e # NULL
  BY <1>3, ClientSet
<1>5. q' = [q EXCEPT !.dying = e] \/ q' = [q EXCEPT !.dying = NULL]
  BY <1>2, <1>3 DEF DyingConnected, DeferDelete, ConnectorType
<1> HIDE DEF e
<1>6. /\ q' \in ConnectorType(D) /\ q'.queue = q.queue /\ q'.switches = q.switches /\ q'.switch_state = q.switch_state
      /\ q'.client = q.client /\ (q'.dying # NULL => ~q'.dying.callback) /\ q'.stream = q.stream /\ q'.fault = q.fault
      /\ q'.listeners = q.listeners /\ q'.tasks = q.tasks
      /\ q'.pending = q.pending /\ q'.sent = q.sent /\ q'.stream_state = q.stream_state
  BY <1>2, <1>4, <1>5 DEF ConnectorType
<1>7. Ways(q', D)
  BY <1>2, <1>6 DEF Ways, WayOf, OneWay, NoWay, FlagsAgree
<1>8. StreamOK(q')
  BY <1>2, <1>6 DEF StreamOK
<1>9. UNCHANGED <<setup, server, files, asked, moves, calls>> /\ faults' \in Nat
  BY DEF DyingConnected, DeferDelete, Quiet, ConnectorInv
<1>10. Good(q', D) /\ QueueOK(q'.queue, D, asked)
  BY <1>1, <1>6, <1>7, <1>8 DEF Good
<1> QED BY <1>6, <1>9, <1>10, CloseQuiet

LEMMA ChangeInv ==
  ASSUME ConnectorInv, NEW s \in Services, Change(s)
  PROVE  ConnectorInv' /\ q' = q
<1>1. PICK D \in SUBSET Services : Good(q, D) /\ QueueOK(q.queue, D, asked)
  BY DEF ConnectorInv
<1>2. server' \in [Services -> Revisions \cup {NotFound}] /\ moves' \in Nat
      /\ UNCHANGED <<setup, q, files, asked, faults, calls>>
  BY DEF Change, ConnectorInv
<1> QED BY <1>1, <1>2, Close DEF ConnectorInv

(* Every step keeps the invariant and adds a switch timer only as OneMoreSwitch says. *)
LEMMA ConnectorStep ==
  ASSUME ConnectorInv, Next
  PROVE  ConnectorInv' /\ OneMoreSwitch
<1>0. q.switches \in Int
  BY DEF ConnectorInv, Good, ConnectorType
<1>1. ASSUME ConnectorInv', q'.switches = q.switches PROVE ConnectorInv' /\ OneMoreSwitch
  BY <1>0, <1>1 DEF OneMoreSwitch
<1>2. CASE Start
  <2>1. Switch(q, 0) /\ 0 \in 0 .. 1
    BY <1>2 DEF Start
  <2> QED BY <2>1, SwitchNowInv DEF OneMoreSwitch
<1>3. CASE OnRemoteClose
  <2>1. Switch(q, 1) /\ 1 \in 0 .. 1
    BY <1>3 DEF OnRemoteClose
  <2> QED BY <2>1, SwitchNowInv DEF OneMoreSwitch
<1>4. CASE ProcessQueuedListener \/ TimingServerSwitch \/ Connected \/ ConnectFailed \/ DyingConnected \/ DeferDelete
  BY <1>1, <1>4, ProcessQueuedInv, TimingSwitchInv, ConnectedInv, ConnectFailedInv, DyingInv
<1>5. ASSUME NEW s \in Services, DiscoverTimoutCheck(s) \/ OnReceiveServerError(s)
      PROVE  ConnectorInv' /\ OneMoreSwitch
  BY <1>5, TimeoutCheckInv, ReceiveErrorInv DEF OneMoreSwitch
<1>6. ASSUME NEW s \in Services,
             RegisterEventHandler(s) \/ DeregisterEventHandler(s) \/ Change(s) \/ TimingDiscover(s)
               \/ OnReceiveMessage(s) \/ OnReceiveInvalid(s)
      PROVE  ConnectorInv' /\ OneMoreSwitch
  BY <1>1, <1>6, RegisterCallInv, DeregisterCallInv, ChangeInv, TimingDiscoverInv, ReceiveMessageInv, ReceiveInvalidInv
<1> QED
  BY <1>2, <1>3, <1>4, <1>5, <1>6 DEF Next

LEMMA ConnectorStutter ==
  ASSUME ConnectorInv, UNCHANGED vars
  PROVE  ConnectorInv' /\ OneMoreSwitch
<1>0. q.switches \in Int
  BY DEF ConnectorInv, Good, ConnectorType
<1>1. PICK D \in SUBSET Services : Good(q, D) /\ QueueOK(q.queue, D, asked)
  BY DEF ConnectorInv
<1> QED BY <1>0, <1>1, Close DEF vars, ConnectorInv, OneMoreSwitch

(* The invariant gives the properties. *)
LEMMA ConnectorSafe ==
  ConnectorInv => TypeOK /\ OneWayForward /\ AssertsHold /\ SeedServesDiscoverOnly /\ SwitchPending
<1> SUFFICES ASSUME ConnectorInv
             PROVE  TypeOK /\ OneWayForward /\ AssertsHold /\ SeedServesDiscoverOnly /\ SwitchPending
  OBVIOUS
<1>1. PICK D \in SUBSET Services : Good(q, D)
  BY DEF ConnectorInv
<1>2. q \in ConnectorType(D) /\ Ways(q, D) /\ StreamOK(q) /\ Registered(q) = D
  BY <1>1 DEF Good, ConnectorType, Registered
<1>3. AssertsHold /\ SeedServesDiscoverOnly /\ SwitchPending
  BY <1>2 DEF StreamOK, AssertsHold, SeedServesDiscoverOnly, SwitchPending
<1>4. OneWayForward
  <2> SUFFICES ASSUME NEW s \in Services
               PROVE  LET next == q.tasks[s].discover + q.tasks[s].timeout + (IF s \in q.pending THEN 1 ELSE 0)
                      IN IF s \in D
                         THEN /\ next = 1
                              /\ q.listeners[s].discover <=> q.tasks[s].discover = 1
                              /\ q.listeners[s].timeout <=> q.tasks[s].timeout = 1
                         ELSE next = 0
    BY <1>2 DEF OneWayForward
  <2>1. WayOf(q, s, D)
    BY <1>2 DEF Ways
  <2> QED BY <2>1 DEF WayOf, OneWay, NoWay, FlagsAgree
<1>5. TypeOK
  <2>1. q.tasks \in [Services -> [discover : 0 .. 1, timeout : 0 .. 1]]
    <3>1. q.tasks \in [Services -> [discover : Int, timeout : Int]]
      BY <1>2 DEF ConnectorType
    <3>2. \A s \in Services : q.tasks[s].discover \in 0 .. 1 /\ q.tasks[s].timeout \in 0 .. 1
      BY <1>2 DEF Ways, WayOf, OneWay, NoWay
    <3> QED BY <3>1, <3>2
  <2>2. \A s \in D : q.listeners[s] \in ListenerType
    BY <1>2 DEF ConnectorType
  <2>3. q.pending \subseteq D /\ q.switches \in Nat /\ q.stream_state \in {"NotInit", "GetInstance", "Init"}
        /\ q.switch_state \in {"Init", "Begin", "Normal", "Default"}
        /\ q.client \in ClientType \cup {NULL} /\ q.dying \in ClientType \cup {NULL} /\ q.stream \in BOOLEAN
        /\ \A s \in Services : q.data[s] \in DataType
    BY <1>2 DEF ConnectorType, StreamOK
  <2> QED BY <1>2, <2>1, <2>2, <2>3 DEF TypeOK, ConnectorInv, ListenerType, DataType
<1> QED BY <1>3, <1>4, <1>5

-----------------------------------------------------------------------------
(* The queries: InstancesFutureProof for the three setups of MCDiscovery. *)

QueryProof == INSTANCE InstancesFutureProof WITH Setups <- {Other, Same, Two}

(* The definitions of Query and of QueryProof are the same ones. *)
LEMMA SameKeys == Query!Wanted = QueryProof!Wanted /\ \A k : Query!Key(k) = QueryProof!Key(k)
BY DEF Query!Key, QueryProof!Key, Query!Wanted, QueryProof!Wanted

LEMMA SameInit == Query!Init = QueryProof!Init
BY DEF Query!Init, QueryProof!Init, Query!Key, QueryProof!Key, Query!Wanted, QueryProof!Wanted

LEMMA SameReady == ASSUME NEW fu PROVE \A d : Query!IsDataReady(fu, d) = QueryProof!IsDataReady(fu, d)
BY DEF Query!IsDataReady, QueryProof!IsDataReady

LEMMA SameCheck == ASSUME NEW fu PROVE Query!CheckReady(fu) = QueryProof!CheckReady(fu)
BY SameReady DEF Query!CheckReady, QueryProof!CheckReady,
   Query!WaitData, QueryProof!WaitData, Query!Key, QueryProof!Key, Query!Kinds, QueryProof!Kinds, Query!Min, QueryProof!Min

LEMMA SameGet == ASSUME NEW fu PROVE Query!Get(fu) = QueryProof!Get(fu)
BY SameReady, SameCheck DEF Query!Get, QueryProof!Get, Query!SetDataToRouteInfo, QueryProof!SetDataToRouteInfo

LEMMA SameNext == Query!Next = QueryProof!Next
<1>1. \A f : Query!AsyncGetInstances(f) = QueryProof!AsyncGetInstances(f)
  BY SameKeys DEF Query!AsyncGetInstances, QueryProof!AsyncGetInstances, Query!Future, QueryProof!Future
<1>2. \A f : Query!SetServiceCacheNotify(f) = QueryProof!SetServiceCacheNotify(f)
  BY SameCheck, SameGet DEF Query!SetServiceCacheNotify, QueryProof!SetServiceCacheNotify, Query!Release, QueryProof!Release
<1>3. \A f : Query!ServiceCacheTimeout(f) = QueryProof!ServiceCacheTimeout(f)
  BY SameKeys DEF Query!ServiceCacheTimeout, QueryProof!ServiceCacheTimeout, Query!Release, QueryProof!Release,
    Query!RemoveTimeoutWatcher, QueryProof!RemoveTimeoutWatcher, Query!Cardinality, QueryProof!Cardinality
<1>4. \A k : Query!UpdateServiceData(k) = QueryProof!UpdateServiceData(k) /\ Query!Notify(k) = QueryProof!Notify(k)
  BY DEF Query!UpdateServiceData, QueryProof!UpdateServiceData, Query!Notify, QueryProof!Notify
<1>5. Query!AddTimeoutWatcher = QueryProof!AddTimeoutWatcher
  BY SameKeys, SameReady, SameGet DEF Query!Cardinality, QueryProof!Cardinality, Query!AddTimeoutWatcher, QueryProof!AddTimeoutWatcher, Query!Release, QueryProof!Release
<1>6. Query!OnServiceDataChange = QueryProof!OnServiceDataChange
  BY SameGet DEF Query!OnServiceDataChange, QueryProof!OnServiceDataChange, Query!Release, QueryProof!Release,
   Query!NotifyReady, QueryProof!NotifyReady
<1> QED
  BY <1>1, <1>2, <1>3, <1>4, <1>5, <1>6 DEF Query!Next, QueryProof!Next, Query!Cache, QueryProof!Cache

(* The facts of InstancesFutureProof, about Query. *)
LEMMA QueryInit == Query!Init => QueryProof!QueryInv
BY SameInit, QueryProof!InitInv DEF QueryProof!InitInv

LEMMA QueryNext == ASSUME QueryProof!NullIsNoObject, QueryProof!QueryInv, Query!Next PROVE QueryProof!QueryInv'
BY SameNext, QueryProof!NextInv DEF QueryProof!NextInv

LEMMA QueryStutter == ASSUME QueryProof!NullIsNoObject, QueryProof!QueryInv, UNCHANGED <<setup, queryVars>> PROVE QueryProof!QueryInv'
<1>1. UNCHANGED QueryProof!vars 
  BY DEF queryVars, QueryProof!vars
<1> QED BY <1>1, QueryProof!NextInv DEF QueryProof!NextInv

LEMMA QuerySound == QueryProof!QueryInv => Query!WatcherSound
BY QueryProof!InvIsSound DEF Query!Cardinality, QueryProof!Cardinality, QueryProof!InvIsSound, Query!WatcherSound, QueryProof!WatcherSound

-----------------------------------------------------------------------------
(* The theorems *)

discoveryVars == <<part, vars, queryVars, requestVars>>

LEMMA DiscoveryInitInv == DiscoveryInit => (InConnector => ConnectorInv)
BY InitConnector DEF DiscoveryInit, InConnector

LEMMA DiscoveryStep ==
  ASSUME InConnector => ConnectorInv, [DiscoveryNext]_discoveryVars
  PROVE  /\ (InConnector => ConnectorInv)'
         /\ InConnector => OneMoreSwitch
<1>1. CASE part = "connector" /\ Next /\ UNCHANGED <<part, queryVars, requestVars>>
  BY <1>1, ConnectorStep DEF InConnector
<1>2. CASE part # "connector" /\ UNCHANGED part
  BY <1>2 DEF InConnector
<1>3. CASE part = "connector" /\ UNCHANGED discoveryVars
  BY <1>3, ConnectorStutter DEF InConnector, discoveryVars
<1> QED
  BY <1>1, <1>2, <1>3 DEF DiscoveryNext, discoveryVars

(* ListenersServed for any services, revisions and configurations: each    *)
(* listener of the connector is in exactly one of a timer, a timeout check *)
(* and pending_for_connected_, POLARIS_ASSERT holds in                     *)
(* ProcessQueuedListener and OnDiscoverConnect, and a seed server is asked *)
(* for the discover service only.                                          *)
THEOREM ListenersAlwaysServed == DiscoverySpec => []ListenersServed
<1>1. (InConnector => ConnectorInv) /\ [DiscoveryNext]_discoveryVars => (InConnector => ConnectorInv)'
  BY DiscoveryStep
<1>2. (InConnector => ConnectorInv) => ListenersServed
  BY ConnectorSafe DEF ListenersServed
<1> QED
  BY <1>1, <1>2, DiscoveryInitInv, PTL DEF DiscoverySpec, discoveryVars

(* ServerSwitches for any services, revisions and configurations: once     *)
(* ServerSwitch has run a TimingServerSwitch is always there, and only the *)
(* start and an error in state kServerSwitchDefault add one.               *)
THEOREM SwitchAlwaysPending == DiscoverySpec => ServerSwitches
<1>1. (InConnector => ConnectorInv) /\ [DiscoveryNext]_discoveryVars => (InConnector => ConnectorInv)'
  BY DiscoveryStep
<1>2. (InConnector => ConnectorInv) /\ [DiscoveryNext]_discoveryVars => [InConnector => OneMoreSwitch]_vars
  BY DiscoveryStep
<1>3. (InConnector => ConnectorInv) => (InConnector => SwitchPending)
  BY ConnectorSafe
<1> QED
  BY <1>1, <1>2, <1>3, DiscoveryInitInv, PTL DEF DiscoverySpec, discoveryVars, ServerSwitches

(* TypeOK of ServerConnector for any services, revisions and               *)
(* configurations: timers are counted exactly, never below zero and never  *)
(* two of a kind for a service.                                            *)
THEOREM ConnectorTypeCorrect == Spec => []TypeOK
<1>1. ConnectorInv /\ [Next]_vars => ConnectorInv'
  BY ConnectorStep, ConnectorStutter
<1>2. ConnectorInv => TypeOK
  BY ConnectorSafe
<1> QED
  BY <1>1, <1>2, InitConnector, PTL DEF Spec

(* WatcherSound of the run: a watcher that is alive holds a reference for  *)
(* each kind of data it waits for and has a timer, no set of the cache     *)
(* manager lists one that is gone, and the future outlives the watcher.    *)
THEOREM WatchersAlwaysSound ==
  ASSUME QueryProof!NullIsNoObject
  PROVE  DiscoverySpec => []WatcherSound
<1> DEFINE Inv == part = "query" => QueryProof!QueryInv
<1>1. DiscoveryInit => Inv
  BY QueryInit DEF DiscoveryInit
<1>2. Inv /\ [DiscoveryNext]_discoveryVars => Inv'
  <2> SUFFICES ASSUME Inv, [DiscoveryNext]_discoveryVars PROVE Inv'
    OBVIOUS
  <2>1. CASE part = "query" /\ Query!Next /\ UNCHANGED part
    BY <2>1, QueryNext
  <2>2. CASE part # "query" /\ UNCHANGED part
    BY <2>2
  <2>3. CASE part = "query" /\ UNCHANGED discoveryVars
    <3>1. UNCHANGED <<setup, queryVars>>
      BY <2>3 DEF discoveryVars, vars
    <3> QED BY <2>3, <3>1, QueryStutter
  <2> QED
    BY <2>1, <2>2, <2>3 DEF DiscoveryNext, discoveryVars
<1>3. Inv => WatcherSound
  BY QuerySound DEF WatcherSound
<1> QED
  BY <1>1, <1>2, <1>3, PTL DEF DiscoverySpec, discoveryVars
=============================================================================
