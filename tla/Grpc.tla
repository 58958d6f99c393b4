-------------------------------- MODULE Grpc --------------------------------
(***************************************************************************)
(* A gRPC client on one HTTP/2 connection (polaris/network/grpc) in the    *)
(* thread of its reactor.  Each RPC is two objects: the GrpcStream (or     *)
(* GrpcRequest) the caller holds, and the Http2Stream the nghttp2 session  *)
(* points to.  They end at different times and are deleted by tasks of the *)
(* reactor, because a callback may close or delete what is calling it.     *)
(*                                                                         *)
(* A handler may call back several streams, and each callback may act on   *)
(* the client: so a handler is an operator from the objects (a record w)   *)
(* to the objects, and `react` says what the callback of each stream does. *)
(*                                                                         *)
(* nghttp2, the peer and the kernel are external.  The session always      *)
(* sends what it is given; flow control is not modelled.                   *)
(***************************************************************************)
EXTENDS Integers, Sequences, FiniteSets, SequencesExt

CONSTANTS NULL, Setups     \* an instance: its streams, which are requests, how many messages they get

VARIABLES setup, objects, peer

grpcVars == <<setup, objects, peer>>

Streams == setup.streams
\* What the callbacks do: each may close the client or delete its request,
\* while there is a client to act on.
Reactions ==
    IF objects.owner # "live" THEN {[i \in Streams |-> "none"]}
    ELSE {r \in [Streams -> {"none", "delete", "close"}] :
             \A i \in Streams : /\ r[i] = "delete" => i \in setup.requests
                                /\ r[i] # "none" => objects.rpc[i].listed}
Closes == IF objects.conn.callback THEN BOOLEAN ELSE {FALSE}

\* Sets of pointers are walked in the order of the addresses, any order.
Orders == {s \in [1..Cardinality(Streams) -> Streams] : \A i, j \in DOMAIN s : s[i] = s[j] => i = j}

----------------------------------------------------------------------------
(***************************************************************************)
(* The objects                                                             *)
(***************************************************************************)
NoHttp2Stream == [mem |-> "none", listed |-> FALSE, close |-> FALSE, deleteOnClose |-> FALSE,
                  headersPending |-> FALSE, id |-> FALSE, userData |-> FALSE, unsent |-> FALSE,
                  localEnd |-> FALSE, localEndSent |-> FALSE, remoteEnd |-> FALSE, deferred |-> FALSE]
NoGrpcStream == [mem |-> "none", listed |-> FALSE, localEnd |-> FALSE, remoteEnd |-> FALSE,
                 isResponse |-> FALSE, answers |-> 0]
Http2Client == [mem |-> "live", state |-> "init", sock |-> "none", error |-> FALSE, attached |-> FALSE,
                callback |-> FALSE, timer |-> FALSE, told |-> 0]
GrpcClient == "live"

Fault(w, when) == [w EXCEPT !.fault = @ \/ when]

\* The pending tasks of the reactor: deletions, run in the order they came.
SubmitTask(w, task) == [w EXCEPT !.tasks = Append(@, task)]

AddTimingTask(w) == [w EXCEPT !.conn.timer = TRUE]
CancelTimingTask(w) == [w EXCEPT !.conn.timer = FALSE]

----------------------------------------------------------------------------
(***************************************************************************)
(* What the owner of the client does, in a callback or between events      *)
(***************************************************************************)
CloseGrpcStream(w, i) == [Fault(w, w.h2[i].mem = "freed") EXCEPT !.h2[i].close = TRUE]
CloseAndDeleteGrpcStream(w, i) == [CloseGrpcStream(w, i) EXCEPT !.h2[i].deleteOnClose = TRUE]

CancalConnect(w) == [CancelTimingTask(w) EXCEPT !.conn.callback = FALSE]

\* Close, and the deletion of the client by a task: connections and requests
\* do both.  GrpcServerConnector deletes its client at once, which is outside
\* the model (see README).
Close(w) ==
    LET closed == [CancalConnect(w) EXCEPT !.h2 =
                      [i \in Streams |-> IF w.rpc[i].listed THEN [@[i] EXCEPT !.close = TRUE] ELSE @[i]]]
    IN [SubmitTask(closed, <<"client">>) EXCEPT !.owner = "closed"]

DeleteStream(w, i) ==
    IF i \in setup.requests /\ w.rpc[i].listed
    THEN SubmitTask([CloseAndDeleteGrpcStream(w, i) EXCEPT !.rpc[i].listed = FALSE], <<"rpc", i>>)
    ELSE w

React(w, i, react) ==
    CASE w.owner # "live" \/ react[i] = "none" -> w
      [] w.owner = "live" /\ react[i] = "delete" -> DeleteStream(w, i)
      [] w.owner = "live" /\ react[i] = "close" -> Close(w)

Tell(w, i, react) == React([w EXCEPT !.rpc[i].answers = @ + 1], i, react)

----------------------------------------------------------------------------
(***************************************************************************)
(* GrpcRequest and GrpcStream                                              *)
(***************************************************************************)
\* A request answers its caller once, with the first message or a failure.
\* The caller of a stream is told of every message and of the end; the answer
\* that cannot be parsed ends the stream.
OnReceiveResponse(w, i, react) ==
    IF i \in setup.requests
    THEN IF w.rpc[i].isResponse THEN w ELSE Tell([w EXCEPT !.rpc[i].isResponse = TRUE], i, react)
    ELSE Tell(w, i, react)

OnRemoteClose(w, i, react) ==
    IF i \in setup.requests
    THEN IF w.rpc[i].isResponse THEN w ELSE Tell([w EXCEPT !.rpc[i].isResponse = TRUE], i, react)
    ELSE Tell(w, i, react)

OnReset(w, i, react) ==
    IF w.rpc[i].remoteEnd THEN w ELSE OnRemoteClose([w EXCEPT !.rpc[i].remoteEnd = TRUE], i, react)

OnTrailers(w, i, react) == OnReset(w, i, react)

ResetStreamAnyway(w, i, react) ==
    OnReset(Fault(w, w.h2[i].mem = "freed" \/ w.rpc[i].mem = "freed"), i, react)

\* A closed GrpcStream is not called back: it may be deleted.
ResetStream(w, i, react) ==
    IF w.h2[i].close THEN Fault(w, w.h2[i].mem = "freed")
    ELSE OnReset(Fault(w, w.h2[i].mem = "freed" \/ w.rpc[i].mem = "freed"), i, react)

ResetAllStream(w, react, order) ==
    FoldLeft(LAMBDA x, i : IF x.h2[i].listed THEN ResetStream(x, i, react) ELSE x, w, order)

\* The response headers: the HTTP status, if any, and whether a grpc-status
\* comes with them.
GetHttp2Status(f) == f.http # NULL
GetGrpcStatus(f) == f.grpc

\* Without a status the streams are reset and the headers taken as they are.
OnHeaders(w, i, f, react, order) ==
    LET reset == IF GetHttp2Status(f) THEN w ELSE ResetAllStream(w, react, order) IN
    CASE f.http = "500" /\ f.end /\ GetGrpcStatus(f) -> OnTrailers(w, i, react)
      [] f.http = "500" /\ ~(f.end /\ GetGrpcStatus(f)) -> ResetAllStream(w, react, order)
      [] f.http # "500" -> IF f.end THEN OnTrailers(reset, i, react) ELSE reset

\* f.count messages, then perhaps bytes that cannot be decoded. The whole
\* frame is handed up, whatever the callbacks do. The end is not checked
\* against an end that was already told.
OnData(w, i, f, react, order) ==
    LET all == FoldLeft(LAMBDA x, n : OnReceiveResponse(x, i, react), w, [n \in 1..f.count |-> n]) IN
    IF f.garbled THEN ResetAllStream(all, react, order)
    ELSE IF f.end THEN OnRemoteClose([all EXCEPT !.rpc[i].remoteEnd = TRUE], i, react) ELSE all

----------------------------------------------------------------------------
(***************************************************************************)
(* Http2Stream: sending                                                    *)
(***************************************************************************)
\* The session asks a stream for data until it has none (deferred) or has
\* said that there will be no more.
OnDataSourceSend(h) == [h EXCEPT !.unsent = FALSE]
OnFrameSend(h) == [h EXCEPT !.localEndSent = h.localEnd]

OnDataSourceRead(h) ==
    IF ~h.id \/ ~h.userData \/ h.deferred \/ h.localEndSent THEN h
    ELSE [OnFrameSend(OnDataSourceSend(h)) EXCEPT !.deferred = ~h.localEnd]

SendPendingFrames(w) ==
    IF w.conn.state # "connected" THEN w
    ELSE [w EXCEPT !.h2 = [i \in Streams |-> OnDataSourceRead(@[i])]]

SubmitHeaders(w, i) ==
    IF w.conn.state = "connected"
    THEN SendPendingFrames([Fault(w, w.h2[i].id) EXCEPT !.h2[i].headersPending = FALSE, !.h2[i].id = TRUE, !.h2[i].userData = TRUE])
    ELSE [w EXCEPT !.h2[i].headersPending = TRUE]

SendPendingHeaders(w, order) ==
    FoldLeft(LAMBDA x, i : IF x.h2[i].listed /\ x.h2[i].headersPending THEN SubmitHeaders(x, i) ELSE x, w, order)

\* Data for a stream the session has closed cannot be resumed.
SubmitData(w, i, end) ==
    LET h == w.h2[i] IN
    SendPendingFrames([Fault(w, h.localEnd \/ (h.deferred /\ ~h.userData)) EXCEPT
        !.h2[i].localEnd = end, !.h2[i].unsent = TRUE, !.h2[i].deferred = FALSE])

SendMessage(w, i, end) ==
    IF w.rpc[i].remoteEnd THEN [w EXCEPT !.rpc[i].localEnd = end]
    ELSE SubmitData([w EXCEPT !.rpc[i].localEnd = end], i, end)

NewStream(w, i) == [w EXCEPT !.h2[i] = [NoHttp2Stream EXCEPT !.mem = "live", !.listed = TRUE]]

Initialize(w, i) == SubmitHeaders([NewStream(w, i) EXCEPT !.rpc[i] = [NoGrpcStream EXCEPT !.mem = "live"]], i)

----------------------------------------------------------------------------
(***************************************************************************)
(* Http2Client: the connection.  react["conn"] does not exist: the connect *)
(* callback either closes the client or does nothing (`closes`).           *)
(***************************************************************************)
OnConnectCallbackKept(w, closes) ==
    LET told == [w EXCEPT !.conn.told = @ + 1]
    IN IF closes /\ w.owner = "live" THEN Close(told) ELSE CancelTimingTask(told)

OnConnectCallback(w, closes) ==
    LET told == [w EXCEPT !.conn.told = @ + 1]
    IN CancalConnect(IF closes /\ w.owner = "live" THEN Close(told) ELSE told)

\* The error of a failed connect is read once, then the socket has none.
CheckSocketConnect(w) == ~w.conn.error

ConnectFailed(w, closes, react, order) ==
    LET reset == ResetAllStream([w EXCEPT !.conn.state = "disconnected", !.conn.error = FALSE], react, order)
    IN IF reset.conn.callback THEN OnConnectCallback(reset, closes) ELSE reset

OnConnectSuccess(w, closes, order) ==
    LET up == [w EXCEPT !.conn.state = "connected"]
        told == IF up.conn.callback THEN OnConnectCallback(up, closes) ELSE up
    IN SendPendingHeaders(told, order)

WriteHandler(w, closes, react, order) ==
    IF w.conn.state # "connected" /\ ~CheckSocketConnect(w) THEN ConnectFailed(w, closes, react, order)
    ELSE CASE w.conn.state = "disconnected" -> w
           [] w.conn.state = "connecting" -> OnConnectSuccess(w, closes, order)
           [] OTHER -> w

CloseHandler(w, react, order) == ResetAllStream(w, react, order)

\* The session closes a stream: both ends are closed, or it was reset.
OnStreamClose(w, i, react) ==
    LET h == w.h2[i]
        reset == IF h.remoteEnd /\ h.localEnd THEN w ELSE ResetStream(w, i, react)
        doomed == IF reset.h2[i].deleteOnClose
                  THEN SubmitTask([reset EXCEPT !.h2[i].listed = FALSE], <<"h2", i>>) ELSE reset
    IN [doomed EXCEPT !.h2[i].userData = FALSE]

\* What the session decodes is handed to the GrpcStream unless it is closed.
Handed(w, i) == Fault(w, w.rpc[i].mem = "freed")
DecodeHeaders(w, i, f, react, order) == IF w.h2[i].close THEN w ELSE OnHeaders(Handed(w, i), i, f, react, order)
DecodeData(w, i, f, react, order) == IF w.h2[i].close THEN w ELSE OnData(Handed(w, i), i, f, react, order)
DecodeTrailers(w, i, react) == IF w.h2[i].close THEN w ELSE OnTrailers(Handed(w, i), i, react)

\* A frame of stream i, found by the user data of the session.
OnFrameReceived(w, i, f, react, order) ==
    LET seen == [Fault(w, w.h2[i].mem = "freed") EXCEPT !.h2[i].remoteEnd = f.end]
        done == CASE f.type = "rst" -> w
                  [] f.type = "headers" -> DecodeHeaders(seen, i, f, react, order)
                  [] f.type = "trailers" -> DecodeTrailers(seen, i, react)
                  [] f.type = "data" -> DecodeData(seen, i, f, react, order)
    IN IF f.type = "rst" \/ (f.end /\ done.h2[i].localEndSent) THEN OnStreamClose(done, i, react) ELSE done

\* What is read: a frame of a stream, GOAWAY or bytes the session refuses
\* (both reset every stream), or nothing that matters.
OnRecvData(w, what, react, order) ==
    SendPendingFrames(CASE what \in {"goaway", "invalid"} -> ResetAllStream(w, react, order)
                        [] what = "nothing" -> w)

----------------------------------------------------------------------------
(***************************************************************************)
(* Actions                                                                 *)
(***************************************************************************)
Become(w) == objects' = w /\ UNCHANGED setup

Connecting(w, sock) == [w EXCEPT !.conn.sock = sock, !.conn.state = "connecting"]

\* The connect is in progress, or fails at once and the callback says so.
Connect ==
    /\ objects.owner = "live" /\ objects.conn.state = "init"
    /\ \/ Become([AddTimingTask(Connecting(objects, "trying")) EXCEPT !.conn.attached = TRUE, !.conn.callback = TRUE])
       \/ \E closes \in BOOLEAN :
             LET told == [objects EXCEPT !.conn.state = "disconnected", !.conn.told = 1] IN
             Become(IF closes THEN Close(told) ELSE told)
    /\ UNCHANGED peer

\* ConnectTo, WaitConnected and SubmitToReactor of a caller that blocks.
WaitConnected ==
    /\ objects.owner = "live" /\ objects.conn.state = "init"
    /\ \E order \in Orders :
          \/ Become(SendPendingHeaders([Connecting(objects, "up") EXCEPT !.conn.state = "connected", !.conn.attached = TRUE], order))
          \/ Become(Close([objects EXCEPT !.conn.state = "disconnected"]))
    /\ UNCHANGED peer

\* A request is sent with its only message; a stream is opened empty.
SendRequest(i) ==
    /\ objects.owner = "live" /\ objects.rpc[i].mem = "none"
    /\ LET w == Initialize(objects, i)
           sent == IF i \in setup.requests THEN SendMessage(w, i, TRUE) ELSE w
       IN Become([sent EXCEPT !.rpc[i].listed = TRUE])
    /\ UNCHANGED peer

SendOnStream(i) ==
    /\ objects.owner = "live" /\ i \notin setup.requests
    /\ objects.rpc[i].mem = "live" /\ ~objects.rpc[i].localEnd
    /\ \E end \in BOOLEAN : Become(SendMessage(objects, i, end))
    /\ UNCHANGED peer

CallerDeletes(i) ==
    /\ objects.owner = "live" /\ objects.rpc[i].listed /\ i \in setup.requests
    /\ Become(DeleteStream(objects, i))
    /\ UNCHANGED peer

CallerCloses == objects.owner = "live" /\ Become(Close(objects)) /\ UNCHANGED peer

\* The kernel.
SocketChanges ==
    /\ \/ objects.conn.sock = "trying" /\ Become([objects EXCEPT !.conn.sock = "up"])
       \/ objects.conn.sock = "trying" /\ Become([objects EXCEPT !.conn.sock = "down", !.conn.error = TRUE])
       \/ objects.conn.sock = "up" /\ Become([objects EXCEPT !.conn.sock = "down"])
    /\ UNCHANGED peer

HasEvent == objects.conn.mem = "live" /\ objects.conn.attached /\ objects.conn.sock \in {"up", "down"}

ReadEvent ==
    /\ HasEvent
    /\ \E react \in Reactions, order \in Orders, closes \in Closes, what \in {"nothing", "goaway", "invalid"} :
          IF objects.conn.state # "connected" /\ ~CheckSocketConnect(objects)
          THEN Become(ConnectFailed(objects, closes, react, order))
          ELSE objects.conn.state # "disconnected" /\ Become(OnRecvData(objects, what, react, order))
    /\ UNCHANGED peer

\* The frames nghttp2 lets through: one HEADERS, DATA, trailers that end the
\* stream; headers that are too long make it reset the stream.
Frames(i) ==
    CASE peer[i] = "idle" -> [type : {"headers"}, http : {"200", "500", NULL}, grpc : BOOLEAN, end : BOOLEAN]
                                \cup [type : {"rst"}, end : {FALSE}]
      [] peer[i] = "open" -> {f \in [type : {"data"}, count : 0..2, garbled : BOOLEAN, end : BOOLEAN] :
                                    objects.rpc[i].answers + f.count <= setup.messages}
                                \cup [type : {"trailers"}, end : {TRUE}] \cup [type : {"rst"}, end : {FALSE}]
      [] peer[i] = "ended" -> {}

FrameEvent(i) ==
    /\ HasEvent /\ objects.conn.state = "connected" /\ objects.h2[i].userData
    /\ \E f \in Frames(i), react \in Reactions, order \in Orders :
          /\ Become(SendPendingFrames(OnFrameReceived(objects, i, f, react, order)))
          /\ peer' = [peer EXCEPT ![i] = IF f.end \/ f.type = "rst" THEN "ended" ELSE "open"]

WriteEvent ==
    /\ HasEvent
    /\ \E react \in Reactions, order \in Orders, closes \in Closes : Become(WriteHandler(objects, closes, react, order))
    /\ UNCHANGED peer

CloseEvent ==
    /\ HasEvent /\ objects.conn.sock = "down"
    /\ \E react \in Reactions, order \in Orders : Become(CloseHandler(objects, react, order))
    /\ UNCHANGED peer

OnConnectTimeout ==
    /\ objects.conn.timer
    /\ \E closes \in BOOLEAN :
          LET fired == CancelTimingTask(Fault(objects, objects.conn.mem = "freed")) IN
          Become(IF fired.conn.callback THEN OnConnectCallback(fired, closes) ELSE fired)
    /\ UNCHANGED peer

DeleteGrpcStream(w, i) == [CloseGrpcStream(w, i) EXCEPT !.rpc[i].mem = "freed", !.rpc[i].listed = FALSE]

DeleteGrpcClient(w, order) ==
    LET streams == FoldLeft(LAMBDA x, i : IF x.rpc[i].listed THEN DeleteGrpcStream(x, i) ELSE x, w, order)
    IN SubmitTask([CancalConnect(streams) EXCEPT !.owner = "freed"], <<"http2">>)

DeleteHttp2Client(w) ==
    [Fault(w, w.conn.timer) EXCEPT
        !.h2 = [i \in Streams |-> IF @[i].listed THEN [@[i] EXCEPT !.mem = "freed", !.listed = FALSE] ELSE @[i]],
        !.conn.mem = "freed", !.conn.attached = FALSE]

RunPendingTask ==
    /\ objects.tasks # <<>>
    /\ \E order \in Orders :
          LET task == Head(objects.tasks)
              w == [objects EXCEPT !.tasks = Tail(@)]
          IN Become(CASE task[1] = "rpc" -> DeleteGrpcStream(w, task[2])
                      [] task[1] = "h2" -> [Fault(w, w.h2[task[2]].userData) EXCEPT !.h2[task[2]].mem = "freed"]
                      [] task[1] = "client" -> DeleteGrpcClient(w, order)
                      [] task[1] = "http2" -> DeleteHttp2Client(w))
    /\ UNCHANGED peer

Init ==
    /\ setup \in Setups
    /\ objects = [conn |-> Http2Client, h2 |-> [i \in Streams |-> NoHttp2Stream], rpc |-> [i \in Streams |-> NoGrpcStream],
                  owner |-> GrpcClient, tasks |-> <<>>, fault |-> FALSE]
    /\ peer = [i \in Streams |-> "idle"]

Next ==
    \/ Connect \/ WaitConnected \/ CallerCloses
    \/ \E i \in Streams : SendRequest(i) \/ SendOnStream(i) \/ CallerDeletes(i) \/ FrameEvent(i)
    \/ SocketChanges \/ ReadEvent \/ WriteEvent \/ CloseEvent \/ OnConnectTimeout \/ RunPendingTask

Spec == Init /\ [][Next]_grpcVars

----------------------------------------------------------------------------
\* A request's callback is called at most once (client.h:49, :52) and the
\* connect callback at most once, always under a timer while it is awaited;
\* no deleted object is called, no stream the session has closed is resumed,
\* and the assertions hold.
CallbacksSafe ==
    /\ ~objects.fault
    /\ \A i \in setup.requests : objects.rpc[i].answers <= 1
    /\ objects.conn.told <= 1
    /\ objects.conn.callback => objects.conn.timer

\* Once its client is closed, or the request deleted, no later event reaches a
\* caller (client.h:211). Only the rest of the frame that is being handed up
\* may still do so, which is why this is about the steps that begin closed.
SilentWhenClosed ==
    \A i \in Streams : objects.h2[i].close => objects'.rpc[i].answers = objects.rpc[i].answers
ClosedIsSilent == [][SilentWhenClosed]_grpcVars
=============================================================================
