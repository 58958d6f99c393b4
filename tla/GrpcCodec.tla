------------------------------ MODULE GrpcCodec ------------------------------
(***************************************************************************)
(* The bytes of a gRPC stream (polaris/network/buffer and grpc/codec):     *)
(* messages are framed, moved from buffer to buffer, written to the socket *)
(* in pieces, read in other pieces, cut into HTTP/2 frames that respect    *)
(* neither, and decoded by a machine that keeps its state between frames.  *)
(*                                                                         *)
(* One connection carries what one side sends to the decoder of the other  *)
(* side, which runs the same code.  nghttp2 and the kernel are external:   *)
(* a DATA frame is a one byte header (100 + its length) and its bytes, and *)
(* the socket takes and gives any part of what is there.                   *)
(***************************************************************************)
EXTENDS Integers, Sequences, FiniteSets, SequencesExt

CONSTANTS NULL, Setups    \* an instance: page, frames, takes, gives, read, writev, the messages and their flags

VARIABLES setup, sent,    \* the messages given to the stream so far
          pending,        \* Http2Stream::pending_send_data_
          socket,         \* Http2Client::socket_buffer_
          wire,           \* the bytes in the kernel
          data,           \* the buffer of the running ReadHandler, or NULL
          input,          \* its slices that nghttp2 has not seen yet
          left,           \* how much of the DATA frame is still to come
          recv,           \* Http2Stream::pending_recv_data_
          decoder,        \* GrpcDecoder
          room,           \* the capacity of GrpcStream::decoded_messages_
          handed,         \* the messages given to the callback
          ok              \* no assertion failed and the stream is not reset

codecVars == <<setup, sent, pending, socket, wire, data, input, left, recv, decoder, room, handed, ok>>

Least(a, b) == IF a < b THEN a ELSE b

----------------------------------------------------------------------------
(***************************************************************************)
(* Slice: the bytes written, the first `data` of them consumed             *)
(***************************************************************************)
DataSize(s) == Len(s.base) - s.data
Data(s) == SubSeq(s.base, s.data + 1, Len(s.base))
ReservableSize(s) == s.capacity - Len(s.base)

\* Whole pages, less what the Slice itself needs (one byte here).
SliceSize(size) == ((1 + size + setup.page - 1) \div setup.page) * setup.page - 1
SliceCreate(size) == [data |-> 0, base |-> <<>>, capacity |-> SliceSize(size)]

SliceAppend(s, bytes) == [s EXCEPT !.base = @ \o SubSeq(bytes, 1, Least(Len(bytes), ReservableSize(s)))]

SliceDrainRestarting(s, size) == [s EXCEPT !.data = size]

\* A slice with nothing left starts again at its beginning.
SliceDrain(s, size) ==
    IF s.data + size = Len(s.base) THEN [s EXCEPT !.data = 0, !.base = <<>>]
    ELSE [s EXCEPT !.data = @ + size]

\* RawSlice: a place in a slice that was reserved, and how much of it.
SliceReserve(s, i, size) == [slice |-> i, at |-> Len(s.base), len |-> Least(size, ReservableSize(s))]

SliceCommits(s, i, raw) ==
    raw.slice = i /\ raw.at = Len(s.base) /\ Len(s.base) + raw.len <= s.capacity /\ Len(s.base) < s.capacity

----------------------------------------------------------------------------
(***************************************************************************)
(* Buffer                                                                  *)
(***************************************************************************)
EmptyBuffer == [slices |-> <<>>, length |-> 0]

SumSizes(slices) == FoldLeft(LAMBDA n, s : n + DataSize(s), 0, slices)
CheckLength(b) == b.length = SumSizes(b.slices)

\* What the last slice has no room for goes to one new slice.
Add(b, bytes) ==
    LET n == Len(b.slices)
        fits == IF n = 0 THEN 0 ELSE Least(Len(bytes), ReservableSize(b.slices[n]))
        rest == SubSeq(bytes, fits + 1, Len(bytes))
        filled == IF n = 0 THEN <<>> ELSE [b.slices EXCEPT ![n] = SliceAppend(@, bytes)]
    IN [slices |-> IF rest = <<>> THEN filled ELSE Append(filled, SliceAppend(SliceCreate(Len(rest)), rest)),
        length |-> b.length + Len(bytes)]

\* The slices at the end that still have room: only the first may hold data.
FirstReservable(b) ==
    CHOOSE f \in 1..(Len(b.slices) + 1) :
        LET Open(i) == \A j \in i..Len(b.slices) :
                          ReservableSize(b.slices[j]) > 0 /\ (j > i => DataSize(b.slices[j]) = 0)
        IN Open(f) /\ (f > 1 => ~Open(f - 1))

\* At most `max` places that hold `length` together; the last one may be new.
NewPlace(b, found, more) ==
    IF found.remaining = 0 THEN [buffer |-> b, raws |-> found.raws]
    ELSE [buffer |-> [b EXCEPT !.slices = Append(@, more)],
          raws |-> Append(found.raws, SliceReserve(more, Len(b.slices) + 1, found.remaining))]

Reserve(b, length, max) ==
    LET Take(r, i) ==
            LET raw == SliceReserve(b.slices[i], i, r.remaining) IN
            IF r.remaining = 0 \/ r.full \/ Len(r.raws) = max THEN r
            ELSE IF Len(r.raws) + 1 = max /\ raw.len < r.remaining THEN [r EXCEPT !.full = TRUE]
            ELSE [r EXCEPT !.raws = Append(@, raw), !.remaining = @ - raw.len]
        found == FoldLeft(Take, [raws |-> <<>>, remaining |-> length, full |-> FALSE],
                          [k \in 1..(Len(b.slices) + 1 - FirstReservable(b)) |-> FirstReservable(b) + k - 1])
    IN NewPlace(b, found, SliceCreate(found.remaining))

\* The places are matched with the slices from the last one that holds data on.
\* `bytes` is what was written there; `done` counts the places committed.
Commit(b, raws, bytes) ==
    LET full == {i \in DOMAIN b.slices : DataSize(b.slices[i]) # 0}
        first == IF full = {} THEN 1 ELSE CHOOSE i \in full : \A j \in full : j <= i
        Match(r, i) ==
            IF r.done < Len(raws) /\ SliceCommits(r.slices[i], i, raws[r.done + 1])
            THEN LET n == raws[r.done + 1].len IN
                 [slices |-> [r.slices EXCEPT ![i].base = @ \o SubSeq(r.bytes, 1, n)],
                  bytes |-> SubSeq(r.bytes, n + 1, Len(r.bytes)), length |-> r.length + n, done |-> r.done + 1]
            ELSE r
    IN FoldLeft(Match, [slices |-> b.slices, bytes |-> bytes, length |-> b.length, done |-> 0],
                [k \in 1..(Len(b.slices) + 1 - first) |-> first + k - 1])

\* The slices that are consumed whole are freed, empty ones on the way too.
Drain(b, size) ==
    LET Pop(r, s) ==
            IF r.size = 0 THEN [r EXCEPT !.slices = Append(@, s)]
            ELSE IF DataSize(s) <= r.size
                 THEN [r EXCEPT !.size = @ - DataSize(s), !.length = @ - DataSize(s)]
                 ELSE [slices |-> Append(r.slices, SliceDrain(s, r.size)), size |-> 0, length |-> r.length - r.size]
        after == FoldLeft(Pop, [slices |-> <<>>, size |-> size, length |-> b.length], b.slices)
    IN [slices |-> after.slices, length |-> after.length]

\* The slices that hold something, in order.
GetRawSlices(b) ==
    FoldLeft(LAMBDA r, s : IF DataSize(s) = 0 THEN r ELSE Append(r, Data(s)), <<>>, b.slices)

\* Move(other, length): whole slices change hands, the last is copied in part.
\* Move(other) moves every slice, the empty ones too.
Move(b, other, length) ==
    LET Take(r, s) ==
            LET n == Least(DataSize(s), r.want) IN
            CASE r.want = 0 -> [r EXCEPT !.rest = Append(@, s)]
              [] r.want # 0 /\ n = 0 -> r
              [] n # 0 /\ n < DataSize(s) ->
                    [r EXCEPT !.to = Add(r.to, SubSeq(Data(s), 1, n)), !.rest = Append(@, SliceDrain(s, n)), !.want = 0]
              [] n # 0 /\ n = DataSize(s) ->
                    [r EXCEPT !.to = [slices |-> Append(@.slices, s), length |-> @.length + n], !.want = @ - n]
        moved == FoldLeft(Take, [to |-> b, rest |-> <<>>, want |-> length], other.slices)
    IN [to |-> moved.to, from |-> [slices |-> moved.rest, length |-> other.length - (length - moved.want)]]

----------------------------------------------------------------------------
(***************************************************************************)
(* Messages and their frames                                               *)
(***************************************************************************)
\* Flag, length in four bytes, then the message, in one reserved place.  This
\* code sends flag 0; another implementation may set others.
SerializeToGrpcFrame(m) ==
    LET frame == <<m.flag, 0, 0, 0, Len(m.bytes)>> \o m.bytes
        reserved == Reserve(EmptyBuffer, Len(frame), 1)
        done == Commit(reserved.buffer, reserved.raws, frame)
    IN [buffer |-> [slices |-> done.slices, length |-> done.length], ok |-> done.done > 0]

\* ZeroCopyInputStreamImpl::Next gives one slice and consumes it at the next call.
StreamNext(b) == [bytes |-> GetRawSlices(b)[1], rest |-> Drain(b, Len(GetRawSlices(b)[1]))]

ParseBufferToMessage(b) ==
    FoldLeft(LAMBDA r, k : IF GetRawSlices(r.rest) = <<>> THEN r
                           ELSE [bytes |-> r.bytes \o StreamNext(r.rest).bytes, rest |-> StreamNext(r.rest).rest],
             [bytes |-> <<>>, rest |-> b], b.slices).bytes

\* GrpcDecoder and the LengthPrefixedMessage it is decoding.
LengthPrefixedMessage == [flags |-> 0, length |-> 0, data |-> NULL, live |-> TRUE]
GrpcDecoder == [state |-> "flag", msg |-> LengthPrefixedMessage]

\* The vector that grows copies its elements and destroys the old ones, whose
\* destructor deletes the data the copies point to.
PushBack(r) ==
    LET grows == Len(r.out) = r.room
        old == IF grows THEN [i \in DOMAIN r.out |-> [r.out[i] EXCEPT !.live = @ /\ r.out[i].data = NULL]] ELSE r.out
    IN [r EXCEPT !.out = Append(old, r.d.msg), !.d = GrpcDecoder,
                 !.room = IF grows THEN (IF @ = 0 THEN 1 ELSE 2 * @) ELSE @]

\* One byte in the state the decoder is in; the data is added piece by piece.
DecodeByte(r, c) ==
    LET d == r.d
        LengthByte(next) == [r EXCEPT !.d.msg.length = 256 * @ + c, !.d.state = next]
    IN CASE ~r.ok -> r
         [] r.ok /\ d.state = "flag" ->
               IF c \notin {0, 1} THEN [r EXCEPT !.ok = FALSE]
               ELSE [r EXCEPT !.d.msg.flags = c, !.d.state = "len0"]
         [] r.ok /\ d.state = "len0" -> LengthByte("len1")
         [] r.ok /\ d.state = "len1" -> LengthByte("len2")
         [] r.ok /\ d.state = "len2" -> LengthByte("len3")
         [] r.ok /\ d.state = "len3" ->
               IF LengthByte("data").d.msg.length = 0 THEN PushBack(r)
               ELSE [LengthByte("data") EXCEPT !.d.msg.data = EmptyBuffer]
         [] r.ok /\ d.state = "data" ->
               LET more == [r EXCEPT !.d.msg.data = Add(@, <<c>>)] IN
               IF more.d.msg.data.length = d.msg.length THEN PushBack(more) ELSE more

Decode(b) ==
    FoldLeft(LAMBDA r, bytes : FoldLeft(DecodeByte, r, bytes),
             [ok |-> TRUE, d |-> decoder, out |-> <<>>, room |-> room], GetRawSlices(b))

\* GrpcStream::OnData: nothing is handed up of a frame that cannot be decoded;
\* a compressed message resets the streams and drops the rest of its frame.
OnData(b) == \E r \in {Decode(b)} :
    LET bad == {i \in DOMAIN r.out : r.out[i].length > 0 /\ r.out[i].flags # 0}
        good == IF ~r.ok THEN 0 ELSE Cardinality({i \in DOMAIN r.out : \A j \in bad : i < j})
    IN /\ decoder' = r.d
       /\ room' = r.room
       /\ handed' = handed \o [i \in 1..good |->
              [bytes |-> IF r.out[i].data = NULL THEN <<>> ELSE ParseBufferToMessage(r.out[i].data),
               live |-> r.out[i].live]]
       /\ ok' = (ok /\ r.ok /\ bad = {})

----------------------------------------------------------------------------
(***************************************************************************)
(* Sending                                                                 *)
(***************************************************************************)
idleReader == data = NULL /\ ok

\* SubmitData moves the frame behind what the stream has not sent yet.
SendMessage ==
    /\ idleReader /\ sent < Len(setup.messages)
    /\ \E frame \in {SerializeToGrpcFrame(setup.messages[sent + 1])} :
         /\ pending' = Move(pending, frame.buffer, frame.buffer.length).to
         /\ ok' = (ok /\ frame.ok)
    /\ sent' = sent + 1
    /\ UNCHANGED <<setup, socket, wire, data, input, left, recv, decoder, room, handed>>

\* DoSend: writev of the first slices; the kernel takes some of it, or nothing.
Write(b, takes) ==
    LET raws == GetRawSlices(b)
        bytes == FlattenSeq(SubSeq(raws, 1, Least(setup.writev, Len(raws))))
        n == Least(takes, Len(bytes))
    IN socket' = Drain(b, n) /\ wire' = wire \o SubSeq(bytes, 1, n)

\* OnDataSourceRead and OnDataSourceSend: nghttp2 says how much a frame may
\* carry; its header is copied and the data moved behind it.
OnDataSourceSend ==
    \E limit \in setup.frames, takes \in setup.takes :
        \E n \in {Least(limit, pending.length)} :
        \E moved \in {Move(Add(socket, <<100 + n>>), pending, n)} :
            /\ idleReader /\ pending.length > 0
            /\ pending' = moved.from
            /\ Write(moved.to, takes)
            /\ UNCHANGED <<setup, sent, data, input, left, recv, decoder, room, handed, ok>>

\* The socket is writable again.
OnWritable ==
    \E takes \in setup.takes :
        /\ idleReader /\ socket.length > 0 /\ takes > 0
        /\ Write(socket, takes)
        /\ UNCHANGED <<setup, sent, pending, data, input, left, recv, decoder, room, handed, ok>>

----------------------------------------------------------------------------
(***************************************************************************)
(* Receiving                                                               *)
(***************************************************************************)
\* Buffer::Read: up to two places of the size asked for, of which the kernel
\* fills some; what it did not fill stays reserved for the next call.
Read(b, gives) ==
    LET r == Reserve(b, setup.read, 2)
        n == Least(Least(gives, setup.read), Len(wire))
        given == [i \in DOMAIN r.raws |->
                     [r.raws[i] EXCEPT !.len = Least(@, IF i = 1 THEN n ELSE n - Least(n, r.raws[1].len))]]
        done == Commit(r.buffer, given, SubSeq(wire, 1, n))
    IN [n |-> n, ok |-> done.done > 0, buffer |-> [slices |-> done.slices, length |-> done.length]]

\* ReadHandler reads until the socket has no more, all into one buffer.
ReadHandler ==
    \E gives \in setup.gives :
        \E r \in {Read(IF data = NULL THEN EmptyBuffer ELSE data, gives)} :
        /\ ok /\ input = <<>> /\ (data = NULL => wire # <<>>)
        /\ gives = 0 => data # NULL
        /\ wire' = SubSeq(wire, r.n + 1, Len(wire))
        /\ data' = r.buffer
        /\ input' = IF r.n = 0 THEN GetRawSlices(r.buffer) ELSE <<>>
        /\ ok' = r.ok
        /\ UNCHANGED <<setup, sent, pending, socket, left, recv, decoder, room, handed>>

\* nghttp2 sees the slices one by one: the header of a frame, ...
OnBeginFrame ==
    /\ ok /\ input # <<>> /\ left = 0
    /\ left' = input[1][1] - 100
    /\ input' = IF Len(input[1]) = 1 THEN Tail(input) ELSE <<Tail(input[1])>> \o Tail(input)
    /\ data' = IF input' = <<>> THEN NULL ELSE data
    /\ UNCHANGED <<setup, sent, pending, socket, wire, recv, decoder, room, handed, ok>>

\* ... then what the slice holds of its data; at its end the stream decodes it.
OnStreamData ==
    LET n == Least(left, Len(input[1]))
        filled == Add(recv, SubSeq(input[1], 1, n))
        rest == SubSeq(input[1], n + 1, Len(input[1]))
    IN /\ ok /\ input # <<>> /\ left > 0
       /\ left' = left - n
       /\ input' = IF rest = <<>> THEN Tail(input) ELSE <<rest>> \o Tail(input)
       /\ data' = IF input' = <<>> THEN NULL ELSE data
       /\ IF left' > 0 THEN recv' = filled /\ UNCHANGED <<decoder, room, handed, ok>>
          ELSE recv' = Drain(filled, filled.length) /\ OnData(filled)
       /\ UNCHANGED <<setup, sent, pending, socket, wire>>

----------------------------------------------------------------------------
Init ==
    /\ setup \in Setups
    /\ sent = 0 /\ wire = <<>> /\ input = <<>> /\ left = 0 /\ room = 0 /\ handed = <<>> /\ ok = TRUE
    /\ pending = EmptyBuffer /\ socket = EmptyBuffer /\ recv = EmptyBuffer /\ data = NULL
    /\ decoder = GrpcDecoder

Next == \/ SendMessage \/ OnDataSourceSend \/ OnWritable
        \/ ReadHandler \/ OnBeginFrame \/ OnStreamData

Spec == Init /\ [][Next]_codecVars

----------------------------------------------------------------------------
\* However the bytes are cut by frames, slices, short writes and short reads,
\* the messages handed up are the ones sent, whole and in order, up to the
\* first that may not be handed up; and when nothing is under way, all of them.
\* No assertion of Buffer fails on the way and every length_ is right.
DecodedAsSent ==
    LET want == [i \in 1..sent |-> setup.messages[i].bytes]
        plain == \A i \in DOMAIN setup.messages : setup.messages[i].flag = 0
        idle == data = NULL /\ wire = <<>> /\ socket.length = 0 /\ pending.length = 0
    IN /\ IsPrefix([i \in DOMAIN handed |-> handed[i].bytes], want)
       /\ \A i \in DOMAIN handed : setup.messages[i].flag = 0 \/ handed[i].bytes = <<>>
       /\ plain => ok /\ (idle => Len(handed) = sent)
       /\ \A b \in {pending, socket, recv} \union (IF data = NULL THEN {} ELSE {data}) : CheckLength(b)

\* A message is handed up with the memory of its bytes.  Not so when a vector
\* of messages grows: see README.
HandedMessagesLive == \A i \in DOMAIN handed : handed[i].live
=============================================================================
