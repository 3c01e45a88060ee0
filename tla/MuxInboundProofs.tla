-------------------------- MODULE MuxInboundProofs --------------------------
(***************************************************************************)
(* Proofs about MuxInbound, for every value of its constants.              *)
(*                                                                         *)
(* First the session: the types, the reserve of receive tokens, and the    *)
(* wake-up of the client read.  Then its streams: each stream is a queue,  *)
(* its half-close comes last and comes, no stream with work is left        *)
(* without an event, a FIN owed to the client is not forgotten, tokens are *)
(* conserved, and direct payloads have room.                               *)
(***************************************************************************)
EXTENDS MuxInbound, MCMuxInbound, QueueProofs

----------------------------------------------------------------------------
(* The inductive invariant of type correctness.                            *)

\* The used part of a buffer lies within its capacity.
BufFits(b) == b.off + Len(b.data) <= b.cap

\* Where a handler can be, and what its local variables are there.
HandlerOK ==
  /\ pc \in PCs /\ ret \in {"idle", "flush", "proc1", "proc2"}
  /\ cur \in Streams \cup {NoStream} /\ drained \in BOOLEAN
  /\ budget \in 0..Budget /\ loops \in 0..MaxLoops
  /\ pc # "read" => loops = 0
  /\ pc \in {"send", "drain", "tail"} => cur \in Streams
  /\ pc = "flush" => ret \in {"idle", "proc1"}
  /\ pc \notin {"flush", "send", "drain", "tail"} => ret = "idle"

StreamsOK ==
  /\ posted \in BOOLEAN /\ cw \in BOOLEAN
  /\ st \in [Streams -> {"absent", "request", "opening", "proxy", "closing"}]
  /\ req \in [Streams -> 0..ReqLen]
  /\ sent \in [Streams -> 0..MaxData] /\ up \in [Streams -> Nat]
  /\ clientFin \in [Streams -> BOOLEAN] /\ wrShut \in [Streams -> BOOLEAN]
  /\ upEof \in [Streams -> BOOLEAN] /\ finSent \in [Streams -> BOOLEAN]
  /\ upFull \in [Streams -> BOOLEAN]
  /\ procQ \in Seq(Streams) /\ tokens \in 0..MaxRecv

BuffersOK ==
  /\ buf \in [Streams -> BufSet] /\ pend \in [Streams -> Seq(Bytes)]
  /\ \A s \in Streams : BufFits(buf[s])

\* The lengths and offsets of a client frame: its request bytes are fed only
\* once it is complete, and a NEW frame has no stream yet.
FrameFacts(f) ==
  /\ f \in FrameSet
  /\ f.len <= MaxFrame /\ f.base + f.len <= MaxData
  /\ f.read <= f.len /\ f.feed <= f.len
  /\ f.feed > 0 => f.read = f.len
  /\ f.kind # "none" => f.sid \in Streams
  /\ f.kind = "NEW" => f.target = NoStream /\ f.feed = 0 /\ ~f.deferred
  /\ f.kind = "none" => f.len = 0

\* The read loop has a round left for the frame it works on.
FrameOK ==
  /\ FrameFacts(fr)
  /\ pc = "read" /\ fr.kind # "none" => loops < MaxLoops

IInv == HandlerOK /\ StreamsOK /\ BuffersOK /\ FrameOK

----------------------------------------------------------------------------
(* The operators the actions are built from.                               *)

\* The assumption on the constants, one fact at a time.
LEMMA Constants ==
  /\ MaxStreams \in Nat \ {0} /\ MaxRecv \in Nat \ {0} /\ MaxBuf \in Nat \ {0}
  /\ MaxFrame \in Nat \ {0} /\ BufSize \in Nat \ {0} /\ ReqLen \in Nat \ {0}
  /\ MaxLoops \in Nat \ {0} /\ Budget \in Nat \ {0} /\ MaxData \in Nat \ {0}
  /\ MaxFrame <= MaxBuf /\ MaxFrame <= MaxRecv
  /\ NoStream \notin Streams /\ Cool \in BOOLEAN /\ Socks5 \in BOOLEAN
BY ConstantsAssumption

\* An empty buffer that is asked to hold something has room for a byte.
LEMMA EnsureAtLeastOne ==
  ASSUME NEW b, b.cap \in Nat, Len(b.data) = 0, NEW len \in Nat, len >= 1
  PROVE  Ensure(b, len).cap >= 1
<1> DEFINE size == Larger(Smaller(BufSize, MaxBuf), len)
<1>1. size >= 1 /\ size \in Nat BY Constants DEF Larger, Smaller
<1>2. Smaller(2 * b.cap, MaxBuf) = 2 * b.cap \/ Smaller(2 * b.cap, MaxBuf) = MaxBuf
  BY Zenon DEF Smaller
<1> HIDE DEF size
<1>3. ~(Len(b.data) > 0) OBVIOUS
<1>4. CASE b.cap = 0
  <2>1. Ensure(b, len) = [NoBuf EXCEPT !.cap = size] BY <1>4, Zenon DEF Ensure, size
  <2> QED BY <1>1, <2>1 DEF NoBuf
<1>5. CASE b.cap # 0 /\ Ensure(b, len) = b BY <1>5
<1>6. CASE b.cap # 0 /\ Ensure(b, len) # b
  <2>1. Ensure(b, len).cap \in {Smaller(2 * b.cap, MaxBuf), size}
    BY <1>3, <1>6 DEF Ensure, size
  <2>2. Smaller(2 * b.cap, MaxBuf) >= 1 BY <1>2, <1>6, Constants
  <2> QED BY <1>1, <2>1, <2>2
<1> QED BY <1>4, <1>5, <1>6

\* return_recv_tokens keeps the bucket within its limit and never shrinks it.
LEMMA RefundType ==
  ASSUME NEW t \in 0..MaxRecv, NEW n \in Nat
  PROVE  Refund(t, n) \in 0..MaxRecv /\ Refund(t, n) >= t
BY Constants DEF Refund

\* take_recv_tokens takes n tokens if the bucket has them.
LEMMA TakeType ==
  ASSUME NEW t \in 0..MaxRecv, NEW n \in Nat
  PROVE  Take(t, n) \in 0..MaxRecv /\ (t >= n => Take(t, n) = t - n)
BY Constants DEF Take

\* ensure_client_buffer returns a buffer with the same bytes.
LEMMA EnsureType ==
  ASSUME NEW b \in BufSet, BufFits(b), NEW len \in 0..MaxFrame
  PROVE  /\ Ensure(b, len) \in BufSet
         /\ BufFits(Ensure(b, len))
         /\ Ensure(b, len).data = b.data
<1> DEFINE size == Larger(Smaller(BufSize, MaxBuf), len)
           n    == Len(b.data)
           need == IF n > 0 THEN Larger(n + len, size) ELSE size
           cap  == IF need < 2 * b.cap THEN Smaller(2 * b.cap, MaxBuf) ELSE need
<1>1. n \in Nat /\ b.cap \in Nat /\ b.off \in Nat /\ b.data \in Seq(Bytes)
  BY DEF BufSet
<1>2. size \in Nat /\ size <= MaxBuf /\ len <= MaxBuf
  BY Constants DEF Larger, Smaller
<1>3. CASE b.cap = 0
  <2>1. b.data = <<>> BY <1>1, <1>3, EmptySeq DEF BufFits
  <2>2. Ensure(b, len) = [data |-> <<>>, off |-> 0, cap |-> size]
    BY <1>3 DEF Ensure, NoBuf
  <2> QED BY <2>1, <2>2, <1>2, <1>1 DEF BufSet, BufFits
<1>4. CASE Ensure(b, len) = b
  BY <1>4
<1>5. CASE b.cap # 0 /\ Ensure(b, len) # b
  <2>1. ~(n > 0 /\ (n > len \/ n > MaxBuf - len))
    BY <1>5 DEF Ensure
  <2>2. Ensure(b, len) = [data |-> b.data, off |-> 0, cap |-> cap]
    BY <1>5 DEF Ensure
  <2>3. cap \in Nat /\ n <= cap
    BY <2>1, <1>1, <1>2, Constants DEF Larger, Smaller
  <2> QED BY <2>2, <2>3, <1>1 DEF BufSet, BufFits
<1> QED BY <1>3, <1>4, <1>5

\* Moving the bytes to the front of the buffer.
LEMMA CompactType ==
  ASSUME NEW b \in BufSet, BufFits(b)
  PROVE  /\ Compact(b) \in BufSet /\ BufFits(Compact(b))
         /\ Compact(b).data = b.data /\ Room(b) \in Nat /\ Room(Compact(b)) \in Nat
<1>1. Len(b.data) \in Nat /\ b.cap \in Nat /\ b.off \in Nat /\ b.data \in Seq(Bytes)
  BY DEF BufSet
<1> QED BY <1>1 DEF BufSet, BufFits, Compact, Room

\* stream_can_accept leaves the bytes of the buffer as they are.
LEMMA AcceptingType ==
  ASSUME NEW b \in BufSet, BufFits(b), NEW len \in 0..MaxFrame
  PROVE  /\ Accepting(b, len) \in BufSet
         /\ BufFits(Accepting(b, len))
         /\ Accepting(b, len).data = b.data
BY EnsureType, CompactType DEF Accepting

\* Appending bytes for which there is room.
LEMMA FillType ==
  ASSUME NEW b \in BufSet, BufFits(b), NEW d \in Seq(Bytes), Len(d) <= Room(b)
  PROVE  LET f == [b EXCEPT !.data = @ \o d] IN f \in BufSet /\ BufFits(f)
<1>1. Len(b.data) \in Nat /\ b.cap \in Nat /\ b.off \in Nat /\ b.data \in Seq(Bytes)
  BY DEF BufSet
<1>2. b.data \o d \in Seq(Bytes) /\ Len(b.data \o d) = Len(b.data) + Len(d)
  BY <1>1, ConcatProperties
<1>3. Len(d) \in Nat BY LenProperties
<1> DEFINE f == [b EXCEPT !.data = @ \o d]
<1>4. f.data = b.data \o d /\ f.off = b.off /\ f.cap = b.cap
  BY DEF BufSet
<1>5. f \in BufSet
  BY <1>1, <1>2 DEF BufSet
<1>6. BufFits(f)
  <2> HIDE DEF f
  <2> QED BY <1>1, <1>2, <1>3, <1>4 DEF BufFits, Room
<1> QED BY <1>5, <1>6

\* The unread payload is a sequence of stream bytes.
LEMMA PayloadType ==
  ASSUME FrameOK, NEW k \in Nat, k <= fr.len
  PROVE  Payload(k) \in Seq(Bytes) /\ Len(Payload(k)) = fr.len - k
<1>1. fr.len \in Nat /\ fr.base \in Nat /\ fr.base + fr.len <= MaxData
  BY DEF FrameOK, FrameFacts, FrameSet
<1> DEFINE q == [i \in 1..(fr.len - k) |-> fr.base + k + i]
<1>2. q \in [1..(fr.len - k) -> Bytes]
  BY <1>1, Constants DEF Bytes
<1>3. fr.len - k \in Nat BY <1>1
<1>4. q \in Seq(Bytes) /\ Len(q) = fr.len - k
  BY <1>2, <1>3, SMT
<1> QED BY <1>4 DEF Payload

\* A sequence split in two.
LEMMA SubSeqType ==
  ASSUME NEW S, NEW q \in Seq(S), NEW n \in 0..Len(q)
  PROVE  /\ SubSeq(q, 1, n) \in Seq(S) /\ Len(SubSeq(q, 1, n)) = n
         /\ SubSeq(q, n + 1, Len(q)) \in Seq(S)
         /\ Len(SubSeq(q, n + 1, Len(q))) = Len(q) - n
BY SubSeqProperties

\* Removing bytes from the front of the buffer.
LEMMA CutType ==
  ASSUME NEW b \in BufSet, BufFits(b), NEW n \in 0..Len(b.data)
  PROVE  LET f == [b EXCEPT !.data = SubSeq(@, n + 1, Len(@)), !.off = @ + n]
         IN f \in BufSet /\ BufFits(f)
<1> DEFINE d == SubSeq(b.data, n + 1, Len(b.data))
           f == [b EXCEPT !.data = d, !.off = @ + n]
<1>1. Len(b.data) \in Nat /\ b.cap \in Nat /\ b.off \in Nat /\ b.data \in Seq(Bytes)
  BY DEF BufSet
<1>2. d \in Seq(Bytes) /\ Len(d) = Len(b.data) - n
  BY <1>1, SubSeqType
<1>3. n \in Nat /\ n <= Len(b.data) BY <1>1
<1>4. f.data = d /\ f.off = b.off + n /\ f.cap = b.cap
  BY DEF BufSet
<1>5. f \in BufSet
  <2> HIDE DEF d
  <2>1. b.off + n \in Nat BY <1>1, <1>3
  <2>2. [b EXCEPT !.data = d] \in BufSet BY <1>2 DEF BufSet
  <2> QED BY <2>1, <2>2 DEF BufSet
<1>6. BufFits(f)
  <2> HIDE DEF d, f
  <2> QED BY <1>1, <1>2, <1>3, <1>4 DEF BufFits
<1> QED BY <1>5, <1>6

\* Queue operations keep a queue of streams.
LEMMA QueueProcessType ==
  ASSUME NEW q \in Seq(Streams), NEW s \in Streams
  PROVE  QueueProcess(q, s) \in Seq(Streams)
BY AppendProperties DEF QueueProcess

\* Queue removal keeps a queue of streams.
LEMMA UnqueueType ==
  ASSUME NEW q \in Seq(Streams), NEW s
  PROVE  Unqueue(q, s) \in Seq(Streams)
<1>1. CASE ~Queued(q, s) BY <1>1 DEF Unqueue
<1>2. CASE Queued(q, s)
  <2> DEFINE i == CHOOSE i \in 1..Len(q) : q[i] = s
  <2>1. i \in 1..Len(q) BY <1>2 DEF Queued
  <2>2. /\ SubSeq(q, 1, i - 1) \in Seq(Streams)
        /\ SubSeq(q, i + 1, Len(q)) \in Seq(Streams)
    <3> HIDE DEF i
    <3> QED BY <2>1, SubSeqProperties, LenProperties, ElementOfSeq
  <2>3. Unqueue(q, s) = SubSeq(q, 1, i - 1) \o SubSeq(q, i + 1, Len(q))
    BY <1>2 DEF Unqueue
  <2> QED BY <2>2, <2>3, ConcatProperties
<1> QED BY <1>1, <1>2

----------------------------------------------------------------------------
(* Steps that several actions share.                                       *)

\* What a stream holds is a number of bytes.
LEMMA HeldType ==
  ASSUME BuffersOK, NEW s \in Streams
  PROVE  Held(s) \in Nat /\ Len(buf[s].data) \in Nat /\ Len(pend[s]) \in Nat
BY DEF BuffersOK, BufSet, Held

\* cleanup_stream.
LEMMA ReapType ==
  ASSUME StreamsOK, BuffersOK, FrameOK, NEW s \in Streams, Reap(s),
         UNCHANGED <<cw, loops>>, pc' = pc \/ pc' # "read"
  PROVE  StreamsOK' /\ BuffersOK' /\ FrameOK'
<1>1. tokens' \in 0..MaxRecv
  BY HeldType, RefundType DEF StreamsOK, Reap
<1>2. procQ' \in Seq(Streams)
  BY UnqueueType DEF StreamsOK, Reap
<1>3. posted' \in BOOLEAN
  BY Zenon DEF StreamsOK, Reap, Resumed, BlockedReady, ClientBlocked
<1>4. /\ st' \in [Streams -> {"absent", "request", "opening", "proxy", "closing"}]
      /\ req' \in [Streams -> 0..ReqLen]
      /\ sent' \in [Streams -> 0..MaxData] /\ up' \in [Streams -> Nat]
  BY Constants DEF StreamsOK, Reap
<1>5. /\ clientFin' \in [Streams -> BOOLEAN] /\ wrShut' \in [Streams -> BOOLEAN]
      /\ upEof' \in [Streams -> BOOLEAN] /\ finSent' \in [Streams -> BOOLEAN]
      /\ upFull' \in [Streams -> BOOLEAN]
  BY DEF StreamsOK, Reap
<1>6. StreamsOK'
  BY <1>1, <1>2, <1>3, <1>4, <1>5 DEF StreamsOK
<1>7. BuffersOK'
  <2>1. NoBuf \in BufSet /\ BufFits(NoBuf) BY EmptySeq DEF BufSet, BufFits, NoBuf
  <2> QED BY <2>1, EmptySeq DEF BuffersOK, Reap
<1>8. FrameOK'
  <2>1. CASE fr' = fr BY <2>1 DEF FrameOK
  <2>2. CASE fr' = [fr EXCEPT !.target = NoStream, !.direct = FALSE,
                              !.checked = FALSE, !.blocked = FALSE,
                              !.deferred = FALSE, !.feed = 0]
    <3>1. fr' \in FrameSet
      BY <2>2 DEF FrameOK, FrameFacts, FrameSet
    <3>2. /\ fr'.kind = fr.kind /\ fr'.sid = fr.sid /\ fr'.len = fr.len
          /\ fr'.base = fr.base /\ fr'.read = fr.read
          /\ fr'.feed = 0 /\ fr'.target = NoStream /\ fr'.deferred = FALSE
      BY <2>2 DEF FrameOK, FrameFacts, FrameSet
    <3>3. fr.len \in Nat /\ fr.read \in Nat
      BY DEF FrameOK, FrameFacts, FrameSet
    <3> QED BY <3>1, <3>2, <3>3 DEF FrameOK, FrameFacts
  <2> QED BY <2>1, <2>2 DEF Reap
<1> QED BY <1>6, <1>7, <1>8

\* close_stream.
LEMMA CloseType ==
  ASSUME StreamsOK, BuffersOK, FrameOK, NEW s \in Streams, Close(s),
         UNCHANGED <<cw, loops>>, pc' = pc \/ pc' # "read"
  PROVE  StreamsOK' /\ BuffersOK' /\ FrameOK'
<1>1. CASE finSent[s] BY <1>1, ReapType DEF Close
<1>2. CASE ~finSent[s]
  BY <1>2 DEF Close, Shut, dataVars, StreamsOK, BuffersOK, FrameOK, FrameFacts, FrameSet
<1> QED BY <1>1, <1>2

\* prepare_client_payload leaves the buffers well formed.
LEMMA PrepareBuffers ==
  ASSUME BuffersOK, NEW s \in Streams, NEW f, f.len \in 0..MaxFrame,
         Prepare(f, s), UNCHANGED pend
  PROVE  BuffersOK'
<1>1. Accepting(buf[s], f.len) \in BufSet /\ BufFits(Accepting(buf[s], f.len))
  BY AcceptingType DEF BuffersOK
<1>2. \/ buf' = buf
      \/ \E b \in {Accepting(buf[s], f.len), buf[s]} : buf' = [buf EXCEPT ![s] = b]
  BY DEF Prepare
<1> QED BY <1>1, <1>2 DEF BuffersOK

\* It leaves the frame as f but for its flags, or blocked.
LEMMA PrepareFrame ==
  ASSUME NEW s \in Streams, NEW f, FrameFacts(f), f.kind # "NEW" \/ f.len = 0,
         Prepare(f, s)
  PROVE  FrameFacts(fr')
<1>1. CASE fr' = f BY <1>1
<1>2. CASE f.len > 0 /\ fr' = [f EXCEPT !.target = s]
  BY <1>2 DEF FrameFacts, FrameSet
<1>3. CASE f.len > 0 /\ fr' = [f EXCEPT !.target = s, !.blocked = TRUE]
  <2>1. fr' \in FrameSet BY <1>3 DEF FrameFacts, FrameSet
  <2>2. /\ fr'.kind = f.kind /\ fr'.sid = f.sid /\ fr'.len = f.len
        /\ fr'.base = f.base /\ fr'.read = f.read /\ fr'.feed = f.feed
    BY <1>3 DEF FrameFacts, FrameSet
  <2> QED BY <2>1, <2>2, <1>3 DEF FrameFacts
<1>4. ASSUME NEW d \in BOOLEAN, f.len > 0,
             fr' = [f EXCEPT !.target = s, !.checked = TRUE, !.direct = d,
                             !.deferred = @ \/ ~d]
      PROVE  FrameFacts(fr')
  <2>1. fr' \in FrameSet BY <1>4 DEF FrameFacts, FrameSet
  <2>2. /\ fr'.kind = f.kind /\ fr'.sid = f.sid /\ fr'.len = f.len
        /\ fr'.base = f.base /\ fr'.read = f.read /\ fr'.feed = f.feed
    BY <1>4 DEF FrameFacts, FrameSet
  <2> QED BY <2>1, <2>2, <1>4 DEF FrameFacts
<1> QED BY <1>1, <1>2, <1>3, <1>4 DEF Prepare, Fits

\* append_client_data.
LEMMA AppendDataType ==
  ASSUME StreamsOK, BuffersOK, FrameOK, NEW s \in Streams,
         NEW k \in Nat, k <= fr.len, AppendData(s, k)
  PROVE  BuffersOK' /\ tokens' \in 0..MaxRecv /\ procQ' \in Seq(Streams)
<1> DEFINE d == Payload(k)
           b == Accepting(buf[s], Len(d))
           fits == Fits(s, b, Len(d))
<1>1. d \in Seq(Bytes) /\ Len(d) = fr.len - k BY PayloadType
<1>2. Len(d) \in 0..MaxFrame
  BY <1>1, Constants DEF FrameOK, FrameFacts, FrameSet
<1>3. b \in BufSet /\ BufFits(b) /\ buf[s] \in BufSet
  BY <1>2, AcceptingType DEF BuffersOK
<1>4. CASE d = <<>>
  BY <1>4 DEF AppendData, BuffersOK, StreamsOK
<1>5. CASE d # <<>>
  <2>1. /\ buf' = [buf EXCEPT ![s] = IF fits THEN [b EXCEPT !.data = @ \o d]
                                     ELSE IF pend[s] = <<>> THEN b ELSE @]
        /\ pend' = [pend EXCEPT ![s] = IF fits THEN @ ELSE @ \o d]
        /\ tokens' = Take(tokens, Len(d))
        /\ procQ' = IF Queued(procQ, s) THEN procQ ELSE Append(procQ, s)
    BY <1>5 DEF AppendData
  <2>2. tokens' \in 0..MaxRecv
    BY <2>1, <1>2, TakeType DEF StreamsOK
  <2>3. procQ' \in Seq(Streams)
    BY <2>1, AppendProperties DEF StreamsOK
  <2>4. pend[s] \o d \in Seq(Bytes)
    BY <1>1, ConcatProperties DEF BuffersOK
  <2>5. fits => [b EXCEPT !.data = @ \o d] \in BufSet
                /\ BufFits([b EXCEPT !.data = @ \o d])
    BY <1>1, <1>2, <1>3, FillType DEF Fits
  <2>6. BuffersOK'
    <3> HIDE DEF d, b, fits
    <3> QED BY <2>1, <2>4, <2>5, <1>3 DEF BuffersOK
  <2> QED BY <2>2, <2>3, <2>6
<1> QED BY <1>4, <1>5

\* The frame in progress is untouched.
LEMMA FrameKept ==
  ASSUME FrameOK, fr' = fr, loops' = loops, pc' = pc \/ pc' # "read"
  PROVE  FrameOK'
BY DEF FrameOK, FrameFacts

\* No frame is in progress.
LEMMA FrameGone ==
  ASSUME fr' = NoFrame
  PROVE  FrameOK'
<1>1. FrameFacts(NoFrame)
  BY Constants DEF FrameFacts, NoFrame, FrameSet
<1>2. NoFrame.kind = "none" BY DEF NoFrame
<1> QED BY <1>1, <1>2 DEF FrameOK, FrameFacts

\* Clearing flags of a payload and receiving n more bytes of it.
LEMMA SettledFrame ==
  ASSUME FrameOK, NEW n \in Nat, n <= fr.len - fr.read,
         n > 0 => fr.feed = 0
  PROVE  /\ Settled \in FrameSet /\ FrameFacts(Settled)
         /\ FrameFacts([Settled EXCEPT !.read = @ + n])
         /\ Settled.read = fr.read
<1> DEFINE f == Settled
           g == [f EXCEPT !.read = @ + n]
<1>1. fr \in FrameSet /\ fr.read \in Nat /\ fr.len \in Nat /\ fr.feed \in Nat
  BY DEF FrameOK, FrameFacts, FrameSet
<1>2. /\ (fr.direct /\ Storing) \in BOOLEAN
      /\ (fr.deferred /\ Storing) \in BOOLEAN
      /\ (fr.deferred /\ Storing) => fr.deferred
  BY <1>1 DEF FrameSet
<1>3. f \in FrameSet
  BY <1>1, <1>2 DEF Settled, FrameSet
<1>4. /\ f.kind = fr.kind /\ f.sid = fr.sid /\ f.len = fr.len
      /\ f.base = fr.base /\ f.read = fr.read /\ f.feed = fr.feed
      /\ f.target = fr.target /\ f.deferred = (fr.deferred /\ Storing)
  BY <1>1 DEF Settled, FrameSet
<1>5. FrameFacts(f)
  <2> HIDE DEF f
  <2> QED BY <1>2, <1>3, <1>4 DEF FrameOK, FrameFacts
<1>6. FrameFacts(g)
  <2>1. /\ g \in FrameSet
        /\ g.kind = f.kind /\ g.sid = f.sid /\ g.len = f.len
        /\ g.base = f.base /\ g.read = f.read + n /\ g.feed = f.feed
        /\ g.target = f.target /\ g.deferred = f.deferred
    <3> HIDE DEF f
    <3> QED BY <1>1, <1>3, <1>4 DEF FrameSet
  <2> HIDE DEF f, g
  <2> QED BY <2>1, <1>1, <1>4, <1>5 DEF FrameFacts
<1> QED BY <1>3, <1>4, <1>5, <1>6

----------------------------------------------------------------------------
(* The actions that change several parts of the invariant.                 *)

\* Flush_to_upstream sends n bytes.
LEMMA SendType ==
  ASSUME HandlerOK, StreamsOK, BuffersOK, FrameOK,
         NEW n \in 1..Budget, Send(n)
  PROVE  StreamsOK' /\ BuffersOK' /\ FrameOK'
<1> DEFINE d == buf[cur].data
           b == [buf[cur] EXCEPT !.data = SubSeq(@, n + 1, Len(@)), !.off = @ + n]
<1>1. cur \in Streams BY DEF HandlerOK, Send
<1>2. buf[cur] \in BufSet /\ BufFits(buf[cur]) /\ d \in Seq(Bytes) /\ Len(d) \in Nat
  BY <1>1 DEF BuffersOK, BufSet
<1>3. n \in 0..Len(d)
  <2>1. n <= Smaller(Len(d), budget) BY Zenon DEF Send
  <2>2. budget \in Nat /\ n \in Nat BY Constants DEF HandlerOK
  <2> HIDE DEF d
  <2> QED BY <1>2, <2>1, <2>2 DEF Smaller
<1>4. StreamsOK'
  <2>1. tokens' \in 0..MaxRecv BY RefundType DEF StreamsOK, Send
  <2>2. posted' \in BOOLEAN
    BY Zenon DEF StreamsOK, Send, Resumed, BlockedReady, ClientBlocked
  <2>3. up' \in [Streams -> Nat] /\ upFull' \in [Streams -> BOOLEAN]
    BY <1>1 DEF StreamsOK, Send
  <2> QED BY <2>1, <2>2, <2>3 DEF StreamsOK, Send
<1>5. BuffersOK'
  <2>1. b \in BufSet /\ BufFits(b) BY <1>2, <1>3, CutType
  <2>2. buf' = [buf EXCEPT ![cur] = b] /\ pend' = pend
    BY <1>1 DEF Send, BuffersOK, BufSet
  <2> HIDE DEF b
  <2> QED BY <2>1, <2>2, <1>1 DEF BuffersOK
<1>6. FrameOK'
  BY FrameKept DEF Send
<1> QED BY <1>4, <1>5, <1>6

\* process_stream ends outside the read loop.
LEMMA EndProcessAway ==
  ASSUME HandlerOK, EndProcess
  PROVE  pc' # "read"
BY DEF HandlerOK, EndProcess

\* A failed send closes the stream.
LEMMA SendErrorType ==
  ASSUME HandlerOK, StreamsOK, BuffersOK, FrameOK, SendError
  PROVE  StreamsOK' /\ BuffersOK' /\ FrameOK'
<1>1. /\ cur \in Streams /\ Close(cur) /\ UNCHANGED <<cw, loops>>
      /\ pc' # "read"
  BY EndProcessAway DEF HandlerOK, SendError, Sending
<1> QED BY <1>1, CloseType

\* A spent budget queues the stream.
LEMMA SendBusyType ==
  ASSUME HandlerOK, StreamsOK, BuffersOK, FrameOK, SendBusy
  PROVE  StreamsOK' /\ BuffersOK' /\ FrameOK'
<1>1. /\ cur \in Streams /\ procQ' = QueueProcess(procQ, cur)
      /\ UNCHANGED <<loops, cw, streamVars, tokens, fr>> /\ pc' # "read"
  BY EndProcessAway DEF HandlerOK, SendBusy, Sending
<1>2. posted' \in BOOLEAN BY Zenon DEF SendBusy, StreamsOK
<1>3. procQ' \in Seq(Streams) BY <1>1, QueueProcessType DEF StreamsOK
<1> QED
  BY <1>1, <1>2, <1>3, FrameKept
  DEF StreamsOK, BuffersOK, streamVars, dataVars, endVars

\* An emptied buffer is reset, and the upstream perhaps half-closed.
LEMMA SendDoneType ==
  ASSUME HandlerOK, StreamsOK, BuffersOK, FrameOK, SendDone
  PROVE  StreamsOK' /\ BuffersOK' /\ FrameOK'
<1> DEFINE b == [buf[cur] EXCEPT !.off = 0]
<1>1. cur \in Streams BY DEF HandlerOK, SendDone
<1>2. StreamsOK'
  <2>1. wrShut' \in [Streams -> BOOLEAN] BY <1>1 DEF StreamsOK, SendDone
  <2> QED BY <2>1 DEF StreamsOK, SendDone
<1>3. BuffersOK'
  <2>1. b \in BufSet /\ BufFits(b)
    BY <1>1, CompactType DEF BuffersOK, Compact
  <2>2. buf' = [buf EXCEPT ![cur] = b] /\ pend' = pend
    BY DEF SendDone
  <2> HIDE DEF b
  <2> QED BY <1>1, <2>1, <2>2 DEF BuffersOK
<1>4. FrameOK' BY FrameKept DEF SendDone
<1> QED BY <1>2, <1>3, <1>4

\* Drain_pending_frames moves what fits of a pending frame.
LEMMA DrainType ==
  ASSUME HandlerOK, StreamsOK, BuffersOK, FrameOK,
         NEW c \in 1..MaxFrame, Drain(c)
  PROVE  StreamsOK' /\ BuffersOK' /\ FrameOK'
<1> DEFINE e == Ensure(buf[cur], c)
           b == IF Room(e) = 0 THEN Compact(e) ELSE e
           n == Smaller(Room(b), c)
           q == pend[cur]
<1>1. cur \in Streams BY DEF HandlerOK, Drain
<1>2. e \in BufSet /\ BufFits(e) BY <1>1, Constants, EnsureType DEF BuffersOK
<1>3. b \in BufSet /\ BufFits(b) /\ Room(b) \in Nat
  <2> HIDE DEF e
  <2> QED BY <1>2, CompactType
<1>4. q \in Seq(Bytes) /\ n \in 0..Len(q) /\ n <= Room(b)
  <2>1. q \in Seq(Bytes) /\ c <= Len(q) /\ Len(q) \in Nat
    BY <1>1 DEF BuffersOK, Drain
  <2> HIDE DEF b, q
  <2> QED BY <1>3, <2>1 DEF Smaller
<1>5. SubSeq(q, 1, n) \in Seq(Bytes) /\ Len(SubSeq(q, 1, n)) = n
      /\ SubSeq(q, n + 1, Len(q)) \in Seq(Bytes)
  BY <1>4, SubSeqType
<1>6. /\ [b EXCEPT !.data = @ \o SubSeq(q, 1, n)] \in BufSet
      /\ BufFits([b EXCEPT !.data = @ \o SubSeq(q, 1, n)])
  <2> HIDE DEF b, n, q
  <2> QED BY <1>3, <1>4, <1>5, FillType
<1>7. /\ buf' = [buf EXCEPT ![cur] = [b EXCEPT !.data = @ \o SubSeq(q, 1, n)]]
      /\ pend' = [pend EXCEPT ![cur] = SubSeq(q, n + 1, Len(q))]
  BY DEF Drain
<1>8. BuffersOK'
  <2> HIDE DEF b, n, q
  <2> QED BY <1>1, <1>5, <1>6, <1>7 DEF BuffersOK
<1>9. StreamsOK' BY DEF Drain, StreamsOK, endVars
<1>10. pc' # "read" /\ fr' = fr /\ loops' = loops BY DEF Drain
<1> QED BY <1>8, <1>9, <1>10, FrameKept

\* The end of process_stream.
LEMMA ProcessTailType ==
  ASSUME HandlerOK, StreamsOK, BuffersOK, FrameOK, ProcessTail
  PROVE  StreamsOK' /\ BuffersOK' /\ FrameOK'
<1>1. cur \in Streams /\ UNCHANGED <<cw, loops>> /\ pc' # "read"
  BY EndProcessAway DEF HandlerOK, ProcessTail
<1>2. CASE Close(cur) BY <1>1, <1>2, CloseType
<1>3. CASE ~Close(cur)
  <2>1. PICK eof \in {upEof[cur], TRUE} :
          /\ upEof' = [upEof EXCEPT ![cur] = eof]
          /\ posted' = Resumed(tokens)
          /\ UNCHANGED <<st, dataVars, clientFin, wrShut, finSent, upFull,
                         procQ, tokens, fr>>
    BY <1>3 DEF ProcessTail
  <2>2. posted' \in BOOLEAN
    BY <2>1, Zenon DEF StreamsOK, Resumed, BlockedReady, ClientBlocked
  <2>3. upEof' \in [Streams -> BOOLEAN]
    <3>1. eof \in BOOLEAN BY <1>1 DEF StreamsOK
    <3> QED BY <2>1, <3>1 DEF StreamsOK
  <2>4. StreamsOK' BY <1>1, <2>1, <2>2, <2>3 DEF StreamsOK, dataVars
  <2>5. BuffersOK' BY <2>1 DEF BuffersOK, dataVars
  <2>6. FrameOK' BY <1>1, <2>1, FrameKept
  <2> QED BY <2>4, <2>5, <2>6
<1> QED BY <1>2, <1>3

\* CmdFIN.
LEMMA ReadFinType ==
  ASSUME HandlerOK, StreamsOK, BuffersOK, FrameOK, NEW s \in Streams, ReadFin(s)
  PROVE  StreamsOK' /\ BuffersOK' /\ FrameOK'
<1>1. /\ UNCHANGED <<posted, cw, dataVars, wrShut, finSent, upFull, tokens>>
      /\ fr' = NoFrame
  BY DEF ReadFin, NextFrame
<1>2. /\ st' \in [Streams -> {"absent", "request", "opening", "proxy", "closing"}]
      /\ clientFin' \in [Streams -> BOOLEAN] /\ upEof' \in [Streams -> BOOLEAN]
  BY DEF StreamsOK, ReadFin, Shut
<1>3. procQ' \in Seq(Streams)
  BY QueueProcessType DEF StreamsOK, ReadFin
<1>4. StreamsOK' BY <1>1, <1>2, <1>3 DEF StreamsOK, dataVars
<1>5. BuffersOK' BY <1>1 DEF BuffersOK, dataVars
<1> QED BY <1>1, <1>4, <1>5, FrameGone

\* The header of a data frame, and the admission of its payload.
LEMMA ReadHeaderType ==
  ASSUME HandlerOK, StreamsOK, BuffersOK, FrameOK,
         NEW k \in {"PSH", "NEW", "KEEP", "END"}, NEW s \in Streams,
         NEW n \in 0..MaxFrame, ReadHeader(k, s, n)
  PROVE  StreamsOK' /\ BuffersOK' /\ FrameOK'
<1> DEFINE live == k # "NEW" /\ s \in Live
           base == IF live THEN sent[s] ELSE 0
           f == [NoFrame EXCEPT !.kind = k, !.sid = s, !.len = n, !.base = base]
<1>1. /\ base + n <= MaxData
      /\ sent' = [sent EXCEPT ![s] = IF live THEN @ + n ELSE @]
      /\ \/ live /\ Prepare(f, s)
         \/ ~live /\ fr' = f /\ UNCHANGED <<pc, budget, loops, buf>>
      /\ UNCHANGED <<posted, cw, st, req, pend, up, endVars, procQ, tokens>>
      /\ pc = "read" /\ loops < MaxLoops
  BY DEF ReadHeader, AtHeader
<1>2. base \in Nat /\ sent[s] \in Nat /\ n \in Nat BY Constants DEF StreamsOK
<1>3. /\ f \in FrameSet /\ f.kind = k /\ f.sid = s /\ f.len = n /\ f.base = base
      /\ f.read = 0 /\ f.feed = 0 /\ f.target = NoStream /\ f.deferred = FALSE
  <2> HIDE DEF base
  <2> QED BY <1>2 DEF NoFrame, FrameSet
<1>4. FrameFacts(f)
  <2> HIDE DEF f, base
  <2> QED BY <1>1, <1>2, <1>3, Constants DEF FrameFacts
<1>5. StreamsOK'
  <2>1. sent' \in [Streams -> 0..MaxData]
    <3>1. live => sent[s] + n \in 0..MaxData BY <1>1, <1>2
    <3> HIDE DEF live
    <3> QED BY <1>1, <3>1 DEF StreamsOK
  <2> QED BY <1>1, <2>1 DEF StreamsOK, endVars
<1>6. CASE ~live /\ fr' = f /\ UNCHANGED <<pc, budget, loops, buf>>
  <2>1. FrameOK'
    <3> HIDE DEF f, live
    <3> QED BY <1>1, <1>4, <1>6 DEF FrameOK, FrameFacts
  <2>2. BuffersOK' BY <1>1, <1>6 DEF BuffersOK
  <2> QED BY <1>5, <2>1, <2>2
<1>7. CASE live /\ Prepare(f, s)
  <2>1. BuffersOK'
    <3> HIDE DEF f
    <3> QED BY <1>1, <1>3, <1>7, PrepareBuffers
  <2>2. FrameFacts(fr')
    <3>1. f.kind # "NEW" BY <1>3, <1>7
    <3> HIDE DEF f
    <3> QED BY <3>1, <1>4, <1>7, PrepareFrame
  <2>3. pc' = "read" => loops' = loops
    <3> HIDE DEF f
    <3> QED BY <1>7 DEF Prepare, LeaveRead
  <2>4. FrameOK' BY <1>1, <2>2, <2>3 DEF FrameOK, FrameFacts
  <2> QED BY <1>5, <2>1, <2>4
<1> QED BY <1>1, <1>6, <1>7

\* A blocked payload is prepared again.
LEMMA RecheckType ==
  ASSUME HandlerOK, StreamsOK, BuffersOK, FrameOK, Recheck
  PROVE  StreamsOK' /\ BuffersOK' /\ FrameOK'
<1> DEFINE f == [fr EXCEPT !.blocked = FALSE]
           s == fr.target
<1>1. /\ pc = "read" /\ Prepare(f, s) /\ s # NoStream /\ fr.len > 0
      /\ UNCHANGED <<posted, cw, st, req, pend, sent, up, endVars, procQ, tokens>>
  BY DEF Recheck, MustPrepare, TargetIn
<1>2. fr \in FrameSet BY DEF FrameOK, FrameFacts
<1>3. s \in Streams /\ fr.len \in Nat BY <1>1, <1>2 DEF FrameSet
<1>4. /\ f \in FrameSet /\ f.kind = fr.kind /\ f.sid = fr.sid /\ f.len = fr.len
      /\ f.base = fr.base /\ f.read = fr.read /\ f.feed = fr.feed
      /\ f.target = fr.target /\ f.deferred = fr.deferred
  BY <1>2 DEF FrameSet
<1>5. FrameFacts(f) /\ f.kind # "NEW" /\ f.len \in 0..MaxFrame
  <2>1. fr.kind # "NEW" BY <1>1 DEF FrameOK, FrameFacts
  <2> HIDE DEF f
  <2> QED BY <1>3, <1>4, <2>1, Constants DEF FrameOK, FrameFacts
<1>6. StreamsOK' BY <1>1 DEF StreamsOK, endVars
<1>7. BuffersOK'
  <2> HIDE DEF f, s
  <2> QED BY <1>1, <1>3, <1>5, PrepareBuffers
<1>8. FrameOK'
  <2> HIDE DEF f, s
  <2>1. FrameFacts(fr') BY <1>1, <1>3, <1>5, PrepareFrame
  <2>2. pc' = "read" => loops' = loops BY <1>1 DEF Prepare, LeaveRead
  <2>3. fr'.kind = fr.kind
    <3>1. \/ fr' = f
          \/ fr' = [f EXCEPT !.target = s]
          \/ fr' = [f EXCEPT !.target = s, !.blocked = TRUE]
          \/ \E d \in BOOLEAN :
               fr' = [f EXCEPT !.target = s, !.checked = TRUE, !.direct = d,
                               !.deferred = @ \/ ~d]
      BY <1>1 DEF Prepare, Fits
    <3> QED BY <3>1, <1>4 DEF FrameSet
  <2> QED BY <1>1, <2>1, <2>2, <2>3 DEF FrameOK, FrameFacts
<1> QED BY <1>6, <1>7, <1>8

\* The frame a piece of payload was received for.
LEMMA ReceivingFrame ==
  ASSUME HandlerOK, FrameOK, NEW n \in 1..MaxFrame, Receiving(n),
         fr' = [Settled EXCEPT !.read = @ + n],
         UNCHANGED <<pc, loops>>
  PROVE  FrameOK' /\ fr.feed = 0 /\ fr.read \in Nat /\ fr.read + n <= fr.len
<1>1. /\ fr.read \in Nat /\ fr.len \in Nat /\ n <= fr.len - fr.read /\ pc = "read"
      /\ fr.feed \in Nat /\ fr.kind # "none"
  <2>1. /\ fr.read \in Nat /\ fr.len \in Nat /\ fr.feed \in Nat
        /\ n <= fr.len - fr.read /\ pc = "read"
    BY DEF Receiving, FrameOK, FrameFacts, FrameSet
  <2>2. fr.kind = "none" => fr.len = 0 BY DEF FrameOK, FrameFacts
  <2> QED BY <2>1, <2>2
<1>2. fr.feed = 0 BY <1>1 DEF FrameOK, FrameFacts
<1>3. FrameFacts(fr')
  BY <1>1, <1>2, SettledFrame
<1>4. FrameOK' BY <1>1, <1>3 DEF FrameOK, FrameFacts
<1> QED BY <1>1, <1>2, <1>4

\* The first n bytes of what is still unread.
LEMMA PieceType ==
  ASSUME FrameOK, NEW k \in Nat, NEW n \in Nat, k + n <= fr.len
  PROVE  /\ SubSeq(Payload(k), 1, n) \in Seq(Bytes)
         /\ Len(SubSeq(Payload(k), 1, n)) = n
<1>1. fr.len \in Nat /\ k <= fr.len BY DEF FrameOK, FrameFacts, FrameSet
<1>2. Payload(k) \in Seq(Bytes) /\ n \in 0..Len(Payload(k))
  BY <1>1, PayloadType
<1> QED BY <1>2, SubSeqType

\* Payload received in the stream's own buffer.
LEMMA ReadDirectType ==
  ASSUME HandlerOK, StreamsOK, BuffersOK, FrameOK,
         NEW n \in 1..MaxFrame, ReadDirect(n)
  PROVE  StreamsOK' /\ BuffersOK' /\ FrameOK'
<1> DEFINE s == fr.target
           e == Ensure(buf[s], fr.len - fr.read)
           b == IF Room(e) = 0 THEN Compact(e) ELSE e
           d == SubSeq(Payload(fr.read), 1, n)
<1>1. /\ Receiving(n) /\ s # NoStream /\ n <= Room(b)
      /\ buf' = [buf EXCEPT ![s] = [b EXCEPT !.data = @ \o d]]
      /\ tokens' = Take(tokens, n) /\ procQ' = QueueProcess(procQ, s)
      /\ fr' = [Settled EXCEPT !.read = @ + n]
      /\ UNCHANGED <<handlerVars, posted, cw, st, req, pend, sent, up, endVars>>
  BY DEF ReadDirect, Storing
<1>2. FrameOK' /\ fr.read \in Nat /\ fr.read + n <= fr.len
  BY <1>1, ReceivingFrame DEF handlerVars
<1>3. s \in Streams /\ fr.len \in Nat /\ fr.len <= MaxFrame
  BY <1>1 DEF FrameOK, FrameFacts, FrameSet
<1>4. n \in Nat /\ fr.len - fr.read \in 0..MaxFrame BY <1>2, <1>3, Constants
<1>5. StreamsOK'
  <2>1. tokens' \in 0..MaxRecv BY <1>1, <1>4, TakeType DEF StreamsOK
  <2>2. procQ' \in Seq(Streams) BY <1>1, <1>3, QueueProcessType DEF StreamsOK
  <2> QED BY <1>1, <2>1, <2>2 DEF StreamsOK, endVars
<1>6. BuffersOK'
  <2>1. e \in BufSet /\ BufFits(e)
    BY <1>3, <1>4, EnsureType DEF BuffersOK
  <2>2. b \in BufSet /\ BufFits(b)
    <3> HIDE DEF e
    <3> QED BY <2>1, CompactType
  <2>3. d \in Seq(Bytes) /\ Len(d) = n
    BY <1>2, <1>3, <1>4, PieceType
  <2> HIDE DEF s, b, d
  <2>4. [b EXCEPT !.data = @ \o d] \in BufSet /\ BufFits([b EXCEPT !.data = @ \o d])
    BY <1>1, <2>2, <2>3, FillType
  <2> QED BY <1>1, <1>3, <2>4 DEF BuffersOK
<1> QED BY <1>2, <1>5, <1>6

\* Payload received behind the pending frames.
LEMMA ReadDeferredType ==
  ASSUME HandlerOK, StreamsOK, BuffersOK, FrameOK,
         NEW n \in 1..MaxFrame, ReadDeferred(n)
  PROVE  StreamsOK' /\ BuffersOK' /\ FrameOK'
<1> DEFINE s == fr.target
           d == SubSeq(Payload(fr.read), 1, n)
<1>1. /\ Receiving(n) /\ s # NoStream
      /\ pend' = [pend EXCEPT ![s] = @ \o d]
      /\ tokens' = Take(tokens, n) /\ procQ' = QueueProcess(procQ, s)
      /\ fr' = [Settled EXCEPT !.read = @ + n]
      /\ UNCHANGED <<handlerVars, posted, cw, st, req, buf, sent, up, endVars>>
  BY DEF ReadDeferred, Storing
<1>2. FrameOK' /\ fr.read \in Nat /\ fr.read + n <= fr.len
  BY <1>1, ReceivingFrame DEF handlerVars
<1>3. s \in Streams /\ fr.len \in Nat /\ n \in Nat
  BY <1>1, Constants DEF FrameOK, FrameFacts, FrameSet
<1>4. StreamsOK'
  <2>1. tokens' \in 0..MaxRecv BY <1>1, <1>3, TakeType DEF StreamsOK
  <2>2. procQ' \in Seq(Streams) BY <1>1, <1>3, QueueProcessType DEF StreamsOK
  <2> QED BY <1>1, <2>1, <2>2 DEF StreamsOK, endVars
<1>5. BuffersOK'
  <2>1. d \in Seq(Bytes)
    BY <1>2, <1>3, PieceType
  <2> HIDE DEF s, d
  <2>2. pend[s] \o d \in Seq(Bytes)
    BY <1>3, <2>1, ConcatProperties DEF BuffersOK
  <2> QED BY <1>1, <1>3, <2>2 DEF BuffersOK
<1> QED BY <1>2, <1>4, <1>5

\* Start_stream leaves the stream in one of its states.
LEMMA StartType ==
  ASSUME StreamsOK, NEW s \in Streams,
         NEW to \in {"request", "opening", "proxy", "closing"}, Start(s, to)
  PROVE  /\ st' \in [Streams -> {"absent", "request", "opening", "proxy", "closing"}]
         /\ clientFin' \in [Streams -> BOOLEAN] /\ upEof' \in [Streams -> BOOLEAN]
<1>1. st' \in [Streams -> {"absent", "request", "opening", "proxy", "closing"}]
  BY DEF StreamsOK, Start
<1>2. clientFin' \in [Streams -> BOOLEAN]
  <2>1. (clientFin[s] \/ to = "closing") \in BOOLEAN BY DEF StreamsOK
  <2>2. clientFin' = [clientFin EXCEPT ![s] = @ \/ to = "closing"] BY DEF Start
  <2> QED BY <2>1, <2>2 DEF StreamsOK
<1>3. upEof' \in [Streams -> BOOLEAN]
  <2>1. PICK eof \in {to = "closing", to \in {"closing", "proxy"}} :
          upEof' = [upEof EXCEPT ![s] = eof]
    BY Zenon DEF Start
  <2>2. eof \in BOOLEAN
    <3>1. eof = (to = "closing") \/ eof = (to \in {"closing", "proxy"})
      OBVIOUS
    <3>2. CASE eof = (to = "closing") BY <3>2
    <3>3. CASE eof = (to \in {"closing", "proxy"}) BY <3>3
    <3> QED BY <3>1, <3>2, <3>3
  <2> QED BY <2>1, <2>2 DEF StreamsOK
<1> QED BY <1>1, <1>2, <1>3

\* Request bytes fed to a stream.
LEMMA FeedRequestType ==
  ASSUME HandlerOK, StreamsOK, BuffersOK, FrameOK, FeedRequest
  PROVE  StreamsOK' /\ BuffersOK' /\ FrameOK'
<1> DEFINE s == fr.target
           n == Smaller(ReqLen - req[s], fr.len - fr.feed)
<1>1. /\ FrameRead /\ fr.kind = "PSH" /\ s # NoStream /\ fr.feed < fr.len
      /\ req' = [req EXCEPT ![s] = @ + n] /\ fr' = [fr EXCEPT !.feed = @ + n]
      /\ UNCHANGED <<handlerVars, posted, cw, buf, pend, sent, up, wrShut,
                     finSent, upFull, procQ, tokens>>
  BY DEF FeedRequest, TargetIn
<1>2. PICK to \in {"request", "opening", "proxy", "closing"} : Start(s, to)
  BY DEF FeedRequest, StartOutcomes
<1>3. s \in Streams /\ fr \in FrameSet /\ fr.len \in Nat /\ fr.feed \in Nat
  BY <1>1 DEF FrameOK, FrameFacts, FrameSet
<1>4. n \in Nat /\ req[s] + n \in 0..ReqLen /\ fr.feed + n \in Nat
      /\ fr.feed + n <= fr.len
  <2>1. req[s] \in 0..ReqLen BY <1>3 DEF StreamsOK
  <2> HIDE DEF s
  <2> QED BY <1>1, <1>3, <2>1, Constants DEF Smaller
<1>5. StreamsOK'
  <2>1. req' \in [Streams -> 0..ReqLen]
    <3> HIDE DEF s, n
    <3> QED BY <1>1, <1>3, <1>4 DEF StreamsOK
  <2> HIDE DEF s
  <2> QED BY <1>1, <1>2, <1>3, <2>1, StartType DEF StreamsOK
<1>6. BuffersOK' BY <1>1 DEF BuffersOK
<1>7. FrameOK'
  <2> HIDE DEF s, n
  <2>1. /\ fr' \in FrameSet /\ fr'.kind = fr.kind /\ fr'.sid = fr.sid
        /\ fr'.len = fr.len /\ fr'.base = fr.base /\ fr'.read = fr.read
        /\ fr'.feed = fr.feed + n /\ fr'.target = fr.target
    BY <1>1, <1>3, <1>4 DEF FrameSet
  <2> QED BY <1>1, <1>4, <2>1 DEF FrameOK, FrameFacts, FrameRead, handlerVars
<1> QED BY <1>5, <1>6, <1>7

\* The bytes that follow a request.
LEMMA FeedDataType ==
  ASSUME HandlerOK, StreamsOK, BuffersOK, FrameOK, FeedData
  PROVE  StreamsOK' /\ BuffersOK' /\ FrameOK'
<1> DEFINE s == fr.target
<1>1. /\ FrameRead /\ fr.kind = "PSH" /\ s # NoStream /\ fr.feed < fr.len
      /\ UNCHANGED <<posted, cw, st, req, sent, up, endVars>>
  BY DEF FeedData, TargetIn
<1>2. fr \in FrameSet /\ s \in Streams /\ fr.feed \in Nat /\ fr.feed <= fr.len
  BY <1>1 DEF FrameOK, FrameFacts, FrameSet
<1>3. CASE AppendData(s, fr.feed) /\ NextFrame
  <2>1. BuffersOK' /\ tokens' \in 0..MaxRecv /\ procQ' \in Seq(Streams)
    <3> HIDE DEF s
    <3> QED BY <1>2, <1>3, AppendDataType
  <2>2. StreamsOK' BY <1>1, <2>1 DEF StreamsOK, endVars
  <2> QED BY <1>3, <2>1, <2>2, FrameGone DEF NextFrame
<1>4. CASE /\ fr' = [fr EXCEPT !.blocked = TRUE] /\ LeaveRead
           /\ UNCHANGED <<buf, pend, tokens, procQ>>
  <2>1. StreamsOK' /\ BuffersOK'
    BY <1>1, <1>4 DEF StreamsOK, BuffersOK, endVars
  <2>2. /\ fr' \in FrameSet /\ fr'.kind = fr.kind /\ fr'.sid = fr.sid
        /\ fr'.len = fr.len /\ fr'.base = fr.base /\ fr'.read = fr.read
        /\ fr'.feed = fr.feed /\ fr'.target = fr.target
    BY <1>2, <1>4 DEF FrameSet
  <2> QED BY <1>1, <1>4, <2>1, <2>2 DEF FrameOK, FrameFacts, LeaveRead
<1> QED BY <1>3, <1>4 DEF FeedData

\* STATUS_NEW.
LEMMA HandleNewType ==
  ASSUME HandlerOK, StreamsOK, BuffersOK, FrameOK, HandleNew
  PROVE  StreamsOK' /\ BuffersOK' /\ FrameOK'
<1> DEFINE s == fr.sid
<1>1. /\ FrameRead /\ fr.kind = "NEW"
      /\ UNCHANGED <<posted, cw, req, up, wrShut, finSent, upFull>>
  BY DEF HandleNew
<1>2. /\ fr \in FrameSet /\ s \in Streams /\ fr.len \in Nat /\ fr.base \in Nat
      /\ fr.target = NoStream /\ fr.feed = 0 /\ ~fr.deferred
  BY <1>1 DEF FrameOK, FrameFacts, FrameSet
<1>3. CASE /\ fr' = [fr EXCEPT !.blocked = TRUE] /\ LeaveRead
           /\ UNCHANGED <<st, sent, buf, pend, tokens, procQ, upEof, clientFin>>
  <2>1. StreamsOK' /\ BuffersOK'
    BY <1>1, <1>3 DEF StreamsOK, BuffersOK
  <2>2. /\ fr' \in FrameSet /\ fr'.kind = fr.kind /\ fr'.sid = fr.sid
        /\ fr'.len = fr.len /\ fr'.base = fr.base /\ fr'.read = fr.read
        /\ fr'.feed = fr.feed /\ fr'.target = fr.target
        /\ fr'.deferred = fr.deferred
    BY <1>2, <1>3 DEF FrameSet
  <2> QED BY <1>1, <1>3, <2>1, <2>2 DEF FrameOK, FrameFacts, LeaveRead
<1>4. CASE Enough(fr.len)
  <2>1. /\ sent' = [sent EXCEPT ![s] = fr.len] /\ NextFrame
    BY <1>4 DEF HandleNew
  <2>2. PICK to \in {"opening", "proxy", "closing"} :
          /\ Start(s, to)
          /\ \/ AppendData(s, 0)
             \/ UNCHANGED <<buf, pend, tokens, procQ>>
    BY <1>4 DEF HandleNew, StartOutcomes
  <2>3. BuffersOK' /\ tokens' \in 0..MaxRecv /\ procQ' \in Seq(Streams)
    <3>1. CASE AppendData(s, 0)
      <4> HIDE DEF s
      <4> QED BY <3>1, <1>2, AppendDataType
    <3>2. CASE UNCHANGED <<buf, pend, tokens, procQ>>
      BY <3>2 DEF BuffersOK, StreamsOK
    <3> QED BY <2>2, <3>1, <3>2
  <2>4. sent' \in [Streams -> 0..MaxData]
    <3>1. fr.len \in 0..MaxData BY <1>2, Constants DEF FrameOK, FrameFacts
    <3> QED BY <1>2, <2>1, <3>1 DEF StreamsOK
  <2>5. /\ st' \in [Streams -> {"absent", "request", "opening", "proxy", "closing"}]
        /\ clientFin' \in [Streams -> BOOLEAN] /\ upEof' \in [Streams -> BOOLEAN]
    <3> HIDE DEF s
    <3> QED BY <1>2, <2>2, StartType
  <2>6. StreamsOK' BY <1>1, <2>3, <2>4, <2>5 DEF StreamsOK
  <2> QED BY <2>1, <2>3, <2>6, FrameGone DEF NextFrame
<1> QED BY <1>3, <1>4 DEF HandleNew

\* A complete frame whose payload is stored.
LEMMA HandleStoredType ==
  ASSUME HandlerOK, StreamsOK, BuffersOK, FrameOK, HandleStored
  PROVE  StreamsOK' /\ BuffersOK' /\ FrameOK'
<1> DEFINE s == fr.sid
<1>1. /\ FrameRead /\ fr.kind # "none" /\ NextFrame
      /\ UNCHANGED <<posted, cw, st, dataVars, wrShut, upEof, finSent, upFull,
                     tokens>>
  BY DEF HandleStored, FrameRead
<1>2. s \in Streams BY <1>1 DEF FrameOK, FrameFacts
<1>3. clientFin' \in [Streams -> BOOLEAN]
  <2>1. clientFin' = [clientFin EXCEPT ![s] = @ \/ (fr.kind = "END" /\ s \in Live)]
    BY DEF HandleStored
  <2>2. (clientFin[s] \/ (fr.kind = "END" /\ s \in Live)) \in BOOLEAN
    BY <1>2 DEF StreamsOK
  <2> HIDE DEF s
  <2> QED BY <1>2, <2>1, <2>2 DEF StreamsOK
<1>4. procQ' \in Seq(Streams)
  <2>1. procQ' \in {procQ, QueueProcess(procQ, s)} BY DEF HandleStored
  <2> HIDE DEF s
  <2> QED BY <1>2, <2>1, QueueProcessType DEF StreamsOK
<1>5. StreamsOK' BY <1>1, <1>3, <1>4 DEF StreamsOK, dataVars
<1>6. BuffersOK' BY <1>1 DEF BuffersOK, dataVars
<1> QED BY <1>1, <1>5, <1>6, FrameGone DEF NextFrame

\* Mux_close_streams.
LEMMA SessionEndType ==
  ASSUME HandlerOK, StreamsOK, BuffersOK, FrameOK, SessionEnd
  PROVE  StreamsOK' /\ BuffersOK' /\ FrameOK'
<1>1. posted' = FALSE /\ cw' = TRUE /\ procQ' = <<>> /\ tokens' = MaxRecv
      /\ fr' = NoFrame
  BY DEF SessionEnd
<1>2. /\ st' \in [Streams -> {"absent", "request", "opening", "proxy", "closing"}]
      /\ req' \in [Streams -> 0..ReqLen]
      /\ sent' \in [Streams -> 0..MaxData] /\ up' \in [Streams -> Nat]
  BY Constants DEF SessionEnd
<1>3. /\ clientFin' \in [Streams -> BOOLEAN] /\ wrShut' \in [Streams -> BOOLEAN]
      /\ upEof' \in [Streams -> BOOLEAN] /\ finSent' \in [Streams -> BOOLEAN]
      /\ upFull' \in [Streams -> BOOLEAN]
  BY DEF SessionEnd
<1>4. posted' \in BOOLEAN /\ cw' \in BOOLEAN BY <1>1, Zenon
<1>5. StreamsOK' BY <1>1, <1>2, <1>3, <1>4, EmptySeq, Constants DEF StreamsOK
<1>6. BuffersOK'
  <2>1. NoBuf \in BufSet /\ BufFits(NoBuf) BY EmptySeq DEF BufSet, BufFits, NoBuf
  <2> QED BY <2>1, EmptySeq DEF BuffersOK, SessionEnd
<1> QED BY <1>1, <1>5, <1>6, FrameGone

----------------------------------------------------------------------------
(* Every step keeps each part of the invariant.                            *)

\* Handlers move between the points named by pc, with their locals set.
LEMMA HandlerStep ==
  ASSUME HandlerOK, StreamsOK, FrameOK, [Next]_vars
  PROVE  HandlerOK'
<1> USE Constants DEF HandlerOK, PCs
<1>1. CASE PostedRead
  BY <1>1 DEF PostedRead
<1>2. CASE ClientReady
  BY <1>2 DEF ClientReady
<1>3. ASSUME NEW s \in Streams, Opened(s)
      PROVE  HandlerOK'
  <2>1. /\ pc = "idle" /\ budget' = Budget /\ loops' = loops
        /\ StartProcess(s, IF Socks5 THEN "flush" ELSE "idle")
    BY <1>3 DEF Opened
  <2>2. drained' \in BOOLEAN BY <2>1, Zenon DEF StartProcess
  <2> QED BY <2>1, <2>2 DEF StartProcess
<1>4. ASSUME NEW s \in Streams, ConnectFailed(s)
      PROVE  HandlerOK'
  BY <1>4 DEF ConnectFailed
<1>5. ASSUME NEW s \in Streams, ResolveFailed(s)
      PROVE  HandlerOK'
  BY <1>5 DEF ResolveFailed, handlerVars
<1>6. ASSUME NEW s \in Streams, PeerEvent(s)
      PROVE  HandlerOK'
  <2>1. /\ pc = "idle" /\ budget' = Budget /\ loops' = loops
        /\ StartProcess(s, "flush")
    BY <1>6 DEF PeerEvent
  <2>2. drained' \in BOOLEAN BY <2>1, Zenon DEF StartProcess
  <2> QED BY <2>1, <2>2 DEF StartProcess
<1>7. ASSUME NEW s \in Streams, PeerTimeout(s)
      PROVE  HandlerOK'
  BY <1>7 DEF PeerTimeout
<1>8. ASSUME NEW s \in Streams, FlushFin(s)
      PROVE  HandlerOK'
  BY <1>8 DEF FlushFin, handlerVars
<1>9. CASE FlushEnd
  BY <1>9 DEF FlushEnd
<1>10. CASE ProcessEnd
  BY <1>10 DEF ProcessEnd
<1>11. CASE ProcessHead
  <2>1. /\ pc \in {"proc1", "proc2"} /\ UNCHANGED <<budget, loops>>
        /\ \/ Head(procQ) \in Streams /\ StartProcess(Head(procQ), pc)
           \/ UNCHANGED <<pc, ret, cur, drained>>
    BY <1>11 DEF ProcessHead, StreamsOK
  <2>2. drained' \in BOOLEAN BY <2>1, Zenon DEF StartProcess
  <2> QED BY <2>1, <2>2 DEF StartProcess
<1>12. ASSUME NEW n \in 1..Budget, Send(n)
      PROVE  HandlerOK'
  <2>1. /\ n <= Smaller(Len(buf[cur].data), budget) /\ budget' = budget - n
        /\ UNCHANGED <<pc, ret, cur, drained, loops>>
    BY <1>12, Zenon DEF Send
  <2>2. n <= budget
    <3>1. PICK l : l = Len(buf[cur].data) OBVIOUS
    <3>2. (Smaller(l, budget) = l /\ l < budget) \/ Smaller(l, budget) = budget
      BY Zenon DEF Smaller
    <3> QED BY <2>1, <3>1, <3>2
  <2>3. budget' \in 0..Budget BY <2>1, <2>2
  <2> QED BY <2>1, <2>3
<1>13. CASE SendError
  <2>1. pc = "send" /\ EndProcess /\ loops' = loops
    BY <1>13 DEF SendError, Sending
  <2>2. drained' \in BOOLEAN BY <2>1, Zenon DEF EndProcess
  <2> QED BY <2>1, <2>2 DEF EndProcess
<1>14. CASE SendAgain
  BY <1>14 DEF SendAgain, Sending
<1>15. CASE SendBusy
  BY <1>15 DEF SendBusy, EndProcess, Sending
<1>16. CASE SendDone
  BY <1>16 DEF SendDone
<1>17. ASSUME NEW c \in 1..MaxFrame, Drain(c)
      PROVE  HandlerOK'
  BY <1>17 DEF Drain, Smaller
<1>18. CASE DrainEnd
  BY <1>18 DEF DrainEnd
<1>19. CASE ProcessTail
  <2>1. pc = "tail" /\ EndProcess /\ loops' = loops
    BY <1>19 DEF ProcessTail
  <2>2. drained' \in BOOLEAN BY <2>1, Zenon DEF EndProcess
  <2> QED BY <2>1, <2>2 DEF EndProcess
<1>20. CASE ReadAgain
  BY <1>20 DEF ReadAgain, LeaveRead, TargetIn, MustPrepare
<1>21. CASE ReadYield
  BY <1>21 DEF ReadYield, LeaveRead
<1>22. ASSUME NEW s \in Streams, ReadSyn(s)
      PROVE  HandlerOK'
  BY <1>22 DEF ReadSyn, NextFrame, AtHeader
<1>23. ASSUME NEW s \in Streams, ReadFin(s)
      PROVE  HandlerOK'
  BY <1>23 DEF ReadFin, NextFrame, AtHeader, ClientOpen
<1>24. ASSUME NEW k \in {"PSH", "NEW", "KEEP", "END"}, NEW s \in Streams,
             NEW n \in 0..MaxFrame, ReadHeader(k, s, n)
      PROVE  HandlerOK'
  BY <1>24 DEF ReadHeader, LeaveRead, AtHeader, ClientOpen, Prepare
<1>25. CASE Recheck
  BY <1>25 DEF Recheck, LeaveRead, TargetIn, MustPrepare, Prepare
<1>26. ASSUME NEW n \in 1..MaxFrame, ReadDirect(n)
      PROVE  HandlerOK'
  BY <1>26 DEF ReadDirect, handlerVars, Storing, TargetIn, MustPrepare, Receiving
<1>27. ASSUME NEW n \in 1..MaxFrame, ReadDeferred(n)
      PROVE  HandlerOK'
  BY <1>27 DEF ReadDeferred, handlerVars, Storing, TargetIn, MustPrepare, Receiving
<1>28. ASSUME NEW n \in 1..MaxFrame, ReadPlain(n)
      PROVE  HandlerOK'
  BY <1>28 DEF ReadPlain, handlerVars, Storing, TargetIn, MustPrepare, Receiving
<1>29. CASE FeedRequest
  BY <1>29 DEF FeedRequest, handlerVars, TargetIn, FrameRead, Smaller
<1>30. CASE FeedData
  <2>1. /\ pc = "read" /\ fr.kind = "PSH" /\ UNCHANGED <<ret, cur, drained>>
        /\ LeaveRead \/ NextFrame
    BY <1>30 DEF FeedData, FrameRead
  <2>2. drained' \in BOOLEAN BY <2>1, Zenon
  <2> QED BY <2>1, <2>2 DEF LeaveRead, NextFrame, FrameOK, FrameFacts
<1>31. CASE HandleNew
  <2>1. /\ pc = "read" /\ fr.kind = "NEW" /\ UNCHANGED <<ret, cur, drained>>
        /\ LeaveRead \/ NextFrame
    BY <1>31 DEF HandleNew, FrameRead
  <2>2. drained' \in BOOLEAN BY <2>1, Zenon
  <2> QED BY <2>1, <2>2 DEF LeaveRead, NextFrame, FrameOK, FrameFacts
<1>32. CASE HandleStored
  <2>1. /\ pc = "read" /\ fr.kind # "none" /\ UNCHANGED <<ret, cur, drained>>
        /\ NextFrame
    BY <1>32 DEF HandleStored, FrameRead
  <2>2. drained' \in BOOLEAN BY <2>1, Zenon
  <2> QED BY <2>1, <2>2 DEF NextFrame, FrameOK, FrameFacts
<1>33. CASE SessionEnd
  <2>1. /\ pc' = "done" /\ ret' = "idle" /\ cur' = NoStream
        /\ drained' = FALSE /\ budget' = 0 /\ loops' = 0
    BY <1>33 DEF SessionEnd
  <2>2. drained' \in BOOLEAN BY <2>1, Zenon
  <2> QED BY <2>1, <2>2
<1>34. CASE UNCHANGED vars
  BY <1>34 DEF vars, handlerVars
<1> QED
  BY <1>1, <1>2, <1>3, <1>4, <1>5, <1>6, <1>7, <1>8, <1>9, <1>10, <1>11,
     <1>12, <1>13, <1>14, <1>15, <1>16, <1>17, <1>18, <1>19, <1>20, <1>21,
     <1>22, <1>23, <1>24, <1>25, <1>26, <1>27, <1>28, <1>29, <1>30, <1>31,
     <1>32, <1>33, <1>34
  DEF Next, Event, Relay, ReadLoop, Ended

\* Every action keeps the types of streams, buffers and frame.
LEMMA PartsStep ==
  ASSUME HandlerOK, StreamsOK, BuffersOK, FrameOK, [Next]_vars
  PROVE  StreamsOK' /\ BuffersOK' /\ FrameOK'
<1>1. CASE PostedRead
  <2>1. posted' \in BOOLEAN BY <1>1, Zenon DEF PostedRead
  <2> QED
    BY <1>1, <2>1, FrameKept
    DEF PostedRead, HandlerOK, StreamsOK, BuffersOK, streamVars, dataVars, endVars
<1>2. CASE ClientReady
  BY <1>2, FrameKept
  DEF ClientReady, HandlerOK, StreamsOK, BuffersOK, streamVars, dataVars, endVars
<1>3. ASSUME NEW s \in Streams,
             Opened(s)
      PROVE  StreamsOK' /\ BuffersOK' /\ FrameOK'
  <2>1. /\ pc' # "read" /\ loops' = loops /\ fr' = fr
        /\ UNCHANGED <<cw, dataVars, endVars, procQ, tokens>>
        /\ st' \in {st, [st EXCEPT ![s] = "proxy"]}
    BY <1>3 DEF Opened, StartProcess, streamVars
  <2>2. posted' \in BOOLEAN
    BY <1>3, Zenon DEF Opened, StreamsOK, BlockedOn, ClientBlocked
  <2> QED
    BY <2>1, <2>2, FrameKept DEF StreamsOK, BuffersOK, dataVars, endVars
<1>4. ASSUME NEW s \in Streams,
             ConnectFailed(s)
      PROVE  StreamsOK' /\ BuffersOK' /\ FrameOK'
  BY <1>4, CloseType DEF ConnectFailed, HandlerOK
<1>5. ASSUME NEW s \in Streams,
             ResolveFailed(s)
      PROVE  StreamsOK' /\ BuffersOK' /\ FrameOK'
  BY <1>5, CloseType DEF ResolveFailed, handlerVars, HandlerOK
<1>6. ASSUME NEW s \in Streams,
             PeerEvent(s)
      PROVE  StreamsOK' /\ BuffersOK' /\ FrameOK'
  <2>1. /\ pc' # "read" /\ loops' = loops /\ fr' = fr
        /\ UNCHANGED <<cw, dataVars, endVars, procQ, tokens>>
        /\ st' \in {st, [st EXCEPT ![s] = "proxy"]}
    BY <1>6 DEF PeerEvent, StartProcess, streamVars
  <2>2. posted' \in BOOLEAN
    BY <1>6, Zenon DEF PeerEvent, StreamsOK, BlockedOn, ClientBlocked
  <2> QED
    BY <2>1, <2>2, FrameKept DEF StreamsOK, BuffersOK, dataVars, endVars
<1>7. ASSUME NEW s \in Streams,
             PeerTimeout(s)
      PROVE  StreamsOK' /\ BuffersOK' /\ FrameOK'
  BY <1>7, CloseType DEF PeerTimeout, HandlerOK
<1>8. ASSUME NEW s \in Streams,
             FlushFin(s)
      PROVE  StreamsOK' /\ BuffersOK' /\ FrameOK'
  <2>1. /\ UNCHANGED <<cw, loops>> /\ pc' = pc
        /\ \/ Reap(s)
           \/ /\ finSent' = [finSent EXCEPT ![s] = TRUE]
              /\ UNCHANGED <<st, dataVars, clientFin, wrShut, upEof, upFull,
                             procQ, tokens, posted, fr>>
    BY <1>8 DEF FlushFin, handlerVars
  <2>2. CASE Reap(s) BY <2>1, <2>2, ReapType
  <2>3. CASE ~Reap(s)
    BY <2>1, <2>3, FrameKept DEF StreamsOK, BuffersOK, dataVars
  <2> QED BY <2>2, <2>3
<1>9. CASE FlushEnd
  BY <1>9, FrameKept
  DEF FlushEnd, HandlerOK, StreamsOK, BuffersOK, streamVars, dataVars, endVars
<1>10. CASE ProcessEnd
  <2>1. posted' \in BOOLEAN BY <1>10, Zenon DEF ProcessEnd, StreamsOK
  <2>2. /\ fr' \in FrameSet /\ fr'.kind = fr.kind /\ fr'.sid = fr.sid
        /\ fr'.len = fr.len /\ fr'.base = fr.base /\ fr'.read = fr.read
        /\ fr'.feed = fr.feed /\ fr'.target = fr.target
        /\ fr'.deferred = fr.deferred
    <3>1. fr' = fr \/ fr' = [fr EXCEPT !.checked = FALSE]
      BY <1>10, Zenon DEF ProcessEnd, Reentered
    <3>2. fr \in FrameSet BY DEF FrameOK, FrameFacts
    <3> QED BY <3>1, <3>2 DEF FrameSet
  <2>3. loops' = 0 BY <1>10 DEF ProcessEnd, HandlerOK
  <2>4. FrameOK' BY <2>2, <2>3, Constants DEF FrameOK, FrameFacts
  <2> QED
    BY <1>10, <2>1, <2>4
    DEF ProcessEnd, StreamsOK, BuffersOK, streamVars, dataVars, endVars
<1>11. CASE ProcessHead
  <2>1. /\ procQ' = Tail(procQ) /\ procQ # <<>> /\ pc' # "read"
        /\ UNCHANGED <<loops, posted, cw, streamVars, tokens, fr>>
    BY <1>11 DEF ProcessHead, StartProcess
  <2>2. procQ' \in Seq(Streams) BY <2>1 DEF StreamsOK
  <2> QED
    BY <2>1, <2>2, FrameKept
    DEF StreamsOK, BuffersOK, streamVars, dataVars, endVars
<1>12. ASSUME NEW n \in 1..Budget,
             Send(n)
      PROVE  StreamsOK' /\ BuffersOK' /\ FrameOK'
  BY <1>12, SendType
<1>13. CASE SendError
  BY <1>13, SendErrorType
<1>14. CASE SendAgain
  BY <1>14, FrameKept
  DEF SendAgain, HandlerOK, Sending, StreamsOK, BuffersOK, streamVars, dataVars, endVars
<1>15. CASE SendBusy
  BY <1>15, SendBusyType
<1>16. CASE SendDone
  BY <1>16, SendDoneType
<1>17. ASSUME NEW c \in 1..MaxFrame,
             Drain(c)
      PROVE  StreamsOK' /\ BuffersOK' /\ FrameOK'
  BY <1>17, DrainType
<1>18. CASE DrainEnd
  BY <1>18, FrameKept
  DEF DrainEnd, StreamsOK, BuffersOK, streamVars, dataVars, endVars
<1>19. CASE ProcessTail
  BY <1>19, ProcessTailType
<1>20. CASE ReadAgain
  <2>1. /\ fr' = Settled /\ pc' # "read"
        /\ UNCHANGED <<posted, cw, streamVars, procQ, tokens>>
    BY <1>20 DEF ReadAgain, LeaveRead
  <2>2. FrameFacts(fr')
    <3>1. 0 \in Nat /\ 0 <= fr.len - fr.read /\ (0 > 0 => fr.feed = 0)
      BY DEF FrameOK, FrameFacts, FrameSet
    <3> QED BY <2>1, <3>1, SettledFrame
  <2> QED
    BY <2>1, <2>2
    DEF FrameOK, FrameFacts, StreamsOK, BuffersOK, streamVars, dataVars, endVars
<1>21. CASE ReadYield
  <2>1. posted' \in BOOLEAN BY <1>21, Zenon DEF ReadYield, StreamsOK
  <2> QED
    BY <1>21, <2>1
    DEF ReadYield, LeaveRead, StreamsOK, BuffersOK, FrameOK, FrameFacts,
        streamVars, dataVars, endVars
<1>22. ASSUME NEW s \in Streams,
             ReadSyn(s)
      PROVE  StreamsOK' /\ BuffersOK' /\ FrameOK'
  BY <1>22, FrameGone
  DEF ReadSyn, NextFrame, StreamsOK, BuffersOK, dataVars, endVars
<1>23. ASSUME NEW s \in Streams,
             ReadFin(s)
      PROVE  StreamsOK' /\ BuffersOK' /\ FrameOK'
  BY <1>23, ReadFinType
<1>24. ASSUME NEW k \in {"PSH", "NEW", "KEEP", "END"}, NEW s \in Streams,
             NEW n \in 0..MaxFrame, ReadHeader(k, s, n)
      PROVE  StreamsOK' /\ BuffersOK' /\ FrameOK'
  BY <1>24, ReadHeaderType
<1>25. CASE Recheck
  BY <1>25, RecheckType
<1>26. ASSUME NEW n \in 1..MaxFrame,
             ReadDirect(n)
      PROVE  StreamsOK' /\ BuffersOK' /\ FrameOK'
  BY <1>26, ReadDirectType
<1>27. ASSUME NEW n \in 1..MaxFrame,
             ReadDeferred(n)
      PROVE  StreamsOK' /\ BuffersOK' /\ FrameOK'
  BY <1>27, ReadDeferredType
<1>28. ASSUME NEW n \in 1..MaxFrame,
             ReadPlain(n)
      PROVE  StreamsOK' /\ BuffersOK' /\ FrameOK'
  BY <1>28, ReceivingFrame
  DEF ReadPlain, StreamsOK, BuffersOK, handlerVars, streamVars, dataVars, endVars
<1>29. CASE FeedRequest
  BY <1>29, FeedRequestType
<1>30. CASE FeedData
  BY <1>30, FeedDataType
<1>31. CASE HandleNew
  BY <1>31, HandleNewType
<1>32. CASE HandleStored
  BY <1>32, HandleStoredType
<1>33. CASE SessionEnd
  BY <1>33, SessionEndType
<1>34. CASE UNCHANGED vars
  BY <1>34, FrameKept
  DEF vars, handlerVars, streamVars, dataVars, endVars, StreamsOK, BuffersOK
<1> QED
  BY <1>1, <1>2, <1>3, <1>4, <1>5, <1>6, <1>7, <1>8, <1>9, <1>10, <1>11,
     <1>12, <1>13, <1>14, <1>15, <1>16, <1>17, <1>18, <1>19, <1>20, <1>21,
     <1>22, <1>23, <1>24, <1>25, <1>26, <1>27, <1>28, <1>29, <1>30, <1>31,
     <1>32, <1>33, <1>34
  DEF Next, Event, Relay, ReadLoop, Ended

----------------------------------------------------------------------------
(* Type correctness.                                                       *)

\* The invariant holds initially.
LEMMA InitInv == Init => IInv
<1> SUFFICES ASSUME Init PROVE IInv OBVIOUS
<1> USE Constants DEF Init
<1>1. drained \in BOOLEAN /\ posted \in BOOLEAN /\ cw \in BOOLEAN BY Zenon
<1>2. HandlerOK BY <1>1 DEF HandlerOK, PCs
<1>3. StreamsOK BY <1>1, EmptySeq DEF StreamsOK
<1>4. BuffersOK BY EmptySeq DEF BuffersOK, NoBuf, BufSet, BufFits
<1>5. FrameOK BY DEF FrameOK, FrameFacts, NoFrame, FrameSet
<1> QED BY <1>2, <1>3, <1>4, <1>5 DEF IInv

\* The invariant is inductive.
LEMMA NextInv == IInv /\ [Next]_vars => IInv'
BY HandlerStep, PartsStep DEF IInv

\* Every handler step keeps every variable within its type: the loop and
\* budget counters of the handlers and the token bucket stay within their
\* limits, and buffers and queues hold bytes and streams.
THEOREM TypeCorrect == Spec => []TypeOK
<1>1. IInv => TypeOK
  BY DEF IInv, HandlerOK, StreamsOK, BuffersOK, FrameOK, FrameFacts, TypeOK
<1> QED BY InitInv, NextInv, <1>1, PTL DEF Spec

----------------------------------------------------------------------------
(* The reserve of tokens.                                                  *)

\* The flags a step may set are those it had, for a stream it had.
LEMMA ReserveKept ==
  ASSUME IInv, IInv', FrameReserve, tokens' >= tokens,
         fr'.len = fr.len, fr'.read = fr.read,
         fr'.direct => fr.direct, fr'.deferred => fr.deferred,
         Storing' => Storing
  PROVE  FrameReserve'
<1>1. /\ tokens \in Nat /\ tokens' \in Nat /\ fr.len \in Nat /\ fr.read \in Nat
      /\ fr'.len \in Nat /\ fr'.read \in Nat
  BY Constants DEF IInv, StreamsOK, FrameOK, FrameFacts, FrameSet
<1> QED BY <1>1 DEF FrameReserve

\* cleanup_stream gives tokens back, and drops the frame of its stream.
LEMMA ReapReserve ==
  ASSUME IInv, IInv', FrameReserve, NEW s \in Streams, Reap(s)
  PROVE  FrameReserve'
<1>1. tokens' >= tokens
  BY HeldType, RefundType DEF IInv, StreamsOK, Reap
<1>2. CASE fr.target = s
  <2>1. fr'.target = NoStream
    BY <1>2 DEF Reap, IInv, FrameOK, FrameFacts, FrameSet
  <2> QED BY <2>1 DEF FrameReserve, Storing
<1>3. CASE fr.target # s
  <2>1. fr' = fr BY <1>3 DEF Reap
  <2>2. Storing' => Storing
    <3>1. fr.target \in Streams \cup {NoStream}
      BY DEF IInv, FrameOK, FrameFacts, FrameSet
    <3> QED BY <1>3, <2>1, <3>1 DEF Reap, Storing, TargetIn, IInv, StreamsOK
  <2> QED BY <1>1, <2>1, <2>2, ReserveKept
<1> QED BY <1>2, <1>3

\* Close_stream touches no reserve but that of its own stream.
LEMMA CloseReserve ==
  ASSUME IInv, IInv', FrameReserve, NEW s \in Streams, Close(s)
  PROVE  FrameReserve'
<1>1. CASE finSent[s] BY <1>1, ReapReserve DEF Close
<1>2. CASE ~finSent[s]
  <2>1. fr' = fr /\ tokens' = tokens /\ st' = [st EXCEPT ![s] = "closing"]
    BY <1>2 DEF Close, Shut
  <2>2. Storing' => Storing
    <3>1. fr.target \in Streams \cup {NoStream}
      BY DEF IInv, FrameOK, FrameFacts, FrameSet
    <3> QED BY <2>1, <3>1 DEF Storing, TargetIn, IInv, StreamsOK
  <2>3. tokens' >= tokens BY <2>1, Constants DEF IInv, StreamsOK
  <2> QED BY <2>1, <2>2, <2>3, ReserveKept
<1> QED BY <1>1, <1>2

\* A step that touches neither the states of streams nor the frame.
LEMMA ReserveIdle ==
  ASSUME IInv, IInv', FrameReserve, UNCHANGED <<st, fr>>, tokens' >= tokens
  PROVE  FrameReserve'
BY ReserveKept DEF Storing, TargetIn

\* A frame without a target has nothing reserved.
LEMMA ReserveGone ==
  ASSUME fr'.target = NoStream
  PROVE  FrameReserve'
BY DEF FrameReserve, Storing

\* Admission checks the tokens for the whole payload.
LEMMA PrepareReserve ==
  ASSUME IInv, IInv', NEW s \in Streams, NEW f, FrameFacts(f), f.read = 0,
         f.direct \/ f.deferred => tokens >= f.len,
         Prepare(f, s), UNCHANGED <<st, tokens>>
  PROVE  FrameReserve'
<1>1. f \in FrameSet /\ f.len \in Nat BY DEF FrameFacts, FrameSet
<1>2. tokens \in Nat BY Constants DEF IInv, StreamsOK
<1>3. CASE fr' = f BY <1>1, <1>2, <1>3 DEF FrameReserve
<1>4. CASE fr' = [f EXCEPT !.target = s]
  <2>1. /\ fr'.len = f.len /\ fr'.read = 0
        /\ fr'.direct = f.direct /\ fr'.deferred = f.deferred
    BY <1>1, <1>4 DEF FrameSet
  <2> QED BY <1>1, <1>2, <2>1 DEF FrameReserve
<1>5. CASE fr' = [f EXCEPT !.target = s, !.blocked = TRUE]
  <2>1. /\ fr'.len = f.len /\ fr'.read = 0
        /\ fr'.direct = f.direct /\ fr'.deferred = f.deferred
    BY <1>1, <1>5 DEF FrameSet
  <2> QED BY <1>1, <1>2, <2>1 DEF FrameReserve
<1>6. ASSUME NEW d \in BOOLEAN, tokens >= f.len,
             fr' = [f EXCEPT !.target = s, !.checked = TRUE, !.direct = d,
                             !.deferred = @ \/ ~d]
      PROVE  FrameReserve'
  <2>1. fr'.len = f.len /\ fr'.read = 0 BY <1>1, <1>6 DEF FrameSet
  <2> QED BY <1>1, <1>2, <1>6, <2>1 DEF FrameReserve
<1> QED BY <1>3, <1>4, <1>5, <1>6 DEF Prepare, Enough, Fits

\* A piece of payload takes its tokens out of its own reserve.
LEMMA TakeReserve ==
  ASSUME IInv, IInv', FrameReserve, NEW n \in 1..MaxFrame, Receiving(n),
         Storing, fr.direct \/ fr.deferred, tokens' = Take(tokens, n),
         fr' = [Settled EXCEPT !.read = @ + n]
  PROVE  FrameReserve'
<1>1. /\ fr \in FrameSet /\ fr.len \in Nat /\ fr.read \in Nat
      /\ n \in Nat /\ n <= fr.len - fr.read
  BY Constants DEF IInv, FrameOK, FrameFacts, FrameSet, Receiving
<1>2. tokens \in 0..MaxRecv /\ tokens \in Nat /\ tokens >= fr.len - fr.read
  BY Constants DEF IInv, StreamsOK, FrameReserve
<1>3. tokens' = tokens - n
  BY <1>1, <1>2, TakeType
<1>4. fr'.len = fr.len /\ fr'.read = fr.read + n
  <2>1. Settled.len = fr.len /\ Settled.read = fr.read BY <1>1 DEF Settled, FrameSet
  <2>2. Settled \in FrameSet
    <3>1. 0 \in Nat /\ 0 <= fr.len - fr.read /\ (0 > 0 => fr.feed = 0) BY <1>1
    <3> QED BY <3>1, SettledFrame DEF IInv
  <2> QED BY <2>1, <2>2 DEF FrameSet
<1> QED BY <1>1, <1>2, <1>3, <1>4 DEF FrameReserve

\* Every action keeps the reserve.
LEMMA ReserveStep ==
  ASSUME IInv, FrameReserve, [Next]_vars
  PROVE  FrameReserve'
<1>0. IInv' BY NextInv
<1>a. /\ tokens \in 0..MaxRecv /\ tokens \in Nat /\ tokens >= tokens
      /\ fr \in FrameSet /\ fr.target \in Streams \cup {NoStream}
  BY Constants DEF IInv, StreamsOK, FrameOK, FrameFacts, FrameSet
<1> USE <1>0, <1>a
<1>1. CASE PostedRead
  BY <1>1, ReserveIdle DEF PostedRead, streamVars
<1>2. CASE ClientReady
  BY <1>2, ReserveIdle DEF ClientReady, streamVars
<1>3. ASSUME NEW s \in Streams,
             Opened(s)
      PROVE  FrameReserve'
  <2>1. Storing' => Storing
    BY <1>3 DEF Opened, Storing, TargetIn, IInv, StreamsOK
  <2> QED BY <1>3, <2>1, ReserveKept DEF Opened
<1>4. ASSUME NEW s \in Streams,
             ConnectFailed(s)
      PROVE  FrameReserve'
  BY <1>4, CloseReserve DEF ConnectFailed
<1>5. ASSUME NEW s \in Streams,
             ResolveFailed(s)
      PROVE  FrameReserve'
  BY <1>5, CloseReserve DEF ResolveFailed
<1>6. ASSUME NEW s \in Streams,
             PeerEvent(s)
      PROVE  FrameReserve'
  BY <1>6, ReserveIdle DEF PeerEvent, streamVars
<1>7. ASSUME NEW s \in Streams,
             PeerTimeout(s)
      PROVE  FrameReserve'
  BY <1>7, CloseReserve DEF PeerTimeout
<1>8. ASSUME NEW s \in Streams,
             FlushFin(s)
      PROVE  FrameReserve'
  <2>1. CASE Reap(s) BY <2>1, ReapReserve
  <2>2. CASE ~Reap(s) BY <1>8, <2>2, ReserveIdle DEF FlushFin
  <2> QED BY <2>1, <2>2
<1>9. CASE FlushEnd
  BY <1>9, ReserveIdle DEF FlushEnd, streamVars
<1>10. CASE ProcessEnd
  <2>1. fr' \in {fr, [fr EXCEPT !.checked = FALSE]} /\ UNCHANGED <<st, tokens>>
    BY <1>10 DEF ProcessEnd, Reentered, streamVars
  <2>2. /\ fr'.target = fr.target /\ fr'.len = fr.len /\ fr'.read = fr.read
        /\ fr'.direct = fr.direct /\ fr'.deferred = fr.deferred
    BY <2>1 DEF FrameSet
  <2> QED BY <2>1, <2>2, ReserveKept DEF Storing, TargetIn
<1>11. CASE ProcessHead
  BY <1>11, ReserveIdle DEF ProcessHead, streamVars
<1>12. ASSUME NEW n \in 1..Budget,
             Send(n)
      PROVE  FrameReserve'
  <2>1. cur \in Streams /\ UNCHANGED <<st, fr>> /\ tokens' = Refund(tokens, n)
    BY <1>12 DEF Send, IInv, HandlerOK
  <2>2. tokens' >= tokens BY <2>1, Constants, RefundType
  <2> QED BY <2>1, <2>2, ReserveIdle
<1>13. CASE SendError
  BY <1>13, CloseReserve DEF SendError, Sending, IInv, HandlerOK
<1>14. CASE SendAgain
  BY <1>14, ReserveIdle DEF SendAgain
<1>15. CASE SendBusy
  BY <1>15, ReserveIdle DEF SendBusy, streamVars
<1>16. CASE SendDone
  BY <1>16, ReserveIdle DEF SendDone
<1>17. ASSUME NEW c \in 1..MaxFrame,
             Drain(c)
      PROVE  FrameReserve'
  BY <1>17, ReserveIdle DEF Drain
<1>18. CASE DrainEnd
  BY <1>18, ReserveIdle DEF DrainEnd, streamVars
<1>19. CASE ProcessTail
  <2>1. cur \in Streams BY <1>19 DEF ProcessTail, IInv, HandlerOK
  <2>2. CASE Close(cur) BY <2>1, <2>2, CloseReserve
  <2>3. CASE ~Close(cur) BY <1>19, <2>3, ReserveIdle DEF ProcessTail
  <2> QED BY <2>2, <2>3
<1>20. CASE ReadAgain
  <2>1. fr' = Settled /\ UNCHANGED <<st, tokens>>
    BY <1>20 DEF ReadAgain, streamVars
  <2>2. /\ fr'.target = fr.target /\ fr'.len = fr.len /\ fr'.read = fr.read
        /\ (fr'.direct => fr.direct) /\ (fr'.deferred => fr.deferred)
    BY <2>1 DEF Settled, FrameSet
  <2>3. (Storing' => Storing) /\ tokens' >= tokens
    BY <2>1, <2>2 DEF Storing, TargetIn
  <2> QED BY <2>1, <2>2, <2>3, ReserveKept
<1>21. CASE ReadYield
  BY <1>21, ReserveIdle DEF ReadYield, streamVars
<1>22. ASSUME NEW s \in Streams,
             ReadSyn(s)
      PROVE  FrameReserve'
  BY <1>22, ReserveGone DEF ReadSyn, NextFrame, NoFrame
<1>23. ASSUME NEW s \in Streams,
             ReadFin(s)
      PROVE  FrameReserve'
  BY <1>23, ReserveGone DEF ReadFin, NextFrame, NoFrame
<1>24. ASSUME NEW k \in {"PSH", "NEW", "KEEP", "END"}, NEW s \in Streams,
             NEW n \in 0..MaxFrame, ReadHeader(k, s, n)
      PROVE  FrameReserve'
  <2> DEFINE live == k # "NEW" /\ s \in Live
             base == IF live THEN sent[s] ELSE 0
             f == [NoFrame EXCEPT !.kind = k, !.sid = s, !.len = n, !.base = base]
  <2>1. /\ (live /\ Prepare(f, s)) \/ fr' = f
        /\ UNCHANGED <<st, tokens>> /\ base + n <= MaxData
    BY <1>24 DEF ReadHeader
  <2>2. base \in Nat /\ n \in Nat BY Constants DEF IInv, StreamsOK
  <2>3. /\ f \in FrameSet /\ f.read = 0 /\ ~f.direct /\ ~f.deferred /\ f.feed = 0
        /\ f.target = NoStream /\ f.kind = k /\ f.sid = s /\ f.len = n
        /\ f.base = base
    <3> HIDE DEF base
    <3> QED BY <2>2 DEF NoFrame, FrameSet
  <2>4. FrameFacts(f)
    <3> HIDE DEF f, base
    <3> QED BY <2>1, <2>2, <2>3, Constants DEF FrameFacts
  <2> HIDE DEF f, live
  <2> QED BY <2>1, <2>3, <2>4, PrepareReserve, ReserveGone
<1>25. CASE Recheck
  <2> DEFINE f == [fr EXCEPT !.blocked = FALSE]
  <2>1. /\ Prepare(f, fr.target) /\ UNCHANGED <<st, tokens>>
        /\ fr.read = 0 /\ TargetIn({"opening", "proxy"}) /\ fr.target \in Streams
    BY <1>25 DEF Recheck, MustPrepare, TargetIn
  <2>2. /\ f \in FrameSet /\ f.kind = fr.kind /\ f.sid = fr.sid /\ f.len = fr.len
        /\ f.base = fr.base /\ f.read = fr.read /\ f.feed = fr.feed
        /\ f.target = fr.target /\ f.direct = fr.direct /\ f.deferred = fr.deferred
    BY DEF FrameSet
  <2>3. FrameFacts(f)
    <3> HIDE DEF f
    <3> QED BY <2>2 DEF IInv, FrameOK, FrameFacts
  <2>4. f.direct \/ f.deferred => tokens >= f.len
    <3>1. Storing BY <2>1 DEF Storing, TargetIn
    <3>2. fr.len \in Nat BY DEF FrameSet
    <3> HIDE DEF f
    <3> QED BY <2>1, <2>2, <3>1, <3>2 DEF FrameReserve
  <2> HIDE DEF f
  <2> QED BY <2>1, <2>2, <2>3, <2>4, PrepareReserve
<1>26. ASSUME NEW n \in 1..MaxFrame,
             ReadDirect(n)
      PROVE  FrameReserve'
  BY <1>26, TakeReserve DEF ReadDirect
<1>27. ASSUME NEW n \in 1..MaxFrame,
             ReadDeferred(n)
      PROVE  FrameReserve'
  BY <1>27, TakeReserve DEF ReadDeferred
<1>28. ASSUME NEW n \in 1..MaxFrame,
             ReadPlain(n)
      PROVE  FrameReserve'
  <2>1. /\ ~(Storing /\ (fr.direct \/ fr.deferred))
        /\ fr' = [Settled EXCEPT !.read = @ + n]
    BY <1>28 DEF ReadPlain
  <2>2. ~Settled.direct /\ ~Settled.deferred BY <2>1 DEF Settled, FrameSet
  <2>3. Settled \in FrameSet
    <3>1. 0 \in Nat /\ 0 <= fr.len - fr.read /\ (0 > 0 => fr.feed = 0)
      BY DEF IInv, FrameOK, FrameFacts, FrameSet
    <3> QED BY <3>1, SettledFrame DEF IInv
  <2>4. ~fr'.direct /\ ~fr'.deferred BY <2>1, <2>2, <2>3 DEF FrameSet
  <2> QED BY <2>4 DEF FrameReserve
<1>29. CASE FeedRequest
  <2>1. /\ TargetIn({"request"}) /\ tokens' = tokens
        /\ \E n : fr' = [fr EXCEPT !.feed = n]
    BY <1>29 DEF FeedRequest
  <2>2. /\ fr'.target = fr.target /\ fr'.len = fr.len /\ fr'.read = fr.read
        /\ fr'.direct = fr.direct /\ fr'.deferred = fr.deferred
    BY <2>1 DEF FrameSet
  <2>3. Storing BY <2>1 DEF Storing, TargetIn
  <2> QED BY <2>1, <2>2, <2>3, ReserveKept
<1>30. CASE FeedData
  <2>1. CASE NextFrame BY <2>1, ReserveGone DEF NextFrame, NoFrame
  <2>2. CASE ~NextFrame
    <3>1. fr' = [fr EXCEPT !.blocked = TRUE] /\ UNCHANGED <<st, tokens>>
      BY <1>30, <2>2 DEF FeedData
    <3>2. /\ fr'.target = fr.target /\ fr'.len = fr.len /\ fr'.read = fr.read
          /\ fr'.direct = fr.direct /\ fr'.deferred = fr.deferred
      BY <3>1 DEF FrameSet
    <3> QED BY <3>1, <3>2, ReserveKept DEF Storing, TargetIn
  <2> QED BY <2>1, <2>2
<1>31. CASE HandleNew
  <2>1. CASE NextFrame BY <2>1, ReserveGone DEF NextFrame, NoFrame
  <2>2. CASE ~NextFrame
    <3>1. fr' = [fr EXCEPT !.blocked = TRUE] /\ fr.kind = "NEW"
      BY <1>31, <2>2 DEF HandleNew
    <3>2. fr'.target = NoStream
      BY <3>1 DEF FrameSet, IInv, FrameOK, FrameFacts
    <3> QED BY <3>2, ReserveGone
  <2> QED BY <2>1, <2>2
<1>32. CASE HandleStored
  BY <1>32, ReserveGone DEF HandleStored, NextFrame, NoFrame
<1>33. CASE SessionEnd
  BY <1>33, ReserveGone DEF SessionEnd, NoFrame
<1>34. CASE UNCHANGED vars
  BY <1>34, ReserveIdle DEF vars, streamVars
<1> QED
  BY <1>1, <1>2, <1>3, <1>4, <1>5, <1>6, <1>7, <1>8, <1>9, <1>10, <1>11,
     <1>12, <1>13, <1>14, <1>15, <1>16, <1>17, <1>18, <1>19, <1>20, <1>21,
     <1>22, <1>23, <1>24, <1>25, <1>26, <1>27, <1>28, <1>29, <1>30, <1>31,
     <1>32, <1>33, <1>34
  DEF Next, Event, Relay, ReadLoop, Ended

\* A payload once admitted keeps enough tokens for its unread rest: what the
\* streams release in between can only add to the bucket, and only the
\* payload itself takes from it.
THEOREM ReserveSafe == Spec => []FrameReserve
<1>1. Init => FrameReserve
  BY DEF Init, FrameReserve, Storing, NoFrame
<1> QED BY InitInv, NextInv, ReserveStep, <1>1, PTL DEF Spec

----------------------------------------------------------------------------
(* The wake-up of the client read.                                         *)

\* The handler that runs now still enters the read loop.
WillRead ==
  \/ pc \in {"proc1", "read"}
  \/ pc \in {"flush", "send", "drain", "tail"} /\ ret = "proc1"

\* A client frame that could go on is looked at again: by the running
\* handler, or by the event it leaves posted.
WakeUp == BlockedReady(tokens) => posted \/ WillRead

\* A step that leaves frame and tokens alone and does not pass the read
\* loop by.
LEMMA WakeKept ==
  ASSUME WakeUp, UNCHANGED <<tokens, fr>>, posted => posted',
         WillRead => WillRead'
  PROVE  WakeUp'
BY DEF WakeUp, BlockedReady, ClientBlocked, Needed

\* Once the frame is not blocked, nothing waits.
LEMMA WakeOpen ==
  ASSUME ~fr'.blocked \/ fr'.kind = "none"
  PROVE  WakeUp'
BY DEF WakeUp, BlockedReady, ClientBlocked

\* cleanup_stream posts the client read if the tokens it returns suffice.
LEMMA ReapWake ==
  ASSUME WakeUp, NEW s \in Streams, Reap(s)
  PROVE  WakeUp'
<1>1. CASE fr.target = s BY <1>1 DEF Reap, WakeUp
<1>2. CASE fr.target # s
  <2>1. fr' = fr BY <1>2 DEF Reap
  <2>2. BlockedReady(tokens') => posted' BY DEF Reap, Resumed
  <2> QED BY <2>1, <2>2 DEF WakeUp, BlockedReady, ClientBlocked, Needed
<1> QED BY <1>1, <1>2

\* close_stream wakes the client read when it frees the stream.
LEMMA CloseWake ==
  ASSUME WakeUp, NEW s \in Streams, Close(s), WillRead => WillRead'
  PROVE  WakeUp'
<1>1. CASE finSent[s] BY <1>1, ReapWake DEF Close
<1>2. CASE ~finSent[s] BY <1>2, WakeKept DEF Close
<1> QED BY <1>1, <1>2

\* The end of process_stream goes back to where the queue pass was.
LEMMA EndProcessWake ==
  ASSUME pc \in {"send", "drain", "tail"}, EndProcess
  PROVE  WillRead => WillRead'
BY DEF EndProcess, WillRead

\* A payload that waits for more tokens than there are needs no wake-up; one
\* that has its reserve never waits.
LEMMA PrepareWake ==
  ASSUME IInv, NEW s \in Streams, NEW f, FrameFacts(f), f.read = 0,
         f.blocked = FALSE, f.deferred => tokens >= f.len,
         Prepare(f, s), UNCHANGED tokens
  PROVE  WakeUp'
<1>1. f \in FrameSet /\ f.len \in Nat /\ f.feed \in Nat /\ tokens \in Nat
  BY Constants DEF FrameFacts, FrameSet, IInv, StreamsOK
<1>2. CASE fr' = f BY <1>2, WakeOpen
<1>3. CASE fr' = [f EXCEPT !.target = s]
  BY <1>1, <1>3, WakeOpen DEF FrameSet
<1>4. CASE /\ fr' = [f EXCEPT !.target = s, !.blocked = TRUE]
           /\ ~Enough(f.len)
  <2>0. tokens < f.len BY <1>1, <1>4 DEF Enough
  <2>1. fr'.len = f.len /\ fr'.feed = f.feed /\ fr'.deferred = f.deferred
    BY <1>1, <1>4 DEF FrameSet
  <2>2. ~f.deferred BY <1>1, <2>0
  <2>3. f.feed = 0 BY <1>1, <1>4 DEF FrameFacts
  <2>4. ~BlockedReady(tokens)'
    BY <1>1, <2>0, <2>1, <2>2, <2>3 DEF BlockedReady, Needed
  <2> QED BY <2>4 DEF WakeUp
<1>5. ASSUME NEW d \in BOOLEAN,
             fr' = [f EXCEPT !.target = s, !.checked = TRUE, !.direct = d,
                             !.deferred = @ \/ ~d]
      PROVE  WakeUp'
  <2>1. fr'.blocked = FALSE BY <1>1, <1>5 DEF FrameSet
  <2> QED BY <2>1, WakeOpen
<1> QED BY <1>2, <1>3, <1>4, <1>5 DEF Prepare, Fits

\* Every action keeps the wake-up.
LEMMA WakeStep ==
  ASSUME IInv, FrameReserve, WakeUp, [Next]_vars
  PROVE  WakeUp'
<1>a. tokens \in Nat /\ fr \in FrameSet
  BY Constants DEF IInv, StreamsOK, FrameOK, FrameFacts
<1>1. CASE PostedRead
  BY <1>1 DEF PostedRead, WakeUp, WillRead
<1>2. CASE ClientReady
  BY <1>2 DEF ClientReady, WakeUp, WillRead
<1>3. ASSUME NEW s \in Streams,
             Opened(s)
      PROVE  WakeUp'
  BY <1>3, WakeKept
  DEF Opened, StartProcess, WillRead, streamVars, IInv, HandlerOK
<1>4. ASSUME NEW s \in Streams,
             ConnectFailed(s)
      PROVE  WakeUp'
  BY <1>4, CloseWake DEF ConnectFailed, WillRead, IInv, HandlerOK
<1>5. ASSUME NEW s \in Streams,
             ResolveFailed(s)
      PROVE  WakeUp'
  BY <1>5, CloseWake DEF ResolveFailed, WillRead, handlerVars
<1>6. ASSUME NEW s \in Streams,
             PeerEvent(s)
      PROVE  WakeUp'
  BY <1>6, WakeKept
  DEF PeerEvent, StartProcess, WillRead, streamVars, IInv, HandlerOK
<1>7. ASSUME NEW s \in Streams,
             PeerTimeout(s)
      PROVE  WakeUp'
  BY <1>7, CloseWake DEF PeerTimeout, WillRead, IInv, HandlerOK
<1>8. ASSUME NEW s \in Streams,
             FlushFin(s)
      PROVE  WakeUp'
  <2>1. CASE Reap(s) BY <2>1, ReapWake
  <2>2. CASE ~Reap(s) BY <1>8, <2>2, WakeKept DEF FlushFin, WillRead, handlerVars
  <2> QED BY <2>1, <2>2
<1>9. CASE FlushEnd
  BY <1>9, WakeKept DEF FlushEnd, WillRead
<1>10. CASE ProcessEnd
  <2>1. CASE pc = "proc1" BY <1>10, <2>1 DEF ProcessEnd, WakeUp, WillRead
  <2>2. CASE pc = "proc2"
    BY <1>10, <2>2, WakeKept DEF ProcessEnd, WillRead, IInv, HandlerOK
  <2> QED BY <1>10, <2>1, <2>2 DEF ProcessEnd
<1>11. CASE ProcessHead
  BY <1>11, WakeKept DEF ProcessHead, StartProcess, WillRead, IInv, HandlerOK
<1>12. ASSUME NEW n \in 1..Budget,
             Send(n)
      PROVE  WakeUp'
  <2>1. fr' = fr /\ (BlockedReady(tokens') => posted') BY <1>12 DEF Send, Resumed
  <2> QED BY <2>1 DEF WakeUp, BlockedReady, ClientBlocked, Needed
<1>13. CASE SendError
  BY <1>13, CloseWake, EndProcessWake DEF SendError, Sending, IInv, HandlerOK
<1>14. CASE SendAgain
  BY <1>14, WakeKept DEF SendAgain, Sending, WillRead
<1>15. CASE SendBusy
  BY <1>15, WakeKept, EndProcessWake DEF SendBusy, Sending
<1>16. CASE SendDone
  BY <1>16, WakeKept DEF SendDone, WillRead
<1>17. ASSUME NEW c \in 1..MaxFrame,
             Drain(c)
      PROVE  WakeUp'
  BY <1>17, WakeKept DEF Drain, WillRead
<1>18. CASE DrainEnd
  BY <1>18, WakeKept DEF DrainEnd, WillRead
<1>19. CASE ProcessTail
  <2>1. cur \in Streams /\ (WillRead => WillRead')
    BY <1>19, EndProcessWake DEF ProcessTail, IInv, HandlerOK
  <2>2. CASE Close(cur) BY <2>1, <2>2, CloseWake
  <2>3. CASE ~Close(cur) BY <1>19, <2>1, <2>3, WakeKept DEF ProcessTail, Resumed
  <2> QED BY <2>2, <2>3
<1>20. CASE ReadAgain
  <2>1. fr'.blocked = FALSE BY <1>20, <1>a DEF ReadAgain, Settled, FrameSet
  <2> QED BY <2>1, WakeOpen
<1>21. CASE ReadYield
  BY <1>21, WakeOpen DEF ReadYield
<1>22. ASSUME NEW s \in Streams,
             ReadSyn(s)
      PROVE  WakeUp'
  BY <1>22, WakeOpen DEF ReadSyn, NextFrame, NoFrame
<1>23. ASSUME NEW s \in Streams,
             ReadFin(s)
      PROVE  WakeUp'
  BY <1>23, WakeOpen DEF ReadFin, NextFrame, NoFrame
<1>24. ASSUME NEW k \in {"PSH", "NEW", "KEEP", "END"}, NEW s \in Streams,
             NEW n \in 0..MaxFrame, ReadHeader(k, s, n)
      PROVE  WakeUp'
  <2> DEFINE live == k # "NEW" /\ s \in Live
             base == IF live THEN sent[s] ELSE 0
             f == [NoFrame EXCEPT !.kind = k, !.sid = s, !.len = n, !.base = base]
  <2>1. /\ (live /\ Prepare(f, s)) \/ fr' = f
        /\ UNCHANGED tokens /\ base + n <= MaxData
    BY <1>24 DEF ReadHeader
  <2>2. base \in Nat /\ n \in Nat BY Constants DEF IInv, StreamsOK
  <2>3. /\ f \in FrameSet /\ f.read = 0 /\ f.blocked = FALSE /\ ~f.deferred
        /\ f.feed = 0 /\ f.target = NoStream /\ f.kind = k /\ f.sid = s
        /\ f.len = n /\ f.base = base
    <3> HIDE DEF base
    <3> QED BY <2>2 DEF NoFrame, FrameSet
  <2>4. FrameFacts(f)
    <3> HIDE DEF f, base
    <3> QED BY <2>1, <2>2, <2>3, Constants DEF FrameFacts
  <2> HIDE DEF f, live
  <2> QED BY <2>1, <2>3, <2>4, PrepareWake, WakeOpen
<1>25. CASE Recheck
  <2> DEFINE f == [fr EXCEPT !.blocked = FALSE]
  <2>1. /\ Prepare(f, fr.target) /\ UNCHANGED tokens
        /\ fr.read = 0 /\ TargetIn({"opening", "proxy"}) /\ fr.target \in Streams
    BY <1>25, <1>a DEF Recheck, MustPrepare, TargetIn, FrameSet
  <2>2. /\ f \in FrameSet /\ f.kind = fr.kind /\ f.sid = fr.sid /\ f.len = fr.len
        /\ f.base = fr.base /\ f.read = fr.read /\ f.feed = fr.feed
        /\ f.target = fr.target /\ f.deferred = fr.deferred /\ f.blocked = FALSE
    BY <1>a DEF FrameSet
  <2>3. FrameFacts(f)
    <3> HIDE DEF f
    <3> QED BY <2>2 DEF IInv, FrameOK, FrameFacts
  <2>4. f.deferred => tokens >= f.len
    <3>1. Storing BY <2>1 DEF Storing, TargetIn
    <3>2. fr.len \in Nat BY <1>a DEF FrameSet
    <3> HIDE DEF f
    <3> QED BY <2>1, <2>2, <3>1, <3>2, <1>a DEF FrameReserve
  <2> HIDE DEF f
  <2> QED BY <2>1, <2>2, <2>3, <2>4, PrepareWake
<1>26. ASSUME NEW n \in 1..MaxFrame,
             ReadDirect(n)
      PROVE  WakeUp'
  BY <1>26 DEF ReadDirect, Receiving, WakeUp, WillRead, handlerVars
<1>27. ASSUME NEW n \in 1..MaxFrame,
             ReadDeferred(n)
      PROVE  WakeUp'
  BY <1>27 DEF ReadDeferred, Receiving, WakeUp, WillRead, handlerVars
<1>28. ASSUME NEW n \in 1..MaxFrame,
             ReadPlain(n)
      PROVE  WakeUp'
  BY <1>28 DEF ReadPlain, Receiving, WakeUp, WillRead, handlerVars
<1>29. CASE FeedRequest
  BY <1>29 DEF FeedRequest, FrameRead, WakeUp, WillRead, handlerVars
<1>30. CASE FeedData
  <2>1. CASE NextFrame BY <2>1, WakeOpen DEF NextFrame, NoFrame
  <2>2. CASE ~NextFrame
    <3>1. /\ fr' = [fr EXCEPT !.blocked = TRUE] /\ tokens' = tokens
          /\ tokens < fr.len - fr.feed /\ fr.feed < fr.len /\ ~fr.deferred
      BY <1>30, <1>a, <2>2 DEF FeedData, Enough, FrameSet
    <3>2. fr'.len = fr.len /\ fr'.feed = fr.feed /\ fr'.deferred = fr.deferred
      BY <1>a, <3>1 DEF FrameSet
    <3>3. fr.len \in Nat /\ fr.feed \in Nat BY <1>a DEF FrameSet
    <3>4. ~BlockedReady(tokens)'
      BY <1>a, <3>1, <3>2, <3>3 DEF BlockedReady, Needed
    <3> QED BY <3>4 DEF WakeUp
  <2> QED BY <2>1, <2>2
<1>31. CASE HandleNew
  <2>1. CASE NextFrame BY <2>1, WakeOpen DEF NextFrame, NoFrame
  <2>2. CASE ~NextFrame
    <3>1. /\ fr' = [fr EXCEPT !.blocked = TRUE] /\ tokens' = tokens
          /\ tokens < fr.len /\ fr.feed = 0 /\ ~fr.deferred
      BY <1>31, <1>a, <2>2 DEF HandleNew, Enough, IInv, FrameOK, FrameFacts, FrameSet
    <3>2. fr'.len = fr.len /\ fr'.feed = fr.feed /\ fr'.deferred = fr.deferred
      BY <1>a, <3>1 DEF FrameSet
    <3>3. fr.len \in Nat BY <1>a DEF FrameSet
    <3>4. ~BlockedReady(tokens)'
      BY <1>a, <3>1, <3>2, <3>3 DEF BlockedReady, Needed
    <3> QED BY <3>4 DEF WakeUp
  <2> QED BY <2>1, <2>2
<1>32. CASE HandleStored
  BY <1>32, WakeOpen DEF HandleStored, NextFrame, NoFrame
<1>33. CASE SessionEnd
  BY <1>33, WakeOpen DEF SessionEnd, NoFrame
<1>34. CASE UNCHANGED vars
  BY <1>34, WakeKept DEF vars, handlerVars, WillRead
<1> QED
  BY <1>1, <1>2, <1>3, <1>4, <1>5, <1>6, <1>7, <1>8, <1>9, <1>10, <1>11,
     <1>12, <1>13, <1>14, <1>15, <1>16, <1>17, <1>18, <1>19, <1>20, <1>21,
     <1>22, <1>23, <1>24, <1>25, <1>26, <1>27, <1>28, <1>29, <1>30, <1>31,
     <1>32, <1>33, <1>34
  DEF Next, Event, Relay, ReadLoop, Ended

\* No lost wake-up of a client frame that waits for tokens, whatever returned
\* them: WakeUp covers the handler's own steps, and FrameReserve the frame
\* that Mux.Cool prepares twice.
THEOREM WakeUpSafe == Spec => []NoLostResume
<1>1. Init => WakeUp
  BY DEF Init, WakeUp, BlockedReady, ClientBlocked, NoFrame
<1>2. IInv /\ WakeUp => NoLostResume
  BY DEF IInv, HandlerOK, WakeUp, WillRead, NoLostResume
<1>3. Init => FrameReserve
  BY DEF Init, FrameReserve, Storing, NoFrame
<1> QED BY InitInv, NextInv, ReserveStep, WakeStep, <1>1, <1>2, <1>3, PTL DEF Spec

----------------------------------------------------------------------------
(* Sequences of consecutive bytes.                                         *)

\* The bytes of q are those that follow the b-th one.
Run(q, b) == \A i \in 1 .. Len(q) : q[i] = b + i

\* No bytes at all.
LEMMA RunEmpty == ASSUME NEW b PROVE Run(<<>>, b)
BY DEF Run

\* A run followed by the bytes that come next.
LEMMA RunJoin ==
  ASSUME NEW S, NEW q \in Seq(S), NEW d \in Seq(S), NEW b \in Nat,
         Run(q, b), Run(d, b + Len(q))
  PROVE  Run(q \o d, b) /\ Len(q \o d) = Len(q) + Len(d)
<1>1. /\ Len(q \o d) = Len(q) + Len(d) /\ Len(q) \in Nat /\ Len(d) \in Nat
      /\ \A i \in 1 .. Len(q) + Len(d) :
           (q \o d)[i] = IF i <= Len(q) THEN q[i] ELSE d[i - Len(q)]
  BY ConcatProperties, LenProperties
<1>2. ASSUME NEW i \in 1 .. Len(q) + Len(d) PROVE (q \o d)[i] = b + i
  <2>1. (q \o d)[i] = IF i <= Len(q) THEN q[i] ELSE d[i - Len(q)] BY <1>1
  <2>2. CASE i <= Len(q)
    <3>1. i \in 1 .. Len(q) BY <1>1, <2>2
    <3> QED BY <2>1, <2>2, <3>1 DEF Run
  <2>3. CASE ~(i <= Len(q))
    <3>1. i - Len(q) \in 1 .. Len(d) BY <1>1, <2>3
    <3>2. d[i - Len(q)] = b + Len(q) + (i - Len(q)) BY <3>1 DEF Run
    <3>3. b + Len(q) + (i - Len(q)) = b + i BY <1>1
    <3> QED BY <2>1, <2>3, <3>2, <3>3
  <2> QED BY <2>2, <2>3
<1> QED BY <1>1, <1>2 DEF Run

\* A run cut after n bytes.
LEMMA RunCut ==
  ASSUME NEW S, NEW q \in Seq(S), NEW b \in Nat, Run(q, b), NEW n \in 0 .. Len(q)
  PROVE  Run(SubSeq(q, 1, n), b) /\ Run(SubSeq(q, n + 1, Len(q)), b + n)
<1>1. /\ Len(SubSeq(q, 1, n)) = n /\ Len(q) \in Nat /\ n \in Nat
      /\ Len(SubSeq(q, n + 1, Len(q))) = Len(q) - n
      /\ \A i \in 1 .. n : SubSeq(q, 1, n)[i] = q[i]
      /\ \A i \in 1 .. Len(q) - n : SubSeq(q, n + 1, Len(q))[i] = q[n + i]
  <2>1. /\ Len(SubSeq(q, 1, n)) = n /\ Len(SubSeq(q, n + 1, Len(q))) = Len(q) - n
    BY SubSeqType
  <2>2. Len(q) \in Nat /\ n \in Nat BY LenProperties
  <2>3. ASSUME NEW i \in 1 .. n PROVE SubSeq(q, 1, n)[i] = q[i]
    BY <2>2
  <2>4. ASSUME NEW i \in 1 .. Len(q) - n PROVE SubSeq(q, n + 1, Len(q))[i] = q[n + i]
    BY <2>2
  <2> QED BY <2>1, <2>2, <2>3, <2>4
<1>2. ASSUME NEW i \in 1 .. n PROVE SubSeq(q, 1, n)[i] = b + i
  <2>1. i \in 1 .. Len(q) BY <1>1
  <2> QED BY <1>1, <2>1 DEF Run
<1>3. ASSUME NEW i \in 1 .. Len(q) - n PROVE SubSeq(q, n + 1, Len(q))[i] = (b + n) + i
  <2>1. n + i \in 1 .. Len(q) /\ (b + n) + i = b + (n + i) BY <1>1
  <2>2. q[n + i] = b + (n + i) BY <2>1 DEF Run
  <2> QED BY <1>1, <2>1, <2>2
<1> QED BY <1>1, <1>2, <1>3 DEF Run

\* What is unread of a payload, and the first n bytes of it.
LEMMA RunPayload ==
  ASSUME FrameOK, NEW k \in Nat, NEW n \in Nat, k + n <= fr.len
  PROVE  /\ Payload(k) \in Seq(Bytes) /\ Len(Payload(k)) = fr.len - k
         /\ Run(Payload(k), fr.base + k)
         /\ SubSeq(Payload(k), 1, n) \in Seq(Bytes)
         /\ Len(SubSeq(Payload(k), 1, n)) = n
         /\ Run(SubSeq(Payload(k), 1, n), fr.base + k)
<1>1. fr.len \in Nat /\ fr.base \in Nat /\ k <= fr.len
  BY DEF FrameOK, FrameFacts, FrameSet
<1>2. Payload(k) \in Seq(Bytes) /\ Len(Payload(k)) = fr.len - k
  BY <1>1, PayloadType
<1>3. Run(Payload(k), fr.base + k)
  <2>1. ASSUME NEW i \in 1 .. (fr.len - k) PROVE Payload(k)[i] = (fr.base + k) + i
    BY <1>1 DEF Payload
  <2> QED BY <1>2, <2>1 DEF Run
<1>4. /\ SubSeq(Payload(k), 1, n) \in Seq(Bytes)
      /\ Len(SubSeq(Payload(k), 1, n)) = n
  BY PieceType
<1>5. n \in 0 .. Len(Payload(k)) /\ fr.base + k \in Nat BY <1>1, <1>2
<1>6. Run(SubSeq(Payload(k), 1, n), fr.base + k) BY <1>2, <1>3, <1>5, RunCut
<1> QED BY <1>2, <1>3, <1>4, <1>6

----------------------------------------------------------------------------
(* A stream, the bytes it holds and the frame that brings more.            *)

Open(s)   == st[s] \in {"request", "opening", "proxy"}
Taking(s) == st[s] \in {"opening", "proxy"}

\* The frame in progress carries payload for the stream of this id.
OfFrame(s) == fr.kind \notin {"none", "NEW"} /\ fr.sid = s

\* Buffer and pending frames continue what was sent upstream.
Ordered(s) ==
  /\ Run(buf[s].data, Request + up[s])
  /\ Run(pend[s], Request + up[s] + Len(buf[s].data))

\* Where the bytes of the frames read so far are.
Counted(s) ==
  /\ st[s] = "absent" =>
       Held(s) = 0 /\ sent[s] = 0 /\ up[s] = 0 /\ req[s] = 0
  /\ st[s] = "request" =>
       ~Cool /\ Held(s) = 0 /\ up[s] = 0 /\ req[s] + Unstored(s) = sent[s]
  /\ Taking(s) => Request + up[s] + Held(s) + Unstored(s) = sent[s]

\* The frame in progress is the last one of its stream; it was admitted
\* before any of it was read; its direct payload follows no pending frames.
Framed(s) ==
  /\ fr.kind = "NEW" => Cool /\ fr.base = 0
  /\ fr.target = s => OfFrame(s) /\ st[s] # "absent"
  /\ OfFrame(s) /\ Open(s) =>
       /\ fr.base + fr.len = sent[s] /\ ~clientFin[s]
       /\ fr.target = s \/ (fr.len = 0 /\ ~fr.direct /\ ~fr.deferred)
       /\ st[s] = "request" => ~fr.direct /\ ~fr.deferred /\ fr.kind = "PSH"
       /\ Taking(s) /\ ~fr.direct /\ ~fr.deferred =>
            \/ fr.read = 0 /\ fr.feed = 0 /\ ~fr.checked
            \/ fr.read = fr.len /\ fr.kind = "PSH"
       /\ Taking(s) /\ fr.direct /\ ~fr.deferred => pend[s] = <<>>

InStream(s) == Ordered(s) /\ Counted(s) /\ Framed(s)
Streamed == \A s \in Streams : InStream(s)

\* A step that does not concern the bytes of stream s.
SameRow(s) ==
  /\ st'[s] = st[s] \/ (st[s] = "opening" /\ st'[s] = "proxy")
  /\ req'[s] = req[s] /\ sent'[s] = sent[s] /\ up'[s] = up[s]
  /\ buf'[s].data = buf[s].data /\ pend'[s] = pend[s]

\* A step that leaves the frame in progress as it is, but for its flags.
SameFrame ==
  /\ fr'.kind = fr.kind /\ fr'.sid = fr.sid /\ fr'.len = fr.len
  /\ fr'.base = fr.base /\ fr'.read = fr.read /\ fr'.feed = fr.feed
  /\ fr'.target = fr.target

\* The flags of the frame in progress stay as well.
SameFlags ==
  /\ fr'.direct = fr.direct /\ fr'.deferred = fr.deferred
  /\ fr'.checked => fr.checked

\* The types of what a stream holds.
LEMMA RowTypes ==
  ASSUME IInv, NEW s \in Streams
  PROVE  /\ buf[s] \in BufSet /\ BufFits(buf[s])
         /\ buf[s].data \in Seq(Bytes) /\ pend[s] \in Seq(Bytes)
         /\ buf[s].cap \in Nat /\ buf[s].off \in Nat
         /\ Len(buf[s].data) \in Nat /\ Len(pend[s]) \in Nat /\ Held(s) \in Nat
         /\ sent[s] \in Nat /\ up[s] \in Nat /\ req[s] \in Nat /\ req[s] <= ReqLen
         /\ Request \in Nat /\ Request + up[s] \in Nat
<1>1. buf[s] \in BufSet /\ BufFits(buf[s]) /\ pend[s] \in Seq(Bytes)
  BY DEF IInv, BuffersOK
<1>2. /\ buf[s].data \in Seq(Bytes) /\ buf[s].cap \in Nat /\ buf[s].off \in Nat
  BY <1>1 DEF BufSet
<1>3. Len(buf[s].data) \in Nat /\ Len(pend[s]) \in Nat BY <1>1, <1>2, LenProperties
<1>4. Held(s) \in Nat BY HeldType DEF IInv
<1>5. /\ sent[s] \in Nat /\ up[s] \in Nat /\ req[s] \in Nat /\ req[s] <= ReqLen
  BY Constants DEF IInv, StreamsOK
<1>6. Request \in Nat BY Constants DEF Request
<1>7. Request + up[s] \in Nat BY <1>5, <1>6
<1> QED BY <1>1, <1>2, <1>3, <1>4, <1>5, <1>6, <1>7

\* The types of the frame in progress.
LEMMA FrameTypes ==
  ASSUME IInv
  PROVE  /\ fr \in FrameSet
         /\ fr.len \in Nat /\ fr.base \in Nat /\ fr.read \in Nat /\ fr.feed \in Nat
         /\ fr.read <= fr.len /\ fr.feed <= fr.len /\ fr.len <= MaxFrame
         /\ fr.direct \in BOOLEAN /\ fr.deferred \in BOOLEAN /\ fr.checked \in BOOLEAN
         /\ fr.target \in Streams \cup {NoStream}
         /\ fr.kind \in {"none", "PSH", "NEW", "KEEP", "END"}
         /\ fr.kind # "none" => fr.sid \in Streams
         /\ fr.kind = "NEW" => fr.target = NoStream /\ fr.feed = 0
         /\ fr.feed > 0 => fr.read = fr.len
BY DEF IInv, FrameOK, FrameFacts, FrameSet

\* What of the frame in progress is still to be stored.
LEMMA UnstoredType ==
  ASSUME IInv, NEW s
  PROVE  Unstored(s) \in Nat
BY FrameTypes DEF Unstored

\* A step that leaves a stream's bytes and the frame in progress alone.
LEMMA StreamSame ==
  ASSUME NEW s \in Streams, InStream(s), SameRow(s), SameFrame,
         OfFrame(s) /\ Open(s) => SameFlags /\ clientFin'[s] = clientFin[s]
  PROVE  InStream(s)'
<1>1. Held(s)' = Held(s) BY DEF SameRow, Held
<1>2. Ordered(s)' BY DEF InStream, Ordered, SameRow, Run, Request
<1>3. /\ OfFrame(s)' = OfFrame(s) /\ Open(s)' = Open(s) /\ Taking(s)' = Taking(s)
  BY DEF OfFrame, Open, Taking, SameRow, SameFrame
<1>4. Open(s) => Unstored(s)' = Unstored(s)
  <2>1. CASE OfFrame(s) /\ Open(s)
    BY <2>1 DEF Unstored, SameFrame, SameFlags
  <2>2. CASE ~OfFrame(s)
    <3>1. Unstored(s) = 0 BY <2>2 DEF Unstored, OfFrame
    <3>2. Unstored(s)' = 0 BY <2>2 DEF Unstored, OfFrame, SameFrame
    <3> QED BY <3>1, <3>2
  <2> QED BY <2>1, <2>2
<1>5. Counted(s)'
  <2>1. Taking(s) => Open(s) BY DEF Taking, Open
  <2>2. st[s] = "request" => Open(s) BY DEF Open
  <2> QED
    BY <1>1, <1>3, <1>4, <2>1, <2>2 DEF InStream, Counted, SameRow, Request
<1>6. Framed(s)'
  <2>1. /\ fr'.target = s => OfFrame(s)' /\ st'[s] # "absent"
        /\ fr'.kind = "NEW" => Cool /\ fr'.base = 0
    BY <1>3 DEF InStream, Framed, SameRow, SameFrame
  <2>2. ASSUME OfFrame(s)', Open(s)'
        PROVE  /\ fr'.base + fr'.len = sent'[s] /\ ~clientFin'[s]
               /\ fr'.target = s \/ (fr'.len = 0 /\ ~fr'.direct /\ ~fr'.deferred)
               /\ st'[s] = "request" => ~fr'.direct /\ ~fr'.deferred /\ fr'.kind = "PSH"
               /\ Taking(s)' /\ ~fr'.direct /\ ~fr'.deferred =>
                    \/ fr'.read = 0 /\ fr'.feed = 0 /\ ~fr'.checked
                    \/ fr'.read = fr'.len /\ fr'.kind = "PSH"
               /\ Taking(s)' /\ fr'.direct /\ ~fr'.deferred => pend'[s] = <<>>
    <3>1. OfFrame(s) /\ Open(s) BY <1>3, <2>2
    <3>2. /\ fr.base + fr.len = sent[s] /\ ~clientFin[s]
          /\ fr.target = s \/ (fr.len = 0 /\ ~fr.direct /\ ~fr.deferred)
          /\ st[s] = "request" => ~fr.direct /\ ~fr.deferred /\ fr.kind = "PSH"
          /\ Taking(s) /\ ~fr.direct /\ ~fr.deferred =>
               \/ fr.read = 0 /\ fr.feed = 0 /\ ~fr.checked
               \/ fr.read = fr.len /\ fr.kind = "PSH"
          /\ Taking(s) /\ fr.direct /\ ~fr.deferred => pend[s] = <<>>
      BY <3>1 DEF InStream, Framed
    <3>3. SameFlags /\ clientFin'[s] = clientFin[s] BY <3>1
    <3> QED BY <1>3, <3>1, <3>2, <3>3, Zenon DEF SameRow, SameFrame, SameFlags
  <2> QED BY <2>1, <2>2 DEF Framed
<1> QED BY <1>2, <1>5, <1>6 DEF InStream

\* A stream without a share in the frame in progress, before or after.
LEMMA StreamApart ==
  ASSUME NEW s \in Streams, InStream(s), SameRow(s),
         Open(s) => Unstored(s) = 0, ~OfFrame(s)', fr'.target # s,
         fr'.kind = "NEW" => Cool /\ fr'.base = 0
  PROVE  InStream(s)'
<1>1. Held(s)' = Held(s) BY DEF SameRow, Held
<1>2. Ordered(s)' BY DEF InStream, Ordered, SameRow, Run, Request
<1>3. Unstored(s)' = 0 BY DEF Unstored, OfFrame
<1>4. Counted(s)'
  <2>1. Taking(s) => Open(s) BY DEF Taking, Open
  <2>2. st[s] = "request" => Open(s) BY DEF Open
  <2> QED
    BY <1>1, <1>3, <2>1, <2>2 DEF InStream, Counted, SameRow, Request, Taking
<1>5. Framed(s)' BY DEF Framed
<1> QED BY <1>2, <1>4, <1>5 DEF InStream

\* Every stream keeps its bytes, and the frame in progress is the same.
LEMMA StreamsSame ==
  ASSUME Streamed, fr' = fr, UNCHANGED <<st, req, pend, sent, up, clientFin>>,
         \A s \in Streams : buf'[s].data = buf[s].data
  PROVE  Streamed'
<1> SUFFICES ASSUME NEW s \in Streams PROVE InStream(s)' BY DEF Streamed
<1>1. InStream(s) /\ SameRow(s) /\ SameFrame /\ SameFlags
  BY DEF Streamed, SameRow, SameFrame, SameFlags
<1> QED BY <1>1, StreamSame

\* Bytes of a stream move within it or out of it upstream.
LEMMA StreamMoves ==
  ASSUME IInv, IInv', NEW s \in Streams, InStream(s), fr' = fr,
         st'[s] = st[s], req'[s] = req[s], sent'[s] = sent[s],
         clientFin'[s] = clientFin[s],
         Ordered(s)', up'[s] + Held(s)' = up[s] + Held(s),
         Held(s) = 0 => Held(s)' = 0,
         pend[s] = <<>> => pend'[s] = <<>>
  PROVE  InStream(s)'
<1>0. /\ up[s] \in Nat /\ up'[s] \in Nat /\ Held(s) \in Nat /\ Held(s)' \in Nat
      /\ Request \in Nat /\ Unstored(s) \in Nat
  <2>1. up[s] \in Nat /\ Held(s) \in Nat /\ Request \in Nat BY RowTypes
  <2>2. up'[s] \in Nat BY DEF IInv, StreamsOK
  <2>3. Len(buf'[s].data) \in Nat /\ Len(pend'[s]) \in Nat
    BY DEF IInv, BuffersOK, BufSet
  <2>4. Held(s)' \in Nat
    <3>1. Held(s)' = Len(buf'[s].data) + Len(pend'[s]) BY DEF Held
    <3>2. PICK a \in Nat, b \in Nat : a = Len(buf'[s].data) /\ b = Len(pend'[s])
      BY <2>3
    <3>3. a + b \in Nat OBVIOUS
    <3>4. Held(s)' = a + b BY <3>1, <3>2
    <3> QED BY <3>3, <3>4, Zenon
  <2>5. Unstored(s) \in Nat BY UnstoredType
  <2> QED BY <2>1, <2>2, <2>4, <2>5
<1>1. Unstored(s)' = Unstored(s) /\ Request' = Request BY DEF Unstored, Request
<1>2. Counted(s)'
  <2>1. st[s] \in {"absent", "request"} =>
          Held(s)' = 0 /\ up'[s] = 0
    <3>1. st[s] \in {"absent", "request"} => Held(s) = 0 /\ up[s] = 0
      BY DEF InStream, Counted
    <3> QED BY <1>0, <3>1
  <2>2. Taking(s) => Request + up'[s] + Held(s)' + Unstored(s) = sent[s]
    <3>1. Taking(s) => Request + up[s] + Held(s) + Unstored(s) = sent[s]
      BY Zenon DEF InStream, Counted
    <3>2. PICK a \in Nat, b \in Nat, a2 \in Nat, b2 \in Nat, c \in Nat, d \in Nat :
            /\ a = up[s] /\ b = Held(s) /\ a2 = up'[s] /\ b2 = Held(s)'
            /\ c = Request /\ d = Unstored(s)
      BY <1>0, Zenon
    <3>3. a2 + b2 = a + b BY <3>2, Zenon
    <3>4. c + a2 + b2 + d = c + a + b + d
      <4> HIDE <3>2
      <4> QED BY <3>3, SMT
    <3> QED BY <3>1, <3>2, <3>4, Zenon
  <2>3. st[s] = "request" => ~Cool /\ req[s] + Unstored(s) = sent[s]
    BY DEF InStream, Counted
  <2>4. st[s] = "absent" => sent[s] = 0 /\ req[s] = 0 BY DEF InStream, Counted
  <2> QED BY <1>1, <2>1, <2>2, <2>3, <2>4 DEF Counted, Taking
<1>3. Framed(s)'
  BY DEF InStream, Framed, OfFrame, Open, Taking
<1> QED BY <1>2, <1>3 DEF InStream

\* cleanup_stream: the stream is absent, the others keep their bytes.
LEMMA ReapStream ==
  ASSUME IInv, Streamed, NEW s \in Streams, Reap(s)
  PROVE  Streamed'
<1> SUFFICES ASSUME NEW t \in Streams PROVE InStream(t)' BY DEF Streamed
<1>0. InStream(t) /\ InStream(s) BY DEF Streamed
<1>t. /\ st \in [Streams -> {"absent", "request", "opening", "proxy", "closing"}]
      /\ req \in [Streams -> 0 .. ReqLen] /\ sent \in [Streams -> 0 .. MaxData]
      /\ up \in [Streams -> Nat] /\ clientFin \in [Streams -> BOOLEAN]
      /\ buf \in [Streams -> BufSet] /\ pend \in [Streams -> Seq(Bytes)]
  BY DEF IInv, StreamsOK, BuffersOK
<1>f. fr.target = s =>
        /\ fr'.target = NoStream /\ fr'.kind = fr.kind /\ fr'.sid = fr.sid
        /\ fr'.base = fr.base
  BY FrameTypes DEF Reap, FrameSet
<1>g. fr.target # s => fr' = fr BY DEF Reap
<1>n. s # NoStream /\ t # NoStream BY Constants
<1>1. CASE t = s
  <2>1. /\ st'[t] = "absent" /\ req'[t] = 0 /\ sent'[t] = 0 /\ up'[t] = 0
        /\ buf'[t] = NoBuf /\ pend'[t] = <<>>
    BY <1>1, <1>t DEF Reap
  <2>2. buf'[t].data = <<>> BY <2>1 DEF NoBuf
  <2>3. Held(t)' = 0 BY <2>1, <2>2 DEF Held
  <2>4. Ordered(t)' BY <2>1, <2>2, RunEmpty DEF Ordered
  <2>5. Counted(t)' BY <2>1, <2>3 DEF Counted, Taking
  <2>6. fr'.target # t BY <1>1, <1>f, <1>g, <1>n
  <2>7. fr'.kind = "NEW" => Cool /\ fr'.base = 0
    BY <1>0, <1>f, <1>g DEF InStream, Framed
  <2>8. Framed(t)' BY <2>1, <2>6, <2>7 DEF Framed, Open
  <2> QED BY <2>4, <2>5, <2>8 DEF InStream
<1>2. CASE t # s
  <2>1. SameRow(t) BY <1>2, <1>t DEF Reap, SameRow
  <2>2. CASE fr.target = s
    <3>1. fr.sid = s BY <1>0, <2>2 DEF InStream, Framed, OfFrame
    <3>2. Unstored(t) = 0 BY <1>2, <3>1 DEF Unstored
    <3>3. ~OfFrame(t)' /\ fr'.target # t BY <1>2, <1>f, <1>n, <2>2, <3>1 DEF OfFrame
    <3>4. fr'.kind = "NEW" => Cool /\ fr'.base = 0
      BY <1>0, <1>f, <2>2 DEF InStream, Framed
    <3> QED BY <1>0, <2>1, <3>2, <3>3, <3>4, StreamApart
  <2>3. CASE fr.target # s
    <3>1. SameFrame /\ SameFlags BY <1>g, <2>3 DEF SameFrame, SameFlags
    <3>2. clientFin'[t] = clientFin[t] BY <1>2, <1>t DEF Reap
    <3> QED BY <1>0, <2>1, <3>1, <3>2, StreamSame
  <2> QED BY <2>2, <2>3
<1> QED BY <1>1, <1>2

\* A stream that only waits for its FIN to be flushed takes no more bytes.
LEMMA ShutStream ==
  ASSUME IInv, Streamed, NEW s \in Streams, Shut(s), UNCHANGED dataVars,
         fr' = fr \/ (fr.kind = "none" /\ fr' = NoFrame)
  PROVE  Streamed'
<1> SUFFICES ASSUME NEW t \in Streams PROVE InStream(t)' BY DEF Streamed
<1>0. InStream(t) BY DEF Streamed
<1>t. /\ st \in [Streams -> {"absent", "request", "opening", "proxy", "closing"}]
      /\ clientFin \in [Streams -> BOOLEAN]
  BY DEF IInv, StreamsOK
<1>n. t # NoStream /\ NoFrame.target = NoStream /\ NoFrame.kind = "none"
  BY Constants DEF NoFrame
<1>1. CASE t = s
  <2>1. st'[t] = "closing" BY <1>1, <1>t DEF Shut
  <2>2. Ordered(t)' BY <1>0 DEF InStream, Ordered, dataVars, Run, Request
  <2>3. Counted(t)' BY <2>1 DEF Counted, Taking
  <2>4. Framed(t)'
    <3>1. ~Open(t)' BY <2>1 DEF Open
    <3>2. /\ fr'.target = t => OfFrame(t)'
          /\ fr'.kind = "NEW" => Cool /\ fr'.base = 0
      BY <1>0, <1>n DEF InStream, Framed, OfFrame
    <3> QED BY <2>1, <3>1, <3>2 DEF Framed
  <2> QED BY <2>2, <2>3, <2>4 DEF InStream
<1>2. CASE t # s
  <2>1. SameRow(t) BY <1>2, <1>t DEF Shut, SameRow, dataVars
  <2>2. CASE fr' = fr
    <3>1. SameFrame /\ SameFlags BY <2>2 DEF SameFrame, SameFlags
    <3>2. clientFin'[t] = clientFin[t] BY <1>2, <1>t DEF Shut
    <3> QED BY <1>0, <2>1, <3>1, <3>2, StreamSame
  <2>3. CASE fr.kind = "none" /\ fr' = NoFrame
    <3>1. Unstored(t) = 0 BY <2>3 DEF Unstored
    <3>2. ~OfFrame(t)' /\ fr'.target # t /\ fr'.kind # "NEW"
      BY <1>n, <2>3 DEF OfFrame
    <3> QED BY <1>0, <2>1, <3>1, <3>2, StreamApart
  <2> QED BY <2>2, <2>3
<1> QED BY <1>1, <1>2

\* close_stream.
LEMMA CloseStream ==
  ASSUME IInv, Streamed, NEW s \in Streams, Close(s)
  PROVE  Streamed'
<1>1. CASE finSent[s] BY <1>1, ReapStream DEF Close
<1>2. CASE ~finSent[s] BY <1>2, ShutStream DEF Close
<1> QED BY <1>1, <1>2

----------------------------------------------------------------------------
(* Bytes that move within a stream, and bytes that reach it.               *)

\* flush_to_upstream: n bytes leave the buffer for the upstream.
LEMMA SendStream ==
  ASSUME IInv, IInv', Streamed, NEW n \in 1 .. Budget, Send(n)
  PROVE  Streamed'
<1> SUFFICES ASSUME NEW t \in Streams PROVE InStream(t)' BY DEF Streamed
<1>0. InStream(t) BY DEF Streamed
<1>c. cur \in Streams BY DEF IInv, HandlerOK, Send
<1>t. buf \in [Streams -> BufSet] /\ up \in [Streams -> Nat]
  BY DEF IInv, StreamsOK, BuffersOK
<1>1. CASE t # cur
  <2>1. SameRow(t) /\ SameFrame /\ SameFlags /\ clientFin'[t] = clientFin[t]
    BY <1>1, <1>c, <1>t DEF Send, SameRow, SameFrame, SameFlags
  <2> QED BY <1>0, <2>1, StreamSame
<1>2. CASE t = cur
  <2> DEFINE d == buf[t].data
             r == SubSeq(d, n + 1, Len(d))
  <2>0. /\ d \in Seq(Bytes) /\ Len(d) \in Nat /\ Len(pend[t]) \in Nat
        /\ Request + up[t] \in Nat /\ Request \in Nat /\ up[t] \in Nat
    BY RowTypes
  <2>1. n \in Nat /\ n \in 0 .. Len(d)
    <3>1. n <= Smaller(Len(d), budget) /\ budget \in Nat /\ n \in Nat
      BY <1>2, Constants DEF Send, IInv, HandlerOK
    <3> HIDE DEF d
    <3> QED BY <2>0, <3>1 DEF Smaller
  <2>2. /\ buf'[t].data = r /\ up'[t] = up[t] + n /\ pend' = pend
        /\ UNCHANGED <<st, req, sent, clientFin, fr>>
    <3>1. buf' = [buf EXCEPT ![t].data = SubSeq(@, n + 1, Len(@)), ![t].off = @ + n]
      BY <1>2 DEF Send
    <3>2. buf'[t].data = r BY <1>t, <3>1 DEF BufSet
    <3> QED BY <1>2, <1>t, <3>2 DEF Send
  <2>3. /\ Run(d, Request + up[t])
        /\ Run(pend[t], Request + up[t] + Len(d))
    BY <1>0 DEF InStream, Ordered
  <2>4. Run(r, (Request + up[t]) + n) /\ Len(r) = Len(d) - n
    <3> HIDE DEF d
    <3> QED BY <2>0, <2>1, <2>3, RunCut, SubSeqType
  <2> HIDE DEF d, r
  <2>5. Request' = Request BY DEF Request
  <2>6. Ordered(t)'
    <3>1. /\ (Request + up[t]) + n = Request + up'[t]
          /\ Request + up[t] + Len(d) = Request + up'[t] + Len(r)
      BY <2>0, <2>1, <2>2, <2>4
    <3>2. Run(buf'[t].data, Request + up'[t])
      BY <2>2, <2>4, <3>1, Zenon
    <3>3. Run(pend'[t], Request + up'[t] + Len(buf'[t].data))
      BY <2>2, <2>3, <3>1, Zenon
    <3> QED BY <2>5, <3>2, <3>3, Zenon DEF Ordered, Run
  <2>7. Held(t) = Len(d) + Len(pend[t]) /\ Held(t)' = Len(r) + Len(pend[t])
    BY <2>2 DEF Held, d
  <2>8. /\ up'[t] + Held(t)' = up[t] + Held(t)
        /\ Held(t) = 0 => Held(t)' = 0
    BY <2>0, <2>1, <2>2, <2>4, <2>7
  <2> QED BY <1>0, <2>2, <2>6, <2>8, StreamMoves
<1> QED BY <1>1, <1>2

\* drain_pending_frames: n bytes of the pending frames follow the buffer's.
LEMMA DrainStream ==
  ASSUME IInv, IInv', Streamed, NEW c \in 1 .. MaxFrame, Drain(c)
  PROVE  Streamed'
<1> SUFFICES ASSUME NEW t \in Streams PROVE InStream(t)' BY DEF Streamed
<1>0. InStream(t) BY DEF Streamed
<1>c. cur \in Streams BY DEF IInv, HandlerOK, Drain
<1>t. buf \in [Streams -> BufSet] /\ pend \in [Streams -> Seq(Bytes)]
  BY DEF IInv, BuffersOK
<1>1. CASE t # cur
  <2>1. SameRow(t) /\ SameFrame /\ SameFlags /\ clientFin'[t] = clientFin[t]
    BY <1>1, <1>c, <1>t DEF Drain, SameRow, SameFrame, SameFlags, endVars
  <2> QED BY <1>0, <2>1, StreamSame
<1>2. CASE t = cur
  <2> DEFINE e == Ensure(buf[t], c)
             b == IF Room(e) = 0 THEN Compact(e) ELSE e
             n == Smaller(Room(b), c)
             d == buf[t].data
             q == pend[t]
             h == SubSeq(q, 1, n)
             r == SubSeq(q, n + 1, Len(q))
  <2>0. /\ d \in Seq(Bytes) /\ Len(d) \in Nat /\ q \in Seq(Bytes) /\ Len(q) \in Nat
        /\ Request + up[t] \in Nat /\ Request \in Nat /\ up[t] \in Nat
    BY RowTypes
  <2>1. e \in BufSet /\ BufFits(e) /\ e.data = d
    BY <1>2, <1>c, Constants, EnsureType DEF IInv, BuffersOK
  <2>2. b \in BufSet /\ b.data = d /\ Room(b) \in Nat
    <3> HIDE DEF e, d
    <3> QED BY <2>1, CompactType
  <2>3. n \in 0 .. Len(q)
    <3>1. c <= Len(q) BY <1>2 DEF Drain
    <3> HIDE DEF b, q
    <3> QED BY <2>0, <2>2, <3>1, Constants DEF Smaller
  <2>4. /\ buf' = [buf EXCEPT ![t] = [b EXCEPT !.data = @ \o h]]
        /\ pend' = [pend EXCEPT ![t] = r]
        /\ UNCHANGED <<st, req, sent, up, clientFin, fr>>
    BY <1>2 DEF Drain, endVars
  <2>5. buf'[t].data = d \o h /\ pend'[t] = r
    <3> HIDE DEF b, d, h, r
    <3> QED BY <1>t, <2>2, <2>4 DEF BufSet
  <2>6. /\ Run(d, Request + up[t]) /\ Run(q, Request + up[t] + Len(d))
    BY <1>0 DEF InStream, Ordered
  <2>7. /\ h \in Seq(Bytes) /\ Len(h) = n /\ Len(r) = Len(q) - n
        /\ Run(h, Request + up[t] + Len(d)) /\ Run(r, Request + up[t] + Len(d) + n)
    <3>1. Request + up[t] + Len(d) \in Nat
      <4> HIDE DEF d
      <4> QED BY <2>0
    <3> HIDE DEF d, q, n
    <3> QED BY <2>0, <2>3, <2>6, <3>1, RunCut, SubSeqType
  <2> HIDE DEF d, q, h, r, n, b, e
  <2>8. Run(d \o h, Request + up[t]) /\ Len(d \o h) = Len(d) + n
    BY <2>0, <2>6, <2>7, RunJoin
  <2>9. Ordered(t)'
    <3>1. n \in Nat BY <2>0, <2>3
    <3>2. Request + up[t] + Len(d) + n = Request + up[t] + Len(d \o h)
      BY <2>0, <2>8, <3>1
    <3>3. Run(buf'[t].data, Request + up'[t])
      BY <2>4, <2>5, <2>8, Zenon
    <3>4. Run(pend'[t], Request + up'[t] + Len(buf'[t].data))
      BY <2>4, <2>5, <2>7, <3>2, Zenon
    <3>5. Request' = Request BY DEF Request
    <3> QED BY <3>3, <3>4, <3>5, Zenon DEF Ordered, Run
  <2>10. Held(t) = Len(d) + Len(q) /\ Held(t)' = (Len(d) + n) + (Len(q) - n)
    BY <2>5, <2>7, <2>8 DEF Held, d, q
  <2>11. up'[t] + Held(t)' = up[t] + Held(t) /\ (Held(t) = 0 => Held(t)' = 0)
    BY <2>0, <2>3, <2>4, <2>10
  <2>12. q = <<>> => pend'[t] = <<>>
    <3>1. ASSUME q = <<>> PROVE pend'[t] = <<>>
      <4>1. Len(q) = 0 BY <3>1, EmptySeq
      <4>n. n = 0 BY <2>3, <4>1
      <4>2. Len(r) = 0 - 0 BY <2>7, <4>1, <4>n, Zenon
      <4>3. r \in Seq(Bytes) BY <2>5, <1>t DEF IInv, BuffersOK
      <4> QED BY <2>5, <4>2, <4>3, EmptySeq
    <3> QED BY <3>1
  <2> QED BY <1>0, <2>4, <2>9, <2>11, <2>12, StreamMoves DEF q
<1> QED BY <1>1, <1>2

\* Bytes that follow all that a stream holds are stored: in the buffer, when
\* nothing is pending, or behind the pending frames.
LEMMA StoreStream ==
  ASSUME IInv, NEW s \in Streams, Ordered(s), NEW d \in Seq(Bytes),
         Run(d, Request + up[s] + Held(s)), up'[s] = up[s],
         \/ pend[s] = <<>> /\ buf'[s].data = buf[s].data \o d /\ pend'[s] = <<>>
         \/ buf'[s].data = buf[s].data /\ pend'[s] = pend[s] \o d
  PROVE  Ordered(s)' /\ Held(s)' = Held(s) + Len(d)
<1>0. /\ buf[s].data \in Seq(Bytes) /\ pend[s] \in Seq(Bytes)
      /\ Len(buf[s].data) \in Nat /\ Len(pend[s]) \in Nat
      /\ Request + up[s] \in Nat
  BY RowTypes
<1>1. Request' = Request BY DEF Request
<1>2. Len(d) \in Nat BY LenProperties
<1>3. Run(buf[s].data, Request + up[s]) /\ Run(pend[s], Request + up[s] + Len(buf[s].data))
  BY DEF Ordered
<1>4. CASE /\ pend[s] = <<>> /\ buf'[s].data = buf[s].data \o d /\ pend'[s] = <<>>
  <2>1. Held(s) = Len(buf[s].data) BY <1>0, <1>4, EmptySeq DEF Held
  <2>2. Run(d, Request + up[s] + Len(buf[s].data)) BY <2>1, Zenon
  <2>3. /\ Run(buf[s].data \o d, Request + up[s])
        /\ Len(buf[s].data \o d) = Len(buf[s].data) + Len(d)
    BY <1>0, <1>3, <2>2, RunJoin
  <2>4. Run(buf'[s].data, Request + up'[s]) BY <1>4, <2>3, Zenon
  <2>5. Run(pend'[s], Request + up'[s] + Len(buf'[s].data)) BY <1>4, RunEmpty
  <2>6. Ordered(s)' BY <1>1, <2>4, <2>5, Zenon DEF Ordered, Run
  <2>7. Held(s)' = Len(buf[s].data) + Len(d)
    <3>1. Held(s)' = Len(buf'[s].data) + Len(pend'[s]) BY DEF Held
    <3>2. Len(pend'[s]) = 0 BY <1>4, EmptySeq
    <3>3. Len(buf'[s].data) = Len(buf[s].data) + Len(d) BY <1>4, <2>3
    <3>4. Held(s)' = (Len(buf[s].data) + Len(d)) + 0 BY <3>1, <3>2, <3>3, Zenon
    <3>5. (Len(buf[s].data) + Len(d)) + 0 = Len(buf[s].data) + Len(d)
      <4>1. PICK x \in Nat, y \in Nat : x = Len(buf[s].data) /\ y = Len(d) BY <1>0, <1>2
      <4>2. (x + y) + 0 = x + y OBVIOUS
      <4> QED BY <4>1, <4>2, Zenon
    <3> QED BY <3>4, <3>5, Zenon
  <2>8. Held(s)' = Held(s) + Len(d) BY <2>1, <2>7
  <2> QED BY <2>6, <2>8, Zenon
<1>5. CASE buf'[s].data = buf[s].data /\ pend'[s] = pend[s] \o d
  <2>1. Held(s) = Len(buf[s].data) + Len(pend[s]) BY DEF Held
  <2>2. Request + up[s] + Held(s) = (Request + up[s] + Len(buf[s].data)) + Len(pend[s])
    <3>1. PICK r \in Nat, x \in Nat, y \in Nat :
            r = Request + up[s] /\ x = Len(buf[s].data) /\ y = Len(pend[s])
      BY <1>0
    <3>2. r + (x + y) = (r + x) + y OBVIOUS
    <3> QED BY <2>1, <3>1, <3>2, Zenon
  <2>3. Run(d, (Request + up[s] + Len(buf[s].data)) + Len(pend[s])) BY <2>2, Zenon
  <2>4. Request + up[s] + Len(buf[s].data) \in Nat
    <3>1. PICK r \in Nat, x \in Nat : r = Request + up[s] /\ x = Len(buf[s].data)
      BY <1>0
    <3>2. r + x \in Nat OBVIOUS
    <3> QED BY <3>1, <3>2, Zenon
  <2>5. /\ Run(pend[s] \o d, Request + up[s] + Len(buf[s].data))
        /\ Len(pend[s] \o d) = Len(pend[s]) + Len(d)
    BY <1>0, <1>3, <2>3, <2>4, RunJoin
  <2>6. Ordered(s)'
    <3>1. Run(buf'[s].data, Request + up'[s]) BY <1>3, <1>5, Zenon
    <3>2. Run(pend'[s], Request + up'[s] + Len(buf'[s].data)) BY <1>5, <2>5, Zenon
    <3> QED BY <1>1, <3>1, <3>2, Zenon DEF Ordered, Run
  <2>7. Held(s)' = Len(buf[s].data) + (Len(pend[s]) + Len(d))
    <3>1. Held(s)' = Len(buf'[s].data) + Len(pend'[s]) BY DEF Held
    <3>2. Len(pend'[s]) = Len(pend[s]) + Len(d) BY <1>5, <2>5
    <3> QED BY <1>5, <3>1, <3>2, Zenon
  <2>8. Len(buf[s].data) + (Len(pend[s]) + Len(d))
          = (Len(buf[s].data) + Len(pend[s])) + Len(d)
    <3>1. PICK x \in Nat, y \in Nat, z \in Nat :
            x = Len(buf[s].data) /\ y = Len(pend[s]) /\ z = Len(d)
      BY <1>0, <1>2
    <3>2. x + (y + z) = (x + y) + z OBVIOUS
    <3> QED BY <3>1, <3>2, Zenon
  <2> QED BY <2>1, <2>6, <2>7, <2>8, Zenon
<1> QED BY <1>4, <1>5, Zenon

\* An open stream whose frame is in progress: what is stored ends where the
\* unstored rest of the payload begins.
LEMMA TakingFrame ==
  ASSUME IInv, NEW s \in Streams, InStream(s), OfFrame(s), Taking(s),
         NEW k \in Nat, k <= fr.len, Unstored(s) = fr.len - k
  PROVE  fr.base + k = Request + up[s] + Held(s)
<1>1. /\ fr.base + fr.len = sent[s]
      /\ Request + up[s] + Held(s) + Unstored(s) = sent[s]
  BY DEF InStream, Framed, Counted, Open, Taking
<1>2. PICK b \in Nat, l \in Nat, r \in Nat, h \in Nat :
        b = fr.base /\ l = fr.len /\ r = Request + up[s] /\ h = Held(s)
  BY FrameTypes, RowTypes
<1>3. r + h + (l - k) = b + l BY <1>1, <1>2
<1>4. b + k = r + h BY <1>3
<1> QED BY <1>2, <1>4, Zenon

\* The frame whose payload goes to its stream's buffers is that of an open
\* stream.
LEMMA StoringStream ==
  ASSUME IInv, Streamed, Storing, fr.direct \/ fr.deferred
  PROVE  /\ fr.target \in Streams /\ OfFrame(fr.target) /\ Taking(fr.target)
         /\ fr.sid = fr.target
<1>1. fr.target # NoStream /\ fr.target \in Streams
  BY FrameTypes DEF Storing
<1>2. st[fr.target] # "closing" BY <1>1 DEF Storing, TargetIn
<1>3. InStream(fr.target) BY <1>1 DEF Streamed
<1>4. OfFrame(fr.target) /\ st[fr.target] # "absent"
  BY <1>3 DEF InStream, Framed
<1>5. st[fr.target] \in {"request", "opening", "proxy"}
  BY <1>1, <1>2, <1>4 DEF IInv, StreamsOK
<1>6. st[fr.target] # "request"
  BY <1>3, <1>4, <1>5 DEF InStream, Framed, Open
<1> QED BY <1>1, <1>4, <1>5, <1>6 DEF Taking, OfFrame

\* The frame after n more bytes of its payload were received.
Received(n) ==
  /\ fr'.kind = fr.kind /\ fr'.sid = fr.sid /\ fr'.len = fr.len
  /\ fr'.base = fr.base /\ fr'.read = fr.read + n /\ fr'.feed = fr.feed
  /\ fr'.target = fr.target /\ fr'.checked = fr.checked
  /\ fr'.direct = (fr.direct /\ Storing)
  /\ fr'.deferred = (fr.deferred /\ Storing)

\* That is what the steps which receive payload make of it.
LEMMA ReceivedFrame ==
  ASSUME IInv, NEW n \in Nat, fr' = [Settled EXCEPT !.read = @ + n]
  PROVE  Received(n)
<1>1. fr \in FrameSet BY FrameTypes
<1>2. /\ Settled.kind = fr.kind /\ Settled.sid = fr.sid /\ Settled.len = fr.len
      /\ Settled.base = fr.base /\ Settled.read = fr.read
      /\ Settled.feed = fr.feed /\ Settled.target = fr.target
      /\ Settled.checked = fr.checked
      /\ Settled.direct = (fr.direct /\ Storing)
      /\ Settled.deferred = (fr.deferred /\ Storing)
      /\ DOMAIN Settled = DOMAIN fr
  BY <1>1 DEF Settled, FrameSet
<1>3. DOMAIN fr = {"kind", "sid", "len", "base", "read", "feed", "target",
                   "direct", "checked", "blocked", "deferred"}
  BY <1>1 DEF FrameSet
<1> HIDE DEF Settled
<1> QED BY <1>2, <1>3 DEF Received

\* Streams other than the one a frame belongs to are not concerned by it.
LEMMA OthersApart ==
  ASSUME NEW s, NEW t \in Streams, t # s, InStream(t), SameRow(t),
         fr.sid = s \/ fr.kind \in {"none", "NEW"},
         fr'.sid = s \/ fr'.kind \in {"none", "NEW"},
         fr'.target \in {s, NoStream},
         fr'.kind = "NEW" => Cool /\ fr'.base = 0
  PROVE  InStream(t)'
<1>1. Unstored(t) = 0 BY DEF Unstored
<1>2. ~OfFrame(t)' BY DEF OfFrame
<1>3. fr'.target # t BY Constants
<1> QED BY <1>1, <1>2, <1>3, StreamApart

\* n bytes of payload go to the end of what its stream holds.
Stored(s, d) ==
  /\ UNCHANGED <<st, req, sent, up, clientFin>>
  /\ \A t \in Streams : t # s => buf'[t].data = buf[t].data /\ pend'[t] = pend[t]
  /\ \/ ~fr.deferred /\ buf'[s].data = buf[s].data \o d /\ pend' = pend
     \/ fr.deferred /\ buf'[s].data = buf[s].data /\ pend'[s] = pend[s] \o d
Piece(n) == SubSeq(Payload(fr.read), 1, n)

\* Payload that is received into the stream's buffers.
LEMMA PieceStream ==
  ASSUME IInv, Streamed, NEW n \in 1 .. MaxFrame, Receiving(n),
         Storing, fr.direct \/ fr.deferred, Received(n), Stored(fr.target, Piece(n))
  PROVE  Streamed'
<1> SUFFICES ASSUME NEW t \in Streams PROVE InStream(t)' BY DEF Streamed
<1>0. InStream(t) BY DEF Streamed
<1>s. PICK s : s = fr.target OBVIOUS
<1>d. PICK d : d = Piece(n) OBVIOUS
<1>p. /\ UNCHANGED <<st, req, sent, up, clientFin>>
      /\ \A u \in Streams : u # s => buf'[u].data = buf[u].data /\ pend'[u] = pend[u]
      /\ \/ ~fr.deferred /\ buf'[s].data = buf[s].data \o d /\ pend' = pend
         \/ fr.deferred /\ buf'[s].data = buf[s].data /\ pend'[s] = pend[s] \o d
  BY <1>s, <1>d, Zenon DEF Stored
<1>1. s \in Streams /\ OfFrame(s) /\ Taking(s) /\ fr.sid = s BY <1>s, StoringStream
<1>2. n \in Nat BY Constants
<1>3. /\ fr'.kind = fr.kind /\ fr'.sid = fr.sid /\ fr'.len = fr.len
      /\ fr'.base = fr.base /\ fr'.read = fr.read + n /\ fr'.feed = fr.feed
      /\ fr'.target = fr.target /\ fr'.checked = fr.checked
      /\ fr'.direct = fr.direct /\ fr'.deferred = fr.deferred
  BY FrameTypes DEF Received
<1>4. CASE t # s
  <2>1. SameRow(t) BY <1>4, <1>p DEF SameRow
  <2>2. fr'.kind # "NEW" BY <1>1, <1>3 DEF OfFrame
  <2> QED BY <1>0, <1>1, <1>3, <1>4, <1>s, <2>1, <2>2, OthersApart
<1>5. CASE t = s
  <2>1. /\ fr.read \in Nat /\ fr.len \in Nat /\ fr.base \in Nat
        /\ fr.read <= fr.len /\ fr.read + n <= fr.len /\ sent[s] \in Nat
        /\ Request + up[s] \in Nat /\ Held(s) \in Nat
    <3>1. n <= fr.len - fr.read BY DEF Receiving
    <3>2. fr.read \in Nat /\ fr.len \in Nat /\ fr.base \in Nat /\ fr.read <= fr.len
      BY FrameTypes
    <3>3. sent[s] \in Nat /\ Request + up[s] \in Nat /\ Held(s) \in Nat
      BY <1>1, RowTypes
    <3> QED BY <1>2, <3>1, <3>2, <3>3
  <2>2. Unstored(s) = fr.len - fr.read
    BY <1>1 DEF Unstored, OfFrame
  <2>3. Unstored(s)' = fr.len - (fr.read + n)
    BY <1>1, <1>3, <1>p DEF Unstored, OfFrame
  <2>4. /\ d \in Seq(Bytes) /\ Len(d) = n /\ Run(d, fr.base + fr.read)
    BY <1>2, <1>d, <2>1, RunPayload DEF IInv, Piece
  <2>5. fr.base + fr.read = Request + up[s] + Held(s)
    BY <1>0, <1>1, <1>5, <2>1, <2>2, TakingFrame
  <2>6. Run(d, Request + up[s] + Held(s)) BY <2>4, <2>5, Zenon
  <2>7. ~fr.deferred => pend[s] = <<>>
    BY <1>0, <1>1, <1>5 DEF InStream, Framed, Open, Taking
  <2>8. \/ pend[s] = <<>> /\ buf'[s].data = buf[s].data \o d /\ pend'[s] = <<>>
        \/ buf'[s].data = buf[s].data /\ pend'[s] = pend[s] \o d
    BY <1>p, <2>7, Zenon
  <2>9. Ordered(s) BY <1>0, <1>5 DEF InStream
  <2>10. up'[s] = up[s] BY <1>p
  <2>11. Ordered(s)' /\ Held(s)' = Held(s) + Len(d)
    BY <1>1, <2>4, <2>6, <2>8, <2>9, <2>10, StoreStream
  <2>12. Counted(s)'
    <3>1. Request + up[s] + Held(s) + Unstored(s) = sent[s]
      BY <1>0, <1>1, <1>5 DEF InStream, Counted
    <3>2. Request + up[s] + (Held(s) + n) + (fr.len - (fr.read + n)) = sent[s]
      <4>1. PICK r \in Nat, h \in Nat, l \in Nat, k \in Nat :
              r = Request + up[s] /\ h = Held(s) /\ l = fr.len /\ k = fr.read
        BY <2>1
      <4>2. r + h + (l - k) = sent[s] BY <2>2, <3>1, <4>1
      <4>3. r + (h + n) + (l - (k + n)) = sent[s] BY <1>2, <4>2
      <4> QED BY <4>1, <4>3, Zenon
    <3>3. Request' = Request BY DEF Request
    <3>4. Request' + up'[s] + Held(s)' + Unstored(s)' = sent'[s]
      BY <1>p, <2>3, <2>4, <2>11, <3>2, <3>3, Zenon
    <3>5. st'[s] \notin {"absent", "request"} BY <1>1, <1>p DEF Taking
    <3> QED BY <3>4, <3>5 DEF Counted
  <2>13. Framed(s)'
    <3>1. OfFrame(s)' /\ Open(s) /\ st'[s] = st[s] /\ OfFrame(s) /\ st[s] # "request"
          /\ st[s] # "absent"
      BY <1>1, <1>3, <1>p DEF OfFrame, Open, Taking
    <3>2. /\ fr.base + fr.len = sent[s] /\ ~clientFin[s]
          /\ fr.direct /\ ~fr.deferred => pend[s] = <<>>
      BY <1>0, <1>1, <1>5, <3>1 DEF InStream, Framed
    <3>3. fr'.direct /\ ~fr'.deferred => pend'[s] = <<>>
      BY <1>3, <1>p, <1>s, <3>2
    <3>4. fr'.kind # "NEW" BY <1>1, <1>3 DEF OfFrame
    <3>5. fr'.base + fr'.len = sent'[s] /\ ~clientFin'[s] /\ fr'.target = s
      BY <1>3, <1>p, <1>s, <3>2
    <3> QED BY <1>3, <3>1, <3>3, <3>4, <3>5 DEF Framed
  <2>14. InStream(s)' BY <2>11, <2>12, <2>13 DEF InStream
  <2> QED BY <1>5, <2>14
<1> QED BY <1>4, <1>5

\* read_client_payload into the stream's own buffer.
LEMMA ReadDirectStream ==
  ASSUME IInv, Streamed, NEW n \in 1 .. MaxFrame, ReadDirect(n)
  PROVE  Streamed'
<1>1. PICK s : s = fr.target OBVIOUS
<1>2. PICK d : d = Piece(n) OBVIOUS
<1> DEFINE e == Ensure(buf[s], fr.len - fr.read)
           b == IF Room(e) = 0 THEN Compact(e) ELSE e
<1>3. /\ Receiving(n) /\ Storing /\ fr.direct /\ ~fr.deferred
      /\ buf' = [buf EXCEPT ![s] = [b EXCEPT !.data = @ \o d]]
      /\ fr' = [Settled EXCEPT !.read = @ + n]
      /\ UNCHANGED <<st, req, pend, sent, up, clientFin>>
  BY <1>1, <1>2 DEF ReadDirect, endVars, Piece
<1>4. s \in Streams BY <1>1, <1>3, StoringStream
<1>5. buf \in [Streams -> BufSet] /\ buf[s] \in BufSet /\ BufFits(buf[s])
  BY <1>4 DEF IInv, BuffersOK
<1>6. fr.len - fr.read \in 0 .. MaxFrame BY FrameTypes, Constants
<1>7. e \in BufSet /\ BufFits(e) /\ e.data = buf[s].data
  BY <1>5, <1>6, EnsureType
<1>8. b \in BufSet /\ b.data = buf[s].data
  <2> HIDE DEF e
  <2> QED BY <1>7, CompactType
<1> HIDE DEF b
<1>9. buf'[s].data = buf[s].data \o d
  BY <1>3, <1>4, <1>5, <1>8 DEF BufSet
<1>10. \A t \in Streams : t # s => buf'[t].data = buf[t].data /\ pend'[t] = pend[t]
  BY <1>3, <1>5
<1>11. Stored(s, d) BY <1>3, <1>9, <1>10 DEF Stored
<1>12. Receiving(n) /\ Storing /\ (fr.direct \/ fr.deferred) /\ Received(n)
  BY <1>3, Constants, ReceivedFrame
<1> QED BY <1>1, <1>2, <1>11, <1>12, PieceStream

\* read_deferred_payload: behind the pending frames.
LEMMA ReadDeferredStream ==
  ASSUME IInv, Streamed, NEW n \in 1 .. MaxFrame, ReadDeferred(n)
  PROVE  Streamed'
<1>1. PICK s : s = fr.target OBVIOUS
<1>2. PICK d : d = Piece(n) OBVIOUS
<1>3. /\ Receiving(n) /\ Storing /\ fr.deferred
      /\ pend' = [pend EXCEPT ![s] = @ \o d]
      /\ fr' = [Settled EXCEPT !.read = @ + n]
      /\ UNCHANGED <<st, req, buf, sent, up, clientFin>>
  BY <1>1, <1>2 DEF ReadDeferred, endVars, Piece
<1>4. s \in Streams BY <1>1, <1>3, StoringStream
<1>5. pend \in [Streams -> Seq(Bytes)] BY DEF IInv, BuffersOK
<1>6. pend'[s] = pend[s] \o d /\ buf'[s].data = buf[s].data
  BY <1>3, <1>4, <1>5
<1>7. \A t \in Streams : t # s => buf'[t].data = buf[t].data /\ pend'[t] = pend[t]
  BY <1>3, <1>5
<1>8. Stored(s, d) BY <1>3, <1>6, <1>7 DEF Stored
<1>9. Receiving(n) /\ Storing /\ (fr.direct \/ fr.deferred) /\ Received(n)
  BY <1>3, Constants, ReceivedFrame
<1> QED BY <1>1, <1>2, <1>8, <1>9, PieceStream

\* A stream the frame in progress does not feed.
LEMMA StreamIdle ==
  ASSUME NEW s \in Streams, InStream(s), SameRow(s),
         ~(OfFrame(s) /\ Open(s)), fr'.kind = fr.kind, fr'.sid = fr.sid,
         fr'.base = fr.base, fr'.target = fr.target
  PROVE  InStream(s)'
<1>1. Held(s)' = Held(s) BY DEF SameRow, Held
<1>2. Ordered(s)' BY DEF InStream, Ordered, SameRow, Run, Request
<1>3. /\ OfFrame(s)' = OfFrame(s) /\ Open(s)' = Open(s) /\ Taking(s)' = Taking(s)
      /\ Taking(s) => Open(s) /\ (st[s] = "request" => Open(s))
  BY DEF OfFrame, Open, Taking, SameRow
<1>4. Open(s) => Unstored(s) = 0 /\ Unstored(s)' = 0
  BY DEF Unstored, OfFrame
<1>5. Counted(s)'
  <2>1. st[s] = "request" => Open(s) BY DEF Open
  <2> QED BY <1>1, <1>3, <1>4, <2>1 DEF InStream, Counted, SameRow, Request
<1>6. Framed(s)'
  <2>1. fr'.target = s => OfFrame(s)' /\ st'[s] # "absent"
    BY <1>3 DEF InStream, Framed, SameRow
  <2>2. fr'.kind = "NEW" => Cool /\ fr'.base = 0 BY DEF InStream, Framed
  <2>3. ~(OfFrame(s)' /\ Open(s)') BY <1>3
  <2> QED BY <2>1, <2>2, <2>3 DEF Framed
<1> QED BY <1>2, <1>5, <1>6 DEF InStream

\* Payload that is collected for a request, or for a stream that is gone.
LEMMA ReadPlainStream ==
  ASSUME IInv, Streamed, NEW n \in 1 .. MaxFrame, ReadPlain(n)
  PROVE  Streamed'
<1> SUFFICES ASSUME NEW t \in Streams PROVE InStream(t)' BY DEF Streamed
<1>0. InStream(t) BY DEF Streamed
<1>1. /\ Receiving(n) /\ ~(Storing /\ (fr.direct \/ fr.deferred))
      /\ fr' = [Settled EXCEPT !.read = @ + n]
      /\ UNCHANGED <<st, req, buf, pend, sent, up, clientFin>>
  BY DEF ReadPlain, streamVars, dataVars, endVars
<1>2. n \in Nat /\ n > 0 BY Constants
<1>3. /\ fr'.kind = fr.kind /\ fr'.sid = fr.sid /\ fr'.len = fr.len
      /\ fr'.base = fr.base /\ fr'.read = fr.read + n /\ fr'.feed = fr.feed
      /\ fr'.target = fr.target
      /\ fr'.direct = (fr.direct /\ Storing) /\ fr'.deferred = (fr.deferred /\ Storing)
  BY <1>1, <1>2, ReceivedFrame DEF Received
<1>4. SameRow(t) BY <1>1 DEF SameRow
<1>5. CASE ~(OfFrame(t) /\ Open(t))
  BY <1>0, <1>3, <1>4, <1>5, StreamIdle
<1>6. CASE OfFrame(t) /\ Open(t)
  <2>1. /\ fr.base + fr.len = sent[t] /\ ~clientFin[t]
        /\ fr.target = t \/ (fr.len = 0 /\ ~fr.direct /\ ~fr.deferred)
        /\ st[t] = "request" => ~fr.direct /\ ~fr.deferred /\ fr.kind = "PSH"
        /\ Taking(t) /\ ~fr.direct /\ ~fr.deferred =>
             \/ fr.read = 0 /\ fr.feed = 0 /\ ~fr.checked
             \/ fr.read = fr.len /\ fr.kind = "PSH"
    BY <1>0, <1>6 DEF InStream, Framed
  <2>2. /\ n <= fr.len - fr.read /\ ~MustPrepare
        /\ fr.len \in Nat /\ fr.read \in Nat
    BY <1>1, FrameTypes DEF Receiving
  <2>3. fr.len > 0 /\ fr.read # fr.len BY <1>2, <2>2
  <2>4. fr.target = t /\ t # NoStream BY <2>1, <2>3, Constants
  <2>5. Storing BY <1>6, <2>4 DEF Storing, TargetIn, Open
  <2>6. ~fr.direct /\ ~fr.deferred BY <1>1, <2>5
  <2>7. st[t] = "request"
    <3>1. ASSUME Taking(t) PROVE FALSE
      <4>1. fr.read = 0 /\ ~fr.checked BY <2>1, <2>3, <2>6, <3>1
      <4>2. TargetIn({"opening", "proxy"}) BY <2>4, <3>1 DEF TargetIn, Taking
      <4>3. MustPrepare BY <2>3, <4>1, <4>2 DEF MustPrepare
      <4> QED BY <2>2, <4>3
    <3> QED BY <1>6, <3>1 DEF Open, Taking
  <2>8. ~fr'.direct /\ ~fr'.deferred BY <1>3, <2>6
  <2>9. Unstored(t)' = Unstored(t) BY <1>3, <2>6, <2>8 DEF Unstored
  <2>10. Ordered(t)' BY <1>0, <1>4 DEF InStream, Ordered, SameRow, Run, Request
  <2>11. Counted(t)'
    <3>1. Held(t)' = Held(t) BY <1>1 DEF Held
    <3>2. st'[t] = "request" /\ ~Taking(t)' BY <1>1, <2>7 DEF Taking
    <3> QED BY <1>0, <1>1, <2>7, <2>9, <3>1, <3>2 DEF InStream, Counted
  <2>12. Framed(t)'
    <3>1. OfFrame(t)' /\ st'[t] = "request" BY <1>1, <1>3, <1>6, <2>7 DEF OfFrame
    <3>2. fr'.base + fr'.len = sent'[t] /\ ~clientFin'[t] /\ fr'.target = t
      BY <1>1, <1>3, <2>1, <2>4
    <3>3. fr'.kind = "PSH" BY <1>3, <2>1, <2>7
    <3> QED BY <2>8, <3>1, <3>2, <3>3 DEF Framed, Taking
  <2> QED BY <2>10, <2>11, <2>12 DEF InStream
<1> QED BY <1>5, <1>6

----------------------------------------------------------------------------
(* Frames that begin, are fed or end.                                      *)

\* recv has nothing more: an open stream's frame keeps its flags.
LEMMA ReadAgainStream ==
  ASSUME IInv, Streamed, ReadAgain
  PROVE  Streamed'
<1> SUFFICES ASSUME NEW t \in Streams PROVE InStream(t)' BY DEF Streamed
<1>0. InStream(t) BY DEF Streamed
<1>1. /\ fr' = Settled /\ UNCHANGED <<st, req, buf, pend, sent, up, clientFin>>
  BY DEF ReadAgain, streamVars, dataVars, endVars
<1>2. SameRow(t) BY <1>1 DEF SameRow
<1>3. /\ SameFrame /\ fr'.checked = fr.checked
      /\ fr'.direct = (fr.direct /\ Storing) /\ fr'.deferred = (fr.deferred /\ Storing)
  BY <1>1, FrameTypes DEF Settled, SameFrame, FrameSet
<1>4. ASSUME OfFrame(t), Open(t) PROVE SameFlags
  <2>1. fr.target = t \/ (~fr.direct /\ ~fr.deferred)
    BY <1>0, <1>4 DEF InStream, Framed
  <2>2. CASE fr.target = t
    <3>1. Storing BY <1>4, <2>2, Constants DEF Storing, TargetIn, Open
    <3> QED BY <1>3, <3>1, FrameTypes DEF SameFlags
  <2>3. CASE ~fr.direct /\ ~fr.deferred
    BY <1>3, <2>3, FrameTypes DEF SameFlags
  <2> QED BY <2>1, <2>2, <2>3
<1> QED BY <1>0, <1>1, <1>2, <1>3, <1>4, StreamSame

\* The bytes of a stream that has gone, or of one yet to come.
LEMMA NoBytes ==
  ASSUME IInv, NEW s \in Streams, Held(s) = 0
  PROVE  buf[s].data = <<>> /\ pend[s] = <<>>
<1>1. /\ buf[s].data \in Seq(Bytes) /\ pend[s] \in Seq(Bytes)
      /\ Len(buf[s].data) \in Nat /\ Len(pend[s]) \in Nat
  BY RowTypes
<1>2. Len(buf[s].data) + Len(pend[s]) = 0 BY DEF Held
<1>3. Len(buf[s].data) = 0 /\ Len(pend[s]) = 0
  <2>1. PICK x \in Nat, y \in Nat : x = Len(buf[s].data) /\ y = Len(pend[s]) BY <1>1
  <2>2. x + y = 0 BY <1>2, <2>1, Zenon
  <2>3. x = 0 /\ y = 0 BY <2>2
  <2> QED BY <2>1, <2>3, Zenon
<1> QED BY <1>1, <1>3, EmptySeq

\* Between two frames no stream waits for bytes, and none does afterwards.
LEMMA NextFrameApart ==
  ASSUME NEW s \in Streams, InStream(s), SameRow(s),
         Open(s) => Unstored(s) = 0, fr' = NoFrame
  PROVE  InStream(s)'
<1>1. ~OfFrame(s)' /\ fr'.target # s /\ fr'.kind # "NEW"
  BY Constants DEF OfFrame, NoFrame
<1> QED BY <1>1, StreamApart

\* cmdSYN.
LEMMA ReadSynStream ==
  ASSUME IInv, Streamed, NEW s \in Streams, ReadSyn(s)
  PROVE  Streamed'
<1> SUFFICES ASSUME NEW t \in Streams PROVE InStream(t)' BY DEF Streamed
<1>0. InStream(t) BY DEF Streamed
<1>1. /\ fr.kind = "none" /\ fr' = NoFrame /\ ~Cool
      /\ st' = [st EXCEPT ![s] = IF s \in Live THEN @ ELSE "request"]
      /\ UNCHANGED <<req, buf, pend, sent, up, clientFin>>
  BY DEF ReadSyn, AtHeader, NextFrame, dataVars, endVars
<1>2. Unstored(t) = 0 BY <1>1 DEF Unstored
<1>3. st \in [Streams -> {"absent", "request", "opening", "proxy", "closing"}]
  BY DEF IInv, StreamsOK
<1>4. CASE t # s \/ s \in Live
  <2>1. SameRow(t) BY <1>1, <1>3, <1>4 DEF SameRow
  <2> QED BY <1>0, <1>1, <1>2, <2>1, NextFrameApart
<1>5. CASE t = s /\ s \notin Live
  <2>1. st[t] = "absent" /\ st'[t] = "request" BY <1>1, <1>3, <1>5 DEF Live
  <2>2. Ordered(t)' BY <1>0, <1>1 DEF InStream, Ordered, Run, Request
  <2>3. Held(t) = 0 /\ sent[t] = 0 /\ up[t] = 0 /\ req[t] = 0
    BY <1>0, <2>1 DEF InStream, Counted
  <2>4. Held(t)' = Held(t) BY <1>1 DEF Held
  <2>5. Unstored(t)' = 0 BY <1>1 DEF Unstored, NoFrame
  <2>6. Counted(t)' BY <1>1, <2>1, <2>3, <2>4, <2>5 DEF Counted, Taking
  <2>7. Framed(t)' BY <1>1, Constants DEF Framed, OfFrame, NoFrame
  <2> QED BY <2>2, <2>6, <2>7 DEF InStream
<1> QED BY <1>4, <1>5

\* cmdFIN.
LEMMA ReadFinStream ==
  ASSUME IInv, Streamed, NEW s \in Streams, ReadFin(s)
  PROVE  Streamed'
<1>1. /\ fr.kind = "none" /\ fr' = NoFrame /\ UNCHANGED dataVars
      /\ Shut(s) \/ UNCHANGED st
  BY DEF ReadFin, AtHeader, NextFrame
<1>2. CASE Shut(s) BY <1>1, <1>2, ShutStream
<1>3. CASE UNCHANGED st
  <2> SUFFICES ASSUME NEW t \in Streams PROVE InStream(t)' BY DEF Streamed
  <2>1. InStream(t) /\ SameRow(t) BY <1>1, <1>3 DEF Streamed, SameRow, dataVars
  <2>2. Unstored(t) = 0 BY <1>1 DEF Unstored
  <2> QED BY <1>1, <2>1, <2>2, NextFrameApart
<1> QED BY <1>1, <1>2, <1>3

\* prepare_client_payload for a frame of which nothing was read.
LEMMA PrepareStream ==
  ASSUME IInv, NEW s \in Streams, InStream(s), NEW f \in FrameSet, Prepare(f, s),
         f.kind \notin {"none", "NEW"}, f.sid = s, f.read = 0, f.feed = 0,
         f.target \in {NoStream, s}, ~f.checked, f.len <= MaxFrame,
         st[s] # "absent", Open(s) => ~clientFin[s],
         Open(s) => f.base + f.len = sent'[s],
         Open(s) => sent'[s] + Unstored(s) = sent[s] + f.len,
         f.len = 0 => ~f.direct /\ ~f.deferred,
         st[s] = "request" => ~f.direct /\ ~f.deferred /\ f.kind = "PSH",
         Taking(s) /\ f.direct /\ ~f.deferred => pend[s] = <<>>,
         UNCHANGED <<st, req, pend, up, clientFin>>
  PROVE  InStream(s)'
<1> DEFINE b == Accepting(buf[s], f.len)
           direct == Fits(s, b, f.len)
<1>1. /\ f.len \in Nat /\ f.base \in Nat /\ f.direct \in BOOLEAN
      /\ f.deferred \in BOOLEAN /\ s # NoStream /\ f.len \in 0 .. MaxFrame
  BY Constants DEF FrameSet
<1>2. b \in BufSet /\ b.data = buf[s].data
  BY <1>1, AcceptingType DEF IInv, BuffersOK
<1>3. buf \in [Streams -> BufSet] BY DEF IInv, BuffersOK
<1>4. direct \in BOOLEAN /\ (direct => pend[s] = <<>>) BY DEF Fits
<1> HIDE DEF b, direct
<1>5. /\ fr'.kind = f.kind /\ fr'.sid = f.sid /\ fr'.len = f.len
      /\ fr'.base = f.base /\ fr'.read = 0 /\ fr'.feed = 0
      /\ fr'.target \in {NoStream, s}
      /\ buf'[s].data = buf[s].data
      /\ Open(s) => fr'.target = s \/ (fr'.len = 0 /\ ~fr'.direct /\ ~fr'.deferred)
      /\ st[s] = "request" => ~fr'.direct /\ ~fr'.deferred
      /\ Taking(s) /\ ~fr'.direct /\ ~fr'.deferred => ~fr'.checked
      /\ Taking(s) /\ fr'.direct /\ ~fr'.deferred => pend[s] = <<>>
  <2>1. CASE (f.len = 0 \/ st[s] = "closing") /\ fr' = f /\ UNCHANGED buf
    BY <1>1, <2>1 DEF Open
  <2>2. CASE /\ f.len > 0 /\ st[s] = "request"
             /\ fr' = [f EXCEPT !.target = s] /\ UNCHANGED buf
    <3>1. ~Taking(s) BY <2>2 DEF Taking
    <3> QED BY <2>2, <3>1 DEF FrameSet
  <2>3. CASE /\ f.len > 0 /\ Taking(s)
             /\ fr' = [f EXCEPT !.target = s, !.blocked = TRUE] /\ UNCHANGED buf
    <3>1. st[s] # "request" BY <2>3 DEF Taking
    <3> QED BY <2>3, <3>1 DEF FrameSet
  <2>4. CASE /\ f.len > 0 /\ Taking(s)
             /\ fr' = [f EXCEPT !.target = s, !.checked = TRUE,
                                !.direct = direct, !.deferred = @ \/ ~direct]
             /\ buf' = [buf EXCEPT ![s] = IF pend[s] = <<>> THEN b ELSE @]
    <3>1. st[s] # "request" BY <2>4 DEF Taking
    <3>2. buf'[s].data = buf[s].data BY <1>2, <1>3, <2>4
    <3>3. /\ fr'.kind = f.kind /\ fr'.sid = f.sid /\ fr'.len = f.len
          /\ fr'.base = f.base /\ fr'.read = 0 /\ fr'.feed = 0
          /\ fr'.target = s /\ fr'.direct = direct
          /\ fr'.deferred = (f.deferred \/ ~direct)
      BY <2>4 DEF FrameSet
    <3> QED BY <1>1, <1>4, <3>1, <3>2, <3>3
  <2> QED BY <2>1, <2>2, <2>3, <2>4 DEF Prepare, Taking, b, direct
<1>6. Ordered(s)' BY <1>5 DEF InStream, Ordered, Run, Request
<1>7. OfFrame(s)' /\ Unstored(s)' = f.len
  <2>1. OfFrame(s)' BY <1>5 DEF OfFrame
  <2> QED BY <1>1, <1>5, <2>1 DEF Unstored, OfFrame
<1>8. Counted(s)'
  <2>1. Held(s)' = Held(s) /\ Request' = Request BY <1>5 DEF Held, Request
  <2>2. /\ sent[s] \in Nat /\ Unstored(s) \in Nat /\ req[s] \in Nat /\ Held(s) \in Nat
        /\ Request + up[s] \in Nat /\ up[s] \in Nat
    BY RowTypes, UnstoredType
  <2>3. Taking(s) => Open(s) BY DEF Taking, Open
  <2>4. Taking(s) => Request + up[s] + Held(s) + f.len = sent'[s]
    <3> SUFFICES ASSUME Taking(s) PROVE Request + up[s] + Held(s) + f.len = sent'[s]
      OBVIOUS
    <3>1. Request + up[s] + Held(s) + Unstored(s) = sent[s]
      BY DEF InStream, Counted
    <3>2. sent'[s] + Unstored(s) = sent[s] + f.len /\ sent'[s] = f.base + f.len
      BY <2>3
    <3>3. PICK r \in Nat, h \in Nat, u \in Nat, l \in Nat, o \in Nat, c \in Nat :
            /\ r = Request + up[s] /\ h = Held(s) /\ u = Unstored(s) /\ l = f.len
            /\ o = sent[s] /\ c = f.base
      BY <1>1, <2>2
    <3>4. r + h + u = o /\ (c + l) + u = o + l BY <3>1, <3>2, <3>3
    <3>5. r + h + l = c + l BY <3>4
    <3> QED BY <3>2, <3>3, <3>5, Zenon
  <2>5. st[s] = "request" => req[s] + f.len = sent'[s]
    <3> SUFFICES ASSUME st[s] = "request" PROVE req[s] + f.len = sent'[s]
      OBVIOUS
    <3>1. req[s] + Unstored(s) = sent[s] BY DEF InStream, Counted
    <3>2. sent'[s] + Unstored(s) = sent[s] + f.len /\ sent'[s] = f.base + f.len
      BY DEF Open
    <3> QED BY <1>1, <2>2, <3>1, <3>2
  <2>6. st[s] = "request" => ~Cool /\ Held(s) = 0 /\ up[s] = 0
    BY DEF InStream, Counted
  <2> QED BY <1>7, <2>1, <2>4, <2>5, <2>6 DEF Counted, Taking
<1>9. Framed(s)'
  <2>1. Open(s)' = Open(s) /\ Taking(s)' = Taking(s) BY DEF Open, Taking
  <2>2. fr'.kind # "NEW" BY <1>5
  <2> QED BY <1>5, <1>7, <2>1, <2>2 DEF Framed
<1> QED BY <1>6, <1>8, <1>9 DEF InStream

\* It touches one stream and leaves the frame what it is.
LEMMA PrepareOthers ==
  ASSUME IInv, NEW s \in Streams, NEW t \in Streams, t # s, NEW f \in FrameSet,
         Prepare(f, s)
  PROVE  /\ buf'[t] = buf[t]
         /\ fr'.kind = f.kind /\ fr'.sid = f.sid /\ fr'.target \in {s, f.target}
<1> DEFINE b == Accepting(buf[s], f.len)
           direct == Fits(s, b, f.len)
<1>1. direct \in BOOLEAN BY DEF Fits
<1> HIDE DEF b, direct
<1>2. buf \in [Streams -> BufSet] BY DEF IInv, BuffersOK
<1>3. \/ fr' = f /\ UNCHANGED buf
      \/ fr' = [f EXCEPT !.target = s] /\ UNCHANGED buf
      \/ fr' = [f EXCEPT !.target = s, !.blocked = TRUE] /\ UNCHANGED buf
      \/ /\ fr' = [f EXCEPT !.target = s, !.checked = TRUE,
                            !.direct = direct, !.deferred = @ \/ ~direct]
         /\ buf' = [buf EXCEPT ![s] = IF pend[s] = <<>> THEN b ELSE @]
  BY DEF Prepare, b, direct
<1>4. buf'[t] = buf[t] BY <1>2, <1>3
<1>5. fr'.kind = f.kind /\ fr'.sid = f.sid /\ fr'.target \in {s, f.target}
  BY <1>1, <1>3 DEF FrameSet
<1> QED BY <1>4, <1>5

\* The header of a frame.
LEMMA ReadHeaderStream ==
  ASSUME IInv, Streamed, NEW k \in {"PSH", "NEW", "KEEP", "END"}, NEW s \in Streams,
         NEW n \in 0 .. MaxFrame, ReadHeader(k, s, n)
  PROVE  Streamed'
<1> SUFFICES ASSUME NEW t \in Streams PROVE InStream(t)' BY DEF Streamed
<1> DEFINE live == k # "NEW" /\ s \in Live
           base == IF live THEN sent[s] ELSE 0
           f == [NoFrame EXCEPT !.kind = k, !.sid = s, !.len = n, !.base = base]
<1>0. InStream(t) /\ InStream(s) BY DEF Streamed
<1>1. /\ fr.kind = "none" /\ ClientOpen(s) /\ n \in Nat /\ n <= MaxFrame
      /\ k = "NEW" => Cool
      /\ k # "PSH" => Cool
      /\ k \notin {"PSH"} \/ ~Cool
      /\ sent' = [sent EXCEPT ![s] = IF live THEN @ + n ELSE @]
      /\ UNCHANGED <<st, req, pend, up, clientFin>>
  <2>1. n \in Nat /\ n <= MaxFrame BY Constants
  <2>2. k \in IF Cool THEN {"NEW", "KEEP", "END"} ELSE {"PSH"} BY DEF ReadHeader
  <2>3. (k = "NEW" => Cool) /\ (k # "PSH" => Cool) /\ (k \notin {"PSH"} \/ ~Cool)
    BY <2>2
  <2> QED BY <2>1, <2>3 DEF ReadHeader, AtHeader, endVars
<1>2. IF live THEN Prepare(f, s) ELSE fr' = f /\ UNCHANGED buf
  BY DEF ReadHeader
<1>3. sent \in [Streams -> 0 .. MaxData] /\ sent[s] \in Nat
  BY Constants DEF IInv, StreamsOK
<1>4. /\ f \in FrameSet /\ f.kind = k /\ f.sid = s /\ f.len = n /\ f.base = base
      /\ f.read = 0 /\ f.feed = 0 /\ f.target = NoStream
      /\ ~f.direct /\ ~f.deferred /\ ~f.checked
  BY <1>1, <1>3 DEF FrameSet, NoFrame
<1>5. Unstored(t) = 0 /\ Unstored(s) = 0 BY <1>1 DEF Unstored
<1>6. s # NoStream /\ t # NoStream BY Constants
<1>7. CASE ~live
  <2>1. /\ fr' = f /\ UNCHANGED <<buf, sent>> BY <1>1, <1>2, <1>3, <1>7
  <2>2. base = 0 BY <1>7
  <2>3. SameRow(t) BY <1>1, <2>1 DEF SameRow
  <2> HIDE DEF f, base, live
  <2>4. fr'.target # t /\ (fr'.kind = "NEW" => Cool /\ fr'.base = 0)
    BY <1>1, <1>4, <1>6, <2>1, <2>2
  <2>5. CASE k = "NEW" \/ t # s
    <3>1. ~OfFrame(t)' BY <1>4, <2>1, <2>5 DEF OfFrame
    <3> QED BY <1>0, <1>5, <2>3, <2>4, <3>1, StreamApart
  <2>6. CASE k # "NEW" /\ t = s
    <3>1. st[t] = "absent" BY <1>7, <2>6 DEF live, Live
    <3>2. ~Open(t)' /\ ~Taking(t)' /\ st'[t] = "absent"
      BY <1>1, <3>1 DEF Open, Taking
    <3>3. Ordered(t)' BY <1>0, <2>3 DEF InStream, Ordered, SameRow, Run, Request
    <3>4. Held(t)' = Held(t) BY <2>3 DEF Held, SameRow
    <3>5. Counted(t)' BY <1>0, <2>3, <3>1, <3>2, <3>4 DEF InStream, Counted, SameRow
    <3>6. Framed(t)' BY <2>4, <3>2 DEF Framed
    <3> QED BY <3>3, <3>5, <3>6 DEF InStream
  <2> QED BY <2>5, <2>6
<1>8. CASE live
  <2>1. /\ Prepare(f, s) /\ k # "NEW" /\ st[s] # "absent" /\ base = sent[s]
        /\ sent' = [sent EXCEPT ![s] = @ + n]
    BY <1>1, <1>2, <1>8 DEF Live
  <2>2. sent'[s] = sent[s] + n BY <1>3, <2>1
  <2> HIDE DEF f, base, live
  <2>3. CASE t = s
    <3>1. Open(s) => ~clientFin[s] BY <1>1 DEF ClientOpen, Open
    <3>2. f.base + f.len = sent'[s] /\ sent'[s] + Unstored(s) = sent[s] + f.len
      BY <1>1, <1>3, <1>4, <1>5, <2>1, <2>2
    <3>3. st[s] = "request" => f.kind = "PSH"
      <4>1. st[s] = "request" => ~Cool BY <1>0 DEF InStream, Counted
      <4> QED BY <1>1, <1>4, <4>1
    <3>4. f.kind \notin {"none", "NEW"} BY <1>4, <2>1
    <3> QED BY <1>0, <1>1, <1>4, <2>1, <2>3, <3>1, <3>2, <3>3, <3>4, PrepareStream
  <2>4. CASE t # s
    <3>1. /\ fr'.sid = s /\ fr'.kind = k /\ fr'.target \in {s, NoStream}
          /\ buf'[t] = buf[t]
      BY <1>4, <2>1, <2>4, PrepareOthers
    <3>2. SameRow(t) BY <1>1, <1>3, <2>1, <2>4, <3>1 DEF SameRow
    <3>3. fr'.kind # "NEW" BY <2>1, <3>1
    <3> QED BY <1>0, <1>1, <2>4, <3>1, <3>2, <3>3, OthersApart
  <2> QED BY <2>3, <2>4
<1> QED BY <1>7, <1>8

\* A payload that waited is looked at again.
LEMMA RecheckStream ==
  ASSUME IInv, Streamed, Recheck
  PROVE  Streamed'
<1> SUFFICES ASSUME NEW t \in Streams PROVE InStream(t)' BY DEF Streamed
<1>s. PICK s : s = fr.target OBVIOUS
<1>g. PICK f : f = [fr EXCEPT !.blocked = FALSE] OBVIOUS
<1>1. /\ MustPrepare /\ Prepare(f, s)
      /\ UNCHANGED <<st, req, pend, sent, up, clientFin>>
  BY <1>s, <1>g DEF Recheck, endVars
<1>2. s \in Streams /\ Taking(s) /\ fr.read = 0 /\ fr.len > 0 /\ ~fr.checked
  BY <1>1, <1>s, FrameTypes DEF MustPrepare, TargetIn, Taking
<1>0. InStream(t) /\ InStream(s) BY <1>2 DEF Streamed
<1>3. /\ fr \in FrameSet /\ fr.len \in Nat /\ fr.feed = 0 /\ fr.len <= MaxFrame
  BY <1>2, FrameTypes
<1>4. /\ f \in FrameSet /\ f.kind = fr.kind /\ f.sid = fr.sid /\ f.len = fr.len
      /\ f.base = fr.base /\ f.read = fr.read /\ f.feed = fr.feed
      /\ f.target = fr.target /\ f.checked = fr.checked
      /\ f.direct = fr.direct /\ f.deferred = fr.deferred
  BY <1>g, <1>3 DEF FrameSet
<1>5. OfFrame(s) /\ st[s] # "absent" /\ Open(s) /\ st[s] # "request"
  BY <1>0, <1>2, <1>s DEF InStream, Framed, Open, Taking
<1>6. fr.kind \notin {"none", "NEW"} /\ fr.sid = s BY <1>5 DEF OfFrame
<1>7. CASE t = s
  <2>1. /\ fr.base + fr.len = sent[s] /\ ~clientFin[s]
        /\ fr.direct /\ ~fr.deferred => pend[s] = <<>>
    BY <1>0, <1>2, <1>5 DEF InStream, Framed
  <2>2. Unstored(s) = fr.len BY <1>2, <1>3, <1>6 DEF Unstored
  <2>3. /\ f.kind \notin {"none", "NEW"} /\ f.sid = s /\ f.read = 0 /\ f.feed = 0
        /\ f.target \in {NoStream, s} /\ ~f.checked /\ f.len <= MaxFrame
        /\ f.base + f.len = sent'[s] /\ sent'[s] + Unstored(s) = sent[s] + f.len
        /\ f.len # 0
        /\ f.direct /\ ~f.deferred => pend[s] = <<>>
    BY <1>1, <1>2, <1>3, <1>4, <1>6, <1>s, <2>1, <2>2
  <2> QED BY <1>0, <1>1, <1>2, <1>4, <1>5, <1>7, <2>1, <2>3, PrepareStream
<1>8. CASE t # s
  <2>1. /\ fr'.sid = s /\ fr'.kind = fr.kind /\ fr'.target \in {s, NoStream}
        /\ buf'[t] = buf[t]
    BY <1>1, <1>2, <1>4, <1>6, <1>8, <1>s, PrepareOthers
  <2>2. SameRow(t) BY <1>1, <2>1 DEF SameRow
  <2> QED BY <1>0, <1>6, <1>8, <2>1, <2>2, OthersApart
<1> QED BY <1>7, <1>8

\* append_client_data: the payload follows all that the stream holds.
LEMMA AppendStream ==
  ASSUME IInv, NEW s \in Streams, Ordered(s), NEW k \in Nat, k <= fr.len,
         AppendData(s, k), fr.base + k = Request + up[s] + Held(s), up'[s] = up[s]
  PROVE  /\ Ordered(s)' /\ Held(s)' = Held(s) + (fr.len - k)
         /\ \A t \in Streams : t # s =>
              buf'[t].data = buf[t].data /\ pend'[t] = pend[t]
<1>d. PICK d : d = Payload(k) OBVIOUS
<1> DEFINE b == Accepting(buf[s], Len(d))
           fits == Fits(s, b, Len(d))
<1>1. fr.len \in Nat /\ fr.len <= MaxFrame /\ fr.base \in Nat BY FrameTypes
<1>2. d \in Seq(Bytes) /\ Len(d) = fr.len - k /\ Run(d, fr.base + k)
  <2>1. k + 0 <= fr.len BY <1>1
  <2> QED BY <1>d, <2>1, RunPayload DEF IInv
<1>3. Run(d, Request + up[s] + Held(s)) BY <1>2, Zenon
<1>4. /\ buf \in [Streams -> BufSet] /\ pend \in [Streams -> Seq(Bytes)]
      /\ BufFits(buf[s]) /\ buf[s].data \in Seq(Bytes)
  BY RowTypes DEF IInv, BuffersOK
<1>5. Len(d) \in 0 .. MaxFrame BY <1>1, <1>2, Constants
<1>6. b \in BufSet /\ b.data = buf[s].data
  BY <1>4, <1>5, AcceptingType
<1>7. CASE d = <<>>
  <2>1. UNCHANGED <<buf, pend>> BY <1>d, <1>7 DEF AppendData
  <2>2. Len(d) = 0 BY <1>7, EmptySeq
  <2>3. fr.len - k = 0 BY <1>2, <2>2, Zenon
  <2>4. Ordered(s)' BY <2>1 DEF Ordered, Run, Request
  <2>5. Held(s)' = Held(s) BY <2>1 DEF Held
  <2>6. Held(s) + 0 = Held(s) BY HeldType DEF IInv
  <2> QED BY <2>1, <2>3, <2>4, <2>5, <2>6
<1>8. CASE d # <<>>
  <2>1. /\ buf' = [buf EXCEPT ![s] = IF fits THEN [b EXCEPT !.data = @ \o d]
                                     ELSE IF pend[s] = <<>> THEN b ELSE @]
        /\ pend' = [pend EXCEPT ![s] = IF fits THEN @ ELSE @ \o d]
    BY <1>d, <1>8 DEF AppendData
  <2>2. fits => pend[s] = <<>> BY DEF Fits
  <2> HIDE DEF b, fits
  <2>3. CASE fits
    <3>1. buf'[s].data = buf[s].data \o d /\ pend'[s] = <<>>
      BY <1>4, <1>6, <2>1, <2>2, <2>3 DEF BufSet
    <3>2. Ordered(s)' /\ Held(s)' = Held(s) + Len(d)
      BY <1>2, <1>3, <2>2, <2>3, <3>1, StoreStream
    <3>3. Held(s)' = Held(s) + (fr.len - k) BY <1>2, <3>2, Zenon
    <3> QED BY <1>4, <2>1, <3>2, <3>3
  <2>4. CASE ~fits
    <3>1. buf'[s].data = buf[s].data /\ pend'[s] = pend[s] \o d
      BY <1>4, <1>6, <2>1, <2>4
    <3>2. Ordered(s)' /\ Held(s)' = Held(s) + Len(d)
      BY <1>2, <1>3, <3>1, StoreStream
    <3>3. Held(s)' = Held(s) + (fr.len - k) BY <1>2, <3>2, Zenon
    <3> QED BY <1>4, <2>1, <3>2, <3>3
  <2> QED BY <2>3, <2>4
<1> QED BY <1>7, <1>8

\* feed_stream: bytes of the request.
LEMMA FeedRequestStream ==
  ASSUME IInv, Streamed, FeedRequest
  PROVE  Streamed'
<1> SUFFICES ASSUME NEW t \in Streams PROVE InStream(t)' BY DEF Streamed
<1>s. PICK s : s = fr.target OBVIOUS
<1>n. PICK n : n = Smaller(ReqLen - req[s], fr.len - fr.feed) OBVIOUS
<1>1. /\ fr.read = fr.len /\ fr.kind = "PSH" /\ s \in Streams
      /\ st[s] = "request" /\ fr.feed < fr.len
      /\ req' = [req EXCEPT ![s] = @ + n]
      /\ fr' = [fr EXCEPT !.feed = @ + n]
      /\ UNCHANGED <<buf, pend, sent, up>>
  BY <1>s, <1>n, FrameTypes DEF FeedRequest, FrameRead, TargetIn
<1>2. PICK to \in StartOutcomes \cup {"request"} :
        /\ (to = "request") = (req[s] + n < ReqLen)
        /\ st' = [st EXCEPT ![s] = to]
        /\ clientFin' = [clientFin EXCEPT ![s] = @ \/ to = "closing"]
  BY <1>s, <1>n DEF FeedRequest, Start
<1>3. /\ st \in [Streams -> {"absent", "request", "opening", "proxy", "closing"}]
      /\ req \in [Streams -> 0 .. ReqLen] /\ clientFin \in [Streams -> BOOLEAN]
  BY DEF IInv, StreamsOK
<1>4. InStream(t) /\ InStream(s) BY <1>1 DEF Streamed
<1>5. OfFrame(s) /\ Open(s) /\ fr.sid = s
  BY <1>1, <1>4, <1>s DEF InStream, Framed, OfFrame, Open
<1>6. /\ fr'.kind = fr.kind /\ fr'.sid = fr.sid /\ fr'.len = fr.len
      /\ fr'.base = fr.base /\ fr'.read = fr.read /\ fr'.feed = fr.feed + n
      /\ fr'.target = fr.target /\ fr'.direct = fr.direct
      /\ fr'.deferred = fr.deferred
  BY <1>1, FrameTypes DEF FrameSet
<1>7. CASE t # s
  <2>1. SameRow(t) BY <1>1, <1>2, <1>3, <1>7 DEF SameRow
  <2> QED BY <1>1, <1>4, <1>5, <1>6, <1>7, <1>s, <2>1, OthersApart
<1>8. CASE t = s
  <2>1. st'[s] = to /\ req'[s] = req[s] + n BY <1>1, <1>2, <1>3
  <2>2. /\ fr.base + fr.len = sent[s] /\ ~clientFin[s]
        /\ ~fr.direct /\ ~fr.deferred
        /\ ~Cool /\ Held(s) = 0 /\ up[s] = 0 /\ req[s] + Unstored(s) = sent[s]
    BY <1>1, <1>4, <1>5 DEF InStream, Framed, Counted
  <2>3. Unstored(s) = fr.len - fr.feed
    BY <1>1, <1>5, <2>2 DEF Unstored
  <2>4. Unstored(s)' = fr.len - (fr.feed + n)
    BY <1>1, <1>5, <1>6, <2>2 DEF Unstored
  <2>5. /\ req[s] \in Nat /\ req[s] <= ReqLen /\ fr.len \in Nat /\ fr.feed \in Nat
        /\ sent[s] \in Nat /\ ReqLen \in Nat
    BY <1>1, RowTypes, FrameTypes, Constants
  <2>6. n \in Nat /\ n <= ReqLen - req[s] /\ n <= fr.len - fr.feed
    BY <1>1, <1>n, <2>5 DEF Smaller
  <2>7. req'[s] + Unstored(s)' = sent'[s]
    BY <1>1, <2>1, <2>2, <2>3, <2>4, <2>5, <2>6
  <2>8. to # "request" => req'[s] = ReqLen
    BY <1>2, <2>1, <2>5, <2>6
  <2>9. Ordered(s)' BY <1>1, <1>4 DEF InStream, Ordered, Run, Request
  <2>10. Held(s)' = 0 /\ up'[s] = 0 /\ Request' = ReqLen
    BY <1>1, <2>2 DEF Held, Request
  <2>11. to \in {"request", "opening", "proxy", "closing"} BY DEF StartOutcomes
  <2>12. Counted(s)'
    <3>1. to # "request" => Request' + up'[s] + Held(s)' + Unstored(s)' = sent'[s]
      <4> SUFFICES ASSUME to # "request"
                   PROVE Request' + up'[s] + Held(s)' + Unstored(s)' = sent'[s]
        OBVIOUS
      <4>1. ReqLen + Unstored(s)' = sent'[s] BY <2>7, <2>8
      <4>2. ReqLen + 0 + 0 + Unstored(s)' = ReqLen + Unstored(s)'
        BY <2>4, <2>5, <2>6
      <4> QED BY <2>10, <4>1, <4>2, Zenon
    <3> QED BY <2>1, <2>2, <2>7, <2>10, <2>11, <3>1 DEF Counted, Taking
  <2>13. Framed(s)'
    <3>1. OfFrame(s)' /\ fr'.target = s /\ fr'.kind = "PSH" /\ fr'.read = fr'.len
          /\ ~fr'.direct /\ ~fr'.deferred
      BY <1>1, <1>5, <1>6, <1>s, <2>2 DEF OfFrame
    <3>2. st'[s] # "absent" BY <2>1, <2>11
    <3>3. Open(s)' => ~clientFin'[s]
      BY <1>2, <1>3, <1>1, <2>1, <2>2 DEF Open
    <3>4. fr'.base + fr'.len = sent'[s] BY <1>1, <1>6, <2>2
    <3> QED BY <3>1, <3>2, <3>3, <3>4 DEF Framed
  <2> QED BY <1>8, <2>9, <2>12, <2>13 DEF InStream
<1> QED BY <1>7, <1>8

\* feed_stream: bytes that follow the request.
LEMMA FeedDataStream ==
  ASSUME IInv, Streamed, FeedData
  PROVE  Streamed'
<1> SUFFICES ASSUME NEW t \in Streams PROVE InStream(t)' BY DEF Streamed
<1>s. PICK s : s = fr.target OBVIOUS
<1>k. PICK k : k = fr.feed OBVIOUS
<1>1. /\ fr.kind = "PSH" /\ s \in Streams /\ Taking(s) /\ ~fr.direct /\ ~fr.deferred
      /\ k \in Nat /\ k <= fr.len /\ fr.len \in Nat
      /\ UNCHANGED <<st, req, sent, up, clientFin>>
  BY <1>s, <1>k, FrameTypes DEF FeedData, FrameRead, TargetIn, Taking, endVars
<1>2. \/ fr' = [fr EXCEPT !.blocked = TRUE] /\ UNCHANGED <<buf, pend>>
      \/ AppendData(s, k) /\ fr' = NoFrame
  BY <1>s, <1>k DEF FeedData, NextFrame
<1>3. InStream(t) /\ InStream(s) BY <1>1 DEF Streamed
<1>4. CASE fr' = [fr EXCEPT !.blocked = TRUE] /\ UNCHANGED <<buf, pend>>
  <2>1. SameFrame /\ SameFlags
    BY <1>4, FrameTypes DEF SameFrame, SameFlags, FrameSet
  <2>2. SameRow(t) BY <1>1, <1>4 DEF SameRow
  <2> QED BY <1>1, <1>3, <2>1, <2>2, StreamSame
<1>5. CASE AppendData(s, k) /\ fr' = NoFrame
  <2>1. OfFrame(s) /\ fr.sid = s BY <1>1, <1>3, <1>s DEF InStream, Framed, OfFrame
  <2>2. Unstored(s) = fr.len - k BY <1>1, <1>k, <2>1 DEF Unstored
  <2>3. fr.base + k = Request + up[s] + Held(s)
    BY <1>1, <1>3, <2>1, <2>2, TakingFrame
  <2>4. /\ Ordered(s)' /\ Held(s)' = Held(s) + (fr.len - k)
        /\ \A u \in Streams : u # s =>
             buf'[u].data = buf[u].data /\ pend'[u] = pend[u]
    <3>1. Ordered(s) /\ up'[s] = up[s] BY <1>1, <1>3 DEF InStream
    <3> QED BY <1>1, <1>5, <2>3, <3>1, AppendStream
  <2>5. CASE t # s
    <3>1. SameRow(t) BY <1>1, <2>4, <2>5 DEF SameRow
    <3>2. Unstored(t) = 0 BY <2>1, <2>5 DEF Unstored
    <3> QED BY <1>3, <1>5, <3>1, <3>2, NextFrameApart
  <2>6. CASE t = s
    <3>1. Request' = Request /\ Unstored(s)' = 0 /\ Taking(s)'
      BY <1>1, <1>5 DEF Request, Unstored, NoFrame, Taking
    <3>2. Request' + up'[s] + Held(s)' + Unstored(s)' = sent'[s]
      <4>1. Request + up[s] + Held(s) + Unstored(s) = sent[s]
        BY <1>1, <1>3 DEF InStream, Counted
      <4>2. PICK r \in Nat, h \in Nat, l \in Nat :
              r = Request + up[s] /\ h = Held(s) /\ l = fr.len
        BY <1>1, RowTypes
      <4>3. r + h + (l - k) = sent[s] BY <2>2, <4>1, <4>2, Zenon
      <4>4. r + (h + (l - k)) + 0 = r + h + (l - k) BY <1>1
      <4>5. r = Request' + up'[s] BY <1>1, <3>1, <4>2
      <4>6. Held(s)' = h + (l - k) BY <2>4, <4>2, Zenon
      <4>7. sent'[s] = sent[s] BY <1>1
      <4> QED BY <3>1, <4>3, <4>4, <4>5, <4>6, <4>7, Zenon
    <3>3. Counted(s)' BY <1>1, <3>2 DEF Counted, Taking
    <3>4. Framed(s)' BY <1>1, <1>5, Constants DEF Framed, OfFrame, NoFrame
    <3> QED BY <2>4, <2>6, <3>3, <3>4 DEF InStream
  <2> QED BY <2>5, <2>6
<1> QED BY <1>2, <1>4, <1>5

\* STATUS_NEW.
LEMMA HandleNewStream ==
  ASSUME IInv, Streamed, HandleNew
  PROVE  Streamed'
<1> SUFFICES ASSUME NEW t \in Streams PROVE InStream(t)' BY DEF Streamed
<1>s. PICK s : s = fr.sid OBVIOUS
<1>1. /\ fr.kind = "NEW" /\ s \in Streams /\ st[s] = "absent"
      /\ UNCHANGED <<req, up>> /\ fr.len \in Nat /\ 0 <= fr.len
  BY <1>s, FrameTypes DEF HandleNew, FrameRead, Live
<1>2. \/ /\ fr' = [fr EXCEPT !.blocked = TRUE]
         /\ UNCHANGED <<st, sent, buf, pend, clientFin>>
      \/ /\ sent' = [sent EXCEPT ![s] = fr.len] /\ fr' = NoFrame
         /\ \E to \in {"opening", "proxy", "closing"} :
              /\ st' = [st EXCEPT ![s] = to]
              /\ IF to = "closing" THEN UNCHANGED <<buf, pend>> ELSE AppendData(s, 0)
  BY <1>s DEF HandleNew, NextFrame, Start, StartOutcomes
<1>3. InStream(t) /\ InStream(s) BY <1>1 DEF Streamed
<1>t. /\ st \in [Streams -> {"absent", "request", "opening", "proxy", "closing"}]
      /\ sent \in [Streams -> 0 .. MaxData]
  BY DEF IInv, StreamsOK
<1>4. CASE fr' = [fr EXCEPT !.blocked = TRUE] /\ UNCHANGED <<st, sent, buf, pend, clientFin>>
  <2>1. SameFrame BY <1>4, FrameTypes DEF SameFrame, FrameSet
  <2>2. SameRow(t) /\ ~OfFrame(t) BY <1>1, <1>4 DEF SameRow, OfFrame
  <2> QED BY <1>3, <2>1, <2>2, StreamSame
<1>5. ASSUME sent' = [sent EXCEPT ![s] = fr.len], fr' = NoFrame,
             NEW to \in {"opening", "proxy", "closing"}, st' = [st EXCEPT ![s] = to],
             IF to = "closing" THEN UNCHANGED <<buf, pend>> ELSE AppendData(s, 0)
      PROVE  InStream(t)'
  <2>1. Cool /\ fr.base = 0 BY <1>1, <1>3 DEF InStream, Framed
  <2>2. Held(s) = 0 /\ up[s] = 0 /\ Request = 0
    BY <1>1, <1>3, <2>1 DEF InStream, Counted, Request
  <2>3. Ordered(s) BY <1>3 DEF InStream
  <2>4. /\ Ordered(s)' /\ (to # "closing" => Held(s)' = fr.len)
        /\ \A u \in Streams : u # s =>
             buf'[u].data = buf[u].data /\ pend'[u] = pend[u]
    <3>1. CASE to = "closing"
      <4>1. UNCHANGED <<buf, pend, up>> BY <1>1, <1>5, <3>1
      <4> QED BY <2>3, <3>1, <4>1 DEF Ordered, Run, Request
    <3>2. CASE to # "closing"
      <4>1. AppendData(s, 0) BY <1>5, <3>2
      <4>2. fr.base + 0 = Request + up[s] + Held(s) BY <2>1, <2>2
      <4>3. /\ Ordered(s)' /\ Held(s)' = Held(s) + (fr.len - 0)
            /\ \A u \in Streams : u # s =>
                 buf'[u].data = buf[u].data /\ pend'[u] = pend[u]
        BY <1>1, <2>3, <4>1, <4>2, AppendStream
      <4>4. Held(s)' = 0 + (fr.len - 0) BY <2>2, <4>3, Zenon
      <4>5. 0 + (fr.len - 0) = fr.len BY <1>1
      <4> QED BY <4>3, <4>4, <4>5, Zenon
    <3> QED BY <3>1, <3>2
  <2>5. Unstored(t) = 0 BY <1>1 DEF Unstored
  <2>6. CASE t # s
    <3>1. SameRow(t) BY <1>1, <1>5, <1>t, <2>4, <2>6 DEF SameRow
    <3> QED BY <1>3, <1>5, <2>5, <3>1, NextFrameApart
  <2>7. CASE t = s
    <3>1. st'[s] = to /\ sent'[s] = fr.len /\ up'[s] = 0
      BY <1>1, <1>5, <1>t, <2>2
    <3>2. Unstored(s)' = 0 /\ Request' = 0
      BY <1>5, <2>2 DEF Unstored, NoFrame, Request
    <3>3. Counted(s)'
      <4>1. Taking(s)' => to # "closing" BY <3>1 DEF Taking
      <4>2. to # "closing" => Request' + up'[s] + Held(s)' + Unstored(s)' = sent'[s]
        <5>1. 0 + 0 + fr.len + 0 = fr.len BY <1>1
        <5> QED BY <2>4, <3>1, <3>2, <5>1, Zenon
      <4> QED BY <3>1, <4>1, <4>2 DEF Counted
    <3>4. Framed(s)' BY <1>1, <1>5, Constants DEF Framed, OfFrame, NoFrame
    <3> QED BY <2>4, <2>7, <3>3, <3>4 DEF InStream
  <2> QED BY <2>6, <2>7
<1> QED BY <1>2, <1>4, <1>5

\* A complete frame has nothing left to store.
LEMMA HandleStoredStream ==
  ASSUME IInv, Streamed, HandleStored
  PROVE  Streamed'
<1> SUFFICES ASSUME NEW t \in Streams PROVE InStream(t)' BY DEF Streamed
<1>0. InStream(t) BY DEF Streamed
<1>1. /\ fr.read = fr.len /\ fr' = NoFrame /\ UNCHANGED <<st, req, buf, pend, sent, up>>
      /\ \/ fr.kind \in {"KEEP", "END"}
         \/ /\ fr.kind = "PSH"
            /\ \/ fr.target = NoStream \/ fr.direct \/ fr.deferred
               \/ TargetIn({"closing"}) \/ fr.feed = fr.len
  BY DEF HandleStored, FrameRead, NextFrame, dataVars
<1>2. fr.len \in Nat /\ fr.feed \in Nat /\ fr.feed <= fr.len BY FrameTypes
<1>3. ASSUME Open(t) PROVE Unstored(t) = 0
  <2>1. CASE ~OfFrame(t) BY <2>1 DEF Unstored, OfFrame
  <2>2. CASE OfFrame(t) /\ (fr.direct \/ fr.deferred)
    <3>1. Unstored(t) = fr.len - fr.len BY <1>1, <2>2 DEF Unstored, OfFrame
    <3> QED BY <1>2, <3>1
  <2>3. CASE OfFrame(t) /\ ~fr.direct /\ ~fr.deferred
    <3>1. Unstored(t) = fr.len - fr.feed BY <2>3 DEF Unstored, OfFrame
    <3>2. fr.feed = fr.len
      <4>1. fr.target = t \/ fr.len = 0 BY <1>0, <1>3, <2>3 DEF InStream, Framed
      <4>2. CASE fr.len = 0 BY <1>2, <4>2
      <4>3. CASE fr.kind \in {"KEEP", "END"}
        <5>1. st[t] # "request" BY <1>0, <1>3, <2>3, <4>3 DEF InStream, Framed
        <5>2. Taking(t) BY <1>3, <5>1 DEF Open, Taking
        <5>3. fr.read = 0 /\ fr.feed = 0
          BY <1>0, <1>3, <2>3, <4>3, <5>2 DEF InStream, Framed
        <5> QED BY <1>1, <5>3
      <4>4. CASE fr.kind = "PSH" /\ fr.target = t
        <5>1. ~TargetIn({"closing"}) BY <1>3, <4>4 DEF TargetIn, Open
        <5> QED BY <1>1, <2>3, <4>4, <5>1, Constants
      <4> QED BY <1>1, <4>1, <4>2, <4>3, <4>4
    <3> QED BY <1>2, <3>1, <3>2
  <2> QED BY <2>1, <2>2, <2>3
<1>4. SameRow(t) BY <1>1 DEF SameRow
<1> QED BY <1>0, <1>1, <1>3, <1>4, NextFrameApart

\* Without a stream there are no bytes.
LEMMA NoStreamBytes ==
  ASSUME NEW s \in Streams, st[s] = "absent", buf[s] = NoBuf, pend[s] = <<>>,
         sent[s] = 0, up[s] = 0, req[s] = 0, fr = NoFrame
  PROVE  InStream(s)
<1>1. buf[s].data = <<>> /\ Len(buf[s].data) = 0 /\ Len(pend[s]) = 0
  BY EmptySeq DEF NoBuf
<1>2. Ordered(s) BY <1>1, RunEmpty DEF Ordered
<1>3. Counted(s) BY <1>1 DEF Counted, Held, Taking
<1>4. Framed(s) BY Constants DEF Framed, OfFrame, NoFrame
<1> QED BY <1>2, <1>3, <1>4 DEF InStream

\* In the beginning there are none.
LEMMA InitStreamed == Init => Streamed
<1> SUFFICES ASSUME Init, NEW s \in Streams PROVE InStream(s) BY DEF Streamed
<1>1. /\ st[s] = "absent" /\ buf[s] = NoBuf /\ pend[s] = <<>>
      /\ sent[s] = 0 /\ up[s] = 0 /\ req[s] = 0 /\ fr = NoFrame
  BY DEF Init
<1> QED BY <1>1, NoStreamBytes

\* The end of the session.
LEMMA EndStreamed ==
  ASSUME SessionEnd
  PROVE  Streamed'
<1> SUFFICES ASSUME NEW s \in Streams PROVE InStream(s)' BY DEF Streamed
<1>1. /\ st'[s] = "absent" /\ buf'[s] = NoBuf /\ pend'[s] = <<>>
      /\ sent'[s] = 0 /\ up'[s] = 0 /\ req'[s] = 0 /\ fr' = NoFrame
  BY DEF SessionEnd
<1>2. buf'[s].data = <<>> /\ Len(buf'[s].data) = 0 /\ Len(pend'[s]) = 0
  BY <1>1, EmptySeq DEF NoBuf
<1>3. Ordered(s)' BY <1>1, <1>2, RunEmpty DEF Ordered
<1>4. Counted(s)' BY <1>1, <1>2 DEF Counted, Held, Taking
<1>5. Framed(s)' BY <1>1, Constants DEF Framed, OfFrame, NoFrame
<1> QED BY <1>3, <1>4, <1>5 DEF InStream

\* Events and the steps of a handler that move no bytes.
LEMMA QuietStream ==
  ASSUME IInv, Streamed,
         \/ PostedRead \/ ClientReady \/ FlushEnd \/ ProcessHead \/ SendAgain
         \/ SendBusy \/ SendDone \/ DrainEnd \/ ReadYield
         \/ \E s \in Streams : PeerEvent(s)
  PROVE  Streamed'
<1>1. CASE SendDone
  <2>1. buf \in [Streams -> BufSet] /\ cur \in Streams
    BY <1>1 DEF IInv, BuffersOK, HandlerOK, SendDone
  <2>2. \A t \in Streams : buf'[t].data = buf[t].data
    BY <1>1, <2>1 DEF SendDone, BufSet
  <2> QED BY <1>1, <2>2, StreamsSame DEF SendDone
<1>2. CASE UNCHANGED <<streamVars, fr>>
  BY <1>2, StreamsSame DEF streamVars, dataVars, endVars
<1>3. CASE SendAgain
  BY <1>3, StreamsSame DEF SendAgain, dataVars
<1>4. \/ SendDone \/ SendAgain \/ UNCHANGED <<streamVars, fr>>
  BY DEF PostedRead, ClientReady, FlushEnd, ProcessHead, SendBusy, DrainEnd,
         ReadYield, PeerEvent, StartProcess
<1> QED BY <1>1, <1>2, <1>3, <1>4

\* The upstream is connected, a FIN is flushed, process_stream ends.
LEMMA TurningStream ==
  ASSUME IInv, Streamed, ProcessEnd \/ ProcessTail
                         \/ \E s \in Streams : Opened(s) \/ FlushFin(s)
  PROVE  Streamed'
<1>1. CASE ProcessEnd
  <2>1. UNCHANGED streamVars /\ fr' \in {fr, Reentered} BY <1>1 DEF ProcessEnd
  <2>2. SameFrame /\ SameFlags
    BY <2>1, FrameTypes DEF SameFrame, SameFlags, Reentered, FrameSet
  <2> SUFFICES ASSUME NEW t \in Streams PROVE InStream(t)' BY DEF Streamed
  <2>3. InStream(t) /\ SameRow(t) /\ clientFin' = clientFin
    BY <2>1 DEF Streamed, SameRow, streamVars, dataVars, endVars
  <2> QED BY <2>2, <2>3, StreamSame
<1>2. CASE ProcessTail
  <2>1. Close(cur) \/ UNCHANGED <<st, dataVars, clientFin, fr>>
    BY <1>2 DEF ProcessTail
  <2>2. cur \in Streams BY <1>2 DEF IInv, HandlerOK, ProcessTail
  <2>3. CASE Close(cur) BY <2>2, <2>3, CloseStream
  <2>4. CASE UNCHANGED <<st, dataVars, clientFin, fr>>
    BY <2>4, StreamsSame DEF dataVars
  <2> QED BY <2>1, <2>3, <2>4
<1>3. ASSUME NEW s \in Streams, Opened(s) PROVE Streamed'
  <2> SUFFICES ASSUME NEW t \in Streams PROVE InStream(t)' BY DEF Streamed
  <2>1. SameRow(t) /\ SameFrame /\ SameFlags /\ clientFin' = clientFin
    BY <1>3 DEF Opened, SameRow, SameFrame, SameFlags, dataVars, endVars, IInv, StreamsOK
  <2> QED BY <2>1, StreamSame DEF Streamed
<1>4. ASSUME NEW s \in Streams, FlushFin(s) PROVE Streamed'
  <2>1. Reap(s) \/ UNCHANGED <<st, dataVars, clientFin, fr>> BY <1>4 DEF FlushFin
  <2>2. CASE Reap(s) BY <2>2, ReapStream
  <2>3. CASE UNCHANGED <<st, dataVars, clientFin, fr>>
    BY <2>3, StreamsSame DEF dataVars
  <2> QED BY <2>1, <2>2, <2>3
<1> QED BY <1>1, <1>2, <1>3, <1>4

\* Every step keeps each stream a queue.
LEMMA NextStreamed ==
  ASSUME IInv, IInv', Streamed, [Next]_vars
  PROVE  Streamed'
<1>1. CASE Event
  <2>1. CASE PostedRead \/ ClientReady \/ \E s \in Streams : PeerEvent(s)
    BY <2>1, QuietStream
  <2>2. ASSUME NEW s \in Streams, ConnectFailed(s) \/ ResolveFailed(s) \/ PeerTimeout(s)
        PROVE  Streamed'
    BY <2>2, CloseStream DEF ConnectFailed, ResolveFailed, PeerTimeout
  <2>3. ASSUME NEW s \in Streams, Opened(s) PROVE Streamed' BY <2>3, TurningStream
  <2> QED BY <1>1, <2>1, <2>2, <2>3 DEF Event
<1>2. CASE Relay
  <2>1. CASE FlushEnd \/ ProcessHead \/ SendAgain \/ SendBusy \/ SendDone \/ DrainEnd
    BY <2>1, QuietStream
  <2>2. CASE ProcessEnd \/ ProcessTail \/ \E s \in Streams : FlushFin(s)
    BY <2>2, TurningStream
  <2>3. CASE SendError
    <3>1. cur \in Streams BY <2>3 DEF IInv, HandlerOK, SendError, Sending
    <3> QED BY <2>3, <3>1, CloseStream DEF SendError
  <2>4. ASSUME NEW n \in 1 .. Budget, Send(n) PROVE Streamed' BY <2>4, SendStream
  <2>5. ASSUME NEW c \in 1 .. MaxFrame, Drain(c) PROVE Streamed' BY <2>5, DrainStream
  <2> QED BY <1>2, <2>1, <2>2, <2>3, <2>4, <2>5 DEF Relay
<1>3. CASE ReadLoop
  <2>1. CASE ReadAgain BY <2>1, ReadAgainStream
  <2>2. CASE ReadYield BY <2>2, QuietStream
  <2>3. ASSUME NEW s \in Streams, ReadSyn(s) PROVE Streamed' BY <2>3, ReadSynStream
  <2>4. ASSUME NEW s \in Streams, ReadFin(s) PROVE Streamed' BY <2>4, ReadFinStream
  <2>5. ASSUME NEW k \in {"PSH", "NEW", "KEEP", "END"}, NEW s \in Streams,
               NEW n \in 0 .. MaxFrame, ReadHeader(k, s, n)
        PROVE  Streamed'
    BY <2>5, ReadHeaderStream
  <2>6. CASE Recheck BY <2>6, RecheckStream
  <2>7. ASSUME NEW n \in 1 .. MaxFrame, ReadDirect(n) PROVE Streamed'
    BY <2>7, ReadDirectStream
  <2>8. ASSUME NEW n \in 1 .. MaxFrame, ReadDeferred(n) PROVE Streamed'
    BY <2>8, ReadDeferredStream
  <2>9. ASSUME NEW n \in 1 .. MaxFrame, ReadPlain(n) PROVE Streamed'
    BY <2>9, ReadPlainStream
  <2>10. CASE FeedRequest BY <2>10, FeedRequestStream
  <2>11. CASE FeedData BY <2>11, FeedDataStream
  <2>12. CASE HandleNew BY <2>12, HandleNewStream
  <2>13. CASE HandleStored BY <2>13, HandleStoredStream
  <2> QED
    BY <1>3, <2>1, <2>2, <2>3, <2>4, <2>5, <2>6, <2>7, <2>8, <2>9, <2>10, <2>11,
       <2>12, <2>13 DEF ReadLoop
<1>4. CASE SessionEnd BY <1>4, EndStreamed
<1>5. CASE UNCHANGED vars
  BY <1>5, StreamsSame DEF vars, streamVars, dataVars, endVars
<1> QED BY <1>1, <1>2, <1>3, <1>4, <1>5 DEF Next, Ended

\* The bytes of a stream in order and complete.
LEMMA StreamedFifo == IInv /\ Streamed => StreamFifo
<1> SUFFICES ASSUME IInv, Streamed PROVE StreamFifo OBVIOUS
<1>1. InOrder
  <2> SUFFICES ASSUME NEW s \in Streams
      PROVE  \A i \in 1 .. Len(buf[s].data \o pend[s]) :
               (buf[s].data \o pend[s])[i] = Request + up[s] + i
    BY DEF InOrder, Live
  <2>1. InStream(s) BY DEF Streamed
  <2>2. /\ buf[s].data \in Seq(Bytes) /\ pend[s] \in Seq(Bytes)
        /\ Request + up[s] \in Nat
    BY RowTypes
  <2>3. Run(buf[s].data \o pend[s], Request + up[s])
    BY <2>1, <2>2, RunJoin DEF InStream, Ordered
  <2> QED BY <2>3 DEF Run
<1>2. NothingLost BY DEF NothingLost, Streamed, InStream, Counted, Taking
<1> QED BY <1>1, <1>2 DEF StreamFifo

\* The bytes of each stream reach its upstream in order, and none is lost:
\* direct, deferred and appended payloads share one queue per stream
\* (read_client_payload, read_deferred_payload, append_client_data,
\* drain_pending_frames).
THEOREM StreamsAreQueues == Spec => []StreamFifo
<1>1. Init => Streamed BY InitStreamed
<1>2. IInv /\ IInv' /\ Streamed /\ [Next]_vars => Streamed' BY NextStreamed
<1>3. IInv /\ Streamed => StreamFifo BY StreamedFifo
<1> QED BY <1>1, <1>2, <1>3, InitInv, NextInv, PTL DEF Spec

----------------------------------------------------------------------------
(* The queue of streams to process.                                        *)

Single(q) == \A i, j \in 1 .. Len(q) : q[i] = q[j] => i = j

\* Membership and repetition, in the words of Queues.
LEMMA QueueWords ==
  ASSUME NEW q \in Seq(Streams)
  PROVE  /\ \A s : Queued(q, s) <=> s \in ToSet(q)
         /\ Single(q) <=> IsInjective(q)
<1>1. DOMAIN q = 1 .. Len(q) BY LenProperties
<1>2. ASSUME NEW s PROVE Queued(q, s) <=> s \in ToSet(q)
  BY <1>1 DEF Queued, ToSet
<1>3. Single(q) <=> IsInjective(q)
  <2>1. Single(q) <=> \A i, j \in DOMAIN q : q[i] = q[j] => i = j
    BY <1>1 DEF Single
  <2> QED BY <2>1 DEF IsInjective
<1> QED BY <1>2, <1>3

\* cleanup_stream takes a stream out of the queue.
LEMMA UnqueueQueued ==
  ASSUME NEW q \in Seq(Streams), Single(q), NEW s
  PROVE  /\ Single(Unqueue(q, s))
         /\ \A t : Queued(Unqueue(q, s), t) <=> Queued(q, t) /\ t # s
<1>1. IsInjective(q) /\ (Queued(q, s) <=> In(q, s)) BY QueueWords DEF In
<1>2. DOMAIN q = 1 .. Len(q) BY LenProperties
<1>3. Unqueue(q, s) = Without(q, s)
  <2>1. CASE ~Queued(q, s) BY <1>1, <2>1 DEF Unqueue, Without
  <2>2. CASE Queued(q, s)
    <3> DEFINE i == CHOOSE i \in 1 .. Len(q) : q[i] = s
    <3>1. i = CHOOSE j \in DOMAIN q : q[j] = s BY <1>2
    <3>2. Without(q, s) = RemoveAt(q, i) BY <1>1, <2>2, <3>1 DEF Without
    <3> QED BY <2>2, <3>2 DEF Unqueue, RemoveAt
  <2> QED BY <2>1, <2>2
<1>4. /\ Without(q, s) \in Seq(Streams) /\ IsInjective(Without(q, s))
      /\ ToSet(Without(q, s)) = ToSet(q) \ {s}
  BY <1>1, WithoutProperties
<1> QED BY <1>3, <1>4, QueueWords

\* A stream that is not queued goes to the end.
LEMMA AppendQueued ==
  ASSUME NEW q \in Seq(Streams), Single(q), NEW s \in Streams, ~Queued(q, s)
  PROVE  /\ Single(Append(q, s))
         /\ \A t : Queued(Append(q, s), t) <=> Queued(q, t) \/ t = s
<1>1. IsInjective(q) /\ s \notin ToSet(q) BY QueueWords
<1>2. /\ Append(q, s) \in Seq(Streams) /\ IsInjective(Append(q, s))
      /\ ToSet(Append(q, s)) = ToSet(q) \cup {s}
  BY <1>1, AppendSet
<1> QED BY <1>2, QueueWords

\* The head leaves the queue.
LEMMA TailQueued ==
  ASSUME NEW q \in Seq(Streams), Single(q), q # <<>>
  PROVE  /\ Single(Tail(q)) /\ Head(q) \in Streams /\ Queued(q, Head(q))
         /\ \A t : Queued(Tail(q), t) <=> Queued(q, t) /\ t # Head(q)
<1>1. IsInjective(q) /\ Head(q) = q[1] BY QueueWords
<1>2. /\ Tail(q) \in Seq(Streams) /\ IsInjective(Tail(q)) /\ q[1] \in Streams
      /\ q[1] \in ToSet(q) /\ q[1] \notin ToSet(Tail(q))
      /\ ToSet(q) = {q[1]} \cup ToSet(Tail(q))
  BY <1>1, TailSet
<1> QED BY <1>1, <1>2, QueueWords

----------------------------------------------------------------------------
(* What is due to a connected stream.                                      *)

\* The queue names live streams, none twice.
QueueOK == (\A s : Queued(procQ, s) => s \in Live) /\ Single(procQ)

\* The stream that is processed is connected; a drain that moved nothing
\* found its buffer empty.
Turn ==
  /\ pc \in {"send", "drain", "tail"} => st[cur] = "proxy"
  /\ pc = "drain" /\ ~drained => buf[cur].data = <<>>

\* A pass over the queue is posted, or ahead of the running handler.
WillPass ==
  \/ pc \in {"proc1", "read", "proc2"}
  \/ pc \in {"flush", "send", "drain", "tail"} /\ ret \in {"proc1", "proc2"}
Awake == posted \/ WillPass

\* The handler is about to send for s, or to refill its buffer.
Sends(s)  == pc = "send" /\ cur = s
Served(s) == pc \in {"send", "drain"} /\ cur = s

\* A connected stream that could be half-closed.
Finished(s) == clientFin[s] /\ buf[s].cap > 0 /\ Held(s) = 0

Fins(s) ==
  /\ st[s] \in {"absent", "request"} => ~clientFin[s]
  /\ st[s] \in {"absent", "request", "opening"} => ~wrShut[s]
  /\ st[s] = "proxy" /\ wrShut[s] => clientFin[s] /\ Held(s) = 0
  /\ st[s] = "proxy" /\ Finished(s) /\ ~wrShut[s] => Queued(procQ, s) \/ Sends(s)

Waits(s) ==
  st[s] = "proxy" /\ Held(s) > 0 =>
    upFull[s] \/ (Queued(procQ, s) /\ Awake) \/ Served(s)

Duty(s) == Fins(s) /\ Waits(s)
Duties == QueueOK /\ Turn /\ \A s \in Streams : Duty(s)

\* A stream the step does not concern.
Passed(s) ==
  /\ st'[s] = st[s] /\ clientFin'[s] = clientFin[s] /\ wrShut'[s] = wrShut[s]
  /\ buf'[s] = buf[s] /\ pend'[s] = pend[s] /\ upFull'[s] = upFull[s]
  /\ Queued(procQ, s) => Queued(procQ', s)
  /\ Sends(s) => Sends(s)'
  /\ Served(s) => Served(s)'

\* Its duties stay what they are as long as the queue will be passed.
LEMMA DutyKept ==
  ASSUME NEW s \in Streams, Duty(s), Passed(s), Queued(procQ, s) /\ Awake => Awake'
  PROVE  Duty(s)'
<1>1. Held(s)' = Held(s) BY DEF Passed, Held
<1>2. Queued(procQ, s) => Queued(procQ, s)' BY DEF Passed, Queued
<1>3. Fins(s)' BY <1>1, <1>2 DEF Duty, Fins, Passed, Finished
<1>4. Waits(s)' BY <1>1, <1>2 DEF Duty, Waits, Passed
<1> QED BY <1>3, <1>4 DEF Duty

\* A stream that is not connected has hardly any.
LEMMA DutyVoid ==
  ASSUME NEW s \in Streams, st'[s] # "proxy",
         st'[s] \in {"absent", "request"} => ~clientFin'[s],
         st'[s] \in {"absent", "request", "opening"} => ~wrShut'[s]
  PROVE  Duty(s)'
BY DEF Duty, Fins, Waits

\* A connected stream that can neither be half-closed nor is forgotten.
LEMMA DutyOpen ==
  ASSUME NEW s \in Streams, st'[s] \in {"opening", "proxy"}, ~clientFin'[s], ~wrShut'[s],
         upFull'[s] \/ (Queued(procQ', s) /\ Awake') \/ Held(s)' = 0
  PROVE  Duty(s)'
<1>1. Fins(s)' BY DEF Fins, Finished
<1>2. Queued(procQ, s)' = Queued(procQ', s) BY DEF Queued
<1>3. Waits(s)'
  <2>1. Held(s)' = 0 => ~(Held(s)' > 0) OBVIOUS
  <2> QED BY <1>2, <2>1 DEF Waits
<1> QED BY <1>1, <1>3 DEF Duty

\* The queue stays, and no stream goes.
LEMMA QueueKept ==
  ASSUME QueueOK, procQ' = procQ,
         \A s \in Streams : st[s] # "absent" => st'[s] # "absent"
  PROVE  QueueOK'
BY DEF QueueOK, Queued, Single, Live

\* queue_process for a live stream.
LEMMA QueueGrows ==
  ASSUME IInv, QueueOK, NEW s \in Streams, st'[s] # "absent",
         procQ' = (IF Queued(procQ, s) THEN procQ ELSE Append(procQ, s)),
         \A t \in Streams : st[t] # "absent" => st'[t] # "absent"
  PROVE  QueueOK' /\ \A t : Queued(procQ', t) <=> Queued(procQ, t) \/ t = s
<1>1. procQ \in Seq(Streams) BY DEF IInv, StreamsOK
<1>2. /\ Single(procQ') /\ \A t : Queued(procQ', t) <=> Queued(procQ, t) \/ t = s
  <2>1. CASE Queued(procQ, s)
    <3>1. procQ' = procQ BY <2>1
    <3> QED BY <2>1, <3>1 DEF QueueOK
  <2>2. CASE ~Queued(procQ, s)
    <3>1. procQ' = Append(procQ, s) BY <2>2
    <3> QED BY <1>1, <2>2, <3>1, AppendQueued DEF QueueOK
  <2> QED BY <2>1, <2>2
<1>3. \A t : Queued(procQ', t) => t \in Streams /\ st'[t] # "absent"
  BY <1>2 DEF QueueOK, Live
<1> QED BY <1>2, <1>3 DEF QueueOK, Live, Queued, Single

\* A stream whose buffer is resized, or refilled from its pending frames.
LEMMA DutyMoved ==
  ASSUME NEW s \in Streams, Duty(s), st'[s] = st[s], clientFin'[s] = clientFin[s],
         wrShut'[s] = wrShut[s], upFull'[s] = upFull[s],
         Held(s)' = Held(s), ~Finished(s)',
         Queued(procQ, s) => Queued(procQ', s), Served(s) => Served(s)',
         Queued(procQ, s) /\ Awake => Awake'
  PROVE  Duty(s)'
<1>1. Queued(procQ, s) => Queued(procQ, s)' BY DEF Queued
<1>2. Fins(s)' BY DEF Duty, Fins
<1>3. Waits(s)' BY <1>1 DEF Duty, Waits
<1> QED BY <1>2, <1>3 DEF Duty

\* The client's FIN for a stream: it is queued.
LEMMA DutyFin ==
  ASSUME NEW s \in Streams, Duty(s), st'[s] = st[s], st[s] \notin {"absent", "request"},
         clientFin[s] => clientFin'[s], wrShut'[s] = wrShut[s], Held(s)' = Held(s),
         Queued(procQ', s) \/ st[s] = "closing", Awake'
  PROVE  Duty(s)'
<1>1. Queued(procQ', s) => Queued(procQ, s)' BY DEF Queued
<1>2. Fins(s)' BY <1>1 DEF Duty, Fins
<1>3. Waits(s)' BY <1>1 DEF Duty, Waits
<1> QED BY <1>2, <1>3 DEF Duty

\* Nobody's turn.
LEMMA TurnAway ==
  ASSUME pc' \notin {"send", "drain", "tail"}
  PROVE  Turn'
BY DEF Turn

\* A step that leaves all streams and the queue alone.
LEMMA CalmDuty ==
  ASSUME Duties, UNCHANGED <<st, buf, pend, clientFin, wrShut, upFull, procQ>>,
         \A s \in Streams : /\ Sends(s) => Sends(s)'
                            /\ Served(s) => Served(s)'
                            /\ Queued(procQ, s) /\ Awake => Awake'
  PROVE  QueueOK' /\ \A s \in Streams : Duty(s)'
<1>1. QueueOK' BY QueueKept DEF Duties
<1>2. ASSUME NEW s \in Streams PROVE Duty(s)'
  <2>1. Passed(s) BY DEF Passed
  <2> QED BY <2>1, DutyKept DEF Duties
<1> QED BY <1>1, <1>2

\* cleanup_stream.
LEMMA ReapDuty ==
  ASSUME IInv, Duties, NEW s \in Streams, Reap(s),
         \A t \in Streams : t # s => ~Served(t), WillPass => WillPass'
  PROVE  QueueOK' /\ \A t \in Streams : Duty(t)'
<1>1. procQ \in Seq(Streams) /\ Single(procQ) BY DEF IInv, StreamsOK, Duties, QueueOK
<1>2. /\ Single(procQ') /\ \A t : Queued(procQ', t) <=> Queued(procQ, t) /\ t # s
  BY <1>1, UnqueueQueued DEF Reap
<1>3. /\ st \in [Streams -> {"absent", "request", "opening", "proxy", "closing"}]
      /\ clientFin \in [Streams -> BOOLEAN] /\ wrShut \in [Streams -> BOOLEAN]
      /\ upFull \in [Streams -> BOOLEAN]
      /\ buf \in [Streams -> BufSet] /\ pend \in [Streams -> Seq(Bytes)]
  BY DEF IInv, StreamsOK, BuffersOK
<1>4. QueueOK'
  <2>1. \A t : Queued(procQ', t) => t \in Streams /\ st'[t] # "absent"
    BY <1>2, <1>3 DEF Duties, QueueOK, Live, Reap
  <2> QED BY <1>2, <2>1 DEF QueueOK, Queued, Single, Live
<1>5. Awake => Awake' BY DEF Awake, Reap, Resumed
<1>6. ASSUME NEW t \in Streams PROVE Duty(t)'
  <2>1. CASE t = s
    <3>1. st'[s] = "absent" /\ ~clientFin'[s] /\ ~wrShut'[s] BY <1>3 DEF Reap
    <3> QED BY <2>1, <3>1, DutyVoid
  <2>2. CASE t # s
    <3>1. /\ st'[t] = st[t] /\ clientFin'[t] = clientFin[t] /\ wrShut'[t] = wrShut[t]
          /\ buf'[t] = buf[t] /\ pend'[t] = pend[t] /\ upFull'[t] = upFull[t]
      BY <1>3, <2>2 DEF Reap
    <3>2. Passed(t) BY <1>2, <2>2, <3>1 DEF Passed, Sends, Served
    <3> QED BY <1>5, <3>2, DutyKept DEF Duties
  <2> QED BY <2>1, <2>2
<1> QED BY <1>4, <1>6

\* A stream that is closed while its FIN is still to be sent.
LEMMA ShutDuty ==
  ASSUME IInv, Duties, NEW s \in Streams, st[s] # "absent", Shut(s),
         UNCHANGED <<buf, pend, wrShut, upFull, procQ>>,
         \A t \in Streams : t # s => ~Served(t), Awake => Awake'
  PROVE  QueueOK' /\ \A t \in Streams : Duty(t)'
<1>1. /\ st \in [Streams -> {"absent", "request", "opening", "proxy", "closing"}]
      /\ clientFin \in [Streams -> BOOLEAN]
  BY DEF IInv, StreamsOK
<1>2. QueueOK' BY <1>1, QueueKept DEF Duties, Shut
<1>3. ASSUME NEW t \in Streams PROVE Duty(t)'
  <2>1. CASE t = s
    <3>1. st'[s] = "closing" BY <1>1 DEF Shut
    <3> QED BY <2>1, <3>1, DutyVoid
  <2>2. CASE t # s
    <3>1. st'[t] = st[t] /\ clientFin'[t] = clientFin[t] BY <1>1, <2>2 DEF Shut
    <3>2. Passed(t) BY <2>2, <3>1 DEF Passed, Sends, Served
    <3> QED BY <3>2, DutyKept DEF Duties
  <2> QED BY <2>1, <2>2
<1> QED BY <1>2, <1>3

\* close_stream.
LEMMA CloseDuty ==
  ASSUME IInv, Duties, NEW s \in Streams, st[s] # "absent", Close(s),
         \A t \in Streams : t # s => ~Served(t), WillPass => WillPass'
  PROVE  QueueOK' /\ \A t \in Streams : Duty(t)'
<1>1. CASE finSent[s] BY <1>1, ReapDuty DEF Close
<1>2. CASE ~finSent[s]
  <2>1. Shut(s) /\ UNCHANGED <<buf, pend, wrShut, upFull, procQ, posted>>
    BY <1>2 DEF Close, dataVars
  <2>2. Awake => Awake' BY <2>1 DEF Awake
  <2> QED BY <2>1, <2>2, ShutDuty
<1> QED BY <1>1, <1>2

----------------------------------------------------------------------------
(* The events.                                                             *)

\* Posted and ready client, flush and queue pass.
LEMMA PassDuty ==
  ASSUME IInv, Duties,
         \/ PostedRead \/ ClientReady \/ FlushEnd \/ ProcessEnd \/ ReadYield
         \/ ReadAgain \/ (\E n \in 1 .. MaxFrame : ReadPlain(n)) \/ UNCHANGED vars
  PROVE  Duties'
<1>1. UNCHANGED <<st, buf, pend, clientFin, wrShut, upFull, procQ>>
  BY DEF PostedRead, ClientReady, FlushEnd, ProcessEnd, ReadYield, ReadAgain,
         ReadPlain, vars, streamVars, dataVars, endVars
<1>2. CASE UNCHANGED vars
  <2>1. \A s \in Streams : (Sends(s) => Sends(s)') /\ (Served(s) => Served(s)')
    BY <1>2 DEF vars, handlerVars, Sends, Served
  <2>2. Awake => Awake' BY <1>2 DEF vars, handlerVars, Awake, WillPass
  <2>3. Turn' BY <1>2 DEF vars, handlerVars, streamVars, dataVars, Turn, Duties
  <2> QED BY <1>1, <2>1, <2>2, <2>3, CalmDuty DEF Duties
<1>3. ASSUME PostedRead \/ ClientReady \/ FlushEnd \/ ProcessEnd \/ ReadYield
             \/ ReadAgain \/ \E n \in 1 .. MaxFrame : ReadPlain(n)
      PROVE  Duties'
  <2>1. pc \notin {"send", "drain"} /\ pc' \notin {"send", "drain", "tail"}
    BY <1>3 DEF PostedRead, ClientReady, FlushEnd, ProcessEnd, ReadYield,
         ReadAgain, ReadPlain, Receiving, LeaveRead, handlerVars
  <2>2. ASSUME NEW s \in Streams, Queued(procQ, s), Awake PROVE Awake'
    <3>1. CASE PostedRead \/ ClientReady BY <3>1 DEF PostedRead, ClientReady, Awake, WillPass
    <3>2. CASE FlushEnd
      <4>1. ret \in {"idle", "proc1"} BY <3>2 DEF FlushEnd, IInv, HandlerOK
      <4> QED BY <2>2, <3>2, <4>1 DEF FlushEnd, Awake, WillPass
    <3>3. CASE ProcessEnd
      <4>1. procQ # <<>> BY <2>2, EmptySeq DEF Queued
      <4> QED BY <3>3, <4>1 DEF ProcessEnd, Awake
    <3>4. CASE ReadYield \/ ReadAgain
      BY <3>4 DEF ReadYield, ReadAgain, LeaveRead, Awake, WillPass
    <3>5. CASE \E n \in 1 .. MaxFrame : ReadPlain(n)
      BY <3>5 DEF ReadPlain, Receiving, handlerVars, Awake, WillPass
    <3> QED BY <1>3, <3>1, <3>2, <3>3, <3>4, <3>5
  <2>3. \A s \in Streams : ~Sends(s) /\ ~Served(s) BY <2>1 DEF Sends, Served
  <2>4. Turn' BY <2>1, TurnAway
  <2> QED BY <1>1, <2>2, <2>3, <2>4, CalmDuty DEF Duties
<1> QED BY <1>2, <1>3

\* An upstream is connected, or reports an event: its stream is processed.
LEMMA EventDuty ==
  ASSUME IInv, Duties, NEW s \in Streams, Opened(s) \/ PeerEvent(s)
  PROVE  Duties'
<1>1. /\ pc = "idle" /\ st[s] \in {"opening", "proxy"} /\ (posted => posted')
      /\ st' = [st EXCEPT ![s] = "proxy"]
      /\ pc' = "send" /\ cur' = s
      /\ UNCHANGED <<buf, pend, clientFin, wrShut, upFull, procQ>>
  BY DEF Opened, PeerEvent, StartProcess, streamVars, dataVars, endVars, IInv, StreamsOK
<1>2. st \in [Streams -> {"absent", "request", "opening", "proxy", "closing"}]
  BY DEF IInv, StreamsOK
<1>3. QueueOK' BY <1>1, <1>2, QueueKept DEF Duties
<1>4. Turn' BY <1>1, <1>2 DEF Turn
<1>5. Awake => Awake' BY <1>1 DEF Awake, WillPass
<1>6. ASSUME NEW t \in Streams PROVE Duty(t)'
  <2>1. Duty(t) BY DEF Duties
  <2>2. CASE t # s
    <3>1. Passed(t) BY <1>1, <1>2, <2>2 DEF Passed, Sends, Served
    <3> QED BY <1>5, <2>1, <3>1, DutyKept
  <2>3. CASE t = s
    <3>1. st'[t] = "proxy" /\ Sends(t)' /\ Served(t)' BY <1>1, <1>2, <2>3 DEF Sends, Served
    <3>2. Held(t)' = Held(t) BY <1>1 DEF Held
    <3>3. wrShut'[t] => clientFin'[t] /\ Held(t)' = 0
      BY <1>1, <2>1, <2>3, <3>2 DEF Duty, Fins
    <3> QED BY <3>1, <3>3 DEF Duty, Fins, Waits
  <2> QED BY <2>2, <2>3
<1> QED BY <1>3, <1>4, <1>6 DEF Duties

\* A connection attempt or a connection fails.
LEMMA FailDuty ==
  ASSUME IInv, Duties, NEW s \in Streams,
         ConnectFailed(s) \/ ResolveFailed(s) \/ PeerTimeout(s)
  PROVE  Duties'
<1>1. /\ pc = "idle" /\ pc' \in {"idle", "flush"} /\ Close(s) /\ st[s] # "absent"
  BY DEF ConnectFailed, ResolveFailed, PeerTimeout, handlerVars
<1>2. ~WillPass /\ \A t \in Streams : ~Served(t) BY <1>1 DEF WillPass, Served
<1>3. Turn' BY <1>1, TurnAway
<1> QED BY <1>1, <1>2, <1>3, CloseDuty DEF Duties

\* A FIN goes out.
LEMMA FlushFinDuty ==
  ASSUME IInv, Duties, NEW s \in Streams, FlushFin(s)
  PROVE  Duties'
<1>1. pc = "flush" /\ UNCHANGED <<pc, ret, cur>> BY DEF FlushFin, handlerVars
<1>2. \A t \in Streams : ~Served(t) /\ ~Sends(t) BY <1>1 DEF Served, Sends
<1>3. WillPass => WillPass' BY <1>1 DEF WillPass
<1>4. Turn' BY <1>1, TurnAway
<1>5. CASE st[s] = "closing" BY <1>2, <1>3, <1>4, <1>5, ReapDuty DEF FlushFin, Duties
<1>6. CASE st[s] # "closing"
  <2>1. UNCHANGED <<st, buf, pend, clientFin, wrShut, upFull, procQ, posted>>
    BY <1>6 DEF FlushFin, dataVars
  <2>2. Awake => Awake' BY <1>3, <2>1 DEF Awake
  <2> QED BY <1>2, <1>4, <2>1, <2>2, CalmDuty DEF Duties
<1> QED BY <1>5, <1>6

\* The head of the queue.
LEMMA ProcessHeadDuty ==
  ASSUME IInv, Duties, ProcessHead
  PROVE  Duties'
<1>h. PICK h : h = Head(procQ) OBVIOUS
<1>1. /\ pc \in {"proc1", "proc2"} /\ procQ # <<>> /\ procQ' = Tail(procQ)
      /\ UNCHANGED <<st, buf, pend, clientFin, wrShut, upFull, posted>>
      /\ IF st[h] = "proxy" THEN StartProcess(h, pc) ELSE UNCHANGED <<pc, ret, cur, drained>>
  BY <1>h DEF ProcessHead, streamVars, dataVars, endVars
<1>2. procQ \in Seq(Streams) /\ Single(procQ) BY DEF IInv, StreamsOK, Duties, QueueOK
<1>3. /\ Single(procQ') /\ h \in Streams /\ Queued(procQ, h)
      /\ \A t : Queued(procQ', t) <=> Queued(procQ, t) /\ t # h
  BY <1>1, <1>2, <1>h, TailQueued
<1>4. QueueOK'
  BY <1>1, <1>3 DEF Duties, QueueOK, Queued, Single, Live
<1>5. Turn' /\ Awake'
  <2>1. CASE st[h] = "proxy"
    BY <1>1, <2>1 DEF StartProcess, Turn, Awake, WillPass
  <2>2. CASE st[h] # "proxy"
    BY <1>1, <2>2, TurnAway DEF Awake, WillPass
  <2> QED BY <2>1, <2>2
<1>6. ASSUME NEW t \in Streams PROVE Duty(t)'
  <2>1. Duty(t) BY DEF Duties
  <2>2. CASE t # h
    <3>1. Passed(t) BY <1>1, <1>3, <2>2 DEF Passed, Sends, Served
    <3> QED BY <1>5, <2>1, <3>1, DutyKept
  <2>3. CASE t = h /\ st[h] = "proxy"
    <3>1. st'[t] = "proxy" /\ Sends(t)' /\ Served(t)'
      BY <1>1, <2>3 DEF StartProcess, Sends, Served
    <3>2. Held(t)' = Held(t) BY <1>1 DEF Held
    <3>3. wrShut'[t] => clientFin'[t] /\ Held(t)' = 0
      BY <1>1, <2>1, <2>3, <3>2 DEF Duty, Fins
    <3> QED BY <3>1, <3>3 DEF Duty, Fins, Waits
  <2>4. CASE t = h /\ st[h] # "proxy"
    BY <1>1, <2>1, <2>4, DutyVoid DEF Duty, Fins
  <2> QED BY <2>2, <2>3, <2>4
<1> QED BY <1>4, <1>5, <1>6 DEF Duties

----------------------------------------------------------------------------
(* process_stream.                                                         *)

\* A connected stream whose turn it is to send.
LEMMA SendsDuty ==
  ASSUME NEW s \in Streams, Sends(s)', wrShut'[s] => clientFin'[s] /\ Held(s)' = 0,
         st'[s] = "proxy"
  PROVE  Duty(s)'
<1>1. Served(s)' BY DEF Sends, Served
<1> QED BY <1>1 DEF Duty, Fins, Waits

\* The stream that is processed.
LEMMA TurnOf ==
  ASSUME IInv, Duties, pc \in {"send", "drain", "tail"}
  PROVE  /\ cur \in Streams /\ st[cur] = "proxy" /\ Duty(cur)
         /\ Held(cur) > 0 => ~wrShut[cur]
         /\ \A t \in Streams : t # cur => ~Served(t) /\ ~Sends(t)
<1>1. cur \in Streams /\ st[cur] = "proxy" BY DEF IInv, HandlerOK, Duties, Turn
<1>2. Duty(cur) BY <1>1 DEF Duties
<1>3. Held(cur) > 0 => ~wrShut[cur] BY <1>1, <1>2 DEF Duty, Fins
<1> QED BY <1>1, <1>2, <1>3 DEF Served, Sends

\* A stream that holds something.
LEMMA HeldSome ==
  ASSUME IInv, NEW s \in Streams
  PROVE  /\ Held(s) > 0 <=> buf[s].data # <<>> \/ pend[s] # <<>>
         /\ Held(s) = 0 <=> buf[s].data = <<>> /\ pend[s] = <<>>
<1>1. PICK a \in Nat, b \in Nat : a = Len(buf[s].data) /\ b = Len(pend[s]) BY RowTypes
<1>2. (a = 0 <=> buf[s].data = <<>>) /\ (b = 0 <=> pend[s] = <<>>)
  BY <1>1, RowTypes, EmptySeq
<1>3. Held(s) = a + b BY <1>1 DEF Held
<1>4. (a + b > 0 <=> a # 0 \/ b # 0) /\ (a + b = 0 <=> a = 0 /\ b = 0) OBVIOUS
<1> QED BY <1>2, <1>3, <1>4

\* The upstream takes bytes.
LEMMA SendDuty ==
  ASSUME IInv, Duties, NEW n \in 1 .. Budget, Send(n)
  PROVE  Duties'
<1>s. PICK s : s = cur OBVIOUS
<1>1. /\ pc = "send" /\ n <= Smaller(Len(buf[s].data), budget)
      /\ buf' = [buf EXCEPT ![s].data = SubSeq(@, n + 1, Len(@)), ![s].off = @ + n]
      /\ upFull' = [upFull EXCEPT ![s] = FALSE] /\ posted' = Resumed(tokens')
      /\ UNCHANGED <<pc, ret, cur, drained, st, pend, clientFin, wrShut, procQ>>
  BY <1>s DEF Send
<1>2. /\ s \in Streams /\ st[s] = "proxy" /\ (Held(s) > 0 => ~wrShut[s])
      /\ \A t \in Streams : t # s => ~Served(t) /\ ~Sends(t)
  BY <1>1, <1>s, TurnOf
<1>3. Held(s) > 0
  <2>1. n <= Len(buf[s].data)
    <3>1. Len(buf[s].data) \in Nat /\ budget \in Nat
      BY <1>2, RowTypes, Constants DEF IInv, HandlerOK
    <3> QED BY <1>1, <3>1, Constants DEF Smaller
  <2>2. buf[s].data # <<>> BY <2>1, EmptySeq, Constants
  <2> QED BY <1>2, <2>2, HeldSome
<1>4. Awake => Awake' BY <1>1 DEF Awake, WillPass, Resumed
<1>5. QueueOK' BY <1>1, QueueKept DEF Duties
<1>6. Turn' BY <1>1, <1>2, <1>s DEF Turn
<1>7. ASSUME NEW t \in Streams PROVE Duty(t)'
  <2>1. CASE t # s
    <3>1. buf'[t] = buf[t] /\ upFull'[t] = upFull[t]
      BY <1>1, <1>2, <2>1 DEF IInv, StreamsOK, BuffersOK
    <3>2. Passed(t) BY <1>1, <1>2, <2>1, <3>1 DEF Passed
    <3> QED BY <1>4, <3>2, DutyKept DEF Duties
  <2>2. CASE t = s
    <3>1. Sends(t)' /\ st'[t] = "proxy" /\ ~wrShut'[t]
      BY <1>1, <1>2, <1>3, <1>s, <2>2 DEF Sends
    <3> QED BY <3>1, SendsDuty
  <2> QED BY <2>1, <2>2
<1> QED BY <1>5, <1>6, <1>7 DEF Duties

\* process_stream returns, without a stream or with one that is left alone.
LEMMA ReturnDuty ==
  ASSUME IInv, Duties, SendError \/ ProcessTail
  PROVE  Duties'
<1>1. pc \in {"send", "tail"} /\ EndProcess
  BY DEF SendError, ProcessTail, Sending
<1>2. /\ cur \in Streams /\ st[cur] = "proxy"
      /\ \A t \in Streams : t # cur => ~Served(t) /\ ~Sends(t)
  BY <1>1, TurnOf
<1>3. ret \in {"idle", "flush", "proc1", "proc2"} BY DEF IInv, HandlerOK
<1>4. WillPass => WillPass' BY <1>1, <1>3 DEF WillPass, EndProcess
<1>5. Turn' BY <1>1, <1>3, TurnAway DEF EndProcess
<1>6. CASE Close(cur) BY <1>2, <1>4, <1>5, <1>6, CloseDuty DEF Duties
<1>7. CASE ~Close(cur)
  <2>1. ProcessTail BY <1>7 DEF SendError
  <2>2. UNCHANGED <<st, buf, pend, clientFin, wrShut, upFull, procQ>>
    BY <1>7, <2>1 DEF ProcessTail, dataVars
  <2>3. pc = "tail" BY <2>1 DEF ProcessTail
  <2>4. \A t \in Streams : ~Served(t) /\ ~Sends(t) BY <2>3 DEF Served, Sends
  <2>5. posted => posted' BY <1>7, <2>1 DEF ProcessTail, Resumed
  <2>6. Awake => Awake' BY <1>4, <2>5 DEF Awake
  <2> QED BY <1>5, <2>2, <2>4, <2>6, CalmDuty DEF Duties
<1> QED BY <1>6, <1>7

\* The upstream is full.
LEMMA SendAgainDuty ==
  ASSUME IInv, Duties, SendAgain
  PROVE  Duties'
<1>s. PICK s : s = cur OBVIOUS
<1>1. /\ pc = "send" /\ buf[s].data # <<>> /\ upFull' = [upFull EXCEPT ![s] = TRUE]
      /\ pc' = "tail"
      /\ UNCHANGED <<ret, cur, posted, st, buf, pend, clientFin, wrShut, procQ>>
  BY <1>s DEF SendAgain, Sending, dataVars
<1>2. /\ s \in Streams /\ st[s] = "proxy" /\ (Held(s) > 0 => ~wrShut[s])
      /\ \A t \in Streams : t # s => ~Served(t) /\ ~Sends(t)
  BY <1>1, <1>s, TurnOf
<1>3. Held(s) > 0 BY <1>1, <1>2, HeldSome
<1>4. Awake => Awake' BY <1>1 DEF Awake, WillPass
<1>5. QueueOK' BY <1>1, QueueKept DEF Duties
<1>6. Turn' BY <1>1, <1>2, <1>s DEF Turn
<1>7. ASSUME NEW t \in Streams PROVE Duty(t)'
  <2>1. CASE t # s
    <3>1. upFull'[t] = upFull[t] BY <1>1, <1>2, <2>1 DEF IInv, StreamsOK
    <3>2. Passed(t) BY <1>1, <1>2, <2>1, <3>1 DEF Passed
    <3> QED BY <1>4, <3>2, DutyKept DEF Duties
  <2>2. CASE t = s
    <3>1. st'[t] = "proxy" /\ ~wrShut'[t] /\ upFull'[t] /\ Held(t)' = Held(t)
      BY <1>1, <1>2, <1>3, <2>2 DEF IInv, StreamsOK, Held
    <3>2. Held(t)' # 0
      <4>1. Held(t) \in Nat /\ Held(t) > 0 BY <1>3, <2>2, RowTypes
      <4> QED BY <3>1, <4>1
    <3> QED BY <3>1, <3>2 DEF Duty, Fins, Waits, Finished
  <2> QED BY <2>1, <2>2
<1> QED BY <1>5, <1>6, <1>7 DEF Duties

\* The budget is spent: the stream is queued.
LEMMA SendBusyDuty ==
  ASSUME IInv, Duties, SendBusy
  PROVE  Duties'
<1>s. PICK s : s = cur OBVIOUS
<1>1. /\ pc = "send" /\ buf[s].data # <<>> /\ procQ' = QueueProcess(procQ, s)
      /\ posted' = (posted \/ ret \in {"idle", "flush"}) /\ pc' = ret
      /\ UNCHANGED <<st, buf, pend, clientFin, wrShut, upFull>>
  BY <1>s DEF SendBusy, Sending, streamVars, dataVars, endVars, EndProcess
<1>2. /\ s \in Streams /\ st[s] = "proxy" /\ (Held(s) > 0 => ~wrShut[s])
      /\ \A t \in Streams : t # s => ~Served(t) /\ ~Sends(t)
  BY <1>1, <1>s, TurnOf
<1>3. Held(s) > 0 BY <1>1, <1>2, HeldSome
<1>4. ret \in {"idle", "flush", "proc1", "proc2"} BY DEF IInv, HandlerOK
<1>5. Awake' BY <1>1, <1>4 DEF Awake, WillPass
<1>6. QueueOK' /\ \A t : Queued(procQ', t) <=> Queued(procQ, t) \/ t = s
  <2>1. procQ' = (IF Queued(procQ, s) THEN procQ ELSE Append(procQ, s))
    BY <1>1, <1>2 DEF QueueProcess
  <2> QED BY <1>1, <1>2, <2>1, QueueGrows DEF Duties
<1>7. Turn' BY <1>1, <1>4, TurnAway
<1>8. ASSUME NEW t \in Streams PROVE Duty(t)'
  <2>1. CASE t # s
    <3>1. Passed(t) BY <1>1, <1>2, <1>6, <2>1 DEF Passed
    <3> QED BY <1>5, <3>1, DutyKept DEF Duties
  <2>2. CASE t = s
    <3>1. st'[t] = "proxy" /\ ~wrShut'[t] /\ Held(t)' = Held(t) /\ Queued(procQ, t)'
      BY <1>1, <1>2, <1>3, <1>6, <2>2 DEF Held, Queued
    <3>2. Held(t)' # 0
      <4>1. Held(t) \in Nat /\ Held(t) > 0 BY <1>3, <2>2, RowTypes
      <4> QED BY <3>1, <4>1
    <3> QED BY <1>5, <3>1, <3>2 DEF Duty, Fins, Waits, Finished
  <2> QED BY <2>1, <2>2
<1> QED BY <1>6, <1>7, <1>8 DEF Duties

\* All that was buffered is sent; the upstream may be half-closed.
LEMMA SendDoneDuty ==
  ASSUME IInv, Duties, SendDone
  PROVE  Duties'
<1>s. PICK s : s = cur OBVIOUS
<1>1. /\ pc = "send" /\ buf[s].data = <<>> /\ buf' = [buf EXCEPT ![s].off = 0]
      /\ wrShut' = [wrShut EXCEPT ![s] = wrShut[s] \/ HalfCloses(s)]
      /\ pc' = "drain" /\ drained' = FALSE
      /\ UNCHANGED <<ret, cur, posted, st, pend, clientFin, upFull, procQ>>
  BY <1>s DEF SendDone
<1>2. /\ s \in Streams /\ st[s] = "proxy" /\ Duty(s)
      /\ \A t \in Streams : t # s => ~Served(t) /\ ~Sends(t)
  BY <1>1, <1>s, TurnOf
<1>3. /\ buf'[s].data = <<>> /\ buf'[s].cap = buf[s].cap
      /\ wrShut'[s] = (wrShut[s] \/ HalfCloses(s))
  BY <1>1, <1>2 DEF IInv, StreamsOK, BuffersOK, BufSet
<1>4. Held(s)' = Held(s) BY <1>1, <1>3 DEF Held
<1>5. Awake => Awake' BY <1>1 DEF Awake, WillPass
<1>6. QueueOK' BY <1>1, QueueKept DEF Duties
<1>7. Turn' BY <1>1, <1>2, <1>3, <1>s DEF Turn
<1>8. ASSUME NEW t \in Streams PROVE Duty(t)'
  <2>1. CASE t # s
    <3>1. buf'[t] = buf[t] /\ wrShut'[t] = wrShut[t]
      BY <1>1, <1>2, <2>1 DEF IInv, StreamsOK, BuffersOK
    <3>2. Passed(t) BY <1>1, <1>2, <2>1, <3>1 DEF Passed
    <3> QED BY <1>5, <3>2, DutyKept DEF Duties
  <2>2. CASE t = s
    <3>1. st'[s] = "proxy" /\ clientFin'[s] = clientFin[s] /\ Served(s)'
      BY <1>1, <1>2, <1>s DEF Served
    <3>2. HalfCloses(s) => clientFin[s] /\ Held(s) = 0
      BY <1>1, <1>2, HeldSome DEF HalfCloses
    <3>3. clientFin[s] /\ buf[s].cap > 0 /\ Held(s) = 0 => HalfCloses(s)
      BY <1>2, HeldSome DEF HalfCloses
    <3>4. wrShut'[s] => clientFin'[s] /\ Held(s)' = 0
      BY <1>2, <1>3, <1>4, <3>1, <3>2 DEF Duty, Fins
    <3>5. Finished(s)' => wrShut'[s]
      BY <1>3, <1>4, <3>1, <3>3 DEF Finished
    <3> QED BY <2>2, <3>1, <3>4, <3>5 DEF Duty, Fins, Waits
  <2> QED BY <2>1, <2>2
<1> QED BY <1>6, <1>7, <1>8 DEF Duties

\* A drain stops at the first frame that does not fit whole.
LEMMA DrainDuty ==
  ASSUME IInv, IInv', Duties, NEW c \in 1 .. MaxFrame, Drain(c)
  PROVE  Duties'
<1>s. PICK s : s = cur OBVIOUS
<1>0. pc = "drain" /\ c <= Len(pend[s]) BY <1>s DEF Drain
<1>1. /\ s \in Streams /\ st[s] = "proxy" /\ Duty(s)
      /\ \A t \in Streams : t # s => ~Served(t) /\ ~Sends(t)
  BY <1>0, <1>s, TurnOf
<1> DEFINE e == Ensure(buf[s], c)
           b == IF Room(e) = 0 THEN Compact(e) ELSE e
           n == Smaller(Room(b), c)
           d == buf[s].data
           q == pend[s]
           h == SubSeq(q, 1, n)
           r == SubSeq(q, n + 1, Len(q))
<1>2. /\ buf' = [buf EXCEPT ![s] = [b EXCEPT !.data = @ \o h]]
      /\ pend' = [pend EXCEPT ![s] = r] /\ drained' = (drained \/ n > 0)
      /\ pc' = IF n = c THEN "drain" ELSE IF drained' THEN "send" ELSE "tail"
      /\ UNCHANGED <<ret, cur, posted, st, clientFin, wrShut, upFull, procQ>>
  BY <1>s DEF Drain, endVars
<1>3. /\ d \in Seq(Bytes) /\ Len(d) \in Nat /\ q \in Seq(Bytes) /\ Len(q) \in Nat
      /\ c \in Nat /\ c >= 1
  BY <1>1, RowTypes, Constants
<1>4. e \in BufSet /\ BufFits(e) /\ e.data = d
  BY <1>1, Constants, EnsureType DEF IInv, BuffersOK
<1>5. b \in BufSet /\ BufFits(b) /\ b.data = d /\ Room(b) \in Nat
  <2> HIDE DEF e, d
  <2> QED BY <1>4, CompactType
<1>6. n \in 0 .. Len(q) /\ n <= c
  <2>1. c <= Len(q) BY <1>0
  <2> HIDE DEF b, q
  <2> QED BY <1>3, <1>5, <2>1 DEF Smaller
<1>7. /\ h \in Seq(Bytes) /\ Len(h) = n /\ Len(r) = Len(q) - n
  <2> HIDE DEF n, q
  <2> QED BY <1>3, <1>6, SubSeqType
<1>8. d = <<>> => n > 0
  <2>1. ASSUME d = <<>> PROVE Room(b) > 0
    <3>1. e.cap > 0
      <4>1. e.cap >= 1
        <5>1. buf[s].cap \in Nat /\ Len(buf[s].data) = 0 BY <1>1, <2>1, RowTypes, EmptySeq
        <5>2. buf[s].cap > 0 \/ buf[s].cap = 0 BY <5>1
        <5> QED BY <1>3, <5>1, <5>2, EnsureAtLeastOne
      <4> QED BY <1>4, <4>1 DEF BufSet
    <3>2. Len(e.data) = 0 /\ e.cap \in Nat /\ e.off \in Nat
      BY <1>4, <2>1, EmptySeq DEF BufSet
    <3> HIDE DEF e
    <3>3. Room(Compact(e)) = e.cap BY <1>4, <3>2 DEF Room, Compact, BufSet
    <3>4. Room(e) = 0 \/ Room(e) > 0 BY <1>4, CompactType
    <3>5. CASE Room(e) = 0 BY <3>1, <3>3, <3>5, Zenon
    <3>6. CASE Room(e) # 0 BY <3>4, <3>6, Zenon
    <3> QED BY <3>5, <3>6, Zenon
  <2> HIDE DEF b, d
  <2> QED BY <1>3, <1>5, <2>1 DEF Smaller
<1>9. buf'[s].data = d \o h /\ pend'[s] = r
  <2>1. buf \in [Streams -> BufSet] /\ pend \in [Streams -> Seq(Bytes)]
    BY DEF IInv, BuffersOK
  <2> HIDE DEF b, d, h, r
  <2> QED BY <1>1, <1>2, <1>5, <2>1 DEF BufSet
<1>10. ASSUME NEW t \in Streams, t # s PROVE buf'[t] = buf[t] /\ pend'[t] = pend[t]
  <2>1. buf \in [Streams -> BufSet] /\ pend \in [Streams -> Seq(Bytes)]
    BY DEF IInv, BuffersOK
  <2> HIDE DEF b, h, r
  <2> QED BY <1>1, <1>2, <1>10, <2>1
<1>11. ~drained => d = <<>> BY <1>0, <1>s DEF Duties, Turn
<1>12. pc' \in {"send", "drain"} /\ (pc' = "drain" => drained')
  <2> HIDE DEF n, d
  <2> QED BY <1>2, <1>3, <1>6, <1>8, <1>11
<1>13. Held(s)' = Held(s) /\ Held(s)' # 0
  <2>1. Held(s) = Len(d) + Len(q) BY DEF Held
  <2>2. Held(s)' = Len(d \o h) + Len(r) BY <1>9 DEF Held
  <2> HIDE DEF d, q, h, r, n
  <2>3. Len(d \o h) = Len(d) + n BY <1>3, <1>7, ConcatProperties
  <2>4. Held(s)' = (Len(d) + n) + (Len(q) - n) BY <1>7, <2>2, <2>3
  <2>5. c <= Len(q) BY <1>0 DEF q
  <2> QED BY <1>3, <1>6, <2>1, <2>4, <2>5
<1> HIDE DEF e, b, n, d, q, h, r
<1>14. Awake => Awake' BY <1>0, <1>2, <1>12 DEF Awake, WillPass
<1>15. QueueOK' BY <1>2, QueueKept DEF Duties
<1>16. Turn' BY <1>1, <1>2, <1>12, <1>s DEF Turn
<1>17. ASSUME NEW t \in Streams PROVE Duty(t)'
  <2>1. CASE t # s
    <3>1. Passed(t) BY <1>1, <1>2, <1>10, <2>1 DEF Passed
    <3> QED BY <1>14, <3>1, DutyKept DEF Duties
  <2>2. CASE t = s
    <3>1. ~Finished(s)' BY <1>13 DEF Finished
    <3>2. Served(s)' BY <1>2, <1>12, <1>s DEF Served
    <3>3. st'[s] = st[s] /\ clientFin'[s] = clientFin[s] /\ wrShut'[s] = wrShut[s]
          /\ upFull'[s] = upFull[s] /\ procQ' = procQ
      BY <1>2
    <3> QED BY <1>1, <1>13, <1>14, <2>2, <3>1, <3>2, <3>3, DutyMoved
  <2> QED BY <2>1, <2>2
<1> QED BY <1>15, <1>16, <1>17 DEF Duties

\* The pending frames are drained.
LEMMA DrainEndDuty ==
  ASSUME IInv, Duties, DrainEnd
  PROVE  Duties'
<1>s. PICK s : s = cur OBVIOUS
<1>1. /\ pc = "drain" /\ pend[s] = <<>> /\ pc' = IF drained THEN "send" ELSE "tail"
      /\ UNCHANGED <<ret, cur, posted, st, buf, pend, clientFin, wrShut, upFull, procQ>>
  BY <1>s DEF DrainEnd, streamVars, dataVars, endVars
<1>2. /\ s \in Streams /\ st[s] = "proxy" /\ Duty(s)
      /\ \A t \in Streams : t # s => ~Served(t) /\ ~Sends(t)
  BY <1>1, <1>s, TurnOf
<1>3. ~drained => Held(s) = 0 BY <1>1, <1>2, <1>s, HeldSome DEF Duties, Turn
<1>4. Awake => Awake' BY <1>1 DEF Awake, WillPass
<1>5. QueueOK' BY <1>1, QueueKept DEF Duties
<1>6. Turn' BY <1>1, <1>2, <1>s DEF Turn
<1>7. ASSUME NEW t \in Streams PROVE Duty(t)'
  <2>1. CASE t # s
    <3>1. Passed(t) BY <1>1, <1>2, <2>1 DEF Passed
    <3> QED BY <1>4, <3>1, DutyKept DEF Duties
  <2>2. CASE t = s
    <3>1. /\ st'[s] = st[s] /\ clientFin'[s] = clientFin[s] /\ wrShut'[s] = wrShut[s]
          /\ upFull'[s] = upFull[s] /\ Held(s)' = Held(s) /\ procQ' = procQ
          /\ Finished(s)' = Finished(s)
      BY <1>1 DEF Held, Finished
    <3>2. ~Sends(s) BY <1>1 DEF Sends
    <3>3. Queued(procQ, s)' = Queued(procQ, s) BY <3>1 DEF Queued
    <3>4. Fins(s)' BY <1>2, <3>1, <3>2, <3>3 DEF Duty, Fins
    <3>5. Waits(s)'
      <4>1. Served(s)' \/ Held(s)' = 0 BY <1>1, <1>3, <1>s, <3>1 DEF Served
      <4>2. Held(s)' = 0 => ~(Held(s)' > 0) OBVIOUS
      <4> QED BY <4>1, <4>2 DEF Waits
    <3> QED BY <2>2, <3>4, <3>5 DEF Duty
  <2> QED BY <2>1, <2>2
<1> QED BY <1>5, <1>6, <1>7 DEF Duties

----------------------------------------------------------------------------
(* The read loop: a queue pass follows it.                                 *)

\* Nobody is processed while the client is read.
LEMMA ReadingTurn ==
  ASSUME pc = "read", pc' \in {"read", "proc2"}
  PROVE  Turn' /\ Awake' /\ \A t : ~Served(t) /\ ~Sends(t)
BY DEF Turn, Awake, WillPass, Served, Sends

\* The read loop leaves a stream alone that it has nothing for.
LEMMA ReadingPassed ==
  ASSUME NEW t \in Streams, Duty(t), pc = "read", pc' \in {"read", "proc2"},
         st'[t] = st[t], clientFin'[t] = clientFin[t], wrShut'[t] = wrShut[t],
         buf'[t] = buf[t], pend'[t] = pend[t], upFull'[t] = upFull[t],
         Queued(procQ, t) => Queued(procQ', t)
  PROVE  Duty(t)'
<1>1. Awake' /\ ~Served(t) /\ ~Sends(t) BY ReadingTurn
<1>2. Passed(t) BY <1>1 DEF Passed
<1> QED BY <1>1, <1>2, DutyKept

\* cmdSYN.
LEMMA ReadSynDuty ==
  ASSUME IInv, Duties, NEW s \in Streams, ReadSyn(s)
  PROVE  Duties'
<1>1. /\ pc = "read" /\ pc' = pc
      /\ st' = [st EXCEPT ![s] = IF s \in Live THEN @ ELSE "request"]
      /\ UNCHANGED <<buf, pend, clientFin, wrShut, upFull, procQ>>
  BY DEF ReadSyn, AtHeader, NextFrame, dataVars, endVars
<1>2. st \in [Streams -> {"absent", "request", "opening", "proxy", "closing"}]
  BY DEF IInv, StreamsOK
<1>3. Turn' BY <1>1, ReadingTurn
<1>4. QueueOK' BY <1>1, <1>2, QueueKept DEF Duties
<1>5. ASSUME NEW t \in Streams PROVE Duty(t)'
  <2>1. Duty(t) BY DEF Duties
  <2>2. CASE t # s \/ s \in Live
    <3>1. st'[t] = st[t] BY <1>1, <1>2, <2>2
    <3> QED BY <1>1, <2>1, <3>1, ReadingPassed
  <2>3. CASE t = s /\ s \notin Live
    <3>1. st[t] = "absent" /\ st'[t] = "request" BY <1>1, <1>2, <2>3 DEF Live
    <3>2. ~clientFin'[t] /\ ~wrShut'[t] BY <1>1, <2>1, <3>1 DEF Duty, Fins
    <3> QED BY <3>1, <3>2, DutyVoid
  <2> QED BY <2>2, <2>3
<1> QED BY <1>3, <1>4, <1>5 DEF Duties

\* The client has finished a stream: the stream is queued.
LEMMA FinDuty ==
  ASSUME IInv, Duties, NEW s \in Streams, st[s] \notin {"absent", "request"},
         pc = "read", pc' = "read",
         clientFin' = [clientFin EXCEPT ![s] = TRUE],
         procQ' = QueueProcess(procQ, s),
         UNCHANGED <<st, buf, pend, wrShut, upFull>>
  PROVE  Duties'
<1>1. clientFin \in [Streams -> BOOLEAN] BY DEF IInv, StreamsOK
<1>2. Turn' /\ Awake' BY ReadingTurn
<1>3. QueueOK' /\ (\A t : Queued(procQ, t) => Queued(procQ', t))
      /\ (Queued(procQ', s) \/ st[s] = "closing")
  <2>1. CASE st[s] = "closing"
    <3>1. procQ' = procQ BY <2>1 DEF QueueProcess
    <3> QED BY <2>1, <3>1, QueueKept DEF Duties
  <2>2. CASE st[s] # "closing"
    <3>1. procQ' = (IF Queued(procQ, s) THEN procQ ELSE Append(procQ, s))
      BY <2>2 DEF QueueProcess
    <3> QED BY <3>1, QueueGrows DEF Duties
  <2> QED BY <2>1, <2>2
<1>4. ASSUME NEW t \in Streams PROVE Duty(t)'
  <2>1. Duty(t) BY DEF Duties
  <2>2. CASE t # s
    <3>1. clientFin'[t] = clientFin[t] BY <1>1, <2>2
    <3> QED BY <1>3, <2>1, <3>1, ReadingPassed
  <2>3. CASE t = s
    <3>1. clientFin'[s] BY <1>1
    <3>2. Held(s)' = Held(s) BY DEF Held
    <3> QED BY <1>2, <1>3, <2>1, <2>3, <3>1, <3>2, DutyFin
  <2> QED BY <2>2, <2>3
<1> QED BY <1>2, <1>3, <1>4 DEF Duties

\* cmdFIN.
LEMMA ReadFinDuty ==
  ASSUME IInv, Duties, NEW s \in Streams, ReadFin(s)
  PROVE  Duties'
<1>1. /\ pc = "read" /\ pc' = "read" /\ st[s] # "absent"
      /\ UNCHANGED <<buf, pend, wrShut, upFull>>
  BY DEF ReadFin, AtHeader, NextFrame, dataVars, Live
<1>2. Turn' /\ Awake' /\ \A t : ~Served(t) /\ ~Sends(t) BY <1>1, ReadingTurn
<1>3. CASE st[s] = "request"
  <2>1. Shut(s) /\ UNCHANGED procQ BY <1>3 DEF ReadFin
  <2> QED BY <1>1, <1>2, <2>1, ShutDuty DEF Duties
<1>4. CASE st[s] # "request"
  <2>1. /\ clientFin' = [clientFin EXCEPT ![s] = TRUE]
        /\ procQ' = QueueProcess(procQ, s) /\ UNCHANGED st
    BY <1>4 DEF ReadFin
  <2> QED BY <1>1, <1>4, <2>1, FinDuty
<1> QED BY <1>3, <1>4

\* prepare_client_payload may resize the buffer of a stream, which the client
\* has not finished.
LEMMA PrepareDuty ==
  ASSUME IInv, Duties, NEW s \in Streams, NEW f \in FrameSet, f.len <= MaxFrame,
         Prepare(f, s), Open(s) => ~clientFin[s], pc = "read",
         UNCHANGED <<st, pend, clientFin, wrShut, upFull, procQ>>
  PROVE  Duties'
<1> DEFINE b == Accepting(buf[s], f.len)
<1>1. pc' \in {"read", "proc2"} BY DEF Prepare, LeaveRead
<1>2. Turn' /\ Awake' /\ \A t : ~Served(t) /\ ~Sends(t) BY <1>1, ReadingTurn
<1>3. QueueOK' BY QueueKept DEF Duties
<1>4. CASE UNCHANGED buf
  <2>1. ASSUME NEW t \in Streams PROVE Duty(t)'
    <3>1. Duty(t) BY DEF Duties
    <3> QED BY <1>1, <1>4, <3>1, ReadingPassed
  <2> QED BY <1>2, <1>3, <2>1 DEF Duties
<1>5. CASE buf' # buf
  <2>1. /\ st[s] \in {"opening", "proxy"}
        /\ buf' = [buf EXCEPT ![s] = IF pend[s] = <<>> THEN b ELSE @]
    BY <1>5 DEF Prepare
  <2>2. b.data = buf[s].data
    <3>1. f.len \in 0 .. MaxFrame BY Constants DEF FrameSet
    <3> QED BY <3>1, AcceptingType DEF IInv, BuffersOK
  <2>3. buf \in [Streams -> BufSet] BY DEF IInv, BuffersOK
  <2> HIDE DEF b
  <2>4. ~clientFin[s] BY <2>1 DEF Open
  <2>5. ASSUME NEW t \in Streams PROVE Duty(t)'
    <3>1. Duty(t) BY DEF Duties
    <3>2. CASE t # s
      <4>1. buf'[t] = buf[t] BY <2>1, <2>3, <3>2
      <4> QED BY <1>1, <3>1, <4>1, ReadingPassed
    <3>3. CASE t = s
      <4>1. buf'[s].data = buf[s].data BY <2>1, <2>2, <2>3
      <4>2. Held(s)' = Held(s) BY <4>1 DEF Held
      <4>3. ~Finished(s)' BY <2>4 DEF Finished
      <4> QED BY <1>2, <3>1, <3>3, <4>2, <4>3, DutyMoved
    <3> QED BY <3>2, <3>3
  <2> QED BY <1>2, <1>3, <2>5 DEF Duties
<1> QED BY <1>4, <1>5

\* The header of a frame.
LEMMA ReadHeaderDuty ==
  ASSUME IInv, Duties, NEW k \in {"PSH", "NEW", "KEEP", "END"}, NEW s \in Streams,
         NEW n \in 0 .. MaxFrame, ReadHeader(k, s, n)
  PROVE  Duties'
<1> DEFINE live == k # "NEW" /\ s \in Live
           base == IF live THEN sent[s] ELSE 0
           f == [NoFrame EXCEPT !.kind = k, !.sid = s, !.len = n, !.base = base]
<1>1. /\ pc = "read" /\ ClientOpen(s)
      /\ IF live THEN Prepare(f, s) ELSE fr' = f /\ UNCHANGED <<pc, budget, loops, buf>>
      /\ UNCHANGED <<st, pend, clientFin, wrShut, upFull, procQ>>
  BY DEF ReadHeader, AtHeader, endVars
<1>2. f \in FrameSet /\ f.len <= MaxFrame
  <2>1. base \in Nat /\ n \in Nat /\ n <= MaxFrame
    BY Constants DEF IInv, StreamsOK
  <2> HIDE DEF base
  <2> QED BY <2>1 DEF FrameSet, NoFrame
<1>3. Open(s) => ~clientFin[s] BY <1>1 DEF ClientOpen, Open
<1> HIDE DEF f
<1>4. CASE live BY <1>1, <1>2, <1>3, <1>4, PrepareDuty
<1>5. CASE ~live
  <2>1. UNCHANGED <<pc, buf>> BY <1>1, <1>5
  <2>2. Turn' BY <1>1, <2>1, ReadingTurn
  <2>3. \A t \in Streams : Duty(t)' BY <1>1, <2>1, ReadingPassed DEF Duties
  <2>4. QueueOK' BY <1>1, QueueKept DEF Duties
  <2> QED BY <2>2, <2>3, <2>4 DEF Duties
<1> QED BY <1>4, <1>5

\* A payload that waited is looked at again.
LEMMA RecheckDuty ==
  ASSUME IInv, Streamed, Duties, Recheck
  PROVE  Duties'
<1>s. PICK s : s = fr.target OBVIOUS
<1>g. PICK f : f = [fr EXCEPT !.blocked = FALSE] OBVIOUS
<1>1. /\ pc = "read" /\ MustPrepare /\ Prepare(f, s)
      /\ UNCHANGED <<st, pend, clientFin, wrShut, upFull, procQ>>
  BY <1>s, <1>g DEF Recheck, endVars
<1>2. s \in Streams /\ Taking(s)
  BY <1>1, <1>s, FrameTypes DEF MustPrepare, TargetIn, Taking
<1>3. f \in FrameSet /\ f.len <= MaxFrame BY <1>g, FrameTypes DEF FrameSet
<1>4. InStream(s) BY <1>2 DEF Streamed
<1>5. ~clientFin[s] BY <1>2, <1>4, <1>s DEF InStream, Framed, Open, Taking
<1> QED BY <1>1, <1>2, <1>3, <1>5, PrepareDuty

\* Bytes are stored for an open stream: it is queued.
LEMMA StoreDuty ==
  ASSUME IInv, Duties, NEW s \in Streams, st'[s] \in {"opening", "proxy"},
         ~clientFin'[s], ~wrShut'[s], pc = "read", pc' = "read",
         procQ' = (IF Queued(procQ, s) THEN procQ ELSE Append(procQ, s)),
         \A t \in Streams : t # s =>
           /\ st'[t] = st[t] /\ clientFin'[t] = clientFin[t] /\ wrShut'[t] = wrShut[t]
           /\ buf'[t] = buf[t] /\ pend'[t] = pend[t] /\ upFull'[t] = upFull[t]
  PROVE  Duties'
<1>1. Turn' /\ Awake' BY ReadingTurn
<1>2. QueueOK' /\ \A t : Queued(procQ', t) <=> Queued(procQ, t) \/ t = s
  <2>1. \A t \in Streams : st[t] # "absent" => st'[t] # "absent" OBVIOUS
  <2> QED BY <2>1, QueueGrows DEF Duties
<1>3. ASSUME NEW t \in Streams PROVE Duty(t)'
  <2>1. Duty(t) BY DEF Duties
  <2>2. CASE t # s BY <1>2, <2>1, <2>2, ReadingPassed
  <2>3. CASE t = s BY <1>1, <1>2, <2>3, DutyOpen
  <2> QED BY <2>2, <2>3
<1> QED BY <1>1, <1>2, <1>3 DEF Duties

\* Payload that is received into a stream's buffers.
LEMMA PieceDuty ==
  ASSUME IInv, Streamed, Duties, NEW n \in 1 .. MaxFrame, ReadDirect(n) \/ ReadDeferred(n)
  PROVE  Duties'
<1>s. PICK s : s = fr.target OBVIOUS
<1>1. /\ pc = "read" /\ pc' = "read" /\ Storing /\ (fr.direct \/ fr.deferred)
      /\ procQ' = QueueProcess(procQ, s)
      /\ UNCHANGED <<st, clientFin, wrShut, upFull>>
  BY <1>s DEF ReadDirect, ReadDeferred, Receiving, handlerVars, endVars
<1>2. s \in Streams /\ OfFrame(s) /\ Taking(s) BY <1>1, <1>s, StoringStream
<1>3. InStream(s) /\ Duty(s) BY <1>2 DEF Streamed, Duties
<1>4. ~clientFin[s] BY <1>2, <1>3 DEF InStream, Framed, Open, Taking
<1>5. ~wrShut[s] BY <1>2, <1>3, <1>4 DEF Taking, Duty, Fins
<1>6. procQ' = (IF Queued(procQ, s) THEN procQ ELSE Append(procQ, s))
  BY <1>1, <1>2 DEF QueueProcess, Taking
<1>7. ASSUME NEW t \in Streams, t # s PROVE buf'[t] = buf[t] /\ pend'[t] = pend[t]
  <2>1. buf \in [Streams -> BufSet] /\ pend \in [Streams -> Seq(Bytes)]
    BY DEF IInv, BuffersOK
  <2>2. (\E x : buf' = [buf EXCEPT ![s] = x]) \/ UNCHANGED buf
    BY <1>s DEF ReadDirect, ReadDeferred
  <2>3. (\E x : pend' = [pend EXCEPT ![s] = x]) \/ UNCHANGED pend
    BY <1>s DEF ReadDirect, ReadDeferred
  <2> QED BY <1>7, <2>1, <2>2, <2>3
<1>8. st'[s] \in {"opening", "proxy"} BY <1>1, <1>2 DEF Taking
<1> QED BY <1>1, <1>2, <1>4, <1>5, <1>6, <1>7, <1>8, StoreDuty

\* feed_stream: bytes of the request; a stream that is opened holds nothing.
LEMMA FeedRequestDuty ==
  ASSUME IInv, Streamed, Duties, FeedRequest
  PROVE  Duties'
<1>s. PICK s : s = fr.target OBVIOUS
<1>1. /\ pc = "read" /\ pc' = "read" /\ s \in Streams /\ st[s] = "request"
      /\ UNCHANGED <<buf, pend, wrShut, upFull, procQ>>
  BY <1>s, FrameTypes DEF FeedRequest, FrameRead, TargetIn, handlerVars
<1>2. PICK to \in StartOutcomes \cup {"request"} :
        /\ st' = [st EXCEPT ![s] = to]
        /\ clientFin' = [clientFin EXCEPT ![s] = @ \/ to = "closing"]
  BY <1>s DEF FeedRequest, Start
<1>3. /\ st \in [Streams -> {"absent", "request", "opening", "proxy", "closing"}]
      /\ clientFin \in [Streams -> BOOLEAN]
  BY DEF IInv, StreamsOK
<1>4. to \in {"request", "opening", "proxy", "closing"} BY DEF StartOutcomes
<1>5. Turn' BY <1>1, ReadingTurn
<1>6. QueueOK' BY <1>1, <1>2, <1>3, <1>4, QueueKept DEF Duties
<1>7. ASSUME NEW t \in Streams PROVE Duty(t)'
  <2>1. Duty(t) BY DEF Duties
  <2>2. CASE t # s
    <3>1. st'[t] = st[t] /\ clientFin'[t] = clientFin[t] BY <1>2, <1>3, <2>2
    <3> QED BY <1>1, <2>1, <3>1, ReadingPassed
  <2>3. CASE t = s
    <3>1. st'[s] = to /\ clientFin'[s] = (clientFin[s] \/ to = "closing")
      BY <1>1, <1>2, <1>3
    <3>2. ~clientFin[s] /\ ~wrShut[s] BY <1>1, <2>1, <2>3 DEF Duty, Fins
    <3>3. CASE to \in {"request", "closing"}
      BY <1>1, <2>3, <3>1, <3>2, <3>3, DutyVoid
    <3>4. CASE to \in {"opening", "proxy"}
      <4>1. Held(s) = 0 BY <1>1 DEF Streamed, InStream, Counted
      <4>2. Held(s)' = 0 BY <1>1, <4>1 DEF Held
      <4> QED BY <1>1, <2>3, <3>1, <3>2, <3>4, <4>2, DutyOpen
    <3> QED BY <1>4, <3>3, <3>4
  <2> QED BY <2>2, <2>3
<1> QED BY <1>5, <1>6, <1>7 DEF Duties

\* append_client_data touches one stream.
LEMMA AppendOthers ==
  ASSUME IInv, NEW s \in Streams, NEW k, AppendData(s, k)
  PROVE  \A t \in Streams : t # s => buf'[t] = buf[t] /\ pend'[t] = pend[t]
<1> SUFFICES ASSUME NEW t \in Streams, t # s PROVE buf'[t] = buf[t] /\ pend'[t] = pend[t]
  OBVIOUS
<1>1. buf \in [Streams -> BufSet] /\ pend \in [Streams -> Seq(Bytes)]
  BY DEF IInv, BuffersOK
<1>2. (\E x : buf' = [buf EXCEPT ![s] = x]) \/ UNCHANGED buf BY DEF AppendData
<1>3. (\E x : pend' = [pend EXCEPT ![s] = x]) \/ UNCHANGED pend BY DEF AppendData
<1> QED BY <1>1, <1>2, <1>3

\* feed_stream: bytes that follow the request.
LEMMA FeedDataDuty ==
  ASSUME IInv, Streamed, Duties, FeedData
  PROVE  Duties'
<1>s. PICK s : s = fr.target OBVIOUS
<1>k. PICK k : k = fr.feed OBVIOUS
<1>1. /\ pc = "read" /\ s \in Streams /\ Taking(s) /\ fr.feed < fr.len
      /\ UNCHANGED <<st, clientFin, wrShut, upFull>>
  BY <1>s, FrameTypes DEF FeedData, FrameRead, TargetIn, Taking, endVars
<1>2. \/ LeaveRead /\ UNCHANGED <<buf, pend, procQ>>
      \/ AppendData(s, k) /\ pc' = "read"
  BY <1>1, <1>s, <1>k DEF FeedData, NextFrame
<1>3. CASE LeaveRead /\ UNCHANGED <<buf, pend, procQ>>
  <2>1. pc' = "proc2" BY <1>3 DEF LeaveRead
  <2>2. Turn' BY <1>1, <2>1, ReadingTurn
  <2>3. \A t \in Streams : Duty(t)' BY <1>1, <1>3, <2>1, ReadingPassed DEF Duties
  <2>4. QueueOK' BY <1>1, <1>3, QueueKept DEF Duties
  <2> QED BY <2>2, <2>3, <2>4 DEF Duties
<1>4. CASE AppendData(s, k) /\ pc' = "read"
  <2>1. InStream(s) /\ Duty(s) BY <1>1 DEF Streamed, Duties
  <2>2. ~clientFin[s] BY <1>1, <1>s, <2>1 DEF InStream, Framed, Open, Taking
  <2>3. ~wrShut[s] BY <1>1, <2>1, <2>2 DEF Taking, Duty, Fins
  <2>4. Payload(k) # <<>>
    <3>1. Len(Payload(k)) = fr.len - k /\ fr.len - k # 0
      <4>1. k \in Nat /\ k <= fr.len /\ fr.len \in Nat /\ fr.base \in Nat
        BY <1>k, FrameTypes
      <4> QED BY <1>1, <1>k, <4>1, LenProperties DEF Payload
    <3> QED BY <3>1, EmptySeq
  <2>5. procQ' = IF Queued(procQ, s) THEN procQ ELSE Append(procQ, s)
    BY <1>4, <2>4 DEF AppendData
  <2>6. \A t \in Streams : t # s => buf'[t] = buf[t] /\ pend'[t] = pend[t]
    BY <1>1, <1>4, AppendOthers
  <2>7. st'[s] \in {"opening", "proxy"} BY <1>1 DEF Taking
  <2> QED BY <1>1, <1>4, <2>2, <2>3, <2>5, <2>6, <2>7, StoreDuty
<1> QED BY <1>2, <1>3, <1>4

\* STATUS_NEW.
LEMMA HandleNewDuty ==
  ASSUME IInv, Streamed, Duties, HandleNew
  PROVE  Duties'
<1>s. PICK s : s = fr.sid OBVIOUS
<1>1. /\ pc = "read" /\ s \in Streams /\ st[s] = "absent"
      /\ UNCHANGED <<wrShut, upFull>>
  BY <1>s, FrameTypes DEF HandleNew, FrameRead, Live
<1>2. \/ LeaveRead /\ UNCHANGED <<st, clientFin, buf, pend, procQ>>
      \/ /\ pc' = pc
         /\ \E to \in {"opening", "proxy", "closing"} :
              /\ st' = [st EXCEPT ![s] = to]
              /\ clientFin' = [clientFin EXCEPT ![s] = @ \/ to = "closing"]
              /\ IF to = "closing" THEN UNCHANGED <<buf, pend, procQ>>
                 ELSE AppendData(s, 0)
  BY <1>s DEF HandleNew, NextFrame, Start, StartOutcomes
<1>t. /\ st \in [Streams -> {"absent", "request", "opening", "proxy", "closing"}]
      /\ clientFin \in [Streams -> BOOLEAN]
  BY DEF IInv, StreamsOK
<1>3. CASE LeaveRead /\ UNCHANGED <<st, clientFin, buf, pend, procQ>>
  <2>1. pc' = "proc2" BY <1>3 DEF LeaveRead
  <2>2. Turn' BY <1>1, <2>1, ReadingTurn
  <2>3. \A t \in Streams : Duty(t)' BY <1>1, <1>3, <2>1, ReadingPassed DEF Duties
  <2>4. QueueOK' BY <1>1, <1>3, QueueKept DEF Duties
  <2> QED BY <2>2, <2>3, <2>4 DEF Duties
<1>4. ASSUME pc' = pc, NEW to \in {"opening", "proxy", "closing"},
             st' = [st EXCEPT ![s] = to],
             clientFin' = [clientFin EXCEPT ![s] = @ \/ to = "closing"],
             IF to = "closing" THEN UNCHANGED <<buf, pend, procQ>> ELSE AppendData(s, 0)
      PROVE  Duties'
  <2>1. InStream(s) /\ Duty(s) BY <1>1 DEF Streamed, Duties
  <2>2. ~clientFin[s] /\ ~wrShut[s] /\ Held(s) = 0
    BY <1>1, <2>1 DEF Duty, Fins, InStream, Counted
  <2>3. st'[s] = to /\ clientFin'[s] = (to = "closing") /\ ~wrShut'[s]
    BY <1>1, <1>4, <1>t, <2>2
  <2>4. \A t \in Streams : t # s =>
          /\ st'[t] = st[t] /\ clientFin'[t] = clientFin[t] /\ wrShut'[t] = wrShut[t]
          /\ buf'[t] = buf[t] /\ pend'[t] = pend[t] /\ upFull'[t] = upFull[t]
    <3>1. \A t \in Streams : t # s => buf'[t] = buf[t] /\ pend'[t] = pend[t]
      BY <1>1, <1>4, AppendOthers
    <3> QED BY <1>1, <1>4, <1>t, <3>1
  <2>5. CASE to # "closing" /\ Payload(0) # <<>>
    <3>1. procQ' = IF Queued(procQ, s) THEN procQ ELSE Append(procQ, s)
      BY <1>4, <2>5 DEF AppendData
    <3> QED BY <1>1, <1>4, <2>3, <2>4, <2>5, <3>1, StoreDuty
  <2>6. CASE to = "closing" \/ Payload(0) = <<>>
    <3>1. UNCHANGED <<buf, pend, procQ>> BY <1>4, <2>6 DEF AppendData
    <3>2. Held(s)' = 0 BY <2>2, <3>1 DEF Held
    <3>3. QueueOK' BY <1>4, <1>t, <3>1, QueueKept DEF Duties
    <3>4. Turn' BY <1>1, <1>4, ReadingTurn
    <3>5. ASSUME NEW t \in Streams PROVE Duty(t)'
      <4>1. CASE t # s
        <5>1. Duty(t) BY DEF Duties
        <5> QED BY <1>1, <1>4, <2>4, <3>1, <4>1, <5>1, ReadingPassed
      <4>2. CASE t = s /\ to = "closing" BY <2>3, <4>2, DutyVoid
      <4>3. CASE t = s /\ to # "closing" BY <2>3, <3>2, <4>3, DutyOpen
      <4> QED BY <4>1, <4>2, <4>3
    <3> QED BY <3>3, <3>4, <3>5 DEF Duties
  <2> QED BY <2>5, <2>6
<1> QED BY <1>2, <1>3, <1>4

\* A complete frame: the stream is queued for what was stored, or for its FIN.
LEMMA HandleStoredDuty ==
  ASSUME IInv, Streamed, Duties, HandleStored
  PROVE  Duties'
<1>s. PICK s : s = fr.sid OBVIOUS
<1>1. /\ pc = "read" /\ pc' = "read" /\ s \in Streams
      /\ clientFin' = [clientFin EXCEPT ![s] = @ \/ (fr.kind = "END" /\ s \in Live)]
      /\ procQ' = IF s \in Live /\ (fr.kind = "END" \/ (fr.direct /\ ~fr.deferred))
                  THEN QueueProcess(procQ, s) ELSE procQ
      /\ UNCHANGED <<st, buf, pend, wrShut, upFull>>
  BY <1>s, FrameTypes DEF HandleStored, FrameRead, NextFrame, dataVars
<1>2. clientFin \in [Streams -> BOOLEAN] BY DEF IInv, StreamsOK
<1>3. CASE fr.kind = "END" /\ s \in Live
  <2>1. clientFin' = [clientFin EXCEPT ![s] = TRUE] /\ procQ' = QueueProcess(procQ, s)
    BY <1>1, <1>2, <1>3
  <2>2. st[s] \notin {"absent", "request"}
    <3>1. InStream(s) BY <1>1 DEF Streamed
    <3>2. OfFrame(s) BY <1>3, <1>s DEF OfFrame
    <3>3. st[s] # "request" BY <1>3, <3>1, <3>2 DEF InStream, Framed, Open
    <3> QED BY <1>3, <3>3 DEF Live
  <2> QED BY <1>1, <2>1, <2>2, FinDuty
<1>4. CASE ~(fr.kind = "END" /\ s \in Live)
  <2>1. \A t \in Streams : clientFin'[t] = clientFin[t] BY <1>1, <1>2, <1>4
  <2>2. QueueOK' /\ \A t : Queued(procQ, t) => Queued(procQ', t)
    <3>1. CASE procQ' = procQ BY <1>1, <3>1, QueueKept DEF Duties
    <3>2. CASE procQ' # procQ
      <4>1. /\ st[s] # "absent"
            /\ procQ' = (IF Queued(procQ, s) THEN procQ ELSE Append(procQ, s))
        BY <1>1, <3>2 DEF QueueProcess, Live
      <4> QED BY <1>1, <4>1, QueueGrows DEF Duties
    <3> QED BY <3>1, <3>2
  <2>3. Turn' BY <1>1, ReadingTurn
  <2>4. ASSUME NEW t \in Streams PROVE Duty(t)'
    <3>1. Duty(t) BY DEF Duties
    <3> QED BY <1>1, <2>1, <2>2, <3>1, ReadingPassed
  <2> QED BY <2>2, <2>3, <2>4 DEF Duties
<1> QED BY <1>3, <1>4

----------------------------------------------------------------------------
(* All steps together.                                                     *)

\* In the beginning nothing is due.
LEMMA InitDuties == Init => Duties
<1> SUFFICES ASSUME Init PROVE Duties OBVIOUS
<1>1. \A s : ~Queued(procQ, s) BY EmptySeq DEF Init, Queued
<1>2. QueueOK BY <1>1, EmptySeq DEF Init, QueueOK, Single
<1>3. Turn BY DEF Init, Turn
<1>4. \A s \in Streams : Duty(s) BY DEF Init, Duty, Fins, Waits
<1> QED BY <1>2, <1>3, <1>4 DEF Duties

\* Nor is it after the end of the session.
LEMMA EndDuty ==
  ASSUME SessionEnd
  PROVE  Duties'
<1>1. pc' = "done" /\ procQ' = <<>> BY DEF SessionEnd
<1>2. \A s : ~Queued(procQ, s)' BY <1>1, EmptySeq DEF Queued
<1>3. QueueOK' BY <1>1, <1>2, EmptySeq DEF QueueOK, Single
<1>4. Turn' BY <1>1, TurnAway
<1>5. \A s \in Streams : Duty(s)' BY DEF SessionEnd, Duty, Fins, Waits
<1> QED BY <1>3, <1>4, <1>5 DEF Duties

\* No step forgets what is due.
LEMMA NextDuties ==
  ASSUME IInv, IInv', Streamed, Duties, [Next]_vars
  PROVE  Duties'
<1>1. CASE Event
  <2>1. CASE PostedRead \/ ClientReady BY <2>1, PassDuty
  <2>2. ASSUME NEW s \in Streams, Opened(s) \/ PeerEvent(s) PROVE Duties'
    BY <2>2, EventDuty
  <2>3. ASSUME NEW s \in Streams, ConnectFailed(s) \/ ResolveFailed(s) \/ PeerTimeout(s)
        PROVE  Duties'
    BY <2>3, FailDuty
  <2> QED BY <1>1, <2>1, <2>2, <2>3 DEF Event
<1>2. CASE Relay
  <2>1. CASE FlushEnd \/ ProcessEnd BY <2>1, PassDuty
  <2>2. ASSUME NEW s \in Streams, FlushFin(s) PROVE Duties' BY <2>2, FlushFinDuty
  <2>3. CASE ProcessHead BY <2>3, ProcessHeadDuty
  <2>4. ASSUME NEW n \in 1 .. Budget, Send(n) PROVE Duties' BY <2>4, SendDuty
  <2>5. CASE SendError \/ ProcessTail BY <2>5, ReturnDuty
  <2>6. CASE SendAgain BY <2>6, SendAgainDuty
  <2>7. CASE SendBusy BY <2>7, SendBusyDuty
  <2>8. CASE SendDone BY <2>8, SendDoneDuty
  <2>9. ASSUME NEW c \in 1 .. MaxFrame, Drain(c) PROVE Duties' BY <2>9, DrainDuty
  <2>10. CASE DrainEnd BY <2>10, DrainEndDuty
  <2> QED BY <1>2, <2>1, <2>2, <2>3, <2>4, <2>5, <2>6, <2>7, <2>8, <2>9, <2>10 DEF Relay
<1>3. CASE ReadLoop
  <2>1. CASE ReadAgain \/ ReadYield BY <2>1, PassDuty
  <2>2. ASSUME NEW s \in Streams, ReadSyn(s) PROVE Duties' BY <2>2, ReadSynDuty
  <2>3. ASSUME NEW s \in Streams, ReadFin(s) PROVE Duties' BY <2>3, ReadFinDuty
  <2>4. ASSUME NEW k \in {"PSH", "NEW", "KEEP", "END"}, NEW s \in Streams,
               NEW n \in 0 .. MaxFrame, ReadHeader(k, s, n)
        PROVE  Duties'
    BY <2>4, ReadHeaderDuty
  <2>5. CASE Recheck BY <2>5, RecheckDuty
  <2>6. ASSUME NEW n \in 1 .. MaxFrame, ReadDirect(n) \/ ReadDeferred(n) PROVE Duties'
    BY <2>6, PieceDuty
  <2>7. ASSUME NEW n \in 1 .. MaxFrame, ReadPlain(n) PROVE Duties' BY <2>7, PassDuty
  <2>8. CASE FeedRequest BY <2>8, FeedRequestDuty
  <2>9. CASE FeedData BY <2>9, FeedDataDuty
  <2>10. CASE HandleNew BY <2>10, HandleNewDuty
  <2>11. CASE HandleStored BY <2>11, HandleStoredDuty
  <2> QED
    BY <1>3, <2>1, <2>2, <2>3, <2>4, <2>5, <2>6, <2>7, <2>8, <2>9, <2>10, <2>11
    DEF ReadLoop
<1>4. CASE SessionEnd BY <1>4, EndDuty
<1>5. CASE UNCHANGED vars BY <1>5, PassDuty
<1> QED BY <1>1, <1>2, <1>3, <1>4, <1>5 DEF Next, Ended

\* Once the client has finished, no frame in progress is the stream's.
LEMMA DutiesHalfClose == IInv /\ Streamed /\ Duties => HalfClose
<1> SUFFICES ASSUME IInv, Streamed, Duties PROVE HalfClose OBVIOUS
<1>1. HalfCloseLast
  <2> SUFFICES ASSUME NEW s \in Streams, st[s] = "proxy", wrShut[s]
               PROVE  clientFin[s] /\ Held(s) = 0 /\ Request + up[s] = sent[s]
    BY DEF HalfCloseLast
  <2>1. InStream(s) /\ Duty(s) BY DEF Streamed, Duties
  <2>2. clientFin[s] /\ Held(s) = 0 BY <2>1 DEF Duty, Fins
  <2>3. ~OfFrame(s) BY <2>1, <2>2 DEF InStream, Framed, Open
  <2>4. Unstored(s) = 0 BY <2>3 DEF Unstored, OfFrame
  <2>5. Request + up[s] + Held(s) + Unstored(s) = sent[s]
    BY <2>1 DEF InStream, Counted, Taking
  <2>6. PICK r \in Nat : r = Request + up[s] BY RowTypes
  <2>7. r + 0 + 0 = sent[s] BY <2>2, <2>4, <2>5, <2>6, Zenon
  <2>8. r = sent[s] BY <2>7
  <2> QED BY <2>2, <2>6, <2>8, Zenon
<1>2. FinPassedOn
  <2> SUFFICES ASSUME pc = "idle", NEW s \in Streams, st[s] = "proxy", clientFin[s],
                      buf[s].cap > 0, Held(s) = 0, ~Queued(procQ, s)
               PROVE  wrShut[s]
    BY DEF FinPassedOn
  <2>1. Duty(s) /\ Finished(s) /\ ~Sends(s) BY DEF Duties, Finished, Sends
  <2> QED BY <2>1 DEF Duty, Fins
<1> QED BY <1>1, <1>2 DEF HalfClose

\* A worker that waits for events has left every stream with one to come.
LEMMA DutiesStranded == IInv /\ Streamed /\ Duties => NoStranded
<1> SUFFICES ASSUME IInv, Streamed, Duties PROVE NoStranded OBVIOUS
<1>1. NoDangling
  <2>1. \A i \in 1 .. Len(procQ) : procQ[i] \in Live BY DEF Duties, QueueOK, Queued
  <2>2. \A i, j \in 1 .. Len(procQ) : procQ[i] = procQ[j] => i = j
    BY DEF Duties, QueueOK, Single
  <2>3. fr.target # NoStream => fr.target \in Live
    <3> SUFFICES ASSUME fr.target # NoStream PROVE fr.target \in Live OBVIOUS
    <3>1. fr.target \in Streams BY FrameTypes
    <3>2. st[fr.target] # "absent" BY <3>1 DEF Streamed, InStream, Framed
    <3> QED BY <3>1, <3>2 DEF Live
  <2>4. pc \in {"send", "drain", "tail"} => st[cur] = "proxy" BY DEF Duties, Turn
  <2> QED BY <2>1, <2>2, <2>3, <2>4 DEF NoDangling
<1>2. ASSUME pc = "idle", NEW s \in Streams, st[s] = "proxy", Held(s) > 0
      PROVE  upFull[s] \/ (Queued(procQ, s) /\ posted)
  <2>1. ~WillPass /\ ~Served(s) BY <1>2 DEF WillPass, Served
  <2>2. Waits(s) BY DEF Duties, Duty
  <2> QED BY <1>2, <2>1, <2>2 DEF Waits, Awake
<1> QED BY <1>1, <1>2 DEF NoStranded

\* Bytes, queue and duties together are inductive.
LEMMA SpecDuties == Spec => [](IInv /\ Streamed /\ Duties)
<1>1. Init => Streamed /\ Duties BY InitStreamed, InitDuties
<1>2. IInv /\ IInv' /\ Streamed /\ Duties /\ [Next]_vars => Streamed' /\ Duties'
  BY NextStreamed, NextDuties
<1> QED BY <1>1, <1>2, InitInv, NextInv, PTL DEF Spec

\* The upstream is half-closed only after the last byte of a client that has
\* finished, and then it is (flush_to_upstream), whether the FIN comes before,
\* between or after the passes over the queue.
THEOREM HalfClosedLast == Spec => []HalfClose
<1>1. IInv /\ Streamed /\ Duties => HalfClose BY DutiesHalfClose
<1> QED BY <1>1, SpecDuties, PTL

\* Bytes that are held for a connected upstream are never left without an
\* event that sends them on, and neither queue nor frame refers to a freed
\* stream (queue_process, cleanup_stream, the NGX_BUSY and NGX_AGAIN exits of
\* process_stream).
THEOREM NobodyStranded == Spec => []NoStranded
<1>1. IInv /\ Streamed /\ Duties => NoStranded BY DutiesStranded
<1> QED BY <1>1, SpecDuties, PTL

----------------------------------------------------------------------------
(* The FIN owed to the client.                                             *)

\* A worker that waits has sent it or has the write event armed; with a SOCKS5
\* outbound every run of process_stream is followed by a flush or a queue pass.
FinKept ==
  /\ FinNotForgotten
  /\ pc \in {"send", "drain", "tail"} => ret # "idle"

\* The read loop does not return to the event loop without a flush.
LEMMA ReadLoopStays ==
  ASSUME ReadLoop
  PROVE  pc' \in {"read", "proc2"}
<1>1. CASE ReadAgain \/ ReadYield
           \/ \E s \in Streams : ReadSyn(s) \/ ReadFin(s)
  BY <1>1 DEF ReadAgain, ReadYield, LeaveRead, ReadSyn, ReadFin, AtHeader, NextFrame
<1>2. ASSUME NEW k \in {"PSH", "NEW", "KEEP", "END"}, NEW s \in Streams,
             NEW n \in 0 .. MaxFrame, ReadHeader(k, s, n)
      PROVE  pc' \in {"read", "proc2"}
  BY <1>2 DEF ReadHeader, AtHeader, Prepare, LeaveRead
<1>3. CASE Recheck BY <1>3 DEF Recheck, Prepare, LeaveRead
<1>4. CASE \E n \in 1 .. MaxFrame : ReadDirect(n) \/ ReadDeferred(n) \/ ReadPlain(n)
  BY <1>4 DEF ReadDirect, ReadDeferred, ReadPlain, Receiving, handlerVars
<1>5. CASE FeedRequest \/ FeedData \/ HandleNew \/ HandleStored
  BY <1>5 DEF FeedRequest, FeedData, HandleNew, HandleStored, FrameRead,
       handlerVars, NextFrame, LeaveRead
<1> QED BY <1>1, <1>2, <1>3, <1>4, <1>5 DEF ReadLoop

\* Each step keeps the FIN in mind.
LEMMA FinKeptStep ==
  ASSUME Socks5, IInv, FinKept, [Next]_vars
  PROVE  FinKept'
<1>1. CASE pc' \notin {"idle", "send", "drain", "tail"}
  BY <1>1 DEF FinKept, FinNotForgotten
<1>2. CASE Event
  <2>1. CASE PostedRead \/ ClientReady BY <1>1, <2>1 DEF PostedRead, ClientReady
  <2>2. ASSUME NEW s \in Streams, Opened(s) \/ PeerEvent(s) PROVE FinKept'
    BY <2>2 DEF Opened, PeerEvent, StartProcess, FinKept, FinNotForgotten
  <2>3. ASSUME NEW s \in Streams, ConnectFailed(s) \/ PeerTimeout(s) PROVE FinKept'
    BY <1>1, <2>3 DEF ConnectFailed, PeerTimeout
  <2>4. ASSUME NEW s \in Streams, ResolveFailed(s) PROVE FinKept'
    BY <2>4 DEF ResolveFailed
  <2> QED BY <1>2, <2>1, <2>2, <2>3, <2>4 DEF Event
<1>3. CASE Relay
  <2>1. CASE FlushEnd
    <3>1. cw' = \A s \in Streams : ~Owes(s) BY <2>1 DEF FlushEnd
    <3>2. \A s \in Streams : Owes(s)' = Owes(s)
      BY <2>1 DEF FlushEnd, streamVars, endVars, Owes
    <3>3. pc' \in {"proc1", "idle"} BY <2>1 DEF FlushEnd
    <3> QED BY <3>1, <3>2, <3>3 DEF FinKept, FinNotForgotten
  <2>2. CASE ProcessEnd \/ \E s \in Streams : FlushFin(s)
    BY <1>1, <2>2 DEF ProcessEnd, FlushFin, handlerVars
  <2>3. CASE ProcessHead
    BY <2>3 DEF ProcessHead, StartProcess, FinKept, FinNotForgotten
  <2>4. CASE \/ SendAgain \/ SendDone \/ DrainEnd
             \/ (\E n \in 1 .. Budget : Send(n)) \/ \E c \in 1 .. MaxFrame : Drain(c)
    <3>1. /\ pc \in {"send", "drain", "tail"} /\ ret' = ret
          /\ pc' \in {"send", "drain", "tail"}
      BY <2>4 DEF SendAgain, Sending, SendDone, DrainEnd, Send, Drain
    <3> QED BY <3>1 DEF FinKept, FinNotForgotten
  <2>5. CASE SendError \/ SendBusy \/ ProcessTail
    <3>1. pc \in {"send", "tail"} /\ EndProcess
      BY <2>5 DEF SendError, SendBusy, ProcessTail, Sending
    <3>2. pc' \in {"flush", "proc1", "proc2"}
      BY <3>1 DEF EndProcess, FinKept, IInv, HandlerOK
    <3> QED BY <1>1, <3>2
  <2> QED BY <1>3, <2>1, <2>2, <2>3, <2>4, <2>5 DEF Relay
<1>4. CASE ReadLoop BY <1>1, <1>4, ReadLoopStays
<1>5. CASE SessionEnd BY <1>1, <1>5 DEF SessionEnd
<1>6. CASE UNCHANGED vars
  BY <1>6 DEF vars, handlerVars, streamVars, endVars, FinKept, FinNotForgotten, Owes
<1> QED BY <1>2, <1>3, <1>4, <1>5, <1>6 DEF Next, Ended

\* With a SOCKS5 outbound a FIN that is owed to the client has left, or the
\* client's write event is outstanding, whenever the worker waits for events
\* (mux_socks5_handler and the peer handler flush, close_stream is followed by
\* a flush).
THEOREM FinsRemembered == Socks5 => (Spec => []FinNotForgotten)
<1> SUFFICES ASSUME Socks5 PROVE Spec => []FinNotForgotten OBVIOUS
<1>1. Init => FinKept BY DEF Init, FinKept, FinNotForgotten, Owes
<1>2. IInv /\ FinKept /\ [Next]_vars => FinKept' BY FinKeptStep
<1>3. FinKept => FinNotForgotten BY DEF FinKept
<1> QED BY <1>1, <1>2, <1>3, InitInv, NextInv, PTL DEF Spec

----------------------------------------------------------------------------
(* The receive tokens and the bytes they stand for.                        *)

HeldNow == [s \in Streams |-> Held(s)]

LEMMA HeldNext ==
  ASSUME IInv', NEW s \in Streams
  PROVE  Held(s)' \in Nat
<1>1. /\ buf' \in [Streams -> BufSet] /\ pend' \in [Streams -> Seq(Bytes)]
      /\ buf'[s].data \in Seq(Bytes) /\ pend'[s] \in Seq(Bytes)
  BY DEF IInv, BuffersOK, BufSet
<1>2. Len(buf'[s].data) \in Nat /\ Len(pend'[s]) \in Nat BY <1>1, LenProperties
<1>3. Held(s)' = Len(buf'[s].data) + Len(pend'[s]) BY DEF Held
<1>4. PICK a \in Nat, b \in Nat : a = Len(buf'[s].data) /\ b = Len(pend'[s]) BY <1>2
<1>5. Held(s)' = a + b BY <1>3, <1>4, Zenon
<1> QED BY <1>5

\* The sum of all held bytes is the value of a summing function.
LEMMA HeldSum ==
  ASSUME NEW f, Adding(f, HeldNow, Streams)
  PROVE  \E h : Adding(h, HeldNow, Streams) /\ MapThenSumSet(Held, Streams) = h[Streams]
<1> DEFINE c(T) == CHOOSE x \in T : TRUE
           D(h) == h = [T \in SUBSET Streams |->
                          IF T = {} THEN 0 ELSE Held(c(T)) + h[T \ {c(T)}]]
<1>1. ASSUME NEW h PROVE Adding(h, HeldNow, Streams) <=> D(h)
  <2>1. ASSUME NEW T \in SUBSET Streams
        PROVE  (IF T = {} THEN 0 ELSE HeldNow[c(T)] + h[T \ {c(T)}])
                 = (IF T = {} THEN 0 ELSE Held(c(T)) + h[T \ {c(T)}])
    <3>1. T # {} => HeldNow[c(T)] = Held(c(T)) BY DEF HeldNow
    <3> QED BY <3>1
  <2>2. [T \in SUBSET Streams |->
           IF T = {} THEN 0 ELSE HeldNow[c(T)] + h[T \ {c(T)}]]
          = [T \in SUBSET Streams |->
               IF T = {} THEN 0 ELSE Held(c(T)) + h[T \ {c(T)}]]
    BY <2>1, Zenon
  <2> QED BY <2>2, Zenon DEF Adding
<1>2. D(f) BY <1>1
<1>3. D(CHOOSE h : D(h)) BY <1>2, Zenon
<1>4. MapThenSumSet(Held, Streams) = (CHOOSE h : D(h))[Streams]
  BY DEF MapThenSumSet, MapThenFoldSet
<1> QED BY <1>1, <1>3, <1>4

\* The same after a step.
LEMMA HeldSumNext ==
  ASSUME NEW f, Adding(f, HeldNow', Streams)
  PROVE  \E h : /\ Adding(h, HeldNow', Streams)
                /\ MapThenSumSet(Held, Streams)' = h[Streams]
<1> DEFINE c(T) == CHOOSE x \in T : TRUE
           D(h) == h = [T \in SUBSET Streams |->
                          IF T = {} THEN 0 ELSE Held(c(T))' + h[T \ {c(T)}]]
<1>1. ASSUME NEW h PROVE Adding(h, HeldNow', Streams) <=> D(h)
  <2>1. ASSUME NEW T \in SUBSET Streams
        PROVE  (IF T = {} THEN 0 ELSE HeldNow'[c(T)] + h[T \ {c(T)}])
                 = (IF T = {} THEN 0 ELSE Held(c(T))' + h[T \ {c(T)}])
    <3>1. T # {} => HeldNow'[c(T)] = Held(c(T))' BY DEF HeldNow
    <3> QED BY <3>1
  <2>2. [T \in SUBSET Streams |->
           IF T = {} THEN 0 ELSE HeldNow'[c(T)] + h[T \ {c(T)}]]
          = [T \in SUBSET Streams |->
               IF T = {} THEN 0 ELSE Held(c(T))' + h[T \ {c(T)}]]
    BY <2>1, Zenon
  <2> QED BY <2>2, Zenon DEF Adding
<1>2. D(f) BY <1>1
<1>3. D(CHOOSE h : D(h)) BY <1>2, Zenon
<1>4. MapThenSumSet(Held, Streams)' = (CHOOSE h : D(h))[Streams]
  BY DEF MapThenSumSet, MapThenFoldSet
<1> QED BY <1>1, <1>3, <1>4

\* What one stream holds is part of the sum.
LEMMA HeldInSum ==
  ASSUME IsFiniteSet(Streams), IInv, NEW s \in Streams
  PROVE  MapThenSumSet(Held, Streams) \in Nat /\ Held(s) <= MapThenSumSet(Held, Streams)
<1>1. HeldNow \in [Streams -> Nat] BY RowTypes DEF HeldNow
<1>2. PICK h : /\ Adding(h, HeldNow, Streams)
               /\ MapThenSumSet(Held, Streams) = h[Streams]
  BY <1>1, SumExists, HeldSum
<1>3. /\ h[Streams] \in Nat /\ HeldNow[s] <= h[Streams]
  BY <1>1, <1>2, SumChange
<1> QED BY <1>2, <1>3 DEF HeldNow

\* When one stream's bytes change, the sum does by as much.
LEMMA SumFollows ==
  ASSUME IsFiniteSet(Streams), IInv, IInv', NEW s \in Streams,
         \A t \in Streams : t # s => Held(t)' = Held(t)
  PROVE  /\ MapThenSumSet(Held, Streams)' \in Nat /\ MapThenSumSet(Held, Streams) \in Nat
         /\ MapThenSumSet(Held, Streams)' + Held(s) = MapThenSumSet(Held, Streams) + Held(s)'
<1>1. HeldNow \in [Streams -> Nat] BY RowTypes DEF HeldNow
<1>2. HeldNow' \in [Streams -> Nat]
  <2>1. \A t \in Streams : Held(t)' \in Nat BY HeldNext
  <2> QED BY <2>1 DEF HeldNow
<1>3. PICK h : /\ Adding(h, HeldNow, Streams)
               /\ MapThenSumSet(Held, Streams) = h[Streams]
  BY <1>1, SumExists, HeldSum
<1>4. PICK k : /\ Adding(k, HeldNow', Streams)
               /\ MapThenSumSet(Held, Streams)' = k[Streams]
  <2>1. \E f : Adding(f, HeldNow', Streams) BY <1>2, SumExists
  <2> QED BY <2>1, HeldSumNext
<1>5. \A t \in Streams : t # s => HeldNow'[t] = HeldNow[t] BY DEF HeldNow
<1>6. /\ h[Streams] \in Nat /\ k[Streams] \in Nat
      /\ k[Streams] + HeldNow[s] = h[Streams] + HeldNow'[s]
  BY <1>1, <1>2, <1>3, <1>4, <1>5, SumChange
<1>7. HeldNow[s] = Held(s) /\ HeldNow'[s] = Held(s)' BY DEF HeldNow
<1> QED BY <1>3, <1>4, <1>6, <1>7

\* With nothing held the sum is 0, for the buckets of Init and of SessionEnd.
LEMMA SumNothing ==
  ASSUME IsFiniteSet(Streams), \A s \in Streams : Held(s) = 0
  PROVE  MapThenSumSet(Held, Streams) = 0
<1> DEFINE z == [T \in SUBSET Streams |-> 0]
<1>1. Adding(z, HeldNow, Streams)
  <2>1. ASSUME NEW T \in SUBSET Streams
        PROVE  0 = IF T = {} THEN 0
                   ELSE HeldNow[CHOOSE x \in T : TRUE] + z[T \ {CHOOSE x \in T : TRUE}]
    <3>1. T # {} => HeldNow[CHOOSE x \in T : TRUE] = 0 BY DEF HeldNow
    <3>2. z[T \ {CHOOSE x \in T : TRUE}] = 0 OBVIOUS
    <3> QED BY <3>1, <3>2
  <2> QED BY <2>1 DEF Adding
<1>2. PICK h : /\ Adding(h, HeldNow, Streams)
               /\ MapThenSumSet(Held, Streams) = h[Streams]
  BY <1>1, HeldSum
<1>3. h[Streams] = z[Streams]
  <2> HIDE DEF z
  <2> QED BY <1>1, <1>2, SumAgrees
<1> QED BY <1>2, <1>3

LEMMA SumNothingNext ==
  ASSUME IsFiniteSet(Streams), \A s \in Streams : Held(s)' = 0
  PROVE  MapThenSumSet(Held, Streams)' = 0
<1> DEFINE z == [T \in SUBSET Streams |-> 0]
<1>1. Adding(z, HeldNow', Streams)
  <2>1. ASSUME NEW T \in SUBSET Streams
        PROVE  0 = IF T = {} THEN 0
                   ELSE HeldNow'[CHOOSE x \in T : TRUE] + z[T \ {CHOOSE x \in T : TRUE}]
    <3>1. T # {} => HeldNow'[CHOOSE x \in T : TRUE] = 0 BY DEF HeldNow
    <3>2. z[T \ {CHOOSE x \in T : TRUE}] = 0 OBVIOUS
    <3> QED BY <3>1, <3>2
  <2> QED BY <2>1 DEF Adding
<1>2. PICK h : /\ Adding(h, HeldNow', Streams)
               /\ MapThenSumSet(Held, Streams)' = h[Streams]
  BY <1>1, HeldSumNext
<1>3. h[Streams] = z[Streams]
  <2> HIDE DEF z
  <2> QED BY <1>1, <1>2, SumAgrees
<1> QED BY <1>2, <1>3

\* A step of which no stream notices anything.
LEMMA SumStays ==
  ASSUME IsFiniteSet(Streams), IInv, \A s \in Streams : Held(s)' = Held(s)
  PROVE  MapThenSumSet(Held, Streams)' = MapThenSumSet(Held, Streams)
<1>1. HeldNow \in [Streams -> Nat] BY RowTypes DEF HeldNow
<1>2. HeldNow' = HeldNow BY DEF HeldNow
<1>3. PICK h : /\ Adding(h, HeldNow, Streams)
               /\ MapThenSumSet(Held, Streams) = h[Streams]
  BY <1>1, SumExists, HeldSum
<1>4. PICK k : /\ Adding(k, HeldNow, Streams)
               /\ MapThenSumSet(Held, Streams)' = k[Streams]
  <2>1. \E f : Adding(f, HeldNow', Streams) BY <1>2, <1>3
  <2> QED BY <1>2, <2>1, HeldSumNext
<1>5. h[Streams] = k[Streams] BY <1>3, <1>4, SumAgrees
<1> QED BY <1>3, <1>4, <1>5

\* No bytes and no tokens move.
Still == tokens' = tokens /\ \A s \in Streams : Held(s)' = Held(s)

\* Bytes of s and tokens are exchanged.
Trade(s) ==
  /\ \A t \in Streams : t # s => Held(t)' = Held(t)
  /\ tokens' + Held(s)' = tokens + Held(s)

LEMMA TradeConserves ==
  ASSUME IsFiniteSet(Streams), IInv, IInv', TokenConservation,
         Still \/ \E s \in Streams : Trade(s)
  PROVE  TokenConservation'
<1>1. CASE Still
  BY <1>1, SumStays DEF Still, TokenConservation
<1>2. ASSUME NEW s \in Streams, Trade(s) PROVE TokenConservation'
  <2>1. PICK a \in Nat, b \in Nat :
          /\ a = MapThenSumSet(Held, Streams) /\ b = MapThenSumSet(Held, Streams)'
          /\ b + Held(s) = a + Held(s)'
    BY <1>2, SumFollows DEF Trade
  <2>2. PICK x \in Nat, y \in Nat : x = Held(s) /\ y = Held(s)'
    <3>1. Held(s)' \in Nat BY HeldNext
    <3> QED BY <3>1, RowTypes
  <2>3. tokens \in Nat /\ tokens' \in Nat BY Constants DEF IInv, StreamsOK
  <2>4. tokens' + y = tokens + x /\ tokens + a = MaxRecv /\ b + x = a + y
    BY <1>2, <2>1, <2>2, Zenon DEF Trade, TokenConservation
  <2>5. PICK p \in Nat, q \in Nat, m \in Nat : p = tokens /\ q = tokens' /\ m = MaxRecv
    BY <2>3, Constants
  <2>6. q + y = p + x /\ p + a = m /\ b + x = a + y BY <2>1, <2>2, <2>4, <2>5, Zenon
  <2>7. q + b = m BY <2>6
  <2>8. tokens' + b = MaxRecv BY <2>5, <2>7, Zenon
  <2> QED BY <2>1, <2>8, Zenon DEF TokenConservation
<1> QED BY <1>1, <1>2

\* The bucket has room for the tokens of what a stream holds.
LEMMA RefundFits ==
  ASSUME IsFiniteSet(Streams), IInv, TokenConservation, NEW s \in Streams,
         NEW n \in Nat, n <= Held(s)
  PROVE  Refund(tokens, n) = tokens + n
<1>1. PICK a \in Nat : a = MapThenSumSet(Held, Streams) /\ Held(s) <= a BY HeldInSum
<1>2. tokens + a = MaxRecv BY <1>1, Zenon DEF TokenConservation
<1>3. tokens \in Nat /\ Held(s) \in Nat /\ MaxRecv \in Nat
  BY Constants, RowTypes DEF IInv, StreamsOK
<1>4. PICK p \in Nat, h \in Nat, m \in Nat : p = tokens /\ h = Held(s) /\ m = MaxRecv
  BY <1>3
<1>5. p + a = m /\ n <= h /\ h <= a BY <1>1, <1>2, <1>4, Zenon
<1>6. ~(p > m - n) BY <1>5
<1> QED BY <1>4, <1>6 DEF Refund

\* cleanup_stream returns the tokens of all a stream holds.
LEMMA ReapTrade ==
  ASSUME IsFiniteSet(Streams), IInv, TokenConservation, NEW s \in Streams, Reap(s)
  PROVE  Trade(s)
<1>1. /\ buf' = [buf EXCEPT ![s] = NoBuf] /\ pend' = [pend EXCEPT ![s] = <<>>]
      /\ tokens' = Refund(tokens, Held(s))
  BY DEF Reap
<1>2. buf \in [Streams -> BufSet] /\ pend \in [Streams -> Seq(Bytes)] /\ tokens \in Nat
  BY Constants DEF IInv, StreamsOK, BuffersOK
<1>3. \A t \in Streams : t # s => Held(t)' = Held(t) BY <1>1, <1>2 DEF Held
<1>4. Held(s)' = 0
  <2>1. buf'[s].data = <<>> /\ pend'[s] = <<>> BY <1>1, <1>2 DEF NoBuf
  <2> QED BY <2>1, EmptySeq DEF Held
<1>5. Held(s) \in Nat BY RowTypes
<1>6. tokens' = tokens + Held(s) BY <1>1, <1>5, RefundFits
<1> QED BY <1>2, <1>3, <1>4, <1>5, <1>6 DEF Trade

LEMMA CloseTrade ==
  ASSUME IsFiniteSet(Streams), IInv, TokenConservation, NEW s \in Streams, Close(s)
  PROVE  Still \/ Trade(s)
<1>1. CASE finSent[s] BY <1>1, ReapTrade DEF Close
<1>2. CASE ~finSent[s]
  BY <1>2 DEF Close, dataVars, Still, Held
<1> QED BY <1>1, <1>2

\* flush_to_upstream: as many tokens return as bytes are sent.
LEMMA SendTrade ==
  ASSUME IsFiniteSet(Streams), IInv, IInv', Streamed, Streamed', Duties, TokenConservation,
         NEW n \in 1 .. Budget, Send(n)
  PROVE  \E s \in Streams : Trade(s)
<1>c. cur \in Streams BY DEF IInv, HandlerOK, Send
<1> PICK s \in Streams : s = cur BY <1>c
<1>1. /\ \A t \in Streams : t # s => Held(t)' = Held(t)
      /\ up'[s] = up[s] + n /\ tokens' = Refund(tokens, n)
      /\ UNCHANGED <<st, sent, fr>>
  <2>1. buf \in [Streams -> BufSet] /\ up \in [Streams -> Nat]
    BY DEF IInv, StreamsOK, BuffersOK
  <2> QED BY <2>1 DEF Send, Held
<1>2. Taking(s) BY DEF Duties, Turn, Send, Taking
<1>3. /\ Request + up[s] + Held(s) + Unstored(s) = sent[s]
      /\ Request' + up'[s] + Held(s)' + Unstored(s)' = sent'[s]
  <2>1. Taking(s)' BY <1>1, <1>2 DEF Taking
  <2> QED BY <1>2, <2>1 DEF Streamed, InStream, Counted
<1>4. Request' = Request /\ Unstored(s)' = Unstored(s)
  BY <1>1 DEF Request, Unstored
<1>5. PICK a \in Nat, x \in Nat, y \in Nat, u \in Nat, r \in Nat :
        /\ a = up[s] /\ x = Held(s) /\ y = Held(s)' /\ u = Unstored(s) /\ r = Request
  <2>2. Held(s)' \in Nat BY HeldNext
  <2> QED BY <2>2, RowTypes, UnstoredType
<1>6. r + a + x + u = sent[s] /\ r + (a + n) + y + u = sent[s]
  BY <1>1, <1>3, <1>4, <1>5, Zenon
<1>7. n \in Nat /\ x = y + n BY <1>6, Constants
<1>8. Refund(tokens, n) = tokens + n
  <2>1. n <= x BY <1>7
  <2>2. n <= Held(s) BY <1>5, <2>1, Zenon
  <2> QED BY <1>7, <2>2, RefundFits, Zenon
<1>9. PICK p \in Nat : p = tokens BY Constants DEF IInv, StreamsOK
<1>10. (p + n) + y = p + x BY <1>7
<1>11. tokens' = p + n BY <1>1, <1>8, <1>9, Zenon
<1>12. tokens' + Held(s)' = tokens + Held(s)
  <2>1. tokens' + Held(s)' = (p + n) + y BY <1>5, <1>11, Zenon
  <2>2. tokens + Held(s) = p + x BY <1>5, <1>9, Zenon
  <2> QED BY <1>10, <2>1, <2>2, Zenon
<1> QED BY <1>1, <1>12, Zenon DEF Trade

\* drain_pending_frames only moves bytes.
LEMMA DrainStill ==
  ASSUME IInv, IInv', Streamed, Streamed', Duties, NEW c \in 1 .. MaxFrame, Drain(c)
  PROVE  Still
<1>c. cur \in Streams BY DEF IInv, HandlerOK, Drain
<1> PICK s \in Streams : s = cur BY <1>c
<1>1. /\ \A t \in Streams : t # s => Held(t)' = Held(t)
      /\ UNCHANGED <<st, sent, up, fr, tokens>>
  <2>1. buf \in [Streams -> BufSet] /\ pend \in [Streams -> Seq(Bytes)]
    BY DEF IInv, BuffersOK
  <2>2. /\ \A t \in Streams : t # s => buf'[t] = buf[t] /\ pend'[t] = pend[t]
        /\ UNCHANGED <<st, sent, up, fr, tokens>>
    BY <2>1 DEF Drain
  <2> QED BY <2>2 DEF Held
<1>2. Taking(s) BY DEF Duties, Turn, Drain, Taking
<1>3. /\ Request + up[s] + Held(s) + Unstored(s) = sent[s]
      /\ Request' + up'[s] + Held(s)' + Unstored(s)' = sent'[s]
  <2>1. Taking(s)' BY <1>1, <1>2 DEF Taking
  <2> QED BY <1>2, <2>1 DEF Streamed, InStream, Counted
<1>4. Request' = Request /\ Unstored(s)' = Unstored(s)
  BY <1>1 DEF Request, Unstored
<1>5. PICK a \in Nat, x \in Nat, y \in Nat, u \in Nat, r \in Nat :
        /\ a = up[s] /\ x = Held(s) /\ y = Held(s)' /\ u = Unstored(s) /\ r = Request
  <2>2. Held(s)' \in Nat BY HeldNext
  <2> QED BY <2>2, RowTypes, UnstoredType
<1>6. r + a + x + u = sent[s] /\ r + a + y + u = sent[s]
  BY <1>1, <1>3, <1>4, <1>5, Zenon
<1>7. x = y BY <1>6
<1> QED BY <1>1, <1>5, <1>7 DEF Still

\* The frame keeps the tokens of its unread rest, so take_recv_tokens takes
\* all of a piece.
LEMMA PieceTrade ==
  ASSUME IInv, IInv', Streamed, Streamed', FrameReserve,
         NEW n \in 1 .. MaxFrame, ReadDirect(n) \/ ReadDeferred(n)
  PROVE  \E s \in Streams : Trade(s)
<1> PICK s : s = fr.target OBVIOUS
<1>1. /\ Receiving(n) /\ Storing /\ (fr.direct \/ fr.deferred) /\ Received(n)
      /\ tokens' = Take(tokens, n) /\ UNCHANGED <<st, sent, up>>
  <2>1. fr' = [Settled EXCEPT !.read = @ + n] BY DEF ReadDirect, ReadDeferred
  <2>2. Received(n) BY <2>1, Constants, ReceivedFrame
  <2> QED BY <2>2 DEF ReadDirect, ReadDeferred
<1>2. s \in Streams /\ OfFrame(s) /\ Taking(s) BY <1>1, StoringStream
<1>3. \A t \in Streams : t # s => Held(t)' = Held(t)
  <2>1. buf \in [Streams -> BufSet] /\ pend \in [Streams -> Seq(Bytes)]
    BY DEF IInv, BuffersOK
  <2>2. \A t \in Streams : t # s => buf'[t] = buf[t] /\ pend'[t] = pend[t]
    BY <2>1 DEF ReadDirect, ReadDeferred
  <2> QED BY <2>2 DEF Held
<1>4. /\ Request + up[s] + Held(s) + Unstored(s) = sent[s]
      /\ Request' + up'[s] + Held(s)' + Unstored(s)' = sent'[s]
  <2>1. Taking(s)' BY <1>1, <1>2 DEF Taking
  <2> QED BY <1>2, <2>1 DEF Streamed, InStream, Counted
<1>5. Unstored(s) = fr.len - fr.read /\ Unstored(s)' = fr.len - (fr.read + n)
  BY <1>1, <1>2 DEF Unstored, OfFrame, Received
<1>6. PICK a \in Nat, x \in Nat, y \in Nat, r \in Nat, l \in Nat, d \in Nat, p \in Nat :
        /\ a = up[s] /\ x = Held(s) /\ y = Held(s)' /\ r = Request
        /\ l = fr.len /\ d = fr.read /\ p = tokens
  <2>2. Held(s)' \in Nat BY <1>2, HeldNext
  <2>3. tokens \in Nat BY Constants DEF IInv, StreamsOK
  <2> QED BY <1>2, <2>2, <2>3, RowTypes, FrameTypes
<1>7. /\ r + a + x + (l - d) = sent[s] /\ r + a + y + (l - (d + n)) = sent[s]
  <2>1. Request' = Request BY DEF Request
  <2> QED BY <1>1, <1>4, <1>5, <1>6, <2>1, Zenon
<1>8. n \in Nat /\ n <= l - d /\ p >= l - d
  BY <1>1, <1>6, Constants DEF Receiving, FrameReserve
<1>9. y = x + n BY <1>7, <1>8
<1>10. tokens' = p - n
  <2>1. p >= n BY <1>8
  <2> QED BY <1>1, <1>6, <1>8, <2>1 DEF Take
<1>11. tokens' + Held(s)' = tokens + Held(s)
  <2>1. (p - n) + y = p + x BY <1>8, <1>9
  <2>2. tokens' + Held(s)' = (p - n) + y BY <1>6, <1>10, Zenon
  <2>3. tokens + Held(s) = p + x BY <1>6, Zenon
  <2> QED BY <2>1, <2>2, <2>3, Zenon
<1> QED BY <1>2, <1>3, <1>11, Zenon DEF Trade

\* append_client_data takes a token for each byte it stores.
LEMMA AppendTrade ==
  ASSUME IInv, NEW s \in Streams, Ordered(s), NEW k \in Nat, k <= fr.len,
         AppendData(s, k), fr.base + k = Request + up[s] + Held(s), up'[s] = up[s],
         Enough(fr.len - k)
  PROVE  Trade(s)
<1>1. /\ Held(s)' = Held(s) + (fr.len - k)
      /\ \A t \in Streams : t # s => buf'[t].data = buf[t].data /\ pend'[t] = pend[t]
  BY AppendStream
<1>2. \A t \in Streams : t # s => Held(t)' = Held(t) BY <1>1 DEF Held
<1>3. tokens \in 0 .. MaxRecv /\ fr.len - k \in Nat
  BY FrameTypes DEF IInv, StreamsOK
<1>4. Len(Payload(k)) = fr.len - k
  BY FrameTypes, RunPayload DEF IInv
<1>5. tokens' = tokens - (fr.len - k)
  <2>1. CASE Payload(k) = <<>>
    <3>1. fr.len - k = 0 BY <1>4, <2>1, EmptySeq
    <3>2. tokens' = tokens BY <2>1 DEF AppendData
    <3> QED BY <1>3, <3>1, <3>2, Constants
  <2>2. CASE Payload(k) # <<>>
    <3>1. tokens' = Take(tokens, fr.len - k) BY <1>4, <2>2 DEF AppendData
    <3> QED BY <1>3, <3>1, TakeType DEF Enough
  <2> QED BY <2>1, <2>2
<1>6. PICK p \in Nat, x \in Nat, d \in Nat : p = tokens /\ x = Held(s) /\ d = fr.len - k
  BY <1>3, RowTypes, Constants
<1>7. tokens' + Held(s)' = tokens + Held(s)
  <2>1. (p - d) + (x + d) = p + x OBVIOUS
  <2>2. tokens' + Held(s)' = (p - d) + (x + d) BY <1>1, <1>5, <1>6, Zenon
  <2> QED BY <1>6, <2>1, <2>2, Zenon
<1> QED BY <1>2, <1>7, Zenon DEF Trade

LEMMA FeedDataTrade ==
  ASSUME IInv, Streamed, FeedData
  PROVE  Still \/ \E s \in Streams : Trade(s)
<1> PICK s : s = fr.target OBVIOUS
<1> PICK k : k = fr.feed OBVIOUS
<1>1. /\ fr.kind = "PSH" /\ s \in Streams /\ Taking(s) /\ ~fr.direct /\ ~fr.deferred
      /\ k \in Nat /\ k <= fr.len /\ fr.len \in Nat /\ up'[s] = up[s]
  BY FrameTypes DEF FeedData, FrameRead, TargetIn, Taking
<1>2. CASE ~Enough(fr.len - fr.feed) BY <1>2 DEF FeedData, Still, Held
<1>3. CASE Enough(fr.len - fr.feed)
  <2>1. AppendData(s, k) /\ Enough(fr.len - k) BY <1>3 DEF FeedData
  <2>2. InStream(s) /\ Ordered(s) BY <1>1 DEF Streamed, InStream
  <2>3. OfFrame(s) /\ fr.sid = s BY <1>1, <2>2 DEF InStream, Framed, OfFrame
  <2>4. Unstored(s) = fr.len - k BY <1>1, <2>3 DEF Unstored
  <2>5. fr.base + k = Request + up[s] + Held(s)
    BY <1>1, <2>2, <2>3, <2>4, TakingFrame
  <2> QED BY <1>1, <2>1, <2>2, <2>5, AppendTrade
<1> QED BY <1>2, <1>3

LEMMA HandleNewTrade ==
  ASSUME IInv, Streamed, HandleNew
  PROVE  Still \/ \E s \in Streams : Trade(s)
<1> PICK s : s = fr.sid OBVIOUS
<1>1. /\ fr.kind = "NEW" /\ s \in Streams /\ st[s] = "absent" /\ up'[s] = up[s]
      /\ fr.len \in Nat
  BY FrameTypes DEF HandleNew, FrameRead, Live
<1>2. \/ UNCHANGED <<buf, pend, tokens>>
      \/ AppendData(s, 0) /\ Enough(fr.len)
  BY DEF HandleNew
<1>3. CASE UNCHANGED <<buf, pend, tokens>> BY <1>3 DEF Still, Held
<1>4. CASE AppendData(s, 0) /\ Enough(fr.len)
  <2>1. InStream(s) /\ Ordered(s) BY <1>1 DEF Streamed, InStream
  <2>2. Cool /\ fr.base = 0 BY <1>1, <2>1 DEF InStream, Framed
  <2>3. Held(s) = 0 /\ up[s] = 0 /\ Request = 0
    BY <1>1, <2>1, <2>2 DEF InStream, Counted, Request
  <2>4. fr.base + 0 = Request + up[s] + Held(s) BY <2>2, <2>3
  <2>5. fr.len - 0 = fr.len /\ 0 <= fr.len BY <1>1
  <2>6. Enough(fr.len - 0) BY <1>4, <2>5, Zenon
  <2> QED BY <1>1, <1>4, <2>1, <2>4, <2>5, <2>6, AppendTrade
<1> QED BY <1>2, <1>3, <1>4

\* prepare_client_payload changes buffers, never what they hold.
LEMMA PrepareStill ==
  ASSUME IInv, NEW s \in Streams, NEW f \in FrameSet, f.len <= MaxFrame, Prepare(f, s),
         pend' = pend, tokens' = tokens
  PROVE  Still
<1>1. buf \in [Streams -> BufSet] /\ BufFits(buf[s]) BY DEF IInv, BuffersOK
<1>2. f.len \in 0 .. MaxFrame BY Constants DEF FrameSet
<1> DEFINE b == Accepting(buf[s], f.len)
<1>3. b \in BufSet /\ b.data = buf[s].data BY <1>1, <1>2, AcceptingType
<1>4. \/ UNCHANGED buf
      \/ buf' = [buf EXCEPT ![s] = IF pend[s] = <<>> THEN b ELSE @]
  BY DEF Prepare
<1> HIDE DEF b
<1>5. \A t \in Streams : buf'[t].data = buf[t].data BY <1>1, <1>3, <1>4
<1> QED BY <1>5 DEF Still, Held

LEMMA HeaderStill ==
  ASSUME IInv,
         Recheck \/ \E k \in {"PSH", "NEW", "KEEP", "END"}, s \in Streams,
                      n \in 0 .. MaxFrame : ReadHeader(k, s, n)
  PROVE  Still
<1>1. CASE Recheck
  <2>1. PICK f : f = [fr EXCEPT !.blocked = FALSE] OBVIOUS
  <2>2. f \in FrameSet /\ f.len = fr.len /\ fr.len <= MaxFrame
    BY <2>1, FrameTypes DEF FrameSet
  <2>3. fr.target \in Streams
    BY <1>1, FrameTypes DEF Recheck, MustPrepare, TargetIn
  <2>4. Prepare(f, fr.target) /\ pend' = pend /\ tokens' = tokens
    BY <1>1, <2>1 DEF Recheck
  <2> QED BY <2>2, <2>3, <2>4, PrepareStill
<1>2. ASSUME NEW k \in {"PSH", "NEW", "KEEP", "END"}, NEW s \in Streams,
             NEW n \in 0 .. MaxFrame, ReadHeader(k, s, n)
      PROVE  Still
  <2> DEFINE live == k # "NEW" /\ s \in Live
             base == IF live THEN sent[s] ELSE 0
  <2>1. PICK f : f = [NoFrame EXCEPT !.kind = k, !.sid = s, !.len = n, !.base = base]
    OBVIOUS
  <2>2. /\ pend' = pend /\ tokens' = tokens
        /\ Prepare(f, s) \/ UNCHANGED buf
    BY <1>2, <2>1 DEF ReadHeader
  <2>3. base \in Nat /\ n \in Nat /\ n <= MaxFrame
    BY RowTypes, Constants
  <2> HIDE DEF base
  <2>4. f \in FrameSet /\ f.len = n BY <2>1, <2>3 DEF FrameSet, NoFrame
  <2>5. CASE UNCHANGED buf BY <2>2, <2>5 DEF Still, Held
  <2>6. CASE Prepare(f, s) BY <2>2, <2>3, <2>4, <2>6, PrepareStill
  <2> QED BY <2>2, <2>5, <2>6
<1> QED BY <1>1, <1>2

\* A session that ends returns every token.
LEMMA EndConserves ==
  ASSUME IsFiniteSet(Streams), SessionEnd
  PROVE  TokenConservation'
<1>1. \A s \in Streams : Held(s)' = 0
  <2>1. ASSUME NEW s \in Streams PROVE Held(s)' = 0
    <3>1. buf'[s].data = <<>> /\ pend'[s] = <<>> BY DEF SessionEnd, NoBuf
    <3> QED BY <3>1, EmptySeq DEF Held
  <2> QED BY <2>1
<1>2. MapThenSumSet(Held, Streams)' = 0 BY <1>1, SumNothingNext
<1>3. tokens' = MaxRecv /\ MaxRecv + 0 = MaxRecv BY Constants DEF SessionEnd
<1> QED BY <1>2, <1>3, Zenon DEF TokenConservation

\* Each step exchanges tokens for the bytes of one stream, or none.
LEMMA NextConserves ==
  ASSUME IsFiniteSet(Streams), IInv, IInv', Streamed, Streamed', Duties, FrameReserve,
         TokenConservation, [Next]_vars
  PROVE  TokenConservation'
<1> DEFINE Moved == Still \/ \E s \in Streams : Trade(s)
<1>0. Moved => TokenConservation' BY TradeConserves
<1>1. CASE Event
  <2>1. CASE PostedRead \/ ClientReady
    BY <1>0, <2>1 DEF PostedRead, ClientReady, streamVars, dataVars, Still, Held
  <2>2. ASSUME NEW s \in Streams, Opened(s) \/ PeerEvent(s) PROVE TokenConservation'
    BY <1>0, <2>2 DEF Opened, PeerEvent, streamVars, dataVars, Still, Held
  <2>3. ASSUME NEW s \in Streams, ConnectFailed(s) \/ ResolveFailed(s) \/ PeerTimeout(s)
        PROVE  TokenConservation'
    <3>1. Close(s) BY <2>3 DEF ConnectFailed, ResolveFailed, PeerTimeout
    <3> QED BY <1>0, <3>1, CloseTrade
  <2> QED BY <1>1, <2>1, <2>2, <2>3 DEF Event
<1>2. CASE Relay
  <2>1. CASE FlushEnd \/ ProcessEnd \/ ProcessHead \/ SendAgain \/ SendBusy \/ DrainEnd
    BY <1>0, <2>1 DEF FlushEnd, ProcessEnd, ProcessHead, SendAgain, SendBusy,
         DrainEnd, streamVars, dataVars, Still, Held
  <2>2. ASSUME NEW s \in Streams, FlushFin(s) PROVE TokenConservation'
    <3>1. CASE Reap(s) BY <1>0, <3>1, ReapTrade
    <3>2. CASE UNCHANGED <<dataVars, tokens>>
      BY <1>0, <3>2 DEF dataVars, Still, Held
    <3> QED BY <2>2, <3>1, <3>2 DEF FlushFin
  <2>3. ASSUME NEW n \in 1 .. Budget, Send(n) PROVE TokenConservation'
    BY <1>0, <2>3, SendTrade
  <2>4. CASE SendError \/ ProcessTail
    <3>1. cur \in Streams
      BY <2>4 DEF IInv, HandlerOK, SendError, Sending, ProcessTail
    <3>2. Close(cur) \/ UNCHANGED <<dataVars, tokens>>
      BY <2>4 DEF SendError, ProcessTail
    <3>3. CASE Close(cur)
      <4>1. PICK s \in Streams : s = cur BY <3>1
      <4>2. Close(s) BY <3>3, <4>1
      <4> QED BY <1>0, <4>2, CloseTrade
    <3>4. CASE UNCHANGED <<dataVars, tokens>>
      BY <1>0, <3>4 DEF dataVars, Still, Held
    <3> QED BY <3>2, <3>3, <3>4
  <2>5. CASE SendDone
    <3>1. buf \in [Streams -> BufSet] BY DEF IInv, BuffersOK
    <3>2. /\ \A s \in Streams : buf'[s].data = buf[s].data
          /\ pend' = pend /\ tokens' = tokens
      BY <2>5, <3>1 DEF SendDone, BufSet
    <3> QED BY <1>0, <3>2 DEF Still, Held
  <2>6. ASSUME NEW c \in 1 .. MaxFrame, Drain(c) PROVE TokenConservation'
    BY <1>0, <2>6, DrainStill
  <2> QED BY <1>2, <2>1, <2>2, <2>3, <2>4, <2>5, <2>6 DEF Relay
<1>3. CASE ReadLoop
  <2>1. CASE ReadAgain \/ ReadYield BY <1>0, <2>1 DEF ReadAgain, ReadYield, streamVars,
                                        dataVars, Still, Held
  <2>2. ASSUME NEW s \in Streams, ReadSyn(s) \/ ReadFin(s) PROVE TokenConservation'
    <3>1. UNCHANGED <<dataVars, tokens>> BY <2>2 DEF ReadSyn, ReadFin
    <3> QED BY <1>0, <3>1 DEF dataVars, Still, Held
  <2>3. CASE Recheck \/ \E k \in {"PSH", "NEW", "KEEP", "END"}, s \in Streams,
                          n \in 0 .. MaxFrame : ReadHeader(k, s, n)
    BY <1>0, <2>3, HeaderStill
  <2>4. ASSUME NEW n \in 1 .. MaxFrame, ReadDirect(n) \/ ReadDeferred(n)
        PROVE  TokenConservation'
    BY <1>0, <2>4, PieceTrade
  <2>5. ASSUME NEW n \in 1 .. MaxFrame, ReadPlain(n) PROVE TokenConservation'
    BY <1>0, <2>5 DEF ReadPlain, streamVars, dataVars, Still, Held
  <2>6. CASE FeedRequest \/ HandleStored
    BY <1>0, <2>6 DEF FeedRequest, HandleStored, dataVars, Still, Held
  <2>7. CASE FeedData BY <1>0, <2>7, FeedDataTrade
  <2>8. CASE HandleNew BY <1>0, <2>8, HandleNewTrade
  <2> QED BY <1>3, <2>1, <2>2, <2>3, <2>4, <2>5, <2>6, <2>7, <2>8 DEF ReadLoop
<1>4. CASE SessionEnd BY <1>4, EndConserves
<1>5. CASE UNCHANGED vars
  BY <1>0, <1>5 DEF vars, streamVars, dataVars, Still, Held
<1> QED BY <1>1, <1>2, <1>3, <1>4, <1>5 DEF Next, Ended

\* Every receive token of a session is in its bucket or stands for one byte
\* that a stream holds (take_recv_tokens and return_recv_tokens, whose clamps
\* are never needed).
THEOREM TokensConserved == IsFiniteSet(Streams) => (Spec => []TokenConservation)
<1> SUFFICES ASSUME IsFiniteSet(Streams) PROVE Spec => []TokenConservation OBVIOUS
<1>1. Init => TokenConservation
  <2> SUFFICES ASSUME Init PROVE TokenConservation OBVIOUS
  <2>1. \A s \in Streams : Held(s) = 0
    <3>1. ASSUME NEW s \in Streams PROVE Held(s) = 0
      <4>1. buf[s].data = <<>> /\ pend[s] = <<>> BY DEF Init, NoBuf
      <4> QED BY <4>1, EmptySeq DEF Held
    <3> QED BY <3>1
  <2>2. MapThenSumSet(Held, Streams) = 0 BY <2>1, SumNothing
  <2>3. tokens = MaxRecv /\ MaxRecv + 0 = MaxRecv BY Constants DEF Init
  <2> QED BY <2>2, <2>3, Zenon DEF TokenConservation
<1>2. IInv /\ IInv' /\ Streamed /\ Streamed' /\ Duties /\ FrameReserve
      /\ TokenConservation /\ [Next]_vars => TokenConservation'
  BY NextConserves
<1> QED BY <1>1, <1>2, SpecDuties, ReserveSafe, PTL DEF Spec

----------------------------------------------------------------------------
(* The room of direct payloads.                                            *)

\* The buffer of a direct payload has a place for each byte still to come,
\* once its bytes are moved to the front.
Spare(s) == buf[s].cap - Len(buf[s].data)
Roomy == Storing /\ fr.direct /\ ~fr.deferred => Spare(fr.target) >= fr.len - fr.read

\* ensure_client_buffer never shrinks a buffer.
LEMMA EnsureGrows ==
  ASSUME NEW b \in BufSet, BufFits(b), NEW len \in 0 .. MaxFrame
  PROVE  Ensure(b, len).cap >= b.cap
<1> DEFINE size == Larger(Smaller(BufSize, MaxBuf), len)
           n    == Len(b.data)
           need == IF n > 0 THEN Larger(n + len, size) ELSE size
           cap  == IF need < 2 * b.cap THEN Smaller(2 * b.cap, MaxBuf) ELSE need
<1>1. n \in Nat /\ b.cap \in Nat /\ b.off \in Nat /\ b.data \in Seq(Bytes)
  BY DEF BufSet
<1>2. size \in Nat /\ size <= MaxBuf /\ len \in Nat /\ len <= MaxBuf
  BY Constants DEF Larger, Smaller
<1>3. CASE b.cap = 0
  <2>1. Ensure(b, len) = [data |-> <<>>, off |-> 0, cap |-> size]
    BY <1>3 DEF Ensure, NoBuf
  <2> QED BY <1>1, <1>2, <1>3, <2>1
<1>4. CASE Ensure(b, len) = b BY <1>1, <1>4
<1>5. CASE b.cap # 0 /\ Ensure(b, len) # b
  <2>1. ~(n > 0 /\ (n > len \/ n > MaxBuf - len)) /\ ~(b.cap >= need)
    BY <1>5 DEF Ensure
  <2>2. Ensure(b, len) = [data |-> b.data, off |-> 0, cap |-> cap]
    BY <1>5 DEF Ensure
  <2>3. need \in Nat /\ need <= MaxBuf /\ need > b.cap
    BY <2>1, <1>1, <1>2, Constants DEF Larger
  <2> HIDE DEF need
  <2>4. cap >= b.cap BY <1>1, <2>3, Constants DEF Smaller
  <2> QED BY <2>2, <2>4
<1> QED BY <1>3, <1>4, <1>5

\* A step that keeps the frame's promise and does not fill its buffer.
LEMMA RoomyKept ==
  ASSUME Roomy, Storing' => Storing, fr'.target = fr.target, fr'.direct => fr.direct,
         fr.deferred => fr'.deferred, fr'.len = fr.len, fr'.read = fr.read,
         IInv, IInv',
         Storing => /\ buf'[fr.target].cap >= buf[fr.target].cap
                    /\ Len(buf'[fr.target].data) <= Len(buf[fr.target].data)
  PROVE  Roomy'
<1> SUFFICES ASSUME Storing', fr'.direct, ~fr'.deferred
             PROVE  Spare(fr.target)' >= fr.len - fr.read
  BY DEF Roomy
<1>1. PICK s \in Streams : s = fr.target /\ fr'.target = s
  BY FrameTypes DEF Storing
<1>2. Storing /\ fr.direct /\ ~fr.deferred OBVIOUS
<1>3. Spare(s) >= fr.len - fr.read BY <1>1, <1>2 DEF Roomy
<1>4. PICK c \in Nat, l \in Nat : c = buf[s].cap /\ l = Len(buf[s].data)
  BY RowTypes
<1>5. PICK d \in Nat, k \in Nat : d = buf'[s].cap /\ k = Len(buf'[s].data)
  <2>1. buf'[s] \in BufSet BY DEF IInv, BuffersOK
  <2> QED BY <2>1, LenProperties DEF BufSet
<1>6. PICK m \in Nat, r \in Nat : m = fr.len /\ r = fr.read BY FrameTypes
<1>7. c - l >= m - r /\ d >= c /\ k <= l
  BY <1>1, <1>2, <1>3, <1>4, <1>5, <1>6 DEF Spare
<1>8. d - k >= m - r BY <1>7
<1>9. buf'[fr'.target].cap - Len(buf'[fr'.target].data) >= fr.len - fr.read
  BY <1>1, <1>5, <1>6, <1>8
<1> QED BY <1>1, <1>9 DEF Spare

LEMMA RoomyGone ==
  ASSUME ~fr'.direct \/ fr'.target = NoStream \/ fr'.deferred
  PROVE  Roomy'
BY DEF Roomy, Storing

LEMMA ReapRoomy ==
  ASSUME Roomy, IInv, IInv', Streamed, NEW s \in Streams, Reap(s)
  PROVE  Roomy'
<1>1. /\ st' = [st EXCEPT ![s] = "absent"] /\ buf' = [buf EXCEPT ![s] = NoBuf]
      /\ fr' = IF fr.target = s
               THEN [fr EXCEPT !.target = NoStream, !.direct = FALSE,
                               !.checked = FALSE, !.blocked = FALSE,
                               !.deferred = FALSE, !.feed = 0]
               ELSE fr
  BY DEF Reap
<1>2. CASE fr.target = s
  <2>1. fr'.target = NoStream BY <1>1, <1>2, FrameTypes DEF FrameSet
  <2> QED BY <2>1, RoomyGone
<1>3. CASE fr.target # s
  <2>1. fr' = fr /\ (Storing' => Storing)
    BY <1>1, <1>3, FrameTypes DEF Storing, TargetIn, IInv, StreamsOK
  <2>2. Storing => buf'[fr.target] = buf[fr.target]
    BY <1>1, <1>3, FrameTypes DEF IInv, BuffersOK, Storing
  <2>3. Storing => /\ buf'[fr.target].cap >= buf[fr.target].cap
                   /\ Len(buf'[fr.target].data) <= Len(buf[fr.target].data)
    <3> SUFFICES ASSUME Storing PROVE buf'[fr.target].cap >= buf[fr.target].cap
                   /\ Len(buf'[fr.target].data) <= Len(buf[fr.target].data)
      OBVIOUS
    <3>1. PICK t \in Streams : t = fr.target BY FrameTypes DEF Storing
    <3> QED BY <2>2, <3>1, RowTypes
  <2> QED BY <2>1, <2>3, RoomyKept
<1> QED BY <1>2, <1>3

\* A step that leaves the buffers alone.
LEMMA RoomyStill ==
  ASSUME Roomy, IInv, IInv', Storing' => Storing, fr'.target = fr.target,
         fr'.direct => fr.direct, fr.deferred => fr'.deferred,
         fr'.len = fr.len, fr'.read = fr.read, UNCHANGED buf
  PROVE  Roomy'
<1>1. Storing => /\ buf'[fr.target].cap >= buf[fr.target].cap
                 /\ Len(buf'[fr.target].data) <= Len(buf[fr.target].data)
  <2> SUFFICES ASSUME Storing PROVE buf'[fr.target].cap >= buf[fr.target].cap
                 /\ Len(buf'[fr.target].data) <= Len(buf[fr.target].data)
    OBVIOUS
  <2>1. PICK t \in Streams : t = fr.target BY FrameTypes DEF Storing
  <2> QED BY <2>1, RowTypes
<1> QED BY <1>1, RoomyKept

LEMMA RoomyIdle ==
  ASSUME Roomy, IInv, IInv', UNCHANGED <<st, buf, fr>>
  PROVE  Roomy'
BY RoomyStill DEF Storing, TargetIn

LEMMA CloseRoomy ==
  ASSUME Roomy, IInv, IInv', Streamed, NEW s \in Streams, Close(s)
  PROVE  Roomy'
<1>1. CASE finSent[s] BY <1>1, ReapRoomy DEF Close
<1>2. CASE ~finSent[s]
  <2>1. st' = [st EXCEPT ![s] = "closing"] /\ UNCHANGED <<buf, fr>>
    BY <1>2 DEF Close, Shut, dataVars
  <2>2. Storing' => Storing
    BY <2>1, FrameTypes DEF Storing, TargetIn, IInv, StreamsOK
  <2> QED BY <2>1, <2>2, RoomyStill
<1> QED BY <1>1, <1>2

\* A buffer that sends or is drained into.
LEMMA SendRoomy ==
  ASSUME Roomy, IInv, IInv', Streamed, Duties,
         SendDone \/ \E n \in 1 .. Budget : Send(n)
  PROVE  Roomy'
<1>c. cur \in Streams BY DEF IInv, HandlerOK, Send, SendDone
<1>b. buf \in [Streams -> BufSet] BY DEF IInv, BuffersOK
<1>1. UNCHANGED <<st, fr>> BY DEF Send, SendDone
<1>2. ASSUME NEW t \in Streams
      PROVE  buf'[t].cap = buf[t].cap /\ Len(buf'[t].data) <= Len(buf[t].data)
  <2>0. buf[t].data \in Seq(Bytes) /\ Len(buf[t].data) \in Nat BY RowTypes
  <2>1. CASE SendDone
    <3>1. buf'[t].cap = buf[t].cap /\ buf'[t].data = buf[t].data
      BY <1>b, <1>c, <2>1 DEF SendDone, BufSet
    <3> QED BY <2>0, <3>1
  <2>2. ASSUME NEW n \in 1 .. Budget, Send(n)
        PROVE  buf'[t].cap = buf[t].cap /\ Len(buf'[t].data) <= Len(buf[t].data)
    <3>1. buf' = [buf EXCEPT ![cur].data = SubSeq(@, n + 1, Len(@)), ![cur].off = @ + n]
      BY <2>2 DEF Send
    <3>2. CASE t # cur
      <4>1. buf'[t] = buf[t] BY <1>b, <3>1, <3>2
      <4> QED BY <2>0, <4>1
    <3>3. CASE t = cur
      <4>1. /\ buf'[t].cap = buf[t].cap
            /\ buf'[t].data = SubSeq(buf[t].data, n + 1, Len(buf[t].data))
        BY <1>b, <3>1, <3>3 DEF BufSet
      <4>2. PICK l \in Nat : l = Len(buf[t].data) BY <2>0
      <4>3. n \in Nat /\ n <= l
        <5>1. n <= Smaller(Len(buf[t].data), budget) /\ budget \in Nat /\ n \in Nat
          BY <2>2, <3>3, Constants DEF Send, IInv, HandlerOK
        <5> QED BY <4>2, <5>1 DEF Smaller
      <4>4. Len(SubSeq(buf[t].data, n + 1, l)) <= l
        BY <2>0, <4>2, <4>3, SubSeqProperties
      <4> QED BY <4>1, <4>2, <4>4
    <3> QED BY <3>2, <3>3
  <2> QED BY <2>1, <2>2
<1>3. Storing => /\ buf'[fr.target].cap >= buf[fr.target].cap
                 /\ Len(buf'[fr.target].data) <= Len(buf[fr.target].data)
  <2> SUFFICES ASSUME Storing PROVE buf'[fr.target].cap >= buf[fr.target].cap
                 /\ Len(buf'[fr.target].data) <= Len(buf[fr.target].data)
    OBVIOUS
  <2>1. PICK t \in Streams : t = fr.target BY FrameTypes DEF Storing
  <2>2. buf[t].cap \in Nat BY RowTypes
  <2> QED BY <1>2, <2>1, <2>2
<1>4. Storing' => Storing BY <1>1 DEF Storing, TargetIn
<1> QED BY <1>1, <1>3, <1>4, RoomyKept

\* A stream with a direct payload has no pending frame to drain.
LEMMA DrainRoomy ==
  ASSUME Roomy, IInv, IInv', Streamed, Duties, NEW c \in 1 .. MaxFrame, Drain(c)
  PROVE  Roomy'
<1>c. cur \in Streams /\ st[cur] = "proxy"
  BY DEF IInv, HandlerOK, Drain, Duties, Turn
<1>1. UNCHANGED <<st, fr>> /\ c <= Len(pend[cur]) BY DEF Drain
<1>2. \A t \in Streams : t # cur => buf'[t] = buf[t]
  BY DEF Drain, IInv, BuffersOK
<1>3. CASE ~(Storing /\ fr.direct /\ ~fr.deferred)
  BY <1>1, <1>3 DEF Roomy, Storing, TargetIn
<1>4. CASE Storing /\ fr.direct /\ ~fr.deferred
  <2>1. PICK t \in Streams : t = fr.target /\ OfFrame(t) /\ Taking(t)
    BY <1>4, StoringStream
  <2>2. pend[t] = <<>> BY <1>4, <2>1 DEF Streamed, InStream, Framed, Open, Taking
  <2>3. t # cur
    <3>1. c \in Nat /\ c >= 1 BY Constants
    <3> QED BY <1>1, <2>2, <3>1, EmptySeq
  <2>4. buf'[t] = buf[t] BY <1>2, <2>3
  <2>5. Storing' => Storing BY <1>1 DEF Storing, TargetIn
  <2>6. /\ buf'[t].cap >= buf[t].cap /\ Len(buf'[t].data) <= Len(buf[t].data)
    BY <2>4, RowTypes
  <2> QED BY <1>1, <2>1, <2>5, <2>6, RoomyKept
<1> QED BY <1>3, <1>4

\* prepare_client_payload admits a direct payload only with room for all.
LEMMA PrepareRoomy ==
  ASSUME Roomy, IInv, IInv', NEW s \in Streams, NEW f \in FrameSet, f.len <= MaxFrame,
         Prepare(f, s), f.read = 0, UNCHANGED <<st, pend>>,
         ~f.direct \/ (/\ f.target = fr.target /\ (f.direct => fr.direct)
                       /\ (fr.deferred => f.deferred) /\ f.target = s
                       /\ f.len = fr.len /\ f.read = fr.read)
  PROVE  Roomy'
<1>1. f.len \in 0 .. MaxFrame BY Constants DEF FrameSet
<1> DEFINE b == Accepting(buf[s], f.len)
           direct == Fits(s, b, f.len)
<1>2. buf \in [Streams -> BufSet] /\ BufFits(buf[s]) BY DEF IInv, BuffersOK
<1>3. b \in BufSet /\ BufFits(b) /\ b.data = buf[s].data
  BY <1>1, <1>2, AcceptingType
<1>4. \/ fr' = f /\ UNCHANGED buf
      \/ fr' = [f EXCEPT !.target = s] /\ UNCHANGED buf
      \/ fr' = [f EXCEPT !.target = s, !.blocked = TRUE] /\ UNCHANGED buf
      \/ /\ fr' = [f EXCEPT !.target = s, !.checked = TRUE,
                            !.direct = direct, !.deferred = @ \/ ~direct]
         /\ buf' = [buf EXCEPT ![s] = IF pend[s] = <<>> THEN b ELSE @]
  BY DEF Prepare
<1>5. direct \in BOOLEAN /\ (direct => pend[s] = <<>> /\ Room(b) >= f.len)
  BY DEF Fits
<1> HIDE DEF b, direct
<1>6. CASE /\ \/ fr' = f \/ fr' = [f EXCEPT !.target = s]
              \/ fr' = [f EXCEPT !.target = s, !.blocked = TRUE]
           /\ UNCHANGED buf
  <2>1. /\ fr'.direct = f.direct /\ fr'.deferred = f.deferred /\ fr'.len = f.len
        /\ fr'.read = f.read /\ fr'.target \in {f.target, s}
    BY <1>6 DEF FrameSet
  <2>2. CASE ~f.direct BY <2>1, <2>2, RoomyGone
  <2>3. CASE f.direct
    <3>1. fr'.target = fr.target BY <2>1, <2>3
    <3>2. Storing' => Storing BY <3>1 DEF Storing, TargetIn
    <3> QED BY <1>6, <2>1, <2>3, <3>1, <3>2, RoomyStill
  <2> QED BY <2>2, <2>3
<1>7. CASE /\ fr' = [f EXCEPT !.target = s, !.checked = TRUE,
                              !.direct = direct, !.deferred = @ \/ ~direct]
           /\ buf' = [buf EXCEPT ![s] = IF pend[s] = <<>> THEN b ELSE @]
  <2>1. fr'.direct = direct /\ fr'.target = s /\ fr'.len = f.len /\ fr'.read = 0
    BY <1>5, <1>7 DEF FrameSet
  <2>2. CASE ~direct BY <2>1, <2>2, RoomyGone
  <2>3. CASE direct
    <3>1. buf'[s] = b BY <1>2, <1>5, <1>7, <2>3
    <3>2. b.cap \in Nat /\ b.off \in Nat /\ Len(b.data) \in Nat /\ f.len \in Nat
      BY <1>3, <1>1, LenProperties, Constants DEF BufSet
    <3>3. b.cap - b.off - Len(b.data) >= f.len BY <1>5, <2>3 DEF Room
    <3>4. b.cap - Len(b.data) >= f.len - 0 BY <3>2, <3>3
    <3> QED BY <2>1, <3>1, <3>4 DEF Roomy, Spare
  <2> QED BY <1>5, <2>2, <2>3
<1> QED BY <1>4, <1>6, <1>7

\* A piece that is read into the buffer takes no more room than was kept for it.
LEMMA ReadDirectRoomy ==
  ASSUME Roomy, IInv, IInv', Streamed, NEW n \in 1 .. MaxFrame, ReadDirect(n)
  PROVE  Roomy'
<1> PICK s : s = fr.target OBVIOUS
<1> PICK d : d = Piece(n) OBVIOUS
<1> DEFINE e == Ensure(buf[s], fr.len - fr.read)
           b == IF Room(e) = 0 THEN Compact(e) ELSE e
<1>1. /\ Receiving(n) /\ Storing /\ fr.direct /\ ~fr.deferred
      /\ buf' = [buf EXCEPT ![s] = [b EXCEPT !.data = @ \o d]]
      /\ fr' = [Settled EXCEPT !.read = @ + n] /\ UNCHANGED st
  BY DEF ReadDirect, Piece
<1>2. s \in Streams BY <1>1, StoringStream
<1>3. buf \in [Streams -> BufSet] /\ buf[s] \in BufSet /\ BufFits(buf[s])
  BY <1>2 DEF IInv, BuffersOK
<1>4. fr.len - fr.read \in 0 .. MaxFrame BY FrameTypes, Constants
<1>5. e \in BufSet /\ BufFits(e) /\ e.data = buf[s].data /\ e.cap >= buf[s].cap
  BY <1>3, <1>4, EnsureType, EnsureGrows
<1>6. b \in BufSet /\ b.data = buf[s].data /\ b.cap = e.cap
  <2> HIDE DEF e
  <2> QED BY <1>5, CompactType DEF Compact, BufSet
<1> HIDE DEF b, e
<1>7. buf'[s].data = buf[s].data \o d /\ buf'[s].cap = e.cap
  BY <1>1, <1>2, <1>3, <1>6 DEF BufSet
<1>8. Len(buf'[s].data) = Len(buf[s].data) + n
  <2>1. n \in Nat /\ fr.read + n <= fr.len
    BY <1>1, FrameTypes, Constants DEF Receiving
  <2>2. d \in Seq(Bytes) /\ Len(d) = n
    BY <2>1, FrameTypes, RunPayload DEF Piece, IInv
  <2> QED BY <1>3, <1>7, <2>2, ConcatProperties DEF BufSet
<1>9. Received(n) BY <1>1, Constants, ReceivedFrame
<1>10. fr'.len = fr.len /\ fr'.read = fr.read + n /\ fr'.target = s
  BY <1>9 DEF Received
<1>11. PICK c \in Nat, k \in Nat, l \in Nat, m \in Nat, r \in Nat :
         /\ c = buf[s].cap /\ k = e.cap /\ l = Len(buf[s].data) /\ m = fr.len /\ r = fr.read
  BY <1>2, <1>5, RowTypes, FrameTypes DEF BufSet
<1>12. c - l >= m - r /\ k >= c /\ n \in Nat
  <2>1. Spare(s) >= fr.len - fr.read BY <1>1 DEF Roomy
  <2> QED BY <1>5, <1>11, <2>1, Constants DEF Spare
<1>13. k - (l + n) >= m - (r + n) BY <1>12
<1>14. buf'[s].cap = k /\ Len(buf'[s].data) = l + n /\ fr'.len = m /\ fr'.read = r + n
  BY <1>7, <1>8, <1>10, <1>11
<1> QED BY <1>10, <1>13, <1>14 DEF Roomy, Spare

\* A frame whose next bytes are asked for, with no direct payload in a buffer.
LEMMA SettledRoomy ==
  ASSUME Roomy, IInv, IInv', Streamed,
         ReadAgain \/ \E n \in 1 .. MaxFrame : ReadDeferred(n) \/ ReadPlain(n)
  PROVE  Roomy'
<1>1. CASE ReadAgain
  <2>1. fr' = Settled /\ UNCHANGED <<st, buf>> BY <1>1 DEF ReadAgain, streamVars, dataVars
  <2>2. /\ fr'.target = fr.target /\ fr'.len = fr.len /\ fr'.read = fr.read
        /\ (fr'.direct => fr.direct)
        /\ (Storing => fr'.deferred = fr.deferred)
    BY <2>1, FrameTypes DEF Settled, FrameSet
  <2>3. Storing' => Storing BY <2>1, <2>2 DEF Storing, TargetIn
  <2>4. CASE ~Storing BY <2>3, <2>4 DEF Roomy
  <2>5. CASE Storing BY <2>1, <2>2, <2>3, <2>5, RoomyStill
  <2> QED BY <2>4, <2>5
<1>2. ASSUME NEW n \in 1 .. MaxFrame, ReadDeferred(n) \/ ReadPlain(n)
      PROVE  Roomy'
  <2>1. fr' = [Settled EXCEPT !.read = @ + n] /\ UNCHANGED <<st, buf>>
    BY <1>2 DEF ReadDeferred, ReadPlain, streamVars, dataVars
  <2>2. ~Storing \/ fr.deferred \/ (~fr.direct /\ ~fr.deferred)
    BY <1>2 DEF ReadDeferred, ReadPlain
  <2>3. /\ fr'.target = fr.target
        /\ (fr'.direct => fr.direct)
        /\ (Storing => fr'.deferred = fr.deferred)
    BY <2>1, FrameTypes DEF Settled, FrameSet
  <2>4. Storing' => Storing BY <2>1, <2>3 DEF Storing, TargetIn
  <2> QED BY <2>2, <2>3, <2>4 DEF Roomy
<1> QED BY <1>1, <1>2

LEMMA HeaderRoomy ==
  ASSUME Roomy, IInv, IInv', Streamed,
         Recheck \/ \E k \in {"PSH", "NEW", "KEEP", "END"}, s \in Streams,
                      n \in 0 .. MaxFrame : ReadHeader(k, s, n)
  PROVE  Roomy'
<1>1. CASE Recheck
  <2>1. PICK f : f = [fr EXCEPT !.blocked = FALSE] OBVIOUS
  <2>2. /\ f \in FrameSet /\ f.len = fr.len /\ fr.len <= MaxFrame /\ f.read = fr.read
        /\ f.target = fr.target /\ f.direct = fr.direct /\ f.deferred = fr.deferred
    BY <2>1, FrameTypes DEF FrameSet
  <2>3. fr.target \in Streams /\ fr.read = 0
    BY <1>1, FrameTypes DEF Recheck, MustPrepare, TargetIn
  <2>4. Prepare(f, fr.target) /\ UNCHANGED <<st, pend>>
    BY <1>1, <2>1 DEF Recheck
  <2> QED BY <2>2, <2>3, <2>4, PrepareRoomy
<1>2. ASSUME NEW k \in {"PSH", "NEW", "KEEP", "END"}, NEW s \in Streams,
             NEW n \in 0 .. MaxFrame, ReadHeader(k, s, n)
      PROVE  Roomy'
  <2> DEFINE live == k # "NEW" /\ s \in Live
             base == IF live THEN sent[s] ELSE 0
  <2>1. PICK f : f = [NoFrame EXCEPT !.kind = k, !.sid = s, !.len = n, !.base = base]
    OBVIOUS
  <2>2. /\ UNCHANGED <<st, pend>>
        /\ Prepare(f, s) \/ fr' = f
    BY <1>2, <2>1 DEF ReadHeader
  <2>3. base \in Nat /\ n \in Nat /\ n <= MaxFrame
    BY RowTypes, Constants
  <2> HIDE DEF base
  <2>4. f \in FrameSet /\ f.len = n /\ ~f.direct /\ f.read = 0
    BY <2>1, <2>3 DEF FrameSet, NoFrame
  <2>5. CASE fr' = f BY <2>4, <2>5, RoomyGone
  <2>6. CASE Prepare(f, s) BY <2>2, <2>3, <2>4, <2>6, PrepareRoomy
  <2> QED BY <2>2, <2>5, <2>6
<1> QED BY <1>1, <1>2

LEMMA NoFrameRoomy == fr' = NoFrame => Roomy'
BY RoomyGone DEF NoFrame

\* Request bytes are fed to a stream with nothing in its buffer.
LEMMA FeedRequestRoomy ==
  ASSUME Roomy, IInv, IInv', FeedRequest
  PROVE  Roomy'
<1>1. /\ TargetIn({"request"}) /\ fr.target \in Streams /\ UNCHANGED buf
      /\ \E n : fr' = [fr EXCEPT !.feed = @ + n]
  BY FrameTypes DEF FeedRequest, TargetIn
<1>2. /\ fr'.target = fr.target /\ fr'.direct = fr.direct /\ fr'.deferred = fr.deferred
      /\ fr'.len = fr.len /\ fr'.read = fr.read
  BY <1>1, FrameTypes DEF FrameSet
<1>3. Storing BY <1>1 DEF Storing, TargetIn
<1> QED BY <1>1, <1>2, <1>3, RoomyStill

\* Each step keeps the room.
LEMMA NextRoomy ==
  ASSUME Roomy, IInv, IInv', Streamed, Duties, [Next]_vars
  PROVE  Roomy'
<1>1. CASE Event
  <2>1. CASE PostedRead \/ ClientReady \/ \E s \in Streams : PeerEvent(s)
    BY <2>1, RoomyIdle DEF PostedRead, ClientReady, PeerEvent, streamVars, dataVars
  <2>2. ASSUME NEW s \in Streams, Opened(s) PROVE Roomy'
    <3>1. st[s] = "opening" /\ st' = [st EXCEPT ![s] = "proxy"] /\ UNCHANGED <<buf, fr>>
      BY <2>2 DEF Opened, dataVars
    <3>2. Storing' => Storing
      BY <3>1, FrameTypes DEF Storing, TargetIn, IInv, StreamsOK
    <3> QED BY <3>1, <3>2, RoomyStill
  <2>3. ASSUME NEW s \in Streams, ConnectFailed(s) \/ ResolveFailed(s) \/ PeerTimeout(s)
        PROVE  Roomy'
    BY <2>3, CloseRoomy DEF ConnectFailed, ResolveFailed, PeerTimeout
  <2> QED BY <1>1, <2>1, <2>2, <2>3 DEF Event
<1>2. CASE Relay
  <2>1. CASE FlushEnd \/ ProcessHead \/ SendAgain \/ SendBusy \/ DrainEnd
    BY <2>1, RoomyIdle DEF FlushEnd, ProcessHead, SendAgain, SendBusy, DrainEnd,
         streamVars, dataVars
  <2>2. ASSUME NEW s \in Streams, FlushFin(s) PROVE Roomy'
    <3>1. Reap(s) \/ UNCHANGED <<st, buf, fr>> BY <2>2 DEF FlushFin, dataVars
    <3> QED BY <3>1, ReapRoomy, RoomyIdle
  <2>3. CASE ProcessEnd
    <3>1. /\ UNCHANGED <<st, buf>> /\ fr' \in {fr, Reentered}
      BY <2>3 DEF ProcessEnd, streamVars, dataVars
    <3>2. /\ fr'.target = fr.target /\ fr'.direct = fr.direct
          /\ fr'.deferred = fr.deferred /\ fr'.len = fr.len /\ fr'.read = fr.read
      BY <3>1, FrameTypes DEF Reentered, FrameSet
    <3>3. Storing' => Storing BY <3>1, <3>2 DEF Storing, TargetIn
    <3> QED BY <3>1, <3>2, <3>3, RoomyStill
  <2>4. CASE SendDone \/ \E n \in 1 .. Budget : Send(n) BY <2>4, SendRoomy
  <2>5. CASE SendError \/ ProcessTail
    <3>1. PICK s \in Streams : s = cur
      BY <2>5 DEF IInv, HandlerOK, SendError, Sending, ProcessTail
    <3>2. Close(s) \/ UNCHANGED <<st, buf, fr>>
      BY <2>5, <3>1 DEF SendError, ProcessTail, dataVars
    <3> QED BY <3>2, CloseRoomy, RoomyIdle
  <2>6. ASSUME NEW c \in 1 .. MaxFrame, Drain(c) PROVE Roomy' BY <2>6, DrainRoomy
  <2> QED BY <1>2, <2>1, <2>2, <2>3, <2>4, <2>5, <2>6 DEF Relay
<1>3. CASE ReadLoop
  <2>1. CASE ReadAgain \/ \E n \in 1 .. MaxFrame : ReadDeferred(n) \/ ReadPlain(n)
    BY <2>1, SettledRoomy
  <2>2. CASE ReadYield BY <2>2, RoomyIdle DEF ReadYield, streamVars, dataVars
  <2>3. CASE HandleStored \/ \E s \in Streams : ReadSyn(s) \/ ReadFin(s)
    BY <2>3, NoFrameRoomy DEF HandleStored, ReadSyn, ReadFin, NextFrame
  <2>4. CASE Recheck \/ \E k \in {"PSH", "NEW", "KEEP", "END"}, s \in Streams,
                          n \in 0 .. MaxFrame : ReadHeader(k, s, n)
    BY <2>4, HeaderRoomy
  <2>5. ASSUME NEW n \in 1 .. MaxFrame, ReadDirect(n) PROVE Roomy'
    BY <2>5, ReadDirectRoomy
  <2>6. CASE FeedRequest BY <2>6, FeedRequestRoomy
  <2>7. CASE FeedData \/ HandleNew
    <3>1. \/ fr' = NoFrame
          \/ fr' = [fr EXCEPT !.blocked = TRUE] /\ UNCHANGED <<st, buf>>
      BY <2>7 DEF FeedData, HandleNew, NextFrame
    <3>2. CASE fr' = [fr EXCEPT !.blocked = TRUE] /\ UNCHANGED <<st, buf>>
      <4>1. /\ fr'.target = fr.target /\ fr'.direct = fr.direct
            /\ fr'.deferred = fr.deferred /\ fr'.len = fr.len /\ fr'.read = fr.read
        BY <3>2, FrameTypes DEF FrameSet
      <4>2. Storing' => Storing BY <3>2, <4>1 DEF Storing, TargetIn
      <4> QED BY <3>2, <4>1, <4>2, RoomyStill
    <3> QED BY <3>1, <3>2, NoFrameRoomy
  <2> QED BY <1>3, <2>1, <2>2, <2>3, <2>4, <2>5, <2>6, <2>7 DEF ReadLoop
<1>4. CASE SessionEnd BY <1>4, NoFrameRoomy DEF SessionEnd
<1>5. CASE UNCHANGED vars BY <1>5, RoomyIdle DEF vars, streamVars, dataVars
<1> QED BY <1>1, <1>2, <1>3, <1>4, <1>5 DEF Next, Ended

\* Room that was kept is room for the next piece.
LEMMA RoomyFits ==
  ASSUME Roomy, IInv
  PROVE  DirectFits
<1> SUFFICES ASSUME Storing, fr.direct, ~fr.deferred
             PROVE  Room(Compact(Ensure(buf[fr.target], fr.len - fr.read)))
                      >= fr.len - fr.read
  BY DEF DirectFits
<1>1. PICK s \in Streams : s = fr.target BY FrameTypes DEF Storing
<1>2. buf[s] \in BufSet /\ BufFits(buf[s]) BY DEF IInv, BuffersOK
<1>3. fr.len - fr.read \in 0 .. MaxFrame BY FrameTypes, Constants
<1>4. PICK e : e = Ensure(buf[s], fr.len - fr.read) OBVIOUS
<1>5. e \in BufSet /\ e.data = buf[s].data /\ e.cap >= buf[s].cap
  BY <1>2, <1>3, <1>4, EnsureType, EnsureGrows
<1>6. Room(Compact(e)) = e.cap - Len(e.data)
  <2>1. e.cap \in Nat /\ Len(e.data) \in Nat BY <1>5, LenProperties DEF BufSet
  <2>2. /\ Compact(e).cap = e.cap /\ Compact(e).off = 0 /\ Compact(e).data = e.data
    BY <1>5 DEF Compact, BufSet
  <2> QED BY <2>1, <2>2 DEF Room
<1>7. PICK c \in Nat, k \in Nat, l \in Nat : c = buf[s].cap /\ k = e.cap /\ l = Len(e.data)
  BY <1>5, RowTypes DEF BufSet
<1>8. c - l >= fr.len - fr.read
  BY <1>1, <1>5, <1>7 DEF Roomy, Spare
<1>9. k - l >= fr.len - fr.read BY <1>3, <1>5, <1>7, <1>8
<1> QED BY <1>1, <1>4, <1>6, <1>7, <1>9

\* Under either read loop, a payload that was admitted finds the room and the
\* tokens for its rest, stored bytes stay in order, tokens are conserved and no
\* wake-up is lost (prepare_client_payload, mux_cool_read_client).
THEOREM PayloadsSafe == IsFiniteSet(Streams) => (Spec => []CoolPayloads)
<1> SUFFICES ASSUME IsFiniteSet(Streams) PROVE Spec => []CoolPayloads OBVIOUS
<1>1. Init => Roomy BY DEF Init, Roomy, NoFrame, Storing
<1>2. Roomy /\ IInv /\ IInv' /\ Streamed /\ Duties /\ [Next]_vars => Roomy'
  BY NextRoomy
<1>3. Roomy /\ IInv => DirectFits BY RoomyFits
<1>4. StreamFifo => InOrder BY DEF StreamFifo
<1>5. Spec => []TokenConservation BY TokensConserved
<1>6. DirectFits /\ InOrder /\ TokenConservation /\ NoLostResume => CoolPayloads
  BY Zenon DEF CoolPayloads
<1> QED
  BY <1>1, <1>2, <1>3, <1>4, <1>5, <1>6, SpecDuties, StreamsAreQueues, WakeUpSafe,
     PTL DEF Spec
=============================================================================
