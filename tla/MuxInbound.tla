----------------------------- MODULE MuxInbound -----------------------------
(***************************************************************************)
(* The client-to-upstream half of one mux session of                       *)
(* ngx_stream_trojan_module: frames read from the client connection are    *)
(* stored in per-stream buffers against a session-wide token bucket, and   *)
(* each stream's bytes are written to its upstream connection.             *)
(*                                                                         *)
(* nginx runs one event handler at a time to completion.  pc is "idle"     *)
(* between handlers and names the point reached inside one: every step of  *)
(* a handler is an action here, and no event is delivered before it ends.  *)
(*                                                                         *)
(* A payload byte is the number of its place in its stream, so order, loss *)
(* and duplication show.  The response direction is reduced to what this   *)
(* half depends on: upstream end of file, and the FIN the stream owes the  *)
(* client (MuxOutbound has the rest).  The chunks of the pending-frame     *)
(* list are one byte sequence: their boundaries are chosen when drained.   *)
(***************************************************************************)
EXTENDS Integers, Sequences, FiniteSets

CONSTANTS
  Streams,     \* stream identifiers the client uses
  NoStream,    \* the NULL stream pointer
  Cool,        \* TRUE: Mux.Cool session, FALSE: smux (raw or sing-mux)
  Socks5,      \* TRUE: streams leave by a SOCKS5 outbound; FALSE: direct
  MaxStreams,  \* NGX_STREAM_TROJAN_MUX_MAX_STREAMS
  MaxRecv,     \* NGX_STREAM_TROJAN_MUX_MAX_RECEIVE_BUFFER
  MaxBuf,      \* NGX_STREAM_TROJAN_MUX_MAX_STREAM_BUFFER
  MaxFrame,    \* NGX_STREAM_TROJAN_MUX_MAX_FRAME_SIZE
  BufSize,     \* conf->buffer_size
  ReqLen,      \* length of a stream's target request (smux)
  MaxLoops,    \* NGX_STREAM_TROJAN_RELAY_MAX_LOOPS
  Budget,      \* relay_limit: bytes sent upstream per queue pass
  MaxData      \* bound: bytes the client sends on one stream

ASSUME ConstantsAssumption ==
  /\ NoStream \notin Streams
  /\ Cool \in BOOLEAN
  /\ Socks5 \in BOOLEAN
  /\ {MaxStreams, MaxRecv, MaxBuf, MaxFrame, BufSize, ReqLen,
      MaxLoops, Budget, MaxData} \subseteq Nat \ {0}
  /\ MaxFrame <= MaxBuf
  /\ MaxFrame <= MaxRecv

VARIABLES
  pc,         \* the point reached in the running handler, or "idle"/"done"
  ret,        \* where process_stream returns to
  cur,        \* the stream process_stream runs on
  drained,    \* drain_pending_frames moved something
  budget,     \* send_budget left
  loops,      \* frames handled in this run of the read loop
  posted,     \* the client read event is in a posted queue
  cw,         \* FALSE: the last flush stopped with a FIN left to send, and
              \* the client's write event is armed or posted for it
  st,         \* stream->state; "opening" is resolving, connecting, socks5
  req,        \* stream->request_len
  buf,        \* stream->client_buffer; cap = 0 is the NULL pointer
  pend,       \* stream->pending_frames
  sent,       \* bytes of the stream in the frames read so far (history)
  up,         \* the number of bytes written to the upstream (history)
  clientFin,  \* stream->client_fin
  wrShut,     \* stream->upstream_write_shutdown
  upEof,      \* stream->upstream_eof
  finSent,    \* stream->fin_sent
  upFull,     \* the last send to the upstream returned NGX_AGAIN
  procQ,      \* ctx->mux_process_queue
  tokens,     \* ctx->mux_recv_tokens
  fr          \* the client frame in progress

handlerVars == <<pc, ret, cur, drained, budget, loops>>
dataVars    == <<req, buf, pend, sent, up>>
endVars     == <<clientFin, wrShut, upEof, finSent, upFull>>
streamVars  == <<st, dataVars, endVars>>
vars == <<handlerVars, posted, cw, streamVars, procQ, tokens, fr>>

----------------------------------------------------------------------------
Smaller(a, b) == IF a < b THEN a ELSE b
Larger(a, b)  == IF a > b THEN a ELSE b

Bytes  == 1..MaxData
NoBuf  == [data |-> <<>>, off |-> 0, cap |-> 0]
BufSet == [data : Seq(Bytes), off : Nat, cap : Nat]

\* A frame's flags are the ctx->mux_payload_* fields of the same names;
\* base is the number of stream bytes that precede the payload.
NoFrame == [kind |-> "none", sid |-> NoStream, len |-> 0, base |-> 0,
            read |-> 0, feed |-> 0, target |-> NoStream, direct |-> FALSE,
            checked |-> FALSE, blocked |-> FALSE, deferred |-> FALSE]
FrameSet == [kind : {"none", "PSH", "NEW", "KEEP", "END"},
             sid : Streams \cup {NoStream}, len : Nat, base : Nat,
             read : Nat, feed : Nat, target : Streams \cup {NoStream},
             direct : BOOLEAN, checked : BOOLEAN, blocked : BOOLEAN,
             deferred : BOOLEAN]

\* The payload bytes of the frame from offset k on, as stream bytes.
Payload(k) == [i \in 1..(fr.len - k) |-> fr.base + k + i]

Live == {s \in Streams : st[s] # "absent"}
Held(s) == Len(buf[s].data) + Len(pend[s])
Request == IF Cool THEN 0 ELSE ReqLen
Room(b) == b.cap - b.off - Len(b.data)
Compact(b) == [b EXCEPT !.off = 0]

\* ngx_stream_trojan_mux_ensure_client_buffer: the buffer after room for
\* len more bytes was asked for; it may stay too small.
Ensure(b, len) ==
  LET size     == Larger(Smaller(BufSize, MaxBuf), len)
      buffered == Len(b.data)
      required == Larger(buffered + len, size)
  IN IF b.cap = 0 THEN [NoBuf EXCEPT !.cap = size]
     ELSE IF \/ buffered > 0 /\ (buffered > len \/ buffered > MaxBuf - len)
             \/ b.cap >= (IF buffered > 0 THEN required ELSE size)
          THEN b
     ELSE LET need == IF buffered > 0 THEN required ELSE size
          IN [data |-> b.data, off |-> 0,
              cap  |-> IF need < 2 * b.cap THEN Smaller(2 * b.cap, MaxBuf)
                       ELSE need]

\* stream_can_accept once the tokens suffice: the buffer it leaves behind.
Accepting(b, len) ==
  LET e == Ensure(b, len) IN IF Room(e) >= len THEN e ELSE Compact(e)

\* Whether the bytes may be appended to buffer b of s; else they go behind
\* its pending frames.  Faults: no look at the room, or at the list.
FitsAnyRoom(s, b, n)     == pend[s] = <<>>
FitsPastPending(s, b, n) == Room(b) >= n
Fits(s, b, n)            == pend[s] = <<>> /\ Room(b) >= n

\* The token bucket.  Faults: admission on any token at all; a clamp that
\* stops one short of the limit.
AnyTokens(n)      == tokens > 0
Enough(n)         == tokens >= n
Take(t, n)        == IF t > n THEN t - n ELSE 0
RefundBelow(t, n) == IF t >= MaxRecv - n THEN MaxRecv - 1 ELSE t + n
Refund(t, n)      == IF t > MaxRecv - n THEN MaxRecv ELSE t + n

ClientBlocked == fr.kind # "none" /\ fr.len # 0 /\ fr.blocked
Needed == IF fr.feed < fr.len THEN fr.len - fr.feed ELSE fr.len
\* client_blocked_ready, with t tokens in the bucket
BlockedReady(t) ==
  ClientBlocked /\ (IF fr.deferred THEN t # 0 ELSE t >= Needed)
BlockedOn(s) == fr.target = s /\ ClientBlocked

\* return_recv_tokens, with t tokens afterwards: the client read is posted
\* if its frame can go on.  Fault: it is not.
ResumedNever(t) == posted
Resumed(t)      == posted \/ BlockedReady(t)

\* queue_process: once per stream, never for a closing one
Queued(q, s) == \E i \in 1..Len(q) : q[i] = s
QueueProcess(q, s) ==
  IF Queued(q, s) \/ st[s] = "closing" THEN q ELSE Append(q, s)
Unqueue(q, s) ==
  IF ~Queued(q, s) THEN q
  ELSE LET i == CHOOSE i \in 1..Len(q) : q[i] = s
       IN SubSeq(q, 1, i - 1) \o SubSeq(q, i + 1, Len(q))

Init ==
  /\ pc = "idle"
  /\ ret = "idle" /\ cur = NoStream /\ drained = FALSE
  /\ budget = 0 /\ loops = 0 /\ posted = FALSE /\ cw = TRUE
  /\ st = [s \in Streams |-> "absent"]
  /\ req = [s \in Streams |-> 0]
  /\ buf = [s \in Streams |-> NoBuf]
  /\ pend = [s \in Streams |-> <<>>]
  /\ sent = [s \in Streams |-> 0]
  /\ up = [s \in Streams |-> 0]
  /\ clientFin = [s \in Streams |-> FALSE]
  /\ wrShut = [s \in Streams |-> FALSE]
  /\ upEof = [s \in Streams |-> FALSE]
  /\ finSent = [s \in Streams |-> FALSE]
  /\ upFull = [s \in Streams |-> FALSE]
  /\ procQ = <<>>
  /\ tokens = MaxRecv
  /\ fr = NoFrame

----------------------------------------------------------------------------
(* Closing a stream.                                                       *)

\* cleanup_stream past its early returns: tokens of unsent bytes go back,
\* the stream leaves the queues and the table, and a frame being read for
\* it loses its target and resumes the client.
Reap(s) ==
  /\ st' = [st EXCEPT ![s] = "absent"]
  /\ req' = [req EXCEPT ![s] = 0]
  /\ buf' = [buf EXCEPT ![s] = NoBuf]
  /\ pend' = [pend EXCEPT ![s] = <<>>]
  /\ sent' = [sent EXCEPT ![s] = 0]
  /\ up' = [up EXCEPT ![s] = 0]
  /\ clientFin' = [clientFin EXCEPT ![s] = FALSE]
  /\ wrShut' = [wrShut EXCEPT ![s] = FALSE]
  /\ upEof' = [upEof EXCEPT ![s] = FALSE]
  /\ finSent' = [finSent EXCEPT ![s] = FALSE]
  /\ upFull' = [upFull EXCEPT ![s] = FALSE]
  /\ procQ' = Unqueue(procQ, s)
  /\ tokens' = Refund(tokens, Held(s))
  /\ posted' = (fr.target = s \/ Resumed(tokens'))
  /\ fr' = IF fr.target = s
           THEN [fr EXCEPT !.target = NoStream, !.direct = FALSE,
                           !.checked = FALSE, !.blocked = FALSE,
                           !.deferred = FALSE, !.feed = 0]
           ELSE fr

\* What close_stream does to a stream whose FIN is still to be sent.
Shut(s) ==
  /\ st' = [st EXCEPT ![s] = "closing"]
  /\ upEof' = [upEof EXCEPT ![s] = TRUE]
  /\ clientFin' = [clientFin EXCEPT ![s] = TRUE]

\* close_stream: the stream stays until its FIN is flushed, unless the FIN
\* went out earlier.
Close(s) ==
  IF finSent[s] THEN Reap(s)
  ELSE /\ Shut(s)
       /\ UNCHANGED <<dataVars, wrShut, finSent, upFull, procQ, tokens,
                      posted, fr>>

----------------------------------------------------------------------------
(* Events: each one starts a handler.                                      *)

\* The posted read event of the client is delivered to read_client.
PostedRead ==
  /\ pc = "idle" /\ posted
  /\ posted' = FALSE
  /\ pc' = "flush" /\ ret' = "proc1" /\ loops' = 0
  /\ UNCHANGED <<cur, drained, budget, cw, streamVars, procQ, tokens, fr>>

\* The kernel reports the client connection readable or writable.
ClientReady ==
  /\ pc = "idle"
  /\ pc' = "flush" /\ ret' = "proc1" /\ loops' = 0
  /\ UNCHANGED <<cur, drained, budget, posted, cw, streamVars, procQ, tokens, fr>>

\* process_stream is about to run on s and to return to r.
StartProcess(s, r) ==
  /\ pc' = "send" /\ ret' = r /\ cur' = s /\ drained' = FALSE

\* The upstream connection, or the SOCKS5 exchange on it, is established:
\* init_proxy.  mux_peer_handler and mux_connect flush nothing afterwards,
\* mux_socks5_handler does.
Opened(s) ==
  /\ pc = "idle" /\ st[s] = "opening"
  /\ st' = [st EXCEPT ![s] = "proxy"]
  /\ posted' = (posted \/ BlockedOn(s))
  /\ StartProcess(s, IF Socks5 THEN "flush" ELSE "idle")
  /\ budget' = Budget
  /\ UNCHANGED <<loops, cw, dataVars, endVars, procQ, tokens, fr>>

\* Fault: the failure is not followed by a flush.
ConnectFailedQuietly(s) ==
  /\ pc = "idle" /\ st[s] = "opening"
  /\ Close(s)
  /\ UNCHANGED <<handlerVars, cw>>

\* Connecting, or the SOCKS5 exchange, failed or timed out: close_stream,
\* then flush_client.
ConnectFailed(s) ==
  /\ pc = "idle" /\ st[s] = "opening"
  /\ Close(s)
  /\ pc' = "flush" /\ ret' = "idle"
  /\ UNCHANGED <<cur, drained, budget, loops, cw>>

\* The resolver or the DoH client reported a failure, or the connection to
\* the address it found is refused at once: close_stream, nothing else.
ResolveFailed(s) ==
  /\ ~Socks5
  /\ pc = "idle" /\ st[s] = "opening"
  /\ Close(s)
  /\ UNCHANGED <<handlerVars, cw>>

\* An upstream event other than a timeout: process_stream, then flush.
PeerEvent(s) ==
  /\ pc = "idle" /\ st[s] = "proxy"
  /\ posted' = (posted \/ BlockedOn(s))
  /\ StartProcess(s, "flush")
  /\ budget' = Budget
  /\ UNCHANGED <<loops, cw, streamVars, procQ, tokens, fr>>

\* The upstream idle timer fired.
PeerTimeout(s) ==
  /\ pc = "idle" /\ st[s] = "proxy"
  /\ Close(s)
  /\ pc' = "flush" /\ ret' = "idle"
  /\ UNCHANGED <<cur, drained, budget, loops, cw>>

----------------------------------------------------------------------------
(* flush_client, reduced to the FIN each stream owes.                      *)

\* Fault: a closing stream is passed over.
OwesOpen(s) == ~finSent[s] /\ st[s] = "proxy" /\ upEof[s]
Owes(s) == /\ ~finSent[s]
           /\ st[s] \in {"closing", "proxy"} /\ upEof[s]

\* The FIN of s goes out; a closing stream is then cleaned up.
FlushFin(s) ==
  /\ pc = "flush" /\ Owes(s)
  /\ IF st[s] = "closing" THEN Reap(s)
     ELSE /\ finSent' = [finSent EXCEPT ![s] = TRUE]
          /\ UNCHANGED <<st, dataVars, clientFin, wrShut, upEof, upFull,
                         procQ, tokens, posted, fr>>
  /\ UNCHANGED <<handlerVars, cw>>

\* The flush is over, because nothing is left to send, the client's socket
\* is full or the byte limit is reached: on to the queue pass, or the
\* handler returns.
FlushEnd ==
  /\ pc = "flush"
  /\ cw' = \A s \in Streams : ~Owes(s)
  /\ IF ret = "proc1" THEN pc' = "proc1" /\ budget' = Budget
     ELSE pc' = "idle" /\ budget' = 0
  /\ ret' = "idle"
  /\ UNCHANGED <<cur, drained, loops, posted, streamVars, procQ, tokens,
                 fr>>

----------------------------------------------------------------------------
(* process_queued_streams and process_stream.                              *)

\* process_stream returns.  Locals of a handler are cleared when they die,
\* so that states do not differ in them.
EndProcess ==
  /\ pc' = ret /\ ret' = "idle" /\ cur' = NoStream /\ drained' = FALSE
  /\ budget' = IF ret = "idle" THEN 0 ELSE budget

\* Mux.Cool prepares an untouched payload again whenever it is re-entered.
Reentered == IF Cool /\ fr.read = 0 THEN [fr EXCEPT !.checked = FALSE] ELSE fr

\* The queue pass is over: on to the read loop, or to the second flush.
ProcessEnd ==
  /\ pc \in {"proc1", "proc2"}
  /\ budget = 0 \/ procQ = <<>>
  /\ posted' = (posted \/ procQ # <<>>)
  /\ budget' = 0
  /\ \/ pc = "proc1" /\ pc' = "read" /\ fr' = Reentered
     \/ pc = "proc2" /\ pc' = "flush" /\ UNCHANGED fr
  /\ UNCHANGED <<ret, cur, drained, loops, cw, streamVars, procQ, tokens>>

\* The head of the queue is processed; only a proxying stream has work.
ProcessHead ==
  /\ pc \in {"proc1", "proc2"}
  /\ budget > 0 /\ procQ # <<>>
  /\ procQ' = Tail(procQ)
  /\ IF st[Head(procQ)] = "proxy" THEN StartProcess(Head(procQ), pc)
     ELSE UNCHANGED <<pc, ret, cur, drained>>
  /\ UNCHANGED <<budget, loops, posted, cw, streamVars, tokens, fr>>

\* flush_to_upstream: the upstream accepts n bytes and their tokens return.
Send(n) ==
  /\ pc = "send"
  /\ n <= Smaller(Len(buf[cur].data), budget)
  /\ buf' = [buf EXCEPT ![cur].data = SubSeq(@, n + 1, Len(@)),
                        ![cur].off = @ + n]
  /\ up' = [up EXCEPT ![cur] = @ + n]
  /\ upFull' = [upFull EXCEPT ![cur] = FALSE]
  /\ tokens' = Refund(tokens, n)
  /\ posted' = Resumed(tokens')
  /\ budget' = budget - n
  /\ UNCHANGED <<pc, ret, cur, drained, loops, cw, st, req, pend, sent,
                 clientFin, wrShut, upEof, finSent, procQ, fr>>

Sending == pc = "send" /\ buf[cur].data # <<>>

\* The send fails: the stream is closed.
SendError ==
  /\ Sending /\ budget > 0
  /\ Close(cur)
  /\ EndProcess
  /\ UNCHANGED <<loops, cw>>

\* The upstream socket is full: the armed write event will resume.
SendAgain ==
  /\ Sending /\ budget > 0
  /\ upFull' = [upFull EXCEPT ![cur] = TRUE]
  /\ pc' = "tail"
  /\ UNCHANGED <<ret, cur, drained, budget, loops, posted, cw, st, dataVars,
                 clientFin, wrShut, upEof, finSent, procQ, tokens, fr>>

\* Fault: the stream is not queued again.
SendBusyForgets ==
  /\ Sending /\ budget = 0
  /\ posted' = (posted \/ ret \in {"idle", "flush"})
  /\ EndProcess
  /\ UNCHANGED <<loops, cw, streamVars, procQ, tokens, fr>>

\* NGX_BUSY: the budget is spent, the stream goes to the end of the queue
\* and a client read is posted (by the peer handler, or by ProcessEnd).
SendBusy ==
  /\ Sending /\ budget = 0
  /\ procQ' = QueueProcess(procQ, cur)
  /\ posted' = (posted \/ ret \in {"idle", "flush"})
  /\ EndProcess
  /\ UNCHANGED <<loops, cw, streamVars, tokens, fr>>

\* The upstream is half-closed.  A stream without a client buffer returned
\* before this: its client FIN is not passed on here.  Fault: without a look
\* at the pending frames.
HalfClosesEarly(s) == clientFin[s] /\ buf[s].cap > 0
HalfCloses(s)      == clientFin[s] /\ buf[s].cap > 0 /\ pend[s] = <<>>

\* Everything buffered was sent.
SendDone ==
  /\ pc = "send" /\ buf[cur].data = <<>>
  /\ buf' = [buf EXCEPT ![cur].off = 0]
  /\ wrShut' = [wrShut EXCEPT ![cur] = wrShut[cur] \/ HalfCloses(cur)]
  /\ pc' = "drain" /\ drained' = FALSE
  /\ UNCHANGED <<ret, cur, budget, loops, posted, cw, st, req, pend, sent, up,
                 clientFin, upEof, finSent, upFull, procQ, tokens, fr>>

\* drain_pending_frames: the head frame has c bytes left; what fits moves
\* to the client buffer.
Drain(c) ==
  LET e == Ensure(buf[cur], c)
      b == IF Room(e) = 0 THEN Compact(e) ELSE e
      n == Smaller(Room(b), c)
  IN /\ pc = "drain" /\ c <= Len(pend[cur])
     /\ buf' = [buf EXCEPT ![cur] =
                  [b EXCEPT !.data = @ \o SubSeq(pend[cur], 1, n)]]
     /\ pend' = [pend EXCEPT ![cur] = SubSeq(@, n + 1, Len(@))]
     /\ drained' = (drained \/ n > 0)
     /\ pc' = IF n = c THEN "drain" ELSE IF drained' THEN "send" ELSE "tail"
     /\ UNCHANGED <<ret, cur, budget, loops, posted, cw, st, req, sent, up,
                    endVars, procQ, tokens, fr>>

DrainEnd ==
  /\ pc = "drain" /\ pend[cur] = <<>>
  /\ pc' = IF drained THEN "send" ELSE "tail"
  /\ UNCHANGED <<ret, cur, drained, budget, loops, posted, cw, streamVars,
                 procQ, tokens, fr>>

\* The rest of process_stream: the upstream may be found at end of file; a
\* stream both sides have finished is closed.
ProcessTail ==
  /\ pc = "tail"
  /\ \E eof \in {upEof[cur], TRUE} :
       IF clientFin[cur] /\ wrShut[cur] /\ eof /\ finSent[cur]
       THEN Close(cur)
       ELSE /\ upEof' = [upEof EXCEPT ![cur] = eof]
            /\ posted' = Resumed(tokens)
            /\ UNCHANGED <<st, dataVars, clientFin, wrShut, finSent, upFull,
                           procQ, tokens, fr>>
  /\ EndProcess
  /\ UNCHANGED <<loops, cw>>

----------------------------------------------------------------------------
(* mux_read_client and mux_cool_read_client.                               *)

\* Queue pass and second flush follow the read loop.
LeaveRead == pc' = "proc2" /\ budget' = Budget /\ loops' = 0

\* The frame is finished; the loop may read another one.
NextFrame == fr' = NoFrame /\ loops' = loops + 1 /\ UNCHANGED <<pc, budget>>

\* Fault: no bound on the frames of one run.
AtAnyHeader == pc = "read" /\ fr.kind = "none"
AtHeader == pc = "read" /\ fr.kind = "none" /\ loops < MaxLoops

\* The frame's target exists and its state is one of S.
TargetIn(S) == fr.target # NoStream /\ st[fr.target] \in S

\* The target can still take payload bytes.
Storing == fr.target # NoStream /\ ~TargetIn({"closing"})

\* The frame's flags once its next bytes are asked for.
Settled == [fr EXCEPT !.blocked = FALSE, !.direct = @ /\ Storing,
                      !.deferred = @ /\ Storing]

\* A frame left waiting for tokens is prepared again on re-entry.
MustPrepare ==
  /\ fr.read = 0 /\ fr.len > 0 /\ ~fr.checked
  /\ TargetIn({"opening", "proxy"})

\* recv has nothing more: the handler goes on without it.
ReadAgain ==
  /\ pc = "read"
  /\ fr.kind = "none" \/ (fr.read < fr.len /\ ~MustPrepare)
  /\ fr' = Settled
  /\ LeaveRead
  /\ UNCHANGED <<ret, cur, drained, posted, cw, streamVars, procQ,
                 tokens>>

\* The loop stops after MaxLoops frames, or earlier on its byte limit; the
\* read event is posted if the connection has more.
ReadYield ==
  /\ pc = "read" /\ fr.kind = "none" /\ loops > 0
  /\ \E ready \in BOOLEAN : posted' = (posted \/ ready)
  /\ LeaveRead
  /\ UNCHANGED <<ret, cur, drained, cw, streamVars, procQ, tokens, fr>>

\* cmdSYN: a stream is created unless the id is in use.
ReadSyn(s) ==
  /\ AtHeader /\ ~Cool
  /\ Cardinality(Live) < MaxStreams \/ s \in Live
  /\ st' = [st EXCEPT ![s] = IF s \in Live THEN @ ELSE "request"]
  /\ NextFrame
  /\ UNCHANGED <<ret, cur, drained, posted, cw, dataVars, endVars, procQ,
                 tokens>>

\* The client sends nothing on a stream after its own FIN.
ClientOpen(s) == st[s] = "closing" \/ ~clientFin[s]

\* cmdFIN: before the request is complete the stream is closed.
ReadFin(s) ==
  /\ AtHeader /\ ~Cool /\ s \in Live /\ ClientOpen(s)
  /\ IF st[s] = "request" THEN Shut(s) /\ UNCHANGED procQ
     ELSE /\ clientFin' = [clientFin EXCEPT ![s] = TRUE]
          /\ procQ' = QueueProcess(procQ, s)
          /\ UNCHANGED <<st, upEof>>
  /\ NextFrame
  /\ UNCHANGED <<ret, cur, drained, posted, cw, dataVars, wrShut, finSent,
                 upFull, tokens>>

\* prepare_client_payload for frame f of the live stream s: the payload goes
\* straight to the stream's buffer, or behind its pending frames, or waits
\* for tokens.
Prepare(f, s) ==
  LET b      == Accepting(buf[s], f.len)
      direct == Fits(s, b, f.len)
  IN \/ /\ f.len = 0 \/ st[s] = "closing"
        /\ fr' = f
        /\ UNCHANGED <<pc, budget, loops, buf>>
     \/ /\ f.len > 0 /\ st[s] = "request"
        /\ fr' = [f EXCEPT !.target = s]
        /\ UNCHANGED <<pc, budget, loops, buf>>
     \/ /\ f.len > 0 /\ st[s] \in {"opening", "proxy"} /\ ~Enough(f.len)
        /\ fr' = [f EXCEPT !.target = s, !.blocked = TRUE]
        /\ LeaveRead
        /\ UNCHANGED buf
     \/ /\ f.len > 0 /\ st[s] \in {"opening", "proxy"} /\ Enough(f.len)
        /\ fr' = [f EXCEPT !.target = s, !.checked = TRUE,
                           !.direct = direct, !.deferred = @ \/ ~direct]
        /\ buf' = [buf EXCEPT ![s] = IF pend[s] = <<>> THEN b ELSE @]
        /\ UNCHANGED <<pc, budget, loops>>

\* The header of a frame with a payload of len bytes for stream s.
ReadHeader(kind, s, len) ==
  /\ AtHeader
  /\ kind \in IF Cool THEN {"NEW", "KEEP", "END"} ELSE {"PSH"}
  /\ ClientOpen(s)
  /\ LET live == kind # "NEW" /\ s \in Live
         base == IF live THEN sent[s] ELSE 0
         f == [NoFrame EXCEPT !.kind = kind, !.sid = s, !.len = len,
                              !.base = base]
     IN /\ base + len <= MaxData
        /\ sent' = [sent EXCEPT ![s] = IF live THEN @ + len ELSE @]
        /\ IF live THEN Prepare(f, s)
           ELSE fr' = f /\ UNCHANGED <<pc, budget, loops, buf>>
  /\ UNCHANGED <<ret, cur, drained, posted, cw, st, req, pend, up,
                 endVars, procQ, tokens>>

Recheck ==
  /\ pc = "read" /\ MustPrepare
  /\ Prepare([fr EXCEPT !.blocked = FALSE], fr.target)
  /\ UNCHANGED <<ret, cur, drained, posted, cw, st, req, pend, sent,
                 up, endVars, procQ, tokens>>

\* n more bytes of the payload can be received.
Receiving(n) == pc = "read" /\ ~MustPrepare /\ n <= fr.len - fr.read

\* read_client_payload, direct: n bytes arrive in the stream's own buffer.
ReadDirect(n) ==
  LET s == fr.target
      e == Ensure(buf[s], fr.len - fr.read)
      b == IF Room(e) = 0 THEN Compact(e) ELSE e
  IN /\ Receiving(n)
     /\ Storing /\ fr.direct /\ ~fr.deferred
     /\ n <= Room(b)
     /\ buf' = [buf EXCEPT ![s] =
                  [b EXCEPT !.data = @ \o SubSeq(Payload(fr.read), 1, n)]]
     /\ tokens' = Take(tokens, n)
     /\ procQ' = QueueProcess(procQ, s)
     /\ fr' = [Settled EXCEPT !.read = @ + n]
     /\ UNCHANGED <<handlerVars, posted, cw, st, req, pend, sent, up, endVars>>

\* read_deferred_payload: n bytes arrive behind the pending frames.
ReadDeferred(n) ==
  LET s == fr.target
  IN /\ Receiving(n)
     /\ Storing /\ fr.deferred
     /\ n <= tokens
     /\ pend' = [pend EXCEPT ![s] = @ \o SubSeq(Payload(fr.read), 1, n)]
     /\ tokens' = Take(tokens, n)
     /\ procQ' = QueueProcess(procQ, s)
     /\ fr' = [Settled EXCEPT !.read = @ + n]
     /\ UNCHANGED <<handlerVars, posted, cw, st, req, buf, sent, up, endVars>>

\* Any other payload is collected in ctx->mux_payload: that of a request,
\* of a NEW frame, of an unknown or of a closing stream.
ReadPlain(n) ==
  /\ Receiving(n)
  /\ ~(Storing /\ (fr.direct \/ fr.deferred))
  /\ fr' = [Settled EXCEPT !.read = @ + n]
  /\ UNCHANGED <<handlerVars, posted, cw, streamVars, procQ, tokens>>

FrameRead == pc = "read" /\ fr.kind # "none" /\ fr.read = fr.len

\* What start_stream may make of a new stream before it returns.
StartOutcomes ==
  IF Socks5 THEN {"opening", "closing"} ELSE {"opening", "proxy", "closing"}

\* The stream is put in state "to"; an upstream that is connected at once is
\* read at once and may be at end of file.
Start(s, to) ==
  /\ st' = [st EXCEPT ![s] = to]
  /\ clientFin' = [clientFin EXCEPT ![s] = @ \/ to = "closing"]
  /\ \E eof \in {to = "closing", to \in {"closing", "proxy"}} :
       upEof' = [upEof EXCEPT ![s] = eof]

\* feed_stream: request bytes of a smux stream.  A complete request is
\* parsed, routed and the upstream opened; it may be refused.
FeedRequest ==
  LET s == fr.target
      n == Smaller(ReqLen - req[s], fr.len - fr.feed)
  IN /\ FrameRead /\ fr.kind = "PSH"
     /\ TargetIn({"request"}) /\ fr.feed < fr.len
     /\ req' = [req EXCEPT ![s] = @ + n]
     /\ fr' = [fr EXCEPT !.feed = @ + n]
     /\ \E to \in StartOutcomes \cup {"request"} :
          (to = "request") = (req[s] + n < ReqLen) /\ Start(s, to)
     /\ UNCHANGED <<handlerVars, posted, cw, buf, pend, sent, up, wrShut,
                    finSent, upFull, procQ, tokens>>

\* append_client_data of the payload from offset k on to stream s.
AppendData(s, k) ==
  LET d == Payload(k)
      b == Accepting(buf[s], Len(d))
      fits == Fits(s, b, Len(d))
  IN IF d = <<>> THEN UNCHANGED <<buf, pend, tokens, procQ>>
     ELSE /\ buf' = [buf EXCEPT ![s] =
                IF fits THEN [b EXCEPT !.data = @ \o d]
                ELSE IF pend[s] = <<>> THEN b ELSE @]
          /\ pend' = [pend EXCEPT ![s] = IF fits THEN @ ELSE @ \o d]
          /\ tokens' = Take(tokens, Len(d))
          /\ procQ' = IF Queued(procQ, s) THEN procQ ELSE Append(procQ, s)

\* feed_stream: bytes that follow the request in the same frame.
FeedData ==
  LET s == fr.target
  IN /\ FrameRead /\ fr.kind = "PSH"
     /\ TargetIn({"opening", "proxy"}) /\ ~fr.direct /\ ~fr.deferred
     /\ fr.feed < fr.len
     /\ IF ~Enough(fr.len - fr.feed)
        THEN /\ fr' = [fr EXCEPT !.blocked = TRUE]
             /\ LeaveRead
             /\ UNCHANGED <<buf, pend, tokens, procQ>>
        ELSE AppendData(s, fr.feed) /\ NextFrame
     /\ UNCHANGED <<ret, cur, drained, posted, cw, st, req, sent, up, endVars>>

\* STATUS_NEW: the stream is created, routed and opened with its first data,
\* once there are tokens for all of it.
HandleNew ==
  LET s == fr.sid
  IN /\ FrameRead /\ fr.kind = "NEW"
     /\ s \notin Live /\ Cardinality(Live) < MaxStreams
     /\ IF ~Enough(fr.len)
        THEN /\ fr' = [fr EXCEPT !.blocked = TRUE]
             /\ LeaveRead
             /\ UNCHANGED <<st, sent, buf, pend, tokens, procQ, upEof, clientFin>>
        ELSE /\ sent' = [sent EXCEPT ![s] = fr.len]
             /\ NextFrame
             /\ \E to \in StartOutcomes :
                  /\ Start(s, to)
                  /\ IF to = "closing"
                     THEN UNCHANGED <<buf, pend, tokens, procQ>>
                     ELSE AppendData(s, 0)
     /\ UNCHANGED <<ret, cur, drained, posted, cw, req, up, wrShut, finSent,
                    upFull>>

\* Every other frame is complete: its bytes are stored already, or dropped.
\* STATUS_END also ends the client's side of the stream.
HandleStored ==
  LET s == fr.sid
  IN /\ FrameRead
     /\ \/ fr.kind \in {"KEEP", "END"}
        \/ fr.kind = "PSH" /\ (\/ fr.target = NoStream
                               \/ fr.direct \/ fr.deferred
                               \/ TargetIn({"closing"})
                               \/ fr.feed = fr.len)
     /\ clientFin' = [clientFin EXCEPT ![s] =
                        @ \/ (fr.kind = "END" /\ s \in Live)]
     /\ procQ' = IF s \in Live
                    /\ (fr.kind = "END" \/ (fr.direct /\ ~fr.deferred))
                 THEN QueueProcess(procQ, s) ELSE procQ
     /\ NextFrame
     /\ UNCHANGED <<ret, cur, drained, posted, cw, st, dataVars, wrShut,
                    upEof, finSent, upFull, tokens>>

\* End of the session: the client closed, timed out, or broke the protocol
\* (a malformed frame, NEW for a used id, a stream beyond MaxStreams).  All
\* is released (mux_close_streams).
SessionEnd ==
  /\ pc \in {"idle", "read"} /\ pc' = "done"
  /\ ret' = "idle" /\ cur' = NoStream /\ drained' = FALSE
  /\ budget' = 0 /\ loops' = 0 /\ posted' = FALSE /\ cw' = TRUE
  /\ st' = [s \in Streams |-> "absent"]
  /\ req' = [s \in Streams |-> 0]
  /\ buf' = [s \in Streams |-> NoBuf]
  /\ pend' = [s \in Streams |-> <<>>]
  /\ sent' = [s \in Streams |-> 0]
  /\ up' = [s \in Streams |-> 0]
  /\ clientFin' = [s \in Streams |-> FALSE]
  /\ wrShut' = [s \in Streams |-> FALSE]
  /\ upEof' = [s \in Streams |-> FALSE]
  /\ finSent' = [s \in Streams |-> FALSE]
  /\ upFull' = [s \in Streams |-> FALSE]
  /\ procQ' = <<>>
  /\ tokens' = MaxRecv
  /\ fr' = NoFrame

----------------------------------------------------------------------------
Event ==
  \/ PostedRead
  \/ ClientReady
  \/ \E s \in Streams :
       Opened(s) \/ ConnectFailed(s) \/ ResolveFailed(s) \/ PeerEvent(s)
         \/ PeerTimeout(s)

Relay ==
  \/ \E s \in Streams : FlushFin(s)
  \/ FlushEnd \/ ProcessEnd \/ ProcessHead
  \/ \E n \in 1..Budget : Send(n)
  \/ SendError \/ SendAgain \/ SendBusy \/ SendDone
  \/ \E c \in 1..MaxFrame : Drain(c)
  \/ DrainEnd \/ ProcessTail

ReadLoop ==
  \/ ReadAgain \/ ReadYield
  \/ \E s \in Streams : ReadSyn(s) \/ ReadFin(s)
  \/ \E k \in {"PSH", "NEW", "KEEP", "END"}, s \in Streams, n \in 0..MaxFrame :
       ReadHeader(k, s, n)
  \/ Recheck
  \/ \E n \in 1..MaxFrame : ReadDirect(n) \/ ReadDeferred(n) \/ ReadPlain(n)
  \/ FeedRequest \/ FeedData \/ HandleNew \/ HandleStored

\* Nothing follows the end of the session.
Ended == pc = "done" /\ UNCHANGED vars

Next == Event \/ Relay \/ ReadLoop \/ SessionEnd \/ Ended

Spec == Init /\ [][Next]_vars

\* The event stream s waits for: the end of its connection attempt, by its
\* timer if by nothing else, or the upstream's armed write event.
Awaited(s) ==
  Opened(s) \/ ConnectFailed(s) \/ (upFull[s] /\ PeerEvent(s))

\* A handler runs to its end, or to that of the session.  Posted events are
\* delivered, as are armed write events, because client and upstreams keep
\* reading: then a flush or a send that is tried again and again gets
\* something out.
Fairness ==
  /\ WF_vars(Relay \/ ReadLoop \/ (pc = "read" /\ SessionEnd))
  /\ SF_vars(PostedRead \/ (~cw /\ ClientReady))
  /\ \A s \in Streams :
       /\ SF_vars(Awaited(s))
       /\ SF_vars(FlushFin(s))
       /\ SF_vars(cur = s /\ \E n \in 1..Budget : Send(n))

FairSpec == Spec /\ Fairness

----------------------------------------------------------------------------
(* Properties.                                                             *)

PCs == {"idle", "flush", "proc1", "read", "proc2", "send", "drain", "tail",
        "done"}

TypeOK ==
  /\ pc \in PCs /\ ret \in {"idle", "flush", "proc1", "proc2"}
  /\ cur \in Streams \cup {NoStream} /\ drained \in BOOLEAN
  /\ budget \in 0..Budget /\ loops \in 0..MaxLoops
  /\ posted \in BOOLEAN /\ cw \in BOOLEAN
  /\ st \in [Streams -> {"absent", "request", "opening", "proxy", "closing"}]
  /\ req \in [Streams -> 0..ReqLen]
  /\ buf \in [Streams -> BufSet] /\ pend \in [Streams -> Seq(Bytes)]
  /\ sent \in [Streams -> 0..MaxData] /\ up \in [Streams -> Nat]
  /\ clientFin \in [Streams -> BOOLEAN] /\ wrShut \in [Streams -> BOOLEAN]
  /\ upEof \in [Streams -> BOOLEAN] /\ finSent \in [Streams -> BOOLEAN]
  /\ upFull \in [Streams -> BOOLEAN]
  /\ procQ \in Seq(Streams) /\ tokens \in 0..MaxRecv /\ fr \in FrameSet

\* A payload that was admitted keeps the tokens for its unread rest, however
\* many handlers run before it arrives: the code's fallback for a payload
\* that runs out of tokens half-way (read_deferred_payload) is never needed.
FrameReserve ==
  Storing /\ (fr.direct \/ fr.deferred) => tokens >= fr.len - fr.read

\* A direct payload keeps finding room in its stream's buffer, which
\* upstream sends, drains and reallocations change between its pieces.
DirectFits ==
  (/\ pc = "read" /\ Storing /\ fr.direct /\ ~fr.deferred
   /\ fr.read < fr.len)
    => Room(Compact(Ensure(buf[fr.target], fr.len - fr.read)))
         >= fr.len - fr.read

\* A stream's buffer followed by its pending frames holds consecutive bytes
\* that start with the first one not yet sent: nothing is reordered, lost or
\* sent twice between direct, deferred and appended payloads.
InOrder ==
  \A s \in Live :
    LET stored == buf[s].data \o pend[s]
    IN \A i \in 1..Len(stored) : stored[i] = Request + up[s] + i

\* Bytes of s that belong to the frame in progress and are not stored yet.
Unstored(s) ==
  IF fr.kind \in {"none", "NEW"} \/ fr.sid # s THEN 0
  ELSE fr.len - (IF fr.direct \/ fr.deferred THEN fr.read ELSE fr.feed)

\* Every byte the client sent on an open stream was written to the upstream,
\* or is stored, or belongs to the frame in progress.
NothingLost ==
  \A s \in Streams : st[s] \in {"opening", "proxy"} =>
    Request + up[s] + Held(s) + Unstored(s) = sent[s]

\* Each open stream is a queue: its bytes reach the upstream in order and
\* none is lost, whichever of the three ways a payload takes.
StreamFifo == InOrder /\ NothingLost

\* Queues and the frame in progress never refer to a stream that was freed,
\* and no stream is queued twice (cleanup_stream frees the stream's pool).
NoDangling ==
  /\ \A i \in 1..Len(procQ) : procQ[i] \in Live
  /\ \A i, j \in 1..Len(procQ) : procQ[i] = procQ[j] => i = j
  /\ fr.target # NoStream => fr.target \in Live
  /\ pc \in {"send", "drain", "tail"} => st[cur] = "proxy"

\* No lost wake-up: whenever the worker waits for events and the blocked
\* client frame could go on, the client's read event is posted.
NoLostResume == pc = "idle" /\ BlockedReady(tokens) => posted

\* No stranded data: bytes held for a connected upstream wait for its write
\* event, or the stream is queued and a pass over the queue is posted; and
\* nothing that is queued was freed.
NoStranded ==
  /\ NoDangling
  /\ pc = "idle" =>
       \A s \in Streams : st[s] = "proxy" /\ Held(s) > 0 =>
         upFull[s] \/ (Queued(procQ, s) /\ posted)

\* The upstream is half-closed only when the client has finished and all it
\* sent has been written.
HalfCloseLast ==
  \A s \in Streams : st[s] = "proxy" /\ wrShut[s] =>
    clientFin[s] /\ Held(s) = 0 /\ Request + up[s] = sent[s]

\* The client's FIN reaches the upstream once everything is written,
\* provided the stream ever had a client buffer.
FinPassedOn ==
  pc = "idle" =>
    \A s \in Streams :
      st[s] = "proxy" /\ clientFin[s] /\ buf[s].cap > 0 /\ Held(s) = 0
        /\ ~Queued(procQ, s) => wrShut[s]

\* The half-close comes last, and it comes.
HalfClose == HalfCloseLast /\ FinPassedOn

\* A FIN owed to the client has been sent when the worker goes to wait for
\* events, unless the client's write event is outstanding.
FinNotForgotten ==
  pc = "idle" => \A s \in Streams : Owes(s) => ~cw

\* A closing stream gives its slot and its tokens back.
ClosingEnds == \A s \in Streams : st[s] = "closing" ~> st[s] # "closing"

\* A client frame blocked on tokens goes on: the streams that hold them send
\* or end, and the read loop is entered again.
Unblocks == ClientBlocked ~> ~ClientBlocked
=============================================================================
