---------------------------- MODULE MuxOutbound ----------------------------
(***************************************************************************)
(* The upstream-to-client half of one mux session: what each stream reads  *)
(* from its upstream is cut into frames for the one client connection,     *)
(* under the per-stream send window of smux version 2; a finished stream   *)
(* sends FIN; consumed client data is reported with UPD frames.            *)
(*                                                                         *)
(* As in MuxInbound one event handler runs at a time, and pc names the     *)
(* point it has reached.  A client event is a flush, the queue passes and  *)
(* the read loop ("work"), and another flush; an upstream event is one     *)
(* run of process_stream and a flush.  A flush is broken into its frames;  *)
(* each send may be cut short by the socket or by the flush's byte limit.  *)
(*                                                                         *)
(* Payload bytes of one stream leave one buffer in order, so they are only *)
(* counted.  What the client makes of the byte sequence it receives is the *)
(* variable wire: the frame in progress, and whether every byte so far     *)
(* continued it.  The client side of the protocol (its window, its UPD     *)
(* frames) is external and honest.                                         *)
(***************************************************************************)
EXTENDS Integers, FiniteSets, Queues

CONSTANTS
  Streams,     \* stream identifiers, each used once
  NoStream,
  Versions,    \* smux versions; Mux.Cool has no window either and is like 1
  Partial,     \* FALSE: the socket takes a chunk whole or not at all
  HeaderLen,   \* length of a PSH and of a FIN header
  UpdLen,      \* length of a UPD frame
  MaxFrame,    \* NGX_STREAM_TROJAN_MUX_MAX_FRAME_SIZE
  Cap,         \* capacity of upstream_buffer
  Limit,       \* relay_limit: bytes sent per flush
  PeerWindow,  \* the client's receive window
  Threshold,   \* NGX_STREAM_TROJAN_MUX_WINDOW_UPDATE_THRESHOLD
  Modulus,     \* 2^32, the range of the v2 byte counters
  ReqLen,      \* bytes of a stream's target request
  Opens,       \* bound, per version: streams the client opens
  MaxOut,      \* bound, per version: bytes an upstream sends
  MaxIn        \* bound: bytes a client sends on a stream

ASSUME ConstantsAssumption ==
  /\ NoStream \notin Streams
  /\ Versions \subseteq {1, 2}
  /\ Partial \in BOOLEAN
  /\ {HeaderLen, UpdLen, MaxFrame, Cap, Limit, PeerWindow, Threshold,
      Modulus, ReqLen, MaxIn} \subseteq Nat \ {0}
  /\ Opens \in [Versions -> Nat] /\ MaxOut \in [Versions -> Nat]
  /\ 2 * PeerWindow < Modulus
  /\ Cap <= MaxFrame
  /\ HeaderLen + Cap < Limit

VARIABLES
  version,   \* ctx->mux_version, of the client's first frame
  pc,        \* "idle", "flush", "upd", "frame", "work", "process"
  ret,       \* where a flush, or process_stream, returns to
  cur,       \* the stream being flushed or processed
  wrote,     \* bytes sent in this flush
  cw,        \* FALSE: the client's write event is armed or posted
  st,        \* stream->state: "absent", "proxy", "closing", "gone"
  ub,        \* bytes in upstream_buffer
  last,      \* its b->last: bytes received since it was last reset
  out,       \* payload bytes sent (history); tx_written is its remainder
  eof,       \* stream->upstream_eof
  ready,     \* the upstream connection's read->ready
  postedUp,  \* the upstream's read event is posted
  again,     \* streams in mux_process_queue whose pass ended on NGX_BUSY
  frame,     \* the packed data frame: frame_header_pos, frame_payload_len, _sent
  finDue,    \* stream->fin_to_client
  finPos,    \* stream->fin_header_pos
  finSent,   \* stream->fin_sent
  seen,      \* stream->tx_peer_consumed
  rx,        \* bytes consumed of the stream (history); rx_consumed likewise
  since,     \* stream->rx_since_update
  report,    \* stream->update_consumed (history: not reduced by Modulus)
  upd,       \* the packed UPD frame: its value, update_frame_pos, _resend
  flushQ,    \* ctx->mux_flush_queue
  updQ,      \* ctx->mux_update_queue
  wire,      \* what the client has received of the frame in progress
  told,      \* the value of the last UPD sent completely (history)
  eaten,     \* payload bytes the client has consumed (client)
  acks       \* UPD values the client has sent and the module not read (client)

flushVars  == <<pc, ret, cur, wrote, cw>>
readVars   == <<ub, last, eof, ready, postedUp, again>>
finVars    == <<finDue, finPos, finSent>>
updVars    == <<rx, since, report, upd, updQ, told>>
clientVars == <<eaten, acks>>
vars == <<version, flushVars, st, readVars, out, frame, finVars, seen, updVars,
          flushQ, wire, clientVars>>

----------------------------------------------------------------------------
Smaller(a, b) == IF a < b THEN a ELSE b

NoFrame == [on |-> FALSE, hpos |-> 0, len |-> 0, sent |-> 0]
NoUpd   == [on |-> FALSE, val |-> 0, pos |-> 0, resend |-> FALSE]
NoWire  == [sid |-> NoStream, kind |-> "none", left |-> 0, ok |-> TRUE]

Opened == {s \in Streams : st[s] # "absent"}
Live == {s \in Streams : st[s] \in {"proxy", "closing"}}

\* stream_send_window, on 32-bit counters; 0 is the closed window.  Fault:
\* the bytes on the way are not counted.
Signed(x) == IF 2 * x >= Modulus THEN x - Modulus ELSE x
Inflight(s) == Signed((out[s] - seen[s]) % Modulus)
WindowWhole(s) == Smaller(PeerWindow, MaxFrame)
Window(s) ==
  IF version = 1 THEN MaxFrame
  ELSE IF PeerWindow <= Inflight(s) THEN 0
  ELSE Smaller(PeerWindow - Inflight(s), MaxFrame)

\* n bytes of a frame of total bytes go out, starting with byte number pos.
Emit(s, kind, pos, n, total) ==
  LET continues == IF pos = 0 THEN wire.left = 0
                   ELSE wire = [sid |-> s, kind |-> kind,
                                left |-> total - pos, ok |-> wire.ok]
      left == total - pos - n
  IN wire' = IF n = 0 THEN wire
             ELSE [sid |-> IF left = 0 THEN NoStream ELSE s,
                   kind |-> IF left = 0 THEN "none" ELSE kind,
                   left |-> left, ok |-> wire.ok /\ continues]

Init ==
  /\ version \in Versions
  /\ pc = "idle" /\ ret = "idle" /\ cur = NoStream /\ wrote = 0 /\ cw = TRUE
  /\ st = [s \in Streams |-> "absent"]
  /\ ub = [s \in Streams |-> 0] /\ last = [s \in Streams |-> 0]
  /\ out = [s \in Streams |-> 0]
  /\ eof = [s \in Streams |-> FALSE]
  /\ ready = [s \in Streams |-> FALSE]
  /\ postedUp = [s \in Streams |-> FALSE] /\ again = {}
  /\ frame = [s \in Streams |-> NoFrame]
  /\ finDue = [s \in Streams |-> FALSE]
  /\ finPos = [s \in Streams |-> 0]
  /\ finSent = [s \in Streams |-> FALSE]
  /\ seen = [s \in Streams |-> 0]
  /\ rx = [s \in Streams |-> 0]
  /\ since = [s \in Streams |-> 0]
  /\ report = [s \in Streams |-> 0]
  /\ upd = [s \in Streams |-> NoUpd]
  /\ flushQ = <<>> /\ updQ = <<>>
  /\ wire = NoWire
  /\ told = [s \in Streams |-> 0]
  /\ eaten = [s \in Streams |-> 0]
  /\ acks = [s \in Streams |-> <<>>]

----------------------------------------------------------------------------
(* Handlers.                                                               *)

StartFlush(r) == pc' = "flush" /\ ret' = r /\ wrote' = 0

\* process_mux begins: the client connection became readable or writable.
ClientEvent ==
  /\ pc = "idle"
  /\ StartFlush("work") /\ cw' = TRUE
  /\ UNCHANGED <<version, cur, st, readVars, out, frame, finVars, seen,
                 updVars, flushQ, wire, clientVars>>

\* The read loop and the queue passes of process_mux are over.
WorkEnd ==
  /\ pc = "work"
  /\ StartFlush("idle")
  /\ UNCHANGED <<version, cur, cw, st, readVars, out, frame, finVars, seen,
                 updVars, flushQ, wire, clientVars>>

\* A stream whose request was read is connected to its upstream.
Open(s) ==
  /\ pc \in {"idle", "work"} /\ st[s] = "absent"
  /\ Cardinality(Opened) < Opens[version]
  /\ st' = [st EXCEPT ![s] = "proxy"]
  /\ rx' = [rx EXCEPT ![s] = ReqLen]
  /\ UNCHANGED <<version, flushVars, readVars, out, frame, finVars, seen,
                 since, report, upd, updQ, told, flushQ, wire, clientVars>>

\* A UPD frame of the client queues a stream that has something to send.
\* Fault: only one that is at its end.
WantsFin(s)   == finDue[s] \/ st[s] = "closing"
WantsFlush(s) == ub[s] > 0 \/ finDue[s] \/ st[s] = "closing"

\* handle_frame for a UPD frame.
TakeUpd(s) ==
  /\ pc = "work" /\ acks[s] # <<>>
  /\ acks' = [acks EXCEPT ![s] = Tail(@)]
  /\ IF s \in Live
     THEN /\ seen' = [seen EXCEPT ![s] = Head(acks[s])]
          /\ flushQ' = IF WantsFlush(s)
                       THEN Enqueue(flushQ, s) ELSE flushQ
     ELSE UNCHANGED <<seen, flushQ>>
  /\ UNCHANGED <<version, flushVars, st, readVars, out, frame, finVars,
                 updVars, wire, eaten>>

\* When n more bytes make a report due.  Fault: one byte late.
DueLate(s, n) ==
  rx[s] = 0 \/ report[s] = 0 \/ since[s] + n > Threshold
Due(s, n) ==
  rx[s] = 0 \/ report[s] = 0 \/ since[s] + n >= Threshold

\* return_recv_tokens and queue_update, for n > 0 bytes of client data that
\* the upstream of s accepted.
Consume(s, n) ==
  LET queued == In(updQ, s)
  IN /\ rx' = [rx EXCEPT ![s] = @ + n]
     /\ IF Due(s, n)
        THEN /\ report' = [report EXCEPT ![s] = rx[s] + n]
             /\ since' = [since EXCEPT ![s] = 0]
             /\ updQ' = Enqueue(updQ, s)
             /\ upd' = [upd EXCEPT ![s].on = @ /\ ~(queued /\ upd[s].pos = 0),
                                   ![s].resend = @ \/ (queued /\ upd[s].pos > 0)]
        ELSE /\ since' = [since EXCEPT ![s] = @ + n]
             /\ UNCHANGED <<report, upd, updQ>>

\* cleanup_stream past its early returns; q and u are the queues before.
Free(s, q, u) ==
  /\ st' = [st EXCEPT ![s] = "gone"]
  /\ flushQ' = Without(q, s)
  /\ updQ' = Without(u, s)

\* process_stream runs, for an event of the upstream connection (one that
\* makes it readable, or not) or for the process queue.
StartProcess(s) ==
  /\ pc \in {"idle", "work"} /\ st[s] = "proxy"
  /\ pc' = "process" /\ ret' = pc /\ cur' = s
  /\ \E arrived \in {FALSE, pc = "idle"} :
       ready' = [ready EXCEPT ![s] = @ \/ arrived]
  /\ postedUp' = [postedUp EXCEPT ![s] = @ /\ pc = "work"]
  /\ again' = IF pc = "work" THEN again \ {s} ELSE again
  /\ UNCHANGED <<version, wrote, cw, st, ub, last, eof, out, frame, finVars,
                 seen, updVars, flushQ, wire, clientVars>>

\* An upstream event ends with a flush, a pass of the queue goes on.
EndProcess ==
  /\ cur' = NoStream
  /\ IF ret = "idle" THEN StartFlush("idle")
     ELSE pc' = ret /\ ret' = "idle" /\ UNCHANGED wrote

\* flush_to_upstream: n bytes of client data are accepted by the upstream.
Deliver(n) ==
  /\ pc = "process" /\ version = 2
  /\ rx[cur] + n <= ReqLen + MaxIn
  /\ Consume(cur, n)
  /\ UNCHANGED <<version, flushVars, st, readVars, out, frame, finVars, seen,
                 told, flushQ, wire, clientVars>>

\* NGX_BUSY: the byte budget is spent; the stream waits for a queue pass.
Busy ==
  /\ pc = "process"
  /\ again' = again \cup {cur}
  /\ EndProcess
  /\ UNCHANGED <<version, cw, st, ub, last, eof, ready, postedUp, out, frame,
                 finVars, seen, updVars, flushQ, wire, clientVars>>

\* read_upstream: one recv into the room of an empty buffer.  k bytes may
\* arrive, or the end of the stream; a recv into no room at all returns 0
\* as well, and is taken for the end.
ReadUpstream(k) ==
  LET s     == cur
      reads == ub[s] = 0 /\ ~eof[s] /\ ready[s]
      room  == Cap - last[s]
      total == ub[s] + k
  IN /\ pc = "process"
     /\ k > 0 => reads /\ k <= room
     /\ out[s] + total <= MaxOut[version]
     /\ \E end \in BOOLEAN, more \in BOOLEAN :
          /\ end => reads /\ k = 0
          /\ more => reads /\ k > 0 /\ k = room
          /\ eof' = [eof EXCEPT ![s] = @ \/ end]
          /\ ready' = [ready EXCEPT ![s] = IF reads THEN more ELSE @]
     /\ ub' = [ub EXCEPT ![s] = total]
     /\ last' = [last EXCEPT ![s] = @ + k]
     /\ LET owes == eof'[s] /\ total = 0 /\ ~finSent[s]
        IN /\ finDue' = [finDue EXCEPT ![s] = @ \/ owes]
           /\ flushQ' = IF owes \/ total > 0 THEN Enqueue(flushQ, s) ELSE flushQ
     /\ EndProcess
     /\ UNCHANGED <<version, cw, postedUp, again, st, out, frame, finPos,
                    finSent, seen, updVars, wire, clientVars>>

\* close_stream on an error or a timeout of the upstream, or at the end of a
\* stream both sides have finished.
CloseStream(s) ==
  /\ st[s] = "proxy"
  /\ \/ pc \in {"idle", "work"}
     \/ pc = "process" /\ cur = s
  /\ eof' = [eof EXCEPT ![s] = TRUE]
  /\ finDue' = [finDue EXCEPT ![s] = @ \/ ~finSent[s]]
  /\ ready' = [ready EXCEPT ![s] = FALSE]
  /\ postedUp' = [postedUp EXCEPT ![s] = FALSE]
  /\ again' = again \ {s}
  /\ IF finSent[s] THEN Free(s, flushQ, updQ)
     ELSE /\ st' = [st EXCEPT ![s] = "closing"]
          /\ flushQ' = Enqueue(flushQ, s)
          /\ UNCHANGED updQ
  /\ IF pc = "process" THEN EndProcess
     ELSE IF pc = "idle" THEN StartFlush("idle") /\ UNCHANGED cur
     ELSE UNCHANGED <<pc, ret, cur, wrote>>
  /\ UNCHANGED <<version, cw, ub, last, out, frame, finPos, finSent, seen,
                 rx, since, report, upd, told, wire, clientVars>>

----------------------------------------------------------------------------
(* mux_flush_client.                                                       *)

\* The flush stops: NGX_AGAIN, the client's write event armed or posted.
FlushStops == pc' = ret /\ ret' = "idle" /\ wrote' = 0 /\ cur' = NoStream
                /\ cw' = FALSE
\* The byte limit of a flush.
FlushGoesOn(n) ==
  IF wrote + n >= Limit THEN FlushStops
  ELSE pc' = "flush" /\ wrote' = wrote + n /\ cur' = NoStream
         /\ UNCHANGED <<ret, cw>>

\* Both queues are empty.
FlushEnd ==
  /\ pc = "flush" /\ updQ = <<>> /\ flushQ = <<>>
  /\ pc' = ret /\ ret' = "idle" /\ wrote' = 0 /\ cw' = TRUE
  /\ UNCHANGED <<version, cur, st, readVars, out, frame, finVars, seen,
                 updVars, flushQ, wire, clientVars>>

\* pack_update_frame, unless a frame is left from an earlier flush.
Packed(s) ==
  IF upd[s].on THEN upd[s]
  ELSE [upd[s] EXCEPT !.on = TRUE, !.val = report[s], !.pos = 0]

\* flush_updates takes the next stream.
NextUpd ==
  LET s == Head(updQ)
  IN /\ pc = "flush" /\ updQ # <<>>
     /\ pc' = "upd" /\ cur' = s
     /\ updQ' = Tail(updQ)
     /\ upd' = [upd EXCEPT ![s] = Packed(s)]
     /\ UNCHANGED <<version, ret, wrote, cw, st, readVars, out, frame,
                    finVars, seen, rx, since, report, told, flushQ, wire,
                    clientVars>>

\* What a send of up to "most" bytes may accept.
Accepts(n, most) == n <= most /\ (Partial \/ n \in {0, most})

\* send_bytes of the UPD frame accepts n bytes.
SendUpd(n) ==
  LET s == cur
      u == upd[s]
      whole == u.pos + n = UpdLen
  IN /\ pc = "upd" /\ Accepts(n, UpdLen - u.pos)
     /\ Emit(s, "UPD", u.pos, n, UpdLen)
     /\ IF whole
        THEN /\ upd' = [upd EXCEPT ![s] = NoUpd]
             /\ told' = [told EXCEPT ![s] = u.val]
             /\ updQ' = IF u.resend THEN Append(updQ, s) ELSE updQ
             /\ FlushGoesOn(n)
        ELSE /\ upd' = [upd EXCEPT ![s].pos = @ + n]
             /\ updQ' = Append(updQ, s)
             /\ FlushStops
             /\ UNCHANGED told
     /\ UNCHANGED <<version, st, readVars, out, frame, finVars, seen, rx,
                    since, report, flushQ, clientVars>>

\* The update queue is empty: the next stream of the flush queue.
NextFrame ==
  /\ pc = "flush" /\ updQ = <<>> /\ flushQ # <<>>
  /\ pc' = "frame" /\ cur' = Head(flushQ)
  /\ flushQ' = Tail(flushQ)
  /\ UNCHANGED <<version, ret, wrote, cw, st, readVars, out, frame, finVars,
                 seen, updVars, wire, clientVars>>

\* A new data frame: as much as the window allows.
PackFrame ==
  /\ pc = "frame" /\ ub[cur] > 0 /\ ~frame[cur].on /\ Window(cur) > 0
  /\ frame' = [frame EXCEPT ![cur] =
       [on |-> TRUE, hpos |-> 0, len |-> Smaller(ub[cur], Window(cur)),
        sent |-> 0]]
  /\ UNCHANGED <<version, flushVars, st, readVars, out, finVars, seen,
                 updVars, flushQ, wire, clientVars>>

\* NGX_BUSY: the window is closed; the stream waits for a UPD.
WindowClosed ==
  /\ pc = "frame" /\ ub[cur] > 0 /\ ~frame[cur].on /\ Window(cur) = 0
  /\ pc' = "flush" /\ cur' = NoStream
  /\ UNCHANGED <<version, ret, wrote, cw, st, readVars, out, frame, finVars,
                 seen, updVars, flushQ, wire, clientVars>>

\* NGX_AGAIN: the stream goes to the end of the flush queue.
Requeue == flushQ' = Enqueue(flushQ, cur) /\ FlushStops

\* n bytes of frame f are out.
Advanced(f, n) ==
  LET h == Smaller(n, HeaderLen - f.hpos)
  IN [f EXCEPT !.hpos = @ + h, !.sent = @ + n - h]

\* send_frame_payload: header and payload, cut by the byte limit, are sent
\* as one chain, of which n bytes are accepted.
SendFrame(n) ==
  LET f     == frame[cur]
      head  == HeaderLen - f.hpos
      rest  == f.len - f.sent
      room  == IF wrote + head >= Limit THEN 0
               ELSE Smaller(rest, Limit - wrote - head)
      h     == Smaller(n, head)
      whole == n = head + rest
  IN /\ pc = "frame" /\ f.on
     /\ Accepts(n, head + room)
     /\ Emit(cur, "PSH", f.hpos + f.sent, n, HeaderLen + f.len)
     /\ frame' = [frame EXCEPT ![cur] =
          IF whole THEN NoFrame ELSE Advanced(f, n)]
     /\ ub' = [ub EXCEPT ![cur] = @ - (n - h)]
     /\ out' = [out EXCEPT ![cur] = @ + (n - h)]
     /\ IF ~whole \/ wrote + n >= Limit THEN Requeue
        ELSE /\ wrote' = wrote + n
             /\ UNCHANGED <<pc, ret, cur, cw, flushQ>>
     /\ UNCHANGED <<version, st, last, eof, ready, postedUp, again, finVars,
                    seen, updVars, clientVars>>

\* The FIN that is due once the buffer is empty.  Fault: at any empty buffer.
FinAtEmpty(s) == ~finSent[s]
FinIsDue(s)   == (finDue[s] \/ eof[s]) /\ ~finSent[s]

\* post_read_if_ready on the upstream.  Fault: it is left out.
NotRearmed(s) == postedUp[s]
Rearmed(s)    == postedUp[s] \/ (~eof[s] /\ ready[s])

\* The end of flush_stream_to_client: the emptied buffer is reset and lets
\* the upstream be read again; n bytes of the FIN header are sent if it is
\* due; a closing stream whose FIN is out is freed.
FinishStream(n) ==
  LET s     == cur
      due   == FinIsDue(s)
      need  == IF due THEN HeaderLen - finPos[s] ELSE 0
      whole == n = need
  IN /\ pc = "frame" /\ ub[s] = 0 /\ ~frame[s].on
     /\ Accepts(n, need)
     /\ last' = [last EXCEPT ![s] = 0]
     /\ postedUp' = [postedUp EXCEPT ![s] = Rearmed(s)]
     /\ IF due THEN Emit(s, "FIN", finPos[s], n, HeaderLen) ELSE UNCHANGED wire
     /\ finDue' = [finDue EXCEPT ![s] = due /\ ~whole]
     /\ finPos' = [finPos EXCEPT ![s] = IF whole THEN 0 ELSE @ + n]
     /\ finSent' = [finSent EXCEPT ![s] = @ \/ (due /\ whole)]
     /\ IF ~whole THEN Requeue /\ UNCHANGED <<st, updQ>>
        ELSE /\ IF st[s] = "closing" THEN Free(s, flushQ, updQ)
                ELSE UNCHANGED <<st, flushQ, updQ>>
             /\ FlushGoesOn(n)
     /\ UNCHANGED <<version, ub, eof, ready, again, out, frame, seen, rx,
                    since, report, upd, told, clientVars>>

----------------------------------------------------------------------------
(* The client.                                                             *)

\* It consumes n payload bytes, and reports how many it has consumed.
ClientEats(s, n) ==
  /\ version = 2 /\ eaten[s] + n <= out[s]
  /\ acks[s] = <<>>
  /\ eaten' = [eaten EXCEPT ![s] = @ + n]
  /\ acks' = [acks EXCEPT ![s] = <<(eaten[s] + n) % Modulus>>]
  /\ UNCHANGED <<version, flushVars, st, readVars, out, frame, finVars, seen,
                 updVars, flushQ, wire>>

Next ==
  \/ ClientEvent \/ WorkEnd \/ FlushEnd \/ NextUpd \/ NextFrame
  \/ PackFrame \/ WindowClosed
  \/ \E s \in Streams :
       Open(s) \/ TakeUpd(s) \/ StartProcess(s) \/ CloseStream(s)
  \/ \E n \in 1..MaxIn : Deliver(n)
  \/ Busy
  \/ \E k \in 0..Cap : ReadUpstream(k)
  \/ \E n \in 0..UpdLen : SendUpd(n)
  \/ \E n \in 0..(HeaderLen + MaxFrame) : SendFrame(n)
  \/ \E n \in 0..HeaderLen : FinishStream(n)
  \/ \E s \in Streams, n \in 1..PeerWindow : ClientEats(s, n)

Spec == Init /\ [][Next]_vars

\* Steps inside a flush or a run of process_stream.
HandlerStep ==
  \/ FlushEnd \/ NextUpd \/ NextFrame \/ PackFrame \/ WindowClosed
  \/ \E n \in 0..UpdLen : SendUpd(n)
  \/ \E n \in 0..(HeaderLen + MaxFrame) : SendFrame(n)
  \/ \E n \in 0..HeaderLen : FinishStream(n)
  \/ Busy \/ \E k \in 0..Cap : ReadUpstream(k)

\* A send for s that gets something out.
Progress(s) ==
  /\ cur = s
  /\ \/ \E n \in 1..UpdLen : SendUpd(n)
     \/ \E n \in 1..(HeaderLen + MaxFrame) : SendFrame(n)
     \/ \E n \in 1..HeaderLen : FinishStream(n)

\* A handler runs to its end: the queue passes and the read loop are limited
\* in bytes and rounds.  An outstanding write event and an arriving frame
\* start one.  The client keeps reading its connection, so that sends that
\* are tried again and again get something out, and it consumes and reports.
Fairness ==
  /\ WF_vars(HandlerStep)
  /\ SF_vars(WorkEnd)
  /\ SF_vars((~cw \/ \E s \in Streams : acks[s] # <<>>) /\ ClientEvent)
  /\ \A s \in Streams :
       /\ SF_vars(TakeUpd(s))
       /\ SF_vars(Progress(s))
       /\ WF_vars(\E n \in 1..PeerWindow : ClientEats(s, n))

FairSpec == Spec /\ Fairness

----------------------------------------------------------------------------
(* Properties.                                                             *)

PCs == {"idle", "flush", "upd", "frame", "work", "process"}

TypeOK ==
  /\ version \in Versions
  /\ pc \in PCs /\ ret \in {"idle", "work"} /\ cur \in Streams \cup {NoStream}
  /\ wrote \in 0..(Limit - 1) /\ cw \in BOOLEAN
  /\ st \in [Streams -> {"absent", "proxy", "closing", "gone"}]
  /\ ub \in [Streams -> 0..Cap] /\ last \in [Streams -> 0..Cap]
  /\ out \in [Streams -> 0..MaxOut[version]]
  /\ {eof, ready, postedUp, finDue, finSent} \subseteq [Streams -> BOOLEAN]
  /\ again \subseteq Streams
  /\ frame \in [Streams -> [on : BOOLEAN, hpos : 0..HeaderLen, len : 0..Cap,
                            sent : 0..Cap]]
  /\ finPos \in [Streams -> 0..HeaderLen] /\ seen \in [Streams -> 0..(Modulus - 1)]
  /\ {rx, since, report, told} \subseteq [Streams -> Nat]
  /\ upd \in [Streams -> [on : BOOLEAN, val : Nat, pos : 0..UpdLen,
                          resend : BOOLEAN]]
  /\ flushQ \in Seq(Streams) /\ updQ \in Seq(Streams)
  /\ eaten \in [Streams -> Nat] /\ acks \in [Streams -> Seq(0..(Modulus - 1))]

\* Every byte written to the client continues the frame that was begun, or
\* begins one where none is open: what a smux or Mux.Cool client needs to
\* find the frames in the byte stream.
WireFramed == wire.ok

\* A stream never has more bytes on the way than the client's window, the
\* rest of a frame that is packed and not yet sent included: the length is
\* fixed before the client's later reports are known.  The byte counters
\* wrap; the signed difference the window is computed from is still the
\* number of bytes sent and not reported as consumed, and an honest report
\* is never ahead of what was written, which would end the session.
WindowRespected ==
  /\ TypeOK
  /\ version = 2 => \A s \in Streams :
       /\ out[s] + (frame[s].len - frame[s].sent) - eaten[s] <= PeerWindow
       /\ Inflight(s) \in 0..PeerWindow
       /\ \A i \in 1..Len(acks[s]) : Signed((acks[s][i] - out[s]) % Modulus) <= 0

\* FIN is the last frame of a stream: it goes out only when the upstream
\* can give no more bytes and all it gave have been sent; a stream is freed
\* only after its FIN.
FinLast ==
  \A s \in Streams :
    /\ finSent[s] \/ finPos[s] > 0 => eof[s] /\ ub[s] = 0 /\ ~frame[s].on
    /\ st[s] = "gone" => finSent[s]

\* When the worker waits for events, a stream with bytes or a FIN for the
\* client is queued and the client's write event is outstanding, or the
\* client has closed the stream's window; and an upstream that is readable
\* and was left unread, its event spent, is read again: its read event is
\* posted, or the stream is queued for processing, or its buffer is still to
\* be flushed.  The queues name no freed stream, and none twice.
NoLostFlush ==
  pc = "idle" =>
    \A s \in Live :
      ub[s] > 0 \/ frame[s].on \/ finDue[s] =>
        (In(flushQ, s) /\ ~cw) \/ (ub[s] > 0 /\ ~frame[s].on /\ Window(s) = 0)
NoStalledUpstream ==
  pc = "idle" =>
    \A s \in Streams :
      st[s] = "proxy" /\ ready[s] /\ ~eof[s] =>
        postedUp[s] \/ s \in again \/ ub[s] > 0 \/ (In(flushQ, s) /\ ~cw)
QueuesLive ==
  \A q \in {flushQ, updQ} : ToSet(q) \subseteq Live /\ IsInjective(q)
NothingStalls == NoLostFlush /\ NoStalledUpstream /\ QueuesLive

\* The client learns what was consumed of its data: less than a threshold
\* is unreported, and a report that is due is queued while the client's
\* write event is outstanding.
ReportsReachClient ==
  \A s \in Live :
    /\ since[s] < Threshold
    /\ report[s] > 0 => rx[s] - report[s] = since[s]
    /\ pc = "idle" => told[s] = report[s] \/ (In(updQ, s) /\ ~cw)

\* What an upstream sent is passed on, whatever the client's window and
\* socket make the stream wait for, and a closed stream is freed.
Drains ==
  \A s \in Streams :
    /\ ub[s] > 0 ~> ub[s] = 0
    /\ st[s] = "closing" ~> st[s] = "gone"
=============================================================================
