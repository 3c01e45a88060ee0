------------------------------- MODULE Relay -------------------------------
(***************************************************************************)
(* The TCP relay of one session between its client and its upstream, with  *)
(* the client's bytes either plain or inside WebSocket frames: both        *)
(* directions of process_proxy, and the WebSocket transport below it.      *)
(*                                                                         *)
(* One event handler runs at a time; pc names the point it has reached:    *)
(*   gate      read_client, about to flush the queued control frame        *)
(*   prefix    process_proxy, sending pending_to_upstream                  *)
(*   toUp      process_direction, client to upstream                       *)
(*   frames    client_recv, taking WebSocket frames apart                  *)
(*   toClient  process_direction, upstream to client                       *)
(*   tail      the same, after an application frame was completed          *)
(*   finish    the end of process_proxy                                    *)
(* A run of sends to one socket is one step: the socket takes the bytes or *)
(* stops somewhere.  Peers and sockets move between any two steps.         *)
(*                                                                         *)
(* Events are edge-triggered.  A peer's bytes or FIN raise an event once;  *)
(* it sets ready, which a recv that finds less than it asked for clears.   *)
(* A short send clears wr, and the event that sets it again is raised when *)
(* the socket has room.                                                    *)
(***************************************************************************)
EXTENDS Integers, Sequences, FiniteSets

CONSTANTS
  Transports,  \* which transports: TRUE in it for WebSocket, FALSE for plain
  BufSize,     \* buffer_size
  RawSize,     \* capacity of ws_raw
  MaxLoops,    \* NGX_STREAM_TROJAN_RELAY_MAX_LOOPS
  Limit,       \* relay_limit(buffer_size)
  MaxFrames,   \* NGX_STREAM_TROJAN_WS_MAX_FRAMES_PER_RECV
  HeaderLen,   \* length of the header of a frame to the client
  CtlLen,      \* length of a control frame to the client
  Prefix,      \* bytes in pending_to_upstream
  MaxSends,    \* bound: frames (or plain writes) of the client
  MaxLen,      \* bound: bytes of a plain write
  Heads,       \* bound: the frame headers the client may send
  MaxOut       \* bound: bytes of the upstream

ASSUME ConstantsAssumption ==
  /\ Transports \subseteq BOOLEAN
  /\ {BufSize, RawSize, MaxLoops, Limit, MaxFrames, HeaderLen, CtlLen}
       \subseteq Nat \ {0}
  /\ {Prefix, MaxSends, MaxLen, MaxOut} \subseteq Nat
  /\ Heads \subseteq [kind : {"bin", "cont", "ping", "pong", "close", "bad"},
                     fin : BOOLEAN, len : Nat]

VARIABLES
  ws,       \* ctx->websocket
  pc,       \* see above; "idle" between handlers, "ended" after finalize
  closing,  \* the state is ws_closing, and ws_close_code is set
  end,      \* why the session ended (history)
  ready,    \* rev->ready of both connections
  eof,      \* rev->eof or rev->error of both
  wr,       \* wev->ready of both
  posted,   \* posted events: the client's "read" and "write", "upstream"
  loc,      \* locals: eof flags, loops, bytes, and those of client_recv
  raw,      \* ws_raw
  hdr,      \* ws_header_len > 0: half a header has been read
  fr,       \* the frame being read: ws_frame, ws_payload_remaining
  frag,     \* ws_fragmented
  pend,     \* pending_to_upstream
  cbuf,     \* client_buffer
  shut,     \* upstream_write_shutdown
  ub,       \* bytes in upstream_buffer
  app,      \* the application frame being sent: on, bytes sent, payload length
  ctl,      \* ws_out: the kind of control frame in it, bytes sent
  ev,       \* external: an event of the connection has not been delivered
  fin,      \* external: the peer has closed its sending side
  room,     \* external: the socket takes bytes
  net,      \* external: what the client wrote and has not arrived
  inq,      \* external: what has arrived from the client and was not read
  sends,    \* external: frames the client may still send
  made,     \* external: payload bytes the client has written
  from,     \* external: bytes of the upstream that were not read
  usent,    \* external: bytes the upstream has sent
  up,       \* external: bytes the upstream has received
  wire      \* external: the client's frame parser

control   == <<ws, closing, end, posted>>
reading   == <<raw, hdr, fr, frag>>
toUpVars  == <<pend, cbuf, shut, up>>
toCliVars == <<ub, app, ctl, wire>>
clientNet == <<net, inq, sends, made>>
upNet     == <<from, usent>>
vars == <<pc, control, ready, eof, wr, loc, reading, toUpVars, toCliVars, ev,
          fin, room, clientNet, upNet>>

----------------------------------------------------------------------------
Sides == {"client", "upstream"}
Smaller(a, b) == IF a < b THEN a ELSE b
Take(q, n) == SubSeq(q, 1, n)
Drop(q, n) == SubSeq(q, n + 1, Len(q))

NoLoc   == [seen |-> [s \in Sides |-> FALSE], loops |-> 0, bytes |-> 0,
            size |-> 0, got |-> 0, frames |-> 0]
NoFrame == [kind |-> "none", fin |-> TRUE, left |-> 0]
NoApp   == [on |-> FALSE, pos |-> 0, len |-> 0]
NoCtl   == [kind |-> "none", pos |-> 0]
NoWire  == [kind |-> "none", left |-> 0, state |-> "whole", closed |-> FALSE]

Data == {"bin", "cont"}
IsByte(x) == x.is = "byte"

\* What the client sends: a header in two pieces and the payload.  Headers
\* the module refuses (text, unmasked, reserved bits) are the kind "bad".
\* A plain client only writes bytes.
Payload(n) == [i \in 1..n |-> [is |-> "byte", n |-> made + i]]
Opaque(n)  == [i \in 1..n |-> [is |-> "ctl"]]
FrameOf(h) ==
  <<[is |-> "half"],
    [is |-> "head", kind |-> h.kind, fin |-> h.fin, len |-> h.len]>>
  \o (IF h.kind \in Data THEN Payload(h.len) ELSE Opaque(h.len))

\* The payload bytes in q.
Held(q) == {q[i].n : i \in {j \in DOMAIN q : IsByte(q[j])}}

\* websocket_app_frame_pending.
AppPending == app.on

\* n bytes of a frame of total bytes go to the client, from byte pos of it.
\* A CLOSE may replace a PONG that is half sent: "cut".
Emit(w, kind, pos, n, total) ==
  LET continues == IF pos = 0 THEN w.left = 0
                   ELSE w.kind = kind /\ w.left = total - pos
      left  == total - pos - n
      state == IF continues /\ ~w.closed THEN w.state
               ELSE IF kind = "close" /\ pos = 0 /\ w.kind = "pong" /\ ~w.closed
                    THEN "cut" ELSE "broken"
  IN IF n = 0 THEN w
     ELSE [kind |-> IF left = 0 THEN "none" ELSE kind, left |-> left,
           state |-> IF w.state = "broken" THEN "broken" ELSE state,
           closed |-> w.closed \/ (kind = "close" /\ left = 0)]

\* A run of sends of total bytes to s takes n of them.
Taken(s, n, total) ==
  /\ n > 0 => room[s]
  /\ room' = [room EXCEPT ![s] = @ /\ n = total]
  /\ wr' = [wr EXCEPT ![s] = @ /\ n = total]

\* finalize: both connections are closed, and what the session held is freed.
Finalize(why) ==
  /\ pc' = "ended" /\ end' = why
  /\ closing' = FALSE /\ posted' = {} /\ loc' = NoLoc
  /\ ready' = [s \in Sides |-> FALSE] /\ eof' = ready' /\ wr' = ready'
  /\ ev' = ready' /\ fin' = ready' /\ room' = ready'
  /\ raw' = <<>> /\ hdr' = FALSE /\ fr' = NoFrame /\ frag' = FALSE
  /\ pend' = <<>> /\ cbuf' = <<>> /\ up' = <<>> /\ shut' = FALSE
  /\ ub' = 0 /\ app' = NoApp /\ ctl' = NoCtl /\ wire' = NoWire
  /\ net' = <<>> /\ inq' = <<>> /\ sends' = 0 /\ made' = 0
  /\ from' = 0 /\ usent' = 0
  /\ UNCHANGED ws

Init ==
  /\ ws \in Transports
  /\ pc = "prefix" /\ closing = FALSE /\ end = "no"
  /\ ready = [s \in Sides |-> s = "client"]
  /\ eof = [s \in Sides |-> FALSE]
  /\ wr = [s \in Sides |-> TRUE]
  /\ posted = {} /\ loc = NoLoc
  /\ raw = <<>> /\ hdr = FALSE /\ fr = NoFrame /\ frag = FALSE
  /\ made = Prefix /\ pend = [i \in 1..Prefix |-> i]
  /\ cbuf = <<>> /\ shut = FALSE /\ up = <<>>
  /\ ub = 0 /\ app = NoApp /\ ctl = NoCtl /\ wire = NoWire
  /\ ev = [s \in Sides |-> FALSE]
  /\ fin = [s \in Sides |-> FALSE]
  /\ room = [s \in Sides |-> TRUE]
  /\ net = <<>> /\ inq = <<>> /\ sends = MaxSends
  /\ from = 0 /\ usent = 0

----------------------------------------------------------------------------
(* The peers and the sockets.                                              *)

\* Only a recv or a send tells a handler what a peer or a socket did, so
\* between the steps of a handler they move just before one of these.
AtRecv(s) ==
  \/ pc = "idle"
  \/ s = "client" /\ pc = "frames"
  \/ s = "upstream" /\ pc = "toClient" /\ ub = 0
AtSend(s) ==
  \/ pc = "idle"
  \/ s = "client" /\ pc = "toClient" /\ ub > 0
  \/ s = "upstream" /\ pc = "toUp" /\ cbuf # <<>>

Writes == IF ws THEN {FrameOf(h) : h \in Heads}
          ELSE {Payload(n) : n \in 1..MaxLen}

\* Bytes of the client arrive: of what it wrote before, or of a new frame.
ClientArrives ==
  /\ AtRecv("client") /\ ~fin["client"]
  /\ \E w \in IF net = <<>> /\ sends > 0 THEN Writes ELSE {net} :
       /\ \E n \in 1..Len(w) : inq' = inq \o Take(w, n) /\ net' = Drop(w, n)
       /\ sends' = IF net = <<>> THEN sends - 1 ELSE sends
       /\ made' = IF net = <<>> THEN made + Cardinality(Held(w)) ELSE made
  /\ ev' = [ev EXCEPT !["client"] = TRUE]
  /\ UNCHANGED <<pc, control, ready, eof, wr, loc, reading, toUpVars,
                 toCliVars, fin, room, upNet>>

UpstreamArrives ==
  /\ AtRecv("upstream") /\ usent < MaxOut /\ ~fin["upstream"]
  /\ \E n \in 1..(MaxOut - usent) : usent' = usent + n /\ from' = from + n
  /\ ev' = [ev EXCEPT !["upstream"] = TRUE]
  /\ UNCHANGED <<pc, control, ready, eof, wr, loc, reading, toUpVars,
                 toCliVars, fin, room, clientNet>>

\* A peer closes its sending side, or its connection fails for reading.
PeerEnds(s) ==
  /\ AtRecv(s) /\ ~fin[s]
  /\ fin' = [fin EXCEPT ![s] = TRUE] /\ ev' = [ev EXCEPT ![s] = TRUE]
  /\ UNCHANGED <<pc, control, ready, eof, wr, loc, reading, toUpVars,
                 toCliVars, room, clientNet, upNet>>

SocketDrains(s) ==
  /\ AtSend(s) /\ ~room[s]
  /\ room' = [room EXCEPT ![s] = TRUE]
  /\ UNCHANGED <<pc, control, ready, eof, wr, loc, reading, toUpVars,
                 toCliVars, ev, fin, clientNet, upNet>>

----------------------------------------------------------------------------
(* Handlers.                                                               *)

\* process_proxy begins.
Begin == pc' = "prefix" /\ loc' = [NoLoc EXCEPT !.seen = eof]

\* read_client and peer_handler; only the client has the gate.
Enter(s) == IF s = "client" THEN pc' = "gate" /\ UNCHANGED loc ELSE Begin

\* What has arrived from s, or its FIN, was not read.
Unread(s) == IF s = "client" THEN inq # <<>> ELSE from > 0
Due(s) == ev[s] /\ (Unread(s) \/ fin[s])

Readable(s) ==
  /\ pc = "idle" /\ Due(s)
  /\ ev' = [ev EXCEPT ![s] = FALSE] /\ ready' = [ready EXCEPT ![s] = TRUE]
  /\ Enter(s)
  /\ UNCHANGED <<control, eof, wr, reading, toUpVars, toCliVars, fin, room,
                 clientNet, upNet>>

Writable(s) ==
  /\ pc = "idle" /\ ~wr[s] /\ room[s]
  /\ wr' = [wr EXCEPT ![s] = TRUE]
  /\ Enter(s)
  /\ UNCHANGED <<control, ready, eof, reading, toUpVars, toCliVars, ev, fin,
                 room, clientNet, upNet>>

PostedEvent(e) ==
  /\ pc = "idle" /\ e \in posted
  /\ posted' = posted \ {e}
  /\ Enter(IF e = "upstream" THEN "upstream" ELSE "client")
  /\ UNCHANGED <<ws, closing, end, ready, eof, wr, reading, toUpVars,
                 toCliVars, ev, fin, room, clientNet, upNet>>

\* The idle timer of either connection.
IdleTimeout ==
  pc = "idle" /\ Finalize("timeout")

\* websocket_flush_out past its early returns: n bytes of c are sent.
Flush(c, n) ==
  /\ n \in 0..(CtlLen - c.pos) /\ Taken("client", n, CtlLen - c.pos)
  /\ ctl' = IF n = CtlLen - c.pos THEN NoCtl ELSE [c EXCEPT !.pos = @ + n]
  /\ wire' = Emit(wire, c.kind, c.pos, n, CtlLen)

\* The two early returns of flush_out.
NothingToFlush == ctl.kind = "none" \/ AppPending

\* read_client flushes; NGX_AGAIN ends the handler.
Gate ==
  /\ pc = "gate" /\ ws /\ ~NothingToFlush
  /\ \E n \in 0..CtlLen : Flush(ctl, n)
  /\ pc' = IF ctl' = NoCtl THEN "gate" ELSE "idle"
  /\ UNCHANGED <<control, ready, eof, loc, reading, toUpVars, ub, app, ev, fin,
                 clientNet, upNet>>

\* Then process_proxy; in ws_closing the session is over (process_closing).
Gated == pc = "gate" /\ (ws => NothingToFlush)
Relays ==
  /\ Gated /\ ~closing /\ Begin
  /\ UNCHANGED <<control, ready, eof, wr, reading, toUpVars, toCliVars, ev,
                 fin, room, clientNet, upNet>>
Closed == Gated /\ closing /\ Finalize("closed")

\* A send fails for good: process_direction and read_client finalize.
SendFails ==
  /\ \/ pc = "prefix" /\ pend # <<>>
     \/ pc = "toUp" /\ cbuf # <<>>
     \/ pc = "toClient" /\ (ub > 0 /\ ~(closing /\ NothingToFlush))
     \/ pc = "gate" /\ ws /\ ~NothingToFlush
  /\ Finalize("error")

----------------------------------------------------------------------------
(* Client to upstream.                                                     *)

\* process_direction with pending_to_upstream and no source.
SendPrefix ==
  /\ pc = "prefix"
  /\ \E n \in 0..Len(pend) :
       /\ Taken("upstream", n, Len(pend))
       /\ up' = up \o Take(pend, n) /\ pend' = Drop(pend, n)
  /\ pc' = "toUp"
  /\ UNCHANGED <<control, ready, eof, loc, reading, cbuf, shut, toCliVars, ev,
                 fin, clientNet, upNet>>

\* The other direction starts, with its own loop counters.
ToClient == pc' = "toClient" /\ loc' = [NoLoc EXCEPT !.seen = loc.seen]

\* process_direction with client_buffer.
SendUp ==
  /\ pc = "toUp" /\ cbuf # <<>>
  /\ \E n \in 0..Len(cbuf) :
       /\ Taken("upstream", n, Len(cbuf))
       /\ up' = up \o Take(cbuf, n) /\ cbuf' = Drop(cbuf, n)
       /\ IF n = Len(cbuf) THEN UNCHANGED <<pc, loc>> ELSE ToClient
  /\ UNCHANGED <<control, ready, eof, reading, pend, shut, toCliVars, ev, fin,
                 clientNet, upNet>>

\* client_read_ready.  Fault: only the socket is asked.
ClientReadReadySocket == ready["client"]
ClientReadReady ==
  \/ ready["client"]
  \/ ws /\ (raw # <<>> \/ fr.left > 0 \/ hdr)

\* relay_should_continue, relay_read_size into an empty buffer.
Continues == loc.loops < MaxLoops /\ loc.bytes < Limit
ReadSize == Smaller(BufSize, Limit - loc.bytes)

\* post_read_if_ready: the rest is read in the next cycle of the event loop.
Yield == ToClient /\ posted' = posted \cup {"read"}

\* No further read in this pass: the end was seen, nothing is ready, the
\* limit is reached (which posts the read), or the session is closing.
ReadEnough ==
  /\ pc = "toUp" /\ cbuf = <<>>
  /\ \/ (loc.seen["client"] \/ ~ClientReadReady) /\ ToClient /\ UNCHANGED posted
     \/ ~loc.seen["client"] /\ ClientReadReady
          /\ ~Continues /\ Yield
     \/ ~loc.seen["client"] /\ ClientReadReady /\ Continues /\ closing
          /\ ToClient /\ UNCHANGED posted
  /\ UNCHANGED <<ws, closing, end, ready, eof, wr, reading, toUpVars,
                 toCliVars, ev, fin, room, clientNet, upNet>>

\* client_recv begins.  A plain client's is one recv, its first step.
StartRecv ==
  /\ pc = "toUp" /\ cbuf = <<>> /\ ~loc.seen["client"]
  /\ ClientReadReady /\ Continues /\ ~closing
  /\ pc' = "frames" /\ loc' = [loc EXCEPT !.size = ReadSize]
  /\ UNCHANGED <<control, ready, eof, wr, reading, toUpVars, toCliVars, ev,
                 fin, room, clientNet, upNet>>

\* client_recv returns the g bytes it has produced, or NGX_AGAIN.
Returns(g) ==
  IF g = 0 THEN ToClient
  ELSE pc' = "toUp" /\ loc' = [loc EXCEPT !.loops = @ + 1, !.bytes = @ + g,
                                 !.size = 0, !.got = 0, !.frames = 0]

\* What a recv of n bytes, when asked were wanted, leaves of ready.  nginx
\* keeps it for a FIN that was reported (pending_eof).
StillReady(s, n, asked) ==
  [ready EXCEPT ![s] = @ /\ (n = asked \/ (fin[s] /\ ~ev[s]))]

\* Nothing to receive, or nothing that was reported; the end of the input.
RecvBlocks(s) == (~Unread(s) /\ ~fin[s]) \/ ev[s]
RecvEnds(s)   == ~Unread(s) /\ fin[s]

\* client_recv needs the socket: read_payload with ws_raw empty and the
\* payload of a data frame to read, or read_raw with ws_raw empty.  Fault:
\* bytes left in ws_raw are overlooked.
DirectAnyway == fr.kind \in Data
Direct == ~ws \/ (fr.kind \in Data /\ raw = <<>>)
NeedsRaw == ws /\ fr.kind \notin Data /\ raw = <<>>
Wants == pc = "frames" /\ loc.got < loc.size

Filled == pc = "frames" /\ loc.got = loc.size /\ Returns(loc.got)
            /\ UNCHANGED <<control, ready, eof, wr, reading, toUpVars,
                           toCliVars, ev, fin, room, clientNet, upNet>>

RecvFails ==
  /\ Wants /\ (Direct \/ NeedsRaw)
  /\ \/ RecvBlocks("client") /\ Returns(loc.got) /\ UNCHANGED eof
     \/ /\ RecvEnds("client")
        /\ eof' = [eof EXCEPT !["client"] = TRUE]
        /\ IF loc.got = 0
           THEN /\ pc' = "toClient"
                /\ loc' = [NoLoc EXCEPT !.seen = [loc.seen EXCEPT !["client"] = TRUE]]
           ELSE Returns(loc.got)
  /\ ready' = [ready EXCEPT !["client"] = FALSE]
  /\ UNCHANGED <<control, wr, reading, toUpVars, toCliVars, ev, fin, room,
                 clientNet, upNet>>

\* read_raw, its recv.
FillRaw ==
  /\ Wants /\ NeedsRaw /\ inq # <<>>
  /\ LET n == Smaller(RawSize, Len(inq))
     IN /\ raw' = Take(inq, n) /\ inq' = Drop(inq, n)
        /\ ready' = StillReady("client", n, RawSize)
  /\ UNCHANGED <<pc, control, eof, wr, loc, hdr, fr, frag, toUpVars, toCliVars,
                 ev, fin, room, net, sends, made, upNet>>

\* websocket_queue_control with what it replaces: a PONG gives way to one
\* that is half sent.  Fault: it does not.
KeepsNone(kind) == FALSE
Keeps(kind) == kind = "pong" /\ ctl.pos > 0
QueueControl(kind) ==
  LET c == [kind |-> kind, pos |-> 0]
  IN IF Keeps(kind) THEN UNCHANGED <<ctl, wire, room, wr>>
     ELSE IF wr["client"] /\ ~AppPending
     THEN \E n \in 0..CtlLen : Flush(c, n)
     ELSE ctl' = c /\ UNCHANGED <<wire, room, wr>>

\* websocket_fail, and the answer to CLOSE: the state is ws_closing and the
\* write event is posted.
PostsWrite == posted \cup {"write"}
Closes ==
  /\ closing' = TRUE /\ posted' = PostsWrite
  /\ QueueControl("close") /\ Returns(loc.got)

\* websocket_count_frame.
Counted(l) ==
  IF l.frames + 1 < MaxFrames
  THEN pc' = pc /\ loc' = [l EXCEPT !.frames = @ + 1] /\ UNCHANGED posted
  ELSE /\ posted' = posted \cup {"read"}
       /\ IF l.got = 0 THEN ToClient
          ELSE pc' = "toUp"
               /\ loc' = [l EXCEPT !.loops = @ + 1, !.bytes = @ + l.got,
                            !.size = 0, !.got = 0, !.frames = 0]

\* handle_frame_end and count_frame, with the locals l.
FrameEnds(kind, f, l) ==
  /\ fr' = NoFrame
  /\ frag' = IF kind \in Data THEN ~f ELSE frag
  /\ CASE kind = "close" -> Closes
       [] kind = "ping"  -> QueueControl("pong") /\ Counted(l)
                              /\ UNCHANGED closing
       [] OTHER -> Counted(l) /\ UNCHANGED <<closing, ctl, wire, room, wr>>

\* Received as payload; what is none becomes 0.
Numbers(q) == [i \in 1..Len(q) |-> IF IsByte(q[i]) THEN q[i].n ELSE 0]

\* A plain client_recv.
TakePlain ==
  /\ Wants /\ ~ws /\ inq # <<>>
  /\ LET n == Smaller(loc.size, Len(inq))
     IN /\ cbuf' = Numbers(Take(inq, n)) /\ inq' = Drop(inq, n)
        /\ ready' = StillReady("client", n, loc.size)
        /\ Returns(n)
  /\ UNCHANGED <<control, eof, wr, reading, pend, shut, up, toCliVars, ev, fin,
                 room, net, sends, made, upNet>>

\* client_recv with a data frame in progress: read_payload, first from
\* ws_raw, then straight from the socket.
TakePayload ==
  /\ Wants /\ ws /\ fr.kind \in Data
  /\ LET asked == Smaller(loc.size - loc.got, fr.left)
         src   == IF Direct THEN inq ELSE raw
         n     == Smaller(asked, Len(src))
         l     == [loc EXCEPT !.got = @ + n]
     IN /\ n > 0
        /\ cbuf' = cbuf \o Numbers(Take(src, n))
        /\ IF Direct
           THEN /\ inq' = Drop(inq, n) /\ UNCHANGED raw
                /\ ready' = StillReady("client", n, asked)
           ELSE raw' = Drop(raw, n) /\ UNCHANGED <<inq, ready>>
        /\ IF n = fr.left THEN FrameEnds(fr.kind, fr.fin, l)
           ELSE /\ fr' = [fr EXCEPT !.left = @ - n] /\ loc' = l
                /\ UNCHANGED <<pc, frag, closing, posted, ctl, wire, room, wr>>
  /\ UNCHANGED <<ws, end, eof, hdr, pend, shut, up, ub, app, ev, fin, net,
                 sends, made, upNet>>

\* client_recv with a control frame in progress.
TakeControl ==
  /\ Wants /\ ws /\ fr.kind \notin Data \cup {"none"} /\ raw # <<>>
  /\ raw' = Tail(raw)
  /\ IF fr.left = 1 THEN FrameEnds(fr.kind, TRUE, loc)
     ELSE /\ fr' = [fr EXCEPT !.left = @ - 1]
          /\ UNCHANGED <<pc, loc, frag, closing, posted, ctl, wire, room, wr>>
  /\ UNCHANGED <<ws, end, ready, eof, hdr, toUpVars, ub, app, ev, fin,
                 clientNet, upNet>>

\* The first half of a header is kept in ws_header, or left in ws_raw until
\* the other half is there.
TakeHalf ==
  /\ Wants /\ ws /\ fr.kind = "none" /\ raw # <<>> /\ ~hdr
  /\ raw' = Tail(raw) /\ hdr' = TRUE
  /\ UNCHANGED <<pc, control, ready, eof, wr, loc, fr, frag, toUpVars,
                 toCliVars, ev, fin, room, clientNet, upNet>>

\* parse_frame_header succeeds, start_frame; refused headers fail the session.
Refused(h) == \/ h.kind = "bad"
              \/ h.kind = "bin" /\ frag
              \/ h.kind = "cont" /\ ~frag
TakeHead ==
  /\ Wants /\ ws /\ fr.kind = "none" /\ raw # <<>> /\ hdr
  /\ raw' = Tail(raw) /\ hdr' = FALSE
  /\ LET h == Head(raw)
     IN IF Refused(h) THEN Closes /\ UNCHANGED <<fr, frag>>
        ELSE IF h.len = 0 THEN FrameEnds(h.kind, h.fin, loc)
        ELSE /\ fr' = [kind |-> h.kind, fin |-> h.fin, left |-> h.len]
             /\ UNCHANGED <<pc, loc, frag, closing, posted, ctl, wire, room, wr>>
  /\ UNCHANGED <<ws, end, ready, eof, toUpVars, ub, app, ev, fin, clientNet,
                 upNet>>

----------------------------------------------------------------------------
(* Upstream to client.                                                     *)

\* A plain send of upstream_buffer.
SendPlain ==
  /\ pc = "toClient" /\ ~ws /\ ub > 0
  /\ \E n \in 0..ub :
       /\ Taken("client", n, ub) /\ ub' = ub - n
       /\ pc' = IF n = ub THEN "toClient" ELSE "finish"
  /\ UNCHANGED <<control, ready, eof, loc, reading, toUpVars, app, ctl, wire,
                 ev, fin, clientNet, upNet>>

\* websocket_send_parts, its first lines: the queued control frame goes
\* first, and in ws_closing nothing else.
SendControl ==
  /\ pc = "toClient" /\ ws /\ ub > 0 /\ ~NothingToFlush
  /\ \E n \in 0..CtlLen : Flush(ctl, n)
  /\ pc' = IF ctl' = NoCtl /\ ~closing THEN "toClient" ELSE "finish"
  /\ UNCHANGED <<control, ready, eof, loc, reading, toUpVars, ub, app, ev, fin,
                 clientNet, upNet>>

\* The header and payload of an application frame: a new one has the whole
\* buffer as its payload, one in progress goes on.
FrameSize == ub
SendApp ==
  /\ pc = "toClient" /\ ws /\ ub > 0 /\ NothingToFlush
  /\ IF closing THEN pc' = "finish" /\ UNCHANGED <<ub, app, wire, room, wr>>
     ELSE LET a     == IF app.on THEN app ELSE [on |-> TRUE, pos |-> 0, len |-> FrameSize]
              total == HeaderLen + a.len
              paid(p) == IF p > HeaderLen THEN p - HeaderLen ELSE 0
          IN \E n \in 0..(total - a.pos) :
               /\ Taken("client", n, total - a.pos)
               /\ wire' = Emit(wire, "app", a.pos, n, total)
               /\ ub' = ub - (paid(a.pos + n) - paid(a.pos))
               /\ IF a.pos + n = total
                  THEN app' = NoApp /\ pc' = "tail"
                  ELSE app' = [a EXCEPT !.pos = @ + n] /\ pc' = "finish"
  /\ UNCHANGED <<control, ready, eof, loc, reading, toUpVars, ctl, ev, fin,
                 clientNet, upNet>>

\* An application frame is complete: a control frame that waited is sent.
SendTail ==
  /\ pc = "tail"
  /\ IF wr["client"] /\ ctl.kind # "none"
     THEN \E n \in 0..CtlLen : Flush(ctl, n)
     ELSE UNCHANGED <<ctl, wire, room, wr>>
  /\ pc' = "toClient"
  /\ UNCHANGED <<control, ready, eof, loc, reading, toUpVars, ub, app, ev, fin,
                 clientNet, upNet>>

\* process_direction with the upstream as source: no further read.
UpstreamEnough ==
  /\ pc = "toClient" /\ ub = 0
  /\ \/ loc.seen["upstream"] /\ UNCHANGED posted
     \/ ~loc.seen["upstream"] /\ ~ready["upstream"] /\ UNCHANGED posted
     \/ ~loc.seen["upstream"] /\ ready["upstream"] /\ ~Continues
          /\ posted' = posted \cup {"upstream"}
  /\ pc' = "finish"
  /\ UNCHANGED <<ws, closing, end, ready, eof, wr, loc, reading, toUpVars,
                 toCliVars, ev, fin, room, clientNet, upNet>>

ReadUpstream ==
  /\ pc = "toClient" /\ ub = 0 /\ ~loc.seen["upstream"]
  /\ ready["upstream"] /\ Continues
  /\ \/ LET n == Smaller(ReadSize, from)
        IN /\ n > 0 /\ ub' = n /\ from' = from - n
           /\ ready' = StillReady("upstream", n, ReadSize)
           /\ loc' = [loc EXCEPT !.loops = @ + 1, !.bytes = @ + n]
           /\ UNCHANGED <<pc, eof>>
     \/ /\ RecvBlocks("upstream")
        /\ ready' = [ready EXCEPT !["upstream"] = FALSE] /\ pc' = "finish"
        /\ UNCHANGED <<eof, loc, ub, from>>
     \/ /\ RecvEnds("upstream")
        /\ ready' = [ready EXCEPT !["upstream"] = FALSE] /\ pc' = "finish"
        /\ eof' = [eof EXCEPT !["upstream"] = TRUE]
        /\ loc' = [loc EXCEPT !.seen["upstream"] = TRUE]
        /\ UNCHANGED <<ub, from>>
  /\ UNCHANGED <<control, wr, reading, toUpVars, app, ctl, wire, ev, fin, room,
                 clientNet, usent>>

----------------------------------------------------------------------------
\* The last lines of process_proxy.  Fault: half-close before the prefix is
\* gone.
ShutsEarly == loc.seen["client"] /\ ~shut /\ cbuf = <<>>
Shuts == loc.seen["client"] /\ ~shut /\ pend = <<>> /\ cbuf = <<>>
Over == loc.seen["client"] /\ loc.seen["upstream"] /\ cbuf = <<>> /\ ub = 0

Finish ==
  /\ pc = "finish"
  /\ IF Over THEN Finalize("eof")
     ELSE /\ shut' = (shut \/ Shuts) /\ pc' = "idle" /\ loc' = NoLoc
          /\ UNCHANGED <<control, ready, eof, wr, reading, pend, cbuf, up,
                         toCliVars, ev, fin, room, clientNet, upNet>>

Ended == pc = "ended" /\ UNCHANGED vars

Events ==
  \/ \E s \in Sides : Readable(s) \/ Writable(s)
  \/ \E e \in posted : PostedEvent(e)
  \/ IdleTimeout

Peers ==
  \/ ClientArrives \/ UpstreamArrives
  \/ \E s \in Sides : PeerEnds(s) \/ SocketDrains(s)

Next ==
  \/ Events \/ Peers
  \/ Gate \/ Relays \/ Closed \/ SendFails \/ SendPrefix \/ SendUp \/ ReadEnough \/ StartRecv
  \/ Filled \/ RecvFails \/ FillRaw \/ TakePlain \/ TakePayload \/ TakeControl
  \/ TakeHalf \/ TakeHead
  \/ SendPlain \/ SendControl \/ SendApp \/ SendTail
  \/ UpstreamEnough \/ ReadUpstream \/ Finish
  \/ Ended

Spec == Init /\ [][Next]_vars

----------------------------------------------------------------------------
Tokens ==
  [is : {"half", "ctl"}] \cup [is : {"byte"}, n : Nat]
    \cup [is : {"head"}, kind : Data \cup {"ping", "pong", "close", "bad"},
         fin : BOOLEAN, len : Nat]

\* Every variable stays in its range; buffers respect their capacity, and an
\* application frame in progress is owed exactly the rest of its payload: the
\* bytes in upstream_buffer (ws_send_payload_remaining).
TypeOK ==
  /\ {ws, closing, hdr, frag, shut} \subseteq BOOLEAN
  /\ pc \in {"idle", "gate", "prefix", "toUp", "frames", "toClient", "tail",
             "finish", "ended"}
  /\ end \in {"no", "eof", "closed", "timeout", "error"}
  /\ {ready, eof, wr, ev, fin, room} \subseteq [Sides -> BOOLEAN]
  /\ posted \subseteq {"read", "write", "upstream"}
  /\ loc.seen \in [Sides -> BOOLEAN]
  /\ loc.loops <= MaxLoops /\ loc.bytes <= Limit /\ loc.got <= loc.size
  /\ loc.frames < MaxFrames
  /\ {raw, net, inq} \subseteq Seq(Tokens) /\ Len(raw) <= RawSize
  /\ fr.left \in Nat /\ (fr.kind = "none" <=> fr.left = 0)
  /\ {pend, cbuf, up} \subseteq Seq(Nat) /\ Len(cbuf) <= BufSize
  /\ ub \in 0..BufSize
  /\ ctl.pos \in 0..(CtlLen - 1) /\ ctl.kind \in {"none", "pong", "close"}
  /\ app.on => /\ app.pos \in 0..(HeaderLen + app.len - 1)
              /\ ub = app.len - (IF app.pos > HeaderLen
                                 THEN app.pos - HeaderLen ELSE 0)

\* Payload bytes of the client that have arrived, all but those in net.
Sent == made - Cardinality(Held(net))

\* Each of the two sources of the upstream's bytes, the prefix and the relayed
\* payload, arrives in order, without loss or duplication: no byte comes
\* twice, and none but the first of a source before the one it follows.
\* However the frames are cut, whether a payload is read from ws_raw or
\* straight from the socket, and whatever control frames are between.
Fifo ==
  \A j \in 1..Len(up) :
    /\ up[j] \in {1, Prefix + 1} \/ \E i \in 1..(j - 1) : up[i] = up[j] - 1
    /\ \A i \in 1..(j - 1) : up[i] # up[j]

\* The upstream's half-close comes after the last byte of the client, and a
\* session that ends because both peers did has delivered everything, but for
\* a prefix that an upstream with nothing more to say did not take.
EndsComplete ==
  [][ /\ (~shut /\ shut') => Len(up) = Sent
      /\ (end = "no" /\ end' = "eof") =>
           Len(up) + Len(pend) = Sent /\ from = 0 /\ ub = 0 ]_vars

\* On a WebSocket the client receives whole frames, one after the other: no
\* control frame inside an application frame that is cut by a full socket,
\* and nothing after CLOSE.  Only the CLOSE that ends a session may cut a
\* PONG that is half sent (queue_control).  Every retry offers the rest of
\* the frame that was begun (the last part of TypeOK).
FramesWhole == TypeOK /\ wire.state # "broken"

\* What is left to send waits for a write event, or is posted.
WaitsFor(s) == ~wr[s]

\* When the worker waits, a byte that a peer has sent and the session has not
\* read is behind an event that will come: its own, a posted one, or the
\* write event of the socket that holds up the direction.  The end of a plain
\* client's input has been passed on.
NoStalledInput ==
  (pc = "idle" /\ ~closing) =>
     /\ (inq # <<>> \/ raw # <<>> \/ (fin["client"] /\ ~eof["client"])
          \/ (eof["client"] /\ ~shut /\ ~ws)) =>
          \/ Due("client") \/ {"read", "write"} \cap posted # {}
          \/ (pend # <<>> \/ cbuf # <<>>) /\ WaitsFor("upstream")
          \/ ctl.kind # "none" /\ WaitsFor("client")
     /\ (from > 0 \/ (fin["upstream"] /\ ~eof["upstream"])) =>
          \/ Due("upstream") \/ "upstream" \in posted
          \/ ub > 0 /\ WaitsFor("client")

\* When the worker waits, output that is left has its write event to come: no
\* PONG or CLOSE stays behind, no buffer is forgotten.
OutputArmed ==
  pc = "idle" =>
     /\ (pend # <<>> \/ cbuf # <<>>) => WaitsFor("upstream")
     /\ ub > 0 => WaitsFor("client") \/ "write" \in posted
     /\ (closing \/ ctl.kind # "none") =>
          WaitsFor("client") \/ "write" \in posted

NothingStalls == NoStalledInput /\ OutputArmed
=============================================================================
