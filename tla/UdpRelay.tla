------------------------------ MODULE UdpRelay -----------------------------
(***************************************************************************)
(* The UDP phase of a session that routes each packet: frames of a Trojan  *)
(* client over its TCP connection, or datagrams of a local SOCKS5 client,  *)
(* leave directly, after a lookup, or through the UDP association of a     *)
(* SOCKS5 outbound; what comes back is received in batches and relayed to  *)
(* the client.                                                             *)
(*                                                                         *)
(* One handler runs at a time; "pc" says which, "n" how many packets it    *)
(* handled.  The client's connection is edge triggered (ev), the UDP       *)
(* sockets are level triggered: their handler may run while a datagram is  *)
(* there.  Frames and replies are numbered in the order they were sent.    *)
(***************************************************************************)
EXTENDS Integers, SequencesExt, FiniteSetsExt

CONSTANTS
  Inbounds,   \* "trojan", "socks5"
  Scripts,    \* sequences of targets: "ip", "name", or the outbound "a" or "b"
  MaxReplies, \* bound: datagrams that come back
  Limit       \* NGX_STREAM_TROJAN_UDP_MAX_PACKETS_PER_EVENT

ASSUME ConstantsAssumption ==
  /\ Inbounds \subseteq {"trojan", "socks5"} /\ MaxReplies \in Nat /\ Limit \in Nat \ {0}

VARIABLES
  conf,   \* the inbound, and the targets of the client's frames
  state,  \* ctx->state: "udp" (or socks5_in_udp_control), "resolving", "socks5_udp", "ended"
  pc, n, uc, \* the handler that runs, its packets, its UDP connection
  told,   \* number of frames the client sent
  sock,   \* what of them is in the socket
  ready,  \* read->ready of the client's connection
  inq,    \* udp_in: frames that were read
  query,  \* the frame that waits for its lookup
  held,   \* udp_pending_to_upstream
  assoc,  \* socks5_udp_outbound, and whether the association stands
  done,   \* frames that were dealt with: the number, the way each was sent ("direct"
          \* or the outbound of the association used), what became of it
  net,    \* datagrams in the UDP sockets
  batch,  \* udp_batch: its connection, count, position, whether it was full
  mem,    \* the payload slots of udp_batch
  pend,   \* udp_pending_to_client: number in the header, slot of the payload, parts
          \* unsent, whether the client's socket is full
  out,    \* messages prepared for sendmmsg()
  got,    \* what the client received
  missed, \* process_udp_client returned with frames in udp_in, for the full socket
  ev, posted \* edges of the client's connection; posted events

vars == <<conf, state, pc, n, uc, told, sock, ready, inq, query, held, assoc, done, net,
          batch,
          mem, pend, out, got, missed, ev, posted>>
upward   == <<told, sock, ready, inq, query, held, assoc, done>>
downward == <<net, batch, mem, pend, out, got, missed>>

Sockets == {"direct", "relay"}
Trojan  == conf.inbound = "trojan"
Way(f)  == IF conf.script[f] \in {"ip", "name"} THEN "direct" ELSE conf.script[f]
NoAssoc == [to |-> "none", up |-> FALSE]
NoBatch == [of |-> "none", count |-> 0, pos |-> 0, full |-> FALSE]
Nothing == [head |-> 0, slot |-> 1, left |-> 0, full |-> FALSE]

Init ==
  /\ conf \in [inbound : Inbounds, script : Scripts]
  /\ state = "udp" /\ pc = "wait" /\ n = 0 /\ uc = "direct"
  /\ told = 0 /\ sock = <<>> /\ ready = FALSE /\ inq = <<>> /\ query = <<>> /\ held = <<>>
  /\ assoc = NoAssoc /\ done = <<>> /\ net = [c \in Sockets |-> <<>>]
  /\ batch = NoBatch /\ mem = [i \in 1 .. Limit |-> 0] /\ pend = Nothing /\ out = <<>> /\ got = <<>>
  /\ missed = FALSE /\ ev = {} /\ posted = IF Trojan THEN {"client"} ELSE {}

\* finalize.
End ==
  /\ state' = "ended" /\ pc' = "wait" /\ ev' = {} /\ posted' = {} /\ query' = <<>>
  /\ UNCHANGED <<conf, n, uc, told, sock, ready, inq, held, assoc, done, downward>>

Rest == pc' = "wait" /\ UNCHANGED <<n, uc>>

----------------------------------------------------------------------------
\* Client to upstream.

Done(f, way, how) == done' = Append(done, [frame |-> f, way |-> way, how |-> how])

\* sendto() and sendmsg(), directly or to the relay of the association that
\* stands: a full socket drops the datagram.
SendsTo(f, way) == \E how \in {"sent", "full"} : Done(f, way, how)

\* prepare_udp_outbound: the association of another outbound is closed.  Fault:
\* one that stands is kept.
ResetsIdle(f) == Way(f) # "direct" /\ assoc # NoAssoc /\ assoc.to # Way(f) /\ ~assoc.up
Resets(f) == Way(f) # "direct" /\ assoc # NoAssoc /\ assoc.to # Way(f)
Outbound(f) == IF Resets(f) THEN NoAssoc ELSE assoc
Cleared(f) == Resets(f) /\ batch.of = "relay"

Reset(f) ==
  /\ net'   = IF Resets(f) THEN [net EXCEPT !["relay"] = <<>>] ELSE net
  /\ batch' = IF Cleared(f) THEN NoBatch ELSE batch
  /\ UNCHANGED <<mem, pend, out, got, missed>>
Unposted(f) == IF Resets(f) THEN posted \ {"relay"} ELSE posted

\* process_udp_client parses the next frame.  A frame whose association must be
\* opened first stays in the buffer.
Opens(f) ==
  /\ state' = "socks5_udp" /\ assoc' = [to |-> Way(f), up |-> FALSE] /\ Rest
  /\ UNCHANGED <<inq, query, done>>

\* send_udp_frame for a name: a cached address, a lookup, or a DoH client whose
\* queue is full.
LooksUp(f) ==
  /\ state' = "resolving"
  /\ \/ query' = <<f>> /\ UNCHANGED done
     \/ Done(f, "direct", "busy") /\ UNCHANGED query

Sends(f, way) == SendsTo(f, way) /\ n' = n + 1 /\ UNCHANGED <<state, pc, uc, query>>

ClientFrame ==
  LET f == inq[1] IN
  /\ pc = "client" /\ n < Limit /\ inq # <<>>
  /\ Reset(f) /\ posted' = Unposted(f)
  /\ UNCHANGED <<conf, told, sock, ready, held, ev>>
  /\ \/ Way(f) # "direct" /\ ~Outbound(f).up /\ Opens(f)
     \/ /\ Way(f) # "direct" /\ Outbound(f).up
        /\ assoc' = Outbound(f) /\ inq' = Tail(inq) /\ Sends(f, assoc'.to)
     \/ Way(f) = "direct" /\ inq' = Tail(inq) /\ Sends(f, "direct") /\ UNCHANGED assoc
     \/ conf.script[f] = "name" /\ inq' = Tail(inq) /\ LooksUp(f) /\ Rest /\ UNCHANGED assoc

ClientRead ==
  /\ pc = "client" /\ n < Limit /\ inq = <<>>
  /\ UNCHANGED <<conf, state, query, told, held, assoc, done, downward, ev, posted>>
  /\ IF sock = <<>>
     THEN ready' = FALSE /\ Rest /\ UNCHANGED <<sock, inq>>
     ELSE \E k \in 1 .. Len(sock) :
            /\ inq' = SubSeq(sock, 1, k) /\ sock' = SubSeq(sock, k + 1, Len(sock))
            /\ UNCHANGED <<pc, n, uc, ready>>

ClientLimit ==
  /\ pc = "client" /\ n = Limit /\ Rest
  /\ posted' = IF inq # <<>> \/ ready THEN posted \cup {"client"} ELSE posted
  /\ UNCHANGED <<conf, state, upward, downward, ev>>

\* post_udp_client_read, or the local client's socket.
Resumed == IF ~Trojan THEN posted \cup {"s5in"}
           ELSE IF inq # <<>> \/ ready THEN posted \cup {"client"} ELSE posted

\* resolve_complete: the client is read again.
QueryDone ==
  /\ pc = "wait" /\ query # <<>> /\ SendsTo(query[1], "direct")
  /\ query' = <<>> /\ state' = "udp" /\ posted' = Resumed
  /\ UNCHANGED <<conf, pc, n, uc, told, sock, ready, inq, held, assoc, downward, ev>>

Blocked == held # <<>> /\ ~assoc.up

\* socks5_in_udp_read_handler.
S5Stops ==
  /\ pc = "s5in" /\ Rest
  /\ \/ (query # <<>> \/ Blocked \/ sock = <<>>) /\ UNCHANGED posted
     \/ n = Limit /\ posted' = posted \cup {"s5in"}
  /\ UNCHANGED <<conf, state, upward, downward, ev>>

S5Frame ==
  LET f == sock[1] IN
  /\ pc = "s5in" /\ n < Limit /\ query = <<>> /\ ~Blocked /\ sock # <<>>
  /\ sock' = Tail(sock) /\ Reset(f) /\ posted' = Unposted(f)
  /\ UNCHANGED <<conf, told, ready, inq, ev>>
  /\ \/ /\ Way(f) # "direct" /\ ~Outbound(f).up
        /\ held' = <<f>> /\ state' = "socks5_udp" /\ assoc' = [to |-> Way(f), up |-> FALSE]
        /\ Rest /\ UNCHANGED <<query, done>>
     \/ /\ Way(f) # "direct" /\ Outbound(f).up
        /\ assoc' = Outbound(f) /\ Sends(f, assoc'.to) /\ UNCHANGED held
     \/ Way(f) = "direct" /\ Sends(f, "direct") /\ UNCHANGED <<assoc, held>>
     \/ conf.script[f] = "name" /\ LooksUp(f) /\ Rest /\ UNCHANGED <<assoc, held>>

\* process_socks5 at the end of the handshake.
AssociationStands ==
  /\ pc = "wait" /\ state = "socks5_udp" /\ ~assoc.up /\ state' = "udp"
  /\ assoc' = [assoc EXCEPT !.up = TRUE] /\ held' = <<>> /\ n' = 0
  /\ IF held # <<>> THEN SendsTo(held[1], assoc.to) ELSE UNCHANGED done
  /\ IF Trojan THEN pc' = "flush" /\ UNCHANGED posted ELSE pc' = "wait" /\ posted' = Resumed
  /\ UNCHANGED <<conf, uc, told, sock, ready, inq, query, downward, ev>>

\* A lookup, a handshake or a send failed, or the client or the association ended.
Fails == pc = "wait" /\ state # "ended" /\ End

----------------------------------------------------------------------------
\* Upstream to client.

\* flush_udp_client sends k of the parts that are left: the header, and the
\* payload from where it was received.  A full socket takes nothing.
Flush(k) ==
  LET parts == <<<<"head", pend.head>>, <<"data", mem[pend.slot]>>>>
      from  == 3 - pend.left
  IN /\ k \in 0 .. pend.left /\ (pend.full => k = 0)
     /\ got'  = got \o SubSeq(parts, from, from + k - 1)
     /\ pend' = IF k = pend.left THEN Nothing ELSE [pend EXCEPT !.left = @ - k, !.full = TRUE]

\* process_udp_client begins with a flush.
ClientFlush ==
  /\ pc = "flush" /\ UNCHANGED <<conf, state, n, uc, upward, net, batch, mem, out, ev,
                                 posted>>
  /\ \E k \in 0 .. 2 :
       /\ Flush(k) /\ pc' = IF k = pend.left THEN "client" ELSE "wait"
       /\ missed' = (k < pend.left /\ inq # <<>>)

\* udp_client_write_handler.  Fault: the rest of the batch is left alone.
AgainNot == posted
Again == IF batch.count # 0 THEN posted \cup {batch.of} ELSE posted

WriteHandler ==
  /\ pc = "wait" /\ "write" \in ev /\ Trojan /\ ev' = ev \ {"write"}
  /\ \E k \in 0 .. 2 :
       Flush(k) /\ posted' = IF k = pend.left THEN Again ELSE posted
  /\ UNCHANGED <<conf, state, pc, n, uc, upward, net, batch, mem, out, missed>>

\* udp_read_handler and socks5_udp_read_handler, one round at a time: first what
\* the last round left unsent.  Fault: it may stay unsent.
FlushesNot == \E k \in 0 .. 2 : Flush(k) /\ pc' = "net"
Flushes == \E k \in 0 .. 2 : Flush(k) /\ pc' = IF k = pend.left THEN "net" ELSE "wait"

NetFlush ==
  /\ pc = "netflush" /\ Flushes
  /\ UNCHANGED <<conf, state, n, uc, upward, net, batch, mem, out, missed, ev, posted>>

NetOther ==
  /\ pc = "net" /\ batch.count # 0 /\ batch.of # uc /\ Rest
  /\ posted' = posted \cup {batch.of, uc}
  /\ UNCHANGED <<conf, state, upward, downward, ev>>

\* recv_udp_batch.
NetReceive ==
  LET k == Min({Len(net[uc]), Limit - n}) IN
  /\ pc = "net" /\ batch.count = 0 /\ n < Limit /\ net[uc] # <<>>
  /\ batch' = [of |-> uc, count |-> k, pos |-> 0, full |-> k = Limit - n]
  /\ mem' = [i \in 1 .. Limit |-> IF i <= k THEN net[uc][i] ELSE mem[i]]
  /\ net' = [net EXCEPT ![uc] = SubSeq(@, k + 1, Len(@))]
  /\ UNCHANGED <<conf, state, pc, n, uc, upward, pend, out, got, missed, ev, posted>>

\* A datagram of the batch becomes a message to the local client, or a frame
\* (queue_udp_client), which the next round sends.
NetRelay ==
  LET i == batch.pos + 1 IN
  /\ pc = "net" /\ batch.of = uc /\ batch.pos < batch.count /\ n < Limit
  /\ batch' = [batch EXCEPT !.pos = i] /\ n' = n + 1
  /\ IF Trojan
     THEN /\ pend' = [head |-> mem[i], slot |-> i, left |-> 2, full |-> FALSE]
          /\ pc' = "netflush" /\ UNCHANGED out
     ELSE out' = Append(out, mem[i]) /\ UNCHANGED <<pc, pend>>
  /\ UNCHANGED <<conf, state, uc, upward, net, mem, got, missed, ev, posted>>

\* The end of the handler; n >= 1 stands for the limit of bytes.
NetEnds ==
  /\ pc = "net" /\ batch.of \in {"none", uc}
  /\ \/ batch.count = 0 /\ net[uc] = <<>>
     \/ batch.count # 0 /\ (batch.pos = batch.count \/ n >= 1)
  /\ \E k \in 0 .. Len(out) : got' = got \o SubSeq(out, 1, k)
  /\ out' = <<>> /\ Rest
  /\ LET over == batch.pos = batch.count IN
     /\ batch' = IF over THEN NoBatch ELSE batch
     /\ posted' = IF ~over \/ batch.full THEN posted \cup {uc} ELSE posted
  /\ UNCHANGED <<conf, state, upward, net, mem, pend, missed, ev>>

----------------------------------------------------------------------------
\* Events.

\* read_client; while a lookup or a handshake runs it leaves the input.
Enter(at) == IF at = "client" THEN IF state = "udp" THEN "flush" ELSE "wait"
             ELSE IF at = "s5in" THEN "s5in" ELSE "netflush"

Called(at) ==
  /\ pc = "wait" /\ pc' = Enter(at) /\ n' = 0
  /\ uc' = IF at \in Sockets THEN at ELSE uc
  /\ UNCHANGED <<conf, state, told, sock, inq, query, held, assoc, done, downward>>

Posted(e) == e \in posted /\ posted' = posted \ {e} /\ Called(e) /\ UNCHANGED <<ready, ev>>
ClientEvent ==
  /\ Trojan /\ "read" \in ev /\ ev' = ev \ {"read"} /\ ready' = TRUE
  /\ Called("client") /\ UNCHANGED posted
SocketEvent(c) ==
  net[c] # <<>> /\ state # "ended" /\ Called(c) /\ UNCHANGED <<ready, ev, posted>>
S5Event ==
  /\ ~Trojan /\ sock # <<>> /\ state # "ended" /\ Called("s5in")
  /\ UNCHANGED <<ready, ev, posted>>

ClientSays ==
  /\ state # "ended" /\ told < Len(conf.script)
  /\ told' = told + 1 /\ sock' = Append(sock, told + 1)
  /\ ev' = IF Trojan THEN ev \cup {"read"} ELSE ev
  /\ UNCHANGED <<conf, state, pc, n, uc, ready, inq, query, held, assoc, done, downward,
                 posted>>

\* Epoll reports what can be read together with the room to write.
Room ==
  /\ Trojan /\ state # "ended" /\ pend.full /\ pend' = [pend EXCEPT !.full = FALSE]
  /\ ev' = ev \cup {"write"} \cup (IF sock = <<>> THEN {} ELSE {"read"})
  /\ UNCHANGED <<conf, state, pc, n, uc, upward, net, batch, mem, out, got, missed, posted>>

\* Replies are numbered; the last number is in a socket, a slot or with the client.
Replies == LET seen == {mem[i] : i \in 1 .. Limit} \cup (UNION {ToSet(net[c]) : c \in Sockets})
                         \cup {IF Trojan THEN g[2] ELSE g : g \in ToSet(got)}
           IN Max(seen \cup {0})

Arrives(c) ==
  /\ state # "ended" /\ Replies < MaxReplies
  /\ \E i \in 1 .. Len(done) : done[i].how = "sent" /\ (done[i].way = "direct") = (c = "direct")
  /\ c = "relay" => assoc.up
  /\ net' = [net EXCEPT ![c] = Append(@, Replies + 1)]
  /\ UNCHANGED <<conf, state, pc, n, uc, upward, batch, mem, pend, out, got, missed, ev,
                 posted>>

Next ==
  \/ ClientFrame \/ ClientRead \/ ClientLimit \/ ClientFlush \/ QueryDone \/ AssociationStands
  \/ S5Stops \/ S5Frame \/ Fails \/ WriteHandler
  \/ NetFlush \/ NetOther \/ NetReceive \/ NetRelay \/ NetEnds
  \/ \E e \in {"client", "s5in"} \cup Sockets : Posted(e)
  \/ ClientEvent \/ S5Event \/ ClientSays \/ Room
  \/ \E c \in Sockets : SocketEvent(c) \/ Arrives(c)

Spec == Init /\ [][Next]_vars

----------------------------------------------------------------------------
\* Every frame of the client is dealt with once and in the order it was sent;
\* those that are not yet wait in that order.  And however associations are
\* closed and opened between frames, the one a frame was sent through was with
\* the outbound of its own target (prepare_udp_outbound).
Numbers(s) == [i \in 1 .. Len(s) |-> s[i].frame]
OnceInOrder ==
  state # "ended" =>
    Numbers(done) \o query \o held \o inq \o sock = [i \in 1 .. told |-> i]
OnTheWay == \A i \in 1 .. Len(done) : done[i].way = Way(done[i].frame)
Accounted == OnceInOrder /\ OnTheWay

\* The frames a client receives are whole, each reply's payload is under its own
\* header, and no reply comes twice, however sending is cut.
Ids == IF Trojan THEN [i \in 1 .. Len(got) \div 2 |-> got[2 * i][2]] ELSE got
FramesWhole ==
  /\ Trojan => \A i \in 1 .. Len(got) :
       /\ got[i][1] = IF i % 2 = 1 THEN "head" ELSE "data"
       /\ i % 2 = 0 => got[i][2] = got[i - 1][2]
  /\ IsInjective(Ids)

\* When the worker waits and the client has taken what was sent to it, no
\* received datagram and no frame is left without an event that goes on with it.
\* (But for a frame that met a DoH client with a full queue, which leaves the
\* session in "resolving" with nothing to wait for, and for frames in udp_in when
\* the client was read while its socket was full: room brings only the batch on.)
Busy == \E i \in 1 .. Len(done) : done[i].how = "busy"
NoStall ==
  pc = "wait" /\ state # "ended" /\ ev = {} /\ posted = {} /\ pend.left = 0 =>
    /\ batch.count = 0
    /\ Trojan => \/ state = "udp" /\ sock = <<>> /\ (inq = <<>> \/ missed)
                 \/ query # <<>> \/ state = "socks5_udp" \/ Busy
=============================================================================
