---------------------------- MODULE RelayProofs ----------------------------
(***************************************************************************)
(* Proofs about Relay, for any buffer sizes, limits, frame headers and any *)
(* bounds on what the peers send.                                          *)
(*                                                                         *)
(* The inductive invariant Inv has two halves.  Core relates the handler's *)
(* point (pc) to its locals, to the frame the client's parser is in, to    *)
(* the output that waits for a socket and to the input that waits for an   *)
(* event.  InOrder numbers the client's bytes along their way: up, pend    *)
(* and cbuf hold the bytes 1 .. Base, and the tokens of raw, inq and net,  *)
(* taken together (Flow), hold Base + 1 .. made in increasing order, cut   *)
(* into frames at the places where the reader will look for a header.      *)
(*                                                                         *)
(* <Action>Core shows that an action preserves Core, <Action>Order that it *)
(* preserves InOrder; QuietSteps does that for all actions that move no    *)
(* byte of the client, EndsCore both for the end of the session.           *)
(***************************************************************************)
EXTENDS Relay, SequenceTheorems, FiniteSetTheorems, TLAPS

----------------------------------------------------------------------------
(* The inductive invariant.                                                *)

Pcs == {"idle", "gate", "prefix", "toUp", "frames", "toClient", "tail", "finish", "ended"}
LocSet == [seen : [Sides -> BOOLEAN], loops : 0 .. MaxLoops, bytes : 0 .. Limit,
           size : Nat, got : Nat, frames : Nat]
FrSet == [kind : Data \cup {"none", "ping", "pong", "close"}, fin : BOOLEAN, left : Nat]
AppSet == [on : BOOLEAN, pos : Nat, len : Nat]
CtlSet == [kind : {"none", "pong", "close"}, pos : 0 .. (CtlLen - 1)]
WireSet == [kind : {"none", "pong", "close", "app"}, left : Nat,
            state : {"whole", "cut", "broken"}, closed : BOOLEAN]

Flags ==
  /\ ws \in BOOLEAN /\ closing \in BOOLEAN /\ hdr \in BOOLEAN /\ frag \in BOOLEAN
  /\ shut \in BOOLEAN
  /\ pc \in Pcs /\ end \in {"no", "eof", "closed", "timeout", "error"}
  /\ posted \subseteq {"read", "write", "upstream"}
Sockets ==
  /\ ready \in [Sides -> BOOLEAN] /\ eof \in [Sides -> BOOLEAN] /\ wr \in [Sides -> BOOLEAN]
  /\ ev \in [Sides -> BOOLEAN] /\ fin \in [Sides -> BOOLEAN] /\ room \in [Sides -> BOOLEAN]
Buffers ==
  /\ raw \in Seq(Tokens) /\ net \in Seq(Tokens) /\ inq \in Seq(Tokens) /\ Len(raw) <= RawSize
  /\ pend \in Seq(Nat) /\ cbuf \in Seq(Nat) /\ up \in Seq(Nat) /\ Len(cbuf) <= BufSize
  /\ ub \in 0 .. BufSize
  /\ sends \in Nat /\ made \in Nat /\ from \in Nat /\ usent \in Nat
Records ==
  /\ loc \in LocSet /\ app \in AppSet /\ ctl \in CtlSet /\ wire \in WireSet
  /\ fr \in FrSet /\ (fr.kind = "none" <=> fr.left = 0)
Shape == Flags /\ Sockets /\ Buffers /\ Records

\* The locals of client_recv.
Recv ==
  IF pc = "frames"
  THEN /\ 0 < loc.size /\ loc.size <= BufSize /\ loc.bytes + loc.size <= Limit
       /\ loc.loops < MaxLoops /\ loc.frames < MaxFrames
       /\ loc.got = Len(cbuf) /\ loc.got <= loc.size
       /\ ~closing /\ (~ws => loc.got = 0)
  ELSE loc.size = 0 /\ loc.got = 0 /\ loc.frames = 0

Paid(p) == IF p > HeaderLen THEN p - HeaderLen ELSE 0

\* The client's parser is at a boundary, or in the frame that is being sent.
\* A CLOSE waits for nothing but may follow a PONG that is half sent.
Parser ==
  /\ wire.state # "broken" /\ (wire.left = 0 <=> wire.kind = "none")
  /\ ctl.kind = "none" => ctl.pos = 0
  /\ wire.closed => ctl.kind = "none"
  /\ ctl.pos > 0 => wire.kind = ctl.kind /\ wire.left = CtlLen - ctl.pos
  /\ ~app.on /\ wire.left > 0 /\ ctl.pos = 0 => wire.kind = "pong" /\ ctl.kind = "close"
AppFrame ==
  app.on => /\ ctl.pos = 0 /\ app.pos < HeaderLen + app.len /\ 0 < ub
            /\ ub = app.len - Paid(app.pos)
            /\ IF app.pos = 0 THEN wire.left = 0
               ELSE wire.kind = "app" /\ wire.left = HeaderLen + app.len - app.pos
Wired ==
  /\ Parser /\ AppFrame
  /\ ~ws => ctl.kind = "none" /\ ~app.on /\ ~closing
  /\ ctl.kind = "close" \/ wire.closed => closing
  /\ pc = "tail" => ~app.on /\ ws

----------------------------------------------------------------------------
\* Events.  What a peer did is behind its event or a ready flag.
ClientWaits == inq # <<>> \/ (fin["client"] /\ ~eof["client"])
UpWaits == from > 0 \/ (fin["upstream"] /\ ~eof["upstream"])
Seen ==
  /\ eof["client"] => fin["client"] /\ inq = <<>> /\ raw = <<>>
  /\ eof["upstream"] => fin["upstream"] /\ from = 0
  /\ \A s \in Sides : loc.seen[s] => eof[s]
  /\ ClientWaits => ev["client"] \/ ready["client"]
  /\ UpWaits => ev["upstream"] \/ ready["upstream"]
  /\ ~ws /\ eof["client"] /\ pc \notin {"idle", "gate"} => loc.seen["client"]
  /\ ~ws => raw = <<>> /\ ~hdr /\ fr.kind = "none"

\* Output that waits has its write event to come.
Outputs ==
  /\ pend # <<>> /\ pc # "prefix" => ~wr["upstream"]
  /\ cbuf # <<>> /\ pc \notin {"prefix", "toUp", "frames"} => ~wr["upstream"]
  /\ closing /\ pc # "gate" => ~wr["client"] \/ "write" \in posted
  /\ ctl.kind # "none" /\ pc \notin {"gate", "tail"} =>
       ~wr["client"] \/ "write" \in posted \/ (app.on /\ pc \notin {"idle", "finish"})
  /\ ub > 0 /\ pc \in {"idle", "finish"} => ~wr["client"] \/ "write" \in posted

\* Input that waits will be read.
InputComes ==
  \/ Due("client") \/ {"read", "write"} \cap posted # {}
  \/ (pend # <<>> \/ cbuf # <<>>) /\ ~wr["upstream"]
Inputs ==
  ~closing =>
    /\ pc \in {"toClient", "tail", "finish"} /\ (ClientWaits \/ raw # <<>>) => InputComes
    /\ pc = "idle" /\ (ClientWaits \/ raw # <<>> \/ (eof["client"] /\ ~shut /\ ~ws)) =>
         InputComes \/ (ctl.kind # "none" /\ ~wr["client"])
    /\ pc \in {"idle", "finish"} /\ UpWaits =>
         Due("upstream") \/ "upstream" \in posted \/ (ub > 0 /\ ~wr["client"])
    /\ pc = "gate" /\ UpWaits => Due("upstream") \/ "upstream" \in posted \/ ub > 0

----------------------------------------------------------------------------
\* The client's bytes: K of the prefix and M of the payload are with the
\* upstream, and the first Base bytes are there or in the module's buffers.
K == Prefix - Len(pend)
M == Len(up) - K
Base == Len(up) + Len(pend) + Len(cbuf)

Got(u, k, m) ==
  /\ k \in Nat /\ m \in Nat /\ Len(u) = k + m
  /\ \A j \in 1 .. Len(u) : u[j] \in 1 .. k \/ u[j] \in (Prefix + 1) .. (Prefix + m)
  /\ \A v \in 1 .. k : \E j \in 1 .. Len(u) : u[j] = v
  /\ \A v \in (Prefix + 1) .. (Prefix + m) : \E j \in 1 .. Len(u) : u[j] = v
  /\ \A j \in 1 .. Len(u) :
       /\ u[j] \in {1, Prefix + 1} \/ \E i \in 1 .. (j - 1) : u[i] = u[j] - 1
       /\ \A i \in 1 .. (j - 1) : u[i] # u[j]

Delivered ==
  /\ Len(pend) <= Prefix /\ Got(up, K, M)
  /\ \A i \in 1 .. Len(pend) : pend[i] = K + i
  /\ \A i \in 1 .. Len(cbuf) : cbuf[i] = Prefix + M + i

\* The tokens on their way hold the bytes from b + 1 to e, in order.
Numbered(t, b, e) ==
  /\ b <= e
  /\ \A i \in 1 .. Len(t) : IsByte(t[i]) => t[i].n \in (b + 1) .. e
  /\ \A v \in (b + 1) .. e : \E i \in 1 .. Len(t) : IsByte(t[i]) /\ t[i].n = v
  /\ \A i, j \in 1 .. Len(t) : i < j /\ IsByte(t[i]) /\ IsByte(t[j]) => t[i].n < t[j].n

\* n tokens after the first a are the payload of a frame of kind k.
Run(t, a, n, k) ==
  /\ a + n <= Len(t)
  /\ \A d \in 1 .. n :
       IF k \in Data THEN IsByte(t[a + d]) /\ t[a + d].n = t[a + 1].n + d - 1
       ELSE t[a + d].is = "ctl"
  /\ a + n < Len(t) => t[a + n + 1].is = "half"

Framed(t) ==
  \A i \in 1 .. Len(t) :
    /\ t[i].is = "half" => i < Len(t) /\ t[i + 1].is = "head"
    /\ t[i].is = "head" => Run(t, i, t[i].len, t[i].kind)

Flow == (raw \o inq) \o net
Parsed ==
  IF ws
  THEN /\ Framed(Flow)
       /\ ~closing => IF hdr THEN fr.kind = "none" /\ Flow # <<>> /\ Flow[1].is = "head"
                      ELSE Run(Flow, 0, fr.left, fr.kind)
  ELSE made = Base + Len(Flow) /\ \A i \in 1 .. Len(Flow) : IsByte(Flow[i]) /\ Flow[i].n = Base + i

InOrder == IF pc = "ended" THEN up = <<>>
           ELSE Delivered /\ Numbered(Flow, Base, made) /\ Parsed

\* What the assumption on the constants says, one by one.
LEMMA Constants ==
  /\ BufSize \in Nat \ {0} /\ RawSize \in Nat \ {0} /\ MaxLoops \in Nat \ {0}
  /\ Limit \in Nat \ {0} /\ MaxFrames \in Nat \ {0} /\ HeaderLen \in Nat \ {0}
  /\ CtlLen \in Nat \ {0} /\ Prefix \in Nat /\ MaxSends \in Nat /\ MaxLen \in Nat
  /\ MaxOut \in Nat /\ Transports \subseteq BOOLEAN
  /\ Heads \subseteq [kind : {"bin", "cont", "ping", "pong", "close", "bad"},
                      fin : BOOLEAN, len : Nat]
BY ConstantsAssumption

Core == Shape /\ Recv /\ Wired /\ Seen /\ Outputs /\ Inputs

----------------------------------------------------------------------------
(* What the operators of the actions do.                                   *)

\* The two sides.
LEMMA SideNames == "client" \in Sides /\ "upstream" \in Sides /\ "client" # "upstream"
BY DEF Sides

\* The initial records are records, and empty.
LEMMA NoRecords ==
  /\ NoLoc \in LocSet /\ NoLoc.size = 0 /\ NoLoc.got = 0 /\ NoLoc.frames = 0
  /\ NoLoc.seen = [s \in Sides |-> FALSE] /\ NoLoc.loops = 0 /\ NoLoc.bytes = 0
  /\ NoFrame \in FrSet /\ NoFrame.kind = "none" /\ NoFrame.left = 0
  /\ NoApp \in AppSet /\ ~NoApp.on
  /\ NoCtl \in CtlSet /\ NoCtl.kind = "none" /\ NoCtl.pos = 0
  /\ NoWire \in WireSet /\ NoWire.kind = "none" /\ NoWire.left = 0 /\ ~NoWire.closed
  /\ NoWire.state = "whole"
BY Constants DEF NoLoc, LocSet, NoFrame, FrSet, NoApp, AppSet, NoCtl, CtlSet, NoWire, WireSet

\* The locals with which process_proxy begins.
LEMMA SeenLoc ==
  ASSUME NEW f \in [Sides -> BOOLEAN], NEW l, l = [NoLoc EXCEPT !.seen = f]
  PROVE  l \in LocSet /\ l.seen = f /\ l.size = 0 /\ l.got = 0 /\ l.frames = 0
         /\ l.loops = 0 /\ l.bytes = 0
BY Constants DEF NoLoc, LocSet

\* The first n elements of a sequence, and the rest.
LEMMA DropFacts ==
  ASSUME NEW S, NEW q \in Seq(S), NEW n \in 0 .. Len(q)
  PROVE  /\ Take(q, n) \in Seq(S) /\ Len(Take(q, n)) = n
         /\ \A i \in 1 .. n : Take(q, n)[i] = q[i]
         /\ Drop(q, n) \in Seq(S) /\ Len(Drop(q, n)) = Len(q) - n
         /\ \A i \in 1 .. (Len(q) - n) : Drop(q, n)[i] = q[n + i]
<1>1. n \in Nat /\ Len(q) \in Nat /\ n <= Len(q) OBVIOUS
<1>2. Take(q, n) = SubSeq(q, 1, n) /\ Drop(q, n) = SubSeq(q, n + 1, Len(q)) BY DEF Take, Drop
<1>3. /\ SubSeq(q, 1, n) \in Seq(S) /\ Len(SubSeq(q, 1, n)) = n
      /\ \A i \in 1 .. n : SubSeq(q, 1, n)[i] = q[i]
  BY <1>1
<1>4. /\ SubSeq(q, n + 1, Len(q)) \in Seq(S) /\ Len(SubSeq(q, n + 1, Len(q))) = Len(q) - n
      /\ \A i \in 1 .. (Len(q) - n) : SubSeq(q, n + 1, Len(q))[i] = q[n + i]
  BY <1>1
<1> QED BY <1>2, <1>3, <1>4

\* A send that is cut short leaves its socket unwritable.
LEMMA TakenFacts ==
  ASSUME Sockets, NEW s \in Sides, NEW n, NEW total, Taken(s, n, total)
  PROVE  /\ wr' \in [Sides -> BOOLEAN] /\ room' \in [Sides -> BOOLEAN]
         /\ \A x \in Sides \ {s} : wr'[x] = wr[x] /\ room'[x] = room[x]
         /\ wr'[s] => wr[s] /\ n = total
<1> DEFINE all == n = total
<1>1. all \in BOOLEAN OBVIOUS
<1>2. /\ room' = [room EXCEPT ![s] = @ /\ all]
      /\ wr' = [wr EXCEPT ![s] = @ /\ all]
  BY Zenon DEF Taken
<1> HIDE DEF all
<1>3. /\ wr' \in [Sides -> BOOLEAN] /\ room' \in [Sides -> BOOLEAN]
      /\ \A x \in Sides \ {s} : wr'[x] = wr[x] /\ room'[x] = room[x]
      /\ wr'[s] => wr[s] /\ all
  BY <1>1, <1>2 DEF Sockets
<1> QED BY <1>3 DEF all

\* A recv clears ready, or leaves it for what is still to be read.
LEMMA StillReadyFacts ==
  ASSUME Sockets, NEW s \in Sides, NEW n, NEW asked, ready' = StillReady(s, n, asked)
  PROVE  /\ ready' \in [Sides -> BOOLEAN]
         /\ \A x \in Sides \ {s} : ready'[x] = ready[x]
         /\ ready'[s] <=> ready[s] /\ (n = asked \/ (fin[s] /\ ~ev[s]))
<1> DEFINE more == n = asked \/ (fin[s] /\ ~ev[s])
<1>1. ready' = [ready EXCEPT ![s] = @ /\ more] BY Zenon DEF StillReady
<1> HIDE DEF more
<1>2. /\ ready' \in [Sides -> BOOLEAN] /\ \A x \in Sides \ {s} : ready'[x] = ready[x]
      /\ ready'[s] <=> ready[s] /\ more
  BY <1>1 DEF Sockets
<1> QED BY <1>2 DEF more

\* Bytes of a frame that is due continue the frame the client is reading.
LEMMA EmitFacts ==
  ASSUME NEW w \in WireSet, w.state # "broken", ~w.closed, w.left = 0 <=> w.kind = "none",
         NEW kind \in {"pong", "close", "app"}, NEW pos \in Nat, NEW n \in Nat,
         NEW total \in Nat, pos < total, pos + n <= total,
         pos = 0 => w.left = 0 \/ (w.kind = "pong" /\ kind = "close"),
         pos > 0 => w.kind = kind /\ w.left = total - pos,
         NEW v, v = Emit(w, kind, pos, n, total)
  PROVE  /\ v \in WireSet /\ v.state # "broken" /\ (v.left = 0 <=> v.kind = "none")
         /\ n = 0 => v = w
         /\ n > 0 => /\ v.left = total - pos - n
                     /\ v.kind = IF v.left = 0 THEN "none" ELSE kind
         /\ v.closed => kind = "close" /\ pos + n = total
<1>1. CASE n = 0
  <2>1. v = w BY <1>1 DEF Emit
  <2> QED BY <1>1, <2>1
<1>2. CASE n > 0
  <2> DEFINE left == total - pos - n
             continues == IF pos = 0 THEN w.left = 0 ELSE w.kind = kind /\ w.left = total - pos
             st == IF continues THEN w.state ELSE "cut"
             c == kind = "close" /\ left = 0
             d == w.closed \/ (kind = "close" /\ left = 0)
  <2>1. v = [kind |-> IF left = 0 THEN "none" ELSE kind, left |-> left,
             state |-> IF w.state = "broken" THEN "broken" ELSE
                       IF continues /\ ~w.closed THEN w.state
                       ELSE IF kind = "close" /\ pos = 0 /\ w.kind = "pong" /\ ~w.closed
                            THEN "cut" ELSE "broken",
             closed |-> d]
    BY <1>2 DEF Emit
  <2>2. v.state = st BY <2>1
  <2>3. w.closed \in BOOLEAN /\ d \in BOOLEAN BY DEF WireSet
  <2> HIDE DEF d
  <2>7. v.closed = d BY <2>1
  <2>4. v.closed <=> c BY <2>3, <2>7 DEF d
  <2>5. v.left = left /\ v.kind = (IF left = 0 THEN "none" ELSE kind) /\ left \in Nat BY <2>1
  <2>6. v \in WireSet
    <3>1. w.state \in {"whole", "cut", "broken"} BY DEF WireSet
    <3>2. st \in {"whole", "cut"} BY <3>1
    <3>4. v.closed = d /\ d \in BOOLEAN BY <2>3, <2>7
    <3>5. v = [kind |-> v.kind, left |-> v.left, state |-> v.state, closed |-> v.closed]
      BY <2>1
    <3> HIDE DEF st, left
    <3>6. v.kind \in {"none", "pong", "close", "app"} /\ v.left \in Nat
          /\ v.state \in {"whole", "cut", "broken"}
      BY <2>2, <2>5, <3>2
    <3> QED BY <3>4, <3>5, <3>6, Zenon DEF WireSet
  <2> QED BY <1>2, <2>2, <2>4, <2>5, <2>6 DEF WireSet
<1> QED BY <1>1, <1>2

\* Bytes of the control frame c.
Follows(c) ==
  /\ c \in CtlSet /\ c.kind # "none" /\ ~wire.closed
  /\ IF c.pos = 0 THEN wire.left = 0 \/ (wire.kind = "pong" /\ c.kind = "close")
     ELSE wire.kind = c.kind /\ wire.left = CtlLen - c.pos

\* websocket_flush_out: n bytes of the control frame c go out whole or in part.
LEMMA FlushFacts ==
  ASSUME Sockets, Records, Parser, ~app.on, UNCHANGED app, NEW c, Follows(c), NEW n, Flush(c, n)
  PROVE  /\ ctl' \in CtlSet /\ wire' \in WireSet /\ Parser'
         /\ wr' \in [Sides -> BOOLEAN] /\ room' \in [Sides -> BOOLEAN]
         /\ wr'["upstream"] = wr["upstream"] /\ (wr'["client"] => wr["client"])
         /\ ctl'.kind # "none" => ctl'.kind = c.kind /\ ~wr'["client"]
         /\ ctl' = NoCtl <=> ctl'.kind = "none"
         /\ wire'.closed => c.kind = "close" /\ ctl'.kind = "none"
<1>0. c.kind \in {"pong", "close"} /\ c.pos \in 0 .. (CtlLen - 1) /\ CtlLen \in Nat
  BY Constants DEF Follows, CtlSet
<1>1. /\ n \in Nat /\ c.pos + n <= CtlLen /\ Taken("client", n, CtlLen - c.pos)
      /\ ctl' = IF n = CtlLen - c.pos THEN NoCtl ELSE [c EXCEPT !.pos = @ + n]
      /\ wire' = Emit(wire, c.kind, c.pos, n, CtlLen)
  BY <1>0 DEF Flush
<1>2. /\ wr' \in [Sides -> BOOLEAN] /\ room' \in [Sides -> BOOLEAN]
      /\ wr'["upstream"] = wr["upstream"]
      /\ wr'["client"] => wr["client"] /\ n = CtlLen - c.pos
  BY <1>1, TakenFacts, SideNames
<1>3. /\ wire' \in WireSet /\ wire'.state # "broken" /\ (wire'.left = 0 <=> wire'.kind = "none")
      /\ n = 0 => wire' = wire
      /\ n > 0 => /\ wire'.left = CtlLen - c.pos - n
                  /\ wire'.kind = IF wire'.left = 0 THEN "none" ELSE c.kind
      /\ wire'.closed => c.kind = "close" /\ c.pos + n = CtlLen
  <2>1. /\ wire \in WireSet /\ wire.state # "broken" /\ ~wire.closed
        /\ (wire.left = 0 <=> wire.kind = "none")
    BY DEF Records, Parser, Follows
  <2>2. /\ c.kind \in {"pong", "close", "app"} /\ c.pos \in Nat /\ c.pos < CtlLen
        /\ c.pos = 0 => wire.left = 0 \/ (wire.kind = "pong" /\ c.kind = "close")
        /\ c.pos > 0 => wire.kind = c.kind /\ wire.left = CtlLen - c.pos
    BY <1>0 DEF Follows
  <2> QED BY <1>0, <1>1, <2>1, <2>2, EmitFacts
<1>4. CASE n = CtlLen - c.pos
  <2>1. ctl' = NoCtl /\ ctl'.kind = "none" /\ ctl'.pos = 0 /\ ctl' \in CtlSet
    BY <1>1, <1>4, NoRecords
  <2>2. wire'.left = 0 BY <1>0, <1>3, <1>4
  <2> QED BY <1>2, <1>3, <2>1, <2>2 DEF Parser
<1>5. CASE n # CtlLen - c.pos
  <2>1. ctl' = [c EXCEPT !.pos = @ + n] BY <1>1, <1>5
  <2>2. ctl' \in CtlSet /\ ctl'.kind = c.kind /\ ctl'.pos = c.pos + n
    BY <1>0, <1>1, <1>5, <2>1 DEF CtlSet, Follows
  <2>3. ctl' # NoCtl BY <1>0, <2>2, NoRecords
  <2>4. ctl'.pos > 0 => wire'.kind = ctl'.kind /\ wire'.left = CtlLen - ctl'.pos
    <3>1. CASE n = 0 BY <1>0, <1>3, <2>2, <3>1 DEF Follows
    <3>2. CASE n > 0 BY <1>0, <1>1, <1>3, <1>5, <2>2, <3>2
    <3> QED BY <1>1, <3>1, <3>2
  <2>5. ctl'.pos = 0 => wire'.left = 0 \/ (wire'.kind = "pong" /\ ctl'.kind = "close")
    BY <1>0, <1>1, <1>3, <2>2 DEF Follows
  <2>6. ~wire'.closed BY <1>0, <1>1, <1>3, <1>5
  <2>7. wire'.left \in Nat BY <1>3 DEF WireSet
  <2> QED BY <1>0, <1>2, <1>3, <1>5, <2>2, <2>3, <2>4, <2>5, <2>6, <2>7 DEF Parser
<1> QED BY <1>4, <1>5

\* The locals of process_proxy and of its second half are reset.
LEMMA BeginFacts ==
  ASSUME Sockets, Begin
  PROVE  pc' = "prefix" /\ loc' \in LocSet /\ loc'.seen = eof
         /\ loc'.size = 0 /\ loc'.got = 0 /\ loc'.frames = 0
BY SeenLoc DEF Begin, Sockets

\* The same for the direction to the client.
LEMMA ToClientFacts ==
  ASSUME Records, ToClient
  PROVE  pc' = "toClient" /\ loc' \in LocSet /\ loc'.seen = loc.seen
         /\ loc'.size = 0 /\ loc'.got = 0 /\ loc'.frames = 0
<1>1. loc.seen \in [Sides -> BOOLEAN] BY DEF Records, LocSet
<1> QED BY <1>1, SeenLoc DEF ToClient

\* client_recv is over.
Back(g) ==
  /\ loc' \in LocSet /\ loc'.seen = loc.seen
  /\ loc'.size = 0 /\ loc'.got = 0 /\ loc'.frames = 0
  /\ pc' = IF g = 0 THEN "toClient" ELSE "toUp"

\* The locals when client_recv returns what it has.
LEMMA CutLoc ==
  ASSUME NEW l \in LocSet, NEW g \in Nat, l.loops < MaxLoops, l.bytes + g <= Limit,
         NEW k, k = [l EXCEPT !.loops = @ + 1, !.bytes = @ + g,
                              !.size = 0, !.got = 0, !.frames = 0]
  PROVE  k \in LocSet /\ k.seen = l.seen /\ k.size = 0 /\ k.got = 0 /\ k.frames = 0
<1>1. /\ MaxLoops \in Nat /\ Limit \in Nat /\ l.loops \in Nat /\ l.bytes \in Nat
      /\ l.loops + 1 \in 0 .. MaxLoops /\ l.bytes + g \in 0 .. Limit
  BY Constants DEF LocSet
<1> DEFINE x == l.loops + 1
           y == l.bytes + g
<1>2. x \in 0 .. MaxLoops /\ y \in 0 .. Limit BY <1>1
<1>3. k = [l EXCEPT !.loops = x, !.bytes = y, !.size = 0, !.got = 0, !.frames = 0]
  OBVIOUS
<1>4. l = [seen |-> l.seen, loops |-> l.loops, bytes |-> l.bytes, size |-> l.size,
           got |-> l.got, frames |-> l.frames]
  BY DEF LocSet
<1> HIDE DEF x, y
<1>5. k = [seen |-> l.seen, loops |-> x, bytes |-> y, size |-> 0, got |-> 0, frames |-> 0]
  BY <1>3, <1>4
<1> QED BY <1>2, <1>5 DEF LocSet

\* client_recv returns: to the send, or to the other direction.
LEMMA ReturnsFacts ==
  ASSUME Records, Recv, pc = "frames", NEW g \in 0 .. loc.size, Returns(g)
  PROVE  Back(g)
<1>1. loc.size \in Nat /\ loc.bytes \in Nat /\ Limit \in Nat BY Constants DEF Records, LocSet
<1>2. CASE g = 0 BY <1>2, ToClientFacts DEF Returns, Back
<1>3. CASE g # 0
  <2>1. pc' = "toUp" /\ loc' = [loc EXCEPT !.loops = @ + 1, !.bytes = @ + g,
                                           !.size = 0, !.got = 0, !.frames = 0]
    BY <1>3 DEF Returns
  <2>2. g \in Nat /\ loc.loops < MaxLoops /\ loc.bytes + g <= Limit BY <1>1 DEF Recv
  <2>3. loc \in LocSet BY DEF Records
  <2> QED BY <1>3, <2>1, <2>2, <2>3, CutLoc DEF Back
<1> QED BY <1>2, <1>3

\* A control frame is queued, and sent as far as the client takes it.
Answered ==
  /\ ctl' \in CtlSet /\ wire' \in WireSet /\ Parser' /\ AppFrame'
  /\ wr' \in [Sides -> BOOLEAN] /\ room' \in [Sides -> BOOLEAN]
  /\ wr'["upstream"] = wr["upstream"] /\ (wr'["client"] => wr["client"])
  /\ ctl'.kind # "none" => ~wr'["client"] \/ app.on \/ ctl.kind # "none"

\* websocket_queue_control.
LEMMA QueueFacts ==
  ASSUME Shape, Wired, ~closing, NEW kind \in {"pong", "close"}, QueueControl(kind),
         UNCHANGED <<app, ub>>
  PROVE  /\ Answered
         /\ ctl'.kind = "close" \/ wire'.closed => kind = "close"
<1> DEFINE c == [kind |-> kind, pos |-> 0]
<1>1. c \in CtlSet /\ c.kind = kind /\ c.pos = 0 BY Constants DEF CtlSet
<1>2. /\ Sockets /\ Records /\ Parser /\ AppFrame /\ ~wire.closed /\ ctl.kind # "close"
      /\ ctl \in CtlSet /\ ctl.pos \in Nat /\ wire.left \in Nat
  BY Constants DEF Shape, Wired, Records, CtlSet, WireSet
<1>3. CASE Keeps(kind)
  <2>1. UNCHANGED <<ctl, wire, room, wr>> BY <1>3 DEF QueueControl
  <2> QED BY <1>2, <2>1 DEF Parser, AppFrame, Sockets, Records, Answered
<1>4. CASE ~Keeps(kind)
  <2>1. kind = "close" \/ ctl.pos = 0 BY <1>2, <1>4 DEF Keeps
  <2>2. ~app.on => wire.left = 0 \/ (wire.kind = "pong" /\ kind = "close")
    <3>1. ctl.kind \in {"none", "pong"} BY <1>2 DEF CtlSet
    <3> QED BY <1>2, <2>1, <3>1 DEF Parser
  <2>3. CASE wr["client"] /\ ~app.on
    <3>1. PICK n : Flush(c, n) BY <1>4, <2>3 DEF QueueControl, AppPending
    <3>2. Follows(c) BY <1>1, <1>2, <2>2, <2>3 DEF Follows
    <3> HIDE DEF c
    <3>3. /\ ctl' \in CtlSet /\ wire' \in WireSet /\ Parser'
          /\ wr' \in [Sides -> BOOLEAN] /\ room' \in [Sides -> BOOLEAN]
          /\ wr'["upstream"] = wr["upstream"] /\ (wr'["client"] => wr["client"])
          /\ ctl'.kind # "none" => ctl'.kind = c.kind /\ ~wr'["client"]
          /\ wire'.closed => c.kind = "close"
      BY <1>2, <2>3, <3>1, <3>2, FlushFacts
    <3>4. AppFrame' BY <2>3 DEF AppFrame
    <3> QED BY <1>1, <3>3, <3>4 DEF Answered
  <2>4. CASE ~(wr["client"] /\ ~app.on)
    <3>1. ctl' = c /\ UNCHANGED <<wire, room, wr>>
      BY <1>4, <2>4 DEF QueueControl, AppPending
    <3>2. ctl'.kind = kind /\ ctl'.pos = 0 /\ ctl' \in CtlSet BY <1>1, <3>1
    <3>3. Parser' BY <1>2, <2>2, <3>1, <3>2 DEF Parser
    <3>4. AppFrame' BY <1>2, <3>1, <3>2 DEF AppFrame, Paid
    <3> QED BY <1>2, <2>4, <3>1, <3>2, <3>3, <3>4 DEF Sockets, Records, Answered
  <2> QED BY <2>3, <2>4
<1> QED BY <1>3, <1>4

\* A frame is handled, with g bytes received so far.
Handled(g) ==
  /\ Answered
  /\ closing' \in BOOLEAN
  /\ ctl'.kind = "close" \/ wire'.closed => closing'
  /\ posted \subseteq posted' /\ posted' \subseteq {"read", "write", "upstream"}
  /\ closing' => "write" \in posted'
  /\ loc' \in LocSet /\ loc'.seen = loc.seen
  /\ \/ /\ pc' = "frames" /\ ~closing' /\ loc'.got = g
        /\ loc'.size = loc.size /\ loc'.bytes = loc.bytes /\ loc'.loops = loc.loops
        /\ loc'.frames < MaxFrames
     \/ /\ pc' \in {"toUp", "toClient"} /\ (pc' = "toClient" => g = 0)
        /\ loc'.size = 0 /\ loc'.got = 0 /\ loc'.frames = 0
        /\ "read" \in posted' \/ closing'

\* websocket_count_frame.
LEMMA CountedFacts ==
  ASSUME Shape, Recv, Wired, pc = "frames", NEW l \in LocSet, l.seen = loc.seen,
         l.size = loc.size, l.bytes = loc.bytes, l.loops = loc.loops,
         l.frames = loc.frames, l.got <= loc.size, Counted(l),
         Answered, closing' = closing, ctl'.kind = "close" \/ wire'.closed => closing
  PROVE  Handled(l.got)
<1>1. /\ l.frames \in Nat /\ l.got \in Nat /\ MaxFrames \in Nat /\ closing = FALSE
      /\ posted \subseteq {"read", "write", "upstream"}
      /\ l.loops < MaxLoops /\ l.bytes + l.got <= Limit
  BY Constants DEF LocSet, Recv, Shape, Flags, Records
<1>2. CASE l.frames + 1 < MaxFrames
  <2>1. pc' = "frames" /\ loc' = [l EXCEPT !.frames = @ + 1] /\ posted' = posted
    BY <1>2 DEF Counted
  <2>2. /\ loc' \in LocSet /\ loc'.seen = l.seen /\ loc'.got = l.got /\ loc'.size = l.size
        /\ loc'.bytes = l.bytes /\ loc'.loops = l.loops /\ loc'.frames < MaxFrames
    <3> DEFINE f == l.frames + 1
    <3>1. f \in Nat /\ f < MaxFrames BY <1>1, <1>2
    <3>2. loc' = [l EXCEPT !.frames = f] BY <2>1
    <3> HIDE DEF f
    <3> QED BY <3>1, <3>2 DEF LocSet
  <2> QED BY <1>1, <2>1, <2>2 DEF Handled
<1>3. CASE ~(l.frames + 1 < MaxFrames)
  <2>1. posted' = posted \cup {"read"} BY <1>3 DEF Counted
  <2>2. CASE l.got = 0
    <3>1. ToClient BY <1>3, <2>2 DEF Counted
    <3>2. Records BY DEF Shape
    <3> QED BY <1>1, <2>1, <2>2, <3>1, <3>2, ToClientFacts DEF Handled
  <2>3. CASE l.got # 0
    <3>1. pc' = "toUp" /\ loc' = [l EXCEPT !.loops = @ + 1, !.bytes = @ + l.got,
                                           !.size = 0, !.got = 0, !.frames = 0]
      BY <1>3, <2>3 DEF Counted
    <3>2. /\ loc' \in LocSet /\ loc'.seen = l.seen
          /\ loc'.size = 0 /\ loc'.got = 0 /\ loc'.frames = 0
      BY <1>1, <3>1, CutLoc
    <3> QED BY <1>1, <2>1, <3>1, <3>2 DEF Handled
  <2> QED BY <2>2, <2>3
<1> QED BY <1>2, <1>3

\* The closing handshake begins.
LEMMA ClosesFacts ==
  ASSUME Shape, Recv, Wired, pc = "frames", UNCHANGED <<app, ub>>, Closes
  PROVE  Handled(loc.got)
<1>1. /\ closing' = TRUE /\ posted' = posted \cup {"write"} /\ QueueControl("close")
      /\ Returns(loc.got)
  BY DEF Closes, PostsWrite
<1>2. Answered BY <1>1, QueueFacts DEF Recv
<1>3. loc.got \in 0 .. loc.size /\ Records /\ posted \subseteq {"read", "write", "upstream"}
  BY DEF Shape, Records, LocSet, Recv, Flags
<1>4. Back(loc.got) BY <1>1, <1>3, ReturnsFacts
<1> QED BY <1>1, <1>2, <1>3, <1>4 DEF Handled, Back

\* websocket_handle_frame_end.
LEMMA FrameEndsFacts ==
  ASSUME Shape, Recv, Wired, pc = "frames", UNCHANGED <<app, ub>>,
         NEW kind \in Data \cup {"ping", "pong", "close"}, NEW f \in BOOLEAN,
         NEW l \in LocSet, l.seen = loc.seen, l.size = loc.size, l.bytes = loc.bytes,
         l.loops = loc.loops, l.frames = loc.frames, l.got <= loc.size,
         kind = "close" => l = loc, FrameEnds(kind, f, l)
  PROVE  Handled(l.got) /\ fr' = NoFrame /\ frag' \in BOOLEAN
<1>1. fr' = NoFrame /\ frag' \in BOOLEAN BY DEF FrameEnds, Shape, Flags
<1>2. CASE kind = "close"
  <2>1. Closes BY <1>2 DEF FrameEnds
  <2> QED BY <1>1, <1>2, <2>1, ClosesFacts
<1>3. CASE kind = "ping"
  <2>1. QueueControl("pong") /\ Counted(l) /\ closing' = closing BY <1>3 DEF FrameEnds
  <2>2. Answered /\ (ctl'.kind = "close" \/ wire'.closed => closing)
    BY <2>1, QueueFacts DEF Recv
  <2> QED BY <1>1, <2>1, <2>2, CountedFacts
<1>4. CASE kind # "close" /\ kind # "ping"
  <2>1. Counted(l) /\ UNCHANGED <<closing, ctl, wire, room, wr>> BY <1>4 DEF FrameEnds
  <2>2. Answered /\ (ctl'.kind = "close" \/ wire'.closed => closing)
    BY <2>1 DEF Answered, Shape, Records, Sockets, Wired, Parser, AppFrame, Paid
  <2> QED BY <1>1, <2>1, <2>2, CountedFacts
<1> QED BY <1>2, <1>3, <1>4

\* What Numbers makes of received tokens.
LEMMA NumbersFacts ==
  ASSUME NEW q \in Seq(Tokens)
  PROVE  Numbers(q) \in Seq(Nat) /\ Len(Numbers(q)) = Len(q)
<1>1. \A i \in 1 .. Len(q) : IsByte(q[i]) => q[i].n \in Nat
  <2> SUFFICES ASSUME NEW i \in 1 .. Len(q), q[i].is = "byte" PROVE q[i].n \in Nat BY DEF IsByte
  <2>1. q[i] \in Tokens OBVIOUS
  <2> QED BY <2>1 DEF Tokens
<1> QED BY <1>1 DEF Numbers

\* The queued control frame may follow what has been sent.
LEMMA FollowsCtl ==
  ASSUME Records, Parser, ~app.on, ctl.kind # "none"
  PROVE  Follows(ctl)
BY Constants DEF Records, Parser, Follows, CtlSet, WireSet

\* The payload bytes of a queue are finitely many.
LEMMA HeldFinite ==
  ASSUME NEW q \in Seq(Tokens)
  PROVE  IsFiniteSet(Held(q)) /\ Cardinality(Held(q)) \in Nat
<1> DEFINE D == {j \in DOMAIN q : IsByte(q[j])}
           f == [j \in D |-> q[j].n]
<1>1. IsFiniteSet(1 .. Len(q)) BY FS_Interval
<1>2. D \subseteq 1 .. Len(q) OBVIOUS
<1>3. IsFiniteSet(D) BY <1>1, <1>2, FS_Subset
<1> HIDE DEF D
<1>4. Held(q) = {f[j] : j \in D} BY DEF Held, D
<1>5. f \in Surjection(D, Held(q)) BY <1>4 DEF Surjection
<1> HIDE DEF f
<1>6. IsFiniteSet(Held(q)) BY <1>3, <1>5, FS_Surjection
<1> QED BY <1>6, FS_CardinalityType

\* What the client writes is made of tokens.
LEMMA WritesTokens ==
  ASSUME made \in Nat, NEW w \in Writes
  PROVE  w \in Seq(Tokens)
<1>1. \A n \in Nat : Payload(n) \in Seq(Tokens) /\ Opaque(n) \in Seq(Tokens)
  <2> SUFFICES ASSUME NEW n \in Nat PROVE Payload(n) \in Seq(Tokens) /\ Opaque(n) \in Seq(Tokens)
    OBVIOUS
  <2>1. \A i \in 1 .. n : [is |-> "byte", n |-> made + i] \in Tokens BY DEF Tokens
  <2>2. [is |-> "ctl"] \in Tokens BY DEF Tokens
  <2>3. Payload(n) \in [1 .. n -> Tokens] BY <2>1 DEF Payload
  <2>4. Opaque(n) \in [1 .. n -> Tokens] BY <2>2 DEF Opaque
  <2> QED BY <2>3, <2>4, SeqDef
<1>2. \A h \in Heads : FrameOf(h) \in Seq(Tokens)
  <2> SUFFICES ASSUME NEW h \in Heads PROVE FrameOf(h) \in Seq(Tokens) OBVIOUS
  <2>1. h.len \in Nat /\ h.fin \in BOOLEAN /\ h.kind \in {"bin", "cont", "ping", "pong", "close", "bad"}
    BY Constants
  <2>2. [is |-> "half"] \in Tokens BY DEF Tokens
  <2>3. [is |-> "head", kind |-> h.kind, fin |-> h.fin, len |-> h.len] \in Tokens
    BY <2>1 DEF Tokens, Data
  <2>4. PICK a, b : /\ a = [is |-> "half"] /\ a \in Tokens
                    /\ b = [is |-> "head", kind |-> h.kind, fin |-> h.fin, len |-> h.len]
                    /\ b \in Tokens
    BY <2>2, <2>3
  <2>5. PICK t \in Seq(Tokens) : t = IF h.kind \in Data THEN Payload(h.len) ELSE Opaque(h.len)
    BY <1>1, <2>1
  <2>6. FrameOf(h) = <<a, b>> \o t BY <2>4, <2>5 DEF FrameOf
  <2>7. <<a, b>> \in Seq(Tokens) BY <2>4
  <2> QED BY <2>5, <2>6, <2>7
<1> QED BY <1>1, <1>2, Constants DEF Writes

\* A frame that is not complete leaves the handler where it is.
LEMMA StillHandled ==
  ASSUME Shape, Recv, Wired, pc = "frames",
         UNCHANGED <<app, ub, pc, loc, closing, posted, ctl, wire, room, wr>>
  PROVE  Handled(loc.got)
<1>1. Answered BY DEF Answered, Shape, Records, Sockets, Wired, Parser, AppFrame, Paid
<1> QED BY <1>1 DEF Handled, Shape, Flags, Records, Recv, Wired

\* A step of client_recv keeps Core.
LEMMA HandledCore ==
  ASSUME Shape, Recv, Wired, Outputs, pc = "frames", ws, NEW g \in Nat, Handled(g), g <= loc.size,
         cbuf' \in Seq(Nat), g = Len(cbuf'), UNCHANGED <<ws, app, ub, pend>>
  PROVE  Recv' /\ Wired' /\ Outputs' /\ Inputs'
<1>1. /\ pc' \in {"frames", "toUp", "toClient"}
      /\ pc' = "frames" => /\ ~closing' /\ loc'.got = g /\ loc'.size = loc.size
                           /\ loc'.bytes = loc.bytes /\ loc'.loops = loc.loops
                           /\ loc'.frames < MaxFrames
      /\ pc' # "frames" => loc'.size = 0 /\ loc'.got = 0 /\ loc'.frames = 0
      /\ pc' = "toClient" => g = 0 /\ ("read" \in posted' \/ closing')
  BY DEF Handled
<1>2. Recv' BY <1>1 DEF Recv
<1>3. Wired'
  <2>1. Parser' /\ AppFrame' /\ (ctl'.kind = "close" \/ wire'.closed => closing')
    BY DEF Handled, Answered
  <2> QED BY <1>1, <2>1 DEF Wired
<1>4. Outputs'
  <2>1. pc' = "toClient" => cbuf' = <<>> BY <1>1
  <2>2. /\ closing' => "write" \in posted'
        /\ wr'["upstream"] = wr["upstream"] /\ (wr'["client"] => wr["client"])
        /\ ctl'.kind # "none" => ~wr'["client"] \/ app.on \/ ctl.kind # "none"
        /\ posted \subseteq posted'
    BY DEF Handled, Answered
  <2>3. /\ pend # <<>> => ~wr["upstream"]
        /\ ctl.kind # "none" => ~wr["client"] \/ "write" \in posted \/ app.on
    BY DEF Outputs
  <2> QED BY <1>1, <2>1, <2>2, <2>3 DEF Outputs
<1>5. Inputs' BY <1>1 DEF Inputs, InputComes
<1> QED BY <1>2, <1>3, <1>4, <1>5

\* The smaller of two numbers.
LEMMA SmallerFacts ==
  ASSUME NEW a \in Nat, NEW b \in Nat
  PROVE  /\ Smaller(a, b) \in Nat /\ Smaller(a, b) <= a /\ Smaller(a, b) <= b
         /\ Smaller(a, b) = a \/ Smaller(a, b) = b
BY DEF Smaller

----------------------------------------------------------------------------
(* Core, one lemma per action.                                            *)

\* UpstreamArrives keeps Core.
LEMMA UpstreamArrivesCore ==
  ASSUME Core, UpstreamArrives
  PROVE  Core'
<1>1. Shape /\ Flags /\ Sockets /\ Buffers /\ Records /\ Recv /\ Wired /\ Seen /\ Outputs /\ Inputs
  BY DEF Core, Shape
<1>11. Flags'
  BY Constants, <1>1
  DEF Flags, control, reading, toUpVars, UpstreamArrives, Sides, Pcs
<1>12. Sockets'
  BY Constants, <1>1
  DEF Sockets, UpstreamArrives, Sides
<1>13. Buffers'
  BY Constants, <1>1
  DEF Buffers, reading, toUpVars, toCliVars, clientNet, upNet, UpstreamArrives, Sides
<1>14. Records'
  BY Constants, <1>1
  DEF Records, reading, toCliVars, UpstreamArrives, Sides
<1>15. Recv'
  BY Constants, <1>1
  DEF Flags, Records, Buffers, Recv, control, toUpVars, UpstreamArrives, Sides
<1>16. Wired'
  BY Constants, <1>1
  DEF Flags, Records, Buffers, Recv, Wired, Parser, AppFrame, Paid, control, toCliVars,
      UpstreamArrives, Sides
<1>17. Seen'
  BY Constants, <1>1
  DEF Flags, Sockets, Buffers, Recv, Seen, ClientWaits, UpWaits, reading, control, clientNet,
      upNet, UpstreamArrives, Sides
<1>18. Outputs'
  BY Constants, <1>1
  DEF Flags, Sockets, Buffers, Records, Recv, Wired, AppFrame, Outputs, control, toUpVars,
      toCliVars, UpstreamArrives, Sides
<1>19. Inputs'
  BY Constants, <1>1
  DEF Flags, Sockets, Buffers, Recv, Seen, Outputs, Inputs, InputComes, ClientWaits, UpWaits,
      Due, Unread, control, reading, toUpVars, toCliVars, clientNet, upNet, UpstreamArrives,
      Sides
<1> QED BY <1>11, <1>12, <1>13, <1>14, <1>15, <1>16, <1>17, <1>18, <1>19 DEF Core, Shape

\* PeerEnds keeps Core.
LEMMA PeerEndsCore ==
  ASSUME Core, NEW s \in Sides, PeerEnds(s)
  PROVE  Core'
<1>1. Shape /\ Flags /\ Sockets /\ Buffers /\ Records /\ Recv /\ Wired /\ Seen /\ Outputs /\ Inputs
  BY DEF Core, Shape
<1>11. Flags'
  BY Constants, <1>1
  DEF Flags, control, reading, toUpVars, PeerEnds, Sides, Pcs
<1>12. Sockets'
  BY Constants, <1>1
  DEF Sockets, PeerEnds, Sides
<1>13. Buffers'
  BY Constants, <1>1
  DEF Buffers, reading, toUpVars, toCliVars, clientNet, upNet, PeerEnds, Sides
<1>14. Records'
  BY Constants, <1>1
  DEF Records, reading, toCliVars, PeerEnds, Sides
<1>15. Recv'
  BY Constants, <1>1
  DEF Flags, Records, Buffers, Recv, control, toUpVars, PeerEnds, Sides
<1>16. Wired'
  BY Constants, <1>1
  DEF Flags, Records, Buffers, Recv, Wired, Parser, AppFrame, Paid, control, toCliVars, PeerEnds,
      Sides
<1>17. Seen'
  BY Constants, <1>1
  DEF Flags, Sockets, Buffers, Recv, Seen, ClientWaits, UpWaits, reading, control, clientNet,
      upNet, PeerEnds, Sides
<1>18. Outputs'
  BY Constants, <1>1
  DEF Flags, Sockets, Buffers, Records, Recv, Wired, AppFrame, Outputs, control, toUpVars,
      toCliVars, PeerEnds, Sides
<1>19. Inputs'
  BY Constants, <1>1
  DEF Flags, Sockets, Buffers, Recv, Seen, Outputs, Inputs, InputComes, ClientWaits, UpWaits,
      Due, Unread, control, reading, toUpVars, toCliVars, clientNet, upNet, PeerEnds, Sides
<1> QED BY <1>11, <1>12, <1>13, <1>14, <1>15, <1>16, <1>17, <1>18, <1>19 DEF Core, Shape

\* SocketDrains keeps Core.
LEMMA SocketDrainsCore ==
  ASSUME Core, NEW s \in Sides, SocketDrains(s)
  PROVE  Core'
<1>1. Shape /\ Flags /\ Sockets /\ Buffers /\ Records /\ Recv /\ Wired /\ Seen /\ Outputs /\ Inputs
  BY DEF Core, Shape
<1>11. Flags'
  BY Constants, <1>1
  DEF Flags, control, reading, toUpVars, SocketDrains, Sides, Pcs
<1>12. Sockets'
  BY Constants, <1>1
  DEF Sockets, SocketDrains, Sides
<1>13. Buffers'
  BY Constants, <1>1
  DEF Buffers, reading, toUpVars, toCliVars, clientNet, upNet, SocketDrains, Sides
<1>14. Records'
  BY Constants, <1>1
  DEF Records, reading, toCliVars, SocketDrains, Sides
<1>15. Recv'
  BY Constants, <1>1
  DEF Flags, Records, Buffers, Recv, control, toUpVars, SocketDrains, Sides
<1>16. Wired'
  BY Constants, <1>1
  DEF Flags, Records, Buffers, Recv, Wired, Parser, AppFrame, Paid, control, toCliVars,
      SocketDrains, Sides
<1>17. Seen'
  BY Constants, <1>1
  DEF Flags, Sockets, Buffers, Recv, Seen, ClientWaits, UpWaits, reading, control, clientNet,
      upNet, SocketDrains, Sides
<1>18. Outputs'
  BY Constants, <1>1
  DEF Flags, Sockets, Buffers, Records, Recv, Wired, AppFrame, Outputs, control, toUpVars,
      toCliVars, SocketDrains, Sides
<1>19. Inputs'
  BY Constants, <1>1
  DEF Flags, Sockets, Buffers, Recv, Seen, Outputs, Inputs, InputComes, ClientWaits, UpWaits,
      Due, Unread, control, reading, toUpVars, toCliVars, clientNet, upNet, SocketDrains, Sides
<1> QED BY <1>11, <1>12, <1>13, <1>14, <1>15, <1>16, <1>17, <1>18, <1>19 DEF Core, Shape

\* Readable keeps Core.
LEMMA ReadableCore ==
  ASSUME Core, NEW s \in Sides, Readable(s)
  PROVE  Core'
<1>1. Shape /\ Flags /\ Sockets /\ Buffers /\ Records /\ Recv /\ Wired /\ Seen /\ Outputs /\ Inputs
  BY DEF Core, Shape
<1>2. /\ pc' = IF s = "client" THEN "gate" ELSE "prefix"
      /\ loc' \in LocSet /\ loc'.size = 0 /\ loc'.got = 0 /\ loc'.frames = 0
      /\ \A x \in Sides : loc'.seen[x] => eof[x]
      /\ pc' = "prefix" => loc'.seen = eof
  BY <1>1, BeginFacts DEF Readable, Enter, Recv, Seen, Records
<1>11. Flags'
  BY Constants, <1>1, <1>2
  DEF Flags, control, reading, toUpVars, Readable, Sides, Pcs
<1>12. Sockets'
  BY Constants, <1>1, <1>2
  DEF Sockets, Readable, Sides
<1>13. Buffers'
  BY Constants, <1>1, <1>2
  DEF Buffers, reading, toUpVars, toCliVars, clientNet, upNet, Readable, Sides
<1>14. Records'
  BY Constants, <1>1, <1>2
  DEF Records, reading, toCliVars, Readable, Sides
<1>15. Recv'
  BY Constants, <1>1, <1>2
  DEF Flags, Records, Buffers, Recv, control, toUpVars, Readable, Sides
<1>16. Wired'
  BY Constants, <1>1, <1>2
  DEF Flags, Records, Buffers, Recv, Wired, Parser, AppFrame, Paid, control, toCliVars, Readable,
      Sides
<1>17. Seen'
  BY Constants, <1>1, <1>2
  DEF Flags, Sockets, Buffers, Recv, Seen, ClientWaits, UpWaits, reading, control, clientNet,
      upNet, Readable, Sides
<1>18. Outputs'
  BY Constants, <1>1, <1>2
  DEF Flags, Sockets, Buffers, Records, Recv, Wired, AppFrame, Outputs, control, toUpVars,
      toCliVars, Readable, Sides
<1>19. Inputs'
  BY Constants, <1>1, <1>2
  DEF Flags, Sockets, Buffers, Recv, Seen, Outputs, Inputs, InputComes, ClientWaits, UpWaits,
      Due, Unread, control, reading, toUpVars, toCliVars, clientNet, upNet, Readable, Sides
<1> QED BY <1>11, <1>12, <1>13, <1>14, <1>15, <1>16, <1>17, <1>18, <1>19 DEF Core, Shape

\* Writable keeps Core.
LEMMA WritableCore ==
  ASSUME Core, NEW s \in Sides, Writable(s)
  PROVE  Core'
<1>1. Shape /\ Flags /\ Sockets /\ Buffers /\ Records /\ Recv /\ Wired /\ Seen /\ Outputs /\ Inputs
  BY DEF Core, Shape
<1>2. /\ pc' = IF s = "client" THEN "gate" ELSE "prefix"
      /\ loc' \in LocSet /\ loc'.size = 0 /\ loc'.got = 0 /\ loc'.frames = 0
      /\ \A x \in Sides : loc'.seen[x] => eof[x]
      /\ pc' = "prefix" => loc'.seen = eof
  BY <1>1, BeginFacts DEF Writable, Enter, Recv, Seen, Records
<1>11. Flags'
  BY Constants, <1>1, <1>2
  DEF Flags, control, reading, toUpVars, Writable, Sides, Pcs
<1>12. Sockets'
  BY Constants, <1>1, <1>2
  DEF Sockets, Writable, Sides
<1>13. Buffers'
  BY Constants, <1>1, <1>2
  DEF Buffers, reading, toUpVars, toCliVars, clientNet, upNet, Writable, Sides
<1>14. Records'
  BY Constants, <1>1, <1>2
  DEF Records, reading, toCliVars, Writable, Sides
<1>15. Recv'
  BY Constants, <1>1, <1>2
  DEF Flags, Records, Buffers, Recv, control, toUpVars, Writable, Sides
<1>16. Wired'
  BY Constants, <1>1, <1>2
  DEF Flags, Records, Buffers, Recv, Wired, Parser, AppFrame, Paid, control, toCliVars, Writable,
      Sides
<1>17. Seen'
  BY Constants, <1>1, <1>2
  DEF Flags, Sockets, Buffers, Recv, Seen, ClientWaits, UpWaits, reading, control, clientNet,
      upNet, Writable, Sides
<1>18. Outputs'
  BY Constants, <1>1, <1>2
  DEF Flags, Sockets, Buffers, Records, Recv, Wired, AppFrame, Outputs, control, toUpVars,
      toCliVars, Writable, Sides
<1>19. Inputs'
  BY Constants, <1>1, <1>2
  DEF Flags, Sockets, Buffers, Recv, Seen, Outputs, Inputs, InputComes, ClientWaits, UpWaits,
      Due, Unread, control, reading, toUpVars, toCliVars, clientNet, upNet, Writable, Sides
<1> QED BY <1>11, <1>12, <1>13, <1>14, <1>15, <1>16, <1>17, <1>18, <1>19 DEF Core, Shape

\* PostedEvent keeps Core.
LEMMA PostedEventCore ==
  ASSUME Core, NEW e \in posted, PostedEvent(e)
  PROVE  Core'
<1>1. Shape /\ Flags /\ Sockets /\ Buffers /\ Records /\ Recv /\ Wired /\ Seen /\ Outputs /\ Inputs
  BY DEF Core, Shape
<1>2. /\ pc' = IF e # "upstream" THEN "gate" ELSE "prefix"
      /\ loc' \in LocSet /\ loc'.size = 0 /\ loc'.got = 0 /\ loc'.frames = 0
      /\ \A x \in Sides : loc'.seen[x] => eof[x]
      /\ pc' = "prefix" => loc'.seen = eof
  BY <1>1, BeginFacts DEF PostedEvent, Enter, Recv, Seen, Records
<1>11. Flags'
  BY Constants, <1>1, <1>2
  DEF Flags, control, reading, toUpVars, PostedEvent, Sides, Pcs
<1>12. Sockets'
  BY Constants, <1>1, <1>2
  DEF Sockets, PostedEvent, Sides
<1>13. Buffers'
  BY Constants, <1>1, <1>2
  DEF Buffers, reading, toUpVars, toCliVars, clientNet, upNet, PostedEvent, Sides
<1>14. Records'
  BY Constants, <1>1, <1>2
  DEF Records, reading, toCliVars, PostedEvent, Sides
<1>15. Recv'
  BY Constants, <1>1, <1>2
  DEF Flags, Records, Buffers, Recv, control, toUpVars, PostedEvent, Sides
<1>16. Wired'
  BY Constants, <1>1, <1>2
  DEF Flags, Records, Buffers, Recv, Wired, Parser, AppFrame, Paid, control, toCliVars,
      PostedEvent, Sides
<1>17. Seen'
  BY Constants, <1>1, <1>2
  DEF Flags, Sockets, Buffers, Recv, Seen, ClientWaits, UpWaits, reading, control, clientNet,
      upNet, PostedEvent, Sides
<1>18. Outputs'
  BY Constants, <1>1, <1>2
  DEF Flags, Sockets, Buffers, Records, Recv, Wired, AppFrame, Outputs, control, toUpVars,
      toCliVars, PostedEvent, Sides
<1>19. Inputs'
  BY Constants, <1>1, <1>2
  DEF Flags, Sockets, Buffers, Recv, Seen, Outputs, Inputs, InputComes, ClientWaits, UpWaits,
      Due, Unread, control, reading, toUpVars, toCliVars, clientNet, upNet, PostedEvent, Sides
<1> QED BY <1>11, <1>12, <1>13, <1>14, <1>15, <1>16, <1>17, <1>18, <1>19 DEF Core, Shape

\* Relays keeps Core.
LEMMA RelaysCore ==
  ASSUME Core, Relays
  PROVE  Core'
<1>1. Shape /\ Flags /\ Sockets /\ Buffers /\ Records /\ Recv /\ Wired /\ Seen /\ Outputs /\ Inputs
  BY DEF Core, Shape
<1>2. pc' = "prefix" /\ loc' \in LocSet /\ loc'.seen = eof
      /\ loc'.size = 0 /\ loc'.got = 0 /\ loc'.frames = 0
  BY <1>1, BeginFacts DEF Relays
<1>11. Flags'
  BY Constants, <1>1, <1>2
  DEF Flags, control, reading, toUpVars, Relays, Gated, NothingToFlush, AppPending, Sides, Pcs
<1>12. Sockets'
  BY Constants, <1>1, <1>2
  DEF Sockets, Relays, Gated, NothingToFlush, AppPending, Sides
<1>13. Buffers'
  BY Constants, <1>1, <1>2
  DEF Buffers, reading, toUpVars, toCliVars, clientNet, upNet, Relays, Gated, NothingToFlush,
      AppPending, Sides
<1>14. Records'
  BY Constants, <1>1, <1>2
  DEF Records, reading, toCliVars, Relays, Gated, NothingToFlush, AppPending, Sides
<1>15. Recv'
  BY Constants, <1>1, <1>2
  DEF Flags, Records, Buffers, Recv, control, toUpVars, Relays, Gated, NothingToFlush,
      AppPending, Sides
<1>16. Wired'
  BY Constants, <1>1, <1>2
  DEF Flags, Records, Buffers, Recv, Wired, Parser, AppFrame, Paid, control, toCliVars, Relays,
      Gated, NothingToFlush, AppPending, Sides
<1>17. Seen'
  BY Constants, <1>1, <1>2
  DEF Flags, Sockets, Buffers, Recv, Seen, ClientWaits, UpWaits, reading, control, clientNet,
      upNet, Relays, Gated, NothingToFlush, AppPending, Sides
<1>18. Outputs'
  BY Constants, <1>1, <1>2
  DEF Flags, Sockets, Buffers, Records, Recv, Wired, AppFrame, Outputs, control, toUpVars,
      toCliVars, Relays, Gated, NothingToFlush, AppPending, Sides
<1>19. Inputs'
  BY Constants, <1>1, <1>2
  DEF Flags, Sockets, Buffers, Recv, Seen, Outputs, Inputs, InputComes, ClientWaits, UpWaits,
      Due, Unread, control, reading, toUpVars, toCliVars, clientNet, upNet, Relays, Gated,
      NothingToFlush, AppPending, Sides
<1> QED BY <1>11, <1>12, <1>13, <1>14, <1>15, <1>16, <1>17, <1>18, <1>19 DEF Core, Shape

\* TakeHalf keeps Core.
LEMMA TakeHalfCore ==
  ASSUME Core, TakeHalf
  PROVE  Core'
<1>1. Shape /\ Flags /\ Sockets /\ Buffers /\ Records /\ Recv /\ Wired /\ Seen /\ Outputs /\ Inputs
  BY DEF Core, Shape
<1>11. Flags'
  BY Constants, <1>1
  DEF Flags, control, reading, toUpVars, TakeHalf, Wants, Sides, Pcs
<1>12. Sockets'
  BY Constants, <1>1
  DEF Sockets, TakeHalf, Wants, Sides
<1>13. Buffers'
  BY Constants, <1>1
  DEF Buffers, reading, toUpVars, toCliVars, clientNet, upNet, TakeHalf, Wants, Sides
<1>14. Records'
  BY Constants, <1>1
  DEF Records, reading, toCliVars, TakeHalf, Wants, Sides
<1>15. Recv'
  BY Constants, <1>1
  DEF Flags, Records, Buffers, Recv, control, toUpVars, TakeHalf, Wants, Sides
<1>16. Wired'
  BY Constants, <1>1
  DEF Flags, Records, Buffers, Recv, Wired, Parser, AppFrame, Paid, control, toCliVars, TakeHalf,
      Wants, Sides
<1>17. Seen'
  BY Constants, <1>1
  DEF Flags, Sockets, Buffers, Recv, Seen, ClientWaits, UpWaits, reading, control, clientNet,
      upNet, TakeHalf, Wants, Sides
<1>18. Outputs'
  BY Constants, <1>1
  DEF Flags, Sockets, Buffers, Records, Recv, Wired, AppFrame, Outputs, control, toUpVars,
      toCliVars, TakeHalf, Wants, Sides
<1>19. Inputs'
  BY Constants, <1>1
  DEF Flags, Sockets, Buffers, Recv, Seen, Outputs, Inputs, InputComes, ClientWaits, UpWaits,
      Due, Unread, control, reading, toUpVars, toCliVars, clientNet, upNet, TakeHalf, Wants,
      Sides
<1> QED BY <1>11, <1>12, <1>13, <1>14, <1>15, <1>16, <1>17, <1>18, <1>19 DEF Core, Shape

\* SendPrefix keeps Core.
LEMMA SendPrefixCore ==
  ASSUME Core, SendPrefix
  PROVE  Core'
<1>1. Shape /\ Flags /\ Sockets /\ Buffers /\ Records /\ Recv /\ Wired /\ Seen /\ Outputs /\ Inputs
  BY DEF Core, Shape
<1>2. PICK n \in 0 .. Len(pend) :
        /\ Taken("upstream", n, Len(pend))
        /\ up' = up \o Take(pend, n) /\ pend' = Drop(pend, n)
  BY DEF SendPrefix
<1>3. /\ wr' \in [Sides -> BOOLEAN] /\ room' \in [Sides -> BOOLEAN]
      /\ wr'["client"] = wr["client"]
      /\ wr'["upstream"] => wr["upstream"] /\ n = Len(pend)
  BY <1>1, <1>2, TakenFacts, SideNames
<1>4. /\ up' \in Seq(Nat) /\ pend' \in Seq(Nat) /\ (n = Len(pend) => pend' = <<>>)
  <2>1. pend \in Seq(Nat) /\ up \in Seq(Nat) BY <1>1 DEF Buffers
  <2>2. PICK x \in Seq(Nat), y \in Seq(Nat) : x = Take(pend, n) /\ y = Drop(pend, n)
    BY <2>1, DropFacts, Zenon
  <2>3. up \o x \in Seq(Nat) BY <2>1
  <2>4. ASSUME n = Len(pend) PROVE y = <<>>
    <3>1. PICK q \in Seq(Nat) : q = pend BY <2>1
    <3>2. SubSeq(q, Len(q) + 1, Len(q)) = <<>> BY SubSeqEmpty
    <3> QED BY <2>2, <2>4, <3>1, <3>2, Zenon DEF Drop
  <2> QED BY <1>2, <2>2, <2>3, <2>4, Zenon
<1>11. Flags'
  <2>1. /\ pc' = "toUp" /\ shut' = shut /\ hdr' = hdr /\ frag' = frag
        /\ UNCHANGED <<ws, closing, end, posted>>
    BY Zenon DEF SendPrefix, control, reading
  <2> QED BY <1>1, <2>1 DEF Flags, Pcs
<1>12. Sockets'
  BY Constants, <1>1, <1>3, <1>4
  DEF Sockets, SendPrefix, Sides
<1>13. Buffers'
  BY Constants, <1>1, <1>3, <1>4
  DEF Buffers, reading, toUpVars, toCliVars, clientNet, upNet, SendPrefix, Sides
<1>14. Records'
  BY Constants, <1>1, <1>3, <1>4
  DEF Records, reading, toCliVars, SendPrefix, Sides
<1>15. Recv'
  BY Constants, <1>1, <1>3, <1>4
  DEF Flags, Records, Buffers, Recv, control, toUpVars, SendPrefix, Sides
<1>16. Wired'
  BY Constants, <1>1, <1>3, <1>4
  DEF Flags, Records, Buffers, Recv, Wired, Parser, AppFrame, Paid, control, toCliVars,
      SendPrefix, Sides
<1>17. Seen'
  BY Constants, <1>1, <1>3, <1>4
  DEF Flags, Sockets, Buffers, Recv, Seen, ClientWaits, UpWaits, reading, control, clientNet,
      upNet, SendPrefix, Sides
<1>18. Outputs'
  BY Constants, <1>1, <1>3, <1>4
  DEF Flags, Sockets, Buffers, Records, Recv, Wired, AppFrame, Outputs, control, toUpVars,
      toCliVars, SendPrefix, Sides
<1>19. Inputs'
  BY Constants, <1>1, <1>3, <1>4
  DEF Flags, Sockets, Buffers, Recv, Seen, Outputs, Inputs, InputComes, ClientWaits, UpWaits,
      Due, Unread, control, reading, toUpVars, toCliVars, clientNet, upNet, SendPrefix, Sides
<1> QED BY <1>11, <1>12, <1>13, <1>14, <1>15, <1>16, <1>17, <1>18, <1>19 DEF Core, Shape

\* UpstreamEnough keeps Core.
LEMMA UpstreamEnoughCore ==
  ASSUME Core, UpstreamEnough
  PROVE  Core'
<1>1. Shape /\ Flags /\ Sockets /\ Buffers /\ Records /\ Recv /\ Wired /\ Seen /\ Outputs /\ Inputs
  BY DEF Core, Shape
<1>11. Flags'
  BY Constants, <1>1
  DEF Flags, control, reading, toUpVars, UpstreamEnough, Continues, Sides, Pcs
<1>12. Sockets'
  BY Constants, <1>1
  DEF Sockets, UpstreamEnough, Continues, Sides
<1>13. Buffers'
  BY Constants, <1>1
  DEF Buffers, reading, toUpVars, toCliVars, clientNet, upNet, UpstreamEnough, Continues, Sides
<1>14. Records'
  BY Constants, <1>1
  DEF Records, reading, toCliVars, UpstreamEnough, Continues, Sides
<1>15. Recv'
  BY Constants, <1>1
  DEF Flags, Records, Buffers, Recv, control, toUpVars, UpstreamEnough, Continues, Sides
<1>16. Wired'
  BY Constants, <1>1
  DEF Flags, Records, Buffers, Recv, Wired, Parser, AppFrame, Paid, control, toCliVars,
      UpstreamEnough, Continues, Sides
<1>17. Seen'
  BY Constants, <1>1
  DEF Flags, Sockets, Buffers, Recv, Seen, ClientWaits, UpWaits, reading, control, clientNet,
      upNet, UpstreamEnough, Continues, Sides
<1>18. Outputs'
  BY Constants, <1>1
  DEF Flags, Sockets, Buffers, Records, Recv, Wired, AppFrame, Outputs, control, toUpVars,
      toCliVars, UpstreamEnough, Continues, Sides
<1>19. Inputs'
  BY Constants, <1>1
  DEF Flags, Sockets, Buffers, Recv, Seen, Outputs, Inputs, InputComes, ClientWaits, UpWaits,
      Due, Unread, control, reading, toUpVars, toCliVars, clientNet, upNet, UpstreamEnough,
      Continues, Sides
<1> QED BY <1>11, <1>12, <1>13, <1>14, <1>15, <1>16, <1>17, <1>18, <1>19 DEF Core, Shape

\* ReadEnough keeps Core.
LEMMA ReadEnoughCore ==
  ASSUME Core, ReadEnough
  PROVE  Core'
<1>1. Shape /\ Flags /\ Sockets /\ Buffers /\ Records /\ Recv /\ Wired /\ Seen /\ Outputs /\ Inputs
  BY DEF Core, Shape
<1>2. /\ pc' = "toClient" /\ loc' \in LocSet /\ loc'.seen = loc.seen
      /\ loc'.size = 0 /\ loc'.got = 0 /\ loc'.frames = 0
  BY <1>1, ToClientFacts DEF ReadEnough, Yield
<1>11. Flags'
  BY Constants, <1>1, <1>2
  DEF Flags, control, reading, toUpVars, ReadEnough, ClientReadReady, Yield, Continues, Sides, Pcs
<1>12. Sockets'
  BY Constants, <1>1, <1>2
  DEF Sockets, ReadEnough, ClientReadReady, Yield, Continues, Sides
<1>13. Buffers'
  BY Constants, <1>1, <1>2
  DEF Buffers, reading, toUpVars, toCliVars, clientNet, upNet, ReadEnough, ClientReadReady,
      Yield, Continues, Sides
<1>14. Records'
  BY Constants, <1>1, <1>2
  DEF Records, reading, toCliVars, ReadEnough, ClientReadReady, Yield, Continues, Sides
<1>15. Recv'
  BY Constants, <1>1, <1>2
  DEF Flags, Records, Buffers, Recv, control, toUpVars, ReadEnough, ClientReadReady, Yield,
      Continues, Sides
<1>16. Wired'
  BY Constants, <1>1, <1>2
  DEF Flags, Records, Buffers, Recv, Wired, Parser, AppFrame, Paid, control, toCliVars,
      ReadEnough, ClientReadReady, Yield, Continues, Sides
<1>17. Seen'
  BY Constants, <1>1, <1>2
  DEF Flags, Sockets, Buffers, Recv, Seen, ClientWaits, UpWaits, reading, control, clientNet,
      upNet, ReadEnough, ClientReadReady, Yield, Continues, Sides
<1>18. Outputs'
  BY Constants, <1>1, <1>2
  DEF Flags, Sockets, Buffers, Records, Recv, Wired, AppFrame, Outputs, control, toUpVars,
      toCliVars, ReadEnough, ClientReadReady, Yield, Continues, Sides
<1>19. Inputs'
  BY Constants, <1>1, <1>2
  DEF Flags, Sockets, Buffers, Recv, Seen, Outputs, Inputs, InputComes, ClientWaits, UpWaits,
      Due, Unread, control, reading, toUpVars, toCliVars, clientNet, upNet, ReadEnough,
      ClientReadReady, Yield, Continues, Sides
<1> QED BY <1>11, <1>12, <1>13, <1>14, <1>15, <1>16, <1>17, <1>18, <1>19 DEF Core, Shape

\* SendUp keeps Core.
LEMMA SendUpCore ==
  ASSUME Core, SendUp
  PROVE  Core'
<1>1. Shape /\ Flags /\ Sockets /\ Buffers /\ Records /\ Recv /\ Wired /\ Seen /\ Outputs /\ Inputs
  BY DEF Core, Shape
<1>2. PICK n \in 0 .. Len(cbuf) :
        /\ Taken("upstream", n, Len(cbuf))
        /\ up' = up \o Take(cbuf, n) /\ cbuf' = Drop(cbuf, n)
        /\ IF n = Len(cbuf) THEN UNCHANGED <<pc, loc>> ELSE ToClient
  BY DEF SendUp
<1>3. /\ wr' \in [Sides -> BOOLEAN] /\ room' \in [Sides -> BOOLEAN]
      /\ wr'["client"] = wr["client"]
      /\ wr'["upstream"] => wr["upstream"] /\ n = Len(cbuf)
  BY <1>1, <1>2, TakenFacts, SideNames
<1>4. /\ up' \in Seq(Nat) /\ cbuf' \in Seq(Nat) /\ Len(cbuf') = Len(cbuf) - n
      /\ n = Len(cbuf) <=> cbuf' = <<>>
  <2>1. cbuf \in Seq(Nat) /\ up \in Seq(Nat) /\ Len(cbuf) \in Nat BY <1>1 DEF Buffers
  <2>2. /\ Take(cbuf, n) \in Seq(Nat) /\ Drop(cbuf, n) \in Seq(Nat)
        /\ Len(Drop(cbuf, n)) = Len(cbuf) - n
    BY <2>1 DEF Take, Drop
  <2> QED BY <1>2, <2>1, <2>2
<1>5. /\ loc' \in LocSet /\ loc'.seen = loc.seen
      /\ loc'.size = 0 /\ loc'.got = 0 /\ loc'.frames = 0
      /\ pc' = IF cbuf' = <<>> THEN "toUp" ELSE "toClient"
  <2>1. CASE n = Len(cbuf) BY <1>1, <1>2, <1>4, <2>1 DEF SendUp, Recv, Records
  <2>2. CASE n # Len(cbuf) BY <1>1, <1>2, <1>4, <2>2, ToClientFacts
  <2> QED BY <2>1, <2>2
<1>11. Flags'
  BY Constants, <1>1, <1>3, <1>4, <1>5
  DEF Flags, control, reading, toUpVars, SendUp, Sides, Pcs
<1>12. Sockets'
  BY Constants, <1>1, <1>3, <1>4, <1>5
  DEF Sockets, SendUp, Sides
<1>13. Buffers'
  BY Constants, <1>1, <1>3, <1>4, <1>5
  DEF Buffers, reading, toUpVars, toCliVars, clientNet, upNet, SendUp, Sides
<1>14. Records'
  BY Constants, <1>1, <1>3, <1>4, <1>5
  DEF Records, reading, toCliVars, SendUp, Sides
<1>15. Recv'
  BY Constants, <1>1, <1>3, <1>4, <1>5
  DEF Flags, Records, Buffers, Recv, control, toUpVars, SendUp, Sides
<1>16. Wired'
  BY Constants, <1>1, <1>3, <1>4, <1>5
  DEF Flags, Records, Buffers, Recv, Wired, Parser, AppFrame, Paid, control, toCliVars, SendUp,
      Sides
<1>17. Seen'
  BY Constants, <1>1, <1>3, <1>4, <1>5
  DEF Flags, Sockets, Buffers, Recv, Seen, ClientWaits, UpWaits, reading, control, clientNet,
      upNet, SendUp, Sides
<1>18. Outputs'
  BY Constants, <1>1, <1>3, <1>4, <1>5
  DEF Flags, Sockets, Buffers, Records, Recv, Wired, AppFrame, Outputs, control, toUpVars,
      toCliVars, SendUp, Sides
<1>19. Inputs'
  BY Constants, <1>1, <1>3, <1>4, <1>5
  DEF Flags, Sockets, Buffers, Recv, Seen, Outputs, Inputs, InputComes, ClientWaits, UpWaits,
      Due, Unread, control, reading, toUpVars, toCliVars, clientNet, upNet, SendUp, Sides
<1> QED BY <1>11, <1>12, <1>13, <1>14, <1>15, <1>16, <1>17, <1>18, <1>19 DEF Core, Shape

\* StartRecv keeps Core.
LEMMA StartRecvCore ==
  ASSUME Core, StartRecv
  PROVE  Core'
<1>1. Shape /\ Flags /\ Sockets /\ Buffers /\ Records /\ Recv /\ Wired /\ Seen /\ Outputs /\ Inputs
  BY DEF Core, Shape
<1>2. /\ loc.bytes \in Nat /\ loc.bytes < Limit /\ loc.loops < MaxLoops
  BY <1>1, Constants DEF StartRecv, Continues, Records, LocSet
<1>3. PICK size \in Nat : size = ReadSize /\ 0 < size /\ size <= BufSize /\ loc.bytes + size <= Limit
  BY <1>2, Constants DEF ReadSize, Smaller
<1>4. loc' = [loc EXCEPT !.size = size] BY <1>3 DEF StartRecv
<1>5. /\ loc' \in LocSet /\ loc'.seen = loc.seen /\ loc'.size = size /\ loc'.bytes = loc.bytes
      /\ loc'.loops = loc.loops /\ loc'.got = loc.got /\ loc'.frames = loc.frames
  BY <1>1, <1>4 DEF Records, LocSet
<1>6. cbuf = <<>> /\ Len(cbuf) = 0 /\ ~closing /\ pc = "toUp" BY DEF StartRecv
<1>7. pc' = "frames" /\ UNCHANGED <<cbuf, closing, ws>> BY DEF StartRecv, control, toUpVars
<1>11. Flags'
  BY Constants, <1>1, <1>2, <1>3, <1>5, <1>6
  DEF Flags, control, reading, toUpVars, StartRecv, Sides, Pcs
<1>12. Sockets'
  BY Constants, <1>1, <1>2, <1>3, <1>5, <1>6
  DEF Sockets, StartRecv, Sides
<1>13. Buffers'
  BY Constants, <1>1, <1>2, <1>3, <1>5, <1>6
  DEF Buffers, reading, toUpVars, toCliVars, clientNet, upNet, StartRecv, Sides
<1>14. Records'
  BY Constants, <1>1, <1>2, <1>3, <1>5, <1>6
  DEF Records, reading, toCliVars, StartRecv, Sides
<1>15. Recv'
  <2>1. loc.got = 0 /\ loc.frames = 0 /\ 0 < MaxFrames BY <1>1, <1>6, Constants DEF Recv
  <2> QED BY <1>2, <1>3, <1>5, <1>6, <1>7, <2>1 DEF Recv
<1>16. Wired'
  BY Constants, <1>1, <1>2, <1>3, <1>5, <1>6
  DEF Flags, Records, Buffers, Recv, Wired, Parser, AppFrame, Paid, control, toCliVars,
      StartRecv, Sides
<1>17. Seen'
  BY Constants, <1>1, <1>2, <1>3, <1>5, <1>6
  DEF Flags, Sockets, Buffers, Recv, Seen, ClientWaits, UpWaits, reading, control, clientNet,
      upNet, StartRecv, Sides
<1>18. Outputs'
  BY Constants, <1>1, <1>2, <1>3, <1>5, <1>6
  DEF Flags, Sockets, Buffers, Records, Recv, Wired, AppFrame, Outputs, control, toUpVars,
      toCliVars, StartRecv, Sides
<1>19. Inputs'
  BY Constants, <1>1, <1>2, <1>3, <1>5, <1>6
  DEF Flags, Sockets, Buffers, Recv, Seen, Outputs, Inputs, InputComes, ClientWaits, UpWaits,
      Due, Unread, control, reading, toUpVars, toCliVars, clientNet, upNet, StartRecv, Sides
<1> QED BY <1>11, <1>12, <1>13, <1>14, <1>15, <1>16, <1>17, <1>18, <1>19 DEF Core, Shape

\* Filled keeps Core.
LEMMA FilledCore ==
  ASSUME Core, Filled
  PROVE  Core'
<1>1. Shape /\ Flags /\ Sockets /\ Buffers /\ Records /\ Recv /\ Wired /\ Seen /\ Outputs /\ Inputs
  BY DEF Core, Shape
<1>2. Back(loc.got) /\ pc = "frames" /\ loc.got = loc.size /\ 0 < loc.got
  BY <1>1, ReturnsFacts DEF Filled, Recv, Records, LocSet
<1>11. Flags'
  BY Constants, <1>1, <1>2
  DEF Flags, control, reading, toUpVars, Filled, Back, Sides, Pcs
<1>12. Sockets'
  BY Constants, <1>1, <1>2
  DEF Sockets, Filled, Back, Sides
<1>13. Buffers'
  BY Constants, <1>1, <1>2
  DEF Buffers, reading, toUpVars, toCliVars, clientNet, upNet, Filled, Back, Sides
<1>14. Records'
  BY Constants, <1>1, <1>2
  DEF Records, reading, toCliVars, Filled, Back, Sides
<1>15. Recv'
  BY Constants, <1>1, <1>2
  DEF Flags, Records, Buffers, Recv, control, toUpVars, Filled, Back, Sides
<1>16. Wired'
  BY Constants, <1>1, <1>2
  DEF Flags, Records, Buffers, Recv, Wired, Parser, AppFrame, Paid, control, toCliVars, Filled,
      Back, Sides
<1>17. Seen'
  BY Constants, <1>1, <1>2
  DEF Flags, Sockets, Buffers, Recv, Seen, ClientWaits, UpWaits, reading, control, clientNet,
      upNet, Filled, Back, Sides
<1>18. Outputs'
  BY Constants, <1>1, <1>2
  DEF Flags, Sockets, Buffers, Records, Recv, Wired, AppFrame, Outputs, control, toUpVars,
      toCliVars, Filled, Back, Sides
<1>19. Inputs'
  BY Constants, <1>1, <1>2
  DEF Flags, Sockets, Buffers, Recv, Seen, Outputs, Inputs, InputComes, ClientWaits, UpWaits,
      Due, Unread, control, reading, toUpVars, toCliVars, clientNet, upNet, Filled, Back, Sides
<1> QED BY <1>11, <1>12, <1>13, <1>14, <1>15, <1>16, <1>17, <1>18, <1>19 DEF Core, Shape

\* RecvFails keeps Core.
LEMMA RecvFailsCore ==
  ASSUME Core, RecvFails
  PROVE  Core'
<1>1. Shape /\ Flags /\ Sockets /\ Buffers /\ Records /\ Recv /\ Wired /\ Seen /\ Outputs /\ Inputs
  BY DEF Core, Shape
<1>2. /\ pc = "frames" /\ loc.got \in 0 .. loc.size /\ loc.got \in Nat /\ (~ws => loc.got = 0)
      /\ cbuf = <<>> <=> loc.got = 0
  BY <1>1 DEF RecvFails, Wants, Recv, Records, LocSet, Buffers
<1>3. PICK ends \in BOOLEAN :
        /\ ends => RecvEnds("client")
        /\ ~ends => RecvBlocks("client")
        /\ eof' = [eof EXCEPT !["client"] = @ \/ ends]
        /\ ends /\ loc.got = 0 =>
             /\ pc' = "toClient"
             /\ loc' = [NoLoc EXCEPT !.seen = [loc.seen EXCEPT !["client"] = TRUE]]
        /\ ~(ends /\ loc.got = 0) => Returns(loc.got)
  <2>1. CASE RecvBlocks("client") /\ Returns(loc.got) /\ UNCHANGED eof
    BY <1>1, <2>1 DEF Sockets, Sides
  <2>2. CASE /\ RecvEnds("client") /\ eof' = [eof EXCEPT !["client"] = TRUE]
             /\ IF loc.got = 0
                THEN /\ pc' = "toClient"
                     /\ loc' = [NoLoc EXCEPT !.seen = [loc.seen EXCEPT !["client"] = TRUE]]
                ELSE Returns(loc.got)
    BY <1>1, <2>2 DEF Sockets, Sides
  <2> QED BY <2>1, <2>2 DEF RecvFails
<1>4. /\ loc' \in LocSet /\ loc'.size = 0 /\ loc'.got = 0 /\ loc'.frames = 0
      /\ loc'.seen["upstream"] <=> loc.seen["upstream"]
      /\ loc'.seen["client"] <=> (loc.seen["client"] \/ (ends /\ loc.got = 0))
      /\ pc' = IF loc.got = 0 THEN "toClient" ELSE "toUp"
  <2>1. CASE ends /\ loc.got = 0
    <3>1. [loc.seen EXCEPT !["client"] = TRUE] \in [Sides -> BOOLEAN]
      BY <1>1 DEF Records, LocSet, Sides
    <3>2. loc.seen \in [Sides -> BOOLEAN] BY <1>1 DEF Records, LocSet
    <3>3. /\ loc'.seen = [loc.seen EXCEPT !["client"] = TRUE] /\ loc' \in LocSet
          /\ loc'.size = 0 /\ loc'.got = 0 /\ loc'.frames = 0
      BY <1>3, <2>1, <3>1, SeenLoc
    <3> QED BY <1>3, <2>1, <3>2, <3>3, SideNames
  <2>2. CASE ~(ends /\ loc.got = 0)
    <3>1. Back(loc.got) BY <1>1, <1>2, <1>3, <2>2, ReturnsFacts
    <3> QED BY <1>2, <2>2, <3>1 DEF Back
  <2> QED BY <2>1, <2>2
<1>5. /\ eof' \in [Sides -> BOOLEAN] /\ (eof'["upstream"] <=> eof["upstream"])
      /\ eof'["client"] <=> (eof["client"] \/ ends)
      /\ ready' \in [Sides -> BOOLEAN] /\ (ready'["upstream"] <=> ready["upstream"])
      /\ ~ready'["client"]
  BY <1>1, <1>3 DEF RecvFails, Sockets, Sides
<1>6. /\ ends => inq = <<>> /\ fin["client"]
      /\ ~ends => ev["client"] \/ (inq = <<>> /\ ~fin["client"])
  BY <1>3 DEF RecvEnds, RecvBlocks, Unread
<1>7. raw = <<>>
  BY <1>1 DEF RecvFails, Direct, NeedsRaw, Seen
<1>11. Flags'
  BY Constants, <1>1, <1>2, <1>4, <1>5, <1>6, <1>7
  DEF Flags, control, reading, toUpVars, RecvFails, Sides, Pcs
<1>12. Sockets'
  BY Constants, <1>1, <1>2, <1>4, <1>5, <1>6, <1>7
  DEF Sockets, RecvFails, Sides
<1>13. Buffers'
  BY Constants, <1>1, <1>2, <1>4, <1>5, <1>6, <1>7
  DEF Buffers, reading, toUpVars, toCliVars, clientNet, upNet, RecvFails, Sides
<1>14. Records'
  BY Constants, <1>1, <1>2, <1>4, <1>5, <1>6, <1>7
  DEF Records, reading, toCliVars, RecvFails, Sides
<1>15. Recv'
  BY Constants, <1>1, <1>2, <1>4, <1>5, <1>6, <1>7
  DEF Flags, Records, Buffers, Recv, control, toUpVars, RecvFails, Sides
<1>16. Wired'
  BY Constants, <1>1, <1>2, <1>4, <1>5, <1>6, <1>7
  DEF Flags, Records, Buffers, Recv, Wired, Parser, AppFrame, Paid, control, toCliVars,
      RecvFails, Sides
<1>17. Seen'
  BY Constants, <1>1, <1>2, <1>4, <1>5, <1>6, <1>7
  DEF Flags, Sockets, Buffers, Recv, Seen, ClientWaits, UpWaits, reading, control, clientNet,
      upNet, RecvFails, Sides
<1>18. Outputs'
  BY Constants, <1>1, <1>2, <1>4, <1>5, <1>6, <1>7
  DEF Flags, Sockets, Buffers, Records, Recv, Wired, AppFrame, Outputs, control, toUpVars,
      toCliVars, RecvFails, Sides
<1>19. Inputs'
  BY Constants, <1>1, <1>2, <1>4, <1>5, <1>6, <1>7
  DEF Flags, Sockets, Buffers, Recv, Seen, Outputs, Inputs, InputComes, ClientWaits, UpWaits,
      Due, Unread, control, reading, toUpVars, toCliVars, clientNet, upNet, RecvFails, Sides
<1> QED BY <1>11, <1>12, <1>13, <1>14, <1>15, <1>16, <1>17, <1>18, <1>19 DEF Core, Shape

\* FillRaw keeps Core.
LEMMA FillRawCore ==
  ASSUME Core, FillRaw
  PROVE  Core'
<1>1. Shape /\ Flags /\ Sockets /\ Buffers /\ Records /\ Recv /\ Wired /\ Seen /\ Outputs /\ Inputs
  BY DEF Core, Shape
<1>2. PICK n \in 1 .. RawSize :
        /\ n <= Len(inq) /\ raw' = Take(inq, n) /\ inq' = Drop(inq, n)
        /\ ready' = StillReady("client", n, RawSize)
        /\ n = RawSize \/ n = Len(inq)
  BY <1>1, Constants DEF FillRaw, Buffers, Smaller
<1>3. /\ ready' \in [Sides -> BOOLEAN] /\ ready'["upstream"] = ready["upstream"]
      /\ ready'["client"] <=> (ready["client"] /\ (n = RawSize \/ (fin["client"] /\ ~ev["client"])))
  <2>1. /\ ready' \in [Sides -> BOOLEAN]
        /\ \A x \in Sides \ {"client"} : ready'[x] = ready[x]
        /\ ready'["client"] <=> (ready["client"] /\ (n = RawSize \/ (fin["client"] /\ ~ev["client"])))
    BY <1>1, <1>2, StillReadyFacts, SideNames
  <2> QED BY <2>1, SideNames
<1>4. /\ raw' \in Seq(Tokens) /\ inq' \in Seq(Tokens) /\ Len(raw') = n /\ raw' # <<>>
      /\ inq' = <<>> <=> n = Len(inq)
  <2>1. inq \in Seq(Tokens) /\ Len(inq) \in Nat /\ n \in Nat /\ n > 0 BY <1>1, Constants DEF Buffers
  <2>2. /\ Take(inq, n) \in Seq(Tokens) /\ Drop(inq, n) \in Seq(Tokens)
        /\ Len(Take(inq, n)) = n /\ Len(Drop(inq, n)) = Len(inq) - n
    BY <1>2, <2>1 DEF Take, Drop
  <2> QED BY <1>2, <2>1, <2>2
<1>11. Flags'
  BY Constants, <1>1, <1>2, <1>3, <1>4
  DEF Flags, control, reading, toUpVars, FillRaw, Wants, NeedsRaw, Sides, Pcs
<1>12. Sockets'
  BY Constants, <1>1, <1>2, <1>3, <1>4
  DEF Sockets, FillRaw, Wants, NeedsRaw, Sides
<1>13. Buffers'
  BY Constants, <1>1, <1>2, <1>3, <1>4
  DEF Buffers, reading, toUpVars, toCliVars, clientNet, upNet, FillRaw, Wants, NeedsRaw, Sides
<1>14. Records'
  BY Constants, <1>1, <1>2, <1>3, <1>4
  DEF Records, reading, toCliVars, FillRaw, Wants, NeedsRaw, Sides
<1>15. Recv'
  BY Constants, <1>1, <1>2, <1>3, <1>4
  DEF Flags, Records, Buffers, Recv, control, toUpVars, FillRaw, Wants, NeedsRaw, Sides
<1>16. Wired'
  BY Constants, <1>1, <1>2, <1>3, <1>4
  DEF Flags, Records, Buffers, Recv, Wired, Parser, AppFrame, Paid, control, toCliVars, FillRaw,
      Wants, NeedsRaw, Sides
<1>17. Seen'
  BY Constants, <1>1, <1>2, <1>3, <1>4
  DEF Flags, Sockets, Buffers, Recv, Seen, ClientWaits, UpWaits, reading, control, clientNet,
      upNet, FillRaw, Wants, NeedsRaw, Sides
<1>18. Outputs'
  BY Constants, <1>1, <1>2, <1>3, <1>4
  DEF Flags, Sockets, Buffers, Records, Recv, Wired, AppFrame, Outputs, control, toUpVars,
      toCliVars, FillRaw, Wants, NeedsRaw, Sides
<1>19. Inputs'
  BY Constants, <1>1, <1>2, <1>3, <1>4
  DEF Flags, Sockets, Buffers, Recv, Seen, Outputs, Inputs, InputComes, ClientWaits, UpWaits,
      Due, Unread, control, reading, toUpVars, toCliVars, clientNet, upNet, FillRaw, Wants,
      NeedsRaw, Sides
<1> QED BY <1>11, <1>12, <1>13, <1>14, <1>15, <1>16, <1>17, <1>18, <1>19 DEF Core, Shape

\* TakePlain keeps Core.
LEMMA TakePlainCore ==
  ASSUME Core, TakePlain
  PROVE  Core'
<1>1. Shape /\ Flags /\ Sockets /\ Buffers /\ Records /\ Recv /\ Wired /\ Seen /\ Outputs /\ Inputs
  BY DEF Core, Shape
<1>2. PICK n \in 1 .. loc.size :
        /\ n <= Len(inq) /\ cbuf' = Numbers(Take(inq, n)) /\ inq' = Drop(inq, n)
        /\ ready' = StillReady("client", n, loc.size) /\ Returns(n)
        /\ n = loc.size \/ n = Len(inq)
  <2>1. loc.size \in Nat /\ loc.got \in Nat /\ loc.got < loc.size /\ Len(inq) \in Nat /\ Len(inq) > 0
    BY <1>1 DEF TakePlain, Wants, Buffers, Records, LocSet
  <2>2. PICK n \in Nat : n = Smaller(loc.size, Len(inq)) BY <2>1 DEF Smaller
  <2>3. n \in 1 .. loc.size /\ n <= Len(inq) /\ (n = loc.size \/ n = Len(inq))
    BY <2>1, <2>2 DEF Smaller
  <2> QED BY <2>2, <2>3 DEF TakePlain
<1>3. /\ ready' \in [Sides -> BOOLEAN] /\ ready'["upstream"] = ready["upstream"]
      /\ ready'["client"] <=> (ready["client"] /\ (n = loc.size \/ (fin["client"] /\ ~ev["client"])))
  <2>1. /\ ready' \in [Sides -> BOOLEAN]
        /\ \A x \in Sides \ {"client"} : ready'[x] = ready[x]
        /\ ready'["client"] <=> (ready["client"] /\ (n = loc.size \/ (fin["client"] /\ ~ev["client"])))
    BY <1>1, <1>2, StillReadyFacts, SideNames
  <2> QED BY <2>1, SideNames
<1>4. /\ cbuf' \in Seq(Nat) /\ inq' \in Seq(Tokens) /\ Len(cbuf') = n /\ cbuf' # <<>>
      /\ inq' = <<>> <=> n = Len(inq)
  <2>1. inq \in Seq(Tokens) /\ Len(inq) \in Nat /\ n \in Nat /\ n > 0
    BY <1>1 DEF Buffers, Records, LocSet
  <2>2. /\ Take(inq, n) \in Seq(Tokens) /\ Drop(inq, n) \in Seq(Tokens)
        /\ Len(Take(inq, n)) = n /\ Len(Drop(inq, n)) = Len(inq) - n
    BY <1>2, <2>1 DEF Take, Drop
  <2>3. Numbers(Take(inq, n)) \in Seq(Nat) /\ Len(Numbers(Take(inq, n))) = n BY <2>1, <2>2, NumbersFacts
  <2> QED BY <1>2, <2>1, <2>2, <2>3
<1>5. Back(n) /\ n # 0 /\ n <= BufSize /\ pc = "frames"
  <2>1. pc = "frames" /\ n \in 0 .. loc.size BY <1>1, <1>2 DEF TakePlain, Wants, Records, LocSet
  <2> QED BY <1>1, <1>2, <2>1, ReturnsFacts, Constants DEF Recv, Records, LocSet
<1>11. Flags'
  BY Constants, <1>1, <1>2, <1>3, <1>4, <1>5
  DEF Flags, control, reading, toUpVars, TakePlain, Wants, Back, Sides, Pcs
<1>12. Sockets'
  BY Constants, <1>1, <1>2, <1>3, <1>4, <1>5
  DEF Sockets, TakePlain, Wants, Back, Sides
<1>13. Buffers'
  BY Constants, <1>1, <1>2, <1>3, <1>4, <1>5
  DEF Buffers, reading, toUpVars, toCliVars, clientNet, upNet, TakePlain, Wants, Back, Sides
<1>14. Records'
  BY Constants, <1>1, <1>2, <1>3, <1>4, <1>5
  DEF Records, reading, toCliVars, TakePlain, Wants, Back, Sides
<1>15. Recv'
  BY Constants, <1>1, <1>2, <1>3, <1>4, <1>5
  DEF Flags, Records, Buffers, Recv, control, toUpVars, TakePlain, Wants, Back, Sides
<1>16. Wired'
  BY Constants, <1>1, <1>2, <1>3, <1>4, <1>5
  DEF Flags, Records, Buffers, Recv, Wired, Parser, AppFrame, Paid, control, toCliVars,
      TakePlain, Wants, Back, Sides
<1>17. Seen'
  BY Constants, <1>1, <1>2, <1>3, <1>4, <1>5
  DEF Flags, Sockets, Buffers, Recv, Seen, ClientWaits, UpWaits, reading, control, clientNet,
      upNet, TakePlain, Wants, Back, Sides
<1>18. Outputs'
  BY Constants, <1>1, <1>2, <1>3, <1>4, <1>5
  DEF Flags, Sockets, Buffers, Records, Recv, Wired, AppFrame, Outputs, control, toUpVars,
      toCliVars, TakePlain, Wants, Back, Sides
<1>19. Inputs'
  BY Constants, <1>1, <1>2, <1>3, <1>4, <1>5
  DEF Flags, Sockets, Buffers, Recv, Seen, Outputs, Inputs, InputComes, ClientWaits, UpWaits,
      Due, Unread, control, reading, toUpVars, toCliVars, clientNet, upNet, TakePlain, Wants,
      Back, Sides
<1> QED BY <1>11, <1>12, <1>13, <1>14, <1>15, <1>16, <1>17, <1>18, <1>19 DEF Core, Shape

\* SendPlain keeps Core.
LEMMA SendPlainCore ==
  ASSUME Core, SendPlain
  PROVE  Core'
<1>1. Shape /\ Flags /\ Sockets /\ Buffers /\ Records /\ Recv /\ Wired /\ Seen /\ Outputs /\ Inputs
  BY DEF Core, Shape
<1>2. PICK n \in 0 .. ub : /\ Taken("client", n, ub) /\ ub' = ub - n
                          /\ pc' = IF n = ub THEN "toClient" ELSE "finish"
  BY DEF SendPlain
<1>3. /\ wr' \in [Sides -> BOOLEAN] /\ room' \in [Sides -> BOOLEAN]
      /\ wr'["upstream"] = wr["upstream"]
      /\ wr'["client"] => wr["client"] /\ n = ub
  BY <1>1, <1>2, TakenFacts, SideNames
<1>11. Flags'
  BY Constants, <1>1, <1>2, <1>3
  DEF Flags, control, reading, toUpVars, SendPlain, Sides, Pcs
<1>12. Sockets'
  BY Constants, <1>1, <1>2, <1>3
  DEF Sockets, SendPlain, Sides
<1>13. Buffers'
  BY Constants, <1>1, <1>2, <1>3
  DEF Buffers, reading, toUpVars, toCliVars, clientNet, upNet, SendPlain, Sides
<1>14. Records'
  BY Constants, <1>1, <1>2, <1>3
  DEF Records, reading, toCliVars, SendPlain, Sides
<1>15. Recv'
  BY Constants, <1>1, <1>2, <1>3
  DEF Flags, Records, Buffers, Recv, control, toUpVars, SendPlain, Sides
<1>16. Wired'
  BY Constants, <1>1, <1>2, <1>3
  DEF Flags, Records, Buffers, Recv, Wired, Parser, AppFrame, Paid, control, toCliVars,
      SendPlain, Sides
<1>17. Seen'
  BY Constants, <1>1, <1>2, <1>3
  DEF Flags, Sockets, Buffers, Recv, Seen, ClientWaits, UpWaits, reading, control, clientNet,
      upNet, SendPlain, Sides
<1>18. Outputs'
  BY Constants, <1>1, <1>2, <1>3
  DEF Flags, Sockets, Buffers, Records, Recv, Wired, AppFrame, Outputs, control, toUpVars,
      toCliVars, SendPlain, Sides
<1>19. Inputs'
  BY Constants, <1>1, <1>2, <1>3
  DEF Flags, Sockets, Buffers, Recv, Seen, Outputs, Inputs, InputComes, ClientWaits, UpWaits,
      Due, Unread, control, reading, toUpVars, toCliVars, clientNet, upNet, SendPlain, Sides
<1> QED BY <1>11, <1>12, <1>13, <1>14, <1>15, <1>16, <1>17, <1>18, <1>19 DEF Core, Shape

\* SendTail keeps Core.
LEMMA SendTailCore ==
  ASSUME Core, SendTail
  PROVE  Core'
<1>1. Shape /\ Flags /\ Sockets /\ Buffers /\ Records /\ Recv /\ Wired /\ Seen /\ Outputs /\ Inputs
  BY DEF Core, Shape
<1>2. /\ ctl' \in CtlSet /\ wire' \in WireSet /\ Parser'
      /\ wr' \in [Sides -> BOOLEAN] /\ room' \in [Sides -> BOOLEAN]
      /\ wr'["upstream"] = wr["upstream"] /\ (wr'["client"] => wr["client"])
      /\ ctl'.kind # "none" => ctl'.kind = ctl.kind /\ ~wr'["client"]
      /\ wire'.closed => wire.closed \/ ctl.kind = "close"
  <2>1. ~app.on /\ Parser /\ UNCHANGED app BY <1>1 DEF Wired, SendTail
  <2>2. CASE wr["client"] /\ ctl.kind # "none"
    <3>1. PICK n : Flush(ctl, n) BY <2>2 DEF SendTail
    <3>2. Follows(ctl) BY <1>1, <2>1, <2>2, FollowsCtl
    <3> QED BY <1>1, <2>1, <3>1, <3>2, FlushFacts
  <2>3. CASE ~(wr["client"] /\ ctl.kind # "none")
    <3>1. UNCHANGED <<ctl, wire, room, wr>> BY <2>3 DEF SendTail
    <3>2. Parser' BY <2>1, <3>1 DEF Parser, SendTail
    <3> QED BY <1>1, <2>3, <3>1, <3>2 DEF Records, Sockets
  <2> QED BY <2>2, <2>3
<1>11. Flags'
  BY Constants, <1>1, <1>2
  DEF Flags, control, reading, toUpVars, SendTail, Sides, Pcs
<1>12. Sockets'
  BY Constants, <1>1, <1>2
  DEF Sockets, SendTail, Sides
<1>13. Buffers'
  BY Constants, <1>1, <1>2
  DEF Buffers, reading, toUpVars, toCliVars, clientNet, upNet, SendTail, Sides
<1>14. Records'
  BY Constants, <1>1, <1>2
  DEF Records, reading, toCliVars, SendTail, Sides
<1>15. Recv'
  BY Constants, <1>1, <1>2
  DEF Flags, Records, Buffers, Recv, control, toUpVars, SendTail, Sides
<1>16. Wired'
  BY Constants, <1>1, <1>2
  DEF Flags, Records, Buffers, Recv, Wired, Parser, AppFrame, Paid, control, toCliVars, SendTail,
      Sides
<1>17. Seen'
  BY Constants, <1>1, <1>2
  DEF Flags, Sockets, Buffers, Recv, Seen, ClientWaits, UpWaits, reading, control, clientNet,
      upNet, SendTail, Sides
<1>18. Outputs'
  BY Constants, <1>1, <1>2
  DEF Flags, Sockets, Buffers, Records, Recv, Wired, AppFrame, Outputs, control, toUpVars,
      toCliVars, SendTail, Sides
<1>19. Inputs'
  BY Constants, <1>1, <1>2
  DEF Flags, Sockets, Buffers, Recv, Seen, Outputs, Inputs, InputComes, ClientWaits, UpWaits,
      Due, Unread, control, reading, toUpVars, toCliVars, clientNet, upNet, SendTail, Sides
<1> QED BY <1>11, <1>12, <1>13, <1>14, <1>15, <1>16, <1>17, <1>18, <1>19 DEF Core, Shape

\* SendControl keeps Core.
LEMMA SendControlCore ==
  ASSUME Core, SendControl
  PROVE  Core'
<1>1. Shape /\ Flags /\ Sockets /\ Buffers /\ Records /\ Recv /\ Wired /\ Seen /\ Outputs /\ Inputs
  BY DEF Core, Shape
<1>2. ~app.on /\ Parser /\ UNCHANGED app /\ ctl.kind # "none"
  BY <1>1 DEF Wired, SendControl, NothingToFlush, AppPending
<1>3. /\ ctl' \in CtlSet /\ wire' \in WireSet /\ Parser'
      /\ wr' \in [Sides -> BOOLEAN] /\ room' \in [Sides -> BOOLEAN]
      /\ wr'["upstream"] = wr["upstream"] /\ (wr'["client"] => wr["client"])
      /\ ctl'.kind # "none" => ctl'.kind = ctl.kind /\ ~wr'["client"]
      /\ ctl' = NoCtl <=> ctl'.kind = "none"
      /\ wire'.closed => ctl.kind = "close"
  <2>1. PICK n : Flush(ctl, n) BY DEF SendControl
  <2>2. Follows(ctl) BY <1>1, <1>2, FollowsCtl
  <2> QED BY <1>1, <1>2, <2>1, <2>2, FlushFacts
<1>4. pc' = IF ctl'.kind = "none" /\ ~closing THEN "toClient" ELSE "finish"
  BY <1>3 DEF SendControl
<1>11. Flags'
  BY Constants, <1>1, <1>2, <1>3, <1>4
  DEF Flags, control, reading, toUpVars, SendControl, NothingToFlush, AppPending, Sides, Pcs
<1>12. Sockets'
  BY Constants, <1>1, <1>2, <1>3, <1>4
  DEF Sockets, SendControl, NothingToFlush, AppPending, Sides
<1>13. Buffers'
  BY Constants, <1>1, <1>2, <1>3, <1>4
  DEF Buffers, reading, toUpVars, toCliVars, clientNet, upNet, SendControl, NothingToFlush,
      AppPending, Sides
<1>14. Records'
  BY Constants, <1>1, <1>2, <1>3, <1>4
  DEF Records, reading, toCliVars, SendControl, NothingToFlush, AppPending, Sides
<1>15. Recv'
  BY Constants, <1>1, <1>2, <1>3, <1>4
  DEF Flags, Records, Buffers, Recv, control, toUpVars, SendControl, NothingToFlush, AppPending,
      Sides
<1>16. Wired'
  BY Constants, <1>1, <1>2, <1>3, <1>4
  DEF Flags, Records, Buffers, Recv, Wired, Parser, AppFrame, Paid, control, toCliVars,
      SendControl, NothingToFlush, AppPending, Sides
<1>17. Seen'
  BY Constants, <1>1, <1>2, <1>3, <1>4
  DEF Flags, Sockets, Buffers, Recv, Seen, ClientWaits, UpWaits, reading, control, clientNet,
      upNet, SendControl, NothingToFlush, AppPending, Sides
<1>18. Outputs'
  BY Constants, <1>1, <1>2, <1>3, <1>4
  DEF Flags, Sockets, Buffers, Records, Recv, Wired, AppFrame, Outputs, control, toUpVars,
      toCliVars, SendControl, NothingToFlush, AppPending, Sides
<1>19. Inputs'
  BY Constants, <1>1, <1>2, <1>3, <1>4
  DEF Flags, Sockets, Buffers, Recv, Seen, Outputs, Inputs, InputComes, ClientWaits, UpWaits,
      Due, Unread, control, reading, toUpVars, toCliVars, clientNet, upNet, SendControl,
      NothingToFlush, AppPending, Sides
<1> QED BY <1>11, <1>12, <1>13, <1>14, <1>15, <1>16, <1>17, <1>18, <1>19 DEF Core, Shape

\* SendApp keeps Core.
LEMMA SendAppCore ==
  ASSUME Core, SendApp
  PROVE  Core'
<1>1. Shape /\ Flags /\ Sockets /\ Buffers /\ Records /\ Recv /\ Wired /\ Seen /\ Outputs /\ Inputs
  BY DEF Core, Shape
<1>2. /\ wr' \in [Sides -> BOOLEAN] /\ room' \in [Sides -> BOOLEAN]
      /\ wr'["upstream"] = wr["upstream"] /\ (wr'["client"] => wr["client"])
      /\ ub' \in 0 .. BufSize /\ app' \in AppSet /\ wire' \in WireSet
      /\ Parser' /\ AppFrame' /\ (wire'.closed => closing)
      /\ pc' \in {"finish", "tail"}
      /\ pc' = "tail" => ~app'.on /\ ~closing
      /\ pc' = "finish" => closing \/ (~wr'["client"] /\ 0 < ub')
  <2>1. CASE closing
    <3>1. pc' = "finish" /\ UNCHANGED <<ub, app, ctl, wire, room, wr>> BY <2>1 DEF SendApp
    <3> QED BY <1>1, <2>1, <3>1 DEF Wired, Parser, AppFrame, Paid, Sockets, Records, Buffers
  <2>2. CASE ~closing
    <3>1. PICK a : a = IF app.on THEN app ELSE [on |-> TRUE, pos |-> 0, len |-> ub]
      OBVIOUS
    <3>2. /\ a \in AppSet /\ a.on = TRUE /\ a.pos \in Nat /\ a.len \in Nat
          /\ ctl.pos = 0 /\ a.pos < HeaderLen + a.len /\ 0 < ub
          /\ ub = a.len - Paid(a.pos)
          /\ IF a.pos = 0 THEN wire.left = 0
             ELSE wire.kind = "app" /\ wire.left = HeaderLen + a.len - a.pos
      <4>1. ub \in Nat /\ 0 < ub /\ HeaderLen \in Nat BY <1>1, Constants DEF SendApp, Buffers
      <4>2. CASE app.on
        <5>1. a = app BY <3>1, <4>2
        <5> QED BY <1>1, <4>1, <4>2, <5>1 DEF Wired, AppFrame, Records, AppSet
      <4>3. CASE ~app.on
        <5>1. a.on = TRUE /\ a.pos = 0 /\ a.len = ub /\ a \in AppSet BY <3>1, <4>1, <4>3 DEF AppSet
        <5>2. ctl.kind = "none" BY <4>3 DEF SendApp, NothingToFlush, AppPending
        <5>3. wire.left = 0 /\ ctl.pos = 0 BY <1>1, <4>3, <5>2 DEF Wired, Parser, Records, WireSet
        <5> QED BY <4>1, <5>1, <5>3 DEF Paid
      <4> QED BY <4>2, <4>3
    <3> DEFINE total == HeaderLen + a.len
    <3>3. PICK n \in 0 .. (total - a.pos) :
            /\ Taken("client", n, total - a.pos)
            /\ wire' = Emit(wire, "app", a.pos, n, total)
            /\ ub' = ub - (Paid(a.pos + n) - Paid(a.pos))
            /\ IF a.pos + n = total THEN app' = NoApp /\ pc' = "tail"
               ELSE app' = [a EXCEPT !.pos = @ + n] /\ pc' = "finish"
      BY <2>2, <3>1 DEF SendApp, FrameSize, Paid
    <3>4. /\ wr' \in [Sides -> BOOLEAN] /\ room' \in [Sides -> BOOLEAN]
          /\ wr'["upstream"] = wr["upstream"]
          /\ wr'["client"] => wr["client"] /\ n = total - a.pos
      BY <1>1, <3>3, TakenFacts, SideNames
    <3>5. /\ wire \in WireSet /\ wire.state # "broken" /\ ~wire.closed
          /\ wire.left = 0 <=> wire.kind = "none"
          /\ ctl' = ctl /\ (ctl.kind = "none" => ctl.pos = 0)
      BY <1>1, <2>2 DEF Wired, Parser, Records, SendApp
    <3>6. /\ wire' \in WireSet /\ wire'.state # "broken" /\ (wire'.left = 0 <=> wire'.kind = "none")
          /\ n = 0 => wire' = wire
          /\ n > 0 => /\ wire'.left = total - a.pos - n
                      /\ wire'.kind = IF wire'.left = 0 THEN "none" ELSE "app"
          /\ wire'.closed => "app" = "close" /\ a.pos + n = total
      <4>1. /\ total \in Nat /\ a.pos < total /\ n \in Nat /\ a.pos + n <= total /\ a.pos \in Nat
            /\ a.pos = 0 => wire.left = 0 \/ (wire.kind = "pong" /\ "app" = "close")
            /\ a.pos > 0 => wire.kind = "app" /\ wire.left = total - a.pos
        BY <3>2, Constants
      <4> HIDE DEF total
      <4> QED BY <3>3, <3>5, <4>1, EmitFacts
    <3>7. ~wire'.closed BY <3>6
    <3>8. CASE a.pos + n = total
      <4>1. /\ app' = NoApp /\ pc' = "tail" /\ ~app'.on /\ app' \in AppSet
        BY <3>3, <3>8, NoRecords
      <4>2. wire'.left = 0 /\ ub' = 0
        BY <3>2, <3>3, <3>6, <3>8, Constants DEF Paid
      <4>3. Parser' BY <3>2, <3>5, <3>6, <3>7, <4>1, <4>2 DEF Parser
      <4>4. AppFrame' BY <4>1 DEF AppFrame
      <4>5. ub' \in 0 .. BufSize BY <4>2, Constants
      <4> QED BY <2>2, <3>4, <3>6, <3>7, <4>1, <4>3, <4>4, <4>5
    <3>9. CASE a.pos + n # total
      <4> DEFINE p == a.pos + n
      <4>1. p \in Nat /\ p < total BY <3>2, <3>3, <3>9, Constants
      <4>2. app' = [a EXCEPT !.pos = p] /\ pc' = "finish" BY <3>3, <3>9
      <4>3. /\ app' \in AppSet /\ app'.on /\ app'.pos = p /\ app'.len = a.len
        <5> HIDE DEF p
        <5> QED BY <3>2, <4>1, <4>2 DEF AppSet
      <4>4. /\ ub' = a.len - Paid(p) /\ 0 < ub' /\ ub' \in 0 .. BufSize
        <5>1. /\ ub \in Nat /\ BufSize \in Nat /\ ub <= BufSize /\ HeaderLen \in Nat /\ n \in Nat
          BY <1>1, <3>2, <3>3, Constants DEF Buffers
        <5>2. Paid(p) \in Nat /\ Paid(a.pos) \in Nat /\ Paid(a.pos) <= Paid(p) /\ Paid(p) < a.len
          BY <3>2, <4>1, <5>1 DEF Paid
        <5> QED BY <3>2, <3>3, <5>1, <5>2
      <4>5. ~wr'["client"] BY <3>2, <3>3, <3>4, <3>9, Constants
      <4>6. IF p = 0 THEN wire'.left = 0
            ELSE wire'.kind = "app" /\ wire'.left = HeaderLen + a.len - p
        <5>1. CASE n = 0 BY <3>2, <3>6, <5>1
        <5>2. CASE n > 0 BY <3>2, <3>3, <3>6, <4>1, <5>2, Constants
        <5> QED BY <3>3, <5>1, <5>2
      <4>7. AppFrame' BY <3>2, <3>5, <4>1, <4>3, <4>4, <4>6 DEF AppFrame
      <4>8. Parser' BY <3>2, <3>5, <3>6, <3>7, <4>3 DEF Parser
      <4> QED BY <3>4, <3>6, <3>7, <4>2, <4>3, <4>4, <4>5, <4>7, <4>8
    <3> QED BY <3>8, <3>9
  <2> QED BY <2>1, <2>2
<1>11. Flags'
  BY Constants, <1>1, <1>2
  DEF Flags, control, reading, toUpVars, SendApp, Sides, Pcs
<1>12. Sockets'
  BY Constants, <1>1, <1>2
  DEF Sockets, SendApp, Sides
<1>13. Buffers'
  BY Constants, <1>1, <1>2
  DEF Buffers, reading, toUpVars, toCliVars, clientNet, upNet, SendApp, Sides
<1>14. Records'
  BY Constants, <1>1, <1>2
  DEF Records, reading, toCliVars, SendApp, Sides
<1>15. Recv'
  BY Constants, <1>1, <1>2
  DEF Flags, Records, Buffers, Recv, control, toUpVars, SendApp, Sides
<1>16. Wired'
  BY Constants, <1>1, <1>2
  DEF Flags, Records, Buffers, Recv, Wired, Parser, AppFrame, Paid, control, toCliVars, SendApp,
      Sides
<1>17. Seen'
  BY Constants, <1>1, <1>2
  DEF Flags, Sockets, Buffers, Recv, Seen, ClientWaits, UpWaits, reading, control, clientNet,
      upNet, SendApp, Sides
<1>18. Outputs'
  BY Constants, <1>1, <1>2
  DEF Flags, Sockets, Buffers, Records, Recv, Wired, AppFrame, Outputs, control, toUpVars,
      toCliVars, SendApp, Sides
<1>19. Inputs'
  BY Constants, <1>1, <1>2
  DEF Flags, Sockets, Buffers, Recv, Seen, Outputs, Inputs, InputComes, ClientWaits, UpWaits,
      Due, Unread, control, reading, toUpVars, toCliVars, clientNet, upNet, SendApp, Sides
<1> QED BY <1>11, <1>12, <1>13, <1>14, <1>15, <1>16, <1>17, <1>18, <1>19 DEF Core, Shape

\* Gate keeps Core.
LEMMA GateCore ==
  ASSUME Core, Gate
  PROVE  Core'
<1>1. Shape /\ Flags /\ Sockets /\ Buffers /\ Records /\ Recv /\ Wired /\ Seen /\ Outputs /\ Inputs
  BY DEF Core, Shape
<1>2. ~app.on /\ Parser /\ UNCHANGED app /\ ctl.kind # "none"
  BY <1>1 DEF Wired, Gate, NothingToFlush, AppPending
<1>3. /\ ctl' \in CtlSet /\ wire' \in WireSet /\ Parser'
      /\ wr' \in [Sides -> BOOLEAN] /\ room' \in [Sides -> BOOLEAN]
      /\ wr'["upstream"] = wr["upstream"] /\ (wr'["client"] => wr["client"])
      /\ ctl'.kind # "none" => ctl'.kind = ctl.kind /\ ~wr'["client"]
      /\ ctl' = NoCtl <=> ctl'.kind = "none"
      /\ wire'.closed => ctl.kind = "close"
  <2>1. PICK n : Flush(ctl, n) BY DEF Gate
  <2>2. Follows(ctl) BY <1>1, <1>2, FollowsCtl
  <2> QED BY <1>1, <1>2, <2>1, <2>2, FlushFacts
<1>4. pc' = IF ctl'.kind = "none" THEN "gate" ELSE "idle"
  BY <1>3 DEF Gate
<1>11. Flags'
  BY Constants, <1>1, <1>2, <1>3, <1>4
  DEF Flags, control, reading, toUpVars, Gate, NothingToFlush, AppPending, Sides, Pcs
<1>12. Sockets'
  BY Constants, <1>1, <1>2, <1>3, <1>4
  DEF Sockets, Gate, NothingToFlush, AppPending, Sides
<1>13. Buffers'
  BY Constants, <1>1, <1>2, <1>3, <1>4
  DEF Buffers, reading, toUpVars, toCliVars, clientNet, upNet, Gate, NothingToFlush, AppPending,
      Sides
<1>14. Records'
  BY Constants, <1>1, <1>2, <1>3, <1>4
  DEF Records, reading, toCliVars, Gate, NothingToFlush, AppPending, Sides
<1>15. Recv'
  BY Constants, <1>1, <1>2, <1>3, <1>4
  DEF Flags, Records, Buffers, Recv, control, toUpVars, Gate, NothingToFlush, AppPending, Sides
<1>16. Wired'
  BY Constants, <1>1, <1>2, <1>3, <1>4
  DEF Flags, Records, Buffers, Recv, Wired, Parser, AppFrame, Paid, control, toCliVars, Gate,
      NothingToFlush, AppPending, Sides
<1>17. Seen'
  BY Constants, <1>1, <1>2, <1>3, <1>4
  DEF Flags, Sockets, Buffers, Recv, Seen, ClientWaits, UpWaits, reading, control, clientNet,
      upNet, Gate, NothingToFlush, AppPending, Sides
<1>18. Outputs'
  BY Constants, <1>1, <1>2, <1>3, <1>4
  DEF Flags, Sockets, Buffers, Records, Recv, Wired, AppFrame, Outputs, control, toUpVars,
      toCliVars, Gate, NothingToFlush, AppPending, Sides
<1>19. Inputs'
  BY Constants, <1>1, <1>2, <1>3, <1>4
  DEF Flags, Sockets, Buffers, Recv, Seen, Outputs, Inputs, InputComes, ClientWaits, UpWaits,
      Due, Unread, control, reading, toUpVars, toCliVars, clientNet, upNet, Gate, NothingToFlush,
      AppPending, Sides
<1> QED BY <1>11, <1>12, <1>13, <1>14, <1>15, <1>16, <1>17, <1>18, <1>19 DEF Core, Shape

\* Finish keeps Core.
LEMMA FinishCore ==
  ASSUME Core, Finish, ~Over
  PROVE  Core'
<1>1. Shape /\ Flags /\ Sockets /\ Buffers /\ Records /\ Recv /\ Wired /\ Seen /\ Outputs /\ Inputs
  BY DEF Core, Shape
<1>2. pc = "finish" /\ pc' = "idle" /\ loc' = NoLoc BY DEF Finish
<1>3. shut' \in BOOLEAN /\ (shut' <=> shut \/ Shuts)
  <2> DEFINE b == shut \/ Shuts
  <2>1. shut' = b /\ b \in BOOLEAN BY DEF Finish
  <2> HIDE DEF b
  <2>2. shut' \in BOOLEAN /\ (shut' <=> b) BY <2>1
  <2> QED BY <2>2 DEF b
<1>4. Shuts <=> loc.seen["client"] /\ ~shut /\ pend = <<>> /\ cbuf = <<>> BY DEF Shuts
<1>11. Flags'
  BY Constants, <1>1, <1>2, <1>3, <1>4, NoRecords
  DEF Flags, control, reading, toUpVars, Finish, Sides, Pcs
<1>12. Sockets'
  BY Constants, <1>1, <1>2, <1>3, <1>4, NoRecords
  DEF Sockets, Finish, Sides
<1>13. Buffers'
  BY Constants, <1>1, <1>2, <1>3, <1>4, NoRecords
  DEF Buffers, reading, toUpVars, toCliVars, clientNet, upNet, Finish, Sides
<1>14. Records'
  BY Constants, <1>1, <1>2, <1>3, <1>4, NoRecords
  DEF Records, reading, toCliVars, Finish, Sides
<1>15. Recv'
  BY Constants, <1>1, <1>2, <1>3, <1>4, NoRecords
  DEF Flags, Records, Buffers, Recv, control, toUpVars, Finish, Sides
<1>16. Wired'
  BY Constants, <1>1, <1>2, <1>3, <1>4, NoRecords
  DEF Flags, Records, Buffers, Recv, Wired, Parser, AppFrame, Paid, control, toCliVars, Finish,
      Sides
<1>17. Seen'
  BY <1>1, <1>2, <1>3, NoRecords
  DEF Sockets, Seen, ClientWaits, UpWaits, reading, control, clientNet, upNet, Finish, Sides
<1>18. Outputs'
  BY Constants, <1>1, <1>2, <1>3, <1>4, NoRecords
  DEF Flags, Sockets, Buffers, Records, Recv, Wired, AppFrame, Outputs, control, toUpVars,
      toCliVars, Finish, Sides
<1>19. Inputs'
  BY Constants, <1>1, <1>2, <1>3, <1>4, NoRecords
  DEF Flags, Sockets, Buffers, Recv, Seen, Outputs, Inputs, InputComes, ClientWaits, UpWaits,
      Due, Unread, control, reading, toUpVars, toCliVars, clientNet, upNet, Finish, Sides
<1> QED BY <1>11, <1>12, <1>13, <1>14, <1>15, <1>16, <1>17, <1>18, <1>19 DEF Core, Shape

\* ReadUpstream keeps Core.
LEMMA ReadUpstreamCore ==
  ASSUME Core, ReadUpstream
  PROVE  Core'
<1>1. Shape /\ Flags /\ Sockets /\ Buffers /\ Records /\ Recv /\ Wired /\ Seen /\ Outputs /\ Inputs
  BY DEF Core, Shape
<1>2. ub = 0 /\ pc = "toClient" /\ ~app.on BY <1>1 DEF ReadUpstream, Wired, AppFrame
<1>3. /\ ub' \in 0 .. BufSize /\ from' \in Nat
      /\ loc' \in LocSet /\ loc'.size = 0 /\ loc'.got = 0 /\ loc'.frames = 0
      /\ loc'.seen["client"] <=> loc.seen["client"]
      /\ loc'.seen["upstream"] => eof'["upstream"]
      /\ pc' \in {"toClient", "finish"} /\ (pc' = "finish" => ub' = 0)
      /\ eof' \in [Sides -> BOOLEAN] /\ (eof'["client"] <=> eof["client"])
      /\ eof'["upstream"] => fin["upstream"] /\ from' = 0
      /\ ready' \in [Sides -> BOOLEAN] /\ (ready'["client"] <=> ready["client"])
      /\ from' > 0 \/ (fin["upstream"] /\ ~eof'["upstream"]) =>
           ev["upstream"] \/ (ready'["upstream"] /\ pc' # "finish")
  <2>1. /\ from \in Nat /\ loc \in LocSet /\ loc.seen \in [Sides -> BOOLEAN]
        /\ loc.size = 0 /\ loc.got = 0 /\ loc.frames = 0 /\ ~loc.seen["upstream"]
        /\ loc.loops \in Nat /\ loc.loops < MaxLoops /\ loc.bytes \in Nat /\ loc.bytes < Limit
    BY <1>1, <1>2 DEF Buffers, Records, LocSet, Recv, ReadUpstream, Continues
  <2>2. PICK n \in Nat : n = Smaller(ReadSize, from) /\ n <= from /\ n <= BufSize
                         /\ loc.bytes + n <= Limit /\ (n = ReadSize \/ n = from)
    BY <2>1, Constants DEF ReadSize, Smaller
  <2>3. CASE /\ n > 0 /\ ub' = n /\ from' = from - n
             /\ ready' = StillReady("upstream", n, ReadSize)
             /\ loc' = [loc EXCEPT !.loops = @ + 1, !.bytes = @ + n]
             /\ UNCHANGED <<pc, eof>>
    <3>1. /\ ready' \in [Sides -> BOOLEAN]
          /\ \A x \in Sides \ {"upstream"} : ready'[x] = ready[x]
          /\ ready'["upstream"] <=>
               (ready["upstream"] /\ (n = ReadSize \/ (fin["upstream"] /\ ~ev["upstream"])))
      BY <1>1, <2>3, StillReadyFacts, SideNames
    <3>2. ready'["client"] = ready["client"] BY <3>1, SideNames
    <3>3. /\ loc' \in LocSet /\ loc'.seen = loc.seen /\ loc'.size = 0 /\ loc'.got = 0
          /\ loc'.frames = 0
      <4> DEFINE x == loc.loops + 1
                 y == loc.bytes + n
      <4>1. x \in 0 .. MaxLoops /\ y \in 0 .. Limit BY <2>1, <2>2, Constants
      <4>2. loc' = [loc EXCEPT !.loops = x, !.bytes = y] BY <2>3
      <4>3. loc = [seen |-> loc.seen, loops |-> loc.loops, bytes |-> loc.bytes,
                   size |-> loc.size, got |-> loc.got, frames |-> loc.frames]
        BY <2>1 DEF LocSet
      <4> HIDE DEF x, y
      <4>4. loc' = [seen |-> loc.seen, loops |-> x, bytes |-> y,
                    size |-> loc.size, got |-> loc.got, frames |-> loc.frames]
        BY <4>2, <4>3
      <4> QED BY <2>1, <4>1, <4>4 DEF LocSet
    <3>4. /\ eof["upstream"] => fin["upstream"] /\ from = 0
          /\ ready["upstream"] /\ eof \in [Sides -> BOOLEAN]
      BY <1>1 DEF Seen, ReadUpstream, Sockets
    <3>5. ub' \in 0 .. BufSize /\ from' \in Nat BY <2>1, <2>2, <2>3, Constants
    <3>6. from > 0 BY <2>1, <2>2, <2>3
    <3>7. ~eof["upstream"] BY <3>4, <3>6
    <3> QED BY <1>2, <2>1, <2>2, <2>3, <3>1, <3>2, <3>3, <3>4, <3>5, <3>7
  <2>4. CASE /\ RecvBlocks("upstream") /\ ready' = [ready EXCEPT !["upstream"] = FALSE]
             /\ pc' = "finish" /\ UNCHANGED <<eof, loc, ub, from>>
    <3>1. /\ eof["upstream"] => fin["upstream"] /\ from = 0
          /\ ub \in 0 .. BufSize
      BY <1>1 DEF Seen, Buffers
    <3>2. from > 0 \/ fin["upstream"] => ev["upstream"] BY <2>4, SideNames DEF RecvBlocks, Unread
    <3>3. eof \in [Sides -> BOOLEAN] /\ ready \in [Sides -> BOOLEAN] BY <1>1 DEF Sockets
    <3> QED BY <1>2, <2>1, <2>4, <3>1, <3>2, <3>3, SideNames
  <2>5. CASE /\ RecvEnds("upstream") /\ ready' = [ready EXCEPT !["upstream"] = FALSE]
             /\ pc' = "finish" /\ eof' = [eof EXCEPT !["upstream"] = TRUE]
             /\ loc' = [loc EXCEPT !.seen["upstream"] = TRUE]
             /\ UNCHANGED <<ub, from>>
    <3>1. fin["upstream"] /\ from = 0 BY <2>1, <2>5, SideNames DEF RecvEnds, Unread
    <3>2. eof \in [Sides -> BOOLEAN] /\ ready \in [Sides -> BOOLEAN] /\ ub \in 0 .. BufSize
      BY <1>1 DEF Sockets, Buffers
    <3>3. PICK f : f = [loc.seen EXCEPT !["upstream"] = TRUE] OBVIOUS
    <3>4. f \in [Sides -> BOOLEAN] /\ (f["client"] <=> loc.seen["client"])
      BY <2>1, <3>3, SideNames
    <3>5. loc' = [loc EXCEPT !.seen = f] BY <2>5, <3>3
    <3>6. loc' \in LocSet /\ loc'.seen = f /\ loc'.size = 0 /\ loc'.got = 0 /\ loc'.frames = 0
      BY <2>1, <3>4, <3>5 DEF LocSet
    <3>7. /\ eof' \in [Sides -> BOOLEAN] /\ eof'["upstream"] /\ (eof'["client"] <=> eof["client"])
          /\ ready' \in [Sides -> BOOLEAN] /\ (ready'["client"] <=> ready["client"])
      BY <2>5, <3>2, SideNames
    <3> QED BY <1>2, <2>1, <2>5, <3>1, <3>2, <3>4, <3>6, <3>7
  <2> QED BY <2>2, <2>3, <2>4, <2>5 DEF ReadUpstream
<1>11. Flags'
  BY Constants, <1>1, <1>2, <1>3
  DEF Flags, control, reading, toUpVars, ReadUpstream, Sides, Pcs
<1>12. Sockets'
  BY Constants, <1>1, <1>2, <1>3
  DEF Sockets, ReadUpstream, Sides
<1>13. Buffers'
  BY Constants, <1>1, <1>2, <1>3
  DEF Buffers, reading, toUpVars, toCliVars, clientNet, upNet, ReadUpstream, Sides
<1>14. Records'
  BY Constants, <1>1, <1>2, <1>3
  DEF Records, reading, toCliVars, ReadUpstream, Sides
<1>15. Recv'
  BY Constants, <1>1, <1>2, <1>3
  DEF Flags, Records, Buffers, Recv, control, toUpVars, ReadUpstream, Sides
<1>16. Wired'
  BY Constants, <1>1, <1>2, <1>3
  DEF Flags, Records, Buffers, Recv, Wired, Parser, AppFrame, Paid, control, toCliVars,
      ReadUpstream, Sides
<1>17. Seen'
  BY Constants, <1>1, <1>2, <1>3
  DEF Flags, Sockets, Buffers, Recv, Seen, ClientWaits, UpWaits, reading, control, clientNet,
      upNet, ReadUpstream, Sides
<1>18. Outputs'
  <2>1. UNCHANGED <<pend, cbuf, closing, ctl, wr, posted, app>>
    BY DEF ReadUpstream, toUpVars, control
  <2>2. ub' > 0 => pc' = "toClient" BY <1>3
  <2> QED BY <1>1, <1>2, <1>3, <2>1, <2>2 DEF Outputs
<1>19. Inputs'
  BY Constants, <1>1, <1>2, <1>3
  DEF Flags, Sockets, Buffers, Recv, Seen, Outputs, Inputs, InputComes, ClientWaits, UpWaits,
      Due, Unread, control, reading, toUpVars, toCliVars, clientNet, upNet, ReadUpstream, Sides
<1> QED BY <1>11, <1>12, <1>13, <1>14, <1>15, <1>16, <1>17, <1>18, <1>19 DEF Core, Shape

\* ClientArrives keeps Core.
LEMMA ClientArrivesCore ==
  ASSUME Core, ClientArrives
  PROVE  Core'
<1>1. Shape /\ Flags /\ Sockets /\ Buffers /\ Records /\ Recv /\ Wired /\ Seen /\ Outputs /\ Inputs
  BY DEF Core, Shape
<1>2. /\ net' \in Seq(Tokens) /\ inq' \in Seq(Tokens) /\ inq' # <<>> /\ made' \in Nat /\ sends' \in Nat
  <2>1. PICK w \in IF net = <<>> /\ sends > 0 THEN Writes ELSE {net} :
          /\ \E n \in 1 .. Len(w) : inq' = inq \o Take(w, n) /\ net' = Drop(w, n)
          /\ sends' = IF net = <<>> THEN sends - 1 ELSE sends
          /\ made' = IF net = <<>> THEN made + Cardinality(Held(w)) ELSE made
    BY DEF ClientArrives
  <2>2. PICK n \in 1 .. Len(w) : inq' = inq \o Take(w, n) /\ net' = Drop(w, n) BY <2>1
  <2>3. inq \in Seq(Tokens) /\ net \in Seq(Tokens) /\ made \in Nat /\ sends \in Nat
    BY <1>1 DEF Buffers
  <2>4. w \in Seq(Tokens) /\ (net = <<>> => sends > 0)
    <3>1. CASE net = <<>> /\ sends > 0 BY <2>3, <3>1, WritesTokens
    <3>2. CASE ~(net = <<>> /\ sends > 0)
      <4>1. w = net BY <3>2
      <4>2. net # <<>> BY <2>2, <4>1
      <4> QED BY <2>3, <4>1, <4>2
    <3> QED BY <3>1, <3>2
  <2>5. /\ Take(w, n) \in Seq(Tokens) /\ Drop(w, n) \in Seq(Tokens) /\ Len(Take(w, n)) = n
        /\ n \in Nat /\ n > 0
    BY <2>4 DEF Take, Drop
  <2>6. Cardinality(Held(w)) \in Nat BY <2>4, HeldFinite
  <2>7. inq' \in Seq(Tokens) /\ inq' # <<>>
    <3>1. PICK t \in Seq(Tokens) : t = Take(w, n) /\ Len(t) > 0 BY <2>5
    <3>2. inq' = inq \o t BY <2>2, <3>1
    <3>3. inq' \in Seq(Tokens) /\ Len(inq') = Len(inq) + Len(t) BY <2>3, <3>2
    <3> QED BY <2>3, <3>1, <3>3
  <2> QED BY <2>1, <2>2, <2>3, <2>4, <2>5, <2>6, <2>7
<1>11. Flags'
  BY Constants, <1>1, <1>2
  DEF Flags, control, reading, toUpVars, ClientArrives, AtRecv, Sides, Pcs
<1>12. Sockets'
  BY Constants, <1>1, <1>2
  DEF Sockets, ClientArrives, AtRecv, Sides
<1>13. Buffers'
  BY Constants, <1>1, <1>2
  DEF Buffers, reading, toUpVars, toCliVars, clientNet, upNet, ClientArrives, AtRecv, Sides
<1>14. Records'
  BY Constants, <1>1, <1>2
  DEF Records, reading, toCliVars, ClientArrives, AtRecv, Sides
<1>15. Recv'
  BY Constants, <1>1, <1>2
  DEF Flags, Records, Buffers, Recv, control, toUpVars, ClientArrives, AtRecv, Sides
<1>16. Wired'
  BY Constants, <1>1, <1>2
  DEF Flags, Records, Buffers, Recv, Wired, Parser, AppFrame, Paid, control, toCliVars,
      ClientArrives, AtRecv, Sides
<1>17. Seen'
  BY Constants, <1>1, <1>2
  DEF Flags, Sockets, Buffers, Recv, Seen, ClientWaits, UpWaits, reading, control, clientNet,
      upNet, ClientArrives, AtRecv, Sides
<1>18. Outputs'
  BY Constants, <1>1, <1>2
  DEF Flags, Sockets, Buffers, Records, Recv, Wired, AppFrame, Outputs, control, toUpVars,
      toCliVars, ClientArrives, AtRecv, Sides
<1>19. Inputs'
  BY Constants, <1>1, <1>2
  DEF Flags, Sockets, Buffers, Recv, Seen, Outputs, Inputs, InputComes, ClientWaits, UpWaits,
      Due, Unread, control, reading, toUpVars, toCliVars, clientNet, upNet, ClientArrives,
      AtRecv, Sides
<1> QED BY <1>11, <1>12, <1>13, <1>14, <1>15, <1>16, <1>17, <1>18, <1>19 DEF Core, Shape

\* TakeControl keeps Core.
LEMMA TakeControlCore ==
  ASSUME Core, TakeControl
  PROVE  Core'
<1>1. Shape /\ Flags /\ Sockets /\ Buffers /\ Records /\ Recv /\ Wired /\ Seen /\ Outputs /\ Inputs
  BY DEF Core, Shape
<1>2. /\ pc = "frames" /\ ws /\ loc.got = Len(cbuf) /\ loc.got < loc.size /\ ~closing
      /\ fr.kind \in {"ping", "pong", "close"} /\ fr.left \in Nat /\ fr.left > 0 /\ raw # <<>>
      /\ loc \in LocSet /\ loc.got \in Nat /\ loc.size \in Nat
      /\ UNCHANGED <<app, ub, cbuf>>
  BY <1>1 DEF TakeControl, Wants, Records, FrSet, Data, Recv, LocSet, toUpVars
<1>3. raw' \in Seq(Tokens) /\ Len(raw') < Len(raw) /\ Len(raw) <= RawSize
  BY <1>1, <1>2 DEF TakeControl, Buffers
<1>4. /\ Handled(loc.got)
      /\ fr' \in FrSet /\ (fr'.kind = "none" <=> fr'.left = 0) /\ frag' \in BOOLEAN
  <2>1. CASE fr.left = 1
    <3>1. FrameEnds(fr.kind, TRUE, loc) BY <2>1 DEF TakeControl
    <3>2. fr.kind \in Data \cup {"ping", "pong", "close"} BY <1>2
    <3>3. loc.got <= loc.size /\ loc.got \in Nat BY <1>2
    <3>4. Handled(loc.got) /\ fr' = NoFrame /\ frag' \in BOOLEAN
      BY <1>1, <1>2, <3>1, <3>2, <3>3, FrameEndsFacts
    <3> QED BY <3>4, NoRecords
  <2>2. CASE fr.left # 1
    <3>1. fr' = [fr EXCEPT !.left = fr.left - 1]
          /\ UNCHANGED <<pc, loc, frag, closing, posted, ctl, wire, room, wr>>
      BY <2>2 DEF TakeControl
    <3>2. fr' \in FrSet /\ fr'.left > 0 /\ fr'.kind = fr.kind
      <4> DEFINE r == fr.left - 1
      <4>1. r \in Nat /\ r > 0 BY <1>2, <2>2
      <4>2. fr' = [fr EXCEPT !.left = r] BY <3>1
      <4> HIDE DEF r
      <4> QED BY <1>1, <4>1, <4>2 DEF Records, FrSet
    <3>3. Handled(loc.got) BY <1>1, <1>2, <3>1, StillHandled
    <3> QED BY <1>1, <1>2, <3>1, <3>2, <3>3 DEF Flags
  <2> QED BY <2>1, <2>2
<1>5. UNCHANGED <<eof, ready, ev, fin, inq, ws, hdr, end, pend, cbuf, shut, up, ub, app,
                  net, sends, made, from, usent>>
  BY DEF TakeControl, toUpVars, clientNet, upNet
<1>6. Recv' /\ Wired' /\ Outputs' /\ Inputs'
  BY <1>1, <1>2, <1>4, <1>5, HandledCore DEF Buffers
<1>11. Flags'
  BY Constants, <1>1, <1>2, <1>3, <1>4, <1>5
  DEF Flags, control, reading, toUpVars, TakeControl, Handled, Answered, Sides, Pcs
<1>12. Sockets'
  BY Constants, <1>1, <1>2, <1>3, <1>4, <1>5
  DEF Sockets, TakeControl, Handled, Answered, Sides
<1>13. Buffers'
  BY Constants, <1>1, <1>2, <1>3, <1>4, <1>5
  DEF Buffers, reading, toUpVars, toCliVars, clientNet, upNet, TakeControl, Handled, Answered,
      Sides
<1>14. Records'
  BY Constants, <1>1, <1>2, <1>3, <1>4, <1>5
  DEF Records, reading, toCliVars, TakeControl, Handled, Answered, Sides
<1>15. Recv'
  BY <1>6
<1>16. Wired'
  BY <1>6
<1>17. Seen'
  BY Constants, <1>1, <1>2, <1>3, <1>4, <1>5
  DEF Flags, Sockets, Buffers, Recv, Seen, ClientWaits, UpWaits, reading, control, clientNet,
      upNet, TakeControl, Handled, Answered, Sides
<1>18. Outputs'
  BY <1>6
<1>19. Inputs'
  BY <1>6
<1> QED BY <1>11, <1>12, <1>13, <1>14, <1>15, <1>16, <1>17, <1>18, <1>19 DEF Core, Shape

\* TakePayload keeps Core.
LEMMA TakePayloadCore ==
  ASSUME Core, TakePayload
  PROVE  Core'
<1>1. Shape /\ Flags /\ Sockets /\ Buffers /\ Records /\ Recv /\ Wired /\ Seen /\ Outputs /\ Inputs
  BY DEF Core, Shape
<1>2. /\ pc = "frames" /\ ws /\ loc.got = Len(cbuf) /\ loc.got < loc.size /\ loc.size <= BufSize
      /\ fr.kind \in Data /\ fr.left \in Nat /\ fr.left > 0 /\ fr.fin \in BOOLEAN
      /\ loc \in LocSet /\ loc.got \in Nat /\ loc.size \in Nat
      /\ raw \in Seq(Tokens) /\ inq \in Seq(Tokens) /\ cbuf \in Seq(Nat) /\ Len(raw) <= RawSize
      /\ UNCHANGED <<app, ub>>
  <2>1. Wants /\ ws /\ fr.kind \in Data /\ UNCHANGED <<app, ub>> BY Zenon DEF TakePayload
  <2>2. loc \in LocSet /\ fr \in FrSet /\ (fr.kind = "none" <=> fr.left = 0)
    BY <1>1, Zenon DEF Records
  <2>3. pc = "frames" /\ loc.got = Len(cbuf) /\ loc.got < loc.size /\ loc.size <= BufSize
    BY <1>1, <2>1 DEF Wants, Recv
  <2>4. fr.left \in Nat /\ fr.left > 0 /\ fr.fin \in BOOLEAN
    BY <2>1, <2>2 DEF FrSet, Data
  <2>5. loc.got \in Nat /\ loc.size \in Nat BY <2>2 DEF LocSet
  <2> QED BY <1>1, <2>1, <2>2, <2>3, <2>4, <2>5, Zenon DEF Buffers
<1>3. PICK asked \in Nat, src \in Seq(Tokens), n \in Nat :
        /\ asked = Smaller(loc.size - loc.got, fr.left)
        /\ src = IF Direct THEN inq ELSE raw
        /\ n = Smaller(asked, Len(src))
        /\ 0 < n /\ n <= Len(src) /\ n <= fr.left /\ n <= loc.size - loc.got
        /\ n = asked \/ n = Len(src)
  <2>1. PICK asked \in Nat : asked = Smaller(loc.size - loc.got, fr.left)
                             /\ asked <= fr.left /\ asked <= loc.size - loc.got
    <3>1. loc.size - loc.got \in Nat BY <1>2
    <3> QED BY <1>2, <3>1, SmallerFacts
  <2>2. PICK src \in Seq(Tokens) : src = IF Direct THEN inq ELSE raw BY <1>2
  <2>3. PICK n \in Nat : n = Smaller(asked, Len(src)) /\ n <= asked /\ n <= Len(src)
                         /\ (n = asked \/ n = Len(src))
    BY <2>1, <2>2 DEF Smaller
  <2>4. n > 0 BY <2>1, <2>2, <2>3 DEF TakePayload
  <2>5. n <= fr.left /\ n <= loc.size - loc.got
    <3>1. loc.size - loc.got \in Nat BY <1>2
    <3> QED BY <1>2, <2>1, <2>3, <3>1
  <2> QED BY <2>1, <2>2, <2>3, <2>4, <2>5
<1>4. /\ src \in Seq(Tokens) /\ cbuf' = cbuf \o Numbers(Take(src, n))
      /\ Direct => inq' = Drop(src, n) /\ raw' = raw /\ ready' = StillReady("client", n, asked)
                   /\ raw = <<>>
      /\ ~Direct => raw' = Drop(src, n) /\ UNCHANGED <<inq, ready>> /\ raw # <<>>
      /\ \E l : /\ l = [loc EXCEPT !.got = @ + n]
                /\ IF n = fr.left THEN FrameEnds(fr.kind, fr.fin, l)
                   ELSE /\ fr' = [fr EXCEPT !.left = @ - n] /\ loc' = l
                        /\ UNCHANGED <<pc, frag, closing, posted, ctl, wire, room, wr>>
  BY <1>2, <1>3 DEF TakePayload, Direct
<1>5. /\ cbuf' \in Seq(Nat) /\ Len(cbuf') = loc.got + n
      /\ Drop(src, n) \in Seq(Tokens) /\ Len(Drop(src, n)) = Len(src) - n
      /\ raw' \in Seq(Tokens) /\ inq' \in Seq(Tokens) /\ Len(raw') <= Len(raw)
      /\ Direct => raw' = <<>> /\ inq # <<>> /\ (inq' = <<>> <=> n = Len(inq))
      /\ ~Direct => raw # <<>>
  <2>1. /\ Take(src, n) \in Seq(Tokens) /\ Len(Take(src, n)) = n
        /\ Drop(src, n) \in Seq(Tokens) /\ Len(Drop(src, n)) = Len(src) - n
    BY <1>3, <1>4 DEF Take, Drop
  <2>2. PICK t : t = Numbers(Take(src, n)) /\ t \in Seq(Nat) /\ Len(t) = n BY <2>1, NumbersFacts
  <2>3. cbuf' = cbuf \o t BY <1>4, <2>2
  <2>4. cbuf' \in Seq(Nat) /\ Len(cbuf') = loc.got + n
    <3>1. cbuf \o t \in Seq(Nat) /\ Len(cbuf \o t) = Len(cbuf) + Len(t)
      BY <1>2, <2>2, ConcatProperties
    <3> QED BY <1>2, <2>2, <2>3, <3>1
  <2>5. CASE Direct BY <1>2, <1>3, <1>4, <2>1, <2>4, <2>5
  <2>6. CASE ~Direct BY <1>2, <1>3, <1>4, <2>1, <2>4, <2>6
  <2> QED BY <2>5, <2>6
<1>6. /\ ready' \in [Sides -> BOOLEAN] /\ ready'["upstream"] = ready["upstream"]
      /\ ~Direct => ready' = ready
      /\ Direct => (ready'["client"] <=> (ready["client"] /\ (n = asked \/ (fin["client"] /\ ~ev["client"]))))
  <2>1. CASE Direct
    <3>1. /\ ready' \in [Sides -> BOOLEAN]
          /\ \A x \in Sides \ {"client"} : ready'[x] = ready[x]
          /\ ready'["client"] <=> (ready["client"] /\ (n = asked \/ (fin["client"] /\ ~ev["client"])))
      BY <1>1, <1>4, <2>1, StillReadyFacts, SideNames
    <3> QED BY <2>1, <3>1, SideNames
  <2>2. CASE ~Direct BY <1>1, <1>4, <2>2 DEF Sockets
  <2> QED BY <2>1, <2>2
<1>7. /\ Handled(loc.got + n)
      /\ fr' \in FrSet /\ (fr'.kind = "none" <=> fr'.left = 0) /\ frag' \in BOOLEAN
  <2> DEFINE g == loc.got + n
  <2>1. g \in Nat /\ g <= loc.size BY <1>2, <1>3
  <2>2. PICK l : l = [loc EXCEPT !.got = g] OBVIOUS
  <2>3. /\ l \in LocSet /\ l.seen = loc.seen /\ l.size = loc.size /\ l.bytes = loc.bytes
        /\ l.loops = loc.loops /\ l.frames = loc.frames /\ l.got = g
    <3> HIDE DEF g
    <3> QED BY <1>2, <2>1, <2>2 DEF LocSet
  <2>4. CASE n = fr.left
    <3>1. FrameEnds(fr.kind, fr.fin, l) BY <1>4, <2>2, <2>4
    <3>2. fr.kind \in Data \cup {"ping", "pong", "close"} /\ fr.kind # "close" BY <1>2 DEF Data
    <3>3. Handled(l.got) /\ fr' = NoFrame /\ frag' \in BOOLEAN
      BY <1>1, <1>2, <2>1, <2>3, <3>1, <3>2, FrameEndsFacts
    <3> QED BY <2>3, <3>3, NoRecords
  <2>5. CASE n # fr.left
    <3>1. /\ fr' = [fr EXCEPT !.left = fr.left - n] /\ loc' = l
          /\ UNCHANGED <<pc, frag, closing, posted, ctl, wire, room, wr>>
      BY <1>4, <2>2, <2>5
    <3>2. fr' \in FrSet /\ fr'.left > 0 /\ fr'.kind = fr.kind
      <4> DEFINE r == fr.left - n
      <4>1. r \in Nat /\ r > 0 BY <1>2, <1>3, <2>5
      <4>2. fr' = [fr EXCEPT !.left = r] BY <3>1
      <4> HIDE DEF r
      <4> QED BY <1>1, <4>1, <4>2 DEF Records, FrSet
    <3>3. Answered
      BY <1>1, <1>2, <3>1 DEF Answered, Records, Sockets, Wired, Parser, AppFrame, Paid
    <3>4. Handled(g) BY <1>1, <1>2, <2>3, <3>1, <3>3 DEF Handled, Flags, Recv, Wired
    <3>5. fr.kind # "none" /\ frag' \in BOOLEAN BY <1>1, <1>2, <3>1 DEF Data, Flags
    <3> QED BY <3>2, <3>4, <3>5
  <2> QED BY <2>4, <2>5
<1>8. UNCHANGED <<eof, ev, fin, ws, hdr, end, pend, shut, up, ub, app,
                  net, sends, made, from, usent>>
  BY DEF TakePayload, upNet
<1>9. loc.got + n \in Nat /\ loc.got + n <= loc.size /\ loc.got + n <= BufSize
  BY <1>2, <1>3, Constants
<1>10. Recv' /\ Wired' /\ Outputs' /\ Inputs'
  BY <1>1, <1>2, <1>5, <1>7, <1>8, <1>9, HandledCore
<1>11. Flags'
  BY Constants, <1>1, <1>3, <1>5, <1>6, <1>7, <1>8
  DEF Flags, control, reading, toUpVars, TakePayload, Handled, Answered, Sides, Pcs
<1>12. Sockets'
  BY Constants, <1>1, <1>3, <1>5, <1>6, <1>7, <1>8
  DEF Sockets, TakePayload, Handled, Answered, Sides
<1>13. Buffers'
  <2>1. Len(raw') <= RawSize /\ Len(cbuf') <= BufSize
    BY <1>2, <1>5, <1>9, Constants
  <2> QED BY <1>1, <1>5, <1>8, <2>1 DEF Buffers
<1>14. Records'
  BY Constants, <1>1, <1>3, <1>5, <1>6, <1>7, <1>8
  DEF Records, reading, toCliVars, TakePayload, Handled, Answered, Sides
<1>15. Recv'
  BY <1>10
<1>16. Wired'
  BY <1>10
<1>17. Seen'
  <2>1. /\ fin' = fin /\ ev' = ev /\ eof' = eof /\ from' = from /\ hdr' = hdr /\ ws
        /\ loc'.seen = loc.seen /\ ready'["upstream"] = ready["upstream"] /\ ws' = ws
    BY <1>2, <1>6, <1>7, <1>8 DEF Handled
  <2>2. ~eof["client"]
    BY <1>1, <1>3, <1>5 DEF Seen
  <2>3. inq' # <<>> \/ (fin["client"] /\ ~eof["client"]) => ev["client"] \/ ready'["client"]
    BY <1>1, <1>2, <1>3, <1>4, <1>5, <1>6 DEF Seen, ClientWaits, Sockets, Sides
  <2> QED BY <1>1, <1>2, <2>1, <2>2, <2>3 DEF Seen, ClientWaits, UpWaits, Sides
<1>18. Outputs'
  BY <1>10
<1>19. Inputs'
  BY <1>10
<1> QED BY <1>11, <1>12, <1>13, <1>14, <1>15, <1>16, <1>17, <1>18, <1>19 DEF Core, Shape

\* TakeHead keeps Core.
LEMMA TakeHeadCore ==
  ASSUME Core, TakeHead, Head(raw) \in Tokens, Head(raw).is = "head"
  PROVE  Core'
<1>1. Shape /\ Flags /\ Sockets /\ Buffers /\ Records /\ Recv /\ Wired /\ Seen /\ Outputs /\ Inputs
  BY DEF Core, Shape
<1>2. /\ pc = "frames" /\ ws /\ loc.got = Len(cbuf) /\ loc.got < loc.size /\ ~closing
      /\ fr.kind = "none" /\ raw # <<>>
      /\ loc \in LocSet /\ loc.got \in Nat /\ loc.size \in Nat
      /\ UNCHANGED <<app, ub, cbuf>>
  BY <1>1 DEF TakeHead, Wants, Records, FrSet, Data, Recv, LocSet, toUpVars
<1>3. raw' \in Seq(Tokens) /\ Len(raw') < Len(raw) /\ Len(raw) <= RawSize /\ hdr' = FALSE
      /\ raw # <<>>
  BY <1>1 DEF TakeHead, Buffers
<1>4. /\ Handled(loc.got)
      /\ fr' \in FrSet /\ (fr'.kind = "none" <=> fr'.left = 0) /\ frag' \in BOOLEAN
  <2>1. PICK h : h = Head(raw) OBVIOUS
  <2>2. /\ h.kind \in Data \cup {"ping", "pong", "close", "bad"} /\ h.fin \in BOOLEAN
        /\ h.len \in Nat
    BY <2>1 DEF Tokens
  <2>3. CASE Refused(h)
    <3>1. Closes /\ UNCHANGED <<fr, frag>> BY <2>1, <2>3 DEF TakeHead
    <3>2. Handled(loc.got) BY <1>1, <1>2, <3>1, ClosesFacts
    <3> QED BY <1>1, <3>1, <3>2 DEF Records, Flags
  <2>4. CASE ~Refused(h) /\ h.len = 0
    <3>1. FrameEnds(h.kind, h.fin, loc) BY <2>1, <2>4 DEF TakeHead
    <3>2. h.kind \in Data \cup {"ping", "pong", "close"} BY <2>2, <2>4 DEF Refused
    <3>3. loc.got <= loc.size BY <1>2
    <3>4. Handled(loc.got) /\ fr' = NoFrame /\ frag' \in BOOLEAN
      BY <1>1, <1>2, <2>2, <3>1, <3>2, <3>3, FrameEndsFacts
    <3> QED BY <3>4, NoRecords
  <2>5. CASE ~Refused(h) /\ h.len # 0
    <3>1. /\ fr' = [kind |-> h.kind, fin |-> h.fin, left |-> h.len]
          /\ UNCHANGED <<pc, loc, frag, closing, posted, ctl, wire, room, wr>>
      BY <2>1, <2>5 DEF TakeHead
    <3>2. h.kind \in Data \cup {"ping", "pong", "close"} /\ h.kind # "none"
      BY <2>2, <2>5 DEF Refused, Data
    <3>3. fr' \in FrSet /\ fr'.kind # "none" /\ fr'.left # 0
      BY <2>2, <2>5, <3>1, <3>2 DEF FrSet
    <3>4. Handled(loc.got) BY <1>1, <1>2, <3>1, StillHandled
    <3> QED BY <1>1, <3>1, <3>3, <3>4 DEF Flags
  <2> QED BY <2>3, <2>4, <2>5
<1>5. UNCHANGED <<eof, ready, ev, fin, inq, ws, end, pend, cbuf, shut, up, ub, app,
                  net, sends, made, from, usent>>
  BY DEF TakeHead, toUpVars, clientNet, upNet
<1>6. Recv' /\ Wired' /\ Outputs' /\ Inputs'
  BY <1>1, <1>2, <1>4, <1>5, HandledCore DEF Buffers
<1>11. Flags'
  BY Constants, <1>1, <1>3, <1>4, <1>5
  DEF Flags, control, reading, toUpVars, TakeHead, Handled, Answered, Sides, Pcs
<1>12. Sockets'
  BY Constants, <1>1, <1>3, <1>4, <1>5
  DEF Sockets, TakeHead, Handled, Answered, Sides
<1>13. Buffers'
  BY Constants, <1>1, <1>3, <1>4, <1>5
  DEF Buffers, reading, toUpVars, toCliVars, clientNet, upNet, TakeHead, Handled, Answered, Sides
<1>14. Records'
  BY Constants, <1>1, <1>3, <1>4, <1>5
  DEF Records, reading, toCliVars, TakeHead, Handled, Answered, Sides
<1>15. Recv'
  BY <1>6
<1>16. Wired'
  BY <1>6
<1>17. Seen'
  BY Constants, <1>1, <1>3, <1>4, <1>5
  DEF Flags, Sockets, Buffers, Recv, Seen, ClientWaits, UpWaits, reading, control, clientNet,
      upNet, TakeHead, Handled, Answered, Sides
<1>18. Outputs'
  BY <1>6
<1>19. Inputs'
  BY <1>6
<1> QED BY <1>11, <1>12, <1>13, <1>14, <1>15, <1>16, <1>17, <1>18, <1>19 DEF Core, Shape

\* finalize keeps the invariant: nothing is left.
LEMMA EndsCore ==
  ASSUME Core, NEW why \in {"eof", "closed", "timeout", "error"}, Finalize(why)
  PROVE  Core' /\ InOrder' /\ ~shut' /\ end' = why
<1>1. Shape /\ Flags /\ Sockets /\ Buffers /\ Records /\ Recv BY DEF Core, Shape
<1>2. /\ pc' = "ended" /\ end' = why /\ closing' = FALSE /\ posted' = {} /\ loc' = NoLoc
      /\ raw' = <<>> /\ hdr' = FALSE /\ fr' = NoFrame /\ frag' = FALSE
      /\ pend' = <<>> /\ cbuf' = <<>> /\ up' = <<>> /\ shut' = FALSE
      /\ ub' = 0 /\ app' = NoApp /\ ctl' = NoCtl /\ wire' = NoWire
      /\ net' = <<>> /\ inq' = <<>> /\ sends' = 0 /\ made' = 0 /\ from' = 0 /\ usent' = 0
      /\ ws' = ws
  BY DEF Finalize
<1>3. /\ ready' = [s \in Sides |-> FALSE] /\ eof' = [s \in Sides |-> FALSE]
      /\ wr' = [s \in Sides |-> FALSE] /\ ev' = [s \in Sides |-> FALSE]
      /\ fin' = [s \in Sides |-> FALSE] /\ room' = [s \in Sides |-> FALSE]
  BY DEF Finalize
<1>4. Flags' BY <1>1, <1>2 DEF Flags, Pcs
<1>5. Sockets' BY <1>3 DEF Sockets
<1>6. Buffers' BY <1>2, Constants DEF Buffers
<1>7. Records' BY <1>2, NoRecords DEF Records
<1>8. Recv' /\ Wired' BY <1>2, NoRecords DEF Recv, Wired, Parser, AppFrame
<1>9. Seen' BY <1>2, <1>3, NoRecords, SideNames DEF Seen, ClientWaits, UpWaits
<1>10. Outputs' /\ Inputs' BY <1>2, NoRecords DEF Outputs, Inputs
<1>11. InOrder' BY <1>2 DEF InOrder
<1> QED BY <1>2, <1>4, <1>5, <1>6, <1>7, <1>8, <1>9, <1>10, <1>11 DEF Core, Shape

----------------------------------------------------------------------------
(* The order of the client's bytes.                                        *)

\* Two sequences in a row.
LEMMA JoinFacts ==
  ASSUME NEW S, NEW x \in Seq(S), NEW y \in Seq(S)
  PROVE  /\ x \o y \in Seq(S) /\ Len(x \o y) = Len(x) + Len(y)
         /\ \A i \in 1 .. Len(x) : (x \o y)[i] = x[i]
         /\ \A i \in 1 .. Len(y) : (x \o y)[Len(x) + i] = y[i]
OBVIOUS

\* Dropping from the first of two.
LEMMA DropJoin ==
  ASSUME NEW S, NEW x \in Seq(S), NEW y \in Seq(S), NEW n \in 0 .. Len(x)
  PROVE  Drop(x \o y, n) = Drop(x, n) \o y
<1>1. /\ x \o y \in Seq(S) /\ Len(x \o y) = Len(x) + Len(y)
      /\ \A i \in 1 .. Len(x) : (x \o y)[i] = x[i]
      /\ \A i \in 1 .. Len(y) : (x \o y)[Len(x) + i] = y[i]
      /\ Len(x) \in Nat /\ Len(y) \in Nat /\ n \in 0 .. Len(x \o y)
  BY JoinFacts
<1>2. PICK a : a = x \o y OBVIOUS
<1>3. /\ Drop(a, n) \in Seq(S) /\ Len(Drop(a, n)) = Len(a) - n
      /\ \A i \in 1 .. (Len(a) - n) : Drop(a, n)[i] = a[n + i]
  BY <1>1, <1>2, DropFacts
<1>4. /\ Drop(x, n) \in Seq(S) /\ Len(Drop(x, n)) = Len(x) - n
      /\ \A i \in 1 .. (Len(x) - n) : Drop(x, n)[i] = x[n + i]
  BY DropFacts
<1>5. PICK d \in Seq(S) : d = Drop(x, n) BY <1>4
<1>6. /\ d \o y \in Seq(S) /\ Len(d \o y) = Len(d) + Len(y)
      /\ \A i \in 1 .. Len(d) : (d \o y)[i] = d[i]
      /\ \A i \in 1 .. Len(y) : (d \o y)[Len(d) + i] = y[i]
  BY JoinFacts
<1>7. Len(d \o y) = Len(Drop(a, n)) BY <1>1, <1>2, <1>3, <1>4, <1>5, <1>6
<1>8. ASSUME NEW i \in 1 .. Len(Drop(a, n)) PROVE Drop(a, n)[i] = (d \o y)[i]
  <2>1. Drop(a, n)[i] = a[n + i] /\ i \in Nat /\ i > 0 BY <1>1, <1>2, <1>3
  <2>2. CASE i <= Len(x) - n
    <3>1. (d \o y)[i] = x[n + i] BY <1>1, <1>4, <1>5, <1>6, <2>1, <2>2
    <3>2. n + i \in 1 .. Len(x) BY <1>1, <2>1, <2>2
    <3> QED BY <1>1, <1>2, <2>1, <3>1, <3>2
  <2>3. CASE i > Len(x) - n
    <3>1. PICK j \in 1 .. Len(y) : i = (Len(x) - n) + j
      <4>1. i - (Len(x) - n) \in 1 .. Len(y) BY <1>1, <1>2, <1>3, <2>1, <2>3
      <4> QED BY <1>1, <2>1, <4>1
    <3>2. (d \o y)[i] = y[j] BY <1>4, <1>5, <1>6, <3>1
    <3>3. n + i = Len(x) + j BY <1>1, <3>1
    <3> QED BY <1>1, <1>2, <2>1, <3>2, <3>3
  <2>4. i \in Nat /\ n \in Nat /\ Len(x) \in Nat BY <1>1, <2>1
  <2>5. i <= Len(x) - n \/ i > Len(x) - n BY <2>4
  <2> QED BY <2>2, <2>3, <2>5, Zenon
<1>9. Drop(a, n) = d \o y
  BY <1>3, <1>6, <1>7, <1>8, SeqEqual
<1> QED BY <1>2, <1>5, <1>9

\* The two parts make the whole.
LEMMA TakeDrop ==
  ASSUME NEW S, NEW q \in Seq(S), NEW n \in 0 .. Len(q)
  PROVE  Take(q, n) \o Drop(q, n) = q
<1>1. 1 \in 1 .. (Len(q) + 1) /\ n \in (1 - 1) .. Len(q) /\ Len(q) \in n .. Len(q) OBVIOUS
<1>2. SubSeq(q, 1, n) \o SubSeq(q, n + 1, Len(q)) = SubSeq(q, 1, Len(q))
  BY <1>1, ConcatAdjacentSubSeq
<1>3. SubSeq(q, 1, Len(q)) = q OBVIOUS
<1> QED BY <1>2, <1>3 DEF Take, Drop

\* Bytes or other tokens are read from the front.
LEMMA DropNumbered ==
  ASSUME NEW t \in Seq(Tokens), NEW b \in Nat, NEW e \in Nat, Numbered(t, b, e),
         NEW n \in 0 .. Len(t), NEW m \in {0, n},
         m = 0 => \A d \in 1 .. n : ~IsByte(t[d]),
         m # 0 => \A d \in 1 .. n : IsByte(t[d]) /\ t[d].n = b + d
  PROVE  Numbered(Drop(t, n), b + m, e)
<1>1. PICK u \in Seq(Tokens) : u = Drop(t, n) /\ Len(u) = Len(t) - n
                               /\ \A i \in 1 .. Len(u) : u[i] = t[n + i]
  <2>1. /\ Drop(t, n) \in Seq(Tokens) /\ Len(Drop(t, n)) = Len(t) - n
        /\ \A i \in 1 .. (Len(t) - n) : Drop(t, n)[i] = t[n + i]
    BY DropFacts
  <2> QED BY <2>1
<1>2. /\ b <= e /\ n \in Nat /\ m \in Nat /\ Len(t) \in Nat
      /\ \A i \in 1 .. Len(t) : IsByte(t[i]) => t[i].n \in (b + 1) .. e
      /\ \A v \in (b + 1) .. e : \E i \in 1 .. Len(t) : IsByte(t[i]) /\ t[i].n = v
      /\ \A i, j \in 1 .. Len(t) : i < j /\ IsByte(t[i]) /\ IsByte(t[j]) => t[i].n < t[j].n
  BY DEF Numbered
<1>c. n \in Nat /\ m \in Nat /\ Len(t) \in Nat /\ n <= Len(t) /\ Len(u) = Len(t) - n
  BY <1>1
<1>3. b + m <= e
  <2>1. CASE m = 0 BY <1>2, <2>1
  <2>2. CASE m # 0
    <3>1. m = n /\ n \in 1 .. n /\ n \in 1 .. Len(t) BY <1>2, <2>2
    <3>2. IsByte(t[n]) /\ t[n].n = b + n BY <2>2, <3>1
    <3> QED BY <1>2, <3>1, <3>2
  <2> QED BY <2>1, <2>2
<1>4. ASSUME NEW i \in 1 .. Len(u), IsByte(u[i]) PROVE u[i].n \in (b + m + 1) .. e
  <2>1. n + i \in 1 .. Len(t) /\ u[i] = t[n + i] BY <1>1, <1>2
  <2>2. t[n + i].n \in (b + 1) .. e BY <1>2, <1>4, <2>1
  <2>3. CASE m = 0 BY <1>2, <2>1, <2>2, <2>3
  <2>4. CASE m # 0
    <3>0. m = n /\ n \in 1 .. n /\ n \in 1 .. Len(t) /\ n < n + i BY <1>c, <2>1, <2>4
    <3>1. IsByte(t[n]) /\ t[n].n = b + n BY <2>4, <3>0, Zenon
    <3>2. t[n].n < t[n + i].n BY <1>2, <1>4, <2>1, <3>0, <3>1, Zenon
    <3>3. PICK x : x = t[n + i].n /\ x \in (b + 1) .. e /\ b + n < x
      BY <2>2, <3>1, <3>2, Zenon
    <3>4. x \in (b + m + 1) .. e BY <1>c, <3>0, <3>3
    <3> QED BY <2>1, <3>3, <3>4, Zenon
  <2> QED BY <2>3, <2>4
<1>5. ASSUME NEW v \in (b + m + 1) .. e PROVE \E i \in 1 .. Len(u) : IsByte(u[i]) /\ u[i].n = v
  <2>1. v \in (b + 1) .. e BY <1>2
  <2>2. PICK i \in 1 .. Len(t) : IsByte(t[i]) /\ t[i].n = v BY <1>2, <2>1
  <2>3. i > n
    <3> SUFFICES ASSUME i <= n PROVE FALSE BY <1>2
    <3>1. i \in 1 .. n BY <1>2
    <3>2. m = n /\ t[i].n = b + i BY <2>2, <3>1
    <3> QED BY <1>2, <2>2, <3>1, <3>2
  <2>4. i - n \in 1 .. Len(u) /\ n + (i - n) = i BY <1>1, <1>2, <2>3
  <2>5. u[i - n] = t[i] BY <1>1, <2>4
  <2> QED BY <2>2, <2>4, <2>5
<1>6. ASSUME NEW i \in 1 .. Len(u), NEW j \in 1 .. Len(u), i < j, IsByte(u[i]), IsByte(u[j])
      PROVE  u[i].n < u[j].n
  <2>1. n + i \in 1 .. Len(t) /\ n + j \in 1 .. Len(t) /\ n + i < n + j BY <1>1, <1>2, <1>6
  <2>2. u[i] = t[n + i] /\ u[j] = t[n + j] BY <1>1
  <2> QED BY <1>2, <1>6, <2>1, <2>2
<1> QED BY <1>1, <1>3, <1>4, <1>5, <1>6 DEF Numbered

\* New bytes follow.
LEMMA JoinNumbered ==
  ASSUME NEW t \in Seq(Tokens), NEW w \in Seq(Tokens), NEW b \in Nat, NEW e \in Nat,
         NEW f \in Nat, Numbered(t, b, e), Numbered(w, e, f)
  PROVE  Numbered(t \o w, b, f)
<1>1. PICK u \in Seq(Tokens) :
        /\ u = t \o w /\ Len(u) = Len(t) + Len(w)
        /\ \A i \in 1 .. Len(t) : u[i] = t[i]
        /\ \A i \in 1 .. Len(w) : u[Len(t) + i] = w[i]
  <2>1. /\ t \o w \in Seq(Tokens) /\ Len(t \o w) = Len(t) + Len(w)
        /\ \A i \in 1 .. Len(t) : (t \o w)[i] = t[i]
        /\ \A i \in 1 .. Len(w) : (t \o w)[Len(t) + i] = w[i]
    BY JoinFacts
  <2> QED BY <2>1
<1>2. /\ b <= e /\ Len(t) \in Nat
      /\ \A i \in 1 .. Len(t) : IsByte(t[i]) => t[i].n \in (b + 1) .. e
      /\ \A v \in (b + 1) .. e : \E i \in 1 .. Len(t) : IsByte(t[i]) /\ t[i].n = v
      /\ \A i, j \in 1 .. Len(t) : i < j /\ IsByte(t[i]) /\ IsByte(t[j]) => t[i].n < t[j].n
  BY DEF Numbered
<1>3. /\ e <= f /\ Len(w) \in Nat
      /\ \A i \in 1 .. Len(w) : IsByte(w[i]) => w[i].n \in (e + 1) .. f
      /\ \A v \in (e + 1) .. f : \E i \in 1 .. Len(w) : IsByte(w[i]) /\ w[i].n = v
      /\ \A i, j \in 1 .. Len(w) : i < j /\ IsByte(w[i]) /\ IsByte(w[j]) => w[i].n < w[j].n
  BY DEF Numbered
<1>4. ASSUME NEW i \in 1 .. Len(u), i > Len(t) PROVE \E k \in 1 .. Len(w) : i = Len(t) + k /\ u[i] = w[k]
  <2>1. i - Len(t) \in 1 .. Len(w) /\ i = Len(t) + (i - Len(t)) BY <1>1, <1>2, <1>3, <1>4
  <2> QED BY <1>1, <2>1
<1>5. \A i \in 1 .. Len(u) : i <= Len(t) => i \in 1 .. Len(t) /\ u[i] = t[i] BY <1>1, <1>2
<1>6. ASSUME NEW i \in 1 .. Len(u), IsByte(u[i]) PROVE u[i].n \in (b + 1) .. f
  <2>1. CASE i <= Len(t)
    <3>1. i \in 1 .. Len(t) /\ u[i] = t[i] BY <1>5, <2>1
    <3>2. t[i].n \in (b + 1) .. e BY <1>2, <1>6, <3>1
    <3> QED BY <1>3, <3>1, <3>2
  <2>2. CASE i > Len(t)
    <3>1. PICK k \in 1 .. Len(w) : i = Len(t) + k /\ u[i] = w[k] BY <1>4, <2>2
    <3>2. w[k].n \in (e + 1) .. f BY <1>3, <1>6, <3>1
    <3> QED BY <1>2, <3>1, <3>2
  <2> QED BY <1>2, <2>1, <2>2
<1>7. ASSUME NEW v \in (b + 1) .. f PROVE \E i \in 1 .. Len(u) : IsByte(u[i]) /\ u[i].n = v
  <2>1. CASE v <= e
    <3>1. PICK i \in 1 .. Len(t) : IsByte(t[i]) /\ t[i].n = v BY <1>2, <1>3, <2>1
    <3>2. i \in 1 .. Len(u) BY <1>1, <1>2, <1>3
    <3> QED BY <1>1, <3>1, <3>2
  <2>2. CASE v > e
    <3>1. PICK i \in 1 .. Len(w) : IsByte(w[i]) /\ w[i].n = v BY <1>2, <1>3, <2>2
    <3>2. Len(t) + i \in 1 .. Len(u) BY <1>1, <1>2, <1>3
    <3> QED BY <1>1, <3>1, <3>2
  <2> QED BY <1>2, <1>3, <2>1, <2>2
<1>8. ASSUME NEW i \in 1 .. Len(u), NEW j \in 1 .. Len(u), i < j, IsByte(u[i]), IsByte(u[j])
      PROVE  u[i].n < u[j].n
  <2>1. CASE j <= Len(t)
    <3>1. i <= Len(t) /\ i \in Nat /\ j \in Nat BY <1>2, <1>8, <2>1
    <3>2. i \in 1 .. Len(t) /\ j \in 1 .. Len(t) /\ u[i] = t[i] /\ u[j] = t[j]
      BY <1>5, <2>1, <3>1
    <3> QED BY <1>2, <1>8, <3>2
  <2>2. CASE i > Len(t)
    <3>1. j > Len(t) BY <1>2, <1>8, <2>2
    <3>2. PICK k \in 1 .. Len(w) : i = Len(t) + k /\ u[i] = w[k] BY <1>4, <2>2
    <3>3. PICK l \in 1 .. Len(w) : j = Len(t) + l /\ u[j] = w[l] BY <1>4, <3>1
    <3>4. k < l BY <1>2, <1>8, <3>2, <3>3
    <3> QED BY <1>3, <1>8, <3>2, <3>3, <3>4
  <2>3. CASE i <= Len(t) /\ j > Len(t)
    <3>1. u[i].n \in (b + 1) .. e BY <1>2, <1>5, <1>8, <2>3
    <3>2. PICK l \in 1 .. Len(w) : j = Len(t) + l /\ u[j] = w[l] BY <1>4, <2>3
    <3>3. u[j].n \in (e + 1) .. f BY <1>3, <1>8, <3>2
    <3>4. PICK p \in (b + 1) .. e, q \in (e + 1) .. f : p = u[i].n /\ q = u[j].n
      BY <3>1, <3>3, Zenon
    <3>5. p < q OBVIOUS
    <3> QED BY <3>4, <3>5, Zenon
  <2> QED BY <1>2, <2>1, <2>2, <2>3
<1>9. b <= f BY <1>2, <1>3
<1> QED BY <1>1, <1>6, <1>7, <1>8, <1>9 DEF Numbered

\* The bytes of a numbered sequence are counted.
LEMMA HeldNumbered ==
  ASSUME NEW t \in Seq(Tokens), NEW b \in Nat, NEW e \in Nat, Numbered(t, b, e)
  PROVE  Cardinality(Held(t)) = e - b
<1>1. Held(t) = (b + 1) .. e
  <2>1. Held(t) \subseteq (b + 1) .. e BY DEF Held, Numbered
  <2>2. ASSUME NEW v \in (b + 1) .. e PROVE v \in Held(t)
    <3>1. PICK i \in 1 .. Len(t) : IsByte(t[i]) /\ t[i].n = v BY DEF Numbered
    <3> QED BY <3>1 DEF Held
  <2> QED BY <2>1, <2>2
<1>2. Cardinality((b + 1) .. e) = IF b + 1 > e THEN 0 ELSE e - (b + 1) + 1 BY FS_Interval
<1>3. b <= e BY DEF Numbered
<1> QED BY <1>1, <1>2, <1>3

\* Whole frames stay whole when tokens are read, and when a frame is added.
LEMMA DropRun ==
  ASSUME NEW t \in Seq(Tokens), NEW n \in 0 .. Len(t), NEW a \in Nat, NEW l \in Nat, NEW k,
         Run(t, n + a, l, k)
  PROVE  Run(Drop(t, n), a, l, k)
<1>1. PICK u \in Seq(Tokens) : u = Drop(t, n) /\ Len(u) = Len(t) - n
                               /\ \A i \in 1 .. Len(u) : u[i] = t[n + i]
  <2>1. /\ Drop(t, n) \in Seq(Tokens) /\ Len(Drop(t, n)) = Len(t) - n
        /\ \A i \in 1 .. (Len(t) - n) : Drop(t, n)[i] = t[n + i]
    BY DropFacts
  <2> QED BY <2>1
<1>2. /\ (n + a) + l <= Len(t) /\ n \in Nat /\ Len(t) \in Nat
      /\ \A d \in 1 .. l :
           IF k \in Data THEN IsByte(t[(n + a) + d]) /\ t[(n + a) + d].n = t[(n + a) + 1].n + d - 1
           ELSE t[(n + a) + d].is = "ctl"
      /\ (n + a) + l < Len(t) => t[(n + a) + l + 1].is = "half"
  BY DEF Run
<1>3. a + l <= Len(u) BY <1>1, <1>2
<1>4. ASSUME NEW d \in 1 .. l
      PROVE  IF k \in Data THEN IsByte(u[a + d]) /\ u[a + d].n = u[a + 1].n + d - 1
             ELSE u[a + d].is = "ctl"
  <2>1. a + d \in 1 .. Len(u) /\ n + (a + d) = (n + a) + d BY <1>1, <1>2, <1>3
  <2>2. a + 1 \in 1 .. Len(u) /\ n + (a + 1) = (n + a) + 1 BY <1>1, <1>2, <1>3
  <2>3. u[a + d] = t[(n + a) + d] /\ u[a + 1] = t[(n + a) + 1] BY <1>1, <2>1, <2>2
  <2> QED BY <1>2, <2>3
<1>5. ASSUME a + l < Len(u) PROVE u[a + l + 1].is = "half"
  <2>1. /\ (n + a) + l < Len(t) /\ a + l + 1 \in 1 .. Len(u)
        /\ n + (a + l + 1) = (n + a) + l + 1
    BY <1>1, <1>2, <1>5
  <2>2. u[a + l + 1] = t[(n + a) + l + 1] BY <1>1, <2>1
  <2> QED BY <1>2, <2>1, <2>2
<1> QED BY <1>1, <1>3, <1>4, <1>5 DEF Run

\* What follows the first n tokens is framed if the whole was.
LEMMA DropFramed ==
  ASSUME NEW t \in Seq(Tokens), NEW n \in 0 .. Len(t), Framed(t)
  PROVE  Framed(Drop(t, n))
<1>1. PICK u \in Seq(Tokens) : u = Drop(t, n) /\ Len(u) = Len(t) - n
                               /\ \A i \in 1 .. Len(u) : u[i] = t[n + i]
  <2>1. /\ Drop(t, n) \in Seq(Tokens) /\ Len(Drop(t, n)) = Len(t) - n
        /\ \A i \in 1 .. (Len(t) - n) : Drop(t, n)[i] = t[n + i]
    BY DropFacts
  <2> QED BY <2>1
<1>2. ASSUME NEW i \in 1 .. Len(u)
      PROVE  /\ u[i].is = "half" => i < Len(u) /\ u[i + 1].is = "head"
             /\ u[i].is = "head" => Run(u, i, u[i].len, u[i].kind)
  <2>1. n + i \in 1 .. Len(t) /\ u[i] = t[n + i] /\ i \in Nat /\ n \in Nat /\ Len(t) \in Nat
    BY <1>1
  <2>2. ASSUME u[i].is = "half" PROVE i < Len(u) /\ u[i + 1].is = "head"
    <3>1. n + i < Len(t) /\ t[(n + i) + 1].is = "head" BY <2>1, <2>2 DEF Framed
    <3>2. i < Len(u) /\ i + 1 \in 1 .. Len(u) /\ n + (i + 1) = (n + i) + 1 BY <1>1, <2>1, <3>1
    <3> QED BY <1>1, <3>1, <3>2
  <2>3. ASSUME u[i].is = "head" PROVE Run(u, i, u[i].len, u[i].kind)
    <3>1. Run(t, n + i, u[i].len, u[i].kind) BY <2>1, <2>3 DEF Framed
    <3>2. u[i].len \in Nat
      <4>1. u[i] \in Tokens OBVIOUS
      <4> QED BY <2>3, <4>1 DEF Tokens
    <3> QED BY <1>1, <2>1, <3>1, <3>2, DropRun
  <2> QED BY <2>2, <2>3
<1> QED BY <1>1, <1>2 DEF Framed

\* A payload stays one when a new frame is written behind it.
LEMMA JoinRun ==
  ASSUME NEW t \in Seq(Tokens), NEW w \in Seq(Tokens), w # <<>> => w[1].is = "half",
         NEW a \in Nat, NEW l \in Nat, NEW k, Run(t, a, l, k)
  PROVE  Run(t \o w, a, l, k)
<1>1. PICK u \in Seq(Tokens) :
        /\ u = t \o w /\ Len(u) = Len(t) + Len(w)
        /\ \A i \in 1 .. Len(t) : u[i] = t[i]
        /\ \A i \in 1 .. Len(w) : u[Len(t) + i] = w[i]
  <2>1. /\ t \o w \in Seq(Tokens) /\ Len(t \o w) = Len(t) + Len(w)
        /\ \A i \in 1 .. Len(t) : (t \o w)[i] = t[i]
        /\ \A i \in 1 .. Len(w) : (t \o w)[Len(t) + i] = w[i]
    BY JoinFacts
  <2> QED BY <2>1
<1>2. /\ a + l <= Len(t) /\ Len(t) \in Nat /\ Len(w) \in Nat
      /\ \A d \in 1 .. l :
           IF k \in Data THEN IsByte(t[a + d]) /\ t[a + d].n = t[a + 1].n + d - 1
           ELSE t[a + d].is = "ctl"
      /\ a + l < Len(t) => t[a + l + 1].is = "half"
  <2>1. Len(t) \in Nat /\ Len(w) \in Nat OBVIOUS
  <2> QED BY <2>1, Zenon DEF Run
<1>3. a + l <= Len(u) BY <1>1, <1>2
<1>4. ASSUME NEW d \in 1 .. l
      PROVE  IF k \in Data THEN IsByte(u[a + d]) /\ u[a + d].n = u[a + 1].n + d - 1
             ELSE u[a + d].is = "ctl"
  <2>1. a + d \in 1 .. Len(t) /\ a + 1 \in 1 .. Len(t) BY <1>2
  <2>2. u[a + d] = t[a + d] /\ u[a + 1] = t[a + 1] BY <1>1, <2>1
  <2> QED BY <1>2, <2>2
<1>5. ASSUME a + l < Len(u) PROVE u[a + l + 1].is = "half"
  <2>1. CASE a + l < Len(t)
    <3>1. a + l + 1 \in 1 .. Len(t) BY <1>2, <2>1
    <3> QED BY <1>1, <1>2, <2>1, <3>1
  <2>2. CASE a + l = Len(t)
    <3>1. Len(w) > 0 /\ 1 \in 1 .. Len(w) BY <1>1, <1>2, <1>5, <2>2
    <3>2. u[Len(t) + 1] = w[1] /\ w # <<>> BY <1>1, <3>1
    <3> QED BY <2>2, <3>2
  <2> QED BY <1>2, <2>1, <2>2
<1> QED BY <1>1, <1>3, <1>4, <1>5 DEF Run

\* A payload stays one when tokens stand in front of it.
LEMMA RunBehind ==
  ASSUME NEW t \in Seq(Tokens), NEW w \in Seq(Tokens), NEW a \in Nat, NEW l \in Nat, NEW k,
         Run(w, a, l, k)
  PROVE  Run(t \o w, Len(t) + a, l, k)
<1>1. PICK u \in Seq(Tokens) :
        /\ u = t \o w /\ Len(u) = Len(t) + Len(w)
        /\ \A i \in 1 .. Len(w) : u[Len(t) + i] = w[i]
  <2>1. /\ t \o w \in Seq(Tokens) /\ Len(t \o w) = Len(t) + Len(w)
        /\ \A i \in 1 .. Len(w) : (t \o w)[Len(t) + i] = w[i]
    BY JoinFacts
  <2> QED BY <2>1
<1>2. /\ a + l <= Len(w) /\ Len(t) \in Nat /\ Len(w) \in Nat
      /\ \A d \in 1 .. l :
           IF k \in Data THEN IsByte(w[a + d]) /\ w[a + d].n = w[a + 1].n + d - 1
           ELSE w[a + d].is = "ctl"
      /\ a + l < Len(w) => w[a + l + 1].is = "half"
  BY DEF Run
<1>3. (Len(t) + a) + l <= Len(u) BY <1>1, <1>2
<1>4. ASSUME NEW d \in 1 .. l
      PROVE  IF k \in Data THEN /\ IsByte(u[(Len(t) + a) + d])
                                /\ u[(Len(t) + a) + d].n = u[(Len(t) + a) + 1].n + d - 1
             ELSE u[(Len(t) + a) + d].is = "ctl"
  <2>1. /\ a + d \in 1 .. Len(w) /\ a + 1 \in 1 .. Len(w)
        /\ (Len(t) + a) + d = Len(t) + (a + d) /\ (Len(t) + a) + 1 = Len(t) + (a + 1)
    BY <1>2
  <2>2. u[(Len(t) + a) + d] = w[a + d] /\ u[(Len(t) + a) + 1] = w[a + 1] BY <1>1, <2>1
  <2> QED BY <1>2, <2>2
<1>5. ASSUME (Len(t) + a) + l < Len(u) PROVE u[(Len(t) + a) + l + 1].is = "half"
  <2>1. /\ a + l < Len(w) /\ a + l + 1 \in 1 .. Len(w)
        /\ (Len(t) + a) + l + 1 = Len(t) + (a + l + 1)
    BY <1>1, <1>2, <1>5
  <2>2. u[(Len(t) + a) + l + 1] = w[a + l + 1] BY <1>1, <2>1
  <2> QED BY <1>2, <2>1, <2>2
<1> QED BY <1>1, <1>3, <1>4, <1>5 DEF Run

\* Framed tokens with a new frame behind them are framed.
LEMMA JoinFramed ==
  ASSUME NEW t \in Seq(Tokens), NEW w \in Seq(Tokens), w # <<>> => w[1].is = "half",
         Framed(t), Framed(w)
  PROVE  Framed(t \o w)
<1>1. PICK u \in Seq(Tokens) :
        /\ u = t \o w /\ Len(u) = Len(t) + Len(w)
        /\ \A i \in 1 .. Len(t) : u[i] = t[i]
        /\ \A i \in 1 .. Len(w) : u[Len(t) + i] = w[i]
  <2>1. /\ t \o w \in Seq(Tokens) /\ Len(t \o w) = Len(t) + Len(w)
        /\ \A i \in 1 .. Len(t) : (t \o w)[i] = t[i]
        /\ \A i \in 1 .. Len(w) : (t \o w)[Len(t) + i] = w[i]
    BY JoinFacts
  <2> QED BY <2>1
<1>2. Len(t) \in Nat /\ Len(w) \in Nat /\ Len(t) \in 0 .. Len(u) BY <1>1
<1>4. ASSUME NEW i \in 1 .. Len(u)
      PROVE  /\ u[i].is = "half" => i < Len(u) /\ u[i + 1].is = "head"
             /\ u[i].is = "head" => Run(u, i, u[i].len, u[i].kind)
  <2>1. CASE i <= Len(t)
    <3>1. i \in 1 .. Len(t) /\ u[i] = t[i] /\ i \in Nat BY <1>1, <1>2, <2>1
    <3>2. ASSUME u[i].is = "half" PROVE i < Len(u) /\ u[i + 1].is = "head"
      <4>1. i < Len(t) /\ t[i + 1].is = "head" BY <3>1, <3>2 DEF Framed
      <4>2. i + 1 \in 1 .. Len(t) /\ i < Len(u) BY <1>1, <1>2, <3>1, <4>1
      <4> QED BY <1>1, <4>1, <4>2
    <3>3. ASSUME u[i].is = "head" PROVE Run(u, i, u[i].len, u[i].kind)
      <4>1. Run(t, i, u[i].len, u[i].kind) BY <3>1, <3>3 DEF Framed
      <4>2. u[i] \in Tokens OBVIOUS
      <4>3. u[i].len \in Nat BY <3>3, <4>2 DEF Tokens
      <4> QED BY <1>1, <3>1, <4>1, <4>3, JoinRun
    <3> QED BY <3>2, <3>3
  <2>2. CASE i > Len(t)
    <3>1. PICK j \in 1 .. Len(w) : i = Len(t) + j /\ u[i] = w[j]
      <4>0. i \in Nat /\ i <= Len(t) + Len(w) BY <1>1, <1>2
      <4>1. i - Len(t) \in 1 .. Len(w) /\ i = Len(t) + (i - Len(t)) BY <1>2, <2>2, <4>0
      <4> QED BY <1>1, <4>1
    <3>2. ASSUME u[i].is = "half" PROVE i < Len(u) /\ u[i + 1].is = "head"
      <4>1. j < Len(w) /\ w[j + 1].is = "head" BY <3>1, <3>2 DEF Framed
      <4>2. j + 1 \in 1 .. Len(w) /\ i < Len(u) /\ i + 1 = Len(t) + (j + 1)
        BY <1>1, <1>2, <3>1, <4>1
      <4> QED BY <1>1, <4>1, <4>2
    <3>3. ASSUME u[i].is = "head" PROVE Run(u, i, u[i].len, u[i].kind)
      <4>1. Run(w, j, u[i].len, u[i].kind) BY <3>1, <3>3 DEF Framed
      <4>2. u[i] \in Tokens OBVIOUS
      <4>3. u[i].len \in Nat BY <3>3, <4>2 DEF Tokens
      <4> QED BY <1>1, <3>1, <4>1, <4>3, RunBehind
    <3> QED BY <3>2, <3>3
  <2> QED BY <1>2, <2>1, <2>2
<1> QED BY <1>1, <1>4 DEF Framed

\* What the client writes next is whole, and holds the next bytes.
LEMMA PayloadNumbered ==
  ASSUME made \in Nat, NEW n \in Nat
  PROVE  /\ Payload(n) \in Seq(Tokens) /\ Len(Payload(n)) = n
         /\ \A i \in 1 .. n : IsByte(Payload(n)[i]) /\ Payload(n)[i].n = made + i
         /\ Numbered(Payload(n), made, made + n)
<1>1. PICK p : p = Payload(n) OBVIOUS
<1>2. p = [i \in 1 .. n |-> [is |-> "byte", n |-> made + i]] BY <1>1 DEF Payload
<1>3. \A i \in 1 .. n : p[i] = [is |-> "byte", n |-> made + i] BY <1>2
<1>4. \A i \in 1 .. n : IsByte(p[i]) /\ p[i].n = made + i
  <2> SUFFICES ASSUME NEW i \in 1 .. n PROVE IsByte(p[i]) /\ p[i].n = made + i OBVIOUS
  <2>1. p[i] = [is |-> "byte", n |-> made + i] BY <1>3
  <2>2. p[i].is = "byte" /\ p[i].n = made + i BY <2>1
  <2> QED BY <2>2 DEF IsByte
<1>5. p \in [1 .. n -> Tokens]
  <2>1. \A i \in 1 .. n : [is |-> "byte", n |-> made + i] \in Tokens BY DEF Tokens
  <2> QED BY <1>2, <2>1
<1>6. p \in Seq(Tokens) /\ Len(p) = n
  <2>1. p \in Seq(Tokens) BY <1>5, SeqDef
  <2>2. Len(p) = n BY <1>2
  <2> QED BY <2>1, <2>2
<1>7. Numbered(p, made, made + n)
  <2>1. \A i \in 1 .. Len(p) : IsByte(p[i]) => p[i].n \in (made + 1) .. (made + n)
    BY <1>4, <1>6
  <2>2. ASSUME NEW v \in (made + 1) .. (made + n)
        PROVE  \E i \in 1 .. Len(p) : IsByte(p[i]) /\ p[i].n = v
    <3>1. v - made \in 1 .. Len(p) /\ made + (v - made) = v BY <1>6
    <3> QED BY <1>4, <1>6, <3>1
  <2>3. \A i, j \in 1 .. Len(p) : i < j /\ IsByte(p[i]) /\ IsByte(p[j]) => p[i].n < p[j].n
    BY <1>4, <1>6
  <2>4. made <= made + n OBVIOUS
  <2> QED BY <2>1, <2>2, <2>3, <2>4 DEF Numbered
<1> QED BY <1>1, <1>4, <1>6, <1>7

\* A frame that the client writes holds the next bytes, and is framed.
LEMMA FrameNumbered ==
  ASSUME made \in Nat, NEW h \in Heads, NEW w, w = FrameOf(h)
  PROVE  /\ w \in Seq(Tokens) /\ w # <<>> /\ w[1].is = "half" /\ Framed(w)
         /\ \E n \in Nat : Numbered(w, made, made + n)
<1>1. h.len \in Nat /\ h.fin \in BOOLEAN /\ h.kind \in {"bin", "cont", "ping", "pong", "close", "bad"}
  BY Constants
<1>2. PICK a, b : /\ a = [is |-> "half"]
                  /\ b = [is |-> "head", kind |-> h.kind, fin |-> h.fin, len |-> h.len]
  OBVIOUS
<1>3. a \in Tokens /\ b \in Tokens BY <1>1, <1>2 DEF Tokens, Data
<1>4. a.is = "half" /\ b.is = "head" /\ b.len = h.len /\ b.kind = h.kind BY <1>2
<1>5. PICK t : t = IF h.kind \in Data THEN Payload(h.len) ELSE Opaque(h.len) OBVIOUS
<1>6. /\ t \in Seq(Tokens) /\ Len(t) = h.len
      /\ \A d \in 1 .. Len(t) :
           IF h.kind \in Data THEN IsByte(t[d]) /\ t[d].n = made + d ELSE t[d].is = "ctl"
  <2>1. CASE h.kind \in Data BY <1>1, <1>5, <2>1, PayloadNumbered
  <2>2. CASE h.kind \notin Data
    <3>1. t = [i \in 1 .. h.len |-> [is |-> "ctl"]] BY <1>5, <2>2 DEF Opaque
    <3>2. [is |-> "ctl"] \in Tokens BY DEF Tokens
    <3>3. t \in [1 .. h.len -> Tokens] BY <3>1, <3>2
    <3>4. t \in Seq(Tokens) /\ Len(t) = h.len BY <1>1, <3>1, <3>3, SeqDef
    <3>5. \A d \in 1 .. h.len : t[d].is = "ctl" BY <3>1
    <3> QED BY <2>2, <3>4, <3>5
  <2> QED BY <2>1, <2>2
<1>7. /\ <<a, b>> \in Seq(Tokens) /\ Len(<<a, b>>) = 2 /\ <<a, b>>[1] = a /\ <<a, b>>[2] = b
  BY <1>3
<1>8. PICK v \in Seq(Tokens) : v = <<a, b>> /\ Len(v) = 2 /\ v[1] = a /\ v[2] = b BY <1>7
<1>9. /\ w \in Seq(Tokens) /\ Len(w) = 2 + h.len /\ w[1] = a /\ w[2] = b
      /\ \A d \in 1 .. Len(t) : w[2 + d] = t[d]
  <2>1. w = v \o t BY <1>2, <1>5, <1>8 DEF FrameOf
  <2>2. /\ v \o t \in Seq(Tokens) /\ Len(v \o t) = Len(v) + Len(t)
        /\ \A i \in 1 .. Len(v) : (v \o t)[i] = v[i]
        /\ \A i \in 1 .. Len(t) : (v \o t)[Len(v) + i] = t[i]
    <3>1. v \in Seq(Tokens) /\ t \in Seq(Tokens) BY <1>6
    <3> HIDE DEF Tokens
    <3> QED BY <3>1, JoinFacts
  <2>3. 1 \in 1 .. Len(v) /\ 2 \in 1 .. Len(v) BY <1>8
  <2> QED BY <1>6, <1>8, <2>1, <2>2, <2>3
<1>10. ASSUME NEW i \in 1 .. Len(w), i # 1, i # 2
       PROVE  \E d \in 1 .. Len(t) : i = 2 + d /\ w[i] = t[d]
  <2>1. i - 2 \in 1 .. Len(t) /\ i = 2 + (i - 2) BY <1>1, <1>6, <1>9, <1>10
  <2> QED BY <1>9, <2>1
<1>11. \A i \in 1 .. Len(w) : i # 1 /\ i # 2 => w[i].is \in {"byte", "ctl"}
  <2> SUFFICES ASSUME NEW i \in 1 .. Len(w), i # 1, i # 2 PROVE w[i].is \in {"byte", "ctl"}
    OBVIOUS
  <2>1. PICK d \in 1 .. Len(t) : w[i] = t[d] BY <1>10
  <2> QED BY <1>6, <2>1 DEF IsByte
<1>12. Framed(w)
  <2>1. Run(w, 2, h.len, h.kind)
    <3>1. \A d \in 1 .. h.len :
            IF h.kind \in Data THEN IsByte(w[2 + d]) /\ w[2 + d].n = w[2 + 1].n + d - 1
            ELSE w[2 + d].is = "ctl"
      <4> SUFFICES ASSUME NEW d \in 1 .. h.len
                   PROVE  IF h.kind \in Data THEN IsByte(w[2 + d]) /\ w[2 + d].n = w[2 + 1].n + d - 1
                          ELSE w[2 + d].is = "ctl"
        OBVIOUS
      <4>1. d \in 1 .. Len(t) /\ 1 \in 1 .. Len(t) /\ d \in Nat BY <1>1, <1>6
      <4>2. w[2 + d] = t[d] /\ w[2 + 1] = t[1] BY <1>9, <4>1
      <4>3. CASE h.kind \in Data
        <5>1. IsByte(t[d]) /\ t[d].n = made + d /\ t[1].n = made + 1 BY <1>6, <4>1, <4>3
        <5> QED BY <4>1, <4>2, <4>3, <5>1
      <4>4. CASE h.kind \notin Data BY <1>6, <4>1, <4>2, <4>4
      <4> QED BY <4>3, <4>4
    <3> QED BY <1>1, <1>9, <3>1 DEF Run
  <2>2. ASSUME NEW i \in 1 .. Len(w)
        PROVE  /\ w[i].is = "half" => i < Len(w) /\ w[i + 1].is = "head"
               /\ w[i].is = "head" => Run(w, i, w[i].len, w[i].kind)
    <3>1. CASE i = 1 BY <1>1, <1>4, <1>9, <3>1
    <3>2. CASE i = 2 BY <1>4, <1>9, <2>1, <3>2
    <3>3. CASE i # 1 /\ i # 2 BY <1>11, <3>3
    <3> QED BY <3>1, <3>2, <3>3
  <2> QED BY <2>2 DEF Framed
<1>13. \E n \in Nat : Numbered(w, made, made + n)
  <2>1. Numbered(v, made, made)
    <3>1. \A i \in 1 .. Len(v) : ~IsByte(v[i]) BY <1>4, <1>8 DEF IsByte
    <3> QED BY <3>1 DEF Numbered
  <2>2. w = v \o t BY <1>2, <1>5, <1>8 DEF FrameOf
  <2>3. CASE h.kind \in Data
    <3>1. Numbered(t, made, made + h.len) /\ made + h.len \in Nat
      BY <1>1, <1>5, <2>3, PayloadNumbered
    <3> QED BY <1>1, <1>6, <2>1, <2>2, <3>1, JoinNumbered
  <2>4. CASE h.kind \notin Data
    <3>1. \A i \in 1 .. Len(t) : ~IsByte(t[i]) BY <1>6, <2>4 DEF IsByte
    <3>2. Numbered(t, made, made + 0) BY <3>1 DEF Numbered
    <3>3. Numbered(w, made, made + 0) BY <1>6, <2>1, <2>2, <3>2, JoinNumbered
    <3> QED BY <3>3
  <2> QED BY <2>3, <2>4
<1>14. w # <<>> BY <1>1, <1>9
<1> QED BY <1>4, <1>9, <1>12, <1>13, <1>14

\* The next bytes of one of the two sources reach the upstream.
LEMMA GotMore ==
  ASSUME NEW u \in Seq(Nat), NEW k \in Nat, NEW m \in Nat, Got(u, k, m), k <= Prefix,
         NEW x \in Seq(Nat), NEW k2 \in Nat, NEW m2 \in Nat, NEW base \in Nat,
         \/ k2 = k + Len(x) /\ m2 = m /\ k2 <= Prefix /\ base = k
         \/ k2 = k /\ m2 = m + Len(x) /\ base = Prefix + m,
         \A i \in 1 .. Len(x) : x[i] = base + i
  PROVE  Got(u \o x, k2, m2)
<1>1. PICK y \in Seq(Nat) :
        /\ y = u \o x /\ Len(y) = Len(u) + Len(x)
        /\ \A i \in 1 .. Len(u) : y[i] = u[i]
        /\ \A i \in 1 .. Len(x) : y[Len(u) + i] = x[i]
  <2>1. /\ u \o x \in Seq(Nat) /\ Len(u \o x) = Len(u) + Len(x)
        /\ \A i \in 1 .. Len(u) : (u \o x)[i] = u[i]
        /\ \A i \in 1 .. Len(x) : (u \o x)[Len(u) + i] = x[i]
    BY JoinFacts
  <2> QED BY <2>1
<1>2. /\ Len(u) = k + m /\ Len(u) \in Nat /\ Len(x) \in Nat /\ Prefix \in Nat
      /\ \A j \in 1 .. Len(u) : u[j] \in 1 .. k \/ u[j] \in (Prefix + 1) .. (Prefix + m)
      /\ \A v \in 1 .. k : \E j \in 1 .. Len(u) : u[j] = v
      /\ \A v \in (Prefix + 1) .. (Prefix + m) : \E j \in 1 .. Len(u) : u[j] = v
      /\ \A j \in 1 .. Len(u) :
           /\ u[j] \in {1, Prefix + 1} \/ \E i \in 1 .. (j - 1) : u[i] = u[j] - 1
           /\ \A i \in 1 .. (j - 1) : u[i] # u[j]
  BY Constants DEF Got
<1>0. Len(u) = k + m /\ Len(u) \in Nat /\ Len(x) \in Nat /\ Prefix \in Nat BY <1>2
<1>r. /\ 1 .. k \subseteq 1 .. k2
      /\ (Prefix + 1) .. (Prefix + m) \subseteq (Prefix + 1) .. (Prefix + m2)
      /\ (base + 1) .. (base + Len(x)) \subseteq (1 .. k2) \cup ((Prefix + 1) .. (Prefix + m2))
      /\ 1 .. k2 \subseteq (1 .. k) \cup ((base + 1) .. (base + Len(x)))
      /\ (Prefix + 1) .. (Prefix + m2)
           \subseteq ((Prefix + 1) .. (Prefix + m)) \cup ((base + 1) .. (base + Len(x)))
  <2>1. PICK l \in Nat : l = Len(x) BY <1>0
  <2>2. \/ k2 = k + l /\ m2 = m /\ base = k
        \/ k2 = k /\ m2 = m + l /\ base = Prefix + m
    BY <2>1, Zenon
  <2>3. /\ 1 .. k \subseteq 1 .. k2
        /\ (Prefix + 1) .. (Prefix + m) \subseteq (Prefix + 1) .. (Prefix + m2)
        /\ (base + 1) .. (base + l) \subseteq (1 .. k2) \cup ((Prefix + 1) .. (Prefix + m2))
        /\ 1 .. k2 \subseteq (1 .. k) \cup ((base + 1) .. (base + l))
        /\ (Prefix + 1) .. (Prefix + m2)
             \subseteq ((Prefix + 1) .. (Prefix + m)) \cup ((base + 1) .. (base + l))
    <3>1. CASE k2 = k + l /\ m2 = m /\ base = k BY <1>0, <3>1
    <3>2. CASE k2 = k /\ m2 = m + l /\ base = Prefix + m BY <1>0, <3>2
    <3> QED BY <2>2, <3>1, <3>2, Zenon
  <2> QED BY <2>1, <2>3, Zenon
<1>3. Len(y) = k2 + m2
  <2>1. Len(y) = (k + m) + Len(x) BY <1>0, <1>1
  <2>2. k2 + m2 = (k + m) + Len(x)
    <3>1. PICK l \in Nat : l = Len(x) BY <1>0
    <3>2. (k2 = k + l /\ m2 = m) \/ (k2 = k /\ m2 = m + l) BY <3>1
    <3>3. k2 + m2 = (k + m) + l BY <3>2
    <3> QED BY <3>1, <3>3
  <2> QED BY <2>1, <2>2
<1>4. \A j \in 1 .. Len(y) : j <= Len(u) => j \in 1 .. Len(u) /\ y[j] = u[j] BY <1>1, <1>2
<1>5. ASSUME NEW j \in 1 .. Len(y), j > Len(u)
      PROVE  \E d \in 1 .. Len(x) : j = Len(u) + d /\ y[j] = base + d
  <2>1. j - Len(u) \in 1 .. Len(x) /\ j = Len(u) + (j - Len(u)) BY <1>1, <1>2, <1>5
  <2> QED BY <1>1, <2>1
<1>6. \A j \in 1 .. Len(y) : y[j] \in 1 .. k2 \/ y[j] \in (Prefix + 1) .. (Prefix + m2)
  <2> SUFFICES ASSUME NEW j \in 1 .. Len(y)
               PROVE  y[j] \in 1 .. k2 \/ y[j] \in (Prefix + 1) .. (Prefix + m2)
    OBVIOUS
  <2>1. CASE j <= Len(u)
    <3>1. y[j] \in 1 .. k \/ y[j] \in (Prefix + 1) .. (Prefix + m) BY <1>2, <1>4, <2>1
    <3> QED BY <1>r, <3>1, Zenon
  <2>2. CASE j > Len(u)
    <3>1. PICK d \in 1 .. Len(x) : y[j] = base + d BY <1>5, <2>2
    <3>2. y[j] \in (base + 1) .. (base + Len(x)) BY <1>0, <3>1
    <3> QED BY <1>r, <3>2, Zenon
  <2>3. j \in Nat BY <1>1
  <2>4. j <= Len(u) \/ j > Len(u) BY <1>0, <2>3
  <2> QED BY <2>1, <2>2, <2>4, Zenon
<1>7. ASSUME NEW v \in Nat, v \in 1 .. k \/ v \in (Prefix + 1) .. (Prefix + m) \/ v \in (base + 1) .. (base + Len(x))
      PROVE  \E j \in 1 .. Len(y) : y[j] = v
  <2>1. CASE v \in 1 .. k \/ v \in (Prefix + 1) .. (Prefix + m)
    <3>1. PICK j \in 1 .. Len(u) : u[j] = v BY <1>2, <2>1
    <3>2. j \in 1 .. Len(y) BY <1>0, <1>1
    <3> QED BY <1>1, <3>1, <3>2
  <2>2. CASE v \in (base + 1) .. (base + Len(x))
    <3>1. v - base \in 1 .. Len(x) /\ base + (v - base) = v BY <1>0, <2>2
    <3>2. Len(u) + (v - base) \in 1 .. Len(y) BY <1>0, <1>1, <3>1
    <3> QED BY <1>1, <3>1, <3>2
  <2> QED BY <1>7, <2>1, <2>2
<1>8. /\ \A v \in 1 .. k2 : \E j \in 1 .. Len(y) : y[j] = v
      /\ \A v \in (Prefix + 1) .. (Prefix + m2) : \E j \in 1 .. Len(y) : y[j] = v
  <2>1. ASSUME NEW v \in 1 .. k2 PROVE v \in 1 .. k \/ v \in (base + 1) .. (base + Len(x))
    BY <1>r, Zenon
  <2>2. ASSUME NEW v \in (Prefix + 1) .. (Prefix + m2)
        PROVE  v \in (Prefix + 1) .. (Prefix + m) \/ v \in (base + 1) .. (base + Len(x))
    BY <1>r, Zenon
  <2>3. \A v : v \in 1 .. k2 \/ v \in (Prefix + 1) .. (Prefix + m2) => v \in Nat BY <1>0
  <2> QED BY <1>7, <2>1, <2>2, <2>3
<1>9. ASSUME NEW j \in 1 .. Len(y)
      PROVE  /\ y[j] \in {1, Prefix + 1} \/ \E i \in 1 .. (j - 1) : y[i] = y[j] - 1
             /\ \A i \in 1 .. (j - 1) : y[i] # y[j]
  <2>0. j \in Nat BY <1>1
  <2>1. CASE j <= Len(u)
    <3>1. /\ u[j] \in {1, Prefix + 1} \/ \E i \in 1 .. (j - 1) : u[i] = u[j] - 1
          /\ \A i \in 1 .. (j - 1) : u[i] # u[j]
          /\ y[j] = u[j]
      BY <1>2, <1>4, <2>1
    <3>2. \A i \in 1 .. (j - 1) : y[i] = u[i] BY <1>1, <1>2, <2>0, <2>1
    <3> QED BY <3>1, <3>2
  <2>2. CASE j > Len(u)
    <3>1. PICK d \in 1 .. Len(x) : j = Len(u) + d /\ y[j] = base + d BY <1>5, <2>2
    <3>2. y[j] \in {1, Prefix + 1} \/ \E i \in 1 .. (j - 1) : y[i] = y[j] - 1
      <4>1. CASE d > 1
        <5>1. d - 1 \in 1 .. Len(x) /\ Len(u) + (d - 1) \in 1 .. (j - 1) BY <1>0, <3>1, <4>1
        <5>2. y[Len(u) + (d - 1)] = base + (d - 1) BY <1>1, <5>1
        <5>3. (base + d) - 1 = base + (d - 1) BY <3>1
        <5> QED BY <3>1, <5>1, <5>2, <5>3, Zenon
      <4>2. CASE d = 1
        <5>1. base \in {0, Prefix} \/ base \in 1 .. k \/ base \in (Prefix + 1) .. (Prefix + m)
          BY <1>0
        <5>2. ASSUME base \in 1 .. k \/ base \in (Prefix + 1) .. (Prefix + m)
              PROVE  \E i \in 1 .. (j - 1) : y[i] = y[j] - 1
          <6>1. PICK i \in 1 .. Len(u) : u[i] = base BY <1>2, <5>2
          <6>2. i \in 1 .. (j - 1) /\ y[i] = base BY <1>0, <1>1, <3>1, <6>1
          <6> QED BY <3>1, <4>2, <6>2
        <5>3. ASSUME base \in {0, Prefix} PROVE y[j] \in {1, Prefix + 1}
          BY <1>0, <3>1, <4>2, <5>3
        <5> QED BY <5>1, <5>2, <5>3
      <4> QED BY <4>1, <4>2
    <3>3. ASSUME NEW i \in 1 .. (j - 1) PROVE y[i] # y[j]
      <4>0. i \in 1 .. Len(y) /\ i < j BY <1>0, <1>1, <2>0
      <4>1. CASE i <= Len(u)
        <5>1. y[i] \in 1 .. k \/ y[i] \in (Prefix + 1) .. (Prefix + m) BY <1>2, <1>4, <4>0, <4>1
        <5>2. y[j] = base + d /\ d \in Nat /\ d > 0 /\ d <= Len(x) BY <1>0, <3>1
        <5>3. PICK p, q : p = y[i] /\ q = y[j] OBVIOUS
        <5>4. PICK l \in Nat : l = Len(x) /\ d <= l BY <1>0, <5>2
        <5>5. p \in 1 .. k \/ p \in (Prefix + 1) .. (Prefix + m) BY <5>1, <5>3, Zenon
        <5>6. q = base + d /\ d \in Nat /\ d > 0 BY <5>2, <5>3, Zenon
        <5>7. \/ k + l <= Prefix /\ base = k
              \/ base = Prefix + m
          BY <5>4, Zenon
        <5>8. p # q
          <6>1. Prefix \in Nat BY <1>0
          <6>2. CASE k + l <= Prefix /\ base = k BY <5>4, <5>5, <5>6, <6>1, <6>2
          <6>3. CASE base = Prefix + m BY <5>5, <5>6, <6>1, <6>3
          <6> QED BY <5>7, <6>2, <6>3, Zenon
        <5> QED BY <5>3, <5>8, Zenon
      <4>2. CASE i > Len(u)
        <5>1. PICK e \in 1 .. Len(x) : i = Len(u) + e /\ y[i] = base + e BY <1>5, <4>0, <4>2
        <5>2. e < d BY <1>0, <3>1, <4>0, <5>1
        <5> QED BY <1>0, <3>1, <5>1, <5>2
      <4> QED BY <1>0, <4>0, <4>1, <4>2
    <3> QED BY <3>2, <3>3
  <2> QED BY <1>0, <2>0, <2>1, <2>2
<1>10. /\ k2 \in Nat /\ m2 \in Nat /\ y = u \o x
  BY <1>1, Zenon
<1>11. Got(y, k2, m2) BY <1>3, <1>6, <1>8, <1>9, <1>10, Zenon DEF Got
<1> QED BY <1>10, <1>11, Zenon

\* What is left of a payload after its first n tokens.
LEMMA RunRest ==
  ASSUME NEW t \in Seq(Tokens), NEW n \in Nat, NEW l \in Nat, n <= l, NEW k, Run(t, 0, l, k),
         k \in Data => \A i \in 1 .. l : t[i].n \in Nat
  PROVE  Run(t, n, l - n, k)
<1>1. /\ l <= Len(t) /\ Len(t) \in Nat
      /\ \A d \in 1 .. l : IF k \in Data THEN IsByte(t[0 + d]) /\ t[0 + d].n = t[0 + 1].n + d - 1
                           ELSE t[0 + d].is = "ctl"
      /\ l < Len(t) => t[l + 1].is = "half"
  BY DEF Run
<1>2. ASSUME NEW d \in 1 .. (l - n)
      PROVE  IF k \in Data THEN IsByte(t[n + d]) /\ t[n + d].n = t[n + 1].n + d - 1
             ELSE t[n + d].is = "ctl"
  <2>1. n + d \in 1 .. l /\ n + 1 \in 1 .. l /\ 1 \in 1 .. l /\ d \in Nat OBVIOUS
  <2>2. 0 + (n + d) = n + d /\ 0 + (n + 1) = n + 1 /\ 0 + 1 = 1 BY <2>1
  <2>3. CASE k \in Data
    <3>1. IsByte(t[n + d]) /\ t[n + d].n = t[1].n + (n + d) - 1 /\ t[n + 1].n = t[1].n + (n + 1) - 1
      BY <1>1, <2>1, <2>2, <2>3
    <3>2. t[1].n \in Nat BY <2>1, <2>3
    <3>3. t[n + d].n = t[n + 1].n + d - 1
      <4>1. PICK a : a = t[1].n OBVIOUS
      <4>2. a \in Nat /\ t[n + d].n = a + (n + d) - 1 /\ t[n + 1].n = a + (n + 1) - 1
        BY <3>1, <3>2, <4>1
      <4> QED BY <2>1, <4>2
    <3> QED BY <2>3, <3>1, <3>3
  <2>4. CASE k \notin Data BY <1>1, <2>1, <2>2, <2>4
  <2> QED BY <2>3, <2>4
<1>3. n + (l - n) = l BY <1>1
<1> QED BY <1>1, <1>2, <1>3 DEF Run

\* The first token, if it is a byte, is the next one.
LEMMA FirstByte ==
  ASSUME NEW t \in Seq(Tokens), NEW b \in Nat, NEW e \in Nat, Numbered(t, b, e), 1 <= Len(t),
         IsByte(t[1])
  PROVE  t[1].n = b + 1
<1>1. t[1].n \in (b + 1) .. e /\ 1 \in 1 .. Len(t) BY DEF Numbered
<1>2. b + 1 \in (b + 1) .. e BY <1>1
<1>3. PICK i \in 1 .. Len(t) : IsByte(t[i]) /\ t[i].n = b + 1 BY <1>2 DEF Numbered
<1>4. 1 < i => t[1].n < t[i].n BY <1>1, <1>3 DEF Numbered
<1> QED BY <1>1, <1>3, <1>4

\* InOrder before the end of the session.
LEMMA Ordered ==
  ASSUME InOrder, pc # "ended"
  PROVE  Delivered /\ Numbered(Flow, Base, made) /\ Parsed
BY DEF InOrder

\* Steps that move no byte.
LEMMA QuietOrder ==
  ASSUME InOrder, pc # "ended", pc' # "ended", closing => closing',
         UNCHANGED <<ws, raw, inq, net, made, up, pend, cbuf, hdr, fr>>
  PROVE  InOrder'
<1>1. Delivered /\ Numbered(Flow, Base, made) /\ Parsed BY Ordered
<1>2. UNCHANGED <<K, M, Base, Flow>> BY DEF K, M, Base, Flow
<1>3. Delivered' BY <1>1, <1>2 DEF Delivered
<1>4. Numbered(Flow, Base, made)' BY <1>1, <1>2
<1>5. Parsed' BY <1>1, <1>2 DEF Parsed
<1> QED BY <1>3, <1>4, <1>5 DEF InOrder

\* The tokens on their way, from the front.
LEMMA FlowFacts ==
  ASSUME Buffers
  PROVE  /\ Flow \in Seq(Tokens) /\ Len(Flow) = Len(raw) + Len(inq) + Len(net)
         /\ \A i \in 1 .. Len(raw) : Flow[i] = raw[i]
         /\ raw = <<>> => \A i \in 1 .. Len(inq) : Flow[i] = inq[i]
<1>1. /\ raw \in Seq(Tokens) /\ inq \in Seq(Tokens) /\ net \in Seq(Tokens)
      /\ Len(raw) \in Nat /\ Len(inq) \in Nat /\ Len(net) \in Nat
  BY DEF Buffers
<1>2. PICK x \in Seq(Tokens) :
        /\ x = raw \o inq /\ Len(x) = Len(raw) + Len(inq)
        /\ \A i \in 1 .. Len(raw) : x[i] = raw[i]
        /\ \A i \in 1 .. Len(inq) : x[Len(raw) + i] = inq[i]
  <2>1. /\ raw \o inq \in Seq(Tokens) /\ Len(raw \o inq) = Len(raw) + Len(inq)
        /\ \A i \in 1 .. Len(raw) : (raw \o inq)[i] = raw[i]
        /\ \A i \in 1 .. Len(inq) : (raw \o inq)[Len(raw) + i] = inq[i]
    BY <1>1, JoinFacts
  <2> QED BY <2>1
<1>3. /\ Flow \in Seq(Tokens) /\ Len(Flow) = Len(x) + Len(net)
      /\ \A i \in 1 .. Len(x) : Flow[i] = x[i]
  <2>1. /\ x \o net \in Seq(Tokens) /\ Len(x \o net) = Len(x) + Len(net)
        /\ \A i \in 1 .. Len(x) : (x \o net)[i] = x[i]
    BY <1>1, JoinFacts
  <2> QED BY <1>2, <2>1 DEF Flow
<1>4. \A i \in 1 .. Len(raw) : Flow[i] = raw[i]
  <2> SUFFICES ASSUME NEW i \in 1 .. Len(raw) PROVE Flow[i] = raw[i] OBVIOUS
  <2>1. i \in 1 .. Len(x) BY <1>1, <1>2
  <2> QED BY <1>2, <1>3, <2>1
<1>5. ASSUME raw = <<>> PROVE \A i \in 1 .. Len(inq) : Flow[i] = inq[i]
  <2> SUFFICES ASSUME NEW i \in 1 .. Len(inq) PROVE Flow[i] = inq[i] OBVIOUS
  <2>1. Len(raw) = 0 BY <1>5
  <2>2. i \in 1 .. Len(x) /\ Len(raw) + i = i BY <1>1, <1>2, <2>1
  <2> QED BY <1>2, <1>3, <2>2
<1>6. Len(Flow) = Len(raw) + Len(inq) + Len(net) BY <1>1, <1>2, <1>3
<1> QED BY <1>3, <1>4, <1>5, <1>6

\* A read takes n tokens from the front.
LEMMA ReadFlow ==
  ASSUME Buffers, NEW n \in Nat, net' = net,
         \/ n <= Len(raw) /\ raw' = Drop(raw, n) /\ inq' = inq
         \/ raw = <<>> /\ raw' = raw /\ n <= Len(inq) /\ inq' = Drop(inq, n)
  PROVE  Flow' = Drop(Flow, n) /\ n \in 0 .. Len(Flow)
<1>1. /\ raw \in Seq(Tokens) /\ inq \in Seq(Tokens) /\ net \in Seq(Tokens)
      /\ Len(raw) \in Nat /\ Len(inq) \in Nat /\ Len(net) \in Nat
  BY DEF Buffers
<1>2. n <= Len(raw) + Len(inq) BY <1>1
<1>3. n \in 0 .. Len(Flow) BY <1>1, <1>2, FlowFacts
<1>4. raw \o inq \in Seq(Tokens) /\ Len(raw \o inq) = Len(raw) + Len(inq) BY <1>1, JoinFacts
<1>5. Drop(raw \o inq, n) = raw' \o inq'
  <2>1. CASE n <= Len(raw) /\ raw' = Drop(raw, n) /\ inq' = inq
    <3>1. n \in 0 .. Len(raw) BY <1>1, <2>1
    <3> QED BY <1>1, <2>1, <3>1, DropJoin
  <2>2. CASE raw = <<>> /\ raw' = raw /\ n <= Len(inq) /\ inq' = Drop(inq, n)
    <3>1. raw \o inq = inq BY <1>1, <2>2, ConcatEmptySeq
    <3>2. n \in 0 .. Len(inq) BY <1>1, <2>2
    <3>3. Drop(inq, n) \in Seq(Tokens) BY <1>1, <3>2, DropFacts
    <3>4. raw' \o inq' = inq' BY <2>2, <3>3, ConcatEmptySeq
    <3> QED BY <2>2, <3>1, <3>4
  <2> QED BY <2>1, <2>2
<1>6. Drop((raw \o inq) \o net, n) = Drop(raw \o inq, n) \o net
  <2>1. n \in 0 .. Len(raw \o inq) BY <1>1, <1>2, <1>4
  <2>2. PICK x \in Seq(Tokens) : x = raw \o inq BY <1>4
  <2> QED BY <1>1, <2>1, <2>2, DropJoin
<1>7. Flow' = (raw' \o inq') \o net BY DEF Flow
<1> QED BY <1>3, <1>5, <1>6, <1>7 DEF Flow

\* Head and tail as positions.
LEMMA TailDrop ==
  ASSUME NEW S, NEW q \in Seq(S), q # <<>>
  PROVE  Tail(q) = Drop(q, 1) /\ Head(q) = q[1] /\ 1 \in 1 .. Len(q) /\ 1 \in 0 .. Len(q)
<1>1. Len(q) \in Nat /\ Len(q) > 0 /\ 1 \in 1 .. Len(q) /\ 1 \in 0 .. Len(q) OBVIOUS
<1>2. Tail(q) \in Seq(S) /\ Len(Tail(q)) = Len(q) - 1 OBVIOUS
<1>3. \A i \in 1 .. (Len(q) - 1) : Tail(q)[i] = q[1 + i] OBVIOUS
<1>4. /\ Drop(q, 1) \in Seq(S) /\ Len(Drop(q, 1)) = Len(q) - 1
      /\ \A i \in 1 .. (Len(q) - 1) : Drop(q, 1)[i] = q[1 + i]
  BY <1>1, DropFacts
<1>5. Tail(q) = Drop(q, 1) BY <1>2, <1>3, <1>4, SeqEqual
<1> QED BY <1>1, <1>5

\* The payload bytes that are read join client_buffer.
LEMMA DeliveredMore ==
  ASSUME Buffers, Delivered, UNCHANGED <<up, pend>>, NEW x \in Seq(Nat), cbuf' = cbuf \o x,
         \A i \in 1 .. Len(x) : x[i] = Base + i
  PROVE  Delivered' /\ Base' = Base + Len(x) /\ Base \in Nat
<1>1. /\ cbuf \in Seq(Nat) /\ Len(cbuf) \in Nat /\ Len(up) \in Nat /\ Len(pend) \in Nat
      /\ Prefix \in Nat /\ Len(x) \in Nat
  BY Constants DEF Buffers
<1>2. UNCHANGED <<K, M>> BY DEF K, M
<1>3. /\ cbuf \o x \in Seq(Nat) /\ Len(cbuf \o x) = Len(cbuf) + Len(x)
      /\ \A i \in 1 .. Len(cbuf) : (cbuf \o x)[i] = cbuf[i]
      /\ \A i \in 1 .. Len(x) : (cbuf \o x)[Len(cbuf) + i] = x[i]
  BY <1>1, JoinFacts
<1>4. Base = Prefix + M + Len(cbuf) /\ M \in Int /\ Base \in Nat
  BY <1>1 DEF Base, K, M
<1>5. ASSUME NEW i \in 1 .. Len(cbuf') PROVE cbuf'[i] = Prefix + M + i
  <2>1. CASE i <= Len(cbuf)
    <3>1. i \in 1 .. Len(cbuf) BY <1>1, <1>3, <2>1
    <3> QED BY <1>3, <3>1 DEF Delivered
  <2>2. CASE i > Len(cbuf)
    <3>1. PICK j \in 1 .. Len(x) : i = Len(cbuf) + j
      <4>1. i - Len(cbuf) \in 1 .. Len(x) /\ i = Len(cbuf) + (i - Len(cbuf))
        BY <1>1, <1>3, <2>2
      <4> QED BY <4>1
    <3>2. cbuf'[i] = Base + j BY <1>3, <3>1
    <3> QED BY <1>1, <1>4, <3>1, <3>2
  <2>3. i \in Nat BY <1>1, <1>3
  <2> QED BY <1>1, <2>1, <2>2, <2>3
<1>6. Delivered' BY <1>2, <1>5 DEF Delivered
<1>7. Base' = Base + Len(x) BY <1>1, <1>3 DEF Base
<1> QED BY <1>4, <1>6, <1>7

\* A token that is no byte is read.
LEMMA TokenRead ==
  ASSUME Buffers, InOrder, pc = "frames", ws, raw # <<>>, raw' = Tail(raw), ~IsByte(raw[1]),
         UNCHANGED <<ws, inq, net, made, up, pend, cbuf>>
  PROVE  /\ Delivered' /\ Numbered(Flow, Base, made)' /\ Framed(Flow')
         /\ Flow' = Drop(Flow, 1) /\ Flow[1] = raw[1] /\ 1 \in 1 .. Len(Flow) /\ 1 \in 0 .. Len(Flow)
         /\ Flow \in Seq(Tokens)
<1>1. /\ raw \in Seq(Tokens) /\ Len(raw) \in Nat /\ made \in Nat
      /\ raw' = Drop(raw, 1) /\ 1 \in 1 .. Len(raw)
  BY TailDrop DEF Buffers
<1>2. Flow' = Drop(Flow, 1) /\ 1 \in 0 .. Len(Flow) BY <1>1, ReadFlow
<1>3. Flow \in Seq(Tokens) /\ Flow[1] = raw[1] BY <1>1, FlowFacts
<1>4. 1 \in 1 .. Len(Flow) BY <1>2
<1>5. Delivered /\ Numbered(Flow, Base, made) /\ Framed(Flow) BY Ordered DEF Parsed
<1>6. UNCHANGED <<K, M, Base>> /\ Base \in Nat
  <2>1. Len(up) \in Nat /\ Len(pend) \in Nat /\ Len(cbuf) \in Nat BY DEF Buffers
  <2> QED BY <2>1 DEF K, M, Base
<1>7. Delivered' BY <1>5, <1>6 DEF Delivered
<1>8. Numbered(Drop(Flow, 1), Base + 0, made)
  <2>1. \A d \in 1 .. 1 : ~IsByte(Flow[d]) BY <1>3
  <2>2. PICK t \in Seq(Tokens) : t = Flow BY <1>3
  <2>3. Numbered(t, Base, made) /\ 1 \in 0 .. Len(t) /\ \A d \in 1 .. 1 : ~IsByte(t[d])
    BY <1>2, <1>5, <2>1, <2>2
  <2>4. PICK b \in Nat : b = Base BY <1>6
  <2>5. Numbered(Drop(t, 1), b + 0, made) BY <1>1, <2>3, <2>4, DropNumbered
  <2> QED BY <2>2, <2>4, <2>5
<1>9. Numbered(Flow, Base, made)'
  <2>1. Base + 0 = Base BY <1>6
  <2> QED BY <1>2, <1>6, <1>8, <2>1
<1>10. Framed(Flow') BY <1>2, <1>3, <1>5, DropFramed
<1> QED BY <1>2, <1>3, <1>4, <1>7, <1>9, <1>10

\* The first half of a header is followed by the other.
LEMMA TakeHalfOrder ==
  ASSUME Core, InOrder, TakeHalf
  PROVE  InOrder'
<1>1. /\ pc = "frames" /\ pc' = "frames" /\ ws /\ fr.kind = "none" /\ fr.left = 0 /\ raw # <<>>
      /\ ~hdr /\ raw' = Tail(raw) /\ hdr' = TRUE /\ ~closing /\ Buffers
      /\ UNCHANGED <<ws, inq, net, made, up, pend, cbuf, fr, closing>>
  BY DEF TakeHalf, Wants, Core, Shape, Records, Recv, toUpVars, control, clientNet
<1>2. Run(Flow, 0, 0, "none") /\ Framed(Flow) BY <1>1, Ordered DEF Parsed
<1>3. Flow[1] = raw[1] /\ Len(Flow) \in Nat /\ 1 \in 1 .. Len(Flow) /\ Flow \in Seq(Tokens)
  <2>1. 1 \in 1 .. Len(raw) /\ raw \in Seq(Tokens) BY <1>1, TailDrop DEF Buffers
  <2>2. Len(inq) \in Nat /\ Len(net) \in Nat /\ Len(raw) \in Nat BY <1>1 DEF Buffers
  <2> QED BY <1>1, <2>1, <2>2, FlowFacts
<1>4. Flow[1].is = "half"
  <2>1. 0 + 0 < Len(Flow) /\ 0 + 0 + 1 = 1 BY <1>3
  <2> QED BY <1>2, <2>1 DEF Run
<1>5. 1 < Len(Flow) /\ Flow[2].is = "head"
  <2>1. 1 + 1 = 2 OBVIOUS
  <2> QED BY <1>2, <1>3, <1>4, <2>1 DEF Framed
<1>6. /\ Delivered' /\ Numbered(Flow, Base, made)' /\ Framed(Flow') /\ Flow' = Drop(Flow, 1)
      /\ 1 \in 0 .. Len(Flow)
  BY <1>1, <1>3, <1>4, TokenRead DEF IsByte
<1>7. Flow' # <<>> /\ Flow'[1].is = "head"
  <2>1. /\ Drop(Flow, 1) \in Seq(Tokens) /\ Len(Drop(Flow, 1)) = Len(Flow) - 1
        /\ \A i \in 1 .. (Len(Flow) - 1) : Drop(Flow, 1)[i] = Flow[1 + i]
    BY <1>3, <1>6, DropFacts
  <2>2. 1 \in 1 .. (Len(Flow) - 1) /\ 1 + 1 = 2 BY <1>3, <1>5
  <2>3. Drop(Flow, 1)[1] = Flow[2] /\ Len(Drop(Flow, 1)) > 0 BY <2>1, <2>2
  <2> QED BY <1>5, <1>6, <2>3
<1>8. Parsed' BY <1>1, <1>6, <1>7 DEF Parsed
<1> QED BY <1>1, <1>6, <1>8 DEF InOrder

\* An empty payload is the payload of no frame.
LEMMA NoRun ==
  ASSUME NEW t, NEW a, NEW k, Run(t, a, 0, k)
  PROVE  Run(t, a, 0, "none")
<1>1. 1 .. 0 = {} OBVIOUS
<1> QED BY <1>1 DEF Run

\* Where the parser is after a frame's end.
LEMMA EndsParsed ==
  ASSUME NEW kind, NEW f, NEW l, FrameEnds(kind, f, l), Framed(Flow'), hdr' = FALSE, ws' = TRUE,
         Run(Flow', 0, 0, kind)
  PROVE  Parsed'
<1>1. fr' = NoFrame BY DEF FrameEnds
<1>2. fr'.kind = "none" /\ fr'.left = 0 BY <1>1, NoRecords
<1>3. Run(Flow', 0, 0, "none") BY NoRun
<1> QED BY <1>2, <1>3 DEF Parsed

\* Behind half a header stands the other half.
LEMMA HeadIs ==
  ASSUME Core, InOrder, TakeHead
  PROVE  Head(raw) \in Tokens /\ Head(raw).is = "head" /\ Head(raw) = raw[1]
<1>1. pc = "frames" /\ ws /\ raw # <<>> /\ hdr /\ ~closing /\ Buffers /\ raw \in Seq(Tokens)
  BY DEF TakeHead, Wants, Core, Shape, Recv, Buffers
<1>2. Flow[1].is = "head" BY <1>1, Ordered DEF Parsed
<1>3. Head(raw) = raw[1] /\ 1 \in 1 .. Len(raw) BY <1>1, TailDrop
<1> QED BY <1>1, <1>2, <1>3, FlowFacts

\* The other half of a header is followed by its payload.
LEMMA TakeHeadOrder ==
  ASSUME Core, InOrder, TakeHead, pc' # "ended"
  PROVE  InOrder'
<1>1. /\ pc = "frames" /\ ws /\ raw # <<>> /\ hdr /\ ~closing /\ Buffers
      /\ raw' = Tail(raw) /\ hdr' = FALSE
      /\ UNCHANGED <<ws, inq, net, made, up, pend, cbuf>>
  BY DEF TakeHead, Wants, Core, Shape, Recv, clientNet, toUpVars
<1>2. PICK h : h = Head(raw) OBVIOUS
<1>3. h \in Tokens /\ h.is = "head" /\ h = raw[1] BY <1>2, HeadIs
<1>4. h.len \in Nat BY <1>3 DEF Tokens
<1>5. /\ Delivered' /\ Numbered(Flow, Base, made)' /\ Framed(Flow') /\ Flow' = Drop(Flow, 1)
      /\ Flow[1] = h /\ 1 \in 1 .. Len(Flow) /\ 1 \in 0 .. Len(Flow) /\ Flow \in Seq(Tokens)
  BY <1>1, <1>3, TokenRead DEF IsByte
<1>6. Run(Flow', 0, h.len, h.kind)
  <2>1. Framed(Flow) BY <1>1, Ordered DEF Parsed
  <2>2. Run(Flow, 1, h.len, h.kind) BY <1>3, <1>5, <2>1 DEF Framed
  <2>3. 1 + 0 = 1 OBVIOUS
  <2> QED BY <1>4, <1>5, <2>2, <2>3, DropRun
<1>7. Parsed'
  <2>1. CASE Refused(h)
    <3>1. closing' = TRUE BY <1>2, <2>1 DEF TakeHead, Closes
    <3> QED BY <1>1, <1>5, <3>1 DEF Parsed
  <2>2. CASE ~Refused(h) /\ h.len = 0
    <3>1. FrameEnds(h.kind, h.fin, loc) BY <1>2, <2>2 DEF TakeHead
    <3>2. ws' = TRUE BY <1>1 DEF Core, Shape, Flags
    <3> QED BY <1>1, <1>5, <1>6, <2>2, <3>1, <3>2, EndsParsed
  <2>3. CASE ~Refused(h) /\ h.len # 0
    <3>1. fr' = [kind |-> h.kind, fin |-> h.fin, left |-> h.len] BY <1>2, <2>3 DEF TakeHead
    <3>2. fr'.kind = h.kind /\ fr'.left = h.len BY <3>1
    <3> QED BY <1>1, <1>5, <1>6, <3>2 DEF Parsed
  <2> QED BY <2>1, <2>2, <2>3
<1> QED BY <1>5, <1>7 DEF InOrder

\* A token of a control frame is read.
LEMMA TakeControlOrder ==
  ASSUME Core, InOrder, TakeControl, pc' # "ended"
  PROVE  InOrder'
<1>1. /\ pc = "frames" /\ ws /\ raw # <<>> /\ ~closing /\ Buffers /\ raw' = Tail(raw)
      /\ fr.kind \notin Data /\ fr.kind # "none" /\ fr.left \in Nat /\ fr.left > 0
      /\ UNCHANGED <<ws, hdr, inq, net, made, up, pend, cbuf>>
  BY DEF TakeControl, Wants, Core, Shape, Recv, clientNet, toUpVars, Records, FrSet
<1>2. hdr = FALSE /\ Run(Flow, 0, fr.left, fr.kind)
  BY <1>1, Ordered DEF Parsed, Core, Shape, Flags
<1>3. raw[1] = Flow[1] /\ Flow \in Seq(Tokens)
  <2>1. 1 \in 1 .. Len(raw) /\ raw \in Seq(Tokens) BY <1>1, TailDrop DEF Buffers
  <2> QED BY <1>1, <2>1, FlowFacts
<1>4. Flow[1].is = "ctl"
  <2>1. 1 \in 1 .. fr.left /\ 0 + 1 = 1 BY <1>1
  <2> QED BY <1>1, <1>2, <2>1 DEF Run
<1>5. /\ Delivered' /\ Numbered(Flow, Base, made)' /\ Framed(Flow') /\ Flow' = Drop(Flow, 1)
      /\ 1 \in 0 .. Len(Flow)
  BY <1>1, <1>3, <1>4, TokenRead DEF IsByte
<1>6. Run(Flow', 0, fr.left - 1, fr.kind)
  <2>1. 1 <= fr.left /\ 1 + 0 = 1 /\ fr.left - 1 \in Nat BY <1>1
  <2>2. Run(Flow, 1, fr.left - 1, fr.kind) BY <1>1, <1>2, <1>3, <2>1, RunRest
  <2> QED BY <1>3, <1>5, <2>1, <2>2, DropRun
<1>7. Parsed'
  <2>1. CASE fr.left = 1
    <3>1. FrameEnds(fr.kind, TRUE, loc) BY <2>1 DEF TakeControl
    <3>2. ws' = TRUE /\ hdr' = FALSE BY <1>1, <1>2 DEF Core, Shape, Flags
    <3>3. Run(Flow', 0, 0, fr.kind) BY <1>6, <2>1
    <3> QED BY <1>5, <3>1, <3>2, <3>3, EndsParsed
  <2>2. CASE fr.left # 1
    <3>1. fr' = [fr EXCEPT !.left = fr.left - 1] BY <2>2 DEF TakeControl
    <3>2. fr \in FrSet BY DEF Core, Shape, Records
    <3>3. fr'.kind = fr.kind /\ fr'.left = fr.left - 1 BY <3>1, <3>2 DEF FrSet
    <3> QED BY <1>1, <1>2, <1>5, <1>6, <3>3 DEF Parsed
  <2> QED BY <2>1, <2>2
<1> QED BY <1>5, <1>7 DEF InOrder

\* n payload bytes are read into client_buffer.
LEMMA BytesRead ==
  ASSUME Buffers, Delivered, Numbered(Flow, Base, made), UNCHANGED <<net, made, up, pend>>,
         NEW src \in Seq(Tokens), NEW n \in 1 .. Len(src),
         cbuf' = cbuf \o Numbers(Take(src, n)),
         \/ src = raw /\ raw' = Drop(src, n) /\ inq' = inq
         \/ src = inq /\ raw = <<>> /\ raw' = raw /\ inq' = Drop(src, n),
         \A d \in 1 .. n : IsByte(Flow[d]) /\ Flow[d].n = Base + d
  PROVE  /\ Delivered' /\ Numbered(Flow, Base, made)' /\ Flow' = Drop(Flow, n)
         /\ n \in 0 .. Len(Flow) /\ Base' = Base + n
<1>1. /\ raw \in Seq(Tokens) /\ inq \in Seq(Tokens) /\ n \in Nat /\ n <= Len(src) /\ made \in Nat
  BY DEF Buffers
<1>2. Flow' = Drop(Flow, n) /\ n \in 0 .. Len(Flow)
  BY <1>1, ReadFlow
<1>3. \A d \in 1 .. n : Flow[d] = src[d]
  <2> SUFFICES ASSUME NEW d \in 1 .. n PROVE Flow[d] = src[d] OBVIOUS
  <2>1. d \in 1 .. Len(src) BY <1>1
  <2> QED BY <2>1, FlowFacts
<1>4. PICK t : t = Take(src, n) /\ t \in Seq(Tokens) /\ Len(t) = n /\ \A d \in 1 .. n : t[d] = src[d]
  <2>1. n \in 0 .. Len(src) BY <1>1
  <2>2. /\ Take(src, n) \in Seq(Tokens) /\ Len(Take(src, n)) = n
        /\ \A d \in 1 .. n : Take(src, n)[d] = src[d]
    BY <2>1, DropFacts
  <2> QED BY <2>2
<1>5. PICK x \in Seq(Nat) : x = Numbers(t) /\ Len(x) = n BY <1>4, NumbersFacts
<1>6. ASSUME NEW i \in 1 .. n PROVE x[i] = Base + i
  <2>1. x = [j \in 1 .. n |-> IF IsByte(t[j]) THEN t[j].n ELSE 0] BY <1>4, <1>5 DEF Numbers
  <2>2. t[i] = Flow[i] /\ IsByte(Flow[i]) /\ Flow[i].n = Base + i BY <1>3, <1>4
  <2> QED BY <2>1, <2>2
<1>7. cbuf' = cbuf \o x BY <1>4, <1>5
<1>8. Delivered' /\ Base' = Base + n /\ Base \in Nat BY <1>5, <1>6, <1>7, DeliveredMore
<1>9. Numbered(Drop(Flow, n), Base + n, made)
  <2>1. PICK f \in Seq(Tokens) : f = Flow BY FlowFacts
  <2>2. PICK b \in Nat : b = Base BY <1>8
  <2>3. /\ Numbered(f, b, made) /\ n \in 0 .. Len(f) /\ n # 0
        /\ \A d \in 1 .. n : IsByte(f[d]) /\ f[d].n = b + d
    BY <1>2, <2>1, <2>2
  <2>4. Numbered(Drop(f, n), b + n, made) BY <1>1, <2>3, DropNumbered
  <2> QED BY <2>1, <2>2, <2>4
<1> QED BY <1>2, <1>8, <1>9

\* A plain client's bytes are read.
LEMMA TakePlainOrder ==
  ASSUME Core, InOrder, TakePlain, pc' # "ended"
  PROVE  InOrder'
<1>1. /\ pc = "frames" /\ ~ws /\ inq # <<>> /\ Buffers /\ raw = <<>> /\ loc.size \in Nat
      /\ 0 < loc.size /\ inq \in Seq(Tokens) /\ made \in Nat
      /\ UNCHANGED <<ws, raw, hdr, net, made, up, pend>>
  BY DEF TakePlain, Wants, Core, Shape, Recv, Seen, Records, LocSet, Buffers, control, reading
<1>2. PICK n \in 1 .. Len(inq) : cbuf' = cbuf \o Numbers(Take(inq, n)) /\ inq' = Drop(inq, n)
  <2>1. Len(inq) \in Nat /\ Len(inq) > 0 BY <1>1
  <2>2. PICK n \in Nat : n = Smaller(loc.size, Len(inq)) /\ n \in 1 .. Len(inq)
    BY <1>1, <2>1 DEF Smaller
  <2>3. cbuf' = Numbers(Take(inq, n)) /\ inq' = Drop(inq, n) BY <2>2 DEF TakePlain
  <2>4. cbuf = <<>>
    <3>1. Len(cbuf) = 0 /\ cbuf \in Seq(Nat) BY <1>1 DEF Core, Recv, Buffers
    <3> QED BY <3>1
  <2>5. Numbers(Take(inq, n)) \in Seq(Nat)
    <3>1. n \in 0 .. Len(inq) BY <2>1, <2>2
    <3>2. Take(inq, n) \in Seq(Tokens) BY <1>1, <3>1, DropFacts
    <3> QED BY <3>2, NumbersFacts
  <2>6. cbuf' = cbuf \o Numbers(Take(inq, n)) BY <2>3, <2>4, <2>5, ConcatEmptySeq
  <2> QED BY <2>2, <2>3, <2>6
<1>3. /\ Delivered /\ Numbered(Flow, Base, made)
      /\ made = Base + Len(Flow) /\ \A i \in 1 .. Len(Flow) : IsByte(Flow[i]) /\ Flow[i].n = Base + i
  BY <1>1, Ordered DEF Parsed
<1>4. n \in Nat /\ Flow \in Seq(Tokens) /\ Len(Flow) \in Nat /\ n <= Len(Flow)
  <2>1. Len(inq) \in Nat /\ Len(net) \in Nat /\ Len(raw) = 0 BY <1>1 DEF Buffers
  <2> QED BY <1>1, <2>1, FlowFacts
<1>5. /\ Delivered' /\ Numbered(Flow, Base, made)' /\ Flow' = Drop(Flow, n)
      /\ n \in 0 .. Len(Flow) /\ Base' = Base + n
  <2>1. \A d \in 1 .. n : IsByte(Flow[d]) /\ Flow[d].n = Base + d BY <1>3, <1>4
  <2> QED BY <1>1, <1>2, <1>3, <2>1, BytesRead
<1>6. Parsed'
  <2>1. /\ Drop(Flow, n) \in Seq(Tokens) /\ Len(Drop(Flow, n)) = Len(Flow) - n
        /\ \A i \in 1 .. (Len(Flow) - n) : Drop(Flow, n)[i] = Flow[n + i]
    BY <1>4, <1>5, DropFacts
  <2>2. Base \in Nat
    <3>1. Len(up) \in Nat /\ Len(pend) \in Nat /\ Len(cbuf) \in Nat BY <1>1 DEF Buffers
    <3> QED BY <3>1 DEF Base
  <2>3. made' = Base' + Len(Flow') BY <1>1, <1>3, <1>4, <1>5, <2>1, <2>2
  <2>4. ASSUME NEW i \in 1 .. Len(Flow') PROVE IsByte(Flow'[i]) /\ Flow'[i].n = Base' + i
    <3>1. n + i \in 1 .. Len(Flow) /\ i \in 1 .. (Len(Flow) - n) /\ i \in Nat
      BY <1>4, <1>5, <2>1
    <3>2. Flow'[i] = Flow[n + i] BY <1>5, <2>1, <3>1
    <3>3. Base + (n + i) = (Base + n) + i BY <1>4, <2>2, <3>1
    <3> QED BY <1>3, <1>5, <3>1, <3>2, <3>3
  <2> QED BY <1>1, <2>3, <2>4 DEF Parsed
<1> QED BY <1>5, <1>6 DEF InOrder

\* Payload of a data frame is read, from ws_raw or straight from the socket.
LEMMA TakePayloadOrder ==
  ASSUME Core, InOrder, TakePayload, pc' # "ended"
  PROVE  InOrder'
<1>1. /\ pc = "frames" /\ ws = TRUE /\ ~closing /\ Buffers /\ fr.kind \in Data
      /\ fr \in FrSet /\ fr.left \in Nat /\ loc.size \in Nat /\ loc.got \in Nat /\ loc.got < loc.size
      /\ raw \in Seq(Tokens) /\ inq \in Seq(Tokens) /\ made \in Nat
      /\ UNCHANGED <<ws, hdr, net, made, up, pend>>
  BY DEF TakePayload, Wants, Core, Shape, Flags, Recv, Records, LocSet, FrSet, Buffers
<1>2. PICK src \in Seq(Tokens), n \in 1 .. fr.left :
        /\ n \in 1 .. Len(src) /\ cbuf' = cbuf \o Numbers(Take(src, n))
        /\ \/ src = raw /\ raw' = Drop(src, n) /\ inq' = inq
           \/ src = inq /\ raw = <<>> /\ raw' = raw /\ inq' = Drop(src, n)
        /\ \E l : IF n = fr.left THEN FrameEnds(fr.kind, fr.fin, l)
                  ELSE fr' = [fr EXCEPT !.left = @ - n]
  <2>1. PICK d \in Nat : d = loc.size - loc.got BY <1>1
  <2>2. PICK asked \in Nat : asked = Smaller(d, fr.left) /\ asked <= fr.left
    BY <1>1, SmallerFacts
  <2>3. PICK src \in Seq(Tokens) : src = IF Direct THEN inq ELSE raw BY <1>1
  <2>4. PICK n \in Nat : n = Smaller(asked, Len(src)) /\ n <= asked /\ n <= Len(src)
    <3>1. Len(src) \in Nat BY <2>3
    <3> QED BY <2>2, <3>1, SmallerFacts
  <2>5. /\ n > 0 /\ cbuf' = cbuf \o Numbers(Take(src, n))
        /\ IF Direct THEN inq' = Drop(inq, n) /\ raw' = raw ELSE raw' = Drop(raw, n) /\ inq' = inq
        /\ \E l : IF n = fr.left THEN FrameEnds(fr.kind, fr.fin, l)
                  ELSE fr' = [fr EXCEPT !.left = @ - n]
    BY <2>1, <2>2, <2>3, <2>4 DEF TakePayload
  <2>6. Direct => raw = <<>> BY <1>1 DEF Direct
  <2>7. n \in 1 .. fr.left /\ n \in 1 .. Len(src) BY <1>1, <2>2, <2>4, <2>5
  <2>8. \/ src = raw /\ raw' = Drop(src, n) /\ inq' = inq
        \/ src = inq /\ raw = <<>> /\ raw' = raw /\ inq' = Drop(src, n)
    BY <2>3, <2>5, <2>6
  <2> QED BY <2>5, <2>7, <2>8
<1>3. /\ Delivered /\ Numbered(Flow, Base, made) /\ Framed(Flow) /\ hdr = FALSE
      /\ Run(Flow, 0, fr.left, fr.kind)
  BY <1>1, Ordered DEF Parsed, Core, Shape, Flags, Data
<1>4. Flow \in Seq(Tokens) /\ Len(Flow) \in Nat /\ fr.left <= Len(Flow)
      /\ \A d \in 1 .. fr.left : IsByte(Flow[d]) /\ Flow[d].n = Flow[1].n + d - 1
  <2>1. Flow \in Seq(Tokens) BY <1>1, FlowFacts
  <2>2. 0 + fr.left = fr.left /\ 0 + 1 = 1 /\ \A d \in 1 .. fr.left : 0 + d = d BY <1>1
  <2> QED BY <1>1, <1>3, <2>1, <2>2 DEF Run
<1>5. Base \in Nat
  <2>1. Len(up) \in Nat /\ Len(pend) \in Nat /\ Len(cbuf) \in Nat BY <1>1 DEF Buffers
  <2> QED BY <2>1 DEF Base
<1>6. Flow[1].n = Base + 1
  <2>1. 1 \in 1 .. fr.left /\ 1 <= Len(Flow) BY <1>1, <1>2, <1>4
  <2>2. PICK t \in Seq(Tokens), b \in Nat : t = Flow /\ b = Base BY <1>4, <1>5
  <2>3. Numbered(t, b, made) /\ 1 <= Len(t) /\ IsByte(t[1]) BY <1>3, <1>4, <2>1, <2>2
  <2> QED BY <1>1, <2>2, <2>3, FirstByte
<1>7. \A d \in 1 .. fr.left : IsByte(Flow[d]) /\ Flow[d].n = Base + d BY <1>1, <1>4, <1>5, <1>6
<1>8. /\ Delivered' /\ Numbered(Flow, Base, made)' /\ Flow' = Drop(Flow, n)
      /\ n \in 0 .. Len(Flow) /\ Base' = Base + n
  <2>1. \A d \in 1 .. n : IsByte(Flow[d]) /\ Flow[d].n = Base + d BY <1>1, <1>2, <1>7
  <2> QED BY <1>1, <1>2, <1>3, <2>1, BytesRead
<1>9. Framed(Flow') BY <1>3, <1>4, <1>8, DropFramed
<1>10. Run(Flow', 0, fr.left - n, fr.kind)
  <2>1. n \in Nat /\ n <= fr.left /\ fr.left - n \in Nat /\ n + 0 = n BY <1>1, <1>2
  <2>2. \A i \in 1 .. fr.left : Flow[i].n \in Nat BY <1>1, <1>5, <1>7
  <2>3. PICK t \in Seq(Tokens) : t = Flow BY <1>4
  <2>4. Run(t, n, fr.left - n, fr.kind) BY <1>1, <1>3, <2>1, <2>2, <2>3, RunRest
  <2> QED BY <1>8, <2>1, <2>3, <2>4, DropRun
<1>11. Parsed'
  <2>1. CASE n = fr.left
    <3>1. PICK l : FrameEnds(fr.kind, fr.fin, l) BY <1>2, <2>1
    <3>2. Run(Flow', 0, 0, fr.kind) BY <1>1, <1>10, <2>1
    <3>3. ws' = TRUE /\ hdr' = FALSE BY <1>1, <1>3
    <3> QED BY <1>9, <3>1, <3>2, <3>3, EndsParsed
  <2>2. CASE n # fr.left
    <3>1. fr' = [fr EXCEPT !.left = fr.left - n] BY <1>2, <2>2
    <3>2. fr'.kind = fr.kind /\ fr'.left = fr.left - n BY <1>1, <3>1 DEF FrSet
    <3> QED BY <1>1, <1>3, <1>9, <1>10, <3>2 DEF Parsed
  <2> QED BY <2>1, <2>2
<1> QED BY <1>8, <1>11 DEF InOrder

\* The upstream takes n bytes of the prefix.
LEMMA SendPrefixOrder ==
  ASSUME Core, InOrder, SendPrefix
  PROVE  InOrder'
<1>1. /\ pc = "prefix" /\ pc' = "toUp" /\ Buffers
      /\ UNCHANGED <<ws, closing, raw, inq, net, made, cbuf, hdr, fr>>
  BY DEF SendPrefix, Core, Shape, control, reading, clientNet
<1>2. PICK n \in 0 .. Len(pend) : up' = up \o Take(pend, n) /\ pend' = Drop(pend, n)
  BY DEF SendPrefix
<1>3. /\ pend \in Seq(Nat) /\ up \in Seq(Nat) /\ Len(pend) \in Nat /\ Len(up) \in Nat
      /\ Len(cbuf) \in Nat /\ Prefix \in Nat /\ n \in Nat /\ n <= Len(pend)
  BY <1>1, Constants DEF Buffers
<1>4. PICK x \in Seq(Nat) : x = Take(pend, n) /\ Len(x) = n /\ \A i \in 1 .. n : x[i] = pend[i]
  <2>1. /\ Take(pend, n) \in Seq(Nat) /\ Len(Take(pend, n)) = n
        /\ \A i \in 1 .. n : Take(pend, n)[i] = pend[i]
    BY <1>3, DropFacts
  <2> QED BY <2>1
<1>5. /\ Len(pend') = Len(pend) - n
      /\ \A i \in 1 .. (Len(pend) - n) : pend'[i] = pend[n + i]
  BY <1>2, <1>3, DropFacts
<1>6. up' = up \o x /\ Len(up') = Len(up) + n
  <2>1. up' = up \o x BY <1>2, <1>4
  <2>2. Len(up \o x) = Len(up) + Len(x) BY <1>3, JoinFacts
  <2> QED BY <1>4, <2>1, <2>2
<1>7. /\ Len(pend) <= Prefix /\ Got(up, K, M) /\ Numbered(Flow, Base, made) /\ Parsed
      /\ \A i \in 1 .. Len(pend) : pend[i] = K + i
      /\ \A i \in 1 .. Len(cbuf) : cbuf[i] = Prefix + M + i
  BY <1>1, Ordered DEF Delivered
<1>8. PICK k \in Nat, m \in Nat : k = K /\ m = M BY <1>7 DEF Got
<1>9. K' = k + n /\ M' = m /\ Base' = Base /\ k + n <= Prefix
  BY <1>1, <1>3, <1>5, <1>6, <1>8 DEF K, M, Base
<1>10. Got(up', K', M')
  <2>1. \A i \in 1 .. Len(x) : x[i] = k + i
    <3> SUFFICES ASSUME NEW i \in 1 .. Len(x) PROVE x[i] = k + i OBVIOUS
    <3>1. i \in 1 .. n /\ i \in 1 .. Len(pend) BY <1>3, <1>4
    <3> QED BY <1>4, <1>7, <1>8, <3>1
  <2>2. Got(up, k, m) /\ k <= Prefix BY <1>3, <1>7, <1>8, <1>9
  <2>3. PICK k2 \in Nat : k2 = k + Len(x) /\ k2 <= Prefix /\ k2 = k + n BY <1>3, <1>4, <1>9
  <2>4. Got(up \o x, k2, m) BY <1>3, <2>1, <2>2, <2>3, GotMore
  <2> QED BY <1>6, <1>9, <2>3, <2>4
<1>11. ASSUME NEW i \in 1 .. Len(pend') PROVE pend'[i] = K' + i
  <2>1. i \in 1 .. (Len(pend) - n) /\ n + i \in 1 .. Len(pend) /\ i \in Nat BY <1>3, <1>5
  <2>2. pend'[i] = k + (n + i) BY <1>5, <1>7, <1>8, <2>1
  <2> QED BY <1>3, <1>8, <1>9, <2>1, <2>2
<1>12. Delivered'
  <2>1. Len(pend') <= Prefix BY <1>3, <1>5, <1>7
  <2>2. \A i \in 1 .. Len(cbuf') : cbuf'[i] = Prefix + M' + i BY <1>1, <1>7, <1>8, <1>9
  <2> QED BY <1>10, <1>11, <2>1, <2>2 DEF Delivered
<1>13. Flow' = Flow BY <1>1 DEF Flow
<1>14. Numbered(Flow, Base, made)' BY <1>1, <1>7, <1>9, <1>13
<1>15. Parsed' BY <1>1, <1>7, <1>9, <1>13 DEF Parsed
<1> QED BY <1>1, <1>12, <1>14, <1>15 DEF InOrder

\* The upstream takes n bytes of client_buffer.
LEMMA SendUpOrder ==
  ASSUME Core, InOrder, SendUp
  PROVE  InOrder'
<1>1. /\ pc = "toUp" /\ pc' # "ended" /\ Buffers
      /\ UNCHANGED <<ws, closing, raw, inq, net, made, pend, hdr, fr>>
  BY DEF SendUp, ToClient, Core, Shape, control, reading, clientNet
<1>2. PICK n \in 0 .. Len(cbuf) : up' = up \o Take(cbuf, n) /\ cbuf' = Drop(cbuf, n)
  BY DEF SendUp
<1>3. /\ cbuf \in Seq(Nat) /\ up \in Seq(Nat) /\ Len(pend) \in Nat /\ Len(up) \in Nat
      /\ Len(cbuf) \in Nat /\ Prefix \in Nat /\ n \in Nat /\ n <= Len(cbuf)
  BY <1>1, Constants DEF Buffers
<1>4. PICK x \in Seq(Nat) : x = Take(cbuf, n) /\ Len(x) = n /\ \A i \in 1 .. n : x[i] = cbuf[i]
  <2>1. /\ Take(cbuf, n) \in Seq(Nat) /\ Len(Take(cbuf, n)) = n
        /\ \A i \in 1 .. n : Take(cbuf, n)[i] = cbuf[i]
    BY <1>3, DropFacts
  <2> QED BY <2>1
<1>5. /\ Len(cbuf') = Len(cbuf) - n
      /\ \A i \in 1 .. (Len(cbuf) - n) : cbuf'[i] = cbuf[n + i]
  BY <1>2, <1>3, DropFacts
<1>6. up' = up \o x /\ Len(up') = Len(up) + n
  <2>1. up' = up \o x BY <1>2, <1>4
  <2>2. Len(up \o x) = Len(up) + Len(x) BY <1>3, JoinFacts
  <2> QED BY <1>4, <2>1, <2>2
<1>7. /\ Len(pend) <= Prefix /\ Got(up, K, M) /\ Numbered(Flow, Base, made) /\ Parsed
      /\ \A i \in 1 .. Len(pend) : pend[i] = K + i
      /\ \A i \in 1 .. Len(cbuf) : cbuf[i] = Prefix + M + i
  BY <1>1, Ordered DEF Delivered
<1>8. PICK k \in Nat, m \in Nat : k = K /\ m = M BY <1>7 DEF Got
<1>9. K' = k /\ M' = m + n /\ Base' = Base /\ k <= Prefix
  BY <1>1, <1>3, <1>5, <1>6, <1>8 DEF K, M, Base
<1>10. Got(up', K', M')
  <2>1. PICK b \in Nat : b = Prefix + m BY <1>3
  <2>2. \A i \in 1 .. Len(x) : x[i] = b + i
    <3> SUFFICES ASSUME NEW i \in 1 .. Len(x) PROVE x[i] = b + i OBVIOUS
    <3>1. i \in 1 .. n /\ i \in 1 .. Len(cbuf) BY <1>3, <1>4
    <3> QED BY <1>4, <1>7, <1>8, <2>1, <3>1
  <2>3. Got(up, k, m) BY <1>7, <1>8
  <2>4. PICK m2 \in Nat : m2 = m + Len(x) /\ m2 = m + n BY <1>3, <1>4
  <2>5. Got(up \o x, k, m2)
    <3>1. PICK w \in Seq(Nat) : w = up BY <1>3, Zenon
    <3>2. \/ k = k + Len(x) /\ m2 = m /\ k <= Prefix /\ b = k
          \/ k = k /\ m2 = m + Len(x) /\ b = Prefix + m
      BY <2>1, <2>4, Zenon
    <3>3. Got(w, k, m) /\ k <= Prefix BY <1>9, <2>3, <3>1, Zenon
    <3>4. Got(w \o x, k, m2) BY <2>2, <3>2, <3>3, GotMore, Zenon
    <3> QED BY <3>1, <3>4, Zenon
  <2> QED BY <1>6, <1>9, <2>4, <2>5
<1>11. ASSUME NEW i \in 1 .. Len(cbuf') PROVE cbuf'[i] = Prefix + M' + i
  <2>1. i \in 1 .. (Len(cbuf) - n) /\ n + i \in 1 .. Len(cbuf) /\ i \in Nat BY <1>3, <1>5
  <2>2. cbuf'[i] = Prefix + m + (n + i) BY <1>5, <1>7, <1>8, <2>1
  <2> QED BY <1>3, <1>8, <1>9, <2>1, <2>2
<1>12. Delivered'
  <2>1. \A i \in 1 .. Len(pend') : pend'[i] = K' + i BY <1>1, <1>7, <1>8, <1>9
  <2> QED BY <1>1, <1>7, <1>10, <1>11, <2>1 DEF Delivered
<1>13. Flow' = Flow BY <1>1 DEF Flow
<1>14. Numbered(Flow, Base, made)' BY <1>1, <1>7, <1>9, <1>13
<1>15. Parsed' BY <1>1, <1>7, <1>9, <1>13 DEF Parsed
<1> QED BY <1>1, <1>12, <1>14, <1>15 DEF InOrder

\* Bytes that only move along the flow.
LEMMA SameFlow ==
  ASSUME InOrder, pc # "ended", pc' # "ended", Flow' = Flow,
         UNCHANGED <<ws, closing, made, up, pend, cbuf, hdr, fr>>
  PROVE  InOrder'
<1>1. Delivered /\ Numbered(Flow, Base, made) /\ Parsed BY Ordered
<1>2. UNCHANGED <<K, M, Base>> BY DEF K, M, Base
<1>3. Delivered' BY <1>1, <1>2 DEF Delivered
<1>4. Numbered(Flow, Base, made)' BY <1>1, <1>2
<1>5. Parsed' BY <1>1, <1>2 DEF Parsed
<1> QED BY <1>3, <1>4, <1>5 DEF InOrder

\* Bytes move from the socket into ws_raw.
LEMMA FillRawOrder ==
  ASSUME Core, InOrder, FillRaw
  PROVE  InOrder'
<1>1. /\ pc = "frames" /\ pc' = pc /\ raw = <<>> /\ Buffers
      /\ UNCHANGED <<ws, closing, net, made, up, pend, cbuf, hdr, fr>>
  BY DEF FillRaw, Wants, NeedsRaw, Core, Shape, control, toUpVars
<1>2. PICK n \in 0 .. Len(inq) : raw' = Take(inq, n) /\ inq' = Drop(inq, n)
  <2>1. Len(inq) \in Nat /\ RawSize \in Nat BY <1>1, Constants DEF Buffers
  <2>2. PICK n \in Nat : n = Smaller(RawSize, Len(inq)) /\ n <= Len(inq) BY <2>1, SmallerFacts
  <2>3. n \in 0 .. Len(inq) BY <2>1, <2>2
  <2> QED BY <2>2, <2>3 DEF FillRaw
<1>3. inq \in Seq(Tokens) BY <1>1 DEF Buffers
<1>4. raw' \o inq' = inq BY <1>2, <1>3, TakeDrop
<1>5. raw \o inq = inq BY <1>1, <1>3, ConcatEmptySeq
<1>6. Flow' = Flow BY <1>1, <1>4, <1>5 DEF Flow
<1> QED BY <1>1, <1>6, SameFlow

\* Bytes of the client arrive, perhaps of a new frame.
LEMMA ClientArrivesOrder ==
  ASSUME Core, InOrder, ClientArrives, pc # "ended"
  PROVE  InOrder'
<1>1. /\ pc' = pc /\ Buffers /\ raw' = raw
      /\ UNCHANGED <<ws, closing, up, pend, cbuf, hdr, fr>>
  BY DEF ClientArrives, Core, Shape, control, reading, toUpVars
<1>2. /\ raw \in Seq(Tokens) /\ inq \in Seq(Tokens) /\ net \in Seq(Tokens) /\ made \in Nat
      /\ Flow \in Seq(Tokens) /\ ws \in BOOLEAN
  BY <1>1, FlowFacts DEF Buffers, Core, Shape, Flags
<1>3. PICK w \in (IF net = <<>> /\ sends > 0 THEN Writes ELSE {net}) :
        /\ \E n \in 1 .. Len(w) : inq' = inq \o Take(w, n) /\ net' = Drop(w, n)
        /\ made' = IF net = <<>> THEN made + Cardinality(Held(w)) ELSE made
  BY DEF ClientArrives
<1>4. ASSUME w \in Seq(Tokens) PROVE Flow' = (raw \o inq) \o w
  <2>1. PICK n \in 0 .. Len(w) : inq' = inq \o Take(w, n) /\ net' = Drop(w, n) BY <1>3
  <2>2. PICK a \in Seq(Tokens), b \in Seq(Tokens) : a = Take(w, n) /\ b = Drop(w, n)
    BY <1>4, <2>1, DropFacts
  <2>3. a \o b = w BY <1>4, <2>1, <2>2, TakeDrop
  <2>4. Flow' = (raw \o (inq \o a)) \o b BY <1>1, <2>1, <2>2 DEF Flow
  <2>5. (raw \o inq) \o a = raw \o (inq \o a)
    <3>1. raw \in Seq(Tokens) /\ inq \in Seq(Tokens) /\ a \in Seq(Tokens) BY <1>2, <2>2
    <3> HIDE DEF Tokens
    <3> QED BY <3>1, ConcatAssociative
  <2>6. raw \o inq \in Seq(Tokens) BY <1>2, JoinFacts
  <2>7. ((raw \o inq) \o a) \o b = (raw \o inq) \o (a \o b)
    <3>1. PICK x \in Seq(Tokens) : x = raw \o inq BY <2>6
    <3>2. x \in Seq(Tokens) /\ b \in Seq(Tokens) /\ a \in Seq(Tokens) BY <2>2, <3>1
    <3>3. (x \o a) \o b = x \o (a \o b) BY <3>2, ConcatAssociative
    <3> QED BY <3>1, <3>3
  <2> QED BY <2>3, <2>4, <2>5, <2>7
<1>5. CASE net # <<>>
  <2>1. w = net /\ made' = made BY <1>3, <1>5
  <2>2. Flow' = Flow BY <1>2, <1>4, <2>1 DEF Flow
  <2> QED BY <1>1, <2>1, <2>2, SameFlow
<1>6. CASE net = <<>>
  <2>1. w \in Writes
    <3>1. w = <<>> => Len(w) = 0 OBVIOUS
    <3>2. w # <<>> BY <1>3, <3>1
    <3> QED BY <1>3, <1>6, <3>2
  <2>2. /\ w \in Seq(Tokens) /\ w # <<>> /\ (ws => w[1].is = "half" /\ Framed(w))
        /\ \E c \in Nat : /\ Numbered(w, made, made + c)
                          /\ ~ws => Len(w) = c /\ \A i \in 1 .. c : IsByte(w[i]) /\ w[i].n = made + i
    <3>1. CASE ws
      <4>1. PICK h \in Heads : w = FrameOf(h) BY <2>1, <3>1 DEF Writes
      <4> QED BY <1>2, <3>1, <4>1, FrameNumbered
    <3>2. CASE ~ws
      <4>1. PICK c \in 1 .. MaxLen : w = Payload(c) BY <2>1, <3>2 DEF Writes
      <4>2. c \in Nat /\ c > 0 BY <4>1, Constants
      <4>3. /\ w \in Seq(Tokens) /\ Len(w) = c /\ Numbered(w, made, made + c)
            /\ \A i \in 1 .. c : IsByte(w[i]) /\ w[i].n = made + i
        BY <1>2, <4>1, <4>2, PayloadNumbered
      <4>4. w # <<>> BY <4>2, <4>3
      <4> QED BY <3>2, <4>2, <4>3, <4>4
    <3> QED BY <3>1, <3>2
  <2>3. PICK c \in Nat :
          /\ Numbered(w, made, made + c)
          /\ ~ws => Len(w) = c /\ \A i \in 1 .. c : IsByte(w[i]) /\ w[i].n = made + i
    BY <2>2
  <2>4. made' = made + c
    <3>1. PICK e \in Nat : e = made + c BY <1>2, <2>3
    <3>2. Cardinality(Held(w)) = e - made BY <1>2, <2>2, <2>3, <3>1, HeldNumbered
    <3> QED BY <1>2, <1>3, <1>6, <2>3, <3>1, <3>2
  <2>5. Flow = raw \o inq
    <3>1. raw \o inq \in Seq(Tokens) BY <1>2, JoinFacts
    <3> QED BY <1>6, <3>1, ConcatEmptySeq DEF Flow
  <2>6. Flow' = Flow \o w BY <1>4, <2>2, <2>5
  <2>7. PICK f \in Seq(Tokens), b \in Nat, e \in Nat : f = Flow /\ b = Base /\ e = made + c
    <3>1. Len(up) \in Nat /\ Len(pend) \in Nat /\ Len(cbuf) \in Nat BY <1>1 DEF Buffers
    <3>2. Base \in Nat BY <3>1 DEF Base
    <3> QED BY <1>2, <2>3, <3>2
  <2>8. /\ f \o w \in Seq(Tokens) /\ Len(f \o w) = Len(f) + Len(w)
        /\ \A i \in 1 .. Len(f) : (f \o w)[i] = f[i]
        /\ \A i \in 1 .. Len(w) : (f \o w)[Len(f) + i] = w[i]
    BY <2>2, <2>7, JoinFacts
  <2>9. Delivered /\ Numbered(f, b, made) /\ Parsed BY <2>7, Ordered
  <2>10. UNCHANGED <<K, M, Base>> BY <1>1 DEF K, M, Base
  <2>11. Delivered' BY <1>1, <2>9, <2>10 DEF Delivered
  <2>12. Numbered(Flow, Base, made)'
    <3>1. Numbered(f \o w, b, e) BY <1>2, <2>2, <2>3, <2>7, <2>9, JoinNumbered
    <3> QED BY <2>4, <2>6, <2>7, <2>10, <3>1
  <2>13. ASSUME ws PROVE Parsed'
    <3>1. Framed(f) BY <2>7, <2>9, <2>13 DEF Parsed
    <3>2. Framed(f \o w) BY <2>2, <2>7, <2>13, <3>1, JoinFramed
    <3>3. ASSUME ~closing, hdr
          PROVE  fr.kind = "none" /\ Flow' # <<>> /\ Flow'[1].is = "head"
      <4>1. fr.kind = "none" /\ f # <<>> /\ f[1].is = "head" BY <2>7, <2>9, <2>13, <3>3 DEF Parsed
      <4>2. Len(f) \in Nat /\ Len(f) > 0 BY <2>7, <4>1
      <4>3. 1 \in 1 .. Len(f) /\ Len(f \o w) > 0
        <5>1. Len(w) \in Nat BY <2>2
        <5> QED BY <2>8, <4>2, <5>1
      <4> QED BY <2>6, <2>7, <2>8, <4>1, <4>3
    <3>4. ASSUME ~closing, ~hdr PROVE Run(Flow', 0, fr.left, fr.kind)
      <4>1. Run(f, 0, fr.left, fr.kind) BY <2>7, <2>9, <2>13, <3>4 DEF Parsed
      <4>2. fr.left \in Nat BY DEF Core, Shape, Records, FrSet
      <4>3. Run(f \o w, 0, fr.left, fr.kind) BY <2>2, <2>7, <2>13, <4>1, <4>2, JoinRun
      <4> QED BY <2>6, <2>7, <4>3
    <3> QED BY <1>1, <2>6, <2>7, <2>13, <3>2, <3>3, <3>4 DEF Parsed
  <2>14. ASSUME ~ws PROVE Parsed'
    <3>1. /\ made = b + Len(f) /\ Len(f) \in Nat /\ Len(w) = c
          /\ \A i \in 1 .. Len(f) : IsByte(f[i]) /\ f[i].n = b + i
      BY <2>3, <2>7, <2>9, <2>14 DEF Parsed
    <3>2. Flow' = f \o w /\ Base' = b /\ made' = b + Len(f \o w)
      BY <2>3, <2>4, <2>6, <2>7, <2>8, <2>10, <3>1
    <3>3. ASSUME NEW i \in 1 .. Len(f \o w) PROVE IsByte((f \o w)[i]) /\ (f \o w)[i].n = b + i
      <4>1. CASE i <= Len(f)
        <5>1. i \in 1 .. Len(f) BY <3>1, <4>1
        <5> QED BY <2>8, <3>1, <5>1
      <4>2. CASE i > Len(f)
        <5>1. PICK j \in 1 .. c : i = Len(f) + j /\ j \in Nat
          <6>1. i - Len(f) \in 1 .. c /\ i = Len(f) + (i - Len(f)) BY <2>8, <3>1, <4>2
          <6> QED BY <6>1
        <5>2. (f \o w)[i] = w[j] BY <2>8, <3>1, <5>1
        <5>3. IsByte(w[j]) /\ w[j].n = made + j BY <2>3, <2>14, <5>1
        <5>4. made + j = b + i BY <2>7, <3>1, <5>1
        <5> QED BY <5>2, <5>3, <5>4
      <4> QED BY <3>1, <4>1, <4>2
    <3> QED BY <1>1, <2>14, <3>2, <3>3 DEF Parsed
  <2> QED BY <1>1, <2>11, <2>12, <2>13, <2>14 DEF InOrder
<1> QED BY <1>5, <1>6

\* The end of a frame does not end the session.
LEMMA HandledPc ==
  ASSUME NEW kind, NEW f, NEW l, FrameEnds(kind, f, l), pc = "frames"
  PROVE  pc' # "ended"
<1>1. CASE kind = "close" BY <1>1 DEF FrameEnds, Closes, Returns, ToClient
<1>2. CASE kind = "ping" BY <1>2 DEF FrameEnds, Counted, ToClient
<1>3. CASE kind # "close" /\ kind # "ping" BY <1>3 DEF FrameEnds, Counted, ToClient
<1> QED BY <1>1, <1>2, <1>3

\* The steps that read frames do not end the session.
LEMMA FramesGoOn ==
  ASSUME TakePlain \/ TakePayload \/ TakeControl \/ TakeHead
  PROVE  pc # "ended" /\ pc' # "ended"
<1>1. CASE TakePlain BY <1>1 DEF TakePlain, Wants, Returns, ToClient
<1>2. CASE TakePayload
  <2>1. pc = "frames" BY <1>2 DEF TakePayload, Wants
  <2>2. pc' = pc \/ \E l : FrameEnds(fr.kind, fr.fin, l) BY <1>2 DEF TakePayload
  <2> QED BY <2>1, <2>2, HandledPc
<1>3. CASE TakeControl
  <2>1. pc = "frames" BY <1>3 DEF TakeControl, Wants
  <2>2. pc' = pc \/ FrameEnds(fr.kind, TRUE, loc) BY <1>3 DEF TakeControl
  <2> QED BY <2>1, <2>2, HandledPc
<1>4. CASE TakeHead
  <2>1. pc = "frames" BY <1>4 DEF TakeHead, Wants
  <2>2. PICK h : h = Head(raw) OBVIOUS
  <2>3. \/ Closes \/ pc' = pc \/ FrameEnds(h.kind, h.fin, loc) BY <1>4, <2>2 DEF TakeHead
  <2>4. Closes => pc' # "ended" BY DEF Closes, Returns, ToClient
  <2> QED BY <2>1, <2>3, <2>4, HandledPc
<1> QED BY <1>1, <1>2, <1>3, <1>4

\* The steps that move no byte of the client.
LEMMA QuietSteps ==
  ASSUME InOrder,
         \/ UpstreamArrives \/ \E s \in Sides : PeerEnds(s) \/ SocketDrains(s)
         \/ \E s \in Sides : Readable(s) \/ Writable(s)
         \/ \E e \in posted : PostedEvent(e)
         \/ Gate \/ Relays \/ ReadEnough \/ StartRecv \/ Filled \/ RecvFails
         \/ SendPlain \/ SendControl \/ SendApp \/ SendTail
         \/ UpstreamEnough \/ ReadUpstream \/ (Finish /\ ~Over)
  PROVE  InOrder'
<1>1. CASE UpstreamArrives
  BY <1>1, QuietOrder DEF UpstreamArrives, AtRecv, control, reading, toUpVars, clientNet
<1>2. ASSUME NEW s \in Sides, PeerEnds(s) PROVE InOrder'
  BY <1>2, QuietOrder DEF PeerEnds, AtRecv, control, reading, toUpVars, clientNet
<1>3. ASSUME NEW s \in Sides, SocketDrains(s) PROVE InOrder'
  BY <1>3, QuietOrder DEF SocketDrains, AtSend, control, reading, toUpVars, clientNet
<1>4. ASSUME NEW s \in Sides, Readable(s) PROVE InOrder'
  BY <1>4, QuietOrder DEF Readable, Enter, Begin, control, reading, toUpVars, clientNet
<1>5. ASSUME NEW s \in Sides, Writable(s) PROVE InOrder'
  BY <1>5, QuietOrder DEF Writable, Enter, Begin, control, reading, toUpVars, clientNet
<1>6. ASSUME NEW e \in posted, PostedEvent(e) PROVE InOrder'
  BY <1>6, QuietOrder DEF PostedEvent, Enter, Begin, control, reading, toUpVars, clientNet
<1>7. CASE Gate BY <1>7, QuietOrder DEF Gate, control, reading, toUpVars, clientNet
<1>8. CASE Relays
  BY <1>8, QuietOrder DEF Relays, Gated, Begin, control, reading, toUpVars, clientNet
<1>9. CASE ReadEnough
  BY <1>9, QuietOrder DEF ReadEnough, Yield, ToClient, reading, toUpVars, clientNet
<1>10. CASE StartRecv BY <1>10, QuietOrder DEF StartRecv, control, reading, toUpVars, clientNet
<1>11. CASE Filled
  BY <1>11, QuietOrder DEF Filled, Returns, ToClient, control, reading, toUpVars, clientNet
<1>12. CASE RecvFails
  BY <1>12, QuietOrder
  DEF RecvFails, Wants, Returns, ToClient, control, reading, toUpVars, clientNet
<1>13. CASE SendPlain BY <1>13, QuietOrder DEF SendPlain, control, reading, toUpVars, clientNet
<1>14. CASE SendControl
  BY <1>14, QuietOrder DEF SendControl, control, reading, toUpVars, clientNet
<1>15. CASE SendApp
  <2>1. pc' \in {"finish", "tail"} BY <1>15 DEF SendApp
  <2> QED BY <1>15, <2>1, QuietOrder DEF SendApp, control, reading, toUpVars, clientNet
<1>16. CASE SendTail BY <1>16, QuietOrder DEF SendTail, control, reading, toUpVars, clientNet
<1>17. CASE UpstreamEnough
  BY <1>17, QuietOrder DEF UpstreamEnough, reading, toUpVars, clientNet
<1>18. CASE ReadUpstream
  <2>1. pc' \in {"finish", "toClient"} BY <1>18 DEF ReadUpstream
  <2> QED BY <1>18, <2>1, QuietOrder DEF ReadUpstream, control, reading, toUpVars, clientNet
<1>19. CASE Finish /\ ~Over
  BY <1>19, QuietOrder DEF Finish, control, reading, clientNet
<1> QED BY <1>1, <1>2, <1>3, <1>4, <1>5, <1>6, <1>7, <1>8, <1>9, <1>10, <1>11, <1>12, <1>13,
           <1>14, <1>15, <1>16, <1>17, <1>18, <1>19

----------------------------------------------------------------------------
\* The inductive invariant.
Inv == Core /\ InOrder

\* Stuttering keeps the invariant.
LEMMA StaysInv ==
  ASSUME Inv, UNCHANGED vars
  PROVE  Inv'
<1>1. UNCHANGED <<ws, closing, end, posted, raw, hdr, fr, frag, pend, cbuf, shut, up, ub, app,
                  ctl, wire, net, inq, sends, made, from, usent, pc, ready, eof, wr, loc, ev,
                  fin, room>>
  BY DEF vars, control, reading, toUpVars, toCliVars, clientNet, upNet
<1>2. UNCHANGED <<Flags, Sockets, Buffers, Records, Recv>>
  BY <1>1 DEF Flags, Sockets, Buffers, Records, Recv
<1>3. UNCHANGED <<Parser, AppFrame, Seen, Outputs>> /\ pc' = pc /\ UNCHANGED <<ctl, app, wire, ws, closing>>
  BY <1>1 DEF Parser, AppFrame, Seen, Outputs, ClientWaits, UpWaits
<1>4. UNCHANGED Inputs BY <1>1 DEF Inputs, InputComes, Due, Unread, ClientWaits, UpWaits
<1>5. UNCHANGED <<K, M, Base, Flow>> BY <1>1 DEF K, M, Base, Flow
<1>6. UNCHANGED <<Delivered, Parsed>> BY <1>1, <1>5 DEF Delivered, Parsed
<1>7. UNCHANGED InOrder BY <1>1, <1>5, <1>6 DEF InOrder
<1>8. UNCHANGED Wired BY <1>3 DEF Wired
<1> QED BY <1>2, <1>3, <1>4, <1>7, <1>8 DEF Inv, Core, Shape

\* Every step keeps the invariant.
LEMMA NextInv ==
  ASSUME Inv, Next
  PROVE  Inv'
<1>1. Core /\ InOrder BY DEF Inv
<1>2. ASSUME NEW s \in Sides, Readable(s) \/ Writable(s) PROVE Inv'
  BY <1>1, <1>2, ReadableCore, WritableCore, QuietSteps DEF Inv
<1>3. ASSUME NEW e \in posted, PostedEvent(e) PROVE Inv'
  BY <1>1, <1>3, PostedEventCore, QuietSteps DEF Inv
<1>4. CASE IdleTimeout BY <1>1, <1>4, EndsCore DEF IdleTimeout, Inv
<1>5. CASE ClientArrives
  <2>1. pc # "ended" BY <1>5 DEF ClientArrives, AtRecv
  <2> QED BY <1>1, <1>5, <2>1, ClientArrivesCore, ClientArrivesOrder DEF Inv
<1>6. CASE UpstreamArrives BY <1>1, <1>6, UpstreamArrivesCore, QuietSteps DEF Inv
<1>7. ASSUME NEW s \in Sides, PeerEnds(s) \/ SocketDrains(s) PROVE Inv'
  BY <1>1, <1>7, PeerEndsCore, SocketDrainsCore, QuietSteps DEF Inv
<1>8. CASE Gate BY <1>1, <1>8, GateCore, QuietSteps DEF Inv
<1>9. CASE Relays BY <1>1, <1>9, RelaysCore, QuietSteps DEF Inv
<1>10. CASE Closed BY <1>1, <1>10, EndsCore DEF Closed, Inv
<1>11. CASE SendFails BY <1>1, <1>11, EndsCore DEF SendFails, Inv
<1>12. CASE SendPrefix BY <1>1, <1>12, SendPrefixCore, SendPrefixOrder DEF Inv
<1>13. CASE SendUp BY <1>1, <1>13, SendUpCore, SendUpOrder DEF Inv
<1>14. CASE ReadEnough BY <1>1, <1>14, ReadEnoughCore, QuietSteps DEF Inv
<1>15. CASE StartRecv BY <1>1, <1>15, StartRecvCore, QuietSteps DEF Inv
<1>16. CASE Filled BY <1>1, <1>16, FilledCore, QuietSteps DEF Inv
<1>17. CASE RecvFails BY <1>1, <1>17, RecvFailsCore, QuietSteps DEF Inv
<1>18. CASE FillRaw BY <1>1, <1>18, FillRawCore, FillRawOrder DEF Inv
<1>19. CASE TakePlain BY <1>1, <1>19, TakePlainCore, TakePlainOrder, FramesGoOn DEF Inv
<1>20. CASE TakePayload BY <1>1, <1>20, TakePayloadCore, TakePayloadOrder, FramesGoOn DEF Inv
<1>21. CASE TakeControl BY <1>1, <1>21, TakeControlCore, TakeControlOrder, FramesGoOn DEF Inv
<1>22. CASE TakeHalf BY <1>1, <1>22, TakeHalfCore, TakeHalfOrder DEF Inv
<1>23. CASE TakeHead
  BY <1>1, <1>23, HeadIs, TakeHeadCore, TakeHeadOrder, FramesGoOn DEF Inv
<1>24. CASE SendPlain BY <1>1, <1>24, SendPlainCore, QuietSteps DEF Inv
<1>25. CASE SendControl BY <1>1, <1>25, SendControlCore, QuietSteps DEF Inv
<1>26. CASE SendApp BY <1>1, <1>26, SendAppCore, QuietSteps DEF Inv
<1>27. CASE SendTail BY <1>1, <1>27, SendTailCore, QuietSteps DEF Inv
<1>28. CASE UpstreamEnough BY <1>1, <1>28, UpstreamEnoughCore, QuietSteps DEF Inv
<1>29. CASE ReadUpstream BY <1>1, <1>29, ReadUpstreamCore, QuietSteps DEF Inv
<1>30. CASE Finish
  <2>1. CASE Over
    <3>1. Finalize("eof") BY <1>30, <2>1 DEF Finish
    <3> QED BY <1>1, <3>1, EndsCore DEF Inv
  <2>2. CASE ~Over BY <1>1, <1>30, <2>2, FinishCore, QuietSteps DEF Inv
  <2> QED BY <2>1, <2>2
<1>31. CASE Ended BY <1>1, <1>31, StaysInv DEF Ended, Inv
<1> QED
  BY <1>2, <1>3, <1>4, <1>5, <1>6, <1>7, <1>8, <1>9, <1>10, <1>11, <1>12, <1>13, <1>14, <1>15,
     <1>16, <1>17, <1>18, <1>19, <1>20, <1>21, <1>22, <1>23, <1>24, <1>25, <1>26, <1>27, <1>28,
     <1>29, <1>30, <1>31
  DEF Next, Events, Peers

\* The invariant holds when process_proxy is entered for the first time.
LEMMA InitInv ==
  ASSUME Init
  PROVE  Inv
<1>1. /\ ws \in BOOLEAN /\ pc = "prefix" /\ closing = FALSE /\ end = "no" /\ posted = {}
      /\ loc = NoLoc /\ raw = <<>> /\ hdr = FALSE /\ fr = NoFrame /\ frag = FALSE
      /\ made = Prefix /\ pend = [i \in 1 .. Prefix |-> i] /\ cbuf = <<>> /\ shut = FALSE
      /\ up = <<>> /\ ub = 0 /\ app = NoApp /\ ctl = NoCtl /\ wire = NoWire
      /\ net = <<>> /\ inq = <<>> /\ sends = MaxSends /\ from = 0 /\ usent = 0
  BY Constants DEF Init
<1>2. /\ ready = [s \in Sides |-> s = "client"] /\ eof = [s \in Sides |-> FALSE]
      /\ wr = [s \in Sides |-> TRUE] /\ ev = [s \in Sides |-> FALSE]
      /\ fin = [s \in Sides |-> FALSE] /\ room = [s \in Sides |-> TRUE]
  BY DEF Init
<1>3. Sockets BY <1>2 DEF Sockets
<1>4. /\ Prefix \in Nat /\ BufSize \in Nat /\ RawSize \in Nat /\ MaxSends \in Nat
  BY Constants
<1>5. pend \in Seq(Nat) /\ Len(pend) = Prefix /\ \A i \in 1 .. Prefix : pend[i] = i
  <2>1. pend \in [1 .. Prefix -> Nat] BY <1>1
  <2> QED BY <1>1, <1>4, <2>1, SeqDef
<1>6. /\ <<>> \in Seq(Tokens) /\ <<>> \in Seq(Nat) /\ Len(<<>>) = 0 OBVIOUS
<1>7. Buffers
  <2>1. Len(raw) <= RawSize /\ Len(cbuf) <= BufSize /\ ub \in 0 .. BufSize
    BY <1>1, <1>4, <1>6
  <2> QED BY <1>1, <1>4, <1>5, <1>6, <2>1 DEF Buffers
<1>8. Flags BY <1>1 DEF Flags, Pcs
<1>9. Records BY <1>1, NoRecords DEF Records
<1>10. Recv BY <1>1, NoRecords DEF Recv
<1>11. Parser /\ AppFrame BY <1>1, NoRecords DEF Parser, AppFrame
<1>12. Wired BY <1>1, <1>11, NoRecords DEF Wired
<1>13. \A s \in Sides : ~loc.seen[s] /\ ~eof[s] /\ ~ev[s] /\ ~fin[s]
  BY <1>1, <1>2, NoRecords
<1>14. Seen BY <1>1, <1>13, NoRecords, SideNames DEF Seen, ClientWaits, UpWaits
<1>15. Outputs BY <1>1, NoRecords DEF Outputs
<1>16. Inputs BY <1>1 DEF Inputs
<1>17. Core BY <1>3, <1>7, <1>8, <1>9, <1>10, <1>12, <1>14, <1>15, <1>16 DEF Core, Shape
<1>18. K = 0 /\ M = 0 /\ Base = Prefix
  BY <1>1, <1>4, <1>5, <1>6 DEF K, M, Base
<1>19. Delivered
  <2>1. 1 .. Len(up) = {} /\ 1 .. 0 = {} /\ (Prefix + 1) .. (Prefix + 0) = {} /\ Len(up) = 0 + 0
    BY <1>1, <1>4, <1>6
  <2>2. Got(up, 0, 0) BY <2>1 DEF Got
  <2>3. \A i \in 1 .. Len(pend) : pend[i] = 0 + i BY <1>4, <1>5
  <2>4. 1 .. Len(cbuf) = {} /\ Len(pend) <= Prefix BY <1>1, <1>4, <1>5, <1>6
  <2> QED BY <1>18, <2>2, <2>3, <2>4 DEF Delivered
<1>20. Flow = <<>>
  <2>1. <<>> \o <<>> = <<>> BY <1>6, ConcatEmptySeq
  <2> QED BY <1>1, <2>1 DEF Flow
<1>21. 1 .. Len(Flow) = {} /\ Len(Flow) = 0 BY <1>6, <1>20
<1>22. Numbered(Flow, Base, made)
  <2>1. (Prefix + 1) .. Prefix = {} /\ Prefix <= Prefix BY <1>4
  <2> QED BY <1>1, <1>18, <1>21, <2>1 DEF Numbered
<1>23. Parsed
  <2>1. Framed(Flow) BY <1>21 DEF Framed
  <2>2. Run(Flow, 0, 0, "none")
    <3>1. 1 .. 0 = {} /\ 0 + 0 <= 0 /\ ~(0 + 0 < 0) OBVIOUS
    <3> QED BY <1>21, <3>1 DEF Run
  <2>3. made = Base + Len(Flow) BY <1>1, <1>4, <1>18, <1>21
  <2> QED BY <1>1, <1>21, <2>1, <2>2, <2>3, NoRecords DEF Parsed
<1> QED BY <1>1, <1>17, <1>19, <1>22, <1>23 DEF Inv, InOrder

\* The invariant holds in every reachable state: the buffers and the locals
\* fit, the client's parser is where the frame being sent says, what waits has
\* its event to come, and the client's bytes are in order along their way.
THEOREM Invariant == Spec => []Inv
<1>1. Init => Inv BY InitInv
<1>2. Inv /\ [Next]_vars => Inv' BY NextInv, StaysInv
<1> QED BY <1>1, <1>2, PTL DEF Spec

\* What the client receives over a WebSocket is whole frames, one after the
\* other, however the socket cuts the sends of websocket_send_parts and
\* websocket_flush_out; every buffer respects its capacity (FramesWhole).
THEOREM FramesStayWhole == Spec => []FramesWhole
<1>1. Inv => FramesWhole
  <2> SUFFICES ASSUME Inv PROVE FramesWhole OBVIOUS
  <2>1. Flags /\ Sockets /\ Buffers /\ Records /\ Recv /\ Parser /\ AppFrame
    BY DEF Inv, Core, Shape, Wired
  <2>2. /\ {ws, closing, hdr, frag, shut} \subseteq BOOLEAN
        /\ pc \in {"idle", "gate", "prefix", "toUp", "frames", "toClient", "tail",
                   "finish", "ended"}
        /\ end \in {"no", "eof", "closed", "timeout", "error"}
        /\ posted \subseteq {"read", "write", "upstream"}
    BY <2>1 DEF Flags, Pcs
  <2>3. {ready, eof, wr, ev, fin, room} \subseteq [Sides -> BOOLEAN] BY <2>1 DEF Sockets
  <2>4. /\ loc.seen \in [Sides -> BOOLEAN]
        /\ loc.loops <= MaxLoops /\ loc.bytes <= Limit /\ loc.got <= loc.size
        /\ loc.frames < MaxFrames
    <3>1. loc \in LocSet /\ MaxLoops \in Nat /\ Limit \in Nat /\ MaxFrames \in Nat \ {0}
      BY <2>1, Constants DEF Records
    <3>2. loc.got <= loc.size /\ loc.frames < MaxFrames BY <2>1, <3>1 DEF Recv
    <3> QED BY <3>1, <3>2 DEF LocSet
  <2>5. /\ {raw, net, inq} \subseteq Seq(Tokens) /\ Len(raw) <= RawSize
        /\ {pend, cbuf, up} \subseteq Seq(Nat) /\ Len(cbuf) <= BufSize
        /\ ub \in 0 .. BufSize
    BY <2>1 DEF Buffers
  <2>6. /\ fr.left \in Nat /\ (fr.kind = "none" <=> fr.left = 0)
        /\ ctl.pos \in 0 .. (CtlLen - 1) /\ ctl.kind \in {"none", "pong", "close"}
    BY <2>1 DEF Records, FrSet, CtlSet
  <2>7. app.on => /\ app.pos \in 0 .. (HeaderLen + app.len - 1)
                  /\ ub = app.len - (IF app.pos > HeaderLen THEN app.pos - HeaderLen ELSE 0)
    <3>1. app.pos \in Nat /\ app.len \in Nat /\ HeaderLen \in Nat
      BY <2>1, Constants DEF Records, AppSet
    <3> QED BY <2>1, <3>1 DEF AppFrame, Paid
  <2>8. wire.state # "broken" BY <2>1 DEF Parser
  <2> QED BY <2>2, <2>3, <2>4, <2>5, <2>6, <2>7, <2>8 DEF FramesWhole, TypeOK
<1> QED BY <1>1, Invariant, PTL

\* When the worker waits, neither a byte that a peer sent nor output that is
\* left is forgotten: an event of its connection, a posted event or the write
\* event of the socket that holds it up is still to come (NothingStalls).
THEOREM NothingIsForgotten == Spec => []NothingStalls
<1>1. Inv => NothingStalls
  <2> SUFFICES ASSUME Inv PROVE NothingStalls OBVIOUS
  <2>1. Outputs /\ Inputs BY DEF Inv, Core
  <2>2. NoStalledInput
    BY <2>1, Zenon DEF Inputs, InputComes, ClientWaits, UpWaits, NoStalledInput, WaitsFor
  <2>3. OutputArmed BY <2>1 DEF Outputs, OutputArmed, WaitsFor
  <2> QED BY <2>2, <2>3 DEF NothingStalls
<1> QED BY <1>1, Invariant, PTL

\* Each of the two sources of the upstream's bytes arrives in order, nothing
\* lost and nothing twice (Fifo): through pending_to_upstream, the payload of
\* frames read from ws_raw or straight from the socket, and client_buffer.
THEOREM BytesInOrder == Spec => []Fifo
<1>1. Inv => Fifo
  <2> SUFFICES ASSUME Inv PROVE Fifo OBVIOUS
  <2>1. CASE pc = "ended"
    <3>1. Len(up) = 0 BY <2>1 DEF Inv, InOrder
    <3> QED BY <3>1 DEF Fifo
  <2>2. CASE pc # "ended" BY <2>2 DEF Inv, InOrder, Delivered, Got, Fifo
  <2> QED BY <2>1, <2>2
<1> QED BY <1>1, Invariant, PTL

\* When the client's end was seen, all it wrote but what is in net is with the
\* upstream or in the module's buffers.
LEMMA AllRead ==
  ASSUME Inv, pc = "finish", loc.seen["client"]
  PROVE  /\ Sent = Len(up) + Len(pend) + Len(cbuf)
         /\ Len(up) \in Nat /\ Len(pend) \in Nat
<1>1. Core /\ InOrder /\ Buffers /\ Seen BY DEF Inv, Core, Shape
<1>2. raw = <<>> /\ inq = <<>> BY <1>1, SideNames DEF Seen
<1>3. /\ net \in Seq(Tokens) /\ made \in Nat
      /\ Len(up) \in Nat /\ Len(pend) \in Nat /\ Len(cbuf) \in Nat
  BY <1>1 DEF Buffers
<1>4. Flow = net
  <2>1. <<>> \in Seq(Tokens) /\ <<>> \o <<>> = <<>> OBVIOUS
  <2>2. <<>> \o net = net BY <1>3, ConcatEmptySeq
  <2> QED BY <1>2, <2>1, <2>2 DEF Flow
<1>5. Numbered(net, Base, made) BY <1>1, <1>4, Ordered
<1>6. PICK b \in Nat : b = Base BY <1>3 DEF Base
<1>7. Cardinality(Held(net)) = made - b BY <1>3, <1>5, <1>6, HeldNumbered
<1> QED BY <1>3, <1>6, <1>7 DEF Sent, Base

\* Only the end of process_proxy half-closes the upstream.
LEMMA ShutByFinish ==
  ASSUME Inv, Next, ~shut, shut'
  PROVE  Finish /\ ~Over /\ Shuts
<1>1. shut' # shut OBVIOUS
<1>2. ASSUME NEW why, Finalize(why) PROVE FALSE BY <1>2 DEF Finalize
<1>3. \A s \in Sides : ~Readable(s) /\ ~Writable(s) /\ ~PeerEnds(s) /\ ~SocketDrains(s)
  BY <1>1 DEF Readable, Writable, PeerEnds, SocketDrains, toUpVars
<1>4. \A e \in posted : ~PostedEvent(e) BY <1>1 DEF PostedEvent, toUpVars
<1>5. ~IdleTimeout /\ ~Closed /\ ~SendFails BY <1>2 DEF IdleTimeout, Closed, SendFails
<1>6. ~ClientArrives /\ ~UpstreamArrives /\ ~Gate /\ ~Relays /\ ~SendPrefix /\ ~SendUp
  BY <1>1 DEF ClientArrives, UpstreamArrives, Gate, Relays, SendPrefix, SendUp, toUpVars
<1>7. ~ReadEnough /\ ~StartRecv /\ ~Filled /\ ~RecvFails /\ ~FillRaw /\ ~TakePlain
  BY <1>1 DEF ReadEnough, StartRecv, Filled, RecvFails, FillRaw, TakePlain, toUpVars
<1>8. ~TakePayload /\ ~TakeControl /\ ~TakeHalf /\ ~TakeHead
  BY <1>1 DEF TakePayload, TakeControl, TakeHalf, TakeHead, toUpVars
<1>9. ~SendPlain /\ ~SendControl /\ ~SendApp /\ ~SendTail /\ ~UpstreamEnough /\ ~ReadUpstream
  BY <1>1 DEF SendPlain, SendControl, SendApp, SendTail, UpstreamEnough, ReadUpstream, toUpVars
<1>10. ~Ended BY <1>1 DEF Ended, vars, toUpVars
<1>11. Finish
  BY <1>3, <1>4, <1>5, <1>6, <1>7, <1>8, <1>9, <1>10 DEF Next, Events, Peers
<1>12. ~Over BY <1>2, <1>11 DEF Finish
<1>13. Shuts BY <1>11, <1>12 DEF Finish
<1> QED BY <1>11, <1>12, <1>13

\* A session ends with both peers' ends only there too.
LEMMA EofByFinish ==
  ASSUME Inv, Next, end = "no", end' = "eof"
  PROVE  Finish /\ Over
<1>1. end' # end OBVIOUS
<1>2. ASSUME NEW why, Finalize(why) PROVE why = "eof" BY <1>2 DEF Finalize
<1>3. \A s \in Sides : ~Readable(s) /\ ~Writable(s) /\ ~PeerEnds(s) /\ ~SocketDrains(s)
  BY <1>1 DEF Readable, Writable, PeerEnds, SocketDrains, control
<1>4. \A e \in posted : ~PostedEvent(e) BY <1>1 DEF PostedEvent
<1>5. ~IdleTimeout /\ ~Closed /\ ~SendFails BY <1>2 DEF IdleTimeout, Closed, SendFails
<1>6. ~ClientArrives /\ ~UpstreamArrives /\ ~Gate /\ ~Relays /\ ~SendPrefix /\ ~SendUp
  BY <1>1 DEF ClientArrives, UpstreamArrives, Gate, Relays, SendPrefix, SendUp, control
<1>7. ~ReadEnough /\ ~StartRecv /\ ~Filled /\ ~RecvFails /\ ~FillRaw /\ ~TakePlain
  BY <1>1 DEF ReadEnough, StartRecv, Filled, RecvFails, FillRaw, TakePlain, control
<1>8. ~TakePayload /\ ~TakeControl /\ ~TakeHalf /\ ~TakeHead
  BY <1>1 DEF TakePayload, TakeControl, TakeHalf, TakeHead, control
<1>9. ~SendPlain /\ ~SendControl /\ ~SendApp /\ ~SendTail /\ ~UpstreamEnough /\ ~ReadUpstream
  BY <1>1 DEF SendPlain, SendControl, SendApp, SendTail, UpstreamEnough, ReadUpstream, control
<1>10. ~Ended BY <1>1 DEF Ended, vars, control
<1>11. Finish
  BY <1>3, <1>4, <1>5, <1>6, <1>7, <1>8, <1>9, <1>10 DEF Next, Events, Peers
<1>12. Over BY <1>1, <1>11 DEF Finish, control
<1> QED BY <1>11, <1>12

\* The upstream's half-close comes after the client's last byte, and a session
\* that ends because both peers did has delivered everything (EndsComplete).
THEOREM EndsWhole == Spec => EndsComplete
<1> DEFINE Ends == /\ (~shut /\ shut') => Len(up) = Sent
                   /\ (end = "no" /\ end' = "eof") =>
                        Len(up) + Len(pend) = Sent /\ from = 0 /\ ub = 0
<1>1. Inv /\ [Next]_vars => [Ends]_vars
  <2> SUFFICES ASSUME Inv, Next PROVE Ends OBVIOUS
  <2>1. ASSUME ~shut, shut' PROVE Len(up) = Sent
    <3>1. pc = "finish" /\ loc.seen["client"] /\ pend = <<>> /\ cbuf = <<>>
      BY <2>1, ShutByFinish DEF Finish, Shuts
    <3>2. Len(<<>>) = 0 OBVIOUS
    <3> QED BY <3>1, <3>2, AllRead
  <2>2. ASSUME end = "no", end' = "eof"
        PROVE  Len(up) + Len(pend) = Sent /\ from = 0 /\ ub = 0
    <3>1. /\ pc = "finish" /\ loc.seen["client"] /\ loc.seen["upstream"] /\ cbuf = <<>>
          /\ ub = 0
      BY <2>2, EofByFinish DEF Finish, Over
    <3>2. from = 0 BY <3>1, SideNames DEF Inv, Core, Seen
    <3>3. Len(<<>>) = 0 OBVIOUS
    <3> QED BY <3>1, <3>2, <3>3, AllRead
  <2> QED BY <2>1, <2>2
<1> QED BY <1>1, Invariant, PTL DEF Spec, EndsComplete
=============================================================================
