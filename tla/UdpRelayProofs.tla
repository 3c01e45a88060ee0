--------------------------- MODULE UdpRelayProofs ---------------------------
(***************************************************************************)
(* Proofs about UdpRelay, for any number of frames and replies, any size   *)
(* of a batch and both kinds of session.                                   *)
(*                                                                         *)
(* Sorted: the types, and who runs when.  Accounted: the frames form one   *)
(* queue from the client to what was done with them.  Delivery: the        *)
(* replies on their way are distinct and pass through the buffers whole.   *)
(* Events: what is left over is behind an event.                           *)
(***************************************************************************)
EXTENDS UdpRelay, QueueProofs

----------------------------------------------------------------------------
(* What every step leaves, and the types.                                  *)

Ways == {Way(i) : i \in Nat} \cup {"direct", "none"}
Assocs == [to : Ways, up : BOOLEAN]
Record == [frame : Nat, way : Ways, how : {"sent", "full", "busy"}]
Batch ==
  {b \in [of : {"none"} \cup Sockets, count : 0 .. Limit, pos : 0 .. Limit, full : BOOLEAN] :
     b.count # 0 => b.of # "none"}
Sending == [head : Nat, slot : 1 .. Limit, left : 0 .. 2, full : BOOLEAN]
Piece == {"head", "data"} \X Nat

FramesType ==
  /\ told \in Nat /\ sock \in Seq(Nat) /\ inq \in Seq(Nat) /\ query \in Seq(Nat)
  /\ held \in Seq(Nat) /\ assoc \in Assocs /\ done \in Seq(Record)
RepliesType ==
  /\ n \in 0 .. Limit /\ uc \in Sockets /\ net \in [Sockets -> Seq(Nat)] /\ batch \in Batch
  /\ mem \in [1 .. Limit -> Nat] /\ pend \in Sending /\ out \in Seq(Nat)
  /\ IF Trojan THEN got \in Seq(Piece) /\ out = <<>> ELSE got \in Seq(Nat) /\ pend.left = 0
StateType ==
  /\ state \in {"udp", "resolving", "socks5_udp", "ended"}
  /\ pc \in {"wait", "client", "flush", "s5in", "net", "netflush"}
  /\ ev \subseteq {"read", "write"} /\ posted \subseteq {"client", "s5in"} \cup Sockets

\* The configuration of a session does not change.
LEMMA ConfStays ==
  ASSUME [Next]_vars
  PROVE  conf' = conf /\ (Trojan' <=> Trojan) /\ Ways' = Ways /\ \A f : Way(f)' = Way(f)
<1>1. conf' = conf
  BY DEF Next, vars, ClientFrame, ClientRead, ClientLimit, ClientFlush, QueryDone,
         AssociationStands, S5Stops, S5Frame, Fails, End, WriteHandler, NetFlush, NetOther,
         NetReceive, NetRelay, NetEnds, Posted, Called, ClientEvent, S5Event, ClientSays, Room,
         SocketEvent, Arrives
<1> QED BY <1>1 DEF Trojan, Ways, Way

\* A disposition of a frame is a record.
LEMMA DoneType ==
  ASSUME FramesType, NEW f \in Nat, NEW w \in Ways, NEW how \in {"sent", "full", "busy"},
         Done(f, w, how)
  PROVE  done' \in Seq(Record) /\ done' = Append(done, [frame |-> f, way |-> w, how |-> how])
<1>1. [frame |-> f, way |-> w, how |-> how] \in Record BY DEF Record
<1> QED BY <1>1 DEF Done, FramesType

\* What becomes of a frame that is sent or looked up.
LEMMA SendsType ==
  ASSUME FramesType, NEW f \in Nat, NEW w \in Ways, SendsTo(f, w)
  PROVE  done' \in Seq(Record)
         /\ \E how \in {"sent", "full"} : done' = Append(done, [frame |-> f, way |-> w, how |-> how])
BY DoneType DEF SendsTo

LEMMA LooksUpType ==
  ASSUME FramesType, NEW f \in Nat, LooksUp(f)
  PROVE  /\ done' \in Seq(Record) /\ query' \in Seq(Nat)
         /\ \/ query' = <<f>> /\ done' = done
            \/ query' = query /\ done' = Append(done, [frame |-> f, way |-> "direct", how |-> "busy"])
<1>1. CASE query' = <<f>> /\ done' = done BY <1>1 DEF FramesType
<1>2. CASE query' = query /\ Done(f, "direct", "busy")
  <2>1. "direct" \in Ways BY DEF Ways
  <2> QED BY <1>2, <2>1, DoneType DEF FramesType
<1> QED BY <1>1, <1>2 DEF LooksUp

\* A frame is sent directly or through the association that stands then.
LEMMA SendingWays ==
  ASSUME FramesType, NEW f \in Nat
  PROVE  /\ "direct" \in Ways /\ assoc.to \in Ways /\ Outbound(f) \in Assocs
         /\ [to |-> Way(f), up |-> FALSE] \in Assocs
BY DEF FramesType, Assocs, Ways, Outbound, NoAssoc

\* A first element and what follows it.
LEMMA FirstOf ==
  ASSUME NEW S, NEW s \in Seq(S), s # <<>>
  PROVE  s[1] \in S /\ Tail(s) \in Seq(S) /\ s = <<s[1]>> \o Tail(s)
<1>1. Len(s) \in Nat \ {0} BY EmptySeq
<1>2. s[1] \in S /\ Tail(s) \in Seq(S) BY <1>1, HeadTailProperties, ElementOfSeq
<1>3. SubSeq(s, 1, Len(s)) = <<s[1]>> \o SubSeq(s, 1 + 1, Len(s)) BY <1>1, SubSeqRecursiveFirst
<1> QED BY <1>1, <1>2, <1>3, TailIsSubSeq, SubSeqFull

\* A sequence cut in two.
LEMMA CutInTwo ==
  ASSUME NEW S, NEW s \in Seq(S), NEW k \in 0 .. Len(s)
  PROVE  /\ SubSeq(s, 1, k) \in Seq(S) /\ SubSeq(s, k + 1, Len(s)) \in Seq(S)
         /\ SubSeq(s, 1, k) \o SubSeq(s, k + 1, Len(s)) = s
         /\ Len(SubSeq(s, 1, k)) = k /\ Len(SubSeq(s, k + 1, Len(s))) = Len(s) - k
         /\ \A i \in 1 .. k : SubSeq(s, 1, k)[i] = s[i]
         /\ \A i \in 1 .. Len(s) - k : SubSeq(s, k + 1, Len(s))[i] = s[k + i]
<1>0. Len(s) \in Nat /\ \A i \in 1 .. Len(s) : s[i] \in S BY LenProperties, ElementOfSeq
<1>1. /\ SubSeq(s, 1, k) \in Seq(S) /\ Len(SubSeq(s, 1, k)) = IF 1 <= k THEN k - 1 + 1 ELSE 0
      /\ \A i \in 1 .. k - 1 + 1 : SubSeq(s, 1, k)[i] = s[1 + i - 1]
  <2>1. \A i \in 1 .. k : s[i] \in S BY <1>0
  <2>2. 1 \in Int /\ k \in Int OBVIOUS
  <2> QED BY <2>1, <2>2, SubSeqProperties, SMT
<1>2. /\ SubSeq(s, k + 1, Len(s)) \in Seq(S)
      /\ Len(SubSeq(s, k + 1, Len(s))) = IF k + 1 <= Len(s) THEN Len(s) - (k + 1) + 1 ELSE 0
      /\ \A i \in 1 .. Len(s) - (k + 1) + 1 : SubSeq(s, k + 1, Len(s))[i] = s[(k + 1) + i - 1]
  <2>1. \A i \in k + 1 .. Len(s) : s[i] \in S BY <1>0
  <2>2. k + 1 \in Int /\ Len(s) \in Int BY <1>0
  <2> QED BY <2>1, <2>2, SubSeqProperties, SMT
<1>3. SubSeq(s, 1, k) \o SubSeq(s, k + 1, Len(s)) = s
  <2>1. SubSeq(s, 1, k) \o SubSeq(s, k + 1, Len(s)) = SubSeq(s, 1, Len(s))
    <3>1. 1 \in 1 .. Len(s) + 1 /\ k \in 1 - 1 .. Len(s) /\ Len(s) \in k .. Len(s) BY <1>0
    <3> QED BY <3>1, ConcatAdjacentSubSeq, Zenon
  <2> QED BY <2>1, SubSeqFull
<1>4. \A i \in 1 .. k : SubSeq(s, 1, k)[i] = s[i]
  <2> TAKE i \in 1 .. k
  <2>1. i \in 1 .. k - 1 + 1 /\ 1 + i - 1 = i OBVIOUS
  <2> QED BY <1>1, <2>1, Zenon
<1>5. \A i \in 1 .. Len(s) - k : SubSeq(s, k + 1, Len(s))[i] = s[k + i]
  <2> TAKE i \in 1 .. Len(s) - k
  <2>1. i \in 1 .. Len(s) - (k + 1) + 1 /\ (k + 1) + i - 1 = k + i BY <1>0
  <2> QED BY <1>2, <2>1, Zenon
<1>6. Len(SubSeq(s, 1, k)) = k BY <1>1
<1>7. Len(SubSeq(s, k + 1, Len(s))) = Len(s) - k BY <1>0, <1>2
<1> QED BY <1>1, <1>2, <1>3, <1>4, <1>5, <1>6, <1>7, Zenon

LEMMA FramesTypeKept ==
  ASSUME FramesType, [Next]_vars
  PROVE  FramesType'
<1>0. Ways' = Ways /\ Assocs' = Assocs BY ConfStays DEF Assocs
<1> USE DEF FramesType
<1>a. ASSUME UNCHANGED upward PROVE FramesType' BY <1>a, <1>0 DEF upward, Record
<1>1. CASE ClientFrame
  <2> DEFINE f == inq[1]
  <2>1. f \in Nat /\ Tail(inq) \in Seq(Nat) BY <1>1, FirstOf DEF ClientFrame
  <2>2. told' = told /\ sock' = sock /\ held' = held BY <1>1 DEF ClientFrame
  <2>w. /\ "direct" \in Ways /\ Outbound(f) \in Assocs /\ Outbound(f).to \in Ways
        /\ [to |-> Way(f), up |-> FALSE] \in Assocs
    <3>1. "direct" \in Ways /\ Outbound(f) \in Assocs /\ [to |-> Way(f), up |-> FALSE] \in Assocs
      BY <2>1, SendingWays
    <3> QED BY <3>1 DEF Assocs
  <2>3. CASE Opens(f) BY <2>2, <2>3, <2>w, <1>0 DEF Opens, Record
  <2>4. ASSUME NEW w \in Ways, inq' = Tail(inq), Sends(f, w), assoc' \in Assocs PROVE FramesType'
    BY <2>1, <2>2, <2>4, <1>0, SendsType DEF Sends, Record
  <2>5. CASE inq' = Tail(inq) /\ LooksUp(f) /\ assoc' = assoc
    BY <2>1, <2>2, <2>5, <1>0, LooksUpType DEF Record
  <2>6. CASE assoc' = Outbound(f) /\ inq' = Tail(inq) /\ Sends(f, assoc'.to) BY <2>4, <2>6, <2>w
  <2>7. CASE inq' = Tail(inq) /\ Sends(f, "direct") /\ assoc' = assoc BY <2>4, <2>7, <2>w
  <2> QED BY <1>1, <2>3, <2>5, <2>6, <2>7 DEF ClientFrame
<1>2. CASE ClientRead
  <2>1. UNCHANGED <<told, held, done, query, assoc>> BY <1>2 DEF ClientRead
  <2>2. CASE sock = <<>> BY <1>2, <2>1, <2>2, <1>0 DEF ClientRead, Record
  <2>3. CASE sock # <<>>
    <3>1. PICK k \in 1 .. Len(sock) :
            inq' = SubSeq(sock, 1, k) /\ sock' = SubSeq(sock, k + 1, Len(sock))
      BY <1>2, <2>3 DEF ClientRead
    <3>2. k \in 0 .. Len(sock) BY <3>1, LenProperties
    <3> QED BY <2>1, <3>1, <3>2, <1>0, CutInTwo DEF Record
  <2> QED BY <2>2, <2>3
<1>3. CASE QueryDone
  <2>1. query[1] \in Nat BY <1>3, FirstOf DEF QueryDone
  <2>2. done' \in Seq(Record) BY <1>3, <2>1, SendsType, SendingWays DEF QueryDone
  <2> QED BY <1>3, <1>0, <2>2 DEF QueryDone, Record
<1>4. CASE S5Frame
  <2> DEFINE f == sock[1]
  <2>1. f \in Nat /\ sock' \in Seq(Nat) BY <1>4, FirstOf DEF S5Frame
  <2>2. told' = told /\ inq' = inq BY <1>4 DEF S5Frame
  <2>w. /\ "direct" \in Ways /\ Outbound(f) \in Assocs /\ Outbound(f).to \in Ways
        /\ [to |-> Way(f), up |-> FALSE] \in Assocs
    <3>1. "direct" \in Ways /\ Outbound(f) \in Assocs /\ [to |-> Way(f), up |-> FALSE] \in Assocs
      BY <2>1, SendingWays
    <3> QED BY <3>1 DEF Assocs
  <2>3. CASE /\ held' = <<f>> /\ query' = query /\ done' = done
             /\ assoc' = [to |-> Way(f), up |-> FALSE]
    BY <2>1, <2>2, <2>3, <2>w, <1>0 DEF Record
  <2>4. ASSUME NEW w \in Ways, held' = held, Sends(f, w), assoc' \in Assocs PROVE FramesType'
    BY <2>1, <2>2, <2>4, <1>0, SendsType DEF Sends, Record
  <2>5. CASE held' = held /\ LooksUp(f) /\ assoc' = assoc
    BY <2>1, <2>2, <2>5, <1>0, LooksUpType DEF Record
  <2>6. CASE assoc' = Outbound(f) /\ Sends(f, assoc'.to) /\ held' = held BY <2>4, <2>6, <2>w
  <2>7. CASE Sends(f, "direct") /\ UNCHANGED <<assoc, held>> BY <2>4, <2>7, <2>w
  <2> QED BY <1>4, <2>3, <2>5, <2>6, <2>7 DEF S5Frame
<1>5. CASE AssociationStands
  <2>1. /\ told' = told /\ sock' = sock /\ inq' = inq /\ query' = query /\ held' = <<>>
        /\ assoc' \in Assocs
    BY <1>5 DEF AssociationStands, Assocs
  <2>2. CASE held # <<>>
    <3>1. held[1] \in Nat BY <2>2, FirstOf
    <3>2. done' \in Seq(Record)
      <4>1. assoc.to \in Ways BY DEF Assocs
      <4> QED BY <1>5, <2>2, <3>1, <4>1, SendsType DEF AssociationStands
    <3> QED BY <1>0, <2>1, <3>2 DEF Record
  <2>3. CASE held = <<>> BY <1>5, <1>0, <2>1, <2>3 DEF AssociationStands, Record
  <2> QED BY <2>2, <2>3
<1>6. CASE Fails BY <1>6, <1>0 DEF Fails, End, Record
<1>7. CASE ClientSays BY <1>7, <1>0 DEF ClientSays, Record
<1>8. CASE \E e \in {"client", "s5in"} \cup Sockets : Posted(e)
  BY <1>8, <1>0 DEF Posted, Called, Record
<1>9. CASE ClientEvent \/ S5Event \/ \E c \in Sockets : SocketEvent(c)
  BY <1>9, <1>0 DEF ClientEvent, S5Event, SocketEvent, Called, Record
<1>10. CASE ClientLimit \/ S5Stops \/ ClientFlush \/ WriteHandler \/ NetFlush \/ NetOther
  BY <1>10, <1>a DEF ClientLimit, S5Stops, ClientFlush, WriteHandler, NetFlush, NetOther
<1>11. CASE NetReceive \/ NetRelay \/ NetEnds \/ Room \/ \E c \in Sockets : Arrives(c)
  BY <1>11, <1>a DEF NetReceive, NetRelay, NetEnds, Room, Arrives
<1>12. CASE UNCHANGED vars BY <1>12, <1>a DEF vars, upward
<1> QED BY <1>1, <1>2, <1>3, <1>4, <1>5, <1>6, <1>7, <1>8, <1>9, <1>10, <1>11, <1>12 DEF Next

----------------------------------------------------------------------------
(* The types of what comes back.                                           *)

\* The parts that a flush sends: of the header and the payload, those from the
\* first that is left.
LEMMA PartsSent ==
  ASSUME NEW a \in Piece, NEW b \in Piece, NEW left \in 0 .. 2, NEW k \in 0 .. left
  PROVE  /\ SubSeq(<<a, b>>, 3 - left, 3 - left + k - 1) \in Seq(Piece)
         /\ Len(SubSeq(<<a, b>>, 3 - left, 3 - left + k - 1)) = k
         /\ \A i \in 1 .. k : SubSeq(<<a, b>>, 3 - left, 3 - left + k - 1)[i] =
                               IF 3 - left + i = 2 THEN a ELSE b
<1> DEFINE from == 3 - left
           s == SubSeq(<<a, b>>, from, from + k - 1)
<1>1. from \in 1 .. 3 /\ from + k - 1 \in 0 .. 2 OBVIOUS
<1>2. \A i \in from .. from + k - 1 : <<a, b>>[i] = (IF i = 1 THEN a ELSE b) OBVIOUS
<1>3. \A i \in from .. from + k - 1 : <<a, b>>[i] \in Piece BY <1>2
<1>4. /\ s \in Seq(Piece) /\ Len(s) = IF from <= from + k - 1 THEN from + k - 1 - from + 1 ELSE 0
      /\ \A i \in 1 .. from + k - 1 - from + 1 : s[i] = <<a, b>>[from + i - 1]
  <2> HIDE DEF from
  <2> QED BY <1>1, <1>3, SubSeqProperties
<1>5. Len(s) = k BY <1>1, <1>4
<1>6. ASSUME NEW i \in 1 .. k PROVE s[i] = IF from + i = 2 THEN a ELSE b
  <2>1. i \in 1 .. from + k - 1 - from + 1 BY <1>1
  <2>2. s[i] = <<a, b>>[from + i - 1] /\ from + i - 1 \in from .. from + k - 1 BY <1>1, <1>4, <2>1
  <2>3. from + i - 1 = 1 <=> from + i = 2 BY <1>1
  <2>4. <<a, b>>[from + i - 1] = IF from + i - 1 = 1 THEN a ELSE b
    <3> HIDE DEF from
    <3> QED BY <1>2, <2>2
  <2> HIDE DEF from, s
  <2> QED BY <2>2, <2>3, <2>4
<1> QED BY <1>4, <1>5, <1>6

\* A flush.
LEMMA FlushSends ==
  ASSUME RepliesType, NEW k \in 0 .. 2, Flush(k)
  PROVE  /\ k <= pend.left /\ (pend.full => k = 0)
         /\ pend' = IF k = pend.left THEN Nothing
                    ELSE [pend EXCEPT !.left = pend.left - k, !.full = TRUE]
         /\ pend' \in Sending
         /\ k = 0 => got' = got
         /\ Trojan =>
              /\ got' \in Seq(Piece) /\ Len(got') = Len(got) + k
              /\ \A i \in 1 .. Len(got) : got'[i] = got[i]
              /\ \A i \in 1 .. k : got'[Len(got) + i] =
                   IF pend.left - i = 1 THEN <<"head", pend.head>> ELSE <<"data", mem[pend.slot]>>
<1> DEFINE a == <<"head", pend.head>>
           b == <<"data", mem[pend.slot]>>
           from == 3 - pend.left
           s == SubSeq(<<a, b>>, from, from + k - 1)
<1>0. Limit \in Nat \ {0} BY ConstantsAssumption
<1>1. pend \in Sending /\ mem \in [1 .. Limit -> Nat] BY DEF RepliesType
<1>2. /\ k \in 0 .. pend.left /\ (pend.full => k = 0) /\ got' = got \o s
      /\ pend' = IF k = pend.left THEN Nothing
                 ELSE [pend EXCEPT !.left = pend.left - k, !.full = TRUE]
  BY DEF Flush
<1>3. a \in Piece /\ b \in Piece /\ pend.left \in 0 .. 2 BY <1>1 DEF Piece, Sending
<1>4. s \in Seq(Piece) /\ Len(s) = k /\ \A i \in 1 .. k : s[i] = IF from + i = 2 THEN a ELSE b
  <2>1. k \in 0 .. pend.left BY <1>2
  <2> HIDE DEF a, b
  <2> QED BY <2>1, <1>3, PartsSent
<1>5. pend' \in Sending
  <2>1. CASE k = pend.left BY <1>0, <1>2, <2>1 DEF Sending, Nothing
  <2>2. CASE k # pend.left
    <3>1. pend.left - k \in 0 .. 2 BY <1>2, <1>3
    <3>2. pend' = [pend EXCEPT !.left = pend.left - k, !.full = TRUE] BY <1>2, <2>2
    <3> QED BY <1>1, <3>1, <3>2 DEF Sending
  <2> QED BY <2>1, <2>2
<1>6. ASSUME k = 0 PROVE got' = got
  <2>1. s = <<>> BY <1>4, <1>6, EmptySeq
  <2>2. CASE Trojan
    <3>1. got \in Seq(Piece) BY <2>2 DEF RepliesType
    <3> QED BY <1>2, <2>1, <3>1, ConcatEmptySeq
  <2>3. CASE ~Trojan
    <3>1. got \in Seq(Nat) BY <2>3 DEF RepliesType
    <3> QED BY <1>2, <2>1, <3>1, ConcatEmptySeq
  <2> QED BY <2>2, <2>3
<1>7. ASSUME Trojan
      PROVE  /\ got' \in Seq(Piece) /\ Len(got') = Len(got) + k
             /\ \A i \in 1 .. Len(got) : got'[i] = got[i]
             /\ \A i \in 1 .. k : got'[Len(got) + i] = IF pend.left - i = 1 THEN a ELSE b
  <2>1. got \in Seq(Piece) /\ Len(got) \in Nat BY <1>7, LenProperties DEF RepliesType
  <2> HIDE DEF s, a, b
  <2>2. /\ got' \in Seq(Piece) /\ Len(got') = Len(got) + k
        /\ \A i \in 1 .. Len(got) + k : got'[i] = IF i <= Len(got) THEN got[i] ELSE s[i - Len(got)]
    BY <1>2, <1>4, <2>1, ConcatProperties
  <2>3. ASSUME NEW i \in 1 .. k PROVE got'[Len(got) + i] = IF pend.left - i = 1 THEN a ELSE b
    <3>1. got'[Len(got) + i] = s[i] BY <2>1, <2>2
    <3>2. from + i = 2 <=> pend.left - i = 1 BY <1>3
    <3> QED BY <3>1, <3>2, <1>4
  <2> QED BY <2>1, <2>2, <2>3
<1>8. k <= pend.left BY <1>2, <1>3
<1> HIDE DEF s, from
<1> QED BY <1>2, <1>5, <1>6, <1>7, <1>8

\* The smaller of two numbers.
LEMMA MinTwo ==
  ASSUME NEW a \in Nat, NEW b \in Nat
  PROVE  Min({a, b}) \in {a, b} /\ Min({a, b}) <= a /\ Min({a, b}) <= b
<1>1. \E x \in {a, b} : \A y \in {a, b} : x <= y
  <2>1. CASE a <= b BY <2>1
  <2>2. CASE b <= a BY <2>2
  <2> QED BY <2>1, <2>2
<1>2. Min({a, b}) \in {a, b} /\ \A y \in {a, b} : Min({a, b}) <= y
  BY <1>1 DEF Min
<1> QED BY <1>2

\* The parts of a local client's message that fit in its socket.
LEMMA GotJoins ==
  ASSUME RepliesType, ~Trojan, NEW k \in 0 .. Len(out), got' = got \o SubSeq(out, 1, k)
  PROVE  /\ got' \in Seq(Nat) /\ Len(got') = Len(got) + k /\ Len(got) \in Nat
         /\ \A i \in 1 .. Len(got) : got'[i] = got[i]
         /\ \A i \in 1 .. k : got'[Len(got) + i] = out[i]
<1>1. got \in Seq(Nat) /\ out \in Seq(Nat) /\ Len(got) \in Nat BY LenProperties DEF RepliesType
<1>2. SubSeq(out, 1, k) \in Seq(Nat) /\ Len(SubSeq(out, 1, k)) = k
      /\ \A i \in 1 .. k : SubSeq(out, 1, k)[i] = out[i]
  BY <1>1, CutInTwo
<1>3. /\ got' \in Seq(Nat) /\ Len(got') = Len(got) + k
      /\ \A i \in 1 .. Len(got) + k : got'[i] =
           IF i <= Len(got) THEN got[i] ELSE SubSeq(out, 1, k)[i - Len(got)]
  <2>1. PICK x \in Seq(Nat) : x = SubSeq(out, 1, k) /\ Len(x) = k BY <1>2, Zenon
  <2>2. /\ got \o x \in Seq(Nat) /\ Len(got \o x) = Len(got) + Len(x)
        /\ \A i \in 1 .. Len(got) + Len(x) : (got \o x)[i] =
             IF i <= Len(got) THEN got[i] ELSE x[i - Len(got)]
    BY <1>1, ConcatProperties, Zenon
  <2>3. got' = got \o x BY <2>1, Zenon
  <2> QED BY <2>1, <2>2, <2>3, Zenon
<1>4. ASSUME NEW i \in 1 .. k PROVE got'[Len(got) + i] = out[i]
  <2>1. got'[Len(got) + i] = SubSeq(out, 1, k)[i] BY <1>1, <1>3
  <2> QED BY <2>1, <1>2
<1>5. \A i \in 1 .. Len(got) : got'[i] = got[i]
  <2> TAKE i \in 1 .. Len(got)
  <2>1. i \in 1 .. Len(got) + k /\ i <= Len(got) BY <1>1
  <2> QED BY <1>3, <2>1, Zenon
<1> QED BY <1>1, <1>3, <1>4, <1>5, Zenon

\* Finitely many numbers are bounded, and then the largest is one of them.
LEMMA Bounded ==
  ASSUME NEW m \in Nat, NEW s \in [1 .. m -> Nat]
  PROVE  \E b \in Nat : \A i \in 1 .. m : s[i] <= b
<1> DEFINE Good == {l \in Nat : \A t \in [1 .. l -> Nat] : \E b \in Nat : \A i \in 1 .. l : t[i] <= b}
<1>1. 0 \in Good OBVIOUS
<1>2. ASSUME NEW l \in Nat, l \in Good PROVE l + 1 \in Good
  <2>1. ASSUME NEW t \in [1 .. l + 1 -> Nat]
        PROVE  \E b \in Nat : \A i \in 1 .. l + 1 : t[i] <= b
    <3> DEFINE u == [i \in 1 .. l |-> t[i]]
    <3>1. u \in [1 .. l -> Nat] OBVIOUS
    <3>2. PICK b \in Nat : \A i \in 1 .. l : u[i] <= b BY <1>2, <3>1
    <3>3. t[l + 1] \in Nat OBVIOUS
    <3> DEFINE c == b + t[l + 1]
    <3>4. c \in Nat BY <3>3
    <3>5. ASSUME NEW i \in 1 .. l + 1 PROVE t[i] <= c
      <4>1. CASE i = l + 1 BY <3>3, <4>1
      <4>2. CASE i \in 1 .. l
        <5>1. u[i] = t[i] /\ u[i] <= b /\ t[i] \in Nat BY <3>2, <4>2
        <5> QED BY <3>3, <5>1
      <4> QED BY <4>1, <4>2
    <3> QED BY <3>4, <3>5
  <2>2. l + 1 \in Nat OBVIOUS
  <2> QED BY <2>1, <2>2, Zenon
<1>3. Nat \subseteq Good
  <2> HIDE DEF Good
  <2> QED BY <1>1, <1>2, SetInduction
<1> QED BY <1>3

\* The largest of a bounded set of numbers.
LEMMA MaxOf ==
  ASSUME NEW S \in SUBSET Nat, S # {}, NEW b \in Nat, \A y \in S : y <= b
  PROVE  Max(S) \in S /\ \A y \in S : y <= Max(S)
<1> DEFINE U == {u \in Nat : \A y \in S : y <= u}
<1>1. PICK u \in U : \A v \in U : u <= v
  <2>1. U \in SUBSET Nat /\ U # {} OBVIOUS
  <2> HIDE DEF U
  <2> QED BY <2>1, LeastNumber
<1>2. u \in S
  <2>1. SUFFICES ASSUME u \notin S PROVE FALSE OBVIOUS
  <2>2. \A y \in S : y < u BY <1>1, <2>1
  <2>3. PICK y \in S : TRUE OBVIOUS
  <2>4. u - 1 \in Nat BY <1>1, <2>2, <2>3
  <2>5. \A z \in S : z <= u - 1 BY <1>1, <2>2
  <2>6. u - 1 \in U BY <2>4, <2>5
  <2> QED BY <1>1, <2>6
<1>3. \E x \in S : \A y \in S : x >= y BY <1>1, <1>2
<1>4. Max(S) \in S /\ \A y \in S : Max(S) >= y BY <1>3 DEF Max
<1> QED BY <1>4

\* A new reply has a number that none in the sockets, the slots and with the
\* client has.
LEMMA RepliesBound ==
  ASSUME RepliesType
  PROVE  /\ Replies \in Nat
         /\ \A i \in 1 .. Limit : mem[i] <= Replies
         /\ \A c \in Sockets : \A i \in 1 .. Len(net[c]) : net[c][i] <= Replies
         /\ \A i \in 1 .. Len(got) : IF Trojan THEN got[i][2] <= Replies ELSE got[i] <= Replies
<1> DEFINE M == {mem[i] : i \in 1 .. Limit}
           N == UNION {ToSet(net[c]) : c \in Sockets}
           G == {IF Trojan THEN g[2] ELSE g : g \in ToSet(got)}
           S == M \cup N \cup G \cup {0}
           num == [i \in 1 .. Len(got) |-> IF Trojan THEN got[i][2] ELSE got[i]]
<1>0. /\ Limit \in Nat /\ mem \in [1 .. Limit -> Nat]
      /\ \A c \in Sockets : net[c] \in Seq(Nat)
  BY ConstantsAssumption DEF RepliesType
<1>1. Replies = Max(S) BY DEF Replies
<1>2. \A c \in Sockets : /\ Len(net[c]) \in Nat /\ net[c] \in [1 .. Len(net[c]) -> Nat]
                         /\ DOMAIN net[c] = 1 .. Len(net[c])
  BY <1>0, LenProperties
<1>3. Len(got) \in Nat /\ DOMAIN got = 1 .. Len(got) /\ num \in [1 .. Len(got) -> Nat]
  <2>1. CASE Trojan
    <3>1. got \in Seq(Piece) BY <2>1 DEF RepliesType
    <3>2. Len(got) \in Nat /\ DOMAIN got = 1 .. Len(got) /\ got \in [1 .. Len(got) -> Piece]
      BY <3>1, LenProperties
    <3>3. \A i \in 1 .. Len(got) : got[i][2] \in Nat BY <3>2 DEF Piece
    <3> QED BY <2>1, <3>2, <3>3
  <2>2. CASE ~Trojan
    <3>1. got \in Seq(Nat) BY <2>2 DEF RepliesType
    <3>2. Len(got) \in Nat /\ DOMAIN got = 1 .. Len(got) /\ got \in [1 .. Len(got) -> Nat]
      BY <3>1, LenProperties
    <3> QED BY <2>2, <3>2
  <2> QED BY <2>1, <2>2
<1>4. PICK b1 \in Nat : \A i \in 1 .. Limit : mem[i] <= b1 BY <1>0, Bounded
<1>5. PICK b2 \in Nat : \A i \in 1 .. Len(net["direct"]) : net["direct"][i] <= b2
  BY <1>2, Bounded DEF Sockets
<1>6. PICK b3 \in Nat : \A i \in 1 .. Len(net["relay"]) : net["relay"][i] <= b3
  BY <1>2, Bounded DEF Sockets
<1>7. PICK b4 \in Nat : \A i \in 1 .. Len(got) : num[i] <= b4
  <2> HIDE DEF num
  <2> QED BY <1>3, Bounded
<1>m. M \in SUBSET Nat /\ \A y \in M : y <= b1 BY <1>0, <1>4
<1>n. N \in SUBSET Nat /\ \A y \in N : y <= b2 + b3
  <2>1. ASSUME NEW y \in N PROVE y \in Nat /\ y <= b2 + b3
    <3>1. PICK c \in Sockets : y \in ToSet(net[c]) OBVIOUS
    <3>2. PICK i \in 1 .. Len(net[c]) : y = net[c][i] BY <1>2, <3>1 DEF ToSet
    <3>3. y \in Nat BY <1>2, <3>2
    <3>4. y <= b2 \/ y <= b3 BY <1>5, <1>6, <3>1, <3>2 DEF Sockets
    <3> QED BY <3>3, <3>4
  <2> HIDE DEF N
  <2> QED BY <2>1
<1>g. G = {num[i] : i \in 1 .. Len(got)} BY <1>3 DEF ToSet
<1>h. G \in SUBSET Nat /\ \A y \in G : y <= b4
  <2> HIDE DEF num, G
  <2> QED BY <1>3, <1>7, <1>g
<1>s. S \in SUBSET Nat /\ S # {} /\ \A y \in S : y <= b1 + (b2 + b3) + b4
  <2>1. S # {} OBVIOUS
  <2> HIDE DEF M, N, G
  <2>2. \A y \in S : y \in Nat /\ y <= b1 + (b2 + b3) + b4 BY <1>m, <1>n, <1>h
  <2> HIDE DEF S
  <2> QED BY <2>1, <2>2
<1>8. Max(S) \in S /\ \A y \in S : y <= Max(S)
  <2> HIDE DEF S
  <2>1. b1 + (b2 + b3) + b4 \in Nat OBVIOUS
  <2> QED BY <1>s, <2>1, MaxOf
<1>9. \A i \in 1 .. Limit : mem[i] \in S OBVIOUS
<1>10. \A c \in Sockets : \A i \in 1 .. Len(net[c]) : net[c][i] \in S BY <1>2 DEF ToSet
<1>11. \A i \in 1 .. Len(got) : num[i] \in S
  <2> HIDE DEF num, G, M, N
  <2> QED BY <1>g
<1>12. ASSUME NEW i \in 1 .. Len(got)
       PROVE  IF Trojan THEN got[i][2] <= Replies ELSE got[i] <= Replies
  <2>1. num[i] = IF Trojan THEN got[i][2] ELSE got[i] OBVIOUS
  <2> HIDE DEF num, S
  <2> QED BY <1>1, <1>8, <1>11, <2>1
<1>13. Replies \in Nat
  <2> HIDE DEF S
  <2> QED BY <1>1, <1>8, <1>s
<1> HIDE DEF S
<1> QED BY <1>1, <1>8, <1>9, <1>10, <1>12, <1>13

LEMMA RepliesTypeKept ==
  ASSUME RepliesType, StateType, [Next]_vars
  PROVE  RepliesType'
<1>0. /\ (Trojan' <=> Trojan) /\ Limit \in Nat \ {0}
  BY ConfStays, ConstantsAssumption
<1>a. ASSUME n' \in 0 .. Limit, uc' \in Sockets, UNCHANGED downward PROVE RepliesType'
  BY <1>a, <1>0 DEF downward, RepliesType, Batch, Sending, Piece
<1>b. /\ n \in 0 .. Limit /\ uc \in Sockets /\ net \in [Sockets -> Seq(Nat)] /\ batch \in Batch
      /\ mem \in [1 .. Limit -> Nat] /\ pend \in Sending /\ out \in Seq(Nat)
      /\ NoBatch \in Batch
  BY <1>0 DEF RepliesType, NoBatch, Batch
\* An association that is closed takes its datagrams along.
<1>c. ASSUME NEW f, Reset(f), n' \in 0 .. Limit, uc' = uc PROVE RepliesType'
  <2>1. net' \in [Sockets -> Seq(Nat)] BY <1>b, <1>c DEF Reset, Sockets
  <2>2. batch' \in Batch BY <1>b, <1>c DEF Reset
  <2> QED BY <1>0, <1>b, <1>c, <2>1, <2>2 DEF Reset, RepliesType, Batch, Sending
\* A flush.
<1>d. ASSUME NEW k \in 0 .. 2, Flush(k), UNCHANGED <<n, uc, net, batch, mem, out>>
      PROVE RepliesType'
  <2>1. pend' \in Sending /\ k <= pend.left /\ (k = pend.left => pend' = Nothing)
        /\ (k = 0 => got' = got) /\ (Trojan => got' \in Seq(Piece))
    BY <1>d, FlushSends
  <2>2. ASSUME ~Trojan PROVE got' \in Seq(Nat) /\ pend'.left = 0
    <3>1. got \in Seq(Nat) /\ pend.left = 0 BY <2>2 DEF RepliesType
    <3> QED BY <3>1, <2>1 DEF Nothing
  <2> QED BY <1>0, <1>b, <1>d, <2>1, <2>2 DEF RepliesType, Batch, Sending, Piece
<1>1. CASE ClientFrame
  <2>1. n' \in 0 .. Limit /\ uc' = uc
    BY <1>1, <1>0, <1>b DEF ClientFrame, Opens, Sends, Rest
  <2> QED BY <1>1, <1>c, <2>1 DEF ClientFrame
<1>2. CASE ClientRead
  <2>1. UNCHANGED <<n, uc>> BY <1>2 DEF ClientRead, Rest
  <2> QED BY <1>2, <1>a, <1>b, <2>1 DEF ClientRead
<1>3. CASE S5Frame
  <2>1. n' \in 0 .. Limit /\ uc' = uc
    BY <1>3, <1>0, <1>b DEF S5Frame, Sends, Rest
  <2> QED BY <1>3, <1>c, <2>1 DEF S5Frame
<1>4. CASE ClientFlush BY <1>4, <1>d DEF ClientFlush
<1>5. CASE WriteHandler BY <1>5, <1>d DEF WriteHandler
<1>6. CASE NetFlush BY <1>6, <1>d DEF NetFlush, Flushes
<1>7. CASE NetReceive
  <2> DEFINE k == Min({Len(net[uc]), Limit - n})
  <2>1. net[uc] \in Seq(Nat) /\ Len(net[uc]) \in Nat /\ Limit - n \in Nat
    BY <1>0, <1>b, LenProperties
  <2>2. k \in 0 .. Len(net[uc]) /\ k \in 0 .. Limit
    <3>1. k \in {Len(net[uc]), Limit - n} /\ k <= Len(net[uc]) /\ k <= Limit - n BY <2>1, MinTwo
    <3> HIDE DEF k
    <3> QED BY <1>0, <1>b, <2>1, <3>1
  <2> HIDE DEF k
  <2>3. \A i \in 1 .. k : net[uc][i] \in Nat BY <2>1, <2>2, ElementOfSeq
  <2>4. mem' \in [1 .. Limit -> Nat] 
    <3>1. mem' = [i \in 1 .. Limit |-> IF i <= k THEN net[uc][i] ELSE mem[i]]
      BY <1>7 DEF NetReceive, k
    <3> QED BY <1>b, <2>2, <2>3, <3>1
  <2>5. net' \in [Sockets -> Seq(Nat)]
    <3>1. SubSeq(net[uc], k + 1, Len(net[uc])) \in Seq(Nat) BY <2>1, <2>2, CutInTwo
    <3>2. net' = [net EXCEPT ![uc] = SubSeq(net[uc], k + 1, Len(net[uc]))]
      BY <1>7, <1>b DEF NetReceive, k
    <3> QED BY <1>b, <3>1, <3>2
  <2>6. batch' \in Batch
    <3>1. batch' = [of |-> uc, count |-> k, pos |-> 0, full |-> k = Limit - n]
      BY <1>7 DEF NetReceive, k
    <3>2. uc # "none" BY <1>b DEF Sockets
    <3> QED BY <3>1, <3>2, <2>2, <1>0, <1>b DEF Batch
  <2>7. UNCHANGED <<n, uc, pend, out, got>> BY <1>7 DEF NetReceive
  <2> QED BY <1>0, <1>b, <2>4, <2>5, <2>6, <2>7 DEF RepliesType, Batch, Sending, Piece
<1>8. CASE NetRelay
  <2>0. batch.pos + 1 \in 1 .. Limit BY <1>8, <1>0, <1>b DEF NetRelay, Batch
  <2>1. PICK at \in 1 .. Limit : at = batch.pos + 1 BY <2>0
  <2>d. at \in 0 .. Limit /\ mem[at] \in Nat BY <1>0, <1>b, <2>1
  <2>a. batch' = [batch EXCEPT !.pos = at] BY <1>8, <2>1 DEF NetRelay
  <2>2. batch' \in Batch BY <1>b, <2>a, <2>d DEF Batch
  <2>3. n' \in 0 .. Limit BY <1>8, <1>0, <1>b DEF NetRelay
  <2>4. CASE Trojan
    <3>0. pend' = [head |-> mem[at], slot |-> at, left |-> 2, full |-> FALSE] /\ out' = out
      BY <1>8, <2>1, <2>4 DEF NetRelay
    <3>1. pend' \in Sending /\ out' = out BY <3>0, <2>1, <2>d DEF Sending
    <3> QED BY <1>0, <1>8, <1>b, <2>2, <2>3, <2>4, <3>1
        DEF NetRelay, RepliesType, Batch, Sending, Piece
  <2>5. CASE ~Trojan
    <3>0. out' = Append(out, mem[at]) /\ pend' = pend BY <1>8, <2>1, <2>5 DEF NetRelay
    <3>1. out' \in Seq(Nat) /\ pend' = pend BY <3>0, <1>b, <2>d
    <3> QED BY <1>0, <1>8, <1>b, <2>2, <2>3, <2>5, <3>1 DEF NetRelay, RepliesType, Batch, Sending
  <2> QED BY <2>4, <2>5
<1>9. CASE NetEnds
  <2>0. out' = <<>> /\ UNCHANGED <<n, uc, net, mem, pend>> BY <1>9 DEF NetEnds, Rest
  <2>1. PICK k \in 0 .. Len(out) : got' = got \o SubSeq(out, 1, k) BY <1>9 DEF NetEnds
  <2>2. batch' \in Batch BY <1>9, <1>b DEF NetEnds
  <2>3. CASE Trojan
    <3>1. got \in Seq(Piece) /\ out = <<>> BY <2>3 DEF RepliesType
    <3>2. k = 0 BY <3>1, <2>1
    <3>3. SubSeq(out, 1, k) = <<>> BY <3>2, SubSeqEmpty
    <3>4. got' = got BY <2>1, <3>1, <3>3, ConcatEmptySeq
    <3> QED BY <1>0, <1>b, <2>0, <2>2, <2>3, <3>1, <3>4
        DEF RepliesType, Batch, Sending, Piece
  <2>4. CASE ~Trojan
    <3>1. got' \in Seq(Nat) BY <2>1, <2>4, GotJoins
    <3>2. pend.left = 0 /\ <<>> \in Seq(Nat) BY <2>4 DEF RepliesType
    <3> QED BY <1>0, <1>b, <2>0, <2>2, <2>4, <3>1, <3>2 DEF RepliesType, Batch, Sending
  <2> QED BY <2>3, <2>4
<1>10. CASE Room
  <2>1. pend' \in Sending /\ Trojan /\ UNCHANGED <<n, uc, net, batch, mem, out, got>>
    BY <1>10, <1>b DEF Room, Sending
  <2> QED BY <1>0, <1>b, <2>1 DEF RepliesType, Batch, Sending, Piece
<1>11. ASSUME NEW c \in Sockets, Arrives(c) PROVE RepliesType'
  <2>1. net[c] \in Seq(Nat) /\ UNCHANGED <<n, uc, batch, mem, pend, out, got>>
    BY <1>11, <1>b DEF Arrives
  <2>2. Replies \in Nat BY RepliesBound
  <2>3. net' = [net EXCEPT ![c] = Append(net[c], Replies + 1)] BY <1>11 DEF Arrives
  <2>4. net' \in [Sockets -> Seq(Nat)] BY <1>b, <2>1, <2>2, <2>3, AppendProperties
  <2> QED BY <1>0, <1>b, <2>1, <2>4 DEF RepliesType, Batch, Sending, Piece
<1>12. CASE ClientLimit \/ QueryDone \/ S5Stops \/ Fails \/ NetOther \/ ClientSays
  <2>1. UNCHANGED <<n, uc, downward>>
    BY <1>12 DEF ClientLimit, QueryDone, S5Stops, Fails, End, NetOther, ClientSays, Rest
  <2> QED BY <1>a, <1>b, <2>1
<1>13. CASE AssociationStands
  <2>1. n' = 0 /\ UNCHANGED <<uc, downward>> BY <1>13 DEF AssociationStands
  <2> QED BY <1>a, <1>0, <1>b, <2>1
<1>14. CASE \/ \E e \in {"client", "s5in"} \cup Sockets : Posted(e)
            \/ ClientEvent \/ S5Event \/ \E c \in Sockets : SocketEvent(c)
  <2>1. n' = 0 /\ uc' \in Sockets /\ UNCHANGED downward
    BY <1>14, <1>b DEF Posted, ClientEvent, S5Event, SocketEvent, Called, Sockets
  <2> QED BY <1>a, <1>0, <2>1
<1>15. CASE UNCHANGED vars BY <1>15, <1>a, <1>b DEF vars, downward
<1> QED BY <1>1, <1>2, <1>3, <1>4, <1>5, <1>6, <1>7, <1>8, <1>9, <1>10, <1>11, <1>12, <1>13,
           <1>14, <1>15 DEF Next

----------------------------------------------------------------------------
(* Who runs, and which frame waits for what: one frame at most waits for   *)
(* its lookup or for its association, and then no other one is taken.      *)

Orders ==
  /\ query # <<>> => state = "resolving"
  /\ held # <<>> => state \in {"socks5_udp", "ended"} /\ ~assoc.up /\ ~Trojan
  /\ Len(query) <= 1 /\ Len(held) <= 1
  /\ ~Trojan => inq = <<>> /\ pc \notin {"client", "flush"} /\ "client" \notin posted /\ ev = {}
  /\ Trojan => pc # "s5in" /\ "s5in" \notin posted
  /\ pc \in {"client", "flush"} => state = "udp"
  /\ state = "ended" => pc = "wait" /\ posted = {} /\ ev = {}

LEMMA OrdersKept ==
  ASSUME FramesType, RepliesType, StateType, Orders, [Next]_vars
  PROVE  StateType' /\ Orders'
<1>0. (Trojan' <=> Trojan) BY ConfStays
<1>b. batch \in Batch /\ uc \in Sockets BY DEF RepliesType
<1>q. \A f : Len(<<f>>) = 1 /\ Len(<<>>) = 0 /\ <<f>> # <<>> OBVIOUS
<1>f. pc \in {"client", "flush"} => query = <<>> /\ held = <<>> BY DEF Orders
<1> USE DEF StateType, Orders, Sockets
<1>1. CASE ClientFrame
  <2> DEFINE f == inq[1]
  <2>1. /\ pc = "client" /\ state = "udp" /\ query = <<>> /\ held' = <<>> /\ Trojan /\ ev' = ev
        /\ posted' \subseteq posted
    BY <1>1, <1>f DEF ClientFrame, Unposted
  <2>2. CASE Opens(f) BY <2>1, <2>2, <1>0, <1>q DEF Opens, Rest
  <2>3. ASSUME NEW w, Sends(f, w) PROVE StateType' /\ Orders' BY <2>1, <2>3, <1>0, <1>q DEF Sends
  <2>4. CASE LooksUp(f) /\ Rest
    <3>1. state' = "resolving" /\ pc' = "wait" /\ (query' = <<f>> \/ query' = <<>>)
      BY <2>1, <2>4 DEF LooksUp, Rest
    <3>3. CASE query' = <<f>> BY <2>1, <3>1, <3>3, <1>0, <1>q
    <3>4. CASE query' = <<>> BY <2>1, <3>1, <3>4, <1>0, <1>q
    <3> QED BY <3>1, <3>3, <3>4
  <2> QED BY <1>1, <2>2, <2>3, <2>4 DEF ClientFrame
<1>2. CASE ClientRead BY <1>2, <1>0, <1>f DEF ClientRead, Rest
<1>3. CASE ClientLimit BY <1>3, <1>0, <1>f DEF ClientLimit, Rest, upward
<1>4. CASE ClientFlush BY <1>4, <1>0, <1>f DEF ClientFlush, upward
<1>5. CASE QueryDone
  <2>1. /\ query' = <<>> /\ state' = "udp" /\ pc = "wait" /\ pc' = "wait" /\ held = <<>>
        /\ UNCHANGED <<inq, held, assoc, ev>> /\ posted' = Resumed
    <3>1. query # <<>> /\ state = "resolving" BY <1>5 DEF QueryDone
    <3>2. held = <<>> BY <3>1
    <3> QED BY <1>5, <3>2 DEF QueryDone
  <2>2. /\ posted' \subseteq {"client", "s5in"} \cup Sockets
        /\ ~Trojan => "client" \notin posted'
        /\ Trojan => "s5in" \notin posted'
    <3>1. CASE Trojan BY <2>1, <3>1 DEF Resumed
    <3>2. CASE ~Trojan BY <2>1, <3>2 DEF Resumed
    <3> QED BY <3>1, <3>2
  <2> QED BY <2>1, <2>2, <1>0, <1>q
<1>6. CASE AssociationStands BY <1>6, <1>0, <1>q DEF AssociationStands, Resumed
<1>7. CASE S5Stops BY <1>7, <1>0 DEF S5Stops, Rest, upward
<1>8. CASE S5Frame
  <2> DEFINE f == sock[1]
  <2>1. /\ pc = "s5in" /\ state # "ended" /\ query = <<>> /\ ~Trojan /\ held = <<>>
        /\ inq' = <<>> /\ ev' = ev /\ posted' \subseteq posted
    BY <1>8 DEF S5Frame, Blocked, Unposted
  <2>2. CASE /\ held' = <<f>> /\ state' = "socks5_udp" /\ assoc' = [to |-> Way(f), up |-> FALSE]
             /\ Rest /\ query' = query
    BY <2>1, <2>2, <1>0, <1>q DEF Rest
  <2>3. ASSUME NEW w, Sends(f, w), held' = held PROVE StateType' /\ Orders'
    BY <2>1, <2>3, <1>0, <1>q DEF Sends
  <2>4. CASE LooksUp(f) /\ Rest /\ held' = held
    <3>1. state' = "resolving" /\ pc' = "wait" /\ (query' = <<f>> \/ query' = <<>>)
      BY <2>1, <2>4 DEF LooksUp, Rest
    <3>3. CASE query' = <<f>> BY <2>1, <2>4, <3>1, <3>3, <1>0, <1>q
    <3>4. CASE query' = <<>> BY <2>1, <2>4, <3>1, <3>4, <1>0, <1>q
    <3> QED BY <3>1, <3>3, <3>4
  <2> QED BY <1>8, <2>2, <2>3, <2>4 DEF S5Frame
<1>9. CASE Fails BY <1>9, <1>0, <1>q DEF Fails, End
<1>10. CASE WriteHandler
  <2>1. /\ Trojan /\ ev' \subseteq ev /\ UNCHANGED <<state, pc, query, held, assoc, inq>>
        /\ pc = "wait" /\ state # "ended"
    BY <1>10 DEF WriteHandler, upward
  <2>2. posted' \subseteq posted \cup Sockets
    BY <1>10, <1>b DEF WriteHandler, Again, Batch
  <2> QED BY <2>1, <2>2, <1>0
<1>11. CASE NetFlush \/ NetOther \/ NetReceive \/ NetRelay \/ NetEnds
  <2>1. /\ pc \in {"net", "netflush"} /\ pc' \in {"wait", "net", "netflush"}
        /\ UNCHANGED <<state, query, held, assoc, inq, ev>>
    BY <1>11 DEF NetFlush, Flushes, NetOther, NetReceive, NetRelay, NetEnds, Rest, upward
  <2>2. posted' \subseteq posted \cup Sockets
    <3>1. CASE NetFlush \/ NetReceive \/ NetRelay
      BY <3>1 DEF NetFlush, NetReceive, NetRelay
    <3>2. CASE NetOther BY <3>2, <1>b DEF NetOther, Batch
    <3>3. CASE NetEnds BY <3>3, <1>b DEF NetEnds
    <3> QED BY <1>11, <3>1, <3>2, <3>3
  <2> QED BY <2>1, <2>2, <1>0
<1>12. ASSUME NEW e \in {"client", "s5in"} \cup Sockets, Posted(e)
       PROVE  StateType' /\ Orders'
  <2>1. /\ e \in posted /\ posted' = posted \ {e} /\ pc = "wait" /\ pc' = Enter(e)
        /\ UNCHANGED <<state, query, held, assoc, inq, ev>> /\ state # "ended"
    BY <1>12 DEF Posted, Called
  <2>2. CASE e = "client" BY <2>1, <2>2, <1>0 DEF Enter
  <2>3. CASE e = "s5in" BY <2>1, <2>3, <1>0 DEF Enter
  <2>4. CASE e \in Sockets BY <2>1, <2>4, <1>0 DEF Enter
  <2> QED BY <2>2, <2>3, <2>4
<1>13. CASE ClientEvent \/ S5Event \/ \E c \in Sockets : SocketEvent(c)
  BY <1>13, <1>0 DEF ClientEvent, S5Event, SocketEvent, Called, Enter
<1>14. CASE ClientSays \/ Room \/ \E c \in Sockets : Arrives(c)
  BY <1>14, <1>0 DEF ClientSays, Room, Arrives, upward
<1>15. CASE UNCHANGED vars BY <1>15, <1>0 DEF vars
<1> QED BY <1>1, <1>2, <1>3, <1>4, <1>5, <1>6, <1>7, <1>8, <1>9, <1>10, <1>11, <1>12, <1>13,
           <1>14, <1>15 DEF Next

\* The types and the turns, for the rest of the proofs.
Sorted == FramesType /\ RepliesType /\ StateType /\ Orders

LEMMA SortedAlways == Spec => []Sorted
<1>1. Init => Sorted
  <2>0. Limit \in Nat \ {0} BY ConstantsAssumption
  <2> SUFFICES ASSUME Init PROVE Sorted OBVIOUS
  <2> USE DEF Init
  <2>1. FramesType BY DEF FramesType, Assocs, Ways, NoAssoc
  <2>2. RepliesType
    <3>1. NoBatch \in Batch /\ Nothing \in Sending BY <2>0 DEF NoBatch, Batch, Nothing, Sending
    <3>2. n \in 0 .. Limit /\ mem \in [1 .. Limit -> Nat] BY <2>0
    <3>3. net \in [Sockets -> Seq(Nat)] /\ uc \in Sockets BY DEF Sockets
    <3>4. got \in Seq(Piece) /\ got \in Seq(Nat) /\ out \in Seq(Nat) OBVIOUS
    <3>5. pend.left = 0 BY DEF Nothing
    <3> QED BY <3>1, <3>2, <3>3, <3>4, <3>5 DEF RepliesType
  <2>3. StateType /\ Orders BY DEF StateType, Orders, Sockets
  <2> QED BY <2>1, <2>2, <2>3 DEF Sorted
<1>2. Sorted /\ [Next]_vars => Sorted'
  BY FramesTypeKept, RepliesTypeKept, OrdersKept DEF Sorted
<1> QED BY <1>1, <1>2, PTL DEF Spec

----------------------------------------------------------------------------
(* Every frame is accounted for.                                           *)

\* Numbers as a list, and one more record.
LEMMA NumbersType ==
  ASSUME FramesType
  PROVE  Numbers(done) \in Seq(Nat) /\ Len(Numbers(done)) = Len(done)
<1>1. Len(done) \in Nat /\ \A i \in 1 .. Len(done) : done[i] \in Record
  BY LenProperties, ElementOfSeq DEF FramesType
<1>2. \A i \in 1 .. Len(done) : done[i].frame \in Nat BY <1>1 DEF Record
<1> QED BY <1>1, <1>2 DEF Numbers

LEMMA NumbersNext ==
  ASSUME FramesType, NEW f \in Nat, NEW w \in Ways, NEW how \in {"sent", "full", "busy"},
         done' = Append(done, [frame |-> f, way |-> w, how |-> how])
  PROVE  Numbers(done') = Numbers(done) \o <<f>>
<1> DEFINE r == [frame |-> f, way |-> w, how |-> how]
<1>1. r \in Record BY DEF Record
<1>2. done \in Seq(Record) /\ Len(done) \in Nat BY LenProperties DEF FramesType
<1>3. /\ Len(done') = Len(done) + 1 /\ done'[Len(done) + 1] = r
      /\ \A i \in 1 .. Len(done) : done'[i] = done[i]
  <2>1. done' = Append(done, r) OBVIOUS
  <2> HIDE DEF r
  <2> QED BY <1>1, <1>2, <2>1, AppendProperties
<1>4. Numbers(done) \in Seq(Nat) /\ Len(Numbers(done)) = Len(done) BY NumbersType
<1>5. /\ Numbers(done) \o <<f>> \in Seq(Nat) /\ Len(Numbers(done) \o <<f>>) = Len(done) + 1
      /\ \A i \in 1 .. Len(done) + 1 : (Numbers(done) \o <<f>>)[i] =
           IF i <= Len(done) THEN Numbers(done)[i] ELSE <<f>>[i - Len(done)]
  <2>1. <<f>> \in Seq(Nat) /\ Len(<<f>>) = 1 OBVIOUS
  <2>2. PICK x \in Seq(Nat), y \in Seq(Nat) :
          x = Numbers(done) /\ y = <<f>> /\ Len(x) = Len(done) /\ Len(y) = 1
    BY <1>4, <2>1, Zenon
  <2>3. /\ x \o y \in Seq(Nat) /\ Len(x \o y) = Len(x) + Len(y)
        /\ \A i \in 1 .. Len(x) + Len(y) : (x \o y)[i] =
             IF i <= Len(x) THEN x[i] ELSE y[i - Len(x)]
    BY ConcatProperties
  <2> QED BY <2>2, <2>3, Zenon
<1>6. \A i \in 1 .. Len(done) + 1 : done'[i].frame \in Nat
  <2>0. done'[Len(done) + 1].frame \in Nat BY <1>3
  <2>1. \A i \in 1 .. Len(done) : done[i].frame \in Nat
    <3>1. \A i \in 1 .. Len(done) : done[i] \in Record BY <1>2, ElementOfSeq
    <3> QED BY <3>1 DEF Record
  <2> HIDE DEF r
  <2> QED BY <1>2, <1>3, <2>0, <2>1
<1>7. Numbers(done') \in Seq(Nat) /\ Len(Numbers(done')) = Len(done) + 1
      /\ \A i \in 1 .. Len(done) + 1 : Numbers(done')[i] = done'[i].frame
  BY <1>2, <1>3, <1>6 DEF Numbers
<1>8. ASSUME NEW i \in 1 .. Len(done) + 1 PROVE Numbers(done')[i] = (Numbers(done) \o <<f>>)[i]
  <2>0. i = Len(done) + 1 \/ i \in 1 .. Len(done) BY <1>2
  <2>1. CASE i = Len(done) + 1
    <3>0. ~(i <= Len(done)) /\ i - Len(done) = 1 BY <1>2, <2>1
    <3>1. (Numbers(done) \o <<f>>)[i] = <<f>>[1] BY <1>5, <3>0, Zenon
    <3>2. <<f>>[1] = f OBVIOUS
    <3>3. Numbers(done')[i] = r.frame BY <1>3, <1>7, <2>1
    <3> QED BY <3>1, <3>2, <3>3
  <2>2. CASE i \in 1 .. Len(done)
    <3>1. (Numbers(done) \o <<f>>)[i] = Numbers(done)[i] BY <1>2, <1>5, <2>2
    <3>2. Numbers(done)[i] = done[i].frame BY <2>2 DEF Numbers
    <3>3. Numbers(done')[i] = done[i].frame
      <4> HIDE DEF r
      <4> QED BY <1>3, <1>7, <2>2
    <3> QED BY <3>1, <3>2, <3>3
  <2> QED BY <2>0, <2>1, <2>2
<1> QED BY <1>5, <1>7, <1>8, SeqEqual

\* Lists of numbers under concatenation.
Lists == Seq(Nat)

\* Three sequences may be joined from either end.
Regroups(x, y, z) == (x \o y) \o z = x \o (y \o z)

LEMMA AnyJoins ==
  ASSUME NEW S, NEW x \in Seq(S), NEW y \in Seq(S), NEW z \in Seq(S)
  PROVE  Regroups(x, y, z)
BY ConcatAssociative DEF Regroups

LEMMA ListJoins ==
  ASSUME NEW x \in Lists, NEW y \in Lists, NEW z \in Lists
  PROVE  Regroups(x, y, z)
BY AnyJoins, Zenon DEF Lists

LEMMA ListFacts ==
  /\ <<>> \in Lists /\ \A f \in Nat : <<f>> \in Lists
  /\ \A x, y \in Lists : x \o y \in Lists
  /\ \A x, y, z \in Lists : (x \o y) \o z = x \o (y \o z)
  /\ \A x \in Lists : x \o <<>> = x /\ <<>> \o x = x
<1>1. \A x, y \in Lists : x \o y \in Lists BY ConcatProperties DEF Lists
<1>2. \A x, y, z \in Lists : (x \o y) \o z = x \o (y \o z) BY ListJoins, Zenon DEF Regroups
<1>3. \A x \in Lists : x \o <<>> = x /\ <<>> \o x = x BY ConcatEmptySeq DEF Lists
<1>4. <<>> \in Lists /\ \A f \in Nat : <<f>> \in Lists BY DEF Lists
<1> QED BY <1>1, <1>2, <1>3, <1>4

\* The queue: what was dealt with, the frame that waits for a lookup, the one that
\* waits for its association, the frames that were read, and those in the socket.
Row(a, q, h, i, s) == a \o q \o h \o i \o s
Queue == Row(Numbers(done), query, held, inq, sock)

\* The queue, grouped from the right.
LEMMA Nested ==
  ASSUME NEW a \in Lists, NEW q \in Lists, NEW h \in Lists, NEW i \in Lists, NEW s \in Lists
  PROVE  Row(a, q, h, i, s) = a \o (q \o (h \o (i \o s)))
<1>1. i \o s \in Lists /\ a \o q \in Lists BY ListFacts
<1>2. h \o (i \o s) \in Lists /\ (a \o q) \o h \in Lists BY <1>1, ListFacts
<1>3. PICK t \in Lists, x \in Lists, y \in Lists, z \in Lists :
        t = i \o s /\ x = a \o q /\ y = x \o h /\ z = h \o t
  BY <1>1, <1>2, Zenon
<1>4. Regroups(y, i, s) BY ListJoins, Zenon
<1>5. Regroups(x, h, t) BY ListJoins, Zenon
<1>6. Regroups(a, q, z) BY ListJoins, Zenon
<1>7. (((a \o q) \o h) \o i) \o s = a \o (q \o (h \o (i \o s)))
  BY <1>3, <1>4, <1>5, <1>6, Zenon DEF Regroups
<1> QED BY <1>7, Zenon DEF Row

\* The first frame that was read is dealt with, or waits for its lookup.
LEMMA ReadMoves ==
  ASSUME NEW a \in Lists, NEW one \in Lists, NEW r \in Lists, NEW s \in Lists
  PROVE  /\ Row(a \o one, <<>>, <<>>, r, s) = Row(a, <<>>, <<>>, one \o r, s)
         /\ Row(a, one, <<>>, r, s) = Row(a, <<>>, <<>>, one \o r, s)
<1>1. <<>> \in Lists /\ a \o one \in Lists /\ one \o r \in Lists BY ListFacts
<1>2. a \o <<>> = a /\ a \o one \o <<>> = a \o one BY <1>1, ListFacts
<1>3. (a \o one) \o r = a \o (one \o r) BY ListFacts
<1> QED BY <1>2, <1>3 DEF Row

\* The first frame in the socket is dealt with or waits.
LEMMA SocketMoves ==
  ASSUME NEW a \in Lists, NEW one \in Lists, NEW r \in Lists
  PROVE  /\ Row(a \o one, <<>>, <<>>, <<>>, r) = Row(a, <<>>, <<>>, <<>>, one \o r)
         /\ Row(a, one, <<>>, <<>>, r) = Row(a, <<>>, <<>>, <<>>, one \o r)
         /\ Row(a, <<>>, one, <<>>, r) = Row(a, <<>>, <<>>, <<>>, one \o r)
<1>1. <<>> \in Lists /\ a \o one \in Lists BY ListFacts
<1>2. a \o <<>> = a /\ a \o one \o <<>> = a \o one BY <1>1, ListFacts
<1>3. (a \o one) \o r = a \o (one \o r) BY ListFacts
<1> QED BY <1>2, <1>3 DEF Row

\* A frame that waited is dealt with.
LEMMA WaitedMoves ==
  ASSUME NEW a \in Lists, NEW w \in Lists, NEW h \in Lists, NEW i \in Lists, NEW s \in Lists
  PROVE  /\ Row(a \o w, <<>>, h, i, s) = Row(a, w, h, i, s)
         /\ Row(a \o w, <<>>, <<>>, i, s) = Row(a, <<>>, w, i, s)
<1>1. a \o w \in Lists BY ListFacts
<1>2. (a \o w) \o <<>> = a \o w /\ a \o <<>> = a BY <1>1, ListFacts
<1> QED BY <1>2 DEF Row

\* Frames are read from the socket.
LEMMA Joined ==
  ASSUME NEW b \in Lists, NEW i \in Lists, NEW s \in Lists
  PROVE  (b \o i) \o s = b \o (i \o s)
<1>1. Regroups(b, i, s) BY ListJoins, Zenon
<1> QED BY <1>1, Zenon DEF Regroups

\* Reading a frame from the socket leaves the queue as it is.
LEMMA RowRead ==
  ASSUME NEW a \in Lists, NEW q \in Lists, NEW h \in Lists, NEW i \in Lists, NEW s \in Lists
  PROVE  Row(a, q, h, <<>>, i \o s) = Row(a, q, h, i, s)
<1>1. a \o q \in Lists BY ListFacts
<1>2. (a \o q) \o h \in Lists BY <1>1, ListFacts
<1> DEFINE b == a \o q \o h
<1>3. Row(a, q, h, <<>>, i \o s) = (b \o <<>>) \o (i \o s) /\ Row(a, q, h, i, s) = (b \o i) \o s
  BY DEF Row
<1>4. b \in Lists BY <1>2
<1> HIDE DEF b
<1>5. b \o <<>> = b BY <1>4, ListFacts
<1>6. (b \o i) \o s = b \o (i \o s) BY <1>4, Joined
<1> QED BY <1>3, <1>5, <1>6

\* Numbers of records are a list, and a frame that is looked up waits or is dealt with.
LEMMA NumbersList ==
  ASSUME NEW W, NEW s \in Seq([frame : Nat, way : W, how : {"sent", "full", "busy"}])
  PROVE  Numbers(s) \in Lists
<1>1. Len(s) \in Nat /\ \A i \in 1 .. Len(s) : s[i] \in [frame : Nat, way : W, how : {"sent", "full", "busy"}]
  BY LenProperties, ElementOfSeq
<1>2. \A i \in 1 .. Len(s) : s[i].frame \in Nat BY <1>1
<1> QED BY <1>1, <1>2 DEF Numbers, Lists

\* A list of at most one number.
LEMMA SingleOf ==
  ASSUME NEW s \in Lists, s # <<>>, Len(s) <= 1
  PROVE  s[1] \in Nat /\ s = <<s[1]>>
<1>1. s \in Seq(Nat) BY DEF Lists
<1>2. Len(s) \in Nat \ {0} BY <1>1, EmptySeq
<1>3. Len(s) = 1 BY <1>2
<1>4. s[1] \in Nat BY <1>1, <1>3, ElementOfSeq
<1>5. <<s[1]>> \in Seq(Nat) /\ Len(<<s[1]>>) = 1 /\ <<s[1]>>[1] = s[1] BY <1>4
<1>6. \A i \in 1 .. Len(s) : s[i] = <<s[1]>>[i]
  <2>1. \A i \in 1 .. Len(s) : i = 1 BY <1>3
  <2> QED BY <1>5, <2>1
<1> QED BY <1>1, <1>3, <1>4, <1>5, <1>6, SeqEqual

\* How the steps that take a frame change the list of those dealt with.
LEMMA SendsNumbers ==
  ASSUME FramesType, NEW f \in Nat, NEW w \in Ways, SendsTo(f, w)
  PROVE  Numbers(done') = Numbers(done) \o <<f>>
BY NumbersNext DEF SendsTo, Done

LEMMA LooksUpNumbers ==
  ASSUME FramesType, NEW f \in Nat, query = <<>>, LooksUp(f)
  PROVE  \/ query' = <<f>> /\ done' = done
         \/ query' = <<>> /\ Numbers(done') = Numbers(done) \o <<f>>
<1>1. "direct" \in Ways BY DEF Ways
<1> QED BY <1>1, NumbersNext DEF LooksUp, Done

\* The numbers up to one more.
LEMMA CountOneMore ==
  ASSUME NEW m \in Nat
  PROVE  [i \in 1 .. m |-> i] \o <<m + 1>> = [i \in 1 .. m + 1 |-> i]
<1> DEFINE s == [i \in 1 .. m |-> i]
           t == [i \in 1 .. m + 1 |-> i]
<1>1. s \in Seq(Nat) /\ Len(s) = m /\ t \in Seq(Nat) /\ Len(t) = m + 1 OBVIOUS
<1>2. <<m + 1>> \in Seq(Nat) /\ Len(<<m + 1>>) = 1 /\ <<m + 1>>[1] = m + 1 OBVIOUS
<1>3. /\ s \o <<m + 1>> \in Seq(Nat) /\ Len(s \o <<m + 1>>) = m + 1
      /\ \A i \in 1 .. m + 1 : (s \o <<m + 1>>)[i] = IF i <= m THEN s[i] ELSE <<m + 1>>[i - m]
  <2> HIDE DEF s
  <2> QED BY <1>1, <1>2, ConcatProperties
<1>4. ASSUME NEW i \in 1 .. m + 1 PROVE (s \o <<m + 1>>)[i] = t[i]
  <2>0. i = m + 1 \/ i \in 1 .. m OBVIOUS
  <2>1. CASE i = m + 1
    <3>1. ~(i <= m) /\ i - m = 1 BY <2>1
    <3>2. (s \o <<m + 1>>)[i] = <<m + 1>>[1] BY <1>3, <3>1, Zenon
    <3> QED BY <1>2, <2>1, <3>2
  <2>2. CASE i \in 1 .. m
    <3>1. i <= m BY <2>2
    <3>2. (s \o <<m + 1>>)[i] = s[i] BY <1>3, <3>1, Zenon
    <3> QED BY <2>2, <3>2
  <2> QED BY <2>0, <2>1, <2>2
<1> HIDE DEF s, t
<1>5. s \o <<m + 1>> = t BY <1>1, <1>3, <1>4, SeqEqual
<1> QED BY <1>5 DEF s, t


LEMMA OnceInOrderKept ==
  ASSUME Sorted, OnceInOrder, [Next]_vars
  PROVE  OnceInOrder'
<1>0. FramesType /\ FramesType' BY FramesTypeKept DEF Sorted
<1>o. Orders BY DEF Sorted
<1>s. SUFFICES ASSUME state' # "ended" PROVE Queue' = [i \in 1 .. told' |-> i]
  BY DEF OnceInOrder, Queue, Row
<1>e. state # "ended"
  <2>1. SUFFICES ASSUME state = "ended" PROVE FALSE OBVIOUS
  <2>2. pc = "wait" /\ posted = {} /\ ev = {} /\ query = <<>> BY <1>o, <2>1 DEF Orders
  <2>3. UNCHANGED state
    BY <2>1, <2>2 DEF Next, vars, ClientFrame, ClientRead, ClientLimit, ClientFlush,
         QueryDone, AssociationStands, S5Stops, S5Frame, Fails, WriteHandler, NetFlush,
         NetOther, NetReceive, NetRelay, NetEnds, Posted, ClientEvent, S5Event,
         ClientSays, Room, SocketEvent, Arrives
  <2> QED BY <1>s, <2>1, <2>3
<1>h. Queue = [i \in 1 .. told |-> i] BY <1>e DEF OnceInOrder, Queue, Row
<1> DEFINE d == Numbers(done)
<1>d. /\ d \in Lists /\ query \in Lists /\ held \in Lists /\ inq \in Lists /\ sock \in Lists
  BY <1>0, NumbersList DEF FramesType, Lists, Record
<1>d2. /\ d' \in Lists /\ query' \in Lists /\ held' \in Lists /\ inq' \in Lists
       /\ sock' \in Lists
  BY <1>0, NumbersList DEF FramesType, Lists, Record
<1>q. Queue = Row(d, query, held, inq, sock) /\ Queue' = Row(d', query', held', inq', sock')
  BY DEF Queue
<1>f. pc = "client" => query = <<>> /\ held = <<>> BY <1>o DEF Orders
<1>l. \A f \in Nat : <<f>> \in Lists BY ListFacts
<1>a. ASSUME UNCHANGED <<told, sock, inq, query, held, done>> PROVE Queue' = [i \in 1 .. told' |-> i]
  BY <1>a, <1>h DEF Queue
<1>w. ASSUME told' = told, Queue' = Queue PROVE Queue' = [i \in 1 .. told' |-> i]
  BY <1>w, <1>h
<1>1. CASE ClientFrame
  <2> DEFINE f == inq[1]
             one == <<inq[1]>>
             r == Tail(inq)
  <2>1. f \in Nat /\ r \in Lists /\ inq = one \o r /\ one \in Lists
    BY <1>0, <1>1, <1>l, FirstOf DEF ClientFrame, FramesType, Lists
  <2>2. query = <<>> /\ held = <<>> /\ UNCHANGED <<told, sock, held>>
    BY <1>1, <1>f DEF ClientFrame
  <2>6. CASE Opens(f) BY <1>a, <2>2, <2>6 DEF Opens
  <2>7. CASE inq' = r /\ query' = <<>> /\ d' = d \o one
    <3> HIDE DEF d, one, r
    <3> QED BY <1>w, <1>q, <1>d, <2>1, <2>2, <2>7, ReadMoves
  <2>8. CASE inq' = r /\ query' = one /\ done' = done
    <3>1. d' = d BY <2>8
    <3> HIDE DEF d, one, r
    <3> QED BY <1>w, <1>q, <1>d, <2>1, <2>2, <2>8, <3>1, ReadMoves
  <2>w. "direct" \in Ways /\ Outbound(f).to \in Ways BY <1>0, <2>1, SendingWays DEF Assocs
  <2>9. ASSUME NEW w \in Ways, inq' = r, Sends(f, w) PROVE Queue' = [i \in 1 .. told' |-> i]
    <3>1. d' = d \o one BY <1>0, <2>1, <2>9, SendsNumbers DEF Sends
    <3> QED BY <2>2, <2>7, <2>9, <3>1 DEF Sends
  <2>10. CASE inq' = r /\ LooksUp(f)
    <3>1. \/ query' = one /\ done' = done
          \/ query' = <<>> /\ d' = d \o one
      BY <1>0, <2>1, <2>2, <2>10, LooksUpNumbers
    <3> QED BY <2>7, <2>8, <2>10, <3>1
  <2>11. CASE assoc' = Outbound(f) /\ inq' = r /\ Sends(f, assoc'.to) BY <2>9, <2>11, <2>w
  <2>12. CASE inq' = r /\ Sends(f, "direct") BY <2>9, <2>12, <2>w
  <2> HIDE DEF d, one, r
  <2> QED BY <1>1, <2>6, <2>10, <2>11, <2>12 DEF ClientFrame, r
<1>2. CASE ClientRead
  <2>1. inq = <<>> /\ UNCHANGED <<told, held, done, query>> BY <1>2 DEF ClientRead
  <2>2. CASE sock = <<>> BY <1>2, <1>a, <2>1, <2>2 DEF ClientRead
  <2>3. CASE sock # <<>>
    <3>1. PICK k \in 1 .. Len(sock) :
            inq' = SubSeq(sock, 1, k) /\ sock' = SubSeq(sock, k + 1, Len(sock))
      BY <1>2, <2>3 DEF ClientRead
    <3>2. sock \in Seq(Nat) /\ k \in 0 .. Len(sock) BY <1>0, <3>1, LenProperties DEF FramesType
    <3>3. inq' \o sock' = sock BY <3>1, <3>2, CutInTwo
    <3>4. d' = d BY <2>1
    <3> HIDE DEF d
    <3>5. Row(d, query, held, <<>>, inq' \o sock') = Row(d, query, held, inq', sock')
      BY <1>d, <1>d2, RowRead
    <3> QED BY <1>w, <1>q, <2>1, <3>3, <3>4, <3>5
  <2> QED BY <2>2, <2>3
<1>3. CASE QueryDone
  <2>1. /\ query # <<>> /\ query' = <<>> /\ SendsTo(query[1], "direct")
        /\ UNCHANGED <<told, sock, inq, held>>
    BY <1>3 DEF QueryDone
  <2>2. query[1] \in Nat /\ query = <<query[1]>> BY <1>d, <1>o, <2>1, SingleOf DEF Orders
  <2>3. d' = d \o <<query[1]>>
    <3>1. "direct" \in Ways BY DEF Ways
    <3> QED BY <1>0, <2>1, <2>2, <3>1, SendsNumbers
  <2> HIDE DEF d
  <2>4. d' = d \o query BY <2>2, <2>3
  <2> QED BY <1>w, <1>q, <1>d, <2>1, <2>4, WaitedMoves
<1>4. CASE S5Frame
  <2> DEFINE f == sock[1]
             one == <<sock[1]>>
             r == Tail(sock)
  <2>1. f \in Nat /\ r \in Lists /\ sock = one \o r /\ one \in Lists
    BY <1>0, <1>4, <1>l, FirstOf DEF S5Frame, FramesType, Lists
  <2>2. /\ query = <<>> /\ held = <<>> /\ inq = <<>> /\ inq' = <<>> /\ told' = told
        /\ sock' = r
    <3>1. pc = "s5in" /\ (Trojan => pc # "s5in") /\ ~Blocked BY <1>4, <1>o DEF S5Frame, Orders
    <3>2. inq = <<>> BY <1>o, <3>1 DEF Orders
    <3>3. held = <<>> BY <1>o, <3>1 DEF Orders, Blocked
    <3> QED BY <1>4, <3>2, <3>3 DEF S5Frame
  <2>3. ASSUME d' = d, held' = one, query' = <<>> PROVE Queue' = [i \in 1 .. told' |-> i]
    <3> HIDE DEF d, one, r
    <3> QED BY <1>w, <1>q, <1>d, <2>1, <2>2, <2>3, SocketMoves
  <2>4. ASSUME d' = d, held' = <<>>, query' = one PROVE Queue' = [i \in 1 .. told' |-> i]
    <3> HIDE DEF d, one, r
    <3> QED BY <1>w, <1>q, <1>d, <2>1, <2>2, <2>4, SocketMoves
  <2>5. ASSUME d' = d \o one, held' = <<>>, query' = <<>> PROVE Queue' = [i \in 1 .. told' |-> i]
    <3> HIDE DEF d, one, r
    <3> QED BY <1>w, <1>q, <1>d, <2>1, <2>2, <2>5, SocketMoves
  <2>6. CASE held' = one /\ query' = query /\ done' = done BY <2>2, <2>3, <2>6
  <2>w. "direct" \in Ways /\ Outbound(f).to \in Ways BY <1>0, <2>1, SendingWays DEF Assocs
  <2>7. ASSUME NEW w \in Ways, held' = held, Sends(f, w) PROVE Queue' = [i \in 1 .. told' |-> i]
    <3>1. d' = d \o one BY <1>0, <2>1, <2>7, SendsNumbers DEF Sends
    <3> QED BY <2>2, <2>5, <2>7, <3>1 DEF Sends
  <2>8. CASE held' = held /\ LooksUp(f)
    <3>1. \/ query' = one /\ done' = done
          \/ query' = <<>> /\ d' = d \o one
      BY <1>0, <2>1, <2>2, <2>8, LooksUpNumbers
    <3> QED BY <2>2, <2>4, <2>5, <2>8, <3>1
  <2>9. CASE assoc' = Outbound(f) /\ held' = held /\ Sends(f, assoc'.to) BY <2>7, <2>9, <2>w
  <2>10. CASE held' = held /\ Sends(f, "direct") BY <2>7, <2>10, <2>w
  <2> HIDE DEF d, one, r
  <2> QED BY <1>4, <2>6, <2>8, <2>9, <2>10 DEF S5Frame, one
<1>5. CASE AssociationStands
  <2>1. /\ held' = <<>> /\ UNCHANGED <<told, sock, inq, query>> /\ state = "socks5_udp"
        /\ IF held # <<>> THEN SendsTo(held[1], assoc.to) ELSE UNCHANGED done
    BY <1>5 DEF AssociationStands
  <2>2. query = <<>> BY <1>o, <2>1 DEF Orders
  <2>3. CASE held = <<>> BY <1>a, <2>1, <2>3
  <2>4. CASE held # <<>>
    <3>1. held[1] \in Nat /\ held = <<held[1]>> BY <1>d, <1>o, <2>4, SingleOf DEF Orders
    <3>2. d' = d \o <<held[1]>>
      <4>1. assoc.to \in Ways BY <1>0 DEF FramesType, Assocs
      <4> QED BY <1>0, <2>1, <2>4, <3>1, <4>1, SendsNumbers
    <3> HIDE DEF d
    <3>3. d' = d \o held BY <3>1, <3>2
    <3> QED BY <1>w, <1>q, <1>d, <2>1, <2>2, <3>3, WaitedMoves
  <2> QED BY <2>3, <2>4
<1>6. CASE ClientSays
  <2>0. told \in Nat /\ <<told + 1>> \in Lists /\ told' = told + 1
    <3>1. told \in Nat /\ told' = told + 1 BY <1>0, <1>6 DEF FramesType, ClientSays
    <3> QED BY <1>l, <3>1
  <2> DEFINE one == <<told + 1>>
  <2>1. UNCHANGED <<inq, query, held, done>> /\ sock' = sock \o one
    <3>1. sock' = Append(sock, told + 1) /\ sock \in Seq(Nat) /\ told + 1 \in Nat
      BY <1>0, <1>6 DEF ClientSays, FramesType
    <3>2. sock' = sock \o one BY <3>1, AppendIsConcat
    <3> QED BY <1>6, <3>2 DEF ClientSays
  <2>2. d' = d BY <2>1
  <2>3. Queue' = Queue \o one
    <3>1. one \in Lists BY <2>0
    <3> HIDE DEF d, one
    <3>2. Row(d, query, held, inq, sock \o one) = Row(d, query, held, inq, sock) \o one
      <4>1. d \o query \in Lists BY <1>d, ListFacts
      <4>2. (d \o query) \o held \in Lists BY <1>d, <4>1, ListFacts
      <4>3. ((d \o query) \o held) \o inq \in Lists BY <1>d, <4>2, ListFacts
      <4> QED BY <1>d, <3>1, <4>3, Joined DEF Row
    <3>3. Queue' = Row(d, query, held, inq, sock \o one) BY <1>q, <2>1, <2>2
    <3> QED BY <1>q, <3>2, <3>3
  <2>4. [i \in 1 .. told |-> i] \o one = [i \in 1 .. told + 1 |-> i]
    BY <2>0, CountOneMore
  <2> QED BY <1>h, <2>0, <2>3, <2>4
<1>7. CASE ClientLimit \/ ClientFlush \/ S5Stops \/ WriteHandler \/ NetFlush \/ NetOther
  BY <1>7, <1>a DEF ClientLimit, ClientFlush, S5Stops, WriteHandler, NetFlush, NetOther, upward
<1>8. CASE NetReceive \/ NetRelay \/ NetEnds \/ Room \/ \E c \in Sockets : Arrives(c)
  BY <1>8, <1>a DEF NetReceive, NetRelay, NetEnds, Room, Arrives, upward
<1>9. CASE \E e \in {"client", "s5in"} \cup Sockets : Posted(e)
  BY <1>9, <1>a DEF Posted, Called
<1>10. CASE ClientEvent \/ S5Event \/ \E c \in Sockets : SocketEvent(c)
  BY <1>10, <1>a DEF ClientEvent, S5Event, SocketEvent, Called
<1>11. CASE Fails BY <1>11, <1>s DEF Fails, End
<1>12. CASE UNCHANGED vars BY <1>12, <1>a DEF vars
<1> HIDE DEF d
<1> QED BY <1>1, <1>2, <1>3, <1>4, <1>5, <1>6, <1>7, <1>8, <1>9, <1>10, <1>11, <1>12 DEF Next

\* A frame that waits has a way as well: that of the association which is being
\* opened for it, or none, as it waits for a lookup.
Routed ==
  /\ held # <<>> => assoc.to = Way(held[1])
  /\ query # <<>> => Way(query[1]) = "direct"

\* An association that is not closed for a frame is with the frame's outbound.
LEMMA OutboundIs ==
  ASSUME NEW f, Way(f) # "direct", Outbound(f).up
  PROVE  Outbound(f).to = Way(f)
<1>1. ~Resets(f) /\ Outbound(f) = assoc BY DEF Outbound, NoAssoc
<1>2. assoc # NoAssoc BY <1>1 DEF NoAssoc
<1> QED BY <1>1, <1>2 DEF Resets

\* One more frame that was sent on its way.
LEMMA OnTheWayNext ==
  ASSUME FramesType, OnTheWay, conf' = conf, NEW f \in Nat, NEW how \in {"sent", "full", "busy"},
         Done(f, Way(f), how)
  PROVE  OnTheWay'
<1> DEFINE r == [frame |-> f, way |-> Way(f), how |-> how]
<1>0. \A g : Way(g)' = Way(g) BY DEF Way
<1>1. r \in Record /\ r.way = Way(f) /\ r.frame = f BY DEF Record, Ways
<1>2. done' = Append(done, r) /\ done \in Seq(Record) BY DEF Done, FramesType
<1> HIDE DEF r
<1>3. /\ Len(done') = Len(done) + 1 /\ done'[Len(done) + 1] = r /\ Len(done) \in Nat
      /\ \A i \in 1 .. Len(done) : done'[i] = done[i]
  BY <1>1, <1>2, AppendProperties, LenProperties
<1>4. ASSUME NEW i \in 1 .. Len(done') PROVE done'[i].way = Way(done'[i].frame)
  <2>0. i = Len(done) + 1 \/ i \in 1 .. Len(done) BY <1>3
  <2>1. CASE i = Len(done) + 1 BY <1>1, <1>3, <2>1
  <2>2. CASE i \in 1 .. Len(done) BY <1>3, <2>2 DEF OnTheWay
  <2> QED BY <2>0, <2>1, <2>2
<1> QED BY <1>0, <1>4 DEF OnTheWay

LEMMA OnTheWayKept ==
  ASSUME Sorted, Routed, OnTheWay, [Next]_vars
  PROVE  Routed' /\ OnTheWay'
<1>0. FramesType /\ conf' = conf /\ \A f : Way(f)' = Way(f) BY ConfStays DEF Sorted
<1>o. Orders BY DEF Sorted
<1>1. ASSUME UNCHANGED <<query, held, assoc, done>> PROVE Routed' /\ OnTheWay'
  BY <1>0, <1>1 DEF Routed, OnTheWay
<1>2. ASSUME NEW f \in Nat, SendsTo(f, Way(f)) PROVE OnTheWay'
  BY <1>0, <1>2, OnTheWayNext DEF SendsTo
<1>3. ASSUME query' = <<>>, held' = <<>> PROVE Routed' BY <1>3 DEF Routed
<1>4. ASSUME NEW f \in Nat, conf.script[f] = "name", query = <<>>, held' = <<>>, LooksUp(f)
      PROVE  Routed' /\ OnTheWay'
  <2>1. Way(f) = "direct" BY <1>4 DEF Way
  <2>2. CASE query' = <<f>> /\ done' = done
    <3>1. <<f>>[1] = f OBVIOUS
    <3>2. Routed' BY <1>0, <1>4, <2>1, <2>2, <3>1 DEF Routed
    <3> QED BY <1>0, <2>2, <3>2 DEF OnTheWay
  <2>3. CASE Done(f, "direct", "busy") /\ query' = query
    <3>1. OnTheWay' BY <1>0, <2>1, <2>3, OnTheWayNext
    <3> QED BY <1>3, <1>4, <2>3, <3>1
  <2> QED BY <1>4, <2>2, <2>3 DEF LooksUp
<1>5. CASE ClientFrame
  <2> DEFINE f == inq[1]
  <2>1. f \in Nat BY <1>0, <1>5, FirstOf DEF ClientFrame, FramesType
  <2>2. query = <<>> /\ held = <<>> /\ held' = <<>> BY <1>o, <1>5 DEF ClientFrame, Orders
  <2>3. CASE Opens(f)
    <3>1. query' = <<>> /\ done' = done BY <2>2, <2>3 DEF Opens
    <3> QED BY <1>0, <1>3, <2>2, <3>1 DEF OnTheWay
  <2>4. CASE /\ Way(f) # "direct" /\ Outbound(f).up /\ assoc' = Outbound(f) /\ Sends(f, assoc'.to)
    <3>1. assoc'.to = Way(f) BY <2>4, OutboundIs
    <3> QED BY <1>2, <1>3, <2>1, <2>2, <2>4, <3>1 DEF Sends
  <2>5. CASE Way(f) = "direct" /\ Sends(f, "direct")
    BY <1>2, <1>3, <2>1, <2>2, <2>5 DEF Sends
  <2>6. CASE conf.script[f] = "name" /\ LooksUp(f) BY <1>4, <2>1, <2>2, <2>6
  <2> QED BY <1>5, <2>3, <2>4, <2>5, <2>6 DEF ClientFrame
<1>6. CASE QueryDone
  <2>1. /\ query # <<>> /\ SendsTo(query[1], "direct") /\ query' = <<>>
        /\ UNCHANGED <<held, assoc>>
    BY <1>6 DEF QueryDone
  <2>2. query[1] \in Nat /\ Way(query[1]) = "direct" BY <1>0, <2>1, FirstOf DEF FramesType, Routed
  <2>3. OnTheWay' BY <1>2, <2>1, <2>2
  <2> QED BY <1>0, <2>1, <2>3 DEF Routed
<1>7. CASE S5Frame
  <2> DEFINE f == sock[1]
  <2>1. f \in Nat BY <1>0, <1>7, FirstOf DEF S5Frame, FramesType
  <2>2. query = <<>> /\ held = <<>> BY <1>o, <1>7 DEF S5Frame, Orders, Blocked
  <2>3. CASE /\ held' = <<f>> /\ assoc' = [to |-> Way(f), up |-> FALSE]
             /\ UNCHANGED <<query, done>>
    <3>1. <<f>>[1] = f OBVIOUS
    <3>2. Routed' BY <1>0, <2>2, <2>3, <3>1 DEF Routed
    <3> QED BY <1>0, <2>3, <3>2 DEF OnTheWay
  <2>4. CASE /\ Way(f) # "direct" /\ Outbound(f).up /\ assoc' = Outbound(f) /\ Sends(f, assoc'.to)
             /\ held' = held
    <3>1. assoc'.to = Way(f) BY <2>4, OutboundIs
    <3> QED BY <1>2, <1>3, <2>1, <2>2, <2>4, <3>1 DEF Sends
  <2>5. CASE Way(f) = "direct" /\ Sends(f, "direct") /\ held' = held
    BY <1>2, <1>3, <2>1, <2>2, <2>5 DEF Sends
  <2>6. CASE conf.script[f] = "name" /\ LooksUp(f) /\ held' = held BY <1>4, <2>1, <2>2, <2>6
  <2> QED BY <1>7, <2>3, <2>4, <2>5, <2>6 DEF S5Frame
<1>8. CASE AssociationStands
  <2>1. /\ held' = <<>> /\ query' = query /\ state = "socks5_udp"
        /\ IF held # <<>> THEN SendsTo(held[1], assoc.to) ELSE UNCHANGED done
    BY <1>8 DEF AssociationStands
  <2>2. query = <<>> BY <1>o, <2>1 DEF Orders
  <2>3. CASE held = <<>> BY <1>0, <1>3, <2>1, <2>2, <2>3 DEF OnTheWay
  <2>4. CASE held # <<>>
    <3>1. held[1] \in Nat /\ assoc.to = Way(held[1])
      BY <1>0, <2>4, FirstOf DEF FramesType, Routed
    <3> QED BY <1>2, <1>3, <2>1, <2>2, <2>4, <3>1
  <2> QED BY <2>3, <2>4
<1>9. CASE Fails
  <2>1. query' = <<>> /\ UNCHANGED <<held, assoc, done>> BY <1>9 DEF Fails, End
  <2> QED BY <1>0, <2>1 DEF Routed, OnTheWay
<1>10. CASE ClientRead \/ ClientSays \/ ClientEvent \/ S5Event \/ \E c \in Sockets : SocketEvent(c)
  BY <1>1, <1>10 DEF ClientRead, ClientSays, ClientEvent, S5Event, SocketEvent, Called
<1>11. CASE \E e \in {"client", "s5in"} \cup Sockets : Posted(e) BY <1>1, <1>11 DEF Posted, Called
<1>12. CASE ClientLimit \/ ClientFlush \/ S5Stops \/ WriteHandler \/ NetFlush \/ NetOther
  BY <1>1, <1>12 DEF ClientLimit, ClientFlush, S5Stops, WriteHandler, NetFlush, NetOther, upward
<1>13. CASE NetReceive \/ NetRelay \/ NetEnds \/ Room \/ \E c \in Sockets : Arrives(c)
  BY <1>1, <1>13 DEF NetReceive, NetRelay, NetEnds, Room, Arrives, upward
<1>14. CASE UNCHANGED vars BY <1>1, <1>14 DEF vars
<1> QED BY <1>5, <1>6, <1>7, <1>8, <1>9, <1>10, <1>11, <1>12, <1>13, <1>14 DEF Next

\* Each frame is dealt with once and in order, and sent through an association with
\* the outbound of its target if it has one.
THEOREM AccountedAlways == Spec => []Accounted
<1>1. Init => OnceInOrder /\ Routed /\ OnTheWay
  <2>1. Init => OnceInOrder
    <3> SUFFICES ASSUME Init PROVE Queue = [i \in 1 .. 0 |-> i]
      BY DEF OnceInOrder, Queue, Row, Init
    <3>1. FramesType BY DEF Init, FramesType, Assocs, Ways, NoAssoc
    <3>2. Numbers(done) = <<>> BY DEF Numbers, Init
    <3>3. query = <<>> /\ held = <<>> /\ inq = <<>> /\ sock = <<>> BY DEF Init
    <3>4. Queue = <<>> BY <3>2, <3>3, ListFacts DEF Queue, Row
    <3>5. [i \in 1 .. 0 |-> i] = <<>> OBVIOUS
    <3> QED BY <3>4, <3>5
  <2>2. Init => Routed /\ OnTheWay BY DEF Init, Routed, OnTheWay
  <2> QED BY <2>1, <2>2
<1>2. Sorted /\ OnceInOrder /\ [Next]_vars => OnceInOrder' BY OnceInOrderKept
<1>3. Sorted /\ Routed /\ OnTheWay /\ [Next]_vars => Routed' /\ OnTheWay' BY OnTheWayKept
<1>4. OnceInOrder /\ OnTheWay => Accounted BY DEF Accounted
<1> QED BY <1>1, <1>2, <1>3, <1>4, SortedAlways, PTL DEF Spec

----------------------------------------------------------------------------
(* What comes back is passed on whole and once.                            *)

\* Where the numbers of what is being passed on are read from: the slot of the
\* payload that follows the header, and the slots of the messages to a local
\* client, which are there only while their handler runs.
Pipe ==
  /\ pend.left # 0 => mem[pend.slot] = pend.head
  /\ pc = "net" => pend.left = 0
  /\ out # <<>> => pc = "net" /\ batch.count # 0 /\ batch.of = uc
  /\ \A j \in 1 .. Len(out) : \E i \in 1 .. Limit : out[j] = mem[i]

\* The steps by what they do to the replies.
Quiet ==
  /\ UNCHANGED <<mem, pend, out, got>> /\ batch' \in {batch, NoBatch}
  /\ \A c \in Sockets : net'[c] \in {net[c], <<>>}
  /\ (pc' = "net" => pc = "net")
  /\ (out # <<>> => UNCHANGED <<pc, batch, uc>>)
Flushed ==
  \E k \in 0 .. 2 : /\ Flush(k) /\ UNCHANGED <<net, batch, mem, out>>
                    /\ pc # "net" /\ (pc' = "net" => k = pend.left)
                    /\ pc' \in {pc, "net", "wait", "client"}

\* Every step is of one of those kinds.
LEMMA StepKinds ==
  ASSUME Sorted, Pipe, [Next]_vars
  PROVE  \/ Quiet \/ Flushed \/ NetReceive \/ NetRelay \/ NetEnds \/ Room
         \/ \E c \in Sockets : Arrives(c)
<1>o. pc # "net" => out = <<>> BY DEF Pipe
<1>n. net \in [Sockets -> Seq(Nat)] BY DEF Sorted, RepliesType
<1>a. ASSUME UNCHANGED downward, pc' = "net" => pc = "net", out # <<>> => UNCHANGED <<pc, uc>>
      PROVE  Quiet
  BY <1>a DEF Quiet, downward
<1>b. ASSUME NEW f, Reset(f), pc # "net", pc' # "net" PROVE Quiet
  BY <1>b, <1>o, <1>n DEF Reset, Quiet, Sockets
<1>1. CASE ClientFrame
  <2>1. Reset(inq[1]) /\ pc = "client" BY <1>1 DEF ClientFrame
  <2>2. pc' # "net" BY <1>1, <2>1 DEF ClientFrame, Opens, Sends, Rest
  <2> QED BY <1>b, <2>1, <2>2
<1>2. CASE S5Frame
  <2>1. Reset(sock[1]) /\ pc = "s5in" BY <1>2 DEF S5Frame
  <2>2. pc' # "net" BY <1>2, <2>1 DEF S5Frame, Sends, Rest
  <2> QED BY <1>b, <2>1, <2>2
<1>3. CASE ClientRead \/ ClientLimit \/ QueryDone \/ AssociationStands \/ S5Stops \/ Fails
  <2>1. UNCHANGED downward /\ pc # "net" /\ pc' # "net"
    BY <1>3 DEF ClientRead, ClientLimit, QueryDone, AssociationStands, S5Stops, Fails, End, Rest
  <2> QED BY <1>a, <1>o, <2>1
<1>4. CASE NetOther
  <2>1. UNCHANGED downward /\ pc' = "wait" /\ batch.of # uc BY <1>4 DEF NetOther, Rest
  <2>2. out = <<>> BY <2>1 DEF Pipe
  <2> QED BY <1>a, <2>1, <2>2
<1>5. CASE ClientFlush BY <1>5 DEF ClientFlush, Flushed
<1>6. CASE WriteHandler BY <1>6 DEF WriteHandler, Flushed
<1>7. CASE NetFlush BY <1>7 DEF NetFlush, Flushes, Flushed
<1>8. CASE \/ \E e \in {"client", "s5in"} \cup Sockets : Posted(e)
           \/ ClientEvent \/ S5Event \/ \E c \in Sockets : SocketEvent(c)
  <2>1. UNCHANGED downward /\ pc # "net" /\ pc' # "net"
    BY <1>8 DEF Posted, ClientEvent, S5Event, SocketEvent, Called, Enter
  <2> QED BY <1>a, <1>o, <2>1
<1>9. CASE ClientSays BY <1>9, <1>a DEF ClientSays
<1>10. CASE UNCHANGED vars BY <1>10, <1>a DEF vars, downward
<1> QED BY <1>1, <1>2, <1>3, <1>4, <1>5, <1>6, <1>7, <1>8, <1>9, <1>10 DEF Next

\* What a batch takes from a socket.
LEMMA Received ==
  ASSUME Sorted, NetReceive
  PROVE  \E k \in 0 .. Limit :
           /\ k \in 0 .. Len(net[uc]) /\ batch'.count = k /\ batch'.pos = 0 /\ batch'.of = uc
           /\ mem' = [i \in 1 .. Limit |-> IF i <= k THEN net[uc][i] ELSE mem[i]]
           /\ net' = [net EXCEPT ![uc] = SubSeq(net[uc], k + 1, Len(net[uc]))]
           /\ net[uc] \in Seq(Nat) /\ k >= 1
<1> DEFINE k == Min({Len(net[uc]), Limit - n})
<1>0. /\ uc \in Sockets /\ net \in [Sockets -> Seq(Nat)] /\ n \in 0 .. Limit
      /\ Limit \in Nat \ {0}
  BY ConstantsAssumption DEF Sorted, RepliesType
<1>1. net[uc] \in Seq(Nat) /\ Len(net[uc]) \in Nat /\ Limit - n \in Nat
  BY <1>0, LenProperties
<1>p. Len(net[uc]) # 0 /\ Limit - n # 0 BY <1>0, <1>1, EmptySeq DEF NetReceive
<1>2. k \in 0 .. Len(net[uc]) /\ k \in 0 .. Limit /\ k >= 1
  <2>1. k \in {Len(net[uc]), Limit - n} /\ k <= Len(net[uc]) /\ k <= Limit - n BY <1>1, MinTwo
  <2> HIDE DEF k
  <2> QED BY <1>0, <1>1, <1>p, <2>1
<1>3. /\ batch' = [of |-> uc, count |-> k, pos |-> 0, full |-> k = Limit - n]
      /\ mem' = [i \in 1 .. Limit |-> IF i <= k THEN net[uc][i] ELSE mem[i]]
      /\ net' = [net EXCEPT ![uc] = SubSeq(net[uc], k + 1, Len(net[uc]))]
  BY DEF NetReceive
<1> HIDE DEF k
<1>4. batch'.count = k /\ batch'.pos = 0 /\ batch'.of = uc BY <1>3
<1> QED BY <1>1, <1>2, <1>3, <1>4

LEMMA PipeKept ==
  ASSUME Sorted, Pipe, [Next]_vars
  PROVE  Pipe'
<1>0. /\ pend \in Sending /\ batch \in Batch /\ mem \in [1 .. Limit -> Nat] /\ out \in Seq(Nat)
      /\ (Trojan => out = <<>>) /\ (~Trojan => pend.left = 0) /\ Limit \in Nat \ {0}
  BY ConstantsAssumption DEF Sorted, RepliesType
<1>1. CASE Quiet BY <1>1 DEF Quiet, Pipe
<1>2. CASE Flushed
  <2>1. PICK k \in 0 .. 2 : /\ Flush(k) /\ UNCHANGED <<net, batch, mem, out>>
                            /\ pc # "net" /\ (pc' = "net" => k = pend.left)
    BY <1>2 DEF Flushed
  <2>2. out' = <<>> BY <2>1 DEF Pipe
  <2>3. pend' = IF k = pend.left THEN Nothing
                ELSE [pend EXCEPT !.left = pend.left - k, !.full = TRUE]
    BY <2>1, FlushSends DEF Sorted
  <2>4. CASE k = pend.left BY <2>1, <2>2, <2>3, <2>4 DEF Pipe, Nothing
  <2>5. CASE k # pend.left
    <3>1. pend'.slot = pend.slot /\ pend'.head = pend.head /\ pend.left # 0 /\ pc' # "net"
      <4>1. k <= pend.left BY <2>1, FlushSends DEF Sorted
      <4> QED BY <1>0, <2>1, <2>3, <2>5, <4>1 DEF Sending
    <3> QED BY <2>1, <2>2, <3>1 DEF Pipe
  <2> QED BY <2>4, <2>5
<1>3. CASE NetReceive
  <2>1. pend.left = 0 /\ out = <<>> /\ UNCHANGED <<pend, out, pc>> BY <1>3 DEF NetReceive, Pipe
  <2> QED BY <2>1 DEF Pipe
<1>4. CASE NetRelay
  <2>0. batch.pos + 1 \in 1 .. Limit BY <1>4, <1>0 DEF NetRelay, Batch
  <2>1. PICK at \in 1 .. Limit : at = batch.pos + 1 BY <2>0
  <2>2. /\ batch' = [batch EXCEPT !.pos = at] /\ mem' = mem /\ uc' = uc
        /\ pc = "net" /\ batch.of = uc /\ batch.pos < batch.count
    BY <1>4, <2>1 DEF NetRelay
  <2>3. batch'.count = batch.count /\ batch'.of = uc /\ batch.count # 0
    BY <1>0, <2>2 DEF Batch
  <2>4. CASE Trojan
    <3>1. pend' = [head |-> mem[at], slot |-> at, left |-> 2, full |-> FALSE] /\ out' = out
          /\ pc' = "netflush"
      BY <1>4, <2>1, <2>4 DEF NetRelay
    <3> QED BY <1>0, <2>2, <2>4, <3>1 DEF Pipe
  <2>5. CASE ~Trojan
    <3>1. out' = Append(out, mem[at]) /\ pend' = pend /\ pc' = pc BY <1>4, <2>1, <2>5 DEF NetRelay
    <3>2. mem[at] \in Nat BY <1>0
    <3>3. /\ Len(out') = Len(out) + 1 /\ out'[Len(out) + 1] = mem[at] /\ Len(out) \in Nat
          /\ \A j \in 1 .. Len(out) : out'[j] = out[j]
      BY <1>0, <3>1, <3>2, AppendProperties, LenProperties
    <3>4. ASSUME NEW j \in 1 .. Len(out') PROVE \E i \in 1 .. Limit : out'[j] = mem[i]
      <4>1. j = Len(out) + 1 \/ j \in 1 .. Len(out) BY <3>3
      <4> QED BY <3>3, <4>1 DEF Pipe
    <3> QED BY <1>0, <2>2, <2>3, <2>5, <3>1, <3>4 DEF Pipe
  <2> QED BY <2>4, <2>5
<1>5. CASE NetEnds
  <2>1. out' = <<>> /\ UNCHANGED <<mem, pend>> /\ pc' = "wait" BY <1>5 DEF NetEnds, Rest
  <2> QED BY <2>1 DEF Pipe
<1>6. CASE Room
  <2>1. pend' = [pend EXCEPT !.full = FALSE] /\ UNCHANGED <<mem, out, pc, batch, uc>> BY <1>6 DEF Room
  <2>2. pend'.left = pend.left /\ pend'.slot = pend.slot /\ pend'.head = pend.head
    BY <1>0, <2>1 DEF Sending
  <2> QED BY <2>1, <2>2 DEF Pipe
<1>7. CASE \E c \in Sockets : Arrives(c) BY <1>7 DEF Arrives, Pipe
<1> QED BY <1>1, <1>2, <1>3, <1>4, <1>5, <1>6, <1>7, StepKinds

\* What a client of the Trojan inbound has: headers and payloads in turn, the
\* payload of each header behind it, and the header of what is being sent.
Pieces ==
  Trojan =>
    /\ \A i \in 1 .. Len(got) :
         /\ got[i][1] = IF i % 2 = 1 THEN "head" ELSE "data"
         /\ i % 2 = 0 => got[i][2] = got[i - 1][2]
    /\ pend.left = 1 <=> Len(got) % 2 = 1
    /\ pend.left = 1 => got[Len(got)][2] = pend.head

\* A step that sends nothing to such a client.
LEMMA PiecesStay ==
  ASSUME Trojan' <=> Trojan, Pieces,
         Trojan => got' = got /\ (pend'.left = 1 <=> pend.left = 1) /\ (pend.left = 1 => pend'.head = pend.head)
  PROVE  Pieces'
BY DEF Pieces

LEMMA PiecesKept ==
  ASSUME Sorted, Pipe, Pieces, [Next]_vars
  PROVE  Pieces'
<1>0. /\ pend \in Sending /\ mem \in [1 .. Limit -> Nat]
      /\ (Trojan => out = <<>> /\ got \in Seq(Piece) /\ Len(got) \in Nat) /\ (Trojan' <=> Trojan)
  BY ConfStays, LenProperties DEF Sorted, RepliesType
<1>1. CASE Quiet BY <1>0, <1>1, PiecesStay DEF Quiet
<1>2. CASE Flushed
  <2>1. PICK k \in 0 .. 2 : Flush(k) /\ UNCHANGED mem BY <1>2 DEF Flushed
  <2>2. SUFFICES ASSUME Trojan PROVE Pieces' BY <1>0 DEF Pieces
  <2>3. /\ k <= pend.left
        /\ pend' = IF k = pend.left THEN Nothing
                   ELSE [pend EXCEPT !.left = pend.left - k, !.full = TRUE]
        /\ got' \in Seq(Piece) /\ Len(got') = Len(got) + k
        /\ \A i \in 1 .. Len(got) : got'[i] = got[i]
        /\ \A i \in 1 .. k : got'[Len(got) + i] =
             IF pend.left - i = 1 THEN <<"head", pend.head>> ELSE <<"data", mem[pend.slot]>>
        /\ (k = 0 => got' = got)
    BY <2>1, <2>2, FlushSends DEF Sorted
  <2>4. /\ Len(got) \in Nat /\ pend.left \in 0 .. 2
        /\ \A i \in 1 .. Len(got) : /\ got[i][1] = IF i % 2 = 1 THEN "head" ELSE "data"
                                    /\ i % 2 = 0 => got[i][2] = got[i - 1][2]
        /\ pend.left = 1 <=> Len(got) % 2 = 1
        /\ pend.left = 1 => got[Len(got)][2] = pend.head
    BY <1>0, <2>2 DEF Sending, Pieces
  <2>5. pend.left # 0 => mem[pend.slot] = pend.head BY DEF Pipe
  <2>6. CASE k = 0
    <3>1. pend'.left = pend.left /\ (pend.left = 1 => pend'.head = pend.head)
      BY <1>0, <2>3, <2>4, <2>6 DEF Sending, Nothing
    <3> QED BY <1>0, <2>3, <2>6, <3>1, PiecesStay
  <2>7. CASE k = 1 /\ pend.left = 2
    <3>1. pend'.left = 1 /\ pend'.head = pend.head BY <1>0, <2>3, <2>7 DEF Sending
    <3>2. got'[Len(got) + 1] = <<"head", pend.head>> BY <2>3, <2>7
    <3>3. Len(got) % 2 = 0 /\ (Len(got) + 1) % 2 = 1 BY <2>4, <2>7
    <3>4. ASSUME NEW i \in 1 .. Len(got')
          PROVE  /\ got'[i][1] = IF i % 2 = 1 THEN "head" ELSE "data"
                 /\ i % 2 = 0 => got'[i][2] = got'[i - 1][2]
      <4>1. i = Len(got) + 1 \/ i \in 1 .. Len(got) BY <2>3, <2>4, <2>7
      <4>2. CASE i = Len(got) + 1 BY <3>2, <3>3, <4>2
      <4>3. CASE i \in 1 .. Len(got)
        <5>1. i % 2 = 0 => i - 1 \in 1 .. Len(got) BY <2>4, <4>3
        <5> QED BY <2>3, <2>4, <4>3, <5>1
      <4> QED BY <4>1, <4>2, <4>3
    <3>5. got'[Len(got')][2] = pend.head /\ Len(got') % 2 = 1 BY <2>3, <2>7, <3>2, <3>3
    <3> QED BY <3>1, <3>4, <3>5 DEF Pieces
  <2>8. CASE k = 2 /\ pend.left = 2
    <3>1. pend'.left = 0 BY <2>3, <2>8 DEF Nothing
    <3>2. got'[Len(got) + 1] = <<"head", pend.head>> /\ got'[Len(got) + 2] = <<"data", pend.head>>
      BY <2>3, <2>5, <2>8
    <3>3. Len(got) % 2 = 0 /\ (Len(got) + 1) % 2 = 1 /\ (Len(got) + 2) % 2 = 0
          /\ Len(got) + 2 - 1 = Len(got) + 1
      BY <2>4, <2>8
    <3>4. ASSUME NEW i \in 1 .. Len(got')
          PROVE  /\ got'[i][1] = IF i % 2 = 1 THEN "head" ELSE "data"
                 /\ i % 2 = 0 => got'[i][2] = got'[i - 1][2]
      <4>0. PICK g \in Nat : g = Len(got) /\ Len(got') = g + 2 BY <2>3, <2>4, <2>8, Zenon
      <4>1. i = Len(got) + 1 \/ i = Len(got) + 2 \/ i \in 1 .. Len(got) BY <4>0
      <4>2. CASE i = Len(got) + 1 BY <3>2, <3>3, <4>2
      <4>3. CASE i = Len(got) + 2 BY <3>2, <3>3, <4>3
      <4>4. CASE i \in 1 .. Len(got)
        <5>1. i % 2 = 0 => i - 1 \in 1 .. Len(got) BY <2>4, <4>4
        <5> QED BY <2>3, <2>4, <4>4, <5>1
      <4> QED BY <4>1, <4>2, <4>3, <4>4
    <3>5. Len(got') % 2 = 0 BY <2>3, <2>8, <3>3
    <3> QED BY <3>1, <3>4, <3>5 DEF Pieces
  <2>9. CASE k = 1 /\ pend.left = 1
    <3>1. pend'.left = 0 BY <2>3, <2>9 DEF Nothing
    <3>2. got'[Len(got) + 1] = <<"data", pend.head>> BY <2>3, <2>5, <2>9
    <3>3. Len(got) % 2 = 1 /\ (Len(got) + 1) % 2 = 0 /\ Len(got) \in 1 .. Len(got)
          /\ Len(got) + 1 - 1 = Len(got)
      BY <2>4, <2>9
    <3>4. ASSUME NEW i \in 1 .. Len(got')
          PROVE  /\ got'[i][1] = IF i % 2 = 1 THEN "head" ELSE "data"
                 /\ i % 2 = 0 => got'[i][2] = got'[i - 1][2]
      <4>1. i = Len(got) + 1 \/ i \in 1 .. Len(got) BY <2>3, <2>4, <2>9
      <4>2. CASE i = Len(got) + 1
        <5>1. got'[Len(got)][2] = pend.head BY <2>3, <2>4, <2>9, <3>3
        <5> QED BY <3>2, <3>3, <4>2, <5>1
      <4>3. CASE i \in 1 .. Len(got)
        <5>1. i % 2 = 0 => i - 1 \in 1 .. Len(got) BY <2>4, <4>3
        <5> QED BY <2>3, <2>4, <4>3, <5>1
      <4> QED BY <4>1, <4>2, <4>3
    <3>5. Len(got') % 2 = 0 BY <2>3, <2>9, <3>3
    <3> QED BY <3>1, <3>4, <3>5 DEF Pieces
  <2> QED BY <2>3, <2>4, <2>6, <2>7, <2>8, <2>9
<1>3. CASE NetReceive BY <1>0, <1>3, PiecesStay DEF NetReceive
<1>4. CASE NetRelay
  <2>1. SUFFICES ASSUME Trojan PROVE Pieces' BY <1>0 DEF Pieces
  <2>2. got' = got /\ pend.left = 0 BY <1>4 DEF NetRelay, Pipe
  <2>3. pend'.left = 2 BY <1>4, <2>1 DEF NetRelay
  <2> QED BY <1>0, <2>2, <2>3, PiecesStay
<1>5. CASE NetEnds
  <2>1. SUFFICES ASSUME Trojan PROVE Pieces' BY <1>0 DEF Pieces
  <2>2. PICK k \in 0 .. Len(out) : got' = got \o SubSeq(out, 1, k) BY <1>5 DEF NetEnds
  <2>3. out = <<>> /\ k = 0 BY <1>0, <2>1, <2>2
  <2>4. SubSeq(out, 1, k) = <<>> BY <2>3, SubSeqEmpty
  <2>5. got' = got BY <1>0, <2>1, <2>2, <2>4, ConcatEmptySeq
  <2> QED BY <1>0, <1>5, <2>5, PiecesStay DEF NetEnds
<1>6. CASE Room
  <2>1. pend' = [pend EXCEPT !.full = FALSE] /\ got' = got BY <1>6 DEF Room
  <2>2. pend'.left = pend.left /\ pend'.head = pend.head BY <1>0, <2>1 DEF Sending
  <2> QED BY <1>0, <2>1, <2>2, PiecesStay
<1>7. CASE \E c \in Sockets : Arrives(c) BY <1>0, <1>7, PiecesStay DEF Arrives
<1> QED BY <1>1, <1>2, <1>3, <1>4, <1>5, <1>6, <1>7, StepKinds

\* The numbers of the replies in each place: with the client, behind the header
\* that is to be sent, among the messages to a local client, in the slots that
\* were not looked at, and in each socket.
Heads == IF Trojan THEN {i \in 1 .. Len(got) : i % 2 = 1} ELSE 1 .. Len(got)
Sent(i) == IF Trojan THEN got[i][2] ELSE got[i]
Given == {Sent(i) : i \in Heads}
Pending == IF pend.left = 2 THEN {pend.head} ELSE {}
Outs == {out[i] : i \in 1 .. Len(out)}
Unread == batch.pos + 1 .. batch.count
Batched == {mem[i] : i \in Unread}
Net(c) == {net[c][i] : i \in 1 .. Len(net[c])}

\* No number is in two places, nor twice in one.
Apart ==
  /\ Given \cap Pending = {} /\ Given \cap Outs = {} /\ Given \cap Batched = {}
  /\ Pending \cap Outs = {} /\ Pending \cap Batched = {} /\ Outs \cap Batched = {}
  /\ \A c \in Sockets : (Given \cup Pending \cup Outs \cup Batched) \cap Net(c) = {}
  /\ \A c, e \in Sockets : c # e => Net(c) \cap Net(e) = {}
Once ==
  /\ \A i, j \in Heads : Sent(i) = Sent(j) => i = j
  /\ \A i, j \in Unread : mem[i] = mem[j] => i = j
  /\ \A i, j \in 1 .. Len(out) : out[i] = out[j] => i = j
  /\ \A c \in Sockets : \A i, j \in 1 .. Len(net[c]) : net[c][i] = net[c][j] => i = j

\* A step that takes numbers away or leaves them.
LEMMA ApartLess ==
  ASSUME Apart, Given' = Given, Pending' \subseteq Pending, Outs' \subseteq Outs,
         Batched' \subseteq Batched, \A c \in Sockets : Net(c)' \subseteq Net(c)
  PROVE  Apart'
BY DEF Apart, Sockets

LEMMA DistinctQuiet ==
  ASSUME Sorted, Apart, Once, Trojan' <=> Trojan, Quiet
  PROVE  Apart' /\ Once'
<1>0. /\ Given' = Given /\ Pending' = Pending /\ Outs' = Outs /\ Heads' = Heads
      /\ (\A i : Sent(i)' = Sent(i)) /\ mem' = mem /\ out' = out
  <2>1. Heads' = Heads /\ \A i : Sent(i)' = Sent(i) BY DEF Quiet, Heads, Sent
  <2> QED BY <2>1 DEF Quiet, Given, Pending, Outs
<1>1. Unread' \in {Unread, {}}
  <2>1. CASE batch' = batch BY <2>1 DEF Unread
  <2>2. CASE batch' = NoBatch BY <2>2 DEF Unread, NoBatch
  <2> QED BY <2>1, <2>2 DEF Quiet
<1>2. Batched' \subseteq Batched BY <1>0, <1>1 DEF Batched
<1>3. ASSUME NEW c \in Sockets
      PROVE  /\ Net(c)' \subseteq Net(c)
             /\ \A i, j \in 1 .. Len(net'[c]) : net'[c][i] = net'[c][j] => i = j
  <2>1. CASE net'[c] = net[c] BY <2>1 DEF Net, Once
  <2>2. CASE net'[c] = <<>>
    <3>1. 1 .. Len(net'[c]) = {} BY <2>2
    <3> QED BY <3>1 DEF Net
  <2> QED BY <2>1, <2>2 DEF Quiet
<1>4. Apart' BY <1>0, <1>2, <1>3, ApartLess
<1>5. Once' BY <1>0, <1>1, <1>3 DEF Once
<1> QED BY <1>4, <1>5

\* A step that leaves the sockets, the slots and the messages.
LEMMA OnceGiven ==
  ASSUME Once, UNCHANGED <<net, mem, out, batch>>,
         \A i, j \in Heads' : Sent(i)' = Sent(j)' => i = j
  PROVE  Once'
BY DEF Once, Unread

LEMMA DistinctFlushed ==
  ASSUME Sorted, Pieces, Apart, Once, Trojan' <=> Trojan, Flushed
  PROVE  Apart' /\ Once'
<1>0. pend \in Sending /\ (Trojan => Len(got) \in Nat) /\ (~Trojan => pend.left = 0)
  BY LenProperties DEF Sorted, RepliesType
<1>1. PICK k \in 0 .. 2 : Flush(k) /\ UNCHANGED <<net, batch, mem, out>> BY <1>1 DEF Flushed
<1>2. /\ k <= pend.left /\ pend.left \in 0 .. 2
      /\ pend' = IF k = pend.left THEN Nothing
                 ELSE [pend EXCEPT !.left = pend.left - k, !.full = TRUE]
      /\ k = 0 => got' = got
      /\ Trojan =>
           /\ got' \in Seq(Piece) /\ Len(got') = Len(got) + k
           /\ \A i \in 1 .. Len(got) : got'[i] = got[i]
           /\ \A i \in 1 .. k : got'[Len(got) + i] =
                IF pend.left - i = 1 THEN <<"head", pend.head>> ELSE <<"data", mem[pend.slot]>>
  BY <1>0, <1>1, FlushSends DEF Sorted, Sending
<1>3. Outs' = Outs /\ Batched' = Batched /\ \A c : Net(c)' = Net(c)
  BY <1>1 DEF Outs, Batched, Unread, Net
\* Nothing, or the payload of a header that was sent before.
<1>4. ASSUME k = 0 \/ pend.left # 2 PROVE Apart' /\ Once'
  <2>1. Heads' = Heads /\ \A i \in Heads : Sent(i)' = Sent(i)
    <3>1. CASE k = 0 BY <1>2, <3>1 DEF Heads, Sent
    <3>2. CASE k # 0
      <4>1. k = 1 /\ pend.left = 1 /\ Trojan BY <1>0, <1>2, <1>4, <3>2
      <4>2. Len(got) % 2 = 1 BY <4>1 DEF Pieces
      <4>3. (Len(got) + 1) % 2 = 0 BY <1>0, <4>1, <4>2
      <4>4. {i \in 1 .. Len(got) + 1 : i % 2 = 1} = {i \in 1 .. Len(got) : i % 2 = 1}
        BY <1>0, <4>1, <4>3
      <4> QED BY <1>2, <4>1, <4>4 DEF Heads, Sent
    <3> QED BY <3>1, <3>2
  <2>2. Given' = Given BY <2>1 DEF Given
  <2>3. Pending' \subseteq Pending
    <3>1. CASE k = pend.left BY <1>2, <3>1 DEF Pending, Nothing
    <3>2. CASE k # pend.left
      <4>1. pend'.left = pend.left - k /\ pend'.head = pend.head BY <1>0, <1>2, <3>2 DEF Sending
      <4> QED BY <1>2, <1>4, <4>1 DEF Pending
    <3> QED BY <3>1, <3>2
  <2>4. Apart' BY <1>3, <2>2, <2>3, ApartLess
  <2>5. Once' BY <1>1, <2>1, OnceGiven DEF Once
  <2> QED BY <2>4, <2>5
\* A header, with its payload or without.
<1>5. ASSUME k # 0, pend.left = 2 PROVE Apart' /\ Once'
  <2>1. Trojan /\ Len(got) \in Nat /\ k \in {1, 2} BY <1>0, <1>5
  <2>2. Len(got) % 2 = 0
    <3>1. ~(Len(got) % 2 = 1) BY <1>5, <2>1 DEF Pieces
    <3> QED BY <2>1, <3>1
  <2>3. (Len(got) + 1) % 2 = 1 /\ (Len(got) + 2) % 2 = 0 BY <2>1, <2>2
  <2>m. PICK m \in Nat : m = Len(got) + 1 BY <2>1
  <2>4. Heads' = Heads \cup {m}
    <3>1. {i \in 1 .. Len(got) + k : i % 2 = 1} = {i \in 1 .. Len(got) : i % 2 = 1} \cup {Len(got) + 1}
      BY <2>1, <2>3
    <3> QED BY <1>2, <2>1, <2>m, <3>1 DEF Heads
  <2>5. Sent(m)' = pend.head
    <3>1. got'[Len(got) + 1] = <<"head", pend.head>> BY <1>2, <1>5, <2>1
    <3> QED BY <2>1, <2>m, <3>1 DEF Sent
  <2>6. \A i \in Heads : Sent(i)' = Sent(i) BY <1>2, <2>1 DEF Heads, Sent
  <2>7. Given' = Given \cup {pend.head} BY <2>4, <2>5, <2>6 DEF Given
  <2>8. Pending = {pend.head} /\ Pending' = {}
    <3>1. pend'.left # 2 BY <1>0, <1>2, <1>5, <2>1 DEF Sending, Nothing
    <3> QED BY <1>5, <3>1 DEF Pending
  <2>9. Apart' BY <1>3, <2>7, <2>8 DEF Apart
  <2>10. pend.head \notin Given BY <2>8 DEF Apart
  <2>11. \A i, j \in Heads' : Sent(i)' = Sent(j)' => i = j
    <3>1. \A i \in Heads : Sent(i)' # pend.head BY <2>6, <2>10 DEF Given
    <3> QED BY <2>4, <2>5, <2>6, <3>1 DEF Once
  <2>12. Once' BY <1>1, <2>11, OnceGiven
  <2> QED BY <2>9, <2>12
<1> QED BY <1>2, <1>4, <1>5

LEMMA DistinctReceived ==
  ASSUME Sorted, Apart, Once, Trojan' <=> Trojan, NetReceive
  PROVE  Apart' /\ Once'
<1>0. /\ uc \in Sockets /\ net \in [Sockets -> Seq(Nat)] /\ mem \in [1 .. Limit -> Nat]
      /\ Limit \in Nat \ {0}
  BY ConstantsAssumption DEF Sorted, RepliesType
<1>u. PICK u \in Sockets : u = uc BY <1>0
<1>s. PICK s \in Seq(Nat) : s = net[u] BY <1>0
<1>1. PICK k \in 0 .. Limit :
        /\ k \in 0 .. Len(s) /\ batch'.count = k /\ batch'.pos = 0
        /\ mem' = [i \in 1 .. Limit |-> IF i <= k THEN s[i] ELSE mem[i]]
        /\ net' = [net EXCEPT ![u] = SubSeq(s, k + 1, Len(s))]
        /\ s = net[u]
  BY <1>u, <1>s, Received
<1>2. UNCHANGED <<pend, out, got>> /\ batch.count = 0 BY DEF NetReceive
<1>m. PICK m \in Nat : m = Len(s) BY <1>1, LenProperties
<1>3. /\ net'[u] = SubSeq(s, k + 1, m) /\ Len(net'[u]) = m - k
      /\ \A i \in 1 .. m - k : net'[u][i] = s[k + i]
  <2>1. net'[u] = SubSeq(s, k + 1, Len(s)) BY <1>0, <1>1
  <2>2. /\ Len(SubSeq(s, k + 1, Len(s))) = Len(s) - k
        /\ \A i \in 1 .. Len(s) - k : SubSeq(s, k + 1, Len(s))[i] = s[k + i]
    <3>1. k \in 0 .. Len(s) BY <1>1
    <3> QED BY <3>1, CutInTwo
  <2> QED BY <1>m, <2>1, <2>2
<1>4. \A c \in Sockets : c # u => net'[c] = net[c] BY <1>0, <1>1
<1>5. Unread' = 1 .. k /\ \A i \in 1 .. k : mem'[i] = s[i]
  <2>1. Unread' = 1 .. k BY <1>1 DEF Unread
  <2>2. \A i \in 1 .. k : i \in 1 .. Limit /\ i <= k BY <1>0, <1>1
  <2> QED BY <1>1, <2>1, <2>2
<1>6. Batched' = {s[i] : i \in 1 .. k} BY <1>5 DEF Batched
<1>7. Net(u)' = {s[i] : i \in k + 1 .. m}
  <2>1. Net(u)' = {net'[u][i] : i \in 1 .. m - k} BY <1>2, <1>3 DEF Net
  <2>2. \A i \in k + 1 .. m : i - k \in 1 .. m - k /\ net'[u][i - k] = s[i]
    <3>1. ASSUME NEW i \in k + 1 .. m PROVE i - k \in 1 .. m - k /\ k + (i - k) = i
      BY <1>1, <1>m
    <3> QED BY <1>3, <3>1
  <2>3. \A i \in 1 .. m - k : k + i \in k + 1 .. m BY <1>1, <1>m
  <2>4. \A x \in {s[i] : i \in k + 1 .. m} : x \in Net(u)' BY <2>1, <2>2
  <2>5. \A x \in Net(u)' : x \in {s[i] : i \in k + 1 .. m} BY <1>3, <2>1, <2>3
  <2> QED BY <2>4, <2>5
<1>8. Net(u) = {s[i] : i \in 1 .. m} BY <1>1, <1>m DEF Net
<1>9. Batched' \cup Net(u)' = Net(u) /\ Batched' \cap Net(u)' = {}
  <2>1. 1 .. m = (1 .. k) \cup (k + 1 .. m) /\ (1 .. k) \cap (k + 1 .. m) = {} BY <1>1, <1>m
  <2>2. \A i, j \in 1 .. m : s[i] = s[j] => i = j BY <1>0, <1>1, <1>m DEF Once
  <2>3. Batched' \cup Net(u)' = Net(u) BY <1>6, <1>7, <1>8, <2>1
  <2>4. ASSUME NEW x \in Batched', x \in Net(u)' PROVE FALSE
    <3>1. PICK i \in 1 .. k : x = s[i] BY <1>6, <2>4
    <3>2. PICK j \in k + 1 .. m : x = s[j] BY <1>7, <2>4
    <3>3. i \in 1 .. m /\ j \in 1 .. m BY <2>1
    <3>4. i = j BY <2>2, <3>1, <3>2, <3>3
    <3> QED BY <2>1, <3>4
  <2> QED BY <2>3, <2>4
<1>10. \A c \in Sockets : c # u => Net(c)' = Net(c) BY <1>4 DEF Net
<1>11. /\ Given' = Given /\ Pending' = Pending /\ Outs' = Outs /\ Heads' = Heads
       /\ \A i : Sent(i)' = Sent(i)
  <2>1. Heads' = Heads /\ \A i : Sent(i)' = Sent(i) BY <1>2 DEF Heads, Sent
  <2> QED BY <1>2, <2>1 DEF Given, Pending, Outs
<1>12. Apart'
  <2>1. \A c \in Sockets : (Given \cup Pending \cup Outs) \cap Net(c) = {} BY DEF Apart
  <2>2. \A c \in Sockets : c # u => Net(c) \cap Net(u) = {} BY <1>0 DEF Apart
  <2>3. Batched' \subseteq Net(u) /\ Net(u)' \subseteq Net(u) BY <1>9
  <2>4. /\ Given' \cap Pending' = {} /\ Given' \cap Outs' = {} /\ Given' \cap Batched' = {}
        /\ Pending' \cap Outs' = {} /\ Pending' \cap Batched' = {} /\ Outs' \cap Batched' = {}
    BY <1>0, <1>11, <2>1, <2>3 DEF Apart
  <2>5. ASSUME NEW c \in Sockets
        PROVE (Given' \cup Pending' \cup Outs' \cup Batched') \cap Net(c)' = {}
    <3>1. CASE c = u BY <1>9, <1>11, <2>1, <2>3, <3>1
    <3>2. CASE c # u BY <1>10, <1>11, <2>1, <2>2, <2>3, <3>2
    <3> QED BY <3>1, <3>2
  <2>6. ASSUME NEW c \in Sockets, NEW e \in Sockets, c # e PROVE Net(c)' \cap Net(e)' = {}
    <3>0. Net(c)' \subseteq Net(c) /\ Net(e)' \subseteq Net(e) BY <1>10, <2>3
    <3> QED BY <2>6, <3>0 DEF Apart
  <2> QED BY <2>4, <2>5, <2>6 DEF Apart
<1>13. Once'
  <2>1. \A i, j \in Heads' : Sent(i)' = Sent(j)' => i = j BY <1>11 DEF Once
  <2>2. \A i, j \in 1 .. m : s[i] = s[j] => i = j BY <1>0, <1>1, <1>m DEF Once
  <2>3. \A i, j \in Unread' : mem'[i] = mem'[j] => i = j
    <3>1. \A i \in 1 .. k : i \in 1 .. m BY <1>1, <1>m
    <3> QED BY <1>5, <2>2, <3>1
  <2>4. ASSUME NEW c \in Sockets, NEW i \in 1 .. Len(net'[c]), NEW j \in 1 .. Len(net'[c]),
               net'[c][i] = net'[c][j]
        PROVE  i = j
    <3>1. CASE c # u BY <1>4, <2>4, <3>1 DEF Once
    <3>2. CASE c = u
      <4>1. i \in 1 .. m - k /\ j \in 1 .. m - k BY <1>3, <3>2
      <4>2. k + i \in 1 .. m /\ k + j \in 1 .. m BY <1>1, <1>m, <4>1
      <4>3. s[k + i] = s[k + j] BY <1>3, <2>4, <3>2, <4>1
      <4>4. k + i = k + j BY <2>2, <4>2, <4>3
      <4> QED BY <4>1, <4>4
    <3> QED BY <3>1, <3>2
  <2>5. \A i, j \in 1 .. Len(out') : out'[i] = out'[j] => i = j BY <1>2 DEF Once
  <2> QED BY <2>1, <2>3, <2>4, <2>5 DEF Once
<1> QED BY <1>12, <1>13

LEMMA DistinctRelayed ==
  ASSUME Sorted, Pipe, Apart, Once, Trojan' <=> Trojan, NetRelay
  PROVE  Apart' /\ Once'
<1>0. /\ batch \in Batch /\ mem \in [1 .. Limit -> Nat] /\ out \in Seq(Nat)
      /\ (Trojan => out = <<>>) /\ Limit \in Nat \ {0}
  BY ConstantsAssumption DEF Sorted, RepliesType
<1>1. PICK at \in 1 .. Limit : at = batch.pos + 1 BY <1>0 DEF NetRelay, Batch
<1>2. /\ batch' = [batch EXCEPT !.pos = at] /\ UNCHANGED <<mem, net, got>> /\ pend.left = 0
      /\ batch.pos < batch.count
  BY <1>1 DEF NetRelay, Pipe
<1>3. batch'.pos = batch.pos + 1 /\ batch'.count = batch.count /\ batch.pos \in Nat
      /\ batch.count \in Nat
  BY <1>0, <1>1, <1>2 DEF Batch
<1>4. Unread' = Unread \ {at} /\ at \in Unread
  <2>1. Unread' = batch.pos + 2 .. batch.count BY <1>3 DEF Unread
  <2> QED BY <1>1, <1>2, <1>3, <2>1 DEF Unread
<1>5. Batched' = Batched \ {mem[at]} /\ mem[at] \in Batched
  <2>1. \A i \in Unread : mem[i] = mem[at] => i = at BY <1>4 DEF Once
  <2>2. Batched' = {mem[i] : i \in Unread \ {at}} BY <1>2, <1>4 DEF Batched
  <2> QED BY <1>4, <2>1, <2>2 DEF Batched
<1>6. /\ Given' = Given /\ Heads' = Heads /\ (\A i : Sent(i)' = Sent(i))
      /\ (\A c : Net(c)' = Net(c)) /\ Pending = {}
  <2>1. Heads' = Heads /\ \A i : Sent(i)' = Sent(i) BY <1>2 DEF Heads, Sent
  <2> QED BY <1>2, <2>1 DEF Given, Pending, Net
<1>7. CASE Trojan
  <2>1. pend' = [head |-> mem[at], slot |-> at, left |-> 2, full |-> FALSE] /\ out' = out
    BY <1>1, <1>7 DEF NetRelay
  <2>2. Pending' = {mem[at]} /\ Outs' = Outs BY <2>1 DEF Pending, Outs
  <2>3. Apart' BY <1>5, <1>6, <2>2 DEF Apart
  <2>4. Once' BY <1>2, <1>4, <1>6, <2>1 DEF Once
  <2> QED BY <2>3, <2>4
<1>8. CASE ~Trojan
  <2>1. out' = Append(out, mem[at]) /\ pend' = pend BY <1>1, <1>8 DEF NetRelay
  <2>2. PICK m \in Nat : m = Len(out) BY <1>0, LenProperties
  <2>3. Len(out') = m + 1 /\ out'[m + 1] = mem[at] /\ \A j \in 1 .. m : out'[j] = out[j]
    <3>1. mem[at] \in Nat BY <1>0
    <3> QED BY <1>0, <2>1, <2>2, <3>1, AppendProperties
  <2>4. 1 .. m + 1 = (1 .. m) \cup {m + 1} BY <2>2
  <2>5. Outs' = Outs \cup {mem[at]} BY <2>2, <2>3, <2>4 DEF Outs
  <2>6. Pending' = {} BY <1>6, <2>1 DEF Pending
  <2>7. Apart' BY <1>5, <1>6, <2>5, <2>6 DEF Apart
  <2>8. \A i, j \in 1 .. m + 1 : out'[i] = out'[j] => i = j
    <3>1. mem[at] \notin Outs BY <1>5 DEF Apart
    <3>2. \A i \in 1 .. m : out'[i] # mem[at] BY <2>2, <2>3, <3>1 DEF Outs
    <3>3. \A i, j \in 1 .. m : out'[i] = out'[j] => i = j BY <2>2, <2>3 DEF Once
    <3> QED BY <2>3, <2>4, <3>2, <3>3
  <2>9. Once' BY <1>2, <1>4, <1>6, <2>3, <2>8 DEF Once
  <2> QED BY <2>7, <2>9
<1> QED BY <1>7, <1>8

LEMMA DistinctEnds ==
  ASSUME Sorted, Apart, Once, Trojan' <=> Trojan, NetEnds
  PROVE  Apart' /\ Once'
<1>0. /\ out \in Seq(Nat) /\ Len(out) \in Nat /\ (Trojan => out = <<>> /\ got \in Seq(Piece))
      /\ RepliesType
  BY LenProperties DEF Sorted, RepliesType
<1>1. UNCHANGED <<net, mem, pend>> /\ out' = <<>> /\ batch' \in {batch, NoBatch}
  BY DEF NetEnds
<1>2. PICK k \in 0 .. Len(out) : got' = got \o SubSeq(out, 1, k) BY DEF NetEnds
<1>3. Unread' \in {Unread, {}} /\ Batched' \subseteq Batched
  <2>1. CASE batch' = batch BY <1>1, <2>1 DEF Unread, Batched
  <2>2. CASE batch' = NoBatch BY <1>1, <2>2 DEF Unread, NoBatch, Batched
  <2> QED BY <1>1, <2>1, <2>2
<1>4. Outs' = {} /\ Pending' = Pending /\ \A c : Net(c)' = Net(c)
  <2>1. 1 .. Len(out') = {} BY <1>1
  <2> QED BY <1>1, <2>1 DEF Outs, Pending, Net
<1>5. \A i, j \in 1 .. Len(out') : out'[i] = out'[j] => i = j
  <2>1. 1 .. Len(out') = {} BY <1>1
  <2> QED BY <2>1
<1>6. CASE Trojan
  <2>1. k = 0 BY <1>0, <1>2, <1>6
  <2>2. SubSeq(out, 1, k) = <<>> BY <2>1, SubSeqEmpty
  <2>3. got' = got BY <1>0, <1>2, <1>6, <2>2, ConcatEmptySeq
  <2>4. Heads' = Heads /\ \A i : Sent(i)' = Sent(i) BY <2>3 DEF Heads, Sent
  <2>5. Given' = Given BY <2>4 DEF Given
  <2>6. Apart' BY <1>3, <1>4, <2>5, ApartLess
  <2>7. Once' BY <1>1, <1>3, <1>5, <2>4 DEF Once
  <2> QED BY <2>6, <2>7
<1>7. CASE ~Trojan
  <2>1. /\ Len(got') = Len(got) + k /\ Len(got) \in Nat
        /\ \A i \in 1 .. Len(got) : got'[i] = got[i]
        /\ \A i \in 1 .. k : got'[Len(got) + i] = out[i]
    BY <1>0, <1>2, <1>7, GotJoins
  <2>m. PICK m \in Nat : m = Len(got) BY <2>1
  <2>2. Heads = 1 .. m /\ Heads' = 1 .. m + k /\ \A i : Sent(i) = got[i] /\ Sent(i)' = got'[i]
    BY <1>7, <2>1, <2>m DEF Heads, Sent
  <2>3. \A i \in 1 .. k : i \in 1 .. Len(out) BY <1>0
  <2>4. \A i \in 1 .. m + k : i \in 1 .. m \/ (i - m \in 1 .. k /\ m + (i - m) = i)
    OBVIOUS
  <2>5. Given' \subseteq Given \cup Outs
    <3>1. ASSUME NEW i \in 1 .. m + k PROVE got'[i] \in Given \cup Outs
      <4>1. CASE i \in 1 .. m BY <2>1, <2>m, <2>2, <4>1 DEF Given
      <4>2. CASE i - m \in 1 .. k /\ m + (i - m) = i
        <5>1. got'[i] = out[i - m] BY <2>1, <2>m, <4>2
        <5> QED BY <2>3, <4>2, <5>1 DEF Outs
      <4> QED BY <2>4, <4>1, <4>2
    <3> QED BY <2>2, <3>1 DEF Given
  <2>6. Apart' BY <1>3, <1>4, <2>5 DEF Apart
  <2>7. ASSUME NEW i \in 1 .. m + k, NEW j \in 1 .. m + k, got'[i] = got'[j] PROVE i = j
    <3>1. CASE i \in 1 .. m /\ j \in 1 .. m BY <2>1, <2>m, <2>2, <2>7, <3>1 DEF Once
    <3>2. CASE i - m \in 1 .. k /\ m + (i - m) = i /\ j - m \in 1 .. k /\ m + (j - m) = j
      <4>1. out[i - m] = out[j - m] BY <2>1, <2>m, <2>7, <3>2
      <4>2. i - m = j - m BY <2>3, <3>2, <4>1 DEF Once
      <4> QED BY <4>2
    <3>3. ASSUME NEW x \in 1 .. m, NEW y \in 1 .. m + k, y - m \in 1 .. k /\ m + (y - m) = y
          PROVE  got'[x] # got'[y]
      <4>1. got'[x] \in Given BY <2>1, <2>m, <2>2 DEF Given
      <4>2. got'[y] = out[y - m] BY <2>1, <2>m, <3>3
      <4>3. got'[y] \in Outs BY <2>3, <3>3, <4>2 DEF Outs
      <4> QED BY <4>1, <4>3 DEF Apart
    <3> QED BY <2>4, <2>7, <3>1, <3>2, <3>3
  <2>8. Once' BY <1>1, <1>3, <1>5, <2>2, <2>7 DEF Once
  <2> QED BY <2>6, <2>8
<1> QED BY <1>6, <1>7

LEMMA DistinctArrives ==
  ASSUME Sorted, Pipe, Apart, Once, Trojan' <=> Trojan, NEW c \in Sockets, Arrives(c)
  PROVE  Apart' /\ Once'
<1>0. /\ net \in [Sockets -> Seq(Nat)] /\ mem \in [1 .. Limit -> Nat] /\ out \in Seq(Nat)
      /\ batch \in Batch /\ pend \in Sending /\ RepliesType
      /\ (Trojan => got \in Seq(Piece)) /\ (~Trojan => got \in Seq(Nat)) /\ Limit \in Nat \ {0}
  BY ConstantsAssumption DEF Sorted, RepliesType
<1>1. PICK r \in Nat : r = Replies + 1 BY <1>0, RepliesBound
<1>2. /\ \A i \in 1 .. Limit : mem[i] # r
      /\ \A e \in Sockets : \A i \in 1 .. Len(net[e]) : net[e][i] # r
      /\ \A i \in 1 .. Len(got) : IF Trojan THEN got[i][2] # r ELSE got[i] # r
  <2>1. /\ Replies \in Nat /\ \A x \in Nat : x <= Replies => x # r BY <1>0, <1>1, RepliesBound
  <2>2. \A i \in 1 .. Limit : mem[i] \in Nat BY <1>0
  <2>3. \A e \in Sockets : \A i \in 1 .. Len(net[e]) : net[e][i] \in Nat BY <1>0, ElementOfSeq
  <2>4. \A i \in 1 .. Len(got) : IF Trojan THEN got[i][2] \in Nat ELSE got[i] \in Nat
    <3>1. CASE Trojan
      <4>1. \A i \in 1 .. Len(got) : got[i] \in Piece BY <1>0, <3>1, ElementOfSeq
      <4> QED BY <3>1, <4>1 DEF Piece
    <3>2. CASE ~Trojan BY <1>0, <3>2, ElementOfSeq
    <3> QED BY <3>1, <3>2
  <2>5. \A i \in 1 .. Limit : mem[i] # r BY <1>0, <2>1, <2>2, RepliesBound
  <2>6. \A e \in Sockets : \A i \in 1 .. Len(net[e]) : net[e][i] # r
    BY <1>0, <2>1, <2>3, RepliesBound
  <2>7. \A i \in 1 .. Len(got) : IF Trojan THEN got[i][2] # r ELSE got[i] # r
    BY <1>0, <2>1, <2>4, RepliesBound
  <2> QED BY <2>5, <2>6, <2>7
<1>3. UNCHANGED <<mem, pend, out, got, batch>> /\ net' = [net EXCEPT ![c] = Append(net[c], r)]
  BY <1>1 DEF Arrives
<1>4. /\ Given' = Given /\ Pending' = Pending /\ Outs' = Outs /\ Batched' = Batched
      /\ Heads' = Heads /\ Unread' = Unread /\ \A i : Sent(i)' = Sent(i)
  <2>1. Heads' = Heads /\ Unread' = Unread /\ \A i : Sent(i)' = Sent(i)
    BY <1>3 DEF Heads, Sent, Unread
  <2> QED BY <1>3, <2>1 DEF Given, Pending, Outs, Batched
<1>5. r \notin Given
  <2>1. \A i \in Heads : Sent(i) # r BY <1>2 DEF Heads, Sent
  <2> QED BY <2>1 DEF Given
<1>6. r \notin Outs /\ r \notin Batched
  <2>1. \A i \in Unread : i \in 1 .. Limit BY <1>0 DEF Unread, Batch
  <2>2. r \notin Batched BY <1>2, <2>1 DEF Batched
  <2>3. r \notin Outs BY <1>2 DEF Pipe, Outs
  <2> QED BY <2>2, <2>3
<1>7. r \notin Pending
  <2>1. pend.left = 2 => pend.head = mem[pend.slot] /\ pend.slot \in 1 .. Limit
    BY <1>0 DEF Pipe, Sending
  <2> QED BY <1>2, <2>1 DEF Pending
<1>8. \A e \in Sockets : r \notin Net(e) BY <1>2 DEF Net
<1>9. PICK m \in Nat : m = Len(net[c]) BY <1>0, LenProperties
<1>10. /\ Len(net'[c]) = m + 1 /\ net'[c][m + 1] = r /\ \A i \in 1 .. m : net'[c][i] = net[c][i]
       /\ \A e \in Sockets : e # c => net'[e] = net[e]
  <2>1. net[c] \in Seq(Nat) /\ net'[c] = Append(net[c], r) BY <1>0, <1>3
  <2>2. \A e \in Sockets : e # c => net'[e] = net[e] BY <1>0, <1>3
  <2> QED BY <1>9, <2>1, <2>2, AppendProperties
<1>11. 1 .. m + 1 = (1 .. m) \cup {m + 1} OBVIOUS
<1>12. Net(c)' = Net(c) \cup {r} BY <1>9, <1>10, <1>11 DEF Net
<1>13. \A e \in Sockets : e # c => Net(e)' = Net(e) BY <1>10 DEF Net
<1>14. Apart'
  <2>1. ASSUME NEW e \in Sockets
        PROVE  (Given' \cup Pending' \cup Outs' \cup Batched') \cap Net(e)' = {}
    <3>1. CASE e = c BY <1>4, <1>5, <1>6, <1>7, <1>12, <3>1 DEF Apart
    <3>2. CASE e # c BY <1>4, <1>13, <3>2 DEF Apart
    <3> QED BY <3>1, <3>2
  <2>2. ASSUME NEW x \in Sockets, NEW e \in Sockets, x # e PROVE Net(x)' \cap Net(e)' = {}
    <3>1. Net(x) \cap Net(e) = {} /\ r \notin Net(x) /\ r \notin Net(e) BY <1>8, <2>2 DEF Apart
    <3>2. CASE x = c BY <1>12, <1>13, <2>2, <3>1, <3>2
    <3>3. CASE e = c BY <1>12, <1>13, <2>2, <3>1, <3>3
    <3>4. CASE x # c /\ e # c BY <1>13, <3>1, <3>4
    <3> QED BY <3>2, <3>3, <3>4
  <2> QED BY <1>4, <2>1, <2>2 DEF Apart
<1>15. Once'
  <2>1. ASSUME NEW e \in Sockets PROVE \A i, j \in 1 .. Len(net'[e]) : net'[e][i] = net'[e][j] => i = j
    <3>1. CASE e # c BY <1>10, <3>1 DEF Once
    <3>2. CASE e = c
      <4>1. \A i \in 1 .. m : net'[c][i] # r BY <1>2, <1>9, <1>10
      <4>2. \A i, j \in 1 .. m : net'[c][i] = net'[c][j] => i = j BY <1>9, <1>10 DEF Once
      <4> QED BY <1>10, <1>11, <3>2, <4>1, <4>2
    <3> QED BY <3>1, <3>2
  <2> QED BY <1>3, <1>4, <2>1 DEF Once
<1> QED BY <1>14, <1>15

LEMMA DistinctKept ==
  ASSUME Sorted, Pipe, Pieces, Apart, Once, [Next]_vars
  PROVE  Apart' /\ Once'
<1>0. (Trojan' <=> Trojan) /\ pend \in Sending BY ConfStays DEF Sorted, RepliesType
<1>1. CASE Quiet BY <1>0, <1>1, DistinctQuiet
<1>2. CASE Flushed BY <1>0, <1>2, DistinctFlushed
<1>3. CASE NetReceive BY <1>0, <1>3, DistinctReceived
<1>4. CASE NetRelay BY <1>0, <1>4, DistinctRelayed
<1>5. CASE NetEnds BY <1>0, <1>5, DistinctEnds
<1>6. CASE Room
  <2>1. pend' = [pend EXCEPT !.full = FALSE] /\ UNCHANGED <<got, mem, out, batch, net>> BY <1>6 DEF Room
  <2>2. pend'.left = pend.left /\ pend'.head = pend.head BY <1>0, <2>1 DEF Sending
  <2>3. /\ Heads' = Heads /\ Unread' = Unread /\ (\A i : Sent(i)' = Sent(i))
    BY <1>0, <2>1 DEF Heads, Unread, Sent
  <2>4. /\ Given' = Given /\ Pending' = Pending /\ Outs' = Outs /\ Batched' = Batched
        /\ \A c : Net(c)' = Net(c)
    BY <2>1, <2>2, <2>3 DEF Given, Pending, Outs, Batched, Net
  <2>5. Apart' BY <2>4, ApartLess
  <2>6. Once' BY <2>1, <2>3 DEF Once
  <2> QED BY <2>5, <2>6
<1>7. CASE \E c \in Sockets : Arrives(c) BY <1>0, <1>7, DistinctArrives
<1> QED BY <1>1, <1>2, <1>3, <1>4, <1>5, <1>6, <1>7, StepKinds

Delivery == Pipe /\ Pieces /\ Apart /\ Once

LEMMA DeliveryAlways == Spec => []Delivery
<1>1. Init => Delivery
  <2> SUFFICES ASSUME Init PROVE Delivery OBVIOUS
  <2>1. /\ got = <<>> /\ out = <<>> /\ pend.left = 0 /\ batch = NoBatch /\ pc = "wait"
        /\ \A c \in Sockets : net[c] = <<>>
    BY DEF Init, Nothing
  <2>2. Len(got) = 0 /\ Len(out) = 0 /\ \A c \in Sockets : Len(net[c]) = 0 BY <2>1
  <2>3. Pipe BY <2>1, <2>2 DEF Pipe
  <2>4. Pieces BY <2>1, <2>2 DEF Pieces
  <2>5. Heads = {} /\ Unread = {} BY <2>1, <2>2 DEF Heads, Unread, NoBatch
  <2>6. Given = {} /\ Pending = {} /\ Outs = {} /\ Batched = {} /\ \A c \in Sockets : Net(c) = {}
    BY <2>1, <2>2, <2>5 DEF Given, Pending, Outs, Batched, Net
  <2>7. Apart BY <2>6 DEF Apart
  <2>8. Once BY <2>2, <2>5 DEF Once
  <2> QED BY <2>3, <2>4, <2>7, <2>8 DEF Delivery
<1>2. Sorted /\ Delivery /\ [Next]_vars => Delivery'
  BY PipeKept, PiecesKept, DistinctKept DEF Delivery
<1> QED BY <1>1, <1>2, SortedAlways, PTL DEF Spec

\* The frames a client receives are whole, each reply's payload is under its own
\* header, and no reply comes twice.
THEOREM FramesWholeAlways == Spec => []FramesWhole
<1>1. Sorted /\ Delivery => FramesWhole
  <2> SUFFICES ASSUME Sorted, Delivery PROVE FramesWhole OBVIOUS
  <2>1. Trojan => \A i \in 1 .. Len(got) :
          /\ got[i][1] = IF i % 2 = 1 THEN "head" ELSE "data"
          /\ i % 2 = 0 => got[i][2] = got[i - 1][2]
    BY DEF Delivery, Pieces
  <2>2. \A i, j \in Heads : Sent(i) = Sent(j) => i = j BY DEF Delivery, Once
  <2>3. CASE Trojan
    <3>1. got \in Seq(Piece) /\ Len(got) \in Nat
      BY <2>3, LenProperties DEF Sorted, RepliesType
    <3> DEFINE ids == [i \in 1 .. Len(got) \div 2 |-> got[2 * i][2]]
    <3>2. ASSUME NEW i \in 1 .. Len(got) \div 2
          PROVE  /\ 2 * i \in 1 .. Len(got) /\ (2 * i) % 2 = 0
                 /\ 2 * i - 1 \in 1 .. Len(got) /\ (2 * i - 1) % 2 = 1
      BY <3>1
    <3>3. ASSUME NEW i \in 1 .. Len(got) \div 2
          PROVE  ids[i] = Sent(2 * i - 1) /\ 2 * i - 1 \in Heads
      <4>1. got[2 * i][2] = got[2 * i - 1][2] BY <2>1, <2>3, <3>2
      <4> QED BY <2>3, <3>2, <4>1 DEF Sent, Heads
    <3>4. ASSUME NEW i \in 1 .. Len(got) \div 2, NEW j \in 1 .. Len(got) \div 2, ids[i] = ids[j]
          PROVE  i = j
      <4>1. Sent(2 * i - 1) = Sent(2 * j - 1) BY <3>3, <3>4
      <4>2. 2 * i - 1 = 2 * j - 1 BY <2>2, <3>3, <4>1
      <4> QED BY <4>2
    <3>5. IsInjective(ids)
      <4>1. DOMAIN ids = 1 .. Len(got) \div 2 OBVIOUS
      <4> HIDE DEF ids
      <4> QED BY <3>4, <4>1 DEF IsInjective
    <3> QED BY <2>1, <2>3, <3>5 DEF FramesWhole, Ids
  <2>4. CASE ~Trojan
    <3>1. got \in Seq(Nat) /\ DOMAIN got = 1 .. Len(got)
      BY <2>4, LenProperties DEF Sorted, RepliesType
    <3>2. \A i, j \in 1 .. Len(got) : got[i] = got[j] => i = j BY <2>2, <2>4 DEF Heads, Sent
    <3>3. IsInjective(got) BY <3>1, <3>2 DEF IsInjective
    <3> QED BY <2>4, <3>3 DEF FramesWhole, Ids
  <2> QED BY <2>3, <2>4
<1> QED BY <1>1, SortedAlways, DeliveryAlways, PTL

----------------------------------------------------------------------------
(* No datagram and no frame is left without an event that goes on with it. *)

\* An unsent frame has the client's socket to wait for, or the event that says
\* there is room; what is left of a batch has that, or its own socket's event, but
\* for the handler that works on it.
Marked == "write" \in ev \/ pend.full
Kept ==
  /\ pend.full => pend.left # 0
  /\ state # "ended" /\ pend.left # 0 /\ pc # "netflush" => Marked
  /\ state # "ended" /\ batch.count # 0 =>
       batch.of \in posted \/ Marked \/ (pc \in {"net", "netflush"} /\ batch.of = uc)

LEMMA KeptKept ==
  ASSUME Sorted, Pipe, Kept, [Next]_vars
  PROVE  Kept'
<1>0. pend \in Sending /\ batch \in Batch /\ uc \in Sockets BY DEF Sorted, RepliesType
<1>o. state = "ended" => pc = "wait" BY DEF Sorted, Orders
<1>c. Sockets = {"direct", "relay"} BY DEF Sockets
<1> USE DEF Kept, Marked
<1>r. ASSUME NEW f, Reset(f), posted' = Unposted(f), pc \in {"client", "s5in"}, UNCHANGED ev,
             pc' \notin {"net", "netflush"}
      PROVE  Kept'
  <2>1. state # "ended" /\ pend' = pend BY <1>o, <1>r DEF Reset
  <2>2. CASE batch' = NoBatch BY <1>r, <2>1, <2>2 DEF NoBatch
  <2>3. CASE batch' = batch /\ (Resets(f) => batch.of # "relay")
    <3>1. batch.of \in posted => batch.of \in posted' BY <1>r, <2>3 DEF Unposted
    <3> QED BY <1>r, <2>1, <2>3, <3>1
  <2> QED BY <1>r, <2>2, <2>3 DEF Reset, Cleared
<1>1. CASE ClientFrame
  <2>1. pc' \notin {"net", "netflush"} BY <1>1 DEF ClientFrame, Opens, Sends, Rest
  <2> QED BY <1>1, <1>r, <2>1 DEF ClientFrame
<1>2. CASE S5Frame
  <2>1. pc' \notin {"net", "netflush"} BY <1>2 DEF S5Frame, Sends, Rest
  <2> QED BY <1>2, <1>r, <2>1 DEF S5Frame
<1>3. CASE ClientRead \/ ClientLimit \/ QueryDone \/ AssociationStands \/ S5Stops
  <2>1. /\ UNCHANGED <<pend, batch, ev>> /\ pc \notin {"net", "netflush"}
        /\ pc' \notin {"net", "netflush"} /\ posted \subseteq posted'
    BY <1>3 DEF ClientRead, ClientLimit, QueryDone, AssociationStands, S5Stops, Rest, downward,
                Resumed
  <2>2. state # "ended"
    <3>1. CASE ClientRead \/ ClientLimit \/ S5Stops
      BY <1>o, <3>1 DEF ClientRead, ClientLimit, S5Stops
    <3>2. CASE QueryDone BY <3>2 DEF QueryDone, Sorted, Orders
    <3>3. CASE AssociationStands BY <3>3 DEF AssociationStands
    <3> QED BY <1>3, <3>1, <3>2, <3>3
  <2> QED BY <2>1, <2>2
<1>4. CASE Fails BY <1>4 DEF Fails, End, downward
\* A flush.
<1>f. ASSUME NEW k \in 0 .. 2, Flush(k)
      PROVE  /\ k = pend.left => pend'.left = 0 /\ ~pend'.full /\ ~pend.full
             /\ k # pend.left => pend'.left # 0 /\ pend'.full
  <2>1. /\ k <= pend.left /\ (pend.full => k = 0) /\ pend.left \in 0 .. 2
        /\ pend' = IF k = pend.left THEN Nothing
                   ELSE [pend EXCEPT !.left = pend.left - k, !.full = TRUE]
    BY <1>0, <1>f, FlushSends DEF Sorted, Sending
  <2>2. CASE k = pend.left BY <2>1, <2>2 DEF Nothing
  <2>3. CASE k # pend.left
    <3>1. pend.left - k # 0 BY <2>1, <2>3
    <3>2. pend'.left = pend.left - k /\ pend'.full BY <1>0, <2>1, <2>3 DEF Sending
    <3> QED BY <2>3, <3>1, <3>2
  <2> QED BY <2>2, <2>3
<1>5. CASE ClientFlush
  <2>1. PICK k \in 0 .. 2 : Flush(k) /\ pc' = IF k = pend.left THEN "client" ELSE "wait"
    BY <1>5 DEF ClientFlush
  <2>2. pc = "flush" /\ UNCHANGED <<state, batch, ev, posted>> BY <1>5 DEF ClientFlush
  <2> QED BY <1>f, <2>1, <2>2
<1>6. CASE WriteHandler
  <2>1. PICK k \in 0 .. 2 : Flush(k) /\ posted' = IF k = pend.left THEN Again ELSE posted
    BY <1>6 DEF WriteHandler
  <2>2. pc = "wait" /\ UNCHANGED <<state, batch, pc>> BY <1>6 DEF WriteHandler
  <2>3. CASE k = pend.left
    <3>1. batch.count # 0 => batch.of \in posted' BY <2>1, <2>3 DEF Again
    <3> QED BY <1>f, <2>1, <2>2, <2>3, <3>1
  <2>4. CASE k # pend.left BY <1>f, <2>1, <2>2, <2>4
  <2> QED BY <2>3, <2>4
<1>7. CASE NetFlush
  <2>1. PICK k \in 0 .. 2 : Flush(k) /\ pc' = IF k = pend.left THEN "net" ELSE "wait"
    BY <1>7 DEF NetFlush, Flushes
  <2>2. pc = "netflush" /\ UNCHANGED <<state, uc, batch, ev, posted>> BY <1>7 DEF NetFlush
  <2>3. CASE k = pend.left BY <1>f, <2>1, <2>2, <2>3
  <2>4. CASE k # pend.left BY <1>f, <2>1, <2>2, <2>4
  <2> QED BY <2>3, <2>4
<1>8. CASE NetOther
  <2>1. /\ UNCHANGED <<pend, batch, ev, state>> /\ pc = "net" /\ pc' = "wait"
        /\ batch.of \in posted'
    BY <1>8 DEF NetOther, Rest, downward
  <2> QED BY <2>1 DEF Pipe
<1>9. CASE NetReceive
  <2>1. /\ UNCHANGED <<pend, ev, state, pc, uc>> /\ pc = "net" /\ batch'.of = uc
    BY <1>9 DEF NetReceive
  <2> QED BY <2>1 DEF Pipe
<1>10. CASE NetRelay
  <2>0. batch.pos + 1 \in 1 .. Limit BY <1>10, <1>0, ConstantsAssumption DEF NetRelay, Batch
  <2>1. PICK at \in 1 .. Limit : at = batch.pos + 1 BY <2>0
  <2>2. /\ pc = "net" /\ batch.of = uc /\ batch' = [batch EXCEPT !.pos = at]
        /\ UNCHANGED <<ev, state, uc>> /\ pend.left = 0
    BY <1>10, <2>1 DEF NetRelay, Pipe
  <2>3. batch'.of = uc BY <1>0, <2>2 DEF Batch
  <2>4. CASE Trojan
    <3>1. pend' = [head |-> mem[at], slot |-> at, left |-> 2, full |-> FALSE] /\ pc' = "netflush"
      BY <1>10, <2>1, <2>4 DEF NetRelay
    <3> QED BY <2>2, <2>3, <3>1
  <2>5. CASE ~Trojan
    <3>1. pend' = pend /\ pc' = pc BY <1>10, <2>5 DEF NetRelay
    <3> QED BY <2>2, <2>3, <3>1
  <2> QED BY <2>4, <2>5
<1>11. CASE NetEnds
  <2>1. /\ pc = "net" /\ pc' = "wait" /\ UNCHANGED <<pend, ev, state>> /\ pend.left = 0
        /\ batch.of \in {"none", uc}
    BY <1>11 DEF NetEnds, Rest, Pipe
  <2>2. batch'.count # 0 => batch' = batch /\ batch.pos # batch.count /\ uc \in posted'
    BY <1>11 DEF NetEnds, NoBatch
  <2>3. batch'.count # 0 => batch'.of \in posted'
    BY <1>0, <2>1, <2>2 DEF Batch
  <2> QED BY <2>1, <2>3
<1>12. ASSUME NEW e \in {"client", "s5in"} \cup Sockets, Posted(e) PROVE Kept'
  <2>1. /\ posted' = posted \ {e} /\ pc = "wait" /\ pc' = Enter(e)
        /\ UNCHANGED <<pend, batch, ev, state>> /\ uc' = IF e \in Sockets THEN e ELSE uc
    BY <1>12 DEF Posted, Called, downward
  <2>2. CASE e \in Sockets
    <3>1. pc' = "netflush" /\ uc' = e BY <1>c, <2>1, <2>2 DEF Enter
    <3> QED BY <2>1, <3>1
  <2>3. CASE e \notin Sockets
    <3>1. batch.count # 0 => batch.of # e BY <1>0, <2>3 DEF Batch, Sockets
    <3>2. pc' \notin {"net", "netflush"} BY <1>12, <2>1, <2>3 DEF Enter
    <3> QED BY <2>1, <3>1, <3>2
  <2> QED BY <2>2, <2>3
<1>13. CASE ClientEvent \/ S5Event \/ \E c \in Sockets : SocketEvent(c)
  <2>1. /\ pc = "wait" /\ UNCHANGED <<pend, batch, state, posted>>
        /\ ("write" \in ev => "write" \in ev')
    BY <1>13 DEF ClientEvent, S5Event, SocketEvent, Called, downward
  <2> QED BY <2>1
<1>14. CASE ClientSays
  <2>1. UNCHANGED <<pend, batch, state, posted, pc, uc>> /\ ("write" \in ev => "write" \in ev')
    BY <1>14 DEF ClientSays, downward
  <2> QED BY <2>1
<1>15. CASE Room
  <2>1. /\ pend' = [pend EXCEPT !.full = FALSE] /\ "write" \in ev'
        /\ UNCHANGED <<batch, state, posted, pc, uc>>
    BY <1>15 DEF Room
  <2>2. ~pend'.full BY <1>0, <2>1 DEF Sending
  <2> QED BY <2>1, <2>2
<1>16. CASE \E c \in Sockets : Arrives(c)
  <2>1. UNCHANGED <<pend, batch, state, posted, pc, uc, ev>> BY <1>16 DEF Arrives
  <2> QED BY <2>1
<1>17. CASE UNCHANGED vars BY <1>17 DEF vars
<1> QED BY <1>1, <1>2, <1>3, <1>4, <1>5, <1>6, <1>7, <1>8, <1>9, <1>10, <1>11, <1>12, <1>13,
           <1>14, <1>15, <1>16, <1>17 DEF Next

\* Between the handlers of the client's connection: what is in the socket is
\* known of, and what can be gone on with has an event.
Idle == pc \in {"wait", "net", "netflush"} /\ state # "ended" /\ Trojan
Woken ==
  /\ state # "ended" /\ Trojan /\ sock # <<>> => "read" \in ev \/ ready
  /\ Idle /\ state = "udp" /\ sock # <<>> => "read" \in ev \/ "client" \in posted \/ pend.full
  /\ Idle /\ state = "udp" /\ inq # <<>> => missed \/ "client" \in posted
  /\ Idle /\ state = "resolving" => query # <<>> \/ Busy

\* A step in which neither frames nor the state change and no event is taken.
LEMMA WokenStays ==
  ASSUME Woken, Trojan' <=> Trojan, UNCHANGED <<state, sock, ready, inq, query, done, missed>>,
         Idle' => Idle, pend.full => pend'.full, "read" \in ev => "read" \in ev', posted \subseteq posted' \cup Sockets
  PROVE  Woken'
<1>1. Busy' = Busy BY DEF Busy
<1>2. "client" \in posted => "client" \in posted' BY DEF Sockets
<1> QED BY <1>1, <1>2 DEF Woken

LEMMA WokenKept ==
  ASSUME Sorted, Pipe, Kept, Woken, [Next]_vars
  PROVE  Woken'
<1>0. /\ pend \in Sending /\ (Trojan' <=> Trojan) /\ Orders /\ FramesType
      /\ (pc \in {"client", "flush"} => state = "udp") /\ (Trojan => pc # "s5in")
  BY ConfStays DEF Sorted, RepliesType, Orders
<1>s. SUFFICES ASSUME Trojan, state' # "ended" PROVE Woken' BY <1>0 DEF Woken, Idle
<1>f. ASSUME NEW k \in 0 .. 2, Flush(k)
      PROVE  /\ pend.full => pend'.full
             /\ k # pend.left => pend'.full
  <2>1. /\ k <= pend.left /\ (pend.full => k = 0)
        /\ pend' = IF k = pend.left THEN Nothing
                   ELSE [pend EXCEPT !.left = pend.left - k, !.full = TRUE]
    BY <1>f, FlushSends DEF Sorted
  <2>2. k # pend.left => pend'.full BY <1>0, <2>1 DEF Sending
  <2> QED BY <2>1, <2>2 DEF Kept
<1>1. CASE ClientFrame
  <2> DEFINE f == inq[1]
  <2>1. pc = "client" /\ state = "udp" /\ UNCHANGED <<sock, ready, ev>> /\ f \in Nat
    BY <1>0, <1>1, FirstOf DEF ClientFrame, FramesType
  <2>2. CASE state' = "socks5_udp" BY <1>0, <1>s, <2>1, <2>2 DEF Woken, Idle
  <2>3. ASSUME NEW w, Sends(f, w) PROVE Woken'
    <3>1. pc' = "client" BY <2>1, <2>3 DEF Sends
    <3> QED BY <1>s, <2>1, <2>3, <3>1 DEF Woken, Idle, Sends
  <2>4. CASE LooksUp(f)
    <3>1. state' = "resolving" /\ (query' # <<>> \/ Busy')
      <4>1. CASE query' = <<f>> BY <2>4, <4>1 DEF LooksUp
      <4>2. CASE Done(f, "direct", "busy")
        <5>1. done \in Seq(Record) /\ done' = Append(done, [frame |-> f, way |-> "direct", how |-> "busy"])
          BY <1>0, <4>2 DEF FramesType, Done
        <5> DEFINE r == [frame |-> f, way |-> "direct", how |-> "busy"]
        <5>2. r \in Record /\ r.how = "busy" BY <2>1 DEF Record, Ways
        <5> HIDE DEF r
        <5>3. Len(done') = Len(done) + 1 /\ done'[Len(done) + 1] = r /\ Len(done) \in Nat
          BY <5>1, <5>2, AppendProperties, LenProperties DEF r
        <5>4. Len(done') \in 1 .. Len(done') /\ done'[Len(done')].how = "busy" BY <5>2, <5>3
        <5>5. \E i \in 1 .. Len(done') : done'[i].how = "busy" BY <5>4
        <5> QED BY <2>4, <5>5 DEF Busy, LooksUp
      <4> QED BY <2>4, <4>1, <4>2 DEF LooksUp
    <3> QED BY <1>s, <2>1, <3>1 DEF Woken, Idle
  <2> QED BY <1>1, <2>2, <2>3, <2>4 DEF ClientFrame, Opens
<1>2. CASE S5Frame BY <1>0, <1>2, <1>s DEF S5Frame
<1>3. CASE ClientRead
  <2>1. pc = "client" /\ inq = <<>> /\ UNCHANGED <<state, ev, posted>> /\ state = "udp"
    BY <1>0, <1>3 DEF ClientRead
  <2>2. CASE sock = <<>> BY <1>3, <1>s, <2>1, <2>2 DEF ClientRead, Woken, Idle
  <2>3. CASE sock # <<>>
    <3>1. pc' = "client" /\ ready' = ready BY <1>3, <2>1, <2>3 DEF ClientRead
    <3> QED BY <1>s, <2>1, <2>3, <3>1 DEF Woken, Idle
  <2> QED BY <2>2, <2>3
<1>4. CASE ClientLimit
  <2>1. /\ state = "udp" /\ UNCHANGED <<state, sock, ready, inq, query, done, ev>>
        /\ (inq # <<>> \/ ready => "client" \in posted')
    BY <1>0, <1>4 DEF ClientLimit, upward
  <2> QED BY <1>s, <2>1 DEF Woken, Idle
<1>5. CASE ClientFlush
  <2>1. PICK k \in 0 .. 2 : /\ Flush(k) /\ pc' = IF k = pend.left THEN "client" ELSE "wait"
                            /\ missed' = (k < pend.left /\ inq # <<>>)
    BY <1>5 DEF ClientFlush
  <2>2. state = "udp" /\ UNCHANGED <<state, sock, ready, inq, query, done, ev>>
    BY <1>0, <1>5 DEF ClientFlush, upward
  <2>3. CASE k = pend.left BY <1>s, <2>1, <2>2, <2>3 DEF Woken, Idle
  <2>4. CASE k # pend.left
    <3>1. k < pend.left
      <4>1. k <= pend.left BY <2>1, FlushSends DEF Sorted
      <4> QED BY <1>0, <2>4, <4>1 DEF Sending
    <3>2. pend'.full /\ missed' = (inq # <<>>) BY <1>f, <2>1, <2>4, <3>1
    <3> QED BY <1>s, <2>2, <3>2 DEF Woken, Idle
  <2> QED BY <2>3, <2>4
<1>6. CASE QueryDone
  <2>1. state' = "udp" /\ UNCHANGED <<sock, ready, inq, ev>> /\ state # "ended"
    BY <1>0, <1>6 DEF QueryDone, Orders
  <2>2. inq # <<>> \/ ready => "client" \in posted' BY <1>6, <1>s DEF QueryDone, Resumed
  <2> QED BY <1>s, <2>1, <2>2 DEF Woken, Idle
<1>7. CASE AssociationStands
  <2>1. pc' = "flush" /\ state' = "udp" /\ UNCHANGED <<sock, ready, ev>> /\ state # "ended"
    BY <1>7, <1>s DEF AssociationStands
  <2> QED BY <1>s, <2>1 DEF Woken, Idle
<1>8. CASE S5Stops BY <1>0, <1>8, <1>s DEF S5Stops
<1>9. CASE Fails BY <1>9, <1>s DEF Fails, End
<1>10. CASE WriteHandler
  <2>1. PICK k \in 0 .. 2 : Flush(k) BY <1>10 DEF WriteHandler
  <2>2. /\ UNCHANGED <<state, sock, ready, inq, query, done, missed, pc>> /\ posted \subseteq posted'
        /\ ("read" \in ev => "read" \in ev')
    BY <1>10 DEF WriteHandler, upward, Again
  <2> QED BY <1>0, <1>f, <2>1, <2>2, WokenStays DEF Idle
<1>11. CASE NetFlush
  <2>1. PICK k \in 0 .. 2 : Flush(k) BY <1>11 DEF NetFlush, Flushes
  <2>2. UNCHANGED <<state, sock, ready, inq, query, done, missed, posted, ev>> /\ pc = "netflush"
    BY <1>11 DEF NetFlush, upward
  <2> QED BY <1>0, <1>f, <2>1, <2>2, WokenStays DEF Idle
<1>12. CASE NetOther \/ NetReceive \/ NetEnds
  <2>1. /\ UNCHANGED <<state, sock, ready, inq, query, done, missed, pend, ev>> /\ pc = "net"
        /\ posted \subseteq posted'
    BY <1>12 DEF NetOther, NetReceive, NetEnds, upward, downward
  <2> QED BY <1>0, <2>1, WokenStays DEF Idle
<1>13. CASE NetRelay
  <2>1. /\ UNCHANGED <<state, sock, ready, inq, query, done, missed, posted, ev>> /\ pc = "net"
    BY <1>13 DEF NetRelay, upward
  <2>2. ~pend.full BY <2>1 DEF Pipe, Kept
  <2> QED BY <1>0, <2>1, <2>2, WokenStays DEF Idle
<1>14. ASSUME NEW e \in {"client", "s5in"} \cup Sockets, Posted(e) PROVE Woken'
  <2>1. /\ posted' = posted \ {e} /\ pc = "wait" /\ pc' = Enter(e)
        /\ UNCHANGED <<state, sock, ready, inq, query, done, missed, pend, ev>>
    BY <1>14 DEF Posted, Called, downward
  <2>2. CASE e \in Sockets
    <3>1. posted \subseteq posted' \cup Sockets BY <2>1, <2>2
    <3> QED BY <1>0, <2>1, <3>1, WokenStays DEF Idle
  <2>3. CASE e = "client" /\ state = "udp"
    <3>1. pc' = "flush" BY <2>1, <2>3 DEF Enter
    <3> QED BY <1>s, <2>1, <3>1 DEF Woken, Idle
  <2>4. CASE e = "client" /\ state # "udp"
    <3>1. Busy' = Busy BY <2>1 DEF Busy
    <3> QED BY <1>s, <2>1, <2>4, <3>1 DEF Woken, Idle
  <2>5. CASE e = "s5in"
    <3>1. "client" \in posted => "client" \in posted' BY <2>1, <2>5
    <3>2. Busy' = Busy BY <2>1 DEF Busy
    <3> QED BY <1>s, <2>1, <3>1, <3>2 DEF Woken, Idle
  <2> QED BY <2>2, <2>3, <2>4, <2>5
<1>15. CASE ClientEvent
  <2>1. /\ ready' = TRUE /\ pc = "wait" /\ pc' = Enter("client")
        /\ UNCHANGED <<state, sock, inq, query, done, missed, pend, posted>>
    BY <1>15 DEF ClientEvent, Called, downward
  <2>2. CASE state = "udp"
    <3>1. pc' = "flush" BY <2>1, <2>2 DEF Enter
    <3> QED BY <1>s, <2>1, <3>1 DEF Woken, Idle
  <2>3. CASE state # "udp"
    <3>1. Busy' = Busy BY <2>1 DEF Busy
    <3> QED BY <1>s, <2>1, <2>3, <3>1 DEF Woken, Idle
  <2> QED BY <2>2, <2>3
<1>16. CASE S5Event BY <1>16, <1>s DEF S5Event
<1>17. CASE \E c \in Sockets : SocketEvent(c)
  <2>1. /\ UNCHANGED <<state, sock, ready, inq, query, done, missed, pend, ev, posted>>
        /\ pc = "wait"
    BY <1>17 DEF SocketEvent, Called, downward
  <2> QED BY <1>0, <2>1, WokenStays DEF Idle
<1>18. CASE ClientSays
  <2>1. /\ "read" \in ev'
        /\ UNCHANGED <<state, pc, inq, query, done, missed, pend, posted>>
    BY <1>18, <1>s DEF ClientSays, downward
  <2>2. Busy' = Busy BY <2>1 DEF Busy
  <2> QED BY <1>s, <2>1, <2>2 DEF Woken, Idle
<1>19. CASE Room
  <2>1. /\ UNCHANGED <<state, pc, sock, ready, inq, query, done, missed, posted>>
        /\ ev \subseteq ev' /\ (sock # <<>> => "read" \in ev')
    BY <1>19 DEF Room, upward
  <2>2. Busy' = Busy BY <2>1 DEF Busy
  <2> QED BY <1>s, <2>1, <2>2 DEF Woken, Idle
<1>20. CASE \E c \in Sockets : Arrives(c)
  <2>1. UNCHANGED <<state, pc, sock, ready, inq, query, done, missed, posted, ev, pend>>
    BY <1>20 DEF Arrives, upward
  <2> QED BY <1>0, <2>1, WokenStays DEF Idle
<1>21. CASE UNCHANGED vars
  <2>1. UNCHANGED <<state, pc, sock, ready, inq, query, done, missed, posted, ev, pend>>
    BY <1>21 DEF vars
  <2> QED BY <1>0, <2>1, WokenStays DEF Idle
<1> QED BY <1>1, <1>2, <1>3, <1>4, <1>5, <1>6, <1>7, <1>8, <1>9, <1>10, <1>11, <1>12, <1>13,
           <1>14, <1>15, <1>16, <1>17, <1>18, <1>19, <1>20, <1>21 DEF Next

Events == Kept /\ Woken

LEMMA EventsAlways == Spec => []Events
<1>1. Init => Events
  BY DEF Init, Events, Kept, Woken, Idle, Marked, Nothing, NoBatch
<1>2. Sorted /\ Delivery /\ Events /\ [Next]_vars => Events'
  BY KeptKept, WokenKept DEF Events, Delivery
<1> QED BY <1>1, <1>2, SortedAlways, DeliveryAlways, PTL DEF Spec

\* No datagram that was received and no frame of a client waits without an event.
THEOREM NoStallAlways == Spec => []NoStall
<1>1. Sorted /\ Events => NoStall
  <2> SUFFICES ASSUME Sorted, Events, pc = "wait", state # "ended", ev = {}, posted = {}, pend.left = 0
               PROVE  /\ batch.count = 0
                      /\ Trojan => \/ state = "udp" /\ sock = <<>> /\ (inq = <<>> \/ missed)
                                   \/ query # <<>> \/ state = "socks5_udp" \/ Busy
    BY DEF NoStall
  <2>1. ~pend.full /\ batch.count = 0 BY DEF Events, Kept, Marked
  <2>2. state \in {"udp", "resolving", "socks5_udp"} BY DEF Sorted, StateType
  <2> QED BY <2>1, <2>2 DEF Events, Woken, Idle
<1> QED BY <1>1, SortedAlways, EventsAlways, PTL
=============================================================================
