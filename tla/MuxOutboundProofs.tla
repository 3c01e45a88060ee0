------------------------- MODULE MuxOutboundProofs -------------------------
(***************************************************************************)
(* Proofs about MuxOutbound, for any number of streams and any sizes: the  *)
(* types, the window of the client under wrapping counters, the end of a   *)
(* stream, and the wake-ups.                                               *)
(***************************************************************************)
EXTENDS MuxOutbound, QueueProofs

----------------------------------------------------------------------------
(* Arithmetic of wrapping counters.                                        *)

LEMMA Constants ==
  /\ NoStream \notin Streams /\ Versions \subseteq {1, 2} /\ Partial \in BOOLEAN
  /\ HeaderLen \in Nat \ {0} /\ UpdLen \in Nat \ {0} /\ MaxFrame \in Nat \ {0}
  /\ Cap \in Nat \ {0} /\ Limit \in Nat \ {0} /\ PeerWindow \in Nat \ {0}
  /\ Threshold \in Nat \ {0} /\ Modulus \in Nat \ {0} /\ ReqLen \in Nat \ {0}
  /\ MaxIn \in Nat \ {0}
  /\ MaxOut \in [Versions -> Nat]
  /\ 2 * PeerWindow < Modulus /\ Cap <= MaxFrame /\ HeaderLen + Cap < Limit
BY ConstantsAssumption

\* A counter and the remainder of a smaller one tell their difference.
LEMMA ModDifference ==
  ASSUME NEW m \in Nat \ {0}, NEW b \in Nat, NEW a \in Nat, b <= a, a - b < m
  PROVE  (a - (b % m)) % m = a - b
OBVIOUS

LEMMA DivMod ==
  ASSUME NEW m \in Nat \ {0}, NEW b \in Int
  PROVE  b \div m \in Int /\ b = m * (b \div m) + (b % m)
OBVIOUS

LEMMA ModBehind ==
  ASSUME NEW m \in Nat \ {0}, NEW b \in Nat, NEW a \in Nat, b <= a, a - b < m
  PROVE  ((b % m) - a) % m = IF a = b THEN 0 ELSE m - (a - b)
<1> DEFINE k == b \div m
<1>1. k \in Int /\ b = m * k + (b % m) /\ b % m \in Int BY DivMod
<1> HIDE DEF k
<1>2. CASE a = b
  <2>1. (b % m) - a = m * (0 - k) + 0 BY <1>1, <1>2
  <2>2. 0 - k \in Int /\ (b % m) - a \in Int BY <1>1
  <2>3. ((b % m) - a) % m = 0 BY <2>1, <2>2, ModUnique
  <2> QED BY <1>2, <2>3
<1>3. CASE a # b
  <2>1. (b % m) - a = m * (0 - k - 1) + (m - (a - b)) BY <1>1
  <2>2. 0 - k - 1 \in Int /\ m - (a - b) \in Int /\ 0 <= m - (a - b) /\ m - (a - b) < m
    BY <1>1, <1>3
  <2>3. (b % m) - a \in Int BY <1>1
  <2>4. ((b % m) - a) % m = m - (a - b) BY <2>1, <2>2, <2>3, ModUnique
  <2> QED BY <1>3, <2>4
<1> QED BY <1>2, <1>3

\* The signed difference of two counters less than half the range apart.
LEMMA SignedDifference ==
  ASSUME NEW b \in Nat, NEW a \in Nat, b <= a, a - b <= PeerWindow
  PROVE  Signed((a - (b % Modulus)) % Modulus) = a - b
<1>1. a - b < Modulus /\ 2 * (a - b) < Modulus BY Constants
<1>2. (a - (b % Modulus)) % Modulus = a - b BY <1>1, Constants, ModDifference
<1>3. ~(2 * (a - b) >= Modulus) BY <1>1, Constants
<1> QED BY <1>2, <1>3, Zenon DEF Signed

LEMMA SignedBehind ==
  ASSUME NEW b \in Nat, NEW a \in Nat, b <= a, a - b <= PeerWindow
  PROVE  Signed(((b % Modulus) - a) % Modulus) <= 0
<1>1. a - b < Modulus /\ 2 * (a - b) < Modulus BY Constants
<1>2. CASE a = b
  <2>1. ((b % Modulus) - a) % Modulus = 0 BY <1>1, <1>2, Constants, ModBehind
  <2>2. 2 * 0 < Modulus BY Constants
  <2> QED BY <2>1, <2>2, Constants DEF Signed
<1>3. CASE a # b
  <2>0. Modulus \in Nat \ {0} /\ a - b < Modulus BY <1>1, Constants
  <2>1. ((b % Modulus) - a) % Modulus = Modulus - (a - b)
    BY <1>3, <2>0, ModBehind, Zenon
  <2>2. 2 * (Modulus - (a - b)) >= Modulus BY <1>1, Constants
  <2>3. Signed(Modulus - (a - b)) = (Modulus - (a - b)) - Modulus BY <2>2, Zenon DEF Signed
  <2> QED BY <1>3, <2>1, <2>3, Constants
<1> QED BY <1>2, <1>3

----------------------------------------------------------------------------
(* The inductive invariant.                                                *)

Control ==
  /\ version \in Versions
  /\ pc \in PCs /\ ret \in {"idle", "work"} /\ cur \in Streams \cup {NoStream}
  /\ pc \in {"upd", "frame", "process"} => cur \in Streams
  /\ wrote \in 0 .. (Limit - 1) /\ cw \in BOOLEAN

\* Buffers; what was sent and what is buffered came from the upstream.
Reads ==
  /\ st \in [Streams -> {"absent", "proxy", "closing", "gone"}]
  /\ ub \in [Streams -> 0 .. Cap] /\ last \in [Streams -> 0 .. Cap]
  /\ out \in [Streams -> Nat]
  /\ eof \in [Streams -> BOOLEAN] /\ ready \in [Streams -> BOOLEAN]
  /\ postedUp \in [Streams -> BOOLEAN] /\ again \subseteq Streams
  /\ \A s \in Streams : out[s] + ub[s] <= MaxOut[version]

FrameSet == [on : BOOLEAN, hpos : 0 .. HeaderLen, len : 0 .. Cap, sent : 0 .. Cap]

\* The rest of a packed frame is in the buffer.
Rest(s) == frame[s].len - frame[s].sent
Frames ==
  /\ frame \in [Streams -> FrameSet]
  /\ \A s \in Streams : /\ frame[s].sent <= frame[s].len
                        /\ Rest(s) <= ub[s]
                        /\ ~frame[s].on => frame[s] = NoFrame

\* A FIN is only due at the end of the upstream, and a closing stream has
\* its FIN due or sent.
Fins ==
  /\ finDue \in [Streams -> BOOLEAN] /\ finSent \in [Streams -> BOOLEAN]
  /\ finPos \in [Streams -> 0 .. HeaderLen]
  /\ \A s \in Streams :
       /\ finSent[s] \/ finPos[s] > 0 => eof[s] /\ ub[s] = 0 /\ ~frame[s].on
       /\ finDue[s] => eof[s]
       /\ st[s] = "closing" => finDue[s] \/ finSent[s]
       /\ st[s] = "gone" => finSent[s]

UpdSet == [on : BOOLEAN, val : Nat, pos : 0 .. UpdLen, resend : BOOLEAN]
Updates ==
  /\ rx \in [Streams -> Nat] /\ since \in [Streams -> Nat]
  /\ report \in [Streams -> Nat] /\ told \in [Streams -> Nat]
  /\ upd \in [Streams -> UpdSet]

QueueTypes == flushQ \in Seq(Streams) /\ updQ \in Seq(Streams)

\* The last report read is the remainder of a number x of consumed bytes,
\* and the bytes on the way past x, the packed ones included, fit the
\* client's window.  A report under way is of all it has consumed.
Counted(s, x) ==
  /\ seen[s] = x % Modulus
  /\ version = 2 => out[s] + Rest(s) - x <= PeerWindow
Windows ==
  /\ seen \in [Streams -> 0 .. (Modulus - 1)] /\ eaten \in [Streams -> Nat]
  /\ acks \in [Streams -> Seq(0 .. (Modulus - 1))]
  /\ \A s \in Streams :
       /\ eaten[s] <= out[s]
       /\ acks[s] = <<>> \/ acks[s] = <<eaten[s] % Modulus>>
       /\ \E x \in 0 .. eaten[s] : Counted(s, x)

IInv == Control /\ Reads /\ Frames /\ Fins /\ Updates /\ QueueTypes /\ Windows

----------------------------------------------------------------------------
(* What the invariant says.                                                *)

LEMMA InvTypes == IInv => TypeOK
<1> SUFFICES ASSUME IInv PROVE TypeOK OBVIOUS
<1>1. version \in Versions /\ MaxOut[version] \in Nat BY Constants DEF IInv, Control
<1>2. out \in [Streams -> 0 .. MaxOut[version]]
  <2>1. \A s \in Streams : out[s] \in 0 .. MaxOut[version]
    BY <1>1, Constants DEF IInv, Reads
  <2> QED BY <2>1 DEF IInv, Reads
<1> QED BY <1>2 DEF IInv, TypeOK, Control, Reads, Frames, FrameSet, Fins, Updates, UpdSet,
           QueueTypes, Windows

LEMMA InvWindow ==
  ASSUME IInv, version = 2, NEW s \in Streams
  PROVE  /\ out[s] + (frame[s].len - frame[s].sent) - eaten[s] <= PeerWindow
         /\ Inflight(s) \in 0 .. PeerWindow
         /\ \A i \in 1 .. Len(acks[s]) : Signed((acks[s][i] - out[s]) % Modulus) <= 0
<1>1. PICK x \in 0 .. eaten[s] : Counted(s, x) BY DEF IInv, Windows
<1>2. /\ eaten[s] \in Nat /\ out[s] \in Nat /\ eaten[s] <= out[s]
      /\ x \in Nat /\ x <= eaten[s]
      /\ acks[s] = <<>> \/ acks[s] = <<eaten[s] % Modulus>>
  BY DEF IInv, Windows, Reads
<1>3. frame[s].len \in Nat /\ frame[s].sent \in Nat /\ frame[s].sent <= frame[s].len
  BY DEF IInv, Frames, FrameSet
<1>4. /\ seen[s] = x % Modulus
      /\ out[s] + (frame[s].len - frame[s].sent) - x <= PeerWindow
  BY <1>1 DEF Counted, Rest
<1>5. PeerWindow \in Nat BY Constants
<1>6. x <= out[s] /\ out[s] - x <= PeerWindow /\ out[s] - eaten[s] <= PeerWindow
  BY <1>2, <1>3, <1>4, <1>5
<1>7. Inflight(s) = out[s] - x
  BY <1>2, <1>4, <1>6, SignedDifference, Zenon DEF Inflight
<1>8. ASSUME NEW i \in 1 .. Len(acks[s])
      PROVE  Signed((acks[s][i] - out[s]) % Modulus) <= 0
  <2>1. acks[s] = <<eaten[s] % Modulus>> BY <1>2
  <2>2. acks[s][i] = eaten[s] % Modulus BY <2>1
  <2> QED BY <1>2, <1>6, <2>2, SignedBehind, Zenon
<1> QED BY <1>2, <1>3, <1>4, <1>5, <1>6, <1>7, <1>8

LEMMA InitInv == Init => IInv
<1> SUFFICES ASSUME Init PROVE IInv OBVIOUS
<1>1. version \in Versions /\ MaxOut[version] \in Nat BY Constants DEF Init
<1>2. Control BY Constants DEF Init, Control, PCs
<1>3. Reads BY <1>1, Constants DEF Init, Reads
<1>4. Frames BY Constants DEF Init, Frames, FrameSet, Rest, NoFrame
<1>5. Fins BY Constants DEF Init, Fins, NoFrame
<1>6. Updates BY Constants DEF Init, Updates, UpdSet, NoUpd
<1>7. QueueTypes BY EmptySeq DEF Init, QueueTypes
<1>8. Windows
  <2>1. 0 % Modulus = 0 BY Constants
  <2>2. \A s \in Streams : /\ seen[s] = 0 /\ eaten[s] = 0 /\ out[s] = 0 /\ acks[s] = <<>>
                           /\ frame[s] = NoFrame
    BY DEF Init
  <2>3. \A s \in Streams : Counted(s, 0)
    BY <2>1, <2>2, Constants DEF Counted, Rest, NoFrame
  <2>4. /\ seen \in [Streams -> 0 .. (Modulus - 1)] /\ eaten \in [Streams -> Nat]
        /\ acks \in [Streams -> Seq(0 .. (Modulus - 1))]
    BY Constants, EmptySeq DEF Init
  <2> QED BY <2>2, <2>3, <2>4 DEF Windows
<1> QED BY <1>2, <1>3, <1>4, <1>5, <1>6, <1>7, <1>8 DEF IInv

----------------------------------------------------------------------------
(* What a step leaves alone keeps its part of the invariant.               *)

LEMMA SameReads ==
  ASSUME Reads, UNCHANGED <<version, st, readVars, out>> PROVE Reads'
BY Zenon DEF Reads, readVars

LEMMA SameFrames ==
  ASSUME Frames, UNCHANGED <<ub, frame>> PROVE Frames'
BY Zenon DEF Frames, Rest

LEMMA SameFins ==
  ASSUME Fins, UNCHANGED <<st, eof, ub, frame, finVars>> PROVE Fins'
BY Zenon DEF Fins, finVars

LEMMA SameUpdates ==
  ASSUME Updates, UNCHANGED <<rx, since, report, told, upd>> PROVE Updates'
BY Zenon DEF Updates

LEMMA SameQueues ==
  ASSUME QueueTypes, UNCHANGED <<flushQ, updQ>> PROVE QueueTypes'
BY Zenon DEF QueueTypes

LEMMA SameWindows ==
  ASSUME Windows, UNCHANGED <<version, out, frame, seen, clientVars>> PROVE Windows'
BY Zenon DEF Windows, Counted, Rest, clientVars

----------------------------------------------------------------------------
(* How handlers begin and end.                                             *)

LEMMA FlushStarts ==
  ASSUME Control, NEW r \in {"idle", "work"}, StartFlush(r),
         version' = version, cur' \in Streams \cup {NoStream}, cw' \in BOOLEAN
  PROVE  Control'
BY Constants DEF Control, StartFlush, PCs

LEMMA ProcessEnds ==
  ASSUME Control, EndProcess, UNCHANGED <<version, cw>>
  PROVE  Control'
<1>1. CASE ret = "idle" BY <1>1, Constants DEF Control, EndProcess, StartFlush, PCs
<1>2. CASE ret # "idle" BY <1>2, Constants DEF Control, EndProcess, PCs
<1> QED BY <1>1, <1>2

LEMMA StopsControl ==
  ASSUME Control, FlushStops, version' = version
  PROVE  Control'
<1>1. wrote' = 0 /\ 0 \in 0 .. (Limit - 1) BY Constants DEF FlushStops
<1>2. pc' \in {"idle", "work"} /\ pc' \in PCs BY DEF Control, FlushStops, PCs
<1>3. pc' \notin {"upd", "frame", "process"} BY <1>2
<1>4. ret' \in {"idle", "work"} /\ cur' \in Streams \cup {NoStream} /\ cw' \in BOOLEAN
  BY DEF FlushStops
<1> QED BY <1>1, <1>2, <1>3, <1>4, Zenon DEF Control

LEMMA GoesOnControl ==
  ASSUME Control, NEW n \in Nat, FlushGoesOn(n), version' = version
  PROVE  Control'
<1>1. CASE wrote + n >= Limit BY <1>1, StopsControl DEF FlushGoesOn
<1>2. CASE ~(wrote + n >= Limit)
  BY <1>2, Constants DEF Control, FlushGoesOn, PCs
<1> QED BY <1>1, <1>2

----------------------------------------------------------------------------
(* The handlers' steps.                                                    *)

LEMMA StepClientEvent == ASSUME IInv, ClientEvent PROVE IInv'
<1> USE DEF IInv
<1>1. Control' BY FlushStarts DEF ClientEvent, Control
<1>2. Reads' BY SameReads DEF ClientEvent
<1>3. Frames' BY SameFrames DEF ClientEvent, readVars
<1>4. Fins' BY SameFins DEF ClientEvent, readVars
<1>5. Updates' /\ QueueTypes' BY SameUpdates, SameQueues DEF ClientEvent, updVars
<1>6. Windows' BY SameWindows DEF ClientEvent
<1> QED BY <1>1, <1>2, <1>3, <1>4, <1>5, <1>6

LEMMA StepWorkEnd == ASSUME IInv, WorkEnd PROVE IInv'
<1> USE DEF IInv
<1>1. Control' BY FlushStarts DEF WorkEnd, Control
<1>2. Reads' BY SameReads DEF WorkEnd
<1>3. Frames' BY SameFrames DEF WorkEnd, readVars
<1>4. Fins' BY SameFins DEF WorkEnd, readVars
<1>5. Updates' /\ QueueTypes' BY SameUpdates, SameQueues DEF WorkEnd, updVars
<1>6. Windows' BY SameWindows DEF WorkEnd
<1> QED BY <1>1, <1>2, <1>3, <1>4, <1>5, <1>6

LEMMA StepOpen == ASSUME IInv, NEW s \in Streams, Open(s) PROVE IInv'
<1> USE DEF IInv
<1>1. Control' BY DEF Open, Control, flushVars
<1>2. Reads' BY DEF Open, Reads, readVars
<1>3. Frames' BY SameFrames DEF Open, readVars
<1>4. Fins'
  <2>1. /\ st' = [st EXCEPT ![s] = "proxy"]
        /\ UNCHANGED <<finDue, finSent, finPos, eof, ub, frame>>
    BY DEF Open, finVars, readVars
  <2>2. \A x \in Streams : st'[x] \in {"closing", "gone"} => st'[x] = st[x]
    BY <2>1 DEF Reads
  <2> QED BY <2>1, <2>2, Zenon DEF Fins
<1>5. Updates' BY Constants DEF Open, Updates
<1>6. QueueTypes' BY SameQueues DEF Open
<1>7. Windows' BY SameWindows DEF Open
<1> QED BY <1>1, <1>2, <1>3, <1>4, <1>5, <1>6, <1>7

LEMMA StepTakeUpd == ASSUME IInv, NEW s \in Streams, TakeUpd(s) PROVE IInv'
<1> USE DEF IInv
<1>1. Control' BY DEF TakeUpd, Control, flushVars
<1>2. Reads' BY SameReads DEF TakeUpd
<1>3. Frames' BY SameFrames DEF TakeUpd, readVars
<1>4. Fins' BY SameFins DEF TakeUpd, readVars
<1>5. Updates' BY SameUpdates DEF TakeUpd, updVars
<1>6. QueueTypes'
  <2>1. updQ' = updQ /\ flushQ' \in {flushQ, Enqueue(flushQ, s)} BY DEF TakeUpd, updVars
  <2> QED BY <2>1, EnqueueProperties DEF QueueTypes
<1>7. Windows'
  <2>1. /\ acks[s] = <<eaten[s] % Modulus>>
        /\ acks' = [acks EXCEPT ![s] = Tail(@)]
        /\ seen' \in {seen, [seen EXCEPT ![s] = Head(acks[s])]}
        /\ UNCHANGED <<version, out, frame, eaten>>
    BY DEF TakeUpd, Windows
  <2>2. Head(acks[s]) = eaten[s] % Modulus /\ Tail(acks[s]) = <<>> BY <2>1
  <2>3. eaten[s] % Modulus \in 0 .. Modulus - 1 BY Constants DEF Windows
  <2>4. seen' \in [Streams -> 0 .. (Modulus - 1)]
    BY <2>1, <2>2, <2>3 DEF Windows
  <2>5. acks' \in [Streams -> Seq(0 .. (Modulus - 1))] /\ acks'[s] = <<>>
        /\ \A x \in Streams \ {s} : acks'[x] = acks[x]
    BY <2>1, <2>2, EmptySeq DEF Windows
  <2>6. ASSUME NEW x \in Streams PROVE \E y \in 0 .. eaten[x] : Counted(x, y)'
    <3>1. PICK y \in 0 .. eaten[x] : Counted(x, y) BY DEF Windows
    <3>2. CASE seen'[x] = seen[x] BY <2>1, <3>1, <3>2 DEF Counted, Rest
    <3>3. CASE seen'[x] # seen[x]
      <4>1. x = s /\ seen'[x] = eaten[x] % Modulus BY <2>1, <2>2, <3>3 DEF Windows
      <4>2. /\ eaten[x] \in Nat /\ y \in Nat /\ y <= eaten[x] /\ out[x] \in Nat
            /\ frame[x].len \in Nat /\ frame[x].sent \in Nat
        BY DEF Windows, Reads, Frames, FrameSet
      <4>3. version = 2 => out[x] + Rest(x) - eaten[x] <= PeerWindow
        BY <3>1, <4>2, Constants DEF Counted, Rest
      <4>4. PICK e \in 0 .. eaten[x] : e = eaten[x] BY <4>2
      <4>5. Counted(x, e)' BY <2>1, <4>1, <4>3, <4>4 DEF Counted, Rest
      <4> QED BY <4>5, Zenon
    <3> QED BY <3>2, <3>3
  <2> QED BY <2>1, <2>4, <2>5, <2>6 DEF Windows
<1> QED BY <1>1, <1>2, <1>3, <1>4, <1>5, <1>6, <1>7

LEMMA StepStartProcess == ASSUME IInv, NEW s \in Streams, StartProcess(s) PROVE IInv'
<1> USE DEF IInv
<1>1. Control' BY DEF StartProcess, Control, PCs
<1>2. Reads'
  <2>1. PICK arrived \in BOOLEAN : ready' = [ready EXCEPT ![s] = @ \/ arrived]
    BY DEF StartProcess
  <2>2. ready' \in [Streams -> BOOLEAN] BY <2>1 DEF Reads
  <2>3. postedUp' \in [Streams -> BOOLEAN] BY DEF StartProcess, Reads
  <2>4. again' \subseteq Streams BY DEF StartProcess, Reads
  <2>5. UNCHANGED <<version, st, ub, last, out, eof>> BY DEF StartProcess
  <2> QED BY <2>2, <2>3, <2>4, <2>5, Zenon DEF Reads
<1>3. Frames' BY SameFrames DEF StartProcess
<1>4. Fins' BY SameFins DEF StartProcess
<1>5. Updates' /\ QueueTypes' BY SameUpdates, SameQueues DEF StartProcess, updVars
<1>6. Windows' BY SameWindows DEF StartProcess
<1> QED BY <1>1, <1>2, <1>3, <1>4, <1>5, <1>6

LEMMA StepDeliver == ASSUME IInv, NEW n \in 1 .. MaxIn, Deliver(n) PROVE IInv'
<1> USE DEF IInv
<1>0. cur \in Streams /\ n \in Nat BY Constants DEF Deliver, Control
<1>1. Control' BY DEF Deliver, Control, flushVars
<1>2. Reads' BY SameReads DEF Deliver
<1>3. Frames' BY SameFrames DEF Deliver, readVars
<1>4. Fins' BY SameFins DEF Deliver, readVars
<1>5. Updates'
  <2>1. rx' = [rx EXCEPT ![cur] = @ + n] /\ told' = told BY DEF Deliver, Consume
  <2>2. rx' \in [Streams -> Nat] BY <1>0, <2>1 DEF Updates
  <2>3. CASE Due(cur, n)
    <3>1. /\ report' = [report EXCEPT ![cur] = rx[cur] + n]
          /\ since' = [since EXCEPT ![cur] = 0]
          /\ upd' = [upd EXCEPT ![cur].on = @ /\ ~(In(updQ, cur) /\ upd[cur].pos = 0),
                                ![cur].resend = @ \/ (In(updQ, cur) /\ upd[cur].pos > 0)]
      BY <2>3 DEF Deliver, Consume
    <3>2. report' \in [Streams -> Nat] /\ since' \in [Streams -> Nat]
      BY <1>0, <3>1 DEF Updates
    <3>3. upd' \in [Streams -> UpdSet]
      <4> DEFINE r == [upd[cur] EXCEPT !.on = @ /\ ~(In(updQ, cur) /\ upd[cur].pos = 0),
                                       !.resend = @ \/ (In(updQ, cur) /\ upd[cur].pos > 0)]
      <4>1. upd' = [upd EXCEPT ![cur] = r] BY <3>1, Zenon
      <4>2. upd \in [Streams -> UpdSet] /\ upd[cur] \in UpdSet BY <1>0 DEF Updates
      <4>3. r \in UpdSet BY <4>2 DEF UpdSet
      <4> HIDE DEF r
      <4> QED BY <1>0, <4>1, <4>2, <4>3
    <3> QED BY <2>1, <2>2, <3>2, <3>3 DEF Updates
  <2>4. CASE ~Due(cur, n)
    <3>1. since' = [since EXCEPT ![cur] = @ + n] /\ UNCHANGED <<report, upd>>
      BY <2>4 DEF Deliver, Consume
    <3>2. since' \in [Streams -> Nat] BY <1>0, <3>1 DEF Updates
    <3> QED BY <2>1, <2>2, <3>1, <3>2 DEF Updates
  <2> QED BY <2>3, <2>4
<1>6. QueueTypes'
  <2>1. flushQ' = flushQ /\ updQ' \in {updQ, Enqueue(updQ, cur)} BY DEF Deliver, Consume
  <2> QED BY <1>0, <2>1, EnqueueProperties DEF QueueTypes
<1>7. Windows' BY SameWindows DEF Deliver
<1> QED BY <1>1, <1>2, <1>3, <1>4, <1>5, <1>6, <1>7

LEMMA StepBusy == ASSUME IInv, Busy PROVE IInv'
<1> USE DEF IInv
<1>1. Control' BY ProcessEnds DEF Busy
<1>2. Reads' BY DEF Busy, Reads, Control
<1>3. Frames' BY SameFrames DEF Busy
<1>4. Fins' BY SameFins DEF Busy
<1>5. Updates' /\ QueueTypes' BY SameUpdates, SameQueues DEF Busy, updVars
<1>6. Windows' BY SameWindows DEF Busy
<1> QED BY <1>1, <1>2, <1>3, <1>4, <1>5, <1>6

LEMMA StepReadUpstream == ASSUME IInv, NEW k \in 0 .. Cap, ReadUpstream(k) PROVE IInv'
<1> USE DEF IInv
<1> DEFINE s == cur
           reads == ub[s] = 0 /\ ~eof[s] /\ ready[s]
<1>0. s \in Streams /\ k \in Nat /\ Cap \in Nat BY Constants DEF ReadUpstream, Control
<1>1. /\ k > 0 => reads /\ k <= Cap - last[s]
      /\ out[s] + (ub[s] + k) <= MaxOut[version]
      /\ ub' = [ub EXCEPT ![s] = ub[s] + k] /\ last' = [last EXCEPT ![s] = @ + k]
      /\ UNCHANGED <<version, cw, postedUp, again, st, out, frame, finPos, finSent>>
  BY DEF ReadUpstream
<1>2. PICK end \in BOOLEAN, more \in BOOLEAN :
        /\ eof' = [eof EXCEPT ![s] = @ \/ end]
        /\ ready' = [ready EXCEPT ![s] = IF reads THEN more ELSE @]
  BY DEF ReadUpstream
<1>3. eof' \in [Streams -> BOOLEAN] /\ ready' \in [Streams -> BOOLEAN]
      /\ \A x \in Streams : eof[x] => eof'[x]
  BY <1>0, <1>2 DEF Reads
<1>4. /\ ub[s] \in 0 .. Cap /\ last[s] \in 0 .. Cap /\ ub \in [Streams -> 0 .. Cap]
      /\ last \in [Streams -> 0 .. Cap]
  BY <1>0 DEF Reads
<1>5. ub[s] + k \in 0 .. Cap /\ last[s] + k \in 0 .. Cap BY <1>0, <1>1, <1>4
<1>6. Control' BY <1>1, ProcessEnds DEF ReadUpstream
<1>7. Reads'
  <2>1. ub' \in [Streams -> 0 .. Cap] /\ last' \in [Streams -> 0 .. Cap]
    BY <1>0, <1>1, <1>4, <1>5
  <2>2. \A x \in Streams : out'[x] + ub'[x] <= MaxOut'[version']
    BY <1>0, <1>1, <1>4 DEF Reads
  <2> QED BY <1>1, <1>3, <2>1, <2>2, Zenon DEF Reads
<1>8. \A x \in Streams : ub'[x] \in Nat /\ ub'[x] >= ub[x]
  BY <1>0, <1>1, <1>4
<1>9. Frames'
  <2>1. \A x \in Streams : frame[x].len - frame[x].sent <= ub'[x]
    BY <1>4, <1>8 DEF Frames, FrameSet, Rest
  <2> QED BY <1>1, <2>1, Zenon DEF Frames, Rest
<1>10. Fins'
  <2>1. finDue' = [finDue EXCEPT ![s] = @ \/ (eof'[s] /\ ub[s] + k = 0 /\ ~finSent[s])]
    BY DEF ReadUpstream
  <2>2. finDue' \in [Streams -> BOOLEAN] BY <1>0, <2>1 DEF Fins
  <2>3. \A x \in Streams : /\ finDue'[x] => finDue[x] \/ eof'[x]
                           /\ finDue[x] => finDue'[x]
    BY <1>0, <2>1 DEF Fins
  <2>4. ASSUME NEW x \in Streams, eof[x] PROVE ub'[x] = ub[x]
    BY <1>0, <1>1, <1>4, <2>4
  <2> QED BY <1>1, <1>3, <2>2, <2>3, <2>4, Zenon DEF Fins
<1>11. Updates' BY SameUpdates DEF ReadUpstream, updVars
<1>12. QueueTypes'
  <2>1. updQ' = updQ /\ flushQ' \in {flushQ, Enqueue(flushQ, s)}
    BY DEF ReadUpstream, updVars
  <2> QED BY <1>0, <2>1, EnqueueProperties DEF QueueTypes
<1>13. Windows' BY SameWindows DEF ReadUpstream
<1> QED BY <1>6, <1>7, <1>9, <1>10, <1>11, <1>12, <1>13

LEMMA StepCloseStream == ASSUME IInv, NEW s \in Streams, CloseStream(s) PROVE IInv'
<1> USE DEF IInv
<1>1. /\ st[s] = "proxy"
      /\ eof' = [eof EXCEPT ![s] = TRUE]
      /\ finDue' = [finDue EXCEPT ![s] = @ \/ ~finSent[s]]
      /\ ready' = [ready EXCEPT ![s] = FALSE] /\ postedUp' = [postedUp EXCEPT ![s] = FALSE]
      /\ again' = again \ {s}
      /\ UNCHANGED <<version, cw, ub, last, out, frame, finPos, finSent>>
  BY DEF CloseStream
<1>2. IF finSent[s] THEN st' = [st EXCEPT ![s] = "gone"]
      ELSE st' = [st EXCEPT ![s] = "closing"]
  BY DEF CloseStream, Free
<1>3. Control'
  <2>1. CASE pc = "process" BY <2>1, ProcessEnds DEF CloseStream
  <2>2. CASE pc = "idle" BY <2>2, FlushStarts DEF CloseStream, Control
  <2>3. CASE pc = "work" BY <2>3 DEF CloseStream, Control
  <2> QED BY <2>1, <2>2, <2>3 DEF CloseStream
<1>4. Reads' BY <1>1, <1>2 DEF Reads
<1>5. Frames' BY <1>1, SameFrames
<1>6. Fins'
  <2>1. finDue' \in [Streams -> BOOLEAN] BY <1>1 DEF Fins
  <2>2. \A x \in Streams \ {s} : st'[x] = st[x] /\ eof'[x] = eof[x] /\ finDue'[x] = finDue[x]
    BY <1>1, <1>2 DEF Reads, Fins
  <2>3. eof'[s] = TRUE BY <1>1 DEF Reads
  <2>4. finSent[s] => st'[s] = "gone" BY <1>2 DEF Reads
  <2>5. ~finSent[s] => st'[s] = "closing" /\ finDue'[s] BY <1>1, <1>2 DEF Reads, Fins
  <2>6. "gone" # "closing" OBVIOUS
  <2>7. ASSUME NEW x \in Streams
        PROVE  /\ finSent'[x] \/ finPos'[x] > 0 => eof'[x] /\ ub'[x] = 0 /\ ~frame'[x].on
               /\ finDue'[x] => eof'[x]
               /\ st'[x] = "closing" => finDue'[x] \/ finSent'[x]
               /\ st'[x] = "gone" => finSent'[x]
    <3>1. CASE x = s BY <1>1, <2>3, <2>4, <2>5, <2>6, <3>1, Zenon DEF Fins
    <3>2. CASE x # s BY <1>1, <2>2, <3>2, Zenon DEF Fins
    <3> QED BY <3>1, <3>2
  <2> QED BY <1>1, <2>1, <2>7, Zenon DEF Fins
<1>7. Updates' BY SameUpdates DEF CloseStream
<1>8. QueueTypes'
  <2>1. /\ flushQ' \in {Without(flushQ, s), Enqueue(flushQ, s)}
        /\ updQ' \in {updQ, Without(updQ, s)}
    BY DEF CloseStream, Free
  <2> QED BY <2>1, EnqueueProperties, WithoutType DEF QueueTypes
<1>9. Windows' BY <1>1, SameWindows DEF CloseStream
<1> QED BY <1>3, <1>4, <1>5, <1>6, <1>7, <1>8, <1>9

LEMMA StepFlushEnd == ASSUME IInv, FlushEnd PROVE IInv'
<1> USE DEF IInv
<1>1. Control'
  <2>1. wrote' = 0 /\ 0 \in 0 .. (Limit - 1) BY Constants DEF FlushEnd
  <2>2. pc' \in {"idle", "work"} /\ ret' = "idle" BY DEF Control, FlushEnd
  <2>3. pc' \in PCs /\ pc' \notin {"upd", "frame", "process"} /\ ret' \in {"idle", "work"}
    BY <2>2 DEF PCs
  <2> QED BY <2>1, <2>3 DEF Control, FlushEnd
<1>2. Reads' BY SameReads DEF FlushEnd
<1>3. Frames' BY SameFrames DEF FlushEnd, readVars
<1>4. Fins' BY SameFins DEF FlushEnd, readVars
<1>5. Updates' /\ QueueTypes' BY SameUpdates, SameQueues DEF FlushEnd, updVars
<1>6. Windows' BY SameWindows DEF FlushEnd
<1> QED BY <1>1, <1>2, <1>3, <1>4, <1>5, <1>6

LEMMA StepNextUpd == ASSUME IInv, NextUpd PROVE IInv'
<1> USE DEF IInv
<1> DEFINE s == Head(updQ)
<1>0. s \in Streams /\ Tail(updQ) \in Seq(Streams)
  BY HeadTailProperties DEF NextUpd, QueueTypes
<1>1. Control'
  <2>1. pc' = "upd" /\ cur' \in Streams /\ UNCHANGED <<version, ret, wrote, cw>>
    BY <1>0 DEF NextUpd
  <2> QED BY <2>1 DEF Control, PCs
<1>2. Reads' BY SameReads DEF NextUpd
<1>3. Frames' BY SameFrames DEF NextUpd, readVars
<1>4. Fins' BY SameFins DEF NextUpd, readVars
<1>5. Updates'
  <2>1. upd' = [upd EXCEPT ![s] = Packed(s)] /\ UNCHANGED <<rx, since, report, told>>
    BY DEF NextUpd
  <2>2. Packed(s) \in UpdSet
    <3> HIDE DEF s
    <3>1. upd[s] \in UpdSet /\ report[s] \in Nat /\ 0 \in 0 .. UpdLen
      BY <1>0, Constants DEF Updates
    <3>2. CASE upd[s].on BY <3>1, <3>2, Zenon DEF Packed
    <3>3. CASE ~upd[s].on
      <4>1. Packed(s) = [upd[s] EXCEPT !.on = TRUE, !.val = report[s], !.pos = 0]
        BY <3>3, Zenon DEF Packed
      <4> QED BY <3>1, <4>1 DEF UpdSet
    <3> QED BY <3>2, <3>3
  <2> HIDE DEF s
  <2> QED BY <1>0, <2>1, <2>2 DEF Updates
<1>6. QueueTypes' BY <1>0 DEF NextUpd, QueueTypes
<1>7. Windows' BY SameWindows DEF NextUpd
<1> QED BY <1>1, <1>2, <1>3, <1>4, <1>5, <1>6, <1>7

LEMMA StepSendUpd == ASSUME IInv, NEW n \in 0 .. UpdLen, SendUpd(n) PROVE IInv'
<1> USE DEF IInv
<1>0. cur \in Streams /\ n \in Nat /\ upd[cur] \in UpdSet
  BY Constants DEF SendUpd, Control, Updates
<1>1. n <= UpdLen - upd[cur].pos BY DEF SendUpd, Accepts
<1>2. ASSUME upd[cur].pos + n = UpdLen PROVE Control' /\ Updates' /\ QueueTypes'
  <2>1. /\ upd' = [upd EXCEPT ![cur] = NoUpd]
        /\ told' = [told EXCEPT ![cur] = upd[cur].val]
        /\ updQ' \in {updQ, Append(updQ, cur)} /\ FlushGoesOn(n)
        /\ UNCHANGED <<version, flushQ, rx, since, report>>
    BY <1>2 DEF SendUpd
  <2>2. Control' BY <1>0, <2>1, GoesOnControl
  <2>3. NoUpd \in UpdSet /\ upd[cur].val \in Nat BY <1>0, Constants DEF NoUpd, UpdSet
  <2>4. Updates' BY <1>0, <2>1, <2>3 DEF Updates
  <2>5. QueueTypes' BY <1>0, <2>1 DEF QueueTypes
  <2> QED BY <2>2, <2>4, <2>5
<1>3. ASSUME upd[cur].pos + n # UpdLen PROVE Control' /\ Updates' /\ QueueTypes'
  <2>1. /\ upd' = [upd EXCEPT ![cur].pos = @ + n]
        /\ updQ' = Append(updQ, cur) /\ FlushStops
        /\ UNCHANGED <<version, flushQ, rx, since, report, told>>
    BY <1>3 DEF SendUpd
  <2>2. Control' BY <2>1, StopsControl
  <2>3. upd[cur].pos + n \in 0 .. UpdLen BY <1>0, <1>1, Constants DEF UpdSet
  <2>4. [upd[cur] EXCEPT !.pos = @ + n] \in UpdSet BY <1>0, <2>3 DEF UpdSet
  <2>5. Updates' BY <1>0, <2>1, <2>4 DEF Updates
  <2>6. QueueTypes' BY <1>0, <2>1 DEF QueueTypes
  <2> QED BY <2>2, <2>5, <2>6
<1>4. Control' /\ Updates' /\ QueueTypes' BY <1>2, <1>3
<1>5. Reads' BY SameReads DEF SendUpd
<1>6. Frames' BY SameFrames DEF SendUpd, readVars
<1>7. Fins' BY SameFins DEF SendUpd, readVars
<1>8. Windows' BY SameWindows DEF SendUpd
<1> QED BY <1>4, <1>5, <1>6, <1>7, <1>8

LEMMA StepNextFrame == ASSUME IInv, NextFrame PROVE IInv'
<1> USE DEF IInv
<1>0. Head(flushQ) \in Streams /\ Tail(flushQ) \in Seq(Streams)
  BY HeadTailProperties DEF NextFrame, QueueTypes
<1>1. Control'
  <2>1. pc' = "frame" /\ cur' \in Streams /\ UNCHANGED <<version, ret, wrote, cw>>
    BY <1>0 DEF NextFrame
  <2> QED BY <2>1 DEF Control, PCs
<1>2. Reads' BY SameReads DEF NextFrame
<1>3. Frames' BY SameFrames DEF NextFrame, readVars
<1>4. Fins' BY SameFins DEF NextFrame, readVars
<1>5. Updates' BY SameUpdates DEF NextFrame, updVars
<1>6. QueueTypes' BY <1>0 DEF NextFrame, QueueTypes, updVars
<1>7. Windows' BY SameWindows DEF NextFrame
<1> QED BY <1>1, <1>2, <1>3, <1>4, <1>5, <1>6, <1>7

LEMMA StepWindowClosed == ASSUME IInv, WindowClosed PROVE IInv'
<1> USE DEF IInv
<1>1. Control' BY DEF WindowClosed, Control, PCs
<1>2. Reads' BY SameReads DEF WindowClosed
<1>3. Frames' BY SameFrames DEF WindowClosed, readVars
<1>4. Fins' BY SameFins DEF WindowClosed, readVars
<1>5. Updates' /\ QueueTypes' BY SameUpdates, SameQueues DEF WindowClosed, updVars
<1>6. Windows' BY SameWindows DEF WindowClosed
<1> QED BY <1>1, <1>2, <1>3, <1>4, <1>5, <1>6

\* A packed frame fits the window that the last report leaves.
LEMMA StepPackFrame == ASSUME IInv, PackFrame PROVE IInv'
<1> USE DEF IInv
<1> DEFINE s == cur
           len == Smaller(ub[s], Window(s))
           f == [on |-> TRUE, hpos |-> 0, len |-> len, sent |-> 0]
<1>0. s \in Streams /\ ub[s] \in 0 .. Cap /\ ub[s] > 0 /\ ~frame[s].on /\ Window(s) > 0
  BY DEF PackFrame, Control, Reads
<1>1. frame' = [frame EXCEPT ![s] = f] BY DEF PackFrame
<1>2. /\ UNCHANGED <<version, flushVars, st, readVars, out, finVars, seen, updVars,
                     flushQ, clientVars>>
      /\ cur' = cur
  BY DEF PackFrame, flushVars
<1>3. PICK x \in 0 .. eaten[s] : Counted(s, x) BY <1>0 DEF Windows
<1>4. /\ out[s] \in Nat /\ eaten[s] \in Nat /\ eaten[s] <= out[s] /\ x \in Nat /\ x <= eaten[s]
  BY <1>0, <1>3 DEF Windows, Reads
<1>5. Rest(s) = 0
  <2>1. frame[s] = NoFrame BY <1>0 DEF Frames
  <2> QED BY <2>1 DEF Rest, NoFrame
<1>6. version = 2 => Inflight(s) = out[s] - x /\ out[s] - x <= PeerWindow
  <2> SUFFICES ASSUME version = 2
               PROVE  Inflight(s) = out[s] - x /\ out[s] - x <= PeerWindow
    OBVIOUS
  <2>1. seen[s] = x % Modulus /\ out[s] + 0 - x <= PeerWindow BY <1>3, <1>5 DEF Counted
  <2>2. x <= out[s] /\ out[s] - x <= PeerWindow BY <1>4, <2>1, Constants
  <2> QED BY <1>4, <2>1, <2>2, SignedDifference, Zenon DEF Inflight
<1>7. /\ Window(s) \in Nat
      /\ version = 2 => out[s] + Window(s) - x <= PeerWindow
  <2>1. CASE version = 1
    <3>1. Window(s) = MaxFrame /\ version # 2 BY <2>1 DEF Window
    <3> QED BY <3>1, Constants
  <2>2. CASE version # 1
    <3>1. version = 2 BY <2>2, Constants DEF Control
    <3>2. Window(s) = IF PeerWindow <= Inflight(s) THEN 0
                      ELSE Smaller(PeerWindow - Inflight(s), MaxFrame)
      BY <2>2, Zenon DEF Window
    <3>3. ~(PeerWindow <= Inflight(s)) /\ Window(s) = Smaller(PeerWindow - Inflight(s), MaxFrame)
      BY <1>0, <3>2
    <3>4. Window(s) = Smaller(PeerWindow - (out[s] - x), MaxFrame) BY <1>6, <3>1, <3>3
    <3>5. PeerWindow > out[s] - x BY <1>4, <1>6, <3>1, <3>3, Constants
    <3>6. Window(s) \in Nat /\ Window(s) <= PeerWindow - (out[s] - x)
      BY <1>4, <3>4, <3>5, Constants DEF Smaller
    <3> QED BY <1>4, <3>6, Constants
  <2> QED BY <2>1, <2>2
<1> HIDE DEF len
<1>8. len \in 0 .. Cap /\ len <= ub[s] /\ len <= Window(s)
  BY <1>0, <1>7, Constants DEF len, Smaller
<1>9. /\ frame'[s] = f /\ f \in FrameSet /\ f.on = TRUE /\ f.len = len /\ f.sent = 0
      /\ \A z \in Streams \ {s} : frame'[z] = frame[z]
      /\ frame' \in [Streams -> FrameSet]
  <2>1. f \in FrameSet /\ f.on = TRUE /\ f.len = len /\ f.sent = 0
    BY <1>8, Constants DEF FrameSet
  <2> HIDE DEF f
  <2> QED BY <1>0, <1>1, <2>1 DEF Frames
<1>10. Rest(s)' = len
  <2>1. frame'[s].len - frame'[s].sent = len BY <1>8, <1>9
  <2> QED BY <1>2, <2>1 DEF Rest
<1> HIDE DEF f
<1>11. Control' BY <1>2 DEF Control, PackFrame, flushVars
<1>12. Reads' BY <1>2, SameReads
<1>13. Frames'
  <2>1. ub' = ub BY <1>2 DEF readVars
  <2>2. ASSUME NEW z \in Streams
        PROVE  /\ frame'[z].sent <= frame'[z].len
               /\ frame'[z].len - frame'[z].sent <= ub'[z]
               /\ ~frame'[z].on => frame'[z] = NoFrame
    <3>1. CASE z = s BY <1>0, <1>8, <1>9, <2>1, <3>1
    <3>2. CASE z # s BY <1>9, <2>1, <3>2 DEF Frames, Rest
    <3> QED BY <3>1, <3>2
  <2> QED BY <1>9, <2>2 DEF Frames, Rest
<1>14. Fins'
  <2>1. UNCHANGED <<st, eof, ub, finDue, finPos, finSent>> BY <1>2 DEF readVars, finVars
  <2>2. ub[s] # 0 BY <1>0
  <2>3. ~(finSent[s] \/ finPos[s] > 0) BY <1>0, <2>2 DEF Fins
  <2>4. ASSUME NEW z \in Streams, finSent[z] \/ finPos[z] > 0
        PROVE  eof[z] /\ ub[z] = 0 /\ ~frame'[z].on
    <3>1. z # s BY <2>3, <2>4
    <3> QED BY <1>9, <2>4, <3>1, Zenon DEF Fins
  <2> QED BY <2>1, <2>4, Zenon DEF Fins
<1>15. Updates' /\ QueueTypes' BY <1>2, SameUpdates, SameQueues DEF updVars
<1>16. Windows'
  <2>1. UNCHANGED <<version, out, seen, eaten, acks>> BY <1>2 DEF clientVars
  <2>2. ASSUME NEW z \in Streams PROVE \E y \in 0 .. eaten[z] : Counted(z, y)'
    <3>1. CASE z = s
      <4>1. version = 2 => out[s] + len - x <= PeerWindow
        BY <1>4, <1>7, <1>8, Constants
      <4>2. seen[s] = x % Modulus BY <1>3 DEF Counted
      <4>3. frame'[s].len - frame'[s].sent = len BY <1>8, <1>9
      <4>4. Counted(z, x)' BY <2>1, <3>1, <4>1, <4>2, <4>3 DEF Counted, Rest
      <4> QED BY <1>3, <3>1, <4>4, Zenon
    <3>2. CASE z # s
      <4>1. PICK y \in 0 .. eaten[z] : Counted(z, y) BY DEF Windows
      <4>2. frame'[z] = frame[z] BY <1>9, <3>2
      <4>3. Counted(z, y)' BY <2>1, <4>1, <4>2 DEF Counted, Rest
      <4> QED BY <4>3, Zenon
    <3> QED BY <3>1, <3>2
  <2> QED BY <2>1, <2>2 DEF Windows
<1> QED BY <1>11, <1>12, <1>13, <1>14, <1>15, <1>16

\* A send moves payload bytes from the rest of the frame and the buffer to
\* what was sent: the bytes on the way and the packed rest keep their sum.
LEMMA StepSendFrame ==
  ASSUME IInv, NEW n \in 0 .. (HeaderLen + MaxFrame), SendFrame(n) PROVE IInv'
<1> USE DEF IInv
<1> DEFINE s == cur
           f == frame[s]
           head == HeaderLen - f.hpos
           h == Smaller(n, head)
           p == n - h
           whole == n = head + (f.len - f.sent)
           g == IF whole THEN NoFrame ELSE Advanced(f, n)
<1>0. s \in Streams /\ f.on /\ f \in FrameSet /\ n \in Nat /\ ub[s] \in 0 .. Cap /\ out[s] \in Nat
  BY Constants DEF SendFrame, Control, Frames, Reads
<1>1. f.sent <= f.len /\ f.len - f.sent <= ub[s] BY <1>0 DEF Frames, Rest
<1>2. /\ frame' = [frame EXCEPT ![s] = g]
      /\ ub' = [ub EXCEPT ![s] = @ - p] /\ out' = [out EXCEPT ![s] = @ + p]
      /\ UNCHANGED <<version, st, last, eof, ready, postedUp, again, finVars,
                     seen, updVars, clientVars>>
  BY DEF SendFrame, Requeue
<1>3. /\ f.hpos \in 0 .. HeaderLen /\ f.len \in 0 .. Cap /\ f.sent \in 0 .. Cap
      /\ HeaderLen \in Nat /\ Cap \in Nat /\ Limit \in Nat /\ wrote \in 0 .. (Limit - 1)
      /\ ub[s] \in Nat
  BY <1>0, Constants DEF FrameSet, Control
<1>4. n <= head + (f.len - f.sent)
  <2> DEFINE room == IF wrote + head >= Limit THEN 0
                     ELSE Smaller(f.len - f.sent, Limit - wrote - head)
  <2>1. n <= head + room BY DEF SendFrame, Accepts
  <2>2. room <= f.len - f.sent BY <1>1, <1>3 DEF Smaller
  <2>3. room \in Int BY <1>3 DEF Smaller
  <2> HIDE DEF room
  <2> QED BY <1>0, <1>3, <2>1, <2>2, <2>3
<1>5. /\ h \in 0 .. head /\ p \in 0 .. (f.len - f.sent)
      /\ whole => p = f.len - f.sent
  BY <1>0, <1>1, <1>3, <1>4 DEF Smaller
<1>6. /\ g \in FrameSet /\ g.len - g.sent = (f.len - f.sent) - p /\ g.sent <= g.len
      /\ ~g.on => g = NoFrame
  <2>1. CASE whole
    <3>1. NoFrame \in FrameSet /\ NoFrame.len = 0 /\ NoFrame.sent = 0
      BY Constants DEF NoFrame, FrameSet
    <3> HIDE DEF whole
    <3>2. g = NoFrame BY <2>1
    <3> HIDE DEF g, p
    <3> QED BY <1>3, <1>5, <2>1, <3>1, <3>2
  <2>2. CASE ~whole
    <3> HIDE DEF whole
    <3>1. g = [f EXCEPT !.hpos = @ + h, !.sent = @ + n - h] BY <2>2, Zenon DEF Advanced
    <3>2. f.hpos + h \in 0 .. HeaderLen /\ f.sent + n - h = f.sent + p
          /\ f.sent + p \in 0 .. Cap /\ f.sent + p <= f.len
      BY <1>0, <1>1, <1>3, <1>5
    <3> HIDE DEF g, h, p
    <3>3. g.on = f.on /\ g.hpos = f.hpos + h /\ g.len = f.len /\ g.sent = f.sent + n - h
          /\ g \in FrameSet
      BY <1>0, <3>1, <3>2 DEF FrameSet
    <3> QED BY <1>0, <1>3, <1>5, <3>2, <3>3
  <2> QED BY <2>1, <2>2
<1> HIDE DEF g, whole, h
<1>7. p \in Nat /\ p <= ub[s] BY <1>1, <1>3, <1>5
<1> HIDE DEF p
<1>8. /\ ub'[s] = ub[s] - p /\ out'[s] = out[s] + p /\ frame'[s] = g
      /\ \A z \in Streams \ {s} : ub'[z] = ub[z] /\ out'[z] = out[z] /\ frame'[z] = frame[z]
      /\ ub' \in [Streams -> 0 .. Cap] /\ out' \in [Streams -> Nat]
      /\ frame' \in [Streams -> FrameSet]
  BY <1>0, <1>2, <1>3, <1>6, <1>7 DEF Reads, Frames
<1>9. Control' /\ QueueTypes'
  <2>1. updQ' = updQ /\ version' = version BY <1>2 DEF updVars
  <2>2. CASE Requeue
    BY <1>0, <2>1, <2>2, EnqueueProperties, StopsControl DEF Requeue, QueueTypes
  <2>3. CASE ~(wrote + n >= Limit) /\ wrote' = wrote + n /\ UNCHANGED <<pc, ret, cur, cw, flushQ>>
    <3>1. wrote' \in 0 .. (Limit - 1) BY <1>0, <1>3, <2>3
    <3> QED BY <2>1, <2>3, <3>1, Zenon DEF Control, QueueTypes
  <2> QED BY <2>2, <2>3 DEF SendFrame
<1>10. Reads'
  <2>1. version \in Versions /\ MaxOut[version] \in Nat BY Constants DEF Control
  <2>2. \A z \in Streams : out'[z] + ub'[z] <= MaxOut[version]
    BY <1>0, <1>3, <1>7, <1>8, <2>1 DEF Reads
  <2> QED BY <1>2, <1>8, <2>2, Zenon DEF Reads
<1>11. Frames'
  <2>1. ASSUME NEW z \in Streams
        PROVE  /\ frame'[z].sent <= frame'[z].len
               /\ frame'[z].len - frame'[z].sent <= ub'[z]
               /\ ~frame'[z].on => frame'[z] = NoFrame
    <3>1. CASE z = s
      <4>1. g.len - g.sent <= ub[s] - p BY <1>1, <1>3, <1>6, <1>7
      <4> QED BY <1>6, <1>8, <3>1, <4>1
    <3>2. CASE z # s BY <1>8, <3>2 DEF Frames, Rest
    <3> QED BY <3>1, <3>2
  <2> QED BY <1>8, <2>1 DEF Frames, Rest
<1>12. Fins'
  <2>1. ~(finSent[s] \/ finPos[s] > 0) BY <1>0, Zenon DEF Fins
  <2>2. UNCHANGED <<st, eof, finDue, finPos, finSent>> BY <1>2 DEF finVars
  <2>3. ASSUME NEW z \in Streams, finSent[z] \/ finPos[z] > 0
        PROVE  eof[z] /\ ub'[z] = 0 /\ ~frame'[z].on
    <3>1. z # s BY <2>1, <2>3
    <3>2. ub'[z] = ub[z] /\ frame'[z] = frame[z] BY <1>8, <3>1
    <3> QED BY <2>3, <3>2, Zenon DEF Fins
  <2> QED BY <2>2, <2>3, Zenon DEF Fins
<1>13. Updates' BY <1>2, SameUpdates DEF updVars
<1>14. Windows'
  <2>1. UNCHANGED <<version, seen, eaten, acks>> BY <1>2 DEF clientVars
  <2>2. ASSUME NEW z \in Streams
        PROVE  eaten[z] <= out'[z] /\ \E y \in 0 .. eaten[z] : Counted(z, y)'
    <3>1. PICK y \in 0 .. eaten[z] : Counted(z, y) BY DEF Windows
    <3>2. CASE z = s
      <4>1. eaten[s] \in Nat /\ eaten[s] <= out[s] BY <1>0 DEF Windows
      <4>2. eaten[s] <= out'[s] BY <1>0, <1>7, <1>8, <4>1
      <4>3. version = 2 => out[s] + (f.len - f.sent) - y <= PeerWindow
        BY <3>1, <3>2 DEF Counted, Rest
      <4>4. out'[s] + (g.len - g.sent) - y = out[s] + (f.len - f.sent) - y
        BY <1>0, <1>3, <1>6, <1>7, <1>8, <3>1, <4>1
      <4>5. version' = 2 => out'[s] + (frame'[s].len - frame'[s].sent) - y <= PeerWindow
        BY <1>8, <2>1, <4>3, <4>4
      <4>6. seen'[s] = y % Modulus BY <2>1, <3>1, <3>2 DEF Counted
      <4>7. Counted(z, y)' BY <3>2, <4>5, <4>6, Zenon DEF Counted, Rest
      <4> QED BY <3>2, <4>2, <4>7, Zenon
    <3>3. CASE z # s
      <4>1. frame'[z] = frame[z] /\ out'[z] = out[z] BY <1>8, <3>3
      <4>2. Counted(z, y)' BY <2>1, <3>1, <4>1 DEF Counted, Rest
      <4>3. eaten[z] <= out'[z] BY <4>1 DEF Windows
      <4> QED BY <4>2, <4>3, Zenon
    <3> QED BY <3>2, <3>3
  <2> QED BY <2>1, <2>2, Zenon DEF Windows
<1> QED BY <1>9, <1>10, <1>11, <1>12, <1>13, <1>14

LEMMA StepFinishStream ==
  ASSUME IInv, NEW n \in 0 .. HeaderLen, FinishStream(n) PROVE IInv'
<1> USE DEF IInv
<1> DEFINE s == cur
           due == FinIsDue(s)
           need == IF due THEN HeaderLen - finPos[s] ELSE 0
           whole == n = need
<1>0. s \in Streams /\ n \in Nat /\ ub[s] = 0 /\ ~frame[s].on
  BY Constants DEF FinishStream, Control
<1>1. /\ last' = [last EXCEPT ![s] = 0] /\ postedUp' = [postedUp EXCEPT ![s] = Rearmed(s)]
      /\ finDue' = [finDue EXCEPT ![s] = due /\ ~whole]
      /\ finPos' = [finPos EXCEPT ![s] = IF whole THEN 0 ELSE @ + n]
      /\ finSent' = [finSent EXCEPT ![s] = @ \/ (due /\ whole)]
      /\ UNCHANGED <<version, ub, eof, ready, again, out, frame, seen, rx,
                     since, report, upd, told, clientVars>>
  BY DEF FinishStream
<1>2. finPos[s] \in 0 .. HeaderLen /\ n <= need /\ HeaderLen \in Nat
  BY <1>0, Constants DEF Fins, FinishStream, Accepts
<1>3. st' \in {st, [st EXCEPT ![s] = "gone"]}
      /\ (st' # st => whole /\ st[s] = "closing")
      /\ (~whole => st' = st)
  BY DEF FinishStream, Free
<1>4. Control'
  <2>1. CASE Requeue BY <1>1, <2>1, StopsControl DEF Requeue
  <2>2. CASE FlushGoesOn(n) BY <1>0, <1>1, <2>2, GoesOnControl
  <2> QED BY <2>1, <2>2 DEF FinishStream
<1>5. QueueTypes'
  <2>1. /\ flushQ' \in {flushQ, Enqueue(flushQ, s), Without(flushQ, s)}
        /\ updQ' \in {updQ, Without(updQ, s)}
    BY DEF FinishStream, Requeue, Free
  <2> QED BY <1>0, <2>1, EnqueueProperties, WithoutType DEF QueueTypes
<1>6. Reads'
  <2>1. Rearmed(s) \in BOOLEAN BY <1>0 DEF Reads, Rearmed
  <2> DEFINE r == Rearmed(s)
  <2>2. postedUp' \in [Streams -> BOOLEAN]
    <3>1. postedUp' = [postedUp EXCEPT ![s] = r] BY <1>1
    <3>2. r \in BOOLEAN BY <2>1
    <3> HIDE DEF r
    <3> QED BY <3>1, <3>2 DEF Reads
  <2>3. last' \in [Streams -> 0 .. Cap]
    <3>1. 0 \in 0 .. Cap BY Constants
    <3> QED BY <1>1, <3>1 DEF Reads
  <2>4. st' \in [Streams -> {"absent", "proxy", "closing", "gone"}] BY <1>3 DEF Reads
  <2> QED BY <1>1, <2>2, <2>3, <2>4, Zenon DEF Reads
<1>7. Frames' BY <1>1, SameFrames
<1>8. due => eof[s] BY <1>0 DEF Fins, FinIsDue
<1>9. due <=> (finDue[s] \/ eof[s]) /\ ~finSent[s] BY DEF FinIsDue
<1>10. finPos'[s] \in 0 .. HeaderLen /\ (finPos'[s] > 0 => due)
  <2>1. CASE whole BY <1>0, <1>1, <1>2, <2>1 DEF Fins
  <2>2. CASE ~whole
    <3>1. due BY <1>0, <1>2, <2>2
    <3>2. finPos'[s] = finPos[s] + n BY <1>0, <1>1, <2>2 DEF Fins
    <3> QED BY <1>0, <1>2, <3>1, <3>2
  <2> QED BY <2>1, <2>2
<1> HIDE DEF whole, need
<1>11. due \in BOOLEAN /\ whole \in BOOLEAN BY DEF FinIsDue, whole
<1>12. /\ finDue'[s] = (due /\ ~whole) /\ finSent'[s] = (finSent[s] \/ (due /\ whole))
       /\ finDue' \in [Streams -> BOOLEAN] /\ finSent' \in [Streams -> BOOLEAN]
  BY <1>0, <1>1, <1>11 DEF Fins
<1>13. \A z \in Streams \ {s} : /\ finDue'[z] = finDue[z] /\ finSent'[z] = finSent[z]
                                /\ finPos'[z] = finPos[z] /\ st'[z] = st[z]
  BY <1>0, <1>1, <1>3 DEF Fins, Reads
<1>14. finPos' \in [Streams -> 0 .. HeaderLen]
  <2>1. DOMAIN finPos' = Streams /\ finPos' = [z \in Streams |-> finPos'[z]]
    BY <1>1 DEF Fins
  <2>2. \A z \in Streams : finPos'[z] \in 0 .. HeaderLen
    BY <1>10, <1>13 DEF Fins
  <2> QED BY <2>1, <2>2
<1>15. /\ st'[s] = "closing" => st[s] = "closing"
       /\ st'[s] = "gone" => st[s] = "gone" \/ (whole /\ st[s] = "closing")
  <2>1. CASE st' = st BY <2>1
  <2>2. CASE st' # st BY <1>0, <1>3, <2>2 DEF Reads
  <2> QED BY <2>1, <2>2
<1> HIDE DEF due
<1>16. Fins'
  <2>1. /\ finSent[s] \/ finPos[s] > 0 => eof[s]
        /\ st[s] = "closing" => finDue[s] \/ finSent[s]
        /\ st[s] = "gone" => finSent[s]
    BY <1>0 DEF Fins
  <2>2. finSent'[s] \/ finPos'[s] > 0 => eof[s]
    BY <1>8, <1>10, <1>12, <2>1, Zenon
  <2>3. finDue'[s] => eof[s] BY <1>8, <1>12, Zenon
  <2>4. st'[s] = "closing" => finDue'[s] \/ finSent'[s]
    BY <1>9, <1>12, <1>15, <2>1, Zenon
  <2>5. st'[s] = "gone" => finSent'[s]
    BY <1>9, <1>12, <1>15, <2>1, Zenon
  <2>6. ASSUME NEW z \in Streams
        PROVE  /\ finSent'[z] \/ finPos'[z] > 0 => eof'[z] /\ ub'[z] = 0 /\ ~frame'[z].on
               /\ finDue'[z] => eof'[z]
               /\ st'[z] = "closing" => finDue'[z] \/ finSent'[z]
               /\ st'[z] = "gone" => finSent'[z]
    <3>0. eof' = eof /\ ub' = ub /\ frame' = frame BY <1>1
    <3>1. CASE z = s BY <1>0, <2>2, <2>3, <2>4, <2>5, <3>0, <3>1, Zenon
    <3>2. CASE z # s BY <1>13, <3>0, <3>2, Zenon DEF Fins
    <3> QED BY <3>1, <3>2
  <2> QED BY <1>12, <1>14, <2>6, Zenon DEF Fins
<1>17. Updates' BY <1>1, SameUpdates
<1>18. Windows' BY <1>1, SameWindows
<1> QED BY <1>4, <1>5, <1>6, <1>7, <1>16, <1>17, <1>18

\* The client consumes what it has and reports all of it.
LEMMA StepClientEats ==
  ASSUME IInv, NEW s \in Streams, NEW n \in 1 .. PeerWindow, ClientEats(s, n) PROVE IInv'
<1> USE DEF IInv
<1>0. n \in Nat /\ eaten[s] \in Nat /\ eaten \in [Streams -> Nat]
  BY Constants DEF Windows
<1>1. /\ eaten[s] + n <= out[s]
      /\ eaten' = [eaten EXCEPT ![s] = @ + n]
      /\ acks' = [acks EXCEPT ![s] = <<(eaten[s] + n) % Modulus>>]
      /\ UNCHANGED <<version, flushVars, st, readVars, out, frame, finVars, seen,
                     updVars, flushQ>>
  BY DEF ClientEats
<1>2. Control' BY <1>1 DEF Control, flushVars
<1>3. Reads' BY <1>1, SameReads
<1>4. Frames' BY <1>1, SameFrames DEF readVars
<1>5. Fins' BY <1>1, SameFins DEF readVars
<1>6. Updates' /\ QueueTypes' BY <1>1, SameUpdates, SameQueues DEF updVars
<1>7. Windows'
  <2>1. eaten' \in [Streams -> Nat] /\ eaten'[s] = eaten[s] + n
        /\ \A z \in Streams \ {s} : eaten'[z] = eaten[z]
    BY <1>0, <1>1
  <2>2. (eaten[s] + n) % Modulus \in 0 .. (Modulus - 1) BY <1>0, Constants
  <2>3. acks' \in [Streams -> Seq(0 .. (Modulus - 1))]
        /\ acks'[s] = <<(eaten[s] + n) % Modulus>>
        /\ \A z \in Streams \ {s} : acks'[z] = acks[z]
    BY <1>1, <2>2 DEF Windows
  <2>4. ASSUME NEW z \in Streams
        PROVE  /\ eaten'[z] <= out[z]
               /\ acks'[z] = <<>> \/ acks'[z] = <<eaten'[z] % Modulus>>
               /\ \E x \in 0 .. eaten'[z] : Counted(z, x)'
    <3>1. PICK x \in 0 .. eaten[z] : Counted(z, x) BY DEF Windows
    <3>2. Counted(z, x)' BY <1>1, <3>1 DEF Counted, Rest
    <3>3. x \in 0 .. eaten'[z] BY <1>0, <2>1
    <3>4. eaten'[z] <= out[z] BY <1>1, <2>1 DEF Windows
    <3>5. acks'[z] = <<>> \/ acks'[z] = <<eaten'[z] % Modulus>>
      <4>1. CASE z = s BY <2>1, <2>3, <4>1
      <4>2. CASE z # s BY <2>1, <2>3, <4>2 DEF Windows
      <4> QED BY <4>1, <4>2
    <3> QED BY <3>2, <3>3, <3>4, <3>5, Zenon
  <2> QED BY <1>1, <2>1, <2>3, <2>4, Zenon DEF Windows
<1> QED BY <1>2, <1>3, <1>4, <1>5, <1>6, <1>7

LEMMA StepStutter == ASSUME IInv, UNCHANGED vars PROVE IInv'
<1> USE DEF IInv, vars
<1>1. Control' BY DEF Control, flushVars
<1>2. Reads' BY SameReads
<1>3. Frames' BY SameFrames DEF readVars
<1>4. Fins' BY SameFins DEF readVars
<1>5. Updates' /\ QueueTypes' BY SameUpdates, SameQueues DEF updVars
<1>6. Windows' BY SameWindows
<1> QED BY <1>1, <1>2, <1>3, <1>4, <1>5, <1>6

LEMMA StepInv == IInv /\ [Next]_vars => IInv'
<1> SUFFICES ASSUME IInv, [Next]_vars PROVE IInv' OBVIOUS
<1>1. CASE ClientEvent BY <1>1, StepClientEvent
<1>2. CASE WorkEnd BY <1>2, StepWorkEnd
<1>3. CASE FlushEnd BY <1>3, StepFlushEnd
<1>4. CASE NextUpd BY <1>4, StepNextUpd
<1>5. CASE NextFrame BY <1>5, StepNextFrame
<1>6. CASE PackFrame BY <1>6, StepPackFrame
<1>7. CASE WindowClosed BY <1>7, StepWindowClosed
<1>8. ASSUME NEW s \in Streams, Open(s) \/ TakeUpd(s) \/ StartProcess(s) \/ CloseStream(s)
      PROVE  IInv'
  BY <1>8, StepOpen, StepTakeUpd, StepStartProcess, StepCloseStream
<1>9. CASE \E n \in 1 .. MaxIn : Deliver(n) BY <1>9, StepDeliver
<1>10. CASE Busy BY <1>10, StepBusy
<1>11. CASE \E k \in 0 .. Cap : ReadUpstream(k) BY <1>11, StepReadUpstream
<1>12. CASE \E n \in 0 .. UpdLen : SendUpd(n) BY <1>12, StepSendUpd
<1>13. CASE \E n \in 0 .. (HeaderLen + MaxFrame) : SendFrame(n) BY <1>13, StepSendFrame
<1>14. CASE \E n \in 0 .. HeaderLen : FinishStream(n) BY <1>14, StepFinishStream
<1>15. CASE \E s \in Streams, n \in 1 .. PeerWindow : ClientEats(s, n)
  BY <1>15, StepClientEats
<1>16. CASE UNCHANGED vars BY <1>16, StepStutter
<1> QED BY <1>1, <1>2, <1>3, <1>4, <1>5, <1>6, <1>7, <1>8, <1>9, <1>10, <1>11, <1>12,
           <1>13, <1>14, <1>15, <1>16 DEF Next

----------------------------------------------------------------------------
(* The theorems.                                                           *)

LEMMA Invariant == Spec => []IInv
BY InitInv, StepInv, PTL DEF Spec

\* stream_send_window never lets a stream have more bytes on the way,
\* packed ones included, than the window of the client, although the byte
\* counters of both sides wrap and the client's reports come late.
THEOREM WindowSafe == Spec => []WindowRespected
<1>1. IInv => WindowRespected
  <2> SUFFICES ASSUME IInv PROVE WindowRespected OBVIOUS
  <2>1. TypeOK BY InvTypes
  <2> QED BY <2>1, InvWindow, Zenon DEF WindowRespected
<1> QED BY <1>1, Invariant, PTL

\* flush_stream_to_client writes the FIN of a stream only when its upstream
\* has ended and all it gave is written, and cleanup_stream frees a stream
\* only after its FIN, whatever order closing, reading and flushing take.
THEOREM FinLastSafe == Spec => []FinLast
<1>1. IInv => FinLast BY DEF IInv, Fins, FinLast
<1> QED BY <1>1, Invariant, PTL

----------------------------------------------------------------------------
(* Wake-ups.  What holds of a stream at every point of a handler.          *)

Owing(s) == ub[s] > 0 \/ frame[s].on \/ finDue[s]
Stuck(s) == ub[s] > 0 /\ ~frame[s].on /\ Window(s) = 0

\* What is owed to the client is queued, in hand, or kept by the window.
FlushedAt(s) ==
  s \in Live /\ Owing(s) => In(flushQ, s) \/ (pc = "frame" /\ cur = s) \/ Stuck(s)

\* A readable upstream is going to be read.
AwakeAt(s) ==
  st[s] = "proxy" /\ ready[s] /\ ~eof[s] =>
    \/ postedUp[s] \/ s \in again \/ ub[s] > 0 \/ In(flushQ, s)
    \/ pc \in {"process", "frame"} /\ cur = s

\* A report that was not told is queued or in hand, and a packed one is the
\* last or will be packed again.
Reporting(s) == In(updQ, s) \/ (pc = "upd" /\ cur = s)
ReportedAt(s) ==
  s \in Live =>
    /\ since[s] < Threshold
    /\ report[s] > 0 => rx[s] - report[s] = since[s]
    /\ upd[s].on => Reporting(s) /\ (upd[s].val = report[s] \/ upd[s].resend)
    /\ told[s] = report[s] \/ Reporting(s)
    /\ upd[s].resend => upd[s].pos > 0
    /\ upd[s].pos > 0 => upd[s].on

FreshAt(s) ==
  st[s] = "absent" =>
    /\ ~Owing(s) /\ ~ready[s]
    /\ report[s] = 0 /\ told[s] = 0 /\ since[s] = 0
    /\ ~upd[s].on /\ ~upd[s].resend /\ upd[s].pos = 0

Good(s) == FlushedAt(s) /\ AwakeAt(s) /\ ReportedAt(s) /\ FreshAt(s)

Queued ==
  /\ ToSet(flushQ) \subseteq Live /\ IsInjective(flushQ)
  /\ ToSet(updQ) \subseteq Live /\ IsInjective(updQ)

Current ==
  /\ pc = "process" => st[cur] = "proxy"
  /\ pc = "frame" => cur \in Live
  /\ pc = "upd" => cur \in Live /\ ~In(updQ, cur) /\ upd[cur].on

Armed == pc = "idle" => ~cw \/ (flushQ = <<>> /\ updQ = <<>>)

WInv == Queued /\ Current /\ Armed /\ \A s \in Streams : Good(s)

LEMMA Shapes ==
  ASSUME IInv
  PROVE  /\ st \in [Streams -> {"absent", "proxy", "closing", "gone"}]
         /\ ub \in [Streams -> 0 .. Cap] /\ out \in [Streams -> Nat]
         /\ eof \in [Streams -> BOOLEAN] /\ ready \in [Streams -> BOOLEAN]
         /\ postedUp \in [Streams -> BOOLEAN] /\ again \subseteq Streams
         /\ frame \in [Streams -> FrameSet]
         /\ finDue \in [Streams -> BOOLEAN]
         /\ rx \in [Streams -> Nat] /\ since \in [Streams -> Nat]
         /\ report \in [Streams -> Nat] /\ told \in [Streams -> Nat]
         /\ upd \in [Streams -> UpdSet]
         /\ flushQ \in Seq(Streams) /\ updQ \in Seq(Streams)
         /\ seen \in [Streams -> 0 .. (Modulus - 1)]
         /\ Cap \in Nat
BY Constants DEF IInv, Reads, Frames, Fins, Updates, QueueTypes, Windows

\* A step that has nothing to do with a stream leaves it as it is.
Untouched(s) ==
  /\ version' = version /\ st'[s] = st[s] /\ ub'[s] = ub[s] /\ frame'[s] = frame[s]
  /\ finDue'[s] = finDue[s] /\ out'[s] = out[s] /\ seen'[s] = seen[s]
  /\ eof'[s] = eof[s] /\ ready'[s] = ready[s] /\ postedUp'[s] = postedUp[s]
  /\ s \in again => s \in again'
  /\ rx'[s] = rx[s] /\ since'[s] = since[s] /\ report'[s] = report[s]
  /\ told'[s] = told[s] /\ upd'[s] = upd[s]
  /\ In(flushQ, s) => In(flushQ', s)
  /\ In(updQ, s) => In(updQ', s)

Kept(s) ==
  pc \in {"process", "frame", "upd"} /\ cur = s => pc' = pc /\ cur' = cur

LEMMA StreamKept ==
  ASSUME NEW s \in Streams, Good(s), Untouched(s), Kept(s)
  PROVE  Good(s)'
<1>1. Window(s)' = Window(s) BY DEF Untouched, Window, Inflight
<1>2. Owing(s)' = Owing(s) /\ Stuck(s)' = Stuck(s) BY <1>1 DEF Untouched, Owing, Stuck
<1>3. (s \in Live)' = (s \in Live) BY DEF Untouched, Live
<1>4. FlushedAt(s)'
  BY <1>2, <1>3, Zenon DEF Good, FlushedAt, Untouched, Kept, In
<1>5. AwakeAt(s)' BY DEF Good, AwakeAt, Untouched, Kept, In
<1>6. ReportedAt(s)'
  <2>1. Reporting(s) => Reporting(s)' BY DEF Reporting, Untouched, Kept, In
  <2>2. UNCHANGED <<since[s], report[s], rx[s], upd[s], told[s]>> BY DEF Untouched
  <2> QED BY <1>3, <2>1, <2>2, Zenon DEF Good, ReportedAt
<1>7. FreshAt(s)' BY <1>2, Zenon DEF Good, FreshAt, Untouched
<1> QED BY <1>4, <1>5, <1>6, <1>7 DEF Good

\* A step that changes nothing but the point the handler has reached.
LEMMA ControlKept ==
  ASSUME WInv, UNCHANGED <<version, st, readVars, out, frame, finVars, seen, updVars, flushQ>>,
         \A s \in Streams : Kept(s), Current', Armed'
  PROVE  WInv'
<1>1. \A s \in Streams : Untouched(s)
  BY DEF Untouched, readVars, finVars, updVars
<1>2. \A s \in Streams : Good(s)' BY <1>1, StreamKept DEF WInv
<1>3. Queued' BY DEF WInv, Queued, Live, updVars
<1> QED BY <1>2, <1>3 DEF WInv

LEMMA InitWInv == Init => WInv
<1> SUFFICES ASSUME Init PROVE WInv OBVIOUS
<1>1. /\ pc = "idle" /\ flushQ = <<>> /\ updQ = <<>>
      /\ \A s \in Streams :
           /\ st[s] = "absent" /\ ub[s] = 0 /\ ~frame[s].on /\ ~finDue[s] /\ ~ready[s]
           /\ report[s] = 0 /\ told[s] = 0 /\ since[s] = 0
           /\ ~upd[s].on /\ ~upd[s].resend /\ upd[s].pos = 0
  BY DEF Init, NoFrame, NoUpd
<1>2. ASSUME NEW s \in Streams PROVE Good(s)
  <2>1. s \notin Live /\ ~Owing(s) BY <1>1 DEF Live, Owing
  <2> QED BY <1>1, <2>1 DEF Good, FlushedAt, AwakeAt, ReportedAt, FreshAt
<1>3. Queued BY <1>1, EmptySeq DEF Queued, ToSet, IsInjective
<1>4. Current /\ Armed BY <1>1 DEF Current, Armed
<1> QED BY <1>2, <1>3, <1>4 DEF WInv

LEMMA WakeClientEvent == ASSUME IInv, WInv, ClientEvent PROVE WInv'
<1>1. pc = "idle" /\ pc' = "flush" BY DEF ClientEvent, StartFlush
<1>2. Current' /\ Armed' /\ \A s \in Streams : Kept(s) BY <1>1 DEF Current, Armed, Kept
<1> QED BY <1>2, ControlKept DEF ClientEvent

LEMMA WakeWorkEnd == ASSUME IInv, WInv, WorkEnd PROVE WInv'
<1>1. pc = "work" /\ pc' = "flush" BY DEF WorkEnd, StartFlush
<1>2. Current' /\ Armed' /\ \A s \in Streams : Kept(s) BY <1>1 DEF Current, Armed, Kept
<1> QED BY <1>2, ControlKept DEF WorkEnd

LEMMA WakeFlushEnd == ASSUME IInv, WInv, FlushEnd PROVE WInv'
<1>1. /\ pc = "flush" /\ pc' \in {"idle", "work"} /\ flushQ = <<>> /\ updQ = <<>>
      /\ flushQ' = flushQ /\ updQ' = updQ
  BY DEF FlushEnd, IInv, Control, updVars
<1>2. Current' /\ Armed' /\ \A s \in Streams : Kept(s) BY <1>1 DEF Current, Armed, Kept
<1> QED BY <1>2, ControlKept DEF FlushEnd

LEMMA WakeClientEats ==
  ASSUME IInv, WInv, NEW s \in Streams, NEW n \in 1 .. PeerWindow, ClientEats(s, n)
  PROVE  WInv'
<1>1. UNCHANGED <<pc, cur, cw, st, upd, flushQ, updQ>>
  BY DEF ClientEats, flushVars, updVars
<1>2. Current' /\ Armed' /\ \A x \in Streams : Kept(x)
  BY <1>1 DEF WInv, Current, Armed, Kept, Live
<1> QED BY <1>2, ControlKept DEF ClientEats

LEMMA WakeStutter == ASSUME IInv, WInv, UNCHANGED vars PROVE WInv'
<1>1. UNCHANGED <<pc, cur, cw, st, upd, flushQ, updQ>> BY DEF vars, flushVars, updVars
<1>2. Current' /\ Armed' /\ \A x \in Streams : Kept(x)
  BY <1>1 DEF WInv, Current, Armed, Kept, Live
<1> QED BY <1>2, ControlKept DEF vars

\* An action that has to do with one stream.
LEMMA OneStream ==
  ASSUME WInv, NEW c \in Streams, Good(c)',
         \A s \in Streams \ {c} : Untouched(s) /\ Kept(s), Queued', Current', Armed'
  PROVE  WInv'
<1>1. \A s \in Streams \ {c} : Good(s)' BY StreamKept DEF WInv
<1> QED BY <1>1 DEF WInv

LEMMA EndsProcess ==
  ASSUME IInv, EndProcess
  PROVE  pc' \in {"flush", "work"} /\ Current' /\ Armed'
<1>1. ret \in {"idle", "work"} BY DEF IInv, Control
<1>2. pc' \in {"flush", "work"} BY <1>1 DEF EndProcess, StartFlush
<1> QED BY <1>2 DEF Current, Armed

LEMMA FlushMoves ==
  ASSUME IInv, NEW n, FlushStops \/ FlushGoesOn(n)
  PROVE  pc' \in {"idle", "flush", "work"} /\ Current' /\ Armed'
<1>1. ret \in {"idle", "work"} BY DEF IInv, Control
<1>2. pc' \in {"idle", "flush", "work"} BY <1>1 DEF FlushGoesOn, FlushStops
<1>3. pc' = "idle" => cw' = FALSE BY DEF FlushGoesOn, FlushStops
<1> QED BY <1>2, <1>3 DEF Current, Armed

LEMMA WakeOpen == ASSUME IInv, WInv, NEW s \in Streams, Open(s) PROVE WInv'
<1>0. Good(s) /\ Queued /\ Armed BY DEF WInv
<1>1. /\ pc \in {"idle", "work"} /\ st[s] = "absent"
      /\ st' = [st EXCEPT ![s] = "proxy"] /\ rx' = [rx EXCEPT ![s] = ReqLen]
      /\ UNCHANGED <<version, pc, cur, cw, readVars, out, frame, finVars, seen, since,
                     report, upd, updQ, told, flushQ>>
  BY DEF Open, flushVars
<1>2. st'[s] = "proxy" /\ \A x \in Streams \ {s} : st'[x] = st[x] /\ rx'[x] = rx[x]
  BY <1>1, Shapes
<1>3. \A x \in Streams \ {s} : Untouched(x) /\ Kept(x)
  BY <1>1, <1>2 DEF Untouched, Kept, readVars, finVars
<1>4. Good(s)'
  <2>1. FreshAt(s) BY <1>0 DEF Good
  <2>2. ~Owing(s)' /\ ~ready'[s] /\ report'[s] = 0 /\ told'[s] = 0 /\ since'[s] = 0
        /\ ~upd'[s].on /\ ~upd'[s].resend /\ upd'[s].pos = 0
    BY <1>1, <2>1 DEF FreshAt, Owing, readVars, finVars
  <2>3. 0 < Threshold BY Constants
  <2> QED BY <1>2, <2>2, <2>3 DEF Good, FlushedAt, AwakeAt, ReportedAt, FreshAt
<1>5. Queued' BY <1>0, <1>1, <1>2 DEF Queued, Live
<1>6. Current' /\ Armed' BY <1>0, <1>1 DEF Current, Armed
<1> QED BY <1>3, <1>4, <1>5, <1>6, OneStream

LEMMA WakeTakeUpd == ASSUME IInv, WInv, NEW s \in Streams, TakeUpd(s) PROVE WInv'
<1>0. Good(s) /\ Queued /\ Armed BY DEF WInv
<1>1. /\ pc = "work"
      /\ UNCHANGED <<version, pc, cur, cw, st, readVars, out, frame, finVars, updVars>>
  BY DEF TakeUpd, flushVars
<1>2. Current' /\ Armed' BY <1>1 DEF Current, Armed
<1>3. CASE s \notin Live
  <2>1. UNCHANGED <<seen, flushQ>> BY <1>3 DEF TakeUpd
  <2>2. \A x \in Streams : Kept(x) BY <1>1 DEF Kept
  <2> QED BY <1>1, <1>2, <2>1, <2>2, ControlKept
<1>4. CASE s \in Live
  <2>1. /\ seen' = [seen EXCEPT ![s] = Head(acks[s])]
        /\ flushQ' = IF WantsFlush(s) THEN Enqueue(flushQ, s) ELSE flushQ
    BY <1>4 DEF TakeUpd
  <2>2. /\ ToSet(flushQ') = IF WantsFlush(s) THEN ToSet(flushQ) \cup {s} ELSE ToSet(flushQ)
        /\ IsInjective(flushQ')
    <3>1. flushQ \in Seq(Streams) /\ IsInjective(flushQ) BY <1>0, Shapes DEF Queued
    <3>2. CASE WantsFlush(s)
      <4>1. flushQ' = Enqueue(flushQ, s) BY <2>1, <3>2
      <4> QED BY <3>1, <3>2, <4>1, EnqueueProperties
    <3>3. CASE ~WantsFlush(s) BY <2>1, <3>1, <3>3
    <3> QED BY <3>2, <3>3
  <2>3. \A x \in Streams \ {s} : Untouched(x) /\ Kept(x)
    <3>1. \A x \in Streams \ {s} : seen'[x] = seen[x] BY <2>1, Shapes
    <3>2. \A x \in Streams : In(flushQ, x) => In(flushQ', x) BY <2>2 DEF In
    <3> QED BY <1>1, <3>1, <3>2 DEF Untouched, Kept, readVars, finVars, updVars
  <2>4. FlushedAt(s)'
    <3>1. CASE WantsFlush(s) BY <2>2, <3>1 DEF FlushedAt, In
    <3>2. CASE ~WantsFlush(s)
      <4>1. ~(ub[s] > 0) BY <3>2 DEF WantsFlush
      <4>2. Owing(s)' = Owing(s) BY <1>1 DEF Owing, readVars, finVars
      <4>3. Owing(s) => In(flushQ, s)
        BY <1>0, <1>1, <1>4, <4>1 DEF Good, FlushedAt, Stuck
      <4> QED BY <2>2, <3>2, <4>2, <4>3 DEF FlushedAt, In
    <3> QED BY <3>1, <3>2
  <2>5. AwakeAt(s)'
    <3>1. In(flushQ, s) => In(flushQ', s) BY <2>2 DEF In
    <3> QED BY <1>0, <1>1, <3>1 DEF Good, AwakeAt, readVars, In
  <2>6. ReportedAt(s)' /\ FreshAt(s)'
    BY <1>0, <1>1 DEF Good, ReportedAt, FreshAt, Reporting, Live, updVars, readVars, finVars,
                      Owing, In
  <2>7. Queued' BY <1>0, <1>1, <1>4, <2>2 DEF Queued, Live, updVars
  <2>8. Good(s)' BY <2>4, <2>5, <2>6 DEF Good
  <2> QED BY <1>2, <2>3, <2>7, <2>8, OneStream
<1> QED BY <1>3, <1>4

LEMMA WakeStartProcess ==
  ASSUME IInv, WInv, NEW s \in Streams, StartProcess(s) PROVE WInv'
<1>0. Good(s) /\ Queued BY DEF WInv
<1>1. /\ pc \in {"idle", "work"} /\ st[s] = "proxy" /\ pc' = "process" /\ cur' = s
      /\ postedUp' = [postedUp EXCEPT ![s] = @ /\ pc = "work"]
      /\ again \ {s} \subseteq again'
      /\ UNCHANGED <<version, st, ub, eof, out, frame, finVars, seen, updVars, flushQ>>
  BY DEF StartProcess
<1>2. PICK b \in BOOLEAN : ready' = [ready EXCEPT ![s] = b]
  BY Shapes DEF StartProcess
<1>3. \A x \in Streams \ {s} : Untouched(x) /\ Kept(x)
  <2>1. \A x \in Streams \ {s} : ready'[x] = ready[x] /\ postedUp'[x] = postedUp[x]
    BY <1>1, <1>2, Shapes
  <2> QED BY <1>1, <2>1 DEF Untouched, Kept, finVars, updVars
<1>4. Good(s)'
  <2>1. Window(s)' = Window(s) BY <1>1 DEF Window, Inflight
  <2>2. FlushedAt(s)'
    BY <1>0, <1>1, <2>1 DEF Good, FlushedAt, Owing, Stuck, Live, finVars, In
  <2>3. AwakeAt(s)' /\ FreshAt(s)' BY <1>1 DEF AwakeAt, FreshAt
  <2>4. ReportedAt(s)' BY <1>0, <1>1 DEF Good, ReportedAt, Reporting, Live, updVars, In
  <2> QED BY <2>2, <2>3, <2>4 DEF Good
<1>5. Queued' BY <1>0, <1>1 DEF Queued, Live, updVars
<1>6. Current' /\ Armed' BY <1>1 DEF Current, Armed
<1> QED BY <1>3, <1>4, <1>5, <1>6, OneStream

LEMMA WakeCloseStream ==
  ASSUME IInv, WInv, NEW s \in Streams, CloseStream(s) PROVE WInv'
<1>0. Good(s) /\ Queued BY DEF WInv
<1>1. /\ st[s] = "proxy" /\ (pc \in {"idle", "work"} \/ (pc = "process" /\ cur = s))
      /\ eof' = [eof EXCEPT ![s] = TRUE]
      /\ finDue' = [finDue EXCEPT ![s] = @ \/ ~finSent[s]]
      /\ ready' = [ready EXCEPT ![s] = FALSE] /\ postedUp' = [postedUp EXCEPT ![s] = FALSE]
      /\ again' = again \ {s}
      /\ UNCHANGED <<version, ub, out, frame, seen, rx, since, report, upd, told>>
  BY DEF CloseStream
<1>2. pc' \in {"flush", "work"} /\ Current' /\ Armed'
  <2>1. CASE pc = "process" BY <2>1, EndsProcess DEF CloseStream
  <2>2. CASE pc # "process"
    <3>1. pc' \in {"flush", "work"} BY <1>1, <2>2 DEF CloseStream, StartFlush
    <3> QED BY <3>1 DEF Current, Armed
  <2> QED BY <2>1, <2>2
<1>3. /\ flushQ \in Seq(Streams) /\ updQ \in Seq(Streams)
      /\ IsInjective(flushQ) /\ IsInjective(updQ)
  BY <1>0, Shapes DEF Queued
<1>4. /\ st'[s] \in {"closing", "gone"} /\ \A x \in Streams \ {s} : st'[x] = st[x]
      /\ st'[s] = "closing" => /\ ToSet(flushQ') = ToSet(flushQ) \cup {s}
                               /\ IsInjective(flushQ') /\ updQ' = updQ
      /\ st'[s] = "gone" => /\ ToSet(flushQ') = ToSet(flushQ) \ {s} /\ IsInjective(flushQ')
                            /\ ToSet(updQ') = ToSet(updQ) \ {s} /\ IsInjective(updQ')
  <2>1. CASE finSent[s]
    <3>1. /\ st' = [st EXCEPT ![s] = "gone"]
          /\ flushQ' = Without(flushQ, s) /\ updQ' = Without(updQ, s)
      BY <2>1 DEF CloseStream, Free
    <3>2. /\ ToSet(Without(flushQ, s)) = ToSet(flushQ) \ {s} /\ IsInjective(Without(flushQ, s))
          /\ ToSet(Without(updQ, s)) = ToSet(updQ) \ {s} /\ IsInjective(Without(updQ, s))
      BY <1>3, WithoutProperties
    <3>3. st'[s] = "gone" /\ \A x \in Streams \ {s} : st'[x] = st[x] BY <3>1, Shapes
    <3> QED BY <3>1, <3>2, <3>3
  <2>2. CASE ~finSent[s]
    <3>1. st' = [st EXCEPT ![s] = "closing"] /\ flushQ' = Enqueue(flushQ, s) /\ updQ' = updQ
      BY <2>2 DEF CloseStream
    <3> QED BY <1>3, <3>1, Shapes, EnqueueProperties
  <2> QED BY <2>1, <2>2
<1>5. \A x \in Streams \ {s} : Untouched(x) /\ Kept(x)
  <2>1. \A x \in Streams \ {s} : /\ eof'[x] = eof[x] /\ finDue'[x] = finDue[x]
                                 /\ ready'[x] = ready[x] /\ postedUp'[x] = postedUp[x]
    BY <1>1, Shapes
  <2>2. \A x \in Streams \ {s} : /\ In(flushQ, x) => In(flushQ', x)
                                 /\ In(updQ, x) => In(updQ', x)
    BY <1>4 DEF In
  <2> QED BY <1>1, <1>4, <2>1, <2>2 DEF Untouched, Kept
<1>6. Good(s)'
  <2>1. AwakeAt(s)' /\ FreshAt(s)' BY <1>4 DEF AwakeAt, FreshAt
  <2>2. FlushedAt(s)' BY <1>4 DEF FlushedAt, Live, In
  <2>3. ReportedAt(s)'
    <3>1. CASE st'[s] = "gone" BY <3>1 DEF ReportedAt, Live
    <3>2. CASE st'[s] = "closing"
      <4>1. s \in Live BY <1>1 DEF Live
      <4>2. Reporting(s) => Reporting(s)' BY <1>1, <1>4, <3>2 DEF Reporting, In
      <4> QED BY <1>0, <1>1, <4>1, <4>2, Zenon DEF Good, ReportedAt
    <3> QED BY <1>4, <3>1, <3>2
  <2> QED BY <2>1, <2>2, <2>3 DEF Good
<1>7. Queued'
  <2>1. \A x \in Streams \ {s} : x \in Live => x \in Live' BY <1>4 DEF Live
  <2>2. st'[s] = "closing" => s \in Live' BY DEF Live
  <2> QED BY <1>0, <1>3, <1>4, <2>1, <2>2 DEF Queued, Live
<1> QED BY <1>2, <1>5, <1>6, <1>7, OneStream

LEMMA WakeDeliver ==
  ASSUME IInv, WInv, NEW n \in 1 .. MaxIn, Deliver(n) PROVE WInv'
<1>a. PICK s \in Streams : s = cur BY DEF IInv, Control, Deliver
<1>0. Good(s) /\ Queued /\ st[s] = "proxy" BY <1>a DEF WInv, Current, Deliver
<1>1. /\ pc = "process" /\ Consume(s, n)
      /\ UNCHANGED <<version, pc, cur, cw, st, readVars, out, frame, finVars, seen, told,
                     flushQ>>
  BY <1>a DEF Deliver, flushVars
<1>2. n \in Nat /\ n > 0 /\ Threshold \in Nat \ {0} BY Constants
<1>3. s \in Live BY <1>0 DEF Live
<1>4. /\ rx' = [rx EXCEPT ![s] = rx[s] + n] /\ rx[s] \in Nat
      /\ since[s] \in Nat /\ report[s] \in Nat /\ updQ \in Seq(Streams) /\ IsInjective(updQ)
  BY <1>0, <1>1, Shapes DEF Consume, Queued
<1>5. rx'[s] = rx[s] + n /\ \A x \in Streams \ {s} : rx'[x] = rx[x] BY <1>0, <1>4, Shapes
<1>6. pc' = "process" /\ cur' = s /\ cur = s BY <1>a, <1>1
<1>7. /\ \A x \in Streams \ {s} : /\ since'[x] = since[x] /\ report'[x] = report[x]
                                  /\ upd'[x] = upd[x]
                                  /\ In(updQ, x) => In(updQ', x)
      /\ Queued' /\ ReportedAt(s)'
  <2>1. CASE Due(s, n)
    <3>1. /\ report' = [report EXCEPT ![s] = rx[s] + n] /\ since' = [since EXCEPT ![s] = 0]
          /\ updQ' = Enqueue(updQ, s)
          /\ upd' = [upd EXCEPT ![s].on = @ /\ ~(In(updQ, s) /\ upd[s].pos = 0),
                                ![s].resend = @ \/ (In(updQ, s) /\ upd[s].pos > 0)]
      BY <1>1, <2>1 DEF Consume
    <3>2. ToSet(updQ') = ToSet(updQ) \cup {s} /\ IsInjective(updQ')
      BY <1>0, <1>4, <3>1, EnqueueProperties
    <3>3. Queued' BY <1>0, <1>1, <1>3, <3>2 DEF Queued, Live
    <3>4. /\ report'[s] = rx[s] + n /\ since'[s] = 0
          /\ \A x \in Streams \ {s} : report'[x] = report[x] /\ since'[x] = since[x]
      BY <1>0, <3>1, Shapes
    <3>5. \A x \in Streams \ {s} : upd'[x] = upd[x] BY <1>0, <3>1, Shapes
    <3>6. /\ upd'[s].on <=> upd[s].on /\ ~(In(updQ, s) /\ upd[s].pos = 0)
          /\ upd'[s].resend <=> upd[s].resend \/ (In(updQ, s) /\ upd[s].pos > 0)
          /\ upd'[s].pos = upd[s].pos /\ upd[s].pos \in Nat
      <4> DEFINE o == upd[s].on /\ ~(In(updQ, s) /\ upd[s].pos = 0)
                 r == upd[s].resend \/ (In(updQ, s) /\ upd[s].pos > 0)
      <4>1. upd' = [upd EXCEPT ![s].on = o, ![s].resend = r] BY <3>1, Zenon
      <4>2. upd[s] \in UpdSet /\ upd[s].pos \in Nat BY Shapes, Constants DEF UpdSet
      <4> HIDE DEF o, r
      <4>3. (upd'[s].on <=> o) /\ (upd'[s].resend <=> r) /\ upd'[s].pos = upd[s].pos
        BY <4>1, <4>2, Shapes DEF UpdSet
      <4> QED BY <4>2, <4>3 DEF o, r
    <3>7. ReportedAt(s)'
      <4>1. /\ upd[s].on => In(updQ, s) /\ upd[s].pos \in Nat
            /\ upd[s].resend => upd[s].pos > 0
            /\ upd[s].pos > 0 => upd[s].on
        BY <1>0, <1>1, <1>3, <3>6 DEF Good, ReportedAt, Reporting
      <4>2. Reporting(s)' BY <3>2 DEF Reporting, In
      <4>3. since'[s] < Threshold /\ rx'[s] - report'[s] = since'[s]
        BY <1>2, <1>4, <1>5, <3>4
      <4>4. /\ upd'[s].on => upd'[s].resend
            /\ upd'[s].resend => upd'[s].pos > 0
            /\ upd'[s].pos > 0 => upd'[s].on
        BY <3>6, <4>1
      <4> QED BY <4>2, <4>3, <4>4 DEF ReportedAt
    <3>8. \A x \in Streams : In(updQ, x) => In(updQ', x) BY <3>2 DEF In
    <3> QED BY <3>3, <3>4, <3>5, <3>7, <3>8
  <2>2. CASE ~Due(s, n)
    <3>1. since' = [since EXCEPT ![s] = since[s] + n] /\ UNCHANGED <<report, upd, updQ>>
      BY <1>1, <2>2 DEF Consume
    <3>2. Queued' BY <1>0, <1>1, <3>1 DEF Queued, Live
    <3>3. since'[s] = since[s] + n /\ \A x \in Streams \ {s} : since'[x] = since[x]
      BY <1>0, <3>1, Shapes
    <3>4. ReportedAt(s)'
      <4>1. report[s] > 0 /\ since[s] + n < Threshold BY <1>2, <1>4, <2>2 DEF Due
      <4>2. rx[s] - report[s] = since[s] BY <1>0, <1>3, <4>1 DEF Good, ReportedAt
      <4>3. since'[s] < Threshold /\ rx'[s] - report'[s] = since'[s]
        BY <1>2, <1>4, <1>5, <3>1, <3>3, <4>1, <4>2
      <4>4. Reporting(s)' = Reporting(s) BY <1>1, <3>1, Zenon DEF Reporting
      <4> QED BY <1>0, <1>1, <1>3, <3>1, <4>3, <4>4, Zenon DEF Good, ReportedAt
    <3> QED BY <3>1, <3>2, <3>3, <3>4
  <2> QED BY <2>1, <2>2
<1>8. \A x \in Streams \ {s} : Untouched(x) /\ Kept(x)
  BY <1>1, <1>5, <1>6, <1>7 DEF Untouched, Kept, readVars, finVars
<1>9. Good(s)'
  <2>1. Window(s)' = Window(s) BY <1>1 DEF Window, Inflight
  <2>2. FlushedAt(s)'
    BY <1>0, <1>1, <2>1 DEF Good, FlushedAt, Owing, Stuck, Live, readVars, finVars, In
  <2>3. AwakeAt(s)' /\ FreshAt(s)' BY <1>0, <1>1, <1>6 DEF AwakeAt, FreshAt
  <2> QED BY <1>7, <2>2, <2>3 DEF Good
<1>10. Current' /\ Armed' BY <1>0, <1>1, <1>6 DEF Current, Armed
<1> QED BY <1>0, <1>7, <1>8, <1>9, <1>10, OneStream

LEMMA WakeBusy == ASSUME IInv, WInv, Busy PROVE WInv'
<1>a. PICK s \in Streams : s = cur BY DEF IInv, Control, Busy
<1>0. Good(s) /\ Queued BY DEF WInv
<1>1. /\ pc = "process" /\ again' = again \cup {s} /\ EndProcess
      /\ UNCHANGED <<version, st, ub, eof, ready, postedUp, out, frame, finVars, seen,
                     updVars, flushQ>>
  BY <1>a DEF Busy
<1>2. pc' \in {"flush", "work"} /\ Current' /\ Armed' BY <1>1, EndsProcess
<1>3. \A x \in Streams \ {s} : Untouched(x) /\ Kept(x)
  BY <1>a, <1>1 DEF Untouched, Kept, finVars, updVars
<1>4. Good(s)'
  <2>1. Window(s)' = Window(s) BY <1>1 DEF Window, Inflight
  <2>2. FlushedAt(s)'
    BY <1>0, <1>1, <2>1 DEF Good, FlushedAt, Owing, Stuck, Live, finVars, In
  <2>3. AwakeAt(s)' BY <1>1 DEF AwakeAt
  <2>4. ReportedAt(s)' BY <1>0, <1>1 DEF Good, ReportedAt, Reporting, Live, updVars, In
  <2>5. FreshAt(s)' BY <1>0, <1>1 DEF Good, FreshAt, Owing, finVars, updVars
  <2> QED BY <2>2, <2>3, <2>4, <2>5 DEF Good
<1>5. Queued' BY <1>0, <1>1 DEF Queued, Live, updVars
<1> QED BY <1>0, <1>2, <1>3, <1>4, <1>5, OneStream

LEMMA WakeReadUpstream ==
  ASSUME IInv, WInv, NEW k \in 0 .. Cap, ReadUpstream(k) PROVE WInv'
<1>a. PICK s \in Streams : s = cur BY DEF IInv, Control, ReadUpstream
<1> DEFINE reads == ub[s] = 0 /\ ~eof[s] /\ ready[s]
           total == ub[s] + k
           owes  == eof'[s] /\ total = 0 /\ ~finSent[s]
<1>0. Good(s) /\ Queued /\ st[s] = "proxy" BY <1>a DEF WInv, Current, ReadUpstream
<1>1. /\ pc = "process" /\ EndProcess
      /\ k > 0 => reads
      /\ ub' = [ub EXCEPT ![s] = total]
      /\ finDue' = [finDue EXCEPT ![s] = @ \/ owes]
      /\ flushQ' = IF owes \/ total > 0 THEN Enqueue(flushQ, s) ELSE flushQ
      /\ UNCHANGED <<version, postedUp, again, st, out, frame, seen, updVars>>
  BY <1>a DEF ReadUpstream
<1>2. PICK end \in BOOLEAN, more \in BOOLEAN :
        /\ end => reads /\ k = 0
        /\ more => reads /\ k > 0
        /\ eof' = [eof EXCEPT ![s] = @ \/ end]
        /\ ready' = [ready EXCEPT ![s] = IF reads THEN more ELSE @]
  BY <1>a DEF ReadUpstream
<1>3. pc' \in {"flush", "work"} /\ Current' /\ Armed' BY <1>1, EndsProcess
<1>4. /\ k \in Nat /\ ub[s] \in Nat /\ total \in Nat
      /\ ub'[s] = total /\ (finDue'[s] <=> (finDue[s] \/ owes))
      /\ \A x \in Streams \ {s} : ub'[x] = ub[x] /\ finDue'[x] = finDue[x]
  <2>1. k \in Nat /\ ub[s] \in Nat BY Shapes
  <2> HIDE DEF owes
  <2>2. (finDue'[s] <=> (finDue[s] \/ owes)) /\ \A x \in Streams \ {s} : finDue'[x] = finDue[x]
    BY <1>1, Shapes
  <2>3. ub'[s] = total /\ \A x \in Streams \ {s} : ub'[x] = ub[x] BY <1>1, Shapes
  <2> QED BY <2>1, <2>2, <2>3
<1>5. /\ (eof'[s] <=> (eof[s] \/ end)) /\ (ready'[s] <=> IF reads THEN more ELSE ready[s])
      /\ \A x \in Streams \ {s} : eof'[x] = eof[x] /\ ready'[x] = ready[x]
  BY <1>0, <1>2, Shapes
<1>6. /\ ToSet(flushQ') = IF owes \/ total > 0 THEN ToSet(flushQ) \cup {s} ELSE ToSet(flushQ)
      /\ IsInjective(flushQ')
  <2>1. flushQ \in Seq(Streams) /\ IsInjective(flushQ) BY <1>0, Shapes DEF Queued
  <2>2. CASE owes \/ total > 0
    <3>1. flushQ' = Enqueue(flushQ, s) BY <1>1, <2>2
    <3> QED BY <1>0, <2>1, <2>2, <3>1, EnqueueProperties
  <2>3. CASE ~(owes \/ total > 0) BY <1>1, <2>1, <2>3
  <2> QED BY <2>2, <2>3
<1>7. \A x \in Streams \ {s} : Untouched(x) /\ Kept(x)
  <2>1. \A x \in Streams : In(flushQ, x) => In(flushQ', x) BY <1>6 DEF In
  <2> QED BY <1>a, <1>1, <1>4, <1>5, <2>1 DEF Untouched, Kept, updVars
<1>8. Good(s)'
  <2> HIDE DEF owes
  <2>0. owes \/ total > 0 => In(flushQ', s) BY <1>6 DEF In
  <2>1. FlushedAt(s)'
    <3>1. CASE owes \/ total > 0 BY <2>0, <3>1 DEF FlushedAt
    <3>2. CASE ~(owes \/ total > 0)
      <4>1. ub[s] = 0 /\ ub'[s] = 0 BY <1>4, <3>2
      <4>2. Owing(s)' => Owing(s) BY <1>1, <1>4, <3>2, <4>1 DEF Owing
      <4>3. Owing(s) => In(flushQ, s) \/ s \notin Live
        BY <1>0, <1>1, <4>1 DEF Good, FlushedAt, Stuck
      <4> QED BY <1>1, <1>6, <3>2, <4>2, <4>3 DEF FlushedAt, In, Live
    <3> QED BY <3>1, <3>2
  <2>2. AwakeAt(s)'
    <3>1. CASE reads BY <1>2, <1>4, <1>5, <2>0, <3>1 DEF AwakeAt
    <3>2. CASE ~reads BY <1>4, <1>5, <2>0, <3>2 DEF AwakeAt
    <3> QED BY <3>1, <3>2
  <2>3. ReportedAt(s)' BY <1>0, <1>1 DEF Good, ReportedAt, Reporting, Live, updVars, In
  <2>4. FreshAt(s)' BY <1>0, <1>1 DEF FreshAt
  <2> QED BY <2>1, <2>2, <2>3, <2>4 DEF Good
<1>9. Queued' BY <1>0, <1>1, <1>6 DEF Queued, Live, updVars
<1> QED BY <1>0, <1>3, <1>7, <1>8, <1>9, OneStream

LEMMA WakeNextUpd == ASSUME IInv, WInv, NextUpd PROVE WInv'
<1> DEFINE s == updQ[1]
<1>0. /\ pc = "flush" /\ pc' = "upd" /\ cur' = s /\ updQ # <<>> /\ updQ' = Tail(updQ)
      /\ upd' = [upd EXCEPT ![s] = Packed(s)]
      /\ UNCHANGED <<version, st, readVars, out, frame, finVars, seen, rx, since, report,
                     told, flushQ>>
  BY DEF NextUpd
<1>1. /\ s \in Streams /\ In(updQ, s) /\ ToSet(updQ) = {s} \cup ToSet(updQ')
      /\ IsInjective(updQ') /\ s \notin ToSet(updQ')
  BY <1>0, Shapes, TailSet DEF WInv, Queued, In
<1>2. PICK c \in Streams : c = s BY <1>1
<1> HIDE DEF s
<1>3. Good(c) /\ Queued /\ c \in Live BY <1>1, <1>2 DEF WInv, Queued, In
<1>4. upd'[c] = Packed(c) /\ \A x \in Streams \ {c} : upd'[x] = upd[x]
  BY <1>0, <1>2, Shapes
<1>5. \A x \in Streams \ {c} : Untouched(x) /\ Kept(x)
  <2>1. \A x \in Streams \ {c} : In(updQ, x) => In(updQ', x) BY <1>1, <1>2 DEF In
  <2> QED BY <1>0, <1>4, <2>1 DEF Untouched, Kept, readVars, finVars
<1>6. /\ Packed(c).on
      /\ Packed(c).val = report[c] \/ Packed(c).resend
      /\ Packed(c).resend => Packed(c).pos > 0
  <2>1. /\ upd[c].on => upd[c].val = report[c] \/ upd[c].resend
        /\ upd[c].resend => upd[c].pos > 0
        /\ upd[c].pos > 0 => upd[c].on
    BY <1>3 DEF Good, ReportedAt
  <2>2. CASE upd[c].on BY <2>1, <2>2 DEF Packed
  <2>3. CASE ~upd[c].on
    <3>1. upd[c] \in UpdSet BY Shapes
    <3>2. Packed(c).on /\ Packed(c).val = report[c] /\ Packed(c).resend = upd[c].resend
      BY <2>3, <3>1 DEF Packed, UpdSet
    <3> QED BY <2>1, <2>3, <3>2
  <2> QED BY <2>2, <2>3
<1>7. Good(c)'
  <2>1. Window(c)' = Window(c) BY <1>0 DEF Window, Inflight
  <2>2. FlushedAt(c)'
    BY <1>0, <1>3, <2>1 DEF Good, FlushedAt, Owing, Stuck, Live, readVars, finVars, In
  <2>3. AwakeAt(c)' BY <1>0, <1>3 DEF Good, AwakeAt, readVars, In
  <2>4. ReportedAt(c)'
    <3>1. Reporting(c)' BY <1>0, <1>2 DEF Reporting
    <3>2. since[c] < Threshold /\ (report[c] > 0 => rx[c] - report[c] = since[c])
      BY <1>3 DEF Good, ReportedAt
    <3> QED BY <1>0, <1>4, <1>6, <3>1, <3>2, Zenon DEF ReportedAt
  <2>5. FreshAt(c)' BY <1>0, <1>3 DEF FreshAt, Live
  <2> QED BY <2>2, <2>3, <2>4, <2>5 DEF Good
<1>8. Queued' BY <1>0, <1>1, <1>3 DEF Queued, Live
<1>9. Current' /\ Armed' BY <1>0, <1>1, <1>2, <1>3, <1>4, <1>6 DEF Current, Armed, Live, In
<1> QED BY <1>5, <1>7, <1>8, <1>9, OneStream

LEMMA WakeNextFrame == ASSUME IInv, WInv, NextFrame PROVE WInv'
<1> DEFINE s == flushQ[1]
<1>0. /\ pc = "flush" /\ pc' = "frame" /\ cur' = s /\ flushQ # <<>> /\ flushQ' = Tail(flushQ)
      /\ UNCHANGED <<version, st, readVars, out, frame, finVars, seen, updVars>>
  BY DEF NextFrame
<1>1. /\ s \in Streams /\ In(flushQ, s) /\ ToSet(flushQ) = {s} \cup ToSet(flushQ')
      /\ IsInjective(flushQ')
  BY <1>0, Shapes, TailSet DEF WInv, Queued, In
<1>2. PICK c \in Streams : c = s BY <1>1
<1> HIDE DEF s
<1>3. Good(c) /\ Queued /\ c \in Live BY <1>1, <1>2 DEF WInv, Queued, In
<1>4. \A x \in Streams \ {c} : Untouched(x) /\ Kept(x)
  <2>1. \A x \in Streams \ {c} : In(flushQ, x) => In(flushQ', x) BY <1>1, <1>2 DEF In
  <2> QED BY <1>0, <2>1 DEF Untouched, Kept, readVars, finVars, updVars
<1>5. Good(c)'
  <2>1. FlushedAt(c)' /\ AwakeAt(c)' BY <1>0, <1>2 DEF FlushedAt, AwakeAt
  <2>2. ReportedAt(c)' BY <1>0, <1>3 DEF Good, ReportedAt, Reporting, Live, updVars, In
  <2>3. FreshAt(c)' BY <1>0, <1>3 DEF FreshAt, Live
  <2> QED BY <2>1, <2>2, <2>3 DEF Good
<1>6. Queued' BY <1>0, <1>1, <1>3 DEF Queued, Live, updVars
<1>7. Current' /\ Armed' BY <1>0, <1>2, <1>3 DEF Current, Armed, Live
<1> QED BY <1>4, <1>5, <1>6, <1>7, OneStream

\* The steps of flush_stream_to_client for the stream in hand.
LEMMA InHand ==
  ASSUME IInv, WInv, pc = "frame"
  PROVE  /\ cur \in Streams /\ cur \in Live /\ Queued /\ Good(cur)
         /\ flushQ \in Seq(Streams) /\ updQ \in Seq(Streams)
         /\ IsInjective(flushQ) /\ IsInjective(updQ)
<1>1. cur \in Streams /\ cur \in Live BY DEF WInv, IInv, Control, Current
<1> QED BY <1>1, Shapes DEF WInv, Queued

\* They touch no report.
LEMMA ReportStays ==
  ASSUME NEW s \in Streams, Good(s), pc = "frame",
         st'[s] \in {st[s], "gone"},
         UNCHANGED <<rx, since, report, upd, told>>,
         st'[s] # "gone" => (In(updQ, s) => In(updQ', s))
  PROVE  ReportedAt(s)'
<1>1. CASE st'[s] = "gone" BY <1>1 DEF ReportedAt, Live
<1>2. CASE st'[s] # "gone"
  <2>1. s \in Live' => s \in Live BY <1>2 DEF Live
  <2>2. Reporting(s) => Reporting(s)' BY <1>2 DEF Reporting
  <2> QED BY <2>1, <2>2, Zenon DEF Good, ReportedAt
<1> QED BY <1>1, <1>2

LEMMA WakePackFrame == ASSUME IInv, WInv, PackFrame PROVE WInv'
<1>0. /\ pc = "frame" /\ pc' = "frame" /\ cur' = cur
      /\ UNCHANGED <<version, st, readVars, out, finVars, seen, updVars, flushQ>>
  BY DEF PackFrame, flushVars
<1>1. PICK s \in Streams : s = cur BY <1>0, InHand
<1>2. s \in Live /\ Queued /\ Good(s) BY <1>0, <1>1, InHand
<1>3. \A x \in Streams \ {s} : frame'[x] = frame[x] BY <1>1, Shapes DEF PackFrame
<1>4. \A x \in Streams \ {s} : Untouched(x) /\ Kept(x)
  BY <1>0, <1>1, <1>3 DEF Untouched, Kept, readVars, finVars, updVars
<1>5. Good(s)'
  <2>1. FlushedAt(s)' /\ AwakeAt(s)' BY <1>0, <1>1 DEF FlushedAt, AwakeAt
  <2>2. ReportedAt(s)' BY <1>0, <1>2, ReportStays DEF updVars
  <2>3. FreshAt(s)' BY <1>0, <1>2 DEF FreshAt, Live
  <2> QED BY <2>1, <2>2, <2>3 DEF Good
<1>6. Queued' BY <1>0, <1>2 DEF Queued, Live, updVars
<1>7. Current' /\ Armed' BY <1>0, <1>1, <1>2 DEF Current, Armed, Live
<1> QED BY <1>4, <1>5, <1>6, <1>7, OneStream

LEMMA WakeWindowClosed == ASSUME IInv, WInv, WindowClosed PROVE WInv'
<1>0. /\ pc = "frame" /\ pc' = "flush"
      /\ UNCHANGED <<version, st, readVars, out, frame, finVars, seen, updVars, flushQ>>
  BY DEF WindowClosed
<1>1. PICK s \in Streams : s = cur BY <1>0, InHand
<1>2. s \in Live /\ Queued /\ Good(s) /\ Stuck(s)
  BY <1>0, <1>1, InHand DEF WindowClosed, Stuck
<1>3. \A x \in Streams \ {s} : Untouched(x) /\ Kept(x)
  BY <1>0, <1>1 DEF Untouched, Kept, readVars, finVars, updVars
<1>4. Good(s)'
  <2>1. Stuck(s)' BY <1>0, <1>2 DEF Stuck, Window, Inflight, readVars
  <2>2. FlushedAt(s)' /\ AwakeAt(s)' BY <2>1 DEF FlushedAt, AwakeAt, Stuck
  <2>3. ReportedAt(s)' BY <1>0, <1>2, ReportStays DEF updVars
  <2>4. FreshAt(s)' BY <1>0, <1>2 DEF FreshAt, Live
  <2> QED BY <2>2, <2>3, <2>4 DEF Good
<1>5. Queued' BY <1>0, <1>2 DEF Queued, Live, updVars
<1>6. Current' /\ Armed' BY <1>0 DEF Current, Armed
<1> QED BY <1>3, <1>4, <1>5, <1>6, OneStream

LEMMA WakeSendUpd ==
  ASSUME IInv, WInv, NEW n \in 0 .. UpdLen, SendUpd(n) PROVE WInv'
<1>0. /\ pc = "upd" /\ UNCHANGED <<version, st, readVars, out, frame, finVars, seen, rx,
                                   since, report, flushQ>>
  BY DEF SendUpd
<1>1. PICK s \in Streams : s = cur BY <1>0 DEF IInv, Control
<1>2. /\ s \in Live /\ ~In(updQ, s) /\ upd[s].on /\ Queued /\ Good(s)
      /\ updQ \in Seq(Streams) /\ IsInjective(updQ)
  BY <1>0, <1>1, Shapes DEF WInv, Current, Queued
<1>3. /\ upd[s].val = report[s] \/ upd[s].resend
      /\ since[s] < Threshold /\ (report[s] > 0 => rx[s] - report[s] = since[s])
      /\ upd[s].resend => upd[s].pos > 0
  BY <1>2 DEF Good, ReportedAt
<1>4. FlushStops \/ FlushGoesOn(n) BY DEF SendUpd
<1>5. pc' \in {"idle", "flush", "work"} /\ Current' /\ Armed' BY <1>4, FlushMoves
<1>6. /\ updQ' = updQ \/ updQ' = Append(updQ, s)
      /\ \A x \in Streams \ {s} : upd'[x] = upd[x] /\ told'[x] = told[x]
      /\ upd'[s].on => In(updQ', s) /\ (upd'[s].val = report[s] \/ upd'[s].resend)
      /\ told'[s] = report[s] \/ In(updQ', s)
      /\ upd'[s].resend => upd'[s].pos > 0
      /\ upd'[s].pos > 0 => upd'[s].on
  <2>1. updQ' = Append(updQ, s) => In(updQ', s)
    BY <1>2, AppendSet DEF In
  <2>2. CASE upd[s].pos + n = UpdLen
    <3>1. /\ upd' = [upd EXCEPT ![s] = NoUpd] /\ told' = [told EXCEPT ![s] = upd[s].val]
          /\ updQ' = IF upd[s].resend THEN Append(updQ, s) ELSE updQ
      BY <1>1, <2>2 DEF SendUpd
    <3>2. upd'[s] = NoUpd /\ told'[s] = upd[s].val
          /\ \A x \in Streams \ {s} : upd'[x] = upd[x] /\ told'[x] = told[x]
      BY <3>1, Shapes
    <3>3. ~upd'[s].on /\ ~upd'[s].resend /\ upd'[s].pos = 0 BY <3>2 DEF NoUpd
    <3> QED BY <1>3, <2>1, <3>1, <3>2, <3>3
  <2>3. CASE upd[s].pos + n # UpdLen
    <3>1. /\ upd' = [upd EXCEPT ![s].pos = @ + n] /\ UNCHANGED told
          /\ updQ' = Append(updQ, s)
      BY <1>1, <2>3 DEF SendUpd
    <3>2. upd[s] \in UpdSet /\ n \in Nat /\ upd[s].pos \in Nat
      BY Shapes, Constants DEF UpdSet
    <3>3. /\ upd'[s].on = upd[s].on /\ upd'[s].val = upd[s].val
          /\ upd'[s].resend = upd[s].resend /\ upd'[s].pos = upd[s].pos + n
          /\ \A x \in Streams \ {s} : upd'[x] = upd[x]
      BY <3>1, <3>2, Shapes DEF UpdSet
    <3> QED BY <1>2, <1>3, <2>1, <3>1, <3>2, <3>3
  <2> QED BY <2>2, <2>3
<1>7. ToSet(updQ) \subseteq ToSet(updQ') /\ ToSet(updQ') \subseteq ToSet(updQ) \cup {s}
      /\ IsInjective(updQ')
  <2>1. CASE updQ' = updQ BY <1>2, <2>1
  <2>2. CASE updQ' = Append(updQ, s) BY <1>2, <2>2, AppendSet DEF In
  <2> QED BY <1>6, <2>1, <2>2
<1>8. \A x \in Streams \ {s} : Untouched(x) /\ Kept(x)
  <2>1. \A x \in Streams : In(updQ, x) => In(updQ', x) BY <1>7 DEF In
  <2> QED BY <1>0, <1>1, <1>6, <2>1 DEF Untouched, Kept, readVars, finVars
<1>9. Good(s)'
  <2>1. Window(s)' = Window(s) BY <1>0 DEF Window, Inflight
  <2>2. FlushedAt(s)'
    BY <1>0, <1>2, <2>1 DEF Good, FlushedAt, Owing, Stuck, Live, readVars, finVars, In
  <2>3. AwakeAt(s)' BY <1>0, <1>2 DEF Good, AwakeAt, readVars, In
  <2>4. ReportedAt(s)'
    <3>1. Reporting(s)' <=> In(updQ', s) BY <1>5 DEF Reporting
    <3> QED BY <1>0, <1>3, <1>6, <3>1, Zenon DEF ReportedAt
  <2>5. FreshAt(s)' BY <1>0, <1>2 DEF FreshAt, Live
  <2> QED BY <2>2, <2>3, <2>4, <2>5 DEF Good
<1>10. Queued' BY <1>0, <1>2, <1>7 DEF Queued, Live
<1> QED BY <1>5, <1>8, <1>9, <1>10, OneStream

LEMMA WakeSendFrame ==
  ASSUME IInv, WInv, NEW n \in 0 .. (HeaderLen + MaxFrame), SendFrame(n) PROVE WInv'
<1>0. /\ pc = "frame"
      /\ UNCHANGED <<version, st, eof, ready, postedUp, again, finVars, seen, updVars>>
  BY DEF SendFrame
<1>1. PICK s \in Streams : s = cur BY <1>0, InHand
<1>2. /\ s \in Live /\ Queued /\ Good(s) /\ flushQ \in Seq(Streams) /\ IsInjective(flushQ)
  BY <1>0, <1>1, InHand
<1>3. \A x \in Streams \ {s} : frame'[x] = frame[x] /\ ub'[x] = ub[x] /\ out'[x] = out[x]
  BY <1>1, Shapes DEF SendFrame
<1>4. \/ flushQ' = Enqueue(flushQ, s) /\ FlushStops
      \/ pc' = pc /\ cur' = cur /\ flushQ' = flushQ
  BY <1>1 DEF SendFrame, Requeue
<1>5. /\ ToSet(flushQ) \subseteq ToSet(flushQ') /\ ToSet(flushQ') \subseteq ToSet(flushQ) \cup {s}
      /\ IsInjective(flushQ')
      /\ s \in ToSet(flushQ') \/ (pc' = "frame" /\ cur' = s)
      /\ Current' /\ Armed'
  <2>1. CASE flushQ' = Enqueue(flushQ, s) /\ FlushStops
    <3>1. ToSet(flushQ') = ToSet(flushQ) \cup {s} /\ IsInjective(flushQ')
      BY <1>2, <2>1, EnqueueProperties
    <3>2. Current' /\ Armed' BY <2>1, FlushMoves
    <3> QED BY <3>1, <3>2
  <2>2. CASE pc' = pc /\ cur' = cur /\ flushQ' = flushQ
    <3>1. Current' /\ Armed' BY <1>0, <1>1, <1>2, <2>2 DEF Current, Armed, Live
    <3> QED BY <1>0, <1>1, <1>2, <2>2, <3>1
  <2> QED BY <1>4, <2>1, <2>2
<1>6. \A x \in Streams \ {s} : Untouched(x) /\ Kept(x)
  <2>1. \A x \in Streams : In(flushQ, x) => In(flushQ', x) BY <1>5 DEF In
  <2> QED BY <1>0, <1>1, <1>3, <2>1 DEF Untouched, Kept, finVars, updVars
<1>7. Good(s)'
  <2>1. FlushedAt(s)' /\ AwakeAt(s)' BY <1>5 DEF FlushedAt, AwakeAt, In
  <2>2. ReportedAt(s)' BY <1>0, <1>2, ReportStays DEF updVars
  <2>3. FreshAt(s)' BY <1>0, <1>2 DEF FreshAt, Live
  <2> QED BY <2>1, <2>2, <2>3 DEF Good
<1>8. Queued' BY <1>0, <1>2, <1>5 DEF Queued, Live, updVars
<1> QED BY <1>5, <1>6, <1>7, <1>8, OneStream

LEMMA WakeFinishStream ==
  ASSUME IInv, WInv, NEW n \in 0 .. HeaderLen, FinishStream(n) PROVE WInv'
<1> DEFINE due   == FinIsDue(cur)
           whole == n = (IF due THEN HeaderLen - finPos[cur] ELSE 0)
<1>0. /\ pc = "frame" /\ ub[cur] = 0 /\ ~frame[cur].on
      /\ postedUp' = [postedUp EXCEPT ![cur] = Rearmed(cur)]
      /\ finDue' = [finDue EXCEPT ![cur] = due /\ ~whole]
      /\ UNCHANGED <<version, ub, eof, ready, again, out, frame, seen, rx, since, report,
                     upd, told>>
  BY DEF FinishStream
<1>1. PICK s \in Streams : s = cur BY <1>0, InHand
<1>2. /\ s \in Live /\ Queued /\ Good(s) /\ flushQ \in Seq(Streams) /\ IsInjective(flushQ)
      /\ updQ \in Seq(Streams) /\ IsInjective(updQ)
  BY <1>0, <1>1, InHand
<1>3. \/ ~whole /\ flushQ' = Enqueue(flushQ, s) /\ FlushStops /\ UNCHANGED <<st, updQ>>
      \/ whole /\ st[s] = "closing" /\ Free(s, flushQ, updQ) /\ FlushGoesOn(n)
      \/ whole /\ st[s] # "closing" /\ UNCHANGED <<st, flushQ, updQ>> /\ FlushGoesOn(n)
  BY <1>1 DEF FinishStream, Requeue
<1> HIDE DEF due, whole
<1>4. /\ \A x \in Streams \ {s} : postedUp'[x] = postedUp[x] /\ finDue'[x] = finDue[x]
      /\ ready[s] /\ ~eof[s] => postedUp'[s]
      /\ whole => ~finDue'[s]
  BY <1>0, <1>1, Shapes DEF Rearmed
<1>5. pc' \in {"idle", "flush", "work"} /\ Current' /\ Armed' BY <1>3, FlushMoves
<1>6. /\ \A x \in Streams \ {s} : st'[x] = st[x]
      /\ st'[s] \in {st[s], "gone"}
      /\ IsInjective(flushQ') /\ IsInjective(updQ')
      /\ \A x \in Streams \ {s} : /\ x \in ToSet(flushQ') <=> x \in ToSet(flushQ)
                                  /\ x \in ToSet(updQ') <=> x \in ToSet(updQ)
      /\ ToSet(flushQ') \subseteq ToSet(flushQ) \cup {s} /\ ToSet(updQ') \subseteq ToSet(updQ)
      /\ st'[s] # "gone" => updQ' = updQ /\ (s \in ToSet(flushQ') \/ whole)
      /\ st'[s] = "gone" => s \notin ToSet(flushQ') /\ s \notin ToSet(updQ')
  <2>0. st[s] # "gone" BY <1>2 DEF Live
  <2>1. CASE flushQ' = Enqueue(flushQ, s) /\ UNCHANGED <<st, updQ>>
    <3>1. ToSet(flushQ') = ToSet(flushQ) \cup {s} /\ IsInjective(flushQ')
      BY <1>2, <2>1, EnqueueProperties
    <3> QED BY <1>2, <2>0, <2>1, <3>1
  <2>2. CASE Free(s, flushQ, updQ)
    <3>1. /\ ToSet(flushQ') = ToSet(flushQ) \ {s} /\ IsInjective(flushQ')
          /\ ToSet(updQ') = ToSet(updQ) \ {s} /\ IsInjective(updQ')
      BY <1>2, <2>2, WithoutProperties DEF Free
    <3>2. st'[s] = "gone" /\ \A x \in Streams \ {s} : st'[x] = st[x]
      BY <2>2, Shapes DEF Free
    <3> QED BY <3>1, <3>2
  <2>3. CASE whole /\ UNCHANGED <<st, flushQ, updQ>> BY <1>2, <2>0, <2>3
  <2> QED BY <1>3, <2>1, <2>2, <2>3
<1>7. \A x \in Streams \ {s} : Untouched(x) /\ Kept(x)
  <2>1. \A x \in Streams \ {s} : /\ In(flushQ, x) => In(flushQ', x)
                                 /\ In(updQ, x) => In(updQ', x)
    BY <1>6 DEF In
  <2> QED BY <1>0, <1>1, <1>4, <1>6, <2>1 DEF Untouched, Kept
<1>8. Good(s)'
  <2>1. FlushedAt(s)'
    <3>1. CASE st'[s] = "gone" BY <3>1 DEF FlushedAt, Live
    <3>2. CASE st'[s] # "gone" /\ s \in ToSet(flushQ') BY <3>2 DEF FlushedAt, In
    <3>3. CASE whole
      <4>1. ~Owing(s)' BY <1>0, <1>1, <1>4, <3>3 DEF Owing
      <4> QED BY <4>1 DEF FlushedAt
    <3> QED BY <1>6, <3>1, <3>2, <3>3
  <2>2. AwakeAt(s)' BY <1>0, <1>4 DEF AwakeAt
  <2>3. ReportedAt(s)' BY <1>0, <1>2, <1>6, ReportStays
  <2>4. FreshAt(s)' BY <1>2, <1>6 DEF FreshAt, Live
  <2> QED BY <2>1, <2>2, <2>3, <2>4 DEF Good
<1>9. Queued'
  <2>1. \A x \in Streams \ {s} : x \in Live => x \in Live' BY <1>6 DEF Live
  <2>2. st'[s] # "gone" => s \in Live' BY <1>2, <1>6 DEF Live
  <2>3. ToSet(flushQ) \subseteq Streams /\ ToSet(flushQ) \subseteq Live
        /\ ToSet(updQ) \subseteq Streams /\ ToSet(updQ) \subseteq Live
    BY <1>2 DEF Queued, Live
  <2>4. ASSUME NEW x \in ToSet(flushQ') PROVE x \in Live'
    BY <1>2, <1>6, <2>1, <2>2, <2>3
  <2>5. ASSUME NEW x \in ToSet(updQ') PROVE x \in Live'
    BY <1>2, <1>6, <2>1, <2>2, <2>3
  <2> QED BY <1>6, <2>4, <2>5 DEF Queued
<1> QED BY <1>5, <1>7, <1>8, <1>9, OneStream

----------------------------------------------------------------------------
LEMMA WakeInv == IInv /\ WInv /\ [Next]_vars => WInv'
<1> SUFFICES ASSUME IInv, WInv, [Next]_vars PROVE WInv' OBVIOUS
<1>1. CASE ClientEvent BY <1>1, WakeClientEvent
<1>2. CASE WorkEnd BY <1>2, WakeWorkEnd
<1>3. CASE FlushEnd BY <1>3, WakeFlushEnd
<1>4. CASE NextUpd BY <1>4, WakeNextUpd
<1>5. CASE NextFrame BY <1>5, WakeNextFrame
<1>6. CASE PackFrame BY <1>6, WakePackFrame
<1>7. CASE WindowClosed BY <1>7, WakeWindowClosed
<1>8. ASSUME NEW s \in Streams, Open(s) \/ TakeUpd(s) \/ StartProcess(s) \/ CloseStream(s)
      PROVE  WInv'
  BY <1>8, WakeOpen, WakeTakeUpd, WakeStartProcess, WakeCloseStream
<1>9. ASSUME NEW n \in 1 .. MaxIn, Deliver(n) PROVE WInv' BY <1>9, WakeDeliver
<1>10. CASE Busy BY <1>10, WakeBusy
<1>11. ASSUME NEW k \in 0 .. Cap, ReadUpstream(k) PROVE WInv' BY <1>11, WakeReadUpstream
<1>12. ASSUME NEW n \in 0 .. UpdLen, SendUpd(n) PROVE WInv' BY <1>12, WakeSendUpd
<1>13. ASSUME NEW n \in 0 .. (HeaderLen + MaxFrame), SendFrame(n) PROVE WInv'
  BY <1>13, WakeSendFrame
<1>14. ASSUME NEW n \in 0 .. HeaderLen, FinishStream(n) PROVE WInv' BY <1>14, WakeFinishStream
<1>15. ASSUME NEW s \in Streams, NEW n \in 1 .. PeerWindow, ClientEats(s, n) PROVE WInv'
  BY <1>15, WakeClientEats
<1>16. CASE UNCHANGED vars BY <1>16, WakeStutter
<1> QED
  BY <1>1, <1>2, <1>3, <1>4, <1>5, <1>6, <1>7, <1>8, <1>9, <1>10, <1>11, <1>12, <1>13,
     <1>14, <1>15, <1>16 DEF Next

LEMMA WakeInvariant == Spec => [](IInv /\ WInv)
<1>1. Init => IInv /\ WInv BY InitInv, InitWInv
<1>2. IInv /\ WInv /\ [Next]_vars => (IInv /\ WInv)'
  <2>1. IInv /\ [Next]_vars => IInv' BY StepInv
  <2> QED BY <2>1, WakeInv
<1> QED BY <1>1, <1>2, PTL DEF Spec

\* While the worker waits for events, what a stream has for the client is
\* queued with the client's write event outstanding, or the client's window
\* keeps it; a readable upstream is going to be read; the queues name no
\* freed stream, and none twice.  mux_flush_client, flush_stream_to_client
\* and the places that queue a stream.
THEOREM NothingStallsSafe == Spec => []NothingStalls
<1>1. IInv /\ WInv => NothingStalls
  <2> SUFFICES ASSUME IInv, WInv PROVE NothingStalls OBVIOUS
  <2>1. ASSUME pc = "idle", NEW s \in Streams, In(flushQ, s) PROVE ~cw
    <3>1. flushQ # <<>> BY <2>1, EmptySeq DEF In, ToSet
    <3> QED BY <2>1, <3>1 DEF WInv, Armed
  <2>2. NoLostFlush
    <3> SUFFICES ASSUME pc = "idle", NEW s \in Live, Owing(s)
                 PROVE  (In(flushQ, s) /\ ~cw) \/ Stuck(s)
      BY DEF NoLostFlush, Owing, Stuck
    <3>1. s \in Streams BY DEF Live
    <3> QED BY <2>1, <3>1 DEF WInv, Good, FlushedAt
  <2>3. NoStalledUpstream
    <3> SUFFICES ASSUME pc = "idle", NEW s \in Streams, st[s] = "proxy", ready[s], ~eof[s]
                 PROVE  postedUp[s] \/ s \in again \/ ub[s] > 0 \/ (In(flushQ, s) /\ ~cw)
      BY DEF NoStalledUpstream
    <3> QED BY <2>1 DEF WInv, Good, AwakeAt
  <2>4. QueuesLive BY DEF WInv, Queued, QueuesLive
  <2> QED BY <2>2, <2>3, <2>4 DEF NothingStalls
<1> QED BY <1>1, WakeInvariant, PTL

\* The client is told what was consumed of its data: less than a threshold
\* is unreported, a report that was not told is queued while the client's
\* write event is outstanding.  return_recv_tokens, queue_update and
\* flush_updates.
THEOREM ReportsSafe == Spec => []ReportsReachClient
<1>1. IInv /\ WInv => ReportsReachClient
  <2> SUFFICES ASSUME IInv, WInv, NEW s \in Live
               PROVE  /\ since[s] < Threshold
                      /\ report[s] > 0 => rx[s] - report[s] = since[s]
                      /\ pc = "idle" => told[s] = report[s] \/ (In(updQ, s) /\ ~cw)
    BY DEF ReportsReachClient
  <2>1. s \in Streams BY DEF Live
  <2>2. ReportedAt(s) BY <2>1 DEF WInv, Good
  <2>3. ASSUME pc = "idle", In(updQ, s) PROVE ~cw
    <3>1. updQ # <<>> BY <2>3, EmptySeq DEF In, ToSet
    <3> QED BY <2>3, <3>1 DEF WInv, Armed
  <2> QED BY <2>2, <2>3 DEF ReportedAt, Reporting
<1> QED BY <1>1, WakeInvariant, PTL
=============================================================================
