--------------------------- MODULE SessionProofs ---------------------------
(***************************************************************************)
(* Proofs about Session, for every kind of inbound, every configuration    *)
(* and whatever the client and its upstream do.                            *)
(*                                                                         *)
(* Control: the states, handlers, events and attempts that go together.    *)
(* From it: no false promise is made to a client, and an ended session     *)
(* does nothing.  Carried and Awake: the bytes of the client are one line  *)
(* from what it said to what the upstream received, and whoever waits is   *)
(* woken.  Received: what a client hears is one reply and then the         *)
(* upstream.                                                               *)
(***************************************************************************)
EXTENDS Session, QueueProofs, FiniteSetTheorems

----------------------------------------------------------------------------
(* Where a session is: the inductive invariant of its control.             *)

Inputs    == {"prefix", "request", "socks5_in_greeting", "socks5_in_request", "http_in_request"}
Responses == {"socks5_in_response", "http_in_response"}
States ==
  Inputs \cup Responses
    \cup {"default_fallback", "resolving", "connecting", "socks5_tcp", "proxy", "udp", "mux", "ended"}
PCs == {"prefix", "request", "socks5_in", "http_in", "start_tcp", "resolve", "connect",
        "socks5_connect", "test_connect", "socks5", "success", "failure", "flush",
        "init_proxy", "proxy", "wait"}
Says == {"methods", "nomethod", "fail", "relay", "ok", "page", "nothing"}

\* What the control variables may hold.
Simple ==
  /\ state \in States /\ pc \in PCs /\ reply.what \in Says /\ reply.sent \in Nat
  /\ reply = [what |-> reply.what, sent |-> reply.sent]
  /\ query = [on |-> query.on, again |-> query.again]
  /\ up \in {"none", "syn", "open", "refused"} /\ handler \in {"peer", "socks5"}
  /\ naddrs \in Nat /\ index \in Nat /\ step \in 0 .. 6
  /\ history = [refused |-> history.refused, twice |-> history.twice]
  /\ history.refused \in Nat

\* The functions that run before there is an upstream connection.
Before == {"prefix", "request", "socks5_in", "http_in", "start_tcp", "resolve", "connect",
           "socks5_connect"}

\* The states a function is run in.
Where ==
  /\ pc = "prefix" => state = "prefix"
  /\ pc = "request" => state = "request"
  /\ pc = "socks5_in" => state \in {"socks5_in_greeting", "socks5_in_request"}
  /\ pc = "http_in" => state = "http_in_request"
  /\ pc = "start_tcp" => state \in {"request", "socks5_in_request", "http_in_request"}
  /\ pc = "resolve" => state \in {"request", "socks5_in_request", "http_in_request", "resolving"}
  /\ pc = "connect" => state \in Inputs \cup {"resolving", "connecting"}
  /\ pc = "socks5_connect" => state \in Inputs \cup {"socks5_tcp"}
  /\ pc = "test_connect" => state \in {"connecting", "socks5_tcp"}
  /\ pc = "socks5" => state \in {"socks5_tcp"} \cup Responses
  /\ pc \in {"success", "init_proxy"} => state \in {"connecting", "socks5_tcp"} \cup Responses
  /\ pc = "proxy" => state = "proxy"
  /\ pc = "flush" => state \in Responses \cup {"default_fallback"}
  /\ pc = "failure" => state # "proxy"

\* Nothing is left of an ended session; a query runs only while it is waited for.
Over == state = "ended" => pc = "wait" /\ ev = {} /\ timers = {} /\ ~query.on /\ up = "none"
Asking == query.on => pc = "wait" /\ state = "resolving"

\* The connection to the upstream, by state, function and handler.
Upstream ==
  /\ up = "none" => "peer" \notin ev /\ "pwrite" \notin timers
  /\ up = "syn" => "peer" \notin ev
  /\ pc \in {"success", "init_proxy"} \/ state \in Responses \cup {"proxy"} => "pwrite" \notin timers
  /\ pc \in Before => up = "none"
  /\ state \in Inputs \cup {"resolving"} => up = "none"
  /\ pc \in {"success", "init_proxy", "proxy", "socks5"} => up = "open"
  /\ pc = "test_connect" => up \in {"open", "refused"}
  /\ up # "none" /\ handler = "peer" => state \in {"connecting", "proxy"} \cup Responses
  /\ up # "none" /\ handler = "socks5" => state \in {"socks5_tcp"} \cup Responses
  /\ up \in {"syn", "refused"} => state = IF handler = "socks5" THEN "socks5_tcp" ELSE "connecting"
  /\ up \in {"syn", "refused"} /\ handler = "socks5" => step = 1
  /\ state = "connecting" => handler = "peer"
  /\ state = "socks5_tcp" => handler = "socks5"

\* What is being said to the client, by state.
Answers ==
  /\ reply.what = "ok" => state \in Responses \cup {"ended"} /\ (state # "ended" => up = "open")
  /\ state = "proxy" => up = "open" /\ reply.what = "nothing"
  /\ reply.what \in {"methods", "nomethod", "fail", "relay"}
       => state \in Responses \cup {"ended"} /\ up = "none"
  /\ reply.what = "page" => state \in {"default_fallback", "ended"} /\ up = "none"
  /\ state \in Responses /\ pc # "init_proxy" => reply.what # "nothing"
  /\ state = "default_fallback" => reply.what = "page"
  /\ pc = "init_proxy" => reply.what = "nothing"
  /\ state \in Responses \cup {"socks5_in_greeting", "socks5_in_request", "http_in_request"} => Local

\* Attempts are counted, and each address is tried once.
Attempts ==
  /\ pc \in {"connect", "socks5_connect"} \/ up \in {"syn", "refused"}
       => history.refused = index /\ index < naddrs
  /\ \/ pc \in {"prefix", "request", "socks5_in", "http_in", "start_tcp", "resolve"}
     \/ pc = "wait" /\ state \in Inputs \cup {"resolving"}
     \/ reply.what = "methods"
     => history.refused = 0
  /\ pc = "failure" /\ up = "none" => history.refused \in {0, naddrs}

Control == Simple /\ Where /\ Over /\ Asking /\ Upstream /\ Answers /\ Attempts

LEMMA ControlProcessPrefix == ASSUME Control, ProcessPrefix PROVE Control'
<1> USE ConstantsAssumption DEF Control, Simple, Where, Over, Asking, Upstream, Answers,
        Attempts, States, PCs, Says, Inputs, Responses, Before, ProcessPrefix,
        StartFallback, Passed, End, Finalize, Sleep, outbound, Local
<1>1. Simple' OBVIOUS
<1>2. Where' OBVIOUS
<1>3. Over' OBVIOUS
<1>4. Asking' OBVIOUS
<1>5. Upstream' OBVIOUS
<1>6. Answers' OBVIOUS
<1>7. Attempts' OBVIOUS
<1> QED BY <1>1, <1>2, <1>3, <1>4, <1>5, <1>6, <1>7 DEF Control

LEMMA ControlProcessRequest == ASSUME Control, ProcessRequest PROVE Control'
<1> USE ConstantsAssumption DEF Control, Simple, Where, Over, Asking, Upstream, Answers,
        Attempts, States, PCs, Says, Inputs, Responses, Before, ProcessRequest, Refused,
        Accept, End, Finalize, Sleep, outbound, Local
<1>1. Simple' OBVIOUS
<1>2. Where' OBVIOUS
<1>3. Over' OBVIOUS
<1>4. Asking' OBVIOUS
<1>5. Upstream' OBVIOUS
<1>6. Answers' OBVIOUS
<1>7. Attempts' OBVIOUS
<1> QED BY <1>1, <1>2, <1>3, <1>4, <1>5, <1>6, <1>7 DEF Control

LEMMA ControlProcessSocks5In == ASSUME Control, ProcessSocks5In PROVE Control'
<1> USE ConstantsAssumption DEF Control, Simple, Where, Over, Asking, Upstream, Answers,
        Attempts, States, PCs, Says, Inputs, Responses, Before, ProcessSocks5In,
        Refused, Prepare, Untouched, End, Finalize, Sleep, outbound, Local
<1>1. Simple' OBVIOUS
<1>2. Where' OBVIOUS
<1>3. Over' OBVIOUS
<1>4. Asking' OBVIOUS
<1>5. Upstream' OBVIOUS
<1>6. Answers' OBVIOUS
<1>7. Attempts' OBVIOUS
<1> QED BY <1>1, <1>2, <1>3, <1>4, <1>5, <1>6, <1>7 DEF Control

LEMMA ControlProcessHttpIn == ASSUME Control, ProcessHttpIn PROVE Control'
<1> USE ConstantsAssumption DEF Control, Simple, Where, Over, Asking, Upstream, Answers,
        Attempts, States, PCs, Says, Inputs, Responses, Before, ProcessHttpIn, Prepare,
        Untouched, End, Finalize, Sleep, outbound, Local
<1>1. Simple' OBVIOUS
<1>2. Where' OBVIOUS
<1>3. Over' OBVIOUS
<1>4. Asking' OBVIOUS
<1>5. Upstream' OBVIOUS
<1>6. Answers' OBVIOUS
<1>7. Attempts' OBVIOUS
<1> QED BY <1>1, <1>2, <1>3, <1>4, <1>5, <1>6, <1>7 DEF Control

LEMMA ControlStartTcp == ASSUME Control, StartTcp PROVE Control'
<1> USE ConstantsAssumption DEF Control, Simple, Where, Over, Asking, Upstream, Answers,
        Attempts, States, PCs, Says, Inputs, Responses, Before, StartTcp, input, Local
<1>1. Simple' OBVIOUS
<1>2. Where' OBVIOUS
<1>3. Over' OBVIOUS
<1>4. Asking' OBVIOUS
<1>5. Upstream' OBVIOUS
<1>6. Answers' OBVIOUS
<1>7. Attempts' OBVIOUS
<1> QED BY <1>1, <1>2, <1>3, <1>4, <1>5, <1>6, <1>7 DEF Control

LEMMA ControlResolve == ASSUME Control, Resolve PROVE Control'
<1> USE ConstantsAssumption DEF Control, Simple, Where, Over, Asking, Upstream, Answers,
        Attempts, States, PCs, Says, Inputs, Responses, Before, Resolve, Resolved,
        input, relayed, Local
<1>1. Simple' OBVIOUS
<1>2. Where' OBVIOUS
<1>3. Over' OBVIOUS
<1>4. Asking' OBVIOUS
<1>5. Upstream' OBVIOUS
<1>6. Answers' OBVIOUS
<1>7. Attempts' OBVIOUS
<1> QED BY <1>1, <1>2, <1>3, <1>4, <1>5, <1>6, <1>7 DEF Control

LEMMA ControlQueryDone == ASSUME Control, QueryDone PROVE Control'
<1> USE ConstantsAssumption DEF Control, Simple, Where, Over, Asking, Upstream, Answers,
        Attempts, States, PCs, Says, Inputs, Responses, Before, QueryDone, Resolved,
        input, relayed, Local
<1>1. Simple' OBVIOUS
<1>2. Where' OBVIOUS
<1>3. Over' OBVIOUS
<1>4. Asking' OBVIOUS
<1>5. Upstream' OBVIOUS
<1>6. Answers' OBVIOUS
<1>7. Attempts' OBVIOUS
<1> QED BY <1>1, <1>2, <1>3, <1>4, <1>5, <1>6, <1>7 DEF Control

LEMMA ControlConnect == ASSUME Control, Connect PROVE Control'
<1> USE ConstantsAssumption DEF Control, Simple, Where, Over, Asking, Upstream, Answers,
        Attempts, States, PCs, Says, Inputs, Responses, Before, Connect, Next1, Counted,
        input, relayed, Local
<1>1. Simple' OBVIOUS
<1>2. Where' OBVIOUS
<1>3. Over' OBVIOUS
<1>4. Asking' OBVIOUS
<1>5. Upstream' OBVIOUS
<1>6. Answers' OBVIOUS
<1>7. Attempts' OBVIOUS
<1> QED BY <1>1, <1>2, <1>3, <1>4, <1>5, <1>6, <1>7 DEF Control

LEMMA ControlSocks5Connect == ASSUME Control, Socks5Connect PROVE Control'
<1> USE ConstantsAssumption DEF Control, Simple, Where, Over, Asking, Upstream, Answers,
        Attempts, States, PCs, Says, Inputs, Responses, Before, Socks5Connect, Next1,
        Counted, input, relayed, Local
<1>1. Simple' OBVIOUS
<1>2. Where' OBVIOUS
<1>3. Over' OBVIOUS
<1>4. Asking' OBVIOUS
<1>5. Upstream' OBVIOUS
<1>6. Answers' OBVIOUS
<1>7. Attempts' OBVIOUS
<1> QED BY <1>1, <1>2, <1>3, <1>4, <1>5, <1>6, <1>7 DEF Control

LEMMA ControlSynEnds == ASSUME Control, SynEnds PROVE Control'
<1> USE ConstantsAssumption DEF Control, Simple, Where, Over, Asking, Upstream, Answers,
        Attempts, States, PCs, Says, Inputs, Responses, Before, SynEnds, input, relayed,
        Local
<1>1. Simple' OBVIOUS
<1>2. Where' OBVIOUS
<1>3. Over' OBVIOUS
<1>4. Asking' OBVIOUS
<1>5. Upstream' OBVIOUS
<1>6. Answers' OBVIOUS
<1>7. Attempts' OBVIOUS
<1> QED BY <1>1, <1>2, <1>3, <1>4, <1>5, <1>6, <1>7 DEF Control

LEMMA ControlTestConnect == ASSUME Control, TestConnect PROVE Control'
<1> USE ConstantsAssumption DEF Control, Simple, Where, Over, Asking, Upstream, Answers,
        Attempts, States, PCs, Says, Inputs, Responses, Before, TestConnect, Next1,
        Counted, Hung, input, relayed, Local
<1>1. Simple' OBVIOUS
<1>2. Where' OBVIOUS
<1>3. Over' OBVIOUS
<1>4. Asking' OBVIOUS
<1>5. Upstream' OBVIOUS
<1>6. Answers' OBVIOUS
<1>7. Attempts' OBVIOUS
<1> QED BY <1>1, <1>2, <1>3, <1>4, <1>5, <1>6, <1>7 DEF Control

LEMMA ControlProcessSocks5 == ASSUME Control, ProcessSocks5 PROVE Control'
<1> USE ConstantsAssumption DEF Control, Simple, Where, Over, Asking, Upstream, Answers,
        Attempts, States, PCs, Says, Inputs, Responses, Before, ProcessSocks5, Steps,
        input, relayed, Local
<1>1. Simple' OBVIOUS
<1>2. Where' OBVIOUS
<1>3. Over' OBVIOUS
<1>4. Asking' OBVIOUS
<1>5. Upstream' OBVIOUS
<1>6. Answers' OBVIOUS
<1>7. Attempts' OBVIOUS
<1> QED BY <1>1, <1>2, <1>3, <1>4, <1>5, <1>6, <1>7 DEF Control

LEMMA ControlSuccess == ASSUME Control, Success PROVE Control'
<1> USE ConstantsAssumption DEF Control, Simple, Where, Over, Asking, Upstream, Answers,
        Attempts, States, PCs, Says, Inputs, Responses, Before, Success, Prepare, Local,
        outbound
<1>1. Simple' OBVIOUS
<1>2. Where' OBVIOUS
<1>3. Over' OBVIOUS
<1>4. Asking' OBVIOUS
<1>5. Upstream' OBVIOUS
<1>6. Answers' OBVIOUS
<1>7. Attempts' OBVIOUS
<1> QED BY <1>1, <1>2, <1>3, <1>4, <1>5, <1>6, <1>7 DEF Control

LEMMA ControlFailure == ASSUME Control, Failure PROVE Control'
<1> USE ConstantsAssumption DEF Control, Simple, Where, Over, Asking, Upstream, Answers,
        Attempts, States, PCs, Says, Inputs, Responses, Before, Failure, Prepare, Hung,
        Local, End, Finalize
<1>1. Simple' OBVIOUS
<1>2. Where' OBVIOUS
<1>3. Over' OBVIOUS
<1>4. Asking' OBVIOUS
<1>5. Upstream' OBVIOUS
<1>6. Answers' OBVIOUS
<1>7. Attempts' OBVIOUS
<1> QED BY <1>1, <1>2, <1>3, <1>4, <1>5, <1>6, <1>7 DEF Control

LEMMA ControlFlush == ASSUME Control, Flush PROVE Control'
<1>1. PICK n \in 0 .. Parts - reply.sent :
        LET over == reply.sent + n = Parts IN
        IF ~over
        THEN /\ reply' = [reply EXCEPT !.sent = @ + n]
             /\ timers' = timers \cup {"cwrite"} /\ pc' = "wait"
             /\ UNCHANGED <<conf, state, pending, outbound, upq, upgot, ev, history>>
        ELSE IF reply.what \in {"fail", "nomethod", "page"} THEN End
        ELSE /\ AfterReply /\ reply' = [what |-> "nothing", sent |-> 0]
             /\ timers' = timers \ {"cwrite"}
             /\ UNCHANGED <<conf, pending, outbound, upq, upgot, ev, history>>
  BY Zenon DEF Flush
<1>2. pc = "flush" BY DEF Flush
<1>3. CASE reply.sent + n # Parts
  <2>1. reply'.what = reply.what /\ reply'.sent \in Nat /\ reply' = [what |-> reply'.what, sent |-> reply'.sent]
    BY <1>1, <1>3 DEF Control, Simple, Parts
  <2> QED
    BY <1>1, <1>2, <1>3, <2>1 DEF Control, Simple, Where, Over, Asking, Upstream, Answers,
       Attempts, States, PCs, Says, Inputs, Responses, Before, Local, outbound
<1>4. CASE reply.sent + n = Parts /\ reply.what \in {"fail", "nomethod", "page"}
  BY <1>1, <1>2, <1>4 DEF Control, Simple, Where, Over, Asking, Upstream, Answers, Attempts,
     States, PCs, Says, Inputs, Responses, Before, Local, End, Finalize
<1>5. CASE reply.sent + n = Parts /\ reply.what \notin {"fail", "nomethod", "page"}
  <2>1. /\ AfterReply /\ reply' = [what |-> "nothing", sent |-> 0]
        /\ timers' = timers \ {"cwrite"}
        /\ UNCHANGED <<conf, pending, outbound, upq, upgot, ev, history>>
    BY <1>1, <1>5
  <2>2. reply.what \in {"methods", "ok", "relay"} BY <1>5 DEF Flush, Sends
  <2>3. CASE reply.what = "ok"
    BY <1>2, <2>1, <2>3 DEF Control, Simple, Where, Over, Asking, Upstream, Answers, Attempts,
       States, PCs, Says, Inputs, Responses, Before, Local, AfterReply, outbound
  <2>4. CASE reply.what = "methods"
    BY <1>2, <2>1, <2>4 DEF Control, Simple, Where, Over, Asking, Upstream, Answers, Attempts,
       States, PCs, Says, Inputs, Responses, Before, Local, AfterReply, outbound
  <2>5. CASE reply.what = "relay"
    BY <1>2, <2>1, <2>5 DEF Control, Simple, Where, Over, Asking, Upstream, Answers, Attempts,
       States, PCs, Says, Inputs, Responses, Before, Local, AfterReply, outbound
  <2> QED BY <2>2, <2>3, <2>4, <2>5
<1> QED BY <1>3, <1>4, <1>5

LEMMA ControlInitProxy == ASSUME Control, InitProxy PROVE Control'
<1> USE ConstantsAssumption DEF Control, Simple, Where, Over, Asking, Upstream, Answers,
        Attempts, States, PCs, Says, Inputs, Responses, Before, InitProxy, input,
        relayed, Local
<1>1. Simple' OBVIOUS
<1>2. Where' OBVIOUS
<1>3. Over' OBVIOUS
<1>4. Asking' OBVIOUS
<1>5. Upstream' OBVIOUS
<1>6. Answers' OBVIOUS
<1>7. Attempts' OBVIOUS
<1> QED BY <1>1, <1>2, <1>3, <1>4, <1>5, <1>6, <1>7 DEF Control

LEMMA ControlProcessProxy == ASSUME Control, ProcessProxy PROVE Control'
<1> USE ConstantsAssumption DEF Control, Simple, Where, Over, Asking, Upstream, Answers,
        Attempts, States, PCs, Says, Inputs, Responses, Before, ProcessProxy, Finalize,
        Local
<1>1. Simple' OBVIOUS
<1>2. Where' OBVIOUS
<1>3. Over' OBVIOUS
<1>4. Asking' OBVIOUS
<1>5. Upstream' OBVIOUS
<1>6. Answers' OBVIOUS
<1>7. Attempts' OBVIOUS
<1> QED BY <1>1, <1>2, <1>3, <1>4, <1>5, <1>6, <1>7 DEF Control

\* The two outcomes of a client event: a handler is called, or the session ends.
ReadClientCalls ==
  pc = "wait" /\ "client" \in ev /\ ev' = ev \ {"client"} /\ pc' = Handles /\ Kept
ReadClientEnds ==
  /\ pc = "wait" /\ "client" \in ev /\ state \in {"resolving", "connecting", "socks5_tcp"}
  /\ UNCHANGED <<input, got>> /\ End

LEMMA ReadClientCases == ReadClient => ReadClientCalls \/ ReadClientEnds
BY DEF ReadClient, ReadClientCalls, ReadClientEnds

LEMMA ControlReadClientEnds == ASSUME Control, ReadClientEnds PROVE Control'
<1>1. /\ state' = "ended" /\ pc' = "wait" /\ up' = "none" /\ ev' = {} /\ timers' = {}
      /\ query' = [on |-> FALSE, again |-> FALSE]
      /\ UNCHANGED <<conf, reply, naddrs, index, handler, step, history>>
  BY DEF ReadClientEnds, End, Finalize
<1>2. pc = "wait" BY DEF ReadClientEnds
<1> QED
  BY <1>1, <1>2 DEF Control, Simple, Where, Over, Asking, Upstream, Answers, Attempts, States,
     PCs, Says, Inputs, Responses, Before, Local

LEMMA ControlReadClientCalls == ASSUME Control, ReadClientCalls PROVE Control'
<1> USE ConstantsAssumption DEF Control, Simple, Where, Over, Asking, Upstream, Answers,
        Attempts, States, PCs, Says, Inputs, Responses, Before, ReadClientCalls, Handles,
        Kept, input, outbound, Local
<1>1. Simple' OBVIOUS
<1>2. Where' OBVIOUS
<1>3. Over' OBVIOUS
<1>4. Asking' OBVIOUS
<1>5. Upstream' OBVIOUS
<1>6. Answers' OBVIOUS
<1>7. Attempts' OBVIOUS
<1> QED BY <1>1, <1>2, <1>3, <1>4, <1>5, <1>6, <1>7 DEF Control

LEMMA ControlPeerEvent == ASSUME Control, PeerEvent PROVE Control'
<1> USE ConstantsAssumption DEF Control, Simple, Where, Over, Asking, Upstream, Answers,
        Attempts, States, PCs, Says, Inputs, Responses, Before, PeerEvent, Kept, input,
        outbound, Local
<1>1. Simple' OBVIOUS
<1>2. Where' OBVIOUS
<1>3. Over' OBVIOUS
<1>4. Asking' OBVIOUS
<1>5. Upstream' OBVIOUS
<1>6. Answers' OBVIOUS
<1>7. Attempts' OBVIOUS
<1> QED BY <1>1, <1>2, <1>3, <1>4, <1>5, <1>6, <1>7 DEF Control

LEMMA ControlSay == ASSUME Control, Say PROVE Control'
<1> USE ConstantsAssumption DEF Control, Simple, Where, Over, Asking, Upstream, Answers,
        Attempts, States, PCs, Says, Inputs, Responses, Before, Say, outbound, Local
<1>1. Simple' OBVIOUS
<1>2. Where' OBVIOUS
<1>3. Over' OBVIOUS
<1>4. Asking' OBVIOUS
<1>5. Upstream' OBVIOUS
<1>6. Answers' OBVIOUS
<1>7. Attempts' OBVIOUS
<1> QED BY <1>1, <1>2, <1>3, <1>4, <1>5, <1>6, <1>7 DEF Control

LEMMA ControlWritable == ASSUME Control, Writable PROVE Control'
<1> USE ConstantsAssumption DEF Control, Simple, Where, Over, Asking, Upstream, Answers,
        Attempts, States, PCs, Says, Inputs, Responses, Before, Writable, input,
        outbound, Local
<1>1. Simple' OBVIOUS
<1>2. Where' OBVIOUS
<1>3. Over' OBVIOUS
<1>4. Asking' OBVIOUS
<1>5. Upstream' OBVIOUS
<1>6. Answers' OBVIOUS
<1>7. Attempts' OBVIOUS
<1> QED BY <1>1, <1>2, <1>3, <1>4, <1>5, <1>6, <1>7 DEF Control

LEMMA ControlUpEvent == ASSUME Control, UpEvent PROVE Control'
<1> USE ConstantsAssumption DEF Control, Simple, Where, Over, Asking, Upstream, Answers,
        Attempts, States, PCs, Says, Inputs, Responses, Before, UpEvent, input,
        outbound, Local
<1>1. Simple' OBVIOUS
<1>2. Where' OBVIOUS
<1>3. Over' OBVIOUS
<1>4. Asking' OBVIOUS
<1>5. Upstream' OBVIOUS
<1>6. Answers' OBVIOUS
<1>7. Attempts' OBVIOUS
<1> QED BY <1>1, <1>2, <1>3, <1>4, <1>5, <1>6, <1>7 DEF Control

LEMMA ControlTimeout ==
  ASSUME Control, NEW t \in {"cread", "cwrite", "pread", "pwrite"}, Timeout(t) PROVE Control'
<1>1. CASE t = "pwrite"
  <2>1. /\ pc = "wait" /\ t \in timers /\ pc' = "failure" /\ timers' = timers \ {t}
        /\ UNCHANGED <<conf, state, input, pending, reply, got, outbound, upq, upgot, ev, history>>
    BY <1>1 DEF Timeout
  <2> QED
    BY <1>1, <2>1 DEF Control, Simple, Where, Over, Asking, Upstream, Answers, Attempts, States,
       PCs, Says, Inputs, Responses, Before, Local, outbound
<1>2. CASE t # "pwrite"
  <2>1. End BY <1>2 DEF Timeout
  <2>2. /\ state' = "ended" /\ pc' = "wait" /\ up' = "none" /\ ev' = {} /\ timers' = {}
        /\ query' = [on |-> FALSE, again |-> FALSE]
        /\ UNCHANGED <<conf, reply, naddrs, index, handler, step, history>>
    BY <2>1 DEF End, Finalize
  <2>3. pc = "wait" BY DEF Timeout
  <2> QED
    BY <2>2, <2>3 DEF Control, Simple, Where, Over, Asking, Upstream, Answers, Attempts, States,
       PCs, Says, Inputs, Responses, Before, Local
<1> QED BY <1>1, <1>2

LEMMA ControlInit == Init => Control
<1> SUFFICES ASSUME Init PROVE Control OBVIOUS
<1>1. \/ conf.kind = "trojan" /\ state = "prefix" /\ pc = "prefix"
      \/ Local /\ state = "socks5_in_greeting" /\ pc = "socks5_in"
      \/ Local /\ state = "http_in_request" /\ pc = "http_in"
  <2>1. CASE conf.kind = "trojan" BY <2>1 DEF Init
  <2>2. CASE conf.kind = "socks5" BY <2>2 DEF Init, Local
  <2>3. CASE conf.kind \notin {"trojan", "socks5"} BY <2>3 DEF Init, Local
  <2> QED BY <2>1, <2>2, <2>3
<1> QED
  BY <1>1 DEF Init, Control, Simple, Where, Over, Asking, Upstream, Answers, Attempts, States,
     PCs, Says, Inputs, Responses, Before, Local

LEMMA ControlStep == Control /\ [Next]_vars => Control'
<1> SUFFICES ASSUME Control, [Next]_vars PROVE Control' OBVIOUS
<1>1. CASE ProcessPrefix BY <1>1, ControlProcessPrefix
<1>2. CASE ProcessRequest BY <1>2, ControlProcessRequest
<1>3. CASE ProcessSocks5In BY <1>3, ControlProcessSocks5In
<1>4. CASE ProcessHttpIn BY <1>4, ControlProcessHttpIn
<1>5. CASE StartTcp BY <1>5, ControlStartTcp
<1>6. CASE Resolve BY <1>6, ControlResolve
<1>7. CASE QueryDone BY <1>7, ControlQueryDone
<1>8. CASE Connect BY <1>8, ControlConnect
<1>9. CASE Socks5Connect BY <1>9, ControlSocks5Connect
<1>10. CASE SynEnds BY <1>10, ControlSynEnds
<1>11. CASE TestConnect BY <1>11, ControlTestConnect
<1>12. CASE ProcessSocks5 BY <1>12, ControlProcessSocks5
<1>13. CASE Success BY <1>13, ControlSuccess
<1>14. CASE Failure BY <1>14, ControlFailure
<1>15. CASE Flush BY <1>15, ControlFlush
<1>16. CASE InitProxy BY <1>16, ControlInitProxy
<1>17. CASE ProcessProxy BY <1>17, ControlProcessProxy
<1>18. CASE ReadClient
  BY <1>18, ReadClientCases, ControlReadClientCalls, ControlReadClientEnds
<1>19. CASE PeerEvent BY <1>19, ControlPeerEvent
<1>20. CASE Say BY <1>20, ControlSay
<1>21. CASE Writable BY <1>21, ControlWritable
<1>22. CASE UpEvent BY <1>22, ControlUpEvent
<1>23. CASE \E t \in {"cread", "cwrite", "pread", "pwrite"} : Timeout(t) BY <1>23, ControlTimeout
<1>24. CASE UNCHANGED vars
  BY <1>24 DEF Control, Simple, Where, Over, Asking, Upstream, Answers, Attempts, States, PCs,
     Says, Inputs, Responses, Before, Local, vars
<1> QED
  BY <1>1, <1>2, <1>3, <1>4, <1>5, <1>6, <1>7, <1>8, <1>9, <1>10, <1>11, <1>12, <1>13, <1>14,
     <1>15, <1>16, <1>17, <1>18, <1>19, <1>20, <1>21, <1>22, <1>23, <1>24 DEF Next, Runs

LEMMA ControlAlways == Spec => []Control
<1> QED BY ControlInit, ControlStep, PTL DEF Spec

----------------------------------------------------------------------------
\* A tunnel is announced or begun only over a connection that stands, and a
\* request is refused over its addresses only when all were tried.
THEOREM HonestAlways == Spec => []Honest
<1>1. Control => Honest
  BY DEF Control, Simple, Says, Answers, Attempts, Responses, Honest
<1> QED BY <1>1, ControlAlways, PTL

\* An ended session does nothing any more.
THEOREM EndedStays == Spec => StaysEnded
<1>1. Control /\ [Next]_vars => [state = "ended" => UNCHANGED <<state, pc, up, upgot, got>>]_vars
  <2> SUFFICES ASSUME Control, Next, state = "ended" PROVE UNCHANGED <<state, pc, up, upgot, got>>
    OBVIOUS
  <2>1. pc = "wait" /\ ev = {} /\ timers = {} /\ ~query.on /\ up = "none"
    BY DEF Control, Over
  <2>2. ~Runs
    BY <2>1 DEF Runs, ProcessPrefix, ProcessRequest, ProcessSocks5In, ProcessHttpIn, StartTcp,
                Resolve, Connect, Socks5Connect, TestConnect, ProcessSocks5, Success, Failure,
                Flush, InitProxy, ProcessProxy
  <2> QED BY <2>1, <2>2 DEF Next, ReadClient, PeerEvent, QueryDone, SynEnds, Say, Writable,
                            UpEvent, Timeout
<1> QED BY <1>1, ControlAlways, PTL DEF Spec, StaysEnded

----------------------------------------------------------------------------
(* What is said, and parts of it.                                          *)

\* The pieces the model tells apart.
Words ==
  {"key", "lf", "right", "wrong", "methods", "nomethod", "head", "connect", "blocked", "missed",
   "garbled", "udp", "mux", "fin"} \cup ToSet(Data)
Texts == Seq(Words)

\* What the client sends after its request is a text.
LEMMA DataText == Data \in Texts
<1>1. Len(Data) \in Nat /\ DOMAIN Data = 1 .. Len(Data) /\ Data \in [1 .. Len(Data) -> STRING]
  BY ConstantsAssumption, LenProperties, Zenon
<1>2. \A i \in 1 .. Len(Data) : Data[i] \in ToSet(Data) BY <1>1, Zenon DEF ToSet
<1>3. \A i \in 1 .. Len(Data) : Data[i] \in Words BY <1>2 DEF Words
<1>4. Data \in [1 .. Len(Data) -> Words] BY <1>1, <1>3
<1> QED BY <1>1, <1>4, SeqDef DEF Texts

\* Three sequences may be joined from either end.
Regroups(s, t, u) == (s \o t) \o u = s \o (t \o u)

\* Concatenation of texts.
LEMMA TextJoins ==
  ASSUME NEW s \in Texts, NEW t \in Texts, NEW u \in Texts
  PROVE  Regroups(s, t, u)
BY ConcatAssociative, SMT DEF Texts, Regroups

LEMMA TextFacts ==
  /\ <<>> \in Texts
  /\ \A s \in Texts : Len(s) \in Nat /\ (s = <<>> <=> Len(s) = 0)
  /\ \A s \in Texts : s \o <<>> = s /\ <<>> \o s = s
  /\ \A s, t \in Texts : s \o t \in Texts /\ Len(s \o t) = Len(s) + Len(t)
  /\ \A s, t, u \in Texts : (s \o t) \o u = s \o (t \o u)
<1>1. \A s \in Texts : Len(s) \in Nat /\ (s = <<>> <=> Len(s) = 0)
  BY LenProperties, EmptySeq DEF Texts
<1>2. \A s \in Texts : s \o <<>> = s /\ <<>> \o s = s BY ConcatEmptySeq DEF Texts
<1>3. \A s, t \in Texts : s \o t \in Texts /\ Len(s \o t) = Len(s) + Len(t)
  BY ConcatProperties DEF Texts
<1>4. \A s, t, u \in Texts : (s \o t) \o u = s \o (t \o u) BY TextJoins, Zenon DEF Regroups
<1> QED BY <1>1, <1>2, <1>3, <1>4 DEF Texts

\* Texts with the same pieces at the same places.
LEMMA TextEqual ==
  ASSUME NEW s \in Texts, NEW t \in Texts, Len(s) = Len(t), \A i \in 1 .. Len(s) : s[i] = t[i]
  PROVE  s = t
BY SeqEqual DEF Texts

\* The pieces of a joined text.
LEMMA JoinedPieces ==
  ASSUME NEW s \in Texts, NEW t \in Texts, NEW i \in 1 .. Len(s) + Len(t)
  PROVE  (s \o t)[i] = IF i <= Len(s) THEN s[i] ELSE t[i - Len(s)]
BY ConcatProperties DEF Texts

\* What a text begins with, and the rest.
LEMMA RestOf ==
  ASSUME NEW s \in Texts, NEW n \in 0 .. Len(s)
  PROVE  /\ SubSeq(s, 1, n) \in Texts /\ Len(SubSeq(s, 1, n)) = n
         /\ \A i \in 1 .. n : SubSeq(s, 1, n)[i] = s[i]
         /\ Rest(s, n) \in Texts /\ Len(Rest(s, n)) = Len(s) - n
         /\ \A i \in 1 .. Len(s) - n : Rest(s, n)[i] = s[n + i]
         /\ SubSeq(s, 1, n) \o Rest(s, n) = s
<1>0. Len(s) \in Nat BY TextFacts
<1>1. \A i \in 1 .. Len(s) : s[i] \in Words BY ElementOfSeq DEF Texts
<1>2. /\ SubSeq(s, 1, n) \in Texts /\ Len(SubSeq(s, 1, n)) = n
      /\ \A i \in 1 .. n : SubSeq(s, 1, n)[i] = s[i]
  <2>1. \A i \in 1 .. n : s[i] \in Words BY <1>0, <1>1
  <2>2. /\ SubSeq(s, 1, n) \in Seq(Words)
        /\ Len(SubSeq(s, 1, n)) = IF 1 <= n THEN n - 1 + 1 ELSE 0
        /\ \A i \in 1 .. n - 1 + 1 : SubSeq(s, 1, n)[i] = s[1 + i - 1]
    BY <1>0, <2>1, SubSeqProperties
  <2> QED BY <1>0, <2>2 DEF Texts
<1>3. /\ Rest(s, n) \in Texts /\ Len(Rest(s, n)) = Len(s) - n
      /\ \A i \in 1 .. Len(s) - n : Rest(s, n)[i] = s[n + i]
  <2>1. \A i \in n + 1 .. Len(s) : s[i] \in Words BY <1>0, <1>1
  <2>2. /\ SubSeq(s, n + 1, Len(s)) \in Seq(Words)
        /\ Len(SubSeq(s, n + 1, Len(s))) = IF n + 1 <= Len(s) THEN Len(s) - (n + 1) + 1 ELSE 0
        /\ \A i \in 1 .. Len(s) - (n + 1) + 1 : SubSeq(s, n + 1, Len(s))[i] = s[n + 1 + i - 1]
    BY <1>0, <2>1, SubSeqProperties
  <2> QED BY <1>0, <2>2 DEF Texts, Rest
<1>4. SubSeq(s, 1, n) \o Rest(s, n) = s
  <2> DEFINE a == SubSeq(s, 1, n)
             b == Rest(s, n)
  <2>1. a \in Texts /\ b \in Texts /\ Len(a) = n /\ Len(b) = Len(s) - n BY <1>2, <1>3
  <2>2. /\ \A i \in 1 .. n : a[i] = s[i]
        /\ \A i \in 1 .. Len(s) - n : b[i] = s[n + i] BY <1>2, <1>3
  <2> HIDE DEF a, b
  <2>3. a \o b \in Texts /\ Len(a \o b) = Len(s)
    <3>1. a \o b \in Texts /\ Len(a \o b) = Len(a) + Len(b) BY <2>1, TextFacts
    <3>2. n \in Nat /\ n + (Len(s) - n) = Len(s) BY <1>0
    <3> QED BY <2>1, <3>1, <3>2
  <2>4. ASSUME NEW i \in 1 .. Len(a \o b) PROVE (a \o b)[i] = s[i]
    <3>1. i \in 1 .. Len(a) + Len(b) /\ i \in Nat BY <1>0, <2>1, <2>3
    <3>2. (a \o b)[i] = IF i <= Len(a) THEN a[i] ELSE b[i - Len(a)] BY <2>1, <3>1, JoinedPieces
    <3>3. CASE i <= n BY <2>1, <2>2, <3>1, <3>2, <3>3
    <3>4. CASE ~(i <= n)
      <4>1. i - n \in 1 .. Len(s) - n /\ n + (i - n) = i BY <1>0, <2>1, <3>1, <3>4
      <4>2. b[i - n] = s[n + (i - n)] BY <2>2, <4>1
      <4> QED BY <2>1, <3>2, <3>4, <4>1, <4>2
    <3> QED BY <3>3, <3>4
  <2>5. a \o b = s BY <2>3, <2>4, TextEqual
  <2> QED BY <2>5 DEF a, b
<1> QED BY <1>2, <1>3, <1>4

\* A rest of two texts, when all of it is within the first, keeps the second.
LEMMA RestOfJoin ==
  ASSUME NEW s \in Texts, NEW t \in Texts, NEW n \in 0 .. Len(s)
  PROVE  Rest(s \o t, n) = Rest(s, n) \o t
<1>1. /\ Len(s) \in Nat /\ Len(t) \in Nat /\ s \o t \in Texts /\ Len(s \o t) = Len(s) + Len(t)
  BY TextFacts
<1>2. n \in 0 .. Len(s \o t) BY <1>1
<1>3. /\ Rest(s \o t, n) \in Texts /\ Len(Rest(s \o t, n)) = Len(s) + Len(t) - n
      /\ \A i \in 1 .. Len(s) + Len(t) - n : Rest(s \o t, n)[i] = (s \o t)[n + i]
  <2>1. PICK r \in Texts : r = s \o t BY <1>1
  <2>2. n \in 0 .. Len(r) BY <1>2, <2>1
  <2>3. /\ Rest(r, n) \in Texts /\ Len(Rest(r, n)) = Len(r) - n
        /\ \A i \in 1 .. Len(r) - n : Rest(r, n)[i] = r[n + i]
    BY <2>2, RestOf
  <2> QED BY <1>1, <2>1, <2>3
<1>4. /\ Rest(s, n) \in Texts /\ Len(Rest(s, n)) = Len(s) - n
      /\ \A i \in 1 .. Len(s) - n : Rest(s, n)[i] = s[n + i]
  BY RestOf
<1>5. Rest(s, n) \o t \in Texts /\ Len(Rest(s, n) \o t) = Len(s) - n + Len(t) BY <1>4, TextFacts
<1>6. ASSUME NEW i \in 1 .. Len(s) + Len(t) - n PROVE Rest(s \o t, n)[i] = (Rest(s, n) \o t)[i]
  <2>1. n + i \in 1 .. Len(s) + Len(t) /\ i \in 1 .. Len(Rest(s, n)) + Len(t) /\ i \in Nat
    BY <1>1, <1>4
  <2>2. (s \o t)[n + i] = IF n + i <= Len(s) THEN s[n + i] ELSE t[n + i - Len(s)]
    BY <2>1, JoinedPieces
  <2>3. (Rest(s, n) \o t)[i]
          = IF i <= Len(Rest(s, n)) THEN Rest(s, n)[i] ELSE t[i - Len(Rest(s, n))]
    BY <1>4, <2>1, JoinedPieces
  <2>4. i - (Len(s) - n) = n + i - Len(s) /\ (n + i <= Len(s) <=> i <= Len(s) - n) BY <1>1, <2>1
  <2>5. CASE n + i <= Len(s) BY <1>1, <1>3, <1>4, <2>1, <2>2, <2>3, <2>4, <2>5
  <2>6. CASE ~(n + i <= Len(s)) BY <1>1, <1>3, <1>4, <2>1, <2>2, <2>3, <2>4, <2>6
  <2> QED BY <2>5, <2>6
<1>7. Len(Rest(s \o t, n)) = Len(Rest(s, n) \o t) BY <1>1, <1>3, <1>5
<1> QED BY <1>3, <1>5, <1>6, <1>7, TextEqual

\* A rest of a rest.
LEMMA RestRest ==
  ASSUME NEW s \in Texts, NEW n \in Nat, NEW m \in Nat, n + m <= Len(s)
  PROVE  Rest(Rest(s, n), m) = Rest(s, n + m)
<1>0. Len(s) \in Nat BY TextFacts
<1>1. n \in 0 .. Len(s) /\ n + m \in 0 .. Len(s) BY <1>0
<1>2. /\ Rest(s, n) \in Texts /\ Len(Rest(s, n)) = Len(s) - n
      /\ \A i \in 1 .. Len(s) - n : Rest(s, n)[i] = s[n + i]
  BY <1>1, RestOf
<1>3. /\ Rest(s, n + m) \in Texts /\ Len(Rest(s, n + m)) = Len(s) - (n + m)
      /\ \A i \in 1 .. Len(s) - (n + m) : Rest(s, n + m)[i] = s[n + m + i]
  BY <1>1, RestOf
<1>4. m \in 0 .. Len(Rest(s, n)) BY <1>0, <1>1, <1>2
<1>5. /\ Rest(Rest(s, n), m) \in Texts /\ Len(Rest(Rest(s, n), m)) = Len(s) - n - m
      /\ \A i \in 1 .. Len(s) - n - m : Rest(Rest(s, n), m)[i] = Rest(s, n)[m + i]
  BY <1>2, <1>4, RestOf
<1>6. ASSUME NEW i \in 1 .. Len(s) - n - m PROVE Rest(Rest(s, n), m)[i] = Rest(s, n + m)[i]
  <2>1. /\ i \in 1 .. Len(s) - (n + m) /\ m + i \in 1 .. Len(s) - n /\ n + (m + i) = n + m + i
    BY <1>0, <1>1
  <2> QED BY <1>2, <1>3, <1>5, <2>1
<1>7. Len(s) - (n + m) = Len(s) - n - m BY <1>0
<1> QED BY <1>3, <1>5, <1>6, <1>7, TextEqual

\* Nothing, all and the first piece taken.
LEMMA RestEnds ==
  ASSUME NEW s \in Texts
  PROVE  /\ Rest(s, 0) = s /\ Rest(s, Len(s)) = <<>>
         /\ s # <<>> => Tail(s) = Rest(s, 1) /\ 1 \in 0 .. Len(s)
<1>0. Len(s) \in Nat /\ (s = <<>> <=> Len(s) = 0) BY TextFacts
<1>1. Rest(s, 0) = s
  <2>1. /\ Rest(s, 0) \in Texts /\ Len(Rest(s, 0)) = Len(s) - 0
        /\ \A i \in 1 .. Len(s) - 0 : Rest(s, 0)[i] = s[0 + i]
    BY <1>0, RestOf
  <2>2. \A i \in 1 .. Len(s) : Rest(s, 0)[i] = s[i] BY <1>0, <2>1
  <2> QED BY <1>0, <2>1, <2>2, TextEqual
<1>2. Rest(s, Len(s)) = <<>>
  <2>1. Rest(s, Len(s)) \in Texts /\ Len(Rest(s, Len(s))) = Len(s) - Len(s) BY <1>0, RestOf
  <2> QED BY <1>0, <2>1, TextFacts
<1>3. ASSUME s # <<>> PROVE Tail(s) = Rest(s, 1) /\ 1 \in 0 .. Len(s)
  BY <1>0, <1>3 DEF Rest, Texts
<1> QED BY <1>1, <1>2, <1>3

\* A piece added at the end.
LEMMA AppendText ==
  ASSUME NEW s \in Texts, NEW x \in Words
  PROVE  /\ Append(s, x) = s \o <<x>> /\ <<x>> \in Texts /\ Append(s, x) \in Texts
         /\ Len(Append(s, x)) = Len(s) + 1 /\ Append(s, x) # <<>>
         /\ Last(Append(s, x)) = x
         /\ \A i \in 1 .. Len(s) : Append(s, x)[i] = s[i]
         /\ \A n \in 0 .. Len(s) : Rest(Append(s, x), n) = Append(Rest(s, n), x)
<1>0. Len(s) \in Nat BY TextFacts
<1>1. \A t \in Texts : Append(t, x) = t \o <<x>> /\ Append(t, x) \in Texts
        /\ Len(Append(t, x)) = Len(t) + 1
        /\ \A i \in 1 .. Len(t) + 1 : Append(t, x)[i] = IF i <= Len(t) THEN t[i] ELSE x
  <2> TAKE t \in Texts
  <2>1. t \in Seq(Words) /\ Len(t) \in Nat BY TextFacts DEF Texts
  <2>2. /\ Append(t, x) \in Seq(Words) /\ Len(Append(t, x)) = Len(t) + 1
        /\ \A i \in 1 .. Len(t) : Append(t, x)[i] = t[i]
        /\ Append(t, x)[Len(t) + 1] = x
    BY <2>1, AppendProperties
  <2>3. Append(t, x) = t \o <<x>> BY <2>1, AppendIsConcat
  <2>4. \A i \in 1 .. Len(t) + 1 : i <= Len(t) => i \in 1 .. Len(t) BY <2>1
  <2>5. \A i \in 1 .. Len(t) + 1 : ~(i <= Len(t)) => i = Len(t) + 1 BY <2>1
  <2> QED BY <2>2, <2>3, <2>4, <2>5 DEF Texts
<1>2. <<x>> \in Texts BY DEF Texts
<1>3. Last(Append(s, x)) = x /\ Append(s, x) # <<>>
  <2>0. /\ Append(s, x) \in Texts /\ Len(Append(s, x)) = Len(s) + 1
        /\ \A i \in 1 .. Len(s) + 1 : Append(s, x)[i] = IF i <= Len(s) THEN s[i] ELSE x
    BY <1>1
  <2>1. PICK r \in Texts : r = Append(s, x) /\ Len(r) = Len(s) + 1 /\ r[Len(s) + 1] = x
    <3>1. Len(s) + 1 \in 1 .. Len(s) + 1 /\ ~(Len(s) + 1 <= Len(s)) BY <1>0
    <3>2. Append(s, x)[Len(s) + 1] = x BY <2>0, <3>1
    <3> QED BY <2>0, <3>2
  <2>2. Last(r) = x BY <2>1 DEF Last
  <2>3. r # <<>> BY <1>0, <2>1, TextFacts
  <2> QED BY <2>1, <2>2, <2>3
<1>4. ASSUME NEW n \in 0 .. Len(s) PROVE Rest(Append(s, x), n) = Append(Rest(s, n), x)
  <2>1. Rest(s, n) \in Texts BY RestOf
  <2>2. Rest(s \o <<x>>, n) = Rest(s, n) \o <<x>> BY <1>2, RestOfJoin
  <2> QED BY <1>1, <2>1, <2>2
<1>5. /\ Append(s, x) = s \o <<x>> /\ Append(s, x) \in Texts /\ Len(Append(s, x)) = Len(s) + 1
      /\ \A i \in 1 .. Len(s) : Append(s, x)[i] = s[i]
  BY <1>0, <1>1
<1> QED BY <1>2, <1>3, <1>4, <1>5

----------------------------------------------------------------------------
(* What the client said is carried on in order.                            *)

\* What the client has to say, as its kind of inbound takes it.
Script ==
  /\ conf.kind \in {"trojan", "socks5", "http"} /\ conf.script \in Texts
  /\ conf.kind = "trojan" =>
       /\ Len(conf.script) >= 3 /\ conf.script[2] \in {"right", "wrong"}
       /\ \/ conf.script[1] = "key"
          \/ conf.script[1] = "lf" /\ conf.script[2] = "wrong"
  /\ conf.kind = "socks5" => Len(conf.script) >= 2 /\ conf.script[1] \in {"methods", "nomethod"}
  /\ conf.kind = "http" => Len(conf.script) >= 2 /\ conf.script[1] = "head"
  /\ conf.rule => conf.outbound = "direct" /\ conf.lookup # "none"

\* It says that, or a part of it and then no more.
Told ==
  /\ told \in Texts /\ Len(told) <= Len(conf.script)
  /\ \A i \in 1 .. Len(told) : told[i] = conf.script[i] \/ (i = Len(told) /\ told[i] = "fin")

\* States and replies belong to a kind of inbound.
Suits ==
  /\ state \in {"prefix", "request", "mux", "default_fallback"} => conf.kind = "trojan"
  /\ state \in {"socks5_in_greeting"} \cup Responses \cup {"socks5_in_request", "http_in_request"}
       => conf.kind \in {"socks5", "http"}
  /\ state \in {"socks5_in_request", "socks5_in_response"} => conf.kind = "socks5"
  /\ state \in {"http_in_request", "http_in_response"} => conf.kind = "http"
  /\ reply.what = "page" => conf.kind = "trojan"
  /\ reply.what \in {"methods", "nomethod", "relay"} => conf.kind = "socks5"
  /\ reply.what \in {"ok", "fail"} => Local

\* How far the inbound is with its request.  What it carries on is looked at
\* no more when it was refused, and not with a DNS rule behind an HTTP request.
Reading == pc \in {"prefix", "request", "socks5_in", "http_in", "wait"}
Dropped == reply.what \in {"fail", "page"} \/ (conf.kind = "http" /\ conf.rule)
Phase ==
  IF state = "ended" THEN "none"
  ELSE IF Reading /\ state \in {"prefix", "socks5_in_greeting", "http_in_request"} THEN "opening"
  ELSE IF Reading /\ state = "request" THEN "trojan"
  ELSE IF (Reading /\ state = "socks5_in_request") \/ reply.what \in {"methods", "nomethod"}
  THEN "greeted"
  ELSE IF Dropped THEN "none" ELSE "past"

\* The pieces of what was told that the inbound has taken for itself.
Used(phase) ==
  IF phase = "opening" THEN 0 ELSE IF phase = "greeted" THEN 1
  ELSE IF phase = "trojan" THEN 2 ELSE Consumed

\* The rest is what the upstream received, what waits for it, what was read, and
\* what is in the socket.
Line(u, p, b, s) == ((u \o p) \o b) \o s

Flow ==
  /\ buf \in Texts /\ sock \in Texts /\ pending \in Texts /\ upgot \in Texts
  /\ Phase # "none" =>
       Used(Phase) <= Len(told) /\ Rest(told, Used(Phase)) = Line(upgot, pending, buf, sock)
  /\ Phase \in {"opening", "trojan", "greeted"} => pending = <<>> /\ upgot = <<>>
  /\ Phase \in {"trojan", "greeted", "past"} => buf = <<>>
  /\ state = "prefix" /\ Phase = "opening" => Len(buf) < 2
  /\ state = "socks5_in_greeting" /\ Phase = "opening" => buf = <<>>
  /\ Phase = "trojan" => conf.script[2] = "right"
  /\ state # "ended" /\ told # <<>> /\ Last(told) = "fin" => sock # <<>> /\ Last(sock) = "fin"
  /\ pc = "start_tcp" /\ conf.kind # "http" => pending = <<>>

Carried == Script /\ Told /\ Suits /\ Flow

\* The pieces taken are a number.
LEMMA UsedType == Script => \A p : Used(p) \in Nat
BY DEF Used, Consumed

\* A line is one text.
LEMMA LineFacts ==
  ASSUME NEW u \in Texts, NEW p \in Texts, NEW b \in Texts, NEW s \in Texts
  PROVE  /\ Line(u, p, b, s) \in Texts
         /\ Line(u, p, b, s) = u \o (p \o (b \o s))
         /\ Line(u, p, <<>>, s) = (u \o p) \o s
<1>1. u \o p \in Texts /\ b \o s \in Texts /\ (u \o p) \o b \in Texts BY TextFacts
<1>2. Line(u, p, b, s) \in Texts BY <1>1, TextFacts DEF Line
<1>3. Line(u, p, b, s) = u \o (p \o (b \o s))
  <2>1. PICK v \in Texts, w \in Texts : v = u \o p /\ w = b \o s BY <1>1, Zenon
  <2>2. Regroups(v, b, s) /\ Regroups(u, p, w) BY TextJoins, Zenon
  <2>3. ((u \o p) \o b) \o s = u \o (p \o (b \o s)) BY <2>1, <2>2, Zenon DEF Regroups
  <2> QED BY <2>3, Zenon DEF Line
<1>4. (u \o p) \o <<>> = u \o p BY <1>1, TextFacts
<1> QED BY <1>2, <1>3, <1>4 DEF Line

\* The same with some of its parts empty.
LEMMA LineRead ==
  ASSUME NEW b \in Texts, NEW s \in Texts PROVE Line(<<>>, <<>>, b, s) = b \o s
<1>1. <<>> \o <<>> = <<>> /\ <<>> \o b = b BY TextFacts
<1> QED BY <1>1 DEF Line

\* The line when all is in the socket, when nothing was read beyond what waits, and
\* when all that was read waits or was received.
LEMMA LineSocket == ASSUME NEW s \in Texts PROVE Line(<<>>, <<>>, <<>>, s) = s
<1>1. <<>> \o <<>> = <<>> /\ <<>> \o s = s BY TextFacts
<1> QED BY <1>1 DEF Line

LEMMA LineWaits ==
  ASSUME NEW p \in Texts, NEW s \in Texts PROVE Line(<<>>, p, <<>>, s) = p \o s
<1>1. <<>> \o p = p /\ p \o <<>> = p BY TextFacts
<1> QED BY <1>1 DEF Line

LEMMA LinePast ==
  ASSUME NEW u \in Texts, NEW p \in Texts, NEW s \in Texts
  PROVE  Line(u, p, <<>>, s) = (u \o p) \o s
<1>1. u \o p \in Texts BY TextFacts
<1>2. (u \o p) \o <<>> = u \o p BY <1>1, TextFacts
<1> QED BY <1>2 DEF Line

\* One more piece at the end.
LEMMA MoreAfter ==
  ASSUME NEW c \in Texts, NEW s \in Texts, NEW x \in Words
  PROVE  c \o Append(s, x) = Append(c \o s, x)
<1>1. c \o s \in Texts BY TextFacts
<1>2. PICK t \in Texts : t = <<x>> BY AppendText
<1>3. Append(c \o s, x) = (c \o s) \o t BY <1>1, <1>2, AppendText
<1>4. Append(s, x) = s \o t BY <1>2, AppendText
<1>5. (c \o s) \o t = c \o (s \o t) BY TextFacts
<1> QED BY <1>3, <1>4, <1>5

\* How many pieces come before the end.
LEMMA CountFacts ==
  ASSUME NEW s \in Texts
  PROVE  /\ Count(s) \in Nat /\ Count(s) <= Len(s)
         /\ s # <<>> /\ Last(s) = "fin" => Count(s) = Len(s) - 1
         /\ ~(s # <<>> /\ Last(s) = "fin") => Count(s) = Len(s)
<1>1. Len(s) \in Nat /\ (s = <<>> <=> Len(s) = 0) BY TextFacts
<1> QED BY <1>1 DEF Count

\* The end stays at the end.
LEMMA RestEnd ==
  ASSUME NEW s \in Texts, NEW n \in 0 .. Len(s)
  PROVE  Rest(s, n) # <<>> => n < Len(s) /\ Last(Rest(s, n)) = Last(s) /\ s # <<>>
<1>0. Len(s) \in Nat /\ (s = <<>> <=> Len(s) = 0) BY TextFacts
<1>1. PICK r \in Texts : r = Rest(s, n) /\ Len(r) = Len(s) - n
                         /\ \A i \in 1 .. Len(s) - n : r[i] = s[n + i]
  BY RestOf
<1>2. (r = <<>> <=> Len(r) = 0) /\ Len(r) \in Nat BY TextFacts
<1>3. ASSUME r # <<>> PROVE n < Len(s) /\ Last(r) = Last(s) /\ s # <<>>
  <2>1. n \in Nat /\ n < Len(s) BY <1>0, <1>1, <1>2, <1>3
  <2>2. Len(r) \in 1 .. Len(s) - n /\ n + Len(r) = Len(s) BY <1>0, <1>1, <2>1
  <2>3. r[Len(r)] = s[Len(s)] BY <1>1, <2>2
  <2> QED BY <1>0, <2>1, <2>3 DEF Last
<1> QED BY <1>1, <1>3

\* The end of what a client says stays the end of what remains of it.
LEMMA FinStays ==
  ASSUME NEW s \in Texts, NEW n \in 0 .. Count(s), s # <<>>, Last(s) = "fin"
  PROVE  Rest(s, n) # <<>> /\ Last(Rest(s, n)) = "fin" /\ n \in 0 .. Len(s)
<1>0. Len(s) \in Nat /\ (s = <<>> <=> Len(s) = 0) BY TextFacts
<1>1. Count(s) = Len(s) - 1 BY CountFacts
<1>2. n \in 0 .. Len(s) /\ n < Len(s) BY <1>0, <1>1
<1>3. Rest(s, n) \in Texts /\ Len(Rest(s, n)) = Len(s) - n BY <1>2, RestOf
<1>4. Rest(s, n) # <<>> BY <1>0, <1>2, <1>3, TextFacts
<1> QED BY <1>2, <1>4, RestEnd

----------------------------------------------------------------------------
\* At the start nothing is said.
\* The scripts of the configurations are those of their kind of inbound.
LEMMA ScriptInit ==
  ASSUME conf \in Configurations, Sensible(conf)
  PROVE  Script
<1>1. conf.kind \in Kinds /\ conf.outbound \in Outbounds BY DEF Configurations
<1>16. conf.script \in {Spoken(open, q) : open \in Openings, q \in Asked} BY DEF Configurations
<1> DEFINE k == conf.kind
           o == conf.outbound
<1>0. PICK open \in Openings, q \in Asked : conf.script = Spoken(open, q) BY <1>16
<1>2. k \in {"trojan", "socks5", "http"} /\ o \in {"direct", "socks5"} /\ Data \in Texts
  BY <1>1, ConstantsAssumption, DataText
<1>3. open \in Texts
  <2>1. PICK kk \in Kinds : open \in Opening(kk) BY DEF Openings
  <2>2. kk \in {"trojan", "socks5", "http"} BY ConstantsAssumption
  <2>3. open \in {<<"key", "right">>, <<"key", "wrong">>, <<"lf", "wrong">>,
                  <<"methods">>, <<"nomethod">>, <<"head">>}
    <3>1. CASE kk = "trojan" BY <2>1, <3>1 DEF Opening
    <3>2. CASE kk = "socks5" BY <2>1, <3>2 DEF Opening
    <3>3. CASE kk = "http" BY <2>1, <3>3 DEF Opening
    <3> QED BY <2>2, <3>1, <3>2, <3>3
  <2>4. \A x, y \in Words : <<x>> \in Texts /\ <<x, y>> \in Texts BY DEF Texts
  <2>5. {"key", "right", "wrong", "lf", "methods", "nomethod", "head"} \subseteq Words BY DEF Words
  <2> QED BY <2>3, <2>4, <2>5
<1>4. q \in Words
  <2>1. PICK kk \in Kinds : q \in Requests(kk) BY DEF Asked
  <2>2. kk \in {"trojan", "socks5", "http"} BY ConstantsAssumption
  <2>3. q \in {"connect", "blocked", "missed", "garbled", "udp", "mux"}
    <3>1. CASE kk = "trojan" BY <2>1, <3>1 DEF Requests
    <3>2. CASE kk = "socks5" BY <2>1, <3>2 DEF Requests
    <3>3. CASE kk = "http" BY <2>1, <3>3 DEF Requests
    <3> QED BY <2>2, <3>1, <3>2, <3>3
  <2> QED BY <2>3 DEF Words
<1>5. PICK s \in Texts : s = conf.script /\ Len(s) >= Len(Data) + 1
  <2>1. open \o <<q>> \in Texts /\ Len(open \o <<q>>) = Len(open) + 1
    <3>1. Append(open, q) = open \o <<q>> /\ Append(open, q) \in Texts
          /\ Len(Append(open, q)) = Len(open) + 1
      BY <1>3, <1>4, AppendText
    <3> QED BY <3>1
  <2>2. PICK a \in Texts : a = open \o <<q>> /\ Len(a) = Len(open) + 1 BY <2>1
  <2>3. a \o Data \in Texts /\ Len(a \o Data) = Len(a) + Len(Data) BY <1>2, <2>2, TextFacts
  <2>4. conf.script = a \o Data BY <1>0, <2>2 DEF Spoken
  <2>5. Len(a) \in Nat /\ Len(open) \in Nat /\ Len(Data) \in Nat BY <1>2, <1>3, <2>2, TextFacts
  <2>6. Len(a \o Data) >= Len(Data) + 1 BY <2>2, <2>3, <2>5
  <2> QED BY <2>3, <2>4, <2>6
<1>6. PICK n \in Nat : n = Len(s) - Len(Data) - 1
  <2>1. Len(s) \in Nat /\ Len(Data) \in Nat BY <1>2, TextFacts
  <2>2. Len(s) - Len(Data) - 1 \in Nat BY <1>5, <2>1
  <2> QED BY <2>2
<1>7. /\ Len(s) \in Nat /\ Len(Data) \in Nat /\ n \in 0 .. Len(s) /\ Len(s) >= n + 1
      /\ Len(s) - Len(Data) - 1 = n
  BY <1>2, <1>5, <1>6, TextFacts
<1>8. /\ SubSeq(s, 1, n) \in Opening(conf.kind)
      /\ conf.rule => conf.lookup # "none"
      /\ conf.outbound = "socks5" => conf.lookup = "none"
  BY <1>5, <1>7 DEF Sensible
<1>9. SubSeq(s, 1, n) \in Texts /\ Len(SubSeq(s, 1, n)) = n /\ \A i \in 1 .. n : SubSeq(s, 1, n)[i] = s[i]
  BY <1>7, RestOf
<1>10. PICK b \in Texts : b = SubSeq(s, 1, n) /\ Len(b) = n /\ \A i \in 1 .. n : b[i] = s[i]
  BY <1>9
<1>11. conf.kind = k /\ conf.outbound = o OBVIOUS
<1>12. conf.rule => conf.outbound = "direct" /\ conf.lookup # "none" BY <1>2, <1>8, <1>11
<1>13. CASE k = "trojan"
  <2>1. b \in {<<"key", "right">>, <<"key", "wrong">>, <<"lf", "wrong">>}
    BY <1>8, <1>10, <1>11, <1>13 DEF Opening
  <2>2. /\ Len(b) = 2 /\ b[2] \in {"right", "wrong"}
        /\ b[1] = "key" \/ (b[1] = "lf" /\ b[2] = "wrong")
    BY <2>1
  <2>3. n = 2 /\ 1 \in 1 .. n /\ 2 \in 1 .. n BY <1>10, <2>2
  <2>4. b[1] = s[1] /\ b[2] = s[2] BY <1>10, <2>3
  <2>5. Len(s) >= 3 BY <1>7, <2>3
  <2> QED BY <1>5, <1>11, <1>12, <1>13, <2>2, <2>4, <2>5 DEF Script
<1>14. CASE k = "socks5"
  <2>1. b \in {<<"methods">>, <<"nomethod">>} BY <1>8, <1>10, <1>11, <1>14 DEF Opening
  <2>2. Len(b) = 1 /\ b[1] \in {"methods", "nomethod"} BY <2>1
  <2>3. n = 1 /\ 1 \in 1 .. n BY <1>10, <2>2
  <2>4. b[1] = s[1] BY <1>10, <2>3
  <2>5. Len(s) >= 2 BY <1>7, <2>3
  <2> QED BY <1>5, <1>11, <1>12, <1>14, <2>2, <2>4, <2>5 DEF Script
<1>15. CASE k = "http"
  <2>1. b \in {<<"head">>} BY <1>8, <1>10, <1>11, <1>15 DEF Opening
  <2>2. Len(b) = 1 /\ b[1] = "head" BY <2>1
  <2>3. n = 1 /\ 1 \in 1 .. n BY <1>10, <2>2
  <2>4. b[1] = s[1] BY <1>10, <2>3
  <2>5. Len(s) >= 2 BY <1>7, <2>3
  <2> QED BY <1>5, <1>11, <1>12, <1>15, <2>2, <2>4, <2>5 DEF Script
<1> QED BY <1>2, <1>13, <1>14, <1>15

LEMMA CarriedInit == Init => Carried
<1> SUFFICES ASSUME Init PROVE Carried OBVIOUS
<1>1. Script BY ScriptInit DEF Init
<1>2. \/ conf.kind = "trojan" /\ state = "prefix" /\ pc = "prefix"
      \/ conf.kind \in {"socks5", "http"} /\ state = "socks5_in_greeting" /\ pc = "socks5_in"
      \/ conf.kind = "http" /\ state = "http_in_request" /\ pc = "http_in"
  <2>1. CASE conf.kind = "trojan" BY <2>1 DEF Init
  <2>2. CASE conf.kind = "socks5" BY <2>2 DEF Init
  <2>3. CASE conf.kind = "http" BY <2>3 DEF Init
  <2> QED BY <1>1, <2>1, <2>2, <2>3 DEF Script
<1>3. Suits BY <1>2 DEF Init, Suits, Responses
<1>4. told = <<>> /\ sock = <<>> /\ buf = <<>> /\ pending = <<>> /\ upgot = <<>> BY DEF Init
<1>5. <<>> \in Texts /\ Len(<<>>) = 0 BY TextFacts
<1>6. Told
  <2>1. Len(conf.script) \in Nat BY <1>1, TextFacts DEF Script
  <2> QED BY <1>4, <1>5, <2>1 DEF Told
<1>7. Phase = "opening" BY <1>2 DEF Phase, Reading
<1>8. Line(upgot, pending, buf, sock) = <<>> BY <1>4, <1>5, LineSocket
<1>9. Rest(told, 0) = <<>> BY <1>4, <1>5, RestEnds
<1>10. Used(Phase) = 0 BY <1>7 DEF Used
<1>11. pc # "start_tcp" BY <1>2
<1>12. Flow BY <1>4, <1>5, <1>7, <1>8, <1>9, <1>10, <1>11 DEF Flow
<1> QED BY <1>1, <1>3, <1>6, <1>12 DEF Carried

----------------------------------------------------------------------------
(* The steps that leave what is carried on where it is.                    *)

\* A step that touches no text and goes back to no earlier phase.
LEMMA CarriedKept ==
  ASSUME Carried, UNCHANGED <<conf, told, sock, buf, pending, upgot>>, Suits',
         Phase' \in {Phase, "none"}, state' # "ended" => state # "ended",
         state' \in {"prefix", "socks5_in_greeting"} => state' = state,
         pc' = "start_tcp" => pc = "start_tcp"
  PROVE  Carried'
<1>1. Script' BY DEF Carried, Script
<1>2. Told' BY DEF Carried, Told
<1>3. Phase' = "none" \/ (Phase' = Phase /\ Used(Phase') = Used(Phase) /\ Used(Phase)' = Used(Phase))
  BY DEF Used, Consumed
<1>4. Line(upgot, pending, buf, sock)' = Line(upgot, pending, buf, sock) BY DEF Line
<1>5. Flow' BY <1>3, <1>4 DEF Carried, Flow
<1> QED BY <1>1, <1>2, <1>5 DEF Carried

\* A session that ends carries nothing on.
LEMMA CarriedEnds ==
  ASSUME Carried, End, told' = told, sock' \in Texts, buf' \in Texts
  PROVE  Carried'
<1>1. /\ state' = "ended" /\ pc' = "wait" /\ UNCHANGED <<conf, told, pending, reply, upgot>>
  BY DEF End, Finalize
<1>2. Phase' = "none" BY <1>1 DEF Phase
<1>3. Suits' BY <1>1 DEF Carried, Suits, Responses, Local
<1>4. Script' /\ Told' BY <1>1 DEF Carried, Script, Told
<1>5. Flow' BY <1>1, <1>2 DEF Carried, Flow
<1> QED BY <1>3, <1>4, <1>5 DEF Carried

\* Nor does one whose request is refused.
LEMMA CarriedRefused ==
  ASSUME Carried, Local, state # "ended", UNCHANGED <<conf, told>>, reply' = [what |-> "fail", sent |-> 0],
         sock' \in Texts, buf' = <<>>, pending' \in Texts, upgot' \in Texts, pc' = "flush",
         told # <<>> /\ Last(told) = "fin" => sock' # <<>> /\ Last(sock') = "fin",
         state' = IF conf.kind = "http" THEN "http_in_response" ELSE "socks5_in_response"
  PROVE  Carried'
<1>1. Phase' = "none" BY DEF Phase, Reading, Dropped
<1>2. Suits' BY DEF Carried, Script, Suits, Responses, Local
<1>3. Script' /\ Told' BY DEF Carried, Script, Told
<1>4. Flow' BY <1>1, TextFacts DEF Carried, Flow
<1> QED BY <1>2, <1>3, <1>4 DEF Carried

LEMMA CarriedResolve == ASSUME Control, Carried, Resolve PROVE Carried'
<1>1. /\ UNCHANGED <<conf, told, sock, buf, pending, upgot>> /\ (state' # "ended" => state # "ended")
      /\ state' \in {"prefix", "socks5_in_greeting"} => state' = state
      /\ pc' = "start_tcp" => pc = "start_tcp"
  BY DEF Control, Simple, Where, Over, Asking, Upstream, Answers, Attempts, States, PCs, Says,
     Inputs, Responses, Before, Local, Resolve, Resolved, input, relayed
<1>2. Suits'
  BY DEF Control, Simple, Where, Over, Asking, Upstream, Answers, Attempts, States, PCs, Says,
     Inputs, Responses, Before, Local, Carried, Suits, Resolve, Resolved, input, relayed
<1>3. Phase' \in {Phase, "none"}
  BY DEF Control, Simple, Where, Over, Asking, Upstream, Answers, Attempts, States, PCs, Says,
     Inputs, Responses, Before, Local, Phase, Reading, Dropped, Resolve, Resolved, input,
     relayed
<1> QED BY <1>1, <1>2, <1>3, CarriedKept

LEMMA CarriedQueryDone == ASSUME Control, Carried, QueryDone PROVE Carried'
<1>1. /\ UNCHANGED <<conf, told, sock, buf, pending, upgot>> /\ (state' # "ended" => state # "ended")
      /\ state' \in {"prefix", "socks5_in_greeting"} => state' = state
      /\ pc' = "start_tcp" => pc = "start_tcp"
  BY DEF Control, Simple, Where, Over, Asking, Upstream, Answers, Attempts, States, PCs, Says,
     Inputs, Responses, Before, Local, QueryDone, Resolved, input, relayed
<1>2. Suits'
  BY DEF Control, Simple, Where, Over, Asking, Upstream, Answers, Attempts, States, PCs, Says,
     Inputs, Responses, Before, Local, Carried, Suits, QueryDone, Resolved, input, relayed
<1>3. Phase' \in {Phase, "none"}
  BY DEF Control, Simple, Where, Over, Asking, Upstream, Answers, Attempts, States, PCs, Says,
     Inputs, Responses, Before, Local, Phase, Reading, Dropped, QueryDone, Resolved, input,
     relayed
<1> QED BY <1>1, <1>2, <1>3, CarriedKept

LEMMA CarriedConnect == ASSUME Control, Carried, Connect PROVE Carried'
<1>1. /\ UNCHANGED <<conf, told, sock, buf, pending, upgot>> /\ (state' # "ended" => state # "ended")
      /\ state' \in {"prefix", "socks5_in_greeting"} => state' = state
      /\ pc' = "start_tcp" => pc = "start_tcp"
  BY DEF Control, Simple, Where, Over, Asking, Upstream, Answers, Attempts, States, PCs, Says,
     Inputs, Responses, Before, Local, Connect, Next1, input, relayed
<1>2. Suits'
  BY DEF Control, Simple, Where, Over, Asking, Upstream, Answers, Attempts, States, PCs, Says,
     Inputs, Responses, Before, Local, Carried, Suits, Connect, Next1, input, relayed
<1>3. Phase' \in {Phase, "none"}
  BY DEF Control, Simple, Where, Over, Asking, Upstream, Answers, Attempts, States, PCs, Says,
     Inputs, Responses, Before, Local, Phase, Reading, Dropped, Connect, Next1, input, relayed
<1> QED BY <1>1, <1>2, <1>3, CarriedKept

LEMMA CarriedSocks5Connect == ASSUME Control, Carried, Socks5Connect PROVE Carried'
<1>1. /\ UNCHANGED <<conf, told, sock, buf, pending, upgot>> /\ (state' # "ended" => state # "ended")
      /\ state' \in {"prefix", "socks5_in_greeting"} => state' = state
      /\ pc' = "start_tcp" => pc = "start_tcp"
  BY DEF Control, Simple, Where, Over, Asking, Upstream, Answers, Attempts, States, PCs, Says,
     Inputs, Responses, Before, Local, Socks5Connect, Next1, input, relayed
<1>2. Suits'
  BY DEF Control, Simple, Where, Over, Asking, Upstream, Answers, Attempts, States, PCs, Says,
     Inputs, Responses, Before, Local, Carried, Suits, Socks5Connect, Next1, input, relayed
<1>3. Phase' \in {Phase, "none"}
  BY DEF Control, Simple, Where, Over, Asking, Upstream, Answers, Attempts, States, PCs, Says,
     Inputs, Responses, Before, Local, Phase, Reading, Dropped, Socks5Connect, Next1, input,
     relayed
<1> QED BY <1>1, <1>2, <1>3, CarriedKept

LEMMA CarriedSynEnds == ASSUME Control, Carried, SynEnds PROVE Carried'
<1>1. /\ UNCHANGED <<conf, told, sock, buf, pending, upgot>> /\ (state' # "ended" => state # "ended")
      /\ state' \in {"prefix", "socks5_in_greeting"} => state' = state
      /\ pc' = "start_tcp" => pc = "start_tcp"
  BY DEF Control, Simple, Where, Over, Asking, Upstream, Answers, Attempts, States, PCs, Says,
     Inputs, Responses, Before, Local, SynEnds, input, relayed
<1>2. Suits'
  BY DEF Control, Simple, Where, Over, Asking, Upstream, Answers, Attempts, States, PCs, Says,
     Inputs, Responses, Before, Local, Carried, Suits, SynEnds, input, relayed
<1>3. Phase' \in {Phase, "none"}
  BY DEF Control, Simple, Where, Over, Asking, Upstream, Answers, Attempts, States, PCs, Says,
     Inputs, Responses, Before, Local, Phase, Reading, Dropped, SynEnds, input, relayed
<1> QED BY <1>1, <1>2, <1>3, CarriedKept

LEMMA CarriedTestConnect == ASSUME Control, Carried, TestConnect PROVE Carried'
<1>1. /\ UNCHANGED <<conf, told, sock, buf, pending, upgot>> /\ (state' # "ended" => state # "ended")
      /\ state' \in {"prefix", "socks5_in_greeting"} => state' = state
      /\ pc' = "start_tcp" => pc = "start_tcp"
  BY DEF Control, Simple, Where, Over, Asking, Upstream, Answers, Attempts, States, PCs, Says,
     Inputs, Responses, Before, Local, TestConnect, Next1, Hung, input, relayed
<1>2. Suits'
  BY DEF Control, Simple, Where, Over, Asking, Upstream, Answers, Attempts, States, PCs, Says,
     Inputs, Responses, Before, Local, Carried, Suits, TestConnect, Next1, Hung, input, relayed
<1>3. Phase' \in {Phase, "none"}
  BY DEF Control, Simple, Where, Over, Asking, Upstream, Answers, Attempts, States, PCs, Says,
     Inputs, Responses, Before, Local, Phase, Reading, Dropped, TestConnect, Next1, Hung, input,
     relayed
<1> QED BY <1>1, <1>2, <1>3, CarriedKept

LEMMA CarriedProcessSocks5 == ASSUME Control, Carried, ProcessSocks5 PROVE Carried'
<1>1. /\ UNCHANGED <<conf, told, sock, buf, pending, upgot>> /\ (state' # "ended" => state # "ended")
      /\ state' \in {"prefix", "socks5_in_greeting"} => state' = state
      /\ pc' = "start_tcp" => pc = "start_tcp"
  BY DEF Control, Simple, Where, Over, Asking, Upstream, Answers, Attempts, States, PCs, Says,
     Inputs, Responses, Before, Local, ProcessSocks5, input, relayed
<1>2. Suits'
  BY DEF Control, Simple, Where, Over, Asking, Upstream, Answers, Attempts, States, PCs, Says,
     Inputs, Responses, Before, Local, Carried, Suits, ProcessSocks5, input, relayed
<1>3. Phase' \in {Phase, "none"}
  BY DEF Control, Simple, Where, Over, Asking, Upstream, Answers, Attempts, States, PCs, Says,
     Inputs, Responses, Before, Local, Phase, Reading, Dropped, ProcessSocks5, input, relayed
<1> QED BY <1>1, <1>2, <1>3, CarriedKept

LEMMA CarriedInitProxy == ASSUME Control, Carried, InitProxy PROVE Carried'
<1>1. /\ UNCHANGED <<conf, told, sock, buf, pending, upgot>> /\ (state' # "ended" => state # "ended")
      /\ state' \in {"prefix", "socks5_in_greeting"} => state' = state
      /\ pc' = "start_tcp" => pc = "start_tcp"
  BY DEF Control, Simple, Where, Over, Asking, Upstream, Answers, Attempts, States, PCs, Says,
     Inputs, Responses, Before, Local, InitProxy, input, relayed
<1>2. Suits'
  BY DEF Control, Simple, Where, Over, Asking, Upstream, Answers, Attempts, States, PCs, Says,
     Inputs, Responses, Before, Local, Carried, Suits, InitProxy, input, relayed
<1>3. Phase' \in {Phase, "none"}
  BY DEF Control, Simple, Where, Over, Asking, Upstream, Answers, Attempts, States, PCs, Says,
     Inputs, Responses, Before, Local, Phase, Reading, Dropped, InitProxy, input, relayed
<1> QED BY <1>1, <1>2, <1>3, CarriedKept

LEMMA CarriedReadClientCalls == ASSUME Control, Carried, ReadClientCalls PROVE Carried'
<1>1. /\ UNCHANGED <<conf, told, sock, buf, pending, upgot>> /\ (state' # "ended" => state # "ended")
      /\ state' \in {"prefix", "socks5_in_greeting"} => state' = state
      /\ pc' = "start_tcp" => pc = "start_tcp"
  BY DEF Control, Simple, Where, Over, Asking, Upstream, Answers, Attempts, States, PCs, Says,
     Inputs, Responses, Before, Local, ReadClientCalls, Handles, Kept, input, outbound
<1>2. Suits'
  BY DEF Control, Simple, Where, Over, Asking, Upstream, Answers, Attempts, States, PCs, Says,
     Inputs, Responses, Before, Local, Carried, Suits, ReadClientCalls, Handles, Kept, input,
     outbound
<1>3. Phase' \in {Phase, "none"}
  BY DEF Control, Simple, Where, Over, Asking, Upstream, Answers, Attempts, States, PCs, Says,
     Inputs, Responses, Before, Local, Phase, Reading, Dropped, ReadClientCalls, Handles, Kept,
     input, outbound
<1> QED BY <1>1, <1>2, <1>3, CarriedKept

LEMMA CarriedReadClientEnds == ASSUME Control, Carried, ReadClientEnds PROVE Carried'
<1>1. End /\ UNCHANGED <<input, got>> BY DEF ReadClientEnds
<1>2. Flow BY DEF Carried
<1> QED BY <1>1, <1>2, CarriedEnds DEF input, Flow

LEMMA CarriedPeerEvent == ASSUME Control, Carried, PeerEvent PROVE Carried'
<1>1. /\ UNCHANGED <<conf, told, sock, buf, pending, upgot>> /\ (state' # "ended" => state # "ended")
      /\ state' \in {"prefix", "socks5_in_greeting"} => state' = state
      /\ pc' = "start_tcp" => pc = "start_tcp"
  BY DEF Control, Simple, Where, Over, Asking, Upstream, Answers, Attempts, States, PCs, Says,
     Inputs, Responses, Before, Local, PeerEvent, Kept, input, outbound
<1>2. Suits'
  BY DEF Control, Simple, Where, Over, Asking, Upstream, Answers, Attempts, States, PCs, Says,
     Inputs, Responses, Before, Local, Carried, Suits, PeerEvent, Kept, input, outbound
<1>3. Phase' \in {Phase, "none"}
  BY DEF Control, Simple, Where, Over, Asking, Upstream, Answers, Attempts, States, PCs, Says,
     Inputs, Responses, Before, Local, Phase, Reading, Dropped, PeerEvent, Kept, input, outbound
<1> QED BY <1>1, <1>2, <1>3, CarriedKept

LEMMA CarriedWritable == ASSUME Control, Carried, Writable PROVE Carried'
<1>1. /\ UNCHANGED <<conf, told, sock, buf, pending, upgot>> /\ (state' # "ended" => state # "ended")
      /\ state' \in {"prefix", "socks5_in_greeting"} => state' = state
      /\ pc' = "start_tcp" => pc = "start_tcp"
  BY DEF Control, Simple, Where, Over, Asking, Upstream, Answers, Attempts, States, PCs, Says,
     Inputs, Responses, Before, Local, Writable, input, outbound
<1>2. Suits'
  BY DEF Control, Simple, Where, Over, Asking, Upstream, Answers, Attempts, States, PCs, Says,
     Inputs, Responses, Before, Local, Carried, Suits, Writable, input, outbound
<1>3. Phase' \in {Phase, "none"}
  BY DEF Control, Simple, Where, Over, Asking, Upstream, Answers, Attempts, States, PCs, Says,
     Inputs, Responses, Before, Local, Phase, Reading, Dropped, Writable, input, outbound
<1> QED BY <1>1, <1>2, <1>3, CarriedKept

LEMMA CarriedUpEvent == ASSUME Control, Carried, UpEvent PROVE Carried'
<1>1. /\ UNCHANGED <<conf, told, sock, buf, pending, upgot>> /\ (state' # "ended" => state # "ended")
      /\ state' \in {"prefix", "socks5_in_greeting"} => state' = state
      /\ pc' = "start_tcp" => pc = "start_tcp"
  BY DEF Control, Simple, Where, Over, Asking, Upstream, Answers, Attempts, States, PCs, Says,
     Inputs, Responses, Before, Local, UpEvent, input, outbound
<1>2. Suits'
  BY DEF Control, Simple, Where, Over, Asking, Upstream, Answers, Attempts, States, PCs, Says,
     Inputs, Responses, Before, Local, Carried, Suits, UpEvent, input, outbound
<1>3. Phase' \in {Phase, "none"}
  BY DEF Control, Simple, Where, Over, Asking, Upstream, Answers, Attempts, States, PCs, Says,
     Inputs, Responses, Before, Local, Phase, Reading, Dropped, UpEvent, input, outbound
<1> QED BY <1>1, <1>2, <1>3, CarriedKept

LEMMA CarriedTimeout ==
  ASSUME Control, Carried, NEW t \in {"cread", "cwrite", "pread", "pwrite"}, Timeout(t)
  PROVE  Carried'
<1>1. CASE t = "pwrite"
  <2>1. /\ pc = "wait" /\ "pwrite" \in timers /\ pc' = "failure"
        /\ UNCHANGED <<conf, state, input, pending, reply, got, outbound, upq, upgot, ev, history>>
    BY <1>1 DEF Timeout
  <2>2. state \notin Inputs BY <2>1 DEF Control, Upstream
  <2>3. Suits' BY <2>1 DEF Carried, Suits, Responses, Local
  <2>4. Phase' = Phase BY <2>1, <2>2 DEF Phase, Reading, Dropped, Inputs
  <2> QED BY <2>1, <2>2, <2>3, <2>4, CarriedKept DEF input, Inputs
<1>2. CASE t # "pwrite"
  <2>1. End /\ UNCHANGED <<input, got>> BY <1>2 DEF Timeout
  <2>2. Flow BY DEF Carried
  <2> QED BY <2>1, <2>2, CarriedEnds DEF input, Flow
<1> QED BY <1>1, <1>2

LEMMA CarriedSuccess == ASSUME Control, Carried, Success PROVE Carried'
<1>1. UNCHANGED <<conf, told, sock, pending, upgot>> BY DEF Success
<1>2. pc = "success" /\ up = "open" /\ state # "ended" /\ reply.what \in Says
  BY DEF Control, Simple, Where, Over, Asking, Upstream, Answers, Attempts, States, PCs, Says,
     Inputs, Responses, Before, Local, Success
<1>3. Phase \in {"past", "none"} /\ (Phase = "none" <=> conf.kind = "http" /\ conf.rule)
  BY <1>2 DEF Control, Simple, Where, Over, Asking, Upstream, Answers, Attempts, States, PCs,
     Says, Inputs, Responses, Before, Local, Phase, Reading, Dropped
<1>4. CASE Local
  <2>1. /\ reply' = [what |-> "ok", sent |-> 0] /\ buf' = <<>> /\ pc' = "flush"
        /\ state' = IF conf.kind = "http" THEN "http_in_response" ELSE "socks5_in_response"
    BY <1>4 DEF Success, Prepare
  <2>2. Suits' BY <1>1, <1>4, <2>1 DEF Carried, Script, Suits, Local, Responses
  <2>3. Phase' = Phase BY <1>1, <1>3, <2>1 DEF Phase, Reading, Dropped
  <2>4. Phase = "past" => buf' = buf BY <2>1 DEF Carried, Flow
  <2>5. Script' /\ Told' BY <1>1 DEF Carried, Script, Told
  <2>6. Flow'
    <3>1. Used(Phase)' = Used(Phase) BY <1>1, <2>3 DEF Used, Consumed
    <3>2. Phase = "past" => Line(upgot, pending, buf, sock)' = Line(upgot, pending, buf, sock)
      BY <1>1, <2>4 DEF Line
    <3>3. buf' \in Texts BY <2>1, TextFacts
    <3> QED BY <1>1, <1>2, <1>3, <2>1, <2>3, <3>1, <3>2, <3>3 DEF Carried, Flow
  <2> QED BY <2>2, <2>5, <2>6 DEF Carried
<1>5. CASE ~Local
  <2>1. pc' = "init_proxy" /\ UNCHANGED <<state, buf, reply>> BY <1>5 DEF Success
  <2>2. Suits' BY <1>1, <2>1 DEF Carried, Suits, Local, Responses
  <2>3. Phase' = Phase BY <1>1, <1>2, <2>1 DEF Phase, Reading, Dropped
  <2>4. state \notin {"prefix", "socks5_in_greeting"}
    BY <1>2 DEF Control, Simple, Where, Over, Asking, Upstream, Answers, Attempts, States, PCs,
       Says, Inputs, Responses, Before, Local
  <2> QED BY <1>1, <2>1, <2>2, <2>3, <2>4, CarriedKept
<1> QED BY <1>4, <1>5

LEMMA CarriedFailure == ASSUME Control, Carried, Failure PROVE Carried'
<1>1. CASE Local
  <2>1. /\ reply' = [what |-> "fail", sent |-> 0] /\ buf' = <<>> /\ pc' = "flush"
        /\ state' = IF conf.kind = "http" THEN "http_in_response" ELSE "socks5_in_response"
        /\ UNCHANGED <<conf, told, sock, pending, upgot>>
    BY <1>1 DEF Failure, Prepare
  <2>2. state # "ended" BY DEF Failure, Control, Over
  <2>3. Flow BY DEF Carried
  <2> QED BY <1>1, <2>1, <2>2, <2>3, CarriedRefused DEF Flow
<1>2. CASE ~Local
  <2>1. End /\ UNCHANGED <<told, sock, buf>> BY <1>2 DEF Failure
  <2>2. Flow BY DEF Carried
  <2> QED BY <2>1, <2>2, CarriedEnds DEF Flow
<1> QED BY <1>1, <1>2

LEMMA CarriedFlush == ASSUME Control, Carried, Flush PROVE Carried'
<1>1. PICK n \in 0 .. Parts - reply.sent :
        LET over == reply.sent + n = Parts IN
        IF ~over
        THEN /\ reply' = [reply EXCEPT !.sent = @ + n]
             /\ timers' = timers \cup {"cwrite"} /\ pc' = "wait"
             /\ UNCHANGED <<conf, state, pending, outbound, upq, upgot, ev, history>>
        ELSE IF reply.what \in {"fail", "nomethod", "page"} THEN End
        ELSE /\ AfterReply /\ reply' = [what |-> "nothing", sent |-> 0]
             /\ timers' = timers \ {"cwrite"}
             /\ UNCHANGED <<conf, pending, outbound, upq, upgot, ev, history>>
  BY Zenon DEF Flush
<1>2. pc = "flush" /\ UNCHANGED <<told, sock, buf>> BY DEF Flush
<1>3. state \in Responses \cup {"default_fallback"} BY <1>2 DEF Control, Where
<1>4. CASE reply.sent + n # Parts
  <2>1. /\ pc' = "wait" /\ UNCHANGED <<conf, state, pending, upgot>> /\ reply'.what = reply.what
    BY <1>1, <1>4 DEF Control, Simple
  <2>2. Suits' BY <2>1 DEF Carried, Suits, Responses, Local
  <2>3. Phase' = Phase BY <1>2, <1>3, <2>1 DEF Phase, Reading, Dropped, Responses
  <2> QED BY <1>2, <1>3, <2>1, <2>2, <2>3, CarriedKept
<1>5. CASE reply.sent + n = Parts /\ reply.what \in {"fail", "nomethod", "page"}
  <2>1. End BY <1>1, <1>5
  <2>2. Flow BY DEF Carried
  <2> QED BY <1>2, <2>1, <2>2, CarriedEnds DEF Flow
<1>6. CASE reply.sent + n = Parts /\ reply.what \notin {"fail", "nomethod", "page"}
  <2>1. AfterReply /\ reply' = [what |-> "nothing", sent |-> 0] /\ UNCHANGED <<conf, pending, upgot>>
    BY <1>1, <1>6
  <2>2. reply.what \in {"methods", "ok", "relay"} BY <1>6 DEF Flush, Sends
  <2>3. CASE reply.what = "ok"
    <3>1. pc' = "init_proxy" /\ state' = state BY <2>1, <2>3 DEF AfterReply
    <3>2. Suits' BY <2>1, <3>1 DEF Carried, Suits, Responses, Local
    <3>3. Phase' = Phase BY <1>2, <1>3, <2>1, <2>3, <3>1 DEF Phase, Reading, Dropped, Responses
    <3> QED BY <1>2, <1>3, <2>1, <3>1, <3>2, <3>3, CarriedKept DEF Responses
  <2>4. CASE reply.what = "methods"
    <3>1. pc' = "socks5_in" /\ state' = "socks5_in_request" BY <2>1, <2>4 DEF AfterReply
    <3>2. Suits' BY <2>1, <2>4, <3>1 DEF Carried, Suits, Responses, Local
    <3>3. Phase = "greeted" /\ Phase' = "greeted"
      BY <1>2, <1>3, <2>1, <2>4, <3>1 DEF Phase, Reading, Dropped, Responses
    <3> QED BY <1>2, <1>3, <2>1, <3>1, <3>2, <3>3, CarriedKept DEF Responses
  <2>5. CASE reply.what = "relay"
    <3>1. pc' = "wait" /\ state' = "udp" BY <2>1, <2>5 DEF AfterReply
    <3>2. Suits' BY <2>1, <2>5, <3>1 DEF Carried, Suits, Responses, Local
    <3>3. Phase = "past" /\ Phase' = "past"
      BY <1>2, <1>3, <2>1, <2>5, <3>1 DEF Carried, Suits, Phase, Reading, Dropped, Responses
    <3> QED BY <1>2, <1>3, <2>1, <3>1, <3>2, <3>3, CarriedKept DEF Responses
  <2> QED BY <2>2, <2>3, <2>4, <2>5
<1> QED BY <1>4, <1>5, <1>6

----------------------------------------------------------------------------
(* The steps that carry it on.                                             *)

\* The rest when a piece more was taken.
LEMMA TakeMore ==
  ASSUME NEW t \in Texts, NEW n \in Nat, NEW m \in Nat, n <= Len(t),
         NEW w \in Texts, Rest(t, n) = w, m <= Len(w)
  PROVE  n + m <= Len(t) /\ Rest(t, n + m) = Rest(w, m)
<1>1. Len(t) \in Nat BY TextFacts
<1>2. Len(Rest(t, n)) = Len(t) - n
  <2>1. n \in 0 .. Len(t) BY <1>1
  <2> QED BY <2>1, RestOf
<1>3. n + m <= Len(t) BY <1>1, <1>2
<1> QED BY <1>3, RestRest

\* The first piece, and what follows.
LEMMA FirstRest ==
  ASSUME NEW s \in Texts, s # <<>>
  PROVE  <<s[1]>> \in Texts /\ Len(<<s[1]>>) = 1 /\ <<s[1]>> \o Tail(s) = s
<1>0. 1 \in 0 .. Len(s) /\ Tail(s) = Rest(s, 1) BY RestEnds
<1>1. PICK h \in Texts : h = SubSeq(s, 1, 1) /\ Len(h) = 1 /\ h \o Rest(s, 1) = s /\ h[1] = s[1]
  <2>1. PICK n \in 0 .. Len(s) : n = 1 BY <1>0
  <2>2. /\ SubSeq(s, 1, n) \in Texts /\ Len(SubSeq(s, 1, n)) = n
        /\ \A i \in 1 .. n : SubSeq(s, 1, n)[i] = s[i]
        /\ SubSeq(s, 1, n) \o Rest(s, n) = s
    BY RestOf
  <2>3. PICK h \in Texts : h = SubSeq(s, 1, n) /\ Len(h) = n /\ \A i \in 1 .. n : h[i] = s[i]
    BY <2>2
  <2>4. 1 \in 1 .. n /\ n = 1 BY <2>1
  <2>5. h[1] = s[1] BY <2>3, <2>4
  <2>6. h = SubSeq(s, 1, 1) /\ Len(h) = 1 /\ h \o Rest(s, 1) = s BY <2>1, <2>2, <2>3
  <2> QED BY <2>5, <2>6
<1>2. Len(s) \in Nat /\ (s = <<>> <=> Len(s) = 0) BY TextFacts
<1>3. s[1] \in Words
  <2>1. 1 \in 1 .. Len(s) BY <1>2
  <2> QED BY <2>1, ElementOfSeq DEF Texts
<1>4. <<s[1]>> \in Texts /\ Len(<<s[1]>>) = 1 BY <1>3 DEF Texts
<1>5. \A i \in 1 .. Len(h) : h[i] = <<s[1]>>[i] BY <1>1
<1>6. h = <<s[1]>> BY <1>1, <1>4, <1>5, TextEqual
<1> QED BY <1>0, <1>1, <1>4, <1>6

\* What follows the first piece of a text that says more than that it ends.
LEMMA TailFin ==
  ASSUME NEW s \in Texts, s # <<>>, Last(s) = "fin", ~Ended(s)
  PROVE  Rest(s, 1) # <<>> /\ Last(Rest(s, 1)) = "fin"
<1>0. Len(s) \in Nat /\ Len(s) # 0 /\ (\A t \in Texts : t = <<>> <=> Len(t) = 0) BY TextFacts
<1>1. Len(s) # 1
  <2> SUFFICES ASSUME Len(s) = 1 PROVE FALSE OBVIOUS
  <2>1. <<"fin">> \in Texts /\ Len(<<"fin">>) = 1 BY DEF Texts, Words
  <2>2. s[1] = "fin" BY DEF Last
  <2>3. \A i \in 1 .. Len(s) : s[i] = <<"fin">>[i] BY <2>2
  <2>4. s = <<"fin">> BY <2>1, <2>3, TextEqual
  <2> QED BY <2>4 DEF Ended
<1>2. 1 \in 0 .. Len(s) BY <1>0
<1>3. Rest(s, 1) \in Texts /\ Len(Rest(s, 1)) = Len(s) - 1 BY <1>2, RestOf
<1>4. Rest(s, 1) # <<>> BY <1>0, <1>1, <1>3
<1> QED BY <1>2, <1>4, RestEnd

LEMMA CarriedStartTcp == ASSUME Control, Carried, StartTcp PROVE Carried'
<1>1. /\ pc = "start_tcp" /\ UNCHANGED <<conf, state, told, sock, buf, reply, upgot>>
      /\ pending' = IF conf.rule /\ conf.outbound = "direct" THEN <<>> ELSE pending
      /\ pc' \in {"socks5_connect", "connect", "failure", "resolve"}
  BY DEF StartTcp, input
<1>2. state \in Inputs /\ reply.what \notin {"methods", "nomethod"}
  BY <1>1 DEF Control, Simple, Where, Over, Asking, Upstream, Answers, Attempts, States, PCs,
     Says, Inputs, Responses, Before, Local
<1>3. Phase' = Phase /\ Phase \in {"past", "none"} BY <1>1, <1>2 DEF Phase, Reading, Dropped, Inputs
<1>4. Suits' BY <1>1 DEF Carried, Suits, Responses, Local
<1>5. Script' /\ Told' BY <1>1 DEF Carried, Script, Told
<1>6. CASE conf.kind = "http" /\ conf.rule
  <2>1. Phase' = "none" BY <1>1, <1>2, <1>6 DEF Phase, Reading, Dropped, Inputs
  <2>2. pending' \in Texts BY <1>1, TextFacts DEF Carried, Flow
  <2>3. Flow' BY <1>1, <1>2, <2>1, <2>2 DEF Carried, Flow, Inputs
  <2> QED BY <1>4, <1>5, <2>3 DEF Carried
<1>7. CASE ~(conf.kind = "http" /\ conf.rule)
  <2>1. pending' = pending BY <1>1, <1>7 DEF Carried, Script, Flow
  <2> QED BY <1>1, <1>2, <1>3, <1>4, <2>1, CarriedKept DEF Inputs
<1> QED BY <1>6, <1>7

LEMMA CarriedSay == ASSUME Control, Carried, Say PROVE Carried'
<1>1. PICK x \in {conf.script[Len(told) + 1], "fin"} : told' = Append(told, x) /\ sock' = Append(sock, x)
  BY Zenon DEF Say
<1>2. /\ UNCHANGED <<conf, state, pc, buf, pending, reply, upgot>> /\ state # "ended"
      /\ Len(told) < Len(conf.script) /\ (told # <<>> => Last(told) # "fin")
  BY DEF Say, outbound
<1>3. told \in Texts /\ sock \in Texts /\ conf.script \in Texts BY DEF Carried, Told, Flow, Script
<1>4. Len(told) \in Nat /\ Len(conf.script) \in Nat /\ (told = <<>> <=> Len(told) = 0)
  BY <1>3, TextFacts
<1>5. x \in Words
  <2>1. Len(told) + 1 \in 1 .. Len(conf.script) BY <1>2, <1>4
  <2>2. conf.script[Len(told) + 1] \in Words BY <1>3, <2>1, ElementOfSeq DEF Texts
  <2> QED BY <2>2 DEF Words
<1>6. Suits' BY <1>2 DEF Carried, Suits, Responses, Local
<1>7. Script' BY <1>2 DEF Carried, Script
<1>8. /\ told' \in Texts /\ Len(told') = Len(told) + 1 /\ Last(told') = x /\ told' # <<>>
      /\ \A i \in 1 .. Len(told) : told'[i] = told[i]
      /\ \A n \in 0 .. Len(told) : Rest(told', n) = Append(Rest(told, n), x)
  BY <1>1, <1>3, <1>5, AppendText
<1>9. sock' \in Texts /\ Last(sock') = x /\ sock' # <<>> BY <1>1, <1>3, <1>5, AppendText
<1>10. Told'
  <2>1. ASSUME NEW i \in 1 .. Len(told)
        PROVE  told'[i] = conf.script[i]
    <3>1. told[i] = conf.script[i] \/ (i = Len(told) /\ told[i] = "fin") BY DEF Carried, Told
    <3>2. ~(i = Len(told) /\ told[i] = "fin") BY <1>2, <1>4 DEF Last
    <3> QED BY <1>8, <3>1, <3>2
  <2>2. told'[Len(told) + 1] \in {conf.script[Len(told) + 1], "fin"}
    BY <1>8 DEF Last
  <2>3. ASSUME NEW i \in 1 .. Len(told')
        PROVE  told'[i] = conf.script[i] \/ (i = Len(told') /\ told'[i] = "fin")
    <3>1. i \in 1 .. Len(told) \/ i = Len(told) + 1 BY <1>4, <1>8
    <3> QED BY <1>8, <2>1, <2>2, <3>1
  <2>4. Len(told') <= Len(conf.script) BY <1>2, <1>4, <1>8
  <2> QED BY <1>2, <1>8, <2>3, <2>4 DEF Told
<1>11. Phase' = Phase /\ Used(Phase)' = Used(Phase)
  BY <1>2 DEF Phase, Reading, Dropped, Used, Consumed
<1>12. Phase # "none" => Used(Phase) <= Len(told') /\ Rest(told', Used(Phase)) = Line(upgot, pending, buf, sock')
  <2> SUFFICES ASSUME Phase # "none"
               PROVE  Used(Phase) <= Len(told') /\ Rest(told', Used(Phase)) = Line(upgot, pending, buf, sock')
    OBVIOUS
  <2>1. Used(Phase) \in 0 .. Len(told) BY <1>4, UsedType DEF Carried, Flow
  <2>2. Rest(told', Used(Phase)) = Append(Line(upgot, pending, buf, sock), x)
    BY <1>8, <2>1 DEF Carried, Flow
  <2>3. Line(upgot, pending, buf, sock') = Append(Line(upgot, pending, buf, sock), x)
    <3>1. buf \in Texts /\ pending \in Texts /\ upgot \in Texts BY DEF Carried, Flow
    <3>2. (upgot \o pending) \o buf \in Texts
      <4>1. upgot \o pending \in Texts BY <3>1, TextFacts
      <4> QED BY <3>1, <4>1, TextFacts
    <3>3. ((upgot \o pending) \o buf) \o Append(sock, x) = Append(((upgot \o pending) \o buf) \o sock, x)
      BY <1>3, <1>5, <3>2, MoreAfter
    <3> QED BY <1>1, <3>3 DEF Line
  <2> QED BY <1>4, <1>8, <2>1, <2>2, <2>3
<1>13. Flow' BY <1>2, <1>8, <1>9, <1>11, <1>12 DEF Carried, Flow
<1> QED BY <1>6, <1>7, <1>10, <1>13 DEF Carried

LEMMA CarriedProcessRequest == ASSUME Control, Carried, ProcessRequest PROVE Carried'
<1>1. pc = "request" /\ state = "request" /\ UNCHANGED <<told, buf>>
  BY DEF ProcessRequest, Control, Where
<1>2. Phase = "trojan" /\ conf.kind = "trojan" BY <1>1 DEF Phase, Reading, Dropped, Carried, Suits
<1>3. /\ Used(Phase) = 2 /\ 2 <= Len(told) /\ pending = <<>> /\ upgot = <<>> /\ buf = <<>>
      /\ Rest(told, 2) = Line(<<>>, <<>>, <<>>, sock) /\ sock \in Texts /\ told \in Texts
      /\ conf.script[2] = "right"
  BY <1>2 DEF Carried, Flow, Told, Used
<1>4. Rest(told, 2) = sock BY <1>3, LineSocket
<1>5. sock # <<>> => /\ Tail(sock) = Rest(sock, 1) /\ Tail(sock) \in Texts /\ 1 \in 0 .. Len(sock)
                     /\ Last(sock) = "fin" /\ ~Ended(sock) => Tail(sock) # <<>> /\ Last(Tail(sock)) = "fin"
  <2> SUFFICES ASSUME sock # <<>>
               PROVE  /\ Tail(sock) = Rest(sock, 1) /\ Tail(sock) \in Texts /\ 1 \in 0 .. Len(sock)
                      /\ Last(sock) = "fin" /\ ~Ended(sock) => Tail(sock) # <<>> /\ Last(Tail(sock)) = "fin"
    OBVIOUS
  <2>1. Tail(sock) = Rest(sock, 1) /\ 1 \in 0 .. Len(sock) BY <1>3, RestEnds
  <2>2. Rest(sock, 1) \in Texts BY <1>3, <2>1, RestOf
  <2>3. ASSUME Last(sock) = "fin", ~Ended(sock)
        PROVE  Rest(sock, 1) # <<>> /\ Last(Rest(sock, 1)) = "fin"
    BY <1>3, <2>1, <2>3, TailFin
  <2> QED BY <2>1, <2>2, <2>3
<1>6. CASE sock = <<>> /\ Sleep
           /\ UNCHANGED <<conf, state, sock, pending, reply, outbound, upq, upgot, history>>
  <2>1. Suits' BY <1>6 DEF Carried, Suits, Responses, Local
  <2>2. Phase' = Phase /\ pc' = "wait" BY <1>1, <1>2, <1>6 DEF Phase, Reading, Dropped, Sleep
  <2> QED BY <1>1, <1>6, <2>1, <2>2, CarriedKept
<1>7. CASE sock # <<>> /\ sock' = Tail(sock) /\ End
  <2>1. buf' \in Texts BY <1>1, <1>3, TextFacts
  <2> QED BY <1>1, <1>5, <1>7, <2>1, CarriedEnds
<1>8. CASE /\ sock # <<>> /\ ~Ended(sock) /\ ~Refused(sock[1]) /\ sock[1] # "blocked"
           /\ sock' = Tail(sock) /\ Accept(sock[1])
           /\ UNCHANGED <<conf, pending, reply, outbound, upq, upgot, history>>
  <2>1. \/ pc' = "start_tcp" /\ state' = state
        \/ pc' = "wait" /\ state' \in {"mux", "udp"}
    <3>1. CASE sock[1] = "connect" BY <1>8, <3>1 DEF Accept
    <3>2. CASE sock[1] = "mux" BY <1>8, <3>2 DEF Accept, Sleep
    <3>3. CASE sock[1] \notin {"connect", "mux"} BY <1>8, <3>3 DEF Accept, Sleep
    <3> QED BY <3>1, <3>2, <3>3
  <2>2. Suits' BY <1>1, <1>2, <1>8, <2>1 DEF Carried, Suits, Responses, Local
  <2>3. reply.what = "nothing"
    BY <1>1 DEF Control, Simple, Where, Over, Asking, Upstream, Answers, Attempts, States, PCs,
       Says, Inputs, Responses, Before, Local
  <2>4. Phase' = "past" BY <1>1, <1>2, <1>8, <2>1, <2>3 DEF Phase, Reading, Dropped
  <2>5. Used("past")' = 3 BY <1>2, <1>3, <1>8 DEF Used, Consumed
  <2>6. 3 <= Len(told) /\ Rest(told, 3) = Tail(sock)
    <3>1. 2 + 1 <= Len(told) /\ Rest(told, 2 + 1) = Rest(sock, 1)
      BY <1>3, <1>4, <1>5, <1>8, TakeMore
    <3> QED BY <1>5, <1>8, <3>1
  <2>7. Line(<<>>, <<>>, <<>>, Tail(sock)) = Tail(sock) BY <1>5, <1>8, LineSocket
  <2>8. Used(Phase)' = 3 BY <2>4, <2>5
  <2>9. Flow' BY <1>1, <1>3, <1>5, <1>8, <2>1, <2>4, <2>6, <2>7, <2>8, TextFacts DEF Carried, Flow
  <2>10. Script' /\ Told' BY <1>1, <1>8 DEF Carried, Script, Told
  <2> QED BY <2>2, <2>9, <2>10 DEF Carried
<1> QED BY <1>6, <1>7, <1>8 DEF ProcessRequest

LEMMA CarriedProcessSocks5In == ASSUME Control, Carried, ProcessSocks5In PROVE Carried'
<1>1. /\ pc = "socks5_in" /\ state \in {"socks5_in_greeting", "socks5_in_request"} /\ told' = told
      /\ reply.what = "nothing"
  BY DEF ProcessSocks5In, Untouched, Control, Simple, Where, Over, Asking, Upstream, Answers,
     Attempts, States, PCs, Says, Inputs, Responses, Before, Local
<1>2. /\ state = "socks5_in_greeting" => Phase = "opening"
      /\ state = "socks5_in_request" => Phase = "greeted" /\ conf.kind = "socks5"
  BY <1>1 DEF Phase, Reading, Dropped, Carried, Suits
<1>3. /\ told \in Texts /\ sock \in Texts /\ buf = <<>> /\ pending = <<>> /\ upgot = <<>>
      /\ Used(Phase) = IF state = "socks5_in_greeting" THEN 0 ELSE 1
      /\ Used(Phase) <= Len(told) /\ Rest(told, Used(Phase)) = Line(<<>>, <<>>, <<>>, sock)
      /\ Len(told) \in Nat /\ Len(sock) \in Nat /\ (sock = <<>> <=> Len(sock) = 0)
  BY <1>1, <1>2, TextFacts DEF Carried, Flow, Told, Used
<1>4. Rest(told, Used(Phase)) = sock BY <1>3, LineSocket
<1>5. ASSUME sock # <<>>
      PROVE  /\ Tail(sock) = Rest(sock, 1) /\ Tail(sock) \in Texts /\ 1 \in 0 .. Len(sock)
             /\ Last(sock) = "fin" /\ ~Ended(sock) => Tail(sock) # <<>> /\ Last(Tail(sock)) = "fin"
             /\ Used(Phase) + 1 <= Len(told) /\ Rest(told, Used(Phase) + 1) = Tail(sock)
             /\ Ended(sock) => sock[1] = "fin"
  <2>1. Tail(sock) = Rest(sock, 1) /\ 1 \in 0 .. Len(sock) BY <1>3, <1>5, RestEnds
  <2>2. Rest(sock, 1) \in Texts BY <1>3, <2>1, RestOf
  <2>3. ASSUME Last(sock) = "fin", ~Ended(sock)
        PROVE  Rest(sock, 1) # <<>> /\ Last(Rest(sock, 1)) = "fin"
    BY <1>3, <1>5, <2>3, TailFin
  <2>4. Used(Phase) + 1 <= Len(told) /\ Rest(told, Used(Phase) + 1) = Rest(sock, 1)
    <3>1. PICK n \in Nat : n = Used(Phase) BY <1>3
    <3>2. n <= Len(told) /\ Rest(told, n) = sock /\ 1 <= Len(sock) BY <1>3, <1>4, <1>5, <3>1
    <3> QED BY <1>3, <3>1, <3>2, TakeMore
  <2>5. Ended(sock) => sock[1] = "fin" BY DEF Ended
  <2> QED BY <2>1, <2>2, <2>3, <2>4, <2>5
<1>6. told # <<>> /\ Last(told) = "fin" => sock # <<>> /\ Last(sock) = "fin"
  BY <1>1 DEF Carried, Flow
<1>7. CASE sock = <<>> /\ Sleep
           /\ UNCHANGED <<conf, state, told, sock, buf, got, pending, reply, outbound, upq, upgot, history>>
  <2>1. Suits' BY <1>7 DEF Carried, Suits, Responses, Local
  <2>2. Phase' = Phase /\ pc' = "wait" BY <1>1, <1>2, <1>7 DEF Phase, Reading, Dropped, Sleep
  <2> QED BY <1>1, <1>7, <2>1, <2>2, CarriedKept
<1>8. CASE End /\ sock' \in Texts /\ UNCHANGED <<told, buf>>
  BY <1>3, <1>8, TextFacts, CarriedEnds
\* The header of an HTTP request.
<1>9. CASE /\ state = "socks5_in_greeting" /\ sock # <<>> /\ sock[1] = "head"
           /\ buf' = <<"head">> /\ sock' = Tail(sock) /\ state' = "http_in_request" /\ pc' = "http_in"
           /\ UNCHANGED <<pending, reply, timers>> /\ Untouched
  <2>0. UNCHANGED <<conf, told, upgot, pending, reply>> BY <1>9 DEF Untouched
  <2>1. told = sock BY <1>3, <1>4, <1>9, RestEnds
  <2>2. conf.script[1] = "head"
    <3>1. 1 \in 1 .. Len(told) BY <1>3, <1>9, <2>1
    <3> QED BY <1>9, <2>1, <3>1 DEF Carried, Told
  <2>3. conf.kind = "http" BY <1>1, <1>9, <2>2 DEF Carried, Script, Suits
  <2>4. Suits' BY <1>1, <1>9, <2>0, <2>3 DEF Carried, Suits, Responses, Local
  <2>5. Phase' = "opening" BY <1>9 DEF Phase, Reading, Dropped
  <2>6. buf' \in Texts /\ buf' \o Tail(sock) = sock BY <1>3, <1>9, FirstRest
  <2>7. Line(<<>>, <<>>, buf', Tail(sock)) = buf' \o Tail(sock)
    <3>1. PICK b \in Texts : b = buf' BY <2>6
    <3>2. PICK r \in Texts : r = Tail(sock) BY <1>5, <1>9
    <3>3. Line(<<>>, <<>>, b, r) = b \o r BY LineRead
    <3> QED BY <3>1, <3>2, <3>3
  <2>9. Used("opening")' = 0 /\ Rest(told, 0) = told BY <1>3, RestEnds DEF Used
  <2>10. Last(sock) = "fin" => Tail(sock) # <<>> /\ Last(Tail(sock)) = "fin"
    BY <1>5, <1>9
  <2>11. Flow'
    BY <1>3, <1>5, <1>6, <1>9, <2>0, <2>1, <2>5, <2>6, <2>7, <2>9, <2>10, TextFacts DEF Flow
  <2>12. Script' /\ Told' BY <2>0 DEF Carried, Script, Told
  <2> QED BY <2>4, <2>11, <2>12 DEF Carried
\* The greeting of a SOCKS5 client.
<1>10. CASE /\ state = "socks5_in_greeting" /\ sock # <<>> /\ sock[1] \in {"methods", "nomethod"}
            /\ sock' = Tail(sock) /\ Prepare(sock[1])
            /\ UNCHANGED <<pending, timers>> /\ Untouched
  <2>0. UNCHANGED <<conf, told, upgot, pending>> BY <1>10 DEF Untouched
  <2>1. told = sock BY <1>3, <1>4, <1>10, RestEnds
  <2>2. conf.script[1] \in {"methods", "nomethod"}
    <3>1. 1 \in 1 .. Len(told) BY <1>3, <1>10, <2>1
    <3> QED BY <1>10, <2>1, <3>1 DEF Carried, Told
  <2>3. conf.kind = "socks5" BY <1>1, <1>10, <2>2 DEF Carried, Script, Suits
  <2>4. /\ reply' = [what |-> sock[1], sent |-> 0] /\ buf' = <<>> /\ state' = "socks5_in_response"
        /\ pc' = "flush"
    BY <1>10, <2>3 DEF Prepare
  <2>5. Suits' BY <1>10, <2>0, <2>3, <2>4 DEF Carried, Suits, Responses, Local
  <2>6. Phase' = "greeted" BY <1>10, <2>4 DEF Phase, Reading, Dropped
  <2>7. Used("greeted")' = 1 /\ 1 <= Len(told) /\ Rest(told, 1) = Tail(sock)
    BY <1>3, <1>5, <1>10 DEF Used
  <2>8. Line(<<>>, <<>>, <<>>, Tail(sock)) = Tail(sock) BY <1>5, <1>10, LineSocket
  <2>9. Last(sock) = "fin" => Tail(sock) # <<>> /\ Last(Tail(sock)) = "fin" BY <1>5, <1>10
  <2>10. Used(Phase)' = 1 BY <2>6, <2>7
  <2>11. Flow'
    BY <1>3, <1>5, <1>6, <1>10, <2>0, <2>4, <2>6, <2>7, <2>8, <2>9, <2>10, TextFacts DEF Flow
  <2>12. Script' /\ Told' BY <2>0 DEF Carried, Script, Told
  <2> QED BY <2>5, <2>11, <2>12 DEF Carried
\* A request that is refused, and one for a relay of packets.
<1>11. CASE /\ state = "socks5_in_request" /\ sock # <<>> /\ sock[1] \in {"blocked", "udp"}
            /\ sock' = Tail(sock)
            /\ Prepare(IF sock[1] = "udp" THEN "relay" ELSE "fail")
            /\ UNCHANGED <<pending, timers>> /\ Untouched
  <2>0. UNCHANGED <<conf, told, upgot, pending>> BY <1>11 DEF Untouched
  <2>1. conf.kind = "socks5" BY <1>2, <1>11
  <2>2. /\ reply' = [what |-> IF sock[1] = "udp" THEN "relay" ELSE "fail", sent |-> 0]
        /\ buf' = <<>> /\ state' = "socks5_in_response" /\ pc' = "flush"
    BY <1>11, <2>1 DEF Prepare
  <2>3. Suits' BY <1>11, <2>0, <2>1, <2>2 DEF Carried, Suits, Responses, Local
  <2>4. Phase' \in {"past", "none"} BY <1>11, <2>2 DEF Phase, Reading, Dropped
  <2>5. Used("past")' = 2 /\ 2 <= Len(told) /\ Rest(told, 2) = Tail(sock)
    BY <1>3, <1>5, <1>11, <2>0, <2>1 DEF Used, Consumed
  <2>6. Line(<<>>, <<>>, <<>>, Tail(sock)) = Tail(sock) BY <1>5, <1>11, LineSocket
  <2>7. Last(sock) = "fin" => Tail(sock) # <<>> /\ Last(Tail(sock)) = "fin" BY <1>5, <1>11
  <2>8. Phase' = "past" => Used(Phase)' = 2 BY <2>5
  <2>9. Flow'
    BY <1>3, <1>5, <1>6, <1>11, <2>0, <2>2, <2>4, <2>5, <2>6, <2>7, <2>8, TextFacts DEF Flow
  <2>10. Script' /\ Told' BY <2>0 DEF Carried, Script, Told
  <2> QED BY <2>3, <2>9, <2>10 DEF Carried
\* A request for a connection.
<1>12. CASE /\ state = "socks5_in_request" /\ sock # <<>> /\ sock[1] = "connect"
            /\ sock' = Tail(sock) /\ pc' = "start_tcp"
            /\ UNCHANGED <<state, buf, pending, reply, timers>> /\ Untouched
  <2>0. UNCHANGED <<conf, told, upgot, pending, state, buf, reply>> BY <1>12 DEF Untouched
  <2>1. conf.kind = "socks5" BY <1>2, <1>12
  <2>2. Suits' BY <2>0 DEF Carried, Suits, Responses, Local
  <2>3. Phase' = "past" BY <1>1, <1>12, <2>0, <2>1 DEF Phase, Reading, Dropped
  <2>4. Used("past")' = 2 /\ 2 <= Len(told) /\ Rest(told, 2) = Tail(sock)
    BY <1>3, <1>5, <1>12, <2>0, <2>1 DEF Used, Consumed
  <2>5. Line(<<>>, <<>>, <<>>, Tail(sock)) = Tail(sock) BY <1>5, <1>12, LineSocket
  <2>6. Last(sock) = "fin" => Tail(sock) # <<>> /\ Last(Tail(sock)) = "fin" BY <1>5, <1>12
  <2>7. Used(Phase)' = 2 BY <2>3, <2>4
  <2>8. Flow'
    BY <1>1, <1>3, <1>5, <1>6, <1>12, <2>0, <2>3, <2>4, <2>5, <2>6, <2>7, TextFacts DEF Flow
  <2>9. Script' /\ Told' BY <2>0 DEF Carried, Script, Told
  <2> QED BY <2>2, <2>8, <2>9 DEF Carried
<1>13. ASSUME Ended(sock) /\ sock' = <<>> /\ UNCHANGED <<told, buf, got>> /\ End PROVE Carried'
  BY <1>8, <1>13, TextFacts
<1>14. ASSUME state = "socks5_in_request" /\ sock # <<>> /\ Refused(sock[1])
              /\ sock' = Tail(sock) /\ UNCHANGED <<told, buf, got>> /\ End
       PROVE  Carried'
  BY <1>5, <1>8, <1>14
<1> QED BY <1>7, <1>9, <1>10, <1>11, <1>12, <1>13, <1>14 DEF ProcessSocks5In

LEMMA CarriedProcessHttpIn == ASSUME Control, Carried, ProcessHttpIn PROVE Carried'
<1> DEFINE all  == buf \o Bytes(sock)
           rest == Rest(sock, Count(sock))
<1>1. /\ pc = "http_in" /\ state = "http_in_request" /\ told' = told /\ reply.what = "nothing"
      /\ sock' = rest
  BY DEF ProcessHttpIn, Untouched, Control, Simple, Where, Over, Asking, Upstream, Answers,
     Attempts, States, PCs, Says, Inputs, Responses, Before, Local
<1>2. Phase = "opening" /\ conf.kind = "http" /\ state # "ended"
  BY <1>1 DEF Phase, Reading, Dropped, Carried, Suits
<1>3. /\ told \in Texts /\ sock \in Texts /\ buf \in Texts /\ pending = <<>> /\ upgot = <<>>
      /\ Used(Phase) = 0 /\ Rest(told, 0) = Line(<<>>, <<>>, buf, sock)
  BY <1>1, <1>2 DEF Carried, Flow, Told, Used
<1>4. told = buf \o sock
  <2>1. Rest(told, 0) = told BY <1>3, RestEnds
  <2>2. Line(<<>>, <<>>, buf, sock) = buf \o sock BY <1>3, LineRead
  <2> QED BY <1>3, <2>1, <2>2
<1>5. Count(sock) \in 0 .. Count(sock) /\ Count(sock) \in 0 .. Len(sock)
  <2>1. Count(sock) \in Nat /\ Count(sock) <= Len(sock) /\ Len(sock) \in Nat
    BY <1>3, CountFacts, TextFacts
  <2> QED BY <2>1
<1>6. Bytes(sock) \in Texts /\ rest \in Texts /\ Bytes(sock) \o rest = sock
  BY <1>3, <1>5, RestOf DEF Bytes
<1>7. all \in Texts BY <1>3, <1>6, TextFacts
<1>8. told = all \o rest
  <2>1. PICK r \in Texts : r = rest BY <1>6
  <2>2. PICK b \in Texts : b = Bytes(sock) BY <1>6
  <2>3. (buf \o b) \o r = buf \o (b \o r) BY <1>3, TextFacts
  <2> QED BY <1>4, <1>6, <2>1, <2>2, <2>3
<1>9. told # <<>> /\ Last(told) = "fin" => rest # <<>> /\ Last(rest) = "fin"
  <2>1. told # <<>> /\ Last(told) = "fin" => sock # <<>> /\ Last(sock) = "fin"
    BY <1>2 DEF Carried, Flow
  <2> QED BY <1>3, <1>5, <2>1, FinStays
<1> HIDE DEF all, rest
\* The header is not complete.
<1>10. CASE /\ Len(all) < 2 /\ rest = <<>> /\ buf' = all /\ sock' = rest /\ Sleep
            /\ UNCHANGED <<conf, state, told, got, pending, reply, outbound, upq, upgot, history>>
  <2>1. Suits' BY <1>10 DEF Carried, Suits, Responses, Local
  <2>2. Phase' = "opening" /\ pc' = "wait" BY <1>1, <1>10 DEF Phase, Reading, Dropped, Sleep
  <2>3. Line(<<>>, <<>>, buf', sock') = told BY <1>6, <1>7, <1>8, <1>10, LineRead
  <2>4. Used(Phase)' = 0 /\ Rest(told, 0) = told /\ 0 <= Len(told)
    BY <1>3, <2>2, RestEnds, TextFacts DEF Used
  <2>5. Flow' BY <1>1, <1>2, <1>3, <1>6, <1>7, <1>9, <1>10, <2>2, <2>3, <2>4 DEF Flow
  <2>6. Script' /\ Told' BY <1>10 DEF Carried, Script, Told
  <2> QED BY <2>1, <2>5, <2>6 DEF Carried
\* It is not one.
<1>11. ASSUME End, UNCHANGED <<told, buf>>, sock' = rest PROVE Carried'
  BY <1>3, <1>6, <1>11, CarriedEnds
\* The request is refused.
<1>12. CASE /\ Prepare("fail") /\ UNCHANGED <<conf, told, upgot>> /\ sock' = rest
            /\ pending' \in {pending, LeftOver(all)} /\ Len(all) >= 2
  <2>1. 2 \in 0 .. Len(all) BY <1>7, <1>12, TextFacts
  <2>2. LeftOver(all) \in Texts BY <1>7, <2>1, RestOf DEF LeftOver
  <2>3. pending' \in Texts /\ upgot' \in Texts BY <1>3, <1>12, <2>2, TextFacts
  <2>4. /\ reply' = [what |-> "fail", sent |-> 0] /\ buf' = <<>> /\ pc' = "flush"
        /\ state' = IF conf.kind = "http" THEN "http_in_response" ELSE "socks5_in_response"
    BY <1>12 DEF Prepare
  <2> QED BY <1>2, <1>6, <1>9, <1>12, <2>3, <2>4, CarriedRefused DEF Local
\* It is followed, and what came with it is kept.
<1>13. CASE /\ Len(all) >= 2 /\ sock' = rest /\ pending' = LeftOver(all)
            /\ buf' = <<>> /\ pc' = "start_tcp" /\ UNCHANGED <<state, reply, timers>> /\ Untouched
  <2>0. UNCHANGED <<conf, told, upgot, state, reply>> BY <1>13 DEF Untouched
  <2>1. Suits' BY <2>0 DEF Carried, Suits, Responses, Local
  <2>2. Phase' \in {"past", "none"} BY <1>1, <1>13, <2>0 DEF Phase, Reading, Dropped
  <2>3. 2 \in 0 .. Len(all) /\ Len(all) \in Nat BY <1>7, <1>13, TextFacts
  <2>4. LeftOver(all) \in Texts BY <1>7, <2>3, RestOf DEF LeftOver
  <2>5. Rest(told, 2) = LeftOver(all) \o rest BY <1>6, <1>7, <1>8, <2>3, RestOfJoin DEF LeftOver
  <2>6. Line(<<>>, LeftOver(all), <<>>, rest) = LeftOver(all) \o rest BY <1>6, <2>4, LineWaits
  <2>7. 2 <= Len(told)
    <3>1. Len(all \o rest) = Len(all) + Len(rest) /\ Len(rest) \in Nat BY <1>6, <1>7, TextFacts
    <3>2. Len(all) + Len(rest) >= 2 BY <2>3, <3>1, <1>13
    <3> QED BY <1>8, <3>1, <3>2
  <2>8. Phase' = "past" => Used(Phase)' = 2 BY <1>2, <2>0 DEF Used, Consumed
  <2>9. Flow'
    BY <1>1, <1>2, <1>3, <1>6, <1>9, <1>13, <2>0, <2>2, <2>4, <2>5, <2>6, <2>7, <2>8, TextFacts
       DEF Flow
  <2>10. Script' /\ Told' BY <2>0 DEF Carried, Script, Told
  <2> QED BY <2>1, <2>9, <2>10 DEF Carried
<1>14. \/ /\ Len(all) < 2 /\ rest = <<>> /\ buf' = all /\ sock' = rest /\ Sleep
          /\ UNCHANGED <<conf, state, told, got, pending, reply, outbound, upq, upgot, history>>
       \/ End /\ UNCHANGED <<told, buf>> /\ sock' = rest
       \/ /\ Prepare("fail") /\ UNCHANGED <<conf, told, upgot>> /\ sock' = rest
          /\ pending' \in {pending, LeftOver(all)} /\ Len(all) >= 2
       \/ /\ Len(all) >= 2 /\ sock' = rest /\ pending' = LeftOver(all)
          /\ buf' = <<>> /\ pc' = "start_tcp" /\ UNCHANGED <<state, reply, timers>> /\ Untouched
  BY DEF ProcessHttpIn, Untouched, all, rest
<1> QED BY <1>10, <1>11, <1>12, <1>13, <1>14

LEMMA CarriedProcessPrefix == ASSUME Control, Carried, ProcessPrefix PROVE Carried'
<1> DEFINE n    == IF Count(sock) < 2 - Len(buf) THEN Count(sock) ELSE 2 - Len(buf)
           read == SubSeq(sock, 1, n)
           all  == buf \o read
           rest == Rest(sock, n)
<1>1. /\ pc = "prefix" /\ state = "prefix" /\ told' = told /\ reply.what = "nothing"
      /\ sock' = rest
  BY DEF ProcessPrefix, Control, Simple, Where, Over, Asking, Upstream, Answers, Attempts,
     States, PCs, Says, Inputs, Responses, Before, Local
<1>2. Phase = "opening" /\ conf.kind = "trojan" /\ state # "ended"
  BY <1>1 DEF Phase, Reading, Dropped, Carried, Suits
<1>3. /\ told \in Texts /\ sock \in Texts /\ buf \in Texts /\ pending = <<>> /\ upgot = <<>>
      /\ Used(Phase) = 0 /\ Rest(told, 0) = Line(<<>>, <<>>, buf, sock) /\ Len(buf) < 2
      /\ Len(buf) \in Nat
  BY <1>1, <1>2, TextFacts DEF Carried, Flow, Told, Used
<1>4. told = buf \o sock
  <2>1. Rest(told, 0) = told BY <1>3, RestEnds
  <2>2. Line(<<>>, <<>>, buf, sock) = buf \o sock BY <1>3, LineRead
  <2> QED BY <1>3, <2>1, <2>2
<1>5. n \in 0 .. Count(sock) /\ n \in 0 .. Len(sock)
  <2>1. Count(sock) \in Nat /\ Count(sock) <= Len(sock) /\ Len(sock) \in Nat
    BY <1>3, CountFacts, TextFacts
  <2> QED BY <1>3, <2>1
<1>6. read \in Texts /\ rest \in Texts /\ read \o rest = sock BY <1>3, <1>5, RestOf
<1>7. all \in Texts BY <1>3, <1>6, TextFacts
<1>8. told = all \o rest
  <2>1. PICK r \in Texts : r = rest BY <1>6
  <2>2. PICK b \in Texts : b = read BY <1>6
  <2>3. (buf \o b) \o r = buf \o (b \o r) BY <1>3, TextFacts
  <2> QED BY <1>4, <1>6, <2>1, <2>2, <2>3
<1>9. told # <<>> /\ Last(told) = "fin" => rest # <<>> /\ Last(rest) = "fin"
  <2>1. told # <<>> /\ Last(told) = "fin" => sock # <<>> /\ Last(sock) = "fin"
    BY <1>2 DEF Carried, Flow
  <2> QED BY <1>3, <1>5, <2>1, FinStays
<1>10. \A i \in 1 .. Len(all) : all[i] = told[i] /\ i \in 1 .. Len(told)
  <2>1. PICK a \in Texts, r \in Texts : a = all /\ r = rest BY <1>6, <1>7
  <2>2. Len(a) \in Nat /\ Len(r) \in Nat /\ Len(a \o r) = Len(a) + Len(r) BY <2>1, TextFacts
  <2>3. ASSUME NEW i \in 1 .. Len(a) PROVE a[i] = (a \o r)[i] /\ i \in 1 .. Len(a \o r)
    <3>1. i \in 1 .. Len(a) + Len(r) /\ i <= Len(a) BY <2>2
    <3>2. (a \o r)[i] = IF i <= Len(a) THEN a[i] ELSE r[i - Len(a)] BY <3>1, JoinedPieces
    <3> QED BY <2>2, <3>1, <3>2
  <2> QED BY <1>8, <2>1, <2>3
<1> HIDE DEF read, all, rest, n
<1>11. Len(all) \in Nat /\ (all = <<>> <=> Len(all) = 0) /\ Len(told) \in Nat
  BY <1>3, <1>7, TextFacts
<1>12. /\ all # <<>> => all[1] = told[1] /\ 1 \in 1 .. Len(told)
       /\ Len(all) = 2 => all[2] = told[2] /\ 2 \in 1 .. Len(told)
  <2>1. all # <<>> => 1 \in 1 .. Len(all) BY <1>11
  <2>2. Len(all) = 2 => 2 \in 1 .. Len(all) OBVIOUS
  <2> QED BY <1>10, <2>1, <2>2
<1>13. \A x \in {"lf", "wrong", "right"} : \A i \in 1 .. Len(told) : told[i] = x => conf.script[i] = x
  BY DEF Carried, Told
\* The prefix is not one: all of it goes to the fallback, or the page is sent.
<1>14. CASE /\ all # <<>> /\ (all[1] = "lf" \/ (Len(all) = 2 /\ all[2] = "wrong"))
            /\ StartFallback(read, all) /\ buf' = <<>>
            /\ UNCHANGED <<conf, query, up, handler, step, upq, upgot, history>>
  <2>1. conf.script[2] = "wrong" BY <1>2, <1>12, <1>13, <1>14 DEF Carried, Script
  <2>2. CASE conf.fallback
    <3>1. pending' = all /\ pc' = "connect" /\ UNCHANGED <<state, reply>>
      BY <1>14, <2>2 DEF StartFallback, Passed
    <3>2. Suits' BY <1>14, <3>1 DEF Carried, Suits, Responses, Local
    <3>3. Phase' = "past" BY <1>1, <1>2, <1>14, <3>1 DEF Phase, Reading, Dropped
    <3>4. Used("past")' = 0 BY <1>2, <1>14, <2>1 DEF Used, Consumed
    <3>5. Used(Phase)' = 0 BY <3>3, <3>4
    <3>6. Line(<<>>, all, <<>>, rest) = told BY <1>6, <1>7, <1>8, LineWaits
    <3>7. Rest(told, 0) = told /\ 0 <= Len(told) BY <1>3, <1>11, RestEnds
    <3>8. Flow'
      BY <1>1, <1>2, <1>3, <1>6, <1>7, <1>9, <1>14, <3>1, <3>3, <3>5, <3>6, <3>7, TextFacts DEF
         Flow
    <3>9. Script' /\ Told' BY <1>1, <1>14 DEF Carried, Script, Told
    <3> QED BY <3>2, <3>8, <3>9 DEF Carried
  <2>3. CASE ~conf.fallback
    <3>1. /\ state' = "default_fallback" /\ reply' = [what |-> "page", sent |-> 0] /\ pc' = "flush"
          /\ pending' = pending
      BY <1>14, <2>3 DEF StartFallback
    <3>2. Suits' BY <1>2, <1>14, <3>1 DEF Carried, Suits, Responses, Local
    <3>3. Phase' = "none" BY <3>1 DEF Phase, Reading, Dropped
    <3>4. Flow' BY <1>1, <1>3, <1>6, <1>9, <1>14, <3>1, <3>3, TextFacts DEF Flow
    <3>5. Script' /\ Told' BY <1>1, <1>14 DEF Carried, Script, Told
    <3> QED BY <3>2, <3>4, <3>5 DEF Carried
  <2> QED BY <2>2, <2>3
\* The key is right.
<1>15. CASE /\ all = <<"key", "right">> /\ state' = "request" /\ pc' = "request" /\ buf' = <<>>
            /\ UNCHANGED <<conf, pending, reply, outbound, upq, upgot, ev, timers, history>>
  <2>1. Len(all) = 2 /\ all[2] = "right" BY <1>15
  <2>2. conf.script[2] = "right" BY <1>12, <1>13, <2>1
  <2>3. Suits' BY <1>2, <1>15 DEF Carried, Suits, Responses, Local
  <2>4. Phase' = "trojan" BY <1>15 DEF Phase, Reading, Dropped
  <2>5. Used(Phase)' = 2 BY <2>4 DEF Used
  <2>6. 2 <= Len(told) BY <1>11, <1>12, <2>1
  <2>7. Rest(told, 2) = rest
    <3>1. Rest(all \o rest, Len(all)) = Rest(all, Len(all)) \o rest
      <4>1. Len(all) \in 0 .. Len(all) BY <1>11
      <4> QED BY <1>6, <1>7, <4>1, RestOfJoin
    <3>2. Rest(all, Len(all)) = <<>> BY <1>7, RestEnds
    <3>3. <<>> \o rest = rest BY <1>6, TextFacts
    <3> QED BY <1>8, <2>1, <3>1, <3>2, <3>3
  <2>8. Line(<<>>, <<>>, <<>>, rest) = rest BY <1>6, LineSocket
  <2>9. Flow'
    BY <1>1, <1>2, <1>3, <1>6, <1>9, <1>15, <2>2, <2>4, <2>5, <2>6, <2>7, <2>8, TextFacts DEF
       Flow
  <2>10. Script' /\ Told' BY <1>1, <1>15 DEF Carried, Script, Told
  <2> QED BY <2>3, <2>9, <2>10 DEF Carried
\* More is needed.
<1>16. CASE /\ Len(all) < 2 /\ buf' = all /\ Sleep
            /\ UNCHANGED <<conf, state, pending, reply, outbound, upq, upgot, history>>
  <2>1. Suits' BY <1>16 DEF Carried, Suits, Responses, Local
  <2>2. Phase' = "opening" /\ pc' = "wait" BY <1>1, <1>16 DEF Phase, Reading, Dropped, Sleep
  <2>3. Line(<<>>, <<>>, all, rest) = told BY <1>6, <1>7, <1>8, LineRead
  <2>4. Used(Phase)' = 0 /\ Rest(told, 0) = told /\ 0 <= Len(told)
    BY <1>3, <1>11, <2>2, RestEnds DEF Used
  <2>5. Flow'
    <3>1. /\ buf' = all /\ sock' = rest /\ pending' = <<>> /\ upgot' = <<>> /\ told' = told
          /\ state' = state
      BY <1>1, <1>3, <1>16
    <3>2. Len(buf') < 2 BY <1>16, <3>1
    <3>3. Line(upgot, pending, buf, sock)' = told BY <2>3, <3>1 DEF Line
    <3>4. (told # <<>> /\ Last(told) = "fin" => sock # <<>> /\ Last(sock) = "fin")' BY <1>9, <3>1
    <3>5. buf' \in Texts /\ sock' \in Texts /\ pending' \in Texts /\ upgot' \in Texts
      BY <1>6, <1>7, <3>1, TextFacts
    <3>6. Used(Phase)' <= Len(told') /\ Rest(told, Used(Phase))' = told BY <2>4, <3>1
    <3>7. state' = "prefix" BY <1>1, <3>1
    <3> HIDE DEF all, rest, read, n
    <3> QED BY <2>2, <3>1, <3>2, <3>3, <3>4, <3>5, <3>6, <3>7 DEF Flow
  <2>6. Script' /\ Told' BY <1>1, <1>16 DEF Carried, Script, Told
  <2> QED BY <2>1, <2>5, <2>6 DEF Carried
<1>17. CASE End /\ buf' = all
  BY <1>1, <1>6, <1>7, <1>17, CarriedEnds
<1>18. \/ /\ all # <<>> /\ (all[1] = "lf" \/ (Len(all) = 2 /\ all[2] = "wrong"))
          /\ StartFallback(read, all) /\ buf' = <<>>
          /\ UNCHANGED <<conf, query, up, handler, step, upq, upgot, history>>
       \/ /\ all = <<"key", "right">> /\ state' = "request" /\ pc' = "request" /\ buf' = <<>>
          /\ UNCHANGED <<conf, pending, reply, outbound, upq, upgot, ev, timers, history>>
       \/ /\ Len(all) < 2 /\ buf' = all /\ Sleep
          /\ UNCHANGED <<conf, state, pending, reply, outbound, upq, upgot, history>>
       \/ End /\ buf' = all
  BY DEF ProcessPrefix, all, read, rest, n
<1> QED BY <1>14, <1>15, <1>16, <1>17, <1>18

LEMMA CarriedProcessProxy == ASSUME Control, Carried, ProcessProxy PROVE Carried'
<1>1. /\ pc = "proxy" /\ state = "proxy" /\ reply.what = "nothing"
      /\ upgot' = (upgot \o pending) \o Bytes(sock) /\ pending' = <<>>
      /\ sock' = Rest(sock, Count(sock))
      /\ UNCHANGED <<conf, told, buf, reply>>
      /\ pc' = "wait" /\ state' \in {state, "ended"}
  BY DEF ProcessProxy, Finalize, Control, Simple, Where, Over, Asking, Upstream, Answers,
     Attempts, States, PCs, Says, Inputs, Responses, Before, Local
<1>2. /\ told \in Texts /\ sock \in Texts /\ buf \in Texts /\ pending \in Texts /\ upgot \in Texts
  BY DEF Carried, Told, Flow
<1>3. Count(sock) \in 0 .. Count(sock) /\ Count(sock) \in 0 .. Len(sock)
  <2>1. Count(sock) \in Nat /\ Count(sock) <= Len(sock) /\ Len(sock) \in Nat
    BY <1>2, CountFacts, TextFacts
  <2> QED BY <2>1
<1>4. PICK b \in Texts, r \in Texts : b = Bytes(sock) /\ r = Rest(sock, Count(sock)) /\ b \o r = sock
  <2>1. PICK s \in Texts : s = sock BY <1>2
  <2>2. PICK m \in 0 .. Len(s) : m = Count(sock) BY <1>3, <2>1
  <2>3. SubSeq(s, 1, m) \in Texts /\ Rest(s, m) \in Texts /\ SubSeq(s, 1, m) \o Rest(s, m) = s
    BY RestOf
  <2>4. Bytes(sock) = SubSeq(s, 1, m) /\ Rest(sock, Count(sock)) = Rest(s, m)
    BY <2>1, <2>2 DEF Bytes
  <2> QED BY <2>1, <2>3, <2>4
<1>5. PICK c \in Texts : c = upgot \o pending BY <1>2, TextFacts
<1>6. c \o b \in Texts /\ (c \o b) \o <<>> = c \o b /\ (c \o b) \o r = c \o (b \o r)
  <2>1. c \o b \in Texts BY TextFacts
  <2> QED BY <2>1, TextFacts
<1>7. Suits' BY <1>1 DEF Carried, Suits, Responses, Local
<1>8. Script' /\ Told' BY <1>1 DEF Carried, Script, Told
<1>9. Phase' \in {Phase, "none"} /\ Phase \in {"past", "none"} BY <1>1 DEF Phase, Reading, Dropped
<1>10. Used(Phase)' = Used(Phase) \/ Phase' = "none" BY <1>1, <1>9 DEF Used, Consumed
<1>11. Phase = "past" => Line(upgot', <<>>, <<>>, r) = Line(upgot, pending, buf, sock)
  <2> SUFFICES ASSUME Phase = "past"
               PROVE  Line(upgot', <<>>, <<>>, r) = Line(upgot, pending, buf, sock)
    OBVIOUS
  <2>1. buf = <<>> BY DEF Carried, Flow
  <2>2. PICK s \in Texts : s = sock /\ b \o r = s BY <1>2, <1>4
  <2>3. Line(upgot, pending, <<>>, s) = (upgot \o pending) \o s
    <3>1. PICK x \in Texts, y \in Texts : x = upgot /\ y = pending BY <1>2, Zenon
    <3>2. (x \o y) \o <<>> = x \o y
      <4>1. PICK z \in Texts : z = x \o y BY TextFacts
      <4>2. z \o <<>> = z BY TextFacts, Zenon
      <4> QED BY <4>1, <4>2, Zenon
    <3> QED BY <3>1, <3>2, Zenon DEF Line
  <2>4. PICK d \in Texts : d = upgot' /\ d = c \o b
    <3>1. upgot' = c \o b BY <1>1, <1>4, <1>5
    <3> QED BY <1>6, <3>1, Zenon
  <2>5. Line(d, <<>>, <<>>, r) = (d \o <<>>) \o r
    <3>1. PICK z \in Texts : z = <<>> BY TextFacts, Zenon
    <3>2. Line(d, z, <<>>, r) = (d \o z) \o r BY LinePast, Zenon
    <3> QED BY <3>1, <3>2, Zenon
  <2>6. d \o <<>> = d BY TextFacts
  <2> QED BY <1>5, <1>6, <2>1, <2>2, <2>3, <2>4, <2>5, <2>6
<1>12. told # <<>> /\ Last(told) = "fin" => r # <<>> /\ Last(r) = "fin"
  <2>1. told # <<>> /\ Last(told) = "fin" => sock # <<>> /\ Last(sock) = "fin"
    BY <1>1 DEF Carried, Flow
  <2> QED BY <1>2, <1>3, <1>4, <2>1, FinStays
<1>13. Flow'
  <2>1. upgot' \in Texts BY <1>1, <1>4, <1>5, <1>6
  <2>2. buf \in Texts /\ (Phase = "past" => buf = <<>>) BY DEF Carried, Flow
  <2>3. Phase' # "none" => Phase = "past" /\ Phase' = "past" BY <1>9
  <2>4. Phase' # "none" => Used(Phase)' <= Len(told) /\ Rest(told, Used(Phase)') = Line(upgot', <<>>, <<>>, r)
    BY <1>10, <1>11, <2>3 DEF Carried, Flow
  <2>5. Line(upgot, pending, buf, sock)' = Line(upgot', <<>>, buf, r) BY <1>1, <1>4 DEF Line
  <2> QED BY <1>1, <1>4, <1>12, <2>1, <2>2, <2>3, <2>4, <2>5, TextFacts DEF Flow
<1> QED BY <1>7, <1>8, <1>13 DEF Carried

LEMMA CarriedStep == Control /\ Carried /\ [Next]_vars => Carried'
<1> SUFFICES ASSUME Control, Carried, [Next]_vars PROVE Carried' OBVIOUS
<1>1. CASE ProcessPrefix BY <1>1, CarriedProcessPrefix
<1>2. CASE ProcessRequest BY <1>2, CarriedProcessRequest
<1>3. CASE ProcessSocks5In BY <1>3, CarriedProcessSocks5In
<1>4. CASE ProcessHttpIn BY <1>4, CarriedProcessHttpIn
<1>5. CASE StartTcp BY <1>5, CarriedStartTcp
<1>6. CASE Resolve BY <1>6, CarriedResolve
<1>7. CASE QueryDone BY <1>7, CarriedQueryDone
<1>8. CASE Connect BY <1>8, CarriedConnect
<1>9. CASE Socks5Connect BY <1>9, CarriedSocks5Connect
<1>10. CASE SynEnds BY <1>10, CarriedSynEnds
<1>11. CASE TestConnect BY <1>11, CarriedTestConnect
<1>12. CASE ProcessSocks5 BY <1>12, CarriedProcessSocks5
<1>13. CASE Success BY <1>13, CarriedSuccess
<1>14. CASE Failure BY <1>14, CarriedFailure
<1>15. CASE Flush BY <1>15, CarriedFlush
<1>16. CASE InitProxy BY <1>16, CarriedInitProxy
<1>17. CASE ProcessProxy BY <1>17, CarriedProcessProxy
<1>18. CASE ReadClient
  BY <1>18, ReadClientCases, CarriedReadClientCalls, CarriedReadClientEnds
<1>19. CASE PeerEvent BY <1>19, CarriedPeerEvent
<1>20. CASE Say BY <1>20, CarriedSay
<1>21. CASE Writable BY <1>21, CarriedWritable
<1>22. CASE UpEvent BY <1>22, CarriedUpEvent
<1>23. CASE \E t \in {"cread", "cwrite", "pread", "pwrite"} : Timeout(t) BY <1>23, CarriedTimeout
<1>24. CASE UNCHANGED vars
  <2>1. UNCHANGED <<conf, told, sock, buf, pending, upgot, state, reply, pc>>
    BY <1>24 DEF vars, input, outbound
  <2>2. Suits' BY <2>1 DEF Carried, Suits, Responses, Local
  <2>3. Phase' = Phase BY <2>1 DEF Phase, Reading, Dropped
  <2> QED BY <2>1, <2>2, <2>3, CarriedKept
<1> QED
  BY <1>1, <1>2, <1>3, <1>4, <1>5, <1>6, <1>7, <1>8, <1>9, <1>10, <1>11, <1>12, <1>13, <1>14,
     <1>15, <1>16, <1>17, <1>18, <1>19, <1>20, <1>21, <1>22, <1>23, <1>24 DEF Next, Runs

LEMMA CarriedAlways == Spec => [](Control /\ Carried)
<1>1. Init => Control /\ Carried BY ControlInit, CarriedInit
<1>2. (Control /\ Carried) /\ [Next]_vars => (Control /\ Carried)' BY ControlStep, CarriedStep
<1> QED BY <1>1, <1>2, PTL DEF Spec

----------------------------------------------------------------------------
(* The tunnel.                                                             *)

\* Of what is said no more than the end is left when its bytes are taken.
LEMMA BytesTaken ==
  ASSUME NEW s \in Texts
  PROVE  /\ Bytes(s) \in Texts /\ Len(Bytes(s)) = Count(s) /\ Bytes(s) \o Rest(s, Count(s)) = s
         /\ Rest(s, Count(s)) \in Texts /\ Len(Rest(s, Count(s))) = Len(s) - Count(s)
         /\ Bytes(Rest(s, Count(s))) = <<>>
         /\ Rest(s, Count(s)) = <<>> \/ Ended(Rest(s, Count(s)))
<1>0. Len(s) \in Nat /\ (s = <<>> <=> Len(s) = 0) BY TextFacts
<1>1. Count(s) \in 0 .. Len(s) BY <1>0, CountFacts
<1>2. PICK n \in 0 .. Len(s) : n = Count(s) BY <1>1
<1>3. /\ SubSeq(s, 1, n) \in Texts /\ Len(SubSeq(s, 1, n)) = n /\ SubSeq(s, 1, n) \o Rest(s, n) = s
      /\ Rest(s, n) \in Texts /\ Len(Rest(s, n)) = Len(s) - n
  BY RestOf
<1>4. PICK r \in Texts : r = Rest(s, n) /\ Len(r) = Len(s) - n BY <1>3
<1>5. (r = <<>> <=> Len(r) = 0) /\ Len(r) \in Nat BY TextFacts
<1>6. r # <<>> => Last(r) = Last(s) /\ s # <<>> BY <1>4, RestEnd
<1>7. r = <<>> \/ (Len(r) = 1 /\ Last(r) = "fin") BY <1>0, <1>2, <1>4, <1>5, <1>6, CountFacts
<1>8. Count(r) = 0
  <2>1. CASE r = <<>>
    <3>1. Count(r) = Len(r) BY <2>1, CountFacts
    <3> QED BY <1>5, <2>1, <3>1
  <2>2. CASE Len(r) = 1 /\ Last(r) = "fin"
    <3>1. r # <<>> BY <1>5, <2>2
    <3>2. Count(r) = Len(r) - 1 BY <2>2, <3>1, CountFacts
    <3> QED BY <2>2, <3>2
  <2> QED BY <1>7, <2>1, <2>2
<1>9. Bytes(r) = <<>>
  <2>1. PICK m \in 0 .. Len(r) : m = 0 BY <1>5
  <2>2. SubSeq(r, 1, m) \in Texts /\ Len(SubSeq(r, 1, m)) = 0 BY <2>1, RestOf
  <2>3. SubSeq(r, 1, m) = <<>> BY <2>2, TextFacts
  <2> QED BY <1>8, <2>1, <2>3 DEF Bytes
<1>10. r = <<>> \/ Ended(r)
  <2> SUFFICES ASSUME Len(r) = 1, Last(r) = "fin" PROVE Ended(r) BY <1>7
  <2>1. <<"fin">> \in Texts /\ Len(<<"fin">>) = 1 BY DEF Texts, Words
  <2>2. r[1] = "fin" BY DEF Last
  <2>3. \A i \in 1 .. Len(r) : r[i] = <<"fin">>[i] BY <2>2
  <2>4. r = <<"fin">> BY <2>1, <2>3, TextEqual
  <2> QED BY <2>4 DEF Ended
<1> QED BY <1>2, <1>3, <1>4, <1>9, <1>10 DEF Bytes

\* While the worker waits, an event is on its way for what an inbound or the
\* tunnel could go on with.
Awake ==
  pc = "wait" =>
    /\ state \in Inputs /\ sock # <<>> => "client" \in ev
    /\ state = "proxy" => /\ pending = <<>>
                          /\ Bytes(sock) # <<>> => "client" \in ev
                          /\ upq # <<>> => "peer" \in ev

LEMMA AwakeProcessPrefix == ASSUME Control, Carried, Awake, ProcessPrefix PROVE Awake'
<1> DEFINE n    == IF Count(sock) < 2 - Len(buf) THEN Count(sock) ELSE 2 - Len(buf)
           read == SubSeq(sock, 1, n)
           all  == buf \o read
           rest == Rest(sock, n)
<1>1. pc = "prefix" /\ state = "prefix" /\ reply.what = "nothing" /\ sock' = rest
  BY DEF ProcessPrefix, Control, Simple, Where, Over, Asking, Upstream, Answers, Attempts,
     States, PCs, Says, Inputs, Responses, Before, Local
<1>2. Phase = "opening" BY <1>1 DEF Phase, Reading, Dropped
<1>3. sock \in Texts /\ buf \in Texts /\ Len(buf) < 2 /\ Len(buf) \in Nat
  BY <1>1, <1>2, TextFacts DEF Carried, Flow
<1>4. CASE Len(all) < 2 /\ ~Ended(rest)
  <2>1. Count(sock) \in Nat /\ Count(sock) <= Len(sock) /\ Len(sock) \in Nat
    BY <1>3, CountFacts, TextFacts
  <2>9. PICK s \in Texts : s = sock BY <1>3
  <2>10. PICK k \in 0 .. Len(s) : k = n BY <1>3, <2>1, <2>9
  <2>3. SubSeq(s, 1, k) \in Texts /\ Len(SubSeq(s, 1, k)) = k BY RestOf
  <2>4. PICK b \in Texts, r \in Texts : b = buf /\ r = read /\ Len(r) = k BY <1>3, <2>9, <2>10, <2>3
  <2>5. Len(all) = Len(buf) + k BY <2>4, TextFacts
  <2>6. n = Count(sock) BY <1>3, <1>4, <2>1, <2>10, <2>5
  <2>7. rest = <<>> \/ Ended(rest) BY <1>3, <2>6, BytesTaken
  <2>8. sock' = <<>> BY <1>1, <1>4, <2>7
  <2>2. state' # "proxy" \/ pc' # "wait"
    BY <1>1 DEF ProcessPrefix, StartFallback, Sleep, End, Finalize
  <2> QED BY <2>8, <2>2 DEF Awake
<1>5. CASE ~(Len(all) < 2 /\ ~Ended(rest))
  <2>1. pc' # "wait" \/ state' = "ended"
    BY <1>5 DEF ProcessPrefix, StartFallback, Sleep, End, Finalize, all, read, rest, n
  <2> QED BY <2>1 DEF Awake, Inputs
<1> QED BY <1>4, <1>5

LEMMA AwakeProcessRequest == ASSUME Control, Carried, Awake, ProcessRequest PROVE Awake'
<1>1. pc' # "wait" \/ state' \notin Inputs \cup {"proxy"} \/ (sock' = <<>> /\ state' # "proxy")
  BY DEF Awake, Control, Simple, Where, Over, Asking, Upstream, Answers, Attempts, States, PCs,
     Says, Inputs, Responses, Before, Local, ProcessRequest, Accept, Sleep, End, Finalize
<1> QED BY <1>1 DEF Awake

LEMMA AwakeProcessSocks5In == ASSUME Control, Carried, Awake, ProcessSocks5In PROVE Awake'
<1>1. pc' # "wait" \/ state' \notin Inputs \cup {"proxy"} \/ (sock' = <<>> /\ state' # "proxy")
  BY DEF Awake, Control, Simple, Where, Over, Asking, Upstream, Answers, Attempts, States, PCs,
     Says, Inputs, Responses, Before, Local, ProcessSocks5In, Prepare, Sleep, End, Finalize,
     Untouched
<1> QED BY <1>1 DEF Awake

LEMMA AwakeProcessHttpIn == ASSUME Control, Carried, Awake, ProcessHttpIn PROVE Awake'
<1>1. pc = "http_in" /\ state = "http_in_request"
  BY DEF ProcessHttpIn, Control, Simple, Where, Over, Asking, Upstream, Answers, Attempts,
     States, PCs, Says, Inputs, Responses, Before, Local
<1>2. pc' # "wait" \/ state' = "ended" \/ (sock' = <<>> /\ state' = state)
  BY DEF ProcessHttpIn, Prepare, Sleep, End, Finalize, Untouched
<1> QED BY <1>1, <1>2 DEF Awake, Inputs

LEMMA AwakeStartTcp == ASSUME Control, Carried, Awake, StartTcp PROVE Awake'
<1>1. pc' # "wait" \/ state' \notin Inputs \cup {"proxy"} \/ (sock' = <<>> /\ state' # "proxy")
  BY DEF Awake, Control, Simple, Where, Over, Asking, Upstream, Answers, Attempts, States, PCs,
     Says, Inputs, Responses, Before, Local, StartTcp
<1> QED BY <1>1 DEF Awake

LEMMA AwakeResolve == ASSUME Control, Carried, Awake, Resolve PROVE Awake'
<1>1. pc' # "wait" \/ state' \notin Inputs \cup {"proxy"} \/ (sock' = <<>> /\ state' # "proxy")
  BY DEF Awake, Control, Simple, Where, Over, Asking, Upstream, Answers, Attempts, States, PCs,
     Says, Inputs, Responses, Before, Local, Resolve, Resolved
<1> QED BY <1>1 DEF Awake

LEMMA AwakeQueryDone == ASSUME Control, Carried, Awake, QueryDone PROVE Awake'
<1>1. pc' # "wait" \/ state' \notin Inputs \cup {"proxy"} \/ (sock' = <<>> /\ state' # "proxy")
  BY DEF Awake, Control, Simple, Where, Over, Asking, Upstream, Answers, Attempts, States, PCs,
     Says, Inputs, Responses, Before, Local, QueryDone, Resolved
<1> QED BY <1>1 DEF Awake

LEMMA AwakeConnect == ASSUME Control, Carried, Awake, Connect PROVE Awake'
<1>1. pc' # "wait" \/ state' \notin Inputs \cup {"proxy"} \/ (sock' = <<>> /\ state' # "proxy")
  BY DEF Awake, Control, Simple, Where, Over, Asking, Upstream, Answers, Attempts, States, PCs,
     Says, Inputs, Responses, Before, Local, Connect, Next1
<1> QED BY <1>1 DEF Awake

LEMMA AwakeSocks5Connect == ASSUME Control, Carried, Awake, Socks5Connect PROVE Awake'
<1>1. pc' # "wait" \/ state' \notin Inputs \cup {"proxy"} \/ (sock' = <<>> /\ state' # "proxy")
  BY DEF Awake, Control, Simple, Where, Over, Asking, Upstream, Answers, Attempts, States, PCs,
     Says, Inputs, Responses, Before, Local, Socks5Connect, Next1
<1> QED BY <1>1 DEF Awake

LEMMA AwakeSynEnds == ASSUME Control, Carried, Awake, SynEnds PROVE Awake'
<1>1. ev \subseteq ev' /\ UNCHANGED <<state, pc, pending, sock>> /\ (UNCHANGED upq \/ "peer" \in ev')
  BY DEF SynEnds, input, relayed
<1>2. UNCHANGED Bytes(sock) BY <1>1 DEF Bytes, Count
<1> QED BY <1>1, <1>2 DEF Awake

LEMMA AwakeTestConnect == ASSUME Control, Carried, Awake, TestConnect PROVE Awake'
<1>1. pc' # "wait" \/ state' \notin Inputs \cup {"proxy"} \/ (sock' = <<>> /\ state' # "proxy")
  BY DEF Awake, Control, Simple, Where, Over, Asking, Upstream, Answers, Attempts, States, PCs,
     Says, Inputs, Responses, Before, Local, TestConnect, Next1, Hung, input, relayed
<1> QED BY <1>1 DEF Awake

LEMMA AwakeProcessSocks5 == ASSUME Control, Carried, Awake, ProcessSocks5 PROVE Awake'
<1>1. pc' # "wait" \/ state' \notin Inputs \cup {"proxy"} \/ (sock' = <<>> /\ state' # "proxy")
  BY DEF Awake, Control, Simple, Where, Over, Asking, Upstream, Answers, Attempts, States, PCs,
     Says, Inputs, Responses, Before, Local, ProcessSocks5, input, relayed
<1> QED BY <1>1 DEF Awake

LEMMA AwakeSuccess == ASSUME Control, Carried, Awake, Success PROVE Awake'
<1>1. pc' # "wait" \/ state' \notin Inputs \cup {"proxy"} \/ (sock' = <<>> /\ state' # "proxy")
  BY DEF Awake, Control, Simple, Where, Over, Asking, Upstream, Answers, Attempts, States, PCs,
     Says, Inputs, Responses, Before, Local, Success, Prepare
<1> QED BY <1>1 DEF Awake

LEMMA AwakeFailure == ASSUME Control, Carried, Awake, Failure PROVE Awake'
<1>1. pc' # "wait" \/ state' \notin Inputs \cup {"proxy"} \/ (sock' = <<>> /\ state' # "proxy")
  BY DEF Awake, Control, Simple, Where, Over, Asking, Upstream, Answers, Attempts, States, PCs,
     Says, Inputs, Responses, Before, Local, Failure, Prepare, End, Finalize
<1> QED BY <1>1 DEF Awake

LEMMA AwakeFlush == ASSUME Control, Carried, Awake, Flush PROVE Awake'
<1>1. state \in Responses \cup {"default_fallback"}
  BY DEF Flush, Control, Simple, Where, Over, Asking, Upstream, Answers, Attempts, States, PCs,
     Says, Inputs, Responses, Before, Local
<1>2. pc' # "wait" \/ state' \in {state, "ended", "udp"}
  <2>1. PICK n \in 0 .. Parts - reply.sent :
          \/ UNCHANGED state
          \/ End
          \/ AfterReply
    BY DEF Flush
  <2> QED BY <2>1 DEF End, Finalize, AfterReply, Control, Simple, Says, Flush, Sends
<1> QED BY <1>1, <1>2 DEF Awake, Inputs, Responses

LEMMA AwakeInitProxy == ASSUME Control, Carried, Awake, InitProxy PROVE Awake'
<1>1. pc' # "wait" \/ state' \notin Inputs \cup {"proxy"} \/ (sock' = <<>> /\ state' # "proxy")
  BY DEF Awake, Control, Simple, Where, Over, Asking, Upstream, Answers, Attempts, States, PCs,
     Says, Inputs, Responses, Before, Local, InitProxy
<1> QED BY <1>1 DEF Awake

LEMMA AwakeProcessProxy == ASSUME Control, Carried, Awake, ProcessProxy PROVE Awake'
<1>1. pc = "proxy" /\ state = "proxy" /\ pending' = <<>> /\ upq' = <<>> /\ state' \in {"proxy", "ended"}
      /\ sock' = Rest(sock, Count(sock))
  BY DEF ProcessProxy, Finalize, Control, Simple, Where, Over, Asking, Upstream, Answers,
     Attempts, States, PCs, Says, Inputs, Responses, Before, Local
<1>2. sock \in Texts BY DEF Carried, Flow
<1>3. Bytes(sock') = <<>> BY <1>1, <1>2, BytesTaken
<1>4. Bytes(sock)' = <<>> BY <1>3 DEF Bytes, Count
<1> QED BY <1>1, <1>4 DEF Awake, Inputs

LEMMA AwakeReadClientCalls == ASSUME Control, Carried, Awake, ReadClientCalls PROVE Awake'
<1>1. pc' # "wait" \/ state' \notin Inputs \cup {"proxy"} \/ (sock' = <<>> /\ state' # "proxy")
  BY DEF Awake, Control, Simple, Where, Over, Asking, Upstream, Answers, Attempts, States, PCs,
     Says, Inputs, Responses, Before, Local, ReadClientCalls, Handles, Kept, input
<1> QED BY <1>1 DEF Awake

LEMMA AwakeReadClientEnds == ASSUME Control, Carried, Awake, ReadClientEnds PROVE Awake'
<1>1. state' = "ended" BY DEF ReadClientEnds, End, Finalize
<1> QED BY <1>1 DEF Awake, Inputs

LEMMA AwakePeerEvent == ASSUME Control, Carried, Awake, PeerEvent PROVE Awake'
<1>1. pc' # "wait" \/ state' \notin Inputs \cup {"proxy"} \/ (sock' = <<>> /\ state' # "proxy")
  BY DEF Awake, Control, Simple, Where, Over, Asking, Upstream, Answers, Attempts, States, PCs,
     Says, Inputs, Responses, Before, Local, PeerEvent, Kept, input, outbound
<1> QED BY <1>1 DEF Awake

LEMMA AwakeSay == ASSUME Control, Carried, Awake, Say PROVE Awake'
<1>1. "client" \in ev' /\ (ev' = ev \cup {"client"}) /\ UNCHANGED <<state, pc, pending, upq>>
  BY DEF Say
<1> QED BY <1>1 DEF Awake

LEMMA AwakeWritable == ASSUME Control, Carried, Awake, Writable PROVE Awake'
<1>1. ev \subseteq ev' /\ UNCHANGED <<state, pc, pending, sock>> /\ (UNCHANGED upq \/ "peer" \in ev')
  BY DEF Writable, input, outbound
<1>2. UNCHANGED Bytes(sock) BY <1>1 DEF Bytes, Count
<1> QED BY <1>1, <1>2 DEF Awake

LEMMA AwakeUpEvent == ASSUME Control, Carried, Awake, UpEvent PROVE Awake'
<1>1. ev \subseteq ev' /\ UNCHANGED <<state, pc, pending, sock>> /\ (UNCHANGED upq \/ "peer" \in ev')
  BY DEF UpEvent, input, outbound
<1>2. UNCHANGED Bytes(sock) BY <1>1 DEF Bytes, Count
<1> QED BY <1>1, <1>2 DEF Awake

LEMMA AwakeTimeout ==
  ASSUME Control, Carried, Awake, NEW t \in {"cread", "cwrite", "pread", "pwrite"}, Timeout(t)
  PROVE  Awake'
<1>1. pc' # "wait" \/ state' = "ended" BY DEF Timeout, End, Finalize
<1> QED BY <1>1 DEF Awake, Inputs

LEMMA AwakeStep == Control /\ Carried /\ Awake /\ [Next]_vars => Awake'
<1> SUFFICES ASSUME Control, Carried, Awake, [Next]_vars PROVE Awake' OBVIOUS
<1>1. CASE ProcessPrefix BY <1>1, AwakeProcessPrefix
<1>2. CASE ProcessRequest BY <1>2, AwakeProcessRequest
<1>3. CASE ProcessSocks5In BY <1>3, AwakeProcessSocks5In
<1>4. CASE ProcessHttpIn BY <1>4, AwakeProcessHttpIn
<1>5. CASE StartTcp BY <1>5, AwakeStartTcp
<1>6. CASE Resolve BY <1>6, AwakeResolve
<1>7. CASE QueryDone BY <1>7, AwakeQueryDone
<1>8. CASE Connect BY <1>8, AwakeConnect
<1>9. CASE Socks5Connect BY <1>9, AwakeSocks5Connect
<1>10. CASE SynEnds BY <1>10, AwakeSynEnds
<1>11. CASE TestConnect BY <1>11, AwakeTestConnect
<1>12. CASE ProcessSocks5 BY <1>12, AwakeProcessSocks5
<1>13. CASE Success BY <1>13, AwakeSuccess
<1>14. CASE Failure BY <1>14, AwakeFailure
<1>15. CASE Flush BY <1>15, AwakeFlush
<1>16. CASE InitProxy BY <1>16, AwakeInitProxy
<1>17. CASE ProcessProxy BY <1>17, AwakeProcessProxy
<1>18. CASE ReadClient
  BY <1>18, ReadClientCases, AwakeReadClientCalls, AwakeReadClientEnds
<1>19. CASE PeerEvent BY <1>19, AwakePeerEvent
<1>20. CASE Say BY <1>20, AwakeSay
<1>21. CASE Writable BY <1>21, AwakeWritable
<1>22. CASE UpEvent BY <1>22, AwakeUpEvent
<1>23. CASE \E t \in {"cread", "cwrite", "pread", "pwrite"} : Timeout(t) BY <1>23, AwakeTimeout
<1>24. CASE UNCHANGED vars
  BY <1>24 DEF vars, input, outbound, relayed, Awake, Bytes, Count
<1> QED
  BY <1>1, <1>2, <1>3, <1>4, <1>5, <1>6, <1>7, <1>8, <1>9, <1>10, <1>11, <1>12, <1>13, <1>14,
     <1>15, <1>16, <1>17, <1>18, <1>19, <1>20, <1>21, <1>22, <1>23, <1>24 DEF Next, Runs

LEMMA AwakeAlways == Spec => [](Control /\ Carried /\ Awake)
<1>1. Init => Awake
  <2> SUFFICES ASSUME Init PROVE Awake OBVIOUS
  <2>1. pc # "wait" BY DEF Init
  <2> QED BY <2>1 DEF Awake
<1>2. Init => Control /\ Carried /\ Awake BY <1>1, ControlInit, CarriedInit
<1>3. (Control /\ Carried /\ Awake) /\ [Next]_vars => (Control /\ Carried /\ Awake)'
  BY ControlStep, CarriedStep, AwakeStep
<1> QED BY <1>2, <1>3, PTL DEF Spec

\* The bytes of a text, when its end comes after what they follow.
LEMMA BytesJoin ==
  ASSUME NEW t \in Texts, NEW x \in Texts, NEW s \in Texts, NEW c \in Nat, c <= Len(t),
         Rest(t, c) = x \o s, t # <<>> /\ Last(t) = "fin" => s # <<>> /\ Last(s) = "fin"
  PROVE  x \o Bytes(s) = Rest(Bytes(t), c)
<1>1. /\ Len(t) \in Nat /\ Len(x) \in Nat /\ Len(s) \in Nat /\ x \o s \in Texts
      /\ Len(x \o s) = Len(x) + Len(s)
      /\ s = <<>> <=> Len(s) = 0
  BY TextFacts
<1>2. c \in 0 .. Len(t) BY <1>1
<1>3. /\ Len(Rest(t, c)) = Len(t) - c
      /\ Rest(t, c) # <<>> => Last(Rest(t, c)) = Last(t) /\ t # <<>>
  BY <1>2, RestOf, RestEnd
<1>4. Len(t) - c = Len(x) + Len(s) BY <1>1, <1>3
<1>5. s # <<>> /\ Last(s) = "fin" => t # <<>> /\ Last(t) = "fin"
  <2> SUFFICES ASSUME s # <<>>, Last(s) = "fin" PROVE t # <<>> /\ Last(t) = "fin" OBVIOUS
  <2>1. PICK r \in Texts : r = x \o s /\ Len(r) = Len(x) + Len(s) BY <1>1
  <2>2. Len(s) \in 1 .. Len(s) /\ Len(x) + Len(s) \in 1 .. Len(x) + Len(s)
        /\ ~(Len(x) + Len(s) <= Len(x)) /\ Len(x) + Len(s) - Len(x) = Len(s)
    BY <1>1
  <2>3. (x \o s)[Len(x) + Len(s)] = s[Len(s)] BY <2>2, JoinedPieces
  <2>4. Last(r) = "fin" BY <2>1, <2>3 DEF Last
  <2>5. r # <<>> BY <1>1, <2>1, <2>2, TextFacts
  <2> QED BY <1>3, <2>1, <2>4, <2>5
<1>6. Count(t) = c + Len(x) + Count(s) /\ Count(s) \in Nat
  BY <1>1, <1>4, <1>5, CountFacts
<1>7. PICK b \in Texts : b = Bytes(s) /\ Len(b) = Count(s) /\ b \o Rest(s, Count(s)) = s
  BY BytesTaken
<1>8. PICK d \in Texts : d = Bytes(t) /\ Len(d) = Count(t) /\ d \o Rest(t, Count(t)) = t
  BY BytesTaken
<1>9. /\ \A i \in 1 .. Len(b) : b[i] = s[i]
      /\ \A i \in 1 .. Len(d) : d[i] = t[i]
  <2>1. Count(s) \in 0 .. Len(s) /\ Count(t) \in 0 .. Len(t) BY <1>1, <1>6, CountFacts
  <2>2. PICK m \in 0 .. Len(s) : m = Count(s) BY <2>1
  <2>3. PICK n \in 0 .. Len(t) : n = Count(t) BY <2>1
  <2>4. \A i \in 1 .. m : SubSeq(s, 1, m)[i] = s[i] BY RestOf
  <2>5. \A i \in 1 .. n : SubSeq(t, 1, n)[i] = t[i] BY RestOf
  <2>6. b = SubSeq(s, 1, m) /\ d = SubSeq(t, 1, n) BY <1>7, <1>8, <2>2, <2>3 DEF Bytes
  <2> QED BY <1>7, <1>8, <2>2, <2>3, <2>4, <2>5, <2>6
<1>10. x \o b \in Texts /\ Len(x \o b) = Len(x) + Len(b) BY TextFacts
<1>11. c \in 0 .. Len(d) BY <1>1, <1>6, <1>8
<1>12. /\ Rest(d, c) \in Texts /\ Len(Rest(d, c)) = Len(d) - c
       /\ \A i \in 1 .. Len(d) - c : Rest(d, c)[i] = d[c + i]
  BY <1>11, RestOf
<1>13. Len(d) - c = Len(x) + Len(b) BY <1>1, <1>6, <1>7, <1>8
<1>14. ASSUME NEW i \in 1 .. Len(x) + Len(b) PROVE (x \o b)[i] = Rest(d, c)[i]
  <2>1. (x \o b)[i] = IF i <= Len(x) THEN x[i] ELSE b[i - Len(x)] BY JoinedPieces
  <2>2. i \in 1 .. Len(x) + Len(s) /\ i \in Nat BY <1>1, <1>6, <1>7, CountFacts
  <2>3. (x \o s)[i] = IF i <= Len(x) THEN x[i] ELSE s[i - Len(x)] BY <2>2, JoinedPieces
  <2>4. ~(i <= Len(x)) => i - Len(x) \in 1 .. Len(b) BY <1>1, <1>6, <1>7, <2>2
  <2>5. (x \o b)[i] = (x \o s)[i]
    <3>1. CASE i <= Len(x) BY <2>1, <2>3, <3>1
    <3>2. CASE ~(i <= Len(x)) BY <1>9, <2>1, <2>3, <2>4, <3>2
    <3> QED BY <3>1, <3>2
  <2>6. Rest(d, c)[i] = d[c + i] BY <1>12, <1>13
  <2>7. c + i \in 1 .. Len(d) BY <1>1, <1>6, <1>8, <1>13, <2>2
  <2>8. d[c + i] = t[c + i] BY <1>9, <2>7
  <2>9. Rest(t, c)[i] = t[c + i]
    <3>1. i \in 1 .. Len(t) - c BY <1>4, <2>2
    <3> QED BY <1>2, <3>1, RestOf
  <2> QED BY <2>5, <2>6, <2>8, <2>9
<1>15. x \o b = Rest(d, c) BY <1>10, <1>12, <1>13, <1>14, TextEqual
<1> QED BY <1>7, <1>8, <1>15

\* The client's bytes reach the upstream in order and complete, and the
\* handlers leave nothing behind that the session could go on with.
THEOREM TunnelAlways == Spec => []Tunnel
<1>1. Control /\ Carried => Forwarded
  <2> SUFFICES ASSUME Control, Carried, state = "proxy", ~(conf.kind = "http" /\ conf.rule)
               PROVE  upgot \o pending \o Bytes(sock) = Rest(Bytes(told), Consumed)
    BY DEF Forwarded
  <2>1. Phase = "past" BY DEF Control, Answers, Phase, Reading, Dropped
  <2>2. /\ told \in Texts /\ sock \in Texts /\ pending \in Texts /\ upgot \in Texts /\ buf = <<>>
        /\ Consumed <= Len(told) /\ Rest(told, Consumed) = Line(upgot, pending, buf, sock)
        /\ told # <<>> /\ Last(told) = "fin" => sock # <<>> /\ Last(sock) = "fin"
    BY <2>1 DEF Carried, Told, Flow, Used
  <2>3. Consumed \in Nat BY DEF Consumed
  <2>4. PICK x \in Texts : x = upgot \o pending BY <2>2, TextFacts
  <2>5. Rest(told, Consumed) = x \o sock BY <2>2, <2>4, LinePast
  <2>6. PICK t \in Texts : t = told BY <2>2
  <2>7. PICK s \in Texts : s = sock BY <2>2
  <2>8. PICK c \in Nat : c = Consumed BY <2>3
  <2>9. c <= Len(t) /\ Rest(t, c) = x \o s
        /\ (t # <<>> /\ Last(t) = "fin" => s # <<>> /\ Last(s) = "fin")
    BY <2>2, <2>5, <2>6, <2>7, <2>8
  <2>10. x \o Bytes(s) = Rest(Bytes(t), c) BY <2>9, BytesJoin
  <2> QED BY <2>4, <2>6, <2>7, <2>8, <2>10
<1>2. Control /\ Awake => NothingLeft
  BY DEF Control, Simple, States, Inputs, Awake, NothingLeft
<1>3. Control /\ Carried /\ Awake => Tunnel BY <1>1, <1>2 DEF Tunnel
<1> QED BY <1>3, AwakeAlways, PTL

----------------------------------------------------------------------------
(* What the client hears.                                                  *)

\* Parts of replies and pieces of the upstream, in a row.
Marks == (Says \cup {"up"}) \X Nat
Tapes == Seq(Marks)
Run(w, a, k) == [i \in 1 .. k |-> <<w, a + i>>]

\* Concatenation and equality of tapes, and their marks.
LEMMA TapeJoins ==
  ASSUME NEW s \in Tapes, NEW t \in Tapes, NEW u \in Tapes
  PROVE  Regroups(s, t, u)
BY ConcatAssociative, SMT DEF Tapes, Regroups

LEMMA TapeFacts ==
  /\ <<>> \in Tapes
  /\ \A s \in Tapes : Len(s) \in Nat /\ (s = <<>> <=> Len(s) = 0)
  /\ \A s \in Tapes : s \o <<>> = s /\ <<>> \o s = s
  /\ \A s, t \in Tapes : s \o t \in Tapes /\ Len(s \o t) = Len(s) + Len(t)
  /\ \A s, t, u \in Tapes : (s \o t) \o u = s \o (t \o u)
<1>1. \A s \in Tapes : Len(s) \in Nat /\ (s = <<>> <=> Len(s) = 0)
  BY LenProperties, EmptySeq DEF Tapes
<1>2. \A s \in Tapes : s \o <<>> = s /\ <<>> \o s = s BY ConcatEmptySeq DEF Tapes
<1>3. \A s, t \in Tapes : s \o t \in Tapes /\ Len(s \o t) = Len(s) + Len(t)
  BY ConcatProperties DEF Tapes
<1>4. \A s, t, u \in Tapes : (s \o t) \o u = s \o (t \o u) BY TapeJoins, Zenon DEF Regroups
<1> QED BY <1>1, <1>2, <1>3, <1>4 DEF Tapes

LEMMA TapeEqual ==
  ASSUME NEW s \in Tapes, NEW t \in Tapes, Len(s) = Len(t), \A i \in 1 .. Len(s) : s[i] = t[i]
  PROVE  s = t
BY SeqEqual DEF Tapes

LEMMA JoinedMarks ==
  ASSUME NEW s \in Tapes, NEW t \in Tapes, NEW i \in 1 .. Len(s) + Len(t)
  PROVE  (s \o t)[i] = IF i <= Len(s) THEN s[i] ELSE t[i - Len(s)]
BY ConcatProperties DEF Tapes

\* A run of marks has the length it was given; none is empty, and two that follow
\* one another are one.
LEMMA RunFacts ==
  ASSUME NEW w \in Says \cup {"up"}, NEW a \in Nat, NEW k \in Nat
  PROVE  /\ Run(w, a, k) \in Tapes /\ Len(Run(w, a, k)) = k
         /\ \A i \in 1 .. k : Run(w, a, k)[i] = <<w, a + i>>
<1>1. \A i \in 1 .. k : <<w, a + i>> \in Marks
  <2> TAKE i \in 1 .. k
  <2>1. a + i \in Nat OBVIOUS
  <2> QED BY <2>1 DEF Marks
<1>2. Run(w, a, k) \in [1 .. k -> Marks] BY <1>1 DEF Run
<1>3. Run(w, a, k) \in Tapes BY <1>2, SeqDef DEF Tapes
<1>4. Len(Run(w, a, k)) = k
  <2>1. DOMAIN Run(w, a, k) = 1 .. k BY DEF Run
  <2>2. PICK r \in Seq(Marks) : r = Run(w, a, k) BY <1>3 DEF Tapes
  <2>3. Len(r) \in Nat /\ DOMAIN r = 1 .. Len(r) BY LenProperties
  <2>4. 1 .. Len(r) = 1 .. k BY <2>1, <2>2, <2>3
  <2>5. Len(r) = k
    <3>1. PICK n \in Nat : n = Len(r) BY <2>3
    <3>2. \A i : i \in 1 .. n <=> i \in 1 .. k BY <2>4, <3>1
    <3>3. n > k => n \in 1 .. n /\ n \notin 1 .. k OBVIOUS
    <3>4. n < k => k \notin 1 .. n /\ k \in 1 .. k OBVIOUS
    <3>5. ~(n > k) BY <3>2, <3>3, Zenon
    <3>6. ~(n < k) BY <3>2, <3>4, Zenon
    <3>7. n = k BY <3>5, <3>6
    <3> QED BY <3>1, <3>7
  <2> QED BY <2>2, <2>5
<1> QED BY <1>3, <1>4 DEF Run

LEMMA RunNone ==
  ASSUME NEW w \in Says \cup {"up"}, NEW a \in Nat
  PROVE  Run(w, a, 0) = <<>>
BY RunFacts, TapeFacts

RunsOn(w, a, k, l) == Run(w, a, k) \o Run(w, a + k, l) = Run(w, a, k + l)

LEMMA RunJoin ==
  ASSUME NEW w \in Says \cup {"up"}, NEW a \in Nat, NEW k \in Nat, NEW l \in Nat
  PROVE  RunsOn(w, a, k, l)
<1>1. PICK s \in Tapes : s = Run(w, a, k) /\ Len(s) = k /\ \A i \in 1 .. k : s[i] = <<w, a + i>>
  BY RunFacts
<1>2. PICK t \in Tapes : t = Run(w, a + k, l) /\ Len(t) = l /\ \A i \in 1 .. l : t[i] = <<w, a + k + i>>
  <2>1. PICK b \in Nat : b = a + k OBVIOUS
  <2>2. Run(w, b, l) \in Tapes /\ Len(Run(w, b, l)) = l /\ \A i \in 1 .. l : Run(w, b, l)[i] = <<w, b + i>>
    BY RunFacts
  <2> QED BY <2>1, <2>2
<1>3. PICK r \in Tapes : r = Run(w, a, k + l) /\ Len(r) = k + l
                         /\ \A i \in 1 .. k + l : r[i] = <<w, a + i>>
  <2>1. PICK n \in Nat : n = k + l OBVIOUS
  <2>2. Run(w, a, n) \in Tapes /\ Len(Run(w, a, n)) = n /\ \A i \in 1 .. n : Run(w, a, n)[i] = <<w, a + i>>
    BY RunFacts
  <2> QED BY <2>1, <2>2
<1>4. s \o t \in Tapes /\ Len(s \o t) = k + l
  <2>1. s \o t \in Tapes /\ Len(s \o t) = Len(s) + Len(t) BY TapeFacts
  <2> QED BY <1>1, <1>2, <2>1
<1>5. ASSUME NEW i \in 1 .. k + l PROVE (s \o t)[i] = r[i]
  <2>1. (s \o t)[i] = IF i <= k THEN s[i] ELSE t[i - k] BY <1>1, <1>2, JoinedMarks
  <2>2. CASE i <= k
    <3>1. i \in 1 .. k BY <2>2
    <3> QED BY <1>1, <1>3, <2>1, <2>2, <3>1
  <2>3. CASE ~(i <= k)
    <3>1. i - k \in 1 .. l /\ a + k + (i - k) = a + i BY <2>3
    <3>2. t[i - k] = <<w, a + i>> BY <1>2, <3>1
    <3> QED BY <1>3, <2>1, <2>3, <3>2
  <2> QED BY <2>2, <2>3
<1>6. s \o t = r BY <1>3, <1>4, <1>5, TapeEqual
<1> QED BY <1>1, <1>2, <1>3, <1>6, Zenon DEF RunsOn

\* One piece more.
LEMMA RunMore ==
  ASSUME NEW w \in Says \cup {"up"}, NEW a \in Nat, NEW k \in Nat
  PROVE  Append(Run(w, a, k), <<w, a + k + 1>>) = Run(w, a, k + 1)
<1>1. PICK s \in Tapes : s = Run(w, a, k) /\ Len(s) = k /\ \A i \in 1 .. k : s[i] = <<w, a + i>>
  BY RunFacts
<1>2. PICK r \in Tapes : r = Run(w, a, k + 1) /\ Len(r) = k + 1
                         /\ \A i \in 1 .. k + 1 : r[i] = <<w, a + i>>
  <2>1. PICK n \in Nat : n = k + 1 OBVIOUS
  <2>2. Run(w, a, n) \in Tapes /\ Len(Run(w, a, n)) = n /\ \A i \in 1 .. n : Run(w, a, n)[i] = <<w, a + i>>
    BY RunFacts
  <2> QED BY <2>1, <2>2
<1>3. PICK x \in Marks : x = <<w, a + k + 1>>
  <2>1. a + k + 1 \in Nat OBVIOUS
  <2> QED BY <2>1 DEF Marks
<1>4. /\ Append(s, x) \in Tapes /\ Len(Append(s, x)) = k + 1
      /\ \A i \in 1 .. k : Append(s, x)[i] = s[i]
      /\ Append(s, x)[k + 1] = x
  BY <1>1, AppendProperties DEF Tapes
<1>5. ASSUME NEW i \in 1 .. k + 1 PROVE Append(s, x)[i] = r[i]
  <2>1. CASE i = k + 1
    <3>1. r[i] = <<w, a + i>> /\ a + i = a + k + 1 BY <1>2, <2>1
    <3> QED BY <1>3, <1>4, <2>1, <3>1
  <2>2. CASE i # k + 1
    <3>1. i \in 1 .. k BY <2>2
    <3> QED BY <1>1, <1>2, <1>4, <3>1
  <2> QED BY <2>1, <2>2
<1>6. Append(s, x) = r BY <1>2, <1>4, <1>5, TapeEqual
<1> QED BY <1>1, <1>2, <1>3, <1>6

\* A whole reply is a run of its two parts.
LEMMA WholeRun == ASSUME NEW w \in Says PROVE Whole(w) = Run(w, 0, 2) /\ Whole(w) \in Tapes
<1>1. PICK s \in Tapes : s = Whole(w) /\ Len(s) = 2 /\ s[1] = <<w, 1>> /\ s[2] = <<w, 2>>
  <2>1. PICK x \in Marks, y \in Marks : x = <<w, 1>> /\ y = <<w, 2>> BY DEF Marks
  <2>4. <<x, y>> \in Tapes BY DEF Tapes
  <2>2. PICK s \in Tapes : s = <<x, y>> BY <2>4
  <2>3. Len(s) = 2 /\ s[1] = x /\ s[2] = y BY <2>2
  <2> QED BY <2>1, <2>2, <2>3 DEF Whole
<1>2. PICK r \in Tapes : r = Run(w, 0, 2) /\ Len(r) = 2 /\ r[1] = <<w, 1>> /\ r[2] = <<w, 2>>
  <2>1. PICK n \in Nat, z \in Nat : n = 2 /\ z = 0 OBVIOUS
  <2>2. Run(w, z, n) \in Tapes /\ Len(Run(w, z, n)) = n /\ \A i \in 1 .. n : Run(w, z, n)[i] = <<w, z + i>>
    BY RunFacts
  <2>3. 1 \in 1 .. n /\ 2 \in 1 .. n /\ z + 1 = 1 /\ z + 2 = 2 BY <2>1
  <2> QED BY <2>1, <2>2, <2>3
<1>3. \A i \in 1 .. Len(s) : i = 1 \/ i = 2 BY <1>1
<1>4. s = r BY <1>1, <1>2, <1>3, TapeEqual
<1> QED BY <1>1, <1>2, <1>4

\* A tape is a prefix of what it is continued to.
LEMMA PrefixJoin ==
  ASSUME NEW s \in Tapes, NEW t \in Tapes PROVE IsPrefix(s, s \o t)
<1>1. s \o t \in Tapes /\ Len(s \o t) = Len(s) + Len(t) /\ Len(s) \in Nat /\ Len(t) \in Nat
  BY TapeFacts
<1>2. PICK u \in Tapes : u = s \o t BY <1>1
<1>3. \A x \in Tapes : \A n \in 0 .. Len(x) :
         /\ SubSeq(x, 1, n) \in Tapes /\ Len(SubSeq(x, 1, n)) = n
         /\ \A i \in 1 .. n : SubSeq(x, 1, n)[i] = x[i]
  <2> TAKE x \in Tapes
  <2> TAKE n \in 0 .. Len(x)
  <2>1. Len(x) \in Nat BY TapeFacts
  <2>2. \A i \in 1 .. n : x[i] \in Marks BY <2>1, ElementOfSeq DEF Tapes
  <2>3. /\ SubSeq(x, 1, n) \in Seq(Marks)
        /\ Len(SubSeq(x, 1, n)) = IF 1 <= n THEN n - 1 + 1 ELSE 0
        /\ \A i \in 1 .. n - 1 + 1 : SubSeq(x, 1, n)[i] = x[1 + i - 1]
    BY <2>1, <2>2, SubSeqProperties
  <2> QED BY <2>1, <2>3 DEF Tapes
<1>4. PICK n \in Nat : n = Len(s) BY <1>1
<1>5. n \in 0 .. Len(s) /\ n \in 0 .. Len(u) BY <1>1, <1>2, <1>4
<1>6. PICK a \in Tapes : a = SubSeq(s, 1, n) /\ Len(a) = n /\ \A i \in 1 .. n : a[i] = s[i]
  BY <1>3, <1>5
<1>7. PICK b \in Tapes : b = SubSeq(u, 1, n) /\ Len(b) = n /\ \A i \in 1 .. n : b[i] = u[i]
  BY <1>3, <1>5
<1>8. ASSUME NEW i \in 1 .. n PROVE a[i] = b[i]
  <2>1. i \in 1 .. Len(s) + Len(t) /\ i <= Len(s) BY <1>1, <1>4
  <2>2. u[i] = s[i] BY <1>2, <2>1, JoinedMarks
  <2> QED BY <1>6, <1>7, <2>2
<1>9. a = b BY <1>6, <1>7, <1>8, TapeEqual
<1>10. n <= Len(u) BY <1>5
<1> QED BY <1>2, <1>4, <1>6, <1>7, <1>9, <1>10 DEF IsPrefix

\* How many pieces of the upstream a tape ends with.
LEMMA UpsCount ==
  ASSUME NEW h \in Tapes, \A i \in 1 .. Len(h) : h[i][1] # "up", NEW m \in Nat,
         NEW g, g = h \o Run("up", 0, m)
  PROVE  Cardinality({i \in 1 .. Len(g) : g[i][1] = "up"}) = m
<1>1. PICK r \in Tapes : r = Run("up", 0, m) /\ Len(r) = m /\ \A i \in 1 .. m : r[i] = <<"up", 0 + i>>
  <2>1. PICK z \in Nat : z = 0 OBVIOUS
  <2>2. Run("up", z, m) \in Tapes /\ Len(Run("up", z, m)) = m
        /\ \A i \in 1 .. m : Run("up", z, m)[i] = <<"up", z + i>>
    BY RunFacts
  <2> QED BY <2>1, <2>2
<1>2. PICK l \in Nat : l = Len(h) BY TapeFacts
<1>3. Len(g) = l + m
  <2>1. Len(h \o r) = Len(h) + Len(r) BY TapeFacts
  <2> QED BY <1>1, <1>2, <2>1
<1>4. \A i \in 1 .. l + m : g[i][1] = "up" <=> i \in l + 1 .. l + m
  <2> TAKE i \in 1 .. l + m
  <2>1. g[i] = IF i <= l THEN h[i] ELSE r[i - l] BY <1>1, <1>2, JoinedMarks
  <2>2. CASE i <= l
    <3>1. i \in 1 .. Len(h) /\ i \notin l + 1 .. l + m BY <1>2, <2>2
    <3> QED BY <2>1, <2>2, <3>1
  <2>3. CASE ~(i <= l)
    <3>1. i - l \in 1 .. m /\ i \in l + 1 .. l + m BY <2>3
    <3>2. r[i - l] = <<"up", 0 + (i - l)>> BY <1>1, <3>1
    <3>3. g[i] = r[i - l] BY <2>1, <2>3
    <3>4. <<"up", 0 + (i - l)>>[1] = "up" OBVIOUS
    <3>5. g[i][1] = "up" BY <3>2, <3>3, <3>4
    <3> QED BY <3>1, <3>5
  <2> QED BY <2>2, <2>3
<1>5. {i \in 1 .. Len(g) : g[i][1] = "up"} = l + 1 .. l + m BY <1>3, <1>4
<1>6. Cardinality(l + 1 .. l + m) = m
  <2>1. Cardinality((l + 1) .. (l + m)) = IF l + 1 > l + m THEN 0 ELSE (l + m) - (l + 1) + 1
    BY FS_Interval
  <2> QED BY <2>1
<1> QED BY <1>5, <1>6

----------------------------------------------------------------------------
(* One reply, and what the upstream sent.                                  *)

\* What was said to the client before the upstream's pieces.
Lead     == IF Local THEN Greeted \o Whole("ok") ELSE <<>>
Relaying == pc = "init_proxy" \/ state = "proxy"
Heard ==
  IF Relaying THEN Lead
  ELSE IF reply.what \in {"methods", "nomethod", "page"} THEN Run(reply.what, 0, reply.sent)
  ELSE IF reply.what # "nothing" THEN Greeted \o Run(reply.what, 0, reply.sent)
  ELSE IF state = "socks5_in_greeting" THEN <<>>
  ELSE IF conf.kind = "socks5" /\ state = "udp" THEN Greeted \o Whole("relay")
  ELSE Greeted

\* The client has that and the first pieces; the next are still to be read, and
\* there are none before the tunnel is announced.
Hears ==
  /\ reply.sent \in 0 .. 1
  /\ \E m, k \in 0 .. MaxUp :
       /\ got = Heard \o Run("up", 0, m) /\ upq = Run("up", m, k) /\ m + k <= MaxUp
       /\ ~Relaying => m = 0
  /\ ~Relaying /\ upq # <<>> => state \in Responses /\ reply.what = "ok"
  /\ pc \in {"success", "failure"} => reply.what = "nothing" /\ state \notin Responses
  /\ state = "socks5_in_greeting" => pc \in {"socks5_in", "wait"}
  /\ state \in {"udp", "mux"} => pc = "wait"

Proper(g) ==
  IF Local THEN \E r \in Replies : IsPrefix(g, r) ELSE g \in Ups \/ IsPrefix(g, Whole("page"))

\* An ended session has said what it has said.
Received == ~history.twice => IF state = "ended" THEN Proper(got) ELSE Hears

\* Only a SOCKS5 client is greeted.
LEMMA GreetedTape == Greeted \in Tapes /\ (conf.kind # "socks5" => Greeted = <<>>)
<1>1. "methods" \in Says BY DEF Says
<1>2. Whole("methods") \in Tapes BY <1>1, WholeRun
<1> QED BY <1>2, TapeFacts DEF Greeted

\* A reply is whole when its parts are said.
LEMMA PartPrefix ==
  ASSUME NEW p \in Tapes, NEW w \in Says, NEW n \in 0 .. 2
  PROVE  /\ p \o Run(w, 0, n) \in Tapes
         /\ IsPrefix(p \o Run(w, 0, n), p \o Whole(w))
         /\ \A x \in Tapes : IsPrefix(p \o Run(w, 0, n), p \o (Whole(w) \o x))
<1>1. PICK m \in Nat, k \in Nat : m = n /\ k = 2 - n OBVIOUS
<1>2. PICK a \in Tapes, b \in Tapes : a = Run(w, 0, m) /\ b = Run(w, 0 + m, k) /\ a \o b = Run(w, 0, m + k)
  <2>1. PICK z \in Nat : z = 0 OBVIOUS
  <2>2. PICK y \in Nat : y = z + m OBVIOUS
  <2>3. Run(w, z, m) \in Tapes /\ Run(w, y, k) \in Tapes BY RunFacts
  <2>4. Run(w, z, m) \o Run(w, z + m, k) = Run(w, z, m + k) BY RunJoin, Zenon DEF RunsOn
  <2> QED BY <2>1, <2>2, <2>3, <2>4
<1>3. m + k = 2 BY <1>1
<1>4. a \o b = Whole(w) BY <1>2, <1>3, WholeRun
<1>5. p \o a \in Tapes /\ (p \o a) \o b = p \o (a \o b) BY TapeFacts
<1>6. IsPrefix(p \o a, p \o Whole(w))
  <2>1. PICK c \in Tapes : c = p \o a BY <1>5
  <2>2. IsPrefix(c, c \o b) BY PrefixJoin
  <2> QED BY <1>4, <1>5, <2>1, <2>2
<1>7. ASSUME NEW x \in Tapes PROVE IsPrefix(p \o a, p \o (Whole(w) \o x))
  <2>1. PICK c \in Tapes : c = p \o a BY <1>5
  <2>2. PICK d \in Tapes : d = b \o x BY TapeFacts
  <2>3. IsPrefix(c, c \o d) BY PrefixJoin
  <2>4. c \o d = p \o (a \o (b \o x))
    <3>1. Regroups(p, a, d) BY TapeJoins, Zenon
    <3> QED BY <2>1, <2>2, <3>1, Zenon DEF Regroups
  <2>5. (a \o b) \o x = a \o (b \o x)
    <3>1. Regroups(a, b, x) BY TapeJoins, Zenon
    <3> QED BY <3>1, Zenon DEF Regroups
  <2> QED BY <1>4, <2>1, <2>3, <2>4, <2>5, Zenon
<1>8. a = Run(w, 0, n) BY <1>1, <1>2
<1> QED BY <1>5, <1>6, <1>7, <1>8

\* What may be said of a reply is part of a whole one.
LEMMA ProperSaid ==
  ASSUME conf.kind \in {"trojan", "socks5", "http"}, NEW n \in 0 .. 2
  PROVE  /\ conf.kind = "trojan" => Proper(<<>> \o Run("page", 0, n))
         /\ conf.kind = "socks5" => Proper(<<>> \o Run("methods", 0, n)) /\ Proper(<<>> \o Run("nomethod", 0, n))
                                    /\ Proper(Greeted \o Run("relay", 0, n))
         /\ Local => Proper(Greeted \o Run("fail", 0, n)) /\ Proper(Greeted \o Run("ok", 0, n))
<1>0. {"page", "methods", "nomethod", "relay", "fail", "ok"} \subseteq Says BY DEF Says
<1>1. Greeted \in Tapes /\ <<>> \in Tapes BY GreetedTape, TapeFacts
<1>2. \A w \in Says : Whole(w) \in Tapes /\ <<>> \o Whole(w) = Whole(w) BY WholeRun, TapeFacts
<1>3. ASSUME conf.kind = "trojan" PROVE Proper(<<>> \o Run("page", 0, n))
  <2>1. IsPrefix(<<>> \o Run("page", 0, n), <<>> \o Whole("page")) BY <1>0, <1>1, PartPrefix
  <2>2. <<>> \o Whole("page") = Whole("page") BY <1>0, <1>2
  <2> QED BY <1>3, <2>1, <2>2 DEF Proper, Local
<1>4. ASSUME conf.kind = "socks5" PROVE Proper(<<>> \o Run("methods", 0, n))
  <2>1. PICK x \in Tapes : x = Whole("fail") BY <1>0, <1>2
  <2>2. IsPrefix(<<>> \o Run("methods", 0, n), <<>> \o (Whole("methods") \o x))
    BY <1>0, <1>1, PartPrefix
  <2>3. Whole("methods") \o x \in Tapes BY <1>0, <1>2, TapeFacts
  <2>4. <<>> \o (Whole("methods") \o x) = Whole("methods") \o x BY <2>3, TapeFacts
  <2>5. Greeted \o Whole("fail") \in Replies BY DEF Replies
  <2>6. Greeted \o Whole("fail") = Whole("methods") \o x BY <1>4, <2>1 DEF Greeted
  <2> QED BY <1>4, <2>2, <2>4, <2>5, <2>6 DEF Proper, Local
<1>5. ASSUME conf.kind = "socks5" PROVE Proper(<<>> \o Run("nomethod", 0, n))
  <2>1. IsPrefix(<<>> \o Run("nomethod", 0, n), <<>> \o Whole("nomethod")) BY <1>0, <1>1, PartPrefix
  <2>2. <<>> \o Whole("nomethod") = Whole("nomethod") BY <1>0, <1>2
  <2>3. Whole("nomethod") \in Replies BY DEF Replies
  <2> QED BY <1>5, <2>1, <2>2, <2>3 DEF Proper, Local
<1>6. ASSUME conf.kind = "socks5" PROVE Proper(Greeted \o Run("relay", 0, n))
  <2>1. IsPrefix(Greeted \o Run("relay", 0, n), Greeted \o Whole("relay")) BY <1>0, <1>1, PartPrefix
  <2>2. Greeted \o Whole("relay") \in Replies BY DEF Replies
  <2> QED BY <1>6, <2>1, <2>2 DEF Proper, Local
<1>7. ASSUME Local PROVE Proper(Greeted \o Run("fail", 0, n))
  <2>1. IsPrefix(Greeted \o Run("fail", 0, n), Greeted \o Whole("fail")) BY <1>0, <1>1, PartPrefix
  <2>2. Greeted \o Whole("fail") \in Replies BY DEF Replies
  <2> QED BY <1>7, <2>1, <2>2 DEF Proper
<1>8. ASSUME Local PROVE Proper(Greeted \o Run("ok", 0, n))
  <2>1. IsPrefix(Greeted \o Run("ok", 0, n), Greeted \o Whole("ok")) BY <1>0, <1>1, PartPrefix
  <2>2. <<>> \in Ups
    <3>1. 0 \in 0 .. MaxUp BY ConstantsAssumption
    <3>2. [i \in 1 .. 0 |-> <<"up", i>>] \in Ups BY <3>1 DEF Ups
    <3>3. [i \in 1 .. 0 |-> <<"up", i>>] = <<>> OBVIOUS
    <3> QED BY <3>2, <3>3
  <2>3. Greeted \o Whole("ok") \o <<>> \in Replies BY <2>2 DEF Replies
  <2>4. Greeted \o Whole("ok") \in Tapes BY <1>0, <1>1, <1>2, TapeFacts
  <2>5. (Greeted \o Whole("ok")) \o <<>> = Greeted \o Whole("ok") BY <2>4, TapeFacts
  <2> QED BY <1>8, <2>1, <2>3, <2>5 DEF Proper
<1> QED BY <1>3, <1>4, <1>5, <1>6, <1>7, <1>8

\* And so are the pieces of the upstream after it.
LEMMA ProperPieces ==
  ASSUME NEW m \in 0 .. MaxUp
  PROVE  Lead \in Tapes /\ Proper(Lead \o Run("up", 0, m))
<1>0. m \in Nat /\ "ok" \in Says /\ "up" \in Says \cup {"up"} BY ConstantsAssumption DEF Says
<1>1. PICK u \in Tapes : u = Run("up", 0, m) BY <1>0, RunFacts
<1>2. u \in Ups
  <2>1. [i \in 1 .. m |-> <<"up", i>>] \in Ups BY DEF Ups
  <2>2. \A i \in 1 .. m : 0 + i = i BY <1>0
  <2>3. u = [i \in 1 .. m |-> <<"up", i>>] BY <1>1, <2>2 DEF Run
  <2> QED BY <2>1, <2>3
<1>3. CASE Local
  <2>1. PICK l \in Tapes : l = Lead /\ l = Greeted \o Whole("ok")
    BY <1>0, <1>3, GreetedTape, WholeRun, TapeFacts DEF Lead
  <2>2. l \o u \in Replies BY <1>2, <2>1 DEF Replies
  <2>3. PICK g \in Tapes : g = l \o u /\ g \o <<>> = g BY TapeFacts
  <2>4. IsPrefix(g, g \o <<>>) BY TapeFacts, PrefixJoin
  <2>5. IsPrefix(g, g) BY <2>3, <2>4
  <2> QED BY <1>1, <1>3, <2>1, <2>2, <2>3, <2>5 DEF Proper
<1>4. CASE ~Local
  <2>1. Lead = <<>> BY <1>4 DEF Lead
  <2>2. <<>> \o u = u /\ <<>> \in Tapes BY TapeFacts
  <2> QED BY <1>1, <1>2, <1>4, <2>1, <2>2 DEF Proper
<1> QED BY <1>3, <1>4

\* What is heard is part of a reply, and the kind of inbound says of which.
LEMMA HeardProper ==
  ASSUME Control, Carried, state # "ended", ~Relaying, reply.sent \in 0 .. 1
  PROVE  Heard \in Tapes /\ Proper(Heard)
<1>0. conf.kind \in {"trojan", "socks5", "http"} BY DEF Carried, Script
<1>1. Says = {"methods", "nomethod", "fail", "relay", "ok", "page", "nothing"} BY DEF Says
<1>2. reply.what \in Says BY DEF Control, Simple
<1>3. PICK n \in 0 .. 2 : n = reply.sent OBVIOUS
<1>4. 0 \in 0 .. 2 /\ 2 \in 0 .. 2 OBVIOUS
<1>5. \A w \in Says : Run(w, 0, n) \in Tapes /\ <<>> \o Run(w, 0, n) = Run(w, 0, n)
        /\ Greeted \o Run(w, 0, n) \in Tapes
        /\ Run(w, 0, 0) = <<>> /\ Run(w, 0, 2) = Whole(w)
  <2> TAKE w \in Says
  <2>1. PICK z \in Nat, k \in Nat : z = 0 /\ k = n OBVIOUS
  <2>2. Run(w, z, k) \in Tapes /\ Run(w, z, 0) = <<>> BY RunFacts, RunNone
  <2>3. PICK r \in Tapes : r = Run(w, 0, n) BY <2>1, <2>2
  <2>4. <<>> \o r = r /\ Greeted \o r \in Tapes BY GreetedTape, TapeFacts
  <2> QED BY <2>1, <2>2, <2>3, <2>4, WholeRun
<1>6. <<>> \in Tapes /\ Greeted \in Tapes /\ Greeted \o <<>> = Greeted /\ <<>> \o <<>> = <<>>
  BY GreetedTape, TapeFacts
<1>7. CASE reply.what \in {"methods", "nomethod", "page"}
  <2>1. Heard = Run(reply.what, 0, n) BY <1>3, <1>7 DEF Heard
  <2>2. Heard \in Tapes /\ Heard = <<>> \o Run(reply.what, 0, n) BY <1>2, <1>5, <2>1
  <2>3. reply.what = "page" => conf.kind = "trojan" BY DEF Carried, Suits
  <2>4. reply.what # "page" => conf.kind = "socks5" BY <1>7 DEF Carried, Suits
  <2>5. CASE reply.what = "page" BY <1>0, <2>2, <2>3, <2>5, ProperSaid
  <2>6. CASE reply.what = "methods" BY <1>0, <2>2, <2>4, <2>6, ProperSaid
  <2>7. CASE reply.what = "nomethod" BY <1>0, <2>2, <2>4, <2>7, ProperSaid
  <2> QED BY <1>7, <2>2, <2>5, <2>6, <2>7
<1>8. CASE reply.what \in {"fail", "relay", "ok"}
  <2>1. Heard = Greeted \o Run(reply.what, 0, n) BY <1>3, <1>8 DEF Heard
  <2>2. Heard \in Tapes BY <1>2, <1>5, <2>1
  <2>3. reply.what = "relay" => conf.kind = "socks5" BY DEF Carried, Suits
  <2>4. reply.what # "relay" => Local BY <1>8 DEF Carried, Suits
  <2>5. CASE reply.what = "relay" BY <1>0, <2>1, <2>2, <2>3, <2>5, ProperSaid
  <2>6. CASE reply.what = "fail" BY <1>0, <2>1, <2>2, <2>4, <2>6, ProperSaid
  <2>7. CASE reply.what = "ok" BY <1>0, <2>1, <2>2, <2>4, <2>7, ProperSaid
  <2> QED BY <1>8, <2>2, <2>5, <2>6, <2>7
<1>9. CASE reply.what = "nothing"
  <2>1. CASE state = "socks5_in_greeting"
    <3>1. Heard = <<>> BY <1>9, <2>1 DEF Heard
    <3>2. Local BY <2>1 DEF Carried, Suits, Local
    <3>3. CASE conf.kind = "socks5"
      <4>1. Proper(<<>> \o Run("methods", 0, 0)) BY <1>0, <1>4, <3>3, ProperSaid
      <4> QED BY <1>1, <1>5, <1>6, <3>1, <4>1
    <3>4. CASE conf.kind # "socks5"
      <4>1. Proper(Greeted \o Run("fail", 0, 0)) BY <1>0, <1>4, <3>2, ProperSaid
      <4>2. Greeted = <<>> BY <3>4, GreetedTape
      <4> QED BY <1>1, <1>5, <1>6, <3>1, <4>1, <4>2
    <3> QED BY <3>3, <3>4
  <2>2. CASE state # "socks5_in_greeting" /\ conf.kind = "socks5" /\ state = "udp"
    <3>1. Heard = Greeted \o Whole("relay") BY <1>9, <2>2 DEF Heard
    <3>2. Proper(Greeted \o Run("relay", 0, 2)) BY <1>0, <1>4, <2>2, ProperSaid
    <3>3. Heard \in Tapes BY <1>1, <3>1, GreetedTape, WholeRun, TapeFacts
    <3> QED BY <1>1, <1>5, <3>1, <3>2, <3>3
  <2>3. CASE state # "socks5_in_greeting" /\ ~(conf.kind = "socks5" /\ state = "udp")
    <3>1. Heard = Greeted BY <1>9, <2>3 DEF Heard
    <3>2. CASE Local
      <4>1. Proper(Greeted \o Run("fail", 0, 0)) BY <1>0, <1>4, <3>2, ProperSaid
      <4> QED BY <1>1, <1>5, <1>6, <3>1, <4>1
    <3>3. CASE ~Local
      <4>1. Proper(<<>> \o Run("page", 0, 0)) BY <1>0, <1>4, <3>3, ProperSaid DEF Local
      <4>2. Greeted = <<>> BY <3>3, GreetedTape DEF Local
      <4> QED BY <1>1, <1>5, <1>6, <3>1, <4>1, <4>2
    <3> QED BY <3>2, <3>3
  <2> QED BY <2>1, <2>2, <2>3
<1> QED BY <1>1, <1>2, <1>7, <1>8, <1>9

\* What the client has heard of a session that goes on is proper.
LEMMA HearsProper ==
  ASSUME Control, Carried, Hears, state # "ended"
  PROVE  Proper(got)
<1>1. PICK m \in 0 .. MaxUp : got = Heard \o Run("up", 0, m) /\ (~Relaying => m = 0) BY DEF Hears
<1>2. CASE Relaying
  <2>1. Heard = Lead BY <1>2 DEF Heard
  <2> QED BY <1>1, <2>1, ProperPieces
<1>3. CASE ~Relaying
  <2>1. Heard \in Tapes /\ Proper(Heard) BY <1>3, HeardProper DEF Hears
  <2>2. Run("up", 0, 0) = <<>>
    <3>1. PICK z \in Nat : z = 0 OBVIOUS
    <3>2. Run("up", z, 0) = <<>> BY RunNone
    <3> QED BY <3>1, <3>2
  <2>3. Heard \o <<>> = Heard BY <2>1, TapeFacts
  <2> QED BY <1>1, <1>3, <2>1, <2>2, <2>3
<1> QED BY <1>2, <1>3

\* The steps that say nothing.
LEMMA HearsKept ==
  ASSUME Hears, UNCHANGED <<got, upq>>, Heard' = Heard, Relaying => Relaying',
         reply'.sent \in 0 .. 1,
         ~Relaying' /\ upq # <<>> /\ state \in Responses /\ reply.what = "ok"
           => state' \in Responses /\ reply'.what = "ok",
         pc' \in {"success", "failure"} => reply'.what = "nothing" /\ state' \notin Responses,
         state' = "socks5_in_greeting" => pc' \in {"socks5_in", "wait"},
         state' \in {"udp", "mux"} => pc' = "wait"
  PROVE  Hears'
<1>1. PICK m \in 0 .. MaxUp, k \in 0 .. MaxUp :
        /\ got = Heard \o Run("up", 0, m) /\ upq = Run("up", m, k) /\ m + k <= MaxUp
        /\ ~Relaying => m = 0
  BY DEF Hears
<1>2. /\ got' = Heard' \o Run("up", 0, m) /\ upq' = Run("up", m, k) /\ m + k <= MaxUp
      /\ ~Relaying' => m = 0
  BY <1>1
<1>3. ~Relaying' /\ upq' # <<>> => state' \in Responses /\ reply'.what = "ok" BY DEF Hears
<1>4. (\E a, b \in 0 .. MaxUp :
         /\ got = Heard \o Run("up", 0, a) /\ upq = Run("up", a, b) /\ a + b <= MaxUp
         /\ ~Relaying => a = 0)'
  BY <1>2
<1> HIDE <1>1, <1>2
<1>5. Responses' = Responses BY DEF Responses
<1> QED BY <1>3, <1>4, <1>5 DEF Hears

\* A step that keeps what is to be heard.
LEMMA ReceivedKept ==
  ASSUME Received, history'.twice = history.twice, state # "ended", state' # "ended", Hears => Hears'
  PROVE  Received'
BY DEF Received

\* The end says nothing.
LEMMA ReceivedEnds ==
  ASSUME Control, Carried, Received, state # "ended", state' = "ended", UNCHANGED <<conf, got>>,
         history'.twice = history.twice
  PROVE  Received'
<1>1. ~history.twice => Proper(got) BY HearsProper DEF Received
<1>2. Proper(got)' = Proper(got) BY DEF Proper, Local, Replies, Ups, Greeted
<1> QED BY <1>1, <1>2 DEF Received

\* Between the request and the reply or the tunnel nothing is said.
Plain ==
  reply.what = "nothing" /\ ~Relaying /\ state \notin {"socks5_in_greeting", "udp", "ended"}

\* With no reply on its way, the client has heard the greeting, and a step that
\* starts none leaves it so.
LEMMA PlainHeard == Plain => Heard = Greeted
BY DEF Plain, Heard

LEMMA ReceivedPlain ==
  ASSUME Received, Plain, Plain', UNCHANGED <<conf, got, upq, reply>>,
         history'.twice = history.twice,
         pc' \in {"success", "failure"} => state' \notin Responses, state' = "mux" => pc' = "wait"
  PROVE  Received'
<1>1. Heard = Greeted BY PlainHeard
<1>2. Heard' = Greeted' BY DEF Plain, Heard, Greeted
<1>3. Greeted' = Greeted BY DEF Greeted
<1>4. ASSUME Hears PROVE Hears'
  <2>1. reply'.sent \in 0 .. 1 BY <1>4 DEF Hears
  <2>2. Heard' = Heard BY <1>1, <1>2, <1>3
  <2>3. reply'.what = "nothing" /\ reply.what = "nothing" BY DEF Plain
  <2> QED BY <1>4, <2>1, <2>2, <2>3, HearsKept DEF Plain
<1>5. state # "ended" /\ state' # "ended" BY DEF Plain
<1> QED BY <1>4, <1>5, ReceivedKept

\* The steps that leave state and reply alone.
LEMMA ReceivedSame ==
  ASSUME Received, state # "ended", UNCHANGED <<conf, state, reply, got, upq>>,
         history'.twice = history.twice, (pc' = "init_proxy") <=> (pc = "init_proxy"),
         pc' \in {"success", "failure"} => pc' = pc,
         state = "socks5_in_greeting" /\ pc \in {"socks5_in", "wait"} => pc' \in {"socks5_in", "wait"},
         state \in {"udp", "mux"} /\ pc = "wait" => pc' = "wait"
  PROVE  Received'
<1>1. Relaying' = Relaying BY DEF Relaying
<1>2. Heard' = Heard BY <1>1 DEF Heard, Lead, Greeted, Local
<1>3. ASSUME Hears PROVE Hears'
  <2>1. /\ reply'.sent \in 0 .. 1
        /\ pc' \in {"success", "failure"} => reply'.what = "nothing" /\ state' \notin Responses
        /\ state' = "socks5_in_greeting" => pc' \in {"socks5_in", "wait"}
        /\ state' \in {"udp", "mux"} => pc' = "wait"
    BY <1>3 DEF Hears
  <2> QED BY <1>1, <1>2, <1>3, <2>1, HearsKept
<1> QED BY <1>3, ReceivedKept

\* A reply is prepared: nothing of it is said.
LEMMA RunsNone ==
  /\ \A w \in Says : Run(w, 0, 0) = <<>>
  /\ Run("up", 0, 0) = <<>> /\ Greeted \o <<>> = Greeted
<1>1. PICK z \in Nat : z = 0 OBVIOUS
<1>2. \A w \in Says \cup {"up"} : Run(w, z, 0) = <<>> BY RunNone
<1> QED BY <1>1, <1>2, GreetedTape, TapeFacts

\* A reply is prepared, none of it is sent.
LEMMA ReceivedPrepared ==
  ASSUME Received, NEW w, Prepare(w), ~Relaying, reply.what = "nothing", state # "ended",
         UNCHANGED <<conf, got, upq>>, history'.twice = history.twice,
         \/ w \in {"fail", "relay", "ok"} /\ state \notin {"socks5_in_greeting", "udp"}
         \/ w \in {"methods", "nomethod"} /\ state = "socks5_in_greeting"
  PROVE  Received'
<1>0. {"fail", "relay", "ok", "methods", "nomethod"} \subseteq Says BY DEF Says
<1>1. /\ reply' = [what |-> w, sent |-> 0] /\ pc' = "flush" /\ state' \in Responses
      /\ reply'.what = w /\ reply'.sent = 0
  BY DEF Prepare, Responses
<1>2. ~Relaying' BY <1>1 DEF Relaying, Responses
<1>3. Greeted' = Greeted BY DEF Greeted
<1>4. Heard' = Heard
  <2>1. CASE w \in {"fail", "relay", "ok"} /\ state \notin {"socks5_in_greeting", "udp"}
    <3>1. Heard = Greeted BY <2>1 DEF Heard
    <3>2. Heard' = Greeted' \o Run(w, 0, 0) BY <1>1, <1>2, <2>1 DEF Heard
    <3> QED BY <1>0, <1>3, <2>1, <3>1, <3>2, RunsNone
  <2>2. CASE w \in {"methods", "nomethod"} /\ state = "socks5_in_greeting"
    <3>1. Heard = <<>> BY <2>2 DEF Heard
    <3>2. Heard' = Run(w, 0, 0) BY <1>1, <1>2, <2>2 DEF Heard
    <3> QED BY <1>0, <2>2, <3>1, <3>2, RunsNone
  <2> QED BY <2>1, <2>2
<1>5. ASSUME Hears PROVE Hears'
  <2>1. /\ reply'.sent \in 0 .. 1 /\ pc' \notin {"success", "failure"}
        /\ state' \notin {"socks5_in_greeting", "udp", "mux"}
    BY <1>1 DEF Responses
  <2> QED BY <1>1, <1>4, <1>5, <2>1, HearsKept
<1> QED BY <1>1, <1>5, ReceivedKept DEF Responses

LEMMA ReceivedProcessPrefix == ASSUME Control, Carried, Received, ProcessPrefix PROVE Received'
<1> SUFFICES ASSUME ~history'.twice PROVE Received' BY DEF Received
<1>1. /\ UNCHANGED <<conf, got>> /\ history'.twice = history.twice /\ state = "prefix"
      /\ pc = "prefix" /\ reply.what = "nothing"
  BY DEF Control, Simple, Where, Over, Asking, Upstream, Answers, Attempts, States, PCs, Says,
     Inputs, Responses, Before, Local, ProcessPrefix, StartFallback, End, Finalize, outbound
<1>2. Plain BY <1>1 DEF Plain, Relaying
<1>3. CASE End BY <1>1, <1>3, ReceivedEnds DEF End, Finalize
<1>4. CASE ~End
  <2>1. /\ UNCHANGED upq
        /\ \/ /\ UNCHANGED reply /\ pc' \in {"connect", "request", "wait"}
              /\ state' \in {"prefix", "request"}
           \/ /\ reply' = [what |-> "page", sent |-> 0] /\ pc' = "flush" /\ state' = "default_fallback"
    BY <1>1, <1>4 DEF ProcessPrefix, StartFallback, Sleep
  <2>2. CASE /\ UNCHANGED reply /\ pc' \in {"connect", "request", "wait"}
             /\ state' \in {"prefix", "request"}
    <3>1. Plain' BY <1>1, <2>2 DEF Plain, Relaying
    <3> QED BY <1>1, <1>2, <2>1, <2>2, <3>1, ReceivedPlain
  <2>3. CASE reply' = [what |-> "page", sent |-> 0] /\ pc' = "flush" /\ state' = "default_fallback"
    <3>1. conf.kind = "trojan" BY <1>1 DEF Carried, Suits
    <3>2. Heard = Greeted /\ Greeted = <<>> BY <1>2, <3>1, PlainHeard, GreetedTape
    <3>3. ~Relaying' /\ reply'.what = "page" /\ reply'.sent = 0 BY <2>3 DEF Relaying
    <3>4. Heard' = Run("page", 0, 0) BY <3>3 DEF Heard
    <3>5. Heard' = Heard BY <3>2, <3>4, RunsNone DEF Says
    <3>6. ASSUME Hears PROVE Hears'
      <4>1. reply'.sent \in 0 .. 1 BY <3>3
      <4> QED BY <1>1, <1>2, <2>1, <2>3, <3>3, <3>5, <3>6, <4>1, HearsKept DEF Plain
    <3> QED BY <1>1, <2>3, <3>6, ReceivedKept
  <2> QED BY <2>1, <2>2, <2>3
<1> QED BY <1>3, <1>4

LEMMA ReceivedProcessRequest == ASSUME Control, Carried, Received, ProcessRequest PROVE Received'
<1> SUFFICES ASSUME ~history'.twice PROVE Received' BY DEF Received
<1>1. /\ UNCHANGED <<conf, got>> /\ history'.twice = history.twice /\ state = "request"
      /\ pc = "request" /\ reply.what = "nothing"
  BY DEF Control, Simple, Where, Over, Asking, Upstream, Answers, Attempts, States, PCs, Says,
     Inputs, Responses, Before, Local, ProcessRequest, End, Finalize, outbound
<1>2. Plain BY <1>1 DEF Plain, Relaying
<1>3. CASE End BY <1>1, <1>3, ReceivedEnds DEF End, Finalize
<1>4. CASE ~End
  <2>1. /\ UNCHANGED <<reply, upq>> /\ pc' \in {"wait", "start_tcp"}
        /\ state' \in {"request", "udp", "mux"} /\ (pc' = "start_tcp" => state' = "request")
    BY <1>1, <1>4 DEF ProcessRequest, Accept, Sleep
  <2>2. Heard' = Heard
    <3>1. conf.kind = "trojan" BY <1>1 DEF Carried, Suits
    <3>2. Heard = Greeted BY <1>2, PlainHeard
    <3>3. ~Relaying' /\ Greeted' = Greeted BY <1>1, <2>1 DEF Relaying, Greeted
    <3>4. Heard' = Greeted' BY <1>1, <2>1, <3>1, <3>3 DEF Heard
    <3> QED BY <3>2, <3>3, <3>4
  <2>3. ASSUME Hears PROVE Hears'
    <3>1. reply'.sent \in 0 .. 1 BY <2>1, <2>3 DEF Hears
    <3> QED BY <1>1, <1>2, <2>1, <2>2, <2>3, <3>1, HearsKept DEF Plain
  <2> QED BY <1>1, <2>1, <2>3, ReceivedKept
<1> QED BY <1>3, <1>4

LEMMA ReceivedProcessSocks5In == ASSUME Control, Carried, Received, ProcessSocks5In PROVE Received'
<1> SUFFICES ASSUME ~history'.twice PROVE Received' BY DEF Received
<1>1. /\ UNCHANGED <<conf, got>> /\ history'.twice = history.twice
      /\ state \in {"socks5_in_greeting", "socks5_in_request"}
      /\ pc = "socks5_in" /\ reply.what = "nothing" /\ ~Relaying
  BY DEF Control, Simple, Where, Over, Asking, Upstream, Answers, Attempts, States, PCs, Says,
     Inputs, Responses, Before, Local, ProcessSocks5In, Untouched, Relaying, End, Finalize
<1>2. CASE End BY <1>1, <1>2, ReceivedEnds DEF End, Finalize
<1>3. CASE ~End
  <2>1. /\ UNCHANGED upq
        /\ \/ UNCHANGED <<reply, state>> /\ pc' = "wait"
           \/ /\ UNCHANGED reply /\ state = "socks5_in_greeting" /\ state' = "http_in_request"
              /\ pc' = "http_in"
           \/ state = "socks5_in_greeting" /\ \E w \in {"methods", "nomethod"} : Prepare(w)
           \/ state = "socks5_in_request" /\ \E w \in {"relay", "fail"} : Prepare(w)
           \/ UNCHANGED <<reply, state>> /\ state = "socks5_in_request" /\ pc' = "start_tcp"
    BY <1>1, <1>3 DEF ProcessSocks5In, Untouched, Sleep
  <2>2. CASE UNCHANGED <<reply, state>> /\ pc' = "wait" BY <1>1, <2>1, <2>2, ReceivedSame
  <2>3. CASE /\ UNCHANGED reply /\ state = "socks5_in_greeting" /\ state' = "http_in_request"
             /\ pc' = "http_in"
    <3>1. Carried' BY CarriedProcessSocks5In
    <3>2. conf'.kind # "socks5" BY <2>3, <3>1 DEF Carried, Suits
    <3>3. Greeted' = <<>> BY <3>2 DEF Greeted
    <3>4. Heard' = Greeted' /\ Heard = <<>> BY <1>1, <2>3 DEF Heard, Relaying
    <3>5. ASSUME Hears PROVE Hears'
      <4>1. reply'.sent \in 0 .. 1 BY <2>3, <3>5 DEF Hears
      <4> QED BY <1>1, <2>1, <2>3, <3>3, <3>4, <3>5, <4>1, HearsKept
    <3> QED BY <1>1, <2>3, <3>5, ReceivedKept
  <2>4. CASE state = "socks5_in_greeting" /\ \E w \in {"methods", "nomethod"} : Prepare(w)
    <3>1. PICK w \in {"methods", "nomethod"} : Prepare(w) BY <2>4
    <3> QED BY <1>1, <2>1, <2>4, <3>1, ReceivedPrepared
  <2>5. CASE state = "socks5_in_request" /\ \E w \in {"relay", "fail"} : Prepare(w)
    <3>1. PICK w \in {"relay", "fail"} : Prepare(w) BY <2>5
    <3> QED BY <1>1, <2>1, <2>5, <3>1, ReceivedPrepared
  <2>6. CASE UNCHANGED <<reply, state>> /\ state = "socks5_in_request" /\ pc' = "start_tcp"
    BY <1>1, <2>1, <2>6, ReceivedSame DEF Relaying
  <2> QED BY <2>1, <2>2, <2>3, <2>4, <2>5, <2>6
<1> QED BY <1>2, <1>3

LEMMA ReceivedProcessHttpIn == ASSUME Control, Carried, Received, ProcessHttpIn PROVE Received'
<1> SUFFICES ASSUME ~history'.twice PROVE Received' BY DEF Received
<1>1. /\ UNCHANGED <<conf, got>> /\ history'.twice = history.twice /\ state = "http_in_request"
      /\ pc = "http_in" /\ reply.what = "nothing"
  BY DEF Control, Simple, Where, Over, Asking, Upstream, Answers, Attempts, States, PCs, Says,
     Inputs, Responses, Before, Local, ProcessHttpIn, Untouched, End, Finalize
<1>2. Plain BY <1>1 DEF Plain, Relaying
<1>3. CASE End BY <1>1, <1>3, ReceivedEnds DEF End, Finalize
<1>4. CASE ~End
  <2>1. /\ UNCHANGED upq
        /\ \/ UNCHANGED <<reply, state>> /\ pc' \in {"start_tcp", "wait"}
           \/ Prepare("fail")
    BY <1>1, <1>4 DEF ProcessHttpIn, Untouched, Sleep
  <2>2. CASE UNCHANGED <<reply, state>> /\ pc' \in {"start_tcp", "wait"}
    <3>1. Plain' BY <1>1, <2>2 DEF Plain, Relaying
    <3> QED BY <1>1, <1>2, <2>1, <2>2, <3>1, ReceivedPlain
  <2>3. CASE Prepare("fail") BY <1>1, <1>2, <2>1, <2>3, ReceivedPrepared DEF Plain
  <2> QED BY <2>1, <2>2, <2>3
<1> QED BY <1>3, <1>4

LEMMA ReceivedStartTcp == ASSUME Control, Carried, Received, StartTcp PROVE Received'
<1> SUFFICES ASSUME ~history'.twice PROVE Received' BY DEF Received
<1>1. /\ UNCHANGED <<conf, got, upq, reply>> /\ history'.twice = history.twice /\ state # "ended"
      /\ pc' \in {"success", "failure"} => state' \notin Responses
  BY DEF Control, Simple, Where, Over, Asking, Upstream, Answers, Attempts, States, PCs, Says,
     Inputs, Responses, Before, Local, StartTcp, input
<1>2. Hears BY <1>1 DEF Received
<1>3. Plain
  BY <1>2 DEF Hears, Plain, Relaying, Control, Simple, Where, Over, Asking, Upstream, Answers,
     Attempts, States, PCs, Says, Inputs, Responses, Before, Local, StartTcp, input
<1>4. Plain'
  BY <1>3 DEF Plain, Relaying, Control, Simple, Where, Over, Asking, Upstream, Answers,
     Attempts, States, PCs, Says, Inputs, Responses, Before, Local, StartTcp, input
<1>5. state' # "mux"
  BY <1>2 DEF Hears, Control, Simple, Where, Over, Asking, Upstream, Answers, Attempts, States,
     PCs, Says, Inputs, Responses, Before, Local, StartTcp, input
<1> QED BY <1>1, <1>3, <1>4, <1>5, ReceivedPlain

LEMMA ReceivedResolve == ASSUME Control, Carried, Received, Resolve PROVE Received'
<1> SUFFICES ASSUME ~history'.twice PROVE Received' BY DEF Received
<1>1. /\ UNCHANGED <<conf, got, upq, reply>> /\ history'.twice = history.twice /\ state # "ended"
      /\ pc' \in {"success", "failure"} => state' \notin Responses
  BY DEF Control, Simple, Where, Over, Asking, Upstream, Answers, Attempts, States, PCs, Says,
     Inputs, Responses, Before, Local, Resolve, Resolved, input, relayed
<1>2. Hears BY <1>1 DEF Received
<1>3. Plain
  BY <1>2 DEF Hears, Plain, Relaying, Control, Simple, Where, Over, Asking, Upstream, Answers,
     Attempts, States, PCs, Says, Inputs, Responses, Before, Local, Resolve, Resolved, input,
     relayed
<1>4. Plain'
  BY <1>3 DEF Plain, Relaying, Control, Simple, Where, Over, Asking, Upstream, Answers,
     Attempts, States, PCs, Says, Inputs, Responses, Before, Local, Resolve, Resolved, input,
     relayed
<1>5. state' # "mux"
  BY <1>2 DEF Hears, Control, Simple, Where, Over, Asking, Upstream, Answers, Attempts, States,
     PCs, Says, Inputs, Responses, Before, Local, Resolve, Resolved, input, relayed
<1> QED BY <1>1, <1>3, <1>4, <1>5, ReceivedPlain

LEMMA ReceivedQueryDone == ASSUME Control, Carried, Received, QueryDone PROVE Received'
<1> SUFFICES ASSUME ~history'.twice PROVE Received' BY DEF Received
<1>1. /\ UNCHANGED <<conf, got, upq, reply>> /\ history'.twice = history.twice /\ state # "ended"
      /\ pc' \in {"success", "failure"} => state' \notin Responses
  BY DEF Control, Simple, Where, Over, Asking, Upstream, Answers, Attempts, States, PCs, Says,
     Inputs, Responses, Before, Local, QueryDone, Resolved, input, relayed
<1>2. Hears BY <1>1 DEF Received
<1>3. Plain
  BY <1>2 DEF Hears, Plain, Relaying, Control, Simple, Where, Over, Asking, Upstream, Answers,
     Attempts, States, PCs, Says, Inputs, Responses, Before, Local, QueryDone, Resolved, input,
     relayed
<1>4. Plain'
  BY <1>3 DEF Plain, Relaying, Control, Simple, Where, Over, Asking, Upstream, Answers,
     Attempts, States, PCs, Says, Inputs, Responses, Before, Local, QueryDone, Resolved, input,
     relayed
<1>5. state' # "mux"
  BY <1>2 DEF Hears, Control, Simple, Where, Over, Asking, Upstream, Answers, Attempts, States,
     PCs, Says, Inputs, Responses, Before, Local, QueryDone, Resolved, input, relayed
<1> QED BY <1>1, <1>3, <1>4, <1>5, ReceivedPlain

LEMMA ReceivedConnect == ASSUME Control, Carried, Received, Connect PROVE Received'
<1> SUFFICES ASSUME ~history'.twice PROVE Received' BY DEF Received
<1>1. /\ UNCHANGED <<conf, got, upq, reply>> /\ history'.twice = history.twice /\ state # "ended"
      /\ pc' \in {"success", "failure"} => state' \notin Responses
  BY DEF Control, Simple, Where, Over, Asking, Upstream, Answers, Attempts, States, PCs, Says,
     Inputs, Responses, Before, Local, Connect, Next1, Counted, input, relayed
<1>2. Hears BY <1>1 DEF Received
<1>3. Plain
  BY <1>2 DEF Hears, Plain, Relaying, Control, Simple, Where, Over, Asking, Upstream, Answers,
     Attempts, States, PCs, Says, Inputs, Responses, Before, Local, Connect, Next1, Counted,
     input, relayed
<1>4. Plain'
  BY <1>3 DEF Plain, Relaying, Control, Simple, Where, Over, Asking, Upstream, Answers,
     Attempts, States, PCs, Says, Inputs, Responses, Before, Local, Connect, Next1, Counted,
     input, relayed
<1>5. state' # "mux"
  BY <1>2 DEF Hears, Control, Simple, Where, Over, Asking, Upstream, Answers, Attempts, States,
     PCs, Says, Inputs, Responses, Before, Local, Connect, Next1, Counted, input, relayed
<1> QED BY <1>1, <1>3, <1>4, <1>5, ReceivedPlain

LEMMA ReceivedSocks5Connect == ASSUME Control, Carried, Received, Socks5Connect PROVE Received'
<1> SUFFICES ASSUME ~history'.twice PROVE Received' BY DEF Received
<1>1. /\ UNCHANGED <<conf, got, upq, reply>> /\ history'.twice = history.twice /\ state # "ended"
      /\ pc' \in {"success", "failure"} => state' \notin Responses
  BY DEF Control, Simple, Where, Over, Asking, Upstream, Answers, Attempts, States, PCs, Says,
     Inputs, Responses, Before, Local, Socks5Connect, Next1, Counted, input, relayed
<1>2. Hears BY <1>1 DEF Received
<1>3. Plain
  BY <1>2 DEF Hears, Plain, Relaying, Control, Simple, Where, Over, Asking, Upstream, Answers,
     Attempts, States, PCs, Says, Inputs, Responses, Before, Local, Socks5Connect, Next1,
     Counted, input, relayed
<1>4. Plain'
  BY <1>3 DEF Plain, Relaying, Control, Simple, Where, Over, Asking, Upstream, Answers,
     Attempts, States, PCs, Says, Inputs, Responses, Before, Local, Socks5Connect, Next1,
     Counted, input, relayed
<1>5. state' # "mux"
  BY <1>2 DEF Hears, Control, Simple, Where, Over, Asking, Upstream, Answers, Attempts, States,
     PCs, Says, Inputs, Responses, Before, Local, Socks5Connect, Next1, Counted, input, relayed
<1> QED BY <1>1, <1>3, <1>4, <1>5, ReceivedPlain

LEMMA ReceivedSynEnds == ASSUME Control, Carried, Received, SynEnds PROVE Received'
<1> SUFFICES ASSUME ~history'.twice PROVE Received' BY DEF Received
<1>1. /\ UNCHANGED <<conf, state, reply, got, upq>> /\ history'.twice = history.twice
      /\ state # "ended" /\ ((pc' = "init_proxy") <=> (pc = "init_proxy"))
      /\ pc' \in {"success", "failure"} => pc' = pc
  BY DEF Control, Simple, Where, Over, Asking, Upstream, Answers, Attempts, States, PCs, Says,
     Inputs, Responses, Before, Local, SynEnds, input, relayed
<1>2. /\ state = "socks5_in_greeting" /\ pc \in {"socks5_in", "wait"} => pc' \in {"socks5_in", "wait"}
      /\ state \in {"udp", "mux"} /\ pc = "wait" => pc' = "wait"
  BY DEF Control, Simple, Where, Over, Asking, Upstream, Answers, Attempts, States, PCs, Says,
     Inputs, Responses, Before, Local, SynEnds, input, relayed
<1> QED BY <1>1, <1>2, ReceivedSame

LEMMA ReceivedTestConnect == ASSUME Control, Carried, Received, TestConnect PROVE Received'
<1> SUFFICES ASSUME ~history'.twice PROVE Received' BY DEF Received
<1>1. /\ UNCHANGED <<conf, got, upq, reply>> /\ history'.twice = history.twice /\ state # "ended"
      /\ pc' \in {"success", "failure"} => state' \notin Responses
  BY DEF Control, Simple, Where, Over, Asking, Upstream, Answers, Attempts, States, PCs, Says,
     Inputs, Responses, Before, Local, TestConnect, Next1, Counted, Hung, input, relayed
<1>2. Hears BY <1>1 DEF Received
<1>3. Plain
  BY <1>2 DEF Hears, Plain, Relaying, Control, Simple, Where, Over, Asking, Upstream, Answers,
     Attempts, States, PCs, Says, Inputs, Responses, Before, Local, TestConnect, Next1, Counted,
     Hung, input, relayed
<1>4. Plain'
  BY <1>3 DEF Plain, Relaying, Control, Simple, Where, Over, Asking, Upstream, Answers,
     Attempts, States, PCs, Says, Inputs, Responses, Before, Local, TestConnect, Next1, Counted,
     Hung, input, relayed
<1>5. state' # "mux"
  BY <1>2 DEF Hears, Control, Simple, Where, Over, Asking, Upstream, Answers, Attempts, States,
     PCs, Says, Inputs, Responses, Before, Local, TestConnect, Next1, Counted, Hung, input,
     relayed
<1> QED BY <1>1, <1>3, <1>4, <1>5, ReceivedPlain

LEMMA ReceivedProcessSocks5 == ASSUME Control, Carried, Received, ProcessSocks5 PROVE Received'
<1> SUFFICES ASSUME ~history'.twice PROVE Received' BY DEF Received
<1>1. /\ UNCHANGED <<conf, state, reply, got, upq>> /\ pc = "socks5" /\ state # "ended"
      /\ state \in {"socks5_tcp"} \cup Responses
  BY DEF Control, Simple, Where, Over, Asking, Upstream, Answers, Attempts, States, PCs, Says,
     Inputs, Responses, Before, Local, ProcessSocks5, input, relayed
<1>2. CASE state \in Responses
  <2>1. history'.twice BY <1>2 DEF ProcessSocks5, Responses, Control, Simple
  <2> QED BY <2>1 DEF Received
<1>3. CASE state = "socks5_tcp"
  <2>1. UNCHANGED history /\ pc' \in {"socks5", "wait", "failure", "success"}
    BY <1>1, <1>3 DEF ProcessSocks5
  <2>2. Plain
    BY <1>1, <1>3 DEF Plain, Relaying, Control, Simple, Where, Over, Asking, Upstream, Answers,
       Attempts, States, PCs, Says, Inputs, Responses, Before, Local
  <2>3. Plain' BY <1>1, <1>3, <2>1, <2>2 DEF Plain, Relaying
  <2> QED BY <1>1, <1>3, <2>1, <2>2, <2>3, ReceivedPlain DEF Responses
<1> QED BY <1>1, <1>2, <1>3

LEMMA ReceivedSuccess == ASSUME Control, Carried, Received, Success PROVE Received'
<1> SUFFICES ASSUME ~history'.twice PROVE Received' BY DEF Received
<1>1. /\ UNCHANGED <<conf, got, upq>> /\ history'.twice = history.twice
      /\ state # "ended" /\ pc = "success"
  BY DEF Control, Simple, Where, Over, Asking, Upstream, Answers, Attempts, States, PCs, Says,
     Inputs, Responses, Before, Local, Success
<1>2. Hears /\ reply.what = "nothing" /\ state \notin Responses \cup {"socks5_in_greeting", "udp", "mux"}
  BY <1>1 DEF Received, Hears
<1>3. ~Relaying BY <1>1 DEF Relaying, Control, Where, Responses
<1>4. CASE Local
  <2>1. Prepare("ok") BY <1>4 DEF Success
  <2> QED BY <1>1, <1>2, <1>3, <2>1, ReceivedPrepared
<1>5. CASE ~Local
  <2>1. pc' = "init_proxy" /\ UNCHANGED <<state, reply>> BY <1>5 DEF Success
  <2>2. Relaying' BY <2>1 DEF Relaying
  <2>3. Heard' = <<>> BY <1>1, <1>5, <2>2 DEF Heard, Lead, Local
  <2>4. Heard = Greeted BY <1>2, <1>3 DEF Heard
  <2>5. Greeted = <<>> BY <1>5, GreetedTape DEF Local
  <2>6. Hears'
    <3>1. reply'.sent \in 0 .. 1 BY <1>2, <2>1 DEF Hears
    <3> QED BY <1>1, <1>2, <2>1, <2>2, <2>3, <2>4, <2>5, <3>1, HearsKept
  <2> QED BY <1>1, <2>1, <2>6, ReceivedKept
<1> QED BY <1>4, <1>5

LEMMA ReceivedFailure == ASSUME Control, Carried, Received, Failure PROVE Received'
<1> SUFFICES ASSUME ~history'.twice PROVE Received' BY DEF Received
<1>1. /\ UNCHANGED <<conf, got>> /\ history'.twice = history.twice
      /\ state # "ended" /\ pc = "failure"
  BY DEF Control, Simple, Where, Over, Asking, Upstream, Answers, Attempts, States, PCs, Says,
     Inputs, Responses, Before, Local, Failure, End, Finalize
<1>2. Hears /\ reply.what = "nothing" /\ state \notin Responses \cup {"socks5_in_greeting", "udp", "mux"}
  BY <1>1 DEF Received, Hears
<1>3. ~Relaying BY <1>1 DEF Relaying, Control, Where, Responses
<1>4. CASE Local
  <2>1. Prepare("fail") /\ UNCHANGED upq BY <1>4 DEF Failure
  <2> QED BY <1>1, <1>2, <1>3, <2>1, ReceivedPrepared
<1>5. CASE ~Local
  <2>1. End BY <1>5 DEF Failure
  <2> QED BY <1>1, <2>1, ReceivedEnds DEF End, Finalize
<1> QED BY <1>4, <1>5

LEMMA ReceivedInitProxy == ASSUME Control, Carried, Received, InitProxy PROVE Received'
<1> SUFFICES ASSUME ~history'.twice PROVE Received' BY DEF Received
<1>1. /\ UNCHANGED <<conf, reply, got, upq>> /\ history'.twice = history.twice
      /\ state # "ended" /\ state' = "proxy" /\ pc = "init_proxy" /\ pc' = "proxy" /\ reply.what = "nothing"
  BY DEF Control, Simple, Where, Over, Asking, Upstream, Answers, Attempts, States, PCs, Says,
     Inputs, Responses, Before, Local, InitProxy, input, relayed
<1>2. Relaying /\ Relaying' BY <1>1 DEF Relaying
<1>3. Heard' = Heard BY <1>1, <1>2 DEF Heard, Lead, Greeted, Local
<1>4. ASSUME Hears PROVE Hears'
  <2>1. reply'.sent \in 0 .. 1 BY <1>1, <1>4 DEF Hears
  <2> QED BY <1>1, <1>2, <1>3, <1>4, <2>1, HearsKept
<1> QED BY <1>1, <1>4, ReceivedKept

LEMMA ReceivedReadClientCalls == ASSUME Control, Carried, Received, ReadClientCalls PROVE Received'
<1> SUFFICES ASSUME ~history'.twice PROVE Received' BY DEF Received
<1>1. /\ UNCHANGED <<conf, state, reply, got, upq>> /\ history'.twice = history.twice
      /\ state # "ended" /\ ((pc' = "init_proxy") <=> (pc = "init_proxy"))
      /\ pc' \in {"success", "failure"} => pc' = pc
  BY DEF Control, Simple, Where, Over, Asking, Upstream, Answers, Attempts, States, PCs, Says,
     Inputs, Responses, Before, Local, ReadClientCalls, Handles, Kept, input, outbound
<1>2. /\ state = "socks5_in_greeting" /\ pc \in {"socks5_in", "wait"} => pc' \in {"socks5_in", "wait"}
      /\ state \in {"udp", "mux"} /\ pc = "wait" => pc' = "wait"
  BY DEF Control, Simple, Where, Over, Asking, Upstream, Answers, Attempts, States, PCs, Says,
     Inputs, Responses, Before, Local, ReadClientCalls, Handles, Kept, input, outbound
<1> QED BY <1>1, <1>2, ReceivedSame

LEMMA ReceivedReadClientEnds == ASSUME Control, Carried, Received, ReadClientEnds PROVE Received'
<1>1. End /\ UNCHANGED got BY DEF ReadClientEnds
<1>2. state # "ended" BY DEF ReadClientEnds
<1> QED BY <1>1, <1>2, ReceivedEnds DEF End, Finalize

LEMMA ReceivedPeerEvent == ASSUME Control, Carried, Received, PeerEvent PROVE Received'
<1> SUFFICES ASSUME ~history'.twice PROVE Received' BY DEF Received
<1>1. /\ UNCHANGED <<conf, state, reply, got, upq>> /\ history'.twice = history.twice
      /\ state # "ended" /\ ((pc' = "init_proxy") <=> (pc = "init_proxy"))
      /\ pc' \in {"success", "failure"} => pc' = pc
  BY DEF Control, Simple, Where, Over, Asking, Upstream, Answers, Attempts, States, PCs, Says,
     Inputs, Responses, Before, Local, PeerEvent, Kept, input, outbound
<1>2. /\ state = "socks5_in_greeting" /\ pc \in {"socks5_in", "wait"} => pc' \in {"socks5_in", "wait"}
      /\ state \in {"udp", "mux"} /\ pc = "wait" => pc' = "wait"
  BY DEF Control, Simple, Where, Over, Asking, Upstream, Answers, Attempts, States, PCs, Says,
     Inputs, Responses, Before, Local, PeerEvent, Kept, input, outbound
<1> QED BY <1>1, <1>2, ReceivedSame

LEMMA ReceivedSay == ASSUME Control, Carried, Received, Say PROVE Received'
<1> SUFFICES ASSUME ~history'.twice PROVE Received' BY DEF Received
<1>1. /\ UNCHANGED <<conf, state, reply, got, upq>> /\ history'.twice = history.twice
      /\ state # "ended" /\ ((pc' = "init_proxy") <=> (pc = "init_proxy"))
      /\ pc' \in {"success", "failure"} => pc' = pc
  BY DEF Control, Simple, Where, Over, Asking, Upstream, Answers, Attempts, States, PCs, Says,
     Inputs, Responses, Before, Local, Say, outbound
<1>2. /\ state = "socks5_in_greeting" /\ pc \in {"socks5_in", "wait"} => pc' \in {"socks5_in", "wait"}
      /\ state \in {"udp", "mux"} /\ pc = "wait" => pc' = "wait"
  BY DEF Control, Simple, Where, Over, Asking, Upstream, Answers, Attempts, States, PCs, Says,
     Inputs, Responses, Before, Local, Say, outbound
<1> QED BY <1>1, <1>2, ReceivedSame

LEMMA ReceivedWritable == ASSUME Control, Carried, Received, Writable PROVE Received'
<1> SUFFICES ASSUME ~history'.twice PROVE Received' BY DEF Received
<1>1. /\ UNCHANGED <<conf, state, reply, got, upq>> /\ history'.twice = history.twice
      /\ state # "ended" /\ ((pc' = "init_proxy") <=> (pc = "init_proxy"))
      /\ pc' \in {"success", "failure"} => pc' = pc
  BY DEF Control, Simple, Where, Over, Asking, Upstream, Answers, Attempts, States, PCs, Says,
     Inputs, Responses, Before, Local, Writable, input, outbound
<1>2. /\ state = "socks5_in_greeting" /\ pc \in {"socks5_in", "wait"} => pc' \in {"socks5_in", "wait"}
      /\ state \in {"udp", "mux"} /\ pc = "wait" => pc' = "wait"
  BY DEF Control, Simple, Where, Over, Asking, Upstream, Answers, Attempts, States, PCs, Says,
     Inputs, Responses, Before, Local, Writable, input, outbound
<1> QED BY <1>1, <1>2, ReceivedSame

LEMMA ReceivedTimeout ==
  ASSUME Control, Carried, Received, NEW t \in {"cread", "cwrite", "pread", "pwrite"}, Timeout(t)
  PROVE  Received'
<1>1. CASE t = "pwrite"
  <2>1. /\ pc = "wait" /\ "pwrite" \in timers /\ pc' = "failure"
        /\ UNCHANGED <<conf, state, reply, got, upq, history>>
    BY <1>1 DEF Timeout
  <2>2. Plain
    BY <2>1 DEF Plain, Relaying, Control, Simple, Where, Over, Asking, Upstream, Answers,
       Attempts, States, PCs, Says, Inputs, Responses, Before, Local
  <2>3. Plain' BY <2>1, <2>2 DEF Plain, Relaying
  <2>4. state \notin Responses \cup {"mux"}
    BY <2>1 DEF Control, Simple, Where, Over, Asking, Upstream, Answers, Attempts, States, PCs,
       Says, Inputs, Responses, Before, Local
  <2> QED BY <2>1, <2>2, <2>3, <2>4, ReceivedPlain
<1>2. CASE t # "pwrite"
  <2>1. End /\ UNCHANGED got BY <1>2 DEF Timeout
  <2>2. state # "ended" BY DEF Control, Over, Timeout
  <2> QED BY <2>1, <2>2, ReceivedEnds DEF End, Finalize
<1> QED BY <1>1, <1>2

\* What the client hears, from the number of pieces it got and of those to be read.
LEMMA HearsAgain ==
  ASSUME NEW m \in 0 .. MaxUp, NEW k \in 0 .. MaxUp,
         /\ got' = Heard' \o Run("up", 0, m) /\ upq' = Run("up", m, k) /\ m + k <= MaxUp
         /\ ~Relaying' => m = 0,
         reply'.sent \in 0 .. 1,
         ~Relaying' /\ upq' # <<>> => state' \in Responses /\ reply'.what = "ok",
         pc' \in {"success", "failure"} => reply'.what = "nothing" /\ state' \notin Responses,
         state' = "socks5_in_greeting" => pc' \in {"socks5_in", "wait"},
         state' \in {"udp", "mux"} => pc' = "wait"
  PROVE  Hears'
<1>1. (\E a, b \in 0 .. MaxUp :
         /\ got = Heard \o Run("up", 0, a) /\ upq = Run("up", a, b) /\ a + b <= MaxUp
         /\ ~Relaying => a = 0)'
  OBVIOUS
<1>2. Responses' = Responses BY DEF Responses
<1> QED BY <1>1, <1>2 DEF Hears

\* None of a reply is taken for a piece of the upstream.
LEMMA SaidNotUp ==
  ASSUME NEW n \in 0 .. 2
  PROVE  /\ Greeted \o Run("ok", 0, n) \in Tapes
         /\ \A i \in 1 .. Len(Greeted \o Run("ok", 0, n)) : (Greeted \o Run("ok", 0, n))[i][1] # "up"
<1>0. {"ok", "methods"} \subseteq Says BY DEF Says
<1>1. PICK z \in Nat, k \in Nat : z = 0 /\ k = n OBVIOUS
<1>2. PICK b \in Tapes : b = Run("ok", z, k) /\ Len(b) = k /\ \A i \in 1 .. k : b[i] = <<"ok", z + i>>
  BY <1>0, RunFacts
<1>3. PICK a \in Tapes : a = Greeted /\ \A i \in 1 .. Len(a) : a[i][1] # "up"
  <2>1. CASE conf.kind = "socks5"
    <3>1. Greeted = Run("methods", 0, 2) BY <1>0, <2>1, WholeRun DEF Greeted
    <3>2. PICK y \in Nat, l \in Nat : y = 0 /\ l = 2 OBVIOUS
    <3>3. PICK a \in Tapes : a = Run("methods", y, l) /\ Len(a) = l
                             /\ \A i \in 1 .. l : a[i] = <<"methods", y + i>>
      BY <1>0, RunFacts
    <3>4. \A i \in 1 .. Len(a) : a[i][1] = "methods" BY <3>3
    <3>5. a = Greeted BY <3>1, <3>2, <3>3
    <3> QED BY <3>4, <3>5
  <2>2. CASE conf.kind # "socks5"
    <3>1. <<>> \in Tapes /\ Greeted = <<>> /\ Len(<<>>) = 0 BY <2>2, GreetedTape, TapeFacts
    <3>2. PICK a \in Tapes : a = Greeted /\ Len(a) = 0 BY <3>1
    <3> QED BY <3>2
  <2> QED BY <2>1, <2>2
<1>4. a \o b \in Tapes /\ Len(a \o b) = Len(a) + Len(b) /\ Len(a) \in Nat /\ Len(b) \in Nat
  BY TapeFacts
<1>5. ASSUME NEW i \in 1 .. Len(a) + Len(b) PROVE (a \o b)[i][1] # "up"
  <2>1. (a \o b)[i] = IF i <= Len(a) THEN a[i] ELSE b[i - Len(a)] BY JoinedMarks
  <2>2. CASE i <= Len(a)
    <3>1. i \in 1 .. Len(a) BY <1>4, <2>2
    <3> QED BY <1>3, <2>1, <2>2, <3>1
  <2>3. CASE ~(i <= Len(a))
    <3>1. i - Len(a) \in 1 .. k BY <1>2, <1>4, <2>3
    <3>2. b[i - Len(a)][1] = "ok" BY <1>2, <3>1
    <3> QED BY <2>1, <2>3, <3>2
  <2> QED BY <2>2, <2>3
<1> QED BY <1>1, <1>2, <1>3, <1>4, <1>5

\* What is said before the pieces of the upstream holds none of them.
LEMMA HeardReply ==
  ASSUME reply.sent \in 0 .. 1, Relaying \/ reply.what = "ok"
  PROVE  Heard \in Tapes /\ \A i \in 1 .. Len(Heard) : Heard[i][1] # "up"
<1>1. "ok" \in Says BY DEF Says
<1>2. CASE Relaying /\ Local
  <2>1. PICK n \in 0 .. 2 : n = 2 OBVIOUS
  <2>2. Heard = Greeted \o Run("ok", 0, n) BY <1>1, <1>2, <2>1, WholeRun DEF Heard, Lead
  <2> QED BY <2>2, SaidNotUp
<1>3. CASE Relaying /\ ~Local
  <2>1. Heard = <<>> /\ <<>> \in Tapes /\ Len(<<>>) = 0 BY <1>3, TapeFacts DEF Heard, Lead
  <2> QED BY <2>1
<1>4. CASE ~Relaying
  <2>1. PICK n \in 0 .. 2 : n = reply.sent OBVIOUS
  <2>2. Heard = Greeted \o Run("ok", 0, n) BY <1>4, <2>1 DEF Heard
  <2> QED BY <2>2, SaidNotUp
<1> QED BY <1>2, <1>3, <1>4

LEMMA ReceivedUpEvent == ASSUME Control, Carried, Received, UpEvent PROVE Received'
<1> SUFFICES ASSUME ~history'.twice PROVE Received' BY DEF Received
<1>1. /\ UNCHANGED <<conf, state, pc, reply, got>> /\ history'.twice = history.twice
      /\ state # "ended" /\ up = "open"
  BY DEF Control, Simple, Where, Over, Asking, Upstream, Answers, Attempts, States, PCs, Says,
     Inputs, Responses, Before, Local, UpEvent, input, outbound
<1>2. CASE UNCHANGED upq BY <1>1, <1>2, ReceivedSame
<1>3. CASE upq' # upq
  <2> DEFINE n == Len(upq) + Cardinality({i \in 1 .. Len(got) : got[i][1] = "up"})
  <2>1. /\ state \in Responses \cup {"proxy"} /\ n < MaxUp /\ upq' = Append(upq, <<"up", n + 1>>)
    BY <1>3 DEF UpEvent, Responses
  <2>2. Hears BY <1>1 DEF Received
  <2>3. PICK m \in 0 .. MaxUp, k \in 0 .. MaxUp :
          /\ got = Heard \o Run("up", 0, m) /\ upq = Run("up", m, k) /\ m + k <= MaxUp
          /\ ~Relaying => m = 0
    BY <2>2 DEF Hears
  <2>4. m \in Nat /\ k \in Nat /\ MaxUp \in Nat BY ConstantsAssumption
  <2>5. Relaying \/ reply.what = "ok"
    BY <1>1, <2>1 DEF Relaying, Control, Simple, Where, Over, Asking, Upstream, Answers,
       Attempts, States, PCs, Says, Inputs, Responses, Before, Local
  <2>6. PICK h \in Tapes : h = Heard /\ \A i \in 1 .. Len(h) : h[i][1] # "up" 
    <3>1. reply.sent \in 0 .. 1 BY <2>2 DEF Hears
    <3> QED BY <2>5, <3>1, HeardReply
  <2>7. got = h \o Run("up", 0, m) BY <2>3, <2>6
  <2>8. Cardinality({i \in 1 .. Len(got) : got[i][1] = "up"}) = m
    <3>1. PICK g : g = got /\ g = h \o Run("up", 0, m) BY <2>7
    <3>2. Cardinality({i \in 1 .. Len(g) : g[i][1] = "up"}) = m
      <4> HIDE <2>3
      <4> QED BY <2>4, <2>6, <3>1, UpsCount
    <3> QED BY <3>1, <3>2
  <2>9. Len(upq) = k BY <2>3, <2>4, RunFacts
  <2>10. n = m + k /\ m + k + 1 <= MaxUp BY <2>1, <2>4, <2>8, <2>9
  <2>11. Append(Run("up", m, k), <<"up", m + k + 1>>) = Run("up", m, k + 1) BY <2>4, RunMore
  <2>12. PICK l \in 0 .. MaxUp : l = k + 1 BY <2>4, <2>10
  <2>13. upq' = Run("up", m, l) BY <2>1, <2>3, <2>10, <2>11, <2>12
  <2>14. m + l <= MaxUp BY <2>4, <2>10, <2>12
  <2>15. Relaying' = Relaying BY <1>1 DEF Relaying
  <2>16. Heard' = Heard BY <1>1, <2>15 DEF Heard, Lead, Greeted, Local
  <2>17. /\ got' = Heard' \o Run("up", 0, m) /\ upq' = Run("up", m, l) /\ m + l <= MaxUp
         /\ ~Relaying' => m = 0
    BY <1>1, <2>3, <2>13, <2>14, <2>15, <2>16
  <2>18. ~Relaying' => state' \in Responses /\ reply'.what = "ok"
    BY <1>1, <2>1, <2>5, <2>15 DEF Relaying
  <2>19. /\ reply'.sent \in 0 .. 1
         /\ pc' \in {"success", "failure"} => reply'.what = "nothing" /\ state' \notin Responses
         /\ state' = "socks5_in_greeting" => pc' \in {"socks5_in", "wait"}
         /\ state' \in {"udp", "mux"} => pc' = "wait"
    BY <1>1, <2>2 DEF Hears
  <2>20. Hears' BY <2>17, <2>18, <2>19, HearsAgain
  <2>21. state' # "ended" BY <1>1
  <2> QED BY <1>1, <2>20, <2>21, ReceivedKept
<1> QED BY <1>2, <1>3

LEMMA ReceivedProcessProxy == ASSUME Control, Carried, Received, ProcessProxy PROVE Received'
<1> SUFFICES ASSUME ~history'.twice PROVE Received' BY DEF Received
<1>1. /\ pc = "proxy" /\ state = "proxy" /\ UNCHANGED <<conf, reply>> /\ history'.twice = history.twice
      /\ got' = got \o upq /\ upq' = <<>> /\ pc' = "wait" /\ state' \in {"proxy", "ended"}
      /\ reply.what = "nothing"
  BY DEF Control, Simple, Where, Over, Asking, Upstream, Answers, Attempts, States, PCs, Says,
     Inputs, Responses, Before, Local, ProcessProxy, Finalize
<1>2. Hears /\ Relaying BY <1>1 DEF Received, Relaying
<1>3. PICK m \in 0 .. MaxUp, k \in 0 .. MaxUp :
        got = Heard \o Run("up", 0, m) /\ upq = Run("up", m, k) /\ m + k <= MaxUp
  BY <1>2 DEF Hears
<1>4. m \in Nat /\ k \in Nat /\ MaxUp \in Nat BY ConstantsAssumption
<1>5. Heard = Lead /\ 0 \in 0 .. MaxUp BY <1>2, <1>4 DEF Heard
<1>6. PICK h \in Tapes : h = Lead BY <1>5, ProperPieces
<1>7. m + k \in 0 .. MaxUp BY <1>3, <1>4
<1>8. got' = Lead \o Run("up", 0, m + k)
  <2>1. PICK z \in Nat, y \in Nat : z = 0 /\ y = z + m BY <1>4
  <2>2. PICK a \in Tapes, b \in Tapes : a = Run("up", z, m) /\ b = Run("up", y, k)
    BY <1>4, <2>1, RunFacts
  <2>3. a \o b = Run("up", z, m + k)
    <3>1. RunsOn("up", z, m, k) BY <1>4, RunJoin
    <3> QED BY <2>1, <2>2, <3>1, Zenon DEF RunsOn
  <2>4. (h \o a) \o b = h \o (a \o b)
    <3>1. Regroups(h, a, b) BY TapeJoins, Zenon
    <3> QED BY <3>1, Zenon DEF Regroups
  <2>5. y = m BY <1>4, <2>1
  <2>6. got = h \o a BY <1>3, <1>5, <1>6, <2>1, <2>2
  <2>7. upq = b BY <1>3, <2>2, <2>5
  <2>8. got' = (h \o a) \o b BY <1>1, <2>6, <2>7
  <2> QED BY <1>6, <2>1, <2>3, <2>4, <2>8
<1>9. CASE state' = "ended"
  <2>1. Proper(Lead \o Run("up", 0, m + k)) BY <1>7, ProperPieces
  <2>2. Proper(got') BY <1>8, <2>1
  <2>3. Proper(got)' = Proper(got') BY <1>1 DEF Proper, Local, Replies, Ups, Greeted
  <2> QED BY <1>9, <2>2, <2>3 DEF Received
<1>10. CASE state' = "proxy"
  <2>1. Relaying' BY <1>10 DEF Relaying
  <2>2. Heard' = Lead BY <1>1, <2>1 DEF Heard, Lead, Greeted, Local
  <2>3. PICK l \in 0 .. MaxUp, z \in 0 .. MaxUp : l = m + k /\ z = 0 BY <1>4, <1>7
  <2>4. Run("up", l, 0) = <<>> BY RunNone
  <2>5. /\ got' = Heard' \o Run("up", 0, l) /\ upq' = Run("up", l, z) /\ l + z <= MaxUp
        /\ ~Relaying' => l = 0
    BY <1>1, <1>8, <2>1, <2>2, <2>3, <2>4
  <2>6. reply'.sent \in 0 .. 1 BY <1>1, <1>2 DEF Hears
  <2>7. Hears' BY <1>1, <1>10, <2>1, <2>5, <2>6, HearsAgain
  <2> QED BY <1>1, <1>10, <2>7, ReceivedKept
<1> QED BY <1>1, <1>9, <1>10

LEMMA ReceivedFlush == ASSUME Control, Carried, Received, Flush PROVE Received'
<1> SUFFICES ASSUME ~history'.twice PROVE Received' BY DEF Received
<1>0. conf.kind \in {"trojan", "socks5", "http"} BY DEF Carried, Script
<1>1. /\ pc = "flush" /\ reply.what \in {"methods", "nomethod", "ok", "fail", "page", "relay"}
      /\ state \in Responses \cup {"default_fallback"} /\ UNCHANGED conf
      /\ history'.twice = history.twice
  BY DEF Control, Simple, Where, Over, Asking, Upstream, Answers, Attempts, States, PCs, Says,
     Inputs, Responses, Before, Local, Flush, Sends, End, Finalize
<1>2. Hears /\ ~Relaying /\ state # "ended" BY <1>1 DEF Received, Relaying, Responses
<1>3. PICK s \in 0 .. 1 : s = reply.sent BY <1>2 DEF Hears
<1>4. PICK w \in Says : w = reply.what BY <1>1 DEF Says
<1>5. PICK n \in 0 .. Parts - s :
        /\ got' = got \o [i \in 1 .. n |-> <<w, s + i>>]
        /\ IF s + n # Parts
           THEN /\ reply' = [reply EXCEPT !.sent = s + n] /\ pc' = "wait"
                /\ UNCHANGED <<conf, state, upq>>
           ELSE IF w \in {"fail", "nomethod", "page"} THEN End
           ELSE AfterReply /\ reply' = [what |-> "nothing", sent |-> 0] /\ UNCHANGED <<conf, upq>>
  BY <1>3, <1>4 DEF Flush
<1>6. n \in 0 .. 2 - s /\ s \in Nat /\ n \in Nat /\ Parts = 2 BY <1>3, <1>5 DEF Parts
\* What was said before this reply, and this reply up to the part it got to.
<1> DEFINE p == IF w \in {"methods", "nomethod", "page"} THEN <<>> ELSE Greeted
<1>7. p \in Tapes BY GreetedTape, TapeFacts
<1>8. got = p \o Run(w, 0, s)
  <2>1. got = Heard \o Run("up", 0, 0) BY <1>2 DEF Hears
  <2>2. Run(w, 0, s) \in Tapes
    <3>1. PICK z \in Nat : z = 0 OBVIOUS
    <3> QED BY <1>6, <3>1, RunFacts
  <2>3. Heard = p \o Run(w, 0, s)
    <3>1. CASE w \in {"methods", "nomethod", "page"}
      <4>1. Heard = Run(w, 0, s) BY <1>2, <1>3, <1>4, <3>1 DEF Heard
      <4> QED BY <2>2, <3>1, <4>1, TapeFacts
    <3>2. CASE w \notin {"methods", "nomethod", "page"}
      BY <1>1, <1>2, <1>3, <1>4, <3>2 DEF Heard
    <3> QED BY <3>1, <3>2
  <2>4. Heard \in Tapes
    <3>1. PICK a \in Tapes, b \in Tapes : a = p /\ b = Run(w, 0, s) BY <1>7, <2>2
    <3> QED BY <2>3, <3>1, TapeFacts
  <2> QED BY <2>1, <2>3, <2>4, RunsNone, TapeFacts
<1>9. got' = p \o Run(w, 0, s + n)
  <2>1. PICK z \in Nat, y \in Nat : z = 0 /\ y = z + s BY <1>6
  <2>2. PICK a \in Tapes, b \in Tapes : a = Run(w, z, s) /\ b = Run(w, y, n) BY <1>6, <2>1, RunFacts
  <2>3. a \o b = Run(w, z, s + n)
    <3>1. RunsOn(w, z, s, n) BY <1>6, RunJoin
    <3> QED BY <2>1, <2>2, <3>1, Zenon DEF RunsOn
  <2>4. PICK q \in Tapes : q = p /\ (q \o a) \o b = q \o (a \o b)
    <3>1. Regroups(p, a, b) BY <1>7, TapeJoins, Zenon
    <3> QED BY <1>7, <3>1, Zenon DEF Regroups
  <2>5. y = s BY <1>6, <2>1
  <2>6. [i \in 1 .. n |-> <<w, s + i>>] = b BY <2>2, <2>5 DEF Run
  <2>7. got' = (q \o a) \o b BY <1>5, <1>8, <2>1, <2>2, <2>4, <2>6
  <2> QED BY <2>1, <2>3, <2>4, <2>7
<1>10. /\ w = "page" => conf.kind = "trojan"
       /\ w \in {"methods", "nomethod", "relay"} => conf.kind = "socks5"
       /\ w \in {"ok", "fail"} => Local
  BY <1>4 DEF Carried, Suits
<1>11. Greeted' = Greeted /\ Local' = Local BY <1>1 DEF Greeted, Local
<1>12. upq # <<>> => w = "ok" BY <1>2, <1>4 DEF Hears
<1>13. PICK k \in 0 .. MaxUp : upq = Run("up", 0, k) /\ 0 + k <= MaxUp BY <1>2 DEF Hears
<1>14. 0 \in 0 .. MaxUp BY ConstantsAssumption
<1>15. got' = (p \o Run(w, 0, s + n)) \o Run("up", 0, 0) /\ p \o Run(w, 0, s + n) \in Tapes
  <2>1. PICK z \in Nat, l \in Nat : z = 0 /\ l = s + n BY <1>6
  <2>2. PICK a \in Tapes, b \in Tapes : a = p /\ b = Run(w, z, l) BY <1>6, <1>7, <2>1, RunFacts
  <2>3. a \o b \in Tapes BY TapeFacts
  <2>4. PICK g \in Tapes : g = a \o b /\ g \o <<>> = g BY <2>3, TapeFacts
  <2> QED BY <1>9, <2>1, <2>2, <2>4, RunsNone
<1> HIDE DEF p
\* There is more to say.
<1>16. CASE s + n # Parts
  <2>1. /\ reply'.what = w /\ reply'.sent = s + n /\ pc' = "wait" /\ UNCHANGED <<state, upq>>
    BY <1>4, <1>5, <1>16 DEF Control, Simple
  <2>2. ~Relaying' BY <1>1, <2>1 DEF Relaying, Responses
  <2>3. Heard' = p \o Run(w, 0, s + n)
    <3>1. CASE w \in {"methods", "nomethod", "page"}
      <4>1. Heard' = Run(w, 0, s + n) BY <2>1, <2>2, <3>1 DEF Heard
      <4>2. PICK z \in Nat, l \in Nat : z = 0 /\ l = s + n BY <1>6
      <4>3. PICK b \in Tapes : b = Run(w, z, l) BY <4>2, RunFacts
      <4>4. <<>> \o b = b BY TapeFacts
      <4> QED BY <3>1, <4>1, <4>2, <4>3, <4>4 DEF p
    <3>2. CASE w \notin {"methods", "nomethod", "page"}
      BY <1>1, <1>4, <1>11, <2>1, <2>2, <3>2 DEF Heard, p
    <3> QED BY <3>1, <3>2
  <2>4. /\ got' = Heard' \o Run("up", 0, 0) /\ upq' = Run("up", 0, k) /\ 0 + k <= MaxUp
        /\ ~Relaying' => 0 = 0
    BY <1>13, <1>15, <2>1, <2>3
  <2>5. reply'.sent \in 0 .. 1 BY <1>3, <1>6, <1>16, <2>1
  <2>6. /\ state' \notin {"socks5_in_greeting", "udp", "mux", "ended"}
        /\ upq' # <<>> => state' \in Responses /\ reply'.what = "ok"
    BY <1>1, <1>2, <1>4, <2>1 DEF Hears, Responses
  <2>7. Hears' BY <1>14, <2>1, <2>4, <2>5, <2>6, HearsAgain
  <2> QED BY <1>1, <1>2, <2>6, <2>7, ReceivedKept
\* All is said, and the session ends.
<1>17. CASE s + n = Parts /\ w \in {"fail", "nomethod", "page"}
  <2>1. state' = "ended" BY <1>5, <1>17 DEF End, Finalize
  <2>2. got' = p \o Run(w, 0, 2) BY <1>6, <1>9, <1>17
  <2>3. Proper(got')
    <3>1. 2 \in 0 .. 2 OBVIOUS
    <3>2. CASE w = "fail" BY <1>0, <1>10, <2>2, <3>1, <3>2, ProperSaid DEF p
    <3>3. CASE w = "nomethod" BY <1>0, <1>10, <2>2, <3>1, <3>3, ProperSaid DEF p
    <3>4. CASE w = "page" BY <1>0, <1>10, <2>2, <3>1, <3>4, ProperSaid DEF p
    <3> QED BY <1>17, <3>2, <3>3, <3>4
  <2>4. Proper(got)' = Proper(got') BY <1>1 DEF Proper, Local, Replies, Ups, Greeted
  <2> QED BY <2>1, <2>3, <2>4 DEF Received
\* All is said, and the session goes on.
<1>18. CASE s + n = Parts /\ w \in {"methods", "relay", "ok"}
  <2>1. /\ AfterReply /\ reply' = [what |-> "nothing", sent |-> 0] /\ UNCHANGED upq
    BY <1>5, <1>18
  <2>2. got' = p \o Whole(w) /\ p \o Whole(w) \in Tapes /\ Whole(w) \in Tapes
    <3>1. got' = p \o Run(w, 0, 2) BY <1>6, <1>9, <1>18
    <3>2. Run(w, 0, 2) = Whole(w) /\ Whole(w) \in Tapes BY WholeRun
    <3> QED BY <1>7, <3>1, <3>2, TapeFacts
  <2>3. got' = (p \o Whole(w)) \o Run("up", 0, 0) BY <2>2, RunsNone, TapeFacts
  <2>4. \/ w = "ok" /\ pc' = "init_proxy" /\ state' = state
        \/ w = "methods" /\ pc' = "socks5_in" /\ state' = "socks5_in_request"
        \/ w = "relay" /\ pc' = "wait" /\ state' = "udp"
    BY <1>4, <1>18, <2>1 DEF AfterReply
  <2>5. reply'.what = "nothing" /\ reply'.sent = 0 BY <2>1
  <2>6. Heard' = p \o Whole(w) /\ (~Relaying' => w # "ok")
    <3>1. CASE w = "ok"
      <4>1. Relaying' BY <2>4, <3>1 DEF Relaying
      <4>2. Heard' = Greeted \o Whole("ok") BY <1>10, <1>11, <3>1, <4>1 DEF Heard, Lead
      <4> QED BY <3>1, <4>1, <4>2 DEF p
    <3>2. CASE w = "methods"
      <4>1. ~Relaying' BY <2>4, <3>2 DEF Relaying
      <4>2. Heard' = Greeted BY <1>11, <2>4, <2>5, <3>2, <4>1 DEF Heard
      <4>3. Greeted = Whole("methods") BY <1>10, <3>2 DEF Greeted
      <4>4. <<>> \o Whole(w) = Whole(w) BY <2>2, TapeFacts
      <4> QED BY <3>2, <4>1, <4>2, <4>3, <4>4 DEF p
    <3>3. CASE w = "relay"
      <4>1. ~Relaying' BY <2>4, <3>3 DEF Relaying
      <4>2. conf'.kind = "socks5" BY <1>1, <1>10, <3>3
      <4>3. Heard' = Greeted \o Whole("relay") BY <1>11, <2>4, <2>5, <3>3, <4>1, <4>2 DEF Heard
      <4> QED BY <3>3, <4>1, <4>3 DEF p
    <3> QED BY <1>18, <3>1, <3>2, <3>3
  <2>7. /\ got' = Heard' \o Run("up", 0, 0) /\ upq' = Run("up", 0, k) /\ 0 + k <= MaxUp
        /\ ~Relaying' => 0 = 0
    BY <1>13, <2>1, <2>3, <2>6
  <2>8. ~Relaying' => upq' = <<>> BY <1>12, <2>1, <2>6
  <2>9. /\ reply'.sent \in 0 .. 1 /\ pc' \notin {"success", "failure"}
        /\ state' \notin {"socks5_in_greeting", "mux", "ended"} /\ (state' = "udp" => pc' = "wait")
    BY <1>1, <2>4, <2>5 DEF Responses
  <2>10. Hears' BY <1>14, <2>7, <2>8, <2>9, HearsAgain
  <2> QED BY <1>1, <1>2, <2>9, <2>10, ReceivedKept
<1> QED BY <1>1, <1>4, <1>16, <1>17, <1>18

LEMMA ReceivedStep == Control /\ Carried /\ Received /\ [Next]_vars => Received'
<1> SUFFICES ASSUME Control, Carried, Received, [Next]_vars PROVE Received' OBVIOUS
<1>1. CASE ProcessPrefix BY <1>1, ReceivedProcessPrefix
<1>2. CASE ProcessRequest BY <1>2, ReceivedProcessRequest
<1>3. CASE ProcessSocks5In BY <1>3, ReceivedProcessSocks5In
<1>4. CASE ProcessHttpIn BY <1>4, ReceivedProcessHttpIn
<1>5. CASE StartTcp BY <1>5, ReceivedStartTcp
<1>6. CASE Resolve BY <1>6, ReceivedResolve
<1>7. CASE QueryDone BY <1>7, ReceivedQueryDone
<1>8. CASE Connect BY <1>8, ReceivedConnect
<1>9. CASE Socks5Connect BY <1>9, ReceivedSocks5Connect
<1>10. CASE SynEnds BY <1>10, ReceivedSynEnds
<1>11. CASE TestConnect BY <1>11, ReceivedTestConnect
<1>12. CASE ProcessSocks5 BY <1>12, ReceivedProcessSocks5
<1>13. CASE Success BY <1>13, ReceivedSuccess
<1>14. CASE Failure BY <1>14, ReceivedFailure
<1>15. CASE Flush BY <1>15, ReceivedFlush
<1>16. CASE InitProxy BY <1>16, ReceivedInitProxy
<1>17. CASE ProcessProxy BY <1>17, ReceivedProcessProxy
<1>18. CASE ReadClient
  BY <1>18, ReadClientCases, ReceivedReadClientCalls, ReceivedReadClientEnds
<1>19. CASE PeerEvent BY <1>19, ReceivedPeerEvent
<1>20. CASE Say BY <1>20, ReceivedSay
<1>21. CASE Writable BY <1>21, ReceivedWritable
<1>22. CASE UpEvent BY <1>22, ReceivedUpEvent
<1>23. CASE \E t \in {"cread", "cwrite", "pread", "pwrite"} : Timeout(t) BY <1>23, ReceivedTimeout
<1>24. CASE UNCHANGED vars
  <2>1. UNCHANGED <<conf, state, pc, reply, got, upq, history>> BY <1>24 DEF vars, input, outbound
  <2>2. Heard' = Heard /\ Relaying' = Relaying BY <2>1 DEF Heard, Lead, Relaying, Greeted, Local
  <2>3. CASE state = "ended" BY <2>1, <2>3 DEF Received, Proper, Local, Replies, Ups, Greeted
  <2>4. CASE state # "ended" BY <2>1, <2>4, ReceivedSame
  <2> QED BY <2>3, <2>4
<1> QED
  BY <1>1, <1>2, <1>3, <1>4, <1>5, <1>6, <1>7, <1>8, <1>9, <1>10, <1>11, <1>12, <1>13, <1>14,
     <1>15, <1>16, <1>17, <1>18, <1>19, <1>20, <1>21, <1>22, <1>23, <1>24 DEF Next, Runs

\* What a local client receives is one whole reply to its request, and what the
\* upstream sent only after a reply that says the tunnel is open.
THEOREM OneReplyAlways == Spec => []OneReply
<1>1. Init => Received
  <2> SUFFICES ASSUME Init PROVE Received OBVIOUS
  <2>1. /\ conf.kind \in {"trojan", "socks5", "http"} /\ state # "ended" /\ reply.sent = 0
        /\ reply.what = "nothing" /\ got = <<>> /\ upq = <<>>
        /\ state \in {"prefix", "socks5_in_greeting", "http_in_request"}
        /\ state = "socks5_in_greeting" => pc = "socks5_in"
        /\ state \in {"prefix", "http_in_request"} => conf.kind # "socks5"
        /\ pc \in {"prefix", "socks5_in", "http_in"}
    <3>1. Control /\ Carried BY ControlInit, CarriedInit
    <3>2. conf.kind \in {"trojan", "socks5", "http"} /\ reply.what = "nothing" /\ got = <<>> /\ upq = <<>>
          /\ reply.sent = 0
      BY <3>1 DEF Init, Carried, Script
    <3>3. CASE conf.kind = "trojan" BY <3>2, <3>3 DEF Init
    <3>4. CASE conf.kind = "socks5" BY <3>2, <3>4 DEF Init
    <3>5. CASE conf.kind = "http" BY <3>2, <3>5 DEF Init
    <3> QED BY <3>2, <3>3, <3>4, <3>5
  <2>2. ~Relaying BY <2>1 DEF Relaying
  <2>3. Heard = <<>> BY <2>1, <2>2, GreetedTape DEF Heard
  <2>4. PICK z \in 0 .. MaxUp : z = 0 BY ConstantsAssumption
  <2>5. Run("up", 0, 0) = <<>> /\ <<>> \o <<>> = <<>> BY RunsNone, TapeFacts
  <2>6. got = Heard \o Run("up", 0, z) /\ upq = Run("up", z, z) /\ z + z <= MaxUp
    BY <2>1, <2>3, <2>4, <2>5
  <2>7. reply.sent \in 0 .. 1 BY <2>1
  <2>8. Hears BY <2>1, <2>2, <2>4, <2>6, <2>7 DEF Hears
  <2> QED BY <2>1, <2>8 DEF Received
<1>2. Init => Control /\ Carried /\ Received BY <1>1, ControlInit, CarriedInit
<1>3. (Control /\ Carried /\ Received) /\ [Next]_vars => (Control /\ Carried /\ Received)'
  BY ControlStep, CarriedStep, ReceivedStep
<1>4. Control /\ Carried /\ Received => OneReply
  <2> SUFFICES ASSUME Control, Carried, Received, ~history.twice PROVE OneReply BY DEF OneReply
  <2>1. Proper(got) BY HearsProper DEF Received
  <2> QED BY <2>1 DEF Proper, OneReply
<1> QED BY <1>2, <1>3, <1>4, PTL DEF Spec
=============================================================================
