------------------------------ MODULE Session ------------------------------
(***************************************************************************)
(* One TCP session up to and into its relay phase: the Trojan prefix and   *)
(* request, the local SOCKS5 and HTTP CONNECT inbounds, the fallback, the  *)
(* resolution of the target, the attempts at its addresses, the handshake  *)
(* with a SOCKS5 outbound, the reply to a local client and the end.        *)
(*                                                                         *)
(* The handlers of one session run one at a time: "pc" is the function the *)
(* running handler is in, "wait" is the event loop.  Events are edges: one *)
(* is gone when its handler has been called, whatever that handler read.   *)
(* The relay phase itself is module Relay; here it passes on what there    *)
(* is.  Sessions that become UDP or Mux ones are handed over.              *)
(***************************************************************************)
EXTENDS Integers, SequencesExt

CONSTANTS
  Kinds,     \* inbounds: "trojan", "socks5", "http"
  Outbounds, \* "direct", "socks5"
  Lookups,   \* resolution of the target: "none" (an address), "resolver", "doh"
  MaxAddrs,  \* addresses of a target, of the fallback, of a SOCKS5 server
  Data,      \* what the client sends after its request
  MaxUp      \* bound: pieces the upstream sends

ASSUME ConstantsAssumption ==
  /\ Kinds \subseteq {"trojan", "socks5", "http"} /\ Outbounds \subseteq {"direct", "socks5"}
  /\ Lookups \subseteq {"none", "resolver", "doh"} /\ MaxAddrs \in Nat \ {0} /\ MaxUp \in Nat
  /\ Data \in Seq(STRING)

VARIABLES
  conf,     \* the configuration the session meets, and what its client will send
  state,    \* ctx->state
  pc,       \* the function that runs
  told,     \* what the client has sent
  sock,     \* what of it is in the socket
  buf,      \* prefix, request, socks5_buffer or http_buffer, as input
  pending,  \* pending_to_upstream
  reply,    \* socks5_buffer or http_buffer as output: what it says, and the parts sent
  got,      \* what the client received
  query,    \* resolver_ctx and doh_ctx, and the record type to ask for next
  up,       \* the upstream connection
  naddrs, index, \* connect_naddrs or socks5_naddrs, and the one being tried
  handler,  \* the handler of the upstream's events
  step,     \* socks5_step
  upq,      \* what the upstream sent and nobody read
  upgot,    \* what the upstream received
  ev,       \* edges that were not handled yet
  timers,   \* timers that run
  history   \* why attempts failed; whether a reply was prepared twice

vars == <<conf, state, pc, told, sock, buf, pending, reply, got, query, up, naddrs, index,
          handler, step, upq, upgot, ev, timers, history>>
input    == <<told, sock, buf>>
outbound == <<query, up, naddrs, index, handler, step>>
relayed  == <<upq, upgot, pending>>

\* What a client may open with, then its request, then data.
Opening(k) ==
  CASE k = "trojan" -> {<<"key", "right">>, <<"key", "wrong">>, <<"lf", "wrong">>}
    [] k = "socks5" -> {<<"methods">>, <<"nomethod">>}
    [] k = "http"   -> {<<"head">>}
Requests(k) ==
  {"connect", "blocked", "missed", "garbled"}
    \cup CASE k = "trojan" -> {"udp", "mux"} [] k = "socks5" -> {"udp"} [] OTHER -> {}

Openings == UNION {Opening(k) : k \in Kinds}
Asked    == UNION {Requests(k) : k \in Kinds}
Spoken(open, q) == open \o <<q>> \o Data
Configurations ==
  [kind : Kinds, outbound : Outbounds, lookup : Lookups, rule : BOOLEAN, fallback : BOOLEAN,
   script : {Spoken(open, q) : open \in Openings, q \in Asked}]

\* Settings that play no part are left at their first value.
Sensible(c) ==
  LET n == Len(c.script) - Len(Data) IN
  /\ SubSeq(c.script, 1, n - 1) \in Opening(c.kind) /\ c.script[n] \in Requests(c.kind)
  /\ (c.rule => c.lookup # "none") /\ (c.fallback => c.kind = "trojan")
  /\ (c.outbound = "socks5" => c.lookup = "none")
  /\ (c.script[n] # "connect" => c.outbound = "direct" /\ c.lookup = "none")
  /\ (c.kind = "trojan" /\ c.script[2] # "right"
        => c.script[n] = "connect" /\ c.outbound = "direct" /\ c.lookup = "none")
  /\ (c.script[1] = "nomethod"
        => c.script[n] = "connect" /\ c.outbound = "direct" /\ c.lookup = "none")

Local == conf.kind # "trojan"

Count(s)  == IF s # <<>> /\ Last(s) = "fin" THEN Len(s) - 1 ELSE Len(s)
Bytes(s)  == SubSeq(s, 1, Count(s))
Rest(s, n) == SubSeq(s, n + 1, Len(s))
Ended(s)  == s = <<"fin">>

----------------------------------------------------------------------------
Init ==
  /\ conf \in {c \in Configurations : Sensible(c)}
  /\ state \in CASE conf.kind = "trojan" -> {"prefix"}
                 [] conf.kind = "socks5" -> {"socks5_in_greeting"}
                 [] OTHER -> {"socks5_in_greeting", "http_in_request"}
  /\ pc = CASE state = "prefix" -> "prefix" [] state = "http_in_request" -> "http_in"
            [] OTHER -> "socks5_in"
  /\ told = <<>> /\ sock = <<>> /\ buf = <<>> /\ pending = <<>>
  /\ reply = [what |-> "nothing", sent |-> 0] /\ got = <<>>
  /\ query = [on |-> FALSE, again |-> FALSE] /\ up = "none" /\ naddrs = 0 /\ index = 0
  /\ handler = "peer" /\ step = 0 /\ upq = <<>> /\ upgot = <<>> /\ ev = {} /\ timers = {"cread"}
  /\ history = [refused |-> 0, twice |-> FALSE]

\* finalize.  Fault: the query is left running.
FinalizeQueries ==
  /\ state' = "ended" /\ pc' = "wait" /\ up' = "none" /\ ev' = {} /\ timers' = {}
  /\ UNCHANGED query
Finalize ==
  /\ state' = "ended" /\ pc' = "wait" /\ up' = "none" /\ ev' = {} /\ timers' = {}
  /\ query' = [on |-> FALSE, again |-> FALSE]

End ==
  /\ Finalize
  /\ UNCHANGED <<conf, told, pending, reply, naddrs, index, handler, step, upq, upgot,
                 history>>

Sleep == pc' = "wait" /\ UNCHANGED <<ev, timers>>

\* The response of a local inbound is put where its request was.
Prepare(what) ==
  /\ reply' = [what |-> what, sent |-> 0] /\ buf' = <<>>
  /\ state' = IF conf.kind = "http" THEN "http_in_response" ELSE "socks5_in_response"
  /\ pc' = "flush"

\* Routing of the request that was read: one operator per continuation.
Refused(q) == q \in {"missed", "garbled"}

Accept(q) ==
  CASE q = "connect" -> pc' = "start_tcp" /\ UNCHANGED <<state, ev, timers>>
    [] q = "mux"     -> state' = "mux" /\ Sleep
    [] OTHER         -> state' = "udp" /\ Sleep

----------------------------------------------------------------------------
\* The Trojan inbound.

\* start_fallback.  Fault: only the bytes of the last read are passed on.
PassedLast(read, all) == read
Passed(read, all) == all

StartFallback(read, all) ==
  IF conf.fallback
  THEN /\ pending' = Passed(read, all) /\ naddrs' = MaxAddrs /\ index' = 0 /\ pc' = "connect"
       /\ UNCHANGED <<state, reply, timers, ev>>
  ELSE /\ state' = "default_fallback" /\ reply' = [what |-> "page", sent |-> 0]
       /\ timers' = timers \cup {"cwrite"} /\ pc' = "flush"
       /\ UNCHANGED <<pending, naddrs, index, ev>>

ProcessPrefix ==
  LET n == IF Count(sock) < 2 - Len(buf) THEN Count(sock) ELSE 2 - Len(buf)
      read == SubSeq(sock, 1, n)
      all  == buf \o read
      rest == Rest(sock, n)
  IN /\ pc = "prefix" /\ sock' = rest /\ UNCHANGED <<told, got>>
     /\ \/ /\ all # <<>> /\ (all[1] = "lf" \/ (Len(all) = 2 /\ all[2] = "wrong"))
           /\ StartFallback(read, all) /\ buf' = <<>>
           /\ UNCHANGED <<conf, query, up, handler, step, upq, upgot, history>>
        \/ /\ all = <<"key", "right">>
           /\ state' = "request" /\ pc' = "request" /\ buf' = <<>>
           /\ UNCHANGED <<conf, pending, reply, outbound, upq, upgot, ev, timers, history>>
        \/ /\ Len(all) < 2 /\ (all # <<>> => all[1] # "lf") /\ ~Ended(rest) /\ buf' = all
           /\ Sleep /\ UNCHANGED <<conf, state, pending, reply, outbound, upq, upgot,
                                   history>>
        \/ /\ Len(all) < 2 /\ (all # <<>> => all[1] # "lf") /\ Ended(rest) /\ buf' = all /\ End

ProcessRequest ==
  /\ pc = "request" /\ UNCHANGED <<told, buf, got>>
  /\ \/ /\ sock = <<>> /\ Sleep
        /\ UNCHANGED <<conf, state, sock, pending, reply, outbound, upq, upgot, history>>
     \/ sock # <<>> /\ (Ended(sock) \/ Refused(sock[1]) \/ sock[1] = "blocked")
        /\ sock' = Tail(sock) /\ End
     \/ /\ sock # <<>> /\ ~Ended(sock) /\ ~Refused(sock[1]) /\ sock[1] # "blocked"
        /\ sock' = Tail(sock) /\ Accept(sock[1])
        /\ UNCHANGED <<conf, pending, reply, outbound, upq, upgot, history>>

----------------------------------------------------------------------------
\* The local inbounds.

Untouched == UNCHANGED <<conf, told, got, outbound, upq, upgot, ev, history>>

\* A listener for both takes what is not SOCKS5 and looks like HTTP.
ProcessSocks5In ==
  /\ pc = "socks5_in"
  /\ \/ /\ sock = <<>> /\ Sleep
        /\ UNCHANGED <<conf, state, told, sock, buf, got, pending, reply, outbound, upq,
                       upgot, history>>
     \/ Ended(sock) /\ sock' = <<>> /\ UNCHANGED <<told, buf, got>> /\ End
     \/ /\ state = "socks5_in_greeting" /\ sock # <<>> /\ sock[1] = "head"
        /\ buf' = <<"head">> /\ sock' = Tail(sock) /\ state' = "http_in_request" /\ pc' = "http_in"
        /\ UNCHANGED <<pending, reply, timers>> /\ Untouched
     \/ /\ state = "socks5_in_greeting" /\ sock # <<>> /\ sock[1] \in {"methods", "nomethod"}
        /\ sock' = Tail(sock) /\ Prepare(sock[1])
        /\ UNCHANGED <<pending, timers>> /\ Untouched
     \/ /\ state = "socks5_in_request" /\ sock # <<>> /\ Refused(sock[1])
        /\ sock' = Tail(sock) /\ UNCHANGED <<told, buf, got>> /\ End
     \/ /\ state = "socks5_in_request" /\ sock # <<>> /\ sock[1] \in {"blocked", "udp"}
        /\ sock' = Tail(sock)
        /\ Prepare(IF sock[1] = "udp" THEN "relay" ELSE "fail")
        /\ UNCHANGED <<pending, timers>> /\ Untouched
     \/ /\ state = "socks5_in_request" /\ sock # <<>> /\ sock[1] = "connect"
        /\ sock' = Tail(sock) /\ pc' = "start_tcp"
        /\ UNCHANGED <<state, buf, pending, reply, timers>> /\ Untouched

\* process_http_in reads what there is: bytes after the header are kept.
LeftOver(all) == Rest(all, 2)

ProcessHttpIn ==
  LET all  == buf \o Bytes(sock)
      rest == Rest(sock, Count(sock))
  IN /\ pc = "http_in"
     /\ \/ /\ Len(all) < 2 /\ rest = <<>> /\ buf' = all /\ sock' = rest /\ Sleep
           /\ UNCHANGED <<conf, state, told, got, pending, reply, outbound, upq, upgot,
                          history>>
        \/ /\ Len(all) < 2 /\ rest # <<>> /\ sock' = rest
           /\ UNCHANGED <<told, buf, got>> /\ End
        \/ /\ Len(all) >= 2 /\ all[2] = "missed" /\ sock' = rest
           /\ UNCHANGED <<told, buf, got>> /\ End
        \/ /\ Len(all) >= 2 /\ all[2] = "garbled" /\ sock' = rest
           /\ Prepare("fail") /\ UNCHANGED <<pending, timers>> /\ Untouched
        \/ /\ Len(all) >= 2 /\ all[2] = "blocked" /\ sock' = rest /\ pending' = LeftOver(all)
           /\ Prepare("fail") /\ UNCHANGED timers /\ Untouched
        \/ /\ Len(all) >= 2 /\ all[2] = "connect" /\ sock' = rest /\ pending' = LeftOver(all)
           /\ buf' = <<>> /\ pc' = "start_tcp"
           /\ UNCHANGED <<state, reply, timers>> /\ Untouched

----------------------------------------------------------------------------
\* Target and upstream.

\* start_tcp.  The way of a DNS rule sets the pending buffer anew.
StartTcp ==
  /\ pc = "start_tcp"
  /\ pending' = IF conf.rule /\ conf.outbound = "direct" THEN <<>> ELSE pending
  /\ IF conf.outbound = "socks5"
     THEN pc' = "socks5_connect" /\ naddrs' = MaxAddrs /\ UNCHANGED query
     ELSE IF conf.lookup = "none"
     THEN pc' \in {"connect", "failure"} /\ naddrs' = 1 /\ UNCHANGED query
     ELSE pc' = "resolve" /\ query' = [on |-> FALSE, again |-> conf.lookup = "doh"] /\ UNCHANGED naddrs
  /\ index' = 0
  /\ UNCHANGED <<conf, state, input, reply, got, up, handler, step, upq, upgot, ev,
                 timers, history>>

\* What the end of a query leads to: addresses, no answer of this type, failure.
Resolved(declined) ==
  \/ /\ pc' = "connect" /\ naddrs' \in 1 .. MaxAddrs /\ index' = 0
     /\ query' = [on |-> FALSE, again |-> FALSE]
  \/ /\ pc' = "failure" /\ query' = [on |-> FALSE, again |-> FALSE]
     /\ UNCHANGED <<naddrs, index>>
  \/ /\ declined /\ pc' = "resolve" /\ query' = [on |-> FALSE, again |-> FALSE]
     /\ UNCHANGED <<naddrs, index>>

\* start_resolver and start_doh_resolver: a cached answer comes at once.
Resolve ==
  /\ pc = "resolve" /\ state' = "resolving"
  /\ \/ Resolved(query.again)
     \/ query' = [query EXCEPT !.on = TRUE] /\ pc' = "wait" /\ UNCHANGED <<naddrs, index>>
  /\ UNCHANGED <<conf, input, reply, got, up, handler, step, relayed, ev, timers, history>>

\* resolve_handler and doh_resolve_handler.
QueryDone ==
  /\ pc = "wait" /\ query.on /\ Resolved(query.again)
  /\ UNCHANGED <<conf, state, input, reply, got, up, handler, step, relayed, ev, timers,
                 history>>

\* connect_next and socks5_connect_next.  Fault: the last address is left out.
NextButLast(then) ==
  IF index + 2 < naddrs THEN pc' = then /\ index' = index + 1 ELSE pc' = "failure" /\ UNCHANGED index
Next1(then) ==
  IF index + 1 < naddrs THEN pc' = then /\ index' = index + 1 ELSE pc' = "failure" /\ UNCHANGED index

Counted(h) == [h EXCEPT !.refused = @ + 1]
Hung == ev' = ev \ {"peer"} /\ timers' = timers \ {"pread", "pwrite"} /\ up' = "none"

\* connect.  Fault: nothing limits the time of an attempt.
ConnectUntimed ==
  /\ pc = "connect" /\ state' = "connecting" /\ handler' = "peer"
  /\ \/ Next1("connect") /\ history' = Counted(history) /\ UNCHANGED <<up, timers>>
     \/ up' = "syn" /\ pc' = "wait" /\ timers' = timers /\ UNCHANGED <<index, history>>
     \/ up' = "open" /\ pc' = "success" /\ UNCHANGED <<index, timers, history>>
  /\ UNCHANGED <<conf, input, reply, got, query, naddrs, step, relayed, ev>>
Connect ==
  /\ pc = "connect" /\ state' = "connecting" /\ handler' = "peer"
  /\ \/ Next1("connect") /\ history' = Counted(history) /\ UNCHANGED <<up, timers>>
     \/ /\ up' = "syn" /\ pc' = "wait" /\ timers' = timers \cup {"pwrite"}
        /\ UNCHANGED <<index, history>>
     \/ up' = "open" /\ pc' = "success" /\ UNCHANGED <<index, timers, history>>
  /\ UNCHANGED <<conf, input, reply, got, query, naddrs, step, relayed, ev>>

Socks5Connect ==
  /\ pc = "socks5_connect" /\ state' = "socks5_tcp" /\ handler' = "socks5" /\ step' = 1
  /\ \/ Next1("socks5_connect") /\ history' = Counted(history) /\ UNCHANGED <<up, timers>>
     \/ \E now \in BOOLEAN :
          /\ up' = IF now THEN "open" ELSE "syn"
          /\ pc' = IF now THEN "socks5" ELSE "wait"
          /\ timers' = timers \cup {"pwrite"} /\ UNCHANGED <<index, history>>
  /\ UNCHANGED <<conf, input, reply, got, query, naddrs, relayed, ev>>

\* The kernel ends an attempt.
SynEnds ==
  /\ up = "syn" /\ up' \in {"open", "refused"} /\ ev' = ev \cup {"peer"}
  /\ UNCHANGED <<conf, state, pc, input, reply, got, query, naddrs, index, handler, step,
                 relayed, timers, history>>

\* peer_handler while connecting, socks5_handler before socks5_connected.
TestConnect ==
  LET socks5 == handler = "socks5" IN
  /\ pc = "test_connect"
  /\ IF up = "refused"
     THEN /\ Next1(IF socks5 THEN "socks5_connect" ELSE "connect")
          /\ history' = Counted(history) /\ Hung
     ELSE /\ pc' = IF socks5 THEN "socks5" ELSE "success"
          /\ timers' = IF socks5 THEN timers ELSE timers \ {"pwrite"}
          /\ UNCHANGED <<index, history, up, ev>>
  /\ UNCHANGED <<conf, state, input, reply, got, query, naddrs, handler, step, relayed>>

\* process_socks5: 1 greeting, 2 method, 3 and 4 password, 5 request, 6 response.
\* A response is looked for in socks5_buffer before it is read: an event while
\* the reply to the client is in that buffer prepares a second one (here once).
Steps(n) == IF n = 2 THEN {3, 5} ELSE {n + 1}

ProcessSocks5 ==
  /\ pc = "socks5" /\ UNCHANGED <<conf, state, input, reply, got, query, up, naddrs,
                                  index, handler, relayed, ev>>
  /\ IF state \in {"socks5_in_response", "http_in_response"}
     THEN /\ pc' = IF history.twice THEN "wait"
                   ELSE IF conf.kind = "socks5" /\ reply.sent > 0 THEN "failure" ELSE "success"
          /\ history' = [history EXCEPT !.twice = TRUE] /\ UNCHANGED <<step, timers>>
     ELSE /\ UNCHANGED history
          /\ \/ pc' = "wait" /\ UNCHANGED <<step, timers>>
             \/ pc' = "failure" /\ UNCHANGED <<step, timers>>
             \/ step < 6 /\ step' \in Steps(step) /\ UNCHANGED <<pc, timers>>
             \/ step = 6 /\ pc' = "success" /\ timers' = timers \ {"pwrite"} /\ UNCHANGED step

\* inbound_connect_success and inbound_connect_failure.  Fault: a local client
\* is told that its tunnel is open as soon as the attempt begins.
Success ==
  /\ pc = "success" /\ UNCHANGED <<conf, told, sock, pending, got, outbound, upq, upgot,
                                   ev, timers, history>>
  /\ IF Local THEN Prepare("ok") ELSE pc' = "init_proxy" /\ UNCHANGED <<state, buf, reply>>

Failure ==
  /\ pc = "failure" /\ UNCHANGED <<told, sock>>
  /\ IF Local
     THEN /\ Prepare("fail") /\ Hung
          /\ UNCHANGED <<conf, pending, got, query, naddrs, index, handler, step, upq,
                         upgot, history>>
     ELSE End /\ UNCHANGED <<buf, got>>

----------------------------------------------------------------------------
\* The reply, and the relay phase.

\* socks5_in_flush, http_in_flush and flush_default_fallback, and what their
\* callers do when all is sent.  Fault: a refusal is answered, and the relay
\* begins nevertheless.
Parts == 2
Sends == reply.what \in {"methods", "nomethod", "ok", "fail", "page", "relay"}

AfterReply ==
  CASE reply.what = "ok"      -> pc' = "init_proxy" /\ state' = state
    [] reply.what = "methods" -> pc' = "socks5_in" /\ state' = "socks5_in_request"
    [] reply.what = "relay"   -> pc' = "wait" /\ state' = "udp"

Flush ==
  /\ pc = "flush" /\ Sends /\ UNCHANGED <<told, sock, buf>>
  /\ \E n \in 0 .. Parts - reply.sent :
       LET parts == [i \in 1 .. n |-> <<reply.what, reply.sent + i>>]
           over  == reply.sent + n = Parts
       IN /\ got' = got \o parts
          /\ IF ~over
             THEN /\ reply' = [reply EXCEPT !.sent = @ + n]
                  /\ timers' = timers \cup {"cwrite"} /\ pc' = "wait"
                  /\ UNCHANGED <<conf, state, pending, outbound, upq, upgot, ev, history>>
             ELSE IF reply.what \in {"fail", "nomethod", "page"} THEN End
             ELSE /\ AfterReply /\ reply' = [what |-> "nothing", sent |-> 0]
                  /\ timers' = timers \ {"cwrite"}
                  /\ UNCHANGED <<conf, pending, outbound, upq, upgot, ev, history>>

\* init_proxy ends with process_proxy.
InitProxy ==
  /\ pc = "init_proxy" /\ state' = "proxy" /\ pc' = "proxy" /\ handler' = "peer"
  /\ timers' = timers \cup {"cread", "pread"}
  /\ UNCHANGED <<conf, input, reply, got, query, up, naddrs, index, step, relayed, ev,
                 history>>

ProcessProxy ==
  /\ pc = "proxy"
  /\ upgot' = upgot \o pending \o Bytes(sock) /\ got' = got \o upq
  /\ pending' = <<>> /\ sock' = Rest(sock, Count(sock)) /\ upq' = <<>>
  /\ UNCHANGED <<conf, told, buf, reply, naddrs, index, handler, step, history>>
  /\ \/ pc' = "wait" /\ UNCHANGED <<state, query, up, ev, timers>>
     \/ Ended(sock') /\ Finalize

----------------------------------------------------------------------------
\* Events.

Handles ==
  CASE state \in {"socks5_in_greeting", "socks5_in_request"}        -> "socks5_in"
    [] state = "http_in_request"                                    -> "http_in"
    [] state \in {"socks5_in_response", "http_in_response", "default_fallback"} -> "flush"
    [] state \in {"prefix", "request", "proxy"}                     -> state
    [] OTHER                                                        -> "wait"

Kept == UNCHANGED <<conf, state, input, pending, reply, got, outbound, upq, upgot,
                    timers, history>>

\* read_client.  The event itself may tell of the client's end or of an error
\* (kqueue), which ends a session that has no tunnel yet.
ReadClient ==
  /\ pc = "wait" /\ "client" \in ev
  /\ \/ ev' = ev \ {"client"} /\ pc' = Handles /\ Kept
     \/ state \in {"resolving", "connecting", "socks5_tcp"} /\ UNCHANGED <<input, got>> /\ End

\* peer_handler and socks5_handler.  Fault: an event is taken up while the
\* reply to the local client is on its way.
PeerEventEager ==
  /\ pc = "wait" /\ "peer" \in ev /\ ev' = ev \ {"peer"} /\ Kept
  /\ pc' = IF state = "connecting" \/ (handler = "socks5" /\ up # "open") THEN "test_connect"
           ELSE IF handler = "socks5" THEN "socks5" ELSE "init_proxy"
PeerEvent ==
  /\ pc = "wait" /\ "peer" \in ev /\ ev' = ev \ {"peer"} /\ Kept
  /\ pc' = IF state = "connecting" THEN "test_connect"
           ELSE IF handler = "socks5" THEN IF step = 1 /\ up # "open" THEN "test_connect" ELSE "socks5"
           ELSE IF state \in {"socks5_in_response", "http_in_response"} THEN "wait"
           ELSE "proxy"

Timeout(t) ==
  /\ pc = "wait" /\ t \in timers
  /\ IF t = "pwrite"
     THEN /\ pc' = "failure" /\ timers' = timers \ {t}
          /\ UNCHANGED <<conf, state, input, pending, reply, got, outbound, upq, upgot,
                         ev, history>>
     ELSE UNCHANGED <<input, got>> /\ End

\* The client sends the next piece, or no more.
Say ==
  /\ state # "ended" /\ (sock # <<>> => Last(sock) # "fin") /\ Len(told) < Len(conf.script)
  /\ \E p \in {conf.script[Len(told) + 1], "fin"} :
       told' = Append(told, p) /\ sock' = Append(sock, p)
  /\ (told # <<>> => Last(told) # "fin")
  /\ ev' = ev \cup {"client"}
  /\ UNCHANGED <<conf, state, pc, buf, pending, reply, got, outbound, upq, upgot, timers,
                 history>>

\* Room for what waits to be sent; pieces of the upstream.
Writable ==
  /\ state # "ended" /\ reply.what # "nothing" /\ "cwrite" \in timers /\ ev' = ev \cup {"client"}
  /\ UNCHANGED <<conf, state, pc, input, pending, reply, got, outbound, upq, upgot,
                 timers, history>>

UpEvent ==
  /\ up = "open" /\ ev' = ev \cup {"peer"}
  /\ \/ UNCHANGED upq
     \/ /\ state \in {"socks5_in_response", "http_in_response", "proxy"}
        /\ LET n == Len(upq) + Cardinality({i \in 1 .. Len(got) : got[i][1] = "up"})
           IN n < MaxUp /\ upq' = Append(upq, <<"up", n + 1>>)
  /\ UNCHANGED <<conf, state, pc, input, pending, reply, got, outbound, upgot, timers,
                 history>>

----------------------------------------------------------------------------
Runs ==
  \/ ProcessPrefix \/ ProcessRequest \/ ProcessSocks5In \/ ProcessHttpIn \/ StartTcp \/ Resolve
  \/ Connect \/ Socks5Connect \/ TestConnect \/ ProcessSocks5 \/ Success \/ Failure \/ Flush
  \/ InitProxy \/ ProcessProxy

Next ==
  \/ Runs \/ ReadClient \/ PeerEvent \/ QueryDone \/ SynEnds \/ Say \/ Writable \/ UpEvent
  \/ \E t \in {"cread", "cwrite", "pread", "pwrite"} : Timeout(t)

\* Handlers run to their end, a query ends, and the connect timer goes off when
\* it is not deleted, whatever other events are handled before it.  Of the client
\* and the upstream nothing is assumed.
Spec == Init /\ [][Next]_vars
FairSpec == Spec /\ WF_vars(Runs) /\ WF_vars(QueryDone) /\ SF_vars(Timeout("pwrite"))

----------------------------------------------------------------------------
\* What a local client receives is one whole reply to its request, and what
\* the upstream sent only after a reply that says the tunnel is open, however
\* the reply is cut and whatever the upstream does meanwhile.  (Not so when the
\* handshake with a SOCKS5 outbound was taken up again under the reply.)
Whole(what) == <<<<what, 1>>, <<what, 2>>>>
Ups == {[i \in 1 .. n |-> <<"up", i>>] : n \in 0 .. MaxUp}
Greeted == IF conf.kind = "socks5" THEN Whole("methods") ELSE <<>>
Replies ==
  {Whole("page")} \cup {Whole("nomethod")} \cup {Greeted \o Whole("relay"), Greeted \o Whole("fail")}
    \cup {Greeted \o Whole("ok") \o u : u \in Ups}
OneReply == history.twice \/ (IF Local THEN \E r \in Replies : IsPrefix(got, r)
                              ELSE got \in Ups \/ IsPrefix(got, Whole("page")))

\* The client's bytes reach the upstream in order and complete: after the
\* request, or all of them when they go to the fallback.  (Not those that came
\* with an HTTP request whose target a DNS rule resolves.)
Consumed == IF conf.kind = "trojan" THEN IF conf.script[2] = "wrong" THEN 0 ELSE 3 ELSE 2
Forwarded ==
  state = "proxy" /\ ~(conf.kind = "http" /\ conf.rule)
    => upgot \o pending \o Bytes(sock) = Rest(Bytes(told), Consumed)

\* A tunnel is announced or begun only over a connection that stands, and a
\* request is refused over its addresses only when all were tried.
Honest ==
  /\ state # "ended" /\ (reply.what = "ok" \/ state = "proxy") => up = "open"
  /\ pc = "failure" /\ history.refused > 0 /\ up = "none" => history.refused = naddrs

\* When the worker waits, nothing is left that the session could go on with,
\* and what it has is what its client sent.
NothingLeft ==
  pc = "wait" /\ ev = {} =>
    CASE state \in {"prefix", "request", "socks5_in_greeting",
                   "socks5_in_request", "http_in_request"} -> sock = <<>>
      [] state = "proxy" -> pending = <<>> /\ upq = <<>> /\ Bytes(sock) = <<>>
      [] OTHER -> TRUE

\* The tunnel is a queue from the client's first payload byte on, and the
\* handlers leave nothing in it behind.
Tunnel == Forwarded /\ NothingLeft

\* An ended session does nothing any more.
StaysEnded == [][state = "ended" => UNCHANGED <<state, pc, up, upgot, got>>]_vars

\* An attempt to reach the target ends, though client and upstream stay silent.
Attempting == state \in {"resolving", "connecting", "socks5_tcp"}
AttemptEnds == Attempting ~> ~Attempting
=============================================================================
