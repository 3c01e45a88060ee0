------------------------------ MODULE DohClient ------------------------------
(***************************************************************************)
(* The DNS-over-HTTPS client of one trojan_doh endpoint: lookups of many   *)
(* sessions share a limited number of requests, a queue behind them, a     *)
(* pool of kept-alive connections and a cache of answers.                  *)
(*                                                                         *)
(* A handler runs to its end before the next event is delivered, but it    *)
(* calls deeply: the end of one request calls back into a session, which   *)
(* may start another lookup inside the first, and starts what is queued.   *)
(* calls is the stack of calls that remain to be made; its first element   *)
(* is the next one.  Events are delivered when it is empty.                *)
(*   resolve   doh_resolve for o          start   start_request            *)
(*   write     write_handler              finish  finish with status st    *)
(*   answer    the caller's handler       run     run_pending              *)
(*   cancel    doh_cancel, when the caller ends                            *)
(*                                                                         *)
(* q[o] is the request (doh_ctx_t) of o, handle[o] says that the caller    *)
(* holds a pointer to it.  The server answers the requests of a connection *)
(* in order; it may close a connection or stay silent at any time.  Events *)
(* of a connection are edge-triggered: ev is raised by what arrives and    *)
(* cleared when the event is delivered.                                    *)
(***************************************************************************)
EXTENDS Integers, FiniteSets, Queues

CONSTANTS
  Owners,      \* sessions and mux streams that look names up
  Conns,       \* connections to the endpoint
  None,        \* no owner, no connection
  Idle,        \* the owner of a connection that is kept alive
  MaxActive,   \* NGX_STREAM_TROJAN_DOH_MAX_ACTIVE
  MaxPending,  \* NGX_STREAM_TROJAN_DOH_MAX_PENDING
  MaxIdle,     \* NGX_STREAM_TROJAN_DOH_MAX_IDLE
  MaxAsks      \* bound: lookups of one owner

ASSUME ConstantsAssumption ==
  /\ MaxActive \in Nat \ {0} /\ MaxPending \in Nat /\ MaxIdle \in Nat
  /\ MaxAsks \in Nat \ {0}
  /\ None \notin Owners \cup Conns /\ Idle \notin Owners \cup {None}

VARIABLES
  calls,    \* the calls of the running handler that are still to be made
  result,   \* what became of the caller's lookup
  told,     \* answers the caller was given (history)
  asks,     \* lookups the caller may still start
  qtype,    \* 1 the preferred record type, 2 the other one
  handle,   \* the caller's doh_ctx pointer is set
  q,        \* doh_ctx_t
  pending,  \* conf->pending
  active,   \* conf->active
  idle,     \* conf->idle
  conn,     \* the connections
  cache     \* answers by type; all callers ask for one name

caller == <<result, told, asks, qtype>>
vars   == <<calls, caller, handle, q, pending, active, idle, conn, cache>>

----------------------------------------------------------------------------
Call(op, o)      == [op |-> op, o |-> o, st |-> "none"]
Ends(op, o, st)  == [op |-> op, o |-> o, st |-> st]

Statuses == {"ok", "declined", "error"}
NewQuery(at) == [at |-> at, conn |-> None, reused |-> FALSE, retried |-> FALSE,
                 started |-> FALSE, half |-> None, tries |-> 0]
NewConn(by, wt) == [by |-> by, asked |-> <<>>, in |-> <<>>, fin |-> FALSE,
                    ev |-> FALSE, rt |-> FALSE, wt |-> wt]
NoQuery == NewQuery("none")
NoConn  == NewConn(None, FALSE)

\* The requests that count in conf->active.
Running(o) == q[o].at \in {"connect", "write", "read"}
Tag(o)     == [by |-> o, left |-> asks[o], qtype |-> qtype[o]]

\* close_keepalive.
Closed(cs, c) == [cs EXCEPT ![c] = NoConn]
Later         == IF calls = <<>> THEN <<>> ELSE Tail(calls)
Goes(next)    == calls' = next \o Later

----------------------------------------------------------------------------
Init ==
  /\ calls = <<>>
  /\ result = [o \in Owners |-> "none"] /\ told = [o \in Owners |-> 0]
  /\ asks = [o \in Owners |-> MaxAsks] /\ qtype = [o \in Owners |-> 1]
  /\ handle = [o \in Owners |-> FALSE]
  /\ q = [o \in Owners |-> NoQuery]
  /\ pending = <<>> /\ active = 0 /\ idle = <<>>
  /\ conn = [c \in Conns |-> NoConn]
  /\ cache = [t \in {1, 2} |-> "none"]

----------------------------------------------------------------------------
(* Callers.                                                                *)

\* A session or a mux stream starts a lookup (start_doh_resolver).
Ask(o) ==
  /\ calls = <<>> /\ asks[o] > 0 /\ result[o] \in {"none", "ok", "failed"}
  /\ asks' = [asks EXCEPT ![o] = @ - 1]
  /\ qtype' = [qtype EXCEPT ![o] = 1]
  /\ result' = [result EXCEPT ![o] = "waiting"]
  /\ calls' = <<Call("resolve", o)>>
  /\ UNCHANGED <<told, handle, q, pending, active, idle, conn, cache>>

Told(o, r) ==
  /\ result' = [result EXCEPT ![o] = r]
  /\ told' = [told EXCEPT ![o] = @ + 1]

\* doh_resolve_handler: a valid answer without records leads to one more
\* lookup, of the other type; every other failure ends the request.
Answered(o, st) ==
  \/ /\ st = "declined" /\ qtype[o] = 1
     /\ qtype' = [qtype EXCEPT ![o] = 2]
     /\ Goes(<<Call("resolve", o)>>)
     /\ UNCHANGED <<result, told>>
  \/ /\ st # "declined" \/ qtype[o] = 2
     /\ Told(o, IF st = "ok" THEN "ok" ELSE "failed")
     /\ Goes(<<>>) /\ UNCHANGED qtype

\* The handler finds data->ctx reset when the session ended first.
Answer(o) ==
  /\ calls # <<>> /\ calls[1].op = "answer" /\ calls[1].o = o
  /\ Answered(o, calls[1].st)
  /\ UNCHANGED <<asks, handle, q, pending, active, idle, conn, cache>>

----------------------------------------------------------------------------
(* Starting requests.                                                      *)

\* doh_resolve gives an error back: the caller fails without a callback.
Refuse(o) ==
  /\ Told(o, "failed") /\ Goes(<<>>)
  /\ UNCHANGED <<asks, qtype, handle, q, pending, active, idle, conn, cache>>

\* doh_resolve.
Resolve(o) ==
  /\ calls # <<>> /\ calls[1].op = "resolve" /\ calls[1].o = o
  /\ IF handle[o] \/ (cache[qtype[o]] = "none" /\ active >= MaxActive
                      /\ Len(pending) >= MaxPending)
     THEN Refuse(o)
     ELSE /\ UNCHANGED <<caller, active, idle, conn, cache>>
          /\ IF cache[qtype[o]] # "none"
             THEN /\ Goes(<<Ends("answer", o, cache[qtype[o]])>>)
                  /\ UNCHANGED <<handle, q, pending>>
             ELSE /\ handle' = [handle EXCEPT ![o] = TRUE]
                  /\ IF active >= MaxActive
                     THEN /\ q' = [q EXCEPT ![o] = NewQuery("queued")]
                          /\ pending' = Append(pending, o) /\ Goes(<<>>)
                     ELSE /\ q' = [q EXCEPT ![o] = NewQuery("new")]
                          /\ Goes(<<Ends("start", o, "resolve")>>)
                          /\ UNCHANGED pending

\* A retry does not count once more.
Activated(o) == IF Running(o) THEN active ELSE active + 1

\* get_keepalive: the oldest idle connection.  Its end is noticed by kqueue
\* only; elsewhere the first thing to meet it is the next request.
Reuse(o) ==
  LET c == idle[1]
  IN /\ ~q[o].retried /\ idle # <<>>
     /\ idle' = Tail(idle)
     /\ \/ /\ conn[c].fin
           /\ conn' = Closed(conn, c)
           /\ UNCHANGED <<calls, q, active>>
        \/ /\ conn' = [conn EXCEPT ![c].by = o, ![c].rt = FALSE]
           /\ q' = [q EXCEPT ![o].at = "write", ![o].conn = c, ![o].reused = TRUE]
           /\ active' = Activated(o)
           /\ Goes(<<Call("write", o)>>)
     /\ UNCHANGED <<caller, handle, pending, cache>>

\* A connection that cannot even be attempted is an error of start_request:
\* doh_resolve hands it to its caller, the others finish the request.
ConnectFails(o) ==
  /\ q[o].retried \/ idle = <<>>
  /\ IF calls[1].st = "resolve"
     THEN /\ q' = [q EXCEPT ![o] = NoQuery]
          /\ handle' = [handle EXCEPT ![o] = FALSE]
          /\ Told(o, "failed") /\ Goes(<<>>)
     ELSE /\ Goes(<<Ends("finish", o, "error")>>)
          /\ UNCHANGED <<q, handle, result, told>>
  /\ UNCHANGED <<asks, qtype, pending, active, idle, conn, cache>>

\* connected: the request follows at once or after events, those of the TLS
\* handshake included.
Connect(o) ==
  /\ q[o].retried \/ idle = <<>>
  /\ \E c \in {x \in Conns : conn[x].by = None}, at \in {"connect", "write"} :
       /\ q' = [q EXCEPT ![o].at = at, ![o].conn = c]
       /\ conn' = [conn EXCEPT ![c] = NewConn(o, at = "connect")]
       /\ Goes(IF at = "write" THEN <<Call("write", o)>> ELSE <<>>)
  /\ active' = Activated(o)
  /\ UNCHANGED <<caller, handle, pending, idle, cache>>

\* start_request.
Start(o) ==
  /\ calls # <<>> /\ calls[1].op = "start" /\ calls[1].o = o
  /\ Reuse(o) \/ ConnectFails(o) \/ Connect(o)

\* Fault: off by one.
StartableLate == active + 1 < MaxActive /\ pending # <<>>
Startable == active < MaxActive /\ pending # <<>>

\* run_pending: each start may end at once and free its place again.
RunPending ==
  /\ calls # <<>> /\ calls[1].op = "run"
  /\ IF Startable
     THEN /\ pending' = Tail(pending)
          /\ q' = [q EXCEPT ![pending[1]].at = "new"]
          /\ calls' = <<Ends("start", pending[1], "pending")>> \o calls
     ELSE /\ Goes(<<>>) /\ UNCHANGED <<pending, q>>
  /\ UNCHANGED <<caller, handle, active, idle, conn, cache>>

----------------------------------------------------------------------------
(* The life of a request.                                                  *)

\* retry: a kept-alive connection that turns out dead is replaced by a new
\* one, once, if no byte of the request was accepted by it.
Retries(o) == q[o].reused /\ ~q[o].retried /\ ~q[o].started

Fails(o) ==
  IF Retries(o)
  THEN /\ conn' = Closed(conn, q[o].conn)
       /\ q' = [q EXCEPT ![o].conn = None, ![o].reused = FALSE,
                         ![o].retried = TRUE, ![o].half = None]
       /\ Goes(<<Ends("start", o, "retry")>>)
  ELSE Goes(<<Ends("finish", o, "error")>>) /\ UNCHANGED <<q, conn>>

\* write_handler.  A socket whose peer has gone may still accept the request
\* and then reports the reset.  When there is room it takes something.
Write(o) ==
  LET c == q[o].conn
  IN /\ calls # <<>> /\ calls[1].op = "write" /\ calls[1].o = o
     /\ \/ conn[c].fin /\ Fails(o)
        \/ \E some \in BOOLEAN :
             /\ calls[1].st = "room" => some /\ ~q[o].started
             /\ q' = [q EXCEPT ![o].tries = IF some THEN @ + 1 ELSE @, ![o].started = some]
             /\ conn' = [conn EXCEPT ![c].wt = TRUE]
             /\ Goes(<<>>)
        \/ /\ q' = [q EXCEPT ![o].at = "read", ![o].started = TRUE,
                             ![o].tries = IF q[o].started THEN @ ELSE @ + 1]
           /\ conn' = [conn EXCEPT ![c].wt = FALSE, ![c].rt = TRUE,
                         ![c].ev = @ \/ conn[c].fin,
                         ![c].asked = IF conn[c].fin THEN @ ELSE Append(@, Tag(o))]
           /\ Goes(<<>>)
     /\ UNCHANGED <<caller, handle, pending, active, idle, cache>>

\* save_keepalive: keep is what reusable says of the answer, which was
\* delimited and asked for no close.  Fault: after failures as well.
KeptAnyway(o, st, keep) == q[o].conn # None /\ Len(idle) < MaxIdle
Kept(o, st, keep) == st = "ok" /\ q[o].conn # None /\ keep /\ Len(idle) < MaxIdle

\* run_pending follows when an active request ended.  Fault: it does not.
FreedNot(o) == <<>>
Freed(o) == IF Running(o) THEN <<Call("run", None)>> ELSE <<>>

\* close.  Fault: the connection stays open.
LeftOpen(o) == conn
Dropped(o) == IF q[o].conn = None THEN conn ELSE Closed(conn, q[o].conn)

\* finish.  keep holds when the answer leaves the connection usable; then it
\* goes to the pool with a timer, otherwise it is closed.  The callback comes
\* before the queued requests.
Finish(o, st, keep, rest) ==
  LET c    == q[o].conn
      kept == Kept(o, st, keep)
  IN /\ q' = [q EXCEPT ![o] = NoQuery]
     /\ active' = IF Running(o) THEN active - 1 ELSE active
     /\ handle' = [handle EXCEPT ![o] = FALSE]
     /\ conn' = IF ~kept THEN Dropped(o)
                ELSE [conn EXCEPT ![c].by = Idle, ![c].in = <<>>, ![c].ev = FALSE,
                                  ![c].rt = TRUE, ![c].wt = FALSE]
     /\ idle' = IF kept THEN Append(idle, c) ELSE idle
     /\ calls' = <<Ends("answer", o, st)>> \o Freed(o) \o rest

FinishCall(o) ==
  /\ calls # <<>> /\ calls[1].op = "finish" /\ calls[1].o = o
  /\ Finish(o, calls[1].st, FALSE, Tail(calls))
  /\ UNCHANGED <<caller, pending, cache>>

----------------------------------------------------------------------------
(* Events of the connection of a running request.                          *)

\* event_handler, or the end of the TLS handshake.
Opened(o) ==
  /\ calls = <<>> /\ q[o].at = "connect"
  /\ \/ calls' = <<Ends("finish", o, "error")>> /\ UNCHANGED <<q, conn>>
     \/ /\ ~conn[q[o].conn].fin
        /\ q' = [q EXCEPT ![o].at = "write"]
        /\ conn' = [conn EXCEPT ![q[o].conn].wt = FALSE]
        /\ calls' = <<Call("write", o)>>
  /\ UNCHANGED <<caller, handle, pending, active, idle, cache>>

\* write_handler again, when the socket has room.
WriteEvent(o) ==
  /\ calls = <<>> /\ q[o].at = "write"
  /\ calls' = <<Ends("write", o, "room")>>
  /\ UNCHANGED <<caller, handle, q, pending, active, idle, conn, cache>>

\* The connect, handshake, write and read timers.
Timeout(o) ==
  LET c == q[o].conn
  IN /\ calls = <<>> /\ Running(o) /\ (conn[c].wt \/ conn[c].rt)
     /\ IF q[o].at = "connect"
        THEN calls' = <<Ends("finish", o, "error")>> /\ UNCHANGED <<q, conn>>
        ELSE Fails(o)
     /\ UNCHANGED <<caller, handle, pending, active, idle, cache>>

\* parse_done: what is stored, unless a positive answer is already there
\* (the time to live may be 0, a failure may not be cacheable).
Stored(o, st) ==
  \/ UNCHANGED cache
  \/ /\ ~(st # "ok" /\ cache[qtype[o]] = "ok")
     /\ cache' = [cache EXCEPT ![qtype[o]] = st]

\* read_handler.  One recv takes what has arrived.  The answer is complete
\* with its last piece, or with the end of the connection if it is delimited
\* by that; an answer to another request has a wrong DNS id.
Complete(o, mine, keep) ==
  /\ \E st \in IF mine THEN Statuses ELSE {"error"} :
       /\ Finish(o, st, keep, <<>>)
       /\ IF mine THEN Stored(o, st) ELSE UNCHANGED cache
  /\ UNCHANGED <<caller, pending>>

ReadEvent(o) ==
  LET c  == q[o].conn
      in == conn[c].in
  IN /\ calls = <<>> /\ q[o].at \in {"write", "read"} /\ conn[c].ev
     /\ \/ /\ in = <<>> /\ conn[c].fin /\ q[o].half # None
           /\ Complete(o, q[o].half = Tag(o), FALSE)
        \/ /\ in = <<>> /\ conn[c].fin /\ q[o].half = None
           /\ Fails(o)
           /\ UNCHANGED <<caller, handle, pending, active, idle, cache>>
        \/ /\ in # <<>> /\ Last(in).kind \in {"part", "toEnd"}
           /\ q' = [q EXCEPT ![o].half = IF Last(in).kind = "toEnd" THEN Last(in).tag ELSE @]
           /\ conn' = [conn EXCEPT ![c].in = <<>>, ![c].ev = FALSE]
           /\ UNCHANGED <<calls, caller, handle, pending, active, idle, cache>>
        \/ /\ in # <<>> /\ Last(in).kind \in {"keep", "close"}
           /\ Complete(o, Last(in).tag = Tag(o), Last(in).kind = "keep")

----------------------------------------------------------------------------
(* Everything else.                                                        *)

\* doh_cancel, when the session or the stream ends.
Unqueued(o) == Without(pending, o)

Cancel(o) ==
  /\ calls # <<>> /\ calls[1].op = "cancel" /\ calls[1].o = o
  /\ result' = [result EXCEPT ![o] = IF handle[o] THEN "gone" ELSE @]
  /\ handle' = [handle EXCEPT ![o] = FALSE]
  /\ pending' = Unqueued(o)
  /\ active' = IF Running(o) THEN active - 1 ELSE active
  /\ conn' = Dropped(o)
  /\ q' = [q EXCEPT ![o] = NoQuery]
  /\ Goes(Freed(o))
  /\ UNCHANGED <<told, asks, qtype, idle, cache>>

\* A session ends: its lookup, or those of its streams, are cancelled one
\* after the other, and what each cancellation starts comes in between.
SessionEnds ==
  /\ calls = <<>>
  /\ \E o, p \in Owners :
       /\ handle[o] /\ handle[p]
       /\ calls' = IF o = p THEN <<Call("cancel", o)>>
                   ELSE <<Call("cancel", o), Call("cancel", p)>>
  /\ UNCHANGED <<caller, handle, q, pending, active, idle, conn, cache>>

\* keepalive_handler: an idle connection is closed by its timer or by
\* anything that arrives on it.
IdleEvent(c) ==
  /\ calls = <<>> /\ conn[c].by = Idle /\ (conn[c].rt \/ conn[c].ev)
  /\ conn' = Closed(conn, c)
  /\ idle' = Without(idle, c)
  /\ UNCHANGED <<calls, caller, handle, q, pending, active, cache>>

\* The server sends a piece of the answer to the oldest request it has.
ServerSends(c) ==
  /\ calls = <<>> /\ conn[c].asked # <<>> /\ ~conn[c].fin
  /\ \E k \in {"part", "keep", "close", "toEnd"} :
       /\ conn[c].in # <<>> => k # "part" /\ Last(conn[c].in).kind = "part"
       /\ conn' = [conn EXCEPT ![c].in = Append(@, [tag |-> conn[c].asked[1], kind |-> k]),
                               ![c].ev = TRUE,
                               ![c].asked = IF k = "part" THEN @ ELSE Tail(@)]
  /\ UNCHANGED <<calls, caller, handle, q, pending, active, idle, cache>>

ServerCloses(c) ==
  /\ calls = <<>> /\ conn[c].by # None /\ ~conn[c].fin
  /\ conn' = [conn EXCEPT ![c].fin = TRUE, ![c].ev = TRUE]
  /\ UNCHANGED <<calls, caller, handle, q, pending, active, idle, cache>>

\* The time to live of an answer ends.
Expire(t) ==
  /\ calls = <<>> /\ cache[t] # "none"
  /\ cache' = [cache EXCEPT ![t] = "none"]
  /\ UNCHANGED <<calls, caller, handle, q, pending, active, idle, conn>>

Continue(o) == Answer(o) \/ Resolve(o) \/ Start(o) \/ Write(o) \/ FinishCall(o) \/ Cancel(o)

Next ==
  \/ \E o \in Owners : Ask(o) \/ Answer(o) \/ Resolve(o) \/ Start(o) \/ Write(o)
                       \/ FinishCall(o) \/ Cancel(o) \/ Opened(o) \/ WriteEvent(o)
                       \/ Timeout(o) \/ ReadEvent(o)
  \/ RunPending \/ SessionEnds
  \/ \E c \in Conns : IdleEvent(c) \/ ServerSends(c) \/ ServerCloses(c)
  \/ \E t \in {1, 2} : Expire(t)

Spec == Init /\ [][Next]_vars

\* A handler runs to its end; timers fire.
FairSpec ==
  /\ Spec
  /\ WF_vars(RunPending \/ \E o \in Owners : Continue(o))
  /\ \A o \in Owners : WF_vars(Timeout(o))

----------------------------------------------------------------------------
Ops == {"resolve", "start", "write", "finish", "answer", "run", "cancel"}

\* Every variable has its type.
TypeOK ==
  /\ calls \in Seq([op : Ops, o : Owners \cup {None},
                    st : Statuses \cup {"none", "resolve", "pending", "retry",
                                      "room"}])
  /\ result \in [Owners -> {"none", "waiting", "ok", "failed", "gone"}]
  /\ told \in [Owners -> Nat] /\ asks \in [Owners -> 0 .. MaxAsks]
  /\ qtype \in [Owners -> {1, 2}] /\ handle \in [Owners -> BOOLEAN]
  /\ \A o \in Owners :
       q[o].at \in {"none", "new", "queued", "connect", "write", "read"}
  /\ pending \in Seq(Owners) /\ active \in 0 .. MaxActive
  /\ idle \in Seq(Conns) /\ cache \in [{1, 2} -> Statuses \cup {"none"}]

\* However deep finish, callbacks and run_pending nest: the number of active
\* requests is the number of those that run, within its limit; the queue holds
\* the queued ones, once; and a caller holds a pointer to a request exactly
\* while there is one, so that it neither waits for nothing nor cancels what
\* was recycled.
Accounts ==
  /\ active = Cardinality({o \in Owners : Running(o)})
  /\ ToSet(pending) = {o \in Owners : q[o].at = "queued"}
  /\ IsInjective(pending) /\ Len(pending) <= MaxPending
  /\ \A o \in Owners : handle[o] <=> q[o].at # "none"
  /\ calls = <<>> => \A o \in Owners : result[o] = "waiting" <=> handle[o]

\* Between events no request waits in the queue while there is a free place.
NoStrandedQuery ==
  /\ Accounts
  /\ calls = <<>> => pending = <<>> \/ active >= MaxActive

\* A connection is open for one running request or waits in the pool, never
\* both and never without anyone who will close it; the pool keeps its size.
ConnectionsOwned ==
  /\ TypeOK
  /\ \A c \in Conns, o \in Owners : conn[c].by = o <=> q[o].conn = c
  /\ ToSet(idle) = {c \in Conns : conn[c].by = Idle}
  /\ IsInjective(idle) /\ Len(idle) <= MaxIdle
  /\ calls = <<>> => \A c \in Conns : conn[c].by # None => conn[c].rt \/ conn[c].wt

\* What the server still has to answer on a connection, and what has arrived
\* on it, belongs to the request that uses the connection: after a reuse no
\* request reads the answer to an earlier one, and an idle connection owes
\* nothing.  Bytes of one request go to one connection only: what may have
\* reached the server is not sent again on another.
OwnAnswers ==
  /\ \A c \in Conns :
       \A tag \in ToSet(conn[c].asked) \cup {x.tag : x \in ToSet(conn[c].in)} :
         conn[c].by \in Owners /\ tag = Tag(conn[c].by)
  /\ \A o \in Owners : q[o].tries <= 1

\* Every lookup is answered exactly once unless it is cancelled, and never
\* afterwards; with running timers it is answered.
Lookup == INSTANCE DohLookup
ImplementsLookup == Lookup!Spec
=============================================================================
