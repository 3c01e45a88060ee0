--------------------------- MODULE DohClientProofs ---------------------------
(***************************************************************************)
(* Proofs about DohClient, for any number of sessions and connections and  *)
(* any limits: the accounts of requests and of connections, answers that   *)
(* belong to the request that reads them, and every lookup answered once.  *)
(***************************************************************************)
EXTENDS DohClient, QueueProofs, FiniteSetTheorems

----------------------------------------------------------------------------
(* The inductive invariant.                                                *)

Tags   == [by : Owners, left : 0 .. MaxAsks, qtype : {1, 2}]
Pieces == [tag : Tags, kind : {"part", "keep", "close", "toEnd"}]
Frames == [op : Ops, o : Owners \cup {None},
           st : Statuses \cup {"none", "resolve", "pending", "retry", "room"}]
Queries == [at : {"none", "new", "queued", "connect", "write", "read"},
            conn : Conns \cup {None}, reused : BOOLEAN, retried : BOOLEAN,
            started : BOOLEAN, half : Tags \cup {None}, tries : Nat]
Connections == [by : Owners \cup {None, Idle}, asked : Seq(Tags), in : Seq(Pieces),
                fin : BOOLEAN, ev : BOOLEAN, rt : BOOLEAN, wt : BOOLEAN]

Types ==
  /\ calls \in Seq(Frames)
  /\ result \in [Owners -> {"none", "waiting", "ok", "failed", "gone"}]
  /\ told \in [Owners -> Nat] /\ asks \in [Owners -> 0 .. MaxAsks]
  /\ qtype \in [Owners -> {1, 2}] /\ handle \in [Owners -> BOOLEAN]
  /\ q \in [Owners -> Queries] /\ conn \in [Conns -> Connections]
  /\ pending \in Seq(Owners) /\ active \in 0 .. MaxActive
  /\ idle \in Seq(Conns) /\ cache \in [{1, 2} -> Statuses \cup {"none"}]

\* The call that is made next.
Next1(op, o) == calls # <<>> /\ calls[1].op = op /\ calls[1].o = o
Replying(o)  == Next1("answer", o) \/ Next1("resolve", o)
Retrying(o)  == Next1("start", o) /\ calls[1].st = "retry"

\* Only the first call is about a request that is on its way through the
\* handlers; those that remain start what is queued or cancel.
Stack ==
  /\ \A i \in 2 .. Len(calls) : calls[i].op \in {"run", "cancel"}
  /\ \A o \in Owners :
       /\ Next1("start", o) =>
            \/ /\ calls[1].st \in {"resolve", "pending"}
               /\ q[o].at = "new" /\ active < MaxActive
            \/ /\ calls[1].st = "retry" /\ q[o].at = "write" /\ q[o].conn = None
               /\ q[o].retried
       /\ Next1("write", o) =>
            /\ q[o].at = "write" /\ q[o].conn # None
            /\ calls[1].st # "room" => ~q[o].started
       /\ Next1("finish", o) =>
            /\ q[o].at \in {"new", "connect", "write", "read"}
            /\ calls[1].st \in Statuses
       /\ Replying(o) => ~handle[o]
       /\ Next1("answer", o) => calls[1].st \in Statuses

Callers ==
  \A o \in Owners :
    /\ handle[o] <=> q[o].at # "none"
    /\ result[o] = "waiting" <=> handle[o] \/ Replying(o)

Requests ==
  \A o \in Owners :
    /\ q[o].at \in {"none", "queued", "new"} =>
         q[o].conn = None /\ ~q[o].reused /\ ~q[o].retried /\ ~q[o].started
    /\ q[o].at = "new" => Next1("start", o) \/ Next1("finish", o)
    /\ Running(o) /\ q[o].conn = None => Retrying(o) \/ Next1("finish", o)
    /\ q[o].at = "connect" => ~q[o].started
    /\ q[o].at = "read" => q[o].started
    /\ Retrying(o) => ~q[o].started
    /\ q[o].tries = IF q[o].started THEN 1 ELSE 0

Queue ==
  /\ ToSet(pending) = {o \in Owners : q[o].at = "queued"}
  /\ IsInjective(pending) /\ Len(pending) <= MaxPending
  /\ pending = <<>> \/ active >= MaxActive \/ \E i \in DOMAIN calls : calls[i].op = "run"

ActiveSet == {o \in Owners : Running(o)}
Counted   == IsFiniteSet(ActiveSet) /\ active = Cardinality(ActiveSet)

Owned ==
  /\ \A c \in Conns, o \in Owners : conn[c].by = o <=> q[o].conn = c
  /\ ToSet(idle) = {c \in Conns : conn[c].by = Idle}
  /\ IsInjective(idle) /\ Len(idle) <= MaxIdle

Timed ==
  /\ \A c \in Conns : conn[c].by = Idle => conn[c].rt
  /\ \A o \in Owners :
       q[o].conn # None =>
         \/ conn[q[o].conn].wt \/ conn[q[o].conn].rt
         \/ Next1("write", o) \/ Next1("finish", o)

Final(c) == conn[c].in # <<>> /\ Last(conn[c].in).kind # "part"
Owed ==
  \A c \in Conns :
    /\ Len(conn[c].asked) <= 1
    /\ Final(c) => conn[c].asked = <<>>
    /\ conn[c].by \notin Owners => conn[c].asked = <<>> /\ conn[c].in = <<>>
    /\ \A o \in Owners :
         conn[c].by = o =>
           /\ q[o].at # "read" => conn[c].asked = <<>> /\ conn[c].in = <<>>
           /\ \A i \in DOMAIN conn[c].asked : conn[c].asked[i] = Tag(o)
           /\ \A i \in DOMAIN conn[c].in : conn[c].in[i].tag = Tag(o)

Inv == Types /\ Stack /\ Callers /\ Requests /\ Queue /\ Counted /\ Owned /\ Timed /\ Owed

----------------------------------------------------------------------------
(* The stack of calls.                                                     *)

LEMMA Constants ==
  /\ MaxActive \in Nat \ {0} /\ MaxPending \in Nat /\ MaxIdle \in Nat
  /\ MaxAsks \in Nat \ {0}
  /\ None \notin Owners /\ None \notin Conns /\ Idle \notin Owners /\ Idle # None
BY ConstantsAssumption

\* Calls that do not concern a request on its way.
Waits(s) == \A i \in DOMAIN s : s[i].op \in {"run", "cancel"}
RunIn(s) == \E i \in DOMAIN s : s[i].op = "run"

\* The first call is about the request of o.
Busy(o) == Next1("start", o) \/ Next1("write", o) \/ Next1("finish", o) \/ Replying(o)

LEMMA LaterProperties ==
  ASSUME Types, Stack
  PROVE  /\ Later \in Seq(Frames) /\ Waits(Later)
         /\ calls = <<>> => Later = <<>>
         /\ RunIn(calls) /\ calls[1].op # "run" => RunIn(Later)
<1>0. calls \in Seq(Frames) BY DEF Types
<1>1. CASE calls = <<>>
  BY <1>1, EmptySeq DEF Later, Waits, RunIn
<1>2. CASE calls # <<>>
  <2>1. Later = Tail(calls) BY <1>2 DEF Later
  <2>2. /\ Tail(calls) \in Seq(Frames) /\ Len(Tail(calls)) = Len(calls) - 1
        /\ \A j \in 1 .. Len(Tail(calls)) : Tail(calls)[j] = calls[j + 1]
    BY <1>0, <1>2, HeadTailProperties
  <2> DEFINE r == Tail(calls)
  <2> HIDE DEF r
  <2>3. /\ r \in Seq(Frames) /\ Len(r) = Len(calls) - 1 /\ Len(calls) \in Nat
        /\ \A j \in 1 .. Len(r) : r[j] = calls[j + 1]
        /\ DOMAIN r = 1 .. Len(r) /\ DOMAIN calls = 1 .. Len(calls)
    BY <1>0, <2>2, LenProperties DEF r
  <2>4. ASSUME NEW j \in DOMAIN r PROVE r[j].op \in {"run", "cancel"}
    <3>1. j + 1 \in 2 .. Len(calls) /\ r[j] = calls[j + 1] BY <2>3
    <3> QED BY <3>1 DEF Stack
  <2>5. ASSUME NEW i \in DOMAIN calls, calls[i].op = "run", calls[1].op # "run"
        PROVE  \E j \in DOMAIN r : r[j].op = "run"
    <3>1. i # 1 BY <2>5
    <3>2. i - 1 \in DOMAIN r /\ r[i - 1] = calls[i] BY <2>3, <3>1
    <3> QED BY <2>5, <3>2
  <2>6. Waits(r) BY <2>4 DEF Waits
  <2>7. RunIn(calls) /\ calls[1].op # "run" => RunIn(r) BY <2>5 DEF RunIn
  <2> QED BY <1>2, <2>1, <2>3, <2>6, <2>7 DEF r
<1> QED BY <1>1, <1>2

LEMMA Pushed ==
  ASSUME NEW f \in Frames, NEW r \in Seq(Frames), Waits(r)
  PROVE  /\ <<f>> \o r \in Seq(Frames) /\ <<f>> \o r # <<>> /\ (<<f>> \o r)[1] = f
         /\ \A i \in 2 .. Len(<<f>> \o r) : (<<f>> \o r)[i].op \in {"run", "cancel"}
         /\ RunIn(r) \/ f.op = "run" => RunIn(<<f>> \o r)
         /\ f.op \in {"run", "cancel"} => Waits(<<f>> \o r)
<1> DEFINE s == <<f>> \o r
<1>1. <<f>> \in Seq(Frames) /\ Len(<<f>>) = 1 /\ <<f>>[1] = f OBVIOUS
<1>2. Len(r) \in Nat /\ DOMAIN r = 1 .. Len(r) BY LenProperties
<1>3. /\ s \in Seq(Frames) /\ Len(s) = 1 + Len(r)
      /\ \A i \in 1 .. 1 + Len(r) : s[i] = IF i <= 1 THEN <<f>>[i] ELSE r[i - 1]
  BY <1>1, ConcatProperties
<1> HIDE DEF s
<1>4. DOMAIN s = 1 .. Len(s) BY <1>3, LenProperties
<1>5. s[1] = f /\ s # <<>> BY <1>1, <1>2, <1>3, EmptySeq
<1>6. ASSUME NEW i \in 2 .. Len(s) PROVE s[i].op \in {"run", "cancel"}
  <2>1. s[i] = r[i - 1] /\ i - 1 \in DOMAIN r BY <1>2, <1>3
  <2> QED BY <2>1 DEF Waits
<1>7. ASSUME NEW j \in DOMAIN r, r[j].op = "run" PROVE RunIn(s)
  <2>1. j + 1 \in DOMAIN s /\ s[j + 1] = r[j] BY <1>2, <1>3, <1>4
  <2> QED BY <1>7, <2>1 DEF RunIn
<1>8. RunIn(r) \/ f.op = "run" => RunIn(s)
  <2>1. RunIn(r) => RunIn(s) BY <1>7 DEF RunIn
  <2>2. 1 \in DOMAIN s BY <1>2, <1>3, <1>4
  <2> QED BY <1>5, <2>1, <2>2 DEF RunIn
<1>9. ASSUME f.op \in {"run", "cancel"} PROVE Waits(s)
  <2>1. \A i \in DOMAIN s : i = 1 \/ i \in 2 .. Len(s) BY <1>2, <1>3, <1>4
  <2> QED BY <1>5, <1>6, <1>9, <2>1 DEF Waits
<1> QED BY <1>3, <1>5, <1>6, <1>8, <1>9 DEF s

\* What a handler leaves on the stack: nothing of its own, or one call.
LEMMA GoesNowhere ==
  ASSUME Types, Stack, calls # <<>>, Goes(<<>>)
  PROVE  /\ calls' \in Seq(Frames) /\ Waits(calls') /\ \A p \in Owners : ~Busy(p)'
         /\ calls[1].op # "run" /\ RunIn(calls) => RunIn(calls')
<1>1. calls' = <<>> \o Later BY DEF Goes
<1>2. Later \in Seq(Frames) /\ Waits(Later) /\ (calls[1].op # "run" /\ RunIn(calls) => RunIn(Later))
  BY LaterProperties
<1>3. calls' = Later BY <1>1, <1>2, ConcatEmptySeq
<1>4. ASSUME calls' # <<>> PROVE calls'[1].op \in {"run", "cancel"}
  <2>1. 1 \in DOMAIN calls' BY <1>2, <1>3, <1>4, EmptySeq, LenProperties
  <2> QED BY <1>2, <1>3, <2>1 DEF Waits
<1>5. \A p \in Owners : ~Busy(p)' BY <1>4 DEF Busy, Replying, Next1
<1> QED BY <1>2, <1>3, <1>5

LEMMA GoesTo ==
  ASSUME Types, Stack, NEW f \in Frames, calls' = <<f>> \o Later
  PROVE  /\ calls' \in Seq(Frames) /\ calls' # <<>> /\ calls'[1] = f
         /\ \A i \in 2 .. Len(calls') : calls'[i].op \in {"run", "cancel"}
         /\ RunIn(calls) /\ calls[1].op # "run" => RunIn(calls')
BY LaterProperties, Pushed

----------------------------------------------------------------------------
(* The number of active requests.                                          *)

LEMMA CountKept ==
  ASSUME Counted, active' = active, \A p \in Owners : Running(p)' <=> Running(p)
  PROVE  Counted'
<1>1. ActiveSet' = ActiveSet BY Zenon DEF ActiveSet
<1> QED BY <1>1, Zenon DEF Counted

LEMMA CountUp ==
  ASSUME Counted, NEW o \in Owners, ~Running(o), Running(o)', active' = active + 1,
         \A p \in Owners \ {o} : Running(p)' <=> Running(p)
  PROVE  Counted'
<1>1. ActiveSet' = ActiveSet \cup {o} /\ o \notin ActiveSet BY Zenon DEF ActiveSet
<1>2. IsFiniteSet(ActiveSet') /\ Cardinality(ActiveSet') = Cardinality(ActiveSet) + 1
  BY <1>1, FS_AddElement, Zenon DEF Counted
<1> QED BY <1>2, Zenon DEF Counted

LEMMA CountDown ==
  ASSUME Counted, NEW o \in Owners, Running(o), ~Running(o)', active' = active - 1,
         \A p \in Owners \ {o} : Running(p)' <=> Running(p)
  PROVE  Counted' /\ active > 0
<1>1. ActiveSet' = ActiveSet \ {o} /\ o \in ActiveSet BY Zenon DEF ActiveSet
<1>2. IsFiniteSet(ActiveSet') /\ Cardinality(ActiveSet') = Cardinality(ActiveSet) - 1
  BY <1>1, FS_RemoveElement, Zenon DEF Counted
<1>3. Cardinality(ActiveSet') \in Nat /\ Cardinality(ActiveSet) \in Nat
  BY <1>2, FS_CardinalityType DEF Counted
<1>4. Counted' BY <1>2, Zenon DEF Counted
<1>5. active > 0 BY <1>2, <1>3 DEF Counted
<1> QED BY <1>4, <1>5

----------------------------------------------------------------------------
(* Updates of a request.                                                   *)

LEMMA QueryReplaced ==
  ASSUME NEW f \in [Owners -> Queries], NEW o \in Owners, NEW r \in Queries
  PROVE  [f EXCEPT ![o] = r] \in [Owners -> Queries]
OBVIOUS

LEMMA TriedType ==
  ASSUME NEW f \in [Owners -> Queries], NEW o \in Owners, NEW b \in BOOLEAN, NEW n \in Nat
  PROVE  [f EXCEPT ![o].tries = n, ![o].started = b] \in [Owners -> Queries]
<1> DEFINE r == [f[o] EXCEPT !.tries = n, !.started = b]
<1>1. f[o] \in Queries OBVIOUS
<1>2. r \in Queries BY <1>1 DEF Queries
<1>3. [f EXCEPT ![o].tries = n, ![o].started = b] = [f EXCEPT ![o] = r] BY Zenon
<1> QED BY <1>2, <1>3, QueryReplaced, Zenon

LEMMA WrittenType ==
  ASSUME NEW f \in [Owners -> Queries], NEW o \in Owners, NEW n \in Nat
  PROVE  [f EXCEPT ![o].at = "read", ![o].started = TRUE, ![o].tries = n]
           \in [Owners -> Queries]
<1> DEFINE r == [f[o] EXCEPT !.at = "read", !.started = TRUE, !.tries = n]
<1>1. f[o] \in Queries OBVIOUS
<1>2. r \in Queries BY <1>1 DEF Queries
<1>3. [f EXCEPT ![o].at = "read", ![o].started = TRUE, ![o].tries = n] = [f EXCEPT ![o] = r]
  BY Zenon
<1> QED BY <1>2, <1>3, QueryReplaced, Zenon

----------------------------------------------------------------------------
(* Every step keeps the invariant: callers.                                *)

LEMMA InitInv == Init => Inv
<1> SUFFICES ASSUME Init PROVE Inv OBVIOUS
<1>1. Types
  <2>1. NoQuery \in Queries BY DEF NoQuery, NewQuery, Queries
  <2>2. NoConn \in Connections BY DEF NoConn, NewConn, Connections
  <2>3. <<>> \in Seq(Frames) /\ <<>> \in Seq(Owners) /\ <<>> \in Seq(Conns) BY EmptySeq
  <2>4. 0 \in 0 .. MaxActive /\ MaxAsks \in 0 .. MaxAsks BY Constants
  <2> HIDE DEF NoQuery, NoConn
  <2> QED BY <2>1, <2>2, <2>3, <2>4 DEF Init, Types
<1>2. Len(<<>>) = 0 /\ DOMAIN <<>> = {} BY EmptySeq
<1>3. Stack BY <1>2 DEF Init, Stack, Next1, Replying
<1>4. Callers BY DEF Init, Callers, Next1, Replying, NoQuery, NewQuery
<1>5. Requests BY DEF Init, Requests, Next1, Retrying, NoQuery, NewQuery, Running
<1>6. ActiveSet = {} BY DEF ActiveSet, Running, Init, NoQuery, NewQuery
<1>7. Counted BY <1>6, FS_EmptySet DEF Init, Counted
<1>8. Queue BY <1>2, Constants DEF Init, Queue, ToSet, IsInjective, NoQuery, NewQuery
<1>9. Owned BY <1>2, Constants DEF Init, Owned, ToSet, IsInjective, NoQuery, NewQuery, NoConn, NewConn
<1>10. Timed BY Constants DEF Init, Timed, NoQuery, NewQuery, NoConn, NewConn
<1>11. Owed BY <1>2, Constants DEF Init, Owed, NoQuery, NewQuery, NoConn, NewConn, Final
<1> QED BY <1>1, <1>3, <1>4, <1>5, <1>7, <1>8, <1>9, <1>10, <1>11 DEF Inv

LEMMA AskStep ==
  ASSUME Inv, NEW o \in Owners, Ask(o)
  PROVE  Inv'
<1> DEFINE f == Call("resolve", o)
<1>0. Types /\ Stack /\ Callers /\ Requests /\ Queue /\ Counted /\ Owned /\ Timed /\ Owed BY DEF Inv
<1>1. /\ UNCHANGED <<told, handle, q, pending, active, idle, conn, cache>>
      /\ asks' = [asks EXCEPT ![o] = @ - 1] /\ asks[o] > 0
      /\ qtype' = [qtype EXCEPT ![o] = 1]
      /\ result' = [result EXCEPT ![o] = "waiting"]
      /\ calls = <<>> /\ calls' = <<f>>
      /\ result[o] # "waiting"
  BY DEF Ask
<1>2. f \in Frames /\ f.op = "resolve" /\ f.o = o /\ f.st = "none"
  BY DEF Frames, Ops, Call
<1> HIDE DEF f
<1>3. /\ calls' \in Seq(Frames) /\ calls' # <<>> /\ calls'[1] = f /\ Len(calls') = 1
  BY <1>1, <1>2
<1>4. \A p \in Owners : /\ ~Busy(p)
                        /\ Busy(p)' <=> p = o
                        /\ Replying(p)' <=> p = o
                        /\ \A op \in Ops : Next1(op, p)' <=> op = "resolve" /\ p = o
  BY <1>1, <1>2, <1>3 DEF Busy, Replying, Next1, Ops
<1>5. ~handle[o] /\ q[o].at = "none" /\ q[o].conn = None
  BY <1>0, <1>1, <1>4 DEF Callers, Requests, NoQuery, Busy, Types
<1>6. Types'
  <2>1. asks' \in [Owners -> 0 .. MaxAsks]
    <3>1. asks[o] - 1 \in 0 .. MaxAsks /\ asks \in [Owners -> 0 .. MaxAsks]
      BY <1>0, <1>1, Constants DEF Types
    <3> QED BY <1>1, <3>1
  <2> QED BY <1>0, <1>1, <1>3, <2>1 DEF Types
<1>7. Stack' BY <1>0, <1>1, <1>3, <1>4, <1>5 DEF Stack, Ops
<1>8. Callers' BY <1>0, <1>1, <1>4, <1>5 DEF Callers, Busy, Types
<1>9. Requests' BY <1>0, <1>1, <1>4, <1>5 DEF Requests, Busy, Ops, Running, Retrying
<1>10. Queue' BY <1>0, <1>1, EmptySeq DEF Queue
<1>11. Counted' BY <1>0, <1>1, CountKept DEF Running
<1>12. Owned' BY <1>0, <1>1 DEF Owned
<1>13. Timed' BY <1>0, <1>1, <1>4 DEF Timed, Busy
<1>14. Owed' BY <1>0, <1>1, <1>5, Constants DEF Owed, Owned, Final, Tag, Types
<1> QED BY <1>6, <1>7, <1>8, <1>9, <1>10, <1>11, <1>12, <1>13, <1>14 DEF Inv

LEMMA AnswerStep ==
  ASSUME Inv, NEW o \in Owners, Answer(o)
  PROVE  Inv'
<1> DEFINE f == Call("resolve", o)
<1>0. Types /\ Stack /\ Callers /\ Requests /\ Queue /\ Counted /\ Owned /\ Timed /\ Owed BY DEF Inv
<1>1. /\ UNCHANGED <<asks, handle, q, pending, active, idle, conn, cache>>
      /\ calls # <<>> /\ calls[1].op = "answer" /\ calls[1].o = o
      /\ Answered(o, calls[1].st)
  BY DEF Answer
<1>2. ~handle[o] /\ q[o].at = "none" /\ q[o].conn = None /\ result[o] = "waiting"
  BY <1>0, <1>1 DEF Callers, Requests, Stack, Replying, Next1, Types
<1>3. \A p \in Owners : /\ ~Next1("start", p) /\ ~Next1("write", p) /\ ~Next1("finish", p)
                        /\ ~Next1("resolve", p) /\ ~Retrying(p)
                        /\ Replying(p) <=> p = o
  BY <1>1 DEF Next1, Replying, Retrying
<1>4. CASE /\ Goes(<<f>>) /\ UNCHANGED <<result, told>>
           /\ qtype' = [qtype EXCEPT ![o] = 2]
  <2>2. f \in Frames /\ f.op = "resolve" /\ f.o = o
    BY DEF Frames, Ops, Call
  <2> HIDE DEF f
  <2>3. calls' = <<f>> \o Later BY <1>4 DEF Goes
  <2>4. /\ calls' \in Seq(Frames) /\ calls' # <<>> /\ calls'[1] = f
        /\ \A i \in 2 .. Len(calls') : calls'[i].op \in {"run", "cancel"}
        /\ RunIn(calls) => RunIn(calls')
    BY <1>0, <1>1, <2>2, <2>3, GoesTo
  <2>5. \A p \in Owners : /\ ~Next1("start", p)' /\ ~Next1("write", p)' /\ ~Next1("finish", p)'
                          /\ ~Next1("answer", p)' /\ ~Retrying(p)'
                          /\ Replying(p)' <=> p = o
    BY <2>2, <2>4 DEF Next1, Replying, Retrying
  <2>6. Types' BY <1>0, <1>1, <1>4, <2>4 DEF Types
  <2>7. Stack' BY <1>0, <1>1, <1>2, <2>4, <2>5 DEF Stack
  <2>8. Callers' BY <1>0, <1>1, <1>2, <1>3, <1>4, <2>5 DEF Callers
  <2>9. Requests' BY <1>0, <1>1, <1>3, <2>5 DEF Requests, Running
  <2>10. Queue' BY <1>0, <1>1, <2>4 DEF Queue, RunIn
  <2>11. Counted' BY <1>0, <1>1, CountKept DEF Running
  <2>12. Owned' BY <1>0, <1>1 DEF Owned
  <2>13. Timed' BY <1>0, <1>1, <1>3 DEF Timed
  <2>14. Owed' BY <1>0, <1>1, <1>2, <1>4, Constants DEF Owed, Owned, Final, Tag, Types
  <2> QED BY <2>6, <2>7, <2>8, <2>9, <2>10, <2>11, <2>12, <2>13, <2>14 DEF Inv
<1>5. CASE /\ \E r \in {"ok", "failed"} : Told(o, r)
           /\ Goes(<<>>) /\ UNCHANGED qtype
  <2>1. PICK r \in {"ok", "failed"} : Told(o, r) BY <1>5
  <2>2. result' = [result EXCEPT ![o] = r] /\ told' = [told EXCEPT ![o] = @ + 1]
    BY <2>1 DEF Told
  <2>4. /\ calls' \in Seq(Frames) /\ Waits(calls') /\ \A p \in Owners : ~Busy(p)'
        /\ RunIn(calls) => RunIn(calls')
    BY <1>0, <1>1, <1>5, GoesNowhere
  <2>5. \A p \in Owners : ~Retrying(p)' BY <2>4 DEF Busy, Retrying
  <2>6. Types'
    <3>1. told' \in [Owners -> Nat] BY <1>0, <2>2 DEF Types
    <3> QED BY <1>0, <1>1, <1>5, <2>2, <2>4, <3>1 DEF Types
  <2>7. Stack' BY <2>4, LenProperties DEF Stack, Busy, Waits, Replying
  <2>8. Callers' BY <1>0, <1>1, <1>2, <1>3, <2>2, <2>4 DEF Callers, Busy, Types
  <2>9. Requests' BY <1>0, <1>1, <1>3, <2>4, <2>5 DEF Requests, Running, Busy
  <2>10. Queue' BY <1>0, <1>1, <2>4 DEF Queue, RunIn
  <2>11. Counted' BY <1>0, <1>1, CountKept DEF Running
  <2>12. Owned' BY <1>0, <1>1 DEF Owned
  <2>13. Timed' BY <1>0, <1>1, <1>3 DEF Timed
  <2>14. Owed' BY <1>0, <1>1, <1>5 DEF Owed, Final, Tag
  <2> QED BY <2>6, <2>7, <2>8, <2>9, <2>10, <2>11, <2>12, <2>13, <2>14 DEF Inv
<1> QED BY <1>1, <1>4, <1>5 DEF Answered

----------------------------------------------------------------------------
(* Starting requests.                                                      *)

LEMMA FreshQuery ==
  ASSUME NEW at \in {"queued", "new"}
  PROVE  LET r == NewQuery(at)
         IN /\ r \in Queries /\ r.at = at /\ r.conn = None /\ ~r.reused /\ ~r.retried
            /\ ~r.started /\ r.tries = 0
BY DEF NewQuery, Queries

LEMMA ResolveStep ==
  ASSUME Inv, NEW o \in Owners, Resolve(o)
  PROVE  Inv'
<1>0. Types /\ Stack /\ Callers /\ Requests /\ Queue /\ Counted /\ Owned /\ Timed /\ Owed BY DEF Inv
<1>1. /\ calls # <<>> /\ calls[1].op = "resolve" /\ calls[1].o = o
      /\ UNCHANGED <<asks, qtype, active, idle, conn, cache>>
  BY DEF Resolve, Refuse, caller
<1>2. ~handle[o] /\ q[o].at = "none" /\ q[o].conn = None /\ result[o] = "waiting"
  BY <1>0, <1>1 DEF Callers, Requests, Stack, Replying, Next1, Types
<1>3. \A p \in Owners : /\ ~Next1("start", p) /\ ~Next1("write", p) /\ ~Next1("finish", p)
                        /\ ~Next1("answer", p) /\ ~Retrying(p)
                        /\ Replying(p) <=> p = o
  BY <1>1 DEF Next1, Replying, Retrying
<1>4. CASE Refuse(o)
  <2>2. /\ result' = [result EXCEPT ![o] = "failed"] /\ told' = [told EXCEPT ![o] = @ + 1]
        /\ Goes(<<>>) /\ UNCHANGED <<handle, q, pending>>
    BY <1>4 DEF Refuse, Told
  <2>4. /\ calls' \in Seq(Frames) /\ Waits(calls') /\ \A p \in Owners : ~Busy(p)'
        /\ RunIn(calls) => RunIn(calls')
    BY <1>0, <1>1, <2>2, GoesNowhere
  <2>5. \A p \in Owners : ~Retrying(p)' BY <2>4 DEF Busy, Retrying
  <2>6. Types'
    <3>1. told' \in [Owners -> Nat] BY <1>0, <2>2 DEF Types
    <3> QED BY <1>0, <1>1, <2>2, <2>4, <3>1 DEF Types
  <2>7. Stack' BY <2>4, LenProperties DEF Stack, Busy, Waits, Replying
  <2>8. Callers' BY <1>0, <1>1, <1>2, <1>3, <2>2, <2>4 DEF Callers, Busy, Types
  <2>9. Requests' BY <1>0, <1>1, <1>3, <2>2, <2>4, <2>5 DEF Requests, Running, Busy
  <2>10. Queue' BY <1>0, <1>1, <2>2, <2>4 DEF Queue, RunIn
  <2>11. Counted' BY <1>0, <1>1, <2>2, CountKept DEF Running
  <2>12. Owned' BY <1>0, <1>1, <2>2 DEF Owned
  <2>13. Timed' BY <1>0, <1>1, <1>3, <2>2 DEF Timed
  <2>14. Owed' BY <1>0, <1>1, <2>2 DEF Owed, Final, Tag
  <2> QED BY <2>6, <2>7, <2>8, <2>9, <2>10, <2>11, <2>12, <2>13, <2>14 DEF Inv
<1>5. CASE /\ cache[qtype[o]] # "none"
           /\ Goes(<<Ends("answer", o, cache[qtype[o]])>>)
           /\ UNCHANGED <<result, told, handle, q, pending>>
  <2> DEFINE f == Ends("answer", o, cache[qtype[o]])
  <2>1. cache[qtype[o]] \in Statuses BY <1>0, <1>5 DEF Types
  <2>2. f \in Frames /\ f.op = "answer" /\ f.o = o /\ f.st \in Statuses
    BY <2>1 DEF Frames, Ops, Ends
  <2>3. calls' = <<f>> \o Later BY <1>5 DEF Goes
  <2> HIDE DEF f
  <2>4. /\ calls' \in Seq(Frames) /\ calls' # <<>> /\ calls'[1] = f
        /\ \A i \in 2 .. Len(calls') : calls'[i].op \in {"run", "cancel"}
        /\ RunIn(calls) => RunIn(calls')
    BY <1>0, <1>1, <2>2, <2>3, GoesTo
  <2>5. \A p \in Owners : /\ ~Next1("start", p)' /\ ~Next1("write", p)' /\ ~Next1("finish", p)'
                          /\ ~Next1("resolve", p)' /\ ~Retrying(p)'
                          /\ Replying(p)' <=> p = o
    BY <2>2, <2>4 DEF Next1, Replying, Retrying
  <2>6. Types' BY <1>0, <1>1, <1>5, <2>4 DEF Types
  <2>7. Stack' BY <1>0, <1>1, <1>2, <1>5, <2>2, <2>4, <2>5 DEF Stack
  <2>8. Callers' BY <1>0, <1>1, <1>2, <1>3, <1>5, <2>5 DEF Callers
  <2>9. Requests' BY <1>0, <1>1, <1>3, <1>5, <2>5 DEF Requests, Running
  <2>10. Queue' BY <1>0, <1>1, <1>5, <2>4 DEF Queue, RunIn
  <2>11. Counted' BY <1>0, <1>1, <1>5, CountKept DEF Running
  <2>12. Owned' BY <1>0, <1>1, <1>5 DEF Owned
  <2>13. Timed' BY <1>0, <1>1, <1>3, <1>5 DEF Timed
  <2>14. Owed' BY <1>0, <1>1, <1>5 DEF Owed, Final, Tag
  <2> QED BY <2>6, <2>7, <2>8, <2>9, <2>10, <2>11, <2>12, <2>13, <2>14 DEF Inv
<1>6. CASE /\ ~(active >= MaxActive) \/ Len(pending) < MaxPending
           /\ active >= MaxActive /\ Goes(<<>>)
           /\ UNCHANGED <<result, told>> /\ handle' = [handle EXCEPT ![o] = TRUE]
           /\ q' = [q EXCEPT ![o] = NewQuery("queued")]
           /\ pending' = Append(pending, o)
  <2> DEFINE r == NewQuery("queued")
  <2>1. /\ r \in Queries /\ r.at = "queued" /\ r.conn = None /\ ~r.reused /\ ~r.retried
        /\ ~r.started /\ r.tries = 0
    BY FreshQuery
  <2> HIDE DEF r
  <2>2. q' = [q EXCEPT ![o] = r] BY <1>6 DEF r
  <2>3. q'[o] = r /\ \A p \in Owners \ {o} : q'[p] = q[p] BY <1>0, <2>2 DEF Types
  <2>4. /\ calls' \in Seq(Frames) /\ Waits(calls') /\ \A p \in Owners : ~Busy(p)'
        /\ RunIn(calls) => RunIn(calls')
    BY <1>0, <1>1, <1>6, GoesNowhere
  <2>5. \A p \in Owners : ~Retrying(p)' BY <2>4 DEF Busy, Retrying
  <2>a. /\ pending' \in Seq(Owners) /\ Len(pending') = Len(pending) + 1
        /\ ToSet(pending') = ToSet(pending) \cup {o}
        /\ IsInjective(pending')
    <3>1. o \notin ToSet(pending) BY <1>0, <1>2 DEF Queue
    <3> QED BY <1>0, <1>6, <3>1, AppendSet DEF Types, Queue
  <2>6. Types'
    <3>1. handle' \in [Owners -> BOOLEAN] /\ q' \in [Owners -> Queries]
      BY <1>0, <1>6, <2>1, <2>2 DEF Types
    <3> QED BY <1>0, <1>1, <1>6, <2>4, <2>a, <3>1 DEF Types
  <2>7. Stack' BY <2>4, LenProperties DEF Stack, Busy, Waits, Replying
  <2>8. Callers' BY <1>0, <1>1, <1>2, <1>3, <1>6, <2>1, <2>3, <2>4 DEF Callers, Busy, Types
  <2>9. Requests' BY <1>0, <1>1, <1>3, <2>1, <2>3, <2>4, <2>5 DEF Requests, Running, Busy
  <2>10. Queue'
    <3>1. ToSet(pending') = {p \in Owners : q[p].at = "queued"} \cup {o} BY <1>0, <2>a DEF Queue
    <3>2. ToSet(pending') = {p \in Owners : q'[p].at = "queued"} BY <2>1, <2>3, <3>1
    <3>3. Len(pending') <= MaxPending
      BY <1>0, <1>6, <2>a, Constants, LenProperties DEF Types
    <3> QED BY <1>1, <1>6, <2>a, <3>2, <3>3 DEF Queue
  <2>11. Counted'
    <3>1. \A p \in Owners : Running(p)' <=> Running(p) BY <1>2, <2>1, <2>3 DEF Running
    <3> QED BY <1>0, <1>1, <3>1, CountKept
  <2>12. Owned' BY <1>0, <1>1, <1>2, <2>1, <2>3, Constants DEF Owned
  <2>13. Timed' BY <1>0, <1>1, <1>3, <2>1, <2>3 DEF Timed
  <2>14. Owed' BY <1>0, <1>1, <1>2, <2>1, <2>3, Constants DEF Owed, Owned, Final, Tag
  <2> QED BY <2>6, <2>7, <2>8, <2>9, <2>10, <2>11, <2>12, <2>13, <2>14 DEF Inv
<1>7. CASE /\ ~(active >= MaxActive)
           /\ Goes(<<Ends("start", o, "resolve")>>)
           /\ UNCHANGED <<result, told, pending>> /\ handle' = [handle EXCEPT ![o] = TRUE]
           /\ q' = [q EXCEPT ![o] = NewQuery("new")]
  <2> DEFINE r == NewQuery("new")
             f == Ends("start", o, "resolve")
  <2>1. /\ r \in Queries /\ r.at = "new" /\ r.conn = None /\ ~r.reused /\ ~r.retried
        /\ ~r.started /\ r.tries = 0
    BY FreshQuery
  <2>b. f \in Frames /\ f.op = "start" /\ f.o = o /\ f.st = "resolve"
    BY DEF Frames, Ops, Ends
  <2>c. calls' = <<f>> \o Later BY <1>7 DEF Goes
  <2> HIDE DEF r, f
  <2>2. q' = [q EXCEPT ![o] = r] BY <1>7 DEF r
  <2>3. q'[o] = r /\ \A p \in Owners \ {o} : q'[p] = q[p] BY <1>0, <2>2 DEF Types
  <2>4. /\ calls' \in Seq(Frames) /\ calls' # <<>> /\ calls'[1] = f
        /\ \A i \in 2 .. Len(calls') : calls'[i].op \in {"run", "cancel"}
        /\ RunIn(calls) => RunIn(calls')
    BY <1>0, <1>1, <2>b, <2>c, GoesTo
  <2>5. \A p \in Owners : /\ ~Replying(p)' /\ ~Next1("write", p)' /\ ~Next1("finish", p)'
                          /\ ~Next1("answer", p)' /\ ~Retrying(p)'
                          /\ Next1("start", p)' <=> p = o
    BY <2>b, <2>4 DEF Next1, Replying, Retrying
  <2>6. Types'
    <3>1. handle' \in [Owners -> BOOLEAN] /\ q' \in [Owners -> Queries]
      BY <1>0, <1>7, <2>1, <2>2 DEF Types
    <3> QED BY <1>0, <1>1, <1>7, <2>4, <3>1 DEF Types
  <2>7. Stack'
    <3>1. active' < MaxActive BY <1>0, <1>1, <1>7, Constants DEF Types
    <3> QED BY <2>1, <2>b, <2>3, <2>4, <2>5, <3>1 DEF Stack
  <2>8. Callers' BY <1>0, <1>1, <1>2, <1>3, <1>7, <2>1, <2>3, <2>5 DEF Callers, Types
  <2>9. Requests' BY <1>0, <1>1, <1>3, <2>1, <2>3, <2>5 DEF Requests, Running
  <2>10. Queue'
    <3>1. {p \in Owners : q'[p].at = "queued"} = {p \in Owners : q[p].at = "queued"}
      BY <1>2, <2>1, <2>3
    <3> QED BY <1>0, <1>1, <1>7, <2>4, <3>1 DEF Queue, RunIn
  <2>11. Counted'
    <3>1. \A p \in Owners : Running(p)' <=> Running(p) BY <1>2, <2>1, <2>3 DEF Running
    <3> QED BY <1>0, <1>1, <3>1, CountKept
  <2>12. Owned' BY <1>0, <1>1, <1>2, <2>1, <2>3, Constants DEF Owned
  <2>13. Timed' BY <1>0, <1>1, <1>3, <2>1, <2>3 DEF Timed
  <2>14. Owed' BY <1>0, <1>1, <1>2, <2>1, <2>3, Constants DEF Owed, Owned, Final, Tag
  <2> QED BY <2>6, <2>7, <2>8, <2>9, <2>10, <2>11, <2>12, <2>13, <2>14 DEF Inv
<1>8. active \in Int /\ MaxActive \in Int /\ Len(pending) \in Int /\ MaxPending \in Int
  BY <1>0, Constants, LenProperties DEF Types
<1> QED BY <1>4, <1>5, <1>6, <1>7, <1>8 DEF Resolve, caller

\* A request whose start is the next call.
LEMMA Starting ==
  ASSUME Inv, NEW o \in Owners, calls # <<>>, calls[1].op = "start", calls[1].o = o
  PROVE  /\ handle[o] /\ q[o].conn = None /\ ~q[o].started /\ q[o] \in Queries
         /\ q[o].at = "new" \/ (q[o].at = "write" /\ q[o].retried /\ calls[1].st = "retry")
         /\ q[o].at = "new" => active < MaxActive /\ calls[1].st # "retry"
         /\ \A p \in Owners : /\ ~Next1("write", p) /\ ~Next1("finish", p) /\ ~Replying(p)
                              /\ ~Next1("answer", p)
                              /\ Next1("start", p) <=> p = o
                              /\ Retrying(p) <=> p = o /\ calls[1].st = "retry"
<1>0. Types /\ Stack /\ Callers /\ Requests BY DEF Inv
<1>1. Next1("start", o) BY DEF Next1
<1>2. \A p \in Owners : /\ ~Next1("write", p) /\ ~Next1("finish", p) /\ ~Replying(p)
                        /\ ~Next1("answer", p)
                        /\ Next1("start", p) <=> p = o
                        /\ Retrying(p) <=> p = o /\ calls[1].st = "retry"
  BY DEF Next1, Replying, Retrying
<1>3. q[o] \in Queries BY <1>0 DEF Types
<1>4. \/ q[o].at = "new" /\ active < MaxActive /\ calls[1].st \in {"resolve", "pending"}
      \/ q[o].at = "write" /\ q[o].conn = None /\ q[o].retried /\ calls[1].st = "retry"
  BY <1>0, <1>1 DEF Stack
<1>5. q[o].at = "new" => q[o].conn = None /\ ~q[o].started BY <1>0 DEF Requests
<1>6. q[o].at = "write" => ~q[o].started BY <1>0, <1>2, <1>4 DEF Requests
<1>7. handle[o] BY <1>0, <1>4 DEF Callers, Types
<1> QED BY <1>2, <1>3, <1>4, <1>5, <1>6, <1>7

\* The count when the request of o, new or retried, becomes active.
LEMMA StartCounts ==
  ASSUME Inv, NEW o \in Owners, calls # <<>>, calls[1].op = "start", calls[1].o = o,
         active' = Activated(o), Running(o)',
         \A p \in Owners \ {o} : q'[p] = q[p]
  PROVE  Counted' /\ active' \in 0 .. MaxActive /\ active' >= active
<1>0. Types /\ Counted BY DEF Inv
<1>1. \A p \in Owners \ {o} : Running(p)' <=> Running(p) BY DEF Running
<1>2. q[o].at = "new" => active < MaxActive BY Starting
<1>3. active \in 0 .. MaxActive /\ MaxActive \in Nat BY <1>0, Constants DEF Types
<1>4. CASE q[o].at = "new"
  <2>1. ~Running(o) BY <1>4 DEF Running
  <2>2. active' = active + 1 BY <2>1 DEF Activated
  <2>3. Counted' BY <1>0, <1>1, <2>1, <2>2, CountUp
  <2> QED BY <1>2, <1>3, <1>4, <2>2, <2>3
<1>5. CASE q[o].at = "write"
  <2>1. Running(o) BY <1>5 DEF Running
  <2>2. active' = active BY <2>1 DEF Activated
  <2>3. \A p \in Owners : Running(p)' <=> Running(p) BY <1>1, <2>1
  <2>4. Counted' BY <1>0, <2>2, <2>3, CountKept
  <2> QED BY <1>3, <2>2, <2>4
<1> QED BY <1>4, <1>5, Starting

LEMMA ReuseStep ==
  ASSUME Inv, NEW o \in Owners, calls # <<>>, calls[1].op = "start", calls[1].o = o, Reuse(o)
  PROVE  Inv'
<1> DEFINE c == idle[1]
<1>0. Types /\ Stack /\ Callers /\ Requests /\ Queue /\ Counted /\ Owned /\ Timed /\ Owed BY DEF Inv
<1>1. /\ idle # <<>> /\ idle' = Tail(idle) /\ ~q[o].retried
      /\ UNCHANGED <<result, told, asks, qtype, handle, pending, cache>>
  BY DEF Reuse, caller
<1>2. /\ idle' \in Seq(Conns) /\ Len(idle') = Len(idle) - 1
      /\ c \in Conns /\ c \in ToSet(idle)
      /\ ToSet(idle) = {c} \cup ToSet(idle')
      /\ IsInjective(idle') /\ c \notin ToSet(idle')
  BY <1>0, <1>1, TailSet DEF Types, Owned
<1>3. /\ handle[o] /\ q[o].conn = None /\ ~q[o].started /\ q[o] \in Queries
      /\ q[o].at = "new" /\ active < MaxActive
      /\ \A p \in Owners : /\ ~Next1("write", p) /\ ~Next1("finish", p) /\ ~Replying(p)
                           /\ ~Next1("answer", p) /\ ~Retrying(p)
                           /\ Next1("start", p) <=> p = o
  BY <1>1, Starting
<1> HIDE DEF c
<1>4. conn[c].by = Idle /\ conn[c] \in Connections BY <1>0, <1>2 DEF Owned, Types
<1>5. conn[c].asked = <<>> /\ conn[c].in = <<>> /\ \A p \in Owners : q[p].conn # c
  BY <1>0, <1>2, <1>4, Constants DEF Owed, Owned
<1>6. Len(idle') <= MaxIdle
  BY <1>0, <1>2, Constants, LenProperties DEF Owned, Types
<1>7. CASE UNCHANGED <<calls, q, active>> /\ conn' = Closed(conn, c)
  <2>1. /\ conn'[c] = NoConn /\ \A d \in Conns \ {c} : conn'[d] = conn[d]
        /\ conn' \in [Conns -> Connections]
    <3>1. NoConn \in Connections BY DEF NoConn, NewConn, Connections
    <3> QED BY <1>0, <1>2, <1>7, <3>1 DEF Closed, Types
  <2>2. NoConn.by = None /\ NoConn.asked = <<>> /\ NoConn.in = <<>> BY DEF NoConn, NewConn
  <2>6. Types' BY <1>0, <1>1, <1>2, <1>7, <2>1 DEF Types
  <2>7. Stack' BY <1>0, <1>1, <1>7 DEF Stack, Next1, Replying
  <2>8. Callers' BY <1>0, <1>1, <1>7 DEF Callers, Next1, Replying
  <2>9. Requests' BY <1>0, <1>1, <1>7 DEF Requests, Running, Retrying, Next1
  <2>10. Queue' BY <1>0, <1>1, <1>7 DEF Queue
  <2>11. Counted' BY <1>0, <1>1, <1>7, CountKept DEF Running
  <2>12. Owned'
    <3>1. ToSet(idle') = {d \in Conns : conn'[d].by = Idle}
      BY <1>0, <1>2, <2>1, <2>2, Constants DEF Owned
    <3>2. \A d \in Conns, p \in Owners : conn'[d].by = p <=> q'[p].conn = d
      BY <1>0, <1>5, <1>7, <2>1, <2>2, Constants DEF Owned
    <3> QED BY <1>2, <1>6, <3>1, <3>2 DEF Owned
  <2>13. Timed'
    <3>1. \A d \in Conns : conn'[d].by = Idle => conn'[d].rt
      BY <1>0, <2>1, <2>2, Constants DEF Timed
    <3>2. ASSUME NEW p \in Owners, q'[p].conn # None
          PROVE  conn'[q'[p].conn].wt \/ conn'[q'[p].conn].rt
      <4>1. q'[p] = q[p] /\ q[p].conn \in Conns /\ q[p].conn # c
        BY <1>0, <1>5, <1>7, <3>2 DEF Types, Queries
      <4> QED BY <1>0, <1>3, <2>1, <4>1, <3>2 DEF Timed
    <3> QED BY <3>1, <3>2 DEF Timed
  <2>14. Owed'
    <3>1. Len(<<>>) = 0 /\ DOMAIN <<>> = {} BY EmptySeq
    <3> QED BY <1>0, <1>1, <1>2, <1>7, <2>1, <2>2, <3>1, Constants DEF Owed, Final, Tag
  <2> QED BY <2>6, <2>7, <2>8, <2>9, <2>10, <2>11, <2>12, <2>13, <2>14 DEF Inv
<1>8. CASE /\ conn' = [conn EXCEPT ![c].by = o, ![c].rt = FALSE]
           /\ q' = [q EXCEPT ![o].at = "write", ![o].conn = c, ![o].reused = TRUE]
           /\ active' = Activated(o)
           /\ Goes(<<Call("write", o)>>)
  <2> DEFINE f == Call("write", o)
  <2>1. /\ conn' \in [Conns -> Connections]
        /\ \A d \in Conns \ {c} : conn'[d] = conn[d]
        /\ conn'[c].by = o /\ conn'[c].asked = conn[c].asked /\ conn'[c].in = conn[c].in
    <3>1. conn \in [Conns -> Connections] /\ c \in Conns BY <1>0, <1>2 DEF Types
    <3> DEFINE r == [conn[c] EXCEPT !.by = o, !.rt = FALSE]
    <3>2. conn' = [conn EXCEPT ![c] = r] BY <1>8, Zenon
    <3>3. conn[c] \in Connections BY <3>1
    <3>4. r \in Connections /\ r.by = o /\ r.asked = conn[c].asked /\ r.in = conn[c].in
      BY <3>3 DEF Connections
    <3> HIDE DEF r
    <3>5. conn'[c] = r /\ \A d \in Conns \ {c} : conn'[d] = conn[d] BY <3>1, <3>2
    <3>6. conn' \in [Conns -> Connections] BY <3>1, <3>2, <3>4
    <3> QED BY <3>4, <3>5, <3>6
  <2>2. /\ q' \in [Owners -> Queries]
        /\ \A p \in Owners \ {o} : q'[p] = q[p]
        /\ q'[o].at = "write" /\ q'[o].conn = c /\ q'[o].started = q[o].started
        /\ q'[o].tries = q[o].tries
    <3>1. q \in [Owners -> Queries] /\ c \in Conns BY <1>0, <1>2 DEF Types
    <3>2. q' = [q EXCEPT ![o].at = "write", ![o].conn = c, ![o].reused = TRUE] BY <1>8
    <3>3. q' \in [Owners -> Queries]
      <4> DEFINE r == [q[o] EXCEPT !.at = "write", !.conn = c, !.reused = TRUE]
      <4>1. q' = [q EXCEPT ![o] = r] BY <3>2, Zenon
      <4>2. q[o] \in Queries BY <3>1
      <4>3. r \in Queries BY <3>1, <4>2 DEF Queries
      <4> HIDE DEF r
      <4> QED BY <3>1, <4>1, <4>3, QueryReplaced
    <3>4. /\ \A p \in Owners \ {o} : q'[p] = q[p]
          /\ q'[o].at = "write" /\ q'[o].conn = c /\ q'[o].started = q[o].started
      BY <3>1, <3>2 DEF Queries
    <3>5. q'[o].tries = q[o].tries BY <3>1, <3>2 DEF Queries
    <3> QED BY <3>3, <3>4, <3>5
  <2>3. f \in Frames /\ f.op = "write" /\ f.o = o
    BY DEF Frames, Ops, Call
  <2>b. calls' = <<f>> \o Later BY <1>8 DEF Goes
  <2> HIDE DEF f
  <2>4. /\ calls' \in Seq(Frames) /\ calls' # <<>> /\ calls'[1] = f
        /\ \A i \in 2 .. Len(calls') : calls'[i].op \in {"run", "cancel"}
        /\ RunIn(calls) => RunIn(calls')
    BY <1>0, <2>3, <2>b, GoesTo
  <2>5. \A p \in Owners : /\ ~Next1("start", p)' /\ ~Next1("finish", p)' /\ ~Replying(p)'
                          /\ ~Next1("answer", p)' /\ ~Retrying(p)'
                          /\ Next1("write", p)' <=> p = o
    BY <2>3, <2>4 DEF Next1, Replying, Retrying
  <2>c. Counted' /\ active' \in 0 .. MaxActive /\ active' >= active
    <3>1. Running(o)' BY <2>2 DEF Running
    <3> QED BY <1>8, <2>2, <3>1, StartCounts
  <2>6. Types' BY <1>0, <1>1, <1>2, <2>1, <2>2, <2>4, <2>c DEF Types
  <2>7. Stack' BY <1>2, <1>3, <2>2, <2>4, <2>5, Constants DEF Stack
  <2>8. Callers' BY <1>0, <1>1, <1>3, <2>2, <2>5 DEF Callers
  <2>9. Requests'
    <3>1. q'[o].conn # None BY <1>2, <2>2, Constants
    <3> QED BY <1>0, <1>3, <2>2, <2>5, <3>1 DEF Requests, Running
  <2>10. Queue'
    <3>1. {p \in Owners : q'[p].at = "queued"} = {p \in Owners : q[p].at = "queued"}
      BY <1>3, <2>2
    <3>2. active >= MaxActive => active' >= MaxActive
      BY <1>0, <2>c, Constants DEF Types
    <3> QED BY <1>0, <1>1, <2>4, <3>1, <3>2 DEF Queue, RunIn
  <2>12. Owned'
    <3>1. ToSet(idle') = {d \in Conns : conn'[d].by = Idle}
      BY <1>0, <1>2, <2>1, Constants DEF Owned
    <3>2. \A d \in Conns, p \in Owners : conn'[d].by = p <=> q'[p].conn = d
      BY <1>0, <1>2, <1>3, <1>5, <2>1, <2>2, Constants DEF Owned
    <3> QED BY <1>2, <1>6, <3>1, <3>2 DEF Owned
  <2>13. Timed'
    <3>1. \A d \in Conns : conn'[d].by = Idle => conn'[d].rt
      BY <1>0, <2>1, Constants DEF Timed
    <3>2. ASSUME NEW p \in Owners \ {o}, q'[p].conn # None
          PROVE  conn'[q'[p].conn].wt \/ conn'[q'[p].conn].rt
      <4>1. q'[p] = q[p] /\ q[p].conn \in Conns /\ q[p].conn # c
        BY <1>0, <1>5, <2>2, <3>2 DEF Types, Queries
      <4> QED BY <1>0, <1>3, <2>1, <4>1, <3>2 DEF Timed
    <3> QED BY <2>5, <3>1, <3>2 DEF Timed
  <2>14. Owed'
    <3>1. Len(<<>>) = 0 /\ DOMAIN <<>> = {} BY EmptySeq
    <3>2. ASSUME NEW d \in Conns \ {c}, NEW p \in Owners \ {o}, conn'[d].by = p
          PROVE  conn[d].by = p /\ q'[p] = q[p] /\ Tag(p)' = Tag(p)
      BY <1>1, <2>1, <2>2, <3>2 DEF Tag
    <3>3. \A d \in Conns \ {c} : conn[d].by # o
      BY <1>0, <1>3, Constants DEF Owned
    <3>4. conn'[c].asked = <<>> /\ conn'[c].in = <<>> BY <1>5, <2>1
    <3> QED BY <1>0, <2>1, <3>1, <3>2, <3>3, <3>4 DEF Owed, Final
  <2> QED BY <2>6, <2>7, <2>8, <2>9, <2>10, <2>c, <2>12, <2>13, <2>14 DEF Inv
<1> QED BY <1>7, <1>8 DEF Reuse, c

LEMMA ConnectFailsStep ==
  ASSUME Inv, NEW o \in Owners, calls # <<>>, calls[1].op = "start", calls[1].o = o,
         ConnectFails(o)
  PROVE  Inv'
<1>0. Types /\ Stack /\ Callers /\ Requests /\ Queue /\ Counted /\ Owned /\ Timed /\ Owed BY DEF Inv
<1>1. UNCHANGED <<asks, qtype, pending, active, idle, conn, cache>> BY DEF ConnectFails
<1>2. /\ handle[o] /\ q[o].conn = None /\ ~q[o].started /\ q[o] \in Queries
      /\ q[o].at \in {"new", "write"}
      /\ q[o].at = "write" => calls[1].st = "retry"
      /\ \A p \in Owners : /\ ~Next1("write", p) /\ ~Next1("finish", p) /\ ~Replying(p)
                           /\ ~Next1("answer", p)
                           /\ Next1("start", p) <=> p = o
                           /\ Retrying(p) => p = o
  BY Starting
<1>3. CASE /\ calls[1].st = "resolve"
           /\ q' = [q EXCEPT ![o] = NoQuery] /\ handle' = [handle EXCEPT ![o] = FALSE]
           /\ Told(o, "failed") /\ Goes(<<>>)
  <2>1. q[o].at = "new" BY <1>2, <1>3
  <2>2. result' = [result EXCEPT ![o] = "failed"] /\ told' = [told EXCEPT ![o] = @ + 1]
    BY <1>3 DEF Told
  <2>3. /\ q' \in [Owners -> Queries] /\ \A p \in Owners \ {o} : q'[p] = q[p]
        /\ q'[o].at = "none" /\ q'[o].conn = None /\ ~q'[o].reused /\ ~q'[o].retried
        /\ ~q'[o].started /\ q'[o].tries = 0
    <3>1. NoQuery \in Queries BY DEF NoQuery, NewQuery, Queries
    <3>2. q' \in [Owners -> Queries] /\ q'[o] = NoQuery /\ \A p \in Owners \ {o} : q'[p] = q[p]
      BY <1>0, <1>3, <3>1 DEF Types
    <3> QED BY <3>2 DEF NoQuery, NewQuery
  <2>4. /\ calls' \in Seq(Frames) /\ Waits(calls') /\ \A p \in Owners : ~Busy(p)'
        /\ RunIn(calls) => RunIn(calls')
    BY <1>0, <1>3, GoesNowhere
  <2>5. \A p \in Owners : ~Retrying(p)' BY <2>4 DEF Busy, Retrying
  <2>6. Types'
    <3>1. told' \in [Owners -> Nat] /\ handle' \in [Owners -> BOOLEAN]
      BY <1>0, <1>3, <2>2 DEF Types
    <3> QED BY <1>0, <1>1, <2>2, <2>3, <2>4, <3>1 DEF Types
  <2>7. Stack' BY <2>4, LenProperties DEF Stack, Busy, Waits, Replying
  <2>8. Callers' BY <1>0, <1>1, <1>2, <1>3, <2>2, <2>3, <2>4 DEF Callers, Busy, Types
  <2>9. Requests' BY <1>0, <1>2, <2>3, <2>4, <2>5 DEF Requests, Running, Busy
  <2>10. Queue'
    <3>1. {p \in Owners : q'[p].at = "queued"} = {p \in Owners : q[p].at = "queued"}
      BY <2>1, <2>3
    <3> QED BY <1>0, <1>1, <2>4, <3>1 DEF Queue, RunIn
  <2>11. Counted'
    <3>1. \A p \in Owners : Running(p)' <=> Running(p) BY <2>1, <2>3 DEF Running
    <3> QED BY <1>0, <1>1, <3>1, CountKept
  <2>12. Owned' BY <1>0, <1>1, <1>2, <2>3, Constants DEF Owned
  <2>13. Timed' BY <1>0, <1>1, <1>2, <2>3 DEF Timed
  <2>14. Owed' BY <1>0, <1>1, <1>2, <2>3, Constants DEF Owed, Owned, Final, Tag
  <2> QED BY <2>6, <2>7, <2>8, <2>9, <2>10, <2>11, <2>12, <2>13, <2>14 DEF Inv
<1>4. CASE /\ Goes(<<Ends("finish", o, "error")>>)
           /\ UNCHANGED <<q, handle, result, told>>
  <2> DEFINE f == Ends("finish", o, "error")
  <2>2. f \in Frames /\ f.op = "finish" /\ f.o = o /\ f.st \in Statuses
    BY DEF Frames, Ops, Ends, Statuses
  <2>3. calls' = <<f>> \o Later BY <1>4 DEF Goes
  <2> HIDE DEF f
  <2>4. /\ calls' \in Seq(Frames) /\ calls' # <<>> /\ calls'[1] = f
        /\ \A i \in 2 .. Len(calls') : calls'[i].op \in {"run", "cancel"}
        /\ RunIn(calls) => RunIn(calls')
    BY <1>0, <2>2, <2>3, GoesTo
  <2>5. \A p \in Owners : /\ ~Next1("start", p)' /\ ~Next1("write", p)' /\ ~Replying(p)'
                          /\ ~Next1("answer", p)' /\ ~Retrying(p)'
                          /\ Next1("finish", p)' <=> p = o
    BY <2>2, <2>4 DEF Next1, Replying, Retrying
  <2>6. Types' BY <1>0, <1>1, <1>4, <2>4 DEF Types
  <2>7. Stack' BY <1>0, <1>2, <1>4, <2>2, <2>4, <2>5 DEF Stack
  <2>8. Callers' BY <1>0, <1>2, <1>4, <2>5 DEF Callers
  <2>9. Requests' BY <1>0, <1>2, <1>4, <2>5 DEF Requests, Running
  <2>10. Queue' BY <1>0, <1>1, <1>4, <2>4 DEF Queue, RunIn
  <2>11. Counted' BY <1>0, <1>1, <1>4, CountKept DEF Running
  <2>12. Owned' BY <1>0, <1>1, <1>4 DEF Owned
  <2>13. Timed' BY <1>0, <1>1, <1>2, <1>4 DEF Timed
  <2>14. Owed' BY <1>0, <1>1, <1>4 DEF Owed, Final, Tag
  <2> QED BY <2>6, <2>7, <2>8, <2>9, <2>10, <2>11, <2>12, <2>13, <2>14 DEF Inv
<1> QED BY <1>3, <1>4 DEF ConnectFails

LEMMA ConnectStep ==
  ASSUME Inv, NEW o \in Owners, calls # <<>>, calls[1].op = "start", calls[1].o = o,
         Connect(o)
  PROVE  Inv'
<1>0. Types /\ Stack /\ Callers /\ Requests /\ Queue /\ Counted /\ Owned /\ Timed /\ Owed BY DEF Inv
<1>1. /\ UNCHANGED <<result, told, asks, qtype, handle, pending, idle, cache>>
      /\ active' = Activated(o)
  BY DEF Connect, caller
<1>2. PICK c \in Conns, at \in {"connect", "write"} :
        /\ conn[c].by = None
        /\ q' = [q EXCEPT ![o].at = at, ![o].conn = c]
        /\ conn' = [conn EXCEPT ![c] = NewConn(o, at = "connect")]
        /\ Goes(IF at = "write" THEN <<Call("write", o)>> ELSE <<>>)
  BY DEF Connect
<1>3. /\ handle[o] /\ q[o].conn = None /\ ~q[o].started /\ q[o] \in Queries
      /\ q[o].at \in {"new", "write"}
      /\ \A p \in Owners : /\ ~Next1("write", p) /\ ~Next1("finish", p) /\ ~Replying(p)
                           /\ ~Next1("answer", p)
                           /\ Next1("start", p) <=> p = o
                           /\ Retrying(p) => p = o
  BY Starting
<1>4. \A p \in Owners : q[p].conn # c
  BY <1>0, <1>2, Constants DEF Owned
<1> DEFINE n == NewConn(o, at = "connect")
<1>5. /\ n \in Connections /\ n.by = o /\ n.asked = <<>> /\ n.in = <<>>
      /\ n.wt = (at = "connect")
  BY EmptySeq DEF NewConn, Connections
<1> HIDE DEF n
<1>6. /\ conn' \in [Conns -> Connections] /\ conn'[c] = n
      /\ \A d \in Conns \ {c} : conn'[d] = conn[d]
  BY <1>0, <1>2, <1>5 DEF Types, n
<1>7. /\ q' \in [Owners -> Queries]
      /\ \A p \in Owners \ {o} : q'[p] = q[p]
      /\ q'[o].at = at /\ q'[o].conn = c /\ q'[o].started = q[o].started
      /\ q'[o].tries = q[o].tries
  <2>1. q \in [Owners -> Queries] /\ c \in Conns BY <1>0 DEF Types
  <2>2. q' = [q EXCEPT ![o].at = at, ![o].conn = c] BY <1>2
  <2>3. q' \in [Owners -> Queries]
    <3> DEFINE r == [q[o] EXCEPT !.at = at, !.conn = c]
    <3>1. q' = [q EXCEPT ![o] = r] BY <2>2, Zenon
    <3>2. q[o] \in Queries BY <2>1
    <3>3. r \in Queries BY <2>1, <3>2 DEF Queries
    <3> HIDE DEF r
    <3> QED BY <2>1, <3>1, <3>3, QueryReplaced
  <2>4. /\ \A p \in Owners \ {o} : q'[p] = q[p]
        /\ q'[o].at = at /\ q'[o].conn = c /\ q'[o].started = q[o].started
    BY <2>1, <2>2 DEF Queries
  <2>5. q'[o].tries = q[o].tries BY <2>1, <2>2 DEF Queries
  <2> QED BY <2>3, <2>4, <2>5
<1>8. Counted' /\ active' \in 0 .. MaxActive /\ active' >= active
  <2>1. Running(o)' BY <1>7 DEF Running
  <2> QED BY <1>1, <1>7, <2>1, StartCounts
<1>9. /\ calls' \in Seq(Frames)
      /\ \A i \in 2 .. Len(calls') : calls'[i].op \in {"run", "cancel"}
      /\ RunIn(calls) => RunIn(calls')
      /\ \A p \in Owners : /\ ~Next1("start", p)' /\ ~Next1("finish", p)' /\ ~Replying(p)'
                           /\ ~Next1("answer", p)' /\ ~Retrying(p)'
                           /\ Next1("write", p)' <=> p = o /\ at = "write"
  <2>1. CASE at = "write"
    <3> DEFINE f == Call("write", o)
    <3>1. f \in Frames /\ f.op = "write" /\ f.o = o BY DEF Frames, Ops, Call
    <3>2. calls' = <<f>> \o Later BY <1>2, <2>1 DEF Goes
    <3> HIDE DEF f
    <3>3. /\ calls' \in Seq(Frames) /\ calls' # <<>> /\ calls'[1] = f
          /\ \A i \in 2 .. Len(calls') : calls'[i].op \in {"run", "cancel"}
          /\ RunIn(calls) => RunIn(calls')
      BY <1>0, <3>1, <3>2, GoesTo
    <3> QED BY <2>1, <3>1, <3>3 DEF Next1, Replying, Retrying
  <2>2. CASE at = "connect"
    <3>1. Goes(<<>>) BY <1>2, <2>2
    <3>2. /\ calls' \in Seq(Frames) /\ Waits(calls') /\ \A p \in Owners : ~Busy(p)'
          /\ RunIn(calls) => RunIn(calls')
      BY <1>0, <3>1, GoesNowhere
    <3> QED BY <2>2, <3>2, LenProperties DEF Busy, Waits, Retrying, Replying
  <2> QED BY <2>1, <2>2
<1>10. Types' BY <1>0, <1>1, <1>6, <1>7, <1>8, <1>9 DEF Types
<1>11. Stack' BY <1>3, <1>7, <1>9, Constants DEF Stack
<1>12. Callers' BY <1>0, <1>1, <1>3, <1>7, <1>9 DEF Callers
<1>13. Requests'
  <2>1. q'[o].conn # None BY <1>7, Constants
  <2> QED BY <1>0, <1>3, <1>7, <1>9, <2>1 DEF Requests, Running
<1>14. Queue'
  <2>1. {p \in Owners : q'[p].at = "queued"} = {p \in Owners : q[p].at = "queued"}
    BY <1>3, <1>7
  <2>2. active >= MaxActive => active' >= MaxActive
    BY <1>0, <1>8, Constants DEF Types
  <2> QED BY <1>0, <1>1, <1>9, <2>1, <2>2 DEF Queue, RunIn
<1>15. Owned'
  <2>1. ToSet(idle') = {d \in Conns : conn'[d].by = Idle}
    BY <1>0, <1>1, <1>2, <1>5, <1>6, Constants DEF Owned
  <2>2. \A d \in Conns, p \in Owners : conn'[d].by = p <=> q'[p].conn = d
    BY <1>0, <1>3, <1>4, <1>5, <1>6, <1>7, Constants DEF Owned
  <2> QED BY <1>0, <1>1, <2>1, <2>2 DEF Owned
<1>16. Timed'
  <2>1. \A d \in Conns : conn'[d].by = Idle => conn'[d].rt
    BY <1>0, <1>5, <1>6, Constants DEF Timed
  <2>2. ASSUME NEW p \in Owners \ {o}, q'[p].conn # None
        PROVE  conn'[q'[p].conn].wt \/ conn'[q'[p].conn].rt
    <3>1. q'[p] = q[p] /\ q[p].conn \in Conns /\ q[p].conn # c
      BY <1>0, <1>4, <1>7, <2>2 DEF Types, Queries
    <3> QED BY <1>0, <1>3, <1>6, <3>1, <2>2 DEF Timed
  <2>3. conn'[q'[o].conn].wt \/ Next1("write", o)' BY <1>5, <1>6, <1>7, <1>9
  <2> QED BY <2>1, <2>2, <2>3 DEF Timed
<1>17. Owed'
  <2>1. Len(<<>>) = 0 /\ DOMAIN <<>> = {} BY EmptySeq
  <2>2. ASSUME NEW d \in Conns \ {c}, NEW p \in Owners \ {o}, conn'[d].by = p
        PROVE  conn[d].by = p /\ q'[p] = q[p] /\ Tag(p)' = Tag(p)
    BY <1>1, <1>6, <1>7, <2>2 DEF Tag
  <2>3. \A d \in Conns \ {c} : conn[d].by # o
    BY <1>0, <1>3, Constants DEF Owned
  <2>4. conn'[c].asked = <<>> /\ conn'[c].in = <<>> BY <1>5, <1>6
  <2> QED BY <1>0, <1>6, <2>1, <2>2, <2>3, <2>4 DEF Owed, Final
<1> QED BY <1>8, <1>10, <1>11, <1>12, <1>13, <1>14, <1>15, <1>16, <1>17 DEF Inv

LEMMA StartStep ==
  ASSUME Inv, NEW o \in Owners, Start(o)
  PROVE  Inv'
BY ReuseStep, ConnectFailsStep, ConnectStep DEF Start

LEMMA RunPendingStep ==
  ASSUME Inv, RunPending
  PROVE  Inv'
<1>0. Types /\ Stack /\ Callers /\ Requests /\ Queue /\ Counted /\ Owned /\ Timed /\ Owed BY DEF Inv
<1>1. /\ calls # <<>> /\ calls[1].op = "run"
      /\ UNCHANGED <<result, told, asks, qtype, handle, active, idle, conn, cache>>
  BY DEF RunPending, caller
<1>2. \A p \in Owners : ~Busy(p) /\ ~Retrying(p)
  BY <1>1 DEF Busy, Next1, Replying, Retrying
<1>3. CASE Startable
  <2> DEFINE o == pending[1]
             f == Ends("start", o, "pending")
  <2>1. /\ active < MaxActive /\ pending # <<>> /\ pending' = Tail(pending)
        /\ q' = [q EXCEPT ![o].at = "new"] /\ calls' = <<f>> \o calls
    BY <1>3 DEF RunPending, Startable
  <2>2. /\ pending' \in Seq(Owners) /\ Len(pending') = Len(pending) - 1
        /\ o \in Owners /\ o \in ToSet(pending)
        /\ ToSet(pending) = {o} \cup ToSet(pending')
        /\ IsInjective(pending') /\ o \notin ToSet(pending')
    BY <1>0, <2>1, TailSet DEF Types, Queue
  <2>3. f \in Frames /\ f.op = "start" /\ f.o = o /\ f.st = "pending"
    BY <2>2 DEF Frames, Ops, Ends
  <2> HIDE DEF o, f
  <2>4. q[o].at = "queued" BY <1>0, <2>2 DEF Queue
  <2>5. /\ q' \in [Owners -> Queries] /\ \A p \in Owners \ {o} : q'[p] = q[p]
        /\ q'[o].at = "new" /\ q'[o].conn = q[o].conn /\ q'[o].reused = q[o].reused
        /\ q'[o].retried = q[o].retried /\ q'[o].started = q[o].started
        /\ q'[o].tries = q[o].tries
    <3>1. q \in [Owners -> Queries] /\ o \in Owners BY <1>0, <2>2 DEF Types
    <3>2. q' = [q EXCEPT ![o].at = "new"] BY <2>1
    <3>3. q' \in [Owners -> Queries] BY <3>1, <3>2 DEF Queries
    <3>4. /\ \A p \in Owners \ {o} : q'[p] = q[p]
          /\ q'[o].at = "new" /\ q'[o].conn = q[o].conn /\ q'[o].reused = q[o].reused
          /\ q'[o].retried = q[o].retried /\ q'[o].started = q[o].started
      BY <3>1, <3>2 DEF Queries
    <3>5. q'[o].tries = q[o].tries BY <3>1, <3>2 DEF Queries
    <3> QED BY <3>3, <3>4, <3>5
  <2>6. /\ calls' \in Seq(Frames) /\ calls' # <<>> /\ calls'[1] = f
        /\ \A i \in 2 .. Len(calls') : calls'[i].op \in {"run", "cancel"}
        /\ RunIn(calls')
    <3>1. calls \in Seq(Frames) /\ DOMAIN calls = 1 .. Len(calls) /\ Len(calls) \in Nat
      BY <1>0, LenProperties DEF Types
    <3>2. 1 \in DOMAIN calls BY <1>1, <3>1, EmptySeq
    <3>3. ASSUME NEW i \in DOMAIN calls PROVE calls[i].op \in {"run", "cancel"}
      <4>1. i = 1 \/ i \in 2 .. Len(calls) BY <3>1
      <4> QED BY <1>0, <1>1, <4>1 DEF Stack
    <3>4. Waits(calls) BY <3>3 DEF Waits
    <3>5. RunIn(calls) BY <1>1, <3>2 DEF RunIn
    <3> QED BY <2>1, <2>3, <3>1, <3>4, <3>5, Pushed
  <2>7. \A p \in Owners : /\ ~Next1("write", p)' /\ ~Next1("finish", p)' /\ ~Replying(p)'
                          /\ ~Next1("answer", p)' /\ ~Retrying(p)'
                          /\ Next1("start", p)' <=> p = o
    BY <2>3, <2>6 DEF Next1, Replying, Retrying
  <2>8. Types' BY <1>0, <1>1, <2>2, <2>5, <2>6 DEF Types
  <2>9. Stack' BY <1>0, <1>1, <2>1, <2>2, <2>3, <2>5, <2>6, <2>7 DEF Stack
  <2>10. Callers' BY <1>0, <1>1, <1>2, <2>4, <2>5, <2>7 DEF Callers, Busy
  <2>11. Requests' BY <1>0, <1>2, <2>4, <2>5, <2>7 DEF Requests, Running, Busy
  <2>12. Queue'
    <3>1. ToSet(pending') = {p \in Owners : q'[p].at = "queued"}
      <4>1. ToSet(pending') = {p \in Owners : q[p].at = "queued"} \ {o}
        BY <1>0, <2>2 DEF Queue
      <4> QED BY <2>5, <4>1
    <3>2. Len(pending') <= MaxPending
      BY <1>0, <2>2, Constants, LenProperties DEF Queue, Types
    <3> QED BY <2>2, <2>6, <3>1, <3>2 DEF Queue, RunIn
  <2>13. Counted'
    <3>1. \A p \in Owners : Running(p)' <=> Running(p) BY <2>4, <2>5 DEF Running
    <3> QED BY <1>0, <1>1, <3>1, CountKept
  <2>14. Owned'
    <3>1. \A p \in Owners : q'[p].conn = q[p].conn BY <2>5
    <3> QED BY <1>0, <1>1, <3>1 DEF Owned
  <2>15. Timed'
    <3>1. \A p \in Owners : q'[p].conn = q[p].conn BY <2>5
    <3> QED BY <1>0, <1>1, <1>2, <3>1 DEF Timed, Busy
  <2>16. Owed'
    <3>1. q[o].conn = None BY <1>0, <2>2, <2>4 DEF Requests
    <3>2. \A c \in Conns : conn[c].by # o BY <1>0, <2>2, <3>1, Constants DEF Owned
    <3> QED BY <1>0, <1>1, <2>5, <3>2 DEF Owed, Final, Tag
  <2> QED BY <2>8, <2>9, <2>10, <2>11, <2>12, <2>13, <2>14, <2>15, <2>16 DEF Inv
<1>4. CASE ~Startable
  <2>1. Goes(<<>>) /\ UNCHANGED <<pending, q>> BY <1>4 DEF RunPending
  <2>4. /\ calls' \in Seq(Frames) /\ Waits(calls') /\ \A p \in Owners : ~Busy(p)'
    BY <1>0, <1>1, <2>1, GoesNowhere
  <2>5. \A p \in Owners : ~Retrying(p)' BY <2>4 DEF Busy, Retrying
  <2>6. Types' BY <1>0, <1>1, <2>1, <2>4 DEF Types
  <2>7. Stack' BY <2>4, LenProperties DEF Stack, Busy, Waits, Replying
  <2>8. Callers' BY <1>0, <1>1, <1>2, <2>1, <2>4 DEF Callers, Busy
  <2>9. Requests' BY <1>0, <1>2, <2>1, <2>4, <2>5 DEF Requests, Running, Busy
  <2>10. Queue'
    <3>1. pending = <<>> \/ active >= MaxActive
      BY <1>0, <1>4, Constants DEF Startable, Types
    <3> QED BY <1>0, <1>1, <2>1, <3>1 DEF Queue
  <2>11. Counted' BY <1>0, <1>1, <2>1, CountKept DEF Running
  <2>12. Owned' BY <1>0, <1>1, <2>1 DEF Owned
  <2>13. Timed' BY <1>0, <1>1, <1>2, <2>1 DEF Timed, Busy
  <2>14. Owed' BY <1>0, <1>1, <2>1 DEF Owed, Final, Tag
  <2> QED BY <2>6, <2>7, <2>8, <2>9, <2>10, <2>11, <2>12, <2>13, <2>14 DEF Inv
<1> QED BY <1>3, <1>4

----------------------------------------------------------------------------
(* The life of a request.                                                  *)

LEMMA Holding ==
  ASSUME Inv, NEW o \in Owners, q[o].conn # None
  PROVE  /\ q[o].conn \in Conns /\ conn[q[o].conn] \in Connections
         /\ conn[q[o].conn].by = o /\ q[o] \in Queries
         /\ \A p \in Owners \ {o} : q[p].conn # q[o].conn
         /\ handle[o] /\ Running(o) /\ q[o].at \in {"connect", "write", "read"}
<1>0. Types /\ Callers /\ Requests /\ Owned BY DEF Inv
<1>1. q[o] \in Queries BY <1>0 DEF Types
<1>2. q[o].conn \in Conns BY <1>1 DEF Queries
<1>3. conn[q[o].conn] \in Connections /\ conn[q[o].conn].by = o BY <1>0, <1>2 DEF Types, Owned
<1>4. \A p \in Owners \ {o} : q[p].conn # q[o].conn
  <2>1. ASSUME NEW p \in Owners \ {o}, q[p].conn = q[o].conn PROVE FALSE
    <3>1. conn[q[o].conn].by = p BY <1>0, <1>2, <2>1 DEF Owned
    <3> QED BY <1>3, <2>1, <3>1
  <2> QED BY <2>1
<1>5. q[o].at \in {"connect", "write", "read"} BY <1>0, <1>1 DEF Requests, Queries
<1>6. handle[o] BY <1>0, <1>5 DEF Callers, Types
<1> QED BY <1>1, <1>2, <1>3, <1>4, <1>5, <1>6 DEF Running

LEMMA Settled ==
  ASSUME Inv, calls = <<>>
  PROVE  /\ \A p \in Owners : /\ ~Busy(p) /\ ~Retrying(p)
                              /\ Running(p) => q[p].conn # None
         /\ ~RunIn(calls) /\ Later = <<>>
<1>1. Requests BY DEF Inv
<1>2. \A p \in Owners : ~Busy(p) /\ ~Retrying(p) BY DEF Busy, Next1, Replying, Retrying
<1>3. ~RunIn(calls) /\ Later = <<>> BY EmptySeq DEF RunIn, Later
<1>4. \A p \in Owners : Running(p) => q[p].conn # None BY <1>1, <1>2 DEF Requests, Busy
<1> QED BY <1>2, <1>3, <1>4

\* A connection is closed for the request that leaves it.
LEMMA Dropping ==
  ASSUME Inv, NEW o \in Owners, conn' = Dropped(o),
         UNCHANGED <<asks, qtype, idle>>,
         \A p \in Owners \ {o} : q'[p] = q[p],
         q'[o].conn = None,
         \A p \in Owners \ {o} : ~Next1("write", p) /\ ~Next1("finish", p)
  PROVE  conn' \in [Conns -> Connections] /\ Owned' /\ Timed' /\ Owed'
<1>0. Types /\ Owned /\ Timed /\ Owed BY DEF Inv
<1>e. Len(<<>>) = 0 /\ DOMAIN <<>> = {} BY EmptySeq
<1>1. CASE q[o].conn = None
  <2>1. conn' = conn BY <1>1 DEF Dropped
  <2>2. \A c \in Conns : conn[c].by # o BY <1>0, <1>1, Constants DEF Owned
  <2>3. Owned' BY <1>0, <1>1, <2>1 DEF Owned
  <2>4. Timed' BY <1>0, <1>1, <2>1 DEF Timed
  <2>5. Owed' BY <1>0, <2>1, <2>2 DEF Owed, Final, Tag
  <2> QED BY <1>0, <2>1, <2>3, <2>4, <2>5 DEF Types
<1>2. CASE q[o].conn # None
  <2> DEFINE c == q[o].conn
  <2>1. c \in Conns /\ conn[c].by = o /\ \A p \in Owners \ {o} : q[p].conn # c
    BY <1>2, Holding
  <2>2. conn' = Closed(conn, c) BY <1>2 DEF Dropped
  <2> HIDE DEF c
  <2>3. /\ conn' \in [Conns -> Connections]
        /\ conn'[c] = NoConn /\ \A d \in Conns \ {c} : conn'[d] = conn[d]
    <3>1. NoConn \in Connections BY DEF NoConn, NewConn, Connections
    <3> QED BY <1>0, <2>1, <2>2, <3>1 DEF Closed, Types
  <2>4. NoConn.by = None /\ NoConn.asked = <<>> /\ NoConn.in = <<>> BY DEF NoConn, NewConn
  <2>5. Owned'
    <3>1. ToSet(idle') = {d \in Conns : conn'[d].by = Idle}
      BY <1>0, <2>1, <2>3, <2>4, Constants DEF Owned
    <3>2. \A d \in Conns, p \in Owners : conn'[d].by = p <=> q'[p].conn = d
      BY <1>0, <2>1, <2>3, <2>4, Constants DEF Owned
    <3> QED BY <1>0, <3>1, <3>2 DEF Owned
  <2>6. Timed'
    <3>1. \A d \in Conns : conn'[d].by = Idle => conn'[d].rt
      BY <1>0, <2>3, <2>4, Constants DEF Timed
    <3>2. ASSUME NEW p \in Owners \ {o}, q'[p].conn # None
          PROVE  conn'[q'[p].conn].wt \/ conn'[q'[p].conn].rt
      <4>1. q'[p] = q[p] /\ q[p].conn \in Conns /\ q[p].conn # c
        BY <1>0, <2>1, <3>2 DEF Types, Queries
      <4> QED BY <1>0, <2>3, <4>1, <3>2 DEF Timed
    <3> QED BY <3>1, <3>2 DEF Timed
  <2>7. Owed'
    <3>2. ASSUME NEW d \in Conns \ {c}, NEW p \in Owners \ {o}, conn'[d].by = p
          PROVE  conn[d].by = p /\ q'[p] = q[p] /\ Tag(p)' = Tag(p)
      BY <2>3, <3>2 DEF Tag
    <3>3. \A d \in Conns : conn'[d].by # o
      BY <2>5, Constants DEF Owned
    <3> QED BY <1>0, <1>e, <2>3, <2>4, <3>2, <3>3, Constants DEF Owed, Final
  <2> QED BY <2>3, <2>5, <2>6, <2>7
<1> QED BY <1>1, <1>2

LEMMA FailsStep ==
  ASSUME Inv, NEW o \in Owners, q[o].at \in {"write", "read"}, q[o].conn # None,
         calls = <<>> \/ (calls # <<>> /\ calls[1].op = "write" /\ calls[1].o = o),
         Fails(o),
         UNCHANGED <<result, told, asks, qtype, handle, pending, active, idle, cache>>
  PROVE  Inv'
<1>0. Types /\ Stack /\ Callers /\ Requests /\ Queue /\ Counted /\ Owned /\ Timed /\ Owed BY DEF Inv
<1>1. /\ q[o].conn \in Conns /\ conn[q[o].conn] \in Connections
      /\ conn[q[o].conn].by = o /\ q[o] \in Queries
      /\ \A p \in Owners \ {o} : q[p].conn # q[o].conn
      /\ handle[o]
  BY Holding
<1>2. \A p \in Owners : /\ ~Next1("start", p) /\ ~Next1("finish", p) /\ ~Replying(p)
                        /\ ~Next1("answer", p) /\ ~Retrying(p)
                        /\ Next1("write", p) => p = o
  BY DEF Next1, Replying, Retrying
<1>3. RunIn(calls) => calls[1].op # "run"
  BY EmptySeq DEF RunIn
<1>4. CASE Retries(o)
  <2> DEFINE f == Ends("start", o, "retry")
             r == [q[o] EXCEPT !.conn = None, !.reused = FALSE, !.retried = TRUE, !.half = None]
  <2>1. conn' = Closed(conn, q[o].conn) /\ Goes(<<f>>)
        /\ q' = [q EXCEPT ![o].conn = None, ![o].reused = FALSE,
                          ![o].retried = TRUE, ![o].half = None]
    BY <1>4 DEF Fails
  <2>2. f \in Frames /\ f.op = "start" /\ f.o = o /\ f.st = "retry"
    BY DEF Frames, Ops, Ends
  <2>3. calls' = <<f>> \o Later BY <2>1 DEF Goes
  <2>4. q' = [q EXCEPT ![o] = r] BY <2>1, Zenon
  <2>5. /\ r.at = q[o].at /\ r.conn = None /\ r.retried = TRUE /\ r.started = q[o].started
        /\ r \in Queries
    BY <1>1 DEF Queries
  <2>6. r.tries = q[o].tries BY <1>1 DEF Queries
  <2> HIDE DEF f, r
  <2>7. /\ q' \in [Owners -> Queries] /\ q'[o] = r
        /\ \A p \in Owners \ {o} : q'[p] = q[p]
    BY <1>0, <2>4, <2>5 DEF Types
  <2>8. q[o].at = "write" /\ ~q[o].started
    BY <1>0, <1>4 DEF Retries, Requests
  <2>9. /\ calls' \in Seq(Frames) /\ calls' # <<>> /\ calls'[1] = f
        /\ \A i \in 2 .. Len(calls') : calls'[i].op \in {"run", "cancel"}
        /\ RunIn(calls) => RunIn(calls')
    BY <1>0, <1>3, <2>2, <2>3, GoesTo
  <2>10. \A p \in Owners : /\ ~Next1("write", p)' /\ ~Next1("finish", p)' /\ ~Replying(p)'
                           /\ ~Next1("answer", p)'
                           /\ Next1("start", p)' <=> p = o
                           /\ Retrying(p)' <=> p = o
    BY <2>2, <2>9 DEF Next1, Replying, Retrying
  <2>11. conn' \in [Conns -> Connections] /\ Owned' /\ Timed' /\ Owed'
    <3>1. conn' = Dropped(o) BY <2>1 DEF Dropped
    <3> QED BY <1>2, <2>5, <2>7, <3>1, Dropping
  <2>12. Types' BY <1>0, <2>7, <2>9, <2>11 DEF Types
  <2>13. Stack' BY <2>2, <2>5, <2>7, <2>8, <2>9, <2>10 DEF Stack
  <2>14. Callers' BY <1>0, <1>2, <2>5, <2>7, <2>10 DEF Callers
  <2>15. Requests' BY <1>0, <1>2, <2>5, <2>6, <2>7, <2>8, <2>10 DEF Requests, Running
  <2>16. Queue'
    <3>1. {p \in Owners : q'[p].at = "queued"} = {p \in Owners : q[p].at = "queued"}
      BY <2>5, <2>7, <2>8
    <3> QED BY <1>0, <2>9, <3>1 DEF Queue, RunIn
  <2>17. Counted'
    <3>1. \A p \in Owners : Running(p)' <=> Running(p) BY <2>5, <2>7 DEF Running
    <3> QED BY <1>0, <3>1, CountKept
  <2> QED BY <2>11, <2>12, <2>13, <2>14, <2>15, <2>16, <2>17 DEF Inv
<1>5. CASE ~Retries(o)
  <2> DEFINE f == Ends("finish", o, "error")
  <2>1. Goes(<<f>>) /\ UNCHANGED <<q, conn>> BY <1>5 DEF Fails
  <2>2. f \in Frames /\ f.op = "finish" /\ f.o = o /\ f.st \in Statuses
    BY DEF Frames, Ops, Ends, Statuses
  <2>3. calls' = <<f>> \o Later BY <2>1 DEF Goes
  <2> HIDE DEF f
  <2>9. /\ calls' \in Seq(Frames) /\ calls' # <<>> /\ calls'[1] = f
        /\ \A i \in 2 .. Len(calls') : calls'[i].op \in {"run", "cancel"}
        /\ RunIn(calls) => RunIn(calls')
    BY <1>0, <1>3, <2>2, <2>3, GoesTo
  <2>10. \A p \in Owners : /\ ~Next1("start", p)' /\ ~Next1("write", p)' /\ ~Replying(p)'
                           /\ ~Next1("answer", p)' /\ ~Retrying(p)'
                           /\ Next1("finish", p)' <=> p = o
    BY <2>2, <2>9 DEF Next1, Replying, Retrying
  <2>12. Types' BY <1>0, <2>1, <2>9 DEF Types
  <2>13. Stack' BY <1>1, <2>1, <2>2, <2>9, <2>10 DEF Stack
  <2>14. Callers' BY <1>0, <1>2, <2>1, <2>10 DEF Callers
  <2>15. Requests' BY <1>0, <1>2, <2>1, <2>10 DEF Requests, Running
  <2>16. Queue' BY <1>0, <2>1, <2>9 DEF Queue, RunIn
  <2>17. Counted' BY <1>0, <2>1, CountKept DEF Running
  <2>18. Owned' BY <1>0, <2>1 DEF Owned
  <2>19. Timed' BY <1>0, <1>2, <2>1, <2>10 DEF Timed
  <2>20. Owed' BY <1>0, <2>1 DEF Owed, Final, Tag
  <2> QED BY <2>12, <2>13, <2>14, <2>15, <2>16, <2>17, <2>18, <2>19, <2>20 DEF Inv
<1> QED BY <1>4, <1>5

\* What a step of a request that stays on its connection leaves as it was.
LEMMA WriteStep ==
  ASSUME Inv, NEW o \in Owners, Write(o)
  PROVE  Inv'
<1> DEFINE c == q[o].conn
<1>0. Types /\ Stack /\ Callers /\ Requests /\ Queue /\ Counted /\ Owned /\ Timed /\ Owed BY DEF Inv
<1>1. /\ calls # <<>> /\ calls[1].op = "write" /\ calls[1].o = o
      /\ UNCHANGED <<result, told, asks, qtype, handle, pending, active, idle, cache>>
  BY DEF Write, caller
<1>2. q[o].at = "write" /\ c # None /\ (calls[1].st # "room" => ~q[o].started)
  BY <1>0, <1>1 DEF Stack, Next1
<1>3. /\ c \in Conns /\ conn[c] \in Connections /\ conn[c].by = o /\ q[o] \in Queries
      /\ \A p \in Owners \ {o} : q[p].conn # c
      /\ handle[o]
  BY <1>2, Holding
<1>4. \A p \in Owners : /\ ~Next1("start", p) /\ ~Next1("finish", p) /\ ~Replying(p)
                        /\ ~Next1("answer", p) /\ ~Retrying(p)
                        /\ Next1("write", p) <=> p = o
  BY <1>1 DEF Next1, Replying, Retrying
<1>5. conn[c].asked = <<>> /\ conn[c].in = <<>> BY <1>0, <1>2, <1>3 DEF Owed
<1>6. q[o].tries = IF q[o].started THEN 1 ELSE 0 BY <1>0 DEF Requests
<1> HIDE DEF c
<1>7. CASE Fails(o) BY <1>1, <1>2, <1>7, FailsStep DEF c
\* The two other ways keep the request on its connection.
<1>8. ASSUME Goes(<<>>),
             conn' \in [Conns -> Connections], \A d \in Conns \ {c} : conn'[d] = conn[d],
             conn'[c].by = o, conn'[c].in = <<>>, conn'[c].wt \/ conn'[c].rt,
             Len(conn'[c].asked) <= 1,
             q'[o].at # "read" => conn'[c].asked = <<>>,
             \A i \in DOMAIN conn'[c].asked : conn'[c].asked[i] = Tag(o),
             q' \in [Owners -> Queries], \A p \in Owners \ {o} : q'[p] = q[p],
             q'[o].conn = c, q'[o].at \in {"write", "read"},
             q'[o].at = "read" => q'[o].started,
             q'[o].tries = IF q'[o].started THEN 1 ELSE 0
      PROVE  Inv'
  <2>1. /\ calls' \in Seq(Frames) /\ Waits(calls') /\ \A p \in Owners : ~Busy(p)'
        /\ RunIn(calls) => RunIn(calls')
    BY <1>0, <1>1, <1>8, GoesNowhere
  <2>2. \A p \in Owners : ~Retrying(p)' BY <2>1 DEF Busy, Retrying
  <2>3. Types' BY <1>0, <1>1, <1>8, <2>1 DEF Types
  <2>4. Stack' BY <2>1, LenProperties DEF Stack, Busy, Waits, Replying
  <2>5. Callers' BY <1>0, <1>1, <1>3, <1>4, <1>8, <2>1 DEF Callers, Busy
  <2>6. Requests' BY <1>0, <1>3, <1>4, <1>8, <2>1, <2>2, Constants DEF Requests, Running, Busy
  <2>7. Queue'
    <3>1. {p \in Owners : q'[p].at = "queued"} = {p \in Owners : q[p].at = "queued"}
      BY <1>2, <1>8
    <3> QED BY <1>0, <1>1, <2>1, <3>1 DEF Queue, RunIn
  <2>8. Counted'
    <3>1. \A p \in Owners : Running(p)' <=> Running(p) BY <1>2, <1>8 DEF Running
    <3> QED BY <1>0, <1>1, <3>1, CountKept
  <2>9. Owned'
    <3>1. ToSet(idle') = {d \in Conns : conn'[d].by = Idle}
      BY <1>0, <1>1, <1>3, <1>8, Constants DEF Owned
    <3>2. \A d \in Conns, p \in Owners : conn'[d].by = p <=> q'[p].conn = d
      BY <1>0, <1>3, <1>8, Constants DEF Owned, c
    <3> QED BY <1>0, <1>1, <3>1, <3>2 DEF Owned
  <2>10. Timed'
    <3>1. \A d \in Conns : conn'[d].by = Idle => conn'[d].rt
      BY <1>0, <1>8, Constants DEF Timed
    <3>2. ASSUME NEW p \in Owners \ {o}, q'[p].conn # None
          PROVE  conn'[q'[p].conn].wt \/ conn'[q'[p].conn].rt
      <4>1. q'[p] = q[p] /\ q[p].conn \in Conns /\ q[p].conn # c
        BY <1>0, <1>3, <1>8, <3>2 DEF Types, Queries
      <4> QED BY <1>0, <1>4, <1>8, <4>1, <3>2 DEF Timed
    <3> QED BY <1>8, <3>1, <3>2 DEF Timed
  <2>11. Owed'
    <3>2. ASSUME NEW d \in Conns \ {c}, NEW p \in Owners \ {o}, conn'[d].by = p
          PROVE  conn[d].by = p /\ q'[p] = q[p] /\ Tag(p)' = Tag(p)
      BY <1>1, <1>8, <3>2 DEF Tag
    <3>3. \A d \in Conns \ {c} : conn'[d].by # o
      BY <1>8, <2>9 DEF Owned
    <3>4. Tag(o)' = Tag(o) BY <1>1 DEF Tag
    <3>5. Len(<<>>) = 0 /\ DOMAIN <<>> = {} BY EmptySeq
    <3> QED BY <1>0, <1>8, <3>2, <3>3, <3>4, <3>5, Constants DEF Owed, Final
  <2> QED BY <2>3, <2>4, <2>5, <2>6, <2>7, <2>8, <2>9, <2>10, <2>11 DEF Inv
<1>9. ASSUME NEW some \in BOOLEAN,
             calls[1].st = "room" => some /\ ~q[o].started,
             q' = [q EXCEPT ![o].tries = IF some THEN @ + 1 ELSE @, ![o].started = some],
             conn' = [conn EXCEPT ![c].wt = TRUE],
             Goes(<<>>)
      PROVE  Inv'
  <2>1. ~q[o].started /\ q[o].tries = 0 BY <1>2, <1>6, <1>9
  <2> DEFINE n == IF some THEN 1 ELSE 0
  <2>2. q' = [q EXCEPT ![o].tries = n, ![o].started = some]
    BY <1>9, <2>1
  <2>3. n \in Nat /\ q \in [Owners -> Queries] BY <1>0 DEF Types
  <2> HIDE DEF n
  <2>4. q' \in [Owners -> Queries] BY <2>2, <2>3, TriedType
  <2>5. /\ \A p \in Owners \ {o} : q'[p] = q[p]
        /\ q'[o].at = q[o].at /\ q'[o].conn = q[o].conn /\ q'[o].started = some
    BY <2>2, <2>3 DEF Queries
  <2>6. q'[o].tries = n BY <2>2, <2>3 DEF Queries
  <2>7. conn \in [Conns -> Connections] BY <1>0 DEF Types
  <2>8. conn' \in [Conns -> Connections] BY <1>3, <1>9, <2>7 DEF Connections
  <2>9. /\ \A d \in Conns \ {c} : conn'[d] = conn[d]
        /\ conn'[c].by = conn[c].by /\ conn'[c].in = conn[c].in /\ conn'[c].wt = TRUE
        /\ conn'[c].asked = conn[c].asked
    BY <1>3, <1>9, <2>7 DEF Connections
  <2>10. Len(<<>>) = 0 /\ DOMAIN <<>> = {} BY EmptySeq
  <2>11. q'[o].tries = IF q'[o].started THEN 1 ELSE 0 BY <2>5, <2>6 DEF n
  <2> QED BY <1>2, <1>3, <1>5, <1>8, <1>9, <2>4, <2>5, <2>8, <2>9, <2>10, <2>11 DEF c
<1>10. ASSUME q' = [q EXCEPT ![o].at = "read", ![o].started = TRUE,
                             ![o].tries = IF q[o].started THEN @ ELSE @ + 1],
              conn' = [conn EXCEPT ![c].wt = FALSE, ![c].rt = TRUE,
                         ![c].ev = @ \/ conn[c].fin,
                         ![c].asked = IF conn[c].fin THEN @ ELSE Append(@, Tag(o))],
              Goes(<<>>)
       PROVE  Inv'
  <2> DEFINE s == IF conn[c].fin THEN conn[c].asked ELSE Append(conn[c].asked, Tag(o))
             e == conn[c].ev \/ conn[c].fin
             n == [conn[c] EXCEPT !.wt = FALSE, !.rt = TRUE, !.ev = e, !.asked = s]
  <2>1. Tag(o) \in Tags BY <1>0 DEF Types, Tag, Tags
  <2>2. s \in Seq(Tags) /\ Len(s) <= 1 /\ \A i \in DOMAIN s : s[i] = Tag(o)
    <3>1. CASE conn[c].fin
      <4>1. s = <<>> BY <1>5, <3>1
      <4> HIDE DEF s
      <4> QED BY <4>1, EmptySeq
    <3>2. CASE ~conn[c].fin
      <4>1. s = <<Tag(o)>> BY <1>5, <3>2
      <4> HIDE DEF s
      <4> QED BY <2>1, <4>1
    <3> QED BY <3>1, <3>2
  <2>3. e \in BOOLEAN BY <1>3 DEF Connections
  <2>4. conn' = [conn EXCEPT ![c] = n]
    BY <1>10, Zenon
  <2> HIDE DEF s, e
  <2>5. n \in Connections BY <1>3, <2>2, <2>3 DEF Connections
  <2>6. n.by = conn[c].by /\ n.in = conn[c].in /\ n.rt = TRUE /\ n.asked = s
    BY <1>3, <2>2, <2>3 DEF Connections
  <2> HIDE DEF n
  <2>7. /\ conn' \in [Conns -> Connections] /\ conn'[c] = n
        /\ \A d \in Conns \ {c} : conn'[d] = conn[d]
    BY <1>0, <1>3, <2>4, <2>5 DEF Types
  <2>8. q \in [Owners -> Queries] BY <1>0 DEF Types
  <2>9. q' = [q EXCEPT ![o].at = "read", ![o].started = TRUE, ![o].tries = 1]
    <3>1. (IF q[o].started THEN q[o].tries ELSE q[o].tries + 1) = 1 BY <1>6
    <3> QED BY <1>10, <3>1, Zenon
  <2>10. q' \in [Owners -> Queries] BY <2>8, <2>9, WrittenType
  <2>11. /\ \A p \in Owners \ {o} : q'[p] = q[p]
         /\ q'[o].at = "read" /\ q'[o].conn = q[o].conn /\ q'[o].started = TRUE
    BY <2>8, <2>9 DEF Queries
  <2>12. q'[o].tries = 1 BY <2>8, <2>9 DEF Queries
  <2> QED BY <1>3, <1>5, <1>8, <1>10, <2>2, <2>6, <2>7, <2>10, <2>11, <2>12 DEF c
<1> QED BY <1>7, <1>9, <1>10 DEF Write, c

\* What the end of a request leaves on the stack below its callback.
LEMMA FreedProperties ==
  ASSUME Inv, NEW o \in Owners, RunIn(calls) => calls[1].op # "run"
  PROVE  /\ Freed(o) \o Later \in Seq(Frames) /\ Waits(Freed(o) \o Later)
         /\ Running(o) \/ RunIn(calls) => RunIn(Freed(o) \o Later)
<1>0. Types /\ Stack BY DEF Inv
<1>1. Later \in Seq(Frames) /\ Waits(Later) /\ (RunIn(calls) => RunIn(Later))
  BY <1>0, LaterProperties
<1>2. CASE Running(o)
  <2> DEFINE f == Call("run", None)
  <2>1. f \in Frames /\ f.op = "run" BY DEF Call, Frames, Ops
  <2>2. Freed(o) = <<f>> BY <1>2 DEF Freed
  <2> HIDE DEF f
  <2> QED BY <1>1, <2>1, <2>2, Pushed
<1>3. CASE ~Running(o)
  <2>1. Freed(o) \o Later = Later BY <1>1, <1>3, ConcatEmptySeq DEF Freed
  <2> QED BY <1>1, <1>3, <2>1
<1> QED BY <1>2, <1>3

\* The count when the request of o ends.
LEMMA EndCounts ==
  ASSUME Inv, NEW o \in Owners,
         active' = IF Running(o) THEN active - 1 ELSE active,
         ~Running(o)', \A p \in Owners \ {o} : q'[p] = q[p]
  PROVE  /\ Counted' /\ active' \in 0 .. MaxActive
         /\ active' < active \/ active' = active
         /\ ~Running(o) => active' = active
<1>0. Types /\ Counted BY DEF Inv
<1>1. \A p \in Owners \ {o} : Running(p)' <=> Running(p) BY DEF Running
<1>2. active \in 0 .. MaxActive /\ MaxActive \in Nat BY <1>0, Constants DEF Types
<1>3. CASE Running(o)
  <2>1. active' = active - 1 BY <1>3
  <2>2. Counted' /\ active > 0 BY <1>0, <1>1, <1>3, <2>1, CountDown
  <2> QED BY <1>2, <1>3, <2>1, <2>2
<1>4. CASE ~Running(o)
  <2>1. active' = active /\ \A p \in Owners : Running(p)' <=> Running(p) BY <1>1, <1>4
  <2>2. Counted' BY <1>0, <2>1, CountKept
  <2> QED BY <1>2, <2>1, <2>2
<1> QED BY <1>3, <1>4

LEMMA FinishStep ==
  ASSUME Inv, NEW o \in Owners, NEW st \in Statuses, NEW keep \in BOOLEAN,
         q[o].at \in {"new", "connect", "write", "read"},
         calls = <<>> \/ (calls # <<>> /\ calls[1].op = "finish" /\ calls[1].o = o),
         keep /\ q[o].conn # None => conn[q[o].conn].asked = <<>>,
         Finish(o, st, keep, Later),
         UNCHANGED <<result, told, asks, qtype, pending>>,
         cache' \in [{1, 2} -> Statuses \cup {"none"}]
  PROVE  Inv'
<1>0. Types /\ Stack /\ Callers /\ Requests /\ Queue /\ Counted /\ Owned /\ Timed /\ Owed BY DEF Inv
<1>1. \A p \in Owners : /\ ~Next1("start", p) /\ ~Next1("write", p) /\ ~Replying(p)
                        /\ ~Next1("answer", p) /\ ~Retrying(p)
                        /\ Next1("finish", p) => p = o
  BY DEF Next1, Replying, Retrying
<1>2. RunIn(calls) => calls[1].op # "run" BY EmptySeq DEF RunIn
<1>3. handle[o] BY <1>0 DEF Callers, Types
<1>4. /\ q' \in [Owners -> Queries] /\ \A p \in Owners \ {o} : q'[p] = q[p]
      /\ q'[o].at = "none" /\ q'[o].conn = None /\ ~q'[o].reused /\ ~q'[o].retried
      /\ ~q'[o].started /\ q'[o].tries = 0
  <2>1. NoQuery \in Queries BY DEF NoQuery, NewQuery, Queries
  <2>2. q' \in [Owners -> Queries] /\ q'[o] = NoQuery /\ \A p \in Owners \ {o} : q'[p] = q[p]
    BY <1>0, <2>1 DEF Finish, Types
  <2> QED BY <2>2 DEF NoQuery, NewQuery
<1>5. handle' = [handle EXCEPT ![o] = FALSE] /\ handle' \in [Owners -> BOOLEAN]
  BY <1>0 DEF Finish, Types
<1> DEFINE f == Ends("answer", o, st)
           r == Freed(o) \o Later
<1>6. f \in Frames /\ f.op = "answer" /\ f.o = o /\ f.st = st
  BY DEF Frames, Ops, Ends
<1>7. r \in Seq(Frames) /\ Waits(r) /\ (Running(o) \/ RunIn(calls) => RunIn(r))
  BY <1>2, FreedProperties
<1>8. calls' = <<f>> \o r
  <2>1. calls' = <<f>> \o Freed(o) \o Later BY DEF Finish
  <2>2. <<f>> \in Seq(Frames) /\ Later \in Seq(Frames) BY <1>0, <1>6, LaterProperties
  <2>3. Freed(o) \in Seq(Frames)
    <3>1. Call("run", None) \in Frames BY DEF Call, Frames, Ops
    <3>2. <<Call("run", None)>> \in Seq(Frames) BY <3>1
    <3> QED BY <3>2, EmptySeq DEF Freed
  <2> HIDE DEF f
  <2> QED BY <2>1, <2>2, <2>3, ConcatAssociative
<1> HIDE DEF f, r
<1>9. /\ calls' \in Seq(Frames) /\ calls' # <<>> /\ calls'[1] = f
      /\ \A i \in 2 .. Len(calls') : calls'[i].op \in {"run", "cancel"}
      /\ Running(o) \/ RunIn(calls) => RunIn(calls')
  BY <1>6, <1>7, <1>8, Pushed
<1>10. \A p \in Owners : /\ ~Next1("start", p)' /\ ~Next1("write", p)' /\ ~Next1("finish", p)'
                         /\ ~Retrying(p)'
                         /\ Replying(p)' <=> p = o
                         /\ Next1("answer", p)' <=> p = o
  BY <1>6, <1>9 DEF Next1, Replying, Retrying
<1>11. /\ Counted' /\ active' \in 0 .. MaxActive
       /\ active' < active \/ active' = active
       /\ ~Running(o) => active' = active
  <2>1. ~Running(o)' BY <1>4 DEF Running
  <2>2. active' = IF Running(o) THEN active - 1 ELSE active BY DEF Finish
  <2> QED BY <1>4, <2>1, <2>2, EndCounts
<1>12. /\ conn' \in [Conns -> Connections] /\ Owned' /\ Timed' /\ Owed'
       /\ idle' \in Seq(Conns)
  <2>1. CASE ~Kept(o, st, keep)
    <3>1. conn' = Dropped(o) /\ idle' = idle BY <2>1 DEF Finish
    <3> QED BY <1>0, <1>1, <1>4, <3>1, Dropping DEF Types
  <2>2. CASE Kept(o, st, keep)
    <3> DEFINE c == q[o].conn
               n == [conn[c] EXCEPT !.by = Idle, !.in = <<>>, !.ev = FALSE,
                                    !.rt = TRUE, !.wt = FALSE]
    <3>1. c # None /\ keep /\ Len(idle) < MaxIdle BY <2>2 DEF Kept
    <3>2. /\ c \in Conns /\ conn[c] \in Connections /\ conn[c].by = o
          /\ \A p \in Owners \ {o} : q[p].conn # c
      BY <3>1, Holding
    <3>3. conn' = [conn EXCEPT ![c].by = Idle, ![c].in = <<>>, ![c].ev = FALSE,
                               ![c].rt = TRUE, ![c].wt = FALSE]
          /\ idle' = Append(idle, c)
      BY <2>2 DEF Finish
    <3>4. conn' = [conn EXCEPT ![c] = n] BY <3>3, Zenon
    <3>5. conn[c].asked = <<>> BY <3>1
    <3>6. <<>> \in Seq(Pieces) /\ Len(<<>>) = 0 /\ DOMAIN <<>> = {} BY EmptySeq
    <3> HIDE DEF c
    <3>7. n \in Connections BY <3>2, <3>6 DEF Connections
    <3>8. n.by = Idle /\ n.in = <<>> /\ n.rt = TRUE /\ n.asked = conn[c].asked
      BY <3>2 DEF Connections
    <3> HIDE DEF n
    <3>9. /\ conn' \in [Conns -> Connections] /\ conn'[c] = n
          /\ \A d \in Conns \ {c} : conn'[d] = conn[d]
      BY <1>0, <3>2, <3>4, <3>7 DEF Types
    <3>10. c \notin ToSet(idle) BY <1>0, <3>2, Constants DEF Owned
    <3>11. /\ idle' \in Seq(Conns) /\ Len(idle') = Len(idle) + 1
           /\ ToSet(idle') = ToSet(idle) \cup {c} /\ IsInjective(idle')
      BY <1>0, <3>2, <3>3, <3>10, AppendSet DEF Types, Owned
    <3>12. Owned'
      <4>1. ToSet(idle') = {d \in Conns : conn'[d].by = Idle}
        BY <1>0, <3>2, <3>8, <3>9, <3>11 DEF Owned
      <4>2. \A d \in Conns, p \in Owners : conn'[d].by = p <=> q'[p].conn = d
        BY <1>0, <1>4, <3>2, <3>8, <3>9, Constants DEF Owned, c
      <4>3. Len(idle') <= MaxIdle
        BY <1>0, <3>1, <3>11, Constants, LenProperties DEF Types
      <4> QED BY <3>11, <4>1, <4>2, <4>3 DEF Owned
    <3>13. Timed'
      <4>1. \A d \in Conns : conn'[d].by = Idle => conn'[d].rt
        BY <1>0, <3>8, <3>9 DEF Timed
      <4>2. ASSUME NEW p \in Owners \ {o}, q'[p].conn # None
            PROVE  conn'[q'[p].conn].wt \/ conn'[q'[p].conn].rt
        <5>1. q'[p] = q[p] /\ q[p].conn \in Conns /\ q[p].conn # c
          BY <1>0, <1>4, <3>2, <4>2 DEF Types, Queries
        <5> QED BY <1>0, <1>1, <3>9, <5>1, <4>2 DEF Timed
      <4> QED BY <1>4, <4>1, <4>2 DEF Timed
    <3>14. Owed'
      <4>1. ASSUME NEW d \in Conns \ {c}, NEW p \in Owners \ {o}, conn'[d].by = p
            PROVE  conn[d].by = p /\ q'[p] = q[p] /\ Tag(p)' = Tag(p)
        BY <1>4, <3>9, <4>1 DEF Tag
      <4>2. \A d \in Conns : conn'[d].by # o BY <1>4, <3>12, Constants DEF Owned
      <4>3. conn'[c].asked = <<>> /\ conn'[c].in = <<>> BY <3>5, <3>8, <3>9
      <4> QED BY <1>0, <3>6, <3>9, <4>1, <4>2, <4>3 DEF Owed, Final
    <3> QED BY <3>9, <3>11, <3>12, <3>13, <3>14
  <2> QED BY <2>1, <2>2
<1>13. Types' BY <1>0, <1>4, <1>5, <1>9, <1>11, <1>12 DEF Types
<1>14. Stack'
  <2>1. ~handle'[o] BY <1>0, <1>5 DEF Types
  <2> QED BY <1>6, <1>9, <1>10, <2>1 DEF Stack
<1>15. Callers' BY <1>0, <1>1, <1>3, <1>4, <1>5, <1>10 DEF Callers, Types
<1>16. Requests' BY <1>0, <1>1, <1>4, <1>10 DEF Requests, Running
<1>17. Queue'
  <2>1. {p \in Owners : q'[p].at = "queued"} = {p \in Owners : q[p].at = "queued"}
    BY <1>4
  <2>2. active >= MaxActive => active' >= MaxActive \/ Running(o) BY <1>11
  <2> QED BY <1>0, <1>9, <2>1, <2>2 DEF Queue, RunIn
<1> QED BY <1>11, <1>12, <1>13, <1>14, <1>15, <1>16, <1>17 DEF Inv

LEMMA FinishCallStep ==
  ASSUME Inv, NEW o \in Owners, FinishCall(o)
  PROVE  Inv'
<1>0. Types /\ Stack BY DEF Inv
<1>1. /\ calls # <<>> /\ calls[1].op = "finish" /\ calls[1].o = o
      /\ Finish(o, calls[1].st, FALSE, Tail(calls))
      /\ UNCHANGED <<result, told, asks, qtype, pending, cache>>
  BY DEF FinishCall, caller
<1>2. q[o].at \in {"new", "connect", "write", "read"} /\ calls[1].st \in Statuses
  BY <1>0, <1>1 DEF Stack, Next1
<1>3. Later = Tail(calls) BY <1>1 DEF Later
<1>4. cache' \in [{1, 2} -> Statuses \cup {"none"}] BY <1>0, <1>1 DEF Types
<1>5. Finish(o, calls[1].st, FALSE, Later) BY <1>1, <1>3
<1> QED BY <1>1, <1>2, <1>4, <1>5, FinishStep

\* A call that an event makes and that changes nothing else.
LEMMA CallStep ==
  ASSUME Inv, NEW o \in Owners, NEW f \in Frames, calls = <<>>, calls' = <<f>>,
         UNCHANGED <<result, told, asks, qtype, handle, q, pending, active, idle, conn, cache>>,
         f.o = o,
         \/ f.op = "finish" /\ q[o].at \in {"connect", "write", "read"} /\ f.st \in Statuses
         \/ f.op = "write" /\ q[o].at = "write" /\ f.st = "room"
  PROVE  Inv'
<1>0. Types /\ Stack /\ Callers /\ Requests /\ Queue /\ Counted /\ Owned /\ Timed /\ Owed BY DEF Inv
<1>1. /\ \A p \in Owners : ~Busy(p) /\ ~Retrying(p) /\ (Running(p) => q[p].conn # None)
      /\ ~RunIn(calls)
  BY Settled
<1>2. calls' \in Seq(Frames) /\ calls' # <<>> /\ calls'[1] = f /\ Len(calls') = 1
  BY EmptySeq
<1>3. \A p \in Owners : /\ ~Next1("start", p)' /\ ~Replying(p)' /\ ~Next1("answer", p)'
                        /\ ~Retrying(p)'
                        /\ Next1("finish", p)' <=> p = o /\ f.op = "finish"
                        /\ Next1("write", p)' <=> p = o /\ f.op = "write"
  BY <1>2 DEF Next1, Replying, Retrying
<1>4. f.op = "write" => q[o].conn # None BY <1>1 DEF Running
<1>5. Types' BY <1>0, <1>2 DEF Types
<1>6. Stack' BY <1>2, <1>3, <1>4 DEF Stack
<1>7. Callers' BY <1>0, <1>1, <1>3 DEF Callers, Busy
<1>8. Requests' BY <1>0, <1>1, <1>3 DEF Requests, Running, Busy
<1>9. Queue' BY <1>0, <1>1 DEF Queue, RunIn
<1>10. Counted' BY <1>0, CountKept DEF Running
<1>11. Owned' BY <1>0 DEF Owned
<1>12. Timed' BY <1>0, <1>1 DEF Timed, Busy
<1>13. Owed' BY <1>0 DEF Owed, Final, Tag
<1> QED BY <1>5, <1>6, <1>7, <1>8, <1>9, <1>10, <1>11, <1>12, <1>13 DEF Inv

LEMMA OpenedStep ==
  ASSUME Inv, NEW o \in Owners, Opened(o)
  PROVE  Inv'
<1>0. Types /\ Stack /\ Callers /\ Requests /\ Queue /\ Counted /\ Owned /\ Timed /\ Owed BY DEF Inv
<1>1. /\ calls = <<>> /\ q[o].at = "connect"
      /\ UNCHANGED <<result, told, asks, qtype, handle, pending, active, idle, cache>>
  BY DEF Opened, caller
<1>2. /\ \A p \in Owners : ~Busy(p) /\ ~Retrying(p) /\ (Running(p) => q[p].conn # None)
      /\ ~RunIn(calls)
  BY <1>1, Settled
<1>3. CASE calls' = <<Ends("finish", o, "error")>> /\ UNCHANGED <<q, conn>>
  <2> DEFINE f == Ends("finish", o, "error")
  <2>1. f \in Frames /\ f.op = "finish" /\ f.o = o /\ f.st \in Statuses
    BY DEF Frames, Ops, Ends, Statuses
  <2>2. calls' = <<f>> /\ UNCHANGED <<q, conn>> BY <1>3
  <2> HIDE DEF f
  <2> QED BY <1>1, <2>1, <2>2, CallStep
<1>4. CASE /\ q' = [q EXCEPT ![o].at = "write"]
           /\ conn' = [conn EXCEPT ![q[o].conn].wt = FALSE]
           /\ calls' = <<Call("write", o)>>
  <2> DEFINE c == q[o].conn
             f == Call("write", o)
  <2>1. c # None BY <1>1, <1>2 DEF Running
  <2>2. /\ c \in Conns /\ conn[c] \in Connections /\ conn[c].by = o /\ handle[o]
        /\ \A p \in Owners \ {o} : q[p].conn # c
    BY <2>1, Holding
  <2>3. f \in Frames /\ f.op = "write" /\ f.o = o BY DEF Frames, Ops, Call
  <2> HIDE DEF f
  <2>4. calls' \in Seq(Frames) /\ calls' # <<>> /\ calls'[1] = f /\ Len(calls') = 1
    BY <1>4, <2>3 DEF f
  <2>5. \A p \in Owners : /\ ~Next1("start", p)' /\ ~Replying(p)' /\ ~Next1("answer", p)'
                          /\ ~Retrying(p)' /\ ~Next1("finish", p)'
                          /\ Next1("write", p)' <=> p = o
    BY <2>3, <2>4 DEF Next1, Replying, Retrying
  <2>6. conn' = [conn EXCEPT ![c].wt = FALSE] BY <1>4
  <2> HIDE DEF c
  <2>7. conn \in [Conns -> Connections] /\ q \in [Owners -> Queries] BY <1>0 DEF Types
  <2>8. conn' \in [Conns -> Connections] BY <2>2, <2>6, <2>7 DEF Connections
  <2>9. /\ \A d \in Conns : d # c => conn'[d] = conn[d]
        /\ conn'[c].by = conn[c].by /\ conn'[c].in = conn[c].in
        /\ conn'[c].asked = conn[c].asked
    BY <2>2, <2>6, <2>7 DEF Connections
  <2>10. q' \in [Owners -> Queries] BY <1>4, <2>7 DEF Queries
  <2>11. /\ \A p \in Owners \ {o} : q'[p] = q[p]
         /\ q'[o].at = "write" /\ q'[o].conn = q[o].conn /\ q'[o].started = q[o].started
    BY <1>4, <2>7 DEF Queries
  <2>12. q'[o].tries = q[o].tries BY <1>4, <2>7 DEF Queries
  <2>13. ~q[o].started BY <1>0, <1>1 DEF Requests
  <2>14. Types' BY <1>0, <1>1, <2>4, <2>8, <2>10 DEF Types
  <2>15. Stack' BY <2>1, <2>4, <2>5, <2>11, <2>13 DEF Stack, c
  <2>16. Callers' BY <1>0, <1>1, <1>2, <2>2, <2>5, <2>11 DEF Callers, Busy
  <2>17. Requests' BY <1>0, <1>2, <2>1, <2>5, <2>11, <2>12 DEF Requests, Running, Busy, c
  <2>18. Queue'
    <3>1. {p \in Owners : q'[p].at = "queued"} = {p \in Owners : q[p].at = "queued"}
      BY <1>1, <2>11
    <3> QED BY <1>0, <1>1, <1>2, <3>1 DEF Queue, RunIn
  <2>19. Counted'
    <3>1. \A p \in Owners : Running(p)' <=> Running(p) BY <1>1, <2>11 DEF Running
    <3> QED BY <1>0, <1>1, <3>1, CountKept
  <2>20. \A d \in Conns : conn'[d].by = conn[d].by BY <2>9
  <2>21. \A p \in Owners : q'[p].conn = q[p].conn BY <2>11
  <2>22. Owned' BY <1>0, <1>1, <2>20, <2>21 DEF Owned
  <2>23. Timed'
    <3>1. \A d \in Conns : conn'[d].by = Idle => conn'[d].rt
      BY <1>0, <2>2, <2>9, Constants DEF Timed
    <3>2. ASSUME NEW p \in Owners \ {o}, q'[p].conn # None
          PROVE  conn'[q'[p].conn].wt \/ conn'[q'[p].conn].rt
      <4>1. q'[p] = q[p] /\ q[p].conn \in Conns /\ q[p].conn # c
        BY <1>0, <2>2, <2>11, <3>2 DEF Types, Queries
      <4> QED BY <1>0, <1>2, <2>9, <4>1, <3>2 DEF Timed, Busy
    <3> QED BY <2>5, <3>1, <3>2 DEF Timed
  <2>24. Owed'
    <3>1. \A d \in Conns : conn'[d].asked = conn[d].asked /\ conn'[d].in = conn[d].in
      BY <2>9
    <3>2. \A p \in Owners : Tag(p)' = Tag(p) BY <1>1 DEF Tag
    <3>3. \A p \in Owners : q'[p].at # "read" => q[p].at # "read" BY <1>1, <2>11
    <3> QED BY <1>0, <2>20, <3>1, <3>2, <3>3 DEF Owed, Final
  <2> QED BY <2>14, <2>15, <2>16, <2>17, <2>18, <2>19, <2>22, <2>23, <2>24 DEF Inv
<1> QED BY <1>3, <1>4 DEF Opened

LEMMA WriteEventStep ==
  ASSUME Inv, NEW o \in Owners, WriteEvent(o)
  PROVE  Inv'
<1> DEFINE f == Ends("write", o, "room")
<1>1. /\ calls = <<>> /\ q[o].at = "write" /\ calls' = <<f>>
      /\ UNCHANGED <<result, told, asks, qtype, handle, q, pending, active, idle, conn, cache>>
  BY DEF WriteEvent, caller
<1>2. f \in Frames /\ f.op = "write" /\ f.o = o /\ f.st = "room" BY DEF Frames, Ops, Ends
<1> HIDE DEF f
<1> QED BY <1>1, <1>2, CallStep

LEMMA TimeoutStep ==
  ASSUME Inv, NEW o \in Owners, Timeout(o)
  PROVE  Inv'
<1>1. /\ calls = <<>> /\ Running(o)
      /\ UNCHANGED <<result, told, asks, qtype, handle, pending, active, idle, cache>>
  BY DEF Timeout, caller
<1>2. q[o].conn # None BY <1>1, Settled
<1>3. CASE q[o].at = "connect"
  <2> DEFINE f == Ends("finish", o, "error")
  <2>1. f \in Frames /\ f.op = "finish" /\ f.o = o /\ f.st \in Statuses
    BY DEF Frames, Ops, Ends, Statuses
  <2>2. calls' = <<f>> /\ UNCHANGED <<q, conn>> BY <1>3 DEF Timeout
  <2> HIDE DEF f
  <2> QED BY <1>1, <1>3, <2>1, <2>2, CallStep
<1>4. CASE q[o].at # "connect"
  <2>1. Fails(o) BY <1>4 DEF Timeout
  <2>2. q[o].at \in {"write", "read"} BY <1>1, <1>4 DEF Running
  <2> QED BY <1>1, <1>2, <2>1, <2>2, FailsStep
<1> QED BY <1>3, <1>4

LEMMA CompleteStep ==
  ASSUME Inv, NEW o \in Owners, NEW mine \in BOOLEAN, NEW keep \in BOOLEAN,
         calls = <<>>, q[o].at \in {"write", "read"},
         keep /\ q[o].conn # None => conn[q[o].conn].asked = <<>>,
         Complete(o, mine, keep)
  PROVE  Inv'
<1>0. Types BY DEF Inv
<1>1. UNCHANGED <<result, told, asks, qtype, pending>> BY DEF Complete, caller
<1>2. PICK st \in Statuses : /\ Finish(o, st, keep, <<>>)
                             /\ Stored(o, st) \/ UNCHANGED cache
  BY DEF Complete, Statuses
<1>3. cache' \in [{1, 2} -> Statuses \cup {"none"}] BY <1>0, <1>2 DEF Stored, Types
<1>4. Later = <<>> BY Settled
<1>5. Finish(o, st, keep, Later) BY <1>2, <1>4
<1> QED BY <1>1, <1>3, <1>5, FinishStep

LEMMA ReadEventStep ==
  ASSUME Inv, NEW o \in Owners, ReadEvent(o)
  PROVE  Inv'
<1> DEFINE c == q[o].conn
<1>0. Types /\ Stack /\ Callers /\ Requests /\ Queue /\ Counted /\ Owned /\ Timed /\ Owed BY DEF Inv
<1>1. calls = <<>> /\ q[o].at \in {"write", "read"} BY DEF ReadEvent
<1>2. /\ \A p \in Owners : ~Busy(p) /\ ~Retrying(p) /\ (Running(p) => q[p].conn # None)
      /\ ~RunIn(calls)
  BY <1>1, Settled
<1>3. c # None BY <1>1, <1>2 DEF Running
<1>4. /\ c \in Conns /\ conn[c] \in Connections /\ conn[c].by = o /\ handle[o]
      /\ q[o] \in Queries
      /\ \A p \in Owners \ {o} : q[p].conn # c
  BY <1>3, Holding
<1>5. CASE Complete(o, q[o].half = Tag(o), FALSE)
  <2>1. (q[o].half = Tag(o)) \in BOOLEAN OBVIOUS
  <2> QED BY <1>1, <1>5, <2>1, CompleteStep
<1>6. CASE Fails(o) /\ UNCHANGED <<caller, handle, pending, active, idle, cache>>
  BY <1>1, <1>3, <1>6, FailsStep DEF caller
<1>7. CASE /\ conn[c].in # <<>> /\ Last(conn[c].in).kind \in {"keep", "close"}
           /\ Complete(o, Last(conn[c].in).tag = Tag(o), Last(conn[c].in).kind = "keep")
  <2>1. conn[c].asked = <<>> BY <1>0, <1>4, <1>7 DEF Owed, Final
  <2> DEFINE m == Last(conn[c].in).tag = Tag(o)
             k == Last(conn[c].in).kind = "keep"
  <2>2. m \in BOOLEAN /\ k \in BOOLEAN OBVIOUS
  <2>3. Complete(o, m, k) BY <1>7
  <2> HIDE DEF m, k
  <2> QED BY <1>1, <2>1, <2>2, <2>3, CompleteStep
<1>8. CASE /\ conn[c].in # <<>> /\ Last(conn[c].in).kind \in {"part", "toEnd"}
           /\ q' = [q EXCEPT ![o].half = IF Last(conn[c].in).kind = "toEnd"
                                         THEN Last(conn[c].in).tag ELSE @]
           /\ conn' = [conn EXCEPT ![c].in = <<>>, ![c].ev = FALSE]
           /\ UNCHANGED <<calls, caller, handle, pending, active, idle, cache>>
  <2> DEFINE h == IF Last(conn[c].in).kind = "toEnd" THEN Last(conn[c].in).tag ELSE q[o].half
             n == [conn[c] EXCEPT !.in = <<>>, !.ev = FALSE]
             m == [q[o] EXCEPT !.half = h]
  <2>0. UNCHANGED <<calls, result, told, asks, qtype, handle, pending, active, idle, cache>>
    BY <1>8 DEF caller
  <2>1. h \in Tags \cup {None}
    <3>1. conn[c].in \in Seq(Pieces) BY <1>4 DEF Connections
    <3>2. Len(conn[c].in) \in DOMAIN conn[c].in BY <1>8, <3>1, LenProperties, EmptySeq
    <3>3. Last(conn[c].in) \in Pieces BY <3>1, <3>2, ElementOfSeq, LenProperties DEF Last
    <3>4. Last(conn[c].in).tag \in Tags BY <3>3 DEF Pieces
    <3>5. q[o].half \in Tags \cup {None} BY <1>4 DEF Queries
    <3> QED BY <3>4, <3>5
  <2>2. q' = [q EXCEPT ![o] = m] /\ conn' = [conn EXCEPT ![c] = n] BY <1>8, Zenon
  <2>3. <<>> \in Seq(Pieces) /\ Len(<<>>) = 0 /\ DOMAIN <<>> = {} BY EmptySeq
  <2> HIDE DEF h, c
  <2>4. n \in Connections BY <1>4, <2>3 DEF Connections
  <2>5. n.by = conn[c].by /\ n.asked = conn[c].asked /\ n.in = <<>>
        /\ n.rt = conn[c].rt /\ n.wt = conn[c].wt
    BY <1>4 DEF Connections
  <2>6. m \in Queries BY <1>4, <2>1 DEF Queries
  <2>7. m.at = q[o].at /\ m.conn = q[o].conn /\ m.reused = q[o].reused
        /\ m.retried = q[o].retried /\ m.started = q[o].started
    BY <1>4 DEF Queries
  <2>8. m.tries = q[o].tries BY <1>4 DEF Queries
  <2> HIDE DEF n, m
  <2>9. /\ conn' \in [Conns -> Connections] /\ conn'[c] = n
        /\ \A d \in Conns : d # c => conn'[d] = conn[d]
    BY <1>0, <1>4, <2>2, <2>4 DEF Types
  <2>10. /\ q' \in [Owners -> Queries] /\ q'[o] = m
         /\ \A p \in Owners \ {o} : q'[p] = q[p]
    BY <1>0, <2>2, <2>6 DEF Types
  <2>11. \A p \in Owners : /\ q'[p].at = q[p].at /\ q'[p].conn = q[p].conn
                           /\ q'[p].reused = q[p].reused /\ q'[p].retried = q[p].retried
                           /\ q'[p].started = q[p].started /\ q'[p].tries = q[p].tries
    BY <2>7, <2>8, <2>10
  <2>12. \A d \in Conns : /\ conn'[d].by = conn[d].by /\ conn'[d].asked = conn[d].asked
                          /\ conn'[d].rt = conn[d].rt /\ conn'[d].wt = conn[d].wt
                          /\ conn'[d].in = conn[d].in \/ conn'[d].in = <<>>
    BY <2>5, <2>9
  <2>13. Types' BY <1>0, <2>0, <2>9, <2>10 DEF Types
  <2>14. Stack' BY <1>0, <1>1, <2>0 DEF Stack, Next1, Replying
  <2>15. Callers' BY <1>0, <2>0, <2>11 DEF Callers, Next1, Replying
  <2>16. Requests' BY <1>0, <2>0, <2>11 DEF Requests, Next1, Retrying, Running
  <2>17. Queue' BY <1>0, <2>0, <2>11 DEF Queue
  <2>18. Counted'
    <3>1. \A p \in Owners : Running(p)' <=> Running(p) BY <2>11 DEF Running
    <3> QED BY <1>0, <2>0, <3>1, CountKept
  <2>19. Owned' BY <1>0, <2>0, <2>11, <2>12 DEF Owned
  <2>20. Timed'
    <3>1. \A p \in Owners : q[p].conn \in Conns \cup {None} BY <1>0 DEF Types, Queries
    <3> QED BY <1>0, <2>0, <2>11, <2>12, <3>1 DEF Timed, Next1
  <2>21. Owed'
    <3>1. \A p \in Owners : Tag(p)' = Tag(p) BY <2>0 DEF Tag
    <3> QED BY <1>0, <2>3, <2>11, <2>12, <3>1 DEF Owed, Final
  <2> QED BY <2>13, <2>14, <2>15, <2>16, <2>17, <2>18, <2>19, <2>20, <2>21 DEF Inv
<1> QED BY <1>5, <1>6, <1>7, <1>8 DEF ReadEvent

----------------------------------------------------------------------------
(* Cancellations, the pool and the server.                                 *)

LEMMA CancelStep ==
  ASSUME Inv, NEW o \in Owners, Cancel(o)
  PROVE  Inv'
<1>0. Types /\ Stack /\ Callers /\ Requests /\ Queue /\ Counted /\ Owned /\ Timed /\ Owed BY DEF Inv
<1>1. /\ calls # <<>> /\ calls[1].op = "cancel" /\ calls[1].o = o
      /\ pending' = Without(pending, o)
      /\ conn' = Dropped(o) /\ calls' = Freed(o) \o Later
      /\ UNCHANGED <<told, asks, qtype, idle, cache>>
  BY DEF Cancel, Goes, Unqueued
<1>2. \A p \in Owners : ~Busy(p) /\ ~Retrying(p)
  BY <1>1 DEF Busy, Next1, Replying, Retrying
<1>3. q[o].at # "new" BY <1>0, <1>2 DEF Requests, Busy
<1>4. /\ q' \in [Owners -> Queries] /\ \A p \in Owners \ {o} : q'[p] = q[p]
      /\ q'[o].at = "none" /\ q'[o].conn = None /\ ~q'[o].reused /\ ~q'[o].retried
      /\ ~q'[o].started /\ q'[o].tries = 0
  <2>1. NoQuery \in Queries BY DEF NoQuery, NewQuery, Queries
  <2>2. q' \in [Owners -> Queries] /\ q'[o] = NoQuery /\ \A p \in Owners \ {o} : q'[p] = q[p]
    BY <1>0, <2>1 DEF Cancel, Types
  <2> QED BY <2>2 DEF NoQuery, NewQuery
<1>5. handle' = [handle EXCEPT ![o] = FALSE] /\ handle' \in [Owners -> BOOLEAN]
  BY <1>0 DEF Cancel, Types
<1>6. /\ result' \in [Owners -> {"none", "waiting", "ok", "failed", "gone"}]
      /\ \A p \in Owners \ {o} : result'[p] = result[p]
      /\ result'[o] # "waiting"
  <2> DEFINE x == IF handle[o] THEN "gone" ELSE result[o]
  <2>1. result' = [result EXCEPT ![o] = x] BY DEF Cancel
  <2>2. ~handle[o] => result[o] # "waiting" BY <1>0, <1>2 DEF Callers, Busy
  <2>3. x \in {"none", "waiting", "ok", "failed", "gone"} /\ x # "waiting"
    BY <1>0, <2>2 DEF Types
  <2> HIDE DEF x
  <2> QED BY <1>0, <2>1, <2>3 DEF Types
<1>7. /\ calls' \in Seq(Frames) /\ Waits(calls')
      /\ Running(o) \/ RunIn(calls) => RunIn(calls')
  BY <1>1, FreedProperties
<1>8. \A p \in Owners : ~Busy(p)' /\ ~Retrying(p)'
  <2>1. ASSUME calls' # <<>> PROVE calls'[1].op \in {"run", "cancel"}
    <3>1. 1 \in DOMAIN calls' BY <1>7, <2>1, EmptySeq, LenProperties
    <3> QED BY <1>7, <3>1 DEF Waits
  <2> QED BY <2>1 DEF Busy, Next1, Replying, Retrying
<1>9. /\ Counted' /\ active' \in 0 .. MaxActive
      /\ active' < active \/ active' = active
      /\ ~Running(o) => active' = active
  <2>1. ~Running(o)' BY <1>4 DEF Running
  <2>2. active' = IF Running(o) THEN active - 1 ELSE active BY DEF Cancel
  <2> QED BY <1>4, <2>1, <2>2, EndCounts
<1>10. conn' \in [Conns -> Connections] /\ Owned' /\ Timed' /\ Owed'
  BY <1>1, <1>2, <1>4, Dropping DEF Busy
<1>11. /\ pending' \in Seq(Owners) /\ Len(pending') <= Len(pending)
       /\ ToSet(pending') = ToSet(pending) \ {o} /\ IsInjective(pending')
  BY <1>0, <1>1, WithoutProperties DEF Types, Queue
<1>12. Types' BY <1>0, <1>1, <1>4, <1>5, <1>6, <1>7, <1>9, <1>10, <1>11 DEF Types
<1>13. Stack' BY <1>7, <1>8, LenProperties DEF Stack, Busy, Waits, Replying
<1>14. Callers' BY <1>0, <1>2, <1>4, <1>5, <1>6, <1>8 DEF Callers, Busy, Types
<1>15. Requests' BY <1>0, <1>2, <1>4, <1>8 DEF Requests, Running, Busy
<1>16. Queue'
  <2>1. ToSet(pending') = {p \in Owners : q'[p].at = "queued"}
    BY <1>0, <1>4, <1>11 DEF Queue
  <2>2. Len(pending') <= MaxPending
    BY <1>0, <1>11, Constants, LenProperties DEF Queue, Types
  <2>3. pending = <<>> => pending' = <<>>
    <3>1. ASSUME pending = <<>> PROVE Len(pending') = 0
      BY <1>11, <3>1, EmptySeq, LenProperties
    <3> QED BY <1>11, <3>1, EmptySeq
  <2>4. active >= MaxActive => active' >= MaxActive \/ Running(o) BY <1>9
  <2> QED BY <1>0, <1>7, <1>11, <2>1, <2>2, <2>3, <2>4 DEF Queue, RunIn
<1> QED BY <1>9, <1>10, <1>12, <1>13, <1>14, <1>15, <1>16 DEF Inv

LEMMA SessionEndsStep ==
  ASSUME Inv, SessionEnds
  PROVE  Inv'
<1>0. Types /\ Stack /\ Callers /\ Requests /\ Queue /\ Counted /\ Owned /\ Timed /\ Owed BY DEF Inv
<1>1. /\ calls = <<>>
      /\ UNCHANGED <<result, told, asks, qtype, handle, q, pending, active, idle, conn, cache>>
  BY DEF SessionEnds, caller
<1>2. PICK o, p \in Owners :
        calls' = IF o = p THEN <<Call("cancel", o)>> ELSE <<Call("cancel", o), Call("cancel", p)>>
  BY DEF SessionEnds
<1>3. \A x \in Owners : ~Busy(x) /\ ~Retrying(x) BY <1>1, Settled
<1>4. Call("cancel", o) \in Frames /\ Call("cancel", p) \in Frames
  BY DEF Call, Frames, Ops
<1>5. /\ calls' \in Seq(Frames)
      /\ \A i \in DOMAIN calls' : calls'[i] = Call("cancel", o) \/ calls'[i] = Call("cancel", p)
  BY <1>2, <1>4
<1>6. \A i \in DOMAIN calls' : calls'[i].op = "cancel" BY <1>5 DEF Call
<1>7. \A x \in Owners : ~Busy(x)' /\ ~Retrying(x)'
  <2>1. calls' # <<>> => 1 \in DOMAIN calls' BY <1>5, EmptySeq, LenProperties
  <2>2. calls' # <<>> => calls'[1].op = "cancel" BY <1>6, <2>1
  <2> QED BY <2>2 DEF Busy, Next1, Replying, Retrying
<1>8. ~RunIn(calls) BY <1>1, Settled
<1>9. Types' BY <1>0, <1>1, <1>5 DEF Types
<1>10. Stack' BY <1>5, <1>6, <1>7, LenProperties DEF Stack, Busy, Replying
<1>11. Callers' BY <1>0, <1>1, <1>3, <1>7 DEF Callers, Busy
<1>12. Requests' BY <1>0, <1>1, <1>3, <1>7 DEF Requests, Running, Busy
<1>13. Queue' BY <1>0, <1>1, <1>8 DEF Queue, RunIn
<1>14. Counted' BY <1>0, <1>1, CountKept DEF Running
<1>15. Owned' BY <1>0, <1>1 DEF Owned
<1>16. Timed' BY <1>0, <1>1, <1>3 DEF Timed, Busy
<1>17. Owed' BY <1>0, <1>1 DEF Owed, Final, Tag
<1> QED BY <1>9, <1>10, <1>11, <1>12, <1>13, <1>14, <1>15, <1>16, <1>17 DEF Inv

\* What keeps the stack, the requests and the queue keeps their part of Inv.
LEMMA OutsideStep ==
  ASSUME Inv, calls = <<>>,
         UNCHANGED <<calls, result, told, asks, qtype, handle, q, pending, active>>,
         conn' \in [Conns -> Connections], idle' \in Seq(Conns),
         cache' \in [{1, 2} -> Statuses \cup {"none"}],
         Owned', Timed', Owed'
  PROVE  Inv'
<1>0. Types /\ Stack /\ Callers /\ Requests /\ Queue /\ Counted BY DEF Inv
<1>1. Types' BY <1>0 DEF Types
<1>2. Stack' BY <1>0 DEF Stack, Next1, Replying
<1>3. Callers' BY <1>0 DEF Callers, Next1, Replying
<1>4. Requests' BY <1>0 DEF Requests, Next1, Retrying, Running
<1>5. Queue' BY <1>0 DEF Queue
<1>6. Counted' BY <1>0, CountKept DEF Running
<1> QED BY <1>1, <1>2, <1>3, <1>4, <1>5, <1>6 DEF Inv

LEMMA IdleEventStep ==
  ASSUME Inv, NEW c \in Conns, IdleEvent(c)
  PROVE  Inv'
<1>0. Types /\ Owned /\ Timed /\ Owed BY DEF Inv
<1>1. /\ calls = <<>> /\ conn[c].by = Idle
      /\ conn' = Closed(conn, c) /\ idle' = Without(idle, c)
      /\ UNCHANGED <<calls, result, told, asks, qtype, handle, q, pending, active, cache>>
  BY DEF IdleEvent, caller
<1>2. /\ conn' \in [Conns -> Connections]
      /\ conn'[c] = NoConn /\ \A d \in Conns \ {c} : conn'[d] = conn[d]
  <2>1. NoConn \in Connections BY DEF NoConn, NewConn, Connections
  <2> QED BY <1>0, <1>1, <2>1 DEF Closed, Types
<1>3. NoConn.by = None /\ NoConn.asked = <<>> /\ NoConn.in = <<>> BY DEF NoConn, NewConn
<1>4. \A p \in Owners : q[p].conn # c BY <1>0, <1>1, Constants DEF Owned
<1>5. /\ idle' \in Seq(Conns) /\ Len(idle') <= Len(idle)
      /\ ToSet(idle') = ToSet(idle) \ {c} /\ IsInjective(idle')
  BY <1>0, <1>1, WithoutProperties DEF Types, Owned
<1>6. Owned'
  <2>1. ToSet(idle') = {d \in Conns : conn'[d].by = Idle}
    BY <1>0, <1>2, <1>3, <1>5, Constants DEF Owned
  <2>2. \A d \in Conns, p \in Owners : conn'[d].by = p <=> q'[p].conn = d
    BY <1>0, <1>1, <1>2, <1>3, <1>4, Constants DEF Owned
  <2>3. Len(idle') <= MaxIdle
    BY <1>0, <1>5, Constants, LenProperties DEF Owned, Types
  <2> QED BY <1>5, <2>1, <2>2, <2>3 DEF Owned
<1>7. Timed'
  <2>1. \A d \in Conns : conn'[d].by = Idle => conn'[d].rt
    BY <1>0, <1>2, <1>3, Constants DEF Timed
  <2>2. ASSUME NEW p \in Owners, q'[p].conn # None
        PROVE  conn'[q'[p].conn].wt \/ conn'[q'[p].conn].rt
    <3>1. q'[p] = q[p] /\ q[p].conn \in Conns /\ q[p].conn # c
      BY <1>0, <1>1, <1>4, <2>2 DEF Types, Queries
    <3>2. ~Busy(p) BY <1>1, Settled
    <3> QED BY <1>0, <1>2, <3>1, <3>2, <2>2 DEF Timed, Busy
  <2> QED BY <2>1, <2>2 DEF Timed
<1>8. Owed'
  <2>1. Len(<<>>) = 0 /\ DOMAIN <<>> = {} BY EmptySeq
  <2> QED BY <1>0, <1>1, <1>2, <1>3, <2>1, Constants DEF Owed, Final, Tag
<1>9. cache' \in [{1, 2} -> Statuses \cup {"none"}] BY <1>0, <1>1 DEF Types
<1> QED BY <1>1, <1>2, <1>5, <1>6, <1>7, <1>8, <1>9, OutsideStep

\* A server that owes one answer.
LEMMA OneOwed ==
  ASSUME NEW a \in Seq(Tags), a # <<>>, Len(a) <= 1
  PROVE  /\ Len(a) = 1 /\ 1 \in DOMAIN a /\ a[1] \in Tags
         /\ Tail(a) = <<>>
<1>1. Len(a) \in Nat /\ DOMAIN a = 1 .. Len(a) BY LenProperties
<1>2. Len(a) # 0 BY EmptySeq
<1>3. Len(a) = 1 /\ 1 \in DOMAIN a BY <1>1, <1>2
<1>4. a[1] \in Tags BY <1>3, ElementOfSeq
<1>5. Tail(a) \in Seq(Tags) /\ Len(Tail(a)) = 0 BY <1>3, HeadTailProperties
<1>6. Tail(a) = <<>> BY <1>5, EmptySeq
<1> QED BY <1>3, <1>4, <1>6

LEMMA ServerSendsStep ==
  ASSUME Inv, NEW c \in Conns, ServerSends(c)
  PROVE  Inv'
<1>0. Types /\ Owned /\ Timed /\ Owed BY DEF Inv
<1>1. /\ calls = <<>> /\ conn[c].asked # <<>>
      /\ UNCHANGED <<calls, result, told, asks, qtype, handle, q, pending, active, idle, cache>>
  BY DEF ServerSends, caller
<1>2. PICK k \in {"part", "keep", "close", "toEnd"} :
        /\ conn[c].in # <<>> => k # "part" /\ Last(conn[c].in).kind = "part"
        /\ conn' = [conn EXCEPT ![c].in = Append(@, [tag |-> conn[c].asked[1], kind |-> k]),
                               ![c].ev = TRUE,
                               ![c].asked = IF k = "part" THEN @ ELSE Tail(@)]
  BY DEF ServerSends
<1> DEFINE a == conn[c].asked
           piece == [tag |-> a[1], kind |-> k]
           i == Append(conn[c].in, piece)
           b == IF k = "part" THEN a ELSE Tail(a)
           n == [conn[c] EXCEPT !.in = i, !.ev = TRUE, !.asked = b]
<1>3. conn[c] \in Connections /\ a \in Seq(Tags) /\ conn[c].in \in Seq(Pieces)
  BY <1>0 DEF Types, Connections
<1>4. Len(a) = 1 /\ a[1] \in Tags /\ 1 \in DOMAIN a /\ Tail(a) = <<>>
  <2>1. Len(a) <= 1 BY <1>0 DEF Owed
  <2> QED BY <1>1, <1>3, <2>1, OneOwed
<1>5. piece \in Pieces /\ piece.tag = a[1] /\ piece.kind = k BY <1>4 DEF Pieces
<1>6. conn' = [conn EXCEPT ![c] = n] BY <1>2, Zenon
<1> HIDE DEF piece
<1>7. /\ i \in Seq(Pieces) /\ Len(i) = Len(conn[c].in) + 1
      /\ i # <<>> /\ Last(i) = piece
      /\ \A j \in DOMAIN i : i[j].tag = a[1] \/ (j \in DOMAIN conn[c].in /\ i[j] = conn[c].in[j])
  <2>1. /\ i \in Seq(Pieces) /\ Len(i) = Len(conn[c].in) + 1
        /\ \A j \in 1 .. Len(conn[c].in) : i[j] = conn[c].in[j]
        /\ i[Len(conn[c].in) + 1] = piece
    BY <1>3, <1>5, AppendProperties
  <2>2. Len(conn[c].in) \in Nat /\ DOMAIN conn[c].in = 1 .. Len(conn[c].in) BY <1>3, LenProperties
  <2> HIDE DEF i
  <2>3. DOMAIN i = 1 .. Len(conn[c].in) + 1 BY <2>1, LenProperties
  <2>4. Last(i) = piece /\ i # <<>> BY <2>1, <2>2, EmptySeq DEF Last
  <2>5. ASSUME NEW j \in DOMAIN i
        PROVE  i[j].tag = a[1] \/ (j \in DOMAIN conn[c].in /\ i[j] = conn[c].in[j])
    <3>1. j \in 1 .. Len(conn[c].in) \/ j = Len(conn[c].in) + 1 BY <2>2, <2>3
    <3> QED BY <1>5, <2>1, <2>2, <3>1
  <2> QED BY <2>1, <2>4, <2>5
<1>8. /\ b \in Seq(Tags) /\ Len(b) <= 1 /\ (k # "part" => b = <<>>)
      /\ \A j \in DOMAIN b : j \in DOMAIN a /\ b[j] = a[j]
  <2>1. <<>> \in Seq(Tags) /\ Len(<<>>) = 0 /\ DOMAIN <<>> = {} BY EmptySeq
  <2>2. k = "part" => b = a OBVIOUS
  <2>3. k # "part" => b = <<>> BY <1>4
  <2> HIDE DEF a, b
  <2>4. CASE k = "part"
    <3>1. b = a BY <2>2, <2>4
    <3>2. Len(b) = 1 /\ b \in Seq(Tags) BY <1>3, <1>4, <3>1, Zenon
    <3>3. \A j \in DOMAIN b : j \in DOMAIN a /\ b[j] = a[j] BY <3>1
    <3>4. Len(b) <= 1 BY <3>2
    <3> QED BY <2>4, <3>2, <3>3, <3>4
  <2>5. CASE k # "part" BY <2>1, <2>3, <2>5
  <2> QED BY <2>4, <2>5
<1> HIDE DEF i, b
<1>9. n \in Connections BY <1>3, <1>7, <1>8 DEF Connections
<1>10. n.by = conn[c].by /\ n.in = i /\ n.asked = b /\ n.rt = conn[c].rt /\ n.wt = conn[c].wt
  BY <1>3 DEF Connections
<1> HIDE DEF n
<1>11. /\ conn' \in [Conns -> Connections] /\ conn'[c] = n
       /\ \A d \in Conns \ {c} : conn'[d] = conn[d]
  BY <1>0, <1>6, <1>9 DEF Types
<1>12. \A d \in Conns : /\ conn'[d].by = conn[d].by
                        /\ conn'[d].rt = conn[d].rt /\ conn'[d].wt = conn[d].wt
  BY <1>10, <1>11
<1>13. Owned' BY <1>0, <1>1, <1>12 DEF Owned
<1>14. Timed'
  <2>1. \A p \in Owners : q[p].conn \in Conns \cup {None} BY <1>0 DEF Types, Queries
  <2> QED BY <1>0, <1>1, <1>12, <2>1 DEF Timed, Next1
<1>15. Owed'
  <2>1. conn[c].by \in Owners
    BY <1>0, <1>1 DEF Owed
  <2>2. Final(c)' => conn'[c].asked = <<>>
    BY <1>5, <1>7, <1>8, <1>10, <1>11 DEF Final
  <2>3. ASSUME NEW o \in Owners, conn[c].by = o
        PROVE  /\ q[o].at = "read" /\ Tag(o)' = Tag(o)
               /\ \A j \in DOMAIN b : b[j] = Tag(o)
               /\ \A j \in DOMAIN i : i[j].tag = Tag(o)
    <3>1. q[o].at = "read" /\ a[1] = Tag(o) BY <1>0, <1>1, <1>4, <2>3 DEF Owed
    <3>2. \A j \in DOMAIN b : b[j] = Tag(o) BY <1>0, <1>8, <2>3 DEF Owed
    <3>3. \A j \in DOMAIN i : i[j].tag = Tag(o) BY <1>0, <1>7, <2>3, <3>1 DEF Owed
    <3> QED BY <1>1, <3>1, <3>2, <3>3 DEF Tag
  <2>4. ASSUME NEW d \in Conns \ {c}
        PROVE  /\ Len(conn'[d].asked) <= 1
               /\ Final(d)' => conn'[d].asked = <<>>
               /\ conn'[d].by \notin Owners => conn'[d].asked = <<>> /\ conn'[d].in = <<>>
               /\ \A o \in Owners :
                    conn'[d].by = o =>
                      /\ q'[o].at # "read" => conn'[d].asked = <<>> /\ conn'[d].in = <<>>
                      /\ \A j \in DOMAIN conn'[d].asked : conn'[d].asked[j] = Tag(o)'
                      /\ \A j \in DOMAIN conn'[d].in : conn'[d].in[j].tag = Tag(o)'
    BY <1>0, <1>1, <1>11, <2>4 DEF Owed, Final, Tag
  <2>5. /\ Len(conn'[c].asked) <= 1
        /\ Final(c)' => conn'[c].asked = <<>>
        /\ conn'[c].by \in Owners
        /\ \A o \in Owners :
             conn'[c].by = o =>
               /\ q'[o].at = "read"
               /\ \A j \in DOMAIN conn'[c].asked : conn'[c].asked[j] = Tag(o)'
               /\ \A j \in DOMAIN conn'[c].in : conn'[c].in[j].tag = Tag(o)'
    BY <1>1, <1>8, <1>10, <1>11, <2>1, <2>2, <2>3
  <2> QED BY <2>4, <2>5 DEF Owed
<1>16. cache' \in [{1, 2} -> Statuses \cup {"none"}] /\ idle' \in Seq(Conns)
  BY <1>0, <1>1 DEF Types
<1> QED BY <1>1, <1>11, <1>13, <1>14, <1>15, <1>16, OutsideStep

LEMMA ServerClosesStep ==
  ASSUME Inv, NEW c \in Conns, ServerCloses(c)
  PROVE  Inv'
<1>0. Types /\ Owned /\ Timed /\ Owed BY DEF Inv
<1>1. /\ calls = <<>> /\ conn' = [conn EXCEPT ![c].fin = TRUE, ![c].ev = TRUE]
      /\ UNCHANGED <<calls, result, told, asks, qtype, handle, q, pending, active, idle, cache>>
  BY DEF ServerCloses, caller
<1> DEFINE n == [conn[c] EXCEPT !.fin = TRUE, !.ev = TRUE]
<1>2. conn' = [conn EXCEPT ![c] = n] BY <1>1, Zenon
<1>3. conn[c] \in Connections BY <1>0 DEF Types
<1>4. n \in Connections BY <1>3 DEF Connections
<1>5. n.by = conn[c].by /\ n.in = conn[c].in /\ n.asked = conn[c].asked
      /\ n.rt = conn[c].rt /\ n.wt = conn[c].wt
  BY <1>3 DEF Connections
<1> HIDE DEF n
<1>6. /\ conn' \in [Conns -> Connections] /\ conn'[c] = n
      /\ \A d \in Conns \ {c} : conn'[d] = conn[d]
  BY <1>0, <1>2, <1>4 DEF Types
<1>7. \A d \in Conns : /\ conn'[d].by = conn[d].by /\ conn'[d].in = conn[d].in
                       /\ conn'[d].asked = conn[d].asked
                       /\ conn'[d].rt = conn[d].rt /\ conn'[d].wt = conn[d].wt
  BY <1>5, <1>6
<1>a. UNCHANGED <<idle, q, asks, qtype>> BY <1>1
<1>8. Owned' BY <1>0, <1>a, <1>7 DEF Owned
<1>9. Timed'
  <2>1. \A p \in Owners : q[p].conn \in Conns \cup {None} BY <1>0 DEF Types, Queries
  <2>0. calls = <<>> => \A p \in Owners : ~Next1("write", p) /\ ~Next1("finish", p)
    BY Zenon DEF Next1
  <2>2. /\ \A d \in Conns : conn[d].by = Idle => conn[d].rt
        /\ \A p \in Owners : q[p].conn # None => conn[q[p].conn].wt \/ conn[q[p].conn].rt
    BY <1>0, <1>1, <2>0, Zenon DEF Timed
  <2>3. \A d \in Conns : conn'[d].by = Idle => conn'[d].rt BY <1>7, <2>2, Zenon
  <2>4. ASSUME NEW p \in Owners, q'[p].conn # None
        PROVE  conn'[q'[p].conn].wt \/ conn'[q'[p].conn].rt
    <3>1. q'[p] = q[p] /\ q[p].conn \in Conns BY <1>a, <2>1, <2>4
    <3> QED BY <1>7, <2>2, <2>4, <3>1, Zenon
  <2> QED BY <1>1, <2>3, <2>4 DEF Timed, Next1
<1>10. Owed' BY <1>0, <1>a, <1>7 DEF Owed, Final, Tag
<1>11. cache' \in [{1, 2} -> Statuses \cup {"none"}] /\ idle' \in Seq(Conns)
  BY <1>0, <1>1 DEF Types
<1> QED BY <1>1, <1>6, <1>8, <1>9, <1>10, <1>11, OutsideStep

LEMMA ExpireStep ==
  ASSUME Inv, NEW t \in {1, 2}, Expire(t)
  PROVE  Inv'
<1>0. Types /\ Owned /\ Timed /\ Owed BY DEF Inv
<1>1. /\ calls = <<>> /\ cache' = [cache EXCEPT ![t] = "none"]
      /\ UNCHANGED <<calls, result, told, asks, qtype, handle, q, pending, active, idle, conn>>
  BY DEF Expire, caller
<1>2. Owned' BY <1>0, <1>1 DEF Owned
<1>3. Timed' BY <1>0, <1>1 DEF Timed, Next1
<1>4. Owed' BY <1>0, <1>1 DEF Owed, Final, Tag
<1>5. /\ cache' \in [{1, 2} -> Statuses \cup {"none"}]
      /\ idle' \in Seq(Conns) /\ conn' \in [Conns -> Connections]
  BY <1>0, <1>1 DEF Types
<1> QED BY <1>1, <1>2, <1>3, <1>4, <1>5, OutsideStep

LEMMA StutterStep ==
  ASSUME Inv, UNCHANGED vars
  PROVE  Inv'
<1>0. Types /\ Stack /\ Callers /\ Requests /\ Queue /\ Counted /\ Owned /\ Timed /\ Owed BY DEF Inv
<1>1. UNCHANGED <<calls, result, told, asks, qtype, handle, q, pending, active, idle, conn, cache>>
  BY DEF vars, caller
<1>2. Types' BY <1>0, <1>1 DEF Types
<1>3. Stack' BY <1>0, <1>1 DEF Stack, Next1, Replying
<1>4. Callers' BY <1>0, <1>1 DEF Callers, Next1, Replying
<1>5. Requests' BY <1>0, <1>1 DEF Requests, Next1, Retrying, Running
<1>6. Queue' BY <1>0, <1>1 DEF Queue
<1>7. Counted' BY <1>0, <1>1, CountKept DEF Running
<1>8. Owned' BY <1>0, <1>1 DEF Owned
<1>9. Timed' BY <1>0, <1>1 DEF Timed, Next1
<1>10. Owed' BY <1>0, <1>1 DEF Owed, Final, Tag
<1> QED BY <1>2, <1>3, <1>4, <1>5, <1>6, <1>7, <1>8, <1>9, <1>10 DEF Inv

LEMMA NextInv == Inv /\ [Next]_vars => Inv'
<1> SUFFICES ASSUME Inv, [Next]_vars PROVE Inv' OBVIOUS
<1>1. CASE UNCHANGED vars BY <1>1, StutterStep
<1>2. ASSUME NEW o \in Owners,
             \/ Ask(o) \/ Answer(o) \/ Resolve(o) \/ Start(o) \/ Write(o) \/ FinishCall(o)
             \/ Cancel(o) \/ Opened(o) \/ WriteEvent(o) \/ Timeout(o) \/ ReadEvent(o)
      PROVE  Inv'
  BY <1>2, AskStep, AnswerStep, ResolveStep, StartStep, WriteStep, FinishCallStep,
     CancelStep, OpenedStep, WriteEventStep, TimeoutStep, ReadEventStep
<1>3. CASE RunPending BY <1>3, RunPendingStep
<1>4. CASE SessionEnds BY <1>4, SessionEndsStep
<1>5. ASSUME NEW c \in Conns, IdleEvent(c) \/ ServerSends(c) \/ ServerCloses(c)
      PROVE  Inv'
  BY <1>5, IdleEventStep, ServerSendsStep, ServerClosesStep
<1>6. ASSUME NEW t \in {1, 2}, Expire(t) PROVE Inv' BY <1>6, ExpireStep
<1> QED BY <1>1, <1>2, <1>3, <1>4, <1>5, <1>6 DEF Next

LEMMA Invariance == Spec => []Inv
BY InitInv, NextInv, PTL DEF Spec

----------------------------------------------------------------------------
(* What follows.                                                           *)

\* Between events no request waits while there is a free place; the count of
\* active requests is exact and within its limit, and a caller holds a pointer
\* to a request exactly while there is one (finish, run_pending, doh_cancel).
THEOREM NoRequestStranded == Spec => []NoStrandedQuery
<1>1. Inv => NoStrandedQuery
  <2> SUFFICES ASSUME Inv PROVE NoStrandedQuery OBVIOUS
  <2>0. Callers /\ Queue /\ Counted BY DEF Inv
  <2>1. active = Cardinality({o \in Owners : Running(o)}) BY <2>0 DEF Counted, ActiveSet
  <2>2. \A o \in Owners : handle[o] <=> q[o].at # "none" BY <2>0 DEF Callers
  <2>3. ASSUME calls = <<>> PROVE \A o \in Owners : result[o] = "waiting" <=> handle[o]
    <3>1. \A o \in Owners : ~Replying(o) BY <2>3 DEF Replying, Next1
    <3> QED BY <2>0, <3>1 DEF Callers
  <2>4. ASSUME calls = <<>> PROVE pending = <<>> \/ active >= MaxActive
    BY <2>0, <2>4, EmptySeq DEF Queue
  <2> QED BY <2>0, <2>1, <2>2, <2>3, <2>4 DEF NoStrandedQuery, Accounts, Queue
<1> QED BY <1>1, Invariance, PTL

\* Every connection is open for one running request or kept alive, with a
\* timer between events, and the pool keeps its size (save_keepalive,
\* get_keepalive, close); every variable has its type.
THEOREM EveryConnectionOwned == Spec => []ConnectionsOwned
<1>1. Inv => ConnectionsOwned
  <2> SUFFICES ASSUME Inv PROVE ConnectionsOwned OBVIOUS
  <2>0. Types /\ Owned /\ Timed BY DEF Inv
  <2>1. TypeOK
    <3>1. \A o \in Owners : q[o].at \in {"none", "new", "queued", "connect", "write", "read"}
      BY <2>0 DEF Types, Queries
    <3> QED BY <2>0, <3>1 DEF Types, TypeOK, Frames
  <2>2. ASSUME calls = <<>>, NEW c \in Conns, conn[c].by # None
        PROVE  conn[c].rt \/ conn[c].wt
    <3>1. conn[c].by \in Owners \cup {Idle} BY <2>0, <2>2 DEF Types, Connections
    <3>2. CASE conn[c].by = Idle BY <2>0, <3>2 DEF Timed
    <3>3. CASE conn[c].by \in Owners
      <4> DEFINE o == conn[c].by
      <4>1. q[o].conn = c BY <2>0, <3>3 DEF Owned
      <4>2. ~Next1("write", o) /\ ~Next1("finish", o) BY <2>2 DEF Next1
      <4>3. q[o].conn # None BY <4>1, Constants
      <4> QED BY <2>0, <3>3, <4>1, <4>2, <4>3 DEF Timed
    <3> QED BY <3>1, <3>2, <3>3
  <2> QED BY <2>0, <2>1, <2>2 DEF ConnectionsOwned, Owned
<1> QED BY <1>1, Invariance, PTL

\* What the server owes on a connection and what has arrived on it belongs to
\* the request that uses it, and no request is sent twice (write_handler,
\* retry, reusable).
THEOREM OnlyOwnAnswers == Spec => []OwnAnswers
<1>1. Inv => OwnAnswers
  <2> SUFFICES ASSUME Inv PROVE OwnAnswers OBVIOUS
  <2>0. Requests /\ Owed BY DEF Inv
  <2>1. \A o \in Owners : q[o].tries <= 1 BY <2>0 DEF Requests
  <2>2. ASSUME NEW c \in Conns,
               NEW tag \in ToSet(conn[c].asked) \cup {x.tag : x \in ToSet(conn[c].in)}
        PROVE  conn[c].by \in Owners /\ tag = Tag(conn[c].by)
    <3>1. \/ \E i \in DOMAIN conn[c].asked : tag = conn[c].asked[i]
          \/ \E i \in DOMAIN conn[c].in : tag = conn[c].in[i].tag
      BY DEF ToSet
    <3>2. conn[c].by \in Owners
      BY <2>0, <3>1, EmptySeq DEF Owed
    <3> QED BY <2>0, <3>1, <3>2 DEF Owed
  <2> QED BY <2>1, <2>2 DEF OwnAnswers
<1> QED BY <1>1, Invariance, PTL

----------------------------------------------------------------------------
(* DohClient implements DohLookup.                                         *)

LEMMA LookupInit == Init => Lookup!Init
BY DEF Init, Lookup!Init

LEMMA LookupNext == Inv /\ [Next]_vars => [Lookup!Next]_(Lookup!vars)
<1> SUFFICES ASSUME Inv, [Next]_vars PROVE Lookup!Next \/ UNCHANGED <<result, told>>
  BY DEF Lookup!vars
<1>0. Types /\ Stack /\ Callers /\ Requests BY DEF Inv
\* A caller that is told something was waiting for it.
<1>1. ASSUME NEW o \in Owners, NEW r \in {"ok", "failed"}, Told(o, r), result[o] = "waiting"
      PROVE  Lookup!Next
  BY <1>1 DEF Told, Lookup!Next, Lookup!Answer
<1>2. ASSUME NEW o \in Owners, Ask(o) PROVE Lookup!Next
  BY <1>2 DEF Ask, Lookup!Next, Lookup!Ask
<1>3. ASSUME NEW o \in Owners, Answer(o) PROVE Lookup!Next \/ UNCHANGED <<result, told>>
  <2>1. result[o] = "waiting"
    BY <1>0, <1>3 DEF Answer, Callers, Replying, Next1
  <2> QED BY <1>1, <1>3, <2>1 DEF Answer, Answered
<1>4. ASSUME NEW o \in Owners, Resolve(o) PROVE Lookup!Next \/ UNCHANGED <<result, told>>
  <2>1. result[o] = "waiting"
    BY <1>0, <1>4 DEF Resolve, Callers, Replying, Next1
  <2>2. Told(o, "failed") \/ UNCHANGED <<result, told>>
    BY <1>4 DEF Resolve, Refuse, caller
  <2> QED BY <1>1, <2>1, <2>2
<1>5. ASSUME NEW o \in Owners, Start(o) PROVE Lookup!Next \/ UNCHANGED <<result, told>>
  <2>1. calls # <<>> /\ calls[1].op = "start" /\ calls[1].o = o BY <1>5 DEF Start
  <2>2. handle[o] BY <2>1, Starting
  <2>3. result[o] = "waiting" BY <1>0, <2>2 DEF Callers
  <2>4. Told(o, "failed") \/ UNCHANGED <<result, told>>
    BY <1>5 DEF Start, Reuse, ConnectFails, Connect, caller
  <2> QED BY <1>1, <2>3, <2>4
<1>6. ASSUME NEW o \in Owners, Cancel(o) PROVE Lookup!Next \/ UNCHANGED <<result, told>>
  <2>1. CASE handle[o]
    <3>1. result[o] = "waiting" BY <1>0, <2>1 DEF Callers
    <3>2. result' = [result EXCEPT ![o] = "gone"] /\ told' = told BY <1>6, <2>1 DEF Cancel
    <3> QED BY <3>1, <3>2 DEF Lookup!Next, Lookup!Cancel
  <2>2. CASE ~handle[o]
    <3>1. result' = [result EXCEPT ![o] = result[o]] /\ told' = told BY <1>6, <2>2 DEF Cancel
    <3> QED BY <1>0, <3>1 DEF Types
  <2> QED BY <2>1, <2>2
<1>7. ASSUME NEW o \in Owners,
             \/ Write(o) \/ FinishCall(o) \/ Opened(o) \/ WriteEvent(o) \/ Timeout(o)
             \/ ReadEvent(o)
      PROVE  UNCHANGED <<result, told>>
  BY <1>7 DEF Write, FinishCall, Opened, WriteEvent, Timeout, ReadEvent, Complete, caller
<1>8. ASSUME RunPending \/ SessionEnds PROVE UNCHANGED <<result, told>>
  BY <1>8 DEF RunPending, SessionEnds, caller
<1>9. ASSUME NEW c \in Conns, IdleEvent(c) \/ ServerSends(c) \/ ServerCloses(c)
      PROVE  UNCHANGED <<result, told>>
  BY <1>9 DEF IdleEvent, ServerSends, ServerCloses, caller
<1>10. ASSUME NEW t \in {1, 2}, Expire(t) PROVE UNCHANGED <<result, told>>
  BY <1>10 DEF Expire, caller
<1>11. CASE UNCHANGED vars BY <1>11 DEF vars, caller
<1> QED BY <1>2, <1>3, <1>4, <1>5, <1>6, <1>7, <1>8, <1>9, <1>10, <1>11 DEF Next

\* Step by step the client keeps the promise of DohLookup: an answer is given
\* once, to a caller that waits, and never after a cancellation.  That every
\* lookup ends is left to the model checker.
THEOREM AnswersOnce == Spec => Lookup!Init /\ [][Lookup!Next]_(Lookup!vars)
BY LookupInit, LookupNext, Invariance, PTL DEF Spec
=============================================================================
