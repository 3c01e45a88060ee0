# Verification of ngx_stream_trojan_module

TLA+ models of the nginx stream module in this repository, the TLC runs that
check them on small instances, and proofs checked by TLAPS. The source is the
reference; line numbers are those of `ngx_stream_trojan_module.c` unless
another file is named. `PROJECT.json` maps every definition to its lines.

## 1. The system

nginx runs one worker with one event loop. A handler runs to completion, so
there are no data races. What makes the module hard is the order in which
handlers run, the short reads and writes they meet, the events they must
leave behind for work they did not finish (the TCP connections are
edge-triggered: a readiness that was not used up is not reported again),
callbacks that run inside a call, and objects freed while something still refers
to them.

### Inventory

| Component | State | Operations | Hard behaviour | What makes it correct | Module |
|---|---|---|---|---|---|
| Session (1242-2575, 3880-5105, 13266) | `ctx->state`, `pending_to_upstream`, timers, `finalized` | read, route, resolve, connect, handshake, reply, finalize | any order of client bytes, answers, connection results, timers | one truthful reply, no byte lost at a change of state, nothing after the end | `Session` |
| Local SOCKS5 / HTTP inbounds, fallback, SOCKS5 outbound | request buffer, reply buffer, handshake step | parse in pieces, reply, hand over | the reply is flushed before the tunnel; events come while it is half sent | as above | `Session`, `UdpRelay` |
| TCP relay (6611-6950) | two buffers, eof flags | copy both ways, half-close | loop and byte limits, eof in either order | everything sent before the end | `Relay` |
| WebSocket (2591-3747) | input frame, `ws_out`, app frame in progress | unframe, frame, control | control frames between the pieces of an application frame | frames whole, one CLOSE | `Relay` |
| Mux, client to upstream (6955-10302) | frame in progress, token bucket, per-stream `client_buffer` and `pending_frames`, process queue | frame reading, feeding, queue pass, half-close | blocked reads, three paths for a payload, passes with a budget, streams freed in the middle | order, no loss, token conservation, no lost wake-up | `MuxInbound` |
| Mux, upstream to client | `upstream_buffer`, frame header and position, flush and update queues, window counters | upstream read, flush, UPD, close | frames cut at any byte, wrapping counters, byte limits | frames whole on the wire, FIN last, window respected, nothing stalls | `MuxOutbound` |
| Mux stream table (8378-8532) | hash table, tombstones, queue | insert, find, remove, rebuild | tombstone reuse and rebuild | lookups agree with the queue, probes end | `MuxTable` |
| UDP relay (10990-12127, 12464-13263) | frames read, frame held, batch received, packet to the client, association | associate, send, receive, resolve | lookups between receipt and sending, full sockets, change of association | every frame dealt with once and in order, replies whole, nothing waits without an event | `UdpRelay` |
| DoH client (`_doh.c`) | active and pending queries, idle connections, cache | resolve, start, write, read, finish, cancel | synchronous callbacks, dead keep-alive connections, nested lookups | each lookup answered once; no query stranded | `DohClient`, `AnswerCache` |
| Routing (5326-6410) and its caches | domain index, route cache, last decision | match, choose, store | three shortcuts around the ordered search | a shortcut decides as the search does | `Routing` |
| DNS rules (`_dns_rules.c`), geosite (`_geosite.c`) | indexes, keyword trie, host caches | match | fail and output links, index beside ordered scan, shared caches | as the list read in order | `DnsRules`, `Geosite` |
| Codecs, geoip, configuration | none after start | parse, pack, match | lengths | round trip | not modelled |

Components interact by calls inside one handler, by posted events
(`ngx_post_event` on a read or write event), by callbacks (resolver, DoH,
timers) and by the shared `ctx`. A session becomes a relay, a mux session or a
UDP relay; it asks routing for an outbound and, when that is direct, the DNS
rules for a resolver. In a mux session many streams share one
client connection: both halves meet in `process_mux` (7564), which runs
flush, queue pass, read loop, queue pass, flush.

## 2. Modules

| Module | Models |
|---|---|
| `Session`, `MCSession` | a session from its first byte to its end |
| `SessionProofs` | theorems about `Session` |
| `Relay`, `MCRelay` | the TCP relay of one session, its client plain or on a WebSocket |
| `RelayProofs` | theorems about `Relay` |
| `MuxInbound`, `MCMuxInbound` | mux, client to upstream: smux and Mux.Cool |
| `MuxInboundProofs` | theorems about `MuxInbound`: types, tokens, wake-ups, and the streams |
| `MuxOutbound`, `MCMuxOutbound` | mux, upstream to client: smux v1 and v2 |
| `MuxOutboundProofs` | theorems about `MuxOutbound` |
| `MuxTable` | the stream table |
| `StreamDirectory` | what the table promises; `MuxTable` refines it |
| `UdpRelay`, `MCUdpRelay` | the datagrams of one session |
| `UdpRelayProofs` | theorems about `UdpRelay` |
| `DohClient`, `MCDohClient` | the DoH client of one server, and the sessions that use it |
| `DohClientProofs` | theorems about `DohClient` |
| `DohLookup` | what it promises a session; `DohClient` refines it |
| `AnswerCache` | one set of the DoH cache, or of the UDP domain cache |
| `MCTables` | `MuxTable` and `AnswerCache` for one run |
| `Routing` | the choice of an outbound |
| `TableProofs` | theorems about what is looked up: `MuxTable`, `AnswerCache`, `Routing`, `Geosite`, `DnsRules` |
| `Geosite` | one geosite entry: indexes, trie, cache |
| `DnsRules` | the choice of a DNS group; extends `Geosite` |
| `MCMatching` | `Routing` and `DnsRules` for one run |
| `Queues` | nginx's queues of elements that are queued at most once |
| `QueueProofs` | lemmas about them, and induction over finite sets |

Where parts are modelled apart, each keeps of the other only what it depends
on: `MuxInbound` knows whether a stream owes its client a FIN and
whether the flush stopped; `MuxOutbound` knows how many bytes were passed to
the upstream (they drive the UPD reports) and which stream's pass ended on
`NGX_BUSY`; `Session` knows of routing its three outcomes (an outbound, blocked,
none) and ends where a relay, mux or UDP phase begins; `DohClient` has sessions
that ask, are answered and end.

**Handlers.** In every module of a component `pc` (in `DohClient` the stack `calls`) is
`"idle"` or `"wait"` between handlers and otherwise names the point the running handler has
reached. Each function, or part of one between two calls of the kernel, is an action. No event
is delivered before the handler has ended.

**Faults.** Some definitions have a second version whose comment says
"Fault": the mistake a maintainer could make at that place (a guard dropped,
an off-by-one, a queue not updated). No specification uses them. Put in the
place of the right definition, each makes the property listed for it in
`PROJECT.json` fail, so the property does depend on that code.

### Session

`conf` is the configuration a session meets and what its client will say: kind
of inbound, outbound, lookup, DNS rule, fallback, and a script (an opening, a
request, data) that may end anywhere with `"fin"`. Each piece may arrive in its own
event. `state` is `ctx->state`; the actions are `ProcessPrefix` (2331),
`ProcessRequest` (2462), `ProcessSocks5In` (1525), `ProcessHttpIn` (1812),
`StartTcp` (4241), `Resolve`, `QueryDone` (4389-4623), `Connect` (4646),
`Socks5Connect` (4746), `TestConnect` (6667), `ProcessSocks5` (4869), `Success`,
`Failure` (2198-2271), `Flush` (2052), `InitProxy`, `ProcessProxy` (6703-6829) and
the events `ReadClient` (1296), `PeerEvent` (6611), `Timeout`. While a lookup or a connect
runs, `ReadClient` may learn from the event itself that the client has gone (1317; kqueue),
and ends the session. A reply is two parts, so
that it can be cut; `got` and `upgot` record what both ends received.

### Relay

`pc` names the flush at the start of
`read_client` (`Gate`, `Relays`, `Closed`), then the parts of `process_proxy`:
`SendPrefix`; client to upstream (`SendUp`, `ReadEnough`, `StartRecv`);
`client_recv` taking frames apart (`FillRaw`, `TakeHalf`, `TakeHead`,
`TakePayload`, `TakeControl`, `Filled`, `RecvFails`, and `TakePlain` for a
plain client); upstream to client (`SendControl`, `SendApp`, `SendTail`,
`SendPlain`, `ReadUpstream`, `UpstreamEnough`); `Finish`.
`ready`, `eof` and `wr` are nginx's flags of both connections, `ev`, `fin` and
`room` the state of the sockets behind them, which moves between the steps of a
handler too. `inq` holds what has arrived from the client as frame pieces:
half a header, the other half, payload bytes, control bytes. `raw`, `fr`, `hdr`,
`ctl` and `app` are the WebSocket state (`ws_raw`, the frame being read, a
header begun, `ws_out`, the application frame being sent); `wire` is the
client's frame parser and `up` what the upstream has received.

### MuxInbound

Events: `PostedRead`, `ClientReady` (7564), `Opened`, `ConnectFailed`,
`PeerEvent`, `PeerTimeout` (9812-9932), `ResolveFailed` (9663-9753). Flush, reduced
to the FINs owed: `FlushFin`, `FlushEnd`. Queue pass (8593-8620) and `process_stream`
(10056-10139): `ProcessHead`, `Send`, `SendAgain`, `SendBusy`, `SendError`,
`SendDone`, `Drain`, `DrainEnd`, `ProcessTail`, `ProcessEnd`. Read loops (7615-7740,
7842-7991): `ReadHeader` with `Prepare` (8771-8822), `Recheck`, `ReadDirect`,
`ReadDeferred`, `ReadPlain`, `FeedRequest`, `FeedData`, `ReadSyn`, `ReadFin`,
`HandleNew`, `HandleStored`, `ReadAgain`, `ReadYield`. `SessionEnd` (10253-10302).

| Variable | Code |
|---|---|
| `st` | `stream->state`; `"opening"` stands for resolving, connecting and SOCKS5 |
| `buf` | `client_buffer`: data, offset of `pos`, capacity |
| `pend` | `pending_frames`, as one sequence; chunk boundaries are chosen when drained |
| `tokens` | `ctx->mux_recv_tokens` |
| `fr` | the `ctx->mux_payload_*` fields: target, direct, checked, blocked, deferred, bytes read and fed |
| `procQ`, `posted` | `ctx->mux_process_queue`; the client read event is posted |
| `cw` | FALSE: the last flush stopped and the client write event is armed or posted |
| `sent`, `up` | history: bytes the client sent and the upstream took |

A payload byte is its number within the stream, so reordering, loss and
duplication are visible. The request that opens a stream is `ReqLen` bytes,
whose parse and routing have every outcome (`StartOutcomes`).

### MuxOutbound

Upstream read (`ReadUpstream`, 10011-10053), the client flush (`SendUpd`,
`NextFrame`, `PackFrame`, `SendFrame`, `WindowClosed`, `FinishStream`, `FlushEnd`,
7221-7511 and 8035-8152), UPD received (`TakeUpd`), bytes passed upstream and reported
(`Deliver`, `Consume`, 9116-9183), close and free (`CloseStream`, `Free`).
`wire` is the client's frame parser: it records whether the bytes arriving
continue the frame it is in. Counters are taken modulo `Modulus`, and `Signed`
is the `int32_t` cast of the code.

### MuxTable and AnswerCache

`home` is the hash function of the table, chosen freely at the start. The table is a
function from slots to identifiers, `Empty` or `Tombstone`;
`Insert`, `Erase`, `Found` and `Rebuilt` are its probe loops. The refinement
maps the directory to the set of identifiers that a probe finds.

`AnswerCache` is one set of either cache: `Lookup` and `Store` pass the ways in
order, as the loops do, and meet expired entries only there. The clock wraps
(`Wrap`), `left` keeps the true time to live of every way beside it. `asked`
counts the requests on their way, so that two answers for one name can arrive.
`MaxLag` bounds how long an expired entry is passed by nobody; the real clock
has 64 bits of milliseconds.

### DohClient

`q[o]` is the request of owner `o`, `handle[o]` its caller's pointer, `conn` the
connections with the timers of both directions. `calls` is the stack of calls the running
handler has yet to make, which shows the nesting: `finish` calls the caller's handler,
which may call `doh_resolve` again before the queue is run. The server answers
requests in order, may close at any time and may stay silent. `ImplementsLookup`
maps a lookup to `DohLookup`: asked, then answered exactly once or cancelled, and
answered at last if the timers run.

### UdpRelay

Frames and replies are numbered. `done` records for each frame what became of it and the way
it really took: directly, or the server of the association it was given to, whichever its
target would have called for. `mem` is `udp_batch`'s payload memory and `pend` the packet that is being
sent to the client, which points into it. `assoc` is the SOCKS5 association;
`Resets` is `prepare_udp_outbound` (6198) dropping it when a frame goes to
another server; a frame given to an association it had not been
opened for would be recorded with that other server. The client's connection is edge-triggered, UDP sockets are
level-triggered.

### Routing, Geosite, DnsRules

`Routing` has three layers: `Search` (the index and the ordered scan, 6086-6160),
the shared cache, and `recent`, the last decision of the session. Hosts are
sequences of labels. `Geosite` has the list read from end to end (`Listed`, the
code's own fallback for names too long for the indexes) beside the indexes: `Nodes`,
`Fail`, `Step`, `Ending` and `Walk` are the trie, its fail links, a step, the
output links and the walk along a name; names are sequences of characters (`Letters`) here.
An empty name meets no entry (1556), whatever the list holds.
`DnsRules` adds groups of rules, their domain index and their cache.

## 3. Runs

| Run | Question | Bounds |
|---|---|---|
| `session` | one truthful reply; the client's bytes and no others in the tunnel; nothing after the end; attempts end | 2 addresses, 2 pieces of data, 2 of the upstream, every sensible configuration |
| `relay` | order, whole frames, half-close and end, no missing event | 2 frames (or writes) of the client, 2 bytes of the upstream, 1 byte of prefix, buffers of 2 or 3 |
| `inbound_smux` | safety of the client-to-upstream half, smux | 2 streams, 3 tokens, frames and buffers of 2 bytes, 7 bytes from the client |
| `inbound_cool` | the paths that differ in Mux.Cool: payload order, room, wake-ups | the same, 4 bytes from the client |
| `inbound_live` | closed streams end; a blocked read goes on; no FIN is left behind | SOCKS5 outbounds, 2 streams, 1 token, 2 bytes per stream |
| `outbound` | window, reports, FIN, no stall | one v2 stream (6 bytes) or two v1 streams (3 each), counters modulo 5, window 2 |
| `outbound_live` | what the upstream sent is passed on; closed streams are freed | one v2 stream, 3 bytes |
| `outbound_framing` | are frames whole with two streams? No (finding) | 2 v1 streams, 3 bytes each |
| `tables` | probes end, the table is a directory; a hit is the newest live answer, positive answers stay | 5 identifiers, 8 slots, 4 streams; 3 names, 2 ways, a clock modulo 6 |
| `udp` | every frame dealt with once, in order and through an association of its own target; replies whole; no stall | 3 frames in four orders of targets, 3 replies, 2 packets per event |
| `doh` | nothing stranded, connections owned, own answers, one answer per lookup | 3 sessions, 2 connections, 1 active, 2 pending, 1 idle |
| `matching` | the shortcuts of routes, DNS groups and geosite lists decide as the ordered lists do; associations match | 3 routes of 2 rules, 4 targets, 2 ways; lists of 3 out of 8 entries, 2 groups, 4 names |

**Bounds.** All limits of the code are constants, made small so that each is met;
`MaxData`, `MaxOut`, `MaxIn`, `MaxUp`, `MaxReplies` and `MaxAsks` bound what peers and sessions do.
`Traffic` (a constraint of the inbound runs and of `relay`) bounds all peers together.

- Two mux streams are enough to compete for tokens, to sit in a queue together and
  to be freed while the other runs. Three tokens against buffers of two make
  one stream's payload direct, the next deferred and the third blocked.
- A byte passes another only after a buffer was refilled past its pending
  frames: that takes four payload bytes of one stream, which both runs allow.
- `Modulus = 5` with a window of 2 lets the counters wrap within
  six bytes and keeps the signed difference meaningful, as 2^32 does for
  windows below 2^31.
- A header of two bytes with `Partial` sends can be cut anywhere: before it,
  inside it, between it and the payload, inside the payload.
- Eight slots and four streams have the code's proportions (128 and 64) and
  make the rebuild threshold `Size / 4` different from one. Five identifiers
  are one more than fit, so that slots are reused by strangers. `MCInit` keeps
  one hash function of each class under renaming of identifiers and rotation of
  the table.
- In `relay` two frames are enough for a fragmented message, for a control frame
  on either side of data, for two PINGs against one buffer and for CLOSE after
  PING.
- In `doh` three owners against one active request and two pending make a queue
  of two, a refused lookup, and a callback that asks again while others wait. Two
  connections let one be idle while another is opened.
- In `session` two addresses give a first failure that is followed and a last one
  that is not. Two pieces of data arrive before, with and after the request.
- The scripts of `udp` change from one association to another and back, and put
  a lookup before, between and behind other frames.
- In `matching` the keywords overlap (`aab`, `ab`, `b`, `bb`), so that fail links of
  depth one and output links matter; `AcMaxChars` lies between the sizes of the lists.

**Deadlock** is checked where a session cannot stop: `Ended` is the only stuttering
step then. It is not in `session`, `udp` and `doh`, whose clients may have nothing
more to say; what must not be left undone then is a property (`Tunnel`, `NoStall`,
`NoStrandedQuery`).

**Fairness.** A handler runs to its end (weak fairness of its steps). In `inbound_live`
and `outbound_live` the event loop delivers posted events and armed write
events of connections whose peers go on reading (strong fairness, because
other events interleave); a socket that is offered bytes again and again takes
some; an opening stream is opened or fails, if only by its timer. In
`outbound_live` the client also consumes what it received and reports it, as smux v2
demands. In `session` and `doh` a timer that is not deleted goes off and a resolver query ends.
Nothing is assumed of reads: clients, upstreams and servers may stay silent.

### Finding

`outbound_framing`: a frame cut by a full socket leaves its stream at the
*tail* of the flush queue (8132, and 8066 for UPD), so another stream's frame
goes into the middle of it. README.md:13 promises alignment with xtaci/smux.

### Observed while modelling

The properties hold but for the cases named here; where a case is excepted, the
property says so by name.

Mux:
- A resolver or DoH failure of a *direct* mux stream closes
  the stream (9684, 9748) but neither flushes nor posts an event: the FIN
  waits for the next event of the session. `FinNotForgotten` and `ClosingEnds` are
  checked with SOCKS5 outbounds.
- A flush that meets its byte limit at the end of a frame
  (7468) returns before the emptied buffer is reset (7474). The next upstream
  read has no room, `recv` of size 0 returns 0, and 10037 takes that for the
  end of the stream. The model does the same, so its properties speak of the end the code saw.

Relay:
- `process_proxy` sends the prefix (6785) and, when the upstream's
  socket is full, goes on to the client's buffer (6798): newer bytes can overtake the
  rest of the prefix. `Fifo` is stated for each source.
- A CLOSE overwrites the rest of a half-sent PONG (3032): `"cut"` in `FramesWhole`.
- `client_recv` that meets the end of the input after it produced bytes posts
  nothing: the half-close of a WebSocket client that leaves without CLOSE waits
  for an unrelated event.
- The end of a session does not ask for `pending_to_upstream` (6823); after CLOSE,
  payload the upstream has not taken is dropped (3097).

Session:
- Bytes after an HTTP CONNECT header are dropped when a DNS rule resolves the
  target (4260). `Tunnel` excepts this.
- With a local inbound over a SOCKS5 outbound, an upstream event that comes while the reply
  is half sent re-enters `process_socks5` in its last step: a second
  reply, or a failure, is prepared (`history.twice`).
- The timeout of an attempt ends the session or the request; it does not try the
  next address. A local client whose target no route matches gets no reply.

DoH:
- A dead kept-alive connection is replaced only if it took no byte of the
  request. When the server's FIN comes with its reply, the connection is kept and
  the next request on it fails. An answer that is delimited by the
  end of the connection, with data and FIN in one event, waits for the timeout. Only
  the first address of the server is tried.
- A queued request has no timer of its own. A lookup started by a callback takes the free
  place before the queue.

UDP:
- Frames left in `udp_in` because the client's socket was full are not
  taken up by `udp_client_write_handler` (12083); a frame that meets a DoH client with a
  full queue (11419) leaves the session resolving. `NoStall` excepts both.
- A datagram that meets a full socket is dropped and counted as sent (11776, 11941); so is
  the rest of a `sendmmsg` that sent a part. A change of association drops the replies
  of the old one that were not relayed.

Caches and matching:
- A store that stops at a free way can leave two answers for one name, and a negative
  one may then hide a live positive one.
- A geosite rule of a route takes a name with its trailing dot, domain rules and DNS
  rules without.

## 4. Proofs

`MuxInboundProofs` proves, for every number of streams and every value of the
constants allowed by `ConstantsAssumption`:

- `TypeCorrect`: `Spec => []TypeOK`;
- `ReserveSafe`: `Spec => []FrameReserve`, a payload that was admitted keeps the
  tokens for its unread rest across any number of handlers;
- `WakeUpSafe`: `Spec => []NoLostResume`, a blocked client frame that could go on
  has its read event posted whenever the worker waits.

None is inductive as it stands. `IInv` adds to the type of every variable where
`cur` and `ret` are meaningful (by `pc`), that every buffer respects its
capacity and offset, and the shape of the frame in progress: read and fed counts
stay within its length, its bytes are fed only once it was read completely, a
NEW frame has no target yet, and the loop counter is below its limit while a
frame is open. `FrameReserve` is then inductive: tokens are taken for the frame
being read, one for each byte read, and every other taker
(`append_client_data`) runs after the frame was read completely. For
`NoLostResume` the invariant is `WakeUp`: if the blocked frame could go on, then
the read is posted or the running handler still has the read loop ahead of it
(`WillRead`). The steps to show are that every return of tokens posts, and that
a frame becomes blocked only when it lacks tokens; that a deferred frame is
never blocked again half-way follows from `FrameReserve`. The proofs go action by
action, one step per disjunct of `Next`.

The assumptions are those of the code: limits are positive, and a frame fits
the stream buffer and the bucket (`MAX_FRAME_SIZE` is not above either).

The second part goes on from there, stream by stream:

- `StreamsAreQueues`: `Spec => []StreamFifo`, nothing is lost or reordered whichever of
  the three ways a payload takes;
- `HalfClosedLast`: `Spec => []HalfClose`;
- `NobodyStranded`: `Spec => []NoStranded`;
- `FinsRemembered`: `Socks5 => (Spec => []FinNotForgotten)`; without SOCKS5 it does not hold
  (section 3, "Observed").

`Streamed` gives each stream its account. `Ordered`: its buffer and its pending frames
number the bytes that follow those sent upstream (`Run`). `Counted`: sent, held and what
the frame in progress still has to store are all the client sent. `Framed`: the frame in
progress is the last one of its stream; unless it is deferred, a payload that is read
straight into the buffer follows no pending frame, which is why such bytes may go to
the buffer's end. A step moves bytes of at most one
stream; `SameRow` and `SameFrame` carry the account over for the others.

`Duties` does the same for events. The queue names live streams, none twice (`QueueOK`); a
handler in the middle of `process_stream` runs on a connected stream (`Turn`). For each
stream, `Waits`: with bytes held, the upstream is full, or the stream is queued and a pass is
posted or ahead of the handler, or the handler is at it; and `Fins`: a stream that could be
half-closed is, or it is queued, or the handler is about to send for it. `FinKept` adds where
`process_stream` returns to: with a SOCKS5 outbound never straight to the event loop.

Two more rest on these, for a finite set of streams:

- `TokensConserved`: `Spec => []TokenConservation`;
- `PayloadsSafe`: `Spec => []CoolPayloads`, smux or Mux.Cool.

`TokenConservation` is inductive once `Streamed` says what a step does to the bytes a stream
holds: they are what was sent less what went upstream and what the frame still has to
store. Every action then trades tokens for the bytes of one stream (`Trade`) or moves neither
(`Still`). The clamps in `take_recv_tokens` and `return_recv_tokens` could hide an
error, and are shown not to act: a refund fits because the bytes it pays for are part of the sum
(`RefundFits`), and a take finds its tokens because of `FrameReserve`. That the sum, a
recursive fold, changes by as much as one of its terms is `SumChange` of `QueueProofs`.
`CoolPayloads` needs `DirectFits`, for which `Roomy` is inductive: the buffer of a direct payload
has a place for each byte still to come, whether or not they are in one piece. It only
grows (`EnsureGrows`), sending empties it, and draining, which would fill it, finds no
pending frame in that stream (`Framed`).

`TableProofs` proves of `Routing`, for every list of routes, set of outbounds and history
of requests:

- `SearchIsFirstMatch`: the search of `select_outbound`, with the index of domain
  rules, the leading routes without such rules and the routes before the
  candidate, finds the first route that matches;
- `RoutingByFirstMatch`: `Spec => []RoutedByFirstMatch`;
- `AssociationIsCurrent`: `Spec => []AssociationMatches`.

The search rests on three lemmas: a rule's domain is a suffix of the host exactly
when the look-up of one of the host's tails finds it (`SuffixIsTail`), the index
keeps the least route of each domain (`IndexIs`), so the candidate is the least route
a domain rule decides for (`CandidateIs`); `FirstOfParts` puts the three parts of the
search together. For the invariants, `IInv` adds what the program relies on
silently: an entry of the shared cache holds the first matching route of its target
(`Good`); the last decision of a session is one of the first matching route, and
the outbound in use is its outbound or none (`RecentOK`); only a session whose last
decision was for a datagram has an association (`AssocOK`). Without the second
part a repeated request could be sent elsewhere than the outbound in use. Assumed
are what the parsers check: a rule has one of the types, and the
domain of a domain rule is not empty.

Of `MuxTable`, for every set of identifiers, every hash function and every size:

- `ProbesStayShort`: `TableSpec => []ProbesEnd`;
- `TableIsDirectory`: `TableSpec => ImplementsDirectory`, the whole refinement.

The invariant says of a table `t` and a set `S` that each member of `S` is in one
slot and found by its probe, and that nothing else is in `t`. `InsertHolds` and `EraseHolds` show that
it survives an insertion, into a tombstone too, and an erasure, which leaves one;
`RebuiltHolds` that a rebuild restores it from the list of streams,
by induction over how many of them are entered. `AroundOnce` is the arithmetic
behind it: `Size` steps from any slot pass every slot once. `Room` bounds the used slots by
half of the table, so a probe meets an empty slot or a tombstone.

Of `AnswerCache`, for any number of ways, any times to live, any number of names and any
clock whose period is more than twice the longest of them:

- `HitsAreNewest`: `CacheSpec => []HitsNewestLive`;
- `PositivesAreKept`: `CacheSpec => PositivesStay`, an action property.

`CacheInv` says that the order of use holds each way once, that an entry's expiry is the clock
plus the time it truly has left (`Clocked`), and that of two entries for one name the newer one
is nearer to the front (`Nearer`). From `Clocked` follows `ClockTells`: the signed
difference of the code is the time left, wherever the clock is in its period. `Nearer` is
why the first live entry that a lookup meets is the newest; it survives a store because
`PlaceIs` shows that no way before the one it goes to holds the name. When no way
is free and none negative, that way is the first in the order of use (`OldestOfAll`).

Of `Geosite` and `DnsRules`, for every list, all groups of servers, any sizes of the caches, any
limit of the trie and every history of questions:

- `WalkFindsKeywords`: the walk along the trie finds the keywords that are in a host;
- `ListsDecide`: `DnsSpec => []ListDecides`;
- `FirstGroupsDecide`: `DnsSpec => []FirstGroupDecides`.

The trie rests on one notion: `Best(s, k, m)` says that `m` is the longest node of at most `k`
characters that the string `s` ends with. `BestExtends` is the step of the argument: to add a
character to `s` and look for the longest node again, it is enough to add it to the longest
node found so far. So a step along edges and fail links goes to the longest node (`StepIs`),
the fail link of a node is the longest node that it ends with other than itself (`FailIs`), the
output links give all keywords that a node ends with (`EndingIs`), and after each character
of the walk the node is the longest that the host so far ends with. The recursive functions are
handled as equations that have one solution: a closed form is shown to satisfy the
equation, so that the function the definition chooses satisfies it, and induction over the
length, as a set of numbers (`SetInduction`), shows that it equals the closed form.
`Repeated` gives the scans over rules and groups, whose states have no closed form, a run.

`EndingsAre` says that a host is in the domain of a name exactly when the name is among the
host's endings, which makes both domain indexes equal to their rules; `IndexedIsListed`
then covers all four kinds of entries. `DnsInv` adds that both caches hold only right answers
(`SiteGood`, `DnsGood`). It has to speak of the two at once: a question to the DNS rules fills
the cache of the list, from which routes are answered next. `GroupSearchIs` follows that cache
through the scan, and uses `FirstOfParts` to join the scan and the index. Assumed is
what the readers of the files enforce: a name is not empty and has one of the types.

`MuxOutboundProofs` proves, for every number of streams and all sizes and moduli:

- `WindowSafe`: `Spec => []WindowRespected`, which contains the type invariant;
- `FinLastSafe`: `Spec => []FinLast`;
- `NothingStallsSafe`: `Spec => []NothingStalls`, no stream is left with something to
  send and nothing that will send it;
- `ReportsSafe`: `Spec => []ReportsReachClient`, the same for the UPD reports.

`Counted` is what makes the window inductive: the last report a stream has read
is the remainder of some number `x` of bytes the client had consumed, and the bytes
sent after `x`, with the rest of the packed frame (`Rest`), fit the window. A report only
raises `x` to all that was consumed, `PackFrame` adds at most the window computed from
`x`, and `SendFrame` moves bytes from the rest to what was sent. That the
wrapped counters give back these differences is `SignedDifference` and
`SignedBehind`; they need `2 * PeerWindow < Modulus`, which 2^18 and 2^32 satisfy. A
client with two reports under way would need the same argument for each. For
`FinLast` the invariant adds that a due FIN means the upstream has ended and that
a closing stream has its FIN due or sent.

The wake-ups need a second invariant, `WInv`, on top of `IInv`. `Queued` says what
the flags of the code stand for: both queues hold live streams, none twice.
`Current` says who the running handler is busy with. `Good(s)` gives every stream its
obligation: what it has for the client is queued (`FlushedAt`) unless the window keeps it
(`Stuck`) or the handler is at it, its upstream is going to be read (`AwakeAt`), its
report is queued or being sent (`ReportedAt`), and what is unreported is below the threshold
(`FreshAt`). `Armed` is the end of a flush: with anything queued, the write event is
outstanding. Every action touches one stream; `Untouched` and `Kept` say
what carries `Good` over for all others.

`DohClientProofs` proves, for every number of sessions, connections and every limit:

- `NoRequestStranded`: `Spec => []NoStrandedQuery`;
- `EveryConnectionOwned`: `Spec => []ConnectionsOwned`;
- `OnlyOwnAnswers`: `Spec => []OwnAnswers`;
- `AnswersOnce`: every step of the client is a step of `DohLookup` or leaves its state
  as it is, which is the safety half of `ImplementsLookup`.

The hard part is the nesting: the handler that `finish` calls may start a lookup, cancel
another or call `run_pending` again. `Stack` says that only the top of the stack of calls is
about a request in the hands of the handlers; all the calls below it start queued requests
or cancel, so they read their state when they are reached. `Callers` ties the caller's handle to
its request, `Requests` the fields of a request to its phase, `Queue` says that requests wait
only when no place is free *or* a `run_pending` is still on the stack, `Counted` that
`active` is the number of requests in an active phase, `Owned` that requests and
connections point at each other, `Timed` that each has a timer or is on top of the stack,
`Owed` that a connection in use owes at most one answer, to its owner. Assumed are only
that limits are natural numbers and that the model values differ. That a lookup *is* answered needs the timers' fairness and stays with TLC.

`RelayProofs` proves, for all buffer sizes, limits and frame headers and every bound on
the peers:

- `FramesStayWhole`: `Spec => []FramesWhole`;
- `NothingIsForgotten`: `Spec => []NothingStalls`;
- `BytesInOrder`: `Spec => []Fifo`;
- `EndsWhole`: `Spec => EndsComplete`, an action property.

`Core` relates the point of the handler to its locals (`Recv`), the client's frame
parser to the frame that is being sent (`Wired`), waiting output to a write event or a place in
the handler still ahead (`Outputs`), and unread input to a read event, a posted
event or such a place (`Inputs`). Every exit of the handler has to be checked
against all of them: that a loop gives up (`MaxLoops`, `Limit`) posts the event, that a full
buffer waits for the other side. `InOrder` numbers the client's bytes along their
way: `up`, `pend` and `cbuf` hold the first of them, and the raw bytes, those in the socket
and those not yet sent, taken together (`Flow`), hold the others in increasing order, cut into frames
exactly where the reader will look for a header (`Parsed`). `Fifo` compares
each source, prefix and payload, with its own numbers, since they may overtake one another (see
above).

`SessionProofs` proves, for every set of configurations, any data behind the request and any
number of addresses:

- `HonestAlways`: `Spec => []Honest`;
- `EndedStays`: `Spec => StaysEnded`, an action property;
- `TunnelAlways`: `Spec => []Tunnel`;
- `OneReplyAlways`: `Spec => []OneReply`.

`Control` says which functions run in which states (`Where`), that an ended session has no
event, timer, query or connection left (`Over`), when a query runs (`Asking`), how the
connection stands in each state and which handler it has (`Upstream`), what may be on its way
to the client (`Answers`), and that refused attempts are counted by the address index
(`Attempts`). `Honest` and `StaysEnded` follow from it. None of its parts is inductive alone: that
`test_connect` meets a connection which ended at all needs `Upstream`, that a failure
reply never goes out over an open one needs `Answers`.

`Carried` follows the client's bytes. What it has told begins like its script (`Told`), each
state belongs to a kind of inbound (`Suits`), and in every phase of the request (`Phase`)
what was told, less the pieces the inbound has taken (`Used`), is one text, `Line`: the
bytes the upstream received, `pending_to_upstream`, the buffer, the socket. Every change of
state moves the borders of that text. `Awake` adds that the worker never waits on an
unread byte without an event. Together they give `Tunnel`. `Received` does the same for the
client: what it has is the replies the state implies (`Heard`) and then a first part of
what the upstream sent, and nothing of that before the reply is whole. The second part
of `Hears` is what keeps upstream data that comes before the reply was flushed.

`UdpRelayProofs` proves, for any targets, any number of frames and replies and any size of a
batch, Trojan or SOCKS5 inbound:

- `AccountedAlways`: `Spec => []Accounted`;
- `FramesWholeAlways`: `Spec => []FramesWhole`;
- `NoStallAlways`: `Spec => []NoStall`.

`Sorted` is the types and who runs when (`Orders`): at most one frame waits for a lookup and one
for an association, and then no other is taken. `Accounted` has two parts. `OnceInOrder` is
inductive with `Sorted`, since every step moves the border between neighbours of one queue.
`OnTheWay`, which compares the way each frame took with the way of its target, needs
`Routed`: the association that a held frame waits for is with its outbound, and a frame
that waits for a lookup goes directly. `SendingWays` and `OutboundIs` say that what
`prepare_udp_outbound` leaves is the association the next frame calls for. For `FramesWhole`, `Delivery` adds where
the numbers come from: the slot of the packet being sent still holds its payload (`Pipe`:
no batch is received while a packet is half sent), headers and payloads alternate
(`Pieces`), and no reply is in two places or twice in one (`Apart`, `Once`). For `NoStall`,
`Events` says of each handler's exit which event stands for what it leaves: an unsent
packet waits for the client's socket, the rest of a batch for that or for its own
socket's posted event (`Kept`), frames for a read, a lookup or an association (`Woken`).

`QueueProofs` holds what the others share: `WithoutProperties` and `EnqueueProperties`
say that removal and insertion keep a queue free of duplicates, `ModUnique` is the
arithmetic of remainders. `SetInduction` is induction over a *set* of numbers, proved
from `BelowWellFounded`: the induction theorems of the library take an
operator, which none of the provers can instantiate, but a set defined by the property
does instead.
The same serves the sums over finite sets: `SumExists` builds the recursive function that
the fold of the community modules chooses, `SumTakes` shows that any member may be taken out first.

Only model-checked: all liveness, which is out of the prover's reach, as is `ENABLED`:
`ClosingEnds`, `Unblocks`, `Drains`, `AttemptEnds` and the liveness half of `ImplementsLookup`.
Every safety property of a passing run is a theorem.

## 5. Not modelled

- Both mux halves: bytes of headers and addresses, allocation failure, the idle
  timers of an open stream that nothing else ends, the sing-mux status reply,
  routing of a stream (any outcome is allowed), mux inside WebSocket.
- `Relay`: the opening handshake, masking, text of close reasons, a send that
  fails inside `queue_control`, failures of the event API.
- `Session`: the text of requests and replies, the WebSocket upgrade, TLS.
- `UdpRelay`: IPv4 and IPv6 as two sockets, the idle timer, the SOCKS5 handshake beyond its
  outcome, failures of allocation.
- `DohClient`: TLS, the text of HTTP and DNS messages (chunked bodies, lengths),
  more than one name.
- Names longer than the indexes take (256 bytes), which no parser lets in; hash
  collisions of the geosite and DNS indexes, whose probe loops compare values.
- The codecs (`_mux.c`, `_protocol.c`, `_socks5_protocol.c`,
  `_http_proxy_protocol.c`, `_websocket_protocol.c`), the readers of rule, geosite
  and geoip files, the geoip tree, and configuration: sequential parsing without
  state that outlives a call.
- The socket library, OpenSSL and the resolver: their answers are chosen freely.

## 6. What could come next

1. Abstract specifications for `Relay` (two queues, each closed after its last byte) and for
   `UdpRelay`.
2. `MuxSession`, composing both halves with the status reply.
3. The codecs as operators against reference definitions over bounded inputs.
