# A TLA+ development of libcfd

libcfd is a Rust library that connects an application to Cloudflare's edge as a
tunnel, over QUIC (with quinn or quiche) or HTTP/2, and hands the requests that
arrive to an *origin* of the caller's. This directory models the parts of it
whose correctness depends on the order in which things happen, model-checks
them with TLC on small instances and proves with TLAPS, for every value of their
constants, the safety properties of the run loop, of both sessions, of the registration,
of the quiche backend, of the remote configuration, of a request and of the pump; what the
RPC framing, the backoff and the headers of a message promise, for every input; and four
refinements: the loop with its discovery opened implements the loop without, each session is
an attempt as the loop expects it, and the registration is one question and one answer.
Paths below are relative to the repository's root; `PROJECT.json` names, for
every definition that models code, the file and the lines it stands for.

    tlc -workers 2 -config EdgeRun.cfg EdgeRun         # a run
    tlapm ConnectorProofs.tla                          # a module of proofs

## 1. Inventory

How the parts call each other, from the outside in:

    run.rs ─ tunnel/ (named, quick)          credentials, one HTTP request
      └─ EdgeConnector::run                   edge/connector/mod.rs
           ├─ edge/discovery.rs               SRV and address lookups
           ├─ edge/event.rs                   shutdown_flag
           ├─ run_quic                        edge/connector/runtime.rs
           │    ├─ quic/quinn.rs | quic/quiche/   connection, streams, driver
           │    ├─ edge/control.rs ─ rpc/src/{tunnel,rpc,io}.rs  register, unregister
           │    └─ edge/serve.rs              a task per request ─ origin
           └─ run_h2                          edge/connector/runtime.rs
                └─ H2EdgeConnection::serve    edge/h2/mod.rs
                     ├─ edge/h2/register.rs   control task ─ control.rs
                     └─ edge/h2/streams.rs    a task per request ─ origin
      origin/: http, stream, axum, pump, responder

| Component | State | Operations | What makes it hard | What makes it correct |
|---|---|---|---|---|
| **Run loop** `connector/{mod,options,backoff}.rs` | `attempt`, `quic_failures`, `quic_broken`, the addresses of the round | select a transport, discover, attempt each address, count, sleep | saturating `u8`/`u32` counters, limits of 0 and 255, a flag set by one address and used after others, a shutdown at any await | `Ok` only under shutdown; QUIC is given up only when earned and then for good; it gives up on nothing but a permanent refusal |
| **Event** `event.rs` | a flag, `Notify` | `fire`, `notified`, `is_fired` | `notify_waiters` stores no permit, and `notified` ignores the flag | who waits before the fire is woken |
| **QUIC attempt** `runtime.rs` `run_quic`, `serve.rs` `serve_requests` | the connection, the serve task, the tasks in its JoinSet | register, push configuration, serve, unregister, drain, close | dropped at any await by the connector's `select!`; detached tasks; timers | requests in flight are not cut; an attempt ends when its connection does; it honours `ServeAttempt` |
| **HTTP/2 attempt** `runtime.rs` `run_h2`, `h2/mod.rs`, `h2/register.rs` | the connection, a oneshot, two signals, the control task, the stream tasks | accept, classify, register, time out, shut down, drain | three tasks, notifications that are lost, timers made anew every turn, a connection that moves only while polled | refusals are reported once, streams end with `serve`, drains are bounded |
| **Registration RPC** `rpc/src/{rpc,tunnel}.rs`, `control.rs` | `next_question`, `has_bootstrap` | bootstrap, call, finish, release | returns for other questions, aborts, a stream reused after a refusal, timeouts that drop the client mid-call | ids are fresh, the client believes what the edge did, every answer is finished or known to be refused |
| **quiche backend** `quic/quiche/` | `Inner`: accepted set, wakers, `closed`, `established`; the driver task | connect, accept, read, release, close, drive | one waker slot per stream shared by two tasks; a FIN seen by one handle only; a driver that may leave | the accepted set follows the tasks, a request has a beginning of its own, readers are woken, a close ends every task |
| **quinn backend** `quic/quinn.rs` | a handle whose halves are taken out while polled | read, write, finish, reset, stop, close | two handles polled at once; one waker; what a drop does | a body is not cut short; an upload given up is released |
| **Request serving** `serve.rs`, `h2/streams.rs` | JoinSet, a task and handles per request, detached drain tasks | dispatch, preamble, call the handler, respond, pump, drain, release | release while the drain still owns the stream; a handler, a body, an edge or a connection that fails half-way; a reset that overtakes what was written | one handler per request; the edge sees an end of every request, and a clean one only of a whole response |
| **HTTP/2 bodies** `h2/stream.rs` | held chunk, `position`, capacity | `poll_read`, `poll_write` | chunk sizes against buffer sizes, flow control | bytes in order, capacity released |
| **Pump** `origin/pump.rs` | two done flags | read, write, close, both ways | a write awaited inside a `select!` arm | end means complete, half-close, it ends |
| **axum adapter** `origin/axum/` | held chunk, `position`, `eof` | `poll_read` | as above | the body is unaltered |
| **Remote configuration** `configuration.rs`, `rpc/src/cloudflared.rs`, `h2/streams.rs` | `applied`, the last version that parsed; a task per stream | read, store, announce, answer | pushes on several streams at once, two steps under no lock, tasks cut at an await | every question is answered in order; what is stored or answered was announced; pushes one at a time leave all sides agreed |
| **RPC framing** `rpc/src/io.rs` | – | read a message, write a message | segment counts and sums of 32-bit words | messages are read back, the stream stays in step, limits hold |
| **Discovery** `discovery.rs` | the resolvers left, the hosts left, `edges` | query a resolver, look a host up, collect | silent or foreign answers, one bad record among good ones, shared addresses, no answer at all, a name without an end | fallback hosts only as a last resort; each address once; an error or an address |
| **Origin traits** `origin/{http,stream,responder}` | a oneshot per request | answer, fail, drop | a handler that drops its responder, keeps the body, or whose body fails | a request always ends |
| **HTTP messages** `serve.rs`, `h2/headers.rs` | – | headers and metadata, both ways | values that are no text, names reserved for cloudflared | both transports carry the same headers |
| **Tunnels** `tunnel/` | – | a file, a token, the quick tunnel's API | three places that check different things | what is accepted can register |
| **Entry points, TLS, Cap'n Proto encoding** | – | set-up, conversion | – | not modelled |
| **Generated Cap'n Proto code, examples, tests, research** | – | – | – | not modelled |

The hazards this code is exposed to, each at its line with the properties that
watch it, are in `PROJECT.json` under `hazards`; those with a note and no
property say why.

## 2. Modules

| Module | Models | Depends on |
|---|---|---|
| `Events` | `Event` and tokio's `Notify`, as a record of the flag and of the `Notified` futures that exist (`live`) and that are ready (`woken`) | – |
| `Connector` | `EdgeConnector::run` | `Events` |
| `EdgeDiscovery` | `discover_edges`, `srv_lookup`, `parse_srv_response`, `resolve_host` | – |
| `Backoff` | `retry_delay`, as a constant operator | – |
| `EdgeRun` | `EdgeConnector::run` with its discovery opened | `EdgeDiscovery`, `Backoff`; implements `Connector` |
| `ConnectorProofs` | the theorems of the loop, of its discovery and of `Backoff`, and that the loop opened implements it | `EdgeRun` |
| `ServeAttempt` | abstract: what the run loop relies on in an attempt | – |
| `QuicSession` | `run_quic`, `serve_requests`, the registration as one question | `Events`; implements `ServeAttempt` |
| `H2Session` | `run_h2`, `serve`, the control task | `Events`; implements `ServeAttempt` |
| `ControlExchange` | abstract: the exchange on the control stream as one verdict of the edge and one farewell | – |
| `Framing` | `read_message`, as a constant operator | – |
| `Credentials` | `from_credentials_file`, `from_token`, `create_quick_tunnel`, as constant operators | – |
| `QuicSessionProofs`, `H2SessionProofs` | their theorems, `ServeAttempt` among them | the session |
| `HttpMessages` | `build_request`, `encode_response_metadata`, `encode_response_headers`, as constant operators | – |
| `Registration` | `RpcClient`, `TunnelClient`, `register_on_stream`, `unregister` | `Framing`, `Credentials`; implements `ControlExchange` |
| `QuicheStreams` | `Inner`, the driver, `QuicStream::poll_read`, request and drain tasks | – |
| `Requests` | one request: its stream on any backend, the handlers of `serve.rs` and `h2/streams.rs`, the responder, the drain | `HttpMessages` |
| `ChunkReader` | the two readers that serve a buffer from chunks | – |
| `Configuration` | `EdgeConfigurationHandler`, `serve_cloudflared`, `handle_h2_configuration` | – |
| `Pump` | `pump` between an HTTP/2 body and an origin | `ChunkReader` |
| `RegistrationProofs`, `RequestsProofs` | the theorems of the module each is named after, of `Framing` and of `HttpMessages` | that module |
| `QuicheStreamsProofs`, `ConfigurationProofs`, `PumpProofs` | the theorems of the module each is named after | that module |
| `AxumBody` | an axum response body on its way out | `ChunkReader` |

A definition whose comment begins with *Variant* is a deliberate mistake: no
specification uses it. `PROJECT.json` pairs each with the definition it would
replace and the property that then fails, which shows that the property depends
on the code being as it is. Where a property has several parts it may be paired
with several. Each cfg is run on its module directly; the constants are
small numbers and model values. No symmetry is used: most runs check liveness,
and the instances do not need it.

### State and actions against the code

**Connector.** `pc` is the await `run` is at: `round` (top of the loop),
`discovering` (`discover_edges`), `attempting` (the first `select!`), `waiting`
(the backoff `select!`). Discovery is awaited alone, so `shutdown` has no waiter
then: `Listen` happens in the step that enters a `select!`, `Drop` in the one that
leaves it, `Fire` in the task that watches the caller's future. `AttemptStops`,
`AttemptDuplicate`, `AttemptRejected` and `AttemptFails` are the arms of the match
on `ServeAttempt`; the bookkeeping after the last address is part of the same
step (`EndRound`). Addresses are a count, since nothing else of them is used; a
discovery fails or finds some. The random delay is any delay. `seen` is a history variable: the QUIC rounds that
were finished and whether one met an idle timeout.

**EdgeDiscovery, EdgeRun.** `EdgeRun` replaces the one step of a discovery by its
own: `ResolverAnswers` is a query and the whole of `parse_srv_response` on what came
back, `HostLookedUp` one `resolve_host`, `DiscoveryReturns` the result with the
`match` of `run` on it. They stand beside `Connector`'s variables, which only change when the
discovery starts and returns. A reply is whether it is ours and in time, the
answer count of its header, and what each answer is to the parser; hosts are not
told apart since a lookup may answer anything. An answer may also carry a name whose compression pointer
leads back to itself: `decode_name` follows it for ever, inside the only task there is. `ParserLoops` is the
step into it when nothing before that answer was an error, `stuck` the state it leaves, and `LoopsOn` what the
task does from then on. `offered` is history: a resolver
sent a whole reply with a record in it, stated over the reply and not over the parser.

**QuicSession.** `pc` follows `run_quic`. `Proceed` carries the guard that the
connector's own `notified()` is not ready; when it is, only `ConnectorReturns` or
a step that makes `run_quic` ready too remains, since the unbiased `select!` polls
both in either order. `ConnectorReturns` drops `run_quic` after at most one more
poll of it (`LastPolls`): a spawned serve task is detached, and its handle keeps
the connection open. The last handle closes a quinn connection and leaves a
quiche one to its driver (`Dropped`). Handlers end when they like.

**H2Session.** One action per branch of `serve`'s `select!`, of the drain, of the
control task and of `run_h2`. `NextTurn` replaces the shutdown future, as each turn
of the loop does. The edge is reachable only while `serve = "running"`: the h2
library moves frames when `connection.accept()` is polled, and nothing else polls
it. `registration` is the oneshot, `registered` and `controlShutdown` the two
signals, `registrationDone` the flag of the loop.

**Registration.** `step` is the call in progress, `waiting` the question whose
return is read. A message is a record of its kind, its question or answer id and
what the client's decoding tells apart. `ReadMessage` is read, decode, finish and
what the caller then does, in one step, because the client does nothing else
meanwhile; a lost stream turns any of it into `StreamFails`. The edge takes calls
in order, answers in any order, and sends up to `MaxStray` messages nobody asked
for: an abort, another kind, a return to an earlier question.

**ControlExchange.** What the sessions take a registration for. `verdict` is the edge's
decision, made once; `tunnel` whether it serves; `phase` and `outcome` what the client is doing and was told.
`Registration` maps `step` to `phase` and the calls the edge took to `verdict` and
`tunnel`; bootstraps, finishes, releases and strays are stutters. `Ends` is its one liveness property.

**QuicheStreams.** A stream is the number of segments sent, arrived and read, and
its FIN; the first segment holds signature and request. `serve_stream` compares the bytes it reads next
(`serve.rs:82-92`), wherever in the stream they are, so the sender also chooses which segments of the body
begin as a request does (`alike`), and `Signature` looks at the next segment (`Begins`). `TurnEnds` is the end of
`drive`'s loop body, with the wakes and the sequence bump. `readWaker` is the one
slot per stream, `eof` the `read_eof` flag of each task's handle. A dispatch makes
a `serve` task, which may leave a `drain` task behind; the slot and the library's
stream are shared by all of them.

**Requests.** `task` is the await the request task is at, `responder` the oneshot,
`handler` what the origin's handler holds of the request body and was told by its
reads, `source` the response body or the origin's stream, `pumping` the directions of
`pump` under way, `drain` the detached task. `send` and `receive` are our halves of the
stream, `out` what the library has buffered towards the edge, `upload` and `edge` the
edge's view. Over quinn a read is two steps: `Take` takes the receive half out of the
shared handle, and `Yields`, `Pends` or an end puts it back; a reader in between sees
`Misses`, the `Ok(0)` of an absent half. Only the receive half needs this: each write side has one
writer. Over quiche the poll holds a lock, over HTTP/2 the body has one reader.
`QuicheStreams` has that backend's wakers and flags, so here a quiche reader is never parked.

**Framing, Backoff, HttpMessages, Credentials.** Constant operators: what
`read_message` makes of a stream of words, the delays `retry_delay` may draw, what a
message is on the other side, what a document is as a tunnel. The last `ASSUME` of each
(`FramesStayInStep`, `DelaysGrow`, `MessagesSurvive`, `CredentialsRegister`) says what must hold
of them for every input up to the bounds. TLC evaluates it in the runs of the module that
extends it: `registration`, `connector`, `requests` and `registration`. Loops over a sequence are
functions of the number of elements seen (`Sums`, `Shifted`, `Picked`, `Built`), so that the first three
can be proved of every input.

**Configuration.** `sent` is what the edge put on each stream, numbered over all
streams by `number`, and `read` how far its task got; a push request over HTTP/2 is one message.
`task` is where the task is: at an await (`reading`, `writing`) or inside
`update_configuration` (`updating` before `applied.store`, `announcing` after it).
Tasks run on several threads, so the steps inside interleave with those of
others; but the function does not await, so an abort or a reset meets a task only at
`AtAwait`. `overlapped` and the field `acked` are history: whether the edge ever
pushed before it had its answer, and whether it knew of an accepted push.

**Pump, ChunkReader, AxumBody.** A byte is its number. `WriteOrigin` and
`WriteEdge` move one byte of a `write_all`; no read is enabled meanwhile, since the
arm that awaits the write is not left. `ReaderFetches`, `ReaderSkips` and `ReadEdge`
are the turns of `ReceiveStreamReader::poll_read`, and a chunk used up releases
its capacity to the edge.

## 3. Runs

Every cfg checks the module it is named after; one whose module's name is
continued looks for a counterexample. The type invariant is checked in each passing run, under
its own name or as the first conjunct of the module's first invariant. Numbers of
distinct states are those of the cfg as it stands.

| Run | Instance | Shows |
|---|---|---|
| `connector` (`EdgeRun.cfg`) | counters that saturate at 2, limits 0 to 2; 2 resolvers, 2 answers a reply, 2 ports, 2 addresses, 2 a lookup, up to 4 edges; 296772 states | `Ok` means shutdown; fallback is earned, a silent QUIC is not tried again, HTTP/2 is for good; the loop comes around for ever unless a resolver's name has no end; each address is tried once a round, the fallback hosts are the last resort; a discovery is what `Connector` takes it for |
| `quic_session` | 2 requests, both backends; 978 states | requests in flight are cut only with their connection; no open connection is left unserved (quinn); a lost connection ends the attempt and its requests; implements `ServeAttempt` |
| `h2_session` | 2 streams; 29391 states | the registration time is earned; streams end with `serve`; a lost connection ends the attempt; drains are bounded; implements `ServeAttempt` |
| `registration` | 2 stray messages; 52494 states | the client believes what the edge did; question ids are fresh; answers are finished or refused; calls hold the capability; implements `ControlExchange`, so the exchange ends |
| `quiche_streams` | 1 stream, 3 segments, 3 dispatches; 98216 states | the accepted set names the live request tasks; every request that reaches a handler has a beginning of its own; a request task alone on its stream is woken; a close ends every task |
| `configuration` | 2 streams, 3 messages, both transports; 288216 states | each question gets one reply, in order; what is stored or answered was given to the callback; a refusal reports an accepted version; pushes one at a time converge; pushes are answered |
| `pump` | 4 bytes in, 2 out, frames of up to 3 and one of none, window 3, buffer 2, pipes of 1; 123200 states | bytes in order both ways; an end is never announced early; half-close; the pump ends |
| `requests` | 2 segments up, 2 chunks down, a send buffer of 2; 3 backends, 3 kinds; 123049 states | a clean end follows a whole response; a body is not cut short; every request that is settled ends for the edge; what it left of its upload is released |

The others look for a counterexample and find it (section 5):
`connector_shutdown`, `quic_session_shutdown`, `requests_failure`, `axum_body`.

Why the bounds are enough.

- *Connector.* What distinguishes counter values is whether they are below the
  limit, at it, or saturated; 0 to 2 has all of these for each limit, among them
  the limit 0 (Auto starts on HTTP/2) and the limit that equals the saturation
  point. With two addresses one can set `quic_broken` and the next be refused as a
  duplicate. The proofs remove these bounds.
- *Discovery.* Two resolvers are one that fails and one asked after it. Two answers
  are a record beside a bad one or beside a name without an end, in either order, two hosts that
  share addresses, or a count that is larger or smaller than what follows. Two hosts with two addresses give up to
  four edges, so `MaxEdges` cuts nothing off; the proof assumes it as the bound of
  `HostLookedUp`.
- *Requests.* Two segments let a handler and a drain read one each, and a handler
  read one before it responds; two chunks let a body fail half-way; a buffer of
  two is full while a third item waits. Requests share a connection and nothing else.
- *Framing.* Eight word values, at most four segments and three words are the smallest where
  the wrapped count, both limits, either parity of the padding and an early and a late
  excess all occur. *HttpMessages*: three headers are a repeated name beside another one.
  *Backoff*: 64 values and an exponent of 3 overflow, saturate and meet the cap.
- *Sessions.* Requests are independent of each other; two show one that is cut
  beside one that is done. Shutdown may fire in any state, before the attempt
  included, and the connection may break in any state, in two ways.
- *Registration.* At most four questions are asked, so the ids need no bound. Two
  strays suffice for one to spoil a call and another the call after it, which is
  what a reused stream is exposed to.
- *QuicheStreams.* Streams share nothing but the watch, so one is enough for the
  slot and the set; three segments separate the preamble from a body that is longer than one
  read, so that a drain's waker can be displaced by a request task that is then refused, and data
  still comes; either segment of the body may look like a request. Three dispatches let a
  stream be refused after it was drained and again after that.
- *Configuration.* Two streams race; three messages let a refused push follow an
  accepted one on either stream while a third is under way, or a finish come
  between two pushes.
- *Pump.* Four bytes in frames of up to three give chunks that are shorter than,
  equal to and longer than the buffer, and chunks one after the other; the window
  is smaller than the transfer, so a capacity that is not released stops it.

`CHECK_DEADLOCK FALSE` stands wherever the modelled thing ends: an attempt, an
exchange, a stream, a pump. `Connector` instead has a stuttering step after
`run` returned, so its deadlock check means that the loop itself never stops.

## 4. Fairness

Only what the code and the runtime guarantee: a task that can run is polled, and a
timer that was set runs out.

- *Connector*: discovery is bounded by its DNS and lookup timeouts, the delay by
  `retry_delay`. A session may live for ever and nobody need ask for a shutdown.
- *QuicSession*, *H2Session*: `RPC_TIMEOUT` and the grace period run out, the ends
  of tasks are noticed. The edge need not answer, request handlers need not end, a
  healthy connection need not fail.
- *Registration*: the two timers. A silent edge is the case of interest.
- *QuicheStreams*: the 50 ms kick of the driver, `connect`, the accept loop, reads
  that can return, the drain's timer. Nothing of the edge, the handlers, or the
  socket, which may break the driver.
- *Configuration*: the tasks are polled, and replies can be written. The edge need not
  push, and may reset a stream at any time.
- *EdgeRun*: the same, with the discovery's steps in its place: a query is given up after
  five seconds, and the lookup by the system's resolver is assumed to end. The parsing of a reply is
  not: the step taken may be `ParserLoops`. The liveness of this run is stated for the behaviours without
  it (`TriesUnlessStuck`, and the fair half of `ImplementsConnector`); its safety for all.
- *Requests*: a task that can run, a poll that returns, the drain's timer, and an edge
  that reads what it was sent. Neither the handler, its body, nor the upload need end, and an edge
  may abandon the request or the connection be lost at any time.
- *Pump*: the pump's task, and an edge and an origin that send what they have, end,
  and go on reading. Without the last the pump rightly waits.

## 5. Disagreements between the code and what it says of itself

`PROJECT.json` quotes each under `findings`.

1. `connector_shutdown`: a shutdown that fires while `discover_edges` is awaited wakes
   nobody, and `notified()` does not look at the flag. `run` goes on, although it "runs
   the tunnel until `shutdown` resolves". `ShutdownStops` speaks of the first discovery, before any
   attempt. The model also has a second race that ends the same way: the future is woken, the
   `select!` takes the attempt's arm, and dropping the future loses the wake.
2. `quic_session_shutdown`: the connector's own `notified()` wins against the
   session's, and the attempt is dropped before it unregistered or drained, with a
   request open, although the grace period is there for that.
3. `requests_failure`: a handler that fails, or drops its responder, is promised that
   the edge sees an error response. Over QUIC `write_stream_error` resets the
   stream right after it handed the response to the library; what the library has
   not sent by then is dropped, and the edge sees a reset and no response. TCP streams,
   which the trace is about, are promised the same (`TcpResponder`, `responder.rs:86-88`).
4. `axum_body`: `AxumBodyReader` keeps `position` across chunks and loses the start
   of the next one. `ReceiveStreamReader`, of the same shape, resets it; `Pump`'s
   `InOrder` holds.

More are visible in the models or the code and have no run of their own.

- `decode_name` (`discovery.rs:228-253`) follows compression pointers without a bound. A resolver
  that sends one which leads back to itself keeps the connector's task in it: no other resolver is
  asked, no fallback is used, no retry made, and no shutdown seen, since nothing is awaited.
  `TriesUnlessStuck` excludes exactly this.
- After shutdown `serve` polls the HTTP/2 connection no more (`h2/mod.rs:165-168`), and an
  h2 server connection moves frames only when polled. The unregister call of the control task,
  promised at `h2/mod.rs:99-100`, stays in the buffer: in `H2Session` the edge is reachable
  only while `serve = "running"`.
- The `write_all` of a pump direction is awaited inside the `select!` arm (`pump.rs:39`, `57`): an
  origin that stops reading while its own output is not taken, and a pump that waits to
  write to it, wait on each other. `Pump` assumes an origin that goes on reading.
- A websocket or TCP direction that fails is left without a close (`pump.rs:62-65`). Over
  quinn the drop of the last handle then finishes the stream, so the edge takes a cut
  stream for a whole one; over quiche nothing ends it. `CleanEndIsComplete` leaves
  out the first, `LeftOpen` in `Requests` names the second.
- A handler that keeps reading the request body after its response was written
  shares bytes and the one waker with the drain task (`serve.rs:159`), although
  "a handler may respond before the body is fully consumed" (`origin/http/body.rs:19-20`).
  `BodyIntact` therefore ends with the request task.
- A credentials file, or the quick tunnel's API, may give a tunnel whose identifier is no
  UUID; only a token is checked (`CredentialsRegister`). `register_on_stream` then fails after
  it bootstrapped, the error is not permanent (`error.rs:76-83`), and `run` retries for ever.
- `run_quick_tunnel` is documented to end when "the connection cannot be re-established"
  (`run.rs:61-62`); `TriesUnlessStuck` says that the loop gives up on nothing but a permanent refusal.
- `http_timeout` is the "timeout for the creation request" (`tunnel/quick/mod.rs:22`), but
  `post_empty` applies it to three steps in turn, and to neither the lookup nor the write.
- An SRV service of a region that does not exist, or whose resolvers fail, falls back on the
  hosts of no region (`discovery.rs:46-58`), as `FallbackLastResort` allows.
- A quiche stream that is released while bytes of it are unread is handed out once
  more (`Dispatch` after `Leave` in `QuicheStreams`), although `accept_stream`
  speaks of new streams. The check of the signature (`serve.rs:82-92`) compares the next bytes of the body: it
  refuses them, at the price of bytes taken from the drain task, unless they are those that begin a
  request, which is then handled as a second one of the stream. `OneRequestPerBeginning` says
  that this is the only way.
- If the drain, or its `stop_read`, takes what such a task was dispatched for, the task finds nothing to
  read and waits until the connection closes; until then its stream stays in the accepted set,
  which "stays bounded" (`serve.rs:27-29`) no longer covers.
- A drain whose waker was replaced by such a task is not woken by data, and ends with its
  timer; `ReaderWoken` speaks of a request task alone on its stream.
- A driver whose socket fails (`quic/quiche/mod.rs:254`) leaves without a word, and `serve_requests` waits
  on a connection that is gone; the properties of `QuicheStreams` excuse it or start at a close.
- A push request whose body does not parse is answered with version -1 even when a
  version is applied (`ReadPush` in `Configuration`), although the field is "the
  configuration version the connector applied" (`rpc/src/cloudflared.rs:29`).
- Two pushes handled at once may be stored in one order and announced in the other,
  after which the stored version and the consumer's differ for good. Nothing in
  the repository says that they may not; `SequentialPushesConverge` is what holds.

## 6. What is proved

Each theorem holds for every value of the constants that satisfies the module's named
`ASSUME`: counters and bounds are naturals, those that must be positive are, and nothing
else (in `Pump` also `MaxChunk <= Window`: a frame fits the flow-control window). Sets of
streams, requests and bytes are any sets. The bounds of the runs are gone: what `TLC` shows of two requests
or four bytes is proved of any number, and the three theorems on constant operators are of every
sequence, whatever its length.

All proofs go the same way. A property is seldom inductive, so each module has an `IInv`,
the conjunction of named parts that is; a lemma says that the initial states satisfy it, one
lemma per action (or per group of actions with one effect) that a step keeps it, `NextInv`
puts them together, and the theorem of a property is a consequence of `IInv`. TLC
checked every `IInv` on the run's instance before it was proved.

| Module | Theorem | Property |
|---|---|---|
| `ConnectorProofs` | `TypeCorrect` | `TypeOK`: no counter leaves its type |
| | `OkOnlyOnShutdown` | `OkMeansShutdown` |
| | `FallbackIsEarned` | `FallbackEarned` |
| | `BrokenIsNotRetried` | `BrokenNeverRetried` |
| | `FallbackIsFinal` | `FallbackSticks`, an action property |
| | `AddressesAreRight` | `RightAddresses` |
| | `DelaysGrowAlways` | `DelayGrows`, of every width, base and number of retries |
| | `EdgeRunImplementsConnector` | `EdgeSafety => Spec`, and with it the four above for `EdgeRun` (`EdgeRunOkOnlyOnShutdown`, …) |
| `QuicSessionProofs` | `NoConnectionUnserved` | `NoUnservedConnection` |
| | `RequestsAreNotCut` | `InFlightNotCut`, an action property |
| | `QuicSessionIsAttempt` | `ImplementsAttempt` |
| `H2SessionProofs` | `StreamsEnd` | `StreamsEndWithServe` |
| | `RegistrationTimeIsEarned` | `RegistrationTimeEarned` |
| | `H2SessionIsAttempt` | `ImplementsAttempt` |
| `RegistrationProofs` | `BeliefsHold` | `BeliefsAreTrue` |
| | `QuestionsAreFresh` | `FreshQuestions` |
| | `AnswersGetFinished` | `AnswersAreFinished` |
| | `CallsAreHeld` | `CallsHoldCapability` |
| | `RegistrationIsExchange` | `Exchange!Spec`, the safety half of `ImplementsExchange` |
| | `MessagesReadBack` | what is written is read back and leaves the stream at the next message; what is beyond a limit is refused |
| | `ReadsWithinLimits` | whatever is read keeps both limits |
| `QuicheStreamsProofs` | `AcceptedStreamsAreLive` | `AcceptedIsLive` |
| | `RequestsHaveBeginnings` | `OneRequestPerBeginning` |
| | `PlainBodiesHandledOnce` | a stream whose body has no bytes that begin a request is handled at most once, however often it is dispatched |
| `RequestsProofs` | `BodiesAreIntact` | `BodyIntact` |
| | `CleanEndsAreComplete` | `CleanEndIsComplete` |
| | `HeadersSurvive` | `ResponseSurvives` and `RequestSurvives`, of every list of headers |
| `ConfigurationProofs` | `QuestionsAreAnsweredInOrder` | `AnsweredInOrder` |
| | `WhatIsAppliedWasAnnounced` | `AppliedIsAnnounced` |
| | `RefusalsReportWhatIsApplied` | `RefusalReportsApplied` |
| | `OnePushAtATimeConverges` | `SequentialPushesConverge` |
| `PumpProofs` | `BytesStayInOrder` | `InOrder` |
| | `EndsAreComplete` | `EndMeansComplete` |
| | `EachDirectionIsPumped` | `HalfCloseKeepsPumping` |

**The run loop.** `IInv` is the types; `SignalInv` (the flag has woken someone only if it is
set, without which a woken `select!` proves nothing about the shutdown);
`RoundInv` (an attempt has an address and an allowed transport); and `CountInv`,
which relates the counter to the history: an idle timeout
leaves the counter at the limit or above, without one the counter is at most
the number of finished QUIC rounds, Auto on HTTP/2 has reached the limit, and
Auto in a QUIC round has not. The step that could break it is the end of a
round; there `FailureFacts` says that `QuicFailuresAfter` never takes the counter
back under the limit, saturated or not, and `BumpFacts` that a saturating addition
is monotone. `FallbackIsFinal` is a fact about steps: only `BeginRound` sets `transport`,
and `IInv` says what it selects.

**The discovery opened.** The refinement mapping is the identity on `Connector`'s variables.
Two facts make it: `FoundBounded`, that the number of addresses found stays in `0 .. MaxEdges`,
which is inductive; and `StepImplements`, that under it each step of `EdgeRun` is a step of
`Connector` or leaves `vars` alone. The step that matters is `DiscoveryReturns`: `Connector`'s
discovery succeeds with at least one address, and `discover_edges` makes an error of an empty
list.

**What a discovery finds.** `DiscInv` ties the discovery to the loop that awaits it: nothing is
left of a discovery that is over, the fallback hosts stand only after every resolver was asked and none
had `offered`, the list of addresses is injective, and a round has no more addresses than were
found. It rests on two facts about sequences of any length: `SrvRecordsFacts`, that the records
selected of a reply are some exactly if the reply was whole and had one, and `WithNewFacts`, that
appending the addresses of a lookup keeps the list injective.

**Induction over data.** The library's induction theorems take an operator and cannot be
instantiated, but induction over a *set* can be had without: `WFMin` with `NatLessThanWellFounded` gives the least number
outside of a set, hence `SetInduction` and `IntervalInduction`; by it `FiniteRecursion` shows that a function
defined by recursion over `1 .. n` exists, so that the `CHOOSE` which is its meaning
can be unfolded (`KeptUnfold`, `SumsUnfold`, `PickedUnfold`, …). Each module of proofs that needs these
lemmas has them.

**The sessions.** Both map to `ServeAttempt`: every step is a step of the contract or a stutter,
under an invariant that ties the phase to the report. Over QUIC, `ServeInv` says that the serve
task runs only between registration and unregistration and that when it is over no request is open, so the
`Ok` that ends an attempt cuts nobody. Over HTTP/2, `RegistrationInv` follows the answer of the
edge through the oneshot and the signal beside it to the time `run_h2` took, and `ResultInv` says
that a refusal `serve` returns is the one it took from the oneshot; the report is then true
although three tasks and two timers lie between the edge and it.

**Registration.** The question under way is told apart from those the client gave up
on. `CountInv` says how many ids each step has taken; `QuestionsInv` that whatever question is on its
way is awaited or was refused and none of a later step is; `ReturnsInv` that each return is for a
question that was asked and that the one for the question under way, wherever it is, says what is true of
the edge (`Says`). Beliefs alone are not inductive: a stray return could confirm what never
happened, were it not for a question other than the one awaited.

*As one exchange.* `ExchangeInv` adds to `IInv` that the call that asks for the verdict is on its
way at most once, and only while there is none; that an unregister call outlives the client only
if the client noted how it went; and that a client that ended reported something. `NextKeepsExchange` shows it inductive; `StepImplements` maps each step:
taking a call is `Decide` or `Remove`, reading the awaited return is `Accept`, `Refuse` or `Confirmed`, a lost
stream or a timeout is `Fail` or `GiveUp`, and the rest are stutters. The step that matters is a message
that ends a call (`MessageEndsCall`): by `Says`, what the client is told is what the edge decided. That the
sessions ask for nothing more than `ControlExchange` gives is by reading, since their question is one
variable of their own.

*Framing.* `TotalFacts` unfolds the running sum, `StreamParts` and `FrameParts` say where table, body and
rest of a stream lie, and `ReadFrameCases` that exactly one of the outcomes of `ReadFrame` applies. The
proof found a flaw of the model: `ReadFrame` was a `CASE` whose arms overlapped, which leaves the choice
open where the code tests in order; it is a chain of conditions now.

**quiche streams.** `AcceptedInv` says that a stream is in the set exactly if one request task works on
it, as long as `serve_requests` runs; the wakers enter only because a task parks and is woken in the same steps.
`OneRequestPerBeginning` is inductive as it stands. A task gets to a handler only by reading a segment that
begins as a request does, and what is read is not read again: the step adds one to the tasks counted
and one to the segments (`OneHandled`), any other step that reads adds to the segments at most (`NoneHandled`).
`PlainBodiesHandledOnce` follows, since only the first segment of a plain body counts.

**Requests.** `WireInv` relates what waits in the send buffer to the source: chunks that are seen
and on their way are those that were made, an end waits only behind all of them, and it is the source's own.
`StageInv` says which stage of the task allows which of this, `OrphanInv` what a dropped quinn handle may
leave behind, and `UploadInv` that one reader at a time holds the receive half and that until the task is
over the handler has read all that was read. `Coming`, the number of chunks in the buffer, is its length
without its first and last item, which needs no recursion.

*Headers.* `OnlyTwice` says that choosing headers twice is choosing what both choose, so the content-length that
HTTP/2 sees is the one among the user's headers; `HeadersAppended` that `build_request` reads the
entries of headers back in order behind what stood before them. The theorem has no hypothesis on the
list: names may repeat, apart or together.

**Configuration.** Per stream: what the edge sent (`ChannelOf`), where the task is (`TaskOf`), which
questions have been answered (`AnswersOf`) and what the answers say (`RepliesOf`). Over all streams: what is stored was
announced or is about to be (`AppliedInv`), and, while the edge waits for its answers, `SequentialInv`: one push at
most is unanswered, it is newer than what was accepted, and what is stored is the newest accepted
version or the one under way. `OnePushAtATimeConverges` is the end of that argument, when no push is under way.

**Pump.** A position in the edge's bytes is followed through five places: released, in the chunk held, in the frames,
in `pending`, in the pipe. `ReaderInv` says that the chunk holds the bytes after those
released (`Numbered`) and that the frames follow it to the last byte sent (`Linked`); `UpInv` that what was handed
on ends where the reader is, less what is pending; `DownInv` the same of the origin's bytes. The lemmas on `Numbered` and
`Linked` say what `Append`, `Tail`, `SubSeq` and `Bytes` do to them. The step that matters is
`ReadEdge`: a copy moves `Taken + reader.position` on by what it copied whether the chunk is used up, its capacity
released and the position reset, or not. `AfterAxumCopy` would break exactly this.

## 7. Only model-checked, and not modelled

Model-checked only:

- Every liveness property: `TriesUnlessStuck`, `ImplementsConnector` (the fair half of the refinement), `LostConnectionEndsAttempt`,
  `DeadConnectionFreesRequests`, `DrainIsBounded`, `Exchange!Ends` (the other half of `ImplementsExchange`), `ReaderWoken`,
  `CloseEndsTasks`, `PushesAnswered`, `PumpEnds`, `RequestEnds`, `UploadReleased`. TLAPS proves no
  liveness under fairness and no `ENABLED`.
- `CredentialsRegister`: its inputs are classes of texts, so that TLC sees all of them; there
  is nothing for a proof to add.

Abstractions that a reader should know of:

- An attempt starts on a connection that exists; dialling and TLS are an error
  like any other to `Connector`.
- In the sessions the registration is one question and one answer. That it is
  several messages, and what they may go wrong with, is `Registration`.
- Duplicate, permanent and retryable are the errors told apart, because the run
  loop tells no others apart.
- Contents are left out: Cap'n Proto encoding, the values of HTTP headers beyond whether
  they are text, websocket handshakes.
- In `Requests` the libraries are assumed to do on drop what they document: quinn finishes
  the write half and stops the read half of a stream whose last handle is gone, h2 resets it
  behind the frames already queued, quiche does nothing. A reset drops what is buffered.
  A handler's stream is read and written to the end of its data, not byte by byte.
- In `EdgeDiscovery` names and bytes of a DNS message are left out, and with them
  `encode_name`, `skip_name` and `decode_name`: an answer is a port, of no interest, one
  the parser trips over, or one whose name it never gets to the end of.
- A handler that panics is left out. The task of `serve_requests` ends without `release` then
  (`serve.rs:57-61`), and over quiche its stream stays in the accepted set, which `AcceptedIsLive` would not allow.
- In `QuicheStreams` a segment is what one read takes. The comparison of the signature is a choice of
  the sender per segment, not of bytes. Writes only fail or succeed: the driver wakes blocked writers on
  every turn, so they are never stuck behind it. Websocket and TCP handlers are a
  handler that reads and ends.
- `SendStreamWriter` is a pipe of `Pipe` bytes that may break.
- In `Configuration` the consumer gave a callback, and the versions the edge pushes
  are distinct and rising. A stream that is reset is reset in both directions.
- `NoUnservedConnection` is stated for quinn. With quiche the driver task holds the
  connection too, and a failed registration leaves it behind; no sentence of the
  repository promises otherwise.

Not modelled, with reasons, are the components marked so in `PROJECT.json`: entry points, TLS, generated
code; and in others the HTTPS exchange of the quick tunnel, Cap'n Proto encoding, the axum
request body, accessors. More than half of the repository's lines are generated Cap'n
Proto code, and a good part of the rest is tests and examples, which a model does not
translate.

## 8. Plan

What is left to model waits for the code: a bound on the pointers of `decode_name`, after which
`ParserLoops` and `stuck` go and `TriesUnlessStuck` is `KeepsTrying`; and `poll_write` of quinn with two writers, once something writes from
two tasks.

Every safety property the passing runs check has a theorem. What could be added to the proofs:

1. An abstract `Pump`: a pair of bounded channels that the pump implements in each direction.
2. The session's registration as an instance of `ControlExchange`, which needs both to share
   the variables of the question.
