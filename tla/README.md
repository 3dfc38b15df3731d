# Verification of doormat

doormat is a C++14 library for HTTP/1.x and HTTP/2 servers and clients on top
of boost::asio.  This directory holds TLA+ models of its core, the TLC
configurations that check them, and TLAPS proofs about them.  `PROJECT.json`
lists the runs, the lines of source behind every definition, the disagreements
found between code and documentation, the hazards, and the theorems.

## The system

One `io_service` thread runs everything.  Concurrency is therefore not between
threads but between completion handlers, posted closures, timers and the calls
users make from their callbacks: every handler is atomic, and they may run in
almost any order.

| Component (under `src/src`) | State | Operations | Talks to | Should guarantee |
|---|---|---|---|---|
| `connector.h` | socket, `_out`, `_writing`, `_stopped`, `_ttl`, one `_timer` | start, read loop, write loop, set_timeout, stop, destructor | handler (`on_read`, `on_write`, `write_feedbacks`, `on_connector_nulled`) | bytes in order; truthful feedback; deadline never lost; a stopped connector goes away |
| `utils/reusable_buffer.h` | `mem`, `wr`, `rd`, `bound` | reserve, produce, consume | connector | loses and overwrites no byte |
| `protocol/handler_http1.h` (server) | `local_objects`, `remote_objects`, codec pair, `serialization`, `pending_clear_callbacks`, flags | decoder callbacks, notify_local_content, close, on_connector_nulled | connector, codec, request/response objects | whole responses in request order; each request and response told its outcome once |
| `protocol/handler_http1.h` (client) | the same, roles swapped | the same, with 100 Continue | connector, client request/response | as above |
| `http/server`, `http/client` requests and responses | partial message, `ended`, callbacks | headers, body, trailer, end, send_continue, error, cleared | handler, user | events in order, one terminal event |
| `http/http_codec*` | encoder state, `_chunked`, parser state | encode_*, decode | handler | well formed messages |
| `http/client/client_connection_multiplexer` | weak list of handlers, periods, tick count | get_handler, on_timeout, timeout, close | one client connection | every handler gets its own timeouts and all errors |
| `network/communicator/dns_communicator_factory` | `stopping`, `dead`, per call: resolver, socket, two timers | get_connector, stop, destructor | user (connector_cb, error_cb) | one answer per call; nothing after destruction |
| `http2/session*`, `http2/stream*` | nghttp2 session, streams, body buffers | nghttp2 callbacks, flush, die, go_away | connector, nghttp2, request/response | one outcome per stream; deferred data resumed |
| `http_server`, `handler_factory`, `utils/sni_solver` | acceptors, `running`, handshake timers, certificates | start, stop, accept, negotiate, choose a certificate | connector, OpenSSL, user | an open port is served; the certificate fits the name |
| `http/http_structured_data`, `http_request`, `http_response` | headers, length, chunked, keep-alive, protocol | setters, serialisation | codec, HTTP/2 streams | the head says what the members say |
| `http_parser`, `utils/utils`, `utils/base64`, `utils/date.h` | parser state | parse, convert | codec, messages | texts and dates mean what they say |
| `http_client`, logging | – | glue, I/O | – | – |

What is hard here, and what the properties aim at:

* bytes and feedbacks queued while a write is in flight (a lost wake-up hangs
  the connection silently);
* one timer for reads and writes, which also keeps the connector alive;
* completions queued before `stop()` that run after it;
* pipelined responses that the user completes in any order, drops, or
  completes before the request has arrived;
* malformed requests in the middle of a pipeline, closes from inside a
  callback, resets at any point;
* timers racing the operation they guard, and objects destroyed while their
  handlers are queued; a late timer that cancels the socket of a connector which
  is open and was handed out already;
* user callbacks that run in the middle of a loop over the lists they change;
* answers matched to requests by their position in a list that other events
  empty;
* HTTP/2 streams whose data source sleeps until somebody wakes it, and which
  are destroyed by whoever comes last;
* messages cut into reads at any place, and lengths at the edge of their type;
* a server stopped and started while its handlers are still queued.

## Modules

| Module | Content |
|---|---|
| `Connector` | state and actions of `server::connector`, with the part of a handler it calls back into |
| `ConnectorSpec` | the connector with the most general handler; properties and the inductive invariant `ConnInv` |
| `OrderedDelivery` | abstract specification: what a connector promises |
| `ConnectorProofs` | proofs about `ConnectorSpec`, including the refinement of `OrderedDelivery` |
| `Http1Server`, `Http1ServerProofs` | the server side HTTP/1 handler with its request and response objects; EXTENDS `Connector`; the proofs EXTEND `ConnectorProofs` |
| `Http1Client`, `Http1ClientProofs` | the client side HTTP/1 handler with its request and response objects |
| `ClientMultiplexer`, `ClientMultiplexerProofs` | several users of one client connection with one timer |
| `Http2Server`, `Http2Client`, `Http2ServerProofs`, `Http2ClientProofs` | sessions and streams between nghttp2 and the user |
| `HttpParser` | `http_parser_execute` and the decoder of `http_codec` on it; EXTENDS `HttpUrl` |
| `HttpUrl` | `http_parser_parse_url`, character classes, comparison of texts |
| `HttpEncoder` | the texts `http_codec` encodes |
| `HttpServer`, `HttpServerProofs` | accept loops, handshakes, protocol negotiation, certificates |
| `Messages`, `PartsProofs` | the setters and the serialisation of messages |
| `Utilities` | host and port of a URL, base64 |
| `Calendar`, `PartsProofs` | the algorithms of `date.h` |
| `ReusableBuffer`, `PartsProofs` | the read buffer |
| `DnsConnectorFactory`, `PartsProofs` | one `get_connector` call |
| `MC*` | small instances for TLC; `MCLibraries` lets `Messages`, `Utilities` and `Calendar` walk one at a time |

Definitions whose comment starts with "As X, but" are mutated forms of X: a
plausible mistake in that piece of code.  No specification uses them; they are
there to show that each property can fail.

### Connector

`alive`, `stopped`, `writing`, `out`, `ttl` are the members of the class.
A read is `rd`: none, pending, or its handler running.  The timer is split in
`armed` (a wait that `cancel` can still recall) and `fired` (its handler is
queued and `cancel` comes too late).  `ser` and `pcc` are the handler's
`serialization` and `pending_clear_callbacks`; `fb` is what a write's
completion handler has captured.  `sent`, `wire`, `acked` and `nacked` record
history.

A byte is an item `[id, part]`: an encoded part of a response.  `Submit`
models a visit of the handler's loop: the parts are appended one by one with a
`do_write()` after each, of which only the first can start a write.  A write
that fails or is cancelled may have delivered any prefix of its bytes.
Completions with success are possible after `stop()`, because a queued handler
cannot be recalled.  `cut` and `SocketCanceled` are the connect timer of
`dns_communicator_factory.cpp:83`, whose handler was queued when the connection was
established: it cancels the read and the write of a connector that is open, and the
completion handlers then take the branch they take after `stop()`
(`ReadCanceled`, `WriteCanceled`): no `stop()`, no new read, no `do_write()`.
`WriteDropped` is the state this leaves until the next `do_write()`; `NoStuckBytes`
and `DeadlineArmed` allow it and nothing else.  The rest of a cancelled write is
given up and leaves a gap on the wire, which is why `sent` forgets those bytes and
`OrderedDelivery` has a step that drops them.  `Unreferenced` captures shared ownership: when no pending
operation holds the connector, the destructor is the next step.

`ConnectorSpec` lets a handler submit runs of parts for responses in
non-decreasing order, never after the end of a response; `Http1Server` is shown
to respect exactly that (`UsesConnector`).

### Http1Server

Requests and responses are numbered by arrival.  A response record has the
members of `http::response` that `get_state()` looks at, plus whether the user
still `held`s it, how far the user has got (`stage`) and the outcomes it was
told.  `Locks` is `weak_ptr::lock()`: it succeeds while the user, an `end()`
closure, the running closure or a feedback holds the object.  A request is the
sequence of events posted to it; closures run in the order in which they are
posted, so that is the order in which the user sees them.

Actions are: the user's calls (`Headers`, `Body`, `Trailer`, `SendContinue`,
`End`, `Drop`, `Close`, `OnTimeout`, `SetPersistent`), the posted closures
(`RunEnd`, `RunFeedback`), an iteration of `notify_local_content` (`PollFront`,
`PollContinue`, `PollExpired`), parser callbacks (`DecodingStart` ...
`DecodingFailure`), connector events and `OnConnectorNulled`.  `on_read` is
split at the parser callbacks because the user's `on_request` callback runs in
between and may answer, drop or close.  The loop of `notify_local_content` is
split to keep its actions small; nothing else runs meanwhile.

The user respects the protocol of a response: at most one 100 Continue first,
headers, at most one body, at most one trailer (chunked only, after a body),
end.  `env`, chosen among `Envs` when the connection starts, says what else may
happen to it: combinations of events that matter together, instead of all of
them at once.  `Http1Client`, `Http2Server`, `Http2Client` and `HttpServer` do
the same.

### Http1Client

The same template with the roles of the lists swapped: `locals` are requests to
serialise, `remotes` the responses waited for.  `q[n]` is transaction n, `evs[n]`
what its response has reported, each event tagged with the request its message
really answers.  The connector is reduced to what the handler sees of it: the
bytes waiting (`ser`), the write in flight (`fly`), what has arrived (`wire`), the
read (`reading`), stopped and gone.  A read or a write that had completed before a
`stop()` is still delivered after it, and in the circumstances "cancel" the connect
timer cancels both on the open connector, as in `Connector`.  The peer answers in order; `env` may let it send a 100
Continue, a message nobody waits for or a malformed one, drop the connection,
and let the user drop a request, close or set a timeout.  `broken` records the
use of an empty list or of a handler that is gone.

A call of the user changes its request and enters `polling`; the loop of
`notify_local_content` then takes one step per state that `poll_local` meets
(`PollHeaders`, `PollBody`, `PollEnd`, `PollPending`, `PollExpired`), each with the
`do_write()` the code makes there, and no handler runs until it ends.  `PollEnd`
calls `cleared()`, that is, the user's `on_request_sent`, before the request leaves
the list (`clearing`); the user may create transactions there and, in the
circumstances "nested", fill requests, which enters the loop again (`polling` is
therefore a stack, of at most `MaxDepth`), or close.  `ClearedReturns` then
removes whatever request is in front.  `Sent` is what the peer has received or, as
long as the connection is open, will receive.  The callbacks of a response are
posted and change no list of the handler, so they need no steps of their own:
what the user does in them it does between two handlers.

### ClientMultiplexer

`timeout_interval`, `self_periodicity`, `max_periodicity` and `tick_count` are the
members; a handler keeps the period it asked for, the one it was given, and when.
`EuclidLoop` is the loop of `GCD`, as a recursive function on pairs.
`clock` is the reference: the number of calls a handler must have had is
computed from it, not from ticks.  A tick is one action: the handlers' callbacks
run inside its loop, and what the user calls from them (a new timeout, a new
handler, `close()`, letting a handler go) happens in the model before or after
the tick.  Expired handlers are erased from the front of
the list only, as `clear_expired` does.

### Http2Server and Http2Client

`str[s]` is a stream: its own members, what nghttp2 will do with it next (`ng`),
what the user has done, and what the user was told.  nghttp2 is external: it
asks the data source of a stream that has room, sleeps when told to, closes a
stream when both sides have ended or one has reset it, and calls back from
inside `mem_send` and `mem_recv`.  On the server it also keeps the flow-control
windows of the peer, one per stream (`win`) and one for the connection (`cwin`): a
frame takes no more than they have (`FrameRoom`), a stream without a window waits
(`ng = "wait"`), and `RecvStreamWindow` and `RecvConnWindow` are the WINDOW_UPDATE
frames, after which `on_frame_recv_callback` writes again.  Windows that a SETTINGS
frame makes smaller are left out.  Requests of the client have no body, so it
needs no windows.  A flush is one action up to the write it
starts.  A response of status 101 takes the other branch of `flush()`: HEADERS
without END_STREAM, submitted again at every flush (`copies`), and no body.
On the server a body is a list of pieces copied into frames
(`DataSourceRead`, `CopyFirst`); on the client `nghttp2_submit_request` is given
no data source, so requests have headers only.  A GOAWAY makes the client drop the
requests the peer will not answer, and write if nghttp2 wants to; requests refused
inside `mem_send` close their streams and enter `do_write()` from there, whose
`mem_send` may replace the bytes the outer call was given (`RefusedLast`: the
last one also stops the connector).  `corrupt` (server) and `misused`
(client) record a nested send and a call on a destroyed stream; the behaviours
that follow are left unconstrained by the properties that name them.

### HttpParser, HttpUrl and HttpEncoder

The parser reads a stream of characters, cut into at most `MaxReads` reads at
any place.  A step is one state of `http_parser_execute`: states, header
states, flags, marks and the length (in `Bits` bits) are those of the C code,
and a callback runs the member function of `http_codec` it is bound to.  A
stream comes with the events a reader of RFC 7230 expects; they are derived
from a description of the message, not from its bytes.  Some of the streams are
made by `HttpEncoder`, so that the library reads what it writes.

### HttpServer

Accept chains are counted per acceptor, so that a restart may leave an old one;
a connection goes through accepting, handshake (with a timer that is off, armed
or queued) and serving.  Certificates are records of a common name and the names
they cover; `SniCallback` walks the loaded list in the order of its three loops.
OpenSSL and the socket layer are external.

### Messages, Utilities, Calendar

A message is its members; every action is one call of a setter on it, of
`status(code)` and `status(code, msg)` alike: a reason may be any text, also the
empty one.  What goes
out is `Serialize` for HTTP/1 and `RequestBlock` / `ResponseBlock` for HTTP/2, and the
properties compare it with the members, by which the connection acts.
`Utilities` reads every short text and compares the result with a definition by
position; base64 must decode what it encodes.  `Calendar` walks day by day with a
reference calendar that only knows the lengths of months, and compares every
conversion, sum and rounding of `date.h` with it.  The calendar is exact
arithmetic on integers, with 8 and 16 bit members where the code has them.

### ReusableBuffer

Pointers are offsets; a memory cell holds the number of the stream byte last
written to it, so "nothing lost, repeated or overwritten" is a statement about
`mem`.  `EvalOrders` is the set of orders in which the two arguments of
`boost::asio::buffer(wr, avail_mem())` may be evaluated: GCC takes the last
first, the language leaves it open.  `Consume` is called as the connector calls
it: for bytes in use and with no read outstanding.

### DnsConnectorFactory

`op` is the asynchronous operation of the current stage, pending or queued with
its result; each timer is off, armed or queued.  A plain socket is shared by
all attempts, so the queued timer of one attempt cancels the next one.  For TLS
`boost::asio::async_connect` walks the endpoints itself; a cancel aborts the
current endpoint only, and the operation may go on with the next (modelled as a
choice, from how the library is used).

## Runs

Passing runs:

| Run | Instance | Shows |
|---|---|---|
| `connector` | 2 responses, 5 runs of parts, 3 bytes, no late timeout, a late cancel or none | no lost wake-up or deadline but after a cancelled write, truthful feedback; refinement of `OrderedDelivery`; a stopped connector is destroyed |
| `reusable_buffer` | 4 cells, 9 bytes | no byte lost, reserved memory free and inside |
| `http1_server` | 2 requests, 8 combinations of events | whole responses in order; truth, uniqueness and completeness of outcomes; the handler is a client of `ConnectorSpec`; responses that were ended are reported |
| `dns_factory` | 3 endpoints, plain and TLS | one end per call; every call answered |
| `http1_client` | 3 transactions, one chunked, 2 messages of the peer, calls from `on_request_sent` one level deep, 8 combinations | whole requests in order; answers matched; outcomes true and complete |
| `client_multiplexer` | 3 handlers, periods 4 and 6, clock to 8, 2 closes | schedules survive rescaling; the end reaches everybody registered |
| `http2_server` | 2 streams, bodies of up to 2 bytes in frames of 1, windows of 1 or 5, 7 combinations | sleepers are woken, bytes in order, ended responses finished as far as the windows allow, nobody forgotten, no use after destruction |
| `http2_client` | 3 requests, limit of 2, 4 combinations | events in order, requests sent when allowed, nobody forgotten, no stream left |
| `http_parser` | the streams of `MCHttpParser`, up to 3 reads, lengths of 8 bits | the codec reports what was sent and rejects what is malformed; assertions hold |
| `http_server` | 2 clients, 3 certificates, 2 starts, 3 combinations | an open port is served; certificates fit; handshakes are timed |
| `libraries` | all short sequences of setters, all texts of up to 4 further characters, 395 days from each of 9 corners | messages, texts and dates agree with their reference definitions |

Bounds.  Two responses are enough for one to be in flight while the next waits,
and for the front and the back of a list to differ; the client has three
transactions because a mismatch shifts answers by one and the second has to be
in the middle.  Three bytes allow a write in flight, a byte waiting behind it, and
an end that comes later.  A buffer of four cells and nine bytes wraps around
twice.  Three endpoints allow a stale timer to meet a later attempt.  Periods 4
and 6 have a common divisor that is neither.  Three requests under a limit of
two make one wait.  Pieces of one and two bytes, in frames of one, make one that
fills a frame exactly and one that needs two; windows of one byte (`SmallWindow`)
make every longer body wait, for its own or for the connection's, and windows of
five (`LargeWindow`) none.  A loop entered from `on_request_sent` (`MaxDepth = 2`) is enough for it to
remove what the outer one looks at.  Three reads cut every text of a message twice; eight bits let a
length overflow with three digits, and `MaxHeaderSize` and `MaxUriLen` stand for
the 80 KB and the URL limit of the code.  395 days from a corner cross every
month, a leap day and an era or century; times of day go with days up to
`MaxTimeDay` because TLC's integers have 32 bits.  The bounds are `MaxSent`,
`MaxDepth`, `MaxReq`, `MaxBytes`, `MaxEndpoints`, `MaxMsgs`, `MaxEvents`, `MaxClock`, `MaxCloses`,
`MaxBody`, `MaxReads`, `MaxStarts`, `MaxSame`, `MaxLength`, `MaxText`,
`Window` and `MaxTimeDay`.
Deadlock is not checked: a connection may really end.  Symmetry (handlers,
clients) is used only in runs without temporal properties.

One run shows a violation (quotes and lines in `PROJECT.json`):
`dns_factory_twice`, where one call is answered by two callbacks.

Further deviations, which TLC shows in the same models.  Where a property is
named, it is defined in the module and no passing run claims it; to see it
fail, name it in the configuration of the run, with the constants given:

| Module: property | Constants | What TLC finds |
|---|---|---|
| `ConnectorSpec`: `StoppedIsDestroyed` | `LateTimeout = TRUE` | a timeout set after `stop()` keeps the connector alive for ever (`connector.h:116`) |
| `ReusableBuffer`: `ReservedIsFree` | both orders in `EvalOrders` | the other evaluation order of `reserve()` hands out memory past the end (`reusable_buffer.h:48`) |
| `Http1Server`: `NobodyForgotten` and `OneOutcome` without their restriction | `Envs = {{"fail"}}` | a malformed request after an unanswered one: `decoding_failure` fails the last response, which stays in the list and may fail again, and removes the first, which is never told (`handler_http1.h:116`) |
| `Http1Server`: `EndedIsAnswered` without its restriction | `Envs = {{"continue"}}` | a response completed while it waited is stuck behind its own 100 Continue (`handler_http1.h:477`) |
| `Http1Server`: `ShouldStopStops` | `Envs = {{"nonpersistent"}}`, `MaxReq = 1` | a connection that should stop is not stopped: the branch cannot be reached (`connector.h:225`) |
| `Http1Server`: `FailureFindsResponse` | `Envs = {{"fail"}}` | a request that becomes malformed after its response was sent: `decoding_failure` takes the back of an empty list (`handler_http1.h:116`) |
| `Http1Server`: `EndedNotMissing` | `Envs = {{"drop"}}` | a response ended and let go while it waits is reported as missing and fails the connection: `myself` is never set (`server/response.cpp:45`) |
| `Http1Server`: `ResponsesWhole` without its restriction (`~Torso`) | `Envs = {{"drop"}}`, `MaxReq = 3` | a response dropped after its headers leaves the encoder in the middle of a message and the connection open (`handler_http1.h:319`) |
| `Http1Server`: `NobodyForgotten` without its restriction | `Envs = {{"close"}}` | a request delivered by a read that completed before a user close never gets an outcome (`handler_http1.h:289`), and its response meets the encoder in the middle of another |
| `ConnectorSpec`: `NoStuckBytes` and `DeadlineArmed` without `WriteDropped` | | a write cancelled on an open connector: bytes that wait stay until the handler writes again, and the pending read has no deadline (`connector.h:271`) |
| `Http1Client`: `RequestsWhole` and `NobodyForgotten` without their restriction | `Envs = {{"nested", "fail"}}` | a request filled from `on_request_sent` enters the loop while the finished request is still in front: it is encoded a second time, which `encode_eom` asserts against, and the outer loop removes a request that is not complete (`handler_http1.h:359`, `:314`) |
| `Http1Client`: `NoUndefinedBehaviour` | `Envs = {{"nested"}}` | the same: `pop_front()` of an empty list, or the assertion |
| `Http1Client`: `RequestsWhole` without its restriction | `Envs = {{"cancel"}}` | a cancelled write loses part of a request and the connection stays open |
| `Http1Client`: `AnswersAreMatched` without `late` | `Envs = {{"close"}}` | a read that completed before `close()` brings the rest of an answer to the transaction created after it (`connector.h:194`) |
| `Http2Server`: `EndedIsFinished` without `WindowUsedUp` | `Envs = {{"window"}}` | an ended response larger than the window waits for WINDOW_UPDATE with no write in flight, as it must |
| `Http2Server`: `ClearedIsSent` | `Envs = {{"upgrade"}}` | a response of status 101 is told it was written although its stream never ends and its body is never sent (`stream.cpp:234`) |
| `DnsConnectorFactory`: `DeadNotUsed` | `MaxEndpoints = 2` | the handshake handler reads `conn_timeout` of a destroyed factory (`dns_communicator_factory.cpp:187`) |
| `Http1Client`: `ContinueKeepsMatch` | | after a 100 Continue the final answer goes to the next response (`handler_http1.h:508`) |
| `Http1Client`: `NoUndefinedBehaviour` | | `decoding_failure` on an empty `local_objects` (`:116`); the closure of a timeout runs after its handler is gone (`:44`) |
| `ClientMultiplexer`: `EveryHandlerHears`, `AskedIsGranted`, `ToldOnce`, `CallbacksHaveMultiplexer` | | a handler created after deregistration hears nothing (`client_connection_multiplexer.cpp:87`); a handler without a period gets the next one set (`:50`); closing twice tells twice; the callbacks hold a raw `this` (`:57`) |
| `Http2Server`: `TrailersAreSent` | | trailers of an ended response are not submitted when the body was sent before (`stream.cpp:212`) |
| `Http2Server`: `StreamsDestroyed` | | streams stay behind when the connection is lost, although `session.cpp:285` leaves them to nghttp2 |
| `Http2Server`: `OneSendAtATime` | | `on_stream_close_callback` enters `mem_send` from inside it (`session.cpp:344`) |
| `Http2Server`: `ClearedIsSent` | | a response is told it was written when a write completes that carried none of it (`session.h:61`) |
| `Http2Client`: `NoUseAfterDestruction` | | `die` is posted twice for one stream (`session_client.cpp:109`, `:259`, `:384`) |
| `Http2Client`: `HeadersOnce` | | interim headers and trailers are reported as headers again (`session_client.cpp:298`) |
| `HttpParser`: `UrlWhole` | | a URL that comes in two reads is parsed piece by piece (`http_codec_impl.h:141`) |
| `HttpParser`: `VersionIsCurrent` | | every message has the version of the first (`http_codec_impl.h:194`) |
| `HttpServer`: `CommonNameFirst` | | the pass over common names that the comment at `sni_solver.cpp:169` announces compares with an empty name |
| `HttpServer`: `ServedIsNotCut` | | a timer queued while the handshake completes cuts the served connection (`http_server.cpp:108`) |
| `HttpServer`: `OneAcceptChain`, `StartDoesNotThrow`, `NoStaleContext` | | after stop and start an old accept chain goes on beside the new one (`:129`); an endpoint that cannot be bound after another was throws out of a `noexcept` function (`:198`); the old chain uses the context of certificates that were replaced (`:64`) |
| `Messages`: `OneFraming`, `ConnectionHeaderCounts` | | a length set by hand, or of 0, on a chunked message announces both, which the library's own parser rejects; a connection header written by hand does not change `keepalive()` |

Read off the code while modelling, without a property: after its read was
cancelled an open connector never reads again: it is destroyed without a `stop()`
when its last write ends and no timer is armed, or lives until its timer expires
(`connector.h:211`); a response whose first bytes a cancelled write gave up is
reported as written when its last ones are; `socket->cancel()` throws on a socket
that was closed meanwhile (`dns_communicator_factory.cpp:87`); the HEADERS of a 101
are submitted again at every flush; a handler created from a timeout callback
changes the list the tick walks over; a frame that is full
with bytes left for exactly one more ends the stream and cuts them off
(`stream.cpp:181`); the client never sends the body or trailers of an HTTP/2
request (`stream_client.cpp:203`); the target of CONNECT is never parsed; two
trailers make two ends (`http_codec.cpp:46`); a response delimited by the end of
the connection never completes; a start line of HTTP/0.9 or 2.x meets
`assert(http_major == 1)`; "transfer-encoding: Chunked, gzip" is not read as
chunked; `std::stoull` throws out of a `noexcept` setter when a length is not a
number; `http_response::operator!=` compares the reason the wrong way round
(`http_response.cpp:86`); `remove_header` and `has` do not lower the case of a name;
the log level "info" is not recognised.

Fairness.  `io_service::run` eventually runs every queued handler, cancelled
operations complete, an armed timer expires, and a decoder given bytes returns.
In `http1_server` the peer also takes the bytes written to it or resets; in
`connector` and `dns_factory` nothing is assumed of the network.  Nothing is
assumed of the user anywhere.  The other specifications have no fairness: what
must happen is stated there as an invariant of the quiet states ("nothing is in
flight and yet ..."), which needs none.

## Proofs

TLAPS proves, for every value of the constants (any number of requests,
streams, handlers, connections, certificates, any buffer size, any period, any
set `Envs` of circumstances):

* `ConnectorProofs`: `ConnInv` is inductive; from it follow `NoStuckBytes`,
  `DeadlineArmed`, `OneFeedback`, `AckedIsDelivered`, and that `ConnSpec`
  implements `OrderedDelivery`.  `AckedIsDelivered` is not inductive: it needs
  to know where every submitted byte is (`Located`), how far the bytes of a
  response can be in each stage of its feedback (`Feedbacks`, which also says
  that nothing is submitted for a response after its end), and that the stages
  are disjoint (`Apart`).  `Open` and `NothingInFlight` tie them to the state
  of the connector.  A cancel on the open connector is part of the invariant:
  `Open` says that a read is missing only then, and what was given up is taken out
  of `sent`, so that `Located` goes on to hold behind the gap.  Assumptions: `Ids` are naturals, runs are sequences of
  parts, the bound is a natural.
* `Http1ServerProofs`: `SrvIInv` is inductive and implies `ResponsesWhole`,
  `ClearedIsDelivered`, `OneOutcome`, `RequestEventsInOrder` and
  `NobodyForgotten`; and every step of the handler is, on the variables of the
  connector, a step of `ConnectorSpec` (`UsesConnector`), so that the theorems
  about the connector apply below this handler.  `ConnInv` is part of the
  invariant and is kept by the lemmas of `ConnectorProofs`.  The other parts:
  `Queues` (`local_objects` is the run of the latest requests and none of them
  was serialised to its end, `remote_objects` is empty or the request being
  decoded), `Events` (the events of a request are one of the finitely many
  sequences its decoder state allows), `Stage` and `Outcomes` (what a response
  holds at each stage of its user; a response that was told its outcome is in
  no list, one that was not and is still held is in one), `Bounded` (parts sent
  and parts still to come of the front response stay within five per request,
  which `UsesConnector` needs), `Serial` (what is left of the front response
  continues the last byte submitted, and the encoder is in the state that byte
  left), `Whole` (adjacent bytes among those that can still reach the peer
  belong together), `EncoderOK` and `Threads` (who runs).  `ResponsesWhole`
  speaks of the wire only; it takes `Whole` on all that was submitted, and
  `Whole` is kept by a submission only because of `Serial`.  After `stop()`
  nothing submitted can reach the peer, so `Whole` is about `Reach`, what
  already left; that is why a malformed request, after which the lists no
  longer match, cannot spoil the wire.
* `Http1ClientProofs`: `H1CInv` is inductive and implies `RequestsWhole`,
  `AnswersAreMatched`, `ClearedIsDelivered` and `NobodyForgotten`, for any number
  of transactions and messages and any depth of calls from `on_request_sent`; the
  only assumption is that the bounds are naturals and that chunked requests are
  requests.  `LoopOK` says what the loops on the stack know of the list; while the
  user may enter them from `on_request_sent` it is little, and `SentOK` is only kept
  without that and without cancels (`Gentle`).  None of the four is
  inductive.  `RequestsWhole` is about neighbours in `Sent`; a piece added at the
  end fits because everything sent before belongs to the front request or to one
  that is over (`SentBefore`) and because the flags of a request in the list say
  which of its parts were sent (`SentOf`, `RequestOK`).  While the connection is
  open, what is on its way counts; once it is not, only what has arrived
  (`SentStopped`), so a malformed answer, after which the list no longer fits the
  bytes, cannot spoil them.  `AnswersAreMatched` needs that the responses in the
  list are those after the last answer, or from it on while it is being received
  (`MatchOK`, until a close: what is read after it may go to a response that was
  created late), which holds because an answer comes only to a request whose
  headers have arrived, hence was created (`ReceivedFacts`).
  `ClearedIsDelivered` needs that a feedback in the write in flight has no bytes
  behind it (`WriterOK`), and `NobodyForgotten` that whoever has not been told is
  in a list that `on_connector_nulled` empties (`TellOK`, `EventsOf`).
* `HttpServerProofs`: `SrvInv` is inductive and implies `ServedWhileRunning`,
  `CertificateFits` and `HandshakeIsTimed`.  A certificate is chosen among those
  loaded when the name arrives, the list only grows, and the earlier choice
  stays right (`Certified`); a handshake is shaking only with its timer armed,
  queued or done (`Timed`).  `SniCallbackFits` is about the three loops of the
  callback.  Assumptions: the empty name is no host and has no wildcard, and
  certificates cover hosts.
* `ClientMultiplexerProofs`: `GCDIsGreatest` says that `EuclidLoop`, a recursive
  function on pairs, computes the greatest common divisor; `MuxInv` is
  inductive and implies `FiresOnSchedule` and `EndIsBroadcast`.  The function
  is first shown to exist: the map from a pair to its greatest common divisor
  satisfies the recursion.  Then the pair with the least second component for
  which the claim fails leads to a smaller one.  Rescaling is the hard step:
  when the tick changes, `TicksAddUp` and `AllScheduled` survive because the new
  tick divides the old one and every period.
* `Http2ServerProofs`, `Http2ClientProofs`: `H2IInv` and `H2CIInv` are inductive
  and imply `H2Inv`, `BodyInOrder`, `NobodyForgotten`, `EndedIsFinished`, and
  `H2ClientInv`, `NobodyForgotten`, `RequestIsSent`.  Almost everything is said
  of one stream at a time (`StreamOK`) and kept by each function that computes
  a stream's next record; two facts relate streams to the session:
  nothing that could be sent within the windows waits while no write is in flight
  (`NothingQueued`), and everyone was told when the connector is gone.  A write that
  finds nothing to send puts every stream it asked to sleep, either for the user
  or for the window (`SleptOK`), and a frame never exceeds the windows
  (`FrameRoomOK`).  On the server `ChunksOK` says where in
  which piece of the body the data source is.
* `PartsProofs`: `BufInv` is inductive and implies `BytesKept`,
  `ReservedIsFree` and `ProducedIsReserved`, for every size, assuming the
  arguments are evaluated right to left.  `Shape` relates `bound` to the
  pointers, `Outstanding` says that nothing moves the write pointer between
  `reserve()` and `produce()`.
* `PartsProofs`, second part: `DnsInv` is inductive and implies
  `AnsweredOnce`, `EndIsReported` and the action property `DeadIsSilent`, for
  any number of endpoints.  `CanceledIsReported` is the key: an operation is
  only ever cancelled by a timer that reports.
* `PartsProofs`, third part: `CalInv` is inductive and implies `CalendarAgrees`
  (`DatesAgree`, `MonthsAgree`, `TimesAgree`), for any first day, any number of days,
  months and times of day, as long as the years are shorts (`CalendarAssumption`:
  the first days are valid dates with their number and weekday, and no walk leaves
  the years that `year` can hold).  `CalInv` says that the date is valid and that
  `to_days` and `weekday_from_days` give its number and weekday.  The argument:
  `to_days` is linear in the years counted from March, the eras cancel
  (`ToDaysIs`), so the day after is the next number (`TomorrowIs`); the correction
  terms of `from_days` find the year of the era (`YearOfEraIs`) and its month
  (`MarchMonthIs`), so `from_days` undoes `to_days` (`FromDaysIs`); a
  later year starts at least 365 days later, so every number in range is that of a
  year that is a short (`YearIsShort`).  Months are arithmetic modulo 12 with a
  carry (`MonthSteps`), which wraps with the short (`ShortIs`).
* `PartsProofs`, fourth part: `HeadInv` is inductive and implies `HeadAgrees`, for
  any names, values, lengths and codes and any number of calls.  `HeadAgrees` is
  about what is sent; `HeadInv` is about what is kept, one conjunct for each fact
  that is kept twice: which values the connection header has (as long as
  `keepalive()` was not called, those that `protocol()` gave it), that the encoding is
  exactly the flag, that the length is absent or that of the member, that a chunked
  message has a length of zero or none, and that no encoding is the empty text, by
  which `has()` would miss it.  One lemma gives the fields that `header()` and
  `remove_header()` leave (`HeaderFields`, `RemoveFields`), one for each setter is
  built on it, and one for each call shows that it preserves `HeadInv`.
  `MessagesAssumption`: a user writes a length without leading zeros and gives no
  empty encoding; the rest are facts about texts that the prover cannot compute
  and TLC does (numbers are printed differently, `icompare` takes `Chunked` for
  `chunked` and not `trailers`).

Every inductive invariant was checked by TLC before it was proved, on the
instance of the component's run; `SrvIInv` also with three requests, as far as
2.6 million states.

Only model-checked:

* liveness (`StoppedIsDestroyed`, `EndedIsAnswered`, `EventuallyAnswered`): the
  prover has no fairness;
* `HttpParser`, `Utilities` and `TextsSort` of `Calendar`: properties of
  texts compared with a reference definition over bounded inputs, which are
  inductions over data (the number of digits or of characters).

## Not modelled, and simplifications

* `utils/json.hpp`, which nothing but a test includes; logging; allocation hooks;
  the example programs; compiler probes under `CMakeFiles`.
* nghttp2, OpenSSL and boost::asio, except as the code uses them.
* In `http_parser.c`: pausing, upgrades and the lenient build, which `http_codec`
  does not use; method names beyond those of the streams.  In `date.h`: the
  comparisons other than `operator<` (of days, months, years and the dates made of
  them), operators that only forward to another one, and literals.
* TLS bytes and the encoding of protocol lists; header compression.
* What the user does inside `connection::on_error`; the error is reported but
  the model's user does not react within it.  The same goes for the callbacks of
  the multiplexer's handlers.
* In `http_server.cpp:106`, the case of a cancelled handshake: nobody cancels a
  socket during its handshake, the timer shuts it down.
* A cancel of the open connector's socket is modelled in `Connector` and
  `Http1Client`, not in `Http2Client`; sockets of a server come from an acceptor and
  are cancelled by nobody.
* SETTINGS frames that change the windows of open streams.
* In `Http1Server`, the timeout callback: the closure posted by
  `trigger_timeout_event` captures a raw pointer.  `Http1Client` has it.
* `Http1Client`, `Http2Server` and `Http2Client` are not composed with `Connector`;
  they use the part of it that `Http1Server` shows a handler to depend on.
* The ALPN byte strings of `dns_communicator_factory` and its `chose_protocol`.
* The handlers of cancelled timer waits hold the connector until they run; the
  model lets go of it when the wait is cancelled.
* The order among feedback closures posted together (they cannot notice it).

## Plan

Every invariant of a protocol component that a run checks is proved, and those of the
messages, the buffer and the calendar.  What could
follow:

* composing `Http1Client`, `Http2Server` and `Http2Client` with `Connector`, as
  `Http1Server` is, so that the order of its callbacks need not be restated;
* the timeout callback of `Http1Server` that is posted with a raw pointer;
* a prover with fairness, for the liveness properties, and with induction over
  sequences, for `HttpParser` and `Utilities`.
