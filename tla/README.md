# A TLA+ development for azugate

azugate is an HTTP(S) gateway: a Go application layer (`cmd/`, `internal/`,
`core/binding/binding.go`) configures a C++ core (`core/`) that accepts
connections, filters and rate-limits them, and forwards each request to a target
or answers it from a local file. This directory models the core in TLA+, checks
it with TLC on small instances and proves the main safety properties with TLAPS
for all instances.

## 1. The system

| Part | Source | State | Operations |
|---|---|---|---|
| Rate limiter | `core/src/rate_limitor.cc` | atomic `n_token_`; limits in `config.cc` | `GetToken`, `tick`/`performTask`, `ConfigRateLimitor` |
| Router | `core/src/router.cc`, `binding.go` | `g_exact_routes`, `g_prefix_routes`, one `next_index` per route | `AddPathMatchRoute`, `AddPrefixMatchRoute`, `GetRouteTarget`, `GetNextTarget`, `RemoveTarget` |
| Server, filter, dispatcher | `core/include/server.hpp`, `core/src/filter.cc`, `core/src/dispatcher.cc` | outstanding `async_accept`s, the io_context's threads | `accept`, `onAccept`, `Filter`, `Dispatch`, `SslHandshake` |
| Proxy handler | `core/include/services.hpp` | one handler per connection: `total_parsed_`, `extra_body_len_`, buffers | `parseRequest`, `onRead`, `route`, `handleHttpRequest`, `handleLocalFileRequest`, `Close` |
| Configuration | `core/src/config.cc` | `g_*` globals, `g_config_mutex` | getters and setters of `config.h` |
| Local files, compression | `services.hpp`, `core/src/compression.cc` | file stream, deflate state | `compressAndWriteBody`, `GzipStreamCompress` |
| WebSocket relay | `services.hpp` | two streams | `handleWebSocketRequest`, `onWebSocketRead` |
| Health checks | `core/include/worker.hpp` | `g_healthz_list` | `StartHealthCheckWorker`, `healthz` |
| Socket parser | `core/src/http_parser.cc` | `io_buffer_` and its indices, `state_` | `ParseSocketStream`, `ParseFileStream`, `ParseByte` |
| Start-up, OAuth, proto | Go sources, `proto/` | configuration | `NewAzugate`, `main` |

How they interact: `NewAzugate` fills the route tables, then `azugate_start` makes
the `Server`, whose constructor starts the limiter's timer and whose `Run` arms the
first accept and starts `g_num_threads` threads on one `io_context`. Accept
completions, read completions and the timer share those threads. `onAccept` calls
`Filter` and `Dispatch`; `Dispatch` asks the limiter, does the TLS handshake and
starts a handler; the handler reads the header asynchronously and does everything
else (resolve, connect, body, response, file) with blocking calls. Both `Dispatch`
and the handler call `Server::accept` again through the callback they are given.

What makes it hard: lock-free accesses to the token counter and to `next_index`;
the refill's load and store; completions, timer and administrator in any order;
blocking calls on a bounded pool of threads; requests and answers that are cut into
pieces of any size; `size_t` differences; files, lists and switches that change
between being looked at and being used; error paths that must all re-arm the
accept. `PROJECT.json` lists these hazards with their lines.

## 2. The modules

| Module | Models |
|---|---|
| `RateLimiter` | `TokenBucketRateLimiter`, one action per atomic access |
| `RouteAction` | `struct RouteAction` as operators on a record |
| `RoundRobin` | one `RouteAction` with concurrent, unlocked callers |
| `Router` | the route tables, their configuration, concurrent lookups |
| `Gateway` | server, filter, dispatcher and the life of handlers, composed with `RateLimiter` |
| `Handler` | what all handlers have in common, one phase per blocking call (an abstract specification) |
| `HttpForward` | the bytes of one proxied request |
| `LocalResponse` | the answer to a request for a local file, from its headers to the last chunk |
| `WebSocketRelay` | one WebSocket session; both directions implement `Pipe` |
| `Pipe` | what a relay promises of one direction (an abstract specification) |
| `ConfigStore` | the lists of `config.cc` with and without their lock, and the health-check thread |
| `HttpParser` | the byte-wise parser of `http_parser.cc`, checked against a reference definition |
| `*Proofs` | theorems about the module of that name; those about `RateLimiter` are in `GatewayProofs` |
| `MC*` | constants and symmetry sets for TLC |

A comment that begins with "Slip" marks a faulty variant of the definition after
it. The specifications do not use these; each run is repeated with one of them put
in place of the original, and must then fail, which shows that its properties
depend on the code they are about.

**RateLimiter.** `GetToken(c)` is the `fetch_sub` with its test, `GiveBack(c)` the
`fetch_add` of a refusal; `TickReadConfig`, `TickLoad`, `TickStore` are the steps of
`performTask`, the last one re-arming the timer. `WordSize` stands for 2^64. The
history variable `ledger` records the last stored value and the calls since.
`Callers` are activities that may be in `GetToken` at one time.

**RouteAction, RoundRobin, Router.** `GetNextTarget` is three steps: the read that
picks the target, the read for the successor (which a compiler may merge with the
first: `Reload` allows both), the store. An index beyond the list yields
`OutOfBounds`. A new exact route takes its `next_index` from `Garbage`, since
`AddPathMatchRoute` default-initialises it. `Candidates` follows the tests of
`GetRouteTarget` literally; where they read past the end of the URL, `strayed`
chooses the outcome. `RemoveTarget` has no caller in the program; `RoundRobin`
lets it be called while no thread is choosing. A URL is a sequence of characters
of which only "/" matters, and `normalizeURL` is computed, not assumed.

**Gateway.** A connection has an accept side (`accept`: new, backlog, ready, then
the steps of `onAccept` and `Dispatch`; "owe2"/"owe1" count the `accept()` calls
still to come) and a handler side (`handler`: reading, readable, then one state per
blocking call). `Busy` counts the threads in use and `ThreadFree` guards whatever
needs one to start. `AcceptDone`, `AcceptFails`, `Connect` are the kernel's. The
administrator calls the setters of `config.h` at any time; nothing in the
repository calls them yet, and `proto/config_service.proto` announces a service that
would. What a read brings (`Arrivals`) abstracts the parser, `extractMetaFromHeaders`
and the lookup. `LocalThrows` is `file_size` throwing for a file that vanished:
nothing catches it and the process ends.

**Handler.** The course of one `HttpProxyHandler` as the sequence of its blocking calls:
the header, then a 404, a local file or a forwarded request, and an end that every call can
lead to. Each connection of `Gateway` implements it, and so do `HttpForward` and
`LocalResponse` with their details. The mappings (`Phase`) are in the three proof modules.

**HttpForward.** Bytes are positions in the client's stream. `OnRead` is
`parseRequest` and `onRead` with the parser reduced to "the header is complete";
`SendExtraBody` keeps the buffer sizes and the `size_t` difference; `ForwardBody` and
`BodyDone` are the loop. The client may stop, close or send more than the body; the
target may answer at any time.

**LocalResponse.** A request is the sequence of its headers, each told by its effect on
`extractMetaFromHeaders`; the bytes of the file are counted. `stage` is the next call of
`handleLocalFileRequest` and of what it calls: `exists`, `file_size` (which throws for a
file that has gone), the two `write_some` of `SendHttpHeader`, `open`, then `sendfile`, the
TLS copy loop or the two loops of `GzipStreamCompress`. `Deflates` is what zlib documents
of `deflate`: it may hold output back until told to finish, and stops early only when the
output buffer is full. `compression_type_` starts with any code because it has no
initialiser. `damaged` and `touched` record that a write was partial and that the file
changed after it was measured; `FileChanges` and `SetHttpCompression` may happen between
any two steps. The chunk-size line points into a string that is already destroyed when it
is written; that outcome is part of `damaged`.

**WebSocketRelay, Pipe.** A session is the setup of `handleWebSocketRequest` and two loops,
each named by the end it reads from. `async_read` also answers pings with a write of its
own (`ReplyStarts`); since both loops share both streams without a strand, such a write may
overlap the other loop's, after which that end is `broken`: what it is sent is no longer a
sequence of frames. `Pipe` is instantiated once for each direction.

**ConfigStore.** An access to a list begins (`Enter`) and ends (`Leave`), under the lock if
the function takes it. `RemoveBlacklistIp` takes none: once it has overlapped another access,
the list may hold anything (`raced`). `memory` is the vector's block; `emplace_back` replaces
a full one, and a worker whose iterator points into the old one may read garbage
(`Strays`), as it may when the parameter it captured by reference is gone. `healthz` is one
step per blocking call, none of which has a timeout.

**HttpParser.** `NextByte` is one turn of the loop: a read if the indices have met, then
`ParseByte`. `ReadFromSocket` does not keep how much `recv` brought and an empty read of a file
leaves the indices apart, so stale bytes and bytes past the buffer are parsed; `ByteAt`
gives those any value. `ParsedRequest` reads the whole of the bytes at once where the code
goes byte by byte: two words, a version, then the lines between consecutive line feeds,
each a header split at its first colon, and a blank one at the end. The class has no
caller: `CallAgain` is an owner that tries again.

## 3. The runs

| Run | States | Shows |
|---|---|---|
| `RateLimiterOveradmit` | violation | `GrantsBacked` fails: a call inside another's refusal sees the wrapped counter |
| `RoundRobin` | 80,527 | `IndexSelectsTarget`: a stored index is in range under every interleaving; `Balanced`: the targets take turns as long as no two calls overlap |
| `Router` | 28,317 | `NoRouteLost`, `TablesNormalized`, `NoShadowedPrefix`, `PrefixTargetReal`, `IndexStaysInRange` |
| `RouterPrefix` | violation | `PrefixMatches` fails: the tests of the loop are inverted |
| `Gateway` | 1,277,720 | `AlwaysListening`, `AcceptLedger`, `HandlerAdmitted`; the limiter's `TokenLedger` and `BucketCap` inside the gateway, and the refinement `LimiterSpec`; `ConnectionAdvances`: no step takes a connection back on its way to its end |
| `GatewayLive` | 29,148 | `EveryConnectionCloses`; `RefillGoesOn`: the bucket is never empty for good, whatever limits are configured, zero included |
| `HttpForward` | 6,394 | `ForwardedInOrder`, `BodyComplete`, `RequestEnds` |
| `HttpForwardShort` | violation | `WholeBody` fails: the extra body exceeds the buffer |
| `LocalResponse` | 103,896 | `EndMeansWhole`: no half answer passes for a whole one; `SuccessIsComplete`, `BodyAsAnnounced`; `AnswerEnds` |
| `ConfigStore` | 369,896 | `ExclusiveButRemoval`, `BanTakesEffect`; `LockComesFree`, `TargetsChecked` |
| `WebSocketRelay` | 33,384 | the refinement `RelaysInOrder`, `CallbackPerEnd`; `MessageDelivered`, `SessionEnds` |
| `HttpParser` | 3.4 million | `BytesInOrder`, `ParsedRequest` against a reference definition; `CallReturns` |

Where a property names an exception, the exception is something the code really does:

- `ForwardedInOrder` and `BodyComplete` are stated for an extra body that fits the
  4096-byte buffer (`ExtraFits`; `HttpForwardShort` shows what happens otherwise), and
  `RequestEnds` for one that is also no longer than the body (`ExtraIsBody`): bytes of a
  second request that arrive with the first are counted as extra body, and the `size_t`
  difference of line 628 then wraps.
- `IndexSelectsTarget`, `IndexStaysInRange` and `PrefixTargetReal` leave out the first pick
  of an exact route: `AddPathMatchRoute` makes `RouteAction router_entry;` without an
  initialiser, so its first `next_index` is indeterminate. The first store heals it.
- Calls of `GetNextTarget` that overlap may pick the same target twice: `next_index` has
  no lock, and `Balanced` promises nothing then.
- `AcceptLedger` states what the code does, not what one would want: the number of
  outstanding accepts grows with every connection, and by one more for local files.
  A WebSocket session, too, calls back twice (`CallbackPerEnd`).
- `EveryConnectionCloses` and `RefillGoesOn` end with the process, which ends when
  `file_size` throws.
- `SuccessIsComplete` excepts partial writes, which `write_some` and `sendfile` report as
  successes, a file that changed, and a `compression_type_` that was never set;
  `BodyAsAnnounced` excepts only the last.
- `BanTakesEffect` excepts lists an unlocked removal has damaged; `TargetsChecked`
  excepts a silent target, which stops the thread for good, and a worker that strayed.
- `BytesInOrder` excepts what follows a short `recv` or an empty read of a file.
- `MessageDelivered` excepts streams broken by overlapping writes.

**Bounds.** In `RateLimiterOveradmit` a word of 8 values lets a second caller see the
wrapped counter; `MaxGrants` bounds the grants between two
refills, beyond the tokens there are. Two threads suffice for a race on one index;
three targets and seven picks go round the list twice. Three of eight routes cover
every pair of merged, equal and disjoint prefixes with a third route present. Two
connections and two threads let both sides of a connection and the timer compete;
`GatewayLive` has one thread, where starvation is easiest; runs with liveness use no
symmetry. Header
buffer 4 and forwarding buffer 2 keep the ratio of the code (8192 and 4096), with
headers of 1 to 5 and bodies of 0 to 5 bytes below, at and above both. A file of up to 4
bytes and buffers of 2 give files below, at and above a multiple of the buffer, and
output that fills the buffer exactly. Two filtering or configuring threads and the worker
give every pair of accesses; a list of two targets is reallocated at each addition. Three
messages each way let one be in the buffer and one in flight behind a delivered one. A
parser buffer of 2 and at most 6 bytes cover every cut of a smallest request, with a header
or with the limit reached; longer requests take the same steps more often.
`CHECK_DEADLOCK FALSE` stands where the system really stops: a handler, a session or a
parser that has ended, a client that falls silent.

**Fairness.** `ServerFairness`: weak fairness for what runs on a thread, strong
fairness for what waits in the io_context's queue, which is first in, first out, so
that a handler gets a thread if threads keep becoming free. `PeerFairness` is an
assumption on the peers, not on the code, which has no timeouts: without it a silent peer
keeps a thread in a blocking read, and with `g_num_threads` of them nothing else is served.
`ForwardFairSpec`: the client sends what it announced, the handler goes on, and
the target answers once it has the announced length. `LocalFairSpec`: the handler's thread
goes on; nothing is asked of the file. `StoreFairSpec`: threads inside a function go on,
and a thread that waits for a mutex that is free again and again gets it. `RelayFairSpec`:
completions run, blocking writes to an end that is there return, and a read gets through
between two pings. `ParserFairSpec`: the thread inside the loop goes on; the owner need not
call again.

## 4. The proofs

All theorems hold for every value of the constants that the named assumptions
(`LimiterAssumption`, `RouterAssumption`, `RoundRobinAssumption`, `GatewayAssumption`,
`ForwardAssumption`, `LocalAssumption`, `RelayAssumption`, `StoreAssumption`,
`ParserAssumption`) admit: any finite set of connections, any number of threads, routes,
targets, messages and addresses, requests of any length, and all sizes. Every safety
property, action property and refinement that a passing run checks is also a theorem.

**Induction.** Some of these properties speak of what a loop computes: `normalizeURL`,
`RemoveTarget`, the bytes of a request. The provers cannot use the induction theorems of
the library, whose parameter is an operator. `LeastNat` (a set of natural numbers that is
not empty has a least element) takes their place: it follows from the well-foundedness of
strict inclusion on finite sets, and an induction is then the contradiction at the least
number for which the claim fails. The loops are written as recursive functions (`Others`,
`Without`), of which `OthersEquation` and `WithoutEquation` show that a function with the
equation exists; their other lemmas follow by one induction each.

- `RouterProofs`: `RouterTypeCorrect`; `PrefixTargetsAreReal` needs the stronger
  `PrefixInRange`, that every prefix route's index is in range: it starts at 0 and is
  stored modulo the length. `IndexesStayInRange` is the action property. For exact
  routes the strengthening fails at its base, the uninitialised index.
  `PrefixesAreNotShadowed` rests on `AddPrefixUrls`: a new entry is appended only if no
  earlier prefix is a prefix of it, and a merged one changes no URL.
  `TableUrlsAreNormalized` follows from the types, by which the tables hold results of
  `normalizeURL` only, and `NormalizedLemma`, which says what these look like for URLs of any
  length. `NoRouteIsLost` is inductive with the types: an addition keeps every target that
  was there (`AddPathLemma`, `AddPrefixLemma`), and a lookup changes indexes only
  (`StoreLemma`).
- `RoundRobinProofs`: `IndexAlwaysSelects` from `IndexInv`, which adds that a call under way
  has targets to choose from and that an index of no targets is 0 unless it started wild:
  without these the first target could be added to an index that selects nothing.
  `OthersLemma` and `RemoveTargetLemma` say what `std::remove` leaves. `PicksAreBalanced` from
  `TurnInv`: as long as no two calls overlapped, the targets were picked in turn from some
  index on, around the list `q` times and then up to the upcoming index (`InTurn`), and
  `TurnLemma` is one turn of that cycle, modulo the length of the list.
- `GatewayProofs`, about the limiter: `LimiterTypeCorrect`; `LedgerBalances` is inductive with
  the types, because wrapping after each step equals wrapping once (`ModStep`) and a step
  changes the callers in flight by one (`UndoingCount`); `BucketCapped` adds
  `Refilled`, that every refill is within the limit it read. `OveradmissionNeedsRefusal`
  says how far the violation of `RateLimiterOveradmit` reaches: a step that admits more calls
  than there were tokens happens only while another call is between its `fetch_sub` and its
  `fetch_add`. By the ledger, the counter is otherwise the number of tokens left itself
  (`GrantIsBacked`), and no refill and no `ConfigRateLimitor` breaks the promise.
- `GatewayProofs`, about the gateway: `GatewayImplementsLimiter`, step by step with the
  identity mapping, so the limiter's theorems carry over (`GatewayLedgerBalances`);
  `GatewayTypeCorrect`; `GatewayAlwaysListens`, inductive because each action moves an
  accept between outstanding, failed and being handled without losing it
  (`AcceptingCount`); `GatewayAdmits`; `GatewayLedgerOfAccepts`, where each action adds one
  connection to, or takes one from, the sets that are counted (`OneMore`), and
  `KnowsRequest` keeps what a handler has read fixed until it ends. `PoolNeverExceeded`: the
  accepts, handlers and timer at work never exceed `NumThreads`; whatever occupies a thread
  asked `ThreadFree` before, and the steps that follow keep the thread they have
  (`PoolStep`). From it and `OveradmissionNeedsRefusal` follows `SingleThreadKeepsPromise`:
  with one thread two `GetToken` cannot overlap, and every grant is backed. `g_num_threads`
  is 4 (`config.cc:41`) and no setter changes it, so the program as it stands is not in that
  case.
- `HttpForwardProofs`: `ForwardTypeCorrect`; `ForwardsInOrder` and `ForwardsWholeBody`
  from the inductive invariant `ByteLedger`, which ties `pos`, `extra_body_len_`,
  `n_read` and `left_body_length` to the bytes forwarded at every stage. The second says that
  nothing but the body goes out if the client sends nothing behind it, which needs
  `ArrivedOfStream`: no more arrives than the client sends.
- `HttpParserProofs`: `ParserTypeCorrect`; `BytesAreInOrder` from `OrderInv`: between its two
  indexes `io_buffer_` holds exactly the bytes delivered and not yet parsed, as long as every
  read was as long as the parser believes. `RequestIsParsed` from `RequestInv`, which says
  state by state what the bytes so far determine: in METHOD they are all in `msg_buffer_`; in
  URL and VERSION the first and the first two spaces delimit the words; in HEADERS the line
  feeds behind them are enumerated in order, one more than there are headers, and
  `msg_buffer_` is what is kept of the bytes behind the last. It is preserved whatever piece
  a byte came with, so the result does not depend on the cut; `SplitLemma` is the cut of a
  line at its first colon. `ParserStops`: stale and stray bytes included, and over all its
  calls, a parser looks at no more than `kMaxMsgLength_ + 1` bytes.
- `LocalResponseProofs`: the four invariants from `LInv`, which says stage by stage how far
  `deflate` has come with the bytes read (`Deflated`), that the code alone decides how the
  body is written (`Coded`), and that the bytes written are those of an untouched file
  (`Sized`). `EndMeansWhole` alone is not inductive: what is owed before the marker must be
  known in every turn of the two loops.
- `WebSocketRelayProofs`: `RelayImplementsPipes` from `RelayInv`: between two steps a loop's
  buffer holds the message being written and nothing else, and an end that can still
  receive has received all that was taken but that message (`LoopSound`), so each step maps
  to a `Produce`, a `Deliver` or a stutter of each `Pipe`.
- `ConfigStoreProofs`: `StoreTypeCorrect`, `StoreExcludes`, `StoreBans` from `StoreInv`: the
  lock is held by whoever is in a locking function (`LockHeld`), and as long as nothing
  overlapped, banned addresses are listed and a removal is alone with the list
  (`ListInOrder`).

**Variants.** Liveness is out of the provers' reach, but the measure it rests on is not.
`ConnectionsAdvance`, `ForwardAdvances`, `LocalAdvances` and `ParserAdvances` show, for all
sizes, that every step of a connection, a forwarded request, a local answer and a parser makes
a natural number smaller: stages ahead, header bytes still free (`Ahead`), bytes still to
arrive and to be read (`Distance`), bytes and deflate output still owed (`Left`), bytes still
allowed (`BytesLeft`). None of their loops can turn for ever, however the file changes,
the lengths wrap or the reads fall short. What fairness adds, that a step is taken while one
is left, is what the runs check. `ConnectionAdvances` is checked by the run `Gateway`; the
other three were checked on the constants of the runs of their modules before they were
proved.

**One handler, three models.** `HandlersFollowCourse` shows that every connection of `Gateway`
implements `Handler`, `ForwardImplementsHandler` and `LocalImplementsHandler` that `HttpForward`
and `LocalResponse` do. So the blocking phases of `Gateway` ("connect", "send", "local",
"localBody" and the rest) follow each other in the same order, fail at the same points and end
the process at the same point as in the detailed models. `Handler` allows a handler to end in
any phase, as `Gateway` does. The parameterised instance of `GatewayProofs` (one `Handler` for
each connection) is beyond TLC; each mapping was model-checked for one handler.

Only model-checked: the liveness properties (`EveryConnectionCloses`, `RefillGoesOn`,
`RequestEnds`, `AnswerEnds`, `LockComesFree`, `TargetsChecked`, `MessageDelivered`,
`SessionEnds`, `CallReturns`), since the prover has no reasoning about fairness; and the three
properties whose runs show a violation, which are false.

## 5. What is not modelled, and why

- The rewriting of forwarded header lines, content types, status texts and the setters of
  `crequest.cc`: formatting, on which none of the properties depends.
- gRPC-web helpers: no caller.
- `authentication` always returns true, and the OAuth client is not wired in: what is left
  is cryptography and remote I/O.
- YAML, keys and the configuration path: read once, before the server starts.
- `proto/config_service.proto` has no server; its effect is the administrator of `Gateway`
  and the callers of `ConfigStore`.
- The end of the process: `main` returns on a signal while the C++ threads run, and what
  they leave unfinished is up to the operating system.
- Descriptors: `file_fd` is never closed; the count only grows, and nothing states a limit.
- `isWebSocket_` has no initialiser either; it is read for the authentication test, which
  passes anyway, and for a protocol that `route` does not use: it sets its own before it
  chooses, so WebSocket sessions cannot be reached from `route` at present.
- Logging.

One connection between modules is by reading and not by a refinement: `ConfigStore` details
the blacklist that `Gateway` treats as a set with atomic updates. A refinement does not hold
there, because `RemoveBlacklistIp` takes no lock: what `Gateway` says of banned addresses holds
as long as no removal has overlapped another access, which is the exception `BanTakesEffect`
names.
