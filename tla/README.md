# smartSNI in TLA+

This directory is a verification development for the programs of this
repository: a Python server (`working server/main.py`) with its SOCKS5 helper
(`socks5_proxy.py`), a Go relay server and client (`dpi-evasion/`), an Android
client (`android-client/`), which carry TCP connections inside TLS and
WebSockets, and a measuring tool (`dpi-lab/dpi_probe.py`).  It holds TLA+ modules translated from the
code, TLC configurations that check them on small instances, and theorems that TLAPS
proves for every value of the constants.  `PROJECT.json` maps every definition that
models code to the lines it models.

In what follows *W* is `working server/main.py`, *S* is `dpi-evasion/server.go`,
*O* is `dpi-evasion/lib/obfuscation.go`, *D* is `dpi-lab/dpi_probe.py`, *H* is
`socks5_proxy.py` (two copies), *C* is `dpi-evasion/cmd/client/main.go`, *V* is
`SmartSniVpnService.kt`, *T* is `WebSocketTunnel.kt`.

    tlasany M.tla                        parse a module
    tlc -workers 2 -config X.cfg M       check module M with X.cfg
    tlapm M.tla                          check the proofs of module M

## 1. Inventory

### The Python server (W)

One asyncio process: an SNI proxy on port 443, a DNS-over-TLS server, and a FastAPI
application (DNS-over-HTTPS, WebSocket tunnel, cover site) behind the proxy, all
sharing one `AppState`.  Tasks interleave only at `await`.

| Component | State | Operations | Interacts by | What is hard | What makes it correct |
|---|---|---|---|---|---|
| Mux session, W 683-847 | `streams` (stream id → writer), the relay tasks, the WebSocket | read loop, `_handle_new_stream`, `_handle_data`, `_handle_close`, `_handle_fin`, `_relay_backend_to_ws`, `_cleanup_all` | frames of one WebSocket; a TCP connection per stream; a task per NEW_STREAM, DATA and relay | a connect that completes after the CLOSE, or after the session; ids used again; FIN and CLOSE against a DATA in `drain()`; sends that raise | table and open connections agree; data in order and lost only for a reason; every open answered, every end told, everything closed in the end |
| Rate limiter, W 87-136 | hits per normalized address | `allow`, `cleanup` | one lock; called by the WebSocket gate | boundary of the window; cleanup against a key in use; two spellings of one address | no window holds more than the maximum; nobody refused with room left; bounded memory |
| Gate and registry, W 1379-1569 | captured settings, `mux_sessions` by client address | admission, first message, start and end of a session, shutdown | `AppState`; starts mux sessions; a signal | settings captured before a 30 s wait, and read again after it; one address for all clients behind the proxy; finally clauses after a shutdown has emptied the registry | the registry names running sessions; a shutdown ends everything |
| Legacy tunnel, W 591-609, 1499-1549, and SOCKS5 helper, H | two tasks each, three connections in a row | `ws_to_socks`, `obfuscate_and_relay_ws`; SOCKS5 negotiation, two relays | `gather()` on both; TCP between them | each task closes one end or none; a close with unread data; swallowed exceptions | what an end sends arrives; a client that leaves frees its tunnel, both ends free the helper |
| Configuration, W 142-208, 266-335 | `config`, `bypass_settings_cache`, `active_trigger_domain_index` | `load_config`, reload task, rotation task | read by everyone | two tasks write; a section missing in the new file; a sleep between look and use | what is cached is what is in force; rotation goes on |
| SNI proxy, W 537-677, 853-1164 | the TLS bridge of one connection, its timers, two relay tasks | record and handshake reads, SOCKS5, dial, relay both ways | client socket, backend socket, `gather()` | timeouts in one direction while the other works; exceptions that end one task only | bounded set-up; no data lost without a reason; both tasks and both sockets end |
| DNS front ends, W 341-444, 1350-1371 | one connection or request | `handle_dot_connection`, `doh_handler`, `process_dns_query` | configuration; an upstream over HTTPS | pipelined questions, one of which raises; a client that stops in the middle or does not read | an answer for each question, an end for each client that leaves |
| Cover site, W 1167-1376 | none | static pages | - | - | - |

### The Go side (`dpi-evasion/`)

| Component | State | Operations | Interacts by | What is hard | What makes it correct |
|---|---|---|---|---|---|
| Rate limiter, S 59-111 | hits per address | `Allow`, `Cleanup` on a 60 s ticker | mutex | lists only the ticker shortens | as the Python one |
| Relay session, S 317-511, O (`FakeFrameScheduler`) | three goroutines, one WebSocket, one TCP connection, a context, deadlines, `activeConns` | `handleRelay`, `wsToTcp`, `tcpToWs`, the scheduler's loop | shared WebSocket without a lock; context; closing each other's connections | concurrent writers; a deadline set by one goroutine and met by another; panics; writes without a deadline | upstream data in order; exact count; rotation; every goroutine ends |
| ShadowTLS, `lib/shadowtls.go` | a connection between client, handshake server and target | record reading, handshake proxying, authentication, XOR relay | two goroutines that go on reading the client after the handshake | client and server disagree about who speaks first inside TLS | only an authenticated client reaches a target; the relay ends |
| Client, `cmd/client/` | a SOCKS5 connection, a transport, two goroutines | SOCKS5 handshake, `Connect`, relay both ways | wait group and deferred closes | each side waits for the other | a request is answered; the relay ends when a side does |
| Padding, framing, status codecs | none | pure functions | used by all of the above | agreement of three implementations | decoding undoes encoding |
| Fronting, certificates | none | validation, generation at start | - | - | - |

### The Android client

| Component | State | Operations | What is hard | What makes it correct |
|---|---|---|---|---|
| `Multiplexer`, `WebSocketTunnel` | one stream, `connected`, `isRetrying`, the fallback index | open, data, close, stale sweep, connect, fallback, disconnect | callbacks that outlive their tunnel; a fallback from a tunnel that was closed; the sweep under a tunnel that says it is connected | a tunnel that is up belongs to a session |
| `SmartSniVpnService`, `Packet` | user-space TCP sessions by key | `handleSyn`, `handleTcp`, `cleanupSession`, the cleanup loop | three threads that remove by key; a snapshot of stale keys | the app is told of every end |
| `DomainManager`, `DnsOverHttps`, `NetworkDetector`, `TrafficShaper` | blocked domains, DNS cache | selection, expiry | stale entries | never a blocked domain while another is left |
| `MainActivity`, `ChromeTlsFingerprint` | widgets, tables | - | - | - |

### The measuring tool (D)

| Component | State | Operations | What is hard | What makes it correct |
|---|---|---|---|---|
| `dpi_probe.py` | results by mode, `raw_trusted`, a raw TCP connection | baseline, DNS, TLS, HTTP, fragmented and UDP probes, a diagnosis over all results | a raw probe against the kernel of its own host; answers that are lost; verdicts that are neither | the diagnosis names what the network filters; the run ends |

Beside these: `src/main.py`, an older copy of the server that cannot start (it uses
a global `state` it never defines); shell scripts.

## 2. Modules

| Module | Models | Extends / instantiates |
|---|---|---|
| `MuxServer` | one mux session | - |
| `MCMuxServer` | `MuxServer` with its symmetry set | `MuxServer` |
| `MuxServerProofs` | theorems | `MuxServer` |
| `SlidingWindow` | what a limiter promises (abstract), with theorems | - |
| `RateLimiter` | the Python limiter | instantiates `SlidingWindow` |
| `MCRateLimiter` | one host under two spellings, one IPv6 host, one peer without an address | `RateLimiter` |
| `RateLimiterProofs` | theorems | `RateLimiter` |
| `GoRateLimiter` | the Go limiter with its ticker | instantiates `SlidingWindow` |
| `GoRateLimiterProofs` | theorems | `GoRateLimiter` |
| `GoRelay` | relay sessions of the Go server | - |
| `GoRelayProofs` | theorems | `GoRelay` |
| `SniProxy` | one connection of the SNI proxy | - |
| `SniProxyProofs` | theorems | `SniProxy` |
| `Server` | what the Python server's tasks share | - |
| `LegacyTunnel` | client, legacy tunnel, SOCKS5 helper and target, composed | - |
| `DnsFront` | a DoT connection or a DoH request, with its client | - |
| `GoClient` | a connection of the Go client, with browser, server and target | - |
| `VpnSession` | the Android client's TCP sessions of one key, with their tunnels | - |
| `DpiProbe` | a run of the measuring tool against a network | - |
| `MCDpiProbe` | the networks and runs that TLC gives it | `DpiProbe` |
| `ServerProofs` | theorems about the Python server's parts | `Server`, `LegacyTunnel` |
| `ClientProofs` | theorems about the programs on the client's side | `VpnSession`, `GoClient`, `DpiProbe` |

`ServerProofs` and `ClientProofs` extend several components, which share nothing: this is
why `LegacyTunnel`, `GoClient` and `DpiProbe` put `LT`, `GC` and `DP` before the names
that every component has (`LTInit`, `GCNext`, `DPSpec`).

**MuxServer.**  `streams` is `self.streams`; `st`, `csid`, `relay`, `rx` describe each
backend connection as its writer, its relay task and the data written to it; `ready`
is the part of the event loop's ready queue that matters, tasks created and not yet run.
A step is the code between two suspensions: `ReadSpawn` creates a task for NEW_STREAM
or DATA, `ReadClose` and `ReadFin` act at once, `StartNew` and `StartData` are the
first steps of tasks, in the order of creation, `ConnectOk` and `ConnectFails` what follows
`open_connection`, `DrainOk` and `DrainFails` what follows `drain()`, `RelayData`, `RelayFin`,
`RelayDies`, `RelayCloses` the relay.  What a backend sends is counted up to a bound, for
order and completeness, and goes on uncounted beyond it (`BackendSendsOn`,
`RelaySendsOn`, `more`), so that a backend may talk for ever.  The session's lock is never held across a
suspension, so it is never contended and is not a variable.  A DATA frame handled while its
stream is still connecting finds no writer and is dropped, as in the code.  The handler
takes the first frame for a NEW_STREAM whatever its type (W 1456-1497).  Payloads are
numbers; `tail = "padlike"` is a payload whose last bytes read as a padding length.

**RateLimiter, GoRateLimiter.**  Both operations of each run under a lock without
suspending, and are one step.  `hits` is the memory of the code; `log` and `last` are
history variables, every accepted request and the last verdict, which are those of
`SlidingWindow`, so that the refinement mapping is the identity.  `SlidingWindow` accepts
a request exactly if the log holds fewer than `MaxHits` in the window: it
forgets nothing, the limiters do.  A native IPv6 address makes `_normalize_ip` raise
(`AllowRaises`).

**GoRelay.**  `hpc`, `tpc`, `spc` are where the three goroutines of a session are.
`writing` lists the goroutines inside `ws.WriteMessage`, of which gorilla/websocket allows
one and detects others by chance (`MayPanic`); `wdl` is the write deadline set on the
WebSocket and `lim` the one each write under way found.  Time passes in units, and not while
something prompt can happen.  A panic in the handler runs its deferred calls and is
recovered by `net/http`; a panic in another goroutine ends the process, and so does
a signal.  Looking at the context (`LoopTop`) and setting the deadline (`Arm`) are two steps,
between which `tcpToWs` may cancel; `since` is history, the time since it did.

**SniProxy.**  Connections share only the configuration, so one is modelled.  `pc` is
`handle_connection`, `up` and `down` the two relay tasks; data are counted.  `left`,
`uleft` and `dleft` are what is left of the limits of the waits; `silent` remembers which
end once said nothing for its whole limit.  Counts stop at a bound, sending does not
(`OneMoreOf`).

**Server.**  `config`, `cache`, `index` are `state.config`, `state.bypass_settings_cache`,
`state.active_trigger_domain_index`; a rotation stores into the configuration object
the cache is rebuilt from.  For each WebSocket `hpc` is how far `websocket_handler` has
come, `gate` the settings it captured at its start, `key` the secret its mux key was
made of.  Path, fronting, limiter and token are one choice to admit or refuse: the
properties do not tell them apart.  `ShutdownEndsAll` needs the cancelled handlers to be
steps of their own after `Shutdown` has emptied the registry.

**LegacyTunnel.**  Four queues, `q1u` and `q1d` between tunnel and helper, `q2u` and `q2d`
between helper and target, join two asyncio processes; each relay task is `read` or
`write` (suspended in `drain()`).  What the client sends is a unit the helper's
negotiation takes whole, good or bad; after it, a chunk.  `Init` chooses between the
helper with user names (`working server/socks5_proxy.py`) and the one without
(`src/socks5_proxy.py`).  A close with unread bytes resets the connection (`Aborts`);
a task that fails closes nothing but what its `finally` closes.

**DnsFront.**  `inbox` is what has arrived whole, `half` that a length has come
without its body.  A question is one of five kinds, by how `process_dns_query` treats
it; `TakesRaising` is its `except` branch, which parses the message again and may raise
out of the function.  `replies` and `asked` are history.

**GoClient.**  `client` is `handleConnection`, `up` and `down` its two goroutines;
of the server it has what a client sees of `GoRelay`: `server` is `wsToTcp` with the
handler, `pump` is `tcpToWs`, whose read from the target and whose write to the WebSocket
are two steps; `pq` is what the target has sent and `tcpToWs` has not read, `owed` what it
has sent and the browser was not given.  A server may also be one that accepts a
connection and says nothing more (`ServerFallsSilent`).  In the mode `shadowtls`, the default, the server
reads a TLS record inside its own TLS, where this client sends its authentication: the
two never agree, and the modelled part of ShadowTLS ends there (`ServerMisreads`).

**VpnSession.**  A session is numbered in the order it was made; `table` is what
`tcpConnections` holds for the key.  The three threads are `Packets`, `Callback(i)`, for
WebSockets of sessions that may be long gone, and `Sweep`, whose look and whose removal
are two steps.  So are the filing of a session and the connect of its tunnel (`AppSyn`,
`SynConnects`), and a failure and the connect to the next host (`WsFails`, `Reconnects`): the
other threads come in between.  `displaced`, `revived` and `unheard` are history: sessions
removed in the name of another, tunnels connected anew after they were closed, and
tunnels closed when they had no WebSocket yet to close.

**DpiProbe.**  `todo` is the modes still to run, of which `main` takes the first in its
list (`Current`).  A kernel probe is one step, what it finds follows from the network
(`Kernel`, `Http`), but for an answer that is lost or an error that it catches (`Finds`);
a raw probe is a small protocol between the tool, the network and
this host's kernel (`RawConnects` to `RawStops`), repeated and put to the vote
(`Consensus`).  `Diagnose` is `run_diagnose` with its order of tests.  `main` catches nothing, so what a
probe raises ends the run (`ProbeRaises`, `RawMisreads`): `progress` is then `raised`,
and `crashed` if it was the diagnosis that failed.

## 3. Runs

Every property is stated in a comment at its definition.

| Run | Instance | Question | Result |
|---|---|---|---|
| `MuxTwo` | 2 ids, 2 connections, 3 frames, 2 chunks per backend, disciplined client, fresh ids, payloads that may look padded, sends may raise | Do table and open connections agree at every step (`TableIsExact`); does each stream make sense to the client (`StreamWellFormed`); is DATA dropped only for a reason (`DataLossIsExplained`)?  Also `TypeInv`. | hold |
| `MuxLive` | 1 id, 1 connection, a client without discipline, payloads that look padded, a backend that may talk for ever, sends may raise, fair | `OpenIsAnswered`, `EndedStreamCloses`, `SessionFreesAll`, `BackendEndIsTold` | hold |
| `Limiter` | 4 addresses of 3 keys, window 2, maximum 2, 6 readings of the clock | `Implements`: the limiter is a sliding window | hold |
| `GoLimiter` | 2 keys, window 2, maximum 2, tick every 3, 7 readings | `GoMemoryBound`, `Implements` | hold |
| `GoSession` | 1 session, peers that may stop reading | `UpstreamInOrder`, `ActiveIsExact`, `CancelledWaitIsBounded`, `FinIsLast`, `EndedSessionCloses`, `NoGoroutineLeaks` | hold |
| `Sni` | one connection, 3 handshake reads, 2 chunks counted each way and any number sent, direct and SOCKS | `SetupIsBounded`, `LossIsExplained`, `RelayEnds`, `NoOrphans` | hold |
| `Server` | 2 connections, 2 addresses, 2 secrets, lists of up to 2 domains, 2 reloads | `SettingsInForce`, `RegistryIsExact`, `ShutdownEndsAll` | hold |
| `Chain` | both helpers, buffers of 1, 4 units up, 2 chunks down | Does what an end sends arrive (`UploadArrives`, `DownloadArrives`); who has to leave for what to be freed (`LeavingFreesTunnel`, `BothEndsFreeHelper`)? | hold |
| `Dns` | 3 pipelined questions of any kind over DoT, one over DoH, buffer of 2 answers | `QuestionIsAnswered`, `LeavingEndsIt` | hold |
| `Go` | both transports, buffers of 1, browser and target that may send for ever, a server that may fall silent | `RequestIsAnswered`, `DownloadArrives`, `ConnectionEnds` | hold |
| `Android` | 2 sessions of one key, 2 fallback hosts | `OrphanIsExplained`, `EndIsTold` | hold |
| `Probe` | 5 filters, 5 servers, networks that reset or drop, reassemble or mangle, a kernel that interferes, answers that cannot be parsed, 2 repeats, 1 lost answer, probes that raise | Is the diagnosis what the network does (`DiagnosisIsSound`); what may make it fail or distrust itself (`CrashIsExplained`, `MistrustIsExplained`); has the server seen the hello it answers (`PassMeansArrived`); does the run end (`RunEnds`)? | hold |

`TypeInv` of `MuxServer` is checked and proved; the types of `VpnSession`, of the limiters,
of `SniProxy`, `Server`, `LegacyTunnel` (as `TunnelOK`) and `DpiProbe` are proved; in the
other modules `TypeOK` documents the variables (it holds on the same instances, and no run
spends its time on it).
All runs set `CHECK_DEADLOCK FALSE`: sessions end, clocks and frame counts are bounded,
and nothing has to happen afterwards.

### The bounds, and why they are enough

* *Two streams, two connections, three frames* (`MuxTwo`).  What can go wrong between
  streams needs two; NEW_STREAM, DATA, and CLOSE or FIN of one stream, or two NEW_STREAMs
  and an end, are the sequences whose steps can overlap, and are covered in every
  order of connects, relays, drains and the end of the session.  Two chunks from a
  backend put one before and one after whatever happens in between; what a backend sends
  beyond them (`SendsOn`) is left to `MuxLive`, since the table is touched no differently
  by it, and the theorems about this run's properties cover it.  Ids and
  connections are interchangeable, hence the symmetry; it is used in no run with a liveness
  property.  All four properties of `MuxTwo` are proved for any sets and any bounds.
* *`MuxLive`* is smaller because liveness allows no symmetry; streams meet only in the
  table, which `MuxTwo` covers.  It is the run with the undisciplined client, which makes
  the read loop's skips, text messages and a DATA before the status happen.  Its one counted
chunk is followed by any number of others.
* *Window 2, maximum 2*: a hit can be new, one reading old and exactly as old as the window,
  and the list can be empty, in between and full.  The clock runs beyond two windows,
  so that a key can go stale and be used again; in `GoLimiter` the tick is not a multiple of
  the window.  The theorems have no such bounds.
* *`GoSession`*: `Idle` is longer than `WriteLimit`, as 120 s and 30 s are, so that a
  write can expire in a session that is not idle; `Rotation` is shorter than `Idle`, so
  that it can expire within one read.  The sessions of a process share only the
  count and the process, so one is enough for all but `ActiveIsExact`.  It and the other
  safety properties are proved for any number.
* *`Sni`*: 3 rounds stand for 32, `IdleWait` and `ReadWait` are different, so that
  either limit can be the first to pass; the run has also been made with the two the other
  way round and equal.  The two chunks counted each way are what completeness needs; peers
may go on sending, so that no limit passes only for want of data.  `SetupIsBounded` and `LossIsExplained` are proved for any limits.
* *`Server`*: two sessions of one address and of two; two reloads, so that settings can
  vanish and come back; two domains, the fewest that rotate.  `SettingsInForce` and
  `RegistryIsExact` are proved for any numbers of them.
* *`Chain`*, *`Go`* (whose `UploadArrives` and `DownloadArrives` are proved for any
  bounds): with buffers of one every write can find its buffer full; 4 units
  up are a whole negotiation with a user name and one chunk to relay, which without
  a user name are two.  In `Go` nothing else is bounded: browser and target may send for
ever.
* *`Dns`*: three questions put a bad one before, between and after good ones, and two
  answers of buffer let a client that does not read hold up the third.
* *`Android`*: what goes wrong needs one session whose callbacks are late and one that has
  its key; two fallback hosts make a second failure a failure during a retry.
  `OrphanIsExplained` is proved for any number of both.
* *`Probe`*: two repeats, the fewest for a vote to be split, and one lost answer, which can
  hit any wait.  DNS and HTTP are run apart from TLS and fragmentation, with which they share
  no results.  The four invariants are proved for any situations, repeats and losses.

### Fairness

* *MuxServer*: the event loop runs every task that can run (`Handler`, `Tasks`,
  `Relay`), a connect ends with success or not (the operating system limits it), and the
  timers of the handler and of the relay fire.  Neither a client nor a backend has to do
  anything, and a task may stay in `drain()` for ever.  Sends to the WebSocket end, since a
  client that is gone is noticed: the server is started without changing uvicorn's pings
  (W 1609).
* *GoRelay*: every goroutine that can run does, and time passes.  A write to a client
  that does not read ends only by its deadline; `tcp.Write` has none, and gets no fairness
  unless the backend has reset.
* *SniProxy*: limits pass, dials end, tasks that can run do.  The two writes
  (`UpWrites`, `DownWrites`), which wait for a peer to read, have no fairness; the
  liveness properties except `PeerStopsReading`, one write that never ends.  The clock goes
  on however often data move (strong fairness of `Tick`), but a client that goes on sending
  keeps the limits from passing: `RelayEnds` excepts it (`ClientTalksOn`).
* *Server*: sleeping tasks wake up, cancelled handlers run.  No reload has to happen and no
  client has to do anything.
* *The limiters* have no liveness property.
* *LegacyTunnel*: the two event loops run what can run, and a dial ends.  Writes with a
  full buffer wait, and neither client nor target has to do anything:
  `TargetStopsReading` is the exception of the liveness properties.
* *DnsFront*: the handler, its timers and the limit of the HTTP client.  The client is not
  fair.
* *GoClient*: goroutines run, and the limits that the code has pass: of a dial, of the status
  over ShadowTLS, of the server's idle session and of its writes.  A TLS handshake of
  ShadowTLS and the status over a WebSocket have none, and end only if the server does
  something.  A write to a WebSocket that is gone fails in the end (strong fairness of
  `UpStops`).  Browser and target are not fair.
* *VpnSession*: OkHttp ends a WebSocket that was closed, by an answer or by a failure, and the
  threads go on from one of their steps to the next (`SynConnects`, `Reconnects`,
  `SweepRemoves`).  Nothing else has to happen.
* *DpiProbe*: every wait of the tool has a limit, so it goes on; two loops have none, and are
  what `RunEnds` excepts (`LoopsForEver`).  Nothing has to raise.

### Disagreements between the code and what is said of it

All runs pass; their properties state what the code does keep.  Reading and modelling it has shown the
following, where the code and a comment or document of the repository do not agree, or
where the property has to name an exception.  In the models these are actions and named exceptions.

Servers:

* `_normalize_ip` reads an attribute that IPv6 addresses do not have (W 94), so `allow()`
  raises for every native IPv6 client, although the comment at W 101 calls it IPv6-aware
  (`AllowRaises` in `RateLimiter`).
* The read deadline of the Go server's WebSocket is renewed only by the client's messages
  (S 424): a session that only downloads is cut after one idle period, although
  PROJECT-LOG.md:632 speaks of no data flowing (`ReadFails` in `GoRelay`).
* The scheduler's fake frame is written under the deadline of the last send of `tcpToWs`
  (S 504, O 157); once that has passed, the write fails, and gorilla/websocket then
  refuses every later one (`FakeEnds`), although the session is not idle
  (PROJECT-LOG.md:528).
* Three goroutines write to one WebSocket without a lock; the library panics when it
  notices, and outside the handler nothing recovers, so that one session ends all
  (`FakeCrashes`, `SendCrashes`; PROJECT-LOG.md:28).
* A backend connection that completes after its session has ended is filed in a table
  nobody clears; if the status frame then raises (a send after the end of the handler is a
  `RuntimeError`, which `_send_frame` lets through), no relay is started, and
  nothing ever closes the connection (W 760-768).  `Leaked` in `MuxServer` is this case, and the one
  exception of `EndedStreamCloses` and `SessionFreesAll`.
* A connect that completes after the CLOSE of its stream starts a relay all the same
  (W 760-765), which nothing ends while the backend sends something within each idle timeout
  (W 819-834): an ended stream keeps its connection.  `EndedStreamCloses` and
  `SessionFreesAll` except a backend that talks on (`TalksOn`).
* A stream id used again replaces a live writer in the table (W 762).  No client in the
  repository uses one twice, and the runs do not either (`ReuseIds`); with it `TableIsExact`
  is violated.
* Nothing enforces `maxConnections` (dpi-evasion/PROJECT-LOG.md:529): `active` only counts.
* `tcp.Write` has no deadline, so a session whose backend does not read may stay for
  ever (PROJECT-LOG.md:632); `EndedSessionCloses` makes this its exception.
* A payload that happens to look padded is cut, and often skipped (PROJECT-LOG.md:63;
  `padlike` in `MuxServer` and `GoRelay`).  On a live mux stream the frame is then lost
  without a word (W 718-732), which `DataLossIsExplained` names.
* The Go server looks at the context and then sets the read deadline (S 417-424).  A session
  cancelled in between waits for its client for one more idle limit, but for no more:
  `CancelledWaitIsBounded`.
* `AddPadding` appends its padding, PROJECT-LOG.md:62 says that it prepends it.
* Keep-alive pings (PROJECT-LOG.md:633) are answered by the library but sent by no client.
* A configuration without `bypass_settings` leaves the old settings in force and ends
  `rotate_domains` with a `KeyError` (W 332), against the hot reload of README.md:14;
  `SettingsInForce` makes the first its exception.  A
  reload puts the first domain of the file back in place of the one a rotation chose.
* `mux_sessions` loses a session when another of its address ends; behind the SNI proxy all
  clients have one address.  `shared` in `Server` marks these sessions.
* In the SNI proxy the SOCKS5 handshake has no limit and reads the raw connection although
  TLS has been set up; the end of the backend is told to the client only when
  the other direction's limit has passed; a connection that only downloads is cut after
  120 s (W 925).  The limit of the upload starts again with each piece the client sends, and
  `gather()` waits for both tasks (W 915-936, 1111): with a backend that has ended or is silent, a
  client that keeps sending keeps the relay for ever (`ClientTalksOn`).  A client that
  half-closes loses the rest of its download, for the end of the upload closes the backend
  (W 557; `LossIsExplained`).  README.md:10 says that "shape" adds padding, the code adds delays only.

Legacy tunnel, helper and DNS:

* A target that ends is not told to the client, nor a client that ends to the target:
  the helper waits for both directions (H), the tunnel for both of its tasks (W 1541).
  The connection to the target is never closed explicitly.
* A client that leaves with answers unread loses the end of its upload (W 1535), the
  exception of `UploadArrives`.
* `process_dns_query` parses a message again in the branch that handles a message it
  cannot parse (W 382), and raises.  On a DoT connection this loses every question pipelined
  behind (`Ends` in `DnsFront`), and so does an answer of more than 65535 bytes (W 402).
  The body of a message is waited for without a limit (W 400), its length is not.

Go client:

* The client's default transport never connects to the repository's own server: inside
  its TLS the server reads a TLS record where the client sends its authentication
  (`lib/shadowtls.go`, `ServerMisreads`).  What the client answers is an error.
* FIN and CLOSE of a stream are passed over by the client; it learns of an end only from the
  WebSocket's.  A browser that keeps still keeps a connection whose server has closed
  (`BrowserKeepsStill`).
* The TLS handshake of ShadowTLS (`transport.go` 48-49) and the status over a WebSocket
  (`transport.go` 155) are waited for without a limit: against a server that falls silent
  there, the browser is never answered (`WaitsForEver`).
* Chunks of a download are lost without a reset when `tcpToWs` does not get to the target's
  end: its read of a silent target or its write to the WebSocket passes its deadline
  (S 485-507), or `wsToTcp` ends the session, for want of messages or for rotation (S 423-433,
  467).  `DownloadArrives` speaks of the other downloads (`pump = "eof"`).

Android:

* `cleanupSession` removes by key, so a late callback of one session removes the next one of the
  same key, whose tunnel stays up (`displaced`); a fallback revives a tunnel that was
  closed (`revived`); and a session that is removed between its filing and the connect of its
  tunnel (V 538, 575), or between a failure and the next connect (T 140-141), has nothing to
  close yet, so that the connect brings up a tunnel for no session (`unheard`).  These three
  are the only ways (`OrphansExplained`), and the ones in which an app may not be told
  (`EndIsTold`).
* A failure during a retry ends the fallback (T 135), whatever hosts are left.
* Data of an app that comes before its tunnel is ready has been acknowledged and costs the session
  (V 483), without a word to the app until the tunnel's close comes back.
* The tunnel waits for a text message in which the server says hello (T 109-118); the
  working server sends none, so a tunnel to it stays in `open`.

Measuring tool:

* After an alert the tool reads on, and a server that then keeps the connection open is
  judged "blocked" (`Kernel`, the server `lingers`).
* Advice is added to the last vector named, of which there may be none (D 909): `IndexError`,
  no report.  `CrashIsExplained` says when.
* What a probe raises ends the run and loses the report, for `main` catches nothing
  (D 1094-1101): errors of the network that `kernel_tls_probe` and `kernel_http_probe` do not
  catch (D 402-409, 442-445), and packets of any sender that `parse_tcp` and
  `parse_tcp_opts` cannot read (D 133, 151).  An option of length zero in a SYN-ACK is stepped
  over for ever (D 144-158).  These are `ProbeRaises` and `RawMisreads`.
* With an empty `--control` the result of the control is filed under one name and looked up
  under another (D 736, 885), so it is unknown: a filter of SNI values is then called one
  of SNI presence.  "TLS fingerprint DPI (control SNI passes...)" (D 905) is named only when the
  control is unknown.
* "Camouflage confirmed: fragmented variants pass" (D 945-962) is said of any plan that passes,
  also of those without SNI.
* An empty first DNS answer makes every other look poisoned; DNS over TCP is read for
  ever if the server closes early (D 485).
* The SYN options end before their timestamps (D 214); if they did not, the options of
  the data segments would not fill whole words, and `PassMeansArrived` would be lost.
* The verdict against a middlebox (D 692) may be this host's own kernel's reset, unless it is
  kept from resetting (`dpi-lab/README.md`:72).

## 4. Proofs

The provers check every step; no theorem rests on anything but the named
assumptions on constants in the modules.  Every invariant that a run checks is a theorem
too, and so are the two refinements and the one action property.  Where an
invariant is not inductive, this is what makes it so:

* **A mux session has its type** (`TypeCorrect`).  `TypeOK` alone is not inductive:
  a relay is started for a connection that must have been named before, so `TypeInv` adds
  `ConnNamed`.  One lemma per group of actions.
* **Table and open connections agree** (`TableExact`), for a disciplined client with
  fresh ids, whatever the number of streams.  `TableIsExact` is lost if two connections
  can have one id, so the inductive invariant `FreshInv` says why they cannot:
  an opened id is in one NEW_STREAM in `inbox`, or in one in `ready`, or is the name of one
  connection (`OneOpenPerId`); before the first frame nothing has happened and its
  first message is a NEW_STREAM or the disconnect (`FirstIsNew`); table and `st` point at each
  other (`TableMatches`).  `FreshInvariant` proves it from `TypeInv`, `TableExact` follows.
  Without discipline or freshness it is false: a reused id replaces a live writer.
* **A client's streams make sense** (`StreamsWellFormed`), under the same assumptions.
  `StreamWellFormed` speaks of what a client has received, one id at a time; `TellInv`
  ties this to the server's side: an id that is not yet answered has heard at most FIN, a
  relay runs only for a connection whose OK was sent, and the last chunk a client was sent is
  the last that the relay has read.  Messages of a queue are looked at by position
  (`Numbers`), which is why the module filters no sequence.
* **DATA is dropped for a reason** (`DataLossExplained`).  A DATA frame sent after the OK
  is skipped by the read loop only if it looks padded, and its task finds the writer unless the
  stream is over; `ServeInv` follows the frame from `inbox` to
  `ready` and says that both hold data only of answered ids, and a CLOSE only of ended ones.
* **The limiters are sliding windows** (`Refines`, `GoRefines`): every step is a step or
  a stutter of `SlidingWindow`, by `HitsTrackLog` (what counts is remembered, what is
  remembered was accepted; for the Python limiter also that the list's last hit is its
  latest, which the cleanup relies on).  The promise over every window,
  `WindowIsBounded`, is proved once of the abstract limiter and carried over
  (`WindowBounded`, `GoWindowBounded`).  `MemoryBounded` is the Python limiter's.
* **The Go limiter's memory between two ticks** (`GoMemoryBounded`).  A tick leaves no hit older
  than a window (`TickInv`), and the accepted hits of the last n windows are at
  most n * MaxHits (`SpanBounded`).  The latter is an induction over n; the library's induction
  theorems take an operator, which no prover here can instantiate, so it is done with sets
  (`AllNaturals`: a set that has 0 and with each number the next has them all, from the least
  element of a set of naturals, `LeastNatural`).
* **The count of active connections** (`ActiveExact`) is exact for any number of
  sessions, by: the running handlers are a finite set with `active` elements, each start
  adds one, each end, a panic included, removes one.
* **A cancelled session waits for one idle limit at most** (`CancelledWaitBounded`).
  `WaitInvariant` says that what is left of the deadline and the time since the
  cancellation are together at most the limit while the handler reads; only a cancellation
  before the deadline is set leaves all of it.
* **A relay keeps the order** (`DataInOrder`, `FinAfterData`), in any number of sessions.
  `DataInv` lists where a message can be, at the client, in the goroutine's hand, on the way
  to the backend, and says that these are consecutive; the same downwards, where FIN
  comes behind the last chunk that was read.
* **An SNI connection's set-up is bounded** (`SetupBounded`) by
  `(2 + MaxRounds) * SetupWait`: the time used and the time left of the current wait are
  together at most one limit for each wait begun.
* **An SNI connection loses nothing without a reason** (`NothingLost`).  `LossInv` says, as long
  as no task has raised, no end has left and no end has been silent for a whole limit
  (`Clean`), how far each relay task can be and that a task that has ended has
  passed on all there was; `ConnectionTypes` gives the counts.
* **Settings and registry** (`SharedTypes`, `CacheInForce`, `RegistryExact`).  For the settings
  it has to be known that a rotation happens only under settings; for the registry, that two
  running sessions of one address are both `shared` and that no session runs
  past a shutdown.
* **What an end sends arrives through the legacy tunnel** (`UploadComplete`,
  `TunnelDownloads`), for any buffers and amounts.  A ledger for each direction (`UpEven`,
  `DownEven`): what was sent is what has been got, what a task holds and what is in a
  buffer, counting as parsed what the negotiation takes; `Places` says when a ledger
  stops, and who closed what by then.  `TunnelLedgers` is the inductive invariant.
* **A download through the Go client is complete** (`DownloadComplete`),
  for any buffers and amounts of data, by a ledger: what the target has sent has been
  written to the browser, is in a goroutine's hand or is on its way, until a reset takes it or
  `tcpToWs` returns without having read the target's end (`Ledger`); the client's goroutine
  gives up for a browser that stays only when nothing is on its way and the server, which
  then sends no more, has closed (`Drained`).
* **Tunnels without a session are explained** (`OrphansExplained`),
  for any number of sessions of a key and of fallback hosts.  `OrphanInv` says of tunnels that are
  still to be connected what the property says of those that are up.  It is inductive
  relative to the types and to `AppHasSession`, that an app has a connection only
  if a session was made for it: a step of the app needs it to know which session it
  cleans up.  One lemma says that `cleanupSession` leaves no tunnel unexplained, another that a
  step which brings no tunnel up and takes none from the key does not either.
* **The measuring tool's records are true** (`CrashExplained`, `PassArrived`,
  `MistrustExplained`, `DiagnosisSound`), for any networks, repeats and losses.
  `RawRuns` says that a raw probe is under way only while its mode runs, so that the plan it
  belongs to cannot change.  A reset that has been heard has a cause (`ResetsInv`), and so
  has the label voted for, since a vote yields one of the labels cast (`ConsensusIsFound`).
  A raw probe that nothing is in the way of hears the server (`HearsData`); records made
  without a loss are what the network makes of a hello (`FoundInv`); the diagnosis is
  what follows from them (`NamedInv`); a diagnosis that fails has a record that is not what
  the network makes of its hello (`CrashHasCause`); and from true records follows the network's policy
  (`TlsSound`, `HttpSound`).

Only model-checked are the liveness properties, among them both properties of `DnsFront`:
fairness and `ENABLED` are beyond the prover.  Proved but no property of a run, since the
theorems say more than a run would: `HitsTracked`, `GoHitsTracked`, `MemoryBounded`, `WindowBounded` and
`GoWindowBounded` of the limiters, and the inductive invariants that are named as theorems.

What cannot be proved here: what a recursive definition computes for every input, including
`SelectSeq` of the standard modules.  No definition that a proof meets uses one: queues are looked at by
position, `modes` and `todo` are sets.  The operators `:>` and `@@` of `TLC` have no
definition for the prover either; `DpiProbe` writes the function out (`With`).

## 5. Not modelled

* Contents of messages, encryption, padding and delays, except where their effect is
  control (a frame that is skipped, a message that does not parse).  Codecs are pure
  functions over bytes, whose agreement a unit test reaches.
* `parse_sni`, the choice of a certificate, the GeoIP reader, the cover site.
* ShadowTLS beyond the record that this repository's client cannot get past: the proxied
  handshake, the authentication, `relayXOR` and the cover relay.  No client in the
  repository reaches them.
* Of the Android client: UDP and DNS sessions, packet layout and sequence numbers, start
  and stop of the service, `DomainManager`, `DnsOverHttps`, `NetworkDetector`,
  `TrafficShaper`, and the user interface.
* Of the measuring tool: the UDP and ICMP probes, port scans, reports, the layout of a
  ClientHello.
* `src/main.py`, which cannot start; domain fronting and certificate generation, which keep
  no state; the shell scripts.

## 6. Plan

Done, in the order of importance: `MuxServer`; the limiters with their abstract
specification; `GoRelay`; `SniProxy`; `Server`; `LegacyTunnel`; `DnsFront`; `GoClient`;
`VpnSession`; `DpiProbe`.  Next, in this order:

1. An abstract stream (two ordered byte streams with an end each) which `LegacyTunnel`
   and `GoClient` implement for a client that stays, with the refinement proved.
2. Proofs about `DnsFront` (its types; no reply without a question) and the types of
   `GoRelay` and `GoClient`.
3. `DomainManager` and `DohCache` (Android).
