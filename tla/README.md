# proxy-relay: TLA+ models and proofs

proxy-relay is a local HTTP/CONNECT proxy that forwards through a rotating SOCKS5
upstream, with a command line around it, a browser supervisor and a traffic
capture.  These modules model what runs concurrently or can fail half-way in it — the
connection monitor, the rotation of the upstream, the server with its handlers, signals,
files and shutdown, one request from its first byte to its last, the files that servers and
commands share, the list of blocked domains, the browse session with its browser profile, and
the capture session — check it with TLC, and prove its main invariants with TLAPS for any
number of connections, signals, commands and bytes and any configuration.

All paths are relative to the repository; server.py means
`src/proxy_relay/server.py`.

## 1. The system

| Component | State | Operations | Interacts with |
|---|---|---|---|
| Connection monitor (monitor.py) | rolling window (deque), counters, `_shutdown` | record_success, record_error, _trigger_rotation, shutdown, reset | called by handlers; awaits the server's `_do_rotate` |
| Upstream rotation (server.py `_do_rotate`, upstream.py) | session store, `_upstream` | rotate, get_upstream, the assignment in the loop | started by the monitor, SIGUSR1 and the health check; one worker thread each |
| Upstream manager (upstream.py) | lazily loaded config and store, `_current`, a lock | _ensure_loaded, get_upstream, rotate | called in worker threads |
| Relay server (server.py) | `_upstream`, `_exit_ip`, `_active_connections`, `_shutdown_event`, `_last_status_write` | start, serve_forever, stop, signals, health_check, _on_connection, status writes | everything below |
| Connection handler (handler.py, response.py) | one coroutine per client | parse, dispatch, CONNECT, plain HTTP, health, errors | monitor, tunnel, forwarder, health_check |
| Tunnel and pipes (tunnel.py) | two pipe tasks per tunnel | open_tunnel, relay_data | handler |
| Forwarder (forwarder.py) | none beyond the call | forward_http_request | handler |
| PID and status files (pidfile.py) | two files per profile | write_pid, remove_pid, write_status, read_status_if_alive | server, command line, browse |
| Command line (cli.py) | none of its own | start, stop, status, rotate, block, unblock, browse | files, signals, the configuration file |
| Browse supervisor (browse.py) | server process, browser process, rotation thread | auto-start, wait_for_server_ready, run, cleanup | files, signals, capture |
| Capture session (capture/) | CDP connection, poll tasks, reconnect count, writer | start, run_until_stopped, request_stop, stop | browser, a thread of its own |
| CDP client (capture/cdp_client.py) | pending futures, receive task | connect, send, close | capture session |
| Collector (capture/collector.py) | last snapshots | on_cookies, on_storage, ... | capture session, background writer |
| Profile rules (profile_rules.py) | none (report) | evaluate rules, remediations | command line, browse |
| Warmup (warmup.py) | marker in the profile | poll for the cookie | browser |
| Configuration (config.py) | the TOML file | load, blocked domains | command line, server |
| Analyzer, sanitizer, tz, lang, telemetry, logger | none that the others read | reports, tables, filters, output | — |

How they interact, and what is hard:

* One asyncio loop runs the coroutine of `start()`, one handler per client, one task
  per SIGUSR1, one `stop()` per SIGTERM or SIGINT.  Every await is a point where all
  of them interleave; status writes and rotations leave the loop for worker threads.
* A handler that fails *itself* awaits the rotation its error triggers, before it
  answers its client.  Others record outcomes meanwhile.
* Nothing serialises rotations, status writes or stops.
* Nothing locks the files: a command reads the configuration, truncates it and writes it
  while a server may load it; two browse sessions may each start a relay for one profile.
* A browse session supervises two processes, a relay and a browser, that may die, hang or
  refuse to end at any step, and may itself be interrupted or killed at any step.
* Shutdown waits for every client without a timeout, and the end of `asyncio.run`
  cancels what is left, joins the threads and runs the atexit hooks.

What makes each part correct:

* monitor: the window is the last N records and no more; a window at the threshold
  always leads to a rotation; none after shutdown; the cooldown holds;
* rotation: one that succeeds moves on, however rotations overlap; a failed one keeps
  an upstream the store did hand out;
* server: the connection count is exact on all paths; the process is allowed to end only
  when the relay is quiet; an ended process leaves no files; handlers and stops finish;
* files: they lead to the running server and to no other; a crash never locks a profile;
* capture: a stop always ends the session and loses nothing that was recorded; a lost
  connection frees whoever waits on it;
* handler: a client who stays is answered, an error or health answer is the last thing written,
  the monitor counts a request once, and no tunnel stays open;
* blocked domains: what a command announces is what the server does; only an unblock unblocks;
* browse: a session that ends takes its relays with it, and uses the relay it watches.

The full list of hazards, each at its line and with the properties that cover it, is
in PROJECT.json.

## 2. The modules

| Module | Models |
|---|---|
| ConnectionMonitor | monitor.py; any number of callers, any window size and threshold |
| UpstreamRotation | `_do_rotate` over UpstreamManager.rotate/get_upstream; any number of overlapping rotations |
| RelayServer | server.py with handler.py, tunnel.py, forwarder.py and pidfile.py as one server sees them; it composes the two modules above |
| HandlerContract | what a connection's handler is to its server: the order of its phases, and what it tells the monitor between two of them |
| ServerContract | what a server is to the other processes of its profile: how far its life has come, and when each file names it |
| MCConnectionMonitor | the first with a bound (`MaxRecords`) on its counter, for TLC |
| RequestHandler | one connection alone with its two peers: handler.py, tunnel.py, forwarder.py, the framing header of sanitizer.py, send_error |
| DomainBlocking | block and unblock (cli.py), the file they rewrite and its inheritance (config.py), SIGUSR2 (server.py) |
| ProfileRules | the rules and remediations of profile_rules.py, as operators |
| BrowseSession | browse (cli.py, browse.py, warmup.py) over ProfileRules, with the relays it starts, the files and the profile directory |
| Lifecycle | the PID and status files of one profile, shared by any number of servers (start) and status, stop and rotate commands (cli.py, pidfile.py) |
| CaptureSession | one capture session with its CDP client: main coroutine, polls, body fetches, receive loop, writer (capture/__init__.py, cdp_client.py) |
| MCRelayServer, MCDomainBlocking | symmetry sets; these instances need no bound |
| MCLifecycle | symmetry sets, and how many starts and status commands there are when commands overlap |
| MCBrowseSession | the two scenarios its runs start from |
| ConnectionMonitorProofs, UpstreamRotationProofs, RelayServerProofs, RequestHandlerProofs, LifecycleProofs, DomainBlockingProofs, BrowseSessionProofs, CaptureSessionProofs | the theorems |

**ConnectionMonitor.**  `window` is `_window`.  The records of a deque have increasing
timestamps (every append happens in the loop thread), so the deque is the set of
its records and eviction takes the oldest.  `now` is `time.monotonic()`, one tick per
record.  `rotating` holds the callers suspended at `await self._rotate_callback()`:
the await splits `_trigger_rotation` into RecordErrorAndRotate (which leaves the
window as it is) and RotationReturned (which clears it).  Latencies and
the slow warning are left out: only logs and the status display read them.

**UpstreamRotation.**  An upstream is the number of its sticky session.  `session` and
`cleared` are the session store, which belongs to proxy-st and is external: as
rotate's docstring says, its rotate drops the session and the next URL build makes a
new one.  The worker thread takes two steps (InvalidateSession, BuildUrl), either of
which may fail; ApplyRotation is the assignment back in the loop; RotationDone is the
return, after the status write.  `replaced` is a history variable: the upstream when
the rotation began.

**RelayServer.**  A step is what a coroutine does between two awaits.  `stage` is where
`start()`, `serve_forever()` and the end of `asyncio.run` stand; `phase[c]` where a
handler (or a SIGUSR1 task) stands; `attached` the clients whose transport is open,
which is what `Server.wait_closed()` waits for (Python 3.12 and later, which
pyproject.toml requires); `writing` the status snapshots that worker threads have yet
to write.  The correspondence:

| Code | Actions |
|---|---|
| start() | Init, Bind, WritePid, Announce, InstallHandlers, StartFails, KilledBySignal |
| serve_forever(), end of asyncio.run, atexit | ServeForeverReturns (with Unwind), Exit |
| write_status in its thread | WriteLands, WriteFails |
| _on_connection, handle_connection | Accept, BeginOpen, BeginForward, BeginHealth, Reject, FailBelowThreshold, FailAndRotate, CloseAndReport, CloseDebounced, Reported |
| _handle_connect, relay_data | TunnelOpened, RelayStarts, RelayEnds |
| _handle_http, forwarder | Forwarded (its failures: FailBelowThreshold, FailAndRotate) |
| health_check, _handle_health | BeginHealth, ProbeSucceeds, ProbeFailsAndRotates, RerouteReturns, HealthFails, Answered |
| _do_rotate | BeginRotate (in the action of its caller), RotationThread, ApplyRotation, RecoveryReturns, RerouteReturns, SignalReturns |
| stop(), _signal_shutdown | StopSignal, Drained |
| the client going away | ClientResets |

`Monitor == INSTANCE ConnectionMonitor WITH Callers <- Conns` and
`Rotation == INSTANCE UpstreamRotation` share their variables with the server, whose
actions conjoin theirs.

Abstractions of RelayServer: requests, hosts and bytes are the path they take; the exit IP is
the number of the upstream it belongs to (0: empty); the upstream a handler captured at accept only
decides whether its tunnel opens, which is nondeterministic, and is not kept; closing
the client and counting the handler out are one step, because only `attached` and the
count are visible between them; the debounce clock is a choice once a first close has
written.  An await inside a `finally` that asyncio.run cancels is passed over in one step.

**RequestHandler** opens up what is a phase in RelayServer.  `at` is where
handle_connection stands, `transport[p]` what its end of each of the two sockets is, `sent`
and `read` count the pieces that arrived from a peer and were taken; the first piece of the client is
the head of its request.  The peers send, end, vanish and read as they like.  `answer` is what was
written to the client, `recorded` what the monitor was told, `forwarded` the request as the
remote host gets it.  Of a request the model keeps what the dispatch tells apart: the method, the
kind of target, the declared lengths (none, one, two that differ, one that is no number), the chunks.

| Code | Actions |
|---|---|
| _read_request, dispatch | ReadsHead (in what follows it), HeadTimesOut, HeadIsCut, RefusesMalformed, RefusesHealth, DeniesHealth, DenialIsLost, BeginsHealth, AnswersHealth, Blocks, RefusesTarget, BeginsConnect, BeginsHttp, BeginsChunked, RefusesLength |
| body, _read_chunked_body | ReadsBody, ReadsChunk, ReadsLastChunk, RefusesChunks, BodyIsCut, BeginsForward |
| open_tunnel | TunnelOpens, SendsRequest, TunnelFails |
| _handle_connect | TunnelIsLost, RelayStarts, ClientLeavesTunnel |
| relay_data, _pipe | PipeReads, PipeDrained, PipeEnds, PipeClosed, CancelsPipe, RelayOver |
| forward_http_request | RequestSent, Streams, ResponseEnds, ForwardFails, SocketIsLost, ForwardReturns |
| the error clauses and "finally" of handle_connection | Fails (in the action that fails), AnswersFailure, ClosesClient, Leaves |

**DomainBlocking.**  `config` is the file that commands write, CONFIG_PATH: for each section its list, or
`Unset`.  `own[p]` is the file a server was given by `--config`, if it was: it loads and reloads that one (`File`),
which no command writes.  A command is its
read, its truncation, its write, the look for a server and the signal, with the steps of
servers and of other commands between any two of these.  `promised`, `overlapped`, `unblocked`
and `baseless` are history: what the last command has announced, and what takes its word back.

| Code | Actions |
|---|---|
| start, load_config, resolve_blocked_domains | Loads (with Inherited, Resolve), WritesPid, InstallsHandler, Ends |
| SIGUSR2, _reload_blocked_from_config | Sends, Reloads |
| _modify_blocked_domains | Reads, Truncates, Writes (with Current, Update), WriteFails, FindsServer, FindsNone, Sends |

**ProfileRules and BrowseSession.**  Rules and remediations are operators on what a profile directory
shows of itself: whether it holds anything, the state of its DataDome cookie, the marker.
`server[p]` says how far a relay has come, with two states the code does not know of: `stuck`, whose
log has filled the pipe nobody reads, and `zombie`, dead and not waited for.  `session[s]` is one
run of browse; `alone`, `kept` and `earned` are history.

| Code | Actions |
|---|---|
| a relay: start, stop, crash, exit hooks | ChecksPid, Listens, Dies, Exits, LogFillsPipe; UserStarts, UserStops for one started by hand |
| _cmd_browse up to the health check | LooksUp, TakesPort, StartsRelay, CannotStart, RelayReady, RelayNotReady, HealthCheck |
| validation and remediations | NoBrowser, Validates, ValidationRaises, Confirms, Rotates, Deletes |
| warmup | WarmupFindsRelay, WarmupStartsRelay, WarmupRelayReady, WarmupRelayNotReady, Opens, CookieFound, BrowserGone, PollTimesOut, LingerEnds, WarmupCloses, WarmupStopsRelay |
| BrowseSupervisor and its two threads | Launches, RelayPolled, AutoRotates, StopSeen, ChromiumSeen |
| the "finally", auto_stop_server | StopsRelay, FindsItStopped, Ends |
| Ctrl-C, a kill | Interrupted, Killed |
| Chromium, profile-clean | SetsCookie, LosesCookie, CookieExpires, DatabaseCorrupted, BrowserExits, OrphanExits; ProfileCleaned |

**Lifecycle** looks at the same files from outside.  `at[p]` is where each process stands —
a start, then the server it becomes, or a command — and `seen[p]` the PID it has read.
A step is one system call: the read of the PID file, the look at the process,
each unlink, the truncation of the PID file and its writing.  What RelayServer details
between two of these is one step here.  `overlapped` is history: a command was given while
another was in progress (a start counts as finished once it serves).  A signal that finds no
handler installed ends the process, as its default disposition does.  PIDs are not
reused, and file operations do not fail.

| Code | Actions |
|---|---|
| read_pid at the head of every command | Begin, ReadsPid |
| _cmd_start, _run, start() | Refused, Allowed, PortTaken, StartFails, Binds, EmptiesPid, WritesPid, Announces, InstallsHandlers |
| read_status_if_alive (status; _find_port_owner) | FindsDead, FindsAlive, CleansPid, CleansStatus, ReadsStatus |
| write_status later on; stop(); atexit hooks | WritesStatus; StopRemovesPid, StopRemovesStatus, Drained; ExitRemovesStatus, ExitRemovesPid |
| _cmd_stop, _cmd_rotate | NotRunning, Found, RemovesStale, Sends |
| a crash | Killed |

**CaptureSession** is one loop in a thread of its own.  `main` is where the main coroutine
stands, `client` the socket and receive loop of the current CdpClient, `poll` and `fetch` the
tasks that send through it.  A send is answered, fails, times out after 10 s, or is
cancelled: when the receive loop ends it cancels every pending future, and the
CancelledError that the sender then gets passes every `except Exception`.  So it ends a
poll (RecvLoopEnds), drops the response being fetched, and takes the main coroutine out of
start(), of a reconnect or of stop() (AfterCancelledSend).  close() instead cancels the
receive loop itself, which then does not reach that clean-up: a poll is left waiting for its
timeout (`orphaned`).

| Code | Actions |
|---|---|
| start(), connect() | StartFails, StartsWriter, ConnectFails, Connects, EnableFails, Started |
| run_until_stopped() | StopNoticed, LossNoticed, StopsInDelay, DelayElapses |
| _reconnect_cdp() | DelayElapses, ReplacesClient, ConnectFails, Connects, EnableFails, Reconnected |
| stop() | CancelsPolls, Disables, StopsWriter |
| recv_loop(), _on_response | RecvLoopEnds, EventArrives, FetchBegins, FetchSettles |
| _poll_cookies, _poll_storage | PollAsks, PollAnswered, PollGetsNothing, PollEnds |
| request_stop(), the browser, BackgroundWriter | RequestStop, Disconnects, WriterFlushes |

**HandlerContract and ServerContract** tie the models of different grain together.  Each says what a model
takes for granted of a part that another one opens up, and every model of that part is shown to implement it:

| Contract | Implemented by | Mapping |
|---|---|---|
| HandlerContract | the handler of RequestHandler, line by line | `HandlerPhase` of `at`; the outcomes are the length of `recorded` |
| | each handler of RelayServer, in its few phases | `HandlerPhase(c)` of `phase[c]`; the outcomes are the monitor's totals |
| ServerContract | the server of RelayServer, with its threads, stops and status writes | `Life` of `stage` and `stop` |
| | each server of Lifecycle, with its system calls on the files | `Life` of `at[s]` |
| | each relay of BrowseSession, the stuck and the zombie ones included | `Life` of `server[p]` |

A contract is written for one participant among others: OthersTell (another handler tells the monitor) and
Others (another process removes or overwrites a file) are what the rest may do.  So the
phases that RelayServer gives its handlers are those the handler has, in the order it has them, and the steps of a
server in Lifecycle and BrowseSession are what the server of RelayServer comes down to.

## 3. What the runs check

| Run | Instance | Shows |
|---|---|---|
| MonitorSafety | 3 callers, window 3, threshold 2, 7 records | OnlyRecentRecordsCount, NoMissedRotation, CooldownWhenQuiet |
| ServerSafety | 2 connections, 2 stops, threshold 2 | ServerTypeOK, ActiveConnectionsExact, ShutdownQuiesces, RotationsMoveOn, HandlersKeepContract, ServerKeepsContract |
| ServerLiveness | 1 connection, 1 SIGUSR1, 2 stops, every error rotates | HandlersFinish, StopCompletes |
| Handler | every kind of request, 3 pieces from either peer, limits of 2 | OneAnswer, StayingClientIsAnswered, RecordedOnce, TunnelClosedAtEnd, ResponseIsWhole, BodyIsWhole, HandlerKeepsContract, RelayEnds |
| Blocking | 2 servers, with or without a file of their own, 2 commands, 2 domains, any overlap | BlockingTypeOK, AnnouncedIsInForce, OnlyUnblockUnblocks |
| Browse | one session with a TIDAL start URL and a relay started by hand, or two sessions at once | BrowseTypeOK, OwnRelaysStopped, SessionUsesItsRelay, WarmupEarnsItsCookie, LostRelayEndsSession |
| Lifecycle | one by one and without a stop 4 starts, 2 status, 1 rotate; else, in any overlap, 2 starts, 1 status, 2 stops, 1 rotate; crashes anywhere | EndedServerIsNotFound, OneServerServes, FoundDespiteCrashes, ServersKeepContract |
| Capture | 2 polls, 2 fetches, 3 turns of the reconnect loop | CaptureTypeOK, NothingLostAtStop, NobodyWaitsOnLostClient, StopDrawsNear, StopEnds, LossIsNoticed |

The contracts are abstract specifications, checked as properties of the detailed ones under the mappings
of section 2: HandlersKeepContract and ServerKeepsContract of the server, HandlerKeepsContract of the handler,
ServersKeepContract of the servers of Lifecycle.  ConnectionMonitor and UpstreamRotation are parts of the server,
whose actions conjoin theirs: that it implements them is no result but the way to carry their theorems over
(section 6).

ShutdownQuiesces is about the end of the process, not about the monitor: stop() sets the shutdown event when its
drain is over, and that is what lets serve_forever() return.  What the docstrings say of the monitor's shutdown
does not hold of the drain: run ServerDrainRotates.

OneServerServes and FoundDespiteCrashes speak of commands given one by one and none of them a stop
(`OneByOne`), EndedServerIsNotFound and ServersKeepContract of all.  That two starts at once may both
pass the check, and that a status command may remove files a new server has written meanwhile, is in the run and
breaks no promise anybody made; nor does a rotate, or a stop, that reaches a server before its handlers
are installed, and ends it (AfterUsr1, AfterTerm; server.py:138-149).

BodyIsWhole says that the whole body is forwarded, not how the remote host is to know its end.
`forwarded.lengths` holds the Content-Length headers that go along, which are those the client sent: for a
chunked body none, as a rule, although the comment at handler.py:341-342 says "we forward a Content-Length
request"; or, from a client who declared a length as well, one that need not be the body's; or two that
differ, of which the handler has followed the first (handler.py:356-362).

StopDrawsNear gives each place of the capture session's main coroutine the number of steps that may be left after a stop
request (`StepsToEnd`): every step it then takes must bring it nearer its end, so none begins another turn or
goes back within one.  StopEnds says that those steps are taken.

Four runs end in a violation, each of a sentence in the documentation or in a
docstring that the code does not keep:

| Run | Property | What happens |
|---|---|---|
| BrowseRelayDies | RelayLossClosesBrowser | the relay a session has started is its child; dead and not waited for it still answers to signal 0, so the supervisor goes on with a browser that has no proxy (browse.py:1040; docs/reference.md:409) |
| LifecycleHandover | ServingServerIsFound | stop() has removed the PID file, so a new server starts and writes both files; the old one's unlink of the status file, or a status write of its drain, then takes the new one's away (server.py:190; docs/reference.md:621) |
| ServerDrainRotates | ShutdownPreventsRotations | a connection that fails while stop() drains reaches the threshold and rotates: the monitor is shut down after the drain (server.py:195-197; monitor.py:270-274, 288-289) |
| CapturePolls | PollsOutliveReconnects | a connection lost while a poll awaits its answer ends the poll task for good, and every later turn reconnects at once (capture/__init__.py:365, 591-592) |

The models also show, without a run of their own:

* *Monitor and rotation.*  The window is cleared after the awaited rotation, not before, so an error
  recorded meanwhile triggers again on the same errors (monitor.py:158-160, 299-309;
  docs/reference.md:124).  Overlapping rotations apply their results in the order
  they reach the loop, so the older session may win (server.py:293-294;
  docs/reference.md:517).
* *Server.*  A probe that outlives a rotation stores the exit IP of the replaced upstream
  (server.py:295, 390); a slow status write lands after a newer one, so an idle server may show a
  connection (server.py:506; docs/reference.md:621); a close within five seconds of another writes no status
  (server.py:32, 575; docs/reference.md:621).
* *Handler.*  A chunked body is forwarded without any framing header, or with the lengths its client declared
  besides, because Transfer-Encoding is dropped and no Content-Length takes its place (handler.py:340-342); a
  client lost during the drain of the health check's 403 counts as an error, one lost during any other
  answer of the handler's own does not (handler.py:117); what a client sends along with the
  head of a CONNECT is thrown away; an empty response counts as a success and the client gets
  nothing; a failure after part of a response puts a second response head into it
  (forwarder.py:116); a client that leaves before its 200 is drained leaves the remote
  writer open and is recorded twice, as a success and as an error (handler.py:300); the reads of a body and
  every drain are without a timeout.
* *Blocked domains.*  A reload resolves the list without the session's start URL, so it blocks the TIDAL
  domains of a TIDAL session again (server.py:254-281; config.py:126-127); a first `block` with no
  list anywhere starts from an empty one and so drops the TIDAL domains that were blocked by
  default (cli.py:1136-1149); a write that fails leaves a file without
  `[profiles.default]`, which no start accepts; a command for the default profile signals only
  that profile's server, although others inherit its list; a server started with `--config` goes on with the list of its own file,
  while the command says "blocked domains reloaded" (cli.py:1107, 1178-1179; server.py:254-260); of two overlapping commands one loses its
  change; a connection that is open keeps the set it was accepted with (server.py:563).
* *Files.*  The exit hooks of a stopped server unlink the PID and status files of its successor
  (pidfile.py:109-113, 146; docs/reference.md:615); a status command may remove files that were rewritten since it
  found them stale (pidfile.py:336-338); a rotate sent before start() has installed its
  handlers ends the server (server.py:138-149), and of two starts at once both may serve.
* *Browse.*  The standard error of an auto-started relay is a pipe nobody reads (browse.py:713):
  with the pipe full its event loop blocks, and only the kill after the timeout ends it.  Of two
  sessions that start at once one may take the other's status file (browse.py:780).  A second
  browse accepts the PID of a dead relay whose session has not waited for it.  A killed session leaves relay and Chromium
  behind; the end of a Snap Chromium may be refused.  A warm-up that times out poisons the profile
  whatever the reason (warmup.py:263-271; profile_rules.py:216-218, 496-498); an end of the
  input or any other exception in the validation launches the browser unremedied (cli.py:974-976), as a
  failed warm-up does; a seeded Snap profile passes all the rules; profile-clean deletes a
  profile in use.
* *Capture.*  A reconnect that fails before its client has a receive task is not retried, because the
  next turn waits for the polls alone, and one whose Network.enable times out leaves a session that
  waits on a client with no subscribers (capture/__init__.py:648-650, 668-677); a stop requested
  before start() has made its event is lost (728-735); a connection lost during a send of start() or
  stop() ends the thread with the writer running (833-838, 873-889); the last reconnect that
  is allowed ends the session even if it succeeds (658, 723).

Divergences seen in reading and not modelled: docs/reference.md:89 and 125 give a
default threshold of 2, config.py:200 and 456 have 5; docs/reference.md:122 says the monitor sends
SIGUSR1, the code awaits a callback; docs/reference.md:262-263 says that 0 disables the
purge of capture databases by size and by age, capture/__init__.py:515-517 then
purges all of them; models.py:119 promises max_db_count databases per profile, the purge counts those of all
profiles (capture/__init__.py:528); a database below min_rotate_kb is neither "fresh" (docs/reference.md:261) nor
"overwritten" (models.py:115-116) but shared by two sessions (capture/__init__.py:199); the
cookies are recorded "per domain match" by README.md:118-121, of all domains by
capture/__init__.py:361; changes of a cookie that shares its domain and name with one of another
path are missed (collector.py:195; README.md:121), and so is the removal of a store's last key
(capture/__init__.py:417; docs/reference.md:260), while an entry pushed out of an object store's first page
is recorded as removed (capture/__init__.py:464).

## 4. Bounds

* MaxRecords 7 against a window of 3: the window overflows, empties and fills
  again, and two rotations overlap.  The bound is in MCConnectionMonitor
  only; the module itself, and the proofs, have none.
* RelayServer needs no bound: every connection, signal and stop of an instance happens
  at most once, so the state space is finite.  Two connections are enough for what the
  properties relate — one that rotates while the other records, closes, probes or
  writes; a second one debounced by the first.  The invariants that matter most are
  proved for any number of them.
  In ServerSafety two errors make a rotation, in ServerLiveness each one does.
* `HealthRetries` is 2 or 3 (3 in the code): a first, a last and, with 3, a middle attempt; 1 in
  ServerDrainRotates, which needs no health check.
* Lifecycle needs no bound either: every command runs at most once.  Two servers are what a
  handover or a race needs, four starts a chain of crashes.  MCLifecycle gives both to one run: the
  overlapping commands, and those with a stop, begin at most `OverlapStarts` (2) starts and
  `OverlapStatuses` (1) status commands, those given one by one all of them.
* Handler: three pieces are a head and two of a body, or two of a response within its limit and one
  beyond; the limits `MaxBody` and `MaxResponse` are 2 (10 and 100 MB in the code, a piece being
  what one read brings), so that a body and a response reach them, pass them and stay below.
* Blocking: two commands are what an overlap needs; the default profile and one that inherits, a
  TIDAL domain and another one; servers start and end as often as they like.
* Browse: MCInit starts either one session with a TIDAL start URL, in any state of its profile and
  with a relay started by hand, or two sessions without one, where the overlap is what counts.
  Each session has one relay of its own and one of its warm-up.
* MaxReconnects 3 (50 in the code) gives a first turn, one after a failed or successful
  reconnect, and a last one; two fetches and two polls can each be in a different state when the
  connection goes.  Nothing else bounds Capture.
* Symmetry is used over callers, connections, stops, servers and commands in the safety runs, never
  where a liveness property is checked.
* CHECK_DEADLOCK is FALSE everywhere but in MonitorSafety: processes, commands, requests and
  sessions end, and an idle server with no client left to come has nothing to do.

## 5. Fairness

`FairSpec` assumes weak fairness of what the code bounds by a timeout or what the
loop and the threads do by themselves: start() and the end of the process, a handler's
reading (30 s), opening (30 s) and probing (15 s per await), its error response and
close, the worker threads, the callbacks that resume a coroutine.  It assumes none of
what the peers decide: a client connecting or leaving, a relay ending, a request body
arriving, a forwarded response being read (`PacedStep`).  That is why HandlersFinish and
StopCompletes exempt the relaying, forwarding and flushing handlers: `stop()` has no
timeout and waits for them for as long as they like.

CaptureSession's `FairSpec` assumes that the main coroutine goes on — each of its awaits has a
timeout, except the wait in run_until_stopped, whose step is enabled only when a task has ended
or the event is set — and that the receive loop sees its socket close.  It assumes nothing of the
browser, the polls, the fetches or the writer's thread.

RequestHandler's `FairSpec` assumes that what can run in the loop does: the head, the body, the
opening, the forwarding, the end, and each pipe but for its drain.  It assumes nothing of the
peers, nor that a drain returns; RelayEnds is under the premise that the peers read again and
again (`WaitsForReader`).

BrowseSession assumes fairness of a session's supervision only: its polling thread, its main loop
and the stop of its relay, each of whose waits has a timeout.  Relays, browsers, users
and everything before the launch owe nothing.

The few bytes of an error or health response are assumed to fit the socket buffer, so
that closing does not wait for the client; a worker thread (a file write, proxy-st) is
assumed to return.

## 6. What is proved

For all values of the constants, under the assumptions MonitorConstants (window size and
threshold are natural numbers), ServerConstants (finite disjoint sets of
connections and signals), CaptureConstants (`MaxReconnects` is a natural number, the
storage polls are polls), LifecycleConstants (servers are not commands, and no process
is `None` or `Empty`), HandlerConstants (the numbers of pieces and the limits are natural
numbers), BrowseConstants (the user's relay belongs to no session, `Nobody` is not a server),
BlockingConstants and NoFileIsNoConfig (Default is a profile, the TIDAL domains are domains,
and `Unset` and `NoFile` are neither lists nor configurations):

| Theorem | Statement |
|---|---|
| MonitorTypeCorrect, WindowIsRolling, RotationNeverMissed, UnreachableThreshold | `MonitorSpec => []P` for the four invariants of the monitor |
| ShutdownStopsRotation, CooldownHoldsWhenQuiet | the two action properties of the monitor |
| RotationTypeCorrect, SuccessfulRotationMovesOn | `RotationSpec => []P` |
| ServerMissesNoRotation, ServerShutdownStopsRotation, ServerRotationsMoveOn | the component theorems carried over to the server, by the lemmas MonitorOfServer and RotationsOfServer |
| HandlerIsAsContracted, HandlersAreAsContracted | `Spec => HandlerKeepsContract`, `Spec => HandlersKeepContract`: both models of a handler implement HandlerContract; EachHandlerIsAsContracted says `Spec => Handler(c)!Spec` of any one connection |
| ServerIsAsContracted, ServersAreAsContracted, RelaysAreAsContracted | all three models of a server implement ServerContract (RelaysKeepContract in BrowseSession); EachServerIsAsContracted and EachRelayIsAsContracted say it of any one server or relay |
| StoppedServerIsQuiet | `Spec => []ShutdownQuiesces` |
| ServerTypeCorrect, ActiveConnectionsAreExact, ExitIsClean | `Spec => []P` for ServerTypeOK, ActiveConnectionsExact, ExitLeavesNoFiles |
| HandlerTypeCorrect, HandlerAnswersOnce, HandlerRecordsOnce, HandlerClosesTunnel, HandlerAnswers, HandlerForwardsWholeBody, HandlerPassesAllOn | `Spec => []P` for HandlerTypeOK, OneAnswer, RecordedOnce, TunnelClosedAtEnd, StayingClientIsAnswered, BodyIsWhole, ResponseIsWhole, for any number of pieces and any limits |
| BlockingTypeCorrect, TidalStaysBlocked, AnnouncementsHold | `Spec => []P` for BlockingTypeOK, OnlyUnblockUnblocks, AnnouncedIsInForce, for any profiles, domains, files of `--config` and overlapping commands |
| BrowseTypeCorrect, SessionsStopTheirRelays, SessionsUseTheirRelays, WarmupsEarnTheirCookies | `Spec => []P` for BrowseTypeOK, OwnRelaysStopped, SessionUsesItsRelay, WarmupEarnsItsCookie, for any number of sessions, with and without a TIDAL start URL |
| SessionsNeverGoBack | `Spec => SessionsGoForward` (in BrowseSessionProofs): no step, of whichever process, takes a session back to an earlier place |
| LifecycleTypeCorrect, EndedServersAreNotFound | `Spec => []P` for any servers and commands in any overlap |
| CrashesLeaveOneServer, CrashesLeaveServerFound | `Spec => []P` for OneServerServes and FoundDespiteCrashes, for any servers, status and rotate commands given one by one, as long as no stop is (`OneByOne`) |
| CaptureTypeCorrect, StopLosesNothing, LostClientFreesItsWaiters, StopComesNearer | `Spec => []P` for the three invariants of the capture session, and StopDrawsNear, for any polls, fetches and limit |

*Monitor.*  OnlyRecentRecordsCount and CooldownWhenQuiet are not inductive.  MonitorInv adds
that no two records have the same timestamp and that the window holds consecutive ones
(ConsecutiveTimes: with n records, none is n ticks old), so that a full deque's oldest
record is the one that leaves the last MaxLen; and that with no rotation under way every
record is younger than the last trigger (QuietWindowIsFresh), so that the errors
of the next trigger are all fresh.  Lemmas about Push bound the cardinalities.

*Rotation.*  RotationMovesOn is not inductive: what a build will return depends on the
store.  RotationInv adds BuildWillMoveOn: while a worker is between its two calls,
the session its build would put in the URL is newer than the one it is to replace, whether or
not another worker has meanwhile consumed the cleared store.

*Server.*  Each action is shown to be a step of the monitor or to leave its variables
alone (MonitorStep, SameMonitor), and the same for the rotations (RotationStep,
SameRotation), which is so by construction; every theorem of the components follows for the server.  StoppedServerIsQuiet
uses QuiesceInv: a listening socket has no stop behind it, and the event is not set
before a stop has seen the last client leave.

The exact count and the clean exit rest on ServerInv: a handler is counted from its accept to the step that
counts it out, whatever phase it passes (GotoKeepsCount carries most actions), and a process that has ended has
neither file nor a write of one under way.  The type invariant needs that `upstream` is a session the rotations
know, which is the type theorem of UpstreamRotation seen through the refinement (UpstreamKnown).

*Contracts.*  For each model one lemma on a step (HandlersStep and LifeStep of the server, HeadAsContracted to
PeersAsContracted of the handler, ContractsStep of Lifecycle, RelaysKeep of BrowseSession) says which action of the contract
the step is for the participant in question, or that it leaves the contract's variables alone.  The handler's
needs that a body is only read of a request that is forwarded (BodyIsForwarded), the server's that no stop
comes before it serves and that the PID file is gone by its drain's end (LifeInv).  In Lifecycle and BrowseSession it is enough to say
from which place to which a step takes a server (StepsOn, Ages) and that nobody else writes its name; that no file
comes back to a server that has ended is LifecycleInv.  What BrowseSession leaves of a relay that is gone is the same whether it
exited or was killed, so that there the contract's last step is always Dies.

*Sessions.*  SessionsNeverGoBack gives each place of a session a number (`Nth`) and shows every step of a session
to raise it, and every step of anything else to leave it.

*Handler.*  None of these is inductive.  HandlerInv says for every place the handler can be at what has been
written (AnswerByPlace), recorded (OutcomeByPlace) and left open (RemoteByPlace), and why a client who stays may
still be without an answer (SilenceByPlace).  There is one lemma for each of the common endings
of a step (EarlyFails, EarlyRejects, EarlyTurns, ForwardEndsInv) and one for each group of actions.
BodyIsWhole needs BodyByPlace, which says where the body collected so far is all that was read after the head,
and where a body shorter than declared means a client that has ended.  ResponseIsWhole rests on two facts about the
remote's pieces: the answer holds as many as were taken (ForwardIsWhole), and a pipe that ended by itself,
with neither peer lost, has nothing left to take (TunnelIsWhole).

*Blocked domains.*  OnlyUnblockUnblocks speaks of the servers, but what a server loads comes from the file,
and what is in the file from the copy a command has read.  BlockingInv therefore says the same of every list
in the file and in every copy (FilesAreCovered), unless a command had no list to start from.  AnnouncedIsInForce
needs PromiseInv: an announced change is in the file, and in the copy of the one command that may be under way
(OverlapIsKnown), hence in what every later load and reload finds.

*Browse.*  BrowseInv says for each place of a session how far the two relays it may start can be
(RelaysByPlace): a warm-up's relay, for instance, is gone before the browser is launched, and while the session
finishes it may be stuck or draining but not start or serve.  A session that found nobody else at its start is the only one
under way until it has checked its port, so the files it reads are those of the relay it watches (AloneInv);
the first step of any other session takes that claim away.  CookieIsNew follows the failed rules to the deletions they
ask for, every set of which includes one that removes the cookie, and from there to the poll.

*Lifecycle.*  EndedServerIsNotFound is not inductive: that the files never name a server that has
ended needs that they name no server that has yet to write them (YoungServerIsUnknown).
A step either moves one process, removes a file, writes one or only sends a signal; one lemma
for each kind carries the actions.  For commands given one by one OneByOneInv adds that at most one process is between
its first step and its last (OneInProgress), that nothing is stopping (NoneIsStopped), that the files are those
of the server that has written them last (FilesAreOfTheServer), and that while a server serves no start gets past
its check and no status command takes it for dead (ServingExcludes).

*Capture.*  CaptureInv says of every turn under way that the limit allows it (TurnIsAllowed), of
everyone who waits for an answer through which clients that can be (WaitersHaveSockets), and
that a stopped writer is the end of the main coroutine (WriterStopsLast).  StopComesNearer takes
the actions one by one: each that could begin another turn looks at the stop event first.

Only model-checked: the liveness properties HandlersFinish, StopCompletes, RelayEnds, LostRelayEndsSession, StopEnds
and LossIsNoticed, because liveness and ENABLED are out of the prover's reach.  Every invariant and every action
property that a passing run checks is proved.  The other way round, MonitorTypeOK, HandlerTypeOK, LifecycleTypeOK and
ExitLeavesNoFiles, on which other proofs rest, RelaysKeepContract and SessionsGoForward are proved and have no run.

Two notes on the form of the definitions.  ProfileRules writes its five rules out one after the other rather than fold over
their list, and ResponseIsWhole counts with a set: what a recursive definition yields for every input is beyond
this prover.  An update of several fields of one function value is written
`[f EXCEPT ![s] = [f[s] EXCEPT !.a = ..., !.b = ...]]` throughout (Turns in BrowseSession): for
`[f EXCEPT ![s].a = ..., ![s].b = ...]` the SMT translation of tlapm 1.4.5 makes
the hypotheses contradictory, and then anything is proved from them.

## 7. Not modelled

Argument parsing and printing, logging and telemetry, the lookup tables, the header names that have nothing to do
with framing, the offline analyzer: no state that another part waits for.  Of the configuration all but
the blocked domains: it is read once.  The redaction and the differences of the capture collector, and the rotation and purge of
databases and reports: text and file loops, most of whose divergences are those at the end of section 3.  The lazy load of
UpstreamManager: start() awaits it before any handler or signal exists, so its two
locks never meet a second thread.  Chromium's arguments, profile seeding and symlinks: file and
process I/O.  rotate_proxy, open_browser_tab and read_live_status, which nothing calls; the warm-up on its
own and without verification.  proxy-st: outside the repository, modelled from its use.  Component by
component in PROJECT.json.

## 8. What is left

1. The collector's differences of cookies and storage, and the purge of capture databases with sessions that
   share a directory.
2. Lifecycle with file operations that fail, and with PIDs that are reused.
3. More proofs: that the reload and the start of DomainBlocking are those of a ServerContract server; bounds on
   the steps of the handler and of stop(), as StopDrawsNear has for the capture session.
