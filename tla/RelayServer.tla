----------------------------- MODULE RelayServer -----------------------------
(***************************************************************************)
(* The relay server: ProxyServer (proxy_relay/server.py) with the handler  *)
(* of every connection (handler.py, tunnel.py, forwarder.py), composed     *)
(* with the connection monitor and the upstream rotation.                  *)
(*                                                                         *)
(* One event loop runs the coroutine of start(), one handler per client,   *)
(* one task per SIGUSR1 and one stop() per SIGTERM or SIGINT.  A step of   *)
(* the model is what a coroutine does between two awaits; the worker       *)
(* threads (rotations, status writes) step by themselves.                  *)
(*                                                                         *)
(* Abstractions.  A request is the path it takes through its handler;      *)
(* bytes, headers and hosts are left out.  An upstream is the number of    *)
(* its session, its exit IP the same number, 0 the empty string.  The      *)
(* status file keeps what changes while the server runs.  The upstream a   *)
(* handler took at accept decides only whether its tunnel opens, which is  *)
(* nondeterministic here, so it is not kept.                               *)
(***************************************************************************)
EXTENDS Integers, FiniteSets

CONSTANTS
    Conns,          \* client connections
    Signals,        \* SIGUSR1 deliveries
    Stops,          \* SIGTERM and SIGINT deliveries
    Main,           \* the coroutine of start()
    None,           \* no status file, or no write in flight
    WindowSize,     \* MonitorConfig.window_size
    Threshold,      \* MonitorConfig.error_threshold_count
    HealthRetries   \* _HEALTH_MAX_RETRIES

ASSUME ServerConstants ==
    /\ IsFiniteSet(Conns) /\ IsFiniteSet(Signals)
    /\ WindowSize \in Nat /\ Threshold \in Nat
    /\ HealthRetries \in Nat \ {0}
    /\ Conns \cap Signals = {} /\ Main \notin Conns \cup Signals

Tasks == Conns \cup Signals

Writers == Tasks \cup {Main}

VARIABLES
    window, now, totalConnections, totalErrors, totalRotations,
    lastRotationTime, isShutdown, rotating,                    \* the monitor
    session, cleared, upstream, step, resolved, replaced,      \* the rotations
    stage,          \* of the process: start(), serving, and how it ends
    listening,      \* the listening socket is open
    attached,       \* connections whose client transport is still open
    phase,          \* of each handler and of each SIGUSR1 task
    attempt,        \* health_check's attempt number
    probed,         \* the upstream the current health probe goes through
    activeCount,    \* _active_connections
    exitIp,         \* _exit_ip
    reportedOnce,   \* _last_status_write is set: closes may be debounced
    stop,           \* of each stop() call
    shutdownEvent,  \* _shutdown_event
    pidFile,        \* the PID file exists
    statusFile,     \* contents of the status file
    writing         \* the snapshots worker threads are writing, and for whom

Monitor == INSTANCE ConnectionMonitor WITH Callers <- Conns

Rotation == INSTANCE UpstreamRotation

monitorVars == <<window, now, totalConnections, totalErrors, totalRotations,
                 lastRotationTime, isShutdown, rotating>>
rotationVars == <<session, cleared, upstream, step, resolved, replaced>>
handlerVars == <<attached, phase, attempt, probed, activeCount, exitIp, reportedOnce>>
processVars == <<stage, listening, stop, shutdownEvent, pidFile>>
fileVars == <<statusFile, writing>>
serverVars == <<monitorVars, rotationVars, handlerVars, processVars, fileVars>>

Phases == {"new", "reading", "opening", "established", "relaying", "forwarding",
           "recovering", "cutOff", "probing", "rerouting", "answering",
           "flushing", "closing", "reporting", "rotating", "done"}

Stages == {"resolved", "bound", "pidWritten", "announcing", "serving",
           "unwinding", "exited", "killed"}

\* The event loop runs handlers from the moment the socket is bound.
Running == stage \in {"bound", "pidWritten", "announcing", "serving"}

HandlerRuns(c) == phase[c] \notin {"new", "done"}

\* Handlers that have been counted in and not yet counted out.
Counted == {c \in Conns : HandlerRuns(c) /\ phase[c] # "reporting"}

Snapshot(u, ip, n) == [upstream |-> u, exitIp |-> ip, active |-> n]

\* What _update_status_file_async hands to the worker thread.
Write(t, status) == writing' = writing \cup {[by |-> t, status |-> status]}

Written(t) == \A w \in writing : w.by # t

\* start() up to its first await: the upstream is resolved before the bind.
Init ==
    /\ Monitor!MonitorInit
    /\ Rotation!RotationInit
    /\ stage = "resolved"
    /\ listening = FALSE
    /\ attached = {}
    /\ phase = [t \in Tasks |-> "new"]
    /\ attempt = [c \in Conns |-> 0]
    /\ probed = [c \in Conns |-> 0]
    /\ activeCount = 0
    /\ exitIp = 0
    /\ reportedOnce = FALSE
    /\ stop = [s \in Stops |-> "none"]
    /\ shutdownEvent = FALSE
    /\ pidFile = FALSE
    /\ statusFile = None
    /\ writing = {}

-----------------------------------------------------------------------------
(***************************************************************************)
(* start(), and the end of the process.                                    *)
(***************************************************************************)

Bind ==
    /\ stage = "resolved"
    /\ stage' = "bound"
    /\ listening' = TRUE
    /\ UNCHANGED <<monitorVars, rotationVars, handlerVars, fileVars,
                   stop, shutdownEvent, pidFile>>

WritePid ==
    /\ stage = "bound"
    /\ stage' = "pidWritten"
    /\ pidFile' = TRUE
    /\ UNCHANGED <<monitorVars, rotationVars, handlerVars, fileVars,
                   listening, stop, shutdownEvent>>

Announce ==
    /\ stage = "pidWritten"
    /\ stage' = "announcing"
    /\ Write(Main, Snapshot(upstream, exitIp, activeCount))
    /\ UNCHANGED <<monitorVars, rotationVars, handlerVars, statusFile,
                   listening, stop, shutdownEvent, pidFile>>

InstallHandlers ==
    /\ stage = "announcing"
    /\ Written(Main)
    /\ stage' = "serving"
    /\ UNCHANGED <<monitorVars, rotationVars, handlerVars, fileVars,
                   listening, stop, shutdownEvent, pidFile>>

\* asyncio.run cancels what still runs: a handler gets to the "finally" of
\* handle_connection, a status write already handed to a thread goes on.
Unwind ==
    /\ stage' = "unwinding"
    /\ listening' = FALSE
    /\ phase' = [t \in Tasks |->
                    IF t \in Counted THEN "closing"
                    ELSE IF phase[t] = "new" THEN "new" ELSE "done"]
    /\ UNCHANGED <<monitorVars, rotationVars, fileVars, attached, attempt, probed,
                   activeCount, exitIp, reportedOnce, stop, shutdownEvent, pidFile>>

\* The bind or the PID file's write raised.
StartFails == stage \in {"resolved", "bound"} /\ Unwind

\* serve_forever returns once the event is set and its own wait_closed is over.
ServeForeverReturns ==
    /\ stage = "serving"
    /\ shutdownEvent
    /\ attached = {}
    /\ Unwind

\* Faulty variant: the process ends without joining its worker threads.
ExitWithoutJoin ==
    /\ stage = "unwinding"
    /\ Counted = {}
    /\ stage' = "exited"
    /\ pidFile' = FALSE
    /\ statusFile' = None
    /\ UNCHANGED <<monitorVars, rotationVars, handlerVars, listening, stop,
                   shutdownEvent, writing>>

\* The tasks are over, asyncio.run has joined the executor's threads, and the
\* atexit hooks of write_pid and write_status remove the files.
Exit ==
    /\ stage = "unwinding"
    /\ Counted = {}
    /\ writing = {}
    /\ stage' = "exited"
    /\ pidFile' = FALSE
    /\ statusFile' = None
    /\ UNCHANGED <<monitorVars, rotationVars, handlerVars, listening, stop,
                   shutdownEvent, writing>>

\* SIGTERM or SIGUSR1 between write_pid and add_signal_handler: the default
\* disposition ends the process at once, with no atexit hook.
KilledBySignal ==
    /\ stage \in {"pidWritten", "announcing"}
    /\ stage' = "killed"
    /\ listening' = FALSE
    /\ writing' = {}
    /\ UNCHANGED <<monitorVars, rotationVars, handlerVars, stop, shutdownEvent,
                   pidFile, statusFile>>

-----------------------------------------------------------------------------
(***************************************************************************)
(* The worker thread of a status write.                                    *)
(***************************************************************************)

\* os.replace: the snapshot becomes the file, whatever was there.
WriteLands(w) ==
    /\ stage # "killed"
    /\ w \in writing
    /\ statusFile' = w.status
    /\ writing' = writing \ {w}
    /\ UNCHANGED <<monitorVars, rotationVars, handlerVars, processVars>>

\* write_status logs a failure and returns.
WriteFails(w) ==
    /\ stage # "killed"
    /\ w \in writing
    /\ writing' = writing \ {w}
    /\ UNCHANGED <<monitorVars, rotationVars, handlerVars, processVars, statusFile>>

-----------------------------------------------------------------------------
(***************************************************************************)
(* Connection handlers.                                                    *)
(***************************************************************************)

Goto(t, p) == phase' = [phase EXCEPT ![t] = p]

Accept(c) ==
    /\ Running
    /\ listening
    /\ phase[c] = "new"
    /\ Goto(c, "reading")
    /\ attached' = attached \cup {c}
    /\ activeCount' = activeCount + 1
    /\ UNCHANGED <<monitorVars, rotationVars, processVars, fileVars,
                   attempt, probed, exitIp, reportedOnce>>

\* The client's transport goes away under the handler, which has yet to notice.
ClientResets(c) ==
    /\ Running
    /\ c \in attached
    /\ attached' = attached \ {c}
    /\ UNCHANGED <<monitorVars, rotationVars, processVars, fileVars,
                   phase, attempt, probed, activeCount, exitIp, reportedOnce>>

OnlyGoto(c, p) ==
    /\ Goto(c, p)
    /\ UNCHANGED <<monitorVars, rotationVars, processVars, fileVars,
                   attached, attempt, probed, activeCount, exitIp, reportedOnce>>

\* The request is parsed: CONNECT opens a tunnel, other methods are forwarded.
BeginOpen(c) == Running /\ phase[c] = "reading" /\ OnlyGoto(c, "opening")

BeginForward(c) == Running /\ phase[c] = "reading" /\ OnlyGoto(c, "forwarding")

\* 403 (blocked domain, health check from afar), 400 and 413: nothing recorded.
Reject(c) == Running /\ phase[c] \in {"reading", "forwarding"} /\ OnlyGoto(c, "closing")

RecordOnly(c, p) ==
    /\ Goto(c, p)
    /\ UNCHANGED <<rotationVars, processVars, fileVars,
                   attached, attempt, probed, activeCount, exitIp, reportedOnce>>

TunnelOpened(c) ==
    /\ Running
    /\ phase[c] = "opening"
    /\ Monitor!RecordSuccess(c)
    /\ RecordOnly(c, "established")

Forwarded(c) ==
    /\ Running
    /\ phase[c] = "forwarding"
    /\ Monitor!RecordSuccess(c)
    /\ RecordOnly(c, "flushing")

\* Faulty variant: what a relay fails with is recorded as well.
MayFailRelaying == {"reading", "opening", "forwarding", "established", "relaying"}

\* Every failure a handler records: no request in time, a malformed or cut-off
\* one, no tunnel, a failed forward, a client gone before its 200 was sent.
MayFail == {"reading", "opening", "forwarding", "established"}

\* A forward leaves a part of the response in the client's write buffer, also
\* one that failed half-way; all other responses are a few bytes.
Finish(c) == IF phase[c] \in {"forwarding", "cutOff"} THEN "flushing" ELSE "closing"

FailBelowThreshold(c) ==
    /\ Running
    /\ phase[c] \in MayFail
    /\ Monitor!RecordErrorOnly(c) \/ Monitor!RecordErrorInShutdown(c)
    /\ RecordOnly(c, Finish(c))

\* The failing handler itself awaits the rotation, before its error response.
FailAndRotate(c) ==
    /\ Running
    /\ phase[c] \in MayFail
    /\ Monitor!RecordErrorAndRotate(c)
    /\ Rotation!BeginRotate(c)
    /\ Goto(c, IF phase[c] = "forwarding" THEN "cutOff" ELSE "recovering")
    /\ UNCHANGED <<processVars, fileVars, attached, attempt, probed, activeCount,
                   exitIp, reportedOnce>>

RelayStarts(c) == Running /\ phase[c] = "established" /\ OnlyGoto(c, "relaying")

\* One direction ended: the other is cancelled and both writers are closed.
RelayEnds(c) ==
    /\ Running
    /\ phase[c] = "relaying"
    /\ Goto(c, "closing")
    /\ attached' = attached \ {c}
    /\ UNCHANGED <<monitorVars, rotationVars, processVars, fileVars,
                   attempt, probed, activeCount, exitIp, reportedOnce>>

\* "finally": the client is closed, once its write buffer is empty, and the
\* handler counted out.
CountOut(c) ==
    /\ phase[c] \in {"flushing", "closing"}
    /\ Running \/ stage = "unwinding"
    /\ attached' = attached \ {c}
    /\ activeCount' = activeCount - 1
    /\ UNCHANGED <<monitorVars, rotationVars, processVars, statusFile,
                   attempt, probed, exitIp>>

CloseAndReport(c) ==
    /\ CountOut(c)
    /\ Goto(c, "reporting")
    /\ reportedOnce' = TRUE
    /\ Write(c, Snapshot(upstream, exitIp, activeCount - 1))

\* Faulty variant: a debounced close leaves before the count is taken down.
CloseDebouncedUncounted(c) ==
    /\ Running
    /\ phase[c] \in {"flushing", "closing"}
    /\ reportedOnce
    /\ OnlyGoto(c, "done")

\* Within _STATUS_DEBOUNCE_SECS of another close: no write, now or later.
CloseDebounced(c) ==
    /\ CountOut(c)
    /\ Goto(c, "done")
    /\ reportedOnce
    /\ UNCHANGED <<reportedOnce, writing>>

Reported(c) ==
    /\ Running \/ stage = "unwinding"
    /\ phase[c] = "reporting"
    /\ Written(c)
    /\ OnlyGoto(c, "done")

-----------------------------------------------------------------------------
(***************************************************************************)
(* The health check.                                                       *)
(***************************************************************************)

Probe(c, n) ==
    /\ Goto(c, "probing")
    /\ attempt' = [attempt EXCEPT ![c] = n]
    /\ probed' = [probed EXCEPT ![c] = upstream]

BeginHealth(c) ==
    /\ Running
    /\ phase[c] = "reading"
    /\ Probe(c, 1)
    /\ UNCHANGED <<monitorVars, rotationVars, processVars, fileVars,
                   attached, activeCount, exitIp, reportedOnce>>

EndProbes(c) ==
    /\ attempt' = [attempt EXCEPT ![c] = 0]
    /\ probed' = [probed EXCEPT ![c] = 0]

ProbeSucceeds(c) ==
    /\ Running
    /\ phase[c] = "probing"
    /\ Goto(c, "answering")
    /\ EndProbes(c)
    /\ exitIp' = probed[c]
    /\ Write(c, Snapshot(upstream, probed[c], activeCount))
    /\ UNCHANGED <<monitorVars, rotationVars, processVars, statusFile,
                   attached, activeCount, reportedOnce>>

\* 200, once the status write is over.
Answered(c) ==
    /\ Running
    /\ phase[c] = "answering"
    /\ Written(c)
    /\ OnlyGoto(c, "closing")

\* Faulty variant: the last attempt rotates and is followed by one more.
ProbeFailsAndRotatesOnceMore(c) ==
    /\ Running
    /\ phase[c] = "probing"
    /\ attempt[c] <= HealthRetries
    /\ Rotation!BeginRotate(c)
    /\ Goto(c, "rerouting")
    /\ UNCHANGED <<monitorVars, processVars, fileVars,
                   attached, attempt, probed, activeCount, exitIp, reportedOnce>>

ProbeFailsAndRotates(c) ==
    /\ Running
    /\ phase[c] = "probing"
    /\ attempt[c] < HealthRetries
    /\ Rotation!BeginRotate(c)
    /\ Goto(c, "rerouting")
    /\ UNCHANGED <<monitorVars, processVars, fileVars,
                   attached, attempt, probed, activeCount, exitIp, reportedOnce>>

\* 503 after the last attempt.
HealthFails(c) ==
    /\ Running
    /\ phase[c] = "probing"
    /\ attempt[c] = HealthRetries
    /\ Goto(c, "closing")
    /\ EndProbes(c)
    /\ UNCHANGED <<monitorVars, rotationVars, processVars, fileVars,
                   attached, activeCount, exitIp, reportedOnce>>

-----------------------------------------------------------------------------
(***************************************************************************)
(* Rotations.                                                              *)
(***************************************************************************)

RotateSignal(g) ==
    /\ stage = "serving"
    /\ phase[g] = "new"
    /\ Rotation!BeginRotate(g)
    /\ Goto(g, "rotating")
    /\ UNCHANGED <<monitorVars, processVars, fileVars,
                   attached, attempt, probed, activeCount, exitIp, reportedOnce>>

\* What the rotation's own thread does.
RotationThread(t) ==
    /\ Running
    /\ Rotation!InvalidateSession(t) \/ Rotation!BuildUrl(t) \/ Rotation!RotateFails(t)
    /\ UNCHANGED <<monitorVars, processVars, fileVars, handlerVars>>

\* Back in the loop: the new upstream, no exit IP, and a status write.
ApplyRotation(t) ==
    /\ Running
    /\ Rotation!ApplyRotation(t)
    /\ exitIp' = 0
    /\ Write(t, Snapshot(upstream', 0, activeCount))
    /\ UNCHANGED <<monitorVars, processVars, statusFile,
                   attached, phase, attempt, probed, activeCount, reportedOnce>>

\* Faulty variant: a rotation that failed is never resumed.
DoRotateReturnsOnSuccess(t) ==
    /\ Running
    /\ Written(t)
    /\ step[t] = "publishing"
    /\ Rotation!RotationDone(t)
    /\ UNCHANGED <<processVars, fileVars, attached, activeCount, exitIp, reportedOnce>>

DoRotateReturns(t) ==
    /\ Running
    /\ Written(t)
    /\ Rotation!RotationDone(t)
    /\ UNCHANGED <<processVars, fileVars, attached, activeCount, exitIp, reportedOnce>>

RecoveryReturns(c) ==
    /\ phase[c] \in {"recovering", "cutOff"}
    /\ DoRotateReturns(c)
    /\ Monitor!RotationReturned(c)
    /\ Goto(c, Finish(c))
    /\ UNCHANGED <<attempt, probed>>

RerouteReturns(c) ==
    /\ phase[c] = "rerouting"
    /\ DoRotateReturns(c)
    /\ Probe(c, attempt[c] + 1)
    /\ UNCHANGED monitorVars

SignalReturns(g) ==
    /\ phase[g] = "rotating"
    /\ DoRotateReturns(g)
    /\ Goto(g, "done")
    /\ UNCHANGED <<monitorVars, attempt, probed>>

-----------------------------------------------------------------------------
(***************************************************************************)
(* Stopping.                                                               *)
(***************************************************************************)

\* SIGTERM or SIGINT: stop() up to its await of wait_closed.
StopSignal(s) ==
    /\ stage = "serving"
    /\ stop[s] = "none"
    /\ stop' = [stop EXCEPT ![s] = "draining"]
    /\ pidFile' = FALSE
    /\ statusFile' = None
    /\ listening' = FALSE
    /\ UNCHANGED <<monitorVars, rotationVars, handlerVars, stage, shutdownEvent, writing>>

\* Faulty variants: stop() does not wait for the clients, and stop() does not set
\* the event that serve_forever waits for.
DrainedAtOnce(s) ==
    /\ stage = "serving"
    /\ stop[s] = "draining"
    /\ Monitor!Shutdown
    /\ stop' = [stop EXCEPT ![s] = "stopped"]
    /\ shutdownEvent' = TRUE
    /\ UNCHANGED <<rotationVars, handlerVars, fileVars, stage, listening, pidFile>>

DrainedSilently(s) ==
    /\ stage = "serving"
    /\ stop[s] = "draining"
    /\ attached = {}
    /\ Monitor!Shutdown
    /\ stop' = [stop EXCEPT ![s] = "stopped"]
    /\ UNCHANGED <<rotationVars, handlerVars, fileVars, stage, listening, pidFile,
                   shutdownEvent>>

\* wait_closed returns when every client's transport is closed; only then does
\* stop() shut the monitor down.
Drained(s) ==
    /\ stage = "serving"
    /\ stop[s] = "draining"
    /\ attached = {}
    /\ Monitor!Shutdown
    /\ stop' = [stop EXCEPT ![s] = "stopped"]
    /\ shutdownEvent' = TRUE
    /\ UNCHANGED <<rotationVars, handlerVars, fileVars, stage, listening, pidFile>>

-----------------------------------------------------------------------------
\* What start(), serve_forever and the end of asyncio.run do unless a call fails.
MainStep ==
    Bind \/ WritePid \/ Announce \/ InstallHandlers \/ ServeForeverReturns \/ Exit

\* The client must read the rest of a response before its handler can close.
Flushing(c) == phase[c] = "flushing" /\ c \in attached

\* What a handler does within the timeouts of the code.
TimedStep(c) ==
    \/ BeginOpen(c) \/ BeginForward(c) \/ BeginHealth(c)
    \/ phase[c] = "reading" /\ Reject(c)
    \/ TunnelOpened(c) \/ RelayStarts(c)
    \/ phase[c] # "forwarding" /\ (FailBelowThreshold(c) \/ FailAndRotate(c))
    \/ ProbeSucceeds(c) \/ Answered(c) \/ ProbeFailsAndRotates(c) \/ HealthFails(c)
    \/ ~Flushing(c) /\ (CloseAndReport(c) \/ CloseDebounced(c))
    \/ Reported(c)
    \/ RecoveryReturns(c) \/ RerouteReturns(c)

\* What it does only at the pace of the peers: no timeout covers a relay, the
\* reading of a request body or the sending of a forwarded response.
PacedStep(c) ==
    \/ RelayEnds(c) \/ Forwarded(c)
    \/ Flushing(c) /\ (CloseAndReport(c) \/ CloseDebounced(c))
    \/ phase[c] = "forwarding" /\ (Reject(c) \/ FailBelowThreshold(c) \/ FailAndRotate(c))

ThreadStep(t) ==
    \/ t \in Tasks /\ RotationThread(t)
    \/ \E w \in writing : w.by = t /\ (WriteLands(w) \/ WriteFails(w))

Next ==
    \/ MainStep \/ StartFails \/ KilledBySignal
    \/ \E c \in Conns : Accept(c) \/ ClientResets(c) \/ TimedStep(c) \/ PacedStep(c)
    \/ \E t \in Writers : ThreadStep(t)
    \/ \E t \in Tasks : ApplyRotation(t)
    \/ \E g \in Signals : RotateSignal(g) \/ SignalReturns(g)
    \/ \E s \in Stops : StopSignal(s) \/ Drained(s)

Spec == Init /\ [][Next]_serverVars

\* The loop and its threads keep running, and what has a timeout ends.
Fairness ==
    /\ WF_serverVars(MainStep)
    /\ \A c \in Conns : WF_serverVars(TimedStep(c))
    /\ \A t \in Writers : WF_serverVars(ThreadStep(t))
    /\ \A t \in Tasks : WF_serverVars(ApplyRotation(t))
    /\ \A g \in Signals : WF_serverVars(SignalReturns(g))
    /\ \A s \in Stops : WF_serverVars(Drained(s))

FairSpec == Spec /\ Fairness

-----------------------------------------------------------------------------
(***************************************************************************)
(* Properties.                                                             *)
(***************************************************************************)

Status == [upstream : Nat, exitIp : Nat, active : Nat]

ServerTypeOK ==
    /\ stage \in Stages
    /\ listening \in BOOLEAN
    /\ attached \subseteq Conns
    /\ phase \in [Tasks -> Phases]
    /\ attempt \in [Conns -> 0..HealthRetries]
    /\ probed \in [Conns -> Nat]
    /\ activeCount \in Nat
    /\ exitIp \in Nat
    /\ reportedOnce \in BOOLEAN
    /\ stop \in [Stops -> {"none", "draining", "stopped"}]
    /\ shutdownEvent \in BOOLEAN
    /\ pidFile \in BOOLEAN
    /\ statusFile \in Status \cup {None}
    /\ writing \subseteq [by : Writers, status : Status]

\* _active_connections is the number of handlers not yet counted out, whichever
\* way they leave and also when asyncio.run cancels them (server.py:543, 564-566).
ActiveConnectionsExact == activeCount = Cardinality(Counted)

\* The process is allowed to end only once no client is attached and none can be
\* accepted, whichever of two overlapping stops comes first (server.py:193-199).
ShutdownQuiesces == shutdownEvent => attached = {} /\ ~listening

\* What the docstrings say of the monitor's shutdown(), that it prevents rotations
\* during graceful shutdown: none begins once the server is told to stop
\* (monitor.py:269-275, 284-289; stop() calls it after its drain, server.py:193-198).
ShutdownPreventsRotations ==
    [][(\E s \in Stops : stop[s] # "none") => rotating' \subseteq rotating]_serverVars

\* No order of status writes and signals leaves the files of a process that ended
\* by itself behind (server.py:188-192, pidfile.py:97-113, 284-290).
ExitLeavesNoFiles == stage = "exited" => ~pidFile /\ statusFile = None

\* However the rotations of failing handlers, health checks and SIGUSR1 overlap,
\* one that succeeds never hands back the upstream it was asked to replace, nor an
\* older one (server.py:293-294, upstream.py:207-213).
RotationsMoveOn == Rotation!RotationMovesOn

\* What is a handler's phase here, in the terms of HandlerContract.
HandlerPhase(c) ==
    CASE phase[c] \in {"new", "reading"} -> "reading"
      [] phase[c] \in {"recovering", "cutOff"} -> "failing"
      [] phase[c] \in {"probing", "rerouting", "answering"} -> "checking"
      [] phase[c] \in {"flushing", "closing"} -> "closing"
      [] phase[c] \in {"reporting", "done"} -> "done"
      [] OTHER -> phase[c]

Handler(c) == INSTANCE HandlerContract WITH
    phase <- HandlerPhase(c), outcomes <- totalConnections, errors <- totalErrors,
    cancelled <- stage \in {"unwinding", "exited", "killed"}

\* The handlers of the server are those of RequestHandler: each goes through its
\* phases in their order, and on its way tells the one monitor they share each of
\* its outcomes once, however the others, rotations and stops interleave with it
\* (server.py:535-566, handler.py:74-190).
HandlersKeepContract ==
    /\ \A c \in Conns : Handler(c)!Init
    /\ [][\A c \in Conns : [Handler(c)!Next]_(Handler(c)!vars)]_serverVars

\* How far the life of the process has come, in the terms of ServerContract.
Life ==
    CASE stage \in {"pidWritten", "announcing"} -> "written"
      [] stage = "serving" ->
             IF \E s \in Stops : stop[s] # "none" THEN "draining" ELSE "serving"
      [] stage = "unwinding" -> IF shutdownEvent THEN "draining" ELSE "starting"
      [] stage = "exited" -> "ended"
      [] stage = "killed" -> "killed"
      [] OTHER -> "starting"

Process == INSTANCE ServerContract WITH
    life <- Life, pid <- pidFile, status <- statusFile # None

\* The server is to the other processes of its profile what Lifecycle takes a
\* server for: it writes its PID once, its status only while it lives, and has
\* neither when it has ended by itself (server.py:122-199, pidfile.py:97-113,
\* 284-290).
ServerKeepsContract == Process!Spec

\* Every connection's handler ends unless a relay or a forward keeps it, at the
\* pace of its peers: no await on a rotation or a status write is for ever.
\* (handler.py:74-190, monitor.py:299-309)
HandlersFinish ==
    \A c \in Conns :
        HandlerRuns(c) ~> \/ phase[c] \in {"done", "relaying", "forwarding", "flushing"}
                         \/ stage \in {"exited", "killed"}

\* A SIGTERM ends the process unless a client holds a relay or a forward open:
\* stop() has no timeout of its own (server.py:193-199).
StopCompletes ==
    \A s \in Stops :
        stop[s] = "draining"
            ~> \/ stage = "exited"
               \/ \E c \in attached : phase[c] \in {"relaying", "forwarding", "flushing"}

=============================================================================
