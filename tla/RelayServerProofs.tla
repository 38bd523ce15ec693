-------------------------- MODULE RelayServerProofs --------------------------
(***************************************************************************)
(* Theorems about RelayServer, for every set of connections, signals and   *)
(* stops and every monitor configuration.  The server is built from the    *)
(* actions of its monitor and its rotations, so that it takes only their   *)
(* steps is a lemma, which carries what ConnectionMonitorProofs and        *)
(* UpstreamRotationProofs prove over to the server.                        *)
(***************************************************************************)
EXTENDS RelayServer, FiniteSetTheorems, TLAPS

\* The theorems about the components, at the server's parameters.
MonitorProofs == INSTANCE ConnectionMonitorProofs WITH Callers <- Conns

RotationProofs == INSTANCE UpstreamRotationProofs

\* A step of the server is, for the monitor, one of its own steps or a stutter.
LEMMA MonitorStep ==
    ASSUME [Next]_serverVars
    PROVE  [Monitor!MonitorNext]_(Monitor!monitorVars)
<1> USE DEF Monitor!monitorVars, monitorVars
<1>1. CASE MainStep \/ StartFails \/ KilledBySignal
  BY <1>1 DEF MainStep, Bind, WritePid, Announce, InstallHandlers, ServeForeverReturns,
     Exit, StartFails, Unwind, KilledBySignal
<1>2. ASSUME NEW c \in Conns, Accept(c) \/ ClientResets(c)
      PROVE  UNCHANGED Monitor!monitorVars
  BY <1>2 DEF Accept, ClientResets
<1>3. ASSUME NEW c \in Conns, TunnelOpened(c) \/ Forwarded(c) \/ FailBelowThreshold(c)
                              \/ FailAndRotate(c)
      PROVE  Monitor!Record(c)
  BY <1>3 DEF TunnelOpened, Forwarded, FailBelowThreshold, FailAndRotate,
     Monitor!Record, Monitor!RecordError
<1>4. ASSUME NEW c \in Conns, RecoveryReturns(c)
      PROVE  Monitor!RotationReturned(c)
  BY <1>4 DEF RecoveryReturns
<1>5. ASSUME NEW c \in Conns,
             \/ BeginOpen(c) \/ BeginForward(c) \/ BeginHealth(c) \/ Reject(c)
             \/ RelayStarts(c) \/ RelayEnds(c) \/ ProbeSucceeds(c) \/ Answered(c)
             \/ ProbeFailsAndRotates(c) \/ HealthFails(c) \/ CloseAndReport(c)
             \/ CloseDebounced(c) \/ Reported(c) \/ RerouteReturns(c)
      PROVE  UNCHANGED Monitor!monitorVars
  BY <1>5 DEF BeginOpen, BeginForward, BeginHealth, Reject, RelayStarts, RelayEnds,
     ProbeSucceeds, Answered, ProbeFailsAndRotates, HealthFails, CloseAndReport,
     CloseDebounced, CountOut, Reported, RerouteReturns, OnlyGoto
<1>6. ASSUME NEW t \in Writers, ThreadStep(t)
      PROVE  UNCHANGED Monitor!monitorVars
  BY <1>6 DEF ThreadStep, RotationThread, WriteLands, WriteFails
<1>7. ASSUME NEW t \in Tasks, ApplyRotation(t)
      PROVE  UNCHANGED Monitor!monitorVars
  BY <1>7 DEF ApplyRotation
<1>8. ASSUME NEW g \in Signals, RotateSignal(g) \/ SignalReturns(g)
      PROVE  UNCHANGED Monitor!monitorVars
  BY <1>8 DEF RotateSignal, SignalReturns
<1>9. ASSUME NEW s \in Stops, StopSignal(s)
      PROVE  UNCHANGED Monitor!monitorVars
  BY <1>9 DEF StopSignal
<1>10. ASSUME NEW s \in Stops, Drained(s) PROVE Monitor!Shutdown
  BY <1>10 DEF Drained
<1>11. CASE UNCHANGED serverVars
  BY <1>11 DEF serverVars
<1>12. ASSUME NEW c \in Conns, TimedStep(c) \/ PacedStep(c)
       PROVE  \/ Monitor!Record(c) \/ Monitor!RotationReturned(c)
              \/ UNCHANGED Monitor!monitorVars
  BY <1>12, <1>3, <1>4, <1>5 DEF TimedStep, PacedStep
<1>13. QED
  BY <1>1, <1>2, <1>6, <1>7, <1>8, <1>9, <1>10, <1>11, <1>12 DEF Next, Monitor!MonitorNext

\* Hence a behaviour of the server is one of its monitor.
LEMMA MonitorOfServer == Spec => Monitor!MonitorSpec
<1>1. Init => Monitor!MonitorInit
  BY DEF Init
<1>2. [Next]_serverVars => [Monitor!MonitorNext]_(Monitor!monitorVars)
  BY MonitorStep
<1>3. QED
  BY <1>1, <1>2, PTL DEF Spec, Monitor!MonitorSpec

\* A step of the server is, for the rotations, one of their own steps or a stutter.
LEMMA RotationStep ==
    ASSUME [Next]_serverVars
    PROVE  [Rotation!RotationNext]_(Rotation!rotationVars)
<1> USE DEF Rotation!rotationVars, rotationVars
<1>1. CASE MainStep \/ StartFails \/ KilledBySignal
  BY <1>1 DEF MainStep, Bind, WritePid, Announce, InstallHandlers, ServeForeverReturns,
     Exit, StartFails, Unwind, KilledBySignal
<1>2. ASSUME NEW c \in Conns, Accept(c) \/ ClientResets(c)
      PROVE  UNCHANGED Rotation!rotationVars
  BY <1>2 DEF Accept, ClientResets
<1>3. ASSUME NEW c \in Conns, FailAndRotate(c) \/ ProbeFailsAndRotates(c)
      PROVE  Rotation!BeginRotate(c)
  BY <1>3 DEF FailAndRotate, ProbeFailsAndRotates
<1>4. ASSUME NEW c \in Conns, RecoveryReturns(c) \/ RerouteReturns(c)
      PROVE  Rotation!RotationDone(c)
  BY <1>4 DEF RecoveryReturns, RerouteReturns, DoRotateReturns
<1>5. ASSUME NEW c \in Conns,
             \/ BeginOpen(c) \/ BeginForward(c) \/ BeginHealth(c) \/ Reject(c)
             \/ RelayStarts(c) \/ RelayEnds(c) \/ ProbeSucceeds(c) \/ Answered(c)
             \/ HealthFails(c) \/ CloseAndReport(c) \/ CloseDebounced(c) \/ Reported(c)
             \/ TunnelOpened(c) \/ Forwarded(c) \/ FailBelowThreshold(c)
      PROVE  UNCHANGED Rotation!rotationVars
  BY <1>5 DEF BeginOpen, BeginForward, BeginHealth, Reject, RelayStarts, RelayEnds,
     ProbeSucceeds, Answered, HealthFails, CloseAndReport, CloseDebounced, CountOut,
     Reported, TunnelOpened, Forwarded, FailBelowThreshold, RecordOnly, OnlyGoto
<1>6. ASSUME NEW t \in Writers, ThreadStep(t)
      PROVE  \/ \E u \in Tasks : \/ Rotation!InvalidateSession(u) \/ Rotation!BuildUrl(u)
                                 \/ Rotation!RotateFails(u)
             \/ UNCHANGED Rotation!rotationVars
  BY <1>6 DEF ThreadStep, RotationThread, WriteLands, WriteFails
<1>7. ASSUME NEW t \in Tasks, ApplyRotation(t) PROVE Rotation!ApplyRotation(t)
  BY <1>7 DEF ApplyRotation
<1>8. ASSUME NEW g \in Signals, RotateSignal(g) PROVE Rotation!BeginRotate(g)
  BY <1>8 DEF RotateSignal
<1>9. ASSUME NEW g \in Signals, SignalReturns(g) PROVE Rotation!RotationDone(g)
  BY <1>9 DEF SignalReturns, DoRotateReturns
<1>10. ASSUME NEW s \in Stops, StopSignal(s) \/ Drained(s)
       PROVE  UNCHANGED Rotation!rotationVars
  BY <1>10 DEF StopSignal, Drained
<1>11. CASE UNCHANGED serverVars
  BY <1>11 DEF serverVars
<1>12. ASSUME NEW c \in Conns, TimedStep(c) \/ PacedStep(c)
       PROVE  \/ Rotation!BeginRotate(c) \/ Rotation!RotationDone(c)
              \/ UNCHANGED Rotation!rotationVars
  BY <1>12, <1>3, <1>4, <1>5 DEF TimedStep, PacedStep
<1>13. QED
  BY <1>1, <1>2, <1>6, <1>7, <1>8, <1>9, <1>10, <1>11, <1>12
  DEF Next, Tasks, Rotation!RotationNext

\* Hence a behaviour of the server is one of its rotations.
LEMMA RotationsOfServer == Spec => Rotation!RotationSpec
<1>1. Init => Rotation!RotationInit
  BY DEF Init
<1>2. [Next]_serverVars => [Rotation!RotationNext]_(Rotation!rotationVars)
  BY RotationStep
<1>3. QED
  BY <1>1, <1>2, PTL DEF Spec, Rotation!RotationSpec

\* The two instances of ConnectionMonitor are the same specification.
LEMMA SameMonitor ==
    /\ Monitor!MonitorInit <=> MonitorProofs!MonitorInit
    /\ [Monitor!MonitorNext]_(Monitor!monitorVars)
         <=> [MonitorProofs!MonitorNext]_(MonitorProofs!monitorVars)
    /\ Monitor!NoMissedRotation <=> MonitorProofs!NoMissedRotation
<1> USE DEF Monitor!MaxLen, Monitor!Oldest, Monitor!Push, Monitor!Errors,
            Monitor!NextRecord, Monitor!CountError, Monitor!WindowAfterError,
            Monitor!ThresholdReached,
            MonitorProofs!MaxLen, MonitorProofs!Oldest, MonitorProofs!Push,
            MonitorProofs!Errors, MonitorProofs!NextRecord, MonitorProofs!CountError,
            MonitorProofs!WindowAfterError, MonitorProofs!ThresholdReached,
            Monitor!Cardinality, MonitorProofs!Cardinality
<1>1. Monitor!MonitorInit <=> MonitorProofs!MonitorInit
  BY DEF Monitor!MonitorInit, MonitorProofs!MonitorInit
<1>2. ASSUME NEW c \in Conns
      PROVE  Monitor!Record(c) <=> MonitorProofs!Record(c)
  <2>1. Monitor!RecordSuccess(c) <=> MonitorProofs!RecordSuccess(c)
    BY DEF Monitor!RecordSuccess, MonitorProofs!RecordSuccess
  <2>2. Monitor!RecordErrorOnly(c) <=> MonitorProofs!RecordErrorOnly(c)
    BY DEF Monitor!RecordErrorOnly, MonitorProofs!RecordErrorOnly
  <2>3. Monitor!RecordErrorAndRotate(c) <=> MonitorProofs!RecordErrorAndRotate(c)
    BY DEF Monitor!RecordErrorAndRotate, MonitorProofs!RecordErrorAndRotate
  <2>4. Monitor!RecordErrorInShutdown(c) <=> MonitorProofs!RecordErrorInShutdown(c)
    BY DEF Monitor!RecordErrorInShutdown, MonitorProofs!RecordErrorInShutdown
  <2>5. QED
    BY <2>1, <2>2, <2>3, <2>4 DEF Monitor!Record, MonitorProofs!Record,
       Monitor!RecordError, MonitorProofs!RecordError
<1>3. ASSUME NEW c \in Conns
      PROVE  Monitor!RotationReturned(c) <=> MonitorProofs!RotationReturned(c)
  BY DEF Monitor!RotationReturned, MonitorProofs!RotationReturned
<1>4. (Monitor!Shutdown <=> MonitorProofs!Shutdown) /\ (Monitor!Reset <=> MonitorProofs!Reset)
  BY DEF Monitor!Shutdown, MonitorProofs!Shutdown, Monitor!Reset, MonitorProofs!Reset
<1>5. Monitor!NoMissedRotation <=> MonitorProofs!NoMissedRotation
  BY DEF Monitor!NoMissedRotation, MonitorProofs!NoMissedRotation,
     Monitor!WindowErrorCount, MonitorProofs!WindowErrorCount
<1>6. Monitor!MonitorNext <=> MonitorProofs!MonitorNext
  BY <1>2, <1>3, <1>4 DEF Monitor!MonitorNext, MonitorProofs!MonitorNext
<1>7. QED
  BY <1>1, <1>5, <1>6 DEF Monitor!monitorVars, MonitorProofs!monitorVars

\* In the server no window stays at the threshold without a rotation
\* (monitor.py:188-199): the component's theorem.
THEOREM ServerMissesNoRotation == Spec => []Monitor!NoMissedRotation
<1>1. MonitorProofs!MonitorSpec => []MonitorProofs!NoMissedRotation
  BY MonitorProofs!RotationNeverMissed, ServerConstants, PTL
<1>2. Monitor!MonitorSpec => MonitorProofs!MonitorSpec
  BY SameMonitor, PTL DEF Monitor!MonitorSpec, MonitorProofs!MonitorSpec
<1>3. QED
  BY <1>1, <1>2, SameMonitor, MonitorOfServer, PTL

\* Once shutdown() was called no handler enters a rotation (monitor.py:291-294):
\* the component's theorem.
THEOREM ServerShutdownStopsRotation == Spec => Monitor!NoRotationAfterShutdown
<1>1. MonitorProofs!MonitorSpec => MonitorProofs!NoRotationAfterShutdown
  BY MonitorProofs!ShutdownStopsRotation, ServerConstants, PTL
<1>2. Monitor!MonitorSpec => MonitorProofs!MonitorSpec
  BY SameMonitor, PTL DEF Monitor!MonitorSpec, MonitorProofs!MonitorSpec
<1>3. [isShutdown => rotating' \subseteq rotating]_(MonitorProofs!monitorVars)
        <=> [isShutdown => rotating' \subseteq rotating]_(Monitor!monitorVars)
  BY DEF Monitor!monitorVars, MonitorProofs!monitorVars
<1>4. QED
  BY <1>1, <1>2, <1>3, MonitorOfServer, PTL
  DEF Monitor!NoRotationAfterShutdown, MonitorProofs!NoRotationAfterShutdown

\* The two instances of UpstreamRotation are the same specification.
LEMMA SameRotation ==
    /\ Rotation!RotationInit <=> RotationProofs!RotationInit
    /\ [Rotation!RotationNext]_(Rotation!rotationVars)
         <=> [RotationProofs!RotationNext]_(RotationProofs!rotationVars)
    /\ Rotation!RotationMovesOn <=> RotationProofs!RotationMovesOn
<1>1. Rotation!RotationInit <=> RotationProofs!RotationInit
  BY DEF Rotation!RotationInit, RotationProofs!RotationInit
<1>2. ASSUME NEW t \in Tasks
      PROVE  /\ Rotation!BeginRotate(t) <=> RotationProofs!BeginRotate(t)
             /\ Rotation!InvalidateSession(t) <=> RotationProofs!InvalidateSession(t)
             /\ Rotation!BuildUrl(t) <=> RotationProofs!BuildUrl(t)
             /\ Rotation!RotateFails(t) <=> RotationProofs!RotateFails(t)
             /\ Rotation!ApplyRotation(t) <=> RotationProofs!ApplyRotation(t)
             /\ Rotation!RotationDone(t) <=> RotationProofs!RotationDone(t)
  <2>1. Rotation!StickySession = RotationProofs!StickySession
    BY DEF Rotation!StickySession, RotationProofs!StickySession
  <2>2. QED
    BY <2>1
    DEF Rotation!BeginRotate, RotationProofs!BeginRotate, Rotation!InvalidateSession,
        RotationProofs!InvalidateSession, Rotation!BuildUrl, RotationProofs!BuildUrl,
        Rotation!RotateFails, RotationProofs!RotateFails, Rotation!ApplyRotation,
        RotationProofs!ApplyRotation, Rotation!RotationDone, RotationProofs!RotationDone
<1>3. Rotation!RotationNext <=> RotationProofs!RotationNext
  BY <1>2 DEF Rotation!RotationNext, RotationProofs!RotationNext
<1>4. Rotation!RotationMovesOn <=> RotationProofs!RotationMovesOn
  BY DEF Rotation!RotationMovesOn, RotationProofs!RotationMovesOn
<1>5. QED
  BY <1>1, <1>3, <1>4 DEF Rotation!rotationVars, RotationProofs!rotationVars

\* However the rotations of the monitor, SIGUSR1 and health checks overlap in the
\* server, one that succeeds moves on from the upstream it was to replace
\* (server.py:283-305): the component's theorem.
THEOREM ServerRotationsMoveOn == Spec => []RotationsMoveOn
<1>1. RotationProofs!RotationSpec => []RotationProofs!RotationMovesOn
  BY RotationProofs!SuccessfulRotationMovesOn, PTL
<1>2. Rotation!RotationSpec => RotationProofs!RotationSpec
  BY SameRotation, PTL DEF Rotation!RotationSpec, RotationProofs!RotationSpec
<1>3. QED
  BY <1>1, <1>2, SameRotation, RotationsOfServer, PTL DEF RotationsMoveOn

-----------------------------------------------------------------------------
(***************************************************************************)
(* Stopping.                                                               *)
(***************************************************************************)

\* Why a stopped server stays quiet: the socket opens once, before any signal
\* handler is there, and a stop closes it for good.
QuiesceInv ==
    /\ stop \in [Stops -> {"none", "draining", "stopped"}]
    /\ stage = "resolved" => \A s \in Stops : stop[s] = "none"
    /\ \A s \in Stops : stop[s] # "none" => ~listening
    /\ shutdownEvent => \E s \in Stops : stop[s] # "none"
    /\ shutdownEvent => attached = {}

\* Steps that touch neither the stops, the socket nor the shutdown.
LEMMA QuiesceUnchanged ==
    ASSUME QuiesceInv,
           UNCHANGED <<stop, shutdownEvent>>,
           listening' => listening, attached' \subseteq attached,
           stage' = "resolved" => stage = "resolved"
    PROVE  QuiesceInv'
BY DEF QuiesceInv

LEMMA QuiesceStep ==
    ASSUME QuiesceInv, [Next]_serverVars
    PROVE  QuiesceInv'
<1> USE DEF monitorVars, handlerVars, processVars
<1>1. CASE Bind
  BY <1>1 DEF Bind, QuiesceInv
<1>2. CASE WritePid \/ Announce \/ InstallHandlers \/ ServeForeverReturns \/ Exit
           \/ StartFails \/ KilledBySignal
  BY <1>2, QuiesceUnchanged DEF WritePid, Announce, InstallHandlers, ServeForeverReturns,
     Exit, StartFails, Unwind, KilledBySignal
<1>3. ASSUME NEW c \in Conns, Accept(c) PROVE QuiesceInv'
  BY <1>3 DEF Accept, QuiesceInv
<1>4. ASSUME NEW c \in Conns, ClientResets(c) \/ RelayEnds(c) PROVE QuiesceInv'
  BY <1>4, QuiesceUnchanged DEF ClientResets, RelayEnds
<1>5. ASSUME NEW c \in Conns, TimedStep(c) \/ PacedStep(c), ~RelayEnds(c)
      PROVE  QuiesceInv'
  <2>1. UNCHANGED processVars /\ attached' \subseteq attached /\ UNCHANGED isShutdown
    BY <1>5 DEF TimedStep, PacedStep, BeginOpen, BeginForward, BeginHealth, Reject,
       RelayStarts, ProbeSucceeds, Answered, ProbeFailsAndRotates, HealthFails,
       CloseAndReport, CloseDebounced, CountOut, Reported, TunnelOpened, Forwarded,
       FailBelowThreshold, FailAndRotate, RecordOnly, OnlyGoto, RecoveryReturns,
       RerouteReturns, DoRotateReturns, Monitor!RecordSuccess, Monitor!RecordErrorOnly,
       Monitor!RecordErrorInShutdown, Monitor!RecordErrorAndRotate, Monitor!CountError,
       Monitor!RotationReturned
  <2>2. QED
    BY <2>1, QuiesceUnchanged
<1>6. ASSUME NEW t \in Writers, ThreadStep(t) PROVE QuiesceInv'
  BY <1>6, QuiesceUnchanged DEF ThreadStep, RotationThread, WriteLands, WriteFails
<1>7. ASSUME NEW t \in Tasks, ApplyRotation(t) PROVE QuiesceInv'
  BY <1>7, QuiesceUnchanged DEF ApplyRotation
<1>8. ASSUME NEW g \in Signals, RotateSignal(g) \/ SignalReturns(g) PROVE QuiesceInv'
  BY <1>8, QuiesceUnchanged DEF RotateSignal, SignalReturns, DoRotateReturns
<1>9. ASSUME NEW s \in Stops, StopSignal(s) PROVE QuiesceInv'
  BY <1>9 DEF StopSignal, QuiesceInv
<1>10. ASSUME NEW s \in Stops, Drained(s) PROVE QuiesceInv'
  BY <1>10 DEF Drained, QuiesceInv
<1>11. CASE UNCHANGED serverVars
  BY <1>11, QuiesceUnchanged DEF serverVars
<1>12. QED
  BY <1>1, <1>2, <1>3, <1>4, <1>5, <1>6, <1>7, <1>8, <1>9, <1>10, <1>11
  DEF Next, MainStep

\* Whenever the process is allowed to end, no client is attached and none can be
\* accepted (server.py:193-199), however many stops overlap.
THEOREM StoppedServerIsQuiet == Spec => []ShutdownQuiesces
<1>1. Init => QuiesceInv
  BY DEF Init, QuiesceInv, Monitor!MonitorInit
<1>2. QuiesceInv /\ [Next]_serverVars => QuiesceInv'
  BY QuiesceStep
<1>3. QuiesceInv => ShutdownQuiesces
  BY DEF QuiesceInv, ShutdownQuiesces
<1>4. QED
  BY <1>1, <1>2, <1>3, PTL DEF Spec

-----------------------------------------------------------------------------
(***************************************************************************)
(* Types, the count of connections and the files of an ended process.      *)
(***************************************************************************)

\* The upstream is a session of the store: the component's theorem.
LEMMA UpstreamKnown == Spec => [](upstream \in Nat)
<1>1. RotationProofs!RotationSpec => []RotationProofs!RotationTypeOK
  BY RotationProofs!RotationTypeCorrect, PTL
<1>2. Rotation!RotationSpec => RotationProofs!RotationSpec
  BY SameRotation, PTL DEF Rotation!RotationSpec, RotationProofs!RotationSpec
<1>3. RotationProofs!RotationTypeOK => upstream \in Nat
  BY DEF RotationProofs!RotationTypeOK
<1>4. QED
  BY <1>1, <1>2, <1>3, RotationsOfServer, PTL

\* A process that has ended has no thread left that could write a file.
EndedProcessIsClean ==
    stage = "exited" => writing = {} /\ ~pidFile /\ statusFile = None

\* A probe is repeated only below the limit.
RetriesAreBounded ==
    \A c \in Conns : phase[c] = "rerouting" => attempt[c] < HealthRetries

ServerInv ==
    /\ ServerTypeOK
    /\ ActiveConnectionsExact
    /\ EndedProcessIsClean
    /\ RetriesAreBounded

LEMMA SnapshotIsStatus ==
    ASSUME NEW u \in Nat, NEW ip \in Nat, NEW n \in Nat
    PROVE  Snapshot(u, ip, n) \in Status
BY DEF Snapshot, Status

LEMMA CountedIsFinite == IsFiniteSet(Counted)
BY ServerConstants, FS_Subset DEF ServerConstants, Counted

\* A handler that goes from one place to another before it is counted out.
LEMMA GotoKeepsCount ==
    ASSUME ServerTypeOK, NEW t \in Tasks, NEW p \in Phases, Goto(t, p),
           t \in Conns => /\ phase[t] \notin {"new", "reporting", "done"}
                          /\ p \notin {"new", "reporting", "done"}
    PROVE  phase' \in [Tasks -> Phases] /\ Counted' = Counted
BY DEF ServerTypeOK, Goto, Counted, HandlerRuns, Tasks

\* Steps of a task that keep the count, whatever they write.
LEMMA PhaseStep ==
    ASSUME ServerInv, NEW t \in Tasks, NEW p \in Phases, Goto(t, p),
           t \in Conns => /\ phase[t] \notin {"new", "reporting", "done"}
                          /\ p \notin {"new", "reporting", "done"},
           Running, UNCHANGED <<stage, listening, stop, shutdownEvent, pidFile, statusFile>>,
           UNCHANGED <<activeCount, reportedOnce>>,
           attached' \subseteq Conns,
           attempt' \in [Conns -> 0..HealthRetries], probed' \in [Conns -> Nat],
           exitIp' \in Nat, writing' \subseteq [by : Writers, status : Status],
           \A c \in Conns : \/ attempt'[c] = attempt[c]
                            \/ c = t /\ p # "rerouting",
           p = "rerouting" => attempt[t] < HealthRetries
    PROVE  ServerInv'
<1>1. phase' \in [Tasks -> Phases] /\ Counted' = Counted
  BY GotoKeepsCount DEF ServerInv
<1>2. ServerTypeOK'
  BY <1>1 DEF ServerInv, ServerTypeOK
<1>3. ActiveConnectionsExact'
  BY <1>1 DEF ServerInv, ActiveConnectionsExact
<1>4. EndedProcessIsClean'
  BY DEF Running, EndedProcessIsClean
<1>5. RetriesAreBounded'
  BY DEF ServerInv, ServerTypeOK, RetriesAreBounded, Goto, Tasks
<1>6. QED
  BY <1>2, <1>3, <1>4, <1>5 DEF ServerInv

\* Steps in which no task goes anywhere.
LEMMA StandingStep ==
    ASSUME ServerInv, UNCHANGED <<phase, activeCount, attempt, probed, reportedOnce>>,
           attached' \subseteq Conns, stage' \in Stages, listening' \in BOOLEAN,
           stop' \in [Stops -> {"none", "draining", "stopped"}],
           shutdownEvent' \in BOOLEAN, pidFile' \in BOOLEAN,
           statusFile' \in Status \cup {None}, exitIp' \in Nat,
           writing' \subseteq [by : Writers, status : Status],
           EndedProcessIsClean'
    PROVE  ServerInv'
<1>1. ServerTypeOK'
  BY DEF ServerInv, ServerTypeOK
<1>2. Counted' = Counted
  BY DEF Counted, HandlerRuns
<1>3. ActiveConnectionsExact' /\ RetriesAreBounded'
  BY <1>2 DEF ServerInv, ActiveConnectionsExact, RetriesAreBounded
<1>4. QED
  BY <1>1, <1>3 DEF ServerInv

\* asyncio.run's cancellation takes every counted handler to its "finally".
LEMMA UnwindInv ==
    ASSUME ServerInv, Unwind
    PROVE  ServerInv'
<1> USE DEF ServerInv, Unwind, fileVars
<1>1. phase' \in [Tasks -> Phases]
  BY DEF ServerTypeOK, Phases
<1>2. ServerTypeOK'
  BY <1>1 DEF ServerTypeOK, Stages
<1>3. Counted' = Counted
  BY DEF ServerTypeOK, Counted, HandlerRuns, Tasks
<1>4. ActiveConnectionsExact' /\ EndedProcessIsClean'
  BY <1>3 DEF ActiveConnectionsExact, EndedProcessIsClean
<1>5. RetriesAreBounded'
  BY DEF RetriesAreBounded, ServerTypeOK, Tasks
<1>6. QED
  BY <1>2, <1>4, <1>5

LEMMA ProcessInv ==
    ASSUME ServerInv, upstream \in Nat, MainStep \/ StartFails \/ KilledBySignal
    PROVE  ServerInv'
<1> USE DEF monitorVars, rotationVars, handlerVars, fileVars
<1> ServerTypeOK
  BY DEF ServerInv
<1>1. CASE Bind \/ WritePid \/ InstallHandlers
  BY <1>1, StandingStep
  DEF Bind, WritePid, InstallHandlers, ServerTypeOK, Stages, EndedProcessIsClean
<1>2. CASE Announce
  <2>1. Main \in Writers /\ Snapshot(upstream, exitIp, activeCount) \in Status
    BY SnapshotIsStatus DEF Writers, ServerTypeOK
  <2>2. writing' \subseteq [by : Writers, status : Status]
    BY <1>2, <2>1 DEF Announce, Write, ServerTypeOK
  <2>3. QED
    BY <1>2, <2>2, StandingStep DEF Announce, ServerTypeOK, Stages, EndedProcessIsClean
<1>3. CASE Exit \/ KilledBySignal
  BY <1>3, StandingStep DEF Exit, KilledBySignal, ServerTypeOK, Stages, EndedProcessIsClean
<1>4. CASE ServeForeverReturns \/ StartFails
  BY <1>4, UnwindInv DEF ServeForeverReturns, StartFails
<1>5. QED
  BY <1>1, <1>2, <1>3, <1>4 DEF MainStep

LEMMA AcceptInv ==
    ASSUME ServerInv, NEW c \in Conns, Accept(c) \/ ClientResets(c)
    PROVE  ServerInv'
<1> USE DEF monitorVars, rotationVars, processVars, fileVars
<1> ServerTypeOK
  BY DEF ServerInv
<1>1. CASE Accept(c)
  <2>1. phase' = [phase EXCEPT ![c] = "reading"] /\ phase[c] = "new" /\ c \in Tasks
    BY <1>1 DEF Accept, Goto, Tasks
  <2>2. Counted' = Counted \cup {c} /\ c \notin Counted
    BY <2>1 DEF ServerTypeOK, Counted, HandlerRuns, Tasks
  <2>3. ActiveConnectionsExact'
    BY <1>1, <2>2, CountedIsFinite, FS_AddElement DEF Accept, ServerInv, ActiveConnectionsExact
  <2>4. ServerTypeOK'
    BY <1>1, <2>1 DEF Accept, ServerTypeOK, Phases
  <2>5. EndedProcessIsClean' /\ RetriesAreBounded'
    BY <1>1, <2>1 DEF Accept, ServerInv, ServerTypeOK, EndedProcessIsClean, RetriesAreBounded
  <2>6. QED
    BY <2>3, <2>4, <2>5 DEF ServerInv
<1>2. CASE ClientResets(c)
  BY <1>2, StandingStep DEF ClientResets, ServerTypeOK, EndedProcessIsClean, Running
<1>3. QED
  BY <1>1, <1>2

\* A handler is counted out.
LEMMA CountOutInv ==
    ASSUME ServerInv, upstream \in Nat, NEW c \in Conns, CloseAndReport(c) \/ CloseDebounced(c)
    PROVE  ServerInv'
<1> USE DEF monitorVars, rotationVars, processVars
<1> ServerTypeOK /\ c \in Tasks
  BY DEF ServerInv, Tasks
<1>1. /\ phase[c] \in {"flushing", "closing"} /\ (Running \/ stage = "unwinding")
      /\ attached' = attached \ {c} /\ activeCount' = activeCount - 1
      /\ UNCHANGED <<stage, listening, stop, shutdownEvent, pidFile, statusFile,
                     attempt, probed, exitIp>>
  BY DEF CloseAndReport, CloseDebounced, CountOut
<1>2. PICK p \in {"reporting", "done"} : phase' = [phase EXCEPT ![c] = p]
  BY DEF CloseAndReport, CloseDebounced, Goto
<1>3. Counted' = Counted \ {c} /\ c \in Counted
  BY <1>1, <1>2 DEF ServerTypeOK, Counted, HandlerRuns, Tasks
<1>4. /\ Cardinality(Counted') = Cardinality(Counted) - 1
      /\ Cardinality(Counted') \in Nat
  BY <1>3, CountedIsFinite, FS_RemoveElement, FS_CardinalityType, FS_Subset
<1>5. ActiveConnectionsExact' /\ activeCount' \in Nat
  BY <1>1, <1>4 DEF ServerInv, ActiveConnectionsExact
<1>6. reportedOnce' \in BOOLEAN /\ writing' \subseteq [by : Writers, status : Status]
  <2>1. CASE CloseAndReport(c)
    <3>1. Snapshot(upstream, exitIp, activeCount - 1) \in Status /\ c \in Writers
      BY <1>1, <1>5, SnapshotIsStatus DEF ServerTypeOK, Writers
    <3>2. QED
      BY <2>1, <3>1 DEF CloseAndReport, Write, ServerTypeOK
  <2>2. CASE CloseDebounced(c)
    BY <2>2 DEF CloseDebounced, ServerTypeOK
  <2>3. QED
    BY <2>1, <2>2
<1>7. ServerTypeOK'
  BY <1>1, <1>2, <1>5, <1>6 DEF ServerTypeOK, Phases
<1>8. EndedProcessIsClean' /\ RetriesAreBounded'
  BY <1>1, <1>2 DEF ServerInv, ServerTypeOK, EndedProcessIsClean, RetriesAreBounded, Running
<1>9. QED
  BY <1>5, <1>7, <1>8 DEF ServerInv

\* The way through a tunnel or a forward.
LEMMA HandlingInv ==
    ASSUME ServerInv, NEW c \in Conns,
           \/ BeginOpen(c) \/ BeginForward(c) \/ Reject(c) \/ RelayStarts(c) \/ RelayEnds(c)
           \/ TunnelOpened(c) \/ Forwarded(c) \/ FailBelowThreshold(c) \/ FailAndRotate(c)
           \/ Answered(c)
    PROVE  ServerInv'
<1> USE DEF monitorVars, rotationVars, processVars, fileVars
<1> ServerTypeOK /\ c \in Tasks
  BY DEF ServerInv, Tasks
<1>1. PICK p \in {"opening", "forwarding", "closing", "relaying", "established",
                  "flushing", "recovering", "cutOff"} : Goto(c, p)
  BY DEF BeginOpen, BeginForward, Reject, RelayStarts, RelayEnds, TunnelOpened, Forwarded,
     FailBelowThreshold, FailAndRotate, Answered, OnlyGoto, RecordOnly, Finish
<1>2. /\ Running /\ phase[c] \notin {"new", "reporting", "done"}
      /\ UNCHANGED <<stage, listening, stop, shutdownEvent, pidFile, statusFile, writing,
                     activeCount, reportedOnce, attempt, probed, exitIp>>
      /\ attached' \subseteq attached
  BY DEF BeginOpen, BeginForward, Reject, RelayStarts, RelayEnds, TunnelOpened, Forwarded,
     FailBelowThreshold, FailAndRotate, Answered, OnlyGoto, RecordOnly, MayFail
<1>3. p \in Phases
  BY DEF Phases
<1>4. QED
  BY <1>1, <1>2, <1>3, PhaseStep DEF ServerTypeOK

\* The last step of a handler that was counted out.
LEMMA ReportedInv ==
    ASSUME ServerInv, NEW c \in Conns, Reported(c)
    PROVE  ServerInv'
<1> USE DEF ServerInv, Reported, OnlyGoto, Goto, monitorVars, rotationVars, processVars, fileVars
<1>1. phase' = [phase EXCEPT ![c] = "done"] /\ phase[c] = "reporting" /\ c \in Tasks
  BY DEF Tasks
<1>2. Counted' = Counted
  BY <1>1 DEF ServerTypeOK, Counted, HandlerRuns, Tasks
<1>3. ServerTypeOK'
  BY <1>1 DEF ServerTypeOK, Phases
<1>4. ActiveConnectionsExact' /\ EndedProcessIsClean' /\ RetriesAreBounded'
  BY <1>1, <1>2 DEF ServerTypeOK, ActiveConnectionsExact, EndedProcessIsClean, RetriesAreBounded
<1>5. QED
  BY <1>3, <1>4

\* The health check: a probe goes through the upstream of the moment.
LEMMA HealthInv ==
    ASSUME ServerInv, upstream \in Nat, NEW c \in Conns,
           \/ BeginHealth(c) \/ ProbeSucceeds(c) \/ ProbeFailsAndRotates(c)
           \/ HealthFails(c) \/ RerouteReturns(c)
    PROVE  ServerInv'
<1> USE DEF monitorVars, rotationVars, processVars, fileVars
<1> ServerTypeOK /\ c \in Tasks /\ c \in Writers
  BY DEF ServerInv, Tasks, Writers
<1> {"probing", "answering", "closing", "rerouting"} \subseteq Phases
  BY DEF Phases
<1>1. CASE BeginHealth(c)
  <2>1. 1 \in 0..HealthRetries
    BY ServerConstants DEF ServerConstants
  <2>2. attempt' \in [Conns -> 0..HealthRetries] /\ probed' \in [Conns -> Nat]
    BY <1>1, <2>1 DEF BeginHealth, Probe, ServerTypeOK
  <2>3. QED
    BY <1>1, <2>2, PhaseStep DEF BeginHealth, Probe, ServerTypeOK
<1>2. CASE ProbeSucceeds(c)
  <2>1. attempt' \in [Conns -> 0..HealthRetries] /\ probed' \in [Conns -> Nat]
    BY <1>2, ServerConstants DEF ServerConstants, ProbeSucceeds, EndProbes, ServerTypeOK
  <2>2. Snapshot(upstream, probed[c], activeCount) \in Status
    BY SnapshotIsStatus DEF ServerTypeOK
  <2>3. exitIp' \in Nat /\ writing' \subseteq [by : Writers, status : Status]
    BY <1>2, <2>2 DEF ProbeSucceeds, Write, ServerTypeOK
  <2>4. QED
    BY <1>2, <2>1, <2>3, PhaseStep DEF ProbeSucceeds, EndProbes, ServerTypeOK
<1>3. CASE ProbeFailsAndRotates(c)
  BY <1>3, PhaseStep DEF ProbeFailsAndRotates, ServerTypeOK
<1>4. CASE HealthFails(c)
  <2>1. attempt' \in [Conns -> 0..HealthRetries] /\ probed' \in [Conns -> Nat]
    BY <1>4, ServerConstants DEF ServerConstants, HealthFails, EndProbes, ServerTypeOK
  <2>2. QED
    BY <1>4, <2>1, PhaseStep DEF HealthFails, EndProbes, ServerTypeOK
<1>5. CASE RerouteReturns(c)
  <2>1. attempt[c] < HealthRetries
    BY <1>5 DEF RerouteReturns, ServerInv, RetriesAreBounded
  <2>2. attempt[c] + 1 \in 0..HealthRetries
    BY <2>1, ServerConstants DEF ServerConstants, ServerTypeOK
  <2>3. attempt' \in [Conns -> 0..HealthRetries] /\ probed' \in [Conns -> Nat]
    BY <1>5, <2>2 DEF RerouteReturns, Probe, ServerTypeOK
  <2>4. QED
    BY <1>5, <2>3, PhaseStep DEF RerouteReturns, DoRotateReturns, Probe, ServerTypeOK
<1>6. QED
  BY <1>1, <1>2, <1>3, <1>4, <1>5

\* Rotations begin, return and are applied.
LEMMA RotatingInv ==
    ASSUME ServerInv, upstream' \in Nat,
           \/ \E c \in Conns : RecoveryReturns(c)
           \/ \E g \in Signals : RotateSignal(g) \/ SignalReturns(g)
           \/ \E t \in Tasks : ApplyRotation(t)
    PROVE  ServerInv'
<1> USE DEF monitorVars, rotationVars, processVars, fileVars
<1> ServerTypeOK
  BY DEF ServerInv
<1>1. ASSUME NEW c \in Conns, RecoveryReturns(c) PROVE ServerInv'
  <2>1. c \in Tasks /\ Finish(c) \in {"flushing", "closing"} /\ Finish(c) \in Phases
    BY DEF Tasks, Finish, Phases
  <2>2. QED
    BY <1>1, <2>1, PhaseStep DEF RecoveryReturns, DoRotateReturns, ServerTypeOK
<1>2. ASSUME NEW g \in Signals, RotateSignal(g) \/ SignalReturns(g) PROVE ServerInv'
  <2>1. g \in Tasks /\ g \notin Conns /\ {"rotating", "done"} \subseteq Phases
    BY ServerConstants DEF ServerConstants, Tasks, Phases
  <2>2. PICK p \in {"rotating", "done"} : Goto(g, p)
    BY <1>2 DEF RotateSignal, SignalReturns
  <2>3. /\ Running
        /\ UNCHANGED <<stage, listening, stop, shutdownEvent, pidFile, statusFile, writing,
                       activeCount, reportedOnce, attached, attempt, probed, exitIp>>
    BY <1>2 DEF RotateSignal, SignalReturns, DoRotateReturns, Running
  <2>4. QED
    BY <2>1, <2>2, <2>3, PhaseStep DEF ServerTypeOK
<1>3. ASSUME NEW t \in Tasks, ApplyRotation(t) PROVE ServerInv'
  <2>1. Snapshot(upstream', 0, activeCount) \in Status /\ t \in Writers
    BY SnapshotIsStatus DEF ServerTypeOK, Writers
  <2>2. writing' \subseteq [by : Writers, status : Status]
    BY <1>3, <2>1 DEF ApplyRotation, Write, ServerTypeOK
  <2>3. QED
    BY <1>3, <2>2, StandingStep DEF ApplyRotation, ServerTypeOK, EndedProcessIsClean, Running
<1>4. QED
  BY <1>1, <1>2, <1>3

\* The worker threads, and the coroutines of stop().
LEMMA ThreadInv ==
    ASSUME ServerInv, NEW t \in Writers, ThreadStep(t)
    PROVE  ServerInv'
<1> USE DEF monitorVars, rotationVars, processVars, handlerVars, fileVars
<1> ServerTypeOK
  BY DEF ServerInv
<1>1. CASE RotationThread(t)
  BY <1>1, StandingStep DEF RotationThread, ServerTypeOK, EndedProcessIsClean, Running
<1>2. ASSUME NEW w \in writing, WriteLands(w) \/ WriteFails(w) PROVE ServerInv'
  <2>1. w.status \in Status /\ stage # "exited"
    BY <1>2 DEF ServerInv, ServerTypeOK, EndedProcessIsClean
  <2>2. statusFile' \in Status \cup {None} /\ writing' \subseteq writing /\ stage' # "exited"
    BY <1>2, <2>1 DEF WriteLands, WriteFails, ServerTypeOK
  <2>3. QED
    BY <1>2, <2>2, StandingStep DEF WriteLands, WriteFails, ServerTypeOK, EndedProcessIsClean
<1>3. QED
  BY <1>1, <1>2 DEF ThreadStep

LEMMA StoppingInv ==
    ASSUME ServerInv, NEW s \in Stops, StopSignal(s) \/ Drained(s)
    PROVE  ServerInv'
BY StandingStep DEF ServerInv, StopSignal, Drained, ServerTypeOK, EndedProcessIsClean,
    monitorVars, rotationVars, handlerVars, fileVars

LEMMA ServerStepInv ==
    ASSUME ServerInv, [Next]_serverVars, upstream \in Nat, upstream' \in Nat
    PROVE  ServerInv'
<1>1. ASSUME NEW c \in Conns, TimedStep(c) \/ PacedStep(c) PROVE ServerInv'
  <2>1. CASE CloseAndReport(c) \/ CloseDebounced(c)
    BY <2>1, CountOutInv
  <2>2. CASE \/ BeginHealth(c) \/ ProbeSucceeds(c) \/ ProbeFailsAndRotates(c)
             \/ HealthFails(c) \/ RerouteReturns(c)
    BY <2>2, HealthInv
  <2>3. CASE RecoveryReturns(c)
    BY <2>3, RotatingInv
  <2>4. CASE Reported(c)
    BY <2>4, ReportedInv
  <2>5. CASE \/ BeginOpen(c) \/ BeginForward(c) \/ Reject(c) \/ RelayStarts(c)
             \/ RelayEnds(c) \/ TunnelOpened(c) \/ Forwarded(c)
             \/ FailBelowThreshold(c) \/ FailAndRotate(c) \/ Answered(c)
    BY <2>5, HandlingInv
  <2>6. QED
    BY <1>1, <2>1, <2>2, <2>3, <2>4, <2>5 DEF TimedStep, PacedStep
<1>2. CASE UNCHANGED serverVars
  <2>1. Counted' = Counted
    BY <1>2 DEF serverVars, handlerVars, Counted, HandlerRuns
  <2>2. QED
    BY <1>2, <2>1 DEF serverVars, handlerVars, processVars, fileVars, ServerInv, ServerTypeOK,
       ActiveConnectionsExact, EndedProcessIsClean, RetriesAreBounded
<1>3. QED
  BY <1>1, <1>2, ProcessInv, AcceptInv, RotatingInv, ThreadInv, StoppingInv DEF Next

LEMMA ServerInitInv == Init => ServerInv
<1> SUFFICES ASSUME Init PROVE ServerInv
  OBVIOUS
<1>1. Counted = {} /\ Cardinality({}) = 0
  BY FS_EmptySet DEF Init, Counted, HandlerRuns, Tasks
<1>2. ServerTypeOK
  <2>1. 0 \in 0..HealthRetries /\ "new" \in Phases /\ "resolved" \in Stages
    BY ServerConstants DEF ServerConstants, Phases, Stages
  <2>2. phase \in [Tasks -> Phases] /\ attempt \in [Conns -> 0..HealthRetries]
    BY <2>1 DEF Init
  <2>3. QED
    BY <2>1, <2>2 DEF Init, ServerTypeOK
<1>3. QED
  BY <1>1, <1>2 DEF Init, ServerInv, ActiveConnectionsExact, EndedProcessIsClean,
     RetriesAreBounded, Tasks

LEMMA ServerInvariance == Spec => []ServerInv
<1> DEFINE Known == upstream \in Nat
<1>1. ServerInv /\ [Next]_serverVars /\ Known /\ Known' => ServerInv'
  BY ServerStepInv
<1>2. Spec => []Known
  BY UpstreamKnown
<1> HIDE DEF Known
<1>3. QED
  BY ServerInitInv, <1>1, <1>2, PTL DEF Spec

\* Every status that is written names a session, an exit IP and a number of
\* connections, and no health check makes more attempts than _HEALTH_MAX_RETRIES
\* (server.py:376-411, 421-462).
THEOREM ServerTypeCorrect == Spec => []ServerTypeOK
BY ServerInvariance, PTL DEF ServerInv

\* For any number of clients, and whichever way each handler leaves: the count is
\* that of the handlers not yet counted out (server.py:543, 564-566).
THEOREM ActiveConnectionsAreExact == Spec => []ActiveConnectionsExact
BY ServerInvariance, PTL DEF ServerInv

\* However many status writes are in flight when a server is stopped, none lands
\* after its hooks have run (server.py:188-192, pidfile.py:97-113, 284-290).
THEOREM ExitIsClean == Spec => []ExitLeavesNoFiles
<1>1. ServerInv => ExitLeavesNoFiles
  BY DEF ServerInv, EndedProcessIsClean, ExitLeavesNoFiles
<1>2. QED
  BY <1>1, ServerInvariance, PTL

-----------------------------------------------------------------------------
(***************************************************************************)
(* The contracts: with each handler, and with the profile's processes.     *)
(***************************************************************************)

\* In the contract's terms the server runs its handlers no longer.
Cancelled == stage \in {"unwinding", "exited", "killed"}

\* What a step may have told the monitor.
Told ==
    \/ UNCHANGED <<totalConnections, totalErrors>>
    \/ totalConnections' = totalConnections + 1 /\ UNCHANGED totalErrors
    \/ totalConnections' = totalConnections + 1 /\ totalErrors' = totalErrors + 1

\* A step in which c stays where it is, for the contract.
LEMMA HandlerStands ==
    ASSUME NEW c \in Conns, UNCHANGED <<HandlerPhase(c), Cancelled>>, Told
    PROVE  [Handler(c)!Next]_(Handler(c)!vars)
<1>1. CASE UNCHANGED <<totalConnections, totalErrors>>
  BY <1>1 DEF Handler!vars, Cancelled
<1>2. CASE totalConnections' = totalConnections + 1
  BY <1>2 DEF Handler!Next, Handler!OthersTell, Handler!TellsSuccess, Handler!TellsError,
     Cancelled, Told
<1>3. QED
  BY <1>1, <1>2 DEF Told

\* What a step of a handler's coroutine leaves alone, and what it may tell.
LEMMA HandlerSteps ==
    ASSUME NEW c \in Conns, TimedStep(c) \/ PacedStep(c)
    PROVE  UNCHANGED stage /\ Told /\ \E p : Goto(c, p)
<1> USE DEF Told, processVars, monitorVars, Monitor!monitorVars
<1>1. CASE TunnelOpened(c) \/ Forwarded(c)
  BY <1>1 DEF TunnelOpened, Forwarded, RecordOnly, Monitor!RecordSuccess
<1>2. CASE FailBelowThreshold(c) \/ FailAndRotate(c)
  BY <1>2 DEF FailBelowThreshold, FailAndRotate, RecordOnly, Monitor!RecordErrorOnly,
     Monitor!RecordErrorInShutdown, Monitor!RecordErrorAndRotate, Monitor!CountError
<1>3. CASE \/ BeginOpen(c) \/ BeginForward(c) \/ BeginHealth(c) \/ Reject(c)
           \/ RelayStarts(c) \/ RelayEnds(c) \/ Answered(c) \/ Reported(c)
  BY <1>3 DEF BeginOpen, BeginForward, BeginHealth, Probe, Reject, RelayStarts, RelayEnds,
     Answered, Reported, OnlyGoto
<1>4. CASE ProbeSucceeds(c) \/ ProbeFailsAndRotates(c) \/ HealthFails(c)
  BY <1>4 DEF ProbeSucceeds, ProbeFailsAndRotates, HealthFails
<1>5. CASE RecoveryReturns(c) \/ RerouteReturns(c)
  BY <1>5 DEF RecoveryReturns, RerouteReturns, DoRotateReturns, Probe, Monitor!RotationReturned
<1>6. CASE CloseAndReport(c) \/ CloseDebounced(c)
  BY <1>6 DEF CloseAndReport, CloseDebounced, CountOut
<1>7. QED
  BY <1>1, <1>2, <1>3, <1>4, <1>5, <1>6 DEF TimedStep, PacedStep

\* A handler goes nowhere when another does.
LEMMA OthersStand ==
    ASSUME ServerTypeOK, NEW c \in Conns, NEW t \in Tasks, t # c, NEW p, Goto(t, p)
    PROVE  UNCHANGED HandlerPhase(c)
BY DEF ServerTypeOK, Goto, HandlerPhase, Tasks

\* A handler's own steps are those of the contract.
LEMMA OwnSteps ==
    ASSUME ServerTypeOK, NEW c \in Conns, TimedStep(c) \/ PacedStep(c)
    PROVE  [Handler(c)!Next]_(Handler(c)!vars)
<1> DEFINE turn(from, to) == phase[c] \in from /\ phase'[c] \in to
<1>1. UNCHANGED Cancelled /\ Told /\ (Running => ~Cancelled)
  BY HandlerSteps DEF Cancelled, Running
<1>2. \A p : Goto(c, p) => phase'[c] = p
  BY DEF ServerTypeOK, Goto, Tasks
<1>3. ASSUME UNCHANGED HandlerPhase(c)
      PROVE  [Handler(c)!Next]_(Handler(c)!vars)
  BY <1>1, <1>3, HandlerStands
<1> USE DEF Handler!Next, Handler!Goes, Cancelled
<1>4. CASE BeginOpen(c) \/ BeginForward(c) \/ BeginHealth(c)
  <2>1. /\ Running /\ UNCHANGED <<totalConnections, totalErrors>>
        /\ turn({"reading"}, {"opening", "forwarding", "probing"})
    BY <1>2, <1>4 DEF BeginOpen, BeginForward, BeginHealth, OnlyGoto, Probe, monitorVars
  <2>2. HandlerPhase(c) = "reading" /\ HandlerPhase(c)' \in {"opening", "forwarding", "checking"}
    BY <2>1 DEF HandlerPhase
  <2>3. QED
    BY <1>1, <2>1, <2>2 DEF Handler!Dispatches, Handler!TellsNothing
<1>5. CASE Reject(c) \/ Answered(c) \/ HealthFails(c)
  <2>1. /\ Running /\ UNCHANGED <<totalConnections, totalErrors>>
        /\ turn({"reading", "forwarding", "answering", "probing"}, {"closing"})
    BY <1>2, <1>5 DEF Reject, Answered, HealthFails, OnlyGoto, monitorVars
  <2>2. /\ HandlerPhase(c) \in {"reading", "forwarding", "checking"}
        /\ HandlerPhase(c)' = "closing"
    BY <2>1 DEF HandlerPhase
  <2>3. QED
    BY <1>1, <2>1, <2>2 DEF Handler!Answers, Handler!TellsNothing
<1>6. CASE TunnelOpened(c) \/ Forwarded(c)
  <2>1. /\ Running
        /\ totalConnections' = totalConnections + 1 /\ UNCHANGED totalErrors
        /\ turn({"opening"}, {"established"}) \/ turn({"forwarding"}, {"flushing"})
    BY <1>2, <1>6 DEF TunnelOpened, Forwarded, RecordOnly, Monitor!RecordSuccess
  <2>2. \/ HandlerPhase(c) = "opening" /\ HandlerPhase(c)' = "established"
        \/ HandlerPhase(c) = "forwarding" /\ HandlerPhase(c)' = "closing"
    BY <2>1 DEF HandlerPhase
  <2>3. QED
    BY <1>1, <2>1, <2>2 DEF Handler!TunnelOpens, Handler!Forwarded, Handler!TellsSuccess
<1>7. CASE FailBelowThreshold(c) \/ FailAndRotate(c)
  <2>1. /\ Running
        /\ totalConnections' = totalConnections + 1 /\ totalErrors' = totalErrors + 1
        /\ turn(MayFail, {"recovering", "cutOff", "flushing", "closing"})
    BY <1>2, <1>7 DEF FailBelowThreshold, FailAndRotate, RecordOnly, Finish,
       Monitor!RecordErrorOnly, Monitor!RecordErrorInShutdown,
       Monitor!RecordErrorAndRotate, Monitor!CountError
  <2>2. /\ HandlerPhase(c) \in {"reading", "opening", "established", "forwarding"}
        /\ HandlerPhase(c)' \in {"failing", "closing"}
    BY <2>1 DEF HandlerPhase, MayFail
  <2>3. QED
    BY <1>1, <2>1, <2>2 DEF Handler!Fails, Handler!TellsError
<1>8. CASE RelayStarts(c) \/ RelayEnds(c) \/ RecoveryReturns(c)
  <2>1. /\ Running /\ UNCHANGED <<totalConnections, totalErrors>>
        /\ \/ turn({"established"}, {"relaying"})
           \/ turn({"relaying"}, {"closing"})
           \/ turn({"recovering", "cutOff"}, {"flushing", "closing"})
    BY <1>2, <1>8 DEF RelayStarts, RelayEnds, RecoveryReturns, DoRotateReturns, OnlyGoto,
       Finish, Monitor!RotationReturned, monitorVars
  <2>2. \/ HandlerPhase(c) = "established" /\ HandlerPhase(c)' = "relaying"
        \/ HandlerPhase(c) = "relaying" /\ HandlerPhase(c)' = "closing"
        \/ HandlerPhase(c) = "failing" /\ HandlerPhase(c)' = "closing"
    BY <2>1 DEF HandlerPhase
  <2>3. QED
    BY <1>1, <2>1, <2>2
    DEF Handler!Relays, Handler!RelayOver, Handler!Recovers, Handler!TellsNothing
<1>9. CASE CloseAndReport(c) \/ CloseDebounced(c)
  <2>1. /\ UNCHANGED <<totalConnections, totalErrors>>
        /\ turn({"flushing", "closing"}, {"reporting", "done"})
    BY <1>2, <1>9 DEF CloseAndReport, CloseDebounced, CountOut, monitorVars
  <2>2. HandlerPhase(c) = "closing" /\ HandlerPhase(c)' = "done"
    BY <2>1 DEF HandlerPhase
  <2>3. QED
    BY <1>1, <2>1, <2>2 DEF Handler!Leaves, Handler!TellsNothing
<1>10. CASE \/ ProbeSucceeds(c) \/ ProbeFailsAndRotates(c) \/ RerouteReturns(c)
            \/ Reported(c)
  <2>1. \/ turn({"probing", "rerouting"}, {"answering", "rerouting", "probing"})
        \/ turn({"reporting"}, {"done"})
    BY <1>2, <1>10 DEF ProbeSucceeds, ProbeFailsAndRotates, RerouteReturns, Reported,
       OnlyGoto, Probe
  <2>2. UNCHANGED HandlerPhase(c)
    BY <2>1 DEF HandlerPhase
  <2>3. QED
    BY <2>2, <1>3
<1>11. QED
  BY <1>4, <1>5, <1>6, <1>7, <1>8, <1>9, <1>10 DEF TimedStep, PacedStep

\* The end of the server sends every handler that runs to its "finally".
LEMMA UnwindCancels ==
    ASSUME ServerTypeOK, NEW c \in Conns, Unwind, stage \in {"resolved", "bound", "serving"}
    PROVE  Handler(c)!Next
<1>1. ~Cancelled /\ Cancelled' /\ UNCHANGED <<totalConnections, totalErrors>>
  BY DEF Unwind, Cancelled, monitorVars
<1>2. /\ c \in Counted => phase'[c] = "closing"
      /\ phase[c] = "new" => phase'[c] = "new"
      /\ phase[c] \in {"reporting", "done"} => phase'[c] = "done"
  BY DEF Unwind, Counted, HandlerRuns, Tasks
<1>3. \/ UNCHANGED HandlerPhase(c)
      \/ HandlerPhase(c) # "done" /\ HandlerPhase(c)' = "closing"
  BY <1>2 DEF HandlerPhase, Counted, HandlerRuns
<1>4. QED
  BY <1>1, <1>3 DEF Handler!Next, Handler!Cancelled, Handler!TellsNothing, Cancelled

LEMMA HandlersStep ==
    ASSUME ServerTypeOK, [Next]_serverVars, NEW c \in Conns
    PROVE  [Handler(c)!Next]_(Handler(c)!vars)
<1> USE DEF monitorVars, handlerVars, processVars, fileVars
<1>1. ASSUME UNCHANGED <<phase, Cancelled>>, Told
      PROVE  [Handler(c)!Next]_(Handler(c)!vars)
  BY <1>1, HandlerStands DEF HandlerPhase
<1>2. CASE Bind \/ WritePid \/ Announce \/ InstallHandlers \/ Exit
  BY <1>2, <1>1 DEF Bind, WritePid, Announce, InstallHandlers, Exit, Cancelled, Told
<1>3. CASE ServeForeverReturns \/ StartFails
  BY <1>3, UnwindCancels DEF ServeForeverReturns, StartFails
<1>4. CASE KilledBySignal
  <2>1. UNCHANGED HandlerPhase(c)
    BY <1>4 DEF KilledBySignal, HandlerPhase
  <2>2. QED
    BY <1>4, <2>1 DEF KilledBySignal, Handler!Next, Handler!Cancelled, Handler!TellsNothing
<1>5. ASSUME NEW d \in Conns, Accept(d) \/ ClientResets(d)
      PROVE  [Handler(c)!Next]_(Handler(c)!vars)
  <2>1. UNCHANGED stage /\ Told
    BY <1>5 DEF Accept, ClientResets, Told
  <2>2. UNCHANGED HandlerPhase(c)
    <3>1. CASE Accept(d) /\ d = c
      <4>1. phase[c] = "new" /\ phase'[c] = "reading"
        BY <3>1 DEF Accept, Goto, ServerTypeOK, Tasks
      <4>2. QED
        BY <4>1 DEF HandlerPhase
    <3>2. CASE Accept(d) /\ d # c
      BY <3>2, OthersStand DEF Accept, Tasks
    <3>3. CASE ClientResets(d)
      BY <3>3 DEF ClientResets, HandlerPhase
    <3>4. QED
      BY <1>5, <3>1, <3>2, <3>3
  <2>3. QED
    BY <2>1, <2>2, HandlerStands DEF Cancelled
<1>6. ASSUME NEW d \in Conns, TimedStep(d) \/ PacedStep(d)
      PROVE  [Handler(c)!Next]_(Handler(c)!vars)
  <2>1. CASE d = c
    BY <1>6, <2>1, OwnSteps
  <2>2. CASE d # c
    <3>1. UNCHANGED stage /\ Told /\ UNCHANGED HandlerPhase(c)
      BY <1>6, <2>2, HandlerSteps, OthersStand DEF Tasks
    <3>2. QED
      BY <3>1, HandlerStands DEF Cancelled
  <2>3. QED
    BY <2>1, <2>2
<1>7. ASSUME NEW t \in Writers, ThreadStep(t)
      PROVE  [Handler(c)!Next]_(Handler(c)!vars)
  BY <1>7, <1>1 DEF ThreadStep, RotationThread, WriteLands, WriteFails, Cancelled, Told
<1>8. ASSUME NEW t \in Tasks, ApplyRotation(t)
      PROVE  [Handler(c)!Next]_(Handler(c)!vars)
  BY <1>8, <1>1 DEF ApplyRotation, Cancelled, Told
<1>9. ASSUME NEW g \in Signals, RotateSignal(g) \/ SignalReturns(g)
      PROVE  [Handler(c)!Next]_(Handler(c)!vars)
  <2>1. UNCHANGED stage /\ Told /\ \E p : Goto(g, p)
    BY <1>9 DEF RotateSignal, SignalReturns, DoRotateReturns, Told
  <2>2. g \in Tasks /\ g # c
    BY ServerConstants DEF ServerConstants, Tasks
  <2>3. QED
    BY <2>1, <2>2, OthersStand, HandlerStands DEF Cancelled
<1>10. ASSUME NEW s \in Stops, StopSignal(s) \/ Drained(s)
       PROVE  [Handler(c)!Next]_(Handler(c)!vars)
  BY <1>10, <1>1 DEF StopSignal, Drained, Monitor!Shutdown, Cancelled, Told
<1>11. CASE UNCHANGED serverVars
  BY <1>11, <1>1 DEF serverVars, Cancelled, Told
<1>12. QED
  BY <1>2, <1>3, <1>4, <1>5, <1>6, <1>7, <1>8, <1>9, <1>10, <1>11 DEF Next, MainStep

\* For any number of clients: each of the server's handlers is one of
\* HandlerContract, whatever the others, the rotations and the stops do meanwhile.
\* With HandlerIsAsContracted this is why the handlers of the server's model may
\* stand for that of RequestHandler (server.py:535-566, handler.py:74-190).
THEOREM HandlersAreAsContracted == Spec => HandlersKeepContract
<1>1. Init => \A c \in Conns : Handler(c)!Init
  BY DEF Init, Monitor!MonitorInit, Handler!Init, HandlerPhase, Tasks
<1>2. ServerTypeOK /\ [Next]_serverVars
        => [\A c \in Conns : [Handler(c)!Next]_(Handler(c)!vars)]_serverVars
  BY HandlersStep
<1>3. QED
  BY <1>1, <1>2, ServerTypeCorrect, PTL DEF Spec, HandlersKeepContract

\* Whence each of them implements the contract as a whole.
THEOREM EachHandlerIsAsContracted ==
    ASSUME NEW c \in Conns
    PROVE  Spec => Handler(c)!Spec
<1>1. Init => Handler(c)!Init
  BY DEF Init, Monitor!MonitorInit, Handler!Init, HandlerPhase, Tasks
<1>2. ServerTypeOK /\ [Next]_serverVars => [Handler(c)!Next]_(Handler(c)!vars)
  <2>1. UNCHANGED serverVars => UNCHANGED Handler(c)!vars
    BY DEF serverVars, monitorVars, processVars, handlerVars, Handler!vars, HandlerPhase
  <2>2. QED
    BY <2>1, HandlersStep
<1>3. QED
  BY <1>1, <1>2, ServerTypeCorrect, PTL DEF Spec, Handler!Spec

\* No stop comes before the server serves.
NoEarlyStop ==
    stage \in {"resolved", "bound", "pidWritten", "announcing"}
        => \A s \in Stops : stop[s] = "none"

LifeInv == NoEarlyStop /\ QuiesceInv /\ EndedProcessIsClean

\* Steps in which neither the stage nor the stops change.
LEMMA ProcessStands ==
    ASSUME LifeInv, UNCHANGED <<stage, stop, shutdownEvent, pidFile, statusFile>>
    PROVE  UNCHANGED Process!vars /\ NoEarlyStop'
BY DEF Life, Process!vars, LifeInv, NoEarlyStop

LEMMA LifeStep ==
    ASSUME LifeInv, [Next]_serverVars
    PROVE  [Process!Next]_(Process!vars) /\ NoEarlyStop'
<1> USE DEF LifeInv, monitorVars, handlerVars, processVars, fileVars
<1> DEFINE stopped == \E s \in Stops : stop[s] # "none"
<1>1. CASE Bind \/ WritePid \/ Announce \/ InstallHandlers
  <2>1. ~stopped /\ UNCHANGED stop /\ NoEarlyStop'
    BY <1>1 DEF Bind, WritePid, Announce, InstallHandlers, NoEarlyStop
  <2>2. CASE Bind \/ Announce
    BY <2>1, <2>2 DEF Bind, Announce, Life, Process!vars
  <2>3. CASE WritePid
    <3>1. Life = "starting" /\ Life' = "written" /\ pidFile'
      BY <2>3 DEF WritePid, Life
    <3>2. QED
      BY <2>1, <3>1 DEF Process!Next, Process!WritesPid
  <2>4. CASE InstallHandlers
    <3>1. Life = "written" /\ Life' = "serving" /\ UNCHANGED <<pidFile, statusFile>>
      BY <2>1, <2>4 DEF InstallHandlers, Life
    <3>2. QED
      BY <2>1, <3>1 DEF Process!Next, Process!Serves, Process!FilesStay
  <2>5. QED
    BY <1>1, <2>2, <2>3, <2>4
<1>2. CASE ServeForeverReturns \/ StartFails
  <2>1. /\ \/ stage \in {"resolved", "bound"} /\ ~stopped
           \/ stage = "serving" /\ shutdownEvent
        /\ stage' = "unwinding"
        /\ UNCHANGED <<stop, shutdownEvent, pidFile, statusFile>>
    BY <1>2 DEF ServeForeverReturns, StartFails, Unwind, NoEarlyStop
  <2>2. shutdownEvent => stopped
    BY DEF QuiesceInv
  <2>3. Life' = Life /\ NoEarlyStop'
    BY <2>1, <2>2 DEF Life, NoEarlyStop
  <2>4. QED
    BY <2>1, <2>3 DEF Process!vars
<1>3. CASE Exit
  <2>1. /\ Life \in {"starting", "draining"} /\ Life' = "ended"
        /\ ~pidFile' /\ statusFile' = None
        /\ NoEarlyStop'
    BY <1>3 DEF Exit, Life, NoEarlyStop
  <2>2. QED
    BY <2>1 DEF Process!Next, Process!Ends
<1>4. CASE KilledBySignal
  <2>1. /\ Life = "written" /\ Life' = "killed" /\ UNCHANGED <<pidFile, statusFile>>
        /\ NoEarlyStop'
    BY <1>4 DEF KilledBySignal, Life, NoEarlyStop
  <2>2. QED
    BY <2>1 DEF Process!Next, Process!Dies, Process!Alive, Process!FilesStay
<1>5. ASSUME NEW c \in Conns,
             Accept(c) \/ ClientResets(c) \/ TimedStep(c) \/ PacedStep(c)
      PROVE  UNCHANGED Process!vars /\ NoEarlyStop'
  <2>1. UNCHANGED <<stage, stop, shutdownEvent, pidFile, statusFile>>
    BY <1>5
    DEF Accept, ClientResets, TimedStep, PacedStep, BeginOpen, BeginForward, Reject,
       RelayStarts, RelayEnds, Answered, Reported, OnlyGoto, TunnelOpened, Forwarded,
       FailBelowThreshold, FailAndRotate, RecordOnly, BeginHealth, Probe, ProbeSucceeds,
       ProbeFailsAndRotates, HealthFails, CloseAndReport, CloseDebounced, CountOut,
       RecoveryReturns, RerouteReturns, DoRotateReturns
  <2>2. QED
    BY <2>1, ProcessStands
<1>6. ASSUME NEW t \in Writers, ThreadStep(t)
      PROVE  [Process!Next]_(Process!vars) /\ NoEarlyStop'
  <2>1. CASE t \in Tasks /\ RotationThread(t)
    BY <2>1, ProcessStands DEF RotationThread
  <2>2. ASSUME NEW w \in writing, WriteLands(w) \/ WriteFails(w)
        PROVE  [Process!Next]_(Process!vars) /\ NoEarlyStop'
    <3>1. /\ UNCHANGED <<stage, stop, shutdownEvent, pidFile>>
          /\ stage \notin {"exited", "killed"}
      BY <2>2 DEF WriteLands, WriteFails, EndedProcessIsClean
    <3>2. UNCHANGED <<Life, pidFile>> /\ Life \in Process!Alive /\ NoEarlyStop'
      BY <3>1 DEF Life, Process!Alive, NoEarlyStop
    <3>3. CASE statusFile' = None
      BY <3>2, <3>3 DEF Process!Next, Process!Others, Process!FilesStay
    <3>4. CASE statusFile' # None
      BY <3>2, <3>4 DEF Process!Next, Process!WritesStatus
    <3>5. QED
      BY <3>3, <3>4
  <2>3. QED
    BY <1>6, <2>1, <2>2 DEF ThreadStep
<1>7. ASSUME NEW t \in Tasks, ApplyRotation(t)
      PROVE  UNCHANGED Process!vars /\ NoEarlyStop'
  BY <1>7, ProcessStands DEF ApplyRotation
<1>8. ASSUME NEW g \in Signals, RotateSignal(g) \/ SignalReturns(g)
      PROVE  UNCHANGED Process!vars /\ NoEarlyStop'
  BY <1>8, ProcessStands DEF RotateSignal, SignalReturns, DoRotateReturns
<1>9. ASSUME NEW s \in Stops, StopSignal(s)
      PROVE  Process!Next /\ NoEarlyStop'
  <2>1. stop'[s] = "draining"
    BY <1>9 DEF StopSignal, QuiesceInv
  <2>2. /\ Life \in {"serving", "draining"} /\ Life' = "draining"
        /\ ~pidFile' /\ statusFile' = None
        /\ NoEarlyStop'
    BY <1>9, <2>1 DEF StopSignal, Life, NoEarlyStop
  <2>3. QED
    BY <2>2 DEF Process!Next, Process!Drains, Process!FilesStay
<1>10. ASSUME NEW s \in Stops, Drained(s)
       PROVE  UNCHANGED Process!vars /\ NoEarlyStop'
  <2>1. stop[s] = "draining" /\ stop'[s] = "stopped"
    BY <1>10 DEF Drained, QuiesceInv
  <2>2. Life = "draining" /\ Life' = "draining" /\ NoEarlyStop'
    BY <1>10, <2>1 DEF Drained, Life, NoEarlyStop
  <2>3. QED
    BY <1>10, <2>2 DEF Drained, Process!vars
<1>11. CASE UNCHANGED serverVars
  BY <1>11, ProcessStands DEF serverVars
<1>12. QED
  BY <1>1, <1>2, <1>3, <1>4, <1>5, <1>6, <1>7, <1>8, <1>9, <1>10, <1>11 DEF Next, MainStep

\* For any number of clients, stops and status writes in flight: the server has the
\* life and the files that ServerContract gives every server, as those of Lifecycle
\* have (server.py:122-199, pidfile.py:97-113, 284-290).
THEOREM ServerIsAsContracted == Spec => ServerKeepsContract
<1>1. Init => Process!Init /\ NoEarlyStop
  BY DEF Init, Process!Init, Life, NoEarlyStop
<1>2. LifeInv /\ [Next]_serverVars => [Process!Next]_(Process!vars) /\ NoEarlyStop'
  BY LifeStep
<1>3. Spec => []QuiesceInv
  <2>1. Init => QuiesceInv
    BY DEF Init, QuiesceInv, Monitor!MonitorInit
  <2>2. QED
    BY <2>1, QuiesceStep, PTL DEF Spec
<1>4. Spec => []EndedProcessIsClean
  BY ServerInvariance, PTL DEF ServerInv
<1>5. QED
  BY <1>1, <1>2, <1>3, <1>4, PTL DEF Spec, LifeInv, ServerKeepsContract, Process!Spec

=============================================================================
