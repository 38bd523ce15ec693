------------------------ MODULE CaptureSessionProofs ------------------------
(***************************************************************************)
(* Proofs about CaptureSession, for any set of polls, any number of        *)
(* fetches in flight and any number of reconnects.                         *)
(***************************************************************************)
EXTENDS CaptureSession, TLAPS

\* A turn under way is one that max_cdp_reconnects allows.
TurnIsAllowed ==
    /\ main = "starting" => stopEvent = "absent"
    /\ stopEvent = "absent" => attempt = 0
    /\ main \in {"waiting", "delaying", "replacing"} => attempt < MaxReconnects
    /\ main \in {"connecting", "enabling"} /\ stopEvent # "absent"
         => attempt < MaxReconnects

\* Through which clients a poll or a fetch may be waiting.
WaitersHaveSockets ==
    /\ main = "starting" => client = "none"
    /\ main \in {"replacing", "closing"} => client = "closing"
    /\ \A p \in Polls : poll[p] = "asking" => client \in {"open", "lost"}
    /\ \A f \in Fetches :
         fetch[f] = "fetching" => client \in {"open", "lost", "deaf", "closing"}

WriterStopsLast == writer = "stopped" => main = "stopped" /\ ~buffered

CaptureInv == CaptureTypeOK /\ TurnIsAllowed /\ WaitersHaveSockets /\ WriterStopsLast

LEMMA CaptureInitInv == Init => CaptureInv
<1> SUFFICES ASSUME Init PROVE CaptureInv
  OBVIOUS
<1>1. CaptureTypeOK
  <2>1. attempt \in 0..MaxReconnects
    BY CaptureConstants DEF CaptureConstants, Init
  <2>2. poll \in [Polls -> PollStates] /\ fetch \in [Fetches -> {"idle", "fetching"}]
    BY DEF Init, PollStates
  <2>3. main \in Places /\ client \in ClientStates
    BY DEF Init, Places, ClientStates
  <2>4. QED
    BY <2>1, <2>2, <2>3 DEF Init, CaptureTypeOK
<1>2. TurnIsAllowed /\ WaitersHaveSockets /\ WriterStopsLast
  BY DEF Init, TurnIsAllowed, WaitersHaveSockets, WriterStopsLast
<1>3. QED
  BY <1>1, <1>2 DEF CaptureInv

\* An exception in start() or in a reconnect.
LEMMA SetupFailsInv ==
    ASSUME CaptureInv, main \in {"connecting", "enabling"}, SetupFails
    PROVE  CaptureInv'
BY CaptureConstants DEF CaptureConstants, SetupFails, NextTurn, Turn, CaptureInv,
    CaptureTypeOK, TurnIsAllowed, WaitersHaveSockets, WriterStopsLast, Places, StopPlaces, tasks, written

\* The steps by which the main coroutine gets a connection.
LEMMA ConnectingInv ==
    ASSUME CaptureInv,
           \/ StartFails \/ StartsWriter \/ ConnectFails \/ Connects \/ EnableFails
           \/ Started \/ Reconnected
    PROVE  CaptureInv'
<1>1. CASE ConnectFails
  BY <1>1, SetupFailsInv DEF ConnectFails
<1>2. CASE EnableFails
  BY <1>2, SetupFailsInv DEF EnableFails
<1> USE CaptureConstants DEF CaptureConstants, CaptureInv, CaptureTypeOK, TurnIsAllowed,
      WaitersHaveSockets, WriterStopsLast, Places, StopPlaces, ClientStates, PollStates,
      tasks, written
<1>3. CASE StartFails
  BY <1>3 DEF StartFails
<1>4. CASE StartsWriter
  BY <1>4 DEF StartsWriter
<1>5. CASE Connects
  BY <1>5 DEF Connects
<1>6. CASE Started
  <2>1. /\ poll' \in [Polls -> PollStates]
        /\ \A p \in Polls : poll'[p] # "asking"
    BY <1>6 DEF Started
  <2>2. /\ main' \in {"waiting", "stopping"}
        /\ main' = "waiting" => 0 < MaxReconnects
    BY <1>6 DEF Started, Turn
  <2>3. QED
    BY <1>6, <2>1, <2>2 DEF Started
<1>7. CASE Reconnected
  BY <1>7 DEF Reconnected, NextTurn, Turn
<1>8. QED
  BY <1>1, <1>2, <1>3, <1>4, <1>5, <1>6, <1>7

\* The steps by which it waits, replaces the client and stops.
LEMMA RunningInv ==
    ASSUME CaptureInv,
           \/ StopNoticed \/ LossNoticed \/ StopsInDelay \/ DelayElapses \/ ReplacesClient
           \/ CancelsPolls \/ Disables \/ StopsWriter
    PROVE  CaptureInv'
<1> USE CaptureConstants DEF CaptureConstants, CaptureInv, CaptureTypeOK, TurnIsAllowed,
      WaitersHaveSockets, WriterStopsLast, Places, StopPlaces, ClientStates, PollStates,
      tasks, written
<1>1. CASE StopNoticed
  BY <1>1 DEF StopNoticed
<1>2. CASE LossNoticed
  BY <1>2 DEF LossNoticed
<1>3. CASE StopsInDelay
  BY <1>3 DEF StopsInDelay
<1>4. CASE DelayElapses
  BY <1>4 DEF DelayElapses, BeginClose
<1>5. CASE ReplacesClient
  BY <1>5 DEF ReplacesClient
<1>6. CASE CancelsPolls
  BY <1>6 DEF CancelsPolls
<1>7. CASE Disables
  BY <1>7 DEF Disables, BeginClose
<1>8. CASE StopsWriter
  BY <1>8 DEF StopsWriter
<1>9. QED
  BY <1>1, <1>2, <1>3, <1>4, <1>5, <1>6, <1>7, <1>8

\* The receive loop: events, and the end of its connection.
LEMMA ReceivingInv ==
    ASSUME CaptureInv, RecvLoopEnds \/ EventArrives
    PROVE  CaptureInv'
<1> USE CaptureConstants DEF CaptureConstants, CaptureInv, CaptureTypeOK, TurnIsAllowed,
      WaitersHaveSockets, WriterStopsLast, Places, StopPlaces, ClientStates, PollStates,
      tasks, written
<1>1. CASE RecvLoopEnds
  <2>1. /\ client = "lost" /\ client' = "ended" /\ Running
        /\ main' = main \/ main' \in {"stopping", "abandoned"}
        /\ \A p \in Polls : poll'[p] # "asking"
        /\ \A f \in Fetches : fetch'[f] # "fetching"
    BY <1>1 DEF RecvLoopEnds, AfterCancelledSend
  <2>2. CaptureTypeOK'
    BY <1>1, <2>1 DEF RecvLoopEnds
  <2>3. TurnIsAllowed' /\ WriterStopsLast' /\ WaitersHaveSockets'
    BY <1>1, <2>1 DEF RecvLoopEnds, Running
  <2>4. QED
    BY <2>2, <2>3
<1>2. CASE EventArrives
  BY <1>2 DEF EventArrives, Receives, Running, Enqueues
<1>3. QED
  BY <1>1, <1>2

\* A fetch.
LEMMA FetchingInv ==
    ASSUME CaptureInv, NEW f \in Fetches, FetchStep(f)
    PROVE  CaptureInv'
<1> USE DEF CaptureInv, CaptureTypeOK, TurnIsAllowed, WaitersHaveSockets,
      WriterStopsLast, tasks, written
<1>1. CASE FetchBegins(f)
  BY <1>1 DEF FetchBegins
<1>2. CASE FetchSettles(f)
  BY <1>2 DEF FetchSettles, Running, Enqueues
<1>3. QED
  BY <1>1, <1>2 DEF FetchStep

\* A poll.
LEMMA PollingInv ==
    ASSUME CaptureInv, NEW p \in Polls, PollStep(p)
    PROVE  CaptureInv'
<1> USE DEF CaptureInv, CaptureTypeOK, TurnIsAllowed, WaitersHaveSockets,
      WriterStopsLast, PollStates, tasks, written
<1>1. CASE PollAsks(p)
  BY <1>1 DEF PollAsks
<1>2. CASE PollAnswered(p)
  BY <1>2 DEF PollAnswered, AfterSend, Receives, Running, Enqueues
<1>3. CASE PollGetsNothing(p)
  BY <1>3 DEF PollGetsNothing, AfterSend
<1>4. CASE PollEnds(p)
  BY <1>4 DEF PollEnds
<1>5. QED
  BY <1>1, <1>2, <1>3, <1>4 DEF PollStep

\* The browser, the supervisor and the writer's thread.
LEMMA EnvironmentInv ==
    ASSUME CaptureInv, Disconnects \/ RequestStop \/ WriterFlushes
    PROVE  CaptureInv'
<1> USE DEF CaptureInv, CaptureTypeOK, TurnIsAllowed, WaitersHaveSockets, WriterStopsLast,
      ClientStates, tasks, written
<1>1. CASE Disconnects
  BY <1>1 DEF Disconnects
<1>2. CASE RequestStop
  BY <1>2 DEF RequestStop
<1>3. CASE WriterFlushes
  BY <1>3 DEF WriterFlushes
<1>4. QED
  BY <1>1, <1>2, <1>3

\* Every step of the session keeps the invariant.
THEOREM CaptureInductive == Spec => []CaptureInv
<1>1. ASSUME CaptureInv, [Next]_vars
      PROVE  CaptureInv'
  <2>1. CASE MainStep
    BY <1>1, <2>1, ConnectingInv, RunningInv DEF MainStep
  <2>2. CASE RecvLoopEnds \/ EventArrives
    BY <1>1, <2>2, ReceivingInv
  <2>3. CASE \E f \in Fetches : FetchStep(f)
    BY <1>1, <2>3, FetchingInv
  <2>4. CASE \E p \in Polls : PollStep(p)
    BY <1>1, <2>4, PollingInv
  <2>5. CASE Disconnects \/ RequestStop \/ WriterFlushes
    BY <1>1, <2>5, EnvironmentInv
  <2>6. CASE UNCHANGED vars
    BY <1>1, <2>6 DEF vars, CaptureInv, CaptureTypeOK, TurnIsAllowed, WaitersHaveSockets,
         WriterStopsLast, tasks, written
  <2>7. QED
    BY <1>1, <2>1, <2>2, <2>3, <2>4, <2>5, <2>6 DEF Next
<1>2. QED
  BY <1>1, CaptureInitInv, PTL DEF Spec

\* The session makes no more turns than max_cdp_reconnects allows
\* (capture/__init__.py:658-724), and every task stands where the model says.
THEOREM CaptureTypeCorrect == Spec => []CaptureTypeOK
<1>1. CaptureInv => CaptureTypeOK
  BY DEF CaptureInv
<1>2. QED
  BY <1>1, CaptureInductive, PTL

\* However many polls and fetches record while stop() runs, nothing is left in the
\* queue of the stopped writer (capture/__init__.py:743-778).
THEOREM StopLosesNothing == Spec => []NothingLostAtStop
<1>1. CaptureInv => NothingLostAtStop
  BY DEF CaptureInv, WriterStopsLast, NothingLostAtStop
<1>2. QED
  BY <1>1, CaptureInductive, PTL

\* However many polls and fetches were waiting, none waits on a client whose
\* receive loop has ended (cdp_client.py:322-326).
THEOREM LostClientFreesItsWaiters == Spec => []NobodyWaitsOnLostClient
<1>1. CaptureInv => NobodyWaitsOnLostClient
  BY DEF CaptureInv, WaitersHaveSockets, NobodyWaitsOnLostClient
<1>2. QED
  BY <1>1, CaptureInductive, PTL

\* Every step of the main coroutine, and the one of the receive loop that may move
\* it, is towards the end once the stop is requested; that such steps are taken is
\* StopEnds (capture/__init__.py:658-724, 743-778).
THEOREM StopComesNearer == Spec => StopDrawsNear
<1>1. ASSUME CaptureInv, Next, stopEvent = "set", main' # main
      PROVE  StepsToEnd(main') < StepsToEnd(main)
  <2> USE <1>1 DEF StepsToEnd
  <2>1. CASE \/ StartFails \/ StartsWriter \/ Started
    BY <2>1 DEF CaptureInv, TurnIsAllowed, StartFails, StartsWriter, Started
  <2>2. CASE ConnectFails \/ EnableFails \/ Reconnected
    <3>1. main \in {"connecting", "enabling"} /\ main' = "stopping"
      BY <2>2 DEF ConnectFails, EnableFails, Reconnected, SetupFails, NextTurn, Turn
    <3>2. QED
      BY <3>1
  <2>3. CASE Connects \/ StopNoticed \/ LossNoticed \/ StopsInDelay \/ DelayElapses
             \/ ReplacesClient \/ CancelsPolls \/ Disables \/ StopsWriter
    BY <2>3
    DEF Connects, StopNoticed, LossNoticed, StopsInDelay, DelayElapses, ReplacesClient,
        CancelsPolls, Disables, StopsWriter
  <2>4. CASE RecvLoopEnds
    <3>1. \/ main = "enabling" /\ main' = "stopping"
          \/ main = "disabling" /\ main' = "abandoned"
      BY <2>4 DEF RecvLoopEnds, AfterCancelledSend
    <3>2. QED
      BY <3>1
  <2>5. CASE EventArrives \/ (\E f \in Fetches : FetchStep(f)) \/ (\E p \in Polls : PollStep(p))
             \/ Disconnects \/ RequestStop \/ WriterFlushes
    BY <2>5
    DEF EventArrives, FetchStep, FetchBegins, FetchSettles, PollStep, PollAsks,
        PollAnswered, PollGetsNothing, PollEnds, Disconnects, RequestStop, WriterFlushes
  <2>6. QED
    BY <1>1, <2>1, <2>2, <2>3, <2>4, <2>5 DEF Next, MainStep
<1>2. CaptureInv /\ [Next]_vars
        => [stopEvent = "set" /\ main' # main => StepsToEnd(main') < StepsToEnd(main)]_vars
  BY <1>1
<1>3. QED
  BY <1>2, CaptureInductive, PTL DEF Spec, StopDrawsNear

=============================================================================
