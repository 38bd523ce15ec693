--------------------------- MODULE CaptureSession ---------------------------
(***************************************************************************)
(* One capture session (proxy_relay/capture/__init__.py) with its CDP      *)
(* client (capture/cdp_client.py).                                         *)
(*                                                                         *)
(* One loop in a thread of its own runs the main coroutine (start,         *)
(* run_until_stopped, stop), the two poll tasks, the receive loop of the   *)
(* current client and a task for each response whose body is being         *)
(* fetched.  A step is what one of them does between two awaits.  The      *)
(* browser, the supervisor that requests the stop and the writer's thread  *)
(* take steps of their own.                                                *)
(*                                                                         *)
(* What asyncio makes of a send: its future is answered, times out, or is  *)
(* cancelled when the receive loop ends, and then the CancelledError,      *)
(* which no "except Exception" catches, ends the coroutine that sent.      *)
(*                                                                         *)
(* Abstractions.  What is recorded is whether the writer holds anything it *)
(* has not flushed.  A round of the storage poll sends any number of       *)
(* requests.  Delays, their backoff, and the files of the database and the *)
(* reports are left out.                                                   *)
(***************************************************************************)
EXTENDS Naturals

CONSTANTS
    Polls,         \* the poll tasks
    StoragePolls,  \* those that send several requests in a round
    Fetches,       \* slots for responses whose bodies are fetched at one time
    MaxReconnects  \* max_cdp_reconnects

ASSUME CaptureConstants == MaxReconnects \in Nat /\ StoragePolls \subseteq Polls

VARIABLES
    main,        \* where the main coroutine stands
    client,      \* the current CDP client: its socket and its receive loop
    subscribed,  \* the current client has its subscribers
    stopEvent,   \* _stop_event: absent until start() is nearly over
    attempt,     \* the turn of the loop in run_until_stopped
    poll,        \* where each poll task stands
    fetch,       \* which slots are fetching
    writer,      \* the background writer
    buffered     \* it was handed something it has not flushed

tasks == <<poll, fetch>>
written == <<writer, buffered>>
vars == <<main, client, subscribed, stopEvent, attempt, tasks, written>>

StopPlaces == {"stopping", "disabling", "closing", "stopped", "abandoned"}

Places ==
    {"starting", "connecting", "enabling", "waiting", "delaying", "replacing"} \cup StopPlaces

\* lost: the socket is closed and the receive loop has yet to see it; ended: it
\* has; deaf: the loop was cancelled and the socket is open.
ClientStates == {"none", "new", "open", "lost", "ended", "deaf", "closing"}

\* orphaned: waits for an answer through a client that has since been closed.
PollStates == {"none", "sleeping", "asking", "orphaned", "done"}

\* The loop runs until the main coroutine ends.
Running == main \notin {"stopped", "abandoned"}

Init ==
    /\ main = "starting"
    /\ client = "none"
    /\ subscribed = FALSE
    /\ stopEvent = "absent"
    /\ attempt = 0
    /\ poll = [p \in Polls |-> "none"]
    /\ fetch = [f \in Fetches |-> "idle"]
    /\ writer = "none"
    /\ buffered = FALSE

-----------------------------------------------------------------------------
(***************************************************************************)
(* The main coroutine: connecting, in start() and in _reconnect_cdp.       *)
(***************************************************************************)

\* The top of the loop in run_until_stopped.
TurnUnbounded(n) == IF stopEvent # "set" THEN "waiting" ELSE "stopping"

Turn(n) == IF n < MaxReconnects /\ stopEvent # "set" THEN "waiting" ELSE "stopping"

NextTurn ==
    /\ attempt' = attempt + 1
    /\ main' = Turn(attempt + 1)

\* An exception in start() ends the session without stop(); one in
\* _reconnect_cdp ends the turn.
SetupFails ==
    /\ IF stopEvent = "absent"
       THEN main' = "abandoned" /\ UNCHANGED attempt
       ELSE NextTurn
    /\ UNCHANGED <<client, subscribed, stopEvent, tasks, written>>

StartFails ==
    /\ main = "starting"
    /\ main' = "abandoned"
    /\ UNCHANGED <<client, subscribed, stopEvent, attempt, tasks, written>>

StartsWriter ==
    /\ main = "starting"
    /\ writer' = "running"
    /\ client' = "new"
    /\ main' = "connecting"
    /\ UNCHANGED <<subscribed, stopEvent, attempt, tasks, buffered>>

\* Chromium's debug port is not found, or its socket not opened.
ConnectFails == main = "connecting" /\ SetupFails

Connects ==
    /\ main = "connecting"
    /\ client' = "open"
    /\ main' = "enabling"
    /\ UNCHANGED <<subscribed, stopEvent, attempt, tasks, written>>

\* Network.enable or Page.enable fails or times out.
EnableFails == main = "enabling" /\ SetupFails

\* The end of start() and the first turn.
Started ==
    /\ main = "enabling"
    /\ stopEvent = "absent"
    /\ subscribed' = TRUE
    /\ stopEvent' = "clear"
    /\ poll' = [p \in Polls |-> "sleeping"]
    /\ main' = Turn(0)
    /\ UNCHANGED <<client, attempt, fetch, written>>

Reconnected ==
    /\ main = "enabling"
    /\ stopEvent # "absent"
    /\ subscribed' = TRUE
    /\ NextTurn
    /\ UNCHANGED <<client, stopEvent, tasks, written>>

-----------------------------------------------------------------------------
(***************************************************************************)
(* The main coroutine: waiting, delaying and replacing the client.         *)
(***************************************************************************)

\* Faulty variant: the receive task is not among those waited for.
PollHasEnded == \E p \in Polls : poll[p] = "done"

\* A task that asyncio.wait waits for has ended.
TaskHasEnded == client = "ended" \/ \E p \in Polls : poll[p] = "done"

\* The stop event is set: the pending tasks are cancelled, the receive loop
\* among them, whose pending futures stay as they are.
StopNoticed ==
    /\ main = "waiting"
    /\ stopEvent = "set"
    /\ client' = IF client \in {"open", "lost"} THEN "deaf" ELSE client
    /\ poll' = [p \in Polls |-> "done"]
    /\ main' = "stopping"
    /\ UNCHANGED <<subscribed, stopEvent, attempt, fetch, written>>

LossNoticed ==
    /\ main = "waiting"
    /\ stopEvent # "set"
    /\ TaskHasEnded
    /\ main' = "delaying"
    /\ UNCHANGED <<client, subscribed, stopEvent, attempt, tasks, written>>

StopsInDelay ==
    /\ main = "delaying"
    /\ stopEvent = "set"
    /\ main' = "stopping"
    /\ UNCHANGED <<client, subscribed, stopEvent, attempt, tasks, written>>

\* close() until its first await: what a poll asked is no longer answered, but
\* its future is left to its timeout.
BeginClose ==
    /\ client' = "closing"
    /\ poll' = [p \in Polls |-> IF poll[p] = "asking" THEN "orphaned" ELSE poll[p]]

\* Faulty variant: the event is not looked at after the delay.
DelayElapsesUnchecked ==
    /\ main = "delaying"
    /\ BeginClose
    /\ main' = "replacing"
    /\ UNCHANGED <<subscribed, stopEvent, attempt, fetch, written>>

DelayElapses ==
    /\ main = "delaying"
    /\ stopEvent # "set"
    /\ BeginClose
    /\ main' = "replacing"
    /\ UNCHANGED <<subscribed, stopEvent, attempt, fetch, written>>

\* The rest of close(), which cancels the fetches; then a new client.
ReplacesClient ==
    /\ main = "replacing"
    /\ fetch' = [f \in Fetches |-> "idle"]
    /\ client' = "new"
    /\ subscribed' = FALSE
    /\ main' = "connecting"
    /\ UNCHANGED <<stopEvent, attempt, poll, written>>

-----------------------------------------------------------------------------
(***************************************************************************)
(* The main coroutine: stop().                                             *)
(***************************************************************************)

\* Faulty variant: the writer is stopped before the client.
CancelsPollsAndWriter ==
    /\ main = "stopping"
    /\ poll' = [p \in Polls |-> "done"]
    /\ main' = "disabling"
    /\ writer' = "stopped"
    /\ buffered' = FALSE
    /\ UNCHANGED <<client, subscribed, stopEvent, attempt, fetch>>

CancelsPolls ==
    /\ main = "stopping"
    /\ poll' = [p \in Polls |-> "done"]
    /\ main' = "disabling"
    /\ UNCHANGED <<client, subscribed, stopEvent, attempt, fetch, written>>

\* Faulty variant: a send waits for its answer as long as it takes.
DisablesUntimed ==
    /\ main = "disabling"
    /\ client # "deaf"
    /\ BeginClose
    /\ main' = "closing"
    /\ UNCHANGED <<subscribed, stopEvent, attempt, fetch, written>>

\* The four disable commands are answered, fail or time out; close() begins.
Disables ==
    /\ main = "disabling"
    /\ BeginClose
    /\ main' = "closing"
    /\ UNCHANGED <<subscribed, stopEvent, attempt, fetch, written>>

\* The rest of close() and of stop(): the writer flushes what it holds.
StopsWriter ==
    /\ main = "closing"
    /\ fetch' = [f \in Fetches |-> "idle"]
    /\ client' = "none"
    /\ subscribed' = FALSE
    /\ writer' = "stopped"
    /\ buffered' = FALSE
    /\ main' = "stopped"
    /\ UNCHANGED <<stopEvent, attempt, poll>>

-----------------------------------------------------------------------------
(***************************************************************************)
(* The receive loop, the fetches and the polls.                            *)
(***************************************************************************)

\* Something is handed to the writer's queue.
Enqueues ==
    /\ buffered' = TRUE
    /\ UNCHANGED writer

Receives == Running /\ client \in {"open", "lost"}

\* An event on a captured domain, recorded at once.
EventArrives ==
    /\ Receives
    /\ subscribed
    /\ Enqueues
    /\ UNCHANGED <<main, client, subscribed, stopEvent, attempt, tasks>>

\* A response whose body is asked for first.
FetchBegins(f) ==
    /\ Running
    /\ client = "open"
    /\ subscribed
    /\ fetch[f] = "idle"
    /\ fetch' = [fetch EXCEPT ![f] = "fetching"]
    /\ UNCHANGED <<main, client, subscribed, stopEvent, attempt, poll, written>>

\* The body comes, or an error, or the timeout: the response is recorded.
FetchSettles(f) ==
    /\ Running
    /\ fetch[f] = "fetching"
    /\ fetch' = [fetch EXCEPT ![f] = "idle"]
    /\ Enqueues
    /\ UNCHANGED <<main, client, subscribed, stopEvent, attempt, poll>>

\* Where the CancelledError of a cancelled future takes the main coroutine:
\* start() and stop() are given up, a reconnect goes on to stop().
AfterCancelledSend ==
    CASE main = "enabling" /\ stopEvent = "absent" -> "abandoned"
      [] main = "enabling" /\ stopEvent # "absent" -> "stopping"
      [] main = "disabling" -> "abandoned"
      [] OTHER -> main

\* Faulty variant: the pending futures are left as they are.
RecvLoopEndsSilently ==
    /\ Running
    /\ client = "lost"
    /\ client' = "ended"
    /\ UNCHANGED <<main, subscribed, stopEvent, attempt, tasks, written>>

\* recv() raises, and every pending future is cancelled.
RecvLoopEnds ==
    /\ Running
    /\ client = "lost"
    /\ client' = "ended"
    /\ poll' = [p \in Polls |-> IF poll[p] = "asking" THEN "done" ELSE poll[p]]
    /\ fetch' = [f \in Fetches |-> "idle"]
    /\ main' = AfterCancelledSend
    /\ UNCHANGED <<subscribed, stopEvent, attempt, written>>

\* A round begins; while no client is connected its sends fail and nothing happens.
PollAsks(p) ==
    /\ Running
    /\ poll[p] = "sleeping"
    /\ stopEvent # "set"
    /\ client = "open"
    /\ poll' = [poll EXCEPT ![p] = "asking"]
    /\ UNCHANGED <<main, client, subscribed, stopEvent, attempt, fetch, written>>

\* After an answer or a timeout: the next request of the round, or its end.
AfterSend(p) ==
    {"sleeping"} \cup IF p \in StoragePolls /\ client = "open" THEN {"asking"} ELSE {}

\* The answer brings something new to record.
PollAnswered(p) ==
    /\ Receives
    /\ poll[p] = "asking"
    /\ \E next \in AfterSend(p) : poll' = [poll EXCEPT ![p] = next]
    /\ Enqueues
    /\ UNCHANGED <<main, client, subscribed, stopEvent, attempt, fetch>>

\* The answer brings nothing new, is an error, or does not come in time.
PollGetsNothing(p) ==
    /\ Running
    /\ poll[p] \in {"asking", "orphaned"}
    /\ \E next \in AfterSend(p) : poll' = [poll EXCEPT ![p] = next]
    /\ UNCHANGED <<main, client, subscribed, stopEvent, attempt, fetch, written>>

PollEnds(p) ==
    /\ Running
    /\ poll[p] = "sleeping"
    /\ stopEvent = "set"
    /\ poll' = [poll EXCEPT ![p] = "done"]
    /\ UNCHANGED <<main, client, subscribed, stopEvent, attempt, fetch, written>>

-----------------------------------------------------------------------------
(***************************************************************************)
(* The browser, the supervisor and the writer's thread.                    *)
(***************************************************************************)

Disconnects ==
    /\ Running
    /\ client = "open"
    /\ client' = "lost"
    /\ UNCHANGED <<main, subscribed, stopEvent, attempt, tasks, written>>

\* request_stop: before start() has made the event, it does nothing.
RequestStop ==
    /\ stopEvent # "absent"
    /\ stopEvent' = "set"
    /\ UNCHANGED <<main, client, subscribed, attempt, tasks, written>>

WriterFlushes ==
    /\ writer = "running"
    /\ buffered' = FALSE
    /\ UNCHANGED <<main, client, subscribed, stopEvent, attempt, tasks, writer>>

-----------------------------------------------------------------------------
MainStep ==
    \/ StartFails \/ StartsWriter \/ ConnectFails \/ Connects \/ EnableFails
    \/ Started \/ Reconnected
    \/ StopNoticed \/ LossNoticed \/ StopsInDelay \/ DelayElapses \/ ReplacesClient
    \/ CancelsPolls \/ Disables \/ StopsWriter

FetchStep(f) == FetchBegins(f) \/ FetchSettles(f)

PollStep(p) == PollAsks(p) \/ PollAnswered(p) \/ PollGetsNothing(p) \/ PollEnds(p)

Next ==
    \/ MainStep
    \/ RecvLoopEnds \/ EventArrives
    \/ \E f \in Fetches : FetchStep(f)
    \/ \E p \in Polls : PollStep(p)
    \/ Disconnects \/ RequestStop \/ WriterFlushes

Spec == Init /\ [][Next]_vars

\* Every await of the main coroutine but the wait itself has a timeout, and the
\* receive loop sees its socket close.
FairSpec == Spec /\ WF_vars(MainStep) /\ WF_vars(RecvLoopEnds)

-----------------------------------------------------------------------------
(***************************************************************************)
(* Properties.                                                             *)
(***************************************************************************)

CaptureTypeOK ==
    /\ main \in Places
    /\ client \in ClientStates
    /\ subscribed \in BOOLEAN
    /\ stopEvent \in {"absent", "clear", "set"}
    /\ attempt \in 0..MaxReconnects
    /\ poll \in [Polls -> PollStates]
    /\ fetch \in [Fetches -> {"idle", "fetching"}]
    /\ writer \in {"none", "running", "stopped"}
    /\ buffered \in BOOLEAN

\* stop() ends what records before it stops the writer: nothing an event, a fetch
\* or a poll recorded is left in the queue of a stopped writer
\* (capture/__init__.py:743-778).
NothingLostAtStop == writer = "stopped" => ~buffered

\* When the receive loop has seen its socket close, and until a reconnect opens
\* another, no poll and no fetch waits for an answer through it
\* (cdp_client.py:322-326).
NobodyWaitsOnLostClient ==
    client \in {"ended", "new"} =>
        /\ \A p \in Polls : poll[p] # "asking"
        /\ \A f \in Fetches : fetch[f] # "fetching"

\* How many steps of its own the main coroutine may be away from its end at a place.
StepsToEnd(place) ==
    CASE place = "replacing" -> 7
      [] place = "connecting" -> 6
      [] place = "enabling" -> 5
      [] place \in {"starting", "waiting", "delaying"} -> 4
      [] place = "stopping" -> 3
      [] place = "disabling" -> 2
      [] place = "closing" -> 1
      [] place \in {"stopped", "abandoned"} -> 0

\* However the end of the delay, a lost connection, a failing reconnect and a stop
\* request meet: once the stop is requested every step takes the main coroutine
\* nearer to its end, and no client is given up for a new one
\* (capture/__init__.py:658-724, 743-778).
StopDrawsNear ==
    [][stopEvent = "set" /\ main' # main => StepsToEnd(main') < StepsToEnd(main)]_vars

\* A stop that is requested once start() is done ends the session, wherever it
\* finds the main coroutine and whatever the browser does
\* (capture/__init__.py:645-651, 728-735).
StopEnds == stopEvent = "set" ~> ~Running

\* A session that waits does not go on waiting on a socket that has closed
\* (capture/__init__.py:664-677).
LossIsNoticed == client = "lost" /\ main = "waiting" ~> main # "waiting"

\* What _reconnect_cdp says, that it "reuses the same writer and collector so
\* captured data continues flowing to the same DB": a poll outlives a lost
\* connection and ends only with its session (capture/__init__.py:590-592).
PollsOutliveReconnects ==
    \A p \in Polls : poll[p] = "done" => stopEvent = "set" \/ main \in StopPlaces

=============================================================================
