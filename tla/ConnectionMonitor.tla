------------------------- MODULE ConnectionMonitor -------------------------
(***************************************************************************)
(* The rolling-window connection monitor of proxy_relay/monitor.py.        *)
(*                                                                         *)
(* Every connection handler is a coroutine of one event loop.  It reports  *)
(* the outcome of its connection with record_success or record_error; the  *)
(* latter awaits the rotation callback when the window holds Threshold     *)
(* errors.  While it awaits, the other handlers go on recording: a caller  *)
(* suspended inside the callback is a member of "rotating".                *)
(*                                                                         *)
(* Abstractions.  time.monotonic() is the logical clock "now", which ticks *)
(* once per record.  A ConnectionRecord keeps its timestamp and whether it *)
(* is a success; latency, target and error text are left out (they reach   *)
(* the log and the averages of get_stats only).  A deque of records with   *)
(* distinct, increasing timestamps is the set of those records.  The       *)
(* monitor is enabled and has a callback, as ProxyServer.start builds it.  *)
(***************************************************************************)
EXTENDS Integers, FiniteSets

CONSTANTS
    Callers,      \* the coroutines that record outcomes
    WindowSize,   \* MonitorConfig.window_size
    Threshold     \* MonitorConfig.error_threshold_count

ASSUME MonitorConstants ==
    /\ WindowSize \in Nat
    /\ Threshold \in Nat

VARIABLES
    window,             \* the deque, as a set of records
    now,                \* time.monotonic(), counted in records
    totalConnections,
    totalErrors,
    totalRotations,
    lastRotationTime,
    isShutdown,         \* _shutdown
    rotating            \* callers suspended in "await self._rotate_callback()"

monitorVars == <<window, now, totalConnections, totalErrors, totalRotations,
                 lastRotationTime, isShutdown, rotating>>

Outcomes == {"success", "error"}

ConnectionRecord == [time : Nat, outcome : Outcomes]

MaxLen == IF WindowSize >= 1 THEN WindowSize ELSE 1

-----------------------------------------------------------------------------
(***************************************************************************)
(* The bounded deque.                                                      *)
(***************************************************************************)

Oldest(w) == CHOOSE r \in w : \A s \in w : r.time <= s.time

\* Faulty variant: the deque is built with a maxlen one too large.
PushOneTooMany(w, r) ==
    IF Cardinality(w) <= MaxLen THEN w \cup {r} ELSE (w \ {Oldest(w)}) \cup {r}

\* deque(maxlen=MaxLen).append(r): a full deque drops its oldest record.
Push(w, r) ==
    IF Cardinality(w) < MaxLen THEN w \cup {r} ELSE (w \ {Oldest(w)}) \cup {r}

Errors(w) == {r \in w : r.outcome # "success"}

WindowErrorCount == Cardinality(Errors(window))

-----------------------------------------------------------------------------
MonitorInit ==
    /\ window = {}
    /\ now = 0
    /\ totalConnections = 0
    /\ totalErrors = 0
    /\ totalRotations = 0
    /\ lastRotationTime = 0
    /\ isShutdown = FALSE
    /\ rotating = {}

NextRecord(o) == [time |-> now + 1, outcome |-> o]

RecordSuccess(c) ==
    /\ c \notin rotating
    /\ now' = now + 1
    /\ window' = Push(window, NextRecord("success"))
    /\ totalConnections' = totalConnections + 1
    /\ UNCHANGED <<totalErrors, totalRotations, lastRotationTime, isShutdown, rotating>>

\* What both outcomes of record_error do before the threshold is looked at.
CountError(c) ==
    /\ c \notin rotating
    /\ now' = now + 1
    /\ totalConnections' = totalConnections + 1
    /\ totalErrors' = totalErrors + 1
    /\ UNCHANGED isShutdown

WindowAfterError == Push(window, NextRecord("error"))

\* Faulty variant: the threshold must be exceeded rather than reached.
ThresholdExceeded == Cardinality(Errors(WindowAfterError)) > Threshold

ThresholdReached == Cardinality(Errors(WindowAfterError)) >= Threshold

\* record_error below the threshold: the error stays in the window.
RecordErrorOnly(c) ==
    /\ CountError(c)
    /\ ~ThresholdReached
    /\ window' = WindowAfterError
    /\ UNCHANGED <<totalRotations, lastRotationTime, rotating>>

\* record_error at the threshold: _trigger_rotation up to the await.  The
\* window is NOT cleared here but when the callback returns.
RecordErrorAndRotate(c) ==
    /\ CountError(c)
    /\ ThresholdReached
    /\ ~isShutdown
    /\ window' = WindowAfterError
    /\ totalRotations' = totalRotations + 1
    /\ lastRotationTime' = now + 1
    /\ rotating' = rotating \cup {c}

\* record_error at the threshold once shutdown() has been called.
RecordErrorInShutdown(c) ==
    /\ CountError(c)
    /\ ThresholdReached
    /\ isShutdown
    /\ window' = {}
    /\ UNCHANGED <<totalRotations, lastRotationTime, rotating>>

RecordError(c) ==
    \/ RecordErrorOnly(c)
    \/ RecordErrorAndRotate(c)
    \/ RecordErrorInShutdown(c)

\* Faulty variant: the window survives the rotation.
RotationReturnedKeepingWindow(c) ==
    /\ c \in rotating
    /\ rotating' = rotating \ {c}
    /\ UNCHANGED <<window, now, totalConnections, totalErrors, totalRotations,
                   lastRotationTime, isShutdown>>

\* The callback returned or raised: both end in window.clear().
RotationReturned(c) ==
    /\ c \in rotating
    /\ rotating' = rotating \ {c}
    /\ window' = {}
    /\ UNCHANGED <<now, totalConnections, totalErrors, totalRotations,
                   lastRotationTime, isShutdown>>

Shutdown ==
    /\ isShutdown' = TRUE
    /\ UNCHANGED <<window, now, totalConnections, totalErrors, totalRotations,
                   lastRotationTime, rotating>>

Reset ==
    /\ window' = {}
    /\ totalConnections' = 0
    /\ totalErrors' = 0
    /\ totalRotations' = 0
    /\ lastRotationTime' = 0
    /\ UNCHANGED <<now, isShutdown, rotating>>

Record(c) == RecordSuccess(c) \/ RecordError(c)

MonitorNext ==
    \/ \E c \in Callers : Record(c)
    \/ \E c \in Callers : RotationReturned(c)
    \/ Shutdown
    \/ Reset

MonitorSpec == MonitorInit /\ [][MonitorNext]_monitorVars

-----------------------------------------------------------------------------
(***************************************************************************)
(* Properties.                                                             *)
(***************************************************************************)

\* Types, and the deque's bound: it never holds more than MaxLen records.
MonitorTypeOK ==
    /\ window \subseteq ConnectionRecord
    /\ IsFiniteSet(window)
    /\ Cardinality(window) <= MaxLen
    /\ {now, totalConnections, totalErrors, totalRotations, lastRotationTime} \subseteq Nat
    /\ isShutdown \in BOOLEAN
    /\ rotating \subseteq Callers

\* An error that has scrolled out of the last MaxLen records no longer counts
\* (monitor.py:112; "errors from 200 connections ago don't count").
OnlyRecentRecordsCount == \A r \in window : now - r.time < MaxLen

\* The error count never stays at or above the threshold with no rotation under
\* way: a window that called for a rotation got one, and is cleared after it
\* (record_error and _trigger_rotation, monitor.py:188-199 and 283-309).
NoMissedRotation ==
    (rotating = {} /\ Threshold > 0) => WindowErrorCount < Threshold

\* After shutdown() no caller enters the rotation callback (monitor.py:269-277).
NoRotationAfterShutdown ==
    [][isShutdown => rotating' \subseteq rotating]_monitorVars

\* The errors of a window that were recorded after the last trigger.
FreshErrors(w) == {r \in Errors(w) : r.time > lastRotationTime}

\* While rotations do not overlap the cooldown works: a rotation triggered when
\* no other is under way is backed by Threshold errors that no earlier rotation
\* was triggered by (the clear at monitor.py:308-309).
CooldownWhenQuiet ==
    [][rotating = {} /\ rotating' # {}
         => Cardinality(FreshErrors(window')) >= Threshold]_monitorVars

\* config.py accepts an error threshold above the window size; the monitor then
\* never rotates, however many errors it records.
UnreachableThresholdNeverRotates == Threshold > MaxLen => totalRotations = 0

=============================================================================
