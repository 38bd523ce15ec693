---------------------- MODULE ConnectionMonitorProofs ----------------------
(***************************************************************************)
(* Theorems about ConnectionMonitor, for every set of callers, window size *)
(* and threshold.                                                          *)
(***************************************************************************)
EXTENDS ConnectionMonitor, FiniteSetTheorems, WellFoundedInduction, TLAPS

-----------------------------------------------------------------------------
(***************************************************************************)
(* Lemmas about the deque.                                                 *)
(***************************************************************************)

\* A non-empty set of naturals has a least element (needed because Oldest is a
\* CHOOSE, monitor.py:112).
LEMMA LeastNatural ==
    ASSUME NEW T, T \subseteq Nat, T # {}
    PROVE  \E x \in T : \A y \in T : x <= y
<1>1. IsWellFoundedOn(OpToRel(<, Nat), Nat)
  BY NatLessThanWellFounded
<1>2. PICK x \in T : \A y \in T : ~(<<y, x>> \in OpToRel(<, Nat))
  BY <1>1, WFMin
<1>3. ASSUME NEW y \in T PROVE x <= y
  <2>1. ~(<<y, x>> \in OpToRel(<, Nat))
    BY <1>2
  <2>2. ~(y < x)
    BY <2>1 DEF OpToRel
  <2>3. QED
    BY <2>2
<1>4. QED
  BY <1>3

\* Oldest returns a member of a non-empty deque with the least timestamp.
LEMMA OldestIsOldest ==
    ASSUME NEW w, w \subseteq ConnectionRecord, w # {}
    PROVE  /\ Oldest(w) \in w
           /\ \A s \in w : Oldest(w).time <= s.time
<1> DEFINE T == {r.time : r \in w}
<1>1. T \subseteq Nat /\ T # {}
  BY DEF ConnectionRecord
<1> HIDE DEF T
<1>2. PICK x \in T : \A y \in T : x <= y
  BY <1>1, LeastNatural
<1>3. \E r \in w : \A s \in w : r.time <= s.time
  BY <1>2 DEF T
<1>4. QED
  BY <1>3 DEF Oldest

\* What append does to the deque: the new record is in, at most one other is
\* out and it is the oldest, and the length grows by one up to the maximum.
LEMMA PushAppends ==
    ASSUME NEW w, w \subseteq ConnectionRecord, IsFiniteSet(w), Cardinality(w) <= MaxLen,
           NEW r \in ConnectionRecord, r \notin w
    PROVE  /\ Push(w, r) \subseteq ConnectionRecord
           /\ IsFiniteSet(Push(w, r))
           /\ r \in Push(w, r)
           /\ Push(w, r) \subseteq w \cup {r}
           /\ \/ /\ Cardinality(w) < MaxLen
                 /\ Cardinality(Push(w, r)) = Cardinality(w) + 1
              \/ /\ Cardinality(w) = MaxLen
                 /\ Cardinality(Push(w, r)) = Cardinality(w)
                 /\ Oldest(w) \in w
                 /\ Oldest(w) \notin Push(w, r)
                 /\ \A s \in w : Oldest(w).time <= s.time
<1>1. MaxLen \in Nat /\ MaxLen >= 1
  BY MonitorConstants DEF MaxLen
<1>2. Cardinality(w) \in Nat
  BY FS_CardinalityType
<1>3. CASE Cardinality(w) < MaxLen
  <2>1. Push(w, r) = w \cup {r}
    BY <1>3 DEF Push
  <2>2. IsFiniteSet(w \cup {r}) /\ Cardinality(w \cup {r}) = Cardinality(w) + 1
    BY FS_AddElement
  <2>3. QED
    BY <2>1, <2>2, <1>3
<1>4. CASE ~(Cardinality(w) < MaxLen)
  <2>1. Cardinality(w) = MaxLen
    BY <1>4, <1>1, <1>2
  <2>2. w # {}
    BY <2>1, <1>1, FS_EmptySet
  <2>3. Oldest(w) \in w /\ \A s \in w : Oldest(w).time <= s.time
    BY <2>2, OldestIsOldest
  <2>4. Push(w, r) = (w \ {Oldest(w)}) \cup {r}
    BY <1>4 DEF Push
  <2>5. IsFiniteSet(w \ {Oldest(w)}) /\ Cardinality(w \ {Oldest(w)}) = Cardinality(w) - 1
    BY <2>3, FS_RemoveElement
  <2>6. r \notin w \ {Oldest(w)}
    OBVIOUS
  <2>7. /\ IsFiniteSet((w \ {Oldest(w)}) \cup {r})
        /\ Cardinality((w \ {Oldest(w)}) \cup {r}) = Cardinality(w \ {Oldest(w)}) + 1
    BY <2>5, <2>6, FS_AddElement
  <2>8. Cardinality(Push(w, r)) = Cardinality(w)
    BY <2>4, <2>5, <2>7, <1>2
  <2>9. QED
    BY <2>1, <2>3, <2>4, <2>7, <2>8
<1>5. QED
  BY <1>3, <1>4

\* A success pushed on the deque does not raise the number of errors in it.
LEMMA SuccessAddsNoError ==
    ASSUME NEW w, NEW v, IsFiniteSet(w), NEW r, r.outcome = "success",
           v \subseteq w \cup {r}
    PROVE  /\ IsFiniteSet(Errors(w)) /\ IsFiniteSet(Errors(v))
           /\ Cardinality(Errors(v)) <= Cardinality(Errors(w))
<1>1. IsFiniteSet(Errors(w))
  BY FS_Subset DEF Errors
<1>2. Errors(v) \subseteq Errors(w)
  BY DEF Errors
<1>3. QED
  BY <1>1, <1>2, FS_Subset

\* No more errors than records.
LEMMA ErrorsBounded ==
    ASSUME NEW w, IsFiniteSet(w)
    PROVE  /\ IsFiniteSet(Errors(w))
           /\ Cardinality(Errors(w)) \in Nat
           /\ Cardinality(w) \in Nat
           /\ Cardinality(Errors(w)) <= Cardinality(w)
  BY FS_Subset, FS_CardinalityType DEF Errors

-----------------------------------------------------------------------------
(***************************************************************************)
(* The inductive invariant.  OnlyRecentRecordsCount needs the records to   *)
(* be consecutive (ConsecutiveTimes with DistinctTimes); CooldownWhenQuiet *)
(* needs QuietWindowIsFresh.                                               *)
(***************************************************************************)

DistinctTimes == \A r, s \in window : r.time = s.time => r = s

ConsecutiveTimes ==
    \A r \in window : r.time <= now /\ r.time > now - Cardinality(window)

QuietWindowIsFresh ==
    /\ lastRotationTime <= now
    /\ rotating = {} => \A r \in window : r.time > lastRotationTime

MonitorInv ==
    /\ MonitorTypeOK
    /\ DistinctTimes
    /\ ConsecutiveTimes
    /\ QuietWindowIsFresh
    /\ NoMissedRotation
    /\ UnreachableThresholdNeverRotates

\* Appending the record of the current tick keeps the deque well formed.
LEMMA RecordKeepsWindow ==
    ASSUME MonitorTypeOK, DistinctTimes, ConsecutiveTimes,
           NEW o \in Outcomes,
           now' = now + 1, window' = Push(window, NextRecord(o))
    PROVE  /\ window' \subseteq ConnectionRecord
           /\ IsFiniteSet(window')
           /\ Cardinality(window') <= MaxLen
           /\ NextRecord(o) \in window'
           /\ window' \subseteq window \cup {NextRecord(o)}
           /\ DistinctTimes'
           /\ ConsecutiveTimes'
<1> DEFINE r == NextRecord(o)
<1>1. r \in ConnectionRecord /\ r.time = now + 1
  BY DEF NextRecord, ConnectionRecord, MonitorTypeOK
<1>2. \A s \in window : s.time \in Nat /\ s.time <= now
  BY DEF MonitorTypeOK, ConnectionRecord, ConsecutiveTimes
<1>3. r \notin window
  BY <1>1, <1>2 DEF MonitorTypeOK
<1>4. MaxLen \in Nat /\ Cardinality(window) \in Nat /\ now \in Nat
  BY MonitorConstants, FS_CardinalityType DEF MaxLen, MonitorTypeOK
<1> HIDE DEF r
<1>5. /\ window' \subseteq ConnectionRecord
      /\ IsFiniteSet(window')
      /\ r \in window'
      /\ window' \subseteq window \cup {r}
      /\ \/ /\ Cardinality(window) < MaxLen
            /\ Cardinality(window') = Cardinality(window) + 1
         \/ /\ Cardinality(window) = MaxLen
            /\ Cardinality(window') = Cardinality(window)
            /\ Oldest(window) \in window
            /\ Oldest(window) \notin window'
            /\ \A s \in window : Oldest(window).time <= s.time
  BY <1>1, <1>3, PushAppends DEF MonitorTypeOK, r
<1>6. Cardinality(window') <= MaxLen
  BY <1>4, <1>5
<1>7. DistinctTimes'
  BY <1>1, <1>2, <1>4, <1>5 DEF DistinctTimes
<1>8. ConsecutiveTimes'
  <2> SUFFICES ASSUME NEW s \in window'
               PROVE  s.time <= now' /\ s.time > now' - Cardinality(window')
    BY DEF ConsecutiveTimes
  <2>1. Cardinality(window') \in Nat /\ Cardinality(window') >= 1
    BY <1>5, FS_CardinalityType, FS_EmptySet
  <2>2. CASE s = r
    BY <2>1, <2>2, <1>1, <1>4
  <2>3. CASE s \in window /\ Cardinality(window') = Cardinality(window) + 1
    BY <2>3, <1>2, <1>4 DEF ConsecutiveTimes
  <2>4. CASE /\ s \in window
             /\ Cardinality(window') = Cardinality(window)
             /\ Oldest(window) \in window
             /\ Oldest(window) \notin window'
             /\ Oldest(window).time <= s.time
    <3>1. s.time # Oldest(window).time
      BY <2>4 DEF DistinctTimes
    <3>2. Oldest(window).time > now - Cardinality(window)
      BY <2>4 DEF ConsecutiveTimes
    <3>3. QED
      BY <2>4, <3>1, <3>2, <1>2, <1>4
  <2>5. QED
    BY <2>2, <2>3, <2>4, <1>5
<1>9. QED
  BY <1>5, <1>6, <1>7, <1>8 DEF r

LEMMA MonitorInitInv == MonitorInit => MonitorInv
<1> SUFFICES ASSUME MonitorInit PROVE MonitorInv
  OBVIOUS
<1>1. MaxLen \in Nat /\ Threshold \in Nat
  BY MonitorConstants DEF MaxLen
<1>2. Errors({}) = {}
  BY DEF Errors
<1>3. MonitorTypeOK
  <2>1. IsFiniteSet(window) /\ Cardinality(window) = 0
    BY FS_EmptySet DEF MonitorInit
  <2>2. Cardinality(window) <= MaxLen
    BY <1>1, <2>1
  <2>3. isShutdown \in BOOLEAN /\ window \subseteq ConnectionRecord /\ rotating \subseteq Callers
    BY DEF MonitorInit
  <2>4. {now, totalConnections, totalErrors, totalRotations, lastRotationTime} \subseteq Nat
    BY DEF MonitorInit
  <2>5. QED
    BY <2>1, <2>2, <2>3, <2>4 DEF MonitorTypeOK
<1>4. NoMissedRotation
  BY <1>1, <1>2, FS_EmptySet DEF MonitorInit, NoMissedRotation, WindowErrorCount
<1>5. QED
  BY <1>3, <1>4 DEF MonitorInit, MonitorInv, DistinctTimes, ConsecutiveTimes,
     QuietWindowIsFresh, UnreachableThresholdNeverRotates

-----------------------------------------------------------------------------
(***************************************************************************)
(* One lemma per action.                                                   *)
(***************************************************************************)

LEMMA RecordSuccessInv ==
    ASSUME MonitorInv, NEW c \in Callers, RecordSuccess(c)
    PROVE  MonitorInv'
<1> DEFINE r == NextRecord("success")
<1>1. /\ window' \subseteq ConnectionRecord
      /\ IsFiniteSet(window')
      /\ Cardinality(window') <= MaxLen
      /\ window' \subseteq window \cup {r}
      /\ DistinctTimes'
      /\ ConsecutiveTimes'
  BY RecordKeepsWindow DEF MonitorInv, RecordSuccess, Outcomes
<1>2. MonitorTypeOK'
  BY <1>1 DEF MonitorInv, MonitorTypeOK, RecordSuccess
<1>3. QuietWindowIsFresh'
  BY <1>1 DEF MonitorInv, MonitorTypeOK, QuietWindowIsFresh, RecordSuccess, NextRecord
<1>4. NoMissedRotation'
  <2>1. r.outcome = "success"
    BY DEF NextRecord
  <2>2. /\ IsFiniteSet(Errors(window)) /\ IsFiniteSet(Errors(window'))
        /\ Cardinality(Errors(window')) <= Cardinality(Errors(window))
    BY <1>1, <2>1, SuccessAddsNoError DEF MonitorInv, MonitorTypeOK
  <2>3. Cardinality(Errors(window)) \in Nat /\ Cardinality(Errors(window')) \in Nat
    BY <2>2, FS_CardinalityType
  <2>4. QED
    BY <2>2, <2>3, MonitorConstants
    DEF MonitorInv, NoMissedRotation, WindowErrorCount, RecordSuccess
<1>5. UnreachableThresholdNeverRotates'
  BY DEF MonitorInv, UnreachableThresholdNeverRotates, RecordSuccess, MaxLen
<1>6. QED
  BY <1>1, <1>2, <1>3, <1>4, <1>5 DEF MonitorInv

\* What the window is after an error, whatever happens next.
LEMMA WindowAfterErrorFacts ==
    ASSUME MonitorInv
    PROVE  /\ WindowAfterError \subseteq ConnectionRecord
           /\ IsFiniteSet(WindowAfterError)
           /\ Cardinality(WindowAfterError) \in Nat
           /\ Cardinality(WindowAfterError) <= MaxLen
           /\ WindowAfterError \subseteq window \cup {NextRecord("error")}
           /\ Cardinality(Errors(WindowAfterError)) \in Nat
           /\ Cardinality(Errors(WindowAfterError)) <= Cardinality(WindowAfterError)
<1>1. NextRecord("error") \in ConnectionRecord
  BY DEF NextRecord, ConnectionRecord, Outcomes, MonitorInv, MonitorTypeOK
<1>2. NextRecord("error") \notin window
  <2>1. NextRecord("error").time = now + 1
    BY DEF NextRecord
  <2>2. \A s \in window : s.time <= now
    BY DEF MonitorInv, ConsecutiveTimes
  <2>3. QED
    BY <2>1, <2>2 DEF MonitorInv, MonitorTypeOK
<1>3. MaxLen \in Nat /\ Cardinality(window) \in Nat
  BY MonitorConstants, FS_CardinalityType DEF MaxLen, MonitorInv, MonitorTypeOK
<1>4. QED
  BY <1>1, <1>2, <1>3, PushAppends, ErrorsBounded DEF WindowAfterError, MonitorInv, MonitorTypeOK

LEMMA RecordErrorOnlyInv ==
    ASSUME MonitorInv, NEW c \in Callers, RecordErrorOnly(c)
    PROVE  MonitorInv'
<1>1. /\ window' \subseteq ConnectionRecord
      /\ IsFiniteSet(window')
      /\ Cardinality(window') <= MaxLen
      /\ window' \subseteq window \cup {NextRecord("error")}
      /\ DistinctTimes'
      /\ ConsecutiveTimes'
  BY RecordKeepsWindow
  DEF MonitorInv, RecordErrorOnly, CountError, WindowAfterError, Outcomes
<1>2. MonitorTypeOK'
  BY <1>1 DEF MonitorInv, MonitorTypeOK, RecordErrorOnly, CountError
<1>3. QuietWindowIsFresh'
  BY <1>1
  DEF MonitorInv, MonitorTypeOK, QuietWindowIsFresh, RecordErrorOnly, CountError, NextRecord
<1>4. NoMissedRotation'
  <2>1. ~(Cardinality(Errors(window')) >= Threshold)
    BY DEF RecordErrorOnly, ThresholdReached
  <2>2. Cardinality(Errors(window')) \in Nat
    BY WindowAfterErrorFacts DEF RecordErrorOnly
  <2>3. QED
    BY <2>1, <2>2, MonitorConstants DEF NoMissedRotation, WindowErrorCount
<1>5. UnreachableThresholdNeverRotates'
  BY DEF MonitorInv, UnreachableThresholdNeverRotates, RecordErrorOnly, MaxLen
<1>6. QED
  BY <1>1, <1>2, <1>3, <1>4, <1>5 DEF MonitorInv

LEMMA RecordErrorAndRotateInv ==
    ASSUME MonitorInv, NEW c \in Callers, RecordErrorAndRotate(c)
    PROVE  MonitorInv'
<1>1. /\ window' \subseteq ConnectionRecord
      /\ IsFiniteSet(window')
      /\ Cardinality(window') <= MaxLen
      /\ DistinctTimes'
      /\ ConsecutiveTimes'
  BY RecordKeepsWindow
  DEF MonitorInv, RecordErrorAndRotate, CountError, WindowAfterError, Outcomes
<1>2. MonitorTypeOK'
  BY <1>1 DEF MonitorInv, MonitorTypeOK, RecordErrorAndRotate, CountError
<1>3. rotating' # {}
  BY DEF RecordErrorAndRotate
<1>4. QuietWindowIsFresh'
  BY <1>3
  DEF MonitorInv, MonitorTypeOK, QuietWindowIsFresh, RecordErrorAndRotate, CountError
<1>5. NoMissedRotation'
  BY <1>3 DEF NoMissedRotation
<1>6. UnreachableThresholdNeverRotates'
  <2>1. Cardinality(Errors(WindowAfterError)) >= Threshold
    BY DEF RecordErrorAndRotate, ThresholdReached
  <2>2. MaxLen \in Nat /\ Threshold \in Nat
    BY MonitorConstants DEF MaxLen
  <2>3. ~(Threshold > MaxLen)
    BY <2>1, <2>2, WindowAfterErrorFacts
  <2>4. QED
    BY <2>3 DEF UnreachableThresholdNeverRotates, MaxLen
<1>7. QED
  BY <1>1, <1>2, <1>4, <1>5, <1>6 DEF MonitorInv

\* The steps that leave the deque empty: an error after shutdown(), the end of a
\* rotation, and reset().
LEMMA EmptyWindowInv ==
    ASSUME MonitorInv, MonitorTypeOK', window' = {},
           lastRotationTime' <= now', UnreachableThresholdNeverRotates'
    PROVE  MonitorInv'
<1>1. Cardinality(Errors(window')) = 0
  BY FS_EmptySet DEF Errors
<1>2. NoMissedRotation'
  BY <1>1, MonitorConstants DEF NoMissedRotation, WindowErrorCount
<1>3. QED
  BY <1>2 DEF MonitorInv, DistinctTimes, ConsecutiveTimes, QuietWindowIsFresh

LEMMA EmptyWindowType ==
    ASSUME window' = {}
    PROVE  /\ window' \subseteq ConnectionRecord
           /\ IsFiniteSet(window')
           /\ Cardinality(window') <= MaxLen
  BY FS_EmptySet, MonitorConstants DEF MaxLen

LEMMA RecordErrorInShutdownInv ==
    ASSUME MonitorInv, NEW c \in Callers, RecordErrorInShutdown(c)
    PROVE  MonitorInv'
<1>1. window' = {}
  BY DEF RecordErrorInShutdown
<1>2. MonitorTypeOK'
  BY <1>1, EmptyWindowType
  DEF MonitorInv, MonitorTypeOK, RecordErrorInShutdown, CountError
<1>3. lastRotationTime' <= now'
  BY DEF MonitorInv, MonitorTypeOK, QuietWindowIsFresh, RecordErrorInShutdown, CountError
<1>4. UnreachableThresholdNeverRotates'
  BY DEF MonitorInv, UnreachableThresholdNeverRotates, RecordErrorInShutdown, MaxLen
<1>5. QED
  BY <1>1, <1>2, <1>3, <1>4, EmptyWindowInv

LEMMA RotationReturnedInv ==
    ASSUME MonitorInv, NEW c \in Callers, RotationReturned(c)
    PROVE  MonitorInv'
<1>1. window' = {}
  BY DEF RotationReturned
<1>2. MonitorTypeOK'
  BY <1>1, EmptyWindowType DEF MonitorInv, MonitorTypeOK, RotationReturned
<1>3. lastRotationTime' <= now'
  BY DEF MonitorInv, QuietWindowIsFresh, RotationReturned
<1>4. UnreachableThresholdNeverRotates'
  BY DEF MonitorInv, UnreachableThresholdNeverRotates, RotationReturned, MaxLen
<1>5. QED
  BY <1>1, <1>2, <1>3, <1>4, EmptyWindowInv

LEMMA ResetInv ==
    ASSUME MonitorInv, Reset
    PROVE  MonitorInv'
<1>1. window' = {}
  BY DEF Reset
<1>2. MonitorTypeOK'
  BY <1>1, EmptyWindowType DEF MonitorInv, MonitorTypeOK, Reset
<1>3. lastRotationTime' <= now'
  BY DEF MonitorInv, MonitorTypeOK, Reset
<1>4. UnreachableThresholdNeverRotates'
  BY DEF UnreachableThresholdNeverRotates, Reset
<1>5. QED
  BY <1>1, <1>2, <1>3, <1>4, EmptyWindowInv

\* Steps that touch none of what the invariant speaks of.
LEMMA MonitorInvUnchanged ==
    ASSUME MonitorInv,
           UNCHANGED <<window, now, totalConnections, totalErrors, totalRotations,
                       lastRotationTime, rotating>>,
           isShutdown' \in BOOLEAN
    PROVE  MonitorInv'
<1>1. MonitorTypeOK'
  BY DEF MonitorInv, MonitorTypeOK, MaxLen
<1>2. DistinctTimes' /\ ConsecutiveTimes' /\ QuietWindowIsFresh'
  BY DEF MonitorInv, DistinctTimes, ConsecutiveTimes, QuietWindowIsFresh
<1>3. NoMissedRotation' /\ UnreachableThresholdNeverRotates'
  BY DEF MonitorInv, NoMissedRotation, WindowErrorCount, UnreachableThresholdNeverRotates, MaxLen
<1>4. QED
  BY <1>1, <1>2, <1>3 DEF MonitorInv

\* The invariant is inductive for one step of the monitor.
LEMMA MonitorStepInv ==
    ASSUME MonitorInv, [MonitorNext]_monitorVars
    PROVE  MonitorInv'
<1>1. CASE \E c \in Callers : Record(c)
  <2> PICK c \in Callers : Record(c)
    BY <1>1
  <2>1. CASE RecordSuccess(c)
    BY <2>1, RecordSuccessInv
  <2>2. CASE RecordErrorOnly(c)
    BY <2>2, RecordErrorOnlyInv
  <2>3. CASE RecordErrorAndRotate(c)
    BY <2>3, RecordErrorAndRotateInv
  <2>4. CASE RecordErrorInShutdown(c)
    BY <2>4, RecordErrorInShutdownInv
  <2>5. QED
    BY <2>1, <2>2, <2>3, <2>4 DEF Record, RecordError
<1>2. CASE \E c \in Callers : RotationReturned(c)
  BY <1>2, RotationReturnedInv
<1>3. CASE Shutdown
  BY <1>3, MonitorInvUnchanged DEF Shutdown
<1>4. CASE Reset
  BY <1>4, ResetInv
<1>5. CASE UNCHANGED monitorVars
  BY <1>5, MonitorInvUnchanged DEF monitorVars, MonitorInv, MonitorTypeOK
<1>6. QED
  BY <1>1, <1>2, <1>3, <1>4, <1>5 DEF MonitorNext

LEMMA MonitorInvariance == MonitorSpec => []MonitorInv
<1>1. MonitorInv /\ [MonitorNext]_monitorVars => MonitorInv'
  BY MonitorStepInv
<1>2. QED
  BY MonitorInitInv, <1>1, PTL DEF MonitorSpec

-----------------------------------------------------------------------------
(***************************************************************************)
(* The theorems.                                                           *)
(***************************************************************************)

\* The types, and the bound of the deque (monitor.py:112), always hold.
THEOREM MonitorTypeCorrect == MonitorSpec => []MonitorTypeOK
<1>1. MonitorInv => MonitorTypeOK
  BY DEF MonitorInv
<1>2. QED
  BY <1>1, MonitorInvariance, PTL

\* Only the last MaxLen records count (the rolling window of monitor.py:112).
THEOREM WindowIsRolling == MonitorSpec => []OnlyRecentRecordsCount
<1>1. MonitorInv => OnlyRecentRecordsCount
  <2> SUFFICES ASSUME MonitorInv, NEW r \in window
               PROVE  now - r.time < MaxLen
    BY DEF OnlyRecentRecordsCount
  <2>1. r.time \in Nat /\ now \in Nat /\ Cardinality(window) \in Nat /\ MaxLen \in Nat
    BY MonitorConstants, FS_CardinalityType
    DEF MonitorInv, MonitorTypeOK, ConnectionRecord, MaxLen
  <2>2. r.time > now - Cardinality(window) /\ Cardinality(window) <= MaxLen
    BY DEF MonitorInv, MonitorTypeOK, ConsecutiveTimes
  <2>3. QED
    BY <2>1, <2>2
<1>2. QED
  BY <1>1, MonitorInvariance, PTL

\* No window stays at the threshold without a rotation (monitor.py:188-199).
THEOREM RotationNeverMissed == MonitorSpec => []NoMissedRotation
<1>1. MonitorInv => NoMissedRotation
  BY DEF MonitorInv
<1>2. QED
  BY <1>1, MonitorInvariance, PTL

\* A threshold above the window size disables rotation (monitor.py:112 and 192).
THEOREM UnreachableThreshold == MonitorSpec => []UnreachableThresholdNeverRotates
<1>1. MonitorInv => UnreachableThresholdNeverRotates
  BY DEF MonitorInv
<1>2. QED
  BY <1>1, MonitorInvariance, PTL

\* shutdown() is final: no caller enters the rotation callback after it
\* (monitor.py:291-294).
THEOREM ShutdownStopsRotation == MonitorSpec => NoRotationAfterShutdown
<1>1. [MonitorNext]_monitorVars => [isShutdown => rotating' \subseteq rotating]_monitorVars
  BY DEF MonitorNext, monitorVars, Record, RecordSuccess, RecordError, RecordErrorOnly,
     RecordErrorAndRotate, RecordErrorInShutdown, CountError, RotationReturned, Shutdown, Reset
<1>2. QED
  BY <1>1, PTL DEF MonitorSpec, NoRotationAfterShutdown

\* The cooldown: as long as rotations do not overlap, each is backed by Threshold
\* errors of its own (monitor.py:283-309).
THEOREM CooldownHoldsWhenQuiet == MonitorSpec => CooldownWhenQuiet
<1> DEFINE Backed == Cardinality(FreshErrors(window')) >= Threshold
<1>1. ASSUME MonitorInv, MonitorInv', [MonitorNext]_monitorVars,
             rotating = {}, rotating' # {}
      PROVE  Backed
  <2>1. PICK c \in Callers : RecordErrorAndRotate(c)
    BY <1>1
    DEF MonitorNext, monitorVars, Record, RecordSuccess, RecordError, RecordErrorOnly,
        RecordErrorInShutdown, RotationReturned, Shutdown, Reset
  <2>2. window' \subseteq window \cup {NextRecord("error")}
    BY <2>1, <1>1, WindowAfterErrorFacts DEF RecordErrorAndRotate
  <2>3. \A r \in window' : r.time > lastRotationTime
    BY <2>2, <1>1 DEF MonitorInv, MonitorTypeOK, QuietWindowIsFresh, NextRecord
  <2>4. FreshErrors(window') = Errors(window')
    BY <2>3 DEF FreshErrors, Errors
  <2>5. Cardinality(Errors(window')) >= Threshold
    BY <2>1 DEF RecordErrorAndRotate, ThresholdReached
  <2>6. QED
    BY <2>4, <2>5
<1>2. MonitorInv /\ MonitorInv' /\ [MonitorNext]_monitorVars
        => [rotating = {} /\ rotating' # {} => Backed]_monitorVars
  BY <1>1
<1>3. QED
  BY <1>2, MonitorInvariance, PTL DEF MonitorSpec, CooldownWhenQuiet

=============================================================================
