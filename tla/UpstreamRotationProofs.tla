----------------------- MODULE UpstreamRotationProofs -----------------------
(***************************************************************************)
(* Theorems about UpstreamRotation, for every set of rotating coroutines.  *)
(***************************************************************************)
EXTENDS UpstreamRotation, TLAPS

\* Between the store's rotate and the build, either the store is still cleared or
\* another worker's build has already moved it past the replaced session.
BuildWillMoveOn ==
    \A t \in Tasks : step[t] = "building" => cleared \/ replaced[t] < session

RotationInv == RotationTypeOK /\ RotationMovesOn /\ BuildWillMoveOn

\* The URL build returns a session at least as new as the newest one, and a new
\* one if the store is cleared (upstream.py:127-133).
LEMMA StickySessionIsNew ==
    ASSUME RotationTypeOK
    PROVE  /\ StickySession \in Nat \ {0}
           /\ StickySession >= session
           /\ cleared => StickySession > session
BY DEF RotationTypeOK, StickySession

LEMMA RotationInitInv == RotationInit => RotationInv
<1> SUFFICES ASSUME RotationInit PROVE RotationInv
  OBVIOUS
<1>1. RotationTypeOK
  <2>1. session \in Nat \ {0} /\ upstream \in 1..session
    BY DEF RotationInit
  <2>2. cleared \in BOOLEAN
    BY DEF RotationInit
  <2>3. step \in [Tasks -> Steps]
    BY DEF RotationInit, Steps
  <2>4. resolved \in [Tasks -> 0..session] /\ replaced \in [Tasks -> 0..session]
    BY DEF RotationInit
  <2>5. QED
    BY <2>1, <2>2, <2>3, <2>4 DEF RotationTypeOK
<1>2. RotationMovesOn /\ BuildWillMoveOn
  BY DEF RotationInit, RotationMovesOn, BuildWillMoveOn
<1>3. QED
  BY <1>1, <1>2 DEF RotationInv

\* Every step keeps the invariant, one step of the proof per action.
LEMMA RotationStepInv ==
    ASSUME RotationInv, [RotationNext]_rotationVars
    PROVE  RotationInv'
<1> USE DEF RotationInv
<1>1. ASSUME NEW t \in Tasks, BeginRotate(t) PROVE RotationInv'
  BY <1>1 DEF BeginRotate, RotationTypeOK, Steps, RotationMovesOn, BuildWillMoveOn
<1>2. ASSUME NEW t \in Tasks, InvalidateSession(t) PROVE RotationInv'
  BY <1>2 DEF InvalidateSession, RotationTypeOK, Steps, RotationMovesOn, BuildWillMoveOn
<1>3. ASSUME NEW t \in Tasks, BuildUrl(t) PROVE RotationInv'
  <2>1. /\ session' \in Nat \ {0} /\ session' >= session
        /\ session' = StickySession /\ cleared' = FALSE
        /\ upstream' = upstream /\ replaced' = replaced
        /\ step' = [step EXCEPT ![t] = "resolved"]
        /\ resolved' = [resolved EXCEPT ![t] = session']
    BY <1>3, StickySessionIsNew DEF BuildUrl
  <2>2. RotationTypeOK'
    <3>1. upstream' \in 1..session'
      BY <2>1 DEF RotationTypeOK
    <3>2. step' \in [Tasks -> Steps]
      BY <2>1 DEF RotationTypeOK, Steps
    <3>3. resolved' \in [Tasks -> 0..session'] /\ replaced' \in [Tasks -> 0..session']
      BY <2>1 DEF RotationTypeOK
    <3>4. cleared' \in BOOLEAN
      BY <2>1
    <3>5. QED
      BY <2>1, <3>1, <3>2, <3>3, <3>4 DEF RotationTypeOK
  <2>3. session' > replaced[t]
    <3>1. cleared \/ replaced[t] < session
      BY <1>3 DEF BuildUrl, BuildWillMoveOn
    <3>2. replaced[t] \in 0..session
      BY DEF RotationTypeOK
    <3>3. QED
      BY <2>1, <3>1, <3>2, StickySessionIsNew DEF RotationTypeOK
  <2>4. RotationMovesOn'
    BY <2>1, <2>3 DEF RotationTypeOK, RotationMovesOn
  <2>5. BuildWillMoveOn'
    <3> SUFFICES ASSUME NEW u \in Tasks, step'[u] = "building"
                 PROVE  replaced[u] < session'
      BY <2>1 DEF BuildWillMoveOn
    <3>1. step[u] = "building" /\ replaced[u] \in 0..session
      BY <2>1 DEF RotationTypeOK
    <3>2. cleared \/ replaced[u] < session
      BY <3>1 DEF BuildWillMoveOn
    <3>3. QED
      BY <2>1, <3>1, <3>2, StickySessionIsNew DEF RotationTypeOK
  <2>6. QED
    BY <2>2, <2>4, <2>5
<1>4. ASSUME NEW t \in Tasks, RotateFails(t) PROVE RotationInv'
  BY <1>4 DEF RotateFails, RotationTypeOK, Steps, RotationMovesOn, BuildWillMoveOn
<1>5. ASSUME NEW t \in Tasks, ApplyRotation(t) PROVE RotationInv'
  <2>1. resolved[t] \in 1..session
    BY <1>5 DEF ApplyRotation, RotationTypeOK, RotationMovesOn
  <2>2. QED
    BY <1>5, <2>1 DEF ApplyRotation, RotationTypeOK, Steps, RotationMovesOn, BuildWillMoveOn
<1>6. ASSUME NEW t \in Tasks, RotationDone(t) PROVE RotationInv'
  BY <1>6 DEF RotationDone, RotationTypeOK, Steps, RotationMovesOn, BuildWillMoveOn
<1>7. CASE UNCHANGED rotationVars
  BY <1>7 DEF rotationVars, RotationTypeOK, RotationMovesOn, BuildWillMoveOn
<1>8. QED
  BY <1>1, <1>2, <1>3, <1>4, <1>5, <1>6, <1>7 DEF RotationNext

LEMMA RotationInvariance == RotationSpec => []RotationInv
<1>1. RotationInv /\ [RotationNext]_rotationVars => RotationInv'
  BY RotationStepInv
<1>2. QED
  BY RotationInitInv, <1>1, PTL DEF RotationSpec

\* Types, and that every session in use was handed out by the store
\* (server.py:293-294).
THEOREM RotationTypeCorrect == RotationSpec => []RotationTypeOK
<1>1. RotationInv => RotationTypeOK
  BY DEF RotationInv
<1>2. QED
  BY <1>1, RotationInvariance, PTL

\* A successful rotation never hands back the upstream it was asked to replace,
\* whatever rotations overlap with it and whichever of them fail
\* (upstream.py:207-213, server.py:293-305).
THEOREM SuccessfulRotationMovesOn == RotationSpec => []RotationMovesOn
<1>1. RotationInv => RotationMovesOn
  BY DEF RotationInv
<1>2. QED
  BY <1>1, RotationInvariance, PTL

=============================================================================
