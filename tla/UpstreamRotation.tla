-------------------------- MODULE UpstreamRotation --------------------------
(***************************************************************************)
(* Rotation of the upstream SOCKS5 session: ProxyServer._do_rotate         *)
(* (proxy_relay/server.py) over UpstreamManager.rotate and get_upstream    *)
(* (proxy_relay/upstream.py).                                              *)
(*                                                                         *)
(* A rotation is a coroutine that awaits UpstreamManager.rotate in a       *)
(* worker thread.  Nothing serialises rotations: the monitor, SIGUSR1 and  *)
(* the health check each start their own, so the worker threads interleave *)
(* and their results reach the event loop in any order.                    *)
(*                                                                         *)
(* An upstream is named by the number of its sticky session; session 1 is  *)
(* the one ProxyServer.start resolves.  The session store belongs to       *)
(* proxy-st, which is not part of the repository: as rotate's docstring    *)
(* has it, its rotate clears the session and the next URL build makes a    *)
(* new one.                                                                *)
(***************************************************************************)
EXTENDS Integers

CONSTANT Tasks    \* the coroutines that may run _do_rotate

VARIABLES
    session,      \* the newest session the store has handed out
    cleared,      \* the store holds no session: the next build makes one
    upstream,     \* ProxyServer._upstream
    step,         \* where each task's rotation stands
    resolved,     \* the upstream a finished worker returns
    replaced      \* history: _upstream when the rotation began

rotationVars == <<session, cleared, upstream, step, resolved, replaced>>

Steps == {"idle", "rotating", "building", "resolved", "failed", "publishing"}

Rotating(t) == step[t] # "idle"

InFlight == {t \in Tasks : Rotating(t)}

RotationInit ==
    /\ session = 1
    /\ cleared = FALSE
    /\ upstream = 1
    /\ step = [t \in Tasks |-> "idle"]
    /\ resolved = [t \in Tasks |-> 0]
    /\ replaced = [t \in Tasks |-> 0]

BeginRotate(t) ==
    /\ step[t] = "idle"
    /\ step' = [step EXCEPT ![t] = "rotating"]
    /\ replaced' = [replaced EXCEPT ![t] = upstream]
    /\ UNCHANGED <<session, cleared, upstream, resolved>>

\* Faulty variant: the URL is built although the store was never rotated.
InvalidateNothing(t) ==
    /\ step[t] = "rotating"
    /\ step' = [step EXCEPT ![t] = "building"]
    /\ UNCHANGED <<session, cleared, upstream, resolved, replaced>>

\* In the worker thread: self._session_store.rotate(profile).
InvalidateSession(t) ==
    /\ step[t] = "rotating"
    /\ cleared' = TRUE
    /\ step' = [step EXCEPT ![t] = "building"]
    /\ UNCHANGED <<session, upstream, resolved, replaced>>

\* The session build_url puts in the URL.
StickySession == IF cleared THEN session + 1 ELSE session

\* In the worker thread: get_upstream builds and parses the URL.
BuildUrl(t) ==
    /\ step[t] = "building"
    /\ session' = StickySession
    /\ cleared' = FALSE
    /\ resolved' = [resolved EXCEPT ![t] = StickySession]
    /\ step' = [step EXCEPT ![t] = "resolved"]
    /\ UNCHANGED <<upstream, replaced>>

\* Either call raised.  A failed build leaves the store rotated: the upstream
\* that is kept belongs to a session the store no longer holds.
RotateFails(t) ==
    /\ step[t] \in {"rotating", "building"}
    /\ step' = [step EXCEPT ![t] = "failed"]
    /\ UNCHANGED <<session, cleared, upstream, resolved, replaced>>

\* Back in the event loop: the assignment, then the await of the status write.
ApplyRotation(t) ==
    /\ step[t] = "resolved"
    /\ upstream' = resolved[t]
    /\ step' = [step EXCEPT ![t] = "publishing"]
    /\ UNCHANGED <<session, cleared, resolved, replaced>>

\* _do_rotate returns, with the status written or the failure logged; its
\* locals are gone.
RotationDone(t) ==
    /\ step[t] \in {"publishing", "failed"}
    /\ step' = [step EXCEPT ![t] = "idle"]
    /\ resolved' = [resolved EXCEPT ![t] = 0]
    /\ replaced' = [replaced EXCEPT ![t] = 0]
    /\ UNCHANGED <<session, cleared, upstream>>

RotationNext ==
    \/ \E t \in Tasks : BeginRotate(t)
    \/ \E t \in Tasks : InvalidateSession(t)
    \/ \E t \in Tasks : BuildUrl(t)
    \/ \E t \in Tasks : RotateFails(t)
    \/ \E t \in Tasks : ApplyRotation(t)
    \/ \E t \in Tasks : RotationDone(t)

RotationSpec == RotationInit /\ [][RotationNext]_rotationVars

-----------------------------------------------------------------------------
(***************************************************************************)
(* Properties.                                                             *)
(***************************************************************************)

\* Types; neither the server nor a worker holds a session that the store has
\* not handed out.
RotationTypeOK ==
    /\ session \in Nat \ {0}
    /\ cleared \in BOOLEAN
    /\ upstream \in 1..session
    /\ step \in [Tasks -> Steps]
    /\ resolved \in [Tasks -> 0..session]
    /\ replaced \in [Tasks -> 0..session]

\* However rotations overlap, one that succeeds never hands back the upstream it
\* was asked to replace, nor an older one (server.py:293-294, upstream.py:207-213).
RotationMovesOn ==
    \A t \in Tasks : step[t] = "resolved" => resolved[t] > replaced[t]

=============================================================================
