--------------------------- MODULE LifecycleProofs ---------------------------
(***************************************************************************)
(* Proofs about Lifecycle, for any number of servers and commands, given   *)
(* in any overlap.  EndedServerIsNotFound is not inductive: that a file    *)
(* never names a server that has ended rests on its naming no server that  *)
(* has yet to write it.                                                    *)
(***************************************************************************)
EXTENDS Lifecycle, TLAPS

YoungServerIsUnknown ==
    \A s \in Servers : at[s] \in Young => pidFile # s /\ statusFile # s

LifecycleInv == LifecycleTypeOK /\ EndedServerIsNotFound /\ YoungServerIsUnknown

LEMMA LifecycleInitInv == Init => LifecycleInv
BY LifecycleConstants DEF Init, LifecycleInv, LifecycleTypeOK, EndedServerIsNotFound,
    YoungServerIsUnknown, Young, Places, StartWindow, Ending, Processes, Commands

\* A step in which one process moves and nothing else changes.  A server that
\* reaches a place where the files must not name it comes from such a place.
LEMMA MovesInv ==
    ASSUME LifecycleInv, NEW p \in Processes, NEW from, NEW to \in Places,
           Moves(p, from, to),
           p \in Servers =>
               /\ to \in Young => from \in Young
               /\ to \in {"unlinking", "draining", "exiting"}
                     => from \in {"unlinking", "draining", "exiting"}
               /\ to = "leaving" => from = "leaving"
               /\ to = "exited" => from \in Young \cup {"leaving"}
    PROVE  LifecycleInv'
<1>1. /\ at' = [at EXCEPT ![p] = to] /\ at[p] = from
      /\ pidFile' = pidFile /\ statusFile' = statusFile
      /\ seen' = seen
  BY DEF Moves, Goto, files
<1>2. LifecycleTypeOK'
  BY <1>1 DEF LifecycleInv, LifecycleTypeOK
<1>3. ASSUME NEW s \in Servers PROVE at'[s] = IF s = p THEN to ELSE at[s]
  BY <1>1 DEF LifecycleInv, LifecycleTypeOK, Processes
<1>4. EndedServerIsNotFound'
  BY <1>1, <1>3 DEF LifecycleInv, EndedServerIsNotFound, YoungServerIsUnknown
<1>5. YoungServerIsUnknown'
  BY <1>1, <1>3 DEF LifecycleInv, YoungServerIsUnknown
<1>6. QED
  BY <1>2, <1>4, <1>5 DEF LifecycleInv

\* A step that removes the PID file or the status file.
LEMMA RemovePidInv ==
    ASSUME LifecycleInv, NEW p \in Processes, NEW from, NEW to \in Places,
           RemovePidFile(p, from, to),
           p \in Servers =>
               /\ to \in Young => from \in Young
               /\ to # "leaving"
               /\ to = "exited" => from \in Young \cup {"leaving"}
    PROVE  LifecycleInv'
<1>1. /\ at' = [at EXCEPT ![p] = to] /\ at[p] = from
      /\ pidFile' = None /\ statusFile' = statusFile
      /\ seen' = seen
  BY DEF RemovePidFile, Goto
<1>2. LifecycleTypeOK'
  BY <1>1 DEF LifecycleInv, LifecycleTypeOK
<1>3. ASSUME NEW s \in Servers
      PROVE  at'[s] = (IF s = p THEN to ELSE at[s]) /\ pidFile' # s
  BY <1>1, LifecycleConstants DEF LifecycleInv, LifecycleTypeOK, Processes
<1>4. EndedServerIsNotFound'
  BY <1>1, <1>3 DEF LifecycleInv, EndedServerIsNotFound, YoungServerIsUnknown
<1>5. YoungServerIsUnknown'
  BY <1>1, <1>3 DEF LifecycleInv, YoungServerIsUnknown
<1>6. QED
  BY <1>2, <1>4, <1>5 DEF LifecycleInv

LEMMA RemoveStatusInv ==
    ASSUME LifecycleInv, NEW p \in Processes, NEW from, NEW to \in Places,
           RemoveStatusFile(p, from, to),
           p \in Servers =>
               /\ to \in Young => from \in Young
               /\ to \in {"unlinking", "draining", "exiting", "leaving"}
                     => from \in {"unlinking", "draining", "exiting", "leaving"}
               /\ to # "exited"
    PROVE  LifecycleInv'
<1>1. /\ at' = [at EXCEPT ![p] = to] /\ at[p] = from
      /\ pidFile' = pidFile /\ statusFile' = None
      /\ seen' = seen
  BY DEF RemoveStatusFile, Goto
<1>2. LifecycleTypeOK'
  BY <1>1 DEF LifecycleInv, LifecycleTypeOK
<1>3. ASSUME NEW s \in Servers
      PROVE  at'[s] = (IF s = p THEN to ELSE at[s]) /\ statusFile' # s
  BY <1>1, LifecycleConstants DEF LifecycleInv, LifecycleTypeOK, Processes
<1>4. EndedServerIsNotFound'
  BY <1>1, <1>3 DEF LifecycleInv, EndedServerIsNotFound
<1>5. YoungServerIsUnknown'
  BY <1>1, <1>3 DEF LifecycleInv, YoungServerIsUnknown
<1>6. QED
  BY <1>2, <1>4, <1>5 DEF LifecycleInv

\* A step that changes no file and moves no process: a PID is read,
\* or a signal sent that ends or stops a server.
LEMMA FilesUnchangedInv ==
    ASSUME LifecycleInv, LifecycleTypeOK', UNCHANGED files,
           \A s \in Servers : \/ at'[s] = at[s]
                              \/ at'[s] \in {"killed", "stopping"}
                              \/ {at[s], at'[s]} \subseteq Young
    PROVE  LifecycleInv'
<1>1. EndedServerIsNotFound'
  BY DEF LifecycleInv, EndedServerIsNotFound, files, Young
<1>2. YoungServerIsUnknown'
  BY DEF LifecycleInv, YoungServerIsUnknown, files, Young
<1>3. QED
  BY <1>1, <1>2 DEF LifecycleInv

LEMMA ReadsPidInv ==
    ASSUME LifecycleInv, NEW p \in Processes, ReadsPid(p)
    PROVE  LifecycleInv'
<1>1. PICK from \in {"read", "scan"}, to \in {"check", "scanCheck"} :
         ReadPid(p, from, to)
  BY DEF ReadsPid
<1>2. /\ at' = [at EXCEPT ![p] = to] /\ at[p] = from
      /\ seen' = [seen EXCEPT ![p] = PidRead] /\ UNCHANGED files
  BY <1>1 DEF ReadPid, Goto
<1>3. LifecycleTypeOK'
  BY <1>2 DEF LifecycleInv, LifecycleTypeOK, PidRead, files, Places, StartWindow
<1>4. \A s \in Servers : at'[s] = at[s] \/ {at[s], at'[s]} \subseteq Young
  BY <1>2 DEF LifecycleInv, LifecycleTypeOK, Processes, Young
<1>5. QED
  BY <1>2, <1>3, <1>4, FilesUnchangedInv

LEMMA BeginInv ==
    ASSUME LifecycleInv, NEW p \in Processes, Begin(p)
    PROVE  LifecycleInv'
<1>1. PICK to \in {"scan", "read"} :
        at[p] = "none" /\ at' = [at EXCEPT ![p] = to] /\ UNCHANGED <<files, seen>>
  BY DEF Begin, Goto
<1>2. LifecycleTypeOK'
  BY <1>1 DEF LifecycleInv, LifecycleTypeOK, files, Places, StartWindow
<1>3. \A s \in Servers : at'[s] = at[s] \/ {at[s], at'[s]} \subseteq Young
  BY <1>1 DEF LifecycleInv, LifecycleTypeOK, Processes, Young
<1>4. QED
  BY <1>1, <1>2, <1>3, FilesUnchangedInv

LEMMA ReaderInv ==
    ASSUME LifecycleInv, NEW p \in Servers \cup Statuses, ReaderStep(p)
    PROVE  LifecycleInv'
<1> p \in Processes
  BY DEF Processes, Commands
<1> USE DEF Young, Places, StartWindow
<1>1. CASE FindsDead(p)
  <2>1. PICK to \in {"removePid", "removeStatus"} : Moves(p, "scanCheck", to)
    BY <1>1 DEF FindsDead
  <2>2. QED
    BY <2>1, MovesInv
<1>2. CASE FindsAlive(p)
  BY <1>2, MovesInv DEF FindsAlive
<1>3. CASE CleansPid(p)
  BY <1>3, RemovePidInv DEF CleansPid
<1>4. CASE CleansStatus(p)
  <2>1. /\ Back(p) \in {"starting", "done"}
        /\ p \in Servers => Back(p) = "starting"
    BY DEF Back
  <2>2. QED
    BY <1>4, <2>1, RemoveStatusInv DEF CleansStatus
<1>5. CASE ReadsStatus(p)
  <2>1. Back(p) \in {"starting", "done"} /\ (p \in Servers => Back(p) = "starting")
    BY DEF Back
  <2>2. QED
    BY <1>5, <2>1, MovesInv DEF ReadsStatus
<1>6. QED
  BY <1>1, <1>2, <1>3, <1>4, <1>5 DEF ReaderStep

\* The three steps in which a server writes a file.
LEMMA ServerWritesInv ==
    ASSUME LifecycleInv, NEW s \in Servers,
           EmptiesPid(s) \/ WritesPid(s) \/ Announces(s) \/ WritesStatus(s)
    PROVE  LifecycleInv'
<1> s \in Processes
  BY DEF Processes
<1> USE DEF LifecycleInv, LifecycleTypeOK, EndedServerIsNotFound, YoungServerIsUnknown,
            Young, Goto
<1>1. CASE EmptiesPid(s)
  BY <1>1, LifecycleConstants DEF EmptiesPid, Places, StartWindow, Processes, Commands
<1>2. CASE WritesPid(s)
  BY <1>2 DEF WritesPid, Places, StartWindow, Processes, Commands
<1>3. CASE Announces(s)
  BY <1>3 DEF Announces, Places, StartWindow, Processes, Commands
<1>4. CASE WritesStatus(s)
  BY <1>4 DEF WritesStatus
<1>5. QED
  BY <1>1, <1>2, <1>3, <1>4

LEMMA ServerStepInv ==
    ASSUME LifecycleInv, NEW s \in Servers, ServerStep(s)
    PROVE  LifecycleInv'
<1> s \in Processes
  BY DEF Processes
<1> USE DEF Young, Places, StartWindow, Ending
<1>1. CASE Refused(s) \/ Allowed(s) \/ Binds(s) \/ StartFails(s)
  BY <1>1, MovesInv DEF Refused, Allowed, Binds, StartFails
<1>2. CASE PortTaken(s)
  <2>1. PICK to \in {"starting", "scan"} : Moves(s, "starting", to)
    BY <1>2 DEF PortTaken
  <2>2. QED
    BY <2>1, MovesInv
<1>3. CASE InstallsHandlers(s) \/ Drained(s)
  BY <1>3, MovesInv DEF InstallsHandlers, Drained
<1>4. CASE EmptiesPid(s) \/ WritesPid(s) \/ Announces(s) \/ WritesStatus(s)
  BY <1>4, ServerWritesInv
<1>5. CASE StopRemovesPid(s) \/ ExitRemovesPid(s)
  BY <1>5, RemovePidInv DEF StopRemovesPid, ExitRemovesPid
<1>6. CASE StopRemovesStatus(s) \/ ExitRemovesStatus(s)
  BY <1>6, RemoveStatusInv DEF StopRemovesStatus, ExitRemovesStatus
<1>7. CASE Killed(s)
  BY <1>7, MovesInv DEF Killed, Moves
<1>8. QED
  BY <1>1, <1>2, <1>3, <1>4, <1>5, <1>6, <1>7 DEF ServerStep

LEMMA SignalStepInv ==
    ASSUME LifecycleInv, NEW p \in Stops \cup Rotates, SignalStep(p)
    PROVE  LifecycleInv'
<1>1. p \in Processes /\ p \notin Servers
  BY LifecycleConstants DEF Processes, Commands
<1>2. CASE NotRunning(p)
  <2>1. PICK to \in {"stale", "done"} : Moves(p, "check", to)
    BY <1>2 DEF NotRunning
  <2>2. QED
    BY <1>1, <2>1, MovesInv DEF Places
<1>3. CASE Found(p)
  BY <1>1, <1>3, MovesInv DEF Found, Places
<1>4. CASE RemovesStale(p)
  BY <1>1, <1>4, RemovePidInv DEF RemovesStale, Places
<1>5. CASE Sends(p)
  <2> DEFINE after == IF p \in Stops THEN AfterTerm(at[seen[p]])
                      ELSE AfterUsr1(at[seen[p]])
  <2>1. /\ at' = [at EXCEPT ![p] = "done", ![seen[p]] = after]
        /\ UNCHANGED <<files, seen>>
    BY <1>5 DEF Sends
  <2>2. after \in {"killed", "stopping", at[seen[p]]}
    BY DEF AfterTerm, AfterUsr1
  <2>3. at \in [Processes -> Places] /\ {"done", "killed", "stopping"} \subseteq Places
    BY DEF LifecycleInv, LifecycleTypeOK, Places, Ending
  <2>4. at' \in [Processes -> Places]
    <3>1. CASE seen[p] \in Processes
      BY <2>1, <2>2, <2>3, <3>1
    <3>2. CASE seen[p] \notin Processes
      BY <2>1, <2>3, <3>2
    <3>3. QED
      BY <3>1, <3>2
  <2>5. LifecycleTypeOK'
    BY <2>1, <2>4 DEF LifecycleInv, LifecycleTypeOK, files
  <2>6. ASSUME NEW s \in Servers
        PROVE  at'[s] = at[s] \/ at'[s] \in {"killed", "stopping"}
    <3>1. at'[s] = IF s = seen[p] THEN after ELSE at[s]
      BY <1>1, <2>1, <2>3 DEF Processes
    <3>2. QED
      BY <3>1, <2>2
  <2>7. QED
    BY <2>1, <2>5, <2>6, FilesUnchangedInv
<1>6. QED
  BY <1>2, <1>3, <1>4, <1>5 DEF SignalStep

LEMMA LifecycleStepInv ==
    ASSUME LifecycleInv, [Next]_vars
    PROVE  LifecycleInv'
<1>1. ASSUME NEW p \in Processes, Begin(p) \/ ReadsPid(p) PROVE LifecycleInv'
  BY <1>1, BeginInv, ReadsPidInv
<1>2. ASSUME NEW s \in Servers, ServerStep(s) PROVE LifecycleInv'
  BY <1>2, ServerStepInv
<1>3. ASSUME NEW p \in Servers \cup Statuses, ReaderStep(p) PROVE LifecycleInv'
  BY <1>3, ReaderInv
<1>4. ASSUME NEW p \in Stops \cup Rotates, SignalStep(p) PROVE LifecycleInv'
  BY <1>4, SignalStepInv
<1>5. CASE UNCHANGED vars
  BY <1>5 DEF LifecycleInv, LifecycleTypeOK, EndedServerIsNotFound, YoungServerIsUnknown,
              vars, files
<1>6. QED
  BY <1>1, <1>2, <1>3, <1>4, <1>5 DEF Next

LEMMA LifecycleInvariance == Spec => []LifecycleInv
BY LifecycleInitInv, LifecycleStepInv, PTL DEF Spec

\* Every process stands at a place of its code and the files hold what a server
\* or nobody wrote (pidfile.py, cli.py).
THEOREM LifecycleTypeCorrect == Spec => []LifecycleTypeOK
<1>1. LifecycleInv => LifecycleTypeOK
  BY DEF LifecycleInv
<1>2. QED
  BY <1>1, LifecycleInvariance, PTL

\* For any number of servers and commands in any overlap: a server that was
\* stopped is not found by its PID again, and one that has ended left no status
\* (server.py:188-192, and the atexit hooks of pidfile.py).
THEOREM EndedServersAreNotFound == Spec => []EndedServerIsNotFound
<1>1. LifecycleInv => EndedServerIsNotFound
  BY DEF LifecycleInv
<1>2. QED
  BY <1>1, LifecycleInvariance, PTL

-----------------------------------------------------------------------------
(***************************************************************************)
(* Each server implements ServerContract, whatever the other servers and   *)
(* the commands do.  A step moves one process or two and touches at most   *)
(* one file, so what it is in the contract follows from where it takes the *)
(* server and whose name it leaves in the file.                            *)
(***************************************************************************)

LEMMA LifeOf ==
    ASSUME NEW place \in Places
    PROVE  /\ place \in {"pidWritten", "announced"} => Life(place) = "written"
           /\ place \in Young => Life(place) = "starting"
           /\ place \in {"unlinking", "draining", "exiting", "leaving"}
                 => Life(place) = "draining"
           /\ place \in {"exited", "done"} => Life(place) = "ended"
           /\ place \in {"serving", "stopping", "killed"} => Life(place) = place
<1>1. CASE place \in {"pidWritten", "announced"}
  BY <1>1 DEF Life, Young
<1>2. CASE place \in Young
  BY <1>2 DEF Life, Young
<1>3. CASE place \in {"unlinking", "draining", "exiting", "leaving"}
  BY <1>3 DEF Life, Young
<1>4. CASE place \in {"exited", "done"}
  BY <1>4 DEF Life, Young
<1>5. CASE place \in {"serving", "stopping", "killed"}
  BY <1>5 DEF Life, Young
<1>6. CASE place \in {"stale", "send"}
  BY <1>6 DEF Young
<1>7. QED
  BY <1>1, <1>2, <1>3, <1>4, <1>5, <1>6 DEF Places, StartWindow, Ending, Young

\* Where a step that writes neither name into a file may take a server.
StepsOn(s) ==
    \/ at'[s] = at[s]
    \/ {at[s], at'[s]} \subseteq Young
    \/ at[s] = "announced" /\ at'[s] = "serving"
    \/ at[s] \in {"serving", "draining"} /\ at'[s] = "stopping"
    \/ at[s] = "stopping" /\ at'[s] = "unlinking"
    \/ {at[s], at'[s]} \subseteq {"unlinking", "draining", "exiting", "leaving"}
    \/ at[s] \in Young \cup {"leaving"} /\ at'[s] = "exited"
    \/ at[s] \in Young /\ at'[s] = "done"
    \/ Alive(s) /\ at'[s] = "killed"

LEMMA StepsOnKeep ==
    ASSUME LifecycleInv, LifecycleInv', NEW s \in Servers, StepsOn(s),
           pidFile' = s => pidFile = s, statusFile' = s => statusFile = s
    PROVE  [Server(s)!Next]_(Server(s)!vars)
<1>1. at[s] \in Places /\ at'[s] \in Places
  BY DEF LifecycleInv, LifecycleTypeOK, Processes
<1>2. Server(s)!FilesStay
  BY DEF Server!FilesStay
<1>3. CASE Life(at'[s]) = Life(at[s])
  BY <1>2, <1>3 DEF Server!Next, Server!Others
<1>4. CASE at[s] = "announced" /\ at'[s] = "serving"
  <2>1. Life(at[s]) = "written" /\ Life(at'[s]) = "serving"
    BY <1>1, <1>4, LifeOf
  <2>2. QED
    BY <1>2, <2>1 DEF Server!Next, Server!Serves
<1>5. CASE at[s] \in {"serving", "draining"} /\ at'[s] = "stopping"
  <2>1. Life(at[s]) \in {"serving", "draining"} /\ Life(at'[s]) = "stopping"
    BY <1>1, <1>5, LifeOf
  <2>2. QED
    BY <1>2, <2>1 DEF Server!Next, Server!BeginsStop
<1>6. CASE at[s] = "stopping" /\ at'[s] = "unlinking"
  <2>1. pidFile' # s
    BY <1>6 DEF LifecycleInv, EndedServerIsNotFound
  <2>2. Life(at[s]) = "stopping" /\ Life(at'[s]) = "draining"
    BY <1>1, <1>6, LifeOf
  <2>3. QED
    BY <1>2, <2>1, <2>2 DEF Server!Next, Server!Drains
<1>7. CASE /\ at[s] \in Young \cup {"leaving"} /\ at'[s] \in {"exited", "done"}
           /\ at'[s] = "done" => at[s] \in Young
  <2>1. statusFile' # s /\ pidFile' # s
    BY <1>7 DEF LifecycleInv, EndedServerIsNotFound, YoungServerIsUnknown, Young
  <2>2. Life(at[s]) \in {"starting", "draining"} /\ Life(at'[s]) = "ended"
    BY <1>1, <1>7, LifeOf
  <2>3. QED
    BY <2>1, <2>2 DEF Server!Next, Server!Ends
<1>8. CASE Alive(s) /\ at'[s] = "killed"
  <2>1. at[s] \in Young \cup {"pidWritten", "announced", "serving"} \cup Ending
    BY <1>8 DEF Alive, StartWindow, Young
  <2>2. Life(at[s]) \in Server(s)!Alive /\ Life(at'[s]) = "killed"
    BY <1>1, <1>8, <2>1, LifeOf DEF Ending, Server!Alive
  <2>3. QED
    BY <1>2, <2>2 DEF Server!Next, Server!Dies
<1>9. QED
  <2>1. /\ at'[s] = at[s] => Life(at'[s]) = Life(at[s])
        /\ {at[s], at'[s]} \subseteq Young => Life(at'[s]) = Life(at[s])
        /\ {at[s], at'[s]} \subseteq {"unlinking", "draining", "exiting", "leaving"}
              => Life(at'[s]) = Life(at[s])
    BY <1>1, LifeOf
  <2>2. QED
    BY <1>3, <1>4, <1>5, <1>6, <1>7, <1>8, <2>1 DEF StepsOn

\* The steps of one process that write no name into a file.
LEMMA OneMovesKeep ==
    ASSUME LifecycleInv, LifecycleInv', NEW s \in Servers, NEW p \in Processes,
           NEW from, NEW to,
           \/ Moves(p, from, to) \/ ReadPid(p, from, to)
           \/ RemovePidFile(p, from, to) \/ RemoveStatusFile(p, from, to),
           p = s /\ at[s] = from /\ at'[s] = to => StepsOn(s)
    PROVE  [Server(s)!Next]_(Server(s)!vars)
<1>1. at' = [at EXCEPT ![p] = to] /\ at[p] = from
  BY DEF Moves, ReadPid, RemovePidFile, RemoveStatusFile, Goto
<1>2. pidFile' \in {pidFile, None} /\ statusFile' \in {statusFile, None}
  BY DEF Moves, ReadPid, RemovePidFile, RemoveStatusFile, files
<1>3. StepsOn(s)
  BY <1>1 DEF LifecycleInv, LifecycleTypeOK, Processes, StepsOn
<1>4. QED
  BY <1>2, <1>3, StepsOnKeep, LifecycleConstants

LEMMA BeginKeeps ==
    ASSUME LifecycleInv, LifecycleInv', NEW s \in Servers, NEW p \in Processes, Begin(p)
    PROVE  [Server(s)!Next]_(Server(s)!vars)
<1>1. UNCHANGED files /\ (at'[s] = at[s] \/ {at[s], at'[s]} \subseteq Young)
  BY DEF Begin, Goto, LifecycleInv, LifecycleTypeOK, Processes, Young
<1>2. QED
  BY <1>1, StepsOnKeep DEF StepsOn, files

LEMMA ReadersKeep ==
    ASSUME LifecycleInv, LifecycleInv', NEW s \in Servers, NEW p \in Processes,
           ReadsPid(p) \/ ReaderStep(p)
    PROVE  [Server(s)!Next]_(Server(s)!vars)
<1>1. PICK from \in {"read", "scan", "scanCheck", "removePid", "removeStatus", "readStatus"},
           to \in (Young \ {"none"}) \cup {"done"} :
        /\ \/ Moves(p, from, to) \/ ReadPid(p, from, to)
           \/ RemovePidFile(p, from, to) \/ RemoveStatusFile(p, from, to)
        /\ p = s => to # "done"
  <2>1. p = s => Back(p) = "starting"
    BY DEF Back
  <2>2. Back(p) \in {"starting", "done"}
    BY DEF Back
  <2>3. QED
    BY <2>1, <2>2
    DEF ReadsPid, ReaderStep, FindsDead, FindsAlive, CleansPid, CleansStatus,
        ReadsStatus, Young
<1>2. p = s => {from, to} \subseteq Young
  BY <1>1 DEF Young
<1>3. QED
  BY <1>1, <1>2, OneMovesKeep DEF StepsOn

LEMMA ServersKeep ==
    ASSUME LifecycleInv, LifecycleInv', NEW s \in Servers, NEW t \in Servers, ServerStep(t)
    PROVE  [Server(s)!Next]_(Server(s)!vars)
<1> t \in Processes
  BY DEF Processes
<1>1. CASE \/ Refused(t) \/ Allowed(t) \/ PortTaken(t) \/ StartFails(t) \/ Binds(t)
           \/ InstallsHandlers(t) \/ Drained(t) \/ Killed(t)
  <2>1. PICK from, to : Moves(t, from, to) /\ (t = s => StepsOn(s))
    <3> USE DEF LifecycleInv, LifecycleTypeOK, Moves, Goto, StepsOn, Young, Processes
    <3>1. CASE Refused(t)
      BY <3>1 DEF Refused
    <3>2. CASE Allowed(t) \/ Binds(t) \/ StartFails(t)
      BY <3>2 DEF Allowed, Binds, StartFails
    <3>3. CASE PortTaken(t)
      BY <3>3 DEF PortTaken
    <3>4. CASE InstallsHandlers(t) \/ Drained(t)
      BY <3>4 DEF InstallsHandlers, Drained
    <3>5. CASE Killed(t)
      BY <3>5 DEF Killed
    <3>6. QED
      BY <1>1, <3>1, <3>2, <3>3, <3>4, <3>5
  <2>2. QED
    BY <2>1, OneMovesKeep
<1>2. CASE StopRemovesPid(t) \/ ExitRemovesPid(t)
  BY <1>2, OneMovesKeep DEF StopRemovesPid, ExitRemovesPid, StepsOn
<1>3. CASE StopRemovesStatus(t) \/ ExitRemovesStatus(t)
  BY <1>3, OneMovesKeep DEF StopRemovesStatus, ExitRemovesStatus, StepsOn
<1>4. CASE EmptiesPid(t)
  <2>1. pidFile' = Empty /\ at' = [at EXCEPT ![t] = "emptied"] /\ at[t] = "bound"
        /\ statusFile' = statusFile
    BY <1>4 DEF EmptiesPid, Goto
  <2>2. StepsOn(s)
    BY <2>1 DEF StepsOn, LifecycleInv, LifecycleTypeOK, Processes, Young
  <2>3. QED
    BY <2>1, <2>2, StepsOnKeep, LifecycleConstants
<1>5. CASE t # s /\ (WritesPid(t) \/ Announces(t) \/ WritesStatus(t))
  <2>1. at'[s] = at[s] /\ pidFile' \in {pidFile, t} /\ statusFile' \in {statusFile, t}
    BY <1>5
    DEF WritesPid, Announces, WritesStatus, Goto, LifecycleInv, LifecycleTypeOK, Processes
  <2>2. QED
    BY <1>5, <2>1, StepsOnKeep DEF StepsOn
<1>6. CASE t = s /\ WritesPid(s)
  <2>1. at[s] = "emptied" /\ at'[s] = "pidWritten" /\ pidFile' = s
    BY <1>6 DEF WritesPid, Goto, LifecycleInv, LifecycleTypeOK
  <2>2. Life(at[s]) = "starting" /\ Life(at'[s]) = "written"
    BY <2>1, LifeOf DEF Young, Places, StartWindow
  <2>3. QED
    BY <2>1, <2>2 DEF Server!Next, Server!WritesPid
<1>7. CASE t = s /\ (Announces(s) \/ WritesStatus(s))
  <2>1. /\ statusFile' = s /\ pidFile' = pidFile
        /\ \/ at[s] = "pidWritten" /\ at'[s] = "announced"
           \/ /\ at'[s] = at[s]
              /\ at[s] \in {"serving", "stopping", "unlinking", "draining"}
    BY <1>7 DEF Announces, WritesStatus, Goto, LifecycleInv, LifecycleTypeOK
  <2>2. Life(at'[s]) = Life(at[s]) /\ Life(at[s]) \in Server(s)!Alive
    BY <2>1, LifeOf DEF Places, StartWindow, Ending, Server!Alive
  <2>3. QED
    BY <2>1, <2>2 DEF Server!Next, Server!WritesStatus
<1>8. QED
  BY <1>1, <1>2, <1>3, <1>4, <1>5, <1>6, <1>7 DEF ServerStep

LEMMA SignalsKeep ==
    ASSUME LifecycleInv, LifecycleInv', NEW s \in Servers,
           NEW p \in Stops \cup Rotates, SignalStep(p)
    PROVE  [Server(s)!Next]_(Server(s)!vars)
<1>1. p \in Processes /\ p # s
  BY LifecycleConstants DEF Processes, Commands
<1>2. CASE NotRunning(p) \/ Found(p) \/ RemovesStale(p)
  BY <1>1, <1>2, OneMovesKeep DEF NotRunning, Found, RemovesStale
<1>3. CASE Sends(p)
  <2>1. UNCHANGED files /\ at[seen[p]] \notin {"stopping", "unlinking"}
    BY <1>3 DEF Sends
  <2>2. at'[s] = IF s # seen[p] THEN at[s]
                 ELSE IF p \in Stops THEN AfterTerm(at[s]) ELSE AfterUsr1(at[s])
    BY <1>1, <1>3 DEF Sends, LifecycleInv, LifecycleTypeOK, Processes
  <2>3. CASE at'[s] = at[s]
    BY <2>1, <2>3, StepsOnKeep DEF StepsOn, files
  <2>4. CASE at[s] \in Unhandled /\ at'[s] = "killed"
    BY <2>1, <2>4, StepsOnKeep DEF StepsOn, files, Unhandled, Alive, Ending
  <2>5. CASE at[s] \in {"serving", "draining"} /\ at'[s] = "stopping"
    BY <2>1, <2>5, StepsOnKeep DEF StepsOn, files
  <2>6. QED
    BY <2>2, <2>3, <2>4, <2>5 DEF AfterTerm, AfterUsr1
<1>4. QED
  BY <1>2, <1>3 DEF SignalStep

LEMMA ContractsStep ==
    ASSUME LifecycleInv, [Next]_vars
    PROVE  [\A s \in Servers : [Server(s)!Next]_(Server(s)!vars)]_vars
<1>1. CASE UNCHANGED vars
  BY <1>1
<1>2. ASSUME Next, NEW s \in Servers
      PROVE  [Server(s)!Next]_(Server(s)!vars)
  <2>1. LifecycleInv'
    BY LifecycleStepInv
  <2>2. ASSUME NEW p \in Processes, Begin(p) \/ ReadsPid(p) \/ ReaderStep(p)
        PROVE  [Server(s)!Next]_(Server(s)!vars)
    BY <2>1, <2>2, BeginKeeps, ReadersKeep
  <2>3. ASSUME NEW t \in Servers, ServerStep(t)
        PROVE  [Server(s)!Next]_(Server(s)!vars)
    BY <2>1, <2>3, ServersKeep
  <2>4. ASSUME NEW p \in Stops \cup Rotates, SignalStep(p)
        PROVE  [Server(s)!Next]_(Server(s)!vars)
    BY <2>1, <2>4, SignalsKeep
  <2>5. QED
    BY <1>2, <2>2, <2>3, <2>4 DEF Next, Processes, Commands
<1>3. QED
  BY <1>1, <1>2

\* For any number of servers and commands in any overlap: each server has the life
\* and the files that ServerContract gives it, as the one of RelayServer has
\* (server.py:122-199, pidfile.py:97-113, 284-290).
THEOREM ServersAreAsContracted == Spec => ServersKeepContract
<1>1. Init => \A s \in Servers : Server(s)!Init
  BY LifecycleConstants DEF Init, Server!Init, Life, Young, Processes
<1>2. LifecycleInv /\ [Next]_vars
        => [\A s \in Servers : [Server(s)!Next]_(Server(s)!vars)]_vars
  BY ContractsStep
<1>3. QED
  BY <1>1, <1>2, LifecycleInvariance, PTL DEF Spec, ServersKeepContract

\* Whence each of them implements the contract as a whole.
THEOREM EachServerIsAsContracted ==
    ASSUME NEW s \in Servers
    PROVE  Spec => Server(s)!Spec
<1>1. Init => Server(s)!Init
  BY LifecycleConstants DEF Init, Server!Init, Life, Young, Processes
<1>2. LifecycleInv /\ [Next]_vars => [Server(s)!Next]_(Server(s)!vars)
  <2>1. UNCHANGED vars => UNCHANGED Server(s)!vars
    BY DEF vars, files, Server!vars
  <2>2. QED
    BY <2>1, ContractsStep
<1>3. QED
  BY <1>1, <1>2, LifecycleInvariance, PTL DEF Spec, Server!Spec

-----------------------------------------------------------------------------
(***************************************************************************)
(* One command at a time, and none of them a stop: servers start, are      *)
(* looked at, rotate and crash.                                            *)
(***************************************************************************)

OneInProgress ==
    \A p, q \in Processes : InProgress(p) /\ InProgress(q) => p = q

\* Nothing sends a SIGTERM, and a rotate removes no file.
NoneIsStopped ==
    /\ \A s \in Servers : at[s] \notin Ending
    /\ \A p \in Rotates : at[p] # "stale" /\ (at[p] = "send" => seen[p] \in Servers)

\* A start that has written a file finds its PID there as long as it is under way.
FilesAreOfTheServer ==
    \A s \in Servers :
        /\ at[s] \in {"pidWritten", "announced", "serving"} => pidFile = s
        /\ at[s] \in {"announced", "serving"} => statusFile = s

\* While a server serves no other start gets past its check, and no status command
\* takes it for dead.
ServingExcludes ==
    \A s \in Servers : at[s] = "serving" =>
        /\ \A t \in Servers : at[t] \notin StartWindow \ {"read", "check"}
        /\ \A p \in Statuses : at[p] \notin {"removePid", "removeStatus"}
        /\ \A p \in Processes : at[p] \in {"check", "scanCheck"} => seen[p] = s

OneByOneInv ==
    /\ LifecycleInv
    /\ OneInProgress
    /\ NoneIsStopped
    /\ FilesAreOfTheServer
    /\ ServingExcludes

LEMMA OneByOneInit ==
    ASSUME Init
    PROVE  OneByOneInv
<1>1. \A p \in Processes : at[p] = "none" /\ ~InProgress(p)
  BY DEF Init, InProgress, StartWindow
<1>2. QED
  BY <1>1, LifecycleInitInv
  DEF OneByOneInv, OneInProgress, NoneIsStopped, FilesAreOfTheServer, ServingExcludes,
      Processes, Commands, Ending, StartWindow

\* One process moves, and it was the one in progress or is not in progress after.
LEMMA StillOne ==
    ASSUME at \in [Processes -> Places], OneInProgress,
           NEW p \in Processes, NEW to \in Places, Goto(p, to),
           \/ InProgress(p)
           \/ ~InProgress(p)'
           \/ \A q \in Processes : ~InProgress(q)
    PROVE  OneInProgress'
<1>1. ASSUME NEW q \in Processes, q # p
      PROVE  InProgress(q)' <=> InProgress(q)
  BY <1>1 DEF Goto, InProgress
<1>2. QED
  BY <1>1 DEF OneInProgress

\* A server's start, up to the moment it serves.
LEMMA OneStart ==
    ASSUME OneByOneInv, NEW s \in Servers,
           \/ Refused(s) \/ Allowed(s) \/ PortTaken(s) \/ StartFails(s) \/ Binds(s)
           \/ EmptiesPid(s) \/ WritesPid(s) \/ Announces(s) \/ InstallsHandlers(s)
    PROVE  OneByOneInv'
<1> s \in Processes /\ at \in [Processes -> Places]
  BY DEF Processes, OneByOneInv, LifecycleInv, LifecycleTypeOK
<1> USE DEF Goto
<1>1. at[s] \in StartWindow /\ InProgress(s)
  BY DEF Refused, Allowed, PortTaken, StartFails, Binds, EmptiesPid, WritesPid, Announces,
     InstallsHandlers, Moves, InProgress, StartWindow
<1>2. PICK to \in {"done", "starting", "scan", "exited", "bound", "emptied", "pidWritten",
                   "announced", "serving"} : Goto(s, to)
  BY DEF Refused, Allowed, PortTaken, StartFails, Binds, EmptiesPid, WritesPid, Announces,
     InstallsHandlers, Moves
<1>3. to \in Places /\ seen' = seen
  BY <1>2 DEF Places, StartWindow, Refused, Allowed, PortTaken, StartFails, Binds, EmptiesPid,
     WritesPid, Announces, InstallsHandlers, Moves
<1>4. LifecycleInv'
  BY ServerStepInv DEF OneByOneInv, ServerStep
<1>5. OneInProgress'
  BY <1>1, <1>2, <1>3, StillOne DEF OneByOneInv
<1>6. \A q \in Processes : q # s => at'[q] = at[q] /\ ~InProgress(q)
  BY <1>1, <1>2 DEF OneByOneInv, OneInProgress
<1>7. NoneIsStopped'
  BY <1>2, <1>3, LifecycleConstants DEF OneByOneInv, NoneIsStopped, Ending, Processes, Commands
<1>8. \A t \in Servers : t # s => at[t] \notin {"pidWritten", "announced"}
  BY <1>6 DEF InProgress, StartWindow, Processes
<1>9. CASE Refused(s)
  <2>1. at'[s] = "done" /\ UNCHANGED files
    BY <1>9 DEF Refused, Moves
  <2>2. FilesAreOfTheServer' /\ ServingExcludes'
    BY <1>2, <1>3, <1>6, <2>1
    DEF OneByOneInv, FilesAreOfTheServer, ServingExcludes, files, Processes, StartWindow, Commands
  <2>3. QED
    BY <1>4, <1>5, <1>7, <2>2 DEF OneByOneInv
<1>10. CASE ~Refused(s)
  <2>1. \A t \in Servers : at[t] # "serving"
    <3>1. CASE Allowed(s)
      BY <3>1 DEF Allowed, Moves, Alive, OneByOneInv, ServingExcludes
    <3>2. CASE ~Allowed(s)
      <4>1. at[s] \in StartWindow \ {"read", "check"}
        BY <1>10, <3>2 DEF PortTaken, StartFails, Binds, EmptiesPid, WritesPid, Announces,
           InstallsHandlers, Moves, StartWindow
      <4>2. QED
        BY <4>1 DEF OneByOneInv, ServingExcludes
    <3>3. QED
      BY <3>1, <3>2
  <2>2. \A t \in Servers : t # s => at'[t] \notin {"pidWritten", "announced", "serving"}
    BY <1>6, <1>8, <2>1 DEF Processes
  <2>3. FilesAreOfTheServer'
    <3>1. /\ at'[s] \in {"pidWritten", "announced", "serving"} => pidFile' = s
          /\ at'[s] \in {"announced", "serving"} => statusFile' = s
      BY <1>10 DEF Allowed, PortTaken, StartFails, Binds, EmptiesPid, WritesPid, Announces,
         InstallsHandlers, Moves, files, OneByOneInv, FilesAreOfTheServer
    <3>2. QED
      BY <2>2, <3>1 DEF FilesAreOfTheServer
  <2>4. ServingExcludes'
    <3>1. CASE InstallsHandlers(s)
      <4>1. at'[s] = "serving"
        BY <3>1 DEF InstallsHandlers, Moves
      <4>2. \A q \in Processes : q # s => at'[q] \notin StartWindow \/ q \notin Servers
        BY <1>6 DEF InProgress
      <4>3. \A q \in Processes : q # s => at'[q] \notin {"removePid", "removeStatus", "check", "scanCheck"}
        BY <1>6 DEF InProgress, StartWindow
      <4>4. \A q \in Statuses : q \in Processes /\ q # s
        BY LifecycleConstants DEF LifecycleConstants, Processes, Commands
      <4>5. QED
        BY <2>2, <4>1, <4>2, <4>3, <4>4 DEF ServingExcludes, Processes, StartWindow
    <3>2. CASE ~InstallsHandlers(s)
      <4>1. at'[s] # "serving"
        BY <1>10, <3>2 DEF Allowed, PortTaken, StartFails, Binds, EmptiesPid, WritesPid,
           Announces, Moves
      <4>2. QED
        BY <2>2, <4>1 DEF ServingExcludes
    <3>3. QED
      BY <3>1, <3>2
  <2>5. QED
    BY <1>4, <1>5, <1>7, <2>3, <2>4 DEF OneByOneInv
<1>11. QED
  BY <1>9, <1>10

\* A server writes its status, or is killed; it is not stopped, and does not end.
LEMMA OneServes ==
    ASSUME OneByOneInv, NEW s \in Servers,
           \/ WritesStatus(s) \/ StopRemovesPid(s) \/ StopRemovesStatus(s) \/ Drained(s)
           \/ ExitRemovesStatus(s) \/ ExitRemovesPid(s) \/ Killed(s)
    PROVE  OneByOneInv'
<1> s \in Processes /\ at \in [Processes -> Places] /\ "killed" \in Places
  BY DEF Processes, OneByOneInv, LifecycleInv, LifecycleTypeOK, Places
<1>1. LifecycleInv'
  BY ServerStepInv DEF OneByOneInv, ServerStep
<1>2. WritesStatus(s) \/ Killed(s)
  BY DEF StopRemovesPid, StopRemovesStatus, Drained, ExitRemovesStatus, ExitRemovesPid,
     RemovePidFile, RemoveStatusFile, Moves, OneByOneInv, NoneIsStopped, Ending
<1>3. CASE WritesStatus(s)
  <2>1. at[s] = "serving" /\ statusFile' = s /\ UNCHANGED <<pidFile, at, seen>>
    BY <1>3 DEF WritesStatus, OneByOneInv, NoneIsStopped, Ending
  <2>2. \A t \in Servers : at[t] \in {"announced", "serving"} => t = s
    BY <2>1 DEF OneByOneInv, FilesAreOfTheServer, ServingExcludes, StartWindow
  <2>3. FilesAreOfTheServer'
    BY <2>1, <2>2 DEF OneByOneInv, FilesAreOfTheServer
  <2>4. OneInProgress' /\ NoneIsStopped' /\ ServingExcludes'
    BY <2>1 DEF OneByOneInv, OneInProgress, InProgress, NoneIsStopped, ServingExcludes
  <2>5. QED
    BY <1>1, <2>3, <2>4 DEF OneByOneInv
<1>4. CASE Killed(s)
  <2>1. Goto(s, "killed") /\ UNCHANGED <<pidFile, statusFile, seen>>
    BY <1>4 DEF Killed, files
  <2>2. ~InProgress(s)'
    BY <2>1 DEF Goto, InProgress, StartWindow
  <2>3. OneInProgress'
    BY <2>1, <2>2, StillOne DEF OneByOneInv
  <2>4. NoneIsStopped' /\ FilesAreOfTheServer' /\ ServingExcludes'
    BY <2>1, LifecycleConstants DEF Goto, OneByOneInv, NoneIsStopped, FilesAreOfTheServer,
       ServingExcludes, Ending, StartWindow, Processes, Commands
  <2>5. QED
    BY <1>1, <2>3, <2>4 DEF OneByOneInv
<1>5. QED
  BY <1>2, <1>3, <1>4

\* A process reads the PID file, which names the server that serves, if one does.
LEMMA OneReads ==
    ASSUME ~overlapped', OneByOneInv, NEW p \in Processes, Begin(p) \/ ReadsPid(p)
    PROVE  OneByOneInv'
<1> at \in [Processes -> Places] /\ seen \in [Processes -> Servers \cup {None}]
  BY DEF OneByOneInv, LifecycleInv, LifecycleTypeOK
<1>1. LifecycleInv'
  BY BeginInv, ReadsPidInv DEF OneByOneInv
<1>2. CASE Begin(p)
  <2>1. PICK to \in {"read", "scan"} : Goto(p, to) /\ (p \in Servers => to = "read")
    BY <1>2, LifecycleConstants DEF Begin, LifecycleConstants
  <2>2. at[p] = "none" /\ UNCHANGED <<pidFile, statusFile, seen>>
        /\ \A q \in Processes : ~InProgress(q)
    BY <1>2 DEF Begin, files
  <2>3. to \in Places
    BY DEF Places, StartWindow
  <2>4. OneInProgress'
    BY <2>1, <2>2, <2>3, StillOne DEF OneByOneInv
  <2>5. NoneIsStopped' /\ FilesAreOfTheServer' /\ ServingExcludes'
    BY <2>1, <2>2 DEF Goto, OneByOneInv, NoneIsStopped, FilesAreOfTheServer, ServingExcludes,
       Ending, StartWindow, Processes, Commands
  <2>6. QED
    BY <1>1, <2>4, <2>5 DEF OneByOneInv
<1>3. CASE ReadsPid(p)
  <2>1. PICK from \in {"read", "scan"}, to \in {"check", "scanCheck"} :
           /\ at[p] = from /\ Goto(p, to) /\ seen' = [seen EXCEPT ![p] = PidRead]
           /\ UNCHANGED <<pidFile, statusFile>>
           /\ from = "read" => to = "check"
           /\ from = "scan" => to = "scanCheck"
    BY <1>3 DEF ReadsPid, ReadPid, files
  <2>2. InProgress(p) /\ to \in Places
    BY <2>1 DEF InProgress, Places, StartWindow
  <2>3. OneInProgress'
    BY <2>1, <2>2, StillOne DEF OneByOneInv
  <2>4. \A s \in Servers : at[s] = "serving" => PidRead = s
    BY LifecycleConstants DEF PidRead, OneByOneInv, FilesAreOfTheServer, LifecycleConstants
  <2>5. NoneIsStopped' /\ FilesAreOfTheServer'
    BY <2>1 DEF Goto, OneByOneInv, NoneIsStopped, FilesAreOfTheServer, Ending, Processes, Commands
  <2>6. ServingExcludes'
    BY <2>1, <2>4 DEF Goto, OneByOneInv, ServingExcludes, StartWindow, Processes, Commands
  <2>7. QED
    BY <1>1, <2>3, <2>5, <2>6 DEF OneByOneInv
<1>4. QED
  BY <1>2, <1>3

\* A reader that found the process dead removes the files: then no server serves.
LEMMA OneLooks ==
    ASSUME OneByOneInv, NEW p \in Servers \cup Statuses, ReaderStep(p)
    PROVE  OneByOneInv'
<1> p \in Processes /\ at \in [Processes -> Places]
  BY DEF Processes, Commands, OneByOneInv, LifecycleInv, LifecycleTypeOK
<1>1. LifecycleInv'
  BY ReaderInv DEF OneByOneInv
<1>2. PICK to \in {"removePid", "removeStatus", "readStatus", "starting", "done"} :
        /\ Goto(p, to) /\ seen' = seen
        /\ p \in Servers => to # "done"
  BY LifecycleConstants DEF ReaderStep, FindsDead, FindsAlive, CleansPid, CleansStatus,
     ReadsStatus, Moves, RemovePidFile, RemoveStatusFile, Back, LifecycleConstants
<1>3. InProgress(p) /\ at[p] \in {"scanCheck", "removePid", "removeStatus", "readStatus"}
  BY DEF ReaderStep, FindsDead, FindsAlive, CleansPid, CleansStatus, ReadsStatus, Moves,
     RemovePidFile, RemoveStatusFile, InProgress, StartWindow
<1>4. OneInProgress'
  BY <1>2, <1>3, StillOne DEF OneByOneInv, Places, StartWindow
<1>5. NoneIsStopped'
  BY <1>2 DEF Goto, OneByOneInv, NoneIsStopped, Ending, Processes, Commands
<1>6. \A s \in Servers : s # p => at[s] \notin {"pidWritten", "announced"}
  BY <1>3 DEF OneByOneInv, OneInProgress, InProgress, StartWindow, Processes
<1>7. CASE \E s \in Servers : at[s] = "serving"
  <2>1. PICK s \in Servers : at[s] = "serving"
    BY <1>7
  <2>2. p \in Statuses /\ p \notin Servers
    BY <1>3, <2>1 DEF OneByOneInv, ServingExcludes, StartWindow
  <2>3. at[p] \in {"scanCheck", "readStatus"} /\ (at[p] = "scanCheck" => Alive(seen[p]))
    BY <1>3, <2>1, <2>2 DEF OneByOneInv, ServingExcludes, Alive
  <2>4. to \in {"readStatus", "done"} /\ UNCHANGED <<pidFile, statusFile>>
    BY <1>2, <2>2, <2>3
    DEF ReaderStep, FindsDead, FindsAlive, CleansPid, CleansStatus, ReadsStatus, Moves,
        RemovePidFile, RemoveStatusFile, Back, files, Goto
  <2>5. FilesAreOfTheServer' /\ ServingExcludes'
    BY <1>2, <2>2, <2>4 DEF Goto, OneByOneInv, FilesAreOfTheServer, ServingExcludes, StartWindow,
       Processes, Commands
  <2>6. QED
    BY <1>1, <1>4, <1>5, <2>5 DEF OneByOneInv
<1>8. CASE ~\E s \in Servers : at[s] = "serving"
  <2>1. \A s \in Servers : at'[s] \notin {"pidWritten", "announced", "serving"}
    BY <1>2, <1>6, <1>8 DEF Goto, Processes
  <2>2. FilesAreOfTheServer' /\ ServingExcludes'
    BY <2>1 DEF FilesAreOfTheServer, ServingExcludes
  <2>3. QED
    BY <1>1, <1>4, <1>5, <2>2 DEF OneByOneInv
<1>9. QED
  BY <1>7, <1>8

\* A rotate leaves the files alone, and its signal reaches no server that would die.
LEMMA OneSignals ==
    ASSUME OneByOne, OneByOneInv, NEW p \in Stops \cup Rotates, SignalStep(p)
    PROVE  OneByOneInv'
<1> at[p] \in {"check", "stale", "send"}
  BY DEF SignalStep, NotRunning, Found, RemovesStale, Sends, Moves, RemovePidFile
<1> p \in Rotates /\ p \notin Stops
  BY DEF OneByOne
<1> p \in Processes /\ p \notin Servers
    /\ at \in [Processes -> Places] /\ seen \in [Processes -> Servers \cup {None}]
  BY LifecycleConstants DEF LifecycleConstants, Processes, Commands, OneByOneInv,
     LifecycleInv, LifecycleTypeOK
<1>1. LifecycleInv'
  BY SignalStepInv DEF OneByOneInv
<1>2. InProgress(p)
  BY DEF InProgress
<1>3. \A s \in Servers : at[s] \notin StartWindow \cup {"exiting", "leaving", "stopping", "draining"}
  BY <1>2 DEF OneByOneInv, OneInProgress, NoneIsStopped, InProgress, Processes, Ending
<1>4. PICK to \in {"done", "send"} :
         /\ Goto(p, to) /\ UNCHANGED <<pidFile, statusFile, seen>>
         /\ to = "send" => seen[p] \in Servers
  <2>1. CASE NotRunning(p) \/ Found(p)
    BY <2>1 DEF NotRunning, Found, Moves, Alive, files
  <2>2. CASE RemovesStale(p)
    BY <2>2 DEF RemovesStale, RemovePidFile, OneByOneInv, NoneIsStopped
  <2>3. CASE Sends(p)
    <3>1. seen[p] \in Servers
      BY <2>3 DEF Sends, OneByOneInv, NoneIsStopped
    <3>2. AfterUsr1(at[seen[p]]) = at[seen[p]]
      BY <1>3, <3>1 DEF AfterUsr1, Unhandled
    <3>3. at' = [at EXCEPT ![p] = "done", ![seen[p]] = at[seen[p]]]
          /\ UNCHANGED <<pidFile, statusFile, seen>>
      BY <2>3, <3>2 DEF Sends, files
    <3>4. at' = [at EXCEPT ![p] = "done"]
      BY <3>1, <3>3 DEF Processes
    <3>5. QED
      BY <3>3, <3>4 DEF Goto
  <2>4. QED
    BY <2>1, <2>2, <2>3 DEF SignalStep
<1>5. \A q \in Processes : at'[q] = IF q = p THEN to ELSE at[q]
  BY <1>4 DEF Goto
<1>6. OneInProgress'
  BY <1>2, <1>4, StillOne DEF OneByOneInv, Places
<1>7. \A s \in Servers : at'[s] = at[s]
  BY <1>5 DEF Processes
<1>8. NoneIsStopped' /\ FilesAreOfTheServer'
  BY <1>4, <1>5, <1>7 DEF OneByOneInv, NoneIsStopped, FilesAreOfTheServer, Processes, Commands
<1>9. ServingExcludes'
  BY <1>4, <1>5, <1>7 DEF OneByOneInv, ServingExcludes, Processes, Commands
<1>10. QED
  BY <1>1, <1>6, <1>7, <1>8, <1>9 DEF OneByOneInv

LEMMA OneByOneStep ==
    ASSUME OneByOne, OneByOne', OneByOneInv, [Next]_vars
    PROVE  OneByOneInv'
<1>1. ASSUME NEW s \in Servers, ServerStep(s) PROVE OneByOneInv'
  BY <1>1, OneStart, OneServes DEF ServerStep
<1>2. ASSUME NEW p \in Processes, Begin(p) \/ ReadsPid(p) PROVE OneByOneInv'
  BY <1>2, OneReads DEF OneByOne
<1>3. ASSUME NEW p \in Servers \cup Statuses, ReaderStep(p) PROVE OneByOneInv'
  BY <1>3, OneLooks
<1>4. ASSUME NEW p \in Stops \cup Rotates, SignalStep(p) PROVE OneByOneInv'
  BY <1>4, OneSignals
<1>5. CASE UNCHANGED vars
  BY <1>5, LifecycleStepInv DEF vars, files, OneByOneInv, OneInProgress, InProgress,
     NoneIsStopped, FilesAreOfTheServer, ServingExcludes
<1>6. QED
  BY <1>1, <1>2, <1>3, <1>4, <1>5 DEF Next

LEMMA OneByOneStays ==
    ASSUME LifecycleInv, [Next]_vars, OneByOne'
    PROVE  OneByOne
<1>1. overlapped => overlapped'
  BY DEF Next, Begin, ReadsPid, ReadPid, ServerStep, Refused, Allowed, PortTaken, StartFails,
     Binds, EmptiesPid, WritesPid, Announces, InstallsHandlers, WritesStatus,
     StopRemovesPid, StopRemovesStatus, Drained, ExitRemovesStatus, ExitRemovesPid, Killed,
     ReaderStep, FindsDead, FindsAlive, CleansPid, CleansStatus, ReadsStatus, SignalStep,
     NotRunning, Found, RemovesStale, Sends, Moves, RemovePidFile, RemoveStatusFile, vars
<1>2. ASSUME NEW p \in Stops, at[p] # "none" PROVE at'[p] # "none"
  <2> USE DEF Goto, Moves, LifecycleInv, LifecycleTypeOK, Processes, Commands
  <2>1. CASE \E q \in Processes : Begin(q) \/ ReadsPid(q)
    BY <1>2, <2>1 DEF Begin, ReadsPid, ReadPid
  <2>2. CASE \E s \in Servers : ServerStep(s)
    BY <1>2, <2>2
    DEF ServerStep, Refused, Allowed, PortTaken, StartFails, Binds, EmptiesPid, WritesPid,
        Announces, InstallsHandlers, WritesStatus, StopRemovesPid, StopRemovesStatus,
        Drained, ExitRemovesStatus, ExitRemovesPid, Killed, RemovePidFile, RemoveStatusFile
  <2>3. CASE \E q \in Servers \cup Statuses : ReaderStep(q)
    BY <1>2, <2>3
    DEF ReaderStep, FindsDead, FindsAlive, CleansPid, CleansStatus, ReadsStatus, Back,
        RemovePidFile, RemoveStatusFile
  <2>4. CASE \E q \in Stops \cup Rotates : SignalStep(q)
    BY <1>2, <2>4
    DEF SignalStep, NotRunning, Found, RemovesStale, Sends, RemovePidFile, AfterTerm, AfterUsr1
  <2>5. CASE UNCHANGED vars
    BY <1>2, <2>5 DEF vars
  <2>6. QED
    BY <2>1, <2>2, <2>3, <2>4, <2>5 DEF Next
<1>3. QED
  BY <1>1, <1>2 DEF OneByOne

\* The invariant lasts as long as no two commands have overlapped and none was a stop.
LEMMA OneByOneInvariance == Spec => [](OneByOne => OneByOneInv)
<1>1. LifecycleInv /\ (OneByOne => OneByOneInv) /\ [Next]_vars => (OneByOne => OneByOneInv)'
  BY OneByOneStep, OneByOneStays
<1>2. Init => OneByOneInv
  BY OneByOneInit
<1>3. QED
  BY <1>1, <1>2, LifecycleInvariance, PTL DEF Spec

\* Any number of starts, looks and rotates, one after the other, and crashes of the
\* servers at any point: two servers of a profile never serve at the same time
\* (cli.py:369-376).  With stops or overlapping starts they may.
THEOREM CrashesLeaveOneServer == Spec => []OneServerServes
<1>1. (OneByOne => OneByOneInv) => OneServerServes
  BY DEF OneByOneInv, FilesAreOfTheServer, OneServerServes
<1>2. QED
  BY <1>1, OneByOneInvariance, PTL

\* Under the same commands the files are those of the server that serves
\* (cli.py:369-376, pidfile.py:350-360).
THEOREM CrashesLeaveServerFound == Spec => []FoundDespiteCrashes
<1>1. (OneByOne => OneByOneInv) => FoundDespiteCrashes
  BY DEF OneByOneInv, FilesAreOfTheServer, FoundDespiteCrashes, FilesNameWhoServes
<1>2. QED
  BY <1>1, OneByOneInvariance, PTL

=============================================================================
