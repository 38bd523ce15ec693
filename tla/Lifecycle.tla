------------------------------ MODULE Lifecycle ------------------------------
(***************************************************************************)
(* The PID and status files of one profile (proxy_relay/pidfile.py) and    *)
(* the processes that share them: servers (start of cli.py, server.py) and *)
(* the commands status, stop and rotate.                                   *)
(*                                                                         *)
(* Nothing locks the files.  Every process reads the PID file, looks       *)
(* whether that process is alive, and acts on what it saw; a step of the   *)
(* model is one system call on a file, one look at a process or one signal *)
(* sent.  A server may be killed anywhere.                                 *)
(*                                                                         *)
(* Abstractions.  A process is named by its PID, and PIDs are not reused.  *)
(* The status file keeps who wrote it.  A port is free or not; the ten     *)
(* attempts of _run are a loop.  What RelayServer details (connections,    *)
(* rotations, the drain) is one step here.  Failing file operations, the   *)
(* legacy PID file and the stop by keyboard are left out.                  *)
(***************************************************************************)
CONSTANTS
    Servers,     \* runs of the start command
    Statuses,    \* runs of the status command
    Stops,       \* runs of the stop command
    Rotates,     \* runs of the rotate command
    None,        \* no file, no PID
    Empty        \* a PID file that is open for writing and still empty

ASSUME LifecycleConstants ==
    /\ Servers \cap (Statuses \cup Stops \cup Rotates) = {}
    /\ {None, Empty} \cap (Servers \cup Statuses \cup Stops \cup Rotates) = {}
    /\ None # Empty

Commands == Statuses \cup Stops \cup Rotates

Processes == Servers \cup Commands

VARIABLES
    pidFile,     \* None, Empty or a PID
    statusFile,  \* None or the PID of the server that wrote it
    at,          \* where each process stands
    seen,        \* the PID each process has read
    overlapped   \* history: a command was given while another was in progress

files == <<pidFile, statusFile>>
vars == <<files, at, seen, overlapped>>

\* start() until its signal handlers are installed.
StartWindow == {"read", "check", "scan", "scanCheck", "removePid", "removeStatus",
                "readStatus", "starting", "bound", "emptied", "pidWritten", "announced"}

Ending == {"stopping", "unlinking", "draining", "exiting", "leaving"}

Alive(p) == p \in Servers /\ at[p] \in StartWindow \cup {"serving"} \cup Ending

InProgress(p) ==
    IF p \in Servers THEN at[p] \in StartWindow ELSE at[p] \notin {"none", "done"}

Init ==
    /\ pidFile = None
    /\ statusFile = None
    /\ at = [p \in Processes |-> "none"]
    /\ seen = [p \in Processes |-> None]
    /\ overlapped = FALSE

Goto(p, place) == at' = [at EXCEPT ![p] = place]

\* A process steps from one place to another and does nothing else.
Moves(p, from, to) ==
    /\ at[p] = from
    /\ Goto(p, to)
    /\ UNCHANGED <<files, seen, overlapped>>

\* read_pid: an empty file has no PID.
PidRead == IF pidFile = Empty THEN None ELSE pidFile

ReadPid(p, from, to) ==
    /\ at[p] = from
    /\ seen' = [seen EXCEPT ![p] = PidRead]
    /\ Goto(p, to)
    /\ UNCHANGED <<files, overlapped>>

RemovePidFile(p, from, to) ==
    /\ at[p] = from
    /\ pidFile' = None
    /\ Goto(p, to)
    /\ UNCHANGED <<statusFile, seen, overlapped>>

RemoveStatusFile(p, from, to) ==
    /\ at[p] = from
    /\ statusFile' = None
    /\ Goto(p, to)
    /\ UNCHANGED <<pidFile, seen, overlapped>>

-----------------------------------------------------------------------------
(***************************************************************************)
(* Every command begins by reading the PID file.                           *)
(***************************************************************************)

\* status --all reads only the profiles whose status file it finds; the status
\* of one profile reads in any case.
Begin(p) ==
    /\ at[p] = "none"
    /\ Goto(p, IF p \in Statuses THEN "scan" ELSE "read")
    /\ UNCHANGED <<files, seen>>
    /\ overlapped' = (overlapped \/ \E q \in Processes : InProgress(q))

ReadsPid(p) == ReadPid(p, "read", "check") \/ ReadPid(p, "scan", "scanCheck")

-----------------------------------------------------------------------------
(***************************************************************************)
(* read_status_if_alive, in a status command and in a start whose port is  *)
(* taken (_find_port_owner).                                               *)
(***************************************************************************)

\* Where a reader goes when it is done.
Back(p) == IF p \in Servers THEN "starting" ELSE "done"

\* Faulty variant: whatever the look at the process said, the files go.
FindsDeadAlways(p) ==
    Moves(p, "scanCheck", IF seen[p] # None THEN "removePid" ELSE "removeStatus")

FindsDead(p) ==
    /\ ~Alive(seen[p])
    /\ Moves(p, "scanCheck", IF seen[p] # None THEN "removePid" ELSE "removeStatus")

FindsAlive(p) == Alive(seen[p]) /\ Moves(p, "scanCheck", "readStatus")

CleansPid(p) == RemovePidFile(p, "removePid", "removeStatus")

CleansStatus(p) == RemoveStatusFile(p, "removeStatus", Back(p))

ReadsStatus(p) == Moves(p, "readStatus", Back(p))

-----------------------------------------------------------------------------
(***************************************************************************)
(* start, and the life of a server.                                        *)
(***************************************************************************)

\* "already running": the start gives up.
Refused(s) == Alive(seen[s]) /\ Moves(s, "check", "done")

\* Faulty variant: the check refuses a start only if its own PID is recorded.
AllowedUnlessOwn(s) == seen[s] # s /\ Moves(s, "check", "starting")

Allowed(s) == ~Alive(seen[s]) /\ Moves(s, "check", "starting")

\* EADDRINUSE, whoever holds the port: _find_port_owner reads the profiles that
\* have a status file, and the next port is tried.
PortTaken(s) == Moves(s, "starting", IF statusFile = None THEN "starting" ELSE "scan")

\* The upstream cannot be resolved, or no port is free.
StartFails(s) == Moves(s, "starting", "exited")

Binds(s) == Moves(s, "starting", "bound")

\* write_pid: the file is opened, and so emptied, before it is written.
EmptiesPid(s) ==
    /\ at[s] = "bound"
    /\ pidFile' = Empty
    /\ Goto(s, "emptied")
    /\ UNCHANGED <<statusFile, seen, overlapped>>

WritesPid(s) ==
    /\ at[s] = "emptied"
    /\ pidFile' = s
    /\ Goto(s, "pidWritten")
    /\ UNCHANGED <<statusFile, seen, overlapped>>

\* The initial status; then the signal handlers are installed.
Announces(s) ==
    /\ at[s] = "pidWritten"
    /\ statusFile' = s
    /\ Goto(s, "announced")
    /\ UNCHANGED <<pidFile, seen, overlapped>>

InstallsHandlers(s) == Moves(s, "announced", "serving")

\* Connections, rotations and health checks write the status, also in the drain.
WritesStatus(s) ==
    /\ at[s] \in {"serving", "stopping", "unlinking", "draining"}
    /\ statusFile' = s
    /\ UNCHANGED <<pidFile, at, seen, overlapped>>

\* Faulty variant: stop() leaves the PID file to the atexit hook.
StopKeepsPid(s) == Moves(s, "stopping", "unlinking")

\* stop(), from the signal handler to the end of the drain.
StopRemovesPid(s) == RemovePidFile(s, "stopping", "unlinking")

StopRemovesStatus(s) == RemoveStatusFile(s, "unlinking", "draining")

\* asyncio.run is over; the atexit hooks run in the reverse of the order in which
\* they were registered.
Drained(s) == Moves(s, "draining", "exiting")

\* Faulty variant: write_status registers no hook.
ExitWithoutHook(s) == Moves(s, "exiting", "leaving")

ExitRemovesStatus(s) == RemoveStatusFile(s, "exiting", "leaving")

ExitRemovesPid(s) == RemovePidFile(s, "leaving", "exited")

Killed(s) ==
    /\ Alive(s)
    /\ Goto(s, "killed")
    /\ UNCHANGED <<files, seen, overlapped>>

-----------------------------------------------------------------------------
(***************************************************************************)
(* stop and rotate.                                                        *)
(***************************************************************************)

\* No PID file, or one of a dead process, which stop removes and rotate leaves.
NotRunning(p) ==
    /\ ~Alive(seen[p])
    /\ Moves(p, "check", IF p \in Stops /\ seen[p] # None THEN "stale" ELSE "done")

Found(p) == Alive(seen[p]) /\ Moves(p, "check", "send")

RemovesStale(p) == RemovePidFile(p, "stale", "done")

\* Where the default disposition of SIGTERM and SIGUSR1 is in force: before
\* start() installs its handlers, and once asyncio.run has closed the loop.
Unhandled == StartWindow \cup {"exiting", "leaving"}

\* stop() runs again for a server that is draining already.
AfterTerm(place) ==
    IF place \in Unhandled THEN "killed"
    ELSE IF place \in {"serving", "draining"} THEN "stopping" ELSE place

AfterUsr1(place) == IF place \in Unhandled THEN "killed" ELSE place

\* A signal sent while stop() removes the files is handled after it.
Sends(p) ==
    /\ at[p] = "send"
    /\ at[seen[p]] \notin {"stopping", "unlinking"}
    /\ LET place == at[seen[p]]
       IN  at' = [at EXCEPT ![p] = "done",
                            ![seen[p]] = IF p \in Stops THEN AfterTerm(place)
                                         ELSE AfterUsr1(place)]
    /\ UNCHANGED <<files, seen, overlapped>>

-----------------------------------------------------------------------------
ServerStep(s) ==
    \/ Refused(s) \/ Allowed(s) \/ PortTaken(s) \/ StartFails(s) \/ Binds(s)
    \/ EmptiesPid(s) \/ WritesPid(s) \/ Announces(s) \/ InstallsHandlers(s)
    \/ WritesStatus(s) \/ StopRemovesPid(s) \/ StopRemovesStatus(s) \/ Drained(s)
    \/ ExitRemovesStatus(s) \/ ExitRemovesPid(s) \/ Killed(s)

ReaderStep(p) ==
    FindsDead(p) \/ FindsAlive(p) \/ CleansPid(p) \/ CleansStatus(p) \/ ReadsStatus(p)

SignalStep(p) == NotRunning(p) \/ Found(p) \/ RemovesStale(p) \/ Sends(p)

Next ==
    \/ \E p \in Processes : Begin(p) \/ ReadsPid(p)
    \/ \E s \in Servers : ServerStep(s)
    \/ \E p \in Servers \cup Statuses : ReaderStep(p)
    \/ \E p \in Stops \cup Rotates : SignalStep(p)

Spec == Init /\ [][Next]_vars

-----------------------------------------------------------------------------
(***************************************************************************)
(* Properties.                                                             *)
(***************************************************************************)

Places ==
    StartWindow \cup Ending
        \cup {"none", "serving", "exited", "killed", "done", "stale", "send"}

LifecycleTypeOK ==
    /\ pidFile \in Servers \cup {None, Empty}
    /\ statusFile \in Servers \cup {None}
    /\ at \in [Processes -> Places]
    /\ seen \in [Processes -> Servers \cup {None}]

\* A server that has been stopped is not found by its PID again, and one that has
\* ended by itself left no status either, whatever the other processes did and
\* however late its last status write (server.py:188-192, pidfile.py:109-113,
\* 284-290).
EndedServerIsNotFound ==
    \A s \in Servers :
        /\ at[s] \in {"unlinking", "draining", "exiting", "leaving", "exited"} => pidFile # s
        /\ at[s] \in {"leaving", "exited"} => statusFile # s

\* Where a start has not written the PID file yet.
Young == {"none", "read", "check", "scan", "scanCheck", "removePid", "removeStatus",
          "readStatus", "starting", "bound", "emptied"}

\* How far the life of a server at a place has come, in the terms of ServerContract.
Life(place) ==
    CASE place \in {"pidWritten", "announced"} -> "written"
      [] place \in Young -> "starting"
      [] place \in {"unlinking", "draining", "exiting", "leaving"} -> "draining"
      [] place \in {"exited", "done"} -> "ended"
      [] OTHER -> place

Server(s) == INSTANCE ServerContract WITH
    life <- Life(at[s]), pid <- pidFile = s, status <- statusFile = s

\* Whatever the other servers and the commands do to the files, each server writes
\* its PID once, its status only while it lives, and is named by neither file when
\* it has ended by itself; it is in this that it is the server of RelayServer
\* (server.py:122-199, pidfile.py:97-113, 284-290).
ServersKeepContract ==
    /\ \A s \in Servers : Server(s)!Init
    /\ [][\A s \in Servers : [Server(s)!Next]_(Server(s)!vars)]_vars

\* Each command was given when the one before had finished, and none was a stop.
OneByOne == ~overlapped /\ \A p \in Stops : at[p] = "none"

\* However many servers crash, and whatever files they leave, two servers of one
\* profile never serve at the same time, when the commands are given one by one and
\* none is a stop (cli.py:369-376).
OneServerServes ==
    OneByOne =>
        \A s, t \in Servers : at[s] = "serving" /\ at[t] = "serving" => s = t

FilesNameWhoServes ==
    \A s \in Servers : at[s] = "serving" => pidFile = s /\ statusFile = s

\* Under the same commands the PID file and the status file are those of the
\* running server, by which the commands find it (cli.py:369-376, pidfile.py:350-360).
FoundDespiteCrashes == OneByOne => FilesNameWhoServes

\* What the docstrings say of the files: they are those of the running server, by
\* which the commands find it, as long as each command is given when the one before
\* has finished (cli.py:369-376, pidfile.py:350-360).
ServingServerIsFound == ~overlapped => FilesNameWhoServes

=============================================================================
