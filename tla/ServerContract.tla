---------------------------- MODULE ServerContract ----------------------------
(***************************************************************************)
(* What a server is to the other processes of its profile: how far its     *)
(* life has come, and when the PID file and the status file name it.       *)
(* RelayServer has one server with all it does, Lifecycle several of them  *)
(* and the commands step by step, BrowseSession those of browse sessions   *)
(* in a few steps each; every server of each implements this               *)
(* specification.                                                          *)
(*                                                                         *)
(* Nothing locks the files, so at any time another process may remove or   *)
(* overwrite them; nobody but the server itself puts its name there.       *)
(***************************************************************************)
VARIABLES
    life,    \* how far the server has come
    pid,     \* the PID file names it
    status   \* the status file is its own

vars == <<life, pid, status>>

Alive == {"starting", "written", "serving", "stopping", "draining"}

Init == life = "starting" /\ ~pid /\ ~status

\* The files do not come to name the server.
FilesStay == (pid' => pid) /\ (status' => status)

\* The one time that a server writes its PID.
WritesPid ==
    /\ life = "starting" /\ life' \in {"written", "serving"}
    /\ pid'

\* Its signal handlers are installed.
Serves == life = "written" /\ life' = "serving" /\ FilesStay

\* The status is written again and again, also during the drain.
WritesStatus ==
    /\ life \in Alive
    /\ status'
    /\ UNCHANGED <<life, pid>>

\* A stop signal, and another one.
BeginsStop ==
    /\ life \in {"serving", "stopping", "draining"} /\ life' = "stopping"
    /\ FilesStay

\* The drain begins when the PID file is gone.
Drains ==
    /\ life \in {"serving", "stopping", "draining"} /\ life' = "draining"
    /\ FilesStay /\ ~pid'

\* The server has ended by itself: neither file names it.
Ends ==
    /\ life \in {"starting", "stopping", "draining"} /\ life' = "ended"
    /\ ~pid' /\ ~status'

\* It is killed, and its files may stay behind.
Dies == life \in Alive /\ life' = "killed" /\ FilesStay

Others == FilesStay /\ UNCHANGED life

Next ==
    \/ WritesPid \/ Serves \/ WritesStatus \/ BeginsStop \/ Drains \/ Ends \/ Dies \/ Others

Spec == Init /\ [][Next]_vars

=============================================================================
