---------------------------- MODULE BrowseSession ----------------------------
(***************************************************************************)
(* The browse command: it finds or starts a relay for its profile, checks  *)
(* it, puts the browser profile in order, warms it up, runs Chromium under *)
(* BrowseSupervisor and stops the relay it has started (proxy_relay/cli.py *)
(* _cmd_browse, browse.py, warmup.py; profile_rules.py is ProfileRules).   *)
(*                                                                         *)
(* Every session here is for one profile: sessions, their relays and a     *)
(* relay started by hand share its PID file, its status file and its       *)
(* browser profile.  Sessions are killed, are interrupted, and overlap.    *)
(*                                                                         *)
(* Abstractions.  The start of a relay is three steps (Lifecycle has them  *)
(* all), and each relay runs once.  Time is left out: every wait may run   *)
(* to its timeout.  The status file may be missing, never unreadable, and  *)
(* the unlink before a start succeeds.  Exit IPs, locales and the capture  *)
(* (CaptureSession) are left out.                                          *)
(***************************************************************************)
EXTENDS ProfileRules

CONSTANTS
    Sessions,    \* runs of browse
    User,        \* the relay a start command runs on the configured port
    Configured,  \* the configured port
    Nobody       \* no PID, no port, no exit code

\* A session's own relay, and the one its warm-up may have to start.
Relay(s) == <<s, "browse">>

WarmupRelay(s) == <<s, "warmup">>

Servers == {User} \cup (Sessions \X {"browse", "warmup"})

ASSUME BrowseConstants ==
    /\ User \notin Sessions \X {"browse", "warmup"}
    /\ Nobody \notin Servers

VARIABLES
    server,      \* how far each relay has come, see ServerStates
    pidFile,     \* whose PID the PID file holds
    statusFile,  \* whose port the status file holds
    profile,     \* the browser profile's directory
    orphan,      \* a Chromium that no session knows of is using it
    session      \* each session, see Session

serverVars == <<server, pidFile, statusFile>>
profileVars == <<profile, orphan>>
vars == <<serverVars, profileVars, session>>

ServerStates ==
    { "none", "starting", "checked", "serving",
      "stuck",     \* its event loop waits for a write to its log
      "stopping",
      "zombie",    \* it has ended and its parent has not waited for it
      "gone" }

Places ==
    {"none", "found", "absent", "waiting", "health", "checked", "asking", "rotating",
     "deleting", "warmup", "warmupWaiting", "opening", "polling", "lingering",
     "warmupClosing", "warmupStopping", "launching", "supervising", "finishing",
     "stopping", "ended", "killed"}

Session ==
    [at : Places,
     tidal : BOOLEAN,                             \* it has a TIDAL start URL
     relay : {Nobody} \cup Servers,               \* relay_pid
     port : {Nobody, Configured} \cup Servers,    \* proxy_port, by who listens on it
     failed : SUBSET RuleNames,                   \* the rules that failed
     watched : {Nobody} \cup Servers,             \* the PID a warm-up watches
     browser : {"none", "running", "exited"},     \* its Chromium
     stopEvent : BOOLEAN,
     code : {Nobody, 0, 1, 130},                  \* what it exits with
     alone : BOOLEAN,   \* history: no other relay was being started
     kept : BOOLEAN,    \* history: a deletion has failed
     earned : BOOLEAN]  \* history: a datadome cookie was set since the deletions

\* A session that is not under way.
Record(place, c, tidal) ==
    [at |-> place, tidal |-> tidal, relay |-> Nobody, port |-> Nobody, failed |-> {},
     watched |-> Nobody, browser |-> "none", stopEvent |-> FALSE, code |-> c,
     alone |-> FALSE, kept |-> FALSE, earned |-> FALSE]

NoFiles ==
    /\ pidFile = Nobody
    /\ statusFile = Nobody

Init ==
    /\ server = [p \in Servers |-> "none"]
    /\ NoFiles
    /\ orphan = FALSE
    /\ profile \in Profiles
    /\ session \in [Sessions -> {Record("none", Nobody, tidal) : tidal \in BOOLEAN}]

At(s) == session[s].at

Active(s) == At(s) \notin {"none", "ended", "killed"}

Turns(s, r) == session' = [session EXCEPT ![s] = r]

-----------------------------------------------------------------------------
(***************************************************************************)
(* Relays.                                                                 *)
(***************************************************************************)

\* is_process_running: a child that has ended and was not waited for still answers
\* to signal 0.
Running(p) == p # Nobody /\ server[p] \notin {"none", "gone"}

Living(p) == Running(p) /\ server[p] # "zombie"

\* How a process ends: its parent, when that is a session, has to wait for it.
DeadState(p) == IF p # User /\ Active(p[1]) THEN "zombie" ELSE "gone"

RemovesFiles == pidFile' = Nobody /\ statusFile' = Nobody

ServerTurns(p, state) ==
    /\ server' = [server EXCEPT ![p] = state]
    /\ UNCHANGED <<profileVars, session>>

\* A start by hand.
UserStarts ==
    /\ server[User] = "none"
    /\ server' = [server EXCEPT ![User] = "starting"]
    /\ session' = [s \in Sessions |-> [session[s] EXCEPT !.alone = FALSE]]
    /\ UNCHANGED <<pidFile, statusFile, profileVars>>

\* A start goes on when the PID file names no running server.
ChecksPid(p) ==
    /\ server[p] = "starting"
    /\ ~Running(pidFile)
    /\ ServerTurns(p, "checked")
    /\ UNCHANGED <<pidFile, statusFile>>

\* It listens, writes its PID and its status.
Listens(p) ==
    /\ server[p] = "checked"
    /\ ServerTurns(p, "serving")
    /\ pidFile' = p
    /\ statusFile' = p

\* A start that is refused or fails, or a crash: the files stay as they are.
Dies(p) ==
    /\ Living(p)
    /\ ServerTurns(p, DeadState(p))
    /\ UNCHANGED <<pidFile, statusFile>>

\* The standard error of a session's relay is a pipe that nobody reads while the
\* relay runs: once its log has filled the pipe, the next line blocks it.
LogFillsPipe(p) ==
    /\ server[p] = "serving" /\ p # User /\ Active(p[1])
    /\ ServerTurns(p, "stuck")
    /\ UNCHANGED <<pidFile, statusFile>>

\* The stop command, on the server that the PID file names.
UserStops ==
    /\ pidFile # Nobody
    /\ server[pidFile] = "serving"
    /\ ServerTurns(pidFile, "stopping")
    /\ RemovesFiles

\* The drain is over; the atexit hooks remove the files, whoever wrote them.
Exits(p) ==
    /\ server[p] = "stopping"
    /\ ServerTurns(p, DeadState(p))
    /\ RemovesFiles

ServerStep(p) == ChecksPid(p) \/ Listens(p) \/ Dies(p) \/ LogFillsPipe(p) \/ Exits(p)

\* SIGTERM or SIGINT sent to each of ps: a start dies of it, a server that serves
\* begins to stop, one that is stuck does not get to it.
Terminated(ps) ==
    [p \in Servers |->
        IF p \notin ps THEN server[p]
        ELSE IF server[p] \in {"starting", "checked"} THEN DeadState(p)
        ELSE IF server[p] = "serving" THEN "stopping" ELSE server[p]]

FilesAfterTerm(ps) ==
    IF \E p \in ps : server[p] = "serving"
    THEN RemovesFiles ELSE UNCHANGED <<pidFile, statusFile>>

\* When a session ends, init waits for its children, and what they log is lost:
\* one that was stuck goes on.
Orphaned(srv, s, unstuck) ==
    [p \in Servers |->
        IF p \notin {Relay(s), WarmupRelay(s)} THEN srv[p]
        ELSE IF srv[p] = "zombie" THEN "gone"
        ELSE IF srv[p] = "stuck" THEN unstuck ELSE srv[p]]

-----------------------------------------------------------------------------
(***************************************************************************)
(* The browser profile and Chromium.                                       *)
(***************************************************************************)

InUse == orphan \/ \E s \in Sessions : session[s].browser = "running"

InWarmup(s) == At(s) \in {"warmup", "warmupWaiting", "opening", "polling", "lingering"}

\* Chromium sets and loses cookies, and replaces a database that it cannot open.
SetsCookie ==
    /\ InUse
    /\ profile' = [profile EXCEPT !.contents = TRUE, !.cookies = "valid"]
    /\ session' = [s \in Sessions |-> [session[s] EXCEPT !.earned = @ \/ InWarmup(s)]]
    /\ UNCHANGED <<serverVars, orphan>>

ProfileTurns(p) == profile' = p /\ UNCHANGED <<serverVars, orphan, session>>

LosesCookie ==
    InUse /\ ProfileTurns([profile EXCEPT !.contents = TRUE, !.cookies = "bare"])

CookieExpires ==
    profile.cookies = "valid" /\ ProfileTurns([profile EXCEPT !.cookies = "expired"])

DatabaseCorrupted ==
    InUse /\ profile.cookies # "none" /\ ProfileTurns([profile EXCEPT !.cookies = "corrupt"])

\* delete_profile, of the profile-clean command: it looks for no browser.
ProfileCleaned == profile.contents /\ ProfileTurns(EmptyProfile)

OrphanExits == orphan /\ orphan' = FALSE /\ UNCHANGED <<serverVars, profile, session>>

BrowserExits(s) ==
    /\ session[s].browser = "running"
    /\ Turns(s, [session[s] EXCEPT !.browser = "exited"])
    /\ UNCHANGED <<serverVars, profileVars>>

\* What becomes of the profile is followed while a session looks at it.
ProfileStep ==
    /\ \E s \in Sessions : session[s].tidal /\ Active(s)
    /\ SetsCookie \/ LosesCookie \/ CookieExpires \/ DatabaseCorrupted \/ ProfileCleaned

\* get_profile_dir: the directory of a Snap Chromium is seeded with Widevine.
Prepared == {profile, [profile EXCEPT !.contents = TRUE]}

\* A Chromium whose profile is in use hands over to the one that has it, and exits.
Launched == IF InUse THEN "exited" ELSE "running"

-----------------------------------------------------------------------------
(***************************************************************************)
(* A session's start: _cmd_browse, auto_start_server, wait_for_server_ready.*)
(***************************************************************************)

SessionOnly == UNCHANGED <<serverVars, profileVars>>

Goes(s, place) == Turns(s, [session[s] EXCEPT !.at = place])

Finishes(s, c) == Turns(s, [session[s] EXCEPT !.at = "finishing", !.code = c])

EndRecord(s, place, c) == Record(place, c, session[s].tidal)

LooksUp(s) ==
    LET found == Running(pidFile)
        first == /\ \A t \in Sessions \ {s} : ~Active(t)
                 /\ \A p \in Servers : server[p] \notin {"starting", "checked"}
    IN  /\ At(s) = "none"
        /\ session' = [t \in Sessions |->
               IF t # s THEN [session[t] EXCEPT !.alone = FALSE]
               ELSE [session[s] EXCEPT !.at = IF found THEN "found" ELSE "absent",
                                       !.relay = IF found THEN pidFile ELSE Nobody,
                                       !.alone = first]]
        /\ SessionOnly

\* A server that runs is used, on the port its status file tells.
TakesPort(s) ==
    /\ At(s) = "found"
    /\ Turns(s, [session[s] EXCEPT !.at = "health",
                                   !.port = IF statusFile = Nobody THEN Configured ELSE statusFile])
    /\ SessionOnly

\* Faulty variant: an old status file is not removed.
SpawnsKeepingStatus(s, p, to) ==
    /\ server' = [server EXCEPT ![p] = "starting"]
    /\ Goes(s, to)
    /\ UNCHANGED <<pidFile, statusFile, profileVars>>

\* auto_start_server: the status file is removed and the relay started.
Spawns(s, p, to) ==
    /\ server' = [server EXCEPT ![p] = "starting"]
    /\ statusFile' = Nobody
    /\ Goes(s, to)
    /\ UNCHANGED <<pidFile, profileVars>>

StartsRelay(s) == At(s) = "absent" /\ Spawns(s, Relay(s), "waiting")

CannotStart(s) ==
    /\ At(s) = "absent"
    /\ Turns(s, EndRecord(s, "ended", 1))
    /\ statusFile' = Nobody
    /\ UNCHANGED <<server, pidFile, profileVars>>

\* The first status file there is, while the relay it has started runs.
StatusAppears(p) == server[p] # "zombie" /\ statusFile # Nobody

RelayReady(s) ==
    /\ At(s) = "waiting"
    /\ StatusAppears(Relay(s))
    /\ Turns(s, [session[s] EXCEPT !.at = "health", !.relay = Relay(s), !.port = statusFile])
    /\ SessionOnly

\* Faulty variant: when the time is up the relay is left to itself.
WaitFailsOnly(p) ==
    /\ server[p] = "zombie" \/ statusFile = Nobody
    /\ server' = IF server[p] = "zombie" THEN [server EXCEPT ![p] = "gone"] ELSE server
    /\ UNCHANGED <<pidFile, statusFile, profileVars>>

\* The relay has exited, or it is terminated, or killed, when the time is up.
WaitFails(p) ==
    /\ server[p] = "zombie" \/ statusFile = Nobody
    /\ server' = [server EXCEPT ![p] = "gone"]
    /\ FilesAfterTerm({p})
    /\ UNCHANGED profileVars

RelayNotReady(s) ==
    /\ At(s) = "waiting"
    /\ WaitFails(Relay(s))
    /\ Turns(s, EndRecord(s, "ended", 1))

Answers(q) == server[IF q = Configured THEN User ELSE q] = "serving"

HealthCheck(s) ==
    /\ At(s) = "health"
    /\ \/ /\ Answers(session[s].port)
          /\ Turns(s, [session[s] EXCEPT !.at = "checked", !.alone = FALSE])
       \/ Finishes(s, 1)
    /\ SessionOnly

StartUp(s) ==
    \/ LooksUp(s) \/ TakesPort(s) \/ StartsRelay(s) \/ CannotStart(s)
    \/ RelayReady(s) \/ RelayNotReady(s) \/ HealthCheck(s)

-----------------------------------------------------------------------------
(***************************************************************************)
(* Validation, remediations and warm-up.                                   *)
(***************************************************************************)

NoBrowser(s) == At(s) = "checked" /\ Finishes(s, 1) /\ SessionOnly

Validates(s) ==
    /\ At(s) = "checked"
    /\ \E p \in Prepared :
          LET broken == IF session[s].tidal THEN EvaluateAll(p) ELSE {}
          IN  /\ profile' = p
              /\ Turns(s, [session[s] EXCEPT !.failed = broken,
                                             !.at = IF broken = {} THEN "launching" ELSE "asking"])
    /\ UNCHANGED <<serverVars, orphan>>

\* Whatever is raised, an end of the input among it, the browser is launched.
ValidationRaises(s) ==
    /\ session[s].tidal
    /\ At(s) \in {"checked", "asking", "rotating"}
    /\ Turns(s, [session[s] EXCEPT !.at = "launching", !.failed = {}])
    /\ SessionOnly

Confirms(s) ==
    /\ At(s) = "asking"
    /\ Goes(s, IF "rotate_ip" \in Remediations(session[s].failed) THEN "rotating" ELSE "deleting")
    /\ SessionOnly

\* SIGUSR1: fatal to a relay that is still starting.
SendsUsr1(p) ==
    /\ server' = IF server[p] \in {"starting", "checked"}
                 THEN [server EXCEPT ![p] = DeadState(p)] ELSE server
    /\ UNCHANGED <<pidFile, statusFile, profileVars>>

\* The wait for the new IP ends with it or without.
Rotates(s) ==
    /\ At(s) = "rotating"
    /\ SendsUsr1(session[s].relay)
    /\ Goes(s, "deleting")

\* Each deletion that is asked for may fail, which is logged at most.
Deletes(s) ==
    LET asked == Remediations(session[s].failed) \ {"rotate_ip"}
    IN  /\ At(s) = "deleting"
        /\ \E done \in SUBSET asked :
              /\ profile' = Remedied(profile, asked, done)
              /\ Turns(s, [session[s] EXCEPT !.at = "warmup", !.failed = {},
                                             !.kept = (done # asked)])
        /\ UNCHANGED <<serverVars, orphan>>

\* _ensure_server looks anew for a running server.
WarmupFindsRelay(s) ==
    At(s) = "warmup" /\ Running(pidFile) /\ Goes(s, "opening") /\ SessionOnly

WarmupStartsRelay(s) ==
    /\ At(s) = "warmup"
    /\ ~Running(pidFile)
    /\ Spawns(s, WarmupRelay(s), "warmupWaiting")

WarmupRelayReady(s) ==
    /\ At(s) = "warmupWaiting"
    /\ StatusAppears(WarmupRelay(s))
    /\ Goes(s, "opening")
    /\ SessionOnly

WarmupRelayNotReady(s) ==
    At(s) = "warmupWaiting" /\ WaitFails(WarmupRelay(s)) /\ Goes(s, "warmupClosing")

\* There may be no browser, or none that starts.
Opens(s) ==
    /\ At(s) = "opening"
    /\ profile' \in Prepared
    /\ \/ Turns(s, [session[s] EXCEPT !.at = "polling", !.browser = Launched])
       \/ Goes(s, "warmupClosing")
    /\ UNCHANGED <<serverVars, orphan>>

\* Any datadome row will do.
CookieFound(s) ==
    /\ At(s) = "polling"
    /\ session[s].browser = "running"
    /\ HasCookie(profile)
    /\ Turns(s, [session[s] EXCEPT !.at = "lingering", !.watched = pidFile])
    /\ SessionOnly

BrowserGone(s) ==
    /\ At(s) = "polling"
    /\ session[s].browser = "exited"
    /\ Goes(s, "warmupClosing")
    /\ SessionOnly

\* The marker is written whatever the reason; failing to write it is logged.
PollTimesOut(s) ==
    /\ At(s) = "polling"
    /\ profile' \in {profile, [profile EXCEPT !.contents = TRUE, !.poisoned = TRUE]}
    /\ Goes(s, "warmupClosing")
    /\ UNCHANGED <<serverVars, orphan>>

LingerEnds(s) ==
    /\ At(s) = "lingering"
    /\ \/ session[s].browser = "exited"
       \/ session[s].watched # Nobody /\ ~Running(session[s].watched)
    /\ Goes(s, "warmupClosing")
    /\ SessionOnly

\* terminate() of a Snap Chromium may be refused: it runs on, and nobody knows.
ClosesBrowser(s) ==
    IF session[s].browser = "running" THEN orphan' \in {orphan, TRUE} ELSE UNCHANGED orphan

\* auto_stop_server waits for a relay that has exited; SIGTERM goes to another.
SendsTerm(p) ==
    IF Living(p)
    THEN server' = Terminated({p}) /\ FilesAfterTerm({p})
    ELSE /\ server' = IF server[p] = "zombie" THEN [server EXCEPT ![p] = "gone"] ELSE server
         /\ UNCHANGED <<pidFile, statusFile>>

\* It has exited within five seconds, or is killed.
StoppedOrKilled(p) == [server EXCEPT ![p] = "gone"]

\* Faulty variant: the cleanup swallows the interrupt.
AfterWarmupAlways(s) == "launching"

\* An interrupt goes on after the warm-up's own cleanup.
AfterWarmup(s) == IF session[s].code = 130 THEN "finishing" ELSE "launching"

WarmupCloses(s) ==
    /\ At(s) = "warmupClosing"
    /\ ClosesBrowser(s)
    /\ SendsTerm(WarmupRelay(s))
    /\ Turns(s, [session[s] EXCEPT !.browser = "none", !.watched = Nobody, !.kept = FALSE,
                                   !.earned = FALSE,
                                   !.at = IF Living(WarmupRelay(s)) THEN "warmupStopping"
                                          ELSE AfterWarmup(s)])
    /\ UNCHANGED profile

WarmupStopsRelay(s) ==
    /\ At(s) = "warmupStopping"
    /\ server' = StoppedOrKilled(WarmupRelay(s))
    /\ Goes(s, AfterWarmup(s))
    /\ UNCHANGED <<pidFile, statusFile, profileVars>>

Preparation(s) ==
    \/ NoBrowser(s) \/ Validates(s) \/ ValidationRaises(s) \/ Confirms(s) \/ Rotates(s)
    \/ Deletes(s) \/ WarmupFindsRelay(s) \/ WarmupStartsRelay(s) \/ WarmupRelayReady(s)
    \/ WarmupRelayNotReady(s) \/ Opens(s) \/ CookieFound(s) \/ BrowserGone(s)
    \/ PollTimesOut(s) \/ LingerEnds(s) \/ WarmupCloses(s) \/ WarmupStopsRelay(s)

-----------------------------------------------------------------------------
(***************************************************************************)
(* BrowseSupervisor, and the end of a session.                             *)
(***************************************************************************)

Launches(s) ==
    /\ At(s) = "launching"
    /\ \/ Turns(s, [session[s] EXCEPT !.at = "supervising", !.browser = Launched])
       \/ Finishes(s, 1)
    /\ SessionOnly

\* Faulty variant: the death is noted, and the event is not set.
RelayPolledSilently(s) ==
    /\ At(s) = "supervising"
    /\ ~session[s].stopEvent
    /\ ~Running(session[s].relay)
    /\ UNCHANGED vars

\* The thread that polls the relay.
RelayPolled(s) ==
    /\ At(s) = "supervising"
    /\ ~session[s].stopEvent
    /\ ~Running(session[s].relay)
    /\ Turns(s, [session[s] EXCEPT !.stopEvent = TRUE])
    /\ SessionOnly

\* The thread that rotates.
AutoRotates(s) ==
    /\ At(s) = "supervising"
    /\ ~session[s].stopEvent
    /\ SendsUsr1(session[s].relay)
    /\ UNCHANGED session

\* The main loop looks at the event first.
StopSeen(s) ==
    /\ At(s) = "supervising"
    /\ session[s].stopEvent
    /\ ClosesBrowser(s)
    /\ Turns(s, [session[s] EXCEPT !.at = "finishing", !.code = 1, !.browser = "none"])
    /\ UNCHANGED <<serverVars, profile>>

ChromiumSeen(s) ==
    /\ At(s) = "supervising"
    /\ ~session[s].stopEvent
    /\ session[s].browser = "exited"
    /\ Turns(s, [session[s] EXCEPT !.at = "finishing", !.code = 0, !.stopEvent = TRUE,
                                   !.browser = "none"])
    /\ SessionOnly

SessionEnds(s, srv) ==
    /\ server' = Orphaned(srv, s, "stopping")
    /\ Turns(s, EndRecord(s, "ended", session[s].code))
    /\ UNCHANGED profileVars

\* The relay the session has started is stopped, any other is left alone.
StopsRelay(s) ==
    /\ At(s) = "finishing"
    /\ Living(Relay(s))
    /\ server' = Terminated({Relay(s)})
    /\ FilesAfterTerm({Relay(s)})
    /\ Goes(s, "stopping")
    /\ UNCHANGED profileVars

FindsItStopped(s) ==
    /\ At(s) = "finishing"
    /\ ~Living(Relay(s))
    /\ SessionEnds(s, server)
    /\ UNCHANGED <<pidFile, statusFile>>

Ends(s) ==
    /\ At(s) = "stopping"
    /\ SessionEnds(s, StoppedOrKilled(Relay(s)))
    /\ UNCHANGED <<pidFile, statusFile>>

Own(s) == {Relay(s), WarmupRelay(s)}

\* Ctrl-C reaches the session, its relays and its Chromium.  Before the try block
\* and in the finally block it ends the session at once.
Interrupted(s) ==
    LET place ==
            IF At(s) \in {"found", "absent", "waiting", "finishing", "stopping"} THEN "ended"
            ELSE IF InWarmup(s) THEN "warmupClosing" ELSE "finishing"
    IN  /\ Active(s)
        /\ FilesAfterTerm(Own(s))
        /\ IF place = "ended"
           THEN /\ server' = Orphaned(Terminated(Own(s)), s, "stopping")
                /\ Turns(s, EndRecord(s, "ended", 130))
           ELSE /\ server' = Terminated(Own(s))
                /\ Turns(s, [session[s] EXCEPT !.at = place, !.browser = "none",
                                               !.failed = {},
                                               !.code = IF At(s) = "asking" THEN 1 ELSE 130])
        /\ UNCHANGED profileVars

\* Its relays and its Chromium go on.
Killed(s) ==
    /\ Active(s)
    /\ server' = Orphaned(server, s, "serving")
    /\ orphan' = (orphan \/ session[s].browser = "running")
    /\ Turns(s, EndRecord(s, "killed", Nobody))
    /\ UNCHANGED <<pidFile, statusFile, profile>>

Supervision(s) ==
    \/ RelayPolled(s) \/ StopSeen(s) \/ ChromiumSeen(s) \/ StopsRelay(s)
    \/ FindsItStopped(s) \/ Ends(s)

SessionStep(s) ==
    \/ StartUp(s) \/ Preparation(s) \/ Launches(s) \/ AutoRotates(s) \/ Supervision(s)
    \/ BrowserExits(s) \/ Interrupted(s) \/ Killed(s)

-----------------------------------------------------------------------------
Next ==
    \/ UserStarts \/ UserStops
    \/ \E p \in Servers : ServerStep(p)
    \/ ProfileStep
    \/ OrphanExits
    \/ \E s \in Sessions : SessionStep(s)

Spec == Init /\ [][Next]_vars

\* The supervisor's two loops and the stop of the relay, whose waits have timeouts.
SupervisionIsFair == \A s \in Sessions : WF_vars(Supervision(s))

FairSpec == Spec /\ SupervisionIsFair

-----------------------------------------------------------------------------
(***************************************************************************)
(* Properties.                                                             *)
(***************************************************************************)

\* Types; and a session that is to exit does not go on to launch a browser.
BrowseTypeOK ==
    /\ server \in [Servers -> ServerStates]
    /\ pidFile \in {Nobody} \cup Servers
    /\ statusFile \in {Nobody} \cup Servers
    /\ profile \in Profiles
    /\ orphan \in BOOLEAN
    /\ session \in [Sessions -> Session]
    /\ \A s \in Sessions :
          session[s].code # Nobody =>
              At(s) \in {"warmupClosing", "warmupStopping", "finishing", "stopping", "ended"}

\* A session that ends, by any of its early returns, after any of its timeouts or by
\* interrupts at any point, leaves none of the relays it has started behind but in
\* its own shutdown: one that is still starting and one whose event loop is blocked
\* included (cli.py:808-829, 1043-1046, browse.py:766-804, 819-837,
\* warmup.py:361-369).
OwnRelaysStopped ==
    \A s \in Sessions :
        At(s) = "ended" => \A p \in Own(s) : server[p] \in {"none", "stopping", "gone"}

\* The port that is checked and given to Chromium is that of the relay the session
\* watches, or the configured one, whatever files earlier servers and sessions that
\* crashed have left, as long as nobody else starts a relay meanwhile
\* (browse.py:698-704, 766-795).
SessionUsesItsRelay ==
    \A s \in Sessions :
        At(s) = "health" /\ session[s].alone =>
            session[s].port \in {session[s].relay, Configured}

\* A warm-up does not take a cookie for a success that was there before it: unless
\* a deletion has failed, the cookie it finds was set after the remediations
\* (profile_rules.py:722-743, warmup.py:224-264).
WarmupEarnsItsCookie ==
    \A s \in Sessions : At(s) = "lingering" => session[s].earned \/ session[s].kept

\* How far the life of a relay in a state has come, in the terms of ServerContract.
Life(state) ==
    CASE state \in {"none", "starting", "checked"} -> "starting"
      [] state \in {"serving", "stuck"} -> "serving"
      [] state = "stopping" -> "stopping"
      [] state \in {"zombie", "gone"} -> "killed"

RelayOf(p) == INSTANCE ServerContract WITH
    life <- Life(server[p]), pid <- pidFile = p, status <- statusFile = p

\* However sessions spawn, stop and orphan them, the relays of a session are servers
\* such as Lifecycle has them: none starts twice, and none names itself in the files
\* but when it begins to serve (cli.py:369-376, browse.py:733-804, pidfile.py:97-113).
RelaysKeepContract == [][\A p \in Servers : [RelayOf(p)!Next]_(RelayOf(p)!vars)]_vars

\* When a relay the session has not started itself is gone, the session ends
\* (browse.py:1037-1044, 985-991).
LostRelayEndsSession ==
    \A s \in Sessions :
        (At(s) = "supervising" /\ server[session[s].relay] = "gone")
            ~> At(s) \in {"ended", "killed"}

\* The reference: "If proxy-relay dies -> kills Chromium, exits with code 1"
\* (docs/reference.md:409).  A relay the session has started is its child, and a
\* child that has died is a process as long as nobody waits for it.
RelayLossClosesBrowser ==
    \A s \in Sessions :
        (At(s) = "supervising" /\ ~Living(session[s].relay)) ~> At(s) # "supervising"

=============================================================================
