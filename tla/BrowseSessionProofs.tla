------------------------- MODULE BrowseSessionProofs -------------------------
(***************************************************************************)
(* Proofs about BrowseSession, for any number of sessions that overlap in  *)
(* any way.                                                                *)
(*                                                                         *)
(* The four invariants rest on one, BrowseInv: what each place of a        *)
(* session says of its two relays (RelaysByPlace), of its exit code        *)
(* (CodeByPlace) and of the cookie (CookieIsNew), and what a session that  *)
(* found nobody else at its start can rely on (AloneInv).                  *)
(***************************************************************************)
EXTENDS BrowseSession, TLAPS


\* What BrowseTypeOK says of each variable.
Types ==
    /\ server \in [Servers -> ServerStates]
    /\ pidFile \in {Nobody} \cup Servers
    /\ statusFile \in {Nobody} \cup Servers
    /\ profile \in Profiles
    /\ orphan \in BOOLEAN
    /\ session \in [Sessions -> Session]

\* A session's two relays are two servers, neither of them the user's.
LEMMA OwnRelays ==
    ASSUME NEW s \in Sessions
    PROVE  /\ Relay(s) \in Servers /\ WarmupRelay(s) \in Servers
           /\ Relay(s) # User /\ WarmupRelay(s) # User /\ Relay(s) # WarmupRelay(s)
           /\ Relay(s)[1] = s /\ WarmupRelay(s)[1] = s
  <1>1. /\ Relay(s) \in Sessions \X {"browse", "warmup"}
        /\ WarmupRelay(s) \in Sessions \X {"browse", "warmup"}
    BY DEF Relay, WarmupRelay
  <1> QED  BY <1>1, BrowseConstants DEF Relay, WarmupRelay, Servers

-----------------------------------------------------------------------------
(***************************************************************************)
(* Types.                                                                  *)
(***************************************************************************)

LEMMA DeadStates ==
    ASSUME NEW p \in Servers
    PROVE  DeadState(p) \in {"zombie", "gone"}
  BY DEF DeadState

LEMMA TerminatedTyped ==
    ASSUME Types, NEW ps
    PROVE  Terminated(ps) \in [Servers -> ServerStates]
  BY DeadStates DEF Types, Terminated, ServerStates

LEMMA OrphanedTyped ==
    ASSUME NEW srv \in [Servers -> ServerStates], NEW s, NEW state \in ServerStates
    PROVE  Orphaned(srv, s, state) \in [Servers -> ServerStates]
  BY DEF Orphaned, ServerStates

LEMMA RecordTyped ==
    ASSUME NEW place \in Places, NEW c \in {Nobody, 0, 1, 130}, NEW tidal \in BOOLEAN
    PROVE  Record(place, c, tidal) \in Session
  BY DEF Record, Session

\* The rules that fail are rules.
LEMMA EvaluateTyped ==
    ASSUME NEW p
    PROVE  EvaluateAll(p) \in SUBSET RuleNames
  <1>1. ASSUME NEW failed \in SUBSET RuleNames, NEW i \in 1..5
        PROVE  Evaluate(p, failed, Rules[i]) \in SUBSET RuleNames
    BY <1>1 DEF Evaluate, RuleNames
  <1> QED  BY <1>1 DEF EvaluateAll

LEMMA ProfilesTyped ==
    ASSUME NEW p \in Profiles
    PROVE  /\ [p EXCEPT !.contents = TRUE] \in Profiles
           /\ [p EXCEPT !.contents = TRUE, !.poisoned = TRUE] \in Profiles
           /\ \A asked, done : Remedied(p, asked, done) \in Profiles
  <1> USE DEF Profiles, Profile, CookieStates, EmptyProfile
  <1>1. CookieDeleted(p) \in Profiles
    BY DEF CookieDeleted, HasCookie
  <1>2. EmptyProfile \in Profiles
    OBVIOUS
  <1>3. [p EXCEPT !.contents = TRUE] \in Profiles
    OBVIOUS
  <1>4. [p EXCEPT !.contents = TRUE, !.poisoned = TRUE] \in Profiles
    OBVIOUS
  <1> HIDE DEF Profiles, Profile, CookieStates, EmptyProfile
  <1> QED  BY <1>1, <1>2, <1>3, <1>4 DEF Remedied

LEMMA FieldsTyped ==
    ASSUME NEW r \in Session
    PROVE  /\ \A x \in Places : [r EXCEPT !.at = x] \in Session
           /\ \A x \in {Nobody} \cup Servers :
                 /\ [r EXCEPT !.relay = x] \in Session
                 /\ [r EXCEPT !.watched = x] \in Session
           /\ \A x \in {Nobody, Configured} \cup Servers : [r EXCEPT !.port = x] \in Session
           /\ \A x \in SUBSET RuleNames : [r EXCEPT !.failed = x] \in Session
           /\ \A x \in {"none", "running", "exited"} : [r EXCEPT !.browser = x] \in Session
           /\ \A x \in {Nobody, 0, 1, 130} : [r EXCEPT !.code = x] \in Session
           /\ \A x \in BOOLEAN :
                 /\ [r EXCEPT !.stopEvent = x] \in Session
                 /\ [r EXCEPT !.alone = x] \in Session
                 /\ [r EXCEPT !.kept = x] \in Session
                 /\ [r EXCEPT !.earned = x] \in Session
  BY DEF Session

\* The types: one step for each field that an action sets.
LEMMA TurnTyped ==
    ASSUME Types, NEW s \in Sessions, NEW r \in Session, session' = [session EXCEPT ![s] = r]
    PROVE  session' \in [Sessions -> Session]
  BY DEF Types

LEMMA StartTypes ==
    ASSUME Types, NEW s \in Sessions, StartUp(s)
    PROVE  Types'
  <1> USE DEF Types, Turns
  <1>s. session[s] \in Session  OBVIOUS
  <1>1. CASE LooksUp(s)
    <2> DEFINE found == Running(pidFile)
               first == /\ \A t \in Sessions \ {s} : ~Active(t)
                        /\ \A p \in Servers : server[p] \notin {"starting", "checked"}
               r == [session[s] EXCEPT !.at = IF found THEN "found" ELSE "absent",
                                       !.relay = IF found THEN pidFile ELSE Nobody,
                                       !.alone = first]
    <2>1. \A f \in BOOLEAN :
             [session[s] EXCEPT !.at = IF found THEN "found" ELSE "absent",
                                !.relay = IF found THEN pidFile ELSE Nobody, !.alone = f] \in Session
      BY <1>s, FieldsTyped DEF Places
    <2>2. r \in Session  BY <2>1
    <2>3. \A t \in Sessions : [session[t] EXCEPT !.alone = FALSE] \in Session
      BY FieldsTyped
    <2>4. session' = [t \in Sessions |->
                         IF t # s THEN [session[t] EXCEPT !.alone = FALSE] ELSE r]
      BY <1>1 DEF LooksUp
    <2>5. UNCHANGED <<server, pidFile, statusFile, profile, orphan>>
      BY <1>1 DEF LooksUp, SessionOnly, serverVars, profileVars
    <2> HIDE DEF r
    <2> QED  BY <2>2, <2>3, <2>4, <2>5
  <1>2. CASE TakesPort(s)
    BY <1>2, <1>s, FieldsTyped DEF TakesPort, Places, SessionOnly, serverVars, profileVars
  <1>3. CASE StartsRelay(s)
    BY <1>3, <1>s, FieldsTyped, OwnRelays
    DEF StartsRelay, Places, SessionOnly, serverVars, profileVars, Spawns, Goes,
        ServerStates
  <1>4. CASE CannotStart(s)
    <2>1. EndRecord(s, "ended", 1) \in Session
      <3>1. session[s].tidal \in BOOLEAN /\ session[s].code \in {Nobody, 0, 1, 130}
        BY <1>s DEF Session
      <3> QED  BY <3>1, RecordTyped DEF EndRecord, Places
    <2> QED  BY <1>4, <2>1 DEF CannotStart, profileVars
  <1>5. CASE RelayReady(s)
    BY <1>5, <1>s, FieldsTyped, OwnRelays
    DEF RelayReady, Places, SessionOnly, serverVars, profileVars, StatusAppears
  <1>6. CASE RelayNotReady(s)
    <2>1. EndRecord(s, "ended", 1) \in Session
      <3>1. session[s].tidal \in BOOLEAN /\ session[s].code \in {Nobody, 0, 1, 130}
        BY <1>s DEF Session
      <3> QED  BY <3>1, RecordTyped DEF EndRecord, Places
    <2>2. server' \in [Servers -> ServerStates]
      BY <1>6, OwnRelays DEF RelayNotReady, WaitFails, ServerStates
    <2> QED
      BY <1>6, <2>1, <2>2
      DEF RelayNotReady, WaitFails, FilesAfterTerm, RemovesFiles, profileVars
  <1>7. CASE HealthCheck(s)
    <2>1. [session[s] EXCEPT !.at = "checked", !.alone = FALSE] \in Session
      BY <1>s, FieldsTyped DEF Places
    <2>2. [session[s] EXCEPT !.at = "finishing", !.code = 1] \in Session
      BY <1>s, FieldsTyped DEF Places
    <2>3. session' \in [Sessions -> Session]
      BY <1>7, <2>1, <2>2 DEF HealthCheck, Finishes
    <2> QED  BY <1>7, <2>3 DEF HealthCheck, SessionOnly, serverVars, profileVars
  <1> QED  BY <1>1, <1>2, <1>3, <1>4, <1>5, <1>6, <1>7 DEF StartUp

LEMMA PreparationTypes ==
    ASSUME Types, NEW s \in Sessions, Preparation(s)
    PROVE  Types'
  <1> USE DEF Types, Turns
  <1>s. session[s] \in Session  OBVIOUS
  <1>1. CASE NoBrowser(s)
    BY <1>1, <1>s, FieldsTyped
    DEF NoBrowser, Places, SessionOnly, serverVars, profileVars, Finishes
  <1>2. CASE Validates(s)
    <2>1. PICK p \in Prepared : Validates(s)!2!(p)
      BY <1>2 DEF Validates
    <2>2. p \in Profiles  BY ProfilesTyped DEF Prepared
    <2>3. (IF session[s].tidal THEN EvaluateAll(p) ELSE {}) \in SUBSET RuleNames
      BY EvaluateTyped
    <2> QED  BY <1>2, <1>s, <2>1, <2>2, <2>3, FieldsTyped DEF Validates, Places, serverVars
  <1>3. CASE ValidationRaises(s)
    BY <1>3, <1>s, FieldsTyped
    DEF ValidationRaises, Places, SessionOnly, serverVars, profileVars
  <1>4. CASE Confirms(s)
    BY <1>4, <1>s, FieldsTyped
    DEF Confirms, Places, SessionOnly, serverVars, profileVars, Goes
  <1>5. CASE Rotates(s)
    <2>1. server' \in [Servers -> ServerStates]
      BY <1>5, DeadStates DEF Rotates, SendsUsr1, ServerStates
    <2> QED
      BY <1>5, <1>s, <2>1, FieldsTyped DEF Rotates, Goes, SendsUsr1, Places, profileVars
  <1>6. CASE Deletes(s)
    <2> DEFINE asked == Remediations(session[s].failed) \ {"rotate_ip"}
    <2>1. PICK done \in SUBSET asked :
             /\ profile' = Remedied(profile, asked, done)
             /\ session' = [session EXCEPT ![s].at = "warmup", ![s].failed = {},
                                           ![s].kept = (done # asked)]
      BY <1>6 DEF Deletes
    <2>2. \A f \in BOOLEAN :
             [session[s] EXCEPT !.at = "warmup", !.failed = {}, !.kept = f] \in Session
      BY <1>s, FieldsTyped DEF Places
    <2> DEFINE kept == (done # asked)
    <2>3. session' = [session EXCEPT ![s] =
                         [session[s] EXCEPT !.at = "warmup", !.failed = {}, !.kept = kept]]
      BY <2>1
    <2>4. kept \in BOOLEAN  OBVIOUS
    <2> HIDE DEF kept
    <2>5. session' \in [Sessions -> Session]  BY <2>2, <2>3, <2>4
    <2> QED  BY <1>6, <2>1, <2>5, ProfilesTyped DEF Deletes, serverVars
  <1>7. CASE WarmupFindsRelay(s)
    BY <1>7, <1>s, FieldsTyped
    DEF WarmupFindsRelay, Places, SessionOnly, serverVars, profileVars, Goes
  <1>8. CASE WarmupStartsRelay(s)
    BY <1>8, <1>s, FieldsTyped, OwnRelays
    DEF WarmupStartsRelay, Places, SessionOnly, serverVars, profileVars, Goes, Spawns,
        ServerStates
  <1>9. CASE WarmupRelayReady(s)
    BY <1>9, <1>s, FieldsTyped
    DEF WarmupRelayReady, Places, SessionOnly, serverVars, profileVars, Goes
  <1>10. CASE WarmupRelayNotReady(s)
    <2>1. server' \in [Servers -> ServerStates]
      BY <1>10, OwnRelays DEF WarmupRelayNotReady, WaitFails, ServerStates
    <2> QED  BY <1>10, <1>s, <2>1, FieldsTyped
             DEF WarmupRelayNotReady, WaitFails, FilesAfterTerm, RemovesFiles, Goes, Places, profileVars
  <1>11. CASE Opens(s)
    <2>1. profile' \in Profiles  BY <1>11, ProfilesTyped DEF Opens, Prepared
    <2>2. /\ [session[s] EXCEPT !.at = "polling", !.browser = Launched] \in Session
          /\ [session[s] EXCEPT !.at = "warmupClosing"] \in Session
      BY <1>s, FieldsTyped DEF Places, Launched
    <2>3. session' \in [Sessions -> Session]
      BY <1>11, <2>2 DEF Opens, Goes
    <2> QED  BY <1>11, <2>1, <2>3 DEF Opens, serverVars
  <1>12. CASE CookieFound(s)
    BY <1>12, <1>s, FieldsTyped
    DEF CookieFound, Places, SessionOnly, serverVars, profileVars
  <1>13. CASE BrowserGone(s)
    BY <1>13, <1>s, FieldsTyped
    DEF BrowserGone, Places, SessionOnly, serverVars, profileVars, Goes
  <1>14. CASE PollTimesOut(s)
    <2>1. profile' \in Profiles  BY <1>14, ProfilesTyped DEF PollTimesOut
    <2> QED  BY <1>14, <1>s, <2>1, FieldsTyped DEF PollTimesOut, Goes, Places, serverVars
  <1>15. CASE LingerEnds(s)
    BY <1>15, <1>s, FieldsTyped
    DEF LingerEnds, Places, SessionOnly, serverVars, profileVars, Goes
  <1>16. CASE WarmupCloses(s)
    <2>1. server' \in [Servers -> ServerStates]
      BY <1>16, TerminatedTyped, OwnRelays DEF WarmupCloses, SendsTerm, ServerStates
    <2>2. /\ pidFile' \in {Nobody} \cup Servers
          /\ statusFile' \in {Nobody} \cup Servers
          /\ orphan' \in BOOLEAN
      BY <1>16 DEF WarmupCloses, SendsTerm, FilesAfterTerm, RemovesFiles, ClosesBrowser
    <2> QED  BY <1>16, <1>s, <2>1, <2>2, FieldsTyped DEF WarmupCloses, AfterWarmup, Places
  <1>17. CASE WarmupStopsRelay(s)
    <2>1. server' \in [Servers -> ServerStates]
      BY <1>17, OwnRelays DEF WarmupStopsRelay, StoppedOrKilled, ServerStates
    <2> QED
      BY <1>17, <1>s, <2>1, FieldsTyped
      DEF WarmupStopsRelay, AfterWarmup, Goes, Places, profileVars
  <1> QED
    BY <1>1, <1>2, <1>3, <1>4, <1>5, <1>6, <1>7, <1>8, <1>9, <1>10, <1>11, <1>12, <1>13,
       <1>14, <1>15, <1>16, <1>17
    DEF Preparation

LEMMA SupervisionTypes ==
    ASSUME Types, NEW s \in Sessions,
           \/ Launches(s) \/ AutoRotates(s) \/ Supervision(s)
           \/ BrowserExits(s) \/ Interrupted(s) \/ Killed(s)
    PROVE  Types'
  <1> USE DEF Types, Turns
  <1>s. session[s] \in Session  OBVIOUS
  <1>1. CASE Launches(s)
    <2>1. /\ [session[s] EXCEPT !.at = "supervising", !.browser = Launched] \in Session
          /\ [session[s] EXCEPT !.at = "finishing", !.code = 1] \in Session
      BY <1>s, FieldsTyped DEF Places, Launched
    <2>2. session' \in [Sessions -> Session]
      BY <1>1, <2>1 DEF Launches, Finishes
    <2> QED  BY <1>1, <2>2 DEF Launches, SessionOnly, serverVars, profileVars
  <1>2. CASE AutoRotates(s)
    <2>1. server' \in [Servers -> ServerStates]
      BY <1>2, DeadStates DEF AutoRotates, SendsUsr1, ServerStates
    <2> QED  BY <1>2, <2>1 DEF AutoRotates, SendsUsr1, profileVars
  <1>3. CASE RelayPolled(s)
    BY <1>3, <1>s, FieldsTyped DEF RelayPolled, Places, SessionOnly, serverVars, profileVars
  <1>4. CASE StopSeen(s)
    BY <1>4, <1>s, FieldsTyped
    DEF StopSeen, Places, SessionOnly, serverVars, profileVars, ClosesBrowser
  <1>5. CASE ChromiumSeen(s)
    BY <1>5, <1>s, FieldsTyped
    DEF ChromiumSeen, Places, SessionOnly, serverVars, profileVars
  <1>6. CASE StopsRelay(s)
    <2>1. server' \in [Servers -> ServerStates]
      BY <1>6, TerminatedTyped DEF StopsRelay
    <2> QED  BY <1>6, <1>s, <2>1, FieldsTyped
             DEF StopsRelay, FilesAfterTerm, RemovesFiles, Goes, Places, profileVars
  <1>7. CASE FindsItStopped(s)
    <2>1. /\ server' \in [Servers -> ServerStates]
          /\ UNCHANGED <<pidFile, statusFile, profile, orphan>>
      BY <1>7, OwnRelays, OrphanedTyped
      DEF FindsItStopped, SessionEnds, StoppedOrKilled, ServerStates, profileVars
    <2>2. EndRecord(s, "ended", session[s].code) \in Session
      <3>1. session[s].tidal \in BOOLEAN /\ session[s].code \in {Nobody, 0, 1, 130}
        BY <1>s DEF Session
      <3> QED  BY <3>1, RecordTyped DEF EndRecord, Places
    <2> QED  BY <1>7, <2>1, <2>2 DEF FindsItStopped, SessionEnds
  <1>8. CASE Ends(s)
    <2>1. /\ server' \in [Servers -> ServerStates]
          /\ UNCHANGED <<pidFile, statusFile, profile, orphan>>
      BY <1>8, OwnRelays, OrphanedTyped
      DEF Ends, SessionEnds, StoppedOrKilled, ServerStates, profileVars
    <2>2. EndRecord(s, "ended", session[s].code) \in Session
      <3>1. session[s].tidal \in BOOLEAN /\ session[s].code \in {Nobody, 0, 1, 130}
        BY <1>s DEF Session
      <3> QED  BY <3>1, RecordTyped DEF EndRecord, Places
    <2> QED  BY <1>8, <2>1, <2>2 DEF Ends, SessionEnds
  <1>9. CASE BrowserExits(s)
    BY <1>9, <1>s, FieldsTyped
    DEF BrowserExits, Places, SessionOnly, serverVars, profileVars
  <1>10. CASE Interrupted(s)
    <2>1. Terminated(Own(s)) \in [Servers -> ServerStates]  BY TerminatedTyped
    <2>2. server' \in [Servers -> ServerStates]
      BY <1>10, <2>1, OrphanedTyped DEF Interrupted, ServerStates
    <2>3. EndRecord(s, "ended", 130) \in Session
      <3>1. session[s].tidal \in BOOLEAN  BY <1>s DEF Session
      <3> QED  BY <3>1, RecordTyped DEF EndRecord, Places
    <2>4. \A place \in {"warmupClosing", "finishing"}, c \in {1, 130} :
             [session[s] EXCEPT !.at = place, !.browser = "none", !.failed = {}, !.code = c] \in Session
      BY <1>s, FieldsTyped DEF Places
    <2>5. \/ session' = [session EXCEPT ![s] = EndRecord(s, "ended", 130)]
          \/ \E place \in {"warmupClosing", "finishing"}, c \in {1, 130} :
                session' = [session EXCEPT ![s] =
                   [session[s] EXCEPT !.at = place, !.browser = "none", !.failed = {}, !.code = c]]
      BY <1>10 DEF Interrupted
    <2>6. session' \in [Sessions -> Session]
      BY <2>3, <2>4, <2>5
    <2> QED  BY <1>10, <2>2, <2>6 DEF Interrupted, FilesAfterTerm, RemovesFiles, profileVars
  <1>11. CASE Killed(s)
    <2>1. server' \in [Servers -> ServerStates]
      BY <1>11, OrphanedTyped DEF Killed, ServerStates
    <2>2. EndRecord(s, "killed", Nobody) \in Session
      <3>1. session[s].tidal \in BOOLEAN  BY <1>s DEF Session
      <3> QED  BY <3>1, RecordTyped DEF EndRecord, Places
    <2>3. orphan' \in BOOLEAN  BY <1>11 DEF Killed
    <2> QED  BY <1>11, <2>1, <2>2, <2>3 DEF Killed
  <1> QED
    BY <1>1, <1>2, <1>3, <1>4, <1>5, <1>6, <1>7, <1>8, <1>9, <1>10, <1>11 DEF Supervision

LEMMA OtherTypes ==
    ASSUME Types,
           \/ UserStarts \/ UserStops \/ ProfileStep \/ OrphanExits
           \/ \E p \in Servers : ServerStep(p)
    PROVE  Types'
  <1> USE DEF Types, Turns
  <1> USE DEF serverVars, profileVars, ServerTurns, RemovesFiles
  <1>1. CASE UserStarts
    <2>1. \A t \in Sessions : [session[t] EXCEPT !.alone = FALSE] \in Session
      BY FieldsTyped
    <2> QED  BY <1>1, <2>1 DEF UserStarts, ServerStates, Servers
  <1>2. CASE UserStops
    BY <1>2 DEF UserStops, ServerStates
  <1>3. ASSUME NEW p \in Servers, ServerStep(p)  PROVE Types'
    BY <1>3, DeadStates
    DEF ServerStep, ChecksPid, Listens, Dies, LogFillsPipe, Exits, ServerStates
  <1>4. CASE ProfileStep
    <2>1. ASSUME SetsCookie  PROVE Types'
      <3>1. \A t \in Sessions, f \in BOOLEAN : [session[t] EXCEPT !.earned = f] \in Session
        BY FieldsTyped
      <3> QED  BY <2>1, <3>1 DEF SetsCookie, Profiles, Profile, CookieStates, EmptyProfile
    <2>2. ASSUME NEW p \in Profiles, ProfileTurns(p)  PROVE Types'
      BY <2>2 DEF ProfileTurns
    <2>3. \A p \in Profiles :
             [p EXCEPT !.contents = TRUE, !.cookies = "bare"] \in Profiles
      BY DEF Profiles, Profile, CookieStates, EmptyProfile
    <2>4. ASSUME profile.cookies # "none", NEW c \in CookieStates
          PROVE  [profile EXCEPT !.cookies = c] \in Profiles
      <3>1. profile \in Profile /\ profile.contents
        BY <2>4 DEF Profiles, EmptyProfile
      <3> QED  BY <3>1 DEF Profiles, Profile
    <2>5. EmptyProfile \in Profiles
      BY DEF Profiles, Profile, CookieStates, EmptyProfile
    <2>6. {"expired", "corrupt"} \subseteq CookieStates  BY DEF CookieStates
    <2> QED
      BY <1>4, <2>1, <2>2, <2>3, <2>4, <2>5, <2>6
      DEF ProfileStep, LosesCookie, CookieExpires, DatabaseCorrupted, ProfileCleaned
  <1>5. CASE OrphanExits
    BY <1>5 DEF OrphanExits
  <1> QED  BY <1>1, <1>2, <1>3, <1>4, <1>5

LEMMA TypesKept ==
    ASSUME Types, [Next]_vars
    PROVE  Types'
  <1>1. CASE UNCHANGED vars
    BY <1>1 DEF Types, vars, serverVars, profileVars
  <1> QED
    BY <1>1, StartTypes, PreparationTypes, SupervisionTypes, OtherTypes
    DEF Next, SessionStep

-----------------------------------------------------------------------------
(***************************************************************************)
(* The invariant.                                                          *)
(***************************************************************************)

\* The status file is that of the server which wrote the PID file, or is gone.
FilesAgree == statusFile \in {Nobody, pidFile}

\* Where a session is tells how far the relays it starts can be.
RelaysByPlace(s) ==
    /\ At(s) \in {"none", "found", "absent"} => server[Relay(s)] = "none"
    /\ At(s) \in {"none", "found", "absent", "waiting", "health", "checked", "asking",
                  "rotating", "deleting", "warmup"} => server[WarmupRelay(s)] = "none"
    /\ At(s) \in {"launching", "supervising"} => server[WarmupRelay(s)] \in {"none", "gone"}
    /\ At(s) \in {"finishing", "stopping"} =>
          server[WarmupRelay(s)] \in {"none", "stuck", "stopping", "zombie", "gone"}
    /\ At(s) = "ended" => \A p \in Own(s) : server[p] \in {"none", "stopping", "gone"}

\* A session that knows its exit code is on its way out; an interrupted warm-up
\* is the one place that has one before its cleanup is over.
CodeByPlace(s) ==
    /\ session[s].code # Nobody =>
          At(s) \in {"warmupClosing", "warmupStopping", "finishing", "stopping", "ended"}
    /\ At(s) \in {"warmupClosing", "warmupStopping"} => session[s].code \in {Nobody, 130}

\* From a failed rule to the end of the warm-up: what has to be deleted is known, and
\* once it was deleted a cookie is one that was set since.
CookieIsNew(s) ==
    /\ At(s) \in {"asking", "rotating", "deleting"} => session[s].failed # {}
    /\ At(s) \in {"warmup", "warmupWaiting", "opening", "polling"} =>
          session[s].kept \/ session[s].earned \/ ~HasCookie(profile)
    /\ At(s) = "lingering" => session[s].earned \/ session[s].kept

PlaceInv(s) == RelaysByPlace(s) /\ CodeByPlace(s) /\ CookieIsNew(s)

\* A session that found nobody else starting a relay is the only one under way, and
\* until it has checked its port the files are its relay's.
AloneInv(s) ==
    session[s].alone /\ At(s) \in {"found", "absent", "waiting", "health"} =>
        /\ \A t \in Sessions \ {s} : ~Active(t)
        /\ \A p \in Servers :
              server[p] \in {"starting", "checked"} =>
                  p = Relay(s) /\ At(s) \in {"waiting", "health"}
        /\ At(s) = "found" => session[s].relay # Nobody /\ statusFile \in {Nobody, session[s].relay}
        /\ At(s) = "waiting" => statusFile \in {Nobody, Relay(s)}
        /\ At(s) = "health" => session[s].port \in {session[s].relay, Configured}

Inv == FilesAgree /\ \A s \in Sessions : PlaceInv(s) /\ AloneInv(s)

BrowseInv == Types /\ Inv

\* What others may do to a session's relays: end them, or stop them.
Advance(t) ==
    \A p \in Own(t) :
        server'[p] # server[p] =>
            /\ server[p] \notin {"none", "gone"}
            /\ server'[p] # "none"
            /\ server[p] \in {"stuck", "stopping", "zombie"} => server'[p] \in {"zombie", "gone"}
            /\ ~Active(t) /\ server[p] = "stopping" => server'[p] = "gone"

\* The session stays where it is and, if it waits for a new cookie, no old one appears.
SameTurn(t) ==
    /\ At(t)' = At(t)
    /\ session'[t].code = session[t].code
    /\ session'[t].failed = session[t].failed
    /\ session'[t].kept = session[t].kept
    /\ session[t].earned => session'[t].earned
    /\ HasCookie(profile)' /\ InWarmup(t) => HasCookie(profile) \/ session'[t].earned

\* The parts about places survive what others do.
LEMMA PlaceKept ==
    ASSUME NEW t \in Sessions, PlaceInv(t), Advance(t), SameTurn(t)
    PROVE  PlaceInv(t)'
  <1>1. Relay(t) \in Own(t) /\ WarmupRelay(t) \in Own(t) /\ Own(t)' = Own(t)  BY DEF Own
  <1>2. RelaysByPlace(t)'
    BY <1>1 DEF PlaceInv, RelaysByPlace, Advance, SameTurn, Active, At
  <1>3. CodeByPlace(t)'  BY DEF PlaceInv, CodeByPlace, SameTurn, At
  <1>4. CookieIsNew(t)'  BY DEF PlaceInv, CookieIsNew, SameTurn, At, InWarmup
  <1> QED  BY <1>2, <1>3, <1>4 DEF PlaceInv

\* A session's step concerns that session alone, the others were not under way or
\* did not rely on being alone.
LEMMA SessionActs ==
    ASSUME Inv, NEW s \in Sessions, Active(s),
           \A t \in Sessions \ {s} : session'[t] = session[t] /\ Advance(t),
           HasCookie(profile)' => HasCookie(profile),
           FilesAgree', PlaceInv(s)', AloneInv(s)'
    PROVE  Inv'
  <1>1. ASSUME NEW t \in Sessions, t # s
        PROVE  PlaceInv(t)' /\ AloneInv(t)'
    <2>1. SameTurn(t)  BY <1>1 DEF SameTurn, At
    <2>2. PlaceInv(t)'  BY <1>1, <2>1, PlaceKept DEF Inv
    <2>3. AloneInv(t)'  BY <1>1 DEF Inv, AloneInv, At
    <2> QED  BY <2>2, <2>3
  <1> QED  BY <1>1 DEF Inv

\* The steps that change only the session.
LEMMA SessionOnlyInv ==
    ASSUME BrowseInv, NEW s \in Sessions,
           \/ TakesPort(s) \/ RelayReady(s) \/ HealthCheck(s) \/ NoBrowser(s)
           \/ ValidationRaises(s) \/ Confirms(s) \/ WarmupFindsRelay(s) \/ WarmupRelayReady(s)
           \/ CookieFound(s) \/ BrowserGone(s) \/ LingerEnds(s) \/ Launches(s)
           \/ RelayPolled(s) \/ ChromiumSeen(s)
    PROVE  Inv'
  <1> USE DEF BrowseInv, Turns
  <1>s. session[s] \in Session /\ PlaceInv(s) /\ AloneInv(s) /\ FilesAgree
    BY DEF Types, Inv
  <1>u. ASSUME SessionOnly, Active(s), \A t \in Sessions \ {s} : session'[t] = session[t],
               PlaceInv(s)', AloneInv(s)'
        PROVE  Inv'
    <2>1. \A t \in Sessions : Advance(t)
      BY <1>u DEF SessionOnly, serverVars, Advance
    <2> QED
      BY <1>u, <1>s, <2>1, SessionActs DEF SessionOnly, serverVars, profileVars, FilesAgree
  <1>1. CASE TakesPort(s)
    <2>1. Active(s) /\ \A t \in Sessions \ {s} : session'[t] = session[t]
      BY <1>1 DEF Types, TakesPort, Active, At
    <2>2. UNCHANGED <<server, pidFile, statusFile, profile>>
      BY <1>1 DEF TakesPort, SessionOnly, serverVars, profileVars
    <2>3. PlaceInv(s)'
      BY <1>1, <1>s, <2>2
      DEF TakesPort, PlaceInv, RelaysByPlace, CodeByPlace, CookieIsNew, Own, At, Types,
          Session
    <2>4. AloneInv(s)'
      BY <1>1, <1>s, <2>1, <2>2
      DEF TakesPort, AloneInv, Active, At, Types, Session, FilesAgree
    <2> QED  BY <1>u, <1>1, <2>1, <2>3, <2>4 DEF TakesPort
  <1>2. CASE RelayReady(s)
    <2>1. Active(s) /\ \A t \in Sessions \ {s} : session'[t] = session[t]
      BY <1>2 DEF Types, RelayReady, StatusAppears, Active, At
    <2>2. UNCHANGED <<server, pidFile, statusFile, profile>>
      BY <1>2 DEF RelayReady, SessionOnly, serverVars, profileVars
    <2>3. PlaceInv(s)'
      BY <1>2, <1>s, <2>2
      DEF RelayReady, StatusAppears, PlaceInv, RelaysByPlace, CodeByPlace, CookieIsNew, Own,
          At, Types, Session
    <2>4. AloneInv(s)'
      BY <1>2, <1>s, <2>1, <2>2
      DEF RelayReady, StatusAppears, AloneInv, Active, At, Types, Session, FilesAgree
    <2> QED  BY <1>u, <1>2, <2>1, <2>3, <2>4 DEF RelayReady
  <1>3. CASE HealthCheck(s)
    <2>1. Active(s) /\ \A t \in Sessions \ {s} : session'[t] = session[t]
      BY <1>3 DEF Types, HealthCheck, Finishes, Active, At
    <2>2. UNCHANGED <<server, pidFile, statusFile, profile>>
      BY <1>3 DEF HealthCheck, SessionOnly, serverVars, profileVars
    <2>3. CASE Turns(s, [session[s] EXCEPT !.at = "checked", !.alone = FALSE])
      <3>1. PlaceInv(s)' /\ AloneInv(s)'
        BY <1>3, <1>s, <2>2, <2>3
        DEF HealthCheck, PlaceInv, RelaysByPlace, CodeByPlace, CookieIsNew, AloneInv, Own,
            Active, At, Types, Session
      <3> QED  BY <1>u, <1>3, <2>1, <3>1 DEF HealthCheck
    <2>4. CASE Finishes(s, 1)
      <3>1. PlaceInv(s)' /\ AloneInv(s)'
        BY <1>3, <1>s, <2>2, <2>4
        DEF HealthCheck, Finishes, PlaceInv, RelaysByPlace, CodeByPlace, CookieIsNew,
            AloneInv, Own, Active, At, Types, Session
      <3> QED  BY <1>u, <1>3, <2>1, <3>1 DEF HealthCheck
    <2> QED  BY <1>3, <2>3, <2>4 DEF HealthCheck
  <1>4. CASE NoBrowser(s)
    <2>1. Active(s) /\ \A t \in Sessions \ {s} : session'[t] = session[t]
      BY <1>4 DEF Types, NoBrowser, Finishes, Active, At
    <2>2. UNCHANGED <<server, pidFile, statusFile, profile>>
      BY <1>4 DEF NoBrowser, SessionOnly, serverVars, profileVars
    <2>3. PlaceInv(s)'
      BY <1>4, <1>s, <2>2
      DEF NoBrowser, Finishes, PlaceInv, RelaysByPlace, CodeByPlace, CookieIsNew, Own, At,
          Types, Session
    <2>4. AloneInv(s)'
      BY <1>4, <1>s, <2>1, <2>2
      DEF NoBrowser, Finishes, AloneInv, Active, At, Types, Session, FilesAgree
    <2> QED  BY <1>u, <1>4, <2>1, <2>3, <2>4 DEF NoBrowser
  <1>5. CASE ValidationRaises(s)
    <2>1. Active(s) /\ \A t \in Sessions \ {s} : session'[t] = session[t]
      BY <1>5 DEF Types, ValidationRaises, Active, At
    <2>2. UNCHANGED <<server, pidFile, statusFile, profile>>
      BY <1>5 DEF ValidationRaises, SessionOnly, serverVars, profileVars
    <2>3. PlaceInv(s)'
      BY <1>5, <1>s, <2>2
      DEF ValidationRaises, PlaceInv, RelaysByPlace, CodeByPlace, CookieIsNew, Own, At,
          Types, Session
    <2>4. AloneInv(s)'
      BY <1>5, <1>s, <2>1, <2>2
      DEF ValidationRaises, AloneInv, Active, At, Types, Session, FilesAgree
    <2> QED  BY <1>u, <1>5, <2>1, <2>3, <2>4 DEF ValidationRaises
  <1>6. CASE Confirms(s)
    <2>1. Active(s) /\ \A t \in Sessions \ {s} : session'[t] = session[t]
      BY <1>6 DEF Types, Confirms, Goes, Active, At
    <2>2. UNCHANGED <<server, pidFile, statusFile, profile>>
      BY <1>6 DEF Confirms, SessionOnly, serverVars, profileVars
    <2>3. PlaceInv(s)'
      BY <1>6, <1>s, <2>2
      DEF Confirms, Goes, PlaceInv, RelaysByPlace, CodeByPlace, CookieIsNew, Own, At, Types,
          Session
    <2>4. AloneInv(s)'
      BY <1>6, <1>s, <2>1, <2>2
      DEF Confirms, Goes, AloneInv, Active, At, Types, Session, FilesAgree
    <2> QED  BY <1>u, <1>6, <2>1, <2>3, <2>4 DEF Confirms
  <1>7. CASE WarmupFindsRelay(s)
    <2>1. Active(s) /\ \A t \in Sessions \ {s} : session'[t] = session[t]
      BY <1>7 DEF Types, WarmupFindsRelay, Goes, Active, At
    <2>2. UNCHANGED <<server, pidFile, statusFile, profile>>
      BY <1>7 DEF WarmupFindsRelay, SessionOnly, serverVars, profileVars
    <2>3. PlaceInv(s)'
      BY <1>7, <1>s, <2>2
      DEF WarmupFindsRelay, Goes, PlaceInv, RelaysByPlace, CodeByPlace, CookieIsNew, Own,
          At, Types, Session
    <2>4. AloneInv(s)'
      BY <1>7, <1>s, <2>1, <2>2
      DEF WarmupFindsRelay, Goes, AloneInv, Active, At, Types, Session, FilesAgree
    <2> QED  BY <1>u, <1>7, <2>1, <2>3, <2>4 DEF WarmupFindsRelay
  <1>8. CASE WarmupRelayReady(s)
    <2>1. Active(s) /\ \A t \in Sessions \ {s} : session'[t] = session[t]
      BY <1>8 DEF Types, WarmupRelayReady, Goes, Active, At
    <2>2. UNCHANGED <<server, pidFile, statusFile, profile>>
      BY <1>8 DEF WarmupRelayReady, SessionOnly, serverVars, profileVars
    <2>3. PlaceInv(s)'
      BY <1>8, <1>s, <2>2
      DEF WarmupRelayReady, Goes, PlaceInv, RelaysByPlace, CodeByPlace, CookieIsNew, Own,
          At, Types, Session
    <2>4. AloneInv(s)'
      BY <1>8, <1>s, <2>1, <2>2
      DEF WarmupRelayReady, Goes, AloneInv, Active, At, Types, Session, FilesAgree
    <2> QED  BY <1>u, <1>8, <2>1, <2>3, <2>4 DEF WarmupRelayReady
  <1>9. CASE CookieFound(s)
    <2>1. Active(s) /\ \A t \in Sessions \ {s} : session'[t] = session[t]
      BY <1>9 DEF Types, CookieFound, Active, At
    <2>2. UNCHANGED <<server, pidFile, statusFile, profile>>
      BY <1>9 DEF CookieFound, SessionOnly, serverVars, profileVars
    <2>3. PlaceInv(s)'
      BY <1>9, <1>s, <2>2
      DEF CookieFound, PlaceInv, RelaysByPlace, CodeByPlace, CookieIsNew, Own, At, Types,
          Session
    <2>4. AloneInv(s)'
      BY <1>9, <1>s, <2>1, <2>2
      DEF CookieFound, AloneInv, Active, At, Types, Session, FilesAgree
    <2> QED  BY <1>u, <1>9, <2>1, <2>3, <2>4 DEF CookieFound
  <1>10. CASE BrowserGone(s)
    <2>1. Active(s) /\ \A t \in Sessions \ {s} : session'[t] = session[t]
      BY <1>10 DEF Types, BrowserGone, Goes, Active, At
    <2>2. UNCHANGED <<server, pidFile, statusFile, profile>>
      BY <1>10 DEF BrowserGone, SessionOnly, serverVars, profileVars
    <2>3. PlaceInv(s)'
      BY <1>10, <1>s, <2>2
      DEF BrowserGone, Goes, PlaceInv, RelaysByPlace, CodeByPlace, CookieIsNew, Own, At,
          Types, Session
    <2>4. AloneInv(s)'
      BY <1>10, <1>s, <2>1, <2>2
      DEF BrowserGone, Goes, AloneInv, Active, At, Types, Session, FilesAgree
    <2> QED  BY <1>u, <1>10, <2>1, <2>3, <2>4 DEF BrowserGone
  <1>11. CASE LingerEnds(s)
    <2>1. Active(s) /\ \A t \in Sessions \ {s} : session'[t] = session[t]
      BY <1>11 DEF Types, LingerEnds, Goes, Active, At
    <2>2. UNCHANGED <<server, pidFile, statusFile, profile>>
      BY <1>11 DEF LingerEnds, SessionOnly, serverVars, profileVars
    <2>3. PlaceInv(s)'
      BY <1>11, <1>s, <2>2
      DEF LingerEnds, Goes, PlaceInv, RelaysByPlace, CodeByPlace, CookieIsNew, Own, At,
          Types, Session
    <2>4. AloneInv(s)'
      BY <1>11, <1>s, <2>1, <2>2
      DEF LingerEnds, Goes, AloneInv, Active, At, Types, Session, FilesAgree
    <2> QED  BY <1>u, <1>11, <2>1, <2>3, <2>4 DEF LingerEnds
  <1>12. CASE Launches(s)
    <2>1. Active(s) /\ \A t \in Sessions \ {s} : session'[t] = session[t]
      BY <1>12 DEF Types, Launches, Finishes, Active, At
    <2>2. UNCHANGED <<server, pidFile, statusFile, profile>>
      BY <1>12 DEF Launches, SessionOnly, serverVars, profileVars
    <2>3. CASE Turns(s, [session[s] EXCEPT !.at = "supervising", !.browser = Launched])
      <3>1. PlaceInv(s)' /\ AloneInv(s)'
        BY <1>12, <1>s, <2>2, <2>3
        DEF Launches, PlaceInv, RelaysByPlace, CodeByPlace, CookieIsNew, AloneInv, Own,
            Active, At, Types, Session
      <3> QED  BY <1>u, <1>12, <2>1, <3>1 DEF Launches
    <2>4. CASE Finishes(s, 1)
      <3>1. PlaceInv(s)' /\ AloneInv(s)'
        BY <1>12, <1>s, <2>2, <2>4
        DEF Launches, Finishes, PlaceInv, RelaysByPlace, CodeByPlace, CookieIsNew, AloneInv,
            Own, Active, At, Types, Session
      <3> QED  BY <1>u, <1>12, <2>1, <3>1 DEF Launches
    <2> QED  BY <1>12, <2>3, <2>4 DEF Launches
  <1>13. CASE RelayPolled(s)
    <2>1. Active(s) /\ \A t \in Sessions \ {s} : session'[t] = session[t]
      BY <1>13 DEF Types, RelayPolled, Active, At
    <2>2. UNCHANGED <<server, pidFile, statusFile, profile>>
      BY <1>13 DEF RelayPolled, SessionOnly, serverVars, profileVars
    <2>3. PlaceInv(s)'
      BY <1>13, <1>s, <2>2
      DEF RelayPolled, PlaceInv, RelaysByPlace, CodeByPlace, CookieIsNew, Own, At, Types,
          Session
    <2>4. AloneInv(s)'
      BY <1>13, <1>s, <2>1, <2>2
      DEF RelayPolled, AloneInv, Active, At, Types, Session, FilesAgree
    <2> QED  BY <1>u, <1>13, <2>1, <2>3, <2>4 DEF RelayPolled
  <1>14. CASE ChromiumSeen(s)
    <2>1. Active(s) /\ \A t \in Sessions \ {s} : session'[t] = session[t]
      BY <1>14 DEF Types, ChromiumSeen, Active, At
    <2>2. UNCHANGED <<server, pidFile, statusFile, profile>>
      BY <1>14 DEF ChromiumSeen, SessionOnly, serverVars, profileVars
    <2>3. PlaceInv(s)'
      BY <1>14, <1>s, <2>2
      DEF ChromiumSeen, PlaceInv, RelaysByPlace, CodeByPlace, CookieIsNew, Own, At, Types,
          Session
    <2>4. AloneInv(s)'
      BY <1>14, <1>s, <2>1, <2>2
      DEF ChromiumSeen, AloneInv, Active, At, Types, Session, FilesAgree
    <2> QED  BY <1>u, <1>14, <2>1, <2>3, <2>4 DEF ChromiumSeen
  <1> QED
    BY <1>1, <1>2, <1>3, <1>4, <1>5, <1>6, <1>7, <1>8, <1>9, <1>10, <1>11, <1>12, <1>13,
       <1>14

LEMMA OthersRelays ==
    ASSUME NEW s \in Sessions, NEW t \in Sessions, s # t
    PROVE  Own(t) \subseteq Servers \ Own(s)
  BY OwnRelays DEF Own

\* Whatever rule has failed, the deletions that follow leave no datadome cookie.
LEMMA DeletionsSuffice ==
    ASSUME NEW failed \in SUBSET RuleNames, failed # {}, NEW p \in Profiles,
           NEW asked, asked = Remediations(failed) \ {"rotate_ip"}
    PROVE  ~HasCookie(Remedied(p, asked, asked))
  <1>1. "delete_cookie" \in asked \/ "delete_profile" \in asked
    BY DEF Remediations, RuleNames, Rules
  <1>2. ~HasCookie(CookieDeleted(p)) /\ ~HasCookie(EmptyProfile)
    BY DEF HasCookie, CookieDeleted, EmptyProfile, Profiles, Profile
  <1> QED  BY <1>1, <1>2 DEF Remedied

LEMMA DeletionsAddNone ==
    ASSUME NEW p \in Profiles, NEW asked, NEW done, ~HasCookie(p)
    PROVE  ~HasCookie(Remedied(p, asked, done))
  BY DEF HasCookie, CookieDeleted, EmptyProfile, Profiles, Profile, Remedied

\* The steps that also change relays, files or the browser profile.
LEMMA OtherSessionInv ==
    ASSUME BrowseInv, NEW s \in Sessions,
           \/ StartsRelay(s) \/ CannotStart(s) \/ RelayNotReady(s) \/ Validates(s)
           \/ Rotates(s) \/ Deletes(s) \/ WarmupStartsRelay(s) \/ WarmupRelayNotReady(s)
           \/ Opens(s) \/ PollTimesOut(s) \/ WarmupCloses(s) \/ WarmupStopsRelay(s)
           \/ AutoRotates(s) \/ StopSeen(s) \/ StopsRelay(s) \/ FindsItStopped(s)
           \/ Ends(s) \/ Interrupted(s) \/ Killed(s)
    PROVE  Inv'
  <1> USE DEF BrowseInv, Turns
  <1>s. session[s] \in Session /\ PlaceInv(s) /\ AloneInv(s) /\ FilesAgree
    BY DEF Types, Inv
  <1>o. Relay(s) \in Servers /\ WarmupRelay(s) \in Servers /\ Relay(s) # WarmupRelay(s)
       /\ Relay(s) # Nobody /\ WarmupRelay(s) # Nobody
    BY OwnRelays, BrowseConstants
  <1>u. ASSUME Active(s), \A t \in Sessions \ {s} : session'[t] = session[t],
               \A p \in Servers \ Own(s) : server'[p] = server[p],
               HasCookie(profile)' => HasCookie(profile), FilesAgree', PlaceInv(s)', AloneInv(s)'
        PROVE  Inv'
    <2>1. \A t \in Sessions \ {s} : Advance(t)
      BY <1>u, OthersRelays DEF Advance
    <2> QED  BY <1>u, <2>1, SessionActs
  <1>v. ASSUME SendsUsr1(session[s].relay)
        PROVE  /\ \A t \in Sessions : Advance(t)
               /\ UNCHANGED <<pidFile, statusFile, profile>>
               /\ server[WarmupRelay(s)] \in {"none", "gone"} =>
                     server'[WarmupRelay(s)] = server[WarmupRelay(s)]
    <2>1. \A t \in Sessions : Own(t) \subseteq Servers  BY OwnRelays DEF Own
    <2> DEFINE q == session[s].relay
    <2>2. \A p \in Servers :
             server'[p] # server[p] =>
                server[p] \in {"starting", "checked"} /\ server'[p] \in {"zombie", "gone"}
      <3>1. CASE q \in Servers
        <4>1. DeadState(q) \in {"zombie", "gone"}  BY <3>1, DeadStates
        <4> QED  BY <1>v, <3>1, <4>1 DEF SendsUsr1, Types
      <3>2. CASE q \notin Servers
        BY <1>v, <3>2 DEF SendsUsr1, Types
      <3> QED  BY <3>1, <3>2
    <2>3. UNCHANGED <<pidFile, statusFile, profile>>
      BY <1>v DEF SendsUsr1, profileVars
    <2>4. server[WarmupRelay(s)] \in {"none", "gone"} =>
             server'[WarmupRelay(s)] = server[WarmupRelay(s)]
      BY <2>2, <1>o
    <2>5. \A t \in Sessions : Advance(t)
      BY <2>1, <2>2 DEF Advance
    <2> QED  BY <2>3, <2>4, <2>5
  <1>1. CASE StartsRelay(s)
    <2>1. Active(s) /\ \A t \in Sessions \ {s} : session'[t] = session[t]
      BY <1>1 DEF Types, StartsRelay, Spawns, Goes, Active, At
    <2>2. \A p \in Servers \ Own(s) : server'[p] = server[p]
      BY <1>1 DEF StartsRelay, Spawns, Own, Types, serverVars
    <2>3. HasCookie(profile)' => HasCookie(profile)
      BY <1>1 DEF StartsRelay, Spawns, profileVars
    <2>4. FilesAgree'
      BY <1>1, <1>s DEF StartsRelay, Spawns, FilesAgree, RemovesFiles, serverVars
    <2>5. PlaceInv(s)'
      <3>1. RelaysByPlace(s)'
        BY <1>1, <1>s, <1>o
        DEF StartsRelay, Spawns, Goes, Spawns, PlaceInv, RelaysByPlace, Own, At, Types,
            serverVars, Session
      <3>2. CodeByPlace(s)'
        BY <1>1, <1>s
        DEF StartsRelay, Spawns, Goes, PlaceInv, CodeByPlace, At, Types, Session
      <3>3. CookieIsNew(s)'
        BY <1>1, <1>s, <2>3
        DEF StartsRelay, Spawns, Goes, PlaceInv, CookieIsNew, At, Types, Session
      <3> QED  BY <3>1, <3>2, <3>3 DEF PlaceInv
    <2>6. AloneInv(s)'
      BY <1>1, <1>s, <1>o, <2>1
      DEF StartsRelay, Spawns, Goes, AloneInv, Active, At, Types, Session
    <2> QED  BY <1>u, <2>1, <2>2, <2>3, <2>4, <2>5, <2>6
  <1>2. CASE CannotStart(s)
    <2>1. Active(s) /\ \A t \in Sessions \ {s} : session'[t] = session[t]
      BY <1>2 DEF Types, CannotStart, EndRecord, Record, Active, At
    <2>2. \A p \in Servers \ Own(s) : server'[p] = server[p]
      BY <1>2 DEF CannotStart, Own, Types, serverVars
    <2>3. HasCookie(profile)' => HasCookie(profile)
      BY <1>2 DEF CannotStart, profileVars
    <2>4. FilesAgree'
      BY <1>2, <1>s DEF CannotStart, FilesAgree, RemovesFiles, serverVars
    <2>5. PlaceInv(s)'
      <3>1. RelaysByPlace(s)'
        BY <1>2, <1>s, <1>o
        DEF CannotStart, EndRecord, Record, PlaceInv, RelaysByPlace, Own, At, Types,
            serverVars, Session
      <3>2. CodeByPlace(s)'
        BY <1>2, <1>s
        DEF CannotStart, EndRecord, Record, PlaceInv, CodeByPlace, At, Types, Session
      <3>3. CookieIsNew(s)'
        BY <1>2, <1>s, <2>3
        DEF CannotStart, EndRecord, Record, PlaceInv, CookieIsNew, At, Types, Session
      <3> QED  BY <3>1, <3>2, <3>3 DEF PlaceInv
    <2>6. AloneInv(s)'
      BY <1>2, <1>s, <1>o, <2>1
      DEF CannotStart, EndRecord, Record, AloneInv, Active, At, Types, Session
    <2> QED  BY <1>u, <2>1, <2>2, <2>3, <2>4, <2>5, <2>6
  <1>3. CASE RelayNotReady(s)
    <2>1. Active(s) /\ \A t \in Sessions \ {s} : session'[t] = session[t]
      BY <1>3 DEF Types, RelayNotReady, EndRecord, Record, Active, At
    <2>2. \A p \in Servers \ Own(s) : server'[p] = server[p]
      BY <1>3 DEF RelayNotReady, WaitFails, Own, Types, serverVars
    <2>3. HasCookie(profile)' => HasCookie(profile)
      BY <1>3 DEF RelayNotReady, WaitFails, FilesAfterTerm, profileVars
    <2>4. FilesAgree'
      BY <1>3, <1>s
      DEF RelayNotReady, WaitFails, FilesAfterTerm, FilesAgree, RemovesFiles, serverVars
    <2>5. PlaceInv(s)'
      <3>1. RelaysByPlace(s)'
        BY <1>3, <1>s, <1>o
        DEF RelayNotReady, EndRecord, Record, WaitFails, PlaceInv, RelaysByPlace, Own, At,
            Types, serverVars, Session
      <3>2. CodeByPlace(s)'
        BY <1>3, <1>s
        DEF RelayNotReady, EndRecord, Record, PlaceInv, CodeByPlace, At, Types, Session
      <3>3. CookieIsNew(s)'
        BY <1>3, <1>s, <2>3
        DEF RelayNotReady, EndRecord, Record, PlaceInv, CookieIsNew, At, Types, Session
      <3> QED  BY <3>1, <3>2, <3>3 DEF PlaceInv
    <2>6. AloneInv(s)'
      BY <1>3, <1>s, <1>o, <2>1
      DEF RelayNotReady, EndRecord, Record, AloneInv, Active, At, Types, Session
    <2> QED  BY <1>u, <2>1, <2>2, <2>3, <2>4, <2>5, <2>6
  <1>4. CASE Validates(s)
    <2>1. PICK p \in Prepared : Validates(s)!2!(p)
      BY <1>4 DEF Validates
    <2> DEFINE broken == IF session[s].tidal THEN EvaluateAll(p) ELSE {}
    <2>2. /\ profile' = p
          /\ Turns(s, [session[s] EXCEPT !.failed = broken,
                                       !.at = IF broken = {} THEN "launching" ELSE "asking"])
      BY <2>1
    <2>3. At(s) = "checked" /\ UNCHANGED <<server, pidFile, statusFile>>
      BY <1>4 DEF Validates, serverVars
    <2>4. HasCookie(p) => HasCookie(profile)
      BY DEF Prepared, HasCookie, Types, Profiles, Profile
    <2> HIDE DEF broken
    <2>5. /\ At(s)' = IF broken = {} THEN "launching" ELSE "asking"
          /\ session'[s].failed = broken
          /\ session'[s].code = session[s].code
      BY <1>s, <2>2 DEF At, Types, Session
    <2>6. PlaceInv(s)'
      BY <1>s, <2>3, <2>5 DEF PlaceInv, RelaysByPlace, CodeByPlace, CookieIsNew, At
    <2>7. AloneInv(s)'
      BY <2>5 DEF AloneInv, At
    <2>8. Active(s) /\ FilesAgree' /\ \A t \in Sessions \ {s} : session'[t] = session[t]
      BY <1>s, <2>2, <2>3 DEF Active, FilesAgree, Types
    <2> QED  BY <1>u, <2>2, <2>3, <2>4, <2>6, <2>7, <2>8
  <1>5. CASE Rotates(s)
    <2>1. Active(s) /\ \A t \in Sessions \ {s} : session'[t] = session[t]
      BY <1>5 DEF Rotates, Goes, Types, Active, At
    <2>2. PlaceInv(s)' /\ AloneInv(s)'
      BY <1>5, <1>s, <1>v
      DEF Rotates, Goes, PlaceInv, RelaysByPlace, CodeByPlace, CookieIsNew, AloneInv, Own,
          Active, At, Types, Session
    <2>3. FilesAgree'
      BY <1>5, <1>s, <1>v DEF Rotates, FilesAgree
    <2> QED  BY <1>5, <1>v, <2>1, <2>2, <2>3, SessionActs DEF Rotates
  <1>6. CASE Deletes(s)
    <2> DEFINE asked == Remediations(session[s].failed) \ {"rotate_ip"}
    <2>1. PICK done \in SUBSET asked :
             /\ profile' = Remedied(profile, asked, done)
             /\ Turns(s, [session[s] EXCEPT !.at = "warmup", !.failed = {},
                                          !.kept = (done # asked)])
      BY <1>6 DEF Deletes
    <2> DEFINE kept == (done # asked)
    <2>2. Turns(s, [session[s] EXCEPT !.at = "warmup", !.failed = {}, !.kept = kept])
      BY <2>1
    <2>3. At(s) = "deleting" /\ UNCHANGED <<server, pidFile, statusFile>>
      BY <1>6 DEF Deletes, serverVars
    <2>4. session[s].failed \in SUBSET RuleNames /\ session[s].failed # {} /\ profile \in Profiles
      BY <1>s, <2>3 DEF Session, PlaceInv, CookieIsNew, Types
    <2>5. kept \/ ~HasCookie(profile')
      BY <2>1, <2>4, DeletionsSuffice
    <2>6. HasCookie(profile)' => HasCookie(profile)
      BY <2>1, <2>4, DeletionsAddNone
    <2> HIDE DEF kept, asked
    <2>7. At(s)' = "warmup" /\ session'[s].kept = kept /\ session'[s].code = session[s].code
      BY <1>s, <2>2 DEF At, Types, Session
    <2>8. CookieIsNew(s)'
      BY <2>5, <2>7 DEF CookieIsNew, At
    <2>9. RelaysByPlace(s)' /\ CodeByPlace(s)' /\ AloneInv(s)'
      BY <1>s, <2>3, <2>7 DEF PlaceInv, RelaysByPlace, CodeByPlace, AloneInv, At
    <2>10. Active(s) /\ FilesAgree' /\ \A t \in Sessions \ {s} : session'[t] = session[t]
      BY <1>s, <2>2, <2>3 DEF Active, FilesAgree, Types
    <2> QED  BY <1>u, <2>3, <2>6, <2>8, <2>9, <2>10 DEF PlaceInv
  <1>7. CASE WarmupStartsRelay(s)
    <2>1. Active(s) /\ \A t \in Sessions \ {s} : session'[t] = session[t]
      BY <1>7 DEF Types, WarmupStartsRelay, Goes, Spawns, Active, At
    <2>2. \A p \in Servers \ Own(s) : server'[p] = server[p]
      BY <1>7 DEF WarmupStartsRelay, Spawns, Own, Types, serverVars
    <2>3. HasCookie(profile)' => HasCookie(profile)
      BY <1>7 DEF WarmupStartsRelay, Spawns, profileVars
    <2>4. FilesAgree'
      BY <1>7, <1>s DEF WarmupStartsRelay, Spawns, FilesAgree, RemovesFiles, serverVars
    <2>5. PlaceInv(s)'
      <3>1. RelaysByPlace(s)'
        BY <1>7, <1>s, <1>o
        DEF WarmupStartsRelay, Goes, Spawns, Spawns, PlaceInv, RelaysByPlace, Own, At,
            Types, serverVars, Session
      <3>2. CodeByPlace(s)'
        BY <1>7, <1>s
        DEF WarmupStartsRelay, Goes, Spawns, PlaceInv, CodeByPlace, At, Types, Session
      <3>3. CookieIsNew(s)'
        BY <1>7, <1>s, <2>3
        DEF WarmupStartsRelay, Goes, Spawns, PlaceInv, CookieIsNew, At, Types, Session
      <3> QED  BY <3>1, <3>2, <3>3 DEF PlaceInv
    <2>6. AloneInv(s)'
      BY <1>7, <1>s, <1>o, <2>1
      DEF WarmupStartsRelay, Goes, Spawns, AloneInv, Active, At, Types, Session
    <2> QED  BY <1>u, <2>1, <2>2, <2>3, <2>4, <2>5, <2>6
  <1>8. CASE WarmupRelayNotReady(s)
    <2>1. Active(s) /\ \A t \in Sessions \ {s} : session'[t] = session[t]
      BY <1>8 DEF Types, WarmupRelayNotReady, Goes, Active, At
    <2>2. \A p \in Servers \ Own(s) : server'[p] = server[p]
      BY <1>8 DEF WarmupRelayNotReady, WaitFails, Own, Types, serverVars
    <2>3. HasCookie(profile)' => HasCookie(profile)
      BY <1>8 DEF WarmupRelayNotReady, WaitFails, FilesAfterTerm, profileVars
    <2>4. FilesAgree'
      BY <1>8, <1>s
      DEF WarmupRelayNotReady, WaitFails, FilesAfterTerm, FilesAgree, RemovesFiles,
          serverVars
    <2>5. PlaceInv(s)'
      <3>1. RelaysByPlace(s)'
        BY <1>8, <1>s, <1>o
        DEF WarmupRelayNotReady, Goes, WaitFails, PlaceInv, RelaysByPlace, Own, At, Types,
            serverVars, Session
      <3>2. CodeByPlace(s)'
        BY <1>8, <1>s
        DEF WarmupRelayNotReady, Goes, PlaceInv, CodeByPlace, At, Types, Session
      <3>3. CookieIsNew(s)'
        BY <1>8, <1>s, <2>3
        DEF WarmupRelayNotReady, Goes, PlaceInv, CookieIsNew, At, Types, Session
      <3> QED  BY <3>1, <3>2, <3>3 DEF PlaceInv
    <2>6. AloneInv(s)'
      BY <1>8, <1>s, <1>o, <2>1
      DEF WarmupRelayNotReady, Goes, AloneInv, Active, At, Types, Session
    <2> QED  BY <1>u, <2>1, <2>2, <2>3, <2>4, <2>5, <2>6
  <1>9. CASE Opens(s)
    <2>1. At(s) = "opening" /\ UNCHANGED <<server, pidFile, statusFile>>
      BY <1>9 DEF Opens, serverVars
    <2>2. HasCookie(profile)' => HasCookie(profile)
      BY <1>9 DEF Opens, Prepared, HasCookie, Types, Profiles, Profile
    <2>3. PICK r \in {[session[s] EXCEPT !.at = "polling", !.browser = Launched],
                    [session[s] EXCEPT !.at = "warmupClosing"]} : Turns(s, r)
      BY <1>9 DEF Opens, Goes
    <2>4. /\ At(s)' \in {"polling", "warmupClosing"}
          /\ session'[s].code = session[s].code
          /\ session'[s].kept = session[s].kept
          /\ session'[s].earned = session[s].earned
      BY <1>s, <2>3 DEF At, Types, Session
    <2>5. PlaceInv(s)' /\ AloneInv(s)'
      BY <1>s, <2>1, <2>2, <2>4
      DEF PlaceInv, RelaysByPlace, CodeByPlace, CookieIsNew, AloneInv, At
    <2>6. Active(s) /\ FilesAgree' /\ \A t \in Sessions \ {s} : session'[t] = session[t]
      BY <1>s, <2>1, <2>3 DEF Active, FilesAgree, Types
    <2> QED  BY <1>u, <2>1, <2>2, <2>5, <2>6
  <1>10. CASE PollTimesOut(s)
    <2>1. Active(s) /\ \A t \in Sessions \ {s} : session'[t] = session[t]
      BY <1>10 DEF Types, PollTimesOut, Goes, Active, At
    <2>2. \A p \in Servers \ Own(s) : server'[p] = server[p]
      BY <1>10 DEF PollTimesOut, Own, Types, serverVars
    <2>3. HasCookie(profile)' => HasCookie(profile)
      BY <1>10 DEF PollTimesOut, HasCookie, Types, Profiles, Profile
    <2>4. FilesAgree'
      BY <1>10, <1>s DEF PollTimesOut, FilesAgree, RemovesFiles, serverVars
    <2>5. PlaceInv(s)'
      <3>1. RelaysByPlace(s)'
        BY <1>10, <1>s, <1>o
        DEF PollTimesOut, Goes, PlaceInv, RelaysByPlace, Own, At, Types, serverVars, Session
      <3>2. CodeByPlace(s)'
        BY <1>10, <1>s DEF PollTimesOut, Goes, PlaceInv, CodeByPlace, At, Types, Session
      <3>3. CookieIsNew(s)'
        BY <1>10, <1>s, <2>3
        DEF PollTimesOut, Goes, PlaceInv, CookieIsNew, At, Types, Session
      <3> QED  BY <3>1, <3>2, <3>3 DEF PlaceInv
    <2>6. AloneInv(s)'
      BY <1>10, <1>s, <1>o, <2>1
      DEF PollTimesOut, Goes, AloneInv, Active, At, Types, Session
    <2> QED  BY <1>u, <2>1, <2>2, <2>3, <2>4, <2>5, <2>6
  <1>11. CASE WarmupCloses(s)
    <2>1. Active(s) /\ \A t \in Sessions \ {s} : session'[t] = session[t]
      BY <1>11 DEF Types, WarmupCloses, AfterWarmup, Active, At
    <2>2. \A p \in Servers \ Own(s) : server'[p] = server[p]
      BY <1>11 DEF WarmupCloses, SendsTerm, Terminated, Own, Types, serverVars
    <2>3. HasCookie(profile)' => HasCookie(profile)
      BY <1>11 DEF WarmupCloses, SendsTerm, Terminated, FilesAfterTerm, profileVars
    <2>4. FilesAgree'
      BY <1>11, <1>s
      DEF WarmupCloses, SendsTerm, Terminated, FilesAfterTerm, FilesAgree, RemovesFiles,
          serverVars
    <2>5. PlaceInv(s)'
      <3>1. RelaysByPlace(s)'
        BY <1>11, <1>s, <1>o
        DEF WarmupCloses, AfterWarmup, SendsTerm, Terminated, Living, Running, PlaceInv,
            RelaysByPlace, Own, At, Types, serverVars, Session
      <3>2. CodeByPlace(s)'
        BY <1>11, <1>s
        DEF WarmupCloses, AfterWarmup, PlaceInv, CodeByPlace, At, Types, Session
      <3>3. CookieIsNew(s)'
        BY <1>11, <1>s, <2>3
        DEF WarmupCloses, AfterWarmup, PlaceInv, CookieIsNew, At, Types, Session
      <3> QED  BY <3>1, <3>2, <3>3 DEF PlaceInv
    <2>6. AloneInv(s)'
      BY <1>11, <1>s, <1>o, <2>1
      DEF WarmupCloses, AfterWarmup, AloneInv, Active, At, Types, Session
    <2> QED  BY <1>u, <2>1, <2>2, <2>3, <2>4, <2>5, <2>6
  <1>12. CASE WarmupStopsRelay(s)
    <2>1. Active(s) /\ \A t \in Sessions \ {s} : session'[t] = session[t]
      BY <1>12 DEF Types, WarmupStopsRelay, Goes, AfterWarmup, Active, At
    <2>2. \A p \in Servers \ Own(s) : server'[p] = server[p]
      BY <1>12 DEF WarmupStopsRelay, StoppedOrKilled, Own, Types, serverVars
    <2>3. HasCookie(profile)' => HasCookie(profile)
      BY <1>12 DEF WarmupStopsRelay, StoppedOrKilled, profileVars
    <2>4. FilesAgree'
      BY <1>12, <1>s
      DEF WarmupStopsRelay, StoppedOrKilled, FilesAgree, RemovesFiles, serverVars
    <2>5. PlaceInv(s)'
      <3>1. RelaysByPlace(s)'
        BY <1>12, <1>s, <1>o
        DEF WarmupStopsRelay, Goes, AfterWarmup, StoppedOrKilled, PlaceInv, RelaysByPlace,
            Own, At, Types, serverVars, Session
      <3>2. CodeByPlace(s)'
        BY <1>12, <1>s
        DEF WarmupStopsRelay, Goes, AfterWarmup, PlaceInv, CodeByPlace, At, Types, Session
      <3>3. CookieIsNew(s)'
        BY <1>12, <1>s, <2>3
        DEF WarmupStopsRelay, Goes, AfterWarmup, PlaceInv, CookieIsNew, At, Types, Session
      <3> QED  BY <3>1, <3>2, <3>3 DEF PlaceInv
    <2>6. AloneInv(s)'
      BY <1>12, <1>s, <1>o, <2>1
      DEF WarmupStopsRelay, Goes, AfterWarmup, AloneInv, Active, At, Types, Session
    <2> QED  BY <1>u, <2>1, <2>2, <2>3, <2>4, <2>5, <2>6
  <1>13. CASE AutoRotates(s)
    <2>1. Active(s) /\ \A t \in Sessions \ {s} : session'[t] = session[t]
      BY <1>13 DEF AutoRotates, Goes, Types, Active, At
    <2>2. PlaceInv(s)' /\ AloneInv(s)'
      BY <1>13, <1>s, <1>v
      DEF AutoRotates, Goes, PlaceInv, RelaysByPlace, CodeByPlace, CookieIsNew, AloneInv,
          Own, Active, At, Types, Session
    <2>3. FilesAgree'
      BY <1>13, <1>s, <1>v DEF AutoRotates, FilesAgree
    <2> QED  BY <1>13, <1>v, <2>1, <2>2, <2>3, SessionActs DEF AutoRotates
  <1>14. CASE StopSeen(s)
    <2>1. Active(s) /\ \A t \in Sessions \ {s} : session'[t] = session[t]
      BY <1>14 DEF Types, StopSeen, Active, At
    <2>2. \A p \in Servers \ Own(s) : server'[p] = server[p]
      BY <1>14 DEF StopSeen, Own, Types, serverVars
    <2>3. HasCookie(profile)' => HasCookie(profile)
      BY <1>14 DEF StopSeen, profileVars
    <2>4. FilesAgree'
      BY <1>14, <1>s DEF StopSeen, FilesAgree, RemovesFiles, serverVars
    <2>5. PlaceInv(s)'
      <3>1. RelaysByPlace(s)'
        BY <1>14, <1>s, <1>o
        DEF StopSeen, PlaceInv, RelaysByPlace, Own, At, Types, serverVars, Session
      <3>2. CodeByPlace(s)'
        BY <1>14, <1>s DEF StopSeen, PlaceInv, CodeByPlace, At, Types, Session
      <3>3. CookieIsNew(s)'
        BY <1>14, <1>s, <2>3 DEF StopSeen, PlaceInv, CookieIsNew, At, Types, Session
      <3> QED  BY <3>1, <3>2, <3>3 DEF PlaceInv
    <2>6. AloneInv(s)'
      BY <1>14, <1>s, <1>o, <2>1 DEF StopSeen, AloneInv, Active, At, Types, Session
    <2> QED  BY <1>u, <2>1, <2>2, <2>3, <2>4, <2>5, <2>6
  <1>15. CASE StopsRelay(s)
    <2>1. Active(s) /\ \A t \in Sessions \ {s} : session'[t] = session[t]
      BY <1>15 DEF Types, StopsRelay, Goes, Active, At
    <2>2. \A p \in Servers \ Own(s) : server'[p] = server[p]
      BY <1>15 DEF StopsRelay, Terminated, Own, Types, serverVars
    <2>3. HasCookie(profile)' => HasCookie(profile)
      BY <1>15 DEF StopsRelay, Terminated, FilesAfterTerm, profileVars
    <2>4. FilesAgree'
      BY <1>15, <1>s
      DEF StopsRelay, Terminated, FilesAfterTerm, FilesAgree, RemovesFiles, serverVars
    <2>5. PlaceInv(s)'
      <3>1. RelaysByPlace(s)'
        BY <1>15, <1>s, <1>o
        DEF StopsRelay, Goes, Terminated, PlaceInv, RelaysByPlace, Own, At, Types,
            serverVars, Session
      <3>2. CodeByPlace(s)'
        BY <1>15, <1>s DEF StopsRelay, Goes, PlaceInv, CodeByPlace, At, Types, Session
      <3>3. CookieIsNew(s)'
        BY <1>15, <1>s, <2>3 DEF StopsRelay, Goes, PlaceInv, CookieIsNew, At, Types, Session
      <3> QED  BY <3>1, <3>2, <3>3 DEF PlaceInv
    <2>6. AloneInv(s)'
      BY <1>15, <1>s, <1>o, <2>1 DEF StopsRelay, Goes, AloneInv, Active, At, Types, Session
    <2> QED  BY <1>u, <2>1, <2>2, <2>3, <2>4, <2>5, <2>6
  <1>16. CASE FindsItStopped(s)
    <2>1. Active(s) /\ \A t \in Sessions \ {s} : session'[t] = session[t]
      BY <1>16 DEF Types, FindsItStopped, SessionEnds, EndRecord, Record, Active, At
    <2>2. \A p \in Servers \ Own(s) : server'[p] = server[p]
      BY <1>16 DEF FindsItStopped, SessionEnds, Orphaned, Own, Types, serverVars
    <2>3. HasCookie(profile)' => HasCookie(profile)
      BY <1>16 DEF FindsItStopped, SessionEnds, Orphaned, profileVars
    <2>4. FilesAgree'
      BY <1>16, <1>s
      DEF FindsItStopped, SessionEnds, Orphaned, FilesAgree, RemovesFiles, serverVars
    <2>5. PlaceInv(s)'
      <3>1. RelaysByPlace(s)'
        BY <1>16, <1>s, <1>o
        DEF FindsItStopped, SessionEnds, EndRecord, Record, Orphaned, Living, Running,
            PlaceInv, RelaysByPlace, Own, At, Types, serverVars, Session
      <3>2. CodeByPlace(s)'
        BY <1>16, <1>s
        DEF FindsItStopped, SessionEnds, EndRecord, Record, PlaceInv, CodeByPlace, At,
            Types, Session
      <3>3. CookieIsNew(s)'
        BY <1>16, <1>s, <2>3
        DEF FindsItStopped, SessionEnds, EndRecord, Record, PlaceInv, CookieIsNew, At,
            Types, Session
      <3> QED  BY <3>1, <3>2, <3>3 DEF PlaceInv
    <2>6. AloneInv(s)'
      BY <1>16, <1>s, <1>o, <2>1
      DEF FindsItStopped, SessionEnds, EndRecord, Record, AloneInv, Active, At, Types,
          Session
    <2> QED  BY <1>u, <2>1, <2>2, <2>3, <2>4, <2>5, <2>6
  <1>17. CASE Ends(s)
    <2>1. Active(s) /\ \A t \in Sessions \ {s} : session'[t] = session[t]
      BY <1>17 DEF Types, Ends, SessionEnds, EndRecord, Record, Active, At
    <2>2. \A p \in Servers \ Own(s) : server'[p] = server[p]
      BY <1>17 DEF Ends, SessionEnds, Orphaned, StoppedOrKilled, Own, Types, serverVars
    <2>3. HasCookie(profile)' => HasCookie(profile)
      BY <1>17 DEF Ends, SessionEnds, Orphaned, StoppedOrKilled, profileVars
    <2>4. FilesAgree'
      BY <1>17, <1>s
      DEF Ends, SessionEnds, Orphaned, StoppedOrKilled, FilesAgree, RemovesFiles, serverVars
    <2>5. PlaceInv(s)'
      <3>1. RelaysByPlace(s)'
        BY <1>17, <1>s, <1>o
        DEF Ends, SessionEnds, EndRecord, Record, SessionEnds, Orphaned, StoppedOrKilled,
            PlaceInv, RelaysByPlace, Own, At, Types, serverVars, Session
      <3>2. CodeByPlace(s)'
        BY <1>17, <1>s
        DEF Ends, SessionEnds, EndRecord, Record, PlaceInv, CodeByPlace, At, Types, Session
      <3>3. CookieIsNew(s)'
        BY <1>17, <1>s, <2>3
        DEF Ends, SessionEnds, EndRecord, Record, PlaceInv, CookieIsNew, At, Types, Session
      <3> QED  BY <3>1, <3>2, <3>3 DEF PlaceInv
    <2>6. AloneInv(s)'
      BY <1>17, <1>s, <1>o, <2>1
      DEF Ends, SessionEnds, EndRecord, Record, AloneInv, Active, At, Types, Session
    <2> QED  BY <1>u, <2>1, <2>2, <2>3, <2>4, <2>5, <2>6
  <1>18. CASE Interrupted(s)
    <2> DEFINE place == IF At(s) \in {"found", "absent", "waiting", "finishing", "stopping"}
                       THEN "ended"
                       ELSE IF InWarmup(s) THEN "warmupClosing" ELSE "finishing"
               c == IF At(s) = "asking" THEN 1 ELSE 130
    <2>1. Active(s) /\ \A t \in Sessions \ {s} : session'[t] = session[t]
      BY <1>18 DEF Interrupted, Types
    <2>2. \A p \in Servers \ Own(s) : server'[p] = server[p]
      BY <1>18 DEF Interrupted, Terminated, Orphaned, Own, Types
    <2>3. HasCookie(profile)' => HasCookie(profile)
      BY <1>18 DEF Interrupted, profileVars
    <2>4. FilesAgree'
      BY <1>18, <1>s DEF Interrupted, FilesAfterTerm, FilesAgree, RemovesFiles
    <2>5. \A p \in Own(s) : DeadState(p) = "zombie"
      BY <2>1, OwnRelays DEF Own, DeadState
    <2>6. CASE place = "ended"
      <3>1. /\ server' = Orphaned(Terminated(Own(s)), s, "stopping")
            /\ Turns(s, EndRecord(s, "ended", 130))
        BY <1>18, <2>6 DEF Interrupted
      <3>2. At(s)' = "ended"
        BY <3>1 DEF At, EndRecord, Record, Types
      <3>3. At(s) \in {"found", "absent", "waiting", "finishing", "stopping"}
        BY <2>6 DEF InWarmup
      <3>4. server[WarmupRelay(s)] \in {"none", "stuck", "stopping", "zombie", "gone"}
        BY <1>s, <3>3 DEF PlaceInv, RelaysByPlace
      <3>5. \A p \in Own(s) : server'[p] \in {"none", "stopping", "gone"}
        BY <1>o, <2>5, <3>1, <3>4 DEF Own, Orphaned, Terminated, Types, ServerStates
      <3>6. PlaceInv(s)' /\ AloneInv(s)'
        BY <3>2, <3>5
        DEF PlaceInv, RelaysByPlace, CodeByPlace, CookieIsNew, AloneInv, Own, At
      <3> QED  BY <1>u, <2>1, <2>2, <2>3, <2>4, <3>6
    <2>7. CASE place # "ended"
      <3>1. /\ server' = Terminated(Own(s))
            /\ Turns(s, [session[s] EXCEPT !.at = place, !.browser = "none",
                                         !.failed = {}, !.code = c])
        BY <1>18, <2>7 DEF Interrupted
      <3>2. At(s)' = place /\ session'[s].code = c
        BY <1>s, <3>1 DEF At, Types, Session
      <3>3. place \in {"warmupClosing", "finishing"} /\ (place = "warmupClosing" => c = 130)
        BY <2>7 DEF InWarmup
      <3>4. place = "finishing" =>
               server'[WarmupRelay(s)] \in {"none", "stuck", "stopping", "zombie", "gone"}
        BY <1>o, <2>5, <3>1 DEF Own, Terminated, Types, ServerStates
      <3> HIDE DEF place, c
      <3>5. PlaceInv(s)' /\ AloneInv(s)'
        BY <3>2, <3>3, <3>4
        DEF PlaceInv, RelaysByPlace, CodeByPlace, CookieIsNew, AloneInv, Own, At
      <3> QED  BY <1>u, <2>1, <2>2, <2>3, <2>4, <3>5
    <2> QED  BY <2>6, <2>7
  <1>19. CASE Killed(s)
    <2>1. Active(s) /\ \A t \in Sessions \ {s} : session'[t] = session[t]
      BY <1>19 DEF Types, Killed, EndRecord, Record, Active, At
    <2>2. \A p \in Servers \ Own(s) : server'[p] = server[p]
      BY <1>19 DEF Killed, Orphaned, Own, Types, serverVars
    <2>3. HasCookie(profile)' => HasCookie(profile)
      BY <1>19 DEF Killed, Orphaned, profileVars
    <2>4. FilesAgree'
      BY <1>19, <1>s DEF Killed, Orphaned, FilesAgree, RemovesFiles, serverVars
    <2>5. PlaceInv(s)'
      <3>1. RelaysByPlace(s)'
        BY <1>19, <1>s, <1>o
        DEF Killed, EndRecord, Record, Orphaned, PlaceInv, RelaysByPlace, Own, At, Types,
            serverVars, Session
      <3>2. CodeByPlace(s)'
        BY <1>19, <1>s
        DEF Killed, EndRecord, Record, PlaceInv, CodeByPlace, At, Types, Session
      <3>3. CookieIsNew(s)'
        BY <1>19, <1>s, <2>3
        DEF Killed, EndRecord, Record, PlaceInv, CookieIsNew, At, Types, Session
      <3> QED  BY <3>1, <3>2, <3>3 DEF PlaceInv
    <2>6. AloneInv(s)'
      BY <1>19, <1>s, <1>o, <2>1
      DEF Killed, EndRecord, Record, AloneInv, Active, At, Types, Session
    <2> QED  BY <1>u, <2>1, <2>2, <2>3, <2>4, <2>5, <2>6
  <1> QED
    BY <1>1, <1>2, <1>3, <1>4, <1>5, <1>6, <1>7, <1>8, <1>9, <1>10, <1>11, <1>12, <1>13,
       <1>14, <1>15, <1>16, <1>17, <1>18, <1>19

\* The part about being alone survives steps that start no relay.
LEMMA AloneKept ==
    ASSUME NEW t \in Sessions, AloneInv(t),
           At(t)' = At(t), session'[t].alone => session[t].alone,
           session'[t].relay = session[t].relay, session'[t].port = session[t].port,
           \A u \in Sessions \ {t} : Active(u)' => Active(u),
           \A p \in Servers :
               server'[p] \in {"starting", "checked"} => server[p] \in {"starting", "checked"},
           \/ statusFile' \in {Nobody, statusFile}
           \/ \E p \in Servers : server[p] = "checked" /\ statusFile' = p
    PROVE  AloneInv(t)'
  <1> SUFFICES ASSUME session'[t].alone, At(t)' \in {"found", "absent", "waiting", "health"}
               PROVE  AloneInv(t)'
    BY DEF AloneInv
  <1>1. /\ \A u \in Sessions \ {t} : ~Active(u)
        /\ \A p \in Servers :
              server[p] \in {"starting", "checked"} => p = Relay(t) /\ At(t) \in {"waiting", "health"}
        /\ At(t) = "found" => session[t].relay # Nobody /\ statusFile \in {Nobody, session[t].relay}
        /\ At(t) = "waiting" => statusFile \in {Nobody, Relay(t)}
        /\ At(t) = "health" => session[t].port \in {session[t].relay, Configured}
    BY DEF AloneInv
  <1>2. /\ \A u \in Sessions \ {t} : ~Active(u)'
        /\ \A p \in Servers :
              server'[p] \in {"starting", "checked"} => p = Relay(t) /\ At(t)' \in {"waiting", "health"}
    BY <1>1
  <1>3. At(t)' = "found" => session'[t].relay # Nobody /\ statusFile' \in {Nobody, session'[t].relay}
    BY <1>1
  <1>4. At(t)' = "waiting" => statusFile' \in {Nobody, Relay(t)}
    BY <1>1
  <1>5. At(t)' = "health" => session'[t].port \in {session'[t].relay, Configured}
    BY <1>1
  <1> QED  BY <1>2, <1>3, <1>4, <1>5 DEF AloneInv

\* The first step of a session, which ends every other one's claim to be alone.
LEMMA LooksUpInv ==
    ASSUME BrowseInv, NEW s \in Sessions, LooksUp(s)
    PROVE  Inv'
  <1> USE DEF BrowseInv
  <1> DEFINE found == Running(pidFile)
             first == /\ \A t \in Sessions \ {s} : ~Active(t)
                      /\ \A p \in Servers : server[p] \notin {"starting", "checked"}
  <1>1. /\ At(s) = "none"
        /\ UNCHANGED <<server, pidFile, statusFile, profile>>
        /\ session' = [t \in Sessions |->
               IF t # s THEN [session[t] EXCEPT !.alone = FALSE]
               ELSE [session[s] EXCEPT !.at = IF found THEN "found" ELSE "absent",
                                       !.relay = IF found THEN pidFile ELSE Nobody,
                                       !.alone = first]]
    BY DEF LooksUp, SessionOnly, serverVars, profileVars
  <1>2. FilesAgree'  BY <1>1 DEF Inv, FilesAgree
  <1>3. ASSUME NEW t \in Sessions, t # s
        PROVE  PlaceInv(t)' /\ AloneInv(t)'
    <2>1. session'[t] = [session[t] EXCEPT !.alone = FALSE]  BY <1>1, <1>3
    <2>2. session[t] \in Session  BY DEF Types
    <2>3. SameTurn(t) /\ ~session'[t].alone  BY <1>1, <2>1, <2>2 DEF SameTurn, At, Session
    <2>4. Advance(t)  BY <1>1 DEF Advance
    <2>5. PlaceInv(t)'  BY <2>3, <2>4, PlaceKept DEF Inv
    <2>6. AloneInv(t)'  BY <2>3 DEF AloneInv
    <2> QED  BY <2>5, <2>6
  <1>4. PlaceInv(s)' /\ AloneInv(s)'
    <2>1. session[s] \in Session /\ PlaceInv(s) /\ FilesAgree  BY DEF Types, Inv
    <2> DEFINE alone == first
    <2>2. session'[s] = [session[s] EXCEPT !.at = IF found THEN "found" ELSE "absent",
                                           !.relay = IF found THEN pidFile ELSE Nobody,
                                           !.alone = alone]
      BY <1>1
    <2>3. alone => /\ \A t \in Sessions \ {s} : ~Active(t)
                   /\ \A p \in Servers : server[p] \notin {"starting", "checked"}
      OBVIOUS
    <2>4. found => pidFile # Nobody  BY DEF Running
    <2> HIDE DEF alone, found
    <2>5. /\ At(s)' = IF found THEN "found" ELSE "absent"
          /\ session'[s].relay = IF found THEN pidFile ELSE Nobody
          /\ session'[s].alone = alone
          /\ session'[s].code = session[s].code
      BY <2>1, <2>2 DEF At, Session
    <2>6. PlaceInv(s)'
      <3>1. /\ server'[Relay(s)] = "none" /\ server'[WarmupRelay(s)] = "none"
            /\ session'[s].code = Nobody
        BY <1>1, <2>1, <2>5 DEF PlaceInv, RelaysByPlace, CodeByPlace
      <3>2. At(s)' \in {"found", "absent"}
        BY <2>5
      <3> QED  BY <3>1, <3>2 DEF PlaceInv, RelaysByPlace, CodeByPlace, CookieIsNew, At
    <2>7. \A t \in Sessions \ {s} : Active(t)' => Active(t)
      <3>1. ASSUME NEW t \in Sessions \ {s}  PROVE At(t)' = At(t)
        BY <1>1, <3>1 DEF At, Types, Session
      <3> QED  BY <3>1 DEF Active
    <2>8. AloneInv(s)'
      BY <1>1, <2>1, <2>3, <2>4, <2>5, <2>7 DEF AloneInv, FilesAgree
    <2> QED  BY <2>6, <2>8
  <1> QED  BY <1>2, <1>3, <1>4 DEF Inv

\* What the relays, the users and the browsers do leaves every session where it is.
LEMMA WorldActs ==
    ASSUME BrowseInv, FilesAgree',
           \A t \in Sessions : Advance(t) /\ SameTurn(t),
           \A t \in Sessions : session'[t].alone =>
               /\ session[t].alone
               /\ session'[t].relay = session[t].relay
               /\ session'[t].port = session[t].port
               /\ \A p \in Servers :
                     server'[p] \in {"starting", "checked"} => server[p] \in {"starting", "checked"},
           \/ statusFile' \in {Nobody, statusFile}
           \/ \E p \in Servers : server[p] = "checked" /\ statusFile' = p
    PROVE  Inv'
  <1>1. ASSUME NEW t \in Sessions  PROVE PlaceInv(t)' /\ AloneInv(t)'
    <2>1. PlaceInv(t)'  BY PlaceKept DEF BrowseInv, Inv
    <2>2. \A u \in Sessions \ {t} : Active(u)' => Active(u)  BY DEF Active, SameTurn
    <2>3. CASE session'[t].alone
      <3>1. AloneInv(t) /\ At(t)' = At(t)  BY DEF BrowseInv, Inv, SameTurn
      <3>2. /\ session[t].alone
            /\ session'[t].relay = session[t].relay
            /\ session'[t].port = session[t].port
            /\ \A p \in Servers :
                  server'[p] \in {"starting", "checked"} => server[p] \in {"starting", "checked"}
        BY <2>3
      <3> QED  BY <2>1, <2>2, <3>1, <3>2, AloneKept
    <2>4. CASE ~session'[t].alone
      BY <2>1, <2>4 DEF AloneInv
    <2> QED  BY <2>1, <2>3, <2>4
  <1> QED  BY <1>1 DEF Inv

\* The steps of everyone else.
LEMMA WorldInv ==
    ASSUME BrowseInv, \/ UserStarts \/ UserStops \/ ProfileStep \/ OrphanExits
                      \/ (\E p \in Servers : ServerStep(p))
                      \/ (\E s \in Sessions : BrowserExits(s))
    PROVE  Inv'
  <1> USE DEF BrowseInv
  <1>f. FilesAgree /\ \A t \in Sessions : session[t] \in Session  BY DEF Inv, Types
  <1>o. \A t \in Sessions : Own(t) \subseteq Servers \ {User}  BY OwnRelays DEF Own
  <1>s. session' = session /\ profile' = profile => \A t \in Sessions : SameTurn(t)
    BY DEF SameTurn, At
  <1>1. CASE UserStarts
    <2>1. /\ server[User] = "none" /\ server' = [server EXCEPT ![User] = "starting"]
          /\ UNCHANGED <<pidFile, statusFile, profile>>
          /\ \A t \in Sessions : session'[t] = [session[t] EXCEPT !.alone = FALSE]
      BY <1>1 DEF UserStarts, profileVars
    <2>2. \A t \in Sessions : Advance(t)  BY <1>o, <2>1 DEF Advance, Types
    <2>3. ASSUME NEW t \in Sessions  PROVE SameTurn(t) /\ ~session'[t].alone
      <3>1. session'[t] = [session[t] EXCEPT !.alone = FALSE] /\ session[t] \in Session
        BY <1>f, <2>1
      <3> QED  BY <2>1, <3>1 DEF SameTurn, At, Session
    <2>4. FilesAgree'  BY <1>f, <2>1 DEF FilesAgree
    <2> QED  BY <2>1, <2>2, <2>3, <2>4, WorldActs
  <1>2. CASE UserStops
    <2>1. /\ pidFile \in Servers /\ server[pidFile] = "serving"
          /\ server' = [server EXCEPT ![pidFile] = "stopping"]
          /\ pidFile' = Nobody /\ statusFile' = Nobody /\ UNCHANGED <<profile, session>>
      BY <1>2 DEF UserStops, ServerTurns, RemovesFiles, profileVars, Types
    <2>2. \A t \in Sessions : Advance(t)  BY <2>1 DEF Advance, Types
    <2>3. FilesAgree'  BY <2>1 DEF FilesAgree
    <2> QED  BY <1>s, <2>1, <2>2, <2>3, WorldActs DEF Types
  <1>3. ASSUME NEW p \in Servers, ServerStep(p)  PROVE Inv'
    <2>1. UNCHANGED <<profile, session>>
      BY <1>3
      DEF ServerStep, ChecksPid, Listens, Dies, LogFillsPipe, Exits, ServerTurns,
          profileVars
    <2>2. FilesAgree'
      BY <1>3, <1>f
      DEF ServerStep, ChecksPid, Listens, Dies, LogFillsPipe, Exits, RemovesFiles,
          FilesAgree
    <2>3. \/ statusFile' \in {Nobody, statusFile}
          \/ server[p] = "checked" /\ statusFile' = p
      BY <1>3 DEF ServerStep, ChecksPid, Listens, Dies, LogFillsPipe, Exits, RemovesFiles
    <2>4. DeadState(p) \in {"zombie", "gone"}  BY DeadStates
    <2>5. \A q \in Servers :
             server'[q] \in {"starting", "checked"} => server[q] \in {"starting", "checked"}
      BY <1>3, <2>4
      DEF ServerStep, ChecksPid, Listens, Dies, LogFillsPipe, Exits, ServerTurns, Types
    <2>6. /\ \A q \in Servers \ {p} : server'[q] = server[q]
          /\ server[p] \notin {"none", "gone", "zombie"} /\ server'[p] # "none"
          /\ server[p] \in {"stuck", "stopping"} => server'[p] = DeadState(p)
      BY <1>3, <2>4
      DEF ServerStep, ChecksPid, Listens, Dies, LogFillsPipe, Exits, ServerTurns, Types, Living, Running
    <2>7. ASSUME NEW t \in Sessions  PROVE Advance(t)
      <3>1. p \in Own(t) /\ ~Active(t) => DeadState(p) = "gone"
        BY OwnRelays DEF Own, DeadState
      <3> QED  BY <1>o, <2>4, <2>6, <3>1 DEF Advance
    <2> QED  BY <1>s, <2>1, <2>2, <2>3, <2>5, <2>7, WorldActs
  <1>4. CASE ProfileStep
    <2>1. UNCHANGED <<server, pidFile, statusFile>>
      BY <1>4 DEF ProfileStep, SetsCookie, LosesCookie, CookieExpires, DatabaseCorrupted,
                  ProfileCleaned, ProfileTurns, serverVars
    <2>2. \A t \in Sessions : Advance(t)  BY <2>1 DEF Advance
    <2>3. FilesAgree'  BY <1>f, <2>1 DEF FilesAgree
    <2>4. CASE SetsCookie
      <3>1. \A t \in Sessions :
               session'[t] = [session[t] EXCEPT !.earned = session[t].earned \/ InWarmup(t)]
        BY <2>4 DEF SetsCookie
      <3>2. ASSUME NEW t \in Sessions
            PROVE  /\ At(t)' = At(t)
                   /\ \A f \in {"code", "failed", "kept", "alone", "relay", "port"} :
                         session'[t][f] = session[t][f]
                   /\ session[t].earned \/ InWarmup(t) => session'[t].earned
        <4> DEFINE e == session[t].earned \/ InWarmup(t)
        <4>1. session'[t] = [session[t] EXCEPT !.earned = e]  BY <3>1
        <4>2. session[t].earned \/ InWarmup(t) => e  OBVIOUS
        <4> HIDE DEF e
        <4> QED  BY <1>f, <4>1, <4>2 DEF At, Session
      <3>3. \A t \in Sessions : SameTurn(t)
        BY <3>2 DEF SameTurn, InWarmup
      <3> QED  BY <2>1, <2>2, <2>3, <3>2, <3>3, WorldActs
    <2>5. CASE ~SetsCookie
      <3>1. PICK p : /\ ProfileTurns(p)
                     /\ \/ p = [profile EXCEPT !.contents = TRUE, !.cookies = "bare"]
                        \/ p = [profile EXCEPT !.cookies = "expired"] /\ profile.cookies = "valid"
                        \/ p = [profile EXCEPT !.cookies = "corrupt"]
                        \/ p = EmptyProfile
        BY <1>4, <2>5
        DEF ProfileStep, LosesCookie, CookieExpires, DatabaseCorrupted, ProfileCleaned
      <3>2. HasCookie(p) => HasCookie(profile)
        <4>1. profile \in Profile  BY DEF Types, Profiles
        <4>2. ~HasCookie(EmptyProfile)  BY DEF HasCookie, EmptyProfile
        <4>3. /\ ~HasCookie([profile EXCEPT !.contents = TRUE, !.cookies = "bare"])
              /\ ~HasCookie([profile EXCEPT !.cookies = "corrupt"])
          BY <4>1 DEF HasCookie, Profile
        <4>4. profile.cookies = "valid" => HasCookie(profile)  BY DEF HasCookie
        <4> QED  BY <3>1, <4>2, <4>3, <4>4
      <3>3. session' = session /\ (HasCookie(profile)' => HasCookie(profile))
        BY <3>1, <3>2 DEF ProfileTurns, HasCookie
      <3>4. \A t \in Sessions : SameTurn(t)  BY <3>3 DEF SameTurn, At
      <3> QED  BY <2>1, <2>2, <2>3, <3>3, <3>4, WorldActs
    <2> QED  BY <2>4, <2>5
  <1>5. CASE OrphanExits
    <2>1. UNCHANGED <<server, pidFile, statusFile, profile, session>>
      BY <1>5 DEF OrphanExits, serverVars
    <2>2. (\A t \in Sessions : Advance(t)) /\ FilesAgree'
      BY <1>f, <2>1 DEF Advance, FilesAgree
    <2> QED  BY <1>s, <2>1, <2>2, WorldActs
  <1>6. ASSUME NEW s \in Sessions, BrowserExits(s)  PROVE Inv'
    <2>1. /\ UNCHANGED <<server, pidFile, statusFile, profile>>
          /\ session' = [session EXCEPT ![s] = [session[s] EXCEPT !.browser = "exited"]]
      BY <1>6 DEF BrowserExits, Turns, serverVars, profileVars
    <2>2. (\A t \in Sessions : Advance(t)) /\ FilesAgree'
      BY <1>f, <2>1 DEF Advance, FilesAgree
    <2>3. ASSUME NEW t \in Sessions
          PROVE  /\ At(t)' = At(t)
                 /\ \A f \in {"code", "failed", "kept", "earned", "alone", "relay", "port"} :
                       session'[t][f] = session[t][f]
      BY <1>f, <2>1 DEF At, Types, Session
    <2>4. \A t \in Sessions : SameTurn(t)  BY <2>1, <2>3 DEF SameTurn
    <2> QED  BY <2>1, <2>2, <2>3, <2>4, WorldActs
  <1> QED  BY <1>1, <1>2, <1>3, <1>4, <1>5, <1>6

\* Every step keeps the invariant, and it holds at the start.
LEMMA InvKept ==
    ASSUME BrowseInv, [Next]_vars
    PROVE  BrowseInv'
  <1>1. Types'  BY TypesKept DEF BrowseInv
  <1>2. CASE UNCHANGED vars
    <2>1. UNCHANGED <<server, pidFile, statusFile, profile, session>>
      BY <1>2 DEF vars, serverVars, profileVars
    <2>2. \A t \in Sessions : Advance(t) /\ SameTurn(t)  BY <2>1 DEF Advance, SameTurn, At
    <2>3. FilesAgree'  BY <2>1 DEF BrowseInv, Inv, FilesAgree
    <2> QED  BY <1>1, <2>1, <2>2, <2>3, WorldActs DEF BrowseInv
  <1>3. CASE Next
    <2>1. ASSUME NEW s \in Sessions, SessionStep(s)  PROVE Inv'
      BY <2>1, LooksUpInv, SessionOnlyInv, OtherSessionInv, WorldInv
      DEF SessionStep, StartUp, Preparation, Supervision
    <2> QED  BY <1>1, <1>3, <2>1, WorldInv DEF Next, BrowseInv
  <1> QED  BY <1>2, <1>3

LEMMA InvFromInit ==
    ASSUME Init
    PROVE  BrowseInv
  <1>1. \A s \in Sessions : session[s] \in {Record("none", Nobody, tidal) : tidal \in BOOLEAN}
    BY DEF Init
  <1>2. Types
    <2>1. session \in [Sessions -> Session]
      BY RecordTyped DEF Init, Places
    <2> QED  BY <2>1 DEF Init, NoFiles, Types, ServerStates
  <1>3. \A s \in Sessions : At(s) = "none" /\ session[s].code = Nobody
    BY <1>1 DEF Record, At
  <1>4. Inv
    BY <1>3, OwnRelays
    DEF Init, NoFiles, Inv, FilesAgree, PlaceInv, RelaysByPlace, CodeByPlace,
          CookieIsNew, AloneInv, Active
  <1> QED  BY <1>2, <1>4 DEF BrowseInv

-----------------------------------------------------------------------------
(***************************************************************************)
(* The theorems.                                                           *)
(***************************************************************************)

\* BrowseInv holds in every reachable state.
LEMMA BrowseInvariant == Spec => []BrowseInv
  <1>1. Init => BrowseInv  BY InvFromInit
  <1>2. BrowseInv /\ [Next]_vars => BrowseInv'  BY InvKept
  <1> QED  BY <1>1, <1>2, PTL DEF Spec

\* Types, and a session that is to exit does not go on to launch a browser: an
\* interrupt survives the warm-up's cleanup (cli.py:957-976).
THEOREM BrowseTypeCorrect == Spec => []BrowseTypeOK
  <1>1. BrowseInv => BrowseTypeOK
    BY DEF BrowseInv, Types, Inv, PlaceInv, CodeByPlace, BrowseTypeOK
  <1> QED  BY <1>1, BrowseInvariant, PTL

\* However a session ends short of being killed, none of its relays is left behind
\* (cli.py:808-829, 1043-1046, browse.py:766-837, warmup.py:361-369).
THEOREM SessionsStopTheirRelays == Spec => []OwnRelaysStopped
  <1>1. BrowseInv => OwnRelaysStopped
    BY DEF BrowseInv, Inv, PlaceInv, RelaysByPlace, OwnRelaysStopped
  <1> QED  BY <1>1, BrowseInvariant, PTL

\* The port that is checked is that of the relay the session watches, or the
\* configured one (browse.py:698-704, 766-795).
THEOREM SessionsUseTheirRelays == Spec => []SessionUsesItsRelay
  <1>1. BrowseInv => SessionUsesItsRelay
    BY DEF BrowseInv, Inv, AloneInv, SessionUsesItsRelay
  <1> QED  BY <1>1, BrowseInvariant, PTL

\* The cookie that ends a warm-up was set after the deletions, unless one failed
\* (profile_rules.py:722-743, warmup.py:224-264).
THEOREM WarmupsEarnTheirCookies == Spec => []WarmupEarnsItsCookie
  <1>1. BrowseInv => WarmupEarnsItsCookie
    BY DEF BrowseInv, Inv, PlaceInv, CookieIsNew, WarmupEarnsItsCookie
  <1> QED  BY <1>1, BrowseInvariant, PTL

-----------------------------------------------------------------------------
(***************************************************************************)
(* Each relay implements ServerContract.  But for its own start to listen, *)
(* a step of anyone puts no name into a file, so it is enough to say from  *)
(* which state to which it takes a relay.                                  *)
(***************************************************************************)

LEMMA LifeOf ==
    ASSUME NEW state \in ServerStates
    PROVE  /\ state \in {"none", "starting", "checked"} => Life(state) = "starting"
           /\ state \in {"serving", "stuck"} => Life(state) = "serving"
           /\ state = "stopping" => Life(state) = "stopping"
           /\ state \in {"zombie", "gone"} => Life(state) = "killed"
  BY DEF Life, ServerStates

\* A relay stays as it is or is one step older.
Ages(p) ==
    \/ server'[p] = server[p]
    \/ {server[p], server'[p]} \subseteq {"none", "starting", "checked"}
    \/ {server[p], server'[p]} \subseteq {"serving", "stuck"}
    \/ server[p] \in {"serving", "stuck", "stopping"} /\ server'[p] = "stopping"
    \/ server'[p] \in {"zombie", "gone"}

LEMMA AgesKeep ==
    ASSUME Types, Types', NEW p \in Servers, Ages(p),
           pidFile' = p => pidFile = p, statusFile' = p => statusFile = p
    PROVE  [RelayOf(p)!Next]_(RelayOf(p)!vars)
  <1>1. server[p] \in ServerStates /\ server'[p] \in ServerStates  BY DEF Types
  <1>2. RelayOf(p)!FilesStay  BY DEF RelayOf!FilesStay
  <1>3. CASE Life(server'[p]) = Life(server[p])
    BY <1>2, <1>3 DEF RelayOf!Next, RelayOf!Others
  <1>4. CASE Life(server[p]) \in {"serving", "stopping"} /\ Life(server'[p]) = "stopping"
    BY <1>2, <1>4 DEF RelayOf!Next, RelayOf!BeginsStop
  <1>5. CASE Life(server[p]) # "killed" /\ Life(server'[p]) = "killed"
    <2>1. Life(server[p]) \in RelayOf(p)!Alive
      BY <1>1, <1>5, LifeOf DEF ServerStates, RelayOf!Alive
    <2> QED  BY <1>2, <1>5, <2>1 DEF RelayOf!Next, RelayOf!Dies
  <1>6. \/ Life(server'[p]) = Life(server[p])
        \/ Life(server[p]) \in {"serving", "stopping"} /\ Life(server'[p]) = "stopping"
        \/ Life(server[p]) # "killed" /\ Life(server'[p]) = "killed"
    BY <1>1, LifeOf DEF Ages
  <1> QED  BY <1>3, <1>4, <1>5, <1>6

\* What the operators that several steps use do to a relay.
LEMMA SignalsAge ==
    ASSUME Types, NEW p \in Servers, NEW ps
    PROVE  /\ server' = Terminated(ps) => Ages(p)
           /\ \A s \in Sessions, unstuck \in {"stopping", "serving"} :
                 /\ server' = Orphaned(server, s, unstuck) => Ages(p)
                 /\ server' = Orphaned(StoppedOrKilled(Relay(s)), s, unstuck) => Ages(p)
           /\ \A s \in Sessions :
                 server' = Orphaned(Terminated(ps), s, "stopping") => Ages(p)
  <1>1. DeadState(p) \in {"zombie", "gone"}  BY DeadStates
  <1>2. server[p] \in ServerStates  BY DEF Types
  <1>3. server' = Terminated(ps) => Ages(p)
    BY <1>1, <1>2 DEF Terminated, Ages, ServerStates
  <1>4. ASSUME NEW s \in Sessions, NEW unstuck \in {"stopping", "serving"}
        PROVE  /\ server' = Orphaned(server, s, unstuck) => Ages(p)
               /\ server' = Orphaned(StoppedOrKilled(Relay(s)), s, unstuck) => Ages(p)
    BY <1>2 DEF Types, Orphaned, StoppedOrKilled, Ages, ServerStates
  <1>5. ASSUME NEW s \in Sessions, server' = Orphaned(Terminated(ps), s, "stopping")
        PROVE  Ages(p)
    BY <1>1, <1>2, <1>5 DEF Orphaned, Terminated, Ages, ServerStates
  <1> QED  BY <1>3, <1>4, <1>5

LEMMA SessionsAgeRelays ==
    ASSUME BrowseInv, NEW s \in Sessions, SessionStep(s), NEW p \in Servers
    PROVE  /\ Ages(p)
           /\ pidFile' \in {pidFile, Nobody} /\ statusFile' \in {statusFile, Nobody}
  <1> USE DEF BrowseInv
  <1>1. CASE UNCHANGED serverVars
    BY <1>1 DEF serverVars, Ages
  <1>2. CASE StartsRelay(s) \/ WarmupStartsRelay(s) \/ CannotStart(s)
    <2>1. server[Relay(s)] = "none" \/ ~StartsRelay(s)
      BY DEF Inv, PlaceInv, RelaysByPlace, StartsRelay
    <2>2. server[WarmupRelay(s)] = "none" \/ ~WarmupStartsRelay(s)
      BY DEF Inv, PlaceInv, RelaysByPlace, WarmupStartsRelay
    <2> QED
      BY <1>2, <2>1, <2>2
      DEF StartsRelay, WarmupStartsRelay, CannotStart, Spawns, Ages, Types
  <1>3. CASE RelayNotReady(s) \/ WarmupRelayNotReady(s)
    BY <1>3
    DEF RelayNotReady, WarmupRelayNotReady, WaitFails, FilesAfterTerm, RemovesFiles,
        Ages, Types
  <1>4. CASE Rotates(s) \/ AutoRotates(s)
    <2>1. DeadState(p) \in {"zombie", "gone"}  BY DeadStates
    <2> QED
      BY <1>4, <2>1 DEF Rotates, AutoRotates, SendsUsr1, Ages, Types
  <1>5. CASE WarmupCloses(s)
    <2>1. SendsTerm(WarmupRelay(s))  BY <1>5 DEF WarmupCloses
    <2> QED
      BY <2>1, SignalsAge DEF SendsTerm, FilesAfterTerm, RemovesFiles, Ages, Types
  <1>6. CASE WarmupStopsRelay(s)
    BY <1>6 DEF WarmupStopsRelay, StoppedOrKilled, Ages, Types
  <1>7. CASE StopsRelay(s)
    BY <1>7, SignalsAge DEF StopsRelay, FilesAfterTerm, RemovesFiles
  <1>8. CASE FindsItStopped(s) \/ Ends(s)
    BY <1>8, SignalsAge DEF FindsItStopped, Ends, SessionEnds
  <1>9. CASE Interrupted(s)
    <2>1. \/ server' = Terminated(Own(s))
          \/ server' = Orphaned(Terminated(Own(s)), s, "stopping")
      BY <1>9 DEF Interrupted
    <2>2. pidFile' \in {pidFile, Nobody} /\ statusFile' \in {statusFile, Nobody}
      BY <1>9 DEF Interrupted, FilesAfterTerm, RemovesFiles
    <2> QED  BY <2>1, <2>2, SignalsAge
  <1>10. CASE Killed(s)
    BY <1>10, SignalsAge DEF Killed
  <1>11. CASE \/ LooksUp(s) \/ TakesPort(s) \/ RelayReady(s) \/ HealthCheck(s)
              \/ NoBrowser(s) \/ Validates(s) \/ ValidationRaises(s) \/ Confirms(s)
              \/ Deletes(s) \/ WarmupFindsRelay(s) \/ WarmupRelayReady(s) \/ Opens(s)
              \/ CookieFound(s) \/ BrowserGone(s) \/ PollTimesOut(s) \/ LingerEnds(s)
              \/ Launches(s) \/ RelayPolled(s) \/ StopSeen(s) \/ ChromiumSeen(s)
              \/ BrowserExits(s)
    BY <1>1, <1>11
    DEF LooksUp, TakesPort, RelayReady, HealthCheck, NoBrowser, Validates,
        ValidationRaises, Confirms, Deletes, WarmupFindsRelay, WarmupRelayReady, Opens,
        CookieFound, BrowserGone, PollTimesOut, LingerEnds, Launches, RelayPolled,
        StopSeen, ChromiumSeen, BrowserExits, SessionOnly
  <1> QED
    BY <1>2, <1>3, <1>4, <1>5, <1>6, <1>7, <1>8, <1>9, <1>10, <1>11
    DEF SessionStep, StartUp, Preparation, Supervision

LEMMA RelaysKeep ==
    ASSUME BrowseInv, [Next]_vars, NEW p \in Servers
    PROVE  [RelayOf(p)!Next]_(RelayOf(p)!vars)
  <1> USE DEF BrowseInv
  <1>t. Types'  BY TypesKept
  <1>u. ASSUME Ages(p),
               pidFile' \in {pidFile, Nobody} /\ statusFile' \in {statusFile, Nobody}
        PROVE  [RelayOf(p)!Next]_(RelayOf(p)!vars)
    BY <1>t, <1>u, AgesKeep, BrowseConstants
  <1>1. CASE UNCHANGED serverVars \/ UNCHANGED vars
    BY <1>1, <1>u DEF vars, serverVars, Ages
  <1>2. CASE UserStarts \/ UserStops
    BY <1>2, <1>u DEF UserStarts, UserStops, ServerTurns, RemovesFiles, Ages, Types
  <1>3. ASSUME NEW q \in Servers, ServerStep(q), ~(q = p /\ Listens(q))
        PROVE  [RelayOf(p)!Next]_(RelayOf(p)!vars)
    <2>1. DeadState(q) \in {"zombie", "gone"}  BY DeadStates
    <2>2. Ages(p)
      BY <1>3, <2>1
      DEF ServerStep, ChecksPid, Listens, Dies, LogFillsPipe, Exits, ServerTurns, Ages,
          Types
    <2>3. /\ pidFile' = p => pidFile = p
          /\ statusFile' = p => statusFile = p
      BY <1>3, BrowseConstants
      DEF ServerStep, ChecksPid, Listens, Dies, LogFillsPipe, Exits, RemovesFiles
    <2> QED  BY <1>t, <2>2, <2>3, AgesKeep
  <1>4. CASE Listens(p)
    <2>1. server[p] = "checked" /\ server'[p] = "serving" /\ pidFile' = p
      BY <1>4 DEF Listens, ServerTurns, Types
    <2>2. Life(server[p]) = "starting" /\ Life(server'[p]) = "serving"
      BY <2>1, LifeOf DEF ServerStates
    <2> QED  BY <2>1, <2>2 DEF RelayOf!Next, RelayOf!WritesPid
  <1>5. CASE ProfileStep \/ OrphanExits
    BY <1>1, <1>5
    DEF ProfileStep, SetsCookie, LosesCookie, CookieExpires, DatabaseCorrupted,
        ProfileCleaned, ProfileTurns, OrphanExits
  <1>6. ASSUME NEW s \in Sessions, SessionStep(s)
        PROVE  [RelayOf(p)!Next]_(RelayOf(p)!vars)
    BY <1>6, <1>u, SessionsAgeRelays
  <1> QED  BY <1>1, <1>2, <1>3, <1>4, <1>5, <1>6 DEF Next

\* For any number of sessions in any overlap: the relays they start, stop, kill and
\* orphan, and the user's, are servers such as Lifecycle has them; none starts
\* twice (cli.py:369-376, browse.py:733-804, pidfile.py:97-113).
THEOREM RelaysAreAsContracted == Spec => RelaysKeepContract
  <1>1. BrowseInv /\ [Next]_vars
          => [\A p \in Servers : [RelayOf(p)!Next]_(RelayOf(p)!vars)]_vars
    BY RelaysKeep
  <1> QED  BY <1>1, BrowseInvariant, PTL DEF Spec, RelaysKeepContract

\* Whence each of them implements the contract as a whole.
THEOREM EachRelayIsAsContracted ==
    ASSUME NEW p \in Servers
    PROVE  Spec => RelayOf(p)!Spec
  <1>1. Init => RelayOf(p)!Init
    BY BrowseConstants, LifeOf
    DEF Init, NoFiles, ServerStates, RelayOf!Init
  <1>2. BrowseInv /\ [Next]_vars => [RelayOf(p)!Next]_(RelayOf(p)!vars)
    BY RelaysKeep
  <1> QED  BY <1>1, <1>2, BrowseInvariant, PTL DEF Spec, RelayOf!Spec

-----------------------------------------------------------------------------
(***************************************************************************)
(* A session's way is straight: whatever fails, whoever interrupts it and  *)
(* whatever the other sessions do, it comes to no place twice.  So it asks *)
(* once, deletes once, starts each of its relays once, and makes at most   *)
(* as many turns as there are places.                                      *)
(***************************************************************************)

Nth(place) ==
    CASE place = "none" -> 0
      [] place \in {"found", "absent"} -> 1
      [] place = "waiting" -> 2
      [] place = "health" -> 3
      [] place = "checked" -> 4
      [] place = "asking" -> 5
      [] place = "rotating" -> 6
      [] place = "deleting" -> 7
      [] place = "warmup" -> 8
      [] place = "warmupWaiting" -> 9
      [] place = "opening" -> 10
      [] place = "polling" -> 11
      [] place = "lingering" -> 12
      [] place = "warmupClosing" -> 13
      [] place = "warmupStopping" -> 14
      [] place = "launching" -> 15
      [] place = "supervising" -> 16
      [] place = "finishing" -> 17
      [] place = "stopping" -> 18
      [] place \in {"ended", "killed"} -> 19

LEMMA NthOf ==
    /\ Nth("none") = 0 /\ Nth("found") = 1 /\ Nth("absent") = 1 /\ Nth("waiting") = 2
    /\ Nth("health") = 3 /\ Nth("checked") = 4 /\ Nth("asking") = 5
    /\ Nth("rotating") = 6 /\ Nth("deleting") = 7 /\ Nth("warmup") = 8
    /\ Nth("warmupWaiting") = 9 /\ Nth("opening") = 10 /\ Nth("polling") = 11
    /\ Nth("lingering") = 12 /\ Nth("warmupClosing") = 13 /\ Nth("warmupStopping") = 14
    /\ Nth("launching") = 15 /\ Nth("supervising") = 16 /\ Nth("finishing") = 17
    /\ Nth("stopping") = 18 /\ Nth("ended") = 19 /\ Nth("killed") = 19
  BY DEF Nth

GoesForward(s) == At(s)' = At(s) \/ Nth(At(s)) < Nth(At(s)')

SessionsGoForward == [][\A s \in Sessions : GoesForward(s)]_vars

\* The place a step gives a session.
LEMMA TurnGoes ==
    ASSUME Types, NEW s \in Sessions, NEW r, Turns(s, r)
    PROVE  At(s)' = r.at /\ \A t \in Sessions \ {s} : At(t)' = At(t)
  BY DEF Types, Turns, At

\* The other sessions stay where they are.
OnlyGoes(s, place) ==
    At(s)' = place /\ \A t \in Sessions \ {s} : At(t)' = At(t)

LEMMA StepGoesForward ==
    ASSUME Types, NEW s \in Sessions, SessionStep(s)
    PROVE  GoesForward(s) /\ \A t \in Sessions \ {s} : At(t)' = At(t)
  <1>s. session[s] \in Session  BY DEF Types
  <1>u. ASSUME NEW r, Turns(s, r), NEW place, r.at = place
        PROVE  OnlyGoes(s, place)
    BY <1>u, TurnGoes DEF OnlyGoes
  <1>t. ASSUME NEW place, Goes(s, place)  PROVE OnlyGoes(s, place)
    <2>1. [session[s] EXCEPT !.at = place].at = place  BY <1>s DEF Session
    <2> QED  BY <1>t, <1>u, <2>1 DEF Goes
  <1>f. ASSUME NEW c, Finishes(s, c)  PROVE OnlyGoes(s, "finishing")
    <2>1. [session[s] EXCEPT !.at = "finishing", !.code = c].at = "finishing"
      BY <1>s DEF Session
    <2> QED  BY <1>f, <1>u, <2>1 DEF Finishes
  <1>e. ASSUME NEW place, NEW c, Turns(s, EndRecord(s, place, c))
        PROVE  OnlyGoes(s, place)
    <2>1. EndRecord(s, place, c).at = place  BY DEF EndRecord, Record
    <2> QED  BY <1>e, <1>u, <2>1
  <1>n. ASSUME NEW place, OnlyGoes(s, place), Nth(At(s)) < Nth(place)
        PROVE  GoesForward(s) /\ \A t \in Sessions \ {s} : At(t)' = At(t)
    BY <1>n DEF OnlyGoes, GoesForward
  <1>1. CASE LooksUp(s)
    <2>1. ASSUME NEW t \in Sessions \ {s}  PROVE At(t)' = At(t)
      <3>1. session'[t] = [session[t] EXCEPT !.alone = FALSE] /\ session[t] \in Session
        BY <1>1 DEF LooksUp, Types
      <3> QED  BY <3>1 DEF At, Session
    <2>2. At(s) = "none" /\ At(s)' \in {"found", "absent"}
      BY <1>s, <1>1 DEF LooksUp, At, Session
    <2> QED  BY <2>1, <2>2, NthOf DEF GoesForward
  <1>2. CASE StartsRelay(s) \/ WarmupFindsRelay(s) \/ WarmupStartsRelay(s)
             \/ WarmupRelayReady(s) \/ WarmupRelayNotReady(s) \/ BrowserGone(s)
             \/ PollTimesOut(s) \/ LingerEnds(s) \/ Rotates(s) \/ StopsRelay(s)
    <2>1. PICK from, to :
             /\ At(s) = from /\ Goes(s, to)
             /\ <<from, to>> \in
                   {<<"absent", "waiting">>, <<"warmup", "opening">>,
                    <<"warmup", "warmupWaiting">>, <<"warmupWaiting", "opening">>,
                    <<"warmupWaiting", "warmupClosing">>, <<"polling", "warmupClosing">>,
                    <<"lingering", "warmupClosing">>, <<"rotating", "deleting">>,
                    <<"finishing", "stopping">>}
      BY <1>2
      DEF StartsRelay, Spawns, WarmupFindsRelay, WarmupStartsRelay, WarmupRelayReady,
          WarmupRelayNotReady, BrowserGone, PollTimesOut, LingerEnds, Rotates, StopsRelay
    <2>2. Nth(from) < Nth(to)  BY <2>1, NthOf
    <2> QED  BY <1>n, <1>t, <2>1, <2>2
  <1>3. CASE Confirms(s)
    <2>1. At(s) = "asking" /\ (Goes(s, "rotating") \/ Goes(s, "deleting"))
      BY <1>3 DEF Confirms
    <2> QED  BY <1>n, <1>t, <2>1, NthOf
  <1>4. CASE WarmupStopsRelay(s)
    <2>1. At(s) = "warmupStopping" /\ (Goes(s, "finishing") \/ Goes(s, "launching"))
      BY <1>4 DEF WarmupStopsRelay, AfterWarmup
    <2> QED  BY <1>n, <1>t, <2>1, NthOf
  <1>5. CASE CannotStart(s) \/ RelayNotReady(s) \/ FindsItStopped(s) \/ Ends(s) \/ Killed(s)
    <2>1. Active(s)
      BY <1>5 DEF CannotStart, RelayNotReady, FindsItStopped, Ends, Killed, Active
    <2>2. OnlyGoes(s, "ended") \/ OnlyGoes(s, "killed")
      BY <1>5, <1>e DEF CannotStart, RelayNotReady, FindsItStopped, Ends, Killed, SessionEnds
    <2>3. Nth(At(s)) < 19
      <3>1. At(s) \in Places \ {"none", "ended", "killed"}
        BY <1>s, <2>1 DEF Active, At, Session
      <3> QED  BY <3>1, NthOf DEF Places
    <2> QED  BY <1>n, <2>2, <2>3, NthOf
  <1>6. CASE NoBrowser(s)
    BY <1>6, <1>f, <1>n, NthOf DEF NoBrowser
  <1>7. CASE TakesPort(s)
    <2> DEFINE r(q) == [session[s] EXCEPT !.at = "health", !.port = q]
    <2>1. At(s) = "found" /\ \E q : Turns(s, r(q))
      BY <1>7 DEF TakesPort
    <2>2. \A q : r(q).at = "health"  BY <1>s DEF Session
    <2> HIDE DEF r
    <2> QED  BY <1>n, <1>u, <2>1, <2>2, NthOf
  <1>8. CASE RelayReady(s)
    <2> DEFINE r(q) == [session[s] EXCEPT !.at = "health", !.relay = Relay(s), !.port = q]
    <2>1. At(s) = "waiting" /\ \E q : Turns(s, r(q))
      BY <1>8 DEF RelayReady
    <2>2. \A q : r(q).at = "health"  BY <1>s DEF Session
    <2> HIDE DEF r
    <2> QED  BY <1>n, <1>u, <2>1, <2>2, NthOf
  <1>9. CASE CookieFound(s)
    <2> DEFINE r == [session[s] EXCEPT !.at = "lingering", !.watched = pidFile]
    <2>1. At(s) = "polling" /\ Turns(s, r)  BY <1>9 DEF CookieFound
    <2>2. r.at = "lingering"  BY <1>s DEF Session
    <2> HIDE DEF r
    <2> QED  BY <1>n, <1>u, <2>1, <2>2, NthOf
  <1>10. CASE StopSeen(s)
    <2> DEFINE r == [session[s] EXCEPT !.at = "finishing", !.code = 1, !.browser = "none"]
    <2>1. At(s) = "supervising" /\ Turns(s, r)  BY <1>10 DEF StopSeen
    <2>2. r.at = "finishing"  BY <1>s DEF Session
    <2> HIDE DEF r
    <2> QED  BY <1>n, <1>u, <2>1, <2>2, NthOf
  <1>11. CASE ChromiumSeen(s)
    <2> DEFINE r == [session[s] EXCEPT !.at = "finishing", !.code = 0, !.stopEvent = TRUE,
                                       !.browser = "none"]
    <2>1. At(s) = "supervising" /\ Turns(s, r)  BY <1>11 DEF ChromiumSeen
    <2>2. r.at = "finishing"  BY <1>s DEF Session
    <2> HIDE DEF r
    <2> QED  BY <1>n, <1>u, <2>1, <2>2, NthOf
  <1>12. CASE Deletes(s)
    <2> DEFINE r(k) == [session[s] EXCEPT !.at = "warmup", !.failed = {}, !.kept = k]
    <2>1. At(s) = "deleting" /\ \E k : Turns(s, r(k))
      BY <1>12 DEF Deletes
    <2>2. \A k : r(k).at = "warmup"  BY <1>s DEF Session
    <2> HIDE DEF r
    <2> QED  BY <1>n, <1>u, <2>1, <2>2, NthOf
  <1>13. CASE HealthCheck(s)
    <2> DEFINE r == [session[s] EXCEPT !.at = "checked", !.alone = FALSE]
    <2>1. At(s) = "health" /\ (Turns(s, r) \/ Finishes(s, 1))  BY <1>13 DEF HealthCheck
    <2>2. r.at = "checked"  BY <1>s DEF Session
    <2> HIDE DEF r
    <2> QED  BY <1>f, <1>n, <1>u, <2>1, <2>2, NthOf
  <1>14. CASE Launches(s)
    <2> DEFINE r == [session[s] EXCEPT !.at = "supervising", !.browser = Launched]
    <2>1. At(s) = "launching" /\ (Turns(s, r) \/ Finishes(s, 1))  BY <1>14 DEF Launches
    <2>2. r.at = "supervising"  BY <1>s DEF Session
    <2> HIDE DEF r
    <2> QED  BY <1>f, <1>n, <1>u, <2>1, <2>2, NthOf
  <1>15. CASE Opens(s)
    <2> DEFINE r == [session[s] EXCEPT !.at = "polling", !.browser = Launched]
    <2>1. At(s) = "opening" /\ (Turns(s, r) \/ Goes(s, "warmupClosing"))  BY <1>15 DEF Opens
    <2>2. r.at = "polling"  BY <1>s DEF Session
    <2> HIDE DEF r
    <2> QED  BY <1>t, <1>n, <1>u, <2>1, <2>2, NthOf
  <1>16. CASE Validates(s)
    <2> DEFINE broken(p) == IF session[s].tidal THEN EvaluateAll(p) ELSE {}
    <2> DEFINE next(p) == IF broken(p) = {} THEN "launching" ELSE "asking"
    <2> DEFINE r(p) == [session[s] EXCEPT !.failed = broken(p), !.at = next(p)]
    <2>1. At(s) = "checked" /\ \E p : Turns(s, r(p))
      BY <1>16 DEF Validates
    <2>2. \A p : r(p).at = next(p)  BY <1>s DEF Session
    <2>3. \A p : next(p) \in {"launching", "asking"}  OBVIOUS
    <2> HIDE DEF r, next
    <2> QED  BY <1>n, <1>u, <2>1, <2>2, <2>3, NthOf
  <1>17. CASE ValidationRaises(s)
    <2> DEFINE r == [session[s] EXCEPT !.at = "launching", !.failed = {}]
    <2>1. At(s) \in {"checked", "asking", "rotating"} /\ Turns(s, r)
      BY <1>17 DEF ValidationRaises
    <2>2. r.at = "launching"  BY <1>s DEF Session
    <2> HIDE DEF r
    <2> QED  BY <1>n, <1>u, <2>1, <2>2, NthOf
  <1>18. CASE WarmupCloses(s)
    <2> DEFINE r(next) == [session[s] EXCEPT !.browser = "none", !.watched = Nobody,
                                             !.kept = FALSE, !.earned = FALSE, !.at = next]
    <2>1. PICK next \in {"warmupStopping", "finishing", "launching"} : Turns(s, r(next))
      BY <1>18 DEF WarmupCloses, AfterWarmup
    <2>2. r(next).at = next  BY <1>s DEF Session
    <2>3. At(s) = "warmupClosing"  BY <1>18 DEF WarmupCloses
    <2> HIDE DEF r
    <2> QED  BY <1>n, <1>u, <2>1, <2>2, <2>3, NthOf
  <1>19. CASE Interrupted(s)
    <2>1. At(s) \in Places \ {"none", "ended", "killed"}
      BY <1>s, <1>19 DEF Interrupted, Active, At, Session
    <2>2. CASE At(s) \in {"found", "absent", "waiting", "finishing", "stopping"}
      <3>1. Turns(s, EndRecord(s, "ended", 130))  BY <1>19, <2>2 DEF Interrupted
      <3> QED  BY <1>n, <1>e, <2>2, <3>1, NthOf
    <2>3. CASE At(s) \notin {"found", "absent", "waiting", "finishing", "stopping"}
      <3> DEFINE next == IF InWarmup(s) THEN "warmupClosing" ELSE "finishing"
      <3> DEFINE c == IF At(s) = "asking" THEN 1 ELSE 130
      <3> DEFINE r == [session[s] EXCEPT !.at = next, !.browser = "none", !.failed = {},
                                         !.code = c]
      <3>1. Turns(s, r)  BY <1>19, <2>3 DEF Interrupted
      <3>2. r.at = next  BY <1>s DEF Session
      <3>3. Nth(At(s)) < Nth(next)
        BY <2>1, <2>3, NthOf DEF InWarmup, Places
      <3> HIDE DEF r, next
      <3> QED  BY <1>n, <1>u, <3>1, <3>2, <3>3
    <2> QED  BY <2>2, <2>3
  <1>20. CASE RelayPolled(s) \/ BrowserExits(s)
    <2>1. \/ Turns(s, [session[s] EXCEPT !.stopEvent = TRUE])
          \/ Turns(s, [session[s] EXCEPT !.browser = "exited"])
      BY <1>20 DEF RelayPolled, BrowserExits
    <2>2. /\ [session[s] EXCEPT !.stopEvent = TRUE].at = At(s)
          /\ [session[s] EXCEPT !.browser = "exited"].at = At(s)
      BY <1>s DEF Session, At
    <2> QED  BY <1>u, <2>1, <2>2 DEF OnlyGoes, GoesForward
  <1>21. CASE AutoRotates(s)
    BY <1>21 DEF AutoRotates, At, GoesForward
  <1> QED
    BY <1>1, <1>2, <1>3, <1>4, <1>5, <1>6, <1>7, <1>8, <1>9, <1>10, <1>11, <1>12, <1>13, <1>14, <1>15, <1>16, <1>17, <1>18, <1>19, <1>20, <1>21
    DEF SessionStep, StartUp, Preparation, Supervision

LEMMA OthersLeaveSessions ==
    ASSUME Types, UserStarts \/ UserStops \/ (\E p \in Servers : ServerStep(p))
                  \/ ProfileStep \/ OrphanExits \/ UNCHANGED vars,
           NEW s \in Sessions
    PROVE  At(s)' = At(s)
  <1>s. session[s] \in Session  BY DEF Types
  <1>1. CASE UserStarts
    <2>1. \A t \in Sessions : session'[t] = [session[t] EXCEPT !.alone = FALSE]
      BY <1>1 DEF UserStarts
    <2>2. [session[s] EXCEPT !.alone = FALSE].at = session[s].at  BY <1>s DEF Session
    <2> QED  BY <2>1, <2>2 DEF At
  <1>2. CASE SetsCookie
    <2>1. session'[s] = [session[s] EXCEPT !.earned = session[s].earned \/ InWarmup(s)]
      BY <1>2 DEF SetsCookie
    <2> DEFINE e == session[s].earned \/ InWarmup(s)
    <2>2. session'[s] = [session[s] EXCEPT !.earned = e]  BY <2>1
    <2> HIDE DEF e
    <2> QED  BY <1>s, <2>2 DEF At, Session
  <1>3. CASE UNCHANGED session
    BY <1>3 DEF At
  <1> QED
    BY <1>1, <1>2, <1>3
    DEF UserStops, ServerStep, ChecksPid, Listens, Dies, LogFillsPipe, Exits, ServerTurns,
        ProfileStep, LosesCookie, CookieExpires, DatabaseCorrupted, ProfileCleaned,
        ProfileTurns, OrphanExits, vars

\* For any number of sessions: none ever goes back, not by a failed validation, a
\* timeout, an interrupt in its cleanup or the death of a relay (cli.py:741-1046,
\* warmup.py:224-369, browse.py:985-1044).
THEOREM SessionsNeverGoBack == Spec => SessionsGoForward
  <1>1. ASSUME Types, [Next]_vars, NEW s \in Sessions  PROVE GoesForward(s)
    <2>1. ASSUME NEW t \in Sessions, SessionStep(t)  PROVE GoesForward(s)
      BY <1>1, <2>1, StepGoesForward DEF GoesForward
    <2> QED  BY <1>1, <2>1, OthersLeaveSessions DEF Next, GoesForward
  <1>2. BrowseInv /\ [Next]_vars => [\A s \in Sessions : GoesForward(s)]_vars
    BY <1>1 DEF BrowseInv
  <1> QED  BY <1>2, BrowseInvariant, PTL DEF Spec, SessionsGoForward

=============================================================================
