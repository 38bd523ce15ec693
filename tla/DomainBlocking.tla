---------------------------- MODULE DomainBlocking ----------------------------
(***************************************************************************)
(* Blocked domains: the commands block and unblock (proxy_relay/cli.py),   *)
(* the configuration file they rewrite (config.py) and the servers that    *)
(* load it, or the file that --config names, when they start and again on  *)
(* SIGUSR2 (server.py).                                                    *)
(*                                                                         *)
(* Nothing locks the file.  A command reads it, truncates it, writes it,   *)
(* and then looks for its profile's server and signals it; a server may    *)
(* load the file between any two of these steps.                           *)
(*                                                                         *)
(* Abstractions.  The file is its [profiles] table, and of each section    *)
(* its blocked_domains.  PID files are Lifecycle's: here a command finds a *)
(* server from the moment it has written its PID until it is told to stop. *)
(* Of two commands that write at once the later content wins.  A command   *)
(* names one domain.  Nobody edits a file by hand while a server runs.     *)
(***************************************************************************)
EXTENDS Integers, FiniteSets

CONSTANTS
    Profiles,   \* names of profiles
    Default,    \* the profile the others inherit from
    Domains,    \* domain names
    Tidal,      \* TIDAL_DOMAINS
    Commands,   \* runs of block and unblock
    NoFile,     \* there is no configuration file
    Unset,      \* the list of a section that has none: no list of domains
    Nothing     \* no request, no promise

ASSUME BlockingConstants ==
    /\ Default \in Profiles
    /\ Tidal \subseteq Domains
    /\ ~(Unset \subseteq Domains)

VARIABLES
    config,     \* CONFIG_PATH: its sections' lists, or NoFile
    server,     \* of each profile: how far its start has come
    session,    \* the server was started with a TIDAL start URL
    own,        \* the file it was started with by --config, or Nothing
    blocked,    \* _blocked_domains
    reloading,  \* a reload is scheduled in the server's loop
    at,         \* where each command stands
    request,    \* what it was asked
    doc,        \* the file as it read it
    overlapped, \* another command ran at the same time
    promised,   \* what the last command has announced of each profile
    unblocked,  \* every domain some command was to unblock
    baseless    \* some command found no list to start from

files == <<config>>
serverVars == <<server, session, own, blocked, reloading>>
commandVars == <<at, request, doc>>
history == <<overlapped, promised, unblocked, baseless>>
vars == <<files, serverVars, commandVars, history>>

\* _DEFAULT_CONFIG, and a file that is open for writing.
DefaultConfig == [p \in {Default} |-> Tidal]

\* The files a user starts from block the TIDAL domains.
Initials == {DefaultConfig, [p \in {Default} |-> Unset]}

Truncated == [p \in {} |-> Tidal]

Lists == (SUBSET Domains) \cup {Unset}

Configs == UNION {[ps -> Lists] : ps \in SUBSET Profiles}

ASSUME NoFileIsNoConfig == NoFile \notin Configs

CommandRequests ==
    [profile : Profiles, op : {"block", "unblock"}, domain : Domains]

HasList(cfg, p) == p \in DOMAIN cfg /\ cfg[p] # Unset

Init ==
    /\ config \in {NoFile} \cup Initials
    /\ server = [p \in Profiles |-> "down"]
    /\ session = [p \in Profiles |-> FALSE]
    /\ own = [p \in Profiles |-> Nothing]
    /\ blocked = [p \in Profiles |-> {}]
    /\ reloading = [p \in Profiles |-> FALSE]
    /\ at = [c \in Commands |-> "none"]
    /\ request = [c \in Commands |-> Nothing]
    /\ doc = [c \in Commands |-> Truncated]
    /\ overlapped = [c \in Commands |-> FALSE]
    /\ promised = [p \in Profiles |-> Nothing]
    /\ unblocked = {}
    /\ baseless = FALSE

-----------------------------------------------------------------------------
(***************************************************************************)
(* load_config, _parse_profile and resolve_blocked_domains.                *)
(***************************************************************************)

\* A file without [profiles.default] is a ConfigError.
Parses(cfg) == Default \in DOMAIN cfg

\* Faulty variant: an empty list counts as absent.
InheritedUnlessListed(cfg, p) ==
    IF HasList(cfg, p) /\ cfg[p] # {} THEN cfg[p] ELSE cfg[Default]

Inherited(cfg, p) == IF HasList(cfg, p) THEN cfg[p] ELSE cfg[Default]

\* Faulty variant: no list at all is passed on.
ResolveAsListed(list, tidal) == IF tidal /\ list # Unset THEN list \ Tidal ELSE list

Resolve(list, tidal) ==
    LET base == IF list = Unset THEN Tidal ELSE list
    IN  IF tidal THEN base \ Tidal ELSE base

-----------------------------------------------------------------------------
(***************************************************************************)
(* A server.                                                               *)
(***************************************************************************)

\* The file a server loads, each time it does.
File(p) == IF own[p] = Nothing THEN config ELSE own[p]

\* start loads the file, which it creates when there is none; it gives up on a
\* file that does not parse.
Loads(p) ==
    /\ server[p] = "down"
    /\ \E tidal \in BOOLEAN, given \in {Nothing} \cup Initials :
          /\ own' = [own EXCEPT ![p] = given]
          /\ config' = IF given = Nothing /\ config = NoFile THEN DefaultConfig ELSE config
          /\ Parses(File(p)')
          /\ session' = [session EXCEPT ![p] = tidal]
          /\ blocked' = [blocked EXCEPT ![p] = Resolve(Inherited(File(p)', p), tidal)]
    /\ server' = [server EXCEPT ![p] = "loaded"]
    /\ UNCHANGED <<reloading, commandVars, history>>

ServerTurns(p, from, to) ==
    /\ server[p] = from
    /\ server' = [server EXCEPT ![p] = to]
    /\ UNCHANGED <<files, session, own, blocked, reloading, commandVars, history>>

\* The PID file is written, and later the handler of SIGUSR2 installed.
WritesPid(p) == ServerTurns(p, "loaded", "findable")

InstallsHandler(p) == ServerTurns(p, "findable", "ready")

\* The server is stopped, fails or crashes: nothing of it is left.
Down(p) ==
    /\ server' = [server EXCEPT ![p] = "down"]
    /\ session' = [session EXCEPT ![p] = FALSE]
    /\ own' = [own EXCEPT ![p] = Nothing]
    /\ blocked' = [blocked EXCEPT ![p] = {}]
    /\ reloading' = [reloading EXCEPT ![p] = FALSE]

Ends(p) ==
    /\ server[p] # "down"
    /\ Down(p)
    /\ UNCHANGED <<files, commandVars, history>>

\* _reload_blocked_from_config: the session's start URL is not looked at.
Reloads(p) ==
    /\ reloading[p]
    /\ reloading' = [reloading EXCEPT ![p] = FALSE]
    /\ blocked' = IF Parses(File(p))
                  THEN [blocked EXCEPT ![p] = Resolve(Inherited(File(p), p), FALSE)]
                  ELSE blocked
    /\ UNCHANGED <<files, server, session, own, commandVars, history>>

-----------------------------------------------------------------------------
(***************************************************************************)
(* A command: _modify_blocked_domains.                                     *)
(***************************************************************************)

InProgress(c) == at[c] \notin {"none", "done"}

Goto(c, place) == at' = [at EXCEPT ![c] = place]

\* Faulty variant: a profile without a list of its own starts from none.
CurrentOwn(cfg, p) == IF HasList(cfg, p) THEN cfg[p] ELSE {}

\* What is written for the profile, or for the default one, or nothing.
Current(cfg, p) ==
    IF HasList(cfg, p) THEN cfg[p] ELSE IF HasList(cfg, Default) THEN cfg[Default] ELSE {}

\* The file a request makes of the one that was read.
Update(cfg, r) ==
    LET current == Current(cfg, r.profile)
        list == IF r.op = "block" THEN current \cup {r.domain} ELSE current \ {r.domain}
    IN  [p \in DOMAIN cfg \cup {r.profile} |-> IF p = r.profile THEN list ELSE cfg[p]]

\* With two commands at once, nothing that was announced is sure any more.
Reads(c) ==
    LET others == {d \in Commands \ {c} : InProgress(d)}
    IN  /\ at[c] = "none"
        /\ config # NoFile
        /\ Goto(c, "read")
        /\ doc' = [doc EXCEPT ![c] = config]
        /\ \E r \in CommandRequests :
              /\ request' = [request EXCEPT ![c] = r]
              /\ unblocked' = IF r.op = "unblock" THEN unblocked \cup {r.domain} ELSE unblocked
              /\ baseless' = (baseless \/ ~(HasList(config, r.profile) \/ HasList(config, Default)))
        /\ overlapped' = [d \in Commands |->
                             IF d = c THEN others # {} ELSE overlapped[d] \/ d \in others]
        /\ promised' = IF others = {} THEN promised ELSE [p \in Profiles |-> Nothing]
        /\ UNCHANGED <<files, serverVars>>

\* A reload that finds the file truncated does not take it over.
Truncates(c) ==
    /\ at[c] = "read"
    /\ Goto(c, "truncated")
    /\ config' = Truncated
    /\ promised' = [p \in Profiles |->
                       IF p = request[c].profile \/ reloading[p] THEN Nothing ELSE promised[p]]
    /\ UNCHANGED <<serverVars, request, doc, overlapped, unblocked, baseless>>

Writes(c) ==
    /\ at[c] = "truncated"
    /\ Goto(c, "written")
    /\ config' = Update(doc[c], request[c])
    /\ UNCHANGED <<serverVars, request, doc, history>>

Done(c) ==
    /\ Goto(c, "done")
    /\ request' = [request EXCEPT ![c] = Nothing]
    /\ doc' = [doc EXCEPT ![c] = Truncated]
    /\ overlapped' = [overlapped EXCEPT ![c] = FALSE]
    /\ UNCHANGED <<unblocked, baseless>>

\* The file cannot be opened, or the write fails and it stays as it is.
WriteFails(c) ==
    /\ at[c] \in {"read", "truncated"}
    /\ Done(c)
    /\ promised' = IF at[c] = "read" THEN promised ELSE [p \in Profiles |-> Nothing]
    /\ UNCHANGED <<files, serverVars>>

\* The command says that the change is in force, or will be on the next start.
\* Neither is so for a start that has loaded the file and is yet to be found, nor
\* with a file that has lost its default section.
Announces(c) ==
    LET p == request[c].profile
        idle == ~overlapped[c] /\ server[p] \notin {"loaded", "findable"}
    IN  /\ Done(c)
        /\ promised' = [promised EXCEPT ![p] =
                           IF idle /\ Parses(config) THEN request[c] ELSE Nothing]
        /\ UNCHANGED files

\* The PID is read and its process alive.
FindsServer(c) ==
    /\ at[c] = "written"
    /\ server[request[c].profile] \in {"findable", "ready"}
    /\ Goto(c, "sending")
    /\ UNCHANGED <<files, serverVars, request, doc, history>>

FindsNone(c) ==
    /\ at[c] = "written"
    /\ server[request[c].profile] \in {"down", "loaded"}
    /\ Announces(c)
    /\ UNCHANGED serverVars

\* SIGUSR2: scheduled in the loop once the handler is there, fatal before.
Sends(c) ==
    LET p == request[c].profile
    IN  /\ at[c] = "sending"
        /\ \/ /\ server[p] = "ready"
              /\ reloading' = [reloading EXCEPT ![p] = TRUE]
              /\ UNCHANGED <<server, session, own, blocked>>
           \/ server[p] = "findable" /\ Down(p)
           \/ server[p] \in {"down", "loaded"} /\ UNCHANGED serverVars
        /\ Announces(c)

-----------------------------------------------------------------------------
ServerStep(p) == Loads(p) \/ WritesPid(p) \/ InstallsHandler(p) \/ Ends(p) \/ Reloads(p)

CommandStep(c) ==
    \/ Reads(c) \/ Truncates(c) \/ Writes(c) \/ WriteFails(c)
    \/ FindsServer(c) \/ FindsNone(c) \/ Sends(c)

Next ==
    \/ \E p \in Profiles : ServerStep(p)
    \/ \E c \in Commands : CommandStep(c)

Spec == Init /\ [][Next]_vars

-----------------------------------------------------------------------------
(***************************************************************************)
(* Properties.                                                             *)
(***************************************************************************)

BlockingTypeOK ==
    /\ config \in {NoFile} \cup Configs
    /\ server \in [Profiles -> {"down", "loaded", "findable", "ready"}]
    /\ session \in [Profiles -> BOOLEAN]
    /\ own \in [Profiles -> {Nothing} \cup Initials]
    /\ blocked \in [Profiles -> SUBSET Domains]
    /\ reloading \in [Profiles -> BOOLEAN]
    /\ at \in [Commands -> {"none", "read", "truncated", "written", "sending", "done"}]
    /\ request \in [Commands -> {Nothing} \cup CommandRequests]
    /\ doc \in [Commands -> Configs]
    /\ overlapped \in [Commands -> BOOLEAN]
    /\ promised \in [Profiles -> {Nothing} \cup CommandRequests]
    /\ unblocked \subseteq Domains
    /\ baseless \in BOOLEAN

\* What a block or unblock has announced is what the profile's server does, once
\* it has handled the signal or has started anew: through any order of starts,
\* crashes, reloads and commands for other profiles, unless two commands overlap.
\* Not so for a server started with --config: it goes on loading its own file, which
\* no command writes (cli.py:325-327, 1107-1183, server.py:254-281, config.py:350-410).
AnnouncedIsInForce ==
    \A p \in Profiles :
        server[p] = "ready" /\ own[p] = Nothing /\ ~reloading[p] /\ promised[p] # Nothing =>
            IF promised[p].op = "unblock"
            THEN promised[p].domain \notin blocked[p]
            ELSE promised[p].domain \in blocked[p] \cup (IF session[p] THEN Tidal ELSE {})

\* The TIDAL domains, which are blocked by default, stay blocked until a command
\* unblocks them or a TIDAL session is started: whatever overlaps, fails half-way
\* or is read while it is written, and whichever file a server was started with.
\* The exception is a command that found neither the profile's list nor the default
\* one and so started from an empty one (cli.py:325-327, 1136-1149, server.py:254-281,
\* config.py:391-410).
OnlyUnblockUnblocks ==
    \A p \in Profiles :
        server[p] # "down" /\ ~session[p] /\ ~baseless => Tidal \ unblocked \subseteq blocked[p]

=============================================================================
