------------------------ MODULE DomainBlockingProofs ------------------------
(***************************************************************************)
(* Proofs about DomainBlocking, for any number of profiles, domains and    *)
(* commands in any overlap.                                                *)
(***************************************************************************)
EXTENDS DomainBlocking, TLAPS

\* Every list of a configuration has the TIDAL domains nobody was to unblock.
Covered(cfg) ==
    \A p \in DOMAIN cfg : cfg[p] # Unset => Tidal \ unblocked \subseteq cfg[p]

\* A server that runs has loaded a file, and only a ready one reloads.
ServersHaveAFile ==
    /\ config = NoFile =>
          \A p \in Profiles : server[p] # "down" => own[p] # Nothing
    /\ \A p \in Profiles : reloading[p] => server[p] = "ready"

\* A command in progress has a request, and one about to write a list to start from.
CommandsHaveARequest ==
    \A c \in Commands :
        /\ at[c] \notin {"none", "done"} => request[c] \in CommandRequests
        /\ at[c] \in {"read", "truncated"} =>
              /\ request[c].op = "unblock" => request[c].domain \in unblocked
              /\ ~baseless => \/ HasList(doc[c], request[c].profile)
                              \/ HasList(doc[c], Default)

\* What is in the file, and in every copy that may be written back, is covered.
FilesAreCovered ==
    ~baseless =>
        /\ config # NoFile => Covered(config)
        /\ \A c \in Commands : Covered(doc[c])

BlockingInv ==
    /\ BlockingTypeOK
    /\ ServersHaveAFile
    /\ CommandsHaveARequest
    /\ FilesAreCovered
    /\ OnlyUnblockUnblocks

-----------------------------------------------------------------------------
(***************************************************************************)
(* Configurations.                                                         *)
(***************************************************************************)

LEMMA ConfigIntro ==
    ASSUME NEW ps \in SUBSET Profiles, NEW cfg \in [ps -> Lists]
    PROVE  cfg \in Configs
BY DEF Configs

LEMMA ConfigElim ==
    ASSUME NEW cfg \in Configs
    PROVE  /\ DOMAIN cfg \subseteq Profiles
           /\ cfg \in [DOMAIN cfg -> Lists]
           /\ cfg # NoFile
BY NoFileIsNoConfig DEF Configs, NoFileIsNoConfig

LEMMA FixedConfigs ==
    /\ Truncated \in Configs
    /\ Initials \subseteq Configs
    /\ \A cfg \in Initials : Parses(cfg) /\ Covered(cfg)
<1>1. Truncated \in [{} -> Lists]
  BY DEF Truncated
<1>2. DefaultConfig \in [{Default} -> Lists]
  BY BlockingConstants DEF BlockingConstants, DefaultConfig, Lists
<1>3. [p \in {Default} |-> Unset] \in [{Default} -> Lists]
  BY DEF Lists
<1>4. {} \in SUBSET Profiles /\ {Default} \in SUBSET Profiles
  BY BlockingConstants DEF BlockingConstants
<1>5. \A cfg \in Initials : Parses(cfg) /\ Covered(cfg)
  BY DEF Initials, DefaultConfig, Parses, Covered
<1>6. QED
  BY <1>1, <1>2, <1>3, <1>4, <1>5 DEF Configs, Initials

LEMMA UpdateIsConfig ==
    ASSUME NEW cfg \in Configs, NEW r \in CommandRequests
    PROVE  Update(cfg, r) \in Configs
<1>1. DOMAIN cfg \subseteq Profiles /\ cfg \in [DOMAIN cfg -> Lists] /\ r.profile \in Profiles
      /\ r.domain \in Domains
  BY ConfigElim DEF CommandRequests
<1>2. Current(cfg, r.profile) \in SUBSET Domains
  BY <1>1 DEF Current, HasList, Lists
<1>3. Update(cfg, r) \in [DOMAIN cfg \cup {r.profile} -> Lists]
  BY <1>1, <1>2 DEF Update, Lists
<1>4. QED
  BY <1>1, <1>3, ConfigIntro

\* What a server takes from a file that parses.
LEMMA ResolvedIsTyped ==
    ASSUME NEW cfg \in Configs, Parses(cfg), NEW p \in Profiles, NEW tidal \in BOOLEAN
    PROVE  Resolve(Inherited(cfg, p), tidal) \in SUBSET Domains
<1>1. Inherited(cfg, p) \in Lists
  BY ConfigElim DEF Inherited, HasList, Parses
<1>2. QED
  BY <1>1, BlockingConstants DEF BlockingConstants, Resolve, Lists

\* A server that loads a covered file without a TIDAL session blocks what it lists.
LEMMA ResolvedIsCovered ==
    ASSUME NEW cfg \in Configs, Parses(cfg), NEW p \in Profiles, Covered(cfg)
    PROVE  Tidal \ unblocked \subseteq Resolve(Inherited(cfg, p), FALSE)
BY DEF Covered, Parses, Inherited, HasList, Resolve

\* A command with a list to start from leaves the file covered.
LEMMA UpdateIsCovered ==
    ASSUME NEW cfg \in Configs, NEW r \in CommandRequests, Covered(cfg),
           r.op = "unblock" => r.domain \in unblocked,
           HasList(cfg, r.profile) \/ HasList(cfg, Default)
    PROVE  Covered(Update(cfg, r))
<1>1. Tidal \ unblocked \subseteq Current(cfg, r.profile)
  BY DEF Covered, HasList, Current
<1>2. r.op \in {"block", "unblock"}
  BY DEF CommandRequests
<1>3. QED
  BY <1>1, <1>2 DEF Covered, Update

\* Coverage survives a step after which no fewer domains are to be unblocked.
LEMMA CoverageIsKept ==
    ASSUME NEW cfg, Covered(cfg), unblocked \subseteq unblocked',
           NEW cfg2, cfg2 = cfg
    PROVE  \A p \in DOMAIN cfg2 : cfg2[p] # Unset => Tidal \ unblocked' \subseteq cfg2[p]
BY DEF Covered

-----------------------------------------------------------------------------
LEMMA BlockingInitInv == Init => BlockingInv
<1> SUFFICES ASSUME Init PROVE BlockingInv
  OBVIOUS
<1>1. BlockingTypeOK
  BY FixedConfigs DEF Init, BlockingTypeOK
<1>2. ServersHaveAFile /\ CommandsHaveARequest /\ OnlyUnblockUnblocks
  BY DEF Init, ServersHaveAFile, CommandsHaveARequest, OnlyUnblockUnblocks
<1>3. FilesAreCovered
  <2>1. Covered(Truncated) /\ (config # NoFile => Covered(config))
    BY FixedConfigs DEF Init, Covered, Truncated
  <2>2. QED
    BY <2>1 DEF Init, FilesAreCovered, Covered
<1>4. QED
  BY <1>1, <1>2, <1>3 DEF BlockingInv

\* A server's steps: only loading and reloading take the file over.
LEMMA ServerInv ==
    ASSUME BlockingInv, NEW q \in Profiles, ServerStep(q)
    PROVE  BlockingInv'
<1> USE DEF BlockingInv, files, commandVars, history
<1>1. CASE Loads(q)
  <2>1. PICK tidal \in BOOLEAN, given \in {Nothing} \cup Initials :
           /\ own' = [own EXCEPT ![q] = given]
           /\ config' = IF given = Nothing /\ config = NoFile THEN DefaultConfig ELSE config
           /\ Parses(File(q)')
           /\ session' = [session EXCEPT ![q] = tidal]
           /\ blocked' = [blocked EXCEPT ![q] = Resolve(Inherited(File(q)', q), tidal)]
    BY <1>1 DEF Loads
  <2> DEFINE cfg == IF given = Nothing THEN config' ELSE given
  <2>2. own'[q] = given /\ File(q)' = cfg
    BY <2>1 DEF File, BlockingTypeOK
  <2>a. /\ config' \in {NoFile} \cup Configs
        /\ cfg \in Configs /\ Parses(cfg)
        /\ given = Nothing => config' # NoFile
        /\ config # NoFile => config' # NoFile
    BY <2>1, <2>2, FixedConfigs, ConfigElim DEF Initials, BlockingTypeOK
  <2>3. BlockingTypeOK'
    <3>1. Resolve(Inherited(cfg, q), tidal) \in SUBSET Domains
      BY <2>a, ResolvedIsTyped
    <3>2. QED
      BY <1>1, <2>1, <2>2, <2>a, <3>1 DEF Loads, BlockingTypeOK
  <2>4. ServersHaveAFile' /\ CommandsHaveARequest'
    BY <1>1, <2>1, <2>2, <2>a DEF Loads, BlockingTypeOK, ServersHaveAFile, CommandsHaveARequest
  <2>5. (~baseless /\ config' # NoFile => Covered(config')) /\ (~baseless => Covered(cfg))
    BY <2>1, <2>a, FixedConfigs DEF FilesAreCovered, Initials
  <2>6. FilesAreCovered'
    BY <1>1, <2>5 DEF Loads, FilesAreCovered, Covered
  <2>7. ~baseless => Tidal \ unblocked \subseteq Resolve(Inherited(cfg, q), FALSE)
    BY <2>a, <2>5, ResolvedIsCovered
  <2>8. OnlyUnblockUnblocks'
    BY <1>1, <2>1, <2>2, <2>7 DEF Loads, BlockingTypeOK, OnlyUnblockUnblocks
  <2>9. QED
    BY <2>3, <2>4, <2>6, <2>8
<1>2. CASE WritesPid(q) \/ InstallsHandler(q)
  BY <1>2 DEF WritesPid, InstallsHandler, ServerTurns, BlockingTypeOK, ServersHaveAFile,
     CommandsHaveARequest, FilesAreCovered, Covered, OnlyUnblockUnblocks
<1>3. CASE Ends(q)
  BY <1>3 DEF Ends, Down, BlockingTypeOK, ServersHaveAFile, CommandsHaveARequest,
     FilesAreCovered, Covered, OnlyUnblockUnblocks
<1>4. CASE Reloads(q)
  <2>1. File(q) \in Configs /\ (~baseless => Covered(File(q)))
    <3>1. CASE own[q] = Nothing
      BY <1>4, <3>1, ConfigElim DEF Reloads, ServersHaveAFile, BlockingTypeOK, File, FilesAreCovered
    <3>2. CASE own[q] # Nothing
      BY <3>2, FixedConfigs DEF BlockingTypeOK, File
    <3>3. QED
      BY <3>1, <3>2
  <2>2. BlockingTypeOK'
    BY <1>4, <2>1, ResolvedIsTyped DEF Reloads, BlockingTypeOK
  <2>3. ServersHaveAFile' /\ CommandsHaveARequest' /\ FilesAreCovered'
    BY <1>4 DEF Reloads, BlockingTypeOK, ServersHaveAFile, CommandsHaveARequest,
       FilesAreCovered, Covered
  <2>4. Parses(File(q)) /\ ~baseless =>
           Tidal \ unblocked \subseteq Resolve(Inherited(File(q), q), FALSE)
    BY <2>1, ResolvedIsCovered
  <2>5. OnlyUnblockUnblocks'
    BY <1>4, <2>4 DEF Reloads, BlockingTypeOK, OnlyUnblockUnblocks
  <2>6. QED
    BY <2>2, <2>3, <2>5
<1>5. QED
  BY <1>1, <1>2, <1>3, <1>4 DEF ServerStep

\* A command reads the file: the copy is as covered as the file.
LEMMA ReadsInv ==
    ASSUME BlockingInv, NEW c \in Commands, Reads(c)
    PROVE  BlockingInv'
<1> USE DEF BlockingInv, files, serverVars
<1>1. PICK r \in CommandRequests :
         /\ request' = [request EXCEPT ![c] = r]
         /\ unblocked' = IF r.op = "unblock" THEN unblocked \cup {r.domain} ELSE unblocked
         /\ baseless' = (baseless \/ ~(HasList(config, r.profile) \/ HasList(config, Default)))
  BY DEF Reads
<1>2. config \in Configs /\ config # NoFile /\ doc' = [doc EXCEPT ![c] = config]
      /\ r.profile \in Profiles /\ r.domain \in Domains
      /\ unblocked \subseteq unblocked' /\ (~baseless' => ~baseless)
  BY <1>1 DEF Reads, BlockingTypeOK, CommandRequests
<1>3. BlockingTypeOK'
  <2>1. overlapped' \in [Commands -> BOOLEAN]
    BY DEF Reads, BlockingTypeOK
  <2>2. promised' \in [Profiles -> {Nothing} \cup CommandRequests]
    BY DEF Reads, BlockingTypeOK
  <2>3. at' \in [Commands -> {"none", "read", "truncated", "written", "sending", "done"}]
    BY DEF Reads, Goto, BlockingTypeOK
  <2>4. baseless' \in BOOLEAN /\ unblocked' \subseteq Domains
    BY <1>1, <1>2 DEF BlockingTypeOK
  <2>5. /\ request' \in [Commands -> {Nothing} \cup CommandRequests]
        /\ doc' \in [Commands -> Configs]
    BY <1>1, <1>2 DEF BlockingTypeOK
  <2>6. UNCHANGED <<config, server, session, own, blocked, reloading>>
    BY DEF Reads
  <2>7. QED
    BY <2>1, <2>2, <2>3, <2>4, <2>5, <2>6 DEF BlockingTypeOK
<1>4. ServersHaveAFile'
  BY DEF Reads, ServersHaveAFile
<1>5. CommandsHaveARequest'
  BY <1>1, <1>2 DEF Reads, Goto, BlockingTypeOK, CommandsHaveARequest, HasList
<1>6. FilesAreCovered'
  BY <1>2 DEF Reads, BlockingTypeOK, FilesAreCovered, Covered
<1>7. OnlyUnblockUnblocks'
  BY <1>2 DEF Reads, OnlyUnblockUnblocks
<1>8. QED
  BY <1>3, <1>4, <1>5, <1>6, <1>7

\* A command truncates the file and writes its copy back, changed, or fails to.
LEMMA WritingInv ==
    ASSUME BlockingInv, NEW c \in Commands, Truncates(c) \/ Writes(c) \/ WriteFails(c)
    PROVE  BlockingInv'
<1> USE DEF BlockingInv, files, serverVars, history, Goto
<1>1. CASE Truncates(c)
  <2>1. BlockingTypeOK'
    BY <1>1, FixedConfigs DEF Truncates, BlockingTypeOK
  <2>2. config' # NoFile
    BY <1>1, FixedConfigs, ConfigElim DEF Truncates
  <2>3. ServersHaveAFile' /\ CommandsHaveARequest' /\ OnlyUnblockUnblocks'
    BY <1>1, <2>2 DEF Truncates, BlockingTypeOK, ServersHaveAFile, CommandsHaveARequest,
       OnlyUnblockUnblocks
  <2>4. FilesAreCovered'
    BY <1>1 DEF Truncates, FilesAreCovered, Covered, Truncated
  <2>5. QED
    BY <2>1, <2>3, <2>4
<1>2. CASE Writes(c)
  <2>1. request[c] \in CommandRequests /\ doc[c] \in Configs
    BY <1>2 DEF Writes, CommandsHaveARequest, BlockingTypeOK
  <2>2. config' \in Configs /\ config' # NoFile
    BY <1>2, <2>1, UpdateIsConfig, ConfigElim DEF Writes
  <2>3. BlockingTypeOK'
    BY <1>2, <2>2 DEF Writes, BlockingTypeOK
  <2>4. ServersHaveAFile' /\ CommandsHaveARequest' /\ OnlyUnblockUnblocks'
    BY <1>2, <2>2 DEF Writes, BlockingTypeOK, ServersHaveAFile, CommandsHaveARequest,
       OnlyUnblockUnblocks
  <2>5. ~baseless => Covered(config')
    BY <1>2, <2>1, UpdateIsCovered DEF Writes, CommandsHaveARequest, FilesAreCovered
  <2>6. FilesAreCovered'
    BY <1>2, <2>5 DEF Writes, FilesAreCovered, Covered
  <2>7. QED
    BY <2>3, <2>4, <2>6
<1>3. CASE WriteFails(c)
  <2>1. BlockingTypeOK'
    BY <1>3, FixedConfigs DEF WriteFails, Done, BlockingTypeOK
  <2>2. ServersHaveAFile' /\ CommandsHaveARequest' /\ OnlyUnblockUnblocks'
    BY <1>3 DEF WriteFails, Done, BlockingTypeOK, ServersHaveAFile, CommandsHaveARequest,
       OnlyUnblockUnblocks
  <2>3. FilesAreCovered'
    BY <1>3 DEF WriteFails, Done, BlockingTypeOK, FilesAreCovered, Covered, Truncated
  <2>4. QED
    BY <2>1, <2>2, <2>3
<1>4. QED
  BY <1>1, <1>2, <1>3

\* The signal may take a server down, and the command is over.
LEMMA AnnouncingInv ==
    ASSUME BlockingInv, NEW c \in Commands, at[c] \in {"written", "sending"}, Announces(c),
           \/ UNCHANGED serverVars
           \/ \E p \in Profiles : Down(p)
           \/ \E p \in Profiles : /\ server[p] = "ready"
                                  /\ reloading' = [reloading EXCEPT ![p] = TRUE]
                                  /\ UNCHANGED <<server, session, own, blocked>>
    PROVE  BlockingInv'
<1> USE DEF BlockingInv, files, serverVars, Goto, Announces, Done
<1>1. BlockingTypeOK'
  <2>1. /\ server' \in [Profiles -> {"down", "loaded", "findable", "ready"}]
        /\ session' \in [Profiles -> BOOLEAN]
        /\ own' \in [Profiles -> {Nothing} \cup Initials]
        /\ blocked' \in [Profiles -> SUBSET Domains]
        /\ reloading' \in [Profiles -> BOOLEAN]
    BY DEF BlockingTypeOK, Down
  <2>2. promised' \in [Profiles -> {Nothing} \cup CommandRequests]
    BY DEF BlockingTypeOK
  <2>3. QED
    BY <2>1, <2>2, FixedConfigs DEF BlockingTypeOK
<1>2. ServersHaveAFile'
  BY DEF Down, BlockingTypeOK, ServersHaveAFile
<1>3. CommandsHaveARequest'
  BY DEF BlockingTypeOK, CommandsHaveARequest
<1>4. OnlyUnblockUnblocks'
  BY DEF Down, BlockingTypeOK, OnlyUnblockUnblocks
<1>5. FilesAreCovered'
  BY DEF BlockingTypeOK, FilesAreCovered, Covered, Truncated
<1>6. QED
  BY <1>1, <1>2, <1>3, <1>4, <1>5

\* A command looks for its profile's server and signals it.
LEMMA SignallingInv ==
    ASSUME BlockingInv, NEW c \in Commands, FindsServer(c) \/ FindsNone(c) \/ Sends(c)
    PROVE  BlockingInv'
<1>1. CASE FindsServer(c)
  BY <1>1 DEF FindsServer, Goto, BlockingInv, files, serverVars, history, BlockingTypeOK,
     ServersHaveAFile, CommandsHaveARequest, FilesAreCovered, Covered, OnlyUnblockUnblocks
<1>2. CASE FindsNone(c)
  BY <1>2, AnnouncingInv DEF FindsNone
<1>3. CASE Sends(c)
  <2>1. request[c].profile \in Profiles
    BY <1>3 DEF Sends, BlockingInv, CommandsHaveARequest, CommandRequests
  <2>2. QED
    BY <1>3, <2>1, AnnouncingInv DEF Sends
<1>4. QED
  BY <1>1, <1>2, <1>3

THEOREM BlockingInductive == Spec => []BlockingInv
<1>1. BlockingInv /\ UNCHANGED vars => BlockingInv'
  BY DEF BlockingInv, vars, files, serverVars, commandVars, history, BlockingTypeOK,
     ServersHaveAFile, CommandsHaveARequest, FilesAreCovered, Covered, OnlyUnblockUnblocks
<1>2. BlockingInv /\ Next => BlockingInv'
  BY ServerInv, ReadsInv, WritingInv, SignallingInv DEF Next, CommandStep
<1>3. QED
  BY BlockingInitInv, <1>1, <1>2, PTL DEF Spec

\* The file always is a configuration or missing, and a server's set is one of
\* domains, whatever reads and writes overlap (cli.py:1093-1183, config.py:205-410).
THEOREM BlockingTypeCorrect == Spec => []BlockingTypeOK
BY BlockingInductive, PTL DEF BlockingInv

\* For any number of servers and commands in any overlap, with failed writes and
\* reads of a truncated file among them: no server whose session is not one of
\* TIDAL's lets a TIDAL domain through that no command was to unblock, as long as
\* every command found a list to start from (cli.py:1136-1149, server.py:259-281).
THEOREM TidalStaysBlocked == Spec => []OnlyUnblockUnblocks
BY BlockingInductive, PTL DEF BlockingInv

-----------------------------------------------------------------------------
(***************************************************************************)
(* What is announced.                                                      *)
(***************************************************************************)

\* A file does what a request asked for, and a server has loaded such a file.
Keeps(cfg, r) ==
    /\ cfg # NoFile
    /\ HasList(cfg, r.profile)
    /\ r.op = "unblock" => r.domain \notin cfg[r.profile]
    /\ r.op # "unblock" => r.domain \in cfg[r.profile]

InForce(cfg, r) == Keeps(cfg, r) /\ Parses(cfg)

Obeys(p, r) ==
    IF r.op = "unblock" THEN r.domain \notin blocked[p]
    ELSE r.domain \in blocked[p] \cup (IF session[p] THEN Tidal ELSE {})

\* Two commands at once know of each other.
OverlapIsKnown ==
    \A c, d \in Commands : c # d /\ InProgress(c) /\ InProgress(d) => overlapped[c]

\* A command with the file to itself finds in it what it has made of it.
FileIsItsOwn ==
    \A c \in Commands : ~overlapped[c] =>
        /\ at[c] = "truncated" => config = Truncated
        /\ at[c] \in {"written", "sending"} => Keeps(config, request[c])

\* What was announced is in the file, or in the copy that is about to be written
\* back, and in every server but one that is yet to reload or has a file of its own.
PromiseIsKept(p) ==
    LET r == promised[p]
    IN  /\ r.profile = p
        /\ \A c \in Commands :
              /\ InProgress(c) => ~overlapped[c]
              /\ at[c] \in {"read", "truncated"} => InForce(doc[c], r)
              /\ at[c] = "truncated" => request[c].profile # p /\ ~reloading[p]
        /\ (\A c \in Commands : at[c] # "truncated") => InForce(config, r)
        /\ server[p] # "down" /\ own[p] = Nothing /\ ~reloading[p] => Obeys(p, r)

PromiseInv ==
    /\ OverlapIsKnown
    /\ FileIsItsOwn
    /\ \A p \in Profiles : promised[p] # Nothing => PromiseIsKept(p)

\* A server that loads such a file does what was asked.
LEMMA LoadedIsObeyed ==
    ASSUME NEW cfg, NEW r, InForce(cfg, r), NEW tidal \in BOOLEAN,
           NEW list, list = Resolve(Inherited(cfg, r.profile), tidal)
    PROVE  IF r.op = "unblock" THEN r.domain \notin list
           ELSE r.domain \in list \cup (IF tidal THEN Tidal ELSE {})
BY DEF InForce, Keeps, HasList, Inherited, Resolve

LEMMA UpdateKeeps ==
    ASSUME NEW cfg \in Configs, NEW r \in CommandRequests
    PROVE  Keeps(Update(cfg, r), r)
<1>1. r.profile \in Profiles /\ r.domain \in Domains /\ r.op \in {"block", "unblock"}
  BY DEF CommandRequests
<1>2. Update(cfg, r) # NoFile
  BY UpdateIsConfig, NoFileIsNoConfig DEF NoFileIsNoConfig
<1>3. Current(cfg, r.profile) \in SUBSET Domains
  BY <1>1, ConfigElim DEF Current, HasList, Lists
<1>4. QED
  BY <1>1, <1>2, <1>3, BlockingConstants DEF BlockingConstants, Update, Keeps, HasList

LEMMA UpdateLeavesOthers ==
    ASSUME NEW cfg \in Configs, NEW s \in CommandRequests, NEW r, InForce(cfg, r),
           s.profile # r.profile
    PROVE  InForce(Update(cfg, s), r)
<1>1. Update(cfg, s) # NoFile
  BY UpdateIsConfig, NoFileIsNoConfig DEF NoFileIsNoConfig
<1>2. QED
  BY <1>1 DEF InForce, Keeps, HasList, Parses, Update

LEMMA PromiseServer ==
    ASSUME BlockingTypeOK, PromiseInv, NEW q \in Profiles, ServerStep(q)
    PROVE  PromiseInv'
<1> USE DEF files, commandVars, history
<1>1. UNCHANGED <<at, request, doc, overlapped, promised>>
  BY DEF ServerStep, Loads, WritesPid, InstallsHandler, ServerTurns, Ends, Reloads
<1>2. config' = config \/ config = NoFile
  BY DEF ServerStep, Loads, WritesPid, InstallsHandler, ServerTurns, Ends, Reloads
<1>3. OverlapIsKnown'
  BY <1>1 DEF PromiseInv, OverlapIsKnown, InProgress
<1>4. FileIsItsOwn'
  <2>1. Truncated # NoFile
    BY FixedConfigs, NoFileIsNoConfig DEF NoFileIsNoConfig
  <2>2. QED
    BY <1>1, <1>2, <2>1 DEF PromiseInv, FileIsItsOwn, Keeps
<1>5. ASSUME NEW p \in Profiles, promised[p] # Nothing
      PROVE  PromiseIsKept(p)'
  <2> DEFINE r == promised[p]
  <2>1. PromiseIsKept(p) /\ r.profile = p
    BY <1>5 DEF PromiseInv, PromiseIsKept
  <2>2. (\A c \in Commands : at[c] # "truncated") => InForce(config, r) /\ config' = config
    BY <1>2, <2>1 DEF PromiseIsKept, InForce, Keeps
  <2>3. \A c \in Commands : at[c] = "truncated" => config = Truncated
    BY <2>1 DEF PromiseIsKept, PromiseInv, FileIsItsOwn, InProgress
  <2>4. \A c \in Commands : at[c] = "truncated" => ~reloading'[p]
    BY <2>1 DEF PromiseIsKept, ServerStep, Loads, WritesPid, InstallsHandler, ServerTurns,
       Ends, Down, Reloads, BlockingTypeOK
  <2>5. server'[p] # "down" /\ own'[p] = Nothing /\ ~reloading'[p] => Obeys(p, r)'
    <3> SUFFICES ASSUME server'[p] # "down", own'[p] = Nothing, ~reloading'[p]
                 PROVE  Obeys(p, r)'
      OBVIOUS
    <3>1. CASE Loads(q) /\ p = q
      <4>1. PICK tidal \in BOOLEAN :
               /\ Parses(File(q)')
               /\ session' = [session EXCEPT ![q] = tidal]
               /\ blocked' = [blocked EXCEPT ![q] = Resolve(Inherited(File(q)', q), tidal)]
        BY <3>1 DEF Loads
      <4>2. /\ Parses(config') /\ session'[p] = tidal
            /\ blocked'[p] = Resolve(Inherited(config', r.profile), tidal)
        BY <2>1, <3>1, <4>1 DEF BlockingTypeOK, File
      <4>3. \A c \in Commands : at[c] # "truncated"
        <5>1. ~Parses(Truncated) /\ Truncated # NoFile
          BY FixedConfigs, NoFileIsNoConfig DEF NoFileIsNoConfig, Parses, Truncated
        <5>2. Parses(config') /\ (config # NoFile => config' = config)
          BY <3>1, <4>2 DEF Loads
        <5>3. QED
          BY <2>3, <5>1, <5>2
      <4>4. InForce(config', r)
        BY <2>2, <4>3
      <4>5. QED
        BY <1>1, <4>2, <4>4, LoadedIsObeyed DEF Obeys
    <3>2. CASE Reloads(q) /\ p = q
      <4>1. reloading[p] /\ UNCHANGED <<config, session, own>>
            /\ (Parses(config) => blocked'[p] = Resolve(Inherited(config, p), FALSE))
        BY <3>2 DEF Reloads, BlockingTypeOK, File
      <4>2. InForce(config, r)
        BY <2>1, <2>2, <4>1 DEF PromiseIsKept
      <4>3. blocked'[p] = Resolve(Inherited(config, r.profile), FALSE)
        BY <2>1, <4>1, <4>2 DEF InForce
      <4>4. IF r.op = "unblock" THEN r.domain \notin blocked'[p] ELSE r.domain \in blocked'[p]
        BY <4>2, <4>3, LoadedIsObeyed
      <4>5. QED
        BY <1>1, <4>4 DEF Obeys
    <3>3. CASE ~(Loads(q) /\ p = q) /\ ~(Reloads(q) /\ p = q)
      <4>1. /\ blocked'[p] = blocked[p] /\ session'[p] = session[p] /\ own'[p] = own[p]
            /\ server[p] # "down" /\ reloading'[p] = reloading[p]
        BY <3>3 DEF ServerStep, Loads, WritesPid, InstallsHandler, ServerTurns, Ends, Down,
           Reloads, BlockingTypeOK
      <4>2. QED
        BY <1>1, <2>1, <4>1 DEF PromiseIsKept, Obeys
    <3>4. QED
      BY <3>1, <3>2, <3>3
  <2>6. QED
    BY <1>1, <2>1, <2>2, <2>4, <2>5 DEF PromiseIsKept, InProgress
<1>6. QED
  BY <1>1, <1>3, <1>4, <1>5 DEF PromiseInv

\* Two commands that read at once take back what was announced.
LEMMA PromiseReads ==
    ASSUME BlockingTypeOK, PromiseInv, NEW c \in Commands, Reads(c)
    PROVE  PromiseInv'
<1> DEFINE others == {d \in Commands \ {c} : InProgress(d)}
<1> USE DEF files, serverVars
<1>1. /\ at[c] = "none" /\ at' = [at EXCEPT ![c] = "read"] /\ doc' = [doc EXCEPT ![c] = config]
      /\ overlapped' = [d \in Commands |->
                           IF d = c THEN others # {} ELSE overlapped[d] \/ d \in others]
      /\ promised' = IF others = {} THEN promised ELSE [p \in Profiles |-> Nothing]
      /\ UNCHANGED <<config, server, session, own, blocked, reloading>>
      /\ \A d \in Commands \ {c} : request'[d] = request[d]
  BY DEF Reads, Goto, BlockingTypeOK
<1>2. \A d \in Commands \ {c} : at'[d] = at[d] /\ doc'[d] = doc[d]
  BY <1>1 DEF BlockingTypeOK
<1>3. at'[c] = "read" /\ doc'[c] = config
  BY <1>1 DEF BlockingTypeOK
<1>4. OverlapIsKnown'
  BY <1>1, <1>2, <1>3 DEF PromiseInv, OverlapIsKnown, InProgress
<1>5. FileIsItsOwn'
  BY <1>1, <1>2, <1>3 DEF PromiseInv, FileIsItsOwn
<1>6. ASSUME NEW p \in Profiles, promised'[p] # Nothing
      PROVE  PromiseIsKept(p)'
  <2>1. others = {} /\ promised' = promised /\ PromiseIsKept(p)
    BY <1>1, <1>6 DEF PromiseInv
  <2>2. \A d \in Commands \ {c} : at[d] \in {"none", "done"}
    BY <2>1 DEF InProgress, BlockingTypeOK
  <2>3. InForce(config, promised[p]) /\ ~overlapped'[c]
    BY <1>1, <2>1, <2>2 DEF PromiseIsKept
  <2>4. Obeys(p, promised[p])' <=> Obeys(p, promised[p])
    BY <1>1, <2>1 DEF Obeys
  <2>5. QED
    BY <1>1, <1>2, <1>3, <2>1, <2>2, <2>3, <2>4 DEF PromiseIsKept, InProgress
<1>7. QED
  BY <1>4, <1>5, <1>6 DEF PromiseInv

\* A command rewrites the file, and only the section of its profile.
LEMMA PromiseWrites ==
    ASSUME BlockingInv, PromiseInv, NEW c \in Commands, Truncates(c) \/ Writes(c)
    PROVE  PromiseInv'
<1> USE DEF files, serverVars, history, Goto
<1>1. /\ InProgress(c) /\ at[c] \in {"read", "truncated"}
      /\ at' = [at EXCEPT ![c] = IF at[c] = "read" THEN "truncated" ELSE "written"]
      /\ UNCHANGED <<request, doc, overlapped, server, session, own, blocked, reloading>>
      /\ doc[c] \in Configs /\ request[c] \in CommandRequests
  BY DEF Truncates, Writes, InProgress, BlockingInv, BlockingTypeOK, CommandsHaveARequest
<1>2. /\ \A d \in Commands \ {c} : at'[d] = at[d]
      /\ at'[c] = IF at[c] = "read" THEN "truncated" ELSE "written"
  BY <1>1 DEF BlockingInv, BlockingTypeOK
<1>3. OverlapIsKnown'
  BY <1>1, <1>2 DEF PromiseInv, OverlapIsKnown, InProgress
<1>4. FileIsItsOwn'
  <2>1. \A d \in Commands \ {c} : at[d] \in {"truncated", "written", "sending"} => overlapped[d]
    BY <1>1 DEF PromiseInv, OverlapIsKnown, InProgress
  <2>2. CASE Truncates(c)
    BY <1>1, <1>2, <2>1, <2>2 DEF Truncates, FileIsItsOwn
  <2>3. CASE Writes(c)
    BY <1>1, <1>2, <2>1, <2>3, UpdateKeeps DEF Writes, FileIsItsOwn
  <2>4. QED
    BY <2>2, <2>3
<1>5. ASSUME NEW p \in Profiles, promised'[p] # Nothing
      PROVE  PromiseIsKept(p)'
  <2>1. promised'[p] = promised[p] /\ PromiseIsKept(p)
        /\ (Truncates(c) => request[c].profile # p /\ ~reloading[p])
    BY <1>5 DEF Truncates, Writes, PromiseInv
  <2>2. InForce(doc[c], promised[p]) /\ ~overlapped[c]
    BY <1>1, <2>1 DEF PromiseIsKept
  <2>3. \A d \in Commands \ {c} : ~InProgress(d)
    BY <1>1, <2>1 DEF PromiseIsKept, PromiseInv, OverlapIsKnown
  <2>4. Obeys(p, promised[p])' <=> Obeys(p, promised[p])
    BY <1>1, <2>1 DEF Obeys
  <2>5. Writes(c) => InForce(config', promised[p])
    <3>1. Writes(c) => request[c].profile # p /\ promised[p].profile = p
      BY <2>1 DEF Writes, PromiseIsKept
    <3>2. QED
      BY <1>1, <2>2, <3>1, UpdateLeavesOthers DEF Writes
  <2>6. CASE Truncates(c)
    BY <1>1, <1>2, <2>1, <2>2, <2>3, <2>4, <2>6 DEF Truncates, PromiseIsKept, InProgress
  <2>7. CASE Writes(c)
    BY <1>1, <1>2, <2>1, <2>2, <2>3, <2>4, <2>5, <2>7 DEF Writes, PromiseIsKept, InProgress
  <2>8. QED
    BY <2>6, <2>7
<1>6. QED
  BY <1>3, <1>4, <1>5 DEF PromiseInv

\* A command is over: it was the only one, or takes nothing for announced.
LEMMA PromiseDone ==
    ASSUME BlockingTypeOK, PromiseInv, NEW c \in Commands, InProgress(c), Done(c),
           UNCHANGED config
    PROVE  /\ OverlapIsKnown' /\ FileIsItsOwn'
           /\ at' = [at EXCEPT ![c] = "done"]
           /\ \A d \in Commands \ {c} :
                 /\ at'[d] = at[d] /\ request'[d] = request[d] /\ doc'[d] = doc[d]
                 /\ overlapped'[d] = overlapped[d]
<1>1. /\ \A d \in Commands \ {c} :
           /\ at'[d] = at[d] /\ request'[d] = request[d] /\ doc'[d] = doc[d]
           /\ overlapped'[d] = overlapped[d]
      /\ at'[c] = "done" /\ at' = [at EXCEPT ![c] = "done"]
  BY DEF Done, Goto, BlockingTypeOK
<1>2. QED
  BY <1>1 DEF PromiseInv, OverlapIsKnown, FileIsItsOwn, InProgress

LEMMA PromiseFails ==
    ASSUME BlockingTypeOK, PromiseInv, NEW c \in Commands, WriteFails(c)
    PROVE  PromiseInv'
<1> USE DEF files, serverVars
<1>1. InProgress(c) /\ Done(c)
      /\ UNCHANGED <<config, server, session, own, blocked, reloading>>
  BY DEF WriteFails, InProgress
<1>2. /\ OverlapIsKnown' /\ FileIsItsOwn'
      /\ at'[c] = "done"
      /\ \A d \in Commands \ {c} :
            /\ at'[d] = at[d] /\ request'[d] = request[d] /\ doc'[d] = doc[d]
            /\ overlapped'[d] = overlapped[d]
  BY <1>1, PromiseDone DEF BlockingTypeOK
<1>3. ASSUME NEW p \in Profiles, promised'[p] # Nothing
      PROVE  PromiseIsKept(p)'
  <2>1. at[c] = "read" /\ promised' = promised /\ PromiseIsKept(p)
    BY <1>3 DEF WriteFails, PromiseInv
  <2>2. Obeys(p, promised[p])' <=> Obeys(p, promised[p])
    BY <1>1, <2>1 DEF Obeys
  <2>3. (\A d \in Commands : at'[d] # "truncated") => \A d \in Commands : at[d] # "truncated"
    BY <1>2, <2>1
  <2>4. QED
    BY <1>1, <1>2, <2>1, <2>2, <2>3 DEF PromiseIsKept, InProgress
<1>4. QED
  BY <1>2, <1>3 DEF PromiseInv

\* The command that announces finds its own change in the file, and the server it
\* has signalled is yet to reload.
LEMMA PromiseAnnounced ==
    ASSUME BlockingInv, PromiseInv, NEW c \in Commands, FindsNone(c) \/ Sends(c)
    PROVE  PromiseInv'
<1>0. PICK r \in CommandRequests : r = request[c] /\ r.profile \in Profiles
  BY DEF FindsNone, Sends, BlockingInv, CommandsHaveARequest, CommandRequests
<1> DEFINE q == r.profile
<1> USE DEF files
<1>1. /\ at[c] \in {"written", "sending"} /\ InProgress(c)
      /\ Done(c) /\ UNCHANGED config
      /\ promised' = [promised EXCEPT ![q] =
                         IF /\ ~overlapped[c] /\ server[q] \notin {"loaded", "findable"}
                            /\ Parses(config)
                         THEN r ELSE Nothing]
  BY <1>0 DEF FindsNone, Sends, Announces, InProgress
<1>2. /\ OverlapIsKnown' /\ FileIsItsOwn'
      /\ at'[c] = "done"
      /\ \A d \in Commands \ {c} :
            /\ at'[d] = at[d] /\ request'[d] = request[d] /\ doc'[d] = doc[d]
            /\ overlapped'[d] = overlapped[d]
  BY <1>1, PromiseDone DEF BlockingInv, BlockingTypeOK
<1>3. ASSUME NEW p \in Profiles, p # q, promised'[p] # Nothing
      PROVE  PromiseIsKept(p)'
  <2>1. promised'[p] = promised[p] /\ PromiseIsKept(p)
    BY <1>1, <1>3 DEF BlockingInv, BlockingTypeOK, PromiseInv
  <2>2. /\ server'[p] = server[p] /\ reloading'[p] = reloading[p] /\ own'[p] = own[p]
        /\ session'[p] = session[p] /\ blocked'[p] = blocked[p]
    BY <1>0, <1>3 DEF FindsNone, Sends, Down, serverVars, BlockingInv, BlockingTypeOK
  <2>3. Obeys(p, promised[p])' <=> Obeys(p, promised[p])
    BY <2>1, <2>2 DEF Obeys
  <2>4. (\A d \in Commands : at'[d] # "truncated") => \A d \in Commands : at[d] # "truncated"
    BY <1>1, <1>2
  <2>5. QED
    BY <1>1, <1>2, <2>1, <2>2, <2>3, <2>4 DEF PromiseIsKept, InProgress
<1>4. ASSUME promised'[q] # Nothing
      PROVE  PromiseIsKept(q)'
  <2>1. /\ promised'[q] = r /\ ~overlapped[c] /\ Parses(config)
        /\ server[q] \notin {"loaded", "findable"}
    BY <1>0, <1>1, <1>4 DEF BlockingInv, BlockingTypeOK
  <2>2. InForce(config', r)
    BY <1>0, <1>1, <2>1 DEF PromiseInv, FileIsItsOwn, InForce
  <2>3. \A d \in Commands : at'[d] \in {"none", "done"}
    BY <1>1, <1>2, <2>1 DEF PromiseInv, OverlapIsKnown, InProgress
  <2>4. server'[q] # "down" => reloading'[q]
    BY <1>0, <2>1 DEF FindsNone, Sends, Down, serverVars, BlockingInv, BlockingTypeOK
  <2>5. QED
    BY <1>0, <2>1, <2>2, <2>3, <2>4 DEF PromiseIsKept, InProgress
<1>5. QED
  BY <1>0, <1>2, <1>3, <1>4 DEF PromiseInv

LEMMA PromiseFinds ==
    ASSUME BlockingInv, PromiseInv, NEW c \in Commands, FindsServer(c)
    PROVE  PromiseInv'
<1>1. /\ at[c] = "written" /\ at'[c] = "sending"
      /\ \A d \in Commands \ {c} : at'[d] = at[d]
      /\ UNCHANGED <<config, server, session, own, blocked, reloading, request, doc,
                     overlapped, promised>>
  BY DEF FindsServer, Goto, BlockingInv, BlockingTypeOK, files, serverVars, history
<1>2. (\A d \in Commands : at'[d] # "truncated") => \A d \in Commands : at[d] # "truncated"
  BY <1>1
<1>3. OverlapIsKnown' /\ FileIsItsOwn'
  BY <1>1 DEF PromiseInv, OverlapIsKnown, FileIsItsOwn, InProgress
<1>4. \A p \in Profiles : PromiseIsKept(p) => PromiseIsKept(p)'
  BY <1>1, <1>2 DEF PromiseIsKept, InProgress, Obeys
<1>5. QED
  BY <1>1, <1>3, <1>4 DEF PromiseInv

\* What a command that overlaps no other has announced is what every later start
\* and every reload of its profile's server puts in force, until a command that
\* reads the file takes it back.  It is about the servers of CONFIG_PATH: one started
\* with --config never loads what a command writes (cli.py:325-327, 1107-1183,
\* server.py:254-281, config.py:350-410).
THEOREM AnnouncementsHold == Spec => []AnnouncedIsInForce
<1>1. Init => PromiseInv
  BY DEF Init, PromiseInv, OverlapIsKnown, FileIsItsOwn, InProgress
<1>2. BlockingInv /\ PromiseInv /\ [Next]_vars => PromiseInv'
  <2>1. PromiseInv /\ UNCHANGED vars => PromiseInv'
    BY DEF vars, files, serverVars, commandVars, history, PromiseInv, OverlapIsKnown,
       FileIsItsOwn, PromiseIsKept, InProgress, Obeys
  <2>2. QED
    BY <2>1, PromiseServer, PromiseReads, PromiseWrites, PromiseFails, PromiseAnnounced,
       PromiseFinds DEF Next, CommandStep, BlockingInv
<1>3. BlockingInv /\ PromiseInv => AnnouncedIsInForce
  BY DEF BlockingInv, PromiseInv, PromiseIsKept, Obeys, AnnouncedIsInForce
<1>4. QED
  BY <1>1, <1>2, <1>3, BlockingInductive, PTL DEF Spec

=============================================================================
