------------------------ MODULE RequestHandlerProofs ------------------------
(***************************************************************************)
(* Proofs about RequestHandler, for any number of pieces from either peer  *)
(* and any limits on body and response.                                    *)
(***************************************************************************)
EXTENDS RequestHandler, SequenceTheorems, FiniteSetTheorems, TLAPS

Early == {"head", "denying", "health", "body", "chunks", "opening"}

Late == {"closing", "leaving", "done"}

OnlyPieces == \A i \in 1..Len(answer) : answer[i] = "piece"

TunnelAnswer ==
    /\ Len(answer) > 0 /\ answer[1] = "established"
    /\ \A i \in 2..Len(answer) : answer[i] = "piece"

\* What has been written to the client at each place.
AnswerByPlace ==
    /\ at \in Early \cup {"established", "sending", "failing"} => answer = <<>>
    /\ at = "streaming" => OnlyPieces
    /\ at \in {"relaying", "unrelaying"} => TunnelAnswer
    /\ OneAnswer

\* What has been recorded, and what will be.
OutcomeByPlace ==
    /\ at \in Early \cup {"sending", "streaming", "closingRemote"} => recorded = <<>>
    /\ at \in {"sending", "streaming", "closingRemote"} => request.method = "GET"
    /\ at \in {"established", "relaying", "unrelaying"}
         => recorded = <<"success">> /\ request.method = "CONNECT"
    /\ at = "failing" => pending \in Errors \cup {"none"} /\ Len(recorded) > 0
    /\ at = "closingRemote" => pending \in Outcomes
    /\ recorded = <<"success", "error">>
         => at \in {"failing"} \cup Late /\ transport["client"] = "lost"
    /\ RecordedOnce

\* Where the connection to the remote host is open, and where the pipes run.
RemoteByPlace ==
    /\ at \in Early => transport["remote"] = "none"
    /\ at \in Early \cup {"established", "sending"} => \A p \in Peers : pipe[p] = "none"
    /\ at \notin {"relaying", "unrelaying"} => \A p \in Peers : pipe[p] \in {"none", "done"}
    /\ pipe["client"] \in {"closing", "done"} => transport["remote"] # "open"
    /\ at \in {"sending", "streaming"} => transport["remote"] \in {"open", "lost"}
    /\ at \in {"failing", "closingRemote"} \cup Late
         => transport["remote"] # "open" \/ recorded = <<"success", "error">>

SocketWasLost ==
    request.method = "CONNECT" /\ recorded = <<"error">> /\ transport["remote"] = "lost"

\* Why a client who stays may be without an answer.
SilenceByPlace ==
    transport["client"] # "lost" /\ answer = <<>> =>
        /\ at \in Early \cup {"sending", "streaming"} => read["remote"] = 0
        /\ at = "failing" /\ pending = "none" => SocketWasLost
        /\ at = "closingRemote" => pending = "success" /\ ended["remote"] /\ sent["remote"] = 0
        /\ at \in Late =>
             \/ /\ request.method = "GET" /\ recorded = <<"success">>
                /\ ended["remote"] /\ sent["remote"] = 0
             \/ SocketWasLost

HandlerInv ==
    /\ HandlerTypeOK
    /\ AnswerByPlace
    /\ OutcomeByPlace
    /\ RemoteByPlace
    /\ SilenceByPlace

LEMMA HandlerInitInv == Init => HandlerInv
<1> SUFFICES ASSUME Init PROVE HandlerInv
  OBVIOUS
<1>1. HandlerTypeOK
  BY HandlerConstants DEF HandlerConstants, Init, HandlerTypeOK, Places, Peers, Pieces,
     NothingForwarded, LengthHeaders, Forwarded
<1>2. AnswerByPlace /\ OutcomeByPlace /\ RemoteByPlace /\ SilenceByPlace
  BY DEF Init, AnswerByPlace, OneAnswer, OutcomeByPlace, RecordedOnce, RemoteByPlace,
     SilenceByPlace, Early, Late, Peers
<1>3. QED
  BY <1>1, <1>2 DEF HandlerInv

-----------------------------------------------------------------------------
(***************************************************************************)
(* What is written to the client.                                          *)
(***************************************************************************)

\* The first thing written, if the client is still there.
LEMMA FirstAnswer ==
    ASSUME answer = <<>>, NEW status \in Answers, Tell(status)
    PROVE  /\ answer' \in Seq(Answers)
           /\ transport["client"] # "lost" => answer' = <<status>>
           /\ OneAnswer'
<1>1. CASE answer' = <<>>
  BY <1>1 DEF Tell, OneAnswer
<1>2. CASE answer' = <<status>>
  <2>1. Len(answer') = 1 /\ answer'[1] = status
    BY <1>2
  <2>2. OneAnswer'
    BY <2>1 DEF OneAnswer, Errors
  <2>3. QED
    BY <1>2, <2>2
<1>3. QED
  BY <1>1, <1>2 DEF Tell

\* A piece of the response.
LEMMA NextPiece ==
    ASSUME answer \in Seq(Answers), Tell("piece"), OneAnswer
    PROVE  /\ answer' \in Seq(Answers)
           /\ OnlyPieces => OnlyPieces' /\ OneAnswer'
           /\ TunnelAnswer => TunnelAnswer' /\ OneAnswer'
           /\ transport["client"] # "lost" => answer' # <<>>
<1>1. CASE transport["client"] = "lost"
  BY <1>1 DEF Tell, OnlyPieces, TunnelAnswer, OneAnswer
<1>2. CASE transport["client"] # "lost"
  <2>1. /\ answer' = Append(answer, "piece") /\ "piece" \in Answers
        /\ answer' \in Seq(Answers) /\ Len(answer') = Len(answer) + 1
        /\ answer'[Len(answer) + 1] = "piece" /\ Len(answer) \in Nat
        /\ \A i \in 1..Len(answer) : answer'[i] = answer[i]
    BY <1>2 DEF Tell, Answers
  <2>2. OnlyPieces => OnlyPieces' /\ OneAnswer'
    BY <2>1 DEF OnlyPieces, OneAnswer, Errors
  <2>3. TunnelAnswer => TunnelAnswer' /\ OneAnswer'
    BY <2>1 DEF TunnelAnswer, OneAnswer, Errors
  <2>4. answer' # <<>>
    BY <2>1
  <2>5. QED
    BY <2>1, <2>2, <2>3, <2>4
<1>3. QED
  BY <1>1, <1>2

\* An error after any number of pieces.
LEMMA ErrorAfterPieces ==
    ASSUME answer \in Seq(Answers), NEW status \in Errors, Tell(status), OnlyPieces
    PROVE  /\ answer' \in Seq(Answers)
           /\ OneAnswer'
           /\ transport["client"] # "lost" => answer' # <<>>
<1>1. CASE transport["client"] = "lost"
  BY <1>1 DEF Tell, OnlyPieces, OneAnswer, Errors
<1>2. CASE transport["client"] # "lost"
  <2>1. /\ answer' = Append(answer, status) /\ status \in Answers
        /\ answer' \in Seq(Answers) /\ Len(answer') = Len(answer) + 1
        /\ answer'[Len(answer) + 1] = status /\ Len(answer) \in Nat
        /\ \A i \in 1..Len(answer) : answer'[i] = "piece"
    BY <1>2 DEF Tell, Answers, OnlyPieces
  <2>2. status # "established"
    BY DEF Errors
  <2>3. QED
    BY <2>1, <2>2 DEF OneAnswer
<1>3. QED
  BY <1>1, <1>2

-----------------------------------------------------------------------------
(***************************************************************************)
(* From the head to the opening of the tunnel.                             *)
(***************************************************************************)

\* A step that reads from the client at most.
ReadsClient ==
    /\ UNCHANGED <<transport, ended, sent>>
    /\ read' \in [Peers -> Nat] /\ \A p \in Peers : read'[p] <= sent[p]
    /\ read'["remote"] = read["remote"]
    /\ body' \in Nat

LEMMA PeersReadNothing ==
    ASSUME HandlerTypeOK, UNCHANGED peers, body' \in Nat
    PROVE  ReadsClient
BY DEF HandlerTypeOK, ReadsClient, peers

LEMMA TakesFromClient ==
    ASSUME HandlerTypeOK, Readable("client"), Takes("client"), body' \in Nat
    PROVE  ReadsClient
BY DEF HandlerTypeOK, ReadsClient, Readable, Takes, Peers

LEMMA ReadsHeadReadsClient ==
    ASSUME HandlerTypeOK, ReadsHead
    PROVE  ReadsClient /\ at \in Early
<1>1. PICK extra \in 0..(sent["client"] - 1) :
         /\ read' = [read EXCEPT !["client"] = 1 + extra]
         /\ body' = IF request.method = "GET" /\ ~request.chunked THEN extra ELSE 0
  BY DEF ReadsHead
<1>2. sent["client"] \in Nat /\ extra \in Nat /\ 1 + extra <= sent["client"]
  BY <1>1 DEF HandlerTypeOK, Peers
<1>3. QED
  BY <1>1, <1>2 DEF ReadsHead, HandlerTypeOK, ReadsClient, Peers, Early

LEMMA OneIsNotTwo ==
    /\ Len(<<"error">>) = 1 /\ Len(<<"success">>) = 1 /\ Len(<<"success", "error">>) = 2
    /\ <<"error">> # <<"success", "error">>
    /\ <<"success">> # <<"success", "error">>
OBVIOUS

LEMMA ErrorAfterSuccess == Append(<<"success">>, "error") = <<"success", "error">>
<1> DEFINE s == Append(<<"success">>, "error")
           t == <<"success", "error">>
<1>1. s \in Seq({"success", "error"}) /\ t \in Seq({"success", "error"})
  OBVIOUS
<1>2. Len(s) = 2 /\ s[1] = "success" /\ s[2] = "error" /\ Len(t) = 2
  OBVIOUS
<1>3. \A i \in 1..Len(s) : s[i] = t[i]
  BY <1>2
<1> HIDE DEF s, t
<1>4. s = t
  BY <1>1, <1>2, <1>3, SeqEqual
<1>5. QED
  BY <1>4 DEF s, t

\* The error clauses, before there is anything to close.
LEMMA EarlyFails ==
    ASSUME HandlerInv, at \in Early, ReadsClient,
           NEW status \in Errors \cup {"none"}, Fails(status),
           status = "none" => transport["client"] = "lost"
    PROVE  HandlerInv'
<1> USE DEF HandlerInv, Fails, Record, ReadsClient
<1>1. recorded' = <<"error">> /\ at' = "failing" /\ pending' = status
      /\ answer = <<>> /\ answer' = <<>>
  BY DEF AnswerByPlace, OutcomeByPlace
<1>2. HandlerTypeOK'
  BY <1>1 DEF HandlerTypeOK, Places, Outcomes, Peers, Pieces
<1>3. AnswerByPlace'
  BY <1>1 DEF AnswerByPlace, OneAnswer
<1>4. Len(recorded') = 1 /\ recorded' # <<"success", "error">>
  BY <1>1, OneIsNotTwo
<1>5. OutcomeByPlace'
  BY <1>1, <1>4 DEF OutcomeByPlace, RecordedOnce, Early, Late
<1>6. SilenceByPlace'
  BY <1>1 DEF SilenceByPlace, Early, Late
<1>7. RemoteByPlace'
  BY <1>1 DEF RemoteByPlace, Early, Late, Peers
<1>8. QED
  BY <1>2, <1>3, <1>5, <1>6, <1>7

\* An answer of the handler's own.
LEMMA EarlyRejects ==
    ASSUME HandlerInv, at \in Early, ReadsClient,
           NEW status \in Errors \cup {"200"}, Rejects(status)
    PROVE  HandlerInv'
<1> USE DEF HandlerInv, Rejects, ReadsClient
<1>1. recorded = <<>> /\ recorded' = <<>> /\ at' = "closing" /\ answer = <<>>
  BY DEF AnswerByPlace, OutcomeByPlace
<1>2. /\ answer' \in Seq(Answers) /\ OneAnswer'
      /\ transport["client"] # "lost" => answer' # <<>>
  <2>1. status \in Answers /\ Tell(status)
    BY DEF Answers
  <2>2. <<status>> # <<>>
    OBVIOUS
  <2>3. QED
    BY <1>1, <2>1, <2>2, FirstAnswer
<1>3. HandlerTypeOK'
  BY <1>1, <1>2 DEF HandlerTypeOK, Places, Peers, Pieces
<1>4. AnswerByPlace'
  BY <1>1, <1>2 DEF AnswerByPlace, Early
<1>5. OutcomeByPlace' /\ SilenceByPlace'
  BY <1>1, <1>2 DEF OutcomeByPlace, RecordedOnce, SilenceByPlace, Early, Late
<1>6. RemoteByPlace'
  BY <1>1 DEF RemoteByPlace, Early, Late, Peers
<1>7. QED
  BY <1>3, <1>4, <1>5, <1>6

\* A step to another place before the tunnel.
LEMMA EarlyTurns ==
    ASSUME HandlerInv, at \in Early, ReadsClient, NEW place \in Early, Turns(place)
    PROVE  HandlerInv'
<1> USE DEF HandlerInv, Turns, ReadsClient
<1>1. HandlerTypeOK'
  BY DEF HandlerTypeOK, Places, Peers, Pieces, Early
<1>2. AnswerByPlace' /\ OutcomeByPlace' /\ SilenceByPlace'
  BY DEF AnswerByPlace, OneAnswer, OutcomeByPlace, RecordedOnce, SilenceByPlace, Early, Late
<1>3. RemoteByPlace'
  BY DEF RemoteByPlace, Early, Late, Peers
<1>4. QED
  BY <1>1, <1>2, <1>3

LEMMA HeadInv ==
    ASSUME HandlerInv, HeadStep
    PROVE  HandlerInv'
<1> USE DEF HandlerInv, Early, Errors
<1>1. CASE HeadTimesOut \/ HeadIsCut \/ DenialIsLost
  <2>1. ReadsClient /\ at \in Early
    BY <1>1, PeersReadNothing DEF HeadTimesOut, HeadIsCut, DenialIsLost, HandlerTypeOK
  <2>2. QED
    BY <1>1, <2>1, EarlyFails DEF HeadTimesOut, HeadIsCut, DenialIsLost
<1>2. CASE AnswersHealth \/ DeniesHealth
  <2>1. ReadsClient
    BY <1>2, PeersReadNothing DEF AnswersHealth, DeniesHealth, HandlerTypeOK
  <2>2. QED
    BY <1>2, <2>1, EarlyRejects DEF AnswersHealth, DeniesHealth
<1>3. CASE RefusesMalformed \/ RefusesTarget
  BY <1>3, ReadsHeadReadsClient, EarlyFails DEF RefusesMalformed, RefusesTarget
<1>4. CASE Blocks \/ RefusesLength
  BY <1>4, ReadsHeadReadsClient, EarlyRejects DEF Blocks, RefusesLength, Accepts
<1>5. CASE RefusesHealth \/ BeginsHealth \/ BeginsConnect \/ BeginsHttp \/ BeginsChunked
  BY <1>5, ReadsHeadReadsClient, EarlyTurns
  DEF RefusesHealth, BeginsHealth, HealthCheck, BeginsConnect, BeginsHttp, BeginsChunked, Accepts
<1>6. QED
  BY <1>1, <1>2, <1>3, <1>4, <1>5 DEF HeadStep

LEMMA BodyInv ==
    ASSUME HandlerInv, BodyStep
    PROVE  HandlerInv'
<1> USE DEF HandlerInv, Early, Errors
<1>1. body \in Nat
  BY DEF HandlerTypeOK
<1>2. CASE ReadsBody
  BY <1>1, <1>2, TakesFromClient, EarlyTurns DEF ReadsBody
<1>3. CASE ReadsChunk \/ ReadsLastChunk
  <2>1. ReadsClient /\ at \in Early
    BY <1>1, <1>3, TakesFromClient, PeersReadNothing DEF ReadsChunk, ReadsLastChunk, NextChunk
  <2>2. QED
    BY <1>3, <2>1, EarlyTurns DEF ReadsChunk, ReadsLastChunk
<1>4. CASE RefusesChunks
  <2>1. ReadsClient /\ at \in Early
    BY <1>1, <1>4, TakesFromClient, PeersReadNothing DEF RefusesChunks, NextChunk
  <2>2. QED
    BY <1>4, <2>1, EarlyRejects DEF RefusesChunks
<1>5. CASE BodyIsCut
  BY <1>1, <1>5, PeersReadNothing, EarlyFails DEF BodyIsCut
<1>6. CASE BeginsForward
  <2>1. ReadsClient /\ at \in Early
    BY <1>1, <1>6, PeersReadNothing DEF BeginsForward, BodyComplete
  <2>2. QED
    BY <1>6, <2>1, EarlyTurns, EarlyFails DEF BeginsForward
<1>7. QED
  BY <1>2, <1>3, <1>4, <1>5, <1>6 DEF BodyStep

-----------------------------------------------------------------------------
(***************************************************************************)
(* The tunnel.                                                             *)
(***************************************************************************)

LEMMA RequestLengths ==
    ASSUME request \in Requests
    PROVE  /\ request.lengths \in LengthHeaders /\ request.chunked \in BOOLEAN
           /\ ContentLength \in Int
<1>1. request.lengths \in LengthHeaders /\ request.chunked \in BOOLEAN
  <2>1. /\ <<>> \in LengthHeaders /\ MaxBody + 1 \in Lengths
        /\ \A n \in Lengths : <<n>> \in LengthHeaders
    BY HandlerConstants DEF HandlerConstants, LengthHeaders, Lengths
  <2>2. <<MaxBody + 1>> \in LengthHeaders
    BY <2>1
  <2>3. QED
    BY <2>1, <2>2, Zenon DEF Requests
<1>2. PICK n \in Lengths : request.lengths \in {<<>>, <<n>>, <<n, n - 1>>}
  BY <1>1, HandlerConstants DEF LengthHeaders, Lengths, HandlerConstants
<1>3. n \in Int
  BY <1>2, HandlerConstants DEF Lengths, HandlerConstants
<1>4. ContentLength \in Int
  BY <1>2, <1>3 DEF ContentLength
<1>5. QED
  BY <1>1, <1>4

LEMMA OpensInv ==
    ASSUME HandlerInv, TunnelOpens \/ SendsRequest
    PROVE  HandlerInv'
<1> USE DEF HandlerInv, Opens
<1>1. /\ at = "opening" /\ answer = <<>> /\ answer' = <<>> /\ recorded = <<>>
      /\ \A p \in Peers : pipe[p] = "none"
      /\ transport' = [transport EXCEPT !["remote"] = "open"]
      /\ UNCHANGED <<ended, sent, read, body, pending, pipe, request>>
  BY DEF TunnelOpens, SendsRequest, AnswerByPlace, OutcomeByPlace, RemoteByPlace, Early
<1>2. transport'["client"] = transport["client"] /\ transport'["remote"] = "open"
  BY <1>1 DEF HandlerTypeOK, Peers
<1>3. RemoteByPlace'
  BY <1>1, <1>2 DEF TunnelOpens, SendsRequest, RemoteByPlace, Early, Late, Peers
<1>4. AnswerByPlace'
  BY <1>1 DEF TunnelOpens, SendsRequest, AnswerByPlace, OneAnswer, Early
<1>5. CASE TunnelOpens
  <2>1. at' = "established" /\ recorded' = <<"success">> /\ request.method = "CONNECT"
        /\ UNCHANGED forwarded
    BY <1>1, <1>5 DEF TunnelOpens, Record
  <2>2. HandlerTypeOK'
    BY <1>1, <2>1 DEF HandlerTypeOK, Places, Outcomes, Peers, Pieces
  <2>3. OutcomeByPlace' /\ SilenceByPlace'
    BY <1>1, <2>1, OneIsNotTwo DEF OutcomeByPlace, RecordedOnce, SilenceByPlace, Early, Late
  <2>4. QED
    BY <1>3, <1>4, <2>2, <2>3
<1>6. CASE SendsRequest
  <2>1. at' = "sending" /\ recorded' = <<>> /\ request.method = "GET"
        /\ forwarded' = Sanitized
    BY <1>1, <1>6 DEF SendsRequest
  <2>2. Sanitized \in Forwarded
    BY RequestLengths DEF Sanitized, Forwarded, HandlerTypeOK
  <2>3. HandlerTypeOK'
    BY <1>1, <2>1, <2>2 DEF HandlerTypeOK, Places, Peers, Pieces
  <2>4. OutcomeByPlace' /\ SilenceByPlace'
    BY <1>1, <1>2, <2>1 DEF OutcomeByPlace, RecordedOnce, SilenceByPlace, Early, Late
  <2>5. QED
    BY <1>3, <1>4, <2>3, <2>4
<1>7. QED
  BY <1>5, <1>6

\* The client left before the 200: a second outcome of the same request.
LEMMA ClientLeavesTunnelInv ==
    ASSUME HandlerInv, ClientLeavesTunnel
    PROVE  HandlerInv'
<1> USE DEF HandlerInv, ClientLeavesTunnel, Fails, Record, peers
<1>1. /\ at' = "failing" /\ pending' = "none" /\ answer = <<>> /\ answer' = <<>>
      /\ recorded' = <<"success", "error">> /\ request.method = "CONNECT"
      /\ transport["client"] = "lost" /\ at = "established"
  BY ErrorAfterSuccess DEF AnswerByPlace, OutcomeByPlace
<1>2. HandlerTypeOK'
  BY <1>1 DEF HandlerTypeOK, Places, Outcomes, Peers, Pieces
<1>3. OutcomeByPlace'
  <2>1. RecordedOnce' /\ Len(recorded') = 2 /\ transport' = transport
        /\ request' = request
    BY <1>1, OneIsNotTwo DEF RecordedOnce
  <2>2. QED
    BY <1>1, <2>1 DEF OutcomeByPlace, Early, Late
<1>4. AnswerByPlace' /\ SilenceByPlace'
  BY <1>1 DEF AnswerByPlace, OneAnswer, SilenceByPlace
<1>5. RemoteByPlace'
  BY <1>1 DEF RemoteByPlace, Early, Late, Peers
<1>6. QED
  BY <1>2, <1>3, <1>4, <1>5

LEMMA RelayStartsInv ==
    ASSUME HandlerInv, RelayStarts
    PROVE  HandlerInv'
<1> USE DEF HandlerInv, RelayStarts, peers
<1>1. /\ at' = "relaying" /\ answer' = <<"established">> /\ recorded = <<"success">>
      /\ request.method = "CONNECT"
  BY DEF AnswerByPlace, OutcomeByPlace, Tell
<1>2. Len(answer') = 1 /\ answer'[1] = "established" /\ answer' \in Seq(Answers)
      /\ answer' # <<>>
  BY <1>1 DEF Answers
<1>3. AnswerByPlace'
  BY <1>1, <1>2 DEF AnswerByPlace, OneAnswer, TunnelAnswer, Early, Errors
<1>4. HandlerTypeOK'
  BY <1>1, <1>2 DEF HandlerTypeOK, Places, Peers, Pieces
<1>5. OutcomeByPlace' /\ SilenceByPlace'
  BY <1>1, <1>2, OneIsNotTwo DEF OutcomeByPlace, RecordedOnce, SilenceByPlace, Early, Late
<1>6. RemoteByPlace'
  BY <1>1 DEF RemoteByPlace, Early, Late, Peers
<1>7. QED
  BY <1>3, <1>4, <1>5, <1>6

LEMMA TunnelIsLostInv ==
    ASSUME HandlerInv, TunnelIsLost
    PROVE  HandlerInv'
<1> USE DEF HandlerInv, TunnelIsLost, Fails, Record
<1>1. /\ recorded' = <<"error">> /\ at' = "failing" /\ pending' = "none"
      /\ answer = <<>> /\ answer' = <<>> /\ request.method = "CONNECT"
      /\ transport' \in [Peers -> {"none", "open", "closing", "closed", "lost"}]
      /\ transport'["remote"] = "lost"
  BY DEF AnswerByPlace, OutcomeByPlace, HandlerTypeOK, Peers, Early
<1>2. HandlerTypeOK'
  BY <1>1 DEF HandlerTypeOK, Places, Outcomes, Pieces
<1>3. AnswerByPlace'
  BY <1>1 DEF AnswerByPlace, OneAnswer
<1>4. OutcomeByPlace'
  BY <1>1, OneIsNotTwo DEF OutcomeByPlace, RecordedOnce, Early, Late
<1>5. SilenceByPlace'
  BY <1>1 DEF SilenceByPlace, SocketWasLost, Early, Late
<1>6. RemoteByPlace'
  BY <1>1 DEF RemoteByPlace, Early, Late, Peers
<1>7. QED
  BY <1>2, <1>3, <1>4, <1>5, <1>6

LEMMA TunnelInv ==
    ASSUME HandlerInv, TunnelStep
    PROVE  HandlerInv'
<1>1. CASE TunnelFails
  <2>1. ReadsClient /\ at \in Early /\ "502" \in Errors
    BY <1>1, PeersReadNothing
    DEF TunnelFails, HandlerInv, HandlerTypeOK, Early, Errors
  <2>2. QED
    BY <1>1, <2>1, EarlyFails DEF TunnelFails
<1>2. QED
  BY <1>1, TunnelIsLostInv, OpensInv, ClientLeavesTunnelInv, RelayStartsInv DEF TunnelStep

-----------------------------------------------------------------------------
(***************************************************************************)
(* The two pipes.                                                          *)
(***************************************************************************)

\* What every step of a pipe leaves as it is.
LEMMA PipesRun ==
    ASSUME HandlerInv, NEW p \in Peers, PipeStep(p) \/ PipeDrained(p)
    PROVE  /\ at \in {"relaying", "unrelaying"}
           /\ TunnelAnswer /\ answer # <<>> /\ recorded = <<"success">>
<1>1. pipe[p] \notin {"none", "done"}
  BY DEF PipeStep, PipeDrained, PipeReads, PipeEnds, PipeClosed, CancelsPipe, HandlerInv,
     HandlerTypeOK
<1>2. at \in {"relaying", "unrelaying"}
  BY <1>1 DEF HandlerInv, RemoteByPlace
<1>3. QED
  BY <1>2 DEF HandlerInv, AnswerByPlace, OutcomeByPlace, TunnelAnswer

\* A step of a pipe that writes nothing to the client and closes one writer at most.
LEMMA PipeStepInv ==
    ASSUME HandlerInv, NEW p \in Peers,
           at \in {"relaying", "unrelaying"}, at' \in {"relaying", "unrelaying"},
           TunnelAnswer, answer # <<>>, recorded = <<"success">>,
           \/ UNCHANGED transport
           \/ Closing(Other(p)),
           \/ pipe' = [pipe EXCEPT ![p] = "reading"] /\ pipe[p] = "draining"
           \/ pipe' = [pipe EXCEPT ![p] = "draining"] /\ pipe[p] = "reading"
           \/ pipe' = [pipe EXCEPT ![p] = "closing"] /\ Closing(Other(p))
           \/ pipe' = [pipe EXCEPT ![p] = "done"] /\ pipe[p] = "closing",
           UNCHANGED <<request, ended, sent, body, forwarded, answer, recorded, pending>>,
           read' \in [Peers -> Nat], \A q \in Peers : read'[q] <= sent[q]
    PROVE  HandlerInv'
<1> USE DEF HandlerInv, Closing
<1>1. transport' \in [Peers -> {"none", "open", "closing", "closed", "lost"}]
      /\ (transport'["client"] = "lost" <=> transport["client"] = "lost")
      /\ (transport["remote"] # "open" => transport'["remote"] # "open")
  BY DEF HandlerTypeOK, Peers, Other
<1>2. HandlerTypeOK'
  <2>1. pipe' \in [Peers -> {"none", "reading", "draining", "closing", "done"}]
    BY DEF HandlerTypeOK
  <2>2. QED
    BY <1>1, <2>1 DEF HandlerTypeOK, Places, Pieces
<1>3. AnswerByPlace'
  BY DEF AnswerByPlace, OneAnswer, TunnelAnswer, Early
<1>4. OutcomeByPlace' /\ SilenceByPlace'
  BY <1>1, OneIsNotTwo DEF OutcomeByPlace, RecordedOnce, SilenceByPlace, Early, Late
<1>5. RemoteByPlace'
  <2>1. pipe'["client"] \in {"closing", "done"} => transport'["remote"] # "open"
    BY <1>1 DEF RemoteByPlace, HandlerTypeOK, Peers, Other
  <2>2. QED
    BY <2>1 DEF RemoteByPlace, Early, Late
<1>6. QED
  BY <1>2, <1>3, <1>4, <1>5

LEMMA PipeInv ==
    ASSUME HandlerInv, NEW p \in Peers, PipeStep(p) \/ PipeDrained(p)
    PROVE  HandlerInv'
<1> USE PipesRun
<1>1. read \in [Peers -> Nat] /\ \A q \in Peers : read[q] <= sent[q] /\ sent[q] \in Nat
  BY DEF HandlerInv, HandlerTypeOK
<1>2. CASE PipeReads(p)
  <2>1. /\ read' \in [Peers -> Nat] /\ \A q \in Peers : read'[q] <= sent[q]
        /\ UNCHANGED <<transport, ended, sent>>
    BY <1>1, <1>2 DEF PipeReads, Takes, Readable
  <2>2. CASE p = "client"
    BY <1>2, <2>1, <2>2, PipeStepInv DEF PipeReads, PipeTurns
  <2>3. CASE p = "remote"
    <3>1. Tell("piece") /\ answer \in Seq(Answers) /\ OneAnswer
      BY <1>2, <2>3 DEF PipeReads, HandlerInv, HandlerTypeOK, AnswerByPlace
    <3>2. answer' \in Seq(Answers) /\ TunnelAnswer' /\ OneAnswer'
      BY <3>1, NextPiece
    <3>3. /\ UNCHANGED <<request, at, body, forwarded, recorded, pending>>
          /\ pipe[p] = "reading" /\ pipe' = [pipe EXCEPT ![p] = "draining"]
      BY <1>2 DEF PipeReads, PipeTurns
    <3>4. HandlerTypeOK'
      BY <2>1, <3>2, <3>3 DEF HandlerInv, HandlerTypeOK, Pieces
    <3>5. AnswerByPlace'
      BY <3>2, <3>3 DEF AnswerByPlace, Early
    <3>6. OutcomeByPlace' /\ RemoteByPlace'
      BY <2>1, <2>3, <3>3, OneIsNotTwo
      DEF HandlerInv, HandlerTypeOK, OutcomeByPlace, RecordedOnce, RemoteByPlace, Early,
          Late, Peers
    <3>7. SilenceByPlace'
      BY <3>3 DEF SilenceByPlace, Early, Late
    <3>8. QED
      BY <3>4, <3>5, <3>6, <3>7 DEF HandlerInv
  <2>4. QED
    BY <2>2, <2>3 DEF Peers
<1>3. CASE PipeDrained(p)
  BY <1>1, <1>3, PipeStepInv DEF PipeDrained, PipeTurns, peers
<1>4. CASE PipeEnds(p)
  BY <1>1, <1>4, PipeStepInv DEF PipeEnds, PipeTurns
<1>5. CASE PipeClosed(p)
  BY <1>1, <1>5, PipeStepInv DEF PipeClosed, PipeTurns, peers
<1>6. CASE CancelsPipe(p)
  BY <1>1, <1>6, PipeStepInv DEF CancelsPipe
<1>7. QED
  BY <1>2, <1>3, <1>4, <1>5, <1>6 DEF PipeStep

-----------------------------------------------------------------------------
(***************************************************************************)
(* The forwarder.                                                          *)
(***************************************************************************)

LEMMA ForwardEndsInv ==
    ASSUME HandlerInv, at \in {"opening", "sending", "streaming"},
           request.method = "GET", NEW outcome \in Outcomes, ForwardEnds(outcome),
           answer' \in Seq(Answers), OneAnswer',
           transport["client"] # "lost" /\ answer' = <<>>
             => outcome = "success" /\ ended["remote"] /\ sent["remote"] = 0
    PROVE  HandlerInv'
<1> USE DEF HandlerInv, ForwardEnds, Closing
<1>1. at' = "closingRemote" /\ pending' = outcome /\ recorded = <<>> /\ recorded' = <<>>
  BY DEF OutcomeByPlace, Early
<1>2. transport' \in [Peers -> {"none", "open", "closing", "closed", "lost"}]
      /\ transport'["client"] = transport["client"]
      /\ transport'["remote"] # "open"
  BY DEF HandlerTypeOK, Peers
<1>3. HandlerTypeOK'
  BY <1>1, <1>2 DEF HandlerTypeOK, Places, Pieces
<1>4. AnswerByPlace'
  BY <1>1 DEF AnswerByPlace, Early
<1>5. OutcomeByPlace' /\ SilenceByPlace'
  BY <1>1, <1>2 DEF OutcomeByPlace, RecordedOnce, SilenceByPlace, Early, Late
<1>6. RemoteByPlace'
  BY <1>1, <1>2 DEF RemoteByPlace, Early, Late, Peers
<1>7. QED
  BY <1>3, <1>4, <1>5, <1>6

LEMMA StreamsInv ==
    ASSUME HandlerInv, Streams
    PROVE  HandlerInv'
<1> USE DEF HandlerInv, Streams, Takes
<1>1. at' = at /\ at = "streaming" /\ answer \in Seq(Answers) /\ OnlyPieces /\ OneAnswer
  BY DEF HandlerTypeOK, AnswerByPlace
<1>2. answer' \in Seq(Answers) /\ OnlyPieces' /\ OneAnswer' /\ answer' # <<>>
  BY <1>1, NextPiece
<1>3. HandlerTypeOK'
  BY <1>1, <1>2 DEF HandlerTypeOK, Pieces, Peers, Readable
<1>4. AnswerByPlace' /\ SilenceByPlace'
  BY <1>1, <1>2 DEF AnswerByPlace, SilenceByPlace, Early, Late
<1>5. OutcomeByPlace'
  BY <1>1, OneIsNotTwo DEF OutcomeByPlace, RecordedOnce, Early, Late
<1>6. RemoteByPlace'
  BY <1>1 DEF RemoteByPlace, Early, Late
<1>7. QED
  BY <1>3, <1>4, <1>5, <1>6

LEMMA ForwardReturnsInv ==
    ASSUME HandlerInv, ForwardReturns
    PROVE  HandlerInv'
<1> USE DEF HandlerInv, ForwardReturns, Record, Gone, peers
<1>1. at' = "closing" /\ recorded' = <<pending>> /\ pending \in Outcomes
      /\ request.method = "GET" /\ transport["remote"] # "open"
  BY DEF OutcomeByPlace
<1>2. Len(recorded') = 1 /\ recorded' \in Seq(Outcomes)
  BY <1>1
<1>3. recorded' # <<"success", "error">>
  BY <1>1, OneIsNotTwo DEF Outcomes
<1>4. HandlerTypeOK'
  BY <1>1, <1>2 DEF HandlerTypeOK, Places, Pieces
<1>5. AnswerByPlace'
  BY <1>1 DEF AnswerByPlace, OneAnswer, Early
<1>6. OutcomeByPlace'
  BY <1>1, <1>2, <1>3 DEF OutcomeByPlace, RecordedOnce, Early, Late
<1>7. SilenceByPlace'
  BY <1>1 DEF SilenceByPlace, Early, Late
<1>8. RemoteByPlace'
  BY <1>1 DEF RemoteByPlace, Early, Late
<1>9. QED
  BY <1>4, <1>5, <1>6, <1>7, <1>8

LEMMA ForwardInv ==
    ASSUME HandlerInv, ForwardStep
    PROVE  HandlerInv'
<1>1. answer \in Seq(Answers) /\ OneAnswer
  BY DEF HandlerInv, HandlerTypeOK, AnswerByPlace
<1>2. at \in {"opening", "sending", "streaming"} => OnlyPieces
  BY DEF HandlerInv, AnswerByPlace, Early, OnlyPieces
<1>3. at \in {"sending", "streaming"} => request.method = "GET"
  BY DEF HandlerInv, OutcomeByPlace
<1>4. CASE RequestSent
  <2>1. HandlerTypeOK'
    BY <1>4 DEF RequestSent, Turns, HandlerInv, HandlerTypeOK, Places, Pieces, peers
  <2>2. AnswerByPlace'
    BY <1>2, <1>4 DEF RequestSent, Turns, HandlerInv, AnswerByPlace, OnlyPieces, OneAnswer, Early
  <2>3. OutcomeByPlace' /\ SilenceByPlace'
    BY <1>4 DEF RequestSent, Turns, HandlerInv, OutcomeByPlace, RecordedOnce,
       SilenceByPlace, Early, Late, peers
  <2>4. RemoteByPlace'
    BY <1>4 DEF RequestSent, Turns, HandlerInv, RemoteByPlace, Early, Late, peers
  <2>5. QED
    BY <2>1, <2>2, <2>3, <2>4 DEF HandlerInv
<1>5. CASE ResponseEnds
  <2>1. transport["client"] # "lost" /\ answer = <<>> => ended["remote"] /\ sent["remote"] = 0
    BY <1>5 DEF ResponseEnds, AtEof, HandlerInv, SilenceByPlace, RemoteByPlace
  <2>2. answer' = answer /\ OneAnswer'
    BY <1>1, <1>5 DEF ResponseEnds, OneAnswer
  <2>3. QED
    BY <1>1, <1>3, <1>5, <2>1, <2>2, ForwardEndsInv DEF ResponseEnds, Outcomes
<1>6. CASE ForwardFails \/ SocketIsLost
  <2>1. PICK status \in Errors : Tell(status)
    BY <1>6 DEF ForwardFails, SocketIsLost, Errors
  <2>2. at \in {"opening", "sending", "streaming"} /\ request.method = "GET"
        /\ ForwardEnds("error")
    BY <1>3, <1>6 DEF ForwardFails, SocketIsLost
  <2>3. QED
    BY <1>1, <1>2, <2>1, <2>2, ErrorAfterPieces, ForwardEndsInv DEF Outcomes
<1>7. QED
  BY <1>4, <1>5, <1>6, StreamsInv, ForwardReturnsInv DEF ForwardStep

-----------------------------------------------------------------------------
(***************************************************************************)
(* The end of the connection.                                              *)
(***************************************************************************)

LEMMA AnswersFailureInv ==
    ASSUME HandlerInv, AnswersFailure
    PROVE  HandlerInv'
<1> USE DEF HandlerInv, AnswersFailure, peers
<1>1. at = "failing" /\ at' = "closing" /\ answer = <<>> /\ pending \in Errors \cup {"none"}
  BY DEF AnswerByPlace, OutcomeByPlace
<1>2. /\ answer' \in Seq(Answers) /\ OneAnswer'
      /\ transport["client"] # "lost" /\ answer' = <<>> => pending = "none"
      /\ transport["client"] = "lost" => answer' = <<>>
  <2>1. CASE pending = "none"
    BY <1>1, <2>1 DEF HandlerTypeOK, AnswerByPlace, OneAnswer
  <2>2. CASE pending # "none"
    <3>1. Tell(pending) /\ pending \in Answers /\ <<pending>> # <<>>
      BY <1>1, <2>2 DEF Answers
    <3>2. transport["client"] = "lost" => answer' = <<>>
      BY <1>1, <3>1 DEF Tell
    <3>3. /\ answer' \in Seq(Answers) /\ OneAnswer'
          /\ transport["client"] # "lost" => answer' = <<pending>>
      BY <1>1, <3>1, FirstAnswer
    <3>4. QED
      BY <3>1, <3>2, <3>3
  <2>3. QED
    BY <2>1, <2>2
<1>3. HandlerTypeOK'
  BY <1>1, <1>2 DEF HandlerTypeOK, Places, Pieces
<1>4. AnswerByPlace'
  BY <1>1, <1>2 DEF AnswerByPlace, Early
<1>5. OutcomeByPlace'
  BY <1>1, <1>2 DEF OutcomeByPlace, RecordedOnce, Early, Late
<1>6. SilenceByPlace'
  BY <1>1, <1>2 DEF SilenceByPlace, SocketWasLost, Early, Late
<1>7. RemoteByPlace'
  BY <1>1 DEF RemoteByPlace, Early, Late
<1>8. QED
  BY <1>3, <1>4, <1>5, <1>6, <1>7

LEMMA RelayOverInv ==
    ASSUME HandlerInv, RelayOver
    PROVE  HandlerInv'
<1> USE DEF HandlerInv, RelayOver, Turns, peers
<1>1. TunnelAnswer /\ answer # <<>> /\ recorded = <<"success">>
  BY DEF AnswerByPlace, OutcomeByPlace, TunnelAnswer
<1>2. HandlerTypeOK'
  BY DEF HandlerTypeOK, Places, Pieces
<1>3. AnswerByPlace' /\ SilenceByPlace'
  BY <1>1 DEF AnswerByPlace, OneAnswer, SilenceByPlace, Early, Late
<1>4. OutcomeByPlace'
  BY <1>1, OneIsNotTwo DEF OutcomeByPlace, RecordedOnce, Early, Late
<1>5. RemoteByPlace'
  BY DEF RemoteByPlace, Early, Late, Peers
<1>6. QED
  BY <1>2, <1>3, <1>4, <1>5

LEMMA LeavingInv ==
    ASSUME HandlerInv, ClosesClient \/ Leaves
    PROVE  HandlerInv'
<1> USE DEF HandlerInv, ClosesClient, Leaves, Turns, Closing, peers
<1>1. at \in Late /\ at' \in {"leaving", "done"}
      /\ UNCHANGED <<request, ended, sent, read, body, forwarded, answer, recorded, pending, pipe>>
  BY DEF Late
<1>2. /\ transport' \in [Peers -> {"none", "open", "closing", "closed", "lost"}]
      /\ transport'["remote"] = transport["remote"]
      /\ transport'["client"] = "lost" <=> transport["client"] = "lost"
  BY DEF HandlerTypeOK, Peers
<1>3. HandlerTypeOK'
  BY <1>1, <1>2 DEF HandlerTypeOK, Places, Pieces
<1>4. AnswerByPlace' /\ SilenceByPlace'
  BY <1>1, <1>2 DEF AnswerByPlace, OneAnswer, SilenceByPlace, SocketWasLost, Early, Late
<1>5. OutcomeByPlace'
  BY <1>1, <1>2 DEF OutcomeByPlace, RecordedOnce, Early, Late
<1>6. RemoteByPlace'
  BY <1>1, <1>2 DEF RemoteByPlace, Early, Late
<1>7. QED
  BY <1>3, <1>4, <1>5, <1>6

-----------------------------------------------------------------------------
\* What the peers do: only a remote host whose connection is open sends.
LEMMA PeerInv ==
    ASSUME HandlerInv, NEW p \in Peers, PeerStep(p)
    PROVE  HandlerInv'
<1> USE DEF HandlerInv
<1>1. UNCHANGED <<request, at, read, body, forwarded, answer, recorded, pending, pipe>>
  BY DEF PeerStep, Sends, Ends, Vanishes, ReadsTheRest
<1>2. /\ transport' \in [Peers -> {"none", "open", "closing", "closed", "lost"}]
      /\ ended' \in [Peers -> BOOLEAN]
      /\ transport["client"] = "lost" => transport'["client"] = "lost"
      /\ transport["remote"] # "open" => transport'["remote"] # "open"
      /\ transport["remote"] = "none" => transport'["remote"] = "none"
      /\ transport["remote"] = "lost" => transport'["remote"] = "lost"
      /\ transport["remote"] = "open" => transport'["remote"] \in {"open", "lost"}
      /\ ended["remote"] => ended'["remote"]
  BY DEF PeerStep, Sends, Ends, Vanishes, ReadsTheRest, HandlerTypeOK, Peers
<1>3. /\ sent' \in [Peers -> Nat] /\ \A q \in Peers : sent'[q] <= Pieces(q)
      /\ \A q \in Peers : read[q] <= sent'[q]
      /\ transport["remote"] # "open" => sent'["remote"] = sent["remote"]
  <2>1. CASE Sends(p)
    <3>1. Pieces(p) \in Nat /\ sent[p] < Pieces(p) /\ transport[p] = "open"
          /\ sent' = [sent EXCEPT ![p] = @ + 1]
      BY <2>1, HandlerConstants DEF HandlerConstants, Sends, Pieces
    <3>2. sent' \in [Peers -> Nat]
      BY <3>1 DEF HandlerTypeOK
    <3>3. \A q \in Peers : sent'[q] <= Pieces(q) /\ read[q] <= sent'[q]
      BY <3>1 DEF HandlerTypeOK
    <3>4. transport["remote"] # "open" => sent'["remote"] = sent["remote"]
      BY <3>1 DEF HandlerTypeOK, Peers
    <3>5. QED
      BY <3>2, <3>3, <3>4
  <2>2. CASE UNCHANGED sent
    BY <2>2 DEF HandlerTypeOK
  <2>3. QED
    BY <2>1, <2>2 DEF PeerStep, Ends, Vanishes, ReadsTheRest
<1>4. HandlerTypeOK'
  <2>1. \A q \in Peers : Pieces(q)' = Pieces(q)
    BY DEF Pieces
  <2>2. QED
    BY <1>1, <1>2, <1>3, <2>1 DEF HandlerTypeOK
<1>5. AnswerByPlace'
  BY <1>1 DEF AnswerByPlace, OneAnswer, OnlyPieces, TunnelAnswer
<1>6. OutcomeByPlace' /\ RemoteByPlace'
  BY <1>1, <1>2 DEF OutcomeByPlace, RecordedOnce, RemoteByPlace
<1>7. SilenceByPlace'
  BY <1>1, <1>2, <1>3, OneIsNotTwo DEF SilenceByPlace, SocketWasLost, RemoteByPlace, OutcomeByPlace, Early, Late
<1>8. QED
  BY <1>4, <1>5, <1>6, <1>7

THEOREM HandlerInductive == Spec => []HandlerInv
<1>1. HandlerInv /\ UNCHANGED vars => HandlerInv'
  BY DEF vars, peers, HandlerInv, HandlerTypeOK, Pieces, AnswerByPlace, OneAnswer,
     OnlyPieces, TunnelAnswer, OutcomeByPlace, RecordedOnce, RemoteByPlace, SilenceByPlace,
     SocketWasLost
<1>2. HandlerInv /\ Next => HandlerInv'
  BY HeadInv, BodyInv, TunnelInv, ForwardInv, AnswersFailureInv, RelayOverInv, LeavingInv,
     PipeInv, PeerInv DEF Next, EndStep
<1>3. QED
  BY HandlerInitInv, <1>1, <1>2, PTL DEF Spec

\* The handler never takes a piece its peer has not sent, and passes on no framing
\* that concerns one connection only (handler.py:59-146, sanitizer.py:30-73).
THEOREM HandlerTypeCorrect == Spec => []HandlerTypeOK
BY HandlerInductive, PTL DEF HandlerInv

\* Whatever either peer sends, ends or loses at whatever point, the client is
\* answered at most once, and no error of the proxy's gets into a tunnel
\* (handler.py:160-182, forwarder.py:116-139).
THEOREM HandlerAnswersOnce == Spec => []OneAnswer
BY HandlerInductive, PTL DEF HandlerInv, AnswerByPlace

\* Each request that got as far as the upstream is recorded once, except where the
\* client left between the tunnel and the 200 (handler.py:160-181, 294-300, 394-398).
THEOREM HandlerRecordsOnce == Spec => []RecordedOnce
BY HandlerInductive, PTL DEF HandlerInv, OutcomeByPlace

\* No way through the handler leaves the connection to the remote host open, with
\* the same exception (handler.py:300, tunnel.py:188-193, forwarder.py:140-146).
THEOREM HandlerClosesTunnel == Spec => []TunnelClosedAtEnd
<1>1. HandlerInv => TunnelClosedAtEnd
  BY DEF HandlerInv, HandlerTypeOK, RemoteByPlace, TunnelClosedAtEnd, Gone, Late, Peers
<1>2. QED
  BY <1>1, HandlerInductive, PTL

\* A client who stays is answered whichever way the request ends, a tunnel that is
\* refused or takes too long included; but for a remote host that closes without a
\* response and a socket lost between SOCKS5 and asyncio (handler.py:160-182,
\* forwarder.py:103-139).
THEOREM HandlerAnswers == Spec => []StayingClientIsAnswered
<1>1. HandlerInv => StayingClientIsAnswered
  BY DEF HandlerInv, SilenceByPlace, SocketWasLost, StayingClientIsAnswered, Late
<1>2. QED
  BY <1>1, HandlerInductive, PTL

-----------------------------------------------------------------------------
(***************************************************************************)
(* The body that is forwarded.                                             *)
(***************************************************************************)

\* The body as collected is what was read after the head, or the chunks, and the
\* request is sent when it is whole.
BodyByPlace ==
    /\ at \in Early => transport["client"] \in {"open", "lost"}
    /\ at = "chunks" => request.chunked
    /\ request.method = "GET" /\ ~request.chunked =>
         /\ at \in {"body", "opening"} => body = read["client"] - 1
         /\ at = "opening" => body >= ContentLength \/ ended["client"]
    /\ request.method = "GET" /\ request.chunked =>
         /\ at # "body"
         /\ at = "opening" => body = request.chunks /\ ~request.breaks
    /\ BodyIsWhole

\* A step after which the request is neither collected nor begun to be sent.
LEMMA BodyKept ==
    ASSUME BodyByPlace, HandlerTypeOK, UNCHANGED <<request, forwarded>>,
           ended["client"] => ended'["client"],
           \/ request.method = "CONNECT" \/ transport'["remote"] = "none"
           \/ transport["remote"] # "none" /\ read'["client"] = read["client"],
           \/ at' \in {"denying", "health", "chunks"} /\ at \in Early /\ UNCHANGED transport
              /\ (at' = "chunks" => request.chunked)
           \/ at' = "opening" /\ at \in Early /\ UNCHANGED transport
              /\ request.method = "CONNECT"
           \/ at' \notin Early
           \/ at' = at /\ at \notin Early
    PROVE  BodyByPlace'
<1>1. request.method = "CONNECT" => request.method # "GET"
  OBVIOUS
<1>2. BodyIsWhole'
  <2>1. CASE request.method = "CONNECT" \/ transport'["remote"] = "none"
    BY <1>1, <2>1 DEF BodyIsWhole
  <2>2. CASE transport["remote"] # "none" /\ read'["client"] = read["client"]
    BY <2>2 DEF BodyByPlace, BodyIsWhole, ContentLength
  <2>3. QED
    BY <2>1, <2>2
<1>3. ContentLength' = ContentLength
  BY DEF ContentLength
<1>4. QED
  BY <1>1, <1>2, <1>3 DEF BodyByPlace, Early

LEMMA BodyHead ==
    ASSUME HandlerInv, BodyByPlace, HeadStep
    PROVE  BodyByPlace'
<1> USE DEF HandlerInv
<1>1. at \in Early /\ UNCHANGED <<request, forwarded, transport, ended>>
  BY DEF HeadStep, HeadTimesOut, HeadIsCut, AnswersHealth, RefusesMalformed, RefusesTarget,
     RefusesHealth, DeniesHealth, DenialIsLost, Blocks, RefusesLength, BeginsHealth,
     BeginsConnect, BeginsHttp, BeginsChunked, HealthCheck, Accepts, ReadsHead, Fails,
     Rejects, Turns, Early, peers
<1>2. transport'["remote"] = "none"
  BY <1>1 DEF RemoteByPlace
<1>3. CASE BeginsHttp
  <2>1. PICK extra \in 0..(sent["client"] - 1) :
           read' = [read EXCEPT !["client"] = 1 + extra] /\ body' = extra
    BY <1>3 DEF BeginsHttp, Accepts, ReadsHead
  <2>2. read'["client"] = 1 + extra /\ extra \in Int /\ at' = "body" /\ ~request.chunked
    BY <1>3, <2>1 DEF HandlerTypeOK, Peers, BeginsHttp, Turns
  <2>3. BodyIsWhole'
    BY <1>2 DEF BodyIsWhole
  <2>4. QED
    BY <1>1, <2>1, <2>2, <2>3 DEF BodyByPlace, Early
<1>4. CASE ~BeginsHttp
  <2>1. \/ at' \in {"denying", "health"} \/ (at' = "chunks" /\ request.chunked)
        \/ at' \notin Early
        \/ at' = "opening" /\ request.method = "CONNECT"
    BY <1>4 DEF HeadStep, HeadTimesOut, HeadIsCut, AnswersHealth, RefusesMalformed,
       RefusesTarget, RefusesHealth, DeniesHealth, DenialIsLost, Blocks, RefusesLength,
       BeginsHealth, BeginsConnect, BeginsChunked, HealthCheck, Accepts, Fails, Rejects,
       Turns, Early
  <2>2. QED
    BY <1>1, <1>2, <2>1, BodyKept
<1>5. QED
  BY <1>3, <1>4

LEMMA BodyCollected ==
    ASSUME HandlerInv, BodyByPlace, BodyStep
    PROVE  BodyByPlace'
<1> USE DEF HandlerInv
<1>1. at \in Early /\ UNCHANGED <<request, forwarded, transport, ended>>
  BY DEF BodyStep, ReadsBody, ReadsChunk, ReadsLastChunk, NextChunk, RefusesChunks, BodyIsCut,
     BeginsForward, BodyComplete, Takes, Fails, Rejects, Turns, Early, peers
<1>2. transport'["remote"] = "none" /\ BodyIsWhole' /\ ContentLength' = ContentLength
  BY <1>1 DEF RemoteByPlace, BodyIsWhole, ContentLength
<1>3. CASE ReadsBody
  <2>1. at = "body" /\ at' = "body" /\ body' = body + 1
        /\ read' = [read EXCEPT !["client"] = @ + 1]
    BY <1>3 DEF ReadsBody, Takes, Turns
  <2>2. read'["client"] = read["client"] + 1 /\ read["client"] \in Nat /\ body \in Nat
    BY <2>1 DEF HandlerTypeOK, Peers
  <2>3. QED
    BY <1>1, <1>2, <2>1, <2>2 DEF BodyByPlace, Early
<1>4. CASE BeginsForward
  <2>1. /\ at = "body" /\ at' \in {"opening", "failing"} /\ UNCHANGED <<read, body>>
        /\ body >= ContentLength \/ AtEof("client")
    BY <1>4 DEF BeginsForward, BodyComplete, Turns, Fails, peers
  <2>2. AtEof("client") => ended["client"]
    BY <1>1 DEF AtEof, BodyByPlace
  <2>3. QED
    BY <1>1, <1>2, <2>1, <2>2 DEF BodyByPlace, Early
<1>5. CASE ReadsLastChunk
  <2>1. /\ at = "chunks" /\ at' = "opening" /\ request.chunked
        /\ body = request.chunks /\ ~request.breaks /\ body' = body
    BY <1>5 DEF ReadsLastChunk, NextChunk, Turns, BodyByPlace
  <2>2. QED
    BY <1>1, <1>2, <2>1 DEF BodyByPlace, Early
<1>6. CASE ReadsChunk \/ RefusesChunks \/ BodyIsCut
  <2>1. (at' = "chunks" /\ at = "chunks") \/ at' \notin Early
    BY <1>6 DEF ReadsChunk, NextChunk, RefusesChunks, BodyIsCut, Fails, Rejects, Turns, Early
  <2>2. at = "chunks" => request.chunked
    BY DEF BodyByPlace
  <2>3. QED
    BY <1>1, <1>2, <2>1, <2>2, BodyKept
<1>7. QED
  BY <1>3, <1>4, <1>5, <1>6 DEF BodyStep

LEMMA BodySent ==
    ASSUME HandlerInv, BodyByPlace, TunnelStep
    PROVE  BodyByPlace'
<1> USE DEF HandlerInv
<1>1. CASE SendsRequest
  <2>1. /\ at = "opening" /\ at' = "sending" /\ request.method = "GET"
        /\ forwarded'.body = body
        /\ UNCHANGED <<request, read, ended>>
    BY <1>1 DEF SendsRequest, Opens, Sanitized
  <2>2. request.chunked \in BOOLEAN /\ ContentLength' = ContentLength
    BY <2>1, RequestLengths DEF HandlerTypeOK, ContentLength
  <2>3. BodyIsWhole'
    BY <2>1, <2>2 DEF BodyByPlace, BodyIsWhole
  <2>4. QED
    BY <2>1, <2>3 DEF BodyByPlace, Early
<1>2. CASE ~SendsRequest
  <2>1. at \in {"opening", "established"} /\ UNCHANGED <<request, forwarded, ended, read>>
        /\ (request.method = "CONNECT" \/ UNCHANGED transport)
    BY <1>2 DEF TunnelStep, TunnelOpens, Opens, TunnelFails, TunnelIsLost, RelayStarts,
       ClientLeavesTunnel, Fails, peers
  <2>2. at' \notin Early
    BY <1>2 DEF TunnelStep, TunnelOpens, TunnelFails, TunnelIsLost, RelayStarts,
       ClientLeavesTunnel, Fails, Early
  <2>3. at = "established" => request.method = "CONNECT"
    BY DEF OutcomeByPlace
  <2>4. QED
    BY <2>1, <2>2, <2>3, BodyKept DEF RemoteByPlace, Early
<1>3. QED
  BY <1>1, <1>2

\* Nothing is read from the client after that but by a tunnel's pipe.
LEMMA BodyLeft ==
    ASSUME HandlerInv, BodyByPlace,
           \/ ForwardStep \/ EndStep
           \/ \E p \in Peers : PipeStep(p) \/ PipeDrained(p)
    PROVE  BodyByPlace'
<1> USE DEF HandlerInv
<1>1. CASE ForwardStep
  <2>1. at' \notin Early /\ UNCHANGED <<request, forwarded, ended>>
        /\ read'["client"] = read["client"]
        /\ (transport["remote"] = "none" => transport'["remote"] = "none")
    BY <1>1 DEF ForwardStep, RequestSent, Streams, ResponseEnds, ForwardFails, SocketIsLost,
       ForwardReturns, ForwardEnds, Closing, Turns, Takes, HandlerTypeOK, Peers, peers, Early
  <2>2. QED
    BY <2>1, BodyKept
<1>2. CASE EndStep
  <2>1. at' \notin Early /\ UNCHANGED <<request, forwarded, ended, read>>
        /\ transport'["remote"] = transport["remote"]
    BY <1>2 DEF EndStep, AnswersFailure, RelayOver, ClosesClient, Closing, Leaves, Turns,
       HandlerTypeOK, Peers, peers, Early
  <2>2. QED
    BY <2>1, BodyKept
<1>3. ASSUME NEW p \in Peers, PipeStep(p) \/ PipeDrained(p)
      PROVE  BodyByPlace'
  <2>1. at \in {"relaying", "unrelaying"} /\ request.method = "CONNECT"
    BY <1>3, PipesRun DEF OutcomeByPlace
  <2>2. at' \in {"relaying", "unrelaying"} /\ UNCHANGED <<request, forwarded, ended>>
    BY <1>3, <2>1 DEF PipeStep, PipeDrained, PipeReads, PipeEnds, PipeClosed, CancelsPipe,
       PipeTurns, Takes, peers
  <2>3. QED
    BY <2>1, <2>2, BodyKept DEF Early
<1>4. QED
  BY <1>1, <1>2, <1>3

LEMMA BodyAmongPeers ==
    ASSUME HandlerInv, BodyByPlace, NEW p \in Peers, PeerStep(p)
    PROVE  BodyByPlace'
<1>1. UNCHANGED <<request, at, read, body, forwarded>>
  BY DEF PeerStep, Sends, Ends, Vanishes, ReadsTheRest
<1>2. /\ ended["client"] => ended'["client"]
      /\ transport["client"] \in {"open", "lost"} => transport'["client"] \in {"open", "lost"}
      /\ transport["remote"] = "none" => transport'["remote"] = "none"
  BY DEF PeerStep, Sends, Ends, Vanishes, ReadsTheRest, HandlerInv, HandlerTypeOK, Peers
<1>3. BodyIsWhole' /\ ContentLength' = ContentLength
  BY <1>1, <1>2 DEF BodyByPlace, BodyIsWhole, ContentLength
<1>4. QED
  BY <1>1, <1>2, <1>3 DEF BodyByPlace

\* Whatever of the client's body comes with the head, in pieces or not at all, and
\* whichever way it is delimited, what is sent on is the whole of it, or all there was
\* when the client ended; a chunked body is sent on whole or not at all
\* (handler.py:346-380, 424-486).
THEOREM HandlerForwardsWholeBody == Spec => []BodyIsWhole
<1>1. Init => BodyByPlace
  BY DEF Init, BodyByPlace, BodyIsWhole, Peers
<1>2. HandlerInv /\ BodyByPlace /\ [Next]_vars => BodyByPlace'
  <2>1. BodyByPlace /\ UNCHANGED vars => BodyByPlace'
    BY DEF vars, peers, BodyByPlace, BodyIsWhole, ContentLength
  <2>2. QED
    BY <2>1, BodyHead, BodyCollected, BodySent, BodyLeft, BodyAmongPeers DEF Next
<1>3. BodyByPlace => BodyIsWhole
  BY DEF BodyByPlace
<1>4. QED
  BY <1>1, <1>2, <1>3, HandlerInductive, PTL DEF Spec

-----------------------------------------------------------------------------
(***************************************************************************)
(* The response that is passed on.                                         *)
(***************************************************************************)

\* A request that was forwarded: to a client who is there every piece taken is
\* passed on, and at a success no piece is left.
ForwardIsWhole ==
    transport["client"] # "lost" =>
        /\ at \in {"sending", "streaming"} => OnlyPieces /\ Len(answer) = read["remote"]
        /\ (\/ at = "closingRemote" /\ pending = "success"
            \/ at \in Late /\ recorded = <<"success">> /\ request.method = "GET")
             => /\ OnlyPieces /\ Len(answer) = read["remote"]
                /\ read["remote"] = sent["remote"] /\ transport["remote"] # "open"

Relaying == at \in {"relaying", "unrelaying"}

Relayed == at \in Late /\ recorded = <<"success">> /\ request.method = "CONNECT"

\* Nothing but the end of the remote host ends the relay.
Intact ==
    transport["client"] # "lost" /\ transport["remote"] # "lost" /\ ~ended["client"]

RelayIsEnding ==
    \E p \in Peers : pipe[p] \in {"closing", "done"} \/ transport[p] \in {"closing", "closed"}

Exhausted == read["remote"] = sent["remote"] /\ ended["remote"]

TunnelIsWhole ==
    /\ at \in Early \cup {"established"} =>
          /\ read["remote"] = 0
          /\ \A p \in Peers : transport[p] \notin {"closing", "closed"}
    /\ at = "failing" => recorded # <<"success">>
    /\ (Relaying \/ Relayed) /\ transport["client"] # "lost"
         => TunnelAnswer /\ Len(answer) = read["remote"] + 1
    /\ Relaying /\ Intact /\ RelayIsEnding => Exhausted
    /\ Relayed /\ Intact => Exhausted

\* Up to the tunnel, and for a request that gets none.
LEMMA WholeBefore ==
    ASSUME HandlerInv, TunnelIsWhole,
           HeadStep \/ BodyStep \/ TunnelFails \/ TunnelIsLost
    PROVE  ForwardIsWhole' /\ TunnelIsWhole'
<1> USE DEF HandlerInv
<1>1. at \in Early /\ recorded = <<>> /\ read["remote"] = 0
      /\ (UNCHANGED transport \/ at' = "failing")
      /\ read'["remote"] = read["remote"]
  <2>1. at \in Early
    BY DEF HeadStep, HeadTimesOut, HeadIsCut, AnswersHealth, RefusesMalformed, RefusesTarget,
       RefusesHealth, DeniesHealth, DenialIsLost, Blocks, RefusesLength, BeginsHealth, BeginsConnect, BeginsHttp,
       BeginsChunked, HealthCheck, Accepts, ReadsHead, BodyStep, ReadsBody, ReadsChunk,
       ReadsLastChunk, NextChunk, RefusesChunks, BodyIsCut, BeginsForward, BodyComplete,
       TunnelFails, TunnelIsLost, Early
  <2>2. (UNCHANGED transport \/ at' = "failing") /\ read'["remote"] = read["remote"]
    <3>1. CASE UNCHANGED peers
      BY <3>1 DEF peers
    <3>2. CASE Takes("client")
      BY <3>2 DEF Takes, HandlerTypeOK, Peers
    <3>3. CASE ReadsHead
      BY <3>3 DEF ReadsHead, HandlerTypeOK, Peers
    <3>4. CASE TunnelIsLost
      BY <3>4 DEF TunnelIsLost, Fails
    <3>5. QED
      BY <3>1, <3>2, <3>3, <3>4
      DEF HeadStep, HeadTimesOut, HeadIsCut, AnswersHealth, RefusesMalformed, RefusesTarget,
          RefusesHealth, DeniesHealth, DenialIsLost, Blocks, RefusesLength, BeginsHealth, BeginsConnect, BeginsHttp,
          BeginsChunked, HealthCheck, Accepts, BodyStep, ReadsBody, ReadsChunk,
          ReadsLastChunk, NextChunk, RefusesChunks, BodyIsCut, BeginsForward, TunnelFails
  <2>3. QED
    BY <2>1, <2>2 DEF OutcomeByPlace, TunnelIsWhole
<1>2. \/ at' \in Early
      \/ at' = "failing" /\ recorded' = <<"error">>
      \/ at' = "closing" /\ recorded' = <<>>
  BY <1>1
  DEF HeadStep, HeadTimesOut, HeadIsCut, AnswersHealth, RefusesMalformed, RefusesTarget,
      RefusesHealth, DeniesHealth, DenialIsLost, Blocks, RefusesLength, BeginsHealth, BeginsConnect, BeginsHttp,
      BeginsChunked, HealthCheck, Accepts, BodyStep, ReadsBody, ReadsChunk, ReadsLastChunk,
      NextChunk, RefusesChunks, BodyIsCut, BeginsForward, TunnelFails, TunnelIsLost, Fails,
      Rejects, Turns, Record, Early
<1>3. <<"error">> # <<"success">> /\ <<>> # <<"success">>
  OBVIOUS
<1>4. QED
  BY <1>1, <1>2, <1>3
  DEF TunnelIsWhole, ForwardIsWhole, Relaying, Relayed, Early, Late, Peers

LEMMA WholeTunnelBegins ==
    ASSUME HandlerInv, TunnelIsWhole,
           TunnelOpens \/ SendsRequest \/ RelayStarts \/ ClientLeavesTunnel
    PROVE  ForwardIsWhole' /\ TunnelIsWhole'
<1> USE DEF HandlerInv
<1>1. /\ at \in {"opening", "established"} /\ answer = <<>> /\ read["remote"] = 0
      /\ \A p \in Peers : transport[p] \notin {"closing", "closed"} /\ pipe[p] = "none"
      /\ UNCHANGED <<read, sent, ended, request>>
  BY DEF TunnelOpens, SendsRequest, Opens, RelayStarts, ClientLeavesTunnel, Fails, peers,
     AnswerByPlace, RemoteByPlace, TunnelIsWhole, Early
<1>2. CASE TunnelOpens
  <2>1. at' = "established" /\ transport' = [transport EXCEPT !["remote"] = "open"]
    BY <1>2 DEF TunnelOpens, Opens
  <2>2. QED
    BY <1>1, <2>1
    DEF HandlerTypeOK, TunnelIsWhole, ForwardIsWhole, Relaying, Relayed, Early, Late, Peers
<1>3. CASE SendsRequest
  <2>1. at' = "sending" /\ answer' = <<>>
    BY <1>1, <1>3 DEF SendsRequest, Opens
  <2>2. QED
    BY <1>1, <2>1
    DEF TunnelIsWhole, ForwardIsWhole, OnlyPieces, Relaying, Relayed, Early, Late
<1>4. CASE RelayStarts
  <2>1. /\ at' = "relaying" /\ answer' = <<"established">> /\ UNCHANGED transport
        /\ pipe' = [p \in Peers |-> "reading"]
    BY <1>1, <1>4 DEF RelayStarts, Tell, peers
  <2>2. TunnelAnswer' /\ Len(answer') = 1
    BY <2>1 DEF TunnelAnswer
  <2>3. ~RelayIsEnding'
    BY <1>1, <2>1 DEF RelayIsEnding
  <2>4. QED
    BY <1>1, <2>1, <2>2, <2>3
    DEF TunnelIsWhole, ForwardIsWhole, Relaying, Relayed, Early, Late
<1>5. CASE ClientLeavesTunnel
  <2>1. at' = "failing" /\ recorded' = <<"success", "error">>
    BY <1>5, ErrorAfterSuccess DEF ClientLeavesTunnel, Fails, Record, OutcomeByPlace
  <2>2. QED
    BY <2>1, OneIsNotTwo
    DEF TunnelIsWhole, ForwardIsWhole, Relaying, Relayed, Early, Late
<1>6. QED
  BY <1>2, <1>3, <1>4, <1>5

LEMMA PieceLength ==
    ASSUME answer \in Seq(Answers), Tell("piece"), transport["client"] # "lost"
    PROVE  Len(answer') = Len(answer) + 1
BY DEF Tell

LEMMA WholeForwarded ==
    ASSUME HandlerInv, ForwardIsWhole, TunnelIsWhole, ForwardStep
    PROVE  ForwardIsWhole' /\ TunnelIsWhole'
<1> USE DEF HandlerInv
<1>1. request.method # "CONNECT" /\ request' = request
  BY DEF ForwardStep, RequestSent, Streams, ResponseEnds, ForwardFails, SocketIsLost,
     ForwardReturns, ForwardEnds, Turns, OutcomeByPlace
<1>2. at' \in {"streaming", "closingRemote", "closing"}
  BY DEF ForwardStep, RequestSent, Streams, ResponseEnds, ForwardFails, SocketIsLost,
     ForwardReturns, ForwardEnds, Turns
<1>3. TunnelIsWhole'
  BY <1>1, <1>2 DEF TunnelIsWhole, Relaying, Relayed, Early
<1>4. CASE RequestSent
  BY <1>3, <1>4
  DEF RequestSent, Turns, ForwardIsWhole, OnlyPieces, Late, peers
<1>5. CASE Streams
  <2>1. /\ OnlyPieces /\ Len(answer) = read["remote"] /\ answer \in Seq(Answers)
        /\ OneAnswer /\ transport["client"] # "lost" /\ Tell("piece") /\ at' = "streaming"
    BY <1>5 DEF Streams, ForwardIsWhole, HandlerTypeOK, AnswerByPlace
  <2>2. OnlyPieces' /\ Len(answer') = read["remote"] + 1
    BY <2>1, NextPiece, PieceLength
  <2>3. read'["remote"] = read["remote"] + 1
    BY <1>5 DEF Streams, Takes, HandlerTypeOK, Peers
  <2>4. QED
    BY <1>3, <2>1, <2>2, <2>3 DEF ForwardIsWhole, Late
<1>6. CASE ResponseEnds
  <2>1. /\ read["remote"] = sent["remote"] /\ at' = "closingRemote"
        /\ transport["client"] # "lost" => OnlyPieces /\ Len(answer) = read["remote"]
        /\ UNCHANGED <<answer, sent, read>>
    BY <1>6 DEF ResponseEnds, AtEof, ForwardEnds, ForwardIsWhole
  <2>2. transport'["remote"] # "open" /\ transport'["client"] = transport["client"]
    BY <1>6 DEF ResponseEnds, ForwardEnds, Closing, HandlerTypeOK, Peers
  <2>3. QED
    BY <1>3, <2>1, <2>2 DEF ForwardIsWhole, OnlyPieces, Late
<1>7. CASE ForwardFails \/ SocketIsLost
  <2>1. at' = "closingRemote" /\ pending' = "error"
    BY <1>7 DEF ForwardFails, SocketIsLost, ForwardEnds
  <2>2. QED
    BY <1>3, <2>1 DEF ForwardIsWhole, Late
<1>8. CASE ForwardReturns
  <2>1. /\ at = "closingRemote" /\ at' = "closing" /\ recorded' = <<pending>>
        /\ UNCHANGED <<answer, peers>>
    BY <1>8 DEF ForwardReturns, Record, OutcomeByPlace
  <2>2. <<pending>> = <<"success">> => pending = "success"
    OBVIOUS
  <2>3. QED
    BY <1>3, <2>1, <2>2 DEF ForwardIsWhole, OnlyPieces, Late, peers
<1>9. QED
  BY <1>4, <1>5, <1>6, <1>7, <1>8 DEF ForwardStep

LEMMA WholeAtEnd ==
    ASSUME HandlerInv, ForwardIsWhole, TunnelIsWhole, EndStep
    PROVE  ForwardIsWhole' /\ TunnelIsWhole'
<1> USE DEF HandlerInv
<1>1. CASE AnswersFailure
  BY <1>1 DEF AnswersFailure, ForwardIsWhole, TunnelIsWhole, Relaying, Relayed, Early, Late
<1>2. CASE RelayOver
  <2>1. /\ Relaying /\ at' = "closing" /\ recorded = <<"success">>
        /\ request.method = "CONNECT" /\ RelayIsEnding
        /\ UNCHANGED <<peers, request, answer, recorded>>
    BY <1>2 DEF RelayOver, Relaying, OutcomeByPlace, RelayIsEnding, Turns, Peers
  <2>2. QED
    BY <2>1
    DEF ForwardIsWhole, TunnelIsWhole, TunnelAnswer, Relaying, Relayed, Intact, Exhausted,
        Early, Late, peers
<1>3. CASE ClosesClient \/ Leaves
  <2>1. /\ at \in Late /\ at' \in {"leaving", "done"}
        /\ UNCHANGED <<request, ended, sent, read, answer, recorded>>
    BY <1>3 DEF ClosesClient, Leaves, Turns, Late, peers
  <2>2. /\ transport'["client"] = "lost" <=> transport["client"] = "lost"
        /\ transport'["remote"] = transport["remote"]
    BY <1>3 DEF ClosesClient, Leaves, Closing, HandlerTypeOK, Peers, peers
  <2>3. QED
    BY <2>1, <2>2
    DEF ForwardIsWhole, TunnelIsWhole, TunnelAnswer, OnlyPieces, Relaying, Relayed, Intact,
        Exhausted, Early, Late
<1>4. QED
  BY <1>1, <1>2, <1>3 DEF EndStep

\* A pipe that ends, in a relay that nothing but the remote host ends, has taken
\* all there was.
LEMMA PipeEndsWhole ==
    ASSUME HandlerInv, TunnelIsWhole, NEW p \in Peers, Relaying, Intact,
           PipeEnds(p) \/ PipeClosed(p) \/ CancelsPipe(p)
    PROVE  Exhausted
<1>1. RelayIsEnding => Exhausted
  BY DEF TunnelIsWhole
<1>2. CASE PipeEnds(p)
  BY <1>1, <1>2
  DEF PipeEnds, AtEof, Intact, Exhausted, RelayIsEnding, Peers, Other
<1>3. CASE PipeClosed(p) \/ CancelsPipe(p)
  BY <1>1, <1>3 DEF PipeClosed, CancelsPipe, RelayIsEnding, Peers, Other
<1>4. QED
  BY <1>2, <1>3

LEMMA WholePipe ==
    ASSUME HandlerInv, TunnelIsWhole, NEW p \in Peers, PipeStep(p) \/ PipeDrained(p)
    PROVE  ForwardIsWhole' /\ TunnelIsWhole'
<1> USE DEF HandlerInv
<1>1. Relaying /\ TunnelAnswer
  BY PipesRun DEF Relaying
<1>2. Relaying' /\ UNCHANGED <<sent, ended>>
  BY <1>1 DEF PipeStep, PipeDrained, PipeReads, PipeEnds, PipeClosed, CancelsPipe, PipeTurns,
     Takes, Relaying, peers
<1>3. \A q \in Peers : transport'[q] = "lost" <=> transport[q] = "lost"
  BY DEF PipeStep, PipeDrained, PipeReads, PipeEnds, PipeClosed, CancelsPipe, Takes, Closing,
     HandlerTypeOK, peers
<1>4. transport'["client"] # "lost" => TunnelAnswer' /\ Len(answer') = read'["remote"] + 1
  <2>1. CASE PipeReads(p) /\ p = "remote"
    <3>1. /\ Tell("piece") /\ read' = [read EXCEPT !["remote"] = @ + 1]
          /\ answer \in Seq(Answers) /\ OneAnswer
      BY <2>1 DEF PipeReads, Takes, HandlerTypeOK, AnswerByPlace
    <3>2. read'["remote"] = read["remote"] + 1 /\ read["remote"] \in Nat
      BY <3>1 DEF HandlerTypeOK, Peers
    <3>3. transport["client"] # "lost" => Len(answer') = Len(answer) + 1
      BY <3>1, PieceLength
    <3>4. TunnelAnswer'
      BY <1>1, <3>1, NextPiece
    <3>5. QED
      BY <1>1, <1>3, <3>2, <3>3, <3>4 DEF TunnelIsWhole, Peers
  <2>2. CASE ~(PipeReads(p) /\ p = "remote")
    <3>1. answer' = answer /\ read'["remote"] = read["remote"]
      BY <2>2 DEF PipeStep, PipeDrained, PipeReads, PipeEnds, PipeClosed, CancelsPipe, Takes,
         HandlerTypeOK, Peers, peers
    <3>2. QED
      BY <1>1, <1>3, <3>1 DEF TunnelIsWhole, TunnelAnswer, Peers
  <2>3. QED
    BY <2>1, <2>2
<1>5. Intact' /\ RelayIsEnding' => Exhausted'
  <2>1. Intact' => Intact
    BY <1>2, <1>3 DEF Intact, Peers
  <2>2. CASE PipeReads(p) \/ PipeDrained(p)
    <3>1. RelayIsEnding' => RelayIsEnding
      BY <2>2 DEF PipeReads, PipeDrained, PipeTurns, Takes, RelayIsEnding, HandlerTypeOK, peers
    <3>2. Exhausted => read'["remote"] = read["remote"]
      BY <2>2 DEF PipeReads, PipeDrained, Takes, Readable, Exhausted, HandlerTypeOK, Peers, peers
    <3>3. QED
      BY <1>1, <1>2, <2>1, <3>1, <3>2 DEF TunnelIsWhole, Exhausted
  <2>3. CASE PipeEnds(p) \/ PipeClosed(p) \/ CancelsPipe(p)
    <3>1. read' = read
      BY <2>3 DEF PipeEnds, PipeClosed, CancelsPipe, peers
    <3>2. QED
      BY <1>1, <1>2, <2>1, <2>3, <3>1, PipeEndsWhole DEF Exhausted
  <2>4. QED
    BY <2>2, <2>3 DEF PipeStep
<1>6. QED
  BY <1>2, <1>4, <1>5 DEF TunnelIsWhole, ForwardIsWhole, Relaying, Relayed, Early, Late

LEMMA WholeAmongPeers ==
    ASSUME HandlerInv, ForwardIsWhole, TunnelIsWhole, NEW p \in Peers, PeerStep(p)
    PROVE  ForwardIsWhole' /\ TunnelIsWhole'
<1> USE DEF HandlerInv
<1>1. UNCHANGED <<request, at, read, answer, recorded, pending, pipe>>
  BY DEF PeerStep, Sends, Ends, Vanishes, ReadsTheRest
<1>2. \A q \in Peers :
        /\ transport[q] = "lost" => transport'[q] = "lost"
        /\ transport[q] # "open" => transport'[q] # "open"
        /\ transport'[q] \in {"closing", "closed"} => transport[q] \in {"closing", "closed"}
        /\ ended[q] => ended'[q]
  BY DEF PeerStep, Sends, Ends, Vanishes, ReadsTheRest, HandlerTypeOK
<1>3. ended["remote"] \/ transport["remote"] # "open" => sent'["remote"] = sent["remote"]
  BY DEF PeerStep, Sends, Ends, Vanishes, ReadsTheRest, HandlerTypeOK, Peers
<1>4. ForwardIsWhole'
  BY <1>1, <1>2, <1>3 DEF ForwardIsWhole, OnlyPieces, Peers
<1>5. /\ Relaying' = Relaying /\ Relayed' = Relayed /\ TunnelAnswer' = TunnelAnswer
      /\ Intact' => Intact
      /\ RelayIsEnding' => RelayIsEnding
      /\ Exhausted => Exhausted'
  BY <1>1, <1>2, <1>3
  DEF Relaying, Relayed, TunnelAnswer, Intact, RelayIsEnding, Exhausted, Peers
<1>6. TunnelIsWhole'
  BY <1>1, <1>2, <1>5 DEF TunnelIsWhole, Peers
<1>7. QED
  BY <1>4, <1>6

\* How many pieces the client was sent.
LEMMA PiecesPassed ==
    ASSUME answer \in Seq(Answers)
    PROVE  LET passed == {i \in 1..Len(answer) : answer[i] = "piece"}
           IN  /\ OnlyPieces => Cardinality(passed) = Len(answer)
               /\ TunnelAnswer => Cardinality(passed) = Len(answer) - 1
<1> DEFINE passed == {i \in 1..Len(answer) : answer[i] = "piece"}
<1>1. Len(answer) \in Nat
  OBVIOUS
<1>2. CASE OnlyPieces
  <2>1. passed = 1..Len(answer)
    BY <1>2 DEF OnlyPieces
  <2>2. Cardinality(1..Len(answer)) = Len(answer)
    BY <1>1, FS_Interval
  <2>3. ~TunnelAnswer
    BY <1>1, <1>2 DEF OnlyPieces, TunnelAnswer
  <2>4. QED
    BY <2>1, <2>2, <2>3
<1>3. CASE TunnelAnswer
  <2>1. passed = 2..Len(answer) /\ Len(answer) > 0
    BY <1>1, <1>3 DEF TunnelAnswer
  <2>2. Cardinality(2..Len(answer)) = Len(answer) - 1
    BY <1>1, <2>1, FS_Interval
  <2>3. ~OnlyPieces
    BY <1>1, <1>3 DEF OnlyPieces, TunnelAnswer
  <2>4. QED
    BY <2>1, <2>2, <2>3
<1>4. QED
  BY <1>2, <1>3

\* A response that counts as a success has reached the client whole, and a relay
\* that neither peer broke off has passed on all the remote host sent
\* (tunnel.py:175-193, forwarder.py:101-129).
THEOREM HandlerPassesAllOn == Spec => []ResponseIsWhole
<1>1. Init => ForwardIsWhole /\ TunnelIsWhole
  BY DEF Init, ForwardIsWhole, TunnelIsWhole, Relaying, Relayed, Late, Peers
<1>2. HandlerInv /\ ForwardIsWhole /\ TunnelIsWhole /\ [Next]_vars
        => ForwardIsWhole' /\ TunnelIsWhole'
  <2>1. ForwardIsWhole /\ TunnelIsWhole /\ UNCHANGED vars => ForwardIsWhole' /\ TunnelIsWhole'
    BY DEF vars, peers, ForwardIsWhole, TunnelIsWhole, OnlyPieces, TunnelAnswer, Relaying,
       Relayed, Intact, RelayIsEnding, Exhausted
  <2>2. QED
    BY <2>1, WholeBefore, WholeTunnelBegins, WholeForwarded, WholeAtEnd, WholePipe,
       WholeAmongPeers DEF Next, TunnelStep
<1>3. HandlerInv /\ ForwardIsWhole /\ TunnelIsWhole => ResponseIsWhole
  <2>1. SUFFICES ASSUME HandlerInv, ForwardIsWhole, TunnelIsWhole, at = "done",
                        recorded = <<"success">>, transport["client"] # "lost",
                        transport["remote"] # "lost",
                        request.method = "CONNECT" => ~ended["client"]
                 PROVE  Cardinality({i \in 1..Len(answer) : answer[i] = "piece"})
                          = sent["remote"]
    BY DEF ResponseIsWhole
  <2>2. answer \in Seq(Answers) /\ read["remote"] \in Nat
        /\ request.method \in {"GET", "CONNECT"}
    <3>1. request \in Requests
      BY <2>1 DEF HandlerInv, HandlerTypeOK
    <3>2. request.method \in {"GET", "CONNECT"}
      BY <3>1, Zenon DEF Requests
    <3>3. QED
      BY <2>1, <3>2 DEF HandlerInv, HandlerTypeOK, Peers
  <2>3. CASE request.method = "GET"
    BY <2>1, <2>2, <2>3, PiecesPassed DEF ForwardIsWhole, Late
  <2>4. CASE request.method = "CONNECT"
    <3>1. TunnelAnswer /\ Len(answer) = read["remote"] + 1 /\ read["remote"] = sent["remote"]
      BY <2>1, <2>4 DEF TunnelIsWhole, Relayed, Intact, Exhausted, Late
    <3>2. QED
      BY <2>2, <3>1, PiecesPassed
  <2>5. QED
    BY <2>2, <2>3, <2>4
<1>4. QED
  BY <1>1, <1>2, <1>3, HandlerInductive, PTL DEF Spec

-----------------------------------------------------------------------------
(***************************************************************************)
(* The contract with the server.                                           *)
(***************************************************************************)

\* A body is only read of a request that is forwarded.
BodyIsForwarded == at \in {"body", "chunks"} => request.method = "GET"

ContractInv == HandlerInv /\ BodyIsForwarded

\* What the monitor is told, as the contract counts it.
LEMMA ErrorsCounted ==
    ASSUME recorded \in Seq(Outcomes), NEW outcome \in Outcomes, Record(outcome)
    PROVE  IF outcome = "error" THEN Contract!TellsError ELSE Contract!TellsSuccess
<1> DEFINE Failed == {i \in 1..Len(recorded) : recorded[i] = "error"}
<1>1. /\ Len(recorded) \in Nat /\ Len(recorded') = Len(recorded) + 1
      /\ \A i \in 1..Len(recorded) : recorded'[i] = recorded[i]
      /\ recorded'[Len(recorded) + 1] = outcome
  BY DEF Record
<1>2. IsFiniteSet(Failed) /\ Len(recorded) + 1 \notin Failed
  <2>1. IsFiniteSet(1..Len(recorded)) /\ Failed \subseteq 1..Len(recorded)
    BY <1>1, FS_Interval
  <2>2. Len(recorded) + 1 \notin 1..Len(recorded)
    BY <1>1
  <2>3. QED
    BY <2>1, <2>2, FS_Subset
<1>3. {i \in 1..Len(recorded') : recorded'[i] = "error"}
        = IF outcome = "error" THEN Failed \cup {Len(recorded) + 1} ELSE Failed
  BY <1>1
<1>4. Cardinality(Failed \cup {Len(recorded) + 1}) = Cardinality(Failed) + 1
  BY <1>2, FS_AddElement
<1>5. ErrorsRecorded = Cardinality(Failed)
      /\ ErrorsRecorded' = Cardinality({i \in 1..Len(recorded') : recorded'[i] = "error"})
  BY DEF ErrorsRecorded
<1> HIDE DEF Failed
<1>6. QED
  BY <1>1, <1>3, <1>4, <1>5 DEF Contract!TellsError, Contract!TellsSuccess

LEMMA TellsNothing ==
    ASSUME UNCHANGED recorded
    PROVE  Contract!TellsNothing
BY DEF Contract!TellsNothing, ErrorsRecorded

\* An error of any of the layers.
LEMMA FailsAsContracted ==
    ASSUME HandlerInv, NEW status, Fails(status),
           HandlerPhase \in {"reading", "opening", "established", "forwarding"}
    PROVE  Contract!Fails
<1>1. HandlerPhase' = "failing"
  BY DEF Fails, HandlerPhase
<1>2. Contract!TellsError
  BY ErrorsCounted DEF Fails, Outcomes, HandlerInv, HandlerTypeOK
<1>3. QED
  BY <1>1, <1>2 DEF Contract!Fails, Contract!Goes

\* An answer of the handler's own.
LEMMA RejectsAsContracted ==
    ASSUME NEW status, Rejects(status),
           HandlerPhase \in {"reading", "forwarding", "checking"}
    PROVE  Contract!Answers
<1>1. HandlerPhase' = "closing" /\ Contract!TellsNothing
  BY TellsNothing DEF Rejects, HandlerPhase
<1>2. QED
  BY <1>1 DEF Contract!Answers, Contract!Goes

\* A step that the contract does not see.
LEMMA StuttersAsContracted ==
    ASSUME UNCHANGED <<request, recorded>>, HandlerPhase' = HandlerPhase
    PROVE  UNCHANGED Contract!vars
BY DEF Contract!vars, ErrorsRecorded

LEMMA HeadAsContracted ==
    ASSUME ContractInv, HeadStep
    PROVE  [Contract!Next]_(Contract!vars) /\ BodyIsForwarded'
<1> USE DEF ContractInv
<1>1. \/ at = "health" /\ HandlerPhase = "checking"
      \/ at \in {"head", "denying"} /\ HandlerPhase = "reading"
  BY DEF HeadStep, HeadTimesOut, HeadIsCut, RefusesMalformed, RefusesHealth, HealthCheck,
     DeniesHealth, DenialIsLost,
     BeginsHealth, AnswersHealth, Blocks, RefusesTarget, BeginsConnect, BeginsHttp,
     BeginsChunked, RefusesLength, Accepts, ReadsHead, HandlerPhase
<1>2. CASE HeadTimesOut \/ HeadIsCut \/ DenialIsLost \/ RefusesMalformed \/ RefusesTarget
  <2>1. at \in {"head", "denying"} /\ \E status : Fails(status)
    BY <1>2 DEF HeadTimesOut, HeadIsCut, DenialIsLost, RefusesMalformed, RefusesTarget, ReadsHead
  <2>2. BodyIsForwarded'
    BY <2>1 DEF Fails, BodyIsForwarded
  <2>3. QED
    BY <1>1, <2>1, <2>2, FailsAsContracted DEF Contract!Next
<1>3. CASE DeniesHealth \/ AnswersHealth \/ Blocks \/ RefusesLength
  <2>1. \E status : Rejects(status)
    BY <1>3 DEF DeniesHealth, AnswersHealth, Blocks, RefusesLength
  <2>2. BodyIsForwarded'
    BY <2>1 DEF Rejects, BodyIsForwarded
  <2>3. QED
    BY <1>1, <2>1, <2>2, RejectsAsContracted DEF Contract!Next
<1>4. CASE BeginsHealth \/ BeginsConnect \/ BeginsHttp \/ BeginsChunked
  <2>1. /\ at = "head" /\ UNCHANGED <<request, recorded>>
        /\ \/ at' = "health"
           \/ at' = "opening" /\ request.method = "CONNECT"
           \/ at' \in {"body", "chunks"} /\ request.method = "GET"
    BY <1>4 DEF BeginsHealth, HealthCheck, BeginsConnect, BeginsHttp, BeginsChunked, Accepts,
       ReadsHead, Turns
  <2>2. HandlerPhase = "reading" /\ HandlerPhase' \in {"opening", "forwarding", "checking"}
    BY <2>1 DEF HandlerPhase
  <2>3. Contract!Dispatches
    BY <2>1, <2>2, TellsNothing DEF Contract!Dispatches, Contract!Goes
  <2>4. QED
    BY <2>1, <2>3 DEF Contract!Next, BodyIsForwarded
<1>5. CASE RefusesHealth
  <2>1. /\ HandlerPhase' = HandlerPhase /\ BodyIsForwarded'
        /\ UNCHANGED <<request, recorded>>
    BY <1>5 DEF RefusesHealth, HealthCheck, ReadsHead, Turns, HandlerPhase, BodyIsForwarded
  <2>2. QED
    BY <2>1, StuttersAsContracted
<1>6. QED
  BY <1>2, <1>3, <1>4, <1>5 DEF HeadStep

LEMMA BodyAsContracted ==
    ASSUME ContractInv, BodyStep
    PROVE  [Contract!Next]_(Contract!vars) /\ BodyIsForwarded'
<1> USE DEF ContractInv
<1>1. /\ at \in {"body", "chunks"} /\ request.method = "GET"
      /\ HandlerPhase = "forwarding"
  BY DEF BodyIsForwarded, HandlerPhase, BodyStep, ReadsBody, ReadsChunk, RefusesChunks,
     ReadsLastChunk, NextChunk, BodyIsCut, BeginsForward, BodyComplete
<1>2. \/ \E status : Fails(status)
      \/ Rejects("400")
      \/ \E place \in {"body", "chunks", "opening"} : Turns(place)
  BY DEF BodyStep, ReadsBody, ReadsChunk, RefusesChunks, ReadsLastChunk, BodyIsCut, BeginsForward
<1>3. ASSUME NEW status, Fails(status)
      PROVE  Contract!Next /\ BodyIsForwarded'
  BY <1>1, <1>3, FailsAsContracted DEF Contract!Next, Fails, BodyIsForwarded
<1>4. CASE Rejects("400")
  BY <1>1, <1>4, RejectsAsContracted DEF Contract!Next, Rejects, BodyIsForwarded
<1>5. ASSUME NEW place \in {"body", "chunks", "opening"}, Turns(place)
      PROVE  UNCHANGED Contract!vars /\ BodyIsForwarded'
  <2>1. HandlerPhase' = "forwarding" /\ BodyIsForwarded'
    BY <1>1, <1>5 DEF Turns, HandlerPhase, BodyIsForwarded
  <2>2. QED
    BY <1>1, <1>5, <2>1, StuttersAsContracted DEF Turns
<1>6. QED
  BY <1>2, <1>3, <1>4, <1>5

LEMMA TunnelAsContracted ==
    ASSUME ContractInv, TunnelStep
    PROVE  [Contract!Next]_(Contract!vars) /\ BodyIsForwarded'
<1> USE DEF ContractInv
<1>1. recorded \in Seq(Outcomes)
  BY DEF HandlerInv, HandlerTypeOK
<1>2. CASE TunnelOpens
  <2>1. HandlerPhase = "opening" /\ HandlerPhase' = "established" /\ BodyIsForwarded'
    BY <1>2 DEF TunnelOpens, Opens, HandlerPhase, BodyIsForwarded
  <2>2. Contract!TellsSuccess
    BY <1>1, <1>2, ErrorsCounted DEF TunnelOpens, Outcomes
  <2>3. QED
    BY <2>1, <2>2 DEF Contract!Next, Contract!TunnelOpens, Contract!Goes
<1>3. CASE SendsRequest
  <2>1. HandlerPhase = "forwarding" /\ HandlerPhase' = "forwarding" /\ BodyIsForwarded'
    BY <1>3 DEF SendsRequest, Opens, HandlerPhase, BodyIsForwarded
  <2>2. QED
    BY <1>3, <2>1, StuttersAsContracted DEF SendsRequest, Opens
<1>4. CASE TunnelFails \/ TunnelIsLost \/ ClientLeavesTunnel
  <2>1. /\ at \in {"opening", "established"}
        /\ \E status : Fails(status)
    BY <1>4 DEF TunnelFails, TunnelIsLost, ClientLeavesTunnel
  <2>2. HandlerPhase \in {"opening", "established", "forwarding"} /\ BodyIsForwarded'
    BY <2>1 DEF HandlerPhase, Fails, BodyIsForwarded
  <2>3. QED
    BY <2>1, <2>2, FailsAsContracted DEF Contract!Next
<1>5. CASE RelayStarts
  <2>1. HandlerPhase = "established" /\ HandlerPhase' = "relaying" /\ BodyIsForwarded'
    BY <1>5 DEF RelayStarts, HandlerPhase, BodyIsForwarded
  <2>2. Contract!TellsNothing
    BY <1>5, TellsNothing DEF RelayStarts
  <2>3. QED
    BY <2>1, <2>2 DEF Contract!Next, Contract!Relays, Contract!Goes
<1>6. QED
  BY <1>2, <1>3, <1>4, <1>5 DEF TunnelStep

LEMMA ForwardAsContracted ==
    ASSUME ContractInv, ForwardStep
    PROVE  [Contract!Next]_(Contract!vars) /\ BodyIsForwarded'
<1> USE DEF ContractInv
<1>1. CASE ForwardReturns
  <2>1. HandlerPhase = "forwarding" /\ HandlerPhase' = "closing" /\ BodyIsForwarded'
    BY <1>1 DEF ForwardReturns, HandlerPhase, BodyIsForwarded
  <2>2. pending \in Outcomes /\ recorded \in Seq(Outcomes) /\ Record(pending)
    BY <1>1 DEF ForwardReturns, HandlerInv, HandlerTypeOK, OutcomeByPlace
  <2>3. Contract!TellsError \/ Contract!TellsSuccess
    BY <2>2, ErrorsCounted
  <2>4. QED
    BY <2>1, <2>3 DEF Contract!Next, Contract!Forwarded, Contract!Fails, Contract!Goes
<1>2. CASE RequestSent \/ Streams \/ ResponseEnds \/ ForwardFails \/ SocketIsLost
  <2>1. /\ \/ at \in {"sending", "streaming"}
           \/ at = "opening" /\ request.method = "GET"
        /\ at' \in {"streaming", "closingRemote"}
        /\ UNCHANGED <<request, recorded>>
    BY <1>2 DEF RequestSent, Streams, ResponseEnds, ForwardFails, SocketIsLost, ForwardEnds,
       Turns
  <2>2. HandlerPhase = "forwarding" /\ HandlerPhase' = "forwarding" /\ BodyIsForwarded'
    BY <2>1 DEF HandlerPhase, BodyIsForwarded
  <2>3. QED
    BY <2>1, <2>2, StuttersAsContracted
<1>3. QED
  BY <1>1, <1>2 DEF ForwardStep

LEMMA EndAsContracted ==
    ASSUME ContractInv, EndStep
    PROVE  [Contract!Next]_(Contract!vars) /\ BodyIsForwarded'
<1>1. UNCHANGED <<request, recorded>> /\ BodyIsForwarded'
  BY DEF EndStep, AnswersFailure, RelayOver, ClosesClient, Leaves, Turns, BodyIsForwarded
<1>2. Contract!TellsNothing
  BY <1>1, TellsNothing
<1>3. \/ HandlerPhase = "failing" /\ HandlerPhase' = "closing"
      \/ HandlerPhase = "relaying" /\ HandlerPhase' = "closing"
      \/ HandlerPhase = "closing" /\ HandlerPhase' \in {"closing", "done"}
  BY DEF EndStep, AnswersFailure, RelayOver, ClosesClient, Leaves, Turns, HandlerPhase
<1>4. CASE HandlerPhase' = HandlerPhase
  BY <1>1, <1>4, StuttersAsContracted
<1>5. CASE HandlerPhase' # HandlerPhase
  BY <1>1, <1>2, <1>3, <1>5
  DEF Contract!Next, Contract!Recovers, Contract!RelayOver, Contract!Leaves, Contract!Goes
<1>6. QED
  BY <1>4, <1>5

\* The pipes and the peers go on while the handler stays where it is.
LEMMA PeersAsContracted ==
    ASSUME ContractInv, NEW p \in Peers, PipeStep(p) \/ PipeDrained(p) \/ PeerStep(p)
    PROVE  UNCHANGED Contract!vars /\ BodyIsForwarded'
<1>1. /\ UNCHANGED <<request, recorded>>
      /\ \/ UNCHANGED at
         \/ at = "relaying" /\ at' = "unrelaying"
  BY DEF PipeStep, PipeReads, PipeEnds, PipeClosed, CancelsPipe, PipeDrained, PipeTurns,
     PeerStep, Sends, Ends, Vanishes, ReadsTheRest
<1>2. HandlerPhase' = HandlerPhase /\ BodyIsForwarded'
  BY <1>1 DEF HandlerPhase, BodyIsForwarded, ContractInv
<1>3. QED
  BY <1>1, <1>2, StuttersAsContracted

\* The handler, with its parsing, its bodies, its pipes and its peers, is the
\* handler that the server's model has: its phases come in that order, and each
\* step between two of them tells the monitor what it tells it there
\* (handler.py:74-190, 286-300, 340-398).
THEOREM HandlerIsAsContracted == Spec => HandlerKeepsContract
<1>1. Init => Contract!Init /\ BodyIsForwarded
  <2>1. SUFFICES ASSUME Init PROVE Contract!Init /\ BodyIsForwarded
    OBVIOUS
  <2>2. {i \in 1..Len(recorded) : recorded[i] = "error"} = {}
    BY <2>1 DEF Init
  <2>3. ErrorsRecorded = 0 /\ Len(recorded) = 0
    BY <2>1, <2>2, FS_EmptySet DEF Init, ErrorsRecorded
  <2>4. HandlerPhase = "reading" /\ BodyIsForwarded
    BY <2>1 DEF Init, HandlerPhase, BodyIsForwarded
  <2>5. QED
    BY <2>3, <2>4 DEF Contract!Init
<1>2. ContractInv /\ [Next]_vars => [Contract!Next]_(Contract!vars) /\ BodyIsForwarded'
  <2>1. ContractInv /\ UNCHANGED vars => UNCHANGED Contract!vars /\ BodyIsForwarded'
    BY StuttersAsContracted DEF vars, HandlerPhase, BodyIsForwarded, ContractInv
  <2>2. QED
    BY <2>1, HeadAsContracted, BodyAsContracted, TunnelAsContracted, ForwardAsContracted,
       EndAsContracted, PeersAsContracted DEF Next
<1>3. QED
  BY <1>1, <1>2, HandlerInductive, PTL
  DEF Spec, ContractInv, HandlerKeepsContract, Contract!Spec

=============================================================================
