---------------------------- MODULE RequestHandler ----------------------------
(***************************************************************************)
(* One client connection from its first byte to its last:                  *)
(* handle_connection (proxy_relay/handler.py) with open_tunnel and         *)
(* relay_data (tunnel.py), forward_http_request (forwarder.py),            *)
(* sanitize_headers (sanitizer.py) and send_error (response.py).           *)
(*                                                                         *)
(* RelayServer has this handler as a few phases among other handlers; here *)
(* it is alone with its two peers, the client and the remote host behind   *)
(* the upstream, who send, stop sending, vanish and read at a pace of      *)
(* their own.                                                              *)
(*                                                                         *)
(* Abstractions.  Data comes in pieces; the client's first is the head of  *)
(* the request.  A transport buffers what is written, so a piece written   *)
(* before the peer vanished counts as written.  The rotation an error may  *)
(* bring about is RelayServer's; here recording an error takes a while.    *)
(***************************************************************************)
EXTENDS Integers, Sequences, FiniteSets

CONSTANTS
    ClientPieces,   \* the most pieces the client sends, its head included
    RemotePieces,   \* the most pieces the remote host sends
    MaxBody,        \* _MAX_BODY_SIZE, in pieces
    MaxResponse     \* _MAX_RESPONSE_SIZE, in pieces

ASSUME HandlerConstants ==
    /\ ClientPieces \in Nat /\ RemotePieces \in Nat
    /\ MaxBody \in Nat /\ MaxResponse \in Nat

Peers == {"client", "remote"}

VARIABLES
    request,    \* the request the client makes
    at,         \* where the handler stands
    transport,  \* of each peer, as the handler's end has it
    ended,      \* the peer has closed its sending side
    sent,       \* pieces that have arrived from each peer
    read,       \* pieces the handler has taken
    body,       \* pieces of the request's body, as collected
    forwarded,  \* the request as written to the remote host: its framing and its body
    answer,     \* what was written to the client
    recorded,   \* the outcomes the monitor was told
    pending,    \* the answer or the outcome that waits for a call to return
    pipe        \* relay_data's two tasks, named by the peer they read from

peers == <<transport, ended, sent, read>>
vars == <<request, at, peers, body, forwarded, answer, recorded, pending, pipe>>

Targets == {"site", "blocked", "unparsable", "malformed", "health", "healthFromAfar"}

\* What a Content-Length header may say; -1 is what int() refuses, or less than 0.
Lengths == -1..(MaxBody + 1)

\* The Content-Length headers of a head: none, one, or two that differ.
LengthHeaders ==
    {<<>>} \cup {<<n>> : n \in Lengths} \cup {<<n, n - 1>> : n \in Lengths \ {-1}}

\* A blocked or unparsable target, a malformed head, the health check's path; or a
\* body, of any declared lengths, or chunked, when whatever length is declared as
\* well does not count: any number of chunks, which end or break.
Requests ==
    [method : {"CONNECT", "GET"}, target : Targets, lengths : {<<>>}, chunked : {FALSE},
     chunks : {0}, breaks : {FALSE}]
    \cup
    [method : {"GET"}, target : {"site"}, lengths : LengthHeaders, chunked : {FALSE},
     chunks : {0}, breaks : {FALSE}]
    \cup
    [method : {"GET"}, target : {"site"}, lengths : {<<>>, <<MaxBody + 1>>},
     chunked : {TRUE}, chunks : 0..(MaxBody + 1), breaks : BOOLEAN]

Other(p) == IF p = "client" THEN "remote" ELSE "client"

NothingForwarded == [lengths |-> <<>>, chunked |-> FALSE, body |-> 0]

Init ==
    /\ request \in Requests
    /\ at = "head"
    /\ transport = [p \in Peers |-> IF p = "client" THEN "open" ELSE "none"]
    /\ ended = [p \in Peers |-> FALSE]
    /\ sent = [p \in Peers |-> 0]
    /\ read = [p \in Peers |-> 0]
    /\ body = 0
    /\ forwarded = NothingForwarded
    /\ answer = <<>>
    /\ recorded = <<>>
    /\ pending = "none"
    /\ pipe = [p \in Peers |-> "none"]

-----------------------------------------------------------------------------
(***************************************************************************)
(* The peers.                                                              *)
(***************************************************************************)

Pieces(p) == IF p = "client" THEN ClientPieces ELSE RemotePieces

Sends(p) ==
    /\ transport[p] = "open"
    /\ ~ended[p]
    /\ sent[p] < Pieces(p)
    /\ sent' = [sent EXCEPT ![p] = @ + 1]
    /\ UNCHANGED <<request, at, transport, ended, read, body, forwarded, answer,
                   recorded, pending, pipe>>

Ends(p) ==
    /\ transport[p] = "open"
    /\ ended' = [ended EXCEPT ![p] = TRUE]
    /\ UNCHANGED <<request, at, transport, sent, read, body, forwarded, answer,
                   recorded, pending, pipe>>

Vanishes(p) ==
    /\ transport[p] \in {"open", "closing"}
    /\ transport' = [transport EXCEPT ![p] = "lost"]
    /\ UNCHANGED <<request, at, ended, sent, read, body, forwarded, answer,
                   recorded, pending, pipe>>

\* A closed transport is gone once its peer has read what was written to it.
ReadsTheRest(p) ==
    /\ transport[p] = "closing"
    /\ transport' = [transport EXCEPT ![p] = "closed"]
    /\ UNCHANGED <<request, at, ended, sent, read, body, forwarded, answer,
                   recorded, pending, pipe>>

\* What a read of the peer's stream finds.  A lost connection raises, also when
\* there are pieces left; closing our own transport ends the stream as well.
Readable(p) == transport[p] # "lost" /\ read[p] < sent[p]

\* Faulty variant: the end is seen before the pieces that came ahead of it.
AtEofEarly(p) == transport[p] # "lost" /\ (ended[p] \/ transport[p] = "closed")

AtEof(p) ==
    /\ transport[p] # "lost"
    /\ read[p] = sent[p]
    /\ ended[p] \/ transport[p] = "closed"

Closing(p) ==
    transport' = [transport EXCEPT ![p] = IF @ = "open" THEN "closing" ELSE @]

Gone(p) == transport[p] \in {"closed", "lost", "none"}

-----------------------------------------------------------------------------
(***************************************************************************)
(* Answers and outcomes.                                                   *)
(***************************************************************************)

\* A write to a lost transport is dropped; send_error ignores the failed drain.
Tell(status) ==
    answer' = IF transport["client"] = "lost" THEN answer ELSE Append(answer, status)

Record(outcome) == recorded' = Append(recorded, outcome)

\* handle_connection's error clauses: the outcome is recorded, which may await a
\* rotation, and then the client is answered, or not ("none").
Fails(status) ==
    /\ Record("error")
    /\ at' = "failing"
    /\ pending' = status
    /\ UNCHANGED <<request, forwarded, answer, pipe>>

AnswersFailure ==
    /\ at = "failing"
    /\ IF pending = "none" THEN UNCHANGED answer ELSE Tell(pending)
    /\ at' = "closing"
    /\ pending' = "none"
    /\ UNCHANGED <<request, peers, body, forwarded, recorded, pipe>>

\* An answer of the handler itself, with no outcome.
Rejects(status) ==
    /\ Tell(status)
    /\ at' = "closing"
    /\ UNCHANGED <<request, forwarded, recorded, pending, pipe>>

Turns(place) ==
    /\ at' = place
    /\ UNCHANGED <<request, forwarded, answer, recorded, pending, pipe>>

-----------------------------------------------------------------------------
(***************************************************************************)
(* _read_request and the dispatch on what it read.                         *)
(***************************************************************************)

\* The read that completes the head may bring pieces of what follows it.
ReadsHead ==
    /\ at = "head"
    /\ Readable("client")
    /\ \E extra \in 0..(sent["client"] - 1) :
          /\ read' = [read EXCEPT !["client"] = 1 + extra]
          /\ body' = IF request.method = "GET" /\ ~request.chunked THEN extra ELSE 0
    /\ UNCHANGED <<transport, ended, sent>>

\* The requests that are neither refused outright nor the server's own: on a
\* CONNECT, the health check's path is a target like any other.
Accepts(method) ==
    /\ ReadsHead
    /\ request.method = method
    /\ \/ request.target \in {"site", "unparsable"}
       \/ method = "CONNECT" /\ request.target \in {"health", "healthFromAfar"}

HeadTimesOut ==
    /\ at = "head"
    /\ transport["client"] # "lost" /\ sent["client"] = 0 /\ ~ended["client"]
    /\ Fails("408")
    /\ UNCHANGED <<peers, body>>

\* The client ended or vanished before its head was complete.
HeadIsCut ==
    /\ at = "head"
    /\ \/ AtEof("client") /\ Fails("502")
       \/ transport["client"] = "lost" /\ Fails("none")
    /\ UNCHANGED <<peers, body>>

RefusesMalformed == ReadsHead /\ request.target = "malformed" /\ Fails("502")

HealthCheck(target) == ReadsHead /\ request.method = "GET" /\ request.target = target

RefusesHealth == HealthCheck("healthFromAfar") /\ Turns("denying")

DeniesHealth ==
    /\ at = "denying"
    /\ transport["client"] # "lost"
    /\ Rejects("403")
    /\ UNCHANGED <<peers, body>>

\* The drain of this 403 is not send_error's: a client lost there is an error.
DenialIsLost ==
    /\ at = "denying"
    /\ transport["client"] = "lost"
    /\ Fails("none")
    /\ UNCHANGED <<peers, body>>

BeginsHealth == HealthCheck("health") /\ Turns("health")

AnswersHealth ==
    /\ at = "health"
    /\ Rejects("200") \/ Rejects("503")
    /\ UNCHANGED <<peers, body>>

Blocks == ReadsHead /\ request.target = "blocked" /\ Rejects("403")

\* A target that urlparse rejects fails here, others only when it is opened.
RefusesTarget ==
    /\ ReadsHead
    /\ request.target = "unparsable"
    /\ IF request.method = "CONNECT" THEN Fails("502") ELSE Fails("500")

BeginsConnect == Accepts("CONNECT") /\ request.target # "unparsable" /\ Turns("opening")

\* The first Content-Length header counts, if it is a number at all.
ContentLength == IF request.lengths = <<>> THEN 0 ELSE request.lengths[1]

BeginsHttp == Accepts("GET") /\ ~request.chunked /\ ContentLength <= MaxBody /\ Turns("body")

BeginsChunked == Accepts("GET") /\ request.chunked /\ Turns("chunks")

RefusesLength ==
    /\ Accepts("GET")
    /\ ~request.chunked /\ ContentLength > MaxBody
    /\ Rejects("413")

-----------------------------------------------------------------------------
(***************************************************************************)
(* The body of a request that is forwarded.  No timeout covers it.         *)
(***************************************************************************)

Takes(p) == read' = [read EXCEPT ![p] = @ + 1] /\ UNCHANGED <<transport, ended, sent>>

ReadsBody ==
    /\ at = "body"
    /\ body < ContentLength
    /\ Readable("client")
    /\ Takes("client")
    /\ body' = body + 1
    /\ Turns("body")

\* Faulty variant: one read is enough.
BodyCompleteOnce ==
    /\ at = "body"
    /\ body >= ContentLength \/ AtEof("client") \/ body > 0

\* All of it, or what there was when the client ended.
BodyComplete ==
    /\ at = "body"
    /\ body >= ContentLength \/ AtEof("client")

\* _read_chunked_body, chunk by chunk: those that came with the head are in its
\* buffer already.
NextChunk ==
    /\ at = "chunks"
    /\ \/ body + 1 < read["client"] /\ UNCHANGED peers
       \/ body + 1 = read["client"] /\ Readable("client") /\ Takes("client")

ReadsChunk ==
    /\ NextChunk
    /\ body < request.chunks /\ body < MaxBody
    /\ body' = body + 1
    /\ Turns("chunks")

\* A malformed chunk, a body above the limit, an end before the last chunk.
RefusesChunks ==
    /\ \/ NextChunk /\ body < request.chunks /\ body = MaxBody
       \/ NextChunk /\ body = request.chunks /\ request.breaks
       \/ at = "chunks" /\ AtEof("client") /\ body + 1 = read["client"] /\ UNCHANGED peers
    /\ UNCHANGED body
    /\ Rejects("400")

ReadsLastChunk ==
    /\ NextChunk
    /\ body = request.chunks /\ ~request.breaks
    /\ UNCHANGED body
    /\ Turns("opening")

BodyIsCut ==
    /\ at \in {"body", "chunks"}
    /\ transport["client"] = "lost"
    /\ Fails("none")
    /\ UNCHANGED <<peers, body>>

\* The URL is parsed once the body is there.
BeginsForward ==
    /\ BodyComplete
    /\ \/ request.target = "site" /\ Turns("opening")
       \/ request.target = "unparsable" /\ Fails("502")
    /\ UNCHANGED <<peers, body>>

-----------------------------------------------------------------------------
(***************************************************************************)
(* open_tunnel, for both kinds of request.                                 *)
(***************************************************************************)

Opens ==
    /\ at = "opening"
    /\ transport' = [transport EXCEPT !["remote"] = "open"]
    /\ UNCHANGED <<ended, sent, read, body, answer, pending, pipe, request>>

\* Faulty variant: nothing is recorded of a tunnel that opens.
TunnelOpensUnrecorded ==
    /\ Opens
    /\ request.method = "CONNECT"
    /\ at' = "established"
    /\ UNCHANGED <<forwarded, recorded>>

TunnelOpens ==
    /\ Opens
    /\ request.method = "CONNECT"
    /\ Record("success")
    /\ at' = "established"
    /\ UNCHANGED forwarded

\* sanitize_headers drops Transfer-Encoding, a hop-by-hop header, and lets every
\* Content-Length pass; nothing puts one in for a chunked body.
Sanitized == [lengths |-> request.lengths, chunked |-> FALSE, body |-> body]

\* Faulty variant: the opened tunnel is recorded here as it is for a CONNECT.
SendsRequestRecorded ==
    /\ Opens
    /\ request.method = "GET"
    /\ forwarded' = Sanitized
    /\ at' = "sending"
    /\ Record("success")

SendsRequest ==
    /\ Opens
    /\ request.method = "GET"
    /\ forwarded' = Sanitized
    /\ at' = "sending"
    /\ UNCHANGED recorded

\* Faulty variant: open_tunnel lets the handshake's own OSError through.
TunnelFailsAsOSError ==
    /\ at = "opening"
    /\ Fails("none")
    /\ UNCHANGED <<peers, body>>

\* The SOCKS5 handshake failed or took longer than its timeout.
TunnelFails ==
    /\ at = "opening"
    /\ Fails("502")
    /\ UNCHANGED <<peers, body>>

-----------------------------------------------------------------------------
(***************************************************************************)
(* _handle_connect.                                                        *)
(***************************************************************************)

\* The new socket is lost before asyncio has taken it over: an OSError, which
\* gets the client no answer.
TunnelIsLost ==
    /\ at = "opening"
    /\ request.method = "CONNECT"
    /\ transport' = [transport EXCEPT !["remote"] = "lost"]
    /\ Fails("none")
    /\ UNCHANGED <<ended, sent, read, body>>

RelayStarts ==
    /\ at = "established"
    /\ transport["client"] # "lost"
    /\ Tell("established")
    /\ at' = "relaying"
    /\ pipe' = [p \in Peers |-> "reading"]
    /\ UNCHANGED <<request, peers, body, forwarded, recorded, pending>>

\* The drain of the 200 raises: nobody closes the remote host's writer.
ClientLeavesTunnel ==
    /\ at = "established"
    /\ transport["client"] = "lost"
    /\ Fails("none")
    /\ UNCHANGED <<peers, body>>

-----------------------------------------------------------------------------
(***************************************************************************)
(* relay_data: the pipe from p writes to the other peer.                   *)
(***************************************************************************)

PipeTurns(p, place) ==
    /\ pipe' = [pipe EXCEPT ![p] = place]
    /\ UNCHANGED <<request, at, body, forwarded, recorded, pending>>

PipeReads(p) ==
    /\ pipe[p] = "reading"
    /\ Readable(p)
    /\ Takes(p)
    /\ IF p = "remote" THEN Tell("piece") ELSE UNCHANGED answer
    /\ PipeTurns(p, "draining")

PipeDrained(p) ==
    /\ pipe[p] = "draining"
    /\ transport[Other(p)] # "lost"
    /\ PipeTurns(p, "reading")
    /\ UNCHANGED <<peers, answer>>

\* Faulty variant: a pipe ends at the end of its stream only.
PipeEndsAtEof(p) ==
    /\ pipe[p] = "reading" /\ AtEof(p)
    /\ Closing(Other(p))
    /\ PipeTurns(p, "closing")
    /\ UNCHANGED <<ended, sent, read, answer>>

\* EOF or an error: the pipe closes its writer.
PipeEnds(p) ==
    /\ \/ pipe[p] = "reading" /\ (AtEof(p) \/ transport[p] = "lost")
       \/ pipe[p] = "draining" /\ transport[Other(p)] = "lost"
    /\ Closing(Other(p))
    /\ PipeTurns(p, "closing")
    /\ UNCHANGED <<ended, sent, read, answer>>

PipeClosed(p) ==
    /\ pipe[p] = "closing"
    /\ Gone(Other(p))
    /\ PipeTurns(p, "done")
    /\ UNCHANGED <<peers, answer>>

\* Faulty variant: a cancelled pipe does not get to its "finally".
CancelsPipeAtOnce(p) ==
    /\ at = "relaying"
    /\ pipe[Other(p)] = "done" /\ pipe[p] # "done"
    /\ pipe' = [pipe EXCEPT ![p] = "done"]
    /\ at' = "unrelaying"
    /\ UNCHANGED <<request, peers, body, forwarded, answer, recorded, pending>>

\* One direction is done: the other is cancelled, and awaited.  Cancelled before
\* it has closed its writer it does so still; while it waits for that, not again.
CancelsPipe(p) ==
    /\ at = "relaying"
    /\ pipe[Other(p)] = "done"
    /\ \/ /\ pipe[p] \in {"reading", "draining"}
          /\ Closing(Other(p))
          /\ pipe' = [pipe EXCEPT ![p] = "closing"]
       \/ /\ pipe[p] = "closing"
          /\ pipe' = [pipe EXCEPT ![p] = "done"]
          /\ UNCHANGED transport
    /\ at' = "unrelaying"
    /\ UNCHANGED <<request, ended, sent, read, body, forwarded, answer, recorded, pending>>

RelayOver ==
    /\ at \in {"relaying", "unrelaying"}
    /\ \A p \in Peers : pipe[p] = "done"
    /\ Turns("closing")
    /\ UNCHANGED <<peers, body>>

-----------------------------------------------------------------------------
(***************************************************************************)
(* forward_http_request, with its tunnel open.                             *)
(***************************************************************************)

\* The request is with the remote host; no timeout covers the drain.
RequestSent ==
    /\ at = "sending"
    /\ transport["remote"] # "lost"
    /\ Turns("streaming")
    /\ UNCHANGED <<peers, body>>

\* A piece within the limit is passed on to a client who is still there.
Streams ==
    /\ at = "streaming"
    /\ Readable("remote")
    /\ read["remote"] < MaxResponse
    /\ transport["client"] # "lost"
    /\ Takes("remote")
    /\ Tell("piece")
    /\ UNCHANGED <<request, at, body, forwarded, recorded, pending, pipe>>

\* The "finally" closes the remote writer, and then the outcome is recorded.
ForwardEnds(outcome) ==
    /\ at' = "closingRemote"
    /\ pending' = outcome
    /\ Closing("remote")
    /\ UNCHANGED <<request, ended, sent, read, body, forwarded, recorded, pipe>>

ResponseEnds ==
    /\ at = "streaming"
    /\ AtEof("remote")
    /\ ForwardEnds("success")
    /\ UNCHANGED answer

\* Faulty variant: the forwarder answers and raises.
ForwardFailsAndRaises ==
    /\ at = "streaming"
    /\ transport["remote"] = "lost"
    /\ Tell("502")
    /\ Record("error")
    /\ at' = "failing"
    /\ pending' = "502"
    /\ UNCHANGED <<request, peers, body, forwarded, pipe>>

\* No piece for 60 seconds: 504.  Too many pieces, or a connection that is lost:
\* 502, also when a part of the response has been passed on.
ForwardFails ==
    /\ \/ /\ at = "streaming"
          /\ transport["remote"] # "lost" /\ read["remote"] = sent["remote"]
          /\ ~ended["remote"]
          /\ Tell("504")
       \/ /\ at = "streaming"
          /\ Readable("remote")
          /\ read["remote"] >= MaxResponse \/ transport["client"] = "lost"
          /\ Tell("502")
       \/ /\ at \in {"sending", "streaming"}
          /\ transport["remote"] = "lost"
          /\ Tell("502")
    /\ ForwardEnds("error")

\* As TunnelIsLost, but here the forwarder answers, with nothing to close.
SocketIsLost ==
    /\ at = "opening"
    /\ request.method = "GET"
    /\ Tell("502")
    /\ ForwardEnds("error")

ForwardReturns ==
    /\ at = "closingRemote"
    /\ Gone("remote")
    /\ Record(pending)
    /\ at' = "closing"
    /\ pending' = "none"
    /\ UNCHANGED <<request, peers, body, forwarded, answer, pipe>>

-----------------------------------------------------------------------------
(***************************************************************************)
(* handle_connection's "finally".                                          *)
(***************************************************************************)

ClosesClient ==
    /\ at = "closing"
    /\ Closing("client")
    /\ Turns("leaving")
    /\ UNCHANGED <<ended, sent, read, body>>

Leaves ==
    /\ at = "leaving"
    /\ Gone("client")
    /\ Turns("done")
    /\ UNCHANGED <<peers, body>>

-----------------------------------------------------------------------------
HeadStep ==
    \/ HeadTimesOut \/ HeadIsCut \/ RefusesMalformed \/ RefusesHealth \/ DeniesHealth
    \/ DenialIsLost \/ BeginsHealth \/ AnswersHealth \/ Blocks \/ RefusesTarget \/ BeginsConnect \/ BeginsHttp
    \/ BeginsChunked \/ RefusesLength

BodyStep ==
    \/ ReadsBody \/ ReadsChunk \/ RefusesChunks \/ ReadsLastChunk \/ BodyIsCut
    \/ BeginsForward

TunnelStep ==
    TunnelOpens \/ SendsRequest \/ TunnelFails \/ TunnelIsLost \/ RelayStarts
        \/ ClientLeavesTunnel

PipeStep(p) == PipeReads(p) \/ PipeEnds(p) \/ PipeClosed(p) \/ CancelsPipe(p)

ForwardStep ==
    RequestSent \/ Streams \/ ResponseEnds \/ ForwardFails \/ SocketIsLost \/ ForwardReturns

EndStep == AnswersFailure \/ RelayOver \/ ClosesClient \/ Leaves

PeerStep(p) == Sends(p) \/ Ends(p) \/ Vanishes(p) \/ ReadsTheRest(p)

Next ==
    \/ HeadStep \/ BodyStep \/ TunnelStep \/ ForwardStep \/ EndStep
    \/ \E p \in Peers : PipeStep(p) \/ PipeDrained(p) \/ PeerStep(p)

Spec == Init /\ [][Next]_vars

\* The loop runs what can run; the peers send, read and leave as they like.
Fairness ==
    /\ WF_vars(HeadStep) /\ WF_vars(BodyStep) /\ WF_vars(TunnelStep)
    /\ WF_vars(ForwardStep) /\ WF_vars(EndStep)
    /\ \A p \in Peers : WF_vars(PipeStep(p))

FairSpec == Spec /\ Fairness

-----------------------------------------------------------------------------
(***************************************************************************)
(* Properties.                                                             *)
(***************************************************************************)

Places ==
    {"head", "denying", "health", "body", "chunks", "opening", "established", "relaying",
     "unrelaying", "sending", "streaming", "closingRemote", "failing", "closing",
     "leaving", "done"}

Errors == {"400", "403", "408", "413", "500", "502", "503", "504"}

Answers == Errors \cup {"200", "established", "piece"}

Outcomes == {"success", "error"}

\* The proxy is never the one to chunk a body.
Forwarded == [lengths : LengthHeaders, chunked : {FALSE}, body : Nat]

HandlerTypeOK ==
    /\ request \in Requests
    /\ at \in Places
    /\ transport \in [Peers -> {"none", "open", "closing", "closed", "lost"}]
    /\ ended \in [Peers -> BOOLEAN]
    /\ sent \in [Peers -> Nat] /\ \A p \in Peers : sent[p] <= Pieces(p)
    /\ read \in [Peers -> Nat] /\ \A p \in Peers : read[p] <= sent[p]
    /\ body \in Nat
    /\ forwarded \in Forwarded
    /\ answer \in Seq(Answers)
    /\ recorded \in Seq(Outcomes)
    /\ pending \in Errors \cup Outcomes \cup {"none"}
    /\ pipe \in [Peers -> {"none", "reading", "draining", "closing", "done"}]

\* Handler and forwarder both answer the client, and they never both answer it:
\* an error or a health answer is the last thing written, a 200 for a tunnel the
\* first, and once a tunnel is up no error of the proxy's own gets into it
\* (handler.py:160-182, forwarder.py:116-139).
OneAnswer ==
    \A i \in 1..Len(answer) :
        /\ i < Len(answer) => answer[i] \in {"established", "piece"}
        /\ answer[i] = "established" => i = 1
        /\ answer[i] \in Errors \cup {"200"} => answer[1] # "established"

\* A client who stays is answered on every way a request can end, a tunnel that
\* could not be opened included.  It is not when the remote host closed without a
\* response, which counts as a success, nor when the socket of a new tunnel was lost
\* between SOCKS5 and asyncio (handler.py:160-182, forwarder.py:103-139).
StayingClientIsAnswered ==
    at = "done" /\ answer = <<>> /\ transport["client"] # "lost" =>
        \/ /\ request.method = "GET" /\ recorded = <<"success">>
           /\ ended["remote"] /\ sent["remote"] = 0
        \/ /\ request.method = "CONNECT" /\ recorded = <<"error">>
           /\ transport["remote"] = "lost"

\* What the monitor's window counts is requests: each that got as far as the
\* upstream is recorded once, also when two layers see it fail.  Only a tunnel
\* whose client left before the 200 counts twice (handler.py:160-181, 294-300,
\* 394-398).
RecordedOnce ==
    \/ Len(recorded) <= 1
    \/ recorded = <<"success", "error">> /\ request.method = "CONNECT" /\ answer = <<>>

\* The handler leaves no connection to the remote host open, on any path but that
\* of the client who left before the 200 (handler.py:300, tunnel.py:188-193,
\* forwarder.py:140-146).
TunnelClosedAtEnd ==
    at = "done" => Gone("remote") \/ transport["remote"] = "closing"
                                  \/ recorded = <<"success", "error">>

\* All that a remote host sent has been passed on when its request counts as a
\* success and no peer was lost; for a tunnel, when the client did not end it.  A
\* relay passes on the last piece before it closes (tunnel.py:175-193,
\* forwarder.py:101-129).
ResponseIsWhole ==
    at = "done" /\ recorded = <<"success">>
            /\ transport["client"] # "lost" /\ transport["remote"] # "lost"
            /\ (request.method = "CONNECT" => ~ended["client"])
        => Cardinality({i \in 1..Len(answer) : answer[i] = "piece"}) = sent["remote"]

\* The body that goes to the remote host is whole.  Of a chunked request it is every
\* chunk, up to the one that ends it, and never a part of a body that breaks off, ends
\* or is too long.  Of any other it is all that was taken from the client after the
\* head, and all that the Content-Length in force promises, unless the client ended
\* before (handler.py:346-380, 424-486).  It is not said how the remote host is to
\* know its end: see the README on the framing of a chunked body.
BodyIsWhole ==
    request.method = "GET" /\ transport["remote"] # "none" =>
        IF request.chunked
        THEN forwarded.body = request.chunks /\ ~request.breaks
        ELSE /\ forwarded.body = read["client"] - 1
             /\ forwarded.body >= ContentLength \/ ended["client"]

\* Where the handler stands, in the terms of HandlerContract.
HandlerPhase ==
    CASE at \in {"head", "denying"} -> "reading"
      [] at = "health" -> "checking"
      [] at = "opening" -> IF request.method = "CONNECT" THEN "opening" ELSE "forwarding"
      [] at \in {"body", "chunks", "sending", "streaming", "closingRemote"} -> "forwarding"
      [] at = "unrelaying" -> "relaying"
      [] at = "leaving" -> "closing"
      [] OTHER -> at

ErrorsRecorded == Cardinality({i \in 1..Len(recorded) : recorded[i] = "error"})

Contract == INSTANCE HandlerContract WITH
    phase <- HandlerPhase, outcomes <- Len(recorded), errors <- ErrorsRecorded,
    cancelled <- FALSE

\* Whatever the peers do, and in whichever of its layers a request fails, the
\* handler is to the server what RelayServer takes it for: the order of its phases,
\* and which step between them tells the monitor what (handler.py:74-190, 286-300,
\* 340-398).
HandlerKeepsContract == Contract!Spec

\* A relay ends once one of its peers has ended or vanished, as long as the peers
\* read what is written to them: waiting for a slow reader is the one thing
\* without a timeout (tunnel.py:175-212).
WaitsForReader ==
    \E p \in Peers : pipe[p] = "draining" \/ transport[p] = "closing"

RelayEnds ==
    []<>~WaitsForReader =>
        \A p \in Peers :
            at = "relaying" /\ (ended[p] \/ transport[p] = "lost") ~> at = "done"

=============================================================================
