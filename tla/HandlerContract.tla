--------------------------- MODULE HandlerContract ---------------------------
(***************************************************************************)
(* What a connection's handler (handle_connection, proxy_relay/handler.py) *)
(* is to the server it runs in: the order of its phases, and the outcome,  *)
(* if any, that it tells the connection monitor on its way from one to the *)
(* next.  RequestHandler, which has the handler line by line, and          *)
(* RelayServer, which has many of them in a few phases each, both          *)
(* implement this specification: what the server's model takes for granted *)
(* of a handler is what the handler's model does.                          *)
(*                                                                         *)
(* The monitor is shared: handlers of other connections tell it outcomes   *)
(* of their own.                                                           *)
(***************************************************************************)
EXTENDS Naturals

VARIABLES
    phase,      \* where the handler is
    outcomes,   \* how many outcomes the monitor has been told
    errors,     \* how many of these were errors
    cancelled   \* the server no longer runs its handlers, but for their clean-up

vars == <<phase, outcomes, errors, cancelled>>

Init ==
    /\ phase = "reading"
    /\ outcomes \in Nat
    /\ errors \in Nat
    /\ ~cancelled

TellsNothing == UNCHANGED <<outcomes, errors>>

TellsSuccess == outcomes' = outcomes + 1 /\ UNCHANGED errors

TellsError == outcomes' = outcomes + 1 /\ errors' = errors + 1

Goes(from, to) ==
    /\ ~cancelled
    /\ phase \in from /\ phase' \in to
    /\ UNCHANGED cancelled

\* The request was read: it is a CONNECT, one to forward, or the health check.
Dispatches == Goes({"reading"}, {"opening", "forwarding", "checking"}) /\ TellsNothing

\* An answer of the proxy's own: a request that is refused, a health check.
Answers == Goes({"reading", "forwarding", "checking"}, {"closing"}) /\ TellsNothing

\* A tunnel is a success once it is open, before the client hears of it.
TunnelOpens == Goes({"opening"}, {"established"}) /\ TellsSuccess

Relays == Goes({"established"}, {"relaying"}) /\ TellsNothing

RelayOver == Goes({"relaying"}, {"closing"}) /\ TellsNothing

\* A forwarded request is a success at its end.
Forwarded == Goes({"forwarding"}, {"closing"}) /\ TellsSuccess

\* An error; the handler may have to await a rotation before it goes on.
Fails ==
    Goes({"reading", "opening", "established", "forwarding"}, {"failing", "closing"})
        /\ TellsError

Recovers == Goes({"failing"}, {"closing"}) /\ TellsNothing

\* The client's connection is closed, also by a handler that was cancelled.
Leaves ==
    /\ phase = "closing" /\ phase' = "done"
    /\ TellsNothing
    /\ UNCHANGED cancelled

\* The server ends: what runs is sent to its clean-up, or nothing runs any more.
Cancelled ==
    /\ ~cancelled /\ cancelled'
    /\ \/ UNCHANGED phase
       \/ phase # "done" /\ phase' = "closing"
    /\ TellsNothing

\* Another handler tells the monitor.
OthersTell == (TellsSuccess \/ TellsError) /\ UNCHANGED <<phase, cancelled>>

Next ==
    \/ Dispatches \/ Answers \/ TunnelOpens \/ Relays \/ RelayOver \/ Forwarded
    \/ Fails \/ Recovers \/ Leaves \/ Cancelled \/ OthersTell

Spec == Init /\ [][Next]_vars

=============================================================================
