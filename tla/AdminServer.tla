----------------------------- MODULE AdminServer -----------------------------
(***************************************************************************)
(* The admin server, from main to exit: cmd/irods-kc-admin-server,         *)
(* internal/app, internal/config, internal/server and internal/httpapi.    *)
(* The main goroutine waits for a signal or for the listener's error; the  *)
(* listener runs in a goroutine of its own and reports through a channel;  *)
(* every connection is served by a goroutine that runs one handler.        *)
(* Stopping lets the handlers finish, for ten seconds.                     *)
(*                                                                         *)
(* net/http's ListenAndServe and Shutdown are external: what server.go     *)
(* relies on.  A connection carries one request.                           *)
(***************************************************************************)
EXTENDS Naturals, Sequences, FiniteSets

CONSTANTS
    Conn,      \* connections
    Address,   \* listen addresses: "blank", "free" and "taken" ones
    Results    \* what a service may return; app.New wires stubs, which only
               \* return "not_implemented"

ASSUME AddressAssumption == Address \subseteq {"blank", "free", "taken"}
ASSUME ResultsAssumption == Results \subseteq {"done", "not_implemented", "error"}

\* The routes, one for each kind: whether the handler decodes a body and calls a
\* service, and the status of success.
Route == [info   |-> [decodes |-> FALSE, success |-> 200], \* health, status, config summary
          plan   |-> [decodes |-> TRUE,  success |-> 200], \* plans, PlanUser, ApplyUser, diagnostics
          change |-> [decodes |-> TRUE,  success |-> 202]] \* requests, decisions, apply, bootstrap,
                                                           \* repair, events
Target == DOMAIN Route \cup {"unrouted"}
Body   == {"none", "json", "bad"}

VARIABLES
    address,   \* what the configuration says
    main,      \* the main goroutine, with its exit status in the end
    listener,  \* the listener's goroutine
    errCh,     \* the channel between them
    stopped,   \* SIGINT or SIGTERM has arrived
    closing,   \* Shutdown was called: the listener is closed
    conn,      \* the goroutine of each connection
    request,   \* what the client asks
    answer     \* the statuses written

vars == <<address, main, listener, errCh, stopped, closing, conn, request, answer>>
process == <<address, main, listener, errCh, stopped, closing>>
requests == <<conn, request, answer>>

Exits   == {"exit 0", "exit 1", "exit 2"}
Active  == {"open", "decode", "call", "return"}
Running == main \notin Exits

TypeOK ==
    /\ address \in Address
    /\ main \in {"configure", "select", "shutdown"} \cup Exits
    /\ listener \in {"off", "listen", "serve", "closed", "failed", "ended"}
    /\ errCh \in Seq({"nil", "error"}) /\ Len(errCh) <= 1
    /\ stopped \in BOOLEAN /\ closing \in BOOLEAN
    /\ conn \in [Conn -> {"waiting", "gone"} \cup Active]
    /\ request \in [Conn -> [target : Target, body : Body]]
    /\ answer \in [Conn -> Seq({200, 202, 400, 404, 405, 500, 501})]

Init ==
    /\ address \in Address
    /\ main = "configure" /\ listener = "off" /\ errCh = << >>
    /\ stopped = FALSE /\ closing = FALSE
    /\ conn = [c \in Conn |-> "waiting"]
    /\ request \in [Conn -> [target : Target, body : Body]]
    /\ answer = [c \in Conn |-> << >>]

(***************************************************************************)
(* The main goroutine.                                                     *)
(***************************************************************************)

\* app.New validates the configuration; then Run starts the listener.
Configure ==
    /\ main = "configure"
    /\ IF address = "blank" THEN main' = "exit 2" /\ UNCHANGED listener
                            ELSE main' = "select" /\ listener' = "listen"
    /\ UNCHANGED <<address, errCh, stopped, closing, requests>>

\* The select takes either branch when both are ready.
SelectStop ==
    /\ main = "select" /\ stopped
    /\ main' = "shutdown" /\ closing' = TRUE
    /\ UNCHANGED <<address, listener, errCh, stopped, requests>>

SelectError ==
    /\ main = "select" /\ errCh # << >>
    /\ main' = IF Head(errCh) = "nil" THEN "exit 0" ELSE "exit 1"
    /\ errCh' = Tail(errCh)
    /\ UNCHANGED <<address, listener, stopped, closing, requests>>

\* Shutdown waits for the connections that are active, or that have not sent
\* their request yet.
DrainedAnyway == TRUE
Drained       == \A c \in Conn : conn[c] \notin Active

ShutdownDone ==
    /\ main = "shutdown" /\ Drained
    /\ main' = "exit 0"
    /\ UNCHANGED <<address, listener, errCh, stopped, closing, requests>>

HasDeadlineNone == FALSE
HasDeadline     == TRUE

\* The context given to Shutdown expires after ten seconds, perhaps just after the
\* last connection has ended.
ShutdownTimesOut ==
    /\ main = "shutdown" /\ HasDeadline
    /\ main' = "exit 1"
    /\ UNCHANGED <<address, listener, errCh, stopped, closing, requests>>

Main == Configure \/ SelectStop \/ SelectError \/ ShutdownDone \/ ShutdownTimesOut

\* signal.NotifyContext is set up after the configuration; until then a signal
\* kills the process, which no handler or listener sees.
Signal ==
    /\ main = "select" /\ ~stopped
    /\ stopped' = TRUE
    /\ UNCHANGED <<address, main, listener, errCh, closing, requests>>

(***************************************************************************)
(* The listener's goroutine.                                               *)
(***************************************************************************)
Listen ==
    /\ Running /\ listener = "listen"
    /\ listener' = IF closing THEN "closed" ELSE IF address = "taken" THEN "failed" ELSE "serve"
    /\ UNCHANGED <<address, main, errCh, stopped, closing, requests>>

\* Serve returns when Shutdown has closed the listener, or when accepting fails.
ServeReturns ==
    /\ Running /\ listener = "serve"
    /\ \/ closing  /\ listener' = "closed"
       \/ ~closing /\ listener' = "failed"
    /\ UNCHANGED <<address, main, errCh, stopped, closing, requests>>

CapacityNone == 0
Capacity     == 1

ReportBoth == IF listener = "closed" THEN Append(errCh, "nil") ELSE errCh \o <<"error", "nil">>
Report     == Append(errCh, IF listener = "closed" THEN "nil" ELSE "error")

\* Sending waits until the channel has room.
SendResult ==
    /\ Running /\ listener \in {"closed", "failed"} /\ Len(errCh) < Capacity
    /\ errCh' = Report
    /\ listener' = "ended"
    /\ UNCHANGED <<address, main, stopped, closing, requests>>

Listener == Listen \/ (closing /\ ServeReturns) \/ SendResult

(***************************************************************************)
(* A connection's goroutine.                                               *)
(***************************************************************************)
Become(c, step, statuses) ==
    /\ conn' = [conn EXCEPT ![c] = step]
    /\ answer' = [answer EXCEPT ![c] = @ \o statuses]
    /\ UNCHANGED <<process, request>>

Accept(c) == /\ Running /\ listener = "serve" /\ ~closing /\ conn[c] = "waiting"
             /\ Become(c, "open", << >>)

\* The header timeout, the client, or Shutdown after five seconds: a connection
\* that has sent no request is closed.
Hangup(c) == Running /\ conn[c] = "open" /\ Become(c, "gone", << >>)

\* The request was read: the mux picks its handler.
Dispatch(c) ==
    /\ Running /\ conn[c] = "open"
    /\ LET target == request[c].target
       IN  IF target = "unrouted" THEN \E status \in {404, 405} : Become(c, "return", <<status>>)
           ELSE IF Route[target].decodes THEN Become(c, "decode", << >>)
           ELSE Become(c, "return", <<Route[target].success>>)

\* decodeRequest has answered a body it cannot decode; no body is fine.
AfterBadBodyGoesOn == "call"
AfterBadBody       == "return"

Decode(c) ==
    /\ Running /\ conn[c] = "decode"
    /\ IF request[c].body = "bad" THEN Become(c, AfterBadBody, <<400>>)
                                  ELSE Become(c, "call", << >>)

StatusOf(c, result) == CASE result = "done"            -> Route[request[c].target].success
                         [] result = "not_implemented" -> 501
                         [] result = "error"           -> 500

CallService(c) ==
    /\ Running /\ conn[c] = "call"
    /\ \E result \in Results : Become(c, "return", <<StatusOf(c, result)>>)

Return(c) == Running /\ conn[c] = "return" /\ Become(c, "gone", << >>)

Serving(c) == Accept(c) \/ Hangup(c) \/ Dispatch(c) \/ Decode(c) \/ CallService(c) \/ Return(c)

Next == Main \/ Signal \/ Listen \/ ServeReturns \/ SendResult \/ \E c \in Conn : Serving(c)

Spec == Init /\ [][Next]_vars

\* A handler may hang, in a service or reading a body that never comes.
FairSpec == Spec /\ WF_vars(Main) /\ WF_vars(Listener)

(***************************************************************************)
(* Properties.                                                             *)
(***************************************************************************)

\* Exit status 0 says that the server was stopped on purpose, and that no request
\* was cut off: whichever came first, the signal, the listener's failure, or
\* requests that were just being accepted.
CleanExit == main = "exit 0" => stopped /\ \A c \in Conn : conn[c] \in {"waiting", "gone"}

\* Once the main goroutine has left its select nobody reads the channel any more:
\* a listener that has still to report, because Shutdown closed it or because it
\* failed just when the signal came, can do so all the same and is not left
\* waiting while Shutdown drains the connections.
ListenerNeverBlocks ==
    main = "shutdown" /\ listener \in {"closed", "failed"} => Len(errCh) < Capacity

\* A handler writes one status, and a finished connection that was dispatched has
\* one.
OneAnswer ==
    \A c \in Conn : /\ Len(answer[c]) <= 1
                    /\ conn[c] = "return" => Len(answer[c]) = 1
                    /\ conn[c] \notin {"return", "gone"} => answer[c] = << >>

\* The process ends after a signal, and after a failure of the listener, even if
\* handlers hang; a failed listener leaves no server that listens to nothing.
ServerEnds == stopped \/ listener = "failed" ~> ~Running
==============================================================================
