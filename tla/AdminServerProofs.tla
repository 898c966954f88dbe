-------------------------- MODULE AdminServerProofs --------------------------
(***************************************************************************)
(* Theorems about AdminServer, for any number of connections and whatever  *)
(* the services return.                                                    *)
(*                                                                         *)
(* StopInv says why the status is trustworthy: only the main goroutine     *)
(* closes the listener, and only after a signal, so that a listener that   *)
(* reports no error means a stop; and AnswerInv ties the statuses written  *)
(* to where a handler is.  ReportsOnce: the listener sends once, so that   *)
(* its channel has room for it, also when nobody reads it any more.        *)
(***************************************************************************)
EXTENDS AdminServer, SequenceTheorems, TLAPS

StopInv ==
    /\ main \in {"configure", "select"} => ~closing
    /\ main = "shutdown" => closing
    /\ closing => stopped
    /\ listener = "closed" => closing
    /\ \A i \in 1..Len(errCh) : errCh[i] = "nil" => closing
    /\ CleanExit

\* Where the main goroutine and the listener's are, as far as StopInv needs it.
PlainType ==
    /\ errCh \in Seq({"nil", "error"})
    /\ conn \in [Conn -> {"waiting", "gone"} \cup Active]
    /\ answer \in [Conn -> Seq({200, 202, 400, 404, 405, 500, 501})]
    /\ request \in [Conn -> [target : Target, body : Body]]
    /\ \A c \in Conn : conn[c] \in {"decode", "call"} => request[c].target \in DOMAIN Route

ServerInv == PlainType /\ StopInv /\ OneAnswer

\* The statuses of the routes.
LEMMA RouteStatus ==
    \A t \in DOMAIN Route : Route[t].success \in {200, 202}
BY DEF Route

LEMMA InitEstablishes == Init => ServerInv
<1>. SUFFICES ASSUME Init PROVE ServerInv
  OBVIOUS
<1>1. PlainType
  BY DEF Init, PlainType
<1>2. StopInv
  BY DEF Init, StopInv, CleanExit
<1>3. OneAnswer
  BY DEF Init, OneAnswer
<1>. QED
  BY <1>1, <1>2, <1>3 DEF ServerInv

(***************************************************************************)
(* The process: the main goroutine, the signal, the listener's goroutine.  *)
(***************************************************************************)
LEMMA HeadAndTail ==
    ASSUME NEW s \in Seq({"nil", "error"}), s # << >>
    PROVE  /\ Tail(s) \in Seq({"nil", "error"})
           /\ Head(s) = s[1] /\ 1 \in 1..Len(s)
           /\ \A i \in 1..Len(Tail(s)) : i + 1 \in 1..Len(s) /\ Tail(s)[i] = s[i + 1]
BY HeadTailProperties, EmptySeq, LenProperties

LEMMA AppendFacts ==
    ASSUME NEW s \in Seq({"nil", "error"}), NEW e \in {"nil", "error"}
    PROVE  /\ Append(s, e) \in Seq({"nil", "error"})
           /\ \A i \in 1..Len(Append(s, e)) : \/ i \in 1..Len(s) /\ Append(s, e)[i] = s[i]
                                             \/ Append(s, e)[i] = e
<1>1. /\ Append(s, e) \in Seq({"nil", "error"}) /\ Len(Append(s, e)) = Len(s) + 1 /\ Len(s) \in Nat
      /\ \A i \in 1..Len(s) : Append(s, e)[i] = s[i]
      /\ Append(s, e)[Len(s) + 1] = e
  BY AppendProperties, LenProperties
<1>. QED
  BY <1>1

LEMMA ProcessKeepsPlain ==
    ASSUME PlainType, OneAnswer, UNCHANGED requests, errCh' \in Seq({"nil", "error"})
    PROVE  PlainType' /\ OneAnswer'
BY DEF PlainType, OneAnswer, requests

LEMMA MainKeepsServerInv ==
    ASSUME ServerInv, Main \/ Signal
    PROVE  ServerInv'
<1>. PlainType /\ OneAnswer /\ StopInv
  BY DEF ServerInv
<1>1. CASE Configure
  <2>1. PlainType' /\ OneAnswer'
    BY <1>1, ProcessKeepsPlain DEF Configure, PlainType
  <2>2. StopInv'
    BY <1>1 DEF Configure, StopInv, CleanExit, requests
  <2>. QED
    BY <2>1, <2>2 DEF ServerInv
<1>2. CASE SelectStop
  <2>1. PlainType' /\ OneAnswer'
    BY <1>2, ProcessKeepsPlain DEF SelectStop, PlainType
  <2>2. StopInv'
    BY <1>2 DEF SelectStop, StopInv, CleanExit, requests
  <2>. QED
    BY <2>1, <2>2 DEF ServerInv
<1>3. CASE SelectError
  <2>1. /\ Tail(errCh) \in Seq({"nil", "error"})
        /\ Head(errCh) = errCh[1] /\ 1 \in 1..Len(errCh)
        /\ \A i \in 1..Len(Tail(errCh)) : i + 1 \in 1..Len(errCh)
                                          /\ Tail(errCh)[i] = errCh[i + 1]
    BY <1>3, HeadAndTail DEF SelectError, PlainType
  <2>2. main' = "exit 1"
    BY <1>3, <2>1 DEF SelectError, StopInv
  <2>3. PlainType' /\ OneAnswer'
    BY <1>3, <2>1, ProcessKeepsPlain DEF SelectError
  <2>4. errCh' = Tail(errCh) /\ UNCHANGED <<listener, stopped, closing>>
    BY <1>3 DEF SelectError
  <2>5. \A i \in 1..Len(errCh') : errCh'[i] = "nil" => closing'
    BY <2>1, <2>4 DEF StopInv
  <2>6. StopInv'
    BY <2>2, <2>4, <2>5 DEF StopInv, CleanExit
  <2>. QED
    BY <2>3, <2>6 DEF ServerInv
<1>4. CASE ShutdownDone
  <2>1. PlainType' /\ OneAnswer'
    BY <1>4, ProcessKeepsPlain DEF ShutdownDone, PlainType
  <2>2. \A c \in Conn : conn[c] \in {"waiting", "gone"}
    BY <1>4 DEF ShutdownDone, Drained, PlainType
  <2>3. StopInv'
    BY <1>4, <2>2 DEF ShutdownDone, StopInv, CleanExit, requests
  <2>. QED
    BY <2>1, <2>3 DEF ServerInv
<1>5. CASE ShutdownTimesOut
  <2>1. PlainType' /\ OneAnswer'
    BY <1>5, ProcessKeepsPlain DEF ShutdownTimesOut, PlainType
  <2>2. StopInv'
    BY <1>5 DEF ShutdownTimesOut, StopInv, CleanExit, requests
  <2>. QED
    BY <2>1, <2>2 DEF ServerInv
<1>6. CASE Signal
  <2>1. PlainType' /\ OneAnswer'
    BY <1>6, ProcessKeepsPlain DEF Signal, PlainType
  <2>2. StopInv'
    BY <1>6 DEF Signal, StopInv, CleanExit, requests
  <2>. QED
    BY <2>1, <2>2 DEF ServerInv
<1>. QED
  BY <1>1, <1>2, <1>3, <1>4, <1>5, <1>6 DEF Main

LEMMA ListenerKeepsServerInv ==
    ASSUME ServerInv, Listen \/ ServeReturns \/ SendResult
    PROVE  ServerInv'
<1>. PlainType /\ OneAnswer /\ StopInv /\ Running
  BY DEF ServerInv, Listen, ServeReturns, SendResult
<1>. main # "exit 0"
  BY DEF Running, Exits
<1>1. CASE Listen
  <2>1. PlainType' /\ OneAnswer'
    BY <1>1, ProcessKeepsPlain DEF Listen, PlainType
  <2>2. StopInv'
    BY <1>1 DEF Listen, StopInv, CleanExit
  <2>. QED
    BY <2>1, <2>2 DEF ServerInv
<1>2. CASE ServeReturns
  <2>1. PlainType' /\ OneAnswer'
    BY <1>2, ProcessKeepsPlain DEF ServeReturns, PlainType
  <2>2. StopInv'
    BY <1>2 DEF ServeReturns, StopInv, CleanExit
  <2>. QED
    BY <2>1, <2>2 DEF ServerInv
<1>3. CASE SendResult
  <2>. DEFINE sent == IF listener = "closed" THEN "nil" ELSE "error"
  <2>1. /\ errCh' = Append(errCh, sent) /\ listener' = "ended"
        /\ UNCHANGED <<main, stopped, closing, requests>>
    BY <1>3 DEF SendResult, Report
  <2>2. errCh \in Seq({"nil", "error"}) /\ sent \in {"nil", "error"}
    BY DEF PlainType
  <2>3. /\ errCh' \in Seq({"nil", "error"})
        /\ \A i \in 1..Len(errCh') : \/ (i \in 1..Len(errCh) /\ errCh'[i] = errCh[i])
                                      \/ errCh'[i] = sent
    <3>1. /\ Append(errCh, sent) \in Seq({"nil", "error"})
          /\ \A i \in 1..Len(Append(errCh, sent)) :
               \/ (i \in 1..Len(errCh) /\ Append(errCh, sent)[i] = errCh[i])
               \/ Append(errCh, sent)[i] = sent
      <4>. HIDE DEF sent
      <4>. QED
        BY <2>2, AppendFacts
    <3>. QED
      BY <2>1, <3>1
  <2>5. \A i \in 1..Len(errCh') : errCh'[i] = "nil" => closing
    BY <2>3 DEF StopInv
  <2>6. StopInv'
    BY <2>1, <2>5 DEF StopInv, CleanExit
  <2>7. PlainType' /\ OneAnswer'
    BY <2>1, <2>3, ProcessKeepsPlain
  <2>. QED
    BY <2>6, <2>7 DEF ServerInv
<1>. QED
  BY <1>1, <1>2, <1>3

(***************************************************************************)
(* The connections.                                                        *)
(***************************************************************************)
Status == {200, 202, 400, 404, 405, 500, 501}

\* A connection moves on, with the statuses w written so far.
LEMMA MoveKeepsServerInv ==
    ASSUME ServerInv, Running, NEW c \in Conn, NEW step \in {"gone"} \cup Active,
           NEW w \in Seq(Status),
           conn' = [conn EXCEPT ![c] = step], answer' = [answer EXCEPT ![c] = w],
           UNCHANGED <<process, request>>,
           step \in {"decode", "call"} => request[c].target \in DOMAIN Route,
           Len(w) <= 1, step = "return" => Len(w) = 1, step \notin {"return", "gone"} => w = << >>
    PROVE  ServerInv'
<1>. PlainType /\ OneAnswer /\ StopInv /\ main # "exit 0"
  BY DEF ServerInv, Running, Exits
<1>1. UNCHANGED <<main, listener, errCh, stopped, closing, request>>
  BY DEF process
<1>2. answer \in [Conn -> Seq(Status)]
  BY DEF PlainType, Status
<1>3. answer' \in [Conn -> Seq(Status)]
  BY <1>2
<1>4. \A d \in Conn : /\ conn'[d] = IF d = c THEN step ELSE conn[d]
                      /\ answer'[d] = IF d = c THEN w ELSE answer[d]
  BY <1>2 DEF PlainType
<1>5. conn' \in [Conn -> {"waiting", "gone"} \cup Active]
  BY DEF PlainType
<1>6. PlainType'
  <2>1. \A d \in Conn : conn'[d] \in {"decode", "call"} => request[d].target \in DOMAIN Route
    BY <1>4 DEF PlainType
  <2>2. errCh' \in Seq({"nil", "error"}) /\ request' \in [Conn -> [target : Target, body : Body]]
    BY <1>1 DEF PlainType
  <2>3. answer' \in [Conn -> Seq({200, 202, 400, 404, 405, 500, 501})]
    BY <1>3 DEF Status
  <2>. QED
    BY <1>1, <1>5, <2>1, <2>2, <2>3 DEF PlainType
<1>7. StopInv'
  BY <1>1 DEF StopInv, CleanExit
<1>8. OneAnswer'
  BY <1>4 DEF OneAnswer
<1>. QED
  BY <1>6, <1>7, <1>8 DEF ServerInv

\* A step that writes nothing, and the step that answers.
LEMMA SilentStep ==
    ASSUME ServerInv, Running, NEW c \in Conn, NEW step \in {"gone", "open", "decode", "call"},
           Become(c, step, << >>),
           step \in {"decode", "call"} => request[c].target \in DOMAIN Route,
           step # "gone" => answer[c] = << >>
    PROVE  ServerInv'
<1>1. answer[c] \in Seq(Status) /\ answer \in [Conn -> Seq(Status)]
  BY DEF ServerInv, PlainType, Status
<1>2. answer[c] \o << >> = answer[c]
  BY <1>1, ConcatEmptySeq
<1>3. answer' = [answer EXCEPT ![c] = answer[c]]
  BY <1>2 DEF Become
<1>4. Len(answer[c]) <= 1
  BY DEF ServerInv, OneAnswer
<1>5. conn' = [conn EXCEPT ![c] = step] /\ UNCHANGED <<process, request>>
  BY DEF Become
<1>6. step \in {"gone"} \cup Active
  BY DEF Active
<1>. QED
  BY <1>1, <1>3, <1>4, <1>5, <1>6, MoveKeepsServerInv

LEMMA AnswerStep ==
    ASSUME ServerInv, Running, NEW c \in Conn, NEW s \in Status,
           Become(c, "return", <<s>>), answer[c] = << >>
    PROVE  ServerInv'
<1>1. <<s>> \in Seq(Status) /\ Len(<<s>>) = 1
  OBVIOUS
<1>2. answer[c] \o <<s>> = <<s>>
  BY <1>1, ConcatEmptySeq
<1>3. answer' = [answer EXCEPT ![c] = <<s>>]
  BY <1>2 DEF Become
<1>4. conn' = [conn EXCEPT ![c] = "return"] /\ UNCHANGED <<process, request>>
  BY DEF Become
<1>5. "return" \in {"gone"} \cup Active
  BY DEF Active
<1>. DEFINE w == <<s>>
<1>. HIDE DEF w
<1>6. w \in Seq(Status) /\ Len(w) = 1 /\ Len(w) <= 1 /\ answer' = [answer EXCEPT ![c] = w]
  BY <1>1, <1>3 DEF w
<1>. QED
  BY <1>4, <1>5, <1>6, MoveKeepsServerInv, Zenon

LEMMA ServingKeepsServerInv ==
    ASSUME ServerInv, NEW c \in Conn, Serving(c)
    PROVE  ServerInv'
<1>. PlainType /\ OneAnswer
  BY DEF ServerInv
<1>1. Running
  BY DEF Serving, Accept, Hangup, Dispatch, Decode, CallService, Return
<1>2. /\ Len(answer[c]) <= 1
      /\ conn[c] \notin {"return", "gone"} => answer[c] = << >>
  BY DEF OneAnswer
<1>3. CASE Hangup(c) \/ Return(c)
  BY <1>1, <1>3, SilentStep DEF Hangup, Return
<1>4. CASE Accept(c)
  BY <1>1, <1>2, <1>4, SilentStep DEF Accept
<1>5. CASE Dispatch(c)
  <2>. DEFINE target == request[c].target
  <2>1. answer[c] = << >> /\ target \in DOMAIN Route \cup {"unrouted"}
    BY <1>2, <1>5 DEF Dispatch, PlainType, Target
  <2>2. CASE \E status \in {404, 405} : Become(c, "return", <<status>>)
    BY <1>1, <2>1, <2>2, AnswerStep DEF Status
  <2>3. CASE target # "unrouted" /\ Become(c, "decode", << >>)
    BY <1>1, <2>1, <2>3, SilentStep
  <2>4. CASE target # "unrouted" /\ Become(c, "return", <<Route[target].success>>)
    <3>1. Route[target].success \in Status
      BY <2>1, <2>4, RouteStatus DEF Status
    <3>. QED
      BY <1>1, <2>1, <2>4, <3>1, AnswerStep
  <2>. QED
    BY <1>5, <2>2, <2>3, <2>4 DEF Dispatch
<1>6. CASE Decode(c)
  <2>1. answer[c] = << >>
    BY <1>2, <1>6 DEF Decode
  <2>2. CASE Become(c, "return", <<400>>)
    BY <1>1, <2>1, <2>2, AnswerStep DEF Status
  <2>3. CASE Become(c, "call", << >>)
    BY <1>1, <1>6, <2>1, <2>3, SilentStep DEF Decode, PlainType
  <2>. QED
    BY <1>6, <2>2, <2>3 DEF Decode, AfterBadBody
<1>7. CASE CallService(c)
  <2>1. PICK result \in Results : Become(c, "return", <<StatusOf(c, result)>>)
    BY <1>7 DEF CallService
  <2>2. answer[c] = << >>
    BY <1>2, <1>7 DEF CallService
  <2>3. StatusOf(c, result) \in Status
    <3>1. request[c].target \in DOMAIN Route
      BY <1>7 DEF CallService, PlainType
    <3>. QED
      BY <3>1, RouteStatus, ResultsAssumption DEF StatusOf, Status
  <2>. QED
    BY <1>1, <2>1, <2>2, <2>3, AnswerStep
<1>. QED
  BY <1>3, <1>4, <1>5, <1>6, <1>7 DEF Serving

THEOREM ServerInvariant == Spec => []ServerInv
<1>1. ServerInv /\ [Next]_vars => ServerInv'
  <2>. SUFFICES ASSUME ServerInv, [Next]_vars
                PROVE  ServerInv'
    OBVIOUS
  <2>1. CASE UNCHANGED vars
    BY <2>1 DEF vars, requests, ServerInv, PlainType, StopInv, CleanExit, OneAnswer
  <2>. QED
    BY <2>1, MainKeepsServerInv, ListenerKeepsServerInv, ServingKeepsServerInv DEF Next
<1>. QED
  BY <1>1, InitEstablishes, PTL DEF Spec

\* Exit status 0 says that the server was stopped on purpose and cut no request off.
THEOREM ExitsCleanly == Spec => []CleanExit
BY ServerInvariant, PTL DEF ServerInv, StopInv

\* A handler answers once.
THEOREM AnswersOnce == Spec => []OneAnswer
BY ServerInvariant, PTL DEF ServerInv

(***************************************************************************)
(* Types.  The listener's goroutine reports once, when it ends: the        *)
(* channel is empty until then.                                            *)
(***************************************************************************)
ReportsOnce ==
    /\ address \in Address
    /\ main \in {"configure", "select", "shutdown"} \cup Exits
    /\ listener \in {"off", "listen", "serve", "closed", "failed", "ended"}
    /\ stopped \in BOOLEAN /\ closing \in BOOLEAN
    /\ main = "configure" => listener = "off"
    /\ Len(errCh) <= 1 /\ (listener # "ended" => errCh = << >>)

LEMMA StepsKeepReportsOnce ==
    ASSUME ReportsOnce, PlainType, [Next]_vars
    PROVE  ReportsOnce'
<1>1. errCh \in Seq({"nil", "error"})
  BY DEF PlainType
<1>2. CASE UNCHANGED process
  BY <1>2 DEF ReportsOnce, process
<1>3. CASE SelectError
  <2>1. errCh # << >> /\ errCh' = Tail(errCh)
    BY <1>3 DEF SelectError
  <2>2. Len(errCh') = Len(errCh) - 1 /\ Len(errCh) \in Nat
    BY <1>1, <2>1, HeadTailProperties, LenProperties
  <2>3. Len(errCh') <= 1 /\ listener = "ended"
    BY <2>1, <2>2 DEF ReportsOnce
  <2>4. main' \in {"exit 0", "exit 1"} /\ UNCHANGED <<address, listener, stopped, closing>>
    BY <1>3 DEF SelectError
  <2>. QED
    BY <2>3, <2>4 DEF ReportsOnce, Exits
<1>4. CASE Configure \/ SelectStop \/ ShutdownDone \/ ShutdownTimesOut \/ Signal
  BY <1>4 DEF ReportsOnce, Configure, SelectStop, ShutdownDone, ShutdownTimesOut, Signal, Exits
<1>5. CASE Listen \/ ServeReturns
  BY <1>5 DEF ReportsOnce, Listen, ServeReturns
<1>6. CASE SendResult
  <2>1. /\ errCh = << >> /\ main # "configure" /\ listener' = "ended"
        /\ UNCHANGED <<address, main, stopped, closing>>
    BY <1>6 DEF SendResult, ReportsOnce
  <2>2. Len(errCh') <= 1
    BY <1>6, <2>1 DEF SendResult, Report
  <2>. QED
    BY <2>1, <2>2 DEF ReportsOnce
<1>7. ASSUME NEW c \in Conn, Serving(c) PROVE UNCHANGED process
  BY <1>7 DEF Serving, Accept, Hangup, Dispatch, Decode, CallService, Return, Become
<1>. QED
  BY <1>2, <1>3, <1>4, <1>5, <1>6, <1>7 DEF Next, Main, vars, process

LEMMA InitReportsOnce == Init => ReportsOnce
<1>1. Len(<< >>) <= 1
  OBVIOUS
<1>. QED
  BY <1>1, Zenon DEF Init, ReportsOnce

\* The goroutines, the channel between them and what the clients are told stay in
\* their types, whatever arrives first.
THEOREM ServerTypesHold == Spec => []TypeOK
<1>1. Init => ReportsOnce
  BY InitReportsOnce
<1>2. ReportsOnce /\ ServerInv /\ [Next]_vars => ReportsOnce'
  BY StepsKeepReportsOnce DEF ServerInv
<1>3. ReportsOnce /\ ServerInv => TypeOK
  BY DEF ReportsOnce, ServerInv, PlainType, TypeOK
<1>. QED
  BY <1>1, <1>2, <1>3, ServerInvariant, PTL DEF Spec

\* A listener that ends while the main goroutine no longer reads the channel can
\* still report: what it sends is the only report there ever is.
THEOREM ListenerIsNotBlocked == Spec => []ListenerNeverBlocks
<1>1. Init => ReportsOnce
  BY InitReportsOnce
<1>2. ReportsOnce /\ ServerInv /\ [Next]_vars => ReportsOnce'
  BY StepsKeepReportsOnce DEF ServerInv
<1>3. ReportsOnce => ListenerNeverBlocks
  <2>1. Len(<< >>) < Capacity
    BY DEF Capacity
  <2>. QED
    BY <2>1 DEF ReportsOnce, ListenerNeverBlocks
<1>. QED
  BY <1>1, <1>2, <1>3, ServerInvariant, PTL DEF Spec
==============================================================================
