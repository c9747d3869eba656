------------------------- MODULE TimeoutMiddleware -------------------------
(***************************************************************************)
(* How the HTTP server answers a request (internal/transport/http):        *)
(* observabilityMiddleware and timeoutMiddleware around a handler.         *)
(*                                                                         *)
(* The connection's goroutine ("main") starts the handler in a goroutine   *)
(* of its own and waits for it or for the context, whichever comes first.  *)
(* The handler writes to a writerWrapper, whose mutex is not reentrant;    *)
(* its Header() is the connection's own header map, which nothing locks.   *)
(*                                                                         *)
(* A definition named D_X is D with one plausible slip in it.              *)
(***************************************************************************)
EXTENDS Naturals, Sequences

CONSTANTS
    Request,    \* requests, each on a connection of its own
    Kind        \* the kinds of handlers that serve them

(***************************************************************************)
(* What the handlers do to the ResponseWriter, in order.  "work" is their  *)
(* call of a service, which takes as long as it likes while the context    *)
(* lives.  The handlers that answer with JSON or a redirect all use the    *)
(* writer in the same way; login sets a cookie first.                      *)
(***************************************************************************)
RespondJSON    == <<"header", "writeHeader", "write">>
HandleToken    == <<"route", "work">> \o RespondJSON
HandleLogin    == <<"route", "work", "header">> \o RespondJSON
HandleRegister == <<"route", "work", "writeHeader">>
HandleLogout   == <<"route", "work", "header">>
HandleDelete   == <<"route", "work">>
HandleMetrics  == <<"route", "work", "header", "write">>

Program == [token    |-> HandleToken,
            login    |-> HandleLogin,
            register |-> HandleRegister,
            logout   |-> HandleLogout,
            delete   |-> HandleDelete,
            metrics  |-> HandleMetrics]

ASSUME KindAssumption == Kind \subseteq DOMAIN Program

VARIABLES
    up,         \* the server process runs
    kind,       \* kind[r]: the handler of r
    main,       \* main[r]: where the goroutine of r's connection is
    todo,       \* todo[r]: what r's handler has yet to do; done is closed at <<>>
    inMap,      \* inMap[r]: the handler is inside a write to the header map
    holder,     \* holder[r]: who holds the mutex of the timeout's writerWrapper
    ww,         \* ww[r]: the other fields of that writerWrapper
    headers,    \* headers[r]: whose headers are in the connection's map
    ctxDone,    \* ctxDone[r]: the deadline has passed, or the client has gone
    pattern,    \* pattern[r]: Request.Pattern of the two copies of the request
    answer,     \* answer[r]: what went to the client
    counted     \* counted[r]: the metrics have seen r

vars == <<up, kind, main, todo, inMap, holder, ww, headers, ctxDone, pattern,
          answer, counted>>

serverVars == <<up, kind, pattern, counted>>

\* The states of main in which it is inside the header map: it sets the
\* headers of http.Error, or net/http clones the map to send it.
MapSteps == {"setHeaders", "send"}

NoAnswer == [status |-> "none", body |-> "none", headers |-> {}]

FreshWriter == [status |-> "none", wroteHeader |-> FALSE, buffer |-> "none",
                aborted |-> FALSE]

Init ==
    /\ up = TRUE
    /\ kind \in [Request -> Kind]
    /\ main = [r \in Request |-> "idle"]
    /\ todo = [r \in Request |-> <<>>]
    /\ inMap = [r \in Request |-> FALSE]
    /\ holder = [r \in Request |-> "free"]
    /\ ww = [r \in Request |-> FreshWriter]
    /\ headers = [r \in Request |-> {}]
    /\ ctxDone = [r \in Request |-> FALSE]
    /\ pattern = [r \in Request |-> [observed |-> "none", routed |-> "none"]]
    /\ answer = [r \in Request |-> NoAnswer]
    /\ counted = [r \in Request |-> FALSE]

-----------------------------------------------------------------------------
(***************************************************************************)
(* The handler's goroutine.                                                *)
(***************************************************************************)
NextOp(r, op) == up /\ todo[r] # <<>> /\ Head(todo[r]) = op

Did(r) == todo' = [todo EXCEPT ![r] = Tail(@)]

\* ServeMux finds the route and notes it in the request it was given: the
\* copy timeoutMiddleware made with WithContext.
Route(r) ==
    /\ NextOp(r, "route")
    /\ pattern' = [pattern EXCEPT ![r].routed = "route"]
    /\ Did(r)
    /\ UNCHANGED <<up, kind, main, inMap, holder, ww, headers, ctxDone, answer,
                   counted>>

Work(r) ==
    /\ NextOp(r, "work")
    /\ Did(r)
    /\ UNCHANGED <<serverVars, main, inMap, holder, ww, headers, ctxDone, answer>>

HeaderBegin(r) ==
    /\ NextOp(r, "header")
    /\ ~inMap[r]
    /\ inMap' = [inMap EXCEPT ![r] = TRUE]
    /\ UNCHANGED <<serverVars, main, todo, holder, ww, headers, ctxDone, answer>>

HeaderEnd(r) ==
    /\ up /\ inMap[r]
    /\ inMap' = [inMap EXCEPT ![r] = FALSE]
    /\ headers' = [headers EXCEPT ![r] = @ \cup {"handler"}]
    /\ Did(r)
    /\ UNCHANGED <<serverVars, main, holder, ww, ctxDone, answer>>

WriteHeader_KeepsLock(r) ==
    /\ NextOp(r, "writeHeader")
    /\ holder[r] = "free"
    /\ holder' = [holder EXCEPT ![r] = "handler"]
    /\ ww' = [ww EXCEPT ![r].status = "handler", ![r].wroteHeader = TRUE]
    /\ Did(r)
    /\ UNCHANGED <<serverVars, main, inMap, headers, ctxDone, answer>>

WriteHeader(r) ==
    /\ NextOp(r, "writeHeader")
    /\ holder[r] = "free"
    /\ ww' = IF ww[r].aborted \/ ww[r].wroteHeader
             THEN ww
             ELSE [ww EXCEPT ![r].status = "handler", ![r].wroteHeader = TRUE]
    /\ Did(r)
    /\ UNCHANGED <<serverVars, main, inMap, holder, headers, ctxDone, answer>>

Write(r) ==
    /\ NextOp(r, "write")
    /\ holder[r] = "free"
    /\ ww[r].aborted \/ ww[r].wroteHeader
    /\ ww' = IF ww[r].aborted THEN ww ELSE [ww EXCEPT ![r].buffer = "handler"]
    /\ Did(r)
    /\ UNCHANGED <<serverVars, main, inMap, holder, headers, ctxDone, answer>>

(***************************************************************************)
(* A Write before any WriteHeader calls WriteHeader(200) while it holds    *)
(* the mutex, and WriteHeader begins by locking the same mutex: the        *)
(* handler's goroutine stops here and keeps it.                            *)
(***************************************************************************)
WriteBlocks(r) ==
    /\ NextOp(r, "write")
    /\ holder[r] = "free"
    /\ ~ ww[r].aborted /\ ~ ww[r].wroteHeader
    /\ holder' = [holder EXCEPT ![r] = "handler"]
    /\ UNCHANGED <<serverVars, main, todo, inMap, ww, headers, ctxDone, answer>>

-----------------------------------------------------------------------------
(***************************************************************************)
(* The connection's goroutine, and its context.                            *)
(***************************************************************************)
Arrive(r) ==
    /\ up /\ main[r] = "idle"
    /\ main' = [main EXCEPT ![r] = "select"]
    /\ todo' = [todo EXCEPT ![r] = Program[kind[r]]]
    /\ UNCHANGED <<serverVars, inMap, holder, ww, headers, ctxDone, answer>>

\* The context ends: 2 seconds have passed, or the client has gone.
Expire(r) ==
    /\ up /\ main[r] = "select" /\ ~ctxDone[r]
    /\ ctxDone' = [ctxDone EXCEPT ![r] = TRUE]
    /\ UNCHANGED <<serverVars, main, todo, inMap, holder, ww, headers, answer>>

SelectTimeout(r) ==
    /\ up /\ main[r] = "select" /\ ctxDone[r]
    /\ main' = [main EXCEPT ![r] = "abort"]
    /\ UNCHANGED <<serverVars, todo, inMap, holder, ww, headers, ctxDone, answer>>

Abort(r) ==
    /\ up /\ main[r] = "abort"
    /\ holder[r] = "free"
    /\ ww' = [ww EXCEPT ![r].aborted = TRUE, ![r].buffer = "none"]
    /\ main' = [main EXCEPT ![r] = "setHeaders"]
    /\ UNCHANGED <<serverVars, todo, inMap, holder, headers, ctxDone, answer>>

\* Retry-After, and http.Error with status 503.
SetHeaders(r) ==
    /\ up /\ main[r] = "setHeaders"
    /\ headers' = [headers EXCEPT ![r] = @ \cup {"timeout"}]
    /\ answer' = [answer EXCEPT ![r].status = "503", ![r].body = "timeout"]
    /\ main' = [main EXCEPT ![r] = "send"]
    /\ UNCHANGED <<serverVars, todo, inMap, holder, ww, ctxDone>>

Flushed_NoDefault(r) == [answer[r] EXCEPT !.status = ww[r].status,
                                          !.body = ww[r].buffer]

\* writerWrapper.Flush of the timeout's wrapper into the observability one.
Flushed(r) == [answer[r] EXCEPT !.status = IF ww[r].wroteHeader
                                           THEN ww[r].status ELSE "200",
                                !.body = ww[r].buffer]

SelectDone_NoWait(r) ==
    /\ up /\ main[r] = "select"
    /\ answer' = [answer EXCEPT ![r] = Flushed(r)]
    /\ main' = [main EXCEPT ![r] = "send"]
    /\ UNCHANGED <<serverVars, todo, inMap, holder, ww, headers, ctxDone>>

SelectDone(r) ==
    /\ up /\ main[r] = "select" /\ todo[r] = <<>>
    /\ answer' = [answer EXCEPT ![r] = Flushed(r)]
    /\ main' = [main EXCEPT ![r] = "send"]
    /\ UNCHANGED <<serverVars, todo, inMap, holder, ww, headers, ctxDone>>

\* The observability wrapper's Flush: net/http takes the headers as they are.
Send(r) ==
    /\ up /\ main[r] = "send"
    /\ answer' = [answer EXCEPT ![r].headers = headers[r]]
    /\ main' = [main EXCEPT ![r] = "observe"]
    /\ UNCHANGED <<serverVars, todo, inMap, holder, ww, headers, ctxDone>>

\* observeRequest, if the pattern is known in this copy of the request.  The
\* deferred cancel has ended the context by now.
Observe(r) ==
    /\ up /\ main[r] = "observe"
    /\ counted' = [counted EXCEPT ![r] = pattern[r].observed # "none"]
    /\ ctxDone' = [ctxDone EXCEPT ![r] = TRUE]
    /\ main' = [main EXCEPT ![r] = "answered"]
    /\ UNCHANGED <<up, kind, pattern, todo, inMap, holder, ww, headers, answer>>

\* Two goroutines inside one Go map: the runtime may stop the process.
Fault(r) ==
    /\ up /\ inMap[r] /\ main[r] \in MapSteps
    /\ up' = FALSE
    /\ UNCHANGED <<kind, main, todo, inMap, holder, ww, headers, ctxDone, pattern,
                   answer, counted>>

Handler(r) ==
    \/ Route(r) \/ HeaderBegin(r) \/ HeaderEnd(r)
    \/ WriteHeader(r) \/ Write(r) \/ WriteBlocks(r)

Main(r) ==
    \/ SelectTimeout(r) \/ Abort(r) \/ SetHeaders(r)
    \/ SelectDone(r) \/ Send(r) \/ Observe(r)

Next ==
    \E r \in Request :
        Arrive(r) \/ Main(r) \/ Handler(r) \/ Work(r) \/ Expire(r) \/ Fault(r)

Spec == Init /\ [][Next]_vars

(***************************************************************************)
(* Go runs every goroutine that can run, and the deadline comes.  The call *)
(* of a service is sure to return only once its context has ended.         *)
(***************************************************************************)
Fairness ==
    \A r \in Request :
        /\ WF_vars(Main(r))
        /\ WF_vars(Handler(r))
        /\ WF_vars(Expire(r))
        /\ WF_vars(ctxDone[r] /\ Work(r))

FairSpec == Spec /\ Fairness

-----------------------------------------------------------------------------
(***************************************************************************)
(* Properties.                                                             *)
(***************************************************************************)

\* Every variable has its type, a handler has done a prefix of its program,
\* and net/http is never asked to send an answer without a status.
TypeOK ==
    /\ up \in BOOLEAN
    /\ kind \in [Request -> Kind]
    /\ main \in [Request -> {"idle", "select", "abort", "setHeaders", "send",
                             "observe", "answered"}]
    /\ \A r \in Request : \E n \in 0..Len(Program[kind[r]]) :
          todo[r] = SubSeq(Program[kind[r]], n + 1, Len(Program[kind[r]]))
    /\ inMap \in [Request -> BOOLEAN]
    /\ holder \in [Request -> {"free", "handler"}]
    /\ ww \in [Request -> [status : {"none", "handler"}, wroteHeader : BOOLEAN,
                           buffer : {"none", "handler"}, aborted : BOOLEAN]]
    /\ headers \in [Request -> SUBSET {"handler", "timeout"}]
    /\ ctxDone \in [Request -> BOOLEAN]
    /\ pattern \in [Request -> [observed : {"none", "route"},
                                routed : {"none", "route"}]]
    /\ answer \in [Request -> [status : {"none", "handler", "200", "503"},
                               body : {"none", "handler", "timeout"},
                               headers : SUBSET {"handler", "timeout"}]]
    /\ \A r \in Request : main[r] \in {"send", "observe", "answered"}
                             => answer[r].status # "none"
    /\ counted \in [Request -> BOOLEAN]

Performs(r, op) == \E i \in DOMAIN Program[kind[r]] : Program[kind[r]][i] = op

\* What the client gets when the handler has the last word.
Complete(r) ==
    [status  |-> IF Performs(r, "writeHeader") THEN "handler" ELSE "200",
     body    |-> IF Performs(r, "write") THEN "handler" ELSE "none",
     headers |-> IF Performs(r, "header") THEN {"handler"} ELSE {}]

\* The client gets either the whole of the handler's answer or the timeout's
\* 503, never a mixture of their status and body, however the handler's
\* writes, the deadline and Abort fall; a 503 tells when to retry, and comes
\* only after the context has ended.
WholeAnswer ==
    \A r \in Request : main[r] \in {"observe", "answered"} =>
        \/ answer[r] = Complete(r)
        \/ /\ answer[r].status = "503"
           /\ answer[r].body = "timeout"
           /\ "timeout" \in answer[r].headers
           /\ ctxDone[r]

\* The header map is shared by two goroutines only once a request has run
\* past its deadline: without a timeout no race on it stops the server.
CrashNeedsTimeout ==
    ~up => \E r \in Request : ctxDone[r] /\ inMap[r] /\ main[r] \in MapSteps

\* The handler never writes without a WriteHeader before.
SetsStatus(r) == Performs(r, "writeHeader") \/ ~ Performs(r, "write")

\* Each request is answered, be its handler slow or not, if the handler sets a
\* status before it writes: timeoutMiddleware does not wait for it beyond the
\* deadline, and no lock or stuck handler of another request is in its way.
SettersAnswered ==
    \A r \in Request :
        SetsStatus(r) /\ main[r] = "select" ~> main[r] = "answered" \/ ~up

\* The goroutine of such a handler does not outlive its request for ever,
\* though nobody waits for it any more once the timeout has answered.
SettersReturn ==
    \A r \in Request :
        SetsStatus(r) /\ todo[r] # <<>> ~> todo[r] = <<>> \/ ~up

\* "handleTimeout = 2 * time.Second": each request is answered.
EveryRequestAnswered ==
    \A r \in Request : main[r] = "select" ~> main[r] = "answered" \/ ~up

\* "Total number of HTTP requests": a routed request that was answered has
\* been counted.
AnsweredIsCounted ==
    \A r \in Request :
        main[r] = "answered" /\ pattern[r].routed # "none" => counted[r]

=============================================================================
