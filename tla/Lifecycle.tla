----------------------------- MODULE Lifecycle -----------------------------
(***************************************************************************)
(* The life of the server process (cmd/app): start-up from the             *)
(* environment, the server's runner, signals, and the shutdown.            *)
(*                                                                         *)
(* Goroutines: main; the runner, which is inside server.Start and sends    *)
(* its error to a channel; one per client that waits for the application's *)
(* context to end and then closes the client; one per connection; and the  *)
(* handlers, which timeoutMiddleware abandons when their time is over.     *)
(*                                                                         *)
(* A definition named D_X is D with one plausible slip in it.              *)
(***************************************************************************)
EXTENDS Naturals

CONSTANTS
    Conn,        \* connections, each with one request
    MaxSignals   \* bound on the signals that arrive, for model checking

ASSUME SignalsAssumption == MaxSignals \in Nat

VARIABLES
    env,       \* the environment variables, which do not change
    main,      \* where main is
    runner,    \* where the runner is
    errs,      \* what is in the channel errs, which has room for one
    notified,  \* signal.Notify has been called
    stop,      \* a signal is in the channel stop, which has room for one
    signals,   \* how many signals have arrived
    closing,   \* server.Shutdown has been called
    overran,   \* Shutdown has returned because its 5 seconds were over
    cancelled, \* the application's context has ended
    clients,   \* the store clients that are open
    conn,      \* conn[c]: what has become of the request on c
    abandoned, \* connections whose handler runs on without them
    exit       \* how the process has ended

processVars == <<main, runner, errs, notified, stop, closing, overran, cancelled>>

vars == <<env, processVars, signals, clients, conn, abandoned, exit>>

(***************************************************************************)
(* Integer variables stand for the ones of their group that are set.       *)
(***************************************************************************)
Setting == {"unset", "malformed", "valid"}

Env == [port : Setting, postgresDSN : Setting, postgresInts : Setting,
        redisURL : Setting, redisInts : Setting, jwtKey : {"unset", "valid"}]

Init ==
    /\ env \in Env
    /\ main = "loadConfig"
    /\ runner = "none"
    /\ errs = "empty"
    /\ notified = FALSE
    /\ stop = FALSE
    /\ signals = 0
    /\ closing = FALSE
    /\ overran = FALSE
    /\ cancelled = FALSE
    /\ clients = {}
    /\ conn = [c \in Conn |-> "none"]
    /\ abandoned = {}
    /\ exit = "no"

Up == exit = "no"

-----------------------------------------------------------------------------
(***************************************************************************)
(* Start-up.                                                               *)
(***************************************************************************)

\* lifecycleLogger.Fatal(): os.Exit(1), and no deferred call runs.
Fatal ==
    /\ exit' = "fatal"
    /\ UNCHANGED <<main, clients>>

\* A step of main before there is anything else.
Starting(step, ok, nextStep, opens) ==
    /\ Up /\ main = step
    /\ \/ /\ ok
          /\ main' = nextStep
          /\ clients' = clients \cup opens
          /\ UNCHANGED exit
       \/ /\ ~ok
          /\ Fatal
    /\ UNCHANGED <<env, runner, errs, notified, stop, signals, closing, overran,
                   cancelled, conn, abandoned>>

\* lookupEnvInt: an unset variable counts as 0, which stands for the default.
IntLoads(setting) == setting # "malformed"

ConfigLoads ==
    /\ IntLoads(env.port)
    /\ env.postgresDSN # "unset" /\ IntLoads(env.postgresInts)
    /\ env.redisURL # "unset" /\ IntLoads(env.redisInts)

LoadConfig == Starting("loadConfig", ConfigLoads, "postgres", {})

\* The pool may also refuse the numbers.
OpenPostgres ==
    \E accepted \in BOOLEAN :
        Starting("postgres", env.postgresDSN = "valid" /\ accepted, "redis", {"postgres"})

OpenRedis == Starting("redis", env.redisURL = "valid", "jwtKey", {"redis"})

KeyLoads_Empty == TRUE

\* loadJWTKey; an empty key is a key.
KeyLoads == env.jwtKey # "unset"

LoadJWTKey == Starting("jwtKey", KeyLoads, "start", {})

StartRunner_BeforeKey ==
    /\ Up /\ main = "jwtKey" /\ runner = "none"
    /\ runner' = "binding"
    /\ UNCHANGED <<env, main, errs, notified, stop, signals, closing, overran,
                   cancelled, clients, conn, abandoned, exit>>

StartRunner ==
    /\ Up /\ main = "start"
    /\ main' = "notify"
    /\ runner' = "binding"
    /\ UNCHANGED <<env, errs, notified, stop, signals, closing, overran,
                   cancelled, clients, conn, abandoned, exit>>

Notify ==
    /\ Up /\ main = "notify"
    /\ main' = "select"
    /\ notified' = TRUE
    /\ UNCHANGED <<env, runner, errs, stop, signals, closing, overran, cancelled,
                   clients, conn, abandoned, exit>>

-----------------------------------------------------------------------------
(***************************************************************************)
(* The runner: ListenAndServe returns an error of the listener, or, once   *)
(* Shutdown has been called, ErrServerClosed at once.                      *)
(***************************************************************************)
Bind ==
    /\ Up /\ runner = "binding" /\ ~closing
    /\ runner' \in {"serving", "failed"}
    /\ UNCHANGED <<env, main, errs, notified, stop, signals, closing, overran,
                   cancelled, clients, conn, abandoned, exit>>

ServeReturns ==
    /\ Up /\ runner \in {"binding", "serving"}
    /\ \/ closing /\ runner' = "closed"
       \/ ~closing /\ runner = "serving" /\ runner' = "failed"
    /\ UNCHANGED <<env, main, errs, notified, stop, signals, closing, overran,
                   cancelled, clients, conn, abandoned, exit>>

\* errs <- server.Start()
SendError ==
    /\ Up /\ runner \in {"failed", "closed"} /\ errs = "empty"
    /\ errs' = runner
    /\ runner' = "returned"
    /\ UNCHANGED <<env, main, notified, stop, signals, closing, overran,
                   cancelled, clients, conn, abandoned, exit>>

-----------------------------------------------------------------------------
(***************************************************************************)
(* Signals: before Notify one ends the process; after it, one waits in the *)
(* channel and further ones are dropped.                                   *)
(***************************************************************************)
Signal ==
    /\ Up /\ signals < MaxSignals
    /\ signals' = signals + 1
    /\ IF notified THEN stop' = TRUE /\ UNCHANGED exit
                   ELSE exit' = "killed" /\ UNCHANGED stop
    /\ UNCHANGED <<env, main, runner, errs, notified, closing, overran, cancelled,
                   clients, conn, abandoned>>

\* A panic outside net/http's own recovery, a fault of the runtime, SIGKILL.
Kill ==
    /\ Up
    /\ exit' = "killed"
    /\ UNCHANGED <<env, processVars, signals, clients, conn, abandoned>>

RunnerFailed_ClosedOnly ==
    /\ Up /\ main = "select" /\ errs = "closed"
    /\ Fatal
    /\ UNCHANGED <<env, runner, errs, notified, stop, signals, closing, overran,
                   cancelled, conn, abandoned>>

RunnerFailed ==
    /\ Up /\ main = "select" /\ errs # "empty"
    /\ Fatal
    /\ UNCHANGED <<env, runner, errs, notified, stop, signals, closing, overran,
                   cancelled, conn, abandoned>>

BeginShutdown_CancelsFirst ==
    /\ Up /\ main = "select" /\ stop
    /\ main' = "shutdown"
    /\ stop' = FALSE
    /\ closing' = TRUE
    /\ cancelled' = TRUE
    /\ UNCHANGED <<env, runner, errs, notified, signals, overran, clients, conn,
                   abandoned, exit>>

BeginShutdown ==
    /\ Up /\ main = "select" /\ stop
    /\ main' = "shutdown"
    /\ stop' = FALSE
    /\ closing' = TRUE
    /\ UNCHANGED <<env, runner, errs, notified, signals, overran, cancelled,
                   clients, conn, abandoned, exit>>

\* main returns: the deferred calls cancel the application's context.
Leave(overrun) ==
    /\ main' = "returned"
    /\ overran' = overrun
    /\ cancelled' = TRUE
    /\ UNCHANGED <<env, runner, errs, notified, stop, signals, closing, clients,
                   conn, abandoned, exit>>

AllIdle_ListenerOnly == errs # "empty"

AllIdle == \A c \in Conn : conn[c] # "active"

ShutdownReturns == Up /\ main = "shutdown" /\ AllIdle /\ Leave(FALSE)

Deadline_None == FALSE /\ Leave(TRUE)

\* context.WithTimeout(appContext, 5*time.Second)
Deadline == Up /\ main = "shutdown" /\ Leave(TRUE)

\* The error of Shutdown is only logged: the exit code is 0 either way.
Exit ==
    /\ Up /\ main = "returned"
    /\ exit' = "ok"
    /\ UNCHANGED <<env, processVars, signals, clients, conn, abandoned>>

CloseClient ==
    /\ Up /\ cancelled
    /\ \E k \in clients : clients' = clients \ {k}
    /\ UNCHANGED <<env, processVars, signals, conn, abandoned, exit>>

-----------------------------------------------------------------------------
(***************************************************************************)
(* Connections.  Shutdown waits for those that are busy, not for handlers  *)
(* that no connection waits for.                                           *)
(***************************************************************************)
Accept(c) ==
    /\ Up /\ runner = "serving" /\ ~closing
    /\ conn[c] = "none"
    /\ conn' = [conn EXCEPT ![c] = "active"]
    /\ UNCHANGED <<env, processVars, signals, clients, abandoned, exit>>

Respond(c) ==
    /\ Up /\ conn[c] = "active"
    /\ conn' = [conn EXCEPT ![c] = "answered"]
    /\ abandoned' \in {abandoned, abandoned \cup {c}}      \* 503 is an answer
    /\ UNCHANGED <<env, processVars, signals, clients, exit>>

HandlerReturns(c) ==
    /\ Up /\ c \in abandoned
    /\ abandoned' = abandoned \ {c}
    /\ UNCHANGED <<env, processVars, signals, clients, conn, exit>>

Main ==
    \/ LoadConfig \/ OpenPostgres \/ OpenRedis \/ LoadJWTKey
    \/ StartRunner \/ Notify
    \/ RunnerFailed \/ BeginShutdown \/ ShutdownReturns \/ Exit

Runner == Bind \/ ServeReturns \/ SendError

Next ==
    \/ Main \/ Runner \/ Deadline \/ CloseClient
    \/ Signal \/ Kill
    \/ \E c \in Conn : Accept(c) \/ Respond(c) \/ HandlerReturns(c)

Spec == Init /\ [][Next]_vars

\* The scheduler runs main, the runner is told of the shutdown, the timer
\* fires.  Nothing is assumed of clients and handlers.
Fairness == WF_vars(Main) /\ WF_vars(Runner /\ closing) /\ WF_vars(Deadline)
            /\ WF_vars(SendError)

FairSpec == Spec /\ Fairness

-----------------------------------------------------------------------------
\* Every variable has its type; there is a listener, a signal handler or a
\* shutdown only once main has come that far.
TypeOK ==
    /\ env \in Env
    /\ main \in {"loadConfig", "postgres", "redis", "jwtKey", "start", "notify",
                 "select", "shutdown", "returned"}
    /\ runner \in {"none", "binding", "serving", "failed", "closed", "returned"}
    /\ errs \in {"empty", "failed", "closed"}
    /\ notified \in BOOLEAN /\ stop \in BOOLEAN /\ signals \in 0..MaxSignals
    /\ closing \in BOOLEAN /\ overran \in BOOLEAN /\ cancelled \in BOOLEAN
    /\ clients \subseteq {"postgres", "redis"}
    /\ conn \in [Conn -> {"none", "active", "answered"}]
    /\ abandoned \subseteq Conn
    /\ exit \in {"no", "ok", "fatal", "killed"}
    /\ runner # "none" => main \in {"notify", "select", "shutdown", "returned"}
    /\ notified => main \in {"select", "shutdown", "returned"}
    /\ closing => main \in {"shutdown", "returned"}

\* A shutdown that ends within its 5 seconds cuts off no request: whoever was
\* connected has been answered when the process exits, though the listener and
\* the runner have long gone and more signals may have come.
CleanShutdownAnswersAll ==
    exit = "ok" /\ ~overran => \A c \in Conn : conn[c] # "active"

\* A request that is being answered finds both stores: the clients are closed
\* only behind the last request, or when the 5 seconds are over.
ServedWithStores ==
    (\E c \in Conn : conn[c] = "active") /\ ~overran
        => clients = {"postgres", "redis"}

\* No request is ever accepted by a process that lacks a required variable or
\* could not make sense of one.
ServedAsConfigured ==
    (\E c \in Conn : conn[c] # "none") =>
        /\ env.postgresDSN = "valid" /\ env.redisURL = "valid"
        /\ env.jwtKey = "valid"
        /\ "malformed" \notin {env.port, env.postgresInts, env.redisInts}

\* A signal that main has been told of ends the process, even if a request is
\* stuck, the runner fails at the same time, or the signal is repeated.
SignalEnds == stop ~> ~Up

\* "Wait either for stop or for either runner to return an error": the process
\* does not stay up without a listener.
RunnerFailureEnds == runner = "failed" ~> ~Up

=============================================================================
