-------------------------- MODULE LifecycleProofs --------------------------
(***************************************************************************)
(* Proofs about the life of the server process, for every set of           *)
(* connections and every number of signals.                                *)
(***************************************************************************)
EXTENDS Lifecycle, TLAPS

\* What main has checked and opened by the time it is at a step.
Checked ==
    /\ main # "loadConfig" => ConfigLoads
    /\ main \notin {"loadConfig", "postgres"} => env.postgresDSN = "valid"
    /\ main \notin {"loadConfig", "postgres", "redis"} => env.redisURL = "valid"
    /\ main \notin {"loadConfig", "postgres", "redis", "jwtKey"} => KeyLoads

Opened ==
    ~cancelled =>
        /\ main \in {"loadConfig", "postgres"} => clients = {}
        /\ main = "redis" => clients = {"postgres"}
        /\ main \notin {"loadConfig", "postgres", "redis"}
               => clients = {"postgres", "redis"}

\* Connections come from the runner, and none comes once main has asked the
\* server to shut down.
Served == (\E c \in Conn : conn[c] # "none") => runner # "none"

\* main leaves the shutdown behind the last request, or behind the deadline;
\* only then does it cancel the context.
Closed ==
    /\ main \in {"shutdown", "returned"} => closing
    /\ cancelled => main = "returned"
    /\ main = "returned" /\ ~overran => AllIdle
    /\ exit = "ok" => main = "returned"

IInv == TypeOK /\ Checked /\ Opened /\ Served /\ Closed

-----------------------------------------------------------------------------
LEMMA InitIInv == Init => IInv
    <1> SUFFICES ASSUME Init PROVE IInv
        OBVIOUS
    <1>1. signals \in 0..MaxSignals /\ conn \in [Conn -> {"none", "active", "answered"}]
        BY SignalsAssumption DEF Init
    <1>2. TypeOK
        BY <1>1 DEF Init, TypeOK
    <1>3. Checked /\ Opened
        BY DEF Init, Checked, Opened
    <1>4. Served /\ Closed
        BY DEF Init, Served, Closed
    <1> QED BY <1>2, <1>3, <1>4 DEF IInv

LEMMA StartKeepsTypes ==
    ASSUME TypeOK,
           LoadConfig \/ OpenPostgres \/ OpenRedis \/ LoadJWTKey \/ StartRunner \/ Notify
    PROVE  TypeOK'
    <1>1. ASSUME NEW step, NEW ok, NEW nextStep, NEW opens,
                 Starting(step, ok, nextStep, opens),
                 step \notin {"notify", "select", "shutdown", "returned"},
                 nextStep \in {"postgres", "redis", "jwtKey", "start"},
                 opens \subseteq {"postgres", "redis"}
          PROVE  TypeOK'
        <2>1. runner = "none" /\ ~notified /\ ~closing
            BY <1>1 DEF Starting, TypeOK
        <2>2. main' \in {main, nextStep} /\ clients' \subseteq clients \cup opens
              /\ exit' \in {"no", "fatal"}
            BY <1>1 DEF Starting, Fatal, Up
        <2>3. UNCHANGED <<env, runner, errs, notified, stop, signals, closing, overran,
                          cancelled, conn, abandoned>>
            BY <1>1 DEF Starting
        <2> QED BY <1>1, <2>1, <2>2, <2>3 DEF TypeOK
    <1>2. CASE LoadConfig
        BY <1>1, <1>2 DEF LoadConfig
    <1>3. CASE OpenPostgres
        BY <1>1, <1>3 DEF OpenPostgres
    <1>4. CASE OpenRedis
        BY <1>1, <1>4 DEF OpenRedis
    <1>5. CASE LoadJWTKey
        BY <1>1, <1>5 DEF LoadJWTKey
    <1>6. CASE StartRunner
        BY <1>6 DEF StartRunner, TypeOK
    <1>7. CASE Notify
        BY <1>7 DEF Notify, TypeOK
    <1> QED BY <1>2, <1>3, <1>4, <1>5, <1>6, <1>7

LEMMA RunKeepsTypes ==
    ASSUME TypeOK, Runner \/ Signal \/ Kill
    PROVE  TypeOK'
    <1>1. CASE Bind
        BY <1>1 DEF Bind, TypeOK
    <1>2. CASE ServeReturns
        BY <1>2 DEF ServeReturns, TypeOK
    <1>3. CASE SendError
        BY <1>3 DEF SendError, TypeOK
    <1>4. CASE Signal
        <2>1. signals' \in 0..MaxSignals
            BY <1>4, SignalsAssumption DEF Signal, TypeOK
        <2> QED BY <1>4, <2>1 DEF Signal, TypeOK
    <1>5. CASE Kill
        BY <1>5 DEF Kill, processVars, TypeOK
    <1> QED BY <1>1, <1>2, <1>3, <1>4, <1>5 DEF Runner

LEMMA EndKeepsTypes ==
    ASSUME TypeOK,
           \/ RunnerFailed \/ BeginShutdown \/ ShutdownReturns \/ Deadline
           \/ Exit \/ CloseClient
    PROVE  TypeOK'
    <1>1. CASE RunnerFailed
        BY <1>1 DEF RunnerFailed, Fatal, TypeOK
    <1>2. CASE BeginShutdown
        BY <1>2 DEF BeginShutdown, TypeOK
    <1>3. CASE ShutdownReturns \/ Deadline
        BY <1>3 DEF ShutdownReturns, Deadline, Leave, TypeOK
    <1>4. CASE Exit
        BY <1>4 DEF Exit, processVars, TypeOK
    <1>5. CASE CloseClient
        BY <1>5 DEF CloseClient, processVars, TypeOK
    <1> QED BY <1>1, <1>2, <1>3, <1>4, <1>5

LEMMA ConnectionKeepsTypes ==
    ASSUME TypeOK, NEW c \in Conn, Accept(c) \/ Respond(c) \/ HandlerReturns(c)
    PROVE  TypeOK'
    <1>1. CASE Accept(c)
        BY <1>1 DEF Accept, processVars, TypeOK
    <1>2. CASE Respond(c)
        BY <1>2 DEF Respond, processVars, TypeOK
    <1>3. CASE HandlerReturns(c)
        BY <1>3 DEF HandlerReturns, processVars, TypeOK
    <1> QED BY <1>1, <1>2, <1>3

-----------------------------------------------------------------------------
\* The checks are about the environment, which does not change.
LEMMA ChecksStay ==
    ASSUME UNCHANGED env
    PROVE  ConfigLoads' = ConfigLoads /\ KeyLoads' = KeyLoads
    BY DEF ConfigLoads, IntLoads, KeyLoads

\* A step of the start-up ends the process, or has checked and opened what
\* main needs at its next step.
LEMMA StartKeeps ==
    ASSUME IInv, TypeOK',
           UNCHANGED <<env, runner, closing, overran, cancelled, conn>>,
           exit' # "ok",
           \/ UNCHANGED <<main, clients>>
           \/ /\ main = "loadConfig" /\ main' = "postgres" /\ ConfigLoads
              /\ UNCHANGED clients
           \/ /\ main = "postgres" /\ main' = "redis" /\ env.postgresDSN = "valid"
              /\ clients' = {"postgres"}
           \/ /\ main = "redis" /\ main' = "jwtKey" /\ env.redisURL = "valid"
              /\ clients' = clients \cup {"redis"}
           \/ /\ main = "jwtKey" /\ main' = "start" /\ KeyLoads
              /\ UNCHANGED clients
    PROVE  IInv'
    <1> USE DEF IInv
    <1>0. ConfigLoads' = ConfigLoads /\ KeyLoads' = KeyLoads
        BY ChecksStay
    <1>1. Checked'
        <2>1. CASE UNCHANGED main
            BY <1>0, <2>1 DEF Checked
        <2>2. CASE main' = "postgres" \/ main' = "redis"
            BY <1>0, <2>2 DEF Checked
        <2>3. CASE main = "redis" /\ main' = "jwtKey"
            BY <1>0, <2>3 DEF Checked
        <2>4. CASE main = "jwtKey" /\ main' = "start"
            BY <1>0, <2>4 DEF Checked, KeyLoads
        <2> QED BY <2>1, <2>2, <2>3, <2>4
    <1>2. Opened'
        BY DEF Opened
    <1>3. Served'
        BY DEF Served
    <1>4. Closed'
        BY DEF Closed, AllIdle
    <1> QED BY <1>1, <1>2, <1>3, <1>4

\* Steps that leave the start-up and the requests alone.
LEMMA QuietKeeps ==
    ASSUME IInv, TypeOK',
           UNCHANGED <<env, main, closing, overran, cancelled, clients, conn>>,
           runner' # runner => runner' # "none",
           exit' = exit \/ exit' \in {"fatal", "killed"}
    PROVE  IInv'
    <1> USE DEF IInv
    <1>1. Checked'
        BY ChecksStay DEF Checked
    <1>2. Opened' /\ Served'
        BY DEF Opened, Served
    <1>3. Closed'
        BY DEF Closed, AllIdle
    <1> QED BY <1>1, <1>2, <1>3

\* main leaves the shutdown.
LEMMA LeaveKeeps ==
    ASSUME IInv, TypeOK', main = "shutdown", Up, NEW overrun \in BOOLEAN,
           Leave(overrun), overrun \/ AllIdle
    PROVE  IInv'
    <1> USE DEF IInv
    <1>1. Checked'
        BY ChecksStay DEF Leave, Checked
    <1>2. Opened' /\ Served'
        BY DEF Leave, Opened, Served
    <1>3. Closed'
        BY DEF Leave, Closed, AllIdle
    <1> QED BY <1>1, <1>2, <1>3

LEMMA NextIInv == IInv /\ [Next]_vars => IInv'
    <1> SUFFICES ASSUME IInv, [Next]_vars PROVE IInv'
        OBVIOUS
    <1>0. TypeOK /\ Checked /\ Opened /\ Served /\ Closed
        BY DEF IInv
    <1>1. CASE LoadConfig
        BY <1>0, <1>1, StartKeeps, StartKeepsTypes
           DEF LoadConfig, Starting, Fatal, Up
    <1>2. CASE OpenPostgres
        <2>1. main = "postgres" /\ clients = {} /\ TypeOK'
            BY <1>0, <1>2, StartKeepsTypes DEF OpenPostgres, Starting, Opened, Closed, TypeOK
        <2> QED BY <1>2, <2>1, StartKeeps DEF OpenPostgres, Starting, Fatal, Up
    <1>3. CASE OpenRedis
        BY <1>0, <1>3, StartKeeps, StartKeepsTypes DEF OpenRedis, Starting, Fatal, Up
    <1>4. CASE LoadJWTKey
        BY <1>0, <1>4, StartKeeps, StartKeepsTypes
           DEF LoadJWTKey, Starting, Fatal, Up
    <1>5. CASE StartRunner \/ Notify
        <2>1. TypeOK'
            BY <1>0, <1>5, StartKeepsTypes
        <2>2. Checked'
            BY <1>0, <1>5, ChecksStay DEF StartRunner, Notify, Checked
        <2>3. Opened' /\ Served'
            BY <1>0, <1>5 DEF StartRunner, Notify, Opened, Served
        <2>4. Closed'
            BY <1>0, <1>5 DEF StartRunner, Notify, Closed, AllIdle
        <2> QED BY <2>1, <2>2, <2>3, <2>4 DEF IInv
    <1>6. CASE Runner
        BY <1>0, <1>6, QuietKeeps, RunKeepsTypes
           DEF Runner, Bind, ServeReturns, SendError
    <1>7. CASE RunnerFailed
        BY <1>0, <1>7, QuietKeeps, EndKeepsTypes DEF RunnerFailed, Fatal
    <1>8. CASE Signal \/ Kill
        BY <1>0, <1>8, QuietKeeps, RunKeepsTypes DEF Signal, Kill, processVars
    <1>9. CASE BeginShutdown
        <2>1. TypeOK'
            BY <1>0, <1>9, EndKeepsTypes
        <2>2. Checked'
            BY <1>0, <1>9, ChecksStay DEF BeginShutdown, Checked
        <2>3. Opened' /\ Served'
            BY <1>0, <1>9 DEF BeginShutdown, Opened, Served
        <2>4. Closed'
            BY <1>0, <1>9 DEF BeginShutdown, Up, Closed, AllIdle
        <2> QED BY <2>1, <2>2, <2>3, <2>4 DEF IInv
    <1>10. CASE ShutdownReturns \/ Deadline
        BY <1>0, <1>10, LeaveKeeps, EndKeepsTypes DEF ShutdownReturns, Deadline
    <1>11. CASE Exit
        <2>1. TypeOK'
            BY <1>0, <1>11, EndKeepsTypes
        <2>2. Checked'
            BY <1>0, <1>11, ChecksStay DEF Exit, processVars, Checked
        <2>3. Opened' /\ Served'
            BY <1>0, <1>11 DEF Exit, processVars, Opened, Served
        <2>4. Closed'
            BY <1>0, <1>11 DEF Exit, processVars, Closed, AllIdle
        <2> QED BY <2>1, <2>2, <2>3, <2>4 DEF IInv
    <1>12. CASE CloseClient
        <2>1. TypeOK'
            BY <1>0, <1>12, EndKeepsTypes
        <2>2. Checked'
            BY <1>0, <1>12, ChecksStay DEF CloseClient, processVars, Checked
        <2>3. Opened' /\ Served'
            BY <1>0, <1>12 DEF CloseClient, processVars, Opened, Served
        <2>4. Closed'
            BY <1>0, <1>12 DEF CloseClient, processVars, Closed, AllIdle
        <2> QED BY <2>1, <2>2, <2>3, <2>4 DEF IInv
    <1>13. ASSUME NEW c \in Conn, Accept(c) \/ Respond(c) \/ HandlerReturns(c)
           PROVE  IInv'
        <2>1. TypeOK'
            BY <1>0, <1>13, ConnectionKeepsTypes
        <2>2. UNCHANGED <<env, processVars, clients, exit>>
            BY <1>13 DEF Accept, Respond, HandlerReturns
        <2>3. Checked' /\ Opened'
            BY <1>0, <2>2, ChecksStay DEF processVars, Checked, Opened
        <2>4. Served'
            BY <1>0, <1>13 DEF Accept, Respond, HandlerReturns, processVars, TypeOK, Served
        <2>5. ASSUME NEW d \in Conn, conn'[d] = "active" PROVE conn[d] = "active" \/ ~closing
            BY <1>0, <1>13, <2>5 DEF Accept, Respond, HandlerReturns, TypeOK
        <2>6. Closed'
            BY <1>0, <2>2, <2>5 DEF processVars, Closed, AllIdle
        <2> QED BY <2>1, <2>3, <2>4, <2>6 DEF IInv
    <1>14. CASE UNCHANGED vars
        <2>1. TypeOK'
            BY <1>0, <1>14 DEF vars, processVars, TypeOK
        <2> QED BY <1>14, <2>1, QuietKeeps DEF vars, processVars
    <1> QED BY <1>1, <1>2, <1>3, <1>4, <1>5, <1>6, <1>7, <1>8, <1>9, <1>10, <1>11,
               <1>12, <1>13, <1>14 DEF Next, Main

LEMMA IInvHolds == Spec => []IInv
    BY InitIInv, NextIInv, PTL DEF Spec

-----------------------------------------------------------------------------
\* Every variable keeps its type, and the runner, the signal handler and the
\* shutdown never run ahead of main.
THEOREM TypeCorrect == Spec => []TypeOK
    <1>1. IInv => TypeOK
        BY DEF IInv
    <1> QED BY <1>1, IInvHolds, PTL

\* A shutdown that was not cut short by its 5 seconds has answered everybody
\* who was connected, however many connections and signals there were.
THEOREM CleanShutdown == Spec => []CleanShutdownAnswersAll
    <1>1. IInv => CleanShutdownAnswersAll
        BY DEF IInv, Closed, CleanShutdownAnswersAll, AllIdle
    <1> QED BY <1>1, IInvHolds, PTL

\* The stores are open under every request that is being answered, unless the
\* shutdown has run out of time.
THEOREM StoresUnderRequests == Spec => []ServedWithStores
    <1>1. IInv => ServedWithStores
        <2> SUFFICES ASSUME IInv, NEW c \in Conn, conn[c] = "active", ~overran
                     PROVE  clients = {"postgres", "redis"}
            BY DEF ServedWithStores
        <2>1. runner # "none"
            BY DEF IInv, Served
        <2>2. main \in {"notify", "select", "shutdown", "returned"}
            BY <2>1 DEF IInv, TypeOK
        <2>3. ~cancelled
            BY DEF IInv, Closed, AllIdle
        <2> QED BY <2>2, <2>3 DEF IInv, Opened
    <1> QED BY <1>1, IInvHolds, PTL

\* No environment with a missing or a malformed required variable ever serves
\* a request: each is looked at before the runner starts.
THEOREM Configured == Spec => []ServedAsConfigured
    <1>1. IInv => ServedAsConfigured
        <2> SUFFICES ASSUME IInv, NEW c \in Conn, conn[c] # "none"
                     PROVE  /\ env.postgresDSN = "valid" /\ env.redisURL = "valid"
                            /\ env.jwtKey = "valid"
                            /\ "malformed" \notin {env.port, env.postgresInts, env.redisInts}
            BY DEF ServedAsConfigured
        <2>1. runner # "none"
            BY DEF IInv, Served
        <2>2. main \in {"notify", "select", "shutdown", "returned"}
            BY <2>1 DEF IInv, TypeOK
        <2>3. env.jwtKey \in {"unset", "valid"}
            BY DEF IInv, TypeOK, Env
        <2> QED BY <2>2, <2>3 DEF IInv, Checked, ConfigLoads, IntLoads, KeyLoads
    <1> QED BY <1>1, IInvHolds, PTL

=============================================================================
