------------------------------ MODULE HttpApi ------------------------------
(***************************************************************************)
(* The HTTP API of the shortener, from the client's request to the         *)
(* client's answer: the middlewares of NewServer (internal/transport/http) *)
(* and the handlers, composed with what the shortener service promises     *)
(* (TokenRegistry) and what it makes of URLs (UrlNormalize).               *)
(*                                                                         *)
(* A request is served by two goroutines, the connection's and the         *)
(* handler's, which share nothing but the writer (see TimeoutMiddleware).  *)
(* A client that was told to retry sends another request.                  *)
(*                                                                         *)
(* A definition named D_X is D with one plausible slip in it.              *)
(***************************************************************************)
EXTENDS TokenRegistry, UrlNormalize

CONSTANTS
    Health,  \* the token "health"
    SentURL  \* the URLs that clients of this model send, some of RawURL

ASSUME SentAssumption == SentURL \subseteq RawURL

ASSUME TimesAssumption == MaxTime \in Nat /\ Lifetime \subseteq Nat

\* The register of tokens takes what normalizeHTTP has made of them.
ASSUME UrlAssumption == \A raw \in SentURL : Accepts(raw) => NormalizeHTTP(raw) \in Url

VARIABLES
    req,      \* req[p]: the request p serves, as the client sent it
    conn,     \* conn[p]: where the connection's goroutine is
    handler,  \* handler[p]: where the handler's goroutine is
    seen,     \* seen[p]: the context of observabilityMiddleware
    ctx,      \* ctx[p]: the context of the handler
    ww,       \* ww[p]: the answer in the timeout's writerWrapper
    answer,   \* answer[p]: the answer the client has got
    arrival,  \* arrival[p]: the time, and the rows of its token, at its arrival
    effect    \* effect[p]: p has changed the rows

serviceVars == <<registryVars, kept>>

requestVars == <<req, arrival>>

pipelineVars == <<conn, handler, seen, ctx, ww, answer>>

vars == <<serviceVars, requestVars, pipelineVars, effect>>

Endpoint == {"health", "generate", "resolve", "create", "delete"}

RequiresAuth == {"create", "delete"}

\* What stands in a request: a body that cannot be read counts as one with an
\* unusable URL, a missing or invalid access token as one that is refused; a
\* path that ends where the token should be has no route.
Req ==
    LET Shape(endpoint, tokens, urls, users) ==
            [endpoint : {endpoint}, token : tokens, url : urls, bearer : users]
    IN  Shape("health", {Null}, {Null}, {Null})
            \cup Shape("generate", {Null}, SentURL, {Null})
            \cup Shape("resolve", Token, {Null}, {Null})
            \cup Shape("create", Token \cup {Null}, SentURL, User)
            \cup Shape("delete", Token, {Null}, User)

NoReq == [endpoint |-> "none", token |-> Null, url |-> Null, bearer |-> Null]

\* An answer: its status, and the token or URL it names.
Reply(status, what) == [status |-> status, what |-> what]

NoReply == Reply("none", Null)

\* Both keys of the context are equal: there is one slot, and what is in it
\* counts as the request's ID or as the user's by its Go type.
NoContext == [type |-> "none", user |-> Null]
ContextWithRequestID == [type |-> "string", user |-> Null]
ContextWithUserID_Empty(user) == [type |-> "bytes", user |-> Null]
ContextWithUserID(user) == [type |-> "bytes", user |-> user]

HasRequestID(c) == c.type = "string"
HasUserID(c) == c.type = "bytes"

\* Every token counts as kept, at all times: this allows all that the register
\* does, and nothing below rests on resolves failing once a token's time is over.
Init ==
    /\ RegistryInit
    /\ kept = Token \X Url
    /\ req = [p \in Proc |-> NoReq]
    /\ arrival = [p \in Proc |-> [time |-> 0, held |-> {}]]
    /\ effect = [p \in Proc |-> FALSE]
    /\ conn = [p \in Proc |-> "idle"]
    /\ handler = [p \in Proc |-> "none"]
    /\ seen = [p \in Proc |-> NoContext]
    /\ ctx = [p \in Proc |-> NoContext]
    /\ ww = [p \in Proc |-> NoReply]
    /\ answer = [p \in Proc |-> NoReply]

-----------------------------------------------------------------------------
(***************************************************************************)
(* The middlewares.                                                        *)
(***************************************************************************)

\* ServeMux prefers the route of the health check to the token of that name.
Routed(r) == IF r.endpoint = "resolve" /\ r.token = Health
             THEN [r EXCEPT !.endpoint = "health", !.token = Null] ELSE r

SeenByObservability_Outermost == NoContext

\* chain() puts observabilityMiddleware behind requestIDMiddleware.
SeenByObservability == ContextWithRequestID

\* requestID, observability, timeout and maxBody, in this order.  Without
\* randomness for an ID the client is told so, and the request is served all
\* the same, with an empty ID.
Arrive(p) ==
    /\ conn[p] = "idle"
    /\ \E r \in Req :
          /\ req' = [req EXCEPT ![p] = Routed(r)]
          /\ arrival' = [arrival EXCEPT ![p] = [time |-> now, held |-> RowsOf(r.token)]]
    /\ seen' = [seen EXCEPT ![p] = SeenByObservability]
    /\ ctx' = [ctx EXCEPT ![p] = ContextWithRequestID]
    /\ \/ UNCHANGED answer
       \/ answer' = [answer EXCEPT ![p] = Reply("500", Null)]
    /\ conn' = [conn EXCEPT ![p] = "select"]
    /\ handler' = [handler EXCEPT ![p] =
                       IF req'[p].endpoint \in RequiresAuth THEN "auth" ELSE "handle"]
    /\ UNCHANGED <<serviceVars, ww, effect>>

\* The handler's goroutine is done, with this answer in its writer, which
\* takes nothing more after a timeout.
Responds(p, reply) ==
    /\ ww' = [ww EXCEPT ![p] = IF conn[p] = "select" THEN reply ELSE @]
    /\ ctx' = [ctx EXCEPT ![p] = NoContext]
    /\ handler' = [handler EXCEPT ![p] = "done"]

\* requiresAuthMiddleware.
Authenticate(p) ==
    /\ handler[p] = "auth"
    /\ \/ Responds(p, Reply("401", Null))
       \/ /\ ctx' = [ctx EXCEPT ![p] = ContextWithUserID(req[p].bearer)]
          /\ handler' = [handler EXCEPT ![p] = "handle"]
          /\ UNCHANGED ww
    /\ UNCHANGED <<serviceVars, requestVars, conn, seen, answer, effect>>

\* net/http sends the first status it is given.
Send(p, reply) ==
    /\ answer' = [answer EXCEPT ![p] = IF @ = NoReply THEN reply ELSE @]
    /\ conn' = [conn EXCEPT ![p] = "observe"]
    /\ ww' = [ww EXCEPT ![p] = NoReply]
    /\ UNCHANGED <<serviceVars, requestVars, handler, seen, ctx, effect>>

\* The two branches of the select: the context has ended, or the handler is
\* done.  The handler's goroutine goes on after a timeout.
Timeout(p) == conn[p] = "select" /\ Send(p, Reply("503", Null))

Flush(p) == conn[p] = "select" /\ handler[p] = "done" /\ Send(p, ww[p])

\* Back in observabilityMiddleware: Fatal unless the request has an ID.
Observe(p) ==
    /\ conn[p] = "observe" /\ HasRequestID(seen[p])
    /\ conn' = [conn EXCEPT ![p] = "answered"]
    /\ seen' = [seen EXCEPT ![p] = NoContext]
    /\ UNCHANGED <<serviceVars, requestVars, handler, ctx, ww, answer, effect>>

-----------------------------------------------------------------------------
(***************************************************************************)
(* The handlers, up to their call of the service and from its return on.   *)
(***************************************************************************)
Handles(p, endpoint) == handler[p] = "handle" /\ req[p].endpoint = endpoint

\* Without a call of the service.
RespondAtOnce(p, status) ==
    /\ Responds(p, Reply(status, Null))
    /\ UNCHANGED <<serviceVars, requestVars, conn, seen, answer, effect>>

Calls(p) ==
    /\ handler' = [handler EXCEPT ![p] = "call"]
    /\ UNCHANGED <<kept, requestVars, conn, seen, ctx, ww, answer, effect>>

\* HealthCheck: the repository answers its ping or not; if only Redis does not,
\* there is a warning in the log.
HealthStatus == {"200", "500"}

HandleHealthcheck(p) ==
    /\ Handles(p, "health")
    /\ \E status \in HealthStatus : RespondAtOnce(p, status)

Usable(p) == Accepts(req[p].url)

\* 8 random bytes are more than 6 letters in base58.
Draws == Token \ {Health}

\* No randomness: 500.
HandleGenerateURLToken(p) ==
    /\ Handles(p, "generate")
    /\ \/ ~Usable(p) /\ RespondAtOnce(p, "400")
       \/ Usable(p) /\ RespondAtOnce(p, "500")
       \/ /\ Usable(p)
          /\ \E t \in Draws, life \in Lifetime :
                AskCreate(p, t, NormalizeHTTP(req[p].url), life, Null)
          /\ Calls(p)

HandleResolveToken(p) ==
    /\ Handles(p, "resolve")
    /\ AskResolve(p, req[p].token)
    /\ Calls(p)

\* The branches of the two handlers for a context without a user are dead.
HandleCreateTokenWithOwner(p) ==
    /\ Handles(p, "create") /\ HasUserID(ctx[p])
    /\ \/ RespondAtOnce(p, "400")     \* the alias is too long
       \/ ~Usable(p) /\ RespondAtOnce(p, "400")
       \/ Usable(p) /\ RespondAtOnce(p, "500")
       \/ /\ Usable(p)
          /\ \E t \in (IF req[p].token = Null THEN Draws ELSE {req[p].token}),
                life \in Lifetime :
                AskCreate(p, t, NormalizeHTTP(req[p].url), life, ctx[p].user)
          /\ Calls(p)

HandleDeleteToken(p) ==
    /\ Handles(p, "delete") /\ HasUserID(ctx[p])
    /\ AskDelete(p, req[p].token, ctx[p].user)
    /\ Calls(p)

ServiceStep(p) ==
    /\ Serve(p)
    /\ effect' = [effect EXCEPT ![p] = @ \/ rows' # rows]
    /\ UNCHANGED <<kept, requestVars, pipelineVars>>

Status_TakenIsFine(endpoint, result) ==
    IF endpoint = "create" /\ result # "internal" THEN "201" ELSE "500"

Status_DeleteForgetsErrors(endpoint, result) ==
    IF endpoint = "delete" /\ result # "ErrNotTokenOwner" THEN "200" ELSE "500"

Status_InternalIs400(endpoint, result) ==
    IF result = "internal" THEN "400" ELSE "200"

\* How the handlers map the service's errors.
Status(endpoint, result) ==
    CASE endpoint \in {"generate", "create"} /\ result = "ok" -> "201"
      [] endpoint = "create" /\ result = "ErrTokenIsNotUnique" -> "400"
      [] endpoint = "resolve" -> IF result = "ok" THEN "307" ELSE "404"
      [] endpoint = "delete" /\ result = "ok" -> "200"
      [] endpoint = "delete" /\ result = "ErrNotTokenOwner" -> "403"
      [] OTHER -> "500"

Named(j) == IF j.op = "resolve" THEN j.url ELSE j.token

Return(p) ==
    /\ handler[p] = "call"
    /\ Responds(p, Reply(Status(req[p].endpoint, job[p].result), Named(job[p])))
    /\ Answer(p)
    /\ UNCHANGED <<kept, requestVars, conn, seen, answer, effect>>

-----------------------------------------------------------------------------
Clock == Tick /\ UNCHANGED <<kept, requestVars, pipelineVars, effect>>

\* The process stops, and with it every goroutine; it starts again.
Stop ==
    /\ \E p \in Proc : conn[p] # "idle"
    /\ job' = [p \in Proc |-> NoJob]
    /\ conn' = [p \in Proc |-> IF conn[p] = "idle" THEN "idle" ELSE "closed"]
    /\ handler' = [p \in Proc |-> "none"]
    /\ seen' = [p \in Proc |-> NoContext]
    /\ ctx' = [p \in Proc |-> NoContext]
    /\ ww' = [p \in Proc |-> NoReply]
    /\ UNCHANGED <<now, rows, history, deletedAt, kept, requestVars, answer, effect>>

Handle(p) ==
    \/ HandleHealthcheck(p)
    \/ HandleGenerateURLToken(p) \/ HandleResolveToken(p)
    \/ HandleCreateTokenWithOwner(p) \/ HandleDeleteToken(p)

Next ==
    \/ \E p \in Proc :
          \/ Arrive(p) \/ Authenticate(p) \/ Handle(p) \/ ServiceStep(p) \/ Return(p)
          \/ Timeout(p) \/ Flush(p) \/ Observe(p)
    \/ Clock
    \/ Stop

Spec == Init /\ [][Next]_vars

-----------------------------------------------------------------------------
(***************************************************************************)
(* Properties.                                                             *)
(***************************************************************************)
Statuses == {"200", "201", "307", "400", "401", "403", "404", "500", "503"}

\* Every variable has its type; a handler that needs a user finds one in the
\* slot it shares with the request's ID, and the ID is still there when
\* observabilityMiddleware, which would stop the process without it, looks.
TypeOK ==
    /\ req \in [Proc -> Req \cup {NoReq}]
    /\ arrival \in [Proc -> [time : 0..MaxTime, held : SUBSET history]]
    /\ effect \in [Proc -> BOOLEAN]
    /\ conn \in [Proc -> {"idle", "select", "observe", "answered", "closed"}]
    /\ handler \in [Proc -> {"none", "auth", "handle", "call", "done"}]
    /\ \A p \in Proc :
          /\ answer[p].status \in Statuses \cup {"none"}
          /\ ww[p].status \in Statuses \cup {"none"}
          /\ handler[p] \in {"handle", "call"} /\ req[p].endpoint \in RequiresAuth
                => HasUserID(ctx[p])
          /\ conn[p] = "observe" => HasRequestID(seen[p])

Got(p, status) == answer[p].status = status

\* Who is told 201 has a row of the token he was told, for the URL he sent, in
\* the name he was authenticated by, whoever else created, deleted or timed
\* out at the same time.
CreatedIsOwned ==
    \A p \in Proc : Got(p, "201") =>
        \E r \in history :
            /\ r.token = answer[p].what
            /\ r.owner = req[p].bearer
            /\ r.url = NormalizeHTTP(req[p].url)

\* A token is given once: two clients, or one that repeats a request after a
\* 503, are told 201 for the same token only if it was deleted in between.
GivenOnce ==
    \A p, q \in Proc :
        p # q /\ Got(p, "201") /\ Got(q, "201") /\ answer[p].what = answer[q].what
            => deletedAt[answer[p].what] # Never

\* A client that is refused (4xx) has changed nothing and will not: only 500
\* and 503 leave it open whether the request has taken effect.
RefusedHasNoEffect ==
    \A p \in Proc :
        answer[p].status \in {"400", "401", "403", "404"} => ~effect[p]

\* Who is told 200 for a DELETE knows that what he saw when he asked is gone,
\* by his call or by another.
DeletedIsGone ==
    \A p \in Proc :
        Got(p, "200") /\ req[p].endpoint = "delete" /\ arrival[p].held # {}
            => deletedAt[req[p].token] >= arrival[p].time

\* Redirects lead to HTTP URLs with a host and without credentials or
\* fragment, whatever was sent to be shortened.
RedirectsToHTTP ==
    \A p \in Proc : Got(p, "307") =>
        LET u == answer[p].what IN
        /\ u.scheme \in {"http", "https"} /\ u.slashes
        /\ ~u.user /\ u.fragment = 0
        /\ u.host.form = "name" => IsDomainName(u.host.name)

\* What the server takes for a host name and what it makes of a text does not
\* depend on its state; before the first request is soon enough to say so.
BeforeRequests == \A p \in Proc : conn[p] = "idle"

\* isValidFQDN splits, trims and counts its way to exactly the domain names,
\* with empty labels, hyphens and dots at the ends and names at the limits.
HostsAreDomainNames == BeforeRequests => FQDNIsDomainName

\* A redirect may be shortened again: normalizeHTTP accepts what it has made
\* and leaves it as it is, unless it has become too long.
RedirectsAreStable == BeforeRequests => NormalizeIdempotent

=============================================================================
