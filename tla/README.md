# Models and proofs of the URL shortener

This directory is a verification development for the server in `src/`: TLA+
modules translated from the Go code, TLC configurations that check them on
small instances, and TLAPS proofs of the properties that matter most.  Line
numbers refer to the files under `src/`; `PROJECT.json` maps every definition
to the lines it stands for.

## 1. The system

A single Go process serves HTTP, keeps its data in Postgres and caches
resolved tokens in Redis.

| part | where | state | operations |
|---|---|---|---|
| shortener service | `internal/services/shortener/shortener.go` | none of its own: local variables of the calls in flight | GenerateToken, CreateTokenWithOwner, ResolveToken, DeleteToken, HealthCheck |
| shortener repository | `internal/db/postgres/shortenerRepo.go`, migrations 1 and 3 | table `url_tokens` (token UNIQUE, url, expires_at, owner) | SaveToken, GetToken, DeleteToken: one SQL statement each |
| shortener cache | `internal/cache/redis/*.go`, `docker/redis.conf` | keys token -> url with a TTL; LFU eviction, nothing saved across restarts | SaveToken, GetToken, DeleteToken |
| auth service | `internal/services/auth/*.go` | none of its own; signed access tokens in the clients' hands | Register, Login, Logout, Refresh, Authenticate |
| auth repository | `internal/db/postgres/authRepo.go`, migration 2 | tables `users` (login UNIQUE) and `refresh_tokens` (hash UNIQUE, user, expires_at, revoked_at) | SaveUser, GetUser, SaveRefreshToken, GetRefreshToken, RevokeRefreshToken |
| Postgres client | `internal/db/postgres/postgres.go` | connection pool | withRetry around every statement |
| HTTP middleware | `internal/transport/http/middleware.go`, `metrics.go` | per request: two writerWrappers, the context, the shared header map | request ID, observability, body limit, timeout, authentication |
| HTTP handlers | `internal/transport/http/handlers.go`, `routes.go`, `server.go`, ... | none | one per route |
| request context | `internal/context/context.go` | values in a context | request ID, user ID |
| URL normalization | `internal/services/shortener/url.go` | none (pure) | normalizeHTTP |
| lifecycle | `cmd/app/main.go` | the process | start, wait for a signal or an error, graceful shutdown |
| configuration, migrations command | `cmd/app/config.go`, `cmd/migrate/main.go` | none | read the environment; run migrations |

How the parts interact.  net/http starts one goroutine per connection;
`timeoutMiddleware` starts another for the handler and waits for it or for the
context.  The handler calls a service with the request's context; the service
calls the repository and the cache.  The only state shared between requests is
in Postgres and Redis, and no transaction spans two statements: every service
operation is a sequence of independent round trips that interleave with those
of other requests.

### What is hard here

* **Two stores without a transaction.**  Row and cache entry are read, written
  and deleted in separate round trips; another request, the deadline, an error,
  a lost answer or the end of the process can fall between any two.
* **Check, then act.**  DeleteToken compares the owner of the row it has read and
  deletes by token.  Refresh reads the session row and signs afterwards.
* **Time.**  Expiry is checked against one reading of the clock and turned into
  a TTL with another; `SET` with a TTL that is not positive stores the key for good.
* **The deadline of a request.**  After 2 seconds the client is answered 503 while
  the handler's goroutine still runs and still writes to the same ResponseWriter;
  a mutex guards status and body, nothing guards the header map.
* **Signed tokens outlive their session.**  Authenticate looks at a signature and
  an expiry, never at the session.

The full list, line by line, is `hazards` in `PROJECT.json`.

## 2. Modules

| module | models | runs |
|---|---|---|
| `Shortener` | shortener service, its repository and its cache | `shortener_races`, `shortener_owners` and the refutations `delete_leaves_cache`, `delete_foreign_row`, `cache_forever` |
| `TokenRegistry` | what the shortener service promises: the abstract specification that `Shortener` implements and `HttpApi` builds on | `shortener_owners` (`ImplementsRegistry`) |
| `Auth` | auth service and its repository, and the tokens in clients' hands | `auth_calls` |
| `WithRetry` | the retry loop of the Postgres client | `with_retry` |
| `RoundTrip` | one INSERT as the services see it: the abstract specification of `WithRetry` | `with_retry` (`ImplementsRoundTrip`) |
| `TimeoutMiddleware` | timeout and observability middleware, writerWrapper, the handlers' use of the ResponseWriter | `timeout_races` and the refutations `metrics_unanswered`, `metrics_uncounted` |
| `UrlNormalize` | normalizeHTTP: which URLs are accepted and what is stored | `http_api` (`HostsAreDomainNames`, `RedirectsAreStable`) |
| `HttpApi` | middlewares, context, handlers, composed with `TokenRegistry` and `UrlNormalize`; what a client may conclude from a status | `http_api` |
| `Lifecycle` | configuration, start-up, runner, signals, shutdown, closing of the clients | `lifecycle` |
| `MCShortener`, `MCAuth`, `MCWithRetry`, `MCTimeoutMiddleware`, `MCHttpApi`, `MCLifecycle` | instances for TLC: symmetry sets, state constraints, bounded inputs | |
| `ShortenerProofs`, `RegistryProofs`, `AuthProofs`, `WithRetryProofs`, `LifecycleProofs`, `TimeoutProofs`, `UrlProofs`, `HttpApiProofs` | theorems and their proofs | none: they only hold proofs |

How they fit together:

```
  Lifecycle            the process
     |  serves
  HttpApi ------------ TimeoutMiddleware   (one writer, two goroutines, in detail)
     |  \
     |   UrlNormalize
     |  EXTENDS, and implements (proved)
  TokenRegistry <===== Shortener           (refinement, checked and proved)
                          |  RepoSave is a step of
                       RoundTrip <===== WithRetry   (refinement, checked and proved)
                          |  SaveUser, SaveRefreshToken are steps of
                        Auth
```

`HttpApi` uses the promise instead of the service: whatever it shows of the register
holds of the service because `Shortener` implements `TokenRegistry`; and it asks nothing
of the register that the register does not offer (`ApiUsesRegistry`).  In the same
way `Shortener` and `Auth` give every INSERT the three outcomes of `RoundTrip`, and
`WithRetry` shows that the retry loop has no others.  `Shortener` and `Auth` share no
table, so no module joins them; `HttpApi` sees of `Auth` the user an access token
names, or a refusal.

### Shortener

State and code: `repo` is the table `url_tokens`; `cache` the keys of Redis, each
with the time it dies; `pc[p]` and `call[p]` are the position and the local
variables of the service call that goroutine `p` runs; `now` is the clock,
common to the server, Postgres and Redis.  `issued` (every row ever inserted) and
`deletedAt` (when a row of the token was last deleted) only record history:
no action reads them.

Every round trip and every reading of the clock is an action of its own:

| action | code |
|---|---|
| `ResolveToken`, `CacheGet`, `RepoGet`, `CheckExpiry`, `ComputeTTL`, `CacheSave` | `shortener.ResolveToken`, 159-215 |
| `GenerateToken`, `CreateTokenWithOwner`, `CreateToken`, `RepoSave` (`RowSaved`, `RowRefused`, `RowNotSaved`), then `ComputeTTL`, `CacheSave` | `createToken`, 314-392 |
| `DeleteToken`, `CheckOwner`, `CacheDelete`, `RepoDelete` | `shortener.DeleteToken`, 248-300 |
| `Respond` | the service call returns |
| `Tick`, `CacheEvict`, `Crash` | time and Redis expiry; LFU eviction or a Redis restart; the end of the process |

A round trip has three outcomes: answered; failed without effect; effective but
unanswered (the caller gets an error).  `Resend` is go-redis sending a command
again after its answer was lost, any number of times and with steps of other calls in
between, but before the caller's own next step; a first command that arrives only after
the caller has gone on is not modelled.  The request's context is modelled by
`RequestLife`: a store call takes effect only while `now <= start + RequestLife`
(`handleTimeout` is 2 seconds, `server.go:21`).  The clock may pass between any
two steps, so a goroutine may also be paused for longer than that; its later
store calls then fail.

Assumptions of the model: the server, Postgres and Redis share one clock; a
command sent before the context ended is executed, if at all, before it has
ended by a whole tick; the token, the URL and the owner are values that the
properties only compare.  URL and token validation is one refusal before any
state is touched (`url.go` is a component of its own).

What holds (checked, and proved for all constants):

* `CoherentUntilDeleted`: for a token that was never deleted the cache agrees with the table.
* `StalenessBounded`: an entry whose row is gone dies at most RequestLife + CacheTTL after the deletion, unless it has no expiry.
* `OverstayBounded`: an entry outlives its token by at most RequestLife; one without expiry was written for a token whose life was over.
* `ResolveCorrect`: a resolved URL is one the token was issued for, and the URL of its row if the token was never deleted; its time was not over when the request began, unless it is a cache hit, and then it was over for at most RequestLife or the key has no expiry; "expired" is true.
* `CreateAckMeansRow`: an acknowledged creation is in the table, unless deleted since the call began.
* `RowDiesByFormerOwner`: a row disappears only by a call of a user who has owned the token.
* `ImplementsRegistry`: see `TokenRegistry` below.

`TokenUnique` (one row per token, whatever the race) is a part of `IInv` and a theorem.

What the repository says and the code does not do (each refuted by its run, see
`findings`): `DeleteClearsCache`, `OnlyOwnerDeletes`, `CacheEntriesExpire`.

### TokenRegistry, the promise

A register of tokens: a call is asked (`AskCreate`, `AskResolve`, `AskDelete`, `Refuse`),
takes effect in one step (`Create`, `Delete`) or reports what is true of the register in
one step (`Resolve`, `AlreadyTaken`, `NothingToDelete`, `NotOwner`), or breaks, and is
answered.  There is no cache, no second reading of the clock and no deadline.

`Shortener!ImplementsRegistry` maps `repo`, `issued` and the visible part of each call
(`JobOf`) to it.  The cache and the position in the call are hidden, so a step on the
cache, or a step from one reading of the clock to the next, is a stutter.  The
interesting part is where a call takes effect: a creation at its INSERT, before it is
answered and before the cache is filled; a resolve when its last answer is determined;
a deletion at the DELETE statement, not at the check of the owner.

Three things are left open on purpose, because with them closed the refinement does not
hold:

* a resolve of a token that has been deleted once may name any row the token ever had
  (`Known`; see the run `delete_leaves_cache`);
* a deletion removes the row of whoever holds the token by then, provided the caller has
  owned it (`HasOwned`; see the run `delete_foreign_row`);
* a token past its time, which `service.go:20` says is reported as expired, may still be
  resolved (`Answerable`): by a request that came at most `Slack` after the end of its
  time, or while the token is `kept`.  A token can come to be kept only around the end of
  its time (`Ending`) and is kept until it is forgotten.

The third is what a cache hit overlooks, and no more.  `Shortener` gives `Slack` the value
RequestLife, as a fill computes its TTL before it is sent, and `kept` the keys in the cache
without expiry (see the run `cache_forever`).  A service that did not look at the expiry
of the row (`CheckExpiry_Skipped`), or gave every entry the whole CacheTTL
(`FillTTL_IgnoresExpiry`), does not implement the register.  For a token that was never
deleted and whose time is not over the register is exact.

### Auth

State and code: `users` and `sessions` are the tables `users` and
`refresh_tokens`; a refresh token stands for its hash.  `refreshTokens` and
`accessTokens` are the tokens that clients have been given: the server does not
keep them, but a client can only present what it was given (or something that
matches no row, `Null`, or a JWT that does not verify).  An access token carries
its user and its expiry; its `session` is auxiliary, and so are `start` (when the
call began) and `dead` (the sessions revoked by then) of a call.

| action | code |
|---|---|
| `Register`, `SaveUser` (`UserSaved`, `UserRefused`, `UserNotSaved`) | `auth.Register`, 128-161; `SaveUser` of `authRepo.go` |
| `Login`, `GetUser` (with the password check), `IssueRefreshToken`, `SaveRefreshToken` (`SessionSaved`, `SessionNotSaved`), `IssueAccessToken` | `auth.Login`, 163-203; `issueRefreshToken`, `issueAccessToken` |
| `Logout`, `RevokeRefreshToken` | `auth.Logout`, 205-219; one UPDATE |
| `Refresh`, `GetRefreshToken` (with the check of revoked_at), `CheckExpiry`, `IssueAccessToken` | `auth.Refresh`, 221-260 |
| `PresentJWT`, `Authenticate` | `requiresAuthMiddleware`, `auth.Authenticate`, 262-289 |
| `Respond` | the answer reaches the client or is lost |
| `Tick`, `Crash` | time; the end of the process |

Round trips have the same three outcomes as in `Shortener`, at any time: nothing
here depends on the deadline of the request.  Draws of refresh tokens may collide;
the UNIQUE constraint is what keeps sessions apart.  The expiry of a JWT is cut to
whole seconds (`cut`).  Signing a JWT does not fail: the subject is the base64 of
an id and the key is a byte string.  `Refresh` and `CheckExpiry` belong to one
call, so a session may be revoked between the two and the call still succeeds;
`RefreshNeedsSession` therefore speaks of the moment the call began.

* `RegisterAckMeansAccount`, `LoginAckMeansSession`, `LogoutAckMeansRevoked`: what a
  success means - the account of this call's login and password, a session in the
  table that belongs to it and that nobody can have revoked yet, a revoked session.
* `RefreshNeedsSession`: no access token for a session that was revoked or expired
  when the Refresh began, nor for another user.
* `AuthenticateNeedsGrant`: a user is named only for an unexpired token issued for one
  of his sessions.
* `RevocationFinal`: sessions stay, and the first revocation is the one that counts.

`AccountUnique` and `SessionUnique` (logins, ids and token hashes name one row each) are
parts of `IInv` and theorems of their own.  An access token outlives the logout of its
session; see "Divergences" below.

### TimeoutMiddleware

`main[r]` is where the connection's goroutine of request `r` stands, `todo[r]`
what its handler has yet to do with the ResponseWriter (`Program` gives one list
per kind of handler), `ww[r]` the fields of the timeout's writerWrapper,
`holder[r]` its mutex, `headers[r]` the header map of the connection, `inMap[r]`
that the handler is inside that map, `pattern[r]` the `Pattern` field of the two
copies of the request, `answer[r]` what went to the client.

A handler's write to the header map takes two steps, so that the timeout branch
can enter the map in between; `Fault` is the Go runtime stopping the process,
which it may, but need not, do.  `WriteBlocks` is the `Write` that calls
`WriteHeader` with the mutex held.  The observability wrapper is used by one
goroutine only and appears as `Send` and `Observe`.

* `WholeAnswer`: the client gets the handler's whole answer or the whole 503 (status
  and body; headers the handler had set stay in a 503).
* `CrashNeedsTimeout`: the header map is shared only after a deadline.
* `SettersAnswered`, `SettersReturn`: a request whose handler sets a status before it
  writes is answered, and its handler's goroutine does not outlive it for ever, even
  when a handler of another request is stuck.

The fairness: Go runs every goroutine that can run (weak fairness of each goroutine's
own steps), the context's timer fires, and a service call is sure to return only once
its context has ended (drivers watch the context); nothing is assumed of a call whose
context lives.  Contexts end because `handleTimeout` is in the chain of every server, in
debug mode too (`server.go:75`).  Reading a request's body does not watch the context: it is
ended by `readTimeout`, 5 seconds, which a server in debug mode does without (`server.go:89`), so
there both liveness properties hold only of clients that send their bodies.  With the
`metrics` handler (promhttp, which writes without `WriteHeader`) `EveryRequestAnswered` fails under the same fairness, which is the run
`metrics_unanswered`.  That handler is only registered when metrics are enabled.

### UrlNormalize

`normalizeHTTP` (`url.go:11-103`) as operators over the pieces of a URL's text: scheme,
"://" or ":", credentials, host, port, a second "://" further behind, and how many runes
stand where.  `Accepts` and `NormalizeHTTP` give the error and the result.  A host name
is a sequence of kinds of characters, so `isValidFQDN` is modelled as it works: cut
the final dot, split at dots, look at each label.

* `FQDNIsDomainName`: that algorithm accepts exactly the domain names, said position by
  position (`IsDomainName`).
* `NormalizeIdempotent`: a URL that was stored is accepted again and left as it is, unless
  "http://" and the escapes have made it longer than the limit, which is checked before
  they are added.

Both are statements about data.  `HttpApi` states them in the initial states
(`HostsAreDomainNames`, `RedirectsAreStable`, with `BeforeRequests`), as the server's
state has no influence on them.  TLC evaluates them for all names of up to 5 characters
with the limits cut to 4 (name) and 3 (label), and for all texts of a grammar with 14
runes for 2000, so that every limit is met from both sides; `UrlProofs` proves both for
names of any length and all limits.

What `url.Parse` refuses in the rest of the text (control characters, broken escapes) is one
field, `garbled`.  Of `u.String()` only the length of the result is modelled: it escapes
what has to be escaped in the path and leaves the query as it is.

### HttpApi

The way of a request: `Arrive` (request ID, observability, timeout and body limit, in the
order of `chain`), `Authenticate` on the two routes that require it, one action per
handler up to its call of the service, `ServiceStep` (a step of `TokenRegistry`), `Return`
(the answer, with `Status` for the mapping of errors), and on the connection's side
`Timeout`, `Flush` and `Observe`.  `Stop` is the end of the process.  A client that retries
is a second request with the same content.

The context has one slot (`seen`, `ctx`): `context.go:5` defines both keys as the same
empty struct value, so the user ID hides the request ID, and code tells them apart by
their Go types.  `TypeOK` says that nobody is misled by it: a handler that needs a user
finds one, and observabilityMiddleware, which stops the process when it finds no request
ID, looks into a context that the user never gets into.

`HttpApi` takes every token of the register as `kept`: it allows all that the register does, and
more, as none of the properties below rests on a resolve failing once a token has expired.

Abstractions: a body that cannot be read is one with an unusable URL (both are 400), a
missing access token is one that is refused (both are 401).  The handlers' branches for
a context without a user are dead behind requiresAuthMiddleware and not modelled; that
they are dead is part of `TypeOK`.  What the two goroutines do to the one writer, step by
step, is in `TimeoutMiddleware`; here a handler's answer counts if it is complete before
the timeout, which is what `WholeAnswer` gives.

What a client may conclude (each for every interleaving, timeout and restart):

* `CreatedIsOwned`: 201 means a row of the token it names, for the URL that was sent, in
  the name of the caller.
* `GivenOnce`: nobody else, and no earlier attempt of the same client, is told 201 for the
  same token unless it was deleted in between.
* `RefusedHasNoEffect`: 400, 401, 403 and 404 change nothing.  500 and 503 leave it open:
  after a 503 the handler's goroutine goes on, and a request without a request ID is
  answered 500 and served all the same.
* `DeletedIsGone`: 200 for a DELETE means that what the caller saw when it asked is gone.
* `RedirectsToHTTP`: redirects lead to HTTP URLs with a host and without credentials.

Two more are theorems of `HttpApiProofs` and stated there: `RedirectsToCreated` (a redirect leads
to the URL sent by whoever was told 201 for the token, unless it was deleted in between) and
`DiesByBearer` (a row goes only on behalf of a DELETE authenticated as a user who has owned
the token).

### WithRetry and RoundTrip

`withRetry` (`postgres.go:92-119`) around an INSERT of a row with a unique key, for
several callers that contend for the key and with deletions in between: `CheckContext`,
`Call` (answered, lost before or behind the commit, aborted), `Pause` (timer or context,
`AfterPause` counts).  Only what Postgres has rolled back is retried, which is why
`OwnRowNeverRefuses` holds: a call never reports "not unique" on account of its own
earlier attempt while that row is there.  `ImplementsRoundTrip` shows that the loop is one round trip with three
outcomes for its caller.  `EveryCallReturns` assumes that a goroutine runs on and that
Postgres and the timer answer; it does not assume that contexts end.

### Lifecycle

`main` from the environment to the exit: `LoadConfig`, `OpenPostgres`, `OpenRedis`,
`LoadJWTKey`, `StartRunner`, `Notify`, then the select (`RunnerFailed`, `BeginShutdown`),
`ShutdownReturns` or `Deadline`, `Exit`; the runner (`Bind`, `ServeReturns`, `SendError`); one
goroutine per client that closes it when the application's context ends
(`CloseClient`); connections (`Accept`, `Respond`, `HandlerReturns` for handlers their timeout has
abandoned); `Signal` and `Kill`.

* `CleanShutdownAnswersAll`: exit with code 0 within the 5 seconds means that every
  accepted request was answered.
* `ServedWithStores`: both clients stay open behind the last request, or until the 5
  seconds are over.
* `ServedAsConfigured`: only an environment that is well formed and has the variables without a
  default (DSN, Redis URL, key) ever serves; PORT may be missing, whatever `config.go:23` says.
* `SignalEnds`, `RunnerFailureEnds`: a signal that was delivered, or a failed listener, ends
  the process.  Fairness: main runs, the runner returns once Shutdown has been
  called, its error is sent when there is room, the timer of the shutdown fires.
  Nothing is assumed of clients or handlers, so a stuck request is covered.

A signal before `Notify` (`main.go:107`) kills the process without a shutdown, and a handler
that its timeout has abandoned is waited for by nobody; both are behaviours of the model.

### Divergences between the code and its texts

With a run that refutes the text (see `findings`): `DeleteClearsCache`, `OnlyOwnerDeletes`,
`CacheEntriesExpire`, `EveryRequestAnswered`, `AnsweredIsCounted`.  Met while modelling and
only noted here:

* `shortener/service.go:20` says that a token that has expired gives ErrTokenExpired; a cache hit
  is answered without a look at the expiry (`shortener.go:168`).  `ResolveCorrect` and the
  register bound it: by RequestLife, unless the key was saved without an expiry.
* `auth/service.go:52` says Authenticate serves a session that is active; the code looks at a
  signature and an expiry, so a token outlives the logout by up to AccessTokenTTL.
* `shortener.go:306` says that a missing scheme is interpreted as http://, but a URL without
  scheme and with "://" in its query is refused (`url.go:15`).
* `url_test.go:73` calls IPv6 addresses without brackets invalid; `http://1::2:3` is accepted,
  its last group taken for the port.
* `config.go:23` calls PORT required; it has a default.  `server.go:49` gives "localhost" as
  the default host; the server listens on all of them.  An empty SECRET_JWT_KEY is a key.
* `shortener/service.go:8` speaks of all dependencies; HealthCheck only warns about Redis.
* The alias "health" can be created; its redirect is hidden by the health check's route.
* Every error of ResolveToken becomes a 404, an unreachable database included; an error
  of Shutdown is logged and the exit code stays 0.

## 3. Runs, bounds and why they are enough

| run | instance | distinct states |
|---|---|---|
| `shortener_races` | 2 goroutines, 1 token, 2 URLs, 1 user and anonymous, request TTL default or 3, TokenTTL 1, CacheTTL 1, RequestLife 1, clock 0..2, at most 2 rows issued | 1.7 million |
| `shortener_owners` | 2 goroutines, 1 token, 1 URL, 2 users and anonymous, one TTL, RequestLife 0, clock 0..2, at most 2 rows issued | 235 thousand |
| `auth_calls` | 2 goroutines, 2 logins, 2 passwords, 2 ids, 2 hashes, access tokens of 1 tick, 2 ticks per second, refresh tokens of 0, clock 0..1, at most 1 access token kept | 452 thousand |
| `timeout_races` | 2 requests, all kinds of handlers, FairSpec | 103 thousand |
| `with_retry` | 3 callers of one key, 3 attempts as in the code, FairSpec | 85 thousand |
| `lifecycle` | every environment, 2 connections, 2 signals, FairSpec | 47 thousand |
| `http_api` | 2 requests of every kind, 2 tokens ("health" is one), 2 users, 2 URLs (one unusable), clock 0..1 | 1.7 million |
| refutations | the smallest instance with the trace; `delete_foreign_row` has 2 users, so that the row that goes is another user's | stop at the trace |

* Two goroutines: every race in the code is between two calls on one token; a
  goroutine of `Shortener` and `Auth` is reused, so a third call can follow while the first
  still runs.  `WithRetry` has three: one that holds the key, one that was refused and
  one that is retrying when the key comes free.
* One token suffices for cache and table, which never relate two tokens.  With two users
  one token can change hands while the former owner's call runs.
* Two URLs let a token come back with another URL after a deletion, two rows is the
  least that needs.
* The clock reaches 2 with lifetimes of 1 and one of 3, so that a token can be
  alive, die in the middle of a call, and outlive the cache's TTL.  `shortener_owners` gives
  requests no life beyond their tick, which bounds its states; the long calls are in
  `shortener_races`, and `RegistryProofs` covers all values.
* Refresh tokens of lifetime 0 and a clock of two values let a session be alive at its
  tick and expired at the next, while a call is between reading it and answering.
* Goroutines, URLs, users, tokens, logins, passwords, ids and hashes are only compared
  with each other, so they are symmetric (`MCSymmetry`), but for the token "health"; no
  run with a liveness property uses symmetry.
* `FewTokens` keeps one access token in clients' hands (states with a second are still
  checked): no action relates two of them.  `FewRows` bounds the rows ever inserted.
  Both prune behaviours and weaken no property.
* Two connections and two signals: one request can be stuck while another is answered,
  and a signal can find the channel full.
* `CHECK_DEADLOCK FALSE` in the runs of `TimeoutMiddleware`, `HttpApi`, `WithRetry` and `Lifecycle`,
  because each request is served once, each call returns once and a process ends:
  the systems do stop.  Waiting for ever is checked by the liveness
  properties.  `Shortener` and `Auth` are checked for deadlock.

## 4. What is proved

Every theorem holds for all values of the constants; the assumptions are the named
ASSUMEs of the modules, which TLC evaluates in the runs.

**`ShortenerProofs`** (`TTLAssumption`, `NullAssumption`): `TypeCorrect`, `InvariantHolds`, `RowsUnique`,
`CacheCoherent`, `StaleEntriesDie`, `EntriesOverstayLittle`, `ResolveHonest`, `CreateDurable`,
`RowsDieByOwners`.

None of the properties is inductive: whether a fill may write an
entry depends on what its goroutine has read, so `IInv` says what a call holds at
each step.  `FillInv`: between reading (or inserting) a row and saving it to the
cache, a call holds a row that was issued, that is gone only if it was deleted
after the call began.  `SaveInv`: that row's time was not over when the call began; the TTL
about to be saved is at most CacheTTL and at most the life the token had when the call
began, and is not positive only if the token's life is over.  `OwnerInv`: past its check, a DeleteToken call was made
by a user who has owned the token.  `StoreInv` ties rows, history and cache
together.  A cache write inside the context then happens at most RequestLife
after `start <= deletedAt`, which gives `StalenessBounded`.  `ResolveHonest` proves an action
property: what is answered is judged in the step that answers (`AnsweringStep`), as the cache may
lose the key right after.  A hit (`HitRow`) finds an entry that is not dead yet (`CacheLifeInv`), and an
entry dies at most RequestLife after its row's time or has no expiry; a fill (`FillRow`) rests on
`SaveInv`.

The proof has one lemma per action.  Most actions change one goroutine's call
and leave the stores alone (`LocalStep`), and a step of one goroutine disturbs the
invariant of another only through the stores: `OtherCall` states once how the
stores may evolve (rows are only added to `issued`; a row leaves `repo` only when
`deletedAt` becomes `now`) and that every other goroutine's `CallInv` survives.

**`RegistryProofs`**: `ServiceImplementsRegistry`, that is `Spec => ImplementsRegistry`.  Initial states
map to initial states, and under `IInv` each action of `Shortener` maps to the action of
the register it stands for or to a stutter.  Beside `IInv` the mapping needs `JobInv`:
which fields of a call are still at their initial value, so that the answer of a failed
call is the one the register gives.  `IInv` is what makes a cache hit harmless: for a token
that was never deleted the entry agrees with the row (`CoherentUntilDeleted`), otherwise it is
some row of the history, which is as much as `Known` allows; and as the entry lives, the row's time
was over for at most RequestLife, or its key is in `Kept`.  `KeptEnds` shows that a key gets into the
cache without expiry only while its token is one of `Ending`.

**`AuthProofs`** (`TTLAssumption`: a JWT's life does not become negative when it is cut to seconds;
`NullAssumption`): `TypeCorrect`, `InvariantHolds`, `AccountsUnique`, `SessionsUnique`, `RegisterDurable`,
`LoginHonest`, `RefreshHonest`, `AuthenticateHonest`, `LogoutDurable`, `RevocationLasts`.

`LoginAckMeansSession` promises that the session is not revoked when
Login answers, though any call may revoke any session whose token it is given.  The
invariant therefore follows who knows what: `ClientInv` (clients hold tokens of
saved sessions only), `KnownInv` (Logout, Refresh and Authenticate speak of tokens
clients hold), `FreshInv` and `DistinctInv` (a session whose Login has not answered
is held by no client and by no other Login; the UNIQUE constraint gives this at the
INSERT, as the hash was free and so in nobody's hands).  For `RefreshNeedsSession`,
`DeadInv` says that what was revoked when the call began is revoked still, so the
unrevoked row Refresh reads, the only one with its hash, was not among it.  As in
`ShortenerProofs` there is one lemma per action, and `OtherCall` shows once that
every other call survives a step of the tables (`Becomes`, `Evolve`).

**`WithRetryProofs`** (`AttemptsAssumption`, `NobodyAssumption`): `TypeCorrect`, `OwnRowSafe`, `RetryRefines`,
`CallsAreBounded`.  `RowIsFinal` says that whose row has the key has returned, with "ok" or with an error, and so
makes no further attempt.  With it each `Call` that reaches Postgres is one step of
`RoundTrip` or a stutter (an aborted attempt), as is every other step.  `CallsAreBounded` is the safety
half of `EveryCallReturns`: `StepsLeft` (the rounds of the loop that remain, three steps each, and what is
left of this one) is at most `3 * MaxAttempts`, is 0 exactly when the call has returned, goes down with
every step of the call and up with no step.  A pause that did not count its attempt would raise it.

**`LifecycleProofs`** (`SignalsAssumption`): `TypeCorrect`, `CleanShutdown`, `StoresUnderRequests`, `Configured`.  The
invariant says how far start-up has come: `Checked` (which variables have been loaded
by each step of main), `Opened` (which clients are open by then), `Served` (requests exist only
behind a runner) and `Closed` (the context ends only behind Shutdown, with no active
connection unless the 5 seconds were over).

**`TimeoutProofs`** (`KindAssumption`, for any number of requests): `TypeCorrect`, `AnswersWhole`,
`CrashAfterTimeout`, `SettersAreFree`, `StuckForGood`.  The invariant counts how much of its program a handler has done
(`Done`) and says for each request that the writer holds what the handler has written so
far, until the abort takes it (`WriterInv`), the header map what the handler has set
(`HeadersInv`), and that an answer on its way is either flushed, with the handler at its
end, or the timeout's, with the context over (`AnswerInv`).  A handler inside the header
map is not at its end, so whoever meets it there comes from a timeout: `CrashNeedsTimeout`.

`SettersAreFree` and `StuckForGood` say whom the mutex of the writerWrapper can stop, which is what
decides `SettersAnswered` and the refutation in `MetricsUnanswered`.  `StatusFirst` looks at the programs: one with
a WriteHeader has it before every Write.  With `WriterInv` such a Write finds `wroteHeader`, or an aborted
writer, and does not lock twice; so `LockInv`, that only a handler without a status ever keeps the
mutex, and only while its timeout has not aborted the writer, is inductive over `IInv`.  Such a handler keeps it
for good, and `Abort` waits for it: its request is never answered.

**`UrlProofs`** (`LimitsAssumption`: the limits are natural numbers; `NameAssumption`, `RawAssumption`: names and
URLs have the shape the operators read): `FQDNExact`, `NormalizeStable`, and the lemma
`NormalizedIsHTTP`.

`FQDNExact` equates an algorithm that splits at dots with a description position by position.
`LabelBetween` says what the piece between two neighbouring cuts is; `CutsAround` that every position
has a nearest cut on each side.  Nearest means least or greatest of a set of numbers, which
`LeastOf` and `GreatestOf` get from the well-foundedness of the order, so no induction over the name
is needed.  From there `LabelsMakeName` reads the conditions on labels as conditions on
positions (a window of LabelMax + 1 positions without a dot would lie inside one label), and
`NameMakesLabels` goes back.  For `NormalizeStable`, a URL that was accepted has "://" behind its scheme, so
`WithScheme` leaves what is stored alone; there is nothing left to escape, to cut off or to put into
lower case.

**`HttpApiProofs`** (`SentAssumption`, `TimesAssumption`, `UrlAssumption`: the register takes what normalizeHTTP
makes, with the assumptions of `UrlNormalize`; for any number of requests, tokens, users and
URLs): `ApiInvariant`, `ApiTypes`, `CreatedIsTrue`, `TokensAreGivenOnce`, `RefusalsAreTrue`, `DeletionsAreTrue`,
`RedirectsAreHTTP`, `RedirectsAreTrue`, `RowsDieByBearers`, `HostsAreExact`, `NormalFormsAreStable`,
`ApiUsesRegistry`.

No property of an answer is inductive: an answer is a promise made when the call of the service
returned, carried through the writer and handed over later, while rows come and go.  `IInv` therefore
says of each request what it holds at each stage.  `Control`: where its two goroutines and its call
can be, and that the slot of the handler's context has the user the access token names.  `Effects`:
a call that is still to take effect, or that ends in one of the refusals, has changed nothing, and who
holds a 4xx will not go on.  `Creates`: who claims a token (`Claims`: a call that has saved, a 201 in the
writer, a 201 at the client) has a row in the history that is his.  `Deletes`: every row seen at the
arrival is there still or its token was deleted since.  `Resolves`: a URL on its way to the
client is one of the token's rows.  Three parts relate requests and rows: `Kept` (a row is there until
its token is deleted), `Alone` (a token has one row until it is deleted) and `Once` (two requests claim one token
only if it was deleted).  `Kept` is what makes `Once` inductive: a creation finds no row of the
token, so whoever claims it already has had his row deleted.

There is one lemma per action.  `Grows` says how the register may evolve (time passes, rows are added to
the history, deleted rows were deleted now), `SameKeeps` that every other request's invariant
survives that, and `OneRequest` puts together what is left to show of a step: what it does to its own
request, and that it claims a token only if nobody has it.  `ApiUsesRegistry` maps every step to a
step of the register or to a stutter; the end of the process is a `Crash` of the register if a call is
under way and invisible there otherwise, which is `Control` again.  It is stated of the register's
steps and not of `RegistrySpec`, because of the tokens that `HttpApi` takes as kept from the start.

**Only model-checked.**  Liveness (`SettersAnswered`, `SettersReturn`, `EveryCallReturns`, `SignalEnds`,
`RunnerFailureEnds`) and the absence of deadlock, which are out of the prover's reach (of the first
three the safety halves are proved: `CallsAreBounded`, `SettersAreFree`), and the refutations, which are
traces.  Every other property of every run is a theorem.

## 5. Plan

Done: all the modules of the inventory but the migration command, and a proof of every safety
property that a run checks.  What could still be said with proofs:

* what the register itself promises (one row per token, deletions by former owners), stated of
  `TokenRegistry`, so that it carries over to the service and the API through the two refinements
  instead of being proved on both sides;
* the safety halves of the liveness properties of `Lifecycle` (those of `WithRetry` and of the mutex in
  `TimeoutMiddleware` are proved).

## 6. Not modelled

* `cmd/migrate`: a wrapper around golang-migrate that runs once and exits; versions and locks are
  the library's.  It shares only the schema with the server, which the models read
  from the migrations.
* The numbers of the configuration (sizes, lifetimes and timeouts of the pools): they decide
  how often a round trip fails, and a round trip may fail at any time in the models.
* Logging, the values of the metrics beyond the fact that a request is counted, attributes
  of cookies, wording of answers.
* What HealthCheck of the two services asks of the stores: it changes no state, and its two
  outcomes are `HandleHealthcheck` of `HttpApi`.
* Hashes, signatures and random draws as such: a hash names its secret, a token that was not
  issued does not verify, a draw is any value.
