----------------------------- MODULE Shortener -----------------------------
(***************************************************************************)
(* The URL shortener service (internal/services/shortener) with the two    *)
(* stores it keeps in step: the url_tokens table in Postgres and the       *)
(* token -> url cache in Redis.                                            *)
(*                                                                         *)
(* Each call of the service runs in a goroutine of its own and makes       *)
(* several round trips; nothing locks a token across them.  Every round    *)
(* trip and every reading of the clock is therefore an action, and calls   *)
(* on the same token interleave between them.                              *)
(*                                                                         *)
(* A round trip may be answered, may fail without effect, or may take      *)
(* effect while its answer is lost (the caller sees an error in the last   *)
(* two cases).  The request's context ends RequestLife after the request   *)
(* began; from then on every round trip of that request fails.             *)
(*                                                                         *)
(* A definition named D_X is D with one plausible slip in it; no behaviour *)
(* uses it, and it serves to see that a property would notice the slip.    *)
(***************************************************************************)
EXTENDS Integers

CONSTANTS
    Proc,         \* goroutines that serve calls
    Token,        \* tokens (aliases) that clients name or the service draws
    Url,          \* normalized URLs, as normalizeHTTP returns them
    User,         \* IDs of authenticated users
    RequestTTL,   \* values of CreateTokenInput.TTL, zero and negative included
    TokenTTL,     \* Config.TokenTTL, the default lifetime
    MaxCacheTTL,  \* Config.CacheTTL
    RequestLife,  \* how long a request may go on calling its stores
    MaxTime,      \* bound on the clock, for model checking
    Null          \* Go's nil, SQL's NULL and "not set yet"

ASSUME TTLAssumption ==
    /\ RequestTTL \subseteq Int
    /\ TokenTTL \in Nat \ {0}
    /\ MaxCacheTTL \in Nat \ {0}
    /\ RequestLife \in Nat
    /\ MaxTime \in Nat

ASSUME NullAssumption == Null \notin Token \cup Url \cup User

VARIABLES
    now,        \* the clock
    repo,       \* rows of url_tokens
    cache,      \* keys of the Redis database
    pc,         \* pc[p]: the next step of the call p serves
    call,       \* call[p]: arguments and local variables of that call
    issued,     \* auxiliary: every row url_tokens ever held
    deletedAt   \* auxiliary: when a row of the token was last deleted

vars == <<now, repo, cache, pc, call, issued, deletedAt>>

Owner == User \cup {Null}

URLToken == [token : Token, url : Url, expiresAt : Nat, owner : Owner]

(***************************************************************************)
(* A key written without an expiry never goes away by itself.  Redis       *)
(* reports the remaining life of such a key as -1.                         *)
(***************************************************************************)
NoExpiry == -1

Entry == [token : Token, url : Url, dies : Nat \cup {NoExpiry}]

Never == -1

Result == {"ok", "invalid", "internal", "ErrTokenDoesNotExist",
           "ErrTokenExpired", "ErrTokenIsNotUnique", "ErrNotTokenOwner"}

Call == [op        : {"create", "resolve", "delete", Null},
         token     : Token \cup {Null},
         url       : Url \cup {Null},
         expiresAt : Nat,
         user      : Owner,
         ttl       : Int,
         start     : Nat,
         result    : Result \cup {Null}]

Blank == [op |-> Null, token |-> Null, url |-> Null, expiresAt |-> 0,
          user |-> Null, ttl |-> 0, start |-> 0, result |-> Null]

ResolveStep == {"cacheGet", "repoGet", "checkExpiry"}
CreateStep  == {"repoSave"}
FillStep    == {"computeTTL", "cacheSave"}     \* shared by resolve and create
DeleteStep  == {"checkOwner", "cacheDelete", "repoDelete"}

Init ==
    /\ now = 0
    /\ repo = {}
    /\ cache = {}
    /\ pc = [p \in Proc |-> "idle"]
    /\ call = [p \in Proc |-> Blank]
    /\ issued = {}
    /\ deletedAt = [t \in Token |-> Never]

-----------------------------------------------------------------------------
(***************************************************************************)
(* What the two stores do.                                                 *)
(***************************************************************************)

\* The context of the request p serves has not ended.
InTime(p) == now <= call[p].start + RequestLife

RowsOf(t) == {r \in repo : r.token = t}

EntriesOf(t) == {e \in cache : e.token = t}

Unique_NoConstraint(t) == TRUE

\* The UNIQUE constraint on url_tokens.token.
Unique(t) == RowsOf(t) = {}

\* INSERT INTO url_tokens, where the constraint allows it.
Insert(row) ==
    /\ repo' = repo \cup {row}
    /\ issued' = issued \cup {row}

\* DELETE FROM url_tokens WHERE token = t.  No row is not an error.
DeleteRows(t) ==
    /\ repo' = {r \in repo : r.token # t}
    /\ deletedAt' = IF RowsOf(t) = {} THEN deletedAt
                                      ELSE [deletedAt EXCEPT ![t] = now]

(***************************************************************************)
(* SET key value, as go-redis sends it: the expiry option goes out only    *)
(* for a positive duration, so a zero or a negative one stores the key for *)
(* good.                                                                   *)
(***************************************************************************)
Dies(ttl) == IF ttl > 0 THEN now + ttl ELSE NoExpiry

SetEntry(t, u, ttl) ==
    cache' = {e \in cache : e.token # t}
               \cup {[token |-> t, url |-> u, dies |-> Dies(ttl)]}

DeleteEntry(t) == cache' = {e \in cache : e.token # t}

Succeed(p) ==
    /\ pc' = [pc EXCEPT ![p] = "done"]
    /\ call' = [call EXCEPT ![p].result = "ok"]

\* The local variables of the call go; the answer is which call failed and how.
Fail(p, error) ==
    /\ pc' = [pc EXCEPT ![p] = "done"]
    /\ call' = [call EXCEPT ![p] = [Blank EXCEPT !.op = call[p].op,
                                                !.token = call[p].token,
                                                !.result = error]]

Goto(p, step) ==
    /\ pc' = [pc EXCEPT ![p] = step]
    /\ UNCHANGED call

Begin(p, step, newCall) ==
    /\ pc[p] = "idle"
    /\ pc' = [pc EXCEPT ![p] = step]
    /\ call' = [call EXCEPT ![p] = newCall]
    /\ UNCHANGED <<now, repo, cache, issued, deletedAt>>

-----------------------------------------------------------------------------
(***************************************************************************)
(* ResolveToken                                                            *)
(***************************************************************************)
ResolveToken(p) ==
    \E t \in Token :
        Begin(p, "cacheGet",
              [Blank EXCEPT !.op = "resolve", !.token = t, !.start = now])

\* A hit is the answer.  A miss and an error both lead to the table.
CacheGet(p) ==
    /\ pc[p] = "cacheGet"
    /\ \/ /\ InTime(p)
          /\ \E e \in EntriesOf(call[p].token) :
                call' = [call EXCEPT ![p].url = e.url, ![p].result = "ok"]
          /\ pc' = [pc EXCEPT ![p] = "done"]
       \/ Goto(p, "repoGet")
    /\ UNCHANGED <<now, repo, cache, issued, deletedAt>>

RepoGet(p) ==
    /\ pc[p] = "repoGet"
    /\ \/ /\ InTime(p)
          /\ \E r \in RowsOf(call[p].token) :
                call' = [call EXCEPT ![p].url = r.url,
                                     ![p].expiresAt = r.expiresAt]
          /\ pc' = [pc EXCEPT ![p] = "checkExpiry"]
       \/ /\ InTime(p)
          /\ RowsOf(call[p].token) = {}
          /\ Fail(p, "ErrTokenDoesNotExist")
       \/ Fail(p, "internal")
    /\ UNCHANGED <<now, repo, cache, issued, deletedAt>>

CheckExpiry_Skipped(p) ==
    /\ pc[p] = "checkExpiry"
    /\ Goto(p, "computeTTL")
    /\ UNCHANGED <<now, repo, cache, issued, deletedAt>>

CheckExpiry(p) ==
    /\ pc[p] = "checkExpiry"
    /\ IF call[p].expiresAt < now
       THEN Fail(p, "ErrTokenExpired")
       ELSE Goto(p, "computeTTL")
    /\ UNCHANGED <<now, repo, cache, issued, deletedAt>>

FillTTL_Uncapped(expiresAt) == expiresAt - now

FillTTL_IgnoresExpiry(expiresAt) == MaxCacheTTL

\* min(s.maxCacheTTL, time.Until(expiresAt)), from a second clock reading.
FillTTL(expiresAt) ==
    IF expiresAt - now < MaxCacheTTL THEN expiresAt - now ELSE MaxCacheTTL

ComputeTTL(p) ==
    /\ pc[p] = "computeTTL"
    /\ pc' = [pc EXCEPT ![p] = "cacheSave"]
    /\ call' = [call EXCEPT ![p].ttl = FillTTL(call[p].expiresAt)]
    /\ UNCHANGED <<now, repo, cache, issued, deletedAt>>

\* A command whose answer was lost may be sent again by go-redis, and then
\* takes effect once more before the caller's next step.
Resend == UNCHANGED <<pc, call>>

\* An error of the cache is logged and the call succeeds all the same.
CacheSave(p) ==
    /\ pc[p] = "cacheSave"
    /\ \/ /\ InTime(p)
          /\ SetEntry(call[p].token, call[p].url, call[p].ttl)
          /\ Succeed(p) \/ Resend
       \/ /\ Succeed(p)
          /\ UNCHANGED cache
    /\ UNCHANGED <<now, repo, issued, deletedAt>>

-----------------------------------------------------------------------------
(***************************************************************************)
(* GenerateToken and CreateTokenWithOwner: both are createToken, one with  *)
(* a token the service draws and no owner, the other with a token of the   *)
(* client's choice, or a drawn one, and an owner.                          *)
(***************************************************************************)
EffectiveTTL_NoDefault(ttl) == ttl

EffectiveTTL(ttl) == IF ttl > 0 THEN ttl ELSE TokenTTL

\* createToken up to repo.SaveToken.  It refuses an unusable URL or token, or
\* fails to draw one, before it has touched either store.
CreateToken(p, owner, ttl) ==
    \/ \E t \in Token, u \in Url :
          Begin(p, "repoSave",
                [Blank EXCEPT !.op = "create", !.token = t, !.url = u,
                              !.expiresAt = now + EffectiveTTL(ttl),
                              !.user = owner, !.start = now])
    \/ \E error \in {"invalid", "internal"} :
          Begin(p, "done", [Blank EXCEPT !.op = "create", !.result = error])

GenerateToken(p) == CreateToken(p, Null, 0)

CreateTokenWithOwner(p) ==
    \E owner \in User, ttl \in RequestTTL : CreateToken(p, owner, ttl)

NewRow(p) == [token |-> call[p].token, url |-> call[p].url,
              expiresAt |-> call[p].expiresAt, owner |-> call[p].user]

RowSaved(p) ==
    /\ InTime(p)
    /\ Unique(call[p].token)
    /\ Insert(NewRow(p))
    /\ \/ Goto(p, "computeTTL")
       \/ Fail(p, "internal")               \* committed, answer lost

RowRefused_GoesOn(p) ==
    /\ InTime(p) /\ ~Unique(call[p].token)
    /\ Goto(p, "computeTTL")
    /\ UNCHANGED <<repo, issued>>

RowRefused(p) ==
    /\ InTime(p)
    /\ ~Unique(call[p].token)
    /\ Fail(p, "ErrTokenIsNotUnique")
    /\ UNCHANGED <<repo, issued>>

RowNotSaved_GoesOn(p) ==
    /\ Goto(p, "computeTTL")
    /\ UNCHANGED <<repo, issued>>

RowNotSaved(p) ==
    /\ Fail(p, "internal")
    /\ UNCHANGED <<repo, issued>>

RepoSave(p) ==
    /\ pc[p] = "repoSave"
    /\ RowSaved(p) \/ RowRefused(p) \/ RowNotSaved(p)
    /\ UNCHANGED <<now, cache, deletedAt>>

-----------------------------------------------------------------------------
(***************************************************************************)
(* DeleteToken                                                             *)
(***************************************************************************)
DeleteToken(p) ==
    \E t \in Token, u \in User :
        Begin(p, "checkOwner",
              [Blank EXCEPT !.op = "delete", !.token = t, !.user = u,
                            !.start = now])

CheckOwner_AnyUser(p) ==
    /\ pc[p] = "checkOwner"
    /\ InTime(p) /\ RowsOf(call[p].token) # {}
    /\ Goto(p, "cacheDelete")
    /\ UNCHANGED <<now, repo, cache, issued, deletedAt>>

\* repo.GetToken and bytes.Equal(token.OwnerID, requestingUserID).
CheckOwner(p) ==
    /\ pc[p] = "checkOwner"
    /\ \/ /\ InTime(p)
          /\ RowsOf(call[p].token) = {}
          /\ Succeed(p)
       \/ /\ InTime(p)
          /\ \E r \in RowsOf(call[p].token) :
                IF r.owner = call[p].user
                THEN Goto(p, "cacheDelete")
                ELSE Fail(p, "ErrNotTokenOwner")
       \/ Fail(p, "internal")
    /\ UNCHANGED <<now, repo, cache, issued, deletedAt>>

\* Unlike a failed fill, a failed cache deletion ends the call.
CacheDelete(p) ==
    /\ pc[p] = "cacheDelete"
    /\ \/ /\ InTime(p)
          /\ DeleteEntry(call[p].token)
          /\ \/ Goto(p, "repoDelete")
             \/ Fail(p, "internal")         \* deleted, answer lost
             \/ Resend
       \/ /\ Fail(p, "internal")
          /\ UNCHANGED cache
    /\ UNCHANGED <<now, repo, issued, deletedAt>>

RepoDelete(p) ==
    /\ pc[p] = "repoDelete"
    /\ \/ /\ InTime(p)
          /\ DeleteRows(call[p].token)
          /\ \/ Succeed(p)
             \/ Fail(p, "internal")         \* deleted, answer lost
       \/ /\ Fail(p, "internal")
          /\ UNCHANGED <<repo, deletedAt>>
    /\ UNCHANGED <<now, cache, issued>>

-----------------------------------------------------------------------------
\* The answer reaches the caller and the goroutine is free for another call.
Respond(p) ==
    /\ pc[p] = "done"
    /\ pc' = [pc EXCEPT ![p] = "idle"]
    /\ call' = [call EXCEPT ![p] = Blank]
    /\ UNCHANGED <<now, repo, cache, issued, deletedAt>>

\* Redis drops a key once the clock has passed its expiry.
Tick ==
    /\ now < MaxTime
    /\ now' = now + 1
    /\ cache' = {e \in cache : e.dies = NoExpiry \/ now + 1 <= e.dies}
    /\ UNCHANGED <<repo, pc, call, issued, deletedAt>>

(***************************************************************************)
(* The server process stops between two steps (a deployment, or a panic in *)
(* a handler's goroutine, which nothing recovers): the calls in flight are *)
(* gone, what they have written stays.                                     *)
(***************************************************************************)
Crash ==
    /\ \E p \in Proc : pc[p] # "idle"
    /\ pc' = [p \in Proc |-> "idle"]
    /\ call' = [p \in Proc |-> Blank]
    /\ UNCHANGED <<now, repo, cache, issued, deletedAt>>

\* allkeys-lfu under maxmemory, or a restart of a Redis that saves nothing.
CacheEvict ==
    /\ \E e \in cache : cache' = cache \ {e}
    /\ UNCHANGED <<now, repo, pc, call, issued, deletedAt>>

Step(p) ==
    \/ CacheGet(p) \/ RepoGet(p) \/ CheckExpiry(p)
    \/ ComputeTTL(p) \/ CacheSave(p)
    \/ RepoSave(p)
    \/ CheckOwner(p) \/ CacheDelete(p) \/ RepoDelete(p)

Request(p) ==
    \/ ResolveToken(p) \/ GenerateToken(p)
    \/ CreateTokenWithOwner(p) \/ DeleteToken(p)

Next ==
    \/ \E p \in Proc : Request(p) \/ Step(p) \/ Respond(p)
    \/ Tick
    \/ CacheEvict
    \/ Crash

Spec == Init /\ [][Next]_vars

-----------------------------------------------------------------------------
(***************************************************************************)
(* What holds.                                                             *)
(***************************************************************************)

\* Every variable has its type, and a call's fields are set by the time the
\* step that reads them runs: what repo.SaveToken, cache.SaveToken and
\* DeleteToken are handed is never nil.
TypeOK ==
    /\ now \in Nat
    /\ repo \subseteq URLToken
    /\ issued \subseteq URLToken
    /\ cache \subseteq Entry
    /\ deletedAt \in [Token -> Nat \cup {Never}]
    /\ pc \in [Proc -> {"idle", "done"} \cup ResolveStep \cup CreateStep
                          \cup FillStep \cup DeleteStep]
    /\ call \in [Proc -> Call]
    /\ \A p \in Proc :
          /\ pc[p] \in ResolveStep \cup CreateStep \cup FillStep \cup DeleteStep
                => call[p].token \in Token
          /\ pc[p] = "done" =>
                \/ call[p].token \in Token
                \/ call[p].op = "create" /\ call[p].result \in {"invalid", "internal"}
          /\ pc[p] \in CreateStep \cup FillStep \cup {"checkExpiry"}
                => call[p].url \in Url
          /\ pc[p] \in DeleteStep => call[p].user \in User

\* At most one row per token, however many createToken calls race to the
\* INSERT and however many DeleteToken calls clear the way for another.
TokenUnique ==
    \A r, s \in repo : r.token = s.token => r = s

\* The cache never disagrees with the table about a token nobody has deleted:
\* whatever ResolveToken and createToken calls wrote it, in whatever order,
\* the key maps to the URL of the token's only row.
CoherentUntilDeleted ==
    \A e \in cache :
        deletedAt[e.token] = Never
            => \E r \in repo : r.token = e.token /\ r.url = e.url

\* The rows a resolve of t may see: once t was deleted, any it ever had.
Visible(t) == {r \in (IF deletedAt[t] = Never THEN repo ELSE issued) : r.token = t}

\* The tokens that stay in the cache until they are evicted or overwritten.
Kept == {<<e.token, e.url>> : e \in {x \in cache : x.dies = NoExpiry}}

Hit(p) == pc[p] = "cacheGet"

\* The time of the row was not over when the request began; only a cache hit
\* looks past that, by no more than the life of one request unless the key is
\* one that has no expiry.
InLife(p, r) ==
    \/ call[p].start <= r.expiresAt
    \/ Hit(p) /\ now <= r.expiresAt + RequestLife
    \/ Hit(p) /\ <<r.token, r.url>> \in Kept

Answers(p, result) ==
    /\ pc[p] # "done" /\ pc'[p] = "done"
    /\ call[p].op = "resolve" /\ call'[p].result = result

\* What ResolveToken answers is honest when it is answered, be it from the
\* cache or the table: a URL is one the token was issued for, and the URL of
\* its row if the token was never deleted, and its time was not over, but for
\* what a cache hit overlooks; "expired" means that such a row is past its
\* time.
ResolveCorrect ==
    [][\A p \in Proc :
          /\ Answers(p, "ok") =>
                \E r \in Visible(call[p].token) : r.url = call'[p].url /\ InLife(p, r)
          /\ Answers(p, "ErrTokenExpired") =>
                \E r \in issued : r.token = call[p].token /\ r.expiresAt < now]_vars

CreateAnswer(p) ==
    pc[p] = "done" /\ call[p].op = "create" /\ call[p].result = "ok" =>
        \/ NewRow(p) \in repo
        \/ deletedAt[call[p].token] >= call[p].start

\* A createToken that reports success has left its row in the table, and only
\* a deletion since the call began can have removed it.
CreateAckMeansRow == \A p \in Proc : CreateAnswer(p)

\* No row of the table backs the cached entry.
Stale(e) == ~ \E r \in repo : r.token = e.token /\ r.url = e.url

\* A fill that raced DeleteToken may put the token back into the cache, but
\* an entry with an expiry cannot outlive the deletion by more than the rest
\* of the filling request plus Config.CacheTTL.
StalenessBounded ==
    \A e \in cache :
        Stale(e) /\ e.dies # NoExpiry
            => e.dies <= deletedAt[e.token] + RequestLife + MaxCacheTTL

\* The TTL handed to the cache is cut to the token's remaining life, so an
\* entry with an expiry outlives its token by less than one request; and an
\* entry without one was written for a token whose life was already over.
OverstayBounded ==
    \A e \in cache :
        \E r \in issued :
            /\ r.token = e.token
            /\ r.url = e.url
            /\ IF e.dies = NoExpiry
               THEN r.expiresAt <= now
               ELSE e.dies <= r.expiresAt + RequestLife

\* A row leaves the table only through the DeleteToken call of a user who has
\* owned the token: not through expiry, eviction, another user's call or a
\* call for a token without an owner.
RowDiesByFormerOwner ==
    [][\A r \in repo \ repo' :
          \E p \in Proc :
              /\ pc[p] = "repoDelete"
              /\ call[p].token = r.token
              /\ \E i \in issued : /\ i.token = r.token
                                   /\ i.owner = call[p].user
                                   /\ i.owner # Null]_vars

-----------------------------------------------------------------------------
(***************************************************************************)
(* The service as its callers see it.  The cache and the position within a *)
(* call are hidden; of a call's local variables only what the caller gave, *)
(* and the answer, are seen.                                               *)
(***************************************************************************)
PhaseOf(p) == CASE pc[p] \in {"idle", "done"} -> pc[p]
                [] pc[p] \in FillStep /\ call[p].op = "create" -> "saved"
                [] OTHER -> "asked"

JobOf(p) ==
    [phase |-> PhaseOf(p), op |-> call[p].op, token |-> call[p].token,
     url |-> IF call[p].op = "create" \/ pc[p] = "done" THEN call[p].url ELSE Null,
     expiresAt |-> IF call[p].op = "create" THEN call[p].expiresAt ELSE 0,
     user |-> call[p].user,
     since |-> IF call[p].op = "resolve" THEN call[p].start ELSE 0,
     result |-> call[p].result]

Registry == INSTANCE TokenRegistry
    WITH rows <- repo, history <- issued, job <- [p \in Proc |-> JobOf(p)],
         kept <- Kept, Slack <- RequestLife,
         Lifetime <- {EffectiveTTL(ttl) : ttl \in RequestTTL \cup {0}}

\* To its callers the service with its cache, its round trips and its several
\* looks at the clock behaves like the register: every call has its effect in
\* one step between request and answer, its answer is true of one moment in
\* between, an acknowledged deletion has deleted, and a token whose time ended
\* more than RequestLife before the request is resolved no more, unless its
\* key came into the cache without an expiry.
ImplementsRegistry == Registry!RegistrySpec

-----------------------------------------------------------------------------
(***************************************************************************)
(* The inductive invariant behind those properties, in named parts.        *)
(***************************************************************************)

\* url_tokens against its own history.
HistoryInv ==
    /\ repo \subseteq issued
    /\ \A r \in issued : deletedAt[r.token] = Never => r \in repo

\* No deletion lies in the future.
DeletedInv == \A t \in Token : deletedAt[t] <= now

\* No expiry in Redis is further away than Config.CacheTTL, and none has passed.
CacheLifeInv ==
    \A e \in cache : /\ e.dies <= now + MaxCacheTTL
                     /\ e.dies = NoExpiry \/ now <= e.dies

StoreInv ==
    /\ TokenUnique
    /\ HistoryInv
    /\ DeletedInv
    /\ CacheLifeInv
    /\ CoherentUntilDeleted
    /\ StalenessBounded
    /\ OverstayBounded

\* Which operation a step belongs to.
OpInv(p) ==
    /\ pc[p] \in ResolveStep => call[p].op = "resolve"
    /\ pc[p] \in DeleteStep  => call[p].op = "delete"

\* What a call holds between reading or inserting a row and saving it to the
\* cache: a row that was issued, and that is gone only if it was deleted after
\* the call began.
FillInv(p) ==
    pc[p] \in FillStep \cup {"checkExpiry"} =>
        /\ \E r \in issued : /\ r.token = call[p].token
                             /\ r.url = call[p].url
                             /\ r.expiresAt = call[p].expiresAt
        /\ \/ \E r \in repo : r.token = call[p].token /\ r.url = call[p].url
           \/ call[p].start <= deletedAt[call[p].token]

\* The same of a createToken call, for the very row it inserted.
CreateInv(p) ==
    pc[p] \in FillStep /\ call[p].op = "create" =>
        \/ NewRow(p) \in repo
        \/ deletedAt[call[p].token] >= call[p].start

\* The row a call fills the cache with had time left when the call began; and
\* the TTL it is about to hand to the cache.
SaveInv(p) ==
    /\ pc[p] \in CreateStep \cup FillStep => call[p].start <= call[p].expiresAt
    /\ pc[p] = "cacheSave" =>
          /\ call[p].ttl <= MaxCacheTTL
          /\ call[p].ttl <= call[p].expiresAt - call[p].start
          /\ call[p].ttl <= 0 => call[p].expiresAt <= now

\* A DeleteToken call past its ownership check was made by a user who has
\* owned the token.
OwnerInv(p) ==
    pc[p] \in {"cacheDelete", "repoDelete"} =>
        \E r \in issued : r.token = call[p].token /\ r.owner = call[p].user

CallInv(p) ==
    /\ call[p].start <= now
    /\ OpInv(p)
    /\ FillInv(p)
    /\ CreateInv(p)
    /\ SaveInv(p)
    /\ OwnerInv(p)
    /\ CreateAnswer(p)

IInv ==
    /\ TypeOK
    /\ StoreInv
    /\ \A p \in Proc : CallInv(p)

-----------------------------------------------------------------------------
(***************************************************************************)
(* What the repository's comments and tests say, and the code does not do. *)
(***************************************************************************)

\* "After DeleteToken successfully returns, the token no longer exists in the
\* database or cache": when the call's answer is ready, and no row was created
\* since, the cache holds nothing for the token.
DeleteClearsCache ==
    \A p \in Proc :
        /\ pc[p] = "done"
        /\ call[p].op = "delete"
        /\ call[p].result = "ok"
        /\ RowsOf(call[p].token) = {}
        => EntriesOf(call[p].token) = {}

\* "If token doesn't belong to requestingUser, returns ErrNotTokenOwner": no
\* user's DeleteToken removes the row of another user.
OnlyOwnerDeletes ==
    [][\A r \in repo \ repo' : r.owner # Null =>
          \E p \in Proc : /\ pc[p] = "repoDelete"
                          /\ call[p].token = r.token
                          /\ call[p].user = r.owner]_vars

\* "CacheTTL // default: 10 minutes": every cached token expires.
CacheEntriesExpire ==
    \A e \in cache : e.dies # NoExpiry

=============================================================================
