--------------------------- MODULE TokenRegistry ---------------------------
(***************************************************************************)
(* What the shortener service promises its callers (service.go), without a *)
(* cache, without round trips and without a second look at the clock: a    *)
(* register of tokens.  A call takes effect, if it does, in one step       *)
(* between its request and its answer, and its answer reflects the         *)
(* register as it is in one step.                                          *)
(*                                                                         *)
(* Three things the code does not keep of what service.go says are part of *)
(* the promise as it is.  After a token was deleted, a resolve may answer  *)
(* with any row the token ever had.  A delete removes the row of whoever   *)
(* holds the token by then, though it asks that the caller has owned the   *)
(* token.  And a token past its time is still resolved for as long as      *)
(* Slack, or, when it came to be kept around the end of its time, until it *)
(* is forgotten.                                                           *)
(***************************************************************************)
EXTENDS Integers

CONSTANTS
    Proc,      \* goroutines that serve calls
    Token,     \* tokens
    Url,       \* normalized URLs
    User,      \* IDs of users
    Lifetime,  \* lifetimes of tokens, the default included
    Slack,     \* how long past its time a token may still be resolved
    MaxTime,   \* bound on the clock, for model checking
    Null       \* no value

VARIABLES
    now,        \* the clock
    rows,       \* the tokens there are
    history,    \* every row there ever was
    deletedAt,  \* when a row of the token was last deleted
    job,        \* job[p]: the call p serves
    kept        \* tokens, with a URL, that are resolved whatever their time

\* All but kept, which changes beside the steps of calls.
registryVars == <<now, rows, history, deletedAt, job>>

Row == [token : Token, url : Url, expiresAt : Nat, owner : User \cup {Null}]

Never == -1

NoJob == [phase |-> "idle", op |-> Null, token |-> Null, url |-> Null,
          expiresAt |-> 0, user |-> Null, since |-> 0, result |-> Null]

RegistryInit ==
    /\ now = 0
    /\ rows = {}
    /\ history = {}
    /\ deletedAt = [t \in Token |-> Never]
    /\ job = [p \in Proc |-> NoJob]

RowsOf(t) == {r \in rows : r.token = t}

\* The rows a resolve of t may still see.
Known(t) == IF deletedAt[t] = Never
            THEN RowsOf(t) ELSE {r \in history : r.token = t}

RowOf(j) == [token |-> j.token, url |-> j.url, expiresAt |-> j.expiresAt,
             owner |-> j.user]

-----------------------------------------------------------------------------
Ask(p, newJob) ==
    /\ job[p].phase = "idle"
    /\ job' = [job EXCEPT ![p] = newJob]
    /\ UNCHANGED <<now, rows, history, deletedAt>>

AskCreate(p, t, u, life, owner) ==
    Ask(p, [NoJob EXCEPT !.phase = "asked", !.op = "create", !.token = t,
                         !.url = u, !.expiresAt = now + life, !.user = owner])

\* An unusable URL or token, or no randomness to draw one.
Refuse(p) ==
    \E error \in {"invalid", "internal"} :
        Ask(p, [NoJob EXCEPT !.phase = "done", !.op = "create", !.result = error])

AskResolve(p, t) ==
    Ask(p, [NoJob EXCEPT !.phase = "asked", !.op = "resolve", !.token = t,
                         !.since = now])

AskDelete(p, t, user) ==
    Ask(p, [NoJob EXCEPT !.phase = "asked", !.op = "delete", !.token = t,
                         !.user = user])

Asked(p, op) == job[p].phase = "asked" /\ job[p].op = op

Succeed(p) == job' = [job EXCEPT ![p].phase = "done", ![p].result = "ok"]

\* What the call was about is forgotten but for its token.
Fail(p, error) ==
    job' = [job EXCEPT ![p] = [NoJob EXCEPT !.phase = "done", !.op = job[p].op,
                                           !.token = job[p].token,
                                           !.result = error]]

-----------------------------------------------------------------------------
\* The row is in the register from this step on, whatever the caller hears.
Create(p) ==
    /\ Asked(p, "create") /\ RowsOf(job[p].token) = {}
    /\ rows' = rows \cup {RowOf(job[p])}
    /\ history' = history \cup {RowOf(job[p])}
    /\ job' = [job EXCEPT ![p].phase = "saved"] \/ Fail(p, "internal")
    /\ UNCHANGED <<now, deletedAt>>

Created(p) ==
    /\ job[p].phase = "saved"
    /\ Succeed(p)
    /\ UNCHANGED <<now, rows, history, deletedAt>>

AlreadyTaken(p) ==
    /\ Asked(p, "create") /\ RowsOf(job[p].token) # {}
    /\ Fail(p, "ErrTokenIsNotUnique")
    /\ UNCHANGED <<now, rows, history, deletedAt>>

\* A row that a resolve asked for at this time may answer with.
Answerable(r, since) ==
    since <= r.expiresAt + Slack \/ <<r.token, r.url>> \in kept

Resolve(p) ==
    /\ Asked(p, "resolve")
    /\ \/ \E r \in Known(job[p].token) :
             /\ Answerable(r, job[p].since)
             /\ job' = [job EXCEPT ![p].phase = "done", ![p].url = r.url,
                                   ![p].result = "ok"]
       \/ /\ RowsOf(job[p].token) = {}
          /\ Fail(p, "ErrTokenDoesNotExist")
       \/ /\ \E r \in Known(job[p].token) : r.expiresAt < now
          /\ Fail(p, "ErrTokenExpired")
    /\ UNCHANGED <<now, rows, history, deletedAt>>

HasOwned(user, t) == \E r \in history : r.token = t /\ r.owner = user

Delete(p) ==
    /\ Asked(p, "delete") /\ HasOwned(job[p].user, job[p].token)
    /\ rows' = {r \in rows : r.token # job[p].token}
    /\ deletedAt' = IF RowsOf(job[p].token) = {} THEN deletedAt
                    ELSE [deletedAt EXCEPT ![job[p].token] = now]
    /\ Succeed(p) \/ Fail(p, "internal")
    /\ UNCHANGED <<now, history>>

NothingToDelete(p) ==
    /\ Asked(p, "delete") /\ RowsOf(job[p].token) = {}
    /\ Succeed(p)
    /\ UNCHANGED <<now, rows, history, deletedAt>>

NotOwner(p) ==
    /\ Asked(p, "delete")
    /\ \E r \in RowsOf(job[p].token) : r.owner # job[p].user
    /\ Fail(p, "ErrNotTokenOwner")
    /\ UNCHANGED <<now, rows, history, deletedAt>>

\* A store cannot be reached, or the context of the request has ended.
Break(p) ==
    /\ job[p].phase = "asked"
    /\ Fail(p, "internal")
    /\ UNCHANGED <<now, rows, history, deletedAt>>

Answer(p) ==
    /\ job[p].phase = "done"
    /\ job' = [job EXCEPT ![p] = NoJob]
    /\ UNCHANGED <<now, rows, history, deletedAt>>

Tick ==
    /\ now < MaxTime
    /\ now' = now + 1
    /\ UNCHANGED <<rows, history, deletedAt, job>>

\* The process stops, and with it every call.
Crash ==
    /\ \E p \in Proc : job[p].phase # "idle"
    /\ job' = [p \in Proc |-> NoJob]
    /\ UNCHANGED <<now, rows, history, deletedAt>>

Request(p) == job[p].phase = "idle" /\
    \/ \E t \in Token, u \in Url, life \in Lifetime, owner \in User \cup {Null} :
          AskCreate(p, t, u, life, owner)
    \/ Refuse(p)
    \/ \E t \in Token : AskResolve(p, t)
    \/ \E t \in Token, user \in User : AskDelete(p, t, user)

Serve(p) == job[p].phase \in {"asked", "saved"} /\
    \/ Create(p) \/ Created(p) \/ AlreadyTaken(p)
    \/ Resolve(p)
    \/ Delete(p) \/ NothingToDelete(p) \/ NotOwner(p)
    \/ Break(p)

CallStep ==
    \/ \E p \in Proc : Request(p) \/ Serve(p) \/ Answer(p)
    \/ Tick
    \/ Crash

\* Tokens whose time ends now, or has ended no more than Slack ago.
Ending == {<<r.token, r.url>> :
              r \in {i \in history : i.expiresAt <= now /\ now <= i.expiresAt + Slack}}

\* Only such a token comes to be kept; any may be forgotten.
Keep == kept' \subseteq kept \cup Ending

RegistryNext == [CallStep]_registryVars /\ Keep

RegistrySpec ==
    /\ RegistryInit
    /\ kept = {}
    /\ [][RegistryNext]_<<registryVars, kept>>

=============================================================================
