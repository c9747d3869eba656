-------------------------------- MODULE Auth --------------------------------
(***************************************************************************)
(* The auth service (internal/services/auth) and its tables: accounts,     *)
(* sessions (a row of refresh_tokens each) and the access tokens that are  *)
(* signed for them and that the server itself does not remember.           *)
(*                                                                         *)
(* As in Shortener each round trip to Postgres and each reading of the     *)
(* clock is an action, and a round trip is answered, fails without effect, *)
(* or takes effect while its answer is lost.  Here it may do so at any     *)
(* time: no property depends on the deadline of the request.               *)
(*                                                                         *)
(* A refresh token stands for its hash.  A client presents one that a      *)
(* Login has handed out, or Null: one that no row matches.                 *)
(*                                                                         *)
(* A definition named D_X is D with one plausible slip in it.              *)
(***************************************************************************)
EXTENDS Integers

CONSTANTS
    Proc,             \* goroutines that serve calls
    LoginName,        \* logins that clients choose
    Password,         \* passwords that clients choose
    UserID,           \* ids the database draws for users
    TokenHash,        \* hashes of the refresh tokens the service draws
    RefreshTokenTTL,  \* Config.RefreshTokenTTL
    AccessTokenTTL,   \* Config.AccessTokenTTL
    Second,           \* ticks of the clock in a second
    MaxTime,          \* bound on the clock, for model checking
    Null              \* no value

ASSUME TTLAssumption ==
    /\ RefreshTokenTTL \in Nat
    /\ Second \in Nat \ {0}
    /\ AccessTokenTTL \in Nat
    /\ AccessTokenTTL + 1 >= Second   \* what is left of a life cut to seconds
    /\ MaxTime \in Nat

ASSUME NullAssumption == Null \notin LoginName \cup Password \cup UserID \cup TokenHash

VARIABLES
    now,            \* the clock
    users,          \* rows of users
    sessions,       \* rows of refresh_tokens
    pc,             \* pc[p]: the next step of the call p serves
    call,           \* call[p]: arguments and local variables of that call
    refreshTokens,  \* refresh tokens that clients have been given
    accessTokens    \* access tokens that clients have been given

vars == <<now, users, sessions, pc, call, refreshTokens, accessTokens>>

tables  == <<users, sessions>>
clients == <<refreshTokens, accessTokens>>

UserInRepo == [id : UserID, login : LoginName, password : Password]

Never == -1

RefreshTokenInRepo == [hash : TokenHash, user : UserID, expiresAt : Nat,
                       revokedAt : Nat \cup {Never}]

\* The claims of a JWT.  The session is auxiliary: the claims do not name it.
JWTclaims == [user : UserID, exp : Nat, session : TokenHash]

Result == {"ok", "invalid", "internal", "ErrLoginNotUnique",
           "ErrInvalidCredentials", "ErrInvalidToken"}

Call == [op        : {"register", "login", "logout", "refresh",
                      "authenticate", Null},
         login     : LoginName \cup {Null},
         password  : Password \cup {Null},
         user      : UserID \cup {Null},
         token     : TokenHash \cup {Null},
         expiresAt : Nat,                  \* of the session
         exp       : Nat,                  \* of the access token
         start     : Nat,                  \* auxiliary: when the call began
         dead      : SUBSET TokenHash,     \* auxiliary: revoked by then
         result    : Result \cup {Null}]

Blank == [op |-> Null, login |-> Null, password |-> Null, user |-> Null,
          token |-> Null, expiresAt |-> 0, exp |-> 0, start |-> 0,
          dead |-> {}, result |-> Null]

Step == {"idle", "saveUser", "getUser", "issueRefreshToken",
         "saveRefreshToken", "issueAccessToken", "revoke",
         "getRefreshToken", "checkExpiry", "authenticate", "done"}

Init ==
    /\ now = 0
    /\ users = {}
    /\ sessions = {}
    /\ pc = [p \in Proc |-> "idle"]
    /\ call = [p \in Proc |-> Blank]
    /\ refreshTokens = {}
    /\ accessTokens = {}

-----------------------------------------------------------------------------
Revoked == {s.hash : s \in {r \in sessions : r.revokedAt # Never}}

Begin(p, step, newCall) ==
    /\ pc[p] = "idle"
    /\ pc' = [pc EXCEPT ![p] = step]
    /\ call' = [call EXCEPT ![p] = [newCall EXCEPT !.start = now,
                                                  !.dead = Revoked]]
    /\ UNCHANGED <<now, tables, clients>>

Goto(p, step) ==
    /\ pc' = [pc EXCEPT ![p] = step]
    /\ UNCHANGED call

Succeed(p) ==
    /\ pc' = [pc EXCEPT ![p] = "done"]
    /\ call' = [call EXCEPT ![p].result = "ok"]

Fail(p, error) ==
    /\ pc' = [pc EXCEPT ![p] = "done"]
    /\ call' = [call EXCEPT ![p] = [Blank EXCEPT !.op = call[p].op,
                                                !.result = error]]

-----------------------------------------------------------------------------
(***************************************************************************)
(* Register                                                                *)
(***************************************************************************)

\* Refused before the database hears of it: an empty or too long login, an
\* empty password or one bcrypt cannot take.
Register(p) ==
    \/ \E l \in LoginName, pw \in Password :
          Begin(p, "saveUser", [Blank EXCEPT !.op = "register", !.login = l,
                                             !.password = pw])
    \/ Begin(p, "done", [Blank EXCEPT !.op = "register", !.result = "invalid"])

LoginFree_NoConstraint(login) == TRUE

\* The UNIQUE constraint on users.login.
LoginFree(login) == \A u \in users : u.login # login

NewUser(p, id) == [id |-> id, login |-> call[p].login, password |-> call[p].password]

\* The row is inserted under an id that no other row has.
UserSaved(p) ==
    /\ LoginFree(call[p].login)
    /\ \E id \in UserID \ {u.id : u \in users} :
          /\ users' = users \cup {NewUser(p, id)}
          /\ \/ /\ pc' = [pc EXCEPT ![p] = "done"]
                /\ call' = [call EXCEPT ![p].user = id, ![p].result = "ok"]
             \/ Fail(p, "internal")         \* committed, answer lost

UserRefused(p) ==
    /\ ~LoginFree(call[p].login)
    /\ Fail(p, "ErrLoginNotUnique")
    /\ UNCHANGED users

UserNotSaved_GoesOn(p) == Succeed(p) /\ UNCHANGED users

UserNotSaved(p) == Fail(p, "internal") /\ UNCHANGED users

SaveUser(p) ==
    /\ pc[p] = "saveUser"
    /\ UserSaved(p) \/ UserRefused(p) \/ UserNotSaved(p)
    /\ UNCHANGED <<now, sessions, clients>>

-----------------------------------------------------------------------------
(***************************************************************************)
(* Login                                                                   *)
(***************************************************************************)
Login(p) ==
    \E l \in LoginName, pw \in Password :
        Begin(p, "getUser", [Blank EXCEPT !.op = "login", !.login = l,
                                          !.password = pw])

PasswordMatches_Any(row, password) == TRUE

PasswordMatches(row, password) == row.password = password

\* repo.GetUser and passwordMatchesHash.
GetUser(p) ==
    /\ pc[p] = "getUser"
    /\ \/ \E u \in users :
             /\ u.login = call[p].login
             /\ IF PasswordMatches(u, call[p].password)
                THEN /\ pc' = [pc EXCEPT ![p] = "issueRefreshToken"]
                     /\ call' = [call EXCEPT ![p].user = u.id]
                ELSE Fail(p, "ErrInvalidCredentials")
       \/ /\ LoginFree(call[p].login)
          /\ Fail(p, "ErrInvalidCredentials")
       \/ Fail(p, "internal")
    /\ UNCHANGED <<now, tables, clients>>

\* uuid.NewRandom, and the clock.  Nothing here makes two draws differ.
IssueRefreshToken(p) ==
    /\ pc[p] = "issueRefreshToken"
    /\ \/ /\ \E h \in TokenHash :
                call' = [call EXCEPT ![p].token = h,
                                     ![p].expiresAt = now + RefreshTokenTTL]
          /\ pc' = [pc EXCEPT ![p] = "saveRefreshToken"]
       \/ Fail(p, "internal")
    /\ UNCHANGED <<now, tables, clients>>

HashFree_NoConstraint(hash) == TRUE

\* The UNIQUE constraint on refresh_tokens.token_hash.
HashFree(hash) == \A s \in sessions : s.hash # hash

UserExists(id) == \E u \in users : u.id = id

NewSession(p) == [hash |-> call[p].token, user |-> call[p].user,
                  expiresAt |-> call[p].expiresAt, revokedAt |-> Never]

SessionSaved(p) ==
    /\ HashFree(call[p].token) /\ UserExists(call[p].user)
    /\ sessions' = sessions \cup {NewSession(p)}
    /\ \/ Goto(p, "issueAccessToken")
       \/ Fail(p, "internal")               \* committed, answer lost

SessionNotSaved_GoesOn(p) == Goto(p, "issueAccessToken") /\ UNCHANGED sessions

\* Any error, a violated constraint included.
SessionNotSaved(p) == Fail(p, "internal") /\ UNCHANGED sessions

SaveRefreshToken(p) ==
    /\ pc[p] = "saveRefreshToken"
    /\ SessionSaved(p) \/ SessionNotSaved(p)
    /\ UNCHANGED <<now, users, clients>>

(***************************************************************************)
(* The JWT's expiry is cut to whole seconds.  Where in its second the      *)
(* clock stands is left open.                                              *)
(***************************************************************************)
IssueAccessToken(p) ==
    /\ pc[p] = "issueAccessToken"
    /\ \E cut \in 0..(Second - 1) :
          call' = [call EXCEPT ![p].exp = now + AccessTokenTTL - cut,
                               ![p].result = "ok"]
    /\ pc' = [pc EXCEPT ![p] = "done"]
    /\ UNCHANGED <<now, tables, clients>>

-----------------------------------------------------------------------------
(***************************************************************************)
(* Logout                                                                  *)
(***************************************************************************)
Presented == refreshTokens \cup {Null}

Logout(p) ==
    \E t \in Presented :
        Begin(p, "revoke", [Blank EXCEPT !.op = "logout", !.token = t])

Stamp_Again(s) == [s EXCEPT !.revokedAt = now]

\* SET revoked_at = NOW() ... AND revoked_at IS NULL
Stamp(s) == IF s.revokedAt = Never THEN [s EXCEPT !.revokedAt = now] ELSE s

SessionRevoked(p) ==
    /\ sessions' = {IF s.hash = call[p].token THEN Stamp(s) ELSE s : s \in sessions}
    /\ Succeed(p) \/ Fail(p, "internal")    \* committed, answer lost

SessionNotRevoked_GoesOn(p) == Succeed(p) /\ UNCHANGED sessions

SessionNotRevoked(p) == Fail(p, "internal") /\ UNCHANGED sessions

\* No row to revoke is not an error.
RevokeRefreshToken(p) ==
    /\ pc[p] = "revoke"
    /\ SessionRevoked(p) \/ SessionNotRevoked(p)
    /\ UNCHANGED <<now, users, clients>>

-----------------------------------------------------------------------------
(***************************************************************************)
(* Refresh                                                                 *)
(***************************************************************************)
Refresh(p) ==
    \E t \in Presented :
        Begin(p, "getRefreshToken", [Blank EXCEPT !.op = "refresh", !.token = t])

MayRefresh_Revoked(s) == TRUE

\* refreshToken.RevokedAt == nil
MayRefresh(s) == s.revokedAt = Never

GetRefreshToken(p) ==
    /\ pc[p] = "getRefreshToken"
    /\ \/ \E s \in sessions :
             /\ s.hash = call[p].token
             /\ IF MayRefresh(s)
                THEN /\ pc' = [pc EXCEPT ![p] = "checkExpiry"]
                     /\ call' = [call EXCEPT ![p].user = s.user,
                                             ![p].expiresAt = s.expiresAt]
                ELSE Fail(p, "ErrInvalidToken")
       \/ /\ HashFree(call[p].token)
          /\ Fail(p, "ErrInvalidToken")
       \/ Fail(p, "internal")
    /\ UNCHANGED <<now, tables, clients>>

CheckExpiry(p) ==
    /\ pc[p] = "checkExpiry"
    /\ IF call[p].expiresAt < now
       THEN Fail(p, "ErrInvalidToken")
       ELSE Goto(p, "issueAccessToken")
    /\ UNCHANGED <<now, tables, clients>>

-----------------------------------------------------------------------------
(***************************************************************************)
(* Authenticate: the signature and the expiry, no round trip.              *)
(***************************************************************************)
PresentJWT(p) ==
    \/ \E a \in accessTokens :
          Begin(p, "authenticate", [Blank EXCEPT !.op = "authenticate",
                                                 !.user = a.user,
                                                 !.exp = a.exp,
                                                 !.token = a.session])
    \/ Begin(p, "done", [Blank EXCEPT !.op = "authenticate",
                                      !.result = "ErrInvalidToken"])

Authenticate_NoExpiry(p) ==
    /\ pc[p] = "authenticate"
    /\ Succeed(p)
    /\ UNCHANGED <<now, tables, clients>>

Authenticate(p) ==
    /\ pc[p] = "authenticate"
    /\ IF call[p].exp < now THEN Fail(p, "ErrInvalidToken") ELSE Succeed(p)
    /\ UNCHANGED <<now, tables, clients>>

-----------------------------------------------------------------------------
\* The tokens an answer carries.
RefreshTokensOf(c) == IF c.op = "login" /\ c.result = "ok" THEN {c.token} ELSE {}

AccessTokensOf_IgnoresError(c) ==
    IF c.op \in {"login", "refresh"}
    THEN {[user |-> c.user, exp |-> c.exp, session |-> c.token]}
    ELSE {}

AccessTokensOf(c) ==
    IF c.op \in {"login", "refresh"} /\ c.result = "ok"
    THEN {[user |-> c.user, exp |-> c.exp, session |-> c.token]}
    ELSE {}

\* The answer reaches the client, or is lost: the connection breaks, or the
\* request's timeout has answered in its place.
Respond(p) ==
    /\ pc[p] = "done"
    /\ \/ /\ refreshTokens' = refreshTokens \cup RefreshTokensOf(call[p])
          /\ accessTokens' = accessTokens \cup AccessTokensOf(call[p])
       \/ UNCHANGED clients
    /\ pc' = [pc EXCEPT ![p] = "idle"]
    /\ call' = [call EXCEPT ![p] = Blank]
    /\ UNCHANGED <<now, tables>>

Tick ==
    /\ now < MaxTime
    /\ now' = now + 1
    /\ UNCHANGED <<tables, pc, call, clients>>

\* The server process stops: the calls in flight are gone.
Crash ==
    /\ \E p \in Proc : pc[p] # "idle"
    /\ pc' = [p \in Proc |-> "idle"]
    /\ call' = [p \in Proc |-> Blank]
    /\ UNCHANGED <<now, tables, clients>>

Request(p) ==
    Register(p) \/ Login(p) \/ Logout(p) \/ Refresh(p) \/ PresentJWT(p)

Serve(p) ==
    \/ SaveUser(p)
    \/ GetUser(p) \/ IssueRefreshToken(p) \/ SaveRefreshToken(p)
    \/ RevokeRefreshToken(p)
    \/ GetRefreshToken(p) \/ CheckExpiry(p)
    \/ IssueAccessToken(p)
    \/ Authenticate(p)

Next ==
    \/ \E p \in Proc : Request(p) \/ Serve(p) \/ Respond(p)
    \/ Tick
    \/ Crash

Spec == Init /\ [][Next]_vars

-----------------------------------------------------------------------------
(***************************************************************************)
(* What holds.                                                             *)
(***************************************************************************)

\* Which operation a step belongs to.
OpInv(p) ==
    /\ pc[p] = "idle" => call[p].op = Null
    /\ pc[p] = "saveUser" => call[p].op = "register"
    /\ pc[p] \in {"getUser", "issueRefreshToken", "saveRefreshToken"}
          => call[p].op = "login"
    /\ pc[p] = "issueAccessToken" => call[p].op \in {"login", "refresh"}
    /\ pc[p] \in {"getRefreshToken", "checkExpiry"} => call[p].op = "refresh"
    /\ pc[p] = "revoke" => call[p].op = "logout"
    /\ pc[p] = "authenticate" => call[p].op = "authenticate"

\* Every variable has its type; a session that is saved has an owner, and a
\* token that is signed a subject.
TypeOK ==
    /\ now \in Nat
    /\ users \subseteq UserInRepo
    /\ sessions \subseteq RefreshTokenInRepo
    /\ pc \in [Proc -> Step]
    /\ call \in [Proc -> Call]
    /\ refreshTokens \subseteq TokenHash
    /\ accessTokens \subseteq JWTclaims
    /\ \A p \in Proc :
          /\ OpInv(p)
          /\ pc[p] \in {"saveUser", "getUser"}
                => call[p].login \in LoginName /\ call[p].password \in Password
          /\ pc[p] \in {"issueRefreshToken", "saveRefreshToken", "checkExpiry",
                        "issueAccessToken", "authenticate"}
                => call[p].user \in UserID
          /\ pc[p] \in {"saveRefreshToken", "issueAccessToken", "checkExpiry",
                        "authenticate"}
                => call[p].token \in TokenHash
          /\ pc[p] = "done" /\ call[p].result = "ok"
             /\ call[p].op \in {"login", "refresh", "authenticate"}
                => call[p].user \in UserID /\ call[p].token \in TokenHash

\* A login and an id name one account each, however many Register calls race.
AccountUnique ==
    \A u, v \in users : u.login = v.login \/ u.id = v.id => u = v

\* One session per refresh token, though nothing makes two draws differ.
SessionUnique ==
    \A r, s \in sessions : r.hash = s.hash => r = s

RegisterAnswer(p) ==
    pc[p] = "done" /\ call[p].op = "register" /\ call[p].result = "ok" =>
        NewUser(p, call[p].user) \in users

\* A Register that reports success has created the account, with the password
\* of this very call: the loser of a race never believes that it has won.
RegisterAckMeansAccount == \A p \in Proc : RegisterAnswer(p)

\* The call was made with the login and the password of the user it serves.
Credentialed(p) == NewUser(p, call[p].user) \in users

LoginAnswer(p) ==
    pc[p] = "done" /\ call[p].op = "login" /\ call[p].result = "ok" =>
        /\ Credentialed(p)
        /\ \E s \in sessions : /\ s.hash = call[p].token
                               /\ s.user = call[p].user
                               /\ s.revokedAt = Never

\* A Login that reports success was made with the account's password, and the
\* session it hands out is in the table, belongs to that account and is not
\* revoked yet, whatever other calls have done meanwhile.
LoginAckMeansSession == \A p \in Proc : LoginAnswer(p)

RefreshAnswer(p) ==
    pc[p] = "done" /\ call[p].op = "refresh" /\ call[p].result = "ok" =>
        /\ call[p].token \notin call[p].dead
        /\ \E s \in sessions : /\ s.hash = call[p].token
                               /\ s.user = call[p].user
                               /\ s.expiresAt >= call[p].start

\* An access token is renewed only for a session that was neither revoked nor
\* expired when the Refresh call began, and for the user of that session.
RefreshNeedsSession == \A p \in Proc : RefreshAnswer(p)

AuthenticateAnswer(p) ==
    pc[p] = "done" /\ call[p].op = "authenticate" /\ call[p].result = "ok" =>
        /\ call[p].exp >= call[p].start
        /\ \E s \in sessions : /\ s.hash = call[p].token
                               /\ s.user = call[p].user

\* Authenticate answers with a user only for an access token that had not
\* expired when the call began and that was issued for a session of that user.
AuthenticateNeedsGrant == \A p \in Proc : AuthenticateAnswer(p)

LogoutAnswer(p) ==
    pc[p] = "done" /\ call[p].op = "logout" /\ call[p].result = "ok" =>
        \A s \in sessions : s.hash = call[p].token => s.revokedAt # Never

\* A Logout that reports success has revoked the session.
LogoutAckMeansRevoked == \A p \in Proc : LogoutAnswer(p)

\* A session never goes away or changes hands, and the time of its revocation
\* is that of the first Logout, however often it is repeated.
RevocationFinal ==
    [][\A s \in sessions :
          \/ s \in sessions'
          \/ s.revokedAt = Never /\ [s EXCEPT !.revokedAt = now] \in sessions']_vars

-----------------------------------------------------------------------------
(***************************************************************************)
(* The inductive invariant behind those properties, in named parts.        *)
(***************************************************************************)

TableInv ==
    /\ AccountUnique
    /\ SessionUnique

\* What clients hold, they hold for a session in the table.
ClientInv ==
    /\ \A t \in refreshTokens : \E s \in sessions : s.hash = t
    /\ \A a \in accessTokens :
          /\ a.session \in refreshTokens
          /\ \E s \in sessions : s.hash = a.session /\ s.user = a.user

\* What was revoked when the call began is revoked still.
DeadInv(p) == call[p].dead \subseteq Revoked

\* Calls other than Login speak of tokens that clients have been given.
KnownInv(p) ==
    /\ call[p].op \in {"logout", "refresh", "authenticate"}
           => call[p].token \in Presented

\* A Login past its password check.
LoginInv(p) ==
    pc[p] \in {"issueRefreshToken", "saveRefreshToken", "issueAccessToken"}
    /\ call[p].op = "login" => Credentialed(p)

\* The Login call has saved its session, and has not answered with an error.
HasSession(p) ==
    /\ call[p].op = "login"
    /\ \/ pc[p] = "issueAccessToken"
       \/ pc[p] = "done" /\ call[p].result = "ok"

\* Its session is in the table, unrevoked, and no client knows of it yet.
FreshInv(p) ==
    HasSession(p) =>
        /\ \E s \in sessions : /\ s.hash = call[p].token
                               /\ s.user = call[p].user
                               /\ s.revokedAt = Never
        /\ call[p].token \notin refreshTokens

\* No two Login calls have saved the same session.
DistinctInv ==
    \A p, q \in Proc :
        p # q /\ HasSession(p) /\ HasSession(q) => call[p].token # call[q].token

\* A Refresh past its look at the row.
RefreshInv(p) ==
    pc[p] \in {"checkExpiry", "issueAccessToken"} /\ call[p].op = "refresh" =>
        /\ call[p].token \notin call[p].dead
        /\ \E s \in sessions : /\ s.hash = call[p].token
                               /\ s.user = call[p].user
                               /\ s.expiresAt = call[p].expiresAt
        /\ pc[p] = "issueAccessToken" => call[p].expiresAt >= call[p].start

AuthenticateInv(p) ==
    pc[p] = "authenticate" =>
        \E s \in sessions : s.hash = call[p].token /\ s.user = call[p].user

CallInv(p) ==
    /\ call[p].start <= now
    /\ DeadInv(p)
    /\ KnownInv(p)
    /\ LoginInv(p)
    /\ FreshInv(p)
    /\ RefreshInv(p)
    /\ AuthenticateInv(p)
    /\ RegisterAnswer(p)
    /\ LoginAnswer(p)
    /\ RefreshAnswer(p)
    /\ AuthenticateAnswer(p)
    /\ LogoutAnswer(p)

IInv ==
    /\ TypeOK
    /\ TableInv
    /\ ClientInv
    /\ DistinctInv
    /\ \A p \in Proc : CallInv(p)

=============================================================================
