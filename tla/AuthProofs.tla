----------------------------- MODULE AuthProofs -----------------------------
(***************************************************************************)
(* Proofs about Auth, for every value of its constants.                    *)
(***************************************************************************)
EXTENDS Auth, TLAPS

-----------------------------------------------------------------------------
(***************************************************************************)
(* Type correctness.                                                       *)
(***************************************************************************)
LEMMA BlankType == Blank \in Call
BY DEF Blank, Call

\* What TypeOK says of a single call.
CallType(p) ==
    /\ pc[p] \in Step
    /\ call[p] \in Call
    /\ OpInv(p)
    /\ pc[p] \in {"saveUser", "getUser"}
          => call[p].login \in LoginName /\ call[p].password \in Password
    /\ pc[p] \in {"issueRefreshToken", "saveRefreshToken", "checkExpiry",
                  "issueAccessToken", "authenticate"}
          => call[p].user \in UserID
    /\ pc[p] \in {"saveRefreshToken", "issueAccessToken", "checkExpiry",
                  "authenticate"}
          => call[p].token \in TokenHash
    /\ pc[p] = "done" /\ call[p].result = "ok"
       /\ call[p].op \in {"login", "refresh", "authenticate"}
          => call[p].user \in UserID /\ call[p].token \in TokenHash

TablesType ==
    /\ now \in Nat
    /\ users \subseteq UserInRepo
    /\ sessions \subseteq RefreshTokenInRepo
    /\ refreshTokens \subseteq TokenHash
    /\ accessTokens \subseteq JWTclaims

\* A step of p writes p's entries of pc and call and no other.
Frame(p) ==
    /\ pc' = [pc EXCEPT ![p] = pc'[p]]
    /\ call' = [call EXCEPT ![p] = call'[p]]

Others(p) == \A q \in Proc \ {p} : pc'[q] = pc[q] /\ call'[q] = call[q]

LEMMA FrameType ==
    ASSUME TypeOK, TablesType', NEW p \in Proc, Frame(p), CallType(p)'
    PROVE  TypeOK' /\ Others(p)
<1>1. ASSUME NEW q \in Proc PROVE CallType(q)'
  BY <1>1 DEF Frame, CallType, TypeOK, OpInv
<1>2. /\ pc' \in [Proc -> Step]
      /\ call' \in [Proc -> Call]
  BY DEF Frame, CallType, TypeOK
<1>3. QED
  BY <1>1, <1>2 DEF TypeOK, TablesType, CallType, Frame, Others

\* What the end of a call, in success or failure, and a step within it leave.
LEMMA SucceedFrame ==
    ASSUME TypeOK, NEW p \in Proc, Succeed(p)
    PROVE  /\ Frame(p)
           /\ pc'[p] = "done"
           /\ call'[p] \in Call
           /\ call'[p].result = "ok"
           /\ call'[p].op = call[p].op
           /\ call'[p].login = call[p].login
           /\ call'[p].password = call[p].password
           /\ call'[p].user = call[p].user
           /\ call'[p].token = call[p].token
           /\ call'[p].expiresAt = call[p].expiresAt
           /\ call'[p].exp = call[p].exp
           /\ call'[p].start = call[p].start
           /\ call'[p].dead = call[p].dead
BY DEF TypeOK, Succeed, Frame, Call, Result

LEMMA GotoFrame ==
    ASSUME TypeOK, NEW p \in Proc, NEW step, Goto(p, step)
    PROVE  Frame(p) /\ pc'[p] = step /\ call'[p] = call[p]
BY DEF TypeOK, Goto, Frame

LEMMA FailFrame ==
    ASSUME TypeOK, NEW p \in Proc, NEW error \in Result \ {"ok"}, Fail(p, error)
    PROVE  /\ Frame(p)
           /\ pc'[p] = "done"
           /\ call'[p] \in Call
           /\ call'[p].op = call[p].op
           /\ call'[p].token = Null
           /\ call'[p].start = 0
           /\ call'[p].dead = {}
           /\ call'[p].result # "ok"
<1> DEFINE answer == [Blank EXCEPT !.op = call[p].op, !.result = error]
<1>1. /\ Blank \in Call /\ Blank.start = 0 /\ Blank.dead = {} /\ Blank.token = Null
      /\ call[p] \in Call
  BY BlankType DEF Blank, TypeOK
<1>2. /\ answer \in Call /\ answer.op = call[p].op /\ answer.token = Null
      /\ answer.start = 0 /\ answer.dead = {} /\ answer.result = error
  BY <1>1 DEF Call
<1>3. pc'[p] = "done" /\ call'[p] = answer
  BY DEF TypeOK, Fail
<1>4. Frame(p)
  BY <1>3 DEF Fail, Frame
<1> HIDE DEF answer
<1>5. QED
  BY <1>2, <1>3, <1>4

\* The start of a call: its arguments, the time, and the sessions that are
\* revoked by now.
LEMMA BeginFrame ==
    ASSUME TypeOK, NEW p \in Proc, NEW step, NEW newCall \in Call,
           Begin(p, step, newCall)
    PROVE  /\ Frame(p)
           /\ UNCHANGED <<now, tables, clients>>
           /\ pc'[p] = step
           /\ call'[p] \in Call
           /\ call'[p].op = newCall.op
           /\ call'[p].login = newCall.login
           /\ call'[p].password = newCall.password
           /\ call'[p].user = newCall.user
           /\ call'[p].token = newCall.token
           /\ call'[p].expiresAt = newCall.expiresAt
           /\ call'[p].exp = newCall.exp
           /\ call'[p].result = newCall.result
           /\ call'[p].start = now
           /\ call'[p].dead = Revoked
<1> DEFINE begun == [newCall EXCEPT !.start = now, !.dead = Revoked]
<1>1. Revoked \subseteq TokenHash /\ now \in Nat
  BY DEF Revoked, TypeOK, RefreshTokenInRepo
<1>2. /\ begun \in Call /\ begun.op = newCall.op /\ begun.login = newCall.login
      /\ begun.password = newCall.password /\ begun.user = newCall.user
      /\ begun.token = newCall.token /\ begun.expiresAt = newCall.expiresAt
      /\ begun.exp = newCall.exp /\ begun.result = newCall.result
      /\ begun.start = now /\ begun.dead = Revoked
  BY <1>1 DEF Call
<1>3. pc'[p] = step /\ call'[p] = begun
  BY DEF TypeOK, Begin
<1>4. Frame(p) /\ UNCHANGED <<now, tables, clients>>
  BY <1>3 DEF Begin, Frame
<1> HIDE DEF begun
<1>5. QED
  BY <1>2, <1>3, <1>4

\* A new call is one of these.
NewCall(step, c) ==
    /\ c \in Call
    /\ \/ /\ step = "saveUser" /\ c.op = "register"
          /\ c.login \in LoginName /\ c.password \in Password
       \/ /\ step = "getUser" /\ c.op = "login"
          /\ c.login \in LoginName /\ c.password \in Password
       \/ step = "revoke" /\ c.op = "logout" /\ c.token \in Presented
       \/ step = "getRefreshToken" /\ c.op = "refresh" /\ c.token \in Presented
       \/ /\ step = "authenticate" /\ c.op = "authenticate"
          /\ \E a \in accessTokens :
                c.user = a.user /\ c.token = a.session /\ c.exp = a.exp
       \/ step = "done" /\ c.op = "register" /\ c.result = "invalid"
       \/ /\ step = "done" /\ c.op = "authenticate" /\ c.token = Null
          /\ c.result = "ErrInvalidToken"

LEMMA RequestBegins ==
    ASSUME TypeOK, NEW p \in Proc, Request(p)
    PROVE  \E step : \E c \in Call : NewCall(step, c) /\ Begin(p, step, c)
<1> DEFINE register(l, pw) == [Blank EXCEPT !.op = "register", !.login = l,
                                            !.password = pw]
           login(l, pw) == [Blank EXCEPT !.op = "login", !.login = l,
                                         !.password = pw]
           logout(t) == [Blank EXCEPT !.op = "logout", !.token = t]
           refresh(t) == [Blank EXCEPT !.op = "refresh", !.token = t]
           bearer(a) == [Blank EXCEPT !.op = "authenticate", !.user = a.user,
                                      !.exp = a.exp, !.token = a.session]
           refused == [Blank EXCEPT !.op = "register", !.result = "invalid"]
           forged == [Blank EXCEPT !.op = "authenticate",
                                   !.result = "ErrInvalidToken"]
<1> USE BlankType
<1>1. ASSUME NEW l \in LoginName, NEW pw \in Password
      PROVE  NewCall("saveUser", register(l, pw)) /\ NewCall("getUser", login(l, pw))
  BY DEF NewCall, Call
<1>2. ASSUME NEW t \in Presented
      PROVE  NewCall("revoke", logout(t)) /\ NewCall("getRefreshToken", refresh(t))
  BY DEF NewCall, Call, Presented, TypeOK
<1>3. ASSUME NEW a \in accessTokens PROVE NewCall("authenticate", bearer(a))
  <2>1. a.user \in UserID /\ a.exp \in Nat /\ a.session \in TokenHash
    BY DEF TypeOK, JWTclaims
  <2>2. /\ bearer(a) \in Call /\ bearer(a).op = "authenticate"
        /\ bearer(a).user = a.user /\ bearer(a).token = a.session
        /\ bearer(a).exp = a.exp
    BY <2>1 DEF Call
  <2> HIDE DEF bearer
  <2>3. QED
    BY <2>2 DEF NewCall
<1>4. NewCall("done", refused)
  BY DEF NewCall, Call, Result
<1>5. NewCall("done", forged)
  <2>1. Blank.token = Null
    BY DEF Blank
  <2>2. QED
    BY <2>1 DEF NewCall, Call, Result
<1>6. \/ \E l \in LoginName, pw \in Password :
            \/ Begin(p, "saveUser", register(l, pw))
            \/ Begin(p, "getUser", login(l, pw))
      \/ \E t \in Presented : \/ Begin(p, "revoke", logout(t))
                              \/ Begin(p, "getRefreshToken", refresh(t))
      \/ \E a \in accessTokens : Begin(p, "authenticate", bearer(a))
      \/ Begin(p, "done", refused) \/ Begin(p, "done", forged)
  BY DEF Request, Register, Login, Logout, Refresh, PresentJWT
<1> HIDE DEF register, login, logout, refresh, bearer, refused, forged
<1>7. QED
  BY <1>1, <1>2, <1>3, <1>4, <1>5, <1>6 DEF NewCall

\* What the tables become when a session is saved or revoked.
LEMMA SessionTypes ==
    ASSUME TypeOK, NEW p \in Proc
    PROVE  /\ pc[p] = "saveRefreshToken" => NewSession(p) \in RefreshTokenInRepo
           /\ \A s \in sessions : Stamp(s) \in RefreshTokenInRepo
<1>1. now \in Nat /\ sessions \subseteq RefreshTokenInRepo /\ call[p] \in Call
  BY DEF TypeOK
<1>2. pc[p] = "saveRefreshToken" => NewSession(p) \in RefreshTokenInRepo
  BY <1>1 DEF TypeOK, NewSession, RefreshTokenInRepo, Call
<1>3. ASSUME NEW s \in sessions PROVE Stamp(s) \in RefreshTokenInRepo
  BY <1>1 DEF Stamp, RefreshTokenInRepo
<1>4. QED
  BY <1>2, <1>3

LEMMA TypeInit == Init => TypeOK
BY BlankType DEF Init, TypeOK, OpInv, Step, Blank

LEMMA RequestType ==
    ASSUME TypeOK, NEW p \in Proc, Request(p)
    PROVE  TypeOK' /\ Others(p)
<1>1. PICK step : \E c \in Call : NewCall(step, c) /\ Begin(p, step, c)
  BY RequestBegins
<1>2. PICK c \in Call : NewCall(step, c) /\ Begin(p, step, c)
  BY <1>1
<1>3. TablesType'
  BY <1>2, BeginFrame DEF TypeOK, TablesType, tables, clients
<1>4. CallType(p)'
  <2>1. \A a \in accessTokens : a.user \in UserID /\ a.session \in TokenHash
    BY DEF TypeOK, JWTclaims
  <2>2. QED
    BY <1>2, <2>1, BeginFrame DEF CallType, OpInv, NewCall, Step
<1>5. QED
  BY <1>2, <1>3, <1>4, BeginFrame, FrameType

\* Failure and success leave well-typed calls, whatever the step.
LEMMA EndType ==
    ASSUME TypeOK, TablesType', NEW p \in Proc,
           \/ \E error \in Result \ {"ok"} : Fail(p, error)
           \/ Succeed(p) /\ call[p].op \notin {"login", "refresh", "authenticate"}
           \/ Succeed(p) /\ call[p].user \in UserID /\ call[p].token \in TokenHash
    PROVE  TypeOK' /\ Others(p)
<1>1. Frame(p) /\ CallType(p)'
  BY FailFrame, SucceedFrame DEF CallType, OpInv, Step
<1>2. QED
  BY <1>1, FrameType

LEMMA ServeType ==
    ASSUME TypeOK, NEW p \in Proc, Serve(p)
    PROVE  TypeOK' /\ Others(p)
<1>1. call[p] \in Call /\ now \in Nat
  BY DEF TypeOK
<1>2. CASE SaveUser(p)
  <2>1. \A id \in UserID : NewUser(p, id) \in UserInRepo
    BY <1>1, <1>2 DEF SaveUser, TypeOK, NewUser, UserInRepo
  <2>2. TablesType'
    BY <1>2, <2>1 DEF SaveUser, UserSaved, UserRefused, UserNotSaved, TypeOK,
       TablesType, clients
  <2>3. CASE \E error \in Result \ {"ok"} : Fail(p, error)
    BY <2>2, <2>3, EndType
  <2>4. CASE \E id \in UserID : /\ pc' = [pc EXCEPT ![p] = "done"]
                                /\ call' = [call EXCEPT ![p].user = id,
                                                        ![p].result = "ok"]
    <3> DEFINE saved(id) == [call[p] EXCEPT !.user = id, !.result = "ok"]
    <3>1. \A id \in UserID : saved(id) \in Call /\ saved(id).user = id
      BY <1>1 DEF Call, Result
    <3>2. PICK id \in UserID : /\ pc' = [pc EXCEPT ![p] = "done"]
                               /\ call' = [call EXCEPT ![p] = saved(id)]
      BY <2>4
    <3> HIDE DEF saved
    <3>3. /\ Frame(p) /\ pc'[p] = "done" /\ call'[p] = saved(id)
      BY <3>2 DEF Frame, TypeOK
    <3>4. call[p].op = "register" => saved(id).op = "register"
      BY <1>1 DEF saved, Call
    <3>6. call[p].op = "register"
      BY <1>2 DEF SaveUser, TypeOK, OpInv
    <3>5. QED
      BY <2>2, <3>1, <3>3, <3>4, <3>6, FrameType DEF CallType, OpInv, Step
  <2>5. QED
    BY <1>2, <2>3, <2>4 DEF SaveUser, UserSaved, UserRefused, UserNotSaved, Result
<1>3. CASE GetUser(p)
  <2>1. TablesType'
    BY <1>3 DEF GetUser, TypeOK, TablesType, tables, clients
  <2>2. CASE \E error \in Result \ {"ok"} : Fail(p, error)
    BY <2>1, <2>2, EndType
  <2>3. CASE \E u \in users : /\ pc' = [pc EXCEPT ![p] = "issueRefreshToken"]
                              /\ call' = [call EXCEPT ![p].user = u.id]
    <3> DEFINE found(u) == [call[p] EXCEPT !.user = u.id]
    <3>1. PICK u \in users : /\ pc' = [pc EXCEPT ![p] = "issueRefreshToken"]
                             /\ call' = [call EXCEPT ![p] = found(u)]
      BY <2>3
    <3>2. u.id \in UserID
      BY DEF TypeOK, UserInRepo
    <3>3. found(u) \in Call /\ found(u).user = u.id /\ found(u).op = call[p].op
      BY <1>1, <3>2 DEF Call
    <3> HIDE DEF found
    <3>4. /\ Frame(p) /\ pc'[p] = "issueRefreshToken" /\ call'[p] = found(u)
          /\ call[p].op = "login"
      BY <1>3, <3>1 DEF Frame, TypeOK, GetUser, OpInv
    <3>5. QED
      BY <2>1, <3>2, <3>3, <3>4, FrameType DEF CallType, OpInv, Step
  <2>4. QED
    BY <1>3, <2>2, <2>3 DEF GetUser, Result
<1>4. CASE IssueRefreshToken(p)
  <2>1. TablesType'
    BY <1>4 DEF IssueRefreshToken, TypeOK, TablesType, tables, clients
  <2>2. CASE Fail(p, "internal")
    BY <2>1, <2>2, EndType DEF Result
  <2>3. CASE ~ Fail(p, "internal")
    <3> DEFINE drawn(h) == [call[p] EXCEPT !.token = h,
                                           !.expiresAt = now + RefreshTokenTTL]
    <3>1. PICK h \in TokenHash : /\ pc' = [pc EXCEPT ![p] = "saveRefreshToken"]
                                 /\ call' = [call EXCEPT ![p] = drawn(h)]
      BY <1>4, <2>3 DEF IssueRefreshToken
    <3>2. /\ drawn(h) \in Call /\ drawn(h).token = h
          /\ drawn(h).user = call[p].user /\ drawn(h).op = call[p].op
      <4>1. now + RefreshTokenTTL \in Nat
        BY <1>1, TTLAssumption
      <4>2. QED
        BY <1>1, <4>1 DEF Call
    <3> HIDE DEF drawn
    <3>3. /\ Frame(p) /\ pc'[p] = "saveRefreshToken" /\ call'[p] = drawn(h)
          /\ call[p].op = "login" /\ call[p].user \in UserID
      BY <1>4, <3>1 DEF Frame, TypeOK, IssueRefreshToken, OpInv
    <3>4. QED
      BY <2>1, <3>2, <3>3, FrameType DEF CallType, OpInv, Step
  <2>4. QED
    BY <2>2, <2>3
<1>5. CASE SaveRefreshToken(p)
  <2>1. TablesType'
    BY <1>5, SessionTypes DEF SaveRefreshToken, SessionSaved, SessionNotSaved,
       TypeOK, TablesType, clients
  <2>2. CASE Fail(p, "internal")
    BY <2>1, <2>2, EndType DEF Result
  <2>3. CASE Goto(p, "issueAccessToken")
    <3>1. /\ call[p].op = "login" /\ call[p].user \in UserID
          /\ call[p].token \in TokenHash
      BY <1>5 DEF SaveRefreshToken, TypeOK, OpInv
    <3>2. QED
      BY <1>1, <2>1, <2>3, <3>1, GotoFrame, FrameType DEF CallType, OpInv, Step
  <2>4. QED
    BY <1>5, <2>2, <2>3 DEF SaveRefreshToken, SessionSaved, SessionNotSaved
<1>6. CASE IssueAccessToken(p)
  <2>1. TablesType'
    BY <1>6 DEF IssueAccessToken, TypeOK, TablesType, tables, clients
  <2> DEFINE signed(cut) == [call[p] EXCEPT !.exp = now + AccessTokenTTL - cut,
                                            !.result = "ok"]
  <2>2. PICK cut \in 0..(Second - 1) :
           /\ pc' = [pc EXCEPT ![p] = "done"]
           /\ call' = [call EXCEPT ![p] = signed(cut)]
    BY <1>6 DEF IssueAccessToken
  <2>3. now + AccessTokenTTL - cut \in Nat
    BY <1>1, TTLAssumption
  <2>4. /\ signed(cut) \in Call /\ signed(cut).token = call[p].token
        /\ signed(cut).user = call[p].user /\ signed(cut).op = call[p].op
    BY <1>1, <2>3 DEF Call, Result
  <2> HIDE DEF signed
  <2>5. /\ Frame(p) /\ pc'[p] = "done" /\ call'[p] = signed(cut)
        /\ call[p].user \in UserID /\ call[p].token \in TokenHash
    BY <1>6, <2>2 DEF Frame, TypeOK, IssueAccessToken
  <2>6. QED
    BY <2>1, <2>4, <2>5, FrameType DEF CallType, OpInv, Step
<1>7. CASE RevokeRefreshToken(p)
  <2>1. TablesType'
    BY <1>7, SessionTypes DEF RevokeRefreshToken, SessionRevoked,
       SessionNotRevoked, TypeOK, TablesType, clients
  <2>2. call[p].op = "logout"
    BY <1>7 DEF RevokeRefreshToken, TypeOK, OpInv
  <2>3. Succeed(p) \/ Fail(p, "internal")
    BY <1>7 DEF RevokeRefreshToken, SessionRevoked, SessionNotRevoked
  <2>4. QED
    BY <2>1, <2>2, <2>3, EndType DEF Result
<1>8. CASE GetRefreshToken(p)
  <2>1. TablesType'
    BY <1>8 DEF GetRefreshToken, TypeOK, TablesType, tables, clients
  <2>2. CASE \E error \in Result \ {"ok"} : Fail(p, error)
    BY <2>1, <2>2, EndType
  <2>3. CASE \E s \in sessions : /\ s.hash = call[p].token
                                 /\ pc' = [pc EXCEPT ![p] = "checkExpiry"]
                                 /\ call' = [call EXCEPT ![p].user = s.user,
                                                         ![p].expiresAt = s.expiresAt]
    <3> DEFINE found(s) == [call[p] EXCEPT !.user = s.user,
                                           !.expiresAt = s.expiresAt]
    <3>1. PICK s \in sessions : /\ s.hash = call[p].token
                                /\ pc' = [pc EXCEPT ![p] = "checkExpiry"]
                                /\ call' = [call EXCEPT ![p] = found(s)]
      BY <2>3
    <3>2. s.user \in UserID /\ s.expiresAt \in Nat /\ s.hash \in TokenHash
      BY DEF TypeOK, RefreshTokenInRepo
    <3>3. /\ found(s) \in Call /\ found(s).user = s.user
          /\ found(s).token = call[p].token /\ found(s).op = call[p].op
      BY <1>1, <3>2 DEF Call
    <3> HIDE DEF found
    <3>4. /\ Frame(p) /\ pc'[p] = "checkExpiry" /\ call'[p] = found(s)
          /\ call[p].op = "refresh"
      BY <1>8, <3>1 DEF Frame, TypeOK, GetRefreshToken, OpInv
    <3>5. QED
      BY <2>1, <3>1, <3>2, <3>3, <3>4, FrameType DEF CallType, OpInv, Step
  <2>4. QED
    BY <1>8, <2>2, <2>3 DEF GetRefreshToken, Result
<1>9. CASE CheckExpiry(p)
  <2>1. TablesType'
    BY <1>9 DEF CheckExpiry, TypeOK, TablesType, tables, clients
  <2>2. /\ call[p].op = "refresh" /\ call[p].user \in UserID
        /\ call[p].token \in TokenHash
    BY <1>9 DEF CheckExpiry, TypeOK, OpInv
  <2>3. CASE Fail(p, "ErrInvalidToken")
    BY <2>1, <2>3, EndType DEF Result
  <2>4. CASE Goto(p, "issueAccessToken")
    BY <1>1, <2>1, <2>2, <2>4, GotoFrame, FrameType DEF CallType, OpInv, Step
  <2>5. QED
    BY <1>9, <2>3, <2>4 DEF CheckExpiry
<1>10. CASE Authenticate(p)
  <2>1. TablesType'
    BY <1>10 DEF Authenticate, TypeOK, TablesType, tables, clients
  <2>2. call[p].user \in UserID /\ call[p].token \in TokenHash
    BY <1>10 DEF Authenticate, TypeOK
  <2>3. Fail(p, "ErrInvalidToken") \/ Succeed(p)
    BY <1>10 DEF Authenticate
  <2>4. QED
    BY <2>1, <2>2, <2>3, EndType DEF Result
<1>11. QED
  BY <1>2, <1>3, <1>4, <1>5, <1>6, <1>7, <1>8, <1>9, <1>10 DEF Serve

LEMMA RespondType ==
    ASSUME TypeOK, NEW p \in Proc, Respond(p)
    PROVE  TypeOK' /\ Others(p)
<1>1. pc'[p] = "idle" /\ call'[p] = Blank /\ Frame(p)
  BY DEF Respond, TypeOK, Frame
<1>2. RefreshTokensOf(call[p]) \subseteq TokenHash
  BY DEF RefreshTokensOf, Respond, TypeOK
<1>3. AccessTokensOf(call[p]) \subseteq JWTclaims
  <2>1. call[p].exp \in Nat
    BY DEF TypeOK, Call
  <2>2. QED
    BY <2>1 DEF AccessTokensOf, JWTclaims, Respond, TypeOK
<1>4. TablesType'
  BY <1>2, <1>3 DEF Respond, TypeOK, TablesType, tables, clients
<1>5. CallType(p)'
  <2>1. Blank.op = Null
    BY DEF Blank
  <2>2. QED
    BY <1>1, <2>1, BlankType DEF CallType, OpInv, Step
<1>6. QED
  BY <1>1, <1>4, <1>5, FrameType

LEMMA TypeStep == TypeOK /\ [Next]_vars => TypeOK'
<1> SUFFICES ASSUME TypeOK, [Next]_vars PROVE TypeOK'
  OBVIOUS
<1>1. CASE Tick
  BY <1>1 DEF Tick, TypeOK, OpInv, tables, clients
<1>2. CASE Crash
  <2>1. Blank.op = Null
    BY DEF Blank
  <2>2. QED
    BY <1>2, <2>1, BlankType DEF Crash, TypeOK, OpInv, Step, tables, clients
<1>3. CASE UNCHANGED vars
  BY <1>3 DEF vars, TypeOK, OpInv, tables, clients
<1>4. QED
  BY <1>1, <1>2, <1>3, RequestType, ServeType, RespondType DEF Next

\* Every variable keeps its type: a session that is saved has an owner, and an
\* access token that is signed or handed out has a subject.
THEOREM TypeCorrect == Spec => []TypeOK
BY TypeInit, TypeStep, PTL DEF Spec

-----------------------------------------------------------------------------
(***************************************************************************)
(* The inductive invariant.  A step of one call changes that call and, in  *)
(* the ways Evolve allows, the tables; every other call keeps its          *)
(* invariant because of Evolve alone.                                      *)
(***************************************************************************)

\* t is what the row s has become: it may have been revoked, if clients know
\* its token.
Becomes(s, t) ==
    /\ t.hash = s.hash /\ t.user = s.user /\ t.expiresAt = s.expiresAt
    /\ s.revokedAt # Never => t.revokedAt # Never
    /\ s.revokedAt = Never /\ t.revokedAt # Never => s.hash \in refreshTokens

\* Time does not go back, accounts and sessions stay, and a row that is not
\* an old one has a hash of its own.
Evolve ==
    /\ now <= now'
    /\ users \subseteq users'
    /\ \A s \in sessions : \E t \in sessions' : Becomes(s, t)
    /\ \A t \in sessions' : HashFree(t.hash) \/ \E s \in sessions : Becomes(s, t)

\* What p may claim, and what its answer may give away.
Claims(p) ==
    HasSession(p)' => \/ HasSession(p) /\ call'[p].token = call[p].token
                      \/ HashFree(call'[p].token)

Gives(p) ==
    /\ refreshTokens \subseteq refreshTokens'
    /\ \A t \in refreshTokens' \ refreshTokens :
          HasSession(p) /\ t = call[p].token

LEMMA RevokedStays ==
    ASSUME Evolve PROVE Revoked \subseteq Revoked'
BY DEF Evolve, Becomes, Revoked

LEMMA OtherCall ==
    ASSUME IInv, TypeOK', Evolve, NEW p \in Proc, Gives(p),
           NEW q \in Proc \ {p}, pc'[q] = pc[q], call'[q] = call[q]
    PROVE  CallInv(q)'
<1>1. CallInv(q) /\ now \in Nat /\ now' \in Nat /\ call[q] \in Call
  BY DEF IInv, TypeOK
<1>2. (call[q].start <= now)'
  BY <1>1 DEF CallInv, Evolve, Call
<1>3. DeadInv(q)' /\ KnownInv(q)'
  BY <1>1, RevokedStays DEF CallInv, DeadInv, KnownInv, Gives, Presented
<1>4. LoginInv(q)' /\ RegisterAnswer(q)'
  BY <1>1 DEF CallInv, LoginInv, RegisterAnswer, Credentialed, NewUser, Evolve
<1>5. FreshInv(q)'
  <2> SUFFICES ASSUME HasSession(q) PROVE FreshInv(q)'
    BY DEF FreshInv, HasSession
  <2>1. /\ call[q].token \notin refreshTokens
        /\ \E s \in sessions : /\ s.hash = call[q].token
                               /\ s.user = call[q].user
                               /\ s.revokedAt = Never
    BY <1>1 DEF CallInv, FreshInv
  <2>2. \E s \in sessions' : /\ s.hash = call[q].token
                             /\ s.user = call[q].user
                             /\ s.revokedAt = Never
    BY <2>1 DEF Evolve, Becomes
  <2>3. call[q].token \notin refreshTokens'
    BY <2>1 DEF Gives, IInv, DistinctInv
  <2>4. QED
    BY <2>2, <2>3 DEF FreshInv
<1>6. LoginAnswer(q)'
  BY <1>1, <1>5 DEF CallInv, LoginAnswer, FreshInv, HasSession, Credentialed, NewUser,
     Evolve
<1>7. RefreshInv(q)' /\ RefreshAnswer(q)'
  BY <1>1 DEF CallInv, RefreshInv, RefreshAnswer, Evolve, Becomes
<1>8. AuthenticateInv(q)' /\ AuthenticateAnswer(q)'
  BY <1>1 DEF CallInv, AuthenticateInv, AuthenticateAnswer, Evolve, Becomes
<1>9. LogoutAnswer(q)'
  <2> SUFFICES ASSUME pc[q] = "done", call[q].op = "logout", call[q].result = "ok",
                      NEW t \in sessions', t.hash = call[q].token
               PROVE  t.revokedAt # Never
    BY DEF LogoutAnswer
  <2>1. call[q].token \in Presented /\ t.hash \in TokenHash
    BY <1>1 DEF CallInv, KnownInv, TypeOK, RefreshTokenInRepo
  <2>2. ~ HashFree(t.hash)
    BY <2>1, NullAssumption DEF Presented, HashFree, IInv, ClientInv
  <2>3. PICK s \in sessions : Becomes(s, t)
    BY <2>2 DEF Evolve
  <2>4. s.revokedAt # Never
    BY <1>1, <2>3 DEF CallInv, LogoutAnswer, Becomes
  <2>5. QED
    BY <2>3, <2>4 DEF Becomes
<1>10. QED
  BY <1>2, <1>3, <1>4, <1>5, <1>6, <1>7, <1>8, <1>9 DEF CallInv

LEMMA StepInv ==
    ASSUME IInv, TypeOK', NEW p \in Proc, Others(p), Evolve, Claims(p), Gives(p),
           TableInv', ClientInv', CallInv(p)'
    PROVE  IInv'
<1>1. ASSUME NEW q \in Proc PROVE CallInv(q)'
  BY <1>1, OtherCall DEF Others
<1>2. ASSUME NEW q \in Proc \ {p}, HasSession(p)', HasSession(q)
      PROVE  call[q].token # call'[p].token
  <2>1. ~ HashFree(call[q].token)
    BY <1>2 DEF IInv, CallInv, FreshInv, HashFree
  <2>2. QED
    BY <1>2, <2>1 DEF Claims, IInv, DistinctInv
<1>3. DistinctInv'
  <2> SUFFICES ASSUME NEW q \in Proc, NEW r \in Proc, q # r,
                      HasSession(q)', HasSession(r)'
               PROVE  call'[q].token # call'[r].token
    BY DEF DistinctInv
  <2>1. ASSUME NEW o \in Proc \ {p}, HasSession(o)'
        PROVE  HasSession(o) /\ call'[o] = call[o]
    BY <2>1 DEF Others, HasSession
  <2>2. QED
    BY <1>2, <2>1 DEF IInv, DistinctInv
<1>4. QED
  BY <1>1, <1>3 DEF IInv

\* Only the call itself moves.
TablesSame == UNCHANGED <<now, users, sessions, refreshTokens, accessTokens>>

LEMMA LocalStep ==
    ASSUME IInv, TypeOK', TablesSame, NEW p \in Proc, Others(p), Claims(p), CallInv(p)'
    PROVE  IInv'
<1>1. Evolve
  BY DEF Evolve, Becomes, TablesSame, IInv, TypeOK
<1>2. Gives(p) /\ TableInv' /\ ClientInv'
  BY DEF Gives, TablesSame, IInv, TableInv, AccountUnique, SessionUnique, ClientInv
<1>3. QED
  BY <1>1, <1>2, StepInv

\* A call that fails holds nothing any more.
LEMMA FailInv ==
    ASSUME TypeOK, TypeOK', NEW p \in Proc, NEW error \in Result \ {"ok"}, Fail(p, error)
    PROVE  CallInv(p)' /\ Claims(p)
<1>1. /\ pc'[p] = "done" /\ call'[p].token = Null /\ call'[p].start = 0
      /\ call'[p].dead = {} /\ call'[p].result # "ok"
  BY FailFrame
<1>2. now' >= 0
  BY DEF TypeOK
<1>3. QED
  BY <1>1, <1>2 DEF CallInv, DeadInv, KnownInv, Presented, LoginInv, FreshInv,
     HasSession, RefreshInv, AuthenticateInv, RegisterAnswer, LoginAnswer,
     RefreshAnswer, AuthenticateAnswer, LogoutAnswer, Claims

-----------------------------------------------------------------------------
(***************************************************************************)
(* The steps that only read the tables.                                    *)
(***************************************************************************)
LEMMA RequestStep ==
    ASSUME IInv, TypeOK', NEW p \in Proc, Request(p)
    PROVE  IInv'
<1>1. PICK step : \E c \in Call : NewCall(step, c) /\ Begin(p, step, c)
  BY RequestBegins DEF IInv
<1>2. PICK c \in Call : NewCall(step, c) /\ Begin(p, step, c)
  BY <1>1
<1>3. /\ pc'[p] = step /\ call'[p].op = c.op /\ call'[p].token = c.token
      /\ call'[p].user = c.user /\ call'[p].result = c.result
      /\ call'[p].start = now /\ call'[p].dead = Revoked
      /\ TablesSame /\ now \in Nat
  BY <1>2, BeginFrame DEF IInv, TablesSame, tables, clients, TypeOK
<1>4. Others(p)
  BY <1>2, RequestType DEF IInv
<1>5. KnownInv(p)' /\ AuthenticateInv(p)'
  BY <1>2, <1>3 DEF NewCall, KnownInv, Presented, AuthenticateInv, TablesSame, IInv,
     ClientInv
<1>6. CallInv(p)' /\ Claims(p)
  BY <1>2, <1>3, <1>5 DEF NewCall, CallInv, DeadInv, Revoked, TablesSame, LoginInv,
     FreshInv, HasSession, RefreshInv, RegisterAnswer, LoginAnswer, RefreshAnswer,
     AuthenticateAnswer, LogoutAnswer, Claims
<1>7. QED
  BY <1>3, <1>4, <1>6, LocalStep

\* The row a Login has read is that of the presented login and password.
LEMMA GetUserStep ==
    ASSUME IInv, TypeOK', NEW p \in Proc, GetUser(p)
    PROVE  IInv'
<1>1. TablesSame /\ Others(p) /\ call[p] \in Call
  BY ServeType DEF GetUser, TablesSame, tables, clients, IInv, TypeOK, Serve
<1>2. CASE \E error \in Result \ {"ok"} : Fail(p, error)
  BY <1>1, <1>2, FailInv, LocalStep DEF IInv
<1>3. CASE \E u \in users : /\ u.login = call[p].login
                            /\ u.password = call[p].password
                            /\ pc' = [pc EXCEPT ![p] = "issueRefreshToken"]
                            /\ call' = [call EXCEPT ![p].user = u.id]
  <2> DEFINE found(u) == [call[p] EXCEPT !.user = u.id]
  <2>1. PICK u \in users : /\ u.login = call[p].login
                           /\ u.password = call[p].password
                           /\ pc' = [pc EXCEPT ![p] = "issueRefreshToken"]
                           /\ call' = [call EXCEPT ![p] = found(u)]
    BY <1>3
  <2>2. /\ u \in UserInRepo /\ u.id \in UserID
    BY DEF IInv, TypeOK, UserInRepo
  <2>3. /\ found(u).user = u.id /\ found(u).op = call[p].op
        /\ found(u).login = call[p].login /\ found(u).password = call[p].password
        /\ found(u).token = call[p].token /\ found(u).start = call[p].start
        /\ found(u).dead = call[p].dead
    BY <1>1 DEF Call
  <2>4. pc'[p] = "issueRefreshToken" /\ call'[p] = found(u)
    BY <2>1 DEF IInv, TypeOK
  <2> HIDE DEF found
  <2>5. Credentialed(p)'
    BY <1>1, <2>1, <2>2, <2>3, <2>4 DEF Credentialed, NewUser, UserInRepo, TablesSame
  <2>6. CallInv(p)' /\ Claims(p)
    BY <1>1, <2>3, <2>4, <2>5 DEF IInv, CallInv, DeadInv, Revoked, TablesSame,
       KnownInv, Presented, LoginInv, FreshInv, HasSession, RefreshInv,
       AuthenticateInv, RegisterAnswer, LoginAnswer, RefreshAnswer,
       AuthenticateAnswer, LogoutAnswer, Claims
  <2>7. QED
    BY <1>1, <2>6, LocalStep
<1>4. QED
  BY <1>2, <1>3 DEF GetUser, PasswordMatches, Result

LEMMA IssueRefreshTokenStep ==
    ASSUME IInv, TypeOK', NEW p \in Proc, IssueRefreshToken(p)
    PROVE  IInv'
<1>1. TablesSame /\ Others(p) /\ call[p] \in Call /\ call[p].op = "login"
  BY ServeType DEF IssueRefreshToken, TablesSame, tables, clients, IInv, TypeOK,
     OpInv, Serve
<1>2. CASE Fail(p, "internal")
  BY <1>1, <1>2, FailInv, LocalStep DEF IInv, Result
<1>3. CASE ~ Fail(p, "internal")
  <2> DEFINE drawn(h) == [call[p] EXCEPT !.token = h,
                                         !.expiresAt = now + RefreshTokenTTL]
  <2>1. PICK h \in TokenHash : /\ pc' = [pc EXCEPT ![p] = "saveRefreshToken"]
                               /\ call' = [call EXCEPT ![p] = drawn(h)]
    BY <1>3 DEF IssueRefreshToken
  <2>2. /\ drawn(h).user = call[p].user /\ drawn(h).op = call[p].op
        /\ drawn(h).login = call[p].login /\ drawn(h).password = call[p].password
        /\ drawn(h).start = call[p].start /\ drawn(h).dead = call[p].dead
    BY <1>1 DEF Call
  <2>3. pc'[p] = "saveRefreshToken" /\ call'[p] = drawn(h)
    BY <2>1 DEF IInv, TypeOK
  <2> HIDE DEF drawn
  <2>4. Credentialed(p)'
    BY <1>1, <2>2, <2>3 DEF IssueRefreshToken, Credentialed, NewUser, TablesSame,
       IInv, CallInv, LoginInv
  <2>5. CallInv(p)' /\ Claims(p)
    BY <1>1, <2>2, <2>3, <2>4 DEF IInv, CallInv, DeadInv, Revoked, TablesSame,
       KnownInv, LoginInv, FreshInv, HasSession, RefreshInv,
       AuthenticateInv, RegisterAnswer, LoginAnswer, RefreshAnswer,
       AuthenticateAnswer, LogoutAnswer, Claims
  <2>6. QED
    BY <1>1, <2>5, LocalStep
<1>4. QED
  BY <1>2, <1>3

\* Signing adds nothing to what the call already knows of its session.
LEMMA IssueAccessTokenStep ==
    ASSUME IInv, TypeOK', NEW p \in Proc, IssueAccessToken(p)
    PROVE  IInv'
<1>1. /\ TablesSame /\ Others(p) /\ call[p] \in Call
      /\ pc[p] = "issueAccessToken" /\ call[p].op \in {"login", "refresh"}
  BY ServeType DEF IssueAccessToken, TablesSame, tables, clients, IInv, TypeOK,
     OpInv, Serve
<1> DEFINE signed(cut) == [call[p] EXCEPT !.exp = now + AccessTokenTTL - cut,
                                          !.result = "ok"]
<1>2. PICK cut \in 0..(Second - 1) : /\ pc' = [pc EXCEPT ![p] = "done"]
                                     /\ call' = [call EXCEPT ![p] = signed(cut)]
  BY DEF IssueAccessToken
<1>3. /\ signed(cut).user = call[p].user /\ signed(cut).op = call[p].op
      /\ signed(cut).login = call[p].login /\ signed(cut).password = call[p].password
      /\ signed(cut).start = call[p].start /\ signed(cut).dead = call[p].dead
      /\ signed(cut).token = call[p].token /\ signed(cut).result = "ok"
      /\ signed(cut).expiresAt = call[p].expiresAt
  BY <1>1 DEF Call
<1>4. pc'[p] = "done" /\ call'[p] = signed(cut)
  BY <1>2 DEF IInv, TypeOK
<1> HIDE DEF signed
<1>5. (call[p].start <= now)' /\ DeadInv(p)' /\ KnownInv(p)'
  BY <1>1, <1>3, <1>4 DEF IInv, CallInv, DeadInv, Revoked, KnownInv, Presented,
     TablesSame
<1>6. CASE call[p].op = "login"
  <2>1. HasSession(p)
    BY <1>1, <1>6 DEF HasSession
  <2>2. Credentialed(p)'
    BY <1>1, <1>3, <1>4, <1>6 DEF Credentialed, NewUser, TablesSame, IInv, CallInv,
       LoginInv
  <2>3. FreshInv(p)' /\ LoginAnswer(p)'
    BY <1>1, <1>3, <1>4, <2>1, <2>2 DEF FreshInv, LoginAnswer, TablesSame, IInv,
       CallInv
  <2>4. CallInv(p)' /\ Claims(p)
    BY <1>3, <1>4, <1>5, <1>6, <2>1, <2>3 DEF CallInv, LoginInv, RefreshInv,
       AuthenticateInv, RegisterAnswer, RefreshAnswer, AuthenticateAnswer,
       LogoutAnswer, Claims
  <2>5. QED
    BY <1>1, <2>4, LocalStep
<1>7. CASE call[p].op = "refresh"
  <2>1. RefreshAnswer(p)'
    <3>1. RefreshInv(p)
      BY DEF IInv, CallInv
    <3>2. QED
      BY <1>1, <1>3, <1>4, <1>7, <3>1 DEF RefreshInv, RefreshAnswer, TablesSame
  <2>2. CallInv(p)' /\ Claims(p)
    BY <1>3, <1>4, <1>5, <1>7, <2>1 DEF CallInv, LoginInv, FreshInv, HasSession,
       RefreshInv, AuthenticateInv, RegisterAnswer, LoginAnswer,
       AuthenticateAnswer, LogoutAnswer, Claims
  <2>3. QED
    BY <1>1, <2>2, LocalStep
<1>8. QED
  BY <1>1, <1>6, <1>7

\* A row that may be refreshed was not revoked when the call began: revoked
\* rows stay revoked, and there is only one row for the token.
LEMMA GetRefreshTokenStep ==
    ASSUME IInv, TypeOK', NEW p \in Proc, GetRefreshToken(p)
    PROVE  IInv'
<1>1. TablesSame /\ Others(p) /\ call[p] \in Call /\ call[p].op = "refresh"
  BY ServeType DEF GetRefreshToken, TablesSame, tables, clients, IInv, TypeOK,
     OpInv, Serve
<1>2. CASE \E error \in Result \ {"ok"} : Fail(p, error)
  BY <1>1, <1>2, FailInv, LocalStep DEF IInv
<1>3. CASE \E s \in sessions : /\ s.hash = call[p].token /\ s.revokedAt = Never
                               /\ pc' = [pc EXCEPT ![p] = "checkExpiry"]
                               /\ call' = [call EXCEPT ![p].user = s.user,
                                                       ![p].expiresAt = s.expiresAt]
  <2> DEFINE found(s) == [call[p] EXCEPT !.user = s.user, !.expiresAt = s.expiresAt]
  <2>1. PICK s \in sessions : /\ s.hash = call[p].token /\ s.revokedAt = Never
                              /\ pc' = [pc EXCEPT ![p] = "checkExpiry"]
                              /\ call' = [call EXCEPT ![p] = found(s)]
    BY <1>3
  <2>2. /\ found(s).user = s.user /\ found(s).op = call[p].op
        /\ found(s).expiresAt = s.expiresAt
        /\ found(s).token = call[p].token /\ found(s).start = call[p].start
        /\ found(s).dead = call[p].dead
    BY <1>1 DEF Call
  <2>3. pc'[p] = "checkExpiry" /\ call'[p] = found(s)
    BY <2>1 DEF IInv, TypeOK
  <2> HIDE DEF found
  <2>4. call[p].token \notin call[p].dead
    BY <2>1 DEF IInv, CallInv, DeadInv, Revoked, TableInv, SessionUnique
  <2>5. RefreshInv(p)'
    BY <1>1, <2>1, <2>2, <2>3, <2>4 DEF RefreshInv, TablesSame
  <2>6. CallInv(p)' /\ Claims(p)
    BY <1>1, <2>2, <2>3, <2>5 DEF IInv, CallInv, DeadInv, Revoked, TablesSame,
       KnownInv, Presented, LoginInv, FreshInv, HasSession,
       AuthenticateInv, RegisterAnswer, LoginAnswer, RefreshAnswer,
       AuthenticateAnswer, LogoutAnswer, Claims
  <2>7. QED
    BY <1>1, <2>6, LocalStep
<1>4. QED
  BY <1>2, <1>3 DEF GetRefreshToken, MayRefresh, Result

LEMMA CheckExpiryStep ==
    ASSUME IInv, TypeOK', NEW p \in Proc, CheckExpiry(p)
    PROVE  IInv'
<1>1. /\ TablesSame /\ Others(p) /\ call[p] \in Call /\ now \in Nat
      /\ pc[p] = "checkExpiry" /\ call[p].op = "refresh"
  BY ServeType DEF CheckExpiry, TablesSame, tables, clients, IInv, TypeOK,
     OpInv, Serve
<1>2. CASE Fail(p, "ErrInvalidToken")
  BY <1>1, <1>2, FailInv, LocalStep DEF IInv, Result
<1>3. CASE Goto(p, "issueAccessToken") /\ call[p].expiresAt >= now
  <2>1. pc'[p] = "issueAccessToken" /\ call'[p] = call[p]
    BY <1>3, GotoFrame DEF IInv
  <2>2. call[p].expiresAt >= call[p].start
    BY <1>1, <1>3 DEF IInv, CallInv, Call
  <2>3. RefreshInv(p)'
    BY <1>1, <2>1, <2>2 DEF RefreshInv, TablesSame, IInv, CallInv
  <2>4. CallInv(p)' /\ Claims(p)
    BY <1>1, <2>1, <2>3 DEF IInv, CallInv, DeadInv, Revoked, TablesSame,
       KnownInv, Presented, LoginInv, FreshInv, HasSession,
       AuthenticateInv, RegisterAnswer, LoginAnswer, RefreshAnswer,
       AuthenticateAnswer, LogoutAnswer, Claims
  <2>5. QED
    BY <1>1, <2>4, LocalStep
<1>4. QED
  BY <1>1, <1>2, <1>3 DEF CheckExpiry, Call

LEMMA AuthenticateStep ==
    ASSUME IInv, TypeOK', NEW p \in Proc, Authenticate(p)
    PROVE  IInv'
<1>1. /\ TablesSame /\ Others(p) /\ call[p] \in Call /\ now \in Nat
      /\ pc[p] = "authenticate" /\ call[p].op = "authenticate"
  BY ServeType DEF Authenticate, TablesSame, tables, clients, IInv, TypeOK,
     OpInv, Serve
<1>2. CASE Fail(p, "ErrInvalidToken")
  BY <1>1, <1>2, FailInv, LocalStep DEF IInv, Result
<1>3. CASE Succeed(p) /\ call[p].exp >= now
  <2>1. call[p].exp >= call[p].start
    BY <1>1, <1>3 DEF IInv, CallInv, Call
  <2>2. AuthenticateAnswer(p)'
    BY <1>1, <1>3, <2>1, SucceedFrame DEF AuthenticateAnswer, TablesSame, IInv,
       CallInv, AuthenticateInv
  <2>3. CallInv(p)' /\ Claims(p)
    BY <1>1, <1>3, <2>2, SucceedFrame DEF IInv, CallInv, DeadInv, Revoked,
       TablesSame, KnownInv, Presented, LoginInv, FreshInv, HasSession,
       RefreshInv, AuthenticateInv, RegisterAnswer, LoginAnswer, RefreshAnswer,
       LogoutAnswer, Claims
  <2>4. QED
    BY <1>1, <2>3, LocalStep
<1>4. QED
  BY <1>1, <1>2, <1>3 DEF Authenticate, Call

-----------------------------------------------------------------------------
(***************************************************************************)
(* The steps that change a table, or what clients know.                    *)
(***************************************************************************)
LEMMA SaveUserStep ==
    ASSUME IInv, TypeOK', NEW p \in Proc, SaveUser(p)
    PROVE  IInv'
<1>1. /\ Others(p) /\ call[p] \in Call /\ call[p].op = "register"
      /\ UNCHANGED <<now, sessions, refreshTokens, accessTokens>>
      /\ users \subseteq users' /\ now \in Nat
  BY ServeType DEF SaveUser, UserSaved, UserRefused, UserNotSaved, clients, IInv,
     TypeOK, OpInv, Serve
<1>2. Evolve /\ Gives(p) /\ ClientInv'
  BY <1>1 DEF Evolve, Becomes, Gives, IInv, ClientInv
<1>3. TableInv'
  <2>1. CASE UserSaved(p)
    <3>1. PICK id \in UserID \ {u.id : u \in users} : users' = users \cup {NewUser(p, id)}
      BY <2>1 DEF UserSaved
    <3>2. NewUser(p, id).id = id /\ NewUser(p, id).login = call[p].login
      BY DEF NewUser
    <3>3. \A u \in users : u.id # id /\ u.login # call[p].login
      BY <2>1 DEF UserSaved, LoginFree
    <3>4. AccountUnique'
      BY <3>1, <3>2, <3>3 DEF IInv, TableInv, AccountUnique
    <3>5. QED
      BY <1>1, <3>4 DEF TableInv, SessionUnique, IInv
  <2>2. CASE UNCHANGED users
    BY <1>1, <2>2 DEF TableInv, AccountUnique, SessionUnique, IInv
  <2>3. QED
    BY <2>1, <2>2 DEF SaveUser, UserRefused, UserNotSaved
<1>4. CASE \E error \in Result \ {"ok"} : Fail(p, error)
  BY <1>1, <1>2, <1>3, <1>4, FailInv, StepInv DEF IInv
<1>5. CASE \E id \in UserID : /\ users' = users \cup {NewUser(p, id)}
                              /\ pc' = [pc EXCEPT ![p] = "done"]
                              /\ call' = [call EXCEPT ![p].user = id,
                                                      ![p].result = "ok"]
  <2> DEFINE saved(id) == [call[p] EXCEPT !.user = id, !.result = "ok"]
  <2>1. PICK id \in UserID : /\ users' = users \cup {NewUser(p, id)}
                             /\ pc' = [pc EXCEPT ![p] = "done"]
                             /\ call' = [call EXCEPT ![p] = saved(id)]
    BY <1>5
  <2>2. /\ saved(id).user = id /\ saved(id).op = "register"
        /\ saved(id).login = call[p].login /\ saved(id).password = call[p].password
        /\ saved(id).start = call[p].start /\ saved(id).dead = call[p].dead
    BY <1>1 DEF Call
  <2>3. pc'[p] = "done" /\ call'[p] = saved(id)
    BY <2>1 DEF IInv, TypeOK
  <2> HIDE DEF saved
  <2>4. RegisterAnswer(p)'
    BY <2>1, <2>2, <2>3 DEF RegisterAnswer, NewUser
  <2>5. CallInv(p)' /\ Claims(p)
    BY <1>1, <2>2, <2>3, <2>4 DEF IInv, CallInv, DeadInv, Revoked, KnownInv,
       LoginInv, FreshInv, HasSession, RefreshInv, AuthenticateInv, LoginAnswer,
       RefreshAnswer, AuthenticateAnswer, LogoutAnswer, Claims
  <2>6. QED
    BY <1>1, <1>2, <1>3, <2>5, StepInv
<1>6. QED
  BY <1>4, <1>5 DEF SaveUser, UserSaved, UserRefused, UserNotSaved, Result

\* The UNIQUE constraint makes the new row the session of this call alone; no
\* client can know its token, for clients know tokens of saved rows only.
LEMMA SaveRefreshTokenStep ==
    ASSUME IInv, TypeOK', NEW p \in Proc, SaveRefreshToken(p)
    PROVE  IInv'
<1>1. /\ Others(p) /\ call[p] \in Call /\ call[p].op = "login"
      /\ pc[p] = "saveRefreshToken"
      /\ UNCHANGED <<now, users, refreshTokens, accessTokens>> /\ now \in Nat
  BY ServeType DEF SaveRefreshToken, clients, IInv, TypeOK, OpInv, Serve
<1>2. /\ NewSession(p).hash = call[p].token /\ NewSession(p).user = call[p].user
      /\ NewSession(p).revokedAt = Never
  BY DEF NewSession
<1>3. CASE SessionSaved(p)
  <2>1. sessions' = sessions \cup {NewSession(p)} /\ HashFree(call[p].token)
    BY <1>3 DEF SessionSaved
  <2>2. Evolve /\ Gives(p)
    BY <1>1, <1>2, <2>1 DEF Evolve, Becomes, Gives
  <2>3. TableInv' /\ ClientInv'
    BY <1>1, <1>2, <2>1 DEF IInv, TableInv, AccountUnique, SessionUnique, HashFree,
       ClientInv
  <2>4. CASE Fail(p, "internal")
    BY <1>1, <2>2, <2>3, <2>4, FailInv, StepInv DEF IInv, Result
  <2>5. CASE Goto(p, "issueAccessToken")
    <3>1. pc'[p] = "issueAccessToken" /\ call'[p] = call[p]
      BY <2>5, GotoFrame DEF IInv
    <3>2. Credentialed(p)'
      BY <1>1, <3>1 DEF IInv, CallInv, LoginInv, Credentialed, NewUser
    <3>3. call[p].token \notin refreshTokens
      BY <2>1 DEF HashFree, IInv, ClientInv
    <3>4. FreshInv(p)'
      BY <1>1, <1>2, <2>1, <3>1, <3>3 DEF FreshInv
    <3>5. DeadInv(p)'
      BY <2>2, <3>1, RevokedStays DEF DeadInv, IInv, CallInv
    <3>6. CallInv(p)' /\ Claims(p)
      BY <1>1, <2>1, <3>1, <3>2, <3>4, <3>5 DEF IInv, CallInv, KnownInv, LoginInv,
         RefreshInv, AuthenticateInv, RegisterAnswer, LoginAnswer, RefreshAnswer,
         AuthenticateAnswer, LogoutAnswer, Claims
    <3>7. QED
      BY <1>1, <2>2, <2>3, <3>6, StepInv
  <2>6. QED
    BY <1>3, <2>4, <2>5 DEF SessionSaved
<1>4. CASE SessionNotSaved(p)
  BY <1>1, <1>4, FailInv, LocalStep DEF SessionNotSaved, TablesSame, IInv, Result
<1>5. QED
  BY <1>3, <1>4 DEF SaveRefreshToken

\* Only sessions whose token clients know are ever revoked.
LEMMA SessionsStamped ==
    ASSUME IInv, NEW p \in Proc, pc[p] = "revoke", SessionRevoked(p),
           UNCHANGED <<now, users, refreshTokens, accessTokens>>
    PROVE  /\ Evolve /\ TableInv' /\ ClientInv'
           /\ \A t \in sessions' : t.hash = call[p].token => t.revokedAt # Never
<1> DEFINE became(s) == IF s.hash = call[p].token THEN Stamp(s) ELSE s
<1>1. sessions' = {became(s) : s \in sessions}
  BY DEF SessionRevoked
<1>2. call[p].token \in Presented /\ now \in Nat
  BY DEF IInv, CallInv, KnownInv, TypeOK, OpInv
<1>3. ASSUME NEW s \in sessions
      PROVE  Becomes(s, became(s)) /\ (s.hash = call[p].token => became(s).revokedAt # Never)
  <2>1. s \in RefreshTokenInRepo /\ s.hash # Null
    BY NullAssumption DEF IInv, TypeOK, RefreshTokenInRepo
  <2>2. s.hash = call[p].token => s.hash \in refreshTokens
    BY <1>2, <2>1 DEF Presented
  <2>3. /\ Stamp(s).hash = s.hash /\ Stamp(s).user = s.user
        /\ Stamp(s).expiresAt = s.expiresAt /\ Stamp(s).revokedAt # Never
    BY <1>2, <2>1 DEF Stamp, RefreshTokenInRepo, Never
  <2>4. QED
    BY <2>2, <2>3 DEF Becomes
<1> HIDE DEF became
<1>4. Evolve
  BY <1>1, <1>2, <1>3 DEF Evolve
<1>5. TableInv'
  BY <1>1, <1>3 DEF IInv, TableInv, AccountUnique, SessionUnique, Becomes
<1>6. ClientInv'
  BY <1>4 DEF Evolve, Becomes, IInv, ClientInv
<1>7. ASSUME NEW t \in sessions', t.hash = call[p].token PROVE t.revokedAt # Never
  BY <1>1, <1>3, <1>7 DEF Becomes
<1>8. QED
  BY <1>4, <1>5, <1>6, <1>7

LEMMA RevokeRefreshTokenStep ==
    ASSUME IInv, TypeOK', NEW p \in Proc, RevokeRefreshToken(p)
    PROVE  IInv'
<1>1. /\ Others(p) /\ call[p] \in Call /\ call[p].op = "logout" /\ pc[p] = "revoke"
      /\ UNCHANGED <<now, users, refreshTokens, accessTokens>> /\ Gives(p)
  BY ServeType DEF RevokeRefreshToken, clients, Gives, IInv, TypeOK, OpInv, Serve
<1>2. CASE SessionRevoked(p)
  <2>1. /\ Evolve /\ TableInv' /\ ClientInv'
        /\ \A t \in sessions' : t.hash = call[p].token => t.revokedAt # Never
    BY <1>1, <1>2, SessionsStamped
  <2>2. CASE Fail(p, "internal")
    BY <1>1, <2>1, <2>2, FailInv, StepInv DEF IInv, Result
  <2>3. CASE Succeed(p)
    <3>1. DeadInv(p)'
      BY <2>1, <2>3, SucceedFrame, RevokedStays DEF DeadInv, IInv, CallInv
    <3>2. CallInv(p)' /\ Claims(p)
      BY <1>1, <2>1, <2>3, <3>1, SucceedFrame DEF IInv, CallInv, KnownInv,
         Presented, LoginInv, FreshInv, HasSession, RefreshInv, AuthenticateInv,
         RegisterAnswer, LoginAnswer, RefreshAnswer, AuthenticateAnswer,
         LogoutAnswer, Claims
    <3>3. QED
      BY <1>1, <2>1, <3>2, StepInv
  <2>4. QED
    BY <1>2, <2>2, <2>3 DEF SessionRevoked
<1>3. CASE SessionNotRevoked(p)
  BY <1>1, <1>3, FailInv, LocalStep DEF SessionNotRevoked, TablesSame, IInv, Result
<1>4. QED
  BY <1>2, <1>3 DEF RevokeRefreshToken

\* A call without a step to take holds nothing.
LEMMA IdleInv ==
    ASSUME TypeOK', NEW p \in Proc, pc'[p] = "idle", call'[p] = Blank
    PROVE  CallInv(p)' /\ ~HasSession(p)'
<1>1. Blank.start = 0 /\ Blank.dead = {} /\ Blank.op = Null /\ Blank.token = Null
  BY DEF Blank
<1>2. now' >= 0
  BY DEF TypeOK
<1>3. QED
  BY <1>1, <1>2 DEF CallInv, DeadInv, KnownInv, Presented, LoginInv, FreshInv,
     HasSession, RefreshInv, AuthenticateInv, RegisterAnswer, LoginAnswer,
     RefreshAnswer, AuthenticateAnswer, LogoutAnswer

\* What an answer hands out is backed by what its call has found out.
LEMMA RespondStep ==
    ASSUME IInv, TypeOK', NEW p \in Proc, Respond(p)
    PROVE  IInv'
<1>1. /\ pc'[p] = "idle" /\ call'[p] = Blank /\ Others(p)
      /\ UNCHANGED <<now, users, sessions>> /\ now \in Nat
  BY RespondType DEF Respond, tables, IInv, TypeOK
<1>2. CallInv(p)' /\ Claims(p)
  BY <1>1, IdleInv DEF Claims
<1>3. Evolve /\ TableInv'
  BY <1>1 DEF Evolve, Becomes, IInv, TableInv, AccountUnique, SessionUnique
<1>4. Gives(p)
  BY DEF Respond, Gives, RefreshTokensOf, HasSession, clients
<1>5. ClientInv'
  <2>1. CASE UNCHANGED clients
    BY <1>1, <2>1 DEF clients, IInv, ClientInv
  <2>2. CASE /\ refreshTokens' = refreshTokens \cup RefreshTokensOf(call[p])
             /\ accessTokens' = accessTokens \cup AccessTokensOf(call[p])
    <3>1. CASE call[p].op = "login" /\ call[p].result = "ok"
      <4>1. \E s \in sessions : s.hash = call[p].token /\ s.user = call[p].user
        BY <3>1 DEF Respond, IInv, CallInv, LoginAnswer
      <4>2. /\ refreshTokens' = refreshTokens \cup {call[p].token}
            /\ \A a \in accessTokens' :
                  \/ a \in accessTokens
                  \/ a.user = call[p].user /\ a.session = call[p].token
        BY <2>2, <3>1 DEF RefreshTokensOf, AccessTokensOf
      <4>3. QED
        BY <1>1, <4>1, <4>2 DEF IInv, ClientInv
    <3>2. CASE call[p].op = "refresh" /\ call[p].result = "ok"
      <4>1. \E s \in sessions : s.hash = call[p].token /\ s.user = call[p].user
        BY <3>2 DEF Respond, IInv, CallInv, RefreshAnswer
      <4>2. call[p].token \in refreshTokens
        BY <3>2, NullAssumption DEF Respond, IInv, CallInv, KnownInv, Presented, TypeOK
      <4>3. /\ refreshTokens' = refreshTokens
            /\ \A a \in accessTokens' :
                  \/ a \in accessTokens
                  \/ a.user = call[p].user /\ a.session = call[p].token
        BY <2>2, <3>2 DEF RefreshTokensOf, AccessTokensOf
      <4>4. QED
        BY <1>1, <4>1, <4>2, <4>3 DEF IInv, ClientInv
    <3>3. CASE ~ (call[p].op \in {"login", "refresh"} /\ call[p].result = "ok")
      BY <1>1, <2>2, <3>3 DEF RefreshTokensOf, AccessTokensOf, IInv, ClientInv
    <3>4. QED
      BY <3>1, <3>2, <3>3
  <2>3. QED
    BY <2>1, <2>2 DEF Respond
<1>6. QED
  BY <1>1, <1>2, <1>3, <1>4, <1>5, StepInv

LEMMA TickStep ==
    ASSUME IInv, TypeOK', Tick
    PROVE  IInv'
<1>1. /\ UNCHANGED <<users, sessions, pc, call, refreshTokens, accessTokens>>
      /\ now' = now + 1 /\ now \in Nat
  BY DEF Tick, tables, clients, IInv, TypeOK
<1>2. TableInv' /\ ClientInv' /\ DistinctInv'
  BY <1>1 DEF IInv, TableInv, AccountUnique, SessionUnique, ClientInv, DistinctInv,
     HasSession
<1>3. ASSUME NEW q \in Proc PROVE CallInv(q)'
  <2>1. call[q].start \in Nat /\ CallInv(q)
    BY DEF IInv, TypeOK, Call
  <2>2. QED
    BY <1>1, <2>1 DEF CallInv, DeadInv, Revoked, KnownInv, Presented, LoginInv,
       Credentialed, NewUser, FreshInv, HasSession, RefreshInv, AuthenticateInv,
       RegisterAnswer, LoginAnswer, RefreshAnswer, AuthenticateAnswer, LogoutAnswer
<1>4. QED
  BY <1>2, <1>3 DEF IInv

LEMMA CrashStep ==
    ASSUME IInv, TypeOK', Crash
    PROVE  IInv'
<1>1. \A p \in Proc : CallInv(p)' /\ ~HasSession(p)'
  BY IdleInv DEF Crash
<1>2. TableInv' /\ ClientInv'
  BY DEF Crash, tables, clients, IInv, TableInv, AccountUnique, SessionUnique, ClientInv
<1>3. QED
  BY <1>1, <1>2 DEF IInv, DistinctInv

-----------------------------------------------------------------------------
(***************************************************************************)
(* The theorems.                                                           *)
(***************************************************************************)
LEMMA InvInit == Init => IInv
<1> SUFFICES ASSUME Init PROVE IInv
  OBVIOUS
<1>1. TypeOK
  BY TypeInit
<1>2. TableInv /\ ClientInv
  BY DEF Init, TableInv, AccountUnique, SessionUnique, ClientInv
<1>3. ASSUME NEW p \in Proc PROVE CallInv(p) /\ ~HasSession(p)
  <2>1. /\ pc[p] = "idle" /\ call[p] = Blank /\ now = 0
        /\ Blank.start = 0 /\ Blank.dead = {} /\ Blank.token = Null
    BY DEF Init, Blank
  <2>2. QED
    BY <2>1 DEF CallInv, DeadInv, KnownInv, Presented, LoginInv, FreshInv,
       HasSession, RefreshInv, AuthenticateInv, RegisterAnswer, LoginAnswer,
       RefreshAnswer, AuthenticateAnswer, LogoutAnswer
<1>4. QED
  BY <1>1, <1>2, <1>3 DEF IInv, DistinctInv

LEMMA ServeStep ==
    ASSUME IInv, TypeOK', NEW p \in Proc, Serve(p)
    PROVE  IInv'
BY SaveUserStep, GetUserStep, IssueRefreshTokenStep, SaveRefreshTokenStep,
   IssueAccessTokenStep, RevokeRefreshTokenStep, GetRefreshTokenStep,
   CheckExpiryStep, AuthenticateStep DEF Serve

LEMMA StutterStep ==
    ASSUME IInv, UNCHANGED vars
    PROVE  IInv'
<1>1. UNCHANGED <<now, users, sessions, pc, call, refreshTokens, accessTokens>>
  BY DEF vars
<1>2. ASSUME NEW q \in Proc PROVE CallInv(q)'
  BY <1>1 DEF IInv, CallInv, DeadInv, Revoked, KnownInv, Presented, LoginInv,
     Credentialed, NewUser, FreshInv, HasSession, RefreshInv, AuthenticateInv,
     RegisterAnswer, LoginAnswer, RefreshAnswer, AuthenticateAnswer, LogoutAnswer
<1>3. TypeOK' /\ TableInv' /\ ClientInv' /\ DistinctInv'
  BY <1>1 DEF IInv, TypeOK, OpInv, TableInv, AccountUnique, SessionUnique, ClientInv,
     DistinctInv, HasSession
<1>4. QED
  BY <1>2, <1>3 DEF IInv

LEMMA InvStep == IInv /\ [Next]_vars => IInv'
<1> SUFFICES ASSUME IInv, [Next]_vars PROVE IInv'
  OBVIOUS
<1>1. TypeOK'
  BY TypeStep DEF IInv
<1>2. QED
  BY <1>1, RequestStep, ServeStep, RespondStep, TickStep, CrashStep, StutterStep
     DEF Next

\* The inductive invariant holds: accounts, sessions, the calls in flight and
\* the tokens in clients' hands stay in the relation the properties below are
\* read off from.
THEOREM InvariantHolds == Spec => []IInv
BY InvInit, InvStep, PTL DEF Spec

\* The UNIQUE constraint and the primary key keep accounts apart.
THEOREM AccountsUnique == Spec => []AccountUnique
<1>1. IInv => AccountUnique
  BY DEF IInv, TableInv
<1>2. QED
  BY <1>1, InvariantHolds, PTL

\* Each refresh token has one session, whatever the service draws.
THEOREM SessionsUnique == Spec => []SessionUnique
<1>1. IInv => SessionUnique
  BY DEF IInv, TableInv
<1>2. QED
  BY <1>1, InvariantHolds, PTL

\* A Register that reports success has created the account as asked.
THEOREM RegisterDurable == Spec => []RegisterAckMeansAccount
<1>1. IInv => RegisterAckMeansAccount
  BY DEF IInv, CallInv, RegisterAckMeansAccount
<1>2. QED
  BY <1>1, InvariantHolds, PTL

\* A Login that reports success had the password and hands out a session that
\* is in the table and cannot have been revoked by anyone.
THEOREM LoginHonest == Spec => []LoginAckMeansSession
<1>1. IInv => LoginAckMeansSession
  BY DEF IInv, CallInv, LoginAckMeansSession
<1>2. QED
  BY <1>1, InvariantHolds, PTL

\* Refresh serves no session that was revoked or expired when it was asked.
THEOREM RefreshHonest == Spec => []RefreshNeedsSession
<1>1. IInv => RefreshNeedsSession
  BY DEF IInv, CallInv, RefreshNeedsSession
<1>2. QED
  BY <1>1, InvariantHolds, PTL

\* Authenticate names the user of the session the token was issued for.
THEOREM AuthenticateHonest == Spec => []AuthenticateNeedsGrant
<1>1. IInv => AuthenticateNeedsGrant
  BY DEF IInv, CallInv, AuthenticateNeedsGrant
<1>2. QED
  BY <1>1, InvariantHolds, PTL

\* A Logout that reports success has revoked the session.
THEOREM LogoutDurable == Spec => []LogoutAckMeansRevoked
<1>1. IInv => LogoutAckMeansRevoked
  BY DEF IInv, CallInv, LogoutAckMeansRevoked
<1>2. QED
  BY <1>1, InvariantHolds, PTL

\* Sessions stay, and the first revocation is the last word.
THEOREM RevocationLasts == Spec => RevocationFinal
<1> DEFINE Kept == \A s \in sessions :
                      \/ s \in sessions'
                      \/ s.revokedAt = Never /\ [s EXCEPT !.revokedAt = now] \in sessions'
<1>1. [Next]_vars => Kept
  <2> SUFFICES ASSUME [Next]_vars PROVE Kept
    OBVIOUS
  <2>1. ASSUME NEW p \in Proc, RevokeRefreshToken(p) PROVE Kept
    BY <2>1 DEF RevokeRefreshToken, SessionRevoked, SessionNotRevoked, Stamp
  <2>2. ASSUME NEW p \in Proc, SaveRefreshToken(p) PROVE sessions \subseteq sessions'
    BY <2>2 DEF SaveRefreshToken, SessionSaved, SessionNotSaved
  <2>3. ASSUME NEW p \in Proc, Serve(p) PROVE Kept
    BY <2>1, <2>2, <2>3 DEF Serve, SaveUser, GetUser, IssueRefreshToken,
       GetRefreshToken, CheckExpiry, IssueAccessToken, Authenticate, tables
  <2>4. ASSUME NEW p \in Proc, Request(p) \/ Respond(p) PROVE Kept
    BY <2>4 DEF Request, Register, Login, Logout, Refresh, PresentJWT, Begin,
       Respond, tables
  <2>5. Tick \/ Crash => Kept
    BY DEF Tick, Crash, tables
  <2>6. UNCHANGED vars => Kept
    BY DEF vars
  <2>7. QED
    BY <2>3, <2>4, <2>5, <2>6 DEF Next
<1>2. QED
  BY <1>1, PTL DEF Spec, RevocationFinal

=============================================================================
