--------------------------- MODULE HttpApiProofs ---------------------------
(***************************************************************************)
(* The answers of the HTTP API are true, for every number of requests,     *)
(* tokens, users and URLs: the invariants of HttpApi follow from an        *)
(* inductive one, and every step of it is a step of TokenRegistry or       *)
(* invisible there.                                                        *)
(***************************************************************************)
EXTENDS HttpApi, UrlProofs

-----------------------------------------------------------------------------
(***************************************************************************)
(* Types.                                                                  *)
(***************************************************************************)

\* What normalizeHTTP makes of the URLs that clients send.
Stored == {NormalizeHTTP(raw) : raw \in {sent \in SentURL : Accepts(sent)}}

Owner == User \cup {Null}

StoredRow == [token : Token, url : Stored, expiresAt : Nat, owner : Owner]

Error == {"internal", "ErrTokenIsNotUnique", "ErrTokenDoesNotExist",
          "ErrTokenExpired", "ErrNotTokenOwner"}

Job == [phase : {"idle", "asked", "saved", "done"},
        op : {"create", "resolve", "delete", Null}, token : Token \cup {Null},
        url : Stored \cup {Null}, expiresAt : Nat, user : Owner, since : Nat,
        result : Error \cup {"ok", Null}]

Context == [type : {"none", "string", "bytes"}, user : Owner]

Answered == [status : Statuses \cup {"none"}, what : Stored \cup Token \cup {Null}]

RegistryType ==
    /\ now \in 0..MaxTime
    /\ rows \subseteq history
    /\ history \subseteq StoredRow
    /\ deletedAt \in [Token -> Int]
    /\ \A t \in Token : Never <= deletedAt[t] /\ deletedAt[t] <= now
    /\ job \in [Proc -> Job]

PipelineType ==
    /\ req \in [Proc -> Req \cup {NoReq}]
    /\ arrival \in [Proc -> [time : 0..MaxTime, held : SUBSET history]]
    /\ effect \in [Proc -> BOOLEAN]
    /\ conn \in [Proc -> {"idle", "select", "observe", "answered", "closed"}]
    /\ handler \in [Proc -> {"none", "auth", "handle", "call", "done"}]
    /\ seen \in [Proc -> Context]
    /\ ctx \in [Proc -> Context]
    /\ ww \in [Proc -> Answered]
    /\ answer \in [Proc -> Answered]

-----------------------------------------------------------------------------
(***************************************************************************)
(* The inductive invariant: what holds of each request, and of two.        *)
(***************************************************************************)
Creating(p) == job[p].op = "create" /\ job[p].phase \in {"asked", "saved"}

Done(p, op, result) ==
    job[p].phase = "done" /\ job[p].op = op /\ job[p].result = result

OpFits(p) ==
    \/ req[p].endpoint \in {"generate", "create"} /\ job[p].op = "create"
    \/ req[p].endpoint = "resolve" /\ job[p].op = "resolve"
    \/ req[p].endpoint = "delete" /\ job[p].op = "delete"

\* The two goroutines of a request, its call of the service, and the slot of
\* the context that they use.
Control(p) ==
    /\ conn[p] = "idle" => /\ handler[p] = "none" /\ ~effect[p]
                           /\ ww[p] = NoReply /\ answer[p] = NoReply
    /\ handler[p] # "call" => job[p] = NoJob
    /\ handler[p] = "call" => /\ job[p].phase \in {"asked", "saved", "done"}
                              /\ OpFits(p)
    /\ job[p].phase = "saved" => job[p].op = "create"
    /\ handler[p] \in {"handle", "call"} /\ req[p].endpoint \in RequiresAuth
         => ctx[p] = ContextWithUserID(req[p].bearer)
    /\ conn[p] \in {"select", "observe"} => HasRequestID(seen[p])

\* Where a request is that has, or will have, nothing changed.
Harmless(p) ==
    \/ handler[p] \in {"auth", "handle"}
    \/ /\ handler[p] = "call"
       /\ \/ job[p].op = "resolve" \/ job[p].phase = "asked"
          \/ Done(p, "create", "ErrTokenIsNotUnique")
          \/ Done(p, "delete", "ErrNotTokenOwner")

Refused(reply) == reply.status \in {"400", "401", "403", "404"}

Effects(p) ==
    /\ Harmless(p) => ~effect[p]
    /\ Refused(ww[p]) \/ Refused(answer[p])
         => handler[p] \in {"none", "done"} /\ ~effect[p]

\* p has the token t, or is about to be told so.
Claims(p, t) ==
    \/ /\ job[p].token = t
       /\ job[p].phase = "saved" \/ Done(p, "create", "ok")
    \/ ww[p].status = "201" /\ ww[p].what = t
    \/ answer[p].status = "201" /\ answer[p].what = t

Owns(p, t) ==
    \E r \in history : /\ r.token = t /\ r.owner = req[p].bearer
                       /\ r.url = NormalizeHTTP(req[p].url)

Creates(p) ==
    /\ Creating(p) => /\ job[p].token \in Token
                      /\ job[p].user = req[p].bearer
                      /\ job[p].url = NormalizeHTTP(req[p].url)
                      /\ job[p].url \in Stored
    /\ \A t : Claims(p, t) => Owns(p, t)

\* What p saw of the token it is to delete is gone.
Gone(p) == arrival[p].held # {} => deletedAt[req[p].token] >= arrival[p].time

Deletes(p) ==
    /\ arrival[p].time <= now
    /\ \A r \in arrival[p].held :
          /\ req[p].endpoint = "delete" => r.token = req[p].token
          /\ r \in rows \/ deletedAt[r.token] >= arrival[p].time
    /\ job[p].op = "delete" /\ job[p].phase # "idle" => job[p].token = req[p].token
    /\ job[p].op = "delete" /\ job[p].phase = "asked" => job[p].user = req[p].bearer
    /\ Done(p, "delete", "ok") => Gone(p)
    /\ req[p].endpoint = "delete" /\ (ww[p].status = "200" \/ answer[p].status = "200")
         => Gone(p)

\* The token that p resolves has, or had, this URL.
Leads(p, url) == \E r \in history : r.token = req[p].token /\ r.url = url

Resolves(p) ==
    /\ job[p].op = "resolve" /\ job[p].phase # "idle" => job[p].token = req[p].token
    /\ Done(p, "resolve", "ok") => Leads(p, job[p].url)
    /\ ww[p].status = "307" => Leads(p, ww[p].what)
    /\ answer[p].status = "307" => Leads(p, answer[p].what)

RequestInv(p) == Control(p) /\ Effects(p) /\ Creates(p) /\ Deletes(p) /\ Resolves(p)

\* A row is there until its token is deleted.
Kept == \A r \in history : r \in rows \/ deletedAt[r.token] # Never

\* A token has one row until it is deleted.
Alone ==
    \A r, s \in history : r.token = s.token => r = s \/ deletedAt[r.token] # Never

\* Two requests have one token only if it was deleted in between.
Once ==
    \A p, q \in Proc, t \in Token :
        p # q /\ Claims(p, t) /\ Claims(q, t) => deletedAt[t] # Never

IInv == RegistryType /\ PipelineType /\ Kept /\ Alone /\ Once
            /\ \A p \in Proc : RequestInv(p)

-----------------------------------------------------------------------------
(***************************************************************************)
(* The pieces a request and a call are made of.                            *)
(***************************************************************************)
LEMMA ReqShape ==
    ASSUME NEW r \in Req \cup {NoReq}
    PROVE  /\ r.endpoint \in {"generate", "create"} => r.url \in SentURL
           /\ r.endpoint \in {"resolve", "delete"} => r.token \in Token
           /\ r.endpoint = "create" => r.token \in Token \cup {Null}
           /\ r.endpoint \in RequiresAuth => r.bearer \in User
           /\ r.endpoint = "generate" => r.bearer = Null
BY DEF Req, NoReq, RequiresAuth

LEMMA RoutedType ==
    ASSUME NEW r \in Req
    PROVE  /\ Routed(r) \in Req
           /\ Routed(r).endpoint = "delete" => Routed(r).token = r.token
<1>1. CASE r.endpoint = "resolve" /\ r.token = Health
  <2>1. /\ r \in [endpoint : {"resolve"}, token : Token, url : {Null}, bearer : {Null}]
    BY <1>1 DEF Req
  <2>2. Routed(r) = [r EXCEPT !.endpoint = "health", !.token = Null]
    BY <1>1 DEF Routed
  <2>3. Routed(r) \in [endpoint : {"health"}, token : {Null}, url : {Null}, bearer : {Null}]
    BY <2>1, <2>2
  <2>4. QED
    BY <2>3 DEF Req
<1>2. CASE ~(r.endpoint = "resolve" /\ r.token = Health)
  BY <1>2 DEF Routed
<1>3. QED
  BY <1>1, <1>2

LEMMA ReplyType ==
    ASSUME NEW status \in Statuses \cup {"none"}, NEW what \in Stored \cup Token \cup {Null}
    PROVE  /\ Reply(status, what) \in Answered
           /\ Reply(status, what).status = status /\ Reply(status, what).what = what
BY DEF Reply, Answered

LEMMA NoReplyType == NoReply \in Answered /\ NoReply.status = "none"
BY DEF NoReply, Reply, Answered

LEMMA ContextType ==
    /\ NoContext \in Context
    /\ ContextWithRequestID \in Context /\ HasRequestID(ContextWithRequestID)
    /\ \A user \in Owner : /\ ContextWithUserID(user) \in Context
                           /\ ContextWithUserID(user).user = user
                           /\ HasUserID(ContextWithUserID(user))
BY DEF NoContext, Context, ContextWithRequestID, HasRequestID, ContextWithUserID,
       HasUserID, Owner

LEMMA NoJobType ==
    /\ NoJob \in Job /\ NoJob.phase = "idle"
    /\ NoJob.op = Null /\ NoJob.token = Null /\ NoJob.url = Null
    /\ NoJob.expiresAt = 0 /\ NoJob.user = Null /\ NoJob.since = 0
    /\ NoJob.result = Null
BY DEF NoJob, Job, Owner

\* The three calls of the service.
CreateCall(t, u, at, user) ==
    [NoJob EXCEPT !.phase = "asked", !.op = "create", !.token = t, !.url = u,
                  !.expiresAt = at, !.user = user]

ResolveCall(t, since) ==
    [NoJob EXCEPT !.phase = "asked", !.op = "resolve", !.token = t, !.since = since]

DeleteCall(t, user) ==
    [NoJob EXCEPT !.phase = "asked", !.op = "delete", !.token = t, !.user = user]

LEMMA CreateCallType ==
    ASSUME NEW t \in Token, NEW u \in Stored, NEW at \in Nat, NEW user \in Owner
    PROVE  LET j == CreateCall(t, u, at, user)
           IN  /\ j \in Job /\ j.phase = "asked" /\ j.op = "create" /\ j.token = t
               /\ j.url = u /\ j.user = user
BY DEF CreateCall, NoJob, Job

LEMMA ResolveCallType ==
    ASSUME NEW t \in Token, NEW since \in Nat
    PROVE  LET j == ResolveCall(t, since)
           IN  j \in Job /\ j.phase = "asked" /\ j.op = "resolve" /\ j.token = t
BY DEF ResolveCall, NoJob, Job, Owner

LEMMA DeleteCallType ==
    ASSUME NEW t \in Token, NEW user \in Owner
    PROVE  LET j == DeleteCall(t, user)
           IN  /\ j \in Job /\ j.phase = "asked" /\ j.op = "delete" /\ j.token = t
               /\ j.user = user
BY DEF DeleteCall, NoJob, Job, Owner

LEMMA SavedType ==
    ASSUME NEW j \in Job
    PROVE  LET k == [j EXCEPT !.phase = "saved"]
           IN  /\ k \in Job /\ k.phase = "saved" /\ k.op = j.op /\ k.token = j.token
               /\ k.url = j.url /\ k.user = j.user
BY DEF Job

LEMMA SucceededType ==
    ASSUME NEW j \in Job
    PROVE  LET k == [j EXCEPT !.phase = "done", !.result = "ok"]
           IN  /\ k \in Job /\ k.phase = "done" /\ k.result = "ok"
               /\ k.op = j.op /\ k.token = j.token
BY DEF Job

LEMMA ResolvedType ==
    ASSUME NEW j \in Job, NEW u \in Stored
    PROVE  LET k == [j EXCEPT !.phase = "done", !.url = u, !.result = "ok"]
           IN  /\ k \in Job /\ k.phase = "done" /\ k.result = "ok"
               /\ k.op = j.op /\ k.token = j.token /\ k.url = u
BY DEF Job

LEMMA FailedType ==
    ASSUME NEW j \in Job, NEW error \in Error
    PROVE  LET k == [NoJob EXCEPT !.phase = "done", !.op = j.op, !.token = j.token,
                                  !.result = error]
           IN  /\ k \in Job /\ k.phase = "done" /\ k.result = error
               /\ k.op = j.op /\ k.token = j.token
BY DEF Job, NoJob, Error, Owner

\* The rows that a create adds are rows.
LEMMA RowOfType ==
    ASSUME NEW j \in Job, j.token \in Token, j.url \in Stored
    PROVE  /\ RowOf(j) \in StoredRow
           /\ RowOf(j).token = j.token /\ RowOf(j).url = j.url /\ RowOf(j).owner = j.user
BY DEF Job, RowOf, StoredRow

LEMMA StoredRowFields ==
    ASSUME NEW r \in StoredRow
    PROVE  r.token \in Token /\ r.url \in Stored /\ r.owner \in Owner
BY DEF StoredRow

\* What each status says about the call it comes from.
LEMMA StatusSays ==
    ASSUME NEW endpoint \in {"generate", "resolve", "create", "delete"}, NEW result
    PROVE  LET s == Status(endpoint, result) IN
           /\ s \in Statuses
           /\ s = "201" => endpoint \in {"generate", "create"} /\ result = "ok"
           /\ s = "307" => endpoint = "resolve" /\ result = "ok"
           /\ s = "200" => endpoint = "delete" /\ result = "ok"
           /\ s = "400" => endpoint = "create" /\ result = "ErrTokenIsNotUnique"
           /\ s = "403" => endpoint = "delete" /\ result = "ErrNotTokenOwner"
           /\ s = "404" => endpoint = "resolve"
           /\ s # "401"
<1>1. CASE endpoint \in {"generate", "create"} /\ result = "ok"
  BY <1>1 DEF Status, Statuses
<1>2. CASE endpoint = "create" /\ result = "ErrTokenIsNotUnique"
  BY <1>2 DEF Status, Statuses
<1>3. CASE endpoint = "resolve"
  BY <1>3 DEF Status, Statuses
<1>4. CASE endpoint = "delete" /\ result = "ok"
  BY <1>4 DEF Status, Statuses
<1>5. CASE endpoint = "delete" /\ result = "ErrNotTokenOwner"
  BY <1>5 DEF Status, Statuses
<1>6. CASE /\ ~(endpoint \in {"generate", "create"} /\ result = "ok")
           /\ ~(endpoint = "create" /\ result = "ErrTokenIsNotUnique")
           /\ endpoint # "resolve"
           /\ ~(endpoint = "delete" /\ result = "ok")
           /\ ~(endpoint = "delete" /\ result = "ErrNotTokenOwner")
  <2>1. Status(endpoint, result) = "500"
    BY <1>6 DEF Status
  <2>2. QED
    BY <2>1 DEF Statuses
<1>7. QED
  BY <1>1, <1>2, <1>3, <1>4, <1>5, <1>6

-----------------------------------------------------------------------------
(***************************************************************************)
(* What a step leaves alone.                                               *)
(***************************************************************************)
Same(q) ==
    /\ job'[q] = job[q] /\ req'[q] = req[q] /\ arrival'[q] = arrival[q]
    /\ effect'[q] = effect[q] /\ conn'[q] = conn[q] /\ handler'[q] = handler[q]
    /\ seen'[q] = seen[q] /\ ctx'[q] = ctx[q] /\ ww'[q] = ww[q] /\ answer'[q] = answer[q]

Only(p) == \A q \in Proc : q # p => Same(q)

\* Time passes, rows are added, and those that are deleted are deleted now.
Grows ==
    /\ now <= now' /\ history \subseteq history'
    /\ \A t \in Token : deletedAt[t] <= deletedAt'[t]
    /\ \A r \in rows : r \in rows' \/ deletedAt'[r.token] = now

RowsUnchanged == UNCHANGED <<now, rows, history, deletedAt>>

LEMMA UnchangedGrows ==
    ASSUME RegistryType, RowsUnchanged
    PROVE  Grows
BY DEF RegistryType, RowsUnchanged, Grows

LEMMA HistoryType ==
    ASSUME RegistryType, NEW r \in history
    PROVE  /\ r.token \in Token /\ r.url \in Stored
           /\ deletedAt[r.token] \in Int /\ Never <= deletedAt[r.token]
BY StoredRowFields DEF RegistryType

\* A call that has begun is a call of its handler.
LEMMA InCall ==
    ASSUME NEW q \in Proc, Control(q), job[q].phase # "idle"
    PROVE  handler[q] = "call" /\ OpFits(q)
BY NoJobType DEF Control

LEMMA OwnsGrows ==
    ASSUME Grows, NEW q \in Proc, req'[q] = req[q], NEW t, Owns(q, t)
    PROVE  Owns(q, t)'
BY DEF Owns, Grows

LEMMA LeadsGrows ==
    ASSUME Grows, NEW q \in Proc, req'[q] = req[q], NEW u, Leads(q, u)
    PROVE  Leads(q, u)'
BY DEF Leads, Grows

\* What has been deleted since a request came stays so.
LEMMA DeletesGrows ==
    ASSUME RegistryType, PipelineType, RegistryType', Grows, NEW q \in Proc, Deletes(q),
           req'[q] = req[q], arrival'[q] = arrival[q]
    PROVE  /\ arrival'[q].time <= now'
           /\ \A r \in arrival'[q].held :
                 /\ req'[q].endpoint = "delete" => r.token = req'[q].token
                 /\ r \in rows' \/ deletedAt'[r.token] >= arrival'[q].time
           /\ req[q].endpoint = "delete" /\ Gone(q) => Gone(q)'
<1>1. /\ arrival[q].time \in Nat /\ now \in Nat /\ now' \in Nat
      /\ arrival[q].held \subseteq history
  BY TimesAssumption DEF PipelineType, RegistryType
<1>2. arrival[q].time <= now /\ arrival'[q].time <= now'
  BY <1>1 DEF Deletes, Grows
<1>3. ASSUME NEW r \in arrival[q].held
      PROVE  r \in rows' \/ deletedAt'[r.token] >= arrival[q].time
  <2>1. r \in rows \/ deletedAt[r.token] >= arrival[q].time
    BY <1>3 DEF Deletes
  <2>2. r.token \in Token /\ deletedAt[r.token] \in Int /\ deletedAt'[r.token] \in Int
    BY <1>1, <1>3, HistoryType DEF RegistryType
  <2>3. CASE r \in rows
    BY <1>1, <1>2, <2>2, <2>3 DEF Grows
  <2>4. CASE deletedAt[r.token] >= arrival[q].time
    BY <1>1, <2>2, <2>4 DEF Grows
  <2>5. QED
    BY <2>1, <2>3, <2>4
<1>4. ASSUME Gone(q), req[q].endpoint = "delete", arrival[q].held # {}
      PROVE  deletedAt'[req[q].token] >= arrival[q].time
  <2>1. deletedAt[req[q].token] >= arrival[q].time
    BY <1>4 DEF Gone
  <2>2. req[q].token \in Token
    BY <1>4, ReqShape DEF PipelineType
  <2>3. QED
    BY <1>1, <2>1, <2>2 DEF Grows, RegistryType
<1>5. QED
  BY <1>2, <1>3, <1>4 DEF Deletes, Gone

\* What holds of a request holds on while others are served.
LEMMA SameKeeps ==
    ASSUME RegistryType, PipelineType, RegistryType', Grows,
           NEW q \in Proc, RequestInv(q), Same(q)
    PROVE  RequestInv(q)'
<1>1. Control(q) /\ Effects(q) /\ Creates(q) /\ Deletes(q) /\ Resolves(q)
  BY DEF RequestInv
<1>2. Control(q)'
  BY <1>1 DEF Control, Same, OpFits, HasRequestID
<1>3. Effects(q)'
  BY <1>1 DEF Effects, Same, Harmless, Done, Refused
<1>4. Creates(q)'
  <2>1. (Creating(q)' <=> Creating(q)) /\ \A t : Claims(q, t)' <=> Claims(q, t)
    BY DEF Same, Creating, Claims, Done
  <2>2. QED
    BY <1>1, <2>1, OwnsGrows DEF Creates, Same
<1>5. Deletes(q)'
  <2>1. Done(q, "delete", "ok") => req[q].endpoint = "delete"
    BY <1>1, InCall DEF Done, OpFits
  <2>2. Done(q, "delete", "ok")' <=> Done(q, "delete", "ok")
    BY DEF Done, Same
  <2>3. QED
    BY <1>1, <2>1, <2>2, DeletesGrows DEF Deletes, Same
<1>6. Resolves(q)'
  BY <1>1, LeadsGrows DEF Resolves, Same, Done
<1>7. QED
  BY <1>2, <1>3, <1>4, <1>5, <1>6 DEF RequestInv

LEMMA SameKeepsAll ==
    ASSUME IInv, RegistryType', Grows, NEW p \in Proc, Only(p)
    PROVE  \A q \in Proc : q # p => RequestInv(q)'
BY SameKeeps DEF IInv, Only

\* A step of one request: what is left to show is what it does to itself, and
\* that it takes a token only if nobody has it.
LEMMA OneRequest ==
    ASSUME IInv, NEW p \in Proc, Only(p), Grows,
           RegistryType', PipelineType', RequestInv(p)',
           history' \subseteq history \cup rows',
           \A r \in history' \ history : RowsOf(r.token) = {} /\ history' = history \cup {r},
           \A t : Claims(p, t)' => Claims(p, t) \/ RowsOf(t) = {}
    PROVE  IInv'
<1>1. \A q \in Proc : RequestInv(q)'
  BY SameKeepsAll
<1>2. \A t \in Token : deletedAt[t] # Never => deletedAt'[t] # Never
  <2>1. ASSUME NEW t \in Token, deletedAt[t] # Never PROVE deletedAt'[t] # Never
    <3>1. /\ deletedAt[t] \in Int /\ deletedAt'[t] \in Int
          /\ Never <= deletedAt[t] /\ deletedAt[t] <= deletedAt'[t]
      BY DEF IInv, RegistryType, Grows
    <3>2. QED
      BY <2>1, <3>1 DEF Never
  <2>2. QED
    BY <2>1
<1>3. Kept'
  <2>1. SUFFICES ASSUME NEW r \in history', r \notin rows' PROVE deletedAt'[r.token] # Never
    BY DEF Kept
  <2>2. r \in history
    BY <2>1
  <2>3. r.token \in Token
    BY <2>2, HistoryType DEF IInv
  <2>4. CASE r \in rows
    <3>1. deletedAt'[r.token] = now /\ now \in Nat
      BY <2>1, <2>4, TimesAssumption DEF Grows, IInv, RegistryType
    <3>2. QED
      BY <3>1 DEF Never
  <2>5. CASE r \notin rows
    BY <1>2, <2>2, <2>3, <2>5 DEF IInv, Kept
  <2>6. QED
    BY <2>4, <2>5
<1>4. \A q \in Proc, t \in Token : q # p => (Claims(q, t)' <=> Claims(q, t))
  BY DEF Only, Same, Claims, Done
<1>5. ASSUME NEW q \in Proc, NEW t \in Token, q # p, Claims(p, t)', Claims(q, t)
      PROVE  deletedAt'[t] # Never
  <2>1. CASE Claims(p, t)
    BY <1>2, <1>5, <2>1 DEF IInv, Once
  <2>2. CASE RowsOf(t) = {}
    <3>1. PICK r \in history : r.token = t
      BY <1>5 DEF IInv, RequestInv, Creates, Owns
    <3>2. r \notin rows
      BY <2>2, <3>1 DEF RowsOf
    <3>3. QED
      BY <1>2, <3>1, <3>2 DEF IInv, Kept
  <2>3. QED
    BY <1>5, <2>1, <2>2
<1>6. Once'
  <2>1. SUFFICES ASSUME NEW q \in Proc, NEW s \in Proc, NEW t \in Token, q # s,
                        Claims(q, t)', Claims(s, t)'
                 PROVE  deletedAt'[t] # Never
    BY DEF Once
  <2>2. CASE q = p
    BY <1>4, <1>5, <2>1, <2>2
  <2>3. CASE s = p
    BY <1>4, <1>5, <2>1, <2>3
  <2>4. CASE q # p /\ s # p
    BY <1>2, <1>4, <2>1, <2>4 DEF IInv, Once
  <2>5. QED
    BY <2>2, <2>3, <2>4
<1>7. Alone'
  <2>1. SUFFICES ASSUME NEW r \in history', NEW s \in history', r.token = s.token,
                        r # s, r \in history
                 PROVE  deletedAt'[r.token] # Never
    BY DEF Alone
  <2>2. r.token \in Token
    BY <2>1, HistoryType DEF IInv
  <2>3. CASE s \in history
    BY <1>2, <2>1, <2>2, <2>3 DEF IInv, Alone
  <2>4. CASE s \notin history
    <3>1. r \notin rows
      BY <2>1, <2>4 DEF RowsOf
    <3>2. QED
      BY <1>2, <2>1, <2>2, <3>1 DEF IInv, Kept
  <2>5. QED
    BY <2>3, <2>4
<1>8. QED
  BY <1>1, <1>3, <1>6, <1>7 DEF IInv

\* A step that leaves the register alone but for the call.
LEMMA OneHandler ==
    ASSUME IInv, NEW p \in Proc, Only(p), RowsUnchanged, job' \in [Proc -> Job],
           PipelineType', RequestInv(p)', \A t : Claims(p, t)' => Claims(p, t)
    PROVE  IInv'
<1>1. RegistryType' /\ history' = history /\ history \subseteq rows' \cup history
  BY DEF IInv, RegistryType, RowsUnchanged
<1>2. Grows
  BY UnchangedGrows DEF IInv
<1>3. QED
  BY <1>1, <1>2, OneRequest

-----------------------------------------------------------------------------
(***************************************************************************)
(* The steps outside the service.                                          *)
(***************************************************************************)
LEMMA ArriveKeeps ==
    ASSUME IInv, NEW p \in Proc, Arrive(p)
    PROVE  IInv'
<1>1. PICK r \in Req :
         /\ req' = [req EXCEPT ![p] = Routed(r)]
         /\ arrival' = [arrival EXCEPT ![p] = [time |-> now, held |-> RowsOf(r.token)]]
  BY DEF Arrive
<1>2. /\ conn[p] = "idle" /\ handler[p] = "none" /\ job[p] = NoJob /\ ~effect[p]
      /\ ww[p] = NoReply /\ answer[p] = NoReply
  BY DEF IInv, RequestInv, Control, Arrive
<1>3. /\ req'[p] = Routed(r) /\ req'[p] \in Req
      /\ req'[p].endpoint = "delete" => req'[p].token = r.token
  BY <1>1, RoutedType DEF IInv, PipelineType
<1>4. /\ arrival'[p] = [time |-> now, held |-> RowsOf(r.token)]
      /\ arrival'[p].time = now /\ arrival'[p].held = RowsOf(r.token)
  BY <1>1 DEF IInv, PipelineType
<1>5. /\ seen'[p] = ContextWithRequestID /\ ctx'[p] = ContextWithRequestID
      /\ conn'[p] = "select" /\ handler'[p] \in {"auth", "handle"}
      /\ handler'[p] = "handle" => req'[p].endpoint \notin RequiresAuth
      /\ ww'[p] = NoReply /\ ~effect'[p] /\ job'[p] = NoJob
      /\ RowsUnchanged /\ job' = job /\ effect' = effect /\ ww' = ww
  BY <1>2 DEF IInv, PipelineType, Arrive, SeenByObservability, serviceVars,
     registryVars, RowsUnchanged
<1>6. /\ answer' \in [Proc -> Answered]
      /\ answer'[p] = NoReply \/ answer'[p] = Reply("500", Null)
      /\ \A q \in Proc : q # p => answer'[q] = answer[q]
  <2>1. Reply("500", Null) \in Answered
    BY ReplyType DEF Statuses
  <2>2. QED
    BY <1>2, <2>1 DEF Arrive, IInv, PipelineType
<1>7. Only(p)
  BY <1>1, <1>5, <1>6 DEF Only, Same, Arrive, IInv, PipelineType, RegistryType
<1>8. job' \in [Proc -> Job]
  BY <1>5 DEF IInv, RegistryType
<1>9. PipelineType'
  <2>1. [time |-> now, held |-> RowsOf(r.token)] \in [time : 0..MaxTime, held : SUBSET history]
    BY DEF IInv, RegistryType, RowsOf
  <2>2. arrival' \in [Proc -> [time : 0..MaxTime, held : SUBSET history]]
    BY <1>1, <2>1 DEF IInv, PipelineType
  <2>3. req' \in [Proc -> Req \cup {NoReq}]
    BY <1>1, RoutedType DEF IInv, PipelineType
  <2>4. seen' \in [Proc -> Context] /\ ctx' \in [Proc -> Context]
    BY ContextType DEF Arrive, IInv, PipelineType, SeenByObservability
  <2>5. QED
    BY <1>5, <1>6, <2>2, <2>3, <2>4 DEF Arrive, IInv, PipelineType, RowsUnchanged
<1>10. answer'[p].status \in {"none", "500"} /\ ww'[p].status = "none"
  <2>1. Reply("500", Null).status = "500"
    BY ReplyType DEF Statuses
  <2>2. QED
    BY <1>5, <1>6, <2>1, NoReplyType
<1>11. job'[p].phase = "idle"
  BY <1>5, NoJobType
<1>12. \A t : ~Claims(p, t)'
  BY <1>10, <1>11 DEF Claims, Done
<1>13. RequestInv(p)'
  <2>1. Control(p)'
    BY <1>5, <1>11, ContextType DEF Control
  <2>2. Effects(p)'
    BY <1>5, <1>10 DEF Effects, Refused
  <2>3. Creates(p)'
    BY <1>11, <1>12 DEF Creates, Creating
  <2>4. Deletes(p)'
    <3>1. /\ arrival'[p].time <= now'
          /\ \A row \in arrival'[p].held :
                /\ req'[p].endpoint = "delete" => row.token = req'[p].token
                /\ row \in rows'
      BY <1>3, <1>4, <1>5, TimesAssumption DEF RowsOf, RowsUnchanged, IInv, RegistryType
    <3>2. QED
      BY <1>10, <1>11, <3>1 DEF Deletes, Done
  <2>5. Resolves(p)'
    BY <1>10, <1>11 DEF Resolves, Done, Leads, RowsUnchanged
  <2>6. QED
    BY <2>1, <2>2, <2>3, <2>4, <2>5 DEF RequestInv
<1>14. QED
  BY <1>5, <1>7, <1>8, <1>9, <1>12, <1>13, OneHandler

\* The answer of a handler goes into its writer or nowhere.
LEMMA RespondsType ==
    ASSUME PipelineType, NEW p \in Proc, NEW reply \in Answered, Responds(p, reply)
    PROVE  /\ ww' \in [Proc -> Answered] /\ ctx' \in [Proc -> Context]
           /\ handler' \in [Proc -> {"none", "auth", "handle", "call", "done"}]
           /\ ww'[p] \in {ww[p], reply} /\ handler'[p] = "done"
           /\ \A q \in Proc : q # p => /\ ww'[q] = ww[q] /\ ctx'[q] = ctx[q]
                                       /\ handler'[q] = handler[q]
BY ContextType DEF PipelineType, Responds

\* A handler that answers without a call of the service.
LEMMA RespondKeeps ==
    ASSUME IInv, NEW p \in Proc, NEW reply \in Answered, Responds(p, reply),
           handler[p] \in {"auth", "handle"},
           UNCHANGED <<serviceVars, requestVars, conn, seen, answer, effect>>,
           reply.status \notin {"201", "307"},
           reply.status = "200" => req[p].endpoint # "delete"
    PROVE  IInv'
<1>1. /\ ww' \in [Proc -> Answered] /\ ctx' \in [Proc -> Context]
      /\ handler' \in [Proc -> {"none", "auth", "handle", "call", "done"}]
      /\ ww'[p] \in {ww[p], reply} /\ handler'[p] = "done"
      /\ \A q \in Proc : q # p => /\ ww'[q] = ww[q] /\ ctx'[q] = ctx[q]
                                  /\ handler'[q] = handler[q]
  BY RespondsType DEF IInv
<1>2. /\ RowsUnchanged /\ job' = job /\ req' = req /\ arrival' = arrival
      /\ conn' = conn /\ seen' = seen /\ answer' = answer /\ effect' = effect
  BY DEF serviceVars, registryVars, requestVars, RowsUnchanged
<1>3. job' \in [Proc -> Job] /\ PipelineType'
  BY <1>1, <1>2 DEF IInv, RegistryType, PipelineType, RowsUnchanged
<1>4. Only(p)
  BY <1>1, <1>2 DEF Only, Same
<1>5. /\ Control(p) /\ Effects(p) /\ Creates(p) /\ Deletes(p) /\ Resolves(p)
      /\ job[p] = NoJob /\ job[p].phase = "idle" /\ ~effect[p] /\ conn[p] # "idle"
  BY NoJobType DEF IInv, RequestInv, Control, Effects, Harmless
<1>6. \A t : Claims(p, t)' => Claims(p, t)
  BY <1>1, <1>2 DEF Claims, Done
<1>7. RequestInv(p)'
  <2>1. Control(p)'
    BY <1>1, <1>2, <1>5 DEF Control
  <2>2. Effects(p)'
    BY <1>1, <1>2, <1>5 DEF Effects, Harmless
  <2>3. Creates(p)'
    BY <1>2, <1>5, <1>6 DEF Creates, Creating, Owns, RowsUnchanged
  <2>4. Deletes(p)'
    BY <1>1, <1>2, <1>5 DEF Deletes, Done, Gone, RowsUnchanged
  <2>5. Resolves(p)'
    BY <1>1, <1>2, <1>5 DEF Resolves, Done, Leads, RowsUnchanged
  <2>6. QED
    BY <2>1, <2>2, <2>3, <2>4, <2>5 DEF RequestInv
<1>8. QED
  BY <1>2, <1>3, <1>4, <1>6, <1>7, OneHandler

LEMMA RespondAtOnceKeeps ==
    ASSUME IInv, NEW p \in Proc, NEW status \in {"200", "400", "500"},
           RespondAtOnce(p, status), handler[p] = "handle",
           status = "200" => req[p].endpoint # "delete"
    PROVE  IInv'
<1>1. Reply(status, Null) \in Answered /\ Reply(status, Null).status = status
  BY ReplyType DEF Statuses
<1>2. QED
  BY <1>1, RespondKeeps DEF RespondAtOnce

LEMMA AuthenticateKeeps ==
    ASSUME IInv, NEW p \in Proc, Authenticate(p)
    PROVE  IInv'
<1>1. CASE Responds(p, Reply("401", Null))
  <2>1. Reply("401", Null) \in Answered /\ Reply("401", Null).status = "401"
    BY ReplyType DEF Statuses
  <2>2. QED
    BY <1>1, <2>1, RespondKeeps DEF Authenticate
<1>2. CASE /\ ctx' = [ctx EXCEPT ![p] = ContextWithUserID(req[p].bearer)]
           /\ handler' = [handler EXCEPT ![p] = "handle"]
           /\ UNCHANGED ww
  <2>1. /\ RowsUnchanged /\ job' = job /\ req' = req /\ arrival' = arrival /\ ww' = ww
        /\ conn' = conn /\ seen' = seen /\ answer' = answer /\ effect' = effect
        /\ handler[p] = "auth" /\ handler'[p] = "handle"
        /\ ctx'[p] = ContextWithUserID(req[p].bearer)
    BY <1>2 DEF Authenticate, serviceVars, registryVars, requestVars, RowsUnchanged,
       IInv, PipelineType
  <2>2. Only(p)
    BY <1>2, <2>1 DEF Only, Same, IInv, PipelineType
  <2>3. req[p].bearer \in Owner
    BY DEF IInv, PipelineType, Req, NoReq, Owner
  <2>4. job' \in [Proc -> Job] /\ PipelineType'
    BY <1>2, <2>1, <2>3, ContextType DEF IInv, RegistryType, PipelineType, RowsUnchanged
  <2>5. /\ Control(p) /\ Effects(p) /\ Creates(p) /\ Deletes(p) /\ Resolves(p)
        /\ job[p] = NoJob /\ job[p].phase = "idle" /\ ~effect[p] /\ conn[p] # "idle"
        /\ ~Refused(ww[p]) /\ ~Refused(answer[p])
    BY <2>1, NoJobType DEF IInv, RequestInv, Control, Effects, Harmless
  <2>6. \A t : Claims(p, t)' => Claims(p, t)
    BY <2>1 DEF Claims, Done
  <2>7. RequestInv(p)'
    <3>1. Control(p)'
      BY <2>1, <2>5 DEF Control
    <3>2. Effects(p)'
      BY <2>1, <2>5 DEF Effects, Harmless
    <3>3. Creates(p)'
      BY <2>1, <2>5, <2>6 DEF Creates, Creating, Owns, RowsUnchanged
    <3>4. Deletes(p)'
      BY <2>1, <2>5 DEF Deletes, Done, Gone, RowsUnchanged
    <3>5. Resolves(p)'
      BY <2>1, <2>5 DEF Resolves, Done, Leads, RowsUnchanged
    <3>6. QED
      BY <3>1, <3>2, <3>3, <3>4, <3>5 DEF RequestInv
  <2>8. QED
    BY <2>1, <2>2, <2>4, <2>6, <2>7, OneHandler
<1>3. QED
  BY <1>1, <1>2 DEF Authenticate

\* What is sent is what is in the writer, or 503.
LEMMA SendKeeps ==
    ASSUME IInv, NEW p \in Proc, NEW reply \in Answered, Send(p, reply),
           conn[p] = "select",
           reply = ww[p] \/ reply.status = "503"
    PROVE  IInv'
<1>1. /\ RowsUnchanged /\ job' = job /\ req' = req /\ arrival' = arrival
      /\ seen' = seen /\ handler' = handler /\ effect' = effect /\ ctx' = ctx
      /\ conn'[p] = "observe" /\ ww'[p] = NoReply /\ answer'[p] \in {answer[p], reply}
  BY DEF Send, serviceVars, registryVars, requestVars, RowsUnchanged, IInv,
     PipelineType
<1>2. Only(p)
  BY <1>1 DEF Send, Only, Same, IInv, PipelineType
<1>3. job' \in [Proc -> Job] /\ PipelineType'
  BY <1>1, NoReplyType DEF Send, IInv, RegistryType, PipelineType, RowsUnchanged
<1>4. Control(p) /\ Effects(p) /\ Creates(p) /\ Deletes(p) /\ Resolves(p)
  BY DEF IInv, RequestInv
<1>5. \A t : Claims(p, t)' => Claims(p, t)
  BY <1>1, NoReplyType DEF Claims, Done
<1>6. RequestInv(p)'
  <2>1. Control(p)'
    BY <1>1, <1>4 DEF Control, OpFits
  <2>2. Effects(p)'
    BY <1>1, <1>4, NoReplyType DEF Effects, Harmless, Done, Refused
  <2>3. Creates(p)'
    BY <1>1, <1>4, <1>5 DEF Creates, Creating, Owns, RowsUnchanged
  <2>4. Deletes(p)'
    BY <1>1, <1>4, NoReplyType DEF Deletes, Done, Gone, RowsUnchanged
  <2>5. Resolves(p)'
    BY <1>1, <1>4, NoReplyType DEF Resolves, Done, Leads, RowsUnchanged
  <2>6. QED
    BY <2>1, <2>2, <2>3, <2>4, <2>5 DEF RequestInv
<1>7. QED
  BY <1>1, <1>2, <1>3, <1>5, <1>6, OneHandler

LEMMA TimeoutKeeps ==
    ASSUME IInv, NEW p \in Proc, Timeout(p)
    PROVE  IInv'
<1>1. Reply("503", Null) \in Answered /\ Reply("503", Null).status = "503"
  BY ReplyType DEF Statuses
<1>2. QED
  BY <1>1, SendKeeps DEF Timeout

LEMMA FlushKeeps ==
    ASSUME IInv, NEW p \in Proc, Flush(p)
    PROVE  IInv'
<1>1. ww[p] \in Answered
  BY DEF IInv, PipelineType
<1>2. QED
  BY <1>1, SendKeeps DEF Flush

LEMMA ObserveKeeps ==
    ASSUME IInv, NEW p \in Proc, Observe(p)
    PROVE  IInv'
<1>1. /\ RowsUnchanged /\ job' = job /\ req' = req /\ arrival' = arrival
      /\ handler' = handler /\ effect' = effect /\ ctx' = ctx
      /\ ww' = ww /\ answer' = answer
      /\ conn'[p] = "answered" /\ conn[p] # "idle"
  BY DEF Observe, serviceVars, registryVars, requestVars, RowsUnchanged, IInv,
     PipelineType
<1>2. Only(p)
  BY <1>1 DEF Observe, Only, Same, IInv, PipelineType
<1>3. job' \in [Proc -> Job] /\ PipelineType'
  BY <1>1, ContextType DEF Observe, IInv, RegistryType, PipelineType, RowsUnchanged
<1>4. Control(p) /\ Effects(p) /\ Creates(p) /\ Deletes(p) /\ Resolves(p)
  BY DEF IInv, RequestInv
<1>5. \A t : Claims(p, t)' => Claims(p, t)
  BY <1>1 DEF Claims, Done
<1>6. RequestInv(p)'
  <2>1. Control(p)'
    BY <1>1, <1>4 DEF Control, OpFits
  <2>2. Effects(p)'
    BY <1>1, <1>4 DEF Effects, Harmless, Done
  <2>3. Creates(p)'
    BY <1>1, <1>4, <1>5 DEF Creates, Creating, Owns, RowsUnchanged
  <2>4. Deletes(p)'
    BY <1>1, <1>4 DEF Deletes, Done, Gone, RowsUnchanged
  <2>5. Resolves(p)'
    BY <1>1, <1>4 DEF Resolves, Done, Leads, RowsUnchanged
  <2>6. QED
    BY <2>1, <2>2, <2>3, <2>4, <2>5 DEF RequestInv
<1>7. QED
  BY <1>1, <1>2, <1>3, <1>5, <1>6, OneHandler

-----------------------------------------------------------------------------
(***************************************************************************)
(* The handlers' calls of the service.                                     *)
(***************************************************************************)
LEMMA AskKeeps ==
    ASSUME IInv, NEW p \in Proc, NEW j \in Job, Ask(p, j), Calls(p),
           handler[p] = "handle", j.phase = "asked", j.token \in Token,
           \/ /\ req[p].endpoint \in {"generate", "create"} /\ j.op = "create"
              /\ j.user = req[p].bearer
              /\ j.url = NormalizeHTTP(req[p].url) /\ j.url \in Stored
           \/ /\ req[p].endpoint = "resolve" /\ j.op = "resolve"
              /\ j.token = req[p].token
           \/ /\ req[p].endpoint = "delete" /\ j.op = "delete"
              /\ j.token = req[p].token /\ j.user = req[p].bearer
    PROVE  IInv'
<1>1. /\ RowsUnchanged /\ req' = req /\ arrival' = arrival /\ conn' = conn
      /\ seen' = seen /\ ctx' = ctx /\ ww' = ww /\ answer' = answer /\ effect' = effect
      /\ handler'[p] = "call" /\ job'[p] = j /\ job' \in [Proc -> Job]
  BY DEF Ask, Calls, requestVars, RowsUnchanged, IInv, PipelineType, RegistryType
<1>2. Only(p)
  BY <1>1 DEF Ask, Calls, Only, Same, IInv, PipelineType, RegistryType
<1>3. PipelineType'
  BY <1>1 DEF Calls, IInv, PipelineType, RowsUnchanged
<1>4. /\ Control(p) /\ Effects(p) /\ Creates(p) /\ Deletes(p) /\ Resolves(p)
      /\ conn[p] # "idle" /\ ~effect[p] /\ ~Refused(ww[p]) /\ ~Refused(answer[p])
  BY DEF IInv, RequestInv, Control, Effects, Harmless
<1>5. \A t : Claims(p, t)' => Claims(p, t)
  BY <1>1 DEF Claims, Done
<1>6. RequestInv(p)'
  <2>1. Control(p)'
    BY <1>1, <1>4 DEF Control, OpFits
  <2>2. Effects(p)'
    BY <1>1, <1>4 DEF Effects
  <2>3. Creates(p)'
    BY <1>1, <1>4, <1>5 DEF Creates, Creating, Owns, RowsUnchanged
  <2>4. Deletes(p)'
    BY <1>1, <1>4 DEF Deletes, Done, Gone, RowsUnchanged
  <2>5. Resolves(p)'
    BY <1>1, <1>4 DEF Resolves, Done, Leads, RowsUnchanged
  <2>6. QED
    BY <2>1, <2>2, <2>3, <2>4, <2>5 DEF RequestInv
<1>7. QED
  BY <1>1, <1>2, <1>3, <1>5, <1>6, OneHandler

LEMMA HandleHealthcheckKeeps ==
    ASSUME IInv, NEW p \in Proc, HandleHealthcheck(p)
    PROVE  IInv'
<1>1. PICK status \in {"200", "500"} : RespondAtOnce(p, status)
  BY DEF HandleHealthcheck, HealthStatus
<1>2. handler[p] = "handle" /\ req[p].endpoint = "health"
  BY DEF HandleHealthcheck, Handles
<1>3. QED
  BY <1>1, <1>2, RespondAtOnceKeeps

\* The two handlers that create a token.
LEMMA AskCreateKeeps ==
    ASSUME IInv, NEW p \in Proc, NEW t \in Token, NEW life \in Lifetime,
           handler[p] = "handle", req[p].endpoint \in {"generate", "create"}, Usable(p),
           AskCreate(p, t, NormalizeHTTP(req[p].url), life, req[p].bearer), Calls(p)
    PROVE  IInv'
<1>1. req[p] \in Req \cup {NoReq}
  BY DEF IInv, PipelineType
<1>2. req[p].bearer \in Owner /\ req[p].url \in SentURL
  BY <1>1, ReqShape DEF Owner, RequiresAuth
<1>3. NormalizeHTTP(req[p].url) \in Stored
  BY <1>2 DEF Stored, Usable
<1>4. now + life \in Nat
  BY TimesAssumption DEF IInv, RegistryType
<1> DEFINE j == CreateCall(t, NormalizeHTTP(req[p].url), now + life, req[p].bearer)
<1>5. /\ j \in Job /\ j.phase = "asked" /\ j.op = "create" /\ j.token = t
      /\ j.url = NormalizeHTTP(req[p].url) /\ j.user = req[p].bearer
  BY <1>2, <1>3, <1>4, CreateCallType
<1>6. Ask(p, j)
  BY DEF AskCreate, CreateCall
<1> HIDE DEF j
<1>7. QED
  BY <1>3, <1>5, <1>6, AskKeeps

LEMMA HandleGenerateURLTokenKeeps ==
    ASSUME IInv, NEW p \in Proc, HandleGenerateURLToken(p)
    PROVE  IInv'
<1>1. handler[p] = "handle" /\ req[p].endpoint = "generate" /\ req[p].bearer = Null
  BY ReqShape DEF HandleGenerateURLToken, Handles, IInv, PipelineType
<1>2. CASE RespondAtOnce(p, "400") \/ RespondAtOnce(p, "500")
  BY <1>1, <1>2, RespondAtOnceKeeps
<1>3. CASE /\ Usable(p) /\ Calls(p)
           /\ \E t \in Draws, life \in Lifetime :
                 AskCreate(p, t, NormalizeHTTP(req[p].url), life, Null)
  BY <1>1, <1>3, AskCreateKeeps DEF Draws
<1>4. QED
  BY <1>2, <1>3 DEF HandleGenerateURLToken

LEMMA HandleResolveTokenKeeps ==
    ASSUME IInv, NEW p \in Proc, HandleResolveToken(p)
    PROVE  IInv'
<1>1. handler[p] = "handle" /\ req[p].endpoint = "resolve" /\ req[p].token \in Token
  BY ReqShape DEF HandleResolveToken, Handles, IInv, PipelineType
<1> now \in Nat
  BY TimesAssumption DEF IInv, RegistryType
<1> DEFINE j == ResolveCall(req[p].token, now)
<1>2. j \in Job /\ j.phase = "asked" /\ j.op = "resolve" /\ j.token = req[p].token
  BY <1>1, ResolveCallType
<1>3. Ask(p, j) /\ Calls(p)
  BY DEF HandleResolveToken, AskResolve, ResolveCall
<1> HIDE DEF j
<1>4. QED
  BY <1>1, <1>2, <1>3, AskKeeps

\* The user of the context is the one the request was authenticated for.
LEMMA UserOfContext ==
    ASSUME IInv, NEW p \in Proc, handler[p] = "handle", req[p].endpoint \in RequiresAuth
    PROVE  ctx[p].user = req[p].bearer /\ req[p].bearer \in Owner
<1>1. ctx[p] = ContextWithUserID(req[p].bearer)
  BY DEF IInv, RequestInv, Control
<1>2. req[p].bearer \in Owner
  BY ReqShape DEF IInv, PipelineType, Owner
<1>3. QED
  BY <1>1, <1>2, ContextType

LEMMA HandleCreateTokenWithOwnerKeeps ==
    ASSUME IInv, NEW p \in Proc, HandleCreateTokenWithOwner(p)
    PROVE  IInv'
<1>1. handler[p] = "handle" /\ req[p].endpoint = "create" /\ ctx[p].user = req[p].bearer
  BY UserOfContext DEF HandleCreateTokenWithOwner, Handles, RequiresAuth
<1>2. CASE RespondAtOnce(p, "400") \/ RespondAtOnce(p, "500")
  BY <1>1, <1>2, RespondAtOnceKeeps
<1>3. CASE /\ Usable(p) /\ Calls(p)
           /\ \E t \in (IF req[p].token = Null THEN Draws ELSE {req[p].token}),
                 life \in Lifetime :
                 AskCreate(p, t, NormalizeHTTP(req[p].url), life, ctx[p].user)
  <2>1. PICK t \in (IF req[p].token = Null THEN Draws ELSE {req[p].token}),
             life \in Lifetime :
             AskCreate(p, t, NormalizeHTTP(req[p].url), life, ctx[p].user)
    BY <1>3
  <2>2. t \in Token
    BY <1>1, ReqShape DEF Draws, IInv, PipelineType
  <2>3. QED
    BY <1>1, <1>3, <2>1, <2>2, AskCreateKeeps
<1>4. QED
  BY <1>2, <1>3 DEF HandleCreateTokenWithOwner

LEMMA HandleDeleteTokenKeeps ==
    ASSUME IInv, NEW p \in Proc, HandleDeleteToken(p)
    PROVE  IInv'
<1>1. /\ handler[p] = "handle" /\ req[p].endpoint = "delete" /\ req[p].token \in Token
      /\ ctx[p].user \in Owner /\ ctx[p].user = req[p].bearer
  BY ReqShape, UserOfContext
     DEF HandleDeleteToken, Handles, IInv, PipelineType, RequiresAuth
<1> DEFINE j == DeleteCall(req[p].token, ctx[p].user)
<1>2. /\ j \in Job /\ j.phase = "asked" /\ j.op = "delete" /\ j.token = req[p].token
      /\ j.user = ctx[p].user
  BY <1>1, DeleteCallType
<1>3. Ask(p, j) /\ Calls(p)
  BY DEF HandleDeleteToken, AskDelete, DeleteCall
<1> HIDE DEF j
<1>4. QED
  BY <1>1, <1>2, <1>3, AskKeeps

-----------------------------------------------------------------------------
(***************************************************************************)
(* The steps of the service.                                               *)
(***************************************************************************)

\* A call that goes on: of its job only what the handler will tell.
LEMMA ServedKeeps ==
    ASSUME IInv, NEW p \in Proc, Only(p), Grows, RegistryType', PipelineType',
           history' \subseteq history \cup rows',
           \A r \in history' \ history : RowsOf(r.token) = {} /\ history' = history \cup {r},
           UNCHANGED <<requestVars, pipelineVars>>,
           job[p].phase \in {"asked", "saved"}, job'[p].phase \in {"saved", "done"},
           job'[p].op = job[p].op, job'[p].token = job[p].token,
           job'[p].phase = "saved" => /\ Creating(p) /\ job'[p].user = job[p].user
                                      /\ job'[p].url = job[p].url,
           Harmless(p)' => ~effect'[p],
           job'[p].phase = "saved" \/ Done(p, "create", "ok")'
               => /\ Owns(p, job[p].token)'
                  /\ job[p].phase = "saved" \/ RowsOf(job[p].token) = {},
           Done(p, "delete", "ok")' => Gone(p)',
           Done(p, "resolve", "ok")' => Leads(p, job[p].url)'
    PROVE  IInv'
<1>1. /\ req' = req /\ arrival' = arrival /\ conn' = conn /\ handler' = handler
      /\ seen' = seen /\ ctx' = ctx /\ ww' = ww /\ answer' = answer
  BY DEF requestVars, pipelineVars
<1>2. Control(p) /\ Effects(p) /\ Creates(p) /\ Deletes(p) /\ Resolves(p)
  BY DEF IInv, RequestInv
<1>3. handler[p] = "call" /\ OpFits(p) /\ conn[p] # "idle"
  BY <1>2, InCall DEF Control
<1>4. ~Refused(ww[p]) /\ ~Refused(answer[p])
  BY <1>2, <1>3 DEF Effects
<1>5. \A t : Claims(p, t)' => Claims(p, t) \/ RowsOf(t) = {}
  BY <1>1 DEF Claims, Done
<1>6. RequestInv(p)'
  <2>1. Control(p)'
    <3>1. job'[p].phase = "saved" => job'[p].op = "create"
      BY DEF Creating
    <3>2. QED
      BY <1>1, <1>2, <1>3, <3>1 DEF Control, OpFits
  <2>2. Effects(p)'
    BY <1>1, <1>4 DEF Effects
  <2>3. Creates(p)'
    <3>1. ASSUME NEW t, Claims(p, t)' PROVE Owns(p, t)'
      <4>1. CASE /\ job'[p].token = t
                 /\ job'[p].phase = "saved" \/ Done(p, "create", "ok")'
        BY <4>1
      <4>2. CASE Claims(p, t)
        BY <1>1, <1>2, <4>2, OwnsGrows DEF Creates
      <4>3. QED
        BY <1>1, <3>1, <4>1, <4>2 DEF Claims
    <3>2. Creating(p)' => Creating(p)
      BY DEF Creating
    <3>3. QED
      BY <1>1, <1>2, <3>1, <3>2 DEF Creates, Creating
  <2>4. Deletes(p)'
    <3>1. job[p].phase # "idle"
      OBVIOUS
    <3>2. QED
      BY <1>1, <1>2, <3>1, DeletesGrows DEF Deletes, IInv
  <2>5. Resolves(p)'
    <3>1. job[p].phase # "idle"
      OBVIOUS
    <3>2. QED
      BY <1>1, <1>2, <3>1, LeadsGrows DEF Resolves
  <2>6. QED
    BY <2>1, <2>2, <2>3, <2>4, <2>5 DEF RequestInv
<1>7. QED
  BY <1>5, <1>6, OneRequest

\* What a step of the service leaves alone, and what it may have changed.
LEMMA ServiceFrame ==
    ASSUME IInv, NEW p \in Proc, ServiceStep(p), NEW j \in Job,
           job' = [job EXCEPT ![p] = j]
    PROVE  /\ Only(p) /\ job'[p] = j /\ job' \in [Proc -> Job]
           /\ UNCHANGED <<requestVars, pipelineVars>>
           /\ effect' \in [Proc -> BOOLEAN]
           /\ rows' = rows => effect'[p] = effect[p]
<1>1. /\ UNCHANGED <<requestVars, pipelineVars>>
      /\ effect' = [effect EXCEPT ![p] = @ \/ rows' # rows]
  BY DEF ServiceStep
<1>2. effect \in [Proc -> BOOLEAN] /\ job \in [Proc -> Job]
  BY DEF IInv, PipelineType, RegistryType
<1>3. job'[p] = j /\ job' \in [Proc -> Job] /\ \A q \in Proc : q # p => job'[q] = job[q]
  BY <1>2
<1>4. /\ effect'[p] = (effect[p] \/ rows' # rows)
      /\ \A q \in Proc : q # p => effect'[q] = effect[q]
  BY <1>1, <1>2
<1>5. effect' \in [Proc -> BOOLEAN]
  BY <1>1, <1>2
<1>6. Only(p)
  BY <1>1, <1>3, <1>4 DEF Only, Same, requestVars, pipelineVars
<1>7. QED
  BY <1>1, <1>2, <1>3, <1>4, <1>5, <1>6

LEMMA PipelineFrame ==
    ASSUME IInv, UNCHANGED <<requestVars, pipelineVars>>, effect' \in [Proc -> BOOLEAN],
           history \subseteq history'
    PROVE  PipelineType'
<1>1. arrival \in [Proc -> [time : 0..MaxTime, held : SUBSET history]]
  BY DEF IInv, PipelineType
<1>2. arrival \in [Proc -> [time : 0..MaxTime, held : SUBSET history']]
  <2>1. [time : 0..MaxTime, held : SUBSET history] \subseteq
            [time : 0..MaxTime, held : SUBSET history']
    OBVIOUS
  <2>2. QED
    BY <1>1, <2>1
<1>3. QED
  BY <1>2 DEF IInv, PipelineType, requestVars, pipelineVars

\* Answers that leave the register as it is.
LEMMA AnsweredKeeps ==
    ASSUME IInv, NEW p \in Proc, ServiceStep(p), NEW j \in Job,
           job' = [job EXCEPT ![p] = j], RowsUnchanged,
           job[p].phase \in {"asked", "saved"}, j.phase = "done",
           j.op = job[p].op, j.token = job[p].token,
           job[p].phase = "saved" => j.op = "create" /\ j.result = "ok",
           j.op = "create" /\ j.result = "ok" => job[p].phase = "saved",
           j.op = "delete" /\ j.result = "ok" => RowsOf(job[p].token) = {},
           j.op = "resolve" /\ j.result = "ok" =>
               \E r \in history : r.token = j.token /\ r.url = j.url
    PROVE  IInv'
<1>1. /\ Only(p) /\ job'[p] = j /\ job' \in [Proc -> Job]
      /\ UNCHANGED <<requestVars, pipelineVars>>
      /\ effect' \in [Proc -> BOOLEAN] /\ effect'[p] = effect[p]
  BY ServiceFrame DEF RowsUnchanged
<1>2. RegistryType' /\ Grows /\ history' = history
  BY <1>1, UnchangedGrows DEF IInv, RegistryType, RowsUnchanged
<1>3. PipelineType'
  BY <1>1, PipelineFrame DEF RowsUnchanged
<1>4. Control(p) /\ Effects(p) /\ Creates(p) /\ Deletes(p) /\ Resolves(p)
  BY DEF IInv, RequestInv
<1>5. handler[p] = "call" /\ OpFits(p)
  BY <1>4, InCall
<1>6. Harmless(p)' => ~effect'[p]
  BY <1>1, <1>4, <1>5 DEF Effects, Harmless, Done, requestVars, pipelineVars
<1>7. Done(p, "create", "ok")' => Owns(p, job[p].token)' /\ job[p].phase = "saved"
  <2>1. SUFFICES ASSUME Done(p, "create", "ok")'
                 PROVE  Owns(p, job[p].token)' /\ job[p].phase = "saved"
    OBVIOUS
  <2>2. job[p].phase = "saved"
    BY <1>1, <2>1 DEF Done
  <2>3. Owns(p, job[p].token)
    BY <1>4, <2>2 DEF Creates, Claims
  <2>4. QED
    BY <1>1, <2>2, <2>3 DEF Owns, requestVars, RowsUnchanged
<1>8. Done(p, "delete", "ok")' => Gone(p)'
  <2>1. SUFFICES ASSUME Done(p, "delete", "ok")', arrival[p].held # {}
                 PROVE  deletedAt[req[p].token] >= arrival[p].time
    BY <1>1 DEF Gone, requestVars, pipelineVars, RowsUnchanged
  <2>2. /\ RowsOf(job[p].token) = {} /\ job[p].op = "delete"
        /\ req[p].endpoint = "delete" /\ job[p].token = req[p].token
    BY <1>1, <1>4, <1>5, <2>1 DEF Done, OpFits, Deletes
  <2>3. PICK r \in arrival[p].held : r.token = req[p].token
    BY <1>4, <2>1, <2>2 DEF Deletes
  <2>4. r \notin rows
    BY <2>2, <2>3 DEF RowsOf
  <2>5. QED
    BY <1>4, <2>3, <2>4 DEF Deletes
<1>9. Done(p, "resolve", "ok")' => Leads(p, job[p].url)'
  <2>1. SUFFICES ASSUME Done(p, "resolve", "ok")'
                 PROVE  \E r \in history : r.token = req[p].token /\ r.url = j.url
    BY <1>1 DEF Leads, requestVars, RowsUnchanged
  <2>2. j.op = "resolve" /\ j.result = "ok" /\ j.token = req[p].token
    BY <1>1, <1>4, <2>1 DEF Done, Resolves
  <2>3. QED
    BY <2>2
<1>10. QED
  BY <1>1, <1>2, <1>3, <1>6, <1>7, <1>8, <1>9, ServedKeeps

LEMMA FailKeeps ==
    ASSUME IInv, NEW p \in Proc, ServiceStep(p), NEW error \in Error, Fail(p, error),
           RowsUnchanged, job[p].phase = "asked"
    PROVE  IInv'
<1> DEFINE j == [NoJob EXCEPT !.phase = "done", !.op = job[p].op,
                              !.token = job[p].token, !.result = error]
<1>1. job[p] \in Job
  BY DEF IInv, RegistryType
<1>2. /\ j \in Job /\ j.phase = "done" /\ j.result = error
      /\ j.op = job[p].op /\ j.token = job[p].token
  BY <1>1, FailedType
<1>3. job' = [job EXCEPT ![p] = j]
  BY DEF Fail
<1> HIDE DEF j
<1>4. error # "ok"
  BY DEF Error
<1>5. QED
  BY <1>2, <1>3, <1>4, AnsweredKeeps

LEMMA SucceedKeeps ==
    ASSUME IInv, NEW p \in Proc, ServiceStep(p), Succeed(p), RowsUnchanged,
           \/ job[p].phase = "saved"
           \/ job[p].phase = "asked" /\ job[p].op = "delete" /\ RowsOf(job[p].token) = {}
    PROVE  IInv'
<1> DEFINE j == [job[p] EXCEPT !.phase = "done", !.result = "ok"]
<1>1. job \in [Proc -> Job] /\ job[p] \in Job
  BY DEF IInv, RegistryType
<1>2. /\ j \in Job /\ j.phase = "done" /\ j.result = "ok"
      /\ j.op = job[p].op /\ j.token = job[p].token
  BY <1>1, SucceededType
<1>3. job' = [job EXCEPT ![p] = j]
  BY <1>1 DEF Succeed
<1>4. job[p].phase = "saved" => job[p].op = "create"
  BY DEF IInv, RequestInv, Control
<1> HIDE DEF j
<1>5. QED
  BY <1>2, <1>3, <1>4, AnsweredKeeps

LEMMA ResolveKeeps ==
    ASSUME IInv, NEW p \in Proc, ServiceStep(p), Resolve(p)
    PROVE  IInv'
<1>1. RowsUnchanged /\ job[p].phase = "asked" /\ job[p].op = "resolve"
  BY DEF Resolve, Asked, RowsUnchanged
<1>2. CASE \E r \in Known(job[p].token) :
              job' = [job EXCEPT ![p].phase = "done", ![p].url = r.url, ![p].result = "ok"]
  <2>1. PICK r \in Known(job[p].token) :
           job' = [job EXCEPT ![p].phase = "done", ![p].url = r.url, ![p].result = "ok"]
    BY <1>2
  <2>2. r \in history /\ r.token = job[p].token
    BY DEF Known, RowsOf, IInv, RegistryType
  <2>3. r.url \in Stored
    BY <2>2, HistoryType DEF IInv
  <2> DEFINE j == [job[p] EXCEPT !.phase = "done", !.url = r.url, !.result = "ok"]
  <2>4. job \in [Proc -> Job] /\ job[p] \in Job
    BY DEF IInv, RegistryType
  <2>5. /\ j \in Job /\ j.phase = "done" /\ j.result = "ok"
        /\ j.op = job[p].op /\ j.token = job[p].token /\ j.url = r.url
    BY <2>3, <2>4, ResolvedType
  <2>6. job' = [job EXCEPT ![p] = j]
    BY <2>1, <2>4
  <2> HIDE DEF j
  <2>7. QED
    BY <1>1, <2>2, <2>5, <2>6, AnsweredKeeps
<1>3. CASE Fail(p, "ErrTokenDoesNotExist") \/ Fail(p, "ErrTokenExpired")
  BY <1>1, <1>3, FailKeeps DEF Error
<1>4. QED
  BY <1>2, <1>3 DEF Resolve

\* The job of a create that has added its row, or of a delete that has taken
\* effect: whether it says so or not.
LEMMA EffectiveJob ==
    ASSUME IInv, NEW p \in Proc, NEW phase \in {"saved", "done"},
           \/ phase = "saved" /\ job' = [job EXCEPT ![p].phase = "saved"]
           \/ phase = "done" /\ Succeed(p)
           \/ phase = "done" /\ Fail(p, "internal")
    PROVE  \E j \in Job :
               /\ job' = [job EXCEPT ![p] = j]
               /\ j.phase = phase /\ j.op = job[p].op /\ j.token = job[p].token
               /\ phase = "saved" => j.url = job[p].url /\ j.user = job[p].user
               /\ phase = "done" => j.result \in {"ok", "internal"}
<1>1. job \in [Proc -> Job] /\ job[p] \in Job
  BY DEF IInv, RegistryType
<1>2. CASE phase = "saved" /\ job' = [job EXCEPT ![p].phase = "saved"]
  <2> DEFINE j == [job[p] EXCEPT !.phase = "saved"]
  <2>1. /\ j \in Job /\ j.phase = "saved" /\ j.op = job[p].op
        /\ j.token = job[p].token /\ j.url = job[p].url /\ j.user = job[p].user
    BY <1>1, SavedType
  <2>2. job' = [job EXCEPT ![p] = j]
    BY <1>1, <1>2
  <2> HIDE DEF j
  <2>3. QED
    BY <1>2, <2>1, <2>2
<1>3. CASE phase = "done" /\ Succeed(p)
  <2> DEFINE j == [job[p] EXCEPT !.phase = "done", !.result = "ok"]
  <2>1. /\ j \in Job /\ j.phase = "done" /\ j.result = "ok"
        /\ j.op = job[p].op /\ j.token = job[p].token
    BY <1>1, SucceededType
  <2>2. job' = [job EXCEPT ![p] = j]
    BY <1>1, <1>3 DEF Succeed
  <2> HIDE DEF j
  <2>3. QED
    BY <1>3, <2>1, <2>2
<1>4. CASE phase = "done" /\ Fail(p, "internal")
  <2> DEFINE j == [NoJob EXCEPT !.phase = "done", !.op = job[p].op,
                                !.token = job[p].token, !.result = "internal"]
  <2>1. /\ j \in Job /\ j.phase = "done" /\ j.result = "internal"
        /\ j.op = job[p].op /\ j.token = job[p].token
    BY <1>1, FailedType DEF Error
  <2>2. job' = [job EXCEPT ![p] = j]
    BY <1>4 DEF Fail
  <2> HIDE DEF j
  <2>3. QED
    BY <1>4, <2>1, <2>2
<1>5. QED
  BY <1>2, <1>3, <1>4

LEMMA CreateKeeps ==
    ASSUME IInv, NEW p \in Proc, ServiceStep(p), Create(p)
    PROVE  IInv'
<1> DEFINE row == RowOf(job[p])
<1>1. /\ job[p].phase = "asked" /\ job[p].op = "create" /\ RowsOf(job[p].token) = {}
      /\ rows' = rows \cup {row} /\ history' = history \cup {row}
      /\ now' = now /\ deletedAt' = deletedAt
      /\ job' = [job EXCEPT ![p].phase = "saved"] \/ Fail(p, "internal")
  BY DEF Create, Asked
<1>2. /\ job[p] \in Job /\ Creating(p) /\ job[p].token \in Token
      /\ job[p].user = req[p].bearer /\ job[p].url = NormalizeHTTP(req[p].url)
      /\ job[p].url \in Stored
  BY <1>1 DEF IInv, RegistryType, RequestInv, Creates, Creating
<1>3. /\ row \in StoredRow /\ row.token = job[p].token
      /\ row.owner = req[p].bearer /\ row.url = NormalizeHTTP(req[p].url)
  BY <1>2, RowOfType
<1> HIDE DEF row
<1>4. PICK phase \in {"saved", "done"}, j \in Job :
         /\ job' = [job EXCEPT ![p] = j]
         /\ j.phase = phase /\ j.op = job[p].op /\ j.token = job[p].token
         /\ phase = "saved" => j.url = job[p].url /\ j.user = job[p].user
         /\ phase = "done" => j.result \in {"ok", "internal"}
  <2>1. CASE job' = [job EXCEPT ![p].phase = "saved"]
    BY <2>1, EffectiveJob
  <2>2. CASE Fail(p, "internal")
    BY <2>2, EffectiveJob
  <2>3. QED
    BY <1>1, <2>1, <2>2
<1>5. /\ Only(p) /\ job'[p] = j /\ job' \in [Proc -> Job]
      /\ UNCHANGED <<requestVars, pipelineVars>> /\ effect' \in [Proc -> BOOLEAN]
  BY <1>4, ServiceFrame
<1>6. /\ RegistryType' /\ history' \subseteq history \cup rows'
      /\ \A r \in history' \ history : RowsOf(r.token) = {} /\ history' = history \cup {r}
  BY <1>1, <1>3, <1>5 DEF IInv, RegistryType
<1>7. Grows
  BY <1>1 DEF IInv, RegistryType, Grows
<1>8. PipelineType'
  BY <1>1, <1>5, PipelineFrame
<1>9. Owns(p, job[p].token)'
  BY <1>1, <1>3, <1>4, <1>5 DEF Owns, requestVars
<1>10. handler'[p] = "call"
  BY <1>1, <1>5, InCall DEF IInv, RequestInv, pipelineVars
<1>11. ~Harmless(p)'
  BY <1>1, <1>4, <1>5, <1>10 DEF Harmless, Done
<1>12. ~Done(p, "delete", "ok")' /\ ~Done(p, "resolve", "ok")'
  BY <1>1, <1>4, <1>5 DEF Done
<1>13. QED
  BY <1>1, <1>2, <1>4, <1>5, <1>6, <1>7, <1>8, <1>9, <1>11, <1>12, ServedKeeps

LEMMA DeleteKeeps ==
    ASSUME IInv, NEW p \in Proc, ServiceStep(p), Delete(p)
    PROVE  IInv'
<1>1. /\ job[p].phase = "asked" /\ job[p].op = "delete"
      /\ rows' = {r \in rows : r.token # job[p].token}
      /\ deletedAt' = IF RowsOf(job[p].token) = {} THEN deletedAt
                      ELSE [deletedAt EXCEPT ![job[p].token] = now]
      /\ Succeed(p) \/ Fail(p, "internal")
      /\ now' = now /\ history' = history
  BY DEF Delete, Asked
<1>2. Control(p) /\ Deletes(p)
  BY DEF IInv, RequestInv
<1>3. handler[p] = "call" /\ req[p].endpoint = "delete"
  BY <1>1, <1>2, InCall DEF OpFits
<1>4. job[p].token = req[p].token /\ req[p].token \in Token
  BY <1>1, <1>2, <1>3, ReqShape DEF Deletes, IInv, PipelineType
<1>5. PICK j \in Job :
         /\ job' = [job EXCEPT ![p] = j]
         /\ j.phase = "done" /\ j.op = job[p].op /\ j.token = job[p].token
         /\ j.result \in {"ok", "internal"}
  BY <1>1, EffectiveJob
<1>6. /\ Only(p) /\ job'[p] = j /\ job' \in [Proc -> Job]
      /\ UNCHANGED <<requestVars, pipelineVars>> /\ effect' \in [Proc -> BOOLEAN]
  BY <1>5, ServiceFrame
<1>7. /\ now \in Nat /\ deletedAt \in [Token -> Int]
      /\ \A t \in Token : Never <= deletedAt[t] /\ deletedAt[t] <= now
  BY TimesAssumption DEF IInv, RegistryType
<1>8. /\ deletedAt' \in [Token -> Int]
      /\ \A t \in Token : /\ Never <= deletedAt'[t] /\ deletedAt'[t] <= now
                          /\ deletedAt[t] <= deletedAt'[t]
      /\ RowsOf(job[p].token) # {} => deletedAt'[job[p].token] = now
  BY <1>1, <1>4, <1>7 DEF Never
<1>9. RegistryType' /\ history' \subseteq history \cup rows'
  BY <1>1, <1>6, <1>8 DEF IInv, RegistryType
<1>10. Grows
  <2>1. ASSUME NEW r \in rows, r \notin rows' PROVE deletedAt'[r.token] = now
    BY <1>1, <1>8, <2>1 DEF RowsOf
  <2>2. QED
    BY <1>1, <1>7, <1>8, <2>1 DEF Grows
<1>11. PipelineType'
  BY <1>1, <1>6, PipelineFrame
<1>12. Gone(p)'
  <2>1. SUFFICES ASSUME arrival[p].held # {}
                 PROVE  deletedAt'[req[p].token] >= arrival[p].time
    BY <1>6 DEF Gone, requestVars, pipelineVars
  <2>2. PICK r \in arrival[p].held : r.token = req[p].token
    BY <1>2, <1>3, <2>1 DEF Deletes
  <2>3. /\ arrival'[p] = arrival[p] /\ req'[p] = req[p]
    BY <1>6 DEF requestVars
  <2>4. r \in rows' \/ deletedAt'[r.token] >= arrival[p].time
    BY <1>2, <1>9, <1>10, <2>2, <2>3, DeletesGrows DEF IInv
  <2>5. r \notin rows'
    BY <1>1, <1>4, <2>2
  <2>6. QED
    BY <2>2, <2>4, <2>5
<1>13. ~Harmless(p)'
  BY <1>1, <1>3, <1>5, <1>6 DEF Harmless, Done, pipelineVars
<1>14. ~Done(p, "create", "ok")' /\ ~Done(p, "resolve", "ok")' /\ job'[p].phase = "done"
  BY <1>1, <1>5, <1>6 DEF Done
<1>15. QED
  BY <1>1, <1>5, <1>6, <1>9, <1>10, <1>11, <1>12, <1>13, <1>14, ServedKeeps

LEMMA ServiceStepKeeps ==
    ASSUME IInv, NEW p \in Proc, ServiceStep(p)
    PROVE  IInv'
<1>1. CASE Create(p)
  BY <1>1, CreateKeeps
<1>2. CASE Created(p)
  BY <1>2, SucceedKeeps DEF Created, RowsUnchanged
<1>3. CASE AlreadyTaken(p)
  BY <1>3, FailKeeps DEF AlreadyTaken, Asked, RowsUnchanged, Error
<1>4. CASE Resolve(p)
  BY <1>4, ResolveKeeps
<1>5. CASE Delete(p)
  BY <1>5, DeleteKeeps
<1>6. CASE NothingToDelete(p)
  BY <1>6, SucceedKeeps DEF NothingToDelete, Asked, RowsUnchanged
<1>7. CASE NotOwner(p)
  BY <1>7, FailKeeps DEF NotOwner, Asked, RowsUnchanged, Error
<1>8. CASE Break(p)
  BY <1>8, FailKeeps DEF Break, RowsUnchanged, Error
<1>9. QED
  BY <1>1, <1>2, <1>3, <1>4, <1>5, <1>6, <1>7, <1>8 DEF ServiceStep, Serve

-----------------------------------------------------------------------------
(***************************************************************************)
(* The return to the handler, the clock and the end of the process.        *)
(***************************************************************************)
LEMMA ReturnKeeps ==
    ASSUME IInv, NEW p \in Proc, Return(p)
    PROVE  IInv'
<1> DEFINE status == Status(req[p].endpoint, job[p].result)
           reply == Reply(status, Named(job[p]))
<1>1. /\ handler[p] = "call" /\ job[p].phase = "done" /\ Responds(p, reply)
      /\ job' = [job EXCEPT ![p] = NoJob] /\ RowsUnchanged
      /\ req' = req /\ arrival' = arrival /\ conn' = conn /\ seen' = seen
      /\ answer' = answer /\ effect' = effect
  BY DEF Return, Answer, RowsUnchanged, requestVars
<1>2. Control(p) /\ Effects(p) /\ Creates(p) /\ Deletes(p) /\ Resolves(p)
  BY DEF IInv, RequestInv
<1>3. OpFits(p) /\ conn[p] # "idle" /\ ~Refused(ww[p]) /\ ~Refused(answer[p])
  BY <1>1, <1>2 DEF Control, Effects
<1>4. /\ status \in Statuses
      /\ status = "201" => Done(p, "create", "ok")
      /\ status = "307" => Done(p, "resolve", "ok")
      /\ status = "200" => Done(p, "delete", "ok")
      /\ status = "400" => Done(p, "create", "ErrTokenIsNotUnique")
      /\ status = "403" => Done(p, "delete", "ErrNotTokenOwner")
      /\ status = "404" => job[p].op = "resolve"
      /\ status # "401"
  <2>1. req[p].endpoint \in {"generate", "resolve", "create", "delete"}
    BY <1>3 DEF OpFits
  <2>2. LET s == status IN
        /\ s \in Statuses
        /\ s = "201" => req[p].endpoint \in {"generate", "create"} /\ job[p].result = "ok"
        /\ s = "307" => req[p].endpoint = "resolve" /\ job[p].result = "ok"
        /\ s = "200" => req[p].endpoint = "delete" /\ job[p].result = "ok"
        /\ s = "400" => req[p].endpoint = "create" /\ job[p].result = "ErrTokenIsNotUnique"
        /\ s = "403" => req[p].endpoint = "delete" /\ job[p].result = "ErrNotTokenOwner"
        /\ s = "404" => req[p].endpoint = "resolve"
        /\ s # "401"
    BY <2>1, StatusSays
  <2> HIDE DEF status
  <2>3. QED
    BY <1>1, <1>3, <2>2 DEF OpFits, Done
<1> HIDE DEF status
<1>5. Named(job[p]) = IF job[p].op = "resolve" THEN job[p].url ELSE job[p].token
  BY DEF Named
<1>6. Named(job[p]) \in Stored \cup Token \cup {Null}
  BY <1>5 DEF IInv, RegistryType, Job
<1>7. reply \in Answered /\ reply.status = status /\ reply.what = Named(job[p])
  BY <1>4, <1>6, ReplyType
<1> HIDE DEF reply
<1>8. /\ ww' \in [Proc -> Answered] /\ ctx' \in [Proc -> Context]
      /\ handler' \in [Proc -> {"none", "auth", "handle", "call", "done"}]
      /\ ww'[p] \in {ww[p], reply} /\ handler'[p] = "done"
      /\ \A q \in Proc : q # p => /\ ww'[q] = ww[q] /\ ctx'[q] = ctx[q]
                                  /\ handler'[q] = handler[q]
  BY <1>1, <1>7, RespondsType DEF IInv
<1>9. /\ job'[p] = NoJob /\ job'[p].phase = "idle" /\ job' \in [Proc -> Job]
      /\ \A q \in Proc : q # p => job'[q] = job[q]
  BY <1>1, NoJobType DEF IInv, RegistryType
<1>10. PipelineType' /\ Only(p)
  BY <1>1, <1>8, <1>9 DEF IInv, PipelineType, RowsUnchanged, Only, Same
<1>11. \A t : Claims(p, t)' => Claims(p, t)
  BY <1>1, <1>4, <1>5, <1>7, <1>8, <1>9 DEF Claims, Done
<1>12. RequestInv(p)'
  <2>1. Control(p)'
    BY <1>1, <1>2, <1>3, <1>8, <1>9 DEF Control
  <2>2. Effects(p)'
    <3>1. Refused(reply) => ~effect[p]
      BY <1>1, <1>2, <1>4, <1>7 DEF Refused, Effects, Harmless
    <3>2. QED
      BY <1>1, <1>3, <1>8, <3>1 DEF Effects, Harmless
  <2>3. Creates(p)'
    BY <1>1, <1>2, <1>9, <1>11 DEF Creates, Creating, Owns, RowsUnchanged
  <2>4. Deletes(p)'
    BY <1>1, <1>2, <1>4, <1>7, <1>8, <1>9 DEF Deletes, Done, Gone, RowsUnchanged
  <2>5. Resolves(p)'
    BY <1>1, <1>2, <1>4, <1>5, <1>7, <1>8, <1>9 DEF Resolves, Done, Leads, RowsUnchanged
  <2>6. QED
    BY <2>1, <2>2, <2>3, <2>4, <2>5 DEF RequestInv
<1>13. QED
  BY <1>1, <1>9, <1>10, <1>11, <1>12, OneHandler

LEMMA ClockKeeps ==
    ASSUME IInv, Clock
    PROVE  IInv'
<1>1. /\ now < MaxTime /\ now' = now + 1 /\ rows' = rows /\ history' = history
      /\ deletedAt' = deletedAt /\ job' = job
      /\ UNCHANGED <<requestVars, pipelineVars, effect>>
  BY DEF Clock, Tick
<1>2. RegistryType' /\ Grows
  BY <1>1, TimesAssumption DEF IInv, RegistryType, Grows
<1>3. PipelineType'
  BY <1>1 DEF IInv, PipelineType, requestVars, pipelineVars
<1>4. \A q \in Proc : Same(q)
  BY <1>1 DEF Same, requestVars, pipelineVars
<1>5. \A q \in Proc : RequestInv(q)'
  BY <1>2, <1>4, SameKeeps DEF IInv
<1>6. Kept' /\ Alone'
  BY <1>1 DEF IInv, Kept, Alone
<1>7. Once'
  BY <1>1 DEF IInv, Once, Claims, Done, pipelineVars
<1>8. QED
  BY <1>2, <1>3, <1>5, <1>6, <1>7 DEF IInv

LEMMA StopKeeps ==
    ASSUME IInv, Stop
    PROVE  IInv'
<1>1. /\ RowsUnchanged /\ req' = req /\ arrival' = arrival /\ answer' = answer
      /\ effect' = effect
      /\ \A p \in Proc :
            /\ job'[p] = NoJob /\ handler'[p] = "none" /\ ww'[p] = NoReply
            /\ conn'[p] \in {"idle", "closed"}
            /\ conn'[p] = "idle" => conn[p] = "idle"
  BY DEF Stop, requestVars, RowsUnchanged
<1>2. RegistryType'
  BY <1>1, NoJobType DEF Stop, IInv, RegistryType, RowsUnchanged
<1>3. PipelineType'
  <2>1. conn' \in [Proc -> {"idle", "select", "observe", "answered", "closed"}]
    BY DEF Stop
  <2>2. handler' \in [Proc -> {"none", "auth", "handle", "call", "done"}]
    BY DEF Stop
  <2>3. seen' \in [Proc -> Context] /\ ctx' \in [Proc -> Context]
    BY ContextType DEF Stop
  <2>4. ww' \in [Proc -> Answered]
    BY NoReplyType DEF Stop
  <2>5. QED
    BY <1>1, <2>1, <2>2, <2>3, <2>4 DEF IInv, PipelineType, RowsUnchanged
<1>4. \A p \in Proc : \A t : Claims(p, t)' => Claims(p, t)
  BY <1>1, NoJobType, NoReplyType DEF Claims, Done
<1>5. ASSUME NEW p \in Proc PROVE RequestInv(p)'
  <2>1. Control(p) /\ Effects(p) /\ Creates(p) /\ Deletes(p) /\ Resolves(p)
    BY DEF IInv, RequestInv
  <2>2. /\ job'[p].phase = "idle" /\ job'[p] = NoJob /\ ww'[p] = NoReply
        /\ ww'[p].status = "none" /\ handler'[p] = "none"
        /\ conn'[p] \in {"idle", "closed"} /\ conn'[p] = "idle" => conn[p] = "idle"
    BY <1>1, NoJobType, NoReplyType
  <2>3. Control(p)'
    BY <1>1, <2>1, <2>2 DEF Control
  <2>4. Effects(p)'
    BY <1>1, <2>1, <2>2 DEF Effects, Harmless, Refused
  <2>5. Creates(p)'
    BY <1>1, <1>4, <2>1, <2>2 DEF Creates, Creating, Owns, RowsUnchanged
  <2>6. Deletes(p)'
    BY <1>1, <2>1, <2>2 DEF Deletes, Done, Gone, RowsUnchanged
  <2>7. Resolves(p)'
    BY <1>1, <2>1, <2>2 DEF Resolves, Done, Leads, RowsUnchanged
  <2>8. QED
    BY <2>3, <2>4, <2>5, <2>6, <2>7 DEF RequestInv
<1>6. Kept' /\ Alone' /\ Once'
  BY <1>1, <1>4 DEF IInv, Kept, Alone, Once, RowsUnchanged
<1>7. QED
  BY <1>2, <1>3, <1>5, <1>6 DEF IInv

-----------------------------------------------------------------------------
LEMMA InitInv == Init => IInv
<1>1. SUFFICES ASSUME Init PROVE IInv
  OBVIOUS
<1>2. RegistryType
  BY <1>1, NoJobType, TimesAssumption DEF Init, RegistryInit, RegistryType, Never
<1>3. PipelineType
  <2>1. [time |-> 0, held |-> {}] \in [time : 0..MaxTime, held : SUBSET history]
    BY TimesAssumption
  <2>2. QED
    BY <1>1, <2>1, NoReplyType, ContextType DEF Init, PipelineType
<1>4. /\ history = {}
      /\ \A p \in Proc : /\ job[p] = NoJob /\ job[p].phase = "idle"
                         /\ conn[p] = "idle" /\ handler[p] = "none" /\ ~effect[p]
                         /\ ww[p] = NoReply /\ answer[p] = NoReply
                         /\ ww[p].status = "none" /\ answer[p].status = "none"
                         /\ arrival[p].time = 0 /\ arrival[p].held = {}
  BY <1>1, NoJobType, NoReplyType DEF Init, RegistryInit
<1>5. \A p \in Proc : \A t : ~Claims(p, t)
  BY <1>4 DEF Claims, Done
<1>6. ASSUME NEW p \in Proc PROVE RequestInv(p)
  <2>1. Control(p) /\ Effects(p)
    BY <1>4 DEF Control, Effects, Harmless, Refused
  <2>2. Creates(p) /\ Resolves(p)
    BY <1>4, <1>5 DEF Creates, Creating, Resolves, Done
  <2>3. Deletes(p)
    BY <1>1, <1>4 DEF Deletes, Done, Init, RegistryInit
  <2>4. QED
    BY <2>1, <2>2, <2>3 DEF RequestInv
<1>7. Kept /\ Alone /\ Once
  BY <1>4, <1>5 DEF Kept, Alone, Once
<1>8. QED
  BY <1>2, <1>3, <1>6, <1>7 DEF IInv

LEMMA Stutter ==
    ASSUME IInv, UNCHANGED vars
    PROVE  IInv'
<1>1. /\ RowsUnchanged /\ job' = job
      /\ UNCHANGED <<requestVars, pipelineVars>> /\ effect' = effect
  BY DEF vars, serviceVars, registryVars, RowsUnchanged
<1>2. RegistryType' /\ Grows
  BY <1>1, UnchangedGrows DEF IInv, RegistryType, RowsUnchanged
<1>3. PipelineType'
  BY <1>1, PipelineFrame DEF IInv, PipelineType, RowsUnchanged
<1>4. \A q \in Proc : Same(q)
  BY <1>1 DEF Same, requestVars, pipelineVars
<1>5. \A q \in Proc : RequestInv(q)'
  BY <1>2, <1>4, SameKeeps DEF IInv
<1>6. Kept' /\ Alone' /\ Once'
  BY <1>1 DEF IInv, Kept, Alone, Once, Claims, Done, pipelineVars, RowsUnchanged
<1>7. QED
  BY <1>2, <1>3, <1>5, <1>6 DEF IInv

LEMMA NextInv == IInv /\ [Next]_vars => IInv'
<1>1. SUFFICES ASSUME IInv, [Next]_vars PROVE IInv'
  OBVIOUS
<1>2. ASSUME NEW p \in Proc,
             \/ Arrive(p) \/ Authenticate(p) \/ Handle(p) \/ ServiceStep(p) \/ Return(p)
             \/ Timeout(p) \/ Flush(p) \/ Observe(p)
      PROVE  IInv'
  <2>1. CASE Arrive(p)
    BY <1>1, <2>1, ArriveKeeps
  <2>2. CASE Authenticate(p)
    BY <1>1, <2>2, AuthenticateKeeps
  <2>3. CASE Handle(p)
    BY <1>1, <2>3, HandleHealthcheckKeeps, HandleGenerateURLTokenKeeps,
       HandleResolveTokenKeeps, HandleCreateTokenWithOwnerKeeps, HandleDeleteTokenKeeps
       DEF Handle
  <2>4. CASE ServiceStep(p)
    BY <1>1, <2>4, ServiceStepKeeps
  <2>5. CASE Return(p)
    BY <1>1, <2>5, ReturnKeeps
  <2>6. CASE Timeout(p)
    BY <1>1, <2>6, TimeoutKeeps
  <2>7. CASE Flush(p)
    BY <1>1, <2>7, FlushKeeps
  <2>8. CASE Observe(p)
    BY <1>1, <2>8, ObserveKeeps
  <2>9. QED
    BY <1>2, <2>1, <2>2, <2>3, <2>4, <2>5, <2>6, <2>7, <2>8
<1>3. CASE Clock
  BY <1>1, <1>3, ClockKeeps
<1>4. CASE Stop
  BY <1>1, <1>4, StopKeeps
<1>5. CASE UNCHANGED vars
  BY <1>1, <1>5, Stutter
<1>6. QED
  BY <1>1, <1>2, <1>3, <1>4, <1>5 DEF Next

\* The inductive invariant holds of every state the API can be in.
THEOREM ApiInvariant == Spec => []IInv
<1>1. QED
  BY InitInv, NextInv, PTL DEF Spec

-----------------------------------------------------------------------------
(***************************************************************************)
(* What the clients are told.                                              *)
(***************************************************************************)

\* A handler that needs a user finds one, and observabilityMiddleware the ID
\* of the request, whatever the other goroutine has done to its context.
THEOREM ApiTypes == Spec => []TypeOK
<1>1. IInv => TypeOK
  <2>1. SUFFICES ASSUME IInv PROVE TypeOK
    OBVIOUS
  <2>2. ASSUME NEW p \in Proc
        PROVE  /\ answer[p].status \in Statuses \cup {"none"}
               /\ ww[p].status \in Statuses \cup {"none"}
               /\ handler[p] \in {"handle", "call"} /\ req[p].endpoint \in RequiresAuth
                     => HasUserID(ctx[p])
               /\ conn[p] = "observe" => HasRequestID(seen[p])
    <3>1. Control(p) /\ answer[p] \in Answered /\ ww[p] \in Answered
      BY <2>1 DEF IInv, RequestInv, PipelineType
    <3>2. req[p].endpoint \in RequiresAuth => req[p].bearer \in Owner
      BY <2>1, ReqShape DEF IInv, PipelineType, Owner
    <3>3. QED
      BY <3>1, <3>2, ContextType DEF Control, Answered
  <2>3. QED
    BY <2>1, <2>2 DEF TypeOK, IInv, PipelineType
<1>2. QED
  BY <1>1, ApiInvariant, PTL

\* 201 is true: the row is there, or was, in the name of the one who asked.
THEOREM CreatedIsTrue == Spec => []CreatedIsOwned
<1>1. IInv => CreatedIsOwned
  <2>1. ASSUME IInv, NEW p \in Proc, Got(p, "201")
        PROVE  Owns(p, answer[p].what)
    BY <2>1 DEF IInv, RequestInv, Creates, Claims, Got
  <2>2. QED
    BY <2>1 DEF CreatedIsOwned, Owns
<1>2. QED
  BY <1>1, ApiInvariant, PTL

\* No two requests are told 201 for one token, timeouts, repeated requests and
\* restarts included, unless it was deleted after the first.
THEOREM TokensAreGivenOnce == Spec => []GivenOnce
<1>1. IInv => GivenOnce
  <2>1. ASSUME IInv, NEW p \in Proc, NEW q \in Proc, p # q,
               Got(p, "201"), Got(q, "201"), answer[p].what = answer[q].what
        PROVE  deletedAt[answer[p].what] # Never
    <3> DEFINE t == answer[p].what
    <3>1. Claims(p, t) /\ Claims(q, t)
      BY <2>1 DEF Got, Claims
    <3>2. PICK r \in history : r.token = t
      BY <2>1, <3>1 DEF IInv, RequestInv, Creates, Owns
    <3>3. t \in Token
      BY <2>1, <3>2, HistoryType DEF IInv
    <3>4. QED
      BY <2>1, <3>1, <3>3 DEF IInv, Once
  <2>2. QED
    BY <2>1 DEF GivenOnce
<1>2. QED
  BY <1>1, ApiInvariant, PTL

\* 4xx is true: nothing has happened, and nothing will.
THEOREM RefusalsAreTrue == Spec => []RefusedHasNoEffect
<1>1. IInv => RefusedHasNoEffect
  BY DEF IInv, RequestInv, Effects, Refused, RefusedHasNoEffect
<1>2. QED
  BY <1>1, ApiInvariant, PTL

\* 200 for a DELETE is true: what was there when it came is gone.
THEOREM DeletionsAreTrue == Spec => []DeletedIsGone
<1>1. IInv => DeletedIsGone
  BY DEF IInv, RequestInv, Deletes, Gone, Got, DeletedIsGone
<1>2. QED
  BY <1>1, ApiInvariant, PTL

\* 307 leads to an HTTP URL with a host.
THEOREM RedirectsAreHTTP == Spec => []RedirectsToHTTP
<1>1. IInv => RedirectsToHTTP
  <2>1. ASSUME IInv, NEW p \in Proc, Got(p, "307") PROVE HTTPWithHost(answer[p].what)
    <3>1. answer[p].what \in Stored
      BY <2>1, HistoryType DEF IInv, RequestInv, Resolves, Leads, Got
    <3>2. PICK raw \in SentURL : Accepts(raw) /\ answer[p].what = NormalizeHTTP(raw)
      BY <3>1 DEF Stored
    <3>3. raw \in RawURL
      BY SentAssumption
    <3>4. QED
      BY <3>2, <3>3, NormalizedIsHTTP
  <2>2. QED
    BY <2>1 DEF RedirectsToHTTP, HTTPWithHost
<1>2. QED
  BY <1>1, ApiInvariant, PTL

\* Redirects lead where the one who was told 201 for the token has sent them:
\* a token has one URL until it is deleted, whoever asks and however often.
RedirectsToCreated ==
    \A p, q \in Proc :
        Got(p, "201") /\ Got(q, "307") /\ answer[p].what = req[q].token =>
            \/ answer[q].what = NormalizeHTTP(req[p].url)
            \/ deletedAt[req[q].token] # Never

THEOREM RedirectsAreTrue == Spec => []RedirectsToCreated
<1>1. IInv => RedirectsToCreated
  <2>1. ASSUME IInv, NEW p \in Proc, NEW q \in Proc, Got(p, "201"), Got(q, "307"),
               answer[p].what = req[q].token, deletedAt[req[q].token] = Never
        PROVE  answer[q].what = NormalizeHTTP(req[p].url)
    <3>1. PICK r \in history : /\ r.token = req[q].token
                               /\ r.url = NormalizeHTTP(req[p].url)
      BY <2>1 DEF IInv, RequestInv, Creates, Claims, Owns, Got
    <3>2. PICK s \in history : s.token = req[q].token /\ s.url = answer[q].what
      BY <2>1 DEF IInv, RequestInv, Resolves, Leads, Got
    <3>3. r = s
      BY <2>1, <3>1, <3>2 DEF IInv, Alone
    <3>4. QED
      BY <3>1, <3>2, <3>3
  <2>2. QED
    BY <2>1 DEF RedirectsToCreated
<1>2. QED
  BY <1>1, ApiInvariant, PTL

\* A row goes only on behalf of a DELETE that was authenticated as a user who
\* has owned the token: the user of the context is the one of the access token,
\* although the context has one slot for two keys.
DiesByBearer ==
    \A r \in rows \ rows' :
        \E p \in Proc : /\ req[p].endpoint = "delete" /\ req[p].token = r.token
                        /\ HasOwned(req[p].bearer, r.token)

THEOREM RowsDieByBearers == Spec => [][DiesByBearer]_vars
<1>1. ASSUME IInv, Next PROVE DiesByBearer
  <2>1. ASSUME NEW p \in Proc, ServiceStep(p) PROVE DiesByBearer
    <3>1. CASE Delete(p)
      <4>1. /\ job[p].phase = "asked" /\ job[p].op = "delete"
            /\ HasOwned(job[p].user, job[p].token)
            /\ \A r \in rows \ rows' : r.token = job[p].token
        BY <3>1 DEF Delete, Asked
      <4>2. Control(p) /\ Deletes(p)
        BY <1>1 DEF IInv, RequestInv
      <4>3. req[p].endpoint = "delete"
        BY <4>1, <4>2, InCall DEF OpFits
      <4>4. job[p].token = req[p].token /\ job[p].user = req[p].bearer
        BY <4>1, <4>2 DEF Deletes
      <4>5. QED
        BY <4>1, <4>3, <4>4 DEF DiesByBearer
    <3>2. CASE ~Delete(p)
      <4>1. rows \subseteq rows'
        BY <2>1, <3>2 DEF ServiceStep, Serve, Create, Created, AlreadyTaken, Resolve,
           NothingToDelete, NotOwner, Break
      <4>2. QED
        BY <4>1 DEF DiesByBearer
    <3>3. QED
      BY <3>1, <3>2
  <2>2. ASSUME NEW p \in Proc, Handle(p) PROVE rows' = rows
    BY <2>2 DEF Handle, HandleHealthcheck, HandleGenerateURLToken, HandleResolveToken,
       HandleCreateTokenWithOwner, HandleDeleteToken, RespondAtOnce, serviceVars, registryVars,
       AskCreate, AskResolve, AskDelete, Ask
  <2>3. ASSUME NEW p \in Proc,
               \/ Arrive(p) \/ Authenticate(p) \/ Return(p)
               \/ Timeout(p) \/ Flush(p) \/ Observe(p)
        PROVE  rows' = rows
    BY <2>3 DEF Arrive, Authenticate, Return, Answer, Timeout, Flush, Send, Observe,
       serviceVars, registryVars
  <2>4. CASE Clock \/ Stop
    BY <2>4 DEF Clock, Tick, Stop, DiesByBearer
  <2>5. QED
    BY <1>1, <2>1, <2>2, <2>3, <2>4 DEF Next, DiesByBearer
<1>2. QED
  BY <1>1, ApiInvariant, PTL DEF Spec

\* The server takes exactly the domain names for host names.
THEOREM HostsAreExact == Spec => []HostsAreDomainNames
<1>1. HostsAreDomainNames
  BY FQDNExact DEF HostsAreDomainNames
<1>2. QED
  BY <1>1, PTL

\* What it has made of a URL, the server leaves as it is.
THEOREM NormalFormsAreStable == Spec => []RedirectsAreStable
<1>1. RedirectsAreStable
  BY NormalizeStable DEF RedirectsAreStable
<1>2. QED
  BY <1>1, PTL

-----------------------------------------------------------------------------
(***************************************************************************)
(* The API asks of the register what the register offers: RegistryProofs   *)
(* shows that the shortener service is such a register.                    *)
(***************************************************************************)
LEMMA AskCreateIsRequest ==
    ASSUME IInv, NEW p \in Proc, req[p].endpoint \in {"generate", "create"}, Usable(p),
           NEW t \in Token, NEW life \in Lifetime, NEW owner \in Owner,
           AskCreate(p, t, NormalizeHTTP(req[p].url), life, owner)
    PROVE  Request(p)
<1>1. req[p].url \in SentURL
  BY ReqShape DEF IInv, PipelineType
<1>2. NormalizeHTTP(req[p].url) \in Url
  BY <1>1, UrlAssumption DEF Usable
<1>3. job[p].phase = "idle"
  BY DEF AskCreate, Ask
<1>4. QED
  BY <1>2, <1>3 DEF Request, Owner

LEMMA HandleIsRequest ==
    ASSUME IInv, NEW p \in Proc, Handle(p)
    PROVE  Request(p) \/ UNCHANGED registryVars
<1>1. CASE \E status : RespondAtOnce(p, status)
  BY <1>1 DEF RespondAtOnce, serviceVars
<1>2. CASE HandleHealthcheck(p)
  BY <1>1, <1>2 DEF HandleHealthcheck
<1>3. CASE HandleGenerateURLToken(p)
  <2>1. CASE /\ Usable(p)
             /\ \E t \in Draws, life \in Lifetime :
                   AskCreate(p, t, NormalizeHTTP(req[p].url), life, Null)
    BY <1>3, <2>1, AskCreateIsRequest DEF HandleGenerateURLToken, Handles, Draws, Owner
  <2>2. QED
    BY <1>1, <1>3, <2>1 DEF HandleGenerateURLToken
<1>4. CASE HandleResolveToken(p)
  <2>1. /\ req[p].token \in Token /\ AskResolve(p, req[p].token)
        /\ job[p].phase = "idle"
    BY <1>4, ReqShape DEF HandleResolveToken, Handles, IInv, PipelineType, AskResolve, Ask
  <2>2. QED
    BY <2>1 DEF Request
<1>5. CASE HandleCreateTokenWithOwner(p)
  <2>1. ctx[p].user \in Owner /\ req[p].endpoint = "create"
    BY <1>5, UserOfContext DEF HandleCreateTokenWithOwner, Handles, RequiresAuth
  <2>2. CASE /\ Usable(p)
             /\ \E t \in (IF req[p].token = Null THEN Draws ELSE {req[p].token}),
                   life \in Lifetime :
                   AskCreate(p, t, NormalizeHTTP(req[p].url), life, ctx[p].user)
    <3>1. PICK t \in (IF req[p].token = Null THEN Draws ELSE {req[p].token}),
               life \in Lifetime :
               AskCreate(p, t, NormalizeHTTP(req[p].url), life, ctx[p].user)
      BY <2>2
    <3>2. t \in Token
      BY <2>1, ReqShape DEF Draws, IInv, PipelineType
    <3>3. QED
      BY <2>1, <2>2, <3>1, <3>2, AskCreateIsRequest
  <2>3. QED
    BY <1>1, <1>5, <2>2 DEF HandleCreateTokenWithOwner
<1>6. CASE HandleDeleteToken(p)
  <2>1. /\ req[p].token \in Token /\ req[p].bearer \in User
        /\ ctx[p].user = req[p].bearer
        /\ AskDelete(p, req[p].token, ctx[p].user) /\ job[p].phase = "idle"
    BY <1>6, ReqShape, UserOfContext
       DEF HandleDeleteToken, Handles, IInv, PipelineType, RequiresAuth, AskDelete, Ask
  <2>2. QED
    BY <2>1 DEF Request
<1>7. QED
  BY <1>2, <1>3, <1>4, <1>5, <1>6 DEF Handle

\* The end of the process ends the calls, if there are any.
LEMMA StopIsCrash ==
    ASSUME IInv, Stop
    PROVE  Crash \/ UNCHANGED registryVars
<1>1. job' = [p \in Proc |-> NoJob] /\ UNCHANGED <<now, rows, history, deletedAt>>
  BY DEF Stop
<1>2. CASE \E p \in Proc : job[p].phase # "idle"
  BY <1>1, <1>2 DEF Crash
<1>3. CASE \A p \in Proc : job[p].phase = "idle"
  <2>1. \A p \in Proc : job[p] = NoJob
    BY <1>3 DEF IInv, RequestInv, Control
  <2>2. job' = job
    BY <1>1, <2>1 DEF IInv, RegistryType
  <2>3. QED
    BY <1>1, <2>2 DEF registryVars
<1>4. QED
  BY <1>2, <1>3

LEMMA NextIsRegistry ==
    IInv /\ [Next]_vars => [CallStep]_registryVars /\ UNCHANGED kept
<1>1. SUFFICES ASSUME IInv, [Next]_vars PROVE [CallStep]_registryVars /\ kept' = kept
  OBVIOUS
<1>2. ASSUME NEW p \in Proc,
             \/ Arrive(p) \/ Authenticate(p) \/ Handle(p) \/ ServiceStep(p) \/ Return(p)
             \/ Timeout(p) \/ Flush(p) \/ Observe(p)
      PROVE  (CallStep \/ UNCHANGED registryVars) /\ kept' = kept
  <2>1. CASE Arrive(p) \/ Authenticate(p) \/ Timeout(p) \/ Flush(p) \/ Observe(p)
    BY <2>1 DEF Arrive, Authenticate, Timeout, Flush, Observe, Send, serviceVars
  <2>2. CASE Handle(p)
    <3>1. kept' = kept
      BY <2>2 DEF Handle, HandleHealthcheck, HandleGenerateURLToken, HandleResolveToken,
         HandleCreateTokenWithOwner, HandleDeleteToken, RespondAtOnce, Calls, serviceVars
    <3>2. QED
      BY <1>1, <2>2, <3>1, HandleIsRequest DEF CallStep
  <2>3. CASE ServiceStep(p)
    BY <2>3 DEF ServiceStep, CallStep
  <2>4. CASE Return(p)
    BY <2>4 DEF Return, CallStep
  <2>5. QED
    BY <1>2, <2>1, <2>2, <2>3, <2>4
<1>3. CASE Clock
  BY <1>3 DEF Clock, CallStep
<1>4. CASE Stop
  <2>1. kept' = kept
    BY <1>4 DEF Stop
  <2>2. QED
    BY <1>1, <1>4, <2>1, StopIsCrash DEF CallStep
<1>5. CASE UNCHANGED vars
  BY <1>5 DEF vars, serviceVars
<1>6. QED
  BY <1>1, <1>2, <1>3, <1>4, <1>5 DEF Next

\* Middlewares and handlers use the shortener service as any caller does who
\* sends one call at a time.  The register starts here with every token kept,
\* which is the only liberty taken with RegistrySpec: it allows more answers of
\* resolves and forbids none.
THEOREM ApiUsesRegistry ==
    Spec => RegistryInit /\ [][RegistryNext]_<<registryVars, kept>>
<1>1. Init => RegistryInit
  BY DEF Init
<1>2. IInv /\ [Next]_vars => [RegistryNext]_<<registryVars, kept>>
  BY NextIsRegistry DEF RegistryNext, Keep
<1>3. QED
  BY <1>1, <1>2, ApiInvariant, PTL DEF Spec

=============================================================================
