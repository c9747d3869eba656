-------------------------- MODULE ShortenerProofs --------------------------
(***************************************************************************)
(* Proofs about Shortener, for every value of its constants.               *)
(***************************************************************************)
EXTENDS Shortener, TLAPS

Steps == ResolveStep \cup CreateStep \cup FillStep \cup DeleteStep

-----------------------------------------------------------------------------
(***************************************************************************)
(* Type correctness.                                                       *)
(***************************************************************************)

LEMMA BlankType == Blank \in Call
BY DEF Blank, Call, Owner

\* The bookkeeping of a call keeps the types: what Goto, Succeed and Fail
\* leave in pc and call.
LEMMA ReturnType ==
    ASSUME TypeOK, NEW p \in Proc, pc[p] \in Steps,
           \/ Succeed(p)
           \/ \E error \in Result : Fail(p, error)
    PROVE  /\ pc' \in [Proc -> {"idle", "done"} \cup Steps]
           /\ call' \in [Proc -> Call]
           /\ \A q \in Proc : q # p => pc'[q] = pc[q] /\ call'[q] = call[q]
           /\ pc'[p] = "done" /\ call'[p].token \in Token
<1>1. call[p] \in Call /\ call[p].token \in Token
  BY DEF TypeOK, Call, Steps
<1>2. CASE Succeed(p)
  BY <1>1, <1>2 DEF TypeOK, Succeed, Call, Steps, Result
<1>3. CASE \E error \in Result : Fail(p, error)
  <2>1. PICK error \in Result : Fail(p, error)
    BY <1>3
  <2> DEFINE answer == [Blank EXCEPT !.op = call[p].op, !.token = call[p].token,
                                    !.result = error]
  <2>2. answer \in Call /\ answer.token = call[p].token
    BY <1>1, <2>1, BlankType DEF Call
  <2>3. QED
    BY <2>1, <2>2 DEF TypeOK, Fail, Steps
<1>4. QED
  BY <1>2, <1>3

\* So does the start of a call, whose first step finds its arguments set.
LEMMA BeginType ==
    ASSUME TypeOK, NEW p \in Proc, NEW step \in {"done"} \cup Steps,
           NEW newCall \in Call, Begin(p, step, newCall),
           step \in Steps => newCall.token \in Token,
           step \in CreateStep \cup FillStep \cup {"checkExpiry"}
             => newCall.url \in Url,
           step \in DeleteStep => newCall.user \in User,
           step = "done"
             => newCall.op = "create" /\ newCall.result \in {"invalid", "internal"}
    PROVE  TypeOK'
BY DEF TypeOK, Begin, Steps

LEMMA TypeInit == Init => TypeOK
BY TTLAssumption DEF Init, TypeOK, Blank, Call, Owner, ResolveStep, CreateStep,
   FillStep, DeleteStep

LEMMA TypeStep == TypeOK /\ [Next]_vars => TypeOK'
<1> SUFFICES ASSUME TypeOK, [Next]_vars PROVE TypeOK'
  OBVIOUS
<1> USE DEF ResolveStep, CreateStep, FillStep, DeleteStep, Steps
<1>1. ASSUME NEW p \in Proc, ResolveToken(p) PROVE TypeOK'
  <2> DEFINE new(t) == [Blank EXCEPT !.op = "resolve", !.token = t, !.start = now]
  <2>1. PICK t \in Token : Begin(p, "cacheGet", new(t))
    BY <1>1 DEF ResolveToken
  <2>2. new(t) \in Call /\ new(t).token = t
    BY BlankType DEF TypeOK, Call
  <2>3. QED
    BY <2>1, <2>2, BeginType
<1>2. ASSUME NEW p \in Proc, CacheGet(p) PROVE TypeOK'
  <2> DEFINE hit(e) == [call[p] EXCEPT !.url = e.url, !.result = "ok"]
  <2>1. \A e \in cache : hit(e) \in Call /\ hit(e).token = call[p].token
    BY DEF TypeOK, Call, Entry, Result
  <2>2. CASE Goto(p, "repoGet")
    BY <1>2, <2>2 DEF TypeOK, CacheGet, Goto
  <2>3. CASE ~ Goto(p, "repoGet")
    <3>1. PICK e \in cache : call' = [call EXCEPT ![p] = hit(e)]
      BY <1>2, <2>3 DEF CacheGet, EntriesOf
    <3>2. QED
      BY <1>2, <2>1, <2>3, <3>1 DEF TypeOK, CacheGet
  <2>4. QED
    BY <2>2, <2>3
<1>3. ASSUME NEW p \in Proc, RepoGet(p) PROVE TypeOK'
  <2> DEFINE found(r) == [call[p] EXCEPT !.url = r.url, !.expiresAt = r.expiresAt]
  <2>1. \A r \in repo : found(r) \in Call /\ found(r).token = call[p].token
                                         /\ found(r).url = r.url
    BY DEF TypeOK, Call, URLToken
  <2>2. CASE \E error \in Result : Fail(p, error)
    BY <1>3, <2>2, ReturnType DEF TypeOK, RepoGet
  <2>3. CASE ~ \E error \in Result : Fail(p, error)
    <3>1. PICK r \in repo : call' = [call EXCEPT ![p] = found(r)]
      BY <1>3, <2>3 DEF RepoGet, RowsOf, Result
    <3>2. pc' = [pc EXCEPT ![p] = "checkExpiry"]
      BY <1>3, <2>3 DEF RepoGet, Result
    <3>3. QED
      BY <1>3, <2>1, <3>1, <3>2 DEF TypeOK, RepoGet, URLToken
  <2>4. QED
    BY <2>2, <2>3
<1>4. ASSUME NEW p \in Proc, CheckExpiry(p) PROVE TypeOK'
  BY <1>4, ReturnType DEF TypeOK, CheckExpiry, Goto, Result
<1>5. ASSUME NEW p \in Proc, ComputeTTL(p) PROVE TypeOK'
  BY <1>5, TTLAssumption DEF TypeOK, ComputeTTL, FillTTL, Call
<1>6. ASSUME NEW p \in Proc, CacheSave(p) PROVE TypeOK'
  <2>1. cache' \subseteq Entry
    BY <1>6 DEF TypeOK, CacheSave, SetEntry, Dies, Entry, Call
  <2>2. CASE Resend
    BY <1>6, <2>1, <2>2 DEF TypeOK, CacheSave, Resend
  <2>3. CASE Succeed(p)
    BY <1>6, <2>1, <2>3, ReturnType DEF TypeOK, CacheSave
  <2>4. QED
    BY <1>6, <2>2, <2>3 DEF CacheSave
<1>7. ASSUME NEW p \in Proc, NEW owner \in Owner, NEW ttl \in Int,
             CreateToken(p, owner, ttl) PROVE TypeOK'
  <2> DEFINE new(t, u) ==
               [Blank EXCEPT !.op = "create", !.token = t, !.url = u,
                             !.expiresAt = now + EffectiveTTL(ttl),
                             !.user = owner, !.start = now]
             refused(error) == [Blank EXCEPT !.op = "create", !.result = error]
  <2>1. EffectiveTTL(ttl) \in Nat
    BY TTLAssumption DEF EffectiveTTL
  <2>2. \A t \in Token, u \in Url :
           new(t, u) \in Call /\ new(t, u).token = t /\ new(t, u).url = u
    <3> SUFFICES ASSUME NEW t \in Token, NEW u \in Url
                 PROVE  /\ new(t, u) \in Call
                        /\ new(t, u).token = t
                        /\ new(t, u).url = u
      OBVIOUS
    <3>1. now + EffectiveTTL(ttl) \in Nat /\ now \in Nat
      BY <2>1 DEF TypeOK
    <3>2. QED
      BY <3>1, BlankType DEF Call
  <2>3. \A error \in {"invalid", "internal"} :
           /\ refused(error) \in Call
           /\ refused(error).op = "create" /\ refused(error).result = error
    BY BlankType DEF Call, Result
  <2>4. CASE \E t \in Token, u \in Url : Begin(p, "repoSave", new(t, u))
    <3> HIDE DEF new
    <3> QED
      BY <2>2, <2>4, BeginType
  <2>5. CASE \E error \in {"invalid", "internal"} : Begin(p, "done", refused(error))
    <3> HIDE DEF refused
    <3> QED
      BY <2>3, <2>5, BeginType
  <2>6. QED
    BY <1>7, <2>4, <2>5 DEF CreateToken
<1>8. ASSUME NEW p \in Proc, RepoSave(p) PROVE TypeOK'
  BY <1>8, ReturnType DEF TypeOK, RepoSave, RowSaved, RowRefused, RowNotSaved, Insert, NewRow, Goto, URLToken,
     Call, Result
<1>9. ASSUME NEW p \in Proc, DeleteToken(p) PROVE TypeOK'
  <2> DEFINE new(t, u) == [Blank EXCEPT !.op = "delete", !.token = t,
                                        !.user = u, !.start = now]
  <2>1. PICK t \in Token, u \in User : Begin(p, "checkOwner", new(t, u))
    BY <1>9 DEF DeleteToken
  <2>2. new(t, u) \in Call /\ new(t, u).token = t /\ new(t, u).user = u
    BY BlankType DEF TypeOK, Call, Owner
  <2>3. QED
    BY <2>1, <2>2, BeginType
<1>10. ASSUME NEW p \in Proc, CheckOwner(p) PROVE TypeOK'
  BY <1>10, ReturnType DEF TypeOK, CheckOwner, Goto, Result
<1>11. ASSUME NEW p \in Proc, CacheDelete(p) PROVE TypeOK'
  BY <1>11, ReturnType DEF TypeOK, CacheDelete, DeleteEntry, Goto, Resend, Result
<1>12. ASSUME NEW p \in Proc, RepoDelete(p) PROVE TypeOK'
  BY <1>12, ReturnType DEF TypeOK, RepoDelete, DeleteRows, Result
<1>13. ASSUME NEW p \in Proc, Respond(p) PROVE TypeOK'
  BY <1>13 DEF TypeOK, Respond, Blank, Call, Owner
<1>14. CASE Tick
  BY <1>14 DEF TypeOK, Tick
<1>15. CASE CacheEvict
  BY <1>15 DEF TypeOK, CacheEvict
<1>16. CASE Crash
  BY <1>16 DEF TypeOK, Crash, Blank, Call, Owner
<1>17. CASE UNCHANGED vars
  BY <1>17 DEF TypeOK, vars
<1>18. ASSUME NEW p \in Proc, Request(p) PROVE TypeOK'
  BY <1>1, <1>7, <1>9, <1>18, TTLAssumption
     DEF Request, GenerateToken, CreateTokenWithOwner, Owner
<1>19. ASSUME NEW p \in Proc, Step(p) PROVE TypeOK'
  BY <1>2, <1>3, <1>4, <1>5, <1>6, <1>8, <1>10, <1>11, <1>12, <1>19 DEF Step
<1>20. QED
  BY <1>13, <1>14, <1>15, <1>16, <1>17, <1>18, <1>19 DEF Next

\* Every variable keeps its type, and no step of a call reads an argument that
\* was never set: repo.SaveToken and cache.SaveToken always get a token and a
\* URL, and DeleteToken compares owners with a user.
THEOREM TypeCorrect == Spec => []TypeOK
BY TypeInit, TypeStep, PTL DEF Spec

-----------------------------------------------------------------------------
(***************************************************************************)
(* The inductive invariant.  A step of one call changes that call, and the *)
(* stores in the ways Evolve allows; every other call keeps its invariant  *)
(* because of Evolve alone.                                                *)
(***************************************************************************)

\* Time does not go back, no row leaves the history, and a row that leaves
\* url_tokens leaves the time of its deletion.
Evolve ==
    /\ now <= now'
    /\ issued \subseteq issued'
    /\ \A t \in Token : deletedAt'[t] = deletedAt[t] \/ deletedAt'[t] = now
    /\ \A r \in repo : r \in repo' \/ deletedAt'[r.token] = now

Others(p) == \A q \in Proc \ {p} : pc'[q] = pc[q] /\ call'[q] = call[q]

StoresSame == UNCHANGED <<now, repo, cache, issued, deletedAt>>

\* What other calls and Redis do to the stores between two steps of a call
\* does not break what the call relies on.
LEMMA OtherCall ==
    ASSUME TypeOK, TypeOK', HistoryInv, DeletedInv, Evolve,
           NEW q \in Proc, CallInv(q), pc'[q] = pc[q], call'[q] = call[q]
    PROVE  CallInv(q)'
<1>1. call[q].start <= now /\ call[q].start \in Nat /\ now \in Nat /\ now' \in Nat
  BY DEF CallInv, TypeOK, Call
<1>2. /\ \A r \in issued : r \in issued'
      /\ \A r \in repo : r \in issued /\ r.token \in Token
  BY DEF Evolve, HistoryInv, TypeOK, URLToken
<1>3. \A t \in Token : /\ deletedAt[t] \in Nat \cup {Never}
                       /\ deletedAt[t] <= now
                       /\ deletedAt'[t] = Never => deletedAt[t] = Never
                       /\ deletedAt'[t] = deletedAt[t] \/ deletedAt'[t] = now
  BY <1>1 DEF TypeOK, Evolve, DeletedInv, Never
<1>4. (call[q].start <= now)'
  BY <1>1 DEF Evolve, TypeOK
<1>5. OpInv(q)' /\ OwnerInv(q)'
  BY <1>2 DEF CallInv, OpInv, OwnerInv
<1>6. FillInv(q)'
  <2> SUFFICES ASSUME pc[q] \in FillStep \cup {"checkExpiry"}
               PROVE  FillInv(q)'
    BY DEF FillInv
  <2>1. \E r \in issued' : /\ r.token = call[q].token
                           /\ r.url = call[q].url
                           /\ r.expiresAt = call[q].expiresAt
    BY <1>2 DEF CallInv, FillInv
  <2>2. call[q].token \in Token
    BY DEF TypeOK, FillStep, ResolveStep
  <2>3. CASE call[q].start <= deletedAt[call[q].token]
    BY <1>1, <1>3, <2>1, <2>2, <2>3 DEF FillInv, Never
  <2>4. CASE \E r \in repo : r.token = call[q].token /\ r.url = call[q].url
    BY <1>1, <2>1, <2>4 DEF FillInv, Evolve
  <2>5. QED
    BY <2>3, <2>4 DEF CallInv, FillInv
<1>7. ASSUME call[q].token \in Token,
             NewRow(q) \in repo \/ deletedAt[call[q].token] >= call[q].start
      PROVE  NewRow(q)' \in repo' \/ deletedAt'[call[q].token] >= call[q].start
  BY <1>1, <1>3, <1>7 DEF Evolve, NewRow, Never
<1>8. CreateInv(q)'
  BY <1>7 DEF CallInv, CreateInv, TypeOK, FillStep
<1>9. SaveInv(q)'
  <2>1. call[q].expiresAt \in Nat
    BY DEF TypeOK, Call
  <2>2. QED
    BY <1>1, <2>1 DEF CallInv, SaveInv, Evolve
<1>10. CreateAnswer(q)'
  <2> SUFFICES ASSUME pc[q] = "done", call[q].op = "create", call[q].result = "ok"
               PROVE  CreateAnswer(q)'
    BY DEF CreateAnswer
  <2>1. call[q].token \in Token
    BY DEF TypeOK
  <2>2. QED
    BY <1>7, <2>1 DEF CallInv, CreateAnswer
<1>11. QED
  BY <1>4, <1>5, <1>6, <1>8, <1>9, <1>10 DEF CallInv

\* A call that fails holds nothing any more.
LEMMA FailInv ==
    ASSUME TypeOK, TypeOK', NEW p \in Proc, NEW error \in Result, Fail(p, error),
           error # "ok"
    PROVE  CallInv(p)' /\ Others(p)
<1> DEFINE answer == [Blank EXCEPT !.op = call[p].op, !.token = call[p].token,
                                  !.result = error]
<1>1. /\ answer.token = call[p].token
      /\ answer.result = error
      /\ answer.start = 0
  <2>1. Blank \in Call /\ Blank.start = 0
    BY BlankType DEF Blank
  <2>2. QED
    BY <2>1 DEF Call
<1>2. pc'[p] = "done" /\ call'[p] = answer /\ Others(p)
  BY DEF TypeOK, Fail, Others
<1>3. now' >= 0
  BY DEF TypeOK
<1> HIDE DEF answer
<1>4. QED
  BY <1>1, <1>2, <1>3 DEF CallInv, OpInv, FillInv, CreateInv, SaveInv, OwnerInv,
     CreateAnswer, CreateStep, ResolveStep, FillStep, DeleteStep

LEMMA SucceedFrame ==
    ASSUME TypeOK, NEW p \in Proc, Succeed(p)
    PROVE  /\ pc'[p] = "done"
           /\ call'[p].op = call[p].op
           /\ call'[p].token = call[p].token
           /\ call'[p].url = call[p].url
           /\ call'[p].expiresAt = call[p].expiresAt
           /\ call'[p].user = call[p].user
           /\ call'[p].start = call[p].start
           /\ call'[p].result = "ok"
           /\ Others(p)
BY DEF TypeOK, Succeed, Others, Call

\* A new call holds nothing yet, and one that is refused at once never will.
LEMMA BeginInv ==
    ASSUME TypeOK, TypeOK', NEW p \in Proc, NEW step, NEW newCall,
           Begin(p, step, newCall),
           newCall.start <= now,
           newCall.op = "create" => newCall.start <= newCall.expiresAt,
           \/ step = "cacheGet" /\ newCall.op = "resolve"
           \/ step = "repoSave" /\ newCall.op = "create"
           \/ step = "checkOwner" /\ newCall.op = "delete"
           \/ step = "done" /\ newCall.result # "ok"
    PROVE  CallInv(p)' /\ Others(p) /\ StoresSame
<1>1. pc'[p] = step /\ call'[p] = newCall /\ Others(p) /\ StoresSame
  BY DEF TypeOK, Begin, Others, StoresSame
<1>2. QED
  BY <1>1 DEF CallInv, OpInv, FillInv, CreateInv, SaveInv, OwnerInv,
     CreateAnswer, CreateStep, ResolveStep, FillStep, DeleteStep, StoresSame

\* Only the calls themselves move: the stores keep their invariants.
LEMMA LocalStep ==
    ASSUME IInv, TypeOK', StoresSame, NEW p \in Proc, Others(p), CallInv(p)'
    PROVE  IInv'
<1>1. Evolve
  BY DEF Evolve, StoresSame, IInv, TypeOK
<1>2. StoreInv'
  BY DEF IInv, StoreInv, TokenUnique, HistoryInv, DeletedInv, CacheLifeInv,
     CoherentUntilDeleted, StalenessBounded, Stale, OverstayBounded, StoresSame
<1>3. ASSUME NEW q \in Proc, q # p PROVE CallInv(q)'
  BY <1>1, <1>3, OtherCall DEF IInv, StoreInv, Others
<1>4. QED
  BY <1>2, <1>3 DEF IInv

LEMMA RequestStep ==
    ASSUME IInv, TypeOK', NEW p \in Proc, Request(p)
    PROVE  IInv'
<1> DEFINE resolve(t) == [Blank EXCEPT !.op = "resolve", !.token = t, !.start = now]
           create(t, u, owner, ttl) ==
               [Blank EXCEPT !.op = "create", !.token = t, !.url = u,
                             !.expiresAt = now + EffectiveTTL(ttl),
                             !.user = owner, !.start = now]
           refused(error) == [Blank EXCEPT !.op = "create", !.result = error]
           delete(t, u) == [Blank EXCEPT !.op = "delete", !.token = t,
                                         !.user = u, !.start = now]
<1>1. \A t : resolve(t).start = now /\ resolve(t).op = "resolve"
  BY BlankType DEF Call
<1>2. \A t, u, owner, ttl :
         /\ create(t, u, owner, ttl).start = now
         /\ create(t, u, owner, ttl).op = "create"
         /\ create(t, u, owner, ttl).expiresAt = now + EffectiveTTL(ttl)
  BY BlankType DEF Call
<1>3. \A error \in {"invalid", "internal"} :
         /\ refused(error).start <= now
         /\ refused(error).start <= refused(error).expiresAt
         /\ refused(error).result # "ok"
  <2>1. Blank \in Call /\ Blank.start = 0 /\ Blank.expiresAt = 0 /\ 0 <= now
    BY BlankType DEF Blank, IInv, TypeOK
  <2>2. QED
    BY <2>1 DEF Call
<1>4. \A t, u : delete(t, u).start = now /\ delete(t, u).op = "delete"
  BY BlankType DEF Call
<1>5. now <= now /\ \A ttl \in Int : now <= now + EffectiveTTL(ttl)
  BY TTLAssumption DEF IInv, TypeOK, EffectiveTTL
<1> HIDE DEF resolve, create, refused, delete
<1>6. \/ \E t \in Token : Begin(p, "cacheGet", resolve(t))
      \/ \E t \in Token, u \in Url, owner \in Owner, ttl \in Int :
            Begin(p, "repoSave", create(t, u, owner, ttl))
      \/ \E error \in {"invalid", "internal"} : Begin(p, "done", refused(error))
      \/ \E t \in Token, u \in User : Begin(p, "checkOwner", delete(t, u))
  <2>1. ASSUME NEW owner \in Owner, NEW ttl \in Int, CreateToken(p, owner, ttl)
        PROVE  \/ \E t \in Token, u \in Url :
                     Begin(p, "repoSave", create(t, u, owner, ttl))
               \/ \E error \in {"invalid", "internal"} :
                     Begin(p, "done", refused(error))
    BY <2>1 DEF CreateToken, create, refused
  <2>2. GenerateToken(p) \/ CreateTokenWithOwner(p)
           => \E owner \in Owner, ttl \in Int : CreateToken(p, owner, ttl)
    BY TTLAssumption DEF GenerateToken, CreateTokenWithOwner, Owner
  <2>3. ResolveToken(p) => \E t \in Token : Begin(p, "cacheGet", resolve(t))
    BY DEF ResolveToken, resolve
  <2>4. DeleteToken(p)
           => \E t \in Token, u \in User : Begin(p, "checkOwner", delete(t, u))
    BY DEF DeleteToken, delete
  <2>5. QED
    BY <2>1, <2>2, <2>3, <2>4 DEF Request
<1>7. CallInv(p)' /\ Others(p) /\ StoresSame
  BY <1>1, <1>2, <1>3, <1>4, <1>5, <1>6, BeginInv DEF IInv
<1>8. QED
  BY <1>7, LocalStep

LEMMA CacheGetStep ==
    ASSUME IInv, TypeOK', NEW p \in Proc, CacheGet(p)
    PROVE  IInv'
<1>1. CASE Goto(p, "repoGet")
  <2>1. pc'[p] = "repoGet" /\ call'[p] = call[p] /\ Others(p) /\ StoresSame
    BY <1>1 DEF CacheGet, Goto, Others, StoresSame, IInv, TypeOK
  <2>2. CallInv(p)'
    BY <2>1 DEF CacheGet, StoresSame, CallInv, OpInv, FillInv, CreateInv, SaveInv,
       OwnerInv, CreateAnswer, CreateStep, ResolveStep, FillStep, DeleteStep, IInv
  <2>3. QED
    BY <2>1, <2>2, LocalStep
<1>2. CASE ~ Goto(p, "repoGet")
  <2>1. PICK e \in cache :
           /\ e.token = call[p].token
           /\ call' = [call EXCEPT ![p].url = e.url, ![p].result = "ok"]
    BY <1>2 DEF CacheGet, EntriesOf
  <2>2. /\ pc'[p] = "done"
        /\ call'[p].op = call[p].op
        /\ call'[p].token = call[p].token
        /\ call'[p].start = call[p].start
        /\ call'[p].url = e.url
        /\ call'[p].result = "ok"
        /\ Others(p)
        /\ StoresSame
    <3> DEFINE hit == [call[p] EXCEPT !.url = e.url, !.result = "ok"]
    <3>1. call[p] \in Call /\ call' = [call EXCEPT ![p] = hit]
      BY <2>1 DEF IInv, TypeOK
    <3>2. /\ hit.op = call[p].op
          /\ hit.token = call[p].token
          /\ hit.start = call[p].start
          /\ hit.url = e.url
          /\ hit.result = "ok"
      BY <3>1 DEF Call
    <3> HIDE DEF hit
    <3>3. QED
      BY <1>2, <3>1, <3>2 DEF CacheGet, Others, StoresSame, IInv, TypeOK
  <2>3. call[p].op = "resolve" /\ call[p].start <= now
    BY DEF CacheGet, IInv, CallInv, OpInv, ResolveStep
  <2>4. CallInv(p)'
    BY <2>2, <2>3 DEF StoresSame, CallInv, OpInv, FillInv, CreateInv, SaveInv,
       OwnerInv, CreateAnswer, ResolveStep, CreateStep, FillStep, DeleteStep
  <2>5. QED
    BY <2>2, <2>4, LocalStep
<1>3. QED
  BY <1>1, <1>2

LEMMA RepoGetStep ==
    ASSUME IInv, TypeOK', NEW p \in Proc, RepoGet(p)
    PROVE  IInv'
<1>1. StoresSame
  BY DEF RepoGet, StoresSame
<1>2. CASE \E error \in {"ErrTokenDoesNotExist", "internal"} : Fail(p, error)
  BY <1>1, <1>2, FailInv, LocalStep DEF Result, IInv
<1>3. CASE ~ \E error \in {"ErrTokenDoesNotExist", "internal"} : Fail(p, error)
  <2>1. PICK r \in repo :
           /\ r.token = call[p].token
           /\ call' = [call EXCEPT ![p].url = r.url, ![p].expiresAt = r.expiresAt]
    BY <1>3 DEF RepoGet, RowsOf
  <2>2. /\ pc'[p] = "checkExpiry"
        /\ call'[p].op = call[p].op
        /\ call'[p].token = r.token
        /\ call'[p].url = r.url
        /\ call'[p].expiresAt = r.expiresAt
        /\ call'[p].start = call[p].start
        /\ Others(p)
    <3> DEFINE found == [call[p] EXCEPT !.url = r.url, !.expiresAt = r.expiresAt]
    <3>1. call[p] \in Call /\ call' = [call EXCEPT ![p] = found]
      BY <2>1 DEF IInv, TypeOK
    <3>2. /\ found.op = call[p].op
          /\ found.token = call[p].token
          /\ found.url = r.url
          /\ found.expiresAt = r.expiresAt
          /\ found.start = call[p].start
      BY <3>1 DEF Call
    <3> HIDE DEF found
    <3>3. QED
      BY <1>3, <2>1, <3>1, <3>2 DEF RepoGet, Others, IInv, TypeOK
  <2>3. call[p].op = "resolve" /\ call[p].start <= now /\ r \in issued
    BY DEF RepoGet, IInv, CallInv, OpInv, ResolveStep, StoreInv, HistoryInv
  <2>4. FillInv(p)'
    BY <1>1, <2>2, <2>3 DEF FillInv, StoresSame
  <2>5. CallInv(p)'
    BY <1>1, <2>2, <2>3, <2>4 DEF StoresSame, CallInv, OpInv, CreateInv, SaveInv,
       OwnerInv, CreateAnswer, CreateStep, ResolveStep, FillStep, DeleteStep
  <2>6. QED
    BY <1>1, <2>2, <2>5, LocalStep
<1>4. QED
  BY <1>2, <1>3

LEMMA CheckExpiryStep ==
    ASSUME IInv, TypeOK', NEW p \in Proc, CheckExpiry(p)
    PROVE  IInv'
<1>1. StoresSame
  BY DEF CheckExpiry, StoresSame
<1>2. FillInv(p) /\ call[p].op = "resolve" /\ call[p].start <= now
  BY DEF CheckExpiry, IInv, CallInv, OpInv, ResolveStep
<1>3. CASE Fail(p, "ErrTokenExpired")
  BY <1>1, <1>3, FailInv, LocalStep DEF Result, IInv
<1>4. CASE Goto(p, "computeTTL") /\ ~ call[p].expiresAt < now
  <2>1. pc'[p] = "computeTTL" /\ call'[p] = call[p] /\ Others(p)
    BY <1>4 DEF CheckExpiry, Goto, Others, IInv, TypeOK
  <2>2. FillInv(p)'
    BY <1>1, <1>2, <2>1 DEF CheckExpiry, FillInv, StoresSame, FillStep
  <2>3. call[p].start <= call[p].expiresAt
    BY <1>2, <1>4 DEF IInv, TypeOK, Call
  <2>4. CallInv(p)'
    BY <1>1, <1>2, <2>1, <2>2, <2>3 DEF StoresSame, CallInv, OpInv, CreateInv, SaveInv,
       OwnerInv, CreateAnswer, CreateStep, ResolveStep, FillStep, DeleteStep
  <2>5. QED
    BY <1>1, <2>1, <2>4, LocalStep
<1>5. QED
  BY <1>3, <1>4 DEF CheckExpiry

LEMMA ComputeTTLStep ==
    ASSUME IInv, TypeOK', NEW p \in Proc, ComputeTTL(p)
    PROVE  IInv'
<1> DEFINE ttl == FillTTL(call[p].expiresAt)
           timed == [call[p] EXCEPT !.ttl = ttl]
<1>1. StoresSame /\ call[p] \in Call /\ now \in Nat
  BY DEF ComputeTTL, StoresSame, IInv, TypeOK
<1>2. /\ call[p].start <= now /\ call[p].start \in Nat /\ call[p].expiresAt \in Nat
      /\ call[p].start <= call[p].expiresAt
  BY <1>1 DEF ComputeTTL, FillStep, IInv, CallInv, SaveInv, Call
<1>3. /\ timed.op = call[p].op
      /\ timed.token = call[p].token
      /\ timed.url = call[p].url
      /\ timed.user = call[p].user
      /\ timed.expiresAt = call[p].expiresAt
      /\ timed.start = call[p].start
      /\ timed.ttl = ttl
  BY <1>1 DEF Call
<1>4. /\ ttl <= MaxCacheTTL
      /\ ttl <= call[p].expiresAt - call[p].start
      /\ ttl <= 0 => call[p].expiresAt <= now
  BY <1>1, <1>2, TTLAssumption DEF FillTTL
<1> HIDE DEF ttl, timed
<1>5. pc'[p] = "cacheSave" /\ call'[p] = timed /\ Others(p)
  BY DEF ComputeTTL, Others, IInv, TypeOK, timed, ttl
<1>6. SaveInv(p)'
  BY <1>1, <1>2, <1>3, <1>4, <1>5 DEF SaveInv, StoresSame
<1>7. FillInv(p)' /\ CreateInv(p)'
  BY <1>1, <1>3, <1>5 DEF ComputeTTL, FillInv, CreateInv, NewRow, StoresSame,
     FillStep, IInv, CallInv
<1>8. CallInv(p)'
  BY <1>1, <1>2, <1>3, <1>5, <1>6, <1>7 DEF StoresSame, CallInv, OpInv,
     OwnerInv, CreateAnswer, CreateStep, ResolveStep, DeleteStep
<1>9. QED
  BY <1>1, <1>5, <1>8, LocalStep

LEMMA CheckOwnerStep ==
    ASSUME IInv, TypeOK', NEW p \in Proc, CheckOwner(p)
    PROVE  IInv'
<1>1. StoresSame
  BY DEF CheckOwner, StoresSame
<1>2. call[p].op = "delete" /\ call[p].start <= now
  BY DEF CheckOwner, IInv, CallInv, OpInv, DeleteStep
<1>3. CASE \E error \in {"ErrNotTokenOwner", "internal"} : Fail(p, error)
  BY <1>1, <1>3, FailInv, LocalStep DEF Result, IInv
<1>4. CASE Succeed(p)
  <2>1. CallInv(p)'
    BY <1>1, <1>2, <1>4, SucceedFrame DEF StoresSame, CallInv, OpInv, FillInv,
       CreateInv, SaveInv, OwnerInv, CreateAnswer, CreateStep, ResolveStep,
       FillStep, DeleteStep, IInv
  <2>2. QED
    BY <1>1, <1>4, <2>1, SucceedFrame, LocalStep DEF IInv
<1>5. CASE /\ Goto(p, "cacheDelete")
           /\ \E r \in RowsOf(call[p].token) : r.owner = call[p].user
  <2>1. pc'[p] = "cacheDelete" /\ call'[p] = call[p] /\ Others(p)
    BY <1>5 DEF CheckOwner, Goto, Others, IInv, TypeOK
  <2>2. OwnerInv(p)'
    BY <1>1, <1>5, <2>1 DEF OwnerInv, RowsOf, StoresSame, IInv, StoreInv, HistoryInv
  <2>3. CallInv(p)'
    BY <1>1, <1>2, <2>1, <2>2 DEF StoresSame, CallInv, OpInv, FillInv, CreateInv,
       SaveInv, CreateAnswer, CreateStep, ResolveStep, FillStep, DeleteStep
  <2>4. QED
    BY <1>1, <2>1, <2>3, LocalStep
<1>6. QED
  BY <1>3, <1>4, <1>5 DEF CheckOwner

\* A call without a step to take holds nothing.
LEMMA IdleInv ==
    ASSUME TypeOK', NEW p \in Proc, pc'[p] = "idle", call'[p] = Blank
    PROVE  CallInv(p)'
<1>1. Blank.start = 0 /\ now' >= 0
  BY DEF Blank, TypeOK
<1>2. QED
  BY <1>1 DEF CallInv, OpInv, FillInv, CreateInv, SaveInv, OwnerInv,
     CreateAnswer, CreateStep, ResolveStep, FillStep, DeleteStep

LEMMA RespondStep ==
    ASSUME IInv, TypeOK', NEW p \in Proc, Respond(p)
    PROVE  IInv'
<1>1. /\ pc'[p] = "idle" /\ call'[p] = Blank
      /\ StoresSame /\ Others(p)
  BY DEF Respond, StoresSame, Others, IInv, TypeOK
<1>2. QED
  BY <1>1, IdleInv, LocalStep

LEMMA CrashStep ==
    ASSUME IInv, TypeOK', Crash
    PROVE  IInv'
<1>1. \A p \in Proc : CallInv(p)'
  BY IdleInv DEF Crash
<1>2. StoreInv'
  BY DEF Crash, IInv, StoreInv, TokenUnique, HistoryInv, DeletedInv, CacheLifeInv,
     CoherentUntilDeleted, StalenessBounded, Stale, OverstayBounded
<1>3. QED
  BY <1>1, <1>2 DEF IInv

-----------------------------------------------------------------------------
(***************************************************************************)
(* The steps that change a store.                                          *)
(***************************************************************************)
LEMMA StoreStep ==
    ASSUME IInv, TypeOK', Evolve, StoreInv', NEW p \in Proc, Others(p), CallInv(p)'
    PROVE  IInv'
<1>1. ASSUME NEW q \in Proc, q # p PROVE CallInv(q)'
  BY <1>1, OtherCall DEF IInv, StoreInv, Others
<1>2. QED
  BY <1>1 DEF IInv

\* Redis may lose any entry at any time: the cache promises only what its
\* entries say.
LEMMA CacheShrinks ==
    ASSUME IInv, cache' \subseteq cache, UNCHANGED <<repo, issued, deletedAt>>,
           now <= now', now' \in Nat,
           \/ now' = now
           \/ \A e \in cache' : e.dies = NoExpiry \/ now' <= e.dies
    PROVE  Evolve /\ StoreInv'
<1>1. now \in Nat /\ \A t \in Token : deletedAt[t] \in Int /\ deletedAt[t] <= now
  BY DEF IInv, TypeOK, StoreInv, DeletedInv, Never
<1>2. \A e \in cache : e.dies \in Int /\ e.token \in Token
  BY DEF IInv, TypeOK, Entry, NoExpiry
<1>3. Evolve
  BY DEF Evolve
<1>4. TokenUnique' /\ HistoryInv' /\ CoherentUntilDeleted' /\ StalenessBounded'
  BY DEF IInv, StoreInv, TokenUnique, HistoryInv, CoherentUntilDeleted,
     StalenessBounded, Stale
<1>5. DeletedInv'
  BY <1>1 DEF DeletedInv
<1>6. CacheLifeInv'
  BY <1>1, <1>2, TTLAssumption DEF IInv, StoreInv, CacheLifeInv
<1>7. OverstayBounded'
  <2> SUFFICES ASSUME NEW e \in cache
               PROVE  \E r \in issued : /\ r.token = e.token
                                        /\ r.url = e.url
                                        /\ IF e.dies = NoExpiry
                                           THEN r.expiresAt <= now'
                                           ELSE e.dies <= r.expiresAt + RequestLife
    BY DEF OverstayBounded
  <2>1. PICK r \in issued : /\ r.token = e.token
                            /\ r.url = e.url
                            /\ IF e.dies = NoExpiry
                               THEN r.expiresAt <= now
                               ELSE e.dies <= r.expiresAt + RequestLife
    BY DEF IInv, StoreInv, OverstayBounded
  <2>2. r.expiresAt <= now => r.expiresAt <= now'
    BY <1>1 DEF IInv, TypeOK, URLToken
  <2>3. QED
    BY <2>1, <2>2
<1>8. QED
  BY <1>3, <1>4, <1>5, <1>6, <1>7 DEF StoreInv

LEMMA TickStep ==
    ASSUME IInv, TypeOK', Tick
    PROVE  IInv'
<1>1. /\ cache' \subseteq cache /\ now <= now' /\ now' \in Nat
      /\ \A e \in cache' : e.dies = NoExpiry \/ now' <= e.dies
      /\ UNCHANGED <<repo, issued, deletedAt, pc, call>>
  BY DEF Tick, IInv, TypeOK
<1>2. Evolve /\ StoreInv'
  BY <1>1, CacheShrinks
<1>3. \A q \in Proc : CallInv(q)'
  BY <1>1, <1>2, OtherCall DEF IInv, StoreInv
<1>4. QED
  BY <1>2, <1>3 DEF IInv

LEMMA CacheEvictStep ==
    ASSUME IInv, TypeOK', CacheEvict
    PROVE  IInv'
<1>1. /\ cache' \subseteq cache /\ now' = now /\ now <= now' /\ now' \in Nat
      /\ UNCHANGED <<repo, issued, deletedAt, pc, call>>
  BY DEF CacheEvict, IInv, TypeOK
<1>2. Evolve /\ StoreInv'
  BY <1>1, CacheShrinks
<1>3. \A q \in Proc : CallInv(q)'
  BY <1>1, <1>2, OtherCall DEF IInv, StoreInv
<1>4. QED
  BY <1>2, <1>3 DEF IInv

\* A command sent twice changes no call.
LEMMA ResendStep ==
    ASSUME IInv, TypeOK', Evolve, StoreInv', Resend
    PROVE  IInv'
BY OtherCall DEF IInv, StoreInv, Resend

LEMMA CacheDeleteStep ==
    ASSUME IInv, TypeOK', NEW p \in Proc, CacheDelete(p)
    PROVE  IInv'
<1>1. /\ cache' \subseteq cache /\ now <= now' /\ now' \in Nat
      /\ UNCHANGED <<now, repo, issued, deletedAt>>
  BY DEF CacheDelete, DeleteEntry, IInv, TypeOK
<1>2. Evolve /\ StoreInv'
  BY <1>1, CacheShrinks
<1>3. CASE Fail(p, "internal")
  BY <1>2, <1>3, FailInv, StoreStep DEF Result, IInv
<1>4. CASE Goto(p, "repoDelete")
  <2>1. pc'[p] = "repoDelete" /\ call'[p] = call[p] /\ Others(p)
    BY <1>4 DEF Goto, Others, IInv, TypeOK
  <2>2. OwnerInv(p)' /\ OpInv(p)' /\ call[p].start <= now
    BY <1>1, <2>1 DEF CacheDelete, OwnerInv, OpInv, ResolveStep, DeleteStep, IInv,
       CallInv
  <2>3. CallInv(p)'
    BY <1>1, <2>1, <2>2 DEF CallInv, FillInv, CreateInv, SaveInv, CreateAnswer,
       CreateStep, FillStep
  <2>4. QED
    BY <1>2, <2>1, <2>3, StoreStep
<1>5. QED
  BY <1>2, <1>3, <1>4, ResendStep DEF CacheDelete

\* The token's entries become stale now, and none of them dies later than
\* MaxCacheTTL from now.
LEMMA RowsDeleted ==
    ASSUME IInv, NEW t \in Token, DeleteRows(t), UNCHANGED <<now, cache, issued>>
    PROVE  Evolve /\ StoreInv'
<1>1. now \in Nat /\ deletedAt \in [Token -> Nat \cup {Never}]
  BY DEF IInv, TypeOK
<1>2. /\ \A r \in repo : r.token \in Token /\ (r \in repo' <=> r.token # t)
      /\ repo' \subseteq repo
      /\ \A s \in Token \ {t} : deletedAt'[s] = deletedAt[s]
      /\ \/ /\ RowsOf(t) # {}
            /\ deletedAt'[t] = now
         \/ /\ RowsOf(t) = {}
            /\ deletedAt'[t] = deletedAt[t]
            /\ repo' = repo
  BY <1>1 DEF DeleteRows, RowsOf, IInv, TypeOK, URLToken
<1>3. Evolve
  BY <1>1, <1>2 DEF Evolve
<1>4. \A r \in issued : r.token \in Token
  BY DEF IInv, TypeOK, URLToken
<1>5. \A e \in cache : e.token \in Token /\ e.dies \in Int
  BY DEF IInv, TypeOK, Entry, NoExpiry
<1>6. TokenUnique' /\ HistoryInv'
  BY <1>1, <1>2, <1>4 DEF IInv, StoreInv, TokenUnique, HistoryInv, Never
<1>7. DeletedInv'
  BY <1>1, <1>2 DEF IInv, StoreInv, DeletedInv
<1>8. CacheLifeInv' /\ OverstayBounded'
  BY DEF IInv, StoreInv, CacheLifeInv, OverstayBounded
<1>9. CoherentUntilDeleted'
  BY <1>1, <1>2, <1>5 DEF IInv, StoreInv, CoherentUntilDeleted, Never
<1>10. StalenessBounded'
  <2> SUFFICES ASSUME NEW e \in cache, Stale(e)', e.dies # NoExpiry
               PROVE  e.dies <= deletedAt'[e.token] + RequestLife + MaxCacheTTL
    BY DEF StalenessBounded
  <2>1. CASE e.token = t /\ deletedAt'[t] = now
    BY <1>1, <1>5, <2>1, TTLAssumption DEF IInv, StoreInv, CacheLifeInv
  <2>2. CASE ~ (e.token = t /\ deletedAt'[t] = now)
    BY <1>2, <1>5, <2>2 DEF IInv, StoreInv, StalenessBounded, Stale
  <2>3. QED
    BY <2>1, <2>2
<1>11. QED
  BY <1>3, <1>6, <1>7, <1>8, <1>9, <1>10 DEF StoreInv

LEMMA RepoDeleteStep ==
    ASSUME IInv, TypeOK', NEW p \in Proc, RepoDelete(p)
    PROVE  IInv'
<1>1. Evolve /\ StoreInv'
  <2>1. call[p].token \in Token
    BY DEF RepoDelete, DeleteStep, IInv, TypeOK
  <2>2. CASE DeleteRows(call[p].token)
    BY <2>1, <2>2, RowsDeleted DEF RepoDelete
  <2>3. CASE UNCHANGED <<repo, deletedAt>>
    BY <2>3, CacheShrinks DEF RepoDelete, IInv, TypeOK
  <2>4. QED
    BY <2>2, <2>3 DEF RepoDelete
<1>2. CASE Fail(p, "internal")
  BY <1>1, <1>2, FailInv, StoreStep DEF Result, IInv
<1>3. CASE Succeed(p)
  <2>1. call[p].op = "delete" /\ call[p].start <= now /\ now' = now
    BY DEF RepoDelete, IInv, CallInv, OpInv, DeleteStep
  <2>2. CallInv(p)'
    BY <1>3, <2>1, SucceedFrame DEF CallInv, OpInv, FillInv, CreateInv, SaveInv,
       OwnerInv, CreateAnswer, CreateStep, ResolveStep, FillStep, DeleteStep, IInv
  <2>3. QED
    BY <1>1, <1>3, <2>2, SucceedFrame, StoreStep DEF IInv
<1>4. QED
  BY <1>2, <1>3 DEF RepoDelete

\* An INSERT that met the UNIQUE constraint only adds backing for the cache.
LEMMA RowInserted ==
    ASSUME IInv, NEW row \in URLToken, Unique(row.token), Insert(row),
           UNCHANGED <<now, cache, deletedAt>>
    PROVE  Evolve /\ StoreInv'
<1>1. /\ repo' = repo \cup {row}
      /\ issued' = issued \cup {row}
      /\ \A r \in repo : r.token # row.token
  BY DEF Insert, Unique, RowsOf
<1>2. Evolve
  BY <1>1 DEF Evolve, IInv, TypeOK
<1>3. TokenUnique' /\ HistoryInv'
  BY <1>1 DEF IInv, StoreInv, TokenUnique, HistoryInv
<1>4. DeletedInv' /\ CacheLifeInv' /\ OverstayBounded'
  BY <1>1 DEF IInv, StoreInv, DeletedInv, CacheLifeInv, OverstayBounded
<1>5. CoherentUntilDeleted' /\ StalenessBounded'
  BY <1>1 DEF IInv, StoreInv, CoherentUntilDeleted, StalenessBounded, Stale
<1>6. QED
  BY <1>2, <1>3, <1>4, <1>5 DEF StoreInv

LEMMA RepoSaveStep ==
    ASSUME IInv, TypeOK', NEW p \in Proc, RepoSave(p)
    PROVE  IInv'
<1>1. /\ call[p].start <= now /\ now' = now
      /\ call[p].start <= call[p].expiresAt
  BY DEF RepoSave, CreateStep, IInv, CallInv, SaveInv
<1>2. /\ NewRow(p) \in URLToken
      /\ NewRow(p).token = call[p].token
      /\ NewRow(p).url = call[p].url
      /\ NewRow(p).expiresAt = call[p].expiresAt
  BY DEF RepoSave, NewRow, URLToken, CreateStep, IInv, TypeOK, Call
<1>3. Evolve /\ StoreInv'
  <2>1. CASE RowSaved(p)
    BY <1>2, <2>1, RowInserted DEF RepoSave, RowSaved
  <2>2. CASE UNCHANGED <<repo, issued>>
    BY <2>2, CacheShrinks DEF RepoSave, IInv, TypeOK
  <2>3. QED
    BY <2>1, <2>2 DEF RepoSave, RowRefused, RowNotSaved
<1>4. CASE \E error \in {"internal", "ErrTokenIsNotUnique"} : Fail(p, error)
  BY <1>3, <1>4, FailInv, StoreStep DEF Result, IInv
<1>5. CASE Goto(p, "computeTTL") /\ Insert(NewRow(p))
  <2>1. pc'[p] = "computeTTL" /\ call'[p] = call[p] /\ Others(p)
    BY <1>5 DEF Goto, Others, IInv, TypeOK
  <2>2. NewRow(p) \in repo' /\ NewRow(p) \in issued' /\ NewRow(p)' = NewRow(p)
    BY <1>5, <2>1 DEF Insert, NewRow
  <2>3. FillInv(p)' /\ CreateInv(p)'
    BY <1>2, <2>1, <2>2 DEF FillInv, CreateInv
  <2>4. CallInv(p)'
    BY <1>1, <2>1, <2>3 DEF CallInv, OpInv, SaveInv, OwnerInv, CreateAnswer,
       CreateStep, ResolveStep, DeleteStep
  <2>5. QED
    BY <1>3, <2>1, <2>4, StoreStep
<1>6. QED
  BY <1>4, <1>5 DEF RepoSave, RowSaved, RowRefused, RowNotSaved

\* What the filling call still knows about its row is enough for the entry it
\* writes, though the row may be gone by now.
LEMMA EntrySaved ==
    ASSUME IInv, NEW p \in Proc, pc[p] = "cacheSave", InTime(p),
           SetEntry(call[p].token, call[p].url, call[p].ttl),
           UNCHANGED <<now, repo, issued, deletedAt>>
    PROVE  Evolve /\ StoreInv'
<1> DEFINE t == call[p].token
           entry == [token |-> t, url |-> call[p].url, dies |-> Dies(call[p].ttl)]
<1>1. /\ now \in Nat
      /\ t \in Token
      /\ call[p].ttl \in Int
      /\ call[p].start \in Nat
      /\ call[p].expiresAt \in Nat
      /\ deletedAt[t] \in Nat \cup {Never}
  BY DEF IInv, TypeOK, Call, FillStep
<1>2. cache' \subseteq cache \cup {entry}
  BY DEF SetEntry
<1>3. PICK i \in issued : /\ i.token = t
                          /\ i.url = call[p].url
                          /\ i.expiresAt = call[p].expiresAt
  BY DEF IInv, CallInv, FillInv, FillStep
<1>4. \/ \E r \in repo : r.token = t /\ r.url = call[p].url
      \/ call[p].start <= deletedAt[t]
  BY DEF IInv, CallInv, FillInv, FillStep
<1>5. /\ call[p].ttl <= MaxCacheTTL
      /\ call[p].ttl <= call[p].expiresAt - call[p].start
      /\ call[p].ttl <= 0 => call[p].expiresAt <= now
      /\ now <= call[p].start + RequestLife
  BY DEF IInv, CallInv, SaveInv, InTime
<1>6. /\ entry.token = t
      /\ entry.url = call[p].url
      /\ entry.dies = IF call[p].ttl > 0 THEN now + call[p].ttl ELSE NoExpiry
      /\ call[p].ttl > 0 => entry.dies # NoExpiry
  BY <1>1 DEF Dies, NoExpiry
<1> HIDE DEF entry
<1>7. Evolve
  BY DEF Evolve, IInv, TypeOK
<1>8. TokenUnique' /\ HistoryInv' /\ DeletedInv'
  BY DEF IInv, StoreInv, TokenUnique, HistoryInv, DeletedInv
<1>9. CacheLifeInv'
  <2>1. /\ entry.dies <= now + MaxCacheTTL
        /\ entry.dies = NoExpiry \/ now <= entry.dies
    BY <1>1, <1>5, <1>6, TTLAssumption DEF NoExpiry
  <2>2. QED
    BY <1>2, <2>1 DEF IInv, StoreInv, CacheLifeInv
<1>10. CoherentUntilDeleted'
  <2>1. deletedAt[t] = Never => \E r \in repo : r.token = t /\ r.url = call[p].url
    BY <1>1, <1>4 DEF Never
  <2>2. QED
    BY <1>2, <1>6, <2>1 DEF IInv, StoreInv, CoherentUntilDeleted
<1>11. StalenessBounded'
  <2>1. Stale(entry) /\ entry.dies # NoExpiry
          => entry.dies <= deletedAt[t] + RequestLife + MaxCacheTTL
    BY <1>1, <1>4, <1>5, <1>6, TTLAssumption DEF Stale, Never
  <2>2. QED
    BY <1>2, <1>6, <2>1 DEF IInv, StoreInv, StalenessBounded, Stale
<1>12. OverstayBounded'
  <2>1. IF entry.dies = NoExpiry THEN i.expiresAt <= now
                                 ELSE entry.dies <= i.expiresAt + RequestLife
    BY <1>1, <1>3, <1>5, <1>6, TTLAssumption
  <2>2. QED
    BY <1>2, <1>3, <1>6, <2>1 DEF IInv, StoreInv, OverstayBounded
<1>13. QED
  BY <1>7, <1>8, <1>9, <1>10, <1>11, <1>12 DEF StoreInv

LEMMA CacheSaveStep ==
    ASSUME IInv, TypeOK', NEW p \in Proc, CacheSave(p)
    PROVE  IInv'
<1>1. /\ pc[p] = "cacheSave"
      /\ call[p].start <= now
      /\ UNCHANGED <<now, repo, issued, deletedAt>>
  BY DEF CacheSave, IInv, CallInv
<1>2. Evolve /\ StoreInv'
  BY <1>1, EntrySaved, CacheShrinks DEF CacheSave, IInv, TypeOK
<1>3. CASE Succeed(p)
  <2>1. CreateAnswer(p)'
    <3>1. NewRow(p)' = NewRow(p)
      BY <1>3, SucceedFrame DEF NewRow, IInv
    <3>2. QED
      BY <1>1, <1>3, <3>1, SucceedFrame
         DEF CreateAnswer, CreateInv, FillStep, IInv, CallInv
  <2>2. CallInv(p)'
    BY <1>1, <1>3, <2>1, SucceedFrame DEF CallInv, OpInv, FillInv, CreateInv,
       SaveInv, OwnerInv, ResolveStep, FillStep, DeleteStep, IInv
  <2>3. QED
    BY <1>2, <1>3, <2>2, SucceedFrame, StoreStep DEF IInv
<1>4. QED
  BY <1>2, <1>3, ResendStep DEF CacheSave

-----------------------------------------------------------------------------
(***************************************************************************)
(* The theorems.                                                           *)
(***************************************************************************)
LEMMA InvInit == Init => IInv
<1> SUFFICES ASSUME Init PROVE IInv
  OBVIOUS
<1>1. TypeOK
  BY TypeInit
<1>2. StoreInv
  BY <1>1 DEF Init, StoreInv, TokenUnique, HistoryInv, DeletedInv, CacheLifeInv,
     CoherentUntilDeleted, StalenessBounded, OverstayBounded, Never
<1>3. ASSUME NEW p \in Proc PROVE CallInv(p)
  <2>1. pc[p] = "idle" /\ call[p] = Blank /\ Blank.start = 0 /\ now = 0
    BY DEF Init, Blank
  <2>2. QED
    BY <2>1 DEF CallInv, OpInv, FillInv, CreateInv, SaveInv, OwnerInv,
       CreateAnswer, CreateStep, ResolveStep, FillStep, DeleteStep
<1>4. QED
  BY <1>1, <1>2, <1>3 DEF IInv

LEMMA InvStep == IInv /\ [Next]_vars => IInv'
<1> SUFFICES ASSUME IInv, [Next]_vars PROVE IInv'
  OBVIOUS
<1>1. TypeOK'
  BY TypeStep DEF IInv
<1>2. ASSUME NEW p \in Proc, Step(p) PROVE IInv'
  BY <1>1, <1>2, CacheGetStep, RepoGetStep, CheckExpiryStep, ComputeTTLStep,
     CacheSaveStep, RepoSaveStep, CheckOwnerStep, CacheDeleteStep, RepoDeleteStep
     DEF Step
<1>3. CASE UNCHANGED vars
  BY <1>3 DEF vars, IInv, TypeOK, StoreInv, TokenUnique, HistoryInv, DeletedInv,
     CacheLifeInv, CoherentUntilDeleted, StalenessBounded, Stale, OverstayBounded,
     CallInv, OpInv, FillInv, CreateInv, SaveInv, OwnerInv, CreateAnswer,
     CreateStep, NewRow
<1>4. QED
  BY <1>1, <1>2, <1>3, RequestStep, RespondStep, TickStep, CacheEvictStep, CrashStep
     DEF Next

\* The inductive invariant holds: the two stores and every call in flight
\* stay in the relation the properties below are read off from.
THEOREM InvariantHolds == Spec => []IInv
BY InvInit, InvStep, PTL DEF Spec

\* The UNIQUE constraint and the order of the steps keep one row per token.
THEOREM RowsUnique == Spec => []TokenUnique
<1>1. IInv => TokenUnique
  BY DEF IInv, StoreInv
<1>2. QED
  BY <1>1, InvariantHolds, PTL

\* The cache agrees with the table about every token nobody has deleted.
THEOREM CacheCoherent == Spec => []CoherentUntilDeleted
<1>1. IInv => CoherentUntilDeleted
  BY DEF IInv, StoreInv
<1>2. QED
  BY <1>1, InvariantHolds, PTL

\* A stale entry with an expiry is gone RequestLife + MaxCacheTTL after the
\* last deletion of its token.
THEOREM StaleEntriesDie == Spec => []StalenessBounded
<1>1. IInv => StalenessBounded
  BY DEF IInv, StoreInv
<1>2. QED
  BY <1>1, InvariantHolds, PTL

\* An entry with an expiry outlives its token by at most RequestLife; one
\* without was written for a token that had expired.
THEOREM EntriesOverstayLittle == Spec => []OverstayBounded
<1>1. IInv => OverstayBounded
  BY DEF IInv, StoreInv
<1>2. QED
  BY <1>1, InvariantHolds, PTL

\* A resolve answers with a URL at a cache hit or behind the table's row, and
\* says "expired" only at the check.
LEMMA AnsweringStep ==
    ASSUME IInv, [Next]_vars, NEW p \in Proc,
           NEW result \in {"ok", "ErrTokenExpired"}, Answers(p, result)
    PROVE  \/ result = "ok" /\ (CacheGet(p) \/ CacheSave(p))
           \/ result = "ErrTokenExpired" /\ CheckExpiry(p)
<1> USE DEF Goto, Succeed, Fail, Resend
<1>1. /\ pc \in [Proc -> {"idle", "done"} \cup Steps] /\ call \in [Proc -> Call]
      /\ pc[p] # "done" /\ pc'[p] = "done"
      /\ call[p].op = "resolve" /\ call'[p].result = result
  BY DEF IInv, TypeOK, Steps, Answers
<1>2. ASSUME NEW q \in Proc, q # p PROVE ~ (Step(q) \/ Request(q) \/ Respond(q))
  BY <1>1, <1>2 DEF Step, CacheGet, RepoGet, CheckExpiry, ComputeTTL, CacheSave,
     RepoSave, RowSaved, RowRefused, RowNotSaved, CheckOwner, CacheDelete, RepoDelete,
     Request, ResolveToken, GenerateToken, CreateTokenWithOwner, CreateToken,
     DeleteToken, Begin, Respond
<1>3. ~ Respond(p) /\ ~ Crash /\ ~ Tick /\ ~ CacheEvict /\ ~ UNCHANGED vars
  BY <1>1 DEF Respond, Crash, Tick, CacheEvict, vars
<1>4. ~ Request(p)
  <2>1. ASSUME NEW step \in {"repoSave", "cacheGet", "checkOwner"}, NEW new
        PROVE  ~ Begin(p, step, new)
    BY <1>1, <2>1 DEF Begin
  <2>2. ASSUME NEW error \in {"invalid", "internal"}
        PROVE  ~ Begin(p, "done", [Blank EXCEPT !.op = "create", !.result = error])
    <3>1. [Blank EXCEPT !.op = "create", !.result = error].result = error
      BY DEF Blank
    <3>2. QED
      BY <1>1, <3>1 DEF Begin
  <2>3. ASSUME NEW owner, NEW ttl PROVE ~ CreateToken(p, owner, ttl)
    <3> DEFINE new(t, u) == [Blank EXCEPT !.op = "create", !.token = t, !.url = u,
                                          !.expiresAt = now + EffectiveTTL(ttl),
                                          !.user = owner, !.start = now]
    <3>1. CreateToken(p, owner, ttl)
             => \E t \in Token, u \in Url : Begin(p, "repoSave", new(t, u))
      BY <2>2 DEF CreateToken
    <3> HIDE DEF new
    <3>2. QED
      BY <2>1, <3>1
  <2>4. QED
    BY <2>1, <2>3 DEF Request, ResolveToken, GenerateToken, CreateTokenWithOwner,
       DeleteToken
<1>5. Step(p)
  BY <1>2, <1>3, <1>4 DEF Next
<1>6. ASSUME NEW error, Fail(p, error) PROVE error = result
  BY <1>1, <1>6 DEF Blank
<1>7. pc[p] \notin DeleteStep
  BY <1>1 DEF IInv, CallInv, OpInv
<1>8. ~ RepoGet(p) /\ ~ ComputeTTL(p) /\ ~ RepoSave(p)
  BY <1>1, <1>6 DEF RepoGet, ComputeTTL, RepoSave, RowSaved, RowRefused, RowNotSaved
<1>9. ASSUME CheckExpiry(p) PROVE result = "ErrTokenExpired"
  BY <1>1, <1>6, <1>9 DEF CheckExpiry
<1>10. ASSUME CacheGet(p) \/ CacheSave(p) PROVE result = "ok"
  BY <1>1, <1>10 DEF CacheGet, CacheSave, Call
<1>11. QED
  BY <1>5, <1>7, <1>8, <1>9, <1>10
     DEF Step, CheckOwner, CacheDelete, RepoDelete, DeleteStep

\* What a cache hit hands out: a row the resolve may see, whose time is over by
\* no more than RequestLife if the entry has an expiry.
LEMMA HitRow ==
    ASSUME IInv, NEW e \in cache
    PROVE  \E r \in Visible(e.token) :
              /\ r.url = e.url
              /\ now <= r.expiresAt + RequestLife \/ <<r.token, r.url>> \in Kept
<1>1. PICK r \in issued : /\ r.token = e.token /\ r.url = e.url
                          /\ e.dies # NoExpiry => e.dies <= r.expiresAt + RequestLife
  BY DEF IInv, StoreInv, OverstayBounded
<1>2. r \in Visible(e.token)
  BY <1>1 DEF Visible, IInv, StoreInv, HistoryInv
<1>3. CASE e.dies = NoExpiry
  BY <1>1, <1>2, <1>3 DEF Kept
<1>4. CASE e.dies # NoExpiry
  <2>1. now <= e.dies /\ e.dies \in Int /\ now \in Nat /\ r.expiresAt \in Nat
    BY <1>4 DEF IInv, StoreInv, CacheLifeInv, TypeOK, Entry, NoExpiry, URLToken
  <2>2. QED
    BY <1>1, <1>2, <1>4, <2>1, TTLAssumption
<1>5. QED
  BY <1>3, <1>4

\* What a call holds when it fills the cache: a row a resolve may see, which had
\* time left when the call began.
LEMMA FillRow ==
    ASSUME IInv, NEW p \in Proc, pc[p] \in FillStep
    PROVE  \E r \in Visible(call[p].token) :
              /\ r.url = call[p].url /\ r.expiresAt = call[p].expiresAt
              /\ call[p].start <= r.expiresAt
<1>1. /\ call[p].start <= call[p].expiresAt
      /\ \E r \in issued : /\ r.token = call[p].token
                           /\ r.url = call[p].url
                           /\ r.expiresAt = call[p].expiresAt
  BY DEF IInv, CallInv, SaveInv, FillInv
<1>2. QED
  BY <1>1 DEF Visible, IInv, StoreInv, HistoryInv

\* ResolveToken answers with a URL the token was issued for, with the URL of
\* its row if the token was never deleted, and for an expired token only from
\* the cache, within RequestLife of its end or from a key without an expiry.
THEOREM ResolveHonest == Spec => ResolveCorrect
<1> DEFINE A == \A p \in Proc :
                   /\ Answers(p, "ok") =>
                         \E r \in Visible(call[p].token) :
                             r.url = call'[p].url /\ InLife(p, r)
                   /\ Answers(p, "ErrTokenExpired") =>
                         \E r \in issued :
                             r.token = call[p].token /\ r.expiresAt < now
<1>1. IInv /\ [Next]_vars => A
  <2> SUFFICES ASSUME IInv, [Next]_vars, NEW p \in Proc
               PROVE  /\ Answers(p, "ok") =>
                            \E r \in Visible(call[p].token) :
                                r.url = call'[p].url /\ InLife(p, r)
                      /\ Answers(p, "ErrTokenExpired") =>
                            \E r \in issued :
                                r.token = call[p].token /\ r.expiresAt < now
    OBVIOUS
  <2>1. ASSUME Answers(p, "ok"), CacheGet(p)
        PROVE  \E r \in Visible(call[p].token) : r.url = call'[p].url /\ InLife(p, r)
    <3>1. PICK e \in cache :
             /\ e.token = call[p].token
             /\ call' = [call EXCEPT ![p].url = e.url, ![p].result = "ok"]
      BY <2>1 DEF CacheGet, EntriesOf, Goto, Answers, IInv, TypeOK
    <3>2. call'[p].url = e.url
      BY <3>1 DEF IInv, TypeOK, Call
    <3>3. QED
      BY <2>1, <3>1, <3>2, HitRow DEF CacheGet, InLife, Hit
  <2>2. ASSUME Answers(p, "ok"), CacheSave(p)
        PROVE  \E r \in Visible(call[p].token) : r.url = call'[p].url /\ InLife(p, r)
    <3>1. Succeed(p) /\ pc[p] \in FillStep
      BY <2>1, <2>2 DEF CacheSave, Resend, Answers, FillStep
    <3>2. call'[p].url = call[p].url
      BY <3>1, SucceedFrame DEF IInv
    <3>3. QED
      BY <3>1, <3>2, FillRow DEF InLife
  <2>3. ASSUME Answers(p, "ErrTokenExpired"), CheckExpiry(p)
        PROVE  \E r \in issued : r.token = call[p].token /\ r.expiresAt < now
    <3>1. call[p].expiresAt < now
      BY <2>3 DEF CheckExpiry, Goto, Answers, IInv, TypeOK
    <3>2. QED
      BY <2>3, <3>1 DEF CheckExpiry, IInv, CallInv, FillInv
  <2>4. QED
    BY <2>1, <2>2, <2>3, AnsweringStep
<1>2. QED
  BY <1>1, InvariantHolds, PTL DEF Spec, ResolveCorrect

\* A createToken that reported success left its row in url_tokens.
THEOREM CreateDurable == Spec => []CreateAckMeansRow
<1>1. IInv => CreateAckMeansRow
  BY DEF IInv, CallInv, CreateAckMeansRow
<1>2. QED
  BY <1>1, InvariantHolds, PTL

\* Rows leave url_tokens only by the DeleteToken call of a user who has owned
\* the token.
THEOREM RowsDieByOwners == Spec => RowDiesByFormerOwner
<1> DEFINE A == \A r \in repo \ repo' :
                   \E p \in Proc :
                      /\ pc[p] = "repoDelete"
                      /\ call[p].token = r.token
                      /\ \E i \in issued : /\ i.token = r.token
                                           /\ i.owner = call[p].user
                                           /\ i.owner # Null
<1>1. IInv /\ [Next]_vars => A
  <2> SUFFICES ASSUME IInv, [Next]_vars, NEW r \in repo, r \notin repo'
               PROVE  \E p \in Proc :
                         /\ pc[p] = "repoDelete"
                         /\ call[p].token = r.token
                         /\ \E i \in issued : /\ i.token = r.token
                                              /\ i.owner = call[p].user
                                              /\ i.owner # Null
    OBVIOUS
  <2>1. PICK p \in Proc : RepoDelete(p)
    BY DEF Next, vars, Request, Step, ResolveToken, GenerateToken,
       CreateTokenWithOwner, CreateToken, DeleteToken, Begin, CacheGet, RepoGet,
       CheckExpiry, ComputeTTL, CacheSave, RepoSave, RowSaved, RowRefused,
       RowNotSaved, Insert, CheckOwner,
       CacheDelete, Respond, Tick, CacheEvict, Crash
  <2>2. call[p].token = r.token
    BY <2>1 DEF RepoDelete, DeleteRows
  <2>3. \E i \in issued : i.token = call[p].token /\ i.owner = call[p].user
    BY <2>1 DEF RepoDelete, IInv, CallInv, OwnerInv
  <2>4. call[p].user # Null
    BY <2>1, NullAssumption DEF RepoDelete, IInv, TypeOK, DeleteStep
  <2>5. QED
    BY <2>1, <2>2, <2>3, <2>4 DEF RepoDelete
<1>2. QED
  BY <1>1, InvariantHolds, PTL DEF Spec, RowDiesByFormerOwner

=============================================================================
