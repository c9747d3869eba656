--------------------------- MODULE RegistryProofs ---------------------------
(***************************************************************************)
(* The shortener service implements the register of tokens, for every      *)
(* value of the constants: every step of Shortener is a step of            *)
(* TokenRegistry or invisible there.                                       *)
(***************************************************************************)
EXTENDS ShortenerProofs

\* What the mapping needs besides IInv: the steps that two operations share
\* tell which one they serve, and a delete has no URL.
JobInv(p) ==
    /\ pc[p] \in CreateStep => call[p].op = "create"
    /\ pc[p] \in FillStep => call[p].op \in {"create", "resolve"}
    /\ pc[p] \in DeleteStep => call[p].url = Null

MapInv == IInv /\ \A p \in Proc : JobInv(p)

Jobs == [p \in Proc |-> JobOf(p)]

Job == [phase : {"idle", "asked", "saved", "done"},
        op : {"create", "resolve", "delete", Null}, token : Token \cup {Null},
        url : Url \cup {Null}, expiresAt : Nat, user : Owner, since : Nat,
        result : Result \cup {Null}]

-----------------------------------------------------------------------------
(***************************************************************************)
(* One call, seen from outside.                                            *)
(***************************************************************************)

\* A step of one call changes one job.
LEMMA OneJob ==
    ASSUME NEW p \in Proc, Others(p)
    PROVE  Jobs' = [Jobs EXCEPT ![p] = JobOf(p)']
<1>1. ASSUME NEW q \in Proc, q # p PROVE JobOf(q)' = JobOf(q)
  BY <1>1 DEF Others, JobOf, PhaseOf, FillStep
<1>2. QED
  BY <1>1 DEF Jobs

LEMMA JobFields ==
    ASSUME NEW p \in Proc
    PROVE  /\ Jobs[p] = JobOf(p)
           /\ Jobs[p].phase = PhaseOf(p)
           /\ Jobs[p].op = call[p].op
           /\ Jobs[p].token = call[p].token
           /\ Jobs[p].user = call[p].user
BY DEF Jobs, JobOf

\* Jobs are equal if their fields are.
LEMMA SameJob ==
    ASSUME NEW a \in Job, NEW b \in Job,
           a.phase = b.phase, a.op = b.op, a.token = b.token, a.url = b.url,
           a.expiresAt = b.expiresAt, a.user = b.user, a.since = b.since,
           a.result = b.result
    PROVE  a = b
BY DEF Job

LEMMA JobType ==
    ASSUME TypeOK, NEW p \in Proc
    PROVE  JobOf(p) \in Job
<1>1. call[p] \in Call
  BY DEF TypeOK
<1>2. PhaseOf(p) \in {"idle", "asked", "saved", "done"}
  BY DEF PhaseOf, FillStep
<1>3. QED
  BY <1>1, <1>2 DEF JobOf, Job, Call

LEMMA NextJobType ==
    ASSUME TypeOK', NEW p \in Proc
    PROVE  JobOf(p)' \in Job
<1>1. call'[p] \in Call
  BY DEF TypeOK
<1>2. PhaseOf(p)' \in {"idle", "asked", "saved", "done"}
  BY DEF PhaseOf, FillStep
<1>3. QED
  BY <1>1, <1>2 DEF JobOf, Job, Call

\* Where a call is, as its caller sees it.
LEMMA Phases ==
    ASSUME NEW p
    PROVE  /\ pc[p] = "idle" => PhaseOf(p) = "idle"
           /\ pc[p] = "done" => PhaseOf(p) = "done"
           /\ pc[p] \in ResolveStep \cup CreateStep \cup DeleteStep
                => PhaseOf(p) = "asked"
           /\ pc[p] \in FillStep
                => PhaseOf(p) = IF call[p].op = "create" THEN "saved" ELSE "asked"
BY DEF PhaseOf, ResolveStep, CreateStep, DeleteStep, FillStep

\* Moving on within a call is invisible while the phase stays.
LEMMA HiddenStep ==
    ASSUME NEW p \in Proc, Others(p), PhaseOf(p)' = PhaseOf(p),
           pc[p] # "done", pc'[p] # "done",
           call'[p].op = call[p].op, call'[p].token = call[p].token,
           call'[p].user = call[p].user, call'[p].result = call[p].result,
           call'[p].start = call[p].start,
           call[p].op = "create" => /\ call'[p].url = call[p].url
                                    /\ call'[p].expiresAt = call[p].expiresAt
    PROVE  Jobs' = Jobs
<1>1. JobOf(p)' = JobOf(p)
  BY DEF JobOf
<1>2. QED
  BY <1>1, OneJob DEF Jobs

LEMMA FailMaps ==
    ASSUME TypeOK, TypeOK', NEW p \in Proc, NEW error \in Result, Fail(p, error)
    PROVE  Registry!Fail(p, error)
<1> DEFINE answer == [Blank EXCEPT !.op = call[p].op, !.token = call[p].token,
                                  !.result = error]
           job == [Registry!NoJob EXCEPT !.phase = "done", !.op = Jobs[p].op,
                                         !.token = Jobs[p].token, !.result = error]
<1>1. pc'[p] = "done" /\ call'[p] = answer /\ Others(p)
  BY DEF TypeOK, Fail, Others
<1>2. /\ answer.op = call[p].op /\ answer.token = call[p].token
      /\ answer.url = Null /\ answer.expiresAt = 0 /\ answer.user = Null
      /\ answer.start = 0 /\ answer.result = error
  BY DEF Blank
<1>3. /\ job \in Job
      /\ job.phase = "done" /\ job.op = call[p].op /\ job.token = call[p].token
      /\ job.url = Null /\ job.expiresAt = 0 /\ job.user = Null /\ job.since = 0
      /\ job.result = error
  <2>1. /\ Jobs[p].op = call[p].op /\ Jobs[p].token = call[p].token
        /\ call[p] \in Call
    BY JobFields DEF TypeOK
  <2>2. QED
    BY <2>1 DEF Registry!NoJob, Job, Call, Owner
<1> HIDE DEF answer, job
<1>4. JobOf(p)' = job
  <2>1. PhaseOf(p)' = "done"
    BY <1>1 DEF PhaseOf, FillStep
  <2>2. JobOf(p)' \in Job
    BY NextJobType
  <2>3. /\ JobOf(p)'.phase = "done" /\ JobOf(p)'.op = answer.op
        /\ JobOf(p)'.token = answer.token /\ JobOf(p)'.url = answer.url
        /\ JobOf(p)'.expiresAt = 0 /\ JobOf(p)'.user = answer.user
        /\ JobOf(p)'.since = 0 /\ JobOf(p)'.result = answer.result
    BY <1>1, <1>2, <2>1 DEF JobOf
  <2>4. QED
    BY <1>2, <1>3, <2>2, <2>3, SameJob
<1>5. Jobs' = [Jobs EXCEPT ![p] = job]
  BY <1>1, <1>4, OneJob
<1>6. QED
  BY <1>5 DEF job, Jobs, Registry!Fail

\* A call that is done with an answer: its URL, if it has one, is in it.
LEMMA DoneMaps ==
    ASSUME TypeOK, TypeOK', NEW p \in Proc, Others(p), pc'[p] = "done",
           call'[p].op = call[p].op, call'[p].token = call[p].token,
           call'[p].user = call[p].user, call'[p].start = call[p].start,
           call'[p].result = "ok",
           call[p].op = "create" => call'[p].expiresAt = call[p].expiresAt
    PROVE  JobOf(p)' = [JobOf(p) EXCEPT !.phase = "done", !.url = call'[p].url,
                                        !.result = "ok"]
<1> DEFINE job == [JobOf(p) EXCEPT !.phase = "done", !.url = call'[p].url,
                                   !.result = "ok"]
<1>1. /\ JobOf(p).op = call[p].op /\ JobOf(p).token = call[p].token
      /\ JobOf(p).expiresAt = IF call[p].op = "create" THEN call[p].expiresAt ELSE 0
      /\ JobOf(p).user = call[p].user
      /\ JobOf(p).since = IF call[p].op = "resolve" THEN call[p].start ELSE 0
  BY DEF JobOf
<1>2. /\ job \in Job
      /\ job.phase = "done" /\ job.op = call[p].op /\ job.token = call[p].token
      /\ job.expiresAt = IF call[p].op = "create" THEN call[p].expiresAt ELSE 0
      /\ job.url = call'[p].url /\ job.user = call[p].user /\ job.result = "ok"
      /\ job.since = IF call[p].op = "resolve" THEN call[p].start ELSE 0
  <2>1. JobOf(p) \in Job /\ call'[p].url \in Url \cup {Null}
    BY JobType DEF TypeOK, Call
  <2>2. QED
    BY <1>1, <2>1 DEF Job, Result
<1>3. /\ JobOf(p)' \in Job
      /\ JobOf(p)'.phase = "done" /\ JobOf(p)'.op = call'[p].op
      /\ JobOf(p)'.token = call'[p].token /\ JobOf(p)'.url = call'[p].url
      /\ JobOf(p)'.expiresAt = IF call'[p].op = "create" THEN call'[p].expiresAt ELSE 0
      /\ JobOf(p)'.user = call'[p].user /\ JobOf(p)'.result = call'[p].result
      /\ JobOf(p)'.since = IF call'[p].op = "resolve" THEN call'[p].start ELSE 0
  <2>1. PhaseOf(p)' = "done" /\ JobOf(p)' \in Job
    BY NextJobType DEF PhaseOf, FillStep
  <2>2. QED
    BY <2>1 DEF JobOf
<1> HIDE DEF job
<1>4. JobOf(p)' = job
  BY <1>2, <1>3, SameJob
<1>5. QED
  BY <1>4 DEF job

\* A resolve that has found a URL.
LEMMA FoundMaps ==
    ASSUME TypeOK, TypeOK', NEW p \in Proc, Others(p), pc'[p] = "done",
           call[p].op = "resolve",
           call'[p].op = call[p].op, call'[p].token = call[p].token,
           call'[p].user = call[p].user, call'[p].start = call[p].start,
           call'[p].result = "ok"
    PROVE  Jobs' = [Jobs EXCEPT ![p].phase = "done", ![p].url = call'[p].url,
                                ![p].result = "ok"]
<1>1. JobOf(p)' = [JobOf(p) EXCEPT !.phase = "done", !.url = call'[p].url,
                                   !.result = "ok"]
  BY DoneMaps
<1>2. QED
  BY <1>1, OneJob DEF Jobs

LEMMA SucceedMaps ==
    ASSUME TypeOK, TypeOK', NEW p \in Proc, Succeed(p), pc[p] # "done",
           call[p].op = "create" \/ call[p].url = Null
    PROVE  Registry!Succeed(p)
<1> DEFINE job == [JobOf(p) EXCEPT !.phase = "done", !.result = "ok"]
           same == [JobOf(p) EXCEPT !.phase = "done", !.url = call[p].url, !.result = "ok"]
<1>1. JobOf(p)' = same
  BY SucceedFrame, DoneMaps
<1>2. same = job
  <2>1. JobOf(p) \in Job /\ JobOf(p).url = call[p].url
    BY JobType DEF JobOf
  <2>2. QED
    BY <2>1 DEF Job, Result
<1>3. Jobs' = [Jobs EXCEPT ![p] = job]
  BY <1>1, <1>2, OneJob, SucceedFrame
<1>4. QED
  BY <1>3 DEF Jobs, Registry!Succeed

\* A new call.
LEMMA BeginMaps ==
    ASSUME TypeOK, TypeOK', NEW p \in Proc, NEW step \in {"done"} \cup Steps,
           NEW newCall \in Call, Begin(p, step, newCall), step \notin FillStep,
           newCall.op = "create" \/ (newCall.url = Null /\ newCall.expiresAt = 0),
           NEW job \in Job,
           job.phase = IF step = "done" THEN "done" ELSE "asked",
           job.op = newCall.op, job.token = newCall.token, job.url = newCall.url,
           job.expiresAt = newCall.expiresAt, job.user = newCall.user,
           job.since = IF newCall.op = "resolve" THEN newCall.start ELSE 0,
           job.result = newCall.result
    PROVE  Registry!Ask(p, job)
<1>1. pc[p] = "idle" /\ pc'[p] = step /\ call'[p] = newCall /\ Others(p)
  BY DEF Begin, Others, TypeOK, Steps
<1>2. PhaseOf(p)' = IF step = "done" THEN "done" ELSE "asked"
  BY <1>1 DEF PhaseOf, Steps, ResolveStep, CreateStep, DeleteStep, FillStep
<1>3. JobOf(p)' = job
  <2>1. JobOf(p)' \in Job
    BY NextJobType
  <2>2. /\ JobOf(p)'.phase = job.phase /\ JobOf(p)'.op = newCall.op
        /\ JobOf(p)'.token = newCall.token /\ JobOf(p)'.url = newCall.url
        /\ JobOf(p)'.expiresAt = newCall.expiresAt /\ JobOf(p)'.user = newCall.user
        /\ JobOf(p)'.since = IF newCall.op = "resolve" THEN newCall.start ELSE 0
        /\ JobOf(p)'.result = newCall.result
    BY <1>1, <1>2 DEF JobOf
  <2>3. QED
    BY <2>1, <2>2, SameJob
<1>4. Jobs' = [Jobs EXCEPT ![p] = job]
  BY <1>1, <1>3, OneJob
<1>5. Jobs[p].phase = "idle"
  BY <1>1, JobFields, Phases
<1>6. QED
  BY <1>4, <1>5 DEF Jobs, Registry!Ask, Begin

-----------------------------------------------------------------------------
(***************************************************************************)
(* Each step of a call.                                                    *)
(***************************************************************************)
Refines == [Registry!CallStep]_(Registry!registryVars)

Unseen == UNCHANGED <<now, repo, issued, deletedAt>>

LEMMA Hides ==
    ASSUME Unseen, Jobs' = Jobs
    PROVE  Refines
BY DEF Refines, Unseen, Jobs, Registry!registryVars

\* A step that serves an unanswered request.
LEMMA Serves ==
    ASSUME NEW p \in Proc, Jobs[p].phase \in {"asked", "saved"},
           \/ Registry!Create(p) \/ Registry!Created(p) \/ Registry!AlreadyTaken(p)
           \/ Registry!Resolve(p)
           \/ Registry!Delete(p) \/ Registry!NothingToDelete(p) \/ Registry!NotOwner(p)
           \/ Registry!Break(p)
    PROVE  Refines
BY DEF Refines, Jobs, Registry!CallStep, Registry!Serve

LEMMA Breaks ==
    ASSUME TypeOK, TypeOK', NEW p \in Proc, Unseen, PhaseOf(p) = "asked",
           Fail(p, "internal")
    PROVE  Refines
<1>1. Registry!Fail(p, "internal") /\ Jobs[p].phase = "asked"
  BY FailMaps, JobFields DEF Result
<1>2. Registry!Break(p)
  BY <1>1 DEF Jobs, Unseen, Registry!Break
<1>3. QED
  BY <1>1, <1>2, Serves

\* A request on its way.
LEMMA Moves ==
    ASSUME TypeOK, NEW p \in Proc, NEW step, Goto(p, step), Unseen,
           step # "done", pc[p] # "done",
           PhaseOf(p)' = PhaseOf(p)
    PROVE  Refines
<1>1. pc'[p] = step /\ call'[p] = call[p] /\ Others(p)
  BY DEF Goto, TypeOK, Others
<1>2. QED
  BY <1>1, HiddenStep, Hides

\* The rows a resolve may still see are the same in the service's terms.
LEMMA KnownRows ==
    ASSUME NEW t
    PROVE  Registry!Known(t) = Visible(t)
BY DEF Registry!Known, Registry!RowsOf, Registry!Never, Never, Visible

LEMMA ResolveAnswers ==
    ASSUME MapInv, TypeOK', NEW p \in Proc, Unseen, PhaseOf(p) = "asked",
           call[p].op = "resolve", Others(p), pc'[p] = "done",
           call'[p].op = call[p].op, call'[p].token = call[p].token,
           call'[p].user = call[p].user, call'[p].start = call[p].start,
           call'[p].result = "ok",
           NEW r \in Visible(call[p].token), r.url = call'[p].url,
           \/ call[p].start <= r.expiresAt + RequestLife
           \/ <<r.token, r.url>> \in Kept
    PROVE  Refines
<1>1. /\ Jobs[p].phase = "asked" /\ Jobs[p].op = "resolve"
      /\ Jobs[p].token = call[p].token
      /\ Jobs[p].since = call[p].start
  BY JobFields DEF Jobs, JobOf
<1>2. r \in Registry!Known(call[p].token)
  BY KnownRows
<1>3. Jobs' = [Jobs EXCEPT ![p].phase = "done", ![p].url = r.url, ![p].result = "ok"]
  BY FoundMaps DEF MapInv, IInv
<1>4. Registry!Answerable(r, Jobs[p].since)
  BY <1>1 DEF Registry!Answerable
<1>5. Registry!Resolve(p)
  BY <1>1, <1>2, <1>3, <1>4 DEF Jobs, Unseen, Registry!Resolve, Registry!Asked
<1>6. QED
  BY <1>1, <1>5, Serves

LEMMA CacheGetRefines ==
    ASSUME MapInv, TypeOK', NEW p \in Proc, CacheGet(p)
    PROVE  Refines
<1>1. TypeOK /\ Unseen /\ pc[p] = "cacheGet" /\ PhaseOf(p) = "asked"
  BY Phases DEF MapInv, IInv, CacheGet, Unseen, ResolveStep
<1>2. CASE Goto(p, "repoGet")
  <2>1. PhaseOf(p)' = "asked"
    BY <1>1, <1>2 DEF Goto, TypeOK, PhaseOf, FillStep
  <2>2. QED
    BY <1>1, <1>2, <2>1, Moves
<1>3. CASE ~ Goto(p, "repoGet")
  <2>1. PICK e \in cache :
           /\ e.token = call[p].token
           /\ call' = [call EXCEPT ![p].url = e.url, ![p].result = "ok"]
    BY <1>3 DEF CacheGet, EntriesOf
  <2>2. /\ pc'[p] = "done"
        /\ call'[p].op = call[p].op /\ call'[p].token = call[p].token
        /\ call'[p].user = call[p].user /\ call'[p].url = e.url
        /\ call'[p].start = call[p].start
        /\ call'[p].result = "ok" /\ Others(p)
    <3> DEFINE hit == [call[p] EXCEPT !.url = e.url, !.result = "ok"]
    <3>1. call[p] \in Call /\ call' = [call EXCEPT ![p] = hit]
      BY <1>1, <2>1 DEF TypeOK
    <3>2. /\ hit.op = call[p].op /\ hit.token = call[p].token
          /\ hit.user = call[p].user /\ hit.url = e.url /\ hit.result = "ok"
          /\ hit.start = call[p].start
      BY <3>1 DEF Call
    <3> HIDE DEF hit
    <3>3. QED
      BY <1>1, <1>3, <3>1, <3>2 DEF CacheGet, Others, TypeOK
  <2>3. call[p].op = "resolve" /\ call[p].start <= now
    BY <1>1 DEF MapInv, IInv, CallInv, OpInv, ResolveStep
  <2>4. PICK r \in Visible(call[p].token) :
           /\ r.url = e.url
           /\ now <= r.expiresAt + RequestLife \/ <<r.token, r.url>> \in Kept
    BY <2>1, HitRow DEF MapInv
  <2>5. call[p].start <= r.expiresAt + RequestLife \/ <<r.token, r.url>> \in Kept
    <3>1. /\ now \in Nat /\ call[p].start \in Nat /\ r.expiresAt \in Nat
          /\ RequestLife \in Nat
      BY TTLAssumption DEF MapInv, IInv, TypeOK, Call, Visible, URLToken
    <3>2. QED
      BY <2>3, <2>4, <3>1
  <2>6. QED
    BY <1>1, <2>2, <2>3, <2>4, <2>5, ResolveAnswers
<1>4. QED
  BY <1>2, <1>3

LEMMA RepoGetRefines ==
    ASSUME MapInv, TypeOK', NEW p \in Proc, RepoGet(p)
    PROVE  Refines
<1>1. /\ TypeOK /\ Unseen /\ pc[p] = "repoGet" /\ PhaseOf(p) = "asked"
      /\ call[p].op = "resolve"
  BY Phases DEF MapInv, IInv, RepoGet, Unseen, ResolveStep, CallInv, OpInv
<1>2. CASE Fail(p, "internal")
  BY <1>1, <1>2, Breaks
<1>3. CASE RowsOf(call[p].token) = {} /\ Fail(p, "ErrTokenDoesNotExist")
  <2>1. /\ Jobs[p].phase = "asked" /\ Jobs[p].op = "resolve"
        /\ Jobs[p].token = call[p].token
    BY <1>1, JobFields
  <2>2. Registry!Fail(p, "ErrTokenDoesNotExist")
    BY <1>1, <1>3, FailMaps DEF Result
  <2>3. Registry!Resolve(p)
    BY <1>1, <1>3, <2>1, <2>2
       DEF Jobs, Unseen, RowsOf, Registry!Resolve, Registry!Asked, Registry!RowsOf
  <2>4. QED
    BY <2>1, <2>3, Serves
<1>4. ASSUME NEW r \in RowsOf(call[p].token),
             call' = [call EXCEPT ![p].url = r.url, ![p].expiresAt = r.expiresAt],
             pc' = [pc EXCEPT ![p] = "checkExpiry"]
      PROVE  Refines
  <2> DEFINE found == [call[p] EXCEPT !.url = r.url, !.expiresAt = r.expiresAt]
  <2>1. call[p] \in Call /\ call' = [call EXCEPT ![p] = found]
    BY <1>1, <1>4 DEF TypeOK
  <2>2. /\ found.op = call[p].op /\ found.token = call[p].token
        /\ found.user = call[p].user /\ found.result = call[p].result
        /\ found.start = call[p].start
    BY <2>1 DEF Call
  <2> HIDE DEF found
  <2>3. call'[p] = found /\ pc'[p] = "checkExpiry" /\ Others(p)
    BY <1>1, <1>4, <2>1 DEF TypeOK, Others
  <2>4. PhaseOf(p)' = "asked"
    BY <2>3 DEF PhaseOf, FillStep
  <2>5. QED
    BY <1>1, <2>2, <2>3, <2>4, HiddenStep, Hides
<1>5. QED
  BY <1>2, <1>3, <1>4 DEF RepoGet

\* The row was read before the clock: it is one the token had, and nobody has
\* deleted the token unless the register knows.
LEMMA HeldRow ==
    ASSUME MapInv, NEW p \in Proc, pc[p] = "checkExpiry"
    PROVE  \E r \in Visible(call[p].token) : r.expiresAt = call[p].expiresAt
<1>1. PICK r \in issued : r.token = call[p].token /\ r.expiresAt = call[p].expiresAt
  BY DEF MapInv, IInv, CallInv, FillInv
<1>2. deletedAt[call[p].token] = Never => r \in repo
  BY <1>1 DEF MapInv, IInv, StoreInv, HistoryInv
<1>3. QED
  BY <1>1, <1>2 DEF Visible

LEMMA CheckExpiryRefines ==
    ASSUME MapInv, TypeOK', NEW p \in Proc, CheckExpiry(p)
    PROVE  Refines
<1>1. /\ TypeOK /\ Unseen /\ pc[p] = "checkExpiry" /\ PhaseOf(p) = "asked"
      /\ call[p].op = "resolve"
  BY Phases DEF MapInv, IInv, CheckExpiry, Unseen, ResolveStep, CallInv, OpInv
<1>2. CASE Goto(p, "computeTTL")
  <2>1. PhaseOf(p)' = "asked"
    BY <1>1, <1>2 DEF Goto, TypeOK, PhaseOf, FillStep
  <2>2. QED
    BY <1>1, <1>2, <2>1, Moves
<1>3. CASE call[p].expiresAt < now /\ Fail(p, "ErrTokenExpired")
  <2>1. /\ Jobs[p].phase = "asked" /\ Jobs[p].op = "resolve"
        /\ Jobs[p].token = call[p].token
    BY <1>1, JobFields
  <2>2. \E r \in Registry!Known(call[p].token) : r.expiresAt < now
    BY <1>1, <1>3, HeldRow, KnownRows
  <2>3. Registry!Fail(p, "ErrTokenExpired")
    BY <1>1, <1>3, FailMaps DEF Result
  <2>4. Registry!Resolve(p)
    BY <1>1, <2>1, <2>2, <2>3 DEF Jobs, Unseen, Registry!Resolve, Registry!Asked
  <2>5. QED
    BY <2>1, <2>4, Serves
<1>4. QED
  BY <1>2, <1>3 DEF CheckExpiry

LEMMA ComputeTTLRefines ==
    ASSUME MapInv, TypeOK', NEW p \in Proc, ComputeTTL(p)
    PROVE  Refines
<1>1. TypeOK /\ Unseen /\ pc[p] = "computeTTL"
  BY DEF MapInv, IInv, ComputeTTL, Unseen
<1> DEFINE new == [call[p] EXCEPT !.ttl = FillTTL(call[p].expiresAt)]
<1>2. call[p] \in Call /\ call' = [call EXCEPT ![p] = new]
  BY <1>1 DEF TypeOK, ComputeTTL
<1>3. /\ new.op = call[p].op /\ new.token = call[p].token /\ new.url = call[p].url
      /\ new.user = call[p].user /\ new.result = call[p].result
      /\ new.expiresAt = call[p].expiresAt /\ new.start = call[p].start
  BY <1>2 DEF Call
<1> HIDE DEF new
<1>4. call'[p] = new /\ pc'[p] = "cacheSave" /\ Others(p)
  BY <1>1, <1>2 DEF TypeOK, ComputeTTL, Others
<1>5. PhaseOf(p)' = PhaseOf(p)
  BY <1>1, <1>3, <1>4 DEF PhaseOf, FillStep
<1>6. QED
  BY <1>1, <1>3, <1>4, <1>5, HiddenStep, Hides

\* Here a resolve has its effect, which is its answer, and a create hears that
\* its row is in the table.
LEMMA CacheSaveRefines ==
    ASSUME MapInv, TypeOK', NEW p \in Proc, CacheSave(p)
    PROVE  Refines
<1>1. /\ TypeOK /\ Unseen /\ pc[p] = "cacheSave" /\ pc[p] \in FillStep
      /\ call[p].op \in {"create", "resolve"}
  BY DEF MapInv, IInv, CacheSave, Unseen, JobInv, FillStep
<1>2. CASE Resend
  <2>1. Jobs' = Jobs
    BY <1>2 DEF Resend, Jobs, JobOf, PhaseOf
  <2>2. QED
    BY <1>1, <2>1, Hides
<1>3. CASE Succeed(p) /\ call[p].op = "create"
  <2>1. Jobs[p].phase = "saved"
    BY <1>1, <1>3, JobFields, Phases
  <2>2. Registry!Succeed(p)
    BY <1>1, <1>3, SucceedMaps
  <2>3. Registry!Created(p)
    BY <1>1, <2>1, <2>2 DEF Jobs, Unseen, Registry!Created
  <2>4. QED
    BY <2>1, <2>3, Serves
<1>4. CASE Succeed(p) /\ call[p].op = "resolve"
  <2>1. PhaseOf(p) = "asked"
    BY <1>1, <1>4, Phases
  <2>2. PICK r \in Visible(call[p].token) :
           r.url = call[p].url /\ call[p].start <= r.expiresAt
    BY <1>1, FillRow DEF MapInv
  <2>3. call[p].start <= r.expiresAt + RequestLife
    <3>1. /\ call[p].start \in Nat /\ r.expiresAt \in Nat /\ RequestLife \in Nat
      BY TTLAssumption DEF MapInv, IInv, TypeOK, Call, Visible, URLToken
    <3>2. QED
      BY <2>2, <3>1
  <2>4. QED
    BY <1>1, <1>4, <2>1, <2>2, <2>3, SucceedFrame, ResolveAnswers
<1>5. QED
  BY <1>1, <1>2, <1>3, <1>4 DEF CacheSave

\* The INSERT is where a create has its effect.
LEMMA RepoSaveRefines ==
    ASSUME MapInv, TypeOK', NEW p \in Proc, RepoSave(p)
    PROVE  Refines
<1>1. /\ TypeOK /\ pc[p] = "repoSave" /\ PhaseOf(p) = "asked"
      /\ call[p].op = "create" /\ now' = now /\ deletedAt' = deletedAt
  BY Phases DEF MapInv, IInv, RepoSave, JobInv, CreateStep
<1>2. /\ Jobs[p].phase = "asked" /\ Jobs[p].op = "create"
      /\ Jobs[p].token = call[p].token
  BY <1>1, JobFields
<1>3. CASE RowNotSaved(p)
  BY <1>1, <1>3, Breaks DEF RowNotSaved, Unseen
<1>4. CASE RowRefused(p)
  <2>1. Registry!Fail(p, "ErrTokenIsNotUnique")
    BY <1>1, <1>4, FailMaps DEF RowRefused, Result
  <2>2. Registry!AlreadyTaken(p)
    BY <1>1, <1>2, <1>4, <2>1
       DEF Jobs, RowRefused, Unique, RowsOf, Registry!AlreadyTaken, Registry!Asked,
           Registry!RowsOf
  <2>3. QED
    BY <1>2, <2>2, Serves
<1>5. CASE RowSaved(p)
  <2>1. Registry!RowOf(Jobs[p]) = NewRow(p)
    <3>1. /\ Jobs[p].url = call[p].url /\ Jobs[p].expiresAt = call[p].expiresAt
          /\ Jobs[p].user = call[p].user
      BY <1>1 DEF Jobs, JobOf
    <3>2. QED
      BY <1>2, <3>1 DEF NewRow, Registry!RowOf
  <2>2. \/ Jobs' = [Jobs EXCEPT ![p].phase = "saved"]
        \/ Registry!Fail(p, "internal")
    <3>1. CASE Fail(p, "internal")
      BY <1>1, <3>1, FailMaps DEF Result
    <3>2. CASE Goto(p, "computeTTL")
      <4>1. pc'[p] = "computeTTL" /\ call'[p] = call[p] /\ Others(p)
        BY <1>1, <3>2 DEF Goto, TypeOK, Others
      <4>2. PhaseOf(p)' = "saved"
        BY <1>1, <4>1 DEF PhaseOf, FillStep
      <4> DEFINE job == [JobOf(p) EXCEPT !.phase = "saved"]
      <4>3. /\ job \in Job /\ job.phase = "saved" /\ job.op = JobOf(p).op
            /\ job.token = JobOf(p).token /\ job.url = JobOf(p).url
            /\ job.expiresAt = JobOf(p).expiresAt /\ job.user = JobOf(p).user
            /\ job.since = JobOf(p).since /\ job.result = JobOf(p).result
        BY <1>1, JobType DEF Job
      <4> HIDE DEF job
      <4>4. /\ JobOf(p)'.phase = "saved" /\ JobOf(p)'.op = JobOf(p).op
            /\ JobOf(p)'.token = JobOf(p).token /\ JobOf(p)'.url = JobOf(p).url
            /\ JobOf(p)'.expiresAt = JobOf(p).expiresAt
            /\ JobOf(p)'.user = JobOf(p).user /\ JobOf(p)'.result = JobOf(p).result
            /\ JobOf(p)'.since = JobOf(p).since
        BY <1>1, <4>1, <4>2 DEF JobOf
      <4>5. JobOf(p)' = job
        BY <4>3, <4>4, NextJobType, SameJob
      <4>6. QED
        BY <4>1, <4>5, OneJob DEF job, Jobs
    <3>3. QED
      BY <1>5, <3>1, <3>2 DEF RowSaved
  <2>3. Registry!Create(p)
    BY <1>1, <1>2, <1>5, <2>1, <2>2
       DEF Jobs, RowSaved, Insert, Unique, RowsOf, Registry!Create, Registry!Asked,
           Registry!RowsOf
  <2>4. QED
    BY <1>2, <2>3, Serves
<1>6. QED
  BY <1>3, <1>4, <1>5 DEF RepoSave

LEMMA CheckOwnerRefines ==
    ASSUME MapInv, TypeOK', NEW p \in Proc, CheckOwner(p)
    PROVE  Refines
<1>1. /\ TypeOK /\ Unseen /\ pc[p] = "checkOwner" /\ PhaseOf(p) = "asked"
      /\ call[p].op = "delete" /\ call[p].url = Null
  BY Phases DEF MapInv, IInv, CheckOwner, Unseen, DeleteStep, CallInv, OpInv, JobInv
<1>2. /\ Jobs[p].phase = "asked" /\ Jobs[p].op = "delete"
      /\ Jobs[p].token = call[p].token /\ Jobs[p].user = call[p].user
  BY <1>1, JobFields
<1>3. CASE Fail(p, "internal")
  BY <1>1, <1>3, Breaks
<1>4. CASE RowsOf(call[p].token) = {} /\ Succeed(p)
  <2>1. Registry!Succeed(p)
    BY <1>1, <1>4, SucceedMaps
  <2>2. Registry!NothingToDelete(p)
    BY <1>1, <1>2, <1>4, <2>1
       DEF Jobs, Unseen, RowsOf, Registry!NothingToDelete, Registry!Asked,
           Registry!RowsOf
  <2>3. QED
    BY <1>2, <2>2, Serves
<1>5. ASSUME NEW r \in RowsOf(call[p].token), r.owner # call[p].user,
             Fail(p, "ErrNotTokenOwner")
      PROVE  Refines
  <2>1. Registry!Fail(p, "ErrNotTokenOwner")
    BY <1>1, <1>5, FailMaps DEF Result
  <2>2. Registry!NotOwner(p)
    BY <1>1, <1>2, <1>5, <2>1
       DEF Jobs, Unseen, RowsOf, Registry!NotOwner, Registry!Asked, Registry!RowsOf
  <2>3. QED
    BY <1>2, <2>2, Serves
<1>6. CASE Goto(p, "cacheDelete")
  <2>1. PhaseOf(p)' = "asked"
    BY <1>1, <1>6 DEF Goto, TypeOK, PhaseOf, FillStep
  <2>2. QED
    BY <1>1, <1>6, <2>1, Moves
<1>7. QED
  BY <1>3, <1>4, <1>5, <1>6 DEF CheckOwner

LEMMA CacheDeleteRefines ==
    ASSUME MapInv, TypeOK', NEW p \in Proc, CacheDelete(p)
    PROVE  Refines
<1>1. TypeOK /\ Unseen /\ pc[p] = "cacheDelete" /\ PhaseOf(p) = "asked"
  BY Phases DEF MapInv, IInv, CacheDelete, Unseen, DeleteStep
<1>2. CASE Fail(p, "internal")
  BY <1>1, <1>2, Breaks
<1>3. CASE Resend
  <2>1. Jobs' = Jobs
    BY <1>3 DEF Resend, Jobs, JobOf, PhaseOf
  <2>2. QED
    BY <1>1, <2>1, Hides
<1>4. CASE Goto(p, "repoDelete")
  <2>1. PhaseOf(p)' = "asked"
    BY <1>1, <1>4 DEF Goto, TypeOK, PhaseOf, FillStep
  <2>2. QED
    BY <1>1, <1>4, <2>1, Moves
<1>5. QED
  BY <1>2, <1>3, <1>4 DEF CacheDelete

\* The DELETE is where a delete has its effect, on whatever rows there are.
LEMMA RepoDeleteRefines ==
    ASSUME MapInv, TypeOK', NEW p \in Proc, RepoDelete(p)
    PROVE  Refines
<1>1. /\ TypeOK /\ pc[p] = "repoDelete" /\ PhaseOf(p) = "asked"
      /\ call[p].op = "delete" /\ call[p].url = Null
      /\ now' = now /\ issued' = issued
  BY Phases DEF MapInv, IInv, RepoDelete, DeleteStep, CallInv, OpInv, JobInv
<1>2. /\ Jobs[p].phase = "asked" /\ Jobs[p].op = "delete"
      /\ Jobs[p].token = call[p].token /\ Jobs[p].user = call[p].user
  BY <1>1, JobFields
<1>3. CASE Fail(p, "internal") /\ UNCHANGED <<repo, deletedAt>>
  BY <1>1, <1>3, Breaks DEF Unseen
<1>4. CASE DeleteRows(call[p].token) /\ (Succeed(p) \/ Fail(p, "internal"))
  <2>1. Registry!Succeed(p) \/ Registry!Fail(p, "internal")
    BY <1>1, <1>4, SucceedMaps, FailMaps DEF Result
  <2>2. Registry!HasOwned(call[p].user, call[p].token)
    BY <1>1 DEF MapInv, IInv, CallInv, OwnerInv, Registry!HasOwned
  <2>3. Registry!Delete(p)
    BY <1>1, <1>2, <1>4, <2>1, <2>2
       DEF Jobs, DeleteRows, RowsOf, Registry!Delete, Registry!Asked, Registry!RowsOf
  <2>4. QED
    BY <1>2, <2>3, Serves
<1>5. QED
  BY <1>3, <1>4 DEF RepoDelete

-----------------------------------------------------------------------------
(***************************************************************************)
(* Requests, answers, and the rest.                                        *)
(***************************************************************************)
LEMMA Asks ==
    ASSUME NEW p \in Proc, Jobs[p].phase = "idle",
           \/ \E t \in Token, u \in Url, life \in {EffectiveTTL(ttl) : ttl \in RequestTTL \cup {0}},
                 owner \in User \cup {Null} : Registry!AskCreate(p, t, u, life, owner)
           \/ Registry!Refuse(p)
           \/ \E t \in Token : Registry!AskResolve(p, t)
           \/ \E t \in Token, user \in User : Registry!AskDelete(p, t, user)
    PROVE  Refines
BY DEF Refines, Jobs, Registry!CallStep, Registry!Request

LEMMA CreateTokenRefines ==
    ASSUME TypeOK, TypeOK', NEW p \in Proc, NEW owner \in Owner,
           NEW ttl \in RequestTTL \cup {0}, CreateToken(p, owner, ttl)
    PROVE  Refines
<1>1. Jobs[p].phase = "idle" /\ now \in Nat /\ EffectiveTTL(ttl) \in Nat
  <2>1. pc[p] = "idle"
    BY DEF CreateToken, Begin
  <2>2. QED
    BY <2>1, JobFields, Phases, TTLAssumption DEF TypeOK, EffectiveTTL
<1>2. ASSUME NEW t \in Token, NEW u \in Url,
             Begin(p, "repoSave", [Blank EXCEPT !.op = "create", !.token = t, !.url = u,
                                      !.expiresAt = now + EffectiveTTL(ttl),
                                      !.user = owner, !.start = now])
      PROVE  Refines
  <2> DEFINE life == EffectiveTTL(ttl)
             new == [Blank EXCEPT !.op = "create", !.token = t, !.url = u,
                                  !.expiresAt = now + life, !.user = owner, !.start = now]
             job == [Registry!NoJob EXCEPT !.phase = "asked", !.op = "create", !.token = t,
                                  !.url = u, !.expiresAt = now + life, !.user = owner]
  <2>1. life \in Nat /\ now + life \in Nat
    BY <1>1
  <2>2. /\ new \in Call /\ new.op = "create" /\ new.token = t /\ new.url = u
        /\ new.expiresAt = now + life /\ new.user = owner /\ new.result = Null
    BY <1>1, <2>1, BlankType DEF Call, Blank
  <2>3. /\ job \in Job /\ job.phase = "asked" /\ job.op = "create" /\ job.token = t
        /\ job.url = u /\ job.expiresAt = now + life /\ job.user = owner
        /\ job.since = 0 /\ job.result = Null
    BY <2>1 DEF Job, Registry!NoJob
  <2> HIDE DEF new, job, life
  <2>4. Registry!Ask(p, job)
    <3>1. Begin(p, "repoSave", new)
      BY <1>2 DEF new, life
    <3>2. QED
      BY <2>2, <2>3, <3>1, BeginMaps DEF Steps, CreateStep, FillStep
  <2>5. Registry!AskCreate(p, t, u, life, owner)
    BY <2>4 DEF job, Registry!AskCreate
  <2>6. QED
    BY <1>1, <2>5, Asks DEF life, Owner
<1>3. ASSUME NEW error \in {"invalid", "internal"},
             Begin(p, "done", [Blank EXCEPT !.op = "create", !.result = error])
      PROVE  Refines
  <2> DEFINE new == [Blank EXCEPT !.op = "create", !.result = error]
             job == [Registry!NoJob EXCEPT !.phase = "done", !.op = "create",
                                           !.result = error]
  <2>1. /\ new \in Call /\ new.op = "create" /\ new.token = Null /\ new.url = Null
        /\ new.expiresAt = 0 /\ new.user = Null /\ new.result = error
    BY BlankType DEF Call, Blank, Result
  <2>2. /\ job \in Job /\ job.phase = "done" /\ job.op = "create" /\ job.token = Null
        /\ job.url = Null /\ job.expiresAt = 0 /\ job.user = Null
        /\ job.since = 0 /\ job.result = error
    BY DEF Job, Registry!NoJob, Owner, Result
  <2> HIDE DEF new, job
  <2>3. Registry!Ask(p, job)
    <3>1. Begin(p, "done", new)
      BY <1>3 DEF new
    <3>2. QED
      BY <2>1, <2>2, <3>1, BeginMaps DEF FillStep
  <2>4. Registry!Refuse(p)
    BY <2>3 DEF job, Registry!Refuse
  <2>5. QED
    BY <1>1, <2>4, Asks
<1>4. QED
  BY <1>2, <1>3 DEF CreateToken

LEMMA ResolveTokenRefines ==
    ASSUME TypeOK, TypeOK', NEW p \in Proc, ResolveToken(p)
    PROVE  Refines
<1> DEFINE new(t) == [Blank EXCEPT !.op = "resolve", !.token = t, !.start = now]
           job(t) == [Registry!NoJob EXCEPT !.phase = "asked", !.op = "resolve", !.token = t,
                                            !.since = now]
<1>1. PICK t \in Token : Begin(p, "cacheGet", new(t))
  BY DEF ResolveToken
<1>2. /\ new(t) \in Call /\ new(t).op = "resolve" /\ new(t).token = t
      /\ new(t).url = Null /\ new(t).expiresAt = 0 /\ new(t).user = Null
      /\ new(t).start = now /\ new(t).result = Null
  BY BlankType DEF TypeOK, Call, Blank
<1>3. /\ job(t) \in Job /\ job(t).phase = "asked" /\ job(t).op = "resolve"
      /\ job(t).token = t /\ job(t).url = Null /\ job(t).expiresAt = 0
      /\ job(t).user = Null /\ job(t).since = now /\ job(t).result = Null
  BY DEF TypeOK, Job, Registry!NoJob, Owner
<1> HIDE DEF new, job
<1>4. Registry!Ask(p, job(t))
  BY <1>1, <1>2, <1>3, BeginMaps DEF Steps, ResolveStep, FillStep
<1>5. Jobs[p].phase = "idle"
  BY <1>1, JobFields, Phases DEF Begin
<1>6. QED
  BY <1>4, <1>5, Asks DEF job, Registry!AskResolve

LEMMA DeleteTokenRefines ==
    ASSUME TypeOK, TypeOK', NEW p \in Proc, DeleteToken(p)
    PROVE  Refines
<1> DEFINE new(t, u) == [Blank EXCEPT !.op = "delete", !.token = t, !.user = u,
                                      !.start = now]
           job(t, u) == [Registry!NoJob EXCEPT !.phase = "asked", !.op = "delete",
                                               !.token = t, !.user = u]
<1>1. PICK t \in Token, u \in User : Begin(p, "checkOwner", new(t, u))
  BY DEF DeleteToken
<1>2. /\ new(t, u) \in Call /\ new(t, u).op = "delete" /\ new(t, u).token = t
      /\ new(t, u).url = Null /\ new(t, u).expiresAt = 0 /\ new(t, u).user = u
      /\ new(t, u).result = Null
  BY BlankType DEF TypeOK, Call, Blank, Owner
<1>3. /\ job(t, u) \in Job /\ job(t, u).phase = "asked" /\ job(t, u).op = "delete"
      /\ job(t, u).token = t /\ job(t, u).url = Null /\ job(t, u).expiresAt = 0
      /\ job(t, u).user = u /\ job(t, u).since = 0 /\ job(t, u).result = Null
  BY DEF Job, Registry!NoJob, Owner
<1> HIDE DEF new, job
<1>4. Registry!Ask(p, job(t, u))
  BY <1>1, <1>2, <1>3, BeginMaps DEF Steps, DeleteStep, FillStep
<1>5. Jobs[p].phase = "idle"
  BY <1>1, JobFields, Phases DEF Begin
<1>6. QED
  BY <1>4, <1>5, Asks DEF job, Registry!AskDelete

LEMMA BlankJob ==
    ASSUME NEW p, pc'[p] = "idle", call'[p] = Blank
    PROVE  JobOf(p)' = Registry!NoJob
<1>1. PhaseOf(p)' = "idle"
  BY DEF PhaseOf, FillStep
<1>2. /\ Blank.op = Null /\ Blank.token = Null /\ Blank.url = Null
      /\ Blank.expiresAt = 0 /\ Blank.user = Null /\ Blank.start = 0
      /\ Blank.result = Null
  BY DEF Blank
<1>3. QED
  BY <1>1, <1>2 DEF JobOf, Registry!NoJob

LEMMA RespondRefines ==
    ASSUME TypeOK, NEW p \in Proc, Respond(p)
    PROVE  Refines
<1>1. /\ pc[p] = "done" /\ pc'[p] = "idle" /\ call'[p] = Blank /\ Others(p)
      /\ Unseen
  BY DEF Respond, TypeOK, Others, Unseen
<1>2. Jobs' = [Jobs EXCEPT ![p] = Registry!NoJob] /\ Jobs[p].phase = "done"
  BY <1>1, BlankJob, OneJob, JobFields, Phases
<1>3. Registry!Answer(p)
  BY <1>1, <1>2 DEF Jobs, Unseen, Registry!Answer
<1>4. QED
  BY <1>3 DEF Refines, Registry!CallStep

LEMMA CrashRefines ==
    ASSUME Crash
    PROVE  Refines
<1>1. PICK p \in Proc : pc[p] # "idle"
  BY DEF Crash
<1>2. Jobs[p].phase # "idle"
  BY <1>1, JobFields DEF PhaseOf, FillStep
<1>3. Jobs' = [q \in Proc |-> Registry!NoJob]
  BY BlankJob DEF Crash, Jobs
<1>4. Registry!Crash
  BY <1>2, <1>3 DEF Crash, Jobs, Registry!Crash
<1>5. QED
  BY <1>4 DEF Refines, Registry!CallStep

LEMMA TickRefines ==
    ASSUME Tick
    PROVE  Refines
<1>1. Registry!Tick
  BY DEF Tick, Registry!Tick, JobOf, PhaseOf
<1>2. QED
  BY <1>1 DEF Refines, Registry!CallStep

\* What happens to the cache alone, and what happens to nothing.
LEMMA CacheEvictRefines ==
    ASSUME CacheEvict \/ UNCHANGED vars
    PROVE  Refines
<1>1. Unseen /\ UNCHANGED <<pc, call>>
  BY DEF CacheEvict, Unseen, vars
<1>2. Jobs' = Jobs
  BY <1>1 DEF Jobs, JobOf, PhaseOf
<1>3. QED
  BY <1>1, <1>2, Hides

-----------------------------------------------------------------------------
(***************************************************************************)
(* The invariant of the mapping.                                           *)
(***************************************************************************)
LEMMA JobInvInit == Init => \A p \in Proc : JobInv(p)
BY DEF Init, JobInv, CreateStep, FillStep, DeleteStep

\* A step of a call leaves its operation alone, and the URL of a delete.
LEMMA JobInvKept ==
    ASSUME TypeOK, IInv, NEW p \in Proc, JobInv(p), Step(p)
    PROVE  /\ Others(p)
           /\ JobInv(p)'
<1> USE DEF JobInv, CreateStep, FillStep, DeleteStep, ResolveStep
<1>1. call[p].op \in {"create", "resolve", "delete", Null} /\ call[p] \in Call
  BY DEF TypeOK, Call
<1>2. pc[p] \in ResolveStep => call[p].op = "resolve"
  BY DEF IInv, CallInv, OpInv
<1>3. ASSUME pc'[p] = "done", Others(p) PROVE JobInv(p)' /\ Others(p)
  BY <1>3
<1>4. ASSUME NEW error, Fail(p, error) PROVE pc'[p] = "done" /\ Others(p)
  BY <1>4 DEF Fail, TypeOK, Others
<1>5. ASSUME Succeed(p) PROVE pc'[p] = "done" /\ Others(p)
  BY <1>5, SucceedFrame
<1>6. ASSUME NEW step, Goto(p, step)
      PROVE  pc'[p] = step /\ call'[p] = call[p] /\ Others(p)
  BY <1>6 DEF Goto, TypeOK, Others
<1>7. CASE CacheGet(p)
  <2>1. CASE Goto(p, "repoGet")
    BY <1>6, <2>1
  <2>2. CASE ~ Goto(p, "repoGet")
    <3>1. pc' = [pc EXCEPT ![p] = "done"] /\ Others(p)
      BY <1>7, <2>2 DEF CacheGet, Others, TypeOK
    <3>2. QED
      BY <1>3, <3>1 DEF TypeOK
  <2>3. QED
    BY <2>1, <2>2
<1>8. CASE RepoGet(p)
  <2>1. CASE \E error \in Result : Fail(p, error)
    BY <1>3, <1>4, <2>1
  <2>2. CASE ~ \E error \in Result : Fail(p, error)
    <3>1. pc' = [pc EXCEPT ![p] = "checkExpiry"] /\ Others(p)
      BY <1>8, <2>2 DEF RepoGet, Others, TypeOK, Result
    <3>2. QED
      BY <3>1 DEF TypeOK
  <2>3. QED
    BY <2>1, <2>2
<1>9. CASE CheckExpiry(p)
  BY <1>2, <1>3, <1>4, <1>6, <1>9 DEF CheckExpiry
<1>10. CASE ComputeTTL(p)
  <2>1. pc' = [pc EXCEPT ![p] = "cacheSave"] /\ Others(p) /\ call'[p].op = call[p].op
    BY <1>1, <1>10 DEF ComputeTTL, Others, TypeOK, Call
  <2>2. QED
    BY <1>10, <2>1 DEF ComputeTTL, TypeOK
<1>11. CASE CacheSave(p)
  <2>1. CASE Resend
    BY <2>1 DEF Resend, Others
  <2>2. CASE Succeed(p)
    BY <1>3, <1>5, <2>2
  <2>3. QED
    BY <1>11, <2>1, <2>2 DEF CacheSave
<1>12. CASE RepoSave(p)
  BY <1>3, <1>4, <1>6, <1>12 DEF RepoSave, RowSaved, RowRefused, RowNotSaved
<1>13. CASE CheckOwner(p)
  BY <1>3, <1>4, <1>5, <1>6, <1>13 DEF CheckOwner
<1>14. CASE CacheDelete(p)
  <2>1. CASE Resend
    BY <2>1 DEF Resend, Others
  <2>2. CASE ~ Resend
    BY <1>3, <1>4, <1>6, <1>14, <2>2 DEF CacheDelete
  <2>3. QED
    BY <2>1, <2>2
<1>15. CASE RepoDelete(p)
  BY <1>3, <1>4, <1>5, <1>15 DEF RepoDelete
<1>16. QED
  BY <1>7, <1>8, <1>9, <1>10, <1>11, <1>12, <1>13, <1>14, <1>15 DEF Step

LEMMA JobInvBegun ==
    ASSUME TypeOK, NEW p \in Proc, Request(p)
    PROVE  Others(p) /\ JobInv(p)'
<1> USE DEF JobInv, CreateStep, FillStep, DeleteStep
<1>1. ASSUME NEW step, NEW newCall, Begin(p, step, newCall),
             \/ step \in {"cacheGet", "done"}
             \/ step = "repoSave" /\ newCall.op = "create"
             \/ step = "checkOwner" /\ newCall.url = Null
      PROVE  Others(p) /\ JobInv(p)'
  <2>1. pc'[p] = step /\ call'[p] = newCall /\ Others(p)
    BY <1>1 DEF TypeOK, Begin, Others
  <2>2. QED
    BY <1>1, <2>1
<1>2. ASSUME NEW owner, NEW ttl, CreateToken(p, owner, ttl)
      PROVE  Others(p) /\ JobInv(p)'
  <2> DEFINE new(t, u) == [Blank EXCEPT !.op = "create", !.token = t, !.url = u,
                              !.expiresAt = now + EffectiveTTL(ttl),
                              !.user = owner, !.start = now]
  <2>1. \A t, u : new(t, u).op = "create"
    BY BlankType DEF Call
  <2>2. \/ \E t \in Token, u \in Url : Begin(p, "repoSave", new(t, u))
        \/ \E error \in {"invalid", "internal"} :
              Begin(p, "done", [Blank EXCEPT !.op = "create", !.result = error])
    BY <1>2 DEF CreateToken
  <2> HIDE DEF new
  <2>3. QED
    BY <1>1, <2>1, <2>2
<1>3. CASE DeleteToken(p)
  <2> DEFINE new(t, u) == [Blank EXCEPT !.op = "delete", !.token = t, !.user = u,
                                        !.start = now]
  <2>1. \A t, u : new(t, u).url = Null
    BY DEF Blank
  <2>2. PICK t \in Token, u \in User : Begin(p, "checkOwner", new(t, u))
    BY <1>3 DEF DeleteToken
  <2> HIDE DEF new
  <2>3. QED
    BY <1>1, <2>1, <2>2
<1>4. CASE ResolveToken(p)
  BY <1>1, <1>4 DEF ResolveToken
<1>5. QED
  BY <1>2, <1>3, <1>4 DEF Request, GenerateToken, CreateTokenWithOwner

LEMMA JobInvStep ==
    ASSUME MapInv, [Next]_vars
    PROVE  \A p \in Proc : JobInv(p)'
<1>1. ASSUME NEW p \in Proc, Others(p), JobInv(p)' PROVE \A q \in Proc : JobInv(q)'
  BY <1>1 DEF Others, JobInv, MapInv
<1>2. ASSUME NEW p \in Proc, Request(p) \/ Step(p) PROVE \A q \in Proc : JobInv(q)'
  BY <1>1, <1>2, JobInvKept, JobInvBegun DEF MapInv, IInv
<1>3. ASSUME NEW p \in Proc, Respond(p) PROVE \A q \in Proc : JobInv(q)'
  <2>1. pc'[p] = "idle" /\ Others(p)
    BY <1>3 DEF Respond, Others, MapInv, IInv, TypeOK
  <2>2. QED
    BY <1>1, <2>1 DEF JobInv, CreateStep, FillStep, DeleteStep
<1>4. CASE Crash
  BY <1>4 DEF Crash, JobInv, CreateStep, FillStep, DeleteStep
<1>5. CASE Tick \/ CacheEvict \/ UNCHANGED vars
  BY <1>5 DEF Tick, CacheEvict, vars, JobInv, MapInv
<1>6. QED
  BY <1>2, <1>3, <1>4, <1>5 DEF Next

-----------------------------------------------------------------------------
LEMMA InitRefines == Init => Registry!RegistryInit
<1> SUFFICES ASSUME Init PROVE Registry!RegistryInit
  OBVIOUS
<1>1. ASSUME NEW p \in Proc PROVE JobOf(p) = Registry!NoJob
  <2>1. call[p] = Blank /\ PhaseOf(p) = "idle"
    BY DEF Init, PhaseOf, FillStep
  <2>2. /\ Blank.op = Null /\ Blank.token = Null /\ Blank.url = Null
        /\ Blank.expiresAt = 0 /\ Blank.user = Null /\ Blank.start = 0
        /\ Blank.result = Null
    BY DEF Blank
  <2>3. QED
    BY <2>1, <2>2 DEF JobOf, Registry!NoJob
<1>2. QED
  BY <1>1 DEF Init, Never, Registry!RegistryInit, Registry!Never

\* A key that comes into the cache without an expiry is that of a token whose
\* time ends now or has ended during the request: the filling call began before
\* the end and its context has not ended.
LEMMA KeptEnds ==
    ASSUME MapInv, [Next]_vars
    PROVE  Registry!Keep
<1>1. IInv /\ now \in Nat
  BY DEF MapInv, IInv, TypeOK
<1>2. ASSUME cache' \subseteq cache PROVE Registry!Keep
  BY <1>2 DEF Registry!Keep, Kept
<1>3. ASSUME NEW p \in Proc, CacheSave(p) PROVE Registry!Keep
  <2> DEFINE entry == [token |-> call[p].token, url |-> call[p].url,
                       dies |-> Dies(call[p].ttl)]
  <2>1. CASE UNCHANGED cache
    BY <1>2, <2>1
  <2>2. CASE InTime(p) /\ cache' \subseteq cache \cup {entry}
    <3>1. /\ call[p].start \in Nat /\ call[p].expiresAt \in Nat /\ call[p].ttl \in Int
          /\ RequestLife \in Nat
      BY <1>1, TTLAssumption DEF IInv, TypeOK, Call
    <3>2. PICK r \in issued : /\ r.token = call[p].token /\ r.url = call[p].url
                              /\ r.expiresAt = call[p].expiresAt
      BY <1>1, <1>3 DEF CacheSave, IInv, CallInv, FillInv, FillStep
    <3>3. /\ call[p].start <= call[p].expiresAt
          /\ call[p].ttl <= 0 => call[p].expiresAt <= now
      BY <1>1, <1>3 DEF CacheSave, IInv, CallInv, SaveInv, FillStep
    <3>4. ASSUME entry.dies = NoExpiry
          PROVE  <<call[p].token, call[p].url>> \in Registry!Ending
      <4>1. call[p].ttl <= 0
        BY <1>1, <3>1, <3>4 DEF Dies, NoExpiry
      <4>2. r.expiresAt <= now /\ now <= r.expiresAt + RequestLife
        BY <1>1, <2>2, <3>1, <3>2, <3>3, <4>1 DEF InTime
      <4>3. QED
        BY <3>2, <4>2 DEF Registry!Ending
    <3>5. entry.token = call[p].token /\ entry.url = call[p].url
      OBVIOUS
    <3> HIDE DEF entry
    <3>6. QED
      BY <2>2, <3>4, <3>5 DEF Registry!Keep, Kept
  <2>3. QED
    BY <1>3, <2>1, <2>2 DEF CacheSave, SetEntry
<1>4. CASE ~ \E p \in Proc : CacheSave(p)
  <2>1. cache' \subseteq cache
    BY <1>4 DEF Next, vars, Request, Step, ResolveToken, GenerateToken,
       CreateTokenWithOwner, CreateToken, DeleteToken, Begin, CacheGet, RepoGet,
       CheckExpiry, ComputeTTL, RepoSave, CheckOwner, CacheDelete, DeleteEntry,
       RepoDelete, Respond, Tick, CacheEvict, Crash
  <2>2. QED
    BY <1>2, <2>1
<1>5. QED
  BY <1>3, <1>4

LEMMA StepRefines == MapInv /\ [Next]_vars => Refines
<1> SUFFICES ASSUME MapInv, [Next]_vars PROVE Refines
  OBVIOUS
<1>1. TypeOK /\ TypeOK'
  BY TypeStep DEF MapInv, IInv
<1>2. ASSUME NEW p \in Proc, Step(p) PROVE Refines
  BY <1>1, <1>2, CacheGetRefines, RepoGetRefines, CheckExpiryRefines, ComputeTTLRefines,
     CacheSaveRefines, RepoSaveRefines, CheckOwnerRefines, CacheDeleteRefines,
     RepoDeleteRefines DEF Step
<1>3. ASSUME NEW p \in Proc, Request(p) PROVE Refines
  <2>1. CASE GenerateToken(p) \/ CreateTokenWithOwner(p)
    BY <1>1, <2>1, CreateTokenRefines DEF GenerateToken, CreateTokenWithOwner, Owner
  <2>2. QED
    BY <1>1, <1>3, <2>1, ResolveTokenRefines, DeleteTokenRefines DEF Request
<1>4. QED
  BY <1>1, <1>2, <1>3, RespondRefines, TickRefines, CacheEvictRefines, CrashRefines
     DEF Next

\* Whatever the cache, the round trips, the clock and crashes do between the
\* steps of a call, its caller sees the register of tokens: one effect, between
\* request and answer, an answer that is true of one moment in between, and no
\* token resolved more than RequestLife past its time but those kept for good.
THEOREM ServiceImplementsRegistry == Spec => ImplementsRegistry
<1>1. Spec => []MapInv
  <2>1. Init => MapInv
    BY InvInit, JobInvInit DEF MapInv
  <2>2. MapInv /\ [Next]_vars => MapInv'
    BY InvStep, JobInvStep DEF MapInv
  <2>3. QED
    BY <2>1, <2>2, PTL DEF Spec
<1>2. MapInv /\ [Next]_vars => [Registry!RegistryNext]_<<Registry!registryVars, Kept>>
  BY StepRefines, KeptEnds DEF Refines, Registry!RegistryNext
<1>3. Init => Kept = {}
  BY DEF Init, Kept
<1>4. QED
  BY <1>1, <1>2, <1>3, InitRefines, PTL DEF Spec, ImplementsRegistry, Registry!RegistrySpec

=============================================================================
