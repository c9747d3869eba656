----------------------------- MODULE WithRetry -----------------------------
(***************************************************************************)
(* withRetry of the Postgres client (internal/db/postgres/postgres.go),    *)
(* around the INSERT of a row with a unique key.  Postgres may abort the   *)
(* statement for a serialization failure or a deadlock; these errors, and  *)
(* no others, are retried after a pause.                                   *)
(*                                                                         *)
(* A definition named D_X is D with one plausible slip in it.              *)
(***************************************************************************)
EXTENDS Integers

CONSTANTS
    Proc,         \* goroutines that call the repository
    MaxAttempts,  \* maxAttempts
    Nobody        \* the key is free

ASSUME AttemptsAssumption == MaxAttempts \in Nat \ {0}

ASSUME NobodyAssumption == Nobody \notin Proc

VARIABLES
    taken,    \* whose row has the key
    outcome,  \* outcome[p]: what p's call returned, "open" before it has
    pc,       \* pc[p]: where p is in withRetry
    attempt,  \* attempt[p]: the loop's counter
    ctxDone   \* ctxDone[p]: the context of p's request has ended

vars == <<taken, outcome, pc, attempt, ctxDone>>

Init ==
    /\ taken = Nobody
    /\ outcome = [p \in Proc |-> "open"]
    /\ pc = [p \in Proc |-> "check"]
    /\ attempt = [p \in Proc |-> 1]
    /\ ctxDone = [p \in Proc |-> FALSE]

Goto(p, step) ==
    /\ pc' = [pc EXCEPT ![p] = step]
    /\ UNCHANGED outcome

Return(p, result) ==
    /\ pc' = [pc EXCEPT ![p] = "returned"]
    /\ outcome' = [outcome EXCEPT ![p] = result]

-----------------------------------------------------------------------------
\* The top of the loop.
CheckContext(p) ==
    /\ pc[p] = "check"
    /\ IF ctxDone[p] THEN Return(p, "error") ELSE Goto(p, "call")
    /\ UNCHANGED <<taken, attempt, ctxDone>>

Retryable_LostToo == {"aborted", "lost"}

\* isRetryableError: serialization failures and detected deadlocks.  Postgres
\* has rolled the statement back by then.
Retryable == {"aborted"}

\* fn has returned an error.
Failed(p, error) ==
    IF error \in Retryable THEN Goto(p, "pause")
    ELSE Return(p, IF error = "notUnique" THEN "notUnique" ELSE "error")

Refused(p) ==
    /\ taken # Nobody
    /\ Failed(p, "notUnique")
    /\ UNCHANGED taken

\* fn sends the statement.  The connection may break before Postgres has it,
\* or after it was committed; the statement may also be aborted.
Call(p) ==
    /\ pc[p] = "call"
    /\ \/ /\ taken = Nobody
          /\ taken' = p
          /\ Return(p, "ok") \/ Failed(p, "lost")
       \/ Refused(p)
       \/ /\ Failed(p, "broken") \/ Failed(p, "aborted")
          /\ UNCHANGED taken
    /\ UNCHANGED <<attempt, ctxDone>>

AfterPause_Endless(p) ==
    /\ attempt' = [attempt EXCEPT ![p] = @ + 1]
    /\ Goto(p, "check")

AfterPause_Uncounted(p) ==
    /\ Goto(p, "check")
    /\ UNCHANGED attempt

\* The pause is over; after the last attempt there was one as well.
AfterPause(p) ==
    IF attempt[p] < MaxAttempts
    THEN /\ attempt' = [attempt EXCEPT ![p] = @ + 1]
         /\ Goto(p, "check")
    ELSE /\ Return(p, "error")
         /\ UNCHANGED attempt

\* The select on the timer and the context; if both are ready, either wins.
Pause(p) ==
    /\ pc[p] = "pause"
    /\ \/ AfterPause(p)
       \/ /\ ctxDone[p]
          /\ Return(p, "error")
          /\ UNCHANGED attempt
    /\ UNCHANGED <<taken, ctxDone>>

Expire(p) ==
    /\ ~ctxDone[p]
    /\ ctxDone' = [ctxDone EXCEPT ![p] = TRUE]
    /\ UNCHANGED <<taken, outcome, pc, attempt>>

\* A DeleteToken of somebody else frees the key.
Release ==
    /\ taken' = Nobody
    /\ UNCHANGED <<outcome, pc, attempt, ctxDone>>

Next ==
    \/ \E p \in Proc : CheckContext(p) \/ Call(p) \/ Pause(p) \/ Expire(p)
    \/ Release

Spec == Init /\ [][Next]_vars

\* The goroutine runs on, Postgres and the timer answer.  Contexts need not
\* end.
Fairness == \A p \in Proc : WF_vars(CheckContext(p) \/ Call(p) \/ Pause(p))

FairSpec == Spec /\ Fairness

-----------------------------------------------------------------------------
\* Every variable has its type; no call makes more than maxAttempts attempts,
\* and a call has a result exactly when it has returned.
TypeOK ==
    /\ taken \in Proc \cup {Nobody}
    /\ outcome \in [Proc -> {"open", "ok", "notUnique", "error"}]
    /\ pc \in [Proc -> {"check", "call", "pause", "returned"}]
    /\ attempt \in [Proc -> 1..MaxAttempts]
    /\ ctxDone \in [Proc -> BOOLEAN]
    /\ \A p \in Proc : outcome[p] = "open" <=> pc[p] # "returned"

\* "Not unique" is always about somebody else's row: a retry never runs into
\* the row of an earlier attempt of the same call.
OwnRowNeverRefuses ==
    \A p \in Proc : taken = p => outcome[p] # "notUnique"

\* Every call returns, even if Postgres aborts each of its attempts and no
\* context ever ends.
EveryCallReturns == \A p \in Proc : outcome[p] = "open" ~> outcome[p] # "open"

Abstract == INSTANCE RoundTrip

\* However many attempts there are, the caller sees one round trip with the
\* three outcomes that the models of the services give it.
ImplementsRoundTrip == Abstract!RoundTripSpec

=============================================================================
