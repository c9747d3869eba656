-------------------------- MODULE WithRetryProofs --------------------------
(***************************************************************************)
(* Proofs about withRetry, for every set of callers and every number of    *)
(* attempts: the types, what a refusal means, that the loop implements the *)
(* one-step round trip the models of the services use, and that it ends.   *)
(***************************************************************************)
EXTENDS WithRetry, TLAPS

\* Whoever has the key has had an answer: no attempt leaves a row behind and
\* goes on.
RowIsFinal == \A p \in Proc : taken = p => outcome[p] \in {"ok", "error"}

IInv == TypeOK /\ RowIsFinal

\* An abort is tried again; every other error ends the call.
LEMMA FailedIs ==
    ASSUME NEW p, NEW error \in {"lost", "notUnique", "broken", "aborted"},
           Failed(p, error)
    PROVE  \/ error = "aborted" /\ Goto(p, "pause")
           \/ error = "notUnique" /\ Return(p, "notUnique")
           \/ error \in {"lost", "broken"} /\ Return(p, "error")
    BY DEF Failed, Retryable

\* An attempt sets the key and the result together, or leaves both alone.
LEMMA CallIs ==
    ASSUME NEW p, Call(p)
    PROVE  \/ taken = Nobody /\ taken' = p /\ (Return(p, "ok") \/ Return(p, "error"))
           \/ taken # Nobody /\ UNCHANGED taken /\ Return(p, "notUnique")
           \/ UNCHANGED taken /\ (Return(p, "error") \/ Goto(p, "pause"))
    BY FailedIs DEF Call, Refused

\* What the pause does.
LEMMA PauseIs ==
    ASSUME NEW p, Pause(p)
    PROVE  /\ UNCHANGED taken
           /\ Return(p, "error") \/ Goto(p, "check")
    BY DEF Pause, AfterPause

\* The loop's counter stays within the attempts.
LEMMA PauseCounts ==
    ASSUME TypeOK, NEW p \in Proc, Pause(p)
    PROVE  attempt' \in [Proc -> 1..MaxAttempts]
    <1>1. attempt[p] \in 1..MaxAttempts
        BY DEF TypeOK
    <1>2. CASE AfterPause(p)
        <2>1. CASE attempt[p] < MaxAttempts
            <3>1. attempt[p] + 1 \in 1..MaxAttempts
                BY <1>1, <2>1, AttemptsAssumption
            <3> QED BY <1>2, <2>1, <3>1 DEF AfterPause, TypeOK
        <2>2. CASE ~(attempt[p] < MaxAttempts)
            BY <1>2, <2>2 DEF AfterPause, TypeOK
        <2> QED BY <2>1, <2>2
    <1>3. CASE UNCHANGED attempt
        BY <1>3 DEF TypeOK
    <1> QED BY <1>2, <1>3 DEF Pause

LEMMA InitIInv == Init => IInv
    <1> SUFFICES ASSUME Init PROVE IInv
        OBVIOUS
    <1>1. 1 \in 1..MaxAttempts
        BY AttemptsAssumption
    <1>2. TypeOK
        BY <1>1 DEF Init, TypeOK
    <1>3. RowIsFinal
        BY NobodyAssumption DEF Init, RowIsFinal
    <1> QED BY <1>2, <1>3 DEF IInv

\* A call that has not returned goes on, or returns.
LEMMA StepOfOne ==
    ASSUME IInv, NEW p \in Proc, outcome[p] = "open", UNCHANGED ctxDone,
           attempt' \in [Proc -> 1..MaxAttempts],
           \/ /\ UNCHANGED taken
              /\ Goto(p, "check") \/ Goto(p, "call") \/ Goto(p, "pause")
           \/ UNCHANGED taken /\ (Return(p, "error") \/ Return(p, "notUnique"))
           \/ taken' = p /\ (Return(p, "ok") \/ Return(p, "error"))
    PROVE  IInv'
    <1> USE DEF IInv, TypeOK, RowIsFinal
    <1>1. CASE UNCHANGED taken /\ (Goto(p, "check") \/ Goto(p, "call") \/ Goto(p, "pause"))
        BY <1>1 DEF Goto
    <1>2. CASE UNCHANGED taken /\ (Return(p, "error") \/ Return(p, "notUnique"))
        BY <1>2 DEF Return
    <1>3. CASE taken' = p /\ (Return(p, "ok") \/ Return(p, "error"))
        BY <1>3 DEF Return
    <1> QED BY <1>1, <1>2, <1>3

LEMMA NextIInv == IInv /\ [Next]_vars => IInv'
    <1> SUFFICES ASSUME IInv, [Next]_vars PROVE IInv'
        OBVIOUS
    <1>1. ASSUME NEW p \in Proc, CheckContext(p) PROVE IInv'
        <2>1. outcome[p] = "open"
            BY <1>1 DEF CheckContext, IInv, TypeOK
        <2>2. attempt' \in [Proc -> 1..MaxAttempts]
            BY <1>1 DEF CheckContext, IInv, TypeOK
        <2> QED BY <1>1, <2>1, <2>2, StepOfOne DEF CheckContext
    <1>2. ASSUME NEW p \in Proc, Call(p) PROVE IInv'
        <2>1. outcome[p] = "open"
            BY <1>2 DEF Call, IInv, TypeOK
        <2>2. attempt' \in [Proc -> 1..MaxAttempts] /\ UNCHANGED ctxDone
            BY <1>2 DEF Call, IInv, TypeOK
        <2> QED BY <1>2, <2>1, <2>2, CallIs, StepOfOne
    <1>3. ASSUME NEW p \in Proc, Pause(p) PROVE IInv'
        <2>1. outcome[p] = "open" /\ UNCHANGED ctxDone
            BY <1>3 DEF Pause, IInv, TypeOK
        <2>2. attempt' \in [Proc -> 1..MaxAttempts]
            BY <1>3, PauseCounts DEF IInv
        <2> QED BY <1>3, <2>1, <2>2, PauseIs, StepOfOne
    <1>4. ASSUME NEW p \in Proc, Expire(p) PROVE IInv'
        BY <1>4 DEF Expire, IInv, TypeOK, RowIsFinal
    <1>5. CASE Release
        BY <1>5, NobodyAssumption DEF Release, IInv, TypeOK, RowIsFinal
    <1>6. CASE UNCHANGED vars
        BY <1>6 DEF vars, IInv, TypeOK, RowIsFinal
    <1> QED BY <1>1, <1>2, <1>3, <1>4, <1>5, <1>6 DEF Next

LEMMA IInvHolds == Spec => []IInv
    BY InitIInv, NextIInv, PTL DEF Spec

-----------------------------------------------------------------------------
\* Every variable keeps its type, and no call of withRetry makes more than
\* maxAttempts attempts.
THEOREM TypeCorrect == Spec => []TypeOK
    <1>1. IInv => TypeOK
        BY DEF IInv
    <1> QED BY <1>1, IInvHolds, PTL

\* withRetry never answers "not unique" to the caller whose own row it is,
\* however many attempts were aborted: only failures that Postgres has rolled
\* back are retried.
THEOREM OwnRowSafe == Spec => []OwnRowNeverRefuses
    <1>1. IInv => OwnRowNeverRefuses
        BY DEF IInv, RowIsFinal, OwnRowNeverRefuses
    <1> QED BY <1>1, IInvHolds, PTL

-----------------------------------------------------------------------------
(***************************************************************************)
(* The refinement.  Most steps of the loop are invisible to the caller.    *)
(***************************************************************************)
LEMMA StepRefines ==
    ASSUME IInv, [Next]_vars
    PROVE  [Abstract!RoundTripNext]_(Abstract!roundTripVars)
    <1> USE DEF Abstract!roundTripVars
    <1>1. ASSUME NEW p \in Proc, outcome[p] = "open", UNCHANGED taken, Return(p, "error")
          PROVE  Abstract!RoundTripNext
        BY <1>1 DEF Return, Abstract!RoundTripNext, Abstract!NotSaved, Abstract!Answered
    <1>2. ASSUME NEW p, NEW step, UNCHANGED taken, Goto(p, step)
          PROVE  UNCHANGED Abstract!roundTripVars
        BY <1>2 DEF Goto
    <1>3. ASSUME NEW p \in Proc, CheckContext(p)
          PROVE  [Abstract!RoundTripNext]_(Abstract!roundTripVars)
        <2>1. outcome[p] = "open" /\ UNCHANGED taken
            BY <1>3 DEF CheckContext, IInv, TypeOK
        <2> QED BY <1>1, <1>2, <1>3, <2>1 DEF CheckContext
    <1>4. ASSUME NEW p \in Proc, Call(p)
          PROVE  [Abstract!RoundTripNext]_(Abstract!roundTripVars)
        <2>1. outcome[p] = "open"
            BY <1>4 DEF Call, IInv, TypeOK
        <2>2. CASE taken = Nobody /\ taken' = p /\ (Return(p, "ok") \/ Return(p, "error"))
            BY <2>1, <2>2
               DEF Return, Abstract!RoundTripNext, Abstract!Saved, Abstract!Answered
        <2>3. CASE taken # Nobody /\ UNCHANGED taken /\ Return(p, "notUnique")
            BY <2>1, <2>3
               DEF Return, Abstract!RoundTripNext, Abstract!Refused, Abstract!Answered
        <2>4. CASE UNCHANGED taken /\ (Return(p, "error") \/ Goto(p, "pause"))
            BY <1>1, <1>2, <2>1, <2>4
        <2> QED BY <1>4, <2>2, <2>3, <2>4, CallIs
    <1>5. ASSUME NEW p \in Proc, Pause(p)
          PROVE  [Abstract!RoundTripNext]_(Abstract!roundTripVars)
        <2>1. outcome[p] = "open"
            BY <1>5 DEF Pause, IInv, TypeOK
        <2> QED BY <1>1, <1>2, <1>5, <2>1, PauseIs
    <1>6. ASSUME NEW p \in Proc, Expire(p)
          PROVE  UNCHANGED Abstract!roundTripVars
        BY <1>6 DEF Expire
    <1>7. CASE Release
        BY <1>7 DEF Release, Abstract!RoundTripNext, Abstract!Release
    <1>8. CASE UNCHANGED vars
        BY <1>8 DEF vars
    <1> QED BY <1>3, <1>4, <1>5, <1>6, <1>7, <1>8 DEF Next

\* However often withRetry repeats the statement, its caller cannot tell the
\* call from one round trip that is answered, fails without effect, or loses
\* its answer: the three outcomes the services' models give to a repository.
THEOREM RetryRefines == Spec => ImplementsRoundTrip
    <1>1. Init => Abstract!RoundTripInit
        BY DEF Init, Abstract!RoundTripInit
    <1>2. IInv /\ [Next]_vars => [Abstract!RoundTripNext]_(Abstract!roundTripVars)
        BY StepRefines
    <1> QED BY <1>1, <1>2, IInvHolds, PTL
        DEF Spec, ImplementsRoundTrip, Abstract!RoundTripSpec

-----------------------------------------------------------------------------
(***************************************************************************)
(* How far a call is from its end.                                         *)
(***************************************************************************)

\* The rest of this round of the loop, and the rounds after it.
StepsLeft(p) ==
    IF pc[p] = "returned" THEN 0
    ELSE 3 * (MaxAttempts - attempt[p])
            + (CASE pc[p] = "check" -> 3 [] pc[p] = "call" -> 2 [] pc[p] = "pause" -> 1)

Loop(p) == CheckContext(p) \/ Call(p) \/ Pause(p)

\* There is a bound on what is left of a call, and nothing is left of it
\* exactly when it has returned.
StepsBounded ==
    \A p \in Proc :
        /\ StepsLeft(p) \in 0..(3 * MaxAttempts)
        /\ StepsLeft(p) = 0 <=> outcome[p] # "open"

\* A step of a call leaves less of it, and no step leaves more of any.
NearsItsEnd ==
    \A p \in Proc :
        /\ StepsLeft(p)' <= StepsLeft(p)
        /\ Loop(p) => StepsLeft(p)' < StepsLeft(p)

\* What is left of a call, by where it is in the loop.
LEMMA LeftOf ==
    ASSUME TypeOK, NEW p \in Proc
    PROVE  /\ attempt[p] \in 1..MaxAttempts
           /\ StepsLeft(p) \in 0..(3 * MaxAttempts)
           /\ pc[p] = "check" => StepsLeft(p) = 3 * (MaxAttempts - attempt[p]) + 3
           /\ pc[p] = "call" => StepsLeft(p) = 3 * (MaxAttempts - attempt[p]) + 2
           /\ pc[p] = "pause" => StepsLeft(p) = 3 * (MaxAttempts - attempt[p]) + 1
           /\ pc[p] = "returned" <=> StepsLeft(p) = 0
    <1>1. attempt[p] \in 1..MaxAttempts
        BY DEF TypeOK
    <1>2. pc[p] \in {"check", "call", "pause", "returned"}
        BY DEF TypeOK
    <1> QED BY <1>1, <1>2, AttemptsAssumption DEF StepsLeft

\* The same after a step.
LEMMA NextLeftOf ==
    ASSUME TypeOK', NEW p \in Proc
    PROVE  /\ attempt'[p] \in 1..MaxAttempts
           /\ StepsLeft(p)' \in 0..(3 * MaxAttempts)
           /\ pc'[p] = "check" => StepsLeft(p)' = 3 * (MaxAttempts - attempt'[p]) + 3
           /\ pc'[p] = "call" => StepsLeft(p)' = 3 * (MaxAttempts - attempt'[p]) + 2
           /\ pc'[p] = "pause" => StepsLeft(p)' = 3 * (MaxAttempts - attempt'[p]) + 1
           /\ pc'[p] = "returned" => StepsLeft(p)' = 0
    <1>1. attempt'[p] \in 1..MaxAttempts
        BY DEF TypeOK
    <1>2. pc'[p] \in {"check", "call", "pause", "returned"}
        BY DEF TypeOK
    <1> QED BY <1>1, <1>2, AttemptsAssumption DEF StepsLeft

\* A call that stays where it is has as much left as before.
LEMMA LeftKept ==
    ASSUME NEW p \in Proc, pc'[p] = pc[p], attempt'[p] = attempt[p]
    PROVE  StepsLeft(p)' = StepsLeft(p)
    BY DEF StepsLeft

LEMMA OthersKept ==
    ASSUME TypeOK, TypeOK', NEW p \in Proc, Loop(p), NEW q \in Proc, q # p
    PROVE  StepsLeft(q)' = StepsLeft(q)
    <1>1. pc'[q] = pc[q]
        <2>1. CASE CheckContext(p)
            BY <2>1 DEF CheckContext, Goto, Return, TypeOK
        <2>2. CASE Call(p)
            BY <2>2, CallIs DEF Goto, Return, TypeOK
        <2>3. CASE Pause(p)
            BY <2>3, PauseIs DEF Goto, Return, TypeOK
        <2> QED BY <2>1, <2>2, <2>3 DEF Loop
    <1>2. attempt'[q] = attempt[q]
        BY DEF Loop, CheckContext, Call, Pause, AfterPause, TypeOK
    <1> QED BY <1>1, <1>2, LeftKept

\* The attempt after a pause costs less than the one before it, however the
\* statement fares: there is none after the last.
LEMMA LoopNears ==
    ASSUME TypeOK, TypeOK', NEW p \in Proc, Loop(p)
    PROVE  StepsLeft(p)' < StepsLeft(p)
    <1> USE LeftOf, NextLeftOf, AttemptsAssumption
    <1>1. CASE CheckContext(p)
        <2>1. pc[p] = "check" /\ pc'[p] \in {"call", "returned"} /\ attempt' = attempt
            BY <1>1 DEF CheckContext, Goto, Return, TypeOK
        <2> QED BY <2>1
    <1>2. CASE Call(p)
        <2>1. pc[p] = "call" /\ attempt' = attempt
            BY <1>2 DEF Call
        <2>2. pc'[p] \in {"pause", "returned"}
            BY <1>2, CallIs DEF Goto, Return, TypeOK
        <2> QED BY <2>1, <2>2
    <1>3. CASE Pause(p)
        <2>1. pc[p] = "pause"
            BY <1>3 DEF Pause
        <2>2. \/ pc'[p] = "check" /\ attempt'[p] = attempt[p] + 1
              \/ pc'[p] = "returned"
            BY <1>3 DEF Pause, AfterPause, Goto, Return, TypeOK
        <2> QED BY <2>1, <2>2
    <1> QED BY <1>1, <1>2, <1>3 DEF Loop

LEMMA StepNears == IInv /\ [Next]_vars => NearsItsEnd
    <1> SUFFICES ASSUME IInv, [Next]_vars, NEW p \in Proc
                 PROVE  /\ StepsLeft(p)' <= StepsLeft(p)
                        /\ Loop(p) => StepsLeft(p)' < StepsLeft(p)
        BY DEF NearsItsEnd
    <1>1. TypeOK /\ TypeOK'
        BY NextIInv DEF IInv
    <1>2. StepsLeft(p) \in Int /\ StepsLeft(p)' \in Int
        <2>1. StepsLeft(p) \in Int
            BY <1>1, LeftOf, AttemptsAssumption
        <2>2. StepsLeft(p)' \in 0..(3 * MaxAttempts)
            BY <1>1, NextLeftOf
        <2> QED BY <2>1, <2>2, AttemptsAssumption
    <1>3. Loop(p) => StepsLeft(p)' < StepsLeft(p)
        BY <1>1, LoopNears
    <1>4. ASSUME NEW q \in Proc, Loop(q) PROVE StepsLeft(p)' <= StepsLeft(p)
        <2>1. CASE q = p
            BY <1>2, <1>3, <1>4, <2>1
        <2>2. CASE q # p
            BY <1>1, <1>2, <1>4, <2>2, OthersKept
        <2> QED BY <2>1, <2>2
    <1>5. CASE UNCHANGED <<pc, attempt>>
        <2>1. StepsLeft(p)' = StepsLeft(p)
            BY <1>5, LeftKept
        <2>2. ~ Loop(p)
            BY <1>2, <1>3, <2>1
        <2> QED BY <1>2, <2>1, <2>2
    <1>6. \/ \E q \in Proc : Loop(q)
          \/ UNCHANGED <<pc, attempt>>
        BY DEF Next, Loop, Expire, Release, vars
    <1> QED BY <1>3, <1>4, <1>5, <1>6

\* A call of withRetry is over after at most 3 * MaxAttempts steps of its own,
\* whatever Postgres answers to each attempt and whatever the other calls and
\* the contexts do.  (That it takes these steps is its fairness.)
THEOREM CallsAreBounded == Spec => []StepsBounded /\ [][NearsItsEnd]_vars
    <1>1. IInv => StepsBounded
        BY LeftOf DEF IInv, TypeOK, StepsBounded
    <1> QED BY <1>1, StepNears, IInvHolds, PTL DEF Spec

=============================================================================
