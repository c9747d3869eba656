--------------------------- MODULE TimeoutProofs ---------------------------
(***************************************************************************)
(* Proofs about the timeout middleware, for every set of requests: the     *)
(* types, that clients get whole answers, that the server does not stop    *)
(* for its header maps before a deadline has passed, and whom the mutex of *)
(* the writerWrapper can stop.                                             *)
(***************************************************************************)
EXTENDS TimeoutMiddleware, SequenceTheorems, TLAPS

Op == {"route", "work", "header", "writeHeader", "write"}

P(r) == Program[kind[r]]

\* How much of its program the handler has done; at rest it has no more to do.
Done(r) == Len(P(r)) - Len(todo[r])

HasDone(r, op) == \E i \in 1..Done(r) : P(r)[i] = op

-----------------------------------------------------------------------------
(***************************************************************************)
(* The inductive invariant, for one request.                               *)
(***************************************************************************)

\* The handler has its program's end before it.
TodoInv(r) ==
    /\ todo[r] \in Seq(Op)
    /\ Done(r) \in 0..Len(P(r))
    /\ todo[r] = SubSeq(P(r), Done(r) + 1, Len(P(r)))
    /\ main[r] = "idle" => todo[r] = <<>>
    /\ inMap[r] => todo[r] # <<>> /\ Head(todo[r]) = "header"

\* Until the timeout takes it, the writer has what the handler has written.
WriterInv(r) ==
    /\ ww[r].aborted => main[r] \notin {"idle", "select", "abort"}
    /\ main[r] = "idle" => ww[r] = FreshWriter
    /\ main[r] # "idle" /\ ~ww[r].aborted =>
          /\ ww[r].wroteHeader <=> HasDone(r, "writeHeader")
          /\ ww[r].status = IF ww[r].wroteHeader THEN "handler" ELSE "none"
          /\ ww[r].buffer = IF HasDone(r, "write") THEN "handler" ELSE "none"

\* The connection's map has the handler's headers, and the timeout's only
\* once they are set.
HeadersInv(r) ==
    /\ main[r] = "idle" => headers[r] = {}
    /\ main[r] # "idle" => ("handler" \in headers[r] <=> HasDone(r, "header"))
    /\ main[r] \in {"abort", "setHeaders", "select"} => "timeout" \notin headers[r]

\* The whole of the handler's answer, but for the headers, is on its way.
Flushing(r) ==
    /\ todo[r] = <<>>
    /\ answer[r].status = Complete(r).status
    /\ answer[r].body = Complete(r).body
    /\ "timeout" \notin headers[r]

\* The timeout's answer, but for the headers, is on its way.
TimingOut(r) ==
    /\ answer[r].status = "503"
    /\ answer[r].body = "timeout"
    /\ "timeout" \in headers[r]
    /\ ctxDone[r]

AnswerInv(r) ==
    /\ main[r] \in {"idle", "select", "abort", "setHeaders"} => answer[r] = NoAnswer
    /\ main[r] \in {"abort", "setHeaders"} => ctxDone[r]
    /\ main[r] = "send" => Flushing(r) \/ TimingOut(r)
    /\ main[r] \in {"observe", "answered"} =>
          \/ answer[r] = Complete(r)
          \/ /\ answer[r].status = "503"
             /\ answer[r].body = "timeout"
             /\ "timeout" \in answer[r].headers
             /\ ctxDone[r]

RequestInv(r) == TodoInv(r) /\ WriterInv(r) /\ HeadersInv(r) /\ AnswerInv(r)

Writer == [status : {"none", "handler"}, wroteHeader : BOOLEAN,
           buffer : {"none", "handler"}, aborted : BOOLEAN]

Patterns == [observed : {"none", "route"}, routed : {"none", "route"}]

Answer == [status : {"none", "handler", "200", "503"},
           body : {"none", "handler", "timeout"},
           headers : SUBSET {"handler", "timeout"}]

\* TypeOK without what TodoInv says of todo.
TypeInv ==
    /\ up \in BOOLEAN
    /\ kind \in [Request -> Kind]
    /\ main \in [Request -> {"idle", "select", "abort", "setHeaders", "send",
                             "observe", "answered"}]
    /\ todo \in [Request -> Seq(Op)]
    /\ inMap \in [Request -> BOOLEAN]
    /\ holder \in [Request -> {"free", "handler"}]
    /\ ww \in [Request -> Writer]
    /\ headers \in [Request -> SUBSET {"handler", "timeout"}]
    /\ ctxDone \in [Request -> BOOLEAN]
    /\ pattern \in [Request -> Patterns]
    /\ answer \in [Request -> Answer]
    /\ counted \in [Request -> BOOLEAN]

IInv ==
    /\ TypeInv
    /\ \A r \in Request : RequestInv(r)
    /\ CrashNeedsTimeout

-----------------------------------------------------------------------------
(***************************************************************************)
(* Programs.                                                               *)
(***************************************************************************)
LEMMA ProgramType == \A k \in Kind : Program[k] \in Seq(Op)
    <1>1. RespondJSON \in Seq(Op)
        BY DEF RespondJSON, Op
    <1>2. HandleToken \in Seq(Op)
        <2>1. <<"route", "work">> \in Seq(Op)
            BY DEF Op
        <2> QED BY <1>1, <2>1, ConcatProperties DEF HandleToken
    <1>3. HandleLogin \in Seq(Op)
        <2>1. <<"route", "work", "header">> \in Seq(Op)
            BY DEF Op
        <2> QED BY <1>1, <2>1, ConcatProperties DEF HandleLogin
    <1>4. /\ HandleRegister \in Seq(Op) /\ HandleLogout \in Seq(Op)
          /\ HandleDelete \in Seq(Op) /\ HandleMetrics \in Seq(Op)
        BY DEF HandleRegister, HandleLogout, HandleDelete, HandleMetrics, Op
    <1> QED BY <1>2, <1>3, <1>4, KindAssumption DEF Program

\* The program of a request, for the steps that need no more than its type.
LEMMA ProgramOf ==
    ASSUME TypeInv, NEW r \in Request
    PROVE  P(r) \in Seq(Op) /\ Len(P(r)) \in Nat
    BY ProgramType, LenProperties DEF TypeInv, P

\* One operation done is one more in the prefix.
LEMMA DidOne ==
    ASSUME TypeInv, NEW r \in Request, TodoInv(r), todo[r] # <<>>, Did(r),
           UNCHANGED kind
    PROVE  /\ todo'[r] \in Seq(Op)
           /\ Done(r)' = Done(r) + 1
           /\ Done(r)' \in 0..Len(P(r)')
           /\ todo'[r] = SubSeq(P(r), Done(r) + 2, Len(P(r)))
           /\ \A op \in Op : HasDone(r, op)' <=> HasDone(r, op) \/ op = Head(todo[r])
    <1>1. P(r) \in Seq(Op) /\ Len(P(r)) \in Nat /\ P(r)' = P(r)
        BY ProgramOf DEF P
    <1>2. todo'[r] = Tail(todo[r])
        BY DEF Did, TypeInv
    <1>3. todo[r] \in Seq(Op) /\ Len(todo[r]) \in Nat
        BY LenProperties DEF TodoInv
    <1>4. todo'[r] \in Seq(Op) /\ Len(todo'[r]) = Len(todo[r]) - 1
        BY <1>2, <1>3, HeadTailProperties
    <1>5. Done(r) \in 0..Len(P(r)) /\ Len(todo[r]) # 0
        BY <1>3, EmptySeq DEF TodoInv
    <1>6. Done(r)' = Done(r) + 1 /\ Done(r) + 1 \in 1..Len(P(r))
        BY <1>1, <1>3, <1>4, <1>5 DEF Done
    <1>7. /\ Head(todo[r]) = P(r)[Done(r) + 1]
          /\ Tail(todo[r]) = SubSeq(P(r), Done(r) + 2, Len(P(r)))
        <2>1. todo[r] = SubSeq(P(r), Done(r) + 1, Len(P(r)))
            BY DEF TodoInv
        <2>2. Len(P(r)) \in Done(r) + 1 .. Len(P(r))
            BY <1>1, <1>6
        <2>3. (Done(r) + 1) + 1 = Done(r) + 2
            BY <1>5, <1>1
        <2> QED BY <1>1, <1>6, <2>1, <2>2, <2>3, HeadTailOfSubSeq
    <1>8. ASSUME NEW op \in Op
          PROVE  HasDone(r, op)' <=> HasDone(r, op) \/ op = Head(todo[r])
        <2>1. 1..(Done(r) + 1) = 1..Done(r) \cup {Done(r) + 1}
            BY <1>1, <1>5
        <2>2. HasDone(r, op)' <=> \E i \in 1..(Done(r) + 1) : P(r)[i] = op
            BY <1>1, <1>6 DEF HasDone
        <2>3. HasDone(r, op)' <=> HasDone(r, op) \/ op = P(r)[Done(r) + 1]
            BY <2>1, <2>2 DEF HasDone
        <2>4. Head(todo[r]) = P(r)[Done(r) + 1]
            BY <1>7
        <2> QED BY <2>3, <2>4
    <1>9. Done(r)' \in 0..Len(P(r)')
        BY <1>1, <1>6
    <1>10. todo'[r] = SubSeq(P(r), Done(r) + 2, Len(P(r)))
        BY <1>2, <1>7
    <1> HIDE DEF Done, HasDone, P
    <1> QED BY <1>4, <1>6, <1>8, <1>9, <1>10

\* A handler with nothing before it has done all of its program.
LEMMA AllDone ==
    ASSUME TypeInv, NEW r \in Request, todo[r] = <<>>, NEW op
    PROVE  HasDone(r, op) <=> Performs(r, op)
    <1>1. P(r) \in Seq(Op) /\ Len(P(r)) \in Nat
        BY ProgramOf
    <1>2. DOMAIN P(r) = 1..Len(P(r))
        BY <1>1, LenProperties
    <1>3. Done(r) = Len(P(r))
        BY <1>1 DEF Done
    <1> QED BY <1>2, <1>3 DEF HasDone, Performs, P

-----------------------------------------------------------------------------
(***************************************************************************)
(* Types.                                                                  *)
(***************************************************************************)
\* What is done to the fields of a writer, or of an answer.
LEMMA WriterFields ==
    ASSUME NEW w \in Writer
    PROVE  /\ [w EXCEPT !.status = "handler", !.wroteHeader = TRUE] \in Writer
           /\ [w EXCEPT !.buffer = "handler"] \in Writer
           /\ [w EXCEPT !.aborted = TRUE, !.buffer = "none"] \in Writer
    BY DEF Writer

LEMMA AnswerFields ==
    ASSUME NEW a \in Answer, NEW h \in SUBSET {"handler", "timeout"}
    PROVE  /\ [a EXCEPT !.status = "503", !.body = "timeout"] \in Answer
           /\ [a EXCEPT !.headers = h] \in Answer
    BY DEF Answer

LEMMA InitType == Init => TypeInv
    <1>1. <<>> \in Seq(Op)
        BY EmptySeq
    <1>2. FreshWriter \in Writer /\ NoAnswer \in Answer
        BY DEF FreshWriter, Writer, NoAnswer, Answer
    <1>3. [observed |-> "none", routed |-> "none"] \in Patterns
        BY DEF Patterns
    <1> QED BY <1>1, <1>2, <1>3 DEF Init, TypeInv

\* What a handler has yet to do stays a sequence of operations.
LEMMA DidType ==
    ASSUME TypeInv, NEW r \in Request, todo[r] # <<>>, Did(r)
    PROVE  todo' \in [Request -> Seq(Op)]
    <1>1. Tail(todo[r]) \in Seq(Op)
        BY HeadTailProperties DEF TypeInv
    <1> QED BY <1>1 DEF Did, TypeInv

LEMMA HandlerType ==
    ASSUME TypeInv, NEW r \in Request, TodoInv(r), Handler(r) \/ Work(r)
    PROVE  TypeInv'
    <1>1. CASE Route(r)
        <2>1. pattern' \in [Request -> Patterns]
            <3>1. [pattern[r] EXCEPT !.routed = "route"] \in Patterns
                BY DEF TypeInv, Patterns
            <3> QED BY <1>1, <3>1 DEF Route, TypeInv
        <2> QED BY <1>1, <2>1, DidType DEF Route, NextOp, TypeInv
    <1>2. CASE HeaderBegin(r)
        BY <1>2 DEF HeaderBegin, serverVars, TypeInv
    <1>3. CASE HeaderEnd(r)
        <2>1. headers' \in [Request -> SUBSET {"handler", "timeout"}]
            BY <1>3 DEF HeaderEnd, TypeInv
        <2>2. todo' \in [Request -> Seq(Op)]
            BY <1>3, DidType DEF HeaderEnd, TodoInv
        <2> QED BY <1>3, <2>1, <2>2 DEF HeaderEnd, serverVars, TypeInv
    <1>4. CASE WriteHeader(r)
        <2>1. ww' \in [Request -> Writer]
            <3>1. [ww[r] EXCEPT !.status = "handler", !.wroteHeader = TRUE] \in Writer
                BY WriterFields DEF TypeInv
            <3> QED BY <1>4, <3>1 DEF WriteHeader, TypeInv
        <2> QED BY <1>4, <2>1, DidType DEF WriteHeader, NextOp, serverVars, TypeInv
    <1>5. CASE Write(r)
        <2>1. ww' \in [Request -> Writer]
            <3>1. [ww[r] EXCEPT !.buffer = "handler"] \in Writer
                BY WriterFields DEF TypeInv
            <3> QED BY <1>5, <3>1 DEF Write, TypeInv
        <2> QED BY <1>5, <2>1, DidType DEF Write, NextOp, serverVars, TypeInv
    <1>6. CASE WriteBlocks(r)
        BY <1>6 DEF WriteBlocks, serverVars, TypeInv
    <1>7. CASE Work(r)
        BY <1>7, DidType DEF Work, NextOp, serverVars, TypeInv
    <1> QED BY <1>1, <1>2, <1>3, <1>4, <1>5, <1>6, <1>7 DEF Handler

LEMMA MainType ==
    ASSUME TypeInv, NEW r \in Request, Main(r)
    PROVE  TypeInv'
    <1>1. CASE SelectTimeout(r)
        BY <1>1 DEF SelectTimeout, serverVars, TypeInv
    <1>2. CASE Abort(r)
        <2>1. [ww[r] EXCEPT !.aborted = TRUE, !.buffer = "none"] \in Writer
            BY WriterFields DEF TypeInv
        <2> QED BY <1>2, <2>1 DEF Abort, serverVars, TypeInv
    <1>3. CASE SetHeaders(r)
        <2>1. [answer[r] EXCEPT !.status = "503", !.body = "timeout"] \in Answer
            BY AnswerFields DEF TypeInv
        <2>2. headers[r] \cup {"timeout"} \in SUBSET {"handler", "timeout"}
            BY DEF TypeInv
        <2> QED BY <1>3, <2>1, <2>2 DEF SetHeaders, serverVars, TypeInv
    <1>4. CASE SelectDone(r)
        <2>1. ww[r].status \in {"none", "handler"} /\ ww[r].buffer \in {"none", "handler"}
            BY DEF TypeInv, Writer
        <2>2. answer[r] \in Answer
            BY DEF TypeInv
        <2>3. Flushed(r) \in Answer
            BY <2>1, <2>2 DEF Flushed, Answer
        <2> QED BY <1>4, <2>3 DEF SelectDone, serverVars, TypeInv
    <1>5. CASE Send(r)
        <2>1. [answer[r] EXCEPT !.headers = headers[r]] \in Answer
            BY AnswerFields DEF TypeInv
        <2> QED BY <1>5, <2>1 DEF Send, serverVars, TypeInv
    <1>6. CASE Observe(r)
        BY <1>6 DEF Observe, TypeInv
    <1> QED BY <1>1, <1>2, <1>3, <1>4, <1>5, <1>6 DEF Main

LEMMA OtherType ==
    ASSUME TypeInv, NEW r \in Request, Arrive(r) \/ Expire(r) \/ Fault(r)
    PROVE  TypeInv'
    <1>1. CASE Arrive(r)
        <2>1. Program[kind[r]] \in Seq(Op)
            BY ProgramType DEF TypeInv
        <2> QED BY <1>1, <2>1 DEF Arrive, serverVars, TypeInv
    <1>2. CASE Expire(r)
        BY <1>2 DEF Expire, serverVars, TypeInv
    <1>3. CASE Fault(r)
        BY <1>3 DEF Fault, TypeInv
    <1> QED BY <1>1, <1>2, <1>3

-----------------------------------------------------------------------------
(***************************************************************************)
(* A step of one request leaves the others alone.                          *)
(***************************************************************************)
Same(q) ==
    /\ main'[q] = main[q] /\ todo'[q] = todo[q] /\ inMap'[q] = inMap[q]
    /\ ww'[q] = ww[q] /\ headers'[q] = headers[q] /\ ctxDone'[q] = ctxDone[q]
    /\ answer'[q] = answer[q]

LEMMA SameKeeps ==
    ASSUME NEW q \in Request, RequestInv(q), Same(q), UNCHANGED kind
    PROVE  RequestInv(q)'
    <1>1. P(q)' = P(q)
        BY DEF P
    <1>2. Done(q)' = Done(q)
        BY <1>1 DEF Done, Same
    <1>3. \A op : HasDone(q, op)' <=> HasDone(q, op)
        BY <1>1, <1>2 DEF HasDone
    <1>4. Complete(q)' = Complete(q)
        BY DEF Complete, Performs
    <1>5. TodoInv(q)'
        BY <1>1, <1>2 DEF RequestInv, TodoInv, Same
    <1>6. WriterInv(q)'
        BY <1>3 DEF RequestInv, WriterInv, Same
    <1>7. HeadersInv(q)'
        BY <1>3 DEF RequestInv, HeadersInv, Same
    <1>8. AnswerInv(q)'
        BY <1>4 DEF RequestInv, AnswerInv, Flushing, TimingOut, Same
    <1> QED BY <1>5, <1>6, <1>7, <1>8 DEF RequestInv

LEMMA OthersSame ==
    ASSUME TypeInv, NEW r \in Request, NEW q \in Request \ {r},
           Arrive(r) \/ Main(r) \/ Handler(r) \/ Work(r) \/ Expire(r) \/ Fault(r)
    PROVE  Same(q) /\ UNCHANGED kind
    <1> USE DEF Same, TypeInv, serverVars
    <1>1. CASE Arrive(r) \/ Expire(r) \/ Fault(r)
        BY <1>1 DEF Arrive, Expire, Fault
    <1>2. CASE Main(r)
        BY <1>2 DEF Main, SelectTimeout, Abort, SetHeaders, SelectDone, Send, Observe
    <1>3. CASE Handler(r) \/ Work(r)
        BY <1>3 DEF Handler, Route, HeaderBegin, HeaderEnd, WriteHeader, Write,
                    WriteBlocks, Work, Did
    <1> QED BY <1>1, <1>2, <1>3

\* What the handler has done does not depend on its connection.
LEMMA SameProgram ==
    ASSUME NEW r \in Request, todo'[r] = todo[r], UNCHANGED kind
    PROVE  /\ P(r)' = P(r) /\ Done(r)' = Done(r)
           /\ \A op : HasDone(r, op)' <=> HasDone(r, op)
           /\ Complete(r)' = Complete(r)
    <1>1. P(r)' = P(r) /\ Done(r)' = Done(r)
        BY DEF P, Done
    <1>2. \A op : HasDone(r, op)' <=> HasDone(r, op)
        BY <1>1 DEF HasDone
    <1>3. Complete(r)' = Complete(r)
        BY DEF Complete, Performs
    <1> QED BY <1>1, <1>2, <1>3

-----------------------------------------------------------------------------
(***************************************************************************)
(* The handler's steps keep the invariant of its request.                  *)
(***************************************************************************)
OpsDone(r, op) ==
    /\ todo[r] # <<>> /\ Head(todo[r]) = op
    /\ Did(r)
    /\ UNCHANGED <<kind, main, ctxDone, answer>>

\* A handler with something to do has not been flushed.
LEMMA NotFlushed ==
    ASSUME NEW r \in Request, RequestInv(r), todo[r] # <<>>
    PROVE  main[r] # "idle" /\ (main[r] = "send" => TimingOut(r))
    BY DEF RequestInv, TodoInv, AnswerInv, Flushing

\* What every operation that is done has in common.
LEMMA OpStep ==
    ASSUME TypeInv, TypeInv', NEW r \in Request, RequestInv(r), NEW op \in Op,
           OpsDone(r, op), ~inMap'[r],
           \/ headers'[r] = headers[r]
           \/ op = "header" /\ headers'[r] = headers[r] \cup {"handler"}
    PROVE  /\ TodoInv(r)'
           /\ AnswerInv(r)'
           /\ \A o \in Op : HasDone(r, o)' <=> HasDone(r, o) \/ o = op
    <1>1. /\ todo'[r] \in Seq(Op)
          /\ Done(r)' = Done(r) + 1
          /\ Done(r)' \in 0..Len(P(r)')
          /\ todo'[r] = SubSeq(P(r), Done(r) + 2, Len(P(r)))
          /\ \A o \in Op : HasDone(r, o)' <=> HasDone(r, o) \/ o = Head(todo[r])
        BY DidOne DEF OpsDone, RequestInv
    <1>2. main[r] # "idle" /\ (main[r] = "send" => TimingOut(r))
        BY NotFlushed DEF OpsDone
    <1>3. main'[r] = main[r] /\ ctxDone'[r] = ctxDone[r] /\ answer'[r] = answer[r]
        BY DEF OpsDone
    <1>4. TodoInv(r)'
        <2>1. P(r)' = P(r)
            BY DEF P, OpsDone
        <2>2. (Done(r) + 1) + 1 = Done(r) + 2
            BY DEF RequestInv, TodoInv
        <2> QED BY <1>1, <1>2, <1>3, <2>1, <2>2 DEF TodoInv
    <1>5. Complete(r)' = Complete(r)
        BY DEF Complete, Performs, OpsDone
    <1>6. TimingOut(r) => TimingOut(r)'
        BY <1>3 DEF TimingOut
    <1>7. AnswerInv(r)'
        BY <1>2, <1>3, <1>5, <1>6 DEF AnswerInv, RequestInv
    <1>8. \A o \in Op : HasDone(r, o)' <=> HasDone(r, o) \/ o = op
        BY <1>1 DEF OpsDone
    <1> QED BY <1>4, <1>7, <1>8

LEMMA HandlerSteps ==
    ASSUME TypeInv, TypeInv', NEW r \in Request, RequestInv(r),
           Handler(r) \/ Work(r)
    PROVE  RequestInv(r)'
    <1> USE DEF serverVars
    <1>0. {"route", "work", "header", "writeHeader", "write"} \subseteq Op
        BY DEF Op
    <1>1. CASE Route(r) \/ Work(r)
        <2>1. PICK op \in {"route", "work"} : OpsDone(r, op)
            BY <1>1 DEF Route, Work, NextOp, OpsDone
        <2>2. inMap'[r] = inMap[r] /\ headers'[r] = headers[r] /\ ww'[r] = ww[r]
            BY <1>1 DEF Route, Work
        <2>3. ~inMap[r]
            BY <2>1 DEF RequestInv, TodoInv, OpsDone
        <2>4. /\ TodoInv(r)' /\ AnswerInv(r)'
              /\ \A o \in Op : HasDone(r, o)' <=> HasDone(r, o) \/ o = op
            BY <1>0, <2>1, <2>2, <2>3, OpStep
        <2>5. main'[r] = main[r]
            BY <2>1 DEF OpsDone
        <2>6. \A o \in {"header", "writeHeader", "write"} : HasDone(r, o)' <=> HasDone(r, o)
            BY <1>0, <2>1, <2>4
        <2>7. WriterInv(r)'
            BY <2>2, <2>5, <2>6 DEF WriterInv, RequestInv
        <2>8. HeadersInv(r)'
            BY <2>2, <2>5, <2>6 DEF HeadersInv, RequestInv
        <2> QED BY <2>4, <2>7, <2>8 DEF RequestInv
    <1>2. CASE HeaderBegin(r)
        <2>1. /\ todo'[r] = todo[r] /\ todo[r] # <<>> /\ Head(todo[r]) = "header"
              /\ UNCHANGED <<kind, main, ww, headers, ctxDone, answer>>
            BY <1>2 DEF HeaderBegin, NextOp
        <2>2. /\ P(r)' = P(r) /\ Done(r)' = Done(r)
              /\ \A op : HasDone(r, op)' <=> HasDone(r, op)
              /\ Complete(r)' = Complete(r)
            BY <2>1, SameProgram
        <2>3. TodoInv(r)'
            BY <2>1, <2>2 DEF TodoInv, RequestInv
        <2>4. WriterInv(r)' /\ HeadersInv(r)'
            BY <2>1, <2>2 DEF WriterInv, HeadersInv, RequestInv
        <2>5. AnswerInv(r)'
            BY <2>1, <2>2 DEF AnswerInv, Flushing, TimingOut, RequestInv
        <2> QED BY <2>3, <2>4, <2>5 DEF RequestInv
    <1>3. CASE HeaderEnd(r)
        <2>1. OpsDone(r, "header")
            BY <1>3 DEF HeaderEnd, OpsDone, RequestInv, TodoInv
        <2>2. /\ ~inMap'[r] /\ headers'[r] = headers[r] \cup {"handler"}
              /\ ww'[r] = ww[r]
            BY <1>3 DEF HeaderEnd, TypeInv
        <2>3. /\ TodoInv(r)' /\ AnswerInv(r)'
              /\ \A o \in Op : HasDone(r, o)' <=> HasDone(r, o) \/ o = "header"
            BY <1>0, <2>1, <2>2, OpStep
        <2>4. main'[r] = main[r] /\ main[r] # "idle"
            BY <2>1, NotFlushed DEF OpsDone
        <2>5. HasDone(r, "header")'
            BY <1>0, <2>3
        <2>6. \A o \in {"writeHeader", "write"} : HasDone(r, o)' <=> HasDone(r, o)
            BY <1>0, <2>3
        <2>7. WriterInv(r)'
            BY <2>2, <2>4, <2>6 DEF WriterInv, RequestInv
        <2>8. HeadersInv(r)'
            BY <2>2, <2>4, <2>5 DEF HeadersInv, RequestInv
        <2> QED BY <2>3, <2>7, <2>8 DEF RequestInv
    <1>4. CASE WriteHeader(r)
        <2>1. OpsDone(r, "writeHeader")
            BY <1>4 DEF WriteHeader, NextOp, OpsDone
        <2>2. ~inMap'[r] /\ headers'[r] = headers[r]
            BY <1>4, <2>1 DEF WriteHeader, OpsDone, RequestInv, TodoInv
        <2>3. /\ TodoInv(r)' /\ AnswerInv(r)'
              /\ \A o \in Op : HasDone(r, o)' <=> HasDone(r, o) \/ o = "writeHeader"
            BY <1>0, <2>1, <2>2, OpStep
        <2>4. main'[r] = main[r] /\ main[r] # "idle"
            BY <2>1, NotFlushed DEF OpsDone
        <2>5. HasDone(r, "writeHeader")'
            BY <1>0, <2>3
        <2>6. \A o \in {"header", "write"} : HasDone(r, o)' <=> HasDone(r, o)
            BY <1>0, <2>3
        <2>7. /\ ww'[r].aborted = ww[r].aborted
              /\ ww'[r].buffer = ww[r].buffer
              /\ ~ww[r].aborted => ww'[r].wroteHeader
              /\ ww'[r].wroteHeader /\ ~ww[r].aborted /\ ~ww[r].wroteHeader
                    => ww'[r].status = "handler"
              /\ ww[r].wroteHeader => ww'[r].status = ww[r].status
            BY <1>4 DEF WriteHeader, TypeInv, Writer
        <2>8. WriterInv(r)'
            BY <2>4, <2>5, <2>6, <2>7 DEF WriterInv, RequestInv
        <2>9. HeadersInv(r)'
            BY <2>2, <2>4, <2>6 DEF HeadersInv, RequestInv
        <2> QED BY <2>3, <2>8, <2>9 DEF RequestInv
    <1>5. CASE Write(r)
        <2>1. OpsDone(r, "write")
            BY <1>5 DEF Write, NextOp, OpsDone
        <2>2. ~inMap'[r] /\ headers'[r] = headers[r]
            BY <1>5, <2>1 DEF Write, OpsDone, RequestInv, TodoInv
        <2>3. /\ TodoInv(r)' /\ AnswerInv(r)'
              /\ \A o \in Op : HasDone(r, o)' <=> HasDone(r, o) \/ o = "write"
            BY <1>0, <2>1, <2>2, OpStep
        <2>4. main'[r] = main[r] /\ main[r] # "idle"
            BY <2>1, NotFlushed DEF OpsDone
        <2>5. HasDone(r, "write")'
            BY <1>0, <2>3
        <2>6. \A o \in {"header", "writeHeader"} : HasDone(r, o)' <=> HasDone(r, o)
            BY <1>0, <2>3
        <2>7. /\ ww'[r].aborted = ww[r].aborted
              /\ ww'[r].wroteHeader = ww[r].wroteHeader
              /\ ww'[r].status = ww[r].status
              /\ ~ww[r].aborted => ww'[r].buffer = "handler"
            BY <1>5 DEF Write, TypeInv, Writer
        <2>8. WriterInv(r)'
            BY <2>4, <2>5, <2>6, <2>7 DEF WriterInv, RequestInv
        <2>9. HeadersInv(r)'
            BY <2>2, <2>4, <2>6 DEF HeadersInv, RequestInv
        <2> QED BY <2>3, <2>8, <2>9 DEF RequestInv
    <1>6. CASE WriteBlocks(r)
        <2>1. Same(r) /\ UNCHANGED kind
            BY <1>6 DEF WriteBlocks, Same
        <2> QED BY <2>1, SameKeeps
    <1> QED BY <1>1, <1>2, <1>3, <1>4, <1>5, <1>6 DEF Handler

-----------------------------------------------------------------------------
(***************************************************************************)
(* The connection's steps keep the invariant of their request.             *)
(***************************************************************************)

\* A step that leaves the handler alone; main is then past its start.
LEMMA TodoKept ==
    ASSUME NEW r \in Request, RequestInv(r), main'[r] # "idle",
           UNCHANGED <<kind, todo, inMap>>
    PROVE  TodoInv(r)'
    BY SameProgram DEF RequestInv, TodoInv

LEMMA MainSteps ==
    ASSUME TypeInv, TypeInv', NEW r \in Request, RequestInv(r), Main(r)
    PROVE  RequestInv(r)'
    <1> USE DEF serverVars
    <1>1. UNCHANGED <<kind, todo, inMap>>
        BY DEF Main, SelectTimeout, Abort, SetHeaders, SelectDone, Send, Observe
    <1>2. main[r] # "idle" /\ main'[r] # "idle"
        BY DEF Main, SelectTimeout, Abort, SetHeaders, SelectDone, Send, Observe, TypeInv
    <1>3. TodoInv(r)'
        BY <1>1, <1>2, TodoKept
    <1>4. /\ \A op : HasDone(r, op)' <=> HasDone(r, op)
          /\ Complete(r)' = Complete(r)
        BY <1>1, SameProgram
    <1>5. CASE SelectTimeout(r)
        <2>1. main[r] = "select" /\ ctxDone[r] /\ main'[r] = "abort"
            BY <1>5 DEF SelectTimeout, TypeInv
        <2>2. UNCHANGED <<ww, headers, ctxDone, answer>>
            BY <1>5 DEF SelectTimeout
        <2> QED BY <1>3, <1>4, <2>1, <2>2
                DEF RequestInv, WriterInv, HeadersInv, AnswerInv
    <1>6. CASE Abort(r)
        <2>1. main[r] = "abort" /\ main'[r] = "setHeaders" /\ ww'[r].aborted
            BY <1>6 DEF Abort, TypeInv, Writer
        <2>2. UNCHANGED <<headers, ctxDone, answer>>
            BY <1>6 DEF Abort
        <2> QED BY <1>3, <1>4, <2>1, <2>2
                DEF RequestInv, WriterInv, HeadersInv, AnswerInv
    <1>7. CASE SetHeaders(r)
        <2>1. main[r] = "setHeaders" /\ main'[r] = "send"
            BY <1>7 DEF SetHeaders, TypeInv
        <2>2. UNCHANGED <<ww, ctxDone>> /\ headers'[r] = headers[r] \cup {"timeout"}
            BY <1>7 DEF SetHeaders, TypeInv
        <2>3. answer'[r].status = "503" /\ answer'[r].body = "timeout"
            BY <1>7 DEF SetHeaders, TypeInv, Answer
        <2>4. WriterInv(r)' /\ HeadersInv(r)'
            BY <1>4, <2>1, <2>2 DEF RequestInv, WriterInv, HeadersInv
        <2>5. AnswerInv(r)'
            BY <2>1, <2>2, <2>3 DEF RequestInv, AnswerInv, TimingOut
        <2> QED BY <1>3, <2>4, <2>5 DEF RequestInv
    <1>8. CASE SelectDone(r)
        <2>1. main[r] = "select" /\ main'[r] = "send" /\ todo[r] = <<>>
            BY <1>8 DEF SelectDone, TypeInv
        <2>2. UNCHANGED <<ww, headers, ctxDone>>
            BY <1>8 DEF SelectDone
        <2>3. WriterInv(r)' /\ HeadersInv(r)'
            BY <1>4, <2>1, <2>2 DEF RequestInv, WriterInv, HeadersInv
        <2>4. /\ ww[r].wroteHeader <=> Performs(r, "writeHeader")
              /\ ww[r].wroteHeader => ww[r].status = "handler"
              /\ ww[r].buffer = IF Performs(r, "write") THEN "handler" ELSE "none"
            BY <2>1, AllDone DEF RequestInv, WriterInv
        <2>5. answer'[r] = Flushed(r)
            BY <1>8 DEF SelectDone, TypeInv
        <2>6. answer[r] = NoAnswer
            BY <2>1 DEF RequestInv, AnswerInv
        <2>7. Flushed(r).status = Complete(r).status /\ Flushed(r).body = Complete(r).body
            BY <2>4, <2>6 DEF Flushed, Complete, NoAnswer
        <2>8. "timeout" \notin headers[r]
            BY <2>1 DEF RequestInv, HeadersInv
        <2>9. Flushing(r)'
            BY <1>1, <1>4, <2>1, <2>2, <2>5, <2>7, <2>8 DEF Flushing
        <2>10. AnswerInv(r)'
            BY <2>1, <2>9 DEF AnswerInv
        <2> QED BY <1>3, <2>3, <2>10 DEF RequestInv
    <1>9. CASE Send(r)
        <2>1. main[r] = "send" /\ main'[r] = "observe"
            BY <1>9 DEF Send, TypeInv
        <2>2. UNCHANGED <<ww, headers, ctxDone>>
            BY <1>9 DEF Send
        <2>3. WriterInv(r)' /\ HeadersInv(r)'
            BY <1>4, <2>1, <2>2 DEF RequestInv, WriterInv, HeadersInv
        <2>4. /\ answer'[r].status = answer[r].status
              /\ answer'[r].body = answer[r].body
              /\ answer'[r].headers = headers[r]
            BY <1>9 DEF Send, TypeInv, Answer
        <2>5. CASE TimingOut(r)
            <3>1. AnswerInv(r)'
                BY <2>1, <2>2, <2>4, <2>5 DEF AnswerInv, TimingOut
            <3> QED BY <1>3, <2>3, <3>1 DEF RequestInv
        <2>6. CASE Flushing(r)
            <3>1. "handler" \in headers[r] <=> Performs(r, "header")
                BY <2>1, <2>6, AllDone DEF RequestInv, HeadersInv, Flushing
            <3>2. headers[r] = Complete(r).headers
                <4>1. headers[r] \subseteq {"handler", "timeout"}
                    BY DEF TypeInv
                <4> QED BY <2>6, <3>1, <4>1 DEF Flushing, Complete
            <3>3. answer'[r] = Complete(r)
                <4>1. answer'[r] \in Answer
                    BY DEF TypeInv
                <4>2. /\ answer'[r].status = Complete(r).status
                      /\ answer'[r].body = Complete(r).body
                      /\ answer'[r].headers = Complete(r).headers
                    BY <2>4, <2>6, <3>2 DEF Flushing
                <4>3. Complete(r) \in Answer
                    BY DEF Complete, Answer
                <4>4. \A a, b \in Answer : a.status = b.status /\ a.body = b.body
                          /\ a.headers = b.headers => a = b
                    BY DEF Answer
                <4> QED BY <4>1, <4>2, <4>3, <4>4
            <3>4. AnswerInv(r)'
                BY <1>4, <2>1, <3>3 DEF AnswerInv
            <3> QED BY <1>3, <2>3, <3>4 DEF RequestInv
        <2> QED BY <2>1, <2>5, <2>6 DEF RequestInv, AnswerInv
    <1>10. CASE Observe(r)
        <2>1. main[r] = "observe" /\ main'[r] = "answered" /\ ctxDone'[r]
            BY <1>10 DEF Observe, TypeInv
        <2>2. UNCHANGED <<ww, headers, answer>>
            BY <1>10 DEF Observe
        <2> QED BY <1>3, <1>4, <2>1, <2>2
                DEF RequestInv, WriterInv, HeadersInv, AnswerInv
    <1> QED BY <1>5, <1>6, <1>7, <1>8, <1>9, <1>10 DEF Main

LEMMA ArriveStep ==
    ASSUME TypeInv, TypeInv', NEW r \in Request, RequestInv(r), Arrive(r)
    PROVE  RequestInv(r)'
    <1>1. main[r] = "idle" /\ main'[r] = "select" /\ todo'[r] = P(r)
        BY DEF Arrive, TypeInv, P
    <1>2. UNCHANGED <<kind, inMap, ww, headers, ctxDone, answer>>
        BY DEF Arrive, serverVars
    <1>3. P(r) \in Seq(Op) /\ Len(P(r)) \in Nat /\ P(r)' = P(r)
        BY <1>2, ProgramOf DEF P
    <1>4. Done(r)' = 0
        BY <1>1, <1>3 DEF Done
    <1>5. \A op : ~HasDone(r, op)'
        BY <1>4 DEF HasDone
    <1>6. ~inMap[r]
        BY <1>1 DEF RequestInv, TodoInv
    <1>7. TodoInv(r)'
        BY <1>1, <1>2, <1>3, <1>4, <1>6, SubSeqFull DEF TodoInv
    <1>8. ww[r] = FreshWriter /\ headers[r] = {} /\ answer[r] = NoAnswer
        BY <1>1 DEF RequestInv, WriterInv, HeadersInv, AnswerInv
    <1>9. WriterInv(r)'
        BY <1>1, <1>2, <1>5, <1>8 DEF WriterInv, FreshWriter
    <1>10. HeadersInv(r)' /\ AnswerInv(r)'
        BY <1>1, <1>2, <1>5, <1>8 DEF HeadersInv, AnswerInv
    <1> QED BY <1>7, <1>9, <1>10 DEF RequestInv

LEMMA ExpireStep ==
    ASSUME TypeInv, NEW r \in Request, RequestInv(r), Expire(r)
    PROVE  RequestInv(r)'
    <1>1. main[r] = "select" /\ UNCHANGED <<kind, main, todo, inMap, ww, headers, answer>>
        BY DEF Expire, serverVars
    <1>2. TodoInv(r)'
        BY <1>1, TodoKept
    <1>3. \A op : HasDone(r, op)' <=> HasDone(r, op)
        BY <1>1, SameProgram
    <1> QED BY <1>1, <1>2, <1>3 DEF RequestInv, WriterInv, HeadersInv, AnswerInv

LEMMA FaultStep ==
    ASSUME TypeInv, NEW r \in Request, RequestInv(r), Fault(r)
    PROVE  RequestInv(r)' /\ CrashNeedsTimeout'
    <1>1. Same(r) /\ UNCHANGED <<kind, ctxDone, inMap, main>>
        BY DEF Fault, Same
    <1>2. RequestInv(r)'
        BY <1>1, SameKeeps
    <1>3. inMap[r] /\ main[r] \in MapSteps
        BY DEF Fault
    <1>4. ctxDone[r]
        <2>1. todo[r] # <<>>
            BY <1>3 DEF RequestInv, TodoInv
        <2>2. main[r] = "send" => TimingOut(r)
            BY <2>1, NotFlushed
        <2> QED BY <1>3, <2>2 DEF MapSteps, TimingOut, RequestInv, AnswerInv
    <1>5. CrashNeedsTimeout'
        BY <1>1, <1>3, <1>4 DEF CrashNeedsTimeout
    <1> QED BY <1>2, <1>5

-----------------------------------------------------------------------------
(***************************************************************************)
(* The invariant.                                                          *)
(***************************************************************************)
LEMMA InitIInv == Init => IInv
    <1> SUFFICES ASSUME Init PROVE IInv
        OBVIOUS
    <1>1. TypeInv
        BY InitType
    <1>2. ASSUME NEW r \in Request PROVE RequestInv(r)
        <2>1. /\ main[r] = "idle" /\ todo[r] = <<>> /\ ~inMap[r] /\ ww[r] = FreshWriter
              /\ headers[r] = {} /\ answer[r] = NoAnswer
            BY DEF Init
        <2>2. P(r) \in Seq(Op) /\ Len(P(r)) \in Nat
            BY <1>1, ProgramOf
        <2>3. Done(r) = Len(P(r)) /\ todo[r] \in Seq(Op)
            BY <2>1, <2>2, EmptySeq DEF Done
        <2>4. SubSeq(P(r), Len(P(r)) + 1, Len(P(r))) = <<>>
            BY <2>2, SubSeqEmpty
        <2>5. TodoInv(r)
            BY <2>1, <2>2, <2>3, <2>4 DEF TodoInv
        <2> QED BY <2>1, <2>5 DEF RequestInv, WriterInv, HeadersInv, AnswerInv, FreshWriter
    <1>3. CrashNeedsTimeout
        BY DEF Init, CrashNeedsTimeout
    <1> QED BY <1>1, <1>2, <1>3 DEF IInv

LEMMA NextIInv == IInv /\ [Next]_vars => IInv'
    <1> SUFFICES ASSUME IInv, [Next]_vars PROVE IInv'
        OBVIOUS
    <1> USE DEF IInv
    <1>1. ASSUME NEW r \in Request,
                 Arrive(r) \/ Main(r) \/ Handler(r) \/ Work(r) \/ Expire(r) \/ Fault(r)
          PROVE  IInv'
        <2>1. TypeInv'
            BY <1>1, HandlerType, MainType, OtherType DEF RequestInv
        <2>2. RequestInv(r)'
            BY <1>1, <2>1, HandlerSteps, MainSteps, ArriveStep, ExpireStep, FaultStep
        <2>3. ASSUME NEW q \in Request \ {r} PROVE RequestInv(q)'
            BY <1>1, OthersSame, SameKeeps
        <2>4. CrashNeedsTimeout'
            <3>1. CASE Fault(r)
                BY <3>1, FaultStep
            <3>2. CASE ~Fault(r)
                <4>1. up'
                    BY <1>1, <3>2
                       DEF Arrive, Main, SelectTimeout, Abort, SetHeaders, SelectDone,
                           Send, Observe, Handler, Route, HeaderBegin, HeaderEnd,
                           WriteHeader, Write, WriteBlocks, Work, Expire, NextOp,
                           serverVars
                <4> QED BY <4>1 DEF CrashNeedsTimeout
            <3> QED BY <3>1, <3>2
        <2> QED BY <2>1, <2>2, <2>3, <2>4
    <1>2. CASE UNCHANGED vars
        <2>1. TypeInv' /\ CrashNeedsTimeout'
            BY <1>2 DEF vars, TypeInv, CrashNeedsTimeout
        <2>2. ASSUME NEW q \in Request PROVE RequestInv(q)'
            BY <1>2, SameKeeps DEF vars, Same
        <2> QED BY <2>1, <2>2
    <1> QED BY <1>1, <1>2 DEF Next

LEMMA IInvHolds == Spec => []IInv
    BY InitIInv, NextIInv, PTL DEF Spec

\* Every variable keeps its type: a handler always stands somewhere in its
\* program, and net/http is never asked to send an answer without a status.
THEOREM TypeCorrect == Spec => []TypeOK
    <1>1. IInv => TypeOK
        <2> SUFFICES ASSUME IInv PROVE TypeOK
            OBVIOUS
        <2>1. ASSUME NEW r \in Request
              PROVE  \E n \in 0..Len(Program[kind[r]]) :
                        todo[r] = SubSeq(Program[kind[r]], n + 1, Len(Program[kind[r]]))
            BY DEF IInv, RequestInv, TodoInv, P
        <2>2. ASSUME NEW r \in Request, main[r] \in {"send", "observe", "answered"}
              PROVE  answer[r].status # "none"
            <3>1. Complete(r).status # "none"
                BY DEF Complete
            <3>2. \/ answer[r].status = Complete(r).status
                  \/ answer[r].status = "503"
                BY <2>2 DEF IInv, RequestInv, AnswerInv, Flushing, TimingOut
            <3> QED BY <3>1, <3>2
        <2> QED BY <2>1, <2>2 DEF IInv, TypeInv, TypeOK, Writer, Patterns, Answer
    <1> QED BY <1>1, IInvHolds, PTL

\* However the handler's writes, the deadline and the abort fall, a client gets
\* the whole of the handler's answer or the timeout's (timeoutMiddleware and
\* writerWrapper).
THEOREM AnswersWhole == Spec => []WholeAnswer
    <1>1. IInv => WholeAnswer
        BY DEF IInv, RequestInv, AnswerInv, WholeAnswer
    <1> QED BY <1>1, IInvHolds, PTL

\* The race on a header map cannot stop the server before some request has run
\* past its deadline, for the handler is alone in the map until then.
THEOREM CrashAfterTimeout == Spec => []CrashNeedsTimeout
    <1>1. IInv => CrashNeedsTimeout
        BY DEF IInv
    <1> QED BY <1>1, IInvHolds, PTL

-----------------------------------------------------------------------------
(***************************************************************************)
(* The mutex of the writerWrapper.                                         *)
(***************************************************************************)
Stuck(r) == holder[r] = "handler"

\* Whoever is past the writer has left nothing in it to a handler; a handler
\* that holds the mutex is one that writes first, and the timeout waits for it.
LockInv(r) ==
    /\ main[r] \in {"setHeaders", "send", "observe", "answered"}
          => todo[r] = <<>> \/ ww[r].aborted
    /\ Stuck(r) =>
          /\ main[r] \in {"select", "abort"}
          /\ todo[r] # <<>> /\ Head(todo[r]) = "write"
          /\ ~ SetsStatus(r)

LocksInv == IInv /\ \A r \in Request : LockInv(r)

\* Neither a handler that sets a status nor its timeout waits in the
\* writerWrapper: the mutex is free, and a Write does not lock it twice.
SettersNeverBlock ==
    \A r \in Request : SetsStatus(r) =>
        /\ ~ Stuck(r)
        /\ todo[r] # <<>> /\ Head(todo[r]) = "write"
              => ww[r].aborted \/ ww[r].wroteHeader

\* A handler that has stopped in the writerWrapper has stopped for good, and
\* timeoutMiddleware with it.
StuckIsUnanswered ==
    \A r \in Request : Stuck(r) => Stuck(r)' /\ main'[r] # "answered"

\* What RespondJSON does after the operations of s.
LEMMA ThenRespond ==
    ASSUME NEW s \in Seq(Op)
    PROVE  /\ DOMAIN (s \o RespondJSON) = 1..(Len(s) + 3)
           /\ \A i \in 1..Len(s) : (s \o RespondJSON)[i] = s[i]
           /\ (s \o RespondJSON)[Len(s) + 1] = "header"
           /\ (s \o RespondJSON)[Len(s) + 2] = "writeHeader"
           /\ (s \o RespondJSON)[Len(s) + 3] = "write"
    <1> DEFINE t == s \o RespondJSON
    <1>1. RespondJSON \in Seq(Op) /\ Len(RespondJSON) = 3
        BY DEF RespondJSON, Op
    <1>2. Len(s) \in Nat
        BY LenProperties
    <1>3. /\ t \in Seq(Op) /\ Len(t) = Len(s) + 3
          /\ \A i \in 1..(Len(s) + 3) :
                t[i] = IF i <= Len(s) THEN s[i] ELSE RespondJSON[i - Len(s)]
        <2> HIDE DEF t
        <2>1. /\ t \in Seq(Op) /\ Len(t) = Len(s) + Len(RespondJSON)
              /\ \A i \in 1..Len(s) + Len(RespondJSON) :
                    t[i] = IF i <= Len(s) THEN s[i] ELSE RespondJSON[i - Len(s)]
            BY <1>1, ConcatProperties DEF t
        <2> QED BY <1>1, <2>1
    <1>4. DOMAIN t = 1..(Len(s) + 3)
        BY <1>3, LenProperties
    <1>5. \A i \in 1..Len(s) : t[i] = s[i]
        BY <1>2, <1>3
    <1>6. /\ t[Len(s) + 1] = RespondJSON[1]
          /\ t[Len(s) + 2] = RespondJSON[2]
          /\ t[Len(s) + 3] = RespondJSON[3]
        BY <1>2, <1>3
    <1> QED BY <1>4, <1>5, <1>6 DEF RespondJSON

\* A program with a WriteHeader has it before every Write.
LEMMA StatusFirst ==
    ASSUME NEW k \in Kind, NEW j \in DOMAIN Program[k], Program[k][j] = "writeHeader",
           NEW m \in Nat, m + 1 \in DOMAIN Program[k], Program[k][m + 1] = "write"
    PROVE  \E n \in 1..m : Program[k][n] = "writeHeader"
    <1>1. k \in DOMAIN Program
        BY KindAssumption
    <1>2. CASE k = "token"
        <2> DEFINE s == <<"route", "work">>
        <2>1. Program[k] = s \o RespondJSON
            BY <1>2 DEF Program, HandleToken
        <2>2. /\ s \in Seq(Op) /\ Len(s) = 2
              /\ s[1] # "write" /\ s[2] # "write"
            BY DEF Op
        <2> HIDE DEF s
        <2>3. /\ DOMAIN Program[k] = 1..5
              /\ \A i \in 1..2 : Program[k][i] = s[i]
              /\ Program[k][3] = "header" /\ Program[k][4] = "writeHeader"
            <3>1. /\ DOMAIN Program[k] = 1..(Len(s) + 3)
                  /\ \A i \in 1..Len(s) : Program[k][i] = s[i]
                  /\ Program[k][Len(s) + 1] = "header"
                  /\ Program[k][Len(s) + 2] = "writeHeader"
                <4>1. s \in Seq(Op)
                    BY <2>2
                <4> QED BY <2>1, <4>1, ThenRespond
            <3> QED BY <2>2, <3>1
        <2>4. m \in 0..4
            BY <2>2, <2>3
        <2>5. m = 4
            BY <2>2, <2>3, <2>4
        <2> QED BY <2>3, <2>5
    <1>3. CASE k = "login"
        <2> DEFINE s == <<"route", "work", "header">>
        <2>1. Program[k] = s \o RespondJSON
            BY <1>3 DEF Program, HandleLogin
        <2>2. /\ s \in Seq(Op) /\ Len(s) = 3
              /\ s[1] # "write" /\ s[2] # "write" /\ s[3] # "write"
            BY DEF Op
        <2> HIDE DEF s
        <2>3. /\ DOMAIN Program[k] = 1..6
              /\ \A i \in 1..3 : Program[k][i] = s[i]
              /\ Program[k][4] = "header" /\ Program[k][5] = "writeHeader"
            <3>1. /\ DOMAIN Program[k] = 1..(Len(s) + 3)
                  /\ \A i \in 1..Len(s) : Program[k][i] = s[i]
                  /\ Program[k][Len(s) + 1] = "header"
                  /\ Program[k][Len(s) + 2] = "writeHeader"
                <4>1. s \in Seq(Op)
                    BY <2>2
                <4> QED BY <2>1, <4>1, ThenRespond
            <3> QED BY <2>2, <3>1
        <2>4. m \in 0..5
            BY <2>2, <2>3
        <2>5. m = 5
            BY <2>2, <2>3, <2>4
        <2> QED BY <2>3, <2>5
    <1>4. CASE k = "register"
        BY <1>4 DEF Program, HandleRegister
    <1>5. CASE k \in {"logout", "delete", "metrics"}
        BY <1>5 DEF Program, HandleLogout, HandleDelete, HandleMetrics
    <1> QED BY <1>1, <1>2, <1>3, <1>4, <1>5 DEF Program

\* When such a handler comes to its Write, it has done its WriteHeader.
LEMMA WriteAfterStatus ==
    ASSUME IInv, NEW r \in Request, SetsStatus(r),
           todo[r] # <<>>, Head(todo[r]) = "write"
    PROVE  ww[r].aborted \/ ww[r].wroteHeader
    <1>1. RequestInv(r) /\ TypeInv /\ kind[r] \in Kind
        BY DEF IInv, TypeInv
    <1>2. P(r) \in Seq(Op) /\ Len(P(r)) \in Nat
        BY <1>1, ProgramOf
    <1>3. todo[r] \in Seq(Op) /\ Done(r) \in 0..Len(P(r))
          /\ todo[r] = SubSeq(P(r), Done(r) + 1, Len(P(r)))
        BY <1>1 DEF RequestInv, TodoInv
    <1>4. Done(r) # Len(P(r))
        <2>1. Len(todo[r]) \in Nat /\ Len(todo[r]) # 0
            BY <1>3, EmptySeq, LenProperties
        <2> QED BY <1>2, <2>1 DEF Done
    <1>5. Done(r) + 1 \in 1..Len(P(r)) /\ Len(P(r)) \in Done(r) + 1 .. Len(P(r))
        BY <1>2, <1>3, <1>4
    <1>6. P(r)[Done(r) + 1] = "write"
        BY <1>2, <1>3, <1>5, HeadTailOfSubSeq
    <1>7. DOMAIN P(r) = 1..Len(P(r))
        BY <1>2, LenProperties
    <1>8. PICK j \in DOMAIN P(r) : P(r)[j] = "writeHeader"
        BY <1>5, <1>6, <1>7 DEF SetsStatus, Performs, P
    <1>9. Done(r) \in Nat
        BY <1>2, <1>3
    <1>10. HasDone(r, "writeHeader")
        <2> HIDE DEF Done
        <2>1. \E n \in 1..Done(r) : Program[kind[r]][n] = "writeHeader"
            BY <1>1, <1>5, <1>6, <1>7, <1>8, <1>9, StatusFirst DEF P
        <2> QED BY <2>1 DEF HasDone, P
    <1>11. main[r] # "idle"
        BY <1>1, NotFlushed
    <1> QED BY <1>1, <1>10, <1>11 DEF RequestInv, WriterInv

LEMMA SetsStatusKept ==
    ASSUME NEW r \in Request, UNCHANGED kind
    PROVE  SetsStatus(r)' <=> SetsStatus(r)
    BY DEF SetsStatus, Performs

LEMMA LockSame ==
    ASSUME NEW q \in Request, LockInv(q), Same(q), holder'[q] = holder[q],
           UNCHANGED kind
    PROVE  LockInv(q)'
    BY SetsStatusKept DEF LockInv, Stuck, Same

\* Nobody touches the mutex of another request's writer.
LEMMA OthersLock ==
    ASSUME TypeInv, NEW r \in Request, NEW q \in Request \ {r},
           Arrive(r) \/ Main(r) \/ Handler(r) \/ Work(r) \/ Expire(r) \/ Fault(r)
    PROVE  holder'[q] = holder[q]
    BY DEF Arrive, Main, SelectTimeout, Abort, SetHeaders, SelectDone, Send, Observe,
           Handler, Route, HeaderBegin, HeaderEnd, WriteHeader, Write, WriteBlocks, Work,
           Expire, Fault, TypeInv

\* Only the Write of a handler that sets no status takes it and keeps it.
LEMMA HandlerLock ==
    ASSUME IInv, NEW r \in Request, LockInv(r), Handler(r) \/ Work(r)
    PROVE  LockInv(r)'
    <1>0. TypeInv /\ RequestInv(r)
        BY DEF IInv
    <1>1. CASE WriteBlocks(r)
        <2>1. todo[r] # <<>> /\ Head(todo[r]) = "write" /\ ~ww[r].aborted /\ ~ww[r].wroteHeader
            BY <1>1 DEF WriteBlocks, NextOp
        <2>2. ~ SetsStatus(r)
            BY <2>1, WriteAfterStatus
        <2>3. main[r] \in {"select", "abort"}
            BY <1>0, <2>1, NotFlushed DEF LockInv, TypeInv
        <2>4. UNCHANGED <<main, todo, kind, ww>>
            BY <1>1 DEF WriteBlocks, serverVars
        <2> QED BY <2>1, <2>2, <2>3, <2>4, SetsStatusKept DEF LockInv
    <1>2. ASSUME ~WriteBlocks(r) PROVE LockInv(r)'
        <2>1. ~ Stuck(r)
            <3>1. SUFFICES ASSUME Stuck(r) PROVE FALSE
                OBVIOUS
            <3>2. Head(todo[r]) = "write" /\ ~inMap[r]
                BY <1>0, <3>1 DEF LockInv, RequestInv, TodoInv
            <3> QED BY <1>2, <3>1, <3>2
                DEF Stuck, Handler, Work, Route, HeaderBegin, HeaderEnd, WriteHeader,
                    Write, NextOp
        <2>2. UNCHANGED <<main, holder, kind>>
            BY <1>2 DEF Handler, Work, Route, HeaderBegin, HeaderEnd, WriteHeader, Write,
                        serverVars
        <2>3. todo[r] # <<>>
            BY <1>0 DEF Handler, Work, Route, HeaderBegin, HeaderEnd, WriteHeader, Write,
                        WriteBlocks, NextOp, RequestInv, TodoInv
        <2>4. ww[r].aborted => ww'[r].aborted
            BY <1>0, <1>2 DEF Handler, Work, Route, HeaderBegin, HeaderEnd, WriteHeader,
                              Write, TypeInv, Writer
        <2> QED BY <2>1, <2>2, <2>3, <2>4 DEF LockInv, Stuck
    <1> QED BY <1>1, <1>2

\* The connection's goroutine never gets past a writer that is held.
LEMMA MainLock ==
    ASSUME IInv, NEW r \in Request, LockInv(r),
           Main(r) \/ Arrive(r) \/ Expire(r) \/ Fault(r)
    PROVE  LockInv(r)'
    <1>0. TypeInv /\ RequestInv(r) /\ UNCHANGED <<kind, holder>>
        BY DEF IInv, Main, SelectTimeout, Abort, SetHeaders, SelectDone, Send, Observe,
               Arrive, Expire, Fault, serverVars
    <1> USE <1>0, SetsStatusKept DEF LockInv, Stuck, TypeInv, serverVars
    <1>1. CASE SelectTimeout(r)
        BY <1>1 DEF SelectTimeout
    <1>2. CASE Abort(r)
        <2>1. ww'[r].aborted
            BY <1>2 DEF Abort, Writer
        <2> QED BY <1>2, <2>1 DEF Abort
    <1>3. CASE SetHeaders(r)
        BY <1>3 DEF SetHeaders
    <1>4. CASE SelectDone(r)
        BY <1>4 DEF SelectDone
    <1>5. CASE Send(r) \/ Observe(r)
        BY <1>5 DEF Send, Observe
    <1>6. CASE Arrive(r)
        BY <1>6 DEF Arrive
    <1>7. CASE Expire(r) \/ Fault(r)
        BY <1>7 DEF Expire, Fault
    <1> QED BY <1>1, <1>2, <1>3, <1>4, <1>5, <1>6, <1>7 DEF Main

LEMMA InitLocks == Init => LocksInv
    BY InitIInv DEF Init, LocksInv, LockInv, Stuck

LEMMA NextLocks == LocksInv /\ [Next]_vars => LocksInv'
    <1> SUFFICES ASSUME LocksInv, [Next]_vars PROVE LocksInv'
        OBVIOUS
    <1>1. IInv /\ IInv' /\ TypeInv
        BY NextIInv DEF LocksInv, IInv
    <1>2. ASSUME NEW r \in Request,
                 Arrive(r) \/ Main(r) \/ Handler(r) \/ Work(r) \/ Expire(r) \/ Fault(r),
                 NEW q \in Request
          PROVE  LockInv(q)'
        <2>1. CASE q = r
            BY <1>1, <1>2, <2>1, HandlerLock, MainLock DEF LocksInv
        <2>2. CASE q # r
            BY <1>1, <1>2, <2>2, OthersSame, OthersLock, LockSame DEF LocksInv
        <2> QED BY <2>1, <2>2
    <1>3. CASE UNCHANGED vars
        BY <1>1, <1>3, LockSame DEF LocksInv, vars, Same
    <1> QED BY <1>1, <1>2, <1>3 DEF LocksInv, Next

LEMMA LocksHold == Spec => []LocksInv
    BY InitLocks, NextLocks, PTL DEF Spec

\* No handler that sets a status ever stops in the writerWrapper, nor does its
\* timeout: nobody holds the mutex when either of them comes for it, and the
\* handler's Write is never the one that locks it twice.  This is why such
\* requests are answered (the fairness does the rest).
THEOREM SettersAreFree == Spec => []SettersNeverBlock
    <1>1. LocksInv => SettersNeverBlock
        BY WriteAfterStatus DEF LocksInv, LockInv, SettersNeverBlock
    <1> QED BY <1>1, LocksHold, PTL

\* A handler that has stopped there keeps the mutex for good, and its request
\* is never answered, for the timeout's Abort waits for the same mutex.
THEOREM StuckForGood == Spec => [][StuckIsUnanswered]_vars
    <1>1. LocksInv /\ LocksInv' /\ [Next]_vars => StuckIsUnanswered
        <2> SUFFICES ASSUME LocksInv, LocksInv', [Next]_vars, NEW r \in Request, Stuck(r)
                     PROVE  Stuck(r)' /\ main'[r] # "answered"
            BY DEF StuckIsUnanswered
        <2>1. Stuck(r)'
            BY DEF LocksInv, IInv, TypeInv, Stuck, Next, vars, Arrive, Main, SelectTimeout,
                   Abort, SetHeaders, SelectDone, Send, Observe, Handler, Route,
                   HeaderBegin, HeaderEnd, WriteHeader, Write, WriteBlocks, Work, Expire,
                   Fault
        <2> QED BY <2>1 DEF LocksInv, LockInv
    <1> QED BY <1>1, LocksHold, PTL DEF Spec

=============================================================================
