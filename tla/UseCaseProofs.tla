--------------------------- MODULE UseCaseProofs ---------------------------
(***************************************************************************)
(* Proofs about a use case with one caller, for all durations.             *)
(*                                                                         *)
(* The inductive invariant adds to Progress where a use case can be        *)
(* between two calls: never inside a stage that ends with its call, and    *)
(* open to another iteration exactly as long as its completion says so.    *)
(***************************************************************************)
EXTENDS UseCaseCaller, TLAPS

\* What a use case at rest looks like.
RestInv ==
  /\ uc.current_stage \in {"NEW", "INITIALIZED", "WORKING", "WORKED", "FINISHED"}
  /\ uc.current_completion \in {"TO_BE_CONTINUED", "COMPLETED", "ERROR"}
  /\ ~Closed(uc) => (uc.current_completion = "TO_BE_CONTINUED" <=> uc.current_stage = "WORKING")

\* The last answer is the completion the use case has; a use case that is still
\* new after a call has refused it.
AnswerInv ==
  IF answer = "none" THEN uc.current_stage = "NEW" /\ uc.current_completion = "COMPLETED"
                     ELSE /\ answer = uc.current_completion
                          /\ uc.current_stage = "NEW" => answer = "ERROR"

IInv == TypeOK /\ Progress /\ RestInv /\ AnswerInv

-----------------------------------------------------------------------------
LEMMA InitIInv == Init => IInv
<1> SUFFICES ASSUME Init PROVE IInv
  OBVIOUS
<1>1. PICK d \in Durations : uc = NewUseCase(d[1], d[2], d[3])
  BY DEF Init
<1>2. d[1] \in Nat /\ d[2] \in Nat /\ d[3] \in Nat
  BY DurationsAssumption
<1>3. answer = "none"
  BY DEF Init
<1>4. TypeOK
  BY <1>1, <1>2, <1>3 DEF TypeOK, NewUseCase, UseCases, Stage, Completion
<1>5. Progress /\ RestInv /\ AnswerInv
  BY <1>1, <1>3 DEF NewUseCase, Progress, RestInv, AnswerInv, Closed
<1>6. QED
  BY <1>4, <1>5 DEF IInv

\* A call that is turned down changes the completion only.
LEMMA RefusedCall ==
  ASSUME IInv, NEW typ \in StageTyp, Call(typ), ~CanEnter(uc, typ)
  PROVE  IInv' /\ uc' = Refuse(uc) /\ answer' = "ERROR"
<1>1. uc' = Refuse(uc) /\ answer' = "ERROR"
  BY DEF Call, Refuse, IInv, TypeOK, UseCases
<1>2. TypeOK'
  BY <1>1 DEF IInv, TypeOK, UseCases, Refuse, Completion
<1>3. Progress'
  BY <1>1 DEF IInv, TypeOK, UseCases, Refuse, Progress, Iterations
<1>4. RestInv' /\ AnswerInv'
  BY <1>1 DEF IInv, TypeOK, UseCases, Refuse, RestInv, AnswerInv, Closed
<1>5. QED
  BY <1>1, <1>2, <1>3, <1>4 DEF IInv

\* A stage that is accepted moves the use case on as follows.
LEMMA InitCall ==
  ASSUME IInv, CanEnter(uc, "INIT")
  PROVE  Performed(uc, "INIT") = [uc EXCEPT !.current_stage = "INITIALIZED",
                                            !.current_completion = "COMPLETED"]
BY DEF IInv, TypeOK, UseCases, CanEnter, Performed, EnterFill, EnterMark, StageOf, QuitTo

LEMMA FinishCall ==
  ASSUME IInv, CanEnter(uc, "FINISH")
  PROVE  Performed(uc, "FINISH") = [uc EXCEPT !.current_stage = "FINISHED",
                                              !.current_completion = "COMPLETED"]
BY DEF IInv, TypeOK, UseCases, CanEnter, Performed, EnterFill, EnterMark, StageOf, QuitTo

LEMMA WorkCall ==
  ASSUME IInv, CanEnter(uc, "WITER"), NEW u, u = Performed(uc, "WITER")
  PROVE  /\ u \in UseCases
         /\ u.nb_iterations = uc.nb_iterations
         /\ u.current_work_iter = uc.current_work_iter + 1
         /\ IF uc.current_work_iter + 1 < uc.nb_iterations
            THEN u.current_stage = "WORKING" /\ u.current_completion = "TO_BE_CONTINUED"
            ELSE u.current_stage = "WORKED" /\ u.current_completion = "COMPLETED"
<1> DEFINE m == EnterMark(uc, "WITER")
           e == EnterFill(m, "WITER")
<1>1. uc \in UseCases
  BY DEF IInv, TypeOK
<1>2. /\ e \in UseCases
      /\ e.current_stage = "WORKING"
      /\ e.nb_iterations = uc.nb_iterations
      /\ e.current_work_iter = uc.current_work_iter + 1
  <2>1. m = [uc EXCEPT !.current_stage = "WORKING"]
    BY DEF EnterMark, StageOf
  <2>2. /\ m \in UseCases
        /\ m.current_stage = "WORKING"
        /\ m.nb_iterations = uc.nb_iterations
        /\ m.current_work_iter = uc.current_work_iter
    BY <1>1, <2>1 DEF UseCases, Stage
  <2>3. PICK k : k = m.current_work_iter + 1
    OBVIOUS
  <2>4. e = [m EXCEPT !.current_completion = "TO_BE_CONTINUED", !.current_work_iter = k]
    BY <2>3 DEF EnterFill
  <2> HIDE DEF m, e
  <2>5. k \in Nat /\ k = uc.current_work_iter + 1
    BY <2>2, <2>3 DEF UseCases
  <2>6. e \in UseCases
    BY <2>2, <2>4, <2>5 DEF UseCases, Completion
  <2>7. QED
    BY <2>2, <2>4, <2>5, <2>6 DEF UseCases
<1>3. u = [e EXCEPT !.current_stage = QuitTo(e)[1], !.current_completion = QuitTo(e)[2]]
  BY DEF Performed
<1> HIDE DEF m, e
<1>4. e.current_work_iter \in Nat /\ e.nb_iterations \in Int
  BY <1>2 DEF UseCases
<1>5. QuitTo(e) = IF e.current_work_iter < e.nb_iterations
                  THEN <<"WORKING", "TO_BE_CONTINUED">> ELSE <<"WORKED", "COMPLETED">>
  <2>1. e.current_work_iter >= e.nb_iterations <=> ~(e.current_work_iter < e.nb_iterations)
    BY <1>4
  <2>2. QED
    BY <1>2, <2>1 DEF QuitTo
<1>6. QuitTo(e)[1] \in Stage /\ QuitTo(e)[2] \in Completion
  BY <1>5 DEF Stage, Completion
<1>7. /\ u \in UseCases
      /\ u.nb_iterations = e.nb_iterations
      /\ u.current_work_iter = e.current_work_iter
      /\ u.current_stage = QuitTo(e)[1]
      /\ u.current_completion = QuitTo(e)[2]
  BY <1>2, <1>3, <1>6 DEF UseCases
<1>8. QED
  BY <1>2, <1>5, <1>7

LEMMA InitCallStep == ASSUME IInv, Call("INIT"), CanEnter(uc, "INIT") PROVE IInv'
<1>1. /\ uc' = [uc EXCEPT !.current_stage = "INITIALIZED", !.current_completion = "COMPLETED"]
      /\ answer' = uc'.current_completion
  BY InitCall DEF Call
<1>2. uc.current_stage = "NEW" /\ uc.current_work_iter = 0
  BY DEF CanEnter, IInv, Progress
<1>3. TypeOK'
  BY <1>1 DEF IInv, TypeOK, UseCases, Stage, Completion
<1>4. Progress' /\ RestInv' /\ AnswerInv'
  BY <1>1, <1>2 DEF IInv, TypeOK, UseCases, Progress, RestInv, AnswerInv, Closed
<1>5. QED
  BY <1>3, <1>4 DEF IInv

LEMMA FinishCallStep == ASSUME IInv, Call("FINISH"), CanEnter(uc, "FINISH") PROVE IInv'
<1>1. /\ uc' = [uc EXCEPT !.current_stage = "FINISHED", !.current_completion = "COMPLETED"]
      /\ answer' = uc'.current_completion
  BY FinishCall DEF Call
<1>2. uc.current_stage = "WORKED" /\ uc.current_work_iter = Iterations(uc)
  BY DEF CanEnter, IInv, Progress
<1>3. TypeOK'
  BY <1>1 DEF IInv, TypeOK, UseCases, Stage, Completion
<1>4. Progress' /\ RestInv' /\ AnswerInv'
  BY <1>1, <1>2 DEF IInv, TypeOK, UseCases, Progress, RestInv, AnswerInv, Closed, Iterations
<1>5. QED
  BY <1>3, <1>4 DEF IInv

\* The two iteration limits meet: what quit_stage leaves WORKING has an
\* iteration to go, what it leaves WORKED has had them all.
LEMMA WorkCallStep == ASSUME IInv, Call("WITER"), CanEnter(uc, "WITER") PROVE IInv'
<1> DEFINE more == uc.current_work_iter + 1 < uc.nb_iterations
<1>1. uc' = Performed(uc, "WITER") /\ answer' = uc'.current_completion
  BY DEF Call
<1>2. /\ uc' \in UseCases
      /\ uc'.nb_iterations = uc.nb_iterations
      /\ uc'.current_work_iter = uc.current_work_iter + 1
      /\ IF more
         THEN uc'.current_stage = "WORKING" /\ uc'.current_completion = "TO_BE_CONTINUED"
         ELSE uc'.current_stage = "WORKED" /\ uc'.current_completion = "COMPLETED"
  BY <1>1, WorkCall
<1>3. uc.current_work_iter \in Nat /\ uc.nb_iterations \in Int
  BY DEF IInv, TypeOK, UseCases
<1>4. \/ uc.current_work_iter = 0
      \/ uc.current_work_iter \in 1 .. uc.nb_iterations - 1
  BY DEF CanEnter, IInv, Progress
<1>5. TypeOK'
  BY <1>1, <1>2 DEF TypeOK, Completion
<1>6. Progress'
  BY <1>2, <1>3, <1>4 DEF Progress, Iterations
<1>7. RestInv' /\ AnswerInv'
  BY <1>1, <1>2 DEF RestInv, AnswerInv, Closed
<1>8. QED
  BY <1>5, <1>6, <1>7 DEF IInv

LEMMA SetTooSlowStep == ASSUME IInv, SetTooSlow PROVE IInv'
<1>1. uc' = [uc EXCEPT !.work_slowly = TRUE] /\ answer' = answer
  BY DEF SetTooSlow
<1>2. TypeOK'
  BY <1>1 DEF IInv, TypeOK, UseCases
<1>3. Progress' /\ RestInv' /\ AnswerInv'
  BY <1>1 DEF IInv, TypeOK, UseCases, Progress, RestInv, AnswerInv, Closed, Iterations
<1>4. QED
  BY <1>2, <1>3 DEF IInv

LEMMA NextIInv == IInv /\ [Next]_vars => IInv'
<1> SUFFICES ASSUME IInv, [Next]_vars PROVE IInv'
  OBVIOUS
<1>1. CASE SetTooSlow
  BY <1>1, SetTooSlowStep
<1>2. ASSUME NEW typ \in StageTyp, Call(typ) PROVE IInv'
  <2>1. CASE ~CanEnter(uc, typ)
    BY <1>2, <2>1, RefusedCall
  <2>2. CASE CanEnter(uc, typ)
    BY <1>2, <2>2, InitCallStep, FinishCallStep, WorkCallStep DEF StageTyp
  <2>3. QED
    BY <2>1, <2>2
<1>3. CASE UNCHANGED vars
  BY <1>3 DEF vars, IInv, TypeOK, Progress, RestInv, AnswerInv, Closed, Iterations
<1>4. QED
  BY <1>1, <1>2, <1>3 DEF Next

LEMMA Invariance == Spec => []IInv
BY InitIInv, NextIInv, PTL DEF Spec

\* A use case keeps its types, for all durations and every order of calls.
THEOREM TypeCorrect == Spec => []TypeOK
<1>1. IInv => TypeOK
  BY DEF IInv
<1>2. QED
  BY <1>1, Invariance, PTL

-----------------------------------------------------------------------------
\* Stage and iteration counter of use_case.cpp agree in every order of calls,
\* whatever the maximal durations, a work maximum of zero included.
THEOREM StageAndCounterAgree == Spec => []Progress
<1>1. IInv => Progress
  BY DEF IInv
<1>2. QED
  BY <1>1, Invariance, PTL

\* The answers on which session_t::start () and use_case_tst loop foretell what
\* the use case will accept, so the loops neither stop early nor run into an
\* error.
THEOREM AnswersTellNext == Spec => []AnswerTellsNext
<1>1. IInv => AnswerTellsNext
  <2> SUFFICES ASSUME IInv PROVE AnswerTellsNext
    OBVIOUS
  <2>1. uc.current_stage = "WORKING" => uc.current_work_iter < uc.nb_iterations
    BY DEF IInv, TypeOK, UseCases, Progress
  <2>2. uc.current_stage = "INITIALIZED" => uc.current_work_iter = 0
    BY DEF IInv, Progress
  <2>3. answer = "COMPLETED" => CanEnter(uc, "WITER") \/ CanEnter(uc, "FINISH")
                                \/ uc.current_stage = "FINISHED"
    BY <2>2 DEF IInv, RestInv, AnswerInv, CanEnter, Closed
  <2>4. CanEnter(uc, "WITER") /\ uc.current_stage = "WORKING" <=>
          ~Closed(uc) /\ uc.current_stage = "WORKING"
    BY <2>1 DEF CanEnter
  <2>5. answer = "TO_BE_CONTINUED" <=> ~Closed(uc) /\ uc.current_stage = "WORKING"
    BY DEF IInv, RestInv, AnswerInv, Closed
  <2>6. QED
    BY <2>3, <2>4, <2>5 DEF AnswerTellsNext
<1>2. QED
  BY <1>1, Invariance, PTL

\* No call leads out of an error, nor does set_too_slow.
THEOREM ErrorsAreFinal == Spec => ErrorIsFinal
<1> DEFINE Stays == uc.current_completion = "ERROR" =>
                      /\ uc'.current_completion = "ERROR"
                      /\ uc'.current_stage = uc.current_stage
                      /\ uc'.current_work_iter = uc.current_work_iter
<1>1. IInv /\ [Next]_vars => [Stays]_vars
  <2> SUFFICES ASSUME IInv, Next, uc.current_completion = "ERROR" PROVE Stays
    OBVIOUS
  <2>1. CASE SetTooSlow
    BY <2>1 DEF SetTooSlow, IInv, TypeOK, UseCases
  <2>2. ASSUME NEW typ \in StageTyp, Call(typ) PROVE Stays
    <3>1. ~CanEnter(uc, typ)
      BY DEF CanEnter, Closed
    <3>2. uc' = Refuse(uc)
      BY <2>2, <3>1, RefusedCall
    <3>3. QED
      BY <3>2 DEF Refuse, IInv, TypeOK, UseCases
  <2>3. QED
    BY <2>1, <2>2 DEF Next
<1>2. QED
  BY <1>1, Invariance, PTL DEF Spec, ErrorIsFinal
=============================================================================
