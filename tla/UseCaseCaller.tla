--------------------------- MODULE UseCaseCaller ---------------------------
(***************************************************************************)
(* One thread that owns a use case, as main of use_case_tst.cpp does, and  *)
(* calls its member functions in ANY order.  A call is one step: nobody    *)
(* else sees the stages it goes through.                                   *)
(***************************************************************************)
EXTENDS UseCase

CONSTANT Durations  \* the duration triples <<init, work, finish>> to choose from
ASSUME DurationsAssumption == Durations \subseteq Nat \X Nat \X Nat

VARIABLES uc,     \* the use case
          answer  \* what the last call returned, "none" before the first one

vars == <<uc, answer>>

TypeOK == uc \in UseCases /\ answer \in Completion \cup {"none"}

Init ==
  /\ \E d \in Durations : uc = NewUseCase(d[1], d[2], d[3])
  /\ answer = "none"

\* Mutant: the two stores of quit_stage are swapped.
PerformedSwapped(u, typ) ==
  LET e == EnterFill(EnterMark(u, typ), typ)
  IN  [e EXCEPT !.current_stage = QuitTo(e)[2], !.current_completion = QuitTo(e)[1]]

\* enter_stage, the sleep and quit_stage of an accepted call.
Performed(u, typ) ==
  LET e == EnterFill(EnterMark(u, typ), typ)
  IN  [e EXCEPT !.current_stage = QuitTo(e)[1], !.current_completion = QuitTo(e)[2]]

\* init_stage, work_iteration or finish_stage.
Call(typ) ==
  /\ uc' = IF CanEnter(uc, typ) THEN Performed(uc, typ) ELSE Refuse(uc)
  /\ answer' = uc'.current_completion

SetTooSlow == uc' = [uc EXCEPT !.work_slowly = TRUE] /\ UNCHANGED answer

Next == SetTooSlow \/ \E typ \in StageTyp : Call(typ)

Spec == Init /\ [][Next]_vars

-----------------------------------------------------------------------------
(***************************************************************************)
(* Properties                                                              *)
(***************************************************************************)

\* The stage of an open use case and its iteration counter agree: no work is
\* counted before the work stage, the counter is inside the stage while it
\* lasts, and the work is whole once the use case says WORKED or FINISHED.
Progress ==
  /\ uc.current_stage \in {"NEW", "INITIALIZED"} => uc.current_work_iter = 0
  /\ uc.current_stage = "WORKING" => uc.current_work_iter \in 1 .. uc.nb_iterations - 1
  /\ uc.current_stage \in {"WORKED", "FINISHED"} => uc.current_work_iter = Iterations(uc)

\* The answer TO_BE_CONTINUED, on which session_t::start and use_case_tst loop,
\* is given exactly when another call of work_iteration will be accepted; and
\* COMPLETED exactly when it will not.
AnswerTellsNext ==
  /\ answer = "TO_BE_CONTINUED" <=>
       uc.current_stage = "WORKING" /\ CanEnter(uc, "WITER")
  /\ answer = "COMPLETED" => CanEnter(uc, "WITER") \/ CanEnter(uc, "FINISH")
                             \/ uc.current_stage = "FINISHED"

\* A call out of order puts the use case in error, and nothing ever brings it
\* out of it or moves its stage again.
ErrorIsFinal ==
  [][uc.current_completion = "ERROR" =>
       /\ uc'.current_completion = "ERROR"
       /\ uc'.current_stage = uc.current_stage
       /\ uc'.current_work_iter = uc.current_work_iter]_vars
=============================================================================
