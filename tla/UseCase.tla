------------------------------ MODULE UseCase ------------------------------
(***************************************************************************)
(* The use case of threads/use_case.cpp as data: the record of its fields  *)
(* and what each of its member functions reads and writes.  The functions  *)
(* are split where another thread can come in between: what enter_stage    *)
(* and quit_stage test, the store to current_stage, the stores that follow *)
(* it.  UseCaseCaller puts them together for one thread, Session runs them *)
(* in the stage threads of sessions.                                       *)
(***************************************************************************)
EXTENDS Integers

Stage == {"NEW", "INITIALIZING", "INITIALIZED", "WORKING", "WORKED",
          "FINISHING", "FINISHED"}

Completion == {"TO_BE_CONTINUED", "COMPLETED", "ERROR", "STOPPED", "TIMEOUT"}

\* The stages a caller can ask for: stage_typ of session.h, and the member
\* functions init_stage, work_iteration and finish_stage.
StageTyp == {"INIT", "WITER", "FINISH"}

\* The stage that each member function passes to enter_stage.
StageOf == [INIT |-> "INITIALIZING", WITER |-> "WORKING", FINISH |-> "FINISHING"]

UseCases ==
  [current_stage : Stage, current_completion : Completion,
   current_work_iter : Nat, init_duration_max : Nat, work_duration_max : Nat,
   finish_duration_max : Nat, nb_iterations : Int, work_slowly : BOOLEAN]

\* Mutant: one iteration for each second of the work stage.
NewUseCaseFullWork(init_max, work_max, finish_max) ==
  [current_stage |-> "NEW", current_completion |-> "COMPLETED",
   current_work_iter |-> 0, init_duration_max |-> init_max,
   work_duration_max |-> work_max, finish_duration_max |-> finish_max,
   nb_iterations |-> work_max, work_slowly |-> FALSE]

\* The constructor; a duration is a triple of seconds.
NewUseCase(init_max, work_max, finish_max) ==
  [current_stage |-> "NEW", current_completion |-> "COMPLETED",
   current_work_iter |-> 0, init_duration_max |-> init_max,
   work_duration_max |-> work_max, finish_duration_max |-> finish_max,
   nb_iterations |-> work_max - 1, work_slowly |-> FALSE]

\* The maximal duration a reservation is compared with.
DurationMax(u) ==
  u.init_duration_max + u.work_duration_max + u.finish_duration_max

\* How long a stage sleeps; not positive means that sleep_for returns at once.
StageDelay(u, typ) ==
  CASE typ = "INIT"   -> u.init_duration_max - 1
    [] typ = "WITER"  -> IF u.work_slowly THEN 4 ELSE 1
    [] typ = "FINISH" -> u.finish_duration_max - 1

\* Mutant: an error does not close the use case.
ClosedButError(u) == u.current_completion \in {"STOPPED", "TIMEOUT"}

\* A use case with one of these completions neither enters nor quits a stage.
Closed(u) == u.current_completion \in {"ERROR", "STOPPED", "TIMEOUT"}

\* Mutant: the last iteration is refused.
CanEnterShort(u, typ) ==
  /\ ~Closed(u)
  /\ \/ typ = "INIT" /\ u.current_stage = "NEW"
     \/ typ = "WITER" /\ u.current_stage = "INITIALIZED" /\ u.current_work_iter = 0
     \/ typ = "WITER" /\ u.current_stage = "WORKING"
                      /\ u.current_work_iter < u.nb_iterations - 1
     \/ typ = "FINISH" /\ u.current_stage = "WORKED"

\* What enter_stage tests.
CanEnter(u, typ) ==
  /\ ~Closed(u)
  /\ \/ typ = "INIT" /\ u.current_stage = "NEW"
     \/ typ = "WITER" /\ u.current_stage = "INITIALIZED" /\ u.current_work_iter = 0
     \/ typ = "WITER" /\ u.current_stage = "WORKING"
                      /\ u.current_work_iter < u.nb_iterations
     \/ typ = "FINISH" /\ u.current_stage = "WORKED"

\* The stores of enter_stage on its valid path: the stage, then the rest.
EnterMark(u, typ) == [u EXCEPT !.current_stage = StageOf[typ]]

\* Mutant: the completion of the stage before is left as it was.
EnterFillUnmarked(u, typ) ==
  [u EXCEPT !.current_work_iter = IF typ = "WITER" THEN @ + 1 ELSE @]

EnterFill(u, typ) ==
  [u EXCEPT !.current_completion = "TO_BE_CONTINUED",
            !.current_work_iter = IF typ = "WITER" THEN @ + 1 ELSE @]

\* The store of enter_stage on its invalid path.
Refuse(u) == [u EXCEPT !.current_completion = "ERROR"]

\* Mutants: the work stage is left one iteration late, or one early.
QuitToLate(u) ==
  CASE u.current_stage = "INITIALIZING" -> <<"INITIALIZED", "COMPLETED">>
    [] u.current_stage = "WORKING" /\ u.current_work_iter <= u.nb_iterations
         -> <<"WORKING", "TO_BE_CONTINUED">>
    [] u.current_stage = "WORKING" /\ u.current_work_iter > u.nb_iterations
         -> <<"WORKED", "COMPLETED">>
    [] u.current_stage = "FINISHING" -> <<"FINISHED", "COMPLETED">>
    [] OTHER -> <<u.current_stage, "ERROR">>

QuitToEarly(u) ==
  CASE u.current_stage = "INITIALIZING" -> <<"INITIALIZED", "COMPLETED">>
    [] u.current_stage = "WORKING" /\ u.current_work_iter < u.nb_iterations - 1
         -> <<"WORKING", "TO_BE_CONTINUED">>
    [] u.current_stage = "WORKING" /\ u.current_work_iter >= u.nb_iterations - 1
         -> <<"WORKED", "COMPLETED">>
    [] u.current_stage = "FINISHING" -> <<"FINISHED", "COMPLETED">>
    [] OTHER -> <<u.current_stage, "ERROR">>

\* The stage and the completion that quit_stage goes to from an open use case.
QuitTo(u) ==
  CASE u.current_stage = "INITIALIZING" -> <<"INITIALIZED", "COMPLETED">>
    [] u.current_stage = "WORKING" /\ u.current_work_iter < u.nb_iterations
         -> <<"WORKING", "TO_BE_CONTINUED">>
    [] u.current_stage = "WORKING" /\ u.current_work_iter >= u.nb_iterations
         -> <<"WORKED", "COMPLETED">>
    [] u.current_stage = "FINISHING" -> <<"FINISHED", "COMPLETED">>
    [] OTHER -> <<u.current_stage, "ERROR">>

\* One whole iteration always runs, whatever the maximum of the work stage.
Iterations(u) == IF u.nb_iterations > 1 THEN u.nb_iterations ELSE 1
=============================================================================
